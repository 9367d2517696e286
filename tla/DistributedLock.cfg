SPECIFICATION FairSpec
CONSTANTS
  Processes = {p1, p2}
  Slots = {s1}
  MaxId = 4
  LockTTL = 2
  CacheTTL = 1
  MaxDelay = 1
  MaxFaults = 1
  Cleanup = TRUE
  Cleaner = Cleaner
  NoId = NoId
  NoLease = NoLease
INVARIANTS
  TypeOK
  Exclusive
  OneActiveRow
PROPERTIES
  NeverWedged

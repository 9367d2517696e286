SPECIFICATION FairSpec
CONSTANTS
  Events = {e1, e2, e3}
  MaxRetries = 2
  Crashes = TRUE
CHECK_DEADLOCK FALSE
INVARIANTS
  TypeOK
  ChainIntact
  NoFalseAlarm
  RecordedOnce
  LossNeedsContention
PROPERTIES
  IsALog
  EmitEnds

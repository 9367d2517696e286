SPECIFICATION HSpec
CONSTANTS
  Requests = {r1, r2, r3, r4}
  Voters = {v1, v2}
  Rules = {maj1, maj2}
  Ops = {"cast", "transition", "change", "patch", "assign", "revoke", "manual", "export"}
  Targets = {"OUVERT", "SUSPENDU", "CLOS", "VALIDE"}
  MaxWeight = 2
  ChairDiscipline = "free"
  VoterSerial = FALSE
  Crashes = {"check", "proxies", "insert", "count", "save", "tally", "sum", "find", "write", "manual", "export", "assign"}
  InitDek = InitDek
  NoDek = NoDek
  NoDoc = NoDoc
  NoUser = NoUser
  NoResult = NoResult
SYMMETRY Symmetry
CHECK_DEADLOCK FALSE
INVARIANTS
  TypeOK
  CountBound
  SecretHasKey
  WeightIsHeld
  ResultCountsBallots
  ClosedIsTallied

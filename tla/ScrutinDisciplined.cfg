SPECIFICATION Spec
CONSTANTS
  Requests = {r1, r2, r3, r4, r5}
  Voters = {v1, v2, v3}
  Rules = {maj1, maj2}
  Ops = {"cast", "transition", "change", "patch", "assign", "revoke", "manual", "export"}
  Targets = {"OUVERT", "SUSPENDU", "CLOS", "VALIDE"}
  MaxWeight = 2
  ChairDiscipline = "exclusive"
  VoterSerial = TRUE
  Crashes = {"check", "proxies", "insert", "save", "manual", "export", "assign"}
  InitDek = InitDek
  NoDek = NoDek
  NoDoc = NoDoc
  NoUser = NoUser
  NoResult = NoResult
SYMMETRY Symmetry
CHECK_DEADLOCK FALSE
INVARIANTS
  OneBallotPerVoter
  TallyComplete
  OneDelegation
PROPERTIES
  FrozenAfterFirstBallot
  KeepsPromise

SPECIFICATION Spec
CONSTANTS
  Requests = {r1, r2, r3, r4}
  Voters = {v1, v2}
  Rules = {maj1, maj2}
  Ops = {"cast", "transition"}
  Targets = {"OUVERT", "SUSPENDU", "CLOS", "VALIDE"}
  MaxWeight = 2
  ChairDiscipline = "exclusive"
  VoterSerial = FALSE
  Crashes = {}
  InitDek = InitDek
  NoDek = NoDek
  NoDoc = NoDoc
  NoUser = NoUser
  NoResult = NoResult
SYMMETRY Symmetry
CHECK_DEADLOCK FALSE
INVARIANT
  OneBallotPerVoter

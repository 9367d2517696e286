SPECIFICATION Spec
CONSTANTS
  Requests = {r1, r2}
  Senators = {u1, u2}
  SeatCounts = {1, 2}
  Quorums = {1, 2}
  MaxRows = 2
  None = None
  Clerks = {k1, k2}
  Points = {p1, p2}
  Ranks = {0, 1}
  NoPoint = NoPoint
  Writers = {w1, w2}
  DocIds = {d1, d2, d3, d4}
  Amendments = {a1, a2}
  Members = {m1, m2}
  MaxVersion = 3
  MaxEdges = 2
  NoDoc = NoDoc
CONSTRAINT Bounded
INVARIANTS
  TypeOK
  QuorumWithinSeats
  OneRowEach
  OneActivePoint
  VersionsAreNumbered
  EachHearsOnce
PROPERTIES
  ClosedIsFinal
  DecidedOnce
  InUseIsKept
CHECK_DEADLOCK FALSE

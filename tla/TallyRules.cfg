SPECIFICATION Spec
CONSTANTS
  Seats = {1, 2, 3, 6, 10, 25}
  Weights = {0, 1, 2}
  MaxCounted = 14
  Thresholds <- MCThresholds
  RoundsUp <- MCRoundsUp
  NoSeats = NoSeats
  NoThreshold = NoThreshold
  NoDecision = NoDecision
CHECK_DEADLOCK FALSE
INVARIANTS
  TypeOK
  AdoptedIsReached
  ReachedIsAdopted
PROPERTY
  Monotone

SPECIFICATION Spec
CONSTANTS
  Events = {e1, e2, e3}
  MaxRetries = 2
  Crashes = FALSE
CHECK_DEADLOCK FALSE
INVARIANT
  FailureDetected

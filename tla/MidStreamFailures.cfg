\* Completions that fail after they connected.
SPECIFICATION Spec
CONSTANTS
  Calls = {c1, c2}
  MaxAttempts = 2
  FailureThreshold = 2
  ResetTimeout = 1
  MaxNow = 2
INVARIANT
  RepeatedFailuresTrip

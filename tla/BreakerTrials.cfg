\* Calls that find the breaker half-open.
SPECIFICATION Spec
CONSTANTS
  Calls = {c1, c2, c3, c4}
  MaxAttempts = 1
  FailureThreshold = 2
  ResetTimeout = 1
  MaxNow = 2
SYMMETRY Symmetry
INVARIANT
  SingleTrial

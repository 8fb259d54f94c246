\* A crash only.
SPECIFICATION Spec
CONSTANTS
  Requests = {q1, q2}
  Keys = {k1, k2}
  NoRequest = NoRequest
  MaxTokens = 1
  MaxCrashes = 1
  MaxShutdowns = 0
  MaxDbFaults = 0
CHECK_DEADLOCK FALSE
INVARIANT
  NeverStuckRunning

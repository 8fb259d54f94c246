\* Liveness and the contract, with a crash, a shutdown and a failing statement.
SPECIFICATION FairSpec
CONSTANTS
  Requests = {q1, q2}
  Keys = {k1, k2}
  NoRequest = NoRequest
  MaxTokens = 1
  MaxCrashes = 1
  MaxShutdowns = 1
  MaxDbFaults = 1
CHECK_DEADLOCK FALSE
PROPERTIES
  RunsSettle
  CancelSettles
  ResponsesEnd
  ClosingEnds
  ImplementsContract

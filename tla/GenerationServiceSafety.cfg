\* Three requests with two keys, a crash, a shutdown and two failing statements.
SPECIFICATION Spec
CONSTANTS
  Requests = {q1, q2, q3}
  Keys = {k1, k2}
  NoRequest = NoRequest
  MaxTokens = 1
  MaxCrashes = 1
  MaxShutdowns = 1
  MaxDbFaults = 2
SYMMETRY Symmetry
CHECK_DEADLOCK FALSE
INVARIANTS
  CancelWins
  ToldTheTruth
  Attended
  StrandedOnlyByFailure
  ControllersAreLive
  NoLostUpdate
  OneRunPerKey
  TokensAccounted
  SseOrder
  MetricsConserved
PROPERTIES
  TerminalIsFinal

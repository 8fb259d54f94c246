\* Both modes of the engine; three mock engines with one restart in a window of two
\* time units; two connections.
SPECIFICATION NodeFairSpec
CONSTANTS
  Modes = {"mock", "llama-cpp"}
  MaxRestarts = 1
  RestartWindow = 2
  MaxStarts = 3
  MaxNow = 2
  Requests = {q1, q2}
CHECK_DEADLOCK FALSE
INVARIANTS
  TornDownInOrder
  RestartBudget
  ReadyIsEarned
PROPERTIES
  SpawnsInTurn
  StartsReturn
  ShutdownEnds
  FollowsEngine

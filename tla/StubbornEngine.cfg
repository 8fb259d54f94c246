\* One child that does not obey SIGTERM in time.
SPECIFICATION Spec
CONSTANTS
  Modes = {"mock"}
  MaxRestarts = 2
  RestartWindow = 2
  MaxStarts = 1
  MaxNow = 0
CHECK_DEADLOCK FALSE
INVARIANTS
  NoEngineAfterStop

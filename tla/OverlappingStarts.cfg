\* Two start() calls: the older one times out last.
SPECIFICATION Spec
CONSTANTS
  Modes = {"mock"}
  MaxRestarts = 2
  RestartWindow = 2
  MaxStarts = 2
  MaxNow = 0
CHECK_DEADLOCK FALSE
PROPERTIES
  StaysReady

SPECIFICATION Spec
CONSTANTS
  Homed = TRUE
  Tasks = {}
  MaxCommands = 2
  MaxTrouble = 0
INVARIANT StoppedAfterAbort

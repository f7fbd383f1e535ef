SPECIFICATION FairSpec
CONSTANTS
  Homed = FALSE
  Tasks = {}
  MaxCommands = 1
  MaxTrouble = 0
PROPERTY AbortCompletes

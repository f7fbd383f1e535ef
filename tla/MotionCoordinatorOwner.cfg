SPECIFICATION Spec
CONSTANTS
  Homed = TRUE
  Tasks = {"P2_CALIBRATION", "P3_CALIBRATION"}
  MaxCommands = 2
  MaxTrouble = 0
INVARIANT ActiveTaskOwns

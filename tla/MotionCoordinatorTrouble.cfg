SPECIFICATION Spec
CONSTANTS
  Homed = TRUE
  Tasks = {"P2_CALIBRATION", "P3_CALIBRATION", "XY_ALIGN", "P4_XZ_ALIGN"}
  MaxCommands = 2
  MaxTrouble = 1
INVARIANTS TypeOK  AbortLocksOut 
PROPERTY HoldSurvives

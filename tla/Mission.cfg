SPECIFICATION MissionAndCan
CONSTANTS
  MaxAttempts = 3
  MaxRecoveries = 1
  StableSamples = 1
  MaxSegments = 1
  Unhomed = {}
  Tasks = {"RED_PICK", "TAG_PUT"}
  Flows = {"ALIGN_XY"}
  MaxRestarts = 1
  MaxRequests = 2
  MaxTrouble = 1
  TxSize = 2
  RxSize = 3
  MaxSends = 2
  MaxFaults = 1
INVARIANTS TypeOK MissionOwns FlowBelongs NoOrphanAlign OneAxisMoves PutHolds
INVARIANTS CanTypeOK CommandsUnbroken RepliesOnce
PROPERTIES RecordsTruth NothingAfterLatch NothingIntoOff

SPECIFICATION Spec
CONSTANTS
  Commands <- MixedCommands
  Axes = {"X"}
  History = 2
  QueueDepth = 1
  MaxRecords = 3
  MaxOthers = 1
INVARIANTS TypeOK ActiveIsRunning OwedIsPending
PROPERTY KeepsLife

SPECIFICATION Spec
CONSTANTS
  Commands <- MixedCommands
  Axes = {"X"}
  History = 2
  QueueDepth = 1
  MaxRecords = 2
  MaxOthers = 0
INVARIANT ReleasedAtEnd

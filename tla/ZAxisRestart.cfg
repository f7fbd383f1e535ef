SPECIFICATION Spec
CONSTANTS
  MaxPulses = 1
  AckTicks = 1
  CompletionTicks = 2
  MaxReplies = 2
  MaxTrouble = 1
INVARIANT RestartNotForgotten

SPECIFICATION FairSpec
CONSTANTS
  MaxPulses = 1
  AckTicks = 1
  CompletionTicks = 2
  MaxReplies = 1
  MaxTrouble = 1
PROPERTY Settles

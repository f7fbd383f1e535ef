SPECIFICATION Devices
CONSTANTS
  MaxPulses = 1
  AckTicks = 1
  CompletionTicks = 2
  MaxReplies = 2
  MaxTrouble = 1
  Sensors = {"K230_1"}
  LinkTimeout = 1
  StaleAge = 2
  RecoveryFrames = 2
  AcceptTimeout = 1
  ApplyTimeout = 2
  SeqModulus = 2
  MaxSent = 2
  Blocks = {"align", "pose"}
  Values = {0, 1}
  Default = 0
  Chunks = 2
  Legacy = TRUE
INVARIANTS TypeOK DeadlineArmed IdleOwesNothing CommandWithinLimits RestMeansStill NoSilentDrift
INVARIANTS LinkTypeOK  SentOnce CommandIsBounded ReadyIsEarned ReadyIsFresh
INVARIANTS SurvivesRestart OnlyConfirmedInUse
PROPERTIES KeepsPromise LoadsWhole

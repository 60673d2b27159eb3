CONSTANTS
  calm = calm
  aversive = aversive
  Witness = {w}
  Url = {}
  WitnessOf <- NoUrls
  Threshold = 0
  Asker = {only}
  MaxRound = 0
  MaxMissed = 0
  MaxFaults = 0
  MaxStamps = 0
  MaxEntry = 0
  TrialsPerSession = 7
  CheckpointEvery = 2
  Kinds = {"micro-pk-binary", "precognition-presentiment"}
  ContentWarning = {"precognition-presentiment"}
  Valence = {calm, aversive}
  NoValence = none
  Trials = 3
  Witnessed = TRUE
  MaxSessions = 3
  MaxBreaks = 2
  MaxClears = 1
SPECIFICATION PageFairSpec
INVARIANTS
  RunPagesTypeOK
  QuietUnlessLive
  TraceIsTheRun
  RootsTellWindowsApart
  SignaturesAreAccepted
PROPERTIES
  SealAfterTrace
  LiveViewEnds
  ChoiceIsAnswered
CHECK_DEADLOCK FALSE

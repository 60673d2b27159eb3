CONSTANTS
  calm = calm
  aversive = aversive
  Witness = {w}
  Url = {}
  WitnessOf <- NoUrls
  Threshold = 0
  Asker = {only}
  MaxRound = 0
  MaxMissed = 0
  MaxFaults = 0
  MaxStamps = 0
  MaxEntry = 0
  TrialsPerSession = 7
  CheckpointEvery = 2
  Kinds = {"micro-pk-binary", "precognition-presentiment"}
  ContentWarning = {"precognition-presentiment"}
  Valence = {calm, aversive}
  NoValence = none
  Trials = 3
  Witnessed = TRUE
  MaxSessions = 2
  MaxBreaks = 1
  MaxClears = 0
SPECIFICATION PageSpec
INVARIANTS
  NothingOutlivesItsPage
CHECK_DEADLOCK FALSE

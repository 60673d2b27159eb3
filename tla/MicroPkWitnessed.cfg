CONSTANTS
  w1 = w1
  w2 = w2
  u1 = u1
  u2 = u2
  u3 = u3
  Witness = {w1, w2}
  Url = {u1, u2, u3}
  WitnessOf <- TwoUrlsOneWitness
  Threshold = 2
  Asker = {run}
  MaxRound = 1
  MaxMissed = 1
  MaxFaults = 1
  MaxStamps = 0
  MaxEntry = 8
  TrialsPerSession = 3
  CheckpointEvery = 2
SPECIFICATION FairSpec
INVARIANTS
  TypeOK
  SealMatchesFeeds
  RoundsAscend
  FeedsAscend
  SealedPassesVerify
  DropsAreFlagged
PROPERTIES
  ImplementsCosignedStream
  RunEnds
CHECK_DEADLOCK FALSE

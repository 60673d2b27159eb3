CONSTANTS
  w1 = w1
  u1 = u1
  u2 = u2
  calm = calm
  aversive = aversive
  h1 = h1
  h2 = h2
  Witness = {w1}
  Url = {}
  WitnessOf <- NoUrls
  Threshold = 0
  Asker = {h1, h2, open, seal}
  MaxRound = 3
  MaxMissed = 0
  MaxFaults = 0
  MaxStamps = 0
  MaxEntry = 0
  Choice = {calm, aversive}
  NoChoice = none
  Vocabulary <- CalmFirst
  Digest <- DigestOf
  Pool <- OneCalmTwoAversive
  Handler = {h1, h2}
  OpenAsk = open
  SealAsk = seal
  Trials = 2
  Offset = 1
  MaxExtra = 1
  StoreMayFail = FALSE
SPECIFICATION Spec
INVARIANTS
  RecordsVerify
CHECK_DEADLOCK FALSE

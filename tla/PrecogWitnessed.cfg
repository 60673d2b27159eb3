CONSTANTS
  w1 = w1
  u1 = u1
  u2 = u2
  calm = calm
  aversive = aversive
  h1 = h1
  h2 = h2
  Witness = {w1}
  Url = {u1, u2}
  WitnessOf <- BothToOne
  Threshold = 1
  Asker = {h1, open, seal}
  MaxRound = 3
  MaxMissed = 1
  MaxFaults = 1
  MaxStamps = 1
  MaxEntry = 1
  Choice = {calm, aversive}
  NoChoice = none
  Vocabulary <- CalmFirst
  Digest <- DigestOf
  Pool <- OneCalmTwoAversive
  Handler = {h1}
  OpenAsk = open
  SealAsk = seal
  Trials = 2
  Offset = 1
  MaxExtra = 0
  StoreMayFail = TRUE
SPECIFICATION FairSpec
INVARIANTS
  TypeOK
  RecordsVerify
  SealCarriesWitnesses
  SealedPassesVerify
  StampsBind
PROPERTIES
  EveryChoiceIsAnswered
CHECK_DEADLOCK FALSE

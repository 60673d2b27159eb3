CONSTANTS
  s1 = s1
  s2 = s2
  alice = alice
  bob = bob
  Session = {s1, s2}
  NoSession = NoSession
  MaxSigns = 2
  MaxAnchors = 1
  MaxFaults = 1
  TornWrites = TRUE
  LiveAnchor = TRUE
  Attended = {s2}
  Operator = {alice, bob}
  OperatorOf <- OneEach
  ChoiceOf <- Choices2
  OutcomeOf <- Outcomes2
  ExperimentOf <- Experiments2
  MinSessions = 1
  Tiers <- MCTiers
  MaxContacts = 1
SPECIFICATION RecordFairSpec
INVARIANTS
  RecordTypeOK
  CacheTrue
  SealedIsPublic
  ContactsEarned
  RankIsAPlace
  TotalsAgree
  AtMostOncePerSession
PROPERTIES
  OpenSessionsSettle
CHECK_DEADLOCK FALSE

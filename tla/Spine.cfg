CONSTANTS
  Session = {s1, s2, s3}
  NoSession = NoSession
  MaxSigns = 2
  MaxAnchors = 1
  MaxFaults = 2
  TornWrites = FALSE
  LiveAnchor = FALSE
  Attended = {}
SPECIFICATION Spec
INVARIANTS
  TypeOK
  IntactUntilAFault
  OpenBindsHead
  SealNamesItsOpen
  FaultsOnlyLoseEntries
PROPERTIES
  RunsAreFinal
  ImplementsSessionLog
SYMMETRY Symmetry

CONSTANTS
  Session = {s1, s2}
  NoSession = NoSession
  MaxSigns = 1
  MaxAnchors = 1
  MaxFaults = 0
  TornWrites = FALSE
  LiveAnchor = TRUE
  Attended = {}
SPECIFICATION Spec
INVARIANTS
  ChainIntact
SYMMETRY Symmetry

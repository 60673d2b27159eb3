CONSTANTS
  Session = {s1, s2}
  NoSession = NoSession
  MaxSigns = 1
  MaxAnchors = 0
  MaxFaults = 1
  TornWrites = TRUE
  LiveAnchor = FALSE
  Attended = {}
SPECIFICATION Spec
INVARIANTS
  ResumesFromItsFile
SYMMETRY Symmetry
CHECK_DEADLOCK FALSE

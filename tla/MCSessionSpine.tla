--------------------------- MODULE MCSessionSpine ---------------------------
EXTENDS SessionSpine, TLC

Symmetry == Permutations(Session)
=============================================================================

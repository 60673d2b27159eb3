----------------------------- MODULE MCMicroPk ------------------------------
EXTENDS MicroPkAudit, TLC

CONSTANTS w1, w2, u1, u2, u3

\* Two urls lead to the same witness.
TwoUrlsOneWitness == u1 :> w1 @@ u2 :> w1 @@ u3 :> w2
=============================================================================

------------------------------ MODULE MCPrecog ------------------------------
EXTENDS PrecogAudit, TLC

CONSTANTS w1, u1, u2, calm, aversive, h1, h2

\* One call may time out, a restart loses both.
BothToOne == u1 :> w1 @@ u2 :> w1

OneOnly == u1 :> w1

NoUrls == <<>>

Symmetry == Permutations({h1, h2})

CalmFirst == 0 :> calm @@ 1 :> aversive

OneCalmTwoAversive == 0 :> 1 @@ 1 :> 2

\* Neighbouring rounds, and neighbouring trials, destine different images.
DigestOf(round, index) == round + 3 * index
=============================================================================

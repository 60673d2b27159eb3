--------------------------- MODULE MCPublicRecord ---------------------------
EXTENDS PublicRecord, TLC

CONSTANTS s1, s2, alice, bob

\* Alice's session alone makes a candidate; Bob's only scores.
OneEach == s1 :> alice @@ s2 :> bob
Choices2 == s1 :> "LOW" @@ s2 :> ""

\* z = -3 and z = 1.
Outcomes2 == s1 :> [ones |-> 2, nSamples |-> 16]
          @@ s2 :> [hits |-> 3, trials |-> 4, optionsPerTrial |-> 2]
Experiments2 == s1 :> "micro-pk" @@ s2 :> "precognition"

\* ln W in two-hundredths.
MCTiers == <<0, 100, 400>>
=============================================================================

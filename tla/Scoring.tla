------------------------------ MODULE Scoring -------------------------------
(***************************************************************************)
(* The display scores: the z of a sealed session (packages/core/src:       *)
(* kinds.ts, scoring.ts) and the psi score of an operator (psi.ts).        *)
(*                                                                         *)
(* A z is counted in tenths, and ln W in two-hundredths.  The mixture over *)
(* the grid is taken by its largest component, which is within ln 4 of it. *)
(***************************************************************************)
EXTENDS Integers, Sequences, FiniteSets, FiniteSetsExt, Functions

CONSTANTS
  MinSessions,   \* PSI_CANDIDATE_MIN_SESSIONS
  Tiers          \* PSI_TIERS: the ln W at which each tier is reached; the last is "Candidate"

ASSUME ScoringAssumption ==
  /\ MinSessions \in Nat \ {0}
  /\ Tiers \in Seq(Int) /\ Len(Tiers) > 1

-----------------------------------------------------------------------------
(* The z of a session.                                                       *)

\* Math.sqrt, rounded down.
Sqrt(x) == Max({r \in 0..x : r * r <= x})

\* (hits - n p) / sqrt(n p (1 - p)) for p = 1 / options; sessionZ is that of
\* two options.
HitRateZ(hits, n, options) == (10 * (options * hits - n)) \div Sqrt(n * (options - 1))

\* The counts of a seal; hitRateZ throws at a chance rate that is not below 1.
Outcome == [ones : Nat, nSamples : Nat]
             \cup [hits : Nat, trials : Nat, optionsPerTrial : Nat \ {0, 1}]

IsMicroPkSeal(seal) == {"ones", "nSamples"} \subseteq DOMAIN seal

IsPrecogSeal(seal) == {"hits", "trials", "optionsPerTrial"} \subseteq DOMAIN seal

\* The kind of a session is told by the shape of its seal.  A seal of neither shape
\* has no z (null); every Outcome has one of the two.
DisplayZ(seal) ==
  CASE IsMicroPkSeal(seal) ->
         IF seal.nSamples > 0 THEN HitRateZ(seal.ones, seal.nSamples, 2) ELSE 0
    [] IsPrecogSeal(seal) ->
         IF seal.trials > 0 THEN HitRateZ(seal.hits, seal.trials, seal.optionsPerTrial) ELSE 0

-----------------------------------------------------------------------------
(* The psi score, of pairs of a choice and a z; unsealed sessions have none. *)
(* Pairs are kept by their places in the ledger.                             *)

Total(f) == FoldFunction(+, 0, f)

\* BASELINE calibrates, and of an unknown vocabulary no direction is guessed.
Scores(pair) == pair.sealed /\ pair.choice \in {"HIGH", "LOW", ""}

DirectionalZ(pair) == IF pair.choice = "LOW" THEN -pair.z ELSE pair.z

Grid == {1, 2, 4, 8}

LogWealth(n, sum) == IF n = 0 THEN 0 ELSE Max({2 * d * sum - n * d * d : d \in Grid})

IsCandidate(n, wealth) == wealth >= Tiers[Len(Tiers)] /\ n >= MinSessions

\* The badge is held one rung below until the floor is met.
Tier(n, wealth) ==
  LET reached == Max({1} \cup {i \in DOMAIN Tiers : wealth >= Tiers[i]})
  IN IF reached = Len(Tiers) /\ ~IsCandidate(n, wealth) THEN Len(Tiers) - 1 ELSE reached

PsiScore(n, sum) ==
  LET wealth == LogWealth(n, sum)
  IN [scored |-> n, wealth |-> wealth, tier |-> Tier(n, wealth),
      isCandidate |-> IsCandidate(n, wealth)]

PsiScoreFromSessions(pairs) ==
  LET scored == {i \in DOMAIN pairs : Scores(pairs[i])}
  IN PsiScore(Cardinality(scored), Total([i \in scored |-> DirectionalZ(pairs[i])]))

\* trendCard: the score after each session of a list.
Trend(list) ==
  [i \in DOMAIN list |-> PsiScoreFromSessions(Restrict(list, {j \in DOMAIN list : j <= i}))]
=============================================================================

------------------------------- MODULE Audit --------------------------------
(***************************************************************************)
(* What an auditor makes of the co-signatures that a sealed session        *)
(* carries: verifyAttestations of packages/client/src/verify.ts (and of    *)
(* analysis/analyze.py, which does the same), and witnessQuorum of         *)
(* packages/core/src/witness.ts.                                           *)
(***************************************************************************)
EXTENDS WitnessFeeds

\* The statement is put together again from the artifact: the signature holds
\* when it was made over this very subject.
Signed(att, subject) == att.subject = subject

VerifyAttestations(atts, subject) ==
  [distinct |-> {att.witness : att \in {a \in atts : Signed(a, subject)}},
   sigsOk   |-> \A att \in atts : Signed(att, subject),
   timingOk |-> subject.target # NoTarget => \A att \in atts : att.round < subject.target]

\* The auditor's own trusted keys and threshold, nothing that the server says.
WitnessQuorum(verified, trusted, threshold) ==
  threshold >= 1 /\ Cardinality({att.witness : att \in verified} \cap trusted) >= threshold
=============================================================================

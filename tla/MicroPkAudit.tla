---------------------------- MODULE MicroPkAudit ----------------------------
(***************************************************************************)
(* The verifiers of a micro-PK session against the run of MicroPk: the     *)
(* browser (packages/client/src/verify.ts), analysis/analyze.py with the   *)
(* published blob, and its cross-check of the witnesses' own feeds.        *)
(***************************************************************************)
EXTENDS MicroPk, Audit

OpenCheck == VerifyAttestations(seal.openWitness, OpenSubject)
SealCheck == VerifyAttestations(seal.sealWitness, SealSubject)

CheckpointChecks ==
  [i \in DOMAIN seal.checkpoints |-> VerifyAttestations(seal.checkpoints[i], CheckpointSubject(i))]

\* The keys that verified anywhere in the session.
DistinctKeys ==
  OpenCheck.distinct \cup SealCheck.distinct \cup
  UNION {CheckpointChecks[i].distinct : i \in DOMAIN seal.checkpoints}

SignaturesOk ==
  OpenCheck.sigsOk /\ SealCheck.sigsOk /\ \A i \in DOMAIN seal.checkpoints : CheckpointChecks[i].sigsOk

\* verifyMicroPkWitness
BrowserAccepts ==
  /\ SignaturesOk
  /\ seal.checkpoints # <<>>
  /\ OpenCheck.distinct # {} /\ SealCheck.distinct # {}
  /\ Cardinality(DistinctKeys) >= Threshold

\* _micropk_witness: each checkpoint root re-derives from the leaves of the blob.
RootsRederive ==
  LET leaves == Split(seal.samples, seal.leaf)
  IN \A i \in DOMAIN seal.checkpoints : SubSeq(leaves, 1, i) = SubSeq(windows, 1, i)

\* verify_blob: the sealed root does, too.
AnalyzerAccepts ==
  /\ Split(seal.samples, seal.leaf) = windows
  /\ Enabled => RootsRederive /\ SignaturesOk /\ Cardinality(DistinctKeys) >= Threshold

\* verify_witness_feed, over the feed of w: opened and never sealed.
FlaggedBy(w) ==
  /\ \E att \in Entries(w) : att.subject.kind = "open"
  /\ pc # "sealed"

-----------------------------------------------------------------------------
(* Correctness.                                                              *)

\* PSI-VERIFY: what the server seals is the whole session, its blob splits into
\* the windows that were committed, the short last one included, it passes the
\* browser and the analyzer, the keys that it lists are those that verify, and an
\* auditor's own policy, whichever keys it trusts, finds no quorum that the feeds
\* of those witnesses do not hold.
SealedPassesVerify ==
  pc = "sealed" /\ Enabled =>
    /\ seal.samples = TrialsPerSession
    /\ BrowserAccepts
    /\ AnalyzerAccepts
    /\ seal.keys = DistinctKeys
    /\ LET verified == UNION {SealedStages[i] : i \in DOMAIN SealedStages}
       IN \A trusted \in SUBSET Witness : \A k \in 1..Cardinality(Witness) :
            WitnessQuorum(verified, trusted, k) =>
              Cardinality({w \in trusted : \E att \in Entries(w) : att \in verified}) >= k

\* PSI-WITNESS: a run that read anything of its stream and was then dropped, by a
\* fault or on purpose, is flagged by the feeds of a quorum: "the auditor can
\* detect started-but-unsealed runs".
DropsAreFlagged ==
  pc = "failed" /\ windows # <<>> /\ Enabled =>
    Cardinality({w \in Witness : FlaggedBy(w)}) >= Threshold
=============================================================================

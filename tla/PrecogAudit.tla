---------------------------- MODULE PrecogAudit -----------------------------
(***************************************************************************)
(* The verifiers of a precognition session against the run of Precog: the  *)
(* browser (verifyPrecogTrials of packages/client/src/verify.ts) and       *)
(* analysis/analyze.py.  A hash stands for what it is of: that the raw     *)
(* blob and the pixels match theirs is left out.                           *)
(***************************************************************************)
EXTENDS Precog, Audit

TrialIndices == DOMAIN sealed.records

TrialCheck(i) == VerifyAttestations(sealed.records[i].witness, Subject("choice", sealed.records[i].commit))

OpenCheck == VerifyAttestations(sealed.openWitness, Subject("open", NoCommit))
SealCheck == VerifyAttestations(sealed.sealWitness, Subject("seal", NoCommit))

\* Variant: the browser takes any signature of the operator for this one.
AnySignature(record) == record.sig # NoCommit

\* The commit is put together again from the record.
ChoiceSigned(record) == record.sig = record.commit

FutureTarget(record) == record.commit.target > record.commit.prev

\* From the beacon value of the record, which neither verifier compares with the
\* value of targetRound.
ImageDerived(record) == record.target = DeriveTarget(record.beacon, record.commit.index)

HitAgrees(record) == record.hit = IsHit(record.commit.choice, record.target)

TrialsHold ==
  \A i \in TrialIndices :
    LET r == sealed.records[i]
    IN ChoiceSigned(r) /\ FutureTarget(r) /\ ImageDerived(r) /\ HitAgrees(r)

\* The total that the seal states.
Hits == Cardinality({i \in TrialIndices : sealed.records[i].hit})

\* Keys are counted over the whole session, in both verifiers.
QuorumHolds ==
  Cardinality(OpenCheck.distinct \cup SealCheck.distinct \cup
              UNION {TrialCheck(i).distinct : i \in TrialIndices}) >= Threshold

\* verifyPrecogTrials: a session that says it was witnessed has every trial
\* witnessed.
BrowserAccepts ==
  /\ TrialsHold
  /\ Enabled =>
       /\ sealed.records # <<>>
       /\ \A i \in TrialIndices : /\ sealed.records[i].witness # {}
                                  /\ TrialCheck(i).sigsOk /\ TrialCheck(i).timingOk
       /\ QuorumHolds

\* _precog_witness: a trial with no attestation is no bad one.
AnalyzerAccepts ==
  /\ TrialsHold
  /\ Enabled =>
       /\ \A i \in TrialIndices : TrialCheck(i).sigsOk /\ TrialCheck(i).timingOk
       /\ OpenCheck.sigsOk /\ SealCheck.sigsOk
       /\ QuorumHolds

-----------------------------------------------------------------------------
(* Correctness.                                                              *)

\* PSI-VERIFY: a session that its page drove passes every verifier.
SealedPassesVerify == outcome = "sealed" => BrowserAccepts /\ AnalyzerAccepts

\* Whatever a client sends, and in whatever order, the browser and the analyzer
\* say the same of the session that gets sealed, and one that they accept is what
\* it claims: each trial once, in order, as many as the experiment has, each
\* choice in the server's hands before its target was public, and as many hits as
\* signed choices that foretold what their target rounds then destined.
AcceptedIsGenuine ==
  outcome = "sealed" =>
    /\ BrowserAccepts <=> AnalyzerAccepts
    /\ BrowserAccepts =>
         /\ Len(sealed.records) = Trials
         /\ \A i \in TrialIndices :
              LET r == sealed.records[i]
              IN r.sig.index = i - 1 /\ r.signedAt < r.sig.target
         /\ Hits = Cardinality({i \in 1..Trials :
                     LET sig == sealed.records[i].sig
                     IN sig.choice = Vocabulary[Digest(sig.target, i - 1) % 2]})
=============================================================================

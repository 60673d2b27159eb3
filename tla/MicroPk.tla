------------------------------ MODULE MicroPk -------------------------------
(***************************************************************************)
(* The run of a micro-PK session (packages/server/src/kinds/microPk.ts)    *)
(* among its witnesses: what SessionSpine abstracts to SealSession,        *)
(* SealFails and RunFails.                                                 *)
(*                                                                         *)
(* The root over the first n windows is written n, and 0 stands for the    *)
(* session.open entry: what is in a window cannot change who signs what.   *)
(***************************************************************************)
EXTENDS WitnessFeeds

CONSTANTS
  TrialsPerSession,        \* p.trialsPerSession
  CheckpointEvery          \* p.checkpointEveryTrials

ASSUME MicroPkAssumption ==
  /\ Asker # {}
  /\ TrialsPerSession \in Nat \ {0}
  /\ CheckpointEvery \in Nat \ {0}

VARIABLES
  pc,           \* what generateAndSeal awaits, or how it ended
  windows,      \* trials of each window read so far: the leaves of the Merkle tree
  openWitness,  \* attestations of the open
  checkpoints,  \* attestations of each checkpoint
  seal          \* payload of the session.seal entry, once there is one

runVars == <<pc, windows, openWitness, checkpoints, seal>>
vars == <<feedVars, runVars>>

Run == CHOOSE a \in Asker : TRUE

Sum(s) == LET f[i \in 0..Len(s)] == IF i = 0 THEN 0 ELSE f[i-1] + s[i] IN f[Len(s)]

trial == Sum(windows)

Subject(kind, n) == [kind |-> kind, body |-> n, target |-> NoTarget]
OpenSubject == Subject("open", 0)
CheckpointSubject(n) == Subject("checkpoint", n)
SealSubject == Subject("seal", Len(windows))

NoSeal == [samples |-> 0, leaf |-> 0, openWitness |-> {}, checkpoints |-> <<>>, sealWitness |-> {},
           keys |-> {}]

PcState == {"start", "open", "read", "checkpoint", "seal", "sealed", "failed"}

Init ==
  /\ FeedInit
  /\ pc = "start"
  /\ windows = <<>>
  /\ openWitness = {}
  /\ checkpoints = <<>>
  /\ seal = NoSeal

-----------------------------------------------------------------------------
(* generateAndSeal, one action per stretch between two awaits.               *)

\* handleStream starts the run; with no witness it goes straight to the source.
Start ==
  /\ pc = "start"
  /\ IF Enabled
     THEN Ask(Run, OpenSubject) /\ pc' = "open"
     ELSE UNCHANGED feedVars /\ pc' = "read"
  /\ UNCHANGED <<windows, openWitness, checkpoints, seal>>

\* attestQuorum throws, wherever the run awaits it: nothing is retried.
QuorumShort ==
  /\ pc \in {"open", "checkpoint", "seal"}
  /\ Returned(Run)
  /\ ~QuorumReached(Run)
  /\ pc' = "failed"
  /\ UNCHANGED <<windows, openWitness, checkpoints, seal>>

OpenWitnessed ==
  /\ pc = "open"
  /\ Returned(Run)
  /\ QuorumReached(Run)
  /\ openWitness' = asks[Run].got
  /\ pc' = "read"
  /\ UNCHANGED <<windows, checkpoints, seal>>

\* Variant: every batch is a full window.
FullBatch == CheckpointEvery

BatchTrials ==
  IF TrialsPerSession - trial < CheckpointEvery THEN TrialsPerSession - trial ELSE CheckpointEvery

\* ctx.source.read resolves.
ReadBlock ==
  /\ pc = "read"
  /\ trial < TrialsPerSession
  /\ windows' = Append(windows, BatchTrials)
  /\ IF Enabled
     THEN Ask(Run, CheckpointSubject(Len(windows) + 1)) /\ pc' = "checkpoint"
     ELSE UNCHANGED feedVars /\ pc' = "read"
  /\ UNCHANGED <<openWitness, checkpoints, seal>>

CheckpointWitnessed ==
  /\ pc = "checkpoint"
  /\ Returned(Run)
  /\ QuorumReached(Run)
  /\ checkpoints' = Append(checkpoints, asks[Run].got)
  /\ pc' = "read"
  /\ UNCHANGED <<windows, openWitness, seal>>

\* The source, or the blob store, throws.
RunFails ==
  /\ pc = "read"
  /\ pc' = "failed"
  /\ UNCHANGED <<feedVars, windows, openWitness, checkpoints, seal>>

KeysOf(atts) == {att.witness : att \in atts}

Payload(sealWitness) ==
  [samples |-> trial, leaf |-> CheckpointEvery, openWitness |-> openWitness,
   checkpoints |-> checkpoints, sealWitness |-> sealWitness,
   keys |-> KeysOf(openWitness \cup sealWitness \cup UNION {checkpoints[i] : i \in DOMAIN checkpoints})]

\* All windows are read: the blob is written and the seal co-signed, if there
\* are witnesses.
AskSeal ==
  /\ pc = "read"
  /\ trial >= TrialsPerSession
  /\ IF Enabled
     THEN Ask(Run, SealSubject) /\ pc' = "seal" /\ UNCHANGED seal
     ELSE UNCHANGED feedVars /\ pc' = "sealed" /\ seal' = Payload({})
  /\ UNCHANGED <<windows, openWitness, checkpoints>>

SealWitnessed ==
  /\ pc = "seal"
  /\ Returned(Run)
  /\ QuorumReached(Run)
  /\ \/ pc' = "sealed" /\ seal' = Payload(asks[Run].got)
     \/ pc' = "failed" /\ UNCHANGED seal          \* store.append throws
  /\ UNCHANGED <<windows, openWitness, checkpoints>>

RunStep ==
  \/ Start \/ QuorumShort \/ OpenWitnessed \/ ReadBlock \/ CheckpointWitnessed
  \/ RunFails \/ AskSeal \/ SealWitnessed

Next == RunStep \/ (WitnessStep /\ UNCHANGED runVars)

Spec == Init /\ [][Next]_vars

(* Node's event loop runs what is ready, sockets deliver, the source and the *)
(* beacon answer; a call that gets no answer ends at its timeout.            *)
FairSpec ==
  /\ Spec
  /\ WF_vars(RunStep)
  /\ WF_vars(\E q \in requests : Serve(q) /\ UNCHANGED runVars)

-----------------------------------------------------------------------------
(* Correctness.                                                              *)

TypeOK ==
  /\ clock \in 0..MaxRound
  /\ \A w \in Witness : \A att \in Entries(w) : att.witness = w /\ IsAttestation(att)
  /\ \A w \in Witness : feedHead[w].seq \in Nat
  /\ \A q \in requests : /\ q.asker \in Asker /\ q.url \in Url /\ q.since \in 0..clock
                         /\ q.live => asks[q.asker].on /\ q.url \in asks[q.asker].waiting
  /\ \A a \in Asker : asks[a].waiting \subseteq Url
  /\ pc \in PcState
  /\ windows \in Seq(1..CheckpointEvery)
  /\ Len(checkpoints) <= Len(windows)
  /\ \A i \in DOMAIN checkpoints : \A att \in checkpoints[i] : IsAttestation(att)

\* What the stages of a sealed session carry: open, checkpoints, seal.
SealedStages == <<seal.openWitness>> \o seal.checkpoints \o <<seal.sealWitness>>

StageSubject(i) ==
  IF i = 1 THEN OpenSubject
  ELSE IF i = Len(SealedStages) THEN SealSubject ELSE CheckpointSubject(i - 1)

\* PSI-WITNESS-2 and 3: the attestations a witnessed seal carries for its open,
\* each checkpoint and its output are entries of the feeds at the feedSeq they
\* name, of distinct witnesses enough for the quorum, in spite of late answers,
\* duplicate urls, restarts and feed writes that fail.
SealMatchesFeeds ==
  pc = "sealed" /\ Enabled =>
    /\ Len(seal.checkpoints) = Len(windows)
    /\ \A i \in DOMAIN SealedStages :
         /\ Cardinality({att.witness : att \in SealedStages[i]}) >= Threshold
         /\ \A att \in SealedStages[i] :
              att.subject = StageSubject(i) /\ att \in Entries(att.witness)

\* The beacon rounds that the stages of a run bind never go back, from one
\* witness to the next: each stage was co-signed after the one before, though
\* every witness reads a beacon of its own.
RoundsAscend ==
  LET stages == <<openWitness>> \o checkpoints \o
                  IF pc = "sealed" THEN <<seal.sealWitness>> ELSE <<>>
  IN \A i \in 1..(Len(stages) - 1) :
       \A att \in stages[i], later \in stages[i+1] : att.round <= later.round

\* The co-signatures of a stage are of its subject, and in the feeds.
StageHolds(stage, subject) ==
  \A att \in stage :
    /\ att.witness \in Witness /\ att.subject = subject
    /\ att.round \in 0..clock /\ att \in Entries(att.witness)

NotBefore(stage, round) == \A att \in stage : att.round <= round

Quorate(stage) == Cardinality({att.witness : att \in stage}) >= Threshold

LastStage == IF checkpoints = <<>> THEN openWitness ELSE checkpoints[Len(checkpoints)]

AwaitedSubject ==
  IF pc = "open" THEN OpenSubject
  ELSE IF pc = "checkpoint" THEN CheckpointSubject(Len(windows)) ELSE SealSubject

SubjectType == [kind : WitnessSubjectKind, body : Nat, target : {NoTarget}]

AttestationType == [witness : Witness, subject : SubjectType, round : Nat, seq : Nat]

RequestType ==
  [asker : {Run}, url : Url, subject : SubjectType, read : BOOLEAN, since : Nat, live : BOOLEAN]

CallType ==
  [on : BOOLEAN, subject : SUBSET SubjectType, waiting : SUBSET Url, got : SUBSET AttestationType]

\* A request that the client waits for is of the present stage, and was read by
\* its witness after the stage before was complete.
Current(q) ==
  /\ asks[Run].on /\ q.url \in asks[Run].waiting
  /\ q.subject = AwaitedSubject
  /\ q.read => NotBefore(LastStage, q.since)

\* What is asked for and what has come.
CallInv ==
  /\ asks \in [Asker -> CallType]
  /\ requests \subseteq RequestType
  /\ asks[Run].on <=> pc \in {"open", "checkpoint", "seal"}
  /\ asks[Run].on => StageHolds(asks[Run].got, AwaitedSubject)
  /\ asks[Run].on => \A att \in asks[Run].got : NotBefore(LastStage, att.round)
  /\ \A q \in requests : q.since <= clock
  /\ \A q \in requests : q.live => Current(q)
  /\ \A q, r \in requests : q.live /\ r.live /\ q.url = r.url => q = r

\* What the run holds of the stages that are over.
HeldInv ==
  /\ clock \in Nat
  /\ windows \in Seq({windows[i] : i \in DOMAIN windows})
  /\ checkpoints \in Seq({checkpoints[i] : i \in DOMAIN checkpoints})
  /\ pc \in {"start", "open"} => windows = <<>> /\ checkpoints = <<>> /\ openWitness = {}
  /\ pc \in {"read", "seal", "sealed"} /\ Enabled => Len(checkpoints) = Len(windows)
  /\ pc = "checkpoint" => Len(checkpoints) + 1 = Len(windows)
  /\ StageHolds(openWitness, OpenSubject)
  /\ \A i \in DOMAIN checkpoints : StageHolds(checkpoints[i], CheckpointSubject(i))
  /\ pc \notin {"start", "open", "failed"} /\ Enabled =>
       Quorate(openWitness) /\ \A i \in DOMAIN checkpoints : Quorate(checkpoints[i])
  /\ checkpoints # <<>> => \A att \in checkpoints[1] : NotBefore(openWitness, att.round)
  /\ \A i \in 1..(Len(checkpoints) - 1) :
       \A att \in checkpoints[i+1] : NotBefore(checkpoints[i], att.round)

SealInv ==
  pc = "sealed" =>
    /\ seal.openWitness = openWitness /\ seal.checkpoints = checkpoints
    /\ StageHolds(seal.sealWitness, SealSubject)
    /\ Enabled => Quorate(seal.sealWitness)
    /\ \A att \in seal.sealWitness : NotBefore(LastStage, att.round)

\* Inductive with FeedInv: implies SealMatchesFeeds and RoundsAscend.
StageInv == CallInv /\ HeldInv /\ SealInv

\* Splitting total trials into windows of leaf trials, as verify.ts and
\* analyze.py split the blob.
Split(total, leaf) ==
  [i \in 1..((total + leaf - 1) \div leaf) |->
     IF i * leaf <= total THEN leaf ELSE total - (i - 1) * leaf]

NumWindows == (TrialsPerSession + CheckpointEvery - 1) \div CheckpointEvery

StageOf(i) == IF i = 0 THEN OpenSubject ELSE CheckpointSubject(i)

\* The number of stages that a quorum of feeds holds, in order.
CoSignedStages ==
  LET prefix == {k \in 0..(Len(windows) + 1) : \A i \in 0..(k-1) : CoSigned(StageOf(i))}
      n == CHOOSE k \in prefix : \A j \in prefix : j <= k
  IN IF CoSigned(SealSubject) THEN n + 1 ELSE n

Stream == INSTANCE CosignedStream WITH
            Windows <- NumWindows, generated <- Len(windows),
            cosigned <- CoSignedStages, sealed <- pc = "sealed"

\* No window is read before a quorum of feeds holds the stages before it.
ImplementsCosignedStream == Stream!Spec

\* The windows read are the first of the split, the last of them short or full.
BlobInv ==
  /\ windows \in Seq(1..CheckpointEvery)
  /\ Len(windows) <= NumWindows
  /\ \A i \in DOMAIN windows : windows[i] = Split(TrialsPerSession, CheckpointEvery)[i]
  /\ trial = IF Len(windows) * CheckpointEvery <= TrialsPerSession
             THEN Len(windows) * CheckpointEvery ELSE TrialsPerSession
  /\ pc \in {"seal", "sealed"} => trial >= TrialsPerSession
  /\ pc = "sealed" => seal = Payload(seal.sealWitness)

\* What a witness can have been asked for: a stage that the run has come to.
Asked(subject) ==
  \/ \E i \in 0..Len(windows) : subject = StageOf(i)
  \/ /\ subject = SealSubject /\ pc \in {"seal", "sealed", "failed"}
     /\ Len(windows) = NumWindows /\ CoSigned(StageOf(NumWindows))

\* Nobody signs ahead of the run, and the run is never ahead of a quorum.
\* Inductive with BlobInv, StageInv and FeedInv: implies TypeOK,
\* DropsAreFlagged and each step of ImplementsCosignedStream.
StreamInv ==
  /\ clock <= MaxRound /\ pc \in PcState /\ Len(checkpoints) <= Len(windows)
  /\ \A w \in Witness : \A att \in Entries(w) :
       att.witness = w /\ att.round \in 0..clock /\ Asked(att.subject)
  /\ \A q \in requests : Asked(q.subject)
  /\ windows # <<>> /\ Enabled => Quorate(openWitness)
  /\ Enabled => \A i \in 0..(Len(windows) - 1) : CoSigned(StageOf(i))
  /\ Enabled /\ pc \in {"read", "seal", "sealed"} => CoSigned(StageOf(Len(windows)))
  /\ Enabled /\ pc = "sealed" => CoSigned(SealSubject)

\* A run that was started ends: sealed, or given up.
RunEnds == pc = "start" ~> pc \in {"sealed", "failed"}
=============================================================================

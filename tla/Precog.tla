------------------------------- MODULE Precog -------------------------------
(***************************************************************************)
(* A precognition session over its two-way socket: streamPrecog of         *)
(* packages/server/src/kinds/precog.ts, the page that drives it            *)
(* (packages/client/src/pages/run/precog.ts), its witnesses and the beacon *)
(* whose future rounds fix the targets.                                    *)
(*                                                                         *)
(* trialIndex, pending and closed are variables of the closure that every  *)
(* invocation of onChoice and onSign shares; each invocation awaits the    *)
(* beacon or the witnesses several times.  One action is the code between  *)
(* two awaits.  A signature is the commit it signs.  The messages          *)
(* (started, sensing, reveal, seal) that only change what the page shows   *)
(* are those of module PrecogPage.                                         *)
(***************************************************************************)
EXTENDS WitnessFeeds

CONSTANTS
  Choice,          \* the vocabulary of the experiment
  Vocabulary,      \* choiceVocabulary: the choice that names each valence
  NoChoice,        \* no choice, or one outside the vocabulary
  Digest(_, _),    \* SHA-256 of the value of a round and a trial index
  Pool,            \* how many images each valence has
  Handler,         \* bound: invocations of onChoice and onSign in flight at once
  OpenAsk, SealAsk,\* attestQuorum for the open and for the seal
  Trials,          \* p.trialsPerSession
  Offset,          \* p.beaconRoundOffset
  MaxExtra,        \* bound: messages beyond those the page sends; 0 is the page
  StoreMayFail     \* may writeBlob or store.append throw at the seal

ASSUME PrecogAssumption ==
  /\ NoChoice \notin Choice
  /\ Vocabulary \in [0..1 -> Choice] /\ Pool \in [0..1 -> Nat \ {0}]
  /\ \A round \in 0..MaxRound, index \in 0..Trials : Digest(round, index) \in Nat
  /\ Asker = Handler \cup {OpenAsk, SealAsk}
  /\ OpenAsk \notin Handler /\ SealAsk \notin Handler /\ OpenAsk # SealAsk
  /\ Trials \in Nat \ {0} /\ Offset \in Nat \ {0} /\ MaxExtra \in Nat
  /\ StoreMayFail \in BOOLEAN

VARIABLES
  up,           \* is the server process running
  outcome,      \* created, running, sealing, sealed or failed
  openWitness,  \* attestations of the open
  trialIndex,
  pending,      \* a bound choice that waits for its signature, or NoPending
  handlers,     \* what each invocation awaits and holds
  records,      \* finished trials
  sealed,       \* what the seal covers, once seal() has begun
  toServer, toClient,  \* messages on the socket
  page,         \* the page: the trial it shows, the choice made, its last signature
  extra         \* messages sent beyond those of the page

witnessing == <<openWitness, sealed>>
sessionVars == <<outcome, trialIndex, pending, handlers, records, witnessing>>
clientVars == <<page, extra>>
runVars == <<up, sessionVars, toServer, toClient, clientVars>>
vars == <<feedVars, runVars>>

Commit(index, choice, target, prev) ==
  [index |-> index, choice |-> choice, target |-> target, prev |-> prev]

NoCommit == Commit(-1, NoChoice, NoTarget, -1)
NoPending == NoCommit

Subject(kind, commit) == [kind |-> kind, body |-> commit, target |-> commit.target]

\* since is when the present await began, signedAt when the signature came in.
Flow(awaits, commit, since, signedAt, witness) ==
  [awaits |-> awaits, commit |-> commit, since |-> since, signedAt |-> signedAt,
   witness |-> witness]

Free == Flow("nothing", NoCommit, 0, 0, {})

NotSealed == [records |-> <<>>, openWitness |-> {}, sealWitness |-> {}]

\* A bit of the digest is the valence, another part of it the image.
DeriveTarget(round, index) ==
  LET valence == Digest(round, index) % 2
  IN [valence |-> valence, image |-> (Digest(round, index) \div 2) % Pool[valence]]

IsHit(choice, target) == choice = Vocabulary[target.valence]

\* Variant: seal() does not set closed.
ClosedByFail == outcome = "failed"

Closed == outcome \in {"sealing", "sealed", "failed"}

Init ==
  /\ FeedInit
  /\ up = TRUE
  /\ outcome = "created"
  /\ openWitness = {}
  /\ trialIndex = 0
  /\ pending = NoPending
  /\ handlers = [h \in Handler |-> Free]
  /\ records = <<>>
  /\ sealed = NotSealed
  /\ toServer = <<>>
  /\ toClient = <<>>
  /\ page = [trial |-> -1, choice |-> NoChoice, sig |-> NoCommit]
  /\ extra = 0

-----------------------------------------------------------------------------
(* The page.                                                                 *)

ChoiceMessage(i, c) == [type |-> "choice", index |-> i, choice |-> c, sig |-> NoCommit]
SignMessage(sig) == [type |-> "sign", index |-> sig.index, choice |-> NoChoice, sig |-> sig]

TrialMessage(i) == [type |-> "trial", commit |-> Commit(i, NoChoice, NoTarget, -1)]
PendingMessage(commit) == [type |-> "pending", commit |-> [commit EXCEPT !.choice = NoChoice]]

\* showChoice: the operator presses one of the buttons, once.
Choose ==
  /\ page.trial >= 0
  /\ page.choice = NoChoice
  /\ \E c \in Choice :
       /\ page' = [page EXCEPT !.choice = c]
       /\ toServer' = Append(toServer, ChoiceMessage(page.trial, c))
  /\ UNCHANGED <<feedVars, up, sessionVars, toClient, extra>>

\* onTrial shows the next choice.
ReceiveTrial ==
  /\ toClient # <<>> /\ Head(toClient).type = "trial"
  /\ page' = [page EXCEPT !.trial = Head(toClient).commit.index, !.choice = NoChoice]
  /\ toClient' = Tail(toClient)
  /\ UNCHANGED <<feedVars, up, sessionVars, toServer, extra>>

\* onPending signs the choice that was made, if one was.
ReceivePending ==
  /\ toClient # <<>> /\ Head(toClient).type = "pending"
  /\ LET sig == [Head(toClient).commit EXCEPT !.choice = page.choice]
     IN IF page.choice = NoChoice
        THEN UNCHANGED <<page, toServer>>
        ELSE /\ page' = [page EXCEPT !.sig = sig]
             /\ toServer' = Append(toServer, SignMessage(sig))
  /\ toClient' = Tail(toClient)
  /\ UNCHANGED <<feedVars, up, sessionVars, extra>>

\* Another client: a choice the page would not send, or a signature once more.
SendExtra ==
  /\ outcome # "created"
  /\ extra < MaxExtra
  /\ extra' = extra + 1
  /\ \/ \E c \in Choice \cup {NoChoice} :
          toServer' = Append(toServer, ChoiceMessage(IF page.trial < 0 THEN 0 ELSE page.trial, c))
     \/ page.sig # NoCommit /\ toServer' = Append(toServer, SignMessage(page.sig))
  /\ UNCHANGED <<feedVars, up, sessionVars, toClient, page>>

-----------------------------------------------------------------------------
(* What the handlers of streamPrecog share.                                  *)

\* safeSend: nothing is sent once the socket is closed.
Send(m) == toClient' = IF outcome \in {"failed", "sealed"} THEN toClient ELSE Append(toClient, m)

Fail == outcome' = IF Closed THEN outcome ELSE "failed"

Occupy(h, flow) == handlers' = [handlers EXCEPT ![h] = flow]
Release(h) == Occupy(h, Free)

Awaiting(h, what) == up /\ handlers[h].awaits = what

\* Hear the next message.
Hear(type) ==
  /\ up /\ outcome # "created"
  /\ toServer # <<>> /\ Head(toServer).type = type
  /\ toServer' = Tail(toServer)

\* seal(), up to its first await.  `void seal()` handles no rejection: what it
\* throws ends the process.
BeginSeal ==
  \/ Closed /\ UNCHANGED <<up, outcome, sealed, feedVars>>
  \/ /\ ~Closed
     /\ sealed' = [NotSealed EXCEPT !.records = records', !.openWitness = openWitness]
     /\ outcome' = IF Enabled THEN "sealing" ELSE "sealed"
     /\ IF Enabled THEN Ask(SealAsk, Subject("seal", NoCommit)) ELSE UNCHANGED feedVars
     /\ UNCHANGED up
  \/ /\ ~Closed /\ StoreMayFail
     /\ outcome' = "sealing" /\ up' = FALSE
     /\ UNCHANGED <<sealed, feedVars>>

\* Variant: pending is not reset for the next trial.
KeepPending == UNCHANGED pending

ClearPending == pending' = NoPending

NextTrial ==
  /\ ClearPending
  /\ IF trialIndex' >= Trials
     THEN BeginSeal /\ UNCHANGED toClient
     ELSE Send(TrialMessage(trialIndex')) /\ UNCHANGED <<up, outcome, sealed, feedVars>>

-----------------------------------------------------------------------------
(* The open.                                                                 *)

\* streamPrecog is called: the message handler is installed at once, and the
\* open is to be co-signed if there are witnesses.
Start ==
  /\ outcome = "created"
  /\ outcome' = "running"
  /\ IF Enabled
     THEN Ask(OpenAsk, Subject("open", NoCommit)) /\ UNCHANGED toClient
     ELSE Send(TrialMessage(trialIndex)) /\ UNCHANGED feedVars
  /\ UNCHANGED <<up, trialIndex, pending, handlers, records, witnessing, toServer, clientVars>>

\* attestQuorum returns for the open: the trial loop begins.  (Had the trials
\* been used up by now, the seal would have begun, and closed be set.)
OpenWitnessed ==
  /\ up
  /\ Returned(OpenAsk) /\ QuorumReached(OpenAsk)
  /\ openWitness' = asks[OpenAsk].got
  /\ ClearPending
  /\ IF trialIndex >= Trials THEN UNCHANGED toClient ELSE Send(TrialMessage(trialIndex))
  /\ UNCHANGED <<up, outcome, trialIndex, handlers, records, sealed, toServer, clientVars>>

\* attestQuorum throws, for the open or for a choice: the session is void.
QuorumShort(a) ==
  /\ up /\ a # SealAsk
  /\ Returned(a) /\ ~QuorumReached(a)
  /\ Fail
  /\ handlers' = [h \in Handler |-> IF h = a THEN Free ELSE handlers[h]]
  /\ UNCHANGED <<up, trialIndex, pending, records, witnessing, toServer, toClient, clientVars>>

-----------------------------------------------------------------------------
(* The server's beacon.                                                      *)

\* fetchPulse: what was the latest round at some time since h asked.
LatestRounds(h) == handlers[h].since..clock

\* fetchRound throws for a round that is yet to come, and waitForRound polls on.
Published(round) == clock >= round

\* waitForRound runs into its deadline.
WaitsInVain(round) == clock = MaxRound /\ ~Published(round)

-----------------------------------------------------------------------------
(* A trial: onChoice, then onSign.                                           *)

\* A message of another trial, a choice while one is pending, a signature
\* while none is.
IgnoreMessage ==
  /\ \E type \in {"choice", "sign"} :
       /\ Hear(type)
       /\ \/ Head(toServer).index # trialIndex
          \/ (type = "choice") # (pending = NoPending)
  /\ UNCHANGED <<feedVars, up, sessionVars, toClient, clientVars>>

\* onChoice passes its guard and asks the beacon for its latest round.
HearChoice(h) ==
  /\ Awaiting(h, "nothing")
  /\ Hear("choice")
  /\ Head(toServer).index = trialIndex
  /\ pending = NoPending
  /\ IF Head(toServer).choice \in Choice
     THEN /\ LET chosen == [NoCommit EXCEPT !.choice = Head(toServer).choice]
               IN Occupy(h, Flow("bind", chosen, clock, 0, {}))
          /\ UNCHANGED outcome
     ELSE Fail /\ UNCHANGED handlers
  /\ UNCHANGED <<feedVars, up, trialIndex, pending, records, witnessing, toClient, clientVars>>

\* The pulse is there: the choice is bound to a future round of it, whatever
\* has become of pending, trialIndex and closed meanwhile.
BindChoice(h) ==
  /\ Awaiting(h, "bind")
  /\ \E round \in LatestRounds(h) :
       /\ pending' = Commit(trialIndex, handlers[h].commit.choice, round + Offset, round)
       /\ Send(PendingMessage(pending'))
  /\ Release(h)
  /\ UNCHANGED <<feedVars, up, outcome, trialIndex, records, witnessing, toServer, clientVars>>

\* onSign passes its guard: the signature must be over the pending choice.
HearSign(h) ==
  LET tc == [pending EXCEPT !.index = trialIndex]
  IN /\ Awaiting(h, "nothing")
     /\ Hear("sign")
     /\ Head(toServer).index = trialIndex
     /\ pending # NoPending
     /\ IF Head(toServer).sig # tc
        THEN Fail /\ UNCHANGED <<handlers, feedVars>>
        ELSE /\ UNCHANGED outcome
             /\ IF Enabled
                THEN /\ Ask(h, Subject("choice", tc))
                     /\ Occupy(h, Flow("witness", tc, clock, clock, {}))
                ELSE Occupy(h, Flow("guard", tc, clock, clock, {})) /\ UNCHANGED feedVars
     /\ UNCHANGED <<up, trialIndex, pending, records, witnessing, toClient, clientVars>>

ChoiceWitnessed(h) ==
  /\ Awaiting(h, "witness")
  /\ Returned(h) /\ QuorumReached(h)
  /\ Occupy(h, Flow("guard", handlers[h].commit, clock, handlers[h].signedAt, asks[h].got))
  /\ UNCHANGED <<up, outcome, trialIndex, pending, records, witnessing, toServer, toClient, clientVars>>

\* Variant: the guard lets the target round itself through.
TargetPassed(round, target) == round > target

TargetPublic(round, target) == round >= target

\* The timing guard asks the beacon once more.
GuardTiming(h) ==
  /\ Awaiting(h, "guard")
  /\ \E round \in LatestRounds(h) :
       IF TargetPublic(round, handlers[h].commit.target)
       THEN Fail /\ Release(h)
       ELSE Occupy(h, [handlers[h] EXCEPT !.awaits = "target"]) /\ UNCHANGED outcome
  /\ UNCHANGED <<feedVars, up, trialIndex, pending, records, witnessing, toServer, toClient, clientVars>>

\* Record of a trial: its commit and signature, the round whose value the beacon
\* gave (waitForRound asks for the target round), what that value destines for
\* it, and the co-signatures.  signedAt is not part of the real record.
RecordAs(flow, index) ==
  LET target == DeriveTarget(flow.commit.target, index)
  IN [commit |-> [flow.commit EXCEPT !.index = index], sig |-> flow.commit,
      beacon |-> flow.commit.target, target |-> target, hit |-> IsHit(flow.commit.choice, target),
      witness |-> flow.witness, signedAt |-> flow.signedAt]

\* Variant: the index is advanced before the record is made.
RecordOfNext(flow) == RecordAs(flow, trialIndex + 1)

\* trialIndex is read now; the rest was read before the awaits, and the signature
\* verified then.
TrialRecord(flow) == RecordAs(flow, trialIndex)

\* waitForRound resolves: reveal, record, next trial or seal.
Reveal(h) ==
  /\ Awaiting(h, "target")
  /\ Published(handlers[h].commit.target)
  /\ records' = Append(records, TrialRecord(handlers[h]))
  /\ trialIndex' = trialIndex + 1
  /\ NextTrial
  /\ Release(h)
  /\ UNCHANGED <<openWitness, toServer, clientVars>>

\* The beacon fails while a handler awaits it; a wait for a round that does not
\* come runs into its deadline.
BeaconFails(h) ==
  /\ \/ /\ Awaiting(h, "bind") \/ Awaiting(h, "guard") \/ Awaiting(h, "target")
        /\ missed < MaxMissed
        /\ missed' = missed + 1
     \/ /\ Awaiting(h, "target")
        /\ WaitsInVain(handlers[h].commit.target)
        /\ UNCHANGED missed
  /\ Fail
  /\ Release(h)
  /\ UNCHANGED <<clock, feed, feedHead, requests, asks, unwritten, stampVars, up, trialIndex, pending,
                 records, witnessing, toServer, toClient, clientVars>>

-----------------------------------------------------------------------------
(* The seal is co-signed.                                                    *)

\* openWitness is read now, and only now.
SealWitnessed ==
  /\ up
  /\ Returned(SealAsk) /\ QuorumReached(SealAsk)
  /\ \/ /\ outcome' = "sealed"
        /\ sealed' = [sealed EXCEPT !.openWitness = openWitness, !.sealWitness = asks[SealAsk].got]
        /\ UNCHANGED up
     \/ StoreMayFail /\ up' = FALSE /\ UNCHANGED <<outcome, sealed>>
  /\ UNCHANGED <<openWitness, trialIndex, pending, handlers, records, toServer, toClient, clientVars>>

\* attestQuorum throws inside `void seal()`: an unhandled rejection.
SealQuorumShort ==
  /\ up
  /\ Returned(SealAsk) /\ ~QuorumReached(SealAsk)
  /\ up' = FALSE
  /\ UNCHANGED <<sessionVars, toServer, toClient, clientVars>>

-----------------------------------------------------------------------------
PageStep == ReceiveTrial \/ ReceivePending

HandlerStep(h) ==
  \/ HearChoice(h) \/ BindChoice(h) \/ HearSign(h) \/ ChoiceWitnessed(h)
  \/ GuardTiming(h) \/ Reveal(h)

ServerStep ==
  \/ Start \/ OpenWitnessed \/ IgnoreMessage \/ SealWitnessed \/ SealQuorumShort
  \/ \E a \in Asker : QuorumShort(a)
  \/ \E h \in Handler : HandlerStep(h)

Next ==
  \/ Choose \/ PageStep \/ SendExtra \/ ServerStep
  \/ \E h \in Handler : BeaconFails(h)
  \/ WitnessStep /\ UNCHANGED runVars

Spec == Init /\ [][Next]_vars

(* The event loop and the page run what is ready, witnesses answer or time   *)
(* out, the beacon publishes its rounds; a round past the bound never comes, *)
(* and its wait ends at the deadline.  The operator need not press a button. *)
FairSpec ==
  /\ Spec
  /\ WF_vars(PageStep)
  /\ WF_vars(ServerStep)
  /\ WF_vars(\E h \in Handler : BeaconFails(h) /\ missed' = missed)
  /\ WF_vars(Tick /\ UNCHANGED runVars)
  /\ WF_vars(\E q \in requests : Serve(q) /\ UNCHANGED runVars)
-----------------------------------------------------------------------------
(* Correctness.                                                              *)

\* The target of a recorded trial has been published.
IsTrialRecord(r) ==
  /\ r.commit.index \in Nat
  /\ r.commit.choice \in Choice
  /\ r.commit.prev \in 0..clock
  /\ r.commit.target \in 0..clock
  /\ r.hit \in BOOLEAN
  /\ \A att \in r.witness : IsAttestation(att)

TypeOK ==
  /\ up \in BOOLEAN
  /\ outcome \in {"created", "running", "sealing", "sealed", "failed"}
  /\ trialIndex \in Nat
  /\ pending # NoPending => pending.choice \in Choice /\ pending.prev \in 0..clock
  /\ \A h \in Handler :
       /\ handlers[h].awaits \in {"nothing", "bind", "witness", "guard", "target"}
       /\ handlers[h].since \in 0..clock
       /\ handlers[h].awaits = "witness" <=> asks[h].on
  /\ Len(records) = trialIndex
  /\ \A i \in DOMAIN records : IsTrialRecord(records[i])
  /\ \A q \in requests : q.live => asks[q.asker].on /\ q.url \in asks[q.asker].waiting

\* What verify.ts and analyze.py check of record i: it is trial i, its
\* signature covers what it says, its target was future, and the image and the
\* hit are those that the target round destined for it.
Verifies(i, record) ==
  /\ record.commit.index = i - 1
  /\ record.sig = record.commit
  /\ record.commit.target > record.commit.prev
  /\ record.beacon = record.commit.target
  /\ record.target = DeriveTarget(record.beacon, record.commit.index)
  /\ record.hit = IsHit(record.commit.choice, record.target)

\* PSI-PRECOG-4, for trials driven by the page: although the record is put
\* together from trialIndex as it is after the awaits and from what was read
\* before them, each trial is recorded once and every record re-verifies.
RecordsVerify == \A i \in DOMAIN records : Verifies(i, records[i])

\* PSI-PRECOG-2, whatever the client sends and in whatever order: the server had
\* the signature of a recorded choice before the target round was published.
ChoicesPrecedeTargets == \A i \in DOMAIN records : records[i].signedAt < records[i].commit.target

AttestedBy(attestations, subject) ==
  /\ Cardinality({att.witness : att \in attestations}) >= Threshold
  /\ \A att \in attestations : Attests(att, subject)

\* PSI-WITNESS-4: the seal of a witnessed session that the page drove carries
\* all its trials, each co-signed by a quorum no earlier than the round it was
\* bound at and before its target, and a co-signed open and seal; every
\* attestation is an entry of the feed it names.
SealCarriesWitnesses ==
  outcome = "sealed" /\ Enabled =>
    /\ Len(sealed.records) = Trials
    /\ \A i \in DOMAIN sealed.records :
         LET r == sealed.records[i]
         IN /\ AttestedBy(r.witness, Subject("choice", r.sig))
            /\ \A att \in r.witness : r.sig.prev <= att.round /\ att.round < r.sig.target
    /\ AttestedBy(sealed.openWitness, Subject("open", NoCommit))
    /\ AttestedBy(sealed.sealWitness, Subject("seal", NoCommit))

\* A session that is void or sealed is so for good.
StaysClosed ==
  /\ outcome \in {"failed", "sealed"} => outcome' = outcome
  /\ outcome = "sealing" => outcome' \in {"sealing", "sealed"}
  /\ outcome \in {"sealing", "sealed"} => sealed'.records = sealed.records

\* `closed`: a session that was voided is never sealed, one whose seal has begun
\* is not voided, and handlers that are still in flight then, of late or
\* repeated messages, add nothing to what is sealed nor seal it again.
SealedOnceOrVoid == [][StaysClosed]_vars

\* A choice the operator has made is scored, or the session ends: no trial hangs
\* on its beacon, its witnesses or a message that was not expected.
EveryChoiceIsAnswered ==
  \A i \in 0..(Trials - 1) :
    (page.trial = i /\ page.choice # NoChoice) ~> (trialIndex > i \/ Closed \/ ~up)

\* precog.ts:128 "A quorum failure voids the session.": it ends the session, not
\* the process that serves every other one.
ServerSurvives == [][up' = up]_vars
-----------------------------------------------------------------------------
(* Inductive invariant of PrecogProofs: what ChoicesPrecedeTargets rests on. *)

CommitType == [index : Int, choice : Choice \cup {NoChoice}, target : Int, prev : Int]

\* The signature came before the pulse of the guard was asked for, and that
\* pulse was older than the target.
Timely(flow) ==
  /\ DOMAIN flow = {"awaits", "commit", "since", "signedAt", "witness"}
  /\ flow.commit \in CommitType
  /\ flow.since \in 0..clock
  /\ flow.signedAt \in 0..clock
  /\ flow.awaits = "guard" => flow.signedAt <= flow.since
  /\ flow.awaits = "target" => flow.signedAt < flow.commit.target

TimingInv ==
  /\ clock \in Nat
  /\ trialIndex \in Nat
  /\ pending \in CommitType
  /\ handlers = [h \in Handler |-> handlers[h]]
  /\ \A h \in Handler : Timely(handlers[h])
  /\ records \in Seq({records[i] : i \in DOMAIN records})
  /\ ChoicesPrecedeTargets

\* seal() asks for its co-signatures once it has set closed, and is called once.
\* Inductive: what SealedOnceOrVoid rests on.
ClosedInv ==
  /\ asks = [a \in Asker |-> asks[a]]
  /\ \A a \in Asker : DOMAIN asks[a] = DOMAIN Idle
  /\ asks[SealAsk].on => outcome = "sealing"
  /\ DOMAIN sealed = DOMAIN NotSealed

-----------------------------------------------------------------------------
(* Inductive invariant for any client: what a record holds was signed and    *)
(* co-signed as one piece, whatever has become of trialIndex and pending.    *)

\* A commit as BindChoice makes them.
IsBound(commit) ==
  /\ commit \in CommitType /\ commit.choice \in Choice
  /\ commit.prev \in 0..clock /\ commit.prev < commit.target

\* No co-signature of the choice is older than the round it was bound at.
FreshlyAttested(atts, commit) ==
  \A att \in atts : Attests(att, Subject("choice", commit)) /\ commit.prev <= att.round

\* The choice has its quorum.
CoSignedChoice(atts, commit) ==
  AttestedBy(atts, Subject("choice", commit)) /\ FreshlyAttested(atts, commit)

FlowInv(h) ==
  LET flow == handlers[h]
  IN /\ flow.awaits \in {"nothing", "bind", "witness", "guard", "target"}
     /\ flow.awaits = "witness" <=> asks[h].on
     /\ flow.awaits = "bind" => flow.commit.choice \in Choice
     /\ flow.awaits \in {"witness", "guard", "target"} => IsBound(flow.commit)
     /\ flow.awaits = "witness" =>
          /\ asks[h].subject = {Subject("choice", flow.commit)}
          /\ FreshlyAttested(asks[h].got, flow.commit)
          /\ \A q \in requests : q.live /\ q.read /\ q.asker = h => flow.commit.prev <= q.since
     /\ flow.awaits \in {"guard", "target"} => CoSignedChoice(flow.witness, flow.commit)

\* Record r stands at i; its signature may be one of another trial.
RecordInv(i, r) ==
  /\ IsBound(r.sig) /\ r.sig.target <= clock /\ r.signedAt < r.sig.target
  /\ r.commit = [r.sig EXCEPT !.index = i - 1]
  /\ r.beacon = r.commit.target
  /\ r.target = DeriveTarget(r.beacon, r.commit.index)
  /\ r.hit = IsHit(r.commit.choice, r.target)
  /\ CoSignedChoice(r.witness, r.sig)

TrialsInv ==
  /\ up \in BOOLEAN
  /\ outcome \in {"created", "running", "sealing", "sealed", "failed"}
  /\ pending # NoPending => IsBound(pending)
  /\ Len(records) = trialIndex
  /\ \A i \in DOMAIN records : RecordInv(i, records[i])
  /\ ~Closed => trialIndex < Trials

SealInv ==
  /\ \A att \in openWitness : Attests(att, Subject("open", NoCommit))
  /\ asks[OpenAsk].on => asks[OpenAsk].subject = {Subject("open", NoCommit)}
  /\ asks[SealAsk].on => asks[SealAsk].subject = {Subject("seal", NoCommit)}
  /\ asks[SealAsk].on \/ outcome = "sealed" =>
       /\ DOMAIN sealed.records = 1..Trials /\ Len(sealed.records) = Trials
       /\ \A i \in 1..Trials : RecordInv(i, sealed.records[i])
  /\ outcome = "sealed" /\ Enabled =>
       /\ \A att \in sealed.openWitness : Attests(att, Subject("open", NoCommit))
       /\ AttestedBy(sealed.sealWitness, Subject("seal", NoCommit))

RunInv ==
  /\ FeedInv /\ CallsInv /\ TimingInv /\ ClosedInv
  /\ \A h \in Handler : FlowInv(h)
  /\ TrialsInv
  /\ SealInv

-----------------------------------------------------------------------------
(* Inductive invariant of a session that its page drives (MaxExtra = 0): one *)
(* message, or one invocation, is under way at a time.                       *)

NoneBut(hs) == \A h \in Handler \ hs : handlers[h].awaits = "nothing"
NoMessage == toServer = <<>> /\ toClient = <<>>
Choosing == page.trial >= 0 /\ page.choice = NoChoice

TrialSent ==
  /\ NoneBut({}) /\ toServer = <<>> /\ toClient = <<TrialMessage(trialIndex)>>
  /\ pending = NoPending /\ ~Choosing

TrialShown == NoneBut({}) /\ NoMessage /\ pending = NoPending /\ Choosing /\ page.trial = trialIndex

ChoiceSent ==
  /\ NoneBut({}) /\ toServer = <<ChoiceMessage(trialIndex, page.choice)>> /\ toClient = <<>>
  /\ pending = NoPending /\ page.choice \in Choice

ChoiceHeard(h) ==
  /\ NoneBut({h}) /\ NoMessage /\ handlers[h].awaits = "bind"
  /\ handlers[h].commit.choice = page.choice
  /\ pending = NoPending /\ page.choice \in Choice

PendingHere == pending.index = trialIndex /\ pending.choice = page.choice /\ page.choice \in Choice

PendingSent ==
  /\ NoneBut({}) /\ toServer = <<>> /\ toClient = <<PendingMessage(pending)>>
  /\ PendingHere

SignSent ==
  /\ NoneBut({}) /\ toServer = <<SignMessage(pending)>> /\ toClient = <<>>
  /\ PendingHere

SignHeard(h) ==
  /\ NoneBut({h}) /\ NoMessage /\ handlers[h].awaits \in {"witness", "guard", "target"}
  /\ handlers[h].commit = pending
  /\ PendingHere

\* Before the first trial, and once the session is closed.
NothingSent == NoneBut({}) /\ NoMessage /\ ~Choosing

OneTrialInv ==
  \/ NothingSent /\ pending = NoPending /\ trialIndex = 0 /\ outcome = "created" /\ ~asks[OpenAsk].on
  \/ NothingSent /\ pending = NoPending /\ trialIndex = 0 /\ outcome = "running" /\ asks[OpenAsk].on
  \/ NothingSent /\ Closed /\ ~asks[OpenAsk].on
  \/ /\ outcome = "running" /\ ~asks[OpenAsk].on
     /\ \/ TrialSent \/ TrialShown \/ ChoiceSent \/ PendingSent \/ SignSent
        \/ \E h \in Handler : ChoiceHeard(h) \/ SignHeard(h)

\* Each choice was signed for the trial it is recorded as.
SignedInPlace(recs) == \A i \in DOMAIN recs : recs[i].sig.index = i - 1

PageInv ==
  /\ extra \in Nat
  /\ DOMAIN page = {"trial", "choice", "sig"}
  /\ OneTrialInv
  /\ SignedInPlace(records)
  /\ asks[SealAsk].on \/ outcome = "sealed" => SignedInPlace(sealed.records)
  /\ Enabled /\ outcome \in {"running", "sealing", "sealed"} /\ ~asks[OpenAsk].on =>
       AttestedBy(openWitness, Subject("open", NoCommit))
  /\ Enabled /\ outcome = "sealed" => AttestedBy(sealed.openWitness, Subject("open", NoCommit))
=============================================================================

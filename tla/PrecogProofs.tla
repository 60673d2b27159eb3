---------------------------- MODULE PrecogProofs ----------------------------
(***************************************************************************)
(* A precognition session, for every client, number of invocations in      *)
(* flight, and set of witnesses (none included).  No choice is recorded    *)
(* whose signature came after its target was public: TimingInv of module   *)
(* Precog.  A token is kept under the head that it stamps: FeedInv of      *)
(* WitnessFeeds.  A seal that has begun is not voided or begun again:      *)
(* ClosedInv.  What is sealed is what happened: RunInv, whose parts are    *)
(* kept one by one, the calls by CallsInv of WitnessFeeds, the             *)
(* invocations, the trials and the seal by the lemmas ...Stay(s), each of  *)
(* which says what a step must leave alone.                                *)
(***************************************************************************)
EXTENDS PrecogAudit, WitnessFeedsProofs, FiniteSetTheorems

LEMMA NoCommitType == NoCommit \in CommitType
BY DEF NoCommit, Commit, CommitType, NoTarget

LEMMA FreeIsTimely ==
  ASSUME clock \in Nat
  PROVE  Timely(Free)
BY NoCommitType DEF Timely, Free, Flow

\* Whatever is timely stays so as the beacon goes on.
LEMMA StaysTimely ==
  ASSUME NEW flow, clock \in Nat, clock' \in Nat, clock' >= clock, Timely(flow)
  PROVE  Timely(flow)'
BY DEF Timely

\* One invocation goes on to a timely state, the others stay.
LEMMA OccupyTimely ==
  ASSUME TimingInv, clock' = clock, NEW h \in Handler, NEW flow, Timely(flow), Occupy(h, flow)
  PROVE  /\ handlers' = [g \in Handler |-> handlers'[g]]
         /\ \A g \in Handler : Timely(handlers'[g])
BY DEF TimingInv, Occupy, Timely

\* A step that leaves the trials alone.
LEMMA TrialsUnchanged ==
  ASSUME TimingInv, clock' = clock, trialIndex' = trialIndex, records' = records,
         pending' \in CommitType,
         handlers' = [g \in Handler |-> handlers'[g]],
         \A g \in Handler : Timely(handlers'[g])
  PROVE  TimingInv'
<1>1. \A g \in Handler : Timely(handlers[g])'
  BY DEF Timely
<1> QED
  BY <1>1 DEF TimingInv, ChoicesPrecedeTargets

LEMMA AskKeepsClock ==
  ASSUME NEW a, NEW s, Ask(a, s) \/ Returned(a)
  PROVE  clock' = clock
BY DEF Ask, Returned

\* One more record, itself in time.
LEMMA RecordsExtend ==
  ASSUME TimingInv, NEW rec, records' = Append(records, rec),
         rec.signedAt < rec.commit.target
  PROVE  /\ records' \in Seq({records'[i] : i \in DOMAIN records'})
         /\ ChoicesPrecedeTargets'
<1> DEFINE S == {records[i] : i \in DOMAIN records} \cup {rec}
<1>1. records \in Seq(S)
  BY DEF TimingInv
<1>2. rec \in S
  OBVIOUS
<1>3. /\ records' \in Seq(S) /\ Len(records') = Len(records) + 1
      /\ records'[Len(records) + 1] = rec
      /\ \A i \in 1..Len(records) : records'[i] = records[i]
  BY <1>1, <1>2, AppendProperties
<1>4. DOMAIN records' = 1..(Len(records) + 1) /\ Len(records) \in Nat
      /\ DOMAIN records = 1..Len(records)
  BY <1>1, <1>3
<1>5. records' \in Seq({records'[i] : i \in DOMAIN records'})
  BY <1>3, <1>4
<1>6. ChoicesPrecedeTargets'
  BY <1>3, <1>4 DEF TimingInv, ChoicesPrecedeTargets
<1> QED
  BY <1>5, <1>6

LEMMA TimingInvStart == Init => TimingInv
<1> SUFFICES ASSUME Init
             PROVE  TimingInv
  OBVIOUS
<1>1. clock \in Nat /\ trialIndex \in Nat /\ pending \in CommitType
  BY NoCommitType DEF Init, FeedInit, NoPending
<1>2. \A h \in Handler : Timely(handlers[h])
  BY <1>1, FreeIsTimely DEF Init
<1>3. handlers = [h \in Handler |-> handlers[h]]
  BY DEF Init
<1>4. records = <<>>
  BY DEF Init
<1> QED
  BY <1>1, <1>2, <1>3, <1>4 DEF TimingInv, ChoicesPrecedeTargets

LEMMA MessagesTimely ==
  ASSUME TimingInv, NEW h \in Handler
  PROVE  /\ HearChoice(h) => TimingInv'
         /\ BindChoice(h) => TimingInv'
         /\ HearSign(h) => TimingInv'
<1> DEFINE m == Head(toServer)
<1>0. clock \in Nat /\ trialIndex \in Nat /\ pending \in CommitType
      /\ Timely(handlers[h]) /\ Timely(Free)
  BY FreeIsTimely DEF TimingInv
<1>1. ASSUME HearChoice(h)
      PROVE  TimingInv'
  <2>0. clock' = clock /\ trialIndex' = trialIndex /\ records' = records /\ pending' = pending
    BY <1>1 DEF HearChoice, feedVars
  <2>1. CASE m.choice \in Choice
    <3> DEFINE chosen == [NoCommit EXCEPT !.choice = m.choice]
    <3>1. chosen \in CommitType
      BY <2>1, NoCommitType DEF CommitType
    <3>2. Timely(Flow("bind", chosen, clock, 0, {}))
      BY <3>1, <1>0 DEF Timely, Flow
    <3>3. Occupy(h, Flow("bind", chosen, clock, 0, {}))
      BY <1>1, <2>1, Zenon DEF HearChoice
    <3> QED
      BY <1>0, <2>0, <3>2, <3>3, OccupyTimely, TrialsUnchanged
  <2>2. CASE m.choice \notin Choice
    <3>1. handlers' = handlers
      BY <1>1, <2>2 DEF HearChoice
    <3> QED
      BY <1>0, <2>0, <3>1, TrialsUnchanged DEF TimingInv
  <2> QED
    BY <2>1, <2>2
<1>2. ASSUME BindChoice(h)
      PROVE  TimingInv'
  <2>0. clock' = clock /\ trialIndex' = trialIndex /\ records' = records
    BY <1>2 DEF BindChoice, feedVars
  <2>1. PICK round \in handlers[h].since..clock :
          pending' = Commit(trialIndex, handlers[h].commit.choice, round + Offset, round)
    BY <1>2 DEF BindChoice, LatestRounds
  <2>2. pending' \in CommitType
    <3>1. round \in Int /\ round + Offset \in Int
      BY <1>0, <2>1, PrecogAssumption DEF Timely
    <3>2. handlers[h].commit.choice \in Choice \cup {NoChoice}
      BY <1>0 DEF Timely, CommitType
    <3> QED
      BY <1>0, <2>1, <3>1, <3>2 DEF Commit, CommitType
  <2>3. Occupy(h, Free)
    BY <1>2 DEF BindChoice, Release
  <2> QED
    BY <1>0, <2>0, <2>2, <2>3, OccupyTimely, TrialsUnchanged
<1>3. ASSUME HearSign(h)
      PROVE  TimingInv'
  <2> DEFINE tc == [pending EXCEPT !.index = trialIndex]
  <2>0. trialIndex' = trialIndex /\ records' = records /\ pending' = pending
    BY <1>3 DEF HearSign
  <2>1. tc \in CommitType
    BY <1>0 DEF CommitType
  <2>2. Timely(Flow("witness", tc, clock, clock, {})) /\ Timely(Flow("guard", tc, clock, clock, {}))
    BY <1>0, <2>1 DEF Timely, Flow
  <2>3. CASE m.sig # tc
    <3>1. handlers' = handlers /\ clock' = clock
      BY <1>3, <2>3 DEF HearSign, feedVars
    <3> QED
      BY <1>0, <2>0, <3>1, TrialsUnchanged DEF TimingInv
  <2>4. CASE m.sig = tc /\ Enabled
    <3>1. Ask(h, Subject("choice", tc)) /\ Occupy(h, Flow("witness", tc, clock, clock, {}))
      BY <1>3, <2>4, Zenon DEF HearSign
    <3> QED
      BY <1>0, <2>0, <2>2, <3>1, AskKeepsClock, OccupyTimely, TrialsUnchanged
  <2>5. CASE m.sig = tc /\ ~Enabled
    <3>1. UNCHANGED feedVars /\ Occupy(h, Flow("guard", tc, clock, clock, {}))
      BY <1>3, <2>5, Zenon DEF HearSign
    <3>2. clock' = clock
      BY <3>1 DEF feedVars
    <3> QED
      BY <1>0, <2>0, <2>2, <3>1, <3>2, OccupyTimely, TrialsUnchanged
  <2> QED
    BY <2>3, <2>4, <2>5
<1> QED
  BY <1>1, <1>2, <1>3
\* The guard is what makes a choice timely: its pulse is older than the target
\* and was asked for after the signature came.
LEMMA TrialTimely ==
  ASSUME TimingInv, NEW h \in Handler
  PROVE  /\ ChoiceWitnessed(h) => TimingInv'
         /\ GuardTiming(h) => TimingInv'
         /\ Reveal(h) => TimingInv'
         /\ BeaconFails(h) => TimingInv'
<1> DEFINE flow == handlers[h]
<1>0. clock \in Nat /\ trialIndex \in Nat /\ pending \in CommitType
      /\ Timely(flow) /\ Timely(Free)
  BY FreeIsTimely DEF TimingInv
<1>1. ASSUME ChoiceWitnessed(h)
      PROVE  TimingInv'
  <2>0. trialIndex' = trialIndex /\ records' = records /\ pending' = pending
    BY <1>1 DEF ChoiceWitnessed
  <2>1. clock' = clock
    BY <1>1, AskKeepsClock DEF ChoiceWitnessed
  <2>2. Occupy(h, Flow("guard", flow.commit, clock, flow.signedAt, asks[h].got))
    BY <1>1 DEF ChoiceWitnessed
  <2>3. Timely(Flow("guard", flow.commit, clock, flow.signedAt, asks[h].got))
    BY <1>0 DEF Timely, Flow
  <2> QED
    BY <1>0, <2>0, <2>1, <2>2, <2>3, OccupyTimely, TrialsUnchanged
<1>2. ASSUME GuardTiming(h)
      PROVE  TimingInv'
  <2>0. clock' = clock /\ trialIndex' = trialIndex /\ records' = records /\ pending' = pending
    BY <1>2 DEF GuardTiming, feedVars
  <2>1. PICK round \in flow.since..clock :
          IF TargetPublic(round, flow.commit.target)
          THEN Release(h)
          ELSE Occupy(h, [flow EXCEPT !.awaits = "target"])
    BY <1>2 DEF GuardTiming, LatestRounds
  <2>2. CASE TargetPublic(round, flow.commit.target)
    BY <1>0, <2>0, <2>1, <2>2, OccupyTimely, TrialsUnchanged DEF Release
  <2>3. CASE ~TargetPublic(round, flow.commit.target)
    <3>1. flow.signedAt < flow.commit.target
      <4>1. flow.signedAt <= flow.since
        BY <1>0, <1>2 DEF Timely, GuardTiming, Awaiting
      <4>2. flow.signedAt \in Int /\ flow.since \in Int /\ round \in Int
            /\ flow.since <= round /\ flow.commit.target \in Int
        BY <1>0, <2>1 DEF Timely, CommitType
      <4> QED
        BY <2>3, <4>1, <4>2 DEF TargetPublic
    <3>2. Timely([flow EXCEPT !.awaits = "target"])
      BY <1>0, <3>1 DEF Timely
    <3> QED
      BY <1>0, <2>0, <2>1, <2>3, <3>2, OccupyTimely, TrialsUnchanged
  <2> QED
    BY <2>2, <2>3
<1>3. ASSUME Reveal(h)
      PROVE  TimingInv'
  <2> DEFINE rec == TrialRecord(flow)
  <2>0. records' = Append(records, rec) /\ trialIndex' = trialIndex + 1 /\ pending' = NoPending
    BY <1>3 DEF Reveal, NextTrial, ClearPending
  <2>1. clock' = clock
    <3>1. BeginSeal \/ UNCHANGED feedVars
      BY <1>3 DEF Reveal, NextTrial
    <3>2. BeginSeal => clock' = clock
      BY AskKeepsClock DEF BeginSeal, feedVars
    <3> QED
      BY <3>1, <3>2 DEF feedVars
  <2>2. rec.signedAt < rec.commit.target
    <3>1. flow.signedAt < flow.commit.target
      BY <1>0, <1>3 DEF Timely, Reveal, Awaiting
    <3>2. rec.signedAt = flow.signedAt /\ rec.commit = [flow.commit EXCEPT !.index = trialIndex]
      BY DEF TrialRecord, RecordAs
    <3>3. [flow.commit EXCEPT !.index = trialIndex].target = flow.commit.target
      BY <1>0 DEF Timely, CommitType
    <3> QED
      BY <3>1, <3>2, <3>3
  <2>3. /\ records' \in Seq({records'[i] : i \in DOMAIN records'})
        /\ ChoicesPrecedeTargets'
    BY <2>0, <2>2, RecordsExtend
  <2>4. /\ handlers' = [g \in Handler |-> handlers'[g]]
        /\ \A g \in Handler : Timely(handlers'[g])
    BY <1>0, <1>3, <2>1, OccupyTimely DEF Reveal, Release
  <2>5. \A g \in Handler : Timely(handlers[g])'
    BY <2>1, <2>4 DEF Timely
  <2>6. clock' \in Nat /\ trialIndex' \in Nat /\ pending' \in CommitType
    BY <1>0, <2>0, <2>1, NoCommitType DEF NoPending
  <2> QED
    BY <2>3, <2>4, <2>5, <2>6 DEF TimingInv
<1>4. ASSUME BeaconFails(h)
      PROVE  TimingInv'
  <2>0. clock' = clock /\ trialIndex' = trialIndex /\ records' = records /\ pending' = pending
        /\ Occupy(h, Free)
    BY <1>4 DEF BeaconFails, Release
  <2> QED
    BY <1>0, <2>0, OccupyTimely, TrialsUnchanged
<1> QED
  BY <1>1, <1>2, <1>3, <1>4

\* The steps that touch neither a trial in flight nor the records.
LEMMA OtherStepsTimely ==
  ASSUME TimingInv,
         \/ Choose \/ PageStep \/ SendExtra \/ Start \/ OpenWitnessed \/ IgnoreMessage
         \/ SealWitnessed \/ SealQuorumShort \/ \E a \in Asker : QuorumShort(a)
         \/ UNCHANGED vars
  PROVE  TimingInv'
<1>0. /\ clock \in Nat /\ trialIndex \in Nat /\ pending \in CommitType
      /\ handlers = [g \in Handler |-> handlers[g]]
      /\ \A g \in Handler : Timely(handlers[g])
      /\ Timely(Free) /\ NoPending \in CommitType
  BY FreeIsTimely, NoCommitType DEF TimingInv, NoPending
<1>1. CASE Choose \/ PageStep \/ SendExtra \/ IgnoreMessage \/ UNCHANGED vars
  <2>1. clock' = clock /\ trialIndex' = trialIndex /\ records' = records
        /\ pending' = pending /\ handlers' = handlers
    BY <1>1 DEF Choose, PageStep, ReceiveTrial, ReceivePending, SendExtra, IgnoreMessage,
                vars, runVars, feedVars, sessionVars
  <2> QED
    BY <1>0, <2>1, TrialsUnchanged
<1>2. CASE Start \/ OpenWitnessed \/ SealWitnessed \/ SealQuorumShort
  <2>1. clock' = clock
    BY <1>2, AskKeepsClock DEF Start, OpenWitnessed, SealWitnessed, SealQuorumShort, feedVars
  <2>2. trialIndex' = trialIndex /\ records' = records /\ handlers' = handlers
        /\ pending' \in {pending, NoPending}
    BY <1>2 DEF Start, OpenWitnessed, SealWitnessed, SealQuorumShort, ClearPending, sessionVars
  <2> QED
    BY <1>0, <2>1, <2>2, TrialsUnchanged
<1>3. ASSUME NEW a \in Asker, QuorumShort(a)
      PROVE  TimingInv'
  <2>1. clock' = clock /\ trialIndex' = trialIndex /\ records' = records /\ pending' = pending
    BY <1>3, AskKeepsClock DEF QuorumShort
  <2>2. handlers' = [g \in Handler |-> IF g = a THEN Free ELSE handlers[g]]
    BY <1>3 DEF QuorumShort
  <2>3. /\ handlers' = [g \in Handler |-> handlers'[g]]
        /\ \A g \in Handler : Timely(handlers'[g])
    BY <1>0, <2>2
  <2> QED
    BY <1>0, <2>1, <2>3, TrialsUnchanged
<1> QED
  BY <1>1, <1>2, <1>3

LEMMA WitnessesTimely ==
  ASSUME TimingInv, WitnessStep, UNCHANGED runVars
  PROVE  TimingInv'
<1>1. clock' \in Nat /\ clock' >= clock /\ clock \in Nat
  BY ClockGrows DEF TimingInv
<1>2. trialIndex' = trialIndex /\ records' = records /\ pending' = pending /\ handlers' = handlers
  BY DEF runVars, sessionVars
<1>3. \A g \in Handler : Timely(handlers[g])'
  BY <1>1, <1>2, StaysTimely DEF TimingInv, Timely
<1> QED
  BY <1>1, <1>2, <1>3 DEF TimingInv, ChoicesPrecedeTargets

LEMMA TimingInvStep == TimingInv /\ [Next]_vars => TimingInv'
<1> SUFFICES ASSUME TimingInv, [Next]_vars
             PROVE  TimingInv'
  OBVIOUS
<1>1. CASE \E h \in Handler : HandlerStep(h) \/ BeaconFails(h)
  BY <1>1, MessagesTimely, TrialTimely DEF HandlerStep
<1>2. CASE WitnessStep /\ UNCHANGED runVars
  BY <1>2, WitnessesTimely
<1>3. CASE \/ Choose \/ PageStep \/ SendExtra \/ Start \/ OpenWitnessed \/ IgnoreMessage
           \/ SealWitnessed \/ SealQuorumShort \/ \E a \in Asker : QuorumShort(a)
           \/ UNCHANGED vars
  BY <1>3, OtherStepsTimely
<1> QED
  BY <1>1, <1>2, <1>3 DEF Next, ServerStep

\* PSI-PRECOG-2, for every client, however many invocations are in flight and
\* with or without witnesses: the server had the signature of a recorded choice
\* before the target round was published.
THEOREM ChoicesAlwaysPrecedeTargets == Spec => []ChoicesPrecedeTargets
<1>1. TimingInv => ChoicesPrecedeTargets
  BY DEF TimingInv
<1> QED
  BY TimingInvStart, TimingInvStep, <1>1, PTL DEF Spec

-----------------------------------------------------------------------------

\* The session touches the feeds through its calls only.
LEMMA SessionKeepsFeeds ==
  ASSUME FeedInv,
         \/ Choose \/ PageStep \/ SendExtra \/ ServerStep
         \/ \E h \in Handler : BeaconFails(h)
  PROVE  FeedInv'
<1>1. CASE UNCHANGED <<feed, feedHead, requests, unwritten, stampVars>>
  BY <1>1, FeedsUntouched DEF FeedInv, stampVars
<1>2. CASE \E a, subject : Ask(a, subject) \/ Returned(a)
  BY <1>2, AskKeepsFeeds
<1>3. ASSUME NEW h \in Handler, HandlerStep(h) \/ BeaconFails(h)
      PROVE  \/ UNCHANGED <<feed, feedHead, requests, unwritten, stampVars>>
             \/ \E a, subject : Ask(a, subject) \/ Returned(a)
  <2>1. CASE HearChoice(h) \/ BindChoice(h) \/ GuardTiming(h) \/ BeaconFails(h)
    BY <2>1 DEF HearChoice, BindChoice, GuardTiming, BeaconFails, feedVars
  <2>2. CASE HearSign(h) \/ ChoiceWitnessed(h)
    BY <2>2 DEF HearSign, ChoiceWitnessed, feedVars
  <2>3. CASE Reveal(h)
    BY <2>3 DEF Reveal, NextTrial, BeginSeal, feedVars
  <2> QED
    BY <1>3, <2>1, <2>2, <2>3 DEF HandlerStep
<1>4. CASE Choose \/ PageStep \/ SendExtra \/ IgnoreMessage
  BY <1>1, <1>4
     DEF Choose, PageStep, ReceiveTrial, ReceivePending, SendExtra, IgnoreMessage, feedVars
<1>5. CASE Start \/ OpenWitnessed \/ SealWitnessed \/ SealQuorumShort \/ \E a \in Asker : QuorumShort(a)
  BY <1>1, <1>2, <1>5
     DEF Start, OpenWitnessed, SealWitnessed, SealQuorumShort, QuorumShort, feedVars
<1> QED
  BY <1>1, <1>2, <1>3, <1>4, <1>5 DEF ServerStep

LEMMA FeedInvStep == FeedInv /\ [Next]_vars => FeedInv'
<1>1. ASSUME FeedInv, UNCHANGED vars
      PROVE  FeedInv'
  BY <1>1, FeedsUntouched DEF vars, feedVars, stampVars, FeedInv
<1> QED
  BY <1>1, SessionKeepsFeeds, WitnessesKeepFeeds DEF Next

\* "A verifier can bind a token to a feed prefix": for every client, and whatever
\* witnesses co-sign, fail to write and forget by a restart while the authority is
\* asked, every line of the stamps files names the head its token is over, and the
\* feed has that entry under that number and no other, or its own write failed.
THEOREM StampsAlwaysBind == Spec => []StampsBind
<1>1. Init => FeedInv
  BY FeedInvStart DEF Init
<1> QED
  BY <1>1, FeedInvStep, FeedInvSuffices, PTL DEF Spec

-----------------------------------------------------------------------------

LEMMA SealAskIsAsker == SealAsk \in Asker /\ OpenAsk \in Asker /\ Handler \subseteq Asker
BY PrecogAssumption

\* A call is on only once it has been asked for.
LEMMA CallsKeep ==
  ASSUME ClosedInv, NEW a \in Asker, NEW subject, (Ask(a, subject) /\ a # SealAsk) \/ Returned(a)
  PROVE  /\ asks' = [b \in Asker |-> asks'[b]]
         /\ \A b \in Asker : DOMAIN asks'[b] = DOMAIN Idle
         /\ asks'[SealAsk].on => asks[SealAsk].on
<1>0. SealAsk \in Asker
  BY PrecogAssumption
<1>1. CASE Ask(a, subject) /\ a # SealAsk
  <2>1. asks' = [asks EXCEPT ![a] = [on |-> TRUE, subject |-> {subject}, waiting |-> Url, got |-> {}]]
    BY <1>1 DEF Ask
  <2> QED
    BY <1>0, <1>1, <2>1 DEF ClosedInv, Idle
<1>2. CASE Returned(a)
  <2>1. asks' = [asks EXCEPT ![a] = Idle] /\ ~Idle.on
    BY <1>2 DEF Returned, Idle
  <2> QED
    BY <1>0, <2>1 DEF ClosedInv
<1> QED
  BY <1>1, <1>2

LEMMA WitnessesKeepCalls ==
  ASSUME ClosedInv, WitnessStep
  PROVE  /\ asks' = [b \in Asker |-> asks'[b]]
         /\ \A b \in Asker : DOMAIN asks'[b] = DOMAIN Idle
         /\ \A b \in Asker : asks'[b].on = asks[b].on
<1>1. ASSUME NEW q, NEW atts, Answered(q, atts)
      PROVE  /\ asks' = [b \in Asker |-> asks'[b]]
             /\ \A b \in Asker : DOMAIN asks'[b] = DOMAIN Idle
             /\ \A b \in Asker : asks'[b].on = asks[b].on
  BY <1>1 DEF Answered, ClosedInv, Idle
<1>2. ASSUME NEW w \in Witness, WitnessRestarts(w)
      PROVE  /\ asks' = [b \in Asker |-> asks'[b]]
             /\ \A b \in Asker : DOMAIN asks'[b] = DOMAIN Idle
             /\ \A b \in Asker : asks'[b].on = asks[b].on
  BY <1>2 DEF WitnessRestarts, ClosedInv, Idle
<1>3. CASE asks' = asks
  BY <1>3 DEF ClosedInv
<1>4. \/ asks' = asks
      \/ \E q, atts : Answered(q, atts)
      \/ \E w \in Witness : WitnessRestarts(w)
  BY DEF WitnessStep, Serve, ReadRequest, Refuse, CoSign, TimeOut, Miss, FeedFails, StampHead,
         StampEnds, StampFails, Tick
<1> QED
  BY <1>1, <1>2, <1>3, <1>4

\* A step that leaves what is sealed alone.
LEMMA ClosedInvStays ==
  ASSUME ClosedInv, sealed' = sealed,
         outcome' = outcome \/ (~Closed /\ outcome' \in {"running", "failed"}),
         asks' = [b \in Asker |-> asks'[b]],
         \A b \in Asker : DOMAIN asks'[b] = DOMAIN Idle,
         asks'[SealAsk].on => asks[SealAsk].on
  PROVE  ClosedInv' /\ StaysClosed
BY DEF ClosedInv, Closed, StaysClosed

LEMMA ClosedInvStep ==
  ASSUME ClosedInv, [Next]_vars
  PROVE  ClosedInv' /\ StaysClosed
<1>0. /\ SealAsk \in Asker /\ OpenAsk \in Asker /\ OpenAsk # SealAsk
      /\ Handler \subseteq Asker /\ SealAsk \notin Handler
  BY PrecogAssumption
<1>1. ASSUME asks' = asks, sealed' = sealed,
             outcome' = outcome \/ (~Closed /\ outcome' \in {"running", "failed"})
      PROVE  ClosedInv' /\ StaysClosed
  BY <1>1, ClosedInvStays DEF ClosedInv
<1>2. ASSUME NEW a \in Asker, NEW subject, (Ask(a, subject) /\ a # SealAsk) \/ Returned(a),
             sealed' = sealed,
             outcome' = outcome \/ (~Closed /\ outcome' \in {"running", "failed"})
      PROVE  ClosedInv' /\ StaysClosed
  <2>1. /\ asks' = [b \in Asker |-> asks'[b]]
        /\ \A b \in Asker : DOMAIN asks'[b] = DOMAIN Idle
        /\ asks'[SealAsk].on => asks[SealAsk].on
    BY <1>2, CallsKeep
  <2> QED
    BY <1>2, <2>1, ClosedInvStays
<1>3. CASE Choose \/ PageStep \/ SendExtra \/ IgnoreMessage
  BY <1>1, <1>3 DEF Choose, PageStep, ReceiveTrial, ReceivePending, SendExtra, IgnoreMessage,
                    feedVars, sessionVars, witnessing
<1>4. CASE WitnessStep /\ UNCHANGED runVars
  BY <1>0, <1>4, WitnessesKeepCalls, ClosedInvStays DEF runVars, sessionVars, witnessing
<1>5. CASE Start
  <2>1. ~Closed /\ outcome' = "running" /\ sealed' = sealed
    BY <1>5 DEF Start, Closed, witnessing
  <2>2. Ask(OpenAsk, Subject("open", NoCommit)) \/ asks' = asks
    BY <1>5 DEF Start, feedVars
  <2> QED
    BY <1>0, <1>1, <1>2, <2>1, <2>2
<1>6. CASE OpenWitnessed
  BY <1>0, <1>2, <1>6 DEF OpenWitnessed
<1>7. CASE \E a \in Asker : QuorumShort(a)
  BY <1>2, <1>7 DEF QuorumShort, Fail, Closed, witnessing
<1>8. CASE SealQuorumShort
  BY <1>0, <1>2, <1>8 DEF SealQuorumShort, sessionVars, witnessing
<1>9. CASE SealWitnessed
  <2>1. /\ Returned(SealAsk) /\ asks[SealAsk].on /\ outcome = "sealing"
        /\ ~Idle.on /\ asks' = [asks EXCEPT ![SealAsk] = Idle]
    BY <1>9 DEF SealWitnessed, Returned, Settled, ClosedInv, Idle
  <2>2. /\ asks' = [b \in Asker |-> asks'[b]] /\ ~asks'[SealAsk].on
        /\ \A b \in Asker : DOMAIN asks'[b] = DOMAIN Idle
    BY <1>0, <2>1 DEF ClosedInv
  <2>3. /\ outcome' \in {"sealing", "sealed"} /\ DOMAIN sealed' = DOMAIN sealed
        /\ sealed'.records = sealed.records
    BY <1>9, <2>1 DEF SealWitnessed, ClosedInv, NotSealed
  <2> QED
    BY <2>1, <2>2, <2>3 DEF ClosedInv, StaysClosed
<1>10. ASSUME NEW h \in Handler, HearChoice(h) \/ BindChoice(h) \/ GuardTiming(h) \/ BeaconFails(h)
       PROVE  ClosedInv' /\ StaysClosed
  BY <1>1, <1>10 DEF HearChoice, BindChoice, GuardTiming, BeaconFails, Fail, Closed, feedVars,
                     witnessing
<1>11. ASSUME NEW h \in Handler, HearSign(h)
       PROVE  ClosedInv' /\ StaysClosed
  <2>1. sealed' = sealed /\ (outcome' = outcome \/ (~Closed /\ outcome' \in {"running", "failed"}))
    BY <1>11 DEF HearSign, Fail, Closed, witnessing
  <2>2. asks' = asks \/ \E subject : Ask(h, subject)
    BY <1>11 DEF HearSign, feedVars
  <2> QED
    BY <1>0, <1>1, <1>2, <2>1, <2>2
<1>12. ASSUME NEW h \in Handler, ChoiceWitnessed(h)
       PROVE  ClosedInv' /\ StaysClosed
  BY <1>0, <1>2, <1>12 DEF ChoiceWitnessed, witnessing
<1>13. ASSUME NEW h \in Handler, Reveal(h)
       PROVE  ClosedInv' /\ StaysClosed
  <2>1. CASE UNCHANGED <<asks, sealed, outcome>>
    BY <1>1, <2>1
  <2>2. CASE ~Closed /\ BeginSeal
    <3>1. DOMAIN sealed' = DOMAIN sealed
      BY <2>2 DEF BeginSeal, ClosedInv, NotSealed
    <3>2. /\ outcome' \in {"sealing", "sealed"} /\ (outcome' = "sealed" => asks' = asks)
          /\ asks' = asks \/ \E subject : Ask(SealAsk, subject)
      BY <2>2 DEF BeginSeal, feedVars
    <3>3. /\ asks' = [b \in Asker |-> asks'[b]]
          /\ \A b \in Asker : DOMAIN asks'[b] = DOMAIN Idle
      <4>1. CASE asks' = asks
        BY <4>1 DEF ClosedInv
      <4>2. ASSUME NEW subject, Ask(SealAsk, subject)
            PROVE  /\ asks' = [b \in Asker |-> asks'[b]]
                   /\ \A b \in Asker : DOMAIN asks'[b] = DOMAIN Idle
        <5>1. asks' = [asks EXCEPT ![SealAsk] = [on |-> TRUE, subject |-> {subject},
                                                 waiting |-> Url, got |-> {}]]
          BY <4>2 DEF Ask
        <5> QED
          BY <1>0, <5>1 DEF ClosedInv, Idle
      <4> QED
        BY <3>2, <4>1, <4>2
    <3>4. asks'[SealAsk].on => outcome' = "sealing"
      BY <2>2, <3>2 DEF ClosedInv, Closed
    <3> QED
      BY <2>2, <3>1, <3>3, <3>4 DEF ClosedInv, StaysClosed, Closed
  <2>3. UNCHANGED <<asks, sealed, outcome>> \/ (~Closed /\ BeginSeal)
    BY <1>13 DEF Reveal, NextTrial, BeginSeal, feedVars
  <2> QED
    BY <2>1, <2>2, <2>3
<1>14. CASE UNCHANGED vars
  BY <1>1, <1>14 DEF vars, feedVars, runVars, sessionVars, witnessing
<1> QED
  BY <1>3, <1>4, <1>5, <1>6, <1>7, <1>8, <1>9, <1>10, <1>11, <1>12, <1>13, <1>14
     DEF Next, ServerStep, HandlerStep

LEMMA ClosedInvStart == Init => ClosedInv
BY SealAskIsAsker DEF Init, FeedInit, ClosedInv, Idle

\* `closed`, for every client: a session that is void stays so, and a seal that
\* has begun is neither voided, nor begun again, nor added to.
THEOREM SealedAlwaysOnceOrVoid == Spec => SealedOnceOrVoid
<1>1. ClosedInv /\ [Next]_vars => ClosedInv' /\ [StaysClosed]_vars
  BY ClosedInvStep
<1> QED
  BY ClosedInvStart, <1>1, PTL DEF Spec, SealedOnceOrVoid

-----------------------------------------------------------------------------
(* What is recorded and sealed.                                              *)

\* The beacon and the feeds only go on.
Onward ==
  /\ clock' \in Nat /\ clock \in Nat /\ clock <= clock'
  /\ \A w \in Witness : Entries(w) \subseteq Entries(w)'

LEMMA NoCommitIsNone ==
  /\ NoCommit \in CommitType /\ NoCommit.target = NoTarget /\ NoCommit.choice = NoChoice
  /\ NoPending = NoCommit /\ NoTarget \in Int
BY NoCommitType DEF NoCommit, Commit, NoTarget, NoPending

\* What has been attested and recorded stays so.
LEMMA EvidenceStays ==
  ASSUME Onward
  PROVE  /\ \A att, s : Attests(att, s) => Attests(att, s)'
         /\ \A atts, s : AttestedBy(atts, s) => AttestedBy(atts, s)'
         /\ \A c : IsBound(c) => IsBound(c)'
         /\ \A atts, c : FreshlyAttested(atts, c) => FreshlyAttested(atts, c)'
         /\ \A atts, c : CoSignedChoice(atts, c) => CoSignedChoice(atts, c)'
         /\ \A i, r : RecordInv(i, r) => RecordInv(i, r)'
<1>1. \A att, s : Attests(att, s) => Attests(att, s)'
  BY DEF Onward, Attests
<1>2. \A atts, s : AttestedBy(atts, s) => AttestedBy(atts, s)'
  BY <1>1 DEF AttestedBy
<1>3. \A c : IsBound(c) => IsBound(c)'
  BY DEF Onward, IsBound
<1>4. \A atts, c : FreshlyAttested(atts, c) => FreshlyAttested(atts, c)'
  BY <1>1 DEF FreshlyAttested
<1>5. \A atts, c : CoSignedChoice(atts, c) => CoSignedChoice(atts, c)'
  BY <1>2, <1>4 DEF CoSignedChoice
<1>6. ASSUME NEW i, NEW r, RecordInv(i, r)
      PROVE  RecordInv(i, r)'
  <2>1. IsBound(r.sig)' /\ CoSignedChoice(r.witness, r.sig)'
    BY <1>3, <1>5, <1>6 DEF RecordInv
  <2>2. r.sig.target <= clock'
    BY <1>6 DEF RecordInv, IsBound, CommitType, Onward
  <2> QED
    BY <1>6, <2>1, <2>2 DEF RecordInv
<1> QED
  BY <1>1, <1>2, <1>3, <1>4, <1>5, <1>6

\* The session leaves an invocation and its call alone.
LEMMA FlowStays ==
  ASSUME Onward, NEW h \in Handler, FlowInv(h),
         handlers'[h] = handlers[h], asks'[h] = asks[h],
         \A q \in requests' : q.read => q \in requests
  PROVE  FlowInv(h)'
BY EvidenceStays DEF FlowInv

\* An invocation that awaits nothing, or the beacon, has no call.
LEMMA FreeFlow ==
  ASSUME NEW h \in Handler, handlers'[h] = Free, ~asks'[h].on
  PROVE  FlowInv(h)'
BY DEF FlowInv, Free, Flow

LEMMA TrialsStay ==
  ASSUME TrialsInv, Onward, UNCHANGED <<records, trialIndex>>,
         up' \in BOOLEAN, pending' \in {pending, NoPending},
         outcome' = outcome \/ (~Closed /\ outcome' = "running") \/ outcome' = "failed"
                            \/ (Closed /\ outcome' \in {"sealing", "sealed"})
  PROVE  TrialsInv'
BY EvidenceStays DEF TrialsInv, Closed

LEMMA SealStays ==
  ASSUME SealInv, Onward, UNCHANGED <<sealed, openWitness>>,
         outcome' = "sealed" => outcome = "sealed",
         \A a \in {OpenAsk, SealAsk} :
           asks'[a].on => asks[a].on /\ asks'[a].subject = asks[a].subject
  PROVE  SealInv'
BY EvidenceStays DEF SealInv

\* The parts of RunInv that are proved here.
Kept == CallsInv' /\ (\A h \in Handler : FlowInv(h)') /\ TrialsInv' /\ SealInv'

LEMMA AskersDiffer ==
  /\ OpenAsk \in Asker /\ SealAsk \in Asker /\ Handler \subseteq Asker
  /\ OpenAsk # SealAsk /\ OpenAsk \notin Handler /\ SealAsk \notin Handler
  /\ Asker = Handler \cup {OpenAsk, SealAsk}
BY PrecogAssumption

\* The session writes no feed and publishes no round.
LEMMA SessionOnward ==
  ASSUME CallsInv, UNCHANGED <<clock, feed>>
  PROVE  Onward
BY DEF Onward, CallsInv, Entries

LEMMA CallsUntouched ==
  ASSUME CallsInv, UNCHANGED <<clock, feed, requests, asks>>
  PROVE  CallsInv'
BY ClockKeepsCalls DEF CallsInv

LEMMA QuietStepsKeep ==
  ASSUME RunInv, Choose \/ PageStep \/ SendExtra \/ IgnoreMessage \/ UNCHANGED vars
  PROVE  Kept
<1>1. /\ UNCHANGED <<clock, feed, requests, asks>>
      /\ UNCHANGED <<up, outcome, trialIndex, pending, handlers, records, openWitness, sealed>>
  BY DEF Choose, PageStep, ReceiveTrial, ReceivePending, SendExtra, IgnoreMessage,
         vars, runVars, feedVars, sessionVars, witnessing
<1>2. Onward /\ CallsInv'
  BY <1>1, SessionOnward, CallsUntouched DEF RunInv
<1>3. \A h \in Handler : FlowInv(h)'
  BY <1>1, <1>2, FlowStays DEF RunInv
<1>4. TrialsInv'
  BY <1>1, <1>2, TrialsStay DEF RunInv, TrialsInv
<1>5. SealInv'
  BY <1>1, <1>2, SealStays DEF RunInv
<1> QED
  BY <1>2, <1>3, <1>4, <1>5 DEF Kept

LEMMA StartKeeps ==
  ASSUME RunInv, Start
  PROVE  Kept
<1>1. /\ UNCHANGED <<up, trialIndex, pending, handlers, records, openWitness, sealed>>
      /\ outcome = "created" /\ outcome' = "running"
  BY DEF Start, witnessing
<1>2. CASE ~Enabled
  <2>1. UNCHANGED <<clock, feed, requests, asks>>
    BY <1>2 DEF Start, feedVars
  <2>2. Onward /\ CallsInv'
    BY <2>1, SessionOnward, CallsUntouched DEF RunInv
  <2>3. \A h \in Handler : FlowInv(h)'
    BY <1>1, <2>1, <2>2, FlowStays DEF RunInv
  <2>4. TrialsInv'
    BY <1>1, <2>2, TrialsStay DEF RunInv, TrialsInv, Closed
  <2>5. SealInv'
    BY <1>1, <2>1, <2>2, SealStays DEF RunInv
  <2> QED
    BY <2>2, <2>3, <2>4, <2>5 DEF Kept
<1>3. CASE Enabled
  <2> DEFINE open == Subject("open", NoCommit)
  <2>1. Ask(OpenAsk, open) /\ UNCHANGED <<clock, feed>>
    BY <1>3 DEF Start, Ask
  <2>2. open.target \in Int
    BY NoCommitIsNone DEF Subject
  <2>3. /\ CallsInv' /\ Onward
        /\ asks'[OpenAsk].subject = {open}
        /\ \A b \in Asker \ {OpenAsk} : asks'[b] = asks[b]
        /\ \A q \in requests' : q.read => q \in requests
    <3> HIDE DEF open
    <3> QED
      BY <2>1, <2>2, SessionOnward, AskKeepsCalls, AskersDiffer DEF RunInv
  <2>4. \A h \in Handler : FlowInv(h)'
    BY <1>1, <2>3, FlowStays, AskersDiffer DEF RunInv
  <2>5. TrialsInv'
    BY <1>1, <2>3, TrialsStay DEF RunInv, TrialsInv, Closed
  <2>6. asks'[SealAsk] = asks[SealAsk]
    BY <2>3, AskersDiffer
  <2>7. SealInv'
    BY <1>1, <2>3, <2>6, EvidenceStays DEF RunInv, SealInv
  <2> QED
    BY <2>3, <2>4, <2>5, <2>7 DEF Kept
<1> QED
  BY <1>2, <1>3

\* What attestQuorum returns is of the subject it was called with.
LEMMA QuorumReturned ==
  ASSUME CallsInv, NEW a \in Asker, NEW s, asks[a].subject = {s}, QuorumReached(a)
  PROVE  AttestedBy(asks[a].got, s)
BY DEF CallsInv, QuorumReached, AttestedBy

LEMMA CallReturns ==
  ASSUME CallsInv, NEW a \in Asker, Returned(a)
  PROVE  /\ CallsInv' /\ Onward
         /\ asks[a].on /\ ~asks'[a].on
         /\ \A b \in Asker \ {a} : asks'[b] = asks[b]
         /\ requests' = requests
<1>1. UNCHANGED <<clock, feed, requests>>
  BY DEF Returned
<1> QED
  BY <1>1, SessionOnward, ReturnKeepsCalls

LEMMA OpenWitnessedKeeps ==
  ASSUME RunInv, OpenWitnessed
  PROVE  Kept
<1>1. /\ UNCHANGED <<up, outcome, trialIndex, handlers, records, sealed>>
      /\ Returned(OpenAsk) /\ QuorumReached(OpenAsk)
      /\ openWitness' = asks[OpenAsk].got
      /\ pending' = NoPending
  BY DEF OpenWitnessed, ClearPending
<1>2. /\ CallsInv' /\ Onward
      /\ asks[OpenAsk].on /\ ~asks'[OpenAsk].on
      /\ \A b \in Asker \ {OpenAsk} : asks'[b] = asks[b]
      /\ requests' = requests
  BY <1>1, CallReturns, AskersDiffer DEF RunInv
<1>3. \A h \in Handler : FlowInv(h)'
  BY <1>1, <1>2, FlowStays, AskersDiffer DEF RunInv
<1>4. TrialsInv'
  BY <1>1, <1>2, TrialsStay DEF RunInv, TrialsInv
<1>5. \A att \in openWitness' : Attests(att, Subject("open", NoCommit))'
  <2>1. AttestedBy(asks[OpenAsk].got, Subject("open", NoCommit))
    BY <1>1, <1>2, QuorumReturned, AskersDiffer DEF RunInv, SealInv
  <2> QED
    BY <1>1, <1>2, <2>1, EvidenceStays DEF AttestedBy
<1>6. asks'[SealAsk] = asks[SealAsk]
  BY <1>2, AskersDiffer
<1>7. SealInv'
  BY <1>1, <1>2, <1>5, <1>6, EvidenceStays DEF RunInv, SealInv
<1> QED
  BY <1>2, <1>3, <1>4, <1>7 DEF Kept

LEMMA QuorumShortKeeps ==
  ASSUME RunInv, NEW a \in Asker, QuorumShort(a)
  PROVE  Kept
<1>1. /\ UNCHANGED <<up, trialIndex, pending, records, openWitness, sealed>>
      /\ Returned(a) /\ a # SealAsk /\ outcome' \in {outcome, "failed"}
      /\ handlers' = [h \in Handler |-> IF h = a THEN Free ELSE handlers[h]]
  BY DEF QuorumShort, Fail, witnessing
<1>2. /\ CallsInv' /\ Onward
      /\ ~asks'[a].on
      /\ \A b \in Asker \ {a} : asks'[b] = asks[b]
      /\ requests' = requests
  BY <1>1, CallReturns DEF RunInv
<1>3. ASSUME NEW h \in Handler
      PROVE  FlowInv(h)'
  <2>1. CASE h = a
    BY <1>1, <1>2, <2>1, FreeFlow
  <2>2. CASE h # a
    <3>1. handlers'[h] = handlers[h] /\ asks'[h] = asks[h]
      BY <1>1, <1>2, <2>2, AskersDiffer
    <3> QED
      BY <1>2, <3>1, FlowStays DEF RunInv
  <2> QED
    BY <2>1, <2>2
<1>4. TrialsInv'
  BY <1>1, <1>2, TrialsStay DEF RunInv, TrialsInv
<1>5. \A b \in {OpenAsk, SealAsk} : asks'[b].on => asks[b].on /\ asks'[b].subject = asks[b].subject
  BY <1>2, AskersDiffer
<1>6. SealInv'
  BY <1>1, <1>2, <1>5, SealStays DEF RunInv
<1> QED
  BY <1>2, <1>3, <1>4, <1>6 DEF Kept

LEMMA SealQuorumShortKeeps ==
  ASSUME RunInv, SealQuorumShort
  PROVE  Kept
<1>1. /\ UNCHANGED <<outcome, trialIndex, pending, handlers, records, openWitness, sealed>>
      /\ Returned(SealAsk) /\ up' = FALSE
  BY DEF SealQuorumShort, sessionVars, witnessing
<1>2. /\ CallsInv' /\ Onward
      /\ ~asks'[SealAsk].on
      /\ \A b \in Asker \ {SealAsk} : asks'[b] = asks[b]
      /\ requests' = requests
  BY <1>1, CallReturns, AskersDiffer DEF RunInv
<1>3. \A h \in Handler : FlowInv(h)'
  BY <1>1, <1>2, FlowStays, AskersDiffer DEF RunInv
<1>4. TrialsInv'
  BY <1>1, <1>2, TrialsStay DEF RunInv, TrialsInv
<1>5. \A b \in {OpenAsk, SealAsk} : asks'[b].on => asks[b].on /\ asks'[b].subject = asks[b].subject
  BY <1>2, AskersDiffer
<1>6. SealInv'
  BY <1>1, <1>2, <1>5, SealStays DEF RunInv
<1> QED
  BY <1>2, <1>3, <1>4, <1>6 DEF Kept

LEMMA SealWitnessedKeeps ==
  ASSUME RunInv, SealWitnessed
  PROVE  Kept
<1> DEFINE sub == Subject("seal", NoCommit)
<1>1. /\ UNCHANGED <<trialIndex, pending, handlers, records, openWitness>>
      /\ Returned(SealAsk) /\ QuorumReached(SealAsk)
      /\ \/ /\ outcome' = "sealed" /\ up' = up
            /\ sealed' = [sealed EXCEPT !.openWitness = openWitness, !.sealWitness = asks[SealAsk].got]
         \/ up' = FALSE /\ UNCHANGED <<outcome, sealed>>
  BY DEF SealWitnessed
<1>2. /\ CallsInv' /\ Onward
      /\ asks[SealAsk].on /\ ~asks'[SealAsk].on
      /\ \A b \in Asker \ {SealAsk} : asks'[b] = asks[b]
      /\ requests' = requests
  BY <1>1, CallReturns, AskersDiffer DEF RunInv
<1>3. \A h \in Handler : FlowInv(h)'
  BY <1>1, <1>2, FlowStays, AskersDiffer DEF RunInv
<1>4. outcome = "sealing"
  BY <1>2 DEF RunInv, ClosedInv
<1>5. TrialsInv'
  BY <1>1, <1>2, <1>4, TrialsStay DEF RunInv, TrialsInv, Closed
<1>a. PICK got : got = asks[SealAsk].got
  OBVIOUS
<1>6. AttestedBy(got, sub)'
  <2>1. AttestedBy(got, sub)
    BY <1>1, <1>2, <1>a, QuorumReturned, AskersDiffer DEF RunInv, SealInv
  <2> QED
    BY <1>2, <2>1, EvidenceStays
<1>7. /\ asks'[OpenAsk] = asks[OpenAsk]
      /\ DOMAIN sealed = {"records", "openWitness", "sealWitness"}
  BY <1>2, AskersDiffer DEF RunInv, ClosedInv, NotSealed
<1>8. SealInv'
  <2>1. CASE outcome' = "sealed"
    <3>1. /\ sealed'.records = sealed.records /\ sealed'.openWitness = openWitness
          /\ sealed'.sealWitness = got
      BY <1>1, <1>4, <1>7, <1>a, <2>1
    <3>2. openWitness' = openWitness
      BY <1>1
    <3> QED
      BY <1>2, <1>6, <1>7, <3>1, <3>2, EvidenceStays DEF RunInv, SealInv
  <2>2. CASE outcome' # "sealed"
    <3>1. UNCHANGED <<sealed, openWitness>>
      BY <1>1, <2>2
    <3>2. \A b \in {OpenAsk, SealAsk} : asks'[b].on => asks[b].on /\ asks'[b].subject = asks[b].subject
      BY <1>2, <1>7
    <3> QED
      BY <1>2, <2>2, <3>1, <3>2, SealStays DEF RunInv
  <2> QED
    BY <2>1, <2>2
<1> QED
  BY <1>2, <1>3, <1>5, <1>8 DEF Kept

-----------------------------------------------------------------------------
(* The invocations of onChoice and onSign.                                   *)

\* One invocation goes on; the others, and their calls, stay.
LEMMA OneGoesOn ==
  ASSUME RunInv, Onward, NEW h \in Handler, NEW flow, Occupy(h, flow),
         \A b \in Asker \ {h} : asks'[b] = asks[b],
         \A q \in requests' : q.read => q \in requests
  PROVE  handlers'[h] = flow /\ \A g \in Handler \ {h} : FlowInv(g)'
<1>1. handlers'[h] = flow /\ \A g \in Handler \ {h} : handlers'[g] = handlers[g]
  BY DEF RunInv, TimingInv, Occupy
<1>2. ASSUME NEW g \in Handler \ {h}
      PROVE  FlowInv(g)'
  <2>1. handlers'[g] = handlers[g] /\ asks'[g] = asks[g]
    BY <1>1, AskersDiffer
  <2> QED
    BY <2>1, FlowStays DEF RunInv
<1> QED
  BY <1>1, <1>2

\* A step of an invocation that makes no call and gets no answer.
LEMMA QuietHandler ==
  ASSUME RunInv, UNCHANGED <<clock, feed, requests, asks, records, trialIndex, openWitness, sealed, up>>,
         pending' = pending, outcome' \in {outcome, "failed"},
         \A h \in Handler : FlowInv(h)'
  PROVE  Kept
<1>1. Onward /\ CallsInv'
  BY SessionOnward, CallsUntouched DEF RunInv
<1>2. TrialsInv'
  BY <1>1, TrialsStay DEF RunInv, TrialsInv
<1>3. SealInv'
  BY <1>1, SealStays DEF RunInv
<1> QED
  BY <1>1, <1>2, <1>3 DEF Kept

LEMMA HearChoiceKeeps ==
  ASSUME RunInv, NEW h \in Handler, HearChoice(h)
  PROVE  Kept
<1> DEFINE choice == Head(toServer).choice
           chosen == [NoCommit EXCEPT !.choice = choice]
<1>1. /\ UNCHANGED <<clock, feed, requests, asks, records, trialIndex, openWitness, sealed, up>>
      /\ pending' = pending /\ outcome' \in {outcome, "failed"}
      /\ handlers[h].awaits = "nothing"
  BY DEF HearChoice, feedVars, witnessing, Fail, Awaiting
<1>2. Onward
  BY <1>1, SessionOnward DEF RunInv
<1>3. CASE choice \in Choice
  <2>1. Occupy(h, Flow("bind", chosen, clock, 0, {}))
    BY <1>3, Zenon DEF HearChoice
  <2>2. /\ handlers'[h] = Flow("bind", chosen, clock, 0, {})
        /\ \A g \in Handler \ {h} : FlowInv(g)'
    BY <1>1, <1>2, <2>1, OneGoesOn
  <2>3. chosen.choice \in Choice
    BY <1>3, NoCommitIsNone DEF CommitType
  <2>4. ~asks'[h].on
    BY <1>1 DEF RunInv, FlowInv
  <2>5. FlowInv(h)'
    <3> HIDE DEF chosen
    <3> QED
      BY <2>2, <2>3, <2>4 DEF FlowInv, Flow
  <2> QED
    BY <1>1, <2>2, <2>5, QuietHandler
<1>4. CASE choice \notin Choice
  <2>1. handlers' = handlers
    BY <1>4 DEF HearChoice
  <2>2. \A g \in Handler : FlowInv(g)'
    BY <1>1, <1>2, <2>1, FlowStays DEF RunInv
  <2> QED
    BY <1>1, <2>2, QuietHandler
<1> QED
  BY <1>3, <1>4

LEMMA BindChoiceKeeps ==
  ASSUME RunInv, NEW h \in Handler, BindChoice(h)
  PROVE  Kept
<1>1. /\ UNCHANGED <<clock, feed, requests, asks, records, trialIndex, openWitness, sealed, up, outcome>>
      /\ handlers[h].awaits = "bind"
      /\ Occupy(h, Free)
  BY DEF BindChoice, feedVars, witnessing, Awaiting, Release
<1>2. Onward /\ CallsInv'
  BY <1>1, SessionOnward, CallsUntouched DEF RunInv
<1>3. PICK round \in handlers[h].since..clock :
        pending' = Commit(trialIndex, handlers[h].commit.choice, round + Offset, round)
  BY DEF BindChoice, LatestRounds
<1>a. PICK bound : bound = pending'
  OBVIOUS
<1>4. IsBound(bound)'
  <2>1. /\ round \in Int /\ round \in 0..clock /\ round + Offset \in Int /\ round < round + Offset
        /\ trialIndex \in Int /\ clock' = clock
    BY <1>1, <1>3, PrecogAssumption DEF RunInv, TimingInv, Timely
  <2>2. handlers[h].commit.choice \in Choice
    BY <1>1 DEF RunInv, FlowInv
  <2> QED
    BY <1>3, <1>a, <2>1, <2>2 DEF IsBound, Commit, CommitType
<1>5. handlers'[h] = Free /\ \A g \in Handler \ {h} : FlowInv(g)'
  BY <1>1, <1>2, OneGoesOn
<1>6. ~asks'[h].on
  BY <1>1 DEF RunInv, FlowInv
<1>7. FlowInv(h)'
  BY <1>5, <1>6, FreeFlow
<1>8. TrialsInv'
  BY <1>1, <1>2, <1>4, <1>a, EvidenceStays DEF RunInv, TrialsInv, Closed
<1>9. SealInv'
  BY <1>1, <1>2, SealStays DEF RunInv
<1> QED
  BY <1>2, <1>5, <1>7, <1>8, <1>9 DEF Kept

LEMMA GuardTimingKeeps ==
  ASSUME RunInv, NEW h \in Handler, GuardTiming(h)
  PROVE  Kept
<1>1. /\ UNCHANGED <<clock, feed, requests, asks, records, trialIndex, openWitness, sealed, up>>
      /\ pending' = pending /\ outcome' \in {outcome, "failed"}
      /\ handlers[h].awaits = "guard"
      /\ Occupy(h, Free) \/ Occupy(h, [handlers[h] EXCEPT !.awaits = "target"])
  BY DEF GuardTiming, feedVars, witnessing, Fail, Awaiting, Release
<1>2. Onward
  BY <1>1, SessionOnward DEF RunInv
<1>3. ~asks'[h].on
  BY <1>1 DEF RunInv, FlowInv
<1>4. CASE Occupy(h, Free)
  <2>1. handlers'[h] = Free /\ \A g \in Handler \ {h} : FlowInv(g)'
    BY <1>1, <1>2, <1>4, OneGoesOn
  <2> QED
    BY <1>1, <1>3, <2>1, FreeFlow, QuietHandler
<1>5. CASE Occupy(h, [handlers[h] EXCEPT !.awaits = "target"])
  <2>1. /\ handlers'[h] = [handlers[h] EXCEPT !.awaits = "target"]
        /\ \A g \in Handler \ {h} : FlowInv(g)'
    BY <1>1, <1>2, <1>5, OneGoesOn
  <2>2. /\ handlers'[h].awaits = "target" /\ handlers'[h].commit = handlers[h].commit
        /\ handlers'[h].witness = handlers[h].witness
    BY <2>1 DEF RunInv, TimingInv, Timely
  <2>3. IsBound(handlers[h].commit) /\ CoSignedChoice(handlers[h].witness, handlers[h].commit)
    BY <1>1 DEF RunInv, FlowInv
  <2>4. FlowInv(h)'
    BY <1>2, <1>3, <2>2, <2>3, EvidenceStays DEF FlowInv
  <2> QED
    BY <1>1, <2>1, <2>4, QuietHandler
<1> QED
  BY <1>1, <1>4, <1>5

LEMMA BeaconFailsKeeps ==
  ASSUME RunInv, NEW h \in Handler, BeaconFails(h)
  PROVE  Kept
<1>1. /\ UNCHANGED <<clock, feed, requests, asks, records, trialIndex, openWitness, sealed, up>>
      /\ pending' = pending /\ outcome' \in {outcome, "failed"}
      /\ handlers[h].awaits \in {"bind", "guard", "target"}
      /\ Occupy(h, Free)
  BY DEF BeaconFails, witnessing, Fail, Awaiting, Release
<1>2. Onward
  BY <1>1, SessionOnward DEF RunInv
<1>3. ~asks'[h].on
  BY <1>1 DEF RunInv, FlowInv
<1>4. handlers'[h] = Free /\ \A g \in Handler \ {h} : FlowInv(g)'
  BY <1>1, <1>2, OneGoesOn
<1> QED
  BY <1>1, <1>3, <1>4, FreeFlow, QuietHandler

LEMMA HearSignKeeps ==
  ASSUME RunInv, NEW h \in Handler, HearSign(h)
  PROVE  Kept
<1> DEFINE sub(c) == Subject("choice", c)
<1>0. PICK tc : tc = [pending EXCEPT !.index = trialIndex]
  OBVIOUS
<1>1. /\ UNCHANGED <<records, trialIndex, openWitness, sealed, up>>
      /\ pending' = pending /\ outcome' \in {outcome, "failed"}
      /\ handlers[h].awaits = "nothing" /\ pending # NoPending
  BY DEF HearSign, witnessing, Fail, Awaiting
<1>2. IsBound(tc)
  BY <1>0, <1>1 DEF RunInv, TrialsInv, TimingInv, IsBound, CommitType
<1>3. ~asks[h].on
  BY <1>1 DEF RunInv, FlowInv
<1>4. CASE Head(toServer).sig # tc
  <2>1. UNCHANGED <<handlers, clock, feed, requests, asks>>
    BY <1>0, <1>4 DEF HearSign, feedVars
  <2>2. \A g \in Handler : FlowInv(g)'
    BY <2>1, FlowStays, SessionOnward DEF RunInv
  <2> QED
    BY <1>1, <2>1, <2>2, QuietHandler
<1>5. CASE Head(toServer).sig = tc /\ ~Enabled
  <2>1. UNCHANGED <<clock, feed, requests, asks>> /\ Occupy(h, Flow("guard", tc, clock, clock, {}))
    BY <1>0, <1>5, Zenon DEF HearSign, feedVars
  <2>2. Onward
    BY <2>1, SessionOnward DEF RunInv
  <2>3. /\ handlers'[h] = Flow("guard", tc, clock, clock, {})
        /\ \A g \in Handler \ {h} : FlowInv(g)'
    BY <2>1, <2>2, OneGoesOn
  <2>4. CoSignedChoice({}, tc)
    <3>1. Cardinality({}) = 0 /\ Threshold = 0
      BY <1>5, FS_EmptySet, WitnessAssumption DEF Enabled, Thresholds
    <3>2. {att.witness : att \in {}} = {}
      OBVIOUS
    <3> QED
      BY <3>1, <3>2 DEF CoSignedChoice, AttestedBy, FreshlyAttested
  <2>5. FlowInv(h)'
    BY <1>2, <1>3, <2>1, <2>2, <2>3, <2>4, EvidenceStays DEF FlowInv, Flow
  <2> QED
    BY <1>1, <2>1, <2>3, <2>5, QuietHandler
<1>6. CASE Head(toServer).sig = tc /\ Enabled
  <2>1. Ask(h, sub(tc)) /\ Occupy(h, Flow("witness", tc, clock, clock, {}))
    BY <1>0, <1>6, Zenon DEF HearSign
  <2>2. UNCHANGED <<clock, feed>>
    BY <2>1 DEF Ask
  <2>3. sub(tc).target \in Int /\ h \in Asker
    BY <1>2, AskersDiffer DEF IsBound, CommitType, Subject
  <2>4. PICK s : s = sub(tc)
    OBVIOUS
  <2>5. /\ CallsInv' /\ Onward
        /\ asks'[h].on /\ asks'[h].subject = {s} /\ asks'[h].got = {}
        /\ \A b \in Asker \ {h} : asks'[b] = asks[b]
        /\ \A q \in requests' : q.read => q \in requests
    BY <2>1, <2>2, <2>3, <2>4, SessionOnward, AskKeepsCalls DEF RunInv
  <2>6. /\ handlers'[h] = Flow("witness", tc, clock, clock, {})
        /\ \A g \in Handler \ {h} : FlowInv(g)'
    BY <2>1, <2>5, OneGoesOn
  <2>7. ASSUME NEW q \in requests', q.live, q.read
        PROVE  q.asker # h
    <3>1. q \in requests
      BY <2>5, <2>7
    <3> QED
      BY <1>3, <2>7, <3>1 DEF RunInv, CallsInv
  <2>8. FlowInv(h)'
    <3>1. IsBound(tc)'
      BY <1>2, <2>5, EvidenceStays
    <3> QED
      BY <2>4, <2>5, <2>6, <2>7, <3>1 DEF FlowInv, Flow, FreshlyAttested
  <2>9. TrialsInv'
    BY <1>1, <2>5, TrialsStay DEF RunInv, TrialsInv
  <2>10. \A b \in {OpenAsk, SealAsk} : asks'[b] = asks[b]
    BY <2>5, AskersDiffer
  <2>11. SealInv'
    BY <1>1, <2>5, <2>10, SealStays DEF RunInv
  <2> QED
    BY <2>5, <2>6, <2>8, <2>9, <2>11 DEF Kept
<1> QED
  BY <1>4, <1>5, <1>6

LEMMA ChoiceWitnessedKeeps ==
  ASSUME RunInv, NEW h \in Handler, ChoiceWitnessed(h)
  PROVE  Kept
<1>0. PICK c, got : c = handlers[h].commit /\ got = asks[h].got
  OBVIOUS
<1>1. /\ UNCHANGED <<up, outcome, records, trialIndex, pending, openWitness, sealed>>
      /\ handlers[h].awaits = "witness"
      /\ Returned(h) /\ QuorumReached(h)
      /\ Occupy(h, Flow("guard", c, clock, handlers[h].signedAt, got))
  BY <1>0 DEF ChoiceWitnessed, witnessing, Awaiting
<1>2. /\ CallsInv' /\ Onward
      /\ asks[h].on /\ ~asks'[h].on
      /\ \A b \in Asker \ {h} : asks'[b] = asks[b]
      /\ requests' = requests
  BY <1>1, CallReturns, AskersDiffer DEF RunInv
<1>3. /\ handlers'[h] = Flow("guard", c, clock, handlers[h].signedAt, got)
      /\ \A g \in Handler \ {h} : FlowInv(g)'
  BY <1>1, <1>2, OneGoesOn
<1>4. IsBound(c) /\ CoSignedChoice(got, c)
  <2>1. /\ asks[h].subject = {Subject("choice", c)}
        /\ FreshlyAttested(got, c) /\ IsBound(c)
    BY <1>0, <1>1 DEF RunInv, FlowInv
  <2>2. AttestedBy(got, Subject("choice", c))
    BY <1>0, <1>1, <2>1, QuorumReturned, AskersDiffer DEF RunInv
  <2> QED
    BY <2>1, <2>2 DEF CoSignedChoice
<1>5. FlowInv(h)'
  BY <1>2, <1>3, <1>4, EvidenceStays DEF FlowInv, Flow
<1>6. TrialsInv'
  BY <1>1, <1>2, TrialsStay DEF RunInv, TrialsInv
<1>7. \A b \in {OpenAsk, SealAsk} : asks'[b] = asks[b]
  BY <1>2, AskersDiffer
<1>8. SealInv'
  BY <1>1, <1>2, <1>7, SealStays DEF RunInv
<1> QED
  BY <1>2, <1>3, <1>5, <1>6, <1>8 DEF Kept

\* The record that is appended is in order, though trialIndex may have moved
\* since its choice was signed.
LEMMA RevealedRecord ==
  ASSUME RunInv, UNCHANGED <<clock, feed>>, NEW h \in Handler,
         handlers[h].awaits = "target", Published(handlers[h].commit.target),
         records' = Append(records, TrialRecord(handlers[h])), trialIndex' = trialIndex + 1
  PROVE  /\ Len(records') = trialIndex' /\ DOMAIN records' = 1..trialIndex'
         /\ \A i \in DOMAIN records' : RecordInv(i, records[i])'
<1>0. PICK rec, flow : rec = TrialRecord(flow) /\ flow = handlers[h]
  OBVIOUS
<1>1. Onward
  BY SessionOnward DEF RunInv
<1>2. /\ IsBound(flow.commit) /\ CoSignedChoice(flow.witness, flow.commit)
      /\ flow.signedAt < flow.commit.target
      /\ flow.commit.target <= clock
      /\ trialIndex \in Nat /\ Len(records) = trialIndex
  BY <1>0 DEF RunInv, FlowInv, TimingInv, Timely, TrialsInv, Published, IsBound, CommitType
<1>3. /\ rec.sig = flow.commit /\ rec.commit = [flow.commit EXCEPT !.index = trialIndex]
      /\ rec.witness = flow.witness /\ rec.signedAt = flow.signedAt
      /\ rec.beacon = flow.commit.target
      /\ rec.target = DeriveTarget(flow.commit.target, trialIndex)
      /\ rec.hit = IsHit(flow.commit.choice, rec.target)
  BY <1>0 DEF TrialRecord, RecordAs
<1>4. /\ rec.commit.index = trialIndex /\ rec.commit.target = flow.commit.target
      /\ rec.commit.choice = flow.commit.choice
      /\ trialIndex = (trialIndex + 1) - 1
  BY <1>2, <1>3 DEF IsBound, CommitType
<1>5. RecordInv(trialIndex + 1, rec)
  BY <1>2, <1>3, <1>4 DEF RecordInv
<1>6. PICK n \in Nat : n = trialIndex
  BY <1>2
<1>7. RecordInv(n + 1, rec)'
  BY <1>1, <1>5, <1>6, EvidenceStays
<1> DEFINE S == {records[i] : i \in DOMAIN records} \cup {rec}
<1>8. records \in Seq(S) /\ rec \in S /\ DOMAIN records = 1..n
  BY <1>2, <1>6 DEF RunInv, TimingInv
<1>9. /\ records' \in Seq(S) /\ Len(records') = n + 1
      /\ records'[n + 1] = rec
      /\ \A i \in 1..n : records'[i] = records[i]
  BY <1>0, <1>2, <1>6, <1>8, AppendProperties
<1>10. DOMAIN records' = 1..(n + 1)
  BY <1>9
<1>11. ASSUME NEW i \in 1..(n + 1)
       PROVE  RecordInv(i, records[i])'
  <2>1. CASE i = n + 1
    BY <1>7, <1>9, <2>1
  <2>2. CASE i # n + 1
    <3>1. i \in DOMAIN records /\ records'[i] = records[i]
      BY <1>6, <1>8, <1>9, <2>2
    <3>2. PICK r : r = records[i]
      OBVIOUS
    <3>3. RecordInv(i, r)
      BY <3>1, <3>2 DEF RunInv, TrialsInv
    <3>4. RecordInv(i, r)'
      BY <1>1, <3>3, EvidenceStays
    <3> QED
      BY <3>1, <3>2, <3>4
  <2> QED
    BY <2>1, <2>2
<1> QED
  BY <1>6, <1>9, <1>10, <1>11

LEMMA RevealKeeps ==
  ASSUME RunInv, NEW h \in Handler, Reveal(h)
  PROVE  Kept
<1>1. /\ handlers[h].awaits = "target" /\ Published(handlers[h].commit.target)
      /\ records' = Append(records, TrialRecord(handlers[h])) /\ trialIndex' = trialIndex + 1
      /\ pending' = NoPending /\ openWitness' = openWitness
      /\ Occupy(h, Free)
  BY DEF Reveal, Awaiting, NextTrial, ClearPending, Release
<1>2. ~asks[h].on /\ trialIndex \in Nat /\ up \in BOOLEAN
  BY <1>1 DEF RunInv, FlowInv, TimingInv, TrialsInv
<1>3. ASSUME UNCHANGED <<up, outcome, sealed, feedVars>>, trialIndex' < Trials \/ Closed
      PROVE  Kept
  <2>1. UNCHANGED <<clock, feed, requests, asks>>
    BY <1>3 DEF feedVars
  <2>2. Onward /\ CallsInv'
    BY <2>1, SessionOnward, CallsUntouched DEF RunInv
  <2>3. handlers'[h] = Free /\ \A g \in Handler \ {h} : FlowInv(g)'
    BY <1>1, <2>1, <2>2, OneGoesOn
  <2>4. FlowInv(h)'
    BY <1>2, <2>1, <2>3, FreeFlow
  <2>5. TrialsInv'
    <3>1. /\ Len(records') = trialIndex' /\ \A i \in DOMAIN records' : RecordInv(i, records[i])'
      BY <1>1, <2>1, RevealedRecord
    <3> QED
      BY <1>1, <1>3, <3>1 DEF RunInv, TrialsInv, Closed
  <2>6. SealInv'
    BY <1>1, <1>3, <2>1, <2>2, SealStays DEF RunInv
  <2> QED
    BY <2>2, <2>3, <2>4, <2>5, <2>6 DEF Kept
<1>4. ASSUME ~Closed, trialIndex' >= Trials, BeginSeal
      PROVE  Kept
  <2>0. /\ ~asks[SealAsk].on /\ DOMAIN sealed = {"records", "openWitness", "sealWitness"}
        /\ trialIndex' = Trials /\ trialIndex' \in Nat
    <3>1. Trials \in Nat /\ trialIndex < Trials
      BY <1>4, PrecogAssumption DEF RunInv, TrialsInv
    <3> QED
      BY <1>1, <1>2, <1>4, <3>1 DEF RunInv, ClosedInv, Closed, NotSealed
  <2>1. /\ UNCHANGED <<clock, feed>>
        /\ \/ Ask(SealAsk, Subject("seal", NoCommit))
           \/ UNCHANGED <<requests, asks>>
    BY <1>4 DEF BeginSeal, Ask, feedVars
  <2>2. /\ CallsInv' /\ Onward
        /\ \A b \in Asker \ {SealAsk} : asks'[b] = asks[b]
        /\ \A q \in requests' : q.read => q \in requests
        /\ asks'[SealAsk].on => asks'[SealAsk].subject = {Subject("seal", NoCommit)}
    <3>1. CASE UNCHANGED <<requests, asks>>
      BY <2>0, <2>1, <3>1, SessionOnward, CallsUntouched DEF RunInv
    <3>2. CASE Ask(SealAsk, Subject("seal", NoCommit))
      <4>1. Subject("seal", NoCommit).target \in Int
        BY NoCommitIsNone DEF Subject
      <4> QED
        BY <2>1, <3>2, <4>1, SessionOnward, AskKeepsCalls, AskersDiffer DEF RunInv
    <3> QED
      BY <2>1, <3>1, <3>2
  <2>3. handlers'[h] = Free /\ \A g \in Handler \ {h} : FlowInv(g)'
    <3>1. \A b \in Asker \ {h} : b # SealAsk => asks'[b] = asks[b]
      BY <2>2
    <3>2. handlers'[h] = Free /\ \A g \in Handler \ {h} : handlers'[g] = handlers[g]
      BY <1>1 DEF RunInv, TimingInv, Occupy
    <3> QED
      BY <2>2, <3>1, <3>2, FlowStays, AskersDiffer DEF RunInv
  <2>4. FlowInv(h)'
    BY <1>2, <2>2, <2>3, FreeFlow, AskersDiffer
  <2>5. /\ Len(records') = trialIndex' /\ DOMAIN records' = 1..trialIndex'
        /\ \A i \in DOMAIN records' : RecordInv(i, records[i])'
    BY <1>1, <2>1, RevealedRecord
  <2>6. outcome' \in {"sealing", "sealed"} /\ up' \in BOOLEAN
    BY <1>2, <1>4 DEF BeginSeal
  <2>7. TrialsInv'
    BY <1>1, <2>5, <2>6 DEF RunInv, TrialsInv, Closed
  <2>8. asks'[OpenAsk] = asks[OpenAsk]
    BY <2>2, AskersDiffer
  <2>9. SealInv'
    <3>1. CASE sealed' = [NotSealed EXCEPT !.records = records', !.openWitness = openWitness]
      <4>1. sealed'.records = records'
        BY <3>1 DEF NotSealed
      <4>2. Enabled => outcome' = "sealing"
        BY <1>4 DEF BeginSeal
      <4> QED
        BY <1>1, <2>0, <2>2, <2>5, <2>8, <4>1, <4>2, EvidenceStays DEF RunInv, SealInv
    <3>2. CASE outcome' = "sealing" /\ UNCHANGED <<sealed, feedVars>>
      <4>1. ~asks'[SealAsk].on
        BY <2>0, <3>2 DEF feedVars
      <4> QED
        BY <1>1, <2>2, <2>8, <3>2, <4>1, EvidenceStays DEF RunInv, SealInv
    <3> QED
      BY <1>4, <3>1, <3>2 DEF BeginSeal
  <2> QED
    BY <2>2, <2>3, <2>4, <2>7, <2>9 DEF Kept
<1>5. \/ UNCHANGED <<up, outcome, sealed, feedVars>> /\ (trialIndex' < Trials \/ Closed)
      \/ ~Closed /\ trialIndex' >= Trials /\ BeginSeal
  <2>1. trialIndex' \in Nat /\ Trials \in Nat
    BY <1>1, <1>2, PrecogAssumption
  <2>2. CASE trialIndex' >= Trials
    BY <2>2 DEF Reveal, NextTrial, BeginSeal
  <2>3. CASE ~(trialIndex' >= Trials)
    BY <2>1, <2>3 DEF Reveal, NextTrial
  <2> QED
    BY <2>2, <2>3
<1> QED
  BY <1>3, <1>4, <1>5

-----------------------------------------------------------------------------

LEMMA WitnessesKeepRun ==
  ASSUME RunInv, WitnessStep, UNCHANGED runVars
  PROVE  Kept
<1>1. /\ UNCHANGED <<records, trialIndex, pending, outcome, up, handlers, openWitness, sealed>>
      /\ CallsInv' /\ Answering
  BY WitnessesAnswer DEF RunInv, runVars, sessionVars, witnessing
<1>2. Onward
  BY ClockGrows, EntriesGrow DEF RunInv, CallsInv, Onward
<1>3. ASSUME NEW h \in Handler
      PROVE  FlowInv(h)'
  <2>0. PICK flow : flow = handlers[h]
    OBVIOUS
  <2>1. /\ handlers'[h] = flow /\ asks'[h].on = asks[h].on /\ asks'[h].subject = asks[h].subject
        /\ h \in Asker
    BY <1>1, <2>0, AskersDiffer DEF Answering
  <2>2. FlowInv(h)
    BY DEF RunInv
  <2>3. CASE flow.awaits # "witness"
    BY <1>2, <2>0, <2>1, <2>2, <2>3, EvidenceStays DEF FlowInv
  <2>4. CASE flow.awaits = "witness"
    <3>1. /\ IsBound(flow.commit) /\ IsBound(flow.commit)' /\ asks[h].on
          /\ asks[h].subject = {Subject("choice", flow.commit)}
          /\ FreshlyAttested(asks[h].got, flow.commit)
          /\ \A q \in requests : q.live /\ q.read /\ q.asker = h => flow.commit.prev <= q.since
      BY <1>2, <2>0, <2>2, <2>4, EvidenceStays DEF FlowInv
    <3>2. ASSUME NEW att \in asks'[h].got
          PROVE  Attests(att, Subject("choice", flow.commit))' /\ flow.commit.prev <= att.round
      <4>1. Attests(att, Subject("choice", flow.commit))'
        BY <1>1, <2>1, <3>1 DEF CallsInv
      <4>2. CASE att \in asks[h].got
        BY <3>1, <4>1, <4>2 DEF FreshlyAttested
      <4>3. ASSUME NEW q \in requests, q.asker = h, MayBring(q, att)
            PROVE  flow.commit.prev <= att.round
        <5>1. /\ flow.commit.prev <= q.since /\ q.since \in 0..clock /\ att.round \in q.since..clock
              /\ clock \in Nat
          BY <3>1, <4>3 DEF MayBring, PulseRounds, RunInv, CallsInv
        <5> QED
          BY <3>1, <5>1 DEF IsBound, CommitType
      <4> QED
        BY <1>1, <2>1, <4>1, <4>2, <4>3 DEF Answering
    <3>3. ASSUME NEW q \in requests', q.live, q.read, q.asker = h
          PROVE  flow.commit.prev <= q.since
      <4>1. CASE q \in requests
        BY <3>1, <3>3, <4>1
      <4>2. ASSUME NEW p \in requests, q = [p EXCEPT !.read = TRUE, !.since = clock]
            PROVE  flow.commit.prev <= q.since
        <5>1. q.since = clock
          BY <4>2 DEF RunInv, CallsInv
        <5> QED
          BY <3>1, <5>1 DEF IsBound
      <4> QED
        BY <1>1, <3>3, <4>1, <4>2 DEF Answering
    <3> QED
      BY <2>1, <2>4, <3>1, <3>2, <3>3 DEF FlowInv, FreshlyAttested
  <2> QED
    BY <2>3, <2>4
<1>4. TrialsInv'
  BY <1>1, <1>2, TrialsStay DEF RunInv, TrialsInv
<1>5. SealInv'
  BY <1>1, <1>2, SealStays, AskersDiffer DEF RunInv, Answering
<1> QED
  BY <1>1, <1>3, <1>4, <1>5 DEF Kept

LEMMA RunInvStart == Init => RunInv
<1> SUFFICES ASSUME Init
             PROVE  RunInv
  OBVIOUS
<1>1. FeedInv /\ CallsInv /\ TimingInv /\ ClosedInv
  BY FeedInvStart, CallsInvStart, TimingInvStart, ClosedInvStart DEF Init
<1>2. \A a \in Asker : ~asks[a].on
  BY DEF Init, FeedInit, Idle
<1>3. \A h \in Handler : FlowInv(h)
  BY <1>2, AskersDiffer DEF Init, FlowInv, Free, Flow
<1>4. TrialsInv
  BY PrecogAssumption DEF Init, TrialsInv, Closed
<1>5. SealInv
  BY <1>2, AskersDiffer DEF Init, SealInv
<1> QED
  BY <1>1, <1>3, <1>4, <1>5 DEF RunInv

LEMMA RunInvStep == RunInv /\ [Next]_vars => RunInv'
<1> SUFFICES ASSUME RunInv, [Next]_vars
             PROVE  RunInv'
  OBVIOUS
<1>1. FeedInv' /\ TimingInv' /\ ClosedInv'
  BY FeedInvStep, TimingInvStep, ClosedInvStep DEF RunInv
<1>2. ASSUME NEW h \in Handler, HandlerStep(h) \/ BeaconFails(h)
      PROVE  Kept
  BY <1>2, HearChoiceKeeps, BindChoiceKeeps, HearSignKeeps, ChoiceWitnessedKeeps, GuardTimingKeeps,
     RevealKeeps, BeaconFailsKeeps DEF HandlerStep
<1>3. Kept
  BY <1>2, QuietStepsKeep, StartKeeps, OpenWitnessedKeeps, QuorumShortKeeps, SealQuorumShortKeeps,
     SealWitnessedKeeps, WitnessesKeepRun DEF Next, ServerStep
<1> QED
  BY <1>1, <1>3 DEF RunInv, Kept

\* Every reachable state is well formed, for every client and whatever fails:
\* in particular as many trials are recorded as trialIndex says, each with a
\* choice of the vocabulary and a target that has been published, an invocation
\* awaits its witnesses just when its call is on, and no answer is awaited from
\* a url that has given one.
THEOREM PrecogTypes == Spec => []TypeOK
<1>1. RunInv => TypeOK
  <2> SUFFICES ASSUME RunInv
               PROVE  TypeOK
    OBVIOUS
  <2>1. ASSUME NEW i \in DOMAIN records
        PROVE  IsTrialRecord(records[i])
    <3>0. PICK r : r = records[i]
      OBVIOUS
    <3>1. RecordInv(i, r) /\ i \in Nat \ {0}
      BY <3>0 DEF RunInv, TrialsInv, TimingInv
    <3>2. /\ r.commit.index = i - 1 /\ r.commit.choice = r.sig.choice /\ r.commit.prev = r.sig.prev
          /\ r.commit.target = r.sig.target
      BY <3>1 DEF RecordInv, IsBound, CommitType
    <3>3. \A att \in r.witness : IsAttestation(att)
      BY <3>1 DEF RecordInv, CoSignedChoice, AttestedBy, Attests, IsAttestation, Subject,
                  WitnessSubjectKind
    <3>4. r.sig.choice \in Choice /\ r.sig.prev \in 0..clock /\ r.sig.target \in 0..clock
      BY <3>1 DEF RecordInv, IsBound, CommitType, RunInv, CallsInv
    <3>5. r.hit \in BOOLEAN
      BY <3>1 DEF RecordInv, IsHit
    <3> QED
      BY <3>0, <3>1, <3>2, <3>3, <3>4, <3>5 DEF IsTrialRecord
  <2>2. \A h \in Handler : handlers[h].since \in 0..clock
    BY DEF RunInv, TimingInv, Timely
  <2>3. pending # NoPending => pending.choice \in Choice /\ pending.prev \in 0..clock
    BY DEF RunInv, TrialsInv, IsBound
  <2> QED
    BY <2>1, <2>2, <2>3 DEF TypeOK, RunInv, TrialsInv, TimingInv, FlowInv, CallsInv
<1> QED
  BY RunInvStart, RunInvStep, <1>1, PTL DEF Spec

-----------------------------------------------------------------------------
(* The verifiers.                                                            *)

\* What is sealed is in order, but for the index that each choice was signed
\* for, which the verifiers check.
LEMMA SealedRun ==
  ASSUME RunInv, outcome = "sealed"
  PROVE  /\ TrialIndices = 1..Trials /\ Len(sealed.records) = Trials /\ Trials \in Nat \ {0}
         /\ \A i \in 1..Trials : RecordInv(i, sealed.records[i])
         /\ Enabled => /\ \A att \in sealed.openWitness : Attests(att, Subject("open", NoCommit))
                       /\ AttestedBy(sealed.sealWitness, Subject("seal", NoCommit))
BY PrecogAssumption DEF RunInv, SealInv, TrialIndices

\* A quorum is not empty.
LEMMA QuorumHasMembers ==
  ASSUME Enabled, NEW atts, NEW s, AttestedBy(atts, s)
  PROVE  atts # {}
<1> SUFFICES ASSUME atts = {}
             PROVE  FALSE
  OBVIOUS
<1>1. {att.witness : att \in atts} = {}
  OBVIOUS
<1>2. Cardinality({att.witness : att \in atts}) = 0
  BY <1>1, FS_EmptySet
<1>3. Threshold \in Int
  BY WitnessAssumption, FS_CardinalityType DEF Thresholds
<1> QED
  BY <1>2, <1>3 DEF AttestedBy, Enabled

\* Whatever a client sends, and however many invocations are in flight: the
\* browser and the analyzer agree on a sealed session, and one they accept has
\* every trial once, signed in time, and the hits it claims.
THEOREM AcceptedAlwaysGenuine == Spec => []AcceptedIsGenuine
<1>1. RunInv => AcceptedIsGenuine
  <2> SUFFICES ASSUME RunInv, outcome = "sealed"
               PROVE  /\ BrowserAccepts <=> AnalyzerAccepts
                      /\ BrowserAccepts =>
                           /\ Len(sealed.records) = Trials
                           /\ \A i \in TrialIndices :
                                LET r == sealed.records[i]
                                IN r.sig.index = i - 1 /\ r.signedAt < r.sig.target
                           /\ Hits = Cardinality({i \in 1..Trials :
                                       LET sig == sealed.records[i].sig
                                       IN sig.choice = Vocabulary[Digest(sig.target, i - 1) % 2]})
    BY DEF AcceptedIsGenuine
  <2>1. /\ TrialIndices = 1..Trials /\ Len(sealed.records) = Trials /\ Trials \in Nat \ {0}
        /\ \A i \in 1..Trials : RecordInv(i, sealed.records[i])
        /\ Enabled => /\ \A att \in sealed.openWitness : Attests(att, Subject("open", NoCommit))
                      /\ AttestedBy(sealed.sealWitness, Subject("seal", NoCommit))
    BY SealedRun
  <2>2. Enabled => OpenCheck.sigsOk /\ SealCheck.sigsOk
    BY <2>1 DEF OpenCheck, SealCheck, VerifyAttestations, Signed, Attests, AttestedBy
  <2>3. Enabled => sealed.records # <<>>
    BY <2>1
  <2>4. ASSUME Enabled, NEW i \in TrialIndices
        PROVE  sealed.records[i].witness # {}
    <3>1. AttestedBy(sealed.records[i].witness, Subject("choice", sealed.records[i].sig))
      BY <2>1 DEF RecordInv, CoSignedChoice
    <3> QED
      BY <2>4, <3>1, QuorumHasMembers
  <2>5. BrowserAccepts <=> AnalyzerAccepts
    BY <2>2, <2>3, <2>4 DEF BrowserAccepts, AnalyzerAccepts
  <2>6. ASSUME BrowserAccepts, NEW i \in 1..Trials
        PROVE  /\ sealed.records[i].sig.index = i - 1
               /\ sealed.records[i].signedAt < sealed.records[i].sig.target
               /\ sealed.records[i].hit <=>
                    LET sig == sealed.records[i].sig
                    IN sig.choice = Vocabulary[Digest(sig.target, i - 1) % 2]
    <3>0. PICK r : r = sealed.records[i]
      OBVIOUS
    <3>1. RecordInv(i, r) /\ r.sig = r.commit
      BY <2>1, <2>6, <3>0 DEF BrowserAccepts, TrialsHold, ChoiceSigned
    <3>2. r.commit.index = i - 1
      BY <3>1 DEF RecordInv, IsBound, CommitType
    <3>3. r.hit = IsHit(r.sig.choice, DeriveTarget(r.sig.target, i - 1))
      BY <3>1, <3>2 DEF RecordInv
    <3>4. DeriveTarget(r.sig.target, i - 1).valence = Digest(r.sig.target, i - 1) % 2
      BY DEF DeriveTarget
    <3> QED
      BY <3>0, <3>1, <3>2, <3>3, <3>4 DEF RecordInv, IsHit
  <2>7. ASSUME BrowserAccepts
        PROVE  {i \in TrialIndices : sealed.records[i].hit} =
               {i \in 1..Trials : LET sig == sealed.records[i].sig
                                  IN sig.choice = Vocabulary[Digest(sig.target, i - 1) % 2]}
    BY <2>1, <2>6, <2>7
  <2> QED
    BY <2>1, <2>5, <2>6, <2>7 DEF Hits
<1> QED
  BY RunInvStart, RunInvStep, <1>1, PTL DEF Spec

-----------------------------------------------------------------------------
(* A session that its page drives.                                           *)

LEMMA OneMessage ==
  ASSUME NEW m
  PROVE  Head(<<m>>) = m /\ Tail(<<m>>) = <<>> /\ <<m>> # <<>> /\ Append(<<>>, m) = <<m>>
OBVIOUS

\* Which step of a trial is under way.
LEMMA WhereTheTrialIs ==
  ASSUME PageInv
  PROVE  /\ toServer # <<>> =>
              outcome = "running" /\ ~asks[OpenAsk].on /\ (ChoiceSent \/ SignSent)
         /\ toClient # <<>> =>
              outcome = "running" /\ ~asks[OpenAsk].on /\ (TrialSent \/ PendingSent)
         /\ Choosing => outcome = "running" /\ ~asks[OpenAsk].on /\ TrialShown
         /\ \A h \in Handler : handlers[h].awaits # "nothing" =>
              outcome = "running" /\ ~asks[OpenAsk].on /\ (ChoiceHeard(h) \/ SignHeard(h))
         /\ outcome = "created" =>
              NothingSent /\ pending = NoPending /\ trialIndex = 0 /\ ~asks[OpenAsk].on
         /\ asks[OpenAsk].on =>
              NothingSent /\ pending = NoPending /\ trialIndex = 0 /\ outcome = "running"
<1>1. page.choice \in Choice => ~Choosing
  BY PrecogAssumption DEF Choosing
<1> QED
  BY <1>1 DEF PageInv, OneTrialInv, NothingSent, Closed, NoMessage, NoneBut, TrialSent, TrialShown,
              ChoiceSent, PendingSent, SignSent, ChoiceHeard, SignHeard, PendingHere

\* What a step of the trial need not touch.
LEMMA TheRestStays ==
  ASSUME RunInv, PageInv, Onward, OneTrialInv', extra' = extra,
         DOMAIN page' = {"trial", "choice", "sig"},
         UNCHANGED <<records, sealed, openWitness>>,
         outcome' = outcome \/ outcome' = "failed",
         asks'[OpenAsk].on = asks[OpenAsk].on,
         asks'[SealAsk].on => asks[SealAsk].on
  PROVE  PageInv'
BY EvidenceStays DEF PageInv, SignedInPlace

LEMMA ChoosePages ==
  ASSUME RunInv, PageInv, Choose
  PROVE  PageInv'
<1>1. /\ UNCHANGED <<clock, feed, asks, handlers, trialIndex, pending, outcome, toClient>>
      /\ UNCHANGED <<records, sealed, openWitness, extra>>
      /\ Choosing
  BY DEF Choose, Choosing, feedVars, sessionVars, witnessing
<1>2. PICK c \in Choice : /\ page' = [page EXCEPT !.choice = c]
                          /\ toServer' = Append(toServer, ChoiceMessage(page.trial, c))
  BY DEF Choose
<1>3. outcome = "running" /\ ~asks[OpenAsk].on /\ TrialShown
  BY <1>1, WhereTheTrialIs
<1>4. page'.choice = c /\ DOMAIN page' = {"trial", "choice", "sig"}
  BY <1>2 DEF PageInv
<1>5. ChoiceSent'
  BY <1>1, <1>2, <1>3, <1>4, OneMessage DEF TrialShown, ChoiceSent, NoneBut, NoMessage, NoPending
<1>6. OneTrialInv'
  BY <1>1, <1>3, <1>5 DEF OneTrialInv
<1> QED
  BY <1>1, <1>4, <1>6, SessionOnward, TheRestStays DEF RunInv

LEMMA ReceivePages ==
  ASSUME RunInv, PageInv, PageStep
  PROVE  PageInv'
<1>1. /\ UNCHANGED <<clock, feed, asks, handlers, trialIndex, pending, outcome>>
      /\ UNCHANGED <<records, sealed, openWitness, extra>>
      /\ toClient # <<>>
      /\ toClient' = Tail(toClient)
  BY DEF PageStep, ReceiveTrial, ReceivePending, feedVars, sessionVars, witnessing
<1>2. outcome = "running" /\ ~asks[OpenAsk].on /\ (TrialSent \/ PendingSent)
  BY <1>1, WhereTheTrialIs
<1>3. ASSUME TrialSent
      PROVE  OneTrialInv' /\ DOMAIN page' = {"trial", "choice", "sig"}
  <2>1. Head(toClient) = TrialMessage(trialIndex) /\ toClient' = <<>>
    BY <1>1, <1>3, OneMessage DEF TrialSent
  <2>2. Head(toClient).type = "trial" /\ Head(toClient).commit.index = trialIndex
    BY <2>1 DEF TrialMessage, Commit
  <2>3. page' = [page EXCEPT !.trial = trialIndex, !.choice = NoChoice] /\ toServer' = toServer
    BY <2>2 DEF PageStep, ReceiveTrial, ReceivePending
  <2>4. /\ page'.trial = trialIndex /\ page'.choice = NoChoice
        /\ DOMAIN page' = {"trial", "choice", "sig"}
        /\ trialIndex \in Nat
    BY <2>3 DEF PageInv, RunInv, TimingInv
  <2>5. TrialShown'
    BY <1>1, <1>3, <2>1, <2>3, <2>4
       DEF TrialSent, TrialShown, NoneBut, NoMessage, NoPending, Choosing
  <2> QED
    BY <1>1, <1>2, <2>4, <2>5 DEF OneTrialInv
<1>4. ASSUME PendingSent
      PROVE  OneTrialInv' /\ DOMAIN page' = {"trial", "choice", "sig"}
  <2>1. Head(toClient) = PendingMessage(pending) /\ toClient' = <<>> /\ toServer = <<>>
    BY <1>1, <1>4, OneMessage DEF PendingSent
  <2>2. /\ Head(toClient).type = "pending"
        /\ Head(toClient).commit = [pending EXCEPT !.choice = NoChoice]
        /\ page.choice # NoChoice /\ pending.choice = page.choice
    BY <1>4, <2>1, PrecogAssumption DEF PendingMessage, PendingSent, PendingHere
  <2>3. [[pending EXCEPT !.choice = NoChoice] EXCEPT !.choice = page.choice] = pending
    BY <2>2 DEF RunInv, TimingInv, CommitType
  <2>4. page' = [page EXCEPT !.sig = pending] /\ toServer' = Append(toServer, SignMessage(pending))
    BY <2>2, <2>3 DEF PageStep, ReceiveTrial, ReceivePending
  <2>5. page'.choice = page.choice /\ DOMAIN page' = {"trial", "choice", "sig"}
    BY <2>4 DEF PageInv
  <2>6. SignSent'
    BY <1>1, <1>4, <2>1, <2>4, <2>5, OneMessage DEF PendingSent, SignSent, NoneBut, PendingHere
  <2> QED
    BY <1>1, <1>2, <2>5, <2>6 DEF OneTrialInv
<1> QED
  BY <1>1, <1>2, <1>3, <1>4, SessionOnward, TheRestStays DEF RunInv

LEMMA Occupies ==
  ASSUME RunInv, NEW h \in Handler, NEW flow, Occupy(h, flow)
  PROVE  /\ handlers'[h] = flow
         /\ \A g \in Handler \ {h} : handlers'[g] = handlers[g]
         /\ NoneBut({h}) => NoneBut({h})'
         /\ NoneBut({h}) /\ flow = Free => NoneBut({})'
<1>1. handlers'[h] = flow /\ \A g \in Handler \ {h} : handlers'[g] = handlers[g]
  BY DEF RunInv, TimingInv, Occupy
<1> QED
  BY <1>1 DEF NoneBut, Free, Flow

LEMMA StartPages ==
  ASSUME RunInv, PageInv, Start
  PROVE  PageInv'
<1>1. /\ UNCHANGED <<trialIndex, pending, handlers, records, openWitness, sealed>>
      /\ UNCHANGED <<toServer, page, extra>>
      /\ outcome = "created" /\ outcome' = "running"
  BY DEF Start, witnessing, clientVars
<1>2. NothingSent /\ pending = NoPending /\ trialIndex = 0 /\ ~asks[OpenAsk].on
  BY <1>1, WhereTheTrialIs
<1>3. ~asks[SealAsk].on
  BY <1>1 DEF RunInv, ClosedInv
<1>4. CASE Enabled
  <2>1. Ask(OpenAsk, Subject("open", NoCommit)) /\ toClient' = toClient /\ UNCHANGED <<clock, feed>>
    BY <1>4 DEF Start, Ask
  <2>2. Subject("open", NoCommit).target \in Int
    BY NoCommitIsNone DEF Subject
  <2>3. asks'[OpenAsk].on /\ asks'[SealAsk] = asks[SealAsk]
    BY <2>1, <2>2, AskKeepsCalls, AskersDiffer DEF RunInv
  <2>4. OneTrialInv'
    BY <1>1, <1>2, <2>1, <2>3 DEF OneTrialInv, NothingSent, NoneBut, NoMessage, Choosing, NoPending
  <2> QED
    BY <1>1, <1>3, <2>3, <2>4 DEF PageInv, SignedInPlace
<1>5. CASE ~Enabled
  <2>1. UNCHANGED <<asks, clock, feed>> /\ Send(TrialMessage(trialIndex))
    BY <1>5 DEF Start, feedVars
  <2>2. toClient' = <<TrialMessage(trialIndex)>>
    BY <1>1, <1>2, <2>1, OneMessage DEF Send, NothingSent, NoMessage
  <2>3. TrialSent'
    BY <1>1, <1>2, <2>2 DEF TrialSent, NothingSent, NoneBut, NoMessage, Choosing, NoPending
  <2>4. OneTrialInv'
    BY <1>1, <1>2, <2>1, <2>3 DEF OneTrialInv
  <2> QED
    BY <1>1, <1>3, <1>5, <2>1, <2>4 DEF PageInv, SignedInPlace, Enabled
<1> QED
  BY <1>4, <1>5

LEMMA OpenPages ==
  ASSUME RunInv, PageInv, OpenWitnessed
  PROVE  PageInv'
<1>1. /\ UNCHANGED <<outcome, trialIndex, handlers, records, sealed, toServer, page, extra>>
      /\ Returned(OpenAsk) /\ QuorumReached(OpenAsk)
      /\ openWitness' = asks[OpenAsk].got /\ pending' = NoPending
  BY DEF OpenWitnessed, ClearPending, clientVars
<1>2. /\ Onward /\ asks[OpenAsk].on /\ ~asks'[OpenAsk].on
      /\ asks'[SealAsk] = asks[SealAsk]
  BY <1>1, CallReturns, AskersDiffer DEF RunInv
<1>3. NothingSent /\ trialIndex = 0 /\ outcome = "running"
  BY <1>2, WhereTheTrialIs
<1>4. toClient' = <<TrialMessage(trialIndex)>>
  <2>1. ~(trialIndex >= Trials)
    BY <1>3, PrecogAssumption
  <2>2. Send(TrialMessage(trialIndex))
    BY <2>1 DEF OpenWitnessed
  <2> QED
    BY <1>3, <2>2, OneMessage DEF Send, NothingSent, NoMessage
<1>5. TrialSent'
  BY <1>1, <1>3, <1>4 DEF TrialSent, NothingSent, NoneBut, NoMessage, Choosing, NoPending
<1>6. OneTrialInv'
  BY <1>1, <1>2, <1>3, <1>5 DEF OneTrialInv
<1>a. PICK got : got = asks[OpenAsk].got
  OBVIOUS
<1>7. AttestedBy(got, Subject("open", NoCommit))'
  <2>1. AttestedBy(got, Subject("open", NoCommit))
    BY <1>1, <1>2, <1>a, QuorumReturned, AskersDiffer DEF RunInv, SealInv
  <2> QED
    BY <1>2, <2>1, EvidenceStays
<1> QED
  BY <1>1, <1>2, <1>3, <1>6, <1>7, <1>a DEF PageInv, SignedInPlace

LEMMA QuorumShortPages ==
  ASSUME RunInv, PageInv, NEW a \in Asker, QuorumShort(a)
  PROVE  PageInv'
<1>1. /\ UNCHANGED <<trialIndex, pending, records, openWitness, sealed, toServer, toClient, page, extra>>
      /\ Returned(a) /\ a # SealAsk /\ Fail
      /\ handlers' = [h \in Handler |-> IF h = a THEN Free ELSE handlers[h]]
  BY DEF QuorumShort, witnessing, clientVars
<1>2. /\ Onward /\ asks[a].on /\ ~asks'[a].on
      /\ \A b \in Asker \ {a} : asks'[b] = asks[b]
  BY <1>1, CallReturns DEF RunInv
<1>3. CASE a = OpenAsk
  <2>1. NothingSent /\ pending = NoPending /\ trialIndex = 0 /\ outcome = "running"
    BY <1>2, <1>3, WhereTheTrialIs
  <2>2. outcome' = "failed" /\ handlers' = handlers
    BY <1>1, <1>3, <2>1, AskersDiffer DEF Fail, Closed, RunInv, TimingInv
  <2>3. OneTrialInv'
    BY <1>1, <1>2, <1>3, <2>1, <2>2 DEF OneTrialInv, NothingSent, NoneBut, NoMessage, Choosing, Closed
  <2> QED
    BY <1>1, <1>2, <1>3, <2>2, <2>3, EvidenceStays, AskersDiffer DEF PageInv, SignedInPlace
<1>4. CASE a \in Handler
  <2>1. handlers[a].awaits = "witness"
    BY <1>2, <1>4 DEF RunInv, FlowInv
  <2>2. outcome = "running" /\ ~asks[OpenAsk].on /\ SignHeard(a)
    BY <1>4, <2>1, WhereTheTrialIs DEF ChoiceHeard
  <2>3. outcome' = "failed" /\ asks'[OpenAsk] = asks[OpenAsk] /\ asks'[SealAsk] = asks[SealAsk]
    BY <1>1, <1>2, <1>4, <2>2, AskersDiffer DEF Fail, Closed
  <2>4. page.choice # NoChoice
    BY <2>2, PrecogAssumption DEF SignHeard, PendingHere
  <2>5. OneTrialInv'
    BY <1>1, <2>2, <2>3, <2>4
       DEF OneTrialInv, NothingSent, NoneBut, NoMessage, Choosing, Closed, SignHeard, Free, Flow
  <2> QED
    BY <1>1, <1>2, <2>3, <2>5, TheRestStays DEF PageInv
<1> QED
  BY <1>1, <1>3, <1>4, AskersDiffer

LEMMA SealPages ==
  ASSUME RunInv, PageInv, SealWitnessed \/ SealQuorumShort
  PROVE  PageInv'
<1>1. /\ UNCHANGED <<trialIndex, pending, handlers, records, openWitness, toServer, toClient, page, extra>>
      /\ Returned(SealAsk)
      /\ \/ UNCHANGED <<outcome, sealed>>
         \/ /\ outcome' = "sealed"
            /\ sealed' = [sealed EXCEPT !.openWitness = openWitness, !.sealWitness = asks[SealAsk].got]
  BY DEF SealWitnessed, SealQuorumShort, sessionVars, witnessing, clientVars
<1>2. /\ Onward /\ asks[SealAsk].on /\ ~asks'[SealAsk].on
      /\ asks'[OpenAsk] = asks[OpenAsk]
  BY <1>1, CallReturns, AskersDiffer DEF RunInv
<1>3. outcome = "sealing" /\ DOMAIN sealed = {"records", "openWitness", "sealWitness"}
  BY <1>2 DEF RunInv, ClosedInv, NotSealed
<1>4. NothingSent /\ ~asks[OpenAsk].on
  BY <1>3 DEF PageInv, OneTrialInv
<1>5. OneTrialInv'
  BY <1>1, <1>2, <1>3, <1>4 DEF OneTrialInv, NothingSent, NoneBut, NoMessage, Choosing, Closed
<1>6. CASE UNCHANGED <<outcome, sealed>>
  BY <1>1, <1>2, <1>5, <1>6, TheRestStays DEF PageInv
<1>7. CASE outcome' = "sealed" /\ sealed'.records = sealed.records /\ sealed'.openWitness = openWitness
  <2>1. Enabled => AttestedBy(openWitness, Subject("open", NoCommit))
    BY <1>3, <1>4 DEF PageInv
  <2>2. PICK atts : atts = openWitness
    OBVIOUS
  <2>3. Enabled => AttestedBy(atts, Subject("open", NoCommit))'
    BY <1>2, <2>1, <2>2, EvidenceStays
  <2> QED
    BY <1>1, <1>2, <1>5, <1>7, <2>2, <2>3 DEF PageInv, SignedInPlace
<1> QED
  BY <1>1, <1>3, <1>6, <1>7

LEMMA HearPages ==
  ASSUME RunInv, PageInv, NEW h \in Handler, HearChoice(h) \/ HearSign(h)
  PROVE  PageInv'
<1>1. /\ UNCHANGED <<trialIndex, pending, records, openWitness, sealed, toClient, page, extra>>
      /\ toServer # <<>> /\ toServer' = Tail(toServer)
      /\ Head(toServer).index = trialIndex
  BY DEF HearChoice, HearSign, Hear, witnessing, clientVars
<1>2. outcome = "running" /\ ~asks[OpenAsk].on /\ (ChoiceSent \/ SignSent)
  BY <1>1, WhereTheTrialIs
<1>3. ASSUME ChoiceSent
      PROVE  PageInv'
  <2>1. /\ Head(toServer) = ChoiceMessage(trialIndex, page.choice) /\ toServer' = <<>>
        /\ toClient = <<>> /\ page.choice \in Choice /\ NoneBut({}) /\ pending = NoPending
    BY <1>1, <1>3, OneMessage DEF ChoiceSent
  <2>2. Head(toServer).type = "choice" /\ Head(toServer).choice = page.choice
    BY <2>1 DEF ChoiceMessage
  <2>3. HearChoice(h)
    BY <2>2 DEF HearSign, Hear
  <2> DEFINE chosen == [NoCommit EXCEPT !.choice = Head(toServer).choice]
             flow == Flow("bind", chosen, clock, 0, {})
  <2>4. UNCHANGED <<outcome, asks, clock, feed>> /\ Occupy(h, flow)
    BY <2>1, <2>2, <2>3, Zenon DEF HearChoice, feedVars
  <2>5. flow.awaits = "bind" /\ flow.commit.choice = page.choice
    BY <2>2, NoCommitIsNone DEF Flow, CommitType
  <2>6. ChoiceHeard(h)'
    <3>1. NoneBut({h})
      BY <2>1 DEF NoneBut
    <3>2. handlers'[h].awaits = "bind" /\ handlers'[h].commit.choice = page.choice /\ NoneBut({h})'
      <4> HIDE DEF flow
      <4> QED
        BY <2>4, <2>5, <3>1, Occupies
    <3> QED
      BY <1>1, <2>1, <3>2 DEF ChoiceHeard, NoMessage, NoPending
  <2>7. OneTrialInv'
    BY <1>2, <2>4, <2>6 DEF OneTrialInv
  <2>8. /\ Onward /\ DOMAIN page' = {"trial", "choice", "sig"} /\ outcome' = outcome /\ asks' = asks
    BY <1>1, <2>4, SessionOnward DEF RunInv, PageInv
  <2> QED
    BY <1>1, <2>7, <2>8, TheRestStays
<1>4. ASSUME SignSent
      PROVE  PageInv'
  <2>1. /\ Head(toServer) = SignMessage(pending) /\ toServer' = <<>>
        /\ toClient = <<>> /\ PendingHere /\ NoneBut({})
    BY <1>1, <1>4, OneMessage DEF SignSent
  <2>2. Head(toServer).type = "sign" /\ Head(toServer).sig = pending
    BY <2>1 DEF SignMessage
  <2>3. HearSign(h)
    BY <2>2 DEF HearChoice, Hear
  <2>4. [pending EXCEPT !.index = trialIndex] = pending
    BY <2>1 DEF PendingHere, RunInv, TimingInv, CommitType
  <2>5. PICK flow : /\ outcome' = outcome /\ Occupy(h, flow)
                    /\ flow.awaits \in {"witness", "guard"} /\ flow.commit = pending
                    /\ Ask(h, Subject("choice", pending)) \/ UNCHANGED <<asks, clock, feed>>
    <3>1. CASE Enabled
      <4>1. /\ outcome' = outcome /\ Ask(h, Subject("choice", pending))
            /\ Occupy(h, Flow("witness", pending, clock, clock, {}))
        BY <2>2, <2>3, <2>4, <3>1, Zenon DEF HearSign
      <4> QED
        BY <4>1 DEF Flow
    <3>2. CASE ~Enabled
      <4>1. /\ outcome' = outcome /\ UNCHANGED <<asks, clock, feed>>
            /\ Occupy(h, Flow("guard", pending, clock, clock, {}))
        BY <2>2, <2>3, <2>4, <3>2, Zenon DEF HearSign, feedVars
      <4> QED
        BY <4>1 DEF Flow
    <3> QED
      BY <3>1, <3>2
  <2>6. /\ UNCHANGED <<clock, feed>>
        /\ asks'[OpenAsk] = asks[OpenAsk] /\ asks'[SealAsk] = asks[SealAsk]
    <3>1. CASE UNCHANGED <<asks, clock, feed>>
      BY <3>1
    <3>2. CASE Ask(h, Subject("choice", pending))
      <4>1. Subject("choice", pending).target \in Int
        BY DEF Subject, RunInv, TimingInv, CommitType
      <4>2. UNCHANGED <<clock, feed>>
        BY <3>2 DEF Ask
      <4> QED
        BY <3>2, <4>1, <4>2, AskKeepsCalls, AskersDiffer DEF RunInv
    <3> QED
      BY <2>5, <3>1, <3>2
  <2>7. SignHeard(h)'
    <3>1. NoneBut({h})
      BY <2>1 DEF NoneBut
    <3>2. /\ handlers'[h].awaits \in {"witness", "guard"} /\ handlers'[h].commit = pending
          /\ NoneBut({h})'
      BY <2>5, <3>1, Occupies
    <3> QED
      BY <1>1, <2>1, <3>2 DEF SignHeard, NoMessage, PendingHere
  <2>8. OneTrialInv'
    BY <1>2, <2>5, <2>6, <2>7 DEF OneTrialInv
  <2>9. Onward /\ DOMAIN page' = {"trial", "choice", "sig"}
    BY <1>1, <2>6, SessionOnward DEF RunInv, PageInv
  <2> QED
    BY <1>1, <2>5, <2>6, <2>8, <2>9, TheRestStays
<1> QED
  BY <1>2, <1>3, <1>4

LEMMA BindPages ==
  ASSUME RunInv, PageInv, NEW h \in Handler, BindChoice(h)
  PROVE  PageInv'
<1>1. /\ UNCHANGED <<clock, feed, asks, outcome, trialIndex, records, openWitness, sealed>>
      /\ UNCHANGED <<toServer, page, extra>>
      /\ handlers[h].awaits = "bind" /\ Occupy(h, Free)
      /\ Send(PendingMessage(pending'))
  BY DEF BindChoice, feedVars, witnessing, clientVars, Awaiting, Release
<1>2. /\ pending'.index = trialIndex /\ pending'.choice = handlers[h].commit.choice
  BY DEF BindChoice, Commit
<1>3. outcome = "running" /\ ~asks[OpenAsk].on /\ ChoiceHeard(h)
  BY <1>1, WhereTheTrialIs DEF SignHeard
<1>4. toClient' = <<PendingMessage(pending')>> /\ toServer' = <<>>
  BY <1>1, <1>3, OneMessage DEF Send, ChoiceHeard, NoMessage
<1>5. NoneBut({})'
  BY <1>1, <1>3, Occupies DEF ChoiceHeard
<1>6. PendingSent'
  BY <1>1, <1>2, <1>3, <1>4, <1>5 DEF PendingSent, PendingHere, ChoiceHeard
<1>7. OneTrialInv'
  BY <1>1, <1>3, <1>6 DEF OneTrialInv
<1> QED
  BY <1>1, <1>7, SessionOnward, TheRestStays DEF RunInv, PageInv

\* The witnesses and the guard of the signed choice.
LEMMA DecidePages ==
  ASSUME RunInv, PageInv, NEW h \in Handler, ChoiceWitnessed(h) \/ GuardTiming(h) \/ BeaconFails(h)
  PROVE  PageInv'
<1>1. /\ UNCHANGED <<trialIndex, pending, records, openWitness, sealed>>
      /\ UNCHANGED <<toServer, toClient, page, extra>>
      /\ handlers[h].awaits # "nothing"
  BY DEF ChoiceWitnessed, GuardTiming, BeaconFails, witnessing, clientVars, Awaiting
<1>2. /\ outcome = "running" /\ ~asks[OpenAsk].on
      /\ ChoiceHeard(h) \/ SignHeard(h)
      /\ page.choice # NoChoice /\ NoneBut({h}) /\ NoMessage
  <2>1. outcome = "running" /\ ~asks[OpenAsk].on /\ (ChoiceHeard(h) \/ SignHeard(h))
    BY <1>1, WhereTheTrialIs
  <2> QED
    BY <2>1, PrecogAssumption DEF ChoiceHeard, SignHeard, PendingHere
<1>3. /\ Onward /\ asks'[OpenAsk].on = asks[OpenAsk].on /\ (asks'[SealAsk].on => asks[SealAsk].on)
      /\ DOMAIN page' = {"trial", "choice", "sig"}
  <2>1. CASE ChoiceWitnessed(h)
    <3>1. Returned(h)
      BY <2>1 DEF ChoiceWitnessed
    <3> QED
      BY <1>1, <3>1, CallReturns, AskersDiffer DEF RunInv, PageInv
  <2>2. CASE GuardTiming(h) \/ BeaconFails(h)
    <3>1. UNCHANGED <<clock, feed, asks>>
      BY <2>2 DEF GuardTiming, BeaconFails, feedVars
    <3> QED
      BY <1>1, <3>1, SessionOnward DEF RunInv, PageInv
  <2> QED
    BY <2>1, <2>2
<1>4. CASE Occupy(h, Free) /\ Fail
  <2>1. outcome' = "failed"
    BY <1>2, <1>4 DEF Fail, Closed
  <2>2. NothingSent'
    BY <1>1, <1>2, <1>4, Occupies DEF NothingSent, NoMessage, Choosing
  <2>3. OneTrialInv'
    BY <1>2, <1>3, <2>1, <2>2 DEF OneTrialInv, Closed
  <2> QED
    BY <1>1, <1>3, <2>1, <2>3, TheRestStays
<1>5. ASSUME NEW flow, Occupy(h, flow), outcome' = outcome, SignHeard(h),
             flow.awaits \in {"guard", "target"}, flow.commit = handlers[h].commit
      PROVE  PageInv'
  <2>1. SignHeard(h)'
    <3>1. handlers'[h] = flow /\ NoneBut({h})'
      BY <1>2, <1>5, Occupies
    <3> QED
      BY <1>1, <1>5, <3>1 DEF SignHeard, NoMessage, PendingHere
  <2>2. OneTrialInv'
    BY <1>2, <1>3, <1>5, <2>1 DEF OneTrialInv
  <2> QED
    BY <1>1, <1>3, <1>5, <2>2, TheRestStays
<1>6. CASE ChoiceWitnessed(h)
  <2> DEFINE flow == Flow("guard", handlers[h].commit, clock, handlers[h].signedAt, asks[h].got)
  <2>1. Occupy(h, flow) /\ outcome' = outcome /\ handlers[h].awaits = "witness"
    BY <1>6 DEF ChoiceWitnessed, Awaiting
  <2>2. SignHeard(h) /\ flow.awaits = "guard" /\ flow.commit = handlers[h].commit
    BY <1>2, <2>1 DEF ChoiceHeard, Flow
  <2> HIDE DEF flow
  <2> QED
    BY <1>5, <2>1, <2>2
<1>7. CASE GuardTiming(h)
  <2> DEFINE flow == [handlers[h] EXCEPT !.awaits = "target"]
  <2>1. /\ handlers[h].awaits = "guard"
        /\ (Occupy(h, Free) /\ Fail) \/ (Occupy(h, flow) /\ outcome' = outcome)
    BY <1>7 DEF GuardTiming, Awaiting, Release
  <2>2. SignHeard(h) /\ flow.awaits = "target" /\ flow.commit = handlers[h].commit
    BY <1>2, <2>1 DEF ChoiceHeard, RunInv, TimingInv, Timely
  <2> HIDE DEF flow
  <2> QED
    BY <1>4, <1>5, <2>1, <2>2
<1>8. CASE BeaconFails(h)
  BY <1>4, <1>8 DEF BeaconFails, Release
<1> QED
  BY <1>6, <1>7, <1>8

\* The record that is appended was signed for the trial it is.
LEMMA RevealPages ==
  ASSUME RunInv, PageInv, NEW h \in Handler, Reveal(h)
  PROVE  PageInv'
<1>1. /\ handlers[h].awaits = "target" /\ Published(handlers[h].commit.target)
      /\ records' = Append(records, TrialRecord(handlers[h])) /\ trialIndex' = trialIndex + 1
      /\ pending' = NoPending
      /\ UNCHANGED <<openWitness, toServer, page, extra>>
      /\ Occupy(h, Free) /\ NextTrial
  BY DEF Reveal, Awaiting, NextTrial, ClearPending, Release, clientVars
<1>2. outcome = "running" /\ ~asks[OpenAsk].on /\ SignHeard(h)
  BY <1>1, WhereTheTrialIs DEF ChoiceHeard
<1>3. /\ page.choice # NoChoice /\ NoMessage /\ NoneBut({})' /\ ~Choosing'
      /\ ~asks[SealAsk].on /\ ~Closed
  BY <1>1, <1>2, Occupies, PrecogAssumption
     DEF SignHeard, PendingHere, Choosing, RunInv, ClosedInv, Closed
<1>4. \/ BeginSeal /\ toClient' = toClient /\ trialIndex' >= Trials
      \/ /\ Send(TrialMessage(trialIndex')) /\ UNCHANGED <<up, outcome, sealed, feedVars>>
  BY <1>1 DEF NextTrial
<1>5. /\ UNCHANGED <<clock, feed>> /\ asks'[OpenAsk] = asks[OpenAsk]
  <2>1. CASE UNCHANGED feedVars
    BY <2>1 DEF feedVars
  <2>2. CASE Ask(SealAsk, Subject("seal", NoCommit))
    <3>1. Subject("seal", NoCommit).target \in Int /\ UNCHANGED <<clock, feed>>
      BY <2>2, NoCommitIsNone DEF Subject, Ask
    <3> QED
      BY <2>2, <3>1, AskKeepsCalls, AskersDiffer DEF RunInv
  <2> QED
    BY <1>4, <2>1, <2>2 DEF BeginSeal
<1>6. SignedInPlace(records)'
  <2>1. /\ Len(records) = trialIndex /\ trialIndex \in Nat
        /\ records \in Seq({records[i] : i \in DOMAIN records})
    BY DEF RunInv, TrialsInv, TimingInv
  <2>2. TrialRecord(handlers[h]).sig.index = trialIndex
    BY <1>2 DEF SignHeard, PendingHere, TrialRecord, RecordAs
  <2>3. PICK rec : rec = TrialRecord(handlers[h])
    OBVIOUS
  <2> DEFINE S == {records[i] : i \in DOMAIN records} \cup {rec}
  <2>4. records \in Seq(S) /\ rec \in S
    BY <2>1
  <2>5. /\ records' \in Seq(S) /\ Len(records') = trialIndex + 1
        /\ records'[trialIndex + 1] = rec
        /\ \A i \in 1..trialIndex : records'[i] = records[i]
    BY <1>1, <2>1, <2>3, <2>4, AppendProperties
  <2>6. DOMAIN records' = 1..(trialIndex + 1) /\ DOMAIN records = 1..trialIndex
    BY <2>1, <2>5
  <2>7. \A i \in 1..trialIndex : records[i].sig.index = i - 1
    BY <2>6 DEF PageInv, SignedInPlace
  <2>8. ASSUME NEW i \in 1..(trialIndex + 1)
        PROVE  records'[i].sig.index = i - 1
    <3>1. CASE i = trialIndex + 1
      BY <2>1, <2>2, <2>3, <2>5, <3>1
    <3>2. CASE i # trialIndex + 1
      <4>1. i \in 1..trialIndex
        BY <2>1, <3>2
      <4> QED
        BY <2>5, <2>7, <4>1
    <3> QED
      BY <3>1, <3>2
  <2> QED
    BY <2>6, <2>8 DEF SignedInPlace
<1>7. Onward
  BY <1>5, SessionOnward DEF RunInv
<1>8. Enabled => AttestedBy(openWitness, Subject("open", NoCommit))'
  <2>1. Enabled => AttestedBy(openWitness, Subject("open", NoCommit))
    BY <1>2 DEF PageInv
  <2>2. PICK atts : atts = openWitness
    OBVIOUS
  <2>3. Enabled => AttestedBy(atts, Subject("open", NoCommit))'
    BY <1>7, <2>1, <2>2, EvidenceStays
  <2> QED
    BY <1>1, <2>2, <2>3
<1>9. CASE BeginSeal /\ toClient' = toClient /\ trialIndex' >= Trials
  <2>1. outcome' \in {"sealing", "sealed"} /\ (Enabled => outcome' # "sealed")
    BY <1>3, <1>9 DEF BeginSeal
  <2>2. OneTrialInv'
    BY <1>1, <1>2, <1>3, <1>5, <1>9, <2>1 DEF OneTrialInv, NothingSent, NoMessage, Closed
  <2>3. asks'[SealAsk].on \/ outcome' = "sealed" => sealed'.records = records'
    <3>1. CASE sealed' = [NotSealed EXCEPT !.records = records', !.openWitness = openWitness]
      BY <3>1 DEF NotSealed
    <3>2. CASE outcome' = "sealing" /\ UNCHANGED feedVars
      BY <1>3, <3>2 DEF feedVars
    <3> QED
      BY <1>3, <1>9, <3>1, <3>2 DEF BeginSeal
  <2>4. asks'[SealAsk].on \/ outcome' = "sealed" => SignedInPlace(sealed.records)'
    BY <1>6, <2>3 DEF SignedInPlace
  <2> QED
    BY <1>1, <1>6, <1>8, <2>1, <2>2, <2>4 DEF PageInv
<1>10. CASE Send(TrialMessage(trialIndex')) /\ UNCHANGED <<up, outcome, sealed, feedVars>>
  <2>1. toClient' = <<TrialMessage(trialIndex')>> /\ asks' = asks
    BY <1>2, <1>3, <1>10, OneMessage DEF Send, NoMessage, feedVars
  <2>2. TrialSent'
    BY <1>1, <1>3, <2>1 DEF TrialSent, NoMessage, NoPending
  <2>3. OneTrialInv'
    BY <1>2, <1>10, <2>1, <2>2 DEF OneTrialInv
  <2> QED
    BY <1>1, <1>2, <1>3, <1>6, <1>8, <1>10, <2>1, <2>3 DEF PageInv
<1> QED
  BY <1>4, <1>9, <1>10

\* The page sends no message that the server drops.
LEMMA NoneIgnored ==
  ASSUME PageInv, IgnoreMessage
  PROVE  FALSE
<1>1. PICK type \in {"choice", "sign"} :
        /\ toServer # <<>> /\ Head(toServer).type = type
        /\ Head(toServer).index # trialIndex \/ (type = "choice") # (pending = NoPending)
  BY DEF IgnoreMessage, Hear
<1>2. ChoiceSent \/ SignSent
  BY <1>1, WhereTheTrialIs
<1>3. CASE ChoiceSent
  <2>1. Head(toServer) = ChoiceMessage(trialIndex, page.choice) /\ pending = NoPending
    BY <1>3, OneMessage DEF ChoiceSent
  <2>2. Head(toServer).type = "choice" /\ Head(toServer).index = trialIndex
    BY <2>1 DEF ChoiceMessage
  <2> QED
    BY <1>1, <2>1, <2>2
<1>4. CASE SignSent
  <2>1. Head(toServer) = SignMessage(pending) /\ PendingHere
    BY <1>4, OneMessage DEF SignSent
  <2>2. Head(toServer).type = "sign" /\ Head(toServer).index = trialIndex
    BY <2>1 DEF SignMessage, PendingHere
  <2>3. pending # NoPending
    BY <2>1, NoCommitIsNone, PrecogAssumption DEF PendingHere
  <2> QED
    BY <1>1, <2>2, <2>3
<1> QED
  BY <1>2, <1>3, <1>4

LEMMA ElsewherePages ==
  ASSUME RunInv, PageInv, Onward, UNCHANGED runVars,
         asks'[OpenAsk].on = asks[OpenAsk].on, asks'[SealAsk].on = asks[SealAsk].on
  PROVE  PageInv'
<1>1. /\ UNCHANGED <<outcome, trialIndex, pending, handlers, records, openWitness, sealed>>
      /\ UNCHANGED <<toServer, toClient, page, extra>>
  BY DEF runVars, sessionVars, witnessing, clientVars
<1>2. OneTrialInv'
  BY <1>1 DEF PageInv, OneTrialInv, NothingSent, Closed, NoMessage, NoneBut, Choosing, TrialSent,
              TrialShown, ChoiceSent, PendingSent, SignSent, ChoiceHeard, SignHeard, PendingHere,
              NoPending
<1> QED
  BY <1>1, <1>2, TheRestStays DEF PageInv

LEMMA PageInvStart == Init => PageInv
<1> SUFFICES ASSUME Init
             PROVE  PageInv
  OBVIOUS
<1>1. ~asks[OpenAsk].on /\ ~asks[SealAsk].on
  BY AskersDiffer DEF Init, FeedInit, Idle
<1>2. NothingSent
  BY DEF Init, NothingSent, NoneBut, NoMessage, Choosing, Free, Flow
<1> QED
  BY <1>1, <1>2 DEF Init, PageInv, OneTrialInv, SignedInPlace

LEMMA PageInvStep ==
  ASSUME MaxExtra = 0
  PROVE  RunInv /\ PageInv /\ [Next]_vars => PageInv'
<1> SUFFICES ASSUME RunInv, PageInv, [Next]_vars
             PROVE  PageInv'
  OBVIOUS
<1>1. ~SendExtra
  BY DEF SendExtra, PageInv
<1>2. ASSUME WitnessStep, UNCHANGED runVars
      PROVE  PageInv'
  <2>1. Answering /\ Onward
    BY <1>2, WitnessesAnswer, ClockGrows, EntriesGrow DEF RunInv, CallsInv, Onward
  <2> QED
    BY <1>2, <2>1, ElsewherePages, AskersDiffer DEF Answering
<1>3. ASSUME UNCHANGED vars
      PROVE  PageInv'
  <2>1. UNCHANGED runVars /\ UNCHANGED <<clock, feed, asks>>
    BY <1>3 DEF vars, feedVars
  <2> QED
    BY <2>1, SessionOnward, ElsewherePages DEF RunInv
<1>4. ASSUME NEW h \in Handler, HandlerStep(h) \/ BeaconFails(h)
      PROVE  PageInv'
  BY <1>4, HearPages, BindPages, DecidePages, RevealPages DEF HandlerStep
<1> QED
  BY <1>1, <1>2, <1>3, <1>4, ChoosePages, ReceivePages, StartPages, OpenPages, QuorumShortPages,
     SealPages, NoneIgnored DEF Next, ServerStep

LEMMA PageDriven ==
  ASSUME MaxExtra = 0
  PROVE  Spec => [](RunInv /\ PageInv)
<1>1. RunInv /\ PageInv /\ [Next]_vars => (RunInv /\ PageInv)'
  BY RunInvStep, PageInvStep
<1> QED
  BY RunInvStart, PageInvStart, <1>1, PTL DEF Spec

\* A record that was signed in its place passes.
LEMMA InPlaceVerifies ==
  ASSUME NEW i \in Nat \ {0}, NEW r, RecordInv(i, r), r.sig.index = i - 1
  PROVE  Verifies(i, r) /\ r.commit = r.sig
<1>1. r.commit = r.sig
  BY DEF RecordInv, IsBound, CommitType
<1> QED
  BY <1>1 DEF Verifies, RecordInv, IsBound, CommitType

\* PSI-PRECOG-4, for every number of trials, of invocations in flight and of
\* witnesses: the records of a session that its page drives re-verify.
THEOREM RecordsAlwaysVerify ==
  ASSUME MaxExtra = 0
  PROVE  Spec => []RecordsVerify
<1>1. RunInv /\ PageInv => RecordsVerify
  <2> SUFFICES ASSUME RunInv, PageInv, NEW i \in DOMAIN records
               PROVE  Verifies(i, records[i])
    BY DEF RecordsVerify
  <2>1. i \in Nat \ {0} /\ RecordInv(i, records[i]) /\ records[i].sig.index = i - 1
    BY DEF RunInv, TrialsInv, TimingInv, PageInv, SignedInPlace
  <2> QED
    BY <2>1, InPlaceVerifies
<1> QED
  BY PageDriven, <1>1, PTL

\* PSI-WITNESS-4, for every number of trials, threshold and set of witnesses that
\* restart, answer late or not at all: what the page's session seals carries the
\* quorums that it claims.
THEOREM SealAlwaysCarriesWitnesses ==
  ASSUME MaxExtra = 0
  PROVE  Spec => []SealCarriesWitnesses
<1>1. RunInv /\ PageInv => SealCarriesWitnesses
  <2> SUFFICES ASSUME RunInv, PageInv, outcome = "sealed", Enabled
               PROVE  /\ Len(sealed.records) = Trials
                      /\ \A i \in DOMAIN sealed.records :
                           LET r == sealed.records[i]
                           IN /\ AttestedBy(r.witness, Subject("choice", r.sig))
                              /\ \A att \in r.witness :
                                   r.sig.prev <= att.round /\ att.round < r.sig.target
                      /\ AttestedBy(sealed.openWitness, Subject("open", NoCommit))
                      /\ AttestedBy(sealed.sealWitness, Subject("seal", NoCommit))
    BY DEF SealCarriesWitnesses
  <2>1. ASSUME NEW i \in DOMAIN sealed.records
        PROVE  LET r == sealed.records[i]
               IN /\ AttestedBy(r.witness, Subject("choice", r.sig))
                  /\ \A att \in r.witness : r.sig.prev <= att.round /\ att.round < r.sig.target
    <3>0. PICK r : r = sealed.records[i]
      OBVIOUS
    <3>a. RecordInv(i, r) /\ clock \in Nat
      <4>1. i \in TrialIndices
        BY DEF TrialIndices
      <4> QED
        BY <3>0, <4>1, SealedRun DEF RunInv, CallsInv
    <3>1. /\ CoSignedChoice(r.witness, r.sig)
          /\ r.sig.target # NoTarget
      BY <3>a DEF RecordInv, IsBound, CommitType, NoTarget
    <3>2. Subject("choice", r.sig).target = r.sig.target
      BY DEF Subject
    <3> QED
      BY <3>0, <3>1, <3>2 DEF CoSignedChoice, FreshlyAttested, Attests
  <2>2. AttestedBy(sealed.openWitness, Subject("open", NoCommit))
    BY DEF PageInv
  <2> QED
    BY <2>1, <2>2, SealedRun
<1> QED
  BY PageDriven, <1>1, PTL

\* PSI-VERIFY, for every number of trials and set of witnesses: a session that
\* its page drove passes the browser and the analyzer.
THEOREM SealedAlwaysPassesVerify ==
  ASSUME MaxExtra = 0
  PROVE  Spec => []SealedPassesVerify
<1>1. RunInv /\ PageInv => SealedPassesVerify
  <2> SUFFICES ASSUME RunInv, PageInv, outcome = "sealed"
               PROVE  BrowserAccepts /\ AnalyzerAccepts
    BY DEF SealedPassesVerify
  <2>1. ASSUME NEW i \in TrialIndices
        PROVE  /\ Verifies(i, sealed.records[i])
               /\ \A att \in sealed.records[i].witness :
                    Attests(att, Subject("choice", sealed.records[i].commit))
    <3>0. PICK r : r = sealed.records[i]
      OBVIOUS
    <3>1. i \in 1..Trials /\ RecordInv(i, r) /\ Trials \in Nat
      BY <3>0, SealedRun
    <3>2. r.sig.index = i - 1
      BY <3>0 DEF PageInv, SignedInPlace, TrialIndices
    <3>3. Verifies(i, r) /\ r.commit = r.sig
      <4>1. i \in Nat \ {0}
        BY <3>1
      <4> QED
        BY <3>1, <3>2, <4>1, InPlaceVerifies
    <3>4. \A att \in r.witness : Attests(att, Subject("choice", r.sig))
      BY <3>1 DEF RecordInv, CoSignedChoice, FreshlyAttested
    <3> QED
      BY <3>0, <3>3, <3>4
  <2>2. TrialsHold
    BY <2>1 DEF TrialsHold, Verifies, ChoiceSigned, FutureTarget, ImageDerived, HitAgrees
  <2>3. ASSUME NEW i \in TrialIndices
        PROVE  /\ TrialCheck(i).sigsOk /\ TrialCheck(i).timingOk
               /\ TrialCheck(i).distinct \subseteq Witness
    BY <2>1 DEF TrialCheck, VerifyAttestations, Signed, Attests
  <2>4. Enabled =>
          /\ OpenCheck.sigsOk /\ OpenCheck.distinct \subseteq Witness
          /\ SealCheck.sigsOk /\ SealCheck.distinct \subseteq Witness
          /\ SealCheck.distinct = {att.witness : att \in sealed.sealWitness}
          /\ Cardinality({att.witness : att \in sealed.sealWitness}) >= Threshold
    BY SealedRun DEF OpenCheck, SealCheck, VerifyAttestations, Signed, Attests, AttestedBy
  <2>5. Enabled => QuorumHolds
    <3> SUFFICES ASSUME Enabled
                 PROVE  QuorumHolds
      OBVIOUS
    <3> DEFINE all == OpenCheck.distinct \cup SealCheck.distinct \cup
                      UNION {TrialCheck(i).distinct : i \in TrialIndices}
    <3>1. all \subseteq Witness /\ SealCheck.distinct \subseteq all
      BY <2>3, <2>4
    <3>2. IsFiniteSet(all)
      BY <3>1, FS_Subset, WitnessAssumption
    <3>3. /\ Cardinality(SealCheck.distinct) <= Cardinality(all)
          /\ IsFiniteSet(SealCheck.distinct)
      BY <3>1, <3>2, FS_Subset
    <3>4. Cardinality(all) \in Int /\ Cardinality(SealCheck.distinct) \in Int /\ Threshold \in Int
      BY <3>2, <3>3, FS_CardinalityType, WitnessAssumption DEF Thresholds
    <3>5. Cardinality(SealCheck.distinct) >= Threshold
      BY <2>4
    <3>6. Cardinality(all) >= Threshold
      <4> HIDE DEF all
      <4> QED
        BY <3>3, <3>4, <3>5
    <3> QED
      BY <3>6 DEF QuorumHolds
  <2>6. Enabled => sealed.records # <<>> /\ \A i \in TrialIndices : sealed.records[i].witness # {}
    <3>1. sealed.records # <<>>
      BY SealedRun
    <3>2. ASSUME Enabled, NEW i \in TrialIndices
          PROVE  sealed.records[i].witness # {}
      <4>1. AttestedBy(sealed.records[i].witness, Subject("choice", sealed.records[i].sig))
        BY SealedRun DEF RecordInv, CoSignedChoice
      <4> QED
        BY <3>2, <4>1, QuorumHasMembers
    <3> QED
      BY <3>1, <3>2
  <2> QED
    BY <2>2, <2>3, <2>4, <2>5, <2>6 DEF BrowserAccepts, AnalyzerAccepts
<1> QED
  BY PageDriven, <1>1, PTL
=============================================================================

--------------------------- MODULE MicroPkProofs ----------------------------
(***************************************************************************)
(* A micro-PK run among witnesses that are late, fail and restart: the     *)
(* numbers of a feed go up, what a seal carries is in the feeds, and the   *)
(* rounds of successive stages do not go back.  The last two rest on       *)
(* StageInv of module MicroPk.                                             *)
(***************************************************************************)
EXTENDS MicroPk, WitnessFeedsProofs

\* The run touches the feeds through its calls only.
LEMMA RunKeepsFeeds ==
  ASSUME FeedInv, RunStep
  PROVE  FeedInv'
<1>1. CASE UNCHANGED feedVars
  BY <1>1, FeedsUntouched DEF feedVars, stampVars, FeedInv
<1>2. CASE \E subject : Ask(Run, subject) \/ Returned(Run)
  BY <1>2, AskKeepsFeeds
<1> QED
  BY <1>1, <1>2 DEF RunStep, Start, QuorumShort, OpenWitnessed, ReadBlock, CheckpointWitnessed,
                    RunFails, AskSeal, SealWitnessed

LEMMA FeedInvAlways == Spec => []FeedInv
<1>1. Init => FeedInv
  BY FeedInvStart DEF Init
<1>2. FeedInv /\ [Next]_vars => FeedInv'
  <2>1. ASSUME FeedInv, UNCHANGED vars
        PROVE  FeedInv'
    BY <2>1, FeedsUntouched DEF vars, feedVars, stampVars, FeedInv
  <2> QED
    BY <2>1, RunKeepsFeeds, WitnessesKeepFeeds DEF Next
<1> QED
  BY <1>1, <1>2, PTL DEF Spec

\* PSI-WITNESS-3: whatever witnesses fail and restart, the numbers of a feed go
\* up, so that the feedSeq in a seal names one entry.
THEOREM FeedsAlwaysAscend == Spec => []FeedsAscend
BY FeedInvAlways, FeedInvSuffices, PTL

-----------------------------------------------------------------------------

LEMMA RunIsAsker == Run \in Asker
BY MicroPkAssumption DEF Run

\* The beacon goes on, feeds grow, and the run waits.
LEMMA HeldStays ==
  ASSUME StageInv, UNCHANGED runVars, clock' \in Nat, clock' >= clock,
         \A w \in Witness : Entries(w) \subseteq Entries(w)'
  PROVE  /\ HeldInv' /\ SealInv'
         /\ AwaitedSubject' = AwaitedSubject /\ LastStage' = LastStage
         /\ \A stage, subject : StageHolds(stage, subject) =>
              \A att \in stage : /\ att.witness \in Witness /\ att.subject = subject
                                 /\ att.round \in 0..clock' /\ att \in Entries(att.witness)'
<1>1. /\ pc' = pc /\ windows' = windows /\ openWitness' = openWitness
      /\ checkpoints' = checkpoints /\ seal' = seal
  BY DEF runVars
<1>2. clock \in Nat
  BY DEF StageInv, HeldInv
<1>3. \A stage, subject : StageHolds(stage, subject) =>
        \A att \in stage : /\ att.witness \in Witness /\ att.subject = subject
                           /\ att.round \in 0..clock' /\ att \in Entries(att.witness)'
  BY <1>2 DEF StageHolds
<1>4. AwaitedSubject' = AwaitedSubject /\ LastStage' = LastStage
  BY <1>1 DEF AwaitedSubject, LastStage, OpenSubject, CheckpointSubject, SealSubject, Subject
<1>5. StageHolds(openWitness, OpenSubject)'
  BY <1>1, <1>3 DEF StageInv, HeldInv, StageHolds, OpenSubject, Subject
<1>6. (\A i \in DOMAIN checkpoints : StageHolds(checkpoints[i], CheckpointSubject(i)))'
  BY <1>1, <1>3 DEF StageInv, HeldInv, StageHolds, CheckpointSubject, Subject
<1>7. (pc = "sealed" => StageHolds(seal.sealWitness, SealSubject))'
  <2>1. SealSubject' = SealSubject
    BY <1>1 DEF SealSubject, Subject
  <2>2. pc = "sealed" => \A att \in seal.sealWitness :
          /\ att.witness \in Witness /\ att.subject = SealSubject
          /\ att.round \in 0..clock' /\ att \in Entries(att.witness)'
    BY <1>3 DEF StageInv, SealInv
  <2> QED
    BY <1>1, <2>1, <2>2 DEF StageHolds
<1>8. HeldInv'
  BY <1>1, <1>5, <1>6 DEF StageInv, HeldInv, Quorate, NotBefore, Enabled
<1>9. SealInv'
  BY <1>1, <1>4, <1>7 DEF StageInv, SealInv, Quorate, NotBefore, Enabled
<1> QED
  BY <1>3, <1>4, <1>8, <1>9

LEMMA LastStageHolds ==
  ASSUME StageInv
  PROVE  /\ clock \in Nat
         /\ \A att \in LastStage : att.round \in 0..clock
<1>1. clock \in Nat
  BY DEF StageInv, HeldInv
<1>2. CASE checkpoints = <<>>
  BY <1>1, <1>2 DEF StageInv, HeldInv, LastStage, StageHolds
<1>3. CASE checkpoints # <<>>
  <2>1. Len(checkpoints) \in DOMAIN checkpoints
    BY <1>3 DEF StageInv, HeldInv
  <2> QED
    BY <1>1, <1>3, <2>1 DEF StageInv, HeldInv, LastStage, StageHolds
<1> QED
  BY <1>1, <1>2, <1>3

LEMMA AwaitedType ==
  ASSUME StageInv
  PROVE  AwaitedSubject \in SubjectType
BY DEF StageInv, HeldInv, AwaitedSubject, OpenSubject, CheckpointSubject, SealSubject, Subject,
       SubjectType, WitnessSubjectKind

\* A call is over with answers that are of the present stage: its request is
\* gone, or known to the witness only.
LEMMA AnswerKeepsCall ==
  ASSUME StageInv, UNCHANGED runVars, clock' = clock,
         \A w \in Witness : Entries(w) \subseteq Entries(w)',
         NEW q \in requests, NEW atts \in SUBSET AttestationType, Answered(q, atts),
         requests' \subseteq (requests \ {q}) \cup {[q EXCEPT !.live = FALSE]},
         \A att \in atts : /\ att.subject = q.subject /\ q.read /\ att.round \in q.since..clock
                           /\ att \in Entries(att.witness)'
  PROVE  CallInv'
<1> DEFINE call == asks[Run]
<1>0. /\ Run \in Asker /\ clock \in Nat /\ clock' \in Nat /\ clock' >= clock
      /\ asks \in [Asker -> CallType] /\ requests \subseteq RequestType
  BY RunIsAsker DEF StageInv, HeldInv, CallInv
<1>1. AwaitedSubject' = AwaitedSubject /\ LastStage' = LastStage /\ pc' = pc
  BY <1>0, HeldStays DEF runVars
<1>2. /\ [q EXCEPT !.live = FALSE] \in RequestType
      /\ [q EXCEPT !.live = FALSE].since = q.since /\ ~[q EXCEPT !.live = FALSE].live
  BY <1>0 DEF RequestType
<1>3. requests' \subseteq RequestType /\ \A r \in requests' : r.since <= clock'
  BY <1>0, <1>2 DEF StageInv, CallInv
<1>4. \A r \in requests' : r.live => r \in requests /\ r # q
  BY <1>2
<1>5. q.asker = Run /\ q.live \in BOOLEAN
  BY <1>0 DEF RequestType
<1>6. /\ asks' \in [Asker -> CallType] /\ asks'[Run].on = call.on
      /\ \A url \in call.waiting : url \in asks'[Run].waiting \/ (q.live /\ url = q.url)
      /\ \A att \in asks'[Run].got : att \in call.got \/ (q.live /\ att \in atts)
  <2>1. CASE q.live
    <3>1. asks' = [asks EXCEPT ![Run].waiting = @ \ {q.url}, ![Run].got = @ \cup atts]
      BY <1>5, <2>1 DEF Answered
    <3> QED
      BY <1>0, <2>1, <3>1 DEF CallType
  <2>2. CASE ~q.live
    BY <1>0, <2>2 DEF Answered
  <2> QED
    BY <1>5, <2>1, <2>2
<1>7. ASSUME call.on, NEW att \in asks'[Run].got
      PROVE  /\ att.witness \in Witness /\ att.subject = AwaitedSubject
             /\ att.round \in 0..clock' /\ att \in Entries(att.witness)'
             /\ NotBefore(LastStage, att.round)
  <2>1. CASE att \in call.got
    <3>1. StageHolds(call.got, AwaitedSubject) /\ NotBefore(LastStage, att.round)
      BY <1>7, <2>1 DEF StageInv, CallInv
    <3> QED
      BY <1>0, <2>1, <3>1, HeldStays
  <2>2. CASE q.live /\ att \in atts
    <3>1. NotBefore(LastStage, q.since) /\ q.since \in Nat /\ q.subject = AwaitedSubject
      BY <1>0, <2>2 DEF StageInv, CallInv, Current, RequestType
    <3>2. att.round \in 0..clock /\ att.round >= q.since /\ att.witness \in Witness
      BY <1>0, <2>2, <3>1 DEF AttestationType
    <3>3. NotBefore(LastStage, att.round)
      BY <3>1, <3>2, LastStageHolds DEF NotBefore
    <3> QED
      BY <1>0, <2>2, <3>1, <3>2, <3>3
  <2> QED
    BY <1>6, <2>1, <2>2
<1>8. call.on => (/\ StageHolds(asks[Run].got, AwaitedSubject)
                  /\ \A att \in asks[Run].got : NotBefore(LastStage, att.round))'
  BY <1>1, <1>7 DEF StageHolds, NotBefore
<1>9. \A r \in requests' : r.live => Current(r)'
  <2>1. ASSUME NEW r \in requests', r.live
        PROVE  Current(r)'
    <3>1. r \in requests /\ r # q /\ Current(r)
      BY <1>4, <2>1 DEF StageInv, CallInv
    <3>2. r.url \in asks'[Run].waiting
      BY <1>6, <2>1, <3>1 DEF StageInv, CallInv, Current
    <3> QED
      BY <1>1, <1>6, <3>1, <3>2 DEF Current, NotBefore
  <2> QED
    BY <2>1
<1>10. \A r, t \in requests' : r.live /\ t.live /\ r.url = t.url => r = t
  BY <1>4 DEF StageInv, CallInv
<1>11. asks'[Run].on <=> pc' \in {"open", "checkpoint", "seal"}
  BY <1>1, <1>6 DEF StageInv, CallInv
<1> QED
  BY <1>3, <1>6, <1>8, <1>9, <1>10, <1>11 DEF CallInv, RequestType, CallType

\* A witness has read a request after the stages before were over.
LEMMA ReadKeepsCall ==
  ASSUME StageInv, FeedInv, UNCHANGED runVars, NEW q \in requests, ReadRequest(q)
  PROVE  CallInv'
<1> DEFINE read == [q EXCEPT !.read = TRUE, !.since = clock]
<1>0. /\ clock \in Nat /\ requests \subseteq RequestType /\ UNCHANGED <<clock, feed, asks>>
      /\ requests' = (requests \ {q}) \cup {read}
  BY DEF StageInv, HeldInv, CallInv, ReadRequest
<1>1. AwaitedSubject' = AwaitedSubject /\ LastStage' = LastStage /\ pc' = pc
  BY <1>0, HeldStays DEF runVars, Entries
<1>2. /\ read \in RequestType /\ read.since = clock
      /\ read.live = q.live /\ read.url = q.url /\ read.subject = q.subject
  BY <1>0 DEF RequestType
<1>3. NotBefore(LastStage, clock)
  BY LastStageHolds DEF NotBefore
<1>4. q.live => Current(q)
  BY DEF StageInv, CallInv
<1>5. read.live => Current(read)
  BY <1>2, <1>3, <1>4 DEF Current
<1> HIDE DEF read
<1>6. \A r \in requests' : r.live => Current(r)'
  BY <1>0, <1>1, <1>5 DEF StageInv, CallInv, Current, NotBefore
<1>7. \A r, t \in requests' : r.live /\ t.live /\ r.url = t.url => r = t
  BY <1>0, <1>2 DEF StageInv, CallInv
<1>8. (asks[Run].on => StageHolds(asks[Run].got, AwaitedSubject))'
  BY <1>0, <1>1 DEF StageInv, CallInv, StageHolds, Entries
<1>9. (asks[Run].on => \A att \in asks[Run].got : NotBefore(LastStage, att.round))'
  BY <1>0, <1>1 DEF StageInv, CallInv, NotBefore
<1> QED
  BY <1>0, <1>1, <1>2, <1>6, <1>7, <1>8, <1>9 DEF StageInv, CallInv, RequestType, CallType

\* The calls to a witness that restarts are over without an answer.
LEMMA RestartKeepsCall ==
  ASSUME StageInv, FeedInv, UNCHANGED runVars, NEW w \in Witness, WitnessRestarts(w)
  PROVE  CallInv'
<1> DEFINE lost == {q \in requests : WitnessOf[q.url] = w}
           LostUrls(a) == {q.url : q \in {r \in lost : r.live /\ r.asker = a}}
<1>0. /\ Run \in Asker /\ UNCHANGED <<clock, feed>> /\ requests' = requests \ lost
      /\ asks \in [Asker -> CallType] /\ requests \subseteq RequestType
      /\ asks' = [a \in Asker |-> [asks[a] EXCEPT !.waiting = @ \ LostUrls(a)]]
  BY RunIsAsker DEF StageInv, CallInv, WitnessRestarts
<1>1. AwaitedSubject' = AwaitedSubject /\ LastStage' = LastStage /\ pc' = pc
  BY <1>0, HeldStays DEF runVars, Entries, StageInv, HeldInv
<1>2. /\ asks' \in [Asker -> CallType]
      /\ asks'[Run].on = asks[Run].on /\ asks'[Run].got = asks[Run].got
      /\ asks'[Run].waiting = asks[Run].waiting \ LostUrls(Run)
  BY <1>0 DEF CallType
<1>3. \A r \in requests' : r \in requests /\ r.url \notin LostUrls(Run)
  BY <1>0
<1> HIDE DEF lost, LostUrls
<1>4. \A r \in requests' : r.live => Current(r)'
  BY <1>1, <1>2, <1>3 DEF StageInv, CallInv, Current, NotBefore
<1>5. (asks[Run].on => StageHolds(asks[Run].got, AwaitedSubject))'
  BY <1>0, <1>1, <1>2 DEF StageInv, CallInv, StageHolds, Entries
<1>6. (asks[Run].on => \A att \in asks[Run].got : NotBefore(LastStage, att.round))'
  BY <1>1, <1>2 DEF StageInv, CallInv, NotBefore
<1>7. \A r \in requests' : r \in requests /\ r.since <= clock'
  BY <1>0, <1>3 DEF StageInv, CallInv
<1> QED
  BY <1>0, <1>1, <1>2, <1>4, <1>5, <1>6, <1>7 DEF StageInv, CallInv, RequestType, CallType

\* Nothing happens to the calls.
LEMMA CallStays ==
  ASSUME StageInv, UNCHANGED runVars, UNCHANGED <<requests, asks>>, clock' \in Nat, clock' >= clock,
         \A w \in Witness : Entries(w) \subseteq Entries(w)'
  PROVE  CallInv'
<1>1. AwaitedSubject' = AwaitedSubject /\ LastStage' = LastStage /\ pc' = pc
  BY HeldStays DEF runVars
<1>2. (asks[Run].on => StageHolds(asks[Run].got, AwaitedSubject))'
  <2>1. asks[Run].on => \A att \in asks[Run].got :
          /\ att.witness \in Witness /\ att.subject = AwaitedSubject
          /\ att.round \in 0..clock' /\ att \in Entries(att.witness)'
    BY HeldStays DEF StageInv, CallInv
  <2> QED
    BY <1>1, <2>1 DEF StageHolds
<1>3. \A q \in requests' : q.live => Current(q)'
  BY <1>1 DEF StageInv, CallInv, Current, NotBefore
<1>4. \A q \in requests : q.since <= clock'
  BY DEF StageInv, CallInv, HeldInv, RequestType
<1>5. (asks[Run].on => \A att \in asks[Run].got : NotBefore(LastStage, att.round))'
  BY <1>1 DEF StageInv, CallInv, NotBefore
<1> QED
  BY <1>1, <1>2, <1>3, <1>4, <1>5 DEF StageInv, CallInv, RequestType, CallType

LEMMA WitnessesKeepStages ==
  ASSUME StageInv, FeedInv, WitnessStep, UNCHANGED runVars
  PROVE  StageInv'
<1>0. /\ clock' \in Nat /\ clock' >= clock
      /\ \A w \in Witness : Entries(w) \subseteq Entries(w)'
      /\ clock \in Nat /\ requests \subseteq RequestType
  BY ClockGrows, EntriesGrow DEF StageInv, HeldInv, CallInv
<1>1. ASSUME NEW q \in requests, Refuse(q) \/ FeedFails(q) \/ Miss(q) \/ TimeOut(q)
      PROVE  CallInv'
  <2>1. /\ clock' = clock /\ Answered(q, {})
        /\ requests' \subseteq (requests \ {q}) \cup {[q EXCEPT !.live = FALSE]}
    BY <1>1 DEF Refuse, FeedFails, Miss, TimeOut
  <2> QED
    BY <1>0, <2>1, AnswerKeepsCall
<1>2. ASSUME NEW q \in requests, CoSign(q)
      PROVE  CallInv'
  <2>1. PICK round \in PulseRounds(q) :
          /\ Answered(q, {Attestation(q, round)})
          /\ Attestation(q, round) \in Entries(WitnessOf[q.url])'
    BY <1>2, CoSignKeepsFeeds
  <2>2. clock' = clock /\ q.read /\ requests' = requests \ {q}
    BY <1>2 DEF CoSign
  <2>3. /\ WitnessOf[q.url] \in Witness /\ q.subject \in SubjectType
        /\ q.since \in Nat /\ round \in Nat /\ round \in q.since..clock
    BY <1>0, WitnessAssumption DEF RequestType, PulseRounds
  <2>4. feedHead[WitnessOf[q.url]].seq \in Nat
    BY <2>3 DEF FeedInv, HeadFits
  <2>5. LET att == Attestation(q, round)
        IN /\ att \in AttestationType /\ att.subject = q.subject /\ att.round = round
           /\ att.witness = WitnessOf[q.url]
    BY <2>3, <2>4 DEF Attestation, AttestationType
  <2> QED
    BY <1>0, <2>1, <2>2, <2>3, <2>5, AnswerKeepsCall
<1>3. ASSUME NEW q \in requests, ReadRequest(q)
      PROVE  CallInv'
  BY <1>3, ReadKeepsCall
<1>4. ASSUME NEW w \in Witness, WitnessRestarts(w)
      PROVE  CallInv'
  BY <1>4, RestartKeepsCall
<1>5. ASSUME UNCHANGED <<requests, asks>>
      PROVE  CallInv'
  BY <1>0, <1>5, CallStays
<1>6. \A w \in Witness : StampHead(w) => UNCHANGED <<requests, asks>>
  BY DEF StampHead
<1>7. Tick \/ (\E s \in stamping : StampEnds(s) \/ StampFails(s)) => UNCHANGED <<requests, asks>>
  BY DEF StampEnds, StampFails, Tick
<1>8. CallInv'
  BY <1>1, <1>2, <1>3, <1>4, <1>5, <1>6, <1>7 DEF WitnessStep, Serve
<1> QED
  BY <1>0, <1>8, HeldStays DEF StageInv

-----------------------------------------------------------------------------
(* The steps of the run.                                                     *)

\* When no call is on, no request has anyone waiting for it.
LEMMA NobodyWaits ==
  ASSUME StageInv, ~asks[Run].on \/ asks[Run].waiting = {}
  PROVE  \A q \in requests : ~q.live
BY DEF StageInv, CallInv, Current

LEMMA AskBeginsCall ==
  ASSUME StageInv, NEW subject \in SubjectType, Ask(Run, subject),
         pc' \in {"open", "checkpoint", "seal"}, AwaitedSubject' = subject
  PROVE  CallInv'
<1>0. /\ Run \in Asker /\ clock \in Nat /\ clock' = clock /\ ~asks[Run].on
      /\ asks \in [Asker -> CallType] /\ requests \subseteq RequestType
  BY RunIsAsker DEF StageInv, HeldInv, CallInv, Ask
<1> DEFINE no == FALSE
           yes == TRUE
           new == {[asker |-> Run, url |-> u, subject |-> subject, read |-> no,
                    since |-> 0, live |-> yes] : u \in Url}
<1>1. requests' = requests \cup new
  BY DEF Ask
<1>2. asks' = [asks EXCEPT ![Run] = [on |-> TRUE, subject |-> {subject}, waiting |-> Url, got |-> {}]]
  BY DEF Ask
<1>3. /\ asks' \in [Asker -> CallType] /\ asks'[Run].on
      /\ asks'[Run].waiting = Url /\ asks'[Run].got = {}
  BY <1>0, <1>2 DEF CallType
<1>12. no \in BOOLEAN /\ yes \in BOOLEAN /\ ~no
  OBVIOUS
<1> HIDE DEF no, yes
<1>4. \A q \in new : /\ q \in RequestType /\ q.subject = subject /\ ~q.read /\ q.since = 0
  BY <1>12 DEF RequestType
<1>11. \A q, r \in new : q.url = r.url => q = r
  OBVIOUS
<1>5. \A q \in requests : ~q.live
  BY <1>0, NobodyWaits
<1> HIDE DEF new
<1>6. \A q \in requests' : q.live => q \in new /\ q.url \in Url
  BY <1>1, <1>4, <1>5 DEF RequestType
<1>7. \A q \in requests' : q.live => Current(q)'
  BY <1>3, <1>4, <1>6 DEF Current
<1>8. \A q, r \in requests' : q.live /\ r.live /\ q.url = r.url => q = r
  BY <1>6, <1>11
<1>9. \A q \in requests' : q.since <= clock'
  BY <1>0, <1>1, <1>4 DEF StageInv, CallInv
<1>10. requests' \subseteq RequestType
  BY <1>0, <1>1, <1>4
<1> QED
  BY <1>3, <1>7, <1>8, <1>9, <1>10 DEF CallInv, StageHolds, RequestType, CallType

LEMMA NoCallAfter ==
  ASSUME StageInv, pc' \notin {"open", "checkpoint", "seal"},
         \/ Returned(Run)
         \/ UNCHANGED feedVars /\ ~asks[Run].on
  PROVE  CallInv'
<1>0. /\ Run \in Asker /\ clock' = clock /\ requests' = requests
      /\ asks \in [Asker -> CallType] /\ requests \subseteq RequestType
  BY RunIsAsker DEF StageInv, CallInv, Returned, feedVars
<1>1. \A q \in requests : ~q.live
  BY NobodyWaits DEF Returned, Settled
<1>2. asks' \in [Asker -> CallType] /\ ~asks'[Run].on
  <2>1. CASE Returned(Run)
    <3>1. asks' = [asks EXCEPT ![Run] = Idle]
      BY <2>1 DEF Returned
    <3>2. Idle \in CallType /\ ~Idle.on
      BY DEF Idle, CallType
    <3> QED
      BY <1>0, <3>1, <3>2
  <2>2. CASE UNCHANGED feedVars /\ ~asks[Run].on
    BY <1>0, <2>2 DEF feedVars
  <2> QED
    BY <2>1, <2>2
<1> QED
  BY <1>0, <1>1, <1>2 DEF StageInv, CallInv, RequestType, CallType

\* What is held stays what it is.
LEMMA HeldSame ==
  ASSUME StageInv, UNCHANGED <<clock, feed, openWitness, checkpoints>>
  PROVE  /\ clock' \in Nat /\ LastStage' = LastStage
         /\ StageHolds(openWitness, OpenSubject)'
         /\ (\A i \in DOMAIN checkpoints : StageHolds(checkpoints[i], CheckpointSubject(i)))'
         /\ (checkpoints # <<>> => \A att \in checkpoints[1] : NotBefore(openWitness, att.round))'
         /\ (\A i \in 1..(Len(checkpoints) - 1) :
               \A att \in checkpoints[i+1] : NotBefore(checkpoints[i], att.round))'
<1>1. StageHolds(openWitness, OpenSubject)'
  BY DEF StageInv, HeldInv, StageHolds, Entries, OpenSubject, Subject
<1>2. (\A i \in DOMAIN checkpoints : StageHolds(checkpoints[i], CheckpointSubject(i)))'
  <2>1. \A i \in DOMAIN checkpoints : \A att \in checkpoints[i] :
          /\ att.witness \in Witness /\ att.subject = CheckpointSubject(i)
          /\ att.round \in 0..clock' /\ att \in Entries(att.witness)'
    BY DEF StageInv, HeldInv, StageHolds, Entries
  <2>2. \A i : CheckpointSubject(i)' = CheckpointSubject(i)
    BY DEF CheckpointSubject, Subject
  <2> QED
    BY <2>1, <2>2 DEF StageHolds
<1>3. LastStage' = LastStage
  BY DEF LastStage
<1>4. (checkpoints # <<>> => \A att \in checkpoints[1] : NotBefore(openWitness, att.round))'
  BY DEF StageInv, HeldInv, NotBefore
<1>5. (\A i \in 1..(Len(checkpoints) - 1) :
        \A att \in checkpoints[i+1] : NotBefore(checkpoints[i], att.round))'
  BY DEF StageInv, HeldInv, NotBefore
<1>6. clock' \in Nat
  BY DEF StageInv, HeldInv
<1> QED
  BY <1>1, <1>2, <1>3, <1>4, <1>5, <1>6

LEMMA AppendOwn ==
  ASSUME NEW s, s \in Seq({s[i] : i \in DOMAIN s}), NEW e
  PROVE  /\ Append(s, e) \in Seq({Append(s, e)[i] : i \in DOMAIN Append(s, e)})
         /\ Len(s) \in Nat /\ DOMAIN s = 1..Len(s)
         /\ Len(Append(s, e)) = Len(s) + 1 /\ DOMAIN Append(s, e) = 1..(Len(s) + 1)
         /\ Append(s, e) # <<>>
         /\ \A i \in 1..Len(s) : Append(s, e)[i] = s[i]
         /\ Append(s, e)[Len(s) + 1] = e
<1> DEFINE S == {s[i] : i \in DOMAIN s} \cup {e}
           t == Append(s, e)
<1>1. s \in Seq(S)
  <2>1. /\ Len(s) \in Nat /\ s = [i \in 1..Len(s) |-> s[i]] /\ DOMAIN s = 1..Len(s)
    OBVIOUS
  <2>2. \A i \in 1..Len(s) : s[i] \in S
    BY <2>1
  <2> QED
    BY <2>1, <2>2
<1>2. /\ t \in Seq(S) /\ Len(t) = Len(s) + 1 /\ t[Len(s) + 1] = e
      /\ \A i \in 1..Len(s) : t[i] = s[i]
  BY <1>1, AppendProperties
<1> HIDE DEF t, S
<1>3. /\ Len(s) \in Nat /\ DOMAIN s = 1..Len(s) /\ DOMAIN t = 1..(Len(s) + 1)
      /\ t = [i \in 1..(Len(s) + 1) |-> t[i]]
  BY <1>1, <1>2
<1>4. t \in Seq({t[i] : i \in DOMAIN t})
  <2>1. \A i \in 1..(Len(s) + 1) : t[i] \in {t[j] : j \in DOMAIN t}
    BY <1>3
  <2>2. Len(s) + 1 \in Nat
    BY <1>3
  <2> QED
    BY <1>2, <1>3, <2>1, <2>2
<1>5. t # <<>>
  BY <1>2, <1>3
<1> QED
  BY <1>2, <1>3, <1>4, <1>5 DEF t

\* The run goes on with what it holds.
LEMMA HeldAdvances ==
  ASSUME StageInv, UNCHANGED <<clock, feed, windows, openWitness, checkpoints>>,
         pc' \in {"open", "read", "seal", "sealed", "failed"},
         pc' = "open" => pc = "start",
         pc' \in {"read", "seal", "sealed"} /\ Enabled => pc \in {"read", "seal", "sealed"}
  PROVE  HeldInv'
<1>1. pc' = "open" => windows' = <<>> /\ checkpoints' = <<>> /\ openWitness' = {}
  BY DEF StageInv, HeldInv
<1>2. pc' \in {"read", "seal", "sealed"} /\ Enabled => Len(checkpoints') = Len(windows')
  BY DEF StageInv, HeldInv
<1>3. (pc \notin {"start", "open", "failed"} /\ Enabled =>
        Quorate(openWitness) /\ \A i \in DOMAIN checkpoints : Quorate(checkpoints[i]))'
  <2>1. pc' \notin {"start", "open", "failed"} /\ Enabled =>
          Quorate(openWitness) /\ \A i \in DOMAIN checkpoints : Quorate(checkpoints[i])
    BY DEF StageInv, HeldInv
  <2> QED
    BY <2>1 DEF Quorate, Enabled
<1>4. /\ (windows \in Seq({windows[i] : i \in DOMAIN windows}))'
      /\ (checkpoints \in Seq({checkpoints[i] : i \in DOMAIN checkpoints}))'
  BY DEF StageInv, HeldInv
<1> QED
  BY <1>1, <1>2, <1>3, <1>4, HeldSame DEF HeldInv, Enabled

LEMMA StageSubjects ==
  ASSUME StageInv
  PROVE  /\ OpenSubject \in SubjectType /\ SealSubject \in SubjectType
         /\ Len(windows) \in Nat /\ \A n \in Nat : CheckpointSubject(n) \in SubjectType
<1>1. Len(windows) \in Nat
  BY DEF StageInv, HeldInv
<1> QED
  BY <1>1 DEF OpenSubject, CheckpointSubject, SealSubject, Subject, SubjectType, WitnessSubjectKind

LEMMA StartKeepsStages ==
  ASSUME StageInv, Start
  PROVE  StageInv'
<1>1. HeldInv'
  BY HeldAdvances DEF Start, Ask, feedVars
<1>2. CallInv'
  <2>1. CASE Enabled
    <3>1. Ask(Run, OpenSubject) /\ pc' = "open"
      BY <2>1 DEF Start
    <3>2. AwaitedSubject' = OpenSubject
      BY <3>1 DEF AwaitedSubject, OpenSubject, Subject
    <3> QED
      BY <3>1, <3>2, StageSubjects, AskBeginsCall
  <2>2. CASE ~Enabled
    BY <2>2, NoCallAfter DEF Start, StageInv, CallInv
  <2> QED
    BY <2>1, <2>2
<1>3. SealInv'
  BY DEF Start, SealInv
<1> QED
  BY <1>1, <1>2, <1>3 DEF StageInv

LEMMA FailureKeepsStages ==
  ASSUME StageInv, QuorumShort \/ RunFails
  PROVE  StageInv'
<1>1. HeldInv'
  BY HeldAdvances DEF QuorumShort, RunFails, Returned, feedVars
<1>2. CallInv'
  BY NoCallAfter DEF QuorumShort, RunFails, StageInv, CallInv
<1>3. SealInv'
  BY DEF QuorumShort, RunFails, SealInv
<1> QED
  BY <1>1, <1>2, <1>3 DEF StageInv

\* What a quorum has answered holds of the stage it was asked for.
LEMMA QuorumHolds ==
  ASSUME StageInv, Returned(Run), QuorumReached(Run)
  PROVE  /\ UNCHANGED <<clock, feed>>
         /\ StageHolds(asks[Run].got, AwaitedSubject)
         /\ Quorate(asks[Run].got)
         /\ \A att \in asks[Run].got : NotBefore(LastStage, att.round)
<1>1. asks[Run].on /\ UNCHANGED <<clock, feed>>
  BY DEF Returned, Settled
<1> QED
  BY <1>1 DEF StageInv, CallInv, Quorate, QuorumReached

LEMMA OpenKeepsStages ==
  ASSUME StageInv, OpenWitnessed
  PROVE  StageInv'
<1> DEFINE got == asks[Run].got
<1>0. /\ pc = "open" /\ pc' = "read" /\ openWitness' = got /\ UNCHANGED <<windows, checkpoints, seal>>
      /\ Returned(Run) /\ QuorumReached(Run)
  BY DEF OpenWitnessed
<1>1. CallInv'
  BY <1>0, NoCallAfter
<1>2. SealInv'
  BY <1>0 DEF SealInv
<1>3. HeldInv'
  <2>1. /\ clock' \in Nat /\ windows = <<>> /\ checkpoints = <<>> /\ AwaitedSubject = OpenSubject
        /\ (windows \in Seq({windows[i] : i \in DOMAIN windows}))'
        /\ (checkpoints \in Seq({checkpoints[i] : i \in DOMAIN checkpoints}))'
    BY <1>0, QuorumHolds DEF StageInv, HeldInv, AwaitedSubject
  <2>2. StageHolds(openWitness, OpenSubject)'
    <3>1. \A att \in got : /\ att.witness \in Witness /\ att.subject = OpenSubject
                          /\ att.round \in 0..clock' /\ att \in Entries(att.witness)'
      BY <1>0, <2>1, QuorumHolds DEF StageHolds, Entries
    <3>2. OpenSubject' = OpenSubject
      BY DEF OpenSubject, Subject
    <3> QED
      BY <1>0, <3>1, <3>2 DEF StageHolds
  <2>3. Quorate(openWitness)'
    BY <1>0, QuorumHolds DEF Quorate
  <2>4. Len(checkpoints') = 0 /\ Len(windows') = 0 /\ DOMAIN checkpoints' = {}
    BY <1>0, <2>1
  <2> QED
    BY <1>0, <2>1, <2>2, <2>3, <2>4 DEF HeldInv
<1> QED
  BY <1>1, <1>2, <1>3 DEF StageInv

LEMMA ReadKeepsStages ==
  ASSUME StageInv, ReadBlock
  PROVE  StageInv'
<1>0. /\ pc = "read" /\ windows' = Append(windows, BatchTrials)
      /\ UNCHANGED <<clock, feed, openWitness, checkpoints, seal>>
      /\ windows \in Seq({windows[i] : i \in DOMAIN windows})
  BY DEF ReadBlock, Ask, feedVars, StageInv, HeldInv
<1>1. /\ Len(windows) \in Nat /\ Len(windows') = Len(windows) + 1
      /\ windows' \in Seq({windows'[i] : i \in DOMAIN windows'})
  BY <1>0, AppendOwn
<1>2. CallInv'
  <2>1. CASE Enabled
    <3>1. Ask(Run, CheckpointSubject(Len(windows) + 1)) /\ pc' = "checkpoint"
      BY <2>1 DEF ReadBlock
    <3>2. AwaitedSubject' = CheckpointSubject(Len(windows) + 1)
      BY <1>1, <3>1 DEF AwaitedSubject, CheckpointSubject, Subject
    <3>3. CheckpointSubject(Len(windows) + 1) \in SubjectType
      BY <1>1, StageSubjects
    <3> QED
      BY <3>1, <3>2, <3>3, AskBeginsCall
  <2>2. CASE ~Enabled
    BY <1>0, <2>2, NoCallAfter DEF ReadBlock, StageInv, CallInv
  <2> QED
    BY <2>1, <2>2
<1>3. pc' = IF Enabled THEN "checkpoint" ELSE "read"
  BY DEF ReadBlock
<1>4. SealInv'
  BY <1>3 DEF SealInv
<1>5. HeldInv'
  <2>1. Enabled => Len(checkpoints') + 1 = Len(windows')
    BY <1>0, <1>1 DEF StageInv, HeldInv
  <2>2. (pc \notin {"start", "open", "failed"} /\ Enabled =>
           Quorate(openWitness) /\ \A i \in DOMAIN checkpoints : Quorate(checkpoints[i]))'
    <3>1. Enabled => Quorate(openWitness) /\ \A i \in DOMAIN checkpoints : Quorate(checkpoints[i])
      BY <1>0 DEF StageInv, HeldInv
    <3> QED
      BY <1>0, <3>1 DEF Quorate, Enabled
  <2>3. (checkpoints \in Seq({checkpoints[i] : i \in DOMAIN checkpoints}))'
    BY <1>0 DEF StageInv, HeldInv
  <2>4. /\ pc' = "checkpoint" => Len(checkpoints') + 1 = Len(windows')
        /\ pc' \notin {"start", "open"}
        /\ pc' \in {"read", "seal", "sealed"} => ~Enabled
    BY <1>3, <2>1
  <2> QED
    BY <1>0, <1>1, <2>2, <2>3, <2>4, HeldSame DEF HeldInv, Enabled
<1> QED
  BY <1>2, <1>4, <1>5 DEF StageInv

LEMMA CheckpointKeepsStages ==
  ASSUME StageInv, CheckpointWitnessed
  PROVE  StageInv'
<1> DEFINE got == asks[Run].got
           n == Len(checkpoints)
<1>0. /\ pc = "checkpoint" /\ pc' = "read" /\ checkpoints' = Append(checkpoints, got)
      /\ Returned(Run) /\ QuorumReached(Run) /\ UNCHANGED <<windows, openWitness, seal>>
      /\ UNCHANGED <<clock, feed>> /\ n + 1 = Len(windows) /\ Len(windows) \in Nat
      /\ checkpoints \in Seq({checkpoints[i] : i \in DOMAIN checkpoints})
  BY QuorumHolds, StageSubjects DEF CheckpointWitnessed, StageInv, HeldInv
<1>1. /\ n \in Nat /\ DOMAIN checkpoints = 1..n
      /\ DOMAIN checkpoints' = 1..(n + 1) /\ Len(checkpoints') = n + 1 /\ checkpoints' # <<>>
      /\ checkpoints' \in Seq({checkpoints'[i] : i \in DOMAIN checkpoints'})
      /\ \A i \in 1..n : checkpoints'[i] = checkpoints[i]
      /\ checkpoints'[n + 1] = got
  BY <1>0, AppendOwn
<1>2. CallInv'
  BY <1>0, NoCallAfter
<1>3. SealInv'
  BY <1>0 DEF SealInv
<1>4. AwaitedSubject = CheckpointSubject(n + 1)
  BY <1>0 DEF AwaitedSubject
<1> HIDE DEF got, n
<1>5. \A i \in 1..(n + 1) : \A att \in checkpoints'[i] :
        /\ att.witness \in Witness /\ att.subject = CheckpointSubject(i)
        /\ att.round \in 0..clock' /\ att \in Entries(att.witness)'
  <2>1. \A i \in 1..n : StageHolds(checkpoints[i], CheckpointSubject(i))
    BY <1>1 DEF StageInv, HeldInv
  <2>2. StageHolds(checkpoints'[n + 1], CheckpointSubject(n + 1))
    BY <1>0, <1>1, <1>4, QuorumHolds DEF got
  <2>3. \A i \in 1..(n + 1) : i = n + 1 \/ i \in 1..n
    BY <1>1
  <2>4. \A i \in 1..(n + 1) : StageHolds(checkpoints'[i], CheckpointSubject(i))
    BY <1>1, <2>1, <2>2, <2>3
  <2>5. \A w : Entries(w)' = Entries(w)
    BY <1>0 DEF Entries
  <2>6. ASSUME NEW i \in 1..(n + 1), NEW att \in checkpoints'[i]
        PROVE  /\ att.witness \in Witness /\ att.subject = CheckpointSubject(i)
               /\ att.round \in 0..clock /\ att \in Entries(att.witness)
    BY <2>4 DEF StageHolds
  <2> QED
    BY <1>0, <2>5, <2>6
<1>6. (\A i \in DOMAIN checkpoints : StageHolds(checkpoints[i], CheckpointSubject(i)))'
  <2>1. \A i : CheckpointSubject(i)' = CheckpointSubject(i)
    BY DEF CheckpointSubject, Subject
  <2> QED
    BY <1>1, <1>5, <2>1 DEF StageHolds
<1>7. (Enabled => Quorate(openWitness) /\ \A i \in DOMAIN checkpoints : Quorate(checkpoints[i]))'
  <2>1. Quorate(got)
    BY <1>0, QuorumHolds DEF got
  <2>2. Enabled => Quorate(openWitness) /\ \A i \in 1..n : Quorate(checkpoints[i])
    BY <1>0, <1>1 DEF StageInv, HeldInv
  <2>3. \A i \in 1..(n + 1) : i = n + 1 \/ i \in 1..n
    BY <1>1
  <2>4. Enabled => Quorate(openWitness) /\ \A i \in 1..(n + 1) : Quorate(checkpoints'[i])
    BY <1>1, <2>1, <2>2, <2>3
  <2> QED
    BY <1>0, <1>1, <2>4 DEF Quorate, Enabled
<1>8. \A att \in got : NotBefore(LastStage, att.round)
  BY <1>0, QuorumHolds DEF got
<1>9. (\A att \in checkpoints[1] : NotBefore(openWitness, att.round))'
  <2>1. CASE checkpoints = <<>>
    <3>1. LastStage = openWitness /\ checkpoints'[1] = got
      BY <1>1, <2>1 DEF LastStage, n
    <3> QED
      BY <1>0, <1>8, <3>1 DEF NotBefore
  <2>2. CASE checkpoints # <<>>
    <3>1. 1 \in 1..n
      BY <1>0, <1>1, <2>2 DEF n
    <3>2. \A att \in checkpoints'[1] : NotBefore(openWitness, att.round)
      BY <1>1, <2>2, <3>1 DEF StageInv, HeldInv
    <3> QED
      BY <1>0, <3>2 DEF NotBefore
  <2> QED
    BY <2>1, <2>2
<1>10. (\A i \in 1..(Len(checkpoints) - 1) :
          \A att \in checkpoints[i+1] : NotBefore(checkpoints[i], att.round))'
  <2>1. ASSUME NEW i \in 1..n
        PROVE  \A att \in checkpoints'[i+1] : NotBefore(checkpoints'[i], att.round)
    <3>1. CASE i = n
      <4>1. checkpoints # <<>>
        BY <1>1 DEF n
      <4>2. LastStage = checkpoints'[i] /\ checkpoints'[i+1] = got
        BY <1>1, <3>1, <4>1 DEF LastStage, n
      <4> QED
        BY <1>8, <4>2
    <3>2. CASE i # n
      <4>1. i \in 1..(n - 1) /\ i + 1 \in 1..n
        BY <1>1, <3>2
      <4> QED
        BY <1>1, <4>1 DEF StageInv, HeldInv, n
    <3> QED
      BY <3>1, <3>2
  <2>2. Len(checkpoints') - 1 = n
    BY <1>1
  <2> QED
    BY <2>1, <2>2 DEF NotBefore
<1>11. StageHolds(openWitness, OpenSubject)' /\ clock' \in Nat
  <2>1. \A att \in openWitness : /\ att.witness \in Witness /\ att.subject = OpenSubject
                                 /\ att.round \in 0..clock' /\ att \in Entries(att.witness)'
    BY <1>0 DEF StageInv, HeldInv, StageHolds, Entries
  <2>2. OpenSubject' = OpenSubject
    BY DEF OpenSubject, Subject
  <2> QED
    BY <1>0, <2>1, <2>2 DEF StageHolds, StageInv, HeldInv
<1>12. HeldInv'
  <2>1. (windows \in Seq({windows[i] : i \in DOMAIN windows}))'
    BY <1>0 DEF StageInv, HeldInv
  <2> QED
    BY <1>0, <1>1, <1>6, <1>7, <1>9, <1>10, <1>11, <2>1 DEF HeldInv
<1> QED
  BY <1>2, <1>3, <1>12 DEF StageInv

LEMMA AskSealKeepsStages ==
  ASSUME StageInv, AskSeal
  PROVE  StageInv'
<1>0. pc = "read" /\ UNCHANGED <<clock, feed, windows, openWitness, checkpoints>>
  BY DEF AskSeal, Ask, feedVars
<1>1. HeldInv'
  BY <1>0, HeldAdvances DEF AskSeal
<1>2. CASE Enabled
  <2>1. Ask(Run, SealSubject) /\ pc' = "seal"
    BY <1>2 DEF AskSeal
  <2>2. AwaitedSubject' = SealSubject
    BY <1>0, <2>1 DEF AwaitedSubject, SealSubject, Subject
  <2>3. CallInv'
    BY <2>1, <2>2, StageSubjects, AskBeginsCall
  <2>4. SealInv'
    BY <2>1 DEF SealInv
  <2> QED
    BY <1>1, <2>3, <2>4 DEF StageInv
<1>3. CASE ~Enabled
  <2>1. UNCHANGED feedVars /\ pc' = "sealed" /\ seal' = Payload({})
    BY <1>3 DEF AskSeal
  <2>2. CallInv'
    BY <1>0, <2>1, NoCallAfter DEF StageInv, CallInv
  <2>3. SealInv'
    BY <1>0, <1>3, <2>1 DEF SealInv, Payload, StageHolds, Enabled
  <2> QED
    BY <1>1, <2>2, <2>3 DEF StageInv
<1> QED
  BY <1>2, <1>3

LEMMA SealKeepsStages ==
  ASSUME StageInv, SealWitnessed
  PROVE  StageInv'
<1> DEFINE got == asks[Run].got
<1>0. /\ pc = "seal" /\ pc' \in {"sealed", "failed"} /\ Returned(Run) /\ QuorumReached(Run)
      /\ UNCHANGED <<clock, feed, windows, openWitness, checkpoints>>
      /\ pc' = "sealed" => seal' = Payload(got)
  BY QuorumHolds DEF SealWitnessed
<1>1. HeldInv'
  BY <1>0, HeldAdvances
<1>2. CallInv'
  BY <1>0, NoCallAfter
<1>3. /\ AwaitedSubject = SealSubject /\ SealSubject' = SealSubject /\ LastStage' = LastStage
  BY <1>0 DEF AwaitedSubject, SealSubject, Subject, LastStage
<1>4. /\ Quorate(got) /\ StageHolds(got, SealSubject)
      /\ \A att \in got : NotBefore(LastStage, att.round)
  BY <1>0, <1>3, QuorumHolds
<1>5. SealInv'
  <2>1. CASE pc' = "sealed"
    <3>1. /\ seal'.openWitness = openWitness' /\ seal'.checkpoints = checkpoints'
          /\ seal'.sealWitness = got
      BY <1>0, <2>1 DEF Payload
    <3> HIDE DEF got
    <3>2. \A w : Entries(w)' = Entries(w)
      BY <1>0 DEF Entries
    <3>3. StageHolds(seal.sealWitness, SealSubject)'
      BY <1>0, <1>3, <1>4, <3>1, <3>2 DEF StageHolds
    <3>4. Quorate(seal.sealWitness)' /\ (\A att \in seal.sealWitness : NotBefore(LastStage, att.round))'
      BY <1>3, <1>4, <3>1 DEF Quorate, NotBefore
    <3> QED
      BY <3>1, <3>3, <3>4 DEF SealInv
  <2>2. CASE pc' # "sealed"
    BY <2>2 DEF SealInv
  <2> QED
    BY <2>1, <2>2
<1> QED
  BY <1>1, <1>2, <1>5 DEF StageInv

LEMMA StageInvAlways == Spec => [](StageInv /\ FeedInv)
<1>1. Init => StageInv
  <2>1. SUFFICES ASSUME Init
                 PROVE  StageInv
    OBVIOUS
  <2>2. /\ clock = 0 /\ requests = {} /\ pc = "start" /\ windows = <<>> /\ openWitness = {}
        /\ checkpoints = <<>> /\ asks = [a \in Asker |-> Idle]
    BY <2>1 DEF Init, FeedInit
  <2>3. Idle \in CallType /\ ~Idle.on
    BY DEF Idle, CallType
  <2>4. CallInv
    BY <2>2, <2>3, RunIsAsker DEF CallInv
  <2>5. HeldInv
    BY <2>2 DEF HeldInv, StageHolds
  <2> QED
    BY <2>2, <2>4, <2>5 DEF StageInv, SealInv
<1>2. StageInv /\ FeedInv /\ [Next]_vars => StageInv'
  <2>1. ASSUME StageInv, RunStep
        PROVE  StageInv'
    BY <2>1, StartKeepsStages, FailureKeepsStages, OpenKeepsStages, ReadKeepsStages,
       CheckpointKeepsStages, AskSealKeepsStages, SealKeepsStages DEF RunStep
  <2>2. ASSUME StageInv, UNCHANGED vars
        PROVE  StageInv'
    <3>1. /\ UNCHANGED runVars /\ UNCHANGED <<requests, asks>> /\ clock' \in Nat /\ clock' >= clock
          /\ \A w \in Witness : Entries(w) \subseteq Entries(w)'
      BY <2>2 DEF vars, feedVars, Entries, StageInv, HeldInv
    <3> QED
      BY <2>2, <3>1, CallStays, HeldStays DEF StageInv
  <2> QED
    BY <2>1, <2>2, WitnessesKeepStages DEF Next
<1> QED
  BY <1>1, <1>2, FeedInvAlways, PTL DEF Spec

-----------------------------------------------------------------------------
(* What the stages held say.                                                 *)

\* The stages of a session in a row, with the seal's and without.
LEMMA StagesInARow ==
  ASSUME NEW s, s \in Seq({s[i] : i \in DOMAIN s}), NEW a, NEW b
  PROVE  LET all == <<a>> \o s \o <<b>>
             some == <<a>> \o s \o <<>>
             n == Len(s)
         IN /\ n \in Nat /\ DOMAIN s = 1..n /\ Len(all) = n + 2 /\ DOMAIN all = 1..(n + 2)
            /\ all[1] = a /\ all[n + 2] = b
            /\ \A i \in 1..n : all[i + 1] = s[i]
            /\ Len(some) = n + 1 /\ some[1] = a /\ \A i \in 1..n : some[i + 1] = s[i]
<1> DEFINE S == {s[i] : i \in DOMAIN s} \cup {a, b}
           t == <<a>> \o s
           all == t \o <<b>>
           some == t \o <<>>
           n == Len(s)
<1>1. /\ n \in Nat /\ DOMAIN s = 1..n /\ s \in Seq(S)
  <2>1. /\ Len(s) \in Nat /\ s = [i \in 1..Len(s) |-> s[i]] /\ DOMAIN s = 1..Len(s)
    OBVIOUS
  <2>2. \A i \in 1..Len(s) : s[i] \in S
    BY <2>1
  <2> QED
    BY <2>1, <2>2
<1>2. <<a>> \in Seq(S) /\ <<b>> \in Seq(S) /\ Len(<<a>>) = 1 /\ Len(<<b>>) = 1
  OBVIOUS
<1>3. /\ t \in Seq(S) /\ Len(t) = n + 1 /\ t[1] = a
      /\ \A i \in 1..n : t[i + 1] = s[i]
  BY <1>1, <1>2, ConcatProperties
<1> HIDE DEF t
<1>4. /\ all \in Seq(S) /\ Len(all) = n + 2 /\ all[n + 2] = b
      /\ \A i \in 1..(n + 1) : all[i] = t[i]
  BY <1>1, <1>2, <1>3, ConcatProperties
<1>5. DOMAIN all = 1..(n + 2)
  BY <1>1, <1>4
<1>6. all[1] = a /\ \A i \in 1..n : all[i + 1] = s[i]
  BY <1>1, <1>3, <1>4
<1>7. some = t
  BY <1>3, ConcatEmptySeq
<1> HIDE DEF some, all
<1> QED
  BY <1>1, <1>3, <1>4, <1>5, <1>6, <1>7 DEF t, some, all

LEMMA StageInvSuffices == StageInv => SealMatchesFeeds /\ RoundsAscend
<1> SUFFICES ASSUME StageInv
             PROVE  SealMatchesFeeds /\ RoundsAscend
  OBVIOUS
<1> DEFINE n == Len(checkpoints)
<1>1. /\ checkpoints \in Seq({checkpoints[i] : i \in DOMAIN checkpoints})
      /\ n \in Nat /\ DOMAIN checkpoints = 1..n
  BY StagesInARow DEF StageInv, HeldInv
<1>2. SealMatchesFeeds
  <2> SUFFICES ASSUME pc = "sealed", Enabled
               PROVE  /\ Len(seal.checkpoints) = Len(windows)
                      /\ \A i \in DOMAIN SealedStages :
                           /\ Quorate(SealedStages[i])
                           /\ \A att \in SealedStages[i] :
                                att.subject = StageSubject(i) /\ att \in Entries(att.witness)
    BY DEF SealMatchesFeeds, Quorate
  <2>1. /\ seal.openWitness = openWitness /\ seal.checkpoints = checkpoints
        /\ n = Len(windows)
        /\ Quorate(openWitness) /\ \A i \in 1..n : Quorate(checkpoints[i])
        /\ Quorate(seal.sealWitness)
    BY <1>1 DEF StageInv, HeldInv, SealInv
  <2>2. /\ DOMAIN SealedStages = 1..(n + 2) /\ Len(SealedStages) = n + 2
        /\ SealedStages[1] = openWitness /\ SealedStages[n + 2] = seal.sealWitness
        /\ \A i \in 1..n : SealedStages[i + 1] = checkpoints[i]
    BY <1>1, <2>1, StagesInARow DEF SealedStages
  <2>3. /\ StageHolds(openWitness, OpenSubject) /\ StageHolds(seal.sealWitness, SealSubject)
        /\ \A i \in 1..n : StageHolds(checkpoints[i], CheckpointSubject(i))
    BY <1>1 DEF StageInv, HeldInv, SealInv
  <2> HIDE DEF n
  <2>4. ASSUME NEW i \in 1..(n + 2)
        PROVE  Quorate(SealedStages[i]) /\ StageHolds(SealedStages[i], StageSubject(i))
    <3>1. CASE i = 1
      BY <2>1, <2>2, <2>3, <3>1 DEF StageSubject
    <3>2. CASE i = n + 2
      BY <1>1, <2>1, <2>2, <2>3, <3>2 DEF StageSubject
    <3>3. CASE i # 1 /\ i # n + 2
      <4>1. i - 1 \in 1..n /\ (i - 1) + 1 = i
        BY <1>1, <3>3
      <4>2. SealedStages[i] = checkpoints[i - 1]
        BY <2>2, <4>1
      <4> QED
        BY <2>1, <2>2, <2>3, <3>3, <4>1, <4>2 DEF StageSubject
    <3> QED
      BY <3>1, <3>2, <3>3
  <2> QED
    BY <2>1, <2>2, <2>4 DEF StageHolds, n
<1>3. RoundsAscend
  <2> DEFINE stages == <<openWitness>> \o checkpoints \o
                         IF pc = "sealed" THEN <<seal.sealWitness>> ELSE <<>>
  <2>1. SUFFICES ASSUME NEW i \in 1..(Len(stages) - 1)
                 PROVE  \A later \in stages[i+1] : NotBefore(stages[i], later.round)
    BY DEF RoundsAscend, NotBefore
  <2>2. /\ Len(stages) = IF pc = "sealed" THEN n + 2 ELSE n + 1
        /\ stages[1] = openWitness /\ \A j \in 1..n : stages[j + 1] = checkpoints[j]
        /\ pc = "sealed" => stages[n + 2] = seal.sealWitness
    BY <1>1, StagesInARow
  <2> HIDE DEF stages
  <2>3. n # 0 => \A later \in checkpoints[1] : NotBefore(openWitness, later.round)
    BY DEF StageInv, HeldInv
  <2>4. \A j \in 1..(n - 1) : \A later \in checkpoints[j + 1] : NotBefore(checkpoints[j], later.round)
    BY DEF StageInv, HeldInv
  <2>5. stages[n + 1] = LastStage
    <3>1. CASE checkpoints = <<>>
      BY <2>2, <3>1 DEF LastStage
    <3>2. CASE checkpoints # <<>>
      <4>1. n \in 1..n
        BY <1>1, <3>2
      <4> QED
        BY <2>2, <3>2, <4>1 DEF LastStage
    <3> QED
      BY <3>1, <3>2
  <2>6. pc = "sealed" => \A later \in seal.sealWitness : NotBefore(LastStage, later.round)
    BY DEF StageInv, SealInv
  <2> HIDE DEF n
  <2>7. CASE i = n + 1
    BY <1>1, <2>1, <2>2, <2>5, <2>6, <2>7
  <2>8. CASE i \in 1..n
    <3>1. CASE i = 1
      BY <1>1, <2>2, <2>3, <2>8, <3>1
    <3>2. CASE i # 1
      <4>1. i - 1 \in 1..(n - 1) /\ (i - 1) + 1 = i /\ i - 1 \in 1..n
        BY <1>1, <2>8, <3>2
      <4>2. stages[i] = checkpoints[i - 1] /\ stages[i + 1] = checkpoints[i]
        BY <2>2, <2>8, <4>1
      <4> QED
        BY <2>4, <4>1, <4>2
    <3> QED
      BY <3>1, <3>2
  <2> QED
    BY <1>1, <2>1, <2>2, <2>7, <2>8
<1> QED
  BY <1>2, <1>3

\* PSI-WITNESS-2 and 3: whatever answers come late, twice or not at all, and
\* whatever witnesses restart, every stage a seal carries was co-signed by a
\* quorum, of that stage's subject, and is in the feeds.
THEOREM SealsAlwaysMatchFeeds == Spec => []SealMatchesFeeds
BY StageInvAlways, StageInvSuffices, PTL

\* Each stage of a run was co-signed at a beacon round that is no earlier than
\* any round of the stage before.
THEOREM RoundsAlwaysAscend == Spec => []RoundsAscend
BY StageInvAlways, StageInvSuffices, PTL
=============================================================================

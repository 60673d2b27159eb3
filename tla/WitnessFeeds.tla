---------------------------- MODULE WitnessFeeds ----------------------------
(***************************************************************************)
(* Live witnesses: the client of packages/server/src/witnessClient.ts, the *)
(* service of packages/witness/src (witnessServer.ts, witnessFeed.ts) and  *)
(* the public beacon both sides read.  A server process asks every         *)
(* configured url to co-sign a subject and waits until each call is        *)
(* answered, refused or timed out.                                         *)
(*                                                                         *)
(* A subject is a record [kind, body, target]: body stands for the hash,   *)
(* target is the claimed target round of a choice, NoTarget otherwise.     *)
(* The modules of the runs (MicroPk, Precog) say who asks and when.        *)
(***************************************************************************)
EXTENDS Integers, Sequences, FiniteSets

CONSTANTS
  Witness,     \* witness processes: one key and one feed each
  Url,         \* the configured urls
  WitnessOf,   \* the process behind each url
  Threshold,   \* WitnessClient.threshold; 0 when no url is configured
  Asker,       \* calls of attestQuorum that may be in flight at once
  MaxRound,    \* bound: beacon rounds published
  MaxMissed,   \* bound: requests that time out, are lost, or find no beacon
  MaxFaults,   \* bound: feed writes that fail
  MaxStamps,   \* bound: time-stamps that are awaited or kept
  MaxEntry     \* bound: the last feed entry that may be stamped or fail to be written

\* selectWitnessClient clamps what is asked for to 1..urls.length.
Thresholds == IF Url = {} THEN {0} ELSE 1..Cardinality(Url)

ASSUME WitnessAssumption ==
  /\ IsFiniteSet(Witness) /\ IsFiniteSet(Url)
  /\ WitnessOf \in [Url -> Witness]
  /\ Threshold \in Thresholds
  /\ MaxRound \in Nat /\ MaxMissed \in Nat /\ MaxFaults \in Nat /\ MaxStamps \in Nat
  /\ MaxEntry \in Nat

VARIABLES
  clock,       \* the newest published beacon round
  feed,        \* each witness's feed file: a sequence of attestations
  feedHead,    \* each WitnessFeed.head
  requests,    \* attest requests that a witness has not finished with
  asks,        \* attestQuorum per asker: its subject, who it waits for, what it got
  missed,      \* requests that came to nothing so far
  unwritten,   \* history: attestations whose write to the feed has thrown
  stamping,    \* stampHead calls that await the time-stamping authority
  stamps       \* the lines of the stamps files

stampVars == <<stamping, stamps>>
feedVars == <<clock, feed, feedHead, requests, asks, missed, unwritten, stampVars>>

NoTarget == -1

Genesis == [seq |-> 0]

Enabled == Threshold > 0

Idle == [on |-> FALSE, subject |-> {}, waiting |-> {}, got |-> {}]

FeedInit ==
  /\ clock = 0
  /\ feed = [w \in Witness |-> <<>>]
  /\ feedHead = [w \in Witness |-> Genesis]
  /\ requests = {}
  /\ asks = [a \in Asker |-> Idle]
  /\ missed = 0
  /\ unwritten = {}
  /\ stamping = {}
  /\ stamps = {}

-----------------------------------------------------------------------------
(* The client.                                                               *)

\* attest: one POST per url, Promise.allSettled over them.
Ask(a, subject) ==
  /\ ~asks[a].on
  /\ asks' = [asks EXCEPT ![a] = [on |-> TRUE, subject |-> {subject}, waiting |-> Url, got |-> {}]]
  /\ requests' = requests \cup
       {[asker |-> a, url |-> u, subject |-> subject, read |-> FALSE, since |-> 0, live |-> TRUE] : u \in Url}
  /\ UNCHANGED <<clock, feed, feedHead, missed, unwritten, stampVars>>

\* Variant: the call returns only when every witness has answered it.
AllFulfilled(a) == asks[a].on /\ Cardinality(asks[a].got) = Cardinality(Url)

Settled(a) == asks[a].on /\ asks[a].waiting = {}

\* Variant: every answer counts, whoever signed it.
AnswersReached(a) == Cardinality(asks[a].got) >= Threshold

\* attestQuorum counts distinct keys.
QuorumReached(a) == Cardinality({att.witness : att \in asks[a].got}) >= Threshold

\* attestQuorum returns, or throws.
Returned(a) ==
  /\ Settled(a)
  /\ asks' = [asks EXCEPT ![a] = Idle]
  /\ UNCHANGED <<clock, feed, feedHead, requests, missed, unwritten, stampVars>>

\* Variant: an answer that comes after its time-out is still taken.
LateAnswersToo(q, atts) ==
  asks' = [asks EXCEPT ![q.asker].waiting = @ \ {q.url}, ![q.asker].got = @ \cup atts]

\* The call of request q is over with the answers atts; a call that timed out
\* takes no answer any more.
Answered(q, atts) ==
  asks' = IF q.live
          THEN [asks EXCEPT ![q.asker].waiting = @ \ {q.url}, ![q.asker].got = @ \cup atts]
          ELSE asks

\* AbortSignal.timeout: the client gives up, the witness does not know.
TimeOut(q) ==
  /\ q.live
  /\ missed < MaxMissed
  /\ missed' = missed + 1
  /\ Answered(q, {})
  /\ requests' = (requests \ {q}) \cup {[q EXCEPT !.live = FALSE]}
  /\ UNCHANGED <<clock, feed, feedHead, unwritten, stampVars>>

\* No connection, or a beacon that fails: no answer.
Miss(q) ==
  /\ missed < MaxMissed
  /\ missed' = missed + 1
  /\ Answered(q, {})
  /\ requests' = requests \ {q}
  /\ UNCHANGED <<clock, feed, feedHead, unwritten, stampVars>>

-----------------------------------------------------------------------------
(* The witness: handleAttest awaits its body, then its own beacon.           *)

\* The body is read and the beacon is asked for its latest round.
ReadRequest(q) ==
  /\ ~q.read
  /\ requests' = (requests \ {q}) \cup {[q EXCEPT !.read = TRUE, !.since = clock]}
  /\ UNCHANGED <<clock, feed, feedHead, asks, missed, unwritten, stampVars>>

\* Variant: a pulse that was fetched before, for another request.
CachedRounds(q) == 0..clock

\* The pulse that comes back was the latest at some time since it was asked for.
PulseRounds(q) == q.since..clock

\* The target round is already public.
AlreadyPublic(q, round) == q.subject.target # NoTarget /\ round >= q.subject.target

Refuse(q) ==
  /\ q.read
  /\ \E round \in PulseRounds(q) : AlreadyPublic(q, round)
  /\ Answered(q, {})
  /\ requests' = requests \ {q}
  /\ UNCHANGED <<clock, feed, feedHead, missed, unwritten, stampVars>>

Attestation(q, round) ==
  [witness |-> WitnessOf[q.url], subject |-> q.subject, round |-> round,
   seq |-> feedHead[WitnessOf[q.url]].seq + 1]

\* Sign and append in one step: there is no await after the pulse.
CoSign(q) ==
  /\ q.read
  /\ \E round \in PulseRounds(q) :
       /\ ~AlreadyPublic(q, round)
       /\ feed' = [feed EXCEPT ![WitnessOf[q.url]] = Append(@, Attestation(q, round))]
       /\ feedHead' = [feedHead EXCEPT ![WitnessOf[q.url]] = Attestation(q, round)]
       /\ Answered(q, {Attestation(q, round)})
  /\ requests' = requests \ {q}
  /\ UNCHANGED <<clock, missed, unwritten, stampVars>>

\* appendFileSync throws after the head has moved: 400.
FeedFails(q) ==
  /\ q.read
  /\ Cardinality(unwritten) < MaxFaults
  /\ feedHead[WitnessOf[q.url]].seq < MaxEntry
  /\ \E round \in PulseRounds(q) :
       /\ ~AlreadyPublic(q, round)
       /\ feedHead' = [feedHead EXCEPT ![WitnessOf[q.url]] = Attestation(q, round)]
       /\ unwritten' = unwritten \cup {Attestation(q, round)}
  /\ Answered(q, {})
  /\ requests' = requests \ {q}
  /\ UNCHANGED <<clock, feed, missed, stampVars>>

\* Variant: a restarted feed goes on from its first line.
FirstLine(w) == IF feed[w] = <<>> THEN Genesis ELSE feed[w][1]

\* The constructor of WitnessFeed takes the last line for its head.
LastLine(w) == IF feed[w] = <<>> THEN Genesis ELSE feed[w][Len(feed[w])]

\* The process starts again: its handlers and the stamps it awaits are gone, its
\* head is the last line.
WitnessRestarts(w) ==
  LET lost == {q \in requests : WitnessOf[q.url] = w}
      LostUrls(a) == {q.url : q \in {r \in lost : r.live /\ r.asker = a}}
  IN /\ missed < MaxMissed
     /\ missed' = missed + 1
     /\ requests' = requests \ lost
     /\ asks' = [a \in Asker |-> [asks[a] EXCEPT !.waiting = @ \ LostUrls(a)]]
     /\ feedHead' = [feedHead EXCEPT ![w] = LastLine(w)]
     /\ stamping' = {s \in stamping : s.witness # w}
     /\ UNCHANGED <<clock, feed, unwritten, stamps>>

-----------------------------------------------------------------------------
(* Time-stamps: now and then a witness has its head stamped.                 *)

\* stampHead up to its await of requestTimestamp.
StampHead(w) ==
  /\ Cardinality(stamping) + Cardinality(stamps) < MaxStamps
  /\ feedHead[w] # Genesis
  /\ feedHead[w].seq <= MaxEntry
  /\ stamping' = stamping \cup {[witness |-> w, head |-> feedHead[w]]}
  /\ UNCHANGED <<clock, feed, feedHead, requests, asks, missed, unwritten, stamps>>

\* Variant: the head is looked up again once the token is there.
HeadByThen(s) == feedHead[s.witness]

\* The head that the token is filed under: the one that was sent to be stamped.
NamedHead(s) == s.head

\* A line of the stamps file, with the token over the digest that was sent.
StampLine(s) ==
  [witness |-> s.witness, feedSeq |-> NamedHead(s).seq, headHash |-> NamedHead(s), token |-> s.head]

\* The token arrives, and a line goes to the stamps file.
StampEnds(s) ==
  /\ stamping' = stamping \ {s}
  /\ stamps' = stamps \cup {StampLine(s)}
  /\ UNCHANGED <<clock, feed, feedHead, requests, asks, missed, unwritten>>

\* No token, or no file for it: the failure is swallowed.
StampFails(s) ==
  /\ stamping' = stamping \ {s}
  /\ UNCHANGED <<clock, feed, feedHead, requests, asks, missed, unwritten, stamps>>

-----------------------------------------------------------------------------

\* The beacon publishes its next round.
Tick ==
  /\ clock < MaxRound
  /\ clock' = clock + 1
  /\ UNCHANGED <<feed, feedHead, requests, asks, missed, unwritten, stampVars>>

Serve(q) == ReadRequest(q) \/ Refuse(q) \/ CoSign(q)

WitnessStep ==
  \/ \E q \in requests : Serve(q) \/ TimeOut(q) \/ Miss(q) \/ FeedFails(q)
  \/ \E w \in Witness : WitnessRestarts(w) \/ StampHead(w)
  \/ \E s \in stamping : StampEnds(s) \/ StampFails(s)
  \/ Tick

-----------------------------------------------------------------------------
(* What the feeds say.                                                       *)

Entries(w) == {feed[w][i] : i \in DOMAIN feed[w]}

CoSigners(subject) == {w \in Witness : \E att \in Entries(w) : att.subject = subject}

WitnessSubjectKind == {"open", "checkpoint", "choice", "seal"}

IsAttestation(att) ==
  /\ att.witness \in Witness
  /\ att.subject.kind \in WitnessSubjectKind
  /\ att.round \in 0..clock
  /\ att.seq \in Nat \ {0}

\* A quorum of feeds holds a co-signature of the subject.
CoSigned(subject) == Cardinality(CoSigners(subject)) >= Threshold

\* witnessFeed.ts "so a verifier can bind a token to a feed prefix": whatever was
\* co-signed, lost or restarted while the authority was asked, a line of the stamps
\* file names the head that its token is over; and unless the write of that very
\* entry has failed, a verifier who looks the number up in the feed finds that
\* entry there and no other.
StampsBind ==
  \A stamp \in stamps :
    /\ stamp.token = stamp.headHash
    /\ \/ stamp.headHash \in unwritten
       \/ {att \in Entries(stamp.witness) : att.seq = stamp.feedSeq} = {stamp.headHash}

\* A feed numbers its entries upwards through restarts and failed writes, so a
\* feedSeq in a seal names one entry.
FeedsAscend ==
  \A w \in Witness : \A i, j \in DOMAIN feed[w] : i < j => feed[w][i].seq < feed[w][j].seq

\* What a head may be: an entry of the feed, or one whose write has failed.
WasHead(w, att) == att \in Entries(w) \cup unwritten

\* The head is never behind the file, and it is in it unless its write has failed.
HeadFits(w) ==
  /\ feed[w] \in Seq(Entries(w))
  /\ feedHead[w].seq \in Nat
  /\ \A att \in Entries(w) : att.seq \in 1..feedHead[w].seq
  /\ \A i, j \in DOMAIN feed[w] : i < j => feed[w][i].seq < feed[w][j].seq
  /\ feedHead[w] = Genesis \/ WasHead(w, feedHead[w])

\* What was or is being stamped has been a head.
StampsFit ==
  /\ \A s \in stamping : s.witness \in Witness /\ WasHead(s.witness, s.head)
  /\ \A stamp \in stamps :
       /\ stamp.witness \in Witness /\ WasHead(stamp.witness, stamp.headHash)
       /\ stamp.token = stamp.headHash /\ stamp.feedSeq = stamp.headHash.seq

\* Inductive: implies FeedsAscend and StampsBind.
FeedInv ==
  /\ feed = [w \in Witness |-> feed[w]]
  /\ feedHead = [w \in Witness |-> feedHead[w]]
  /\ \A q \in requests : "url" \in DOMAIN q /\ q.url \in Url
  /\ \A w \in Witness : HeadFits(w)
  /\ StampsFit

\* A co-signature of the subject, in the feed that it names, made before the
\* target of the subject was public.
Attests(att, subject) ==
  /\ att.witness \in Witness
  /\ att.subject = subject
  /\ att.round \in 0..clock
  /\ att.seq \in Nat \ {0}
  /\ att \in Entries(att.witness)
  /\ subject.target # NoTarget => att.round < subject.target

\* A request that its client still waits for is of the subject of the call, and
\* the only one of its url; so whatever a call has got is of its subject.
\* Inductive with FeedInv.
CallsInv ==
  /\ clock \in Nat
  /\ asks = [a \in Asker |-> asks[a]]
  /\ \A a \in Asker : /\ DOMAIN asks[a] = DOMAIN Idle
                      /\ \A subject \in asks[a].subject, att \in asks[a].got : Attests(att, subject)
  /\ \A q \in requests :
       /\ DOMAIN q = {"asker", "url", "subject", "read", "since", "live"}
       /\ q.asker \in Asker /\ q.url \in Url /\ q.since \in 0..clock
       /\ q.subject.target \in Int
       /\ q.live => /\ asks[q.asker].on /\ asks[q.asker].subject = {q.subject}
                    /\ q.url \in asks[q.asker].waiting
  /\ \A q, r \in requests :
       q.live /\ r.live /\ q.asker = r.asker /\ q.url = r.url => q = r

\* The co-signature that request q may still bring its call.
MayBring(q, att) ==
  /\ q.live /\ q.read
  /\ att.subject = q.subject
  /\ att.round \in PulseRounds(q)
=============================================================================

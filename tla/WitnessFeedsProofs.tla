------------------------- MODULE WitnessFeedsProofs -------------------------
(***************************************************************************)
(* FeedInv of module WitnessFeeds holds whatever witnesses, clients and    *)
(* time-stamps do, for any number of witnesses, urls, faults and restarts. *)
(***************************************************************************)
EXTENDS WitnessFeeds, SequenceTheorems, TLAPS

LEMMA FeedInvStart == FeedInit => FeedInv
BY DEF FeedInit, FeedInv, HeadFits, StampsFit, Entries, Genesis

\* Calls come and go and nothing is written.
LEMMA FeedsUntouched ==
  ASSUME FeedInv, UNCHANGED <<feed, feedHead, unwritten, stamps>>,
         stamping' \subseteq stamping,
         \A q \in requests' : "url" \in DOMAIN q /\ q.url \in Url
  PROVE  FeedInv'
BY DEF FeedInv, HeadFits, StampsFit, WasHead, Entries

\* Feeds and failures are only added to, so what was a head has been one for good.
LEMMA StampsStay ==
  ASSUME StampsFit, stamping' \subseteq stamping, UNCHANGED stamps,
         \A w \in Witness : Entries(w) \subseteq Entries(w)',
         unwritten \subseteq unwritten'
  PROVE  StampsFit'
BY DEF StampsFit, WasHead

LEMMA AskKeepsFeeds ==
  ASSUME FeedInv, NEW a, NEW subject, Ask(a, subject) \/ Returned(a)
  PROVE  FeedInv'
<1>1. CASE Ask(a, subject)
  <2>1. \A q \in requests' : "url" \in DOMAIN q /\ q.url \in Url
    BY <1>1 DEF Ask, FeedInv
  <2>2. UNCHANGED <<feed, feedHead, unwritten, stamping, stamps>>
    BY <1>1 DEF Ask, stampVars
  <2> QED
    BY <2>1, <2>2, FeedsUntouched
<1>2. CASE Returned(a)
  BY <1>2, FeedsUntouched DEF Returned, FeedInv, stampVars
<1> QED
  BY <1>1, <1>2

\* An entry that continues the head goes to the file.
LEMMA AppendFits ==
  ASSUME NEW w \in Witness, HeadFits(w), NEW att, att.seq = feedHead[w].seq + 1,
         feed'[w] = Append(feed[w], att), feedHead'[w] = att
  PROVE  HeadFits(w)' /\ Entries(w)' = Entries(w) \cup {att}
<1> DEFINE n == Len(feed[w])
           S == Entries(w) \cup {att}
<1>1. feed[w] \in Seq(S) /\ n \in Nat /\ DOMAIN feed[w] = 1..n
  BY DEF HeadFits
<1>2. /\ feed'[w] \in Seq(S) /\ Len(feed'[w]) = n + 1
      /\ feed'[w][n + 1] = att
      /\ \A i \in 1..n : feed'[w][i] = feed[w][i]
  BY <1>1, AppendProperties
<1>3. DOMAIN feed'[w] = 1..(n + 1)
  BY <1>1, <1>2
<1>4. Entries(w)' = S
  BY <1>1, <1>2, <1>3 DEF Entries
<1>5. /\ feedHead[w].seq \in Nat
      /\ \A i \in 1..n : feed[w][i].seq \in 1..feedHead[w].seq
      /\ \A i, j \in 1..n : i < j => feed[w][i].seq < feed[w][j].seq
  BY <1>1 DEF HeadFits, Entries
<1>6. \A e \in S : e.seq \in 1..att.seq
  BY <1>1, <1>5 DEF HeadFits
<1>7. ASSUME NEW i \in 1..(n + 1), NEW j \in 1..(n + 1), i < j
      PROVE  feed'[w][i].seq < feed'[w][j].seq
  <2>1. CASE j = n + 1
    BY <1>1, <1>2, <1>5, <1>7, <2>1
  <2>2. CASE j # n + 1
    BY <1>1, <1>2, <1>5, <1>7, <2>2
  <2> QED
    BY <2>1, <2>2
<1>8. att.seq \in Nat
  BY <1>5
<1> QED
  BY <1>2, <1>3, <1>4, <1>6, <1>7, <1>8 DEF HeadFits, WasHead

LEMMA WitnessOfRequest ==
  ASSUME FeedInv, NEW q \in requests
  PROVE  WitnessOf[q.url] \in Witness
BY WitnessAssumption DEF FeedInv

LEMMA CoSignKeepsFeeds ==
  ASSUME FeedInv, NEW q \in requests, CoSign(q)
  PROVE  /\ FeedInv'
         /\ \A v \in Witness : Entries(v) \subseteq Entries(v)'
         /\ \E round \in PulseRounds(q) :
              /\ Answered(q, {Attestation(q, round)})
              /\ Attestation(q, round) \in Entries(WitnessOf[q.url])'
              /\ \A v \in Witness : \A att \in Entries(v)' :
                   att \in Entries(v) \/ (v = WitnessOf[q.url] /\ att = Attestation(q, round))
<1> DEFINE w == WitnessOf[q.url]
<1>1. w \in Witness
  BY WitnessOfRequest
<1>2. PICK round \in PulseRounds(q) :
        /\ feed' = [feed EXCEPT ![w] = Append(@, Attestation(q, round))]
        /\ feedHead' = [feedHead EXCEPT ![w] = Attestation(q, round)]
        /\ Answered(q, {Attestation(q, round)})
  BY DEF CoSign
<1> DEFINE att == Attestation(q, round)
<1>3. att.seq = feedHead[w].seq + 1
  BY DEF Attestation
<1>4. /\ feed'[w] = Append(feed[w], att) /\ feedHead'[w] = att
      /\ \A v \in Witness \ {w} : feed'[v] = feed[v] /\ feedHead'[v] = feedHead[v]
      /\ feed' = [v \in Witness |-> feed'[v]] /\ feedHead' = [v \in Witness |-> feedHead'[v]]
  BY <1>1, <1>2 DEF FeedInv
<1>5. UNCHANGED <<unwritten, stamping, stamps>> /\ requests' \subseteq requests
  BY DEF CoSign, stampVars
<1>6. HeadFits(w)' /\ Entries(w)' = Entries(w) \cup {att}
  <2> HIDE DEF w, att
  <2> QED
    BY <1>1, <1>3, <1>4, AppendFits DEF FeedInv
<1>7. ASSUME NEW v \in Witness \ {w}
      PROVE  HeadFits(v)' /\ Entries(v)' = Entries(v)
  <2> HIDE DEF w, att
  <2>1. feed'[v] = feed[v] /\ feedHead'[v] = feedHead[v] /\ unwritten' = unwritten
    BY <1>4, <1>5
  <2>2. Entries(v)' = Entries(v)
    BY <2>1 DEF Entries
  <2>3. HeadFits(v)
    BY DEF FeedInv
  <2> QED
    BY <2>1, <2>2, <2>3 DEF HeadFits, WasHead
<1>8. \A v \in Witness : HeadFits(v)' /\ Entries(v) \subseteq Entries(v)'
  <2> HIDE DEF w, att
  <2> QED
    BY <1>6, <1>7
<1>9. FeedInv'
  <2> HIDE DEF w, att
  <2> QED
    BY <1>4, <1>5, <1>8, StampsStay DEF FeedInv
<1>10. Attestation(q, round) \in Entries(w)'
  BY <1>6
<1>11. \A v \in Witness : \A e \in Entries(v)' :
         e \in Entries(v) \/ (v = w /\ e = att)
  <2> HIDE DEF w, att
  <2>1. \A v \in Witness : Entries(v)' = IF v = w THEN Entries(v) \cup {att} ELSE Entries(v)
    BY <1>6, <1>7
  <2> QED
    BY <2>1
<1>12. /\ Answered(q, {Attestation(q, round)})
       /\ Attestation(q, round) \in Entries(w)'
       /\ \A v \in Witness : \A e \in Entries(v)' :
            e \in Entries(v) \/ (v = w /\ e = Attestation(q, round))
  BY <1>2, <1>10, <1>11
<1>13. \A v \in Witness : Entries(v) \subseteq Entries(v)'
  BY <1>8
<1> QED
  BY <1>9, <1>12, <1>13, Zenon

LEMMA FeedFailsKeepsFeeds ==
  ASSUME FeedInv, NEW q \in requests, FeedFails(q)
  PROVE  FeedInv'
<1> DEFINE w == WitnessOf[q.url]
<1>1. w \in Witness
  BY WitnessOfRequest
<1>2. PICK round \in PulseRounds(q) :
        /\ feedHead' = [feedHead EXCEPT ![w] = Attestation(q, round)]
        /\ unwritten' = unwritten \cup {Attestation(q, round)}
  BY DEF FeedFails
<1>3. /\ feedHead'[w].seq = feedHead[w].seq + 1 /\ feedHead'[w] \in unwritten'
      /\ \A v \in Witness \ {w} : feedHead'[v] = feedHead[v]
      /\ feedHead' = [v \in Witness |-> feedHead'[v]]
  BY <1>1, <1>2 DEF FeedInv, Attestation
<1>4. /\ UNCHANGED <<feed, stamping, stamps>> /\ requests' \subseteq requests
      /\ unwritten \subseteq unwritten'
  BY <1>2 DEF FeedFails, stampVars
<1>5. \A v \in Witness : Entries(v)' = Entries(v)
  BY <1>4 DEF Entries
<1>6. \A v \in Witness : feedHead[v].seq \in Nat /\ feedHead'[v].seq \in Nat
                         /\ feedHead[v].seq <= feedHead'[v].seq
  <2>1. \A v \in Witness : feedHead[v].seq \in Nat
    BY DEF FeedInv, HeadFits
  <2> HIDE DEF w
  <2> QED
    BY <1>1, <1>3, <2>1
<1>7. ASSUME NEW v \in Witness
      PROVE  HeadFits(v)'
  <2>1. \A e \in Entries(v) : e.seq \in 1..feedHead'[v].seq
    BY <1>6 DEF FeedInv, HeadFits
  <2> QED
    BY <1>3, <1>4, <1>5, <1>6, <2>1 DEF FeedInv, HeadFits, WasHead
<1>8. StampsFit'
  BY <1>4, <1>5, StampsStay DEF FeedInv
<1> QED
  BY <1>3, <1>4, <1>7, <1>8 DEF FeedInv

\* The last line is an entry, and none has a greater number.
LEMMA RestartKeepsFeeds ==
  ASSUME FeedInv, NEW w \in Witness, WitnessRestarts(w)
  PROVE  FeedInv'
<1>1. /\ feedHead' = [feedHead EXCEPT ![w] = LastLine(w)]
      /\ UNCHANGED <<feed, unwritten, stamps>>
      /\ stamping' \subseteq stamping /\ requests' \subseteq requests
  BY DEF WitnessRestarts
<1>2. /\ feedHead'[w] = LastLine(w)
      /\ \A v \in Witness \ {w} : feedHead'[v] = feedHead[v]
      /\ feedHead' = [v \in Witness |-> feedHead'[v]]
  BY <1>1 DEF FeedInv
<1>3. \A v \in Witness : Entries(v)' = Entries(v)
  BY <1>1 DEF Entries
<1>4. HeadFits(w)'
  <2>0. HeadFits(w)
    BY DEF FeedInv
  <2>1. CASE feed[w] = <<>>
    BY <1>1, <1>2, <1>3, <2>0, <2>1 DEF HeadFits, Entries, LastLine, Genesis
  <2>2. CASE feed[w] # <<>>
    <3> DEFINE n == Len(feed[w])
    <3>1. n \in Nat /\ n \in 1..n /\ DOMAIN feed[w] = 1..n
      BY <2>0, <2>2 DEF HeadFits
    <3>2. feedHead'[w] = feed[w][n]
      BY <1>2, <2>2 DEF LastLine
    <3>3. feedHead'[w] \in Entries(w)
      BY <3>1, <3>2 DEF Entries
    <3>4. \A i \in 1..n : feed[w][i].seq \in 1..feedHead[w].seq
      BY <2>0, <3>1 DEF HeadFits, Entries
    <3>5. feedHead[w].seq \in Nat /\ feed[w][n].seq \in Nat
      BY <2>0, <3>1, <3>4 DEF HeadFits
    <3>6. ASSUME NEW i \in 1..n
          PROVE  feed[w][i].seq \in 1..feed[w][n].seq
      <4>1. CASE i = n
        BY <3>4, <3>5, <4>1
      <4>2. CASE i # n
        <5>1. feed[w][i].seq < feed[w][n].seq
          BY <2>0, <3>1, <4>2 DEF HeadFits
        <5> QED
          BY <3>4, <3>5, <5>1
      <4> QED
        BY <4>1, <4>2
    <3>7. \A e \in Entries(w) : e.seq \in 1..feedHead'[w].seq
      BY <3>1, <3>2, <3>6 DEF Entries
    <3> HIDE DEF n
    <3> QED
      BY <1>1, <1>3, <2>0, <3>2, <3>3, <3>5, <3>7 DEF HeadFits, WasHead
  <2> QED
    BY <2>1, <2>2
<1>5. \A v \in Witness \ {w} : HeadFits(v)'
  BY <1>1, <1>2, <1>3 DEF FeedInv, HeadFits, WasHead
<1>6. StampsFit'
  BY <1>1, <1>3, StampsStay DEF FeedInv
<1> QED
  BY <1>1, <1>2, <1>4, <1>5, <1>6 DEF FeedInv

LEMMA StampKeepsFeeds ==
  ASSUME FeedInv, NEW w \in Witness, StampHead(w)
  PROVE  FeedInv'
<1> DEFINE stamp == [witness |-> w, head |-> feedHead[w]]
<1>1. /\ stamping' = stamping \cup {stamp}
      /\ UNCHANGED <<feed, feedHead, unwritten, stamps, requests>>
  BY DEF StampHead
<1>2. WasHead(w, stamp.head)
  BY DEF StampHead, FeedInv, HeadFits
<1>3. \A v \in Witness : Entries(v)' = Entries(v) /\ HeadFits(v)'
  BY <1>1 DEF FeedInv, HeadFits, WasHead, Entries
<1>4. StampsFit'
  BY <1>1, <1>2, <1>3 DEF FeedInv, StampsFit, WasHead
<1> QED
  BY <1>1, <1>3, <1>4 DEF FeedInv

\* The token is filed under the head that was sent, which has been a head.
LEMMA StampEndKeepsFeeds ==
  ASSUME FeedInv, NEW s \in stamping, StampEnds(s)
  PROVE  FeedInv'
<1>1. /\ stamping' \subseteq stamping /\ stamps' = stamps \cup {StampLine(s)}
      /\ UNCHANGED <<feed, feedHead, unwritten, requests>>
  BY DEF StampEnds
<1>2. s.witness \in Witness /\ WasHead(s.witness, s.head)
  BY DEF FeedInv, StampsFit
<1>3. \A v \in Witness : Entries(v)' = Entries(v) /\ HeadFits(v)'
  BY <1>1 DEF FeedInv, HeadFits, WasHead, Entries
<1>4. StampsFit'
  BY <1>1, <1>2, <1>3 DEF FeedInv, StampsFit, WasHead, StampLine, NamedHead
<1> QED
  BY <1>1, <1>3, <1>4 DEF FeedInv

LEMMA WitnessesKeepFeeds ==
  ASSUME FeedInv, WitnessStep
  PROVE  FeedInv'
<1>1. CASE Tick
  BY <1>1, FeedsUntouched DEF Tick, FeedInv, stampVars
<1>2. ASSUME NEW s \in stamping, StampFails(s)
      PROVE  FeedInv'
  BY <1>2, FeedsUntouched DEF StampFails, FeedInv
<1>3. ASSUME NEW q \in requests, ReadRequest(q) \/ TimeOut(q)
      PROVE  FeedInv'
  <2>1. /\ UNCHANGED <<feed, feedHead, unwritten, stamping, stamps>>
        /\ \E r : /\ r = [q EXCEPT !.read = TRUE, !.since = clock] \/ r = [q EXCEPT !.live = FALSE]
                  /\ requests' = (requests \ {q}) \cup {r}
    BY <1>3 DEF ReadRequest, TimeOut, stampVars
  <2>2. \A r \in requests' : "url" \in DOMAIN r /\ r.url \in Url
    BY <2>1 DEF FeedInv
  <2> QED
    BY <2>1, <2>2, FeedsUntouched
<1>4. ASSUME NEW q \in requests, Refuse(q) \/ Miss(q)
      PROVE  FeedInv'
  <2>1. UNCHANGED <<feed, feedHead, unwritten, stamping, stamps>> /\ requests' \subseteq requests
    BY <1>4 DEF Refuse, Miss, stampVars
  <2> QED
    BY <2>1, FeedsUntouched DEF FeedInv
<1> QED
  BY <1>1, <1>2, <1>3, <1>4, CoSignKeepsFeeds, FeedFailsKeepsFeeds, RestartKeepsFeeds,
     StampKeepsFeeds, StampEndKeepsFeeds DEF WitnessStep, Serve

\* The beacon is the only one to move the clock, and it moves it on.
LEMMA ClockGrows ==
  ASSUME clock \in Nat, WitnessStep
  PROVE  clock' \in Nat /\ clock' >= clock /\ (clock <= MaxRound => clock' <= MaxRound)
<1>1. CASE Tick
  BY <1>1, WitnessAssumption DEF Tick
<1>2. ASSUME NEW w \in Witness, WitnessRestarts(w) \/ StampHead(w)
      PROVE  clock' = clock
  BY <1>2 DEF WitnessRestarts, StampHead
<1>3. ASSUME NEW q \in requests, Serve(q)
      PROVE  clock' = clock
  <2>1. CASE ReadRequest(q)
    <3>1. UNCHANGED <<clock, feed, feedHead, asks, missed, unwritten>>
      BY <2>1, Zenon DEF ReadRequest
    <3> QED
      BY <3>1
  <2>2. CASE Refuse(q)
    BY <2>2 DEF Refuse
  <2>3. CASE CoSign(q)
    BY <2>3 DEF CoSign
  <2> QED
    BY <1>3, <2>1, <2>2, <2>3 DEF Serve
<1>4. ASSUME NEW q \in requests, TimeOut(q) \/ Miss(q) \/ FeedFails(q)
      PROVE  clock' = clock
  BY <1>4 DEF TimeOut, Miss, FeedFails
<1>5. ASSUME NEW s \in stamping, StampEnds(s) \/ StampFails(s)
      PROVE  clock' = clock
  BY <1>5 DEF StampEnds, StampFails
<1> QED
  BY <1>1, <1>2, <1>3, <1>4, <1>5 DEF WitnessStep

\* A feed is only appended to.
LEMMA EntriesGrow ==
  ASSUME FeedInv, WitnessStep, NEW w \in Witness
  PROVE  Entries(w) \subseteq Entries(w)'
<1>1. CASE UNCHANGED feed
  BY <1>1 DEF Entries
<1>2. ASSUME NEW q \in requests, CoSign(q)
      PROVE  Entries(w) \subseteq Entries(w)'
  BY <1>2, CoSignKeepsFeeds
<1>3. ASSUME NEW q \in requests, ~CoSign(q), Serve(q) \/ TimeOut(q) \/ Miss(q) \/ FeedFails(q)
      PROVE  UNCHANGED feed
  BY <1>3 DEF Serve, ReadRequest, Refuse, TimeOut, Miss, FeedFails
<1>4. ASSUME NEW v \in Witness, WitnessRestarts(v) \/ StampHead(v)
      PROVE  UNCHANGED feed
  BY <1>4 DEF WitnessRestarts, StampHead
<1>5. (Tick \/ \E s \in stamping : StampEnds(s) \/ StampFails(s)) => UNCHANGED feed
  BY DEF Tick, StampEnds, StampFails
<1> QED
  BY <1>1, <1>2, <1>3, <1>4, <1>5 DEF WitnessStep

\* What is new in a feed is what some request has asked for.
LEMMA EntriesAreAsked ==
  ASSUME FeedInv, WitnessStep, NEW w \in Witness, NEW att \in Entries(w)'
  PROVE  \/ att \in Entries(w)
         \/ \E q \in requests : \E round \in PulseRounds(q) :
              w = WitnessOf[q.url] /\ att = Attestation(q, round) /\ UNCHANGED clock
<1>1. CASE UNCHANGED feed
  BY <1>1 DEF Entries
<1>2. ASSUME NEW q \in requests, CoSign(q)
      PROVE  \/ att \in Entries(w)
             \/ \E round \in PulseRounds(q) :
                  w = WitnessOf[q.url] /\ att = Attestation(q, round) /\ UNCHANGED clock
  <2>1. UNCHANGED clock
    BY <1>2 DEF CoSign
  <2> QED
    BY <1>2, <2>1, CoSignKeepsFeeds
<1>3. ASSUME NEW q \in requests, ~CoSign(q), Serve(q) \/ TimeOut(q) \/ Miss(q) \/ FeedFails(q)
      PROVE  UNCHANGED feed
  BY <1>3 DEF Serve, ReadRequest, Refuse, TimeOut, Miss, FeedFails
<1>4. ASSUME NEW v \in Witness, WitnessRestarts(v) \/ StampHead(v)
      PROVE  UNCHANGED feed
  BY <1>4 DEF WitnessRestarts, StampHead
<1>5. (Tick \/ \E s \in stamping : StampEnds(s) \/ StampFails(s)) => UNCHANGED feed
  BY DEF Tick, StampEnds, StampFails
<1> QED
  BY <1>1, <1>2, <1>3, <1>4, <1>5 DEF WitnessStep

\* What the invariant is for.
LEMMA FeedInvSuffices == FeedInv => FeedsAscend /\ StampsBind
<1>1. FeedInv => FeedsAscend
  BY DEF FeedInv, HeadFits, FeedsAscend
<1>2. ASSUME FeedInv, NEW stamp \in stamps, stamp.headHash \notin unwritten
      PROVE  {att \in Entries(stamp.witness) : att.seq = stamp.feedSeq} = {stamp.headHash}
  <2> DEFINE w == stamp.witness
             head == stamp.headHash
  <2>1. w \in Witness /\ head \in Entries(w) /\ stamp.feedSeq = head.seq
    BY <1>2 DEF FeedInv, StampsFit, WasHead
  <2>2. ASSUME NEW att \in Entries(w), att.seq = head.seq
        PROVE  att = head
    <3>1. PICK i \in DOMAIN feed[w], j \in DOMAIN feed[w] : att = feed[w][i] /\ head = feed[w][j]
      BY <2>1 DEF Entries
    <3>2. DOMAIN feed[w] = 1..Len(feed[w]) /\ Len(feed[w]) \in Nat
      BY <1>2, <2>1 DEF FeedInv, HeadFits
    <3>3. att.seq \in Nat /\ head.seq \in Nat
      BY <1>2, <2>1 DEF FeedInv, HeadFits
    <3>4. ~(i < j) /\ ~(j < i)
      BY <1>2, <2>1, <2>2, <3>1, <3>3 DEF FeedInv, HeadFits
    <3> QED
      BY <3>1, <3>2, <3>4
  <2> HIDE DEF w, head
  <2>3. {att \in Entries(w) : att.seq = stamp.feedSeq} = {head}
    BY <2>1, <2>2
  <2> QED
    BY <2>3 DEF w, head
<1>3. FeedInv => StampsBind
  BY <1>2 DEF StampsBind, FeedInv, StampsFit
<1> QED
  BY <1>1, <1>3

-----------------------------------------------------------------------------
(* Calls: what a client may rely on when attestQuorum returns.               *)

LEMMA CallsInvStart == FeedInit => CallsInv
BY DEF FeedInit, CallsInv, Idle

\* One call is begun.
LEMMA AskKeepsCalls ==
  ASSUME CallsInv, NEW a \in Asker, NEW subject, subject.target \in Int, Ask(a, subject)
  PROVE  /\ CallsInv'
         /\ asks'[a].on /\ asks'[a].subject = {subject} /\ asks'[a].got = {}
         /\ \A b \in Asker \ {a} : asks'[b] = asks[b]
         /\ \A q \in requests' : q.read => q \in requests
<1> DEFINE call == [on |-> TRUE, subject |-> {subject}, waiting |-> Url, got |-> {}]
           Fresh(u) == [asker |-> a, url |-> u, subject |-> subject, read |-> FALSE, since |-> 0,
                        live |-> TRUE]
<1>1. /\ ~asks[a].on
      /\ asks' = [asks EXCEPT ![a] = call]
      /\ requests' = requests \cup {Fresh(u) : u \in Url}
      /\ clock' = clock /\ feed' = feed
  BY DEF Ask
<1>2. /\ asks'[a] = call
      /\ \A b \in Asker \ {a} : asks'[b] = asks[b]
      /\ asks' = [b \in Asker |-> asks'[b]]
  BY <1>1 DEF CallsInv
<1>3. \A b \in Asker : /\ DOMAIN asks'[b] = DOMAIN Idle
                       /\ \A s \in asks'[b].subject, att \in asks'[b].got : Attests(att, s)'
  BY <1>1, <1>2 DEF CallsInv, Idle, Attests, Entries
<1>4. ASSUME NEW q \in requests, q.live
      PROVE  q.asker # a
  BY <1>1, <1>4 DEF CallsInv
<1>5. \A q \in requests' :
       /\ DOMAIN q = {"asker", "url", "subject", "read", "since", "live"}
       /\ q.asker \in Asker /\ q.url \in Url /\ q.since \in 0..clock
       /\ q.subject.target \in Int
       /\ q.live => /\ asks'[q.asker].on /\ asks'[q.asker].subject = {q.subject}
                    /\ q.url \in asks'[q.asker].waiting
  BY <1>1, <1>2, <1>4 DEF CallsInv
<1>6. ASSUME NEW q \in requests', NEW r \in requests',
             q.live, r.live, q.asker = r.asker, q.url = r.url
      PROVE  q = r
  <2>1. CASE q \in requests /\ r \in requests
    BY <1>6, <2>1 DEF CallsInv
  <2>2. CASE q \notin requests /\ r \notin requests
    <3>1. PICK u \in Url : q = Fresh(u)
      BY <1>1, <2>2
    <3>2. PICK v \in Url : r = Fresh(v)
      BY <1>1, <2>2
    <3> QED
      BY <1>6, <3>1, <3>2
  <2>3. \A t \in requests' : t \notin requests => t.asker = a
    BY <1>1
  <2> QED
    BY <1>4, <1>6, <2>1, <2>2, <2>3
<1>7. CallsInv'
  <2> HIDE DEF call
  <2> QED
    BY <1>1, <1>2, <1>3, <1>5, <1>6 DEF CallsInv
<1> QED
  BY <1>1, <1>2, <1>7

LEMMA ReturnKeepsCalls ==
  ASSUME CallsInv, NEW a \in Asker, Returned(a)
  PROVE  /\ CallsInv'
         /\ asks[a].on /\ ~asks'[a].on
         /\ \A b \in Asker \ {a} : asks'[b] = asks[b]
<1>1. /\ asks[a].on /\ asks[a].waiting = {}
      /\ asks' = [asks EXCEPT ![a] = Idle]
      /\ requests' = requests /\ clock' = clock /\ feed' = feed
  BY DEF Returned, Settled
<1>2. /\ asks'[a] = Idle
      /\ \A b \in Asker \ {a} : asks'[b] = asks[b]
      /\ asks' = [b \in Asker |-> asks'[b]]
  BY <1>1 DEF CallsInv
<1>3. ASSUME NEW q \in requests, q.live
      PROVE  q.asker # a
  BY <1>1, <1>3 DEF CallsInv
<1>4. CallsInv'
  BY <1>1, <1>2, <1>3 DEF CallsInv, Attests, Entries, Idle
<1> QED
  BY <1>1, <1>2, <1>4 DEF Idle

\* The call of a request is over, with the co-signatures atts; the request is
\* gone, or nobody waits for it.
LEMMA AnswerKeepsCalls ==
  ASSUME CallsInv, NEW q \in requests, NEW atts, Answered(q, atts),
         clock' = clock, \A w \in Witness : Entries(w) \subseteq Entries(w)',
         \A att \in atts : Attests(att, q.subject)',
         \A r \in requests' : \/ r \in requests \ {q}
                              \/ r = [q EXCEPT !.live = FALSE]
  PROVE  /\ CallsInv'
         /\ \A b \in Asker : /\ asks'[b].on = asks[b].on /\ asks'[b].subject = asks[b].subject
                             /\ \A att \in asks'[b].got :
                                  att \in asks[b].got \/ (q.live /\ q.asker = b /\ att \in atts)
<1> DEFINE a == q.asker
<1>1. a \in Asker /\ DOMAIN asks[a] = {"on", "subject", "waiting", "got"}
  BY DEF CallsInv, Idle
<1>2. /\ asks' = [b \in Asker |-> asks'[b]]
      /\ \A b \in Asker : /\ DOMAIN asks'[b] = DOMAIN Idle
                          /\ asks'[b].on = asks[b].on /\ asks'[b].subject = asks[b].subject
                          /\ asks'[b].waiting = IF q.live /\ b = a THEN asks[b].waiting \ {q.url}
                                                ELSE asks[b].waiting
                          /\ asks'[b].got = IF q.live /\ b = a THEN asks[b].got \cup atts
                                            ELSE asks[b].got
  <2>1. CASE q.live
    <3>1. /\ asks' = [b \in Asker |-> asks'[b]]
          /\ asks'[a] = [asks[a] EXCEPT !.waiting = @ \ {q.url}, !.got = @ \cup atts]
          /\ \A b \in Asker \ {a} : asks'[b] = asks[b]
      BY <1>1, <2>1 DEF Answered, CallsInv
    <3>2. /\ DOMAIN asks'[a] = DOMAIN asks[a]
          /\ asks'[a].on = asks[a].on /\ asks'[a].subject = asks[a].subject
          /\ asks'[a].waiting = asks[a].waiting \ {q.url}
          /\ asks'[a].got = asks[a].got \cup atts
      BY <1>1, <3>1
    <3> HIDE DEF a
    <3> QED
      BY <2>1, <3>1, <3>2 DEF CallsInv
  <2>2. CASE ~q.live
    BY <1>1, <2>2 DEF Answered, CallsInv, Idle
  <2> QED
    BY <2>1, <2>2
<1>3. ASSUME NEW att, NEW s, Attests(att, s)
      PROVE  Attests(att, s)'
  BY <1>3 DEF Attests
<1>4. ASSUME NEW b \in Asker, NEW s \in asks'[b].subject, NEW att \in asks'[b].got
      PROVE  Attests(att, s)'
  <2>1. CASE att \in asks[b].got
    <3>1. Attests(att, s)
      BY <1>2, <2>1 DEF CallsInv
    <3> QED
      BY <1>3, <3>1
  <2>2. CASE q.live /\ b = a /\ att \in atts
    <3>1. asks[a].subject = {q.subject}
      BY <2>2 DEF CallsInv
    <3>2. s \in asks[a].subject
      BY <1>2, <2>2
    <3> QED
      BY <2>2, <3>1, <3>2
  <2> QED
    BY <1>2, <2>1, <2>2
<1>5. ASSUME NEW r \in requests'
      PROVE  /\ DOMAIN r = {"asker", "url", "subject", "read", "since", "live"}
             /\ r.asker \in Asker /\ r.url \in Url /\ r.since \in 0..clock
             /\ r.subject.target \in Int
             /\ r.live => r \in requests \ {q}
  BY DEF CallsInv
<1>6. ASSUME NEW r \in requests', r.live
      PROVE  /\ asks'[r.asker].on /\ asks'[r.asker].subject = {r.subject}
             /\ r.url \in asks'[r.asker].waiting
  <2>1. r \in requests /\ r # q /\ r.asker \in Asker
    BY <1>5, <1>6
  <2>2. asks[r.asker].on /\ asks[r.asker].subject = {r.subject} /\ r.url \in asks[r.asker].waiting
    BY <1>6, <2>1 DEF CallsInv
  <2>3. q.live /\ r.asker = a => r.url # q.url
    BY <1>6, <2>1 DEF CallsInv
  <2> QED
    BY <1>2, <2>1, <2>2, <2>3
<1>7. \A r, t \in requests' :
        r.live /\ t.live /\ r.asker = t.asker /\ r.url = t.url => r = t
  BY <1>5 DEF CallsInv
<1>8. CallsInv'
  <2> HIDE DEF a
  <2> QED
    BY <1>2, <1>4, <1>5, <1>6, <1>7 DEF CallsInv
<1> QED
  BY <1>2, <1>8

\* What a step of the witnesses may do to the calls.
Answering ==
  /\ \A r \in requests' : \/ r \in requests \/ ~r.live
                          \/ \E q \in requests : r = [q EXCEPT !.read = TRUE, !.since = clock]
  /\ \A a \in Asker :
       /\ asks'[a].on = asks[a].on /\ asks'[a].subject = asks[a].subject
       /\ \A att \in asks'[a].got :
            att \in asks[a].got \/ \E q \in requests : q.asker = a /\ MayBring(q, att)

LEMMA CoSignKeepsCalls ==
  ASSUME FeedInv, CallsInv, NEW q \in requests, CoSign(q)
  PROVE  CallsInv' /\ Answering
<1>1. PICK round \in PulseRounds(q) :
        /\ ~AlreadyPublic(q, round)
        /\ feed' = [feed EXCEPT ![WitnessOf[q.url]] = Append(@, Attestation(q, round))]
        /\ feedHead' = [feedHead EXCEPT ![WitnessOf[q.url]] = Attestation(q, round)]
        /\ Answered(q, {Attestation(q, round)})
  BY DEF CoSign
<1>a. PICK att : att = Attestation(q, round)
  OBVIOUS
<1> DEFINE w == WitnessOf[q.url]
<1>2. q.read /\ clock' = clock /\ requests' = requests \ {q}
  BY DEF CoSign
<1>3. w \in Witness
  BY WitnessOfRequest
<1>4. /\ att.witness = w /\ att.subject = q.subject /\ att.round = round
      /\ att.seq = feedHead[w].seq + 1
  BY <1>a DEF Attestation
<1>5. /\ \A v \in Witness : Entries(v) \subseteq Entries(v)'
      /\ att \in Entries(w)'
  <2>1. HeadFits(w) /\ feed'[w] = Append(feed[w], att) /\ feedHead'[w] = att
    BY <1>1, <1>a, <1>3 DEF FeedInv
  <2>2. \A v \in Witness : Entries(v) \subseteq Entries(v)'
    BY CoSignKeepsFeeds
  <2>3. Entries(w)' = Entries(w) \cup {att}
    <3> HIDE DEF w
    <3> QED
      BY <1>3, <1>4, <2>1, AppendFits
  <2> QED
    BY <2>2, <2>3
<1>6. Attests(att, q.subject)'
  <2>1. att.seq \in Nat \ {0}
    BY <1>3, <1>4 DEF FeedInv, HeadFits
  <2>2. round \in 0..clock
    BY DEF CallsInv, PulseRounds
  <2>3. q.subject.target # NoTarget => round < q.subject.target
    BY <1>1, <2>2 DEF AlreadyPublic, CallsInv
  <2> QED
    BY <1>2, <1>3, <1>4, <1>5, <2>1, <2>2, <2>3 DEF Attests
<1>7. MayBring(q, att) \/ ~q.live
  BY <1>2, <1>4 DEF MayBring
<1>8. Answered(q, {att})
  BY <1>1, <1>a
<1>9. /\ CallsInv'
      /\ \A b \in Asker : /\ asks'[b].on = asks[b].on /\ asks'[b].subject = asks[b].subject
                          /\ \A e \in asks'[b].got :
                               e \in asks[b].got \/ (q.live /\ q.asker = b /\ e \in {att})
  BY <1>2, <1>5, <1>6, <1>8, AnswerKeepsCalls
<1> QED
  BY <1>2, <1>7, <1>9 DEF Answering

LEMMA RestartKeepsCalls ==
  ASSUME CallsInv, NEW w \in Witness, WitnessRestarts(w)
  PROVE  CallsInv' /\ Answering
<1> DEFINE lost == {q \in requests : WitnessOf[q.url] = w}
           LostUrls(a) == {q.url : q \in {r \in lost : r.live /\ r.asker = a}}
<1>1. /\ requests' = requests \ lost
      /\ asks' = [a \in Asker |-> [asks[a] EXCEPT !.waiting = @ \ LostUrls(a)]]
      /\ clock' = clock /\ feed' = feed
  BY DEF WitnessRestarts
<1>2. /\ asks' = [a \in Asker |-> asks'[a]]
      /\ \A a \in Asker : /\ DOMAIN asks'[a] = DOMAIN Idle
                          /\ asks'[a].on = asks[a].on /\ asks'[a].subject = asks[a].subject
                          /\ asks'[a].got = asks[a].got
                          /\ asks'[a].waiting = asks[a].waiting \ LostUrls(a)
  <2> HIDE DEF LostUrls
  <2> QED
    BY <1>1 DEF CallsInv, Idle
<1>3. \A a \in Asker : \A s \in asks'[a].subject, att \in asks'[a].got : Attests(att, s)'
  BY <1>1, <1>2 DEF CallsInv, Attests, Entries
<1>4. ASSUME NEW q \in requests'
      PROVE  /\ q \in requests /\ q.url \notin LostUrls(q.asker)
  BY <1>1
<1>5. ASSUME NEW q \in requests'
      PROVE  /\ DOMAIN q = {"asker", "url", "subject", "read", "since", "live"}
             /\ q.asker \in Asker /\ q.url \in Url /\ q.since \in 0..clock'
             /\ q.subject.target \in Int
             /\ q.live => /\ asks'[q.asker].on /\ asks'[q.asker].subject = {q.subject}
                          /\ q.url \in asks'[q.asker].waiting
  <2> HIDE DEF LostUrls
  <2>1. /\ q \in requests /\ q.url \notin LostUrls(q.asker)
    BY <1>4
  <2>2. /\ DOMAIN q = {"asker", "url", "subject", "read", "since", "live"}
        /\ q.asker \in Asker /\ q.url \in Url /\ q.since \in 0..clock
        /\ q.subject.target \in Int
        /\ q.live => /\ asks[q.asker].on /\ asks[q.asker].subject = {q.subject}
                     /\ q.url \in asks[q.asker].waiting
    BY <2>1 DEF CallsInv
  <2>3. /\ asks'[q.asker].on = asks[q.asker].on
        /\ asks'[q.asker].subject = asks[q.asker].subject
        /\ asks'[q.asker].waiting = asks[q.asker].waiting \ LostUrls(q.asker)
    BY <1>2, <2>2
  <2>4. clock' = clock
    BY <1>1
  <2> QED
    BY <2>1, <2>2, <2>3, <2>4
<1>6. \A q, r \in requests' :
        q.live /\ r.live /\ q.asker = r.asker /\ q.url = r.url => q = r
  BY <1>4 DEF CallsInv
<1>7. CallsInv'
  <2>1. clock' \in Nat
    BY <1>1 DEF CallsInv
  <2> HIDE DEF LostUrls
  <2> QED
    BY <1>2, <1>3, <1>5, <1>6, <2>1 DEF CallsInv
<1>8. Answering
  BY <1>1, <1>2 DEF Answering
<1> QED
  BY <1>7, <1>8

\* Nothing is asked or answered, and the beacon may go on.
LEMMA ClockKeepsCalls ==
  ASSUME CallsInv, clock' \in Nat, clock <= clock', UNCHANGED <<feed, requests, asks>>
  PROVE  CallsInv' /\ Answering
<1>1. \A att, s : Attests(att, s) => Attests(att, s)'
  BY DEF CallsInv, Attests, Entries
<1>2. \A q \in requests : q.since \in 0..clock'
  BY DEF CallsInv
<1>3. \A a \in Asker : \A s \in asks[a].subject, att \in asks[a].got : Attests(att, s)'
  BY <1>1 DEF CallsInv
<1>4. CallsInv'
  BY <1>2, <1>3 DEF CallsInv
<1> QED
  BY <1>4 DEF Answering

LEMMA WitnessesAnswer ==
  ASSUME FeedInv, CallsInv, WitnessStep
  PROVE  CallsInv' /\ Answering
<1>0. \A w \in Witness : Entries(w) \subseteq Entries(w)'
  BY EntriesGrow
<1>1. ASSUME NEW q \in requests, ReadRequest(q)
      PROVE  CallsInv' /\ Answering
  <2> DEFINE r == [q EXCEPT !.read = TRUE, !.since = clock]
  <2>1. /\ requests' = (requests \ {q}) \cup {r}
        /\ asks' = asks /\ clock' = clock /\ feed' = feed
    BY <1>1 DEF ReadRequest
  <2>2. /\ DOMAIN r = DOMAIN q /\ r.asker = q.asker /\ r.url = q.url /\ r.subject = q.subject
        /\ r.since = clock /\ r.live = q.live
    BY DEF CallsInv
  <2>3. Answering
    BY <2>1 DEF Answering
  <2> HIDE DEF r
  <2>4. \A t \in requests' : t = r \/ (t \in requests /\ t # q)
    BY <2>1
  <2>5. \A a \in Asker : \A s \in asks'[a].subject, att \in asks'[a].got : Attests(att, s)'
    BY <2>1 DEF CallsInv, Attests, Entries
  <2>6. \A t \in requests' :
       /\ DOMAIN t = {"asker", "url", "subject", "read", "since", "live"}
       /\ t.asker \in Asker /\ t.url \in Url /\ t.since \in 0..clock
       /\ t.subject.target \in Int
       /\ t.live => /\ asks[t.asker].on /\ asks[t.asker].subject = {t.subject}
                    /\ t.url \in asks[t.asker].waiting
    BY <2>2, <2>4 DEF CallsInv
  <2>7. \A s, t \in requests' : s.live /\ t.live /\ s.asker = t.asker /\ s.url = t.url => s = t
    BY <2>2, <2>4 DEF CallsInv
  <2> QED
    BY <2>1, <2>3, <2>5, <2>6, <2>7 DEF CallsInv
<1>2. ASSUME NEW q \in requests, Refuse(q) \/ TimeOut(q) \/ Miss(q) \/ FeedFails(q)
      PROVE  CallsInv' /\ Answering
  <2>1. /\ Answered(q, {}) /\ clock' = clock
        /\ \A r \in requests' : r \in requests \ {q} \/ r = [q EXCEPT !.live = FALSE]
    BY <1>2 DEF Refuse, TimeOut, Miss, FeedFails
  <2>2. /\ CallsInv'
        /\ \A b \in Asker : /\ asks'[b].on = asks[b].on /\ asks'[b].subject = asks[b].subject
                            /\ \A att \in asks'[b].got :
                                 att \in asks[b].got \/ (q.live /\ q.asker = b /\ att \in {})
    BY <1>0, <2>1, AnswerKeepsCalls
  <2>3. ~[q EXCEPT !.live = FALSE].live
    BY DEF CallsInv
  <2> QED
    BY <2>1, <2>2, <2>3 DEF Answering
<1>3. CASE Tick
  <2>1. clock' \in Nat /\ clock <= clock' /\ UNCHANGED <<feed, requests, asks>>
    BY <1>3 DEF Tick, CallsInv
  <2> QED
    BY <2>1, ClockKeepsCalls
<1>4. CASE \/ \E w \in Witness : StampHead(w)
           \/ \E s \in stamping : StampEnds(s) \/ StampFails(s)
  <2>1. clock' \in Nat /\ clock <= clock' /\ UNCHANGED <<feed, requests, asks>>
    BY <1>4 DEF StampHead, StampEnds, StampFails, CallsInv
  <2> QED
    BY <2>1, ClockKeepsCalls
<1> QED
  BY <1>1, <1>2, <1>3, <1>4, CoSignKeepsCalls, RestartKeepsCalls DEF WitnessStep, Serve
=============================================================================

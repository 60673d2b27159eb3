--------------------------- MODULE RunPagesProofs ----------------------------
(***************************************************************************)
(* The pages a session is played on: whatever way it ends nothing of it    *)
(* stays behind, the trace drawn is that of the page's own run, its seal   *)
(* comes after the whole of it, and no signature of the page is refused.   *)
(* All of it rests on PagesInv of module RunPages.                         *)
(***************************************************************************)
EXTENDS RunPages, MicroPkAuditProofs

-----------------------------------------------------------------------------
(* What all pages share.                                                     *)

LEMMA ShellStep ==
  ASSUME ShellInv,
         \/ ExperimentsArrive \/ LeavePage \/ ClearStorage \/ PressBegin \/ Created \/ BeginFails
         \/ EnterLive \/ Opens \/ Breaks \/ Again \/ Consent \/ UNCHANGED shellVars
  PROVE  ShellInv'
<1> USE RunPageAssumption DEF ShellInv, ShellTypeOK, Views
<1>1. CASE ExperimentsArrive
  BY <1>1 DEF ExperimentsArrive, FirstView
<1>2. CASE LeavePage
  BY <1>2 DEF LeavePage, CloseSocket
<1>3. CASE ClearStorage
  <2>1. storage.key + 1 \in 0..MaxClears
    BY <1>3 DEF ClearStorage
  <2> QED
    BY <1>3, <2>1 DEF ClearStorage
<1>4. CASE PressBegin \/ Created \/ BeginFails
  BY <1>4 DEF PressBegin, Created, BeginFails
<1>5. CASE EnterLive \/ Opens
  BY <1>5 DEF EnterLive, Opens
<1>6. CASE Breaks
  BY <1>6 DEF Breaks
<1>7. CASE Again
  BY <1>7 DEF Again, CloseSocket
<1>8. CASE Consent
  BY <1>8 DEF Consent
<1>9. CASE UNCHANGED shellVars
  BY <1>9 DEF shellVars
<1> QED
  BY <1>1, <1>2, <1>3, <1>4, <1>5, <1>6, <1>7, <1>8, <1>9

\* A live view that another one replaces takes its socket and focus along.
LEMMA ShellReplaced ==
  ASSUME ShellInv, view' \in {"seal", "setup"}, CloseSocket,
         UNCHANGED <<kind, mounted, storage, begun>>
  PROVE  ShellInv'
BY DEF ShellInv, ShellTypeOK, Views, CloseSocket

\* Where no view is live the socket is closed, or was before it opened.
LEMMA OnlyLiveIsOpen ==
  ASSUME ShellInv, view # "live"
  PROVE  socket \in {"none", "aborted"}
BY DEF ShellInv, ShellTypeOK

-----------------------------------------------------------------------------
(* The checkpoints among the messages under way.                             *)

CheckpointsIn(messages) == Cardinality({i \in DOMAIN messages : messages[i] = "checkpoint"})

LEMMA CountOf ==
  ASSUME NEW s \in Seq(StreamMessage)
  PROVE  /\ IsFiniteSet({i \in DOMAIN s : s[i] = "checkpoint"})
         /\ CheckpointsIn(s) \in Nat
<1>1. Len(s) \in Nat /\ DOMAIN s = 1..Len(s)
  OBVIOUS
<1>2. IsFiniteSet(1..Len(s))
  BY <1>1, FS_Interval
<1>3. IsFiniteSet({i \in DOMAIN s : s[i] = "checkpoint"})
  BY <1>1, <1>2, FS_Subset
<1> QED
  BY <1>3, FS_CardinalityType DEF CheckpointsIn

LEMMA CountNone ==
  ASSUME NEW s \in Seq(StreamMessage), Len(s) = 0 \/ \A i \in DOMAIN s : s[i] # "checkpoint"
  PROVE  CheckpointsIn(s) = 0
<1>1. {i \in DOMAIN s : s[i] = "checkpoint"} = {}
  OBVIOUS
<1> QED
  BY <1>1, FS_EmptySet DEF CheckpointsIn

LEMMA CountSent ==
  ASSUME NEW s \in Seq(StreamMessage), NEW type \in StreamMessage
  PROVE  CheckpointsIn(s \o <<type>>) = CheckpointsIn(s) + (IF type = "checkpoint" THEN 1 ELSE 0)
<1> DEFINE n == Len(s)
           t == s \o <<type>>
           C == {i \in DOMAIN s : s[i] = "checkpoint"}
           D == {i \in DOMAIN t : t[i] = "checkpoint"}
<1>1. /\ n \in Nat /\ DOMAIN s = 1..n /\ DOMAIN t = 1..(n + 1) /\ t[n + 1] = type
      /\ \A i \in 1..n : t[i] = s[i]
  <2>1. t = Append(s, type)
    BY AppendIsConcat
  <2> QED
    BY <2>1, AppendProperties
<1>2. IsFiniteSet(C) /\ CheckpointsIn(s) = Cardinality(C) /\ CheckpointsIn(t) = Cardinality(D)
      /\ CheckpointsIn(s) \in Nat
  BY CountOf DEF CheckpointsIn
<1>0. SUFFICES CheckpointsIn(t) = CheckpointsIn(s) + (IF type = "checkpoint" THEN 1 ELSE 0)
  OBVIOUS
<1> HIDE DEF t
<1>3. n + 1 \notin C
  BY <1>1
<1>4. CASE type = "checkpoint"
  <2>1. D = C \cup {n + 1}
    BY <1>1, <1>4
  <2>2. Cardinality(C \cup {n + 1}) = Cardinality(C) + 1
    BY <1>2, <1>3, FS_AddElement
  <2> HIDE DEF C, D
  <2> QED
    BY <1>2, <1>4, <2>1, <2>2
<1>5. CASE type # "checkpoint"
  <2>1. D = C
    BY <1>1, <1>5
  <2> HIDE DEF C, D
  <2> QED
    BY <1>2, <1>5, <2>1
<1> QED
  BY <1>4, <1>5

LEMMA CountTaken ==
  ASSUME NEW s \in Seq(StreamMessage), s # <<>>
  PROVE  CheckpointsIn(s) = CheckpointsIn(Tail(s)) + (IF Head(s) = "checkpoint" THEN 1 ELSE 0)
<1> DEFINE n == Len(s)
           t == Tail(s)
           C == {i \in DOMAIN s : s[i] = "checkpoint"}
           D == {i \in DOMAIN t : t[i] = "checkpoint"}
           E == {i \in 2..n : s[i] = "checkpoint"}
           f == [i \in D |-> i + 1]
<1>1. /\ n \in Nat /\ n # 0 /\ DOMAIN s = 1..n /\ Head(s) = s[1]
      /\ t \in Seq(StreamMessage) /\ DOMAIN t = 1..(n - 1)
      /\ \A i \in 1..(n - 1) : t[i] = s[i + 1]
  BY HeadTailProperties
<1>2. /\ IsFiniteSet(D) /\ CheckpointsIn(s) = Cardinality(C) /\ CheckpointsIn(t) = Cardinality(D)
      /\ CheckpointsIn(t) \in Nat
  BY <1>1, CountOf DEF CheckpointsIn
<1>0. SUFFICES CheckpointsIn(s) = CheckpointsIn(t) + (IF Head(s) = "checkpoint" THEN 1 ELSE 0)
  OBVIOUS
<1> HIDE DEF t
<1>3. ExistsBijection(D, E)
  <2>1. f \in [D -> E]
    BY <1>1
  <2>2. IsInjective(f)
    BY <1>1 DEF IsInjective
  <2>3. \A e \in E : \E d \in D : f[d] = e
    <3>1. SUFFICES ASSUME NEW e \in E
                   PROVE  e - 1 \in D /\ f[e - 1] = e
      OBVIOUS
    <3>2. e \in 2..n /\ s[e] = "checkpoint" /\ e - 1 \in 1..(n - 1) /\ (e - 1) + 1 = e
      BY <1>1
    <3>3. t[e - 1] = s[e]
      BY <1>1, <3>2
    <3> QED
      BY <1>1, <3>2, <3>3
  <2> QED
    BY <2>1, <2>2, <2>3 DEF ExistsBijection, Bijection, Injection, Surjection
<1>4. IsFiniteSet(E) /\ Cardinality(E) = Cardinality(D)
  BY <1>2, <1>3, FS_Bijection
<1>5. 1 \notin E
  BY <1>1
<1>6. CASE Head(s) = "checkpoint"
  <2>1. C = E \cup {1}
    BY <1>1, <1>6
  <2>2. Cardinality(E \cup {1}) = Cardinality(E) + 1
    BY <1>4, <1>5, FS_AddElement
  <2> HIDE DEF C, D, E
  <2> QED
    BY <1>2, <1>4, <1>6, <2>1, <2>2
<1>7. CASE Head(s) # "checkpoint"
  <2>1. C = E
    BY <1>1, <1>7
  <2> HIDE DEF C, D, E
  <2> QED
    BY <1>2, <1>4, <1>7, <2>1
<1> QED
  BY <1>6, <1>7

-----------------------------------------------------------------------------
(* A micro-PK page.                                                          *)

\* Nobody is asked for a co-signature: only three steps of the run remain.
LEMMA RunAlone ==
  ASSUME RunStep, pc \in {"start", "read", "sealed", "failed"}
  PROVE  \/ pc = "start" /\ pc' = "read" /\ UNCHANGED windows
         \/ /\ pc = "read"
            /\ \/ windows' = Append(windows, BatchTrials) /\ pc' = "read"
               \/ UNCHANGED windows /\ pc' \in {"failed", "sealed"}
BY PageAssumption
   DEF RunStep, Start, QuorumShort, OpenWitnessed, ReadBlock, CheckpointWitnessed, RunFails, AskSeal,
       SealWitnessed

LEMMA RunKeepsBlob ==
  ASSUME BlobInv, RunStep \/ UNCHANGED vars
  PROVE  BlobInv'
BY BlobInvStep DEF Next

LEMMA BlobRestart == (windows = <<>> /\ pc \notin {"seal", "sealed"})' => BlobInv'
<1>1. windows = <<>> /\ pc \notin {"seal", "sealed"} => BlobInv
  BY BlobStart
<1> QED
  BY <1>1, PTL

\* TraceInv, where the messages are counted by what they are.
LEMMA TraceOf ==
  CheckpointsComing = CheckpointsIn(wire) /\ CheckpointsComing' = CheckpointsIn(wire')
BY DEF CheckpointsComing, CheckpointsIn

\* Whatever ends a live view stops its widgets.
LEMMA StoppedTrace ==
  ASSUME ShellInv, TraceInv, UNCHANGED vars, StopWidgets, socket' \notin {"connecting", "open"},
         view' = "signing" => view = "signing"
  PROVE  TraceInv'
<1>1. BlobInv'
  BY RunKeepsBlob DEF TraceInv
<1>2. wire' = <<>> /\ timer' = FALSE /\ plot' = NoPlot
  BY DEF StopWidgets, Dispose
<1>3. pc' = pc /\ windows' = windows
  BY DEF vars, runVars
<1>4. wire' \in Seq(StreamMessage) /\ DOMAIN wire' = {}
  BY <1>2
<1> QED
  BY <1>1, <1>2, <1>3, <1>4 DEF TraceInv

LEMMA ShellKeepsTrace ==
  ASSUME ShellInv, TraceInv, SharedStep, UNCHANGED vars
  PROVE  ShellInv' /\ TraceInv'
<1>1. CASE (PressBegin \/ BeginFails \/ ClearStorage) /\ UNCHANGED <<wire, timer, plot>>
  <2>1. ShellInv'
    BY <1>1, ShellStep
  <2>2. BlobInv'
    BY RunKeepsBlob DEF TraceInv
  <2>3. /\ pc' = pc /\ windows' = windows /\ socket' = socket
        /\ view' = "signing" => view = "signing"
    BY <1>1 DEF vars, runVars, PressBegin, BeginFails, ClearStorage
  <2> QED
    BY <1>1, <2>1, <2>2, <2>3, TraceOf DEF TraceInv
<1>2. CASE (LeavePage \/ Breaks \/ Again) /\ StopWidgets
  <2>1. ShellInv'
    BY <1>2, ShellStep
  <2>2. socket' \notin {"connecting", "open"} /\ (view' = "signing" => view = "signing")
    BY <1>2 DEF LeavePage, Breaks, Again, CloseSocket
  <2> QED
    BY <1>2, <2>1, <2>2, StoppedTrace
<1> QED
  BY <1>1, <1>2 DEF SharedStep

LEMMA CreationKeepsTrace ==
  ASSUME ShellInv, TraceInv, SessionCreated
  PROVE  ShellInv' /\ TraceInv'
<1>1. ShellInv' /\ socket \in {"none", "aborted"} /\ socket' = socket
  BY ShellStep, OnlyLiveIsOpen DEF SessionCreated, Created
<1>2. pc' = "start" /\ windows' = <<>> /\ UNCHANGED <<wire, timer, plot>>
  BY DEF SessionCreated
<1>3. BlobInv'
  BY <1>2, BlobRestart
<1> QED
  BY <1>1, <1>2, <1>3 DEF TraceInv

LEMMA LiveKeepsTrace ==
  ASSUME ShellInv, TraceInv, GoLive
  PROVE  ShellInv' /\ TraceInv'
<1>1. ShellInv' /\ socket \in {"none", "aborted"} /\ socket' = "connecting" /\ view = "signing"
      /\ view' = "live"
  BY ShellStep, OnlyLiveIsOpen DEF GoLive, EnterLive
<1>2. plot' = 0 /\ UNCHANGED <<pc, windows, wire, timer>>
  BY DEF GoLive, Build, vars, runVars
<1>3. BlobInv'
  BY RunKeepsBlob DEF TraceInv, GoLive
<1> QED
  BY <1>1, <1>2, <1>3 DEF TraceInv

LEMMA ConnectKeepsTrace ==
  ASSUME ShellInv, TraceInv, Connect
  PROVE  ShellInv' /\ TraceInv'
<1>1. ShellInv' /\ socket = "connecting" /\ socket' = "open" /\ view = "live" /\ view' = "live"
  BY ShellStep DEF Connect, Opens, ShellInv
<1>2. BlobInv' /\ pc' = "read" /\ windows' = <<>>
  BY <1>1, RunKeepsBlob, PageAssumption DEF Connect, RunStep, Start, TraceInv
<1>3. wire' = <<"started">> /\ UNCHANGED <<timer, plot>> /\ plot = 0 /\ timer = FALSE
  BY <1>1 DEF Connect, TraceInv
<1>4. wire' \in Seq(StreamMessage) /\ DOMAIN wire' = {1} /\ wire'[1] = "started"
  BY <1>3 DEF StreamMessage
<1>5. CheckpointsComing' = 0
  BY <1>4, CountNone, TraceOf
<1>6. Len(windows') = 0
  BY <1>2
<1> QED
  BY <1>1, <1>2, <1>3, <1>4, <1>5, <1>6 DEF TraceInv

LEMMA ServerKeepsTrace ==
  ASSUME ShellInv, TraceInv, ServerStep
  PROVE  ShellInv' /\ TraceInv'
<1> DEFINE n == Len(windows)
<1>1. ShellInv' /\ BlobInv' /\ UNCHANGED <<view, socket, timer, plot>> /\ pc # "start"
  BY ShellStep, RunKeepsBlob DEF ServerStep, shellVars, TraceInv
<1>2. /\ pc = "read"
      /\ \/ windows' = Append(windows, BatchTrials) /\ pc' = "read"
         \/ UNCHANGED windows /\ pc' \in {"failed", "sealed"}
  BY <1>1, RunAlone DEF ServerStep, TraceInv
<1>3. n \in Nat /\ Len(Append(windows, BatchTrials)) = n + 1 /\ Append(windows, BatchTrials) # windows
  <2>1. n \in Nat /\ windows \in Seq((1..CheckpointEvery) \cup {BatchTrials})
    BY WindowsRead, SeqMonotonic DEF TraceInv
  <2>2. Len(Append(windows, BatchTrials)) = n + 1
    BY <2>1, AppendProperties
  <2> QED
    BY <2>1, <2>2
<1>4. PICK type \in StreamMessage :
        /\ Told = <<type>>
        /\ Len(windows') = n + (IF type = "checkpoint" THEN 1 ELSE 0)
        /\ type = "seal" => pc' = "sealed"
  <2>1. CASE windows' = Append(windows, BatchTrials)
    <3>1. Told = <<"checkpoint">> /\ Len(windows') = n + 1
      BY <1>3, <2>1 DEF Told
    <3> QED
      BY <3>1 DEF StreamMessage
  <2>2. CASE UNCHANGED windows /\ pc' = "failed"
    <3>1. Told = <<"error">> /\ Len(windows') = n + 0
      BY <1>3, <2>2 DEF Told
    <3> QED
      BY <3>1 DEF StreamMessage
  <2>3. CASE UNCHANGED windows /\ pc' = "sealed"
    <3>1. Told = <<"seal">> /\ Len(windows') = n + 0
      BY <1>3, <2>3 DEF Told
    <3> QED
      BY <2>3, <3>1 DEF StreamMessage
  <2> QED
    BY <1>2, <2>1, <2>2, <2>3
<1>5. CASE socket = "open"
  <2>1. wire \in Seq(StreamMessage) /\ wire' = wire \o <<type>>
    BY <1>4, <1>5 DEF TraceInv, ServerStep
  <2>2. /\ wire' \in Seq(StreamMessage) /\ Len(wire) \in Nat /\ Len(wire') = Len(wire) + 1
        /\ DOMAIN wire = 1..Len(wire) /\ DOMAIN wire' = 1..(Len(wire) + 1)
        /\ wire'[Len(wire) + 1] = type /\ \A i \in 1..Len(wire) : wire'[i] = wire[i]
    <3>1. wire' = Append(wire, type)
      BY <2>1, AppendIsConcat
    <3> QED
      BY <2>1, <3>1, AppendProperties
  <2>3. \A i \in DOMAIN wire' : wire'[i] = "seal" => i = Len(wire') /\ pc' = "sealed"
    BY <1>2, <1>4, <2>2 DEF TraceInv
  <2>4. CheckpointsIn(wire) \in Nat /\ plot \in Nat /\ plot + CheckpointsIn(wire) = n
    BY <1>5, <2>1, CountOf, TraceOf DEF TraceInv
  <2>5. plot' + CheckpointsComing' = Len(windows')
    BY <1>1, <1>3, <1>4, <2>1, <2>4, CountSent, TraceOf
  <2> QED
    BY <1>1, <1>2, <1>5, <2>2, <2>3, <2>5 DEF TraceInv, ShellInv
<1>6. CASE socket # "open"
  <2>1. wire' = <<>> /\ wire = <<>> /\ ~(view = "signing" \/ socket = "connecting")
    BY <1>2, <1>6 DEF TraceInv, ServerStep
  <2> QED
    BY <1>1, <1>2, <1>6, <2>1 DEF TraceInv
<1> QED
  BY <1>5, <1>6

\* A message that arrives over the open socket is the next one under way.
LEMMA ReceiveTakes ==
  ASSUME TraceInv, NEW type, Receive(type)
  PROVE  /\ socket = "open" /\ BlobInv' /\ UNCHANGED <<pc, windows>>
         /\ Len(wire) \in Nat \ {0} /\ wire[1] = type
         /\ Tail(wire) \in Seq(StreamMessage) /\ Len(Tail(wire)) = Len(wire) - 1
         /\ \A i \in DOMAIN Tail(wire) : Tail(wire)[i] = wire[i + 1]
         /\ CheckpointsIn(Tail(wire)) \in Nat /\ plot \in Nat
         /\ plot + CheckpointsIn(Tail(wire)) + (IF type = "checkpoint" THEN 1 ELSE 0) = Len(windows)
<1>1. /\ socket = "open" /\ wire # <<>> /\ Head(wire) = type /\ UNCHANGED vars
      /\ wire \in Seq(StreamMessage)
  BY DEF Receive, Arriving, TraceInv
<1>2. BlobInv' /\ UNCHANGED <<pc, windows>>
  BY <1>1, RunKeepsBlob DEF TraceInv, vars, runVars
<1>3. /\ Len(wire) \in Nat \ {0} /\ wire[1] = type
      /\ Tail(wire) \in Seq(StreamMessage) /\ Len(Tail(wire)) = Len(wire) - 1
      /\ \A i \in DOMAIN Tail(wire) : Tail(wire)[i] = wire[i + 1]
  BY <1>1, HeadTailProperties
<1>4. CheckpointsIn(Tail(wire)) \in Nat /\ plot \in Nat /\ plot + CheckpointsIn(wire) = Len(windows)
  BY <1>1, <1>3, CountOf, TraceOf DEF TraceInv
<1>5. CheckpointsIn(wire) = CheckpointsIn(Tail(wire)) + (IF type = "checkpoint" THEN 1 ELSE 0)
  BY <1>1, CountTaken
<1> QED
  BY <1>1, <1>2, <1>3, <1>4, <1>5

LEMMA MessageKeepsTrace ==
  ASSUME ShellInv, TraceInv, OnMessage
  PROVE  ShellInv' /\ TraceInv'
<1>1. ASSUME OnStarted \/ OnCheckpoint
      PROVE  ShellInv' /\ TraceInv'
  <2>1. PICK type \in {"started", "checkpoint"} :
          /\ Receive(type) /\ wire' = Tail(wire) /\ UNCHANGED shellVars
          /\ IF type = "checkpoint" THEN plot' = plot + 1 /\ UNCHANGED timer
             ELSE timer' = TRUE /\ UNCHANGED plot
    BY <1>1 DEF OnStarted, OnCheckpoint, Taken, Push
  <2>2. ShellInv' /\ UNCHANGED <<view, socket>>
    BY <2>1, ShellStep DEF shellVars
  <2>3. /\ socket = "open" /\ BlobInv' /\ UNCHANGED <<pc, windows>>
        /\ Len(wire) \in Nat \ {0}
        /\ wire' \in Seq(StreamMessage) /\ Len(wire') = Len(wire) - 1
        /\ \A i \in DOMAIN wire' : wire'[i] = wire[i + 1]
        /\ CheckpointsIn(wire') \in Nat /\ plot \in Nat
        /\ plot + CheckpointsIn(wire') + (IF type = "checkpoint" THEN 1 ELSE 0) = Len(windows)
    BY <2>1, ReceiveTakes
  <2>4. plot' \in Nat /\ plot' + CheckpointsComing' = Len(windows')
    BY <2>1, <2>3, TraceOf
  <2>5. \A i \in DOMAIN wire' : wire'[i] = "seal" => i = Len(wire') /\ pc' = "sealed"
    <3>1. \A i \in DOMAIN wire' : i \in 1..(Len(wire) - 1) /\ i + 1 \in DOMAIN wire
      BY <2>3 DEF TraceInv
    <3> QED
      BY <2>3, <3>1 DEF TraceInv
  <2> QED
    BY <2>1, <2>2, <2>3, <2>4, <2>5 DEF TraceInv, ShellInv
<1>2. ASSUME OnSeal \/ OnError
      PROVE  ShellInv' /\ TraceInv'
  <2>1. /\ UNCHANGED vars /\ CloseSocket /\ StopWidgets /\ UNCHANGED <<kind, mounted, storage, begun>>
        /\ view' \in {"seal", "setup"}
    BY <1>2 DEF OnSeal, OnError, Receive, Shows
  <2>2. ShellInv'
    BY <2>1, ShellReplaced
  <2>3. socket' \notin {"connecting", "open"}
    BY <2>1 DEF CloseSocket
  <2> QED
    BY <2>1, <2>2, <2>3, StoppedTrace
<1> QED
  BY <1>1, <1>2 DEF OnMessage

LEMMA MicroPkPageKeeps ==
  ASSUME ShellInv, TraceInv, MicroPkPageNext
  PROVE  ShellInv' /\ TraceInv' /\ kind' = kind
<1>1. kind' = kind
  BY DEF MicroPkPageNext, SharedStep, PressBegin, BeginFails, ClearStorage, LeavePage, Breaks, Again,
         SessionCreated, Created, GoLive, EnterLive, Connect, Opens, ServerStep, OnMessage, OnStarted,
         OnCheckpoint, OnSeal, OnError, Shows, CountdownEnds, shellVars
<1>2. CASE CountdownEnds
  <2>1. ShellInv' /\ UNCHANGED <<view, socket, wire, plot, pc, windows>> /\ timer' = FALSE
    BY <1>2, ShellStep DEF CountdownEnds, shellVars, vars, runVars
  <2>2. BlobInv'
    BY <1>2, RunKeepsBlob DEF CountdownEnds, TraceInv
  <2> QED
    BY <1>1, <2>1, <2>2, TraceOf DEF TraceInv
<1> QED
  BY <1>1, <1>2, ShellKeepsTrace, CreationKeepsTrace, LiveKeepsTrace, ConnectKeepsTrace,
     ServerKeepsTrace, MessageKeepsTrace DEF MicroPkPageNext

-----------------------------------------------------------------------------
(* A precognition page: the messages under way.                              *)

\* The page takes the next message.
LEMMA TakesNext ==
  ASSUME DialogueTypes, downlink # <<>>, downlink' = Tail(downlink)
  PROVE  /\ downlink' \in Seq(DownlinkMessage) /\ Head(downlink) \in DownlinkMessage
         /\ Coming(Head(downlink).type)
         /\ \A type : Coming(type)' => Coming(type)
         /\ \A type : ComesOnce(type) => ComesOnce(type)'
         /\ \A type : type = Head(downlink).type /\ ComesOnce(type) => ~Coming(type)'
<1> DEFINE next == Tail(downlink)
<1>1. /\ Len(downlink) \in Nat \ {0} /\ DOMAIN downlink = 1..Len(downlink)
      /\ Head(downlink) = downlink[1] /\ Head(downlink) \in DownlinkMessage
      /\ next \in Seq(DownlinkMessage) /\ DOMAIN next = 1..(Len(downlink) - 1)
      /\ \A i \in 1..(Len(downlink) - 1) : next[i] = downlink[i + 1]
  BY HeadTailProperties DEF DialogueTypes
<1> HIDE DEF next
<1>2. \A i \in DOMAIN next : i \in Nat /\ i + 1 \in DOMAIN downlink /\ i + 1 # 1 /\ next[i] = downlink[i + 1]
  BY <1>1
<1>3. downlink' = next
  BY DEF next
<1>4. Coming(Head(downlink).type)
  BY <1>1 DEF Coming
<1>5. ASSUME NEW type, Coming(type)'
      PROVE  Coming(type)
  BY <1>2, <1>3, <1>5 DEF Coming
<1>6. ASSUME NEW type, ComesOnce(type)
      PROVE  ComesOnce(type)'
  <2>1. ASSUME NEW i \in DOMAIN next, NEW j \in DOMAIN next, next[i].type = type, next[j].type = type
        PROVE  i = j
    <3>1. i + 1 = j + 1
      BY <1>2, <1>6, <2>1 DEF ComesOnce
    <3> QED
      BY <1>2, <3>1
  <2> QED
    BY <1>3, <2>1 DEF ComesOnce
<1>7. ASSUME NEW type, type = Head(downlink).type, ComesOnce(type)
      PROVE  ~Coming(type)'
  <2>1. SUFFICES ASSUME NEW i \in DOMAIN next, next[i].type = type
                 PROVE  FALSE
    BY <1>3 DEF Coming
  <2>2. i + 1 = 1
    BY <1>1, <1>2, <1>7, <2>1 DEF ComesOnce
  <2> QED
    BY <1>2, <2>2
<1> QED
  BY <1>1, <1>3, <1>4, <1>5, <1>6, <1>7

Tells(told, type) == \E i \in DOMAIN told : told[i].type = type

ToldOnce(told, type) == \A i, j \in DOMAIN told : told[i].type = type /\ told[j].type = type => i = j

\* The server tells the page something.
LEMMA TellsMore ==
  ASSUME DialogueTypes, NEW told \in Seq(DownlinkMessage), downlink' = downlink \o told
  PROVE  /\ downlink' \in Seq(DownlinkMessage)
         /\ \A type : Coming(type)' <=> Coming(type) \/ Tells(told, type)
         /\ \A type : ComesOnce(type) /\ ~Tells(told, type) => ComesOnce(type)'
         /\ \A type : ~Coming(type) /\ ToldOnce(told, type) => ComesOnce(type)'
<1> DEFINE n == Len(downlink)
           k == Len(told)
           all == downlink \o told
<1>1. /\ n \in Nat /\ k \in Nat /\ all \in Seq(DownlinkMessage) /\ DOMAIN all = 1..(n + k)
      /\ DOMAIN downlink = 1..n /\ DOMAIN told = 1..k
      /\ \A i \in 1..(n + k) : all[i] = IF i <= n THEN downlink[i] ELSE told[i - n]
  BY ConcatProperties DEF DialogueTypes
<1> HIDE DEF all
<1>2. downlink' = all
  BY DEF all
<1>3. ASSUME NEW i \in DOMAIN all
      PROVE  \/ i \in DOMAIN downlink /\ all[i] = downlink[i]
             \/ i - n \in DOMAIN told /\ all[i] = told[i - n] /\ i \in Nat
  BY <1>1
<1>4. \A i \in DOMAIN downlink : i \in DOMAIN all /\ all[i] = downlink[i]
  BY <1>1
<1>5. ASSUME NEW i \in DOMAIN told
      PROVE  i + n \in DOMAIN all /\ all[i + n] = told[i]
  <2>1. i + n \in 1..(n + k) /\ ~(i + n <= n) /\ (i + n) - n = i
    BY <1>1
  <2> QED
    BY <1>1, <2>1
<1>6. ASSUME NEW type
      PROVE  Coming(type)' <=> Coming(type) \/ Tells(told, type)
  BY <1>2, <1>3, <1>4, <1>5 DEF Coming, Tells
<1>7. ASSUME NEW type, ComesOnce(type), ~Tells(told, type)
      PROVE  ComesOnce(type)'
  BY <1>2, <1>3, <1>7 DEF ComesOnce, Tells
<1>8. ASSUME NEW type, ~Coming(type), ToldOnce(told, type)
      PROVE  ComesOnce(type)'
  <2>1. ASSUME NEW i \in DOMAIN all, NEW j \in DOMAIN all, all[i].type = type, all[j].type = type
        PROVE  i = j
    <3>1. /\ i - n \in DOMAIN told /\ told[i - n].type = type /\ i \in Nat
          /\ j - n \in DOMAIN told /\ told[j - n].type = type /\ j \in Nat
      BY <1>3, <1>8, <2>1 DEF Coming
    <3>2. i - n = j - n
      BY <1>8, <3>1 DEF ToldOnce
    <3> QED
      BY <1>1, <3>1, <3>2
  <2> QED
    BY <1>2, <2>1 DEF ComesOnce
<1> QED
  BY <1>1, <1>2, <1>6, <1>7, <1>8

\* An empty link.
LEMMA NothingComes ==
  ASSUME downlink' = <<>>
  PROVE  downlink' \in Seq(DownlinkMessage) /\ \A type : ~Coming(type)'
BY DEF Coming

LEMMA DownlinkTypes ==
  ASSUME NEW messages \in Seq(DownlinkMessage)
  PROVE  \A i \in DOMAIN messages : messages[i].type \in PrecogMessage
<1>1. \A i \in DOMAIN messages : messages[i] \in DownlinkMessage
  OBVIOUS
<1> QED
  BY <1>1 DEF DownlinkMessage

\* The server hears the next message: if it is of this session, the last of it.
LEMMA HearsNext ==
  ASSUME uplink \in Seq(UplinkMessage), uplink # <<>>, uplink' = Tail(uplink), UNCHANGED begun
  PROVE  /\ uplink' \in Seq(UplinkMessage) /\ Head(uplink) \in UplinkMessage
         /\ IsOwn(Head(uplink)) => Head(uplink) \in Unheard
         /\ Unheard' \subseteq Unheard
         /\ UnheardOnce => UnheardOnce'
         /\ UnheardOnce /\ IsOwn(Head(uplink)) => Unheard' = {}
<1> DEFINE next == Tail(uplink)
<1>1. /\ Len(uplink) \in Nat \ {0} /\ DOMAIN uplink = 1..Len(uplink)
      /\ Head(uplink) = uplink[1] /\ Head(uplink) \in UplinkMessage
      /\ next \in Seq(UplinkMessage) /\ DOMAIN next = 1..(Len(uplink) - 1)
      /\ \A i \in 1..(Len(uplink) - 1) : next[i] = uplink[i + 1]
  BY HeadTailProperties
<1> HIDE DEF next
<1>2. \A i \in DOMAIN next : i \in Nat /\ i + 1 \in DOMAIN uplink /\ i + 1 # 1 /\ next[i] = uplink[i + 1]
  BY <1>1
<1>3. uplink' = next
  BY DEF next
<1>4. \A m : IsOwn(m)' <=> IsOwn(m)
  BY DEF IsOwn
<1>5. Unheard' = {next[i] : i \in {j \in DOMAIN next : IsOwn(next[j])}}
  BY <1>3, <1>4 DEF Unheard
<1>6. 1 \in DOMAIN uplink
  BY <1>1
<1>7. IsOwn(Head(uplink)) => Head(uplink) \in Unheard
  BY <1>1, <1>6 DEF Unheard
<1>8. Unheard' \subseteq Unheard
  <2>1. SUFFICES ASSUME NEW i \in DOMAIN next, IsOwn(next[i])
                 PROVE  next[i] \in Unheard
    BY <1>5
  <2>2. i + 1 \in DOMAIN uplink /\ next[i] = uplink[i + 1]
    BY <1>2
  <2> QED
    BY <2>1, <2>2 DEF Unheard
<1>9. ASSUME UnheardOnce
      PROVE  UnheardOnce'
  <2>1. ASSUME NEW i \in DOMAIN next, NEW j \in DOMAIN next, IsOwn(next[i]), IsOwn(next[j])
        PROVE  i = j
    <3>1. i + 1 = j + 1
      BY <1>2, <1>9, <2>1 DEF UnheardOnce
    <3> QED
      BY <1>2, <3>1
  <2> QED
    BY <1>3, <1>4, <2>1 DEF UnheardOnce
<1>10. ASSUME UnheardOnce, IsOwn(Head(uplink))
       PROVE  Unheard' = {}
  <2>1. SUFFICES ASSUME NEW i \in DOMAIN next, IsOwn(next[i])
                 PROVE  FALSE
    BY <1>5
  <2>2. i + 1 = 1
    BY <1>1, <1>2, <1>6, <1>10, <2>1 DEF UnheardOnce
  <2> QED
    BY <1>2, <2>2
<1> QED
  BY <1>1, <1>3, <1>7, <1>8, <1>9, <1>10

\* What the page sends: over an open socket, and then as the next of the uplink.
LEMMA SendsNext ==
  ASSUME uplink \in Seq(UplinkMessage), NEW m \in UplinkMessage, Sends(m), UNCHANGED begun
  PROVE  /\ uplink' \in Seq(UplinkMessage)
         /\ socket # "open" \/ ~IsOwn(m) => Unheard' = Unheard /\ (UnheardOnce => UnheardOnce')
         /\ socket # "open" => uplink' = uplink
         /\ Unheard = {} => Unheard' \subseteq {m} /\ UnheardOnce'
<1> DEFINE n == Len(uplink)
           all == Append(uplink, m)
<1>1. /\ n \in Nat /\ all \in Seq(UplinkMessage) /\ DOMAIN all = 1..(n + 1) /\ DOMAIN uplink = 1..n
      /\ all[n + 1] = m /\ \A i \in 1..n : all[i] = uplink[i]
  BY AppendProperties
<1> HIDE DEF all
<1>2. \A x : IsOwn(x)' <=> IsOwn(x)
  BY DEF IsOwn
<1>3. CASE socket # "open"
  <2>1. uplink' = uplink
    BY <1>3 DEF Sends
  <2>2. Unheard' = Unheard /\ (UnheardOnce <=> UnheardOnce')
    BY <1>2, <2>1 DEF Unheard, UnheardOnce
  <2>3. Unheard = {} => UnheardOnce
    BY DEF Unheard, UnheardOnce
  <2> QED
    BY <2>1, <2>2, <2>3
<1>4. CASE socket = "open"
  <2>1. uplink' = all
    BY <1>4 DEF Sends, all
  <2>2. \A i \in DOMAIN all : (i \in DOMAIN uplink /\ all[i] = uplink[i]) \/ (i = n + 1 /\ all[i] = m)
    BY <1>1
  <2>3. \A i \in DOMAIN uplink : i \in DOMAIN all /\ all[i] = uplink[i]
    BY <1>1
  <2>4. Unheard' = {all[i] : i \in {j \in DOMAIN all : IsOwn(all[j])}}
    BY <1>2, <2>1 DEF Unheard
  <2>5. UnheardOnce' <=> \A i, j \in DOMAIN all : IsOwn(all[i]) /\ IsOwn(all[j]) => i = j
    BY <1>2, <2>1 DEF UnheardOnce
  <2>6. ASSUME ~IsOwn(m)
        PROVE  Unheard' = Unheard /\ (UnheardOnce => UnheardOnce')
    <3>1. Unheard' = Unheard
      BY <2>2, <2>3, <2>4, <2>6 DEF Unheard
    <3>2. UnheardOnce => UnheardOnce'
      BY <2>2, <2>5, <2>6 DEF UnheardOnce
    <3> QED
      BY <3>1, <3>2
  <2>7. ASSUME Unheard = {}
        PROVE  Unheard' \subseteq {m} /\ UnheardOnce'
    <3>1. \A i \in DOMAIN uplink : ~IsOwn(uplink[i])
      BY <2>7 DEF Unheard
    <3>2. \A i \in DOMAIN all : IsOwn(all[i]) => i = n + 1 /\ all[i] = m
      BY <2>2, <3>1
    <3> QED
      BY <2>4, <2>5, <3>2
  <2> QED
    BY <1>1, <1>4, <2>1, <2>6, <2>7
<1> QED
  BY <1>3, <1>4

-----------------------------------------------------------------------------
(* A precognition page: the server.                                          *)

\* What the server tells while the socket is open, and what it may not tell.
LEMMA TellIsHeard ==
  ASSUME DialogueTypes, socket = "open", NEW told \in Seq(DownlinkMessage), Tell(told)
  PROVE  /\ downlink' \in Seq(DownlinkMessage)
         /\ \A i \in DOMAIN downlink' : downlink'[i].type \in PrecogMessage
         /\ \A type : Coming(type)' <=> Coming(type) \/ Tells(told, type)
         /\ \A type : ComesOnce(type) /\ ~Tells(told, type) => ComesOnce(type)'
         /\ \A type : ~Coming(type) /\ ToldOnce(told, type) => ComesOnce(type)'
<1>1. downlink' = downlink \o told
  BY DEF Tell
<1> QED
  BY <1>1, TellsMore, DownlinkTypes

\* One message, or two of different types.
LEMMA ToldOne ==
  ASSUME NEW t \in PrecogMessage, NEW m \in 0..Trials
  PROVE  /\ <<Message(t, m)>> \in Seq(DownlinkMessage)
         /\ \A type : Tells(<<Message(t, m)>>, type) <=> type = t
         /\ \A type : ToldOnce(<<Message(t, m)>>, type)
<1> DEFINE told == <<Message(t, m)>>
<1>1. Message(t, m) \in DownlinkMessage /\ Message(t, m).type = t
  BY DEF Message, DownlinkMessage
<1>2. told \in Seq(DownlinkMessage) /\ DOMAIN told = {1} /\ told[1].type = t
  BY <1>1
<1> HIDE DEF told
<1>3. \A type : Tells(told, type) <=> type = t
  BY <1>2 DEF Tells
<1>4. \A type : ToldOnce(told, type)
  BY <1>2 DEF ToldOnce
<1> QED
  BY <1>2, <1>3, <1>4 DEF told

LEMMA ToldTwo ==
  ASSUME NEW t \in PrecogMessage, NEW m \in 0..Trials,
         NEW u \in PrecogMessage, NEW n \in 0..Trials, t # u
  PROVE  /\ <<Message(t, m), Message(u, n)>> \in Seq(DownlinkMessage)
         /\ \A type : Tells(<<Message(t, m), Message(u, n)>>, type) <=> type \in {t, u}
         /\ \A type : ToldOnce(<<Message(t, m), Message(u, n)>>, type)
<1> DEFINE told == <<Message(t, m), Message(u, n)>>
<1>1. /\ Message(t, m) \in DownlinkMessage /\ Message(t, m).type = t
      /\ Message(u, n) \in DownlinkMessage /\ Message(u, n).type = u
  BY DEF Message, DownlinkMessage
<1>2. told \in Seq(DownlinkMessage) /\ DOMAIN told = {1, 2} /\ told[1].type = t /\ told[2].type = u
  BY <1>1
<1> HIDE DEF told
<1>3. \A type : Tells(told, type) <=> type \in {t, u}
  BY <1>2 DEF Tells
<1>4. \A type : ToldOnce(told, type)
  BY <1>2 DEF ToldOnce
<1> QED
  BY <1>2, <1>3, <1>4 DEF told

\* An uplink that is left alone, by a step of the same session.
LEMMA SameUplink ==
  ASSUME UNCHANGED <<uplink, begun>>
  PROVE  Unheard' = Unheard /\ (UnheardOnce' <=> UnheardOnce)
BY DEF Unheard, UnheardOnce, IsOwn

LEMMA SameCommits ==
  ASSUME UNCHANGED <<signing, begun>>
  PROVE  OwnCommits' = OwnCommits
BY DEF OwnCommits

\* What the server leaves alone, and what it finds: its run waits for something
\* over an open socket, or it has nothing to do but read on.
ServerFinds ==
  /\ DialogueInv /\ ShellInv /\ UNCHANGED <<shellVars, stageVars>>
  /\ run.waits # "nothing" \/ uplink # <<>>

LEMMA ServerKeeps ==
  ASSUME ServerFinds, run' \in RunType, uplink' \in Seq(UplinkMessage),
         downlink' \in Seq(DownlinkMessage),
         run'.waits \in {"open", "choice", "sign", "target"} => run'.trial \in TrialIndex
  PROVE  DialogueTypes' /\ ApartInv'
<1>1. socket = "open"
  BY DEF ServerFinds, DialogueInv, ApartInv, NoRun, Waits
<1>2. socket' = "open" /\ view' = view /\ UNCHANGED stageVars /\ UNCHANGED <<signing, begun>>
  BY <1>1 DEF ServerFinds, shellVars, stageVars
<1>3. \A i \in DOMAIN downlink' : downlink'[i].type \in PrecogMessage
  BY DownlinkTypes
<1>4. DialogueTypes'
  BY <1>2, <1>3 DEF ServerFinds, DialogueInv, DialogueTypes, PrecogPageTypeOK, stageVars
<1>5. ApartInv'
  BY <1>1, <1>2, SameCommits DEF ServerFinds, DialogueInv, ApartInv, ShellInv
<1> QED
  BY <1>4, <1>5

LEMMA StartKeepsDialogue ==
  ASSUME ServerFinds, RunStarts
  PROVE  DialogueInv'
<1> DEFINE told == <<Message("started", 0), Message("trial", 0)>>
<1>1. /\ run.waits = "open" /\ run \in RunType /\ DialogueTypes /\ run.trial \in TrialIndex
      /\ run' = [run EXCEPT !.waits = "choice"] /\ Tell(told) /\ UNCHANGED uplink
      /\ Unheard = {} /\ revealTimer = NoTrial /\ stage # "choice" /\ OwnCommits = {}
      /\ downlink = <<>> /\ UNCHANGED <<shellVars, stageVars>>
  BY DEF RunStarts, ServerFinds, DialogueInv, DialogueTypes, OpenInv
<1>2. run' \in RunType /\ run'.waits = "choice" /\ run'.trial = run.trial /\ run'.choice = run.choice
  BY <1>1 DEF RunType
<1>3. socket = "open" /\ uplink' \in Seq(UplinkMessage)
  BY <1>1 DEF ServerFinds, DialogueInv, DialogueTypes, ApartInv, NoRun, Waits
<1>4. /\ told \in Seq(DownlinkMessage)
      /\ \A type : Tells(told, type) <=> type \in {"started", "trial"}
      /\ \A type : ToldOnce(told, type)
  BY ToldTwo, PrecogPageAssumption DEF PrecogMessage
<1> HIDE DEF told
<1>5. /\ downlink' \in Seq(DownlinkMessage)
      /\ \A type : Coming(type)' <=> Coming(type) \/ Tells(told, type)
      /\ \A type : ~Coming(type) /\ ToldOnce(told, type) => ComesOnce(type)'
  BY <1>1, <1>3, <1>4, TellIsHeard
<1>6. \A type : ~Coming(type)
  BY <1>1 DEF Coming
<1>10. Unheard' = {} /\ UnheardOnce' /\ OwnCommits' = {}
  <2>1. UNCHANGED <<uplink, begun, signing>>
    BY <1>1 DEF shellVars, stageVars
  <2>2. UnheardOnce
    BY <1>1 DEF Unheard, UnheardOnce
  <2> QED
    BY <1>1, <2>1, <2>2, SameUplink, SameCommits
<1>7. DialogueTypes' /\ ApartInv'
  BY <1>1, <1>2, <1>3, <1>5, ServerKeeps
<1>8. ChoiceInv'
  BY <1>1, <1>4, <1>5, <1>6, <1>10 DEF ChoiceInv, NothingToSign, NoPromptDue, NoTrial, Pressable, stageVars
<1>9. OpenInv' /\ SignInv' /\ TargetInv'
  BY <1>2 DEF OpenInv, SignInv, TargetInv
<1> QED
  BY <1>7, <1>8, <1>9 DEF DialogueInv

LEMMA ChoiceKeepsDialogue ==
  ASSUME ServerFinds, ChoiceBound
  PROVE  DialogueInv'
<1> DEFINE told == <<Message("pending", run.trial)>>
<1>1. /\ run.waits = "choice" /\ run \in RunType /\ DialogueTypes /\ run.trial \in TrialIndex
      /\ run' = [run EXCEPT !.waits = "sign", !.choice = Head(uplink).choice]
      /\ Tell(told) /\ uplink' = Tail(uplink) /\ uplink # <<>> /\ uplink \in Seq(UplinkMessage)
      /\ Head(uplink).type = "choice"
      /\ UNCHANGED <<shellVars, stageVars>> /\ ChoiceInv
  BY DEF ChoiceBound, ServerFinds, DialogueInv, DialogueTypes
<1>0. UNCHANGED <<begun, signing>> /\ IsOwn(Head(uplink))
  BY <1>1 DEF shellVars, stageVars, IsOwn
<1>2. /\ NoPromptDue /\ NothingToSign /\ UnheardOnce
      /\ Head(uplink).choice = currentChoice /\ currentChoice \in Valence
  BY <1>0, <1>1, HearsNext DEF ChoiceInv
<1>3. Unheard' = {} /\ UnheardOnce' /\ uplink' \in Seq(UplinkMessage) /\ OwnCommits' = {}
  BY <1>0, <1>1, <1>2, HearsNext, SameCommits DEF NothingToSign
<1>4. run' \in RunType /\ run'.waits = "sign" /\ run'.trial = run.trial /\ run'.choice = currentChoice
  BY <1>1, <1>2 DEF RunType, Choices
<1>5. socket = "open" /\ run.trial \in 0..Trials
  BY <1>1, PrecogPageAssumption DEF ServerFinds, DialogueInv, ApartInv, NoRun, Waits, TrialIndex
<1>6. /\ told \in Seq(DownlinkMessage)
      /\ \A type : Tells(told, type) <=> type = "pending"
      /\ \A type : ToldOnce(told, type)
  BY <1>5, ToldOne DEF PrecogMessage
<1> HIDE DEF told
<1>7. /\ downlink' \in Seq(DownlinkMessage)
      /\ \A type : Coming(type)' <=> Coming(type) \/ Tells(told, type)
      /\ \A type : ~Coming(type) /\ ToldOnce(told, type) => ComesOnce(type)'
  BY <1>1, <1>5, <1>6, TellIsHeard
<1>8. DialogueTypes' /\ ApartInv'
  BY <1>1, <1>3, <1>4, <1>7, ServerKeeps
<1>9. SignInv'
  BY <1>1, <1>2, <1>3, <1>4, <1>6, <1>7 DEF SignInv, NothingToSign, NoPromptDue, NoTrial, stageVars
<1>10. OpenInv' /\ ChoiceInv' /\ TargetInv'
  BY <1>4 DEF OpenInv, ChoiceInv, TargetInv
<1> QED
  BY <1>8, <1>9, <1>10 DEF DialogueInv

\* A run that has ended asks nothing of the dialogue.
LEMMA EndKeepsDialogue ==
  ASSUME DialogueTypes', ApartInv', run'.waits = "nothing"
  PROVE  DialogueInv'
BY DEF DialogueInv, OpenInv, ChoiceInv, SignInv, TargetInv

\* The run gives up, and tells the page, or not.
LEMMA GivingUpKeepsDialogue ==
  ASSUME ServerFinds, run' = [run EXCEPT !.waits = "nothing"], uplink' \in Seq(UplinkMessage),
         \/ UNCHANGED downlink
         \/ \E type \in PrecogMessage : Tell(<<Message(type, run.trial)>>)
  PROVE  DialogueInv'
<1>1. run \in RunType /\ DialogueTypes /\ socket = "open"
  BY DEF ServerFinds, DialogueInv, DialogueTypes, ApartInv, NoRun, Waits
<1>2. run' \in RunType /\ run'.waits = "nothing" /\ run.trial \in 0..Trials
  BY <1>1 DEF RunType
<1>3. downlink' \in Seq(DownlinkMessage)
  <2>1. CASE UNCHANGED downlink
    BY <1>1, <2>1 DEF DialogueTypes
  <2>2. ASSUME NEW type \in PrecogMessage, Tell(<<Message(type, run.trial)>>)
        PROVE  downlink' \in Seq(DownlinkMessage)
    <3>1. <<Message(type, run.trial)>> \in Seq(DownlinkMessage)
      BY <1>2, ToldOne
    <3> QED
      BY <1>1, <2>2, <3>1, TellIsHeard
  <2> QED
    BY <2>1, <2>2
<1>4. DialogueTypes' /\ ApartInv'
  BY <1>2, <1>3, ServerKeeps
<1> QED
  BY <1>2, <1>4, EndKeepsDialogue

LEMMA SignKeepsDialogue ==
  ASSUME ServerFinds, SignHeard
  PROVE  DialogueInv'
<1>1. /\ run.waits = "sign" /\ run \in RunType /\ DialogueTypes /\ run.trial \in TrialIndex
      /\ uplink' = Tail(uplink) /\ uplink # <<>> /\ uplink \in Seq(UplinkMessage)
      /\ UNCHANGED <<shellVars, stageVars>> /\ SignInv
  BY DEF SignHeard, ServerFinds, DialogueInv, DialogueTypes
<1>2. UNCHANGED <<begun, signing>> /\ UnheardOnce /\ NoPromptDue /\ currentChoice \in Valence
  BY <1>1 DEF SignInv, shellVars, stageVars
<1>3. uplink' \in Seq(UplinkMessage)
  BY <1>1, <1>2, HearsNext
<1>4. socket = "open" /\ run.trial \in 0..Trials
  BY <1>1, PrecogPageAssumption DEF ServerFinds, DialogueInv, ApartInv, NoRun, Waits, TrialIndex
<1>5. CASE Genuine(Head(uplink))
  <2> DEFINE told == IF Witnessed THEN <<Message("sensing", run.trial)>> ELSE <<>>
  <2>1. run' = [run EXCEPT !.waits = "target"] /\ Tell(told)
    BY <1>5 DEF SignHeard
  <2>8. IsOwn(Head(uplink)) /\ Head(uplink) \in Unheard /\ Unheard' = {}
    BY <1>1, <1>2, <1>5, HearsNext DEF Genuine, IsOwn
  <2>9. NothingToSign /\ OwnCommits' = {}
    BY <1>1, <1>2, <2>8, SameCommits DEF SignInv, NothingToSign
  <2>2. run' \in RunType /\ run'.waits = "target" /\ run'.trial = run.trial
    BY <1>1, <2>1 DEF RunType
  <2>3. /\ told \in Seq(DownlinkMessage)
        /\ \A type : Tells(told, type) => type = "sensing"
    <3>1. CASE Witnessed
      BY <1>4, <3>1, ToldOne DEF PrecogMessage
    <3>2. CASE ~Witnessed
      BY <3>2 DEF Tells
    <3> QED
      BY <3>1, <3>2
  <2> HIDE DEF told
  <2>4. /\ downlink' \in Seq(DownlinkMessage)
        /\ \A type : Coming(type)' <=> (Coming(type) \/ Tells(told, type))
    BY <1>1, <1>4, <2>1, <2>3, TellIsHeard
  <2>5. DialogueTypes' /\ ApartInv'
    BY <1>1, <1>3, <2>2, <2>4, ServerKeeps
  <2>6. TargetInv'
    BY <1>1, <1>2, <2>3, <2>4, <2>8, <2>9 DEF TargetInv, NothingToSign, NoPromptDue, NoTrial, stageVars
  <2>7. OpenInv' /\ ChoiceInv' /\ SignInv'
    BY <2>2 DEF OpenInv, ChoiceInv, SignInv
  <2> QED
    BY <2>5, <2>6, <2>7 DEF DialogueInv
<1>6. CASE ~Genuine(Head(uplink))
  <2>1. run' = [run EXCEPT !.waits = "nothing"] /\ Tell(<<Message("error", run.trial)>>)
    BY <1>6 DEF SignHeard
  <2> QED
    BY <1>3, <2>1, GivingUpKeepsDialogue DEF PrecogMessage
<1> QED
  BY <1>5, <1>6

LEMMA RevealKeepsDialogue ==
  ASSUME ServerFinds, TargetRevealed
  PROVE  DialogueInv'
<1> DEFINE next == run.trial + 1
<1>1. /\ run.waits = "target" /\ run \in RunType /\ DialogueTypes /\ run.trial \in TrialIndex
      /\ uplink' = uplink /\ Unheard = {} /\ uplink \in Seq(UplinkMessage)
      /\ UNCHANGED <<shellVars, stageVars>>
      /\ NoPromptDue /\ NothingToSign /\ currentChoice \in Valence
  BY DEF TargetRevealed, ServerFinds, DialogueInv, DialogueTypes, TargetInv
<1>0. Unheard' = {} /\ UnheardOnce' /\ OwnCommits' = {}
  <2>1. UNCHANGED <<uplink, begun, signing>>
    BY <1>1 DEF shellVars, stageVars
  <2>2. UnheardOnce
    BY <1>1 DEF Unheard, UnheardOnce
  <2> QED
    BY <1>1, <2>1, <2>2, SameUplink, SameCommits DEF NothingToSign
<1>2. socket = "open" /\ run.trial \in 0..Trials /\ next \in 0..Trials
  BY <1>1, PrecogPageAssumption DEF ServerFinds, DialogueInv, ApartInv, NoRun, Waits, TrialIndex
<1>3. CASE next < Trials
  <2> DEFINE told == <<Message("reveal", run.trial), Message("trial", next)>>
  <2>1. run' = Waits("choice", next, NoValence) /\ Tell(told) /\ next \in TrialIndex
    BY <1>2, <1>3, PrecogPageAssumption DEF TargetRevealed, TrialIndex
  <2>2. run' \in RunType /\ run'.waits = "choice" /\ run'.trial \in TrialIndex
    BY <1>2, <2>1 DEF RunType, Waits, Choices
  <2>3. /\ told \in Seq(DownlinkMessage)
        /\ \A type : Tells(told, type) <=> type \in {"reveal", "trial"}
        /\ \A type : ToldOnce(told, type)
    BY <1>2, ToldTwo DEF PrecogMessage
  <2> HIDE DEF told
  <2>4. /\ downlink' \in Seq(DownlinkMessage)
        /\ \A type : Coming(type)' <=> (Coming(type) \/ Tells(told, type))
        /\ \A type : ~Coming(type) /\ ToldOnce(told, type) => ComesOnce(type)'
    BY <1>1, <1>2, <2>1, <2>3, TellIsHeard
  <2>5. DialogueTypes' /\ ApartInv'
    BY <1>1, <2>2, <2>4, ServerKeeps
  <2>6. ChoiceInv'
    BY <1>0, <1>1, <2>3, <2>4, PrecogPageAssumption
       DEF ChoiceInv, NothingToSign, NoPromptDue, NoTrial, Pressable, stageVars
  <2>7. OpenInv' /\ SignInv' /\ TargetInv'
    BY <2>2 DEF OpenInv, SignInv, TargetInv
  <2> QED
    BY <2>5, <2>6, <2>7 DEF DialogueInv
<1>4. CASE ~(next < Trials)
  <2> DEFINE told == <<Message("reveal", run.trial)>>
  <2>1. run' = Waits("seal", next, NoValence) /\ Tell(told)
    BY <1>4 DEF TargetRevealed
  <2>2. run' \in RunType /\ run'.waits = "seal"
    BY <1>2, <2>1 DEF RunType, Waits, Choices
  <2>3. /\ told \in Seq(DownlinkMessage)
        /\ \A type : Tells(told, type) <=> type = "reveal"
    BY <1>2, ToldOne DEF PrecogMessage
  <2> HIDE DEF told
  <2>4. /\ downlink' \in Seq(DownlinkMessage)
        /\ \A type : Coming(type)' <=> (Coming(type) \/ Tells(told, type))
    BY <1>1, <1>2, <2>1, <2>3, TellIsHeard
  <2>5. DialogueTypes' /\ ApartInv'
    BY <1>1, <2>2, <2>4, ServerKeeps
  <2>6. TargetInv'
    BY <1>0, <1>1, <2>3, <2>4 DEF TargetInv, NothingToSign, NoPromptDue, NoTrial, stageVars
  <2>7. OpenInv' /\ ChoiceInv' /\ SignInv'
    BY <2>2 DEF OpenInv, ChoiceInv, SignInv
  <2> QED
    BY <2>5, <2>6, <2>7 DEF DialogueInv
<1> QED
  BY <1>3, <1>4

LEMMA IgnoringKeepsDialogue ==
  ASSUME ServerFinds, MessageIgnored
  PROVE  DialogueInv'
<1>1. /\ DialogueInv /\ DialogueTypes /\ uplink \in Seq(UplinkMessage)
      /\ uplink' = Tail(uplink) /\ uplink # <<>> /\ UNCHANGED <<downlink, run, shellVars, stageVars>>
      /\ OpenInv /\ ChoiceInv /\ SignInv /\ TargetInv
  BY DEF MessageIgnored, ServerFinds, DialogueInv, DialogueTypes
<1>2. UNCHANGED <<begun, signing, stage, currentChoice, revealTimer, storage>>
  BY <1>1 DEF shellVars, stageVars
<1>3. /\ uplink' \in Seq(UplinkMessage) /\ Unheard' \subseteq Unheard /\ OwnCommits' = OwnCommits
      /\ UnheardOnce => UnheardOnce'
  BY <1>1, <1>2, HearsNext, SameCommits
<1>4. DialogueTypes' /\ ApartInv'
  BY <1>1, <1>3, ServerKeeps DEF DialogueTypes
<1>5. \A type : (Coming(type)' <=> Coming(type)) /\ (ComesOnce(type)' <=> ComesOnce(type))
  BY <1>1 DEF Coming, ComesOnce
<1>6. ChoiceInv'
  BY <1>1, <1>2, <1>3, <1>5 DEF ChoiceInv, NothingToSign, NoPromptDue, NoTrial, Pressable
<1>7. SignInv'
  BY <1>1, <1>2, <1>3, <1>5 DEF SignInv, NothingToSign, NoPromptDue, NoTrial, KeyOf, CachedKey
<1>8. OpenInv' /\ TargetInv'
  BY <1>1, <1>2, <1>3, <1>5 DEF OpenInv, TargetInv, NothingToSign, NoPromptDue, NoTrial
<1> QED
  BY <1>4, <1>6, <1>7, <1>8 DEF DialogueInv

LEMMA ServerKeepsDialogue ==
  ASSUME ShellInv, DialogueInv, ServerOfPrecog
  PROVE  ShellInv' /\ DialogueInv'
<1>1. ServerFinds /\ ShellInv'
  BY ShellStep
     DEF ServerFinds, ServerOfPrecog, RunStepOfPrecog, RunStarts, ChoiceBound, SignHeard, MessageIgnored,
         TargetRevealed, RunSeals, StreamFails, ServerDies
<1>2. uplink \in Seq(UplinkMessage)
  BY DEF DialogueInv, DialogueTypes
<1>3. CASE RunSeals \/ StreamFails \/ ServerDies
  <2>1. /\ run' = [run EXCEPT !.waits = "nothing"] /\ UNCHANGED uplink
        /\ \/ UNCHANGED downlink
           \/ \E type \in {"seal", "error"} : Tell(<<Message(type, run.trial)>>)
    BY <1>3 DEF RunSeals, StreamFails, FailTold, ServerDies
  <2> QED
    BY <1>1, <1>2, <2>1, GivingUpKeepsDialogue DEF PrecogMessage
<1> QED
  BY <1>1, <1>3, StartKeepsDialogue, ChoiceKeepsDialogue, SignKeepsDialogue, RevealKeepsDialogue,
     IgnoringKeepsDialogue DEF ServerOfPrecog, RunStepOfPrecog

-----------------------------------------------------------------------------
(* A precognition page: the operator, and the messages that arrive.          *)

\* A session ends for the page, or has not begun: its dialogue is empty.
LEMMA StoppedDialogue ==
  ASSUME DialogueInv, StopStage, socket' \notin {"connecting", "open"}, UNCHANGED begun,
         view' \in {"committing", "signing"} => view \in {"committing", "signing"}
  PROVE  DialogueInv'
<1>1. /\ revealTimer' = NoTrial /\ stage' = "none" /\ downlink' = <<>> /\ uplink' = <<>> /\ run' = NoRun
      /\ UNCHANGED <<shown, currentChoice, revealHeld, signing>> /\ DialogueTypes
  BY DEF StopStage, ClearTimer, DialogueInv
<1>2. NoRun \in RunType /\ NoRun.waits = "nothing" /\ NoRun' = NoRun
  BY PrecogPageAssumption DEF NoRun, Waits, RunType, Choices
<1>3. /\ downlink' \in Seq(DownlinkMessage) /\ uplink' \in Seq(UplinkMessage)
      /\ \A i \in DOMAIN downlink' : downlink'[i].type \in PrecogMessage
  BY <1>1
<1>4. DialogueTypes'
  BY <1>1, <1>2, <1>3 DEF DialogueTypes, PrecogPageTypeOK, NoTrial
<1>5. ApartInv'
  BY <1>1, <1>2, SameCommits DEF DialogueInv, ApartInv, NoTrial
<1> QED
  BY <1>1, <1>2, <1>4, <1>5, EndKeepsDialogue

\* Whatever leaves the dialogue and the socket alone.
LEMMA SameDialogue ==
  ASSUME DialogueInv, UNCHANGED precogVars, socket' = socket, UNCHANGED begun,
         view' \in {"committing", "signing"} => view \in {"committing", "signing"},
         storage'.key = storage.key \/ storage'.key # CachedKey
  PROVE  DialogueInv'
<1>1. UNCHANGED <<stage, shown, currentChoice, revealTimer, revealHeld, signing, downlink, uplink, run>>
  BY DEF precogVars, stageVars
<1>2. \A type : (Coming(type)' <=> Coming(type)) /\ (ComesOnce(type)' <=> ComesOnce(type))
  BY <1>1 DEF Coming, ComesOnce
<1>3. Unheard' = Unheard /\ (UnheardOnce' <=> UnheardOnce) /\ OwnCommits' = OwnCommits
  BY <1>1, SameUplink, SameCommits
<1>4. DialogueTypes'
  BY <1>1 DEF DialogueInv, DialogueTypes, PrecogPageTypeOK
<1>5. ApartInv'
  BY <1>1, <1>3 DEF DialogueInv, ApartInv, NoTrial, NoRun, Waits
<1>6. OpenInv' /\ TargetInv'
  BY <1>1, <1>2, <1>3 DEF DialogueInv, OpenInv, TargetInv, NothingToSign, NoPromptDue, NoTrial
<1>7. ChoiceInv'
  BY <1>1, <1>2, <1>3 DEF DialogueInv, ChoiceInv, NothingToSign, NoPromptDue, NoTrial, Pressable
<1>8. SignInv'
  BY <1>1, <1>2, <1>3 DEF DialogueInv, SignInv, NothingToSign, NoPromptDue, NoTrial, KeyOf, CachedKey
<1> QED
  BY <1>4, <1>5, <1>6, <1>7, <1>8 DEF DialogueInv

\* A session is begun: no commit is of it yet.
LEMMA BeginningKeepsDialogue ==
  ASSUME ShellInv, DialogueInv, PressBegin, UNCHANGED precogVars
  PROVE  DialogueInv'
<1>1. /\ socket \in {"none", "aborted"} /\ socket' = socket /\ begun' = begun + 1 /\ begun \in Nat
      /\ DialogueTypes /\ ApartInv
  BY OnlyLiveIsOpen, RunPageAssumption DEF PressBegin, ShellInv, ShellTypeOK, DialogueInv
<1>2. UNCHANGED <<stage, shown, currentChoice, revealTimer, revealHeld, signing, downlink, uplink, run>>
  BY DEF precogVars, stageVars
<1>3. run.waits = "nothing" /\ run'.waits = "nothing"
  BY <1>1, <1>2 DEF ApartInv, NoRun, Waits
<1>4. DialogueTypes'
  BY <1>1, <1>2 DEF DialogueTypes, PrecogPageTypeOK
<1>5. \A commit \in signing : commit.session \in Nat /\ commit.session <= begun
  BY <1>1 DEF ApartInv, DialogueTypes, CommitType
<1>6. (\A commit \in signing : commit.session <= begun + 1) /\ OwnCommits' = {}
  BY <1>1, <1>2, <1>5 DEF OwnCommits
<1>7. ApartInv'
  BY <1>1, <1>2, <1>6 DEF ApartInv, NoTrial, NoRun, Waits
<1> QED
  BY <1>3, <1>4, <1>7, EndKeepsDialogue

LEMMA ShellKeepsDialogue ==
  ASSUME ShellInv, DialogueInv, PrecogSharedStep \/ Consent \/ PrecogCreated
  PROVE  ShellInv' /\ DialogueInv'
<1>1. CASE PressBegin /\ UNCHANGED precogVars
  BY <1>1, ShellStep, BeginningKeepsDialogue
<1>2. CASE (BeginFails \/ ClearStorage) /\ UNCHANGED precogVars
  <2>1. ShellInv'
    BY <1>2, ShellStep
  <2>2. /\ UNCHANGED <<socket, begun>>
        /\ view' \in {"committing", "signing"} => view \in {"committing", "signing"}
        /\ storage'.key = storage.key \/ storage'.key # CachedKey
    BY <1>2 DEF BeginFails, ClearStorage, CachedKey, ShellInv, ShellTypeOK
  <2> QED
    BY <1>2, <2>1, <2>2, SameDialogue
<1>3. CASE (LeavePage \/ Breaks \/ Again) /\ StopStage
  <2>1. ShellInv'
    BY <1>3, ShellStep
  <2>2. /\ socket' \notin {"connecting", "open"} /\ UNCHANGED begun
        /\ view' \in {"committing", "signing"} => view \in {"committing", "signing"}
    BY <1>3 DEF LeavePage, Breaks, Again, CloseSocket
  <2> QED
    BY <1>3, <2>1, <2>2, StoppedDialogue
<1>4. CASE Consent
  <2>1. ShellInv' /\ UNCHANGED <<socket, begun>> /\ view' = "setup" /\ UNCHANGED precogVars
        /\ storage'.key = storage.key
    BY <1>4, ShellStep DEF Consent, ShellInv, ShellTypeOK
  <2> QED
    BY <1>4, <2>1, SameDialogue
<1>5. CASE PrecogCreated
  <2>1. ShellInv' /\ socket \in {"none", "aborted"} /\ UNCHANGED <<socket, begun, storage>>
        /\ view = "committing"
    BY <1>5, ShellStep, OnlyLiveIsOpen DEF PrecogCreated, Created
  <2>2. run = NoRun /\ NoRun' = NoRun
    BY <2>1 DEF DialogueInv, ApartInv, NoRun, Waits
  <2>3. UNCHANGED precogVars
    BY <1>5, <2>2 DEF PrecogCreated, precogVars
  <2> QED
    BY <2>1, <2>3, SameDialogue
<1> QED
  BY <1>1, <1>2, <1>3, <1>4, <1>5 DEF PrecogSharedStep

LEMMA LiveKeepsDialogue ==
  ASSUME ShellInv, DialogueInv, PrecogGoLive
  PROVE  ShellInv' /\ DialogueInv'
<1>1. ShellInv' /\ socket \in {"none", "aborted"} /\ socket' = "connecting" /\ view' = "live"
      /\ OwnCommits = {} /\ UNCHANGED begun
  BY ShellStep, OnlyLiveIsOpen DEF PrecogGoLive, EnterLive, DialogueInv, ApartInv
<1>2. stage' = "empty"
      /\ UNCHANGED <<shown, currentChoice, revealTimer, revealHeld, signing, downlink, uplink, run>>
  BY DEF PrecogGoLive
<1>3. run.waits = "nothing" /\ run'.waits = "nothing" /\ run = NoRun
  BY <1>1, <1>2 DEF DialogueInv, ApartInv, NoRun, Waits
<1>4. DialogueTypes'
  BY <1>2 DEF DialogueInv, DialogueTypes, PrecogPageTypeOK
<1>5. ApartInv'
  BY <1>1, <1>2, SameCommits DEF DialogueInv, ApartInv, NoTrial, NoRun, Waits
<1> QED
  BY <1>1, <1>3, <1>4, <1>5, EndKeepsDialogue

LEMMA ConnectKeepsDialogue ==
  ASSUME ShellInv, DialogueInv, PrecogConnect
  PROVE  ShellInv' /\ DialogueInv'
<1>1. ShellInv' /\ socket = "connecting" /\ socket' = "open" /\ view = "live" /\ view' = "live"
      /\ UNCHANGED begun
  BY ShellStep DEF PrecogConnect, Opens, ShellInv
<1>2. /\ downlink = <<>> /\ uplink = <<>> /\ revealTimer = NoTrial /\ stage # "choice"
      /\ OwnCommits = {} /\ DialogueTypes /\ \A commit \in signing : commit.session <= begun
  BY <1>1 DEF DialogueInv, ApartInv
<1>3. run' = [NoRun EXCEPT !.waits = "open"]
      /\ UNCHANGED <<stage, shown, currentChoice, revealTimer, revealHeld, signing, downlink, uplink>>
  BY DEF PrecogConnect, stageVars
<1>4. run' \in RunType /\ run'.waits = "open" /\ run'.trial \in TrialIndex
  BY <1>3, PrecogPageAssumption DEF NoRun, Waits, RunType, Choices, TrialIndex
<1>8. Unheard' = {} /\ OwnCommits' = {}
  BY <1>1, <1>2, <1>3, SameUplink, SameCommits DEF Unheard
<1>5. DialogueTypes'
  BY <1>2, <1>3, <1>4 DEF DialogueTypes, PrecogPageTypeOK
<1>6. ApartInv'
  BY <1>1, <1>2, <1>3 DEF ApartInv
<1>7. OpenInv' /\ ChoiceInv' /\ SignInv' /\ TargetInv'
  BY <1>2, <1>3, <1>4, <1>8 DEF OpenInv, ChoiceInv, SignInv, TargetInv, NoTrial
<1> QED
  BY <1>1, <1>5, <1>6, <1>7 DEF DialogueInv

\* A step of the page itself: the shell and the run are left alone.
PageFinds == ShellInv /\ DialogueInv /\ UNCHANGED <<shellVars, run>>

\* A message arrives that changes at most what the stage shows.
LEMMA ShownKeepsDialogue ==
  ASSUME PageFinds, downlink # <<>>, downlink' = Tail(downlink),
         UNCHANGED <<shown, currentChoice, revealTimer, signing, uplink>>,
         revealHeld' \in BOOLEAN, stage' \in {stage, "sensing", "reveal"}
  PROVE  DialogueInv'
<1>1. /\ DialogueTypes /\ ApartInv /\ OpenInv /\ ChoiceInv /\ SignInv /\ TargetInv
      /\ UNCHANGED <<run, socket, view, storage, begun>>
  BY DEF PageFinds, DialogueInv, shellVars
<1>2. /\ downlink' \in Seq(DownlinkMessage)
      /\ \A type : Coming(type)' => Coming(type)
      /\ \A type : ComesOnce(type) => ComesOnce(type)'
  BY <1>1, TakesNext
<1>8. Unheard' = Unheard /\ (UnheardOnce' <=> UnheardOnce) /\ OwnCommits' = OwnCommits
  BY <1>1, SameUplink, SameCommits
<1>3. DialogueTypes'
  BY <1>1, <1>2, DownlinkTypes DEF DialogueTypes, PrecogPageTypeOK
<1>4. ApartInv' /\ OpenInv'
  BY <1>1, <1>8 DEF ApartInv, OpenInv, NoTrial, NoRun, Waits
<1>5. ChoiceInv'
  BY <1>1, <1>2, <1>8 DEF ChoiceInv, NothingToSign, NoPromptDue, NoTrial, Pressable
<1>6. SignInv'
  BY <1>1, <1>2, <1>8 DEF SignInv, NothingToSign, NoPromptDue, NoTrial, KeyOf, CachedKey
<1>7. TargetInv'
  BY <1>1, <1>2, <1>8 DEF TargetInv, NothingToSign, NoPromptDue, NoTrial
<1> QED
  BY <1>3, <1>4, <1>5, <1>6, <1>7 DEF DialogueInv

LEMMA PromptKeepsDialogue ==
  ASSUME PageFinds, OnTrial
  PROVE  DialogueInv'
<1>1. /\ DialogueTypes /\ ApartInv /\ OpenInv /\ ChoiceInv /\ SignInv /\ TargetInv
      /\ UNCHANGED <<run, socket, view, storage, begun>> /\ socket = "open"
      /\ downlink # <<>> /\ downlink' = Tail(downlink) /\ Head(downlink).type = "trial"
      /\ revealTimer' = Head(downlink).index
      /\ UNCHANGED <<stage, shown, currentChoice, revealHeld, signing, uplink>>
  BY DEF PageFinds, DialogueInv, shellVars, OnTrial, Arrives
<1>2. /\ downlink' \in Seq(DownlinkMessage) /\ Head(downlink) \in DownlinkMessage
      /\ Coming("trial")
      /\ \A type : Coming(type)' => Coming(type)
      /\ ComesOnce("trial") => ComesOnce("trial")' /\ ~Coming("trial")'
  BY <1>1, TakesNext
<1>9. Unheard' = Unheard /\ (UnheardOnce' <=> UnheardOnce) /\ OwnCommits' = OwnCommits
  BY <1>1, SameUplink, SameCommits
<1>3. revealTimer' \in TrialIndex \cup {NoTrial}
  BY <1>1, <1>2, PrecogPageAssumption DEF DownlinkMessage, TrialIndex, NoTrial
<1>4. DialogueTypes'
  BY <1>1, <1>2, <1>3, DownlinkTypes DEF DialogueTypes, PrecogPageTypeOK, NoTrial
<1>5. ~NoPromptDue
  BY <1>2 DEF NoPromptDue
<1>6. run.waits \notin {"open", "sign", "target", "seal"}
  BY <1>1, <1>5 DEF OpenInv, SignInv, TargetInv
<1>7. ApartInv' /\ OpenInv' /\ SignInv' /\ TargetInv'
  BY <1>1, <1>6, <1>9 DEF ApartInv, OpenInv, SignInv, TargetInv
<1>8. ChoiceInv'
  BY <1>1, <1>2, <1>5, <1>9 DEF ChoiceInv, NothingToSign, NoPromptDue, NoTrial, Pressable
<1> QED
  BY <1>4, <1>7, <1>8 DEF DialogueInv

LEMMA PendingKeepsDialogue ==
  ASSUME PageFinds, OnPending
  PROVE  DialogueInv'
<1> DEFINE commit == Commit(Head(downlink).index)
<1>1. /\ DialogueTypes /\ ApartInv /\ OpenInv /\ ChoiceInv /\ SignInv /\ TargetInv /\ ShellInv
      /\ UNCHANGED <<run, socket, view, storage, begun>> /\ socket = "open"
      /\ downlink # <<>> /\ downlink' = Tail(downlink) /\ Head(downlink).type = "pending"
      /\ UNCHANGED <<shown, currentChoice, revealTimer, revealHeld, uplink>>
      /\ IF currentChoice = NoValence
         THEN UNCHANGED <<stage, signing>>
         ELSE stage' = "waiting" /\ signing' = signing \cup {commit}
  BY DEF PageFinds, DialogueInv, shellVars, OnPending, Arrives
<1>2. /\ downlink' \in Seq(DownlinkMessage) /\ Head(downlink) \in DownlinkMessage
      /\ Coming("pending")
      /\ \A type : Coming(type)' => Coming(type)
      /\ ComesOnce("pending") => ComesOnce("pending")' /\ ~Coming("pending")'
  BY <1>1, TakesNext
<1>3. begun \in Nat /\ storage.key \in 0..MaxClears
  BY <1>1, RunPageAssumption DEF ShellInv, ShellTypeOK
<1>4. commit \in CommitType /\ commit.session = begun /\ commit.choice = currentChoice /\ KeyOf(commit)
  BY <1>1, <1>2, <1>3
     DEF Commit, CommitType, KeyOf, DialogueTypes, PrecogPageTypeOK, DownlinkMessage, Choices
<1> HIDE DEF commit
<1>5. /\ signing' \subseteq CommitType /\ OwnCommits' \subseteq OwnCommits \cup {commit}
      /\ \A c \in signing' : c.session <= begun
  BY <1>1, <1>3, <1>4 DEF DialogueTypes, ApartInv, OwnCommits
<1>6. Unheard' = Unheard /\ (UnheardOnce' <=> UnheardOnce)
  BY <1>1, SameUplink
<1>7. DialogueTypes'
  BY <1>1, <1>2, <1>5, DownlinkTypes DEF DialogueTypes, PrecogPageTypeOK
<1>8. ~NothingToSign
  BY <1>2 DEF NothingToSign
<1>9. run.waits \notin {"open", "choice", "target", "seal"}
  <2>1. run.waits = "open" => ~Coming("pending")
    BY <1>1 DEF OpenInv, Coming
  <2> QED
    BY <1>1, <1>2, <1>8, <2>1 DEF ChoiceInv, TargetInv
<1>10. view' \notin {"committing", "signing"} /\ socket' = "open"
  BY <1>1 DEF ShellInv
<1>11. ApartInv' /\ OpenInv' /\ ChoiceInv' /\ TargetInv'
  BY <1>1, <1>5, <1>9, <1>10 DEF ApartInv, OpenInv, ChoiceInv, TargetInv
<1>12. SignInv'
  <2>1. SUFFICES ASSUME run.waits = "sign"
                 PROVE  SignInv'
    BY <1>1 DEF SignInv
  <2>2. /\ NoPromptDue /\ currentChoice \in Valence /\ run.choice = currentChoice
        /\ ComesOnce("pending") /\ OwnCommits = {} /\ Unheard = {} /\ UnheardOnce
    BY <1>1, <1>2, <1>8, <2>1 DEF SignInv
  <2>3. NoPromptDue' /\ ~Coming("pending")' /\ ComesOnce("pending")' /\ OwnCommits' \subseteq {commit}
    BY <1>1, <1>2, <1>5, <2>2 DEF NoPromptDue, NoTrial
  <2>4. \A c, d \in OwnCommits' : c = d
    BY <2>3
  <2>5. \A c \in OwnCommits' : c.choice = currentChoice' /\ (c.key = CachedKey \/ storage'.key # CachedKey)
    BY <1>1, <1>4, <2>3 DEF KeyOf
  <2> QED
    BY <1>1, <1>6, <2>2, <2>3, <2>4, <2>5 DEF SignInv, KeyOf, CachedKey
<1> QED
  BY <1>7, <1>11, <1>12 DEF DialogueInv

LEMMA PressingKeepsDialogue ==
  ASSUME PageFinds, PressChoice
  PROVE  DialogueInv'
<1>1. PICK c \in Valence : currentChoice' = c /\ Sends(ChoiceSent(shown, c))
  BY DEF PressChoice
<1>2. /\ DialogueTypes /\ ApartInv /\ OpenInv /\ ChoiceInv /\ SignInv /\ TargetInv
      /\ UNCHANGED <<run, socket, view, storage, begun>> /\ begun \in Nat
      /\ stage = "choice" /\ currentChoice = NoValence /\ currentChoice \notin Valence
      /\ UNCHANGED <<stage, shown, revealTimer, revealHeld, signing, downlink>>
  BY PrecogPageAssumption, RunPageAssumption
     DEF PageFinds, DialogueInv, shellVars, PressChoice, Pressable, ShellInv, ShellTypeOK
<1>3. socket = "open" /\ run.waits \notin {"open", "sign", "target", "seal"}
  BY <1>2 DEF ApartInv, OpenInv, SignInv, TargetInv
<1>4. /\ ChoiceSent(shown, c) \in UplinkMessage
      /\ ChoiceSent(shown, c).type = "choice" /\ ChoiceSent(shown, c).choice = c
  BY <1>2, PrecogPageAssumption, RunPageAssumption
     DEF DialogueTypes, PrecogPageTypeOK, TrialIndex, NoTrial, ChoiceSent, UplinkMessage, Choices, CachedKey
<1>5. /\ uplink' \in Seq(UplinkMessage) /\ OwnCommits' = OwnCommits
      /\ Unheard = {} => Unheard' \subseteq {ChoiceSent(shown, c)} /\ UnheardOnce'
  BY <1>1, <1>2, <1>3, <1>4, SendsNext, SameCommits DEF DialogueTypes
<1>6. DialogueTypes'
  BY <1>1, <1>2, <1>5 DEF DialogueTypes, PrecogPageTypeOK
<1>7. ApartInv' /\ OpenInv' /\ SignInv' /\ TargetInv'
  BY <1>2, <1>3, <1>5 DEF ApartInv, OpenInv, SignInv, TargetInv
<1>8. \A type : (Coming(type)' <=> Coming(type)) /\ (ComesOnce(type)' <=> ComesOnce(type))
  BY <1>2 DEF Coming, ComesOnce
<1>9. ChoiceInv'
  <2>1. SUFFICES ASSUME run.waits = "choice"
                 PROVE  ChoiceInv'
    BY <1>2 DEF ChoiceInv
  <2>2. Unheard = {} /\ NoPromptDue
    BY <1>2, <2>1 DEF ChoiceInv, Pressable
  <2>3. NoPromptDue' /\ ~Pressable'
    BY <1>1, <1>2, <1>8, <2>2 DEF NoPromptDue, NoTrial, Pressable
  <2>4. NothingToSign' /\ ComesOnce("trial")' /\ (Coming("trial")' => revealTimer' = NoTrial')
    BY <1>2, <1>5, <1>8, <2>1 DEF ChoiceInv, NothingToSign, NoTrial
  <2> QED
    BY <1>1, <1>4, <1>5, <2>2, <2>3, <2>4 DEF ChoiceInv
<1> QED
  BY <1>6, <1>7, <1>9 DEF DialogueInv

LEMMA SignatureKeepsDialogue ==
  ASSUME PageFinds, ChoiceSignature
  PROVE  DialogueInv'
<1>1. PICK commit \in signing : signing' = signing \ {commit} /\ Sends(SignSent(commit))
  BY DEF ChoiceSignature
<1> DEFINE m == SignSent(commit)
<1>2. /\ DialogueTypes /\ ApartInv /\ OpenInv /\ ChoiceInv /\ SignInv /\ TargetInv
      /\ UNCHANGED <<run, socket, view, storage, begun>>
      /\ UNCHANGED <<stage, shown, currentChoice, revealTimer, revealHeld, downlink>>
  BY DEF PageFinds, DialogueInv, shellVars, ChoiceSignature
<1>3. /\ m \in UplinkMessage /\ m.type = "sign" /\ m.choice = commit.choice /\ m.key = commit.key
      /\ IsOwn(m) <=> commit \in OwnCommits
  BY <1>1, <1>2 DEF DialogueTypes, CommitType, SignSent, UplinkMessage, IsOwn, OwnCommits
<1>4. /\ uplink' \in Seq(UplinkMessage)
      /\ socket # "open" => uplink' = uplink
      /\ ~IsOwn(m) => Unheard' = Unheard /\ (UnheardOnce => UnheardOnce')
      /\ Unheard = {} => Unheard' \subseteq {m} /\ UnheardOnce'
  BY <1>1, <1>2, <1>3, SendsNext DEF DialogueTypes
<1> HIDE DEF m
<1>5. OwnCommits' = OwnCommits \ {commit} /\ signing' \subseteq signing
  BY <1>1, <1>2 DEF OwnCommits
<1>6. DialogueTypes'
  BY <1>2, <1>4, <1>5 DEF DialogueTypes, PrecogPageTypeOK
<1>7. ApartInv'
  BY <1>2, <1>4, <1>5 DEF ApartInv, NoTrial, NoRun, Waits
<1>8. \A type : (Coming(type)' <=> Coming(type)) /\ (ComesOnce(type)' <=> ComesOnce(type))
  BY <1>2 DEF Coming, ComesOnce
<1>9. CASE ~IsOwn(m)
  <2>1. /\ Unheard' = Unheard /\ (UnheardOnce => UnheardOnce') /\ OwnCommits' = OwnCommits
    BY <1>3, <1>4, <1>5, <1>9
  <2>2. OpenInv' /\ TargetInv'
    BY <1>2, <1>8, <2>1 DEF OpenInv, TargetInv, NothingToSign, NoPromptDue, NoTrial
  <2>3. ChoiceInv'
    BY <1>2, <1>8, <2>1 DEF ChoiceInv, NothingToSign, NoPromptDue, NoTrial, Pressable
  <2>4. SignInv'
    BY <1>2, <1>8, <2>1 DEF SignInv, NothingToSign, NoPromptDue, NoTrial, KeyOf, CachedKey
  <2> QED
    BY <1>6, <1>7, <2>2, <2>3, <2>4 DEF DialogueInv
<1>10. CASE IsOwn(m)
  <2>1. commit \in OwnCommits /\ ~NothingToSign
    BY <1>3, <1>10 DEF NothingToSign
  <2>2. run.waits \notin {"open", "choice", "target", "seal"}
    BY <1>2, <2>1 DEF OpenInv, ChoiceInv, TargetInv
  <2>3. OpenInv' /\ ChoiceInv' /\ TargetInv'
    BY <1>2, <2>2 DEF OpenInv, ChoiceInv, TargetInv
  <2>4. ASSUME run.waits = "sign"
        PROVE  SignInv'
    <3>1. /\ Unheard = {} /\ NoPromptDue /\ currentChoice \in Valence /\ run.choice = currentChoice
          /\ ComesOnce("pending") /\ ~Coming("pending") /\ OwnCommits = {commit}
          /\ commit.choice = currentChoice /\ KeyOf(commit)
      BY <1>2, <2>1, <2>4 DEF SignInv
    <3>2. NoPromptDue' /\ OwnCommits' = {} /\ ComesOnce("pending")' /\ ~Coming("pending")'
      BY <1>2, <1>5, <1>8, <3>1 DEF NoPromptDue, NoTrial
    <3>3. Unheard' \subseteq {m} /\ UnheardOnce' /\ NothingToSign'
      BY <1>4, <3>1, <3>2 DEF NothingToSign
    <3>4. m.type = "sign" /\ m.choice = currentChoice' /\ (m.key = CachedKey \/ storage'.key # CachedKey)
      BY <1>2, <1>3, <3>1 DEF KeyOf
    <3> QED
      BY <1>2, <3>1, <3>2, <3>3, <3>4 DEF SignInv, KeyOf, CachedKey
  <2>5. run.waits # "sign" => SignInv'
    BY <1>2 DEF SignInv
  <2> QED
    BY <1>6, <1>7, <2>3, <2>4, <2>5 DEF DialogueInv
<1> QED
  BY <1>9, <1>10

LEMMA PromptShownKeepsDialogue ==
  ASSUME PageFinds, ShowChoice
  PROVE  DialogueInv'
<1>1. /\ DialogueTypes /\ ApartInv /\ OpenInv /\ ChoiceInv /\ SignInv /\ TargetInv
      /\ UNCHANGED <<run, socket, view, storage, begun>>
      /\ revealTimer # NoTrial /\ ~NoPromptDue
      /\ stage' = "choice" /\ shown' = revealTimer /\ currentChoice' = NoValence /\ revealTimer' = NoTrial
      /\ UNCHANGED <<revealHeld, signing, downlink, uplink>>
  BY DEF PageFinds, DialogueInv, shellVars, ShowChoice, NoPromptDue
<1>2. socket = "open" /\ run.waits \notin {"open", "sign", "target", "seal"}
  BY <1>1 DEF ApartInv, OpenInv, SignInv, TargetInv
<1>7. Unheard' = Unheard /\ (UnheardOnce' <=> UnheardOnce) /\ OwnCommits' = OwnCommits
  BY <1>1, SameUplink, SameCommits
<1>3. DialogueTypes'
  BY <1>1 DEF DialogueTypes, PrecogPageTypeOK, NoTrial
<1>4. ApartInv' /\ OpenInv' /\ SignInv' /\ TargetInv'
  BY <1>1, <1>2, <1>7 DEF ApartInv, OpenInv, SignInv, TargetInv
<1>5. \A type : (Coming(type)' <=> Coming(type)) /\ (ComesOnce(type)' <=> ComesOnce(type))
  BY <1>1 DEF Coming, ComesOnce
<1>6. ChoiceInv'
  BY <1>1, <1>5, <1>7 DEF ChoiceInv, NothingToSign, NoPromptDue, NoTrial, Pressable
<1> QED
  BY <1>3, <1>4, <1>6 DEF DialogueInv

LEMMA HoldKeepsDialogue ==
  ASSUME PageFinds, HoldPasses
  PROVE  DialogueInv'
<1>1. /\ DialogueTypes /\ ApartInv /\ OpenInv /\ ChoiceInv /\ SignInv /\ TargetInv
      /\ UNCHANGED <<run, socket, view, storage, begun>> /\ revealHeld' = FALSE
      /\ UNCHANGED <<stage, shown, currentChoice, revealTimer, signing, downlink, uplink>>
  BY DEF PageFinds, DialogueInv, shellVars, HoldPasses
<1>2. \A type : (Coming(type)' <=> Coming(type)) /\ (ComesOnce(type)' <=> ComesOnce(type))
  BY <1>1 DEF Coming, ComesOnce
<1>7. Unheard' = Unheard /\ (UnheardOnce' <=> UnheardOnce) /\ OwnCommits' = OwnCommits
  BY <1>1, SameUplink, SameCommits
<1>3. DialogueTypes'
  BY <1>1 DEF DialogueTypes, PrecogPageTypeOK
<1>4. ApartInv' /\ OpenInv'
  BY <1>1, <1>7 DEF ApartInv, OpenInv, NoTrial, NoRun, Waits
<1>5. ChoiceInv' /\ TargetInv'
  BY <1>1, <1>2, <1>7 DEF ChoiceInv, TargetInv, NothingToSign, NoPromptDue, NoTrial, Pressable
<1>6. SignInv'
  BY <1>1, <1>2, <1>7 DEF SignInv, NothingToSign, NoPromptDue, NoTrial, KeyOf, CachedKey
<1> QED
  BY <1>3, <1>4, <1>5, <1>6 DEF DialogueInv

LEMMA MessageKeepsDialogue ==
  ASSUME ShellInv, DialogueInv, OnPrecogMessage
  PROVE  ShellInv' /\ DialogueInv'
<1>1. CASE OnPrecogSeal \/ OnPrecogError
  <2>1. /\ view' \in {"seal", "setup"} /\ CloseSocket /\ StopStage
        /\ UNCHANGED <<kind, mounted, storage, begun>>
    BY <1>1 DEF OnPrecogSeal, OnPrecogError, Replaced
  <2>2. ShellInv'
    BY <2>1, ShellReplaced
  <2>3. socket' \notin {"connecting", "open"}
    BY <2>1 DEF CloseSocket
  <2>4. view' \notin {"committing", "signing"}
    BY <2>1
  <2> QED
    BY <2>1, <2>2, <2>3, <2>4, StoppedDialogue
<1>2. CASE OnPrecogStarted \/ OnSensing \/ OnReveal
  <2>1. PageFinds
    BY <1>2 DEF PageFinds, OnPrecogStarted, OnSensing, OnReveal
  <2>2. /\ downlink # <<>> /\ downlink' = Tail(downlink)
        /\ UNCHANGED <<shown, currentChoice, revealTimer, signing, uplink>>
        /\ revealHeld' \in {revealHeld, TRUE} /\ stage' \in {stage, "sensing", "reveal"}
    BY <1>2 DEF OnPrecogStarted, OnSensing, OnReveal, Arrives, stageVars
  <2>3. revealHeld' \in BOOLEAN
    BY <2>2 DEF DialogueInv, DialogueTypes, PrecogPageTypeOK
  <2>4. DialogueInv'
    BY <2>1, <2>2, <2>3, ShownKeepsDialogue
  <2> QED
    BY <2>1, <2>4, ShellStep DEF PageFinds
<1>3. CASE OnTrial
  BY <1>3, PromptKeepsDialogue, ShellStep DEF PageFinds, OnTrial
<1>4. CASE OnPending
  BY <1>4, PendingKeepsDialogue, ShellStep DEF PageFinds, OnPending
<1> QED
  BY <1>1, <1>2, <1>3, <1>4 DEF OnPrecogMessage

LEMMA PrecogPageKeeps ==
  ASSUME ShellInv, DialogueInv, PrecogPageNext
  PROVE  ShellInv' /\ DialogueInv' /\ kind' = kind
<1>1. kind' = kind
  BY DEF PrecogPageNext, PrecogSharedStep, PressBegin, BeginFails, ClearStorage, LeavePage, Breaks, Again,
         Consent, PrecogCreated, Created, PrecogGoLive, EnterLive, PrecogConnect, Opens, OnPrecogMessage,
         OnPrecogStarted, OnTrial, OnPending, OnSensing, OnReveal, OnPrecogSeal, OnPrecogError, Replaced,
         HoldPasses, ShowChoice, PressChoice, ChoiceSignature, ServerOfPrecog, shellVars
<1>2. CASE HoldPasses \/ ShowChoice \/ PressChoice \/ ChoiceSignature
  <2>1. PageFinds
    BY <1>2 DEF PageFinds, HoldPasses, ShowChoice, PressChoice, ChoiceSignature
  <2>2. ShellInv'
    BY <2>1, ShellStep DEF PageFinds
  <2> QED
    BY <1>1, <1>2, <2>1, <2>2, HoldKeepsDialogue, PromptShownKeepsDialogue, PressingKeepsDialogue,
       SignatureKeepsDialogue
<1> QED
  BY <1>1, <1>2, ShellKeepsDialogue, LiveKeepsDialogue, ConnectKeepsDialogue, MessageKeepsDialogue,
     ServerKeepsDialogue DEF PrecogPageNext

-----------------------------------------------------------------------------
(* Both kinds of page.                                                       *)

LEMMA KindsDiffer == MicroKind # PrecogKind /\ MicroKind # "unknown" /\ PrecogKind # "unknown"
BY DEF MicroKind, PrecogKind

LEMMA IdleMicroStays ==
  ASSUME PageInit, UNCHANGED microVars
  PROVE  PageInit'
BY DEF PageInit, Init, FeedInit, microVars, vars, feedVars, stampVars, runVars, NoPlot, NoSeal

LEMMA IdlePrecogStays ==
  ASSUME PrecogPageInit, UNCHANGED precogVars
  PROVE  PrecogPageInit'
BY DEF PrecogPageInit, precogVars, stageVars, NoTrial, NoRun, Waits

\* The page of a kind starts with nothing under way.
LEMMA TraceStarts ==
  ASSUME PageInit, socket \in {"none", "aborted"}, view # "signing"
  PROVE  TraceInv
<1>1. BlobInv
  BY BlobStart DEF PageInit, Init
<1>2. wire \in Seq(StreamMessage) /\ DOMAIN wire = {}
  BY DEF PageInit
<1> QED
  BY <1>1, <1>2 DEF TraceInv, PageInit, Init

LEMMA DialogueStarts ==
  ASSUME PrecogPageInit, socket \in {"none", "aborted"}
  PROVE  DialogueInv
<1>1. NoRun \in RunType /\ NoRun.waits = "nothing"
  BY PrecogPageAssumption DEF NoRun, Waits, RunType, Choices
<1>2. signing = {} /\ OwnCommits = {}
  BY DEF PrecogPageInit, OwnCommits
<1>3. downlink \in Seq(DownlinkMessage) /\ uplink \in Seq(UplinkMessage) /\ DOMAIN downlink = {}
  BY DEF PrecogPageInit
<1>4. DialogueTypes
  BY <1>1, <1>2, <1>3 DEF PrecogPageInit, DialogueTypes, PrecogPageTypeOK
<1>5. ApartInv
  BY <1>2 DEF PrecogPageInit, ApartInv
<1>6. OpenInv /\ ChoiceInv /\ SignInv /\ TargetInv
  BY <1>1 DEF PrecogPageInit, OpenInv, ChoiceInv, SignInv, TargetInv
<1> QED
  BY <1>4, <1>5, <1>6 DEF DialogueInv

LEMMA TraceStartsNext == (PageInit /\ socket \in {"none", "aborted"} /\ view # "signing")' => TraceInv'
<1>1. PageInit /\ socket \in {"none", "aborted"} /\ view # "signing" => TraceInv
  BY TraceStarts
<1> QED
  BY <1>1, PTL

LEMMA DialogueStartsNext == (PrecogPageInit /\ socket \in {"none", "aborted"})' => DialogueInv'
<1>1. PrecogPageInit /\ socket \in {"none", "aborted"} => DialogueInv
  BY DialogueStarts
<1> QED
  BY <1>1, PTL

LEMMA UnknownKeeps ==
  ASSUME PagesInv, Unknown
  PROVE  PagesInv'
<1>1. /\ ShellInv' /\ kind = "unknown" /\ UNCHANGED <<microVars, precogVars>>
      /\ ExperimentsArrive \/ LeavePage \/ ClearStorage
  BY ShellStep DEF Unknown, PagesInv
<1>2. PageInit' /\ PrecogPageInit'
  BY <1>1, KindsDiffer, IdleMicroStays, IdlePrecogStays DEF PagesInv
<1>3. CASE kind' = kind
  BY <1>1, <1>2, <1>3, KindsDiffer DEF PagesInv
<1>4. CASE kind' # kind
  <2>1. view = "loading" /\ socket' = socket /\ view' # "signing"
    BY <1>1, <1>4 DEF ExperimentsArrive, FirstView, LeavePage, ClearStorage
  <2>2. socket' \in {"none", "aborted"}
    BY <2>1, OnlyLiveIsOpen DEF PagesInv
  <2>3. TraceInv' /\ DialogueInv'
    BY <1>2, <2>1, <2>2, TraceStartsNext, DialogueStartsNext
  <2> QED
    BY <1>1, <1>2, <2>3 DEF PagesInv
<1> QED
  BY <1>3, <1>4

LEMMA PagesInvStep ==
  ASSUME PagesInv, [PageNext]_allVars
  PROVE  PagesInv'
<1>1. CASE Unknown
  BY <1>1, UnknownKeeps
<1>2. CASE MicroPkPlayed
  <2>1. kind = MicroKind /\ MicroPkPageNext /\ UNCHANGED precogVars
    BY <1>2 DEF MicroPkPlayed, MicroPkPageNext
  <2>2. ShellInv' /\ TraceInv' /\ kind' = kind
    BY <2>1, MicroPkPageKeeps DEF PagesInv
  <2>3. PrecogPageInit'
    BY <2>1, KindsDiffer, IdlePrecogStays DEF PagesInv
  <2> QED
    BY <2>1, <2>2, <2>3, KindsDiffer DEF PagesInv, MicroKind, PrecogKind
<1>3. CASE PrecogPlayed
  <2>1. kind = PrecogKind /\ PrecogPageNext /\ UNCHANGED microVars
    BY <1>3 DEF PrecogPlayed, PrecogPageNext
  <2>2. ShellInv' /\ DialogueInv' /\ kind' = kind
    BY <2>1, PrecogPageKeeps DEF PagesInv
  <2>3. PageInit'
    BY <2>1, KindsDiffer, IdleMicroStays DEF PagesInv
  <2> QED
    BY <2>1, <2>2, <2>3, KindsDiffer DEF PagesInv, MicroKind, PrecogKind
<1>4. CASE UNCHANGED allVars
  <2>1. UNCHANGED shellVars /\ UNCHANGED microVars /\ UNCHANGED precogVars
    BY <1>4 DEF allVars
  <2>2. ShellInv' /\ kind' = kind /\ socket' = socket /\ view' = view /\ storage' = storage
    BY <2>1, ShellStep DEF PagesInv, shellVars
  <2>3. CASE kind = MicroKind
    <3>1. UNCHANGED vars /\ UNCHANGED <<pc, windows, wire, timer, plot>>
      BY <2>1 DEF microVars, vars, runVars
    <3>2. TraceInv
      BY <2>3 DEF PagesInv
    <3>3. BlobInv'
      BY <3>1, <3>2, RunKeepsBlob DEF TraceInv
    <3>4. TraceInv'
      BY <2>2, <3>1, <3>2, <3>3, TraceOf DEF TraceInv
    <3>5. PrecogPageInit'
      BY <2>1, <2>3, KindsDiffer, IdlePrecogStays DEF PagesInv
    <3> QED
      BY <2>2, <2>3, <3>4, <3>5, KindsDiffer DEF PagesInv, MicroKind, PrecogKind
  <2>4. CASE kind = PrecogKind
    <3>1. DialogueInv'
      BY <2>1, <2>2, <2>4, SameDialogue DEF PagesInv, shellVars
    <3>2. PageInit'
      BY <2>1, <2>4, KindsDiffer, IdleMicroStays DEF PagesInv
    <3> QED
      BY <2>2, <2>4, <3>1, <3>2, KindsDiffer DEF PagesInv, MicroKind, PrecogKind
  <2>5. CASE kind \notin {MicroKind, PrecogKind}
    BY <2>1, <2>2, <2>5, IdleMicroStays, IdlePrecogStays DEF PagesInv, MicroKind, PrecogKind
  <2> QED
    BY <2>3, <2>4, <2>5
<1> QED
  BY <1>1, <1>2, <1>3, <1>4 DEF PageNext

LEMMA PagesStart ==
  ASSUME RunPagesInit
  PROVE  PagesInv
<1>1. ShellInv
  <2>1. storage \in [key : 0..MaxClears, consent : BOOLEAN]
    BY RunPageAssumption DEF RunPagesInit, ShellInit, CachedKey
  <2>2. /\ kind = "unknown" /\ view = "loading" /\ mounted = TRUE /\ socket = "none" /\ focus = FALSE
        /\ begun \in 0..MaxSessions
    BY RunPageAssumption DEF RunPagesInit, ShellInit
  <2> QED
    BY <2>1, <2>2 DEF ShellInv, ShellTypeOK, Views
<1>2. kind = "unknown" /\ PageInit /\ PrecogPageInit
  BY DEF RunPagesInit, ShellInit
<1> QED
  BY <1>1, <1>2, KindsDiffer DEF PagesInv

\* The invariant of the pages is inductive.
LEMMA PagesInvAlways == PageSpec => []PagesInv
<1>1. RunPagesInit => PagesInv
  BY PagesStart
<1>2. PagesInv /\ [PageNext]_allVars => PagesInv'
  BY PagesInvStep
<1> QED
  BY <1>1, <1>2, PTL DEF PageSpec

-----------------------------------------------------------------------------
(* What the runs check of the pages.                                         *)

\* A DeviationViz has a point for every window, and one more: none is drawn past
\* the end.
LEMMA PagesAreTyped == PagesInv => RunPagesTypeOK
<1> SUFFICES ASSUME PagesInv
             PROVE  RunPagesTypeOK
  OBVIOUS
<1>1. ShellTypeOK
  BY DEF PagesInv, ShellInv
<1>2. PageTypeOK
  <2>1. CASE kind = MicroKind
    <3>1. TraceInv /\ BlobInv /\ wire \in Seq(StreamMessage) /\ timer \in BOOLEAN
      BY <2>1 DEF PagesInv, TraceInv
    <3>2. Len(windows) \in Nat /\ Len(windows) <= NumWindows /\ NumWindows \in Nat
      BY <3>1, WindowsRead, EnoughWindows DEF BlobInv
    <3>3. MaxPoints = NumWindows + 1
      BY DEF MaxPoints, NumWindows
    <3>4. plot \in Nat => plot <= NumWindows
      <4>1. socket = "open" => plot \in Nat /\ CheckpointsIn(wire) \in Nat
                               /\ plot + CheckpointsIn(wire) = Len(windows)
        BY <3>1, CountOf, TraceOf DEF TraceInv
      <4>2. socket # "open" => plot \in {0, NoPlot}
        BY <3>1 DEF TraceInv
      <4> QED
        BY <3>2, <4>1, <4>2 DEF NoPlot
    <3>5. plot = NoPlot \/ plot \in Nat
      BY <3>1 DEF TraceInv
    <3>6. plot \in {NoPlot} \cup 0..MaxPoints
      BY <3>2, <3>3, <3>4, <3>5
    <3> QED
      BY <1>1, <3>1, <3>6 DEF PageTypeOK
  <2>2. CASE kind # MicroKind
    <3>1. wire = <<>> /\ timer = FALSE /\ plot = NoPlot
      BY <2>2 DEF PagesInv, PageInit
    <3>2. wire \in Seq(StreamMessage)
      BY <3>1
    <3>3. timer \in BOOLEAN
      BY <3>1, Zenon
    <3> QED
      BY <1>1, <3>1, <3>2, <3>3 DEF PageTypeOK
  <2> QED
    BY <2>1, <2>2
<1>3. PrecogPageTypeOK
  <2>1. CASE kind = PrecogKind
    BY <2>1 DEF PagesInv, DialogueInv, DialogueTypes
  <2>2. CASE kind # PrecogKind
    <3>1. PrecogPageInit /\ DOMAIN downlink = {}
      BY <2>2 DEF PagesInv, PrecogPageInit
    <3> QED
      BY <3>1 DEF PrecogPageInit, PrecogPageTypeOK
  <2> QED
    BY <2>1, <2>2
<1> QED
  BY <1>2, <1>3 DEF RunPagesTypeOK

\* Every state of a page is of its types, and no point of a trace is drawn past
\* the end of the positions that were allocated for it (viz/deviation.ts).
THEOREM PagesTypes == PageSpec => []RunPagesTypeOK
BY PagesInvAlways, PagesAreTyped, PTL

LEMMA PagesAreQuiet == PagesInv => QuietUnlessLive
<1> SUFFICES ASSUME PagesInv, view # "live"
             PROVE  Quiet
  BY DEF QuietUnlessLive
<1>1. ~focus /\ socket \in {"none", "aborted"}
  BY OnlyLiveIsOpen DEF PagesInv, ShellInv
<1>2. ~timer /\ plot = NoPlot
  BY <1>1 DEF PagesInv, TraceInv, PageInit
<1>3. revealTimer = NoTrial
  BY <1>1 DEF PagesInv, DialogueInv, ApartInv, PrecogPageInit
<1> QED
  BY <1>1, <1>2, <1>3 DEF Quiet

\* Whichever way a live view ends, its socket, countdown, trace, held prompt and
\* focus mode end with it (teardown() of microPk.ts and precog.ts).
THEOREM AlwaysQuietUnlessLive == PageSpec => []QuietUnlessLive
BY PagesInvAlways, PagesAreQuiet, PTL

\* The points of the trace and the checkpoints under way are the windows of the
\* run that the page's own session drives.
THEOREM TraceIsAlwaysTheRun == PageSpec => []TraceIsTheRun
<1>1. PagesInv => TraceIsTheRun
  BY DEF PagesInv, TraceInv, TraceIsTheRun, CheckpointsComing
<1> QED
  BY <1>1, PagesInvAlways, PTL

\* onSign (kinds/precog.ts) refuses no signature that the page makes in this
\* session, whatever earlier ones left behind, while the key is the one it began
\* with.
THEOREM SignaturesAlwaysAccepted == PageSpec => []SignaturesAreAccepted
<1>1. PagesInv => SignaturesAreAccepted
  <2>1. SUFFICES ASSUME PagesInv, uplink # <<>>, Head(uplink).type = "sign",
                        Head(uplink).session = begun, run.waits = "sign"
                 PROVE  Genuine(Head(uplink)) \/ storage.key # CachedKey
    BY DEF SignaturesAreAccepted
  <2>2. kind = PrecogKind /\ DialogueInv
    BY <2>1 DEF PagesInv, PrecogPageInit
  <2>3. uplink \in Seq(UplinkMessage) /\ SignInv
    BY <2>2 DEF DialogueInv, DialogueTypes
  <2>4. Head(uplink) = uplink[1] /\ 1 \in DOMAIN uplink
    BY <2>1, <2>3, HeadTailProperties
  <2>5. Head(uplink) \in Unheard
    BY <2>1, <2>4 DEF Unheard, IsOwn
  <2> QED
    BY <2>1, <2>3, <2>5 DEF SignInv, Genuine, KeyOf
<1> QED
  BY <1>1, PagesInvAlways, PTL

\* The one message that is left when the seal is next is the seal.
LEMMA SealIsLast ==
  ASSUME PagesInv, kind = MicroKind, OnSeal
  PROVE  pc = "sealed" /\ plot = NumWindows
<1>1. TraceInv /\ Receive("seal")
  BY DEF PagesInv, OnSeal
<1>2. /\ Len(wire) \in Nat \ {0} /\ wire[1] = "seal" /\ plot \in Nat
      /\ Tail(wire) \in Seq(StreamMessage) /\ Len(Tail(wire)) = Len(wire) - 1
      /\ plot + CheckpointsIn(Tail(wire)) + 0 = Len(windows)
  BY <1>1, ReceiveTakes
<1>3. Len(wire) = 1 /\ pc = "sealed"
  BY <1>1, <1>2 DEF TraceInv
<1>4. Len(Tail(wire)) = 0 /\ Tail(wire) \in Seq(StreamMessage)
  BY <1>2, <1>3
<1>5. CheckpointsIn(Tail(wire)) = 0
  BY <1>4, CountNone
<1>6. Len(windows) = NumWindows /\ Len(windows) \in Nat
  BY <1>1, <1>3, AllRead, WindowsRead DEF TraceInv, BlobInv
<1>7. plot = Len(windows)
  BY <1>2, <1>5, <1>6
<1> QED
  BY <1>3, <1>6, <1>7

\* A page shows a seal when its own run has sealed, and after the whole trace.
THEOREM SealAlwaysAfterTrace == PageSpec => SealAfterTrace
<1>1. PagesInv /\ [PageNext]_allVars =>
        [kind = MicroKind /\ view' = "seal" /\ view # "seal" =>
           pc = "sealed" /\ plot = NumWindows]_<<microVars, shellVars>>
  <2>1. SUFFICES ASSUME PagesInv, [PageNext]_allVars,
                        kind = MicroKind, view' = "seal", view # "seal"
                 PROVE  pc = "sealed" /\ plot = NumWindows
    OBVIOUS
  <2>2. MicroPkPageNext
    BY <2>1, KindsDiffer
       DEF PageNext, Unknown, MicroPkPlayed, PrecogPlayed, PrecogPageNext, allVars, shellVars
  <2>3. OnSeal
    BY <2>1, <2>2
       DEF MicroPkPageNext, SharedStep, PressBegin, BeginFails, ClearStorage, LeavePage, Breaks, Again,
           SessionCreated, Created, GoLive, EnterLive, Connect, Opens, ServerStep, OnMessage, OnStarted,
           OnCheckpoint, OnError, Shows, CountdownEnds, shellVars
  <2> QED
    BY <2>1, <2>3, SealIsLast
<1> QED
  BY <1>1, PagesInvAlways, PTL DEF PageSpec, SealAfterTrace

\* The streams that this run could have published, of any number of windows up to
\* the one it has come to, have roots of their own (merkle.ts, whose odd node is
\* promoted and not paired with itself).
THEOREM RootsAlwaysApart == PageSpec => []RootsTellWindowsApart
<1>1. PagesInv => RootsTellWindowsApart
  <2>1. SUFFICES ASSUME PagesInv
                 PROVE  Len(windows) \in Nat
    BY AsManyRoots DEF RootsTellWindowsApart
  <2>2. CASE kind = MicroKind
    BY <2>1, <2>2, WindowsRead DEF PagesInv, TraceInv
  <2>3. CASE kind # MicroKind
    BY <2>1, <2>3 DEF PagesInv, PageInit, Init
  <2> QED
    BY <2>2, <2>3
<1> QED
  BY <1>1, PagesInvAlways, PTL
=============================================================================

---------------------------- MODULE MicroPkPage ----------------------------
(***************************************************************************)
(* The page that a micro-PK session is played on                           *)
(* (packages/client/src/pages/run/microPk.ts), its one-way socket and the  *)
(* trace it draws (viz/deviation.ts), with the run that the page's latest  *)
(* session drives on the server.                                           *)
(*                                                                         *)
(* A run among witnesses sends the same messages; this one has none.  What *)
(* a run that the page has let go of still does is left out: its socket is *)
(* closed.                                                                 *)
(***************************************************************************)
EXTENDS MicroPk, Merkle, RunPage

MicroKind == "micro-pk-binary"

ASSUME PageAssumption == ~Enabled /\ MicroKind \in Kinds

VARIABLES
  wire,      \* messages under way to the page
  timer,     \* is the countdown running
  plot       \* points of the trace: positions.count; NoPlot when there is no DeviationViz

microVars == <<vars, wire, timer, plot>>

NoPlot == -1

\* Variant: room for the full windows only.
FullWindows == TrialsPerSession \div CheckpointEvery

\* DeviationViz.build: how many positions are allocated.
MaxPoints == (TrialsPerSession + CheckpointEvery - 1) \div CheckpointEvery + 1

\* openStream knows these messages.
StreamMessage == {"started", "checkpoint", "seal", "error"}

\* A point past the end of the positions would not be drawn: they are enough for
\* every window, a short last one included.
PageTypeOK ==
  /\ ShellTypeOK
  /\ timer \in BOOLEAN
  /\ wire \in Seq(StreamMessage)
  /\ plot \in {NoPlot} \cup 0..MaxPoints

PageInit == Init /\ wire = <<>> /\ timer = FALSE /\ plot = NoPlot

-----------------------------------------------------------------------------
(* The trace.                                                                *)

Build == plot' = 0

Push == plot' = plot + 1

Dispose == plot' = NoPlot

\* teardown(), beside the socket.
StopWidgets == wire' = <<>> /\ timer' = FALSE /\ Dispose

-----------------------------------------------------------------------------
(* A session is begun.                                                       *)

\* Variant: the run goes on where that of the last session ended.
RunContinues ==
  /\ Created
  /\ pc' = "start"
  /\ UNCHANGED <<feedVars, windows, openWitness, checkpoints, seal, wire, timer, plot>>

\* The run is one that has not started.
SessionCreated ==
  /\ Created
  /\ pc' = "start" /\ windows' = <<>> /\ seal' = NoSeal
  /\ UNCHANGED <<feedVars, openWitness, checkpoints, wire, timer, plot>>

GoLive ==
  /\ EnterLive
  /\ Build
  /\ UNCHANGED <<vars, wire, timer>>

-----------------------------------------------------------------------------
(* The session is live.                                                      *)

\* Variant: a run that fails tells the page nothing.
ToldUnlessItFails ==
  IF windows' # windows THEN <<"checkpoint">> ELSE IF pc' = "sealed" THEN <<"seal">> ELSE <<>>

\* What a step of the run tells the page.
Told ==
  IF windows' # windows THEN <<"checkpoint">>
  ELSE IF pc' = "sealed" THEN <<"seal">>
  ELSE IF pc' = "failed" THEN <<"error">> ELSE <<>>

\* streamMicroPk starts the run.
Connect ==
  /\ Opens
  /\ wire' = <<"started">>
  /\ Start
  /\ UNCHANGED <<timer, plot>>

\* safeSend: only what is sent over an open socket goes anywhere.
ServerStep ==
  /\ pc # "start"
  /\ RunStep
  /\ wire' = IF socket = "open" THEN wire \o Told ELSE wire
  /\ UNCHANGED <<shellVars, timer, plot>>

\* Variant: the latest message is taken first.
Latest(messages) == messages[Len(messages)]

Arriving(messages) == Head(messages)

Receive(type) ==
  /\ socket = "open"
  /\ wire # <<>>
  /\ Arriving(wire) = type
  /\ UNCHANGED vars

Taken == wire' = Tail(wire)

\* startCountdown
OnStarted ==
  /\ Receive("started")
  /\ Taken
  /\ timer' = TRUE
  /\ UNCHANGED <<shellVars, plot>>

OnCheckpoint ==
  /\ Receive("checkpoint")
  /\ Taken
  /\ Push
  /\ UNCHANGED <<shellVars, timer>>

\* Both views tear the live one down first.
Shows(next) ==
  /\ view' = next
  /\ CloseSocket /\ StopWidgets
  /\ UNCHANGED <<kind, mounted, storage, begun, breaks>>

\* showSeal
OnSeal == Receive("seal") /\ Shows("seal")

\* showSetup
OnError == Receive("error") /\ Shows("setup")

\* The countdown clears its own interval.
CountdownEnds ==
  /\ timer
  /\ timer' = FALSE
  /\ UNCHANGED <<vars, shellVars, wire, plot>>

OnMessage == OnStarted \/ OnCheckpoint \/ OnSeal \/ OnError

\* The steps that the two kinds of page share.
SharedStep ==
  \/ (PressBegin \/ BeginFails \/ ClearStorage) /\ UNCHANGED <<wire, timer, plot>>
  \/ (LeavePage \/ Breaks \/ Again) /\ StopWidgets

MicroPkPageNext ==
  /\ kind = MicroKind
  /\ \/ SharedStep /\ UNCHANGED vars
     \/ SessionCreated \/ GoLive \/ Connect \/ ServerStep \/ OnMessage \/ CountdownEnds

-----------------------------------------------------------------------------
(* Correctness.                                                              *)

\* The trace of a live session is that of its own run, of no earlier one, though
\* earlier ones broke off half drawn: the points drawn and those under way are
\* the windows read.
TraceIsTheRun ==
  kind = MicroKind /\ socket = "open" =>
    plot + Cardinality({i \in DOMAIN wire : wire[i] = "checkpoint"}) = Len(windows)

\* The page shows a seal when its own run has sealed, after the whole trace.
SealAfterTrace ==
  [][kind = MicroKind /\ view' = "seal" /\ view # "seal" =>
       pc = "sealed" /\ plot = NumWindows]_<<microVars, shellVars>>

\* A live view ends: in a seal, back at the setup, or with its page.
LiveViewEnds == (kind = MicroKind /\ view = "live") ~> (view # "live" \/ ~mounted)

\* merkle.ts "Bitcoin-style last-node duplication is intentionally NOT used (it
\* admits a known duplicate-leaf ambiguity)": streams of two kinds of windows,
\* however many were read, of a power of two or not, never share a root, so the
\* model may write the root over the first n windows as n.
RootsTellWindowsApart ==
  LET streams == UNION {[1..n -> {0, 1}] : n \in 1..Len(windows)}
  IN Cardinality({Root(s) : s \in streams}) = Cardinality(streams)

CheckpointsComing == Cardinality({i \in DOMAIN wire : wire[i] = "checkpoint"})

\* A session begins with a run that has not started, and all that is drawn, is
\* under way or counts down is of the socket of that session.  Inductive with
\* ShellInv on a page of this kind: implies PageTypeOK, TraceIsTheRun and
\* SealAfterTrace.
TraceInv ==
  /\ BlobInv /\ pc \in {"start", "read", "sealed", "failed"}
  /\ wire \in Seq(StreamMessage) /\ timer \in BOOLEAN
  /\ view = "signing" \/ socket = "connecting" => pc = "start" /\ windows = <<>>
  /\ IF socket \in {"connecting", "open"} THEN plot \in Nat ELSE plot = NoPlot
  /\ socket = "connecting" => plot = 0
  /\ socket # "open" => wire = <<>> /\ ~timer
  /\ socket = "open" => plot + CheckpointsComing = Len(windows)
  /\ \A i \in DOMAIN wire : wire[i] = "seal" => i = Len(wire) /\ pc = "sealed"
=============================================================================

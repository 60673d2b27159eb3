------------------------------ MODULE RunPages ------------------------------
(***************************************************************************)
(* /run: the page that dispatch() of packages/client/src/pages/run.ts      *)
(* renders for the kind of the experiment.                                 *)
(***************************************************************************)
EXTENDS MicroPkPage, PrecogPage

allVars == <<shellVars, microVars, precogVars>>

RunPagesInit == ShellInit /\ PageInit /\ PrecogPageInit

\* Before the kind is known, or if it stays unknown.
Unknown ==
  /\ kind = "unknown"
  /\ ExperimentsArrive \/ LeavePage \/ ClearStorage
  /\ UNCHANGED <<microVars, precogVars>>

MicroPkPlayed == MicroPkPageNext /\ UNCHANGED precogVars

PrecogPlayed == PrecogPageNext /\ UNCHANGED microVars

PageNext == Unknown \/ MicroPkPlayed \/ PrecogPlayed

PageSpec == RunPagesInit /\ [][PageNext]_allVars

(* Requests are answered, the socket connects or fails and delivers, timers  *)
(* run out, and the server runs what is ready.  Nobody has to press a button.*)
PageFairSpec ==
  /\ PageSpec
  /\ WF_allVars(SessionCreated /\ UNCHANGED precogVars) /\ WF_allVars(GoLive /\ UNCHANGED precogVars)
  /\ WF_allVars(Connect /\ UNCHANGED precogVars) /\ WF_allVars(ServerStep /\ UNCHANGED precogVars)
  /\ WF_allVars(OnMessage /\ UNCHANGED precogVars)
  /\ WF_allVars(OnPrecogMessage /\ UNCHANGED microVars)
  /\ WF_allVars(ChoiceSignature /\ UNCHANGED microVars)
  /\ WF_allVars(ServerOfPrecog /\ UNCHANGED microVars)

-----------------------------------------------------------------------------
(* Correctness.                                                              *)

RunPagesTypeOK == PageTypeOK /\ PrecogPageTypeOK

Quiet ==
  /\ ~focus /\ socket \notin {"connecting", "open"}
  /\ ~timer /\ plot = NoPlot
  /\ revealTimer = NoTrial

\* Whatever way a session ends (sealed, failed on the server, a socket that
\* fails early or late, the page left), its socket, countdown, WebGL loop, held
\* prompt and focus mode end with the live view: nothing of it runs under the
\* setup, the seal or the next session's preparation.
QuietUnlessLive == view # "live" => Quiet

\* router.ts:1 "the runner uses it to tear down its WebSocket, timer, and WebGL
\* loop on navigation": none of them runs for a page that was left.
NothingOutlivesItsPage == ~mounted => Quiet

\* Inductive: a page of one kind never touches what is of the other.
PagesInv ==
  /\ ShellInv
  /\ IF kind = MicroKind THEN TraceInv ELSE PageInit
  /\ IF kind = PrecogKind THEN DialogueInv ELSE PrecogPageInit
=============================================================================

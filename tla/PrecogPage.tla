----------------------------- MODULE PrecogPage -----------------------------
(***************************************************************************)
(* The page that a precognition session is played on                       *)
(* (packages/client/src/pages/run/precog.ts) and its two-way socket, with  *)
(* streamPrecog as the page meets it: what it answers and in which order.  *)
(* The inside of streamPrecog, and why it may fail, is module Precog.      *)
(***************************************************************************)
EXTENDS RunPage, Sequences, FiniteSets

CONSTANTS
  Valence,        \* the choices of the experiment
  NoValence,      \* currentChoice is null
  Trials,         \* trialsPerSession
  Witnessed       \* is a witness configured

PrecogKind == "precognition-presentiment"

ASSUME PrecogPageAssumption ==
  /\ PrecogKind \in Kinds /\ NoValence \notin Valence
  /\ Trials \in Nat \ {0} /\ Witnessed \in BOOLEAN

VARIABLES
  stage,          \* what the stage of the live view shows
  shown,          \* the trial that the last prompt was for
  currentChoice,
  revealTimer,    \* the trial whose prompt waits for the last reveal, or NoTrial
  revealHeld,     \* is it before revealUntil
  signing,        \* the commits that signPrecommit is signing, of any session
  downlink,       \* messages under way to the page
  uplink,         \* messages under way to the server
  run             \* streamPrecog: what it waits for, the trial, the choice it bound

stageVars == <<stage, shown, currentChoice, revealTimer, revealHeld, signing>>
precogVars == <<stageVars, downlink, uplink, run>>

NoTrial == Trials
TrialIndex == 0..(Trials - 1)

\* openPrecogStream knows these messages.
PrecogMessage == {"started", "trial", "pending", "sensing", "reveal", "seal", "error"}

Message(type, index) == [type |-> type, index |-> index]
ChoiceSent(index, choice) ==
  [type |-> "choice", session |-> begun, index |-> index, choice |-> choice, key |-> CachedKey]

\* trialCommit, and the key that signPrecommit reads as it begins.
Commit(index) == [session |-> begun, index |-> index, choice |-> currentChoice, key |-> storage.key]

SignSent(commit) ==
  [type |-> "sign", session |-> commit.session, index |-> commit.index,
   choice |-> commit.choice, key |-> commit.key]

Waits(for, trial, choice) == [waits |-> for, trial |-> trial, choice |-> choice]
NoRun == Waits("nothing", 0, NoValence)

PrecogPageTypeOK ==
  /\ stage \in {"none", "empty", "choice", "waiting", "sensing", "reveal"}
  /\ shown \in TrialIndex \cup {NoTrial} /\ revealTimer \in TrialIndex \cup {NoTrial}
  /\ currentChoice \in Valence \cup {NoValence} /\ revealHeld \in BOOLEAN
  /\ \A i \in DOMAIN downlink : downlink[i].type \in PrecogMessage

PrecogPageInit ==
  /\ stage = "none" /\ shown = NoTrial /\ currentChoice = NoValence
  /\ revealTimer = NoTrial /\ revealHeld = FALSE /\ signing = {}
  /\ downlink = <<>> /\ uplink = <<>> /\ run = NoRun

-----------------------------------------------------------------------------
(* streamPrecog.                                                             *)

\* safeSend
Tell(messages) == downlink' = IF socket = "open" THEN downlink \o messages ELSE downlink

\* The open is witnessed: the trial loop begins.
RunStarts ==
  /\ run.waits = "open"
  /\ run' = [run EXCEPT !.waits = "choice"]
  /\ Tell(<<Message("started", 0), Message("trial", 0)>>)
  /\ UNCHANGED uplink

\* onChoice: the choice is bound to a target.
ChoiceBound ==
  /\ uplink # <<>> /\ Head(uplink).type = "choice"
  /\ run.waits = "choice" /\ Head(uplink).index = run.trial
  /\ run' = [run EXCEPT !.waits = "sign", !.choice = Head(uplink).choice]
  /\ Tell(<<Message("pending", run.trial)>>)
  /\ uplink' = Tail(uplink)

\* It verifies as the session's own key over the session's own trialCommit.
Genuine(m) == m.session = begun /\ m.key = CachedKey /\ m.choice = run.choice

\* onSign: a signature that does not verify voids the session.
SignHeard ==
  /\ uplink # <<>> /\ Head(uplink).type = "sign"
  /\ run.waits = "sign" /\ Head(uplink).index = run.trial
  /\ IF Genuine(Head(uplink))
     THEN /\ run' = [run EXCEPT !.waits = "target"]
          /\ Tell(IF Witnessed THEN <<Message("sensing", run.trial)>> ELSE <<>>)
     ELSE /\ run' = [run EXCEPT !.waits = "nothing"]
          /\ Tell(<<Message("error", run.trial)>>)
  /\ uplink' = Tail(uplink)

MessageIgnored ==
  /\ uplink # <<>>
  /\ Head(uplink).type # run.waits \/ Head(uplink).index # run.trial
  /\ uplink' = Tail(uplink)
  /\ UNCHANGED <<downlink, run>>

\* The target round is there: reveal, then the next trial or the seal.
TargetRevealed ==
  /\ run.waits = "target"
  /\ LET next == run.trial + 1
     IN IF next < Trials
        THEN /\ run' = Waits("choice", next, NoValence)
             /\ Tell(<<Message("reveal", run.trial), Message("trial", next)>>)
        ELSE /\ run' = Waits("seal", next, NoValence)
             /\ Tell(<<Message("reveal", run.trial)>>)
  /\ UNCHANGED uplink

RunSeals ==
  /\ run.waits = "seal"
  /\ run' = [run EXCEPT !.waits = "nothing"]
  /\ Tell(<<Message("seal", run.trial)>>)
  /\ UNCHANGED uplink

\* Variant: the page is not told.
FailsSilently == UNCHANGED downlink

FailTold == Tell(<<Message("error", run.trial)>>)

\* fail(): the quorum is not reached, the beacon fails or is late.
StreamFails ==
  /\ run.waits \in {"open", "choice", "sign", "target"}
  /\ run.waits = "choice" => uplink # <<>> /\ Head(uplink).type = "choice"
  /\ run' = [run EXCEPT !.waits = "nothing"]
  /\ FailTold
  /\ UNCHANGED uplink

\* What seal() throws ends the process; the page has no handler for a socket
\* that is closed.
ServerDies ==
  /\ run.waits = "seal"
  /\ run' = [run EXCEPT !.waits = "nothing"]
  /\ UNCHANGED <<downlink, uplink>>

RunStepOfPrecog ==
  \/ RunStarts \/ ChoiceBound \/ SignHeard \/ MessageIgnored \/ TargetRevealed \/ RunSeals \/ StreamFails

-----------------------------------------------------------------------------
(* A session is begun.                                                       *)

\* The button of the consent gate.
Consent ==
  /\ mounted
  /\ view = "gate"
  /\ view' = "setup"
  /\ storage' = [storage EXCEPT !.consent = TRUE]
  /\ UNCHANGED <<kind, mounted, socket, focus, begun, breaks, precogVars>>

PrecogCreated ==
  /\ Created
  /\ run' = NoRun
  /\ UNCHANGED <<stageVars, downlink, uplink>>

PrecogGoLive ==
  /\ EnterLive
  /\ stage' = "empty"
  /\ UNCHANGED <<shown, currentChoice, revealTimer, revealHeld, signing, downlink, uplink, run>>

PrecogConnect ==
  /\ Opens
  /\ run' = [NoRun EXCEPT !.waits = "open"]
  /\ UNCHANGED <<stageVars, downlink, uplink>>

\* Variant: the timer of the next prompt goes on.
KeepTimer == UNCHANGED revealTimer

ClearTimer == revealTimer' = NoTrial

\* teardown(), beside the socket, and the stage that the next view replaces.
\* What signPrecommit is signing it goes on with.
StopStage ==
  /\ ClearTimer
  /\ stage' = "none"
  /\ downlink' = <<>> /\ uplink' = <<>>
  /\ run' = NoRun
  /\ UNCHANGED <<shown, currentChoice, revealHeld, signing>>

-----------------------------------------------------------------------------
(* The session is live.                                                      *)

Arrives(type) ==
  /\ socket = "open"
  /\ downlink # <<>> /\ Head(downlink).type = type

OnPrecogStarted ==
  /\ Arrives("started")
  /\ downlink' = Tail(downlink)
  /\ UNCHANGED <<shellVars, stageVars, uplink, run>>

\* onTrial: the prompt waits until the last reveal has been held.
OnTrial ==
  /\ Arrives("trial")
  /\ downlink' = Tail(downlink)
  /\ revealTimer' = Head(downlink).index
  /\ UNCHANGED <<shellVars, stage, shown, currentChoice, revealHeld, signing, uplink, run>>

\* revealHoldMs have passed since the last reveal.
HoldPasses ==
  /\ revealHeld
  /\ revealHeld' = FALSE
  /\ UNCHANGED <<shellVars, stage, shown, currentChoice, revealTimer, signing, downlink, uplink, run>>

ShowChoice ==
  /\ revealTimer # NoTrial
  /\ ~revealHeld
  /\ stage' = "choice" /\ shown' = revealTimer /\ currentChoice' = NoValence
  /\ revealTimer' = NoTrial
  /\ UNCHANGED <<shellVars, revealHeld, signing, downlink, uplink, run>>

\* PrecogSocket.send: only over an open socket.
Sends(m) == uplink' = IF socket = "open" THEN Append(uplink, m) ELSE uplink

\* Variant: the buttons stay enabled.
StillPressable == stage = "choice"

Pressable == stage = "choice" /\ currentChoice = NoValence

PressChoice ==
  /\ mounted
  /\ Pressable
  /\ \E c \in Valence : currentChoice' = c /\ Sends(ChoiceSent(shown, c))
  /\ UNCHANGED <<shellVars, stage, shown, revealTimer, revealHeld, signing, downlink, run>>

\* onPending: the choice that was made is to be signed.
OnPending ==
  /\ Arrives("pending")
  /\ downlink' = Tail(downlink)
  /\ IF currentChoice = NoValence
     THEN UNCHANGED <<stage, signing>>
     ELSE stage' = "waiting" /\ signing' = signing \cup {Commit(Head(downlink).index)}
  /\ UNCHANGED <<shellVars, shown, currentChoice, revealTimer, revealHeld, uplink, run>>

\* signPrecommit has signed: the signature goes over the socket of now, whichever
\* session it is of.
ChoiceSignature ==
  /\ \E commit \in signing : signing' = signing \ {commit} /\ Sends(SignSent(commit))
  /\ UNCHANGED <<shellVars, stage, shown, currentChoice, revealTimer, revealHeld, downlink, run>>

OnSensing ==
  /\ Arrives("sensing")
  /\ downlink' = Tail(downlink)
  /\ stage' = "sensing"
  /\ UNCHANGED <<shellVars, shown, currentChoice, revealTimer, revealHeld, signing, uplink, run>>

\* showReveal, and revealUntil is set.
OnReveal ==
  /\ Arrives("reveal")
  /\ downlink' = Tail(downlink)
  /\ stage' = "reveal" /\ revealHeld' = TRUE
  /\ UNCHANGED <<shellVars, shown, currentChoice, revealTimer, signing, uplink, run>>

\* showSeal, showSetup
Replaced(next) ==
  /\ view' = next
  /\ CloseSocket /\ StopStage
  /\ UNCHANGED <<kind, mounted, storage, begun, breaks>>

OnPrecogSeal == Arrives("seal") /\ Replaced("seal")

OnPrecogError == Arrives("error") /\ Replaced("setup")

OnPrecogMessage ==
  OnPrecogStarted \/ OnTrial \/ OnPending \/ OnSensing \/ OnReveal \/ OnPrecogSeal \/ OnPrecogError

PrecogSharedStep ==
  \/ (PressBegin \/ BeginFails \/ ClearStorage) /\ UNCHANGED precogVars
  \/ (LeavePage \/ Breaks \/ Again) /\ StopStage

ServerOfPrecog == (RunStepOfPrecog \/ ServerDies) /\ UNCHANGED <<shellVars, stageVars>>

PrecogPageNext ==
  /\ kind = PrecogKind
  /\ \/ PrecogSharedStep \/ Consent \/ PrecogCreated \/ PrecogGoLive \/ PrecogConnect
     \/ OnPrecogMessage \/ HoldPasses \/ ShowChoice \/ PressChoice \/ ChoiceSignature
     \/ ServerOfPrecog

-----------------------------------------------------------------------------
(* Correctness.                                                              *)

\* verifyEd25519 of onSign refuses no signature that the page makes in this
\* session: it is over the choice that was bound, though the prompt, the choice
\* and the signature are of different callbacks and share currentChoice with those
\* of sessions that broke off.  Only an operator who cleared the site data has
\* another key than the one the session was created with.  A signature that an
\* earlier session has left in signPrecommit is sent as well, and is refused.
SignaturesAreAccepted ==
  uplink # <<>> /\ Head(uplink).type = "sign" /\ Head(uplink).session = begun /\ run.waits = "sign" =>
    Genuine(Head(uplink)) \/ storage.key # CachedKey

\* A choice made on the page is answered there by its reveal, or the session ends
\* or the page is left: the page never waits for a message that does not come.
ChoiceIsAnswered ==
  (view = "live" /\ stage = "choice" /\ currentChoice # NoValence)
    ~> (stage = "reveal" \/ view # "live" \/ ~mounted)

-----------------------------------------------------------------------------
(* The dialogue, and who holds the turn in it.                               *)

Choices == Valence \cup {NoValence}

DownlinkMessage == [type : PrecogMessage, index : 0..Trials]

UplinkMessage ==
  [type : {"choice", "sign"}, session : Nat, index : 0..Trials, choice : Choices, key : 0..MaxClears]

CommitType == [session : Nat, index : 0..Trials, choice : Choices, key : 0..MaxClears]

RunType ==
  [waits : {"nothing", "open", "choice", "sign", "target", "seal"}, trial : 0..Trials, choice : Choices]

Coming(type) == \E i \in DOMAIN downlink : downlink[i].type = type

ComesOnce(type) ==
  \A i, j \in DOMAIN downlink : downlink[i].type = type /\ downlink[j].type = type => i = j

\* No prompt is on its way to the page.
NoPromptDue == ~Coming("trial") /\ revealTimer = NoTrial

\* The commits of this session that are being signed.
OwnCommits == {commit \in signing : commit.session = begun}

\* No choice is on its way to its signature.
NothingToSign == ~Coming("pending") /\ OwnCommits = {}

\* What an earlier session has left on the uplink is a signature.
IsOwn(m) == m.type = "choice" \/ m.session = begun

\* What the page has said in this session and the server has not heard.
Unheard == {uplink[i] : i \in {j \in DOMAIN uplink : IsOwn(uplink[j])}}

UnheardOnce == \A i, j \in DOMAIN uplink : IsOwn(uplink[i]) /\ IsOwn(uplink[j]) => i = j

\* The session's key, unless it is no longer the one that is stored.
KeyOf(signed) == signed.key = CachedKey \/ storage.key # CachedKey

DialogueTypes ==
  /\ PrecogPageTypeOK
  /\ downlink \in Seq(DownlinkMessage) /\ uplink \in Seq(UplinkMessage)
  /\ run \in RunType
  /\ run.waits \in {"open", "choice", "sign", "target"} => run.trial \in TrialIndex
  /\ signing \subseteq CommitType

\* Nothing of a dialogue is left over for the next one but what is being signed,
\* and that is of its own session.
ApartInv ==
  /\ socket # "open" => /\ downlink = <<>> /\ uplink = <<>> /\ run = NoRun
                        /\ revealTimer = NoTrial /\ stage # "choice"
  /\ \A commit \in signing : commit.session <= begun
  /\ view \in {"committing", "signing"} \/ socket = "connecting" => OwnCommits = {}

OpenInv ==
  run.waits = "open" =>
    downlink = <<>> /\ Unheard = {} /\ revealTimer = NoTrial /\ stage # "choice" /\ OwnCommits = {}

\* A prompt is on its way, or can be answered, or has been.
ChoiceInv ==
  run.waits = "choice" =>
    /\ NothingToSign
    /\ ComesOnce("trial") /\ (Coming("trial") => revealTimer = NoTrial)
    /\ ~NoPromptDue => ~Pressable
    /\ ~NoPromptDue \/ Pressable => Unheard = {}
    /\ UnheardOnce
    /\ \A m \in Unheard : m.type = "choice" /\ m.choice = currentChoice /\ currentChoice \in Valence

\* The choice that was bound is to be signed, or is being signed, or has been.
SignInv ==
  run.waits = "sign" =>
    /\ NoPromptDue /\ currentChoice \in Valence /\ run.choice = currentChoice
    /\ ComesOnce("pending") /\ (Coming("pending") => OwnCommits = {})
    /\ \A c, d \in OwnCommits : c = d
    /\ ~NothingToSign => Unheard = {}
    /\ UnheardOnce
    /\ \A c \in OwnCommits : c.choice = currentChoice /\ KeyOf(c)
    /\ \A m \in Unheard : m.type = "sign" /\ m.choice = currentChoice /\ KeyOf(m)

TargetInv ==
  run.waits \in {"target", "seal"} =>
    NoPromptDue /\ NothingToSign /\ Unheard = {} /\ currentChoice \in Valence

\* Inductive with ShellInv on a page of this kind: implies SignaturesAreAccepted.
DialogueInv == DialogueTypes /\ ApartInv /\ OpenInv /\ ChoiceInv /\ SignInv /\ TargetInv
=============================================================================

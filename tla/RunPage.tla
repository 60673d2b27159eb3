------------------------------ MODULE RunPage -------------------------------
(***************************************************************************)
(* What the pages that a session is played on have in common: one          *)
(* rendering of /run (packages/client/src/pages/run.ts), the router that   *)
(* may leave it at any time (router.ts), the way a session is begun, its   *)
(* WebSocket (api.ts) and the key of the browser (identity.ts).            *)
(* MicroPkPage and PrecogPage are the two kinds of it.                     *)
(***************************************************************************)
EXTENDS Naturals

CONSTANTS
  Kinds,           \* the kinds that dispatch() knows
  ContentWarning,  \* kinds whose experiments carry a content warning
  MaxSessions,     \* bound: sessions that are begun
  MaxBreaks,       \* bound: connections that break
  MaxClears        \* bound: times that the site data of the browser are cleared

ASSUME RunPageAssumption ==
  /\ ContentWarning \subseteq Kinds
  /\ MaxSessions \in Nat /\ MaxBreaks \in Nat /\ MaxClears \in Nat

VARIABLES
  kind,      \* the kind of the experiment, once it is known
  view,      \* what the page shows, or what it awaits before it can show it
  mounted,   \* is it the page of the outlet
  socket,    \* the WebSocket of openStream or openPrecogStream
  focus,     \* has body the class focus
  storage,   \* localStorage: the operator's key and the consent
  begun,     \* sessions begun so far
  breaks     \* connections broken so far

shellVars == <<kind, view, mounted, socket, focus, storage, begun, breaks>>

Views == {"loading", "missing", "gate", "setup", "committing", "refused", "signing", "live", "seal"}

ShellTypeOK ==
  /\ kind \in Kinds \cup {"unknown"}
  /\ view \in Views
  /\ mounted \in BOOLEAN /\ focus \in BOOLEAN
  /\ socket \in {"none", "connecting", "open", "aborted"}
  /\ storage \in [key : 0..MaxClears, consent : BOOLEAN]
  /\ begun \in 0..MaxSessions

\* cachedPub: the key that was stored when the shell started.
CachedKey == 0

ShellInit ==
  /\ kind = "unknown" /\ view = "loading" /\ mounted = TRUE
  /\ socket = "none" /\ focus = FALSE
  /\ storage = [key |-> CachedKey, consent |-> FALSE]
  /\ begun = 0 /\ breaks = 0

-----------------------------------------------------------------------------
(* The page comes and goes.                                                  *)

\* start() of a kind with a content warning asks for consent first.
FirstView(k) == IF k \in ContentWarning /\ ~storage.consent THEN "gate" ELSE "setup"

\* renderRun: the experiments arrive, unless the page was disposed of meanwhile.
ExperimentsArrive ==
  /\ view = "loading" /\ mounted
  /\ \/ \E k \in Kinds : kind' = k /\ view' = FirstView(k)
     \/ view' = "missing" /\ UNCHANGED kind
  /\ UNCHANGED <<mounted, socket, focus, storage, begun, breaks>>

\* A socket that is closed before it is open still fires its error.
CloseSocket ==
  /\ socket' = IF socket = "connecting" THEN "aborted" ELSE "none"
  /\ focus' = FALSE

\* The router renders another page, and calls the disposer of this one.
LeavePage ==
  /\ mounted
  /\ mounted' = FALSE
  /\ CloseSocket
  /\ UNCHANGED <<kind, view, storage, begun, breaks>>

\* The operator clears the site data: privateKey() makes another key.
ClearStorage ==
  /\ storage.key < MaxClears
  /\ storage' = [key |-> storage.key + 1, consent |-> FALSE]
  /\ UNCHANGED <<kind, view, mounted, socket, focus, begun, breaks>>

-----------------------------------------------------------------------------
(* A session is begun: begin() awaits the server twice.                      *)

PressBegin ==
  /\ mounted
  /\ view = "setup"
  /\ begun < MaxSessions
  /\ begun' = begun + 1
  /\ view' = "committing"
  /\ UNCHANGED <<kind, mounted, socket, focus, storage, breaks>>

\* createSession answers, for the cached key; signPrecommit signs with the
\* stored one.
Created ==
  /\ view = "committing"
  /\ view' = IF storage.key = CachedKey THEN "signing" ELSE "refused"
  /\ UNCHANGED <<kind, mounted, socket, focus, storage, begun, breaks>>

\* Either request fails: the button works again.
BeginFails ==
  /\ view \in {"committing", "signing", "refused"}
  /\ view' = "setup"
  /\ UNCHANGED <<kind, mounted, socket, focus, storage, begun, breaks>>

\* submitSignature answers: goLive, whether the page is still there or not.
EnterLive ==
  /\ view = "signing"
  /\ view' = "live"
  /\ focus' = TRUE /\ socket' = "connecting"
  /\ UNCHANGED <<kind, mounted, storage, begun, breaks>>

\* The upgrade is accepted.
Opens ==
  /\ socket = "connecting"
  /\ socket' = "open"
  /\ UNCHANGED <<kind, view, mounted, focus, storage, begun, breaks>>

\* ws.onerror: the upgrade is refused, or the connection breaks; also when the
\* socket was closed before it was open.
Breaks ==
  /\ \/ socket = "aborted" /\ UNCHANGED breaks
     \/ socket \in {"connecting", "open"} /\ breaks < MaxBreaks /\ breaks' = breaks + 1
  /\ view' = "setup" /\ socket' = "none" /\ focus' = FALSE
  /\ UNCHANGED <<kind, mounted, storage, begun>>

Again ==
  /\ mounted
  /\ view = "seal"
  /\ view' = "setup"
  /\ CloseSocket
  /\ UNCHANGED <<kind, mounted, storage, begun, breaks>>

-----------------------------------------------------------------------------

\* The socket and the focus mode are those of a live view.
ShellInv ==
  /\ ShellTypeOK
  /\ focus <=> socket \in {"connecting", "open"}
  /\ focus => view = "live"
=============================================================================

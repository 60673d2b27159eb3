----------------------------- MODULE SessionLog -----------------------------
(***************************************************************************)
(* What the ledger promises a reader about sessions, with no server in     *)
(* sight: a log that only grows, in which a session is opened at most once *)
(* and sealed at most once, and only after it was opened.  Protocol        *)
(* sections 7 and 9; SessionSpine implements it.                           *)
(***************************************************************************)
EXTENDS Naturals, Sequences

CONSTANTS Session, NoSession

VARIABLE log      \* sequence of [type, session]

Logged(type, s) == \E i \in DOMAIN log : log[i] = [type |-> type, session |-> s]

Write(type, s) == log' = Append(log, [type |-> type, session |-> s])

Init == log = <<>>

Genesis == log = <<>> /\ Write("genesis", NoSession)

Anchor == log # <<>> /\ Write("external.anchor", NoSession)

Open(s) == log # <<>> /\ ~Logged("session.open", s) /\ Write("session.open", s)

Seal(s) ==
  /\ Logged("session.open", s)
  /\ ~Logged("session.seal", s)
  /\ Write("session.seal", s)

Next == Genesis \/ Anchor \/ \E s \in Session : Open(s) \/ Seal(s)

Spec == Init /\ [][Next]_log
=============================================================================

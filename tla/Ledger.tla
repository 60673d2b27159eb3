------------------------------- MODULE Ledger -------------------------------
(***************************************************************************)
(* The hash chain of packages/core/src/ledger.ts and the file operations   *)
(* of packages/server/src/ledgerStore.ts, as constant operators.           *)
(*                                                                         *)
(* An entry hash is a natural number that the writer takes from a counter: *)
(* two entries never share one, which is what SHA-256 over the five        *)
(* fields promises.  The payload is reduced to the session it names and    *)
(* to ref, the one hash inside it that points at another entry.            *)
(***************************************************************************)
EXTENDS Naturals, Integers, Sequences

CONSTANTS Session,      \* session ids (randomUUID)
          NoSession     \* the session of an entry that names none

ASSUME SessionAssumption == NoSession \notin Session

GenesisPrev == 0

\* The types that are written to this file.
EntryType == {"genesis", "session.open", "session.seal", "external.anchor"}

\* Lines that JSON.parse rejects: "torn" still lacks its newline, "garbled" has
\* swallowed the line written after it.
BadLine == {"torn", "garbled"}

Entry == [type : EntryType, session : Session \cup {NoSession},
          seq : Nat, prevHash : Nat, ref : Nat, hash : Nat \ {GenesisPrev}]

Unreadable(kind) == [type |-> kind, session |-> NoSession, seq |-> 0,
                     prevHash |-> GenesisPrev, ref |-> GenesisPrev, hash |-> GenesisPrev]

\* LedgerStore.head when it is null.
NoEntry == [type |-> "none", session |-> NoSession, seq |-> 0,
            prevHash |-> GenesisPrev, ref |-> GenesisPrev, hash |-> GenesisPrev]

Line == Entry \cup {Unreadable(kind) : kind \in BadLine}

\* head ? head.entryHash : GENESIS_PREV
HeadHash(head) == IF head = NoEntry THEN GenesisPrev ELSE head.hash

\* Variant: the sequence number is not advanced.
SameSeq(prev, type, session, ref, hash) ==
  [type |-> type, session |-> session,
   seq |-> IF prev = NoEntry THEN 0 ELSE prev.seq,
   prevHash |-> HeadHash(prev), ref |-> ref, hash |-> hash]

\* Append a new entry after prev; NoEntry makes the genesis entry.
AppendEntry(prev, type, session, ref, hash) ==
  [type |-> type, session |-> session,
   seq |-> IF prev = NoEntry THEN 0 ELSE prev.seq + 1,
   prevHash |-> HeadHash(prev), ref |-> ref, hash |-> hash]

-----------------------------------------------------------------------------
(* What verifyChain looks at.  Its third test, the recomputed hash, holds of *)
(* every line a store wrote.                                                 *)

BadAt(entries, i) ==
  \/ entries[i].seq # (IF i = 1 THEN 0 ELSE entries[i-1].seq + 1)
  \/ entries[i].prevHash # (IF i = 1 THEN GenesisPrev ELSE entries[i-1].hash)

\* Index (from 0, as in the code) of the first bad entry, or -1.
VerifyChain(entries) ==
  IF \E i \in DOMAIN entries : BadAt(entries, i)
  THEN (CHOOSE i \in DOMAIN entries :
           BadAt(entries, i) /\ \A j \in 1..(i-1) : ~BadAt(entries, j)) - 1
  ELSE -1

-----------------------------------------------------------------------------
(* The file: one line per entry.                                             *)

Parses(line) == line.type \notin BadLine

\* The constructor parses the last line, and throws when it cannot.
CanOpen(file) == file # <<>> => Parses(file[Len(file)])

\* Variant: the store resumes from the first line.
FirstLine(file) == IF file = <<>> THEN NoEntry ELSE file[1]

ReadHead(file) == IF file = <<>> THEN NoEntry ELSE file[Len(file)]

\* appendFileSync(path, line + newline): a line that has no newline swallows
\* what is appended after it.
WriteLine(file, line) ==
  IF file # <<>> /\ file[Len(file)].type = "torn"
  THEN [file EXCEPT ![Len(file)] = Unreadable("garbled")]
  ELSE Append(file, line)

\* What an interrupted appendFileSync may leave: nothing, or part of a line (that
\* all of it but the newline is there is left out).
BrokenWrites(file) ==
  {file, IF file # <<>> /\ file[Len(file)].type = "torn"
         THEN file ELSE Append(file, Unreadable("torn"))}
=============================================================================

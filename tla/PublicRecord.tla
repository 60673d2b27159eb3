---------------------------- MODULE PublicRecord ----------------------------
(***************************************************************************)
(* The public side of the server: the read-only routes over a cached       *)
(* ledger (ledgerReader.ts, app.ts) and the contacts that candidates leave *)
(* (contactStore.ts), beside everything of SessionSpine that writes the    *)
(* file meanwhile.                                                         *)
(*                                                                         *)
(* The routes are synchronous.  A GET that meets a line it cannot parse    *)
(* throws out of the request handler, and nothing catches it: the process  *)
(* ends.  The contact route has a try of its own.                          *)
(***************************************************************************)
EXTENDS SessionSpine, LedgerReader

CONSTANT MaxContacts    \* bound: contacts that are saved

ASSUME RecordAssumption ==
  /\ MaxContacts \in Nat
  /\ Attended = {s \in Session : IsPrecogSeal(OutcomeOf[s])}

VARIABLES
  cacheKey,   \* LedgerReader.cacheKey
  cached,     \* LedgerReader.cached
  contacts    \* the contact file: who, and how long the ledger was then

recordVars == <<cacheKey, cached, contacts>>
allVars == <<vars, recordVars>>

\* Size and mtime: every write adds a line or glues onto a torn one.
Stat(f) == [lines |-> Len(f), last |-> IF f = <<>> THEN "none" ELSE f[Len(f)].type]

NoKey == [lines |-> 0, last |-> "none"]

\* Who left a contact, and the ledger that the score was read from.
ContactRecord == [operator : Operator, at : Nat]

RecordTypeOK ==
  /\ cacheKey \in [lines : Nat, last : EntryType \cup BadLine \cup {"none"}]
  /\ cached \in Seq(Entry)
  /\ \A i \in DOMAIN Rows(cached) : Rows(cached)[i] \in SessionSummary
  /\ contacts \in Seq(ContactRecord)

RecordInit ==
  /\ Init
  /\ cacheKey = NoKey
  /\ cached = <<>>
  /\ contacts = <<>>

-----------------------------------------------------------------------------
(* LedgerReader.entries.                                                     *)

AllParse(f) == \A i \in DOMAIN f : Parses(f[i])

\* Variant: a bad line is let through.
AnyLine == TRUE

\* JSON.parse is only reached when the key has changed.
CanServe == cacheKey = Stat(file) \/ AllParse(file)

\* statSync and readFileSync in one step: an append of another process that falls
\* between them only makes the key older than what is held.
Refresh ==
  IF cacheKey = Stat(file)
  THEN UNCHANGED <<cacheKey, cached>>
  ELSE cacheKey' = Stat(file) /\ cached' = file

\* Variant: the key is taken before the lines are parsed.
KeyFirst == cacheKey' = Stat(file) /\ UNCHANGED cached

\* JSON.parse throws before the key is taken.
RefreshThrows == UNCHANGED <<cacheKey, cached>>

NewReader == cacheKey' = NoKey /\ cached' = <<>>

-----------------------------------------------------------------------------
(* The routes.                                                               *)

\* GET stats, leaderboard, psi, experiments, sessions, sessions/:id.
ServeGet ==
  /\ up
  /\ CanServe
  /\ Refresh
  /\ UNCHANGED <<vars, contacts>>

GetThrows ==
  /\ up
  /\ ~CanServe
  /\ MemoryLost
  /\ NewReader
  /\ UNCHANGED <<storeVars, cliHead, requested, contacts>>

\* Variant: whoever has scored is eligible.
AnyScore(op) == PsiForOperator(Rows(cached'), op).scored > 0

Eligible(op) == PsiForOperator(Rows(cached'), op).isCandidate

\* handleContact, after its body: the score is recomputed now.
SubmitContact(op) ==
  /\ up
  /\ CanServe
  /\ Len(contacts) < MaxContacts
  /\ Refresh
  /\ contacts' = IF Eligible(op)
                 THEN Append(contacts, [operator |-> op, at |-> Len(cached')])
                 ELSE contacts
  /\ UNCHANGED vars

\* The reader throws: 400.
ContactThrows ==
  /\ up
  /\ ~CanServe
  /\ RefreshThrows
  /\ UNCHANGED <<vars, contacts>>

-----------------------------------------------------------------------------

\* A step of the spine; a reader goes with its process.
SpineStep ==
  /\ Next
  /\ IF up' THEN UNCHANGED <<cacheKey, cached>> ELSE NewReader
  /\ UNCHANGED contacts

RecordNext ==
  \/ SpineStep
  \/ ServeGet \/ GetThrows \/ ContactThrows
  \/ \E op \in Operator : SubmitContact(op)

RecordSpec == RecordInit /\ [][RecordNext]_allVars

\* SessionSpine!FairSpec among readers: nobody has to read.
RecordFairSpec ==
  /\ RecordSpec
  /\ \A s \in Session : WF_vars(SignStep(s)) /\ WF_vars(StartStream(s))
  /\ \A s \in Session \ Attended : WF_vars(RunStep(s))

-----------------------------------------------------------------------------
(* Correctness.                                                              *)

\* ledgerReader.ts "invalidated by the file's size+mtime": a cache whose key is
\* that of the file holds the file, and at all times what it holds is what the
\* file once was, through reads that fail on a torn line, writes of two
\* processes, crashes and restarts.
CacheTrue ==
  /\ cacheKey = Stat(file) => cached = file
  /\ Len(cached) <= Len(file)
  /\ \A i \in DOMAIN cached : cached[i] = file[i]

\* "a freshly sealed session shows up without a restart": if the ledger can be
\* read at all, a session whose run has sealed is joined with its seal, and what
\* its page is served passes verifySession, on whatever head it was committed and
\* whatever was lost, restarted or retried since.
SealedIsPublic ==
  \A s \in Session :
    (job[s] = "sealed" /\ AllParse(file)) =>
      /\ HasSeal(file, s)
      /\ Known(file, s) /\ Detail(file, s).seal # NoEntry
      /\ SessionVerifies(Detail(file, s))

\* D15: whoever left a contact was a candidate on the public ledger as it was
\* then, which anybody can recompute from the first lines of the file: the route
\* reads through a cache, after other sessions, faults and restarts.
ContactsEarned ==
  \A c \in DOMAIN contacts :
    LET then == SubSeq(file, 1, contacts[c].at)
        psi == PsiForOperator(Rows(then), contacts[c].operator)
    IN AllParse(then) /\ psi.tier = Len(Tiers) /\ psi.scored >= MinSessions

\* What a page may have been served.
Served(k) == Rows(SubSeq(file, 1, k))

\* profile.ts asks for the sessions and for the board at once, and each is
\* answered from the ledger as it is by then.  When the sessions were read first,
\* a player who has scored is shown a place on the board that is read now, and
\* nobody else has that place.
RankIsAPlace ==
  cached = file =>
    LET rows == Rows(file)
        board == Board(rows)
    IN \A op \in Operator :
         (\E list \in 0..Len(file) : PsiForOperator(Served(list), op).scored > 0) =>
           /\ Rank(rows, board, op) \in 1..Cardinality(Ranked(board))
           /\ \A other \in Ranked(board) :
                Rank(rows, board, other) = Rank(rows, board, op) => other = op

\* The routes agree about one ledger: the sessions of all players, those of all
\* experiments and the total are the same number, and so are the sealed ones by
\* choice and by experiment; the sums of z by choice are the sum of all; the
\* candidates are among the eligible, a |z| above 3 is one above 2, and the ten
\* extremes take in the anomalies that were counted; and for a player of no more
\* sessions than a list may have, the list is complete and the trend of the profile
\* page ends at the score.
TotalsAgree ==
  LET rows == Rows(cached)
      stats == GlobalStats(rows)
      board == Board(rows)
      shelf == Experiments(rows)
  IN /\ stats.sessions = Total([op \in DOMAIN board |-> board[op].total])
     /\ stats.sessions = Total([x \in DOMAIN shelf |-> shelf[x].total])
     /\ stats.sealed = Total([x \in DOMAIN shelf |-> shelf[x].sealed])
     /\ stats.sealed = Total([c \in Choice |-> stats.byChoice[c].n])
     /\ \A c \in Choice :
          stats.byChoice[c].n = Total([x \in DOMAIN shelf |-> shelf[x].byChoice[c]])
     /\ Total([i \in DOMAIN rows |-> rows[i].z]) = Total([c \in Choice |-> stats.byChoice[c].sum])
     /\ stats.totalBits = Total([i \in DOMAIN rows |-> rows[i].bits])
     /\ Candidates(board) \subseteq EligibleOperators(board)
     /\ stats.z3 \subseteq stats.z2
     /\ Cardinality(stats.z2) <= 10 => stats.z2 \subseteq stats.extremes
     /\ \A op \in DOMAIN board :
          LET list == SessionList(rows, op, RowLimit)
              trend == Trend(list)
          IN board[op].total <= RowLimit =>
               /\ Cardinality(DOMAIN list) = board[op].total
               /\ trend[Max(DOMAIN trend)] = PsiForOperator(rows, op)

-----------------------------------------------------------------------------
(* Inductive invariants of PublicRecordProofs.                               *)

\* What is cached was parsed, so a write that glues onto a torn line does not
\* change it, and its key is behind the file for good once the file has grown.
CacheInv ==
  /\ cached \in Seq(Entry)
  /\ cacheKey \in [lines : Nat, last : EntryType \cup {"none"}] /\ cacheKey.lines <= Len(file)
  /\ CacheTrue

\* An open names the session that it opens.
Named(line) == IsOpen(line) => line.session \in Session

NamedInv == \A i \in DOMAIN file : Named(file[i])

\* A line has swallowed another one: the ledger cannot be read again.
Garbled == \E i \in DOMAIN file : file[i].type = "garbled"

OpensAt(s, i) == IsOpen(file[i]) /\ file[i].session = s

\* The seal at j is joined with the open at i.
SealsAt(s, i, j) ==
  /\ i < j
  /\ file[j].type = "session.seal" /\ file[j].session = s
  /\ file[j].ref = file[i].hash

\* Until a line is lost for good, what the server holds as open is in the file,
\* and what has sealed is there with its seal: torn lines come last.
KeptInv ==
  Garbled \/ \A s \in Session :
    /\ ctx[s].open # NoHash =>
         \E i \in DOMAIN file : OpensAt(s, i) /\ file[i].hash = ctx[s].open
    /\ job[s] = "sealed" => \E i, j \in DOMAIN file : OpensAt(s, i) /\ SealsAt(s, i, j)

\* Every contact was eligible in lines that all parse, and such lines stay.
ContactsInv ==
  /\ contacts \in Seq(ContactRecord)
  /\ \A c \in DOMAIN contacts :
       LET then == SubSeq(file, 1, contacts[c].at)
       IN /\ contacts[c].at <= Len(file)
          /\ AllParse(then)
          /\ PsiForOperator(Rows(then), contacts[c].operator).isCandidate
=============================================================================

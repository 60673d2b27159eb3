---------------------------- MODULE LedgerReader ----------------------------
(***************************************************************************)
(* What packages/server/src/ledgerReader.ts makes of the entries of a      *)
(* ledger: sessions joined with their seals, the board, the statistics;    *)
(* and the rank that a profile page shows.  All of it is display only.     *)
(*                                                                         *)
(* What a session commits and what its run comes to are constants of the   *)
(* session.                                                                *)
(***************************************************************************)
EXTENDS Ledger, Scoring

CONSTANTS
  Operator,      \* operator keys
  OperatorOf,    \* who signed each session
  ChoiceOf,      \* the committed choice: HIGH, LOW, BASELINE, or "" when per trial
  OutcomeOf,     \* the counts in the session's seal, in the shape of its kind
  ExperimentOf   \* the experiment each session names

Choice == {"HIGH", "LOW", "BASELINE", ""}

ASSUME ReaderAssumption ==
  /\ OperatorOf \in [Session -> Operator]
  /\ ChoiceOf \in [Session -> Choice]
  /\ OutcomeOf \in [Session -> Outcome]
  /\ DOMAIN ExperimentOf = Session /\ IsFiniteSet({ExperimentOf[s] : s \in Session})

-----------------------------------------------------------------------------
(* Sessions in commit order, each joined with its seal.                      *)

IsOpen(entry) == entry.type = "session.open"

\* Variant: the seal has to be the entry right after the open.
NextEntryIsSeal(entries, s) ==
  \E i \in 2..Len(entries) :
    /\ entries[i-1].type = "session.open" /\ entries[i-1].session = s
    /\ entries[i].type = "session.seal" /\ entries[i].session = s

\* A seal counts when its session was opened before it.  A second open of the same
\* session would drop the seal in the code; AtMostOncePerSession excludes it.
HasSeal(entries, s) ==
  \E i, j \in DOMAIN entries :
    /\ i < j
    /\ entries[i].type = "session.open" /\ entries[i].session = s
    /\ entries[j].type = "session.seal" /\ entries[j].session = s

LastOf(entries, wanted) == IF wanted = {} THEN NoEntry ELSE entries[Max(wanted)]

\* The two entries that a session's page is served; NoEntry for null.
Detail(entries, s) ==
  LET opens == {i \in DOMAIN entries : IsOpen(entries[i]) /\ entries[i].session = s}
      seals == {j \in DOMAIN entries : /\ entries[j].type = "session.seal"
                                       /\ entries[j].session = s
                                       /\ \E i \in opens : i < j}
  IN [open |-> LastOf(entries, opens), seal |-> LastOf(entries, seals)]

\* GET sessions/:id does not answer 404.
Known(entries, s) == Detail(entries, s).open # NoEntry

\* buildPrecommit over the revealed fields, among them the prevHash of the entry,
\* is the pre-commitment that was signed.
PrecommitHolds(open) == open.ref = open.prevHash

\* What verifySession recomputes of them; the seal names this open.
SessionVerifies(detail) ==
  /\ PrecommitHolds(detail.open)
  /\ detail.seal # NoEntry => detail.seal.ref = detail.open.hash

\* Null is written 0: z and bits count for nothing in a row that is not sealed.
SessionSummary ==
  [session : Session, operator : Operator, choice : Choice, sealed : BOOLEAN, z : Int, bits : Nat]

ToSummary(s, sealed) ==
  [session  |-> s,
   operator |-> OperatorOf[s],
   choice   |-> ChoiceOf[s],
   sealed   |-> sealed,
   z        |-> IF sealed THEN DisplayZ(OutcomeOf[s]) ELSE 0,
   bits     |-> IF sealed /\ IsMicroPkSeal(OutcomeOf[s]) THEN OutcomeOf[s].nSamples ELSE 0]

\* summaries, each at the place of its open.
Rows(entries) ==
  [i \in {j \in DOMAIN entries : IsOpen(entries[j])} |->
     ToSummary(entries[i].session, HasSeal(entries, entries[i].session))]

-----------------------------------------------------------------------------
(* The sessions and the score of one operator.                               *)

RowsOf(rows, op) == Restrict(rows, {i \in DOMAIN rows : rows[i].operator = op})

PsiForOperator(rows, op) == PsiScoreFromSessions(RowsOf(rows, op))

\* No list is longer, whatever was asked for.
RowLimit == 1000

\* The latest rows; the order they are sent in is left out, as they keep their places.
SessionList(rows, op, limit) ==
  LET mine == RowsOf(rows, op)
  IN Restrict(mine, {i \in DOMAIN mine : Cardinality({j \in DOMAIN mine : j > i}) < limit})

-----------------------------------------------------------------------------
(* The board.                                                                *)

\* Variant: only who has finished a session.
Finished(rows) == {rows[i].operator : i \in {j \in DOMAIN rows : rows[j].sealed}}

\* Everybody who has opened a session.
Operators(rows) == {rows[i].operator : i \in DOMAIN rows}

Board(rows) ==
  [op \in Operators(rows) |->
     [total |-> Cardinality(DOMAIN RowsOf(rows, op)), psi |-> PsiForOperator(rows, op)]]

EligibleOperators(board) == {op \in DOMAIN board : board[op].psi.scored >= MinSessions}

Candidates(board) == {op \in DOMAIN board : board[op].psi.isCandidate}

\* byOp holds the operators in the order of their first sessions.
FirstRow(rows, op) == Min({i \in DOMAIN rows : rows[i].operator = op})

\* The sort of the board: wealth, then scored sessions, and stable.
Ahead(rows, board, a, b) ==
  \/ board[a].psi.wealth > board[b].psi.wealth
  \/ /\ board[a].psi.wealth = board[b].psi.wealth
     /\ \/ board[a].psi.scored > board[b].psi.scored
        \/ board[a].psi.scored = board[b].psi.scored /\ FirstRow(rows, a) < FirstRow(rows, b)

\* Variant: only those who could be candidates are ranked.
CandidatesOnly(board) == {op \in DOMAIN board : board[op].psi.isCandidate}

\* Who a page shows on the board.
Ranked(board) == {op \in DOMAIN board : board[op].psi.scored > 0}

\* rankCard: findIndex + 1, so 0 for somebody who is not there.
Rank(rows, board, op) ==
  IF op \in Ranked(board)
  THEN 1 + Cardinality({other \in Ranked(board) : Ahead(rows, board, other, op)})
  ELSE 0

-----------------------------------------------------------------------------
(* The statistics.                                                           *)

\* globalStats leaves out a seal that has no z as well, and there is none: every
\* Outcome is of one of the two kinds.
SealedRows(rows) == {i \in DOMAIN rows : rows[i].sealed}

ByChoice(rows) ==
  [c \in Choice |->
    LET counted == {i \in SealedRows(rows) : rows[i].choice = c}
    IN [n |-> Cardinality(counted), sum |-> Total([i \in counted |-> rows[i].z])]]

\* Sessions with |z| above a bound, in tenths.
Anomalies(rows, bound) == {i \in SealedRows(rows) : rows[i].z \notin (-bound)..bound}

\* The ten largest |z|, the earlier first among equals.
Extremes(rows) ==
  LET size(i) == Max({rows[i].z, -rows[i].z})
      ahead(i) == {j \in SealedRows(rows) : size(j) > size(i) \/ (size(j) = size(i) /\ j < i)}
  IN {i \in SealedRows(rows) : Cardinality(ahead(i)) < 10}

GlobalStats(rows) ==
  [sessions  |-> Cardinality(DOMAIN rows),
   sealed    |-> Cardinality(SealedRows(rows)),
   totalBits |-> Total([i \in SealedRows(rows) |-> rows[i].bits]),
   byChoice  |-> ByChoice(rows),
   z2        |-> Anomalies(rows, 20),
   z3        |-> Anomalies(rows, 30),
   extremes  |-> Extremes(rows)]

ExperimentStat(rows, x) ==
  LET mine == Restrict(rows, {i \in DOMAIN rows : ExperimentOf[rows[i].session] = x})
  IN [total |-> Cardinality(DOMAIN mine), sealed |-> Cardinality(SealedRows(mine)),
      byChoice |-> [c \in Choice |-> Cardinality({i \in SealedRows(mine) : mine[i].choice = c})]]

\* GET experiments: every definition with its counts.
Experiments(rows) == [x \in {ExperimentOf[s] : s \in Session} |-> ExperimentStat(rows, x)]
=============================================================================

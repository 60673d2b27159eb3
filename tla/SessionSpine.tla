---------------------------- MODULE SessionSpine ----------------------------
(***************************************************************************)
(* The spine of the server: the ledger store, the HTTP handlers that       *)
(* create and sign a session, the stream that runs it, and its seal        *)
(* (packages/server/src: ledgerStore.ts, session.ts, app.ts), together     *)
(* with the anchor command, which is another process on the same file, and *)
(* with crashes and restarts of the server.                                *)
(*                                                                         *)
(* Node runs one handler at a time up to its next await, so one action is  *)
(* the code between two awaits.  What a run generates is abstract here     *)
(* (see MicroPk): it seals or it fails.                                    *)
(***************************************************************************)
EXTENDS Ledger, FiniteSets

CONSTANTS
  MaxSigns,     \* bound: sign requests of one session in flight at once
  MaxAnchors,   \* bound: runs of the anchor command that reach the file
  MaxFaults,    \* bound: writes that fail; 0 is a disk that never fails
  TornWrites,   \* may a failed write leave part of its line behind
  LiveAnchor,   \* may the anchor command run while the server does
  Attended      \* sessions whose run waits for its operator: precognition

ASSUME SpineAssumption ==
  /\ MaxSigns \in Nat /\ MaxAnchors \in Nat /\ MaxFaults \in Nat
  /\ TornWrites \in BOOLEAN /\ LiveAnchor \in BOOLEAN
  /\ Attended \subseteq Session

VARIABLES
  file,       \* the ledger file: a sequence of lines
  lastHash,   \* the last entry hash handed out
  faults,     \* writes that failed so far
  up,         \* is the server running
  head,       \* LedgerStore.head of the server
  cliHead,    \* LedgerStore.head of the anchor command, NoEntry outside its run
  requested,  \* create requests received so far
  pulses,     \* createSession handlers that await their beacon pulse
  sessions,   \* keys of the sessions Map
  ctx,        \* the mutable part of each SessionContext
  signing,    \* handleSign calls that await their request body
  job         \* what became of each session's run

storeVars  == <<file, lastHash, faults>>
serverVars == <<up, head, requested, pulses, sessions, ctx, signing, job>>
vars == <<storeVars, serverVars, cliHead>>

NoHash == GenesisPrev

NewContext(prevHash) == [prevHash |-> prevHash, open |-> NoHash, started |-> FALSE]

JobState == {"none", "running", "sealed", "failed", "lost"}

TypeOK ==
  /\ file \in Seq(Line)
  /\ lastHash \in Nat
  /\ faults \in Nat
  /\ up \in BOOLEAN
  /\ head \in Entry \cup {NoEntry}
  /\ cliHead \in Entry \cup {NoEntry}
  /\ requested \in SUBSET Session
  /\ pulses \in SUBSET Session
  /\ sessions \in SUBSET Session
  /\ ctx \in [Session -> [prevHash : Nat, open : Nat, started : BOOLEAN]]
  /\ signing \in [Session -> Nat]
  /\ job \in [Session -> JobState]

Init ==
  /\ file = <<>>
  /\ lastHash = 0
  /\ faults = 0
  /\ up = FALSE
  /\ head = NoEntry
  /\ cliHead = NoEntry
  /\ requested = {}
  /\ pulses = {}
  /\ sessions = {}
  /\ ctx = [s \in Session |-> NewContext(NoHash)]
  /\ signing = [s \in Session |-> 0]
  /\ job = [s \in Session |-> "none"]

-----------------------------------------------------------------------------
(* LedgerStore.append, for the store whose head is prev.                     *)

NewEntry(prev, type, s, ref) == AppendEntry(prev, type, s, ref, lastHash + 1)

\* appendFileSync returns.
Persist(entry) ==
  /\ file' = WriteLine(file, entry)
  /\ lastHash' = entry.hash
  /\ UNCHANGED faults

\* What a write that does not end well may leave in the file.
FailedWrites == IF TornWrites THEN BrokenWrites(file) ELSE {file}

\* appendFileSync throws.
PersistFails(entry) ==
  /\ faults < MaxFaults
  /\ faults' = faults + 1
  /\ lastHash' = entry.hash
  /\ file' \in FailedWrites

-----------------------------------------------------------------------------
(* POST /api/sessions.                                                       *)

\* handleCreateSession up to its await of the beacon pulse.
CreateSession(s) ==
  /\ up
  /\ s \notin requested
  /\ requested' = requested \cup {s}
  /\ pulses' = pulses \cup {s}
  /\ UNCHANGED <<storeVars, cliHead, up, head, sessions, ctx, signing, job>>

\* fetchPulse rejects: the handler replies 400.
PulseFails(s) ==
  /\ s \in pulses
  /\ pulses' = pulses \ {s}
  /\ UNCHANGED <<storeVars, cliHead, up, head, requested, sessions, ctx, signing, job>>

\* The rest of handleCreateSession: prepareSession binds the present head.
Prepare(s) ==
  /\ s \in pulses
  /\ pulses' = pulses \ {s}
  /\ ctx' = [ctx EXCEPT ![s] = NewContext(HeadHash(head))]
  /\ sessions' = sessions \cup {s}
  /\ UNCHANGED <<storeVars, cliHead, up, head, requested, signing, job>>

-----------------------------------------------------------------------------
(* POST /api/sessions/:id/sign.                                              *)

\* handleSign up to its await of the request body.
SignRequest(s) ==
  /\ up
  /\ s \in sessions
  /\ ctx[s].open = NoHash
  /\ signing[s] < MaxSigns
  /\ signing' = [signing EXCEPT ![s] = @ + 1]
  /\ UNCHANGED <<storeVars, cliHead, up, head, requested, pulses, sessions, ctx, job>>

\* Variant: no guard on the head at all.
AnyHead(s) == TRUE

\* Variant: the guard only asks that the session is not open yet.
NotYetOpen(s) == ctx[s].open = NoHash

HeadUnmoved(s) == HeadHash(head) = ctx[s].prevHash

OpenEntry(s) == NewEntry(head, "session.open", s, ctx[s].prevHash)

\* Variant: a second reply to a request that has had its reply.
RepliedTwice(s) ==
  /\ s \in sessions
  /\ signing' = [signing EXCEPT ![s] = @ - 1]
  /\ UNCHANGED <<cliHead, up, requested, pulses, sessions, job>>

SignReplied(s) ==
  /\ signing[s] > 0
  /\ signing' = [signing EXCEPT ![s] = @ - 1]
  /\ UNCHANGED <<cliHead, up, requested, pulses, sessions, job>>

\* The signature does not verify, or the body is not JSON: 400.
SignRejected(s) ==
  /\ SignReplied(s)
  /\ UNCHANGED <<storeVars, head, ctx>>

\* commitOpen: ledger advanced between prepare and sign.
CommitOpenStale(s) ==
  /\ SignReplied(s)
  /\ ~HeadUnmoved(s)
  /\ UNCHANGED <<storeVars, head, ctx>>

CommitOpen(s) ==
  /\ SignReplied(s)
  /\ HeadUnmoved(s)
  /\ head' = OpenEntry(s)
  /\ Persist(OpenEntry(s))
  /\ ctx' = [ctx EXCEPT ![s].open = OpenEntry(s).hash]

\* append throws after it moved the head: ctx.open stays null, reply 400.
CommitOpenFails(s) ==
  /\ SignReplied(s)
  /\ HeadUnmoved(s)
  /\ head' = OpenEntry(s)
  /\ PersistFails(OpenEntry(s))
  /\ UNCHANGED ctx

-----------------------------------------------------------------------------
(* GET /api/stream: the run of a signed session.                             *)

\* Variant: nothing remembers that the session has a run.
StartableAgain(s) == s \in sessions /\ ctx[s].open # NoHash

\* Variant: only the session at the head of the ledger may start.
StartableAtHead(s) ==
  s \in sessions /\ ctx[s].open # NoHash /\ ~ctx[s].started /\ ctx[s].open = HeadHash(head)

\* handleStream's guard; a socket it refuses changes nothing.
Startable(s) == s \in sessions /\ ctx[s].open # NoHash /\ ~ctx[s].started

StartStream(s) ==
  /\ Startable(s)
  /\ ctx' = [ctx EXCEPT ![s].started = TRUE]
  /\ job' = [job EXCEPT ![s] = "running"]
  /\ UNCHANGED <<storeVars, cliHead, up, head, requested, pulses, sessions, signing>>

\* The socket's close event, at any time after the start; the run goes on.
CloseStream(s) ==
  /\ s \in sessions
  /\ ctx[s].started
  /\ sessions' = sessions \ {s}
  /\ UNCHANGED <<storeVars, cliHead, up, head, requested, pulses, ctx, signing, job>>

\* Variant: the seal points at whatever entry is the head.
SealOfHead(s) == NewEntry(head, "session.seal", s, HeadHash(head))

SealEntry(s) == NewEntry(head, "session.seal", s, ctx[s].open)

SealSession(s) ==
  /\ job[s] = "running"
  /\ head' = SealEntry(s)
  /\ Persist(SealEntry(s))
  /\ job' = [job EXCEPT ![s] = "sealed"]
  /\ UNCHANGED <<cliHead, up, requested, pulses, sessions, ctx, signing>>

\* append throws at the seal: the error reaches the client, nothing is retried.
SealFails(s) ==
  /\ job[s] = "running"
  /\ head' = SealEntry(s)
  /\ PersistFails(SealEntry(s))
  /\ job' = [job EXCEPT ![s] = "failed"]
  /\ UNCHANGED <<cliHead, up, requested, pulses, sessions, ctx, signing>>

\* Any error before the seal (entropy source, witness quorum, blob store).
RunFails(s) ==
  /\ job[s] = "running"
  /\ job' = [job EXCEPT ![s] = "failed"]
  /\ UNCHANGED <<storeVars, cliHead, up, head, requested, pulses, sessions, ctx, signing>>

-----------------------------------------------------------------------------
(* npm run anchor: a second process with a LedgerStore of its own.           *)

AnchorsWritten == Cardinality({i \in DOMAIN file : file[i].type = "external.anchor"})

\* new LedgerStore(path); anchorHead throws on an empty ledger.
AnchorOpens ==
  /\ LiveAnchor \/ ~up
  /\ AnchorsWritten < MaxAnchors
  /\ cliHead = NoEntry
  /\ file # <<>>
  /\ CanOpen(file)
  /\ cliHead' = ReadHead(file)
  /\ UNCHANGED <<storeVars, serverVars>>

AnchorEntry == NewEntry(cliHead, "external.anchor", NoSession, HeadHash(cliHead))

AnchorAppends ==
  /\ cliHead # NoEntry
  /\ Persist(AnchorEntry)
  /\ cliHead' = NoEntry
  /\ UNCHANGED serverVars

AnchorFails ==
  /\ cliHead # NoEntry
  /\ PersistFails(AnchorEntry)
  /\ cliHead' = NoEntry
  /\ UNCHANGED serverVars

-----------------------------------------------------------------------------
(* The process.                                                              *)

\* Opened, and its run not over.
Unfinished(s) == job[s] = "running" \/ (job[s] = "none" /\ ctx[s].open # NoHash)

\* Variant: the Map outlives the process, the flags of the runs do not.
MapOutlives ==
  /\ up' = FALSE
  /\ head' = NoEntry
  /\ pulses' = {}
  /\ UNCHANGED sessions
  /\ ctx' = [s \in Session |-> [ctx[s] EXCEPT !.started = FALSE]]
  /\ signing' = [s \in Session |-> 0]
  /\ job' = [s \in Session |-> IF Unfinished(s) THEN "lost" ELSE job[s]]

\* Everything in memory goes: the Map, the contexts, the handlers, the runs.
MemoryLost ==
  /\ up' = FALSE
  /\ head' = NoEntry
  /\ pulses' = {}
  /\ sessions' = {}
  /\ ctx' = [s \in Session |-> NewContext(NoHash)]
  /\ signing' = [s \in Session |-> 0]
  /\ job' = [s \in Session |-> IF Unfinished(s) THEN "lost" ELSE job[s]]

Crash ==
  /\ up
  /\ MemoryLost
  /\ UNCHANGED <<storeVars, cliHead, requested>>

\* The process dies inside appendFileSync.
CrashInAppend ==
  /\ up
  /\ \E s \in Session : job[s] = "running" \/ (signing[s] > 0 /\ HeadUnmoved(s))
  /\ faults < MaxFaults
  /\ faults' = faults + 1
  /\ file' \in FailedWrites
  /\ MemoryLost
  /\ UNCHANGED <<lastHash, cliHead, requested>>

\* createApp: new LedgerStore(path), ensureGenesis.
GenesisEntry == NewEntry(NoEntry, "genesis", NoSession, NoHash)

\* ensureGenesis throws, and createApp with it.
GenesisFails ==
  /\ ~up
  /\ file = <<>>
  /\ PersistFails(GenesisEntry)
  /\ UNCHANGED <<serverVars, cliHead>>

StartServer ==
  /\ ~up
  /\ LiveAnchor \/ cliHead = NoEntry
  /\ CanOpen(file)
  /\ up' = TRUE
  /\ IF file = <<>>
     THEN head' = GenesisEntry /\ Persist(GenesisEntry)
     ELSE head' = ReadHead(file) /\ UNCHANGED storeVars
  /\ UNCHANGED <<cliHead, requested, pulses, sessions, ctx, signing, job>>

-----------------------------------------------------------------------------

SignStep(s) ==
  SignRejected(s) \/ CommitOpenStale(s) \/ CommitOpen(s) \/ CommitOpenFails(s)

RunStep(s) == SealSession(s) \/ SealFails(s) \/ RunFails(s)

SessionStep(s) ==
  \/ CreateSession(s) \/ PulseFails(s) \/ Prepare(s)
  \/ SignRequest(s) \/ SignStep(s)
  \/ StartStream(s) \/ CloseStream(s) \/ RunStep(s)

AnchorStep == AnchorOpens \/ AnchorAppends \/ AnchorFails

Next ==
  \/ \E s \in Session : SessionStep(s)
  \/ AnchorStep
  \/ Crash \/ CrashInAppend \/ GenesisFails \/ StartServer

Spec == Init /\ [][Next]_vars

(* The server answers what it received (Node's event loop) and a micro-PK    *)
(* run ends by itself (MicroPk!RunEnds).  A precognition run waits for its   *)
(* operator, with no deadline and no handler for a socket that closes, so    *)
(* nothing makes it end.  Of the client it is assumed that it connects to    *)
(* the stream once it was told that its session is open, as the run pages    *)
(* do.  Nothing makes anybody create or sign a session, restart a server or  *)
(* anchor the ledger.                                                        *)
FairSpec ==
  /\ Spec
  /\ \A s \in Session : WF_vars(SignStep(s)) /\ WF_vars(StartStream(s))
  /\ \A s \in Session \ Attended : WF_vars(RunStep(s))

-----------------------------------------------------------------------------
(* Correctness.                                                              *)

\* PSI-LEDGER-2 to 4: the whole file parses and its chain verifies.  Not so once
\* a write has failed, nor when the anchor command runs beside the server.
ChainIntact ==
  /\ \A i \in DOMAIN file : Parses(file[i])
  /\ VerifyChain(file) = -1

\* ChainIntact, whatever order handlers, crashes, restarts and anchors come in,
\* for as long as no write has failed.
IntactUntilAFault == faults = 0 => ChainIntact

\* PSI-COMMIT: the head a session bound into its precommit is the very entry
\* its session.open was chained on, although the operator signed later and
\* other sessions were opened and sealed in between (commitOpen's guard).
OpenBindsHead ==
  \A i \in DOMAIN file :
    file[i].type = "session.open" => file[i].ref = file[i].prevHash

\* A seal carries the hash of the session.open entry of its own session, found
\* earlier in the file, however the runs of several sessions interleave.
SealNamesItsOpen ==
  \A i \in DOMAIN file : file[i].type = "session.seal" =>
    \E j \in 1..(i-1) :
      /\ file[j].type = "session.open"
      /\ file[j].session = file[i].session
      /\ file[j].hash = file[i].ref

\* No session is opened or sealed twice in the file, with duplicated sign
\* requests, second sockets, faults and a second writer.
AtMostOncePerSession ==
  \A i, j \in DOMAIN file :
    /\ file[i].type \in {"session.open", "session.seal"}
    /\ file[i].type = file[j].type
    /\ file[i].session = file[j].session
    => i = j

\* A write that fails loses entries and nothing else: the lines that are there
\* stay in order, and no two of them continue the same entry.
FaultsOnlyLoseEntries ==
  \A i, j \in DOMAIN file : i < j =>
    file[i].seq < file[j].seq /\ file[i].prevHash # file[j].prevHash

\* On startup the store resumes from an existing file (ledgerStore.ts).
ResumesFromItsFile == ~up => CanOpen(file)

\* A run ends once: nothing revives a session that was sealed, failed, or was
\* lost with the server's memory.
RunsAreFinal ==
  [][\A s \in Session : job[s] \in {"sealed", "failed", "lost"} => job'[s] = job[s]]_vars

\* Readers see a log of whole sessions (SessionLog).
LogOf(f) == [i \in DOMAIN f |-> [type |-> f[i].type, session |-> f[i].session]]

Abstract == INSTANCE SessionLog WITH log <- LogOf(file)

ImplementsSessionLog == Abstract!Spec

\* What became of the session is known: it is sealed, its run failed, or the
\* server crashed with it.
Over(s) == job[s] \in {"sealed", "failed", "lost"}

\* An opened session is never refused its stream for good: whatever else is
\* opened, sealed or restarted meanwhile, a session that runs by itself is over
\* in the end, and one that waits for its operator is over or does wait for him.
OpenSessionsSettle ==
  \A s \in Session :
    (ctx[s].open # NoHash) ~> (Over(s) \/ (s \in Attended /\ job[s] = "running"))

-----------------------------------------------------------------------------
(* Inductive invariants: what the properties above rest on.  The theorems    *)
(* are in SessionSpineProofs.                                                *)

\* One process writes at a time.
SingleWriter == ~LiveAnchor

\* The store in memory and the file agree about the head.
HeadsAgree ==
  /\ up => file # <<>> /\ head = file[Len(file)]
  /\ cliHead # NoEntry => ~up /\ file # <<>> /\ cliHead = file[Len(file)]

\* A stopped server has nothing in memory.
DownIsEmpty ==
  ~up => /\ pulses = {} /\ sessions = {}
         /\ \A s \in Session : ctx[s].open = NoHash /\ signing[s] = 0 /\ job[s] # "running"

\* Inductive when SingleWriter, until a write fails: implies ChainIntact.
ChainInv ==
  /\ file \in Seq(Entry)
  /\ \A i \in 1..Len(file) : ~BadAt(file, i)
  /\ HeadsAgree
  /\ DownIsEmpty

\* Whatever is lost between two lines, the second was written after the first.
Ordered(f) ==
  /\ f \in Seq(Entry)
  /\ \A i \in DOMAIN f : f[i].prevHash < f[i].hash
  /\ \A i, j \in DOMAIN f : i < j => f[i].seq < f[j].seq /\ f[i].prevHash < f[j].prevHash

\* No line of f continues h, or anything later than h.
Past(f, h) == \A i \in DOMAIN f : f[i].seq <= h.seq /\ f[i].prevHash < HeadHash(h)

\* Inductive when SingleWriter and no write is torn: implies FaultsOnlyLoseEntries.
OrderInv ==
  /\ Ordered(file)
  /\ \A i \in DOMAIN file : file[i].hash <= lastHash
  /\ up => Past(file, head) /\ HeadHash(head) <= lastHash
  /\ cliHead # NoEntry => ~up /\ Past(file, cliHead) /\ HeadHash(cliHead) <= lastHash
  /\ DownIsEmpty

Opened(s) == \E i \in DOMAIN file : file[i].type = "session.open" /\ file[i].session = s
Sealed(s) == \E i \in DOMAIN file : file[i].type = "session.seal" /\ file[i].session = s

\* Entry hashes only grow, and a context opened on a head is behind it for good:
\* this is why the guard of commitOpen admits one sign request per session.
HashesGrow ==
  /\ \A i \in DOMAIN file : file[i].hash <= lastHash
  /\ HeadHash(head) <= lastHash /\ HeadHash(cliHead) <= lastHash
  /\ \A s \in Session : ctx[s].open # NoHash => ctx[s].prevHash < HeadHash(head)

\* Where a session is, as far as the file can tell.
LifeOf(s) ==
  /\ s \in pulses => s \in requested /\ s \notin sessions
  /\ s \in sessions => s \in requested
  /\ ctx[s].open # NoHash => s \in requested /\ s \notin pulses
  /\ signing[s] > 0 => /\ s \in requested /\ s \notin pulses
                       /\ ctx[s].started \/ s \in sessions
  /\ ctx[s].started => ctx[s].open # NoHash
  /\ Opened(s) => /\ s \in requested /\ s \notin pulses
                  /\ ctx[s].open # NoHash \/ (s \notin sessions /\ signing[s] = 0)
  /\ job[s] # "none" => /\ s \in requested /\ s \notin pulses
                        /\ ctx[s].started \/ s \notin sessions
  /\ job[s] = "running" => ctx[s].started
  /\ Sealed(s) => job[s] = "sealed"

\* Inductive for all constants: implies AtMostOncePerSession and RunsAreFinal.
LifeInv ==
  /\ DownIsEmpty
  /\ HashesGrow
  /\ \A s \in Session : LifeOf(s)
  /\ AtMostOncePerSession

\* Inductive when no write is torn: implies SealNamesItsOpen, and with LifeInv
\* that every step is a step of SessionLog.
LogInv ==
  /\ file \in Seq(Entry)
  /\ up \/ cliHead # NoEntry => file # <<>>
  /\ \A s \in Session : ctx[s].open # NoHash =>
       \E i \in DOMAIN file :
         file[i].type = "session.open" /\ file[i].session = s /\ file[i].hash = ctx[s].open
  /\ SealNamesItsOpen
=============================================================================

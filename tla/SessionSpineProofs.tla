------------------------- MODULE SessionSpineProofs -------------------------
(***************************************************************************)
(* Theorems of SessionSpine, for every value of its constants.             *)
(***************************************************************************)
EXTENDS SessionSpine, SequenceTheorems, TLAPS

-----------------------------------------------------------------------------
(* Entries and files.                                                        *)

LEMMA EntryFacts ==
  /\ NoEntry \notin Entry
  /\ \A kind \in BadLine : Unreadable(kind) \notin Entry
  /\ \A e \in Entry : e # NoEntry /\ Parses(e) /\ HeadHash(e) = e.hash
  /\ HeadHash(NoEntry) = 0
BY DEF NoEntry, Entry, EntryType, Unreadable, BadLine, Parses, HeadHash, GenesisPrev

LEMMA AppendEntryType ==
  ASSUME NEW prev \in Entry \cup {NoEntry}, NEW type \in EntryType,
         NEW s \in Session \cup {NoSession}, NEW ref \in Nat, NEW hash \in Nat \ {0}
  PROVE  /\ AppendEntry(prev, type, s, ref, hash) \in Entry
         /\ HeadHash(prev) \in Nat
BY EntryFacts DEF AppendEntry, Entry, HeadHash, GenesisPrev, NoEntry

LEMMA WriteLineType ==
  ASSUME NEW f \in Seq(Line), NEW e \in Entry
  PROVE  WriteLine(f, e) \in Seq(Line)
<1>1. Unreadable("garbled") \in Line /\ e \in Line
  BY DEF Line, BadLine
<1>2. CASE f # <<>> /\ f[Len(f)].type = "torn"
  BY <1>1, <1>2 DEF WriteLine
<1>3. CASE ~(f # <<>> /\ f[Len(f)].type = "torn")
  <2>1. WriteLine(f, e) = Append(f, e)
    BY <1>3 DEF WriteLine
  <2>2. QED
    BY <1>1, <2>1
<1>4. QED
  BY <1>2, <1>3

LEMMA BrokenWritesType ==
  ASSUME NEW f \in Seq(Line), NEW g \in BrokenWrites(f)
  PROVE  g \in Seq(Line)
<1>1. Unreadable("torn") \in Line
  BY DEF Line, BadLine
<1>2. Append(f, Unreadable("torn")) \in Seq(Line)
  BY <1>1
<1>3. QED
  BY <1>2 DEF BrokenWrites

\* A file the constructor accepts ends with an entry.
LEMMA ReadHeadType ==
  ASSUME NEW f \in Seq(Line), f # <<>>, CanOpen(f)
  PROVE  ReadHead(f) \in Entry
<1>1. Len(f) \in 1..Len(f) /\ f[Len(f)] \in Line
  BY LenProperties, EmptySeq
<1>2. QED
  BY <1>1 DEF CanOpen, ReadHead, Parses, Line, Unreadable, BadLine

-----------------------------------------------------------------------------
(* Type correctness.                                                         *)

LEMMA NewEntryType ==
  ASSUME TypeOK, NEW prev \in Entry \cup {NoEntry}, NEW type \in EntryType,
         NEW s \in Session \cup {NoSession}, NEW ref \in Nat
  PROVE  NewEntry(prev, type, s, ref) \in Entry
<1>1. lastHash + 1 \in Nat \ {0}
  BY DEF TypeOK
<1>2. QED
  BY <1>1, AppendEntryType DEF NewEntry

LEMMA PersistType ==
  ASSUME TypeOK, NEW e \in Entry, Persist(e) \/ PersistFails(e)
  PROVE  file' \in Seq(Line) /\ lastHash' \in Nat /\ faults' \in Nat
<1>1. e.hash \in Nat
  BY DEF Entry
<1>2. CASE Persist(e)
  BY <1>1, <1>2, WriteLineType DEF Persist, TypeOK
<1>3. CASE PersistFails(e)
  <2>1. file' \in Seq(Line)
    BY <1>3, BrokenWritesType DEF PersistFails, FailedWrites, TypeOK
  <2>2. QED
    BY <1>1, <1>3, <2>1 DEF PersistFails, TypeOK
<1>4. QED
  BY <1>2, <1>3

\* The entries the actions write are entries.
LEMMA WrittenEntries ==
  ASSUME TypeOK
  PROVE  /\ \A s \in Session : OpenEntry(s) \in Entry /\ SealEntry(s) \in Entry
         /\ AnchorEntry \in Entry
         /\ GenesisEntry \in Entry
<1>1. ASSUME NEW s \in Session
      PROVE  OpenEntry(s) \in Entry /\ SealEntry(s) \in Entry
  <2>1. ctx[s].prevHash \in Nat /\ ctx[s].open \in Nat /\ head \in Entry \cup {NoEntry}
    BY DEF TypeOK
  <2>2. "session.open" \in EntryType /\ "session.seal" \in EntryType
    BY DEF EntryType
  <2>3. QED
    BY <2>1, <2>2, NewEntryType DEF OpenEntry, SealEntry
<1>2. AnchorEntry \in Entry
  <2>1. cliHead \in Entry \cup {NoEntry}
    BY DEF TypeOK
  <2>2. HeadHash(cliHead) \in Nat
    BY <2>1, EntryFacts DEF Entry
  <2>3. "external.anchor" \in EntryType
    BY DEF EntryType
  <2>4. QED
    BY <2>1, <2>2, <2>3, NewEntryType DEF AnchorEntry
<1>3. GenesisEntry \in Entry
  <2>1. "genesis" \in EntryType /\ NoHash \in Nat
    BY DEF EntryType, NoHash, GenesisPrev
  <2>2. QED
    BY <2>1, NewEntryType DEF GenesisEntry
<1>4. QED
  BY <1>1, <1>2, <1>3

LEMMA MemoryLostType ==
  ASSUME TypeOK, MemoryLost
  PROVE  /\ up' \in BOOLEAN /\ head' \in Entry \cup {NoEntry}
         /\ pulses' \in SUBSET Session /\ sessions' \in SUBSET Session
         /\ ctx' \in [Session -> [prevHash : Nat, open : Nat, started : BOOLEAN]]
         /\ signing' \in [Session -> Nat] /\ job' \in [Session -> JobState]
BY DEF TypeOK, MemoryLost, NewContext, NoHash, GenesisPrev, JobState

\* Every variable keeps its type: the spine never holds half an entry.
THEOREM TypeCorrect == Spec => []TypeOK
<1>1. Init => TypeOK
  <2>1. <<>> \in Seq(Line)
    BY EmptySeq
  <2>2. Init => /\ ctx \in [Session -> [prevHash : Nat, open : Nat, started : BOOLEAN]]
                /\ signing \in [Session -> Nat]
                /\ job \in [Session -> JobState]
    BY DEF Init, NewContext, NoHash, GenesisPrev, JobState
  <2>3. Init => file \in Seq(Line)
    BY <2>1, Zenon DEF Init
  <2>4. Init => /\ up \in BOOLEAN
                /\ head \in Entry \cup {NoEntry} /\ cliHead \in Entry \cup {NoEntry}
    BY Zenon DEF Init
  <2>5. Init => lastHash \in Nat /\ faults \in Nat
    BY DEF Init, NewContext, NoHash, GenesisPrev
  <2>6. Init => /\ requested \in SUBSET Session /\ pulses \in SUBSET Session
                /\ sessions \in SUBSET Session
    BY DEF Init, NewContext, NoHash, GenesisPrev
  <2>7. QED
    BY <2>2, <2>3, <2>4, <2>5, <2>6, Zenon DEF TypeOK
<1>2. TypeOK /\ [Next]_vars => TypeOK'
  <2> SUFFICES ASSUME TypeOK, [Next]_vars
               PROVE  TypeOK'
    OBVIOUS
  <2> USE SpineAssumption DEF storeVars
  <2>1. ASSUME NEW s \in Session, CreateSession(s)
        PROVE  TypeOK'
    BY <2>1 DEF CreateSession, TypeOK
  <2>2. ASSUME NEW s \in Session, PulseFails(s)
        PROVE  TypeOK'
    BY <2>2 DEF PulseFails, TypeOK
  <2>3. ASSUME NEW s \in Session, Prepare(s)
        PROVE  TypeOK'
    <3>1. HeadHash(head) \in Nat
      BY EntryFacts DEF TypeOK, Entry
    <3>2. QED
      BY <2>3, <3>1 DEF Prepare, TypeOK, NewContext, NoHash, GenesisPrev
  <2>4. ASSUME NEW s \in Session, SignRequest(s)
        PROVE  TypeOK'
    BY <2>4 DEF SignRequest, TypeOK
  <2>5. ASSUME NEW s \in Session, SignStep(s)
        PROVE  TypeOK'
    <3>1. signing' \in [Session -> Nat]
      BY <2>5 DEF SignStep, SignRejected, CommitOpenStale, CommitOpen, CommitOpenFails,
                  SignReplied, TypeOK
    <3>2. OpenEntry(s) \in Entry /\ OpenEntry(s).hash \in Nat
      BY WrittenEntries DEF Entry
    <3>3. CASE SignRejected(s) \/ CommitOpenStale(s)
      BY <3>1, <3>3 DEF SignRejected, CommitOpenStale, SignReplied, TypeOK
    <3>4. CASE CommitOpen(s)
      <4>1. file' \in Seq(Line) /\ lastHash' \in Nat /\ faults' \in Nat
        BY <3>2, <3>4, PersistType DEF CommitOpen
      <4>2. QED
        BY <3>1, <3>2, <3>4, <4>1 DEF CommitOpen, SignReplied, TypeOK
    <3>5. CASE CommitOpenFails(s)
      <4>1. file' \in Seq(Line) /\ lastHash' \in Nat /\ faults' \in Nat
        BY <3>2, <3>5, PersistType DEF CommitOpenFails
      <4>2. QED
        BY <3>1, <3>2, <3>5, <4>1 DEF CommitOpenFails, SignReplied, TypeOK
    <3>6. QED
      BY <2>5, <3>3, <3>4, <3>5 DEF SignStep
  <2>6. ASSUME NEW s \in Session, StartStream(s)
        PROVE  TypeOK'
    BY <2>6 DEF StartStream, TypeOK, JobState
  <2>7. ASSUME NEW s \in Session, CloseStream(s)
        PROVE  TypeOK'
    BY <2>7 DEF CloseStream, TypeOK
  <2>8. ASSUME NEW s \in Session, RunStep(s)
        PROVE  TypeOK'
    <3>1. SealEntry(s) \in Entry
      BY WrittenEntries
    <3>2. CASE SealSession(s)
      <4>1. file' \in Seq(Line) /\ lastHash' \in Nat /\ faults' \in Nat
        BY <3>1, <3>2, PersistType DEF SealSession
      <4>2. QED
        BY <3>1, <3>2, <4>1 DEF SealSession, TypeOK, JobState
    <3>3. CASE SealFails(s)
      <4>1. file' \in Seq(Line) /\ lastHash' \in Nat /\ faults' \in Nat
        BY <3>1, <3>3, PersistType DEF SealFails
      <4>2. QED
        BY <3>1, <3>3, <4>1 DEF SealFails, TypeOK, JobState
    <3>4. CASE RunFails(s)
      BY <3>4 DEF RunFails, TypeOK, JobState
    <3>5. QED
      BY <2>8, <3>2, <3>3, <3>4 DEF RunStep
  <2>9. CASE AnchorStep
    <3>1. CASE AnchorOpens
      <4>1. ReadHead(file) \in Entry
        BY <3>1, ReadHeadType DEF AnchorOpens, TypeOK
      <4>2. QED
        BY <3>1, <4>1 DEF AnchorOpens, serverVars, TypeOK
    <3>2. CASE AnchorAppends \/ AnchorFails
      <4>1. file' \in Seq(Line) /\ lastHash' \in Nat /\ faults' \in Nat
        BY <3>2, WrittenEntries, PersistType DEF AnchorAppends, AnchorFails
      <4>2. QED
        BY <3>2, <4>1 DEF AnchorAppends, AnchorFails, serverVars, TypeOK
    <3>3. QED
      BY <2>9, <3>1, <3>2 DEF AnchorStep
  <2>10. CASE Crash
    BY <2>10, MemoryLostType DEF Crash, TypeOK
  <2>11. CASE CrashInAppend
    <3>1. file' \in Seq(Line)
      BY <2>11, BrokenWritesType DEF CrashInAppend, FailedWrites, TypeOK
    <3>2. QED
      BY <2>11, <3>1, MemoryLostType DEF CrashInAppend, TypeOK
  <2>12. CASE GenesisFails
    <3>1. file' \in Seq(Line) /\ lastHash' \in Nat /\ faults' \in Nat
      BY <2>12, WrittenEntries, PersistType DEF GenesisFails
    <3>2. QED
      BY <2>12, <3>1 DEF GenesisFails, serverVars, TypeOK
  <2>13. CASE StartServer
    <3>1. CASE file = <<>>
      <4>1. head' = GenesisEntry /\ Persist(GenesisEntry)
        BY <2>13, <3>1 DEF StartServer
      <4>2. file' \in Seq(Line) /\ lastHash' \in Nat /\ faults' \in Nat
        BY <4>1, WrittenEntries, PersistType
      <4>3. QED
        BY <2>13, <4>1, <4>2, WrittenEntries DEF StartServer, TypeOK
    <3>2. CASE file # <<>>
      <4>1. ReadHead(file) \in Entry
        BY <2>13, <3>2, ReadHeadType DEF StartServer, TypeOK
      <4>2. QED
        BY <2>13, <3>2, <4>1 DEF StartServer, TypeOK
    <3>3. QED
      BY <3>1, <3>2
  <2>14. CASE UNCHANGED vars
    BY <2>14 DEF vars, serverVars, TypeOK
  <2>15. QED
    BY <2>1, <2>2, <2>3, <2>4, <2>5, <2>6, <2>7, <2>8, <2>9, <2>10, <2>11, <2>12,
       <2>13, <2>14 DEF Next, SessionStep
<1>3. QED
  BY <1>1, <1>2, PTL DEF Spec

-----------------------------------------------------------------------------
(* The chain, when one process writes and no write fails.                    *)

\* An entry appended after the last line keeps the chain.
LEMMA ChainExtends ==
  ASSUME NEW f \in Seq(Entry), \A i \in 1..Len(f) : ~BadAt(f, i),
         NEW prev \in Entry \cup {NoEntry}, prev = ReadHead(f),
         NEW type, NEW s, NEW ref, NEW hash,
         AppendEntry(prev, type, s, ref, hash) \in Entry
  PROVE  LET g == WriteLine(f, AppendEntry(prev, type, s, ref, hash)) IN
           /\ g \in Seq(Entry) /\ g # <<>>
           /\ g[Len(g)] = AppendEntry(prev, type, s, ref, hash)
           /\ \A i \in 1..Len(g) : ~BadAt(g, i)
<1> DEFINE e == AppendEntry(prev, type, s, ref, hash)
<1> HIDE DEF e
<1>0. e \in Entry
  BY DEF e
<1>1. f # <<>> => f[Len(f)] \in Entry
  BY EmptySeq, LenProperties
<1>2. WriteLine(f, e) = Append(f, e)
  BY <1>1 DEF WriteLine, Entry, EntryType
<1>3. /\ Append(f, e) \in Seq(Entry)
      /\ Len(Append(f, e)) = Len(f) + 1
      /\ \A i \in 1..Len(f) : Append(f, e)[i] = f[i]
      /\ Append(f, e)[Len(f) + 1] = e
      /\ Len(f) \in Nat
  BY <1>0, AppendProperties, LenProperties
<1>4. ASSUME NEW i \in 1..Len(f)
      PROVE  ~BadAt(Append(f, e), i)
  <2>1. i = 1 \/ i - 1 \in 1..Len(f)
    BY <1>3
  <2>2. QED
    BY <1>3, <2>1 DEF BadAt
<1>5. ~BadAt(Append(f, e), Len(f) + 1)
  <2>1. CASE f = <<>>
    <3>1. Len(f) = 0 /\ prev = NoEntry
      BY <2>1, EmptySeq DEF ReadHead
    <3>2. e.seq = 0 /\ e.prevHash = GenesisPrev
      BY <3>1 DEF e, AppendEntry, HeadHash
    <3>3. QED
      BY <1>3, <3>1, <3>2 DEF BadAt
  <2>2. CASE f # <<>>
    <3>1. Len(f) \in 1..Len(f) /\ prev = f[Len(f)] /\ prev # NoEntry
      BY <1>1, <2>2, EmptySeq, EntryFacts DEF ReadHead
    <3>2. e.seq = prev.seq + 1 /\ e.prevHash = prev.hash
      BY <3>1 DEF e, AppendEntry, HeadHash
    <3>3. Append(f, e)[Len(f)] = prev /\ Len(f) + 1 # 1 /\ (Len(f) + 1) - 1 = Len(f)
      BY <1>3, <3>1
    <3>4. QED
      BY <1>3, <3>2, <3>3 DEF BadAt
  <2>3. QED
    BY <2>1, <2>2
<1>6. Append(f, e) # <<>>
  BY <1>3
<1>7. QED
  BY <1>2, <1>3, <1>4, <1>5, <1>6 DEF e

LEMMA ChainInvStart == Init => ChainInv
<1>1. <<>> \in Seq(Entry) /\ Len(<<>>) = 0
  BY EmptySeq
<1>2. Init => file = <<>>
  BY DEF Init
<1>3. Init => HeadsAgree /\ DownIsEmpty
  BY EntryFacts DEF Init, HeadsAgree, DownIsEmpty, NewContext, NoHash, GenesisPrev
<1>4. QED
  BY <1>1, <1>2, <1>3 DEF ChainInv

\* The store appends to the entry it holds, which is the last line.
LEMMA ChainInvAppend ==
  ASSUME ChainInv, NEW prev \in Entry \cup {NoEntry}, prev = ReadHead(file),
         NEW type, NEW s, NEW ref,
         NewEntry(prev, type, s, ref) \in Entry,
         Persist(NewEntry(prev, type, s, ref))
  PROVE  /\ file' \in Seq(Entry) /\ file' # <<>>
         /\ file'[Len(file')] = NewEntry(prev, type, s, ref)
         /\ \A i \in 1..Len(file') : ~BadAt(file', i)
<1>1. file' = WriteLine(file, AppendEntry(prev, type, s, ref, lastHash + 1))
  BY DEF Persist, NewEntry
<1>2. QED
  BY <1>1, ChainExtends DEF ChainInv, NewEntry

LEMMA ChainInvStep ==
  ASSUME SingleWriter, TypeOK, ChainInv, [Next]_vars, faults' = 0
  PROVE  ChainInv'
<1>0. faults \in Nat /\ ~LiveAnchor /\ faults' # faults + 1
  BY DEF TypeOK, SingleWriter
<1>1. ASSUME UNCHANGED <<file, cliHead, head, up>>, DownIsEmpty'
      PROVE  ChainInv'
  BY <1>1 DEF ChainInv, HeadsAgree
<1>2. ASSUME NEW s \in Session, SessionStep(s)
      PROVE  ChainInv'
  <2>1. up
    BY <1>2, SpineAssumption
       DEF ChainInv, DownIsEmpty, TypeOK, SessionStep, CreateSession, PulseFails, Prepare,
           SignRequest, SignStep, SignRejected, CommitOpenStale, CommitOpen, CommitOpenFails,
           SignReplied, StartStream, Startable, CloseStream, RunStep, SealSession, SealFails,
           RunFails
  <2>2. file # <<>> /\ head = file[Len(file)] /\ head = ReadHead(file) /\ cliHead = NoEntry
    BY <2>1 DEF ChainInv, HeadsAgree, ReadHead
  <2>3. head \in Entry \cup {NoEntry}
    BY DEF TypeOK
  <2>4. CASE CommitOpen(s)
    <3>1. OpenEntry(s) \in Entry
      BY WrittenEntries
    <3>2. /\ file' \in Seq(Entry) /\ file' # <<>>
          /\ file'[Len(file')] = OpenEntry(s)
          /\ \A i \in 1..Len(file') : ~BadAt(file', i)
      BY <2>2, <2>3, <2>4, <3>1, ChainInvAppend DEF CommitOpen, OpenEntry
    <3>3. up' /\ head' = OpenEntry(s) /\ cliHead' = NoEntry
      BY <2>1, <2>2, <2>4 DEF CommitOpen, SignReplied
    <3>4. QED
      BY <3>2, <3>3 DEF ChainInv, HeadsAgree, DownIsEmpty
  <2>5. CASE SealSession(s)
    <3>1. SealEntry(s) \in Entry
      BY WrittenEntries
    <3>2. /\ file' \in Seq(Entry) /\ file' # <<>>
          /\ file'[Len(file')] = SealEntry(s)
          /\ \A i \in 1..Len(file') : ~BadAt(file', i)
      BY <2>2, <2>3, <2>5, <3>1, ChainInvAppend DEF SealSession, SealEntry
    <3>3. up' /\ head' = SealEntry(s) /\ cliHead' = NoEntry
      BY <2>1, <2>2, <2>5 DEF SealSession
    <3>4. QED
      BY <3>2, <3>3 DEF ChainInv, HeadsAgree, DownIsEmpty
  <2>6. ~CommitOpenFails(s) /\ ~SealFails(s)
    BY <1>0 DEF CommitOpenFails, SealFails, PersistFails
  <2>7. ASSUME ~CommitOpen(s), ~SealSession(s)
        PROVE  UNCHANGED <<file, cliHead, head, up>>
    BY <1>2, <2>6, <2>7
       DEF SessionStep, CreateSession, PulseFails, Prepare,
           SignRequest, SignStep, SignRejected, CommitOpenStale,
           SignReplied, StartStream, CloseStream, RunStep, RunFails, storeVars
  <2>8. QED
    BY <1>1, <2>1, <2>4, <2>5, <2>7 DEF DownIsEmpty
<1>3. CASE AnchorStep
  <2>1. CASE AnchorOpens
    BY <1>0, <2>1 DEF AnchorOpens, ReadHead, storeVars, serverVars, ChainInv, HeadsAgree,
                      DownIsEmpty
  <2>2. CASE AnchorAppends
    <3>1. ~up /\ cliHead = ReadHead(file) /\ cliHead \in Entry \cup {NoEntry}
      BY <2>2 DEF AnchorAppends, ChainInv, HeadsAgree, ReadHead, TypeOK
    <3>2. /\ file' \in Seq(Entry) /\ \A i \in 1..Len(file') : ~BadAt(file', i)
      BY <2>2, <3>1, WrittenEntries, ChainInvAppend DEF AnchorAppends, AnchorEntry
    <3>3. QED
      BY <2>2, <3>1, <3>2 DEF AnchorAppends, serverVars, ChainInv, HeadsAgree, DownIsEmpty
  <2>3. ~AnchorFails
    BY <1>0 DEF AnchorFails, PersistFails
  <2>4. QED
    BY <1>3, <2>1, <2>2, <2>3 DEF AnchorStep
<1>4. CASE Crash
  <2>1. ~up' /\ file' = file /\ cliHead' = NoEntry
    BY <1>4 DEF Crash, MemoryLost, storeVars, ChainInv, HeadsAgree
  <2>2. DownIsEmpty'
    <3>1. \A s \in Session : job'[s] # "running"
      BY <1>4 DEF Crash, MemoryLost, ChainInv, TypeOK, Unfinished
    <3>2. QED
      BY <1>4, <3>1 DEF Crash, MemoryLost, DownIsEmpty, NewContext
  <2>3. QED
    BY <2>1, <2>2 DEF ChainInv, HeadsAgree
<1>5. ~CrashInAppend /\ ~GenesisFails
  BY <1>0 DEF CrashInAppend, GenesisFails, PersistFails
<1>6. CASE StartServer
  <2>1. up' /\ cliHead' = NoEntry
    BY <1>0, <1>6 DEF StartServer
  <2>2. CASE file = <<>>
    <3>1. head' = GenesisEntry /\ Persist(GenesisEntry) /\ NoEntry = ReadHead(file)
      BY <1>6, <2>2 DEF StartServer, ReadHead
    <3>2. /\ file' \in Seq(Entry) /\ file' # <<>>
          /\ file'[Len(file')] = GenesisEntry
          /\ \A i \in 1..Len(file') : ~BadAt(file', i)
      BY <3>1, WrittenEntries, ChainInvAppend DEF GenesisEntry
    <3>3. QED
      BY <2>1, <3>1, <3>2 DEF ChainInv, HeadsAgree, DownIsEmpty
  <2>3. CASE file # <<>>
    BY <1>6, <2>1, <2>3 DEF StartServer, ReadHead, storeVars, ChainInv, HeadsAgree, DownIsEmpty
  <2>4. QED
    BY <2>2, <2>3
<1>7. CASE UNCHANGED vars
  BY <1>7 DEF vars, storeVars, serverVars, ChainInv, HeadsAgree, DownIsEmpty
<1>8. QED
  BY <1>2, <1>3, <1>4, <1>5, <1>6, <1>7 DEF Next

\* A write that has failed stays counted.
LEMMA FaultsStay ==
  ASSUME TypeOK, [Next]_vars, faults' = 0
  PROVE  faults = 0
<1>1. faults \in Nat
  BY DEF TypeOK
<1>2. faults' = faults \/ faults' = faults + 1
  BY DEF Next, SessionStep, CreateSession, PulseFails, Prepare, SignRequest, SignStep,
         SignRejected, CommitOpenStale, CommitOpen, CommitOpenFails, SignReplied, StartStream,
         CloseStream, RunStep, SealSession, SealFails, RunFails, AnchorStep, AnchorOpens,
         AnchorAppends, AnchorFails, Crash, CrashInAppend, GenesisFails, StartServer, Persist,
         PersistFails, vars, storeVars
<1>3. QED
  BY <1>1, <1>2

\* When the server and the anchor command never run side by side, the file
\* verifies at every moment until a write fails: through concurrent sessions,
\* interleaved seals, crashes, restarts and anchors.
THEOREM ChainStaysIntact == SingleWriter => (Spec => []IntactUntilAFault)
<1> SUFFICES ASSUME SingleWriter
             PROVE  Spec => []IntactUntilAFault
  OBVIOUS
<1> DEFINE Inv == faults = 0 => ChainInv
<1>0. Init => Inv
  BY ChainInvStart
<1>1. TypeOK /\ Inv /\ [Next]_vars => Inv'
  BY ChainInvStep, FaultsStay
<1>2. Inv => IntactUntilAFault
  <2> SUFFICES ASSUME ChainInv
               PROVE  ChainIntact
    BY DEF IntactUntilAFault
  <2>1. DOMAIN file = 1..Len(file) /\ \A i \in DOMAIN file : file[i] \in Entry
    BY LenProperties DEF ChainInv
  <2>2. VerifyChain(file) = -1
    BY <2>1 DEF ChainInv, VerifyChain
  <2>3. QED
    BY <2>1, <2>2, EntryFacts DEF ChainIntact
<1> HIDE DEF Inv
<1>3. QED
  BY TypeCorrect, <1>0, <1>1, <1>2, PTL DEF Spec

-----------------------------------------------------------------------------
(* The order of the lines, when one process writes and writes may fail.      *)

\* An entry made after a head that no line has reached yet may be appended, or
\* lost: nothing has reached it either.
LEMMA OrderExtends ==
  ASSUME NEW f, Ordered(f), NEW prev \in Entry \cup {NoEntry}, Past(f, prev),
         NEW type, NEW s, NEW ref, NEW hash \in Nat, HeadHash(prev) < hash,
         AppendEntry(prev, type, s, ref, hash) \in Entry
  PROVE  LET e == AppendEntry(prev, type, s, ref, hash)
             g == WriteLine(f, e)
         IN /\ Past(f, e) /\ HeadHash(e) = hash
            /\ Ordered(g) /\ Past(g, e)
            /\ \A i \in DOMAIN g : (i \in DOMAIN f /\ g[i] = f[i]) \/ g[i] = e
<1> DEFINE e == AppendEntry(prev, type, s, ref, hash)
           g == WriteLine(f, e)
           n == Len(f)
<1>0. e \in Entry /\ HeadHash(prev) \in Nat /\ prev.seq \in Nat
  BY EntryFacts DEF Entry, NoEntry
<1>1. /\ HeadHash(e) = hash /\ e.hash = hash /\ e.prevHash = HeadHash(prev)
      /\ e.seq = IF prev = NoEntry THEN 0 ELSE prev.seq + 1
  BY EntryFacts DEF AppendEntry
<1> HIDE DEF e
<1>2. /\ f \in Seq(Entry) /\ n \in Nat /\ DOMAIN f = 1..n /\ \A i \in 1..n : f[i] \in Entry
  BY LenProperties DEF Ordered
<1>3. \A i \in 1..n : /\ f[i].seq \in Nat /\ f[i].prevHash \in Nat
                       /\ f[i].seq < e.seq /\ f[i].prevHash < e.prevHash
  <2>1. \A i \in 1..n : f[i].seq \in Nat /\ f[i].prevHash \in Nat
    BY <1>2 DEF Entry
  <2>2. \A i \in 1..n : f[i].seq <= prev.seq /\ f[i].prevHash < HeadHash(prev)
    BY <1>2 DEF Past
  <2>3. CASE prev = NoEntry
    BY <2>1, <2>2, <2>3, EntryFacts
  <2>4. CASE prev # NoEntry
    BY <1>0, <1>1, <2>1, <2>2, <2>4
  <2> QED
    BY <2>3, <2>4
<1>4. e.seq \in Nat /\ e.prevHash \in Nat /\ e.prevHash < hash
  BY <1>0, <1>1 DEF Entry
<1>5. Past(f, e)
  BY <1>1, <1>2, <1>3, <1>4 DEF Past
<1>6. g = Append(f, e)
  <2>1. f # <<>> => f[Len(f)] \in Entry
    BY <1>2, EmptySeq, LenProperties
  <2> QED
    BY <2>1 DEF WriteLine, Entry, EntryType
<1>7. /\ g \in Seq(Entry) /\ Len(g) = n + 1 /\ DOMAIN g = 1..(n + 1)
      /\ \A i \in 1..n : g[i] = f[i]
      /\ g[n + 1] = e
  BY <1>0, <1>2, <1>6, AppendProperties, LenProperties
<1> HIDE DEF g, n
<1>8. \A i \in 1..(n + 1) : i \in 1..n \/ i = n + 1
  BY <1>2
<1>9. \A i \in DOMAIN g : (i \in DOMAIN f /\ g[i] = f[i]) \/ g[i] = e
  BY <1>2, <1>7, <1>8
<1>10. Past(g, e)
  BY <1>1, <1>3, <1>4, <1>7, <1>8 DEF Past
<1>11. Ordered(g)
  <2>1. \A i \in 1..(n + 1) : g[i].prevHash < g[i].hash
    BY <1>1, <1>2, <1>4, <1>7, <1>8 DEF Ordered
  <2>2. \A i, j \in 1..(n + 1) : i < j => g[i].seq < g[j].seq /\ g[i].prevHash < g[j].prevHash
    <3>1. ASSUME NEW i \in 1..(n + 1), NEW j \in 1..(n + 1), i < j
          PROVE  g[i].seq < g[j].seq /\ g[i].prevHash < g[j].prevHash
      <4>1. i \in 1..n
        BY <1>2, <3>1
      <4>2. CASE j \in 1..n
        BY <1>2, <1>7, <3>1, <4>1, <4>2 DEF Ordered
      <4>3. CASE j = n + 1
        BY <1>3, <1>7, <4>1, <4>3
      <4> QED
        BY <1>8, <4>2, <4>3
    <3> QED
      BY <3>1
  <2> QED
    BY <1>7, <2>1, <2>2 DEF Ordered
<1> QED
  BY <1>1, <1>5, <1>9, <1>10, <1>11 DEF e, g

\* A store whose head no line has reached appends, or tries to.
LEMMA OrderWrite ==
  ASSUME ~TornWrites, TypeOK, Ordered(file), \A i \in DOMAIN file : file[i].hash <= lastHash,
         NEW prev \in Entry \cup {NoEntry}, Past(file, prev), HeadHash(prev) <= lastHash,
         NEW type, NEW s, NEW ref, NewEntry(prev, type, s, ref) \in Entry,
         \/ Persist(NewEntry(prev, type, s, ref))
         \/ PersistFails(NewEntry(prev, type, s, ref))
  PROVE  /\ Ordered(file') /\ \A i \in DOMAIN file' : file'[i].hash <= lastHash'
         /\ Past(file', NewEntry(prev, type, s, ref))
         /\ HeadHash(NewEntry(prev, type, s, ref)) <= lastHash'
<1> DEFINE e == NewEntry(prev, type, s, ref)
<1>1. /\ lastHash \in Nat /\ lastHash + 1 \in Nat /\ HeadHash(prev) \in Nat
      /\ HeadHash(prev) < lastHash + 1
      /\ e = AppendEntry(prev, type, s, ref, lastHash + 1)
  BY EntryFacts DEF TypeOK, NewEntry, Entry
<1>2. /\ Past(file, e) /\ HeadHash(e) = lastHash + 1 /\ e.hash = lastHash + 1
      /\ Ordered(WriteLine(file, e)) /\ Past(WriteLine(file, e), e)
      /\ \A i \in DOMAIN WriteLine(file, e) :
           (i \in DOMAIN file /\ WriteLine(file, e)[i] = file[i]) \/ WriteLine(file, e)[i] = e
  BY <1>1, OrderExtends, EntryFacts
<1>3. lastHash' = lastHash + 1 /\ (file' = WriteLine(file, e) \/ file' = file)
  BY <1>2 DEF Persist, PersistFails, FailedWrites
<1> HIDE DEF e
<1>4. \A i \in DOMAIN file : file[i].hash \in Nat
  <2>1. \A i \in DOMAIN file : file[i] \in Entry
    BY LenProperties DEF Ordered
  <2> QED
    BY <2>1 DEF Entry
<1>5. Ordered(file') /\ Past(file', e)
  BY <1>2, <1>3
<1>6. \A i \in DOMAIN file' : (i \in DOMAIN file /\ file'[i] = file[i]) \/ file'[i] = e
  BY <1>2, <1>3
<1>7. \A i \in DOMAIN file' : file'[i].hash <= lastHash'
  BY <1>1, <1>2, <1>3, <1>4, <1>6
<1>8. HeadHash(e) <= lastHash'
  BY <1>1, <1>2, <1>3
<1> QED
  BY <1>5, <1>7, <1>8 DEF e

\* A store that is opened takes the last line, which no line continues.
LEMMA OrderRead ==
  ASSUME NEW f, Ordered(f)
  PROVE  Past(f, ReadHead(f))
<1>1. CASE f = <<>>
  BY <1>1, EmptySeq DEF Past
<1>2. CASE f # <<>>
  <2>1. /\ Len(f) \in 1..Len(f) /\ DOMAIN f = 1..Len(f) /\ Len(f) \in Nat
        /\ \A i \in 1..Len(f) : f[i] \in Entry
    BY <1>2, EmptySeq, LenProperties DEF Ordered
  <2>2. ReadHead(f) = f[Len(f)] /\ HeadHash(f[Len(f)]) = f[Len(f)].hash
    BY <1>2, <2>1, EntryFacts DEF ReadHead
  <2>3. ASSUME NEW i \in 1..Len(f)
        PROVE  f[i].seq <= f[Len(f)].seq /\ f[i].prevHash < f[Len(f)].hash
    <3> DEFINE k == Len(f)
    <3>0. k \in 1..k /\ k \in Nat /\ DOMAIN f = 1..k /\ i \in 1..k
      BY <2>1
    <3> HIDE DEF k
    <3>1. i = k \/ i < k
      BY <3>0
    <3>2. \A j \in 1..k : f[j].seq \in Nat /\ f[j].prevHash \in Nat /\ f[j].hash \in Nat
      BY <2>1 DEF Entry, k
    <3>3. f[k].prevHash < f[k].hash
      BY <3>0 DEF Ordered
    <3>4. i < k => f[i].seq < f[k].seq /\ f[i].prevHash < f[k].prevHash
      BY <3>0 DEF Ordered
    <3>5. f[i].seq <= f[k].seq /\ f[i].prevHash < f[k].hash
      BY <3>0, <3>1, <3>2, <3>3, <3>4
    <3> QED
      BY <3>5 DEF k
  <2> QED
    BY <2>1, <2>2, <2>3 DEF Past
<1> QED
  BY <1>1, <1>2

\* What a server forgets when it stops.
LEMMA LostIsEmpty ==
  ASSUME TypeOK, MemoryLost
  PROVE  ~up' /\ DownIsEmpty'
<1>1. \A s \in Session : job'[s] # "running"
  BY DEF MemoryLost, TypeOK, Unfinished
<1> QED
  BY <1>1 DEF MemoryLost, DownIsEmpty, NewContext

LEMMA OrderInvStep ==
  ASSUME SingleWriter, ~TornWrites, TypeOK, OrderInv, [Next]_vars
  PROVE  OrderInv'
<1>0. ~LiveAnchor /\ head \in Entry \cup {NoEntry} /\ cliHead \in Entry \cup {NoEntry}
  BY DEF SingleWriter, TypeOK
<1>1. ASSUME UNCHANGED <<file, lastHash, cliHead, head, up>>, DownIsEmpty'
      PROVE  OrderInv'
  BY <1>1 DEF OrderInv
<1>2. ASSUME NEW s \in Session, SessionStep(s)
      PROVE  OrderInv'
  <2>1. up
    BY <1>2, SpineAssumption
       DEF OrderInv, DownIsEmpty, TypeOK, SessionStep, CreateSession, PulseFails, Prepare,
           SignRequest, SignStep, SignRejected, CommitOpenStale, CommitOpen, CommitOpenFails,
           SignReplied, StartStream, Startable, CloseStream, RunStep, SealSession, SealFails,
           RunFails
  <2>2. Past(file, head) /\ HeadHash(head) <= lastHash /\ cliHead = NoEntry
    BY <2>1 DEF OrderInv
  <2>3. CASE CommitOpen(s) \/ CommitOpenFails(s)
    <3>1. OpenEntry(s) \in Entry
      BY WrittenEntries
    <3>2. /\ Ordered(file') /\ \A i \in DOMAIN file' : file'[i].hash <= lastHash'
          /\ Past(file', OpenEntry(s)) /\ HeadHash(OpenEntry(s)) <= lastHash'
      BY <1>0, <2>2, <2>3, <3>1, OrderWrite DEF OrderInv, CommitOpen, CommitOpenFails, OpenEntry
    <3>3. up' /\ head' = OpenEntry(s) /\ cliHead' = NoEntry
      BY <2>1, <2>2, <2>3 DEF CommitOpen, CommitOpenFails, SignReplied
    <3> QED
      BY <3>2, <3>3 DEF OrderInv, DownIsEmpty
  <2>4. CASE SealSession(s) \/ SealFails(s)
    <3>1. SealEntry(s) \in Entry
      BY WrittenEntries
    <3>2. /\ Ordered(file') /\ \A i \in DOMAIN file' : file'[i].hash <= lastHash'
          /\ Past(file', SealEntry(s)) /\ HeadHash(SealEntry(s)) <= lastHash'
      BY <1>0, <2>2, <2>4, <3>1, OrderWrite DEF OrderInv, SealSession, SealFails, SealEntry
    <3>3. up' /\ head' = SealEntry(s) /\ cliHead' = NoEntry
      BY <2>1, <2>2, <2>4 DEF SealSession, SealFails
    <3> QED
      BY <3>2, <3>3 DEF OrderInv, DownIsEmpty
  <2>5. ASSUME ~CommitOpen(s), ~CommitOpenFails(s), ~SealSession(s), ~SealFails(s)
        PROVE  UNCHANGED <<file, lastHash, cliHead, head, up>>
    BY <1>2, <2>5
       DEF SessionStep, CreateSession, PulseFails, Prepare,
           SignRequest, SignStep, SignRejected, CommitOpenStale,
           SignReplied, StartStream, CloseStream, RunStep, RunFails, storeVars
  <2> QED
    BY <1>1, <2>1, <2>3, <2>4, <2>5 DEF DownIsEmpty
<1>3. CASE AnchorStep
  <2>1. CASE AnchorOpens
    <3>1. /\ cliHead' = ReadHead(file) /\ ~up /\ file # <<>>
          /\ UNCHANGED <<file, lastHash, up>> /\ DownIsEmpty'
      BY <1>0, <2>1 DEF AnchorOpens, storeVars, serverVars, OrderInv, DownIsEmpty
    <3>2. Past(file, ReadHead(file)) /\ HeadHash(ReadHead(file)) <= lastHash
      <4>1. /\ file \in Seq(Entry) /\ Len(file) \in DOMAIN file
            /\ file[Len(file)] \in Entry /\ ReadHead(file) = file[Len(file)]
        BY <3>1, EmptySeq, LenProperties DEF OrderInv, Ordered, ReadHead
      <4> QED
        BY <4>1, OrderRead, EntryFacts DEF OrderInv
    <3> QED
      BY <3>1, <3>2 DEF OrderInv
  <2>2. CASE AnchorAppends \/ AnchorFails
    <3>1. ~up /\ Past(file, cliHead) /\ HeadHash(cliHead) <= lastHash
      BY <2>2 DEF AnchorAppends, AnchorFails, OrderInv
    <3>2. Ordered(file') /\ \A i \in DOMAIN file' : file'[i].hash <= lastHash'
      BY <1>0, <2>2, <3>1, WrittenEntries, OrderWrite
         DEF AnchorAppends, AnchorFails, AnchorEntry, OrderInv
    <3> QED
      BY <2>2, <3>1, <3>2 DEF AnchorAppends, AnchorFails, serverVars, OrderInv, DownIsEmpty
  <2> QED
    BY <1>3, <2>1, <2>2 DEF AnchorStep
<1>4. CASE Crash \/ CrashInAppend
  <2>1. MemoryLost /\ UNCHANGED <<file, lastHash, cliHead>> /\ cliHead = NoEntry
    BY <1>4 DEF Crash, CrashInAppend, FailedWrites, storeVars, OrderInv
  <2> QED
    BY <2>1, LostIsEmpty DEF OrderInv
<1>5. CASE GenesisFails
  <2>1. Past(file, NoEntry) /\ HeadHash(NoEntry) <= lastHash
    BY <1>5, EmptySeq, EntryFacts DEF GenesisFails, Past, TypeOK
  <2>2. Ordered(file') /\ \A i \in DOMAIN file' : file'[i].hash <= lastHash'
    BY <1>5, <2>1, WrittenEntries, OrderWrite DEF GenesisFails, GenesisEntry, OrderInv
  <2>3. file = <<>> /\ file' = file /\ ~up /\ UNCHANGED <<serverVars, cliHead>>
    BY <1>5 DEF GenesisFails, PersistFails, FailedWrites
  <2>4. cliHead' # NoEntry => Past(file', cliHead') /\ HeadHash(cliHead') <= lastHash'
    <3>1. lastHash' = lastHash + 1 /\ lastHash \in Nat
      BY <1>5 DEF GenesisFails, PersistFails, GenesisEntry, NewEntry, AppendEntry, TypeOK
    <3>2. HeadHash(cliHead) \in Nat
      BY <1>0, EntryFacts DEF Entry
    <3> QED
      BY <2>3, <3>1, <3>2 DEF OrderInv
  <2> QED
    BY <2>2, <2>3, <2>4 DEF OrderInv, serverVars, DownIsEmpty
<1>6. CASE StartServer
  <2>1. up' /\ cliHead' = NoEntry /\ DownIsEmpty'
    BY <1>0, <1>6 DEF StartServer, DownIsEmpty
  <2>2. CASE file = <<>>
    <3>1. head' = GenesisEntry /\ Persist(GenesisEntry)
      BY <1>6, <2>2 DEF StartServer
    <3>2. Past(file, NoEntry) /\ HeadHash(NoEntry) <= lastHash
      BY <2>2, EmptySeq, EntryFacts DEF Past, TypeOK
    <3>3. /\ Ordered(file') /\ \A i \in DOMAIN file' : file'[i].hash <= lastHash'
          /\ Past(file', GenesisEntry) /\ HeadHash(GenesisEntry) <= lastHash'
      BY <3>1, <3>2, WrittenEntries, OrderWrite DEF GenesisEntry, OrderInv
    <3> QED
      BY <2>1, <3>1, <3>3 DEF OrderInv
  <2>3. CASE file # <<>>
    <3>1. head' = ReadHead(file) /\ UNCHANGED <<file, lastHash>>
      BY <1>6, <2>3 DEF StartServer, storeVars
    <3>2. /\ file \in Seq(Entry) /\ Len(file) \in DOMAIN file
          /\ file[Len(file)] \in Entry /\ ReadHead(file) = file[Len(file)]
      BY <2>3, EmptySeq, LenProperties DEF OrderInv, Ordered, ReadHead
    <3>3. Past(file, ReadHead(file)) /\ HeadHash(ReadHead(file)) <= lastHash
      BY <3>2, OrderRead, EntryFacts DEF OrderInv
    <3> QED
      BY <2>1, <3>1, <3>3 DEF OrderInv
  <2> QED
    BY <2>2, <2>3
<1>7. CASE UNCHANGED vars
  BY <1>7 DEF vars, storeVars, serverVars, OrderInv, DownIsEmpty
<1> QED
  BY <1>2, <1>3, <1>4, <1>5, <1>6, <1>7 DEF Next

\* When one process writes at a time and no write is torn, whatever writes fail
\* and whenever the server dies, the lines that are in the file stay in order and
\* no two of them continue the same entry.
THEOREM FaultsAlwaysOnlyLose ==
  SingleWriter /\ ~TornWrites => (Spec => []FaultsOnlyLoseEntries)
<1> SUFFICES ASSUME SingleWriter, ~TornWrites
             PROVE  Spec => []FaultsOnlyLoseEntries
  OBVIOUS
<1>1. Init => OrderInv
  <2>1. <<>> \in Seq(Entry) /\ DOMAIN <<>> = {}
    BY EmptySeq
  <2>2. Init => file = <<>> /\ ~up /\ cliHead = NoEntry /\ DownIsEmpty
    BY DEF Init, DownIsEmpty, NewContext
  <2>3. Init => Ordered(file) /\ DOMAIN file = {}
    BY <2>1, <2>2 DEF Ordered
  <2> QED
    BY <2>2, <2>3 DEF OrderInv
<1>2. TypeOK /\ OrderInv /\ [Next]_vars => OrderInv'
  BY OrderInvStep
<1>3. OrderInv => FaultsOnlyLoseEntries
  <2> SUFFICES ASSUME OrderInv, NEW i \in DOMAIN file, NEW j \in DOMAIN file, i < j
               PROVE  file[i].seq < file[j].seq /\ file[i].prevHash # file[j].prevHash
    BY DEF FaultsOnlyLoseEntries
  <2>1. file[i] \in Entry /\ file[j] \in Entry
    BY LenProperties DEF OrderInv, Ordered
  <2>2. file[i].seq < file[j].seq /\ file[i].prevHash < file[j].prevHash
    BY DEF OrderInv, Ordered
  <2>3. file[i].prevHash \in Nat
    BY <2>1 DEF Entry
  <2> QED
    BY <2>2, <2>3
<1> QED
  BY TypeCorrect, <1>1, <1>2, <1>3, PTL DEF Spec

-----------------------------------------------------------------------------
(* What a write does to the file, for all constants.                         *)

\* Every entry of g is an entry of f, at the same place, or e at the end.
Extends(f, g, e) ==
  \A i \in DOMAIN g : g[i].type \in EntryType =>
    \/ i \in DOMAIN f /\ g[i] = f[i]
    \/ i = Len(f) + 1 /\ g[i] = e

LEMMA LineFacts ==
  \A l \in Line : /\ l.hash \in Nat
                  /\ l.type \in EntryType \/ l.hash = 0
BY DEF Line, Entry, Unreadable, BadLine, GenesisPrev

LEMMA WriteLineExtends ==
  ASSUME NEW f \in Seq(Line), NEW e \in Entry
  PROVE  Extends(f, WriteLine(f, e), e)
<1>1. CASE f # <<>> /\ f[Len(f)].type = "torn"
  <2>1. WriteLine(f, e) = [f EXCEPT ![Len(f)] = Unreadable("garbled")]
    BY <1>1 DEF WriteLine
  <2>2. DOMAIN WriteLine(f, e) = DOMAIN f
    BY <2>1
  <2>3. ASSUME NEW i \in DOMAIN f
        PROVE  WriteLine(f, e)[i] = f[i] \/ WriteLine(f, e)[i].type = "garbled"
    BY <2>1, <2>3 DEF Unreadable
  <2>4. QED
    BY <2>2, <2>3 DEF Extends, EntryType
<1>2. CASE ~(f # <<>> /\ f[Len(f)].type = "torn")
  <2>1. WriteLine(f, e) = Append(f, e)
    BY <1>2 DEF WriteLine
  <2>2. QED
    BY <2>1 DEF Extends, Line
<1>3. QED
  BY <1>1, <1>2

LEMMA BrokenWritesExtends ==
  ASSUME NEW f \in Seq(Line), NEW e, NEW g \in BrokenWrites(f)
  PROVE  Extends(f, g, e)
<1>1. CASE g = f
  BY <1>1 DEF Extends
<1>2. CASE g # f
  <2>1. g = Append(f, Unreadable("torn"))
    BY <1>2 DEF BrokenWrites
  <2>2. Unreadable("torn") \in Line /\ Unreadable("torn").type \notin EntryType
    BY DEF Line, BadLine, Unreadable, EntryType
  <2>3. QED
    BY <2>1, <2>2, AppendProperties, LenProperties DEF Extends
<1>3. QED
  BY <1>1, <1>2

LEMMA WritesExtend ==
  ASSUME TypeOK, NEW e \in Entry, Persist(e) \/ PersistFails(e)
  PROVE  Extends(file, file', e) /\ lastHash' = e.hash
<1>1. CASE Persist(e)
  BY <1>1, WriteLineExtends DEF Persist, TypeOK
<1>2. CASE PersistFails(e)
  <2>1. file' \in BrokenWrites(file)
    BY <1>2 DEF PersistFails, FailedWrites, BrokenWrites
  <2>2. QED
    BY <1>2, <2>1, BrokenWritesExtends DEF PersistFails, FailedWrites, TypeOK
<1>3. QED
  BY <1>1, <1>2

\* What a file that was extended by e still says about sessions.
LEMMA ExtendsFacts ==
  ASSUME TypeOK, NEW e, file' \in Seq(Line), Extends(file, file', e)
  PROVE  /\ \A s \in Session : Opened(s)' =>
              Opened(s) \/ (e.type = "session.open" /\ e.session = s)
         /\ \A s \in Session : Sealed(s)' =>
              Sealed(s) \/ (e.type = "session.seal" /\ e.session = s)
BY DEF Extends, Opened, Sealed, EntryType

LEMMA ExtendsAtMostOnce ==
  ASSUME TypeOK, NEW e, file' \in Seq(Line), Extends(file, file', e),
         AtMostOncePerSession,
         e.type = "session.open" => ~Opened(e.session),
         e.type = "session.seal" => ~Sealed(e.session)
  PROVE  AtMostOncePerSession'
<1> SUFFICES ASSUME NEW i \in DOMAIN file', NEW j \in DOMAIN file',
                    file'[i].type \in {"session.open", "session.seal"},
                    file'[i].type = file'[j].type,
                    file'[i].session = file'[j].session
             PROVE  i = j
  BY DEF AtMostOncePerSession
<1>1. /\ \/ i \in DOMAIN file /\ file'[i] = file[i]
         \/ i = Len(file) + 1 /\ file'[i] = e
      /\ \/ j \in DOMAIN file /\ file'[j] = file[j]
         \/ j = Len(file) + 1 /\ file'[j] = e
  BY DEF Extends, EntryType
<1>2. CASE i \in DOMAIN file /\ j \in DOMAIN file /\ file'[i] = file[i] /\ file'[j] = file[j]
  BY <1>2 DEF AtMostOncePerSession
<1>3. CASE i \in DOMAIN file /\ file'[i] = file[i] /\ file'[j] = e
  BY <1>3 DEF Opened, Sealed
<1>4. CASE file'[i] = e /\ j \in DOMAIN file /\ file'[j] = file[j]
  BY <1>4 DEF Opened, Sealed
<1>5. QED
  BY <1>1, <1>2, <1>3, <1>4

-----------------------------------------------------------------------------
(* The life of a session, for all constants.                                 *)

LEMMA LifeInvStart == Init => LifeInv
<1> SUFFICES ASSUME Init
             PROVE  LifeInv
  OBVIOUS
<1>1. DOMAIN file = {}
  BY DEF Init
<1>2. /\ \A s \in Session : ctx[s].open = 0 /\ ctx[s].started = FALSE /\ job[s] = "none"
      /\ \A s \in Session : signing[s] = 0
  BY DEF Init, NewContext, NoHash, GenesisPrev
<1>3. pulses = {} /\ sessions = {} /\ lastHash = 0
  BY DEF Init, NewContext
<1>4. HeadHash(head) = 0 /\ HeadHash(cliHead) = 0
  BY EntryFacts, Zenon DEF Init
<1>5. DownIsEmpty
  BY <1>2, <1>3 DEF DownIsEmpty, NoHash, GenesisPrev
<1>6. HashesGrow
  BY <1>1, <1>2, <1>3, <1>4 DEF HashesGrow, NoHash, GenesisPrev
<1>7. \A s \in Session : LifeOf(s)
  <2> SUFFICES ASSUME NEW s \in Session
               PROVE  LifeOf(s)
    OBVIOUS
  <2>1. ~Opened(s) /\ ~Sealed(s)
    BY <1>1 DEF Opened, Sealed
  <2>2. ctx[s].open = NoHash /\ ~ctx[s].started /\ job[s] = "none" /\ ~(signing[s] > 0)
    BY <1>2 DEF NoHash, GenesisPrev
  <2>3. QED
    BY <1>3, <2>1, <2>2 DEF LifeOf
<1>8. AtMostOncePerSession
  BY <1>1 DEF AtMostOncePerSession
<1>9. QED
  BY <1>5, <1>6, <1>7, <1>8 DEF LifeInv

\* The entry of a write has the newest hash of all.
LEMMA HashesGrowOnWrite ==
  ASSUME TypeOK, TypeOK', HashesGrow, NEW e \in Entry, e.hash = lastHash + 1,
         Extends(file, file', e), lastHash' = e.hash
  PROVE  /\ \A i \in DOMAIN file' : file'[i].hash <= lastHash'
         /\ HeadHash(head) < lastHash' /\ HeadHash(cliHead) < lastHash'
         /\ HeadHash(e) = lastHash'
<1>1. lastHash \in Nat /\ lastHash' = lastHash + 1 /\ HeadHash(head) \in Nat /\ HeadHash(cliHead) \in Nat
  BY EntryFacts DEF TypeOK, Entry
<1>2. ASSUME NEW i \in DOMAIN file'
      PROVE  file'[i].hash <= lastHash'
  <2>1. file'[i] \in Line
    BY DEF TypeOK
  <2>2. CASE file'[i].type \in EntryType
    <3>1. (i \in DOMAIN file /\ file'[i] = file[i]) \/ file'[i] = e
      BY <2>2 DEF Extends
    <3>2. ASSUME i \in DOMAIN file
          PROVE  file[i].hash \in Nat /\ file[i].hash <= lastHash
      BY <3>2, LineFacts DEF HashesGrow, TypeOK
    <3>3. QED
      BY <1>1, <3>1, <3>2
  <2>3. CASE file'[i].hash = 0
    BY <1>1, <2>3
  <2>4. QED
    BY <2>1, <2>2, <2>3, LineFacts
<1>3. QED
  BY <1>1, <1>2, EntryFacts DEF HashesGrow

\* The steps of a session that leave the store alone.
LEMMA LifeInvQuietStep ==
  ASSUME TypeOK, TypeOK', LifeInv, NEW s \in Session,
         \/ CreateSession(s) \/ PulseFails(s) \/ Prepare(s)
         \/ SignRequest(s) \/ SignRejected(s) \/ CommitOpenStale(s)
         \/ StartStream(s) \/ CloseStream(s) \/ RunFails(s)
  PROVE  LifeInv'
<1> USE DEF storeVars
<1>1. up /\ up'
  BY SpineAssumption DEF LifeInv, DownIsEmpty, TypeOK, CreateSession, PulseFails, Prepare,
     SignRequest, SignRejected, CommitOpenStale, SignReplied, StartStream, Startable,
     CloseStream, RunFails
<1>2. UNCHANGED <<file, lastHash, head, cliHead>>
  BY DEF CreateSession, PulseFails, Prepare, SignRequest, SignRejected, CommitOpenStale,
         SignReplied, StartStream, CloseStream, RunFails
<1>3. /\ AtMostOncePerSession'
      /\ \A t \in Session : Opened(t)' <=> Opened(t)
      /\ \A t \in Session : Sealed(t)' <=> Sealed(t)
  BY <1>2 DEF LifeInv, AtMostOncePerSession, Opened, Sealed
<1>4. ASSUME NEW t \in Session, ctx'[t].open # NoHash
      PROVE  ctx[t].open # NoHash /\ ctx'[t].prevHash = ctx[t].prevHash
  <2> USE <1>4 DEF TypeOK
  <2>1. CASE Prepare(s)
    BY <2>1 DEF Prepare, NewContext
  <2>2. CASE StartStream(s)
    BY <2>2 DEF StartStream
  <2>3. CASE UNCHANGED ctx
    BY <2>3
  <2>4. QED
    BY <2>1, <2>2, <2>3 DEF CreateSession, PulseFails, SignRequest, SignRejected,
       CommitOpenStale, CloseStream, RunFails
<1>5. HashesGrow'
  BY <1>2, <1>4 DEF LifeInv, HashesGrow
<1>6. ASSUME NEW t \in Session
      PROVE  LifeOf(t)'
  <2> USE <1>3 DEF LifeOf, TypeOK
  <2>0. LifeOf(t)
    BY DEF LifeInv
  <2>1. CASE CreateSession(s)
    BY <2>0, <2>1 DEF CreateSession, LifeInv
  <2>2. CASE PulseFails(s)
    BY <2>0, <2>2 DEF PulseFails
  <2>3. CASE Prepare(s)
    BY <2>0, <2>3 DEF Prepare, NewContext
  <2>4. CASE SignRequest(s)
    BY <2>0, <2>4 DEF SignRequest
  <2>5. CASE SignRejected(s) \/ CommitOpenStale(s)
    BY <2>0, <2>5 DEF SignRejected, CommitOpenStale, SignReplied
  <2>6. CASE StartStream(s)
    BY <2>0, <2>6 DEF StartStream, Startable
  <2>7. CASE CloseStream(s)
    BY <2>0, <2>7 DEF CloseStream
  <2>8. CASE RunFails(s)
    BY <2>0, <2>8 DEF RunFails
  <2>9. QED
    BY <2>1, <2>2, <2>3, <2>4, <2>5, <2>6, <2>7, <2>8
<1>7. QED
  BY <1>1, <1>3, <1>5, <1>6 DEF LifeInv, DownIsEmpty

\* The guard of commitOpen admits no session that was opened before.
LEMMA GuardAdmitsOne ==
  ASSUME TypeOK, LifeInv, NEW s \in Session, signing[s] > 0, HeadUnmoved(s)
  PROVE  /\ up /\ ctx[s].open = NoHash /\ ~Opened(s) /\ ~ctx[s].started /\ s \in sessions
         /\ job[s] = "none" /\ ~Sealed(s) /\ s \in requested /\ s \notin pulses
<1>1. HeadHash(head) \in Nat /\ ctx[s].prevHash \in Nat /\ signing[s] \in Nat
  BY EntryFacts DEF TypeOK, Entry
<1>2. ~(ctx[s].prevHash < HeadHash(head))
  BY <1>1 DEF HeadUnmoved
<1>3. ctx[s].open = NoHash
  BY <1>2 DEF LifeInv, HashesGrow
<1>4. LifeOf(s) /\ signing[s] # 0
  BY <1>1 DEF LifeInv
<1>5. QED
  BY <1>3, <1>4 DEF LifeInv, LifeOf, DownIsEmpty, TypeOK

\* commitOpen, whether or not its write comes through.
LEMMA LifeInvOpenStep ==
  ASSUME TypeOK, TypeOK', LifeInv, NEW s \in Session,
         CommitOpen(s) \/ CommitOpenFails(s)
  PROVE  LifeInv'
<1> DEFINE e == OpenEntry(s)
<1> HIDE DEF e
<1>1. /\ signing[s] > 0 /\ HeadUnmoved(s) /\ head' = e
      /\ Persist(e) \/ PersistFails(e)
      /\ signing' = [signing EXCEPT ![s] = @ - 1]
      /\ UNCHANGED <<cliHead, up, requested, pulses, sessions, job>>
      /\ ctx' = ctx \/ ctx' = [ctx EXCEPT ![s].open = e.hash]
  BY DEF CommitOpen, CommitOpenFails, SignReplied, e
<1>2. HeadHash(head) \in Nat /\ ctx[s].prevHash \in Nat /\ signing[s] \in Nat
  BY EntryFacts DEF TypeOK, Entry
<1>3. /\ e \in Entry /\ e.type = "session.open" /\ e.session = s /\ e.hash = lastHash + 1
      /\ e.hash # NoHash
  BY <1>2, NewEntryType DEF OpenEntry, e, TypeOK, NewEntry, AppendEntry, EntryType, NoHash, GenesisPrev
<1>4. Extends(file, file', e) /\ lastHash' = e.hash
  BY <1>1, <1>3, WritesExtend
<1>5. /\ up /\ ctx[s].open = NoHash /\ ~Opened(s) /\ ~ctx[s].started /\ s \in sessions
      /\ job[s] = "none" /\ ~Sealed(s) /\ s \in requested /\ s \notin pulses
  BY <1>1, GuardAdmitsOne
<1>6. AtMostOncePerSession'
  BY <1>3, <1>4, <1>5, ExtendsAtMostOnce DEF LifeInv, TypeOK
<1>7. DownIsEmpty'
  BY <1>1, <1>5 DEF DownIsEmpty
<1>8. HashesGrow'
  <2>1. /\ \A i \in DOMAIN file' : file'[i].hash <= lastHash'
        /\ HeadHash(head) < lastHash' /\ HeadHash(cliHead) < lastHash'
        /\ HeadHash(e) = lastHash'
    BY <1>3, <1>4, HashesGrowOnWrite DEF LifeInv
  <2>2. lastHash' \in Nat /\ HeadHash(cliHead) \in Nat
    BY EntryFacts DEF TypeOK, Entry
  <2>3. ASSUME NEW t \in Session, ctx'[t].open # NoHash
        PROVE  ctx'[t].prevHash \in Nat /\ ctx'[t].prevHash <= HeadHash(head)
    <3>1. ctx'[t].prevHash = ctx[t].prevHash /\ ctx[t].prevHash \in Nat
      BY <1>1 DEF TypeOK
    <3>2. CASE t = s
      BY <1>1, <1>2, <3>1, <3>2 DEF HeadUnmoved
    <3>3. CASE t # s
      BY <1>1, <1>2, <2>3, <3>1, <3>3 DEF LifeInv, HashesGrow, TypeOK
    <3>4. QED
      BY <3>2, <3>3, <3>1
  <2>4. QED
    BY <1>1, <1>2, <2>1, <2>2, <2>3 DEF HashesGrow
<1>9. ASSUME NEW t \in Session
      PROVE  LifeOf(t)'
  <2>0. LifeOf(t)
    BY DEF LifeInv
  <2>1. /\ Opened(t)' => Opened(t) \/ t = s
        /\ Sealed(t)' => Sealed(t)
    BY <1>3, <1>4, ExtendsFacts DEF TypeOK
  <2>2. CASE t = s
    <3>1. ctx'[s].started = ctx[s].started /\ signing'[s] \in Nat
      BY <1>1 DEF TypeOK
    <3>2. ctx'[s].open # NoHash \/ ~Opened(s)'
      <4>1. CASE ctx' = [ctx EXCEPT ![s].open = e.hash]
        BY <1>3, <4>1 DEF TypeOK
      <4>2. CASE PersistFails(e)
        <5>1. Extends(file, file', NoEntry)
          BY <4>2, BrokenWritesExtends DEF PersistFails, FailedWrites, BrokenWrites, TypeOK
        <5>2. QED
          BY <1>5, <5>1, ExtendsFacts DEF TypeOK, NoEntry
      <4>3. QED
        BY <4>1, <4>2 DEF CommitOpen, CommitOpenFails, e
    <3>3. QED
      BY <1>1, <1>5, <2>1, <2>2, <3>1, <3>2 DEF LifeOf
  <2>3. CASE t # s
    <3>1. ctx'[t] = ctx[t] /\ signing'[t] = signing[t]
      BY <1>1, <2>3 DEF TypeOK
    <3>2. QED
      BY <1>1, <2>0, <2>1, <2>3, <3>1 DEF LifeOf
  <2>4. QED
    BY <2>2, <2>3
<1>10. QED
  BY <1>6, <1>7, <1>8, <1>9 DEF LifeInv

\* The seal of a run, whether or not its write comes through.
LEMMA LifeInvSealStep ==
  ASSUME TypeOK, TypeOK', LifeInv, NEW s \in Session,
         SealSession(s) \/ SealFails(s)
  PROVE  LifeInv'
<1> DEFINE e == SealEntry(s)
<1> HIDE DEF e
<1>1. /\ job[s] = "running" /\ head' = e
      /\ Persist(e) \/ PersistFails(e)
      /\ UNCHANGED <<cliHead, up, requested, pulses, sessions, ctx, signing>>
      /\ job' = [job EXCEPT ![s] = "sealed"] \/ job' = [job EXCEPT ![s] = "failed"]
  BY DEF SealSession, SealFails, e
<1>2. /\ e \in Entry /\ e.type = "session.seal" /\ e.session = s /\ e.hash = lastHash + 1
      /\ e.hash # NoHash
  BY NewEntryType DEF SealEntry, e, TypeOK, NewEntry, AppendEntry, EntryType, NoHash, GenesisPrev
<1>3. Extends(file, file', e) /\ lastHash' = e.hash
  BY <1>1, <1>2, WritesExtend
<1>4. up /\ ctx[s].started /\ ctx[s].open # NoHash /\ ~Sealed(s)
  BY <1>1 DEF LifeInv, LifeOf, DownIsEmpty
<1>5. AtMostOncePerSession'
  BY <1>2, <1>3, <1>4, ExtendsAtMostOnce DEF LifeInv, TypeOK
<1>6. HashesGrow'
  <2>1. /\ \A i \in DOMAIN file' : file'[i].hash <= lastHash'
        /\ HeadHash(head) < lastHash' /\ HeadHash(cliHead) < lastHash'
        /\ HeadHash(e) = lastHash'
    BY <1>2, <1>3, HashesGrowOnWrite DEF LifeInv
  <2>2. lastHash' \in Nat /\ HeadHash(cliHead) \in Nat /\ HeadHash(head) \in Nat
    BY EntryFacts DEF TypeOK, Entry
  <2>3. ASSUME NEW t \in Session, ctx[t].open # NoHash
        PROVE  ctx[t].prevHash \in Nat /\ ctx[t].prevHash < HeadHash(head)
    BY <2>3 DEF LifeInv, HashesGrow, TypeOK
  <2>4. QED
    BY <1>1, <2>1, <2>2, <2>3 DEF HashesGrow
<1>7. ASSUME NEW t \in Session
      PROVE  LifeOf(t)'
  <2>0. LifeOf(t)
    BY DEF LifeInv
  <2>1. /\ Opened(t)' => Opened(t)
        /\ Sealed(t)' => Sealed(t) \/ t = s
    BY <1>2, <1>3, ExtendsFacts DEF TypeOK
  <2>2. CASE t = s
    <3>1. job'[s] = "sealed" \/ (job'[s] = "failed" /\ ~Sealed(s)')
      <4>1. CASE PersistFails(e)
        <5>1. Extends(file, file', NoEntry)
          BY <4>1, BrokenWritesExtends DEF PersistFails, FailedWrites, BrokenWrites, TypeOK
        <5>2. QED
          BY <1>1, <1>4, <5>1, ExtendsFacts DEF TypeOK, NoEntry
      <4>2. CASE job' = [job EXCEPT ![s] = "sealed"]
        BY <4>2 DEF TypeOK
      <4>3. QED
        BY <4>1, <4>2 DEF SealSession, SealFails, e
    <3>2. QED
      BY <1>1, <1>4, <2>0, <2>1, <2>2, <3>1 DEF LifeOf
  <2>3. CASE t # s
    <3>1. job'[t] = job[t]
      BY <1>1, <2>3 DEF TypeOK
    <3>2. QED
      BY <1>1, <2>0, <2>1, <2>3, <3>1 DEF LifeOf
  <2>4. QED
    BY <2>2, <2>3
<1>8. QED
  BY <1>1, <1>4, <1>5, <1>6, <1>7 DEF LifeInv, DownIsEmpty

\* The head that a store reads from the file when it is opened.
LEMMA ReadHeadGrows ==
  ASSUME TypeOK, LifeInv, CanOpen(file)
  PROVE  HeadHash(ReadHead(file)) \in Nat /\ HeadHash(ReadHead(file)) <= lastHash
<1>1. CASE file = <<>>
  BY <1>1, EntryFacts DEF ReadHead, TypeOK
<1>2. CASE file # <<>>
  <2>1. Len(file) \in DOMAIN file /\ ReadHead(file) = file[Len(file)]
    BY <1>2 DEF ReadHead, TypeOK
  <2>2. file[Len(file)] \in Line /\ file[Len(file)].type \notin BadLine
    BY <1>2, <2>1 DEF CanOpen, Parses, TypeOK
  <2>3. file[Len(file)] \in Entry
    BY <2>2 DEF Line, Unreadable
  <2>4. QED
    BY <2>1, <2>3, EntryFacts DEF LifeInv, HashesGrow, Entry
<1>3. QED
  BY <1>1, <1>2

\* The anchor command, beside the server or not.
LEMMA LifeInvAnchorStep ==
  ASSUME TypeOK, TypeOK', LifeInv, AnchorStep
  PROVE  LifeInv'
<1>1. UNCHANGED serverVars
  BY DEF AnchorStep, AnchorOpens, AnchorAppends, AnchorFails
<1>2. CASE AnchorOpens
  <2>1. cliHead' = ReadHead(file) /\ UNCHANGED storeVars /\ CanOpen(file)
    BY <1>2 DEF AnchorOpens
  <2>2. HashesGrow'
    BY <1>1, <2>1, ReadHeadGrows DEF LifeInv, HashesGrow, storeVars, serverVars
  <2>3. QED
    BY <1>1, <2>1, <2>2 DEF storeVars, serverVars, LifeInv, DownIsEmpty, LifeOf, Opened, Sealed,
       AtMostOncePerSession
<1>3. CASE AnchorAppends \/ AnchorFails
  <2> DEFINE e == AnchorEntry
  <2> HIDE DEF e
  <2>1. cliHead # NoEntry /\ cliHead' = NoEntry /\ (Persist(e) \/ PersistFails(e))
    BY <1>3 DEF AnchorAppends, AnchorFails, e
  <2>2. /\ e \in Entry /\ e.type = "external.anchor" /\ e.hash = lastHash + 1
    <3>1. HeadHash(cliHead) \in Nat
      BY EntryFacts DEF TypeOK, Entry
    <3>2. QED
      BY <3>1, NewEntryType DEF AnchorEntry, e, TypeOK, NewEntry, AppendEntry, EntryType
  <2>3. Extends(file, file', e) /\ lastHash' = e.hash
    BY <2>1, <2>2, WritesExtend
  <2>4. AtMostOncePerSession'
    BY <2>2, <2>3, ExtendsAtMostOnce DEF LifeInv, TypeOK
  <2>5. \A t \in Session : (Opened(t)' => Opened(t)) /\ (Sealed(t)' => Sealed(t))
    BY <2>2, <2>3, ExtendsFacts DEF TypeOK
  <2>6. HashesGrow'
    <3>1. /\ \A i \in DOMAIN file' : file'[i].hash <= lastHash'
          /\ HeadHash(head) < lastHash'
      BY <2>2, <2>3, HashesGrowOnWrite DEF LifeInv
    <3>2. HeadHash(head) \in Nat /\ lastHash' \in Nat /\ HeadHash(cliHead') = 0
      BY <2>1, EntryFacts DEF TypeOK, Entry
    <3>3. QED
      BY <1>1, <3>1, <3>2 DEF LifeInv, HashesGrow, serverVars
  <2>7. QED
    BY <1>1, <2>4, <2>5, <2>6 DEF serverVars, LifeInv, DownIsEmpty, LifeOf
<1>4. QED
  BY <1>2, <1>3 DEF AnchorStep

\* The process dies, at rest or inside a write.
LEMMA LifeInvCrashStep ==
  ASSUME TypeOK, TypeOK', LifeInv, Crash \/ CrashInAppend
  PROVE  LifeInv'
<1>1. MemoryLost /\ UNCHANGED <<lastHash, cliHead, requested>>
  BY DEF Crash, CrashInAppend, storeVars
<1>2. Extends(file, file', NoEntry)
  <2>1. file' \in BrokenWrites(file)
    BY DEF Crash, CrashInAppend, FailedWrites, storeVars, BrokenWrites
  <2>2. QED
    BY <2>1, BrokenWritesExtends DEF TypeOK
<1>3. AtMostOncePerSession'
  BY <1>2, ExtendsAtMostOnce DEF LifeInv, TypeOK, NoEntry
<1>4. \A t \in Session : (Opened(t)' => Opened(t)) /\ (Sealed(t)' => Sealed(t))
  BY <1>2, ExtendsFacts DEF TypeOK, NoEntry
<1>5. /\ pulses' = {} /\ sessions' = {} /\ head' = NoEntry /\ ~up'
      /\ \A t \in Session : /\ ctx'[t].open = NoHash /\ ~ctx'[t].started /\ signing'[t] = 0
                            /\ job'[t] = IF Unfinished(t) THEN "lost" ELSE job[t]
  BY <1>1 DEF MemoryLost, NewContext, NoHash, GenesisPrev
<1>6. DownIsEmpty'
  BY <1>5 DEF DownIsEmpty, Unfinished
<1>7. HashesGrow'
  <2>1. ASSUME NEW i \in DOMAIN file'
        PROVE  file'[i].hash <= lastHash
    <3>1. file'[i] \in Line
      BY DEF TypeOK
    <3>2. CASE file'[i].type \in EntryType
      <4>1. i \in DOMAIN file /\ file'[i] = file[i]
        BY <1>2, <3>2 DEF Extends, NoEntry, EntryType
      <4>2. QED
        BY <4>1 DEF LifeInv, HashesGrow
    <3>3. CASE file'[i].hash = 0
      BY <3>3 DEF TypeOK
    <3>4. QED
      BY <3>1, <3>2, <3>3, LineFacts
  <2>2. HeadHash(head') = 0 /\ lastHash \in Nat
    BY <1>5, EntryFacts DEF TypeOK
  <2>3. QED
    BY <1>1, <1>5, <2>1, <2>2 DEF LifeInv, HashesGrow
<1>8. ASSUME NEW t \in Session
      PROVE  LifeOf(t)'
  <2>1. LifeOf(t)
    BY DEF LifeInv
  <2>2. ~(signing'[t] > 0)
    BY <1>5
  <2>3. job'[t] # "running" /\ (Sealed(t)' => job'[t] = "sealed")
    BY <1>4, <1>5, <2>1 DEF LifeOf, Unfinished
  <2>4. job'[t] # "none" => t \in requested'
    BY <1>1, <1>5, <2>1 DEF LifeOf, Unfinished
  <2>5. QED
    BY <1>1, <1>4, <1>5, <2>1, <2>2, <2>3, <2>4 DEF LifeOf
<1>9. QED
  BY <1>3, <1>6, <1>7, <1>8 DEF LifeInv

\* The server starts, or fails to.
LEMMA LifeInvStartStep ==
  ASSUME TypeOK, TypeOK', LifeInv, GenesisFails \/ StartServer
  PROVE  LifeInv'
<1> DEFINE e == GenesisEntry
<1> HIDE DEF e
<1>1. /\ ~up /\ UNCHANGED <<cliHead, requested, pulses, sessions, ctx, signing, job>>
      /\ \/ up' = up /\ head' = head /\ PersistFails(e)
         \/ up' /\ head' = e /\ Persist(e)
         \/ up' /\ head' = ReadHead(file) /\ UNCHANGED storeVars /\ CanOpen(file)
  BY DEF GenesisFails, StartServer, serverVars, e, TypeOK
<1>2. \A t \in Session : ctx[t].open = NoHash /\ job[t] # "running" /\ signing[t] = 0
  BY <1>1 DEF LifeInv, DownIsEmpty
<1>3. pulses = {} /\ sessions = {}
  BY <1>1 DEF LifeInv, DownIsEmpty
<1>4. DownIsEmpty'
  BY <1>1, <1>2, <1>3 DEF DownIsEmpty
<1>5. CASE UNCHANGED storeVars /\ head' = ReadHead(file) /\ CanOpen(file)
  <2>1. HashesGrow'
    BY <1>1, <1>2, <1>5, ReadHeadGrows DEF LifeInv, HashesGrow, storeVars
  <2>2. QED
    BY <1>1, <1>4, <1>5, <2>1 DEF storeVars, LifeInv, LifeOf, Opened, Sealed, AtMostOncePerSession
<1>6. CASE Persist(e) \/ PersistFails(e)
  <2>1. e \in Entry /\ e.type = "genesis" /\ e.hash = lastHash + 1
    BY NewEntryType DEF GenesisEntry, e, TypeOK, NewEntry, AppendEntry, EntryType, NoHash, GenesisPrev
  <2>2. Extends(file, file', e) /\ lastHash' = e.hash
    BY <1>6, <2>1, WritesExtend
  <2>3. AtMostOncePerSession'
    BY <2>1, <2>2, ExtendsAtMostOnce DEF LifeInv, TypeOK
  <2>4. \A t \in Session : (Opened(t)' => Opened(t)) /\ (Sealed(t)' => Sealed(t))
    BY <2>1, <2>2, ExtendsFacts DEF TypeOK
  <2>5. HashesGrow'
    <3>1. /\ \A i \in DOMAIN file' : file'[i].hash <= lastHash'
          /\ HeadHash(head) < lastHash' /\ HeadHash(cliHead) < lastHash'
          /\ HeadHash(e) = lastHash'
      BY <2>1, <2>2, HashesGrowOnWrite DEF LifeInv
    <3>2. HeadHash(head) \in Nat /\ HeadHash(cliHead) \in Nat /\ lastHash' \in Nat
      BY EntryFacts DEF TypeOK, Entry
    <3>3. ~UNCHANGED storeVars
      BY <2>1, <2>2 DEF storeVars, TypeOK
    <3>4. HeadHash(head') <= lastHash'
      <4>1. CASE head' = head
        BY <3>1, <3>2, <4>1
      <4>2. CASE head' = e
        BY <3>1, <3>2, <4>2
      <4>3. QED
        BY <1>1, <3>3, <4>1, <4>2
    <3>5. QED
      BY <1>1, <1>2, <3>1, <3>2, <3>4 DEF HashesGrow
  <2>6. QED
    BY <1>1, <1>4, <2>3, <2>4, <2>5 DEF LifeInv, LifeOf
<1>7. QED
  BY <1>1, <1>5, <1>6

LEMMA LifeInvStep == TypeOK /\ TypeOK' /\ LifeInv /\ [Next]_vars => LifeInv'
<1> SUFFICES ASSUME TypeOK, TypeOK', LifeInv, [Next]_vars
             PROVE  LifeInv'
  OBVIOUS
<1>1. ASSUME NEW s \in Session, SessionStep(s)
      PROVE  LifeInv'
  <2>1. CASE CommitOpen(s) \/ CommitOpenFails(s)
    BY <2>1, LifeInvOpenStep
  <2>2. CASE SealSession(s) \/ SealFails(s)
    BY <2>2, LifeInvSealStep
  <2>3. QED
    BY <1>1, <2>1, <2>2, LifeInvQuietStep DEF SessionStep, SignStep, RunStep
<1>2. CASE AnchorStep
  BY <1>2, LifeInvAnchorStep
<1>3. CASE Crash \/ CrashInAppend
  BY <1>3, LifeInvCrashStep
<1>4. CASE GenesisFails \/ StartServer
  BY <1>4, LifeInvStartStep
<1>5. CASE UNCHANGED vars
  BY <1>5 DEF vars, storeVars, serverVars, LifeInv, DownIsEmpty, HashesGrow, LifeOf, Opened, Sealed,
     AtMostOncePerSession
<1>6. QED
  BY <1>1, <1>2, <1>3, <1>4, <1>5 DEF Next

LEMMA LifeInvAlways == Spec => []LifeInv
<1>1. TypeOK /\ TypeOK' /\ LifeInv /\ [Next]_vars => LifeInv'
  BY LifeInvStep
<1>2. QED
  BY TypeCorrect, LifeInvStart, <1>1, PTL DEF Spec

\* No session has two session.open or two session.seal entries in the file,
\* whatever is duplicated or reordered: sign requests, sockets, crashes, failed
\* and torn writes, and an anchor command that runs beside the server.
THEOREM OneEntryPerSession == Spec => []AtMostOncePerSession
<1>1. LifeInv => AtMostOncePerSession
  BY DEF LifeInv
<1>2. QED
  BY LifeInvAlways, <1>1, PTL

\* Nothing revives a run that was sealed, that failed, or that the server
\* forgot in a crash.
THEOREM RunsStayFinal == Spec => RunsAreFinal
<1>1. TypeOK /\ LifeInv /\ [Next]_vars =>
        [\A s \in Session : job[s] \in {"sealed", "failed", "lost"} => job'[s] = job[s]]_vars
  <2> SUFFICES ASSUME TypeOK, LifeInv, Next, NEW t \in Session, job[t] \in {"sealed", "failed", "lost"}
               PROVE  job'[t] = job[t]
    OBVIOUS
  <2>1. LifeOf(t) /\ job[t] # "none" /\ job[t] # "running"
    BY DEF LifeInv
  <2>2. ASSUME NEW s \in Session, StartStream(s)
        PROVE  s # t
    BY <2>1, <2>2 DEF StartStream, Startable, LifeOf
  <2>3. ASSUME NEW s \in Session, RunStep(s)
        PROVE  s # t
    BY <2>1, <2>3 DEF RunStep, SealSession, SealFails, RunFails
  <2>4. ASSUME NEW s \in Session, SessionStep(s)
        PROVE  job' = job \/ (s # t /\ \E v : job' = [job EXCEPT ![s] = v])
    BY <2>2, <2>3, <2>4 DEF SessionStep, CreateSession, PulseFails, Prepare, SignRequest, SignStep,
       SignRejected, CommitOpenStale, CommitOpen, CommitOpenFails, SignReplied, StartStream,
       CloseStream, RunStep, SealSession, SealFails, RunFails
  <2>5. CASE Crash \/ CrashInAppend
    BY <2>1, <2>5 DEF Crash, CrashInAppend, MemoryLost, Unfinished
  <2>6. CASE AnchorStep \/ GenesisFails \/ StartServer
    BY <2>6 DEF AnchorStep, AnchorOpens, AnchorAppends, AnchorFails, GenesisFails, StartServer, serverVars
  <2>7. QED
    BY <2>4, <2>5, <2>6 DEF Next, TypeOK
<1>2. QED
  BY TypeCorrect, LifeInvAlways, <1>1, PTL DEF Spec, RunsAreFinal

-----------------------------------------------------------------------------
(* What a session.open binds, for all constants.                             *)

\* Whatever happens to the file, the head a session bound is the head its
\* session.open was chained on.
THEOREM OpenAlwaysBindsHead == Spec => []OpenBindsHead
<1>1. Init => OpenBindsHead
  BY DEF Init, OpenBindsHead
<1>2. TypeOK /\ TypeOK' /\ OpenBindsHead /\ [Next]_vars => OpenBindsHead'
  <2> SUFFICES ASSUME TypeOK, TypeOK', OpenBindsHead, [Next]_vars
               PROVE  OpenBindsHead'
    OBVIOUS
  <2>1. ASSUME NEW e, Extends(file, file', e), e.type = "session.open" => e.ref = e.prevHash
        PROVE  OpenBindsHead'
    BY <2>1 DEF Extends, OpenBindsHead, EntryType
  <2>2. ASSUME file' \in BrokenWrites(file)
        PROVE  OpenBindsHead'
    <3>1. Extends(file, file', NoEntry)
      BY <2>2, BrokenWritesExtends DEF TypeOK
    <3>2. QED
      BY <2>1, <3>1 DEF NoEntry
  <2>3. ASSUME NEW e \in Entry, Persist(e) \/ PersistFails(e),
               e.type = "session.open" => e.ref = e.prevHash
        PROVE  OpenBindsHead'
    BY <2>1, <2>3, WritesExtend
  <2>4. ASSUME NEW s \in Session, CommitOpen(s) \/ CommitOpenFails(s)
        PROVE  OpenBindsHead'
    <3>1. /\ Persist(OpenEntry(s)) \/ PersistFails(OpenEntry(s))
          /\ ctx[s].prevHash \in Nat /\ HeadHash(head) = ctx[s].prevHash
      BY <2>4 DEF CommitOpen, CommitOpenFails, HeadUnmoved, TypeOK
    <3>2. OpenEntry(s) \in Entry /\ OpenEntry(s).ref = OpenEntry(s).prevHash
      BY <3>1, NewEntryType DEF OpenEntry, TypeOK, NewEntry, AppendEntry, EntryType
    <3>3. QED
      BY <2>3, <3>1, <3>2
  <2>5. ASSUME NEW s \in Session, SealSession(s) \/ SealFails(s)
        PROVE  OpenBindsHead'
    <3>1. /\ Persist(SealEntry(s)) \/ PersistFails(SealEntry(s))
          /\ SealEntry(s) \in Entry /\ SealEntry(s).type = "session.seal"
      BY <2>5, NewEntryType
         DEF SealSession, SealFails, SealEntry, TypeOK, NewEntry, AppendEntry, EntryType
    <3>2. QED
      BY <2>3, <3>1
  <2>6. CASE AnchorAppends \/ AnchorFails
    <3>1. HeadHash(cliHead) \in Nat
      BY EntryFacts DEF TypeOK, Entry
    <3>2. /\ Persist(AnchorEntry) \/ PersistFails(AnchorEntry)
          /\ AnchorEntry \in Entry /\ AnchorEntry.type = "external.anchor"
      BY <2>6, <3>1, NewEntryType
         DEF AnchorAppends, AnchorFails, AnchorEntry, TypeOK, NewEntry, AppendEntry, EntryType
    <3>3. QED
      BY <2>3, <3>2
  <2>7. CASE Persist(GenesisEntry) \/ PersistFails(GenesisEntry)
    <3>1. GenesisEntry \in Entry /\ GenesisEntry.type = "genesis"
      BY NewEntryType DEF GenesisEntry, TypeOK, NewEntry, AppendEntry, EntryType, NoHash, GenesisPrev
    <3>2. QED
      BY <2>3, <2>7, <3>1
  <2>8. CASE UNCHANGED file
    BY <2>8 DEF OpenBindsHead
  <2>9. ASSUME NEW s \in Session, SessionStep(s)
        PROVE  OpenBindsHead'
    BY <2>4, <2>5, <2>8, <2>9 DEF SessionStep, CreateSession, PulseFails, Prepare, SignRequest,
       SignStep, SignRejected, CommitOpenStale, StartStream, CloseStream, RunStep, RunFails, storeVars
  <2>10. QED
    BY <2>2, <2>6, <2>7, <2>8, <2>9 DEF Next, AnchorStep, AnchorOpens, Crash, CrashInAppend,
       FailedWrites, BrokenWrites, GenesisFails, StartServer, vars, storeVars
<1>3. QED
  BY TypeCorrect, <1>1, <1>2, PTL DEF Spec

-----------------------------------------------------------------------------
(* The log of whole sessions, when no write is torn.                         *)

LEMMA PersistAppends ==
  ASSUME file \in Seq(Entry), NEW e \in Entry, Persist(e)
  PROVE  file' = Append(file, e)
<1>1. file # <<>> => file[Len(file)] \in Entry
  BY EmptySeq, LenProperties
<1>2. QED
  BY <1>1 DEF Persist, WriteLine, Entry, EntryType

LEMMA WholeWrites ==
  ASSUME ~TornWrites, file \in Seq(Entry), NEW e \in Entry, Persist(e) \/ PersistFails(e)
  PROVE  file' = Append(file, e) \/ (file' = file /\ PersistFails(e))
BY PersistAppends DEF PersistFails, FailedWrites

LEMMA LogInvStart == Init => LogInv
<1> SUFFICES ASSUME Init
             PROVE  LogInv
  OBVIOUS
<1>1. file = <<>> /\ ~up /\ cliHead = NoEntry /\ \A s \in Session : ctx[s].open = NoHash
  BY DEF Init, NewContext
<1>2. QED
  BY <1>1 DEF LogInv, SealNamesItsOpen

\* An entry e that the store of a running process appends keeps LogInv.
LEMMA LogInvAppend ==
  ASSUME LogInv, NEW e \in Entry, file' = Append(file, e),
         e.type = "session.seal" =>
           \E s \in Session : e.session = s /\ e.ref = ctx[s].open /\ ctx[s].open # NoHash,
         \A t \in Session : ctx'[t].open # NoHash =>
           \/ ctx'[t].open = ctx[t].open
           \/ e.type = "session.open" /\ e.session = t /\ e.hash = ctx'[t].open
  PROVE  LogInv'
<1>1. /\ file' \in Seq(Entry) /\ file' # <<>>
      /\ DOMAIN file = 1..Len(file) /\ DOMAIN file' = 1..(Len(file) + 1) /\ Len(file) \in Nat
      /\ \A i \in 1..Len(file) : file'[i] = file[i]
      /\ file'[Len(file) + 1] = e
  BY DEF LogInv
<1>2. ASSUME NEW t \in Session, ctx'[t].open # NoHash
      PROVE  \E i \in DOMAIN file' : /\ file'[i].type = "session.open" /\ file'[i].session = t
                                     /\ file'[i].hash = ctx'[t].open
  <2>1. CASE ctx'[t].open = ctx[t].open
    <3>1. PICK i \in DOMAIN file : /\ file[i].type = "session.open" /\ file[i].session = t
                                   /\ file[i].hash = ctx[t].open
      BY <1>2, <2>1 DEF LogInv
    <3>2. QED
      BY <1>1, <2>1, <3>1
  <2>2. CASE e.type = "session.open" /\ e.session = t /\ e.hash = ctx'[t].open
    BY <1>1, <2>2
  <2>3. QED
    BY <1>2, <2>1, <2>2
<1>3. SealNamesItsOpen'
  <2> SUFFICES ASSUME NEW i \in DOMAIN file', file'[i].type = "session.seal"
               PROVE  \E j \in 1..(i-1) : /\ file'[j].type = "session.open"
                                          /\ file'[j].session = file'[i].session
                                          /\ file'[j].hash = file'[i].ref
    BY DEF SealNamesItsOpen
  <2>1. CASE i \in 1..Len(file)
    <3>1. PICK j \in 1..(i-1) : /\ file[j].type = "session.open"
                                /\ file[j].session = file[i].session
                                /\ file[j].hash = file[i].ref
      BY <1>1, <2>1 DEF LogInv, SealNamesItsOpen
    <3>2. QED
      BY <1>1, <2>1, <3>1
  <2>2. CASE i = Len(file) + 1
    <3>1. PICK s \in Session : e.session = s /\ e.ref = ctx[s].open /\ ctx[s].open # NoHash
      BY <1>1, <2>2
    <3>2. PICK j \in DOMAIN file : /\ file[j].type = "session.open" /\ file[j].session = s
                                   /\ file[j].hash = ctx[s].open
      BY <3>1 DEF LogInv
    <3>3. QED
      BY <1>1, <2>2, <3>1, <3>2
  <2>3. QED
    BY <1>1, <2>1, <2>2
<1>4. QED
  BY <1>1, <1>2, <1>3 DEF LogInv

\* So does a step that writes nothing.
LEMMA LogInvQuiet ==
  ASSUME LogInv, file' = file, up' \/ cliHead' # NoEntry => file # <<>>,
         \A t \in Session : ctx'[t].open # NoHash => ctx'[t].open = ctx[t].open
  PROVE  LogInv'
<1>1. ASSUME NEW t \in Session, ctx'[t].open # NoHash
      PROVE  ctx[t].open # NoHash /\ ctx'[t].open = ctx[t].open
  BY <1>1
<1>2. QED
  BY <1>1 DEF LogInv, SealNamesItsOpen

LEMMA LogInvStep ==
  ASSUME ~TornWrites, TypeOK, TypeOK', LifeInv, LogInv, [Next]_vars
  PROVE  LogInv'
<1>1. ASSUME NEW e \in Entry, Persist(e) \/ PersistFails(e), UNCHANGED ctx,
             up' \/ cliHead' # NoEntry => file # <<>> \/ Persist(e),
             e.type = "session.seal" =>
               \E s \in Session : e.session = s /\ e.ref = ctx[s].open /\ ctx[s].open # NoHash
      PROVE  LogInv'
  <2>1. CASE file' = Append(file, e)
    BY <1>1, <2>1, LogInvAppend
  <2>2. CASE file' = file /\ PersistFails(e)
    <3>1. ~Persist(e)
      <4>1. Persist(e) => file' = Append(file, e)
        BY PersistAppends DEF LogInv
      <4>2. QED
        BY <2>2, <4>1 DEF LogInv
    <3>2. QED
      BY <1>1, <2>2, <3>1, LogInvQuiet
  <2>3. QED
    BY <1>1, <2>1, <2>2, WholeWrites DEF LogInv
<1>2. ASSUME NEW s \in Session, CommitOpen(s) \/ CommitOpenFails(s)
      PROVE  LogInv'
  <2> DEFINE e == OpenEntry(s)
  <2>1. ctx[s].prevHash \in Nat
    BY DEF TypeOK
  <2>2. e \in Entry /\ e.type = "session.open" /\ e.session = s
    BY <2>1, NewEntryType DEF OpenEntry, TypeOK, NewEntry, AppendEntry, EntryType
  <2>3. CASE CommitOpen(s)
    <3>1. file' = Append(file, e) /\ ctx' = [ctx EXCEPT ![s].open = e.hash]
      BY <2>2, <2>3, PersistAppends DEF CommitOpen, LogInv
    <3>2. \A t \in Session : ctx'[t].open # NoHash =>
            ctx'[t].open = ctx[t].open \/ (t = s /\ e.hash = ctx'[t].open)
      <4> HIDE DEF e
      <4> QED
        BY <3>1 DEF TypeOK
    <3>3. QED
      BY <2>2, <3>1, <3>2, LogInvAppend
  <2>4. CASE CommitOpenFails(s)
    <3>1. up /\ up' /\ UNCHANGED <<ctx, file>>
      BY <2>4, GuardAdmitsOne DEF CommitOpenFails, SignReplied, PersistFails, FailedWrites
    <3>2. QED
      BY <3>1, LogInvQuiet DEF LogInv
  <2>5. QED
    BY <1>2, <2>3, <2>4
<1>3. ASSUME NEW s \in Session, SealSession(s) \/ SealFails(s)
      PROVE  LogInv'
  <2> DEFINE e == SealEntry(s)
  <2>1. /\ e \in Entry /\ e.session = s /\ e.ref = ctx[s].open
        /\ Persist(e) \/ PersistFails(e)
    BY <1>3, NewEntryType
       DEF SealSession, SealFails, SealEntry, TypeOK, NewEntry, AppendEntry, EntryType
  <2>2. UNCHANGED <<ctx, up, cliHead>> /\ job[s] = "running"
    BY <1>3 DEF SealSession, SealFails
  <2>3. ctx[s].open # NoHash
    BY <2>2 DEF LifeInv, LifeOf
  <2>4. QED
    BY <1>1, <2>1, <2>2, <2>3 DEF LogInv
<1>4. CASE AnchorAppends \/ AnchorFails
  <2>1. HeadHash(cliHead) \in Nat
    BY EntryFacts DEF TypeOK, Entry
  <2>2. /\ AnchorEntry \in Entry /\ AnchorEntry.type = "external.anchor"
        /\ Persist(AnchorEntry) \/ PersistFails(AnchorEntry)
    BY <1>4, <2>1, NewEntryType
       DEF AnchorAppends, AnchorFails, AnchorEntry, TypeOK, NewEntry, AppendEntry, EntryType
  <2>3. UNCHANGED <<ctx, up>> /\ cliHead # NoEntry
    BY <1>4 DEF AnchorAppends, AnchorFails, serverVars
  <2>4. QED
    BY <1>1, <2>2, <2>3 DEF LogInv
<1>5. CASE StartServer \/ GenesisFails
  <2>1. GenesisEntry \in Entry /\ GenesisEntry.type = "genesis"
    BY NewEntryType DEF GenesisEntry, TypeOK, NewEntry, AppendEntry, EntryType, NoHash, GenesisPrev
  <2>2. UNCHANGED <<ctx, cliHead>> /\ ~up
    BY <1>5 DEF StartServer, GenesisFails, serverVars
  <2>3. CASE file # <<>> /\ UNCHANGED file
    BY <2>2, <2>3, LogInvQuiet
  <2>4. CASE Persist(GenesisEntry)
    BY <1>1, <2>1, <2>2, <2>4
  <2>5. CASE GenesisFails
    <3>1. up' = up /\ PersistFails(GenesisEntry)
      BY <2>5 DEF GenesisFails, serverVars
    <3>2. QED
      BY <1>1, <2>1, <2>2, <3>1 DEF LogInv
  <2>6. QED
    BY <1>5, <2>3, <2>4, <2>5 DEF StartServer, storeVars
<1>6. CASE AnchorOpens
  <2>1. UNCHANGED <<file, ctx, up>> /\ file # <<>>
    BY <1>6 DEF AnchorOpens, storeVars, serverVars
  <2>2. QED
    BY <2>1, LogInvQuiet
<1>7. CASE Crash \/ CrashInAppend
  <2>1. UNCHANGED <<file, cliHead>> /\ ~up' /\ \A t \in Session : ctx'[t].open = NoHash
    BY <1>7 DEF Crash, CrashInAppend, FailedWrites, storeVars, MemoryLost, NewContext
  <2>2. QED
    BY <2>1, LogInvQuiet DEF LogInv
<1>8. ASSUME NEW s \in Session,
             \/ CreateSession(s) \/ PulseFails(s) \/ Prepare(s)
             \/ SignRequest(s) \/ SignRejected(s) \/ CommitOpenStale(s)
             \/ StartStream(s) \/ CloseStream(s) \/ RunFails(s)
      PROVE  LogInv'
  <2>1. UNCHANGED <<file, up, cliHead>>
    BY <1>8 DEF CreateSession, PulseFails, Prepare, SignRequest, SignRejected, CommitOpenStale,
           SignReplied, StartStream, CloseStream, RunFails, storeVars
  <2>2. CASE Prepare(s)
    <3>1. \A t \in Session : ctx'[t].open # NoHash => ctx'[t].open = ctx[t].open
      BY <2>2 DEF Prepare, NewContext, TypeOK
    <3>2. QED
      BY <2>1, <3>1, LogInvQuiet DEF LogInv
  <2>3. CASE StartStream(s)
    <3>1. \A t \in Session : ctx'[t].open = ctx[t].open
      BY <2>3 DEF StartStream, TypeOK
    <3>2. QED
      BY <2>1, <3>1, LogInvQuiet DEF LogInv
  <2>4. CASE UNCHANGED ctx
    BY <2>1, <2>4, LogInvQuiet DEF LogInv
  <2>5. QED
    BY <1>8, <2>2, <2>3, <2>4 DEF CreateSession, PulseFails, SignRequest, SignRejected,
       CommitOpenStale, CloseStream, RunFails
<1>9. CASE UNCHANGED vars
  BY <1>9, LogInvQuiet DEF vars, storeVars, serverVars, LogInv
<1>10. QED
  BY <1>2, <1>3, <1>4, <1>5, <1>6, <1>7, <1>8, <1>9
     DEF Next, SessionStep, SignStep, RunStep, AnchorStep

LEMMA LogInvAlways == ~TornWrites => (Spec => []LogInv)
<1> SUFFICES ASSUME ~TornWrites
             PROVE  Spec => []LogInv
  OBVIOUS
<1>1. TypeOK /\ TypeOK' /\ LifeInv /\ LogInv /\ [Next]_vars => LogInv'
  BY LogInvStep
<1>2. QED
  BY TypeCorrect, LifeInvAlways, LogInvStart, <1>1, PTL DEF Spec

\* When no write is torn, a seal names the session.open of its own session,
\* earlier in the file, however many runs are interleaved and whatever fails.
THEOREM SealsNameTheirOpen == ~TornWrites => (Spec => []SealNamesItsOpen)
<1> SUFFICES ASSUME ~TornWrites
             PROVE  Spec => []SealNamesItsOpen
  OBVIOUS
<1>1. LogInv => SealNamesItsOpen
  BY DEF LogInv
<1>2. QED
  BY LogInvAlways, <1>1, PTL

\* When no write is torn, readers of the file see a log of whole sessions.
THEOREM RefinesSessionLog == ~TornWrites => (Spec => ImplementsSessionLog)
<1> SUFFICES ASSUME ~TornWrites
             PROVE  Spec => ImplementsSessionLog
  OBVIOUS
<1>1. Init => Abstract!Init
  BY DEF Init, Abstract!Init, LogOf
<1>2. TypeOK /\ TypeOK' /\ LifeInv /\ LogInv /\ [Next]_vars => [Abstract!Next]_(LogOf(file))
  <2> SUFFICES ASSUME TypeOK, TypeOK', LifeInv, LogInv, [Next]_vars
               PROVE  [Abstract!Next]_(LogOf(file))
    OBVIOUS
  <2>1. CASE file' = file
    BY <2>1 DEF LogOf
  <2>2. ASSUME NEW e \in Entry, Persist(e)
        PROVE  LogOf(file)' = Append(LogOf(file), [type |-> e.type, session |-> e.session])
    <3>1. file' = Append(file, e) /\ file \in Seq(Entry)
      BY <2>2, PersistAppends DEF LogInv
    <3>2. QED
      BY <3>1 DEF LogOf
  <2>3. file # <<>> => LogOf(file) # <<>>
    BY DEF LogOf, LogInv
  <2>4. ASSUME NEW type, NEW s
        PROVE  Abstract!Logged(type, s) <=>
                 \E i \in DOMAIN file : file[i].type = type /\ file[i].session = s
    BY DEF LogOf, Abstract!Logged
  <2>5. ASSUME NEW s \in Session, CommitOpen(s)
        PROVE  Abstract!Open(s)
    <3>1. up /\ ~Opened(s)
      BY <2>5, GuardAdmitsOne DEF CommitOpen, SignReplied
    <3>2. OpenEntry(s) \in Entry /\ OpenEntry(s).type = "session.open" /\ OpenEntry(s).session = s
      BY WrittenEntries DEF OpenEntry, NewEntry, AppendEntry
    <3>3. QED
      BY <2>2, <2>3, <2>4, <2>5, <3>1, <3>2
         DEF CommitOpen, LogInv, Opened, Abstract!Open, Abstract!Write
  <2>6. ASSUME NEW s \in Session, SealSession(s)
        PROVE  Abstract!Seal(s)
    <3>1. ctx[s].open # NoHash /\ ~Sealed(s)
      BY <2>6 DEF SealSession, LifeInv, LifeOf
    <3>2. SealEntry(s) \in Entry /\ SealEntry(s).type = "session.seal" /\ SealEntry(s).session = s
      BY WrittenEntries DEF SealEntry, NewEntry, AppendEntry
    <3>3. QED
      BY <2>2, <2>4, <2>6, <3>1, <3>2
         DEF SealSession, LogInv, Sealed, Abstract!Seal, Abstract!Write
  <2>7. CASE AnchorAppends
    <3>1. AnchorEntry \in Entry /\ AnchorEntry.type = "external.anchor" /\ AnchorEntry.session = NoSession
      BY WrittenEntries DEF AnchorEntry, NewEntry, AppendEntry
    <3>2. Abstract!Anchor
      BY <2>2, <2>3, <2>7, <3>1 DEF AnchorAppends, LogInv, Abstract!Anchor, Abstract!Write
    <3>3. QED
      BY <3>2 DEF Abstract!Next
  <2>8. CASE file = <<>> /\ Persist(GenesisEntry)
    <3>1. GenesisEntry \in Entry /\ GenesisEntry.type = "genesis" /\ GenesisEntry.session = NoSession
      BY WrittenEntries DEF GenesisEntry, NewEntry, AppendEntry
    <3>2. LogOf(file) = <<>>
      BY <2>8 DEF LogOf
    <3>3. Abstract!Genesis
      BY <2>2, <2>8, <3>1, <3>2 DEF Abstract!Genesis, Abstract!Write
    <3>4. QED
      BY <3>3 DEF Abstract!Next
  <2>9. ASSUME NEW e, PersistFails(e)
        PROVE  file' = file
    BY <2>9 DEF PersistFails, FailedWrites
  <2>10. ASSUME NEW s \in Session, SessionStep(s)
         PROVE  [Abstract!Next]_(LogOf(file))
    <3>1. CASE CommitOpen(s)
      BY <2>5, <3>1 DEF Abstract!Next
    <3>2. CASE SealSession(s)
      BY <2>6, <3>2 DEF Abstract!Next
    <3>3. QED
      BY <2>1, <2>9, <2>10, <3>1, <3>2 DEF SessionStep, CreateSession, PulseFails, Prepare,
         SignRequest, SignStep, SignRejected, CommitOpenStale, CommitOpenFails, StartStream,
         CloseStream, RunStep, SealFails, RunFails, storeVars
  <2>11. QED
    BY <2>1, <2>7, <2>8, <2>9, <2>10 DEF Next, AnchorStep, AnchorOpens, AnchorFails, Crash,
       CrashInAppend, FailedWrites, GenesisFails, StartServer, vars, storeVars
<1>3. QED
  BY TypeCorrect, LifeInvAlways, LogInvAlways, <1>1, <1>2, PTL
     DEF Spec, ImplementsSessionLog, Abstract!Spec
=============================================================================

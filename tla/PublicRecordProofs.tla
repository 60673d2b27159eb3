------------------------- MODULE PublicRecordProofs -------------------------
(***************************************************************************)
(* The readers change nothing of the spine and their cache is true; what   *)
(* has sealed is public, what was saved was earned, and what the routes    *)
(* compute from the rows of any ledger agrees: types, ranks and totals.    *)
(***************************************************************************)
EXTENDS PublicRecord, SessionSpineProofs, DataProofs

\* Readers take part in the spine as nobody, or as a crash: what was proved of
\* SessionSpine holds among them.
THEOREM ReadersRefineSpine == RecordSpec => Spec
<1>1. RecordInit => Init
  BY DEF RecordInit
<1>2. [RecordNext]_allVars => [Next]_vars
  <2>1. CASE GetThrows
    BY <2>1 DEF GetThrows, Next, Crash
  <2>2. CASE UNCHANGED vars
    BY <2>2
  <2>3. QED
    BY <2>1, <2>2 DEF RecordNext, SpineStep, ServeGet, ContactThrows, SubmitContact, allVars
<1>3. QED
  BY <1>1, <1>2, PTL DEF RecordSpec, Spec

-----------------------------------------------------------------------------

LEMMA WrittenNamed ==
  /\ \A s \in Session : Named(OpenEntry(s)) /\ Named(SealEntry(s))
  /\ Named(AnchorEntry) /\ Named(GenesisEntry)
BY DEF Named, IsOpen, OpenEntry, SealEntry, AnchorEntry, GenesisEntry, NewEntry, AppendEntry

\* All that a step does to the file.
LEMMA FileStep ==
  ASSUME TypeOK, [Next]_vars
  PROVE  \/ file' = file
         \/ \E e \in Entry : Named(e) /\ file' = WriteLine(file, e)
         \/ file' \in BrokenWrites(file)
<1>1. ASSUME NEW e \in Entry, Named(e), Persist(e) \/ PersistFails(e)
      PROVE  \/ \E l \in Entry : Named(l) /\ file' = WriteLine(file, l)
             \/ file' \in BrokenWrites(file)
  BY <1>1 DEF Persist, PersistFails, FailedWrites, BrokenWrites
<1>2. CASE \E s \in Session : CommitOpen(s) \/ CommitOpenFails(s)
  BY <1>1, <1>2, WrittenEntries, WrittenNamed DEF CommitOpen, CommitOpenFails
<1>3. CASE \E s \in Session : SealSession(s) \/ SealFails(s)
  BY <1>1, <1>3, WrittenEntries, WrittenNamed DEF SealSession, SealFails
<1>4. CASE AnchorAppends \/ AnchorFails
  BY <1>1, <1>4, WrittenEntries, WrittenNamed DEF AnchorAppends, AnchorFails
<1>5. CASE GenesisFails \/ StartServer
  BY <1>1, <1>5, WrittenEntries, WrittenNamed DEF GenesisFails, StartServer, storeVars
<1>6. CASE CrashInAppend
  BY <1>6 DEF CrashInAppend, FailedWrites, BrokenWrites
<1>7. CASE UNCHANGED storeVars
  BY <1>7 DEF storeVars
<1>8. QED
  BY <1>2, <1>3, <1>4, <1>5, <1>6, <1>7
     DEF Next, SessionStep, CreateSession, PulseFails, Prepare, SignRequest, SignStep,
         SignRejected, CommitOpenStale, StartStream, CloseStream, RunStep, RunFails,
         AnchorStep, AnchorOpens, Crash, vars

\* A write leaves what is cached, and no key that was taken fits it.
LEMMA WriteKeepsCache ==
  ASSUME TypeOK, CacheInv, UNCHANGED <<cacheKey, cached>>,
         file' \in Seq(Line),
         \/ file' = file
         \/ \E e \in Entry : file' = WriteLine(file, e)
         \/ file' \in BrokenWrites(file)
  PROVE  CacheInv'
<1> file \in Seq(Line)
  BY DEF TypeOK
<1> cached \in Seq(Entry) /\ cacheKey.lines \in Nat /\ cacheKey.last \notin BadLine
  BY DEF CacheInv, EntryType, BadLine
<1>1. CASE file' = file
  BY <1>1 DEF CacheInv, CacheTrue, Stat
<1>2. ASSUME NEW l \in Line, file' = Append(file, l)
      PROVE  CacheInv'
  <2>1. Len(file') = Len(file) + 1 /\ \A i \in DOMAIN file : file'[i] = file[i]
    BY <1>2
  <2>2. cacheKey # Stat(file')
    BY <2>1 DEF CacheInv, Stat
  <2>3. \A i \in DOMAIN cached : i \in DOMAIN file
    BY DEF CacheInv, CacheTrue
  <2>4. QED
    BY <2>1, <2>2, <2>3 DEF CacheInv, CacheTrue, Stat
<1>3. ASSUME file # <<>>, file[Len(file)].type = "torn",
             file' = [file EXCEPT ![Len(file)] = Unreadable("garbled")]
      PROVE  CacheInv'
  <2>1. /\ Len(file') = Len(file) /\ file' # <<>>
        /\ \A i \in DOMAIN file : i # Len(file) => file'[i] = file[i]
        /\ file'[Len(file')].type = "garbled"
    BY <1>3 DEF Unreadable
  <2>2. cacheKey # Stat(file')
    BY <2>1 DEF CacheInv, Stat, BadLine
  <2>3. ASSUME NEW i \in DOMAIN cached
        PROVE  cached[i].type # "torn" /\ i \in DOMAIN file
    <3>1. cached[i] \in Entry
      OBVIOUS
    <3>2. cached[i].type # "torn"
      BY <3>1 DEF Entry, EntryType
    <3>3. i \in DOMAIN file
      BY DEF CacheInv, CacheTrue
    <3>4. QED
      BY <3>2, <3>3
  <2>4. \A i \in DOMAIN cached : i # Len(file)
    BY <1>3, <2>3 DEF CacheInv, CacheTrue
  <2>5. QED
    BY <2>1, <2>2, <2>3, <2>4 DEF CacheInv, CacheTrue
<1>4. Entry \subseteq Line /\ Unreadable("torn") \in Line
  BY DEF Line, BadLine
<1>5. QED
  BY <1>1, <1>2, <1>3, <1>4 DEF WriteLine, BrokenWrites

LEMMA NewReaderIsTrue ==
  ASSUME TypeOK', NewReader
  PROVE  CacheInv'
<1>1. file' \in Seq(Line)
  BY DEF TypeOK
<1>2. CASE file' = <<>>
  BY <1>1, <1>2 DEF NewReader, NoKey, CacheInv, CacheTrue, Stat, BadLine
<1>3. CASE file' # <<>>
  BY <1>1, <1>3 DEF NewReader, NoKey, CacheInv, CacheTrue, Stat, BadLine
<1>4. QED
  BY <1>2, <1>3

LEMMA RefreshIsTrue ==
  ASSUME TypeOK, CacheInv, CanServe, Refresh, UNCHANGED file
  PROVE  CacheInv'
<1>1. CASE cacheKey = Stat(file)
  BY <1>1 DEF Refresh, CacheInv, CacheTrue, Stat
<1>2. CASE cacheKey # Stat(file)
  <2>1. file \in Seq(Line) /\ AllParse(file) /\ cacheKey' = Stat(file) /\ cached' = file
    BY <1>2 DEF CanServe, Refresh, TypeOK
  <2>2. \A i \in DOMAIN file : file[i] \in Entry /\ file[i].type \notin BadLine
    BY <2>1 DEF AllParse, Parses, Line, Unreadable
  <2>3. file \in Seq(Entry)
    BY <2>1, <2>2
  <2>4. file # <<>> => Len(file) \in DOMAIN file
    BY <2>1
  <2>5. /\ Stat(file) \in [lines : Nat, last : EntryType \cup {"none"}]
        /\ Stat(file).lines = Len(file)
    BY <2>1, <2>2, <2>4 DEF Stat, Entry
  <2>6. QED
    BY <2>1, <2>3, <2>5 DEF CacheInv, CacheTrue
<1>3. QED
  BY <1>1, <1>2

LEMMA CacheInvAlways == RecordSpec => []CacheInv
<1>1. RecordInit => CacheInv
  BY DEF RecordInit, Init, NoKey, CacheInv, CacheTrue, Stat, BadLine
<1>2. TypeOK /\ TypeOK' /\ CacheInv /\ [RecordNext]_allVars => CacheInv'
  <2> SUFFICES ASSUME TypeOK, TypeOK', CacheInv, [RecordNext]_allVars
               PROVE  CacheInv'
    OBVIOUS
  <2>0. file' \in Seq(Line)
    BY DEF TypeOK
  <2>1. CASE SpineStep
    BY <2>0, <2>1, FileStep, WriteKeepsCache, NewReaderIsTrue DEF SpineStep
  <2>2. CASE ServeGet \/ \E op \in Operator : SubmitContact(op)
    BY <2>2, RefreshIsTrue DEF ServeGet, SubmitContact, vars, storeVars
  <2>3. CASE GetThrows
    BY <2>3, NewReaderIsTrue DEF GetThrows
  <2>4. CASE ContactThrows \/ UNCHANGED allVars
    <3>1. UNCHANGED <<cacheKey, cached, file>>
      BY <2>4 DEF ContactThrows, RefreshThrows, allVars, recordVars, vars, storeVars
    <3>2. QED
      BY <2>0, <3>1, WriteKeepsCache
  <2>5. QED
    BY <2>1, <2>2, <2>3, <2>4 DEF RecordNext
<1>3. RecordSpec => []TypeOK
  BY ReadersRefineSpine, TypeCorrect
<1>4. QED
  BY <1>1, <1>2, <1>3, PTL DEF RecordSpec

\* The cache of the reader: whatever happens to the file, in whatever order with
\* reads that succeed or throw, a key that fits stands for the file as it is.
THEOREM CacheStaysTrue == RecordSpec => []CacheTrue
<1>1. CacheInv => CacheTrue
  BY DEF CacheInv
<1>2. QED
  BY <1>1, CacheInvAlways, PTL

\* Among readers, too, no session is opened or sealed twice.
THEOREM OneEntryAmongReaders == RecordSpec => []AtMostOncePerSession
BY ReadersRefineSpine, OneEntryPerSession

-----------------------------------------------------------------------------
(* What has sealed is public.                                                *)

\* A line that parses stays where it is, and so does one that swallowed another.
LEMMA LinesStay ==
  ASSUME TypeOK, [Next]_vars
  PROVE  \A i \in DOMAIN file :
           i \in DOMAIN file' /\ (file[i].type # "torn" => file'[i] = file[i])
<1> file \in Seq(Line)
  BY DEF TypeOK
<1>1. CASE file' = file
  BY <1>1
<1>2. ASSUME NEW l \in Line, file' = Append(file, l)
      PROVE  \A i \in DOMAIN file : i \in DOMAIN file' /\ file'[i] = file[i]
  BY <1>2
<1>3. CASE /\ file # <<>> /\ file[Len(file)].type = "torn"
           /\ file' = [file EXCEPT ![Len(file)] = Unreadable("garbled")]
  BY <1>3
<1>4. Entry \subseteq Line /\ Unreadable("torn") \in Line
  BY DEF Line, BadLine
<1>5. QED
  BY <1>1, <1>2, <1>3, <1>4, FileStep DEF WriteLine, BrokenWrites

LEMMA GarbledStays ==
  ASSUME TypeOK, [Next]_vars, Garbled
  PROVE  Garbled'
BY LinesStay DEF Garbled

\* An entry that is persisted is the last line, or is swallowed by a torn one.
LEMMA PersistedOrSwallowed ==
  ASSUME TypeOK, NEW e \in Entry, Persist(e)
  PROVE  \/ Garbled'
         \/ Len(file) + 1 \in DOMAIN file' /\ file'[Len(file) + 1] = e
<1> file \in Seq(Line) /\ e \in Line
  BY DEF TypeOK, Line
<1>1. CASE file # <<>> /\ file[Len(file)].type = "torn"
  <2>1. file' = [file EXCEPT ![Len(file)] = Unreadable("garbled")]
    BY <1>1 DEF Persist, WriteLine
  <2>2. Len(file) \in DOMAIN file
    BY <1>1
  <2>3. QED
    BY <2>1, <2>2 DEF Garbled, Unreadable
<1>2. CASE ~(file # <<>> /\ file[Len(file)].type = "torn")
  <2>1. file' = Append(file, e)
    BY <1>2 DEF Persist, WriteLine
  <2>2. QED
    BY <2>1
<1>3. QED
  BY <1>1, <1>2

\* A step that neither opens nor seals this session keeps what it has.
LEMMA OpensByCommit ==
  ASSUME TypeOK, [Next]_vars, NEW s \in Session, ~CommitOpen(s)
  PROVE  ctx'[s].open # NoHash => ctx'[s].open = ctx[s].open
<1>1. ctx \in [Session -> [prevHash : Nat, open : Nat, started : BOOLEAN]]
  BY DEF TypeOK
<1>2. ASSUME NEW t \in Session, SessionStep(t)
      PROVE  ctx'[s].open # NoHash => ctx'[s].open = ctx[s].open
  <2>1. CASE CommitOpen(t)
    BY <1>1, <2>1 DEF CommitOpen
  <2>2. CASE Prepare(t)
    BY <1>1, <2>2 DEF Prepare, NewContext
  <2>3. CASE StartStream(t)
    BY <1>1, <2>3 DEF StartStream
  <2>4. CASE UNCHANGED ctx
    BY <2>4
  <2>5. QED
    BY <1>2, <2>1, <2>2, <2>3, <2>4
       DEF SessionStep, CreateSession, PulseFails, SignRequest, SignStep, SignRejected,
           CommitOpenStale, CommitOpenFails, CloseStream, RunStep, SealSession, SealFails,
           RunFails
<1>3. CASE Crash \/ CrashInAppend
  BY <1>3 DEF Crash, CrashInAppend, MemoryLost, NewContext
<1>4. CASE UNCHANGED ctx
  BY <1>4
<1>5. QED
  BY <1>2, <1>3, <1>4
     DEF Next, AnchorStep, AnchorOpens, AnchorAppends, AnchorFails, GenesisFails, StartServer,
         serverVars, vars

LEMMA SealsByRun ==
  ASSUME TypeOK, [Next]_vars, NEW s \in Session, ~SealSession(s)
  PROVE  job'[s] = "sealed" => job[s] = "sealed"
<1>1. job \in [Session -> JobState]
  BY DEF TypeOK
<1>2. ASSUME NEW t \in Session, SessionStep(t)
      PROVE  job'[s] = "sealed" => job[s] = "sealed"
  <2>1. CASE SealSession(t)
    BY <1>1, <2>1 DEF SealSession
  <2>2. CASE StartStream(t)
    BY <1>1, <2>2 DEF StartStream
  <2>3. CASE SealFails(t) \/ RunFails(t)
    BY <1>1, <2>3 DEF SealFails, RunFails
  <2>4. CASE UNCHANGED job
    BY <2>4
  <2>5. QED
    BY <1>2, <2>1, <2>2, <2>3, <2>4
       DEF SessionStep, CreateSession, PulseFails, Prepare, SignRequest, SignStep, SignRejected,
           SignReplied, CommitOpenStale, CommitOpen, CommitOpenFails, CloseStream, RunStep
<1>3. CASE Crash \/ CrashInAppend
  BY <1>3 DEF Crash, CrashInAppend, MemoryLost, Unfinished
<1>4. CASE UNCHANGED job
  BY <1>4
<1>5. QED
  BY <1>2, <1>3, <1>4
     DEF Next, AnchorStep, AnchorOpens, AnchorAppends, AnchorFails, GenesisFails, StartServer,
         serverVars, vars

LEMMA KeptInvStep ==
  ASSUME TypeOK, TypeOK', LifeInv, KeptInv, [Next]_vars
  PROVE  KeptInv'
<1> SUFFICES ASSUME ~Garbled', NEW s \in Session
             PROVE  /\ ctx'[s].open # NoHash =>
                         \E i \in DOMAIN file' : OpensAt(s, i)' /\ file'[i].hash = ctx'[s].open
                    /\ job'[s] = "sealed" =>
                         \E i, j \in DOMAIN file' : OpensAt(s, i)' /\ SealsAt(s, i, j)'
  BY DEF KeptInv
<1>1. /\ ctx[s].open # NoHash =>
           \E i \in DOMAIN file : OpensAt(s, i) /\ file[i].hash = ctx[s].open
      /\ job[s] = "sealed" => \E i, j \in DOMAIN file : OpensAt(s, i) /\ SealsAt(s, i, j)
  BY GarbledStays DEF KeptInv
<1>2. file \in Seq(Line) /\ DOMAIN file = 1..Len(file) /\ Len(file) \in Nat
  BY DEF TypeOK
<1>3. ASSUME NEW i \in DOMAIN file, OpensAt(s, i)
      PROVE  i \in DOMAIN file' /\ file'[i] = file[i] /\ OpensAt(s, i)'
  BY <1>3, LinesStay DEF OpensAt, IsOpen
<1>4. ASSUME NEW i \in DOMAIN file, NEW j \in DOMAIN file, OpensAt(s, i), SealsAt(s, i, j)
      PROVE  j \in DOMAIN file' /\ SealsAt(s, i, j)'
  <2>1. i \in DOMAIN file' /\ file'[i] = file[i]
    BY <1>3, <1>4
  <2>2. j \in DOMAIN file' /\ file'[j] = file[j]
    BY <1>4, LinesStay DEF SealsAt
  <2>3. QED
    BY <1>4, <2>1, <2>2 DEF SealsAt
<1>5. ctx'[s].open # NoHash =>
        \E i \in DOMAIN file' : OpensAt(s, i)' /\ file'[i].hash = ctx'[s].open
  <2>1. CASE CommitOpen(s)
    <3>1. Persist(OpenEntry(s)) /\ ctx'[s].open = OpenEntry(s).hash
      BY <2>1 DEF CommitOpen, TypeOK
    <3>2. Len(file) + 1 \in DOMAIN file' /\ file'[Len(file) + 1] = OpenEntry(s)
      BY <3>1, PersistedOrSwallowed, WrittenEntries
    <3>3. OpenEntry(s).type = "session.open" /\ OpenEntry(s).session = s
      BY DEF OpenEntry, NewEntry, AppendEntry
    <3>4. QED
      BY <3>1, <3>2, <3>3 DEF OpensAt, IsOpen
  <2>2. CASE ~CommitOpen(s)
    BY <1>1, <1>3, <2>2, OpensByCommit
  <2>3. QED
    BY <2>1, <2>2
<1>6. job'[s] = "sealed" => \E i, j \in DOMAIN file' : OpensAt(s, i)' /\ SealsAt(s, i, j)'
  <2>1. CASE SealSession(s)
    <3>1. Persist(SealEntry(s)) /\ job[s] = "running"
      BY <2>1 DEF SealSession
    <3>2. ctx[s].open # NoHash
      BY <3>1 DEF LifeInv, LifeOf
    <3>3. PICK i \in DOMAIN file : OpensAt(s, i) /\ file[i].hash = ctx[s].open
      BY <1>1, <3>2
    <3>4. PICK j \in DOMAIN file' : j = Len(file) + 1 /\ file'[j] = SealEntry(s)
      BY <3>1, PersistedOrSwallowed, WrittenEntries
    <3>5. /\ SealEntry(s).type = "session.seal" /\ SealEntry(s).session = s
          /\ SealEntry(s).ref = ctx[s].open
      BY DEF SealEntry, NewEntry, AppendEntry
    <3>6. i \in DOMAIN file' /\ file'[i] = file[i] /\ OpensAt(s, i)' /\ i < j
      BY <1>2, <1>3, <3>3, <3>4
    <3>7. SealsAt(s, i, j)'
      BY <3>3, <3>4, <3>5, <3>6 DEF SealsAt
    <3>8. QED
      BY <3>4, <3>6, <3>7
  <2>2. CASE ~SealSession(s)
    BY <1>1, <1>3, <1>4, <2>2, SealsByRun
  <2>3. QED
    BY <2>1, <2>2
<1>7. QED
  BY <1>5, <1>6

\* The only member of a set is what LastOf takes.
LEMMA LastOfOne ==
  ASSUME NEW entries, NEW i \in Nat, NEW wanted, i \in wanted, \A j \in wanted : j = i
  PROVE  LastOf(entries, wanted) = entries[i]
<1>1. wanted = {i}
  OBVIOUS
<1>2. Max({i}) = i
  BY DEF Max
<1>3. QED
  BY <1>1, <1>2 DEF LastOf

LEMMA KeptIsPublic ==
  ASSUME TypeOK, KeptInv, AtMostOncePerSession, OpenBindsHead
  PROVE  SealedIsPublic
<1> SUFFICES ASSUME NEW s \in Session, job[s] = "sealed", AllParse(file)
             PROVE  /\ HasSeal(file, s)
                    /\ Known(file, s) /\ Detail(file, s).seal # NoEntry
                    /\ SessionVerifies(Detail(file, s))
  BY DEF SealedIsPublic
<1>1. ~Garbled
  BY DEF Garbled, AllParse, Parses, BadLine
<1>2. PICK i \in DOMAIN file, j \in DOMAIN file : OpensAt(s, i) /\ SealsAt(s, i, j)
  BY <1>1 DEF KeptInv
<1>3. file[i] \in Entry /\ file[j] \in Entry /\ i \in Nat /\ j \in Nat
  <2>1. \A k \in DOMAIN file : k \in Nat /\ file[k] \in Line /\ file[k].type \notin BadLine
    BY DEF TypeOK, AllParse, Parses
  <2>2. QED
    BY <2>1 DEF Line, Unreadable
<1> DEFINE opens == {k \in DOMAIN file : IsOpen(file[k]) /\ file[k].session = s}
           seals == {k \in DOMAIN file : /\ file[k].type = "session.seal"
                                         /\ file[k].session = s
                                         /\ \E m \in opens : m < k}
<1>4. i \in opens /\ \A k \in opens : k = i
  BY <1>2 DEF OpensAt, IsOpen, AtMostOncePerSession
<1>5. j \in seals /\ \A k \in seals : k = j
  BY <1>2, <1>4 DEF SealsAt, AtMostOncePerSession
<1>6. LastOf(file, opens) = file[i] /\ LastOf(file, seals) = file[j]
  <2> HIDE DEF opens, seals
  <2> QED
    BY <1>3, <1>4, <1>5, LastOfOne
<1>7. Detail(file, s).open = file[i] /\ Detail(file, s).seal = file[j]
  BY <1>6 DEF Detail
<1>8. file[i] # NoEntry /\ file[j] # NoEntry
  BY <1>3, EntryFacts
<1>9. PrecommitHolds(file[i]) /\ file[j].ref = file[i].hash
  BY <1>2 DEF OpenBindsHead, PrecommitHolds, OpensAt, IsOpen, SealsAt
<1>10. HasSeal(file, s)
  BY <1>2 DEF HasSeal, OpensAt, IsOpen, SealsAt
<1>11. QED
  BY <1>7, <1>8, <1>9, <1>10 DEF Known, SessionVerifies

\* A session whose run has sealed is public with its seal, and verifies, while the
\* ledger can be read at all: for any number of sessions, and whatever was
\* restarted, duplicated, torn or anchored by another process since.
THEOREM SealedAlwaysPublic == RecordSpec => []SealedIsPublic
<1>1. Init => KeptInv
  BY DEF Init, KeptInv, NewContext
<1>2. TypeOK /\ TypeOK' /\ LifeInv /\ KeptInv /\ [Next]_vars => KeptInv'
  BY KeptInvStep
<1>3. TypeOK /\ KeptInv /\ AtMostOncePerSession /\ OpenBindsHead => SealedIsPublic
  BY KeptIsPublic
<1>4. Spec => []KeptInv
  BY TypeCorrect, LifeInvAlways, <1>1, <1>2, PTL DEF Spec
<1>5. QED
  BY ReadersRefineSpine, TypeCorrect, OneEntryPerSession, OpenAlwaysBindsHead, <1>3, <1>4, PTL

-----------------------------------------------------------------------------
(* The contacts.                                                             *)

\* Tier: whoever meets the bound and the floor is shown the last tier.
LEMMA CandidateTier ==
  ASSUME NEW n, NEW wealth, IsCandidate(n, wealth)
  PROVE  Tier(n, wealth) = Len(Tiers)
<1> DEFINE reached == {1} \cup {i \in DOMAIN Tiers : wealth >= Tiers[i]}
<1>1. Len(Tiers) \in Nat /\ Len(Tiers) > 1 /\ DOMAIN Tiers = 1..Len(Tiers)
  BY ScoringAssumption
<1>2. Len(Tiers) \in reached
  BY <1>1 DEF IsCandidate
<1>3. \A i \in reached : i \in Int /\ i <= Len(Tiers)
  BY <1>1
<1>4. Max(reached) = Len(Tiers)
  <2> HIDE DEF reached
  <2> DEFINE top == Max(reached)
  <2>1. top \in reached /\ \A i \in reached : top >= i
    BY <1>1, <1>2, <1>3 DEF Max
  <2>2. QED
    BY <1>1, <1>2, <1>3, <2>1
<1>5. QED
  BY <1>4 DEF Tier

LEMMA CandidateScore ==
  ASSUME NEW rows, NEW op, PsiForOperator(rows, op).isCandidate
  PROVE  /\ PsiForOperator(rows, op).tier = Len(Tiers)
         /\ PsiForOperator(rows, op).scored >= MinSessions
<1>1. ASSUME NEW n, NEW sum, PsiScore(n, sum).isCandidate
      PROVE  PsiScore(n, sum).tier = Len(Tiers) /\ PsiScore(n, sum).scored >= MinSessions
  BY <1>1, CandidateTier DEF PsiScore, IsCandidate
<1>2. QED
  BY <1>1, Zenon DEF PsiForOperator, PsiScoreFromSessions

\* What was parsed once is parsed the same for ever.
LEMMA PrefixStays ==
  ASSUME TypeOK, TypeOK', [Next]_vars, NEW k \in Nat, k <= Len(file),
         AllParse(SubSeq(file, 1, k))
  PROVE  k <= Len(file') /\ SubSeq(file', 1, k) = SubSeq(file, 1, k)
<1> file \in Seq(Line) /\ file' \in Seq(Line)
  BY DEF TypeOK
<1>1. /\ Len(file) \in Nat /\ Len(file') \in Nat
      /\ DOMAIN file = 1..Len(file) /\ DOMAIN file' = 1..Len(file')
  OBVIOUS
<1>2. Len(file) <= Len(file')
  <2>1. CASE Len(file) = 0
    BY <1>1, <2>1
  <2>2. CASE Len(file) # 0
    <3>1. Len(file) \in DOMAIN file
      BY <1>1, <2>2
    <3>2. QED
      BY <1>1, <3>1, LinesStay
  <2>3. QED
    BY <2>1, <2>2
<1>3. SubSeq(file, 1, k) = [i \in 1..k |-> file[i]] /\ SubSeq(file', 1, k) = [i \in 1..k |-> file'[i]]
  BY <1>1, <1>2
<1>4. ASSUME NEW i \in 1..k
      PROVE  file'[i] = file[i]
  <2>1. i \in DOMAIN file /\ i \in DOMAIN SubSeq(file, 1, k) /\ SubSeq(file, 1, k)[i] = file[i]
    BY <1>1, <1>3
  <2>2. Parses(file[i])
    BY <2>1 DEF AllParse
  <2>3. QED
    BY <2>1, <2>2, LinesStay DEF Parses, BadLine
<1>5. QED
  BY <1>1, <1>2, <1>3, <1>4

LEMMA ContactsKept ==
  ASSUME TypeOK, TypeOK', ContactsInv, [Next]_vars, UNCHANGED contacts
  PROVE  ContactsInv'
<1>1. ASSUME NEW c \in DOMAIN contacts
      PROVE  /\ contacts[c].at <= Len(file')
             /\ SubSeq(file', 1, contacts[c].at) = SubSeq(file, 1, contacts[c].at)
  <2>1. contacts[c].at \in Nat
    <3>1. contacts \in Seq(ContactRecord)
      BY DEF ContactsInv
    <3>2. contacts[c] \in ContactRecord
      BY <3>1
    <3>3. QED
      BY <3>2 DEF ContactRecord
  <2>2. contacts[c].at <= Len(file) /\ AllParse(SubSeq(file, 1, contacts[c].at))
    BY DEF ContactsInv
  <2>3. QED
    BY <2>1, <2>2, PrefixStays
<1>2. QED
  BY <1>1 DEF ContactsInv

LEMMA ContactsEarnedStep ==
  ASSUME TypeOK, TypeOK', CacheInv, ContactsInv, NEW op \in Operator, SubmitContact(op)
  PROVE  ContactsInv'
<1>1. CanServe /\ Refresh /\ UNCHANGED vars /\ file' = file
  BY DEF SubmitContact, vars, storeVars
<1>2. CASE ~Eligible(op)
  <2>1. UNCHANGED contacts
    BY <1>2 DEF SubmitContact
  <2>2. QED
    BY <1>1, <2>1, ContactsKept
<1>3. CASE Eligible(op)
  <2>1. contacts' = Append(contacts, [operator |-> op, at |-> Len(cached')])
    BY <1>3 DEF SubmitContact
  <2>2. cached' = file
    BY <1>1 DEF Refresh, CacheInv, CacheTrue
  <2>3. AllParse(file)
    <3>1. CASE cacheKey = Stat(file)
      <4>1. file \in Seq(Entry)
        BY <3>1 DEF CacheInv, CacheTrue
      <4>2. QED
        BY <4>1, EntryFacts DEF AllParse
    <3>2. QED
      BY <1>1, <3>1 DEF CanServe
  <2>4. SubSeq(file, 1, Len(file)) = file /\ Len(file) \in Nat
    BY DEF TypeOK
  <2>5. contacts \in Seq(ContactRecord) /\ [operator |-> op, at |-> Len(file)] \in ContactRecord
    BY <2>4 DEF ContactsInv, ContactRecord
  <2>6. contacts' \in Seq(ContactRecord)
    BY <2>1, <2>2, <2>5
  <2>7. PsiForOperator(Rows(file), op).isCandidate
    BY <1>3, <2>2 DEF Eligible
  <2>8. ASSUME NEW c \in DOMAIN contacts'
        PROVE  /\ contacts'[c].at <= Len(file)
               /\ AllParse(SubSeq(file, 1, contacts'[c].at))
               /\ PsiForOperator(Rows(SubSeq(file, 1, contacts'[c].at)),
                                 contacts'[c].operator).isCandidate
    <3>1. CASE c \in DOMAIN contacts
      <4>1. contacts'[c] = contacts[c]
        BY <2>1, <2>5, <3>1
      <4>2. QED
        BY <3>1, <4>1 DEF ContactsInv
    <3>2. CASE c \notin DOMAIN contacts
      <4>1. contacts'[c] = [operator |-> op, at |-> Len(file)]
        BY <2>1, <2>2, <2>5, <3>2
      <4>2. contacts'[c].at = Len(file) /\ contacts'[c].operator = op
        BY <4>1
      <4>3. SubSeq(file, 1, contacts'[c].at) = file /\ Len(file) <= Len(file)
        BY <2>4, <4>2
      <4>4. QED
        BY <2>3, <2>7, <4>2, <4>3, Zenon
    <3>3. QED
      BY <3>1, <3>2
  <2>9. QED
    BY <1>1, <2>6, <2>8 DEF ContactsInv
<1>4. QED
  BY <1>2, <1>3

LEMMA ContactsInvAlways == RecordSpec => []ContactsInv
<1>1. RecordInit => ContactsInv
  BY DEF RecordInit, ContactsInv
<1>2. TypeOK /\ TypeOK' /\ CacheInv /\ ContactsInv /\ [Next]_vars /\ [RecordNext]_allVars
        => ContactsInv'
  <2> SUFFICES ASSUME TypeOK, TypeOK', CacheInv, ContactsInv, [Next]_vars, [RecordNext]_allVars
               PROVE  ContactsInv'
    OBVIOUS
  <2>1. CASE UNCHANGED contacts
    BY <2>1, ContactsKept
  <2>2. ASSUME NEW op \in Operator, SubmitContact(op)
        PROVE  ContactsInv'
    BY <2>2, ContactsEarnedStep
  <2>3. QED
    BY <2>1, <2>2
       DEF RecordNext, SpineStep, ServeGet, GetThrows, ContactThrows, allVars, recordVars
<1>3. Spec => [][Next]_vars
  BY PTL DEF Spec
<1>4. QED
  BY ReadersRefineSpine, TypeCorrect, CacheInvAlways, <1>1, <1>2, <1>3, PTL DEF RecordSpec

\* D15, for any number of sessions, players and faults: a contact that was saved
\* was earned on the ledger as it was then, and anybody can recompute that from
\* the first lines of the file as it is now.
THEOREM ContactsAlwaysEarned == RecordSpec => []ContactsEarned
<1>1. ContactsInv => ContactsEarned
  BY CandidateScore DEF ContactsInv, ContactsEarned
<1>2. QED
  BY <1>1, ContactsInvAlways, PTL

-----------------------------------------------------------------------------
(* The rows: every open names a session, and each is joined and typed.       *)

LEMMA NamedStays ==
  ASSUME TypeOK, TypeOK', NamedInv, [Next]_vars
  PROVE  NamedInv'
<1> file \in Seq(Line)
  BY DEF TypeOK
<1>1. ASSUME NEW l, Named(l), file' = Append(file, l)
      PROVE  NamedInv'
  BY <1>1 DEF NamedInv
<1>2. Named(Unreadable("torn")) /\ Named(Unreadable("garbled"))
  BY DEF Named, IsOpen, Unreadable
<1>3. ASSUME NEW l, Named(l), file' = [file EXCEPT ![Len(file)] = l]
      PROVE  NamedInv'
  BY <1>3 DEF NamedInv
<1>4. CASE file' = file
  BY <1>4 DEF NamedInv
<1> QED
  BY <1>1, <1>2, <1>3, <1>4, FileStep DEF WriteLine, BrokenWrites

LEMMA MaxIs ==
  ASSUME NEW S, \E m \in S : \A y \in S : m >= y
  PROVE  Max(S) \in S /\ \A y \in S : Max(S) >= y
BY DEF Max

LEMMA MinIs ==
  ASSUME NEW S \in SUBSET Nat, S # {}
  PROVE  Min(S) \in S
<1>1. \E m \in S : \A y \in S : m =< y
  BY LeastOf
<1> QED
  BY <1>1 DEF Min

LEMMA Greatest ==
  ASSUME NEW S \in SUBSET Nat, S # {}, NEW b \in Nat, \A x \in S : x <= b
  PROVE  \E m \in S : \A y \in S : m >= y
<1> DEFINE T == {b - x : x \in S}
<1>1. T \in SUBSET Nat /\ T # {}
  <2>1. \A x \in S : b - x \in Nat
    OBVIOUS
  <2> QED
    BY <2>1
<1>2. PICK n \in T : \A k \in T : n <= k
  BY <1>1, LeastOf
<1>3. PICK m \in S : n = b - m
  OBVIOUS
<1>4. \A y \in S : b - y \in T
  OBVIOUS
<1> HIDE DEF T
<1> QED
  BY <1>2, <1>3, <1>4

LEMMA SqrtIs ==
  ASSUME NEW x \in Nat \ {0}
  PROVE  Sqrt(x) \in Nat \ {0}
<1> DEFINE S == {r \in 0..x : r * r <= x}
<1>1. S \in SUBSET Nat /\ 1 \in S /\ \A r \in S : r <= x
  OBVIOUS
<1>2. Max(S) \in S /\ Max(S) >= 1
  <2> HIDE DEF S
  <2> QED
    BY <1>1, Greatest, MaxIs
<1>3. Max(S) \in Nat
  BY <1>1, <1>2
<1> QED
  BY <1>2, <1>3 DEF Sqrt

LEMMA HitRateIsInt ==
  ASSUME NEW hits \in Nat, NEW n \in Nat \ {0}, NEW options \in Nat \ {0, 1}
  PROVE  HitRateZ(hits, n, options) \in Int
<1>1. n * (options - 1) \in Nat \ {0}
  <2> DEFINE m == options - 1
  <2>1. m \in Nat \ {0}
    OBVIOUS
  <2> HIDE DEF m
  <2>2. n * m \in Nat /\ n * m # 0
    BY <2>1, SMT
  <2> QED
    BY <2>2 DEF m
<1>2. PICK root \in Nat \ {0} : root = Sqrt(n * (options - 1))
  BY <1>1, SqrtIs
<1>3. 10 * (options * hits - n) \in Int
  OBVIOUS
<1> QED
  BY <1>2, <1>3 DEF HitRateZ

LEMMA DisplayIsInt ==
  ASSUME NEW s \in Session
  PROVE  /\ DisplayZ(OutcomeOf[s]) \in Int
         /\ IsMicroPkSeal(OutcomeOf[s]) => OutcomeOf[s].nSamples \in Nat
<1> DEFINE seal == OutcomeOf[s]
<1>1. seal \in Outcome
  BY ReaderAssumption
<1> HIDE DEF seal
<1>2. CASE seal \in [ones : Nat, nSamples : Nat]
  <2>1. /\ IsMicroPkSeal(seal) /\ ~IsPrecogSeal(seal)
        /\ seal.ones \in Nat /\ seal.nSamples \in Nat
    BY <1>2 DEF IsMicroPkSeal, IsPrecogSeal
  <2>2. seal.nSamples > 0 => HitRateZ(seal.ones, seal.nSamples, 2) \in Int
    BY <2>1, HitRateIsInt
  <2>3. DisplayZ(seal) = IF seal.nSamples > 0 THEN HitRateZ(seal.ones, seal.nSamples, 2) ELSE 0
    BY <2>1 DEF DisplayZ
  <2> QED
    BY <2>1, <2>2, <2>3 DEF seal
<1>3. CASE seal \in [hits : Nat, trials : Nat, optionsPerTrial : Nat \ {0, 1}]
  <2>1. /\ ~IsMicroPkSeal(seal) /\ IsPrecogSeal(seal)
        /\ seal.hits \in Nat /\ seal.trials \in Nat /\ seal.optionsPerTrial \in Nat \ {0, 1}
    BY <1>3 DEF IsMicroPkSeal, IsPrecogSeal
  <2>2. seal.trials > 0 => HitRateZ(seal.hits, seal.trials, seal.optionsPerTrial) \in Int
    BY <2>1, HitRateIsInt
  <2>3. DisplayZ(seal) = IF seal.trials > 0
                         THEN HitRateZ(seal.hits, seal.trials, seal.optionsPerTrial) ELSE 0
    BY <2>1 DEF DisplayZ
  <2> QED
    BY <2>1, <2>2, <2>3 DEF seal
<1> QED
  BY <1>1, <1>2, <1>3 DEF Outcome

\* What the routes are given.
IsTable(rows) ==
  /\ IsFiniteSet(DOMAIN rows) /\ DOMAIN rows \in SUBSET Nat
  /\ \E n \in Nat : \A i \in DOMAIN rows : i <= n
  /\ \A i \in DOMAIN rows :
       /\ rows[i] \in SessionSummary
       /\ ~rows[i].sealed => rows[i].z = 0 /\ rows[i].bits = 0

LEMMA RowsAreTable ==
  ASSUME NEW entries \in Seq(Line), \A i \in DOMAIN entries : Named(entries[i])
  PROVE  IsTable(Rows(entries))
<1> DEFINE opens == {j \in DOMAIN entries : IsOpen(entries[j])}
<1>1. /\ IsFiniteSet(opens) /\ opens \in SUBSET Nat
      /\ \E n \in Nat : \A i \in opens : i <= n
  <2>1. Len(entries) \in Nat /\ DOMAIN entries = 1..Len(entries)
    OBVIOUS
  <2>2. IsFiniteSet(1..Len(entries))
    BY <2>1, FS_Interval
  <2> QED
    BY <2>1, <2>2, FS_Subset
<1>2. ASSUME NEW s \in Session, NEW sealed \in BOOLEAN
      PROVE  /\ ToSummary(s, sealed) \in SessionSummary
             /\ ~ToSummary(s, sealed).sealed =>
                  ToSummary(s, sealed).z = 0 /\ ToSummary(s, sealed).bits = 0
  BY DisplayIsInt, ReaderAssumption DEF ToSummary, SessionSummary
<1>3. \A i \in opens : entries[i].session \in Session
  BY DEF Named
<1>4. \A s : HasSeal(entries, s) \in BOOLEAN
  BY DEF HasSeal
<1>5. /\ DOMAIN Rows(entries) = opens
      /\ \A i \in opens : Rows(entries)[i] =
           ToSummary(entries[i].session, HasSeal(entries, entries[i].session))
  BY DEF Rows
<1> HIDE DEF opens
<1>6. ASSUME NEW i \in opens
      PROVE  /\ Rows(entries)[i] \in SessionSummary
             /\ ~Rows(entries)[i].sealed => Rows(entries)[i].z = 0 /\ Rows(entries)[i].bits = 0
  <2>1. PICK s \in Session, sealed \in BOOLEAN : Rows(entries)[i] = ToSummary(s, sealed)
    BY <1>3, <1>4, <1>5
  <2> QED
    BY <1>2, <2>1
<1> QED
  BY <1>1, <1>5, <1>6 DEF IsTable

LEMMA NamedAlways == RecordSpec => []NamedInv
<1>1. Init => NamedInv
  BY DEF Init, NamedInv
<1>2. TypeOK /\ TypeOK' /\ NamedInv /\ [Next]_vars => NamedInv'
  BY NamedStays
<1>3. Spec => []NamedInv
  BY TypeCorrect, <1>1, <1>2, PTL DEF Spec
<1> QED
  BY ReadersRefineSpine, <1>3

\* What is cached are the first lines of the file.
LEMMA CacheIsTable ==
  ASSUME TypeOK, CacheInv, NamedInv
  PROVE  IsTable(Rows(cached)) /\ cached \in Seq(Line)
<1>1. cached \in Seq(Line)
  <2>1. cached \in Seq(Entry) /\ Entry \subseteq Line
    BY DEF CacheInv, Line
  <2> QED
    BY <2>1
<1>2. \A i \in DOMAIN cached : Named(cached[i])
  <2>1. /\ \A i \in DOMAIN cached : cached[i] = file[i]
        /\ Len(cached) \in Nat /\ DOMAIN cached = 1..Len(cached)
    BY <1>1 DEF CacheInv, CacheTrue
  <2>2. Len(file) \in Nat /\ DOMAIN file = 1..Len(file) /\ Len(cached) <= Len(file)
    BY DEF TypeOK, CacheInv, CacheTrue
  <2> QED
    BY <2>1, <2>2 DEF NamedInv
<1> QED
  BY <1>1, <1>2, RowsAreTable

\* The routes are given rows of the right types whatever lines were written, lost
\* or torn: every open names a session, and the z of its seal can be computed.
THEOREM RecordTypes == RecordSpec => []RecordTypeOK
<1>1. TypeOK /\ CacheInv /\ NamedInv /\ ContactsInv => RecordTypeOK
  <2> SUFFICES ASSUME TypeOK, CacheInv, NamedInv, ContactsInv
               PROVE  RecordTypeOK
    OBVIOUS
  <2>1. \A i \in DOMAIN Rows(cached) : Rows(cached)[i] \in SessionSummary
    BY CacheIsTable DEF IsTable
  <2> QED
    BY <2>1 DEF CacheInv, ContactsInv, RecordTypeOK
<1> QED
  BY <1>1, TypeCorrect, ReadersRefineSpine, CacheInvAlways, NamedAlways, ContactsInvAlways, PTL

-----------------------------------------------------------------------------
(* The scores.                                                               *)

LEMMA TotalIs ==
  ASSUME NEW f
  PROVE  Total(f) = Sigma(f, DOMAIN f)
BY DEF Total, Sigma, FoldFunction

LEMMA WealthIsInt ==
  ASSUME NEW n \in Nat, NEW sum \in Int
  PROVE  LogWealth(n, sum) \in Int
<1> DEFINE w(d) == 2 * d * sum - n * d * d
           S == {w(d) : d \in Grid}
<1>1. w(1) \in Int /\ w(2) \in Int /\ w(4) \in Int /\ w(8) \in Int
  OBVIOUS
<1>2. S = {w(1), w(2), w(4), w(8)}
  BY DEF Grid
<1> HIDE DEF w
<1>3. \E m \in S : \A y \in S : m >= y
  BY <1>1, <1>2
<1>4. Max(S) \in S
  <2> HIDE DEF S
  <2> QED
    BY <1>3, MaxIs
<1>5. Max(S) \in Int
  BY <1>1, <1>2, <1>4
<1> QED
  BY <1>5 DEF LogWealth, w

LEMMA ScoreIs ==
  ASSUME NEW rows, IsTable(rows), NEW op
  PROVE  LET psi == PsiForOperator(rows, op)
             mine == {i \in DOMAIN rows : rows[i].operator = op /\ Scores(rows[i])}
         IN /\ IsFiniteSet(mine)
            /\ psi.scored = Cardinality(mine) /\ psi.scored \in Nat
            /\ psi.wealth \in Int
            /\ psi.isCandidate => psi.scored >= MinSessions
<1> DEFINE pairs == RowsOf(rows, op)
           scored == {i \in DOMAIN pairs : Scores(pairs[i])}
           mine == {i \in DOMAIN rows : rows[i].operator = op /\ Scores(rows[i])}
           f == [i \in scored |-> DirectionalZ(pairs[i])]
<1>1. /\ DOMAIN pairs = {i \in DOMAIN rows : rows[i].operator = op}
      /\ \A i \in DOMAIN pairs : pairs[i] = rows[i]
  BY DEF RowsOf, Restrict
<1>2. scored = mine /\ IsFiniteSet(mine) /\ DOMAIN f = scored
  <2>1. IsFiniteSet(DOMAIN rows) /\ mine \subseteq DOMAIN rows
    BY DEF IsTable
  <2> QED
    BY <1>1, <2>1, FS_Subset
<1>3. \A i \in scored : f[i] \in Int
  <2>1. \A i \in scored : pairs[i].z \in Int
    BY <1>1 DEF IsTable, SessionSummary
  <2> QED
    BY <2>1 DEF DirectionalZ
<1>4. PsiForOperator(rows, op) = PsiScore(Cardinality(scored), Total(f))
  BY Zenon DEF PsiForOperator, PsiScoreFromSessions
<1> HIDE DEF f, scored, mine, pairs
<1>5. Total(f) \in Int
  <2>1. scored \in SUBSET scored
    OBVIOUS
  <2> QED
    BY <1>2, <1>3, <2>1, TotalIs, SigmaInt
<1>6. Cardinality(scored) \in Nat /\ Cardinality(scored) = Cardinality(mine)
  BY <1>2, FS_CardinalityType
<1>7. ASSUME NEW n \in Nat, NEW sum \in Int
      PROVE  /\ PsiScore(n, sum).scored = n /\ PsiScore(n, sum).wealth \in Int
             /\ PsiScore(n, sum).isCandidate => n >= MinSessions
  BY <1>7, WealthIsInt DEF PsiScore, IsCandidate
<1>8. LET psi == PsiForOperator(rows, op)
      IN /\ psi.scored = Cardinality(mine) /\ psi.scored \in Nat /\ psi.wealth \in Int
         /\ psi.isCandidate => psi.scored >= MinSessions
  BY <1>4, <1>5, <1>6, <1>7
<1> QED
  BY <1>2, <1>8 DEF mine

LEMMA BoardIs ==
  ASSUME NEW rows
  PROVE  /\ DOMAIN Board(rows) = Operators(rows)
         /\ \A op \in Operators(rows) :
              /\ Board(rows)[op].psi = PsiForOperator(rows, op)
              /\ Board(rows)[op].total = Cardinality(DOMAIN RowsOf(rows, op))
BY DEF Board

-----------------------------------------------------------------------------
(* The rank.                                                                 *)

LEMMA FirstRowIs ==
  ASSUME NEW rows, IsTable(rows), NEW op \in Operators(rows)
  PROVE  FirstRow(rows, op) \in Nat /\ rows[FirstRow(rows, op)].operator = op
<1> DEFINE mine == {i \in DOMAIN rows : rows[i].operator = op}
<1>1. mine \in SUBSET Nat /\ mine # {}
  BY DEF IsTable, Operators
<1>2. Min(mine) \in mine
  <2> HIDE DEF mine
  <2> QED
    BY <1>1, MinIs
<1> QED
  BY <1>1, <1>2 DEF FirstRow

LEMMA OperatorsFinite ==
  ASSUME NEW rows, IsTable(rows)
  PROVE  IsFiniteSet(Operators(rows))
<1> DEFINE f == [i \in DOMAIN rows |-> rows[i].operator]
<1>1. \A op \in Operators(rows) : \E i \in DOMAIN rows : f[i] = op
  BY DEF Operators
<1>2. IsFiniteSet(DOMAIN rows)
  BY DEF IsTable
<1> HIDE DEF f
<1> QED
  BY <1>1, <1>2, FiniteImage

\* Of two on the board one is ahead of the other, and of all that this one is.
LEMMA AheadIsOrder ==
  ASSUME NEW rows, IsTable(rows), NEW a \in Operators(rows), NEW b \in Operators(rows)
  PROVE  /\ ~Ahead(rows, Board(rows), a, a)
         /\ a # b => Ahead(rows, Board(rows), a, b) \/ Ahead(rows, Board(rows), b, a)
         /\ Ahead(rows, Board(rows), a, b) =>
              \A c \in Operators(rows) :
                Ahead(rows, Board(rows), c, a) => Ahead(rows, Board(rows), c, b)
<1>1. ASSUME NEW op \in Operators(rows)
      PROVE  /\ Board(rows)[op].psi.wealth \in Int /\ Board(rows)[op].psi.scored \in Nat
             /\ FirstRow(rows, op) \in Nat /\ rows[FirstRow(rows, op)].operator = op
  <2>1. Board(rows)[op].psi = PsiForOperator(rows, op)
    BY BoardIs
  <2>2. PsiForOperator(rows, op).wealth \in Int /\ PsiForOperator(rows, op).scored \in Nat
    BY ScoreIs
  <2> QED
    BY <2>1, <2>2, FirstRowIs
<1>2. FirstRow(rows, a) = FirstRow(rows, b) => a = b
  BY <1>1
<1> QED
  BY <1>1, <1>2 DEF Ahead

LEMMA RanksArePlaces ==
  ASSUME NEW rows, IsTable(rows), NEW op \in Ranked(Board(rows))
  PROVE  /\ Rank(rows, Board(rows), op) \in 1..Cardinality(Ranked(Board(rows)))
         /\ \A other \in Ranked(Board(rows)) :
              Rank(rows, Board(rows), other) = Rank(rows, Board(rows), op) => other = op
<1> DEFINE board == Board(rows)
           ranked == Ranked(board)
           Before(a) == {other \in ranked : Ahead(rows, board, other, a)}
<1>1. IsFiniteSet(ranked) /\ ranked \subseteq Operators(rows)
  <2>1. ranked \subseteq Operators(rows)
    BY BoardIs DEF Ranked
  <2> QED
    BY <2>1, OperatorsFinite, FS_Subset
<1>2. /\ \A a \in ranked : ~Ahead(rows, board, a, a)
      /\ \A a, b \in ranked : a # b => Ahead(rows, board, a, b) \/ Ahead(rows, board, b, a)
      /\ \A a, b, c \in ranked :
           Ahead(rows, board, a, b) /\ Ahead(rows, board, c, a) => Ahead(rows, board, c, b)
  BY <1>1, AheadIsOrder
<1>3. \A a \in ranked : Rank(rows, board, a) = 1 + Cardinality(Before(a))
  BY DEF Rank
<1> HIDE DEF board, ranked
<1>4. ASSUME NEW a \in ranked
      PROVE  /\ a \notin Before(a) /\ Before(a) \subseteq ranked
             /\ IsFiniteSet(Before(a)) /\ Cardinality(Before(a)) \in Nat
  BY <1>1, <1>2, FS_Subset, FS_CardinalityType
<1>5. ASSUME NEW a \in ranked, NEW b \in ranked, Ahead(rows, board, a, b)
      PROVE  Cardinality(Before(a)) < Cardinality(Before(b))
  <2>1. Before(a) \subseteq Before(b) /\ a \in Before(b) /\ a \notin Before(a)
    BY <1>2, <1>5
  <2>2. IsFiniteSet(Before(b)) /\ Cardinality(Before(b)) \in Nat /\ Cardinality(Before(a)) \in Nat
    BY <1>4
  <2> HIDE DEF Before
  <2>3. /\ Cardinality(Before(a)) <= Cardinality(Before(b))
        /\ Cardinality(Before(a)) # Cardinality(Before(b))
    BY <2>1, <2>2, FS_Subset
  <2> QED
    BY <2>2, <2>3
<1>6. ASSUME NEW a \in ranked
      PROVE  Cardinality(Before(a)) < Cardinality(ranked)
  <2>1. Before(a) \subseteq ranked /\ a \notin Before(a) /\ Cardinality(Before(a)) \in Nat
    BY <1>4
  <2>2. Cardinality(ranked) \in Nat
    BY <1>1, FS_CardinalityType
  <2> HIDE DEF Before
  <2>3. Cardinality(Before(a)) <= Cardinality(ranked) /\ Cardinality(Before(a)) # Cardinality(ranked)
    BY <1>1, <1>6, <2>1, FS_Subset
  <2> QED
    BY <2>1, <2>2, <2>3
<1> HIDE DEF Before
<1>7. op \in ranked /\ Cardinality(ranked) \in Nat
  BY <1>1, FS_CardinalityType DEF ranked, board
<1>8. Rank(rows, board, op) \in 1..Cardinality(ranked)
  BY <1>3, <1>4, <1>6, <1>7
<1>9. ASSUME NEW other \in ranked, Rank(rows, board, other) = Rank(rows, board, op)
      PROVE  other = op
  <2>1. Cardinality(Before(other)) = Cardinality(Before(op))
    BY <1>3, <1>4, <1>7, <1>9
  <2> QED
    BY <1>2, <1>4, <1>5, <1>7, <2>1
<1> QED
  BY <1>8, <1>9 DEF ranked, board

\* Who has scored in the first lines has scored.
LEMMA ScoredStays ==
  ASSUME NEW entries \in Seq(Line), \A i \in DOMAIN entries : Named(entries[i]),
         NEW n \in 0..Len(entries), NEW op,
         PsiForOperator(Rows(SubSeq(entries, 1, n)), op).scored > 0
  PROVE  op \in Ranked(Board(Rows(entries)))
<1> DEFINE then == SubSeq(entries, 1, n)
           mine(rows) == {i \in DOMAIN rows : rows[i].operator = op /\ Scores(rows[i])}
<1>1. /\ then \in Seq(Line) /\ DOMAIN then = 1..n
      /\ \A i \in DOMAIN then : i \in DOMAIN entries /\ then[i] = entries[i]
  OBVIOUS
<1> HIDE DEF then
<1>2. IsTable(Rows(then)) /\ IsTable(Rows(entries))
  BY <1>1, RowsAreTable
<1>3. PICK i \in mine(Rows(then)) : TRUE
  <2>1. /\ IsFiniteSet(mine(Rows(then)))
        /\ Cardinality(mine(Rows(then))) > 0
    BY <1>2, ScoreIs DEF then
  <2> QED
    BY <2>1, FS_EmptySet
<1>4. /\ i \in DOMAIN then /\ IsOpen(then[i])
      /\ Rows(then)[i] = ToSummary(then[i].session, HasSeal(then, then[i].session))
  BY <1>3 DEF Rows
<1>5. /\ i \in DOMAIN Rows(entries)
      /\ Rows(entries)[i] = ToSummary(then[i].session, HasSeal(entries, then[i].session))
  BY <1>1, <1>4 DEF Rows
<1>6. HasSeal(then, then[i].session) => HasSeal(entries, then[i].session)
  BY <1>1 DEF HasSeal
<1>7. Scores(Rows(then)[i]) /\ Rows(then)[i].operator = op
  BY <1>3
<1>8. i \in mine(Rows(entries))
  <2>1. ASSUME NEW s, NEW a \in BOOLEAN, NEW b \in BOOLEAN, a => b, Scores(ToSummary(s, a))
        PROVE  /\ Scores(ToSummary(s, b))
               /\ ToSummary(s, b).operator = ToSummary(s, a).operator
    BY <2>1 DEF ToSummary, Scores
  <2>2. HasSeal(then, then[i].session) \in BOOLEAN /\ HasSeal(entries, then[i].session) \in BOOLEAN
    BY DEF HasSeal
  <2> QED
    BY <1>4, <1>5, <1>6, <1>7, <2>1, <2>2
<1>9. op \in Operators(Rows(entries))
  BY <1>8 DEF Operators
<1>10. PsiForOperator(Rows(entries), op).scored > 0
  <2>1. /\ IsFiniteSet(mine(Rows(entries)))
        /\ PsiForOperator(Rows(entries), op).scored = Cardinality(mine(Rows(entries)))
    BY <1>2, ScoreIs
  <2> HIDE DEF mine
  <2>2. Cardinality(mine(Rows(entries))) \in Nat /\ Cardinality(mine(Rows(entries))) # 0
    BY <1>8, <2>1, FS_EmptySet, FS_CardinalityType
  <2> QED
    BY <2>1, <2>2
<1> QED
  BY <1>9, <1>10, BoardIs DEF Ranked

\* profile.ts, for any ledger: a player who had scored in the lines that the list
\* of sessions was read from has a place on a board that is read later, and has it
\* alone, as the order of the board is strict.
THEOREM RanksAreSound == RecordSpec => []RankIsAPlace
<1>1. TypeOK /\ NamedInv => RankIsAPlace
  <2> SUFFICES ASSUME TypeOK, NamedInv, NEW op \in Operator, NEW list \in 0..Len(file),
                      PsiForOperator(Served(list), op).scored > 0
               PROVE  LET rows == Rows(file)
                          board == Board(rows)
                      IN /\ Rank(rows, board, op) \in 1..Cardinality(Ranked(board))
                         /\ \A other \in Ranked(board) :
                              Rank(rows, board, other) = Rank(rows, board, op) => other = op
    BY DEF RankIsAPlace
  <2>1. file \in Seq(Line) /\ \A i \in DOMAIN file : Named(file[i])
    BY DEF TypeOK, NamedInv
  <2>2. IsTable(Rows(file)) /\ op \in Ranked(Board(Rows(file)))
    BY <2>1, RowsAreTable, ScoredStays DEF Served
  <2> QED
    BY <2>2, RanksArePlaces
<1> QED
  BY <1>1, TypeCorrect, ReadersRefineSpine, NamedAlways, PTL

-----------------------------------------------------------------------------
(* The sums.                                                                 *)

LEMMA CountedByParts ==
  ASSUME NEW S, IsFiniteSet(S), NEW B, IsFiniteSet(B), NEW part, \A x \in S : part[x] \in B,
         NEW h, DOMAIN h = B, \A b \in B : h[b] = Cardinality(Part(S, part, b))
  PROVE  Total(h) = Cardinality(S)
<1> DEFINE g == [b \in B |-> Cardinality(Part(S, part, b))]
<1>1. \A b \in B : g[b] \in Int /\ g[b] = h[b]
  <2>1. \A b \in B : IsFiniteSet(Part(S, part, b))
    BY FS_Subset DEF Part
  <2> QED
    BY <2>1, FS_CardinalityType
<1>2. Sigma(g, B) = Cardinality(S)
  BY SizeOfParts
<1> HIDE DEF g
<1>3. Sigma(g, B) = Sigma(h, B)
  BY <1>1, SigmaSame
<1> QED
  BY <1>2, <1>3, TotalIs

LEMMA SummedByParts ==
  ASSUME NEW S, IsFiniteSet(S), NEW f, \A x \in S : f[x] \in Int,
         NEW B, IsFiniteSet(B), NEW part, \A x \in S : part[x] \in B,
         NEW h, DOMAIN h = B, \A b \in B : h[b] = Sigma(f, Part(S, part, b))
  PROVE  Total(h) = Sigma(f, S)
<1> DEFINE g == [b \in B |-> Sigma(f, Part(S, part, b))]
<1>1. \A b \in B : g[b] \in Int /\ g[b] = h[b]
  <2>1. \A b \in B : Part(S, part, b) \in SUBSET S
    BY DEF Part
  <2> QED
    BY <2>1, SigmaInt
<1>2. Sigma(g, B) = Sigma(f, S)
  BY SigmaOfParts
<1> HIDE DEF g
<1>3. Sigma(g, B) = Sigma(h, B)
  BY <1>1, SigmaSame
<1> QED
  BY <1>2, <1>3, TotalIs

\* What the parts are told apart by.
OperatorAt(rows) == [i \in DOMAIN rows |-> rows[i].operator]
ChoiceAt(rows) == [i \in DOMAIN rows |-> rows[i].choice]
ExperimentAt(rows) == [i \in DOMAIN rows |-> ExperimentOf[rows[i].session]]

LEMMA SealedAre ==
  ASSUME NEW rows, IsTable(rows)
  PROVE  /\ SealedRows(rows) \in SUBSET DOMAIN rows
         /\ IsFiniteSet(SealedRows(rows))
         /\ \A i \in DOMAIN rows \ SealedRows(rows) : rows[i].z = 0 /\ rows[i].bits = 0
         /\ \A i \in DOMAIN rows : rows[i].z \in Int /\ rows[i].bits \in Int
<1>1. SealedRows(rows) \in SUBSET DOMAIN rows
  BY DEF SealedRows
<1> QED
  BY <1>1, FS_Subset DEF IsTable, SealedRows, SessionSummary

\* Every row has an operator of the board, a choice and an experiment.
LEMMA PartsAre ==
  ASSUME NEW rows, IsTable(rows)
  PROVE  LET shelf == {ExperimentOf[s] : s \in Session}
         IN /\ IsFiniteSet(Operators(rows)) /\ IsFiniteSet(Choice) /\ IsFiniteSet(shelf)
            /\ \A i \in DOMAIN rows : /\ OperatorAt(rows)[i] \in Operators(rows)
                                      /\ ChoiceAt(rows)[i] \in Choice
                                      /\ ExperimentAt(rows)[i] \in shelf
<1>1. IsFiniteSet(Choice)
  <2>1. Choice = ((({} \cup {"HIGH"}) \cup {"LOW"}) \cup {"BASELINE"}) \cup {""}
    BY DEF Choice
  <2> QED
    BY <2>1, FS_EmptySet, FS_AddElement
<1> QED
  BY <1>1, OperatorsFinite, ReaderAssumption
     DEF IsTable, SessionSummary, Operators, OperatorAt, ChoiceAt, ExperimentAt

LEMMA OperatorsAddUp ==
  ASSUME NEW rows, IsTable(rows)
  PROVE  LET board == Board(rows)
         IN Cardinality(DOMAIN rows) = Total([op \in DOMAIN board |-> board[op].total])
<1> DEFINE h == [op \in DOMAIN Board(rows) |-> Board(rows)[op].total]
<1>1. DOMAIN h = Operators(rows)
  BY BoardIs
<1>2. ASSUME NEW op \in Operators(rows)
      PROVE  h[op] = Cardinality(Part(DOMAIN rows, OperatorAt(rows), op))
  <2>1. DOMAIN RowsOf(rows, op) = Part(DOMAIN rows, OperatorAt(rows), op)
    BY DEF RowsOf, Restrict, Part, OperatorAt
  <2> QED
    BY <2>1, BoardIs
<1> HIDE DEF h
<1>3. /\ IsFiniteSet(DOMAIN rows) /\ IsFiniteSet(Operators(rows))
      /\ \A i \in DOMAIN rows : OperatorAt(rows)[i] \in Operators(rows)
  BY PartsAre DEF IsTable
<1>4. Total(h) = Cardinality(DOMAIN rows)
  BY <1>1, <1>2, <1>3, CountedByParts
<1> QED
  BY <1>4 DEF h

LEMMA ExperimentsAddUp ==
  ASSUME NEW rows, IsTable(rows)
  PROVE  LET shelf == Experiments(rows)
         IN /\ Cardinality(DOMAIN rows) = Total([x \in DOMAIN shelf |-> shelf[x].total])
            /\ Cardinality(SealedRows(rows)) = Total([x \in DOMAIN shelf |-> shelf[x].sealed])
            /\ \A c \in Choice :
                 Cardinality({i \in SealedRows(rows) : rows[i].choice = c})
                   = Total([x \in DOMAIN shelf |-> shelf[x].byChoice[c]])
<1> DEFINE names == {ExperimentOf[s] : s \in Session}
           shelf == Experiments(rows)
           part == ExperimentAt(rows)
           sealed == SealedRows(rows)
           at(x) == {i \in DOMAIN rows : ExperimentOf[rows[i].session] = x}
           mine(x) == Restrict(rows, at(x))
           chosen(c) == {i \in sealed : rows[i].choice = c}
<1>1. /\ IsFiniteSet(names) /\ \A i \in DOMAIN rows : part[i] \in names
      /\ IsFiniteSet(DOMAIN rows) /\ IsFiniteSet(sealed) /\ sealed \subseteq DOMAIN rows
      /\ \A c \in Choice : IsFiniteSet(chosen(c)) /\ chosen(c) \subseteq sealed
  <2>1. \A c : chosen(c) \in SUBSET sealed
    OBVIOUS
  <2> QED
    BY <2>1, PartsAre, SealedAre, FS_Subset DEF IsTable
<1>2. DOMAIN shelf = names /\ \A x \in names : shelf[x] = ExperimentStat(rows, x)
  BY DEF Experiments
<1>3. ASSUME NEW x \in names
      PROVE  /\ shelf[x].total = Cardinality(DOMAIN mine(x))
             /\ shelf[x].sealed = Cardinality(SealedRows(mine(x)))
             /\ \A c \in Choice : shelf[x].byChoice[c]
                  = Cardinality({i \in SealedRows(mine(x)) : mine(x)[i].choice = c})
  <2>1. shelf[x] = ExperimentStat(rows, x)
    BY <1>2
  <2> HIDE DEF shelf
  <2>2. PICK it : it = mine(x)
    OBVIOUS
  <2>3. ExperimentStat(rows, x) =
          [total |-> Cardinality(DOMAIN it), sealed |-> Cardinality(SealedRows(it)),
           byChoice |-> [c \in Choice |-> Cardinality({i \in SealedRows(it) : it[i].choice = c})]]
    BY <2>2, Zenon DEF ExperimentStat
  <2> HIDE DEF mine
  <2> QED
    BY <2>1, <2>2, <2>3
<1>4. ASSUME NEW x
      PROVE  /\ DOMAIN mine(x) = Part(DOMAIN rows, part, x)
             /\ SealedRows(mine(x)) = Part(sealed, part, x)
             /\ \A c : {i \in SealedRows(mine(x)) : mine(x)[i].choice = c} = Part(chosen(c), part, x)
  <2>1. DOMAIN mine(x) = at(x) /\ \A i \in at(x) : mine(x)[i] = rows[i]
    BY DEF Restrict
  <2>2. DOMAIN mine(x) = Part(DOMAIN rows, part, x)
    BY <2>1 DEF Part, ExperimentAt
  <2> HIDE DEF mine
  <2>3. SealedRows(mine(x)) = Part(sealed, part, x)
    BY <2>1 DEF SealedRows, Part, ExperimentAt
  <2>4. \A i \in SealedRows(mine(x)) : mine(x)[i] = rows[i]
    BY <2>1 DEF SealedRows
  <2>5. \A c : {i \in SealedRows(mine(x)) : mine(x)[i].choice = c} = Part(chosen(c), part, x)
    BY <2>3, <2>4 DEF Part
  <2> QED
    BY <2>2, <2>3, <2>5
<1> HIDE DEF names, shelf, part, sealed, at, mine
<1>5. Total([x \in DOMAIN shelf |-> shelf[x].total]) = Cardinality(DOMAIN rows)
  <2> DEFINE h == [x \in DOMAIN shelf |-> shelf[x].total]
  <2>1. DOMAIN h = names /\ \A x \in names : h[x] = Cardinality(Part(DOMAIN rows, part, x))
    BY <1>2, <1>3, <1>4
  <2> HIDE DEF h
  <2>2. Total(h) = Cardinality(DOMAIN rows)
    BY <1>1, <2>1, CountedByParts
  <2> QED
    BY <2>2 DEF h
<1>6. Total([x \in DOMAIN shelf |-> shelf[x].sealed]) = Cardinality(sealed)
  <2> DEFINE h == [x \in DOMAIN shelf |-> shelf[x].sealed]
  <2>1. DOMAIN h = names /\ \A x \in names : h[x] = Cardinality(Part(sealed, part, x))
    BY <1>2, <1>3, <1>4
  <2>2. \A i \in sealed : part[i] \in names
    BY <1>1
  <2> HIDE DEF h
  <2>3. Total(h) = Cardinality(sealed)
    BY <1>1, <2>1, <2>2, CountedByParts
  <2> QED
    BY <2>3 DEF h
<1>7. ASSUME NEW c \in Choice
      PROVE  Total([x \in DOMAIN shelf |-> shelf[x].byChoice[c]]) = Cardinality(chosen(c))
  <2> DEFINE h == [x \in DOMAIN shelf |-> shelf[x].byChoice[c]]
  <2>1. ASSUME NEW x \in names
        PROVE  h[x] = Cardinality(Part(chosen(c), part, x))
    <3>1. h[x] = shelf[x].byChoice[c]
      BY <1>2
    <3>2. {i \in SealedRows(mine(x)) : mine(x)[i].choice = c} = Part(chosen(c), part, x)
      BY <1>4
    <3> HIDE DEF h, chosen
    <3> QED
      BY <1>3, <3>1, <3>2
  <2>4. DOMAIN h = names
    BY <1>2
  <2>2. IsFiniteSet(chosen(c)) /\ \A i \in chosen(c) : part[i] \in names
    BY <1>1
  <2> HIDE DEF h, chosen
  <2>3. Total(h) = Cardinality(chosen(c))
    BY <1>1, <2>1, <2>2, <2>4, CountedByParts
  <2> QED
    BY <2>3 DEF h
<1> QED
  BY <1>5, <1>6, <1>7 DEF shelf, sealed

LEMMA ChoicesAddUp ==
  ASSUME NEW rows, IsTable(rows)
  PROVE  LET by == ByChoice(rows)
         IN /\ Cardinality(SealedRows(rows)) = Total([c \in Choice |-> by[c].n])
            /\ Total([i \in DOMAIN rows |-> rows[i].z]) = Total([c \in Choice |-> by[c].sum])
<1> DEFINE by == ByChoice(rows)
           sealed == SealedRows(rows)
           part == ChoiceAt(rows)
           f == [i \in DOMAIN rows |-> rows[i].z]
           of(c) == [i \in {j \in sealed : rows[j].choice = c} |-> rows[i].z]
           n == [c \in Choice |-> by[c].n]
           sum == [c \in Choice |-> by[c].sum]
<1>1. /\ IsFiniteSet(Choice) /\ IsFiniteSet(sealed) /\ IsFiniteSet(DOMAIN rows)
      /\ sealed \in SUBSET DOMAIN rows
      /\ \A i \in sealed : part[i] \in Choice
  BY PartsAre, SealedAre DEF IsTable
<1>2. /\ \A i \in DOMAIN rows : f[i] = rows[i].z /\ f[i] \in Int
      /\ \A i \in DOMAIN rows \ sealed : f[i] = 0
  BY SealedAre
<1>3. \A c \in Choice : {j \in sealed : rows[j].choice = c} = Part(sealed, part, c)
  BY <1>1 DEF Part, ChoiceAt
<1>4. ASSUME NEW c \in Choice
      PROVE  n[c] = Cardinality(Part(sealed, part, c)) /\ sum[c] = Total(of(c))
  BY <1>3, Zenon DEF ByChoice
<1>5. ASSUME NEW c \in Choice
      PROVE  Total(of(c)) = Sigma(f, Part(sealed, part, c))
  <2> DEFINE P == Part(sealed, part, c)
             g == of(c)
  <2>1. P \in SUBSET sealed /\ IsFiniteSet(P)
    BY <1>1, FS_Subset DEF Part
  <2>2. DOMAIN g = P /\ \A i \in P : g[i] = rows[i].z
    BY <1>3
  <2> HIDE DEF P, g, f
  <2>3. \A i \in P : f[i] \in Int /\ f[i] = g[i]
    BY <1>1, <1>2, <2>1, <2>2
  <2>4. Total(g) = Sigma(f, P)
    BY <2>1, <2>2, <2>3, SigmaSame, TotalIs
  <2> QED
    BY <2>4 DEF P, g
<1>6. DOMAIN n = Choice /\ DOMAIN sum = Choice
  OBVIOUS
<1>7. DOMAIN f = DOMAIN rows
  OBVIOUS
<1> HIDE DEF f, n, sum, part, sealed, of
<1>8. Total(n) = Cardinality(sealed)
  BY <1>1, <1>4, <1>6, CountedByParts
<1>9. Total(sum) = Sigma(f, sealed)
  <2>1. \A i \in sealed : f[i] \in Int
    BY <1>1, <1>2
  <2> QED
    BY <1>1, <1>4, <1>5, <1>6, <2>1, SummedByParts
<1>10. Total(f) = Sigma(f, sealed)
  BY <1>1, <1>2, <1>7, TotalIs, SigmaRest
<1> QED
  BY <1>8, <1>9, <1>10 DEF f, n, sum, sealed

LEMMA BitsAddUp ==
  ASSUME NEW rows, IsTable(rows)
  PROVE  Total([i \in SealedRows(rows) |-> rows[i].bits]) = Total([i \in DOMAIN rows |-> rows[i].bits])
<1> DEFINE sealed == SealedRows(rows)
           f == [i \in DOMAIN rows |-> rows[i].bits]
           g == [i \in sealed |-> rows[i].bits]
<1>1. IsFiniteSet(sealed) /\ IsFiniteSet(DOMAIN rows) /\ sealed \in SUBSET DOMAIN rows
  BY SealedAre DEF IsTable
<1>2. /\ \A i \in DOMAIN rows : f[i] \in Int
      /\ \A i \in sealed : f[i] \in Int /\ f[i] = g[i]
      /\ \A i \in DOMAIN rows \ sealed : f[i] = 0
      /\ DOMAIN f = DOMAIN rows /\ DOMAIN g = sealed
  BY <1>1, SealedAre
<1> HIDE DEF f, g, sealed
<1>3. Sigma(f, DOMAIN rows) = Sigma(f, sealed) /\ Sigma(f, sealed) = Sigma(g, sealed)
  BY <1>1, <1>2, SigmaRest, SigmaSame
<1> QED
  BY <1>2, <1>3, TotalIs DEF f, g, sealed

\* The set of those above is not empty only for a z above 2, and has ten at most with it.
LEMMA ExtremesTakeIn ==
  ASSUME NEW rows, IsTable(rows)
  PROVE  /\ Anomalies(rows, 30) \subseteq Anomalies(rows, 20)
         /\ Cardinality(Anomalies(rows, 20)) <= 10 => Anomalies(rows, 20) \subseteq Extremes(rows)
<1> DEFINE sealed == SealedRows(rows)
           large == Anomalies(rows, 20)
           size(i) == Max({rows[i].z, -rows[i].z})
           ahead(i) == {j \in sealed : size(j) > size(i) \/ (size(j) = size(i) /\ j < i)}
<1>1. /\ IsFiniteSet(sealed) /\ sealed \subseteq DOMAIN rows /\ large \subseteq sealed
      /\ \A i \in sealed : i \in Nat /\ rows[i].z \in Int
  BY SealedAre DEF IsTable, Anomalies
<1>2. ASSUME NEW i \in sealed
      PROVE  /\ size(i) \in Int /\ size(i) >= 0
             /\ i \in large <=> size(i) > 20
  <2>1. PICK z \in Int : z = rows[i].z
    BY <1>1
  <2>2. PICK v \in Int : v = Max({z, -z}) /\ v >= z /\ v >= -z /\ (v = z \/ v = -z)
    <3>1. \E m \in {z, -z} : \A y \in {z, -z} : m >= y
      OBVIOUS
    <3>2. Max({z, -z}) \in {z, -z} /\ \A y \in {z, -z} : Max({z, -z}) >= y
      BY <3>1, MaxIs
    <3> QED
      BY <3>2
  <2>3. size(i) = v
    BY <2>1, <2>2
  <2>4. i \in large <=> z \notin (-20)..20
    BY <2>1 DEF Anomalies
  <2> HIDE DEF size, large
  <2> QED
    BY <2>2, <2>3, <2>4
<1>3. Anomalies(rows, 30) \subseteq large
  BY <1>1 DEF Anomalies
<1>4. ASSUME Cardinality(large) <= 10, NEW i \in large
      PROVE  Cardinality(ahead(i)) < 10
  <2>1. ahead(i) \subseteq large \ {i}
    <3> SUFFICES ASSUME NEW j \in ahead(i)
                 PROVE  j \in large \ {i}
      OBVIOUS
    <3>1. /\ j \in sealed /\ i \in sealed
          /\ size(j) > size(i) \/ (size(j) = size(i) /\ j < i)
      BY <1>1
    <3>2. size(i) > 20 /\ size(i) \in Int /\ size(j) \in Int /\ (size(j) > 20 => j \in large)
      BY <1>2, <3>1
    <3> HIDE DEF size, large
    <3> QED
      BY <1>1, <3>1, <3>2
  <2>2. IsFiniteSet(large)
    BY <1>1, FS_Subset
  <2> HIDE DEF ahead, large
  <2>3. /\ IsFiniteSet(large \ {i}) /\ Cardinality(large \ {i}) = Cardinality(large) - 1
        /\ Cardinality(large) \in Nat
    BY <1>4, <2>2, SizeLess
  <2>4. Cardinality(ahead(i)) <= Cardinality(large \ {i}) /\ Cardinality(ahead(i)) \in Nat
    BY <2>1, <2>3, FS_Subset, FS_CardinalityType
  <2> QED
    BY <1>4, <2>3, <2>4
<1>5. Extremes(rows) = {i \in sealed : Cardinality(ahead(i)) < 10}
  BY DEF Extremes
<1> HIDE DEF ahead, large
<1>6. Cardinality(large) <= 10 => large \subseteq Extremes(rows)
  BY <1>1, <1>4, <1>5
<1> QED
  BY <1>3, <1>6 DEF large

\* What is short enough is listed completely.
LEMMA ListsAreWhole ==
  ASSUME NEW rows, IsTable(rows), NEW op \in Operators(rows),
         Cardinality(DOMAIN RowsOf(rows, op)) <= RowLimit
  PROVE  LET list == SessionList(rows, op, RowLimit)
             trend == Trend(list)
         IN /\ list = RowsOf(rows, op)
            /\ trend[Max(DOMAIN trend)] = PsiForOperator(rows, op)
<1> DEFINE mine == RowsOf(rows, op)
           D == {i \in DOMAIN rows : rows[i].operator = op}
           list == SessionList(rows, op, RowLimit)
           later(i) == {j \in D : j > i}
<1>1. mine = [i \in D |-> rows[i]]
  BY DEF RowsOf, Restrict
<1>2. DOMAIN mine = D
  BY <1>1
<1>3. /\ IsFiniteSet(D) /\ D \in SUBSET Nat /\ D # {}
      /\ \E n \in Nat : \A i \in D : i <= n
  <2>1. D \in SUBSET DOMAIN rows /\ D # {}
    BY DEF Operators
  <2>2. IsFiniteSet(D)
    BY <2>1, FS_Subset DEF IsTable
  <2> QED
    BY <2>1, <2>2 DEF IsTable
<1>4. ASSUME NEW i \in D
      PROVE  Cardinality(later(i)) < RowLimit
  <2>1. later(i) \subseteq D /\ i \in D \ later(i)
    BY <1>3, <1>4
  <2> HIDE DEF later
  <2>2. IsFiniteSet(later(i)) /\ Cardinality(later(i)) \in Nat /\ Cardinality(D) \in Nat
    BY <1>3, <2>1, FS_Subset, FS_CardinalityType
  <2>3. Cardinality(later(i)) <= Cardinality(D) /\ Cardinality(later(i)) # Cardinality(D)
    BY <1>3, <2>1, FS_Subset
  <2> QED
    BY <1>2, <2>2, <2>3 DEF RowLimit
<1>5. list = Restrict(mine, {i \in D : Cardinality(later(i)) < RowLimit})
  BY <1>2 DEF SessionList
<1>6. {i \in D : Cardinality(later(i)) < RowLimit} = D
  BY <1>4
<1> HIDE DEF D, mine, list
<1>7. \A X : X = D => Restrict(mine, X) = mine
  BY <1>1 DEF Restrict
<1>8. list = mine
  BY <1>5, <1>6, <1>7
<1>9. PICK m \in D : m = Max(D) /\ \A j \in D : j <= m
  <2>1. \E m \in D : \A j \in D : m >= j
    BY <1>3, Greatest
  <2> QED
    BY <1>3, <2>1, MaxIs
<1>10. Trend(mine)[m] = PsiScoreFromSessions(Restrict(mine, {j \in D : j <= m}))
  BY <1>2 DEF Trend
<1>11. {j \in D : j <= m} = D
  BY <1>9
<1>12. Trend(mine)[m] = PsiScoreFromSessions(mine)
  BY <1>7, <1>10, <1>11
<1>13. DOMAIN Trend(mine) = D
  BY <1>2 DEF Trend
<1>14. LET trend == Trend(mine) IN trend[Max(DOMAIN trend)] = PsiForOperator(rows, op)
  BY <1>9, <1>12, <1>13 DEF PsiForOperator, mine
<1> QED
  BY <1>8, <1>14 DEF list, mine

\* ledgerReader.ts, for any ledger: what the routes count by player, by choice and
\* by experiment are parts of the same whole, and so are the sums.
THEOREM TotalsAlwaysAgree == RecordSpec => []TotalsAgree
<1>1. TypeOK /\ CacheInv /\ NamedInv => TotalsAgree
  <2> SUFFICES ASSUME TypeOK, CacheInv, NamedInv
               PROVE  TotalsAgree
    OBVIOUS
  <2> DEFINE rows == Rows(cached)
             stats == GlobalStats(rows)
             board == Board(rows)
             shelf == Experiments(rows)
  <2>1. IsTable(rows)
    BY CacheIsTable
  <2> HIDE DEF rows
  <2>2. /\ stats.sessions = Cardinality(DOMAIN rows)
        /\ stats.sealed = Cardinality(SealedRows(rows))
        /\ stats.totalBits = Total([i \in SealedRows(rows) |-> rows[i].bits])
        /\ stats.byChoice = ByChoice(rows)
        /\ stats.z2 = Anomalies(rows, 20) /\ stats.z3 = Anomalies(rows, 30)
        /\ stats.extremes = Extremes(rows)
    BY DEF GlobalStats
  <2>3. \A c \in Choice :
          ByChoice(rows)[c].n = Cardinality({i \in SealedRows(rows) : rows[i].choice = c})
    BY DEF ByChoice
  <2>4. Candidates(board) \subseteq EligibleOperators(board)
    <3>1. ASSUME NEW op \in Operators(rows), board[op].psi.isCandidate
          PROVE  board[op].psi.scored >= MinSessions
      <4>1. board[op].psi = PsiForOperator(rows, op)
        BY BoardIs
      <4>2. PsiForOperator(rows, op).isCandidate => PsiForOperator(rows, op).scored >= MinSessions
        BY <2>1, ScoreIs
      <4> QED
        BY <3>1, <4>1, <4>2
    <3> QED
      BY <3>1, BoardIs DEF Candidates, EligibleOperators
  <2>5. DOMAIN board = Operators(rows)
        /\ \A op \in DOMAIN board : board[op].total = Cardinality(DOMAIN RowsOf(rows, op))
    BY BoardIs
  <2> HIDE DEF stats, board, shelf
  <2>6. /\ stats.sessions = Total([op \in DOMAIN board |-> board[op].total])
        /\ stats.sessions = Total([x \in DOMAIN shelf |-> shelf[x].total])
        /\ stats.sealed = Total([x \in DOMAIN shelf |-> shelf[x].sealed])
    BY <2>1, <2>2, OperatorsAddUp, ExperimentsAddUp DEF board, shelf
  <2>7. \A c \in Choice :
          stats.byChoice[c].n = Total([x \in DOMAIN shelf |-> shelf[x].byChoice[c]])
    BY <2>1, <2>2, <2>3, ExperimentsAddUp DEF shelf
  <2>8. /\ stats.sealed = Total([c \in Choice |-> stats.byChoice[c].n])
        /\ Total([i \in DOMAIN rows |-> rows[i].z])
             = Total([c \in Choice |-> stats.byChoice[c].sum])
    BY <2>1, <2>2, ChoicesAddUp
  <2>9. stats.totalBits = Total([i \in DOMAIN rows |-> rows[i].bits])
    BY <2>1, <2>2, BitsAddUp
  <2>10. /\ stats.z3 \subseteq stats.z2
         /\ Cardinality(stats.z2) <= 10 => stats.z2 \subseteq stats.extremes
    BY <2>1, <2>2, ExtremesTakeIn
  <2>11. \A op \in DOMAIN board :
           LET list == SessionList(rows, op, RowLimit)
               trend == Trend(list)
           IN board[op].total <= RowLimit =>
                /\ Cardinality(DOMAIN list) = board[op].total
                /\ trend[Max(DOMAIN trend)] = PsiForOperator(rows, op)
    BY <2>1, <2>5, ListsAreWhole
  <2> QED
    BY <2>4, <2>6, <2>7, <2>8, <2>9, <2>10, <2>11 DEF TotalsAgree, rows, stats, board, shelf
<1> QED
  BY <1>1, TypeCorrect, ReadersRefineSpine, CacheInvAlways, NamedAlways, PTL
=============================================================================

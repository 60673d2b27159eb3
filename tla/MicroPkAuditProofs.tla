------------------------- MODULE MicroPkAuditProofs --------------------------
(***************************************************************************)
(* A micro-PK run and those who check on it: what is sealed passes every   *)
(* verifier, what is dropped is flagged, and nobody signs ahead of the run *)
(* nor the run reads ahead of its witnesses.  All of it rests on BlobInv   *)
(* and StreamInv of module MicroPk, over the invariants of MicroPkProofs.  *)
(***************************************************************************)
EXTENDS MicroPkAudit, MicroPkProofs, DataProofs

-----------------------------------------------------------------------------
(* The sum of a sequence.                                                    *)

\* The function that Sum defines by recursion, up to n.
IsSum(s, n, g) == g = [i \in 0..n |-> IF i = 0 THEN 0 ELSE g[i-1] + s[i]]

LEMMA SumFcn ==
  ASSUME NEW s \in Seq(Int)
  PROVE  \E g : IsSum(s, Len(s), g)
<1> DEFINE S == {n \in Nat : n <= Len(s) => \E g : IsSum(s, n, g)}
<1>1. 0 \in S
  <2>1. IsSum(s, 0, [i \in 0..0 |-> 0])
    BY DEF IsSum
  <2> QED
    BY <2>1
<1>2. ASSUME NEW n \in Nat, n \in S
      PROVE  n + 1 \in S
  <2> SUFFICES ASSUME n + 1 <= Len(s)
               PROVE  \E g : IsSum(s, n + 1, g)
    OBVIOUS
  <2>1. PICK g : IsSum(s, n, g)
    BY <1>2
  <2> DEFINE h == [i \in 0..(n+1) |-> IF i = n + 1 THEN g[n] + s[n+1] ELSE g[i]]
  <2>2. IsSum(s, n + 1, h)
    BY <2>1 DEF IsSum
  <2> QED
    BY <2>2
<1>3. Nat \subseteq S
  <2> HIDE DEF S
  <2> QED
    BY <1>1, <1>2, NatSetInduction
<1> QED
  BY <1>3

LEMMA SumDef ==
  ASSUME NEW s \in Seq(Int)
  PROVE  \E g : IsSum(s, Len(s), g) /\ Sum(s) = g[Len(s)]
<1> DEFINE h == CHOOSE g : IsSum(s, Len(s), g)
<1>1. IsSum(s, Len(s), h)
  BY SumFcn
<1>2. Sum(s) = h[Len(s)]
  BY DEF Sum, IsSum
<1> QED
  BY <1>1, <1>2

LEMMA SumAppend ==
  ASSUME NEW s \in Seq(Int), NEW e \in Int
  PROVE  Sum(Append(s, e)) = Sum(s) + e
<1> DEFINE t == Append(s, e)
           n == Len(s)
<1>1. /\ n \in Nat /\ t \in Seq(Int) /\ Len(t) = n + 1 /\ t[n + 1] = e
      /\ \A i \in 1..n : t[i] = s[i]
  BY AppendProperties
<1>2. PICK g : IsSum(s, n, g) /\ Sum(s) = g[n]
  BY SumDef
<1>3. PICK h : IsSum(t, n + 1, h) /\ Sum(t) = h[n + 1]
  BY <1>1, SumDef
<1> HIDE DEF t, n
<1> DEFINE S == {i \in Nat : i <= n => h[i] = g[i]}
<1>4. 0 \in S
  BY <1>1, <1>2, <1>3 DEF IsSum
<1>5. ASSUME NEW i \in Nat, i \in S
      PROVE  i + 1 \in S
  <2> SUFFICES ASSUME i + 1 <= n
               PROVE  h[i + 1] = g[i + 1]
    OBVIOUS
  <2>1. h[i] = g[i] /\ t[i + 1] = s[i + 1]
    BY <1>1, <1>5
  <2>2. h[i + 1] = h[(i + 1) - 1] + t[i + 1]
    BY <1>1, <1>3 DEF IsSum
  <2>3. g[i + 1] = g[(i + 1) - 1] + s[i + 1]
    BY <1>1, <1>2 DEF IsSum
  <2>4. (i + 1) - 1 = i
    OBVIOUS
  <2> QED
    BY <2>1, <2>2, <2>3, <2>4
<1>6. n \in S
  <2> HIDE DEF S
  <2> QED
    BY <1>1, <1>4, <1>5, NatSetInduction
<1>7. h[n + 1] = h[n] + e
  <2>1. h[n + 1] = h[(n + 1) - 1] + t[n + 1]
    BY <1>1, <1>3 DEF IsSum
  <2> QED
    BY <1>1, <2>1
<1> QED
  BY <1>1, <1>2, <1>3, <1>6, <1>7 DEF t

LEMMA SumEmpty == Sum(<<>>) = 0
<1>1. <<>> \in Seq(Int) /\ Len(<<>>) = 0
  OBVIOUS
<1>2. PICK f : IsSum(<<>>, 0, f) /\ Sum(<<>>) = f[0]
  BY <1>1, SumDef
<1> QED
  BY <1>2 DEF IsSum

-----------------------------------------------------------------------------
(* Splitting the trials into windows.                                        *)

LEMMA TimesMonotone ==
  ASSUME NEW m \in Int, NEW n \in Int, NEW leaf \in Nat, m <= n
  PROVE  m * leaf <= n * leaf
OBVIOUS

LEMMA TimesNext ==
  ASSUME NEW n \in Int, NEW leaf \in Int
  PROVE  (n + 1) * leaf = n * leaf + leaf /\ (n - 1) * leaf = n * leaf - leaf /\ n * leaf \in Int
OBVIOUS

LEMMA DivBounds ==
  ASSUME NEW x \in Nat, NEW c \in Nat \ {0}
  PROVE  x \div c \in Nat /\ (x \div c) * c <= x /\ x < (x \div c) * c + c
<1>1. x \div c \in Nat
  OBVIOUS
<1>2. c * (x \div c) <= x /\ x < c * (x \div c) + c
  OBVIOUS
<1>3. c * (x \div c) = (x \div c) * c
  BY <1>1
<1> QED
  BY <1>1, <1>2, <1>3

\* There are just as many windows as the trials need.
LEMMA EnoughWindows ==
  /\ NumWindows \in Nat /\ NumWindows >= 1
  /\ (NumWindows - 1) * CheckpointEvery < TrialsPerSession
  /\ TrialsPerSession <= NumWindows * CheckpointEvery
<1> DEFINE T == TrialsPerSession
           c == CheckpointEvery
           N == NumWindows
<1>1. T \in Nat \ {0} /\ c \in Nat \ {0} /\ T + c - 1 \in Nat
  BY MicroPkAssumption
<1>2. N \in Nat /\ N * c <= T + c - 1 /\ T + c - 1 < N * c + c
  BY <1>1, DivBounds DEF NumWindows
<1>3. (N - 1) * c = N * c - c /\ N * c \in Int
  BY <1>1, <1>2, TimesNext
<1>4. N # 0
  BY <1>1, <1>2
<1> QED
  BY <1>1, <1>2, <1>3, <1>4

\* As long as trials are missing there is a window to come, and no longer.
LEMMA WindowsToCome ==
  ASSUME NEW n \in Nat
  PROVE  /\ n * CheckpointEvery \in Int /\ (n + 1) * CheckpointEvery = n * CheckpointEvery + CheckpointEvery
         /\ n * CheckpointEvery < TrialsPerSession <=> n + 1 <= NumWindows
<1> DEFINE T == TrialsPerSession
           c == CheckpointEvery
           N == NumWindows
<1>1. T \in Nat \ {0} /\ c \in Nat \ {0}
  BY MicroPkAssumption
<1>2. n * c \in Int /\ N \in Nat /\ (N - 1) * c \in Int /\ N * c \in Int
  BY <1>1, EnoughWindows, TimesNext
<1>3. ASSUME n + 1 <= N
      PROVE  n * c < T
  <2>1. n <= N - 1
    BY <1>2, <1>3
  <2>2. n * c <= (N - 1) * c
    BY <1>1, <1>2, <2>1, TimesMonotone
  <2> QED
    BY <1>1, <1>2, <2>2, EnoughWindows
<1>4. ASSUME ~(n + 1 <= N)
      PROVE  T <= n * c
  <2>1. N * c <= n * c
    BY <1>1, <1>2, <1>4, TimesMonotone
  <2> QED
    BY <1>1, <1>2, <2>1, EnoughWindows
<1>5. (n + 1) * c = n * c + c
  BY <1>1, TimesNext
<1> QED
  BY <1>1, <1>2, <1>3, <1>4, <1>5

LEMMA SplitsInWindows ==
  /\ DOMAIN Split(TrialsPerSession, CheckpointEvery) = 1..NumWindows
  /\ Split(TrialsPerSession, CheckpointEvery) =
       [i \in 1..NumWindows |-> Split(TrialsPerSession, CheckpointEvery)[i]]
  /\ \A i \in 1..NumWindows :
       Split(TrialsPerSession, CheckpointEvery)[i] \in 1..CheckpointEvery
  /\ \A n \in 0..(NumWindows - 1) :
       Split(TrialsPerSession, CheckpointEvery)[n + 1] =
         IF (n + 1) * CheckpointEvery <= TrialsPerSession
         THEN CheckpointEvery ELSE TrialsPerSession - n * CheckpointEvery
<1> DEFINE T == TrialsPerSession
           c == CheckpointEvery
           N == NumWindows
<1>1. T \in Nat \ {0} /\ c \in Nat \ {0} /\ N \in Nat
  BY MicroPkAssumption, EnoughWindows
<1>2. Split(T, c) = [i \in 1..N |-> IF i * c <= T THEN c ELSE T - (i - 1) * c]
  BY DEF Split, NumWindows
<1> HIDE DEF N
<1>3. ASSUME NEW n \in 0..(N - 1)
      PROVE  /\ Split(T, c)[n + 1] = IF (n + 1) * c <= T THEN c ELSE T - n * c
             /\ Split(T, c)[n + 1] \in 1..c
  <2>1. n \in Nat /\ n + 1 \in 1..N /\ (n + 1) - 1 = n
    BY <1>1
  <2>2. n * c < T /\ (n + 1) * c = n * c + c /\ n * c \in Int
    BY <2>1, WindowsToCome DEF N
  <2>3. Split(T, c)[n + 1] = IF (n + 1) * c <= T THEN c ELSE T - n * c
    BY <1>2, <2>1
  <2> QED
    BY <1>1, <2>2, <2>3
<1>4. \A i \in 1..N : Split(T, c)[i] \in 1..c
  <2>1. ASSUME NEW i \in 1..N
        PROVE  Split(T, c)[i] \in 1..c
    <3>1. i - 1 \in 0..(N - 1) /\ (i - 1) + 1 = i
      BY <1>1
    <3> QED
      BY <1>3, <3>1
  <2> QED
    BY <2>1
<1> QED
  BY <1>2, <1>3, <1>4 DEF N

-----------------------------------------------------------------------------
(* BlobInv: what is read is what is sealed, every trial once.                *)

LEMMA WindowsRead ==
  ASSUME BlobInv
  PROVE  /\ Len(windows) \in Nat /\ DOMAIN windows = 1..Len(windows)
         /\ windows = [i \in 1..Len(windows) |-> windows[i]]
         /\ windows \in Seq(1..CheckpointEvery) /\ windows \in Seq(Int)
<1>1. 1..CheckpointEvery \subseteq Int
  BY MicroPkAssumption
<1>2. windows \in Seq(Int)
  BY <1>1, SeqMonotonic DEF BlobInv
<1> QED
  BY <1>2 DEF BlobInv

LEMMA ReadKeepsBlob ==
  ASSUME BlobInv, ReadBlock
  PROVE  BlobInv'
<1> DEFINE T == TrialsPerSession
           c == CheckpointEvery
           n == Len(windows)
<1>0. /\ T \in Nat \ {0} /\ c \in Nat \ {0} /\ n \in Nat /\ windows \in Seq(Int)
      /\ DOMAIN windows = 1..n /\ trial < T /\ windows' = Append(windows, BatchTrials)
      /\ pc' \in {"read", "checkpoint"}
  BY MicroPkAssumption, WindowsRead DEF ReadBlock
<1>1. n * c \in Int /\ (n + 1) * c = n * c + c
  BY <1>0, WindowsToCome
<1>2. trial = n * c /\ n * c < T
  BY <1>0, <1>1 DEF BlobInv
<1>3. n + 1 <= NumWindows
  BY <1>0, <1>2, WindowsToCome
<1>4. n \in 0..(NumWindows - 1)
  BY <1>0, <1>3, EnoughWindows
<1>5. /\ BatchTrials = Split(T, c)[n + 1] /\ BatchTrials \in Int /\ BatchTrials \in 1..c
      /\ trial + BatchTrials = IF (n + 1) * c <= T THEN (n + 1) * c ELSE T
  <2>1. Split(T, c)[n + 1] = IF (n + 1) * c <= T THEN c ELSE T - n * c
    BY <1>4, SplitsInWindows
  <2>2. BatchTrials = IF T - n * c < c THEN T - n * c ELSE c
    BY <1>2 DEF BatchTrials
  <2> HIDE DEF n
  <2> QED
    BY <1>0, <1>1, <1>2, <2>1, <2>2
<1>6. trial' = trial + BatchTrials
  <2>1. trial' = Sum(Append(windows, BatchTrials))
    BY <1>0 DEF trial, Sum
  <2> QED
    BY <1>0, <1>5, <2>1, SumAppend DEF trial
<1>7. /\ Len(windows') = n + 1 /\ DOMAIN windows' = 1..(n + 1)
      /\ \A i \in 1..n : windows'[i] = windows[i]
      /\ windows'[n + 1] = BatchTrials
  BY <1>0, <1>5, AppendProperties
<1>8. \A i \in 1..(n + 1) : windows'[i] = Split(T, c)[i]
  <2>1. \A i \in 1..(n + 1) : i = n + 1 \/ i \in 1..n
    BY <1>0
  <2>2. \A i \in 1..n : windows'[i] = Split(T, c)[i]
    BY <1>0, <1>7 DEF BlobInv
  <2> QED
    BY <1>5, <1>7, <2>1, <2>2
<1> HIDE DEF n
<1>9. (\A i \in DOMAIN windows : windows[i] = Split(T, c)[i])'
  BY <1>7, <1>8
<1>10. (Len(windows) <= NumWindows)'
  BY <1>3, <1>7
<1>11. (trial = IF Len(windows) * c <= T THEN Len(windows) * c ELSE T)'
  BY <1>5, <1>6, <1>7
<1>12. windows' \in Seq(1..c)
  BY <1>0, <1>5, AppendProperties DEF BlobInv
<1> QED
  BY <1>0, <1>9, <1>10, <1>11, <1>12 DEF BlobInv

LEMMA BlobStays ==
  ASSUME BlobInv, UNCHANGED <<windows, openWitness, checkpoints>>,
         pc' \in {"seal", "sealed"} => trial >= TrialsPerSession,
         pc' = "sealed" => \/ pc = "sealed" /\ UNCHANGED seal
                           \/ \E atts : seal' = Payload(atts)
  PROVE  BlobInv'
<1>1. trial' = trial
  BY DEF trial, Sum
<1>2. \A atts : Payload(atts)' = Payload(atts) /\ Payload(atts).sealWitness = atts
  BY <1>1 DEF Payload
<1>3. (pc = "sealed" => seal = Payload(seal.sealWitness))'
  <2>1. SUFFICES ASSUME pc' = "sealed"
                 PROVE  seal' = Payload(seal'.sealWitness)
    BY <1>1 DEF Payload
  <2> QED
    BY <1>2, <2>1 DEF BlobInv
<1> QED
  BY <1>1, <1>3 DEF BlobInv

LEMMA BlobInvStep ==
  ASSUME BlobInv, [Next]_vars
  PROVE  BlobInv'
<1>1. CASE UNCHANGED runVars
  BY <1>1, BlobStays DEF runVars, BlobInv
<1>2. CASE Start
  BY <1>2, BlobStays DEF Start
<1>3. CASE QuorumShort \/ RunFails
  BY <1>3, BlobStays DEF QuorumShort, RunFails
<1>4. CASE OpenWitnessed \/ CheckpointWitnessed
  <2>1. CASE OpenWitnessed
    <3>1. UNCHANGED windows /\ pc' = "read" /\ trial' = trial
      BY <2>1 DEF OpenWitnessed, trial, Sum
    <3> QED
      BY <3>1 DEF BlobInv
  <2>2. CASE CheckpointWitnessed
    <3>1. UNCHANGED windows /\ pc' = "read" /\ trial' = trial
      BY <2>2 DEF CheckpointWitnessed, trial, Sum
    <3> QED
      BY <3>1 DEF BlobInv
  <2> QED
    BY <1>4, <2>1, <2>2
<1>5. CASE AskSeal
  <2>1. \/ pc' = "seal"
        \/ pc' = "sealed" /\ seal' = Payload({})
    BY <1>5 DEF AskSeal
  <2> QED
    BY <1>5, <2>1, BlobStays DEF AskSeal
<1>6. CASE SealWitnessed
  <2>1. \/ pc' = "sealed" /\ seal' = Payload(asks[Run].got)
        \/ pc' = "failed"
    BY <1>6 DEF SealWitnessed
  <2>2. trial >= TrialsPerSession
    BY <1>6 DEF SealWitnessed, BlobInv
  <2> QED
    BY <1>6, <2>1, <2>2, BlobStays DEF SealWitnessed
<1> QED
  BY <1>1, <1>2, <1>3, <1>4, <1>5, <1>6, ReadKeepsBlob DEF Next, RunStep, vars

\* Nothing is read yet.
LEMMA BlobStart ==
  ASSUME windows = <<>>, pc \notin {"seal", "sealed"}
  PROVE  BlobInv
<1>1. trial = 0
  BY SumEmpty DEF trial
<1>2. Len(windows) = 0 /\ DOMAIN windows = {} /\ 0 * CheckpointEvery = 0
  BY MicroPkAssumption
<1>3. windows \in Seq(1..CheckpointEvery)
  OBVIOUS
<1> QED
  BY <1>1, <1>2, <1>3, EnoughWindows, MicroPkAssumption DEF BlobInv

LEMMA BlobInvAlways == Spec => [](BlobInv /\ StageInv /\ FeedInv)
<1>1. Init => BlobInv
  BY BlobStart DEF Init
<1>2. BlobInv /\ [Next]_vars => BlobInv'
  BY BlobInvStep
<1> QED
  BY <1>1, <1>2, StageInvAlways, PTL DEF Spec

-----------------------------------------------------------------------------
(* StreamInv: nobody signs ahead of the run, nor does it read ahead of them. *)

LEMMA CountGrows ==
  ASSUME NEW S, NEW T, IsFiniteSet(T), S \subseteq T
  PROVE  /\ IsFiniteSet(S) /\ Cardinality(S) \in Nat /\ Cardinality(T) \in Nat
         /\ Cardinality(S) <= Cardinality(T)
BY FS_Subset, FS_CardinalityType

LEMMA ThresholdIsNat == Threshold \in Nat /\ (Enabled <=> Threshold >= 1)
<1>1. Cardinality(Url) \in Nat
  BY WitnessAssumption, FS_CardinalityType
<1> QED
  BY <1>1, WitnessAssumption DEF Thresholds, Enabled

\* What a quorum has co-signed stays co-signed.
LEMMA CoSignedStays ==
  ASSUME NEW subject, CoSigned(subject), \A w \in Witness : Entries(w) \subseteq Entries(w)'
  PROVE  CoSigned(subject)'
<1>1. CoSigners(subject) \subseteq CoSigners(subject)'
  BY DEF CoSigners
<1>2. CoSigners(subject)' \subseteq Witness
  BY DEF CoSigners
<1>3. IsFiniteSet(CoSigners(subject)')
  BY <1>2, WitnessAssumption, FS_Subset
<1>4. /\ Cardinality(CoSigners(subject)) <= Cardinality(CoSigners(subject)')
      /\ Cardinality(CoSigners(subject)) \in Nat /\ Cardinality(CoSigners(subject)') \in Nat
  BY <1>1, <1>3, CountGrows
<1>5. Cardinality(CoSigners(subject)') >= Threshold
  BY <1>4, ThresholdIsNat DEF CoSigned
<1> QED
  BY <1>5 DEF CoSigned

LEMMA CoSignedSame ==
  ASSUME NEW subject, UNCHANGED feed
  PROVE  CoSigned(subject)' <=> CoSigned(subject)
BY DEF CoSigned, CoSigners, Entries

\* A quorum that answers is a quorum of feeds.
LEMMA QuorumCoSigns ==
  ASSUME NEW stage, NEW subject, StageHolds(stage, subject), Quorate(stage)
  PROVE  CoSigned(subject)
<1>1. {att.witness : att \in stage} \subseteq CoSigners(subject)
  BY DEF StageHolds, CoSigners
<1>2. CoSigners(subject) \subseteq Witness
  BY DEF CoSigners
<1>3. IsFiniteSet(CoSigners(subject))
  BY <1>2, WitnessAssumption, FS_Subset
<1>4. /\ Cardinality({att.witness : att \in stage}) <= Cardinality(CoSigners(subject))
      /\ Cardinality({att.witness : att \in stage}) \in Nat /\ Cardinality(CoSigners(subject)) \in Nat
  BY <1>1, <1>3, CountGrows
<1> QED
  BY <1>4, ThresholdIsNat DEF Quorate, CoSigned

LEMMA StagesNamed ==
  /\ StageOf(0) = OpenSubject
  /\ \A n \in Nat : StageOf(n + 1) = CheckpointSubject(n + 1) /\ (n # 0 => StageOf(n) = CheckpointSubject(n))
  /\ \A i : StageOf(i)' = StageOf(i)
  /\ \A i, j \in Nat : StageOf(i) = StageOf(j) => i = j
  /\ \A i : StageOf(i) # SealSubject
  /\ \A i : StageOf(i).kind \in WitnessSubjectKind
  /\ SealSubject.kind \in WitnessSubjectKind
BY DEF StageOf, OpenSubject, CheckpointSubject, SealSubject, Subject, WitnessSubjectKind

\* Once every trial is read there are all the windows.
LEMMA AllRead ==
  ASSUME BlobInv, trial >= TrialsPerSession
  PROVE  Len(windows) = NumWindows
<1> DEFINE n == Len(windows)
<1>1. n \in Nat /\ NumWindows \in Nat /\ n <= NumWindows /\ TrialsPerSession \in Nat
  BY WindowsRead, EnoughWindows, MicroPkAssumption DEF BlobInv
<1>2. n * CheckpointEvery \in Int /\ ~(n * CheckpointEvery < TrialsPerSession)
  <2>1. n * CheckpointEvery \in Int
    BY <1>1, WindowsToCome
  <2> QED
    BY <1>1, <2>1 DEF BlobInv
<1>3. ~(n + 1 <= NumWindows)
  BY <1>1, <1>2, WindowsToCome
<1> QED
  BY <1>1, <1>3

\* Whatever is asked for now is asked for later, as long as the run stays where it is.
LEMMA AskedStays ==
  ASSUME NEW subject, Asked(subject), UNCHANGED <<pc, windows>>,
         \A w \in Witness : Entries(w) \subseteq Entries(w)'
  PROVE  Asked(subject)'
<1>1. CASE \E i \in 0..Len(windows) : subject = StageOf(i)
  BY <1>1, StagesNamed DEF Asked
<1>2. CASE /\ subject = SealSubject /\ pc \in {"seal", "sealed", "failed"}
           /\ Len(windows) = NumWindows /\ CoSigned(StageOf(NumWindows))
  <2>1. CoSigned(StageOf(NumWindows))'
    <3> DEFINE last == StageOf(NumWindows)
    <3>1. last' = last
      BY DEF StageOf, OpenSubject, CheckpointSubject, Subject, NumWindows
    <3>2. PICK stage : stage = last
      OBVIOUS
    <3> HIDE DEF last
    <3>3. CoSigned(stage)'
      BY <1>2, <3>2, CoSignedStays DEF last
    <3>4. CoSigned(last)'
      BY <3>1, <3>2, <3>3 DEF CoSigned, CoSigners
    <3> QED
      BY <3>4 DEF last
  <2>2. SealSubject' = SealSubject
    BY DEF SealSubject, Subject
  <2> QED
    BY <1>2, <2>1, <2>2 DEF Asked
<1> QED
  BY <1>1, <1>2 DEF Asked

\* The witnesses sign what was asked for before they did.
LEMMA OnlyAskedIsSigned ==
  ASSUME StageInv, FeedInv, StreamInv, WitnessStep
  PROVE  /\ \A w \in Witness : \A att \in Entries(w)' :
              att.witness = w /\ att.round \in 0..clock' /\ Asked(att.subject)
         /\ \A q \in requests' : Asked(q.subject)
<1>0. /\ clock \in Nat /\ clock' \in Nat /\ clock <= clock' /\ requests \subseteq RequestType
      /\ \A q \in requests : Asked(q.subject)
  BY ClockGrows DEF StageInv, HeldInv, CallInv, StreamInv
<1>1. ASSUME NEW w \in Witness, NEW att \in Entries(w)'
      PROVE  att.witness = w /\ att.round \in 0..clock' /\ Asked(att.subject)
  <2>1. CASE att \in Entries(w)
    BY <1>0, <2>1 DEF StreamInv
  <2>2. ASSUME NEW q \in requests, NEW round \in PulseRounds(q),
               w = WitnessOf[q.url], att = Attestation(q, round), UNCHANGED clock
        PROVE  att.witness = w /\ att.round \in 0..clock' /\ Asked(att.subject)
    <3>1. att.witness = w /\ att.round = round /\ att.subject = q.subject
      BY <2>2 DEF Attestation
    <3>2. round \in 0..clock
      BY <1>0 DEF PulseRounds, RequestType
    <3> QED
      BY <1>0, <2>2, <3>1, <3>2
  <2> QED
    BY <2>1, <2>2, EntriesAreAsked
<1>2. \A q \in requests' : \E r \in requests : q.subject = r.subject
  <2>1. ASSUME NEW q \in requests, ReadRequest(q) \/ TimeOut(q)
        PROVE  \A t \in requests' : \E r \in requests : t.subject = r.subject
    <3>1. /\ [q EXCEPT !.read = TRUE, !.since = clock].subject = q.subject
          /\ [q EXCEPT !.live = FALSE].subject = q.subject
      BY <1>0 DEF RequestType
    <3>2. \A t \in requests' : \/ t \in requests
                               \/ t = [q EXCEPT !.read = TRUE, !.since = clock]
                               \/ t = [q EXCEPT !.live = FALSE]
      BY <2>1 DEF ReadRequest, TimeOut
    <3> QED
      BY <3>1, <3>2
  <2>2. ASSUME NEW q \in requests, Refuse(q) \/ CoSign(q) \/ Miss(q) \/ FeedFails(q)
        PROVE  requests' \subseteq requests
    BY <2>2 DEF Refuse, CoSign, Miss, FeedFails
  <2>3. ASSUME NEW w \in Witness, WitnessRestarts(w) \/ StampHead(w)
        PROVE  requests' \subseteq requests
    BY <2>3 DEF WitnessRestarts, StampHead
  <2>4. Tick \/ (\E s \in stamping : StampEnds(s) \/ StampFails(s)) => requests' = requests
    BY DEF Tick, StampEnds, StampFails
  <2> QED
    BY <2>1, <2>2, <2>3, <2>4 DEF WitnessStep, Serve
<1> QED
  BY <1>0, <1>1, <1>2

LEMMA WitnessesKeepStream ==
  ASSUME StageInv, FeedInv, StreamInv, UNCHANGED runVars,
         WitnessStep \/ UNCHANGED feedVars
  PROVE  StreamInv'
<1>0. /\ pc' = pc /\ windows' = windows /\ openWitness' = openWitness /\ checkpoints' = checkpoints
      /\ \A w \in Witness : Entries(w) \subseteq Entries(w)'
  BY EntriesGrow DEF runVars, feedVars, Entries
<1>1. clock' <= MaxRound
  BY ClockGrows DEF StreamInv, StageInv, HeldInv, feedVars
<1>2. /\ \A w \in Witness : \A att \in Entries(w)' :
           att.witness = w /\ att.round \in 0..clock' /\ Asked(att.subject)
      /\ \A q \in requests' : Asked(q.subject)
  BY OnlyAskedIsSigned DEF feedVars, Entries, StreamInv
<1>3. \A subject : Asked(subject) => Asked(subject)'
  BY <1>0, AskedStays
<1>4. \A subject : CoSigned(subject) => CoSigned(subject)'
  BY <1>0, CoSignedStays
<1>5. \A i : CoSigned(StageOf(i)) => CoSigned(StageOf(i))'
  BY <1>4 DEF StageOf, OpenSubject, CheckpointSubject, Subject, CoSigned, CoSigners
<1>6. CoSigned(SealSubject) => CoSigned(SealSubject)'
  BY <1>0, <1>4 DEF SealSubject, Subject, CoSigned, CoSigners
<1>7. (windows # <<>> /\ Enabled => Quorate(openWitness))'
  BY <1>0 DEF StreamInv, Quorate, Enabled
<1>8. (\A w \in Witness : \A att \in Entries(w) :
         att.witness = w /\ att.round \in 0..clock /\ Asked(att.subject))'
  BY <1>2, <1>3
<1>9. (\A q \in requests : Asked(q.subject))'
  BY <1>2, <1>3
<1> QED
  BY <1>0, <1>1, <1>5, <1>6, <1>7, <1>8, <1>9 DEF StreamInv, Enabled

\* A step of the run, which writes to no feed.
LEMMA RunAdvances ==
  ASSUME StreamInv, UNCHANGED <<clock, feed>>, pc' \in PcState, Len(checkpoints') <= Len(windows'),
         \A subject : Asked(subject) => Asked(subject)',
         \A q \in requests' : q \in requests \/ Asked(q.subject)',
         windows' # <<>> /\ Enabled => Quorate(openWitness'),
         Enabled => \A i \in 0..(Len(windows') - 1) : CoSigned(StageOf(i)),
         Enabled /\ pc' \in {"read", "seal", "sealed"} => CoSigned(StageOf(Len(windows'))),
         Enabled /\ pc' = "sealed" => windows' = windows /\ CoSigned(SealSubject)
  PROVE  StreamInv'
<1>1. \A w : Entries(w)' = Entries(w)
  BY DEF Entries
<1>2. (\A w \in Witness : \A att \in Entries(w) :
         att.witness = w /\ att.round \in 0..clock /\ Asked(att.subject))'
  BY <1>1 DEF StreamInv
<1>3. (\A q \in requests : Asked(q.subject))'
  BY DEF StreamInv
<1>4. \A subject : CoSigned(subject)' <=> CoSigned(subject)
  BY CoSignedSame
<1>5. \A i : CoSigned(StageOf(i)) => CoSigned(StageOf(i))'
  BY <1>4 DEF StageOf, OpenSubject, CheckpointSubject, Subject, CoSigned, CoSigners
<1>6. windows' = windows /\ CoSigned(SealSubject) => CoSigned(SealSubject)'
  BY <1>4 DEF SealSubject, Subject, CoSigned, CoSigners
<1>7. (windows # <<>> /\ Enabled => Quorate(openWitness))'
  BY DEF Quorate, Enabled
<1>8. Enabled' <=> Enabled
  BY DEF Enabled
<1>9. (Enabled => \A i \in 0..(Len(windows) - 1) : CoSigned(StageOf(i)))'
  BY <1>5, <1>8
<1>10. (Enabled /\ pc \in {"read", "seal", "sealed"} => CoSigned(StageOf(Len(windows))))'
  <2> DEFINE last == Len(windows')
  <2>1. Enabled /\ pc' \in {"read", "seal", "sealed"} => CoSigned(StageOf(last))
    OBVIOUS
  <2>2. CoSigned(StageOf(last)) => (CoSigned(StageOf(Len(windows))))'
    BY <1>1 DEF StageOf, OpenSubject, CheckpointSubject, Subject, CoSigned, CoSigners
  <2> QED
    BY <1>8, <2>1, <2>2
<1> QED
  BY <1>2, <1>3, <1>6, <1>7, <1>8, <1>9, <1>10 DEF StreamInv

\* While the run reads on, what was asked for stays so.
LEMMA AskedThrough ==
  ASSUME StageInv, UNCHANGED feed, pc' \in PcState,
         \/ UNCHANGED windows /\ (pc \in {"seal", "sealed", "failed"} => pc' \in {"seal", "sealed", "failed"})
         \/ pc = "read" /\ Len(windows') = Len(windows) + 1
  PROVE  \A subject : Asked(subject) => Asked(subject)'
<1>0. Len(windows) \in Nat /\ \A i : StageOf(i)' = StageOf(i)
  BY StageSubjects, StagesNamed
<1>1. ASSUME NEW subject, \E i \in 0..Len(windows) : subject = StageOf(i)
      PROVE  Asked(subject)'
  <2>1. PICK i \in 0..Len(windows) : subject = StageOf(i)
    BY <1>1
  <2>2. i \in 0..Len(windows')
    BY <1>0
  <2>3. subject = StageOf(i)'
    BY <1>0, <2>1
  <2> QED
    BY <2>2, <2>3 DEF Asked
<1>2. ASSUME NEW subject, subject = SealSubject, pc \in {"seal", "sealed", "failed"},
             Len(windows) = NumWindows, CoSigned(StageOf(NumWindows))
      PROVE  Asked(subject)'
  <2>1. UNCHANGED windows /\ pc' \in {"seal", "sealed", "failed"}
    BY <1>2
  <2>2. CoSigned(StageOf(NumWindows))'
    BY <1>2 DEF StageOf, OpenSubject, CheckpointSubject, Subject, NumWindows, CoSigned, CoSigners, Entries
  <2>3. SealSubject' = SealSubject /\ NumWindows' = NumWindows
    BY <2>1 DEF SealSubject, Subject, NumWindows
  <2> QED
    BY <1>2, <2>1, <2>2, <2>3 DEF Asked
<1> QED
  BY <1>1, <1>2 DEF Asked

LEMMA AskedNow ==
  ASSUME NEW a, NEW subject, Ask(a, subject)
  PROVE  \A q \in requests' : q \in requests \/ q.subject = subject
BY DEF Ask

LEMMA StartKeepsStream ==
  ASSUME StageInv, StreamInv, Start
  PROVE  StreamInv'
<1>0. /\ pc = "start" /\ windows = <<>> /\ UNCHANGED <<clock, feed, windows, openWitness, checkpoints>>
      /\ IF Enabled THEN Ask(Run, OpenSubject) /\ pc' = "open" ELSE UNCHANGED feedVars /\ pc' = "read"
  BY DEF Start, Ask, feedVars, StageInv, HeldInv
<1>1. \A subject : Asked(subject) => Asked(subject)'
  BY <1>0, AskedThrough DEF PcState
<1>2. Asked(OpenSubject)
  <2>1. 0 \in 0..Len(windows)
    BY <1>0
  <2> QED
    BY <2>1, StagesNamed DEF Asked
<1>3. \A q \in requests' : q \in requests \/ Asked(q.subject)'
  BY <1>0, <1>1, <1>2, AskedNow DEF feedVars
<1>4. Enabled => \A i \in 0..(Len(windows') - 1) : CoSigned(StageOf(i))
  BY <1>0 DEF StreamInv
<1> QED
  BY <1>0, <1>1, <1>3, <1>4, RunAdvances DEF StreamInv, PcState

LEMMA FailureKeepsStream ==
  ASSUME StageInv, StreamInv, QuorumShort \/ RunFails
  PROVE  StreamInv'
<1>0. /\ pc' = "failed" /\ UNCHANGED <<clock, feed, requests, windows, openWitness, checkpoints>>
  BY DEF QuorumShort, RunFails, Returned, feedVars
<1>1. \A subject : Asked(subject) => Asked(subject)'
  BY <1>0, AskedThrough DEF PcState
<1> QED
  BY <1>0, <1>1, RunAdvances DEF StreamInv, PcState

LEMMA OpenKeepsStream ==
  ASSUME StageInv, StreamInv, OpenWitnessed
  PROVE  StreamInv'
<1>0. /\ pc = "open" /\ pc' = "read" /\ UNCHANGED <<clock, feed, requests, windows, checkpoints>>
      /\ windows = <<>> /\ Returned(Run) /\ QuorumReached(Run)
  BY QuorumHolds DEF OpenWitnessed, Returned, StageInv, HeldInv
<1>1. \A subject : Asked(subject) => Asked(subject)'
  BY <1>0, AskedThrough DEF PcState
<1>2. AwaitedSubject = OpenSubject
  BY <1>0 DEF AwaitedSubject
<1>3. CoSigned(OpenSubject)
  BY <1>0, <1>2, QuorumHolds, QuorumCoSigns
<1>4. Len(windows') = 0 /\ CoSigned(StageOf(Len(windows')))
  BY <1>0, <1>3, StagesNamed
<1> QED
  BY <1>0, <1>1, <1>4, RunAdvances DEF StreamInv, PcState

LEMMA ReadKeepsStream ==
  ASSUME StageInv, StreamInv, ReadBlock
  PROVE  StreamInv'
<1> DEFINE n == Len(windows)
<1>0. /\ pc = "read" /\ UNCHANGED <<clock, feed, openWitness, checkpoints>>
      /\ windows' = Append(windows, BatchTrials)
      /\ IF Enabled THEN Ask(Run, CheckpointSubject(n + 1)) /\ pc' = "checkpoint"
         ELSE UNCHANGED feedVars /\ pc' = "read"
  BY DEF ReadBlock, Ask, feedVars
<1>1. n \in Nat /\ Len(windows') = n + 1 /\ Len(checkpoints) <= n /\ Len(checkpoints) \in Nat
  BY <1>0, AppendOwn DEF StageInv, HeldInv, StreamInv
<1>2. \A subject : Asked(subject) => Asked(subject)'
  BY <1>0, <1>1, AskedThrough DEF PcState
<1>3. ASSUME NEW subject, subject = CheckpointSubject(n + 1)
      PROVE  Asked(subject)'
  <2>1. PICK i : i = n + 1 /\ i \in 0..Len(windows')
    BY <1>1
  <2>2. subject = StageOf(i)
    BY <1>1, <1>3, <2>1, StagesNamed
  <2>3. subject = StageOf(i)'
    BY <2>2, StagesNamed
  <2> QED
    BY <2>1, <2>3 DEF Asked
<1>4. \A q \in requests' : q \in requests \/ Asked(q.subject)'
  <2>1. CASE Enabled
    <3>1. \A q \in requests' : q \in requests \/ q.subject = CheckpointSubject(n + 1)
      BY <1>0, <2>1, AskedNow
    <3> QED
      BY <1>3, <3>1
  <2>2. CASE ~Enabled
    BY <1>0, <2>2 DEF feedVars
  <2> QED
    BY <2>1, <2>2
<1>5. Enabled => Quorate(openWitness')
  BY <1>0 DEF StageInv, HeldInv
<1>6. Enabled => \A i \in 0..n : CoSigned(StageOf(i))
  <2>1. \A i \in 0..n : i = n \/ i \in 0..(n - 1)
    BY <1>1
  <2> QED
    BY <1>0, <2>1 DEF StreamInv
<1> QED
  BY <1>0, <1>1, <1>2, <1>4, <1>5, <1>6, RunAdvances DEF PcState

LEMMA CheckpointKeepsStream ==
  ASSUME StageInv, StreamInv, CheckpointWitnessed
  PROVE  StreamInv'
<1>0. /\ pc = "checkpoint" /\ pc' = "read" /\ UNCHANGED <<clock, feed, requests, windows, openWitness>>
      /\ checkpoints' = Append(checkpoints, asks[Run].got) /\ Len(checkpoints) + 1 = Len(windows)
      /\ Returned(Run) /\ QuorumReached(Run)
  BY QuorumHolds DEF CheckpointWitnessed, Returned, StageInv, HeldInv
<1>1. Len(checkpoints') = Len(windows) /\ Len(windows) \in Nat /\ Len(windows) # 0
  BY <1>0, AppendOwn DEF StageInv, HeldInv
<1>2. \A subject : Asked(subject) => Asked(subject)'
  BY <1>0, AskedThrough DEF PcState
<1>3. AwaitedSubject = StageOf(Len(windows))
  BY <1>0, <1>1 DEF AwaitedSubject, StageOf
<1>4. CoSigned(StageOf(Len(windows)))
  BY <1>0, <1>3, QuorumHolds, QuorumCoSigns
<1> QED
  BY <1>0, <1>1, <1>2, <1>4, RunAdvances DEF StreamInv, PcState

LEMMA AskSealKeepsStream ==
  ASSUME StageInv, BlobInv, StreamInv, AskSeal
  PROVE  StreamInv'
<1>0. /\ pc = "read" /\ UNCHANGED <<clock, feed, windows, openWitness, checkpoints>>
      /\ Len(windows) = NumWindows
      /\ IF Enabled THEN Ask(Run, SealSubject) /\ pc' = "seal" ELSE UNCHANGED feedVars /\ pc' = "sealed"
  BY AllRead DEF AskSeal, Ask, feedVars
<1>1. \A subject : Asked(subject) => Asked(subject)'
  BY <1>0, AskedThrough DEF PcState
<1>2. Enabled => Asked(SealSubject)'
  <2>1. Enabled => CoSigned(StageOf(NumWindows))
    BY <1>0 DEF StreamInv
  <2>2. Enabled => CoSigned(StageOf(NumWindows))'
    BY <1>0, <2>1 DEF StageOf, OpenSubject, CheckpointSubject, Subject, NumWindows, CoSigned, CoSigners, Entries
  <2>3. SealSubject' = SealSubject /\ NumWindows' = NumWindows
    BY <1>0 DEF SealSubject, Subject, NumWindows
  <2> QED
    BY <1>0, <2>2, <2>3 DEF Asked
<1>3. \A q \in requests' : q \in requests \/ Asked(q.subject)'
  <2>1. SealSubject' = SealSubject
    BY <1>0 DEF SealSubject, Subject
  <2> QED
    BY <1>0, <1>2, <2>1, AskedNow DEF feedVars
<1> QED
  BY <1>0, <1>1, <1>3, RunAdvances DEF StreamInv, PcState

LEMMA SealKeepsStream ==
  ASSUME StageInv, StreamInv, SealWitnessed
  PROVE  StreamInv'
<1>0. /\ pc = "seal" /\ pc' \in {"sealed", "failed"}
      /\ UNCHANGED <<clock, feed, requests, windows, openWitness, checkpoints>>
      /\ Returned(Run) /\ QuorumReached(Run)
  BY QuorumHolds DEF SealWitnessed, Returned
<1>1. \A subject : Asked(subject) => Asked(subject)'
  BY <1>0, AskedThrough DEF PcState
<1>2. AwaitedSubject = SealSubject
  BY <1>0 DEF AwaitedSubject
<1>3. CoSigned(SealSubject)
  BY <1>0, <1>2, QuorumHolds, QuorumCoSigns
<1> QED
  BY <1>0, <1>1, <1>3, RunAdvances DEF StreamInv, PcState

RunOfRecord == StreamInv /\ BlobInv /\ StageInv /\ FeedInv

LEMMA StreamInvAlways == Spec => []RunOfRecord
<1>1. Init => StreamInv
  <2>1. SUFFICES ASSUME Init
                 PROVE  StreamInv
    OBVIOUS
  <2>2. /\ clock = 0 /\ pc = "start" /\ windows = <<>> /\ checkpoints = <<>> /\ requests = {}
        /\ \A w \in Witness : Entries(w) = {}
    BY <2>1 DEF Init, FeedInit, Entries
  <2>3. Len(windows) = 0
    BY <2>2
  <2> QED
    BY <2>2, <2>3, WitnessAssumption DEF StreamInv, PcState
<1>2. StreamInv /\ BlobInv /\ StageInv /\ FeedInv /\ [Next]_vars => StreamInv'
  <2>1. ASSUME StreamInv, BlobInv, StageInv, RunStep
        PROVE  StreamInv'
    BY <2>1, StartKeepsStream, FailureKeepsStream, OpenKeepsStream, ReadKeepsStream,
       CheckpointKeepsStream, AskSealKeepsStream, SealKeepsStream DEF RunStep
  <2> QED
    BY <2>1, WitnessesKeepStream DEF Next, vars
<1> QED
  BY <1>1, <1>2, BlobInvAlways, PTL DEF Spec, RunOfRecord

-----------------------------------------------------------------------------
(* What the invariants say.                                                  *)

LEMMA RunOfRecordTypes == RunOfRecord => TypeOK
<1> SUFFICES ASSUME RunOfRecord
             PROVE  TypeOK
  OBVIOUS
<1> USE DEF RunOfRecord
<1>1. clock \in 0..MaxRound
  BY WitnessAssumption DEF StageInv, HeldInv, StreamInv
<1>2. \A subject : Asked(subject) => subject.kind \in WitnessSubjectKind
  BY StagesNamed DEF Asked
<1>3. \A w \in Witness : feedHead[w].seq \in Nat /\ \A att \in Entries(w) : att.seq \in Nat \ {0}
  BY DEF FeedInv, HeadFits
<1>4. \A w \in Witness : \A att \in Entries(w) : att.witness = w /\ IsAttestation(att)
  BY <1>2, <1>3 DEF StreamInv, IsAttestation
<1>5. \A q \in requests : /\ q.asker \in Asker /\ q.url \in Url /\ q.since \in 0..clock
                          /\ q.live => asks[q.asker].on /\ q.url \in asks[q.asker].waiting
  BY <1>1, RunIsAsker DEF StageInv, CallInv, RequestType, Current
<1>6. \A a \in Asker : asks[a].waiting \subseteq Url
  BY DEF StageInv, CallInv, CallType
<1>7. windows \in Seq(1..CheckpointEvery)
  BY WindowsRead
<1>8. \A i \in DOMAIN checkpoints : \A att \in checkpoints[i] : IsAttestation(att)
  BY <1>4 DEF StageInv, HeldInv, StageHolds
<1> QED
  BY <1>1, <1>3, <1>4, <1>5, <1>6, <1>7, <1>8 DEF TypeOK, StreamInv

\* What the feeds and the session hold are attestations of rounds that the beacon
\* has published, a call waits for configured urls only, and no window is longer
\* than checkpointEveryTrials.
THEOREM MicroPkTypes == Spec => []TypeOK
BY StreamInvAlways, RunOfRecordTypes, PTL

LEMMA DropsFlagged == RunOfRecord => DropsAreFlagged
<1> SUFFICES ASSUME RunOfRecord, pc = "failed", windows # <<>>, Enabled
             PROVE  Cardinality({w \in Witness : FlaggedBy(w)}) >= Threshold
  BY DEF DropsAreFlagged
<1> DEFINE flagged == {w \in Witness : FlaggedBy(w)}
           signed == {att.witness : att \in openWitness}
<1>1. Quorate(openWitness) /\ StageHolds(openWitness, OpenSubject)
  BY DEF RunOfRecord, StreamInv, StageInv, HeldInv
<1>2. OpenSubject.kind = "open"
  BY DEF OpenSubject, Subject
<1>3. signed \subseteq flagged
  BY <1>1, <1>2 DEF StageHolds, FlaggedBy
<1>4. flagged \subseteq Witness /\ IsFiniteSet(Witness)
  BY WitnessAssumption
<1>5. IsFiniteSet(flagged)
  BY <1>4, FS_Subset
<1>6. Cardinality(signed) >= Threshold
  BY <1>1 DEF Quorate
<1> HIDE DEF flagged, signed
<1> QED
  BY <1>3, <1>5, <1>6, CountGrows, ThresholdIsNat DEF flagged

\* PSI-WITNESS: whenever a run that read anything of its stream is dropped, by a
\* fault or on purpose, a quorum of witnesses has its open and no seal for it.
THEOREM DropsAlwaysFlagged == Spec => []DropsAreFlagged
BY StreamInvAlways, DropsFlagged, PTL

\* What is sealed is what was read: all trials, in the windows of the split.
LEMMA SealedWindows ==
  ASSUME RunOfRecord, pc = "sealed"
  PROVE  /\ seal = Payload(seal.sealWitness)
         /\ trial = TrialsPerSession
         /\ windows = Split(TrialsPerSession, CheckpointEvery)
         /\ Len(windows) = NumWindows
<1> USE DEF RunOfRecord
<1>1. seal = Payload(seal.sealWitness) /\ trial >= TrialsPerSession
  BY DEF BlobInv
<1>2. Len(windows) = NumWindows /\ NumWindows \in Nat
  BY <1>1, AllRead, EnoughWindows
<1>3. trial = TrialsPerSession
  <2>1. NumWindows * CheckpointEvery \in Int /\ TrialsPerSession \in Nat
    BY <1>2, WindowsToCome, MicroPkAssumption
  <2> QED
    BY <1>1, <1>2, <2>1 DEF BlobInv
<1>4. windows = [i \in 1..NumWindows |-> Split(TrialsPerSession, CheckpointEvery)[i]]
  BY <1>2, WindowsRead DEF BlobInv
<1> QED
  BY <1>1, <1>2, <1>3, <1>4, SplitsInWindows

LEMMA KeysMonotone ==
  ASSUME NEW keys, keys \subseteq Witness, NEW stage, Quorate(stage),
         {att.witness : att \in stage} \subseteq keys
  PROVE  Cardinality(keys) >= Threshold
<1>1. IsFiniteSet(keys)
  BY WitnessAssumption, FS_Subset
<1>2. Cardinality({att.witness : att \in stage}) >= Threshold
  BY DEF Quorate
<1> QED
  BY <1>1, <1>2, CountGrows, ThresholdIsNat

\* A quorum is somebody.
LEMMA QuorumIsSomebody ==
  ASSUME NEW stage, Enabled, Quorate(stage)
  PROVE  {att.witness : att \in stage} # {}
BY FS_EmptySet, ThresholdIsNat DEF Quorate

LEMMA SealedVerifies == RunOfRecord => SealedPassesVerify
<1> SUFFICES ASSUME RunOfRecord, pc = "sealed", Enabled
             PROVE  /\ seal.samples = TrialsPerSession
                    /\ BrowserAccepts
                    /\ AnalyzerAccepts
                    /\ seal.keys = DistinctKeys
                    /\ LET verified == UNION {SealedStages[i] : i \in DOMAIN SealedStages}
                       IN \A trusted \in SUBSET Witness : \A k \in 1..Cardinality(Witness) :
                            WitnessQuorum(verified, trusted, k) =>
                              Cardinality({w \in trusted : \E att \in Entries(w) : att \in verified}) >= k
  BY DEF SealedPassesVerify
<1> DEFINE n == Len(checkpoints)
<1>1. /\ seal = Payload(seal.sealWitness) /\ trial = TrialsPerSession
      /\ windows = Split(TrialsPerSession, CheckpointEvery) /\ Len(windows) = NumWindows
  BY SealedWindows
<1>2. /\ seal.samples = TrialsPerSession /\ seal.leaf = CheckpointEvery
      /\ seal.openWitness = openWitness /\ seal.checkpoints = checkpoints
      /\ seal.keys = KeysOf(openWitness \cup seal.sealWitness \cup
                            UNION {checkpoints[i] : i \in DOMAIN checkpoints})
  BY <1>1 DEF Payload
<1>3. /\ StageHolds(openWitness, OpenSubject) /\ StageHolds(seal.sealWitness, SealSubject)
      /\ \A i \in DOMAIN checkpoints : StageHolds(checkpoints[i], CheckpointSubject(i))
      /\ Quorate(openWitness) /\ Quorate(seal.sealWitness)
      /\ n = NumWindows
  BY <1>1 DEF RunOfRecord, StageInv, HeldInv, SealInv
<1>4. /\ OpenCheck.distinct = KeysOf(openWitness) /\ OpenCheck.sigsOk
      /\ SealCheck.distinct = KeysOf(seal.sealWitness) /\ SealCheck.sigsOk
  BY <1>2, <1>3 DEF OpenCheck, SealCheck, VerifyAttestations, Signed, StageHolds, KeysOf
<1>5. \A i \in DOMAIN checkpoints :
        /\ CheckpointChecks[i].sigsOk
        /\ CheckpointChecks[i].distinct = KeysOf(checkpoints[i])
  BY <1>2, <1>3 DEF CheckpointChecks, VerifyAttestations, Signed, StageHolds, KeysOf
<1>6. SignaturesOk
  BY <1>2, <1>4, <1>5 DEF SignaturesOk
<1>7. DistinctKeys = KeysOf(openWitness) \cup KeysOf(seal.sealWitness) \cup
                     UNION {KeysOf(checkpoints[i]) : i \in DOMAIN checkpoints}
  BY <1>2, <1>4, <1>5 DEF DistinctKeys
<1>8. seal.keys = DistinctKeys
  BY <1>2, <1>7 DEF KeysOf
<1>9. DistinctKeys \subseteq Witness
  BY <1>3, <1>7 DEF KeysOf, StageHolds
<1>10. Cardinality(DistinctKeys) >= Threshold
  <2>1. {att.witness : att \in openWitness} \subseteq DistinctKeys
    BY <1>7 DEF KeysOf
  <2> QED
    BY <1>3, <1>9, <2>1, KeysMonotone
<1>11. BrowserAccepts
  <2>1. seal.checkpoints # <<>>
    BY <1>2, <1>3, EnoughWindows
  <2>2. OpenCheck.distinct # {} /\ SealCheck.distinct # {}
    BY <1>3, <1>4, QuorumIsSomebody DEF KeysOf
  <2> QED
    BY <1>6, <1>10, <2>1, <2>2 DEF BrowserAccepts
<1>12. AnalyzerAccepts
  BY <1>1, <1>2, <1>6, <1>10 DEF AnalyzerAccepts, RootsRederive
<1>13. ASSUME NEW trusted \in SUBSET Witness, NEW k \in 1..Cardinality(Witness), NEW verified,
              \A att \in verified : att \in Entries(att.witness),
              WitnessQuorum(verified, trusted, k)
       PROVE  Cardinality({w \in trusted : \E att \in Entries(w) : att \in verified}) >= k
  <2> DEFINE keys == {att.witness : att \in verified} \cap trusted
             feeds == {w \in trusted : \E att \in Entries(w) : att \in verified}
  <2>1. keys \subseteq feeds
    BY <1>13
  <2>2. feeds \subseteq Witness /\ IsFiniteSet(Witness)
    BY WitnessAssumption
  <2>3. IsFiniteSet(feeds) /\ Cardinality(Witness) \in Nat
    BY <2>2, FS_Subset, FS_CardinalityType
  <2>4. Cardinality(keys) >= k
    BY <1>13 DEF WitnessQuorum
  <2> HIDE DEF keys, feeds
  <2>5. Cardinality(keys) \in Nat /\ Cardinality(feeds) \in Nat /\ Cardinality(keys) <= Cardinality(feeds)
    BY <2>1, <2>3, CountGrows
  <2>6. Cardinality(feeds) >= k
    BY <2>3, <2>4, <2>5
  <2> QED
    BY <2>6 DEF feeds
<1>14. \A i \in DOMAIN SealedStages : \A att \in SealedStages[i] : att \in Entries(att.witness)
  BY StageInvSuffices DEF RunOfRecord, SealMatchesFeeds
<1> QED
  BY <1>2, <1>8, <1>11, <1>12, <1>13, <1>14

\* PSI-VERIFY: whatever is sealed among witnesses is the whole session, cut into
\* the windows that were committed, and it passes the browser, the analyzer and
\* any auditor's policy that trusts witnesses of its own choice.
THEOREM SealedAlwaysVerifies == Spec => []SealedPassesVerify
BY StreamInvAlways, SealedVerifies, PTL

-----------------------------------------------------------------------------
(* The run among its witnesses implements CosignedStream.                    *)

\* What nobody was asked for has no quorum.
LEMMA UnaskedIsUnsigned ==
  ASSUME StreamInv, Enabled, NEW subject, ~Asked(subject)
  PROVE  ~CoSigned(subject)
<1>1. CoSigners(subject) = {}
  BY DEF StreamInv, CoSigners
<1> QED
  BY <1>1, FS_EmptySet, ThresholdIsNat DEF CoSigned

\* How far the witnesses are: at the stage of the last window, past it, or
\* through with the seal too.
Progress ==
  /\ CoSigned(SealSubject) => CoSigned(StageOf(Len(windows))) /\ Len(windows) = NumWindows
  /\ CoSignedStages = IF CoSigned(SealSubject) THEN Len(windows) + 2
                      ELSE IF CoSigned(StageOf(Len(windows))) THEN Len(windows) + 1
                      ELSE Len(windows)

LEMMA ProgressHolds == Enabled /\ RunOfRecord => Progress
<1> SUFFICES ASSUME Enabled, RunOfRecord
             PROVE  Progress
  OBVIOUS
<1> DEFINE n == Len(windows)
           prefix == {k \in 0..(n + 1) : \A i \in 0..(k-1) : CoSigned(StageOf(i))}
           m == CHOOSE k \in prefix : \A j \in prefix : j <= k
<1>0. n \in Nat
  BY WindowsRead DEF RunOfRecord
<1>1. CoSigned(SealSubject) => CoSigned(StageOf(n)) /\ n = NumWindows
  BY UnaskedIsUnsigned, StagesNamed DEF RunOfRecord, Asked
<1>2. \A i \in 0..(n - 1) : CoSigned(StageOf(i))
  BY DEF RunOfRecord, StreamInv
<1>3. CoSignedStages = IF CoSigned(SealSubject) THEN m + 1 ELSE m
  BY DEF CoSignedStages
<1> HIDE DEF n
<1>4. CASE CoSigned(StageOf(n))
  <2>1. \A i \in 0..n : i = n \/ i \in 0..(n - 1)
    BY <1>0
  <2>2. n + 1 \in prefix /\ \A j \in prefix : j <= n + 1
    BY <1>0, <1>2, <1>4, <2>1
  <2> HIDE DEF prefix
  <2>3. m \in prefix /\ \A j \in prefix : j <= m
    BY <2>2
  <2>4. m \in Nat
    BY <1>0, <2>3 DEF prefix
  <2>5. m = n + 1
    BY <1>0, <2>2, <2>3, <2>4
  <2> HIDE DEF m
  <2> QED
    BY <1>0, <1>1, <1>3, <1>4, <2>5 DEF Progress, n
<1>5. CASE ~CoSigned(StageOf(n))
  <2>1. n \in prefix
    BY <1>0, <1>2
  <2>2. \A j \in prefix : j <= n
    <3>1. n + 1 \notin prefix
      BY <1>0, <1>5
    <3>2. \A j \in prefix : j \in 0..(n + 1) /\ j # n + 1
      BY <3>1
    <3> HIDE DEF prefix
    <3> QED
      BY <1>0, <3>2
  <2> HIDE DEF prefix
  <2>3. m \in prefix /\ \A j \in prefix : j <= m
    BY <2>1, <2>2
  <2>4. m \in Nat
    BY <1>0, <2>3 DEF prefix
  <2>5. m = n
    BY <1>0, <2>1, <2>2, <2>3, <2>4
  <2> HIDE DEF m
  <2> QED
    BY <1>0, <1>1, <1>3, <1>5, <2>5 DEF Progress, n
<1> QED
  BY <1>4, <1>5

\* One witness at a time: the last stage and the seal never get their quorums in
\* one step.
LEMMA WitnessesCosign ==
  ASSUME Enabled, RunOfRecord, Progress, Progress', UNCHANGED runVars,
         WitnessStep \/ UNCHANGED feedVars
  PROVE  [Stream!Cosign]_Stream!vars
<1> DEFINE n == Len(windows)
           last == CoSigned(StageOf(n))
           whole == CoSigned(SealSubject)
<1>0. /\ n \in Nat /\ NumWindows \in Nat /\ n <= NumWindows
      /\ pc' = pc /\ windows' = windows
      /\ \A w \in Witness : Entries(w) \subseteq Entries(w)'
  BY WindowsRead, EnoughWindows, EntriesGrow DEF RunOfRecord, BlobInv, runVars, feedVars, Entries
<1>1. last => last'
  <2>1. PICK stage : stage = StageOf(n) /\ stage = (StageOf(n))'
    BY <1>0 DEF StageOf, OpenSubject, CheckpointSubject, Subject
  <2>2. CoSigned(stage) => CoSigned(stage)'
    BY <1>0, CoSignedStays
  <2> QED
    BY <2>1, <2>2 DEF CoSigned, CoSigners
<1>2. whole => whole'
  <2>1. PICK stage : stage = SealSubject /\ stage = SealSubject'
    BY <1>0 DEF SealSubject, Subject
  <2>2. CoSigned(stage) => CoSigned(stage)'
    BY <1>0, CoSignedStays
  <2> QED
    BY <2>1, <2>2 DEF CoSigned, CoSigners
<1>3. ~last => ~whole'
  <2>1. SUFFICES ASSUME ~last
                 PROVE  ~whole'
    OBVIOUS
  <2>2. ~Asked(SealSubject)
    BY <2>1, StagesNamed DEF Asked
  <2>3. \A w \in Witness : \A att \in Entries(w)' : Asked(att.subject)
    BY OnlyAskedIsSigned DEF RunOfRecord, StreamInv, feedVars, Entries
  <2>4. SealSubject' = SealSubject
    BY <1>0 DEF SealSubject, Subject
  <2>5. CoSigners(SealSubject)' = {}
    BY <2>2, <2>3, <2>4 DEF CoSigners
  <2> QED
    BY <2>5, FS_EmptySet, ThresholdIsNat DEF CoSigned
<1>4. /\ CoSignedStages = IF whole THEN n + 2 ELSE IF last THEN n + 1 ELSE n
      /\ CoSignedStages' = IF whole' THEN n + 2 ELSE IF last' THEN n + 1 ELSE n
      /\ whole => last /\ n = NumWindows
      /\ whole' => last' /\ n = NumWindows
  BY <1>0 DEF Progress, NumWindows
<1>5. Stream!Stages = NumWindows + 2
  BY DEF Stream!Stages
<1>6. Len(windows') = n /\ (pc' = "sealed") = (pc = "sealed")
  BY <1>0
<1> HIDE DEF n, last, whole
<1>7. \/ CoSignedStages' = CoSignedStages
      \/ /\ CoSignedStages <= n \/ n = NumWindows
         /\ CoSignedStages < NumWindows + 2
         /\ CoSignedStages' = CoSignedStages + 1
  BY <1>0, <1>1, <1>2, <1>3, <1>4
<1> QED
  BY <1>5, <1>6, <1>7 DEF Stream!Cosign, Stream!vars, n

LEMMA RunImplements ==
  ASSUME Enabled, RunOfRecord, RunOfRecord', Progress, Progress', RunStep
  PROVE  [Stream!Next]_Stream!vars
<1> DEFINE n == Len(windows)
<1>0. /\ n \in Nat /\ NumWindows \in Nat /\ n <= NumWindows
      /\ UNCHANGED feed
  BY WindowsRead, EnoughWindows, QuorumHolds
     DEF RunOfRecord, BlobInv, RunStep, Start, QuorumShort, OpenWitnessed, ReadBlock, CheckpointWitnessed,
         RunFails, AskSeal, SealWitnessed, Ask, Returned, feedVars
<1>1. \A subject : CoSigned(subject)' <=> CoSigned(subject)
  BY <1>0, CoSignedSame
<1>2. ASSUME UNCHANGED windows
      PROVE  CoSignedStages' = CoSignedStages
  <2>1. (CoSigned(SealSubject))' <=> CoSigned(SealSubject)
    BY <1>0, <1>2 DEF SealSubject, Subject, CoSigned, CoSigners, Entries
  <2>2. (CoSigned(StageOf(Len(windows))))' <=> CoSigned(StageOf(Len(windows)))
    BY <1>0, <1>2 DEF StageOf, OpenSubject, CheckpointSubject, Subject, CoSigned, CoSigners, Entries
  <2> QED
    BY <1>2, <2>1, <2>2 DEF Progress
<1>3. CASE Start \/ QuorumShort \/ OpenWitnessed \/ CheckpointWitnessed \/ RunFails \/ AskSeal
  <2>1. UNCHANGED windows /\ pc # "sealed" /\ pc' # "sealed"
    BY <1>3 DEF Start, QuorumShort, OpenWitnessed, CheckpointWitnessed, RunFails, AskSeal
  <2> QED
    BY <1>2, <2>1 DEF Stream!vars
<1>4. CASE ReadBlock
  <2>1. /\ pc = "read" /\ pc' = "checkpoint" /\ Len(windows') = n + 1
    BY <1>4, AppendOwn DEF ReadBlock, RunOfRecord, StageInv, HeldInv
  <2>2. n + 1 <= NumWindows
    BY <2>1 DEF RunOfRecord, BlobInv, NumWindows
  <2>3. CoSignedStages = n + 1
    BY <1>0, <2>1, <2>2 DEF Progress, RunOfRecord, StreamInv
  <2>4. ~Asked(StageOf(n + 1))
    BY <1>0, <2>1, StagesNamed DEF Asked
  <2>5. ~(CoSigned(StageOf(Len(windows))))'
    <3>1. ~CoSigned(StageOf(n + 1))
      BY <2>4, UnaskedIsUnsigned DEF RunOfRecord
    <3>2. PICK stage : stage = StageOf(n + 1) /\ stage = (StageOf(Len(windows)))'
      BY <2>1 DEF StageOf, OpenSubject, CheckpointSubject, Subject
    <3>3. ~CoSigned(stage)'
      BY <1>1, <3>1, <3>2
    <3> QED
      BY <3>2, <3>3 DEF CoSigned, CoSigners
  <2>6. CoSignedStages' = n + 1
    BY <2>1, <2>5 DEF Progress
  <2> QED
    BY <1>0, <2>1, <2>2, <2>3, <2>6 DEF Stream!Next, Stream!Generate
<1>5. CASE SealWitnessed
  <2>1. UNCHANGED windows /\ pc = "seal" /\ pc' \in {"sealed", "failed"}
    BY <1>5 DEF SealWitnessed
  <2>2. CASE pc' = "failed"
    BY <1>2, <2>1, <2>2 DEF Stream!vars
  <2>3. CASE pc' = "sealed"
    <3>1. (CoSigned(SealSubject))' /\ Len(windows) = NumWindows
      BY <2>1, <2>3, AllRead DEF RunOfRecord, BlobInv, StreamInv, Enabled
    <3>2. CoSignedStages' = Len(windows') + 2
      BY <3>1 DEF Progress
    <3>3. CoSignedStages = NumWindows + 2
      BY <1>2, <2>1, <3>1, <3>2
    <3> QED
      BY <1>2, <2>1, <2>3, <3>3 DEF Stream!Next, Stream!Seal, Stream!Stages
  <2> QED
    BY <2>1, <2>2, <2>3
<1> QED
  BY <1>3, <1>4, <1>5 DEF RunStep

\* PSI-WITNESS-3, as CosignedStream states it: with witnesses configured, however
\* they answer, fail and restart, no window is generated before a quorum of the
\* feeds holds every stage so far, and nothing is sealed before they hold them all.
THEOREM MicroPkImplementsStream ==
  ASSUME Enabled
  PROVE  Spec => ImplementsCosignedStream
<1>1. Init => Stream!Init
  <2>1. SUFFICES ASSUME Init
                 PROVE  Stream!Init
    OBVIOUS
  <2>2. /\ pc = "start" /\ Len(windows) = 0
        /\ \A w \in Witness : Entries(w) = {}
    BY <2>1 DEF Init, FeedInit, Entries
  <2>3. \A subject : ~CoSigned(subject)
    <3>1. \A subject : CoSigners(subject) = {}
      BY <2>2 DEF CoSigners
    <3> QED
      BY <3>1, FS_EmptySet, ThresholdIsNat DEF CoSigned
  <2>4. CoSignedStages = 0
    <3> DEFINE prefix == {k \in 0..(Len(windows) + 1) : \A i \in 0..(k-1) : CoSigned(StageOf(i))}
               m == CHOOSE k \in prefix : \A j \in prefix : j <= k
    <3>1. prefix = {0}
      BY <2>2, <2>3
    <3> HIDE DEF prefix
    <3>2. m = 0
      BY <3>1
    <3> QED
      BY <2>3, <3>2 DEF CoSignedStages, prefix
  <2> QED
    BY <2>2, <2>4 DEF Stream!Init
<1>2. /\ RunOfRecord /\ RunOfRecord' /\ Progress /\ Progress' /\ [Next]_vars
      => [Stream!Next]_Stream!vars
  <2>1. SUFFICES ASSUME RunOfRecord, RunOfRecord', Progress, Progress', [Next]_vars
                 PROVE  [Stream!Next]_Stream!vars
    OBVIOUS
  <2>2. CASE RunStep
    BY <2>1, <2>2, RunImplements
  <2>3. CASE UNCHANGED runVars /\ (WitnessStep \/ UNCHANGED feedVars)
    <3>1. [Stream!Cosign]_Stream!vars
      BY <2>1, <2>3, WitnessesCosign
    <3> QED
      BY <3>1 DEF Stream!Next
  <2> QED
    BY <2>1, <2>2, <2>3 DEF Next, vars
<1>3. RunOfRecord => Progress
  BY ProgressHolds
<1> QED
  BY <1>1, <1>2, <1>3, StreamInvAlways, PTL DEF Spec, ImplementsCosignedStream, Stream!Spec
=============================================================================

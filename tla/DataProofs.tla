----------------------------- MODULE DataProofs ------------------------------
(***************************************************************************)
(* Induction in the form that the provers can use, over a set in the place *)
(* of a predicate, and what it shows of the data: a sum over a finite set  *)
(* is the sum of its parts, in any order; and the Merkle root of a stream  *)
(* tells it apart from every other one, shorter ones included.             *)
(***************************************************************************)
EXTENDS Merkle, Functions, SequenceTheorems, FiniteSetTheorems, WellFoundedInduction, TLAPS

LEMMA LeastOf ==
  ASSUME NEW T \in SUBSET Nat, T # {}
  PROVE  \E m \in T : \A n \in T : m <= n
<1> DEFINE R == {ss \in Nat \X Nat : ss[1] < ss[2]}
<1>1. IsWellFoundedOn(R, Nat)
  BY NatLessThanWellFounded, Zenon DEF OpToRel
<1>2. \E m \in T : \A n \in T : ~ (<<n, m>> \in R)
  BY <1>1, WFMin
<1>3. ASSUME NEW m \in T, NEW n \in T, n < m
      PROVE  <<n, m>> \in R
  BY <1>3
<1> HIDE DEF R
<1>4. PICK m \in T : \A n \in T : ~(n < m)
  BY <1>2, <1>3
<1> QED
  BY <1>4

\* Induction over the naturals, for a set in the place of a predicate.
LEMMA NatSetInduction ==
  ASSUME NEW S, 0 \in S, \A n \in Nat : n \in S => n + 1 \in S
  PROVE  Nat \subseteq S
<1> DEFINE T == {n \in Nat : n \notin S}
<1> SUFFICES ASSUME T # {}
             PROVE  FALSE
  OBVIOUS
<1>1. PICK m \in T : \A n \in T : m <= n
  BY LeastOf
<1>2. m # 0 /\ m - 1 \in Nat /\ m - 1 \notin T
  BY <1>1
<1> QED
  BY <1>1, <1>2

-----------------------------------------------------------------------------
(* The sum of a function's values, in whatever order they are chosen.        *)

LEMMA SizeLess ==
  ASSUME NEW T, IsFiniteSet(T), NEW x \in T
  PROVE  /\ IsFiniteSet(T \ {x}) /\ Cardinality(T \ {x}) = Cardinality(T) - 1
         /\ Cardinality(T) \in Nat \ {0}
<1>1. /\ IsFiniteSet(T \ {x}) /\ Cardinality(T \ {x}) = Cardinality(T) - 1
      /\ Cardinality(T) \in Nat
  BY FS_RemoveElement, FS_CardinalityType
<1>2. Cardinality(T) # 0
  BY FS_EmptySet
<1> QED
  BY <1>1, <1>2

LEMMA SizeMore ==
  ASSUME NEW T, NEW n \in Nat, Cardinality(T) = n + 1
  PROVE  T # {}
BY FS_EmptySet

\* Induction over the subsets of a finite set, for a set in the place of a predicate.
LEMMA SubsetInduction ==
  ASSUME NEW S, IsFiniteSet(S), NEW P, {} \in P,
         \A T \in SUBSET S : \A x \in S \ T : T \in P => T \cup {x} \in P
  PROVE  SUBSET S \subseteq P
<1> DEFINE N == {n \in Nat : \A T \in SUBSET S : Cardinality(T) = n => T \in P}
<1>1. \A T \in SUBSET S : IsFiniteSet(T) /\ Cardinality(T) \in Nat
  BY FS_Subset, FS_CardinalityType
<1>2. 0 \in N
  BY <1>1, FS_EmptySet
<1>3. ASSUME NEW n \in Nat, n \in N
      PROVE  n + 1 \in N
  <2> SUFFICES ASSUME NEW T \in SUBSET S, Cardinality(T) = n + 1
               PROVE  T \in P
    OBVIOUS
  <2>1. T # {}
    BY SizeMore
  <2>2. PICK x \in T : TRUE
    BY <2>1
  <2>3. Cardinality(T \ {x}) = n
    BY <1>1, SizeLess
  <2>4. T \ {x} \in P
    BY <1>3, <2>3
  <2>5. (T \ {x}) \cup {x} \in P
    BY <2>4
  <2> QED
    BY <2>5
<1>4. Nat \subseteq N
  <2> HIDE DEF N
  <2> QED
    BY <1>2, <1>3, NatSetInduction
<1> QED
  BY <1>1, <1>4

Pick(s) == CHOOSE x \in s : TRUE

IsFold(g, f, D) ==
  g = [s \in D |-> IF s = {} THEN 0 ELSE f[Pick(s)] + g[s \ {Pick(s)}]]

Sigma(f, S) == FoldFunctionOnSet(+, 0, f, S)

LEMMA SigmaDef ==
  ASSUME NEW f, NEW S
  PROVE  Sigma(f, S) = (CHOOSE g : IsFold(g, f, SUBSET S))[S]
BY DEF Sigma, FoldFunctionOnSet, MapThenFoldSet, IsFold, Pick

LEMMA PickIn ==
  ASSUME NEW s, s # {}
  PROVE  Pick(s) \in s
BY DEF Pick

LEMMA FoldExists ==
  ASSUME NEW f, NEW S, IsFiniteSet(S)
  PROVE  \E g : IsFold(g, f, SUBSET S)
<1> DEFINE D(n) == {t \in SUBSET S : Cardinality(t) <= n}
           N == {n \in Nat : \E g : IsFold(g, f, D(n))}
<1>1. \A t \in SUBSET S : IsFiniteSet(t) /\ Cardinality(t) \in Nat
  BY FS_Subset, FS_CardinalityType
<1>2. 0 \in N
  <2>1. \A t \in D(0) : t = {}
    BY <1>1, FS_EmptySet
  <2>2. IsFold([s \in D(0) |-> 0], f, D(0))
    BY <2>1 DEF IsFold
  <2> QED
    BY <2>2
<1>3. ASSUME NEW n \in Nat, n \in N
      PROVE  n + 1 \in N
  <2>1. PICK g : IsFold(g, f, D(n))
    BY <1>3
  <2> DEFINE h == [s \in D(n + 1) |-> IF s = {} THEN 0 ELSE f[Pick(s)] + g[s \ {Pick(s)}]]
  <2>2. \A t \in D(n) : t \in D(n + 1)
    BY <1>1
  <2>3. \A t \in D(n) : h[t] = g[t]
    BY <2>1, <2>2 DEF IsFold
  <2>4. ASSUME NEW s \in D(n + 1), s # {}
        PROVE  s \ {Pick(s)} \in D(n)
    BY <1>1, <2>4, PickIn, SizeLess
  <2>5. \A s \in D(n + 1) : s # {} => h[s \ {Pick(s)}] = g[s \ {Pick(s)}]
    BY <2>3, <2>4
  <2>6. IsFold(h, f, D(n + 1))
    <3>1. \A s \in D(n + 1) :
             (IF s = {} THEN 0 ELSE f[Pick(s)] + g[s \ {Pick(s)}])
               = (IF s = {} THEN 0 ELSE f[Pick(s)] + h[s \ {Pick(s)}])
      BY <2>5
    <3>2. h = [s \in D(n + 1) |-> IF s = {} THEN 0 ELSE f[Pick(s)] + g[s \ {Pick(s)}]]
      OBVIOUS
    <3> HIDE DEF h
    <3>3. h = [s \in D(n + 1) |-> IF s = {} THEN 0 ELSE f[Pick(s)] + h[s \ {Pick(s)}]]
      BY <3>1, <3>2
    <3> QED
      BY <3>3 DEF IsFold
  <2> QED
    BY <2>6
<1>4. Cardinality(S) \in Nat /\ D(Cardinality(S)) = SUBSET S
  <2>1. \A t \in SUBSET S : Cardinality(t) <= Cardinality(S)
    BY FS_Subset
  <2> QED
    BY <2>1, FS_CardinalityType
<1>5. Cardinality(S) \in N
  <2> HIDE DEF N
  <2> QED
    BY <1>2, <1>3, <1>4, NatSetInduction
<1> QED
  BY <1>4, <1>5

LEMMA FoldsAgree ==
  ASSUME NEW f, NEW S, NEW T \in SUBSET S, IsFiniteSet(T), NEW g, NEW h,
         IsFold(g, f, SUBSET S), IsFold(h, f, SUBSET T)
  PROVE  g[T] = h[T]
<1> DEFINE N == {n \in Nat : \A t \in SUBSET T : Cardinality(t) = n => g[t] = h[t]}
<1>1. \A t \in SUBSET T : IsFiniteSet(t) /\ Cardinality(t) \in Nat
  BY FS_Subset, FS_CardinalityType
<1>2. \A t \in SUBSET T :
        /\ g[t] = (IF t = {} THEN 0 ELSE f[Pick(t)] + g[t \ {Pick(t)}])
        /\ h[t] = (IF t = {} THEN 0 ELSE f[Pick(t)] + h[t \ {Pick(t)}])
  BY DEF IsFold
<1>3. 0 \in N
  BY <1>1, <1>2, FS_EmptySet
<1>4. ASSUME NEW n \in Nat, n \in N
      PROVE  n + 1 \in N
  <2> SUFFICES ASSUME NEW t \in SUBSET T, Cardinality(t) = n + 1
               PROVE  g[t] = h[t]
    OBVIOUS
  <2>1. t # {}
    BY SizeMore
  <2>2. Cardinality(t \ {Pick(t)}) = n
    BY <1>1, <2>1, PickIn, SizeLess
  <2>3. g[t \ {Pick(t)}] = h[t \ {Pick(t)}]
    BY <1>4, <2>2
  <2> QED
    BY <1>2, <2>1, <2>3
<1>5. Cardinality(T) \in N
  <2> HIDE DEF N
  <2> QED
    BY <1>1, <1>3, <1>4, NatSetInduction
<1> QED
  BY <1>5

LEMMA SigmaNone ==
  ASSUME NEW f
  PROVE  Sigma(f, {}) = 0
<1>1. PICK g : g = (CHOOSE it : IsFold(it, f, SUBSET {}))
  OBVIOUS
<1>2. IsFold(g, f, SUBSET {})
  BY <1>1, FoldExists, FS_EmptySet
<1> QED
  BY <1>1, <1>2, SigmaDef DEF IsFold

LEMMA SigmaPick ==
  ASSUME NEW f, NEW S, IsFiniteSet(S), S # {}
  PROVE  Sigma(f, S) = f[Pick(S)] + Sigma(f, S \ {Pick(S)})
<1> DEFINE T == S \ {Pick(S)}
<1>1. IsFiniteSet(T) /\ T \in SUBSET S
  BY FS_Subset
<1>2. PICK g : g = (CHOOSE it : IsFold(it, f, SUBSET S))
  OBVIOUS
<1>3. PICK h : h = (CHOOSE it : IsFold(it, f, SUBSET T))
  OBVIOUS
<1>4. IsFold(g, f, SUBSET S) /\ IsFold(h, f, SUBSET T)
  BY <1>1, <1>2, <1>3, FoldExists
<1>5. g[T] = h[T]
  BY <1>1, <1>4, FoldsAgree
<1>6. g[S] = f[Pick(S)] + g[T]
  BY <1>4 DEF IsFold
<1> QED
  BY <1>2, <1>3, <1>5, <1>6, SigmaDef

LEMMA SigmaInt ==
  ASSUME NEW S, IsFiniteSet(S), NEW f, \A x \in S : f[x] \in Int
  PROVE  \A T \in SUBSET S : Sigma(f, T) \in Int
<1> DEFINE N == {n \in Nat : \A T \in SUBSET S : Cardinality(T) = n => Sigma(f, T) \in Int}
<1>1. \A T \in SUBSET S : IsFiniteSet(T) /\ Cardinality(T) \in Nat
  BY FS_Subset, FS_CardinalityType
<1>2. 0 \in N
  BY <1>1, SigmaNone, FS_EmptySet
<1>3. ASSUME NEW n \in Nat, n \in N
      PROVE  n + 1 \in N
  <2> SUFFICES ASSUME NEW T \in SUBSET S, Cardinality(T) = n + 1
               PROVE  Sigma(f, T) \in Int
    OBVIOUS
  <2>1. T # {} /\ IsFiniteSet(T)
    BY <1>1, SizeMore
  <2>2. Pick(T) \in T /\ Cardinality(T \ {Pick(T)}) = n
    BY <2>1, PickIn, SizeLess
  <2>3. Sigma(f, T \ {Pick(T)}) \in Int /\ f[Pick(T)] \in Int
    BY <1>3, <2>2
  <2> QED
    BY <2>1, <2>3, SigmaPick
<1>4. Nat \subseteq N
  <2> HIDE DEF N
  <2> QED
    BY <1>2, <1>3, NatSetInduction
<1> QED
  BY <1>1, <1>4

\* It does not matter which value comes first.
LEMMA SigmaTake ==
  ASSUME NEW S, IsFiniteSet(S), NEW f, \A x \in S : f[x] \in Int
  PROVE  \A T \in SUBSET S : \A x \in T : Sigma(f, T) = f[x] + Sigma(f, T \ {x})
<1> DEFINE Any(T) == \A x \in T : Sigma(f, T) = f[x] + Sigma(f, T \ {x})
           N == {n \in Nat : \A T \in SUBSET S : Cardinality(T) = n => Any(T)}
<1>1. \A T \in SUBSET S : IsFiniteSet(T) /\ Cardinality(T) \in Nat /\ Sigma(f, T) \in Int
  BY SigmaInt, FS_Subset, FS_CardinalityType
<1>2. 0 \in N
  BY <1>1, FS_EmptySet
<1>3. ASSUME NEW n \in Nat, n \in N
      PROVE  n + 1 \in N
  <2> SUFFICES ASSUME NEW T \in SUBSET S, Cardinality(T) = n + 1, NEW x \in T
               PROVE  Sigma(f, T) = f[x] + Sigma(f, T \ {x})
    OBVIOUS
  <2> DEFINE p == Pick(T)
  <2>1. p \in T /\ Sigma(f, T) = f[p] + Sigma(f, T \ {p})
    <3>1. T # {} /\ IsFiniteSet(T)
      BY <1>1
    <3> QED
      BY <3>1, PickIn, SigmaPick
  <2> HIDE DEF p
  <2>2. Cardinality(T \ {p}) = n /\ Cardinality(T \ {x}) = n
    <3>1. IsFiniteSet(T) /\ p \in T
      BY <1>1, <2>1
    <3> QED
      BY <3>1, SizeLess
  <2>3. CASE x # p
    <3>1. Sigma(f, T \ {p}) = f[x] + Sigma(f, (T \ {p}) \ {x})
      BY <1>3, <2>2, <2>3
    <3>2. Sigma(f, T \ {x}) = f[p] + Sigma(f, (T \ {x}) \ {p})
      BY <1>3, <2>1, <2>2, <2>3
    <3>3. (T \ {p}) \ {x} = (T \ {x}) \ {p}
      OBVIOUS
    <3>4. f[x] \in Int /\ f[p] \in Int /\ Sigma(f, (T \ {x}) \ {p}) \in Int
      BY <1>1, <2>1
    <3>5. Sigma(f, T) = f[p] + (f[x] + Sigma(f, (T \ {x}) \ {p}))
      BY <2>1, <3>1, <3>3
    <3>6. Sigma(f, T \ {x}) = f[p] + Sigma(f, (T \ {x}) \ {p})
      BY <3>2
    <3> QED
      BY <3>4, <3>5, <3>6
  <2> QED
    BY <2>1, <2>3
<1>4. Nat \subseteq N
  <2> HIDE DEF N
  <2> QED
    BY <1>2, <1>3, NatSetInduction
<1> QED
  BY <1>1, <1>4

LEMMA SigmaAdd ==
  ASSUME NEW S, IsFiniteSet(S), NEW x, x \notin S, NEW f, \A y \in S \cup {x} : f[y] \in Int
  PROVE  Sigma(f, S \cup {x}) = Sigma(f, S) + f[x]
<1> DEFINE T == S \cup {x}
<1>1. IsFiniteSet(T) /\ x \in T /\ T \ {x} = S
  BY FS_AddElement
<1>2. Sigma(f, T) = f[x] + Sigma(f, T \ {x})
  <2> HIDE DEF T
  <2>1. T \in SUBSET T
    OBVIOUS
  <2>2. \A y \in T : f[y] \in Int
    BY DEF T
  <2> QED
    BY <1>1, <2>1, <2>2, SigmaTake
<1>3. Sigma(f, S) \in Int /\ f[x] \in Int
  <2>1. S \in SUBSET S /\ \A y \in S : f[y] \in Int
    OBVIOUS
  <2> QED
    BY <2>1, SigmaInt
<1> HIDE DEF T
<1>4. Sigma(f, T) = f[x] + Sigma(f, S)
  BY <1>1, <1>2
<1>5. Sigma(f, T) = Sigma(f, S) + f[x]
  BY <1>3, <1>4
<1> QED
  BY <1>5 DEF T

\* Only the values count.
LEMMA SigmaSame ==
  ASSUME NEW S, IsFiniteSet(S), NEW f, NEW g, \A x \in S : f[x] \in Int /\ f[x] = g[x]
  PROVE  Sigma(f, S) = Sigma(g, S)
<1> DEFINE P == {T \in SUBSET S : Sigma(f, T) = Sigma(g, T)}
<1>1. {} \in P
  BY SigmaNone
<1>2. ASSUME NEW T \in SUBSET S, NEW x \in S \ T, T \in P
      PROVE  T \cup {x} \in P
  <2>1. /\ IsFiniteSet(T) /\ \A y \in T \cup {x} : f[y] \in Int
        /\ \A y \in T \cup {x} : g[y] \in Int
    BY FS_Subset
  <2>2. Sigma(f, T \cup {x}) = Sigma(f, T) + f[x]
    BY <2>1, SigmaAdd
  <2>3. Sigma(g, T \cup {x}) = Sigma(g, T) + g[x]
    BY <2>1, SigmaAdd
  <2> QED
    BY <1>2, <2>2, <2>3
<1>3. SUBSET S \subseteq P
  <2> HIDE DEF P
  <2> QED
    BY <1>1, <1>2, SubsetInduction
<1> QED
  BY <1>3

\* What is zero counts for nothing.
LEMMA SigmaRest ==
  ASSUME NEW S, IsFiniteSet(S), NEW f, \A x \in S : f[x] \in Int,
         NEW U \in SUBSET S, \A x \in S \ U : f[x] = 0
  PROVE  Sigma(f, S) = Sigma(f, U)
<1> DEFINE P == {T \in SUBSET S : Sigma(f, T) = Sigma(f, T \cap U)}
<1>1. {} \in P
  <2>1. {} \cap U = {}
    OBVIOUS
  <2> QED
    BY <2>1
<1>2. ASSUME NEW T \in SUBSET S, NEW x \in S \ T, T \in P
      PROVE  T \cup {x} \in P
  <2>1. /\ IsFiniteSet(T) /\ IsFiniteSet(T \cap U)
        /\ \A y \in T \cup {x} : f[y] \in Int
        /\ \A y \in (T \cap U) \cup {x} : f[y] \in Int
    BY FS_Subset
  <2>2. Sigma(f, T \cup {x}) = Sigma(f, T) + f[x] /\ Sigma(f, T) \in Int
    <3>1. T \in SUBSET S
      OBVIOUS
    <3>2. Sigma(f, T) \in Int
      BY <3>1, SigmaInt
    <3> QED
      BY <2>1, <3>2, SigmaAdd
  <2>3. CASE x \in U
    <3>1. (T \cup {x}) \cap U = (T \cap U) \cup {x} /\ x \notin T \cap U
      BY <2>3
    <3>2. Sigma(f, (T \cap U) \cup {x}) = Sigma(f, T \cap U) + f[x]
      BY <2>1, <3>1, SigmaAdd
    <3> QED
      BY <1>2, <2>2, <3>1, <3>2
  <2>4. CASE x \notin U
    <3>1. (T \cup {x}) \cap U = T \cap U /\ f[x] = 0
      BY <2>4
    <3>2. Sigma(f, T \cup {x}) = Sigma(f, T)
      BY <2>2, <3>1
    <3> QED
      BY <1>2, <3>1, <3>2
  <2> QED
    BY <2>3, <2>4
<1>3. SUBSET S \subseteq P
  <2> HIDE DEF P
  <2> QED
    BY <1>1, <1>2, SubsetInduction
<1>4. S \in P /\ S \cap U = U
  BY <1>3
<1> QED
  BY <1>4

LEMMA SizeIsSigma ==
  ASSUME NEW S, IsFiniteSet(S), NEW f, \A x \in S : f[x] = 1
  PROVE  Sigma(f, S) = Cardinality(S)
<1> DEFINE P == {T \in SUBSET S : Sigma(f, T) = Cardinality(T)}
<1>1. {} \in P
  BY SigmaNone, FS_EmptySet
<1>2. ASSUME NEW T \in SUBSET S, NEW x \in S \ T, T \in P
      PROVE  T \cup {x} \in P
  <2>1. IsFiniteSet(T) /\ \A y \in T \cup {x} : f[y] \in Int
    BY FS_Subset
  <2>2. Sigma(f, T \cup {x}) = Sigma(f, T) + 1
    <3>1. Sigma(f, T \cup {x}) = Sigma(f, T) + f[x]
      BY <2>1, SigmaAdd
    <3> QED
      BY <3>1
  <2>3. Cardinality(T \cup {x}) = Cardinality(T) + 1
    BY <2>1, FS_AddElement
  <2> QED
    BY <1>2, <2>2, <2>3
<1>3. SUBSET S \subseteq P
  <2> HIDE DEF P
  <2> QED
    BY <1>1, <1>2, SubsetInduction
<1> QED
  BY <1>3

Part(S, part, b) == {i \in S : part[i] = b}

\* The sum of the parts is the sum of all.
LEMMA SigmaOfParts ==
  ASSUME NEW S, IsFiniteSet(S), NEW f, \A x \in S : f[x] \in Int,
         NEW B, IsFiniteSet(B), NEW part, \A x \in S : part[x] \in B
  PROVE  Sigma([b \in B |-> Sigma(f, Part(S, part, b))], B) = Sigma(f, S)
<1> DEFINE By(T) == [b \in B |-> Sigma(f, Part(T, part, b))]
           P == {T \in SUBSET S : Sigma(By(T), B) = Sigma(f, T)}
<1>0. \A T \in SUBSET S : /\ IsFiniteSet(T) /\ Sigma(f, T) \in Int
                          /\ \A b \in B : By(T)[b] = Sigma(f, Part(T, part, b)) /\ By(T)[b] \in Int
  <2>1. \A T \in SUBSET S : IsFiniteSet(T) /\ Sigma(f, T) \in Int
    BY SigmaInt, FS_Subset
  <2>2. \A T \in SUBSET S : \A b : Part(T, part, b) \in SUBSET S
    BY DEF Part
  <2> QED
    BY <2>1, <2>2
<1> HIDE DEF By
<1>1. {} \in P
  <2>1. \A b \in B : By({})[b] = 0
    <3>1. \A b : Part({}, part, b) = {}
      BY DEF Part
    <3> QED
      BY <1>0, <3>1, SigmaNone
  <2>2. {} \in SUBSET B /\ \A b \in B : By({})[b] \in Int
    BY <2>1
  <2>3. Sigma(By({}), B) = Sigma(By({}), {})
    BY <2>1, <2>2, SigmaRest
  <2> QED
    BY <2>3, SigmaNone
<1>2. ASSUME NEW T \in SUBSET S, NEW x \in S \ T, T \in P
      PROVE  T \cup {x} \in P
  <2> DEFINE V == T \cup {x}
             g == By(T)
             h == By(V)
             c == part[x]
  <2>1. V \in SUBSET S /\ IsFiniteSet(T) /\ c \in B
    BY <1>0
  <2>2. Sigma(f, V) = Sigma(f, T) + f[x]
    <3>1. x \notin T /\ \A y \in T \cup {x} : f[y] \in Int
      OBVIOUS
    <3> QED
      BY <2>1, <3>1, SigmaAdd
  <2>3. \A b \in B : b # c => h[b] = g[b]
    <3>1. \A b \in B : b # c => Part(V, part, b) = Part(T, part, b)
      BY DEF Part
    <3> QED
      BY <1>0, <2>1, <3>1
  <2>4. h[c] = g[c] + f[x]
    <3>1. Part(V, part, c) = Part(T, part, c) \cup {x} /\ x \notin Part(T, part, c)
      BY DEF Part
    <3>2. /\ IsFiniteSet(Part(T, part, c))
          /\ \A y \in Part(T, part, c) \cup {x} : f[y] \in Int
      BY <2>1, FS_Subset DEF Part
    <3>3. Sigma(f, Part(T, part, c) \cup {x}) = Sigma(f, Part(T, part, c)) + f[x]
      BY <3>1, <3>2, SigmaAdd
    <3> QED
      BY <1>0, <2>1, <3>1, <3>3
  <2>5. (\A b \in B : g[b] \in Int) /\ (\A b \in B : h[b] \in Int)
    BY <1>0, <2>1
  <2> HIDE DEF V, g, h, c
  <2>6. Sigma(g, B) = g[c] + Sigma(g, B \ {c}) /\ Sigma(g, B \ {c}) \in Int
    BY <2>1, <2>5, SigmaTake, SigmaInt
  <2>7. Sigma(h, B) = h[c] + Sigma(h, B \ {c})
    BY <2>1, <2>5, SigmaTake
  <2>8. Sigma(h, B \ {c}) = Sigma(g, B \ {c})
    <3>1. IsFiniteSet(B \ {c}) /\ \A b \in B \ {c} : h[b] \in Int /\ h[b] = g[b]
      BY <2>3, <2>5, FS_Subset
    <3> QED
      BY <3>1, SigmaSame
  <2>9. Sigma(g, B) = Sigma(f, T) /\ f[x] \in Int /\ g[c] \in Int
    BY <1>2, <2>1, <2>5 DEF g
  <2>10. Sigma(h, B) = Sigma(f, V)
    BY <2>2, <2>4, <2>6, <2>7, <2>8, <2>9
  <2> QED
    BY <2>1, <2>10 DEF V, h
<1>3. SUBSET S \subseteq P
  <2> HIDE DEF P
  <2> QED
    BY <1>1, <1>2, SubsetInduction
<1> QED
  BY <1>3 DEF By

LEMMA SizeOfParts ==
  ASSUME NEW S, IsFiniteSet(S), NEW B, IsFiniteSet(B),
         NEW part, \A x \in S : part[x] \in B
  PROVE  Sigma([b \in B |-> Cardinality(Part(S, part, b))], B) = Cardinality(S)
<1> DEFINE f == [x \in S |-> 1]
           g == [b \in B |-> Sigma(f, Part(S, part, b))]
           h == [b \in B |-> Cardinality(Part(S, part, b))]
<1>1. \A b \in B : IsFiniteSet(Part(S, part, b)) /\ Part(S, part, b) \subseteq S
  BY FS_Subset DEF Part
<1>2. \A x \in S : f[x] = 1
  OBVIOUS
<1> HIDE DEF f
<1>3. \A b \in B : Sigma(f, Part(S, part, b)) = Cardinality(Part(S, part, b))
  BY <1>1, <1>2, SizeIsSigma
<1>4. \A b \in B : h[b] \in Int /\ h[b] = g[b]
  <2>1. \A b \in B : Cardinality(Part(S, part, b)) \in Int
    BY <1>1, FS_CardinalityType
  <2> QED
    BY <1>3, <2>1
<1>5. Sigma(g, B) = Sigma(f, S)
  BY <1>2, SigmaOfParts
<1> HIDE DEF g, h
<1>6. Sigma(h, B) = Sigma(g, B)
  BY <1>4, SigmaSame
<1>7. Sigma(f, S) = Cardinality(S)
  BY <1>2, SizeIsSigma
<1> QED
  BY <1>5, <1>6, <1>7 DEF h

-----------------------------------------------------------------------------
(* The height of a node: the steps from it to its first leaf.                *)

IsSpine(p, k, x) ==
  /\ p[0] = x
  /\ \A j \in 0..(k-1) : p[j][1] = "node" /\ p[j + 1] = p[j][2]
  /\ p[k][1] = "leaf"

HasHeight(x, k) == \E p : IsSpine(p, k, x)

LEMMA LeafHeight ==
  ASSUME NEW data
  PROVE  HasHeight(Leaf(data), 0)
<1>1. IsSpine([j \in {0} |-> Leaf(data)], 0, Leaf(data))
  BY DEF IsSpine, Leaf
<1> QED
  BY <1>1 DEF HasHeight

LEMMA NodeHeight ==
  ASSUME NEW left, NEW right, NEW k \in Nat, HasHeight(left, k)
  PROVE  HasHeight(Node(left, right), k + 1)
<1>1. PICK p : IsSpine(p, k, left)
  BY DEF HasHeight
<1> DEFINE q == [j \in 0..(k+1) |-> IF j = 0 THEN Node(left, right) ELSE p[j - 1]]
<1>2. q[0] = Node(left, right) /\ q[k + 1] = p[k]
  OBVIOUS
<1>3. ASSUME NEW j \in 0..((k + 1) - 1)
      PROVE  q[j][1] = "node" /\ q[j + 1] = q[j][2]
  <2>1. CASE j = 0
    <3>1. q[1] = left /\ q[0] = Node(left, right)
      BY <1>1 DEF IsSpine
    <3> QED
      BY <2>1, <3>1 DEF Node
  <2>2. CASE j # 0
    <3>1. j - 1 \in 0..(k - 1) /\ (j - 1) + 1 = j
      BY <2>2
    <3>2. q[j] = p[j - 1] /\ q[j + 1] = p[j]
      BY <2>2
    <3> HIDE DEF q
    <3> QED
      BY <1>1, <3>1, <3>2 DEF IsSpine
  <2> QED
    BY <2>1, <2>2
<1> HIDE DEF q
<1>4. IsSpine(q, k + 1, Node(left, right))
  BY <1>1, <1>2, <1>3 DEF IsSpine
<1> QED
  BY <1>4 DEF HasHeight

LEMMA SpinesAgree ==
  ASSUME NEW x, NEW k \in Nat, NEW m \in Nat, k <= m, NEW p, NEW q,
         IsSpine(p, k, x), IsSpine(q, m, x)
  PROVE  k = m
<1> DEFINE S == {j \in Nat : j <= k => p[j] = q[j]}
<1>1. 0 \in S
  BY DEF IsSpine
<1>2. ASSUME NEW j \in Nat, j \in S
      PROVE  j + 1 \in S
  <2> SUFFICES ASSUME j + 1 <= k
               PROVE  p[j + 1] = q[j + 1]
    OBVIOUS
  <2>1. p[j] = q[j] /\ j \in 0..(k - 1) /\ j \in 0..(m - 1)
    BY <1>2
  <2> QED
    BY <2>1 DEF IsSpine
<1>3. p[k] = q[k]
  <2> HIDE DEF S
  <2>1. k \in S
    BY <1>1, <1>2, NatSetInduction
  <2> QED
    BY <2>1 DEF S
<1>4. k # m => k \in 0..(m - 1)
  OBVIOUS
<1> QED
  BY <1>3, <1>4 DEF IsSpine

LEMMA OneHeight ==
  ASSUME NEW x, NEW k \in Nat, NEW m \in Nat, HasHeight(x, k), HasHeight(x, m)
  PROVE  k = m
<1>1. PICK p : IsSpine(p, k, x)
  BY DEF HasHeight
<1>2. PICK q : IsSpine(q, m, x)
  BY DEF HasHeight
<1>3. k <= m \/ m <= k
  OBVIOUS
<1> QED
  BY <1>1, <1>2, <1>3, SpinesAgree

-----------------------------------------------------------------------------
(* A level of the tree: whole subtrees of height k, but for the last node,   *)
(* which may have been promoted.                                             *)

IsLevel(level, n, k) ==
  /\ n \in Nat \ {0} /\ k \in Nat
  /\ DOMAIN level = 1..n /\ Len(level) = n /\ level = [i \in 1..n |-> level[i]]
  /\ \A i \in 1..(n-1) : HasHeight(level[i], k)
  /\ \E j \in 0..k : HasHeight(level[n], j)

Half(n) == (n + 1) \div 2

LEMMA FcnIsSeq ==
  ASSUME NEW n \in Nat, NEW f, f = [i \in 1..n |-> f[i]]
  PROVE  DOMAIN f = 1..n /\ Len(f) = n
<1>1. f \in Seq({f[i] : i \in 1..n}) /\ DOMAIN f = 1..n
  OBVIOUS
<1> QED
  BY <1>1

LEMMA HalfFacts ==
  ASSUME NEW n \in Nat, n > 1
  PROVE  /\ Half(n) \in Nat /\ Half(n) >= 1 /\ Half(n) < n
         /\ n = 2 * Half(n) \/ n = 2 * Half(n) - 1
BY DEF Half

LEMMA NextLevelValue ==
  ASSUME NEW level, NEW n, NEW k, IsLevel(level, n, k), n > 1
  PROVE  /\ DOMAIN NextLevel(level) = 1..Half(n) /\ Len(NextLevel(level)) = Half(n)
         /\ NextLevel(level) = [i \in 1..Half(n) |-> NextLevel(level)[i]]
         /\ \A i \in 1..Half(n) :
              NextLevel(level)[i] =
                IF 2*i <= n THEN Node(level[2*i - 1], level[2*i]) ELSE level[2*i - 1]
<1>1. Len(level) = n /\ Half(n) \in Nat
  BY HalfFacts DEF IsLevel
<1>2. NextLevel(level) =
        [i \in 1..Half(n) |->
          IF 2*i <= n THEN Node(level[2*i - 1], level[2*i]) ELSE level[2*i - 1]]
  BY <1>1 DEF NextLevel, Half
<1>3. NextLevel(level) = [i \in 1..Half(n) |-> NextLevel(level)[i]]
  BY <1>2
<1> QED
  BY <1>1, <1>2, <1>3, FcnIsSeq

LEMMA NextIsLevel ==
  ASSUME NEW level, NEW n, NEW k, IsLevel(level, n, k), n > 1
  PROVE  /\ IsLevel(NextLevel(level), Half(n), k + 1)
         /\ n = 2 => HasHeight(NextLevel(level)[1], k + 1)
<1> DEFINE h == Half(n)
           next == NextLevel(level)
<1>1. n \in Nat /\ k \in Nat /\ h \in Nat /\ h >= 1 /\ (n = 2 * h \/ n = 2 * h - 1)
  BY HalfFacts DEF IsLevel
<1>2. /\ DOMAIN next = 1..h /\ Len(next) = h /\ next = [i \in 1..h |-> next[i]]
      /\ \A i \in 1..h :
           next[i] = IF 2*i <= n THEN Node(level[2*i - 1], level[2*i]) ELSE level[2*i - 1]
  BY NextLevelValue
<1> HIDE DEF h, next
<1>3. ASSUME NEW i \in 1..h, 2*i <= n
      PROVE  HasHeight(next[i], k + 1)
  <2>1. 2*i - 1 \in 1..(n-1)
    BY <1>1, <1>3
  <2>2. HasHeight(level[2*i - 1], k)
    BY <2>1 DEF IsLevel
  <2> QED
    BY <1>1, <1>2, <1>3, <2>2, NodeHeight
<1>4. \A i \in 1..(h-1) : HasHeight(next[i], k + 1)
  <2>1. \A i \in 1..(h-1) : i \in 1..h /\ 2*i <= n
    BY <1>1
  <2> QED
    BY <1>3, <2>1
<1>5. \E j \in 0..(k+1) : HasHeight(next[h], j)
  <2>1. h \in 1..h /\ k + 1 \in 0..(k+1)
    BY <1>1
  <2>2. CASE 2*h <= n
    BY <1>3, <2>1, <2>2
  <2>3. CASE ~(2*h <= n)
    <3>1. 2*h - 1 = n
      BY <1>1, <2>3
    <3>2. next[h] = level[n]
      BY <1>2, <2>1, <2>3, <3>1
    <3>3. PICK j \in 0..k : HasHeight(level[n], j)
      BY DEF IsLevel
    <3>4. j \in 0..(k+1)
      BY <1>1
    <3> QED
      BY <3>2, <3>3, <3>4
  <2> QED
    BY <2>2, <2>3
<1>6. n = 2 => HasHeight(next[1], k + 1)
  <2> SUFFICES ASSUME n = 2
               PROVE  HasHeight(next[1], k + 1)
    OBVIOUS
  <2>1. 1 \in 1..h /\ 2*1 <= n
    BY <1>1
  <2> QED
    BY <1>3, <2>1
<1>7. IsLevel(next, h, k + 1)
  <2>1. h \in Nat \ {0} /\ k + 1 \in Nat
    BY <1>1
  <2> QED
    BY <1>2, <1>4, <1>5, <2>1, Zenon DEF IsLevel
<1> QED
  BY <1>6, <1>7 DEF next, h

\* Two levels of the same height that are hashed to the same level are the same.
LEMMA NextLevelApart ==
  ASSUME NEW a, NEW n, NEW b, NEW m, NEW k, IsLevel(a, n, k), IsLevel(b, m, k), n > 1, m > 1,
         NextLevel(a) = NextLevel(b)
  PROVE  n = m /\ a = b
<1> DEFINE h == Half(n)
<1>1. n \in Nat /\ m \in Nat /\ k \in Nat
  BY DEF IsLevel
<1>2. /\ h = Half(m) /\ h \in Nat /\ h >= 1
      /\ n = 2 * h \/ n = 2 * h - 1
      /\ m = 2 * h \/ m = 2 * h - 1
  <2>1. Len(NextLevel(a)) = Half(n) /\ Len(NextLevel(b)) = Half(m)
    BY NextLevelValue
  <2>2. Half(n) = Half(m)
    BY <2>1
  <2> QED
    BY <1>1, <2>2, HalfFacts
<1> HIDE DEF h
<1>3. \A i \in 1..h : (IF 2*i <= n THEN Node(a[2*i - 1], a[2*i]) ELSE a[2*i - 1])
                    = (IF 2*i <= m THEN Node(b[2*i - 1], b[2*i]) ELSE b[2*i - 1])
  <2>1. \A i \in 1..h : NextLevel(a)[i] =
          IF 2*i <= n THEN Node(a[2*i - 1], a[2*i]) ELSE a[2*i - 1]
    BY NextLevelValue DEF h
  <2>2. \A i \in 1..h : NextLevel(b)[i] =
          IF 2*i <= m THEN Node(b[2*i - 1], b[2*i]) ELSE b[2*i - 1]
    BY <1>2, NextLevelValue
  <2> QED
    BY <2>1, <2>2
\* A promoted node is too low to be a pair of this level.
<1>4. ASSUME NEW c, NEW d, IsLevel(c, 2 * h - 1, k), IsLevel(d, 2 * h, k),
             c[2 * h - 1] = Node(d[2 * h - 1], d[2 * h])
      PROVE  FALSE
  <2>1. 2 * h - 1 \in 1..(2 * h - 1)
    BY <1>2
  <2>2. HasHeight(d[2 * h - 1], k)
    BY <1>4, <2>1 DEF IsLevel
  <2>3. HasHeight(c[2 * h - 1], k + 1)
    BY <1>1, <1>4, <2>2, NodeHeight
  <2>4. PICK j \in 0..k : HasHeight(c[2 * h - 1], j)
    BY <1>4 DEF IsLevel
  <2>5. j \in Nat /\ k + 1 \in Nat /\ j # k + 1
    BY <1>1
  <2> QED
    BY <2>3, <2>4, <2>5, OneHeight
<1>5. n = m
  <2>1. h \in 1..h
    BY <1>2
  <2>2. ASSUME n = 2 * h - 1, m = 2 * h
        PROVE  FALSE
    <3>1. a[2*h - 1] = Node(b[2*h - 1], b[2*h])
      BY <1>2, <1>3, <2>1, <2>2
    <3> QED
      BY <1>4, <2>2, <3>1
  <2>3. ASSUME m = 2 * h - 1, n = 2 * h
        PROVE  FALSE
    <3>1. Node(a[2*h - 1], a[2*h]) = b[2*h - 1]
      BY <1>2, <1>3, <2>1, <2>3
    <3> QED
      BY <1>4, <2>3, <3>1
  <2> QED
    BY <1>2, <2>2, <2>3
<1>6. ASSUME NEW i \in 1..h
      PROVE  a[2*i - 1] = b[2*i - 1] /\ (2*i <= n => a[2*i] = b[2*i])
  BY <1>3, <1>5 DEF Node
<1>7. ASSUME NEW i \in 1..n
      PROVE  a[i] = b[i]
  <2>1. PICK j \in Nat : i = 2 * j \/ i = 2 * j - 1
    <3>1. (i + 1) \div 2 \in Nat /\ (i = 2 * ((i + 1) \div 2) \/ i = 2 * ((i + 1) \div 2) - 1)
      BY <1>1
    <3> QED
      BY <3>1
  <2>2. j \in 1..h
    BY <1>1, <1>2, <2>1
  <2> QED
    BY <1>1, <1>6, <2>1, <2>2
<1> QED
  BY <1>5, <1>7 DEF IsLevel

-----------------------------------------------------------------------------
(* The tower of levels that Root builds.                                     *)

Leaves(s) == [i \in DOMAIN s |-> Leaf(s[i])]

Above(level) == IF Len(level) = 1 THEN level ELSE NextLevel(level)

\* The function that Root defines by recursion, up to n.
IsTower(s, n, g) == g = [k \in 0..n |-> IF k = 0 THEN Leaves(s) ELSE Above(g[k-1])]

LEMMA TowerFcn ==
  ASSUME NEW s, NEW n \in Nat
  PROVE  \E g : IsTower(s, n, g)
<1> DEFINE S == {m \in Nat : \E g : IsTower(s, m, g)}
<1>1. 0 \in S
  <2>1. IsTower(s, 0, [k \in 0..0 |-> Leaves(s)])
    BY DEF IsTower
  <2> QED
    BY <2>1
<1>2. ASSUME NEW m \in Nat, m \in S
      PROVE  m + 1 \in S
  <2>1. PICK g : IsTower(s, m, g)
    BY <1>2
  <2> DEFINE h == [k \in 0..(m+1) |-> IF k = m + 1 THEN Above(g[m]) ELSE g[k]]
  <2>2. IsTower(s, m + 1, h)
    BY <2>1 DEF IsTower
  <2> QED
    BY <2>2
<1> HIDE DEF S
<1>3. n \in S
  BY <1>1, <1>2, NatSetInduction
<1> QED
  BY <1>3 DEF S

LEMMA RootDef ==
  ASSUME NEW D, NEW s \in Seq(D)
  PROVE  \E g : IsTower(s, Len(s), g) /\ Root(s) = g[Len(s)][1]
<1> DEFINE h == CHOOSE g : IsTower(s, Len(s), g)
<1>1. IsTower(s, Len(s), h)
  BY TowerFcn
<1>2. Root(s) = h[Len(s)][1]
  BY DEF Root, IsTower, Leaves, Above
<1> QED
  BY <1>1, <1>2

\* The levels of g up to the root, which is the level d.
Climbs(s, g, d, n) ==
  /\ d \in Nat /\ g[0] = Leaves(s) /\ Root(s) = g[d][1]
  /\ \A k \in 0..d : n[k] \in Nat /\ IsLevel(g[k], n[k], k)
  /\ \A k \in 0..(d-1) : n[k] > 1 /\ g[k + 1] = NextLevel(g[k])
  /\ n[d] = 1 /\ HasHeight(g[d][1], d)

LEMMA LeavesAreLevel ==
  ASSUME NEW D, NEW s \in Seq(D), s # <<>>
  PROVE  IsLevel(Leaves(s), Len(s), 0)
<1>1. Len(s) \in Nat \ {0} /\ DOMAIN s = 1..Len(s)
  OBVIOUS
<1> DEFINE n == Len(s)
<1>2. Leaves(s) = [i \in 1..n |-> Leaf(s[i])]
  BY <1>1 DEF Leaves
<1> HIDE DEF n
<1>3. Leaves(s) = [i \in 1..n |-> Leaves(s)[i]]
  BY <1>2
<1>4. n \in Nat \ {0} /\ DOMAIN Leaves(s) = 1..n /\ Len(Leaves(s)) = n
  BY <1>1, <1>3, FcnIsSeq DEF n
<1>5. \A i \in 1..n : HasHeight(Leaves(s)[i], 0)
  BY <1>2, LeafHeight
<1>6. \A i \in 1..(n-1) : HasHeight(Leaves(s)[i], 0)
  BY <1>4, <1>5
<1>7. \E j \in 0..0 : HasHeight(Leaves(s)[n], j)
  <2>1. n \in 1..n /\ 0 \in 0..0
    BY <1>4
  <2> QED
    BY <1>5, <2>1
<1> QED
  BY <1>3, <1>4, <1>6, <1>7, Zenon DEF IsLevel, n

LEMMA RootClimbs ==
  ASSUME NEW D, NEW s \in Seq(D), s # <<>>
  PROVE  \E g, d, n : Climbs(s, g, d, n)
<1> DEFINE N == Len(s)
<1>1. N \in Nat /\ N >= 1
  OBVIOUS
<1>2. PICK g : IsTower(s, N, g) /\ Root(s) = g[N][1]
  BY RootDef
<1>3. g[0] = Leaves(s) /\ \A k \in 0..(N-1) : g[k + 1] = Above(g[k])
  <2>1. g[0] = Leaves(s)
    BY <1>1, <1>2 DEF IsTower
  <2>2. ASSUME NEW k \in 0..(N-1)
        PROVE  g[k + 1] = Above(g[k])
    <3>1. k + 1 \in 0..N /\ k + 1 # 0 /\ (k + 1) - 1 = k
      BY <1>1
    <3>2. g[k + 1] = Above(g[(k + 1) - 1])
      BY <1>2, <3>1 DEF IsTower
    <3> QED
      BY <3>1, <3>2
  <2> QED
    BY <2>1, <2>2
<1>4. IsLevel(g[0], N, 0)
  BY <1>3, LeavesAreLevel
<1> HIDE DEF N
<1>5. PICK n : \A k \in 0..N : n[k] = Len(g[k])
  <2>1. \A k \in 0..N : [j \in 0..N |-> Len(g[j])][k] = Len(g[k])
    OBVIOUS
  <2> QED
    BY <2>1
<1>6. n[0] = N /\ \A k \in 0..(N-1) : g[k + 1] = IF n[k] = 1 THEN g[k] ELSE NextLevel(g[k])
  <2>1. 0 \in 0..N /\ \A k \in 0..(N-1) : k \in 0..N
    BY <1>1
  <2>2. Len(g[0]) = N
    BY <1>4 DEF IsLevel
  <2> QED
    BY <1>3, <1>5, <2>1, <2>2 DEF Above
<1> DEFINE Tall(k) == \A i \in 0..(k-1) : n[i] > 1
\* Every level is one, as long as none below it is the root.
<1>7. \A k \in 0..N : Tall(k) =>
        IsLevel(g[k], n[k], k) /\ n[k] \in Nat /\ n[k] >= 1 /\ n[k] + k <= N
  <2> DEFINE S == {k \in Nat : k <= N /\ Tall(k) =>
                     /\ IsLevel(g[k], n[k], k)
                     /\ n[k] \in Nat /\ n[k] >= 1 /\ n[k] + k <= N}
  <2>1. 0 \in S
    <3> QED
      BY <1>1, <1>4, <1>6
  <2>2. ASSUME NEW k \in Nat, k \in S
        PROVE  k + 1 \in S
    <3> SUFFICES ASSUME k + 1 <= N, Tall(k + 1)
                 PROVE  /\ IsLevel(g[k + 1], n[k + 1], k + 1)
                        /\ n[k + 1] \in Nat /\ n[k + 1] >= 1
                        /\ n[k + 1] + (k + 1) <= N
      OBVIOUS
    <3>1. Tall(k) /\ n[k] > 1 /\ k \in 0..(N-1)
      <4>1. k \in 0..((k + 1) - 1) /\ \A i \in 0..(k-1) : i \in 0..((k + 1) - 1)
        OBVIOUS
      <4> QED
        BY <1>1, <4>1
    <3>2. /\ IsLevel(g[k], n[k], k) /\ n[k] \in Nat /\ n[k] + k <= N
      BY <1>1, <2>2, <3>1
    <3>3. g[k + 1] = NextLevel(g[k])
      BY <1>6, <3>1
    <3>4. IsLevel(g[k + 1], Half(n[k]), k + 1)
      BY <3>1, <3>2, <3>3, NextIsLevel
    <3>5. n[k + 1] = Half(n[k])
      <4>1. k + 1 \in 0..N
        BY <1>1
      <4> QED
        BY <1>5, <3>4, <4>1 DEF IsLevel
    <3>6. Half(n[k]) \in Nat /\ Half(n[k]) >= 1 /\ Half(n[k]) < n[k]
      BY <3>1, <3>2, HalfFacts
    <3> HIDE DEF Tall
    <3> QED
      BY <1>1, <3>2, <3>4, <3>5, <3>6
  <2> HIDE DEF S
  <2>3. Nat \subseteq S
    BY <2>1, <2>2, NatSetInduction
  <2> HIDE DEF Tall
  <2> QED
    BY <1>1, <2>3 DEF S
<1> DEFINE Tops == {k \in 0..N : n[k] = 1}
<1>8. PICK d \in Tops : \A k \in Tops : d <= k
  <2>1. Tops # {}
    <3> SUFFICES ASSUME Tops = {}
                 PROVE  FALSE
      OBVIOUS
    <3>1. \A k \in 0..N : n[k] # 1
      OBVIOUS
    <3> DEFINE S == {k \in Nat : k <= N => Tall(k)}
    <3>2. 0 \in S
      OBVIOUS
    <3>3. ASSUME NEW k \in Nat, k \in S
          PROVE  k + 1 \in S
      <4> SUFFICES ASSUME k + 1 <= N
                   PROVE  Tall(k + 1)
        OBVIOUS
      <4>1. Tall(k) /\ k \in 0..N
        BY <1>1, <3>3
      <4>2. n[k] > 1
        <5>1. n[k] \in Nat /\ n[k] >= 1
          BY <1>7, <4>1
        <5> QED
          BY <3>1, <4>1, <5>1
      <4>3. \A i \in 0..((k + 1) - 1) : i = k \/ i \in 0..(k-1)
        OBVIOUS
      <4> QED
        BY <4>1, <4>2, <4>3
    <3> HIDE DEF S
    <3>4. N \in S
      BY <1>1, <3>2, <3>3, NatSetInduction
    <3>5. Tall(N) /\ N \in 0..N
      BY <1>1, <3>4 DEF S
    <3>6. n[N] \in Nat /\ n[N] >= 1 /\ n[N] + N <= N
      BY <1>7, <3>5
    <3> QED
      BY <1>1, <3>6
  <2>2. Tops \in SUBSET Nat
    BY <1>1
  <2> HIDE DEF Tops
  <2> QED
    BY <2>1, <2>2, LeastOf
<1>9. d \in 0..N /\ n[d] = 1 /\ \A k \in 0..(d-1) : n[k] # 1
  <2>1. \A k \in 0..(d-1) : k \in 0..N /\ ~(d <= k)
    BY <1>1
  <2> QED
    BY <1>8, <2>1
<1>10. \A k \in 0..d : Tall(k)
  <2> DEFINE S == {k \in Nat : k <= d => Tall(k)}
  <2>1. 0 \in S
    OBVIOUS
  <2>2. ASSUME NEW k \in Nat, k \in S
        PROVE  k + 1 \in S
    <3> SUFFICES ASSUME k + 1 <= d
                 PROVE  Tall(k + 1)
      OBVIOUS
    <3>1. Tall(k) /\ k \in 0..N /\ k \in 0..(d-1)
      BY <1>1, <1>9, <2>2
    <3>2. n[k] > 1
      <4>1. n[k] \in Nat /\ n[k] >= 1
        BY <1>7, <3>1
      <4> QED
        BY <1>9, <3>1, <4>1
    <3>3. \A i \in 0..((k + 1) - 1) : i = k \/ i \in 0..(k-1)
      OBVIOUS
    <3> QED
      BY <3>1, <3>2, <3>3
  <2> HIDE DEF S, Tall
  <2>3. Nat \subseteq S
    BY <2>1, <2>2, NatSetInduction
  <2> QED
    BY <1>9, <2>3 DEF S
<1>11. \A k \in 0..d : k \in 0..N /\ IsLevel(g[k], n[k], k) /\ n[k] \in Nat /\ n[k] >= 1
  <2>1. \A k \in 0..d : k \in 0..N
    BY <1>1, <1>9
  <2> HIDE DEF Tall
  <2> QED
    BY <1>7, <1>10, <2>1
<1>12. \A k \in 0..(d-1) : k \in 0..d /\ n[k] > 1 /\ g[k + 1] = NextLevel(g[k])
  <2> TAKE k \in 0..(d-1)
  <2>1. k \in 0..d /\ k \in 0..(N-1)
    BY <1>1, <1>9
  <2>2. n[k] > 1
    BY <1>9, <1>11, <2>1
  <2> QED
    BY <1>6, <2>1, <2>2
<1> HIDE DEF Tall, Tops
\* From the root on nothing changes.
<1>13. Root(s) = g[d][1]
  <2> DEFINE S == {k \in Nat : d <= k /\ k <= N => g[k] = g[d]}
  <2>1. 0 \in S
    BY <1>9
  <2>2. ASSUME NEW k \in Nat, k \in S
        PROVE  k + 1 \in S
    <3> SUFFICES ASSUME d <= k + 1, k + 1 <= N
                 PROVE  g[k + 1] = g[d]
      OBVIOUS
    <3>1. CASE d = k + 1
      BY <3>1
    <3>2. CASE d # k + 1
      <4>1. d <= k /\ k \in 0..(N-1)
        BY <1>1, <1>9, <3>2
      <4>2. g[k] = g[d]
        BY <1>1, <2>2, <4>1
      <4>3. n[k] = 1
        <5>1. k \in 0..N
          BY <1>1, <4>1
        <5> QED
          BY <1>5, <1>9, <4>2, <5>1
      <4> QED
        BY <1>6, <4>1, <4>2, <4>3
    <3> QED
      BY <3>1, <3>2
  <2> HIDE DEF S
  <2>3. N \in S
    BY <1>1, <2>1, <2>2, NatSetInduction
  <2> QED
    BY <1>1, <1>2, <1>9, <2>3 DEF S
<1>14. HasHeight(g[d][1], d)
  <2>1. CASE d = 0
    <3>1. PICK j \in 0..0 : HasHeight(g[0][N], j)
      BY <1>4 DEF IsLevel
    <3>2. N = 1
      BY <1>9, <1>6, <2>1
    <3>3. j = 0
      OBVIOUS
    <3> QED
      BY <2>1, <3>1, <3>2, <3>3
  <2>2. CASE d # 0
    <3> DEFINE e == d - 1
    <3>1. e \in 0..(d-1) /\ e + 1 = d /\ e \in Nat
      BY <1>9, <2>2
    <3>2. e \in 0..d /\ n[e] > 1 /\ g[d] = NextLevel(g[e])
      BY <1>12, <3>1
    <3>3. IsLevel(g[e], n[e], e) /\ n[e] \in Nat
      BY <1>11, <3>2
    <3> HIDE DEF e
    <3>4. n[d] = Half(n[e])
      BY <1>9, <1>5, <3>2, <3>3, NextLevelValue
    <3>5. n[e] = 2
      BY <1>9, <3>2, <3>3, <3>4, HalfFacts
    <3>6. HasHeight(NextLevel(g[e])[1], e + 1)
      BY <3>2, <3>3, <3>5, NextIsLevel
    <3> QED
      BY <3>1, <3>2, <3>6
  <2> QED
    BY <2>1, <2>2
<1>15. d \in Nat /\ d \in 0..d /\ \A k \in 0..(d-1) : k \in 0..d
  BY <1>1, <1>9
<1>16. Climbs(s, g, d, n)
  BY <1>3, <1>9, <1>11, <1>12, <1>13, <1>14, <1>15 DEF Climbs
<1> QED
  BY <1>16

\* Streams of any lengths: whoever has the root has the stream.
THEOREM RootsTellApart ==
  ASSUME NEW D, NEW s \in Seq(D), NEW t \in Seq(D), s # <<>>, t # <<>>, Root(s) = Root(t)
  PROVE  s = t
<1>1. PICK g, d, n : Climbs(s, g, d, n)
  BY RootClimbs
<1>2. PICK h, e, m : Climbs(t, h, e, m)
  BY RootClimbs
<1>3. d \in Nat /\ e \in Nat /\ d = e
  BY <1>1, <1>2, OneHeight DEF Climbs
<1> DEFINE S == {j \in Nat : j <= d => g[d - j] = h[d - j]}
<1>4. 0 \in S
  <2>1. d \in 0..d
    BY <1>3
  <2>2. /\ IsLevel(g[d], 1, d) /\ IsLevel(h[d], 1, d) /\ g[d][1] = h[d][1]
    BY <1>1, <1>2, <1>3, <2>1 DEF Climbs
  <2>3. /\ g[d] = [i \in 1..1 |-> g[d][i]] /\ h[d] = [i \in 1..1 |-> h[d][i]]
        /\ \A i \in 1..1 : i = 1
    BY <2>2 DEF IsLevel
  <2>4. g[d] = h[d]
    BY <2>2, <2>3
  <2> QED
    BY <1>3, <2>4
<1>5. ASSUME NEW j \in Nat, j \in S
      PROVE  j + 1 \in S
  <2> SUFFICES ASSUME j + 1 <= d
               PROVE  g[d - (j + 1)] = h[d - (j + 1)]
    OBVIOUS
  <2> DEFINE k == d - (j + 1)
  <2>1. k \in Nat /\ k \in 0..(d-1) /\ k \in 0..d /\ k + 1 = d - j
    BY <1>3
  <2>2. g[d - j] = h[d - j]
    BY <1>3, <1>5
  <2> HIDE DEF k
  <2>3. /\ IsLevel(g[k], n[k], k) /\ n[k] > 1 /\ g[k + 1] = NextLevel(g[k])
        /\ IsLevel(h[k], m[k], k) /\ m[k] > 1 /\ h[k + 1] = NextLevel(h[k])
    BY <1>1, <1>2, <1>3, <2>1 DEF Climbs
  <2>4. g[k] = h[k]
    BY <2>1, <2>2, <2>3, NextLevelApart
  <2> QED
    BY <2>4 DEF k
<1>6. g[0] = h[0]
  <2> HIDE DEF S
  <2>1. d \in S
    BY <1>3, <1>4, <1>5, NatSetInduction
  <2> QED
    BY <1>3, <2>1 DEF S
<1>7. Leaves(s) = Leaves(t)
  BY <1>1, <1>2, <1>6 DEF Climbs
<1>8. DOMAIN s = DOMAIN t /\ \A i \in DOMAIN s : Leaf(s[i]) = Leaf(t[i])
  BY <1>7 DEF Leaves
<1>9. \A i \in DOMAIN s : s[i] = t[i]
  BY <1>8 DEF Leaf
<1> QED
  BY <1>8, <1>9

-----------------------------------------------------------------------------
(* As many roots as streams.                                                 *)

\* What a function makes of finitely many values are finitely many.
LEMMA FiniteImage ==
  ASSUME NEW S, IsFiniteSet(S), NEW f, NEW T, \A y \in T : \E x \in S : f[x] = y
  PROVE  IsFiniteSet(T)
<1> DEFINE g == [x \in S |-> f[x]]
           U == {f[x] : x \in S}
<1>1. g \in Surjection(S, U)
  BY DEF Surjection
<1>2. T \subseteq U
  OBVIOUS
<1> HIDE DEF U, g
<1>3. IsFiniteSet(U)
  BY <1>1, FS_Surjection
<1> QED
  BY <1>2, <1>3, FS_Subset

LEMMA FiniteStreams ==
  ASSUME NEW n \in Nat
  PROVE  IsFiniteSet([1..n -> {0, 1}])
<1> DEFINE f == [a \in SUBSET (1..n) |-> [i \in 1..n |-> IF i \in a THEN 1 ELSE 0]]
<1>1. IsFiniteSet(SUBSET (1..n))
  <2>1. IsFiniteSet(1..n)
    BY FS_Interval
  <2> QED
    BY <2>1, FS_SUBSET
<1>2. ASSUME NEW s \in [1..n -> {0, 1}]
      PROVE  \E a \in SUBSET (1..n) : f[a] = s
  <2> DEFINE a == {i \in 1..n : s[i] = 1}
  <2>1. a \in SUBSET (1..n)
    OBVIOUS
  <2>2. f[a] = [i \in 1..n |-> IF i \in a THEN 1 ELSE 0]
    BY <2>1
  <2>3. \A i \in 1..n : (IF i \in a THEN 1 ELSE 0) = s[i]
    OBVIOUS
  <2>4. f[a] = s
    BY <2>2, <2>3
  <2> QED
    BY <2>1, <2>4
<1> HIDE DEF f
<1>3. \A s \in [1..n -> {0, 1}] : \E a \in SUBSET (1..n) : f[a] = s
  BY <1>2
<1> DEFINE T == [1..n -> {0, 1}]
           U == SUBSET (1..n)
<1>4. IsFiniteSet(U) /\ \A s \in T : \E a \in U : f[a] = s
  BY <1>1, <1>3
<1> HIDE DEF T, U
<1>5. IsFiniteSet(T)
  BY <1>4, FiniteImage
<1> QED
  BY <1>5 DEF T

LEMMA AsManyRoots ==
  ASSUME NEW n \in Nat
  PROVE  LET streams == UNION {[1..k -> {0, 1}] : k \in 1..n}
         IN Cardinality({Root(s) : s \in streams}) = Cardinality(streams)
<1> DEFINE sizes == [k \in 1..n |-> [1..k -> {0, 1}]]
           streams == UNION {[1..k -> {0, 1}] : k \in 1..n}
           roots == {Root(s) : s \in streams}
           f == [s \in streams |-> Root(s)]
<1>1. IsFiniteSet(streams)
  <2>1. IsFiniteSet(1..n)
    BY FS_Interval
  <2>2. \A y \in {[1..k -> {0, 1}] : k \in 1..n} : \E k \in 1..n : sizes[k] = y
    OBVIOUS
  <2>3. \A k \in 1..n : IsFiniteSet([1..k -> {0, 1}])
    BY FiniteStreams
  <2>4. IsFiniteSet({[1..k -> {0, 1}] : k \in 1..n})
    <3> HIDE DEF sizes
    <3> QED
      BY <2>1, <2>2, FiniteImage
  <2> QED
    BY <2>3, <2>4, FS_UNION
<1>2. \A s \in streams : s \in Seq({0, 1}) /\ s # <<>>
  <2> TAKE s \in streams
  <2>1. PICK k \in 1..n : s \in [1..k -> {0, 1}]
    OBVIOUS
  <2>2. k \in Nat /\ k >= 1 /\ s \in Seq({0, 1}) /\ Len(s) = k
    BY <2>1
  <2> QED
    BY <2>2
<1> HIDE DEF streams
<1>3. f \in Bijection(streams, roots)
  <2>1. f \in [streams -> roots] /\ \A s \in streams : f[s] = Root(s)
    OBVIOUS
  <2>2. \A r \in roots : \E s \in streams : f[s] = r
    BY <2>1
  <2> HIDE DEF f, roots
  <2>3. \A s, t \in streams : f[s] = f[t] => s = t
    BY <1>2, <2>1, RootsTellApart
  <2> QED
    BY <2>1, <2>2, <2>3 DEF Bijection, Injection, Surjection, IsInjective
<1> HIDE DEF f, roots
<1>4. Cardinality(roots) = Cardinality(streams)
  BY <1>1, <1>3, FS_Bijection DEF ExistsBijection
<1> QED
  BY <1>4 DEF streams, roots

=============================================================================

----------------------------- MODULE DataLemmas -----------------------------
(***************************************************************************)
(* Facts about data that several proofs need: induction over numbers and   *)
(* finite sets, stated for sets, and what operators of the community       *)
(* modules that are defined by recursion return.                           *)
(***************************************************************************)
EXTENDS Integers, Sequences, FiniteSets, Functions, SequencesExt,
        FiniteSetTheorems, SequenceTheorems, WellFoundedInduction, TLAPS

-----------------------------------------------------------------------------
(* Induction.                                                              *)

\* A set that has 0, and with each number the next one, has every number.
LEMMA Induction ==
  ASSUME NEW T, 0 \in T, \A n \in Nat : n \in T => n + 1 \in T
  PROVE  \A n \in Nat : n \in T
<1> DEFINE Less == OpToRel(<, Nat)
           Out  == {n \in Nat : n \notin T}
<1>1. IsWellFoundedOn(Less, Nat)
  BY NatLessThanWellFounded
<1>2. \A m, n \in Nat : m < n => <<m, n>> \in Less
  BY DEF OpToRel
<1> HIDE DEF Less
<1>3. ASSUME Out # {} PROVE FALSE
  <2>1. PICK m \in Out : \A n \in Out : ~(<<n, m>> \in Less)
    BY <1>1, <1>3, WFMin
  <2>2. m \in Nat \ {0} /\ m \notin T
    BY <2>1
  <2>3. m - 1 \in Nat /\ m - 1 < m /\ (m - 1) + 1 = m
    BY <2>2
  <2>4. m - 1 \notin Out
    BY <1>2, <2>1, <2>2, <2>3
  <2> QED
    BY <2>2, <2>3, <2>4
<1> QED
  BY <1>3

\* Without one of its elements a set has one element less.
LEMMA CardinalityWithout ==
  ASSUME NEW U, IsFiniteSet(U), NEW x \in U
  PROVE  /\ IsFiniteSet(U \ {x})
         /\ Cardinality(U) \in Nat \ {0}
         /\ Cardinality(U \ {x}) = Cardinality(U) - 1
<1>1. Cardinality(U) \in Nat /\ Cardinality(U) # 0
  BY FS_CardinalityType, FS_EmptySet
<1> QED
  BY <1>1, FS_RemoveElement

\* A set that has the empty set, and with each set the one with an element more,
\* has every finite set.
LEMMA SetInduction ==
  ASSUME NEW S, IsFiniteSet(S), NEW T, {} \in T,
         \A U \in SUBSET S, x \in S : U \in T /\ x \notin U => U \cup {x} \in T
  PROVE  S \in T
<1> DEFINE D == {n \in Nat : \A U \in SUBSET S : Cardinality(U) = n => U \in T}
<1>1. \A U \in SUBSET S : IsFiniteSet(U) /\ Cardinality(U) \in Nat
  BY FS_Subset, FS_CardinalityType
<1>2. 0 \in D
  BY <1>1, FS_EmptySet
<1>3. ASSUME NEW n \in Nat, n \in D
      PROVE  n + 1 \in D
  <2> SUFFICES ASSUME NEW U \in SUBSET S, Cardinality(U) = n + 1
               PROVE  U \in T
    OBVIOUS
  <2>1. PICK x : x \in U
    BY <1>1, FS_EmptySet
  <2>2. Cardinality(U \ {x}) = n
    BY <1>1, <2>1, CardinalityWithout
  <2>3. U \ {x} \in T /\ x \notin U \ {x} /\ (U \ {x}) \cup {x} = U
    BY <1>3, <2>1, <2>2
  <2> QED
    BY <2>1, <2>3
<1> HIDE DEF D
<1>4. \A n \in Nat : n \in D
  BY <1>2, <1>3, Induction
<1>5. Cardinality(S) \in D
  BY <1>1, <1>4
<1> QED
  BY <1>5 DEF D

-----------------------------------------------------------------------------
(* Sums of the values of a function.                                       *)

\* What SumFunctionOnSet is the value of.
IsSum(F, w, S) ==
  F = [s \in SUBSET S |->
         IF s = {} THEN 0
         ELSE LET x == CHOOSE x \in s : TRUE IN w[x] + F[s \ {x}]]

LEMMA SumExists ==
  ASSUME NEW w, NEW S, IsFiniteSet(S)
  PROVE  \E F : IsSum(F, w, S)
<1> DEFINE Upto(n) == {s \in SUBSET S : Cardinality(s) <= n}
           c(s) == CHOOSE x \in s : TRUE
           Part(F, n) == F = [s \in Upto(n) |-> IF s = {} THEN 0 ELSE w[c(s)] + F[s \ {c(s)}]]
           D == {n \in Nat : \E F : Part(F, n)}
<1>1. \A U \in SUBSET S : IsFiniteSet(U) /\ Cardinality(U) \in Nat
  BY FS_Subset, FS_CardinalityType
<1>2. \A U \in SUBSET S :
        /\ Cardinality(U) = 0 <=> U = {}
        /\ U # {} => /\ c(U) \in U
                     /\ U \ {c(U)} \in SUBSET S
                     /\ Cardinality(U \ {c(U)}) = Cardinality(U) - 1
  BY <1>1, FS_EmptySet, CardinalityWithout
<1>3. 0 \in D
  <2>1. Part([s \in Upto(0) |-> 0], 0)
    <3>1. \A s \in Upto(0) : s = {}
      <4>1. ASSUME NEW s \in Upto(0)
            PROVE  s \in SUBSET S /\ Cardinality(s) = 0
        BY <1>1
      <4> QED
        BY <1>2, <4>1
    <3> HIDE DEF c, Upto
    <3> QED
      BY <3>1
  <2> QED
    BY <2>1
<1>4. ASSUME NEW n \in Nat, n \in D
      PROVE  n + 1 \in D
  <2>1. PICK F : Part(F, n)
    BY <1>4
  <2> DEFINE G == [s \in Upto(n + 1) |->
                     IF s \in Upto(n) THEN F[s] ELSE w[c(s)] + F[s \ {c(s)}]]
  <2>2. \A s \in Upto(n + 1) : s # {} => s \ {c(s)} \in Upto(n)
    BY <1>1, <1>2
  <2>3. Upto(n) \subseteq Upto(n + 1) /\ {} \in Upto(n)
    BY <1>1, <1>2, FS_EmptySet
  <2> HIDE DEF c, Upto
  <2>4. ASSUME NEW s \in Upto(n + 1)
        PROVE  G[s] = IF s = {} THEN 0 ELSE w[c(s)] + G[s \ {c(s)}]
    BY <2>1, <2>2, <2>3
  <2>5. G = [s \in Upto(n + 1) |-> G[s]]
    OBVIOUS
  <2> HIDE DEF G
  <2>6. Part(G, n + 1)
    BY <2>4, <2>5
  <2> HIDE DEF Part
  <2> QED
    BY <2>6
<1> HIDE DEF D
<1>5. \A n \in Nat : n \in D
  BY <1>3, <1>4, Induction
<1>6. PICK F : Part(F, Cardinality(S))
  BY <1>1, <1>5 DEF D
<1>7. Upto(Cardinality(S)) = SUBSET S
  BY <1>1, FS_Subset
<1> QED
  BY <1>6, <1>7 DEF IsSum

LEMMA SumIsSum ==
  ASSUME NEW w, NEW S, IsFiniteSet(S)
  PROVE  \E F : IsSum(F, w, S) /\ SumFunctionOnSet(w, S) = F[S]
<1> DEFINE F == CHOOSE F : IsSum(F, w, S)
<1>1. IsSum(F, w, S)
  BY SumExists
<1>2. SumFunctionOnSet(w, S) = F[S]
  BY DEF SumFunctionOnSet, FoldFunctionOnSet, MapThenFoldSet, IsSum
<1> QED
  BY <1>1, <1>2

\* The order of the summands does not matter.
LEMMA SumAnyOrder ==
  ASSUME NEW S, IsFiniteSet(S), NEW w, \A x \in S : w[x] \in Nat, NEW F, IsSum(F, w, S)
  PROVE  /\ F[{}] = 0
         /\ \A U \in SUBSET S : F[U] \in Nat /\ \A x \in U : F[U] = w[x] + F[U \ {x}]
<1> DEFINE c(s) == CHOOSE x \in s : TRUE
           Good(U) == F[U] \in Nat /\ \A x \in U : F[U] = w[x] + F[U \ {x}]
           D == {n \in Nat : \A U \in SUBSET S : Cardinality(U) <= n => Good(U)}
<1>1. \A U \in SUBSET S : IsFiniteSet(U) /\ Cardinality(U) \in Nat
  BY FS_Subset, FS_CardinalityType
<1>2. F[{}] = 0
  BY DEF IsSum
<1>3. \A U \in SUBSET S : U # {} => c(U) \in U /\ F[U] = w[c(U)] + F[U \ {c(U)}]
  BY DEF IsSum
<1> HIDE DEF c
<1>4. 0 \in D
  <2>1. ASSUME NEW U \in SUBSET S, Cardinality(U) <= 0
        PROVE  U = {}
    BY <1>1, <2>1, FS_EmptySet
  <2>2. Good({})
    BY <1>2
  <2> HIDE DEF Good
  <2> QED
    BY <2>1, <2>2
<1>5. ASSUME NEW n \in Nat, n \in D
      PROVE  n + 1 \in D
  <2> SUFFICES ASSUME NEW U \in SUBSET S, Cardinality(U) <= n + 1, U # {}
               PROVE  Good(U)
    <3>1. Good({})
      BY <1>2
    <3> HIDE DEF Good
    <3> QED
      BY <3>1
  <2>1. ASSUME NEW x \in U
        PROVE  U \ {x} \in SUBSET S /\ Good(U \ {x})
    <3>1. U \ {x} \in SUBSET S /\ Cardinality(U \ {x}) <= n
      BY <1>1, CardinalityWithout
    <3> HIDE DEF Good
    <3> QED
      BY <1>5, <3>1
  <2> DEFINE y == c(U)
  <2>2. y \in U /\ w[y] \in Nat /\ F[U] = w[y] + F[U \ {y}]
    BY <1>3
  <2> HIDE DEF y
  <2>3. F[U] \in Nat
    <3>1. F[U \ {y}] \in Nat
      BY <2>1, <2>2
    <3> QED
      BY <2>2, <3>1
  <2>4. ASSUME NEW x \in U, x # y
        PROVE  F[U] = w[x] + F[U \ {x}]
    <3> DEFINE rest == F[(U \ {y}) \ {x}]
    <3>1. F[U \ {y}] = w[x] + rest
      BY <2>1, <2>2, <2>4
    <3>2. F[U \ {x}] = w[y] + F[(U \ {x}) \ {y}]
      BY <2>1, <2>2, <2>4
    <3>3. (U \ {x}) \ {y} = (U \ {y}) \ {x}
      OBVIOUS
    <3>4. rest \in Nat
      <4>1. Cardinality(U \ {y}) <= n /\ IsFiniteSet(U \ {y}) /\ x \in U \ {y}
        BY <1>1, <2>2, <2>4, CardinalityWithout
      <4>2. Cardinality((U \ {y}) \ {x}) <= n
        <5>1. /\ Cardinality(U \ {y}) \in Nat
              /\ Cardinality((U \ {y}) \ {x}) = Cardinality(U \ {y}) - 1
          BY <4>1, CardinalityWithout
        <5> QED
          BY <4>1, <5>1
      <4> QED
        BY <1>5, <4>2
    <3> HIDE DEF rest
    <3>5. w[x] \in Nat /\ w[y] \in Nat
      BY <2>2
    <3>6. F[U] = w[y] + (w[x] + rest) /\ F[U \ {x}] = w[y] + rest
      BY <2>2, <3>1, <3>2, <3>3 DEF rest
    <3> QED
      BY <3>4, <3>5, <3>6
  <2> QED
    BY <2>2, <2>3, <2>4
<1> HIDE DEF D
<1>6. \A n \in Nat : n \in D
  BY <1>4, <1>5, Induction
<1>7. ASSUME NEW U \in SUBSET S PROVE Good(U)
  <2>1. Cardinality(U) \in Nat /\ Cardinality(U) \in D
    BY <1>1, <1>6
  <2> HIDE DEF Good
  <2> QED
    BY <2>1 DEF D
<1> QED
  BY <1>2, <1>7

\* A sum over no element, and over one more.
LEMMA SumEmpty ==
  ASSUME NEW w
  PROVE  SumFunctionOnSet(w, {}) = 0
<1>1. PICK F : IsSum(F, w, {}) /\ SumFunctionOnSet(w, {}) = F[{}]
  BY SumIsSum, FS_EmptySet
<1> QED
  BY <1>1 DEF IsSum

LEMMA SumAdd ==
  ASSUME NEW S, IsFiniteSet(S), NEW x, x \notin S,
         NEW w, \A y \in S \cup {x} : w[y] \in Nat
  PROVE  /\ SumFunctionOnSet(w, S) \in Nat
         /\ SumFunctionOnSet(w, S \cup {x}) = w[x] + SumFunctionOnSet(w, S)
<1> DEFINE R == S \cup {x}
<1>1. IsFiniteSet(R)
  BY FS_AddElement
<1>2. PICK F : IsSum(F, w, S) /\ SumFunctionOnSet(w, S) = F[S]
  BY SumIsSum
<1>3. PICK G : IsSum(G, w, R) /\ SumFunctionOnSet(w, R) = G[R]
  BY <1>1, SumIsSum
<1>4. /\ F[{}] = 0
      /\ \A U \in SUBSET S : F[U] \in Nat /\ \A y \in U : F[U] = w[y] + F[U \ {y}]
  BY <1>2, SumAnyOrder
<1>5. /\ G[{}] = 0
      /\ \A U \in SUBSET R : G[U] \in Nat /\ \A y \in U : G[U] = w[y] + G[U \ {y}]
  <2>1. \A y \in R : w[y] \in Nat
    OBVIOUS
  <2> HIDE DEF R
  <2> QED
    BY <1>1, <1>3, <2>1, SumAnyOrder
<1> DEFINE T == {U \in SUBSET S : F[U] = G[U]}
<1>6. {} \in T
  BY <1>4, <1>5
<1>7. ASSUME NEW U \in SUBSET S, NEW y \in S, U \in T, y \notin U
      PROVE  U \cup {y} \in T
  <2>1. /\ U \cup {y} \in SUBSET S /\ U \cup {y} \in SUBSET R
        /\ y \in U \cup {y} /\ (U \cup {y}) \ {y} = U
    BY <1>7
  <2>2. F[U \cup {y}] = w[y] + F[U] /\ G[U \cup {y}] = w[y] + G[U]
    BY <1>4, <1>5, <2>1
  <2> QED
    BY <1>7, <2>1, <2>2
<1> HIDE DEF T
<1>8. S \in T
  BY <1>6, <1>7, SetInduction
<1>9. R \in SUBSET R /\ x \in R /\ R \ {x} = S
  OBVIOUS
<1>10. G[R] = w[x] + G[S]
  BY <1>5, <1>9
<1> QED
  BY <1>2, <1>3, <1>4, <1>8, <1>10 DEF T

LEMMA SumType ==
  ASSUME NEW S, IsFiniteSet(S), NEW w, \A y \in S : w[y] \in Nat
  PROVE  SumFunctionOnSet(w, S) \in Nat
<1>1. PICK F : IsSum(F, w, S) /\ SumFunctionOnSet(w, S) = F[S]
  BY SumIsSum
<1> QED
  BY <1>1, SumAnyOrder

\* A sum without one of its summands.
LEMMA SumRemove ==
  ASSUME NEW S, IsFiniteSet(S), NEW x \in S, NEW w, \A y \in S : w[y] \in Nat
  PROVE  /\ SumFunctionOnSet(w, S \ {x}) \in Nat
         /\ SumFunctionOnSet(w, S) = w[x] + SumFunctionOnSet(w, S \ {x})
<1>1. IsFiniteSet(S \ {x}) /\ x \notin S \ {x} /\ (S \ {x}) \cup {x} = S
  BY CardinalityWithout
<1> QED
  BY <1>1, SumAdd

\* Summands are added one by one.
LEMMA SumPlus ==
  ASSUME NEW S, IsFiniteSet(S), NEW u, NEW v, NEW w,
         \A x \in S : u[x] \in Nat /\ v[x] \in Nat /\ w[x] = u[x] + v[x]
  PROVE  SumFunctionOnSet(w, S) = SumFunctionOnSet(u, S) + SumFunctionOnSet(v, S)
<1> DEFINE Sum(f, U) == SumFunctionOnSet(f, U)
           T == {U \in SUBSET S : Sum(w, U) = Sum(u, U) + Sum(v, U)}
<1>1. {} \in T
  BY SumEmpty
<1>2. ASSUME NEW U \in SUBSET S, NEW x \in S, U \in T, x \notin U
      PROVE  U \cup {x} \in T
  <2>1. IsFiniteSet(U)
    BY FS_Subset
  <2>2. \A y \in U \cup {x} : u[y] \in Nat /\ v[y] \in Nat /\ w[y] \in Nat
    BY <1>2
  <2>3. /\ Sum(u, U) \in Nat /\ Sum(u, U \cup {x}) = u[x] + Sum(u, U)
        /\ Sum(v, U) \in Nat /\ Sum(v, U \cup {x}) = v[x] + Sum(v, U)
        /\ Sum(w, U \cup {x}) = w[x] + Sum(w, U)
    BY <1>2, <2>1, <2>2, SumAdd
  <2>4. u[x] \in Nat /\ v[x] \in Nat /\ w[x] = u[x] + v[x] /\ Sum(w, U) = Sum(u, U) + Sum(v, U)
    BY <1>2
  <2> HIDE DEF Sum
  <2>5. Sum(w, U \cup {x}) = Sum(u, U \cup {x}) + Sum(v, U \cup {x})
    BY <2>3, <2>4
  <2> QED
    BY <2>5
<1> HIDE DEF T
<1>3. S \in T
  BY <1>1, <1>2, SetInduction
<1> QED
  BY <1>3 DEF T

\* Functions that agree have the same sum.
LEMMA SumAgree ==
  ASSUME NEW S, IsFiniteSet(S), NEW v, NEW w,
         \A x \in S : w[x] \in Nat /\ v[x] = w[x]
  PROVE  SumFunctionOnSet(v, S) = SumFunctionOnSet(w, S)
<1> DEFINE none == [x \in S |-> 0]
<1>1. SumFunctionOnSet(v, S) = SumFunctionOnSet(w, S) + SumFunctionOnSet(none, S)
  BY SumPlus
<1>2. SumFunctionOnSet(w, S) = SumFunctionOnSet(w, S) + SumFunctionOnSet(none, S)
  BY SumPlus
<1>3. SumFunctionOnSet(w, S) \in Nat /\ SumFunctionOnSet(none, S) \in Nat
  BY SumType
<1> QED
  BY <1>1, <1>2, <1>3

\* One summand changes.
LEMMA SumChange ==
  ASSUME NEW S, IsFiniteSet(S), NEW x \in S, NEW v, NEW w,
         \A y \in S : v[y] \in Nat /\ w[y] \in Nat /\ (y # x => v[y] = w[y])
  PROVE  SumFunctionOnSet(v, S) = (SumFunctionOnSet(w, S) - w[x]) + v[x]
<1>1. IsFiniteSet(S \ {x})
  BY CardinalityWithout
<1>2. SumFunctionOnSet(v, S \ {x}) = SumFunctionOnSet(w, S \ {x})
  BY <1>1, SumAgree
<1>3. /\ SumFunctionOnSet(v, S) = v[x] + SumFunctionOnSet(v, S \ {x})
      /\ SumFunctionOnSet(w, S) = w[x] + SumFunctionOnSet(w, S \ {x})
      /\ SumFunctionOnSet(w, S \ {x}) \in Nat
  BY SumRemove
<1>4. v[x] \in Nat /\ w[x] \in Nat
  OBVIOUS
<1> QED
  BY <1>2, <1>3, <1>4

-----------------------------------------------------------------------------
(* Recursion over numbers.                                                 *)

\* f begins with b, and each value is the step from the one before.
Iterates(f, n, b, step) == f[0] = b /\ \A i \in 1 .. n : f[i] = step[<<i, f[i - 1]>>]

\* A first value and a step determine a function.
LEMMA Recursion ==
  ASSUME NEW n \in Nat, NEW V, NEW b \in V, NEW step \in [(1 .. n) \X V -> V]
  PROVE  \E f \in [0 .. n -> V] : Iterates(f, n, b, step)
<1> DEFINE Part(f, m) ==
             f \in [0 .. m -> V] /\ f[0] = b /\ \A i \in 1 .. m : f[i] = step[<<i, f[i - 1]>>]
           D == {m \in Nat : m <= n => \E f : Part(f, m)}
<1>1. 0 \in D
  <2>1. Part([i \in 0 .. 0 |-> b], 0)
    OBVIOUS
  <2> HIDE DEF Part
  <2> QED
    BY <2>1
<1>2. ASSUME NEW m \in Nat, m \in D
      PROVE  m + 1 \in D
  <2> SUFFICES ASSUME m + 1 <= n
               PROVE  \E f : Part(f, m + 1)
    OBVIOUS
  <2>1. PICK f : Part(f, m)
    BY <1>2
  <2> DEFINE g == [i \in 0 .. m + 1 |-> IF i = m + 1 THEN step[<<m + 1, f[m]>>] ELSE f[i]]
  <2>2. f[m] \in V /\ step[<<m + 1, f[m]>>] \in V
    BY <2>1
  <2>3. g \in [0 .. m + 1 -> V] /\ g[0] = b
    BY <2>1, <2>2
  <2>4. ASSUME NEW i \in 1 .. m + 1
        PROVE  g[i] = step[<<i, g[i - 1]>>]
    <3>1. CASE i = m + 1
      <4>1. g[i] = step[<<m + 1, f[m]>>] /\ g[m] = f[m] /\ i - 1 = m
        BY <3>1
      <4> QED
        BY <3>1, <4>1
    <3>2. CASE i \in 1 .. m
      <4>1. g[i] = f[i] /\ g[i - 1] = f[i - 1] /\ f[i] = step[<<i, f[i - 1]>>]
        BY <2>1, <3>2
      <4> QED
        BY <4>1
    <3> QED
      BY <3>1, <3>2
  <2>5. Part(g, m + 1)
    BY <2>3, <2>4
  <2> HIDE DEF Part
  <2> QED
    BY <2>5
<1> HIDE DEF D
<1>3. n \in D
  BY <1>1, <1>2, Induction
<1> QED
  BY <1>3 DEF D, Iterates

\* FlattenSeq appends the sequences one after the other.
Flattens(f, seqs) == f[0] = <<>> /\ \A i \in 1 .. Len(seqs) : f[i] = f[i - 1] \o seqs[i]

LEMMA FlattenSteps ==
  ASSUME NEW S, NEW seqs \in Seq(Seq(S))
  PROVE  \E f \in [0 .. Len(seqs) -> Seq(S)] :
           Flattens(f, seqs) /\ FlattenSeq(seqs) = f[Len(seqs)]
<1> DEFINE n == Len(seqs)
           step == [p \in (1 .. n) \X Seq(S) |-> p[2] \o seqs[p[1]]]
<1>1. n \in Nat /\ \A i \in 1 .. n : seqs[i] \in Seq(S)
  BY LenProperties, ElementOfSeq
<1>2. <<>> \in Seq(S) /\ \A s, t \in Seq(S) : s \o t \in Seq(S)
  BY EmptySeq, ConcatProperties
<1> HIDE DEF n
<1>3. \A i \in 1 .. n, s \in Seq(S) : step[<<i, s>>] = s \o seqs[i]
  OBVIOUS
<1>3a. step \in [(1 .. n) \X Seq(S) -> Seq(S)]
  BY <1>1, <1>2
<1> HIDE DEF step
<1>4. PICK f \in [0 .. n -> Seq(S)] : Iterates(f, n, <<>>, step)
  BY <1>1, <1>2, <1>3a, Recursion
<1>5. f[0] = <<>> /\ \A i \in 1 .. n : f[i] = f[i - 1] \o seqs[i]
  <2>1. ASSUME NEW i \in 1 .. n PROVE f[i - 1] \in Seq(S)
    BY <1>1, <1>4
  <2> QED
    BY <1>3, <1>4, <2>1 DEF Iterates
<1> DEFINE Eq(g) == g = [i \in 1 .. n |-> IF i = 1 THEN seqs[i] ELSE g[i - 1] \o seqs[i]]
<1>6. ASSUME n # 0
      PROVE  FlattenSeq(seqs) = f[n]
  <2>1. <<>> \o seqs[1] = seqs[1]
    BY <1>1, <1>6, ConcatEmptySeq
  <2>2. f[1] = seqs[1]
    <3>1. 1 \in 1 .. n /\ 1 - 1 = 0
      BY <1>1, <1>6
    <3> QED
      BY <1>4, <1>5, <2>1, <3>1
  <2> DEFINE g0 == [i \in 1 .. n |-> f[i]]
  <2>3. ASSUME NEW i \in 1 .. n
        PROVE  g0[i] = IF i = 1 THEN seqs[i] ELSE g0[i - 1] \o seqs[i]
    <3>1. CASE i = 1
      BY <2>2, <3>1
    <3>2. CASE i # 1
      <4>1. i - 1 \in 1 .. n
        BY <1>1, <3>2
      <4> QED
        BY <1>5, <3>2, <4>1
    <3> QED
      BY <3>1, <3>2
  <2>4. g0 = [i \in 1 .. n |-> g0[i]]
    OBVIOUS
  <2> HIDE DEF g0
  <2>5. Eq(g0)
    BY <2>3, <2>4
  <2> DEFINE g == CHOOSE g : Eq(g)
  <2>6. Eq(g)
    <3> HIDE DEF Eq
    <3> QED
      BY <2>5
  <2>7. FlattenSeq(seqs) = g[n]
    BY <1>1, <1>6 DEF FlattenSeq, n
  <2> HIDE DEF g
  <2> DEFINE D == {m \in Nat : m + 1 <= n => g[m + 1] = f[m + 1]}
  <2>8. 0 \in D
    BY <1>1, <1>6, <2>2, <2>6
  <2>9. ASSUME NEW m \in Nat, m \in D
        PROVE  m + 1 \in D
    <3> SUFFICES ASSUME (m + 1) + 1 <= n
                 PROVE  g[(m + 1) + 1] = f[(m + 1) + 1]
      OBVIOUS
    <3>1. m + 1 <= n /\ g[m + 1] = f[m + 1]
      BY <1>1, <2>9
    <3>2. (m + 1) + 1 \in 1 .. n /\ (m + 1) + 1 # 1 /\ ((m + 1) + 1) - 1 = m + 1
      BY <1>1
    <3>3. g[(m + 1) + 1] = g[m + 1] \o seqs[(m + 1) + 1]
      BY <2>6, <3>2
    <3>4. f[(m + 1) + 1] = f[m + 1] \o seqs[(m + 1) + 1]
      BY <1>5, <3>2
    <3> QED
      BY <3>1, <3>3, <3>4
  <2> HIDE DEF D
  <2>10. n - 1 \in Nat /\ n - 1 \in D
    <3>1. n - 1 \in Nat
      BY <1>1, <1>6
    <3> QED
      BY <2>8, <2>9, <3>1, Induction
  <2>11. g[n] = f[n]
    <3>1. (n - 1) + 1 <= n /\ (n - 1) + 1 = n
      BY <1>1
    <3> QED
      BY <2>10, <3>1 DEF D
  <2> QED
    BY <2>7, <2>11
<1>7. ASSUME n = 0
      PROVE  FlattenSeq(seqs) = f[n]
  <2>1. FlattenSeq(seqs) = seqs
    BY <1>7 DEF FlattenSeq, n
  <2>2. seqs = <<>>
    BY <1>7, EmptySeq DEF n
  <2> QED
    BY <1>5, <1>7, <2>1, <2>2
<1> QED
  BY <1>4, <1>5, <1>6, <1>7 DEF n, Flattens

-----------------------------------------------------------------------------
(* Sequences.                                                              *)

\* Removing at an index moves what is behind it one place forward.
LEMMA RemoveAtProperties ==
  ASSUME NEW S, NEW s \in Seq(S), NEW i \in 1 .. Len(s)
  PROVE  /\ RemoveAt(s, i) \in Seq(S)
         /\ Len(RemoveAt(s, i)) = Len(s) - 1
         /\ \A j \in 1 .. Len(s) - 1 :
              RemoveAt(s, i)[j] = IF j < i THEN s[j] ELSE s[j + 1]
<1> DEFINE front == SubSeq(s, 1, i - 1)
           back  == SubSeq(s, i + 1, Len(s))
<1>1. Len(s) \in Nat /\ \A j \in 1 .. Len(s) : s[j] \in S
  BY LenProperties, ElementOfSeq
<1>2. /\ front \in Seq(S)
      /\ Len(front) = i - 1
      /\ \A j \in 1 .. i - 1 : front[j] = s[j]
  <2>1. \A j \in 1 .. i - 1 : s[j] \in S
    BY <1>1
  <2>2. /\ front \in Seq(S)
        /\ Len(front) = IF 1 <= i - 1 THEN i - 1 - 1 + 1 ELSE 0
        /\ \A j \in 1 .. i - 1 - 1 + 1 : front[j] = s[1 + j - 1]
    BY <1>1, <2>1, SubSeqProperties
  <2> QED
    BY <1>1, <2>2
<1>3. /\ back \in Seq(S)
      /\ Len(back) = Len(s) - i
      /\ \A j \in 1 .. Len(s) - i : back[j] = s[i + j]
  <2>1. \A j \in i + 1 .. Len(s) : s[j] \in S
    BY <1>1
  <2>2. /\ back \in Seq(S)
        /\ Len(back) = IF i + 1 <= Len(s) THEN Len(s) - (i + 1) + 1 ELSE 0
        /\ \A j \in 1 .. Len(s) - (i + 1) + 1 : back[j] = s[i + 1 + j - 1]
    BY <1>1, <2>1, SubSeqProperties
  <2> QED
    BY <1>1, <2>2
<1>4. /\ front \o back \in Seq(S)
      /\ Len(front \o back) = Len(front) + Len(back)
      /\ \A j \in 1 .. Len(front) + Len(back) :
           (front \o back)[j] = IF j <= Len(front) THEN front[j] ELSE back[j - Len(front)]
  BY <1>2, <1>3, ConcatProperties
<1>5. RemoveAt(s, i) = front \o back
  BY DEF RemoveAt
<1> HIDE DEF front, back
<1>6. ASSUME NEW j \in 1 .. Len(s) - 1
      PROVE  RemoveAt(s, i)[j] = IF j < i THEN s[j] ELSE s[j + 1]
  <2>1. j \in 1 .. Len(front) + Len(back)
    BY <1>1, <1>2, <1>3
  <2>2. CASE j < i
    BY <1>1, <1>2, <1>4, <1>5, <2>1, <2>2
  <2>3. CASE ~(j < i)
    <3>1. j - Len(front) \in 1 .. Len(s) - i /\ i + (j - Len(front)) = j + 1
      BY <1>1, <1>2, <2>3
    <3> QED
      BY <1>1, <1>2, <1>3, <1>4, <1>5, <2>1, <2>3, <3>1
  <2> QED
    BY <2>2, <2>3
<1>7. Len(RemoveAt(s, i)) = Len(s) - 1
  <2>1. /\ Len(RemoveAt(s, i)) = Len(front) + Len(back)
        /\ Len(front) = i - 1 /\ Len(back) = Len(s) - i /\ Len(s) \in Nat
    BY <1>1, <1>2, <1>3, <1>4, <1>5, Zenon
  <2> QED
    BY <2>1
<1>8. RemoveAt(s, i) \in Seq(S)
  BY <1>4, <1>5
<1>9. \A j \in 1 .. Len(s) - 1 :
        RemoveAt(s, i)[j] = IF j < i THEN s[j] ELSE s[j + 1]
  BY <1>6, Zenon
<1> QED
  BY <1>7, <1>8, <1>9, Zenon

=============================================================================

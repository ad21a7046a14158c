-------------------------- MODULE StateSync_proofs --------------------------
(***************************************************************************)
(* Theorems about StateSync, for any peers and keys, any size of a batch,  *)
(* any limits and any number of requests.                                  *)
(***************************************************************************)
EXTENDS StateSync, DataLemmas

-----------------------------------------------------------------------------
(* How often an element occurs in a sequence.                              *)

Places(s, x) == {i \in DOMAIN s : s[i] = x}

LEMMA CopiesType ==
  ASSUME NEW S, NEW s \in Seq(S), NEW x
  PROVE  /\ IsFiniteSet(Places(s, x))
         /\ Copies(s, x) = Cardinality(Places(s, x)) /\ Copies(s, x) \in Nat
<1>1. IsFiniteSet(1 .. Len(s)) /\ DOMAIN s = 1 .. Len(s)
  BY LenProperties, FS_Interval
<1>2. IsFiniteSet(Places(s, x))
  BY <1>1, FS_Subset DEF Places
<1> QED
  BY <1>2, FS_CardinalityType DEF Copies, Places

LEMMA CopiesConcat ==
  ASSUME NEW S, NEW s \in Seq(S), NEW t \in Seq(S), NEW x
  PROVE  Copies(s \o t, x) = Copies(s, x) + Copies(t, x)
<1> DEFINE m == Len(s)
           n == Len(t)
           Moved == {m + i : i \in Places(t, x)}
           move == [i \in Places(t, x) |-> m + i]
<1>1. /\ m \in Nat /\ n \in Nat /\ DOMAIN s = 1 .. m /\ DOMAIN t = 1 .. n
      /\ s \o t \in Seq(S) /\ DOMAIN (s \o t) = 1 .. m + n
      /\ \A i \in 1 .. m + n : (s \o t)[i] = IF i <= m THEN s[i] ELSE t[i - m]
  BY LenProperties, ConcatProperties
<1> HIDE DEF m, n
<1>2. Places(s \o t, x) = Places(s, x) \cup Moved
  <2>1. ASSUME NEW i \in Places(s \o t, x)
        PROVE  i \in Places(s, x) \cup Moved
    <3>1. i \in 1 .. m + n /\ (s \o t)[i] = x
      BY <1>1 DEF Places
    <3>2. CASE i <= m
      BY <1>1, <3>1, <3>2 DEF Places
    <3>3. CASE ~(i <= m)
      <4>1. i - m \in 1 .. n /\ t[i - m] = x /\ m + (i - m) = i
        BY <1>1, <3>1, <3>3
      <4>2. i - m \in Places(t, x)
        BY <1>1, <4>1 DEF Places
      <4> QED
        BY <4>1, <4>2
    <3> QED
      BY <3>2, <3>3
  <2>2. ASSUME NEW i \in Places(s, x)
        PROVE  i \in Places(s \o t, x)
    <3>1. i \in 1 .. m /\ s[i] = x
      BY <1>1 DEF Places
    <3>2. i \in 1 .. m + n /\ (s \o t)[i] = s[i]
      BY <1>1, <3>1
    <3> QED
      BY <1>1, <3>1, <3>2 DEF Places
  <2>3. ASSUME NEW i \in Places(t, x)
        PROVE  m + i \in Places(s \o t, x)
    <3>1. i \in 1 .. n /\ t[i] = x
      BY <1>1 DEF Places
    <3>2. m + i \in 1 .. m + n /\ ~(m + i <= m) /\ (m + i) - m = i
      BY <1>1, <3>1
    <3>3. (s \o t)[m + i] = t[(m + i) - m]
      BY <1>1, <3>2
    <3> QED
      BY <1>1, <3>1, <3>2, <3>3 DEF Places
  <2> QED
    BY <2>1, <2>2, <2>3
<1>3. IsFiniteSet(Moved) /\ Cardinality(Moved) = Copies(t, x)
  <2>1. Places(t, x) \subseteq Int
    BY <1>1 DEF Places
  <2>2. move \in Bijection(Places(t, x), Moved)
    BY <1>1, <2>1 DEF Bijection, Injection, Surjection, IsInjective
  <2> QED
    BY <2>2, CopiesType, FS_Bijection DEF ExistsBijection
<1>4. Places(s, x) \cap Moved = {}
  BY <1>1 DEF Places
<1> HIDE DEF Moved
<1>5. IsFiniteSet(Places(s, x)) /\ Copies(s, x) = Cardinality(Places(s, x))
  BY CopiesType
<1>6. Cardinality(Places(s, x) \cup Moved)
        = Cardinality(Places(s, x)) + Cardinality(Moved) - Cardinality({})
  BY <1>3, <1>4, <1>5, FS_Union
<1>7. Copies(s \o t, x) = Cardinality(Places(s \o t, x))
  BY DEF Copies, Places
<1>8. Copies(s, x) \in Nat /\ Copies(t, x) \in Nat
  BY CopiesType
<1> QED
  BY <1>2, <1>3, <1>5, <1>6, <1>7, <1>8, FS_EmptySet

LEMMA CopiesEmpty ==
  ASSUME NEW x
  PROVE  Copies(<<>>, x) = 0
<1>1. {i \in DOMAIN <<>> : <<>>[i] = x} = {}
  OBVIOUS
<1> QED
  BY <1>1, FS_EmptySet DEF Copies

LEMMA CopiesOne ==
  ASSUME NEW x, NEW y
  PROVE  Copies(<<y>>, x) = IF y = x THEN 1 ELSE 0
<1>1. {i \in DOMAIN <<y>> : <<y>>[i] = x} = IF y = x THEN {1} ELSE {}
  OBVIOUS
<1> QED
  BY <1>1, FS_EmptySet, FS_Singleton DEF Copies

LEMMA CopiesAppend ==
  ASSUME NEW S, NEW s \in Seq(S), NEW y \in S, NEW x
  PROVE  Copies(Append(s, y), x) = Copies(s, x) + (IF y = x THEN 1 ELSE 0)
<1>1. Append(s, y) = s \o <<y>> /\ <<y>> \in Seq(S)
  BY AppendIsConcat
<1>2. Copies(s \o <<y>>, x) = Copies(s, x) + Copies(<<y>>, x)
  BY <1>1, CopiesConcat
<1> QED
  BY <1>1, <1>2, CopiesOne

\* An element occurs exactly if it has a place.
LEMMA CopiesPositive ==
  ASSUME NEW S, NEW s \in Seq(S), NEW x
  PROVE  Copies(s, x) > 0 <=> \E i \in 1 .. Len(s) : s[i] = x
<1>1. Places(s, x) # {} <=> \E i \in 1 .. Len(s) : s[i] = x
  BY LenProperties DEF Places
<1> QED
  BY <1>1, CopiesType, FS_EmptySet

\* A sequence is what is before a place, what is there and what is behind it.
LEMMA CopiesSplit ==
  ASSUME NEW S, NEW s \in Seq(S), NEW i \in 1 .. Len(s), NEW x
  PROVE  /\ SubSeq(s, 1, i - 1) \in Seq(S) /\ SubSeq(s, i + 1, Len(s)) \in Seq(S)
         /\ s[i] \in S
         /\ Copies(s, x) = Copies(SubSeq(s, 1, i - 1), x) + (IF s[i] = x THEN 1 ELSE 0)
                             + Copies(SubSeq(s, i + 1, Len(s)), x)
<1>1. Len(s) \in Nat /\ \A j \in 1 .. Len(s) : s[j] \in S
  BY LenProperties, ElementOfSeq
<1>2. /\ SubSeq(s, 1, i - 1) \in Seq(S)
      /\ SubSeq(s, 1, i) \in Seq(S)
      /\ SubSeq(s, i + 1, Len(s)) \in Seq(S)
  <2>1. \A a \in Int, b \in Int : 1 <= a /\ b <= Len(s) => \A j \in a .. b : s[j] \in S
    BY <1>1
  <2> QED
    BY <1>1, <2>1, SubSeqProperties
<1>3. SubSeq(s, 1, i) \o SubSeq(s, i + 1, Len(s)) = s
  <2>1. SubSeq(s, 1, i) \o SubSeq(s, i + 1, Len(s)) = SubSeq(s, 1, Len(s))
    BY <1>1, ConcatAdjacentSubSeq
  <2> QED
    BY <2>1, SubSeqFull
<1>4. SubSeq(s, 1, i) = SubSeq(s, 1, i - 1) \o <<s[i]>>
  BY <1>1, SubSeqRecursiveSecond
<1>5. s[i] \in S /\ <<s[i]>> \in Seq(S)
  BY <1>1
<1> DEFINE upto == SubSeq(s, 1, i)
           before == SubSeq(s, 1, i - 1)
           behind == SubSeq(s, i + 1, Len(s))
<1>6. Copies(upto \o behind, x) = Copies(upto, x) + Copies(behind, x)
  BY <1>2, CopiesConcat
<1>7. Copies(before \o <<s[i]>>, x) = Copies(before, x) + Copies(<<s[i]>>, x)
  BY <1>2, <1>5, CopiesConcat
<1>8. Copies(before, x) \in Nat /\ Copies(behind, x) \in Nat
  BY <1>2, CopiesType
<1>9. upto \o behind = s /\ upto = before \o <<s[i]>>
  BY <1>3, <1>4
<1> HIDE DEF upto, before, behind
<1>10. Copies(s, x) = Copies(before, x) + (IF s[i] = x THEN 1 ELSE 0) + Copies(behind, x)
  BY <1>6, <1>7, <1>8, <1>9, CopiesOne
<1> QED
  BY <1>2, <1>5, <1>10 DEF before, behind

-----------------------------------------------------------------------------
(* Filter.                                                                 *)

\* The sequence up to a place, and up to the place before it.
LEMMA CopiesUpto ==
  ASSUME NEW S, NEW s \in Seq(S), NEW i \in 1 .. Len(s), NEW x
  PROVE  /\ SubSeq(s, 1, i - 1) \in Seq(S)
         /\ Copies(SubSeq(s, 1, i), x)
              = Copies(SubSeq(s, 1, i - 1), x) + (IF s[i] = x THEN 1 ELSE 0)
<1> DEFINE before == SubSeq(s, 1, i - 1)
<1>1. Len(s) \in Nat /\ s[i] \in S /\ <<s[i]>> \in Seq(S)
  BY LenProperties, ElementOfSeq
<1>2. before \in Seq(S)
  BY CopiesSplit
<1>3. SubSeq(s, 1, i) = before \o <<s[i]>>
  BY <1>1, SubSeqRecursiveSecond
<1> HIDE DEF before
<1>4. Copies(before \o <<s[i]>>, x) = Copies(before, x) + Copies(<<s[i]>>, x)
  BY <1>1, <1>2, CopiesConcat
<1>5. Copies(SubSeq(s, 1, i), x) = Copies(before, x) + (IF s[i] = x THEN 1 ELSE 0)
  BY <1>3, <1>4, CopiesOne
<1> QED
  BY <1>2, <1>5 DEF before

\* Each element is appended or left out.
Filters(f, s, T) ==
  /\ f[0] = <<>>
  /\ \A i \in 1 .. Len(s) :
       f[i] = IF s[i] \in T THEN Append(f[i - 1], s[i]) ELSE f[i - 1]

LEMMA FilterSteps ==
  ASSUME NEW S, NEW s \in Seq(S), NEW T
  PROVE  \E f \in [0 .. Len(s) -> Seq(S)] : Filters(f, s, T) /\ Filter(s, T) = f[Len(s)]
<1> DEFINE n == Len(s)
           step == [p \in (1 .. n) \X Seq(S) |->
                      IF s[p[1]] \in T THEN Append(p[2], s[p[1]]) ELSE p[2]]
           Eq(g) == g = [i \in 0 .. n |->
                           IF i = 0 THEN <<>>
                           ELSE IF s[i] \in T THEN Append(g[i - 1], s[i]) ELSE g[i - 1]]
           g0 == CHOOSE g : Eq(g)
<1>1. n \in Nat /\ \A i \in 1 .. n : s[i] \in S
  BY LenProperties, ElementOfSeq
<1>2. <<>> \in Seq(S) /\ \A t \in Seq(S), y \in S : Append(t, y) \in Seq(S)
  BY EmptySeq, AppendProperties
<1>3. Filter(s, T) = g0[n]
  BY DEF Filter
<1> HIDE DEF n
<1>4. step \in [(1 .. n) \X Seq(S) -> Seq(S)]
  BY <1>1, <1>2
<1>5. \A i \in 1 .. n, t \in Seq(S) :
        step[<<i, t>>] = IF s[i] \in T THEN Append(t, s[i]) ELSE t
  OBVIOUS
<1> HIDE DEF step
<1>6. PICK f \in [0 .. n -> Seq(S)] : Iterates(f, n, <<>>, step)
  BY <1>1, <1>2, <1>4, Recursion
<1>7. /\ f[0] = <<>>
      /\ \A i \in 1 .. n : f[i] = IF s[i] \in T THEN Append(f[i - 1], s[i]) ELSE f[i - 1]
  <2>1. ASSUME NEW i \in 1 .. n PROVE f[i - 1] \in Seq(S)
    BY <1>1, <1>6
  <2> QED
    BY <1>5, <1>6, <2>1 DEF Iterates
<1>8. Eq(f)
  <2> DEFINE h == [i \in 0 .. n |->
                     IF i = 0 THEN <<>>
                     ELSE IF s[i] \in T THEN Append(f[i - 1], s[i]) ELSE f[i - 1]]
  <2>1. ASSUME NEW i \in 0 .. n PROVE f[i] = h[i]
    <3>1. i = 0 \/ i \in 1 .. n
      BY <1>1
    <3> QED
      BY <1>7, <3>1
  <2>2. f = [i \in 0 .. n |-> f[i]] /\ h = [i \in 0 .. n |-> h[i]]
    BY <1>6
  <2>3. f = h
    <3> HIDE DEF h
    <3> QED
      BY <2>1, <2>2
  <2> QED
    BY <2>3
<1>9. Eq(g0)
  <2> HIDE DEF Eq
  <2> QED
    BY <1>8
<1> HIDE DEF g0
<1>10. /\ g0[0] = <<>>
       /\ \A i \in 1 .. n :
            g0[i] = IF s[i] \in T THEN Append(g0[i - 1], s[i]) ELSE g0[i - 1]
  <2>1. 0 \in 0 .. n /\ \A i \in 1 .. n : i \in 0 .. n /\ i # 0
    BY <1>1
  <2> QED
    BY <1>9, <2>1
<1> DEFINE D == {m \in Nat : m <= n => g0[m] = f[m]}
<1>11. 0 \in D
  BY <1>1, <1>7, <1>10
<1>12. ASSUME NEW m \in Nat, m \in D
       PROVE  m + 1 \in D
  <2> SUFFICES ASSUME m + 1 <= n
               PROVE  g0[m + 1] = f[m + 1]
    OBVIOUS
  <2>1. g0[m] = f[m]
    BY <1>1, <1>12
  <2>2. m + 1 \in 1 .. n /\ (m + 1) - 1 = m
    BY <1>1
  <2>3. g0[m + 1] = IF s[m + 1] \in T THEN Append(g0[m], s[m + 1]) ELSE g0[m]
    BY <1>10, <2>2
  <2>4. f[m + 1] = IF s[m + 1] \in T THEN Append(f[m], s[m + 1]) ELSE f[m]
    BY <1>7, <2>2
  <2> QED
    BY <2>1, <2>3, <2>4
<1> HIDE DEF D
<1>13. n \in D
  BY <1>1, <1>11, <1>12, Induction
<1>14. Filter(s, T) = f[n]
  BY <1>1, <1>3, <1>13 DEF D
<1> QED
  BY <1>7, <1>14 DEF n, Filters

LEMMA FilterProperties ==
  ASSUME NEW S, NEW s \in Seq(S), NEW T
  PROVE  /\ Filter(s, T) \in Seq(S)
         /\ Len(Filter(s, T)) <= Len(s)
         /\ \A x : Copies(Filter(s, T), x) = IF x \in T THEN Copies(s, x) ELSE 0
<1> DEFINE n == Len(s)
<1>1. n \in Nat /\ \A i \in 1 .. n : s[i] \in S
  BY LenProperties, ElementOfSeq
<1>2. PICK f \in [0 .. n -> Seq(S)] : Filters(f, s, T) /\ Filter(s, T) = f[n]
  BY FilterSteps
<1> HIDE DEF n
<1>2a. ASSUME NEW m \in Nat, m + 1 <= n
       PROVE  /\ m <= n /\ f[m] \in Seq(S) /\ s[m + 1] \in S
              /\ f[m + 1] = IF s[m + 1] \in T THEN Append(f[m], s[m + 1]) ELSE f[m]
  <2>1. m + 1 \in 1 .. n /\ (m + 1) - 1 = m /\ m <= n /\ m \in 0 .. n
    BY <1>1, <1>2a
  <2>2. f[m] \in Seq(S)
    BY <1>2, <2>1
  <2> QED
    BY <1>1, <1>2, <2>1, <2>2 DEF Filters, n
<1>3. Filter(s, T) \in Seq(S)
  BY <1>1, <1>2
<1> DEFINE L == {m \in Nat : m <= n => Len(f[m]) <= m}
<1>4. 0 \in L
  BY <1>2 DEF Filters
<1>5. ASSUME NEW m \in Nat, m \in L
      PROVE  m + 1 \in L
  <2> SUFFICES ASSUME m + 1 <= n
               PROVE  Len(f[m + 1]) <= m + 1
    OBVIOUS
  <2>1. m <= n /\ f[m] \in Seq(S) /\ s[m + 1] \in S
    BY <1>2a
  <2>2. f[m + 1] = IF s[m + 1] \in T THEN Append(f[m], s[m + 1]) ELSE f[m]
    BY <1>2a
  <2>3. Len(Append(f[m], s[m + 1])) = Len(f[m]) + 1 /\ Len(f[m]) \in Nat
    BY <2>1, AppendProperties, LenProperties
  <2>4. Len(f[m]) <= m
    BY <1>5, <2>1
  <2> QED
    BY <2>2, <2>3, <2>4
<1> HIDE DEF L
<1>6. n \in L
  BY <1>1, <1>4, <1>5, Induction
<1>7. ASSUME NEW x
      PROVE  Copies(Filter(s, T), x) = IF x \in T THEN Copies(s, x) ELSE 0
  <2> DEFINE all(m) == Copies(SubSeq(s, 1, m), x)
             D == {m \in Nat : m <= n => Copies(f[m], x) = IF x \in T THEN all(m) ELSE 0}
  <2>1. 0 \in D
    <3>1. SubSeq(s, 1, 0) = <<>>
      BY SubSeqEmpty
    <3> QED
      BY <1>2, <3>1, CopiesEmpty DEF Filters
  <2>2. ASSUME NEW m \in Nat, m \in D
        PROVE  m + 1 \in D
    <3> SUFFICES ASSUME m + 1 <= n
                 PROVE  Copies(f[m + 1], x) = IF x \in T THEN all(m + 1) ELSE 0
      OBVIOUS
    <3>1. m <= n /\ f[m] \in Seq(S) /\ s[m + 1] \in S
      BY <1>2a
    <3>2. f[m + 1] = IF s[m + 1] \in T THEN Append(f[m], s[m + 1]) ELSE f[m]
      BY <1>2a
    <3>3. Copies(f[m], x) = IF x \in T THEN all(m) ELSE 0
      BY <2>2, <3>1
    <3>4. all(m + 1) = all(m) + (IF s[m + 1] = x THEN 1 ELSE 0) /\ all(m) \in Nat
      <4>1. m + 1 \in 1 .. Len(s) /\ (m + 1) - 1 = m
        BY <1>1 DEF n
      <4>2. /\ SubSeq(s, 1, (m + 1) - 1) \in Seq(S)
            /\ all(m + 1) = Copies(SubSeq(s, 1, (m + 1) - 1), x)
                              + (IF s[m + 1] = x THEN 1 ELSE 0)
        BY <4>1, CopiesUpto
      <4>3. Copies(SubSeq(s, 1, (m + 1) - 1), x) \in Nat
        BY <4>2, CopiesType
      <4> QED
        BY <4>1, <4>2, <4>3
    <3>5. Copies(Append(f[m], s[m + 1]), x)
            = Copies(f[m], x) + (IF s[m + 1] = x THEN 1 ELSE 0)
      BY <3>1, CopiesAppend
    <3> HIDE DEF all
    <3> QED
      BY <3>2, <3>3, <3>4, <3>5
  <2> HIDE DEF D
  <2>3. n \in D
    BY <1>1, <2>1, <2>2, Induction
  <2>4. Copies(f[n], x) = IF x \in T THEN all(n) ELSE 0
    BY <1>1, <2>3 DEF D
  <2> QED
    BY <1>2, <2>4, SubSeqFull DEF n
<1>8. Len(Filter(s, T)) <= n
  BY <1>1, <1>2, <1>6 DEF L, n
<1> QED
  BY <1>3, <1>7, <1>8 DEF n

-----------------------------------------------------------------------------
(* The order in which the peers are gone through.                          *)

LEMMA OrderProperties ==
  ASSUME NEW P, IsFiniteSet(P), NEW order \in SetToSeqs(P)
  PROVE  /\ order \in Seq(P)
         /\ \A i, j \in 1 .. Len(order) : i # j => order[i] # order[j]
         /\ \A p \in P : \E i \in 1 .. Len(order) : order[i] = p
<1> DEFINE n == Cardinality(P)
<1>1. n \in Nat
  BY FS_CardinalityType
<1>2. order \in [1 .. n -> P] /\ \A i, j \in 1 .. n : i # j => order[i] # order[j]
  BY DEF SetToSeqs
<1>3. order \in Seq(P) /\ Len(order) = n
  <2> HIDE DEF n
  <2> QED
    BY <1>1, <1>2
<1>4. order \in Injection(1 .. n, P)
  BY <1>2 DEF Injection, IsInjective
<1>5. IsFiniteSet(1 .. n) /\ Cardinality(1 .. n) = n
  BY <1>1, FS_Interval
<1>6. order \in Surjection(1 .. n, P)
  BY <1>4, <1>5, FS_Injection
<1>7. \A p \in P : \E i \in 1 .. n : order[i] = p
  BY <1>6 DEF Surjection
<1> HIDE DEF n
<1> QED
  BY <1>2, <1>3, <1>7

\* What is added up peer by peer is the sum over the peers.
LEMMA SumInOrder ==
  ASSUME NEW P, IsFiniteSet(P), NEW order \in SetToSeqs(P),
         NEW w, \A p \in P : w[p] \in Nat,
         NEW g, g[0] = 0, \A i \in 1 .. Len(order) : g[i] = g[i - 1] + w[order[i]]
  PROVE  g[Len(order)] = SumFunctionOnSet(w, P)
<1> DEFINE n == Len(order)
           Done(m) == {order[i] : i \in 1 .. m}
           D == {m \in Nat : m <= n => g[m] = SumFunctionOnSet(w, Done(m))}
<1>1. /\ order \in Seq(P)
      /\ \A i, j \in 1 .. n : i # j => order[i] # order[j]
      /\ \A p \in P : \E i \in 1 .. n : order[i] = p
  BY OrderProperties
<1>2. n \in Nat /\ \A i \in 1 .. n : order[i] \in P
  BY <1>1, LenProperties, ElementOfSeq
<1> HIDE DEF n
<1>3. 0 \in D
  <2>1. Done(0) = {}
    OBVIOUS
  <2> QED
    BY <2>1, SumEmpty
<1>4. ASSUME NEW m \in Nat, m \in D
      PROVE  m + 1 \in D
  <2> SUFFICES ASSUME m + 1 <= n
               PROVE  g[m + 1] = SumFunctionOnSet(w, Done(m + 1))
    OBVIOUS
  <2> DEFINE x == order[m + 1]
  <2>1. m + 1 \in 1 .. n /\ (m + 1) - 1 = m /\ m <= n
    BY <1>2
  <2>2. g[m + 1] = g[m] + w[x] /\ g[m] = SumFunctionOnSet(w, Done(m))
    BY <1>4, <2>1 DEF n
  <2>3. Done(m + 1) = Done(m) \cup {x}
    <3>1. 1 .. m + 1 = (1 .. m) \cup {m + 1}
      OBVIOUS
    <3> QED
      BY <3>1
  <2>4. x \notin Done(m)
    <3>1. \A i \in 1 .. m : i \in 1 .. n /\ i # m + 1
      BY <1>2, <2>1
    <3> QED
      BY <1>1, <2>1, <3>1
  <2>5. x \in P /\ Done(m) \subseteq P
    BY <1>2, <2>1
  <2>6. IsFiniteSet(Done(m)) /\ \A y \in Done(m) \cup {x} : w[y] \in Nat
    BY <2>5, FS_Subset
  <2> HIDE DEF Done, x
  <2>7. /\ SumFunctionOnSet(w, Done(m)) \in Nat
        /\ SumFunctionOnSet(w, Done(m) \cup {x}) = w[x] + SumFunctionOnSet(w, Done(m))
    BY <2>4, <2>6, SumAdd
  <2>8. w[x] \in Nat
    BY <2>5
  <2>9. SumFunctionOnSet(w, Done(m + 1)) = w[x] + SumFunctionOnSet(w, Done(m))
    BY <2>3, <2>7
  <2> QED
    BY <2>2, <2>7, <2>8, <2>9
<1>5. n \in D
  <2> HIDE DEF D
  <2> QED
    BY <1>2, <1>3, <1>4, Induction
<1>6. Done(n) = P
  BY <1>1, <1>2
<1> HIDE DEF Done
<1>7. g[n] = SumFunctionOnSet(w, Done(n))
  BY <1>2, <1>5
<1> QED
  BY <1>6, <1>7 DEF n

-----------------------------------------------------------------------------
(* What times out leaves the batches and goes to the queue.                *)

\* The copies of r in flight.
AtPeers(pending, r) == SumFunction([p \in DOMAIN pending |-> Copies(pending[p], r)])

LEMMA AtPeersType ==
  ASSUME NEW P, IsFiniteSet(P), NEW pending \in [P -> Seq(Request)], NEW r
  PROVE  /\ AtPeers(pending, r) = SumFunctionOnSet([p \in P |-> Copies(pending[p], r)], P)
         /\ AtPeers(pending, r) \in Nat
<1> DEFINE w == [p \in P |-> Copies(pending[p], r)]
<1>1. AtPeers(pending, r) = SumFunctionOnSet(w, P)
  BY DEF AtPeers, SumFunction
<1>2. \A p \in P : w[p] \in Nat
  BY CopiesType
<1> HIDE DEF w
<1>3. SumFunctionOnSet(w, P) \in Nat
  BY <1>2, SumType
<1> QED
  BY <1>1, <1>3 DEF w

LEMMA RequeuedProperties ==
  ASSUME NEW P, IsFiniteSet(P), NEW pending \in [P -> Seq(Request)],
         NEW order \in SetToSeqs(P)
  PROVE  /\ Requeued(pending, order) \in Seq(Request)
         /\ \A r : Copies(Requeued(pending, order), r)
                     = SumFunctionOnSet([p \in P |-> Copies(Filter(pending[p], TimedOut), r)], P)
<1> DEFINE n == Len(order)
           seqs == [i \in DOMAIN order |-> Filter(pending[order[i]], TimedOut)]
<1>1. order \in Seq(P)
  BY OrderProperties
<1>2. n \in Nat /\ DOMAIN order = 1 .. n /\ \A i \in 1 .. n : order[i] \in P
  BY <1>1, LenProperties, ElementOfSeq
<1>3. \A p \in P : Filter(pending[p], TimedOut) \in Seq(Request)
  BY FilterProperties
<1>4. seqs \in Seq(Seq(Request)) /\ Len(seqs) = n
  <2> HIDE DEF n
  <2> QED
    BY <1>2, <1>3
<1>5. PICK f \in [0 .. n -> Seq(Request)] :
        Flattens(f, seqs) /\ FlattenSeq(seqs) = f[n]
  <2> HIDE DEF seqs
  <2> QED
    BY <1>4, FlattenSteps
<1>6. Requeued(pending, order) = f[n] /\ f[n] \in Seq(Request)
  BY <1>2, <1>5 DEF Requeued
<1>7. f[0] = <<>> /\ \A i \in 1 .. n : f[i] = f[i - 1] \o seqs[i]
  <2> HIDE DEF seqs
  <2> QED
    BY <1>4, <1>5 DEF Flattens
<1> HIDE DEF n
<1>8. \A i \in 1 .. n : seqs[i] = Filter(pending[order[i]], TimedOut)
  BY <1>2
<1> HIDE DEF seqs
<1>9. ASSUME NEW r
      PROVE  Copies(f[n], r)
               = SumFunctionOnSet([p \in P |-> Copies(Filter(pending[p], TimedOut), r)], P)
  <2> DEFINE w == [p \in P |-> Copies(Filter(pending[p], TimedOut), r)]
             g == [i \in 0 .. n |-> Copies(f[i], r)]
  <2>1. \A p \in P : w[p] \in Nat
    BY <1>3, CopiesType
  <2>2. g[0] = 0
    BY <1>2, <1>7, CopiesEmpty
  <2>3. ASSUME NEW i \in 1 .. n
        PROVE  g[i] = g[i - 1] + w[order[i]]
    <3>1. order[i] \in P /\ i \in 0 .. n /\ i - 1 \in 0 .. n
      BY <1>2
    <3>2. f[i - 1] \in Seq(Request) /\ seqs[i] \in Seq(Request)
      BY <1>3, <1>5, <1>8, <3>1
    <3>3. Copies(f[i - 1] \o seqs[i], r) = Copies(f[i - 1], r) + Copies(seqs[i], r)
      BY <3>2, CopiesConcat
    <3> QED
      BY <1>7, <1>8, <3>1, <3>3
  <2>4. n \in 0 .. n
    BY <1>2
  <2>5. Copies(f[n], r) = g[n]
    BY <2>4
  <2> HIDE DEF g, w
  <2>6. g[n] = SumFunctionOnSet(w, P)
    BY <2>1, <2>2, <2>3, SumInOrder DEF n
  <2> QED
    BY <2>5, <2>6 DEF w
<1> QED
  BY <1>6, <1>9

\* Each copy in flight is held or requeued.
LEMMA HeldProperties ==
  ASSUME NEW P, IsFiniteSet(P), NEW pending \in [P -> Seq(Request)],
         NEW order \in SetToSeqs(P)
  PROVE  /\ Held(pending) \in [P -> Seq(Request)]
         /\ \A p \in P : Len(Held(pending)[p]) <= Len(pending[p])
         /\ \A p \in P : \A r :
              Copies(Held(pending)[p], r) = IF r \in Request \ TimedOut
                                              THEN Copies(pending[p], r) ELSE 0
         /\ \A r \in Request :
              AtPeers(pending, r) = AtPeers(Held(pending), r) + Copies(Requeued(pending, order), r)
<1> DEFINE held == Held(pending)
<1>1. held = [p \in P |-> Filter(pending[p], Request \ TimedOut)]
  BY DEF Held
<1>2. ASSUME NEW p \in P
      PROVE  /\ held[p] \in Seq(Request)
             /\ Len(held[p]) <= Len(pending[p])
             /\ \A r : Copies(held[p], r) = IF r \in Request \ TimedOut
                                              THEN Copies(pending[p], r) ELSE 0
  <2>1. held[p] = Filter(pending[p], Request \ TimedOut) /\ pending[p] \in Seq(Request)
    BY <1>1
  <2> HIDE DEF held
  <2> QED
    BY <2>1, FilterProperties
<1>3. held \in [P -> Seq(Request)]
  BY <1>1, <1>2
<1> HIDE DEF held
<1>4. ASSUME NEW r \in Request
      PROVE  AtPeers(pending, r) = AtPeers(held, r) + Copies(Requeued(pending, order), r)
  <2> DEFINE w == [p \in P |-> Copies(pending[p], r)]
             u == [p \in P |-> Copies(held[p], r)]
             v == [p \in P |-> Copies(Filter(pending[p], TimedOut), r)]
  <2>1. ASSUME NEW p \in P
        PROVE  u[p] \in Nat /\ v[p] \in Nat /\ w[p] = u[p] + v[p]
    <3>1. Copies(Filter(pending[p], TimedOut), r)
            = IF r \in TimedOut THEN Copies(pending[p], r) ELSE 0
      BY FilterProperties
    <3>2. Copies(pending[p], r) \in Nat /\ Copies(held[p], r) \in Nat
      BY <1>3, CopiesType
    <3> QED
      BY <1>2, <3>1, <3>2
  <2>2. /\ AtPeers(pending, r) = SumFunctionOnSet(w, P)
        /\ AtPeers(held, r) = SumFunctionOnSet(u, P)
    BY <1>3, AtPeersType
  <2>3. Copies(Requeued(pending, order), r) = SumFunctionOnSet(v, P)
    BY RequeuedProperties
  <2> HIDE DEF u, v, w
  <2>4. SumFunctionOnSet(w, P) = SumFunctionOnSet(u, P) + SumFunctionOnSet(v, P)
    BY <2>1, SumPlus
  <2> QED
    BY <2>2, <2>3, <2>4
<1> QED
  BY <1>2, <1>3, <1>4 DEF held

-----------------------------------------------------------------------------
(* The requests are spread over the peers.                                 *)

\* Where the part of each peer ends.
Cuts(cut, live, held, order) ==
  /\ cut[0] = 0 /\ cut[Len(order)] = Len(live)
  /\ \A j \in DOMAIN order :
       LET filled == cut[j - 1] + Room(held[order[j]])
       IN  cut[j] = IF filled < Len(live) THEN filled ELSE Len(live)

At(order, p) == CHOOSE j \in DOMAIN order : order[j] = p

Part(cut, live, order, p) == SubSeq(live, cut[At(order, p) - 1] + 1, cut[At(order, p)])

\* How many of the copies of r each peer gets.
Share(cut, live, order, P, r) == [p \in P |-> Copies(Part(cut, live, order, p), r)]

\* A cut is never before the one before it, and leaves no more than there is room.
LEMMA CutSteps ==
  ASSUME NEW P, NEW held \in [P -> Seq(Request)],
         BatchSize \in Nat, \A p \in P : Len(held[p]) <= BatchSize,
         NEW order \in Seq(P), NEW live \in Seq(Request),
         NEW cut \in [0 .. Len(order) -> 0 .. Len(live)], Cuts(cut, live, held, order),
         NEW j \in 1 .. Len(order)
  PROVE  /\ cut[j - 1] \in 0 .. Len(live) /\ cut[j] \in 0 .. Len(live)
         /\ cut[j - 1] <= cut[j]
         /\ cut[j] - cut[j - 1] <= Room(held[order[j]])
<1>1. Len(order) \in Nat /\ DOMAIN order = 1 .. Len(order) /\ order[j] \in P
  BY LenProperties, ElementOfSeq
<1>2. cut[j - 1] \in 0 .. Len(live) /\ cut[j] \in 0 .. Len(live)
  <2>1. j - 1 \in 0 .. Len(order) /\ j \in 0 .. Len(order)
    BY <1>1
  <2> QED
    BY <2>1
<1>3. Len(live) \in Nat
  BY LenProperties
<1>4. Room(held[order[j]]) \in Nat
  <2>1. Len(held[order[j]]) \in Nat /\ Len(held[order[j]]) <= BatchSize
    BY <1>1, LenProperties
  <2> QED
    BY <2>1 DEF Room
<1> DEFINE filled == cut[j - 1] + Room(held[order[j]])
<1>5. cut[j] = IF filled < Len(live) THEN filled ELSE Len(live)
  BY <1>1 DEF Cuts
<1> QED
  BY <1>2, <1>3, <1>4, <1>5

\* The parts fit, come from the live requests, and are all of them.
Spread(cut, live, held, order, P) ==
  /\ \A p \in P : /\ Part(cut, live, order, p) \in Seq(Request)
                  /\ Len(Part(cut, live, order, p)) <= Room(held[p])
  /\ \A p \in P : \A r : Copies(Part(cut, live, order, p), r) > 0 => Copies(live, r) > 0
  /\ \A r : Copies(live, r) = SumFunctionOnSet(Share(cut, live, order, P, r), P)

LEMMA PartProperties ==
  ASSUME NEW P, IsFiniteSet(P), NEW held \in [P -> Seq(Request)],
         BatchSize \in Nat, \A p \in P : Len(held[p]) <= BatchSize,
         NEW order \in SetToSeqs(P), NEW live \in Seq(Request),
         NEW cut \in [0 .. Len(order) -> 0 .. Len(live)], Cuts(cut, live, held, order)
  PROVE  Spread(cut, live, held, order, P)
<1> DEFINE n == Len(order)
           part(p) == Part(cut, live, order, p)
<1>1. /\ order \in Seq(P)
      /\ \A i, j \in 1 .. n : i # j => order[i] # order[j]
      /\ \A p \in P : \E i \in 1 .. n : order[i] = p
  BY OrderProperties
<1>2. n \in Nat /\ DOMAIN order = 1 .. n /\ \A i \in 1 .. n : order[i] \in P
  BY <1>1, LenProperties, ElementOfSeq
<1>3. \A p \in P : At(order, p) \in 1 .. n /\ order[At(order, p)] = p
  BY <1>1, <1>2 DEF At
<1>4. \A i \in 1 .. n : At(order, order[i]) = i
  BY <1>1, <1>2, <1>3
<1>5. \A j \in 1 .. n : /\ cut[j - 1] \in 0 .. Len(live) /\ cut[j] \in 0 .. Len(live)
                        /\ cut[j - 1] <= cut[j]
                        /\ cut[j] - cut[j - 1] <= Room(held[order[j]])
  BY <1>1, CutSteps
<1>6. Len(live) \in Nat /\ \A i \in 1 .. Len(live) : live[i] \in Request
  BY LenProperties, ElementOfSeq
<1>7. ASSUME NEW p \in P
      PROVE  /\ part(p) \in Seq(Request)
             /\ Len(part(p)) <= Room(held[p])
             /\ \A r : Copies(part(p), r) > 0 => Copies(live, r) > 0
  <2> DEFINE a == cut[At(order, p) - 1]
             b == cut[At(order, p)]
  <2>1. /\ a \in 0 .. Len(live) /\ b \in 0 .. Len(live) /\ a <= b
        /\ b - a <= Room(held[p]) /\ part(p) = SubSeq(live, a + 1, b)
    BY <1>3, <1>5 DEF Part
  <2> HIDE DEF a, b, part
  <2>2. \A i \in a + 1 .. b : live[i] \in Request
    BY <1>6, <2>1
  <2>3. /\ part(p) \in Seq(Request)
        /\ Len(part(p)) = IF a + 1 <= b THEN b - (a + 1) + 1 ELSE 0
        /\ \A i \in 1 .. b - (a + 1) + 1 : part(p)[i] = live[a + 1 + i - 1]
    BY <1>6, <2>1, <2>2, SubSeqProperties
  <2>4. Len(part(p)) = b - a
    BY <1>6, <2>1, <2>3
  <2>5. ASSUME NEW r, Copies(part(p), r) > 0
        PROVE  Copies(live, r) > 0
    <3>1. PICK i \in 1 .. Len(part(p)) : part(p)[i] = r
      BY <2>3, <2>5, CopiesPositive
    <3>2. a + 1 + i - 1 \in 1 .. Len(live) /\ i \in 1 .. b - (a + 1) + 1
      BY <1>6, <2>1, <2>4
    <3>3. live[a + 1 + i - 1] = r
      BY <2>3, <3>1, <3>2
    <3> QED
      BY <3>2, <3>3, CopiesPositive
  <2> QED
    BY <2>1, <2>3, <2>4, <2>5
<1>8. ASSUME NEW r
      PROVE  Copies(live, r) = SumFunctionOnSet([p \in P |-> Copies(part(p), r)], P)
  <2> DEFINE w == [p \in P |-> Copies(part(p), r)]
             g == [j \in 0 .. n |-> Copies(SubSeq(live, 1, cut[j]), r)]
  <2>1. \A p \in P : w[p] \in Nat
    <3> HIDE DEF part
    <3> QED
      BY <1>7, CopiesType
  <2>2. g[0] = 0
    <3>1. SubSeq(live, 1, 0) = <<>> /\ cut[0] = 0 /\ 0 \in 0 .. n
      BY <1>2, SubSeqEmpty DEF Cuts
    <3> QED
      BY <3>1, CopiesEmpty
  <2>3. ASSUME NEW i \in 1 .. n
        PROVE  g[i] = g[i - 1] + w[order[i]]
    <3> DEFINE a == cut[i - 1]
               b == cut[i]
               before == SubSeq(live, 1, a)
               here   == SubSeq(live, a + 1, b)
    <3>1. a \in 0 .. Len(live) /\ b \in a .. Len(live)
      BY <1>5, <1>6
    <3>2. here = part(order[i]) /\ order[i] \in P
      BY <1>2, <1>4 DEF Part
    <3> HIDE DEF a, b
    <3>3. before \o here = SubSeq(live, 1, b)
      BY <1>6, <3>1, ConcatAdjacentSubSeq
    <3>4. before \in Seq(Request)
      <4>1. \A k \in 1 .. a : live[k] \in Request
        BY <1>6, <3>1
      <4> QED
        BY <1>6, <3>1, <4>1, SubSeqProperties
    <3> HIDE DEF before, here, part
    <3>5. here \in Seq(Request)
      BY <1>7, <3>2
    <3>6. Copies(before \o here, r) = Copies(before, r) + Copies(here, r)
      BY <3>4, <3>5, CopiesConcat
    <3>7. g[i] = Copies(SubSeq(live, 1, b), r) /\ g[i - 1] = Copies(before, r)
      BY <1>2 DEF a, b, before
    <3> QED
      BY <3>2, <3>3, <3>6, <3>7
  <2>4. g[n] = Copies(live, r)
    <3>1. cut[n] = Len(live) /\ n \in 0 .. n
      BY <1>2 DEF Cuts
    <3> QED
      BY <3>1, SubSeqFull
  <2> HIDE DEF g, w
  <2>5. g[n] = SumFunctionOnSet(w, P)
    BY <2>1, <2>2, <2>3, SumInOrder
  <2> QED
    BY <2>4, <2>5 DEF w
<1>9. \A r : Copies(live, r) = SumFunctionOnSet(Share(cut, live, order, P, r), P)
  BY <1>8 DEF Share
<1> QED
  BY <1>7, <1>9 DEF Spread

\* What Assign does to the requests in flight, whatever the order of the peers.
Assigned(requests, held, P) ==
  /\ pending_requests' \in [P -> Seq(Request)]
  /\ \A p \in P : Len(pending_requests'[p]) <= BatchSize
  /\ \A p \in P : \A r : Copies(pending_requests'[p], r) > 0 =>
       \/ Copies(held[p], r) > 0
       \/ r \notin completed_requests' /\ ~Exhausted(failed_requests', r)
  /\ \A r \in Request \ completed_requests' :
       AtPeers(pending_requests', r) = AtPeers(held, r) + Copies(requests, r)

LEMMA AssignProperties ==
  ASSUME NEW P, IsFiniteSet(P), NEW held \in [P -> Seq(Request)],
         BatchSize \in Nat, \A p \in P : Len(held[p]) <= BatchSize,
         NEW order \in SetToSeqs(P), NEW requests \in Seq(Request),
         Assign(requests, held, order)
  PROVE  Assigned(requests, held, P)
<1> DEFINE live == Live(requests)
           new == pending_requests'
<1>1. /\ live \in Seq(Request)
      /\ \A r : Copies(live, r) = IF r \in Request \ completed_requests'
                                    THEN Copies(requests, r) ELSE 0
  BY FilterProperties DEF Live
<1>2. \A i \in DOMAIN live : ~Exhausted(failed_requests', live[i])
  BY DEF Assign
<1>3. PICK cut \in [0 .. Len(order) -> 0 .. Len(live)] :
        /\ Cuts(cut, live, held, order)
        /\ new = [p \in DOMAIN held |-> held[p] \o Part(cut, live, order, p)]
  BY DEF Assign, Cuts, Part, At
<1> HIDE DEF live, new
<1>4. /\ \A p \in P : /\ Part(cut, live, order, p) \in Seq(Request)
                      /\ Len(Part(cut, live, order, p)) <= Room(held[p])
      /\ \A p \in P : \A r : Copies(Part(cut, live, order, p), r) > 0 => Copies(live, r) > 0
      /\ \A r : Copies(live, r) = SumFunctionOnSet(Share(cut, live, order, P, r), P)
  <2>1. live \in Seq(Request) /\ Cuts(cut, live, held, order)
    BY <1>1, <1>3
  <2>2. Spread(cut, live, held, order, P)
    BY <2>1, PartProperties
  <2> QED
    BY <2>2 DEF Spread
<1>5. ASSUME NEW p \in P
      PROVE  /\ new[p] \in Seq(Request)
             /\ Len(new[p]) <= BatchSize
             /\ \A r : Copies(new[p], r)
                         = Copies(held[p], r) + Copies(Part(cut, live, order, p), r)
  <2> DEFINE part == Part(cut, live, order, p)
  <2>1. held[p] \in Seq(Request) /\ part \in Seq(Request) /\ new[p] = held[p] \o part
    BY <1>3, <1>4
  <2>2. Len(part) <= BatchSize - Len(held[p])
    BY <1>4 DEF Room
  <2> HIDE DEF part
  <2>3. /\ held[p] \o part \in Seq(Request)
        /\ Len(held[p] \o part) = Len(held[p]) + Len(part)
        /\ Len(held[p]) \in Nat /\ Len(part) \in Nat
    BY <2>1, ConcatProperties, LenProperties
  <2>4. \A r : Copies(held[p] \o part, r) = Copies(held[p], r) + Copies(part, r)
    BY <2>1, CopiesConcat
  <2>5. Len(new[p]) <= BatchSize
    BY <2>1, <2>2, <2>3
  <2> QED
    BY <2>1, <2>3, <2>4, <2>5 DEF part
<1>6. new \in [P -> Seq(Request)]
  BY <1>3, <1>5
<1>7. ASSUME NEW p \in P, NEW r, Copies(new[p], r) > 0
      PROVE  \/ Copies(held[p], r) > 0
             \/ r \notin completed_requests' /\ ~Exhausted(failed_requests', r)
  <2> SUFFICES ASSUME ~(Copies(held[p], r) > 0)
               PROVE  r \notin completed_requests' /\ ~Exhausted(failed_requests', r)
    OBVIOUS
  <2>1. /\ Copies(held[p], r) \in Nat /\ Copies(Part(cut, live, order, p), r) \in Nat
        /\ Copies(new[p], r) = Copies(held[p], r) + Copies(Part(cut, live, order, p), r)
    BY <1>4, <1>5, CopiesType
  <2>2. Copies(Part(cut, live, order, p), r) > 0
    BY <1>7, <2>1
  <2>3. Copies(live, r) > 0
    BY <1>4, <2>2
  <2>4. PICK i \in 1 .. Len(live) : live[i] = r
    BY <1>1, <2>3, CopiesPositive
  <2>5. DOMAIN live = 1 .. Len(live)
    BY <1>1, LenProperties
  <2>6. ~Exhausted(failed_requests', live[i])
    BY <1>2, <2>5
  <2>7. r \in Request \ completed_requests'
    BY <1>1, <2>3
  <2> QED
    BY <2>4, <2>6, <2>7
<1>8. ASSUME NEW r \in Request \ completed_requests'
      PROVE  AtPeers(new, r) = AtPeers(held, r) + Copies(requests, r)
  <2> DEFINE w == [p \in P |-> Copies(new[p], r)]
             u == [p \in P |-> Copies(held[p], r)]
             v == Share(cut, live, order, P, r)
  <2>1. \A p \in P : u[p] \in Nat /\ v[p] \in Nat /\ w[p] = u[p] + v[p]
    BY <1>4, <1>5, CopiesType DEF Share
  <2>2. /\ AtPeers(new, r) = SumFunctionOnSet(w, P)
        /\ AtPeers(held, r) = SumFunctionOnSet(u, P)
    <3>1. new \in [P -> Seq(Request)]
      BY <1>6
    <3>2. AtPeers(new, r) = SumFunctionOnSet(w, P)
      BY <3>1, AtPeersType
    <3>3. AtPeers(held, r) = SumFunctionOnSet(u, P)
      BY AtPeersType
    <3> QED
      BY <3>2, <3>3
  <2>3. Copies(requests, r) = SumFunctionOnSet(v, P)
    BY <1>1, <1>4
  <2> HIDE DEF u, v, w
  <2>4. SumFunctionOnSet(w, P) = SumFunctionOnSet(u, P) + SumFunctionOnSet(v, P)
    BY <2>1, SumPlus
  <2> QED
    BY <2>2, <2>3, <2>4
<1> QED
  BY <1>5, <1>6, <1>7, <1>8 DEF new, Assigned

-----------------------------------------------------------------------------
(* process_sync_queue.                                                     *)

\* What a call on `queue` and `pending` leaves: the types, the bound of the
\* batches, why a request is in flight, and where the copies of a request are.
Worked(queue, pending, P) ==
  /\ pending_requests' \in [P -> Seq(Request)]
  /\ sync_queue' \in Seq(Request)
  /\ abandoned' \in [Request -> Nat]
  /\ status' \in SyncStatus
  /\ \A p \in P : Len(pending_requests'[p]) <= BatchSize
  /\ \A p \in P : \A r : Copies(pending_requests'[p], r) > 0 =>
       \/ Copies(pending[p], r) > 0 /\ r \notin TimedOut
       \/ r \notin completed_requests' /\ ~Exhausted(failed_requests', r)
  /\ \A r \in Request \ completed_requests' :
       Copies(sync_queue', r) + abandoned'[r] + AtPeers(pending_requests', r)
         = Copies(queue, r) + abandoned[r] + AtPeers(pending, r)

\* Only what timed out has failed once more.
FailureCounts(f) == DOMAIN f \subseteq Request /\ f \in [DOMAIN f -> Nat]

Counted(f) ==
  /\ FailureCounts(f)
  /\ \A r \in Request \ TimedOut : RetryCount(f, r) = RetryCount(failed_requests, r)

LEMMA FailuresProperties ==
  ASSUME NEW P, IsFiniteSet(P), NEW pending \in [P -> Seq(Request)],
         NEW order \in SetToSeqs(P),
         FailureCounts(failed_requests)
  PROVE  Counted(Failures(pending, order))
<1> DEFINE late == Requeued(pending, order)
           failed == Failures(pending, order)
<1>1. late \in Seq(Request)
  BY RequeuedProperties
<1>2. failed = [r \in DOMAIN failed_requests \cup Range(late) |->
                  RetryCount(failed_requests, r) + Copies(late, r)]
  BY DEF Failures
<1>3. Range(late) \subseteq Request
  <2>1. DOMAIN late = 1 .. Len(late) /\ \A i \in 1 .. Len(late) : late[i] \in Request
    BY <1>1, LenProperties, ElementOfSeq
  <2> HIDE DEF late
  <2> QED
    BY <2>1 DEF Range
<1>4. \A r \in Request \ TimedOut : Copies(late, r) = 0
  <2> SUFFICES ASSUME NEW r \in Request \ TimedOut
               PROVE  Copies(late, r) = 0
    OBVIOUS
  <2> DEFINE held == Held(pending)
             w == [p \in P |-> Copies(pending[p], r)]
             u == [p \in P |-> Copies(held[p], r)]
  <2>1. /\ held \in [P -> Seq(Request)]
        /\ \A p \in P : Copies(held[p], r) = Copies(pending[p], r)
        /\ AtPeers(pending, r) = AtPeers(held, r) + Copies(late, r)
    BY HeldProperties
  <2> HIDE DEF held, late
  <2>2. u = w
    BY <2>1
  <2>3. AtPeers(pending, r) = SumFunctionOnSet(w, P) /\ AtPeers(pending, r) \in Nat
    BY AtPeersType
  <2>4. AtPeers(held, r) = SumFunctionOnSet(u, P)
    BY <2>1, AtPeersType
  <2>5. Copies(late, r) \in Nat
    BY <1>1, CopiesType
  <2> HIDE DEF u, w
  <2> QED
    BY <2>1, <2>2, <2>3, <2>4, <2>5
<1>5. \A r \in Request : RetryCount(failed_requests, r) \in Nat /\ Copies(late, r) \in Nat
  BY <1>1, CopiesType DEF RetryCount, FailureCounts
<1> HIDE DEF late, failed
<1>6. FailureCounts(failed)
  BY <1>2, <1>3, <1>5 DEF FailureCounts
<1>7. ASSUME NEW r \in Request \ TimedOut
      PROVE  RetryCount(failed, r) = RetryCount(failed_requests, r)
  <2>1. CASE r \in DOMAIN failed_requests \cup Range(late)
    <3>1. failed[r] = RetryCount(failed_requests, r) + 0
      BY <1>2, <1>4, <2>1
    <3>2. RetryCount(failed, r) = failed[r]
      BY <1>2, <2>1 DEF RetryCount
    <3> QED
      BY <1>5, <3>1, <3>2
  <2>2. CASE r \notin DOMAIN failed_requests \cup Range(late)
    BY <1>2, <2>2 DEF RetryCount
  <2> QED
    BY <2>1, <2>2
<1> QED
  BY <1>6, <1>7 DEF failed, Counted

LEMMA ProcessProperties ==
  ASSUME NEW P, IsFiniteSet(P), NEW pending \in [P -> Seq(Request)],
         BatchSize \in Nat, \A p \in P : Len(pending[p]) <= BatchSize,
         NEW queue \in Seq(Request), NEW stat \in SyncStatus,
         abandoned \in [Request -> Nat],
         ProcessSyncQueue(queue, pending, stat)
  PROVE  /\ Worked(queue, pending, P)
         /\ \E order \in SetToSeqs(P) : failed_requests' = Failures(pending, order)
<1> DEFINE held == Held(pending)
           late(order) == Requeued(pending, order)
           now_stat == Stalled(stat)
<1>1. PICK order \in SetToSeqs(P) :
        /\ failed_requests' = Failures(pending, order)
        /\ \/ EmptyQueue(queue \o late(order), held, order, now_stat)
           \/ \E i \in DOMAIN (queue \o late(order)) :
                GiveUp(i, queue \o late(order), held, order, now_stat)
           \/ \E i \in DOMAIN (queue \o late(order)) :
                Postpone(i, queue \o late(order), held, order, now_stat)
  BY DEF ProcessSyncQueue
<1> DEFINE all == queue \o late(order)
<1>2. now_stat \in SyncStatus /\ Idle \in SyncStatus
  BY DEF Stalled, SyncStatus
<1>3. /\ held \in [P -> Seq(Request)]
      /\ \A p \in P : Len(held[p]) <= Len(pending[p])
      /\ \A p \in P : \A r : Copies(held[p], r) = IF r \in Request \ TimedOut
                                                THEN Copies(pending[p], r) ELSE 0
      /\ \A r \in Request : AtPeers(pending, r) = AtPeers(held, r) + Copies(late(order), r)
  BY HeldProperties
<1>4. late(order) \in Seq(Request)
  BY RequeuedProperties
<1> HIDE DEF held, late, now_stat
<1>5. all \in Seq(Request) /\ DOMAIN all = 1 .. Len(all)
  BY <1>4, ConcatProperties, LenProperties
<1>6. \A r : Copies(all, r) = Copies(queue, r) + Copies(late(order), r)
  BY <1>4, CopiesConcat
<1>7. \A p \in P : Len(held[p]) <= BatchSize
  <2>1. \A p \in P : Len(held[p]) \in Nat /\ Len(pending[p]) \in Nat
    BY <1>3, LenProperties
  <2> QED
    BY <1>3, <2>1
<1>8. \A r \in Request :
        /\ AtPeers(held, r) \in Nat /\ abandoned[r] \in Nat /\ Copies(queue, r) \in Nat
        /\ Copies(late(order), r) \in Nat
  BY <1>3, <1>4, AtPeersType, CopiesType
<1> HIDE DEF all
<1> DEFINE Rest(requests) ==
             /\ sync_queue' \in Seq(Request) /\ abandoned' \in [Request -> Nat]
             /\ status' \in SyncStatus
             /\ \A r \in Request \ completed_requests' :
                  Copies(sync_queue', r) + abandoned'[r] + Copies(requests, r)
                    = Copies(all, r) + abandoned[r]
<1>9. ASSUME NEW requests \in Seq(Request), Assign(requests, held, order), Rest(requests)
      PROVE  Worked(queue, pending, P)
  <2>1. Assigned(requests, held, P)
    BY <1>3, <1>7, <1>9, AssignProperties
  <2>2. ASSUME NEW p \in P, NEW r, Copies(pending_requests'[p], r) > 0
        PROVE  \/ Copies(pending[p], r) > 0 /\ r \notin TimedOut
               \/ r \notin completed_requests' /\ ~Exhausted(failed_requests', r)
    <3>1. CASE Copies(held[p], r) > 0
      <4>1. Copies(held[p], r) = IF r \in Request \ TimedOut THEN Copies(pending[p], r) ELSE 0
        BY <1>3
      <4> QED
        BY <3>1, <4>1
    <3> QED
      BY <2>1, <2>2, <3>1 DEF Assigned
  <2>3. ASSUME NEW r \in Request \ completed_requests'
        PROVE  Copies(sync_queue', r) + abandoned'[r] + AtPeers(pending_requests', r)
                 = Copies(queue, r) + abandoned[r] + AtPeers(pending, r)
    <3>1. /\ Copies(sync_queue', r) \in Nat /\ abandoned'[r] \in Nat
          /\ Copies(requests, r) \in Nat
      BY <1>9, CopiesType
    <3>2. Copies(sync_queue', r) + abandoned'[r] + Copies(requests, r)
            = Copies(all, r) + abandoned[r]
      BY <1>9
    <3>3. AtPeers(pending_requests', r) = AtPeers(held, r) + Copies(requests, r)
      BY <2>1 DEF Assigned
    <3>4. AtPeers(pending, r) = AtPeers(held, r) + Copies(late(order), r)
      BY <1>3
    <3>5. Copies(all, r) = Copies(queue, r) + Copies(late(order), r)
      BY <1>6
    <3>6. /\ AtPeers(held, r) \in Nat /\ abandoned[r] \in Nat
          /\ Copies(queue, r) \in Nat /\ Copies(late(order), r) \in Nat
      BY <1>8
    <3>7. Copies(sync_queue', r) + abandoned'[r] + AtPeers(pending_requests', r)
            = (Copies(sync_queue', r) + abandoned'[r] + Copies(requests, r)) + AtPeers(held, r)
      BY <3>1, <3>3, <3>6
    <3>8. Copies(queue, r) + abandoned[r] + AtPeers(pending, r)
            = (Copies(all, r) + abandoned[r]) + AtPeers(held, r)
      BY <3>4, <3>5, <3>6
    <3> QED
      BY <3>2, <3>7, <3>8
  <2> QED
    BY <1>9, <2>1, <2>2, <2>3 DEF Worked, Assigned
<1>10. CASE EmptyQueue(all, held, order, now_stat)
  <2>1. /\ Assign(all, held, order) /\ sync_queue' = <<>> /\ abandoned' = abandoned
        /\ status' \in SyncStatus
    BY <1>2, <1>10 DEF EmptyQueue
  <2>2. <<>> \in Seq(Request) /\ \A r : Copies(<<>>, r) = 0
    BY EmptySeq, CopiesEmpty
  <2>3. ASSUME NEW r \in Request
        PROVE  Copies(sync_queue', r) + abandoned'[r] + Copies(all, r)
                 = Copies(all, r) + abandoned[r]
    BY <1>5, <1>8, <2>1, <2>2, CopiesType
  <2>4. Rest(all)
    BY <2>1, <2>2, <2>3
  <2> HIDE DEF Rest
  <2> QED
    BY <1>1, <1>5, <1>9, <2>1, <2>4
<1>11. CASE \E i \in DOMAIN all : GiveUp(i, all, held, order, now_stat)
  <2>1. PICK i \in 1 .. Len(all) : GiveUp(i, all, held, order, now_stat)
    BY <1>5, <1>11
  <2> DEFINE before == SubSeq(all, 1, i - 1)
             behind == SubSeq(all, i + 1, Len(all))
  <2>2. /\ Assign(before, held, order) /\ sync_queue' = behind
        /\ abandoned' = [abandoned EXCEPT ![all[i]] = @ + 1] /\ status' \in SyncStatus
    BY <1>2, <2>1 DEF GiveUp
  <2>3. /\ before \in Seq(Request) /\ behind \in Seq(Request) /\ all[i] \in Request
        /\ \A r : Copies(all, r) = Copies(before, r) + (IF all[i] = r THEN 1 ELSE 0)
                                     + Copies(behind, r)
    BY <1>5, CopiesSplit
  <2> HIDE DEF before, behind
  <2>4. abandoned' \in [Request -> Nat]
    BY <2>2, <2>3
  <2>5. ASSUME NEW r \in Request
        PROVE  Copies(sync_queue', r) + abandoned'[r] + Copies(before, r)
                 = Copies(all, r) + abandoned[r]
    <3>1. Copies(before, r) \in Nat /\ Copies(behind, r) \in Nat
      BY <2>3, CopiesType
    <3>2. abandoned'[r] = abandoned[r] + (IF all[i] = r THEN 1 ELSE 0)
      BY <1>8, <2>2, <2>3
    <3>3. Copies(all, r) = Copies(before, r) + (IF all[i] = r THEN 1 ELSE 0)
                             + Copies(behind, r)
      BY <2>3
    <3>4. sync_queue' = behind /\ abandoned[r] \in Nat
      BY <1>8, <2>2
    <3> QED
      BY <3>1, <3>2, <3>3, <3>4
  <2>6. Rest(before)
    BY <2>2, <2>3, <2>4, <2>5
  <2> HIDE DEF Rest
  <2> QED
    BY <1>1, <1>9, <2>2, <2>3, <2>6
<1>12. CASE \E i \in DOMAIN all : Postpone(i, all, held, order, now_stat)
  <2>1. PICK i \in 1 .. Len(all) : Postpone(i, all, held, order, now_stat)
    BY <1>5, <1>12
  <2> DEFINE before == SubSeq(all, 1, i - 1)
             behind == SubSeq(all, i + 1, Len(all))
  <2>2. /\ Assign(before, held, order) /\ sync_queue' = Append(behind, all[i])
        /\ abandoned' = abandoned /\ status' \in SyncStatus
    BY <1>2, <2>1 DEF Postpone
  <2>3. /\ before \in Seq(Request) /\ behind \in Seq(Request) /\ all[i] \in Request
        /\ \A r : Copies(all, r) = Copies(before, r) + (IF all[i] = r THEN 1 ELSE 0)
                                     + Copies(behind, r)
    BY <1>5, CopiesSplit
  <2> HIDE DEF before, behind
  <2>4. sync_queue' \in Seq(Request)
    BY <2>2, <2>3, AppendProperties
  <2>5. ASSUME NEW r \in Request
        PROVE  Copies(sync_queue', r) + abandoned'[r] + Copies(before, r)
                 = Copies(all, r) + abandoned[r]
    <3>1. Copies(before, r) \in Nat /\ Copies(behind, r) \in Nat
      BY <2>3, CopiesType
    <3>2. Copies(Append(behind, all[i]), r)
            = Copies(behind, r) + (IF all[i] = r THEN 1 ELSE 0)
      BY <2>3, CopiesAppend
    <3> QED
      BY <1>8, <2>2, <2>3, <3>1, <3>2
  <2>6. Rest(before)
    BY <2>2, <2>3, <2>4, <2>5
  <2> HIDE DEF Rest
  <2> QED
    BY <1>1, <1>9, <2>2, <2>3, <2>6
<1>13. Worked(queue, pending, P)
  BY <1>1, <1>10, <1>11, <1>12 DEF all
<1> QED
  BY <1>1, <1>13

-----------------------------------------------------------------------------
(* The invariant. The bound of the batches is needed for the types (where   *)
(* there is no room left, Assign would take requests back), and the types   *)
(* for all the rest.                                                        *)

Inv == TypeOK /\ BatchesBounded /\ InFlightIsAlive /\ NothingLost

LEMMA RangeCopies ==
  ASSUME NEW S, NEW s \in Seq(S), NEW x
  PROVE  x \in Range(s) <=> Copies(s, x) > 0
<1>1. DOMAIN s = 1 .. Len(s)
  BY LenProperties
<1> QED
  BY <1>1, CopiesPositive DEF Range

\* What Inv says of the current state, with the known peers named.
LEMMA InvFacts ==
  ASSUME SyncAssumption, Inv, NEW P, P = DOMAIN pending_requests
  PROVE  /\ IsFiniteSet(P) /\ P \subseteq Peers /\ BatchSize \in Nat /\ RetryLimit \in Nat
         /\ pending_requests \in [P -> Seq(Request)]
         /\ \A p \in P : Len(pending_requests[p]) <= BatchSize
         /\ \A r \in Request, p \in P : Copies(pending_requests[p], r) > 0 =>
              RetryCount(failed_requests, r) < RetryLimit /\ r \notin completed_requests
         /\ \A r \in Request \ completed_requests :
              submitted[r] = Copies(sync_queue, r) + abandoned[r] + AtPeers(pending_requests, r)
<1>1. IsFiniteSet(P) /\ P \subseteq Peers
  BY FS_Subset DEF Inv, TypeOK, SyncAssumption
<1>2. pending_requests \in [P -> Seq(Request)]
  BY DEF Inv, TypeOK
<1>3. ASSUME NEW r \in Request, NEW p \in P, Copies(pending_requests[p], r) > 0
      PROVE  RetryCount(failed_requests, r) < RetryLimit /\ r \notin completed_requests
  <2>1. r \in Range(pending_requests[p])
    BY <1>2, <1>3, RangeCopies
  <2> QED
    BY <2>1 DEF Inv, InFlightIsAlive, InFlight
<1> QED
  BY <1>1, <1>2, <1>3 DEF Inv, BatchesBounded, NothingLost, AtPeers, SyncAssumption

\* How Inv is shown of the next state.
LEMMA InvNext ==
  ASSUME NEW P, P = DOMAIN pending_requests',
         TypeOK', BatchesBounded',
         \A r \in Request, p \in P : Copies(pending_requests'[p], r) > 0 =>
           RetryCount(failed_requests', r) < RetryLimit /\ r \notin completed_requests',
         \A r \in Request \ completed_requests' :
           submitted'[r] = Copies(sync_queue', r) + abandoned'[r] + AtPeers(pending_requests', r)
  PROVE  Inv'
<1>1. InFlightIsAlive'
  <2> SUFFICES ASSUME NEW r \in Request, NEW p \in P, r \in Range(pending_requests'[p])
               PROVE  RetryCount(failed_requests', r) < RetryLimit /\ r \notin completed_requests'
    BY DEF InFlightIsAlive, InFlight
  <2>1. pending_requests'[p] \in Seq(Request)
    BY DEF TypeOK
  <2>2. Copies(pending_requests'[p], r) > 0
    BY <2>1, RangeCopies
  <2> QED
    BY <2>2
<1>2. NothingLost'
  BY DEF NothingLost, AtPeers
<1> QED
  BY <1>1, <1>2 DEF Inv

LEMMA InitInv == ASSUME SyncAssumption, Init PROVE Inv
<1>1. /\ DOMAIN pending_requests = {} /\ DOMAIN failed_requests = {}
      /\ sync_queue \in Seq(Request)
  BY EmptySeq DEF Init
<1>2. pending_requests \in [{} -> Seq(Request)] /\ failed_requests \in [{} -> Nat]
  BY <1>1 DEF Init
<1>3. TypeOK
  BY <1>1, <1>2 DEF Init, TypeOK, SyncAssumption, SyncStatus, None
<1>4. BatchesBounded /\ InFlightIsAlive
  BY <1>1 DEF BatchesBounded, InFlightIsAlive, InFlight
<1>5. NothingLost
  <2> SUFFICES ASSUME NEW r \in Request
               PROVE  submitted[r] = Copies(sync_queue, r) + abandoned[r]
                                       + AtPeers(pending_requests, r)
    BY DEF NothingLost, AtPeers
  <2>1. submitted[r] = 0 /\ abandoned[r] = 0 /\ Copies(sync_queue, r) = 0
    BY CopiesEmpty DEF Init, None
  <2>2. AtPeers(pending_requests, r) = 0
    BY <1>1, SumEmpty DEF AtPeers, SumFunction
  <2> QED
    BY <2>1, <2>2
<1> QED
  BY <1>3, <1>4, <1>5 DEF Inv

\* A handler that ends with process_sync_queue.
LEMMA ProcessInv ==
  ASSUME SyncAssumption, Inv,
         NEW queue \in Seq(Request), NEW stat \in SyncStatus,
         NEW P, P = DOMAIN pending_requests,
         NEW pending \in [P -> Seq(Request)],
         \A p \in P : Len(pending[p]) <= Len(pending_requests[p]),
         \A p \in P : \A r : Copies(pending[p], r) > 0 =>
           Copies(pending_requests[p], r) > 0 /\ (r \notin completed_requests => r \notin completed_requests'),
         \A r \in Request \ completed_requests' :
           submitted'[r] = Copies(queue, r) + abandoned[r] + AtPeers(pending, r),
         completed_requests' \subseteq Request, now' = now, last_progress' \in 0 .. now,
         submitted' \in [Request -> Nat],
         ProcessSyncQueue(queue, pending, stat)
  PROVE  Inv'
<1>1. /\ IsFiniteSet(P) /\ P \subseteq Peers /\ BatchSize \in Nat /\ RetryLimit \in Nat
      /\ pending_requests \in [P -> Seq(Request)]
      /\ \A p \in P : Len(pending_requests[p]) <= BatchSize
      /\ \A r \in Request, p \in P : Copies(pending_requests[p], r) > 0 =>
           RetryCount(failed_requests, r) < RetryLimit /\ r \notin completed_requests
  BY InvFacts
<1>2. \A p \in P : Len(pending[p]) <= BatchSize
  <2>1. \A p \in P : Len(pending[p]) \in Nat /\ Len(pending_requests[p]) \in Nat
    BY <1>1, LenProperties
  <2> QED
    BY <1>1, <2>1
<1>3. /\ FailureCounts(failed_requests)
      /\ abandoned \in [Request -> Nat] /\ now \in 0 .. MaxTime
  BY DEF Inv, TypeOK, FailureCounts
<1>4. /\ Worked(queue, pending, P)
      /\ \E order \in SetToSeqs(P) : failed_requests' = Failures(pending, order)
  BY <1>1, <1>2, <1>3, ProcessProperties
<1>5. /\ FailureCounts(failed_requests')
      /\ \A r \in Request \ TimedOut :
           RetryCount(failed_requests', r) = RetryCount(failed_requests, r)
  <2>1. PICK order \in SetToSeqs(P) : failed_requests' = Failures(pending, order)
    BY <1>4
  <2>2. FailureCounts(failed_requests) /\ IsFiniteSet(P)
    BY <1>1, <1>3
  <2>3. Counted(Failures(pending, order))
    BY <2>2, FailuresProperties
  <2> QED
    BY <2>1, <2>3 DEF Counted
<1>6. DOMAIN pending_requests' = P
  BY <1>4 DEF Worked
<1>7. TypeOK'
  BY <1>1, <1>3, <1>4, <1>5, <1>6 DEF Worked, TypeOK, FailureCounts
<1>8. BatchesBounded'
  BY <1>4, <1>6 DEF Worked, BatchesBounded
<1>9. ASSUME NEW r \in Request, NEW p \in P, Copies(pending_requests'[p], r) > 0
      PROVE  RetryCount(failed_requests', r) < RetryLimit /\ r \notin completed_requests'
  <2>1. \/ Copies(pending[p], r) > 0 /\ r \notin TimedOut
        \/ r \notin completed_requests' /\ ~Exhausted(failed_requests', r)
    BY <1>4, <1>9 DEF Worked
  <2>2. CASE Copies(pending[p], r) > 0 /\ r \notin TimedOut
    BY <1>1, <1>5, <2>2
  <2>3. CASE r \notin completed_requests' /\ ~Exhausted(failed_requests', r)
    <3>1. RetryCount(failed_requests', r) \in Nat
      BY <1>5 DEF RetryCount, FailureCounts
    <3> QED
      BY <1>1, <2>3, <3>1 DEF Exhausted
  <2> QED
    BY <2>1, <2>2, <2>3
<1>10. ASSUME NEW r \in Request \ completed_requests'
       PROVE  submitted'[r] = Copies(sync_queue', r) + abandoned'[r]
                                + AtPeers(pending_requests', r)
  BY <1>4 DEF Worked
<1> QED
  BY <1>6, <1>7, <1>8, <1>9, <1>10, InvNext

LEMMA TickInv == ASSUME SyncAssumption, Inv, Tick PROVE Inv'
<1> DEFINE P == DOMAIN pending_requests
<1>1. /\ \A r \in Request, p \in P : Copies(pending_requests[p], r) > 0 =>
           RetryCount(failed_requests, r) < RetryLimit /\ r \notin completed_requests
      /\ \A r \in Request \ completed_requests :
           submitted[r] = Copies(sync_queue, r) + abandoned[r] + AtPeers(pending_requests, r)
  BY InvFacts
<1>2. /\ now' = now + 1 /\ now < MaxTime
      /\ UNCHANGED <<status, pending_requests, completed_requests, failed_requests,
                     sync_queue, last_progress, submitted, abandoned>>
  BY DEF Tick, history
<1>3. MaxTime \in Nat
  BY DEF SyncAssumption
<1>4. TypeOK' /\ BatchesBounded'
  BY <1>2, <1>3 DEF Inv, TypeOK, BatchesBounded
<1> QED
  BY <1>1, <1>2, <1>4, InvNext

LEMMA StartSyncInv == ASSUME SyncAssumption, Inv, NEW p \in Peers, StartSync(p) PROVE Inv'
<1> DEFINE P == DOMAIN pending_requests
           old == pending_requests
           new == pending_requests'
<1>1. /\ IsFiniteSet(P) /\ P \subseteq Peers /\ BatchSize \in Nat
      /\ old \in [P -> Seq(Request)]
      /\ \A q \in P : Len(old[q]) <= BatchSize
      /\ \A r \in Request, q \in P : Copies(old[q], r) > 0 =>
           RetryCount(failed_requests, r) < RetryLimit /\ r \notin completed_requests
      /\ \A r \in Request \ completed_requests :
           submitted[r] = Copies(sync_queue, r) + abandoned[r] + AtPeers(old, r)
  BY InvFacts
<1>2. new = [q \in P \cup {p} |-> IF q \in P THEN old[q] ELSE <<>>]
  BY DEF StartSync
<1>3. /\ UNCHANGED <<completed_requests, failed_requests, sync_queue, now, submitted, abandoned>>
      /\ status' \in SyncStatus /\ last_progress' \in 0 .. now'
  BY DEF StartSync, history, Inv, TypeOK, Syncing, SyncStatus
<1>4. <<>> \in Seq(Request) /\ Len(<<>>) = 0 /\ \A r : Copies(<<>>, r) = 0
  BY EmptySeq, CopiesEmpty
<1> HIDE DEF P, old, new
<1>5. DOMAIN new = P \cup {p} /\ new \in [P \cup {p} -> Seq(Request)]
  BY <1>1, <1>2, <1>4
<1>6. TypeOK'
  BY <1>1, <1>3, <1>5 DEF Inv, TypeOK, new
<1>7. BatchesBounded'
  <2>1. \A q \in P \cup {p} : Len(new[q]) <= BatchSize
    BY <1>1, <1>2, <1>4
  <2> QED
    BY <1>5, <2>1 DEF BatchesBounded, new
<1>8. \A r \in Request, q \in P \cup {p} : Copies(new[q], r) > 0 =>
        q \in P /\ Copies(old[q], r) > 0
  BY <1>2, <1>4
<1>9. ASSUME NEW r \in Request
      PROVE  AtPeers(new, r) = AtPeers(old, r)
  <2>1. CASE p \in P
    <3>1. new = old
      BY <1>1, <1>2, <2>1
    <3> QED
      BY <3>1
  <2>2. CASE p \notin P
    <3> DEFINE w == [q \in P \cup {p} |-> Copies(new[q], r)]
               u == [q \in P |-> Copies(old[q], r)]
    <3>1. IsFiniteSet(P \cup {p})
      BY <1>1, FS_AddElement
    <3>2. AtPeers(new, r) = SumFunctionOnSet(w, P \cup {p})
      BY <1>5, <3>1, AtPeersType
    <3>3. AtPeers(old, r) = SumFunctionOnSet(u, P) /\ AtPeers(old, r) \in Nat
      BY <1>1, AtPeersType
    <3>4. /\ \A q \in P \cup {p} : w[q] \in Nat
          /\ \A q \in P : u[q] \in Nat /\ w[q] = u[q]
          /\ w[p] = 0
      BY <1>1, <1>2, <1>4, <1>5, <2>2, CopiesType
    <3> HIDE DEF u, w
    <3>5. SumFunctionOnSet(w, P) = SumFunctionOnSet(u, P)
      BY <1>1, <3>4, SumAgree
    <3>6. SumFunctionOnSet(w, P \cup {p}) = w[p] + SumFunctionOnSet(w, P)
      BY <1>1, <2>2, <3>4, SumAdd
    <3> QED
      BY <3>2, <3>3, <3>4, <3>5, <3>6
  <2> QED
    BY <2>1, <2>2
<1> QED
  BY <1>1, <1>3, <1>5, <1>6, <1>7, <1>8, <1>9, InvNext DEF new

LEMMA HandleRequestInv ==
  ASSUME SyncAssumption, Inv, NEW r0 \in Request, HandleRequest(r0)
  PROVE  Inv'
<1> DEFINE P == DOMAIN pending_requests
           queue == Append(sync_queue, r0)
<1>1. /\ sync_queue \in Seq(Request) /\ status \in SyncStatus
      /\ submitted \in [Request -> Nat] /\ abandoned \in [Request -> Nat]
      /\ completed_requests \subseteq Request /\ last_progress \in 0 .. now
  BY DEF Inv, TypeOK
<1>2. /\ submitted' = [submitted EXCEPT ![r0] = @ + 1]
      /\ UNCHANGED <<completed_requests, last_progress, now>>
      /\ ProcessSyncQueue(queue, pending_requests, status)
  BY DEF HandleRequest
<1>3. /\ IsFiniteSet(P) /\ pending_requests \in [P -> Seq(Request)]
      /\ \A r \in Request \ completed_requests :
           submitted[r] = Copies(sync_queue, r) + abandoned[r] + AtPeers(pending_requests, r)
  BY InvFacts
<1>4. queue \in Seq(Request)
  BY <1>1, AppendProperties
<1>5. \A r : Copies(queue, r) = Copies(sync_queue, r) + (IF r0 = r THEN 1 ELSE 0)
  BY <1>1, CopiesAppend
<1> HIDE DEF P, queue
<1>6. ASSUME NEW r \in Request \ completed_requests'
      PROVE  submitted'[r] = Copies(queue, r) + abandoned[r] + AtPeers(pending_requests, r)
  <2>1. submitted'[r] = submitted[r] + (IF r0 = r THEN 1 ELSE 0)
    BY <1>1, <1>2
  <2>2. submitted[r] = Copies(sync_queue, r) + abandoned[r] + AtPeers(pending_requests, r)
    BY <1>2, <1>3
  <2>3. /\ Copies(sync_queue, r) \in Nat /\ abandoned[r] \in Nat
        /\ AtPeers(pending_requests, r) \in Nat
    BY <1>1, <1>3, CopiesType, AtPeersType
  <2>4. Copies(queue, r) = Copies(sync_queue, r) + (IF r0 = r THEN 1 ELSE 0)
    BY <1>5
  <2> QED
    BY <2>1, <2>2, <2>3, <2>4
<1>7. submitted' \in [Request -> Nat]
  BY <1>1, <1>2
<1>8. \A p \in P : Len(pending_requests[p]) <= Len(pending_requests[p])
  <2>1. \A p \in P : Len(pending_requests[p]) \in Nat
    BY <1>3, LenProperties
  <2> QED
    BY <2>1
<1> QED
  BY <1>1, <1>2, <1>3, <1>4, <1>6, <1>7, <1>8, ProcessInv DEF P

LEMMA HandleResponseInv ==
  ASSUME SyncAssumption, Inv, NEW k \in Keys, HandleResponse(k)
  PROVE  Inv'
<1> DEFINE P == DOMAIN pending_requests
           request  == [key |-> k, timestamp |-> now]
           progress == /\ status.state = "Syncing"
                       /\ BlockNumber[k] > status.current_block
           stat == IF progress THEN [status EXCEPT !.current_block = BlockNumber[k]] ELSE status
           pending == [p \in P |-> Filter(pending_requests[p], Request \ {request})]
<1>1. /\ sync_queue \in Seq(Request) /\ status \in SyncStatus
      /\ submitted \in [Request -> Nat] /\ abandoned \in [Request -> Nat]
      /\ completed_requests \subseteq Request /\ last_progress \in 0 .. now
      /\ now \in 0 .. MaxTime
  BY DEF Inv, TypeOK
<1>2. /\ completed_requests' = completed_requests \cup {request}
      /\ last_progress' = IF progress THEN now ELSE last_progress
      /\ UNCHANGED <<now, submitted>>
      /\ ProcessSyncQueue(sync_queue, pending, stat)
  BY DEF HandleResponse
<1>3. /\ IsFiniteSet(P) /\ pending_requests \in [P -> Seq(Request)]
      /\ \A r \in Request \ completed_requests :
           submitted[r] = Copies(sync_queue, r) + abandoned[r] + AtPeers(pending_requests, r)
  BY InvFacts
<1>4. request \in Request
  BY <1>1 DEF Request
<1>5. stat \in SyncStatus
  <2>1. BlockNumber[k] \in Nat
    BY DEF SyncAssumption
  <2> QED
    BY <1>1, <2>1 DEF SyncStatus, Idle, Error
<1>6. last_progress' \in 0 .. now
  BY <1>1, <1>2
<1> HIDE DEF P, request, progress, stat
<1>7. ASSUME NEW p \in P
      PROVE  /\ pending[p] \in Seq(Request)
             /\ Len(pending[p]) <= Len(pending_requests[p])
             /\ \A r : Copies(pending[p], r) = IF r \in Request \ {request}
                                                 THEN Copies(pending_requests[p], r) ELSE 0
  <2>1. pending_requests[p] \in Seq(Request)
    BY <1>3
  <2> QED
    BY <2>1, FilterProperties
<1>8. pending \in [P -> Seq(Request)]
  BY <1>7
<1> HIDE DEF pending
<1>9. ASSUME NEW r \in Request \ completed_requests'
      PROVE  submitted'[r] = Copies(sync_queue, r) + abandoned[r] + AtPeers(pending, r)
  <2>1. r \in Request \ {request} /\ r \in Request \ completed_requests
    BY <1>2
  <2> DEFINE w == [p \in P |-> Copies(pending[p], r)]
             u == [p \in P |-> Copies(pending_requests[p], r)]
  <2>2. w = u
    BY <1>7, <2>1
  <2>3. /\ AtPeers(pending, r) = SumFunctionOnSet(w, P)
        /\ AtPeers(pending_requests, r) = SumFunctionOnSet(u, P)
    BY <1>3, <1>8, AtPeersType
  <2> HIDE DEF u, w
  <2>4. AtPeers(pending, r) = AtPeers(pending_requests, r)
    BY <2>2, <2>3
  <2> QED
    BY <1>2, <1>3, <2>1, <2>4
<1>10. ASSUME NEW p \in P, NEW r, Copies(pending[p], r) > 0
       PROVE  /\ Copies(pending_requests[p], r) > 0
              /\ r \notin completed_requests => r \notin completed_requests'
  <2>1. r \in Request \ {request}
    BY <1>7, <1>10
  <2> QED
    BY <1>2, <1>7, <1>10, <2>1
<1>11. completed_requests' \subseteq Request /\ submitted' \in [Request -> Nat]
  BY <1>1, <1>2, <1>4
<1>12. \A p \in P : Len(pending[p]) <= Len(pending_requests[p])
  BY <1>7
<1>13. now' = now /\ ProcessSyncQueue(sync_queue, pending, stat)
  BY <1>2
<1> QED
  BY <1>1, <1>5, <1>6, <1>8, <1>9, <1>10, <1>11, <1>12, <1>13, ProcessInv DEF P

LEMMA HandlePeerDisconnectedInv ==
  ASSUME SyncAssumption, Inv, NEW p \in Peers, HandlePeerDisconnected(p)
  PROVE  Inv'
<1> DEFINE P == DOMAIN pending_requests
           old == pending_requests
           new == pending_requests'
<1>1. /\ IsFiniteSet(P) /\ P \subseteq Peers /\ BatchSize \in Nat
      /\ old \in [P -> Seq(Request)]
      /\ \A q \in P : Len(old[q]) <= BatchSize
      /\ \A r \in Request, q \in P : Copies(old[q], r) > 0 =>
           RetryCount(failed_requests, r) < RetryLimit /\ r \notin completed_requests
      /\ \A r \in Request \ completed_requests :
           submitted[r] = Copies(sync_queue, r) + abandoned[r] + AtPeers(old, r)
  BY InvFacts
<1>2. /\ new = [q \in P \ {p} |-> old[q]]
      /\ sync_queue' = IF p \in P THEN sync_queue \o old[p] ELSE sync_queue
  BY DEF HandlePeerDisconnected, TakeBack
<1>3. /\ UNCHANGED <<completed_requests, failed_requests, last_progress, now,
                     submitted, abandoned>>
      /\ status' \in SyncStatus
  <2>1. status \in SyncStatus
    BY DEF Inv, TypeOK
  <2>2. status' = IF status.state = "Syncing"
                    THEN [status EXCEPT !.peers = SaturatingSub(@)] ELSE status
    BY DEF HandlePeerDisconnected
  <2>3. \A n \in Nat : SaturatingSub(n) \in Nat
    BY DEF SaturatingSub
  <2>4. status' \in SyncStatus
    BY <2>1, <2>2, <2>3 DEF SyncStatus, Idle, Error
  <2> QED
    BY <2>4 DEF HandlePeerDisconnected, history
<1>4. /\ sync_queue \in Seq(Request)
      /\ submitted \in [Request -> Nat] /\ abandoned \in [Request -> Nat]
  BY DEF Inv, TypeOK
<1> HIDE DEF P, old, new
<1>5. DOMAIN new = P \ {p} /\ new \in [P \ {p} -> Seq(Request)] /\ IsFiniteSet(P \ {p})
  BY <1>1, <1>2, FS_Subset
<1>6. sync_queue' \in Seq(Request)
  BY <1>1, <1>2, <1>4, ConcatProperties
<1>7. TypeOK'
  BY <1>1, <1>3, <1>5, <1>6 DEF Inv, TypeOK, new
<1>8. BatchesBounded'
  <2>1. \A q \in P \ {p} : Len(new[q]) <= BatchSize
    BY <1>1, <1>2
  <2> QED
    BY <1>5, <2>1 DEF BatchesBounded, new
<1>9. \A r \in Request, q \in P \ {p} : Copies(new[q], r) > 0 => Copies(old[q], r) > 0
  BY <1>2
<1>10. ASSUME NEW r \in Request \ completed_requests'
       PROVE  submitted'[r] = Copies(sync_queue', r) + abandoned'[r] + AtPeers(new, r)
  <2>1. submitted'[r] = Copies(sync_queue, r) + abandoned'[r] + AtPeers(old, r)
    BY <1>1, <1>3
  <2>2. CASE p \in P
    <3> DEFINE u == [q \in P |-> Copies(old[q], r)]
               w == [q \in P \ {p} |-> Copies(new[q], r)]
    <3>1. AtPeers(old, r) = SumFunctionOnSet(u, P)
      BY <1>1, AtPeersType
    <3>2. AtPeers(new, r) = SumFunctionOnSet(w, P \ {p}) /\ AtPeers(new, r) \in Nat
      BY <1>5, AtPeersType
    <3>3. /\ \A q \in P : u[q] \in Nat
          /\ \A q \in P \ {p} : w[q] = u[q]
          /\ u[p] = Copies(old[p], r)
      BY <1>1, <1>2, <2>2, CopiesType
    <3> HIDE DEF u, w
    <3>4. SumFunctionOnSet(u, P) = u[p] + SumFunctionOnSet(u, P \ {p})
      BY <1>1, <2>2, <3>3, SumRemove
    <3>5. SumFunctionOnSet(w, P \ {p}) = SumFunctionOnSet(u, P \ {p})
      BY <1>5, <3>3, SumAgree
    <3>6. Copies(sync_queue', r) = Copies(sync_queue, r) + Copies(old[p], r)
      <4>1. Copies(sync_queue \o old[p], r) = Copies(sync_queue, r) + Copies(old[p], r)
        BY <1>1, <1>4, <2>2, CopiesConcat
      <4> QED
        BY <1>2, <2>2, <4>1
    <3>7. /\ Copies(sync_queue, r) \in Nat /\ Copies(old[p], r) \in Nat
          /\ abandoned'[r] \in Nat
      BY <1>1, <1>3, <1>4, <2>2, CopiesType
    <3>8. AtPeers(old, r) = Copies(old[p], r) + AtPeers(new, r)
      BY <3>1, <3>2, <3>3, <3>4, <3>5
    <3> QED
      BY <2>1, <3>2, <3>6, <3>7, <3>8
  <2>3. CASE p \notin P
    <3>1. P \ {p} = P
      BY <2>3
    <3>2. new = old /\ sync_queue' = sync_queue
      BY <1>1, <1>2, <2>3, <3>1
    <3> QED
      BY <2>1, <3>2
  <2> QED
    BY <2>2, <2>3
<1> QED
  BY <1>1, <1>3, <1>5, <1>7, <1>8, <1>9, <1>10, InvNext DEF new

LEMMA NextInv == ASSUME SyncAssumption, Inv, [Next]_vars PROVE Inv'
<1>1. CASE Tick
  BY <1>1, TickInv
<1>2. ASSUME NEW p \in Peers, StartSync(p) PROVE Inv'
  BY <1>2, StartSyncInv
<1>3. ASSUME NEW r \in Request, HandleRequest(r) PROVE Inv'
  BY <1>3, HandleRequestInv
<1>4. ASSUME NEW k \in Keys, HandleResponse(k) PROVE Inv'
  BY <1>4, HandleResponseInv
<1>5. ASSUME NEW p \in Peers, HandlePeerDisconnected(p) PROVE Inv'
  BY <1>5, HandlePeerDisconnectedInv
<1>6. CASE UNCHANGED vars
  BY <1>6 DEF vars, history, Inv, TypeOK, BatchesBounded, InFlightIsAlive, InFlight, NothingLost
<1> QED
  BY <1>1, <1>2, <1>3, <1>4, <1>5, <1>6 DEF Next

\* sync.rs: types, bounded batches, requests in flight that are alive and copies
\* that are all accounted for keep each other up: none of them is inductive alone.
THEOREM InvHolds == Spec => []Inv
<1>1. Init => Inv
  BY SyncAssumption, InitInv
<1>2. Inv /\ [Next]_vars => Inv'
  BY SyncAssumption, NextInv
<1> QED
  BY <1>1, <1>2, PTL DEF Spec

-----------------------------------------------------------------------------

\* The state of the synchronisation has the types of SyncState.
THEOREM TypeCorrect == Spec => []TypeOK
<1>1. Inv => TypeOK
  BY DEF Inv
<1> QED
  BY <1>1, InvHolds, PTL

\* No peer ever has more than batch_size requests in flight.
THEOREM BatchesStayBounded == Spec => []BatchesBounded
<1>1. Inv => BatchesBounded
  BY DEF Inv
<1> QED
  BY <1>1, InvHolds, PTL

\* No request is in flight that is completed or out of retries.
THEOREM InFlightStaysAlive == Spec => []InFlightIsAlive
<1>1. Inv => InFlightIsAlive
  BY DEF Inv
<1> QED
  BY <1>1, InvHolds, PTL

\* Every copy submitted of a request that is not completed is in the queue, in
\* flight at one peer, or was given up at its retry limit.
THEOREM NothingIsLost == Spec => []NothingLost
<1>1. Inv => NothingLost
  BY DEF Inv
<1> QED
  BY <1>1, InvHolds, PTL

-----------------------------------------------------------------------------
(* Given up.                                                               *)

LEMMA RequestFinite == ASSUME SyncAssumption PROVE IsFiniteSet(Request)
<1> DEFINE Pairs == Keys \X (0 .. MaxTime)
           f == [x \in Pairs |-> [key |-> x[1], timestamp |-> x[2]]]
<1>1. IsFiniteSet(0 .. MaxTime)
  BY FS_Interval DEF SyncAssumption
<1>2. IsFiniteSet(Pairs)
  BY <1>1, FS_Product DEF SyncAssumption
<1>3. f \in [Pairs -> Request]
  BY DEF Request
<1>4. \A r \in Request : \E x \in Pairs : f[x] = r
  <2> SUFFICES ASSUME NEW r \in Request
               PROVE  \E x \in Pairs : f[x] = r
    OBVIOUS
  <2>1. <<r.key, r.timestamp>> \in Pairs
    BY DEF Request
  <2>2. f[<<r.key, r.timestamp>>] = r
    BY <2>1 DEF Request
  <2> QED
    BY <2>1, <2>2
<1>5. f \in Surjection(Pairs, Request)
  BY <1>3, <1>4 DEF Surjection
<1> QED
  BY <1>2, <1>5, FS_Surjection

\* The request that is counted when one is given up.
GivesUpOne == \E r \in Request : abandoned' = [abandoned EXCEPT ![r] = @ + 1]

LEMMA ProcessGivesUp ==
  ASSUME NEW P, IsFiniteSet(P), NEW pending \in [P -> Seq(Request)],
         NEW queue \in Seq(Request), NEW stat, ProcessSyncQueue(queue, pending, stat)
  PROVE  abandoned' = abandoned \/ GivesUpOne
<1>1. PICK order \in SetToSeqs(P) :
        LET all  == queue \o Requeued(pending, order)
            held == Held(pending)
        IN  \/ EmptyQueue(all, held, order, Stalled(stat))
            \/ \E i \in DOMAIN all : GiveUp(i, all, held, order, Stalled(stat))
            \/ \E i \in DOMAIN all : Postpone(i, all, held, order, Stalled(stat))
  BY DEF ProcessSyncQueue
<1> DEFINE all == queue \o Requeued(pending, order)
<1>2. Requeued(pending, order) \in Seq(Request)
  BY RequeuedProperties
<1>3. all \in Seq(Request)
  BY <1>2, ConcatProperties
<1>4. \A i \in DOMAIN all : all[i] \in Request
  <2> HIDE DEF all
  <2> QED
    BY <1>3, LenProperties, ElementOfSeq
<1> QED
  BY <1>1, <1>4 DEF EmptyQueue, GiveUp, Postpone, GivesUpOne

\* A step gives up at most one request.
LEMMA GivesUpAtMostOne ==
  ASSUME SyncAssumption, Inv, [Next]_vars
  PROVE  abandoned' = abandoned \/ GivesUpOne
<1> DEFINE P == DOMAIN pending_requests
<1>1. IsFiniteSet(P) /\ pending_requests \in [P -> Seq(Request)]
  BY InvFacts
<1>2. sync_queue \in Seq(Request)
  BY DEF Inv, TypeOK
<1>3. ASSUME NEW r \in Request, HandleRequest(r)
      PROVE  abandoned' = abandoned \/ GivesUpOne
  <2>1. Append(sync_queue, r) \in Seq(Request)
    BY <1>2, AppendProperties
  <2>2. ProcessSyncQueue(Append(sync_queue, r), pending_requests, status)
    BY <1>3 DEF HandleRequest
  <2> QED
    BY <1>1, <2>1, <2>2, ProcessGivesUp
<1>4. ASSUME NEW k \in Keys, HandleResponse(k)
      PROVE  abandoned' = abandoned \/ GivesUpOne
  <2> DEFINE rest == Request \ {[key |-> k, timestamp |-> now]}
             pending == [p \in P |-> Filter(pending_requests[p], rest)]
  <2>1. PICK stat : ProcessSyncQueue(sync_queue, pending, stat)
    BY <1>4 DEF HandleResponse
  <2> HIDE DEF rest
  <2>2. \A p \in P : Filter(pending_requests[p], rest) \in Seq(Request)
    BY <1>1, FilterProperties
  <2>3. pending \in [P -> Seq(Request)]
    BY <2>2
  <2> HIDE DEF pending
  <2> QED
    BY <1>1, <1>2, <2>1, <2>3, ProcessGivesUp
<1>5. ASSUME NEW p \in Peers, StartSync(p) \/ HandlePeerDisconnected(p)
      PROVE  abandoned' = abandoned
  BY <1>5 DEF StartSync, HandlePeerDisconnected, history
<1>6. CASE Tick \/ UNCHANGED vars
  BY <1>6 DEF Tick, vars, history
<1> QED
  BY <1>3, <1>4, <1>5, <1>6 DEF Next

=============================================================================

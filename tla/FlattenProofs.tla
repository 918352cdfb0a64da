--------------------------- MODULE FlattenProofs ----------------------------
(* Lemmas about the operators on sets of numbers and sequences that the     *)
(* algorithms are built from: Min, Max and FlattenSeq.                      *)
EXTENDS Integers, FiniteSetsExt, SequencesExt, SequenceTheorems, FunctionTheorems,
        WellFoundedInduction, TLAPS

-----------------------------------------------------------------------------
(* Least and greatest numbers, and induction.                               *)

\* A non-empty set of natural numbers has a least one.
LEMMA MinFacts ==
    ASSUME NEW T, T \subseteq Nat, T # {}
    PROVE  Min(T) \in T /\ \A j \in T : Min(T) <= j
<1> DEFINE R == OpToRel(<, Nat)
<1>1. \E i \in T : \A j \in T : ~ (<<j, i>> \in R)
  <2>1. IsWellFoundedOn(R, Nat)
    BY NatLessThanWellFounded
  <2> HIDE DEF R
  <2> QED
    BY <2>1, WFMin
<1>2. \A i, j \in T : ~ (<<j, i>> \in R) => i <= j
  BY DEF OpToRel
<1>3. \E i \in T : \A j \in T : i <= j
  BY <1>1, <1>2
<1> QED
  BY <1>3 DEF Min

\* A non-empty set of numbers up to n has a greatest one.
LEMMA MaxFacts ==
    ASSUME NEW n \in Nat, NEW T, T \subseteq 0 .. n, T # {}
    PROVE  Max(T) \in T /\ \A j \in T : Max(T) >= j
<1> DEFINE U == {n - i : i \in T}
<1>1. U \subseteq Nat /\ U # {}
  <2>1. \A i \in T : n - i \in Nat
    OBVIOUS
  <2>2. \E i : i \in T
    OBVIOUS
  <2> QED
    BY <2>1, <2>2
<1>2. Min(U) \in U /\ \A j \in U : Min(U) <= j
  BY <1>1, MinFacts
<1>3. PICK m \in T : Min(U) = n - m
  BY <1>2
<1>4. \A j \in T : n - m <= n - j
  BY <1>2, <1>3
<1>5. \A j \in T : m >= j
  BY <1>3, <1>4
<1> QED
  BY <1>3, <1>5 DEF Max

\* Induction up to n, for membership in a set.
LEMMA BoundedInduction ==
    ASSUME NEW n \in Nat, NEW T, 0 \in T, \A i \in 0 .. n - 1 : i \in T => i + 1 \in T
    PROVE  \A i \in 0 .. n : i \in T
<1> DEFINE U == {i \in 0 .. n : i \notin T}
<1> SUFFICES ASSUME U # {} PROVE FALSE
  OBVIOUS
<1>1. U \subseteq Nat
  OBVIOUS
<1>2. Min(U) \in U /\ \A j \in U : Min(U) <= j
  BY <1>1, MinFacts
<1> DEFINE m == Min(U)
<1>3. m \in 0 .. n /\ m \notin T /\ \A j \in 0 .. n : j \notin T => m <= j
  BY <1>2
<1> HIDE DEF m
<1>4. m # 0
  BY <1>3
<1>5. m - 1 \in 0 .. n - 1 /\ m - 1 \in 0 .. n /\ ~ (m <= m - 1) /\ m - 1 + 1 = m
  BY <1>3, <1>4
<1>6. m - 1 \in T
  BY <1>3, <1>5
<1> QED
  BY <1>3, <1>5, <1>6

-----------------------------------------------------------------------------
(* FlattenSeq: its parts g are what it has put together so far.             *)

Parts(S, s, g) ==
    /\ g \in [0 .. Len(s) -> Seq(S)]
    /\ g[0] = <<>>
    /\ \A i \in 1 .. Len(s) : g[i] = g[i - 1] \o s[i]

\* There are such parts.
LEMMA PartsExist ==
    ASSUME NEW S, NEW s \in Seq(Seq(S))
    PROVE  \E g : Parts(S, s, g)
<1> DEFINE n == Len(s)
           Upto(k, g) == /\ g \in [0 .. k -> Seq(S)] /\ g[0] = <<>>
                         /\ \A i \in 1 .. k : g[i] = g[i - 1] \o s[i]
           T == {k \in 0 .. n : \E g : Upto(k, g)}
<1>1. n \in Nat
  OBVIOUS
<1>2. \A i \in 1 .. n : s[i] \in Seq(S)
  OBVIOUS
<1> HIDE DEF n
<1>3. 0 \in T
  <2>1. Upto(0, [i \in 0 .. 0 |-> <<>>])
    OBVIOUS
  <2> HIDE DEF Upto
  <2> QED
    BY <1>1, <2>1
<1>4. ASSUME NEW k \in 0 .. n - 1, k \in T PROVE k + 1 \in T
  <2>1. PICK g : Upto(k, g)
    BY <1>4
  <2> DEFINE h == [i \in 0 .. k + 1 |-> IF i = k + 1 THEN g[k] \o s[k + 1] ELSE g[i]]
  <2>2. k \in Nat /\ k \in 0 .. k /\ k + 1 \in 1 .. n /\ \A i \in 0 .. k + 1 : i # k + 1 => i \in 0 .. k
    BY <1>1
  <2>3. g[k] \o s[k + 1] \in Seq(S)
    BY <1>2, <2>1, <2>2, ConcatProperties
  <2>4. h \in [0 .. k + 1 -> Seq(S)]
    BY <2>1, <2>2, <2>3
  <2>5. h[0] = <<>>
    BY <2>1, <2>2
  <2>6. ASSUME NEW i \in 1 .. k + 1 PROVE h[i] = h[i - 1] \o s[i]
    <3>1. CASE i = k + 1
      <4>1. i \in 0 .. k + 1 /\ i - 1 = k /\ i - 1 \in 0 .. k + 1 /\ i - 1 # k + 1
        BY <2>2, <3>1
      <4> QED
        BY <3>1, <4>1
    <3>2. CASE i # k + 1
      <4>1. i \in 0 .. k + 1 /\ i - 1 \in 0 .. k + 1 /\ i - 1 # k + 1 /\ i \in 1 .. k
        BY <2>2, <3>2
      <4> QED
        BY <2>1, <3>2, <4>1
    <3> QED
      BY <3>1, <3>2
  <2>7. Upto(k + 1, h)
    BY <2>4, <2>5, <2>6
  <2>8. k + 1 \in 0 .. n
    BY <1>1
  <2> HIDE DEF h, Upto
  <2> QED
    BY <2>7, <2>8
<1>5. n \in T
  <2> HIDE DEF T
  <2>1. \A i \in 0 .. n : i \in T
    BY <1>1, <1>3, <1>4, BoundedInduction
  <2> QED
    BY <1>1, <2>1
<1> QED
  BY <1>5 DEF n, Parts

\* They end in FlattenSeq.
LEMMA FlattenIsLastPart ==
    ASSUME NEW S, NEW s \in Seq(Seq(S)), NEW g, Parts(S, s, g)
    PROVE  FlattenSeq(s) = g[Len(s)]
<1> DEFINE n == Len(s)
           Eq(f) == f = [i \in 1 .. n |-> IF i = 1 THEN s[i] ELSE f[i - 1] \o s[i]]
           flatten == CHOOSE f : Eq(f)
<1>1. /\ n \in Nat /\ g \in [0 .. n -> Seq(S)] /\ g[0] = <<>>
      /\ \A i \in 1 .. n : g[i] = g[i - 1] \o s[i] /\ s[i] \in Seq(S)
  BY DEF Parts
<1>2. FlattenSeq(s) = IF n = 0 THEN s ELSE flatten[n]
  BY DEF FlattenSeq
<1>3. CASE n = 0
  BY <1>1, <1>2, <1>3, EmptySeq
<1>4. CASE n # 0
  <2> HIDE DEF n
  <2> DEFINE f0 == [i \in 1 .. n |-> g[i]]
  <2>1. ASSUME NEW i \in 1 .. n PROVE f0[i] = IF i = 1 THEN s[i] ELSE f0[i - 1] \o s[i]
    <3>1. CASE i = 1
      <4>1. g[1] = g[0] \o s[1] /\ s[1] \in Seq(S)
        <5>1. 1 \in 1 .. n /\ 1 - 1 = 0
          BY <3>1
        <5>2. g[1] = g[1 - 1] \o s[1] /\ s[1] \in Seq(S)
          BY <1>1, <5>1
        <5> QED
          BY <5>1, <5>2
      <4>2. <<>> \o s[1] = s[1]
        BY <4>1, ConcatEmptySeq
      <4> QED
        BY <1>1, <3>1, <4>1, <4>2
    <3>2. CASE i # 1
      <4>1. i - 1 \in 1 .. n
        BY <1>1, <3>2
      <4> QED
        BY <1>1, <3>2, <4>1
    <3> QED
      BY <3>1, <3>2
  <2>2. Eq(f0)
    BY <2>1
  <2>3. Eq(flatten)
    <3> HIDE DEF f0, Eq
    <3> QED
      BY <2>2
  <2>3a. \A i \in 1 .. n : flatten[i] = IF i = 1 THEN s[i] ELSE flatten[i - 1] \o s[i]
    <3> DEFINE e == [i \in 1 .. n |-> IF i = 1 THEN s[i] ELSE flatten[i - 1] \o s[i]]
    <3>1. flatten = e
      BY <2>3
    <3>2. \A i \in 1 .. n : e[i] = IF i = 1 THEN s[i] ELSE flatten[i - 1] \o s[i]
      OBVIOUS
    <3> HIDE DEF e, flatten
    <3> QED
      BY <3>1, <3>2
  <2> HIDE DEF flatten
  <2> DEFINE T == {i \in 0 .. n : i # 0 => flatten[i] = g[i]}
  <2>4. 0 \in T
    BY <1>1
  <2>5. ASSUME NEW i \in 0 .. n - 1, i \in T PROVE i + 1 \in T
    <3>1. i + 1 \in 0 .. n /\ i + 1 \in 1 .. n /\ i + 1 - 1 = i
      BY <1>1
    <3>2. flatten[i + 1] = IF i + 1 = 1 THEN s[i + 1] ELSE flatten[i] \o s[i + 1]
      <4>1. flatten[i + 1] = IF i + 1 = 1 THEN s[i + 1] ELSE flatten[i + 1 - 1] \o s[i + 1]
        BY <2>3a, <3>1
      <4> QED
        BY <3>1, <4>1
    <3>3. g[i + 1] = g[i] \o s[i + 1]
      <4> DEFINE k == i + 1
      <4>1. \A j \in 1 .. n : g[j] = g[j - 1] \o s[j]
        BY <1>1
      <4>2. k \in 1 .. n /\ k - 1 = i
        BY <3>1
      <4> HIDE DEF k
      <4>3. g[k] = g[i] \o s[k]
        BY <4>1, <4>2
      <4> QED
        BY <4>3 DEF k
    <3>4. CASE i = 0
      <4>1. <<>> \o s[i + 1] = s[i + 1]
        BY <1>1, <3>1, ConcatEmptySeq
      <4>2. i + 1 = 1 /\ g[i] = <<>>
        BY <1>1, <3>4
      <4>3. flatten[i + 1] = s[i + 1] /\ g[i + 1] = s[i + 1]
        BY <3>2, <3>3, <4>1, <4>2
      <4> QED
        BY <3>1, <4>3
    <3>5. CASE i # 0
      <4>1. flatten[i] = g[i] /\ i + 1 # 1
        BY <2>5, <3>5
      <4> QED
        BY <3>1, <3>2, <3>3, <4>1
    <3> QED
      BY <3>4, <3>5
  <2>6. n \in T
    <3> HIDE DEF T
    <3>1. \A i \in 0 .. n : i \in T
      BY <1>1, <2>4, <2>5, BoundedInduction
    <3> QED
      BY <1>1, <3>1
  <2> QED
    BY <1>2, <1>4, <2>6 DEF n
<1> QED
  BY <1>3, <1>4

\* The parts g of n sequences: lengths grow; the elements of the i-th sequence follow what was
\* put together before it, and nothing else is there.
Placed(S, s, g, n) ==
    /\ g[n] \in Seq(S)
    /\ \A i \in 0 .. n : Len(g[i]) \in Nat
    /\ \A i \in 1 .. n : Len(g[i]) = Len(g[i - 1]) + Len(s[i])
    /\ \A i, j \in 0 .. n : i <= j => Len(g[i]) <= Len(g[j])
    /\ \A i \in 1 .. n : \A k \in 1 .. Len(s[i]) :
         Len(g[i - 1]) + k \in 1 .. Len(g[n]) /\ g[n][Len(g[i - 1]) + k] = s[i][k]
    /\ \A p \in 1 .. Len(g[n]) :
         \E i \in 1 .. n : \E k \in 1 .. Len(s[i]) : p = Len(g[i - 1]) + k

\* Each part begins with the ones before it, so that every element has its place.
LEMMA PartsPositions ==
    ASSUME NEW S, NEW s \in Seq(Seq(S)), NEW g, Parts(S, s, g)
    PROVE  Placed(S, s, g, Len(s))
<1> DEFINE n == Len(s)
           l(i) == Len(g[i])
           Good(j) == /\ \A i \in 0 .. j : l(i) <= l(j)
                      /\ \A i \in 1 .. j : \A k \in 1 .. Len(s[i]) :
                           l(i - 1) + k \in 1 .. l(j) /\ g[j][l(i - 1) + k] = s[i][k]
                      /\ \A p \in 1 .. l(j) :
                           \E i \in 1 .. j : \E k \in 1 .. Len(s[i]) : p = l(i - 1) + k
           T == {j \in 0 .. n : Good(j)}
<1>1. n \in Nat
  OBVIOUS
<1>2. /\ \A i \in 0 .. n : g[i] \in Seq(S)
      /\ \A i \in 1 .. n : s[i] \in Seq(S)
  BY DEF Parts
<1>3. g[0] = <<>> /\ \A i \in 1 .. n : g[i] = g[i - 1] \o s[i]
  BY DEF Parts
<1> HIDE DEF n
<1>4. /\ \A i \in 0 .. n : l(i) \in Nat
      /\ \A i \in 1 .. n : Len(s[i]) \in Nat
      /\ l(0) = 0
  BY <1>2, <1>3
<1>5. ASSUME NEW i \in 1 .. n
      PROVE  /\ l(i) = l(i - 1) + Len(s[i])
             /\ \A p \in 1 .. l(i) :
                  g[i][p] = IF p <= l(i - 1) THEN g[i - 1][p] ELSE s[i][p - l(i - 1)]
  <2>1. i - 1 \in 0 .. n
    BY <1>1
  <2>2. g[i - 1] \in Seq(S) /\ s[i] \in Seq(S) /\ g[i] = g[i - 1] \o s[i]
    BY <1>2, <1>3, <2>1
  <2> DEFINE a == g[i - 1]
             b == s[i]
  <2>3. a \in Seq(S) /\ b \in Seq(S) /\ g[i] = a \o b
    BY <2>2
  <2> HIDE DEF a, b
  <2>4. /\ Len(a \o b) = Len(a) + Len(b)
        /\ \A p \in 1 .. Len(a) + Len(b) : (a \o b)[p] = IF p <= Len(a) THEN a[p] ELSE b[p - Len(a)]
    BY <2>3, ConcatProperties
  <2> QED
    BY <2>3, <2>4 DEF a, b
<1> HIDE DEF l
<1>6. Good(0)
  BY <1>4
<1>7. ASSUME NEW j \in 0 .. n - 1, Good(j) PROVE Good(j + 1)
  <2> DEFINE m == j + 1
  <2>1. m \in 1 .. n /\ m \in 0 .. n /\ m - 1 = j /\ j \in 0 .. n /\ m \in Nat /\ j \in Nat
    BY <1>1
  <2>2. /\ l(m) = l(j) + Len(s[m])
        /\ \A p \in 1 .. l(m) : g[m][p] = IF p <= l(j) THEN g[j][p] ELSE s[m][p - l(j)]
    <3>1. /\ l(m) = l(m - 1) + Len(s[m])
          /\ \A p \in 1 .. l(m) :
               g[m][p] = IF p <= l(m - 1) THEN g[m - 1][p] ELSE s[m][p - l(m - 1)]
      BY <1>5, <2>1
    <3> QED
      BY <2>1, <3>1
  <2>3. l(j) \in Nat /\ l(m) \in Nat /\ Len(s[m]) \in Nat /\ \A i \in 0 .. j : l(i) \in Nat
    BY <1>1, <1>4, <2>1
  <2>4. \A i \in 0 .. m : l(i) <= l(m)
    <3>1. \A i \in 0 .. m : i = m \/ i \in 0 .. j
      BY <2>1
    <3>2. ASSUME NEW i \in 0 .. j PROVE l(i) <= l(m)
      <4>1. l(i) <= l(j)
        BY <1>7
      <4> QED
        BY <2>2, <2>3, <4>1
    <3>3. l(m) <= l(m)
      BY <2>3
    <3> QED
      BY <3>1, <3>2, <3>3
  <2>5. ASSUME NEW i \in 1 .. m, NEW k \in 1 .. Len(s[i])
        PROVE  l(i - 1) + k \in 1 .. l(m) /\ g[m][l(i - 1) + k] = s[i][k]
    <3>1. CASE i = m
      <4>1. l(j) + k \in 1 .. l(m) /\ ~ (l(j) + k <= l(j)) /\ l(j) + k - l(j) = k
        BY <2>2, <2>3, <3>1
      <4>2. g[m][l(j) + k] = s[m][k]
        <5> DEFINE p == l(j) + k
        <5>1. p \in 1 .. l(m) /\ ~ (p <= l(j)) /\ p - l(j) = k
          BY <2>2, <2>3, <3>1
        <5> HIDE DEF p
        <5>2. g[m][p] = s[m][p - l(j)]
          BY <2>2, <5>1
        <5> QED
          BY <5>1, <5>2 DEF p
      <4>3. i - 1 = j
        BY <2>1, <3>1
      <4> QED
        BY <3>1, <4>1, <4>2, <4>3
    <3>2. CASE i # m
      <4>1. i \in 1 .. j
        BY <2>1, <3>2
      <4>2. l(i - 1) + k \in 1 .. l(j) /\ g[j][l(i - 1) + k] = s[i][k]
        BY <1>7, <4>1
      <4>3. \A p \in 1 .. l(j) : p \in 1 .. l(m) /\ p <= l(j)
        BY <2>2, <2>3
      <4> QED
        BY <2>2, <4>2, <4>3
    <3> QED
      BY <3>1, <3>2
  <2>6. ASSUME NEW p \in 1 .. l(m)
        PROVE  \E i \in 1 .. m : \E k \in 1 .. Len(s[i]) : p = l(i - 1) + k
    <3>1. CASE p <= l(j)
      <4>1. p \in 1 .. l(j)
        BY <2>3, <3>1
      <4>2. PICK i \in 1 .. j : \E k \in 1 .. Len(s[i]) : p = l(i - 1) + k
        BY <1>7, <4>1
      <4>3. i \in 1 .. m
        BY <2>1
      <4> QED
        BY <4>2, <4>3
    <3>2. CASE ~ (p <= l(j))
      <4>1. p - l(j) \in 1 .. Len(s[m]) /\ p = l(j) + (p - l(j))
        BY <2>2, <2>3, <3>2
      <4>2. m \in 1 .. m /\ p = l(m - 1) + (p - l(j))
        BY <2>1, <4>1
      <4> QED
        BY <4>1, <4>2
    <3> QED
      BY <3>1, <3>2
  <2> QED
    BY <2>4, <2>5, <2>6
<1>8. \A j \in 0 .. n : Good(j)
  <2> HIDE DEF Good
  <2>1. 0 \in T
    BY <1>1, <1>6
  <2>2. \A j \in 0 .. n - 1 : j \in T => j + 1 \in T
    <3>1. \A j \in 0 .. n - 1 : j + 1 \in 0 .. n
      BY <1>1
    <3> QED
      BY <1>7, <3>1
  <2> HIDE DEF T
  <2>3. \A j \in 0 .. n : j \in T
    BY <1>1, <2>1, <2>2, BoundedInduction
  <2> QED
    BY <2>3 DEF T
<1>9. \A i, j \in 0 .. n : i <= j => l(i) <= l(j)
  <2> SUFFICES ASSUME NEW i \in 0 .. n, NEW j \in 0 .. n, i <= j PROVE l(i) <= l(j)
    OBVIOUS
  <2>1. i \in 0 .. j
    BY <1>1
  <2> QED
    BY <1>8, <2>1
<1>10. n \in 0 .. n /\ Good(n)
  <2>1. n \in 0 .. n
    BY <1>1
  <2> HIDE DEF Good
  <2> QED
    BY <1>8, <2>1
<1> QED
  BY <1>2, <1>4, <1>5, <1>9, <1>10 DEF n, l, Placed

\* FlattenSeq has the elements of its sequences and no other.
LEMMA FlattenType ==
    ASSUME NEW S, NEW s \in Seq(Seq(S))
    PROVE  FlattenSeq(s) \in Seq(S)
<1>1. PICK g : Parts(S, s, g)
  BY PartsExist
<1>2. FlattenSeq(s) = g[Len(s)]
  BY <1>1, FlattenIsLastPart
<1>3. g[Len(s)] \in Seq(S)
  BY <1>1, PartsPositions DEF Placed
<1> QED
  BY <1>2, <1>3

-----------------------------------------------------------------------------
(* A selection from a sequence: the elements of e with an index in I, in order. *)

Picks(I, e) == [x \in DOMAIN e |-> IF x \in I THEN <<e[x]>> ELSE <<>>]

Picked(I, e) == FlattenSeq(Picks(I, e))

\* What is flattened to select.
LEMMA PicksFacts ==
    ASSUME NEW S, NEW e \in Seq(S), NEW I
    PROVE  /\ Picks(I, e) \in Seq(Seq(S)) /\ Len(Picks(I, e)) = Len(e)
           /\ \A x \in 1 .. Len(e) : /\ x \in I => Picks(I, e)[x] = <<e[x]>>
                                     /\ x \notin I => Picks(I, e)[x] = <<>>
<1>1. Len(e) \in Nat /\ DOMAIN e = 1 .. Len(e) /\ \A x \in 1 .. Len(e) : e[x] \in S
  OBVIOUS
<1> DEFINE n == Len(e)
           q == Picks(I, e)
<1>2. \A x \in 1 .. n : /\ q[x] = IF x \in I THEN <<e[x]>> ELSE <<>>
  BY <1>1 DEF Picks
<1>3. DOMAIN q = 1 .. n /\ q = [x \in 1 .. n |-> q[x]]
  BY <1>1 DEF Picks
<1>4. \A x \in 1 .. n : <<e[x]>> \in Seq(S) /\ <<>> \in Seq(S)
  BY <1>1
<1>5. \A x \in 1 .. n : q[x] \in Seq(S)
  BY <1>2, <1>4
<1> HIDE DEF n, q
<1>6. q \in Seq(Seq(S)) /\ Len(q) = n
  <2>1. n \in Nat
    BY <1>1 DEF n
  <2>2. q \in [1 .. n -> Seq(S)]
    BY <1>3, <1>5
  <2> QED
    BY <2>1, <2>2, <1>3
<1> QED
  BY <1>2, <1>6 DEF n, q

\* The places in F of the elements of e with an index in I.
Places(I, e, F, at) ==
    /\ at \in [I -> 1 .. Len(F)]
    /\ \A x \in I : F[at[x]] = e[x]
    /\ \A x, y \in I : at[x] = at[y] => x = y
    /\ \A k \in 1 .. Len(F) : \E x \in I : at[x] = k

\* Every index that is selected has a place of its own, and there is no other place.
LEMMA PickedPositions ==
    ASSUME NEW S, NEW e \in Seq(S), NEW I \in SUBSET (1 .. Len(e))
    PROVE  Picked(I, e) \in Seq(S) /\ \E at : Places(I, e, Picked(I, e), at)
<1> DEFINE s == Picks(I, e)
           n == Len(e)
<1>1. /\ s \in Seq(Seq(S)) /\ Len(s) = n /\ n \in Nat
      /\ \A x \in 1 .. n : (x \in I => s[x] = <<e[x]>>) /\ (x \notin I => s[x] = <<>>)
  BY PicksFacts
<1> HIDE DEF s, n
<1>2. PICK g : Parts(S, s, g)
  BY <1>1, PartsExist
<1> DEFINE F == g[n]
<1>3. Picked(I, e) = F
  <2>1. FlattenSeq(s) = g[Len(s)]
    BY <1>1, <1>2, FlattenIsLastPart
  <2> QED
    BY <1>1, <2>1 DEF Picked, s
<1>4. /\ F \in Seq(S)
      /\ \A i \in 0 .. n : Len(g[i]) \in Nat
      /\ \A i \in 1 .. n : Len(g[i]) = Len(g[i - 1]) + Len(s[i])
      /\ \A i, j \in 0 .. n : i <= j => Len(g[i]) <= Len(g[j])
      /\ \A i \in 1 .. n : \A k \in 1 .. Len(s[i]) :
           Len(g[i - 1]) + k \in 1 .. Len(F) /\ F[Len(g[i - 1]) + k] = s[i][k]
      /\ \A p \in 1 .. Len(F) :
           \E i \in 1 .. n : \E k \in 1 .. Len(s[i]) : p = Len(g[i - 1]) + k
  <2>1. Placed(S, s, g, n)
    BY <1>1, <1>2, PartsPositions
  <2> QED
    BY <2>1 DEF Placed
<1> HIDE DEF F
<1> DEFINE at == [x \in I |-> Len(g[x - 1]) + 1]
<1>5. \A x \in I : x \in 1 .. n /\ Len(s[x]) = 1 /\ 1 \in 1 .. Len(s[x]) /\ s[x][1] = e[x]
  <2>1. \A x \in I : x \in 1 .. n
    BY DEF n
  <2>2. ASSUME NEW x \in I PROVE Len(s[x]) = 1 /\ 1 \in 1 .. Len(s[x]) /\ s[x][1] = e[x]
    <3>1. s[x] = <<e[x]>>
      BY <1>1, <2>1
    <3> QED
      BY <3>1
  <2> QED
    BY <2>1, <2>2
<1>6. \A x \in I : at[x] = Len(g[x - 1]) + 1
  OBVIOUS
<1> HIDE DEF at
<1>7. \A x \in I : at[x] \in 1 .. Len(F) /\ F[at[x]] = e[x]
  <2> SUFFICES ASSUME NEW x \in I PROVE at[x] \in 1 .. Len(F) /\ F[at[x]] = e[x]
    OBVIOUS
  <2>1. x \in 1 .. n /\ 1 \in 1 .. Len(s[x]) /\ s[x][1] = e[x]
    BY <1>5
  <2>2. Len(g[x - 1]) + 1 \in 1 .. Len(F) /\ F[Len(g[x - 1]) + 1] = s[x][1]
    BY <1>4, <2>1
  <2> QED
    BY <1>6, <2>1, <2>2
<1>8. at \in [I -> 1 .. Len(F)]
  BY <1>7 DEF at
<1>9. ASSUME NEW x \in I, NEW y \in I, x < y PROVE at[x] < at[y]
  <2>1. x \in 1 .. n /\ y \in 1 .. n /\ Len(s[x]) = 1
    BY <1>5
  <2>2. x \in 0 .. n /\ y - 1 \in 0 .. n /\ x - 1 \in 0 .. n /\ x <= y - 1
    BY <1>1, <1>9, <2>1
  <2>3. Len(g[x]) = Len(g[x - 1]) + 1 /\ Len(g[x]) <= Len(g[y - 1])
    BY <1>4, <2>1, <2>2
  <2>4. Len(g[x]) \in Nat /\ Len(g[x - 1]) \in Nat /\ Len(g[y - 1]) \in Nat
    BY <1>4, <2>2
  <2> QED
    BY <1>6, <2>3, <2>4
<1>10. \A x, y \in I : at[x] = at[y] => x = y
  <2>1. \A x \in I : x \in Int /\ at[x] \in Int
    <3>1. \A x \in I : x \in 1 .. n
      BY <1>5
    <3>2. \A x \in 1 .. n : x \in Int
      BY <1>1
    <3>3. \A x \in 1 .. Len(F) : x \in Int
      BY <1>4
    <3> QED
      BY <1>7, <3>1, <3>2, <3>3
  <2> SUFFICES ASSUME NEW x \in I, NEW y \in I, at[x] = at[y], x # y PROVE FALSE
    OBVIOUS
  <2>2. x < y \/ y < x
    BY <2>1
  <2>3. at[x] < at[y] \/ at[y] < at[x]
    BY <1>9, <2>2
  <2> QED
    BY <2>1, <2>3
<1>11. ASSUME NEW p \in 1 .. Len(F) PROVE \E x \in I : at[x] = p
  <2>0. PICK i \in 1 .. n : \E k \in 1 .. Len(s[i]) : p = Len(g[i - 1]) + k
    BY <1>4
  <2>1. PICK k \in 1 .. Len(s[i]) : p = Len(g[i - 1]) + k
    BY <2>0
  <2>2. i \in I
    <3> SUFFICES ASSUME i \notin I PROVE FALSE
      OBVIOUS
    <3>1. s[i] = <<>>
      BY <1>1
    <3> QED
      BY <2>1, <3>1
  <2>3. k = 1
    <3>1. Len(s[i]) = 1
      BY <1>5, <2>2
    <3> QED
      BY <2>1, <3>1
  <2> QED
    BY <1>6, <2>1, <2>2, <2>3
<1>12. Places(I, e, F, at)
  BY <1>7, <1>8, <1>10, <1>11 DEF Places
<1> QED
  BY <1>3, <1>4, <1>12

\* The indices up to n in I are the len ones after lo.
IsInterval(I, n, lo, len) == \A x \in 1 .. n : x \in I <=> lo < x /\ x <= lo + len

\* Selecting consecutive elements.
LEMMA PickedInterval ==
    ASSUME NEW S, NEW e \in Seq(S), NEW lo \in Nat, NEW len \in Nat, lo + len <= Len(e),
           NEW I, IsInterval(I, Len(e), lo, len)
    PROVE  Picked(I, e) = [k \in 1 .. len |-> e[lo + k]]
<1> DEFINE s == Picks(I, e)
           n == Len(e)
           cnt(x) == IF x <= lo THEN 0 ELSE IF x <= lo + len THEN x - lo ELSE len
           part(c) == [k \in 1 .. c |-> e[lo + k]]
           h == [x \in 0 .. n |-> part(cnt(x))]
<1>1. /\ s \in Seq(Seq(S)) /\ Len(s) = n /\ n \in Nat
      /\ \A x \in 1 .. n : (x \in I => s[x] = <<e[x]>>) /\ (x \notin I => s[x] = <<>>)
  BY PicksFacts
<1>2. n \in Nat /\ lo + len <= n /\ \A x \in 1 .. n : e[x] \in S
  OBVIOUS
<1>3. \A x \in 1 .. n : x \in I <=> lo < x /\ x <= lo + len
  BY DEF IsInterval
<1> HIDE DEF s, n
<1>4. ASSUME NEW c \in 0 .. len
      PROVE  /\ part(c) \in Seq(S) /\ Len(part(c)) = c /\ c \in Nat
             /\ \A k \in 1 .. c : part(c)[k] = e[lo + k]
  <2>1. \A k \in 1 .. c : lo + k \in 1 .. n
    BY <1>2
  <2>2. \A k \in 1 .. c : e[lo + k] \in S
    BY <1>2, <2>1
  <2> QED
    BY <2>2
<1>5. \A x \in 0 .. n : cnt(x) \in 0 .. len
  BY <1>2
<1>6. cnt(0) = 0 /\ cnt(n) = len
  BY <1>2
<1>7. \A x \in 1 .. n : /\ x \in I => cnt(x) = cnt(x - 1) + 1 /\ lo + cnt(x) = x
                        /\ x \notin I => cnt(x) = cnt(x - 1)
  BY <1>2, <1>3
<1> HIDE DEF cnt, part
<1>8. ASSUME NEW x \in 1 .. n PROVE part(cnt(x)) = part(cnt(x - 1)) \o s[x]
  <2>1. x - 1 \in 0 .. n /\ x \in 0 .. n
    BY <1>2
  <2> DEFINE b == cnt(x)
             a == cnt(x - 1)
  <2>2. b \in 0 .. len /\ a \in 0 .. len
    BY <1>5, <2>1
  <2>3. /\ part(a) \in Seq(S) /\ Len(part(a)) = a /\ \A k \in 1 .. a : part(a)[k] = e[lo + k]
        /\ part(b) \in Seq(S) /\ Len(part(b)) = b /\ \A k \in 1 .. b : part(b)[k] = e[lo + k]
        /\ a \in Nat /\ b \in Nat
    BY <1>4, <2>2
  <2>4. CASE x \notin I
    <3>1. s[x] = <<>> /\ a = b
      BY <1>1, <1>7, <2>4
    <3>2. part(a) \o <<>> = part(a)
      BY <2>3, ConcatEmptySeq
    <3> QED
      BY <3>1, <3>2
  <2>5. CASE x \in I
    <3>1. s[x] = <<e[x]>> /\ b = a + 1 /\ lo + b = x /\ e[x] \in S
      BY <1>1, <1>2, <1>7, <2>5
    <3> HIDE DEF a, b
    <3> DEFINE u == <<e[x]>>
               r == part(a)
               t == r \o u
    <3>2. u \in Seq(S) /\ Len(u) = 1 /\ u[1] = e[x]
      BY <3>1
    <3>3. /\ t \in Seq(S) /\ Len(t) = a + 1
          /\ \A k \in 1 .. a + 1 : t[k] = IF k <= a THEN r[k] ELSE u[k - a]
      <4>1. r \in Seq(S) /\ Len(r) = a
        BY <2>3
      <4> HIDE DEF r, u
      <4>2. u \in Seq(S)
        BY <3>2
      <4>3. /\ r \o u \in Seq(S) /\ Len(r \o u) = Len(r) + Len(u)
            /\ \A k \in 1 .. Len(r) + Len(u) :
                 (r \o u)[k] = IF k <= Len(r) THEN r[k] ELSE u[k - Len(r)]
        BY <4>1, <4>2, ConcatProperties, Zenon
      <4> QED
        BY <3>2, <4>1, <4>3
    <3> HIDE DEF t, u
    <3>4. ASSUME NEW k \in 1 .. b PROVE t[k] = part(b)[k]
      <4>1. CASE k <= a
        <5>1. k \in 1 .. a /\ k \in 1 .. a + 1
          BY <2>3, <3>1, <4>1
        <5> QED
          BY <2>3, <3>3, <4>1, <5>1
      <4>2. CASE ~ (k <= a)
        <5>1. k = b /\ k \in 1 .. a + 1 /\ k - a = 1
          BY <2>3, <3>1, <4>2
        <5>2. t[k] = e[x]
          BY <3>2, <3>3, <4>2, <5>1
        <5>3. part(b)[k] = e[x]
          BY <2>3, <3>1, <5>1
        <5> QED
          BY <5>2, <5>3
      <4> QED
        BY <4>1, <4>2
    <3>5. t = part(b)
      BY <2>3, <3>1, <3>3, <3>4, SeqEqual
    <3> QED
      BY <3>1, <3>5 DEF t, u, a, b
  <2> QED
    BY <2>4, <2>5
<1>9. Parts(S, s, h)
  <2>1. h \in [0 .. n -> Seq(S)]
    BY <1>4, <1>5
  <2>2. h[0] = <<>>
    <3>1. h[0] = part(0)
      BY <1>2, <1>6
    <3>2. part(0) = <<>>
      BY DEF part
    <3> QED
      BY <3>1, <3>2
  <2>3. ASSUME NEW x \in 1 .. n PROVE h[x] = h[x - 1] \o s[x]
    <3>1. x \in 0 .. n /\ x - 1 \in 0 .. n
      BY <1>2
    <3> QED
      BY <1>8, <3>1
  <2> QED
    BY <1>1, <2>1, <2>2, <2>3 DEF Parts
<1>10. h[n] = part(len)
  BY <1>2, <1>6
<1> HIDE DEF h
<1>11. FlattenSeq(s) = h[Len(s)]
  BY <1>1, <1>9, FlattenIsLastPart
<1> QED
  BY <1>1, <1>10, <1>11 DEF Picked, s, part

-----------------------------------------------------------------------------
(* What becomes of a sequence whose elements are selected group by group.    *)

\* A is made of the blocks B, of which the i-th begins after lo[i].
Blocks(B, A, lo) ==
    /\ lo \in [1 .. Len(B) -> Nat]
    /\ \A i \in 1 .. Len(B) : lo[i] + Len(B[i]) <= Len(A)
    /\ \A i \in 1 .. Len(B) : \A k \in 1 .. Len(B[i]) : A[lo[i] + k] = B[i][k]
    /\ \A p \in 1 .. Len(A) : \E i \in 1 .. Len(B) : lo[i] < p /\ p <= lo[i] + Len(B[i])
    /\ \A i, j \in 1 .. Len(B) : i < j => lo[i] + Len(B[i]) <= lo[j]

\* FlattenSeq makes blocks of its sequences.
LEMMA FlattenBlocks ==
    ASSUME NEW S, NEW B \in Seq(Seq(S))
    PROVE  \E lo : Blocks(B, FlattenSeq(B), lo)
<1> DEFINE n == Len(B)
<1>1. PICK g : Parts(S, B, g)
  BY PartsExist
<1> DEFINE A == g[n]
           lo == [i \in 1 .. n |-> Len(g[i - 1])]
<1>2. FlattenSeq(B) = A
  BY <1>1, FlattenIsLastPart
<1>3. n \in Nat /\ \A i \in 1 .. n : B[i] \in Seq(S)
  OBVIOUS
<1>4. Placed(S, B, g, n)
  BY <1>1, PartsPositions
<1> HIDE DEF n
<1>5. /\ \A i \in 0 .. n : Len(g[i]) \in Nat
      /\ \A i \in 1 .. n : Len(g[i]) = Len(g[i - 1]) + Len(B[i])
      /\ \A i, j \in 0 .. n : i <= j => Len(g[i]) <= Len(g[j])
      /\ \A i \in 1 .. n : \A k \in 1 .. Len(B[i]) :
           Len(g[i - 1]) + k \in 1 .. Len(A) /\ A[Len(g[i - 1]) + k] = B[i][k]
      /\ \A p \in 1 .. Len(A) :
           \E i \in 1 .. n : \E k \in 1 .. Len(B[i]) : p = Len(g[i - 1]) + k
  BY <1>4 DEF Placed
<1>6. /\ \A i \in 1 .. n : i \in 0 .. n /\ i - 1 \in 0 .. n /\ Len(B[i]) \in Nat
      /\ n \in 0 .. n /\ \A i \in 1 .. n : i <= n
  BY <1>3
<1>7. \A i \in 1 .. n : lo[i] = Len(g[i - 1]) /\ lo[i] \in Nat
  BY <1>5, <1>6
<1>8. lo \in [1 .. n -> Nat]
  BY <1>5, <1>6
<1> HIDE DEF lo, A
<1>9. \A i \in 1 .. n : lo[i] + Len(B[i]) = Len(g[i])
  BY <1>5, <1>7
<1>10. \A i \in 1 .. n : lo[i] + Len(B[i]) <= Len(A)
  BY <1>5, <1>6, <1>9 DEF A
<1>11. \A i \in 1 .. n : \A k \in 1 .. Len(B[i]) : A[lo[i] + k] = B[i][k]
  BY <1>5, <1>7
<1>12. ASSUME NEW p \in 1 .. Len(A)
       PROVE  \E i \in 1 .. n : lo[i] < p /\ p <= lo[i] + Len(B[i])
  <2>1. PICK i \in 1 .. n : \E k \in 1 .. Len(B[i]) : p = Len(g[i - 1]) + k
    BY <1>5
  <2>2. PICK k \in 1 .. Len(B[i]) : p = Len(g[i - 1]) + k
    BY <2>1
  <2> DEFINE b == lo[i]
             l == Len(B[i])
  <2>3. p = b + k /\ b \in Nat /\ l \in Nat /\ k \in 1 .. l
    BY <1>6, <1>7, <2>2
  <2> HIDE DEF b, l
  <2>4. b < p /\ p <= b + l
    BY <2>3
  <2> QED
    BY <2>4 DEF b, l
<1>13. ASSUME NEW i \in 1 .. n, NEW j \in 1 .. n, i < j PROVE lo[i] + Len(B[i]) <= lo[j]
  <2>1. i <= j - 1 /\ i \in 0 .. n /\ j - 1 \in 0 .. n
    BY <1>3, <1>13
  <2> QED
    BY <1>5, <1>7, <1>9, <2>1
<1> QED
  BY <1>2, <1>8, <1>10, <1>11, <1>12, <1>13 DEF Blocks, n

\* Blocks do not overlap.
LEMMA BlocksApart ==
    ASSUME NEW S, NEW B \in Seq(Seq(S)), NEW A, NEW lo, Blocks(B, A, lo),
           NEW i \in 1 .. Len(B), NEW j \in 1 .. Len(B), NEW p \in Nat,
           lo[i] < p, p <= lo[i] + Len(B[i]), lo[j] < p, p <= lo[j] + Len(B[j])
    PROVE  i = j
<1>1. /\ lo[i] \in Nat /\ lo[j] \in Nat
      /\ i < j => lo[i] + Len(B[i]) <= lo[j]
      /\ j < i => lo[j] + Len(B[j]) <= lo[i]
  BY Zenon DEF Blocks
<1>2. Len(B) \in Nat /\ Len(B[i]) \in Nat /\ Len(B[j]) \in Nat
  OBVIOUS
<1>3. ~ (i < j) /\ ~ (j < i)
  BY <1>1, <1>2
<1> QED
  BY <1>3

\* Groups I of the indices of e, each index in one.
Groups(I, m, n) ==
    /\ I \in [1 .. m -> SUBSET (1 .. n)]
    /\ \A x \in 1 .. n : \E i \in 1 .. m : x \in I[i]
    /\ \A i, j \in 1 .. m : \A x \in I[i] : x \in I[j] => i = j

\* F gives n elements l new places, one to each.
Renumbers(F, n, l) ==
    /\ F \in [1 .. n -> 1 .. l]
    /\ \A x, y \in 1 .. n : F[x] = F[y] => x = y
    /\ \A p \in 1 .. l : \E x \in 1 .. n : F[x] = p

\* The blocks B, of elements of S, are as long as the groups of e, a sequence of elements of T.
Grouped(T, e, m, I, S, B, A, lo) ==
    /\ e \in Seq(T) /\ Groups(I, m, Len(e))
    /\ B \in Seq(Seq(S)) /\ Len(B) = m /\ A \in Seq(S) /\ Blocks(B, A, lo)
    /\ \A i \in 1 .. m : Len(B[i]) = Len(Picked(I[i], e))

\* F takes an element of the i-th group to its place in the i-th block.
Rearranges(F, e, m, I, B, A, lo) ==
    /\ Renumbers(F, Len(e), Len(A))
    /\ \A i \in 1 .. m : \A x \in I[i] : \E k \in 1 .. Len(B[i]) :
         F[x] = lo[i] + k /\ Picked(I[i], e)[k] = e[x]

\* A sequence that is put together from the groups of another has a place for each element.
LEMMA Regrouped ==
    ASSUME NEW T, NEW e, NEW m \in Nat, NEW I, NEW S, NEW B, NEW A, NEW lo,
           Grouped(T, e, m, I, S, B, A, lo)
    PROVE  \E F : Rearranges(F, e, m, I, B, A, lo)
<1> DEFINE n == Len(e)
           E(i) == Picked(I[i], e)
           at == [i \in 1 .. m |-> CHOOSE f : Places(I[i], e, E(i), f)]
           own == [x \in 1 .. n |-> CHOOSE i \in 1 .. m : x \in I[i]]
           F == [x \in 1 .. n |-> lo[own[x]] + at[own[x]][x]]
<1>0. /\ e \in Seq(T) /\ Groups(I, m, Len(e))
      /\ B \in Seq(Seq(S)) /\ Len(B) = m /\ A \in Seq(S) /\ Blocks(B, A, lo)
      /\ \A i \in 1 .. m : Len(B[i]) = Len(Picked(I[i], e))
  BY DEF Grouped
<1>1. /\ \A i \in 1 .. m : I[i] \in SUBSET (1 .. n)
      /\ \A x \in 1 .. n : \E i \in 1 .. m : x \in I[i]
      /\ \A i, j \in 1 .. m : \A x \in I[i] : x \in I[j] => i = j
  BY <1>0 DEF Groups
<1>2. ASSUME NEW i \in 1 .. m PROVE Places(I[i], e, E(i), at[i]) /\ Len(E(i)) = Len(B[i])
  <2>1. I[i] \in SUBSET (1 .. Len(e)) /\ Len(E(i)) = Len(B[i])
    BY <1>0, <1>1
  <2>2. \E f : Places(I[i], e, E(i), f)
    BY <1>0, <2>1, PickedPositions
  <2> HIDE DEF E
  <2> QED
    BY <2>1, <2>2
<1>3. ASSUME NEW x \in 1 .. n PROVE own[x] \in 1 .. m /\ x \in I[own[x]]
  BY <1>1
<1>4. \A i \in 1 .. m : \A x \in I[i] : own[x] = i
  BY <1>1, <1>3
<1>5. \A x \in 1 .. n : F[x] = lo[own[x]] + at[own[x]][x]
  OBVIOUS
<1>6. DOMAIN F = 1 .. n /\ F = [x \in 1 .. n |-> F[x]]
  OBVIOUS
<1>7. /\ n \in Nat /\ Len(A) \in Nat
      /\ \A i \in 1 .. m : lo[i] \in Nat /\ Len(B[i]) \in Nat
      /\ \A i \in 1 .. m : lo[i] + Len(B[i]) <= Len(A)
      /\ \A p \in 1 .. Len(A) : \E i \in 1 .. m : lo[i] < p /\ p <= lo[i] + Len(B[i])
  BY <1>0 DEF Blocks
<1> HIDE DEF n, E, at, own, F
<1>8. \A i \in 1 .. m : \A x \in I[i] :
        /\ x \in 1 .. n /\ at[i][x] \in 1 .. Len(B[i]) /\ F[x] = lo[i] + at[i][x]
        /\ E(i)[at[i][x]] = e[x]
  <2> SUFFICES ASSUME NEW i \in 1 .. m, NEW x \in I[i]
               PROVE  /\ x \in 1 .. n /\ at[i][x] \in 1 .. Len(B[i])
                      /\ F[x] = lo[i] + at[i][x] /\ E(i)[at[i][x]] = e[x]
    OBVIOUS
  <2>1. x \in 1 .. n /\ own[x] = i
    BY <1>1, <1>4
  <2>2. at[i][x] \in 1 .. Len(B[i]) /\ E(i)[at[i][x]] = e[x]
    BY <1>2 DEF Places
  <2> QED
    BY <1>5, <2>1, <2>2
<1>9. ASSUME NEW x \in 1 .. n
      PROVE  /\ F[x] \in 1 .. Len(A)
             /\ lo[own[x]] < F[x] /\ F[x] <= lo[own[x]] + Len(B[own[x]])
  <2>1. /\ own[x] \in 1 .. m /\ at[own[x]][x] \in 1 .. Len(B[own[x]])
        /\ F[x] = lo[own[x]] + at[own[x]][x]
    BY <1>3, <1>8
  <2>2. /\ lo[own[x]] \in Nat /\ Len(B[own[x]]) \in Nat
        /\ lo[own[x]] + Len(B[own[x]]) <= Len(A)
    BY <1>7, <2>1
  <2> DEFINE b == lo[own[x]]
             k == at[own[x]][x]
             l == Len(B[own[x]])
             a == Len(A)
  <2>3. F[x] = b + k /\ k \in 1 .. l /\ b \in Nat /\ l \in Nat /\ b + l <= a /\ a \in Nat
    BY <1>7, <2>1, <2>2
  <2> HIDE DEF b, k, l, a
  <2>4. F[x] \in 1 .. a /\ b < F[x] /\ F[x] <= b + l
    BY <2>3
  <2> QED
    BY <2>4 DEF b, l, a
<1>10. F \in [1 .. n -> 1 .. Len(A)]
  BY <1>6, <1>9
<1>11. ASSUME NEW x \in 1 .. n, NEW y \in 1 .. n, F[x] = F[y] PROVE x = y
  <2>1. /\ own[x] \in 1 .. Len(B) /\ own[y] \in 1 .. Len(B) /\ F[x] \in Nat
        /\ lo[own[x]] < F[x] /\ F[x] <= lo[own[x]] + Len(B[own[x]])
        /\ lo[own[y]] < F[x] /\ F[x] <= lo[own[y]] + Len(B[own[y]])
    <3>1. F[x] \in Nat
      BY <1>7, <1>9
    <3> QED
      BY <1>0, <1>3, <1>9, <1>11, <3>1
  <2>2. own[x] = own[y]
    BY <1>0, <2>1, BlocksApart
  <2> DEFINE i == own[x]
  <2>3. i \in 1 .. m /\ x \in I[i] /\ y \in I[i]
    BY <1>3, <2>2
  <2> HIDE DEF i
  <2>4. /\ F[x] = lo[i] + at[i][x] /\ F[y] = lo[i] + at[i][y] /\ lo[i] \in Nat
        /\ at[i][x] \in 1 .. Len(B[i]) /\ at[i][y] \in 1 .. Len(B[i]) /\ Len(B[i]) \in Nat
    BY <1>7, <1>8, <2>3
  <2>5. at[i][x] = at[i][y]
    <3> DEFINE b == lo[i]
               k == at[i][x]
               l == at[i][y]
               r == Len(B[i])
    <3>1. /\ F[x] = F[y] /\ F[x] = b + k /\ F[y] = b + l
          /\ b \in Nat /\ k \in 1 .. r /\ l \in 1 .. r /\ r \in Nat
      BY <1>11, <2>4
    <3> HIDE DEF b, k, l, r
    <3>2. b + k = b + l
      BY <3>1
    <3>3. b \in Int /\ k \in Int /\ l \in Int
      BY <3>1
    <3>4. k = l
      BY <3>2, <3>3
    <3> QED
      BY <3>4 DEF k, l
  <2> QED
    BY <1>2, <2>3, <2>5 DEF Places
<1>12. ASSUME NEW p \in 1 .. Len(A) PROVE \E x \in 1 .. n : F[x] = p
  <2>1. PICK i \in 1 .. m : lo[i] < p /\ p <= lo[i] + Len(B[i])
    BY <1>7
  <2>2. p - lo[i] \in 1 .. Len(B[i]) /\ lo[i] + (p - lo[i]) = p
    BY <1>7, <2>1
  <2>3. PICK x \in I[i] : at[i][x] = p - lo[i]
    BY <1>2, <2>2 DEF Places
  <2>4. x \in 1 .. n /\ F[x] = lo[i] + at[i][x]
    BY <1>8
  <2>5. F[x] = p
    BY <2>2, <2>3, <2>4
  <2> QED
    BY <2>4, <2>5
<1>13. ASSUME NEW i \in 1 .. m, NEW x \in I[i]
       PROVE  \E k \in 1 .. Len(B[i]) : F[x] = lo[i] + k /\ E(i)[k] = e[x]
  BY <1>8
<1>14. Renumbers(F, n, Len(A))
  BY <1>10, <1>11, <1>12 DEF Renumbers
<1>15. Rearranges(F, e, m, I, B, A, lo)
  BY <1>13, <1>14 DEF Rearranges, n, E
<1> QED
  BY <1>15

\* Sequences whose places correspond have the same length.
LEMMA SameLength ==
    ASSUME NEW n \in Nat, NEW l \in Nat, NEW F, Renumbers(F, n, l)
    PROVE  n = l
<1>1. F \in Bijection(1 .. n, 1 .. l)
  BY DEF Renumbers, Bijection, Injection, Surjection, IsInjective
<1>2. ExistsBijection(1 .. n, 1 .. l)
  BY <1>1 DEF ExistsBijection
<1>3. ExistsBijection(1 .. l, 1 .. l)
  BY Fun_ExistsBijReflexive
<1> QED
  BY <1>2, <1>3, Fun_NatBijSame, Zenon
=============================================================================

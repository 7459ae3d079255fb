----------------------------- MODULE Induction ------------------------------
(***************************************************************************)
(* Induction and recursion over the natural numbers, stated with sets and  *)
(* functions: the theorems of the libraries take operators as parameters,  *)
(* which the provers cannot instantiate.  And what they give for sequences *)
(* of sequences put together.                                              *)
(***************************************************************************)
EXTENDS Integers, SequencesExt, SequenceTheorems, WellFoundedInduction, TLAPS

\* "Less than" as the set of pairs the library's theorems speak of.
Less == {p \in Nat \X Nat : p[1] < p[2]}

\* It is well-founded.
LEMMA LessIsWellFounded == IsWellFoundedOn(Less, Nat)
BY NatLessThanWellFounded DEF OpToRel, Less

\* A set of natural numbers has a least element.
LEMMA LeastElement ==
  ASSUME NEW T, T \subseteq Nat, T # {}
  PROVE  \E n \in T : \A m \in T : n <= m
<1>1. PICK n \in T : \A m \in T : ~ (<<m, n>> \in Less)
  BY LessIsWellFounded, WFMin
<1>2. ASSUME NEW m \in T
      PROVE  n <= m
  <2>1. <<m, n>> \in Nat \X Nat
    OBVIOUS
  <2>2. QED
    BY <1>1, <2>1 DEF Less
<1>3. QED
  BY <1>2

\* A set that has 0 and with every number the next has all of them.
LEMMA NatInductionInSets ==
  ASSUME NEW S, 0 \in S, \A n \in Nat : n \in S => n + 1 \in S
  PROVE  Nat \subseteq S
<1> SUFFICES ASSUME ~ (Nat \subseteq S) PROVE FALSE
  OBVIOUS
<1> DEFINE T == Nat \ S
<1>1. T \subseteq Nat /\ T # {}
  OBVIOUS
<1>2. PICK n \in T : \A m \in T : n <= m
  BY <1>1, LeastElement
<1>3. n # 0 /\ n - 1 \in Nat
  OBVIOUS
<1>4. n - 1 \notin T
  BY <1>2, <1>3
<1>5. QED
  BY <1>3, <1>4

\* A set of integers with an element and an upper bound has a greatest element.
LEMMA GreatestElement ==
  ASSUME NEW T, T \subseteq Int, NEW b \in Int, \A m \in T : m <= b, T # {}
  PROVE  \E n \in T : \A m \in T : m <= n
<1> DEFINE Gaps == {b - m : m \in T}
<1>1. Gaps \subseteq Nat /\ Gaps # {}
  <2>1. \A m \in T : b - m \in Nat
    OBVIOUS
  <2>2. PICK m \in T : TRUE
    OBVIOUS
  <2>3. b - m \in Gaps
    OBVIOUS
  <2>4. QED
    BY <2>1, <2>3
<1> HIDE DEF Gaps
<1>2. PICK g \in Gaps : \A h \in Gaps : g <= h
  BY <1>1, LeastElement
<1>3. PICK n \in T : g = b - n
  BY DEF Gaps
<1>4. ASSUME NEW m \in T
      PROVE  m <= n
  <2>1. b - m \in Gaps
    BY DEF Gaps
  <2>2. b - n <= b - m /\ m \in Int /\ n \in Int
    BY <1>2, <1>3, <2>1
  <2>3. QED
    BY <2>2
<1>5. QED
  BY <1>4

\* A set of integers with an element and a lower bound has a least element.
LEMMA SmallestElement ==
  ASSUME NEW T, T \subseteq Int, NEW b \in Int, \A m \in T : b <= m, T # {}
  PROVE  \E n \in T : \A m \in T : n <= m
<1> DEFINE Gaps == {m - b : m \in T}
<1>1. Gaps \subseteq Nat /\ Gaps # {}
  <2>1. \A m \in T : m - b \in Nat
    OBVIOUS
  <2>2. PICK m \in T : TRUE
    OBVIOUS
  <2>3. m - b \in Gaps
    OBVIOUS
  <2>4. QED
    BY <2>1, <2>3
<1> HIDE DEF Gaps
<1>2. PICK g \in Gaps : \A h \in Gaps : g <= h
  BY <1>1, LeastElement
<1>3. PICK n \in T : g = n - b
  BY DEF Gaps
<1>4. ASSUME NEW m \in T
      PROVE  n <= m
  <2>1. m - b \in Gaps
    BY DEF Gaps
  <2>2. n - b <= m - b /\ m \in Int /\ n \in Int
    BY <1>2, <1>3, <2>1
  <2>3. QED
    BY <2>2
<1>5. QED
  BY <1>4

-----------------------------------------------------------------------------
\* f is the sequence that starts with b and goes on with g, up to k.
Iterates(f, k, S, b, g) ==
  /\ f \in [0..k -> S]
  /\ \A n \in 0..k : f[n] = IF n = 0 THEN b ELSE g[f[n - 1]]

Iterated(f, S, b, g) ==
  /\ f \in [Nat -> S]
  /\ f = [n \in Nat |-> IF n = 0 THEN b ELSE g[f[n - 1]]]

\* The recursive function that iterates g from b exists.
LEMMA PrimitiveRecursion ==
  ASSUME NEW S, NEW b \in S, NEW g \in [S -> S]
  PROVE  \E f : Iterated(f, S, b, g)
<1> DEFINE Ks == {k \in Nat : \E f : Iterates(f, k, S, b, g)}
<1>1. 0 \in Ks
  <2>1. Iterates([n \in 0..0 |-> b], 0, S, b, g)
    BY DEF Iterates
  <2>2. QED
    BY <2>1
<1>2. ASSUME NEW k \in Nat, k \in Ks
      PROVE  k + 1 \in Ks
  <2>1. PICK f : Iterates(f, k, S, b, g)
    BY <1>2
  <2> DEFINE h == [m \in 0..(k + 1) |-> IF m <= k THEN f[m] ELSE g[f[k]]]
  <2>2. Iterates(h, k + 1, S, b, g)
    BY <2>1 DEF Iterates
  <2>3. QED
    BY <2>2
<1>3. Nat \subseteq Ks
  <2> HIDE DEF Ks
  <2>1. QED
    BY <1>1, <1>2, NatInductionInSets
<1> DEFINE F == [k \in Nat |-> CHOOSE f : Iterates(f, k, S, b, g)]
           G == [k \in Nat |-> F[k][k]]
<1>4. ASSUME NEW k \in Nat
      PROVE  Iterates(F[k], k, S, b, g)
  <2>1. \E f : Iterates(f, k, S, b, g)
    BY <1>3
  <2>2. F[k] = CHOOSE f : Iterates(f, k, S, b, g)
    OBVIOUS
  <2>3. QED
    BY <2>1, <2>2
<1> HIDE DEF F
<1>5. ASSUME NEW k \in Nat
      PROVE  F[k + 1][k] = F[k][k]
  <2> DEFINE Ns == {n \in Nat : n <= k => F[k + 1][n] = F[k][n]}
  <2>1. Iterates(F[k], k, S, b, g) /\ Iterates(F[k + 1], k + 1, S, b, g)
    BY <1>4
  <2>2. 0 \in Ns
    BY <2>1 DEF Iterates
  <2>3. \A n \in Nat : n \in Ns => n + 1 \in Ns
    BY <2>1 DEF Iterates
  <2> HIDE DEF Ns
  <2>4. Nat \subseteq Ns
    BY <2>2, <2>3, NatInductionInSets
  <2>5. QED
    BY <2>4 DEF Ns
<1>6. ASSUME NEW k \in Nat
      PROVE  G[k] = IF k = 0 THEN b ELSE g[G[k - 1]]
  <2>1. CASE k = 0
    BY <1>4, <2>1 DEF Iterates
  <2>2. CASE k # 0
    <3>1. k - 1 \in Nat /\ (k - 1) + 1 = k
      BY <2>2
    <3>2. F[k][k] = g[F[k][k - 1]]
      BY <1>4, <2>2 DEF Iterates
    <3>3. F[k][k - 1] = F[k - 1][k - 1]
      BY <1>5, <3>1
    <3>4. QED
      BY <3>1, <3>2, <3>3, <2>2
  <2>3. QED
    BY <2>1, <2>2
<1>7. G \in [Nat -> S]
  BY <1>4 DEF Iterates
<1> HIDE DEF G
<1>8. G = [n \in Nat |-> IF n = 0 THEN b ELSE g[G[n - 1]]]
  BY <1>6, <1>7
<1>9. QED
  BY <1>7, <1>8 DEF Iterated
-----------------------------------------------------------------------------
(* Sequences of sequences put together. *)

\* The sequences before every place put together.
Joins(g, ss, S) ==
  /\ g \in [0..Len(ss) -> Seq(S)]
  /\ g[0] = <<>>
  /\ \A j \in 1..Len(ss) : g[j] = g[j - 1] \o ss[j]

JoinsUpTo(g, ss, S, k) ==
  /\ g \in [0..k -> Seq(S)]
  /\ g[0] = <<>>
  /\ \A j \in 1..k : g[j] = g[j - 1] \o ss[j]

\* Sequences can be put together up to every place.
LEMMA JoinsExist ==
  ASSUME NEW S, NEW ss \in Seq(Seq(S))
  PROVE  \E g : Joins(g, ss, S)
<1> DEFINE m == Len(ss)
           Ks == {k \in Nat : k <= m => \E g : JoinsUpTo(g, ss, S, k)}
<1>1. m \in Nat /\ \A j \in 1..m : ss[j] \in Seq(S)
  BY LenProperties, ElementOfSeq
<1> HIDE DEF m
<1>2. 0 \in Ks
  <2> DEFINE z == <<>>
             g == [j \in 0..0 |-> z]
  <2>1. z \in Seq(S)
    OBVIOUS
  <2>2. JoinsUpTo(g, ss, S, 0)
    BY <2>1 DEF JoinsUpTo
  <2>3. QED
    BY <2>2
<1>3. ASSUME NEW k \in Nat, k \in Ks
      PROVE  k + 1 \in Ks
  <2> SUFFICES ASSUME k + 1 <= m PROVE \E g : JoinsUpTo(g, ss, S, k + 1)
    OBVIOUS
  <2>1. PICK g : JoinsUpTo(g, ss, S, k)
    BY <1>1, <1>3
  <2>2. /\ g \in [0..k -> Seq(S)] /\ g[0] = <<>>
        /\ \A j \in 1..k : g[j] = g[j - 1] \o ss[j]
    BY <2>1 DEF JoinsUpTo
  <2> DEFINE e == g[k] \o ss[k + 1]
             h == [j \in 0..(k + 1) |-> IF j <= k THEN g[j] ELSE e]
  <2>3. e \in Seq(S)
    <3>1. g[k] \in Seq(S) /\ ss[k + 1] \in Seq(S)
      BY <1>1, <2>2
    <3>2. QED
      BY <3>1, ConcatProperties
  <2> HIDE DEF e, Ks
  <2>4. h \in [0..(k + 1) -> Seq(S)] /\ h[0] = <<>> /\ h[k + 1] = e
        /\ \A j \in 0..k : h[j] = g[j]
    BY <2>2, <2>3
  <2> HIDE DEF h
  <2>8. \A j \in 1..k : g[j] = g[j - 1] \o ss[j]
    BY <2>2
  <2>5. \A j \in 1..(k + 1) : h[j] = h[j - 1] \o ss[j]
    <3> SUFFICES ASSUME NEW j \in 1..(k + 1) PROVE h[j] = h[j - 1] \o ss[j]
      OBVIOUS
    <3>1. CASE j \in 1..k
      <4>1. j \in 0..k /\ j - 1 \in 0..k
        BY <3>1
      <4>2. h[j] = g[j] /\ h[j - 1] = g[j - 1]
        BY <2>4, <4>1
      <4>3. QED
        BY <2>8, <3>1, <4>2
    <3>2. CASE j = k + 1
      <4>1. j - 1 = k /\ k \in 0..k
        BY <3>2
      <4>2. h[j - 1] = g[k] /\ ss[j] = ss[k + 1]
        BY <2>4, <3>2, <4>1
      <4>3. QED
        BY <2>4, <3>2, <4>2 DEF e
    <3>3. j \in 1..k \/ j = k + 1
      OBVIOUS
    <3>4. QED
      BY <3>1, <3>2, <3>3
  <2>6. JoinsUpTo(h, ss, S, k + 1)
    BY <2>4, <2>5 DEF JoinsUpTo
  <2>7. QED
    BY <2>6
<1> HIDE DEF Ks
<1>4. Nat \subseteq Ks
  BY <1>2, <1>3, NatInductionInSets
<1>5. \E g : JoinsUpTo(g, ss, S, m)
  BY <1>1, <1>4 DEF Ks
<1>6. QED
  BY <1>5 DEF Joins, JoinsUpTo, m

Flattens(f, ss) == f = [i \in 1..Len(ss) |-> IF i = 1 THEN ss[i] ELSE f[i - 1] \o ss[i]]

\* FlattenSeq is the last of them.
LEMMA FlattenSeqJoins ==
  ASSUME NEW S, NEW ss \in Seq(Seq(S)), NEW g, Joins(g, ss, S)
  PROVE  FlattenSeq(ss) = g[Len(ss)] /\ FlattenSeq(ss) \in Seq(S)
<1> DEFINE m == Len(ss)
<1>1. m \in Nat /\ \A j \in 1..m : ss[j] \in Seq(S)
  BY LenProperties, ElementOfSeq
<1>2. /\ g \in [0..m -> Seq(S)] /\ g[0] = <<>>
      /\ \A j \in 1..m : g[j] = g[j - 1] \o ss[j]
  BY DEF Joins
<1>3. CASE m = 0
  <2>1. ss = <<>>
    BY <1>3, EmptySeq
  <2>2. FlattenSeq(ss) = ss
    BY <1>3 DEF FlattenSeq
  <2>3. QED
    BY <1>2, <1>3, <2>1, <2>2
<1>4. CASE m # 0
  <2> DEFINE h == [i \in 1..m |-> g[i]]
             f == CHOOSE f : Flattens(f, ss)
  <2>1. g[1] = ss[1] /\ ss[1] \in Seq(S)
    <3>1. 1 \in 1..m /\ 1 - 1 = 0
      BY <1>1, <1>4
    <3>2. g[1] = <<>> \o ss[1] /\ ss[1] \in Seq(S)
      BY <1>1, <1>2, <3>1
    <3>3. QED
      BY <3>2, ConcatEmptySeq
  <2>2. \A i \in 1..m : h[i] = IF i = 1 THEN ss[i] ELSE h[i - 1] \o ss[i]
    <3> SUFFICES ASSUME NEW i \in 1..m
                 PROVE  h[i] = IF i = 1 THEN ss[i] ELSE h[i - 1] \o ss[i]
      OBVIOUS
    <3>1. CASE i = 1
      BY <2>1, <3>1
    <3>2. CASE i # 1
      <4>1. i - 1 \in 1..m
        BY <1>1, <3>2
      <4>2. QED
        BY <1>2, <3>2, <4>1
    <3>3. QED
      BY <3>1, <3>2
  <2>3. DOMAIN h = 1..m /\ h = [i \in 1..m |-> h[i]]
    OBVIOUS
  <2> HIDE DEF h
  <2>4. Flattens(h, ss)
    BY <2>2, <2>3 DEF Flattens
  <2>5. Flattens(f, ss)
    BY <2>4
  <2>6. FlattenSeq(ss) = f[m]
    BY <1>4 DEF FlattenSeq, Flattens
  <2> HIDE DEF f
  <2>7. \A i \in 1..m : f[i] = IF i = 1 THEN ss[i] ELSE f[i - 1] \o ss[i]
    BY <2>5 DEF Flattens
  <2> DEFINE Is == {i \in Nat : i \in 1..m => f[i] = g[i]}
  <2>8. 0 \in Is
    OBVIOUS
  <2>9. ASSUME NEW i \in Nat, i \in Is
        PROVE  i + 1 \in Is
    <3> SUFFICES ASSUME i + 1 \in 1..m PROVE f[i + 1] = g[i + 1]
      OBVIOUS
    <3>1. CASE i = 0
      BY <2>1, <2>7, <3>1
    <3>2. CASE i # 0
      <4>1. i \in 1..m /\ i + 1 # 1 /\ (i + 1) - 1 = i
        BY <1>1, <3>2
      <4>2. f[i] = g[i]
        BY <2>9, <4>1
      <4>3. f[i + 1] = f[i] \o ss[i + 1]
        BY <2>7, <4>1
      <4>4. g[i + 1] = g[i] \o ss[i + 1]
        BY <1>2, <4>1
      <4>5. QED
        BY <4>2, <4>3, <4>4
    <3>3. QED
      BY <3>1, <3>2
  <2> HIDE DEF Is
  <2>10. Nat \subseteq Is
    BY <2>8, <2>9, NatInductionInSets
  <2>11. m \in Is /\ m \in 1..m /\ m \in 0..m
    BY <1>1, <1>4, <2>10
  <2>12. f[m] = g[m]
    BY <2>11 DEF Is
  <2>13. QED
    BY <1>2, <2>6, <2>11, <2>12
<1>5. QED
  BY <1>3, <1>4

\* One sequence more is put behind the others,
LEMMA FlattenNext ==
  ASSUME NEW S, NEW n \in Nat, NEW v \in [1..(n + 1) -> Seq(S)]
  PROVE  LET front == [k \in 1..n |-> v[k]]
         IN FlattenSeq(front) \in Seq(S) /\ FlattenSeq(v) = FlattenSeq(front) \o v[n + 1]
<1> DEFINE front == [k \in 1..n |-> v[k]]
<1>1. v \in Seq(Seq(S)) /\ Len(v) = n + 1
  BY SeqDef, LenProperties
<1>2. front \in Seq(Seq(S)) /\ Len(front) = n /\ \A k \in 1..n : front[k] = v[k]
  BY SeqDef, LenProperties
<1> HIDE DEF front
<1>3. PICK g : Joins(g, v, S)
  BY <1>1, JoinsExist
<1> DEFINE h == [k \in 0..n |-> g[k]]
<1>4. /\ g \in [0..(n + 1) -> Seq(S)] /\ g[0] = <<>>
      /\ \A j \in 1..(n + 1) : g[j] = g[j - 1] \o v[j]
  BY <1>1, <1>3 DEF Joins
<1>5. h \in [0..n -> Seq(S)] /\ \A j \in 0..n : h[j] = g[j]
  BY <1>4
<1> HIDE DEF h
<1>6. \A j \in 1..n : h[j] = h[j - 1] \o front[j]
  <2> TAKE j \in 1..n
  <2>1. j \in 0..n /\ j - 1 \in 0..n /\ j \in 1..(n + 1)
    OBVIOUS
  <2>2. h[j] = g[j] /\ h[j - 1] = g[j - 1] /\ g[j] = g[j - 1] \o v[j]
    BY <1>4, <1>5, <2>1
  <2>3. QED
    BY <1>2, <2>2
<1>7. Joins(h, front, S)
  <2>1. h[0] = <<>>
    BY <1>4, <1>5
  <2>2. n = Len(front)
    BY <1>2
  <2>3. QED
    BY <1>5, <1>6, <2>1, <2>2 DEF Joins
<1>8. FlattenSeq(v) = g[n + 1] /\ FlattenSeq(front) = h[n] /\ FlattenSeq(front) \in Seq(S)
  BY <1>1, <1>2, <1>3, <1>7, FlattenSeqJoins
<1>9. g[n + 1] = g[n] \o v[n + 1] /\ h[n] = g[n]
  <2>1. n + 1 \in 1..(n + 1) /\ (n + 1) - 1 = n /\ n \in 0..n
    OBVIOUS
  <2>2. QED
    BY <1>4, <1>5, <2>1
<1>10. QED
  BY <1>8, <1>9 DEF front

\* and empty ones add nothing.
EmptyBehind(front, n, v, m, S) ==
  /\ n \in Nat /\ m \in Nat /\ n <= m
  /\ v \in [1..m -> Seq(S)] /\ front \in [1..n -> Seq(S)]
  /\ \A k \in 1..n : front[k] = v[k]
  /\ \A k \in 1..m : n < k => v[k] = <<>>

LEMMA FlattenEmptyTail ==
  ASSUME NEW S, NEW n, NEW m, NEW v, NEW front, EmptyBehind(front, n, v, m, S)
  PROVE  FlattenSeq(v) = FlattenSeq(front)
<1>0. /\ n \in Nat /\ m \in Nat /\ n <= m
      /\ v \in [1..m -> Seq(S)] /\ front \in [1..n -> Seq(S)]
      /\ \A k \in 1..n : front[k] = v[k]
      /\ \A k \in 1..m : n < k => v[k] = <<>>
  BY DEF EmptyBehind
<1> DEFINE F(j) == FlattenSeq([k \in 1..j |-> v[k]])
           Same == {d \in Nat : n + d <= m => F(n + d) = F(n)}
<1>1. 0 \in Same
  BY <1>0, n + 0 = n
<1>2. ASSUME NEW d \in Nat, d \in Same
      PROVE  d + 1 \in Same
  <2>1. ASSUME n + (d + 1) <= m
        PROVE  F(n + (d + 1)) = F(n)
    <3> DEFINE j == n + d
               w == [k \in 1..(j + 1) |-> v[k]]
    <3>1. j \in Nat /\ j + 1 = n + (d + 1) /\ j + 1 <= m /\ j + 1 \in 1..m /\ n < j + 1
      BY <1>0, <2>1
    <3>2. F(j) = F(n)
      <4>1. n + d <= m
        BY <1>0, <2>1
      <4> HIDE DEF F
      <4>2. QED
        BY <1>2, <4>1
    <3> HIDE DEF j
    <3>3. w \in [1..(j + 1) -> Seq(S)] /\ w[j + 1] = <<>>
      BY <1>0, <3>1
    <3>4. [k \in 1..j |-> w[k]] = [k \in 1..j |-> v[k]]
      BY <3>1
    <3> HIDE DEF w
    <3>5. FlattenSeq(w) = F(j) \o <<>> /\ F(j) \in Seq(S)
      BY <3>1, <3>3, <3>4, FlattenNext
    <3>6. FlattenSeq(w) = F(j)
      BY <3>5, ConcatEmptySeq
    <3>7. FlattenSeq(w) = F(n + (d + 1))
      BY <3>1 DEF w
    <3>8. QED
      BY <3>2, <3>6, <3>7
  <2> HIDE DEF F
  <2>2. QED
    BY <2>1
<1> HIDE DEF Same
<1>3. Nat \subseteq Same
  BY <1>1, <1>2, NatInductionInSets
<1>4. m - n \in Same /\ n + (m - n) = m
  BY <1>0, <1>3
<1> HIDE DEF F
<1>5. F(m) = F(n)
  BY <1>0, <1>4 DEF Same
<1>6. v = [k \in 1..m |-> v[k]] /\ front = [k \in 1..n |-> v[k]]
  BY <1>0
<1>7. QED
  BY <1>5, <1>6 DEF F
=============================================================================

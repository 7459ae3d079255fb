-------------------------- MODULE ControlFlowProofs --------------------------
(***************************************************************************)
(* For all bodies, however their ifs and loops are nested: the code makes  *)
(* the calls and tests of its statements, and stays in the code; and if    *)
(* the statements of blocks leave nothing on the stack, an instruction     *)
(* finds the same number of operands at every execution.  And what is read *)
(* from an instruction is what was put into it.                            *)
(***************************************************************************)
EXTENDS ControlFlow, Induction, SequenceTheorems, TLAPS

-----------------------------------------------------------------------------
(* What is read from an instruction is what was put into it, and its bytes lie
   inside the buffer.  *)

\* The bytes of a number of 32 bits, the sign in the last of them.
LEMMA BytesOf ==
  ASSUME NEW v \in Int, -2147483648 <= v, v <= 2147483647
  PROVE  Number(Byte0(v), Byte1(v), Byte2(v), Byte3(v)) = v
<1> DEFINE a == v \div 256
           b == v \div 65536
           c == v \div 16777216
<1>1. v = 256 * a + (v % 256) /\ a \in Int /\ v % 256 \in 0..255
  BY SMT
<1>2. a = 256 * b + (a % 256) /\ b \in Int
  BY SMT
<1>3. b = 256 * c + (b % 256) /\ c \in Int /\ -128 <= c /\ c <= 127
  BY SMT
<1>4. c % 256 = IF c < 0 THEN c + 256 ELSE c
  BY <1>3, SMT
<1>5. v = (v % 256) + 256 * (a % 256) + 65536 * (b % 256) + 16777216 * c
  BY <1>1, <1>2, <1>3, SMT
<1>6. c = IF (c % 256) > 127 THEN (c % 256) - 256 ELSE c % 256
  BY <1>3, <1>4, SMT
<1>7. QED
  BY <1>5, <1>6 DEF Number, Byte0, Byte1, Byte2, Byte3

(* Every operand of 32 bits is read back from the bytes it is written to, negative
   ones included: a while loop jumps back by one (bytecode.cpp:13,
   bytecode.h:82).  *)
THEOREM OperandsAreKept ==
  ASSUME NEW op, NEW v \in Int, -2147483648 <= v, v <= 2147483647
  PROVE  OpFrom(Bytecode1(op, v)) = op /\ ValueFrom(Bytecode1(op, v)) = v
<1>1. ValueFrom(Bytecode1(op, v)) = Number(Byte0(v), Byte1(v), Byte2(v), Byte3(v))
  BY SMT DEF ValueFrom, Bytecode1
<1>2. OpFrom(Bytecode1(op, v)) = op
  BY SMT DEF OpFrom, Bytecode1
<1>3. QED
  BY <1>1, <1>2, BytesOf, SMT

(* Of two operands, the second may have any 32 bits, the first no sign and 24: the
   slot of a class, whose static field the other one is (bytecode.cpp:25).  *)
THEOREM PairsAreKept ==
  ASSUME NEW op, NEW v \in Nat, v < 16777216,
         NEW w \in Int, -2147483648 <= w, w <= 2147483647
  PROVE  /\ Value1From(Bytecode2(op, v, w)) = v
         /\ Value2From(Bytecode2(op, v, w)) = w
<1>1. Value1From(Bytecode2(op, v, w)) = Number(Byte0(v), Byte1(v), Byte2(v), 0)
  BY SMT DEF Value1From, Bytecode2
<1>2. Byte3(v) = 0
  BY SMT DEF Byte3
<1>3. Number(Byte0(v), Byte1(v), Byte2(v), Byte3(v)) = v
  BY BytesOf, SMT
<1>4. Value2From(Bytecode2(op, v, w)) = Number(Byte0(w), Byte1(w), Byte2(w), Byte3(w))
  BY SMT DEF Value2From, Bytecode2
<1>5. QED
  BY <1>1, <1>2, <1>3, <1>4, BytesOf, SMT

\* What every write finds.
Roomy(buffer) ==
  /\ buffer \in [pos : Nat, capacity : Nat]
  /\ buffer.pos <= buffer.capacity /\ buffer.capacity >= 1024

\* A new buffer has room for what it says.
LEMMA EmptyIsRoomy == Roomy(EmptyBuffer)
BY SMT DEF Roomy, EmptyBuffer

(* An instruction's bytes lie inside the buffer, which doubles once and does not
   look whether that was enough, and the writer counts one more
   (memory.h:33, bytecode.h:104).  *)
THEOREM WritesFit ==
  ASSUME NEW buffer, Roomy(buffer)
  PROVE  /\ Roomy(Written(buffer))
         /\ Written(buffer).pos = buffer.pos + BytecodeSize
         /\ SizeOf(Written(buffer)) = SizeOf(buffer) + 1
<1> DEFINE resized == TryResizeIfNeed(buffer, buffer.pos + BytecodeSize)
<1>1. /\ resized \in [pos : Nat, capacity : Nat]
      /\ resized.pos = buffer.pos
      /\ buffer.pos + 8 <= resized.capacity /\ resized.capacity >= 1024
  BY SMT DEF Roomy, TryResizeIfNeed, BytecodeSize
<1>2. Written(buffer) = [resized EXCEPT !.pos = @ + BytecodeSize]
  BY DEF Written
<1> HIDE DEF resized
<1>3. /\ Written(buffer) \in [pos : Nat, capacity : Nat]
      /\ Written(buffer).pos = buffer.pos + 8
      /\ Written(buffer).capacity = resized.capacity
  BY <1>1, <1>2, SMT DEF BytecodeSize, Roomy
<1>4. (buffer.pos + 8) \div 8 = (buffer.pos \div 8) + 1
  BY SMT DEF Roomy
<1>5. QED
  BY <1>1, <1>3, <1>4, SMT DEF Roomy, SizeOf, BytecodeSize

-----------------------------------------------------------------------------
(* The generator, which calls itself for the statements of a block. *)

Nested(emit) == [s \in Statement(DOMAIN emit) |-> EmitStatement(emit, s)]

EmitsUpTo(f, k) == f = [n \in 0..k |-> IF n = 0 THEN Nested(<<>>) ELSE Nested(f[n - 1])]

Emits(f) == f = [n \in Nat |-> Nested(IF n = 0 THEN <<>> ELSE f[n - 1])]

\* The emitters of nestings up to j are those of nestings up to k.
LEMMA EmittersAgree ==
  ASSUME NEW j \in Nat, NEW k \in Nat, NEW f, NEW g, EmitsUpTo(f, j), EmitsUpTo(g, k), j <= k
  PROVE  \A n \in 0..j : f[n] = g[n]
<1> DEFINE Ns == {n \in Nat : n <= j => f[n] = g[n]}
<1>1. \A n \in 0..j : f[n] = IF n = 0 THEN Nested(<<>>) ELSE Nested(f[n - 1])
  BY DEF EmitsUpTo
<1>2. \A n \in 0..k : g[n] = IF n = 0 THEN Nested(<<>>) ELSE Nested(g[n - 1])
  BY DEF EmitsUpTo
<1>3. 0 \in Ns
  BY <1>1, <1>2
<1>4. ASSUME NEW n \in Nat, n \in Ns
      PROVE  n + 1 \in Ns
  <2> SUFFICES ASSUME n + 1 <= j PROVE f[n + 1] = g[n + 1]
    OBVIOUS
  <2>1. f[n] = g[n] /\ n + 1 \in 0..j /\ n + 1 \in 0..k /\ n + 1 # 0 /\ (n + 1) - 1 = n
    BY <1>4
  <2>2. QED
    BY <1>1, <1>2, <2>1
<1> HIDE DEF Ns
<1>5. Nat \subseteq Ns
  BY <1>3, <1>4, NatInductionInSets
<1>6. QED
  BY <1>5 DEF Ns

\* There is one for every nesting.
LEMMA EmittersExist ==
  ASSUME NEW k \in Nat
  PROVE  \E f : EmitsUpTo(f, k)
<1> DEFINE Ks == {n \in Nat : \E f : EmitsUpTo(f, n)}
<1>1. 0 \in Ks
  <2> DEFINE f == [n \in 0..0 |-> Nested(<<>>)]
  <2>1. EmitsUpTo(f, 0)
    BY DEF EmitsUpTo
  <2>2. QED
    BY <2>1
<1>2. ASSUME NEW n \in Nat, n \in Ks
      PROVE  n + 1 \in Ks
  <2>1. PICK f : EmitsUpTo(f, n)
    BY <1>2
  <2> DEFINE h == [i \in 0..(n + 1) |-> IF i <= n THEN f[i] ELSE Nested(f[n])]
  <2>2. \A i \in 0..n : f[i] = IF i = 0 THEN Nested(<<>>) ELSE Nested(f[i - 1])
    BY <2>1 DEF EmitsUpTo
  <2>3. \A i \in 0..(n + 1) : h[i] = IF i = 0 THEN Nested(<<>>) ELSE Nested(h[i - 1])
    <3> SUFFICES ASSUME NEW i \in 0..(n + 1)
                 PROVE  h[i] = IF i = 0 THEN Nested(<<>>) ELSE Nested(h[i - 1])
      OBVIOUS
    <3>1. CASE i = 0
      BY <2>2, <3>1
    <3>2. CASE i # 0 /\ i <= n
      <4>1. i - 1 \in 0..(n + 1) /\ i - 1 <= n /\ i \in 0..n
        BY <3>2
      <4>2. QED
        BY <2>2, <3>2, <4>1
    <3>3. CASE i = n + 1
      BY <3>3
    <3>4. QED
      BY <3>1, <3>2, <3>3
  <2>4. EmitsUpTo(h, n + 1)
    BY <2>3 DEF EmitsUpTo
  <2>5. QED
    BY <2>4
<1> HIDE DEF Ks
<1>3. Nat \subseteq Ks
  BY <1>1, <1>2, NatInductionInSets
<1>4. QED
  BY <1>3 DEF Ks

\* The code of a statement is made from the code of those in its blocks.
LEMMA EmitIs ==
  ASSUME NEW n \in Nat
  PROVE  Emit[n] = Nested(IF n = 0 THEN <<>> ELSE Emit[n - 1])
<1> DEFINE F == [k \in Nat |-> CHOOSE f : EmitsUpTo(f, k)]
           G == [k \in Nat |-> F[k][k]]
<1>1. ASSUME NEW k \in Nat
      PROVE  EmitsUpTo(F[k], k)
  <2>1. \E f : EmitsUpTo(f, k)
    BY EmittersExist
  <2>2. F[k] = CHOOSE f : EmitsUpTo(f, k)
    OBVIOUS
  <2>3. QED
    BY <2>1, <2>2
<1> HIDE DEF F
<1>2. ASSUME NEW k \in Nat
      PROVE  G[k] = Nested(IF k = 0 THEN <<>> ELSE G[k - 1])
  <2>1. \A i \in 0..k : F[k][i] = IF i = 0 THEN Nested(<<>>) ELSE Nested(F[k][i - 1])
    BY <1>1 DEF EmitsUpTo
  <2>2. k \in 0..k
    OBVIOUS
  <2>3. CASE k = 0
    BY <2>1, <2>2, <2>3
  <2>4. CASE k # 0
    <3>1. k - 1 \in Nat /\ k - 1 <= k /\ k - 1 \in 0..(k - 1)
      BY <2>4
    <3>2. F[k - 1][k - 1] = F[k][k - 1]
      BY <1>1, <3>1, EmittersAgree
    <3>3. QED
      BY <2>1, <2>2, <2>4, <3>1, <3>2
  <2>5. QED
    BY <2>3, <2>4
<1>3. DOMAIN G = Nat /\ G = [k \in DOMAIN G |-> G[k]]
  OBVIOUS
<1> HIDE DEF G
<1>4. Emits(G)
  BY <1>2, <1>3 DEF Emits
<1>5. Emit = CHOOSE f : Emits(f)
  BY DEF Emit, Emits, Nested
<1>6. Emits(Emit)
  BY <1>4, <1>5
<1>7. QED
  BY <1>6 DEF Emits

-----------------------------------------------------------------------------
(* What remains of the statements. *)

\* A sequence with an element in front of it.
LEMMA InFront ==
  ASSUME NEW S, NEW s \in S, NEW t \in Seq(S)
  PROVE  /\ <<s>> \o t \in Seq(S)
         /\ Len(<<s>> \o t) = Len(t) + 1
         /\ (<<s>> \o t)[1] = s
         /\ \A i \in 1..Len(t) : (<<s>> \o t)[i + 1] = t[i]
         /\ <<s>> \o t # <<>>
         /\ Head(<<s>> \o t) = s
         /\ Tail(<<s>> \o t) = t
<1> DEFINE o == <<s>>
           n == Len(t)
           u == <<s>> \o t
<1>1. n \in Nat
  BY LenProperties
<1>2. o \in Seq(S) /\ Len(o) = 1 /\ o[1] = s
  OBVIOUS
<1>3. u = o \o t
  OBVIOUS
<1> HIDE DEF o, u
<1>4. /\ u \in Seq(S) /\ Len(u) = Len(o) + Len(t)
      /\ \A i \in 1..(Len(o) + Len(t)) : u[i] = IF i <= Len(o) THEN o[i] ELSE t[i - Len(o)]
  BY <1>2, <1>3, ConcatProperties
<1>5. Len(u) = n + 1
  BY <1>1, <1>2, <1>4
<1>6. u[1] = s
  BY <1>1, <1>2, <1>4
<1>7. ASSUME NEW i \in 1..n
      PROVE  u[i + 1] = t[i]
  <2>1. i + 1 \in 1..(Len(o) + Len(t)) /\ ~ (i + 1 <= Len(o)) /\ (i + 1) - Len(o) = i
    BY <1>1, <1>2
  <2>2. QED
    BY <1>4, <2>1
<1>8. u # <<>>
  BY <1>1, <1>5, EmptySeq
<1>9. Head(u) = s
  BY <1>6
<1>10. Tail(u) = t
  <2>1. /\ Tail(u) \in Seq(S) /\ Len(Tail(u)) = Len(u) - 1
        /\ \A i \in 1..Len(Tail(u)) : Tail(u)[i] = u[i + 1]
    BY <1>4, <1>8, HeadTailProperties
  <2>2. Len(Tail(u)) = n
    BY <1>1, <1>5, <2>1
  <2>3. QED
    BY <1>7, <2>1, <2>2, SeqEqual
<1>11. QED
  BY <1>4, <1>5, <1>6, <1>7, <1>8, <1>9, <1>10 DEF u

\* The first of the places that are seen.
Seen(t) == {i \in DOMAIN t : t[i].kind \notin Silent}

\* If anything is seen there is a first place.
LEMMA FirstSeen ==
  ASSUME NEW S, NEW t \in Seq(S), Seen(t) # {}
  PROVE  Min(Seen(t)) \in Seen(t) /\ \A i \in Seen(t) : Min(Seen(t)) <= i
<1> DEFINE T == Seen(t)
<1>1. T \subseteq Int /\ T # {} /\ \A i \in T : 1 <= i
  <2>1. DOMAIN t = 1..Len(t) /\ Len(t) \in Nat
    BY LenProperties
  <2>2. QED
    BY <2>1 DEF Seen
<1> HIDE DEF T
<1> DEFINE b == 1
<1>2. \E n \in T : \A m \in T : n <= m
  <2>1. b \in Int /\ \A m \in T : b <= m
    BY <1>1
  <2> HIDE DEF b
  <2>2. QED
    BY <1>1, <2>1, SmallestElement
<1> DEFINE f == CHOOSE n \in T : \A m \in T : n <= m
<1>3. Min(T) = f
  BY DEF Min
<1>4. f \in T /\ \A m \in T : f <= m
  BY <1>2
<1> HIDE DEF f
<1>5. QED
  BY <1>3, <1>4 DEF T

\* What is visible begins there.
LEMMA VisibleFrom ==
  ASSUME NEW S, NEW t \in Seq(S), NEW f \in Seen(t), \A i \in Seen(t) : f <= i
  PROVE  Visible(t) = SubSeq(t, f, Len(t)) /\ f \in 1..Len(t)
<1>1. Min(Seen(t)) \in Seen(t) /\ \A i \in Seen(t) : Min(Seen(t)) <= i
  BY FirstSeen
<1>2. DOMAIN t = 1..Len(t) /\ Len(t) \in Nat
  BY LenProperties
<1>3. Seen(t) \subseteq 1..Len(t)
  BY <1>2 DEF Seen
<1>4. Min(Seen(t)) = f
  BY <1>1, <1>2, <1>3
<1>5. Visible(t) = SubSeq(t, Min(Seen(t)), Len(t))
  BY <1>1 DEF Visible, Seen
<1>6. QED
  BY <1>3, <1>4, <1>5

\* What is visible are statements of the body.
LEMMA VisibleTyped ==
  ASSUME NEW S, NEW t \in Seq(S)
  PROVE  Visible(t) \in Seq(S)
<1>1. CASE Seen(t) = {}
  BY <1>1 DEF Visible, Seen
<1>2. CASE Seen(t) # {}
  <2> DEFINE f == Min(Seen(t))
             n == Len(t)
  <2>1. f \in Seen(t) /\ \A i \in Seen(t) : f <= i
    BY <1>2, FirstSeen
  <2> HIDE DEF f
  <2>2. Visible(t) = SubSeq(t, f, n) /\ f \in 1..n
    BY <2>1, VisibleFrom
  <2>3. n \in Nat /\ \A i \in 1..n : t[i] \in S
    BY LenProperties, ElementOfSeq
  <2> HIDE DEF n
  <2>4. f \in Int /\ n \in Int /\ \A i \in f..n : t[i] \in S
    BY <2>2, <2>3
  <2>5. SubSeq(t, f, n) \in Seq(S)
    BY <2>4, SubSeqProperties
  <2>6. QED
    BY <2>2, <2>5
<1>3. QED
  BY <1>1, <1>2

\* Of nothing, nothing is visible.
LEMMA VisibleEmpty == Visible(<<>>) = <<>>
<1> DEFINE z == <<>>
<1>1. DOMAIN z = {}
  OBVIOUS
<1> HIDE DEF z
<1>2. Seen(z) = {}
  BY <1>1 DEF Seen
<1>3. Visible(z) = <<>>
  BY <1>2 DEF Visible, Seen
<1>4. QED
  BY <1>3 DEF z

\* A statement that is seen stays.
LEMMA VisibleStays ==
  ASSUME NEW S, NEW s \in S, NEW t \in Seq(S), s.kind \notin Silent
  PROVE  Visible(<<s>> \o t) = <<s>> \o t
<1> DEFINE u == <<s>> \o t
           n == Len(u)
<1>1. u \in Seq(S) /\ Len(u) = Len(t) + 1 /\ u[1] = s
  BY InFront
<1>2. Len(t) \in Nat /\ DOMAIN u = 1..n
  BY <1>1, LenProperties
<1>3. n \in Nat /\ 1 <= n
  BY <1>1, <1>2
<1> HIDE DEF u, n
<1>4. 1 \in Seen(u) /\ \A i \in Seen(u) : 1 <= i
  BY <1>1, <1>2, <1>3 DEF Seen
<1>5. Visible(u) = SubSeq(u, 1, n)
  BY <1>1, <1>4, VisibleFrom DEF n
<1>6. \A i \in 1..n : u[i] \in S
  BY <1>1, ElementOfSeq DEF n
<1>7. /\ SubSeq(u, 1, n) \in Seq(S) /\ Len(SubSeq(u, 1, n)) = n
      /\ \A i \in 1..n : SubSeq(u, 1, n)[i] = u[i]
  <2> DEFINE v == SubSeq(u, 1, n)
  <2>1. /\ v \in Seq(S) /\ Len(v) = (IF 1 <= n THEN n - 1 + 1 ELSE 0)
        /\ \A i \in 1..(n - 1 + 1) : v[i] = u[1 + i - 1]
    BY <1>3, <1>6, SubSeqProperties
  <2> HIDE DEF v
  <2>2. Len(v) = n /\ n - 1 + 1 = n /\ \A i \in 1..n : 1 + i - 1 = i
    BY <1>3, <2>1
  <2>3. \A i \in 1..n : v[i] = u[i]
    BY <2>1, <2>2
  <2>4. QED
    BY <2>1, <2>2, <2>3 DEF v
<1>8. SubSeq(u, 1, n) = u
  BY <1>1, <1>7, SeqEqual DEF n
<1>9. QED
  BY <1>5, <1>8 DEF u

\* One that is not is over when it is next.
LEMMA VisibleSkips ==
  ASSUME NEW S, NEW s \in S, NEW t \in Seq(S), s.kind \in Silent
  PROVE  Visible(<<s>> \o t) = Visible(t)
<1> DEFINE u == <<s>> \o t
           n == Len(t)
<1>1. u \in Seq(S) /\ Len(u) = n + 1 /\ u[1] = s /\ \A i \in 1..n : u[i + 1] = t[i]
  BY InFront
<1>2. n \in Nat /\ DOMAIN u = 1..(n + 1) /\ DOMAIN t = 1..n
  BY <1>1, LenProperties
<1> HIDE DEF u
<1>3. \A i \in Seen(u) : i - 1 \in Seen(t)
  <2> SUFFICES ASSUME NEW i \in Seen(u) PROVE i - 1 \in Seen(t)
    OBVIOUS
  <2>1. i \in 1..(n + 1) /\ u[i].kind \notin Silent
    BY <1>2 DEF Seen
  <2>2. i # 1
    BY <1>1, <2>1
  <2>3. i - 1 \in 1..n /\ (i - 1) + 1 = i
    BY <1>2, <2>1, <2>2
  <2>4. u[i] = t[i - 1]
    BY <1>1, <2>3
  <2>5. QED
    BY <1>2, <2>1, <2>3, <2>4 DEF Seen
<1>4. \A i \in Seen(t) : i + 1 \in Seen(u)
  <2> SUFFICES ASSUME NEW i \in Seen(t) PROVE i + 1 \in Seen(u)
    OBVIOUS
  <2>1. i \in 1..n /\ t[i].kind \notin Silent
    BY <1>2 DEF Seen
  <2>2. i + 1 \in 1..(n + 1) /\ u[i + 1] = t[i]
    BY <1>1, <1>2, <2>1
  <2>3. QED
    BY <1>2, <2>1, <2>2 DEF Seen
<1>5. CASE Seen(t) = {}
  <2>1. Seen(u) = {}
    BY <1>3, <1>5
  <2>2. QED
    BY <1>5, <2>1 DEF Visible, Seen, u
<1>6. CASE Seen(t) # {}
  <2> DEFINE f == Min(Seen(t))
             g == f + 1
  <2>1. f \in Seen(t) /\ \A i \in Seen(t) : f <= i
    BY <1>6, FirstSeen
  <2> HIDE DEF f
  <2>2. Visible(t) = SubSeq(t, f, n) /\ f \in 1..n
    BY <2>1, VisibleFrom
  <2>3. Seen(u) \subseteq 1..(n + 1)
    BY <1>2 DEF Seen
  <2>4. g \in Seen(u) /\ \A i \in Seen(u) : g <= i
    <3>1. g \in Seen(u)
      BY <1>4, <2>1
    <3>2. ASSUME NEW i \in Seen(u)
          PROVE  g <= i
      <4>1. f <= i - 1 /\ i \in Int /\ f \in Int
        BY <1>2, <1>3, <2>1, <2>2, <2>3
      <4>2. QED
        BY <4>1
    <3>3. QED
      BY <3>1, <3>2
  <2>5. Visible(u) = SubSeq(u, g, n + 1)
    BY <1>1, <2>4, VisibleFrom
  <2>6. /\ g \in Int /\ f \in Int /\ n \in Int
        /\ (\A i \in f..n : t[i] \in S) /\ (\A i \in g..(n + 1) : u[i] \in S)
    <3>1. (\A i \in 1..n : t[i] \in S) /\ (\A i \in 1..(n + 1) : u[i] \in S)
      BY <1>1, ElementOfSeq
    <3>2. QED
      BY <1>2, <2>2, <3>1
  <2> DEFINE a == SubSeq(t, f, n)
             h == n + 1
             b == SubSeq(u, g, h)
             m == n - f + 1
  <2>7. /\ a \in Seq(S) /\ Len(a) = (IF f <= n THEN m ELSE 0)
        /\ \A i \in 1..m : a[i] = t[f + i - 1]
    BY <2>6, SubSeqProperties
  <2>8. h \in Int /\ h - g + 1 = m /\ (g <= h <=> f <= n) /\ m \in Nat
    BY <1>2, <2>2
  <2>9. /\ b \in Seq(S) /\ Len(b) = (IF g <= h THEN h - g + 1 ELSE 0)
        /\ \A i \in 1..(h - g + 1) : b[i] = u[g + i - 1]
    <3>1. h \in Int /\ g \in Int /\ \A i \in g..h : u[i] \in S
      BY <2>6, <2>8
    <3> HIDE DEF h, g
    <3>2. QED
      BY <3>1, SubSeqProperties
  <2> HIDE DEF a, b, m, h
  <2>10. Len(a) = m /\ Len(b) = m
    BY <2>2, <2>7, <2>8, <2>9
  <2>11. ASSUME NEW i \in 1..m
         PROVE  a[i] = b[i]
    <3>1. f + i - 1 \in 1..n /\ g + i - 1 = (f + i - 1) + 1
      BY <1>2, <2>2, <2>8 DEF m
    <3>2. u[g + i - 1] = t[f + i - 1]
      BY <1>1, <3>1
    <3>3. QED
      BY <2>7, <2>8, <2>9, <3>2
  <2>12. a = b
    BY <2>7, <2>9, <2>10, <2>11, SeqEqual
  <2>13. QED
    BY <2>2, <2>5, <2>12 DEF a, b, h, u
<1>7. QED
  BY <1>5, <1>6

-----------------------------------------------------------------------------
(* Labels: for every place of the code the number of operands found there, and *)
(* the statements that remain; behind a comparison they depend on what it found. *)

\* The statements, however deeply nested.
St == UNION {DOMAIN Emit[n] : n \in Nat}

Label == [depth : Int, yes : Seq(St), no : Seq(St)]

Plain(m, r) == [depth |-> m, yes |-> r, no |-> r]

\* The label of a place that is not reached.
Never == Plain(-1, <<>>)

Op(ins)  == OpFrom(ins.bytes)
Arg(ins) == ValueFrom(ins.bytes)

\* With x, the depths are exact.
Balanced(ins, here, next, x) ==
  /\ next.depth >= 0
  /\ x => next.depth = here.depth - ins.pops + ins.pushes

Passes(ins, here, next) ==
  /\ Op(ins) \in {"ILOAD", "ISTORE", "POP"}
  /\ next.yes = here.yes /\ next.no = here.yes

Compares(ins, here, next) ==
  /\ Op(ins) = "ICMP_L" /\ ins.pushes = 1
  /\ \A b \in BOOLEAN : Event("test", Arg(ins), b) \in Possible(here.yes)
  /\ next.yes = After(here.yes, Event("test", Arg(ins), TRUE))
  /\ next.no = After(here.yes, Event("test", Arg(ins), FALSE))

Calls(ins, here, next) ==
  /\ Op(ins) = "INVOKE"
  /\ Event("call", Arg(ins), FALSE) \in Possible(here.yes)
  /\ next.yes = After(here.yes, Event("call", Arg(ins), FALSE))
  /\ next.no = next.yes

Ends(ins, here) ==
  /\ Op(ins) \in {"RETURN", "IRETURN"}
  /\ Returned \in Possible(here.yes)

\* An instruction that is followed by the next one, or by none.
Falls(ins, here, next, x) ==
  /\ here.no = here.yes
  /\ next.depth <= here.depth + 1
  /\ \/ Ends(ins, here)
     \/ /\ Balanced(ins, here, next, x)
        /\ Passes(ins, here, next) \/ Compares(ins, here, next) \/ Calls(ins, here, next)

Skips(ins, here, target) ==
  /\ Op(ins) = "GOTO"
  /\ target.yes = here.yes /\ target.no = here.yes

Branches(ins, here, next, target, x) ==
  /\ Op(ins) \in {"IFNE", "IFLE"} /\ ins.pops = 1 /\ ins.pushes = 0
  /\ Balanced(ins, here, next, x)
  /\ next.yes = here.yes /\ next.no = here.yes
  /\ target.yes = here.no /\ target.no = here.no

Jumps(ins, here, next, target, x) ==
  /\ next.depth <= here.depth + 1
  /\ Balanced(ins, here, target, x)
  /\ \/ Skips(ins, here, target) /\ here.no = here.yes
     \/ Branches(ins, here, next, target, x)

Leads(ins, i, l, x) ==
  \/ Falls(ins, l[i], l[i + 1], x)
  \/ /\ i + 1 + Arg(ins) \in DOMAIN l
     /\ Jumps(ins, l[i], l[i + 1], l[i + 1 + Arg(ins)], x)

\* Code and the labels of its places, of the one behind it too.
Labelled(c, l, x) ==
  /\ l \in [1..(Len(c) + 1) -> Label]
  /\ \A i \in 1..Len(c) : Leads(c[i], i, l, x)

\* The instructions that are generated.
Ops == {"ILOAD", "ISTORE", "POP", "ICMP_L", "INVOKE", "RETURN", "IRETURN", "GOTO", "IFNE", "IFLE"}

Bytes == {Bytecode1(p[1], p[2]) : p \in Ops \X Int}

Ins == [bytes : Bytes, pops : Nat, pushes : Nat]

-----------------------------------------------------------------------------
(* The interpreter follows the labels. *)

\* What the labels say of the place the interpreter is at.
At(l, x) ==
  /\ cp \in 1..(Len(code) + 1)
  /\ l[cp].depth >= 0
  /\ rest = IF operands # <<>> /\ Last(operands) = 1 THEN l[cp].yes ELSE l[cp].no
  /\ x => Len(operands) = l[cp].depth

Follows(l, x) ==
  /\ Labelled(code, l, x)
  /\ Running => At(l, x)
  /\ x => \A i \in 1..Len(code) : depths[i] = -1 \/ depths[i] = l[i].depth

Machine ==
  /\ code \in Seq(Ins)
  /\ cp \in Nat
  /\ operands \in Seq({0, 1})
  /\ tests \in 0..MaxTests
  /\ depths \in [1..Len(code) -> Nat \union {-1}]

\* What every instruction does to the operands and their record.
LEMMA ExecuteSteps ==
  ASSUME NEW ops, NEW word \in {0, 1}, NEW jump \in Int,
         Machine, Execute(ops, word, jump), cp + jump + 1 \in Nat
  PROVE  /\ cp' \in Nat /\ code' = code
         /\ operands' \in Seq({0, 1})
         /\ Len(operands') = Len(operands) - code[cp].pops + code[cp].pushes
         /\ code[cp].pushes > 0 => operands' # <<>> /\ Last(operands') = word
         /\ depths' \in [1..Len(code) -> Nat \union {-1}]
         /\ \A i \in 1..Len(code) :
              \/ depths'[i] = depths[i]
              \/ i = cp /\ depths'[i] = Len(operands)
<1> DEFINE n == Len(operands)
           p == code[cp].pops
           q == code[cp].pushes
           kept == SubSeq(operands, 1, n - p)
           pushed == [i \in 1..q |-> word]
<1>1. /\ cp \in DOMAIN code /\ n >= p
      /\ operands' = kept \o pushed
      /\ cp' = cp + jump + 1 /\ code' = code
      /\ depths' = [depths EXCEPT ![cp] = IF depths[cp] = -1 THEN n ELSE depths[cp]]
  BY DEF Execute
<1>2. /\ code \in Seq(Ins) /\ operands \in Seq({0, 1}) /\ cp \in Nat
      /\ depths \in [1..Len(code) -> Nat \union {-1}]
  BY DEF Machine
<1>3. n \in Nat /\ \A i \in 1..n : operands[i] \in {0, 1}
  BY <1>2, LenProperties, ElementOfSeq
<1>4. cp \in 1..Len(code) /\ code[cp] \in Ins
  BY <1>1, <1>2, LenProperties, ElementOfSeq
<1>5. p \in Nat /\ q \in Nat
  BY <1>4 DEF Ins
<1>6. pushed \in Seq({0, 1}) /\ Len(pushed) = q /\ \A i \in 1..q : pushed[i] = word
  BY <1>5
<1> HIDE DEF pushed
<1> DEFINE one == 1
           z == n - p
<1>7. kept \in Seq({0, 1}) /\ Len(kept) = n - p
  <2>1. one \in Int /\ z \in Int /\ \A i \in one..z : operands[i] \in {0, 1}
    BY <1>3, <1>5
  <2>2. kept = SubSeq(operands, one, z)
    OBVIOUS
  <2>3. Len(kept) = IF one <= z THEN z - one + 1 ELSE 0
    <3> HIDE DEF one, z, kept
    <3>1. QED
      BY <2>1, <2>2, SubSeqProperties
  <2>4. kept \in Seq({0, 1})
    <3> HIDE DEF one, z, kept
    <3>1. QED
      BY <2>1, <2>2, SubSeqProperties
  <2>5. QED
    BY <1>1, <1>3, <1>5, <2>3, <2>4
<1> HIDE DEF kept, n, p, q
<1>8. /\ kept \o pushed \in Seq({0, 1})
      /\ Len(kept \o pushed) = Len(kept) + Len(pushed)
      /\ \A i \in 1..(Len(kept) + Len(pushed)) :
           (kept \o pushed)[i] = IF i <= Len(kept) THEN kept[i] ELSE pushed[i - Len(kept)]
  BY <1>6, <1>7, ConcatProperties
<1>9. operands' \in Seq({0, 1}) /\ Len(operands') = n - p + q
  BY <1>1, <1>6, <1>7, <1>8
<1>10. ASSUME q > 0
       PROVE  operands' # <<>> /\ Last(operands') = word
  <2>1. Len(operands') # 0
    BY <1>1, <1>3, <1>5, <1>9, <1>10
  <2>2. operands' # <<>>
    BY <2>1
  <2>3. Last(operands') = operands'[n - p + q]
    BY <1>9 DEF Last
  <2>4. n - p + q \in 1..(Len(kept) + Len(pushed)) /\ ~ (n - p + q <= Len(kept))
        /\ (n - p + q) - Len(kept) = q /\ q \in 1..q
    BY <1>1, <1>3, <1>5, <1>6, <1>7, <1>10
  <2>5. QED
    BY <1>1, <1>6, <1>8, <2>2, <2>3, <2>4
<1>11. depths' \in [1..Len(code) -> Nat \union {-1}]
  BY <1>1, <1>2, <1>3, <1>4
<1>12. \A i \in 1..Len(code) :
          \/ depths'[i] = depths[i]
          \/ i = cp /\ depths'[i] = Len(operands)
  BY <1>1, <1>2, <1>4 DEF n
<1>13. QED
  BY <1>1, <1>9, <1>10, <1>11, <1>12 DEF n, p, q

\* An instruction's operand is a number.
LEMMA InsTyped ==
  ASSUME NEW ins \in Ins
  PROVE  /\ Arg(ins) \in Int /\ Op(ins) \in Ops
         /\ ins.pops \in Nat /\ ins.pushes \in Nat
<1>1. ins.bytes \in Bytes /\ ins.pops \in Nat /\ ins.pushes \in Nat
  BY DEF Ins
<1>2. PICK op \in Ops, v \in Int : ins.bytes = Bytecode1(op, v)
  BY <1>1 DEF Bytes
<1>3. Op(ins) = op
  BY <1>2 DEF Op, OpFrom, Bytecode1
<1>4. Arg(ins) = Number(Byte0(v), Byte1(v), Byte2(v), Byte3(v))
  BY <1>2 DEF Arg, ValueFrom, Bytecode1
<1>5. Number(Byte0(v), Byte1(v), Byte2(v), Byte3(v)) \in Int
  BY DEF Number, Byte0, Byte1, Byte2, Byte3
<1>6. QED
  BY <1>1, <1>3, <1>4, <1>5

\* An instruction that leads to the place its label speaks of.
LEMMA Arrives ==
  ASSUME NEW l, NEW x \in BOOLEAN, NEW ops, NEW word \in {0, 1}, NEW jump \in Int,
         Machine, Running, Follows(l, x), Execute(ops, word, jump),
         tests' \in 0..MaxTests,
         cp + jump + 1 \in 1..(Len(code) + 1),
         Running' =>
           /\ Balanced(code[cp], l[cp], l[cp + jump + 1], x)
           /\ rest' = IF operands' # <<>> /\ Last(operands') = 1
                      THEN l[cp + jump + 1].yes ELSE l[cp + jump + 1].no
  PROVE  Machine' /\ Follows(l, x)'
<1>1. code \in Seq(Ins) /\ cp \in DOMAIN code
  BY DEF Machine, Execute
<1>2. Len(code) \in Nat /\ cp \in 1..Len(code)
  BY <1>1, LenProperties
<1>3. cp + jump + 1 \in Nat
  BY <1>2
<1>4. /\ cp' \in Nat /\ code' = code
      /\ operands' \in Seq({0, 1})
      /\ Len(operands') = Len(operands) - code[cp].pops + code[cp].pushes
      /\ depths' \in [1..Len(code) -> Nat \union {-1}]
      /\ \A i \in 1..Len(code) :
           \/ depths'[i] = depths[i]
           \/ i = cp /\ depths'[i] = Len(operands)
  BY <1>3, ExecuteSteps
<1>5. cp' = cp + jump + 1
  BY DEF Execute
<1>6. Machine'
  BY <1>1, <1>4 DEF Machine
<1>7. Labelled(code, l, x) /\ At(l, x)
      /\ (x => \A i \in 1..Len(code) : depths[i] = -1 \/ depths[i] = l[i].depth)
  BY DEF Follows
<1>8. Labelled(code, l, x)'
  BY <1>4, <1>7
<1>9. x => Len(operands) = l[cp].depth
  BY <1>7 DEF At
<1>10. x => \A i \in 1..Len(code') : depths'[i] = -1 \/ depths'[i] = l[i].depth
  <2> SUFFICES ASSUME x, NEW i \in 1..Len(code)
               PROVE  depths'[i] = -1 \/ depths'[i] = l[i].depth
    BY <1>4
  <2>1. CASE depths'[i] = depths[i]
    BY <1>7, <2>1
  <2>2. CASE i = cp /\ depths'[i] = Len(operands)
    BY <1>9, <2>2
  <2>3. QED
    BY <1>4, <2>1, <2>2
<1>11. ASSUME Running'
       PROVE  At(l, x)'
  <2>1. /\ l[cp'].depth >= 0
        /\ x => l[cp'].depth = l[cp].depth - code[cp].pops + code[cp].pushes
        /\ rest' = IF operands' # <<>> /\ Last(operands') = 1
                   THEN l[cp'].yes ELSE l[cp'].no
    BY <1>5, <1>11 DEF Balanced
  <2>2. x => Len(operands') = l[cp'].depth
    BY <1>4, <1>9, <2>1
  <2>3. cp' \in 1..(Len(code') + 1)
    BY <1>4, <1>5
  <2>4. QED
    BY <2>1, <2>2, <2>3 DEF At
<1>12. QED
  BY <1>6, <1>8, <1>10, <1>11 DEF Follows

\* A step is none of the statements', or what is possible next.
Seems ==
  \/ UNCHANGED <<rest, seen>>
  \/ \E e \in Possible(rest) : seen' = e /\ rest' = After(rest, e)

\* What the label of an instruction says.
LEMMA LabelledPlace ==
  ASSUME NEW l, NEW x \in BOOLEAN, Machine, Running, Follows(l, x), cp \in DOMAIN code
  PROVE  /\ code[cp] \in Ins /\ cp \in 1..Len(code) /\ Len(code) \in Nat
         /\ Operand = Arg(code[cp]) /\ Operand \in Int
         /\ Leads(code[cp], cp, l, x) /\ DOMAIN l = 1..(Len(code) + 1)
         /\ l[cp].no = l[cp].yes => rest = l[cp].yes
         /\ At(l, x)
<1>1. code \in Seq(Ins)
  BY DEF Machine
<1>2. Len(code) \in Nat /\ cp \in 1..Len(code)
  BY <1>1, LenProperties
<1>3. code[cp] \in Ins
  BY <1>1, <1>2, ElementOfSeq
<1>4. Operand = Arg(code[cp])
  BY DEF Operand, Arg
<1>5. Labelled(code, l, x) /\ At(l, x)
  BY DEF Follows
<1>6. Leads(code[cp], cp, l, x) /\ DOMAIN l = 1..(Len(code) + 1)
  BY <1>2, <1>5 DEF Labelled
<1>7. l[cp].no = l[cp].yes => rest = l[cp].yes
  BY <1>5 DEF At
<1>8. QED
  BY <1>2, <1>3, <1>4, <1>5, <1>6, <1>7, InsTyped

\* A load, a store or a pop reaches the label behind it.
LEMMA StraightStep ==
  ASSUME NEW l, NEW x \in BOOLEAN, Machine, Running, Follows(l, x), Straight
  PROVE  Machine' /\ Follows(l, x)' /\ Seems
<1> DEFINE ops == {"ILOAD", "ISTORE", "POP"}
           word == 1
           jump == 0
<1>1. Execute(ops, word, jump) /\ UNCHANGED <<tests, seen, rest>>
  BY DEF Straight, Unseen
<1>2. /\ cp \in DOMAIN code /\ Op(code[cp]) \in ops
  BY <1>1 DEF Execute, Op
<1>3. /\ code[cp] \in Ins /\ cp \in 1..Len(code) /\ Len(code) \in Nat
      /\ Leads(code[cp], cp, l, x)
      /\ l[cp].no = l[cp].yes => rest = l[cp].yes
  BY <1>2, LabelledPlace
<1>4. l[cp].no = l[cp].yes /\ Balanced(code[cp], l[cp], l[cp + 1], x)
      /\ l[cp + 1].yes = l[cp].yes /\ l[cp + 1].no = l[cp].yes
  BY <1>2, <1>3 DEF Leads, Falls, Jumps, Skips, Branches, Ends, Passes, Compares, Calls
<1>5. rest' = l[cp + 1].yes /\ rest' = l[cp + 1].no
  BY <1>1, <1>3, <1>4
<1>6. word \in {0, 1} /\ jump \in Int /\ cp + jump + 1 = cp + 1
      /\ cp + jump + 1 \in 1..(Len(code) + 1)
  BY <1>3
<1>7. tests' \in 0..MaxTests
  BY <1>1 DEF Machine
<1> HIDE DEF ops, word, jump
<1>8. Machine' /\ Follows(l, x)'
  BY <1>1, <1>4, <1>5, <1>6, <1>7, Arrives
<1>9. QED
  BY <1>1, <1>8 DEF Seems

\* A GOTO reaches its target's label.
LEMMA GotoStep ==
  ASSUME NEW l, NEW x \in BOOLEAN, Machine, Running, Follows(l, x), Goto
  PROVE  Machine' /\ Follows(l, x)' /\ Seems
<1> DEFINE ops == {"GOTO"}
           word == 0
           jump == Operand
<1>1. Execute(ops, word, jump) /\ UNCHANGED <<tests, seen, rest>>
  BY DEF Goto, Unseen
<1>2. /\ cp \in DOMAIN code /\ Op(code[cp]) = "GOTO"
  BY <1>1 DEF Execute, Op
<1>3. /\ code[cp] \in Ins /\ cp \in 1..Len(code) /\ Len(code) \in Nat
      /\ jump = Arg(code[cp]) /\ jump \in Int
      /\ Leads(code[cp], cp, l, x) /\ DOMAIN l = 1..(Len(code) + 1)
      /\ l[cp].no = l[cp].yes => rest = l[cp].yes
  BY <1>2, LabelledPlace
<1>4. cp + jump + 1 = cp + 1 + Arg(code[cp])
  BY <1>3
<1> HIDE DEF jump
<1>5. /\ l[cp].no = l[cp].yes
      /\ cp + 1 + Arg(code[cp]) \in DOMAIN l
      /\ Balanced(code[cp], l[cp], l[cp + 1 + Arg(code[cp])], x)
      /\ l[cp + 1 + Arg(code[cp])].yes = l[cp].yes /\ l[cp + 1 + Arg(code[cp])].no = l[cp].yes
  BY <1>2, <1>3 DEF Leads, Falls, Jumps, Skips, Branches, Ends, Passes, Compares, Calls
<1>6. rest' = l[cp + jump + 1].yes /\ rest' = l[cp + jump + 1].no
      /\ cp + jump + 1 \in 1..(Len(code) + 1)
  BY <1>1, <1>3, <1>4, <1>5
<1>7. tests' \in 0..MaxTests /\ word \in {0, 1}
  BY <1>1 DEF Machine
<1> HIDE DEF ops, word
<1>8. Machine' /\ Follows(l, x)'
  BY <1>1, <1>3, <1>4, <1>5, <1>6, <1>7, Arrives
<1>9. QED
  BY <1>1, <1>8 DEF Seems

\* A comparison is a test of the statement that is next.
LEMMA CompareStep ==
  ASSUME NEW l, NEW x \in BOOLEAN, Machine, Running, Follows(l, x), Compare
  PROVE  Machine' /\ Follows(l, x)' /\ Seems
<1> DEFINE ops == {"ICMP_L"}
           jump == 0
<1>1. PICK value \in IF tests < MaxTests THEN {0, 1} ELSE {0} :
        /\ Execute(ops, value, jump)
        /\ tests' = tests + value
        /\ See(Event("test", Operand, value = 1))
  BY DEF Compare
<1> DEFINE e == Event("test", Operand, value = 1)
<1>2. seen' = e /\ rest' = After(rest, e)
  BY <1>1 DEF See
<1>3. /\ cp \in DOMAIN code /\ Op(code[cp]) = "ICMP_L"
  BY <1>1 DEF Execute, Op
<1>4. /\ code[cp] \in Ins /\ cp \in 1..Len(code) /\ Len(code) \in Nat
      /\ Operand = Arg(code[cp])
      /\ Leads(code[cp], cp, l, x)
      /\ l[cp].no = l[cp].yes => rest = l[cp].yes
  BY <1>3, LabelledPlace
<1>5. l[cp].no = l[cp].yes /\ Balanced(code[cp], l[cp], l[cp + 1], x)
      /\ Compares(code[cp], l[cp], l[cp + 1])
  BY <1>3, <1>4 DEF Leads, Falls, Jumps, Skips, Branches, Ends, Passes, Calls
<1>6. e \in Possible(rest)
  BY <1>4, <1>5 DEF Compares
<1>7. rest' = IF value = 1 THEN l[cp + 1].yes ELSE l[cp + 1].no
  <2>1. CASE value = 1
    <3>1. e = Event("test", Operand, TRUE)
      BY <2>1
    <3>2. QED
      BY <1>2, <1>4, <1>5, <2>1, <3>1 DEF Compares
  <2>2. CASE value # 1
    <3>1. e = Event("test", Operand, FALSE)
      BY <2>2
    <3>2. QED
      BY <1>2, <1>4, <1>5, <2>2, <3>1 DEF Compares
  <2>3. QED
    BY <2>1, <2>2
<1>8. value \in {0, 1} /\ tests' \in 0..MaxTests
  BY <1>1, SourcesAssumption, SMT DEF Machine
<1>9. jump \in Int /\ cp + jump + 1 = cp + 1 /\ cp + jump + 1 \in 1..(Len(code) + 1)
      /\ cp + jump + 1 \in Nat
  BY <1>4
<1> HIDE DEF e, ops, jump
<1>10. operands' # <<>> /\ Last(operands') = value
  <2>1. code[cp].pushes > 0
    BY <1>5 DEF Compares
  <2>2. QED
    BY <1>1, <1>8, <1>9, <2>1, ExecuteSteps
<1>11. rest' = IF operands' # <<>> /\ Last(operands') = 1 THEN l[cp + 1].yes ELSE l[cp + 1].no
  BY <1>7, <1>10
<1>12. Machine' /\ Follows(l, x)'
  BY <1>1, <1>5, <1>8, <1>9, <1>11, Arrives
<1>13. QED
  BY <1>2, <1>6, <1>12 DEF Seems

\* An INVOKE is its call.
LEMMA InvokeStep ==
  ASSUME NEW l, NEW x \in BOOLEAN, Machine, Running, Follows(l, x), Invoke
  PROVE  Machine' /\ Follows(l, x)' /\ Seems
<1> DEFINE ops == {"INVOKE"}
           word == 1
           jump == 0
           e == Event("call", Operand, FALSE)
<1>1. Execute(ops, word, jump) /\ UNCHANGED tests /\ seen' = e /\ rest' = After(rest, e)
  BY DEF Invoke, See
<1>2. /\ cp \in DOMAIN code /\ Op(code[cp]) = "INVOKE"
  BY <1>1 DEF Execute, Op
<1>3. /\ code[cp] \in Ins /\ cp \in 1..Len(code) /\ Len(code) \in Nat
      /\ Operand = Arg(code[cp])
      /\ Leads(code[cp], cp, l, x)
      /\ l[cp].no = l[cp].yes => rest = l[cp].yes
  BY <1>2, LabelledPlace
<1>4. l[cp].no = l[cp].yes /\ Balanced(code[cp], l[cp], l[cp + 1], x)
      /\ Calls(code[cp], l[cp], l[cp + 1])
  BY <1>2, <1>3 DEF Leads, Falls, Jumps, Skips, Branches, Ends, Passes, Compares
<1>5. rest' = l[cp + 1].yes /\ rest' = l[cp + 1].no /\ e \in Possible(rest)
  BY <1>1, <1>3, <1>4 DEF Calls
<1>6. word \in {0, 1} /\ jump \in Int /\ cp + jump + 1 = cp + 1
      /\ cp + jump + 1 \in 1..(Len(code) + 1)
  BY <1>3
<1>7. tests' \in 0..MaxTests
  BY <1>1 DEF Machine
<1> HIDE DEF ops, word, jump, e
<1>8. Machine' /\ Follows(l, x)'
  BY <1>1, <1>4, <1>5, <1>6, <1>7, Arrives
<1>9. QED
  BY <1>1, <1>5, <1>8 DEF Seems

\* A return is seen where the statements return.
LEMMA ReturnStep ==
  ASSUME NEW l, NEW x \in BOOLEAN, Machine, Running, Follows(l, x), Return
  PROVE  Machine' /\ Follows(l, x)' /\ Seems
<1> DEFINE ops == {"RETURN", "IRETURN"}
           word == 0
           jump == 0
<1>1. Execute(ops, word, jump) /\ UNCHANGED tests /\ seen' = Returned
      /\ rest' = After(rest, Returned)
  BY DEF Return, See
<1>2. /\ cp \in DOMAIN code /\ Op(code[cp]) \in ops
  BY <1>1 DEF Execute, Op
<1>3. /\ code[cp] \in Ins /\ cp \in 1..Len(code) /\ Len(code) \in Nat
      /\ Leads(code[cp], cp, l, x)
      /\ l[cp].no = l[cp].yes => rest = l[cp].yes
  BY <1>2, LabelledPlace
<1>4. l[cp].no = l[cp].yes /\ Ends(code[cp], l[cp])
  BY <1>2, <1>3 DEF Leads, Falls, Jumps, Skips, Branches, Passes, Compares, Calls
<1>5. Returned \in Possible(rest)
  BY <1>3, <1>4 DEF Ends
<1>6. word \in {0, 1} /\ jump \in Int /\ cp + jump + 1 = cp + 1
      /\ cp + jump + 1 \in 1..(Len(code) + 1)
  BY <1>3
<1>7. tests' \in 0..MaxTests /\ ~ Running'
  BY <1>1 DEF Machine, Running
<1> HIDE DEF ops, word, jump
<1>8. Machine' /\ Follows(l, x)'
  BY <1>1, <1>6, <1>7, Arrives
<1>9. QED
  BY <1>1, <1>5, <1>8 DEF Seems

\* A jump that is made when the comparison found nothing true.
LEMMA BranchStep ==
  ASSUME NEW l, NEW x \in BOOLEAN, Machine, Running, Follows(l, x), NEW ops, NEW jump,
         ops \in {{"IFNE"}, {"IFLE"}},
         jump = IF Last(operands) = 1 THEN 0 ELSE Operand,
         Execute(ops, 0, jump), UNCHANGED <<tests, seen, rest>>
  PROVE  Machine' /\ Follows(l, x)' /\ Seems
<1> DEFINE word == 0
<1>1. Execute(ops, word, jump) /\ UNCHANGED <<tests, seen, rest>>
  OBVIOUS
<1>2. /\ cp \in DOMAIN code /\ Op(code[cp]) \in {"IFNE", "IFLE"}
      /\ Len(operands) >= code[cp].pops
  BY <1>1 DEF Execute, Op
<1>3. /\ code[cp] \in Ins /\ cp \in 1..Len(code) /\ Len(code) \in Nat
      /\ Operand = Arg(code[cp]) /\ Operand \in Int
      /\ Leads(code[cp], cp, l, x) /\ DOMAIN l = 1..(Len(code) + 1)
      /\ At(l, x)
  BY <1>2, LabelledPlace
<1>4. cp + Operand + 1 = cp + 1 + Arg(code[cp]) /\ cp + 0 + 1 = cp + 1
  BY <1>3
<1>5. /\ cp + 1 + Arg(code[cp]) \in DOMAIN l
      /\ Balanced(code[cp], l[cp], l[cp + 1 + Arg(code[cp])], x)
      /\ Branches(code[cp], l[cp], l[cp + 1], l[cp + 1 + Arg(code[cp])], x)
  BY <1>2, <1>3 DEF Leads, Falls, Jumps, Skips, Ends, Passes, Compares, Calls
<1>6. /\ Balanced(code[cp], l[cp], l[cp + 1], x) /\ code[cp].pops = 1
      /\ l[cp + 1].yes = l[cp].yes /\ l[cp + 1].no = l[cp].yes
      /\ l[cp + 1 + Arg(code[cp])].yes = l[cp].no /\ l[cp + 1 + Arg(code[cp])].no = l[cp].no
  BY <1>5 DEF Branches
<1>7. operands # <<>>
  BY <1>2, <1>6
<1>8. rest = IF Last(operands) = 1 THEN l[cp].yes ELSE l[cp].no
  BY <1>3, <1>7 DEF At
<1>9. rest' = rest
  BY <1>1
<1>10. /\ jump \in Int /\ cp + jump + 1 \in 1..(Len(code) + 1)
       /\ Balanced(code[cp], l[cp], l[cp + jump + 1], x)
       /\ rest' = l[cp + jump + 1].yes /\ rest' = l[cp + jump + 1].no
  <2>1. CASE Last(operands) = 1
    <3>1. jump = 0
      BY <2>1
    <3>2. QED
      BY <1>3, <1>4, <1>6, <1>8, <1>9, <2>1, <3>1
  <2>2. CASE Last(operands) # 1
    <3>1. jump = Operand
      BY <2>2
    <3>2. cp + jump + 1 = cp + 1 + Arg(code[cp])
      BY <1>4, <3>1
    <3>3. QED
      BY <1>3, <1>5, <1>6, <1>8, <1>9, <2>2, <3>1, <3>2
  <2>3. QED
    BY <2>1, <2>2
<1>11. tests' \in 0..MaxTests /\ word \in {0, 1}
  BY <1>1 DEF Machine
<1> HIDE DEF word
<1>12. Machine' /\ Follows(l, x)'
  BY <1>1, <1>10, <1>11, Arrives
<1>13. QED
  BY <1>1, <1>12 DEF Seems

\* The operand a jump looks at is 0 or 1.
LEMMA LastIsWord ==
  ASSUME Machine, operands # <<>>
  PROVE  Last(operands) \in {0, 1}
<1>1. operands \in Seq({0, 1}) /\ Len(operands) \in Nat \ {0}
  BY EmptySeq DEF Machine
<1>2. Len(operands) \in 1..Len(operands)
  BY <1>1
<1>3. QED
  BY <1>1, <1>2, ElementOfSeq DEF Last

\* A branch finds a word to pop.
LEMMA BranchPops ==
  ASSUME NEW l, NEW x \in BOOLEAN, Machine, Running, Follows(l, x),
         NEW ops, NEW jump, ops \in {{"IFNE"}, {"IFLE"}}, Execute(ops, 0, jump)
  PROVE  operands # <<>>
<1>1. /\ cp \in DOMAIN code /\ Op(code[cp]) \in {"IFNE", "IFLE"}
      /\ Len(operands) >= code[cp].pops
  BY DEF Execute, Op
<1>2. Leads(code[cp], cp, l, x)
  BY <1>1, LabelledPlace
<1>3. code[cp].pops = 1
  BY <1>1, <1>2 DEF Leads, Falls, Jumps, Skips, Branches, Ends, Passes, Compares, Calls
<1>4. QED
  BY <1>1, <1>3

\* Every step follows the labels, and is one of the statements'.
LEMMA StepFollows ==
  ASSUME NEW l, NEW x \in BOOLEAN, Machine, Follows(l, x), [Next]_vars
  PROVE  Machine' /\ Follows(l, x)' /\ ((Seems /\ Running) \/ UNCHANGED <<rest, seen>>)
<1>1. CASE UNCHANGED vars
  <2>1. Machine' /\ UNCHANGED <<rest, seen>>
    BY <1>1 DEF vars, Machine
  <2>2. Follows(l, x)'
    BY <1>1 DEF vars, Follows, At, Running
  <2>3. QED
    BY <2>1, <2>2
<1>2. CASE Next
  <2>1. Running
    BY <1>2 DEF Next, Straight, Compare, Goto, IfNe, IfLe, Invoke, Return, Execute
  <2>2. CASE Straight
    BY <2>1, <2>2, StraightStep
  <2>3. CASE Compare
    BY <2>1, <2>3, CompareStep
  <2>4. CASE Goto
    BY <2>1, <2>4, GotoStep
  <2>5. CASE IfNe
    <3> DEFINE ops == {"IFNE"}
               jump == IF Last(operands) = 0 THEN Operand ELSE 0
    <3>1. Execute(ops, 0, jump) /\ UNCHANGED <<tests, seen, rest>> /\ ops \in {{"IFNE"}, {"IFLE"}}
      BY <2>5 DEF IfNe, Unseen
    <3> HIDE DEF ops
    <3>2. Last(operands) \in {0, 1}
      BY <2>1, <3>1, BranchPops, LastIsWord
    <3>3. jump = IF Last(operands) = 1 THEN 0 ELSE Operand
      BY <3>2
    <3> HIDE DEF jump
    <3>4. QED
      BY <2>1, <3>1, <3>3, BranchStep
  <2>6. CASE IfLe
    <3> DEFINE ops == {"IFLE"}
               jump == IF Last(operands) <= 0 THEN Operand ELSE 0
    <3>1. Execute(ops, 0, jump) /\ UNCHANGED <<tests, seen, rest>> /\ ops \in {{"IFNE"}, {"IFLE"}}
      BY <2>6 DEF IfLe, Unseen
    <3> HIDE DEF ops
    <3>2. Last(operands) \in {0, 1}
      BY <2>1, <3>1, BranchPops, LastIsWord
    <3>3. jump = IF Last(operands) = 1 THEN 0 ELSE Operand
      BY <3>2
    <3> HIDE DEF jump
    <3>4. QED
      BY <2>1, <3>1, <3>3, BranchStep
  <2>7. CASE Invoke
    BY <2>1, <2>7, InvokeStep
  <2>8. CASE Return
    BY <2>1, <2>8, ReturnStep
  <2>9. QED
    BY <1>2, <2>1, <2>2, <2>3, <2>4, <2>5, <2>6, <2>7, <2>8 DEF Next
<1>3. QED
  BY <1>1, <1>2

-----------------------------------------------------------------------------
(* Labels of pieces of code. *)

\* A number of 32 bits.
Word(v) == v \in Int /\ -2147483648 <= v /\ v <= 2147483647

Max32 == 2147483647

\* The numbers of statements are operands of 32 bits.
LEMMA Words ==
  /\ Word(0) /\ Max32 \in Nat /\ 0 \in Ids
  /\ \A v \in Ids : Word(v) /\ v \in Nat
  /\ \A v \in Nat : v <= Max32 => Word(v)
<1>1. Word(0) /\ Max32 \in Nat
  BY SMT DEF Word, Max32
<1>2. \A v \in Nat : v <= Max32 => Word(v)
  BY SMT DEF Word, Max32
<1>3. 0 \in Ids /\ \A v \in Ids : v \in Nat /\ v <= Max32
  <2>1. LastId = Max32
    BY DEF LastId, Max32
  <2>2. QED
    BY <1>1, <2>1 DEF Ids
<1>4. QED
  BY <1>1, <1>2, <1>3

Made(op, v, p, q) == [bytes |-> Bytecode1(op, v), pops |-> p, pushes |-> q]

\* An instruction of the generator is one.
LEMMA MadeTyped ==
  ASSUME NEW op \in Ops, NEW v \in Int, NEW p \in Nat, NEW q \in Nat
  PROVE  /\ Instruction(op, v, p, q) = <<Made(op, v, p, q)>>
         /\ Made(op, v, p, q) \in Ins
<1>1. Instruction(op, v, p, q) = <<Made(op, v, p, q)>>
  BY DEF Instruction, Made
<1>2. Bytecode1(op, v) \in Bytes
  <2>1. <<op, v>> \in Ops \X Int /\ Bytecode1(op, v) = Bytecode1(<<op, v>>[1], <<op, v>>[2])
    OBVIOUS
  <2>2. QED
    BY <2>1 DEF Bytes
<1>3. QED
  BY <1>1, <1>2 DEF Ins, Made

\* It has the opcode and the operand it was made with.
LEMMA InstructionMade ==
  ASSUME NEW op \in Ops, NEW v, Word(v), NEW p \in Nat, NEW q \in Nat
  PROVE  /\ Instruction(op, v, p, q) = <<Made(op, v, p, q)>>
         /\ Made(op, v, p, q) \in Ins
         /\ Op(Made(op, v, p, q)) = op /\ Arg(Made(op, v, p, q)) = v
         /\ Made(op, v, p, q).pops = p /\ Made(op, v, p, q).pushes = q
<1> DEFINE ins == Made(op, v, p, q)
<1>1. v \in Int
  BY SMT DEF Word
<1>2. ins.bytes = Bytecode1(op, v) /\ ins.pops = p /\ ins.pushes = q
  BY DEF Made
<1>3. OpFrom(Bytecode1(op, v)) = op /\ ValueFrom(Bytecode1(op, v)) = v
  BY OperandsAreKept, SMT DEF Word
<1>4. QED
  BY <1>1, <1>2, <1>3, MadeTyped DEF Op, Arg

\* The piece d with its labels k is in the code c with its labels l, behind o
\* instructions.
Includes(c, l, d, k, o) ==
  /\ \A j \in 1..(Len(d) + 1) : o + j \in DOMAIN l /\ l[o + j] = k[j]
  /\ \A j \in 1..Len(d) : c[o + j] = d[j]

\* The labels of a piece are right in the code it is contained in: jumps are relative.
LEMMA ContainedLeads ==
  ASSUME NEW c, NEW l, NEW d \in Seq(Ins), NEW k, NEW o \in Nat, NEW x,
         Labelled(d, k, x), Includes(c, l, d, k, o)
  PROVE  \A j \in 1..Len(d) : Leads(c[o + j], o + j, l, x)
<1> SUFFICES ASSUME NEW j \in 1..Len(d)
             PROVE  Leads(c[o + j], o + j, l, x)
  OBVIOUS
<1>1. Len(d) \in Nat /\ d[j] \in Ins
  BY LenProperties, ElementOfSeq
<1>2. c[o + j] = d[j] /\ Leads(d[j], j, k, x) /\ DOMAIN k = 1..(Len(d) + 1)
  BY DEF Includes, Labelled
<1>3. /\ j \in 1..(Len(d) + 1) /\ j + 1 \in 1..(Len(d) + 1)
      /\ o + (j + 1) = (o + j) + 1
  BY <1>1
<1>4. l[o + j] = k[j] /\ l[(o + j) + 1] = k[j + 1]
  BY <1>3 DEF Includes
<1> DEFINE t == j + 1 + Arg(d[j])
<1>5. CASE t \in DOMAIN k
  <2>1. Arg(d[j]) \in Int
    BY <1>1, InsTyped
  <2>2. (o + j) + 1 + Arg(d[j]) = o + t
    BY <2>1
  <2>3. o + t \in DOMAIN l /\ l[o + t] = k[t]
    BY <1>2, <1>5 DEF Includes
  <2> HIDE DEF t
  <2>4. Falls(d[j], k[j], k[j + 1], x) \/ Jumps(d[j], k[j], k[j + 1], k[t], x)
    BY <1>2 DEF Leads, t
  <2>5. QED
    BY <1>2, <1>4, <2>2, <2>3, <2>4 DEF Leads
<1>6. CASE t \notin DOMAIN k
  <2>1. Falls(d[j], k[j], k[j + 1], x)
    BY <1>2, <1>6 DEF Leads
  <2>2. QED
    BY <1>2, <1>4, <2>1 DEF Leads
<1>7. QED
  BY <1>5, <1>6

\* A piece of code with its labels, the first and the last of them.
Piece(c, l, first, last, x) ==
  /\ c \in Seq(Ins)
  /\ Labelled(c, l, x)
  /\ l[1] = first /\ l[Len(c) + 1] = last

\* Pieces with the same label between them make one.
LEMMA PiecesJoin ==
  ASSUME NEW x, NEW c, NEW d, NEW k, NEW l, NEW first, NEW mid, NEW last,
         Piece(c, k, first, mid, x), Piece(d, l, mid, last, x)
  PROVE  \E h : Piece(c \o d, h, first, last, x)
<1> DEFINE n == Len(c)
           m == Len(d)
           u == c \o d
           h == [i \in 1..(n + m + 1) |-> IF i <= n THEN k[i] ELSE l[i - n]]
<1>1. /\ c \in Seq(Ins) /\ d \in Seq(Ins) /\ n \in Nat /\ m \in Nat
      /\ Labelled(c, k, x) /\ Labelled(d, l, x)
      /\ k[1] = first /\ k[n + 1] = mid /\ l[1] = mid /\ l[m + 1] = last
  BY LenProperties DEF Piece
<1>2. /\ u \in Seq(Ins) /\ Len(u) = n + m
      /\ \A i \in 1..(n + m) : u[i] = IF i <= n THEN c[i] ELSE d[i - n]
  BY <1>1, ConcatProperties
<1>3. /\ k \in [1..(n + 1) -> Label] /\ l \in [1..(m + 1) -> Label]
  BY <1>1 DEF Labelled
<1>4. h \in [1..(n + m + 1) -> Label]
  <2> SUFFICES ASSUME NEW i \in 1..(n + m + 1)
               PROVE  (IF i <= n THEN k[i] ELSE l[i - n]) \in Label
    OBVIOUS
  <2>1. CASE i <= n
    BY <1>1, <1>3, <2>1
  <2>2. CASE ~ (i <= n)
    <3>1. i - n \in 1..(m + 1)
      BY <1>1, <2>2
    <3>2. QED
      BY <1>3, <2>2, <3>1
  <2>3. QED
    BY <2>1, <2>2
<1>5. \A j \in 1..(n + 1) : j \in DOMAIN h /\ h[j] = k[j]
  <2> SUFFICES ASSUME NEW j \in 1..(n + 1)
               PROVE  j \in DOMAIN h /\ h[j] = k[j]
    OBVIOUS
  <2>1. j \in 1..(n + m + 1)
    BY <1>1
  <2>2. CASE j <= n
    BY <2>1, <2>2
  <2>3. CASE j = n + 1
    <3>1. h[j] = l[1]
      BY <1>1, <2>1, <2>3
    <3>2. QED
      BY <1>1, <2>1, <2>3, <3>1
  <2>4. j <= n \/ j = n + 1
    BY <1>1
  <2>5. QED
    BY <2>2, <2>3, <2>4
<1>6. \A j \in 1..(m + 1) : n + j \in DOMAIN h /\ h[n + j] = l[j]
  <2> SUFFICES ASSUME NEW j \in 1..(m + 1)
               PROVE  n + j \in DOMAIN h /\ h[n + j] = l[j]
    OBVIOUS
  <2>1. n + j \in 1..(n + m + 1) /\ ~ (n + j <= n) /\ (n + j) - n = j
    BY <1>1
  <2>2. QED
    BY <2>1
<1> HIDE DEF h, u, n, m
<1> DEFINE z == 0
<1>7. Includes(u, h, c, k, z)
  <2>1. \A j \in 1..(Len(c) + 1) : z + j \in DOMAIN h /\ h[z + j] = k[j]
    BY <1>1, <1>5 DEF n
  <2>2. \A j \in 1..Len(c) : u[z + j] = c[j]
    BY <1>1, <1>2 DEF n
  <2>3. QED
    BY <2>1, <2>2 DEF Includes
<1>8. Includes(u, h, d, l, n)
  <2>1. \A j \in 1..Len(d) : u[n + j] = d[j]
    <3> SUFFICES ASSUME NEW j \in 1..Len(d) PROVE u[n + j] = d[j]
      OBVIOUS
    <3>1. n + j \in 1..(n + m) /\ ~ (n + j <= n) /\ (n + j) - n = j
      BY <1>1 DEF m
    <3>2. QED
      BY <1>2, <3>1
  <2>2. QED
    BY <1>6, <2>1 DEF Includes, m
<1>9. \A j \in 1..n : Leads(u[j], j, h, x)
  <2>1. z \in Nat /\ \A j \in 1..n : z + j = j
    BY <1>1
  <2> HIDE DEF z
  <2>2. \A j \in 1..Len(c) : Leads(u[z + j], z + j, h, x)
    BY <1>1, <1>7, <2>1, ContainedLeads
  <2>3. QED
    BY <2>1, <2>2 DEF n
<1>10. \A j \in 1..m : Leads(u[n + j], n + j, h, x)
  BY <1>1, <1>8, ContainedLeads DEF m
<1>11. \A i \in 1..(n + m) : Leads(u[i], i, h, x)
  <2> SUFFICES ASSUME NEW i \in 1..(n + m) PROVE Leads(u[i], i, h, x)
    OBVIOUS
  <2>1. CASE i <= n
    BY <1>1, <1>9, <2>1
  <2>2. CASE ~ (i <= n)
    <3>1. i - n \in 1..m /\ n + (i - n) = i
      BY <1>1, <2>2
    <3>2. QED
      BY <1>10, <3>1
  <2>3. QED
    BY <2>1, <2>2
<1>12. Labelled(u, h, x)
  BY <1>2, <1>4, <1>11 DEF Labelled
<1>13. h[1] = first /\ h[Len(u) + 1] = last
  <2>1. 1 \in 1..(n + 1) /\ m + 1 \in 1..(m + 1) /\ (n + m) + 1 = n + (m + 1)
    BY <1>1
  <2>2. QED
    BY <1>1, <1>2, <1>5, <1>6, <2>1
<1>14. QED
  BY <1>2, <1>12, <1>13 DEF Piece, u

\* One instruction.
LEMMA OnePiece ==
  ASSUME NEW x, NEW ins \in Ins, NEW first \in Label, NEW last \in Label,
         Falls(ins, first, last, x)
  PROVE  \E l : Piece(<<ins>>, l, first, last, x)
<1> DEFINE c == <<ins>>
           l == [i \in 1..2 |-> IF i = 1 THEN first ELSE last]
<1>1. c \in Seq(Ins) /\ Len(c) = 1 /\ c[1] = ins
  OBVIOUS
<1>2. l \in [1..2 -> Label] /\ l[1] = first /\ l[2] = last
  OBVIOUS
<1> HIDE DEF c, l
<1>3. Leads(ins, 1, l, x)
  BY <1>2 DEF Leads
<1>4. Len(c) + 1 = 2 /\ 1..Len(c) = {1}
  BY <1>1
<1>5. Labelled(c, l, x)
  BY <1>1, <1>2, <1>3, <1>4 DEF Labelled
<1>6. QED
  BY <1>1, <1>2, <1>4, <1>5 DEF Piece, c

\* No code.
LEMMA NoPiece ==
  ASSUME NEW x, NEW first \in Label
  PROVE  \E l : Piece(<<>>, l, first, first, x)
<1> DEFINE c == <<>>
           l == [i \in 1..1 |-> first]
<1>1. c \in Seq(Ins) /\ Len(c) = 0
  OBVIOUS
<1>2. l \in [1..1 -> Label] /\ l[1] = first
  OBVIOUS
<1> HIDE DEF c, l
<1>3. Len(c) + 1 = 1 /\ 1..Len(c) = {}
  BY <1>1
<1>4. Labelled(c, l, x)
  BY <1>2, <1>3 DEF Labelled
<1>5. QED
  BY <1>1, <1>2, <1>3, <1>4 DEF Piece, c

-----------------------------------------------------------------------------
(* Code that does what statements say, whatever follows them. *)

\* The code c executes the statements t: it finds m operands, and leaves m2.
Runs(c, t, m, m2, x) ==
  /\ c \in Seq(Ins) /\ t \in Seq(St) /\ m \in Nat /\ m2 \in Nat
  /\ Len(c) <= Max32 =>
       \A k \in Seq(St) :
         \E l : Piece(c, l, Plain(m, Visible(t \o k)), Plain(m2, Visible(k)), x)

\* A label is one.
LEMMA PlainTyped ==
  ASSUME NEW m \in Int, NEW r \in Seq(St)
  PROVE  /\ Plain(m, r) \in Label
         /\ Plain(m, r).depth = m /\ Plain(m, r).yes = r /\ Plain(m, r).no = r
BY DEF Plain, Label

\* The labels in front of and behind some statements are labels.
LEMMA VisibleLabels ==
  ASSUME NEW m \in Int, NEW t \in Seq(St), NEW k \in Seq(St)
  PROVE  /\ Plain(m, Visible(t \o k)) \in Label
         /\ Plain(m, Visible(k)) \in Label
         /\ Visible(t \o k) \in Seq(St) /\ Visible(k) \in Seq(St)
<1>1. t \o k \in Seq(St)
  BY ConcatProperties
<1>2. QED
  BY <1>1, VisibleTyped, PlainTyped

\* No code executes no statement.
LEMMA NothingRuns ==
  ASSUME NEW x, NEW m \in Nat
  PROVE  Runs(<<>>, <<>>, m, m, x)
<1> DEFINE z == <<>>
<1>1. z \in Seq(Ins) /\ z \in Seq(St)
  OBVIOUS
<1>2. ASSUME NEW k \in Seq(St)
      PROVE  \E l : Piece(z, l, Plain(m, Visible(z \o k)), Plain(m, Visible(k)), x)
  <2>1. z \o k = k
    BY ConcatEmptySeq
  <2> DEFINE b == Plain(m, Visible(k))
  <2>2. b \in Label
    BY VisibleTyped, PlainTyped
  <2> HIDE DEF b
  <2>3. \E l : Piece(z, l, b, b, x)
    BY <2>2, NoPiece
  <2>4. QED
    BY <2>1, <2>3 DEF b
<1> HIDE DEF z
<1>3. Runs(z, z, m, m, x)
  BY <1>1, <1>2 DEF Runs
<1>4. QED
  BY <1>3 DEF z

\* Code after code executes statements after statements.
LEMMA RunsJoin ==
  ASSUME NEW x, NEW c, NEW d, NEW t, NEW u, NEW m, NEW m2, NEW m3,
         Runs(c, t, m, m2, x), Runs(d, u, m2, m3, x)
  PROVE  Runs(c \o d, t \o u, m, m3, x)
<1>1. /\ c \in Seq(Ins) /\ d \in Seq(Ins) /\ t \in Seq(St) /\ u \in Seq(St)
      /\ m \in Nat /\ m2 \in Nat /\ m3 \in Nat
  BY DEF Runs
<1>2. /\ c \o d \in Seq(Ins) /\ t \o u \in Seq(St)
      /\ Len(c \o d) = Len(c) + Len(d) /\ Len(c) \in Nat /\ Len(d) \in Nat
  BY <1>1, ConcatProperties, LenProperties
<1>3. ASSUME Len(c \o d) <= Max32, NEW k \in Seq(St)
      PROVE  \E l : Piece(c \o d, l, Plain(m, Visible((t \o u) \o k)), Plain(m3, Visible(k)), x)
  <2>1. Len(c) <= Max32 /\ Len(d) <= Max32
    BY <1>2, <1>3, Words
  <2>2. u \o k \in Seq(St)
    BY <1>1, <1>3, ConcatProperties
  <2>3. PICK f : Piece(c, f, Plain(m, Visible(t \o (u \o k))), Plain(m2, Visible(u \o k)), x)
    BY <2>1, <2>2 DEF Runs
  <2>4. PICK g : Piece(d, g, Plain(m2, Visible(u \o k)), Plain(m3, Visible(k)), x)
    BY <1>3, <2>1 DEF Runs
  <2>5. (t \o u) \o k = t \o (u \o k)
    BY <1>1, <1>3, ConcatAssociative, SMTT(30)
  <2>6. QED
    BY <2>3, <2>4, <2>5, PiecesJoin
<1>4. QED
  BY <1>1, <1>2, <1>3 DEF Runs

\* An instruction of which nothing is seen.
LEMMA OperandPiece ==
  ASSUME NEW x \in BOOLEAN, NEW op \in {"ILOAD", "ISTORE", "POP"},
         NEW p \in Nat, NEW q \in Nat, NEW m \in Nat, NEW m2 \in Nat,
         m2 <= m + 1, x => m2 = m - p + q, NEW r \in Seq(St)
  PROVE  \E l : Piece(Instruction(op, 0, p, q), l, Plain(m, r), Plain(m2, r), x)
<1> DEFINE v == 0
           ins == Made(op, v, p, q)
           c == Instruction(op, v, p, q)
           a == Plain(m, r)
           b == Plain(m2, r)
<1>1. Word(v) /\ op \in Ops
  BY Words DEF Ops
<1> HIDE DEF v
<1>2. /\ c = <<ins>> /\ ins \in Ins /\ Op(ins) = op /\ ins.pops = p /\ ins.pushes = q
  BY <1>1, InstructionMade
<1> HIDE DEF ins, c
<1>3. /\ a \in Label /\ a.depth = m /\ a.yes = r /\ a.no = r
      /\ b \in Label /\ b.depth = m2 /\ b.yes = r /\ b.no = r
  BY PlainTyped
<1> HIDE DEF a, b
<1>4. Passes(ins, a, b)
  BY <1>2, <1>3 DEF Passes
<1>5. Balanced(ins, a, b, x) /\ b.depth <= a.depth + 1
  BY <1>2, <1>3 DEF Balanced
<1>6. Falls(ins, a, b, x)
  BY <1>3, <1>4, <1>5 DEF Falls
<1>7. \E l : Piece(<<ins>>, l, a, b, x)
  BY <1>2, <1>3, <1>6, OnePiece
<1>8. QED
  BY <1>2, <1>7 DEF a, b, c, v

\* So it executes no statement.
LEMMA OperandRuns ==
  ASSUME NEW x \in BOOLEAN, NEW op \in {"ILOAD", "ISTORE", "POP"},
         NEW p \in Nat, NEW q \in Nat, NEW m \in Nat, NEW m2 \in Nat,
         m2 <= m + 1, x => m2 = m - p + q
  PROVE  Runs(Instruction(op, 0, p, q), <<>>, m, m2, x)
<1> DEFINE z == <<>>
           c == Instruction(op, 0, p, q)
<1>1. z \in Seq(St)
  OBVIOUS
<1>2. c \in Seq(Ins)
  <2>1. \E l : Piece(c, l, Plain(m, z), Plain(m2, z), x)
    BY <1>1, OperandPiece
  <2>2. QED
    BY <2>1 DEF Piece
<1>3. ASSUME NEW k \in Seq(St)
      PROVE  \E l : Piece(c, l, Plain(m, Visible(z \o k)), Plain(m2, Visible(k)), x)
  <2>1. z \o k = k /\ Visible(k) \in Seq(St)
    BY ConcatEmptySeq, VisibleTyped
  <2>2. \E l : Piece(c, l, Plain(m, Visible(k)), Plain(m2, Visible(k)), x)
    BY <2>1, OperandPiece
  <2>3. QED
    BY <2>1, <2>2
<1> HIDE DEF z, c
<1>4. Runs(c, z, m, m2, x)
  BY <1>1, <1>2, <1>3 DEF Runs
<1>5. QED
  BY <1>4 DEF z, c

\* The statement it belongs to is over at once.
LEMMA SilentRuns ==
  ASSUME NEW x, NEW c, NEW s \in St, s.kind \in Silent, NEW m, NEW m2,
         Runs(c, <<>>, m, m2, x)
  PROVE  Runs(c, <<s>>, m, m2, x)
<1> DEFINE z == <<>>
           o == <<s>>
<1>1. c \in Seq(Ins) /\ m \in Nat /\ m2 \in Nat /\ o \in Seq(St)
  BY DEF Runs
<1>2. ASSUME Len(c) <= Max32, NEW k \in Seq(St)
      PROVE  \E l : Piece(c, l, Plain(m, Visible(o \o k)), Plain(m2, Visible(k)), x)
  <2>1. Visible(o \o k) = Visible(k)
    BY VisibleSkips
  <2>2. z \o k = k
    BY ConcatEmptySeq
  <2>3. \E l : Piece(c, l, Plain(m, Visible(z \o k)), Plain(m2, Visible(k)), x)
    BY <1>2 DEF Runs
  <2>4. QED
    BY <2>1, <2>2, <2>3
<1> HIDE DEF o
<1>3. Runs(c, o, m, m2, x)
  BY <1>1, <1>2 DEF Runs
<1>4. QED
  BY <1>3 DEF o

\* What the statement in front lets happen, and what remains then.
LEMMA CallEvents ==
  ASSUME NEW s \in St, s.kind \in {"call", "memberCall"}, NEW k \in Seq(St)
  PROVE  /\ Visible(<<s>> \o k) = <<s>> \o k
         /\ Event("call", s.id, FALSE) \in Possible(<<s>> \o k)
         /\ After(<<s>> \o k, Event("call", s.id, FALSE)) = Visible(k)
<1> DEFINE todo == <<s>> \o k
           e == Event("call", s.id, FALSE)
<1>1. todo # <<>> /\ Head(todo) = s /\ Tail(todo) = k
  BY InFront
<1>2. Visible(todo) = todo
  BY VisibleStays DEF Silent
<1>3. e # Returned /\ ~ e.taken
  BY DEF Event, Returned
<1> HIDE DEF todo, e
<1>4. e \in Possible(todo)
  BY <1>1 DEF Possible, e
<1>5. s.kind # "ifElse" /\ <<>> \o k = k
  BY ConcatEmptySeq
<1>6. After(todo, e) = Visible(<<>> \o k)
  BY <1>1, <1>3, <1>4, <1>5 DEF After
<1>7. QED
  BY <1>2, <1>4, <1>5, <1>6 DEF todo, e

\* A return is what happens at a return statement.
LEMMA ReturnEvents ==
  ASSUME NEW s \in St, s.kind \in {"return", "returnExpr"}, NEW k \in Seq(St)
  PROVE  Visible(<<s>> \o k) = <<s>> \o k /\ Returned \in Possible(<<s>> \o k)
<1> DEFINE todo == <<s>> \o k
<1>1. todo # <<>> /\ Head(todo) = s
  BY InFront
<1>2. Visible(todo) = todo
  BY VisibleStays DEF Silent
<1> HIDE DEF todo
<1>3. Returned \in Possible(todo)
  BY <1>1 DEF Possible
<1>4. QED
  BY <1>2, <1>3 DEF todo

\* At an if or a while, either result of its test can happen, and the block or what is
\* behind it remains; a loop remains behind its block.
LEMMA TestEvents ==
  ASSUME NEW s \in St, s.kind \in {"if", "ifElse", "while"}, NEW k \in Seq(St)
  PROVE  /\ Visible(<<s>> \o k) = <<s>> \o k /\ <<s>> \o k \in Seq(St)
         /\ \A b \in BOOLEAN : Event("test", s.id, b) \in Possible(<<s>> \o k)
         /\ After(<<s>> \o k, Event("test", s.id, TRUE)) =
              IF s.kind = "while" THEN Visible(s.block \o (<<s>> \o k)) ELSE Visible(s.block \o k)
         /\ After(<<s>> \o k, Event("test", s.id, FALSE)) =
              IF s.kind = "ifElse" THEN Visible(s.other \o k) ELSE Visible(k)
<1> DEFINE todo == <<s>> \o k
           y == Event("test", s.id, TRUE)
           n == Event("test", s.id, FALSE)
<1>1. todo # <<>> /\ Head(todo) = s /\ Tail(todo) = k /\ todo \in Seq(St)
  BY InFront
<1>2. Visible(todo) = todo
  BY VisibleStays DEF Silent
<1>3. y # Returned /\ n # Returned /\ ~ n.taken /\ y.taken
  BY DEF Event, Returned
<1> HIDE DEF todo
<1>4. \A b \in BOOLEAN : Event("test", s.id, b) \in Possible(todo)
  BY <1>1 DEF Possible
<1>5. y \in Possible(todo) /\ n \in Possible(todo)
  BY <1>4
<1> HIDE DEF y, n
<1>6. <<>> \o k = k
  BY ConcatEmptySeq
<1>7. After(todo, y) = IF s.kind = "while" THEN Visible(s.block \o todo) ELSE Visible(s.block \o k)
  BY <1>1, <1>3, <1>5 DEF After
<1>8. After(todo, n) = IF s.kind = "ifElse" THEN Visible(s.other \o k) ELSE Visible(k)
  <2>1. After(todo, n) = Visible((IF s.kind = "ifElse" THEN s.other ELSE <<>>) \o k)
    BY <1>1, <1>3, <1>5 DEF After
  <2>2. CASE s.kind = "ifElse"
    BY <2>1, <2>2
  <2>3. CASE s.kind # "ifElse"
    BY <1>6, <2>1, <2>3
  <2>4. QED
    BY <2>2, <2>3
<1>9. QED
  BY <1>1, <1>2, <1>4, <1>7, <1>8 DEF todo, y, n

-----------------------------------------------------------------------------
(* The code of statements. *)

\* What a statement of a kind is made of.
LEMMA StatementFields ==
  ASSUME NEW N, NEW s \in Statement(N)
  PROVE  /\ s.kind \in {"assign", "expr", "return", "returnExpr"}
              => s \in {AssignStmt, ExprStmt, ReturnStmt, ReturnExprStmt}
         /\ s.kind \in {"call", "memberCall"} => s.id \in Ids /\ s.result \in BOOLEAN
         /\ s.kind \in {"if", "while"} => s.id \in Ids /\ s.block \in Seq(N)
         /\ s.kind = "ifElse" => s.id \in Ids /\ s.block \in Seq(N) /\ s.other \in Seq(N)
         /\ s.kind \in {"assign", "expr", "return", "returnExpr", "call", "memberCall",
                        "if", "while", "ifElse"}
<1> DEFINE blocks == Seq(N)
<1>1. \/ s \in {AssignStmt, ExprStmt, ReturnStmt, ReturnExprStmt}
      \/ s \in [kind : {"call", "memberCall"}, id : Ids, result : BOOLEAN]
      \/ s \in [kind : {"if", "while"}, id : Ids, block : blocks]
      \/ s \in [kind : {"ifElse"}, id : Ids, block : blocks, other : blocks]
  BY DEF Statement
<1> HIDE DEF blocks
<1>2. CASE s \in {AssignStmt, ExprStmt, ReturnStmt, ReturnExprStmt}
  BY <1>2 DEF AssignStmt, ExprStmt, ReturnStmt, ReturnExprStmt
<1>3. CASE s \in [kind : {"call", "memberCall"}, id : Ids, result : BOOLEAN]
  BY <1>3
<1>4. CASE s \in [kind : {"if", "while"}, id : Ids, block : blocks]
  BY <1>4 DEF blocks
<1>5. CASE s \in [kind : {"ifElse"}, id : Ids, block : blocks, other : blocks]
  BY <1>5 DEF blocks
<1>6. QED
  BY <1>1, <1>2, <1>3, <1>4, <1>5

\* An INVOKE executes its call, and finds its arguments.
LEMMA InvokeRuns ==
  ASSUME NEW x \in BOOLEAN, NEW s \in St, s.kind \in {"call", "memberCall"},
         s.id \in Ids, NEW p \in Nat, NEW m \in Nat, NEW m2 \in Nat,
         m2 <= m + 1, x => m2 = m - p + (IF s.result THEN 1 ELSE 0)
  PROVE  Runs(InvokeOf(s, p), <<s>>, m, m2, x)
<1> DEFINE v == s.id
           op == "INVOKE"
           q == IF s.result THEN 1 ELSE 0
           o == <<s>>
           ins == Made(op, v, p, q)
           c == Instruction(op, v, p, q)
<1>1. Word(v) /\ op \in Ops /\ q \in Nat
  BY Words DEF Ops
<1> HIDE DEF v, q, op
<1>2. /\ c = <<ins>> /\ ins \in Ins /\ Op(ins) = op /\ Arg(ins) = v
      /\ ins.pops = p /\ ins.pushes = q
  BY <1>1, InstructionMade
<1> HIDE DEF ins, c
<1>3. c \in Seq(Ins) /\ o \in Seq(St)
  BY <1>2
<1> HIDE DEF o
<1>4. ASSUME NEW k \in Seq(St)
      PROVE  \E l : Piece(c, l, Plain(m, Visible(o \o k)), Plain(m2, Visible(k)), x)
  <2> DEFINE y == Visible(o \o k)
             r == Visible(k)
             a == Plain(m, y)
             b == Plain(m2, r)
  <2>1. y \in Seq(St) /\ r \in Seq(St)
    BY <1>3, VisibleLabels
  <2>2. y = <<s>> \o k /\ Event("call", v, FALSE) \in Possible(y)
        /\ After(y, Event("call", v, FALSE)) = r
    BY CallEvents DEF o, v
  <2> HIDE DEF y, r
  <2>3. /\ a \in Label /\ a.depth = m /\ a.yes = y /\ a.no = y
        /\ b \in Label /\ b.depth = m2 /\ b.yes = r /\ b.no = r
    BY <2>1, PlainTyped
  <2> HIDE DEF a, b
  <2>4. Calls(ins, a, b)
    BY <1>2, <2>2, <2>3 DEF Calls, op
  <2>5. Balanced(ins, a, b, x) /\ b.depth <= a.depth + 1
    BY <1>2, <2>3 DEF Balanced, q
  <2>6. Falls(ins, a, b, x)
    BY <2>3, <2>4, <2>5 DEF Falls
  <2>7. \E l : Piece(<<ins>>, l, a, b, x)
    BY <1>2, <2>3, <2>6, OnePiece
  <2>8. QED
    BY <1>2, <2>7 DEF a, b, r, y
<1>5. Runs(c, o, m, m2, x)
  BY <1>3, <1>4 DEF Runs
<1>6. QED
  BY <1>5 DEF c, o, q, v, op, InvokeOf

\* What is behind a return does not matter.
LEMMA ReturnPiece ==
  ASSUME NEW x \in BOOLEAN, NEW op \in {"RETURN", "IRETURN"}, NEW p \in Nat,
         NEW m \in Nat, NEW y \in Seq(St), Returned \in Possible(y),
         NEW last \in Label, last.depth <= m + 1
  PROVE  \E l : Piece(Instruction(op, 0, p, 0), l, Plain(m, y), last, x)
<1> DEFINE v == 0
           ins == Made(op, v, p, v)
           a == Plain(m, y)
<1>1. Word(v) /\ v \in Nat /\ op \in Ops
  BY Words DEF Ops
<1>2. /\ Instruction(op, v, p, v) = <<ins>> /\ ins \in Ins /\ Op(ins) = op
  <2> HIDE DEF v
  <2>1. QED
    BY <1>1, InstructionMade
<1> HIDE DEF ins
<1>3. a \in Label /\ a.depth = m /\ a.yes = y /\ a.no = y
  BY PlainTyped
<1> HIDE DEF a
<1>4. Ends(ins, a)
  BY <1>2, <1>3 DEF Ends
<1>5. Falls(ins, a, last, x)
  BY <1>3, <1>4 DEF Falls
<1>6. \E l : Piece(<<ins>>, l, a, last, x)
  BY <1>2, <1>3, <1>5, OnePiece
<1>7. QED
  BY <1>2, <1>6 DEF a

\* A return, whatever is behind it.
LEMMA ReturnStatementPiece ==
  ASSUME NEW x \in BOOLEAN, NEW e, NEW s, s \in {ReturnStmt, ReturnExprStmt}, NEW m \in Nat,
         NEW y \in Seq(St), Returned \in Possible(y), NEW last \in Label, last.depth <= m + 1
  PROVE  \E l : Piece(EmitStatement(e, s), l, Plain(m, y), last, x)
<1>1. CASE s = ReturnStmt
  <2> DEFINE p == 0
             op == "RETURN"
  <2>1. EmitStatement(e, s) = Instruction(op, 0, p, 0)
    BY <1>1 DEF EmitStatement, ReturnStmt
  <2>2. p \in Nat /\ op \in {"RETURN", "IRETURN"}
    OBVIOUS
  <2> HIDE DEF p, op
  <2>3. \E l : Piece(Instruction(op, 0, p, 0), l, Plain(m, y), last, x)
    BY <2>2, ReturnPiece
  <2>4. QED
    BY <2>1, <2>3
<1>2. CASE s = ReturnExprStmt
  <2> DEFINE p == 1
             q == 0
             op == "IRETURN"
             load == "ILOAD"
             m2 == m + 1
  <2>1. EmitStatement(e, s) = Instruction(load, 0, q, p) \o Instruction(op, 0, p, 0)
    BY <1>2 DEF EmitStatement, ReturnExprStmt, ILoad
  <2>2. p \in Nat /\ q \in Nat /\ op \in {"RETURN", "IRETURN"} /\ load \in {"ILOAD", "ISTORE", "POP"}
        /\ m2 \in Nat /\ m2 <= m + 1 /\ m2 = m - q + p
    OBVIOUS
  <2>3. last.depth <= m2 + 1
    BY DEF Label
  <2> HIDE DEF p, q, op, m2, load
  <2>4. PICK l : Piece(Instruction(load, 0, q, p), l, Plain(m, y), Plain(m2, y), x)
    BY <2>2, OperandPiece
  <2>5. PICK h : Piece(Instruction(op, 0, p, 0), h, Plain(m2, y), last, x)
    BY <2>2, <2>3, ReturnPiece
  <2>6. QED
    BY <2>1, <2>4, <2>5, PiecesJoin
<1>3. QED
  BY <1>1, <1>2

\* So it executes its statement, and fits in front of every other.
LEMMA ReturnRuns ==
  ASSUME NEW x \in BOOLEAN, NEW e, NEW s \in St, s \in {ReturnStmt, ReturnExprStmt}, NEW m \in Nat
  PROVE  Runs(EmitStatement(e, s), <<s>>, m, m, x)
<1> DEFINE o == <<s>>
           c == EmitStatement(e, s)
<1>1. o \in Seq(St)
  OBVIOUS
<1>2. ASSUME NEW k \in Seq(St)
      PROVE  \E l : Piece(c, l, Plain(m, Visible(o \o k)), Plain(m, Visible(k)), x)
  <2> DEFINE y == Visible(o \o k)
             b == Plain(m, Visible(k))
  <2>1. y \in Seq(St) /\ Visible(k) \in Seq(St)
    <3> HIDE DEF o
    <3>1. QED
      BY <1>1, VisibleLabels
  <2>2. b \in Label /\ b.depth = m
    BY <2>1, PlainTyped
  <2>3. s.kind \in {"return", "returnExpr"}
    BY DEF ReturnStmt, ReturnExprStmt
  <2>4. Returned \in Possible(y)
    BY <2>3, ReturnEvents
  <2> HIDE DEF y, b, c
  <2>5. b.depth <= m + 1
    BY <2>2
  <2>6. \E l : Piece(EmitStatement(e, s), l, Plain(m, y), b, x)
    BY <2>1, <2>2, <2>4, <2>5, ReturnStatementPiece
  <2>7. QED
    BY <2>6 DEF y, b, c
<1>3. c \in Seq(Ins)
  <2>1. <<>> \in Seq(St)
    OBVIOUS
  <2>2. PICK l : Piece(c, l, Plain(m, Visible(o \o <<>>)), Plain(m, Visible(<<>>)), x)
    BY <1>2, <2>1
  <2>3. QED
    BY <2>2 DEF Piece
<1> HIDE DEF o, c
<1>4. Runs(c, o, m, m, x)
  BY <1>1, <1>2, <1>3 DEF Runs
<1>5. QED
  BY <1>4 DEF o, c

\* What a statement of a body leaves on the stack.
Leaves(s) == s.kind = "expr" \/ (s.kind \in {"call", "memberCall"} /\ s.result)

Left(s, x) == IF x /\ Leaves(s) THEN 1 ELSE 0

\* The statements without blocks.
LEMMA SimpleRuns ==
  ASSUME NEW x \in BOOLEAN, NEW e, NEW N, NEW s \in Statement(N), s \in St,
         s.kind \notin {"if", "ifElse", "while"}, NEW m \in Nat
  PROVE  Runs(EmitStatement(e, s), <<s>>, m, m + Left(s, x), x)
<1> DEFINE one == 1
           z == 0
           none == <<>>
           load == "ILOAD"
           store == "ISTORE"
           m1 == m + 1
           m2 == m + Left(s, x)
           l1 == IF x THEN m1 ELSE m
<1>1. /\ one \in Nat /\ z \in Nat /\ m1 \in Nat /\ m2 \in Nat /\ l1 \in Nat
      /\ m2 <= m + 1 /\ l1 <= m + 1 /\ m <= l1 + 1 /\ m2 <= l1 + 1 /\ m <= m + 1
      /\ x => l1 = m - z + one /\ m = l1 - one + z
      /\ load \in {"ILOAD", "ISTORE", "POP"} /\ store \in {"ILOAD", "ISTORE", "POP"}
  BY DEF Left
<1>2. ILoad = Instruction(load, 0, z, one)
  BY DEF ILoad
<1>3. CASE s.kind = "call"
  <2>1. s.id \in Ids /\ s.result \in BOOLEAN
    BY <1>3, StatementFields
  <2>2. EmitStatement(e, s) = InvokeOf(s, z)
    BY <1>3 DEF EmitStatement
  <2>3. x => m2 = m - z + (IF s.result THEN 1 ELSE 0)
    BY <1>3, <2>1 DEF Left, Leaves
  <2>4. s.kind \in {"call", "memberCall"}
    BY <1>3
  <2> HIDE DEF z, m2
  <2>5. Runs(InvokeOf(s, z), <<s>>, m, m2, x)
    BY <1>1, <2>1, <2>3, <2>4, InvokeRuns
  <2>6. QED
    BY <2>2, <2>5 DEF m2
<1>4. CASE s.kind = "memberCall"
  <2>1. s.id \in Ids /\ s.result \in BOOLEAN
    BY <1>4, StatementFields
  <2>2. EmitStatement(e, s) = ILoad \o InvokeOf(s, one)
    BY <1>4 DEF EmitStatement
  <2>3. x => m2 = l1 - one + (IF s.result THEN 1 ELSE 0)
    BY <1>4, <2>1 DEF Left, Leaves
  <2>4. s.kind \in {"call", "memberCall"}
    BY <1>4
  <2> HIDE DEF one, z, m2, l1, none, load
  <2>5. Runs(InvokeOf(s, one), <<s>>, l1, m2, x)
    BY <1>1, <2>1, <2>3, <2>4, InvokeRuns
  <2>6. Runs(ILoad, <<>>, m, l1, x)
    BY <1>1, <1>2, OperandRuns
  <2>7. Runs(ILoad \o InvokeOf(s, one), <<>> \o <<s>>, m, m2, x)
    BY <2>5, <2>6, RunsJoin
  <2>8. <<>> \o <<s>> = <<s>>
    OBVIOUS
  <2>9. QED
    BY <2>2, <2>7, <2>8 DEF m2
<1>5. CASE s.kind = "assign"
  <2>1. EmitStatement(e, s) = ILoad \o Instruction(store, 0, one, z)
    BY <1>5 DEF EmitStatement
  <2>2. Left(s, x) = 0 /\ m + Left(s, x) = m
    BY <1>5 DEF Left, Leaves
  <2>3. s.kind \in Silent
    BY <1>5 DEF Silent
  <2> HIDE DEF one, z, m2, l1, none, load, store
  <2>4. Runs(Instruction(store, 0, one, z), <<>>, l1, m, x)
    BY <1>1, OperandRuns
  <2>5. Runs(ILoad, <<>>, m, l1, x)
    BY <1>1, <1>2, OperandRuns
  <2>6. Runs(ILoad \o Instruction(store, 0, one, z), <<>> \o <<>>, m, m, x)
    BY <2>4, <2>5, RunsJoin
  <2>7. <<>> \o <<>> = <<>>
    OBVIOUS
  <2>8. Runs(EmitStatement(e, s), <<s>>, m, m, x)
    BY <2>1, <2>3, <2>6, <2>7, SilentRuns
  <2>9. QED
    BY <2>2, <2>8
<1>6. CASE s.kind = "expr"
  <2>1. EmitStatement(e, s) = ILoad
    BY <1>6 DEF EmitStatement
  <2>2. m2 = l1
    BY <1>6 DEF Left, Leaves
  <2>3. s.kind \in Silent
    BY <1>6 DEF Silent
  <2> HIDE DEF one, z, m2, l1, none, load
  <2>4. Runs(ILoad, <<>>, m, l1, x)
    BY <1>1, <1>2, OperandRuns
  <2>5. Runs(EmitStatement(e, s), <<s>>, m, l1, x)
    BY <2>1, <2>3, <2>4, SilentRuns
  <2>6. QED
    BY <2>2, <2>5 DEF m2
<1>7. CASE s.kind \in {"return", "returnExpr"}
  <2>1. s \in {ReturnStmt, ReturnExprStmt}
    <3>1. s \in {AssignStmt, ExprStmt, ReturnStmt, ReturnExprStmt}
      BY <1>7, StatementFields
    <3>2. QED
      BY <1>7, <3>1 DEF AssignStmt, ExprStmt
  <2>2. Left(s, x) = 0 /\ m + Left(s, x) = m
    BY <1>7 DEF Left, Leaves
  <2>3. Runs(EmitStatement(e, s), <<s>>, m, m, x)
    BY <2>1, ReturnRuns
  <2>4. QED
    BY <2>2, <2>3
<1>8. QED
  BY <1>3, <1>4, <1>5, <1>6, <1>7, StatementFields

-----------------------------------------------------------------------------
(* The code of a sequence of statements; E has the numbers of operands found *)
(* between them.                                                              *)

EachRuns(ss, stmts, E, x) ==
  \A i \in 1..Len(ss) : \A m \in E : \E m2 \in E : Runs(ss[i], <<stmts[i]>>, m, m2, x)

PrefixRuns(c, stmts, j, E, x) ==
  \A m \in E : \E m2 \in E : Runs(c, SubSeq(stmts, 1, j), m, m2, x)

\* The code of the first statements, however many, executes them.
LEMMA PrefixesRun ==
  ASSUME NEW x, NEW E \in SUBSET Nat, NEW ss \in Seq(Seq(Ins)), NEW stmts \in Seq(St),
         Len(stmts) = Len(ss), EachRuns(ss, stmts, E, x), NEW g, Joins(g, ss, Ins)
  PROVE  \A j \in 0..Len(ss) : PrefixRuns(g[j], stmts, j, E, x)
<1> DEFINE n == Len(ss)
           Js == {j \in Nat : j <= n => PrefixRuns(g[j], stmts, j, E, x)}
<1>1. n \in Nat /\ Len(stmts) = n
  BY LenProperties
<1>2. g[0] = <<>> /\ \A j \in 1..n : g[j] = g[j - 1] \o ss[j]
  BY DEF Joins
<1>3. PrefixRuns(g[0], stmts, 0, E, x)
  <2> DEFINE z == 0
             one == 1
  <2>1. z \in Int /\ one \in Int /\ z < one
    OBVIOUS
  <2> HIDE DEF z, one
  <2>2. SubSeq(stmts, one, z) = <<>>
    BY <2>1, SubSeqEmpty
  <2>3. \A m \in E : m \in Nat /\ Runs(<<>>, <<>>, m, m, x)
    BY NothingRuns
  <2>4. PrefixRuns(g[0], stmts, z, E, x)
    BY <1>2, <2>2, <2>3 DEF PrefixRuns, one
  <2>5. QED
    BY <2>4 DEF z
<1>4. 0 \in Js
  BY <1>3
<1>5. ASSUME NEW j \in Nat, j \in Js
      PROVE  j + 1 \in Js
  <2> SUFFICES ASSUME j + 1 <= n PROVE PrefixRuns(g[j + 1], stmts, j + 1, E, x)
    OBVIOUS
  <2>1. j <= n /\ j + 1 \in 1..n /\ (j + 1) - 1 = j
    BY <1>1
  <2>2. PrefixRuns(g[j], stmts, j, E, x)
    BY <1>5, <2>1
  <2>3. g[j + 1] = g[j] \o ss[j + 1]
    BY <1>2, <2>1
  <2>4. SubSeq(stmts, 1, j + 1) = SubSeq(stmts, 1, j) \o <<stmts[j + 1]>>
    <3> DEFINE one == 1
               k == j + 1
    <3>1. one \in 1..Len(stmts) /\ k \in one..Len(stmts) /\ k - 1 = j
      BY <1>1, <2>1
    <3> HIDE DEF one, k
    <3>2. SubSeq(stmts, one, k) = SubSeq(stmts, one, k - 1) \o <<stmts[k]>>
      BY <3>1, SubSeqRecursiveSecond
    <3>3. QED
      BY <3>1, <3>2 DEF one, k
  <2>5. ASSUME NEW m \in E
        PROVE  \E m2 \in E : Runs(g[j + 1], SubSeq(stmts, 1, j + 1), m, m2, x)
    <3>1. PICK m1 \in E : Runs(g[j], SubSeq(stmts, 1, j), m, m1, x)
      BY <2>2 DEF PrefixRuns
    <3>2. PICK m2 \in E : Runs(ss[j + 1], <<stmts[j + 1]>>, m1, m2, x)
      BY <2>1 DEF EachRuns
    <3>3. Runs(g[j] \o ss[j + 1], SubSeq(stmts, 1, j) \o <<stmts[j + 1]>>, m, m2, x)
      BY <3>1, <3>2, RunsJoin
    <3>4. QED
      BY <2>3, <2>4, <3>3
  <2>6. QED
    BY <2>5 DEF PrefixRuns
<1> HIDE DEF Js
<1>6. Nat \subseteq Js
  BY <1>4, <1>5, NatInductionInSets
<1>7. QED
  BY <1>1, <1>6 DEF Js

\* All of it.
LEMMA SequenceRuns ==
  ASSUME NEW x, NEW E \in SUBSET Nat, NEW ss \in Seq(Seq(Ins)), NEW stmts \in Seq(St),
         Len(stmts) = Len(ss), EachRuns(ss, stmts, E, x), NEW m \in E
  PROVE  \E m2 \in E : Runs(FlattenSeq(ss), stmts, m, m2, x)
<1> DEFINE n == Len(ss)
<1>1. n \in Nat /\ Len(stmts) = n /\ n \in 0..n
  BY LenProperties
<1>2. PICK g : Joins(g, ss, Ins)
  BY JoinsExist
<1>3. PrefixRuns(g[n], stmts, n, E, x)
  BY <1>1, <1>2, PrefixesRun
<1>4. FlattenSeq(ss) = g[n]
  BY <1>2, FlattenSeqJoins
<1>5. SubSeq(stmts, 1, n) = stmts
  BY <1>1, SubSeqFull
<1> HIDE DEF n
<1>6. QED
  BY <1>3, <1>4, <1>5 DEF PrefixRuns

\* An emitter whose code executes its statements, those of T at least if x.
Executes(e, T, x) ==
  /\ DOMAIN e \subseteq St
  /\ \A s \in DOMAIN e : (x => s \in T) =>
       \A m \in Nat : Runs(e[s], <<s>>, m, m + Left(s, x), x)

\* A block: it leaves nothing.
LEMMA BlockRuns ==
  ASSUME NEW x \in BOOLEAN, NEW T, NEW e, Executes(e, T, x), NEW stmts \in Seq(DOMAIN e),
         x => TidyBlock(stmts, T),
         NEW m \in Nat
  PROVE  Runs(EmitBlock(e, stmts), stmts, m, m, x)
<1> DEFINE n == Len(stmts)
           f == [i \in DOMAIN stmts |-> e[stmts[i]] \o PopUnused(stmts[i])]
           E == {m}
<1>1. /\ n \in Nat /\ DOMAIN stmts = 1..n /\ stmts \in Seq(St)
      /\ \A i \in 1..n : stmts[i] \in DOMAIN e /\ stmts[i] \in St
  BY LenProperties, ElementOfSeq, SeqMonotonic DEF Executes
<1>2. ASSUME NEW i \in 1..n
      PROVE  Runs(e[stmts[i]] \o PopUnused(stmts[i]), <<stmts[i]>>, m, m, x)
  <2> DEFINE s == stmts[i]
  <2>1. s \in DOMAIN e /\ (x => s \in T /\ ~ LeavesInBlock(s))
    BY <1>1 DEF TidyBlock
  <2>2. Runs(e[s], <<s>>, m, m + Left(s, x), x)
    BY <2>1 DEF Executes
  <2>3. s \in St
    BY <1>1
  <2> SUFFICES Runs(e[s] \o PopUnused(s), <<s>>, m, m, x)
    OBVIOUS
  <2> HIDE DEF s
  <2>4. CASE s.kind = "call" /\ s.result
    <3> DEFINE one == 1
               z == 0
               pop == "POP"
               m1 == m + Left(s, x)
    <3>1. PopUnused(s) = Instruction(pop, 0, one, z)
      BY <2>4 DEF PopUnused
    <3>2. /\ one \in Nat /\ z \in Nat /\ m1 \in Nat /\ m <= m1 + 1
          /\ x => m = m1 - one + z
          /\ pop \in {"ILOAD", "ISTORE", "POP"}
      BY <2>4 DEF Left, Leaves
    <3> HIDE DEF one, z, pop, m1
    <3>3. Runs(Instruction(pop, 0, one, z), <<>>, m1, m, x)
      BY <3>2, OperandRuns
    <3>4. Runs(e[s] \o PopUnused(s), <<s>> \o <<>>, m, m, x)
      BY <2>2, <3>1, <3>3, RunsJoin DEF m1
    <3>5. <<s>> \o <<>> = <<s>>
      OBVIOUS
    <3>6. QED
      BY <3>4, <3>5
  <2>5. CASE ~ (s.kind = "call" /\ s.result)
    <3>1. PopUnused(s) = <<>>
      BY <2>5 DEF PopUnused
    <3>2. Left(s, x) = 0 /\ m + Left(s, x) = m
      BY <2>1, <2>5 DEF Left, Leaves, LeavesInBlock
    <3>3. e[s] \in Seq(Ins)
      BY <2>2 DEF Runs
    <3>4. e[s] \o <<>> = e[s]
      BY <3>3, ConcatEmptySeq
    <3>5. QED
      BY <2>2, <3>1, <3>2, <3>4
  <2>6. QED
    BY <2>4, <2>5
<1>3. /\ DOMAIN f = 1..n
      /\ \A i \in 1..n : f[i] \in Seq(Ins) /\ Runs(f[i], <<stmts[i]>>, m, m, x)
  <2>1. DOMAIN f = 1..n /\ \A i \in 1..n : f[i] = e[stmts[i]] \o PopUnused(stmts[i])
    BY <1>1
  <2>2. \A i \in 1..n : Runs(f[i], <<stmts[i]>>, m, m, x)
    BY <1>2, <2>1
  <2> HIDE DEF f
  <2>3. \A i \in 1..n : f[i] \in Seq(Ins)
    BY <2>2 DEF Runs
  <2>4. QED
    BY <2>1, <2>2, <2>3
<1>4. f = [i \in 1..n |-> f[i]]
  BY <1>1
<1> HIDE DEF f
<1>5. f \in Seq(Seq(Ins)) /\ Len(f) = n
  <2> DEFINE C == Seq(Ins)
  <2>1. \A i \in 1..n : f[i] \in C
    BY <1>3
  <2> HIDE DEF C
  <2>2. f \in Seq(C) /\ Len(f) = n
    BY <1>1, <1>4, <2>1
  <2>3. QED
    BY <2>2 DEF C
<1>6. EachRuns(f, stmts, E, x) /\ E \in SUBSET Nat /\ m \in E
  BY <1>3, <1>5 DEF EachRuns
<1>7. \E m2 \in E : Runs(FlattenSeq(f), stmts, m, m2, x)
  <2>1. Len(stmts) = Len(f)
    BY <1>5
  <2> HIDE DEF E, n
  <2>2. QED
    BY <1>1, <1>5, <1>6, <2>1, SequenceRuns
<1>8. Runs(FlattenSeq(f), stmts, m, m, x)
  BY <1>7
<1>9. EmitBlock(e, stmts) = FlattenSeq(f)
  BY DEF EmitBlock, f
<1>10. QED
  BY <1>8, <1>9

-----------------------------------------------------------------------------
(* The code of if and while: a condition, a jump over a part of what follows. *)

Head4(id, op, n) == Condition(id) \o Jump(op, n)

LoadIns == Made("ILOAD", 0, 0, 1)

HeadIs(c, id, op, n) ==
  /\ c[1] = LoadIns /\ c[2] = LoadIns
  /\ c[3] = Made("ICMP_L", id, 2, 1)
  /\ c[4] = Made(op, n, 1, 0)

\* A sequence with an element behind it.
LEMMA OneBehind ==
  ASSUME NEW S, NEW t \in Seq(S), NEW d \in S
  PROVE  /\ t \o <<d>> \in Seq(S) /\ Len(t \o <<d>>) = Len(t) + 1
         /\ \A i \in 1..Len(t) : (t \o <<d>>)[i] = t[i]
         /\ (t \o <<d>>)[Len(t) + 1] = d
<1>1. Append(t, d) = t \o <<d>>
  BY AppendIsConcat
<1>2. QED
  BY <1>1, AppendProperties

FourAre(u, S, a, b, c, d) ==
  /\ u \in Seq(S) /\ Len(u) = 4
  /\ u[1] = a /\ u[2] = b /\ u[3] = c /\ u[4] = d

\* A sequence with four elements in front of it.
LEMMA FourInFront ==
  ASSUME NEW S, NEW a \in S, NEW b \in S, NEW c \in S, NEW d \in S
  PROVE  /\ FourAre(((<<a>> \o <<b>>) \o <<c>>) \o <<d>>, S, a, b, c, d)
         /\ Len((<<a>> \o <<b>>) \o <<c>>) = 3
<1> DEFINE u1 == <<a>>
           u2 == u1 \o <<b>>
           u3 == u2 \o <<c>>
           u4 == u3 \o <<d>>
<1>1. u1 \in Seq(S) /\ Len(u1) = 1 /\ u1[1] = a
  OBVIOUS
<1> HIDE DEF u1
<1>2. u2 \in Seq(S) /\ Len(u2) = 2 /\ u2[1] = a /\ u2[2] = b
  <2>1. /\ u2 \in Seq(S) /\ Len(u2) = Len(u1) + 1
        /\ \A i \in 1..Len(u1) : u2[i] = u1[i]
        /\ u2[Len(u1) + 1] = b
    BY <1>1, OneBehind
  <2> HIDE DEF u2
  <2>2. QED
    BY <1>1, <2>1
<1> HIDE DEF u2
<1>3. u3 \in Seq(S) /\ Len(u3) = 3 /\ u3[1] = a /\ u3[2] = b /\ u3[3] = c
  <2>1. /\ u3 \in Seq(S) /\ Len(u3) = Len(u2) + 1
        /\ \A i \in 1..Len(u2) : u3[i] = u2[i]
        /\ u3[Len(u2) + 1] = c
    BY <1>2, OneBehind
  <2> HIDE DEF u3
  <2>2. QED
    BY <1>2, <2>1
<1> HIDE DEF u3
<1>4. u4 \in Seq(S) /\ Len(u4) = 4 /\ u4[1] = a /\ u4[2] = b /\ u4[3] = c /\ u4[4] = d
  <2>1. /\ u4 \in Seq(S) /\ Len(u4) = Len(u3) + 1
        /\ \A i \in 1..Len(u3) : u4[i] = u3[i]
        /\ u4[Len(u3) + 1] = d
    BY <1>3, OneBehind
  <2> HIDE DEF u4
  <2>2. QED
    BY <1>3, <2>1
<1>5. QED
  BY <1>3, <1>4 DEF FourAre, u1, u2, u3, u4

\* Three instructions of a condition, and a jump.
LEMMA HeadCode ==
  ASSUME NEW id \in Ids, NEW op \in {"IFNE", "IFLE"}, NEW n \in Nat
  PROVE  /\ Head4(id, op, n) \in Seq(Ins)
         /\ Len(Head4(id, op, n)) = 4
         /\ HeadIs(Head4(id, op, n), id, op, n)
         /\ Len(Condition(id)) = 3
<1> DEFINE z == 0
           one == 1
           two == 2
           a == LoadIns
           cmp == "ICMP_L"
           load == "ILOAD"
           c == Made(cmp, id, two, one)
           d == Made(op, n, one, z)
<1>1. /\ z \in Int /\ id \in Int /\ n \in Int
      /\ z \in Nat /\ one \in Nat /\ two \in Nat
      /\ load \in Ops /\ cmp \in Ops /\ op \in Ops
  BY Words DEF Ops
<1>2. /\ ILoad = Instruction(load, z, z, one)
      /\ Condition(id) = (ILoad \o ILoad) \o Instruction(cmp, id, two, one)
      /\ Jump(op, n) = Instruction(op, n, one, z)
      /\ a = Made(load, z, z, one)
  BY DEF ILoad, Condition, Jump, LoadIns
<1>3. a = LoadIns /\ c = Made("ICMP_L", id, 2, 1) /\ d = Made(op, n, 1, 0)
  OBVIOUS
<1> HIDE DEF z, one, two, a, cmp, load, c, d
<1>4. ILoad = <<a>> /\ a \in Ins
  BY <1>1, <1>2, MadeTyped
<1>5. Instruction(cmp, id, two, one) = <<c>> /\ c \in Ins
  BY <1>1, MadeTyped DEF c
<1>6. Instruction(op, n, one, z) = <<d>> /\ d \in Ins
  BY <1>1, MadeTyped DEF d
<1> DEFINE u == Head4(id, op, n)
<1>7. FourAre(u, Ins, a, a, c, d) /\ Len(Condition(id)) = 3
  <2>1. Head4(id, op, n) = ((<<a>> \o <<a>>) \o <<c>>) \o <<d>>
    BY <1>2, <1>4, <1>5, <1>6 DEF Head4
  <2>2. Condition(id) = (<<a>> \o <<a>>) \o <<c>>
    BY <1>2, <1>4, <1>5
  <2>3. QED
    BY <1>4, <1>5, <1>6, <2>1, <2>2, FourInFront, ZenonT(30)
<1> HIDE DEF u
<1>8. u \in Seq(Ins) /\ Len(u) = 4 /\ u[1] = a /\ u[2] = a /\ u[3] = c /\ u[4] = d
  BY <1>7 DEF FourAre
<1>9. HeadIs(u, id, op, n)
  BY <1>3, <1>8 DEF HeadIs
<1>10. QED
  BY <1>7, <1>8, <1>9 DEF u

\* The labels of the condition and the jump, in front of those of the rest.
TestLabels(k, n, m, todo, y, z) ==
  [i \in 1..(n + 5) |->
     IF i = 4 THEN [depth |-> m + 1, yes |-> y, no |-> z]
     ELSE IF i <= 3 THEN Plain(m + i - 1, todo) ELSE k[i - 4]]

\* The statements that remain before a test, and after it.
Testing(todo, id, y, z) ==
  /\ todo \in Seq(St) /\ y \in Seq(St) /\ z \in Seq(St)
  /\ \A b \in BOOLEAN : Event("test", id, b) \in Possible(todo)
  /\ After(todo, Event("test", id, TRUE)) = y
  /\ After(todo, Event("test", id, FALSE)) = z

LabelsAre(l, k, n, m, todo, y, z) ==
  /\ l \in [1..(n + 5) -> Label]
  /\ l[1] = Plain(m, todo) /\ l[2] = Plain(m + 1, todo) /\ l[3] = Plain(m + 2, todo)
  /\ l[4] = [depth |-> m + 1, yes |-> y, no |-> z]
  /\ \A j \in 1..(n + 1) : 4 + j \in DOMAIN l /\ l[4 + j] = k[j]

\* The labels of the four instructions are labels, in front of those of what follows.
LEMMA TestLabelsAre ==
  ASSUME NEW n \in Nat, NEW k \in [1..(n + 1) -> Label], NEW m \in Nat,
         NEW todo \in Seq(St), NEW y \in Seq(St), NEW z \in Seq(St)
  PROVE  LabelsAre(TestLabels(k, n, m, todo, y, z), k, n, m, todo, y, z)
<1> DEFINE l == TestLabels(k, n, m, todo, y, z)
           f(i) == IF i = 4 THEN [depth |-> m + 1, yes |-> y, no |-> z]
                   ELSE IF i <= 3 THEN Plain(m + i - 1, todo) ELSE k[i - 4]
<1>1. DOMAIN l = 1..(n + 5) /\ l = [i \in 1..(n + 5) |-> l[i]]
      /\ \A i \in 1..(n + 5) : l[i] = f(i)
  BY DEF TestLabels
<1>2. ASSUME NEW i \in 1..(n + 5)
      PROVE  f(i) \in Label
  <2>1. CASE i = 4
    BY <2>1 DEF Label
  <2>2. CASE i <= 3
    <3>1. m + i - 1 \in Int
      OBVIOUS
    <3>2. QED
      BY <2>2, <3>1, PlainTyped
  <2>3. CASE i > 4
    <3>1. i - 4 \in 1..(n + 1)
      BY <2>3
    <3>2. QED
      BY <2>3, <3>1
  <2>4. QED
    BY <2>1, <2>2, <2>3
<1>3. l \in [1..(n + 5) -> Label]
  BY <1>1, <1>2
<1>4. 1 \in 1..(n + 5) /\ 2 \in 1..(n + 5) /\ 3 \in 1..(n + 5) /\ 4 \in 1..(n + 5)
  OBVIOUS
<1>5. m + 1 - 1 = m /\ m + 2 - 1 = m + 1 /\ m + 3 - 1 = m + 2
  OBVIOUS
<1>6. l[1] = Plain(m, todo) /\ l[2] = Plain(m + 1, todo) /\ l[3] = Plain(m + 2, todo)
  <2>1. l[1] = f(1) /\ l[2] = f(2) /\ l[3] = f(3)
    BY <1>1, <1>4
  <2>2. f(1) = Plain(m + 1 - 1, todo) /\ f(2) = Plain(m + 2 - 1, todo)
        /\ f(3) = Plain(m + 3 - 1, todo)
    OBVIOUS
  <2>3. QED
    BY <1>5, <2>1, <2>2
<1>7. l[4] = [depth |-> m + 1, yes |-> y, no |-> z]
  BY <1>1, <1>4
<1>8. ASSUME NEW j \in 1..(n + 1)
      PROVE  4 + j \in DOMAIN l /\ l[4 + j] = k[j]
  <2>1. 4 + j \in 1..(n + 5) /\ 4 + j # 4 /\ ~ (4 + j <= 3) /\ (4 + j) - 4 = j
    OBVIOUS
  <2>2. QED
    BY <1>1, <2>1
<1> HIDE DEF l
<1>9. LabelsAre(l, k, n, m, todo, y, z)
  BY <1>3, <1>6, <1>7, <1>8 DEF LabelsAre
<1>10. QED
  BY <1>9 DEF l

\* The labels of the four instructions are right: the jump reaches the place behind n
\* instructions.
LEMMA HeadLeads ==
  ASSUME NEW x \in BOOLEAN, NEW c, NEW id \in Ids, NEW op \in {"IFNE", "IFLE"},
         NEW n \in Nat, NEW t \in Nat, t <= n, t <= Max32, HeadIs(c, id, op, t),
         NEW k \in [1..(n + 1) -> Label], NEW m \in Nat, NEW todo, NEW y, NEW z,
         Testing(todo, id, y, z), k[1] = Plain(m, y), k[t + 1] = Plain(m, z),
         NEW l, l = TestLabels(k, n, m, todo, y, z)
  PROVE  \A i \in 1..4 : Leads(c[i], i, l, x)
<1>1. /\ todo \in Seq(St) /\ y \in Seq(St) /\ z \in Seq(St)
      /\ \A b \in BOOLEAN : Event("test", id, b) \in Possible(todo)
      /\ After(todo, Event("test", id, TRUE)) = y
      /\ After(todo, Event("test", id, FALSE)) = z
  BY DEF Testing
<1>2. /\ l[1] = Plain(m, todo) /\ l[2] = Plain(m + 1, todo) /\ l[3] = Plain(m + 2, todo)
      /\ l[4] = [depth |-> m + 1, yes |-> y, no |-> z]
      /\ \A j \in 1..(n + 1) : 4 + j \in DOMAIN l /\ l[4 + j] = k[j]
  <2>1. LabelsAre(l, k, n, m, todo, y, z)
    BY <1>1, TestLabelsAre
  <2>2. QED
    BY <2>1 DEF LabelsAre
<1>3. 1 \in 1..(n + 1) /\ t + 1 \in 1..(n + 1)
  OBVIOUS
<1>4. l[4 + 1] = Plain(m, y) /\ 4 + (t + 1) \in DOMAIN l /\ l[4 + (t + 1)] = Plain(m, z)
  BY <1>2, <1>3
<1>5. /\ l[1].depth = m /\ l[1].yes = todo /\ l[1].no = todo
      /\ l[2].depth = m + 1 /\ l[2].yes = todo /\ l[2].no = todo
      /\ l[3].depth = m + 2 /\ l[3].yes = todo /\ l[3].no = todo
      /\ l[4].depth = m + 1 /\ l[4].yes = y /\ l[4].no = z
      /\ l[5].depth = m /\ l[5].yes = y /\ l[5].no = y
      /\ l[5 + t].depth = m /\ l[5 + t].yes = z /\ l[5 + t].no = z
      /\ 5 + t \in DOMAIN l
  <2>1. 4 + 1 = 5 /\ 4 + (t + 1) = 5 + t
    OBVIOUS
  <2>2. l[5] = Plain(m, y) /\ l[5 + t] = Plain(m, z) /\ 5 + t \in DOMAIN l
    BY <1>4, <2>1
  <2>3. QED
    BY <1>2, <2>2 DEF Plain
<1>6. /\ Op(LoadIns) = "ILOAD" /\ LoadIns.pops = 0 /\ LoadIns.pushes = 1
  <2> DEFINE v == 0
             one == 1
             o == "ILOAD"
  <2>1. Word(v) /\ v \in Nat /\ one \in Nat /\ o \in Ops
    BY Words DEF Ops
  <2>2. LoadIns = Made(o, v, v, one)
    BY DEF LoadIns
  <2> HIDE DEF v, one, o
  <2>3. Op(LoadIns) = o /\ LoadIns.pops = v /\ LoadIns.pushes = one
    BY <2>1, <2>2, InstructionMade
  <2>4. QED
    BY <2>3 DEF o, v, one
<1>7. c[1] = LoadIns /\ c[2] = LoadIns
  BY DEF HeadIs
<1>8. Op(c[3]) = "ICMP_L" /\ Arg(c[3]) = id /\ c[3].pops = 2 /\ c[3].pushes = 1
  <2> DEFINE one == 1
             two == 2
             o == "ICMP_L"
  <2>1. Word(id) /\ one \in Nat /\ two \in Nat /\ o \in Ops
    BY Words DEF Ops
  <2>2. c[3] = Made(o, id, two, one)
    BY DEF HeadIs
  <2> HIDE DEF two, one, o
  <2>3. Op(c[3]) = o /\ Arg(c[3]) = id /\ c[3].pops = two /\ c[3].pushes = one
    BY <2>1, <2>2, InstructionMade
  <2>4. QED
    BY <2>3 DEF o, two, one
<1>9. Op(c[4]) = op /\ Arg(c[4]) = t /\ c[4].pops = 1 /\ c[4].pushes = 0
  <2> DEFINE one == 1
             v == 0
  <2>1. Word(t) /\ one \in Nat /\ v \in Nat /\ op \in Ops
    BY Words DEF Ops
  <2>2. c[4] = Made(op, t, one, v)
    BY DEF HeadIs
  <2> HIDE DEF v, one
  <2>3. Op(c[4]) = op /\ Arg(c[4]) = t /\ c[4].pops = one /\ c[4].pushes = v
    BY <2>1, <2>2, InstructionMade
  <2>4. QED
    BY <2>3 DEF v, one
<1>10. Leads(c[1], 1, l, x)
  <2>1. Falls(LoadIns, l[1], l[2], x)
    BY <1>5, <1>6 DEF Falls, Balanced, Passes
  <2>2. QED
    BY <1>7, <2>1 DEF Leads
<1>11. Leads(c[2], 2, l, x)
  <2>1. Falls(LoadIns, l[2], l[3], x)
    BY <1>5, <1>6 DEF Falls, Balanced, Passes
  <2>2. QED
    BY <1>7, <2>1 DEF Leads
<1>12. Leads(c[3], 3, l, x)
  <2>1. Compares(c[3], l[3], l[4])
    BY <1>1, <1>5, <1>8 DEF Compares
  <2>2. Balanced(c[3], l[3], l[4], x) /\ l[4].depth <= l[3].depth + 1
    BY <1>5, <1>8 DEF Balanced
  <2>3. Falls(c[3], l[3], l[4], x)
    BY <1>5, <2>1, <2>2 DEF Falls
  <2>4. QED
    BY <2>3 DEF Leads
<1>13. Leads(c[4], 4, l, x)
  <2>1. Balanced(c[4], l[4], l[5], x) /\ Balanced(c[4], l[4], l[5 + t], x)
        /\ l[5].depth <= l[4].depth + 1
    BY <1>5, <1>9 DEF Balanced
  <2>2. Branches(c[4], l[4], l[5], l[5 + t], x)
    BY <1>5, <1>9, <2>1 DEF Branches
  <2>3. Jumps(c[4], l[4], l[5], l[5 + t], x)
    BY <2>1, <2>2 DEF Jumps
  <2>4. 4 + 1 + Arg(c[4]) = 5 + t /\ 4 + 1 = 5
    BY <1>9
  <2>5. QED
    BY <1>5, <2>3, <2>4 DEF Leads
<1>14. 1..4 = {1, 2, 3, 4}
  OBVIOUS
<1>15. QED
  BY <1>10, <1>11, <1>12, <1>13, <1>14

\* A condition, its jump and the rest.
LEMMA TestPiece ==
  ASSUME NEW x \in BOOLEAN, NEW r \in Seq(Ins), NEW id \in Ids, NEW op \in {"IFNE", "IFLE"},
         NEW t \in Nat, t <= Len(r), t <= Max32,
         NEW k \in [1..(Len(r) + 1) -> Label], NEW m \in Nat, NEW todo, NEW y, NEW z,
         Testing(todo, id, y, z), k[1] = Plain(m, y), k[t + 1] = Plain(m, z),
         \A j \in 1..Len(r) : Leads(r[j], 4 + j, TestLabels(k, Len(r), m, todo, y, z), x)
  PROVE  \E l : Piece(Head4(id, op, t) \o r, l, Plain(m, todo), k[Len(r) + 1], x)
<1> DEFINE n == Len(r)
           h == Head4(id, op, t)
           c == h \o r
           l == TestLabels(k, n, m, todo, y, z)
<1>1. n \in Nat
  BY LenProperties
<1>2. h \in Seq(Ins) /\ Len(h) = 4 /\ HeadIs(h, id, op, t)
  BY HeadCode
<1> HIDE DEF h
<1>3. /\ c \in Seq(Ins) /\ Len(c) = 4 + n
      /\ \A i \in 1..(4 + n) : c[i] = IF i <= 4 THEN h[i] ELSE r[i - 4]
  <2>1. /\ c \in Seq(Ins) /\ Len(c) = Len(h) + Len(r)
        /\ \A i \in 1..(Len(h) + Len(r)) : c[i] = IF i <= Len(h) THEN h[i] ELSE r[i - Len(h)]
    BY <1>2, ConcatProperties
  <2> HIDE DEF c
  <2>2. QED
    BY <1>2, <2>1
<1>4. todo \in Seq(St) /\ y \in Seq(St) /\ z \in Seq(St)
  BY DEF Testing
<1> HIDE DEF l, c, n
<1>5. /\ l \in [1..(n + 5) -> Label] /\ l[1] = Plain(m, todo)
      /\ \A j \in 1..(n + 1) : 4 + j \in DOMAIN l /\ l[4 + j] = k[j]
  <2>1. k \in [1..(n + 1) -> Label]
    BY DEF n
  <2>2. LabelsAre(l, k, n, m, todo, y, z)
    BY <1>1, <1>4, <2>1, TestLabelsAre DEF l
  <2>3. QED
    BY <2>2 DEF LabelsAre
<1>6. HeadIs(c, id, op, t)
  <2>1. \A i \in 1..4 : c[i] = h[i]
    BY <1>1, <1>3
  <2>2. QED
    BY <1>2, <2>1 DEF HeadIs
<1>7. \A i \in 1..4 : Leads(c[i], i, l, x)
  BY <1>1, <1>6, HeadLeads DEF l, n
<1>8. \A j \in 1..n : Leads(r[j], 4 + j, l, x)
  BY DEF l, n
<1>9. ASSUME NEW i \in 1..(4 + n)
      PROVE  Leads(c[i], i, l, x)
  <2>1. CASE i <= 4
    BY <1>7, <2>1
  <2>2. CASE ~ (i <= 4)
    <3>1. i - 4 \in 1..n /\ 4 + (i - 4) = i
      BY <1>1, <2>2
    <3>2. c[i] = r[i - 4]
      BY <1>3, <2>2
    <3>3. QED
      BY <1>8, <3>1, <3>2
  <2>3. QED
    BY <2>1, <2>2
<1>10. Len(c) + 1 = n + 5 /\ n + 1 \in 1..(n + 1) /\ 4 + (n + 1) = n + 5
  BY <1>1, <1>3
<1>11. Labelled(c, l, x)
  BY <1>3, <1>5, <1>9, <1>10 DEF Labelled
<1>12. l[Len(c) + 1] = k[n + 1]
  BY <1>5, <1>10
<1>13. Piece(c, l, Plain(m, todo), k[n + 1], x)
  BY <1>3, <1>5, <1>11, <1>12 DEF Piece
<1>14. QED
  BY <1>13 DEF c, h, n

\* The labels of a piece behind the condition lead there, too.
LEMMA BehindTest ==
  ASSUME NEW x \in BOOLEAN, NEW r \in Seq(Ins), NEW d \in Seq(Ins), Len(d) <= Len(r),
         NEW k \in [1..(Len(r) + 1) -> Label], NEW f, Labelled(d, f, x),
         \A j \in 1..(Len(d) + 1) : k[j] = f[j],
         \A j \in 1..Len(d) : r[j] = d[j],
         NEW m \in Nat, NEW todo \in Seq(St), NEW y \in Seq(St), NEW z \in Seq(St)
  PROVE  \A j \in 1..Len(d) : Leads(r[j], 4 + j, TestLabels(k, Len(r), m, todo, y, z), x)
<1> DEFINE n == Len(r)
           l == TestLabels(k, n, m, todo, y, z)
           c == [i \in 1..(n + 4) |-> r[i - 4]]
           o == 4
<1>1. n \in Nat /\ Len(d) \in Nat /\ o \in Nat /\ Len(d) <= n
  BY LenProperties
<1> HIDE DEF l, n
<1>2. \A j \in 1..(n + 1) : o + j \in DOMAIN l /\ l[o + j] = k[j]
  <2>1. k \in [1..(n + 1) -> Label]
    BY DEF n
  <2>2. LabelsAre(l, k, n, m, todo, y, z)
    BY <1>1, <2>1, TestLabelsAre DEF l
  <2>3. QED
    BY <2>2 DEF LabelsAre, o
<1>3. \A j \in 1..n : c[o + j] = r[j]
  <2> SUFFICES ASSUME NEW j \in 1..n PROVE c[o + j] = r[j]
    OBVIOUS
  <2>1. o + j \in 1..(n + 4) /\ (o + j) - 4 = j
    BY <1>1
  <2>2. QED
    BY <2>1
<1>4. \A j \in 1..(Len(d) + 1) : j \in 1..(n + 1)
  BY <1>1
<1>5. \A j \in 1..Len(d) : j \in 1..n
  BY <1>1
<1> HIDE DEF c, o
<1>6. Includes(c, l, d, f, o)
  BY <1>2, <1>3, <1>4, <1>5 DEF Includes
<1>7. \A j \in 1..Len(d) : Leads(c[o + j], o + j, l, x)
  BY <1>1, <1>6, ContainedLeads
<1>8. \A j \in 1..Len(d) : Leads(r[j], o + j, l, x)
  BY <1>3, <1>5, <1>7
<1>9. QED
  BY <1>8 DEF l, n, o

\* if without else: the jump leads behind the block.
LEMMA IfPiece ==
  ASSUME NEW x \in BOOLEAN, NEW r, NEW k, NEW id \in Ids, NEW m \in Nat,
         NEW todo, NEW y, NEW z, Testing(todo, id, y, z), NEW last,
         Len(r) <= Max32,
         Piece(r, k, Plain(m, y), last, x),
         NEW t \in Nat, t <= Len(r), k[t + 1] = Plain(m, z)
  PROVE  \E l : Piece(Head4(id, "IFNE", t) \o r, l, Plain(m, todo), last, x)
<1> DEFINE op == "IFNE"
<1>1. r \in Seq(Ins) /\ Labelled(r, k, x) /\ k[1] = Plain(m, y) /\ k[Len(r) + 1] = last
  BY DEF Piece
<1>2. Len(r) \in Nat /\ k \in [1..(Len(r) + 1) -> Label] /\ t <= Max32
  BY <1>1, LenProperties, Words DEF Labelled
<1>3. todo \in Seq(St) /\ y \in Seq(St) /\ z \in Seq(St)
  BY DEF Testing
<1>4. \A j \in 1..Len(r) : Leads(r[j], 4 + j, TestLabels(k, Len(r), m, todo, y, z), x)
  <2>1. Len(r) <= Len(r) /\ \A j \in 1..(Len(r) + 1) : k[j] = k[j]
    BY <1>2
  <2>2. QED
    BY <1>1, <1>2, <1>3, <2>1, BehindTest
<1>5. op \in {"IFNE", "IFLE"}
  OBVIOUS
<1> HIDE DEF op
<1>6. \E l : Piece(Head4(id, op, t) \o r, l, Plain(m, todo), k[Len(r) + 1], x)
  BY <1>1, <1>2, <1>4, <1>5, TestPiece
<1>7. QED
  BY <1>1, <1>6 DEF op

\* Code with a condition in front of it.
LEMMA HeadAndRest ==
  ASSUME NEW id \in Ids, NEW op \in {"IFNE", "IFLE"}, NEW n \in Nat, NEW r \in Seq(Ins)
  PROVE  /\ Head4(id, op, n) \o r \in Seq(Ins)
         /\ Len(Head4(id, op, n) \o r) = 4 + Len(r)
         /\ Len(r) \in Nat
<1> DEFINE h == Head4(id, op, n)
<1>1. h \in Seq(Ins) /\ Len(h) = 4
  BY HeadCode
<1> HIDE DEF h
<1>2. h \o r \in Seq(Ins) /\ Len(h \o r) = Len(h) + Len(r) /\ Len(r) \in Nat
  BY <1>1, ConcatProperties, LenProperties
<1>3. QED
  BY <1>1, <1>2 DEF h

\* An if executes its test and its block.
LEMMA IfRuns ==
  ASSUME NEW x \in BOOLEAN, NEW e, NEW s \in St, s.kind = "if", s.id \in Ids,
         NEW m \in Nat, Runs(EmitBlock(e, s.block), s.block, m, m, x)
  PROVE  Runs(EmitIf(e, s), <<s>>, m, m, x)
<1> DEFINE b == EmitBlock(e, s.block)
           t == Len(b)
           op == "IFNE"
           c == Head4(s.id, op, t) \o b
           o == <<s>>
<1>1. EmitIf(e, s) = c
  BY DEF EmitIf, Head4
<1> HIDE DEF b
<1>2. b \in Seq(Ins) /\ s.block \in Seq(St) /\ o \in Seq(St) /\ op \in {"IFNE", "IFLE"}
  BY DEF Runs, b
<1>3. t \in Nat
  BY <1>2, LenProperties
<1> HIDE DEF op
<1>4. c \in Seq(Ins) /\ Len(c) = 4 + Len(b)
  BY <1>2, <1>3, HeadAndRest
<1> HIDE DEF c, o
<1>5. ASSUME Len(c) <= Max32, NEW k \in Seq(St)
      PROVE  \E l : Piece(c, l, Plain(m, Visible(o \o k)), Plain(m, Visible(k)), x)
  <2> DEFINE todo == o \o k
             y == Visible(s.block \o k)
             z == Visible(k)
  <2>1. Visible(todo) = todo
    BY TestEvents DEF o
  <2>2. Testing(todo, s.id, y, z)
    <3>1. y \in Seq(St) /\ z \in Seq(St)
      BY <1>2, VisibleLabels
    <3>2. s.kind \in {"if", "ifElse", "while"} /\ s.kind # "while" /\ s.kind # "ifElse"
      OBVIOUS
    <3>3. QED
      BY <3>1, <3>2, TestEvents DEF Testing, o
  <2>3. Len(b) <= Max32 /\ t <= Len(b)
    BY <1>3, <1>4, <1>5, Words
  <2>4. PICK f : Piece(b, f, Plain(m, y), Plain(m, z), x)
    BY <2>3 DEF Runs, b
  <2>5. f[t + 1] = Plain(m, z)
    BY <2>4 DEF Piece
  <2> HIDE DEF todo, y, z, t
  <2>6. \E l : Piece(Head4(s.id, "IFNE", t) \o b, l, Plain(m, todo), Plain(m, z), x)
    BY <1>3, <2>2, <2>3, <2>4, <2>5, IfPiece
  <2>7. QED
    BY <2>1, <2>6 DEF todo, z, c, op
<1>6. Runs(c, o, m, m, x)
  BY <1>2, <1>4, <1>5 DEF Runs
<1>7. QED
  BY <1>1, <1>6 DEF o

\* A block with a jump over the else-block behind it, and the else-block.
LEMMA ElsePiece ==
  ASSUME NEW x \in BOOLEAN, NEW b, NEW d, NEW f, NEW h, NEW m \in Nat,
         NEW y \in Seq(St), NEW z \in Seq(St), NEW w \in Seq(St), Len(d) <= Max32,
         Piece(b, f, Plain(m, y), Plain(m, w), x),
         Piece(d, h, Plain(m, z), Plain(m, w), x)
  PROVE  \E l : /\ Piece((b \o Jump("GOTO", Len(d))) \o d, l, Plain(m, y), Plain(m, w), x)
                /\ l[Len(b \o Jump("GOTO", Len(d))) + 1] = Plain(m, z)
<1> DEFINE n == Len(b)
           p == Len(d)
           zero == 0
           goto == "GOTO"
           g == Made(goto, p, zero, zero)
           bg == b \o <<g>>
           c == bg \o d
           l == [i \in 1..(n + p + 2) |-> IF i <= n + 1 THEN f[i] ELSE h[i - (n + 1)]]
<1>1. /\ b \in Seq(Ins) /\ Labelled(b, f, x) /\ f[1] = Plain(m, y) /\ f[n + 1] = Plain(m, w)
      /\ d \in Seq(Ins) /\ Labelled(d, h, x) /\ h[1] = Plain(m, z) /\ h[p + 1] = Plain(m, w)
  BY DEF Piece
<1>2. n \in Nat /\ p \in Nat
  BY <1>1, LenProperties
<1>3. Word(p) /\ zero \in Nat /\ goto \in Ops /\ Jump("GOTO", p) = Instruction(goto, p, zero, zero)
  BY <1>2, Words DEF Ops, Jump
<1> HIDE DEF zero, goto
<1>4. /\ Jump("GOTO", p) = <<g>> /\ g \in Ins
      /\ Op(g) = goto /\ Arg(g) = p /\ g.pops = zero /\ g.pushes = zero
  BY <1>3, InstructionMade
<1> HIDE DEF g
<1>5. /\ bg \in Seq(Ins) /\ Len(bg) = n + 1
      /\ \A i \in 1..n : bg[i] = b[i]
      /\ bg[n + 1] = g
  BY <1>1, <1>4, OneBehind
<1> HIDE DEF bg
<1>6. /\ c \in Seq(Ins) /\ Len(c) = n + 1 + p
      /\ \A i \in 1..(n + 1) : c[i] = bg[i]
      /\ \A i \in 1..p : c[n + 1 + i] = d[i]
  <2>1. /\ c \in Seq(Ins) /\ Len(c) = Len(bg) + Len(d)
        /\ \A i \in 1..(Len(bg) + Len(d)) : c[i] = IF i <= Len(bg) THEN bg[i] ELSE d[i - Len(bg)]
    BY <1>1, <1>5, ConcatProperties
  <2> HIDE DEF c
  <2>2. \A i \in 1..(n + 1) : c[i] = bg[i]
    BY <1>2, <1>5, <2>1
  <2>3. ASSUME NEW i \in 1..p
        PROVE  c[n + 1 + i] = d[i]
    <3>1. n + 1 + i \in 1..(Len(bg) + Len(d)) /\ ~ (n + 1 + i <= Len(bg)) /\ (n + 1 + i) - Len(bg) = i
      BY <1>2, <1>5
    <3>2. QED
      BY <2>1, <3>1
  <2>4. QED
    BY <1>5, <2>1, <2>2, <2>3
<1> HIDE DEF c
<1>7. f \in [1..(n + 1) -> Label] /\ h \in [1..(p + 1) -> Label]
  BY <1>1 DEF Labelled
<1>8. /\ l \in [1..(n + p + 2) -> Label]
      /\ \A j \in 1..(n + 1) : j \in DOMAIN l /\ l[j] = f[j]
      /\ \A j \in 1..(p + 1) : n + 1 + j \in DOMAIN l /\ l[n + 1 + j] = h[j]
  <2>1. ASSUME NEW i \in 1..(n + p + 2)
        PROVE  (IF i <= n + 1 THEN f[i] ELSE h[i - (n + 1)]) \in Label
    <3>1. CASE i <= n + 1
      BY <1>2, <1>7, <3>1
    <3>2. CASE ~ (i <= n + 1)
      <4>1. i - (n + 1) \in 1..(p + 1)
        BY <1>2, <3>2
      <4>2. QED
        BY <1>7, <3>2, <4>1
    <3>3. QED
      BY <3>1, <3>2
  <2>2. l \in [1..(n + p + 2) -> Label]
    BY <2>1
  <2>3. \A j \in 1..(n + 1) : j \in DOMAIN l /\ l[j] = f[j]
    BY <1>2
  <2>4. ASSUME NEW j \in 1..(p + 1)
        PROVE  n + 1 + j \in DOMAIN l /\ l[n + 1 + j] = h[j]
    <3>1. n + 1 + j \in 1..(n + p + 2) /\ ~ (n + 1 + j <= n + 1) /\ (n + 1 + j) - (n + 1) = j
      BY <1>2
    <3>2. QED
      BY <3>1
  <2>5. QED
    BY <2>2, <2>3, <2>4
<1> HIDE DEF l, n, p
<1> DEFINE o == 0
           q == n + 1
<1>9. Includes(c, l, b, f, o)
  <2>1. \A j \in 1..(n + 1) : o + j \in DOMAIN l /\ l[o + j] = f[j]
    BY <1>2, <1>8
  <2>2. \A j \in 1..n : c[o + j] = b[j]
    BY <1>2, <1>5, <1>6
  <2>3. QED
    BY <2>1, <2>2 DEF Includes, n
<1>10. Includes(c, l, d, h, q)
  BY <1>6, <1>8 DEF Includes, p
<1>11. \A j \in 1..n : Leads(c[j], j, l, x)
  <2>1. o \in Nat /\ \A j \in 1..n : o + j = j
    BY <1>2
  <2> HIDE DEF o
  <2>2. \A j \in 1..Len(b) : Leads(c[o + j], o + j, l, x)
    BY <1>1, <1>9, <2>1, ContainedLeads
  <2>3. QED
    BY <2>1, <2>2 DEF n
<1>12. \A j \in 1..p : Leads(c[q + j], q + j, l, x)
  <2>1. q \in Nat
    BY <1>2
  <2> HIDE DEF q
  <2>2. \A j \in 1..Len(d) : Leads(c[q + j], q + j, l, x)
    BY <1>1, <1>10, <2>1, ContainedLeads
  <2>3. QED
    BY <2>2 DEF p
<1>13. Leads(c[n + 1], n + 1, l, x)
  <2>1. n + 1 \in 1..(n + 1) /\ 1 \in 1..(p + 1) /\ p + 1 \in 1..(p + 1)
        /\ (n + 1) + 1 + Arg(g) = n + 1 + (p + 1) /\ n + 1 + 1 = (n + 1) + 1
    BY <1>2, <1>4
  <2>2. /\ l[n + 1] = Plain(m, w) /\ l[n + 1 + 1] = Plain(m, z)
        /\ l[n + 1 + (p + 1)] = Plain(m, w) /\ n + 1 + (p + 1) \in DOMAIN l
    BY <1>1, <1>8, <2>1
  <2>3. c[n + 1] = g
    BY <1>5, <1>6, <2>1
  <2> DEFINE here == Plain(m, w)
             next == Plain(m, z)
  <2>4. /\ here.depth = m /\ here.yes = w /\ here.no = w /\ next.depth = m
    BY DEF Plain
  <2> HIDE DEF here, next
  <2>5. Jumps(g, here, next, here, x)
    BY <1>4, <2>4 DEF Jumps, Skips, Balanced, zero, goto
  <2>6. QED
    BY <2>1, <2>2, <2>3, <2>5 DEF Leads, here, next
<1>14. ASSUME NEW i \in 1..Len(c)
       PROVE  Leads(c[i], i, l, x)
  <2>1. CASE i <= n
    BY <1>2, <1>11, <2>1
  <2>2. CASE i = n + 1
    BY <1>13, <2>2
  <2>3. CASE i > n + 1
    <3>1. i - q \in 1..p /\ q + (i - q) = i
      BY <1>2, <1>6, <2>3
    <3> HIDE DEF q
    <3>2. QED
      BY <1>12, <3>1
  <2>4. i <= n \/ i = n + 1 \/ i > n + 1
    BY <1>2
  <2>5. QED
    BY <2>1, <2>2, <2>3, <2>4
<1>15. Len(c) + 1 = n + p + 2 /\ 1 \in 1..(n + 1) /\ p + 1 \in 1..(p + 1) /\ n + 1 + (p + 1) = n + p + 2
       /\ 1 \in 1..(p + 1)
  BY <1>2, <1>6
<1>16. Labelled(c, l, x)
  BY <1>8, <1>14, <1>15 DEF Labelled
<1>17. l[1] = Plain(m, y) /\ l[Len(c) + 1] = Plain(m, w) /\ l[n + 1 + 1] = Plain(m, z)
  <2>1. n + p + 2 = n + 1 + (p + 1)
    BY <1>15
  <2>2. QED
    BY <1>1, <1>8, <1>15, <2>1
<1>18. Piece(c, l, Plain(m, y), Plain(m, w), x) /\ l[Len(bg) + 1] = Plain(m, z)
  BY <1>5, <1>6, <1>16, <1>17 DEF Piece
<1>19. QED
  BY <1>4, <1>18 DEF c, bg, p

\* With an else-block, it executes its test and one of its blocks.
LEMMA IfElseRuns ==
  ASSUME NEW x \in BOOLEAN, NEW e, NEW s \in St, s.kind = "ifElse", s.id \in Ids, NEW m \in Nat,
         Runs(EmitBlock(e, s.block), s.block, m, m, x),
         Runs(EmitBlock(e, s.other), s.other, m, m, x)
  PROVE  Runs(EmitIfElse(e, s), <<s>>, m, m, x)
<1> DEFINE b == EmitBlock(e, s.block)
           d == EmitBlock(e, s.other)
           g == Jump("GOTO", Len(d))
           bg == b \o g
           r == bg \o d
           t == Len(bg)
           op == "IFNE"
           hd == Head4(s.id, op, t)
           c == hd \o r
           o == <<s>>
<1>1. EmitIfElse(e, s) = (hd \o bg) \o d
  BY DEF EmitIfElse, Head4, ThenJump
<1> HIDE DEF b, d
<1>2. /\ b \in Seq(Ins) /\ s.block \in Seq(St) /\ o \in Seq(St) /\ op \in {"IFNE", "IFLE"}
      /\ d \in Seq(Ins) /\ s.other \in Seq(St)
  BY DEF Runs, b, d
<1>3. g \in Seq(Ins) /\ Len(d) \in Nat
  <2> DEFINE z == 0
             goto == "GOTO"
             p == Len(d)
  <2>1. p \in Int /\ z \in Nat /\ goto \in Ops /\ g = Instruction(goto, p, z, z) /\ p \in Nat
    BY <1>2, LenProperties DEF Ops, Jump
  <2> HIDE DEF z, goto, g
  <2>2. g = <<Made(goto, p, z, z)>> /\ Made(goto, p, z, z) \in Ins
    BY <2>1, MadeTyped
  <2>3. QED
    BY <2>1, <2>2
<1> HIDE DEF g
<1>4. bg \in Seq(Ins) /\ Len(bg) \in Nat
  BY <1>2, <1>3, ConcatProperties, LenProperties
<1> HIDE DEF bg
<1>5. r \in Seq(Ins) /\ Len(r) = t + Len(d) /\ t \in Nat
  BY <1>2, <1>4, ConcatProperties
<1> HIDE DEF op
<1>6. hd \in Seq(Ins) /\ c = (hd \o bg) \o d
  <2>1. hd \in Seq(Ins)
    BY <1>2, <1>5, HeadCode
  <2>2. bg \in Seq(Ins)
    BY <1>4
  <2>3. d \in Seq(Ins)
    BY <1>2
  <2> HIDE DEF hd
  <2>4. (hd \o bg) \o d = hd \o (bg \o d)
    BY <2>1, <2>2, <2>3, ConcatAssociative
  <2>5. QED
    BY <2>1, <2>4
<1> HIDE DEF r
<1>7. c \in Seq(Ins) /\ Len(c) = 4 + Len(r)
  BY <1>2, <1>5, HeadAndRest
<1> HIDE DEF c, o
<1>8. ASSUME Len(c) <= Max32, NEW k \in Seq(St)
      PROVE  \E l : Piece(c, l, Plain(m, Visible(o \o k)), Plain(m, Visible(k)), x)
  <2> DEFINE todo == o \o k
             y == Visible(s.block \o k)
             z == Visible(s.other \o k)
             w == Visible(k)
  <2>1. Visible(todo) = todo
    BY TestEvents DEF o
  <2>2. y \in Seq(St) /\ z \in Seq(St) /\ w \in Seq(St)
    BY <1>2, VisibleLabels, SMTT(30)
  <2>3. Testing(todo, s.id, y, z)
    <3>1. s.kind \in {"if", "ifElse", "while"} /\ s.kind # "while"
      OBVIOUS
    <3>2. QED
      BY <2>2, <3>1, TestEvents DEF Testing, o
  <2>4. Len(b) <= Max32 /\ Len(d) <= Max32 /\ Len(r) <= Max32 /\ t <= Len(r)
    <3>1. Len(b) \in Nat /\ Len(g) \in Nat /\ Len(bg) = Len(b) + Len(g)
      BY <1>2, <1>3, ConcatProperties, LenProperties DEF bg
    <3>2. QED
      BY <1>3, <1>5, <1>7, <1>8, <3>1, Words
  <2>5. PICK f : Piece(b, f, Plain(m, y), Plain(m, w), x)
    BY <2>4 DEF Runs, b
  <2>6. PICK h : Piece(d, h, Plain(m, z), Plain(m, w), x)
    BY <2>4 DEF Runs, d
  <2> HIDE DEF y, z, w
  <2>7. PICK l : Piece(r, l, Plain(m, y), Plain(m, w), x) /\ l[t + 1] = Plain(m, z)
    BY <2>2, <2>4, <2>5, <2>6, ElsePiece DEF r, bg, g
  <2> HIDE DEF todo, t
  <2>8. \E a : Piece(Head4(s.id, "IFNE", t) \o r, a, Plain(m, todo), Plain(m, w), x)
    BY <1>5, <2>3, <2>4, <2>7, IfPiece
  <2>9. QED
    BY <2>1, <2>8 DEF todo, w, c, op
<1>9. Runs(c, o, m, m, x)
  BY <1>2, <1>7, <1>8 DEF Runs
<1>10. QED
  BY <1>1, <1>6, <1>9 DEF o

\* while: its GOTO leads back to the condition.
LEMMA WhilePiece ==
  ASSUME NEW x \in BOOLEAN, NEW b, NEW f, NEW id \in Ids, NEW m \in Nat, Len(b) + 5 <= Max32,
         NEW todo, NEW y, NEW z, Testing(todo, id, y, z),
         Piece(b, f, Plain(m, y), Plain(m, todo), x)
  PROVE  \E l : Piece(Head4(id, "IFLE", Len(b) + 1) \o (b \o Jump("GOTO", - Len(b) - 5)), l,
                      Plain(m, todo), Plain(m, z), x)
<1> DEFINE n == Len(b)
           back == - n - 5
           zero == 0
           goto == "GOTO"
           op == "IFLE"
           t == n + 1
           g == Made(goto, back, zero, zero)
           r == b \o <<g>>
           k == [j \in 1..(n + 2) |-> IF j <= n + 1 THEN f[j] ELSE Plain(m, z)]
           l == TestLabels(k, n + 1, m, todo, y, z)
<1>1. /\ b \in Seq(Ins) /\ Labelled(b, f, x) /\ f[1] = Plain(m, y) /\ f[n + 1] = Plain(m, todo)
  BY DEF Piece
<1>2. n \in Nat /\ todo \in Seq(St) /\ y \in Seq(St) /\ z \in Seq(St)
  BY <1>1, LenProperties DEF Testing
<1>3. f \in [1..(n + 1) -> Label] /\ Plain(m, z) \in Label
  BY <1>1, <1>2, PlainTyped DEF Labelled
<1>4. Word(back) /\ zero \in Nat /\ goto \in Ops /\ op \in {"IFNE", "IFLE"}
      /\ Jump("GOTO", - Len(b) - 5) = Instruction(goto, back, zero, zero)
  <2>1. Word(back)
    <3>1. n + 5 <= Max32
      OBVIOUS
    <3>2. QED
      BY <1>2, <3>1, SMT DEF Word, Max32
  <2>2. QED
    BY <2>1 DEF Ops, Jump
<1> HIDE DEF zero, goto, op
<1>5. /\ Instruction(goto, back, zero, zero) = <<g>> /\ g \in Ins
      /\ Op(g) = goto /\ Arg(g) = back /\ g.pops = zero /\ g.pushes = zero
  <2> HIDE DEF back
  <2>1. QED
    BY <1>4, InstructionMade
<1> HIDE DEF g
<1>6. /\ r \in Seq(Ins) /\ Len(r) = n + 1
      /\ \A i \in 1..n : r[i] = b[i]
      /\ r[n + 1] = g
  BY <1>1, <1>5, OneBehind
<1> HIDE DEF r
<1>7. /\ k \in [1..(n + 2) -> Label]
      /\ \A j \in 1..(n + 1) : k[j] = f[j]
      /\ k[n + 2] = Plain(m, z)
  <2>1. n + 2 \in 1..(n + 2) /\ ~ (n + 2 <= n + 1)
    BY <1>2
  <2>2. \A j \in 1..(n + 1) : j \in 1..(n + 2) /\ j <= n + 1
    BY <1>2
  <2>3. \A j \in 1..(n + 2) : j <= n + 1 => j \in 1..(n + 1)
    BY <1>2
  <2>4. \A j \in 1..(n + 2) : (IF j <= n + 1 THEN f[j] ELSE Plain(m, z)) \in Label
    BY <1>3, <2>3
  <2>5. QED
    BY <2>1, <2>2, <2>4
<1> HIDE DEF k
<1>8. k \in [1..(Len(r) + 1) -> Label] /\ t \in Nat /\ t <= Len(r) /\ t <= Max32
      /\ k[1] = Plain(m, y) /\ k[t + 1] = Plain(m, z) /\ k[Len(r) + 1] = Plain(m, z)
      /\ k[n + 1] = Plain(m, todo)
  <2>1. Len(r) + 1 = n + 2 /\ t + 1 = n + 2 /\ 1 \in 1..(n + 1) /\ n + 1 \in 1..(n + 1)
        /\ t \in Nat /\ t <= Len(r) /\ t <= Max32
    BY <1>2, <1>6, Words
  <2>2. QED
    BY <1>1, <1>7, <2>1
<1>9. l = TestLabels(k, Len(r), m, todo, y, z)
  BY <1>6
<1> HIDE DEF l
<1>10. \A j \in 1..n : Leads(r[j], 4 + j, l, x)
  <2>1. Len(b) <= Len(r)
    BY <1>2, <1>6
  <2>2. QED
    BY <1>1, <1>2, <1>6, <1>7, <1>8, <1>9, <2>1, BehindTest
<1>11. Leads(r[n + 1], 4 + (n + 1), l, x)
  <2>1. LabelsAre(l, k, n + 1, m, todo, y, z)
    <3> DEFINE q == n + 1
    <3>1. q \in Nat /\ k \in [1..(q + 1) -> Label]
      BY <1>2, <1>7
    <3>2. l = TestLabels(k, q, m, todo, y, z)
      BY DEF l
    <3> HIDE DEF q
    <3>3. LabelsAre(l, k, q, m, todo, y, z)
      BY <1>2, <3>1, <3>2, TestLabelsAre
    <3>4. QED
      BY <3>3 DEF q
  <2>2. /\ l \in [1..((n + 1) + 5) -> Label] /\ l[1] = Plain(m, todo)
        /\ \A j \in 1..((n + 1) + 1) : l[4 + j] = k[j]
    BY <2>1 DEF LabelsAre
  <2>3. n + 1 \in 1..((n + 1) + 1) /\ n + 2 \in 1..((n + 1) + 1) /\ 1 \in 1..((n + 1) + 5)
        /\ 4 + (n + 2) = (4 + (n + 1)) + 1
        /\ (4 + (n + 1)) + 1 + Arg(g) = 1
    BY <1>2, <1>5
  <2>4. l[4 + (n + 1)] = Plain(m, todo) /\ l[(4 + (n + 1)) + 1] = Plain(m, z) /\ 1 \in DOMAIN l
    BY <1>7, <1>8, <2>2, <2>3
  <2> DEFINE here == Plain(m, todo)
             next == Plain(m, z)
  <2>5. here.depth = m /\ here.yes = todo /\ here.no = todo /\ next.depth = m
    BY DEF Plain
  <2> HIDE DEF here, next
  <2>6. Jumps(g, here, next, here, x)
    BY <1>5, <2>5 DEF Jumps, Skips, Balanced, zero, goto
  <2>7. QED
    BY <1>6, <2>2, <2>3, <2>4, <2>6 DEF Leads, here, next
<1>12. \A j \in 1..Len(r) : Leads(r[j], 4 + j, l, x)
  <2> SUFFICES ASSUME NEW j \in 1..Len(r) PROVE Leads(r[j], 4 + j, l, x)
    OBVIOUS
  <2>1. j \in 1..n \/ j = n + 1
    BY <1>2, <1>6
  <2>2. QED
    BY <1>10, <1>11, <2>1
<1> HIDE DEF t
<1>13. \E a : Piece(Head4(id, op, t) \o r, a, Plain(m, todo), k[Len(r) + 1], x)
  BY <1>4, <1>6, <1>8, <1>9, <1>12, TestPiece
<1>14. QED
  BY <1>4, <1>5, <1>8, <1>13 DEF t, op, r

\* A while executes its test, and its block before the next.
LEMMA WhileRuns ==
  ASSUME NEW x \in BOOLEAN, NEW e, NEW s \in St, s.kind = "while", s.id \in Ids,
         NEW m \in Nat, Runs(EmitBlock(e, s.block), s.block, m, m, x)
  PROVE  Runs(EmitWhile(e, s), <<s>>, m, m, x)
<1> DEFINE b == EmitBlock(e, s.block)
           n == Len(b)
           t == n + 1
           back == - n - 5
           g == Jump("GOTO", back)
           r == b \o g
           op == "IFLE"
           hd == Head4(s.id, op, t)
           c == hd \o r
           o == <<s>>
<1>1. b \in Seq(Ins) /\ s.block \in Seq(St) /\ o \in Seq(St) /\ op \in {"IFNE", "IFLE"}
  BY DEF Runs
<1> HIDE DEF b
<1>2. n \in Nat /\ t \in Nat
  BY <1>1, LenProperties
<1>3. LoopExit(b) = t /\ LoopBack(b) = back
  <2> DEFINE z == 0
             q == 0
  <2>1. z \in Ids /\ q \in Nat /\ op \in {"IFNE", "IFLE"}
    BY Words
  <2> HIDE DEF z, q, op
  <2>2. Len(Condition(z)) = 3
    BY <2>1, HeadCode
  <2> DEFINE p == Len(Condition(z))
  <2>3. LoopExit(b) = n + 1 /\ LoopBack(b) = - (p + 1 + n) - 1
    BY DEF LoopExit, LoopBack, z
  <2> HIDE DEF p, n
  <2>4. p = 3 /\ - (p + 1 + n) - 1 = - n - 5
    BY <1>2, <2>2 DEF p
  <2>5. QED
    BY <2>3, <2>4
<1>4. EmitWhile(e, s) = (hd \o b) \o g
  BY <1>3 DEF EmitWhile, Head4, b
<1>5. g \in Seq(Ins) /\ Len(g) = 1
  <2> DEFINE z == 0
             goto == "GOTO"
  <2>1. back \in Int /\ z \in Nat /\ goto \in Ops /\ g = Instruction(goto, back, z, z)
    BY <1>2 DEF Ops, Jump
  <2> HIDE DEF z, goto, g, back
  <2>2. g = <<Made(goto, back, z, z)>> /\ Made(goto, back, z, z) \in Ins
    BY <2>1, MadeTyped
  <2>3. QED
    BY <2>2
<1> HIDE DEF g, n, op
<1>6. r \in Seq(Ins) /\ Len(r) = n + 1
  <2>1. g \in Seq(Ins) /\ Len(g) = 1
    BY <1>5
  <2>2. r \in Seq(Ins) /\ Len(r) = Len(b) + Len(g)
    BY <1>1, <2>1, ConcatProperties
  <2>3. QED
    BY <2>1, <2>2 DEF n
<1>7. hd \in Seq(Ins) /\ c = (hd \o b) \o g
  <2>1. hd \in Seq(Ins)
    BY <1>1, <1>2, HeadCode
  <2> HIDE DEF hd
  <2>2. QED
    BY <1>1, <1>5, <2>1, ConcatAssociative
<1> HIDE DEF r, t
<1>8. c \in Seq(Ins) /\ Len(c) = 4 + Len(r)
  BY <1>1, <1>2, <1>6, HeadAndRest
<1> HIDE DEF c, o
<1>9. ASSUME Len(c) <= Max32, NEW k \in Seq(St)
      PROVE  \E l : Piece(c, l, Plain(m, Visible(o \o k)), Plain(m, Visible(k)), x)
  <2> DEFINE todo == o \o k
             y == Visible(s.block \o todo)
             z == Visible(k)
  <2>1. Visible(todo) = todo /\ todo \in Seq(St)
    BY TestEvents DEF o
  <2>2. Testing(todo, s.id, y, z)
    <3>1. y \in Seq(St) /\ z \in Seq(St)
      <4> HIDE DEF todo
      <4>1. y \in Seq(St)
        BY <1>1, <2>1, VisibleLabels
      <4>2. z \in Seq(St)
        BY VisibleTyped
      <4>3. QED
        BY <4>1, <4>2
    <3>2. s.kind \in {"if", "ifElse", "while"} /\ s.kind # "ifElse"
      OBVIOUS
    <3>3. QED
      BY <2>1, <3>1, <3>2, TestEvents DEF Testing, o
  <2>3. Len(b) <= Max32 /\ Len(b) + 5 <= Max32
    BY <1>2, <1>6, <1>8, <1>9, Words DEF n
  <2> HIDE DEF todo
  <2>4. PICK f : Piece(b, f, Plain(m, y), Plain(m, Visible(todo)), x)
    BY <2>1, <2>3 DEF Runs, b
  <2>5. Piece(b, f, Plain(m, y), Plain(m, todo), x)
    BY <2>1, <2>4
  <2> HIDE DEF y, z
  <2>6. \E l : Piece(Head4(s.id, "IFLE", Len(b) + 1) \o (b \o Jump("GOTO", - Len(b) - 5)), l,
                     Plain(m, todo), Plain(m, z), x)
    BY <2>2, <2>3, <2>5, WhilePiece
  <2>7. c = Head4(s.id, "IFLE", Len(b) + 1) \o (b \o Jump("GOTO", - Len(b) - 5))
    BY DEF c, hd, r, t, n, g, op
  <2>8. QED
    BY <2>1, <2>6, <2>7 DEF todo, z
<1>10. Runs(c, o, m, m, x)
  BY <1>1, <1>8, <1>9 DEF Runs
<1>11. QED
  BY <1>4, <1>7, <1>10 DEF o

-----------------------------------------------------------------------------
(* All statements, and the bodies. *)

\* The blocks of tidy statements are tidy.
LEMMA TidyNested ==
  ASSUME NEW T, Tidy(T), NEW s \in T, s.kind \in {"if", "ifElse", "while"}
  PROVE  /\ TidyBlock(s.block, T)
         /\ s.kind = "ifElse" => TidyBlock(s.other, T)
BY DEF Tidy

\* A statement's code executes it, if that of the statements in its blocks does.
LEMMA NestedRuns ==
  ASSUME NEW x \in BOOLEAN, NEW T, Tidy(T), NEW e, Executes(e, T, x),
         NEW s \in Statement(DOMAIN e), s \in St, x => s \in T, NEW m \in Nat
  PROVE  Runs(EmitStatement(e, s), <<s>>, m, m + Left(s, x), x)
<1>1. CASE s.kind \notin {"if", "ifElse", "while"}
  BY <1>1, SimpleRuns
<1>2. CASE s.kind \in {"if", "ifElse", "while"}
  <2>1. Left(s, x) = 0 /\ m + Left(s, x) = m
    BY <1>2 DEF Left, Leaves
  <2>2. s.id \in Ids /\ s.block \in Seq(DOMAIN e)
    BY <1>2, StatementFields
  <2>3. /\ x => TidyBlock(s.block, T)
        /\ x /\ s.kind = "ifElse" => TidyBlock(s.other, T)
    BY <1>2, TidyNested
  <2>4. Runs(EmitBlock(e, s.block), s.block, m, m, x)
    BY <2>2, <2>3, BlockRuns
  <2>5. CASE s.kind = "if"
    <3>1. EmitStatement(e, s) = EmitIf(e, s)
      BY <2>5 DEF EmitStatement
    <3>2. Runs(EmitIf(e, s), <<s>>, m, m, x)
      BY <2>2, <2>4, <2>5, IfRuns
    <3>3. QED
      BY <2>1, <3>1, <3>2
  <2>6. CASE s.kind = "ifElse"
    <3>1. EmitStatement(e, s) = EmitIfElse(e, s)
      BY <2>6 DEF EmitStatement
    <3>2. s.other \in Seq(DOMAIN e) /\ (x => TidyBlock(s.other, T))
      BY <2>3, <2>6, StatementFields
    <3>3. Runs(EmitBlock(e, s.other), s.other, m, m, x)
      BY <3>2, BlockRuns
    <3>4. Runs(EmitIfElse(e, s), <<s>>, m, m, x)
      BY <2>2, <2>4, <2>6, <3>3, IfElseRuns
    <3>5. QED
      BY <2>1, <3>1, <3>4
  <2>7. CASE s.kind = "while"
    <3>1. EmitStatement(e, s) = EmitWhile(e, s)
      BY <2>7 DEF EmitStatement
    <3>2. Runs(EmitWhile(e, s), <<s>>, m, m, x)
      BY <2>2, <2>4, <2>7, WhileRuns
    <3>3. QED
      BY <2>1, <3>1, <3>2
  <2>8. QED
    BY <1>2, <2>5, <2>6, <2>7
<1>3. QED
  BY <1>1, <1>2

\* For every nesting, the emitter's code executes its statements.
LEMMA StatementsRun ==
  ASSUME NEW x \in BOOLEAN, NEW T, Tidy(T)
  PROVE  \A n \in Nat : Executes(Emit[n], T, x)
<1> DEFINE Ns == {n \in Nat : Executes(Emit[n], T, x)}
<1>1. ASSUME NEW n \in Nat, NEW e, Executes(e, T, x), Emit[n] = Nested(e)
      PROVE  Executes(Emit[n], T, x)
  <2>1. DOMAIN Emit[n] = Statement(DOMAIN e) /\ DOMAIN Emit[n] \subseteq St
    BY <1>1 DEF Nested, St
  <2>2. ASSUME NEW s \in DOMAIN Emit[n], x => s \in T, NEW m \in Nat
        PROVE  Runs(Emit[n][s], <<s>>, m, m + Left(s, x), x)
    <3>1. Emit[n][s] = EmitStatement(e, s)
      BY <1>1, <2>1 DEF Nested
    <3>2. s \in Statement(DOMAIN e) /\ s \in St
      BY <2>1
    <3>3. Runs(EmitStatement(e, s), <<s>>, m, m + Left(s, x), x)
      BY <1>1, <2>2, <3>2, NestedRuns
    <3>4. QED
      BY <3>1, <3>3
  <2>3. QED
    BY <2>1, <2>2 DEF Executes
<1>2. 0 \in Ns
  <2> DEFINE z == <<>>
  <2>1. DOMAIN z = {}
    OBVIOUS
  <2>2. Emit[0] = Nested(z)
    BY EmitIs
  <2> HIDE DEF z
  <2>3. Executes(z, T, x)
    BY <2>1 DEF Executes
  <2>4. QED
    BY <1>1, <2>2, <2>3
<1>3. ASSUME NEW n \in Nat, n \in Ns
      PROVE  n + 1 \in Ns
  <2>1. n + 1 \in Nat /\ n + 1 # 0 /\ (n + 1) - 1 = n
    OBVIOUS
  <2>2. Emit[n + 1] = Nested(Emit[n])
    BY <2>1, EmitIs
  <2>3. QED
    BY <1>1, <1>3, <2>1, <2>2
<1> HIDE DEF Ns
<1>4. Nat \subseteq Ns
  BY <1>2, <1>3, NatInductionInSets
<1>5. QED
  BY <1>4 DEF Ns

\* The code of the statements of a body, one by one.
Codes(e, stmts) == [i \in DOMAIN stmts |-> e[stmts[i]]]

\* So does the code of the statements of a body.
LEMMA CodesRun ==
  ASSUME NEW x \in BOOLEAN, NEW T, NEW e, Executes(e, T, x), NEW stmts \in Seq(DOMAIN e),
         x => stmts \in Seq(T)
  PROVE  /\ Codes(e, stmts) \in Seq(Seq(Ins)) /\ Len(Codes(e, stmts)) = Len(stmts)
         /\ EachRuns(Codes(e, stmts), stmts, Nat, x)
         /\ stmts \in Seq(St) /\ Nat \in SUBSET Nat
         /\ \A i \in 1..Len(stmts) : Codes(e, stmts)[i] = e[stmts[i]] /\ stmts[i] \in DOMAIN e
<1> DEFINE n == Len(stmts)
           f == Codes(e, stmts)
           C == Seq(Ins)
<1>1. /\ n \in Nat /\ DOMAIN stmts = 1..n /\ stmts \in Seq(St)
      /\ \A i \in 1..n : stmts[i] \in DOMAIN e /\ stmts[i] \in St /\ (x => stmts[i] \in T)
  BY LenProperties, ElementOfSeq, SeqMonotonic DEF Executes
<1>2. f = [i \in 1..n |-> e[stmts[i]]] /\ \A i \in 1..n : f[i] = e[stmts[i]]
  BY <1>1 DEF Codes
<1>3. DOMAIN f = 1..n /\ f = [i \in 1..n |-> f[i]]
  BY <1>2
<1> HIDE DEF f
<1>4. ASSUME NEW i \in 1..n, NEW m \in Nat
      PROVE  Runs(f[i], <<stmts[i]>>, m, m + Left(stmts[i], x), x) /\ m + Left(stmts[i], x) \in Nat
  <2>1. Runs(f[i], <<stmts[i]>>, m, m + Left(stmts[i], x), x)
    BY <1>1, <1>2 DEF Executes
  <2>2. QED
    BY <2>1 DEF Runs
<1>5. \A i \in 1..n : f[i] \in C
  <2> SUFFICES ASSUME NEW i \in 1..n PROVE f[i] \in C
    OBVIOUS
  <2> DEFINE z == 0
  <2>1. z \in Nat
    OBVIOUS
  <2> HIDE DEF z
  <2>2. Runs(f[i], <<stmts[i]>>, z, z + Left(stmts[i], x), x)
    BY <1>4, <2>1
  <2>3. QED
    BY <2>2 DEF Runs
<1> HIDE DEF C
<1>6. f \in Seq(C) /\ Len(f) = n
  BY <1>1, <1>3, <1>5
<1>7. EachRuns(f, stmts, Nat, x)
  BY <1>4, <1>6 DEF EachRuns
<1>8. QED
  BY <1>1, <1>2, <1>6, <1>7 DEF C, f

\* The label of what is not reached is a label.
LEMMA NeverTyped == Never \in Label /\ Never.depth = -1
<1> DEFINE z == <<>>
           m == -1
<1>1. z \in Seq(St) /\ m \in Int
  OBVIOUS
<1>2. Never = Plain(m, z)
  BY DEF Never
<1> HIDE DEF z, m
<1>3. Plain(m, z) \in Label /\ Plain(m, z).depth = m
  BY <1>1, PlainTyped
<1>4. QED
  BY <1>2, <1>3 DEF m

\* A body: with a return at its end, the place behind it is not reached.
LEMMA BodyPiece ==
  ASSUME NEW x \in BOOLEAN, NEW T, NEW e, NEW d, e = Nested(d), Executes(e, T, x),
         NEW kind \in Kind, NEW stmts \in Seq(DOMAIN e), x => stmts \in Seq(T),
         Len(EmitBody(e, kind, stmts)) <= Max32
  PROVE  \E l, last : /\ Piece(EmitBody(e, kind, stmts), l, Plain(0, Visible(stmts)), last, x)
                      /\ kind # "function" \/ EndsInReturn(stmts) => last = Never
<1> DEFINE f == Codes(e, stmts)
           c == FlattenSeq(f)
           n == Len(stmts)
           nil == <<>>
           zero == 0
           added == kind = "module" \/ (kind = "procedure" /\ ~ EndsInReturn(stmts))
<1>1. /\ f \in Seq(Seq(Ins)) /\ Len(f) = n
      /\ EachRuns(f, stmts, Nat, x) /\ stmts \in Seq(St) /\ Nat \in SUBSET Nat
      /\ \A i \in 1..n : f[i] = e[stmts[i]] /\ stmts[i] \in DOMAIN e
  <2>1. /\ f \in Seq(Seq(Ins)) /\ Len(f) = n
        /\ EachRuns(f, stmts, Nat, x) /\ stmts \in Seq(St)
    BY CodesRun
  <2>2. \A i \in 1..n : f[i] = e[stmts[i]] /\ stmts[i] \in DOMAIN e
    BY CodesRun
  <2>3. QED
    BY <2>1, <2>2
<1>2. n \in Nat /\ nil \in Seq(St) /\ zero \in Nat
  BY LenProperties
<1>3. ASSUME NEW s, s \in {ReturnStmt, ReturnExprStmt}
      PROVE  s \in DOMAIN e /\ s \in St /\ e[s] = EmitStatement(d, s)
  <2>1. DOMAIN e = Statement(DOMAIN d)
    BY DEF Nested
  <2>2. s \in Statement(DOMAIN d)
    BY <1>3 DEF Statement
  <2>3. QED
    BY <2>1, <2>2 DEF Nested, Executes
<1>4. EmitBody(e, kind, stmts) = IF added THEN c \o e[ReturnStmt] ELSE c
  BY DEF EmitBody, Codes
<1> HIDE DEF f, zero, nil
<1>5. PICK m \in Nat : Runs(c, stmts, zero, m, x)
  <2>1. Len(stmts) = Len(f)
    BY <1>1
  <2>2. \E m2 \in Nat : Runs(FlattenSeq(f), stmts, zero, m2, x)
    BY <1>1, <1>2, <2>1, SequenceRuns
  <2>3. QED
    BY <2>2
<1>6. ASSUME Len(c) <= Max32
      PROVE  \E l : Piece(c, l, Plain(zero, Visible(stmts)), Plain(m, nil), x)
  <2>1. PICK l : Piece(c, l, Plain(zero, Visible(stmts \o nil)), Plain(m, Visible(nil)), x)
    BY <1>2, <1>5, <1>6 DEF Runs
  <2>2. stmts \o nil = stmts
    BY <1>1, ConcatEmptySeq DEF nil
  <2>3. Visible(nil) = nil
    BY VisibleEmpty DEF nil
  <2>4. QED
    BY <2>1, <2>2, <2>3
<1>7. c \in Seq(Ins) /\ Len(c) \in Nat
  BY <1>5, LenProperties DEF Runs
<1>8. ASSUME NEW s, s \in {ReturnStmt, ReturnExprStmt}, NEW y \in Seq(St), Returned \in Possible(y), NEW q \in Nat
      PROVE  \E l : Piece(e[s], l, Plain(q, y), Never, x)
  <2>1. Never \in Label /\ Never.depth = -1
    BY NeverTyped
  <2>2. Never.depth <= q + 1
    BY <2>1
  <2> HIDE DEF added, c, n
  <2>3. \E l : Piece(EmitStatement(d, s), l, Plain(q, y), Never, x)
    BY <1>8, <2>1, <2>2, ReturnStatementPiece
  <2>4. QED
    BY <1>3, <1>8, <2>3
<1> HIDE DEF c, n
<1>9. CASE added
  <2>1. Returned \in Possible(nil)
    BY DEF Possible, nil
  <2> DEFINE r == ReturnStmt
  <2>2. r \in {ReturnStmt, ReturnExprStmt}
    OBVIOUS
  <2> HIDE DEF r
  <2>3. PICK h : Piece(e[r], h, Plain(m, nil), Never, x)
    BY <1>2, <1>8, <2>1, <2>2
  <2>4. e[r] \in Seq(Ins) /\ Len(e[r]) \in Nat
    BY <2>3, LenProperties DEF Piece
  <2>5. Len(c \o e[r]) = Len(c) + Len(e[r]) /\ Len(c \o e[r]) <= Max32
    BY <1>4, <1>7, <1>9, <2>4, ConcatProperties DEF r
  <2>6. Len(c) <= Max32
    BY <1>7, <2>4, <2>5, Words
  <2>7. PICK l : Piece(c, l, Plain(zero, Visible(stmts)), Plain(m, nil), x)
    BY <1>6, <2>6
  <2>8. \E k : Piece(c \o e[r], k, Plain(zero, Visible(stmts)), Never, x)
    BY <2>3, <2>7, PiecesJoin
  <2>9. QED
    BY <1>4, <1>9, <2>8 DEF r, zero
<1>10. CASE ~ added /\ EndsInReturn(stmts)
  <2> DEFINE s == Last(stmts)
             o == <<s>>
             t == SubSeq(stmts, 1, n - 1)
  <2>1. n >= 1 /\ s = stmts[n] /\ n \in 1..n
    <3>1. stmts # <<>> /\ s = stmts[n]
      BY <1>10 DEF EndsInReturn, Last, n
    <3>2. n # 0
      BY <1>1, <3>1, EmptySeq DEF n
    <3>3. QED
      BY <1>2, <3>1, <3>2
  <2>2. s.kind \in {"return", "returnExpr"}
    BY <1>10 DEF EndsInReturn
  <2>3. s \in DOMAIN e /\ s \in St /\ f[n] = e[s]
    BY <1>1, <2>1 DEF Executes
  <2>4. s \in {ReturnStmt, ReturnExprStmt}
    <3>1. s \in Statement(DOMAIN d)
      BY <2>3 DEF Nested
    <3> HIDE DEF s
    <3>2. s \in {AssignStmt, ExprStmt, ReturnStmt, ReturnExprStmt}
      BY <2>2, <3>1, StatementFields
    <3>3. QED
      BY <2>2, <3>2 DEF AssignStmt, ExprStmt
  <2>5. stmts = t \o o
    <3> DEFINE one == 1
    <3>1. one \in 1..Len(stmts) /\ n \in one..Len(stmts)
      BY <1>2, <2>1 DEF n
    <3>2. SubSeq(stmts, one, Len(stmts)) = stmts
      BY <1>1, SubSeqFull
    <3> HIDE DEF one
    <3>3. SubSeq(stmts, one, n) = SubSeq(stmts, one, n - 1) \o <<stmts[n]>>
      BY <1>1, <3>1, SubSeqRecursiveSecond
    <3>4. QED
      BY <2>1, <3>2, <3>3 DEF one, n
  <2> HIDE DEF s
  <2>6. o \in Seq(St) /\ Visible(o) = o /\ Returned \in Possible(o)
    <3>1. Visible(<<s>> \o nil) = <<s>> \o nil /\ Returned \in Possible(<<s>> \o nil)
      BY <1>2, <2>2, <2>3, ReturnEvents
    <3>2. o \in Seq(St) /\ <<s>> = o
      BY <2>3
    <3> HIDE DEF o
    <3>3. o \o nil = o
      BY <3>2, ConcatEmptySeq DEF nil
    <3>4. QED
      BY <3>1, <3>2, <3>3
  <2> HIDE DEF o
  <2>7. PICK g : Joins(g, f, Ins)
    BY <1>1, JoinsExist
  <2>8. c = g[n] /\ g[n] = g[n - 1] \o f[n] /\ n - 1 \in 0..Len(f)
    <3>1. FlattenSeq(f) = g[Len(f)]
      BY <1>1, <2>7, FlattenSeqJoins
    <3>2. n \in 1..Len(f) /\ n - 1 \in 0..Len(f) /\ c = g[n]
      BY <1>1, <1>2, <2>1, <3>1 DEF c
    <3>3. \A j \in 1..Len(f) : g[j] = g[j - 1] \o f[j]
      BY <2>7 DEF Joins
    <3>4. QED
      BY <3>2, <3>3
  <2>9. PrefixRuns(g[n - 1], stmts, n - 1, Nat, x)
    <3>1. Len(stmts) = Len(f)
      BY <1>1 DEF n
    <3>2. \A j \in 0..Len(f) : PrefixRuns(g[j], stmts, j, Nat, x)
      BY <1>1, <2>7, <3>1, PrefixesRun
    <3>3. QED
      BY <2>8, <3>2
  <2>10. PICK q \in Nat : Runs(g[n - 1], t, zero, q, x)
    BY <1>2, <2>9 DEF PrefixRuns
  <2> HIDE DEF t
  <2>11. PICK h : Piece(e[s], h, Plain(q, o), Never, x)
    BY <1>8, <2>4, <2>6
  <2> DEFINE b == g[n - 1]
  <2>12. Len(b) <= Max32 /\ c = b \o e[s]
    <3>1. b \in Seq(Ins) /\ e[s] \in Seq(Ins)
      BY <2>10, <2>11 DEF Runs, Piece
    <3>2. c = b \o e[s]
      BY <2>3, <2>8
    <3>3. Len(c) <= Max32
      BY <1>4, <1>10
    <3> HIDE DEF b
    <3>4. Len(c) = Len(b) + Len(e[s]) /\ Len(b) \in Nat /\ Len(e[s]) \in Nat
      BY <3>1, <3>2, ConcatProperties, LenProperties
    <3>5. QED
      BY <3>2, <3>3, <3>4, Words
  <2>13. PICK l : Piece(b, l, Plain(zero, Visible(t \o o)), Plain(q, Visible(o)), x)
    BY <2>6, <2>10, <2>12 DEF Runs
  <2> HIDE DEF b
  <2>14. \E k : Piece(b \o e[s], k, Plain(zero, Visible(stmts)), Never, x)
    BY <2>5, <2>6, <2>11, <2>13, PiecesJoin
  <2>15. QED
    BY <1>4, <1>10, <2>12, <2>14 DEF zero
<1>11. CASE ~ added /\ ~ EndsInReturn(stmts)
  <2>1. kind = "function"
    BY <1>11 DEF Kind
  <2>2. \E l : Piece(c, l, Plain(zero, Visible(stmts)), Plain(m, nil), x)
    BY <1>4, <1>6, <1>11
  <2>3. QED
    BY <1>4, <1>11, <2>1, <2>2 DEF zero
<1>12. QED
  BY <1>9, <1>10, <1>11

-----------------------------------------------------------------------------
(* The invariant: labels that the interpreter follows. With y, nothing gets *)
(* behind the end of the code.                                              *)

Labels(l, x, y) ==
  /\ Follows(l, x)
  /\ l[1].depth = 0
  /\ y => l[Len(code) + 1] = Never

Inv(x, y) == Machine /\ \E l : Labels(l, x, y)

\* The code of a body has labels, and the interpreter begins at the first.
LEMMA InitLabels ==
  ASSUME NEW x \in BOOLEAN, NEW y \in BOOLEAN, NEW T, Tidy(T), x => BodiesFrom(T),
         y => FunctionsReturn, Init
  PROVE  Inv(x, y)
<1> DEFINE e == Emit[Nesting]
<1>1. PICK b \in Sources :
        /\ code = CodeOf(b) /\ rest = Visible(b.stmts) /\ cp = 1 /\ operands = <<>>
        /\ tests = 0 /\ seen = Started /\ depths = [i \in DOMAIN code |-> -1]
  BY DEF Init
<1>2. Nesting \in Nat /\ MaxTests \in Nat /\ b.kind \in Kind /\ b.stmts \in Seq(DOMAIN e)
  <2> HIDE DEF e
  <2>1. QED
    BY SourcesAssumption, SMT DEF e
<1>3. Len(CodeOf(b)) <= Max32
  BY SourcesAssumption, SMT DEF Max32
<1>4. \E d : e = Nested(d)
  BY <1>2, EmitIs
<1>5. PICK d : e = Nested(d)
  BY <1>4
<1>6. Executes(e, T, x)
  BY <1>2, StatementsRun
<1>7. CodeOf(b) = EmitBody(e, b.kind, b.stmts)
  BY DEF CodeOf
<1>8. x => b.stmts \in Seq(T)
  BY DEF BodiesFrom
<1> HIDE DEF e
<1>9. PICK l, last : /\ Piece(code, l, Plain(0, Visible(b.stmts)), last, x)
                     /\ b.kind # "function" \/ EndsInReturn(b.stmts) => last = Never
  BY <1>1, <1>2, <1>3, <1>5, <1>6, <1>7, <1>8, BodyPiece
<1> DEFINE n == Len(code)
           r == Visible(b.stmts)
<1>10. /\ code \in Seq(Ins) /\ Labelled(code, l, x)
       /\ l[1] = Plain(0, r) /\ l[n + 1] = last
  BY <1>9 DEF Piece
<1>11. n \in Nat /\ DOMAIN code = 1..n
  BY <1>10, LenProperties
<1> HIDE DEF n, r
<1>12. l[1].depth = 0 /\ l[1].yes = r /\ l[1].no = r
  BY <1>10 DEF Plain
<1>13. Machine
  BY <1>1, <1>2, <1>10, <1>11 DEF Machine, n
<1>14. At(l, x)
  <2>1. cp \in 1..(n + 1) /\ l[cp].depth >= 0 /\ Len(operands) = l[cp].depth
    BY <1>1, <1>11, <1>12
  <2>2. rest = r /\ cp = 1
    BY <1>1 DEF r
  <2>3. QED
    BY <1>12, <2>1, <2>2 DEF At, n
<1>15. Follows(l, x)
  <2>1. \A i \in 1..n : depths[i] = -1
    BY <1>1, <1>11
  <2>2. QED
    BY <1>10, <1>14, <2>1 DEF Follows, n
<1>16. y => l[n + 1] = Never
  BY <1>9, <1>10 DEF FunctionsReturn
<1>17. QED
  BY <1>12, <1>13, <1>15, <1>16 DEF Inv, Labels, n

\* Code is not changed while it runs.
LEMMA CodeStays ==
  ASSUME [Next]_vars
  PROVE  code' = code
<1>1. CASE UNCHANGED vars
  BY <1>1 DEF vars
<1>2. CASE Next
  BY <1>2 DEF Next, Straight, Compare, Goto, IfNe, IfLe, Invoke, Return, Execute
<1>3. QED
  BY <1>1, <1>2

\* Every step follows the labels, and is one of the statements' or unseen.
LEMMA StepLabels ==
  ASSUME NEW x \in BOOLEAN, NEW y \in BOOLEAN, Inv(x, y), [Next]_vars
  PROVE  Inv(x, y)' /\ ((Seems /\ Running) \/ UNCHANGED <<rest, seen>>)
<1>1. Machine
  BY DEF Inv
<1>2. PICK l : Labels(l, x, y)
  BY DEF Inv
<1>3. Machine' /\ Follows(l, x)' /\ ((Seems /\ Running) \/ UNCHANGED <<rest, seen>>)
  BY <1>1, <1>2, StepFollows DEF Labels
<1>4. code' = code
  BY CodeStays
<1>5. Labels(l, x, y)'
  BY <1>2, <1>3, <1>4 DEF Labels
<1>6. QED
  BY <1>3, <1>5 DEF Inv

\* The labels say that there are never more operands than instructions before.
LEMMA DepthsAreBounded ==
  ASSUME NEW l, NEW x \in BOOLEAN, NEW y \in BOOLEAN, Machine, Labels(l, x, y)
  PROVE  \A i \in 1..(Len(code) + 1) : l[i].depth <= i - 1
<1> DEFINE n == Len(code)
           Is == {i \in Nat : i <= n => l[i + 1].depth <= i}
<1>1. n \in Nat /\ l \in [1..(n + 1) -> Label] /\ l[1].depth = 0
      /\ \A i \in 1..n : Leads(code[i], i, l, x)
  BY LenProperties DEF Machine, Labels, Follows, Labelled
<1>2. 0 \in Is
  BY <1>1
<1>3. ASSUME NEW i \in Nat, i \in Is
      PROVE  i + 1 \in Is
  <2> SUFFICES ASSUME i + 1 <= n PROVE l[(i + 1) + 1].depth <= i + 1
    OBVIOUS
  <2>1. i + 1 \in 1..n /\ i + 1 \in 1..(n + 1) /\ (i + 1) + 1 \in 1..(n + 1) /\ i <= n
    BY <1>1
  <2>2. l[i + 1].depth <= i
    BY <1>3, <2>1
  <2>3. l[i + 1].depth \in Int /\ l[(i + 1) + 1].depth \in Int
    <3>1. l[i + 1] \in Label /\ l[(i + 1) + 1] \in Label
      BY <1>1, <2>1
    <3>2. QED
      BY <3>1 DEF Label
  <2>4. l[(i + 1) + 1].depth <= l[i + 1].depth + 1
    <3>1. Leads(code[i + 1], i + 1, l, x)
      BY <1>1, <2>1
    <3>2. QED
      BY <3>1 DEF Leads, Falls, Jumps
  <2>5. QED
    BY <2>2, <2>3, <2>4
<1> HIDE DEF Is
<1>4. Nat \subseteq Is
  BY <1>2, <1>3, NatInductionInSets
<1>5. ASSUME NEW i \in 1..(n + 1)
      PROVE  l[i].depth <= i - 1
  <2>1. i - 1 \in Nat /\ i - 1 <= n /\ (i - 1) + 1 = i
    BY <1>1
  <2>2. i - 1 \in Is
    BY <1>4, <2>1
  <2>3. l[(i - 1) + 1].depth <= i - 1
    BY <2>1, <2>2 DEF Is
  <2>4. QED
    BY <2>1, <2>3
<1>6. QED
  BY <1>5

\* Where depths are not exact, no statement has to be tidy.
LEMMA NothingIsTidy == Tidy({})
BY DEF Tidy

-----------------------------------------------------------------------------
(* The properties. *)

\* The specification's statements are those of this module.
LEMMA SameStatements ==
  /\ \A t : Structured!Visible(t) = Visible(t)
  /\ \A t : Structured!Possible(t) = Possible(t)
  /\ \A t, event : Structured!After(t, event) = After(t, event)
  /\ Structured!Started = Started /\ Structured!Returned = Returned
<1>1. \A t : Structured!Visible(t) = Visible(t)
  BY DEF Structured!Visible, Visible, Structured!Silent, Silent, Structured!Min, Min
<1>2. Structured!Started = Started /\ Structured!Returned = Returned
  BY DEF Structured!Started, Started, Structured!Returned, Returned, Structured!Event, Event
<1>3. \A t : Structured!Possible(t) = Possible(t)
  BY DEF Structured!Possible, Possible, Structured!Returned, Returned, Structured!Event, Event
<1>4. \A t, event : Structured!After(t, event) = After(t, event)
  BY <1>1, <1>2, <1>3 DEF Structured!After, After
<1>5. QED
  BY <1>1, <1>2, <1>3, <1>4

\* The interpreter running the code of a body makes the calls and the tests of
\* its statements, in their order, and returns when they do: for all bodies,
\* however their ifs and loops are nested.
THEOREM CodeFollowsStatements == Spec => ImplementsStatements
<1> DEFINE x == FALSE
<1>1. x \in BOOLEAN /\ ~ x
  OBVIOUS
<1> HIDE DEF x
<1>2. Init => Inv(x, x)
  BY <1>1, NothingIsTidy, InitLabels
<1>3. Init => Structured!Init
  <2> SUFFICES ASSUME Init PROVE Structured!Init
    OBVIOUS
  <2>1. PICK b \in Sources : rest = Visible(b.stmts) /\ seen = Started
    BY DEF Init
  <2>2. b.stmts \in {a.stmts : a \in Sources}
    OBVIOUS
  <2>3. QED
    BY <2>1, <2>2, SameStatements DEF Structured!Init
<1>4. Inv(x, x) /\ [Next]_vars => [Structured!Next]_<<rest, seen>>
  <2> SUFFICES ASSUME Inv(x, x), [Next]_vars PROVE Structured!Next \/ UNCHANGED <<rest, seen>>
    OBVIOUS
  <2>1. (Seems /\ Running) \/ UNCHANGED <<rest, seen>>
    BY <1>1, StepLabels
  <2>2. CASE UNCHANGED <<rest, seen>>
    BY <2>2
  <2>3. CASE Running /\ \E e \in Possible(rest) : seen' = e /\ rest' = After(rest, e)
    <3>1. seen # Structured!Returned
      BY <2>3, SameStatements DEF Running
    <3>2. \E e \in Structured!Possible(rest) : seen' = e /\ rest' = Structured!After(rest, e)
      BY <2>3, SameStatements
    <3>3. QED
      BY <3>1, <3>2 DEF Structured!Next
  <2>4. QED
    BY <2>1, <2>2, <2>3 DEF Seems
<1>5. Inv(x, x) /\ [Next]_vars => Inv(x, x)'
  BY <1>1, StepLabels
<1>6. QED
  BY <1>2, <1>3, <1>4, <1>5, PTL DEF Spec, ImplementsStatements, Structured!Spec

\* The interpreter stays in the code of a body whose end is a return: of a module,
\* of a function without a result, and of one with a result that ends in a return
\* statement.
THEOREM CodeIsNotLeft ==
  ASSUME FunctionsReturn
  PROVE  Spec => []WithinCode
<1> DEFINE x == FALSE
           y == TRUE
<1>1. x \in BOOLEAN /\ ~ x /\ y \in BOOLEAN /\ y
  OBVIOUS
<1> HIDE DEF x, y
<1>2. Init => Inv(x, y)
  BY <1>1, NothingIsTidy, InitLabels
<1>3. Inv(x, y) => WithinCode
  <2> SUFFICES ASSUME Inv(x, y), Running PROVE cp \in DOMAIN code
    BY DEF WithinCode
  <2>1. PICK l : Labels(l, x, y)
    BY DEF Inv
  <2>2. code \in Seq(Ins) /\ Len(code) \in Nat /\ DOMAIN code = 1..Len(code)
    BY LenProperties DEF Inv, Machine
  <2>3. cp \in 1..(Len(code) + 1) /\ l[cp].depth >= 0
    BY <2>1 DEF Labels, Follows, At
  <2>4. l[Len(code) + 1].depth = -1
    BY <1>1, <2>1, NeverTyped DEF Labels
  <2>5. QED
    BY <2>2, <2>3, <2>4
<1>4. Inv(x, y) /\ [Next]_vars => Inv(x, y)'
  BY <1>1, StepLabels
<1>5. QED
  BY <1>2, <1>3, <1>4, PTL DEF Spec

\* An instruction finds the same number of operands whenever it is executed, if no
\* block has a statement that leaves one: no expression statement, and no call of a
\* member whose result nobody takes.
THEOREM OperandsAreBalanced ==
  ASSUME NEW T, Tidy(T), BodiesFrom(T)
  PROVE  Spec => []DepthIsStatic
<1> DEFINE x == TRUE
           y == FALSE
<1>1. x \in BOOLEAN /\ x /\ y \in BOOLEAN /\ ~ y
  OBVIOUS
<1> HIDE DEF x, y
<1>2. Init => Inv(x, y)
  BY <1>1, InitLabels
<1>3. Inv(x, y) => DepthIsStatic
  <2> SUFFICES ASSUME Inv(x, y), Running, cp \in DOMAIN code
               PROVE  depths[cp] \in {-1, Len(operands)}
    BY DEF DepthIsStatic, WithinCode
  <2>1. PICK l : Labels(l, x, y)
    BY DEF Inv
  <2>2. cp \in 1..Len(code)
    BY LenProperties DEF Inv, Machine
  <2>3. Len(operands) = l[cp].depth /\ (depths[cp] = -1 \/ depths[cp] = l[cp].depth)
    BY <1>1, <2>1, <2>2 DEF Labels, Follows, At
  <2>4. QED
    BY <2>3
<1>4. Inv(x, y) /\ [Next]_vars => Inv(x, y)'
  BY <1>1, StepLabels
<1>5. QED
  BY <1>2, <1>3, <1>4, PTL DEF Spec

\* The machine keeps its types, for those bodies: there are never more operands
\* than instructions.
THEOREM ControlFlowTypes ==
  ASSUME NEW T, Tidy(T), BodiesFrom(T)
  PROVE  Spec => []TypeOK
<1> DEFINE x == TRUE
           y == FALSE
<1>1. x \in BOOLEAN /\ x /\ y \in BOOLEAN /\ ~ y
  OBVIOUS
<1> HIDE DEF x, y
<1>2. Init => Inv(x, y)
  BY <1>1, InitLabels
<1>3. Inv(x, y) => TypeOK
  <2> SUFFICES ASSUME Inv(x, y) PROVE TypeOK
    OBVIOUS
  <2> DEFINE n == Len(code)
  <2>1. PICK l : Labels(l, x, y)
    BY DEF Inv
  <2>2. /\ code \in Seq(Ins) /\ cp \in Nat /\ operands \in Seq({0, 1}) /\ tests \in 0..MaxTests
        /\ depths \in [1..n -> Nat \union {-1}]
    BY DEF Inv, Machine
  <2>3. n \in Nat /\ DOMAIN code = 1..n
    BY <2>2, LenProperties
  <2>4. \A i \in 1..(n + 1) : l[i].depth <= i - 1
    BY <1>1, <2>1, DepthsAreBounded DEF Inv
  <2>5. \A i \in 1..n : depths[i] = -1 \/ depths[i] = l[i].depth
    BY <1>1, <2>1 DEF Labels, Follows
  <2> HIDE DEF n
  <2>6. ASSUME NEW i \in 1..n
        PROVE  depths[i] \in -1..n
    <3>1. depths[i] \in Nat \union {-1}
      BY <2>2
    <3>2. CASE depths[i] = -1
      BY <2>3, <3>2
    <3>3. CASE depths[i] \in Nat /\ depths[i] = l[i].depth
      <4>1. l[i].depth <= i - 1
        BY <2>3, <2>4
      <4>2. QED
        BY <2>3, <3>3, <4>1
    <3>4. QED
      BY <2>5, <3>1, <3>2, <3>3
  <2>7. depths \in [DOMAIN code -> -1..n]
    BY <2>2, <2>3, <2>6
  <2>8. QED
    BY <2>2, <2>7 DEF TypeOK, n
<1>4. Inv(x, y) /\ [Next]_vars => Inv(x, y)'
  BY <1>1, StepLabels
<1>5. QED
  BY <1>2, <1>3, <1>4, PTL DEF Spec
=============================================================================

--------------------------- MODULE FlattenProofs ----------------------------
(***************************************************************************)
(* For every expression, the flattening never takes from an empty deque    *)
(* and never runs off the nodes, and what it returns is the postfix order  *)
(* of the expression under the two priorities.                             *)
(***************************************************************************)
EXTENDS Flatten, Induction, SequenceTheorems

\* A sequence with an element behind it.
LEMMA Extended ==
  ASSUME NEW S, NEW s \in Seq(S), NEW e \in S, NEW u, u = Append(s, e), NEW m, m = Len(s)
  PROVE  /\ u \in Seq(S) /\ Len(u) = m + 1 /\ u[m + 1] = e
         /\ \A j \in 1..m : u[j] = s[j]
  BY AppendProperties

\* Removing the first or the last element of a nonempty sequence.
LEMMA Shortened ==
  ASSUME NEW S, NEW s \in Seq(S), s # <<>>
  PROVE  /\ Len(s) \in Nat \ {0}
         /\ Head(s) \in S
         /\ Tail(s) \in Seq(S)
         /\ Len(Tail(s)) = Len(s) - 1
         /\ Last(s) \in S
         /\ Front(s) \in Seq(S)
         /\ Len(Front(s)) = Len(s) - 1
<1>1. Len(s) \in Nat \ {0}
  BY EmptySeq
<1>2. Head(s) \in S /\ Tail(s) \in Seq(S) /\ Len(Tail(s)) = Len(s) - 1
  BY HeadTailProperties
<1>3. s[Len(s)] \in S
  BY <1>1, ElementOfSeq
<1> DEFINE m == Len(s) - 1
<1>4. m \in Nat /\ m <= Len(s) /\ \A i \in 1..m : s[i] \in S
  BY <1>1, ElementOfSeq
<1> HIDE DEF m
<1>5. SubSeq(s, 1, m) \in Seq(S) /\ Len(SubSeq(s, 1, m)) = m
  <2>1. /\ SubSeq(s, 1, m) \in Seq(S)
        /\ Len(SubSeq(s, 1, m)) = IF 1 <= m THEN m - 1 + 1 ELSE 0
    BY <1>1, <1>4, SubSeqProperties
  <2>2. QED
    BY <1>4, <2>1
<1>6. QED
  BY <1>1, <1>2, <1>3, <1>5 DEF Last, Front, m

\* The deques are empty at the beginning.
LEMMA InitInv == Init => IndInv
<1> SUFFICES ASSUME Init PROVE IndInv
  OBVIOUS
<1>1. PICK e \in Exprs : prefix = e.prefix /\ binaries = e.binaries
  BY DEF Init
<1>2. prefix \in Operands /\ binaries \in Seq(Binary)
  BY <1>1, Expressions
<1>3. TypeOK
  BY <1>2 DEF Init, TypeOK
<1>4. QED
  BY <1>3 DEF Init, IndInv, DequesBalanced

\* What the nodes are when the loop starts.
LEMMA FlatNodes ==
  ASSUME IndInv, Flat, phase' = "flat"
  PROVE  nodes' \in Seq(Symbol) /\ Alternating' /\ nodes' # <<>>
<1> DEFINE n == Len(binaries)
           Node(i) == IF i = 1 THEN prefix
                      ELSE IF i % 2 = 0 THEN binaries[i \div 2].op
                      ELSE binaries[i \div 2].expr
<1>1. /\ n \in Nat
      /\ prefix \in Operands
      /\ \A b \in 1..n : binaries[b] \in Binary /\ binaries[b].op # "="
  <2>1. binaries \in Seq(Binary) /\ prefix \in Operands
    BY DEF IndInv, TypeOK
  <2>2. ~ \E b \in DOMAIN binaries : binaries[b].op = "="
    BY DEF Flat, Return
  <2>3. QED
    BY <2>1, <2>2, ElementOfSeq, LenProperties
<1>2. \A b \in 1..n : binaries[b].op \in Op /\ binaries[b].expr \in Operands
  BY <1>1 DEF Binary
<1>3. nodes' = [i \in 1..(2 * n + 1) |-> Node(i)]
  BY DEF Flat, Return
<1>4. \A i \in 1..(2 * n + 1) : Node(i) \in IF i % 2 = 1 THEN Operands ELSE Op
  <2> SUFFICES ASSUME NEW i \in 1..(2 * n + 1)
               PROVE  Node(i) \in IF i % 2 = 1 THEN Operands ELSE Op
    OBVIOUS
  <2>1. CASE i = 1
    BY <2>1, <1>1
  <2>2. CASE i # 1
    <3>1. i \div 2 \in 1..n
      BY <1>1, <2>2
    <3>2. QED
      BY <1>2, <2>2, <3>1
  <2>3. QED
    BY <2>1, <2>2
<1> HIDE DEF Node
<1>5. nodes' \in Seq(Symbol) /\ Len(nodes') = 2 * n + 1 /\ DOMAIN nodes' = 1..(2 * n + 1)
  <2>1. 2 * n + 1 \in Nat
    BY <1>1
  <2>2. \A i \in 1..(2 * n + 1) : Node(i) \in Symbol
    BY <1>4 DEF Symbol
  <2>3. QED
    BY <1>3, <2>1, <2>2, LenProperties
<1>6. (2 * n + 1) % 2 = 1 /\ 2 * n + 1 # 0
  BY <1>1
<1>7. QED
  BY <1>3, <1>4, <1>5, <1>6, EmptySeq DEF Alternating

\* What the loop knows of the node it is at.
LEMMA LoopFacts ==
  ASSUME IndInv, phase = "flat"
  PROVE  /\ nodes \in Seq(Symbol) /\ temps \in Seq(Seq(Symbol)) /\ operators \in Seq(LowOp)
         /\ Len(nodes) \in Nat /\ Len(nodes) % 2 = 1
         /\ Len(temps) \in Nat /\ Len(operators) \in Nat
         /\ iterator \in Nat /\ iterator <= Len(nodes) + 1
         /\ iterator % 2 = 0 => Len(temps) = Len(operators) + 1
         /\ iterator % 2 = 1 => Len(temps) = Len(operators)
         /\ DOMAIN nodes = 1..Len(nodes)
         /\ \A i \in DOMAIN nodes :
              /\ nodes[i] \in Symbol
              /\ nodes[i] \in Operands => i % 2 = 1
              /\ nodes[i] \in Op => i % 2 = 0
              /\ i % 2 = 1 => nodes[i] \in Operands
<1>1. /\ nodes \in Seq(Symbol) /\ temps \in Seq(Seq(Symbol)) /\ operators \in Seq(LowOp)
      /\ iterator \in Nat
  BY DEF IndInv, TypeOK
<1>2. /\ Alternating
      /\ iterator \in 1..(Len(nodes) + 1)
      /\ Len(temps) = Len(operators) + (IF iterator % 2 = 0 THEN 1 ELSE 0)
  BY DEF IndInv, DequesBalanced
<1>3. /\ Len(nodes) \in Nat /\ Len(temps) \in Nat /\ Len(operators) \in Nat
      /\ DOMAIN nodes = 1..Len(nodes)
  BY <1>1, LenProperties
<1>4. \A i \in DOMAIN nodes : nodes[i] \in Symbol
  BY <1>1, <1>3, ElementOfSeq
<1>5. \A i \in DOMAIN nodes : i % 2 = 0 \/ i % 2 = 1
  BY <1>3
<1>6. \A i \in DOMAIN nodes :
        (i % 2 = 1 => nodes[i] \in Operands) /\ (i % 2 # 1 => nodes[i] \in Op)
  BY <1>2 DEF Alternating
<1>7. \A x : ~ (x \in Operands /\ x \in Op)
  BY Expressions
<1>8. \A i \in DOMAIN nodes : /\ nodes[i] \in Operands => i % 2 = 1
                              /\ nodes[i] \in Op => i % 2 = 0
  BY <1>5, <1>6, <1>7
<1>9. Len(nodes) % 2 = 1
  BY <1>2 DEF Alternating
<1>10. iterator <= Len(nodes) + 1 /\ (iterator % 2 = 0 \/ iterator % 2 = 1)
  BY <1>1, <1>2, <1>3
<1>11. QED
  BY <1>1, <1>2, <1>3, <1>4, <1>6, <1>8, <1>9, <1>10

\* An operator of high priority is between two operands, and the deque holds the
\* left one.
LEMMA HighOperator ==
  ASSUME IndInv, At(HighOp)
  PROVE  /\ temps # <<>>
         /\ iterator % 2 = 0
         /\ iterator + 1 \in DOMAIN nodes
         /\ nodes[iterator + 1] \in Operands
<1>1. phase = "flat" /\ iterator \in DOMAIN nodes /\ nodes[iterator] \in Op
  BY DEF At, Op
<1>2. iterator % 2 = 0
  BY <1>1, LoopFacts
<1>3. Len(temps) > 0
  BY <1>1, <1>2, LoopFacts
<1>4. iterator + 1 <= Len(nodes) /\ (iterator + 1) % 2 = 1
  <2>1. iterator \in Nat /\ Len(nodes) \in Nat /\ iterator <= Len(nodes) /\ Len(nodes) % 2 = 1
    BY <1>1, LoopFacts
  <2>2. QED
    BY <1>2, <2>1
<1>5. iterator + 1 \in DOMAIN nodes
  BY <1>1, <1>4, LoopFacts
<1>6. nodes[iterator + 1] \in Operands
  BY <1>1, <1>4, <1>5, LoopFacts
<1>7. temps # <<>>
  BY <1>3, EmptySeq
<1>8. QED
  BY <1>2, <1>5, <1>6, <1>7

-----------------------------------------------------------------------------
\* The list that is made of the prefix and the binaries alternates.
LEMMA FlatStep ==
  ASSUME IndInv, Flat
  PROVE  IndInv'
<1>1. /\ phase = "visit" /\ temps = <<>> /\ operators = <<>> /\ iterator = 1
      /\ UNCHANGED <<prefix, binaries, iterator, temps, operators, result>>
  BY DEF Flat, Return, IndInv, DequesBalanced
<1>2. CASE phase' = "error"
  <2>1. UNCHANGED nodes
    BY <1>2 DEF Flat, Return
  <2>2. QED
    BY <1>1, <1>2, <2>1 DEF IndInv, TypeOK, DequesBalanced
<1>3. CASE phase' = "flat"
  <2>1. nodes' \in Seq(Symbol) /\ Alternating' /\ nodes' # <<>>
    BY <1>3, FlatNodes
  <2>2. Len(nodes') \in Nat
    BY <2>1, LenProperties
  <2>3. TypeOK'
    BY <1>1, <1>3, <2>1 DEF IndInv, TypeOK
  <2>4. DequesBalanced'
    BY <1>1, <1>3, <2>1, <2>2, EmptySeq DEF DequesBalanced
  <2>5. QED
    BY <2>3, <2>4 DEF IndInv
<1>4. QED
  BY <1>2, <1>3 DEF Flat, Return

\* An operand keeps the balance.
LEMMA PushOperandStep ==
  ASSUME IndInv, PushOperand
  PROVE  IndInv'
<1>1. phase = "flat" /\ iterator \in DOMAIN nodes /\ nodes[iterator] \in Operands
  BY DEF PushOperand, At
<1>2. iterator % 2 = 1 /\ nodes[iterator] \in Symbol /\ iterator <= Len(nodes)
  BY <1>1, LoopFacts
<1>3. /\ temps' = Append(temps, <<nodes[iterator]>>) /\ iterator' = iterator + 1
      /\ UNCHANGED <<prefix, binaries, phase, nodes, operators, result>>
  BY DEF PushOperand, Advance
<1>4. <<nodes[iterator]>> \in Seq(Symbol)
  BY <1>2
<1>5. temps' \in Seq(Seq(Symbol)) /\ Len(temps') = Len(temps) + 1
  BY <1>1, <1>3, <1>4, LoopFacts, AppendProperties
<1>6. iterator' \in 1..(Len(nodes) + 1) /\ iterator' % 2 = 0
  <2>1. iterator \in Nat /\ Len(nodes) \in Nat /\ iterator \in 1..Len(nodes)
    BY <1>1, LoopFacts
  <2>2. QED
    BY <1>2, <1>3, <2>1
<1>7. TypeOK'
  BY <1>3, <1>5, <1>6 DEF IndInv, TypeOK
<1>8. Len(temps') = Len(operators') + 1
  BY <1>1, <1>2, <1>3, <1>5, LoopFacts
<1>9. Alternating'
  BY <1>1, <1>3 DEF IndInv, DequesBalanced, Alternating
<1>10. DequesBalanced'
  BY <1>1, <1>3, <1>6, <1>8, <1>9 DEF DequesBalanced
<1>11. QED
  BY <1>7, <1>10 DEF IndInv

\* So does an operator of low priority.
LEMMA PushOperatorStep ==
  ASSUME IndInv, PushOperator
  PROVE  IndInv'
<1>1. /\ phase = "flat" /\ iterator \in DOMAIN nodes
      /\ nodes[iterator] \in LowOp /\ nodes[iterator] \in Op
  BY DEF PushOperator, At, Op
<1>2. iterator % 2 = 0 /\ iterator <= Len(nodes)
  BY <1>1, LoopFacts
<1>3. /\ operators' = Append(operators, nodes[iterator]) /\ iterator' = iterator + 1
      /\ UNCHANGED <<prefix, binaries, phase, nodes, temps, result>>
  BY DEF PushOperator, Advance
<1>4. operators' \in Seq(LowOp) /\ Len(operators') = Len(operators) + 1
  BY <1>1, <1>3, LoopFacts, AppendProperties
<1>5. iterator' \in 1..(Len(nodes) + 1) /\ iterator' % 2 = 1
  <2>1. iterator \in Nat /\ Len(nodes) \in Nat /\ iterator \in 1..Len(nodes)
    BY <1>1, LoopFacts
  <2>2. QED
    BY <1>2, <1>3, <2>1
<1>6. TypeOK'
  BY <1>3, <1>4, <1>5 DEF IndInv, TypeOK
<1>7. Len(temps') = Len(operators')
  BY <1>1, <1>2, <1>3, <1>4, LoopFacts
<1>8. Alternating'
  BY <1>1, <1>3 DEF IndInv, DequesBalanced, Alternating
<1>9. Len(operators') + 0 = Len(operators')
  BY <1>4, LenProperties
<1>10. DequesBalanced'
  BY <1>1, <1>3, <1>5, <1>7, <1>8, <1>9 DEF DequesBalanced
<1>11. QED
  BY <1>6, <1>10 DEF IndInv

\* So does one of high priority, with the operand behind it.
LEMMA CombineStep ==
  ASSUME IndInv, Combine
  PROVE  IndInv'
<1> DEFINE l == Last(temps)
           r == nodes[iterator + 1]
<1>1. /\ phase = "flat" /\ iterator \in DOMAIN nodes /\ nodes[iterator] \in Symbol
      /\ At(HighOp)
  BY DEF Combine, At, Symbol, Op
<1>2. /\ temps # <<>> /\ iterator % 2 = 0
      /\ iterator + 1 \in DOMAIN nodes /\ r \in Symbol
  BY <1>1, HighOperator DEF Symbol
<1>3. /\ temps' = Append(Front(temps), l \o <<r, nodes[iterator]>>)
      /\ iterator' = iterator + 2
      /\ UNCHANGED <<prefix, binaries, phase, nodes, operators, result>>
  BY DEF Combine, Advance
<1>4. /\ temps \in Seq(Seq(Symbol)) /\ Len(temps) \in Nat \ {0}
      /\ l \in Seq(Symbol)
      /\ Front(temps) \in Seq(Seq(Symbol)) /\ Len(Front(temps)) = Len(temps) - 1
  BY <1>1, <1>2, LoopFacts, Shortened
<1> HIDE DEF l, r
<1>5. <<r, nodes[iterator]>> \in Seq(Symbol)
  BY <1>1, <1>2
<1>6. l \o <<r, nodes[iterator]>> \in Seq(Symbol)
  BY <1>4, <1>5, ConcatProperties
<1>7. temps' \in Seq(Seq(Symbol)) /\ Len(temps') = Len(temps)
  <2>1. /\ temps' \in Seq(Seq(Symbol))
        /\ Len(temps') = Len(Front(temps)) + 1
    BY <1>3, <1>4, <1>6, AppendProperties
  <2>2. QED
    BY <1>4, <2>1
<1>8. iterator' \in 1..(Len(nodes) + 1) /\ iterator' % 2 = 0
  <2>1. iterator \in Nat /\ Len(nodes) \in Nat /\ iterator + 1 \in 1..Len(nodes)
    BY <1>1, <1>2, LoopFacts
  <2>2. QED
    BY <1>2, <1>3, <2>1
<1>9. TypeOK'
  BY <1>3, <1>7, <1>8 DEF IndInv, TypeOK
<1>10. Len(temps') = Len(operators') + 1
  BY <1>1, <1>2, <1>3, <1>7, LoopFacts
<1>11. Alternating'
  BY <1>1, <1>3 DEF IndInv, DequesBalanced, Alternating
<1>12. DequesBalanced'
  BY <1>1, <1>3, <1>8, <1>10, <1>11 DEF DequesBalanced
<1>13. QED
  BY <1>9, <1>12 DEF IndInv

\* Both deques are complete when the loop ends.
LEMMA EndLoopStep ==
  ASSUME IndInv, EndLoop
  PROVE  IndInv'
<1>1. /\ phase = "flat" /\ iterator > Len(nodes) /\ phase' = "assemble"
      /\ UNCHANGED <<prefix, binaries, nodes, iterator, temps, operators, result>>
  BY DEF EndLoop
<1>2. /\ Len(temps) \in Nat /\ Len(operators) \in Nat
      /\ Len(temps) = Len(operators) \/ Len(temps) = Len(operators) + 1
  <2>1. iterator \in Nat /\ (iterator % 2 = 0 \/ iterator % 2 = 1)
    BY <1>1, LoopFacts
  <2>2. QED
    BY <1>1, <2>1, LoopFacts
<1>3. TypeOK'
  BY <1>1 DEF IndInv, TypeOK
<1>4. DequesBalanced'
  BY <1>1, <1>2 DEF DequesBalanced
<1>5. QED
  BY <1>3, <1>4 DEF IndInv

\* While nodes are left to assemble there is an operand among them.
LEMMA OperandLeft ==
  ASSUME IndInv, phase = "assemble", Remaining
  PROVE  /\ temps \in Seq(Seq(Symbol)) /\ operators \in Seq(LowOp)
         /\ Len(temps) \in Nat /\ Len(operators) \in Nat
         /\ Len(temps) = Len(operators) \/ Len(temps) = Len(operators) + 1
         /\ temps # <<>>
<1>1. temps \in Seq(Seq(Symbol)) /\ operators \in Seq(LowOp)
  BY DEF IndInv, TypeOK
<1>2. Len(temps) \in Nat /\ Len(operators) \in Nat
  BY <1>1, LenProperties
<1>3. Len(temps) - Len(operators) \in 0..1
  BY DEF IndInv, DequesBalanced
<1>4. Len(temps) # 0 \/ Len(operators) # 0
  BY <1>1, EmptySeq DEF Remaining
<1>5. Len(temps) # 0
  BY <1>2, <1>3, <1>4
<1>6. QED
  BY <1>1, <1>2, <1>3, <1>5, EmptySeq

\* Assembly takes an operand and an operator each time.
LEMMA AssembleStep ==
  ASSUME IndInv, Assemble
  PROVE  IndInv'
<1>1. phase = "assemble" /\ Remaining /\ Take(Len(temps) <= Len(operators))
  BY DEF Assemble
<1>2. /\ temps \in Seq(Seq(Symbol)) /\ operators \in Seq(LowOp)
      /\ Len(temps) \in Nat /\ Len(operators) \in Nat
      /\ Len(temps) = Len(operators) \/ Len(temps) = Len(operators) + 1
      /\ temps # <<>>
  BY <1>1, OperandLeft
<1>3. /\ temps' = Tail(temps) /\ temps' \in Seq(Seq(Symbol))
      /\ Len(temps') = Len(temps) - 1 /\ Len(temps) \in Nat \ {0}
      /\ Head(temps) \in Seq(Symbol)
      /\ UNCHANGED <<prefix, binaries, phase, nodes, iterator>>
  BY <1>1, <1>2, Shortened DEF Take
<1>4. result \in Seq(Symbol)
  BY DEF IndInv, TypeOK
<1>5. CASE Len(temps) <= Len(operators)
  <2>1. operators # <<>>
    <3> DEFINE t == Len(temps)
               o == Len(operators)
    <3>1. t \in Nat \ {0} /\ o \in Nat /\ t <= o
      BY <1>2, <1>3, <1>5
    <3> HIDE DEF t, o
    <3>2. o # 0
      BY <3>1
    <3>3. QED
      BY <1>2, <3>2, EmptySeq DEF o
  <2>2. /\ operators' = Tail(operators) /\ operators' \in Seq(LowOp)
        /\ Len(operators') = Len(operators) - 1
        /\ Head(operators) \in Symbol
    BY <1>1, <1>2, <1>5, <2>1, Shortened DEF Take, Symbol, Op
  <2>3. result' = result \o Head(temps) \o <<Head(operators)>>
    BY <1>1, <1>5 DEF Take
  <2>4. result \o Head(temps) \in Seq(Symbol) /\ <<Head(operators)>> \in Seq(Symbol)
    BY <1>3, <1>4, <2>2, ConcatProperties
  <2>5. result' \in Seq(Symbol)
    BY <2>3, <2>4, ConcatProperties
  <2>6. TypeOK'
    BY <1>3, <2>2, <2>5 DEF IndInv, TypeOK
  <2>7. Len(temps') - Len(operators') \in 0..1
    <3> DEFINE t == Len(temps)
               o == Len(operators)
    <3>1. t \in Nat \ {0} /\ o \in Nat /\ (t = o \/ t = o + 1) /\ t <= o
      BY <1>2, <1>3, <1>5
    <3>2. Len(temps') = t - 1 /\ Len(operators') = o - 1
      BY <1>3, <2>2
    <3> HIDE DEF t, o
    <3>3. (t - 1) - (o - 1) \in 0..1
      BY <3>1
    <3>4. QED
      BY <3>2, <3>3
  <2>8. QED
    BY <1>1, <1>3, <2>6, <2>7 DEF IndInv, DequesBalanced
<1>6. CASE ~ (Len(temps) <= Len(operators))
  <2>1. UNCHANGED operators /\ result' = result \o Head(temps)
    BY <1>1, <1>6 DEF Take
  <2>2. result' \in Seq(Symbol)
    BY <1>3, <1>4, <2>1, ConcatProperties
  <2>3. TypeOK'
    BY <1>3, <2>1, <2>2 DEF IndInv, TypeOK
  <2>4. Len(temps') - Len(operators') \in 0..1
    <3> DEFINE t == Len(temps)
               o == Len(operators)
    <3>1. t \in Nat \ {0} /\ o \in Nat /\ (t = o \/ t = o + 1) /\ ~ (t <= o)
      BY <1>2, <1>3, <1>6
    <3>2. Len(temps') = t - 1 /\ Len(operators') = o
      BY <1>3, <2>1
    <3> HIDE DEF t, o
    <3>3. (t - 1) - (o) \in 0..1
      BY <3>1
    <3>4. QED
      BY <3>2, <3>3
  <2>5. QED
    BY <1>1, <1>3, <2>3, <2>4 DEF IndInv, DequesBalanced
<1>7. QED
  BY <1>5, <1>6

\* Every step keeps the balance.
LEMMA NextStep ==
  ASSUME IndInv, [Next]_vars
  PROVE  IndInv'
<1>1. CASE Assign
  BY <1>1 DEF Assign, Return, IndInv, TypeOK, DequesBalanced
<1>2. CASE Flat
  BY <1>2, FlatStep
<1>3. CASE PushOperand
  BY <1>3, PushOperandStep
<1>4. CASE PushOperator
  BY <1>4, PushOperatorStep
<1>5. CASE Combine
  BY <1>5, CombineStep
<1>6. CASE EndLoop
  BY <1>6, EndLoopStep
<1>7. CASE Assemble
  BY <1>7, AssembleStep
<1>8. CASE Finish
  BY <1>8 DEF Finish, Return, IndInv, TypeOK, DequesBalanced
<1>9. CASE UNCHANGED vars
  <2>1. Alternating' <=> Alternating
    BY <1>9 DEF Alternating, vars
  <2>2. QED
    BY <1>9, <2>1 DEF vars, IndInv, TypeOK, DequesBalanced
<1>10. QED
  BY <1>1, <1>2, <1>3, <1>4, <1>5, <1>6, <1>7, <1>8, <1>9 DEF Next

-----------------------------------------------------------------------------
\* The deques stay balanced in every state of every flattening.
THEOREM FlattenInvariant == Spec => []IndInv
BY InitInv, NextStep, PTL DEF Spec

\* temps.back(), temps.front() and operators.front() are never applied to an
\* empty deque and `*iterator` never to the end: the two "[Error] Except" reports,
\* after which the code goes on all the same, cannot happen.
THEOREM NeverMissing == Spec => []NothingMissing
<1>1. IndInv => NothingMissing
  <2>1. IndInv /\ At(HighOp) =>
          /\ temps # <<>>
          /\ iterator + 1 \in DOMAIN nodes
          /\ nodes[iterator + 1] \in Operands
    BY HighOperator
  <2>2. IndInv /\ phase = "assemble" /\ Remaining => temps # <<>>
    BY OperandLeft
  <2>3. QED
    BY <2>1, <2>2 DEF NothingMissing
<1>2. QED
  BY <1>1, FlattenInvariant, PTL

\* The deques hold nodes and operators of low priority only.
THEOREM FlattenTypes == Spec => []TypeOK
<1>1. IndInv => TypeOK
  BY DEF IndInv
<1>2. QED
  BY <1>1, FlattenInvariant, PTL

-----------------------------------------------------------------------------
(***************************************************************************)
(* The postfix order of an expression of any length.                       *)
(***************************************************************************)
\* Operands and operators in turn, an operand first and last.
Alternates(s) ==
  /\ s \in Seq(Symbol)
  /\ Len(s) % 2 = 1
  /\ \A i \in 1..Len(s) : s[i] \in IF i % 2 = 1 THEN Operands ELSE Op

\* The operators are in the even places.
LEMMA OperatorPlaces ==
  ASSUME NEW s, Alternates(s), NEW i \in 1..Len(s)
  PROVE  /\ s[i] \in Op <=> i % 2 = 0
         /\ i % 2 = 1 => s[i] \notin LowOp
         /\ s[i] \in Symbol
<1>1. s[i] \in IF i % 2 = 1 THEN Operands ELSE Op
  BY DEF Alternates
<1>2. Operands \intersect Op = {}
  BY Expressions
<1>3. i % 2 = 1 \/ i % 2 = 0
  BY LenProperties DEF Alternates
<1> HIDE DEF Op
<1>4. s[i] \in Op <=> i % 2 = 0
  BY <1>1, <1>2, <1>3
<1>5. LowOp \subseteq Op
  BY DEF Op
<1>6. s[i] \in Symbol
  BY <1>1 DEF Symbol
<1>7. QED
  BY <1>3, <1>4, <1>5, <1>6

\* The last operator of low priority is the root.
LEMMA RootIsLow ==
  ASSUME NEW s, Alternates(s), NEW a \in Nat, NEW b \in Nat,
         NEW k \in (a + 1)..(b - 1), s[k] \in LowOp,
         \A j \in (k + 1)..(b - 1) : s[j] \notin LowOp
  PROVE  Root(s, a, b) = k
<1>1. LowOp \subseteq Op
  BY DEF Op
<1>2. IsRoot(s, a, b, k)
  BY <1>1 DEF IsRoot, Level
<1>3. ASSUME NEW m \in (a + 1)..(b - 1), IsRoot(s, a, b, m)
      PROVE  m = k
  <2>1. s[m] \in Op /\ s[k] \in Op
    BY <1>1, <1>3 DEF IsRoot
  <2>2. Level(s[k]) > Level(s[m]) \/ (Level(s[k]) = Level(s[m]) /\ k <= m)
    BY <1>3, <2>1 DEF IsRoot
  <2>3. s[m] \in LowOp /\ k <= m
    BY <2>2 DEF Level
  <2>4. QED
    BY <2>3
<1>4. QED
  BY <1>2, <1>3 DEF Root

\* If there is none, the last operator is.
LEMMA RootIsLast ==
  ASSUME NEW s, Alternates(s), NEW a \in 1..Len(s), NEW b \in 1..Len(s), a < b,
         a % 2 = 1, b % 2 = 1, \A j \in (a + 1)..(b - 1) : s[j] \notin LowOp
  PROVE  Root(s, a, b) = b - 1
<1>1. Len(s) \in Nat
  BY LenProperties DEF Alternates
<1> DEFINE k == b - 1
<1>2. k \in (a + 1)..(b - 1) /\ k \in 1..Len(s) /\ k % 2 = 0
  BY <1>1
<1>3. s[k] \in Op /\ s[k] \notin LowOp
  BY <1>2, OperatorPlaces
<1>4. \A j \in (a + 1)..(b - 1) : j <= k /\ Level(s[j]) = 2
  BY <1>1 DEF Level
<1> HIDE DEF k
<1>5. IsRoot(s, a, b, k)
  BY <1>2, <1>3, <1>4 DEF IsRoot
<1>6. ASSUME NEW m \in (a + 1)..(b - 1), IsRoot(s, a, b, m)
      PROVE  m = k
  <2>1. Level(s[k]) > Level(s[m]) \/ (Level(s[k]) = Level(s[m]) /\ k <= m)
    BY <1>2, <1>3, <1>6 DEF IsRoot
  <2>2. Level(s[k]) = 2 /\ Level(s[m]) = 2 /\ m <= k
    BY <1>2, <1>4
  <2>3. k <= m
    BY <2>1, <2>2
  <2>4. m \in Int /\ k \in Int
    BY <1>1, <1>2
  <2>5. QED
    BY <2>2, <2>3, <2>4
<1>7. QED
  BY <1>2, <1>5, <1>6 DEF Root, k

\* A span of more than one operand has a root, an operator between them.
LEMMA RootExists ==
  ASSUME NEW s, Alternates(s), NEW a \in 1..Len(s), NEW b \in 1..Len(s), a < b,
         a % 2 = 1, b % 2 = 1
  PROVE  /\ Root(s, a, b) \in (a + 1)..(b - 1)
         /\ Root(s, a, b) % 2 = 0
<1>1. Len(s) \in Nat
  BY LenProperties DEF Alternates
<1>2. CASE \A j \in (a + 1)..(b - 1) : s[j] \notin LowOp
  <2>1. Root(s, a, b) = b - 1
    BY <1>2, RootIsLast
  <2>2. QED
    BY <1>1, <2>1
<1>3. CASE \E j \in (a + 1)..(b - 1) : s[j] \in LowOp
  <2> DEFINE Low == {j \in (a + 1)..(b - 1) : s[j] \in LowOp}
  <2>1. Low \subseteq Int /\ Low # {} /\ b \in Int /\ \A j \in Low : j <= b
    BY <1>1, <1>3
  <2>2. Low \subseteq (a + 1)..(b - 1) /\ \A j \in Low : s[j] \in LowOp
    OBVIOUS
  <2>3. \A j \in (a + 1)..(b - 1) : j \notin Low => s[j] \notin LowOp
    OBVIOUS
  <2> HIDE DEF Low
  <2>4. PICK k \in Low : \A j \in Low : j <= k
    BY <2>1, GreatestElement
  <2>5. k \in (a + 1)..(b - 1) /\ s[k] \in LowOp
    BY <2>2
  <2>6. \A j \in (k + 1)..(b - 1) : s[j] \notin LowOp
    BY <1>1, <2>3, <2>4, <2>5
  <2>7. Root(s, a, b) = k
    <3>1. a \in Nat /\ b \in Nat
      BY <1>1
    <3>2. QED
      BY <2>5, <2>6, <3>1, RootIsLow
  <2>8. k \in 1..Len(s)
    BY <1>1, <2>5
  <2>9. k % 2 = 0
    BY <2>5, <2>8, OperatorPlaces DEF Op
  <2>10. QED
    BY <2>5, <2>7, <2>9
<1>4. QED
  BY <1>2, <1>3

\* The two spans beside the root.
LEMMA SpansBesideRoot ==
  ASSUME NEW s, Alternates(s), NEW p \in Spans(s), p[1] # p[2]
  PROVE  LET k == Root(s, p[1], p[2])
         IN /\ k \in 1..Len(s)
            /\ <<p[1], k - 1>> \in Spans(s) /\ (k - 1) - p[1] < p[2] - p[1]
            /\ <<k + 1, p[2]>> \in Spans(s) /\ p[2] - (k + 1) < p[2] - p[1]
<1> DEFINE a == p[1]
           b == p[2]
           k == Root(s, p[1], p[2])
<1>1. Len(s) \in Nat
  BY LenProperties DEF Alternates
<1>2. a \in 1..Len(s) /\ b \in 1..Len(s) /\ a < b /\ a % 2 = 1 /\ b % 2 = 1
  BY <1>1 DEF Spans
<1>3. k \in (a + 1)..(b - 1) /\ k % 2 = 0
  BY <1>2, RootExists
<1> HIDE DEF a, b, k
<1>4. /\ k \in 1..Len(s)
      /\ k - 1 \in 1..Len(s) /\ a <= k - 1 /\ (k - 1) % 2 = 1
      /\ k + 1 \in 1..Len(s) /\ k + 1 <= b /\ (k + 1) % 2 = 1
      /\ (k - 1) - a < b - a /\ b - (k + 1) < b - a
  BY <1>1, <1>2, <1>3
<1>5. <<a, k - 1>> \in Spans(s) /\ <<k + 1, b>> \in Spans(s)
  BY <1>2, <1>4 DEF Spans
<1>6. QED
  BY <1>4, <1>5 DEF a, b, k

-----------------------------------------------------------------------------
\* One unfolding of the recursive definition, of the spans whose parts f has.
Unfolded(s, f, p) ==
  IF p[1] = p[2] THEN <<s[p[1]]>>
  ELSE LET k == Root(s, p[1], p[2])
       IN f[<<p[1], k - 1>>] \o f[<<k + 1, p[2]>>] \o <<s[k]>>

\* It is code.
LEMMA UnfoldedFacts ==
  ASSUME NEW s, Alternates(s), NEW f, NEW p \in Spans(s),
         \A q \in Spans(s) : q[2] - q[1] < p[2] - p[1] => f[q] \in Seq(Symbol)
  PROVE  Unfolded(s, f, p) \in Seq(Symbol)
<1>1. p[1] \in 1..Len(s)
  BY DEF Spans
<1>2. CASE p[1] = p[2]
  <2>1. s[p[1]] \in Symbol
    BY <1>1, OperatorPlaces
  <2>2. <<s[p[1]]>> \in Seq(Symbol)
    BY <2>1
  <2>3. QED
    BY <1>2, <2>2 DEF Unfolded
<1>3. CASE p[1] # p[2]
  <2> DEFINE k == Root(s, p[1], p[2])
             l == <<p[1], k - 1>>
             r == <<k + 1, p[2]>>
  <2>1. /\ k \in 1..Len(s) /\ l \in Spans(s) /\ r \in Spans(s)
        /\ l[2] - l[1] < p[2] - p[1] /\ r[2] - r[1] < p[2] - p[1]
    BY <1>3, SpansBesideRoot
  <2>2. s[k] \in Symbol
    BY <2>1, OperatorPlaces
  <2>3. Unfolded(s, f, p) = f[l] \o f[r] \o <<s[k]>>
    BY <1>3 DEF Unfolded
  <2> HIDE DEF k, l, r
  <2>4. f[l] \in Seq(Symbol) /\ f[r] \in Seq(Symbol) /\ <<s[k]>> \in Seq(Symbol)
    BY <2>1, <2>2
  <2>5. f[l] \o f[r] \in Seq(Symbol)
    BY <2>4, ConcatProperties
  <2>6. QED
    BY <2>3, <2>4, <2>5, ConcatProperties
<1>4. QED
  BY <1>2, <1>3

\* The recursive definition of the postfix order defines it.
LEMMA CodeIs ==
  ASSUME NEW s, Alternates(s)
  PROVE  /\ Code(s) \in [Spans(s) -> Seq(Symbol)]
         /\ \A p \in Spans(s) : Code(s)[p] = Unfolded(s, Code(s), p)
<1> DEFINE D == Spans(s)
           S == [D -> Seq(Symbol)]
           U(f) == [p \in D |-> Unfolded(s, f, p)]
           g == [f \in S |-> U(f)]
           b == [p \in D |-> <<>>]
<1>1. b \in S
  BY EmptySeq
<1>2. \A f \in S : U(f) \in S
  BY UnfoldedFacts
<1>3. g \in [S -> S]
  BY <1>2
<1>4. PICK F : Iterated(F, S, b, g)
  <2> HIDE DEF S, g, b
  <2>1. QED
    BY <1>1, <1>3, PrimitiveRecursion
<1>5. \A n \in Nat : F[n] \in S
  BY <1>4 DEF Iterated
<1>6. ASSUME NEW n \in Nat
      PROVE  F[n + 1] = U(F[n])
  <2>1. F[n + 1] = g[F[(n + 1) - 1]]
    <3> HIDE DEF g, S, U, b
    <3>1. n + 1 \in Nat /\ n + 1 # 0
      OBVIOUS
    <3>2. QED
      BY <1>4, <3>1 DEF Iterated
  <2>2. (n + 1) - 1 = n /\ g[F[n]] = U(F[n])
    BY <1>5
  <2> HIDE DEF g, U, S
  <2>3. QED
    BY <2>1, <2>2
<1>7. \A n \in Nat, p \in D : F[n + 1][p] = Unfolded(s, F[n], p)
  BY <1>6
<1> DEFINE Ns == {n \in Nat : \A p \in D : p[2] - p[1] < n => F[n + 1][p] = F[n][p]}
<1>8. 0 \in Ns
  <2>1. \A p \in D : ~ (p[2] - p[1] < 0)
    BY LenProperties DEF Spans, Alternates
  <2>2. QED
    BY <2>1
<1>9. ASSUME NEW n \in Nat, n \in Ns
      PROVE  n + 1 \in Ns
  <2> SUFFICES ASSUME NEW p \in D, p[2] - p[1] < n + 1
               PROVE  F[(n + 1) + 1][p] = F[n + 1][p]
    OBVIOUS
  <2>1. F[(n + 1) + 1][p] = Unfolded(s, F[n + 1], p) /\ F[n + 1][p] = Unfolded(s, F[n], p)
    BY <1>7
  <2>2. CASE p[1] = p[2]
    BY <2>1, <2>2 DEF Unfolded
  <2>3. CASE p[1] # p[2]
    <3> DEFINE k == Root(s, p[1], p[2])
               l == <<p[1], k - 1>>
               r == <<k + 1, p[2]>>
    <3>1. /\ k \in 1..Len(s) /\ l \in D /\ r \in D
          /\ (k - 1) - p[1] < p[2] - p[1] /\ p[2] - (k + 1) < p[2] - p[1]
      BY <2>3, SpansBesideRoot
    <3>2. p[1] \in Int /\ p[2] \in Int /\ k \in Int
      BY <3>1, LenProperties DEF Spans, Alternates
    <3>3. l[2] - l[1] < n /\ r[2] - r[1] < n
      BY <3>1, <3>2
    <3>4. F[n + 1][l] = F[n][l] /\ F[n + 1][r] = F[n][r]
      BY <1>9, <3>1, <3>3
    <3>5. \A f : Unfolded(s, f, p) = f[l] \o f[r] \o <<s[k]>>
      BY <2>3 DEF Unfolded
    <3> HIDE DEF k, l, r
    <3>6. QED
      BY <2>1, <3>4, <3>5
  <2>4. QED
    BY <2>2, <2>3
<1> HIDE DEF Ns
<1>10. Nat \subseteq Ns
  BY <1>8, <1>9, NatInductionInSets
<1> DEFINE n == Len(s)
<1>11. n \in Nat /\ \A p \in D : p[2] - p[1] < n
  BY LenProperties DEF Spans, Alternates
<1>12. \A p \in D : F[n + 1][p] = F[n][p]
  BY <1>10, <1>11 DEF Ns
<1>13. \A p \in D : F[n][p] = Unfolded(s, F[n], p)
  BY <1>7, <1>11, <1>12
<1>14. F[n] \in S
  BY <1>5, <1>11
<1> DEFINE G == F[n]
           C == Code(s)
<1>15. G = [p \in D |-> Unfolded(s, G, p)]
  <2> HIDE DEF D, n
  <2>1. QED
    BY <1>13, <1>14
<1>16. \E code : code = [p \in Spans(s) |-> Unfolded(s, code, p)]
  BY <1>15
<1>17. Code(s) = CHOOSE code : code = [p \in Spans(s) |-> Unfolded(s, code, p)]
  BY DEF Code, Unfolded
<1>18. C = [p \in D |-> Unfolded(s, C, p)]
  BY <1>16, <1>17
<1>19. C \in S
  <2> DEFINE Ms == {m \in Nat : \A p \in D : p[2] - p[1] < m => C[p] \in Seq(Symbol)}
  <2>1. 0 \in Ms
    <3>1. \A p \in D : ~ (p[2] - p[1] < 0)
      BY LenProperties DEF Spans, Alternates
    <3>2. QED
      BY <3>1
  <2> HIDE DEF C
  <2>2. ASSUME NEW m \in Nat, m \in Ms
        PROVE  m + 1 \in Ms
    <3> SUFFICES ASSUME NEW p \in D, p[2] - p[1] < m + 1
                 PROVE  C[p] \in Seq(Symbol)
      OBVIOUS
    <3>1. \A q \in D : q[1] \in Int /\ q[2] \in Int
      BY LenProperties DEF Spans, Alternates
    <3>2. \A q \in D : q[2] - q[1] < p[2] - p[1] => C[q] \in Seq(Symbol)
      BY <2>2, <3>1
    <3>3. Unfolded(s, C, p) \in Seq(Symbol)
      BY <3>2, UnfoldedFacts
    <3>4. QED
      BY <1>18, <3>3
  <2> HIDE DEF Ms
  <2>3. Nat \subseteq Ms
    BY <2>1, <2>2, NatInductionInSets
  <2>4. \A p \in D : C[p] \in Seq(Symbol)
    BY <1>11, <2>3 DEF Ms
  <2>5. QED
    BY <1>18, <2>4
<1>20. QED
  BY <1>18, <1>19

\* Odd and even places take turns.
LEMMA Parity ==
  ASSUME NEW i \in Int
  PROVE  /\ i % 2 = 0 \/ i % 2 = 1
         /\ i % 2 = 0 <=> (i + 1) % 2 = 1
         /\ i % 2 = 0 <=> (i - 1) % 2 = 1
         /\ i % 2 = 1 <=> (i + 1) % 2 = 0
OBVIOUS

\* Different even numbers are two apart, at least.
LEMMA EvenGap ==
  ASSUME NEW k \in Int, NEW h \in Int, k < h, k % 2 = 0, h % 2 = 0
  PROVE  k + 2 <= h
<1>1. (k + 1) % 2 = 1
  BY Parity
<1>2. k + 1 # h
  BY <1>1
<1>3. QED
  BY <1>2

\* The expression between two even places without an operator of low priority in
\* it, and its code.
Term(s, lo, hi, c) ==
  /\ lo \in Nat /\ hi \in Nat /\ lo < hi /\ lo % 2 = 0 /\ hi % 2 = 0
  /\ hi <= Len(s) + 1
  /\ \A j \in (lo + 1)..(hi - 1) : s[j] \notin LowOp
  /\ c \in Seq(Symbol)
  /\ c = Code(s)[<<lo + 1, hi - 1>>]

\* The expression before an even place and its code.
Whole(s, hi, c) ==
  /\ hi \in Nat /\ 0 < hi /\ hi % 2 = 0 /\ hi <= Len(s) + 1
  /\ c \in Seq(Symbol)
  /\ c = Code(s)[<<1, hi - 1>>]

\* Its bounds are a span.
LEMMA TermSpan ==
  ASSUME NEW s, Alternates(s), NEW lo \in Nat, NEW hi \in Nat, lo < hi,
         lo % 2 = 0, hi % 2 = 0, hi <= Len(s) + 1
  PROVE  <<lo + 1, hi - 1>> \in Spans(s)
<1> DEFINE a == lo + 1
           b == hi - 1
<1>1. Len(s) \in Nat
  BY LenProperties DEF Alternates
<1>2. a \in 1..Len(s) /\ b \in 1..Len(s) /\ a <= b /\ a % 2 = 1 /\ b % 2 = 1
  BY <1>1
<1> HIDE DEF a, b
<1>3. <<a, b>> \in Spans(s)
  BY <1>2 DEF Spans
<1>4. QED
  BY <1>3 DEF a, b

\* An operand alone.
LEMMA TermOfOne ==
  ASSUME NEW s, Alternates(s), NEW i \in 1..Len(s), i % 2 = 1
  PROVE  Term(s, i - 1, i + 1, <<s[i]>>)
<1> DEFINE lo == i - 1
           hi == i + 1
           p == <<i, i>>
<1>1. Len(s) \in Nat
  BY LenProperties DEF Alternates
<1>2. /\ lo \in Nat /\ hi \in Nat /\ lo < hi /\ lo % 2 = 0 /\ hi % 2 = 0
      /\ hi <= Len(s) + 1 /\ lo + 1 = i /\ hi - 1 = i
  BY <1>1
<1>3. p \in Spans(s)
  <2> HIDE DEF lo, hi
  <2>1. <<lo + 1, hi - 1>> \in Spans(s)
    BY <1>2, TermSpan
  <2>2. QED
    BY <1>2, <2>1
<1>4. Code(s)[p] = Unfolded(s, Code(s), p)
  BY <1>3, CodeIs
<1>5. Code(s)[p] = <<s[i]>>
  BY <1>4 DEF Unfolded
<1>6. s[i] \notin LowOp /\ s[i] \in Symbol
  BY OperatorPlaces
<1>7. <<s[i]>> \in Seq(Symbol)
  BY <1>6
<1>8. \A j \in (lo + 1)..(hi - 1) : s[j] \notin LowOp
  BY <1>2, <1>6
<1> HIDE DEF lo, hi
<1>9. Term(s, lo, hi, <<s[i]>>)
  BY <1>2, <1>5, <1>7, <1>8 DEF Term
<1>10. QED
  BY <1>9 DEF lo, hi

\* A pair is one element behind another.
LEMMA PairIsConcat ==
  ASSUME NEW u \in Symbol, NEW v \in Symbol
  PROVE  <<u>> \o <<v>> = <<u, v>>
<1> DEFINE x == <<u>>
           y == <<v>>
           z == <<u, v>>
<1>1. /\ x \in Seq(Symbol) /\ y \in Seq(Symbol) /\ z \in Seq(Symbol)
      /\ Len(x) = 1 /\ Len(y) = 1 /\ Len(z) = 2
      /\ x[1] = u /\ y[1] = v /\ z[1] = u /\ z[2] = v
  OBVIOUS
<1> HIDE DEF x, y, z
<1>2. /\ x \o y \in Seq(Symbol) /\ Len(x \o y) = 2
      /\ (x \o y)[1] = u /\ (x \o y)[2] = v
  BY <1>1, ConcatProperties
<1>3. x \o y = z
  BY <1>1, <1>2, SeqEqual
<1>4. QED
  BY <1>3 DEF x, y, z

\* An operator of high priority and an operand more.
LEMMA TermOfMore ==
  ASSUME NEW s, Alternates(s), NEW lo, NEW hi, NEW c, Term(s, lo, hi, c),
         hi + 1 <= Len(s), s[hi] \notin LowOp
  PROVE  Term(s, lo, hi + 2, c \o <<s[hi + 1], s[hi]>>)
<1> DEFINE a == lo + 1
           b == hi + 1
           p == <<a, b>>
           x == <<s[b]>>
           y == <<s[hi]>>
<1>1. Len(s) \in Nat
  BY LenProperties DEF Alternates
<1>2. /\ lo \in Nat /\ hi \in Nat /\ lo < hi /\ lo % 2 = 0 /\ hi % 2 = 0
      /\ c \in Seq(Symbol) /\ c = Code(s)[<<a, hi - 1>>]
      /\ \A j \in (lo + 1)..(hi - 1) : s[j] \notin LowOp
  BY DEF Term
<1>3. /\ a \in 1..Len(s) /\ b \in 1..Len(s) /\ a < b /\ a % 2 = 1 /\ b % 2 = 1
      /\ b - 1 = hi
      /\ hi \in 1..Len(s)
  BY <1>1, <1>2
<1>4. \A j \in (lo + 1)..(b - 1) : s[j] \notin LowOp
  BY <1>2
<1>5. \A j \in (a + 1)..(b - 1) : s[j] \notin LowOp
  BY <1>2, <1>4
<1>6. Root(s, a, b) = hi
  <2> HIDE DEF a, b
  <2>1. QED
    BY <1>3, <1>5, RootIsLast
<1>7. p \in Spans(s) /\ <<b, b>> \in Spans(s)
  <2> HIDE DEF a, b
  <2>1. QED
    BY <1>1, <1>3 DEF Spans
<1>8. Code(s)[p] = Code(s)[<<a, hi - 1>>] \o Code(s)[<<b, b>>] \o y
  <2>1. Code(s)[p] = Unfolded(s, Code(s), p)
    BY <1>7, CodeIs
  <2>2. a # b /\ hi + 1 = b
    BY <1>3
  <2> HIDE DEF a, b
  <2>3. QED
    BY <1>6, <2>1, <2>2 DEF Unfolded
<1>9. Code(s)[<<b, b>>] = x
  <2> HIDE DEF b
  <2> DEFINE q == <<b, b>>
  <2>1. q \in Spans(s)
    BY <1>7
  <2>2. Code(s)[q] = Unfolded(s, Code(s), q)
    BY <2>1, CodeIs
  <2>3. q[1] = q[2] /\ q[1] = b
    OBVIOUS
  <2>4. Unfolded(s, Code(s), q) = <<s[b]>>
    BY <2>3 DEF Unfolded
  <2>5. QED
    BY <2>2, <2>4
<1>10. s[b] \in Symbol /\ s[hi] \in Symbol
  BY <1>3, OperatorPlaces
<1>11. x \in Seq(Symbol) /\ y \in Seq(Symbol) /\ x \o y = <<s[b], s[hi]>>
       /\ <<s[b], s[hi]>> \in Seq(Symbol)
  <2> HIDE DEF b
  <2> DEFINE u == s[b]
             v == s[hi]
  <2>1. u \in Symbol /\ v \in Symbol
    BY <1>10
  <2> HIDE DEF u, v
  <2>2. <<u>> \in Seq(Symbol) /\ <<v>> \in Seq(Symbol) /\ <<u, v>> \in Seq(Symbol)
    BY <2>1
  <2>3. <<u>> \o <<v>> = <<u, v>>
    BY <2>1, PairIsConcat
  <2>4. QED
    BY <2>2, <2>3 DEF u, v
<1> HIDE DEF a, b
<1> DEFINE d == c \o <<s[b], s[hi]>>
<1> HIDE DEF x, y
<1>12. (c \o x) \o y = c \o (x \o y)
  <2>1. c \in Seq(Symbol) /\ x \in Seq(Symbol) /\ y \in Seq(Symbol)
    BY <1>2, <1>11
  <2>2. QED
    BY <2>1, ConcatAssociative
<1>13. Code(s)[p] = d
  BY <1>2, <1>8, <1>9, <1>11, <1>12
<1>14. d \in Seq(Symbol)
  BY <1>2, <1>11, ConcatProperties
<1> HIDE DEF d
<1>15. /\ hi + 2 \in Nat /\ lo < hi + 2 /\ (hi + 2) % 2 = 0 /\ hi + 2 <= Len(s) + 1
       /\ (hi + 2) - 1 = b
  BY <1>1, <1>2, <1>3
<1> DEFINE h == hi + 2
<1> HIDE DEF h
<1>16. /\ h \in Nat /\ lo < h /\ h % 2 = 0 /\ h <= Len(s) + 1 /\ h - 1 = b
  BY <1>15 DEF h
<1>17. d = Code(s)[<<lo + 1, h - 1>>]
  BY <1>13, <1>16 DEF a
<1>18. \A j \in (lo + 1)..(h - 1) : s[j] \notin LowOp
  <2>1. SUFFICES ASSUME NEW j \in (lo + 1)..(h - 1) PROVE s[j] \notin LowOp
    OBVIOUS
  <2>2. CASE j \in (lo + 1)..(b - 1)
    BY <1>4, <2>2
  <2>3. CASE j = b
    BY <1>3, <2>3, OperatorPlaces
  <2>4. QED
    BY <1>3, <1>16, <1>2, <2>2, <2>3
<1>19. Term(s, lo, h, d)
  BY <1>2, <1>14, <1>16, <1>17, <1>18 DEF Term
<1>20. QED
  BY <1>19 DEF d, h, b

\* The first term.
LEMMA WholeFirst ==
  ASSUME NEW s, NEW lo, NEW hi, NEW c, Term(s, lo, hi, c), lo = 0
  PROVE  Whole(s, hi, c)
BY DEF Term, Whole

\* A term more, behind an operator of low priority.
LEMMA WholeMore ==
  ASSUME NEW s, Alternates(s), NEW k, NEW hi, NEW c, NEW d,
         Whole(s, k, c), Term(s, k, hi, d), s[k] \in LowOp
  PROVE  Whole(s, hi, c \o d \o <<s[k]>>)
<1> DEFINE a == 1
           b == hi - 1
           p == <<a, b>>
           y == <<s[k]>>
<1>1. Len(s) \in Nat
  BY LenProperties DEF Alternates
<1>2. /\ k \in Nat /\ 0 < k /\ k % 2 = 0 /\ hi \in Nat /\ k < hi /\ hi % 2 = 0
      /\ hi <= Len(s) + 1
      /\ c \in Seq(Symbol) /\ c = Code(s)[<<a, k - 1>>]
      /\ d \in Seq(Symbol) /\ d = Code(s)[<<k + 1, b>>]
      /\ \A j \in (k + 1)..(hi - 1) : s[j] \notin LowOp
  BY DEF Term, Whole
<1>3. /\ a \in 1..Len(s) /\ b \in 1..Len(s) /\ a < b /\ a % 2 = 1 /\ b % 2 = 1
      /\ k \in (a + 1)..(b - 1) /\ k \in 1..Len(s) /\ a \in Nat /\ b \in Nat
  <2> DEFINE L == Len(s)
  <2>1. L \in Nat /\ hi <= L + 1 /\ k \in Nat /\ hi \in Nat
    BY <1>1, <1>2
  <2> HIDE DEF L
  <2>2. k >= 2
    BY <1>2
  <2>3. k + 2 <= hi
    BY <1>2, EvenGap
  <2>4. b \in Nat /\ b >= k + 1 /\ b <= L
    BY <2>1, <2>3
  <2>5. b % 2 = 1
    BY <1>2, <2>1, Parity
  <2>6. a \in 1..L /\ b \in 1..L /\ k \in (a + 1)..(b - 1) /\ k \in 1..L /\ a < b
    BY <2>1, <2>2, <2>4
  <2>7. a % 2 = 1
    OBVIOUS
  <2>8. QED
    BY <2>4, <2>5, <2>6, <2>7 DEF L
<1>4. \A j \in (k + 1)..(b - 1) : s[j] \notin LowOp
  BY <1>2
<1> HIDE DEF a, b
<1>5. Root(s, a, b) = k
  BY <1>3, <1>4, RootIsLow
<1>6. p \in Spans(s) /\ a # b
  BY <1>1, <1>3 DEF Spans
<1>7. Code(s)[p] = c \o d \o y
  <2>1. Code(s)[p] = Unfolded(s, Code(s), p)
    BY <1>6, CodeIs
  <2>2. QED
    BY <1>2, <1>5, <1>6, <2>1 DEF Unfolded
<1>8. s[k] \in Symbol
  BY <1>3, OperatorPlaces
<1>9. c \o d \in Seq(Symbol) /\ y \in Seq(Symbol)
  BY <1>2, <1>8, ConcatProperties
<1> HIDE DEF y
<1> DEFINE e == c \o d \o y
<1>10. e \in Seq(Symbol)
  BY <1>9, ConcatProperties
<1>11. e = Code(s)[<<1, hi - 1>>]
  BY <1>7 DEF a, b
<1> HIDE DEF e
<1>12. Whole(s, hi, e)
  BY <1>2, <1>10, <1>11 DEF Whole
<1>13. QED
  BY <1>12 DEF e, y

-----------------------------------------------------------------------------
\* The nodes in temps are the codes of terms that lie side by side, with
\* operators of low priority in the places between them.
Cut(s, ts, pos) ==
  /\ pos \in [0..Len(ts) -> Nat]
  /\ \A j \in 1..Len(ts) : Term(s, pos[j - 1], pos[j], ts[j])

\* They cover what the loop has seen, and operators has those between them.
SeenCut(s, ts, ops, i, pos) ==
  /\ Cut(s, ts, pos)
  /\ pos[0] = 0
  /\ pos[Len(ts)] = IF i % 2 = 0 THEN i ELSE i - 1
  /\ \A j \in 1..Len(ops) : ops[j] = s[pos[j]]

\* They cover what is left of the expression behind the result.
LeftCut(s, ts, ops, res, pos) ==
  /\ Cut(s, ts, pos)
  /\ pos[Len(ts)] = Len(s) + 1
  /\ \/ /\ pos[0] = 0 /\ res = <<>>
        /\ Len(ops) = Len(ts) - 1
        /\ \A j \in 1..Len(ops) : ops[j] = s[pos[j]]
     \/ /\ Whole(s, pos[0], res)
        /\ Len(ops) = Len(ts)
        /\ \A j \in 1..Len(ops) : ops[j] = s[pos[j - 1]]

\* The cuts of the first n nodes of q are those of pos, and the next is v.
Prolongs(q, pos, n, v) ==
  /\ q \in [0..(n + 1) -> Nat]
  /\ \A j \in 0..n : q[j] = pos[j]
  /\ q[n + 1] = v

\* Places, and one behind them.
LEMMA Prolong ==
  ASSUME NEW n \in Nat, NEW pos \in [0..n -> Nat], NEW v \in Nat
  PROVE  \E q : Prolongs(q, pos, n, v)
<1> DEFINE q == [j \in 0..(n + 1) |-> IF j <= n THEN pos[j] ELSE v]
<1>1. q \in [0..(n + 1) -> Nat] /\ (\A j \in 0..n : q[j] = pos[j]) /\ q[n + 1] = v
  OBVIOUS
<1>2. QED
  BY <1>1 DEF Prolongs

\* The last cut moved.
Moves(q, pos, n, v) ==
  /\ q \in [0..n -> Nat]
  /\ \A j \in 0..n : j # n => q[j] = pos[j]
  /\ q[n] = v

\* Places, the last of them changed.
LEMMA Move ==
  ASSUME NEW n \in Nat, NEW pos \in [0..n -> Nat], NEW v \in Nat
  PROVE  \E q : Moves(q, pos, n, v)
<1> DEFINE q == [j \in 0..n |-> IF j # n THEN pos[j] ELSE v]
<1>1. q \in [0..n -> Nat] /\ (\A j \in 0..n : j # n => q[j] = pos[j]) /\ q[n] = v
  OBVIOUS
<1>2. QED
  BY <1>1 DEF Moves

\* The first cut dropped.
Drops(q, pos, m) ==
  /\ q \in [0..m -> Nat]
  /\ \A j \in 0..m : q[j] = pos[j + 1]

\* Places without the first.
LEMMA Drop ==
  ASSUME NEW m \in Nat, NEW pos \in [0..(m + 1) -> Nat]
  PROVE  \E q : Drops(q, pos, m)
<1> DEFINE q == [j \in 0..m |-> pos[j + 1]]
<1>1. q \in [0..m -> Nat] /\ \A j \in 0..m : q[j] = pos[j + 1]
  OBVIOUS
<1>2. QED
  BY <1>1 DEF Drops

\* An operand is a term of its own.
LEMMA SeenOperand ==
  ASSUME NEW s, Alternates(s), NEW ts \in Seq(Seq(Symbol)), NEW ops \in Seq(LowOp),
         NEW i \in 1..Len(s), i % 2 = 1, Len(ops) = Len(ts),
         NEW pos, SeenCut(s, ts, ops, i, pos)
  PROVE  \E q : SeenCut(s, Append(ts, <<s[i]>>), ops, i + 1, q)
<1> DEFINE n == Len(ts)
           x == <<s[i]>>
           us == Append(ts, x)
           h == i + 1
<1>1. n \in Nat /\ i \in Nat /\ h \in Nat /\ h % 2 = 0 /\ h - 1 = i /\ i % 2 # 0
  <2>1. Len(s) \in Nat /\ i \in Int
    BY LenProperties DEF Alternates
  <2>2. n \in Nat
    BY LenProperties
  <2>3. (i + 1) % 2 = 0
    BY <2>1, Parity
  <2>4. QED
    BY <2>1, <2>2, <2>3
<1>2. /\ pos \in [0..n -> Nat] /\ pos[0] = 0 /\ pos[n] = i - 1
      /\ \A j \in 1..n : Term(s, pos[j - 1], pos[j], ts[j])
      /\ \A j \in 1..n : ops[j] = s[pos[j]]
  BY <1>1 DEF SeenCut, Cut
<1>3. Term(s, i - 1, h, x)
  BY TermOfOne
<1>4. x \in Seq(Symbol)
  BY OperatorPlaces
<1> HIDE DEF x, n, h
<1>5. PICK q : Prolongs(q, pos, n, h)
  BY <1>1, <1>2, Prolong
<1>6. /\ q \in [0..(n + 1) -> Nat] /\ q[n + 1] = h
      /\ \A j \in 0..n : q[j] = pos[j]
  BY <1>5 DEF Prolongs
<1>7. us \in Seq(Seq(Symbol)) /\ Len(us) = n + 1 /\ us[n + 1] = x
      /\ \A j \in 1..n : us[j] = ts[j]
  BY <1>4, AppendProperties DEF n
<1> HIDE DEF us
<1>8. \A j \in 1..(n + 1) : Term(s, q[j - 1], q[j], us[j])
  <2> SUFFICES ASSUME NEW j \in 1..(n + 1) PROVE Term(s, q[j - 1], q[j], us[j])
    OBVIOUS
  <2>1. CASE j \in 1..n
    <3>1. j - 1 \in 0..n /\ j \in 0..n
      BY <1>1, <2>1
    <3>2. QED
      BY <1>2, <1>6, <1>7, <2>1, <3>1
  <2>2. CASE j = n + 1
    <3>1. j - 1 = n /\ n \in 0..n
      BY <1>1, <2>2
    <3>2. q[j - 1] = i - 1 /\ q[j] = h /\ us[j] = x
      BY <1>2, <1>6, <1>7, <2>2, <3>1
    <3>3. QED
      BY <1>3, <3>2
  <2>3. QED
    BY <1>1, <2>1, <2>2
<1>9. Cut(s, us, q)
  BY <1>6, <1>7, <1>8 DEF Cut
<1>10. q[0] = 0 /\ \A j \in 1..n : ops[j] = s[q[j]]
  BY <1>1, <1>2, <1>6
<1>11. SeenCut(s, us, ops, h, q)
  <2>1. Len(ops) = n
    BY DEF n
  <2>2. q[Len(us)] = h
    BY <1>6, <1>7
  <2>3. QED
    BY <1>1, <1>9, <1>10, <2>1, <2>2 DEF SeenCut
<1>12. QED
  BY <1>11 DEF us, x, h

\* An operator of low priority is between two terms.
LEMMA SeenOperator ==
  ASSUME NEW s, Alternates(s), NEW ts \in Seq(Seq(Symbol)), NEW ops \in Seq(LowOp),
         NEW i \in 1..Len(s), i % 2 = 0, s[i] \in LowOp, Len(ts) = Len(ops) + 1,
         NEW pos, SeenCut(s, ts, ops, i, pos)
  PROVE  SeenCut(s, ts, Append(ops, s[i]), i + 1, pos)
<1> DEFINE n == Len(ops)
           os == Append(ops, s[i])
           h == i + 1
<1>1. n \in Nat /\ i \in Nat /\ h % 2 # 0 /\ h - 1 = i
  <2>1. Len(s) \in Nat
    BY LenProperties DEF Alternates
  <2>2. n \in Nat
    BY LenProperties
  <2>3. QED
    BY <2>1, <2>2
<1>2. /\ Cut(s, ts, pos) /\ pos[0] = 0 /\ pos[Len(ts)] = i
      /\ \A j \in 1..n : ops[j] = s[pos[j]]
  BY DEF SeenCut
<1>3. os \in Seq(LowOp) /\ Len(os) = n + 1 /\ os[n + 1] = s[i]
      /\ \A j \in 1..n : os[j] = ops[j]
  BY AppendProperties
<1>4. Len(ts) = n + 1
  OBVIOUS
<1> HIDE DEF n, os, h
<1>5. \A j \in 1..(n + 1) : os[j] = s[pos[j]]
  <2> SUFFICES ASSUME NEW j \in 1..(n + 1) PROVE os[j] = s[pos[j]]
    OBVIOUS
  <2>1. CASE j \in 1..n
    BY <1>2, <1>3, <2>1
  <2>2. CASE j = n + 1
    BY <1>2, <1>3, <1>4, <2>2
  <2>3. QED
    BY <1>1, <2>1, <2>2
<1>6. SeenCut(s, ts, os, h, pos)
  BY <1>1, <1>2, <1>3, <1>4, <1>5 DEF SeenCut
<1>7. QED
  BY <1>6 DEF os, h

\* An operator of high priority and the operand behind it lengthen the last term.
LEMMA SeenCombined ==
  ASSUME NEW s, Alternates(s), NEW ts \in Seq(Seq(Symbol)), ts # <<>>, NEW ops \in Seq(LowOp),
         NEW i \in 1..Len(s), i % 2 = 0, i + 1 <= Len(s), s[i] \notin LowOp,
         Len(ts) = Len(ops) + 1,
         NEW pos, SeenCut(s, ts, ops, i, pos)
  PROVE  \E q : SeenCut(s, Append(Front(ts), Last(ts) \o <<s[i + 1], s[i]>>), ops, i + 2, q)
<1> DEFINE n == Len(ts)
           x == Last(ts) \o <<s[i + 1], s[i]>>
           us == Append(Front(ts), x)
           h == i + 2
<1>1. n \in Nat \ {0} /\ n = Len(ops) + 1 /\ Len(ops) \in Nat
  BY EmptySeq, LenProperties
<1>2. i \in Nat /\ h \in Nat /\ h % 2 = 0
  <2>1. Len(s) \in Nat
    BY LenProperties DEF Alternates
  <2>2. QED
    BY <2>1
<1>3. /\ pos \in [0..n -> Nat] /\ pos[0] = 0 /\ pos[n] = i
      /\ \A j \in 1..n : Term(s, pos[j - 1], pos[j], ts[j])
      /\ \A j \in 1..Len(ops) : ops[j] = s[pos[j]]
  BY DEF SeenCut, Cut
<1>4. Last(ts) = ts[n] /\ n \in 1..n
  BY <1>1 DEF Last
<1>5. Term(s, pos[n - 1], i, ts[n])
  <2> HIDE DEF n
  <2>1. QED
    BY <1>3, <1>4
<1>6. Term(s, pos[n - 1], h, x)
  BY <1>4, <1>5, TermOfMore
<1>7. x \in Seq(Symbol)
  BY <1>6 DEF Term
<1>8. Front(ts) \in Seq(Seq(Symbol)) /\ Len(Front(ts)) = n - 1
  BY Shortened
<1>9. \A j \in 1..(n - 1) : Front(ts)[j] = ts[j]
  <2> SUFFICES ASSUME NEW j \in 1..(n - 1) PROVE Front(ts)[j] = ts[j]
    OBVIOUS
  <2> DEFINE m == n - 1
  <2>1. m \in Nat /\ m <= n /\ 1 \in 1..(n + 1) /\ m \in 0..n /\ j \in 1..m
    BY <1>1
  <2> HIDE DEF m
  <2>2. Front(ts) = SubSeq(ts, 1, m)
    BY DEF Front, m
  <2>3. QED
    <3>1. \A k \in 1..m : k \in 1..n /\ 1 + k - 1 = k
      BY <1>1, <2>1
    <3>2. SubSeq(ts, 1, m) = [k \in 1..m |-> ts[k]]
      BY <2>1, SubSeqProperties
    <3>3. QED
      BY <2>1, <2>2, <3>2
<1> HIDE DEF x, n, h
<1>10. us \in Seq(Seq(Symbol)) /\ Len(us) = n /\ us[n] = x
       /\ \A j \in 1..(n - 1) : us[j] = ts[j]
  <2> DEFINE f == Front(ts)
             m == n - 1
  <2>1. f \in Seq(Seq(Symbol)) /\ Len(f) = m /\ \A j \in 1..m : f[j] = ts[j]
    BY <1>8, <1>9
  <2>2. us = Append(f, x) /\ m + 1 = n
    BY <1>1
  <2> HIDE DEF f, m, us
  <2> DEFINE S == Seq(Symbol)
  <2> f \in Seq(S) /\ x \in S /\ us = Append(f, x) /\ m = Len(f)
    BY <1>7, <2>1, <2>2
  <2> HIDE DEF S
  <2>3. us \in Seq(S) /\ Len(us) = m + 1 /\ us[m + 1] = x
        /\ \A j \in 1..m : us[j] = f[j]
    BY Extended
  <2>4. QED
    BY <2>1, <2>2, <2>3 DEF m, S
<1> HIDE DEF us
<1>11. PICK q : Moves(q, pos, n, h)
  BY <1>1, <1>2, <1>3, Move
<1>12. /\ q \in [0..n -> Nat] /\ q[n] = h
       /\ \A j \in 0..n : j # n => q[j] = pos[j]
  BY <1>11 DEF Moves
<1>13. \A j \in 1..n : Term(s, q[j - 1], q[j], us[j])
  <2> SUFFICES ASSUME NEW j \in 1..n PROVE Term(s, q[j - 1], q[j], us[j])
    OBVIOUS
  <2>1. j - 1 \in 0..n /\ j - 1 # n /\ j \in 0..n
    BY <1>1
  <2>2. q[j - 1] = pos[j - 1]
    BY <1>12, <2>1
  <2>3. CASE j = n
    BY <1>6, <1>10, <1>12, <2>2, <2>3
  <2>4. CASE j # n
    <3>1. j \in 1..(n - 1)
      BY <1>1, <2>4
    <3>2. QED
      BY <1>3, <1>10, <1>12, <2>1, <2>2, <2>4, <3>1
  <2>5. QED
    BY <2>3, <2>4
<1>14. Cut(s, us, q)
  BY <1>10, <1>12, <1>13 DEF Cut
<1>15. q[0] = 0 /\ \A j \in 1..Len(ops) : ops[j] = s[q[j]]
  <2>1. 0 \in 0..n /\ 0 # n /\ \A j \in 1..Len(ops) : j \in 0..n /\ j # n
    BY <1>1
  <2>2. QED
    BY <1>3, <1>12, <2>1
<1>16. SeenCut(s, us, ops, h, q)
  BY <1>2, <1>10, <1>12, <1>14, <1>15 DEF SeenCut
<1>17. QED
  BY <1>16 DEF us, x, h

\* At the end of the loop the terms cover the expression.
LEMMA SeenAll ==
  ASSUME NEW s, Alternates(s), NEW ts \in Seq(Seq(Symbol)), NEW ops \in Seq(LowOp),
         NEW i \in Nat, i = Len(s) + 1, Len(ts) = Len(ops) + 1,
         NEW pos, SeenCut(s, ts, ops, i, pos)
  PROVE  LeftCut(s, ts, ops, <<>>, pos)
<1>1. Len(s) \in Nat /\ Len(s) % 2 = 1 /\ Len(ops) \in Nat
  BY LenProperties DEF Alternates
<1>2. i % 2 = 0
  BY <1>1, Parity
<1>3. Len(ops) = Len(ts) - 1
  BY <1>1
<1>4. QED
  BY <1>2, <1>3 DEF SeenCut, LeftCut

\* The cuts behind the first node.
LEMMA CutBehind ==
  ASSUME NEW s, NEW ts \in Seq(Seq(Symbol)), ts # <<>>, NEW pos, Cut(s, ts, pos)
  PROVE  /\ Len(ts) \in Nat \ {0} /\ Len(Tail(ts)) = Len(ts) - 1
         /\ Term(s, pos[0], pos[1], Head(ts))
         /\ \E q : /\ Cut(s, Tail(ts), q)
                   /\ Drops(q, pos, Len(ts) - 1)
<1> DEFINE n == Len(ts)
           us == Tail(ts)
           m == n - 1
<1>1. n \in Nat \ {0} /\ us \in Seq(Seq(Symbol)) /\ Len(us) = m
      /\ \A j \in 1..Len(us) : us[j] = ts[j + 1]
  BY EmptySeq, HeadTailProperties
<1>2. m \in Nat /\ m + 1 = n
  BY <1>1
<1>3. /\ pos \in [0..n -> Nat]
      /\ \A j \in 1..n : Term(s, pos[j - 1], pos[j], ts[j])
  BY DEF Cut
<1>4. Term(s, pos[0], pos[1], Head(ts))
  <2>1. Head(ts) = ts[1]
    OBVIOUS
  <2>2. 1 \in 1..n /\ 1 - 1 = 0
    BY <1>1
  <2>3. QED
    BY <1>3, <2>1, <2>2
<1> HIDE DEF n, us, m
<1>5. PICK q : Drops(q, pos, m)
  BY <1>2, <1>3, Drop
<1>6. q \in [0..m -> Nat] /\ \A j \in 0..m : q[j] = pos[j + 1]
  BY <1>5 DEF Drops
<1>7. \A j \in 1..m : Term(s, q[j - 1], q[j], us[j])
  <2> SUFFICES ASSUME NEW j \in 1..m PROVE Term(s, q[j - 1], q[j], us[j])
    OBVIOUS
  <2>1. j - 1 \in 0..m /\ j \in 0..m /\ (j - 1) + 1 = j /\ j + 1 \in 1..n /\ (j + 1) - 1 = j
    BY <1>2
  <2>2. q[j - 1] = pos[j] /\ q[j] = pos[j + 1] /\ us[j] = ts[j + 1]
    BY <1>1, <1>6, <2>1
  <2>3. Term(s, pos[j], pos[j + 1], ts[j + 1])
    BY <1>3, <2>1
  <2>4. QED
    BY <2>2, <2>3
<1>8. Cut(s, us, q)
  BY <1>1, <1>6, <1>7 DEF Cut
<1>9. QED
  BY <1>1, <1>4, <1>5, <1>8 DEF us, m, n

\* The first term, and the operator before every other, go to the result.
LEMMA AssembledFirst ==
  ASSUME NEW s, Alternates(s), NEW ts \in Seq(Seq(Symbol)), ts # <<>>, NEW ops \in Seq(LowOp),
         NEW res, ~ (Len(ts) <= Len(ops)),
         NEW pos, LeftCut(s, ts, ops, res, pos)
  PROVE  \E q : LeftCut(s, Tail(ts), ops, res \o Head(ts), q)
<1> DEFINE n == Len(ts)
           us == Tail(ts)
           m == n - 1
           v == res \o Head(ts)
<1>1. /\ n \in Nat \ {0} /\ Len(us) = m /\ m \in Nat /\ m + 1 = n
      /\ Term(s, pos[0], pos[1], Head(ts)) /\ Cut(s, ts, pos)
      /\ Len(ops) \in Nat
  BY CutBehind, LenProperties DEF LeftCut
<1>2. PICK q : Cut(s, us, q) /\ Drops(q, pos, m)
  BY CutBehind DEF LeftCut
<1>3. Head(ts) \in Seq(Symbol)
  BY <1>1 DEF Term
<1>4. /\ pos[0] = 0 /\ res = <<>> /\ Len(ops) = n - 1
      /\ \A j \in 1..Len(ops) : ops[j] = s[pos[j]]
  <2>1. Len(ops) # Len(ts)
    BY <1>1
  <2>2. QED
    BY <2>1 DEF LeftCut
<1>5. v = Head(ts)
  BY <1>3, <1>4, ConcatEmptySeq
<1> HIDE DEF v, n, us, m
<1>6. q[0] = pos[1] /\ q[m] = pos[n]
      /\ \A j \in 1..m : q[j - 1] = pos[j]
  <2>1. 0 \in 0..m /\ m \in 0..m /\ 0 + 1 = 1
        /\ \A j \in 1..m : j - 1 \in 0..m /\ (j - 1) + 1 = j
    BY <1>1
  <2>2. \A j \in 0..m : q[j] = pos[j + 1]
    BY <1>2 DEF Drops
  <2>3. QED
    BY <1>1, <2>1, <2>2
<1>7. Whole(s, q[0], v)
  BY <1>1, <1>4, <1>5, <1>6, WholeFirst
<1>8. Len(ops) = Len(us)
  BY <1>1, <1>4 DEF m
<1>9. q[Len(us)] = Len(s) + 1
  BY <1>1, <1>6 DEF LeftCut, n
<1>10. \A j \in 1..Len(ops) : ops[j] = s[q[j - 1]]
  BY <1>1, <1>4, <1>6, <1>8
<1>11. LeftCut(s, us, ops, v, q)
  BY <1>2, <1>7, <1>8, <1>9, <1>10 DEF LeftCut
<1>12. QED
  BY <1>11 DEF us, v

\* Assembly of an operand and the operator behind it cuts the list one group further on.
LEMMA AssembledMore ==
  ASSUME NEW s, Alternates(s), NEW ts \in Seq(Seq(Symbol)), ts # <<>>, NEW ops \in Seq(LowOp),
         NEW res, Len(ts) <= Len(ops),
         NEW pos, LeftCut(s, ts, ops, res, pos)
  PROVE  \E q : LeftCut(s, Tail(ts), Tail(ops), res \o Head(ts) \o <<Head(ops)>>, q)
<1> DEFINE n == Len(ts)
           us == Tail(ts)
           os == Tail(ops)
           m == n - 1
           v == res \o Head(ts) \o <<Head(ops)>>
<1>1. /\ n \in Nat \ {0} /\ Len(us) = m /\ m \in Nat /\ m + 1 = n
      /\ Term(s, pos[0], pos[1], Head(ts))
      /\ Len(ops) \in Nat
  BY CutBehind, LenProperties DEF LeftCut
<1>2. PICK q : Cut(s, us, q) /\ Drops(q, pos, m)
  BY CutBehind DEF LeftCut
<1>3. /\ Whole(s, pos[0], res) /\ Len(ops) = n
      /\ \A j \in 1..Len(ops) : ops[j] = s[pos[j - 1]]
  <2> DEFINE o == Len(ops)
  <2>1. Len(ops) # Len(ts) - 1
    <3>1. o \in Nat /\ n \in Nat /\ n <= o
      BY <1>1
    <3> HIDE DEF n, o
    <3>2. o # n - 1
      BY <3>1
    <3>3. QED
      BY <3>2 DEF n, o
  <2>2. QED
    BY <2>1 DEF LeftCut
<1>4. ops # <<>>
  BY <1>1, <1>3, EmptySeq
<1>5. Len(os) = m /\ Head(ops) \in LowOp /\ Head(ops) = ops[1]
      /\ \A j \in 1..m : os[j] = ops[j + 1]
  <2>1. Head(ops) \in LowOp /\ Len(os) = n - 1
        /\ \A j \in 1..Len(os) : os[j] = ops[j + 1]
    BY <1>3, <1>4, HeadTailProperties
  <2>2. Head(ops) = ops[1]
    OBVIOUS
  <2>3. QED
    BY <2>1, <2>2
<1>6. Head(ops) = s[pos[0]]
  <2>1. 1 \in 1..Len(ops) /\ 1 - 1 = 0
    BY <1>1, <1>3
  <2>2. QED
    BY <1>3, <1>5, <2>1
<1>7. Whole(s, pos[1], v)
  <2> DEFINE k == pos[0]
             h == pos[1]
             d == Head(ts)
  <2>1. Whole(s, k, res) /\ Term(s, k, h, d) /\ s[k] \in LowOp
    BY <1>1, <1>3, <1>5, <1>6
  <2> HIDE DEF k, h, d
  <2>2. Whole(s, h, res \o d \o <<s[k]>>)
    BY <2>1, WholeMore
  <2>3. QED
    BY <1>6, <2>2 DEF k, h, d
<1>8. Cut(s, ts, pos) /\ pos[n] = Len(s) + 1
  BY DEF LeftCut
<1> HIDE DEF v, n, us, os, m
<1>9. q[0] = pos[1] /\ q[m] = pos[n]
      /\ \A j \in 1..m : q[j - 1] = pos[j]
  <2>1. 0 \in 0..m /\ m \in 0..m /\ 0 + 1 = 1
        /\ \A j \in 1..m : j - 1 \in 0..m /\ (j - 1) + 1 = j
    BY <1>1
  <2>2. \A j \in 0..m : q[j] = pos[j + 1]
    BY <1>2 DEF Drops
  <2>3. QED
    BY <1>1, <2>1, <2>2
<1>10. \A j \in 1..m : os[j] = s[q[j - 1]]
  <2> SUFFICES ASSUME NEW j \in 1..m PROVE os[j] = s[q[j - 1]]
    OBVIOUS
  <2>1. j + 1 \in 1..Len(ops) /\ (j + 1) - 1 = j
    BY <1>1, <1>3
  <2>2. ops[j + 1] = s[pos[j]]
    BY <1>3, <2>1
  <2>3. QED
    BY <1>5, <1>9, <2>2
<1>11. LeftCut(s, us, os, v, q)
  BY <1>1, <1>2, <1>5, <1>7, <1>8, <1>9, <1>10 DEF LeftCut
<1>12. QED
  BY <1>11 DEF us, os, v

\* When both deques are empty the result is the code of the whole expression.
LEMMA AssembledAll ==
  ASSUME NEW s, Alternates(s), NEW res, NEW pos, LeftCut(s, <<>>, <<>>, res, pos)
  PROVE  res = Postfix(s)
<1> DEFINE z == <<>>
           n == Len(s)
           h == n + 1
<1>1. Len(z) = 0
  BY EmptySeq
<1>2. LeftCut(s, z, z, res, pos)
  OBVIOUS
<1>3. n \in Nat /\ h - 1 = n
  BY LenProperties DEF Alternates
<1> HIDE DEF z
<1>4. pos[0] = h /\ Whole(s, pos[0], res)
  BY <1>1, <1>2 DEF LeftCut
<1> HIDE DEF n, h
<1>5. res = Code(s)[<<1, n>>]
  BY <1>3, <1>4 DEF Whole
<1>6. QED
  BY <1>5 DEF Postfix, n

-----------------------------------------------------------------------------
FlatPart == phase = "flat" =>
  /\ Alternates(nodes) /\ result = <<>>
  /\ \E pos : SeenCut(nodes, temps, operators, iterator, pos)

LeftPart == phase = "assemble" =>
  /\ Alternates(nodes)
  /\ \E pos : LeftCut(nodes, temps, operators, result, pos)

\* What the loops have done is the postfix order of what they have seen.
PostfixInv ==
  /\ phase = "visit" => result = <<>>
  /\ FlatPart
  /\ LeftPart
  /\ PostfixOfGrammar

\* Nothing is grouped at the beginning.
LEMMA InitPostfix == Init => PostfixInv
BY DEF Init, PostfixInv, FlatPart, LeftPart, PostfixOfGrammar

\* Before the loop nothing has been seen.
LEMMA SeenNothing ==
  ASSUME NEW s
  PROVE  \E pos : SeenCut(s, <<>>, <<>>, 1, pos)
<1> DEFINE pos == [j \in 0..0 |-> 0]
           z == <<>>
<1>1. pos \in [0..0 -> Nat] /\ pos[0] = 0 /\ Len(z) = 0 /\ 1..0 = {}
  BY EmptySeq
<1>2. 1 % 2 # 0 /\ 1 - 1 = 0
  OBVIOUS
<1> HIDE DEF pos, z
<1>3. Cut(s, z, pos)
  BY <1>1 DEF Cut
<1>4. SeenCut(s, z, z, 1, pos)
  BY <1>1, <1>2, <1>3 DEF SeenCut
<1>5. QED
  BY <1>4 DEF z

\* The list is cut nowhere before the loop.
LEMMA FlatPostfix ==
  ASSUME IndInv, PostfixInv, Flat
  PROVE  PostfixInv'
<1>1. /\ phase = "visit" /\ temps = <<>> /\ operators = <<>> /\ iterator = 1 /\ result = <<>>
      /\ UNCHANGED <<prefix, binaries, iterator, temps, operators, result>>
  BY DEF Flat, Return, IndInv, DequesBalanced, PostfixInv
<1>2. CASE phase' = "error"
  BY <1>2 DEF PostfixInv, FlatPart, LeftPart, PostfixOfGrammar
<1>3. CASE phase' = "flat"
  <2>1. nodes' \in Seq(Symbol) /\ Alternating'
    BY <1>3, FlatNodes
  <2>2. Alternates(nodes')
    <3>1. DOMAIN nodes' = 1..Len(nodes')
      BY <2>1, LenProperties
    <3>2. QED
      BY <2>1, <3>1 DEF Alternates, Alternating
  <2>3. \E pos : SeenCut(nodes', temps', operators', iterator', pos)
    BY <1>1, SeenNothing
  <2>4. QED
    BY <1>1, <1>3, <2>2, <2>3 DEF PostfixInv, FlatPart, LeftPart, PostfixOfGrammar
<1>4. QED
  BY <1>2, <1>3 DEF Flat, Return

\* What the steps of the loop have in common.
LEMMA LoopPostfix ==
  ASSUME phase' = "flat", Alternates(nodes'), result' = <<>>,
         \E pos : SeenCut(nodes', temps', operators', iterator', pos)
  PROVE  PostfixInv'
BY DEF PostfixInv, FlatPart, LeftPart, PostfixOfGrammar

\* An operand is a group of its own.
LEMMA PushOperandPostfix ==
  ASSUME IndInv, PostfixInv, PushOperand
  PROVE  PostfixInv'
<1>1. phase = "flat" /\ iterator \in DOMAIN nodes /\ nodes[iterator] \in Operands
  BY DEF PushOperand, At
<1>2. /\ iterator \in 1..Len(nodes) /\ iterator % 2 = 1 /\ Len(operators) = Len(temps)
      /\ temps \in Seq(Seq(Symbol)) /\ operators \in Seq(LowOp)
  BY <1>1, LoopFacts
<1>3. Alternates(nodes) /\ result = <<>>
  BY <1>1 DEF PostfixInv, FlatPart
<1>4. PICK pos : SeenCut(nodes, temps, operators, iterator, pos)
  BY <1>1 DEF PostfixInv, FlatPart
<1>5. /\ temps' = Append(temps, <<nodes[iterator]>>) /\ iterator' = iterator + 1
      /\ UNCHANGED <<phase, nodes, operators, result>>
  BY DEF PushOperand, Advance
<1>6. \E q : SeenCut(nodes', temps', operators', iterator', q)
  BY <1>2, <1>3, <1>4, <1>5, SeenOperand
<1>7. QED
  BY <1>1, <1>3, <1>5, <1>6, LoopPostfix

\* An operator of low priority ends one.
LEMMA PushOperatorPostfix ==
  ASSUME IndInv, PostfixInv, PushOperator
  PROVE  PostfixInv'
<1>1. phase = "flat" /\ iterator \in DOMAIN nodes /\ nodes[iterator] \in LowOp
      /\ nodes[iterator] \in Op
  BY DEF PushOperator, At, Op
<1>2. /\ iterator \in 1..Len(nodes) /\ iterator % 2 = 0 /\ Len(temps) = Len(operators) + 1
      /\ temps \in Seq(Seq(Symbol)) /\ operators \in Seq(LowOp)
  BY <1>1, LoopFacts
<1>3. Alternates(nodes) /\ result = <<>>
  BY <1>1 DEF PostfixInv, FlatPart
<1>4. PICK pos : SeenCut(nodes, temps, operators, iterator, pos)
  BY <1>1 DEF PostfixInv, FlatPart
<1>5. /\ operators' = Append(operators, nodes[iterator]) /\ iterator' = iterator + 1
      /\ UNCHANGED <<phase, nodes, temps, result>>
  BY DEF PushOperator, Advance
<1>6. SeenCut(nodes', temps', operators', iterator', pos)
  BY <1>1, <1>2, <1>3, <1>4, <1>5, SeenOperator
<1>7. QED
  BY <1>1, <1>3, <1>5, <1>6, LoopPostfix

\* One of high priority puts the operand behind it into the group.
LEMMA CombinePostfix ==
  ASSUME IndInv, PostfixInv, Combine
  PROVE  PostfixInv'
<1>1. /\ phase = "flat" /\ iterator \in DOMAIN nodes /\ nodes[iterator] \in HighOp
      /\ At(HighOp)
  BY DEF Combine, At
<1>2. /\ temps # <<>> /\ iterator % 2 = 0 /\ iterator + 1 \in DOMAIN nodes
  BY <1>1, HighOperator
<1>3. /\ iterator \in 1..Len(nodes) /\ Len(temps) = Len(operators) + 1
      /\ iterator + 1 <= Len(nodes)
      /\ temps \in Seq(Seq(Symbol)) /\ operators \in Seq(LowOp)
  <2>1. DOMAIN nodes = 1..Len(nodes) /\ Len(nodes) \in Nat
    BY <1>1, LoopFacts
  <2>2. QED
    BY <1>1, <1>2, <2>1, LoopFacts
<1>4. Alternates(nodes) /\ result = <<>>
  BY <1>1 DEF PostfixInv, FlatPart
<1>5. PICK pos : SeenCut(nodes, temps, operators, iterator, pos)
  BY <1>1 DEF PostfixInv, FlatPart
<1>6. nodes[iterator] \notin LowOp
  BY <1>1 DEF HighOp, LowOp
<1>7. /\ temps' = Append(Front(temps), Last(temps) \o <<nodes[iterator + 1], nodes[iterator]>>)
      /\ iterator' = iterator + 2
      /\ UNCHANGED <<phase, nodes, operators, result>>
  BY DEF Combine, Advance
<1>8. \E q : SeenCut(nodes, Append(Front(temps), Last(temps) \o <<nodes[iterator + 1], nodes[iterator]>>),
                     operators, iterator + 2, q)
  BY <1>2, <1>3, <1>4, <1>5, <1>6, SeenCombined
<1>9. \E q : SeenCut(nodes', temps', operators', iterator', q)
  BY <1>7, <1>8
<1>10. QED
  BY <1>1, <1>4, <1>7, <1>9, LoopPostfix

\* What the steps behind the loop have in common.
LEMMA LeftPostfix ==
  ASSUME phase' = "assemble", Alternates(nodes'),
         \E pos : LeftCut(nodes', temps', operators', result', pos)
  PROVE  PostfixInv'
BY DEF PostfixInv, FlatPart, LeftPart, PostfixOfGrammar

\* All elements are in groups when the loop ends.
LEMMA EndLoopPostfix ==
  ASSUME IndInv, PostfixInv, EndLoop
  PROVE  PostfixInv'
<1>1. /\ phase = "flat" /\ iterator > Len(nodes) /\ phase' = "assemble"
      /\ UNCHANGED <<nodes, temps, operators, result>>
  BY DEF EndLoop
<1>2. Alternates(nodes) /\ result = <<>>
  BY <1>1 DEF PostfixInv, FlatPart
<1>3. PICK pos : SeenCut(nodes, temps, operators, iterator, pos)
  BY <1>1 DEF PostfixInv, FlatPart
<1>4. /\ iterator \in Nat /\ iterator = Len(nodes) + 1 /\ Len(temps) = Len(operators) + 1
      /\ temps \in Seq(Seq(Symbol)) /\ operators \in Seq(LowOp)
  <2>1. iterator \in Nat /\ Len(nodes) \in Nat /\ iterator <= Len(nodes) + 1 /\ Len(nodes) % 2 = 1
    BY <1>1, LoopFacts
  <2>2. iterator = Len(nodes) + 1 /\ iterator % 2 = 0
    BY <1>1, <2>1
  <2>3. QED
    BY <1>1, <2>1, <2>2, LoopFacts
<1>5. LeftCut(nodes, temps, operators, <<>>, pos)
  BY <1>2, <1>3, <1>4, SeenAll
<1>6. QED
  BY <1>1, <1>2, <1>5, LeftPostfix

\* Assembly joins the groups from the left.
LEMMA AssemblePostfix ==
  ASSUME IndInv, PostfixInv, Assemble
  PROVE  PostfixInv'
<1>1. /\ phase = "assemble" /\ Remaining /\ Take(Len(temps) <= Len(operators))
      /\ phase' = phase /\ nodes' = nodes
  BY DEF Assemble, Take
<1>2. temps \in Seq(Seq(Symbol)) /\ operators \in Seq(LowOp) /\ temps # <<>>
  BY <1>1, OperandLeft
<1>3. Alternates(nodes)
  BY <1>1 DEF PostfixInv, LeftPart
<1>4. PICK pos : LeftCut(nodes, temps, operators, result, pos)
  BY <1>1 DEF PostfixInv, LeftPart
<1>5. CASE Len(temps) <= Len(operators)
  <2>1. /\ temps' = Tail(temps) /\ operators' = Tail(operators)
        /\ result' = result \o Head(temps) \o <<Head(operators)>>
    BY <1>1, <1>5 DEF Take
  <2>2. \E q : LeftCut(nodes, Tail(temps), Tail(operators),
                       result \o Head(temps) \o <<Head(operators)>>, q)
    BY <1>2, <1>3, <1>4, <1>5, AssembledMore
  <2>3. \E q : LeftCut(nodes', temps', operators', result', q)
    BY <1>1, <2>1, <2>2
  <2>4. QED
    BY <1>1, <1>3, <2>3, LeftPostfix
<1>6. CASE ~ (Len(temps) <= Len(operators))
  <2>1. temps' = Tail(temps) /\ operators' = operators /\ result' = result \o Head(temps)
    BY <1>1, <1>6 DEF Take
  <2>2. \E q : LeftCut(nodes, Tail(temps), operators, result \o Head(temps), q)
    BY <1>2, <1>3, <1>4, <1>6, AssembledFirst
  <2>3. \E q : LeftCut(nodes', temps', operators', result', q)
    BY <1>1, <2>1, <2>2
  <2>4. QED
    BY <1>1, <1>3, <2>3, LeftPostfix
<1>7. QED
  BY <1>5, <1>6

\* The result is the postfix form of all of it.
LEMMA FinishPostfix ==
  ASSUME IndInv, PostfixInv, Finish
  PROVE  PostfixInv'
<1>1. /\ phase = "assemble" /\ temps = <<>> /\ operators = <<>>
      /\ phase' = "done" /\ result' = result /\ nodes' = nodes
  BY DEF Finish, Remaining, Return
<1>2. Alternates(nodes)
  BY <1>1 DEF PostfixInv, LeftPart
<1>3. PICK pos : LeftCut(nodes, <<>>, <<>>, result, pos)
  BY <1>1 DEF PostfixInv, LeftPart
<1>4. result = Postfix(nodes)
  BY <1>2, <1>3, AssembledAll
<1>5. QED
  BY <1>1, <1>4 DEF PostfixInv, FlatPart, LeftPart, PostfixOfGrammar

\* Every step keeps that.
LEMMA NextPostfix ==
  ASSUME IndInv, PostfixInv, [Next]_vars
  PROVE  PostfixInv'
<1>1. CASE Assign
  BY <1>1 DEF Assign, Return, PostfixInv, FlatPart, LeftPart, PostfixOfGrammar
<1>2. CASE Flat
  BY <1>2, FlatPostfix
<1>3. CASE PushOperand
  BY <1>3, PushOperandPostfix
<1>4. CASE PushOperator
  BY <1>4, PushOperatorPostfix
<1>5. CASE Combine
  BY <1>5, CombinePostfix
<1>6. CASE EndLoop
  BY <1>6, EndLoopPostfix
<1>7. CASE Assemble
  BY <1>7, AssemblePostfix
<1>8. CASE Finish
  BY <1>8, FinishPostfix
<1>9. CASE UNCHANGED vars
  BY <1>9 DEF vars, PostfixInv, FlatPart, LeftPart, PostfixOfGrammar
<1>10. QED
  BY <1>1, <1>2, <1>3, <1>4, <1>5, <1>6, <1>7, <1>8, <1>9 DEF Next

\* For every expression, the nodes the function returns are its postfix order
\* under the two priorities (the end of TypeGen::visit(Expr)).
THEOREM PostfixOrder == Spec => []PostfixOfGrammar
<1>1. PostfixInv => PostfixOfGrammar
  BY DEF PostfixInv
<1>2. Init => IndInv /\ PostfixInv
  BY InitInv, InitPostfix
<1>3. IndInv /\ PostfixInv /\ [Next]_vars => (IndInv /\ PostfixInv)'
  BY NextStep, NextPostfix
<1>4. QED
  BY <1>1, <1>2, <1>3, PTL DEF Spec
=============================================================================

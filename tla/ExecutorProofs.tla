---------------------------- MODULE ExecutorProofs --------------------------
(***************************************************************************)
(* Proofs about the executor, for every function table and every bound:    *)
(* its frames, its stack pointer, and that it implements the machine of    *)
(* calls.                                                                  *)
(***************************************************************************)
EXTENDS ExecutorProps, SequenceTheorems, TLAPS

\* The locals of every activation lie in the stack, and the result of a call
\* fits among the operands of its caller.
LocalsInStack == \A k \in 1..Len(calls) : Operands(calls[k]) <= StackWords

ResultsFit ==
  \A k \in 1..(Len(calls) - 1) :
    calls[k].depth + ResultWords(calls[k + 1].fn) <= MaxOperands

\* The inductive invariant. The stack pointer law speaks of the activations in
\* `calls`; their agreement with `frames` makes fp and the popped frame the
\* ones the law is about; loads and stores then stay inside the stack.
IndInv == /\ TypeOK
          /\ FrameDiscipline
          /\ StackPointerLaw
          /\ LocalsInStack
          /\ ResultsFit

\* What the proofs add for programs with static code only.
NothingLost == \A k \in 1..Len(calls) : calls[k].lost = 0

StaticInv == IndInv /\ NothingLost /\ LayeredActivations

\* The words a function takes, removes and leaves are natural numbers; a call
\* of a C function removes exactly its arguments, a call of a VM function at
\* least those.
LEMMA WordCounts ==
  ASSUME NEW f \in Funcs
  PROVE  /\ Decl[f] \in FunctionDecl
         /\ ArgumentWords(f) \in Nat
         /\ RemovedWords(f) \in Nat
         /\ ResultWords(f) \in 0..1
         /\ ExcessWords(f) \in Nat
         /\ RemovedWords(f) = ArgumentWords(f) + ExcessWords(f)
         /\ ~ IsVM(f) => RemovedWords(f) = ArgumentWords(f)
         /\ IsVM(f) => ArgumentWords(f) = Decl[f].paramCount
         /\ OnlyStaticCode => ExcessWords(f) = 0
<1>1. Decl[f] \in FunctionDecl
  BY FunctionTable
<1>2. QED
  BY <1>1 DEF FunctionDecl, ArgumentWords, RemovedWords, ResultWords,
              ExcessWords, IsVM, OnlyStaticCode

\* Removing the last element of a nonempty sequence.
LEMMA FrontLast ==
  ASSUME NEW S, NEW s \in Seq(S), s # <<>>
  PROVE  /\ Len(s) \in Nat \ {0}
         /\ Last(s) = s[Len(s)]
         /\ Last(s) \in S
         /\ Front(s) \in Seq(S)
         /\ Len(Front(s)) = Len(s) - 1
         /\ \A i \in 1..(Len(s) - 1) : Front(s)[i] = s[i]
<1> DEFINE m == Len(s) - 1
<1>1. Len(s) \in Nat \ {0} /\ m \in Nat
  BY EmptySeq
<1>2. \A i \in 1..m : s[i] \in S
  BY <1>1, ElementOfSeq
<1> HIDE DEF m
<1>3. /\ SubSeq(s, 1, m) \in Seq(S)
      /\ Len(SubSeq(s, 1, m)) = m
      /\ \A i \in 1..m : SubSeq(s, 1, m)[i] = s[i]
  <2>1. /\ SubSeq(s, 1, m) \in Seq(S)
        /\ Len(SubSeq(s, 1, m)) = IF 1 <= m THEN m - 1 + 1 ELSE 0
        /\ \A i \in 1..(m - 1 + 1) : SubSeq(s, 1, m)[i] = s[1 + i - 1]
    BY <1>1, <1>2, SubSeqProperties
  <2>2. \A i \in 1..m : 1 + i - 1 = i /\ i \in 1..(m - 1 + 1)
    BY <1>1
  <2>3. QED
    BY <1>1, <2>1, <2>2
<1>4. s[Len(s)] \in S
  BY <1>1, ElementOfSeq
<1>5. QED
  BY <1>1, <1>3, <1>4 DEF Last, Front, m

\* The fields of an activation and where its locals and operands begin.
LEMMA CallFacts ==
  ASSUME NEW c \in Call
  PROVE  /\ c.fn \in Funcs
         /\ c.savedFP \in Nat /\ c.savedFP < StackWords
         /\ c.depth \in Nat /\ c.depth <= MaxOperands
         /\ c.lost \in Nat
         /\ Decl[c.fn].localVarCount \in Nat
         /\ Locals(c) = c.savedFP + 2
         /\ Operands(c) = c.savedFP + 2 + Decl[c.fn].localVarCount
         /\ Operands(c) \in Nat
<1>1. /\ c.fn \in Funcs
      /\ c.savedFP \in 0..(StackWords - 1)
      /\ c.depth \in 0..MaxOperands
      /\ c.lost \in Nat
  BY DEF Call, Word
<1>2. Decl[c.fn].localVarCount \in Nat
  BY <1>1, WordCounts DEF FunctionDecl
<1>3. QED
  BY <1>1, <1>2, StackBounds DEF Locals, Operands, Header

\* The position of the caller of an activation that is not the outermost.
LEMMA CallerPosition ==
  ASSUME NEW n \in Nat \ {0}, n # 1
  PROVE  /\ n >= 2 /\ n - 1 \in 1..n /\ n - 1 \in Nat \ {0}
         /\ n = n - 1 + 1
OBVIOUS

\* What IndInv says of the running activation.
LEMMA TopFacts ==
  ASSUME IndInv, phase = "running"
  PROVE  /\ Len(calls) \in Nat \ {0}
         /\ Top = calls[Len(calls)]
         /\ Top \in Call
         /\ Decl[Top.fn] \in FunctionDecl
         /\ fp = Top.savedFP
         /\ IsVM(Top.fn)
         /\ sp = Operands(Top) + Top.depth - Top.lost
         /\ Operands(Top) <= StackWords
<1>1. calls \in Seq(Call) /\ calls # <<>>
  BY DEF IndInv, TypeOK, FrameDiscipline
<1>2. /\ Len(calls) \in Nat \ {0}
      /\ Top = calls[Len(calls)]
      /\ Top \in Call
  BY <1>1, FrontLast DEF Top
<1>3. QED
  BY <1>2, WordCounts
     DEF IndInv, FrameDiscipline, StackPointerLaw, LocalsInStack, Call

\* The invariant holds of the executor before it starts.
LEMMA InitIndInv == Init => IndInv
<1> SUFFICES ASSUME Init PROVE IndInv
  OBVIOUS
<1>1. /\ frames \in Seq(Word) /\ calls \in Seq(Call)
      /\ Len(calls) = 0
  BY EmptySeq DEF Init
<1>2. TypeOK
  BY <1>1, StackBounds DEF Init, TypeOK
<1>3. FrameDiscipline /\ StackPointerLaw /\ LocalsInStack /\ ResultsFit
  BY <1>1
     DEF Init, FrameDiscipline, StackPointerLaw, LocalsInStack, ResultsFit
<1>4. QED
  BY <1>2, <1>3 DEF IndInv

\* An instruction that stays in the running activation changes, of all the
\* activations, only the operand count of the running one.
LEMMA TakesShape ==
  ASSUME IndInv, phase = "running",
         NEW taken \in Nat, NEW given \in Nat, Takes(taken, given)
  PROVE  /\ UNCHANGED <<phase, fp, frames>>
         /\ calls' \in Seq(Call)
         /\ Len(calls') = Len(calls)
         /\ Top' = calls'[Len(calls)]
         /\ Top'.depth = Top.depth - taken + given
         /\ \A k \in 1..Len(calls) :
              /\ calls[k] \in Call
              /\ calls'[k].fn = calls[k].fn
              /\ calls'[k].savedFP = calls[k].savedFP
              /\ calls'[k].lost = calls[k].lost
              /\ k # Len(calls) => calls'[k] = calls[k]
<1> DEFINE n == Len(calls)
           d == Top.depth - taken + given
<1>1. /\ calls \in Seq(Call)
      /\ n \in Nat \ {0}
      /\ Top = calls[n] /\ Top \in Call
  BY TopFacts DEF IndInv, TypeOK
<1>2. /\ calls' = [calls EXCEPT ![n].depth = d]
      /\ d \in 0..MaxOperands
      /\ UNCHANGED <<phase, fp, frames>>
  BY <1>1, StackBounds DEF Takes, Call
<1>3. [calls[n] EXCEPT !.depth = d] \in Call
  BY <1>1, <1>2 DEF Call
<1>4. /\ calls' \in Seq(Call)
      /\ Len(calls') = n
      /\ \A k \in 1..n : calls'[k] = IF k = n THEN [calls[n] EXCEPT !.depth = d]
                                              ELSE calls[k]
  BY <1>1, <1>2, <1>3, ExceptSeq
<1>5. \A k \in 1..n : /\ calls[k] \in Call
                      /\ calls'[k].fn = calls[k].fn
                      /\ calls'[k].savedFP = calls[k].savedFP
                      /\ calls'[k].lost = calls[k].lost
  BY <1>1, <1>3, <1>4, ElementOfSeq DEF Call
<1>6. /\ Top' = calls'[n]
      /\ Top'.depth = d
  <2>1. Top' = calls'[n]
    BY <1>4 DEF Top, Last
  <2>2. calls'[n] = [calls[n] EXCEPT !.depth = d]
    BY <1>1, <1>4
  <2>3. [calls[n] EXCEPT !.depth = d].depth = d
    BY <1>1 DEF Call
  <2>4. QED
    BY <2>1, <2>2, <2>3
<1>7. QED
  BY <1>2, <1>4, <1>5, <1>6

\* Every instruction that stays in the running activation moves sp as the
\* generator's operand count moves.
LEMMA InstructionStep ==
  ASSUME IndInv, phase = "running",
         NEW taken \in Nat, NEW given \in Nat, Takes(taken, given),
         sp' = sp - taken + given, sp' \in 0..StackWords,
         stack' \in [Word -> Values]
  PROVE  IndInv'
<1> DEFINE n == Len(calls)
           d == Top.depth - taken + given
<1>1. /\ calls \in Seq(Call)
      /\ n \in Nat \ {0}
      /\ Top = calls[n] /\ Top \in Call
      /\ Decl[Top.fn] \in FunctionDecl
      /\ sp = Operands(Top) + Top.depth - Top.lost
  BY TopFacts DEF IndInv, TypeOK
<1>2. UNCHANGED <<phase, fp, frames>>
  BY TakesShape
<1>4. /\ calls' \in Seq(Call)
      /\ Len(calls') = n
      /\ \A k \in 1..n : k # n => calls'[k] = calls[k]
  BY TakesShape
<1>5. \A k \in 1..n : /\ calls[k] \in Call
                      /\ calls'[k].fn = calls[k].fn
                      /\ calls'[k].savedFP = calls[k].savedFP
                      /\ calls'[k].lost = calls[k].lost
  BY TakesShape
<1>6. /\ Top' = calls'[n]
      /\ Top'.depth = d
  BY TakesShape
<1>7. TypeOK'
  BY <1>2, <1>4 DEF IndInv, TypeOK
<1>8. FrameDiscipline'
  BY <1>1, <1>2, <1>4, <1>5, <1>6, EmptySeq DEF IndInv, FrameDiscipline
<1>9. StackPointerLaw'
  <2>1. sp' = Operands(Top)' + Top'.depth - Top'.lost
    <3>1. /\ Top'.fn = Top.fn
          /\ Top'.savedFP = Top.savedFP
          /\ Top'.lost = Top.lost
      BY <1>1, <1>5, <1>6
    <3>2. Operands(Top)' = Operands(Top)
      BY <3>1 DEF Operands, Locals
    <3>3. /\ Operands(Top) \in Nat
          /\ Top.depth \in Nat
          /\ Top.lost \in Nat
      BY <1>1, CallFacts
    <3>4. QED
      BY <1>1, <1>6, <3>1, <3>2, <3>3, SMTT(30)
  <2>2. \A k \in 1..(n - 1) : calls'[k] = calls[k]
    BY <1>1, <1>4
  <2>3. \A k \in 1..(n - 1) :
          calls'[k + 1].savedFP = Operands(calls'[k]) + calls'[k].depth
             - calls'[k].lost + ArgumentWords(calls'[k + 1].fn)
    <3> SUFFICES ASSUME NEW k \in 1..(n - 1)
                 PROVE  calls'[k + 1].savedFP
                          = Operands(calls'[k]) + calls'[k].depth
                              - calls'[k].lost + ArgumentWords(calls'[k + 1].fn)
      OBVIOUS
    <3>1. k + 1 \in 1..n
      BY <1>1
    <3>2. calls[k + 1].savedFP = Operands(calls[k]) + calls[k].depth
             - calls[k].lost + ArgumentWords(calls[k + 1].fn)
      BY DEF IndInv, StackPointerLaw
    <3>3. QED
      BY <2>2, <3>1, <3>2, <1>5
  <2>4. QED
    BY <2>1, <2>3, <1>4 DEF StackPointerLaw, Operands, Locals, ArgumentWords, IsVM
<1>10. LocalsInStack'
  BY <1>4, <1>5 DEF IndInv, LocalsInStack, Operands, Locals
<1>11. ResultsFit'
  <2>1. ASSUME NEW k \in 1..(n - 1)
        PROVE  calls'[k].depth + ResultWords(calls'[k + 1].fn) <= MaxOperands
    <3>1. k \in 1..n /\ k # n /\ k + 1 \in 1..n
      BY <1>1
    <3>2. calls'[k] = calls[k] /\ calls'[k + 1].fn = calls[k + 1].fn
      BY <1>4, <1>5, <3>1
    <3>3. QED
      BY <3>2 DEF IndInv, ResultsFit
  <2>2. QED
    BY <1>4, <2>1 DEF ResultsFit, ResultWords
<1>12. QED
  BY <1>7, <1>8, <1>9, <1>10, <1>11 DEF IndInv

\* Instructions that take and leave operands keep it.
LEMMA ComputeStep ==
  ASSUME IndInv, phase = "running", NEW taken \in Nat, NEW v \in Values,
         Compute(taken, v)
  PROVE  IndInv'
<1>1. /\ Takes(taken, 1)
      /\ sp - taken \in 0..(StackWords - 1)
      /\ sp' = sp - taken + 1
      /\ stack' \in [Word -> Values]
  BY DEF Compute, PushAt, Word, IndInv, TypeOK
<1>2. sp' \in 0..StackWords
  BY <1>1, StackBounds
<1>3. QED
  BY <1>1, <1>2, InstructionStep

\* POP keeps it.
LEMMA DiscardStep ==
  ASSUME IndInv, phase = "running", NEW taken \in Nat, Discard(taken)
  PROVE  IndInv'
<1>1. /\ Takes(taken, 0)
      /\ sp - taken \in 0..(StackWords - 1)
      /\ sp' = sp - taken
      /\ sp \in Nat
      /\ stack' \in [Word -> Values]
  BY StackBounds DEF Discard, Word, IndInv, TypeOK
<1>2. sp' \in 0..StackWords /\ sp' = sp - taken + 0
  BY <1>1, StackBounds
<1>3. QED
  BY <1>1, <1>2, InstructionStep

\* The local variables of the running activation lie in the stack.
LEMMA LocalInStack ==
  ASSUME IndInv, phase = "running",
         NEW i \in 0..(Decl[Top.fn].localVarCount - 1)
  PROVE  fp + Header + i \in Word
<1>1. /\ fp = Top.savedFP /\ Top \in Call
      /\ Operands(Top) <= StackWords
  BY TopFacts
<1>2. QED
  BY <1>1, CallFacts, StackBounds DEF Word, Header

\* A load keeps it.
LEMMA LoadStep ==
  ASSUME IndInv, phase = "running",
         NEW i \in 0..(Decl[Top.fn].localVarCount - 1), Load(i)
  PROVE  IndInv'
<1>1. fp + Header + i \in Word
  BY LocalInStack
<1>2. /\ Takes(0, 1)
      /\ sp \in 0..(StackWords - 1)
      /\ sp' = sp + 1
      /\ stack' \in [Word -> Values]
  BY <1>1 DEF Load, PushAt, Word, IndInv, TypeOK
<1>3. sp' \in 0..StackWords /\ sp' = sp - 0 + 1
  BY <1>2, StackBounds
<1>4. QED
  BY <1>2, <1>3, InstructionStep

\* A store keeps it: it writes a local of the running activation.
LEMMA StoreStep ==
  ASSUME IndInv, phase = "running",
         NEW i \in 0..(Decl[Top.fn].localVarCount - 1), Store(i)
  PROVE  IndInv'
<1>0. /\ stack \in [Word -> Values]
      /\ sp \in 0..StackWords
      /\ sp - 1 \in 0..(StackWords - 1)
  BY DEF Store, IndInv, TypeOK, Word
<1>1. /\ Takes(1, 0)
      /\ sp' = sp - 1
      /\ stack' = [stack EXCEPT ![fp + Header + i] = stack[sp - 1]]
  BY DEF Store
<1>3. stack[sp - 1] \in Values
  BY <1>0 DEF Word
<1>4. stack' \in [Word -> Values]
  BY <1>0, <1>1, <1>3
<1>5. sp' \in 0..StackWords /\ sp' = sp - 1 + 0
  BY <1>0, <1>1, StackBounds
<1>6. QED
  BY <1>1, <1>4, <1>5, InstructionStep

\* DUP keeps it.
LEMMA DupStep ==
  ASSUME IndInv, phase = "running", Dup
  PROVE  IndInv'
<1>1. /\ Takes(1, 2)
      /\ sp \in 0..(StackWords - 1)
      /\ sp' = sp + 1
      /\ stack' \in [Word -> Values]
  BY DEF Dup, PushAt, Word, IndInv, TypeOK
<1>2. sp' \in 0..StackWords /\ sp' = sp - 1 + 2
  BY <1>1, StackBounds
<1>3. QED
  BY <1>1, <1>2, InstructionStep

\* A call of a built-in function keeps it.
LEMMA InvokeCStep ==
  ASSUME IndInv, phase = "running",
         NEW f \in Funcs, NEW v \in Values, InvokeC(f, v)
  PROVE  IndInv'
<1> DEFINE base == sp - RemovedWords(f)
<1>1. /\ ArgumentWords(f) \in Nat
      /\ ResultWords(f) \in 0..1
      /\ RemovedWords(f) = ArgumentWords(f)
      /\ Decl[f] \in FunctionDecl
  BY WordCounts DEF InvokeC
<1>2. /\ Takes(ArgumentWords(f), ResultWords(f))
      /\ sp + 2 <= StackWords
      /\ base \in 0..StackWords
      /\ sp' = base + ResultWords(f)
      /\ sp \in 0..StackWords
      /\ stack \in [Word -> Values]
  BY DEF InvokeC, AfterCall, Header, IndInv, TypeOK
<1>3. sp \in Word
  BY <1>2, StackBounds DEF Word
<1>4. [stack EXCEPT ![sp] = v] \in [Word -> Values]
  BY <1>2, <1>3
<1>5. stack' \in [Word -> Values]
  BY <1>4 DEF InvokeC, AfterCall
<1>6. sp' = sp - ArgumentWords(f) + ResultWords(f) /\ sp' \in 0..StackWords
  BY <1>1, <1>2, StackBounds
<1>7. ArgumentWords(f) \in Nat /\ ResultWords(f) \in Nat
  BY <1>1
<1>8. QED
  BY <1>2, <1>5, <1>6, <1>7, InstructionStep

\* The state of stack and registers when a VM function begins to run.
LEMMA EnterFacts ==
  ASSUME stack \in [Word -> Values], NEW f \in Funcs, NEW frame \in Nat,
         Enter(f, frame)
  PROVE  /\ fp' = frame
         /\ frame \in Word
         /\ sp' = frame + 2 + Decl[f].localVarCount
         /\ sp' \in 0..StackWords
         /\ stack' \in [Word -> Values]
         /\ Len(frames) <= MaxCalls
<1> DEFINE n == Decl[f].localVarCount
           p == Decl[f].paramCount
           first == frame + Header
<1>1. n \in Nat /\ p \in Nat
  BY WordCounts DEF FunctionDecl
<1>2. /\ fp' = frame /\ sp' = first + n
      /\ frame - p \in 0..StackWords
      /\ first + n <= StackWords
      /\ Len(frames) <= MaxCalls
      /\ stack' = [a \in Word |->
                     IF a \in first..(first + n - 1)
                     THEN IF a - first < p THEN stack[frame - p + (a - first)]
                                           ELSE 0
                     ELSE stack[a]]
  BY DEF Enter, Argument
<1>3. \A a \in Word : a \in first..(first + n - 1) /\ a - first < p
                        => frame - p + (a - first) \in Word
  <2> SUFFICES ASSUME NEW a \in Word, a \in first..(first + n - 1),
                      a - first < p
               PROVE  frame - p + (a - first) \in Word
    OBVIOUS
  <2>1. a \in Int /\ first \in Int /\ frame - p >= 0 /\ first <= a
    BY <1>1, <1>2, StackBounds DEF Word, Header
  <2>2. /\ frame - p + (a - first) \in Int
        /\ 0 <= frame - p + (a - first)
        /\ frame - p + (a - first) < frame
    BY <1>1, <2>1
  <2>3. frame <= StackWords
    BY <1>1, <1>2, StackBounds DEF Header
  <2>4. QED
    BY <2>2, <2>3, StackBounds DEF Word
<1>4. stack' \in [Word -> Values]
  BY <1>2, <1>3, StackBounds
<1>5. QED
  BY <1>1, <1>2, <1>4, StackBounds, SMTT(30) DEF Header, Word

\* So does the start of the module, on an empty stack.
LEMMA StartStep ==
  ASSUME IndInv, Start
  PROVE  IndInv'
<1>1. /\ phase = "idle" /\ phase' = "running"
      /\ frames = <<>> /\ calls = <<>>
      /\ sp \in 0..StackWords
      /\ Enter(Initializer, sp + 3)
      /\ frames' = <<sp, sp + 3>>
      /\ calls' = <<NewCall(Initializer, sp + 3)>>
      /\ stack \in [Word -> Values]
  BY DEF Start, IndInv, TypeOK, FrameDiscipline, ModuleHeader
<1>2. Initializer \in Funcs /\ sp + 3 \in Nat
  BY <1>1, FunctionTable, StackBounds
<1>3. /\ fp' = sp + 3 /\ sp + 3 \in Word
      /\ sp' = sp + 5 + Decl[Initializer].localVarCount
      /\ sp' \in 0..StackWords
      /\ stack' \in [Word -> Values]
  BY <1>1, <1>2, EnterFacts
<1>4. NewCall(Initializer, sp + 3) \in Call
  BY <1>2, <1>3, StackBounds DEF NewCall, Call
<1>5. TypeOK'
  BY <1>1, <1>3, <1>4, StackBounds DEF TypeOK, Word
<1>6. /\ sp = 0
      /\ Len(calls') = 1 /\ Len(frames') = 2
      /\ calls'[1] = NewCall(Initializer, 3)
      /\ frames'[1] = 0 /\ frames'[2] = 3
      /\ Top' = NewCall(Initializer, 3)
  BY <1>1 DEF IndInv, FrameDiscipline, Top, Last
<1>7. NewCall(Initializer, 3) \in Call
  BY <1>4, <1>6
<1>8. /\ NewCall(Initializer, 3).fn = Initializer
      /\ NewCall(Initializer, 3).savedFP = 3
      /\ NewCall(Initializer, 3).depth = 0
      /\ NewCall(Initializer, 3).lost = 0
  BY DEF NewCall
<1>9. IsVM(Initializer)
  BY FunctionTable DEF IsVM
<1>10. FrameDiscipline'
  BY <1>1, <1>3, <1>6, <1>8, <1>9 DEF FrameDiscipline, IsVM
<1>11. sp' = Operands(NewCall(Initializer, 3)) /\ sp' \in Nat
  BY <1>3, <1>6, <1>7, <1>8, CallFacts, StackBounds
<1>12. StackPointerLaw'
  BY <1>6, <1>8, <1>11 DEF StackPointerLaw, Operands, Locals
<1>13. LocalsInStack'
  BY <1>3, <1>6, <1>11, StackBounds DEF LocalsInStack, Operands, Locals
<1>14. ResultsFit'
  BY <1>6 DEF ResultsFit
<1>15. QED
  BY <1>5, <1>10, <1>12, <1>13, <1>14 DEF IndInv

\* INVOKE of a VM function keeps the activations, takes the arguments from the
\* operands of the running one and adds one for f above it.
LEMMA InvokeShape ==
  ASSUME IndInv, phase = "running", NEW f \in Funcs, InvokeVM(f)
  PROVE  /\ fp' = sp /\ sp \in Word
         /\ sp' = sp + 2 + Decl[f].localVarCount
         /\ sp' \in 0..StackWords
         /\ stack' \in [Word -> Values]
         /\ Len(calls) + 1 <= MaxCalls
         /\ calls' \in Seq(Call)
         /\ Len(calls') = Len(calls) + 1
         /\ Top' = calls'[Len(calls) + 1]
         /\ Top' \in Call
         /\ Top'.fn = f /\ Top'.savedFP = sp
         /\ Top'.depth = 0 /\ Top'.lost = 0
         /\ Top.depth - ArgumentWords(f) \in 0..MaxOperands
         /\ calls'[Len(calls)].depth = Top.depth - ArgumentWords(f)
         /\ \A k \in 1..Len(calls) :
              /\ calls[k] \in Call
              /\ calls'[k].fn = calls[k].fn
              /\ calls'[k].savedFP = calls[k].savedFP
              /\ calls'[k].lost = calls[k].lost
              /\ k # Len(calls) => calls'[k] = calls[k]
<1> DEFINE n == Len(calls)
           d == Top.depth - ArgumentWords(f)
           mid == [calls EXCEPT ![n].depth = d]
           new == NewCall(f, sp)
<1>1. /\ calls \in Seq(Call)
      /\ n \in Nat \ {0}
      /\ Top = calls[n] /\ Top \in Call
      /\ fp = Top.savedFP
      /\ sp = Operands(Top) + Top.depth - Top.lost
      /\ sp \in 0..StackWords /\ sp \in Nat
      /\ frames \in Seq(Word) /\ Len(frames) = n + 1
      /\ stack \in [Word -> Values]
  BY TopFacts, StackBounds DEF IndInv, TypeOK, FrameDiscipline
<1>2. /\ IsVM(f)
      /\ ArgumentWords(f) <= Top.depth
      /\ Enter(f, sp)
      /\ frames' = Append(frames, sp)
      /\ calls' = Append(mid, new)
      /\ phase' = phase
  BY <1>1 DEF InvokeVM
<1>3. /\ fp' = sp /\ sp \in Word
      /\ sp' = sp + 2 + Decl[f].localVarCount
      /\ sp' \in 0..StackWords
      /\ stack' \in [Word -> Values]
      /\ n + 1 <= MaxCalls
  BY <1>1, <1>2, EnterFacts
<1>4. ArgumentWords(f) \in Nat /\ d \in 0..MaxOperands
  <2>1. ArgumentWords(f) \in Nat
    BY WordCounts
  <2>2. Top.depth \in Nat /\ Top.depth <= MaxOperands
    BY <1>1, CallFacts
  <2>3. QED
    BY <1>2, <2>1, <2>2, StackBounds
<1>5. [calls[n] EXCEPT !.depth = d] \in Call
  BY <1>1, <1>4 DEF Call
<1>6. /\ mid \in Seq(Call)
      /\ Len(mid) = n
      /\ \A k \in 1..n : mid[k] = IF k = n THEN [calls[n] EXCEPT !.depth = d]
                                          ELSE calls[k]
  BY <1>1, <1>5, ExceptSeq
<1>7. new \in Call
  BY <1>3, StackBounds DEF NewCall, Call
<1>8. /\ new.fn = f /\ new.savedFP = sp /\ new.depth = 0 /\ new.lost = 0
      /\ Operands(new) = sp'
  BY <1>3, <1>7, CallFacts DEF NewCall
<1> HIDE DEF mid, new
<1>9. /\ calls' \in Seq(Call)
      /\ Len(calls') = n + 1
      /\ \A k \in 1..n : calls'[k] = mid[k]
      /\ calls'[n + 1] = new
  BY <1>2, <1>6, <1>7, AppendProperties
<1>10. \A k \in 1..n : /\ calls[k] \in Call
                       /\ calls'[k].fn = calls[k].fn
                       /\ calls'[k].savedFP = calls[k].savedFP
                       /\ calls'[k].lost = calls[k].lost
  <2> SUFFICES ASSUME NEW k \in 1..n
               PROVE  /\ calls[k] \in Call
                      /\ calls'[k].fn = calls[k].fn
                      /\ calls'[k].savedFP = calls[k].savedFP
                      /\ calls'[k].lost = calls[k].lost
    OBVIOUS
  <2>1. calls[k] \in Call
    BY <1>1, ElementOfSeq
  <2>2. calls'[k] = IF k = n THEN [calls[n] EXCEPT !.depth = d] ELSE calls[k]
    BY <1>6, <1>9
  <2>3. QED
    BY <2>1, <2>2 DEF Call
<1>11. Top' = new
  BY <1>1, <1>9 DEF Top, Last
<1>12. calls'[n].depth = d
  <2>0. n \in 1..n
    BY <1>1
  <2> HIDE DEF n, d
  <2>1. calls'[n] = [calls[n] EXCEPT !.depth = d]
    BY <2>0, <1>6, <1>9
  <2>2. [calls[n] EXCEPT !.depth = d].depth = d
    BY <1>1 DEF Call
  <2>3. QED
    BY <2>1, <2>2
<1>13. \A k \in 1..n : k # n => calls'[k] = calls[k]
  BY <1>6, <1>9
<1>14. QED
  BY <1>3, <1>4, <1>7, <1>8, <1>9, <1>10, <1>11, <1>12, <1>13

\* A call of a function of the program keeps it: the callee's frame lies above the caller's words.
LEMMA InvokeVMStep ==
  ASSUME IndInv, phase = "running", NEW f \in Funcs, InvokeVM(f)
  PROVE  IndInv'
<1> DEFINE n == Len(calls)
           d == Top.depth - ArgumentWords(f)
           new == Top'
<1>1. /\ calls \in Seq(Call)
      /\ n \in Nat \ {0}
      /\ Top = calls[n] /\ Top \in Call
      /\ fp = Top.savedFP
      /\ sp = Operands(Top) + Top.depth - Top.lost
      /\ sp \in 0..StackWords /\ sp \in Nat
      /\ frames \in Seq(Word) /\ Len(frames) = n + 1
      /\ stack \in [Word -> Values]
  BY TopFacts, StackBounds DEF IndInv, TypeOK, FrameDiscipline
<1>2. /\ IsVM(f)
      /\ ArgumentWords(f) <= Top.depth
      /\ frames' = Append(frames, sp)
      /\ phase' = phase
  BY <1>1 DEF InvokeVM
<1>3. /\ fp' = sp /\ sp \in Word
      /\ sp' = sp + 2 + Decl[f].localVarCount
      /\ sp' \in 0..StackWords
      /\ stack' \in [Word -> Values]
      /\ n + 1 <= MaxCalls
  BY InvokeShape
<1>4. ArgumentWords(f) \in Nat /\ d \in 0..MaxOperands
  BY WordCounts, InvokeShape
<1>8. /\ new \in Call
      /\ new.fn = f /\ new.savedFP = sp /\ new.depth = 0 /\ new.lost = 0
  BY InvokeShape
<1>9. /\ calls' \in Seq(Call)
      /\ Len(calls') = n + 1
      /\ calls'[n + 1] = new
      /\ calls'[n].depth = d
      /\ \A k \in 1..n : k # n => calls'[k] = calls[k]
  BY InvokeShape
<1>10. \A k \in 1..n : /\ calls[k] \in Call
                       /\ calls'[k].fn = calls[k].fn
                       /\ calls'[k].savedFP = calls[k].savedFP
                       /\ calls'[k].lost = calls[k].lost
  BY InvokeShape
<1> HIDE DEF new
<1>5. Operands(new) = sp'
  BY <1>3, <1>8, CallFacts
<1>11. Top' = new
  BY DEF new
<1>12. /\ frames' \in Seq(Word)
       /\ Len(frames') = n + 2
       /\ \A k \in 1..(n + 1) : frames'[k] = frames[k]
       /\ frames'[n + 2] = sp
  BY <1>1, <1>2, <1>3, AppendProperties
<1>13. TypeOK'
  BY <1>1, <1>2, <1>3, <1>9, <1>12, StackBounds DEF TypeOK, Word, IndInv
<1>14. FrameDiscipline'
  <2>1. /\ phase' = "running" /\ calls' # <<>>
        /\ Len(frames') = Len(calls') + 1
        /\ frames'[1] = 0
        /\ fp' = Top'.savedFP
        /\ calls'[1].fn = Initializer
    BY <1>1, <1>2, <1>3, <1>8, <1>9, <1>10, <1>11, <1>12
       DEF IndInv, FrameDiscipline
  <2>2. ASSUME NEW k \in 1..Len(calls')
        PROVE  frames'[k + 1] = calls'[k].savedFP /\ IsVM(calls'[k].fn)
    <3>1. CASE k = n + 1
      <4>1. k + 1 = n + 2
        BY <1>1, <3>1
      <4>2. calls'[k].savedFP = sp /\ calls'[k].fn = f
        BY <1>8, <1>9, <3>1
      <4>3. frames'[k + 1] = sp
        BY <1>12, <4>1
      <4>4. QED
        BY <1>2, <4>2, <4>3
    <3>2. CASE k \in 1..n
      <4>1. frames'[k + 1] = frames[k + 1]
        BY <1>1, <1>12, <3>2
      <4>2. frames[k + 1] = calls[k].savedFP /\ IsVM(calls[k].fn)
        BY <3>2 DEF IndInv, FrameDiscipline
      <4>3. QED
        BY <1>10, <3>2, <4>1, <4>2
    <3>3. QED
      BY <1>1, <1>9, <3>1, <3>2
  <2>3. QED
    BY <2>1, <2>2 DEF FrameDiscipline, IsVM
<1>15. StackPointerLaw'
  <2>1. sp' = Operands(new) + new.depth - new.lost
    BY <1>3, <1>5, <1>8, StackBounds
  <2>2. ASSUME NEW k \in 1..(Len(calls') - 1)
        PROVE  calls'[k + 1].savedFP = Operands(calls'[k]) + calls'[k].depth
                 - calls'[k].lost + ArgumentWords(calls'[k + 1].fn)
    <3>1. CASE k = n
      <4>1. /\ calls'[k + 1] = new
            /\ calls'[k].depth = d
            /\ calls'[k].lost = Top.lost
            /\ Operands(calls'[k]) = Operands(Top)
        BY <1>1, <1>9, <1>10, <3>1 DEF Operands, Locals, Call
      <4>2. /\ Operands(Top) \in Nat /\ Top.depth \in Nat /\ Top.lost \in Nat
        BY <1>1, CallFacts
      <4>3. sp = Operands(Top) + d - Top.lost + ArgumentWords(f)
        BY <1>1, <1>4, <4>2, SMTT(30)
      <4> HIDE DEF d
      <4>4. QED
        BY <1>8, <4>1, <4>3
    <3>2. CASE k \in 1..(n - 1)
      <4>0. k \in 1..n /\ k # n /\ k + 1 \in 1..n
        BY <1>1, <3>2
      <4>1. /\ calls'[k] = calls[k]
            /\ calls'[k + 1].savedFP = calls[k + 1].savedFP
            /\ calls'[k + 1].fn = calls[k + 1].fn
        BY <1>9, <1>10, <4>0
      <4>2. calls[k + 1].savedFP = Operands(calls[k]) + calls[k].depth
               - calls[k].lost + ArgumentWords(calls[k + 1].fn)
        BY <3>2 DEF IndInv, StackPointerLaw
      <4>3. QED
        BY <4>1, <4>2
    <3>3. QED
      BY <1>1, <1>9, <3>1, <3>2
  <2>3. QED
    BY <1>11, <2>1, <2>2
       DEF StackPointerLaw, Operands, Locals, ArgumentWords, IsVM
<1>16. LocalsInStack'
  <2>1. ASSUME NEW k \in 1..Len(calls')
        PROVE  Operands(calls'[k]) <= StackWords
    <3>1. CASE k = n + 1
      BY <1>3, <1>5, <1>9, <3>1, StackBounds
    <3>2. CASE k \in 1..n
      BY <1>10, <3>2 DEF IndInv, LocalsInStack, Operands, Locals
    <3>3. QED
      BY <1>1, <1>9, <3>1, <3>2
  <2>2. QED
    BY <2>1 DEF LocalsInStack, Operands, Locals
<1>17. ResultsFit'
  <2>1. ASSUME NEW k \in 1..(Len(calls') - 1)
        PROVE  calls'[k].depth + ResultWords(calls'[k + 1].fn) <= MaxOperands
    <3>1. CASE k = n
      <4>1. calls'[k].depth = d /\ calls'[k + 1].fn = f
        BY <1>1, <1>8, <1>9, <3>1 DEF Call
      <4>2. d + ResultWords(f) <= MaxOperands
        BY DEF InvokeVM
      <4>3. QED
        BY <4>1, <4>2
    <3>2. CASE k \in 1..(n - 1)
      <4>1. k \in 1..n /\ k # n /\ k + 1 \in 1..n
        BY <1>1, <3>2
      <4>2. calls'[k] = calls[k] /\ calls'[k + 1].fn = calls[k + 1].fn
        BY <1>9, <1>10, <4>1
      <4>3. QED
        BY <3>2, <4>2 DEF IndInv, ResultsFit
    <3>3. QED
      BY <1>1, <1>9, <3>1, <3>2
  <2>2. QED
    BY <2>1 DEF ResultsFit, ResultWords
<1>18. QED
  BY <1>13, <1>14, <1>15, <1>16, <1>17 DEF IndInv

\* Leaving an activation: RETURN, IRETURN, ORETURN.
LEMMA LeaveModuleStep ==
  ASSUME IndInv, phase = "running", NEW v \in Values,
         NEW memory \in [Word -> Values], LeaveModule(v, memory)
  PROVE  IndInv'
<1>1. /\ phase' = "done" /\ frames' = <<>> /\ fp' = 0 /\ sp' = 0
      /\ calls' = <<>>
      /\ stack' = [memory EXCEPT ![Top.savedFP] = v]
  BY DEF LeaveModule
<1>2. Len(calls') = 0 /\ calls' \in Seq(Call) /\ frames' \in Seq(Word)
  BY <1>1
<1>3. stack' \in [Word -> Values]
  BY <1>1
<1>4. TypeOK'
  BY <1>1, <1>2, <1>3, StackBounds DEF TypeOK
<1>5. FrameDiscipline' /\ StackPointerLaw' /\ LocalsInStack' /\ ResultsFit'
  BY <1>1, <1>2 DEF FrameDiscipline, StackPointerLaw, LocalsInStack, ResultsFit
<1>6. QED
  BY <1>4, <1>5 DEF IndInv

\* Leaving an activation that is not the outermost removes it and gives its
\* caller the result, and the excess words it lost.
LEMMA LeaveShape ==
  ASSUME IndInv, phase = "running", Len(calls) # 1, NEW v \in Values,
         NEW memory \in [Word -> Values], Leave(v, memory)
  PROVE  /\ Len(calls) \in Nat /\ Len(calls) >= 2
         /\ calls' \in Seq(Call)
         /\ Len(calls') = Len(calls) - 1
         /\ Top' = calls'[Len(calls) - 1]
         /\ Top' \in Call
         /\ LET c == calls[Len(calls) - 1]
                f == Top.fn
            IN /\ c \in Call
               /\ c.depth + ResultWords(f) <= MaxOperands
               /\ Top.savedFP = Operands(c) + c.depth - c.lost + ArgumentWords(f)
               /\ Top'.fn = c.fn /\ Top'.savedFP = c.savedFP
               /\ Top'.depth = c.depth + ResultWords(f)
               /\ Top'.lost = c.lost + ExcessWords(f)
         /\ \A k \in 1..(Len(calls) - 1) :
              /\ k \in 1..Len(calls)
              /\ calls[k] \in Call
              /\ calls'[k].fn = calls[k].fn
              /\ calls'[k].savedFP = calls[k].savedFP
              /\ k # Len(calls) - 1 => calls'[k] = calls[k]
<1> DEFINE n == Len(calls)
           f == Top.fn
           m == n - 1
           c == calls[m]
           back == [c EXCEPT !.depth = @ + ResultWords(f),
                             !.lost = @ + ExcessWords(f)]
<1>1. /\ calls \in Seq(Call) /\ calls # <<>>
      /\ n \in Nat /\ n >= 2 /\ m \in 1..n /\ m \in Nat \ {0} /\ n = m + 1
      /\ Top = calls[n] /\ Top \in Call
      /\ frames \in Seq(Word) /\ Len(frames) = n + 1 /\ frames # <<>>
  <2>1. /\ calls \in Seq(Call) /\ n \in Nat \ {0}
        /\ Top = calls[n] /\ Top \in Call
    BY TopFacts DEF IndInv, TypeOK
  <2>2. /\ frames \in Seq(Word) /\ Len(frames) = n + 1 /\ calls # <<>>
    BY DEF IndInv, TypeOK, FrameDiscipline
  <2>3. frames # <<>>
    BY <2>1, <2>2
  <2>4. n \in Nat /\ n >= 2 /\ m \in 1..n /\ m \in Nat \ {0} /\ n = m + 1
    BY <2>1, CallerPosition
  <2>5. QED
    BY <2>1, <2>2, <2>3, <2>4
<1> HIDE DEF m
<1>2. /\ f \in Funcs /\ IsVM(f)
      /\ ArgumentWords(f) \in Nat /\ RemovedWords(f) \in Nat
      /\ ResultWords(f) \in 0..1 /\ ExcessWords(f) \in Nat
      /\ RemovedWords(f) = ArgumentWords(f) + ExcessWords(f)
  BY <1>1, TopFacts, CallFacts, WordCounts
<1>3. /\ c \in Call /\ c.depth \in Nat /\ c.lost \in Nat
      /\ c.depth + ResultWords(f) <= MaxOperands
      /\ Top.savedFP = Operands(c) + c.depth - c.lost + ArgumentWords(f)
      /\ Operands(c) \in Nat
  <2>1. c \in Call
    BY <1>1, ElementOfSeq
  <2>2. m \in 1..(Len(calls) - 1) /\ m + 1 = n
    BY <1>1
  <2>3. QED
    BY <1>1, <2>1, <2>2, CallFacts DEF IndInv, ResultsFit, StackPointerLaw
<1>4. /\ c = calls[m] /\ f = Top.fn
      /\ AfterCall(f, Top.savedFP, v, memory)
      /\ frames' = Front(frames)
      /\ fp' = Last(Front(frames))
      /\ calls' = Append(Front(Front(calls)), back)
      /\ phase' = phase
  BY DEF Leave, m
<1> HIDE DEF c, f
<1>5. /\ back \in Call
      /\ back.fn = c.fn /\ back.savedFP = c.savedFP
      /\ back.depth = c.depth + ResultWords(f)
      /\ back.lost = c.lost + ExcessWords(f)
  <2>1. /\ c.depth + ResultWords(f) \in 0..MaxOperands
        /\ c.lost + ExcessWords(f) \in Nat
    BY <1>2, <1>3, StackBounds
  <2>2. QED
    BY <1>3, <2>1 DEF Call
<1>6. /\ Front(calls) \in Seq(Call)
      /\ Len(Front(calls)) = m
      /\ \A k \in 1..m : Front(calls)[k] = calls[k]
  BY <1>1, FrontLast
<1>7. /\ calls' \in Seq(Call)
      /\ Len(calls') = m
      /\ \A k \in 1..m : calls'[k] = IF k = m THEN back ELSE calls[k]
  <2> HIDE DEF back
  <2>1. Front(calls) # <<>>
    BY <1>1, <1>6
  <2>2. /\ Front(Front(calls)) \in Seq(Call)
        /\ Len(Front(Front(calls))) = m - 1
        /\ \A k \in 1..(m - 1) : Front(Front(calls))[k] = Front(calls)[k]
    BY <1>6, <2>1, FrontLast
  <2>3. /\ calls' \in Seq(Call)
        /\ Len(calls') = m - 1 + 1
        /\ \A k \in 1..(m - 1) : calls'[k] = Front(Front(calls))[k]
        /\ calls'[m - 1 + 1] = back
    BY <1>4, <1>5, <2>2, AppendProperties
  <2>4. \A k \in 1..m : k # m => k \in 1..(m - 1)
    BY <1>1
  <2>5. m - 1 + 1 = m
    BY <1>1
  <2>6. QED
    BY <1>6, <2>2, <2>3, <2>4, <2>5
<1> HIDE DEF back
<1>8. Top' = back
  BY <1>1, <1>7 DEF Top, Last
<1>9. \A k \in 1..m : k \in 1..n /\ calls[k] \in Call
  BY <1>1, ElementOfSeq
<1>10. calls'[m] = back
  BY <1>1, <1>7
<1>11. \A k \in 1..m : /\ calls'[k].fn = calls[k].fn
                       /\ calls'[k].savedFP = calls[k].savedFP
                       /\ k # m => calls'[k] = calls[k]
  BY <1>4, <1>5, <1>7
<1>12. QED
  BY <1>1, <1>3, <1>5, <1>7, <1>8, <1>9, <1>10, <1>11 DEF m, c, f

\* The result of a call is read before its frame is popped, and pushed over the
\* arguments, which are the caller's.
LEMMA LeaveStep ==
  ASSUME IndInv, phase = "running", Len(calls) # 1, NEW v \in Values,
         NEW memory \in [Word -> Values], Leave(v, memory)
  PROVE  IndInv'
<1> DEFINE n == Len(calls)
           f == Top.fn
           m == n - 1
           c == calls[m]
           back == Top'
<1>1. /\ n \in Nat /\ n >= 2 /\ m \in 1..n /\ m \in Nat \ {0} /\ n = m + 1
      /\ Top = calls[n] /\ Top \in Call
      /\ frames \in Seq(Word) /\ Len(frames) = n + 1 /\ frames # <<>>
  <2>1. /\ n \in Nat \ {0}
        /\ Top = calls[n] /\ Top \in Call
    BY TopFacts
  <2>2. /\ frames \in Seq(Word) /\ Len(frames) = n + 1
    BY DEF IndInv, TypeOK, FrameDiscipline
  <2>3. frames # <<>>
    BY <2>1, <2>2
  <2>4. n \in Nat /\ n >= 2 /\ m \in 1..n /\ m \in Nat \ {0} /\ n = m + 1
    BY <2>1, CallerPosition
  <2>5. QED
    BY <2>1, <2>2, <2>3, <2>4
<1>2. /\ f \in Funcs /\ IsVM(f)
      /\ ArgumentWords(f) \in Nat /\ RemovedWords(f) \in Nat
      /\ ResultWords(f) \in 0..1 /\ ExcessWords(f) \in Nat
      /\ RemovedWords(f) = ArgumentWords(f) + ExcessWords(f)
  BY <1>1, TopFacts, CallFacts, WordCounts
<1>5. /\ c \in Call
      /\ c.depth + ResultWords(f) <= MaxOperands
      /\ Top.savedFP = Operands(c) + c.depth - c.lost + ArgumentWords(f)
      /\ back \in Call
      /\ back.fn = c.fn /\ back.savedFP = c.savedFP
      /\ back.depth = c.depth + ResultWords(f)
      /\ back.lost = c.lost + ExcessWords(f)
      /\ back = calls'[m]
  BY LeaveShape
<1>7. /\ calls' \in Seq(Call)
      /\ Len(calls') = m
      /\ \A k \in 1..m : k # m => calls'[k] = calls[k]
      /\ \A k \in 1..m : /\ calls'[k].fn = calls[k].fn
                         /\ calls'[k].savedFP = calls[k].savedFP
  BY LeaveShape
<1>3. /\ c.depth \in Nat /\ c.lost \in Nat /\ Operands(c) \in Nat
  BY <1>5, CallFacts
<1>4. /\ AfterCall(f, Top.savedFP, v, memory)
      /\ frames' = Front(frames)
      /\ fp' = Last(Front(frames))
      /\ phase' = phase
  BY DEF Leave
<1>0. c = calls[m]
  OBVIOUS
<1> HIDE DEF m, c, f
<1>8. Top' = back
  OBVIOUS
<1> HIDE DEF back
<1>9. /\ frames' \in Seq(Word)
      /\ Len(frames') = n
      /\ \A k \in 1..n : frames'[k] = frames[k]
      /\ fp' = frames[n]
  <2>1. /\ frames' \in Seq(Word)
        /\ Len(frames') = n
        /\ \A k \in 1..n : frames'[k] = frames[k]
    <3>1. Len(frames) - 1 = n
      BY <1>1
    <3>2. /\ Front(frames) \in Seq(Word)
          /\ Len(Front(frames)) = Len(frames) - 1
          /\ \A k \in 1..(Len(frames) - 1) : Front(frames)[k] = frames[k]
      BY <1>1, FrontLast
    <3> HIDE DEF n
    <3>3. QED
      BY <1>4, <3>1, <3>2
  <2>2. QED
    BY <1>1, <1>4, <2>1 DEF Last
<1>10. /\ sp' = Top.savedFP - RemovedWords(f) + ResultWords(f)
       /\ sp' \in 0..StackWords
       /\ stack' \in [Word -> Values]
  <2> DEFINE base == Top.savedFP - RemovedWords(f)
  <2>1. /\ base \in 0..StackWords
        /\ sp' = base + ResultWords(f)
        /\ IF Decl[f].returnsVoid
           THEN stack' = memory
           ELSE base \in Word /\ stack' = [memory EXCEPT ![base] = v]
    BY <1>4 DEF AfterCall
  <2>2. stack' \in [Word -> Values]
    BY <2>1
  <2> HIDE DEF base
  <2>3. sp' \in 0..StackWords
    BY <2>1, StackBounds DEF Word, ResultWords
  <2>4. QED
    BY <2>1, <2>2, <2>3 DEF base
<1>11. fp' = c.savedFP
  <2>1. m \in 1..Len(calls)
    BY <1>1
  <2>2. frames[m + 1] = calls[m].savedFP
    BY <2>1 DEF IndInv, FrameDiscipline
  <2>3. QED
    BY <1>0, <1>1, <1>4, <1>9, <2>2
<1>12. TypeOK'
  <2>1. fp' \in Nat
    BY <1>5, <1>11, CallFacts
  <2>2. Len(calls') <= MaxCalls
    BY <1>1, <1>7, StackBounds DEF IndInv, TypeOK
  <2>3. QED
    BY <1>4, <1>7, <1>9, <1>10, <2>1, <2>2 DEF TypeOK, IndInv
<1>13. FrameDiscipline'
  <2>1. /\ phase' = "running" /\ calls' # <<>>
        /\ Len(frames') = Len(calls') + 1
        /\ frames'[1] = 0
        /\ fp' = Top'.savedFP
    BY <1>0, <1>1, <1>4, <1>5, <1>7, <1>8, <1>9, <1>11 DEF IndInv, FrameDiscipline
  <2>2. \A k \in 1..m : /\ calls'[k].fn = calls[k].fn
                        /\ calls'[k].savedFP = calls[k].savedFP
                        /\ k + 1 \in 1..n /\ k \in 1..n
    BY <1>1, <1>4, <1>5, <1>7
  <2>3. calls'[1].fn = Initializer
    BY <1>1, <1>7 DEF IndInv, FrameDiscipline
  <2>4. ASSUME NEW k \in 1..m
        PROVE  frames'[k + 1] = calls'[k].savedFP /\ IsVM(calls'[k].fn)
    <3>1. frames[k + 1] = calls[k].savedFP /\ IsVM(calls[k].fn)
      BY <2>2 DEF IndInv, FrameDiscipline
    <3>2. QED
      BY <1>9, <2>2, <3>1
  <2>5. QED
    BY <1>7, <2>1, <2>3, <2>4 DEF FrameDiscipline, IsVM
<1>14. StackPointerLaw'
  <2>1. Operands(back) = Operands(c)
    BY <1>5 DEF Operands, Locals
  <2>2. sp' = Operands(back) + back.depth - back.lost
    BY <1>2, <1>3, <1>5, <1>10, <2>1
  <2>3. ASSUME NEW k \in 1..(m - 1)
        PROVE  calls'[k + 1].savedFP = Operands(calls'[k]) + calls'[k].depth
                 - calls'[k].lost + ArgumentWords(calls'[k + 1].fn)
    <3>1. k \in 1..m /\ k # m /\ k + 1 \in 1..m /\ k \in 1..(n - 1)
      BY <1>1
    <3>2. /\ calls'[k] = calls[k]
          /\ calls'[k + 1].savedFP = calls[k + 1].savedFP
          /\ calls'[k + 1].fn = calls[k + 1].fn
      BY <1>4, <1>5, <1>7, <3>1
    <3>3. calls[k + 1].savedFP = Operands(calls[k]) + calls[k].depth
             - calls[k].lost + ArgumentWords(calls[k + 1].fn)
      BY <3>1 DEF IndInv, StackPointerLaw
    <3>4. QED
      BY <3>2, <3>3
  <2>4. QED
    BY <1>7, <1>8, <2>2, <2>3
       DEF StackPointerLaw, Operands, Locals, ArgumentWords, IsVM
<1>15. LocalsInStack'
  <2>1. ASSUME NEW k \in 1..m
        PROVE  Operands(calls'[k]) <= StackWords
    <3>1. calls'[k].fn = calls[k].fn /\ calls'[k].savedFP = calls[k].savedFP
      BY <1>4, <1>5, <1>7
    <3>2. k \in 1..n
      BY <1>1
    <3>3. QED
      BY <3>1, <3>2 DEF IndInv, LocalsInStack, Operands, Locals
  <2>2. QED
    BY <1>7, <2>1 DEF LocalsInStack, Operands, Locals
<1>16. ResultsFit'
  <2>1. ASSUME NEW k \in 1..(m - 1)
        PROVE  calls'[k].depth + ResultWords(calls'[k + 1].fn) <= MaxOperands
    <3>1. k \in 1..m /\ k # m /\ k + 1 \in 1..m /\ k \in 1..(n - 1)
      BY <1>1
    <3>2. calls'[k] = calls[k] /\ calls'[k + 1].fn = calls[k + 1].fn
      BY <1>4, <1>5, <1>7, <3>1
    <3>3. QED
      BY <3>1, <3>2 DEF IndInv, ResultsFit
  <2>2. QED
    BY <1>7, <2>1 DEF ResultsFit, ResultWords
<1>17. QED
  BY <1>12, <1>13, <1>14, <1>15, <1>16 DEF IndInv

\* A return to the caller keeps it: the frame below is the caller's.
LEMMA ExitStep ==
  ASSUME IndInv, phase = "running", NEW v \in Values,
         NEW memory \in [Word -> Values], Exit(v, memory)
  PROVE  IndInv'
<1>1. CASE Len(calls) = 1
  BY <1>1, LeaveModuleStep DEF Exit
<1>2. CASE Len(calls) # 1
  BY <1>2, LeaveStep DEF Exit
<1>3. QED
  BY <1>1, <1>2

\* RETURN, IRETURN and ORETURN leave the activation with a result and with a
\* memory that differs from the stack in the return slot at most.
LEMMA ReturnExits ==
  ASSUME IndInv, phase = "running", Return \/ ReturnValue
  PROVE  \E v \in Values, memory \in [Word -> Values] :
           /\ Exit(v, memory)
           /\ \A a \in Word : a # fp => memory[a] = stack[a]
<1>1. /\ stack \in [Word -> Values]
      /\ fp = Top.savedFP /\ Top \in Call
  BY TopFacts DEF IndInv, TypeOK
<1>2. fp \in Word
  BY <1>1 DEF Call
<1>3. CASE Return
  <2>1. stack[fp] \in Values
    BY <1>1, <1>2
  <2>2. QED
    BY <1>1, <1>3, <2>1 DEF Return
<1>4. CASE ReturnValue
  <2> DEFINE v == stack[sp - 1]
             memory == [stack EXCEPT ![fp] = v]
  <2>1. sp - 1 \in Word /\ Exit(v, memory)
    BY <1>4 DEF ReturnValue
  <2>2. v \in Values
    BY <1>1, <2>1
  <2>3. memory \in [Word -> Values]
    BY <1>1, <2>2
  <2>4. \A a \in Word : a # fp => memory[a] = stack[a]
    BY <1>1
  <2> HIDE DEF v, memory
  <2>5. QED
    BY <2>1, <2>2, <2>3, <2>4
<1>5. QED
  BY <1>3, <1>4

(***************************************************************************)
(* IndInv is inductive.                                                    *)
(***************************************************************************)
LEMMA IndInvStep == IndInv /\ [Next]_vars => IndInv'
<1> SUFFICES ASSUME IndInv, [Next]_vars
             PROVE  IndInv'
  OBVIOUS
<1>1. CASE Start
  BY <1>1, StartStep
<1>2. ASSUME phase = "running", Run
      PROVE  IndInv'
  <2>1. ASSUME NEW taken \in 0..2, NEW v \in Values, Compute(taken, v)
        PROVE  IndInv'
    BY <1>2, <2>1, ComputeStep
  <2>2. ASSUME NEW taken \in 1..2, Discard(taken)
        PROVE  IndInv'
    BY <1>2, <2>2, DiscardStep
  <2>3. ASSUME NEW i \in 0..(Decl[Top.fn].localVarCount - 1),
               Load(i) \/ Store(i)
        PROVE  IndInv'
    BY <1>2, <2>3, LoadStep, StoreStep
  <2>4. CASE Dup
    BY <1>2, <2>4, DupStep
  <2>5. ASSUME NEW f \in Funcs,
               InvokeVM(f) \/ \E v \in Values : InvokeC(f, v)
        PROVE  IndInv'
    BY <1>2, <2>5, InvokeVMStep, InvokeCStep
  <2>6. CASE Return \/ ReturnValue
    BY <1>2, <2>6, ReturnExits, ExitStep
  <2>7. QED
    BY <1>2, <2>1, <2>2, <2>3, <2>4, <2>5, <2>6 DEF Run
<1>3. CASE UNCHANGED vars
  BY <1>3 DEF vars, IndInv, TypeOK, FrameDiscipline, StackPointerLaw,
              LocalsInStack, ResultsFit, Top, Operands, Locals,
              ArgumentWords, ResultWords, IsVM
<1>4. QED
  BY <1>1, <1>2, <1>3 DEF Next

\* In every state of every run, for every function table: frames and activations agree, and
\* the words between them are counted.
THEOREM InductiveInvariant == Spec => []IndInv
<1>1. Init => IndInv
  BY InitIndInv
<1>2. IndInv /\ [Next]_vars => IndInv'
  BY IndInvStep
<1>3. QED
  BY <1>1, <1>2, PTL DEF Spec

\* Every register, frame and activation of the executor has its type.
THEOREM TypeCorrectness == Spec => []TypeOK
<1>1. IndInv => TypeOK
  BY DEF IndInv
<1>2. QED
  BY <1>1, InductiveInvariant, PTL

\* pop(Slot)'s assertion cannot fail: `frames` and the C++ activations agree.
THEOREM FramesMatchActivations == Spec => []FrameDiscipline
<1>1. IndInv => FrameDiscipline
  BY DEF IndInv
<1>2. QED
  BY <1>1, InductiveInvariant, PTL

\* For any function table, sp is off by exactly the words the completed calls
\* of instance methods and constructors removed in excess.
THEOREM StackPointer == Spec => []StackPointerLaw
<1>1. IndInv => StackPointerLaw
  BY DEF IndInv
<1>2. QED
  BY <1>1, InductiveInvariant, PTL

(***************************************************************************)
(* Programs whose VM functions are all static: no call removes a word too  *)
(* many, and activations own the words of their local variables.           *)
(***************************************************************************)
LEMMA InitStaticInv == Init => StaticInv
<1>1. Init => IndInv
  BY InitIndInv
<1>2. Init => Len(calls) = 0
  BY EmptySeq DEF Init
<1>3. QED
  BY <1>1, <1>2 DEF StaticInv, NothingLost, LayeredActivations

\* Every activation but the running one ends below the running one's frame.
LEMMA BelowTop ==
  ASSUME StaticInv, phase = "running", NEW k \in 1..Len(calls)
  PROVE  /\ Operands(calls[k]) <= Operands(Top)
         /\ Operands(calls[k]) \in Nat
         /\ k # Len(calls) =>
              Operands(calls[k]) + calls[k].depth + ArgumentWords(Top.fn)
                <= Top.savedFP
<1> DEFINE n == Len(calls)
<1>1. /\ n \in Nat \ {0} /\ Top = calls[n] /\ Top \in Call
      /\ calls \in Seq(Call)
  BY TopFacts DEF StaticInv, IndInv, TypeOK
<1>2. calls[k] \in Call
  BY <1>1, ElementOfSeq
<1>3. k # n => k < n /\ n \in 1..n
  BY <1>1
<1>4. k # n => Operands(calls[k]) + calls[k].depth + ArgumentWords(Top.fn)
                 <= Top.savedFP
  BY <1>1, <1>3 DEF StaticInv, LayeredActivations
<1>5. /\ Operands(Top) >= Top.savedFP /\ Top.savedFP \in Nat
      /\ Operands(Top) \in Nat
      /\ Operands(calls[k]) \in Nat /\ calls[k].depth \in Nat
      /\ ArgumentWords(Top.fn) \in Nat
  <2>1. Top.fn \in Funcs
    BY <1>1, CallFacts
  <2>2. ArgumentWords(Top.fn) \in Nat
    BY <2>1, WordCounts
  <2>3. /\ Top.savedFP \in Nat /\ Decl[Top.fn].localVarCount \in Nat
        /\ Operands(Top) = Top.savedFP + 2 + Decl[Top.fn].localVarCount
    BY <1>1, CallFacts
  <2>4. Operands(calls[k]) \in Nat /\ calls[k].depth \in Nat
    BY <1>2, CallFacts
  <2>5. QED
    BY <2>2, <2>3, <2>4
<1>6. CASE k = n
  BY <1>1, <1>5, <1>6
<1>7. CASE k # n
  BY <1>4, <1>5, <1>7
<1>8. QED
  BY <1>5, <1>6, <1>7

\* An instruction takes operands of the running activation only.
LEMMA TakesStatic ==
  ASSUME StaticInv, phase = "running", NEW taken \in Nat, NEW given \in Nat,
         Takes(taken, given)
  PROVE  NothingLost' /\ LayeredActivations'
<1> DEFINE n == Len(calls)
<1>0. IndInv /\ n \in Nat
  BY TopFacts DEF StaticInv
<1>1. /\ Len(calls') = n
      /\ \A k \in 1..n : /\ calls'[k].fn = calls[k].fn
                         /\ calls'[k].savedFP = calls[k].savedFP
                         /\ calls'[k].lost = calls[k].lost
                         /\ k # n => calls'[k] = calls[k]
  BY <1>0, TakesShape
<1>2. NothingLost'
  BY <1>1 DEF StaticInv, NothingLost
<1>3. ASSUME NEW j \in 1..n, NEW k \in 1..n, j < k
      PROVE  Operands(calls'[j]) + calls'[j].depth + ArgumentWords(calls'[k].fn)
               <= calls'[k].savedFP
  <2>1. j # n
    BY <1>0, <1>3
  <2>2. Operands(calls[j]) + calls[j].depth + ArgumentWords(calls[k].fn)
               <= calls[k].savedFP
    BY <1>3 DEF StaticInv, LayeredActivations
  <2>3. QED
    BY <1>1, <2>1, <2>2
<1>4. LayeredActivations'
  BY <1>1, <1>3
     DEF LayeredActivations, Operands, Locals, ArgumentWords, IsVM
<1>5. QED
  BY <1>2, <1>4

\* Calls of static functions keep activations layered.
LEMMA InvokeStatic ==
  ASSUME StaticInv, phase = "running", NEW f \in Funcs, InvokeVM(f)
  PROVE  NothingLost' /\ LayeredActivations'
<1> DEFINE n == Len(calls)
           d == Top.depth - ArgumentWords(f)
<1>0. /\ IndInv /\ n \in Nat \ {0}
      /\ Top = calls[n] /\ Top \in Call
      /\ sp = Operands(Top) + Top.depth - Top.lost
      /\ Top.lost = 0
      /\ Top.depth \in Nat /\ Operands(Top) \in Nat
      /\ ArgumentWords(f) \in Nat
  BY TopFacts, CallFacts, WordCounts DEF StaticInv, NothingLost
<1>1. /\ Len(calls') = n + 1
      /\ calls'[n + 1].fn = f /\ calls'[n + 1].savedFP = sp
      /\ calls'[n + 1].lost = 0
      /\ calls'[n].depth = d /\ d \in Nat
      /\ \A k \in 1..n : /\ calls'[k].fn = calls[k].fn
                         /\ calls'[k].savedFP = calls[k].savedFP
                         /\ calls'[k].lost = calls[k].lost
                         /\ k # n => calls'[k] = calls[k]
  BY <1>0, InvokeShape, SMTT(30)
<1>2. NothingLost'
  <2>1. ASSUME NEW k \in 1..(n + 1) PROVE calls'[k].lost = 0
    <3>1. CASE k = n + 1
      BY <1>1, <3>1
    <3>2. CASE k \in 1..n
      BY <1>1, <3>2 DEF StaticInv, NothingLost
    <3>3. QED
      BY <1>0, <3>1, <3>2
  <2>2. QED
    BY <1>1, <2>1 DEF NothingLost
<1>3. ASSUME NEW j \in 1..(n + 1), NEW k \in 1..(n + 1), j < k
      PROVE  Operands(calls'[j]) + calls'[j].depth + ArgumentWords(calls'[k].fn)
               <= calls'[k].savedFP
  <2>0. j \in 1..n
    BY <1>0, <1>3
  <2>1. Operands(calls'[j]) = Operands(calls[j])
    BY <1>1, <2>0 DEF Operands, Locals
  <2>2. CASE k = n + 1 /\ j = n
    BY <1>0, <1>1, <2>1, <2>2
  <2>3. CASE k = n + 1 /\ j # n
    <3>1. /\ Operands(calls[j]) + calls[j].depth + ArgumentWords(Top.fn)
               <= Top.savedFP
          /\ Operands(calls[j]) \in Nat
      BY <2>0, <2>3, BelowTop
    <3>2. /\ calls[j] \in Call /\ calls[j].depth \in Nat
      BY <2>0, CallFacts, ElementOfSeq DEF StaticInv, IndInv, TypeOK
    <3>3. /\ ArgumentWords(Top.fn) \in Nat
          /\ Top.savedFP \in Nat
          /\ Top.savedFP <= Operands(Top)
      <4>1. Top.fn \in Funcs
        BY <1>0, CallFacts
      <4>2. ArgumentWords(Top.fn) \in Nat
        BY <4>1, WordCounts
      <4>3. /\ Top.savedFP \in Nat /\ Decl[Top.fn].localVarCount \in Nat
            /\ Operands(Top) = Top.savedFP + 2 + Decl[Top.fn].localVarCount
        BY <1>0, CallFacts
      <4>4. QED
        BY <4>2, <4>3
    <3>4. Operands(calls[j]) + calls[j].depth <= Operands(Top)
      BY <1>0, <3>1, <3>2, <3>3, SMTT(30)
    <3>5. /\ sp = Operands(Top) + Top.depth
          /\ Top.depth >= ArgumentWords(f)
      BY <1>0, <1>1
    <3>6. Operands(calls[j]) + calls[j].depth + ArgumentWords(f) <= sp
      BY <1>0, <3>1, <3>2, <3>4, <3>5
    <3>7. QED
      BY <1>1, <2>0, <2>1, <2>3, <3>6
  <2>4. CASE k \in 1..n
    <3>1. j # n
      BY <1>0, <1>3, <2>4
    <3>2. Operands(calls[j]) + calls[j].depth + ArgumentWords(calls[k].fn)
            <= calls[k].savedFP
      BY <1>3, <2>0, <2>4 DEF StaticInv, LayeredActivations
    <3>3. QED
      BY <1>1, <2>0, <2>4, <3>1, <3>2
  <2>5. QED
    BY <1>0, <2>2, <2>3, <2>4
<1>4. LayeredActivations'
  BY <1>1, <1>3
     DEF LayeredActivations, Operands, Locals, ArgumentWords, IsVM
<1>5. QED
  BY <1>2, <1>4

\* Returns from them leave the words the caller counts on.
LEMMA ExitStatic ==
  ASSUME OnlyStaticCode, StaticInv, phase = "running", NEW v \in Values,
         NEW memory \in [Word -> Values], Exit(v, memory)
  PROVE  NothingLost' /\ LayeredActivations'
<1> DEFINE n == Len(calls)
           m == n - 1
<1>0. /\ IndInv /\ n \in Nat \ {0}
      /\ Top.fn \in Funcs
  BY TopFacts, CallFacts DEF StaticInv
<1>1. CASE n = 1
  <2>1. Len(calls') = 0
    BY <1>1, EmptySeq DEF Exit, LeaveModule
  <2>2. QED
    BY <2>1 DEF NothingLost, LayeredActivations
<1>2. CASE n # 1
  <2>1. Leave(v, memory)
    BY <1>2 DEF Exit
  <2>2. /\ Len(calls') = m /\ m \in Nat
        /\ calls'[m].lost = calls[m].lost + ExcessWords(Top.fn)
        /\ \A k \in 1..m : /\ k \in 1..n
                           /\ calls'[k].fn = calls[k].fn
                           /\ calls'[k].savedFP = calls[k].savedFP
                           /\ k # m => calls'[k] = calls[k]
    BY <1>0, <1>2, <2>1, LeaveShape
  <2>3. ExcessWords(Top.fn) = 0
    BY <1>0, WordCounts
  <2>4. NothingLost'
    <3>1. ASSUME NEW k \in 1..m PROVE calls'[k].lost = 0
      <4>1. calls[k].lost = 0
        BY <2>2 DEF StaticInv, NothingLost
      <4>2. CASE k = m
        BY <2>2, <2>3, <4>1, <4>2
      <4>3. CASE k # m
        BY <2>2, <4>1, <4>3
      <4>4. QED
        BY <4>2, <4>3
    <3>2. QED
      BY <2>2, <3>1 DEF NothingLost
  <2>5. ASSUME NEW j \in 1..m, NEW k \in 1..m, j < k
        PROVE  Operands(calls'[j]) + calls'[j].depth
                 + ArgumentWords(calls'[k].fn) <= calls'[k].savedFP
    <3>1. j # m
      BY <2>2, <2>5
    <3>2. Operands(calls[j]) + calls[j].depth + ArgumentWords(calls[k].fn)
            <= calls[k].savedFP
      BY <2>2, <2>5 DEF StaticInv, LayeredActivations
    <3>3. QED
      BY <2>2, <3>1, <3>2
  <2>6. LayeredActivations'
    BY <2>2, <2>5
       DEF LayeredActivations, Operands, Locals, ArgumentWords, IsVM
  <2>7. QED
    BY <2>4, <2>6
<1>3. QED
  BY <1>1, <1>2

\* Every step keeps the static invariant.
LEMMA StaticInvStep == OnlyStaticCode /\ StaticInv /\ [Next]_vars => StaticInv'
<1> SUFFICES ASSUME OnlyStaticCode, StaticInv, [Next]_vars
             PROVE  NothingLost' /\ LayeredActivations'
  BY IndInvStep DEF StaticInv
<1>1. CASE Start
  <2>1. calls' = <<NewCall(Initializer, sp + ModuleHeader)>>
    BY <1>1 DEF Start
  <2>2. /\ Len(calls') = 1
        /\ calls'[1].lost = 0
    BY <2>1 DEF NewCall
  <2>3. QED
    BY <2>2 DEF NothingLost, LayeredActivations
<1>2. ASSUME phase = "running", Run
      PROVE  NothingLost' /\ LayeredActivations'
  <2>1. ASSUME NEW taken \in 0..2, NEW v \in Values, Compute(taken, v)
        PROVE  NothingLost' /\ LayeredActivations'
    BY <1>2, <2>1, TakesStatic DEF Compute
  <2>2. ASSUME NEW taken \in 1..2, Discard(taken)
        PROVE  NothingLost' /\ LayeredActivations'
    BY <1>2, <2>2, TakesStatic DEF Discard
  <2>3. ASSUME NEW i \in 0..(Decl[Top.fn].localVarCount - 1),
               Load(i) \/ Store(i)
        PROVE  NothingLost' /\ LayeredActivations'
    BY <1>2, <2>3, TakesStatic DEF Load, Store
  <2>4. CASE Dup
    BY <1>2, <2>4, TakesStatic DEF Dup
  <2>5. ASSUME NEW f \in Funcs, InvokeVM(f)
        PROVE  NothingLost' /\ LayeredActivations'
    BY <1>2, <2>5, InvokeStatic
  <2>6. ASSUME NEW f \in Funcs, NEW v \in Values, InvokeC(f, v)
        PROVE  NothingLost' /\ LayeredActivations'
    <3>1. ArgumentWords(f) \in Nat /\ ResultWords(f) \in Nat
      BY WordCounts
    <3>2. QED
      BY <1>2, <2>6, <3>1, TakesStatic DEF InvokeC
  <2>7. ASSUME Return \/ ReturnValue
        PROVE  NothingLost' /\ LayeredActivations'
    <3>1. IndInv
      BY DEF StaticInv
    <3>2. PICK v \in Values, memory \in [Word -> Values] : Exit(v, memory)
      BY <1>2, <2>7, <3>1, ReturnExits
    <3>3. QED
      BY <1>2, <3>2, ExitStatic
  <2>8. QED
    BY <1>2, <2>1, <2>2, <2>3, <2>4, <2>5, <2>6, <2>7 DEF Run
<1>3. CASE UNCHANGED vars
  BY <1>3 DEF vars, StaticInv, NothingLost, LayeredActivations, Operands,
              Locals, ArgumentWords, IsVM
<1>4. QED
  BY <1>1, <1>2, <1>3 DEF Next

\* If no function is an instance method or a constructor, nothing is removed in excess and
\* no activation lies over another's words, in every state of every run.
THEOREM StaticInvariant ==
  ASSUME OnlyStaticCode
  PROVE  Spec => []StaticInv
<1>1. Init => StaticInv
  BY InitStaticInv
<1>2. StaticInv /\ [Next]_vars => StaticInv'
  BY StaticInvStep
<1>3. QED
  BY <1>1, <1>2, PTL DEF Spec

\* In a program without classes the generator and the executor never disagree
\* on the operands of an activation.
THEOREM StaticCodeIsBalanced ==
  ASSUME OnlyStaticCode
  PROVE  Spec => []CallsBalanced
<1>1. StaticInv => CallsBalanced
  <2> SUFFICES ASSUME StaticInv, phase = "running"
               PROVE  sp = Operands(Top) + Top.depth
    BY DEF CallsBalanced
  <2>1. /\ Len(calls) \in Nat \ {0} /\ Top = calls[Len(calls)] /\ Top \in Call
        /\ sp = Operands(Top) + Top.depth - Top.lost
    BY TopFacts DEF StaticInv
  <2>2. Top.lost = 0
    BY <2>1 DEF StaticInv, NothingLost
  <2>3. Operands(Top) \in Nat /\ Top.depth \in Nat
    BY <2>1, CallFacts
  <2>4. QED
    BY <2>1, <2>2, <2>3
<1>2. QED
  BY <1>1, StaticInvariant, PTL

\* In a program without classes the activations on the stack do not overlap.
THEOREM StaticCodeIsLayered ==
  ASSUME OnlyStaticCode
  PROVE  Spec => []LayeredActivations
<1>1. StaticInv => LayeredActivations
  BY DEF StaticInv
<1>2. QED
  BY <1>1, StaticInvariant, PTL

\* The local variables of an activation are words of the stack, and below the
\* operands of the running activation.
LEMMA LocalWordsPlace ==
  ASSUME StaticInv, phase = "running", NEW k \in 1..Len(calls),
         NEW a \in LocalWords(calls[k])
  PROVE  /\ a \in Word /\ a \in Int
         /\ a < Operands(calls[k])
         /\ a < Operands(Top)
<1>1. calls[k] \in Call
  BY ElementOfSeq DEF StaticInv, IndInv, TypeOK
<1>2. Operands(calls[k]) <= StackWords
  BY DEF StaticInv, IndInv, LocalsInStack
<1>3. /\ calls[k].savedFP \in Nat
      /\ Locals(calls[k]) = calls[k].savedFP + 2
      /\ Operands(calls[k]) \in Nat
  BY <1>1, CallFacts
<1>4. /\ a \in Int /\ calls[k].savedFP + 2 <= a /\ a < Operands(calls[k])
  BY <1>3 DEF LocalWords
<1>5. Operands(calls[k]) <= Operands(Top) /\ Operands(Top) \in Nat
  BY BelowTop, TopFacts, CallFacts DEF StaticInv
<1>6. QED
  BY <1>2, <1>3, <1>4, <1>5, StackBounds DEF Word

\* A step that writes only at or above the operands of the running activation
\* changes no local variable.
LEMMA WritesAboveLocals ==
  ASSUME StaticInv, phase = "running",
         \A a \in Word : a < Operands(Top) => stack'[a] = stack[a]
  PROVE  OnlyOwnLocals
<1>1. ASSUME NEW k \in 1..Len(calls)
      PROVE  ChangedLocals(calls[k]) = {}
  BY LocalWordsPlace DEF ChangedLocals
<1>2. QED
  BY <1>1 DEF OnlyOwnLocals

\* The words from the operands of the running activation to sp are its
\* operands.
LEMMA OperandPlace ==
  ASSUME StaticInv, phase = "running"
  PROVE  /\ sp = Operands(Top) + Top.depth
         /\ Operands(Top) \in Nat /\ Top.depth \in Nat
         /\ stack \in [Word -> Values]
         /\ sp \in 0..StackWords
<1>1. /\ Len(calls) \in Nat \ {0} /\ Top = calls[Len(calls)] /\ Top \in Call
      /\ sp = Operands(Top) + Top.depth - Top.lost
      /\ stack \in [Word -> Values]
      /\ sp \in 0..StackWords
  BY TopFacts DEF StaticInv, IndInv, TypeOK
<1>2. Top.lost = 0
  BY <1>1 DEF StaticInv, NothingLost
<1>3. Operands(Top) \in Nat /\ Top.depth \in Nat
  BY <1>1, CallFacts
<1>4. QED
  BY <1>1, <1>2, <1>3

\* A push after the pop of operands of the running activation.
LEMMA PushIsolated ==
  ASSUME StaticInv, phase = "running", NEW taken \in Nat, taken <= Top.depth,
         NEW v, stack' = [stack EXCEPT ![sp - taken] = v]
  PROVE  OnlyOwnLocals
<1>1. sp - taken >= Operands(Top) /\ sp - taken \in Int
  BY OperandPlace
<1>2. \A a \in Word : a < Operands(Top) => stack'[a] = stack[a]
  <2> SUFFICES ASSUME NEW a \in Word, a < Operands(Top)
               PROVE  stack'[a] = stack[a]
    OBVIOUS
  <2>1. a # sp - taken
    BY <1>1, OperandPlace, StackBounds DEF Word
  <2>2. QED
    BY <2>1, OperandPlace
<1>3. QED
  BY <1>2, WritesAboveLocals

\* A store changes one local, of the running activation.
LEMMA StoreIsolated ==
  ASSUME StaticInv, phase = "running",
         NEW i \in 0..(Decl[Top.fn].localVarCount - 1), Store(i)
  PROVE  OnlyOwnLocals
<1> DEFINE w == fp + Header + i
           n == Len(calls)
<1>1. /\ fp = Top.savedFP /\ Top \in Call /\ Top = calls[n] /\ n \in Nat \ {0}
      /\ stack' = [stack EXCEPT ![w] = stack[sp - 1]]
      /\ sp' = sp - 1
      /\ IndInv
      /\ Top.savedFP \in Nat
  BY TopFacts, CallFacts DEF StaticInv, Store
<1>2. w \in Int /\ w >= Top.savedFP
  BY <1>1 DEF Header
<1>3. ASSUME NEW k \in 1..n, NEW a \in ChangedLocals(calls[k])
      PROVE  a = w /\ k = n
  <2>1. /\ a \in LocalWords(calls[k]) /\ stack'[a] # stack[a]
        /\ a \in Word /\ a \in Int /\ a < Operands(calls[k])
    BY LocalWordsPlace DEF ChangedLocals
  <2>2. a = w
    BY <1>1, <2>1, OperandPlace
  <2>3. CASE k # n
    <3>1. /\ Operands(calls[k]) + calls[k].depth + ArgumentWords(Top.fn)
               <= Top.savedFP
          /\ Operands(calls[k]) \in Nat
      BY <2>3, BelowTop
    <3>2. calls[k] \in Call
      BY ElementOfSeq DEF StaticInv, IndInv, TypeOK
    <3>3. calls[k].depth \in Nat /\ ArgumentWords(Top.fn) \in Nat
      BY <1>1, <3>2, CallFacts, WordCounts
    <3>4. QED
      BY <1>1, <1>2, <2>1, <2>2, <3>1, <3>3
  <2>4. QED
    BY <2>2, <2>3
<1> HIDE DEF w
<1>4. QED
  BY <1>1, <1>3 DEF OnlyOwnLocals

\* A call changes no local but the callee's, which are new.
LEMMA InvokeVMIsolated ==
  ASSUME StaticInv, phase = "running", NEW f \in Funcs, InvokeVM(f)
  PROVE  OnlyOwnLocals
<1> DEFINE first == sp + Header
           n == Decl[f].localVarCount
<1>1. /\ sp \in Nat /\ sp >= Operands(Top) /\ Operands(Top) \in Nat
      /\ n \in Nat
  BY OperandPlace, StackBounds, WordCounts DEF FunctionDecl
<1>2. \A a \in Word : a \notin first..(first + n - 1) => stack'[a] = stack[a]
  BY DEF InvokeVM, Enter
<1>3. \A a \in Word : a < Operands(Top) => a \notin first..(first + n - 1)
  BY <1>1, StackBounds DEF Header, Word
<1>4. QED
  BY <1>2, <1>3, WritesAboveLocals

\* A built-in function's result lies above all locals.
LEMMA InvokeCIsolated ==
  ASSUME StaticInv, phase = "running", NEW f \in Funcs, NEW v \in Values,
         InvokeC(f, v)
  PROVE  OnlyOwnLocals
<1> DEFINE base == sp - RemovedWords(f)
<1>1. /\ RemovedWords(f) = ArgumentWords(f) /\ ArgumentWords(f) \in Nat
      /\ ArgumentWords(f) <= Top.depth
  BY WordCounts DEF InvokeC, Takes
<1>2. sp >= Operands(Top) /\ base >= Operands(Top) /\ sp \in Int /\ base \in Int
  BY <1>1, OperandPlace
<1>3. \A a \in Word : a # sp /\ a # base => stack'[a] = stack[a]
  BY OperandPlace DEF InvokeC, AfterCall
<1>4. \A a \in Word : a < Operands(Top) => a # sp /\ a # base
  BY <1>2, OperandPlace, StackBounds DEF Word
<1>5. QED
  BY <1>3, <1>4, WritesAboveLocals

\* So does the result of a function of the program, and the frame of the callee is gone.
LEMMA ExitIsolated ==
  ASSUME OnlyStaticCode, StaticInv, phase = "running", NEW v \in Values,
         NEW memory \in [Word -> Values], Exit(v, memory),
         \A a \in Word : a # fp => memory[a] = stack[a]
  PROVE  OnlyOwnLocals
<1> DEFINE n == Len(calls)
           base == Top.savedFP - RemovedWords(Top.fn)
<1>0. /\ IndInv /\ n \in Nat \ {0} /\ Top \in Call /\ Top.fn \in Funcs
      /\ fp = Top.savedFP /\ Top.savedFP \in Nat
  BY TopFacts, CallFacts DEF StaticInv
<1>1. CASE n = 1
  <2>1. Len(calls') = 0
    BY <1>1, EmptySeq DEF Exit, LeaveModule
  <2>2. QED
    BY <1>1, <2>1 DEF OnlyOwnLocals
<1>2. CASE n # 1
  <2>1. Leave(v, memory)
    BY <1>2 DEF Exit
  <2>2. Len(calls') = n - 1
    BY <1>0, <1>2, <2>1, LeaveShape
  <2>3. /\ RemovedWords(Top.fn) = ArgumentWords(Top.fn)
        /\ ArgumentWords(Top.fn) \in Nat
    BY <1>0, WordCounts
  <2>4. \A a \in Word : a # fp /\ a # base => stack'[a] = stack[a]
    BY <2>1 DEF Leave, AfterCall
  <2>5. ASSUME NEW k \in 1..n, k <= n - 1
        PROVE  ChangedLocals(calls[k]) = {}
    <3> SUFFICES ASSUME NEW a \in LocalWords(calls[k])
                 PROVE  stack'[a] = stack[a]
      BY DEF ChangedLocals
    <3>1. a \in Word /\ a \in Int /\ a < Operands(calls[k])
      BY LocalWordsPlace
    <3>2. /\ Operands(calls[k]) + calls[k].depth + ArgumentWords(Top.fn)
               <= Top.savedFP
          /\ Operands(calls[k]) \in Nat
      BY <1>0, <2>5, BelowTop
    <3>3. calls[k].depth \in Nat
      BY CallFacts, ElementOfSeq DEF StaticInv, IndInv, TypeOK
    <3>4. a # fp /\ a # base
      BY <1>0, <2>3, <3>1, <3>2, <3>3
    <3>5. QED
      BY <2>4, <3>1, <3>4
  <2>6. QED
    BY <1>0, <2>2, <2>5 DEF OnlyOwnLocals
<1>3. QED
  BY <1>1, <1>2

\* No step but a store changes a local.
LEMMA LocalsStep == OnlyStaticCode /\ StaticInv /\ [Next]_vars
                      => OnlyOwnLocals \/ UNCHANGED vars
<1> SUFFICES ASSUME OnlyStaticCode, StaticInv, Next
             PROVE  OnlyOwnLocals
  OBVIOUS
<1>1. CASE Start
  <2>1. Len(calls) = 0
    BY <1>1, EmptySeq DEF Start, StaticInv, IndInv, FrameDiscipline
  <2>2. QED
    BY <2>1 DEF OnlyOwnLocals
<1>2. ASSUME phase = "running", Run
      PROVE  OnlyOwnLocals
  <2>1. ASSUME NEW taken \in 0..2, NEW v \in Values, Compute(taken, v)
        PROVE  OnlyOwnLocals
    <3>1. /\ taken \in Nat
          /\ taken <= Top.depth
          /\ stack' = [stack EXCEPT ![sp - taken] = v]
      BY <2>1 DEF Compute, Takes, PushAt
    <3>2. QED
      BY <1>2, <3>1, PushIsolated
  <2>2. ASSUME NEW taken \in 1..2, Discard(taken)
        PROVE  OnlyOwnLocals
    BY <1>2, <2>2, WritesAboveLocals DEF Discard
  <2>3. ASSUME NEW i \in 0..(Decl[Top.fn].localVarCount - 1), Load(i)
        PROVE  OnlyOwnLocals
    <3>1. /\ sp = sp - 0
          /\ 0 <= Top.depth
      BY <1>2, OperandPlace
    <3>2. stack' = [stack EXCEPT ![sp - 0] = stack[fp + Header + i]]
      BY <2>3, <3>1 DEF Load, PushAt
    <3>3. QED
      BY <1>2, <3>1, <3>2, PushIsolated
  <2>4. ASSUME NEW i \in 0..(Decl[Top.fn].localVarCount - 1), Store(i)
        PROVE  OnlyOwnLocals
    BY <1>2, <2>4, StoreIsolated
  <2>5. CASE Dup
    <3>1. /\ sp = sp - 0
          /\ 0 <= Top.depth
      BY <1>2, OperandPlace
    <3>2. stack' = [stack EXCEPT ![sp - 0] = stack[sp - 1]]
      BY <2>5, <3>1 DEF Dup, PushAt
    <3>3. QED
      BY <1>2, <3>1, <3>2, PushIsolated
  <2>6. ASSUME NEW f \in Funcs, InvokeVM(f)
        PROVE  OnlyOwnLocals
    BY <1>2, <2>6, InvokeVMIsolated
  <2>7. ASSUME NEW f \in Funcs, NEW v \in Values, InvokeC(f, v)
        PROVE  OnlyOwnLocals
    BY <1>2, <2>7, InvokeCIsolated
  <2>8. ASSUME Return \/ ReturnValue
        PROVE  OnlyOwnLocals
    <3>1. IndInv
      BY DEF StaticInv
    <3>2. PICK v \in Values, memory \in [Word -> Values] :
            /\ Exit(v, memory)
            /\ \A a \in Word : a # fp => memory[a] = stack[a]
      BY <1>2, <2>8, <3>1, ReturnExits
    <3>3. QED
      BY <1>2, <3>2, ExitIsolated
  <2>9. QED
    BY <1>2, <2>1, <2>2, <2>3, <2>4, <2>5, <2>6, <2>7, <2>8 DEF Run
<1>3. QED
  BY <1>1, <1>2 DEF Next

\* In a program without classes an activation's local variables are its own:
\* nothing but a store of the running activation changes one of them.
THEOREM StaticCodeIsolatesLocals ==
  ASSUME OnlyStaticCode
  PROVE  Spec => LocalsIsolated
<1>1. StaticInv /\ [Next]_vars => [OnlyOwnLocals]_vars
  BY LocalsStep
<1>2. QED
  BY <1>1, StaticInvariant, PTL DEF Spec, LocalsIsolated

-----------------------------------------------------------------------------
(* In a program without classes the executor implements the call machine:
   every instruction on the one flat stack is an operation on activations that
   own their variables and operands, or a stutter.  *)

\* Two sequences that differ in their last element only.
LEMMA LastReplaced ==
  ASSUME NEW S, NEW s \in Seq(S), NEW t \in Seq(S), NEW n \in Nat \ {0},
         Len(s) = n, Len(t) = n,
         \A k \in 1..(n - 1) : t[k] = s[k]
  PROVE  t = Append(Front(s), t[n])
<1>1. s # <<>> /\ t[n] \in S
  BY EmptySeq, ElementOfSeq
<1>2. /\ Front(s) \in Seq(S)
      /\ Len(Front(s)) = n - 1
      /\ \A k \in 1..(n - 1) : Front(s)[k] = s[k]
  BY <1>1, FrontLast
<1> DEFINE f == Front(s)
           u == Append(f, t[n])
<1> HIDE DEF f
<1>3. f \in Seq(S) /\ Len(f) = n - 1 /\ \A k \in 1..(n - 1) : f[k] = t[k]
  BY <1>2 DEF f
<1>4. /\ u \in Seq(S)
      /\ Len(u) = n - 1 + 1
      /\ \A k \in 1..(n - 1) : u[k] = f[k]
      /\ u[n - 1 + 1] = t[n]
  BY <1>1, <1>3, AppendProperties
<1> HIDE DEF u
<1>5. /\ n - 1 + 1 = n
      /\ \A k \in 1..n : k = n \/ k \in 1..(n - 1)
  OBVIOUS
<1>6. \A k \in 1..n : t[k] = u[k]
  BY <1>3, <1>4, <1>5
<1>7. t = u
  BY <1>4, <1>5, <1>6, SeqEqual
<1>8. QED
  BY <1>7 DEF u, f

\* A sequence whose last element is replaced and that gets another one.
LEMMA LastReplacedOneAdded ==
  ASSUME NEW S, NEW s \in Seq(S), NEW t \in Seq(S), NEW n \in Nat \ {0},
         Len(s) = n, Len(t) = n + 1,
         \A k \in 1..(n - 1) : t[k] = s[k]
  PROVE  t = Append(Append(Front(s), t[n]), t[n + 1])
<1>1. /\ t # <<>>
      /\ n + 1 \in Nat \ {0} /\ n + 1 - 1 = n
      /\ n \in 1..n /\ \A k \in 1..(n - 1) : k \in 1..n
  BY EmptySeq
<1> DEFINE u == Front(t)
<1>2. /\ u \in Seq(S) /\ Len(u) = n
      /\ \A k \in 1..n : u[k] = t[k]
  BY <1>1, FrontLast
<1> HIDE DEF u
<1>3. \A k \in 1..(n - 1) : u[k] = s[k]
  BY <1>1, <1>2
<1>4. u = Append(Front(s), u[n])
  BY <1>2, <1>3, LastReplaced
<1>5. t = Append(u, t[n + 1])
  BY <1>1, LastReplaced DEF u
<1>6. u[n] = t[n]
  BY <1>1, <1>2
<1>7. QED
  BY <1>4, <1>5, <1>6

\* A sequence that loses its last element and has the one before it replaced.
LEMMA LastLostOneReplaced ==
  ASSUME NEW S, NEW s \in Seq(S), NEW t \in Seq(S), NEW n \in Nat \ {0},
         n # 1, Len(s) = n, Len(t) = n - 1,
         \A k \in 1..(n - 2) : t[k] = s[k]
  PROVE  t = Append(Front(Front(s)), t[n - 1])
<1>1. /\ s # <<>>
      /\ n - 1 \in Nat \ {0}
      /\ n - 1 - 1 = n - 2
      /\ \A k \in 1..(n - 2) : k \in 1..(n - 1)
  BY EmptySeq
<1> DEFINE u == Front(s)
<1>2. /\ u \in Seq(S) /\ Len(u) = n - 1
      /\ \A k \in 1..(n - 1) : u[k] = s[k]
  BY <1>1, FrontLast
<1> HIDE DEF u
<1>3. \A k \in 1..(n - 1 - 1) : t[k] = u[k]
  BY <1>1, <1>2
<1>4. t = Append(Front(u), t[n - 1])
  BY <1>1, <1>2, <1>3, LastReplaced
<1>5. QED
  BY <1>4 DEF u

(***************************************************************************)
(* What the words of the stack say of one activation.                      *)
(***************************************************************************)

\* A function on 1..n is a sequence of length n.
LEMMA FunctionIsSeq ==
  ASSUME NEW S, NEW n \in Nat, NEW f \in [1..n -> S]
  PROVE  f \in Seq(S) /\ Len(f) = n
<1>1. f \in Seq(S)
  BY SeqDef
<1>2. Len(f) \in Nat /\ 1..Len(f) = 1..n
  BY <1>1, LenProperties
<1> DEFINE m == Len(f)
<1> HIDE DEF m
<1>3. m \in Nat /\ 1..m = 1..n => m = n
  OBVIOUS
<1>4. QED
  BY <1>1, <1>2, <1>3 DEF m

\* Replacing the operands of an activation.
LEMMA OperandsReplaced ==
  ASSUME NEW f, NEW L, NEW O, NEW R, NEW a,
         a = [fn |-> f, locals |-> L, operands |-> O]
  PROVE  /\ a.operands = O
         /\ [a EXCEPT !.operands = R] = [fn |-> f, locals |-> L, operands |-> R]
OBVIOUS

\* Replacing one of its local variables.
LEMMA LocalReplaced ==
  ASSUME NEW f, NEW L, NEW O, NEW i, NEW x, NEW a,
         a = [fn |-> f, locals |-> L, operands |-> O]
  PROVE  [a EXCEPT !.locals[i] = x]
           = [fn |-> f, locals |-> [L EXCEPT ![i] = x], operands |-> O]
OBVIOUS

\* Where the variables and the operands of an activation are.
LEMMA ActivationWords ==
  ASSUME NEW c \in Call, Operands(c) + c.depth <= StackWords
  PROVE  /\ Operands(c) \in Nat /\ c.depth \in Nat /\ c.savedFP \in Nat
         /\ Decl[c.fn].localVarCount \in Nat
         /\ c.savedFP <= Operands(c)
         /\ \A i \in 0..(Decl[c.fn].localVarCount - 1) :
              Locals(c) + i \in Word /\ Locals(c) + i < Operands(c)
         /\ \A j \in 1..c.depth : Operands(c) + j - 1 \in Word
<1>1. /\ c.depth \in Nat /\ Operands(c) \in Nat /\ c.savedFP \in Nat
      /\ Locals(c) = c.savedFP + 2
      /\ Decl[c.fn].localVarCount \in Nat
      /\ Operands(c) = c.savedFP + 2 + Decl[c.fn].localVarCount
  BY CallFacts
<1>2. \A i \in 0..(Decl[c.fn].localVarCount - 1) :
        Locals(c) + i \in Word /\ Locals(c) + i < Operands(c)
  BY <1>1, StackBounds DEF Word
<1>3. \A j \in 1..c.depth : Operands(c) + j - 1 \in Word
  BY <1>1, StackBounds DEF Word
<1>4. QED
  BY <1>1, <1>2, <1>3

\* The operands an activation sees are a sequence of as many words as the
\* generator counts.
LEMMA AbstractFacts ==
  ASSUME NEW m \in [Word -> Values], NEW c \in Call,
         Operands(c) + c.depth <= StackWords
  PROVE  LET a == Abstract(m, c)
         IN /\ a.fn = c.fn
            /\ a.operands \in Seq(Values)
            /\ Len(a.operands) = c.depth
            /\ \A j \in 1..c.depth : a.operands[j] = m[Operands(c) + j - 1]
            /\ DOMAIN a.locals = 0..(Decl[c.fn].localVarCount - 1)
            /\ \A i \in 0..(Decl[c.fn].localVarCount - 1) :
                 a.locals[i] = m[Locals(c) + i]
<1> DEFINE s == [j \in 1..c.depth |-> m[Operands(c) + j - 1]]
<1>1. c.depth \in Nat /\ Operands(c) \in Nat
  BY CallFacts
<1>2. \A j \in 1..c.depth : Operands(c) + j - 1 \in Word
  BY ActivationWords
<1>3. s \in [1..c.depth -> Values]
  BY <1>2
<1> HIDE DEF s
<1>4. s \in Seq(Values) /\ Len(s) = c.depth
  BY <1>1, <1>3, FunctionIsSeq
<1>5. QED
  BY <1>4 DEF Abstract, s

\* An activation is known by its function, its variables and its operands.
LEMMA AbstractIs ==
  ASSUME NEW m \in [Word -> Values], NEW c \in Call,
         Operands(c) + c.depth <= StackWords,
         NEW L, L = [i \in 0..(Decl[c.fn].localVarCount - 1) |-> m[Locals(c) + i]],
         NEW O \in Seq(Values), Len(O) = c.depth,
         \A j \in 1..c.depth : m[Operands(c) + j - 1] = O[j]
  PROVE  Abstract(m, c) = [fn |-> c.fn, locals |-> L, operands |-> O]
<1> DEFINE s == [j \in 1..c.depth |-> m[Operands(c) + j - 1]]
<1>1. s \in Seq(Values) /\ Len(s) = c.depth
  BY AbstractFacts DEF Abstract
<1>2. \A j \in 1..c.depth : s[j] = O[j]
  OBVIOUS
<1> HIDE DEF s
<1>3. s = O
  BY <1>1, <1>2, SeqEqual
<1>4. QED
  BY <1>3 DEF Abstract, s

\* The variables of an activation are as they were if nothing was written below
\* its operands.
LEMMA SameLocals ==
  ASSUME NEW m1 \in [Word -> Values], NEW m2 \in [Word -> Values],
         NEW c \in Call, Operands(c) + c.depth <= StackWords,
         \A a \in Word : a < Operands(c) => m2[a] = m1[a]
  PROVE  \A i \in 0..(Decl[c.fn].localVarCount - 1) :
           m2[Locals(c) + i] = m1[Locals(c) + i]
<1> SUFFICES ASSUME NEW i \in 0..(Decl[c.fn].localVarCount - 1)
             PROVE  m2[Locals(c) + i] = m1[Locals(c) + i]
  OBVIOUS
<1> DEFINE w == Locals(c) + i
<1>1. w \in Word /\ w < Operands(c)
  BY ActivationWords
<1> HIDE DEF w
<1>2. m2[w] = m1[w]
  BY <1>1
<1>3. QED
  BY <1>2 DEF w

\* Nothing written among the words of an activation, nothing changed for it.
LEMMA AbstractSame ==
  ASSUME NEW m1 \in [Word -> Values], NEW m2 \in [Word -> Values],
         NEW c \in Call, Operands(c) + c.depth <= StackWords,
         \A a \in Word : a < Operands(c) + c.depth => m2[a] = m1[a]
  PROVE  Abstract(m2, c) = Abstract(m1, c)
<1>1. \A i \in 0..(Decl[c.fn].localVarCount - 1) :
        m2[Locals(c) + i] = m1[Locals(c) + i]
  <2>1. \A a \in Word : a < Operands(c) => a < Operands(c) + c.depth
    BY ActivationWords, StackBounds DEF Word
  <2>2. QED
    BY <2>1, SameLocals
<1>2. \A j \in 1..c.depth :
        m2[Operands(c) + j - 1] = m1[Operands(c) + j - 1]
  <2> SUFFICES ASSUME NEW j \in 1..c.depth
               PROVE  m2[Operands(c) + j - 1] = m1[Operands(c) + j - 1]
    OBVIOUS
  <2> DEFINE w == Operands(c) + j - 1
  <2>1. w \in Word /\ w < Operands(c) + c.depth
    BY ActivationWords
  <2> HIDE DEF w
  <2>2. m2[w] = m1[w]
    BY <2>1
  <2>3. QED
    BY <2>2 DEF w
<1>3. QED
  BY <1>1, <1>2 DEF Abstract

\* The memories m1 and m2 agree on the words below b; m has the words of r
\* from b on.
Agree(m1, m2, b) == \A a \in Word : a < b => m2[a] = m1[a]

Holds(m, b, r) == \A j \in 1..Len(r) : m[b + j - 1] = r[j]

\* Memory m1 of activation c becomes memory m2 of activation d by taking the
\* n uppermost operands and pushing those of r.
Operated(m1, c, m2, d, n, r) ==
  LET b == Operands(c) + c.depth - n
  IN /\ m1 \in [Word -> Values] /\ m2 \in [Word -> Values]
     /\ c \in Call /\ d \in Call
     /\ d.fn = c.fn /\ d.savedFP = c.savedFP
     /\ n \in Nat /\ n <= c.depth /\ r \in Seq(Values)
     /\ d.depth = c.depth - n + Len(r)
     /\ Operands(c) + c.depth <= StackWords
     /\ Operands(d) + d.depth <= StackWords
     /\ Agree(m1, m2, b) /\ Holds(m2, b, r)

\* An activation that takes n operands and gives those of r.
Taking(a, n, r) == [a EXCEPT !.operands = SubSeq(@, 1, Len(@) - n) \o r]

\* An instruction writes only above the operands it takes and leaves the others
\* of its activation.
LEMMA AfterOperate ==
  ASSUME NEW m1, NEW c, NEW m2, NEW d, NEW n, NEW r,
         Operated(m1, c, m2, d, n, r)
  PROVE  Abstract(m2, d) = Taking(Abstract(m1, c), n, r)
<1> DEFINE b  == Operands(c) + c.depth - n
<1>0. /\ m1 \in [Word -> Values] /\ m2 \in [Word -> Values]
      /\ c \in Call /\ d \in Call
      /\ d.fn = c.fn /\ d.savedFP = c.savedFP
      /\ n \in Nat /\ n <= c.depth /\ r \in Seq(Values)
      /\ d.depth = c.depth - n + Len(r)
      /\ Operands(c) + c.depth <= StackWords
      /\ Operands(d) + d.depth <= StackWords
      /\ Agree(m1, m2, b) /\ Holds(m2, b, r)
  BY DEF Operated
<1> USE <1>0
<1> DEFINE O  == Abstract(m1, c).operands
           L  == Abstract(m1, c).locals
           k  == c.depth - n
           s  == SubSeq(O, 1, k)
<1>1. /\ Operands(c) \in Nat /\ c.depth \in Nat /\ c.savedFP \in Nat
      /\ c.savedFP <= Operands(c)
  BY ActivationWords
<1>2. Operands(d) = Operands(c) /\ Locals(d) = Locals(c)
  BY DEF Operands, Locals
<1>3. /\ O \in Seq(Values) /\ Len(O) = c.depth
      /\ \A j \in 1..c.depth : O[j] = m1[Operands(c) + j - 1]
      /\ L = [i \in 0..(Decl[c.fn].localVarCount - 1) |-> m1[Locals(c) + i]]
  BY AbstractFacts DEF Abstract
<1>4. k \in Nat /\ k <= c.depth /\ Len(r) \in Nat
  BY <1>1, LenProperties
<1> HIDE DEF O, L, k
<1>5. /\ s \in Seq(Values) /\ Len(s) = k
      /\ \A j \in 1..k : s[j] = O[j]
  <2>1. \A j \in 1..k : O[j] \in Values
    BY <1>1, <1>3, <1>4, ElementOfSeq
  <2>2. /\ s \in Seq(Values)
        /\ Len(s) = IF 1 <= k THEN k - 1 + 1 ELSE 0
        /\ \A j \in 1..(k - 1 + 1) : s[j] = O[1 + j - 1]
    BY <1>4, <2>1, SubSeqProperties
  <2>3. \A j \in 1..k : 1 + j - 1 = j /\ j \in 1..(k - 1 + 1)
    BY <1>4
  <2>4. QED
    BY <1>4, <2>2, <2>3
<1> HIDE DEF s
<1> DEFINE R == s \o r
<1>6. /\ R \in Seq(Values) /\ Len(R) = k + Len(r)
      /\ \A j \in 1..(k + Len(r)) : R[j] = IF j <= k THEN s[j] ELSE r[j - k]
  BY <1>5, ConcatProperties
<1> HIDE DEF R
<1>7. Len(R) = d.depth
  BY <1>4, <1>6 DEF k
<1>8. L = [i \in 0..(Decl[d.fn].localVarCount - 1) |-> m2[Locals(d) + i]]
  <2>1. \A i \in 0..(Decl[c.fn].localVarCount - 1) :
          m2[Locals(c) + i] = m1[Locals(c) + i]
    <3>1. \A a \in Word : a < Operands(c) => a < b
      BY <1>1, <1>4, StackBounds, SMTT(30) DEF Word, k
    <3>2. QED
      BY <3>1, SameLocals DEF Agree
  <2>2. QED
    BY <1>2, <1>3, <2>1
<1>9. ASSUME NEW j \in 1..d.depth PROVE m2[Operands(d) + j - 1] = R[j]
  <2>1. j \in 1..(k + Len(r)) /\ j \in Int
    BY <1>4, <1>6, <1>7
  <2>2. CASE j <= k
    <3>1. j \in 1..c.depth /\ j \in 1..k
      BY <1>1, <1>4, <2>1, <2>2
    <3>2. /\ Operands(c) + j - 1 \in Word
          /\ Operands(c) + j - 1 < b
      BY <1>1, <1>4, <2>1, <2>2, <3>1, ActivationWords DEF k
    <3>3. m2[Operands(c) + j - 1] = m1[Operands(c) + j - 1]
      BY <3>2 DEF Agree
    <3>4. R[j] = O[j]
      BY <1>5, <1>6, <2>1, <2>2, <3>1
    <3>5. QED
      BY <1>2, <1>3, <3>1, <3>3, <3>4
  <2>3. CASE ~ (j <= k)
    <3>1. j - k \in 1..Len(r) /\ R[j] = r[j - k]
      BY <1>4, <1>6, <2>1, <2>3
    <3>2. b + (j - k) - 1 = Operands(d) + j - 1
      BY <1>1, <1>2, <2>1 DEF k
    <3>3. QED
      BY <3>1, <3>2 DEF Holds
  <2>4. QED
    BY <2>2, <2>3
<1>10. Abstract(m2, d) = [fn |-> d.fn, locals |-> L, operands |-> R]
  BY <1>6, <1>7, <1>8, <1>9, AbstractIs
<1>11. R = SubSeq(O, 1, Len(O) - n) \o r
  BY <1>3 DEF R, s, k
<1>12. Abstract(m1, c) = [fn |-> c.fn, locals |-> L, operands |-> O]
  BY DEF L, O, Abstract
<1> DEFINE a == Abstract(m1, c)
<1>13. /\ a.operands = O
       /\ [a EXCEPT !.operands = R] = [fn |-> c.fn, locals |-> L, operands |-> R]
  BY <1>12, OperandsReplaced
<1>14. [a EXCEPT !.operands = SubSeq(@, 1, Len(@) - n) \o r]
         = [a EXCEPT !.operands = R]
  <2> HIDE DEF a
  <2>1. SubSeq(a.operands, 1, Len(a.operands) - n) \o r = R
    BY <1>11, <1>13
  <2>2. QED
    BY <2>1
<1>15. QED
  BY <1>10, <1>13, <1>14 DEF Taking

(***************************************************************************)
(* The activations of a state.                                             *)
(***************************************************************************)
Activity == {Abstract(m, c) : m \in [Word -> Values], c \in Call}

\* The activations seen through the stack are as many as the calls.
LEMMA ActivationsAreSeq ==
  ASSUME NEW m \in [Word -> Values], NEW cs \in Seq(Call)
  PROVE  LET A == [k \in 1..Len(cs) |-> Abstract(m, cs[k])]
         IN /\ A \in Seq(Activity)
            /\ Len(A) = Len(cs)
            /\ \A k \in 1..Len(cs) : A[k] = Abstract(m, cs[k])
<1> DEFINE A == [k \in 1..Len(cs) |-> Abstract(m, cs[k])]
<1>1. Len(cs) \in Nat /\ \A k \in 1..Len(cs) : cs[k] \in Call
  BY LenProperties, ElementOfSeq
<1>2. A \in [1..Len(cs) -> Activity]
  BY <1>1 DEF Activity
<1>3. A \in Seq(Activity) /\ Len(A) = Len(cs)
  BY <1>1, <1>2, FunctionIsSeq
<1>4. QED
  BY <1>3

\* After a step they are seen through the new stack.
LEMMA PrimedActivations ==
  Activations' = [k \in 1..Len(calls') |-> Abstract(stack', calls'[k])]
BY DEF Activations, Abstract, Locals, Operands

\* Of every activation the words lie in the stack; those of a suspended one
\* end where the arguments of the running one begin.
LEMMA ActivationsFit ==
  ASSUME StaticInv, phase = "running", NEW k \in 1..Len(calls)
  PROVE  /\ calls[k] \in Call
         /\ Operands(calls[k]) + calls[k].depth <= StackWords
         /\ k # Len(calls) => Operands(calls[k]) + calls[k].depth
                                <= Top.savedFP - ArgumentWords(Top.fn)
<1>1. /\ IndInv /\ calls \in Seq(Call)
      /\ Top = calls[Len(calls)] /\ Top \in Call
  BY TopFacts DEF StaticInv, IndInv, TypeOK
<1>2. calls[k] \in Call
  BY <1>1, ElementOfSeq
<1>3. /\ ArgumentWords(Top.fn) \in Nat
      /\ Top.savedFP \in Nat /\ Top.savedFP < StackWords
      /\ Operands(calls[k]) \in Nat /\ calls[k].depth \in Nat
  BY <1>1, <1>2, CallFacts, WordCounts
<1>4. CASE k = Len(calls)
  BY <1>1, <1>2, <1>4, OperandPlace, StackBounds
<1>5. CASE k # Len(calls)
  BY <1>2, <1>3, <1>5, BelowTop, StackBounds
<1>6. QED
  BY <1>4, <1>5

\* Who writes nothing below the arguments of the running activation leaves the
\* suspended ones as they were.
LEMMA SuspendedSame ==
  ASSUME StaticInv, phase = "running", NEW k \in 1..Len(calls), k # Len(calls),
         NEW m \in [Word -> Values],
         \A a \in Word : a < Top.savedFP - ArgumentWords(Top.fn)
                          => m[a] = stack[a]
  PROVE  Abstract(m, calls[k]) = Abstract(stack, calls[k])
<1> DEFINE c == calls[k]
           e == Top.savedFP - ArgumentWords(Top.fn)
<1>1. /\ c \in Call
      /\ Operands(c) + c.depth <= StackWords
      /\ Operands(c) + c.depth <= e
  BY ActivationsFit
<1>2. /\ Top \in Call /\ stack \in [Word -> Values]
      /\ Operands(c) \in Nat /\ c.depth \in Nat
  BY <1>1, TopFacts, CallFacts DEF StaticInv, IndInv, TypeOK
<1>3. e \in Int
  BY <1>2, CallFacts, WordCounts
<1> HIDE DEF c, e
<1>4. \A a \in Word : a < Operands(c) + c.depth => a < e
  BY <1>1, <1>2, <1>3, StackBounds DEF Word
<1>5. \A a \in Word : a < Operands(c) + c.depth => m[a] = stack[a]
  BY <1>4 DEF e
<1>6. QED
  BY <1>1, <1>2, <1>5, AbstractSame DEF c

\* The running activation is the last one.
LEMMA TopActivation ==
  ASSUME StaticInv, phase = "running"
  PROVE  /\ Activations \in Seq(Activity)
         /\ Len(Activations) = Len(calls) /\ Len(calls) \in Nat \ {0}
         /\ Activations # <<>>
         /\ Last(Activations) = Abstract(stack, Top)
         /\ \A k \in 1..Len(calls) : Activations[k] = Abstract(stack, calls[k])
         /\ calls \in Seq(Call) /\ stack \in [Word -> Values]
         /\ Top \in Call
         /\ Operands(Top) + Top.depth <= StackWords
<1>1. /\ calls \in Seq(Call) /\ stack \in [Word -> Values]
      /\ Len(calls) \in Nat \ {0}
      /\ Top = calls[Len(calls)] /\ Top \in Call
  BY TopFacts DEF StaticInv, IndInv, TypeOK
<1>2. /\ Activations \in Seq(Activity)
      /\ Len(Activations) = Len(calls)
      /\ \A k \in 1..Len(calls) : Activations[k] = Abstract(stack, calls[k])
  BY <1>1, ActivationsAreSeq DEF Activations
<1>3. Activations # <<>>
  BY <1>1, <1>2, EmptySeq
<1>4. Last(Activations) = Activations[Len(calls)]
  BY <1>2, <1>3, FrontLast
<1>5. Len(calls) \in 1..Len(calls)
  BY <1>1
<1>6. QED
  BY <1>1, <1>2, <1>3, <1>4, <1>5, ActivationsFit

\* An instruction that stays in the running activation replaces that one.
LEMMA InPlace ==
  ASSUME StaticInv, phase = "running", NEW taken \in Nat, NEW given \in Nat,
         Takes(taken, given), stack' \in [Word -> Values],
         \A a \in Word : a < Top.savedFP => stack'[a] = stack[a]
  PROVE  /\ Activations' = Append(Front(Activations), Abstract(stack', Top'))
         /\ phase' = phase
         /\ Top' \in Call
         /\ Top'.fn = Top.fn /\ Top'.savedFP = Top.savedFP
         /\ Top'.depth = Top.depth - taken + given
<1> DEFINE n == Len(calls)
<1>1. /\ Activations \in Seq(Activity) /\ Len(Activations) = n
      /\ n \in Nat \ {0}
      /\ \A k \in 1..n : Activations[k] = Abstract(stack, calls[k])
      /\ Top \in Call
  BY TopActivation
<1>2. /\ phase' = phase
      /\ calls' \in Seq(Call) /\ Len(calls') = n
      /\ Top' = calls'[n]
      /\ Top'.depth = Top.depth - taken + given
      /\ \A k \in 1..n : /\ calls'[k].fn = calls[k].fn
                         /\ calls'[k].savedFP = calls[k].savedFP
                         /\ k # n => calls'[k] = calls[k]
  BY TakesShape DEF StaticInv
<1>3. /\ Activations' \in Seq(Activity) /\ Len(Activations') = n
      /\ \A k \in 1..n : Activations'[k] = Abstract(stack', calls'[k])
  BY <1>2, PrimedActivations, ActivationsAreSeq
<1>4. ASSUME NEW k \in 1..(n - 1) PROVE Activations'[k] = Activations[k]
  <2>1. k \in 1..n /\ k # n
    BY <1>1
  <2>2. \A a \in Word : a < Top.savedFP - ArgumentWords(Top.fn)
                           => a < Top.savedFP
    BY <1>1, CallFacts, WordCounts, StackBounds, SMTT(30) DEF Word
  <2>3. Abstract(stack', calls[k]) = Abstract(stack, calls[k])
    BY <2>1, <2>2, SuspendedSame
  <2>4. QED
    BY <1>1, <1>2, <1>3, <2>1, <2>3
<1>5. Activations' = Append(Front(Activations), Activations'[n])
  BY <1>1, <1>3, <1>4, LastReplaced
<1>6. /\ n \in 1..n
      /\ Top = calls[n]
  BY <1>1, TopFacts DEF StaticInv
<1>7. Top' \in Call
  BY <1>2, <1>6, ElementOfSeq
<1>8. QED
  BY <1>2, <1>3, <1>5, <1>6, <1>7

\* The call machine's operators on sequences are the executor's.
LEMMA MachineSequences ==
  ASSUME NEW s
  PROVE  Machine!Last(s) = Last(s) /\ Machine!Front(s) = Front(s)
BY DEF Machine!Last, Machine!Front, Last, Front

(***************************************************************************)
(* The instructions of one activation.                                     *)
(***************************************************************************)

\* An instruction that takes the n uppermost words and pushes those of r, as
\* the generator's operand count says.
LEMMA OperateStep ==
  ASSUME StaticInv, phase = "running", NEW taken \in Nat, NEW given \in Nat,
         Takes(taken, given), stack' \in [Word -> Values],
         NEW n \in Nat, n <= Top.depth,
         NEW r \in Seq(Values), NEW g \in Nat, Len(r) = g,
         g - n = given - taken, NEW b \in Int, b = sp - n, b + g <= StackWords,
         Agree(stack, stack', b), Holds(stack', b, r)
  PROVE  Machine!Operate(n, r)
<1> DEFINE c == Top
           d == Top'
<1>1. /\ c \in Call /\ stack \in [Word -> Values]
      /\ Last(Activations) = Abstract(stack, c)
      /\ Operands(c) + c.depth <= StackWords
      /\ sp = Operands(c) + c.depth
      /\ Operands(c) \in Nat /\ c.depth \in Nat /\ c.savedFP \in Nat
      /\ c.savedFP <= Operands(c)
      /\ n <= c.depth
  BY TopActivation, OperandPlace, ActivationWords
<1>2. \A a \in Word : a < Top.savedFP => stack'[a] = stack[a]
  <2>0. c.savedFP <= b /\ c.savedFP \in Nat
    BY <1>1, SMTT(30)
  <2>1. \A a \in Word : a < Top.savedFP => a < b
    BY <2>0, StackBounds DEF Word
  <2>2. QED
    BY <2>1 DEF Agree
<1>3. /\ Activations' = Append(Front(Activations), Abstract(stack', d))
      /\ phase' = phase
      /\ d \in Call
      /\ d.fn = c.fn /\ d.savedFP = c.savedFP
      /\ d.depth = c.depth - taken + given
  BY <1>2, InPlace
<1>4. Operands(d) = Operands(c)
  BY <1>3 DEF Operands, Locals
<1> HIDE DEF c, d
<1>5. d.depth = c.depth - n + g
  <2>1. c.depth \in Nat /\ d.depth = c.depth - taken + given
    BY <1>1, <1>3
  <2>2. QED
    BY <2>1
<1>6. b = Operands(c) + c.depth - n
  BY <1>1
<1>7. Operands(d) + d.depth <= StackWords
  BY <1>1, <1>4, <1>5, <1>6, SMTT(30)
<1>8. Abstract(stack', d) = Taking(Abstract(stack, c), n, r)
  <2>1. Operated(stack, c, stack', d, n, r)
    BY <1>1, <1>3, <1>5, <1>6, <1>7 DEF Operated
  <2>2. QED
    BY <2>1, AfterOperate
<1>9. Machine!Top = Abstract(stack, c)
  BY <1>1, MachineSequences DEF Machine!Top
<1>10. Machine!SetTop(Abstract(stack', d))
  BY <1>3, MachineSequences DEF Machine!SetTop
<1>11. QED
  BY <1>8, <1>9, <1>10 DEF Machine!Operate, Taking

\* An instruction that pushes one word on top of the operands.
LEMMA PushStep ==
  ASSUME StaticInv, phase = "running", NEW taken \in Nat,
         Takes(taken, taken + 1), NEW v \in Values, sp \in Word,
         stack' = [stack EXCEPT ![sp] = v]
  PROVE  Machine!SetTop([Machine!Top EXCEPT !.operands = Append(@, v)])
<1> DEFINE r == <<v>>
           O == Abstract(stack, Top).operands
<1>1. /\ Top \in Call /\ stack \in [Word -> Values]
      /\ Last(Activations) = Abstract(stack, Top)
      /\ Operands(Top) + Top.depth <= StackWords
      /\ Top.depth \in Nat
  BY TopActivation, OperandPlace
<1>2. stack' \in [Word -> Values]
  BY <1>1
<1>3. /\ r \in Seq(Values) /\ Len(r) = 1 /\ r[1] = v
      /\ taken + 1 \in Nat /\ 1 - 0 = taken + 1 - taken
      /\ 0 <= Top.depth
  BY <1>1
<1>4. sp \in Int /\ sp = sp - 0 /\ sp + 1 <= StackWords
  BY StackBounds DEF Word
<1>5. Agree(stack, stack', sp)
  BY <1>1, <1>4, StackBounds DEF Word, Agree
<1>6. Holds(stack', sp, r)
  <2>1. stack'[sp] = v
    BY <1>1
  <2>2. \A j \in 1..1 : j = 1 /\ sp + j - 1 = sp
    BY <1>4
  <2>3. QED
    BY <1>3, <2>1, <2>2 DEF Holds
<1> HIDE DEF r
<1>7. Machine!Operate(0, r)
  <2> DEFINE n == 0
             g == 1
             given == taken + 1
  <2>1. /\ n \in Nat /\ g \in Nat /\ given \in Nat
        /\ g - n = given - taken /\ Len(r) = g
        /\ n <= Top.depth
        /\ sp = sp - n /\ sp + g <= StackWords
        /\ Takes(taken, given)
    BY <1>3, <1>4
  <2> HIDE DEF n, g, given
  <2>2. Machine!Operate(n, r)
    BY <1>2, <1>3, <1>4, <1>5, <1>6, <2>1, OperateStep
  <2>3. QED
    BY <2>2 DEF n
<1>8. O \in Seq(Values) /\ Len(O) \in Nat
  BY <1>1, AbstractFacts, LenProperties
<1>9. SubSeq(O, 1, Len(O) - 0) \o r = Append(O, v)
  <2>1. Len(O) - 0 = Len(O)
    BY <1>8
  <2>2. SubSeq(O, 1, Len(O)) = O
    BY <1>8, SubSeqFull
  <2>3. Append(O, v) = O \o r
    BY <1>8, AppendIsConcat DEF r
  <2>4. QED
    BY <2>1, <2>2, <2>3
<1> HIDE DEF O
<1>10. Machine!Top.operands = O
  BY <1>1, MachineSequences DEF O, Machine!Top
<1>11. QED
  BY <1>7, <1>9, <1>10 DEF Machine!Operate

\* The locals of the running activation are addressed from fp.
LEMMA TopLocals ==
  ASSUME StaticInv, phase = "running",
         NEW i \in 0..(Decl[Top.fn].localVarCount - 1)
  PROVE  /\ i \in DOMAIN Machine!Top.locals
         /\ Machine!Top.locals[i] = stack[fp + Header + i]
         /\ fp + Header + i \in Word
<1>1. /\ Last(Activations) = Abstract(stack, Top)
      /\ Top \in Call /\ stack \in [Word -> Values]
      /\ Operands(Top) + Top.depth <= StackWords
      /\ fp = Top.savedFP
      /\ IndInv
  BY TopActivation, TopFacts DEF StaticInv
<1>2. Locals(Top) + i = fp + Header + i
  BY <1>1 DEF Locals
<1> DEFINE A == Abstract(stack, Top)
<1>3. /\ DOMAIN A.locals = 0..(Decl[Top.fn].localVarCount - 1)
      /\ A.locals[i] = stack[Locals(Top) + i]
  BY <1>1, AbstractFacts
<1>4. Machine!Top = A
  BY <1>1, MachineSequences DEF Machine!Top
<1>5. fp + Header + i \in Word
  BY <1>1, LocalInStack
<1> HIDE DEF A
<1>6. QED
  BY <1>2, <1>3, <1>4, <1>5

\* ILOAD and OLOAD push the variable the call machine has under that index.
LEMMA LoadImplements ==
  ASSUME StaticInv, phase = "running",
         NEW i \in 0..(Decl[Top.fn].localVarCount - 1), Load(i)
  PROVE  i \in DOMAIN Machine!Top.locals /\ Machine!Load(i)
<1> DEFINE v == stack[fp + Header + i]
<1>1. /\ i \in DOMAIN Machine!Top.locals
      /\ Machine!Top.locals[i] = v
      /\ v \in Values
  BY TopLocals, TopActivation
<1>2. Takes(0, 0 + 1) /\ sp \in Word /\ stack' = [stack EXCEPT ![sp] = v]
  BY DEF Load, PushAt
<1> HIDE DEF v
<1>3. Machine!SetTop([Machine!Top EXCEPT !.operands = Append(@, v)])
  BY <1>1, <1>2, PushStep
<1>4. QED
  BY <1>1, <1>3 DEF Machine!Load

\* The uppermost operand is the word below sp.
LEMMA TopOperand ==
  ASSUME StaticInv, phase = "running", Top.depth >= 1
  PROVE  /\ Machine!Top.operands # <<>>
         /\ Machine!Top.operands \in Seq(Values)
         /\ Len(Machine!Top.operands) = Top.depth
         /\ Last(Machine!Top.operands) = stack[sp - 1]
         /\ stack[sp - 1] \in Values
         /\ sp - 1 \in Word
<1> DEFINE O == Abstract(stack, Top).operands
<1>1. /\ Last(Activations) = Abstract(stack, Top)
      /\ Top \in Call /\ stack \in [Word -> Values]
      /\ Operands(Top) + Top.depth <= StackWords
      /\ sp = Operands(Top) + Top.depth
      /\ Operands(Top) \in Nat /\ Top.depth \in Nat
  BY TopActivation, OperandPlace
<1>2. /\ O \in Seq(Values) /\ Len(O) = Top.depth
      /\ \A j \in 1..Top.depth : O[j] = stack[Operands(Top) + j - 1]
  BY <1>1, AbstractFacts
<1>3. O # <<>>
  BY <1>1, <1>2, EmptySeq
<1>4. Last(O) = O[Top.depth] /\ Last(O) \in Values
  BY <1>2, <1>3, FrontLast
<1>5. Top.depth \in 1..Top.depth /\ Operands(Top) + Top.depth - 1 = sp - 1
  BY <1>1
<1>6. sp - 1 \in Word
  BY <1>1, <1>5, ActivationWords
<1>7. QED
  BY <1>1, <1>2, <1>3, <1>4, <1>5, <1>6, MachineSequences DEF Machine!Top

\* DUP pushes the uppermost operand again.
LEMMA DupImplements ==
  ASSUME StaticInv, phase = "running", Dup
  PROVE  Machine!Dup
<1> DEFINE v == stack[sp - 1]
<1>1. /\ Takes(1, 1 + 1) /\ sp \in Word
      /\ stack' = [stack EXCEPT ![sp] = v]
      /\ Top.depth >= 1
  <2>1. Takes(1, 2) /\ sp \in Word /\ stack' = [stack EXCEPT ![sp] = v]
    BY DEF Dup, PushAt
  <2>2. Top.depth >= 1
    BY <2>1, OperandPlace DEF Takes
  <2>3. QED
    BY <2>1, <2>2
<1>2. /\ Machine!Top.operands # <<>>
      /\ Last(Machine!Top.operands) = v
      /\ v \in Values
  BY <1>1, TopOperand
<1> HIDE DEF v
<1>3. Machine!SetTop([Machine!Top EXCEPT !.operands = Append(@, v)])
  BY <1>1, <1>2, PushStep
<1>4. QED
  BY <1>2, <1>3, MachineSequences DEF Machine!Dup

\* The operands of the running activation, as many as the generator counts.
LEMMA TopOperands ==
  ASSUME StaticInv, phase = "running"
  PROVE  /\ Machine!Top = Abstract(stack, Top)
         /\ Machine!Top.operands \in Seq(Values)
         /\ Len(Machine!Top.operands) = Top.depth
<1>1. /\ Last(Activations) = Abstract(stack, Top)
      /\ Top \in Call /\ stack \in [Word -> Values]
      /\ Operands(Top) + Top.depth <= StackWords
  BY TopActivation
<1>2. Machine!Top = Abstract(stack, Top)
  BY <1>1, MachineSequences DEF Machine!Top
<1>3. QED
  BY <1>1, <1>2, AbstractFacts

\* Operators, constants and conversions replace operands by one result.
LEMMA ComputeImplements ==
  ASSUME StaticInv, phase = "running", NEW taken \in Nat, NEW v \in Values,
         Compute(taken, v)
  PROVE  Machine!Run
<1> DEFINE r == <<v>>
           g == 1
           b == sp - taken
<1>1. /\ Takes(taken, g) /\ b \in Word
      /\ stack' = [stack EXCEPT ![b] = v]
      /\ stack \in [Word -> Values]
      /\ sp = Operands(Top) + Top.depth
      /\ Operands(Top) \in Nat /\ Top.depth \in Nat
      /\ taken <= Top.depth
  BY OperandPlace DEF Compute, PushAt, Takes
<1>2. /\ r \in Seq(Values) /\ Len(r) = g /\ r[1] = v /\ g \in Nat
      /\ g - taken = g - taken
      /\ b \in Int /\ b + g <= StackWords
  BY <1>1, StackBounds DEF Word
<1>3. stack' \in [Word -> Values]
  BY <1>1
<1>4. Agree(stack, stack', b)
  BY <1>1, <1>2, StackBounds DEF Agree, Word
<1>5. Holds(stack', b, r)
  <2>1. stack'[b] = v
    BY <1>1
  <2>2. \A j \in 1..Len(r) : j = 1 /\ b + j - 1 = b
    BY <1>2
  <2> HIDE DEF r, b
  <2>3. QED
    BY <1>2, <2>1, <2>2 DEF Holds
<1> HIDE DEF r, g, b
<1>6. Machine!Operate(taken, r)
  BY <1>1, <1>2, <1>3, <1>4, <1>5, OperateStep DEF b
<1>7. taken \in 0..Len(Machine!Top.operands)
  BY <1>1, TopOperands
<1>8. QED
  BY <1>6, <1>7 DEF Machine!Run, r

\* POP and the stores outside the stack only take operands.
LEMMA DiscardImplements ==
  ASSUME StaticInv, phase = "running", NEW taken \in Nat, Discard(taken)
  PROVE  Machine!Run
<1> DEFINE r == <<>>
           g == 0
           b == sp - taken
<1>1. /\ Takes(taken, g) /\ b \in Word
      /\ stack' = stack
      /\ stack \in [Word -> Values]
      /\ sp = Operands(Top) + Top.depth
      /\ Operands(Top) \in Nat /\ Top.depth \in Nat
      /\ taken <= Top.depth
  BY OperandPlace DEF Discard, Takes
<1>2. /\ r \in Seq(Values) /\ Len(r) = g /\ g \in Nat
      /\ g - taken = g - taken
      /\ b \in Int /\ b + g <= StackWords
  BY <1>1, EmptySeq, StackBounds DEF Word
<1>3. stack' \in [Word -> Values] /\ Agree(stack, stack', b)
  BY <1>1 DEF Agree
<1>4. Holds(stack', b, r)
  BY <1>2 DEF Holds
<1> HIDE DEF r, g, b
<1>5. Machine!Operate(taken, r)
  BY <1>1, <1>2, <1>3, <1>4, OperateStep DEF b
<1>6. taken \in 0..Len(Machine!Top.operands)
  BY <1>1, TopOperands
<1>7. QED
  BY <1>5, <1>6 DEF Machine!Run, r

\* A built-in function takes its arguments and gives its result; its frame above
\* sp leaves nothing among the words of an activation.
LEMMA InvokeCImplements ==
  ASSUME StaticInv, phase = "running", NEW f \in Funcs, NEW v \in Values,
         InvokeC(f, v)
  PROVE  Machine!Run
<1> DEFINE n == ArgumentWords(f)
           g == ResultWords(f)
           b == sp - n
           memory == [stack EXCEPT ![sp] = v]
<1>1. /\ n \in Nat /\ g \in 0..1 /\ g \in Nat
      /\ RemovedWords(f) = n
  BY WordCounts DEF InvokeC
<1>2. /\ Takes(n, g)
      /\ AfterCall(f, sp, v, memory)
      /\ n <= Top.depth
      /\ sp + 2 <= StackWords
      /\ stack \in [Word -> Values]
      /\ sp = Operands(Top) + Top.depth
      /\ Operands(Top) \in Nat /\ Top.depth \in Nat
  BY OperandPlace DEF InvokeC, Takes, Header
<1>3. /\ sp \in Word /\ b \in Word /\ b \in Int /\ b + g <= StackWords
      /\ sp \in Int /\ b <= sp
  BY <1>1, <1>2, StackBounds, SMTT(30) DEF Word
<1>4. memory \in [Word -> Values] /\ \A a \in Word : a # sp => memory[a] = stack[a]
  BY <1>2
<1>5. \A a \in Word : a < b => a # sp /\ a # b
  BY <1>3, StackBounds DEF Word
<1>6. n \in 0..Len(Machine!Top.operands)
  BY <1>1, <1>2, TopOperands
<1>7. g - n = g - n /\ b = sp - n
  OBVIOUS
<1> HIDE DEF memory
<1>8. CASE Decl[f].returnsVoid
  <2> DEFINE r == <<>>
  <2>1. stack' = memory /\ g = 0
    BY <1>2, <1>8 DEF AfterCall, ResultWords
  <2>2. r \in Seq(Values) /\ Len(r) = g
    BY <2>1, EmptySeq
  <2>3. stack' \in [Word -> Values] /\ Agree(stack, stack', b)
    BY <1>4, <1>5, <2>1 DEF Agree
  <2>4. Holds(stack', b, r)
    BY <2>1, <2>2 DEF Holds
  <2> HIDE DEF r, n, g, b
  <2>5. Machine!Operate(n, r)
    BY <1>1, <1>2, <1>3, <1>7, <2>2, <2>3, <2>4, OperateStep
  <2>6. QED
    BY <1>6, <2>5 DEF Machine!Run, r
<1>9. CASE ~ Decl[f].returnsVoid
  <2> DEFINE r == <<v>>
  <2>1. stack' = [memory EXCEPT ![b] = v] /\ g = 1
    BY <1>1, <1>2, <1>9 DEF AfterCall, ResultWords
  <2>2. r \in Seq(Values) /\ Len(r) = g /\ r[1] = v
    BY <2>1
  <2>3. stack' \in [Word -> Values] /\ Agree(stack, stack', b)
    BY <1>3, <1>4, <1>5, <2>1 DEF Agree
  <2>4. Holds(stack', b, r)
    <3>1. stack'[b] = v
      BY <1>3, <1>4, <2>1
    <3>2. \A j \in 1..Len(r) : j = 1 /\ b + j - 1 = b
      BY <1>3, <2>1, <2>2
    <3> HIDE DEF r, b
    <3>3. QED
      BY <2>2, <3>1, <3>2 DEF Holds
  <2> HIDE DEF r, n, g, b
  <2>5. Machine!Operate(n, r)
    BY <1>1, <1>2, <1>3, <1>7, <2>2, <2>3, <2>4, OperateStep
  <2>6. QED
    BY <1>6, <2>5 DEF Machine!Run, r
<1>10. QED
  BY <1>8, <1>9

\* A store takes the uppermost operand into one local variable.
LEMMA StoreImplements ==
  ASSUME StaticInv, phase = "running",
         NEW i \in 0..(Decl[Top.fn].localVarCount - 1), Store(i)
  PROVE  i \in DOMAIN Machine!Top.locals /\ Machine!Store(i)
<1> DEFINE c == Top
           d == Top'
           w == fp + Header + i
           x == stack[sp - 1]
           L == Abstract(stack, c).locals
           O == Abstract(stack, c).operands
           n == Decl[c.fn].localVarCount
<1>1. /\ Takes(1, 0)
      /\ sp - 1 \in Word
      /\ stack' = [stack EXCEPT ![w] = x]
  BY DEF Store
<1>2. /\ c \in Call /\ stack \in [Word -> Values]
      /\ Last(Activations) = Abstract(stack, c)
      /\ Operands(c) + c.depth <= StackWords
      /\ Operands(c) \in Nat /\ c.depth \in Nat /\ c.savedFP \in Nat
      /\ n \in Nat
      /\ Operands(c) = c.savedFP + 2 + n
      /\ Locals(c) = c.savedFP + 2
      /\ fp = c.savedFP
      /\ c.depth >= 1
  <2>1. c.depth >= 1
    BY <1>1, OperandPlace DEF Takes
  <2>2. fp = c.savedFP
    BY TopFacts DEF StaticInv
  <2>3. QED
    BY <2>1, <2>2, TopActivation, OperandPlace, CallFacts
<1>3. /\ Machine!Top.operands # <<>>
      /\ Last(Machine!Top.operands) = x
      /\ x \in Values
  BY <1>2, TopOperand
<1>4. /\ w \in Word /\ w \in Int
      /\ w = Locals(c) + i
      /\ w >= c.savedFP
      /\ w < Operands(c)
      /\ i \in 0..(n - 1)
  <2>1. fp + Header + i = Locals(c) + i
    BY <1>2 DEF Header
  <2>2. Locals(c) + i \in Word /\ Locals(c) + i < Operands(c)
    BY <1>2, ActivationWords
  <2>3. QED
    BY <1>2, <2>1, <2>2, StackBounds DEF Word
<1>5. stack' \in [Word -> Values]
  BY <1>1, <1>2, <1>3
<1>6. \A a \in Word : a # w => stack'[a] = stack[a]
  BY <1>1, <1>2
<1>7. stack'[w] = x
  BY <1>1, <1>2, <1>4
<1>8. \A a \in Word : a < Top.savedFP => stack'[a] = stack[a]
  BY <1>2, <1>4, <1>6, StackBounds DEF Word
<1>9. /\ Activations' = Append(Front(Activations), Abstract(stack', d))
      /\ phase' = phase
      /\ d \in Call
      /\ d.fn = c.fn /\ d.savedFP = c.savedFP
      /\ d.depth = c.depth - 1 + 0
  BY <1>1, <1>5, <1>8, InPlace
<1>10. Operands(d) = Operands(c) /\ Locals(d) = Locals(c)
  BY <1>9 DEF Operands, Locals
<1>11. /\ O \in Seq(Values) /\ Len(O) = c.depth /\ O # <<>>
       /\ \A j \in 1..c.depth : O[j] = stack[Operands(c) + j - 1]
       /\ Machine!Top = Abstract(stack, c)
       /\ Machine!Top.operands = O
       /\ L = [k \in 0..(n - 1) |-> stack[Locals(c) + k]]
  BY <1>2, <1>3, AbstractFacts, TopOperands DEF Abstract
<1> HIDE DEF w, x, L, O, n
<1> DEFINE F == Front(O)
<1>12. /\ F \in Seq(Values) /\ Len(F) = c.depth - 1
       /\ \A j \in 1..(c.depth - 1) : F[j] = O[j]
  <2>1. O \in Seq(Values) /\ O # <<>> /\ Len(O) = c.depth
    BY <1>11
  <2>2. /\ F \in Seq(Values) /\ Len(F) = Len(O) - 1
        /\ \A j \in 1..(Len(O) - 1) : F[j] = O[j]
    BY <2>1, FrontLast
  <2>3. QED
    BY <2>1, <2>2
<1> DEFINE M == [L EXCEPT ![i] = x]
<1> HIDE DEF F
<1>13. M = [k \in 0..(n - 1) |-> stack'[Locals(c) + k]]
  <2>1. ASSUME NEW k \in 0..(n - 1)
        PROVE  (IF k = i THEN x ELSE stack[Locals(c) + k])
                  = stack'[Locals(c) + k]
    <3>1. Locals(c) + k \in Word
      BY <1>2, ActivationWords DEF n
    <3>2. k # i => Locals(c) + k # w
      BY <1>2, <1>4
    <3>3. QED
      BY <1>4, <1>6, <1>7, <3>1, <3>2
  <2>2. M = [k \in 0..(n - 1) |-> IF k = i THEN x ELSE stack[Locals(c) + k]]
    BY <1>11
  <2>3. QED
    BY <2>1, <2>2
<1>14. \A j \in 1..(c.depth - 1) : stack'[Operands(c) + j - 1] = F[j]
  <2> SUFFICES ASSUME NEW j \in 1..(c.depth - 1)
               PROVE  stack'[Operands(c) + j - 1] = F[j]
    OBVIOUS
  <2>1. j \in 1..c.depth
    BY <1>2
  <2>2. Operands(c) + j - 1 \in Word /\ Operands(c) + j - 1 # w
    BY <1>2, <1>4, <2>1, ActivationWords
  <2>3. QED
    BY <1>6, <1>11, <1>12, <2>1, <2>2
<1> HIDE DEF c, d, M
<1>15. Abstract(stack', d) = [fn |-> c.fn, locals |-> M, operands |-> F]
  <2>1. d.depth = c.depth - 1 /\ Operands(d) + d.depth <= StackWords
    <3>1. d.depth = c.depth - 1
      BY <1>2, <1>9
    <3>2. /\ Operands(d) = Operands(c) /\ Operands(c) \in Nat /\ c.depth \in Nat
          /\ Operands(c) + c.depth <= StackWords
      BY <1>2, <1>10
    <3>3. QED
      BY <3>1, <3>2, StackBounds
  <2>2. M = [k \in 0..(Decl[d.fn].localVarCount - 1) |-> stack'[Locals(d) + k]]
    BY <1>9, <1>10, <1>13 DEF n
  <2>3. \A j \in 1..d.depth : stack'[Operands(d) + j - 1] = F[j]
    BY <1>10, <1>14, <2>1
  <2>4. QED
    BY <1>5, <1>9, <1>12, <2>1, <2>2, <2>3, AbstractIs
<1>16. Abstract(stack, c) = [fn |-> c.fn, locals |-> L, operands |-> O]
  BY <1>11 DEF Abstract, L, O
<1> DEFINE a == Machine!Top
<1>17. /\ a = [fn |-> c.fn, locals |-> L, operands |-> O]
       /\ a.locals = L /\ a.operands = O /\ Last(a.operands) = x
  BY <1>3, <1>11, <1>16
<1> HIDE DEF a
<1>18. [a EXCEPT !.locals[i] = Last(a.operands), !.operands = Front(@)]
         = [fn |-> c.fn, locals |-> M, operands |-> F]
  <2>1. Front(a.operands) = F
    BY <1>17 DEF F
  <2> DEFINE y == [a EXCEPT !.locals[i] = x]
  <2>2. y = [fn |-> c.fn, locals |-> M, operands |-> O]
    BY <1>17, LocalReplaced DEF M
  <2>3. [a EXCEPT !.locals[i] = x, !.operands = F] = [y EXCEPT !.operands = F]
    BY <1>17
  <2> HIDE DEF y
  <2>4. [y EXCEPT !.operands = F] = [fn |-> c.fn, locals |-> M, operands |-> F]
    BY <2>2, OperandsReplaced
  <2>5. [a EXCEPT !.locals[i] = Last(a.operands), !.operands = Front(@)]
           = [a EXCEPT !.locals[i] = x, !.operands = F]
    BY <1>17, <2>1
  <2>6. QED
    BY <2>3, <2>4, <2>5
<1>19. i \in DOMAIN a.locals
  BY <1>4, <1>11, <1>17
<1>20. Machine!SetTop([a EXCEPT !.locals[i] = Last(a.operands),
                               !.operands = Front(@)])
  BY <1>9, <1>15, <1>18, MachineSequences DEF Machine!SetTop
<1>21. a.operands # <<>>
  BY <1>11, <1>17
<1>22. QED
  BY <1>19, <1>20, <1>21, MachineSequences DEF Machine!Store, a

(***************************************************************************)
(* Calls and returns.                                                      *)
(***************************************************************************)

\* What an activation loses when arguments are taken from its operands.
LEMMA AfterTaking ==
  ASSUME NEW m1, NEW c, NEW m2, NEW d, NEW n, Operated(m1, c, m2, d, n, <<>>)
  PROVE  Abstract(m2, d) =
           [Abstract(m1, c) EXCEPT !.operands = SubSeq(@, 1, c.depth - n)]
<1>0. /\ m1 \in [Word -> Values] /\ c \in Call
      /\ n \in Nat /\ n <= c.depth
      /\ Operands(c) + c.depth <= StackWords
  BY DEF Operated
<1> USE <1>0
<1> DEFINE a == Abstract(m1, c)
           O == a.operands
           k == c.depth - n
<1>1. PICK r \in Seq(Values) : r = <<>>
  BY EmptySeq
<1>2. c.depth \in Nat
  BY CallFacts
<1> HIDE DEF a, O, k
<1>3. Abstract(m2, d) = Taking(a, n, r)
  BY <1>1, AfterOperate DEF a
<1>4. O \in Seq(Values) /\ Len(O) = c.depth
  BY AbstractFacts DEF a, O
<1>5. SubSeq(O, 1, k) \in Seq(Values)
  <2>1. \A j \in 1..k : O[j] \in Values
    <3>1. \A j \in 1..k : j \in 1..Len(O)
      BY <1>2, <1>4 DEF k
    <3>2. QED
      BY <1>4, <3>1, ElementOfSeq
  <2>2. 1 \in Int /\ k \in Int
    BY <1>2 DEF k
  <2>3. QED
    BY <2>1, <2>2, SubSeqProperties
<1>6. SubSeq(O, 1, Len(O) - n) \o r = SubSeq(O, 1, k)
  <2>1. Len(O) - n = k
    BY <1>4 DEF k
  <2>2. SubSeq(O, 1, k) \o <<>> = SubSeq(O, 1, k)
    BY <1>5, ConcatEmptySeq
  <2>3. QED
    BY <1>1, <2>1, <2>2
<1>7. Taking(a, n, r) = [a EXCEPT !.operands = SubSeq(@, 1, k)]
  BY <1>6 DEF Taking, O
<1>8. QED
  BY <1>3, <1>7 DEF a, k

\* The call machine reads the same function table.
LEMMA MachineFunctions ==
  ASSUME NEW f
  PROVE  /\ Machine!IsVM(f) = IsVM(f)
         /\ Machine!ArgumentWords(f) = ArgumentWords(f)
BY DEF Machine!IsVM, Machine!ArgumentWords, IsVM, ArgumentWords

\* The p last elements of a sequence.
LEMMA LastElements ==
  ASSUME NEW S, NEW O \in Seq(S), NEW d \in Nat, Len(O) = d,
         NEW p \in Nat, p <= d, NEW i \in 0..(p - 1)
  PROVE  /\ SubSeq(O, d - p + 1, d)[i + 1] = O[d - p + i + 1]
         /\ d - p + i + 1 \in 1..d
<1> DEFINE m == d - p + 1
<1>1. /\ m \in Int /\ d \in Int
      /\ \A j \in m..d : j \in 1..Len(O)
      /\ i + 1 \in 1..(d - m + 1)
      /\ m + (i + 1) - 1 = d - p + i + 1
      /\ d - p + i + 1 \in 1..d
  OBVIOUS
<1>2. \A j \in m..d : O[j] \in S
  BY <1>1, ElementOfSeq
<1> HIDE DEF m
<1>3. \A j \in 1..(d - m + 1) : SubSeq(O, m, d)[j] = O[m + j - 1]
  BY <1>1, <1>2, SubSeqProperties
<1>4. SubSeq(O, m, d)[i + 1] = O[m + (i + 1) - 1]
  BY <1>1, <1>3
<1>5. QED
  BY <1>1, <1>4 DEF m

\* A function that is called finds its arguments in its first local variables
\* and the others cleared.
LEMMA NewActivation ==
  ASSUME StaticInv, phase = "running", NEW f \in Funcs, InvokeVM(f),
         NEW args,
         args = SubSeq(Machine!Top.operands, Top.depth - ArgumentWords(f) + 1,
                       Top.depth)
  PROVE  Abstract(stack', Top') = Machine!Activation(f, args)
<1> DEFINE d == Top'
           p == Decl[f].paramCount
           n == Decl[f].localVarCount
           O == Machine!Top.operands
<1>1. /\ d \in Call /\ d.fn = f /\ d.savedFP = sp /\ d.depth = 0
      /\ sp \in Word
      /\ sp' = sp + 2 + n /\ sp' \in 0..StackWords
      /\ stack' \in [Word -> Values]
  BY InvokeShape DEF StaticInv
<1>2. /\ IsVM(f) /\ ArgumentWords(f) = p /\ p \in Nat /\ n \in Nat
      /\ p <= Top.depth
  BY WordCounts DEF InvokeVM, FunctionDecl
<1>3. /\ Top \in Call /\ stack \in [Word -> Values]
      /\ Operands(Top) + Top.depth <= StackWords
      /\ sp = Operands(Top) + Top.depth
      /\ Operands(Top) \in Nat /\ Top.depth \in Nat
      /\ Machine!Top = Abstract(stack, Top)
      /\ O \in Seq(Values) /\ Len(O) = Top.depth
      /\ \A j \in 1..Top.depth : O[j] = stack[Operands(Top) + j - 1]
  BY TopActivation, OperandPlace, TopOperands, AbstractFacts, SMTT(30)
<1>4. /\ Locals(d) = sp + 2 /\ Operands(d) = sp + 2 + n
      /\ Operands(d) + d.depth <= StackWords
  BY <1>1, <1>3, CallFacts, StackBounds, SMTT(30)
<1>5. stack' = [a \in Word |->
                  IF a \in (sp + 2)..(sp + 2 + n - 1)
                  THEN IF a - (sp + 2) < p THEN stack[sp - p + (a - (sp + 2))]
                                           ELSE 0
                  ELSE stack[a]]
  BY DEF InvokeVM, Enter, Argument, Header
<1> HIDE DEF d, p, n, O
<1>6. args = SubSeq(O, Top.depth - p + 1, Top.depth)
  BY <1>2 DEF O, p
<1>7. \A i \in 0..(p - 1) : args[i + 1] = stack[sp - p + i]
  <2> SUFFICES ASSUME NEW i \in 0..(p - 1)
               PROVE  args[i + 1] = stack[sp - p + i]
    OBVIOUS
  <2> DEFINE e == Top.depth
  <2>1. e \in Nat /\ Len(O) = e /\ p <= e
    BY <1>2, <1>3
  <2> HIDE DEF e
  <2>2. /\ SubSeq(O, e - p + 1, e)[i + 1] = O[e - p + i + 1]
        /\ e - p + i + 1 \in 1..e
    BY <1>2, <1>3, <2>1, LastElements
  <2>3. O[e - p + i + 1] = stack[Operands(Top) + (e - p + i + 1) - 1]
    BY <1>3, <2>2 DEF e
  <2>4. sp = Operands(Top) + e
    BY <1>3 DEF e
  <2>5. Operands(Top) + (e - p + i + 1) - 1 = sp - p + i
    BY <1>2, <1>3, <2>1, <2>4
  <2>6. args = SubSeq(O, e - p + 1, e)
    BY <1>6 DEF e
  <2>7. QED
    BY <2>2, <2>3, <2>5, <2>6
<1> DEFINE L == [i \in 0..(n - 1) |-> IF i < p THEN args[i + 1] ELSE 0]
<1>8. L = [i \in 0..(n - 1) |-> stack'[Locals(d) + i]]
  <2>1. ASSUME NEW i \in 0..(n - 1)
        PROVE  (IF i < p THEN args[i + 1] ELSE 0) = stack'[Locals(d) + i]
    <3> DEFINE a == Locals(d) + i
    <3>1. /\ i \in Int /\ i >= 0 /\ sp \in Int
          /\ a = sp + 2 + i /\ a - (sp + 2) = i
          /\ a \in (sp + 2)..(sp + 2 + n - 1)
      <4>1. /\ i \in Int /\ i >= 0 /\ i <= n - 1 /\ sp \in Int
            /\ a = sp + 2 + i
        BY <1>2, <1>3, <1>4
      <4> HIDE DEF a
      <4>2. QED
        BY <1>2, <4>1
    <3>2. a \in Word
      BY <1>1, <1>2, <1>4, ActivationWords DEF n
    <3> HIDE DEF a
    <3>3. stack'[a] = IF i < p THEN stack[sp - p + i] ELSE 0
      BY <1>5, <3>1, <3>2
    <3>4. i < p => i \in 0..(p - 1)
      BY <1>2, <3>1
    <3>5. QED
      BY <1>7, <3>3, <3>4 DEF a
  <2>2. QED
    BY <2>1
<1> HIDE DEF L
<1>9. Abstract(stack', d) = [fn |-> f, locals |-> L, operands |-> <<>>]
  <2>1. <<>> \in Seq(Values) /\ Len(<<>>) = d.depth
    BY <1>1, EmptySeq
  <2>2. \A j \in 1..d.depth : stack'[Operands(d) + j - 1] = <<>>[j]
    BY <1>1
  <2>3. L = [i \in 0..(Decl[d.fn].localVarCount - 1) |-> stack'[Locals(d) + i]]
    BY <1>1, <1>8 DEF n
  <2>4. Abstract(stack', d) = [fn |-> d.fn, locals |-> L, operands |-> <<>>]
    BY <1>1, <1>4, <2>1, <2>2, <2>3, AbstractIs
  <2>5. QED
    BY <1>1, <2>4
<1>10. Machine!Activation(f, args) = [fn |-> f, locals |-> L, operands |-> <<>>]
  BY DEF Machine!Activation, L, n, p
<1>11. QED
  BY <1>9, <1>10 DEF d

\* invokeVFunction starts an activation of the arguments, taken from the caller.
LEMMA InvokeVMImplements ==
  ASSUME StaticInv, phase = "running", NEW f \in Funcs, InvokeVM(f)
  PROVE  Machine!IsVM(f) /\ Machine!Invoke(f)
<1> DEFINE n == Len(calls)
           w == ArgumentWords(f)
           kept == Top.depth - w
           c == Top
           d == calls'[n]
<1>1. /\ Activations \in Seq(Activity) /\ Len(Activations) = n
      /\ n \in Nat \ {0} /\ n \in 1..n /\ n + 1 \in 1..(n + 1)
      /\ \A k \in 1..n : Activations[k] = Abstract(stack, calls[k])
      /\ c \in Call /\ stack \in [Word -> Values]
      /\ c = calls[n]
      /\ Operands(c) + c.depth <= StackWords
      /\ sp = Operands(c) + c.depth /\ sp \in Int
      /\ Operands(c) \in Nat /\ c.depth \in Nat
      /\ c.savedFP \in Nat /\ c.savedFP <= Operands(c)
  <2>1. c = calls[n]
    BY TopFacts DEF StaticInv
  <2>2. n \in Nat \ {0}
    BY TopActivation
  <2>3. QED
    BY <2>1, <2>2, TopActivation, OperandPlace, ActivationWords
<1>2. /\ IsVM(f) /\ phase' = phase /\ w \in Nat /\ w <= c.depth
  BY WordCounts DEF InvokeVM
<1>3. /\ calls' \in Seq(Call) /\ Len(calls') = n + 1
      /\ Top' = calls'[n + 1]
      /\ d.depth = c.depth - w
      /\ stack' \in [Word -> Values]
      /\ \A k \in 1..n : /\ calls'[k].fn = calls[k].fn
                         /\ calls'[k].savedFP = calls[k].savedFP
                         /\ k # n => calls'[k] = calls[k]
  BY InvokeShape DEF StaticInv
<1>4. /\ Activations' \in Seq(Activity) /\ Len(Activations') = n + 1
      /\ \A k \in 1..(n + 1) : Activations'[k] = Abstract(stack', calls'[k])
  BY <1>3, PrimedActivations, ActivationsAreSeq
<1>5. \A a \in Word : a < sp => stack'[a] = stack[a]
  <2>1. \A a \in Word : a \notin (sp + Header)..(sp + Header + Decl[f].localVarCount - 1)
                          => stack'[a] = stack[a]
    BY DEF InvokeVM, Enter
  <2>2. Decl[f].localVarCount \in Nat
    BY WordCounts DEF FunctionDecl
  <2>3. \A a \in Word : a < sp =>
           a \notin (sp + Header)..(sp + Header + Decl[f].localVarCount - 1)
    BY <1>1, <2>2, StackBounds DEF Word, Header
  <2>4. QED
    BY <2>1, <2>3
<1>6. ASSUME NEW k \in 1..(n - 1) PROVE Activations'[k] = Activations[k]
  <2>1. k \in 1..n /\ k # n /\ k \in 1..(n + 1)
    BY <1>1
  <2>2. Top.savedFP - ArgumentWords(Top.fn) <= sp
        /\ Top.savedFP - ArgumentWords(Top.fn) \in Int
    <3>1. ArgumentWords(Top.fn) \in Nat /\ Top.savedFP \in Nat
      BY <1>1, CallFacts, WordCounts
    <3>2. Top.savedFP <= sp /\ sp \in Int
      BY <1>1, <3>1
    <3>3. QED
      BY <3>1, <3>2
  <2>3. \A a \in Word : a < Top.savedFP - ArgumentWords(Top.fn) => a < sp
    BY <1>1, <2>2, StackBounds DEF Word
  <2>4. Abstract(stack', calls[k]) = Abstract(stack, calls[k])
    BY <1>3, <1>5, <2>1, <2>3, SuspendedSame
  <2>5. QED
    BY <1>1, <1>3, <1>4, <2>1, <2>4
<1>7. Activations' = Append(Append(Front(Activations), Activations'[n]),
                            Activations'[n + 1])
  BY <1>1, <1>4, <1>6, LastReplacedOneAdded
<1> HIDE DEF c, d, w, n
<1>8. Abstract(stack', d)
        = [Abstract(stack, c) EXCEPT !.operands = SubSeq(@, 1, c.depth - w)]
  <2> DEFINE b == Operands(c) + c.depth - w
  <2>1. d \in Call /\ d.fn = c.fn /\ d.savedFP = c.savedFP
    <3>1. n \in 1..Len(calls')
      BY <1>1, <1>3
    <3>2. QED
      BY <1>1, <1>3, <3>1, ElementOfSeq DEF d
  <2>2. b \in Int /\ b <= sp
    BY <1>1, <1>2
  <2>3. Agree(stack, stack', b)
    <3>1. \A a \in Word : a < b => a < sp
      BY <1>1, <2>2, StackBounds DEF Word
    <3>2. QED
      BY <1>5, <3>1 DEF Agree
  <2> HIDE DEF b
  <2>4. /\ <<>> \in Seq(Values) /\ Len(<<>>) = 0
        /\ Holds(stack', b, <<>>)
    BY EmptySeq DEF Holds
  <2>5. Operands(d) = Operands(c)
    BY <2>1 DEF Operands, Locals
  <2>6. d.depth = c.depth - w + Len(<<>>) /\ Operands(d) + d.depth <= StackWords
    BY <1>1, <1>2, <1>3, <2>4, <2>5, StackBounds
  <2>7. Operated(stack, c, stack', d, w, <<>>)
    BY <1>1, <1>2, <1>3, <2>1, <2>3, <2>4, <2>6 DEF Operated, b
  <2>8. QED
    BY <2>7, AfterTaking
<1>9. /\ Machine!Top = Abstract(stack, c)
      /\ Len(Machine!Top.operands) = c.depth
  BY TopOperands DEF c
<1> DEFINE args == SubSeq(Machine!Top.operands, c.depth - w + 1, c.depth)
<1>10. Activations'[n + 1] = Machine!Activation(f, args)
  BY <1>1, <1>3, <1>4, NewActivation DEF c, w
<1>11. Activations'[n] = Abstract(stack', d)
  <2>1. n \in 1..(n + 1)
    BY <1>1
  <2>2. QED
    BY <1>4, <2>1 DEF d
<1>12. c.depth - w >= 0
  BY <1>1, <1>2
<1>13. Machine!ArgumentWords(f) = w /\ Machine!IsVM(f)
  BY <1>2, MachineFunctions DEF w
<1> HIDE DEF args
<1>14. QED
  BY <1>2, <1>7, <1>8, <1>9, <1>10, <1>11, <1>12, <1>13, MachineSequences
     DEF Machine!Invoke, args

\* What an activation sees when the result of its callee arrives.
LEMMA AfterResult ==
  ASSUME NEW m1, NEW c, NEW m2, NEW d, NEW r, Operated(m1, c, m2, d, 0, r)
  PROVE  Abstract(m2, d) = [Abstract(m1, c) EXCEPT !.operands = @ \o r]
<1>0. /\ m1 \in [Word -> Values] /\ c \in Call /\ r \in Seq(Values)
      /\ Operands(c) + c.depth <= StackWords
  BY DEF Operated
<1> DEFINE a == Abstract(m1, c)
           O == a.operands
<1>1. O \in Seq(Values) /\ Len(O) \in Nat
  BY <1>0, AbstractFacts, LenProperties
<1>2. Abstract(m2, d) = Taking(a, 0, r)
  BY AfterOperate
<1> HIDE DEF a, O
<1>3. SubSeq(O, 1, Len(O) - 0) = O
  <2>1. Len(O) - 0 = Len(O)
    BY <1>1
  <2>2. QED
    BY <1>1, <2>1, SubSeqFull
<1>4. Taking(a, 0, r) = [a EXCEPT !.operands = @ \o r]
  BY <1>3 DEF Taking, O
<1>5. QED
  BY <1>2, <1>4 DEF a

\* The activation that ends leaves its caller with the operands it kept and
\* the result.
LEMMA LeaveImplements ==
  ASSUME OnlyStaticCode, StaticInv, phase = "running", Len(calls) # 1,
         NEW v \in Values, NEW memory \in [Word -> Values], Leave(v, memory),
         \A a \in Word : a # fp => memory[a] = stack[a]
  PROVE  Machine!Leave(v)
<1> DEFINE n == Len(calls)
           m == n - 1
           f == Top.fn
           c == calls[m]
           d == calls'[m]
           b == Top.savedFP - ArgumentWords(f)
<1>1. /\ Activations \in Seq(Activity) /\ Len(Activations) = n
      /\ n \in Nat \ {0} /\ m \in 1..n /\ m # n /\ m \in Nat
      /\ \A k \in 1..n : Activations[k] = Abstract(stack, calls[k])
      /\ stack \in [Word -> Values]
      /\ Top \in Call /\ f \in Funcs
      /\ fp = Top.savedFP /\ fp \in Word /\ fp \in Nat
  <2>1. n \in Nat \ {0} /\ Top \in Call
    BY TopActivation
  <2>2. m \in 1..n /\ m # n /\ m \in Nat
    <3>1. n # 1
      OBVIOUS
    <3> HIDE DEF n
    <3>2. QED
      BY <2>1, <3>1
  <2>3. fp = Top.savedFP
    BY TopFacts DEF StaticInv
  <2>4. f \in Funcs /\ fp \in Word /\ fp \in Nat
    BY <2>1, <2>3, CallFacts DEF Call
  <2>5. QED
    BY <2>1, <2>2, <2>3, <2>4, TopActivation
<1>2. /\ calls' \in Seq(Call) /\ Len(calls') = m
      /\ c \in Call
      /\ Top.savedFP = Operands(c) + c.depth - c.lost + ArgumentWords(f)
      /\ d.fn = c.fn /\ d.savedFP = c.savedFP
      /\ d.depth = c.depth + ResultWords(f)
      /\ \A k \in 1..m : k \in 1..n /\ (k # m => calls'[k] = calls[k])
  <2>1. IndInv
    BY DEF StaticInv
  <2>2. /\ calls' \in Seq(Call) /\ Len(calls') = m
        /\ c \in Call
        /\ Top.savedFP = Operands(c) + c.depth - c.lost + ArgumentWords(f)
        /\ Top' = d
        /\ Top'.depth = c.depth + ResultWords(f)
        /\ \A k \in 1..m : k \in 1..n /\ (k # m => calls'[k] = calls[k])
    BY <2>1, LeaveShape
  <2>3. Top'.fn = c.fn /\ Top'.savedFP = c.savedFP
    BY <2>1, LeaveShape
  <2>4. QED
    BY <2>2, <2>3
<1>3. /\ ArgumentWords(f) \in Nat /\ RemovedWords(f) = ArgumentWords(f)
      /\ ResultWords(f) \in 0..1
  BY <1>1, WordCounts
<1>4. c.lost = 0
  BY <1>1 DEF StaticInv, NothingLost
<1>5. /\ Operands(c) \in Nat /\ c.depth \in Nat
      /\ b = Operands(c) + c.depth
      /\ b \in Int /\ b <= fp
  <2>1. Operands(c) \in Nat /\ c.depth \in Nat
    BY <1>2, CallFacts
  <2>2. Top.savedFP = Operands(c) + c.depth - 0 + ArgumentWords(f)
    BY <1>2, <1>4
  <2> HIDE DEF c, f
  <2>3. QED
    BY <1>1, <1>3, <2>1, <2>2
<1>6. /\ AfterCall(f, fp, v, memory) /\ phase' = phase
  BY <1>1 DEF Leave
<1>7. /\ b \in 0..StackWords /\ sp' = b + ResultWords(f)
      /\ Decl[f].returnsVoid => stack' = memory
      /\ ~ Decl[f].returnsVoid => b \in Word /\ stack' = [memory EXCEPT ![b] = v]
  BY <1>1, <1>3, <1>6 DEF AfterCall
<1> HIDE DEF b, c, d, m, f, n
<1>8. stack' \in [Word -> Values] /\ Agree(stack, stack', b)
  <2>1. \A a \in Word : a < b => a # fp /\ a # b
    BY <1>1, <1>5, StackBounds DEF Word
  <2>2. CASE Decl[f].returnsVoid
    BY <1>7, <2>1, <2>2 DEF Agree
  <2>3. CASE ~ Decl[f].returnsVoid
    BY <1>7, <2>1, <2>3 DEF Agree
  <2>4. QED
    BY <2>2, <2>3
<1>9. /\ Activations' \in Seq(Activity) /\ Len(Activations') = m
      /\ \A k \in 1..m : Activations'[k] = Abstract(stack', calls'[k])
  BY <1>2, <1>8, PrimedActivations, ActivationsAreSeq
<1>10. ASSUME NEW k \in 1..(n - 2) PROVE Activations'[k] = Activations[k]
  <2>1. k \in 1..m /\ k # m /\ k \in 1..n /\ k # n
    BY <1>1 DEF m
  <2>2. Abstract(stack', calls[k]) = Abstract(stack, calls[k])
    BY <1>8, <2>1, SuspendedSame DEF Agree, b, f, n
  <2>3. QED
    BY <1>1, <1>2, <1>9, <2>1, <2>2
<1>11. Activations' = Append(Front(Front(Activations)), Activations'[m])
  BY <1>1, <1>9, <1>10, LastLostOneReplaced DEF m, n
<1>12. m \in 1..m /\ m \in 1..n
  <2>1. m >= 1
    BY <1>1 DEF m
  <2>2. QED
    BY <1>1, <2>1
<1>13. Activations'[m] = Abstract(stack', d) /\ Activations[m] = Abstract(stack, c)
  BY <1>1, <1>9, <1>12 DEF c, d
<1>14. d \in Call
  BY <1>2, <1>12, ElementOfSeq DEF d
<1>15. Operands(c) + c.depth <= StackWords
  BY <1>1, <1>5, StackBounds DEF Word
<1>16. Operands(d) + d.depth <= StackWords
  <2>1. Operands(d) = Operands(c)
    BY <1>2 DEF Operands, Locals
  <2>2. b + ResultWords(f) <= StackWords
    <3>1. CASE Decl[f].returnsVoid
      BY <1>5, <1>7, <3>1, StackBounds DEF ResultWords
    <3>2. CASE ~ Decl[f].returnsVoid
      BY <1>5, <1>7, <3>2, StackBounds DEF ResultWords, Word
    <3>3. QED
      BY <3>1, <3>2
  <2>3. QED
    BY <1>2, <1>3, <1>5, <2>1, <2>2
<1>17. ASSUME NEW r \in Seq(Values), Len(r) = ResultWords(f), Holds(stack', b, r)
       PROVE  Operated(stack, c, stack', d, 0, r)
  <2>1. d.depth = c.depth - 0 + Len(r) /\ 0 <= c.depth /\ 0 \in Nat
    BY <1>2, <1>3, <1>5, <1>17
  <2>2. Operands(c) + c.depth - 0 = b
    BY <1>5
  <2>3. QED
    BY <1>1, <1>2, <1>8, <1>14, <1>15, <1>16, <1>17, <2>1, <2>2 DEF Operated
<1>18. Abstract(stack', d) =
         [Abstract(stack, c) EXCEPT !.operands =
            IF Decl[f].returnsVoid THEN @ ELSE Append(@, v)]
  <2> DEFINE a == Abstract(stack, c)
             O == a.operands
  <2>1. O \in Seq(Values)
    BY <1>1, <1>2, <1>15, AbstractFacts
  <2> HIDE DEF a, O
  <2>2. CASE Decl[f].returnsVoid
    <3> DEFINE r == <<>>
    <3>1. r \in Seq(Values) /\ Len(r) = ResultWords(f) /\ Holds(stack', b, r)
      BY <2>2, EmptySeq DEF Holds, ResultWords
    <3> HIDE DEF r
    <3>2. Abstract(stack', d) = [a EXCEPT !.operands = @ \o r]
      BY <1>17, <3>1, AfterResult DEF a
    <3>3. O \o r = O
      BY <2>1, ConcatEmptySeq DEF r
    <3>4. QED
      BY <2>2, <3>2, <3>3 DEF a, O
  <2>3. CASE ~ Decl[f].returnsVoid
    <3> DEFINE r == <<v>>
    <3>1. r \in Seq(Values) /\ Len(r) = 1 /\ ResultWords(f) = 1 /\ r[1] = v
      BY <2>3 DEF ResultWords
    <3>2. Holds(stack', b, r)
      <4>1. stack'[b] = v
        BY <1>7, <2>3
      <4>2. \A j \in 1..Len(r) : j = 1 /\ b + j - 1 = b
        BY <1>5, <3>1
      <4> HIDE DEF r
      <4>3. QED
        BY <3>1, <4>1, <4>2 DEF Holds
    <3> HIDE DEF r
    <3>3. Abstract(stack', d) = [a EXCEPT !.operands = @ \o r]
      BY <1>17, <3>1, <3>2, AfterResult DEF a
    <3>4. O \o r = Append(O, v)
      BY <2>1, AppendIsConcat DEF r
    <3>5. QED
      BY <2>3, <3>3, <3>4 DEF a, O
  <2>4. QED
    BY <2>2, <2>3
<1>19. Machine!Top.fn = f
  <2>1. Machine!Top = Abstract(stack, Top)
    BY TopOperands
  <2>2. QED
    BY <2>1 DEF Abstract, f
<1>20. Len(Activations) # 1 /\ Len(Activations) - 1 = m
  BY <1>1 DEF m, n
<1>21. QED
  BY <1>6, <1>11, <1>13, <1>18, <1>19, <1>20, MachineSequences
     DEF Machine!Leave

\* The end of the module's code ends its one activation.
LEMMA LeaveModuleImplements ==
  ASSUME StaticInv, phase = "running", Len(calls) = 1,
         NEW v, NEW memory, LeaveModule(v, memory)
  PROVE  Machine!Leave(v)
<1>1. Len(Activations) = 1
  BY TopActivation
<1>2. calls' = <<>> /\ phase' = "done"
  BY DEF LeaveModule
<1>3. Activations' = <<>>
  <2>1. Len(calls') = 0
    BY <1>2, EmptySeq
  <2>2. QED
    BY <2>1, PrimedActivations
<1>4. QED
  BY <1>1, <1>2, <1>3 DEF Machine!Leave

\* The exit shared by both returns.
LEMMA ExitImplements ==
  ASSUME OnlyStaticCode, StaticInv, phase = "running",
         NEW v \in Values, NEW memory \in [Word -> Values], Exit(v, memory),
         \A a \in Word : a # fp => memory[a] = stack[a]
  PROVE  Machine!Leave(v)
<1>1. CASE Len(calls) = 1
  BY <1>1, LeaveModuleImplements DEF Exit
<1>2. CASE Len(calls) # 1
  BY <1>2, LeaveImplements DEF Exit
<1>3. QED
  BY <1>1, <1>2

\* RETURN ends an activation that gives no result.
LEMMA ReturnImplements ==
  ASSUME OnlyStaticCode, StaticInv, phase = "running", Return
  PROVE  Machine!Return
<1>1. PICK v \in Values, memory \in [Word -> Values] :
        Exit(v, memory) /\ \A a \in Word : a # fp => memory[a] = stack[a]
  BY ReturnExits DEF StaticInv
<1>2. Machine!Leave(v)
  BY <1>1, ExitImplements
<1>3. QED
  BY <1>2 DEF Machine!Return

\* IRETURN and ORETURN give the uppermost operand to the caller.
LEMMA ReturnValueImplements ==
  ASSUME OnlyStaticCode, StaticInv, phase = "running", ReturnValue
  PROVE  Machine!ReturnValue
<1> DEFINE v == stack[sp - 1]
           memory == [stack EXCEPT ![fp] = v]
<1>1. Top.depth >= 1 /\ Exit(v, memory)
  BY DEF ReturnValue
<1>2. /\ Machine!Top.operands # <<>>
      /\ Last(Machine!Top.operands) = v
      /\ v \in Values
  BY <1>1, TopOperand
<1>3. stack \in [Word -> Values]
  BY TopActivation
<1>4. memory \in [Word -> Values] /\ \A a \in Word : a # fp => memory[a] = stack[a]
  BY <1>2, <1>3
<1> HIDE DEF v, memory
<1>5. Machine!Leave(v)
  BY <1>1, <1>2, <1>4, ExitImplements
<1>6. QED
  BY <1>2, <1>5, MachineSequences DEF Machine!ReturnValue

(***************************************************************************)
(* The refinement.                                                         *)
(***************************************************************************)
\* The module initializer is the first activation.
LEMMA StartImplements ==
  ASSUME StaticInv, Start
  PROVE  Machine!Start
<1>1. /\ phase = "idle" /\ phase' = "running" /\ sp = 0
      /\ calls' = <<NewCall(Initializer, sp + ModuleHeader)>>
      /\ Initializer \in Funcs
      /\ Decl[Initializer].localVarCount = 0
  BY FunctionTable DEF Start, StaticInv, IndInv, FrameDiscipline
<1> DEFINE c == NewCall(Initializer, 3)
<1>2. Len(calls') = 1 /\ calls'[1] = c
  BY <1>1 DEF ModuleHeader
<1>3. Activations' = <<Abstract(stack', c)>>
  BY <1>2, PrimedActivations
<1>4. Abstract(stack', c) = Machine!Activation(Initializer, <<>>)
  <2>1. c.fn = Initializer /\ c.depth = 0
    BY DEF NewCall
  <2>2. \A L, M : [i \in 0..(0 - 1) |-> L[i]] = [i \in 0..(0 - 1) |-> M[i]]
    OBVIOUS
  <2>3. [j \in 1..0 |-> stack'[Operands(c) + j - 1]] = <<>>
    OBVIOUS
  <2>4. [i \in 0..(0 - 1) |-> stack'[Locals(c) + i]]
          = [i \in 0..(0 - 1) |->
               IF i < Decl[Initializer].paramCount THEN <<>>[i + 1] ELSE 0]
    OBVIOUS
  <2> HIDE DEF c
  <2>5. QED
    BY <1>1, <2>1, <2>3, <2>4 DEF Abstract, Machine!Activation
<1>5. QED
  BY <1>1, <1>3, <1>4 DEF Machine!Start

\* Every instruction is one of the call machine.
LEMMA RunImplements ==
  ASSUME OnlyStaticCode, StaticInv, phase = "running", Run
  PROVE  Machine!Run
<1>1. ASSUME NEW taken \in 0..2, NEW v \in Values, Compute(taken, v)
      PROVE  Machine!Run
  BY <1>1, ComputeImplements
<1>2. ASSUME NEW taken \in 1..2, Discard(taken)
      PROVE  Machine!Run
  BY <1>2, DiscardImplements
<1>3. ASSUME NEW i \in 0..(Decl[Top.fn].localVarCount - 1), Load(i) \/ Store(i)
      PROVE  Machine!Run
  BY <1>3, LoadImplements, StoreImplements DEF Machine!Run
<1>4. CASE Dup
  BY <1>4, DupImplements DEF Machine!Run
<1>5. ASSUME NEW f \in Funcs, InvokeVM(f)
      PROVE  Machine!Run
  BY <1>5, InvokeVMImplements DEF Machine!Run
<1>6. ASSUME NEW f \in Funcs, NEW v \in Values, InvokeC(f, v)
      PROVE  Machine!Run
  BY <1>6, InvokeCImplements
<1>7. CASE Return
  BY <1>7, ReturnImplements DEF Machine!Run
<1>8. CASE ReturnValue
  BY <1>8, ReturnValueImplements DEF Machine!Run
<1>9. QED
  BY <1>1, <1>2, <1>3, <1>4, <1>5, <1>6, <1>7, <1>8 DEF Run

\* Before the first instruction there is no activation.
LEMMA InitImplements == Init => Machine!Init
<1> SUFFICES ASSUME Init PROVE Machine!Init
  OBVIOUS
<1>1. phase = "idle" /\ Len(calls) = 0
  BY EmptySeq DEF Init
<1>2. Activations = <<>>
  BY <1>1 DEF Activations
<1>3. QED
  BY <1>1, <1>2 DEF Machine!Init

\* Every step is a step of the call machine or leaves the activations alone.
LEMMA NextImplements ==
  OnlyStaticCode /\ StaticInv /\ [Next]_vars => [Machine!Next]_Machine!vars
<1> SUFFICES ASSUME OnlyStaticCode, StaticInv, [Next]_vars
             PROVE  Machine!Next \/ UNCHANGED Machine!vars
  OBVIOUS
<1>1. CASE Start
  BY <1>1, StartImplements DEF Machine!Next
<1>2. CASE phase = "running" /\ Run
  BY <1>2, RunImplements DEF Machine!Next
<1>3. CASE UNCHANGED vars
  <2>1. phase' = phase /\ calls' = calls /\ stack' = stack
    BY <1>3 DEF vars
  <2>2. Activations' = Activations
    BY <2>1, PrimedActivations DEF Activations
  <2>3. QED
    BY <2>1, <2>2 DEF Machine!vars
<1>4. QED
  BY <1>1, <1>2, <1>3 DEF Next

\* In a program without classes the executor is the call machine the code
\* generator relies on: activations that own their variables and operands,
\* calls that consume their arguments and leave their result.
THEOREM StaticCodeImplementsCallMachine ==
  ASSUME OnlyStaticCode
  PROVE  Spec => ImplementsCallMachine
<1>1. Init => Machine!Init
  BY InitImplements
<1>2. StaticInv /\ [Next]_vars => [Machine!Next]_Machine!vars
  BY NextImplements
<1>3. QED
  BY <1>1, <1>2, StaticInvariant, PTL
     DEF Spec, ImplementsCallMachine, Machine!Spec
=============================================================================

------------------------------ MODULE Executor ------------------------------
(***************************************************************************)
(* InterpretedExecutor (interpreter.cpp, executor.h, frame.h): one flat    *)
(* stack of words that call frames, local variables, operands, arguments   *)
(* and results share, the registers fp and sp, and the vector `frames`.    *)
(*                                                                         *)
(* Addresses count words of kValueSize bytes.  The bytecode is any code    *)
(* the generator may emit for the functions of the table: an instruction   *)
(* takes only operands the generator has provided for (`depth`).           *)
(***************************************************************************)
EXTENDS RuntimeFunctions, SequencesExt

CONSTANTS
  Values,       (* what a word can hold                                    *)
  StackWords,   (* kStackMaxSize in words: the model's bound on the stack  *)
  MaxCalls,     (* bound on the nesting of VM calls                        *)
  MaxOperands   (* bound on the operands of an activation                  *)

ASSUME StackBounds ==
  /\ 0 \in Values
  /\ StackWords \in Nat
  /\ MaxCalls \in Nat \ {0}
  /\ MaxOperands \in Nat

VARIABLES
  phase,        (* "idle", "running" or "done": IsolateVM's one run        *)
  fp, sp,       (* Executor::fp and Executor::sp                           *)
  frames,       (* Executor::frames                                        *)
  stack,        (* Executor::stack                                         *)
  calls         (* the C++ activations of execute(function) that    *)
                (* run bytecode, innermost last: the function, the local   *)
                (* `savedFP`, and two ghosts: `depth`, the operands the    *)
                (* generator knows to be there, and `lost`, the words the  *)
                (* completed calls of this activation removed in excess    *)

vars == <<phase, fp, sp, frames, stack, calls>>

Word == 0..(StackWords - 1)

Header == 2          \* FuncCallFrame::size()
ModuleHeader == 3    \* ModuleEntryFrame::size()

Top == Last(calls)

\* Where the locals and the operands of an activation begin.
Locals(c)   == c.savedFP + Header
Operands(c) == Locals(c) + Decl[c.fn].localVarCount

\* An activation on the C++ stack.
Call == [fn : Funcs, savedFP : Word, depth : 0..MaxOperands, lost : Nat]

-----------------------------------------------------------------------------
TypeOK ==
  /\ phase \in {"idle", "running", "done"}
  /\ fp \in Nat
  /\ sp \in 0..StackWords
  /\ frames \in Seq(Word)
  /\ stack \in [Word -> Values]
  /\ calls \in Seq(Call)
  /\ Len(calls) <= MaxCalls

Init ==
  /\ phase = "idle"
  /\ fp = 0
  /\ sp = 0
  /\ frames = <<>>
  /\ stack = [a \in Word |-> 0]
  /\ calls = <<>>

\* Arguments::getArgument, for parameter i of the function f whose frame begins
\* at `frame`: the arguments lie below the frame, the first one deepest.
ArgumentFromTop(f, frame, i) == stack[frame - 1 - i]            \* mutant

Argument(f, frame, i) == stack[frame - Decl[f].paramCount + i]

\* The activation of f whose frame begins at `frame`: its frame header, its
\* parameters copied from below the frame, its other locals cleared
\* (execute's push of the frame and invokeVFunction).
Enter(f, frame) ==
  LET n     == Decl[f].localVarCount
      p     == Decl[f].paramCount
      first == frame + Header
  IN /\ Len(frames) <= MaxCalls
     /\ frame - p \in 0..StackWords
     /\ first + n <= StackWords
     /\ fp' = frame
     /\ sp' = first + n
     /\ stack' = [a \in Word |->
                    IF a \in first..(first + n - 1)
                    THEN IF a - first < p THEN Argument(f, frame, a - first)
                                          ELSE 0
                    ELSE stack[a]]

NewCall(f, frame) == [fn |-> f, savedFP |-> frame, depth |-> 0, lost |-> 0]

\* execute(module): the module frame at 0 (its words hold the
\* return value, the frame type and the module's slot, which nothing reads
\* and the model leaves 0), then the call of the static initialiser.
Start ==
  /\ phase = "idle"
  /\ phase' = "running"
  /\ Enter(Initializer, sp + ModuleHeader)
  /\ frames' = <<sp, sp + ModuleHeader>>
  /\ calls' = <<NewCall(Initializer, sp + ModuleHeader)>>

TakesUnchecked(taken, given) ==                                 \* mutant
  /\ calls' = [calls EXCEPT ![Len(calls)].depth = @ - taken + given]
  /\ UNCHANGED <<phase, fp, frames>>

\* The generator's operand count of the running activation after an
\* instruction that takes `taken` operands and gives `given`.
Takes(taken, given) ==
  /\ taken <= Top.depth
  /\ Top.depth - taken + given <= MaxOperands
  /\ calls' = [calls EXCEPT ![Len(calls)].depth = @ - taken + given]
  /\ UNCHANGED <<phase, fp, frames>>

\* push(value) at word a, after the pops that led there.
PushAt(a, v) ==
  /\ a \in Word
  /\ stack' = [stack EXCEPT ![a] = v]
  /\ sp' = a + 1

\* OCONST_NIL, ICONST, SCONST, NEW, GETSTATIC (taken = 0), INEG, GETFIELD (1),
\* IAND, ICMP_*, IADD to IREM (2) and ONEWARRAY (its count and as many items):
\* pop the operands, push a result.
Compute(taken, v) ==
  /\ Takes(taken, 1)
  /\ PushAt(sp - taken, v)

\* POP, PUTSTATIC, IFNE, IFLE (1) and PUTFIELD (2): only pops.
Discard(taken) ==
  /\ Takes(taken, 0)
  /\ sp - taken \in Word
  /\ sp' = sp - taken
  /\ UNCHANGED stack

\* OLOAD, ILOAD of local variable i, addressed from fp.
Load(i) ==
  /\ Takes(0, 1)
  /\ PushAt(sp, stack[fp + Header + i])

\* ISTORE into local variable i.
Store(i) ==
  /\ Takes(1, 0)
  /\ sp - 1 \in Word
  /\ sp' = sp - 1
  /\ stack' = [stack EXCEPT ![fp + Header + i] = stack[sp - 1]]

\* DUP pushes top().
Dup ==
  /\ Takes(1, 2)
  /\ sp - 1 \in Word
  /\ PushAt(sp, stack[sp - 1])

-----------------------------------------------------------------------------
InvokeVMOverArguments(f) ==                                     \* mutant
  /\ IsVM(f)
  /\ ArgumentWords(f) <= Top.depth
  /\ Enter(f, sp - ArgumentWords(f))
  /\ frames' = Append(frames, sp - ArgumentWords(f))
  /\ calls' = Append([calls EXCEPT ![Len(calls)].depth = @ - ArgumentWords(f)],
                     NewCall(f, sp - ArgumentWords(f)))
  /\ UNCHANGED phase

\* INVOKE of a VM function: execute(function) up to its interpreter.
InvokeVM(f) ==
  /\ IsVM(f)
  /\ ArgumentWords(f) <= Top.depth
  /\ Top.depth - ArgumentWords(f) + ResultWords(f) <= MaxOperands
  /\ Enter(f, sp)
  /\ frames' = Append(frames, sp)
  /\ calls' = Append([calls EXCEPT ![Len(calls)].depth = @ - ArgumentWords(f)],
                     NewCall(f, sp))
  /\ UNCHANGED phase

AfterCallLocals(f, frame, result, memory) ==                    \* mutant
  LET base == frame - Decl[f].localVarCount
  IN /\ base \in Word
     /\ sp' = base + ResultWords(f)
     /\ stack' = [memory EXCEPT ![base] = result]

AfterCallAlwaysPushes(f, frame, result, memory) ==              \* mutant
  LET base == frame - RemovedWords(f)
  IN /\ base \in Word
     /\ sp' = base + 1
     /\ stack' = [memory EXCEPT ![base] = result]

AfterCallPopsHeaderTwice(f, frame, result, memory) ==           \* mutant
  LET base == frame - RemovedWords(f) - Header
  IN /\ base \in Word
     /\ sp' = base + ResultWords(f)
     /\ stack' = [memory EXCEPT ![base] = result]

\* The stack pointer execute leaves a caller with when the frame of f began
\* at `frame`, and the result it pushes there unless f returns Void.
AfterCall(f, frame, result, memory) ==
  LET base == frame - RemovedWords(f)
  IN /\ base \in 0..StackWords
     /\ sp' = base + ResultWords(f)
     /\ IF Decl[f].returnsVoid
        THEN stack' = memory
        ELSE /\ base \in Word
             /\ stack' = [memory EXCEPT ![base] = result]

\* INVOKE of a built-in C function, which runs no bytecode: its frame comes
\* and goes, and its result v passes through the frame's return slot.
InvokeC(f, v) ==
  /\ ~ IsVM(f)
  /\ Takes(ArgumentWords(f), ResultWords(f))
  /\ sp + Header <= StackWords
  /\ AfterCall(f, sp, v, [stack EXCEPT ![sp] = v])

LeaveKeepsFP(result, memory) ==                                 \* mutant
  /\ AfterCall(Top.fn, Top.savedFP, result, memory)
  /\ frames' = Front(frames)
  /\ calls' = Append(Front(Front(calls)),
                    [calls[Len(calls) - 1] EXCEPT !.depth = @ + ResultWords(Top.fn)])
  /\ UNCHANGED <<phase, fp>>

\* The rest of execute(function) once the interpreter is left: the
\* result is read from the return slot, the frame popped (fp and sp from
\* `frames`), the arguments removed, the result pushed.
Leave(result, memory) ==
  LET f      == Top.fn
      caller == calls[Len(calls) - 1]
  IN /\ AfterCall(f, Top.savedFP, result, memory)
     /\ frames' = Front(frames)
     /\ fp' = Last(Front(frames))
     /\ calls' = Append(Front(Front(calls)),
                       [caller EXCEPT !.depth = @ + ResultWords(f),
                                      !.lost  = @ + ExcessWords(f)])
     /\ UNCHANGED phase

\* The static initialiser's execute pushes a result too (its returnTypeSlot is
\* not Void); execute(module) then pops the module frame.
LeaveModule(result, memory) ==
  /\ stack' = [memory EXCEPT ![Top.savedFP] = result]
  /\ phase' = "done"
  /\ frames' = <<>>
  /\ fp' = 0
  /\ sp' = 0
  /\ calls' = <<>>

Exit(result, memory) ==
  IF Len(calls) = 1 THEN LeaveModule(result, memory) ELSE Leave(result, memory)

\* RETURN leaves the return slot as it is: whatever word was there.
Return == Exit(stack[fp], stack)

\* IRETURN, ORETURN pop the result into the return slot.
ReturnValue ==
  /\ Top.depth >= 1
  /\ sp - 1 \in Word
  /\ Exit(stack[sp - 1], [stack EXCEPT ![fp] = stack[sp - 1]])

-----------------------------------------------------------------------------
Run ==
  \/ \E taken \in 0..2, v \in Values : Compute(taken, v)
  \/ \E taken \in 1..2 : Discard(taken)
  \/ \E i \in 0..(Decl[Top.fn].localVarCount - 1) : Load(i) \/ Store(i)
  \/ Dup
  \/ \E f \in Funcs : InvokeVM(f) \/ \E v \in Values : InvokeC(f, v)
  \/ Return
  \/ ReturnValue

Next == \/ Start
        \/ phase = "running" /\ Run

Spec == Init /\ [][Next]_vars
=============================================================================

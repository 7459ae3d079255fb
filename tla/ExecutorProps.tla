---------------------------- MODULE ExecutorProps ---------------------------
(***************************************************************************)
(* What the executor's stack discipline has to guarantee.                  *)
(***************************************************************************)
EXTENDS Executor

\* The vector `frames` and the C++ activations agree: one entry per
\* activation above the module frame, innermost last, fp at the innermost.
\* It makes the assertion of InterpretedExecutor::pop(Slot) unreachable.
FrameDiscipline ==
  IF phase # "running"
  THEN frames = <<>> /\ calls = <<>> /\ fp = 0 /\ sp = 0
  ELSE /\ calls # <<>>
       /\ Len(frames) = Len(calls) + 1
       /\ frames[1] = 0
       /\ \A k \in 1..Len(calls) : frames[k + 1] = calls[k].savedFP
       /\ fp = Top.savedFP
       /\ calls[1].fn = Initializer
       /\ \A k \in 1..Len(calls) : IsVM(calls[k].fn)

\* Where sp stands if every completed call removed `lost` words too many in
\* all: above the locals by the generator's operand count, below by `lost`.
\* A suspended activation had its callee's arguments there too.
StackPointerLaw ==
  phase = "running" =>
    /\ sp = Operands(Top) + Top.depth - Top.lost
    /\ \A k \in 1..(Len(calls) - 1) :
         calls[k + 1].savedFP = Operands(calls[k]) + calls[k].depth
                                  - calls[k].lost + ArgumentWords(calls[k + 1].fn)

\* The generator and the executor agree on the operands of every activation:
\* a call statement whose result is popped leaves the stack as it was, and the
\* words from a frame's locals up to sp are exactly the operands.
CallsBalanced == phase = "running" => sp = Operands(Top) + Top.depth

\* The activations lie one above the other: between the operands one of them
\* keeps and the frame of a later one there is room for the later one's
\* arguments.
LayeredActivations ==
  \A j, k \in 1..Len(calls) :
    j < k => Operands(calls[j]) + calls[j].depth + ArgumentWords(calls[k].fn)
               <= calls[k].savedFP

\* The local variables of an activation.
LocalWords(c) == Locals(c)..(Operands(c) - 1)

\* Only an ISTORE of the running activation changes a local variable, and
\* only one of them: no callee, no result and no operand of anybody is
\* written over the locals of an activation on the stack.
ChangedLocals(c) == {a \in LocalWords(c) : stack'[a] # stack[a]}

OnlyOwnLocals ==
  \A k \in 1..Len(calls) :
    k <= Len(calls') /\ ChangedLocals(calls[k]) # {} =>
      /\ k = Len(calls)
      /\ sp' = sp - 1
      /\ \E a \in ChangedLocals(calls[k]) : ChangedLocals(calls[k]) = {a}

LocalsIsolated == [][OnlyOwnLocals]_vars

\* The executor implements calls whose activations own their variables: what
\* the words of `memory` say of an activation.
Abstract(memory, c) ==
  [fn |-> c.fn,
   locals |-> [i \in 0..(Decl[c.fn].localVarCount - 1) |-> memory[Locals(c) + i]],
   operands |-> [j \in 1..c.depth |-> memory[Operands(c) + j - 1]]]

Activations == [k \in 1..Len(calls) |-> Abstract(stack, calls[k])]

Machine == INSTANCE CallMachine WITH acts <- Activations

ImplementsCallMachine == Machine!Spec
=============================================================================

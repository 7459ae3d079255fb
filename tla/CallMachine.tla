---------------------------- MODULE CallMachine ----------------------------
(***************************************************************************)
(* What the code generator relies on: every activation of a function owns  *)
(* its local variables and its operands, nobody else changes them, a call  *)
(* consumes exactly the arguments that were pushed for it and leaves       *)
(* exactly its result.  There is no shared stack here.                     *)
(***************************************************************************)
EXTENDS RuntimeFunctions, SequencesExt

CONSTANT Values      (* what a word can hold *)

VARIABLES phase,     (* "idle", "running" or "done"                        *)
          acts       (* the activations, the running one last              *)

vars == <<phase, acts>>

Top == Last(acts)

\* The running activation becomes a.
SetTop(a) == /\ acts' = Append(Front(acts), a)
             /\ UNCHANGED phase

Activation(f, args) ==
  [fn |-> f,
   locals |-> [i \in 0..(Decl[f].localVarCount - 1) |->
                 IF i < Decl[f].paramCount THEN args[i + 1] ELSE 0],
   operands |-> <<>>]

Init == /\ phase = "idle"
        /\ acts = <<>>

Start == /\ phase = "idle"
         /\ phase' = "running"
         /\ acts' = <<Activation(Initializer, <<>>)>>

\* An instruction that replaces the n uppermost operands by `results` and
\* leaves the local variables alone; a call of a C function is one too.
Operate(n, results) ==
  SetTop([Top EXCEPT !.operands = SubSeq(@, 1, Len(@) - n) \o results])

Load(i) == SetTop([Top EXCEPT !.operands = Append(@, Top.locals[i])])

Store(i) ==
  /\ Top.operands # <<>>
  /\ SetTop([Top EXCEPT !.locals[i] = Last(Top.operands),
                        !.operands = Front(@)])

Dup ==
  /\ Top.operands # <<>>
  /\ SetTop([Top EXCEPT !.operands = Append(@, Last(@))])

Invoke(f) ==
  LET kept == Len(Top.operands) - ArgumentWords(f)
      args == SubSeq(Top.operands, kept + 1, Len(Top.operands))
  IN /\ kept >= 0
     /\ acts' = Append(Append(Front(acts),
                              [Top EXCEPT !.operands = SubSeq(@, 1, kept)]),
                       Activation(f, args))
     /\ UNCHANGED phase

\* The activation ends; its caller goes on with result v among its operands.
Leave(v) ==
  IF Len(acts) = 1
  THEN /\ acts' = <<>>
       /\ phase' = "done"
  ELSE LET caller == acts[Len(acts) - 1]
       IN /\ acts' = Append(Front(Front(acts)),
                [caller EXCEPT !.operands =
                   IF Decl[Top.fn].returnsVoid THEN @ ELSE Append(@, v)])
          /\ UNCHANGED phase

\* `return e`: the result is the uppermost operand.
ReturnValue ==
  /\ Top.operands # <<>>
  /\ Leave(Last(Top.operands))

\* `return`: a function that declares a result type delivers no value in
\* particular.
Return == \E v \in Values : Leave(v)

Run ==
  \/ \E n \in 0..Len(Top.operands) :
       \/ Operate(n, <<>>)
       \/ \E v \in Values : Operate(n, <<v>>)
  \/ \E i \in DOMAIN Top.locals : Load(i) \/ Store(i)
  \/ Dup
  \/ \E f \in Funcs : IsVM(f) /\ Invoke(f)
  \/ ReturnValue
  \/ Return

Next == \/ Start
        \/ phase = "running" /\ Run

Spec == Init /\ [][Next]_vars
=============================================================================

---------------------------- MODULE ControlFlow -----------------------------
(***************************************************************************)
(* Interpreter (interpreter.cpp) running the code of one body: the program *)
(* counter, and how many operands are on the stack.  What a call does and  *)
(* what an expression yields is left open.                                 *)
(***************************************************************************)
EXTENDS CodeGen

CONSTANTS
  Sources,       (* the bodies: their kind and statements                  *)
  Nesting,       (* how deep their blocks are nested at most               *)
  MaxTests       (* bound on how many conditions are true in a run         *)

Kind == {"module", "procedure", "function"}

CodeOf(body) == EmitBody(Emit[Nesting], body.kind, body.stmts)

\* A jump's operand is a number of 32 bits.
ASSUME SourcesAssumption ==
  /\ Nesting \in Nat
  /\ MaxTests \in Nat
  /\ \A b \in Sources :
       /\ b.kind \in Kind
       /\ b.stmts \in Seq(DOMAIN Emit[Nesting])
       /\ Len(CodeOf(b)) <= 2147483647

VARIABLES
  code,          (* Bytecodes                                              *)
  cp,            (* the instruction to be executed, from 1                 *)
  operands,      (* the words on the stack above the locals                *)
  tests,         (* conditions found true                                  *)
  seen,          (* what was seen last: a call, a test, the return         *)
  rest,          (* ghost: the statements that should remain               *)
  depths         (* ghost: how many operands there were when an            *)
                 (* instruction was first executed; -1 before              *)

vars == <<code, cp, operands, tests, seen, rest, depths>>

Running == seen # Returned

Init ==
  \E b \in Sources :
    /\ code = CodeOf(b)
    /\ rest = Visible(b.stmts)
    /\ cp = 1
    /\ operands = <<>>
    /\ tests = 0
    /\ seen = Started
    /\ depths = [i \in DOMAIN code |-> -1]

\* VALUE_FROM_BYTECODE.
Operand == ValueFrom(code[cp].bytes)

\* run(): the instruction at cp, its own jump, and `cp += kIntSize`.
Execute(ops, word, jump) ==
  /\ Running
  /\ cp \in DOMAIN code
  /\ OpFrom(code[cp].bytes) \in ops
  /\ Len(operands) >= code[cp].pops
  /\ operands' = SubSeq(operands, 1, Len(operands) - code[cp].pops)
                    \o [i \in 1..code[cp].pushes |-> word]
  /\ cp' = cp + jump + 1
  /\ depths' = [depths EXCEPT ![cp] = IF @ = -1 THEN Len(operands) ELSE @]
  /\ UNCHANGED code

Unseen == UNCHANGED <<tests, seen, rest>>

See(e) == /\ seen' = e
          /\ rest' = After(rest, e)

\* The words that are not compared do not matter.
Straight == Execute({"ILOAD", "ISTORE", "POP"}, 1, 0) /\ Unseen

Compare ==
  \E value \in IF tests < MaxTests THEN {0, 1} ELSE {0} :
    /\ Execute({"ICMP_L"}, value, 0)
    /\ tests' = tests + value
    /\ See(Event("test", Operand, value = 1))

Goto == Execute({"GOTO"}, 0, Operand) /\ Unseen

IfNe == Execute({"IFNE"}, 0, IF Last(operands) = 0 THEN Operand ELSE 0) /\ Unseen

IfLe == Execute({"IFLE"}, 0, IF Last(operands) <= 0 THEN Operand ELSE 0) /\ Unseen

\* The callee leaves its result; see Executor for how it does.
Invoke ==
  /\ Execute({"INVOKE"}, 1, 0)
  /\ UNCHANGED tests
  /\ See(Event("call", Operand, FALSE))

\* The operands are dropped with the frame.
Return == /\ Execute({"RETURN", "IRETURN"}, 0, 0)
          /\ UNCHANGED tests
          /\ See(Returned)

Next == Straight \/ Compare \/ Goto \/ IfNe \/ IfLe \/ Invoke \/ Return

Spec == Init /\ [][Next]_vars /\ WF_vars(Next)

-----------------------------------------------------------------------------
TypeOK ==
  /\ cp \in Nat
  /\ operands \in Seq({0, 1})
  /\ tests \in 0..MaxTests
  /\ depths \in [DOMAIN code -> -1..Len(code)]

\* The interpreter never leaves the code: every jump ends at an instruction and
\* the last one executed is a RETURN.
WithinCode == Running => cp \in DOMAIN code

\* The code does what the statements say: the calls and tests it makes, and the
\* return, are theirs, in their order.
Structured == INSTANCE StructuredRun WITH todo <- rest, event <- seen,
                                       Bodies <- {b.stmts : b \in Sources}

ImplementsStatements == Structured!Spec

\* What a statement of a block may leave on the stack: the block pops the results
\* of calls only.
LeavesInBlock(s) == s.kind = "expr" \/ (s.kind = "memberCall" /\ s.result)

TidyBlock(stmts, T) == \A i \in 1..Len(stmts) : stmts[i] \in T /\ ~ LeavesInBlock(stmts[i])

\* Statements with those of their blocks, which leave nothing.
Tidy(T) ==
  \A s \in T :
    /\ s.kind \in {"if", "ifElse", "while"} => TidyBlock(s.block, T)
    /\ s.kind = "ifElse" => TidyBlock(s.other, T)

\* The statements of the bodies are among those of T.
BodiesFrom(T) == \A b \in Sources : b.stmts \in Seq(T)

\* A function with a result ends in a return statement: the generator does not
\* look.
FunctionsReturn == \A b \in Sources : b.kind = "function" => EndsInReturn(b.stmts)

\* An instruction finds the same number of operands whenever it is executed: no
\* iteration of a loop and no branch leaves one behind.
DepthIsStatic == Running /\ WithinCode => depths[cp] \in {-1, Len(operands)}

\* A body whose conditions are not true for ever comes to its end.
Returns == <>(~ Running)
=============================================================================

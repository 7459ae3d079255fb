------------------------------ MODULE CodeGen -------------------------------
(***************************************************************************)
(* IRGen's visitors of statements (IRGen.cpp): the bytecode of a body.     *)
(* An instruction has its bytes, and the words it pops and pushes; jump    *)
(* offsets count instructions, from the one behind the jump.               *)
(* Expressions are `x < y` for a condition, a variable elsewhere; `arg` of *)
(* ICMP_L names the condition.                                             *)
(***************************************************************************)
EXTENDS Statements, Bytecode

Instruction(op, arg, pops, pushes) ==
  <<[bytes |-> Bytecode1(op, arg), pops |-> pops, pushes |-> pushes]>>

ILoad         == Instruction("ILOAD", 0, 0, 1)
Jump(op, n)   == Instruction(op, n, IF op = "GOTO" THEN 0 ELSE 1, 0)
Condition(id) == ILoad \o ILoad \o Instruction("ICMP_L", id, 2, 1)
InvokeOf(s, arguments) ==
  Instruction("INVOKE", s.id, arguments, IF s.result THEN 1 ELSE 0)

NoPop(s) == <<>>                                                \* mutant

\* A statement of kind funcCallExpr whose result nobody takes is popped, in a
\* block.
PopUnused(s) == IF s.kind = "call" /\ s.result THEN Instruction("POP", 0, 1, 0) ELSE <<>>

NoThenJump(other) == <<>>                                       \* mutant

\* The if-block jumps over the else-block; there is none to jump over otherwise.
ThenJump(other) == Jump("GOTO", Len(other))

\* IFLE leaves the loop behind its GOTO.
LoopExit(body) == Len(body) + 1

LoopBackInBytes(body) == - 8 * (Len(Condition(0)) + 2 + Len(body))      \* mutant

LoopBackToBody(body) == - Len(body) - 1                         \* mutant

\* `position - writer.size() - 1`, with the condition, the jump and the body
\* written since position.
LoopBack(body) == - (Len(Condition(0)) + 1 + Len(body)) - 1

\* StmtsBlock; emit is the code of its statements.
EmitBlock(emit, stmts) ==
  FlattenSeq([i \in DOMAIN stmts |-> emit[stmts[i]] \o PopUnused(stmts[i])])

EmitIf(emit, s) ==
  LET block == EmitBlock(emit, s.block)
  IN Condition(s.id) \o Jump("IFNE", Len(block)) \o block

EmitIfElse(emit, s) ==
  LET other == EmitBlock(emit, s.other)
      block == EmitBlock(emit, s.block) \o ThenJump(other)
  IN Condition(s.id) \o Jump("IFNE", Len(block)) \o block \o other

EmitWhile(emit, s) ==
  LET body == EmitBlock(emit, s.block)
  IN Condition(s.id) \o Jump("IFLE", LoopExit(body)) \o body \o Jump("GOTO", LoopBack(body))

EmitStatement(emit, s) ==
  CASE s.kind = "call"       -> InvokeOf(s, 0)
    [] s.kind = "memberCall" -> ILoad \o InvokeOf(s, 1)
    [] s.kind = "assign"     -> ILoad \o Instruction("ISTORE", 0, 1, 0)
    [] s.kind = "expr"       -> ILoad
    [] s.kind = "return"     -> Instruction("RETURN", 0, 0, 0)
    [] s.kind = "returnExpr" -> ILoad \o Instruction("IRETURN", 0, 1, 0)
    [] s.kind = "if"         -> EmitIf(emit, s)
    [] s.kind = "ifElse"     -> EmitIfElse(emit, s)
    [] s.kind = "while"      -> EmitWhile(emit, s)

\* The code of the statements whose blocks are nested at most n deep, the empty
\* ones not counted.
Emit[n \in Nat] ==
  LET nested == IF n = 0 THEN <<>> ELSE Emit[n - 1]
  IN [s \in Statement(DOMAIN nested) |-> EmitStatement(nested, s)]

EndsInReturn(stmts) == stmts # <<>> /\ Last(stmts).kind \in {"return", "returnExpr"}

\* The statements of a module or of a function body are in no block. TypeGen ends a
\* function without a result by a ReturnStmt, IRGen a module by a RETURN.
EmitBody(emit, kind, stmts) ==
  LET code == FlattenSeq([i \in DOMAIN stmts |-> emit[stmts[i]]])
  IN IF kind = "module" \/ (kind = "procedure" /\ ~ EndsInReturn(stmts))
     THEN code \o emit[ReturnStmt] ELSE code
=============================================================================

----------------------------- MODULE Statements -----------------------------
(***************************************************************************)
(* The statements of a body and what is to be executed next: the meaning   *)
(* of if, while and return that the generated code has to have.            *)
(***************************************************************************)
EXTENDS Integers, SequencesExt

\* Calls, tests of conditions and the return can be seen; an assignment (to a
\* variable, of an expression without calls) and a bare expression cannot.
Silent == {"assign", "expr"}

Call(id, result)     == [kind |-> "call", id |-> id, result |-> result]
MemberCall(id, result) == [kind |-> "memberCall", id |-> id, result |-> result]
AssignStmt           == [kind |-> "assign"]
ExprStmt             == [kind |-> "expr"]
ReturnStmt           == [kind |-> "return"]
ReturnExprStmt       == [kind |-> "returnExpr"]
If(id, block)        == [kind |-> "if", id |-> id, block |-> block]
IfElse(id, block, other) ==
  [kind |-> "ifElse", id |-> id, block |-> block, other |-> other]
While(id, block)     == [kind |-> "while", id |-> id, block |-> block]

\* Statements tell their calls and conditions apart by numbers, the operands of
\* instructions.
LastId == 2147483647
Ids    == 0..LastId

\* The statements with those of a set in their blocks.
Statement(nested) ==
  LET blocks == Seq(nested)
  IN {AssignStmt, ExprStmt, ReturnStmt, ReturnExprStmt}
       \union [kind : {"call", "memberCall"}, id : Ids, result : BOOLEAN]
       \union [kind : {"if", "while"}, id : Ids, block : blocks]
       \union [kind : {"ifElse"}, id : Ids, block : blocks, other : blocks]

Event(kind, id, taken) == [kind |-> kind, id |-> id, taken |-> taken]
Started  == Event("start", 0, FALSE)
Returned == Event("return", 0, FALSE)

\* Statements nothing is seen of are over as soon as they are next.
Visible(stmts) ==
  LET seen == {i \in DOMAIN stmts : stmts[i].kind \notin Silent}
  IN IF seen = {} THEN <<>> ELSE SubSeq(stmts, Min(seen), Len(stmts))

\* What can happen next, and what remains after it.
Possible(todo) ==
  IF todo = <<>> THEN {Returned}
  ELSE LET s == Head(todo)
       IN CASE s.kind \in {"call", "memberCall"} -> {Event("call", s.id, FALSE)}
            [] s.kind \in {"return", "returnExpr"} -> {Returned}
            [] OTHER -> {Event("test", s.id, b) : b \in BOOLEAN}

After(todo, event) ==
  IF event \notin Possible(todo) THEN todo
  ELSE IF event = Returned THEN <<>>
  ELSE LET s == Head(todo)
       IN Visible(IF ~ event.taken
                  THEN (IF s.kind = "ifElse" THEN s.other ELSE <<>>) \o Tail(todo)
                  ELSE s.block \o (IF s.kind = "while" THEN todo ELSE Tail(todo)))
=============================================================================

--------------------------- MODULE MCControlFlow ----------------------------
(***************************************************************************)
(* Bodies with an if or a while around at most two statements, or around   *)
(* another if or while, between two other statements.                      *)
(***************************************************************************)
EXTENDS ControlFlow

\* Statements without a nested block; the numbers tell calls and tests apart.
Simple(id) == {Call(id, TRUE), AssignStmt, ReturnStmt}

Around(id, blocks, others) ==
  UNION {{If(id, b), While(id, b)} : b \in blocks}
    \union {IfElse(id, b, c) : b \in blocks, c \in others}

Small(id) == {<<>>} \union {<<s>> : s \in Simple(id)}

Inner(id) == Around(id, Small(id + 1) \union {<<MemberCall(id + 2, FALSE), s>> : s \in Simple(id + 3)},
                        Small(id + 4))

Nested(id) == Around(id, {<<s>> : s \in Inner(id + 10)} \union {<<s, Call(id + 1, TRUE)>> : s \in Inner(id + 20)},
                         {<<s>> : s \in Around(id + 30, Small(id + 31), {<<>>})})

Compound(id) == Inner(id) \union Nested(id)

Modules    == {[kind |-> "module", stmts |-> <<ExprStmt, s, MemberCall(200, TRUE)>>] : s \in Compound(100)}
Procedures == {[kind |-> "procedure", stmts |-> <<Call(300, TRUE), s>>] : s \in Inner(100)}
Functions  == {[kind |-> "function", stmts |-> <<s, ReturnExprStmt>>] : s \in Inner(100)}

AllBodies == Modules \union Procedures \union Functions

\* The statements of the bodies and of their blocks: the hypotheses of the
\* theorems hold of them.
BlocksOf(s) == IF s.kind = "ifElse" THEN {s.block, s.other}
               ELSE IF s.kind \in {"if", "while"} THEN {s.block} ELSE {}

StatementsOf(stmts) == {stmts[i] : i \in DOMAIN stmts}

WithNested(T) == T \union UNION {UNION {StatementsOf(b) : b \in BlocksOf(s)} : s \in T}

AllStatements == WithNested(WithNested(UNION {StatementsOf(b.stmts) : b \in Sources}))

ASSUME BodiesAreTidy == Tidy(AllStatements) /\ BodiesFrom(AllStatements)
ASSUME BodiesReturn  == FunctionsReturn
=============================================================================

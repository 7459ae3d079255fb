------------------------------- MODULE Parser -------------------------------
(***************************************************************************)
(* SyntaxParser (syntaxparser.cpp).  Each parse function is a list of      *)
(* steps: eat a token, call another function, report an error, step back;  *)
(* each step says where to go on if it succeeds and if it fails.  The      *)
(* machine runs these lists over one cursor.  A node is only there or      *)
(* nullptr.  The text is chosen token by token, when the parser first      *)
(* looks at it: that is every text, without writing them down.             *)
(***************************************************************************)
EXTENDS Integers, SequencesExt

CONSTANTS
  Families       (* sets of texts: their first tokens, those the others    *)
                 (* are of, and a bound on how many there are              *)

ASSUME FamiliesAssumption ==
  \A f \in Families :
    /\ f.begin \in Seq(ToSet(f.begin))
    /\ f.length \in Nat /\ Len(f.begin) <= f.length

\* Where a step goes: on to another, or the function returns a node, nullptr, or
\* nullptr after a report.
Node  == 0
Null  == -1
Error == -2

Eat(tokens, ok, fail) == [do |-> "eat", arg |-> tokens, ok |-> ok, fail |-> fail]
Call(fn, ok, fail)    == [do |-> "call", arg |-> fn, ok |-> ok, fail |-> fail]
Report(next)          == [do |-> "report", ok |-> next]
Previous(next)        == [do |-> "previous", ok |-> next]
AtEnd(yes, no)        == [do |-> "end", ok |-> yes, fail |-> no]

\* The first that returns a node.
FirstOf(fns) ==
  [i \in DOMAIN fns |-> Call(fns[i], Node, IF i = Len(fns) THEN Null ELSE i + 1)]

PostfixOperator == {"?", "!"}
AnyOperator     == {"op", "="} \union PostfixOperator
Literal         == {"literal", "string"}

-----------------------------------------------------------------------------
\* Declarations.
ParseOn ==                                                      \* mutant
  <<AtEnd(Node, 2), Call("Stmt", 1, 1)>>

Parse == <<AtEnd(Node, 2), Call("Stmt", 1, Null)>>

Decl == FirstOf(<<"ConstDecl", "VarDecl", "ClassDecl", "FuncDecl", "ConstructorDecl", "FileImport">>)

FuncDecl ==
  <<Eat({"func"}, 2, Null), Eat({"id"}, 3, Error), Call("ParameterClause", 4, Error),
    Call("TypeAnnotation", 5, 5), Call("StmtsBlock", Node, Error)>>

ConstructorDecl ==
  <<Eat({"init"}, 2, Null), Call("ParameterClause", 3, Null), Call("StmtsBlock", Node, Error)>>

\* A literal that is no string is reported as well.
FileImport ==
  <<Eat({"import"}, 2, Null), Eat({"string"}, Node, 3), Eat(Literal, 4, 4), Report(Node)>>

\* A pattern; then commas and patterns.
ParameterClause ==
  <<Eat({"("}, 2, Null), Call("Pattern", 3, 6),
    Eat({","}, 4, 5), Call("Pattern", 3, Error), Call("Pattern", Error, 6),
    Eat({")"}, Node, Error)>>

VariableDecl(keyword) ==
  <<Eat({keyword}, 2, Null), Call("Pattern", 3, Error), Eat({"="}, 4, Node),
    Call("Expr", Node, 5), Report(Node)>>

ClassDecl ==
  <<Eat({"class"}, 2, Null), Eat({"id"}, 3, Error), Eat({"{"}, 4, Error),
    Call("Decl", 4, 5), Eat({"}"}, Node, Error)>>

-----------------------------------------------------------------------------
\* Statements.
StmtsBlockUnclosed ==                                           \* mutant
  <<Eat({"{"}, 2, Null), Call("Stmt", 2, 3), Eat({"}"}, Node, Node)>>

StmtsBlock == <<Eat({"{"}, 2, Null), Call("Stmt", 2, 3), Eat({"}"}, Node, Error)>>

Stmt == FirstOf(<<"Expr", "Decl", "LoopStmt", "IfStmt", "ReturnStmt", "WhileStmt">>)

LoopStmt ==
  <<Eat({"for"}, 2, Null), Call("Pattern", 3, Error), Eat({"in"}, 4, Error),
    Call("Expr", 6, 5), Report(6), Call("StmtsBlock", Node, Node)>>

WhileStmt == <<Eat({"while"}, 2, Null), Call("Expr", 3, Error), Call("StmtsBlock", Node, Error)>>

\* Failures are not reported ("TODO").
IfStmt ==
  <<Eat({"if"}, 2, Null), Call("Expr", 3, Null), Call("StmtsBlock", 4, Null),
    Eat({"else"}, 5, Node), Call("IfStmt", Node, 6), Call("StmtsBlock", Node, Null)>>

ReturnStmt == <<Eat({"return"}, 2, Null), Call("Expr", Node, Node)>>

Pattern == <<Eat({"id"}, 2, Null), Call("TypeAnnotation", Node, Node)>>

TypeAnnotation == <<Eat({":"}, 2, Null), Call("Type", Node, Error)>>

Type ==
  <<Eat({"id"}, 3, 2), Call("TypeArray", 3, Null), Eat(PostfixOperator, Node, Node)>>

TypeArray ==
  <<Eat({"["}, 2, Null), Call("Type", 4, 3), Report(4), Eat({"]"}, Node, Null)>>

-----------------------------------------------------------------------------
\* Expressions.
Expr == <<Call("PrefixExpr", 2, Null), Call("BinaryExpr", 2, Node)>>

BinaryExpr ==
  <<Eat({"="}, 2, 3), Call("Expr", Node, Error),
    Eat(AnyOperator, 4, Null), Call("PrefixExpr", Node, Error)>>

PrefixExprKeeps ==                                              \* mutant
  <<Eat(AnyOperator, 2, 3), Call("PostfixExpr", Node, Null), Call("PostfixExpr", Node, Null)>>

PrefixExprReverts ==                                            \* mutant
  <<Eat(AnyOperator, 2, 3), Call("PostfixExpr", Node, 4), Call("PostfixExpr", Node, 4),
    Previous(Null)>>

\* The operator is given back if nothing follows it.
PrefixExpr ==
  <<Eat(AnyOperator, 2, 3), Call("PostfixExpr", Node, 4), Call("PostfixExpr", Node, Null),
    Previous(Null)>>

\* tryParsePostfixExpr calls itself with what it has got so far.
PostfixExpr ==
  <<Call("PrimaryExpr", 2, Null), Eat(PostfixOperator, 3, 3),
    Call("FuncCallExpr", 2, 4), Call("SubscriptExpr", 2, 5), Call("MemberAccessExpr", 2, Node)>>

MemberAccessExpr == <<Eat({"."}, 2, Null), Eat({"id"}, Node, Error)>>

FuncCallExprOneArgument ==                                      \* mutant
  <<Eat({"("}, 2, Null), Call("ArguCallExpr", 5, 5), Eat({","}, 4, 5),
    Call("ArguCallExpr", 3, Error), Eat({")"}, Node, Error)>>

FuncCallExpr ==
  <<Eat({"("}, 2, Null), Call("ArguCallExpr", 3, 5), Eat({","}, 4, 5),
    Call("ArguCallExpr", 3, Error), Eat({")"}, Node, Error)>>

SubscriptExpr == <<Eat({"["}, 2, Null), Call("Expr", 3, Error), Eat({"]"}, Node, Error)>>

ArguCallExpr == <<Eat({"id"}, 2, Null), Eat({":"}, 3, Error), Call("Expr", Node, Error)>>

PrimaryExpr ==
  <<Eat({"id"}, Node, 2), Eat(Literal, Node, 3), Call("ArrayOrDict", Node, 4),
    Call("SelfExpr", Node, 5), Call("Parenthesized", Node, Null)>>

SelfExpr == <<Eat({"self"}, 2, Null), Eat({"."}, 3, Node), Eat({"id"}, Node, Error)>>

\* 5 to 9: the first item tells an array from a dictionary; 10 to 12: further
\* items of an array, 13 to 16 of a dictionary; 17: the end of both.
ArrayOrDict ==
  <<Eat({"["}, 2, Null),
    Eat({":"}, 3, 5), Eat({"]"}, Node, 4), Report(Node),
    Call("Expr", 6, 7), Eat({":"}, 8, 10), Eat({":"}, 9, 17),
    Call("Expr", 13, Error), Call("Expr", 17, Error),
    Eat({","}, 11, 17), Call("Expr", 10, 12), Report(17),
    Eat({","}, 14, 17), Call("Expr", 15, 12), Eat({":"}, 16, 12), Call("Expr", 13, 12),
    Eat({"]"}, Node, 4)>>

Parenthesized == <<Eat({"("}, 2, Null), Call("Expr", 3, Error), Eat({")"}, Node, Error)>>

Functions ==
  [Parse |-> Parse, Decl |-> Decl, FuncDecl |-> FuncDecl, ConstructorDecl |-> ConstructorDecl,
   FileImport |-> FileImport, ParameterClause |-> ParameterClause,
   ConstDecl |-> VariableDecl("let"), VarDecl |-> VariableDecl("var"), ClassDecl |-> ClassDecl,
   StmtsBlock |-> StmtsBlock, Stmt |-> Stmt, LoopStmt |-> LoopStmt, WhileStmt |-> WhileStmt,
   IfStmt |-> IfStmt, ReturnStmt |-> ReturnStmt, Pattern |-> Pattern,
   TypeAnnotation |-> TypeAnnotation, Type |-> Type, TypeArray |-> TypeArray, Expr |-> Expr,
   BinaryExpr |-> BinaryExpr, PrefixExpr |-> PrefixExpr, PostfixExpr |-> PostfixExpr,
   MemberAccessExpr |-> MemberAccessExpr, FuncCallExpr |-> FuncCallExpr,
   SubscriptExpr |-> SubscriptExpr, ArguCallExpr |-> ArguCallExpr, PrimaryExpr |-> PrimaryExpr,
   SelfExpr |-> SelfExpr, ArrayOrDict |-> ArrayOrDict, Parenthesized |-> Parenthesized]

-----------------------------------------------------------------------------
VARIABLES
  family,        (* that of this text                                      *)
  text, complete,(* the tokens known so far; are they all                  *)
  iterator,      (* the current token, from 1                              *)
  reported,      (* has an error been reported                             *)
  calls          (* the C++ stack: function, step, where it began          *)

vars == <<family, text, complete, iterator, reported, calls>>

Begin(fn) == [fn |-> fn, at |-> 1, start |-> iterator]

Init ==
  /\ family \in Families
  /\ text = family.begin
  /\ complete = FALSE
  /\ iterator = 1
  /\ reported = FALSE
  /\ calls = <<Begin("Parse")>>

Running  == calls[1].at \notin {Node, Null} \/ Len(calls) > 1
Accepted == ~ Running /\ calls[1].at = Node /\ ~ reported

Top == Last(calls)

Doing(what) == /\ Top.at > 0
               /\ Functions[Top.fn][Top.at].do = what

Step == Functions[Top.fn][Top.at]

\* The function on top goes on at `next`.
GoOn(next) == calls' = [calls EXCEPT ![Len(calls)].at = IF next = Error THEN Null ELSE next]

Known == iterator <= Len(text) \/ complete

\* An erroneous text needs no further tokens: it ends there.
Look ==
  /\ Doing("eat") \/ Doing("end")
  /\ ~ Known
  /\ \/ /\ complete' = TRUE
        /\ UNCHANGED text
     \/ /\ ~ reported
        /\ Len(text) < family.length
        /\ \E t \in family.tokens : text' = Append(text, t)
        /\ UNCHANGED complete
  /\ UNCHANGED <<family, iterator, reported, calls>>

\* tryEat.
EatToken ==
  /\ Doing("eat")
  /\ Known
  /\ LET eaten == iterator <= Len(text) /\ text[iterator] \in Step.arg
         next  == IF eaten THEN Step.ok ELSE Step.fail
     IN /\ iterator' = IF eaten THEN iterator + 1 ELSE iterator
        /\ reported' = (reported \/ next = Error)
        /\ GoOn(next)
  /\ UNCHANGED <<family, text, complete>>

AskEnd ==
  /\ Doing("end")
  /\ Known
  /\ GoOn(IF iterator > Len(text) THEN Step.ok ELSE Step.fail)
  /\ UNCHANGED <<family, text, complete, iterator, reported>>

CallFunction ==
  /\ Doing("call")
  /\ calls' = Append(calls, Begin(Step.arg))
  /\ UNCHANGED <<family, text, complete, iterator, reported>>

ReportError ==
  /\ Doing("report")
  /\ reported' = TRUE
  /\ GoOn(Step.ok)
  /\ UNCHANGED <<family, text, complete, iterator>>

StepBack ==
  /\ Doing("previous")
  /\ iterator' = iterator - 1
  /\ GoOn(Step.ok)
  /\ UNCHANGED <<family, text, complete, reported>>

\* The caller goes on with the node, or with nullptr.
Return ==
  /\ Len(calls) > 1
  /\ Top.at \in {Node, Null}
  /\ LET caller == calls[Len(calls) - 1]
         step   == Functions[caller.fn][caller.at]
         next   == IF Top.at = Node THEN step.ok ELSE step.fail
     IN /\ reported' = (reported \/ next = Error)
        /\ calls' = [Front(calls) EXCEPT ![Len(calls) - 1].at = IF next = Error THEN Null ELSE next]
  /\ UNCHANGED <<family, text, complete, iterator>>

Next == Look \/ EatToken \/ AskEnd \/ CallFunction \/ ReportError \/ StepBack \/ Return

Spec == Init /\ [][Next]_vars /\ WF_vars(Next)

-----------------------------------------------------------------------------
\* The variables have their types: the cursor is at a token or at the end, and a call
\* under way is at a step of its function.
TypeOK ==
  /\ text \in Seq(family.tokens \union ToSet(family.begin)) /\ Len(text) <= family.length
  /\ complete \in BOOLEAN /\ reported \in BOOLEAN
  /\ iterator \in 1..(Len(text) + 1)
  /\ calls # <<>>
  /\ \A c \in DOMAIN calls :
       /\ calls[c].fn \in DOMAIN Functions
       /\ calls[c].at \in {Node, Null} \union DOMAIN Functions[calls[c].fn]
       /\ calls[c].start \in 1..(Len(text) + 1)

\* A function that returns nullptr has reported it or left the cursor where it was,
\* so that the caller may try the next alternative: all but IfStmt, ConstructorDecl,
\* TypeArray (its caller reports) and those that call them.
LosesTokens == {"IfStmt", "ConstructorDecl", "Decl", "Stmt", "Parse", "TypeArray", "Type"}

BacktracksOrReports ==
  Top.at = Null /\ ~ reported /\ Top.fn \notin LosesTokens => iterator = Top.start
=============================================================================

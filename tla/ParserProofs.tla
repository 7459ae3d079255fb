---------------------------- MODULE ParserProofs ----------------------------
(***************************************************************************)
(* For every text: the parser's cursor and its calls keep their types, and *)
(* a function that returns nullptr has reported an error or eaten nothing. *)
(***************************************************************************)
EXTENDS Parser, SequenceTheorems, TLAPS

-----------------------------------------------------------------------------
(* What the functions' lists of steps have in common. *)

\* The steps before a function has eaten anything.
Fresh(fn) == IF fn = "PrimaryExpr" THEN 1..5
             ELSE IF fn \in {"BinaryExpr", "PrefixExpr"} THEN {1, 3} ELSE {1}

\* The steps of a function go on to its steps, call functions, and step back only
\* behind an operator.
Linked(fn, steps) ==
  /\ 1 \in DOMAIN steps
  /\ \A k \in DOMAIN steps :
       LET s    == steps[k]
           next == DOMAIN steps \union {Node, Null, Error}
       IN /\ k \in Int /\ k > 0
          /\ s.do \in {"eat", "end", "call", "report", "previous"}
          /\ s.ok \in next
          /\ s.do \in {"eat", "end", "call"} => s.fail \in next
          /\ s.do = "call" => s.arg \in DOMAIN Functions
          /\ s.do \in {"end", "report"} => s.ok # Error
          /\ s.do = "end" => s.fail # Error
          /\ s.do = "previous" => fn = "PrefixExpr" /\ k = 4 /\ s.ok = Null

\* It gets to a fresh step, or returns nullptr, only from a fresh step that has eaten
\* nothing, or by a report.
Careful(fn, steps) ==
  fn \notin LosesTokens =>
    \A k \in DOMAIN steps :
      LET s    == steps[k]
          back == Fresh(fn) \union {Null}
      IN /\ s.do # "end"
         /\ s.do \in {"eat", "call", "report"} => s.ok \notin back
         /\ s.do \in {"eat", "call"} /\ s.fail \in back =>
              /\ k \in Fresh(fn)
              /\ s.do = "call" => s.arg \notin LosesTokens

Sound(fn, steps) == Linked(fn, steps) /\ Careful(fn, steps)

\* The fields of a step that eats a token,
LEMMA EatHas ==
  \A tokens, ok, fail :
    LET s == Eat(tokens, ok, fail) IN s.do = "eat" /\ s.ok = ok /\ s.fail = fail
BY DEF Eat

\* of one that calls a function,
LEMMA CallHas ==
  \A fn, ok, fail :
    LET s == Call(fn, ok, fail) IN s.do = "call" /\ s.arg = fn /\ s.ok = ok /\ s.fail = fail
BY DEF Call

\* and of one that reports an error.
LEMMA ReportHas == \A next : Report(next).do = "report" /\ Report(next).ok = next
BY DEF Report

\* The parse functions.
LEMMA Names ==
  DOMAIN Functions =
    {"Parse", "Decl", "FuncDecl", "ConstructorDecl", "FileImport", "ParameterClause",
     "ConstDecl", "VarDecl", "ClassDecl", "StmtsBlock", "Stmt", "LoopStmt", "WhileStmt",
     "IfStmt", "ReturnStmt", "Pattern", "TypeAnnotation", "Type", "TypeArray", "Expr",
     "BinaryExpr", "PrefixExpr", "PostfixExpr", "MemberAccessExpr", "FuncCallExpr",
     "SubscriptExpr", "ArguCallExpr", "PrimaryExpr", "SelfExpr", "ArrayOrDict",
     "Parenthesized"}
BY DEF Functions

\* Those whose brackets and commas the provers cannot read, with any tokens for them.
LEMMA ParameterClauseIsSound ==
  ASSUME NEW open, NEW comma, NEW close
  PROVE  Sound("ParameterClause",
           <<Eat(open, 2, Null), Call("Pattern", 3, 6),
            Eat(comma, 4, 5), Call("Pattern", 3, Error), Call("Pattern", Error, 6),
            Eat(close, Node, Error)>>)
BY EatHas, CallHas, ReportHas, Names DEF Sound, Linked, Careful, Fresh,
   LosesTokens, Node, Null, Error

\* The same for a class,
LEMMA ClassDeclIsSound ==
  ASSUME NEW open, NEW close
  PROVE  Sound("ClassDecl",
           <<Eat({"class"}, 2, Null), Eat({"id"}, 3, Error), Eat(open, 4, Error),
            Call("Decl", 4, 5), Eat(close, Node, Error)>>)
BY EatHas, CallHas, ReportHas, Names DEF Sound, Linked, Careful, Fresh,
   LosesTokens, Node, Null, Error

\* a block,
LEMMA StmtsBlockIsSound ==
  ASSUME NEW open, NEW close
  PROVE  Sound("StmtsBlock",
           <<Eat(open, 2, Null), Call("Stmt", 2, 3), Eat(close, Node, Error)>>)
BY EatHas, CallHas, ReportHas, Names DEF Sound, Linked, Careful, Fresh,
   LosesTokens, Node, Null, Error

\* the arguments of a call,
LEMMA FuncCallExprIsSound ==
  ASSUME NEW open, NEW comma, NEW close
  PROVE  Sound("FuncCallExpr",
           <<Eat(open, 2, Null), Call("ArguCallExpr", 3, 5), Eat(comma, 4, 5),
            Call("ArguCallExpr", 3, Error), Eat(close, Node, Error)>>)
BY EatHas, CallHas, ReportHas, Names DEF Sound, Linked, Careful, Fresh,
   LosesTokens, Node, Null, Error

\* and an array or a dictionary.
LEMMA ArrayOrDictIsSound ==
  ASSUME NEW open, NEW comma, NEW colon, NEW close
  PROVE  Sound("ArrayOrDict",
           <<Eat(open, 2, Null),
            Eat(colon, 3, 5), Eat(close, Node, 4), Report(Node),
            Call("Expr", 6, 7), Eat(colon, 8, 10), Eat(colon, 9, 17),
            Call("Expr", 13, Error), Call("Expr", 17, Error),
            Eat(comma, 11, 17), Call("Expr", 10, 12), Report(17),
            Eat(comma, 14, 17), Call("Expr", 15, 12), Eat(colon, 16, 12), Call("Expr", 13, 12),
            Eat(close, Node, 4)>>)
BY EatHas, CallHas, ReportHas, Names DEF Sound, Linked, Careful, Fresh,
   LosesTokens, Node, Null, Error

\* So every parse function is.
LEMMA FunctionsAreSound == \A fn \in DOMAIN Functions : Sound(fn, Functions[fn])
<1>1. Sound("ParameterClause", ParameterClause)
  BY ParameterClauseIsSound, Zenon DEF ParameterClause
<1>2. Sound("ClassDecl", ClassDecl)
  BY ClassDeclIsSound, Zenon DEF ClassDecl
<1>3. Sound("StmtsBlock", StmtsBlock)
  BY StmtsBlockIsSound, Zenon DEF StmtsBlock
<1>4. Sound("FuncCallExpr", FuncCallExpr)
  BY FuncCallExprIsSound, Zenon DEF FuncCallExpr
<1>5. Sound("ArrayOrDict", ArrayOrDict)
  BY ArrayOrDictIsSound, Zenon DEF ArrayOrDict
<1> USE EatHas, CallHas, ReportHas, Names
    DEF Sound, Linked, Careful, Fresh, LosesTokens, AtEnd, Previous, Node, Null, Error
<1>6. Sound("Parse", Parse)
  BY DEF Parse
<1>7. Sound("Decl", Decl)
  BY DEF Decl, FirstOf
<1>8. Sound("FuncDecl", FuncDecl)
  BY DEF FuncDecl
<1>9. Sound("ConstructorDecl", ConstructorDecl)
  BY DEF ConstructorDecl
<1>10. Sound("FileImport", FileImport)
  BY DEF FileImport
<1>11. Sound("Stmt", Stmt)
  BY DEF Stmt, FirstOf
<1>12. Sound("LoopStmt", LoopStmt)
  BY DEF LoopStmt
<1>13. Sound("WhileStmt", WhileStmt)
  BY DEF WhileStmt
<1>14. Sound("IfStmt", IfStmt)
  BY DEF IfStmt
<1>15. Sound("ReturnStmt", ReturnStmt)
  BY DEF ReturnStmt
<1>16. Sound("Pattern", Pattern)
  BY DEF Pattern
<1>17. Sound("TypeAnnotation", TypeAnnotation)
  BY DEF TypeAnnotation
<1>18. Sound("Type", Type)
  BY DEF Type
<1>19. Sound("TypeArray", TypeArray)
  BY DEF TypeArray
<1>20. Sound("Expr", Expr)
  BY DEF Expr
<1>21. Sound("BinaryExpr", BinaryExpr)
  BY DEF BinaryExpr
<1>22. Sound("PrefixExpr", PrefixExpr)
  BY DEF PrefixExpr
<1>23. Sound("PostfixExpr", PostfixExpr)
  BY DEF PostfixExpr
<1>24. Sound("MemberAccessExpr", MemberAccessExpr)
  BY DEF MemberAccessExpr
<1>25. Sound("SubscriptExpr", SubscriptExpr)
  BY DEF SubscriptExpr
<1>26. Sound("ArguCallExpr", ArguCallExpr)
  BY DEF ArguCallExpr
<1>27. Sound("PrimaryExpr", PrimaryExpr)
  BY DEF PrimaryExpr
<1>28. Sound("SelfExpr", SelfExpr)
  BY DEF SelfExpr
<1>29. Sound("Parenthesized", Parenthesized)
  BY DEF Parenthesized
<1>30. Sound("ConstDecl", VariableDecl("let")) /\ Sound("VarDecl", VariableDecl("var"))
  BY DEF VariableDecl
<1> HIDE EatHas, CallHas, ReportHas DEF Sound
<1>31. QED
  BY <1>1, <1>2, <1>3, <1>4, <1>5, <1>6, <1>7, <1>8, <1>9, <1>10, <1>11, <1>12, <1>13,
     <1>14, <1>15, <1>16, <1>17, <1>18, <1>19, <1>20, <1>21, <1>22, <1>23, <1>24, <1>25,
     <1>26, <1>27, <1>28, <1>29, <1>30, Names DEF Functions

\* The steps of an expression that may begin with an operator.
LEMMA PrefixSteps ==
  LET steps == Functions["PrefixExpr"]
  IN /\ DOMAIN steps = 1..4
     /\ steps[1] = Eat(AnyOperator, 2, 3)
     /\ steps[2] = Call("PostfixExpr", Node, 4)
     /\ steps[3] = Call("PostfixExpr", Node, Null)
     /\ steps[4] = Previous(Null)
BY DEF Functions, PrefixExpr

-----------------------------------------------------------------------------
(* The calls under way. *)

Frame == [fn : DOMAIN Functions, at : Int, start : Nat]

\* Where the cursor was when the call went on to the next, or is.
Cursor(i) == IF i < Len(calls) THEN calls[i + 1].start ELSE iterator

\* A call that waits is at the step that made the next one.
Waits(i) ==
  i < Len(calls) =>
    LET c == calls[i]
    IN /\ c.at > 0
       /\ Functions[c.fn][c.at].do = "call"
       /\ Functions[c.fn][c.at].arg = calls[i + 1].fn

\* It has not stepped back behind its start; without a report, a function that has
\* got nothing is at its start; and one that may step back is behind an operator.
Keeps(i) ==
  LET c == calls[i]
  IN /\ c.start <= Cursor(i)
     /\ ~ reported /\ c.fn \notin LosesTokens /\ c.at \in Fresh(c.fn) \union {Null}
           => Cursor(i) = c.start
     /\ c.fn = "PrefixExpr" /\ c.at \in {2, 4}
           => c.start < Cursor(i) /\ (~ reported => Cursor(i) = c.start + 1)

IInv ==
  /\ TypeOK
  /\ family \in Families
  /\ calls \in Seq(Frame)
  /\ \A i \in DOMAIN calls : Waits(i) /\ Keeps(i)

\* A step's targets, and what a function that keeps its tokens does at it.
LEMMA StepsAreSound ==
  ASSUME NEW fn \in DOMAIN Functions, NEW k \in DOMAIN Functions[fn]
  PROVE  LET s    == Functions[fn][k]
             next == DOMAIN Functions[fn] \union {Node, Null, Error}
             back == Fresh(fn) \union {Null}
         IN /\ k \in Int /\ k > 0
            /\ s.do \in {"eat", "end", "call", "report", "previous"}
            /\ s.ok \in next
            /\ s.do \in {"eat", "end", "call"} => s.fail \in next
            /\ s.do = "call" => s.arg \in DOMAIN Functions
            /\ s.do \in {"end", "report"} => s.ok # Error
            /\ s.do = "end" => s.fail # Error
            /\ s.do = "previous" => fn = "PrefixExpr" /\ k = 4 /\ s.ok = Null
            /\ fn \notin LosesTokens =>
                 /\ s.do # "end"
                 /\ s.do \in {"eat", "call", "report"} => s.ok \notin back
                 /\ s.do \in {"eat", "call"} /\ s.fail \in back =>
                      /\ k \in Fresh(fn)
                      /\ s.do = "call" => s.arg \notin LosesTokens
BY FunctionsAreSound DEF Sound, Linked, Careful

\* The call on top, and the calls without it.
LEMMA TopOfCalls ==
  ASSUME IInv
  PROVE  /\ Len(calls) \in Nat \ {0} /\ DOMAIN calls = 1..Len(calls)
         /\ Top = calls[Len(calls)]
         /\ \A i \in DOMAIN calls :
              /\ calls[i] \in Frame
              /\ calls[i].at > 0 => calls[i].at \in DOMAIN Functions[calls[i].fn]
<1>1. calls \in Seq(Frame) /\ calls # <<>>
  BY DEF IInv, TypeOK
<1>2. Len(calls) \in Nat \ {0} /\ DOMAIN calls = 1..Len(calls)
  BY <1>1, EmptySeq, LenProperties
<1>3. \A i \in DOMAIN calls : calls[i] \in Frame
  BY <1>1, <1>2, ElementOfSeq
<1>4. \A i \in DOMAIN calls : calls[i].at \in {0, -1} \union DOMAIN Functions[calls[i].fn]
  BY DEF IInv, TypeOK, Node, Null
<1>5. \A i \in DOMAIN calls : calls[i].at > 0 => calls[i].at \in DOMAIN Functions[calls[i].fn]
  BY <1>4
<1>6. QED
  BY <1>2, <1>3, <1>5 DEF Top, Last

\* A row of calls, the last of them at another step.
LEMMA OthersStay ==
  ASSUME NEW c \in Seq(Frame), NEW m \in Nat \ {0}, Len(c) = m, c[m] \in Frame,
         NEW at \in Int
  PROVE  LET d == [c EXCEPT ![m].at = at]
         IN /\ d \in Seq(Frame) /\ Len(d) = m
            /\ \A i \in 1..(m - 1) : d[i] = c[i]
            /\ d[m] = [c[m] EXCEPT !.at = at]
<1>1. [c[m] EXCEPT !.at = at] \in Frame
  BY DEF Frame
<1> DEFINE d == [c EXCEPT ![m].at = at]
<1>2. /\ d \in Seq(Frame) /\ Len(d) = m
      /\ \A j \in 1..m : d[j] = IF j = m THEN [c[m] EXCEPT !.at = at] ELSE c[j]
  BY <1>1, ExceptSeq
<1>3. QED
  BY <1>2

\* The first m calls go on, the last of them at a step that its list allows.
LEMMA GoingOn ==
  ASSUME IInv, NEW m \in DOMAIN calls,
         NEW next \in DOMAIN Functions[calls[m].fn] \union {Node, Null, Error},
         NEW to, to = IF next = Error THEN Null ELSE next,
         calls' \in Seq(Frame), Len(calls') = m,
         \A i \in 1..(m - 1) : calls'[i] = calls[i],
         calls[m] \in Frame, calls'[m] = [calls[m] EXCEPT !.at = to],
         UNCHANGED <<family, text>>,
         complete' \in BOOLEAN, reported' \in BOOLEAN, reported => reported',
         next = Error => reported',
         iterator' \in 1..(Len(text) + 1),
         calls[m].start <= iterator',
         ~ reported' /\ calls[m].fn \notin LosesTokens /\ next \in Fresh(calls[m].fn) \union {Null}
           => iterator' = calls[m].start,
         calls[m].fn = "PrefixExpr" /\ next \in {2, 4}
           => calls[m].start < iterator' /\ (~ reported' => iterator' = calls[m].start + 1)
  PROVE  IInv'
<1>1. /\ Len(calls) \in Nat \ {0} /\ DOMAIN calls = 1..Len(calls) /\ m \in 1..Len(calls)
      /\ \A i \in DOMAIN calls : calls[i] \in Frame
  BY TopOfCalls
<1>2. to \in {Node, Null} \union DOMAIN Functions[calls[m].fn] /\ to \in Int
  <2>1. \A k \in DOMAIN Functions[calls[m].fn] : k \in Int
    BY <1>1, StepsAreSound DEF Frame
  <2>2. QED
    BY <2>1 DEF Node, Null, Error
<1>3. DOMAIN calls' = 1..m
  BY LenProperties
<1>4. calls'[m].fn = calls[m].fn /\ calls'[m].at = to /\ calls'[m].start = calls[m].start
  BY DEF Frame
<1>5. TypeOK'
  <2>1. ASSUME NEW c \in 1..m
        PROVE  /\ calls'[c].fn \in DOMAIN Functions
               /\ calls'[c].at \in {Node, Null} \union DOMAIN Functions[calls'[c].fn]
               /\ calls'[c].start \in 1..(Len(text) + 1)
    <3>1. /\ calls[c].fn \in DOMAIN Functions
          /\ calls[c].at \in {Node, Null} \union DOMAIN Functions[calls[c].fn]
          /\ calls[c].start \in 1..(Len(text) + 1)
      BY <1>1 DEF IInv, TypeOK
    <3>2. c # m => calls'[c] = calls[c]
      OBVIOUS
    <3>3. QED
      BY <1>2, <1>4, <3>1, <3>2
  <2>2. calls' # <<>>
    BY <1>1
  <2>3. QED
    BY <1>3, <2>1, <2>2 DEF IInv, TypeOK
<1>6. ASSUME NEW i \in 1..m
      PROVE  Waits(i)' /\ Keeps(i)'
  <2>1. CASE i < m
    <3>1. calls'[i + 1].start = calls[i + 1].start /\ calls'[i + 1].fn = calls[i + 1].fn
      <4>1. i + 1 = m \/ i + 1 \in 1..(m - 1)
        BY <1>1, <2>1
      <4>2. QED
        BY <1>4, <4>1
    <3>2. Cursor(i)' = Cursor(i) /\ calls'[i] = calls[i]
      BY <1>1, <1>3, <2>1, <3>1 DEF Cursor
    <3>3. Waits(i) /\ Keeps(i) /\ i < Len(calls)
      BY <1>1, <2>1 DEF IInv
    <3>4. Waits(i)'
      BY <1>1, <1>3, <2>1, <3>1, <3>2, <3>3 DEF Waits
    <3>5. Keeps(i)'
      BY <3>2, <3>3 DEF Keeps
    <3>6. QED
      BY <3>4, <3>5
  <2>2. CASE i = m
    <3>1. Waits(i)'
      BY <2>2 DEF Waits
    <3>2. Cursor(i)' = iterator'
      BY <2>2 DEF Cursor
    <3>3. ~ reported' => to = next
      OBVIOUS
    <3>4. to \in {2, 4} => to = next
      BY DEF Null
    <3>5. Keeps(m)'
      BY <1>4, <2>2, <3>2, <3>3, <3>4 DEF Keeps
    <3>6. QED
      BY <2>2, <3>1, <3>5
  <2>3. QED
    BY <2>1, <2>2
<1>7. QED
  BY <1>3, <1>5, <1>6 DEF IInv

\* A step of the call on top that goes on, in the terms of the lemma before.
LEMMA TopGoesOn ==
  ASSUME IInv, Top.at > 0, Step.do # "call",
         NEW next \in DOMAIN Functions[Top.fn] \union {Node, Null, Error}, GoOn(next),
         UNCHANGED <<family, text>>,
         complete' \in BOOLEAN, reported' \in BOOLEAN, reported => reported',
         next = Error => reported',
         iterator' \in 1..(Len(text) + 1),
         Top.start <= iterator',
         ~ reported' /\ Top.fn \notin LosesTokens /\ next \in Fresh(Top.fn) \union {Null}
           => iterator' = Top.start,
         Top.fn = "PrefixExpr" /\ next \in {2, 4}
           => Top.start < iterator' /\ (~ reported' => iterator' = Top.start + 1)
  PROVE  IInv'
<1> DEFINE n == Len(calls)
           to == IF next = Error THEN Null ELSE next
<1>1. /\ n \in Nat \ {0} /\ DOMAIN calls = 1..n /\ Len(calls) = n
      /\ Top = calls[n] /\ calls[n] \in Frame
  BY TopOfCalls
<1>2. to \in Int
  <2>1. \A k \in DOMAIN Functions[Top.fn] : k \in Int
    BY <1>1, StepsAreSound DEF Frame
  <2>2. QED
    BY <2>1 DEF Node, Null, Error
<1>3. calls \in Seq(Frame) /\ calls' = [calls EXCEPT ![n].at = to]
  BY DEF IInv, GoOn
<1> HIDE DEF n, to
<1>4. /\ calls' \in Seq(Frame) /\ Len(calls') = n
      /\ \A i \in 1..(n - 1) : calls'[i] = calls[i]
      /\ calls'[n] = [calls[n] EXCEPT !.at = to]
  <2>1. LET d == [calls EXCEPT ![n].at = to]
        IN /\ d \in Seq(Frame) /\ Len(d) = n
           /\ \A i \in 1..(n - 1) : d[i] = calls[i]
           /\ d[n] = [calls[n] EXCEPT !.at = to]
    BY <1>1, <1>2, <1>3, OthersStay
  <2>2. QED
    BY <1>3, <2>1
<1>5. n \in DOMAIN calls /\ to = IF next = Error THEN Null ELSE next
  BY <1>1 DEF to
<1>6. QED
  BY <1>1, <1>4, <1>5, GoingOn, SMTT(30)

\* The next token, or the end of the text.
LEMMA LookKeeps ==
  ASSUME IInv, Look
  PROVE  IInv'
<1>1. UNCHANGED <<family, iterator, reported, calls>> /\ complete' \in BOOLEAN
  BY DEF Look, IInv, TypeOK
<1>2. /\ text' \in Seq(family.tokens \union ToSet(family.begin)) /\ Len(text') <= family.length
      /\ Len(text) \in Nat /\ Len(text') \in Nat /\ Len(text) <= Len(text')
  <2>1. /\ text \in Seq(family.tokens \union ToSet(family.begin)) /\ Len(text) <= family.length
        /\ Len(text) \in Nat /\ family.length \in Nat
    BY LenProperties, FamiliesAssumption DEF IInv, TypeOK
  <2>2. CASE text' = text
    BY <1>1, <2>1, <2>2
  <2>3. CASE /\ Len(text) < family.length
             /\ \E t \in family.tokens : text' = Append(text, t)
    <3>1. PICK t \in family.tokens : text' = Append(text, t)
      BY <2>3
    <3>2. Len(text') = Len(text) + 1 /\ text' \in Seq(family.tokens \union ToSet(family.begin))
      BY <2>1, <3>1, AppendProperties
    <3>3. QED
      BY <2>1, <2>3, <3>2
  <2>4. QED
    BY <2>2, <2>3 DEF Look
<1>3. TypeOK'
  BY <1>1, <1>2 DEF IInv, TypeOK
<1>4. \A i \in DOMAIN calls : (Waits(i) <=> Waits(i)') /\ (Keeps(i) <=> Keeps(i)')
  BY <1>1 DEF Waits, Keeps, Cursor
<1>5. QED
  BY <1>1, <1>3, <1>4 DEF IInv

\* What the call on top is at.
LEMMA TopStep ==
  ASSUME IInv, Top.at > 0
  PROVE  /\ Top.fn \in DOMAIN Functions /\ Top.at \in DOMAIN Functions[Top.fn]
         /\ Top.start \in Nat /\ iterator \in Nat /\ Len(text) \in Nat
         /\ Top.start <= iterator
         /\ ~ reported /\ Top.fn \notin LosesTokens /\ Top.at \in Fresh(Top.fn)
              => iterator = Top.start
         /\ Top.fn = "PrefixExpr" /\ Top.at \in {2, 4}
              => Top.start < iterator /\ (~ reported => iterator = Top.start + 1)
<1> DEFINE n == Len(calls)
<1>1. n \in DOMAIN calls /\ Top = calls[n] /\ calls[n] \in Frame /\ n \in Nat
  BY TopOfCalls
<1>2. Keeps(n) /\ Cursor(n) = iterator
  BY <1>1 DEF IInv, Cursor
<1>3. iterator \in Nat /\ Len(text) \in Nat
  BY LenProperties DEF IInv, TypeOK
<1>4. Top.fn \in DOMAIN Functions /\ Top.start \in Nat /\ Top.at \in DOMAIN Functions[Top.fn]
  BY <1>1, TopOfCalls DEF Frame
<1>5. QED
  BY <1>1, <1>2, <1>3, <1>4 DEF Keeps

-----------------------------------------------------------------------------
(* The parser's steps. *)

\* Eating a token, or finding another one.
LEMMA EatKeeps ==
  ASSUME IInv, EatToken
  PROVE  IInv'
<1> DEFINE eaten == iterator <= Len(text) /\ text[iterator] \in Step.arg
           next  == IF eaten THEN Step.ok ELSE Step.fail
<1>1. /\ Top.at > 0 /\ Step.do = "eat" /\ UNCHANGED <<family, text, complete>>
      /\ iterator' = IF eaten THEN iterator + 1 ELSE iterator
      /\ reported' = (reported \/ next = Error)
      /\ GoOn(next)
  BY DEF EatToken, Doing, Step
<1>2. /\ Step = Functions[Top.fn][Top.at] /\ complete \in BOOLEAN /\ reported \in BOOLEAN
      /\ iterator \in 1..(Len(text) + 1)
  BY DEF Step, IInv, TypeOK
<1>3. /\ next \in DOMAIN Functions[Top.fn] \union {Node, Null, Error}
      /\ Top.fn \notin LosesTokens /\ next \in Fresh(Top.fn) \union {Null}
            => ~ eaten /\ Top.at \in Fresh(Top.fn)
  BY <1>1, <1>2, TopStep, StepsAreSound
<1>4. Top.fn = "PrefixExpr" /\ next \in {2, 4} => eaten /\ Top.at \in Fresh(Top.fn)
  BY <1>1, <1>2, TopStep, PrefixSteps, EatHas, CallHas DEF Fresh, Null, Node, Previous
<1> HIDE DEF eaten, next
<1>5. iterator' \in 1..(Len(text) + 1) /\ Top.start <= iterator'
  BY <1>1, <1>2, TopStep DEF eaten
<1>6. ~ reported' /\ Top.fn \notin LosesTokens /\ next \in Fresh(Top.fn) \union {Null}
        => iterator' = Top.start
  BY <1>1, <1>3, TopStep
<1>7. Top.fn = "PrefixExpr" /\ next \in {2, 4}
        => Top.start < iterator' /\ (~ reported' => iterator' = Top.start + 1)
  <2> SUFFICES ASSUME Top.fn = "PrefixExpr", next \in {2, 4}
               PROVE  Top.start < iterator' /\ (~ reported' => iterator' = Top.start + 1)
    OBVIOUS
  <2>1. iterator' = iterator + 1 /\ Top.at \in Fresh(Top.fn) /\ Top.fn \notin LosesTokens
    BY <1>1, <1>4 DEF LosesTokens
  <2>2. ~ reported' => ~ reported
    BY <1>1, <1>2
  <2>3. QED
    BY <1>1, <2>1, <2>2, TopStep
<1>8. reported' \in BOOLEAN /\ (reported => reported') /\ (next = Error => reported')
  BY <1>1
<1>9. QED
  BY <1>1, <1>2, <1>3, <1>5, <1>6, <1>7, <1>8, TopGoesOn

\* Asking for the end, as the function for the whole text does.
LEMMA AskEndKeeps ==
  ASSUME IInv, AskEnd
  PROVE  IInv'
<1> DEFINE next == IF iterator > Len(text) THEN Step.ok ELSE Step.fail
<1>1. /\ Top.at > 0 /\ Step.do = "end" /\ UNCHANGED <<family, text, complete, iterator, reported>>
      /\ GoOn(next)
  BY DEF AskEnd, Doing, Step
<1>2. /\ Step = Functions[Top.fn][Top.at] /\ complete \in BOOLEAN /\ reported \in BOOLEAN
      /\ iterator \in 1..(Len(text) + 1)
  BY DEF Step, IInv, TypeOK
<1>3. /\ next \in DOMAIN Functions[Top.fn] \union {Node, Null, Error} /\ next # Error
      /\ Top.fn \in LosesTokens
  BY <1>1, <1>2, TopStep, StepsAreSound
<1> HIDE DEF next
<1>4. Top.fn # "PrefixExpr"
  BY <1>3 DEF LosesTokens
<1>5. QED
  BY <1>1, <1>2, <1>3, <1>4, TopStep, TopGoesOn

\* Reporting an error.
LEMMA ReportKeeps ==
  ASSUME IInv, ReportError
  PROVE  IInv'
<1>1. /\ Top.at > 0 /\ Step.do = "report" /\ UNCHANGED <<family, text, complete, iterator>>
      /\ GoOn(Step.ok) /\ reported' = TRUE
  BY DEF ReportError, Doing, Step
<1>2. /\ Step = Functions[Top.fn][Top.at] /\ complete \in BOOLEAN
      /\ iterator \in 1..(Len(text) + 1)
  BY DEF Step, IInv, TypeOK
<1>3. Step.ok \in DOMAIN Functions[Top.fn] \union {Node, Null, Error} /\ Step.ok # Error
  BY <1>1, <1>2, TopStep, StepsAreSound
<1>4. Top.fn # "PrefixExpr"
  BY <1>1, <1>2, TopStep, PrefixSteps, EatHas, CallHas DEF Previous
<1>5. QED
  BY <1>1, <1>2, <1>3, <1>4, TopStep, TopGoesOn

\* Giving the operator back.
LEMMA StepBackKeeps ==
  ASSUME IInv, StepBack
  PROVE  IInv'
<1>1. /\ Top.at > 0 /\ Step.do = "previous" /\ UNCHANGED <<family, text, complete, reported>>
      /\ GoOn(Step.ok) /\ iterator' = iterator - 1
  BY DEF StepBack, Doing, Step
<1>2. /\ Step = Functions[Top.fn][Top.at] /\ complete \in BOOLEAN /\ reported \in BOOLEAN
      /\ iterator \in 1..(Len(text) + 1)
  BY DEF Step, IInv, TypeOK
<1>3. Top.fn = "PrefixExpr" /\ Top.at = 4 /\ Step.ok = Null
  BY <1>1, <1>2, TopStep, StepsAreSound
<1>4. /\ Top.start <= iterator' /\ (~ reported => iterator' = Top.start)
      /\ iterator' \in 1..(Len(text) + 1)
  <2>1. Top.start >= 1
    BY TopOfCalls DEF IInv, TypeOK
  <2>2. QED
    BY <1>1, <1>2, <1>3, <2>1, TopStep
<1>5. QED
  BY <1>1, <1>2, <1>3, <1>4, TopGoesOn DEF Null, Error

\* A call of another function.
LEMMA CallKeeps ==
  ASSUME IInv, CallFunction
  PROVE  IInv'
<1> DEFINE n == Len(calls)
           b == Begin(Step.arg)
<1>1. /\ Top.at > 0 /\ Step.do = "call" /\ UNCHANGED <<family, text, complete, iterator, reported>>
      /\ calls' = Append(calls, b)
  BY DEF CallFunction, Doing, Step
<1>2. /\ n \in Nat \ {0} /\ DOMAIN calls = 1..n /\ Top = calls[n]
      /\ calls \in Seq(Frame) /\ iterator \in 1..(Len(text) + 1) /\ iterator \in Nat
      /\ Step = Functions[Top.fn][Top.at]
  BY TopOfCalls, TopStep, <1>1 DEF IInv, TypeOK, Step
<1>3. Step.arg \in DOMAIN Functions
  BY <1>1, <1>2, TopStep, StepsAreSound
<1>4. b \in Frame /\ b.fn = Step.arg /\ b.at = 1 /\ b.start = iterator
  BY <1>2, <1>3 DEF Begin, Frame
<1> HIDE DEF b
<1>5. /\ calls' \in Seq(Frame) /\ Len(calls') = n + 1 /\ DOMAIN calls' = 1..(n + 1)
      /\ calls'[n + 1] = b /\ \A i \in 1..n : calls'[i] = calls[i]
  BY <1>1, <1>2, <1>4, AppendProperties
<1>6. 1 \in DOMAIN Functions[b.fn]
  BY <1>3, <1>4, FunctionsAreSound DEF Sound, Linked
<1>7. TypeOK'
  <2>1. ASSUME NEW c \in 1..(n + 1)
        PROVE  /\ calls'[c].fn \in DOMAIN Functions
               /\ calls'[c].at \in {Node, Null} \union DOMAIN Functions[calls'[c].fn]
               /\ calls'[c].start \in 1..(Len(text) + 1)
    <3>1. CASE c = n + 1
      BY <1>2, <1>3, <1>4, <1>5, <1>6, <3>1
    <3>2. CASE c \in 1..n
      BY <1>2, <1>5, <3>2 DEF IInv, TypeOK
    <3>3. QED
      BY <1>2, <3>1, <3>2
  <2>2. calls' # <<>>
    BY <1>2, <1>5
  <2>3. QED
    BY <1>1, <1>5, <2>1, <2>2 DEF IInv, TypeOK
<1>8. ASSUME NEW i \in 1..(n + 1)
      PROVE  Waits(i)' /\ Keeps(i)'
  <2>1. CASE i < n
    <3>1. calls'[i] = calls[i] /\ calls'[i + 1] = calls[i + 1] /\ i < Len(calls) /\ i < Len(calls')
      BY <1>2, <1>5, <2>1
    <3>2. Waits(i) /\ Keeps(i)
      BY <1>2, <2>1 DEF IInv
    <3>3. QED
      BY <1>1, <3>1, <3>2 DEF Waits, Keeps, Cursor
  <2>2. CASE i = n
    <3>1. calls'[i] = Top /\ calls'[i + 1] = b /\ i < Len(calls')
      BY <1>2, <1>5, <2>2
    <3>2. Waits(i)'
      BY <1>1, <1>2, <1>4, <3>1 DEF Waits
    <3>3. Cursor(i)' = iterator /\ Cursor(i) = iterator /\ calls[i] = Top
      BY <1>2, <1>4, <3>1, <2>2 DEF Cursor
    <3>4. Keeps(i)
      BY <1>2, <2>2 DEF IInv
    <3>5. QED
      BY <1>1, <3>1, <3>2, <3>3, <3>4 DEF Keeps
  <2>3. CASE i = n + 1
    <3>1. calls'[i] = b /\ ~ (i < Len(calls'))
      BY <1>2, <1>5, <2>3
    <3>2. Cursor(i)' = iterator
      BY <1>1, <3>1 DEF Cursor
    <3>3. Waits(i)'
      BY <3>1 DEF Waits
    <3>4. b.at \notin {2, 4} /\ b.start = iterator
      BY <1>4
    <3>5. Keeps(i)'
      BY <1>2, <3>1, <3>2, <3>4 DEF Keeps
    <3>6. QED
      BY <3>3, <3>5
  <2>4. i < n \/ i = n \/ i = n + 1
    <3>1. n \in Nat
      BY <1>2
    <3> HIDE DEF n
    <3>2. QED
      BY <3>1
  <2>5. QED
    BY <2>1, <2>2, <2>3, <2>4
<1>9. QED
  BY <1>1, <1>5, <1>7, <1>8 DEF IInv

\* The caller goes on with what the call on top returns.
LEMMA ReturnKeeps ==
  ASSUME IInv, Return
  PROVE  IInv'
<1> DEFINE m == Len(calls) - 1
           step == Functions[calls[m].fn][calls[m].at]
           next == IF Top.at = Node THEN step.ok ELSE step.fail
           to   == IF next = Error THEN Null ELSE next
<1>1. /\ Len(calls) > 1 /\ Top.at \in {Node, Null}
      /\ UNCHANGED <<family, text, complete, iterator>>
      /\ reported' = (reported \/ next = Error)
      /\ calls' = [Front(calls) EXCEPT ![m].at = to]
  BY DEF Return
<1>2. /\ Len(calls) \in Nat \ {0} /\ DOMAIN calls = 1..Len(calls) /\ Top = calls[m + 1]
      /\ calls \in Seq(Frame) /\ complete \in BOOLEAN /\ reported \in BOOLEAN
      /\ iterator \in 1..(Len(text) + 1) /\ iterator \in Nat
      /\ m \in Nat \ {0} /\ m \in DOMAIN calls /\ m < Len(calls) /\ m + 1 \in DOMAIN calls
      /\ m + 1 = Len(calls) /\ calls[m] \in Frame /\ calls[m + 1] \in Frame
  <2>1. /\ Len(calls) \in Nat \ {0} /\ DOMAIN calls = 1..Len(calls) /\ Top = calls[Len(calls)]
        /\ \A i \in DOMAIN calls : calls[i] \in Frame
    BY TopOfCalls
  <2>2. Len(calls) > 1
    BY <1>1
  <2>3. /\ m \in Nat \ {0} /\ m \in 1..Len(calls) /\ m < Len(calls) /\ m + 1 \in 1..Len(calls)
        /\ m + 1 = Len(calls)
    BY <2>1, <2>2
  <2>4. /\ calls \in Seq(Frame) /\ complete \in BOOLEAN /\ reported \in BOOLEAN
        /\ iterator \in 1..(Len(text) + 1)
    BY DEF IInv, TypeOK
  <2> HIDE DEF m
  <2>5. iterator \in Nat
    BY <2>4
  <2>6. QED
    BY <2>1, <2>3, <2>4, <2>5
<1>3. /\ Waits(m) /\ Keeps(m) /\ Keeps(m + 1)
      /\ Cursor(m) = Top.start /\ Cursor(m + 1) = iterator
  BY <1>2 DEF IInv, Cursor
<1>4. /\ calls[m].fn \in DOMAIN Functions /\ calls[m].at \in DOMAIN Functions[calls[m].fn]
      /\ step.do = "call" /\ step.arg = Top.fn
  BY <1>2, <1>3, TopOfCalls DEF Waits, Frame
<1>5. /\ next \in DOMAIN Functions[calls[m].fn] \union {Node, Null, Error}
      /\ calls[m].fn \notin LosesTokens /\ next \in Fresh(calls[m].fn) \union {Null}
           => Top.at # Node /\ calls[m].at \in Fresh(calls[m].fn) /\ Top.fn \notin LosesTokens
  BY <1>4, StepsAreSound
<1>6. calls[m].fn = "PrefixExpr" /\ next \in {2, 4}
        => Top.at # Node /\ calls[m].at = 2 /\ Top.fn \notin LosesTokens
  BY <1>4, PrefixSteps, EatHas, CallHas DEF Null, Node, Previous, LosesTokens
<1> HIDE DEF step, next
<1>7. /\ calls[m].start <= Top.start /\ Top.start <= iterator
      /\ Top.start \in Nat /\ calls[m].start \in Nat
  BY <1>2, <1>3 DEF Keeps, Frame
<1>8. ~ reported' => ~ reported
  BY <1>1, <1>2
<1>9. Top.at # Node /\ ~ reported /\ Top.fn \notin LosesTokens => iterator = Top.start
  BY <1>1, <1>2, <1>3 DEF Keeps
<1>10. ~ reported' /\ calls[m].fn \notin LosesTokens /\ next \in Fresh(calls[m].fn) \union {Null}
         => iterator' = calls[m].start
  BY <1>1, <1>3, <1>5, <1>8, <1>9 DEF Keeps
<1>11. calls[m].fn = "PrefixExpr" /\ next \in {2, 4}
         => calls[m].start < iterator' /\ (~ reported' => iterator' = calls[m].start + 1)
  <2> SUFFICES ASSUME calls[m].fn = "PrefixExpr", next \in {2, 4}
               PROVE  calls[m].start < iterator' /\ (~ reported' => iterator' = calls[m].start + 1)
    OBVIOUS
  <2>1. calls[m].start < Top.start /\ (~ reported => Top.start = calls[m].start + 1)
    BY <1>3, <1>6 DEF Keeps
  <2>2. iterator' = iterator
    BY <1>1
  <2>3. iterator \in Nat
    BY <1>2
  <2>4. ~ reported' => iterator = Top.start
    BY <1>6, <1>8, <1>9
  <2>5. QED
    BY <1>7, <1>8, <2>1, <2>2, <2>3, <2>4
<1>12. /\ calls' \in Seq(Frame) /\ Len(calls') = m
       /\ \A i \in 1..(m - 1) : calls'[i] = calls[i]
       /\ calls'[m] = [calls[m] EXCEPT !.at = to]
  <2>1. /\ Front(calls) \in Seq(Frame) /\ Len(Front(calls)) = m
        /\ \A i \in 1..m : Front(calls)[i] = calls[i]
    BY <1>2, SubSeqProperties DEF Front
  <2>2. to \in Int
    <3>1. \A k \in DOMAIN Functions[calls[m].fn] : k \in Int
      BY <1>4, StepsAreSound
    <3>2. QED
      BY <1>5, <3>1 DEF Node, Null, Error
  <2> DEFINE c == Front(calls)
  <2>3. c[m] = calls[m] /\ c[m] \in Frame
    BY <1>2, <2>1
  <2>4. calls' = [c EXCEPT ![m].at = to]
    BY <1>1
  <2> HIDE DEF c, to, m
  <2>5. LET d == [c EXCEPT ![m].at = to]
        IN /\ d \in Seq(Frame) /\ Len(d) = m
           /\ \A i \in 1..(m - 1) : d[i] = c[i]
           /\ d[m] = [c[m] EXCEPT !.at = to]
    BY <1>2, <2>1, <2>2, <2>3, OthersStay DEF c
  <2>6. QED
    BY <2>1, <2>3, <2>4, <2>5 DEF c
<1>13. reported' \in BOOLEAN /\ (reported => reported') /\ (next = Error => reported')
  BY <1>1, <1>2
<1>14. calls[m].start <= iterator' /\ iterator' \in 1..(Len(text) + 1) /\ complete' \in BOOLEAN
  BY <1>1, <1>2, <1>7
<1>15. UNCHANGED <<family, text>> /\ m \in DOMAIN calls /\ calls[m] \in Frame
  BY <1>1, <1>2
<1>16. next \in DOMAIN Functions[calls[m].fn] \union {Node, Null, Error}
  BY <1>5
<1> HIDE DEF m
<1>17. QED
  BY <1>10, <1>11, <1>12, <1>13, <1>14, <1>15, <1>16, GoingOn, SMTT(30)

-----------------------------------------------------------------------------
(* The invariant, and what follows from it. *)

\* The parser begins with the function for the whole text.
LEMMA InitIInv == Init => IInv
<1> SUFFICES ASSUME Init PROVE IInv
  OBVIOUS
<1> DEFINE b == Begin("Parse")
<1>1. /\ family \in Families /\ text = family.begin /\ complete = FALSE /\ iterator = 1
      /\ reported = FALSE /\ calls = <<b>>
  BY DEF Init
<1>2. /\ text \in Seq(family.tokens \union ToSet(family.begin)) /\ Len(text) \in Nat
      /\ Len(text) <= family.length
  BY <1>1, FamiliesAssumption, LenProperties
<1>3. b \in Frame /\ b.fn = "Parse" /\ b.at = 1 /\ b.start = 1
  BY <1>1, Names DEF Begin, Frame
<1>4. "Parse" \in DOMAIN Functions /\ 1 \in DOMAIN Functions["Parse"]
  BY Names, FunctionsAreSound DEF Sound, Linked
<1> HIDE DEF b
<1>5. calls \in Seq(Frame) /\ Len(calls) = 1 /\ calls[1] = b /\ DOMAIN calls = {1}
  BY <1>1, <1>3
<1>6. TypeOK
  <2>1. \A c \in DOMAIN calls : /\ calls[c].fn = "Parse" /\ calls[c].at = 1 /\ calls[c].start = 1
    BY <1>3, <1>5
  <2>2. complete \in BOOLEAN /\ reported \in BOOLEAN /\ calls # <<>>
    BY <1>1
  <2>3. iterator \in 1..(Len(text) + 1) /\ 1 \in 1..(Len(text) + 1)
    BY <1>1, <1>2
  <2>4. QED
    BY <1>2, <1>4, <2>1, <2>2, <2>3 DEF TypeOK
<1>7. Waits(1) /\ Keeps(1)
  BY <1>1, <1>3, <1>5 DEF Waits, Keeps, Cursor
<1>8. QED
  BY <1>1, <1>5, <1>6, <1>7 DEF IInv

\* Every step keeps it.
LEMMA StepIInv == IInv /\ [Next]_vars => IInv'
<1> SUFFICES ASSUME IInv, [Next]_vars PROVE IInv'
  OBVIOUS
<1>1. CASE UNCHANGED vars
  <2>1. \A i \in DOMAIN calls : (Waits(i) <=> Waits(i)') /\ (Keeps(i) <=> Keeps(i)')
    BY <1>1 DEF vars, Waits, Keeps, Cursor
  <2>2. QED
    BY <1>1, <2>1 DEF vars, IInv, TypeOK
<1>2. QED
  BY <1>1, LookKeeps, EatKeeps, AskEndKeeps, CallKeeps, ReportKeeps, StepBackKeeps, ReturnKeeps
     DEF Next

\* In every state, for every text: the calls under way follow the lists of steps, and
\* no function that keeps its tokens has lost one without a report.
THEOREM CallsAreInOrder == Spec => []IInv
BY InitIInv, StepIInv, PTL DEF Spec

\* The cursor never leaves the text, not where the parser steps back either
\* (syntaxparser.cpp:527), and every call stands at a step of its function.
THEOREM ParserTypes == Spec => []TypeOK
<1>1. IInv => TypeOK
  BY DEF IInv
<1>2. QED
  BY <1>1, CallsAreInOrder, PTL

\* A function that returns nullptr without a report has left the cursor where it was,
\* with any nesting of functions: the caller may try the next alternative.
THEOREM NothingIsLost == Spec => []BacktracksOrReports
<1>1. IInv => BacktracksOrReports
  <2> SUFFICES ASSUME IInv PROVE BacktracksOrReports
    OBVIOUS
  <2>1. Len(calls) \in DOMAIN calls /\ Top = calls[Len(calls)] /\ Len(calls) \in Nat
    BY TopOfCalls
  <2>2. Keeps(Len(calls)) /\ Cursor(Len(calls)) = iterator
    BY <2>1 DEF IInv, Cursor
  <2>3. QED
    BY <2>1, <2>2 DEF Keeps, BacktracksOrReports
<1>2. QED
  BY <1>1, CallsAreInOrder, PTL
=============================================================================

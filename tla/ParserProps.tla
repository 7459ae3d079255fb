----------------------------- MODULE ParserProps ----------------------------
(***************************************************************************)
(* The grammar of grammar.md, as what may follow what, without a cursor    *)
(* that steps back; and the parser's properties against it.                *)
(***************************************************************************)
EXTENDS Parser

\* Forms of a grammar.
One(tokens)  == [form |-> "token", arg |-> tokens]
Rule(name)   == [form |-> "rule", arg |-> name]
Row(parts)   == [form |-> "row", arg |-> parts]
Either(choices) == [form |-> "any", arg |-> choices]
Many(part)   == [form |-> "many", arg |-> part]
NotNext(tokens) == [form |-> "notNext", arg |-> tokens]

Empty        == Row(<<>>)
Maybe(part)  == Either(<<Empty, part>>)
From(token, parts) == Row(<<One({token})>> \o parts)
List(part)   == Row(<<part, Many(From(",", <<part>>))>>)
Items(part)  == Maybe(List(part))
Name         == One({"id"})
Variable     == <<Rule("pattern"), Maybe(From("=", <<Rule("expr")>>))>>

\* grammar.md, without what the parser does not know (conditional operators,
\* dictionary types, type inheritance, a comma before a closing bracket).
Grammar(binaryOperators, between) ==
  [module |-> Rule("stmts"),
   stmts  |-> Maybe(Row(<<Rule("stmt"), Many(Row(<<between, Rule("stmt")>>))>>)),
   stmt   |-> Either(<<Rule("expr"), Rule("decl"), Rule("for"), Rule("if"), Rule("return"), Rule("while")>>),
   for    |-> From("for", <<Rule("pattern"), One({"in"}), Rule("expr"), Rule("block")>>),
   while  |-> From("while", <<Rule("expr"), Rule("block")>>),
   return |-> From("return", <<Maybe(Rule("expr"))>>),
   if     |-> From("if", <<Rule("expr"), Rule("block"),
                           Maybe(From("else", <<Either(<<Rule("if"), Rule("block")>>)>>))>>),
   block  |-> From("{", <<Rule("stmts"), One({"}"})>>),
   decl   |-> Either(<<From("let", Variable), From("var", Variable), From("import", <<One({"string"})>>),
                    From("func", <<Name, Rule("params"), Maybe(Rule("annotation")), Rule("block")>>),
                    From("init", <<Rule("params"), Rule("block")>>), Rule("class")>>),
   class  |-> From("class", <<Name, One({"{"}), Many(Rule("decl")), One({"}"})>>),
   params |-> From("(", <<Items(Rule("pattern")), One({")"})>>),
   pattern    |-> Row(<<Name, Maybe(Rule("annotation"))>>),
   annotation |-> From(":", <<Rule("type")>>),
   type   |-> Row(<<Either(<<Name, From("[", <<Rule("type"), One({"]"})>>)>>),
                    Maybe(One(PostfixOperator))>>),
   expr   |-> Row(<<Rule("prefix"), Many(Row(<<One(binaryOperators), Rule("prefix")>>))>>),
   prefix |-> Row(<<Maybe(One(AnyOperator)), Rule("primary"), Maybe(One(PostfixOperator)),
                    Many(Row(<<Rule("suffix"), Maybe(One(PostfixOperator))>>))>>),
   suffix |-> Either(<<From("(", <<Items(Row(<<Name, One({":"}), Rule("expr")>>)), One({")"})>>),
                    From("[", <<Rule("expr"), One({"]"})>>), From(".", <<Name>>)>>),
   primary |-> Either(<<One({"id"} \union Literal), From("self", <<Maybe(From(".", <<Name>>))>>),
                     From("(", <<Rule("expr"), One({")"})>>),
                     From("[", <<Either(<<Items(Rule("expr")), One({":"}), List(Rule("entry"))>>),
                                 One({"]"})>>)>>),
   entry  |-> Row(<<Rule("expr"), One({":"}), Rule("expr")>>)]

-----------------------------------------------------------------------------
\* Where a form that begins at i can end; one that the end of the text cuts short
\* ends at Cut.
Cut == Len(text) + 2

RECURSIVE Ends(_, _, _)
RECURSIVE EndsMany(_, _, _)

EndsMany(g, part, from) ==
  LET more == UNION {Ends(g, part, i) : i \in from} \ from
  IN IF more = {} THEN from ELSE EndsMany(g, part, from \union more)

Ends(g, f, i) ==
  IF i = Cut THEN {Cut} ELSE
  CASE f.form = "rule" -> Ends(g, g[f.arg], i)
    [] f.form = "any"  -> UNION {Ends(g, f.arg[k], i) : k \in DOMAIN f.arg}
    [] f.form = "row"  -> FoldLeft(LAMBDA from, part : UNION {Ends(g, part, j) : j \in from},
                                   {i}, f.arg)
    [] f.form = "many" -> EndsMany(g, f.arg, {i})
    [] f.form = "notNext" -> IF i <= Len(text) /\ text[i] \in f.arg THEN {} ELSE {i}
    [] f.form = "token" -> IF i > Len(text) THEN {Cut}
                           ELSE IF text[i] \in f.arg THEN {i + 1} ELSE {}

IsText(g)      == Len(text) + 1 \in Ends(g, Rule("module"), 1)
IsBeginning(g) == IsText(g) \/ Cut \in Ends(g, Rule("module"), 1)

Documented == Grammar(AnyOperator, Empty)

\* Where the parser gives up on an if or an initializer it reports nothing and
\* goes on behind what it has eaten; and a for needs no block.
Lenient ==
  LET init   == One({"init"})
      lost   == Either(<<init, Rule("lostIf"), Row(<<init, Rule("lostIf")>>)>>)
      more   ==
        [stmt   |-> Either(<<Row(<<init, Either(<<Rule("for"), Rule("if")>>)>>),
                          Row(<<lost, Either(<<Rule("return"), Rule("while")>>)>>)>>),
         for    |-> From("for", <<Rule("pattern"), One({"in"}), Rule("expr")>>),
         if     |-> From("if", <<Rule("expr"), Rule("block"), One({"else"}), Rule("lostIf"), Rule("block")>>),
         block  |-> From("{", <<Rule("stmts"), lost, One({"}"})>>),
         decl   |-> Row(<<init, From("import", <<One({"string"})>>)>>),
         class  |-> From("class", <<Name, One({"{"}), Many(Rule("decl")), init, One({"}"})>>)]
      lostIf ==
        From("if", <<Maybe(Row(<<Rule("expr"), Maybe(Row(<<Rule("block"), One({"else"}),
                                                           Maybe(Rule("lostIf"))>>))>>))>>)
  IN [lostIf |-> lostIf] @@
     [r \in DOMAIN Documented |->
        IF r \in DOMAIN more THEN Either(<<Documented[r], more[r]>>) ELSE Documented[r]]

\* An expression takes all it can, and `?` and `!` are postfix operators before they
\* are binary ones: the texts that this leaves their meaning.
Separated ==
  Grammar(AnyOperator \ PostfixOperator, NotNext({"(", "[", "."} \union AnyOperator))

-----------------------------------------------------------------------------
\* A text that passes without an error is one of the grammar, or of what the
\* parser abandons without a report: no token is skipped, no bracket left open.
AcceptedIsLenient == Accepted => IsText(Lenient)

\* The same without the second part: grammar.md.
AcceptedIsDocumented == Accepted => IsText(Documented)

\* An error is reported, or the text given up, only if no text of the grammar begins
\* like that: no choice of an alternative was made too early.
NoFalseAlarm ==
  [][LET wrong == \/ ~ reported /\ reported'
                  \/ Running /\ ~ Running' /\ ~ Accepted'
     IN wrong => ~ (IF complete THEN IsText(Separated) ELSE IsBeginning(Separated))]_vars

\* The parser comes to an end with every text.
Terminates == <>(~ Running)
=============================================================================

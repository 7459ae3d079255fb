----------------------------- MODULE MCCompiler -----------------------------
(***************************************************************************)
(* The programs TLC compiles, by what they are about: all texts of up to a *)
(* length over some statements and scopes.                                 *)
(***************************************************************************)
EXTENDS CompilerProps

Id(x) == Expression("id", Plain(x), <<>>, NoName)
Self(x) == Expression("self", Plain(x), <<>>, NoName)
One == Expression("int", NoName, <<>>, NoName)
Nil == Expression("nil", NoName, <<>>, NoName)
Text == Expression("string", NoName, <<>>, NoName)
True == Expression("bool", NoName, <<>>, NoName)
Unwrapped(e) == Expression("unwrap", NoName, <<e>>, NoName)
At(o, index) == Expression("at", NoName, <<Id(o), index>>, NoName)
Operated(l, op, r) == Expression("op", Plain(op), <<l, r>>, NoName)
Array(items) == Expression("array", NoName, items, NoName)
Dict(entries) == Expression("dict", NoName, entries, NoName)
NewDict == Expression("newdict", Plain("Int"), <<>>, Plain("Int"))
MemberOf(object, x) == Expression("member", Plain(x), <<object>>, NoName)
Call(f, labels, args) == Expression("call", Signature(f, labels), args, NoName)
Of(o, x) == MemberOf(Id(o), x)
MethodCall(o, f) == Expression("membercall", Signature(f, <<>>), <<>>, Plain(o))

Node(op, name) == Item(op, 0, name, <<>>, NoName, NoExpr, NoExpr)

Var(x, type, e) == [Node("var", x) EXCEPT !.type = type, !.expr = e]
Assigned(left, e) == [Node("assign", "") EXCEPT !.left = left, !.expr = e]
Called(e) == [Node("call", "") EXCEPT !.expr = e]
Shown(e) == Called(Call("print", <<"message">>, <<e>>))
Returned(e) == [Node("return", "") EXCEPT !.expr = e]
Func(f, params, type) == [Node("func", f) EXCEPT !.params = params, !.type = type]
Constructor(params) == [Node("init", "") EXCEPT !.params = params]
Class(k) == Node("class", k)
Block == Node("block", "")
End == Node("end", "")

Param(x, type) == <<Plain(x), type>>
Int1 == Plain("Int")

-----------------------------------------------------------------------------
\* The texts of n nodes: leaves and scopes by their number, 1 for an end.
RECURSIVE Texts(_, _, _)
Texts(n, leaves, scopes) ==
  IF n = 0 THEN {<<>>}
  ELSE LET shorter == [k \in 0..(n - 1) |-> Texts(k, leaves, scopes)]
       IN {<<l>> \o t : l \in leaves, t \in shorter[n - 1]} \union
          UNION {{<<o>> \o s \o <<1>> \o t : o \in scopes, s \in shorter[k],
                                             t \in shorter[n - 1 - k]} : k \in 0..(n - 1)}

\* Items, and the depth they are at.
RECURSIVE Nested(_, _)
Nested(items, depth) ==
  IF items = <<>> THEN <<>>
  ELSE LET item == Head(items)
           here == IF item.op = "end" THEN depth - 1 ELSE depth
       IN <<[item EXCEPT !.depth = here]>> \o
          Nested(Tail(items), IF item.op \in Scopes THEN here + 1 ELSE here)

\* What the grammar lets be: only declarations in a class, no constructor elsewhere
\* (the code of one reads behind an object), and no expression behind a return
\* that has none.
Grammatical(p) ==
  \A i \in 2..(Len(p) - 1) :
    LET inside == p[Max({s \in 1..(i - 1) : p[s].depth < p[i].depth})].op
    IN /\ inside = "class" => p[i].op \in {"var", "func", "init", "class", "end"}
       /\ p[i].op = "init" => inside = "class"
       /\ p[i].op = "return" /\ p[i].expr = NoExpr => p[i + 1].op \notin {"assign", "call"}

\* The programs of up to n of the leaves and scopes, between what is given.
ModulesOf(first, leaves, scopes, n, last) ==
  LET item == <<End>> \o leaves \o scopes
      texts == UNION {Texts(k, 2..(Len(leaves) + 1), (Len(leaves) + 2)..Len(item)) : k \in 0..n}
      modules == {Nested(<<Node("module", "main")>> \o first \o
                         [k \in DOMAIN t |-> item[t[k]]] \o last \o <<End>>, 0) : t \in texts}
  IN {p \in modules : Grammatical(p)}

\* Variables in blocks and functions, shadowed, used, assigned.
Variables ==
  ModulesOf(<<>>,
    <<Var("x", NoName, One), Var("y", NoName, Id("x")), Assigned(Id("x"), Id("y")),
      Shown(Id("x"))>>,
    <<Block, Func("f", <<>>, NoName), Func("g", <<Param("x", Int1)>>, NoName)>>, 4, <<>>)

\* Functions that call each other, with and without a result.
Calls ==
  ModulesOf(<<>>,
    <<Called(Call("f", <<>>, <<>>)), Var("y", NoName, Call("f", <<>>, <<>>)),
      Called(Call("g", <<"x">>, <<Id("x")>>)), Returned(One), Returned(NoExpr)>>,
    <<Func("f", <<>>, NoName), Func("f", <<>>, Int1), Func("g", <<Param("x", Int1)>>, NoName),
      Func("g", <<Param("x", OptionalOf("Int"))>>, Int1)>>, 3,
    <<Var("x", NoName, One), Called(Call("g", <<"x">>, <<Id("x")>>))>>)

\* What a class is made of, with two objects of it behind.
Members ==
  ModulesOf(<<Class("K"), Var("a", NoName, One)>>,
    <<Var("o", OptionalOf("K"), Nil), Assigned(Self("a"), Id("b")), Assigned(Id("a"), Id("b")),
      Shown(Id("a")), Called(Call("m", <<>>, <<>>)), Returned(Self("a"))>>,
    <<Constructor(<<>>), Constructor(<<Param("b", Int1)>>), Func("m", <<>>, NoName),
      Func("n", <<Param("b", Int1)>>, NoName)>>, 3,
    <<End, Var("k", NoName, Call("K", <<"b">>, <<One>>)), Called(MethodCall("k", "m"))>>)

\* What a module does with a class.
Objects ==
  ModulesOf(<<Class("K"), Var("a", NoName, One), Var("o", OptionalOf("K"), Nil),
              Constructor(<<Param("b", Int1)>>), Assigned(Self("a"), Id("b")), End,
              Func("m", <<>>, NoName), Shown(Id("o")), End, End>>,
    <<Var("k", NoName, Call("K", <<"b">>, <<One>>)), Var("l", NoName, Call("K", <<>>, <<>>)),
      Called(MethodCall("k", "m")), Shown(Of("k", "a")), Assigned(Of("k", "o"), Id("k")),
      Var("p", OptionalOf("K"), Id("k")), Shown(Of("p", "a"))>>,
    <<Class("K"), Func("f", <<Param("k", Plain("K"))>>, NoName)>>, 3, <<>>)

\* Annotations: optionals, unknown types, nil.
Types ==
  ModulesOf(<<>>,
    <<Var("x", OptionalOf("Int"), One), Var("x", NoName, Nil), Var("y", OptionalOf("String"), Nil),
      Var("z", Plain("Foo"), Id("x")), Var("z", OptionalOf("Foo"), Nil), Var("y", Int1, NoExpr),
      Var("w", NoName, NoExpr), Assigned(Id("x"), Nil), Shown(Id("x"))>>,
    <<Func("f", <<Param("x", OptionalOf("String"))>>, NoName),
      Func("f", <<Param("x", Int1), Param("x", Int1)>>, OptionalOf("Int")), Class("Foo")>>, 3,
    <<>>)

\* What a pass does not expect: a string in a local variable, an unknown parameter
\* type, a method with a result, a function named like a class.
Surprises ==
  ModulesOf(<<>>,
    <<Shown(Id("x")), Returned(Id("x")), Var("y", NoName, Id("x"))>>,
    <<Func("f", <<Param("x", Plain("String"))>>, NoName), Func("f", <<Param("x", Plain("Foo"))>>, NoName),
      Func("f", <<Param("x", OptionalOf("Foo"))>>, NoName), Func("K", <<>>, NoName),
      Func("m", <<>>, Int1), Class("K")>>, 3, <<>>)

\* Strings, optionals unwrapped, arrays, dictionaries, operations, nested calls.
Values ==
  ModulesOf(<<Var("n", NoName, One), Var("a", NoName, Array(<<One, Id("n")>>)),
              Var("d", NoName, Dict(<<One, Id("n")>>)), Var("x", OptionalOf("Int"), One),
              Var("s", NoName, Text),
              Func("f", <<Param("x", OptionalOf("Int")), Param("s", Plain("String"))>>, Int1),
              Returned(Unwrapped(Id("x"))), End,
              Class("K"), Var("c", NoName, Operated(One, "+", One)), Var("q", NoName, True),
              Var("w", NoName, NewDict), Constructor(<<Param("b", Int1)>>),
              Assigned(Self("c"), Operated(Id("b"), "+", One)), End, End,
              Var("k", OptionalOf("K"), Call("K", <<"b">>, <<Id("n")>>))>>,
    <<Var("t", Plain("String"), Operated(Id("s"), "+", Text)), Shown(Operated(Id("t"), "+", Id("s"))),
      Shown(Operated(Id("n"), "+", Id("s"))), Var("e", NoName, NewDict), Assigned(Id("d"), Id("e")),
      Shown(At("a", At("a", Id("n")))), Shown(Unwrapped(At("d", Unwrapped(Id("x"))))),
      Assigned(At("a", One), Operated(At("a", Id("n")), "+", Unwrapped(Id("x")))),
      Assigned(At("d", Id("n")), Operated(Id("n"), "<", One)), Assigned(At("n", One), One),
      Shown(Operated(One, "+", At("a", One))), Shown(Unwrapped(Id("n"))),
      Shown(Call("f", <<"x", "s">>, <<Call("f", <<"x", "s">>, <<Id("n"), Text>>), Id("s")>>)),
      Shown(Operated(Call("f", <<"x", "s">>, <<Id("n"), Text>>), "+", One)),
      Shown(MemberOf(Unwrapped(Id("k")), "c")), Var("q", NoName, MemberOf(Unwrapped(Id("k")), "q")),
      Var("b", NoName, Array(<<At("a", One)>>)), Assigned(Id("q"), True)>>,
    <<Block, Func("h", <<Param("a", ArrayOf("Int")), Param("x", OptionalOf("Int"))>>, NoName),
      Func("h", <<Param("q", Plain("Bool"))>>, ArrayOf("Foo"))>>, 2, <<Shown(At("d", Id("n")))>>)

AllPrograms == <<Variables, Calls, Members, Objects, Types, Surprises, Values>>
=============================================================================

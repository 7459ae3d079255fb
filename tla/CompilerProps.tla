---------------------------- MODULE CompilerProps ---------------------------
(***************************************************************************)
(* What the compiler's passes have to get right between them, against a    *)
(* reading of the program alone: which declaration a name means, and what  *)
(* type it has.                                                            *)
(***************************************************************************)
EXTENDS Compiler

Items == {i \in DOMAIN program : program[i].op # "end"}

(* Every number a pass writes to a node, a symbol, a type or a table of exports is
   the slot of a type that was declared, and every table on the context's stack
   exists (CompilerService::getType and declare check neither).  *)
TypeOK ==
  LET slots == NoSlot..(Len(types) - 1)
  IN /\ stage \in {"parsed", "typegen", "binding", "irgen", "done", "stopped", "aborted"}
     /\ at \in 1..(Len(program) + 1)
     /\ DOMAIN nodes = DOMAIN program
     /\ \A i \in DOMAIN nodes :
          /\ nodes[i].slot \in slots
          /\ \A e \in Parts(nodes[i].left) \union Parts(nodes[i].expr) : {e.slot, e.func} \subseteq slots
     /\ \A k \in DOMAIN symbols : symbols[k] \in DOMAIN tables
     /\ \A t \in DOMAIN tables : \A n \in DOMAIN tables[t] :
          {tables[t][n].type, tables[t][n].parent} \subseteq slots
     /\ \A c \in DOMAIN exports : c \in slots /\ exports[c] \in DOMAIN tables
     /\ \A k \in DOMAIN types : {types[k].link, types[k].result, types[k].cinit} \subseteq slots

-----------------------------------------------------------------------------
(* Scopes, and what they declare. *)

Scope(i) == Max(Around(program, i))

\* The scope whose code, or default initialiser, a node is part of.
Home(i) == Max({s \in Around(program, i) : program[s].op # "block"})

Declared(s, op) == {j \in Body(program, s) : program[j].op = op}

Member(i) == program[i].op \in {"func", "init"} /\ program[Scope(i)].op = "class"

\* The class whose members a node may use by their names: a method's or a
\* constructor's.  (An initialiser that does is not given the object.)
OwnClass(i) == IF Member(Home(i)) THEN {Scope(Home(i))} ELSE {}

\* A class's constructors are called where the class is; a class without any stands
\* for the one it gets.
Functions(s) ==
  Declared(s, "func") \union
  UNION {IF Declared(c, "init") = {} THEN {c} ELSE Declared(c, "init") : c \in Declared(s, "class")}

FunctionName(j) ==
  CASE program[j].op = "func"  -> SimpleName(program[j], "")
    [] program[j].op = "init"  -> SimpleName(program[j], program[Scope(j)].name)
    [] program[j].op = "class" -> Signature(program[j].name, <<>>)

\* A variable, parameter or field: the scope that declares it, and its name.
Params(s) == {program[s].params[k][1] : k \in DOMAIN program[s].params}
VariablesOf(s) ==
  {<<s, n>> : n \in Params(s) \union {Plain(program[j].name) : j \in Declared(s, "var")}}

Nearest(found) == CHOOSE v \in found : \A w \in found : w[1] <= v[1]
Meanings(i, n) == {v \in UNION {VariablesOf(s) : s \in Around(program, i)} : v[2] = n}
Meant(i, n) == Nearest(Meanings(i, n))

\* The function a call means, if it is not a built-in one.
Callees(i, n) ==
  LET found == UNION {{<<s, j>> : j \in {j \in Functions(s) : FunctionName(j) = n}} :
                        s \in Around(program, i)}
  IN IF found = {} THEN {} ELSE {Nearest(found)[2]}

PrintName == BuildIns[1].name

-----------------------------------------------------------------------------
(* What may be used where. *)

IsField(v) == program[v[1]].op = "class"

\* Declared before it is used; a field only in its class, a local variable only in
\* its function.  (The module's blocks have no place for variables, and in a method
\* the compiler takes a variable of the module for one of the object.)
Usable(i, v) ==
  /\ v[2] \in Params(v[1]) \/ \E j \in Declared(v[1], "var") : Plain(program[j].name) = v[2] /\ j < i
  /\ CASE program[v[1]].op = "module" -> OwnClass(i) = {}
       [] IsField(v)                  -> v[1] \in OwnClass(i)
       [] program[v[1]].op = "block"  -> Home(v[1]) = Home(i) /\ program[Home(i)].op # "module"
       [] OTHER                       -> v[1] = Home(i)

UsableName(i, n) == Meanings(i, n) # {} /\ Usable(i, Meant(i, n))

\* A function of the module, a method of the same object, or a constructor; in a
\* method the compiler takes a constructor for a method of the object.
Callable(i, j) ==
  /\ j < i
  /\ IF program[j].op # "func" THEN OwnClass(i) = {}
     ELSE IF Member(j) THEN Scope(j) \in OwnClass(i) ELSE program[Home(j)].op = "module"

-----------------------------------------------------------------------------
(* Types, by their names. *)

VoidType == Plain("Void")
NilType == Plain("Nil")
IntType == Plain("Int")
BoolType == Plain("Bool")
StringType == Plain("String")
ArrayType == ArrayOf("Int")
DictType == Plain("Dict")

RECURSIVE TypeOf(_, _)

TypeOfVariable(v) ==
  LET j == CHOOSE j \in Declared(v[1], "var") : Plain(program[j].name) = v[2]
      k == CHOOSE k \in DOMAIN program[v[1]].params : program[v[1]].params[k][1] = v[2]
  IN IF v[2] \in Params(v[1]) THEN program[v[1]].params[k][2]
     ELSE IF program[j].type # NoName THEN program[j].type ELSE TypeOf(j, program[j].expr)

\* The class of an object, when one class has the name.
ClassOf(i, object) ==
  LET named == {c \in Items : program[c].op = "class" /\ Plain(program[c].name) = TypeOf(i, object)}
  IN IF Cardinality(named) = 1 THEN named ELSE {}

\* The object a member function is called of.
ObjectOf(e) == Expression("id", e.on, <<>>, NoName)

Result(j) ==
  CASE program[j].op = "class"   -> Plain(program[j].name)
    [] program[j].op = "init"    -> Plain(program[Scope(j)].name)
    [] program[j].op = "func"    -> IF program[j].type = NoName THEN VoidType ELSE program[j].type

\* The variables an expression reads, in the order it does; a sum of strings is
\* put together from its end.
RECURSIVE Reads(_, _)
Reads(i, e) ==
  LET self == <<<<Home(i), SelfName>>>>
      parts == [k \in DOMAIN e.args |-> Reads(i, e.args[k])]
      inOrder == FlattenSeq(parts)
  IN CASE e.form = "id" -> (IF IsField(Meant(i, e.name)) THEN self ELSE <<>>) \o <<Meant(i, e.name)>>
       [] e.form = "self"   -> self \o <<<<Max(OwnClass(i)), e.name>>>>
       [] e.form = "member" -> inOrder \o <<<<Max(ClassOf(i, e.args[1])), e.name>>>>
       [] e.form = "call"   ->
            (IF \E j \in Callees(i, e.name) : program[j].op = "func" /\ Member(j) THEN self ELSE <<>>)
              \o inOrder
       [] e.form = "membercall" -> <<Meant(i, e.on)>> \o inOrder
       [] e.form = "op" /\ TypeOf(i, e) = StringType -> FlattenSeq(Reverse(parts))
       [] OTHER -> inOrder

Methods(i, e) ==
  UNION {{j \in Declared(c, "func") : FunctionName(j) = e.name} : c \in ClassOf(i, ObjectOf(e))}

\* The functions any call may mean.
CalleesOf(i, e) == IF e.form = "call" THEN Callees(i, e.name) ELSE Methods(i, e)

\* Numbers may be added and compared, strings added.  What the compiler takes a
\* second operand for is wrong for an item, an operand that is a call ends the
\* compiler, and a field needs its `self` there.
Operable(i, e) ==
  LET operands == {TypeOf(i, e.args[k]) : k \in DOMAIN e.args}
  IN /\ operands = {IntType} \/ (operands = {StringType} /\ e.name = Plain("+"))
     /\ e.args[2].form # "at"
     /\ \A x \in Parts(e) :
          /\ x.form \notin {"call", "membercall"}
          /\ x.form = "id" => ~IsField(Meant(i, x.name))

RECURSIVE Readable(_, _)
Readable(i, e) ==
  /\ \A k \in DOMAIN e.args : Readable(i, e.args[k])
  /\ CASE e.form = "id"     -> UsableName(i, e.name)
       [] e.form = "self"   -> UsableName(i, e.name) /\ IsField(Meant(i, e.name))
       [] e.form = "member" -> \E c \in ClassOf(i, e.args[1]) : <<c, e.name>> \in VariablesOf(c)
       [] e.form = "unwrap" -> TypeOf(i, e.args[1])[1] = "optional"
       [] e.form = "at"     -> /\ e.args[1].form = "id"
                               /\ TypeOf(i, e.args[1]) \in {ArrayType, DictType}
       [] e.form = "op"     -> Operable(i, e)
       [] e.form = "newdict" -> e.name = IntType /\ e.on = IntType
       [] e.form = "call"   -> IF Callees(i, e.name) = {} THEN e.name = PrintName
                               ELSE \A j \in Callees(i, e.name) : Callable(i, j)
       [] e.form = "membercall" -> Methods(i, e) # {}
       [] OTHER -> TRUE

TypeOf(i, e) ==
  IF ~Readable(i, e) THEN VoidType ELSE
  CASE e.form = "int"       -> IntType
    [] e.form = "string"    -> StringType
    [] e.form = "bool"      -> BoolType
    [] e.form = "nil"       -> NilType
    [] e.form \in {"id", "self", "member"} -> TypeOfVariable(Last(Reads(i, e)))
    [] e.form = "unwrap"    -> Plain(TypeOf(i, e.args[1])[2])
    [] e.form = "at"        -> IF TypeOf(i, e.args[1]) = ArrayType THEN IntType ELSE OptionalOf("Int")
    [] e.form = "op"        -> TypeOf(i, e.args[1])
    [] e.form = "array"     -> ArrayType
    [] e.form \in {"dict", "newdict"} -> DictType
    [] e.form = "call" /\ Callees(i, e.name) # {} -> Result(Max(Callees(i, e.name)))
    [] OTHER                -> VoidType

\* A value of a type, where another is asked for; a string is never boxed.
Fits(type, wanted) ==
  \/ type = wanted
  \/ wanted = Plain("Any") /\ type # VoidType
  \/ wanted[1] = "optional" /\ type \in {NilType, Plain(wanted[2])} \ {StringType}

\* What an expression is made of has the types it asks for: an array and a
\* dictionary are ones of numbers.
PartFits(e, k, type, callees) ==
  CASE e.form \in {"call", "membercall"} ->
         Fits(type, IF callees = {} THEN Plain("Any") ELSE program[Max(callees)].params[k][2])
    [] e.form \in {"array", "dict"} \/ (e.form = "at" /\ k = 2) -> type = IntType
    [] OTHER -> TRUE

AllFit(i) ==
  \A e \in Parts(program[i].expr) \union Parts(program[i].left) : \A k \in DOMAIN e.args :
    PartFits(e, k, TypeOf(i, e.args[k]), CalleesOf(i, e))

-----------------------------------------------------------------------------
(* Statements. *)

\* What a statement stores to, and whether it may; not to another object's field.
Stored(i) ==
  IF program[i].op = "var" THEN <<Scope(i), Plain(program[i].name)>>
  ELSE IF program[i].op # "assign" THEN <<>> ELSE
  CASE program[i].left.form = "self" -> <<Max(OwnClass(i)), program[i].left.name>>
    [] program[i].left.form = "id"   -> Meant(i, program[i].left.name)
    [] OTHER                         -> <<>>

IsItem(i) == program[i].op = "assign" /\ program[i].left.form = "at"

Storable(i) ==
  IF program[i].op # "assign"
  THEN program[i].op = "var" /\ program[Scope(i)].op = "block" => program[Home(i)].op # "module"
  ELSE
  CASE program[i].left.form = "id"   -> UsableName(i, program[i].left.name)
    [] program[i].left.form = "self" ->
         OwnClass(i) # {} /\ Usable(i, Stored(i)) /\ Stored(i) \in VariablesOf(Stored(i)[1])
    [] program[i].left.form = "at"   -> Readable(i, program[i].left)
    [] OTHER                         -> FALSE

Clear(i) == Storable(i) /\ Readable(i, program[i].expr)

\* A value is boxed for a parameter, and where a field or a variable of the module
\* gets its first value; elsewhere its type has to be the variable's own.
TypedAs(i, type, stored) ==
  LET first == program[i].op = "var" /\ program[Scope(i)].op \in {"class", "module"}
      wanted == TypeOfVariable(stored)
  IN /\ IsItem(i) => type = IntType
     /\ program[i].op # "call" => type # VoidType
     /\ stored # <<>> => IF first THEN Fits(type, wanted) ELSE type = wanted

Typed(i) ==
  LET e == program[i].expr
  IN AllFit(i) /\ (e # NoExpr => TypedAs(i, TypeOf(i, e), Stored(i)))

Statements == {i \in DOMAIN program : program[i].op \in {"var", "assign", "call", "return"}}

CodeOf(i) == SelectSeq(code, LAMBDA c : c.at = i)

-----------------------------------------------------------------------------
(* Places. *)

\* The variables a statement reads and stores to, in the order of its code.
Accessed(i) ==
  (IF IsItem(i) THEN Reads(i, program[i].left) ELSE <<>>) \o
  Reads(i, program[i].expr) \o
  (IF Stored(i) = <<>> \/ program[i].expr = NoExpr THEN <<>>
   ELSE IF IsField(Stored(i)) THEN <<<<Home(i), SelfName>>, Stored(i)>> ELSE <<Stored(i)>>)

Accesses(i) ==
  SelectSeq(CodeOf(i), LAMBDA c : c.op \in {"iload", "oload", "istore", "getstatic", "putstatic",
                                            "getfield", "putfield"})

\* A local variable's place is in a function's frame, a field's in its class.
Place(c, v) ==
  CASE c.op \in {"iload", "oload", "istore"} -> <<"local", c.in, c.a>>
    [] c.op \in {"getstatic", "putstatic"}   -> <<"static", c.a, c.b>>
    [] OTHER                                 -> <<"field", v[1], c.a>>

PlaceKind(v) ==
  CASE program[v[1]].op = "class" /\ v[2] # SelfName  -> "field"
    [] program[v[1]].op = "module" /\ v[2] # SelfName -> "static"
    [] OTHER                                          -> "local"

Placed ==
  UNION {{<<Place(Accesses(i)[k], Accessed(i)[k]), Accessed(i)[k]>> : k \in DOMAIN Accessed(i)} :
           i \in {i \in Statements : Clear(i)}}

(* Compiled code looks for a variable in the frame, the module or the object that
   has it, and two accesses reach the same place exactly when the program means
   the same variable: symbols get their places from a count that a block
   shares with its function and a function does not with another, after they
   were looked up by three passes with stacks of their own (typebinding.cpp:140,
   IRGen.cpp:269).  *)
PlacesTellVariablesApart ==
  stage = "done" =>
    /\ \A i \in Statements : Clear(i) => Len(Accesses(i)) = Len(Accessed(i))
    /\ \A x \in Placed : x[1][1] = PlaceKind(x[2])
    /\ \A x, y \in Placed : x[1] = y[1] <=> x[2] = y[2]

-----------------------------------------------------------------------------
(* Calls. *)

\* The operand stack, as the types of what is on it, and the last constant.
EmptyStack == [stack |-> <<>>, constant |-> 0, ok |-> TRUE]

Top(m) == Last(m.stack)
Push(m, type) == [m EXCEPT !.stack = Append(@, type)]
Pop(m, n) ==
  [m EXCEPT !.stack = SubSeq(@, 1, Len(@) - n), !.ok = @ /\ n <= Len(m.stack)]

TypeAtPlace(owner, place) == TypeAt(types, owner).vars[place + 1].type

Numbers == {IntSlot, BoolSlot}

\* A number is not boxed, everything else is a reference.
Holds(type, wanted) ==
  CASE KindOf(wanted) \in {"Any", "Optional"} -> type \notin Numbers
    [] wanted \in Numbers                     -> type \in Numbers
    [] OTHER                                  -> type = wanted

Taken(m, wanted) ==
  LET n == Len(wanted)
  IN [Pop(m, n) EXCEPT !.ok =
        @ /\ \A k \in 1..n : Holds(m.stack[Len(m.stack) - n + k], wanted[k])]

\* What the member functions of the built-in classes find below their arguments.
ItemFunctions ==
  BuiltIn(9)  :> <<ArraySlot>> @@ BuiltIn(10) :> <<ArraySlot, IntSlot>> @@
  BuiltIn(11) :> <<ArraySlot, IntSlot, IntSlot>> @@
  BuiltIn(13) :> <<DictSlot>> @@ BuiltIn(14) :> <<DictSlot, IntSlot, AnySlot>> @@
  BuiltIn(15) :> <<DictSlot, IntSlot>> @@
  BuiltIn(18) :> <<BuilderSlot, StringSlot>> @@ BuiltIn(19) :> <<BuilderSlot>>

Wanted(f) ==
  IF f \in DOMAIN ItemFunctions THEN ItemFunctions[f]
  ELSE [k \in 1..TypeAt(types, f).paramCount |-> TypeAt(types, f).vars[k].type]

Given(m, type) == IF type = VoidSlot THEN m ELSE Push(m, type)

\* An item of an array is a number, and what an optional wraps is of its type.
Invoked(m, f) ==
  CASE f = BuiltIn(10)    -> Push(Taken(m, Wanted(f)), IntSlot)
    [] f = AutoUnwrapping ->
         [Push(Pop(m, 1), TypeAt(types, Top(m)).link) EXCEPT !.ok = @ /\ KindOf(Top(m)) = "Optional"]
    [] OTHER              -> Given(Taken(m, Wanted(f)), TypeAt(types, f).result)

Effect(m, c) ==
  CASE c.op = "iconst"             -> [Push(m, IntSlot) EXCEPT !.constant = c.a]
    [] c.op = "sconst"             -> Push(m, StringSlot)
    [] c.op = "oconst_nil"         -> Push(m, NilSlot)
    [] c.op = "new"                -> Push(m, c.a)
    [] c.op = "onewarray"          ->
         Push(Taken(m, [k \in 1..(m.constant + 1) |-> IntSlot]), c.a)
    [] c.op = "dup"                -> Push(m, Top(m))
    [] c.op \in {"iload", "oload"} -> Push(m, TypeAtPlace(c.in, c.a))
    [] c.op = "getstatic"          -> Push(m, TypeAtPlace(c.a, c.b))
    [] c.op = "getfield"           -> Push(Pop(m, 1), TypeAtPlace(Top(m), c.a))
    [] c.op \in {"iadd", "icmp_l"} -> Push(Taken(m, <<IntSlot, IntSlot>>), IntSlot)
    [] c.op = "invoke"             -> Invoked(m, c.a)
    [] c.op = "istore"             -> Taken(m, <<TypeAtPlace(c.in, c.a)>>)
    [] c.op = "putstatic"          -> Taken(m, <<TypeAtPlace(c.a, c.b)>>)
    [] c.op = "putfield"           -> Taken(Pop(m, 1), <<TypeAtPlace(Top(m), c.a)>>)
    [] c.op \in {"ireturn", "pop"} -> Pop(m, 1)
    [] OTHER                       -> m

StackBehind(i) == FoldLeft(Effect, EmptyStack, CodeOf(i))

\* The function a call means, by its slot.
FunctionMeant(i, e) ==
  LET j == CalleesOf(i, e)
  IN IF j = {} THEN BuildIns[1].slot ELSE nodes[Max(j)].slot

\* The calls of an expression, in the order they are made.
RECURSIVE CallsMeant(_, _)
CallsMeant(i, e) ==
  FlattenSeq([k \in DOMAIN e.args |-> CallsMeant(i, e.args[k])]) \o
  (IF e.form \in {"call", "membercall"} THEN <<FunctionMeant(i, e)>> ELSE <<>>)

\* The calls in a statement's code; those of built-in classes and of boxing are the
\* compiler's own.
CallsMade(i) ==
  LET calls == SelectSeq(CodeOf(i), LAMBDA c : c.op = "invoke" /\
                           (c.a >= Len(BootTypes) \/ c.a = BuildIns[1].slot))
  IN [k \in DOMAIN calls |-> calls[k].a]

(* Compiled code calls the functions the program means, in the order it means, and
   finds on the operand stack what each of them, an operation, an item's place and
   a variable take, boxed where it has to be and with the object below the
   arguments; a statement leaves nothing there but a call's result.  (The
   interpreter checks none of it.)  *)
CallsFindTheirArguments ==
  stage = "done" =>
    \A i \in {i \in Statements : Clear(i) /\ Typed(i)} :
      LET end == StackBehind(i)
          e == program[i].expr
          leaves == program[i].op = "call" /\ TypeAt(types, FunctionMeant(i, e)).result # VoidSlot
      IN /\ end.ok
         /\ Len(end.stack) = (IF leaves THEN 1 ELSE 0)
         /\ CallsMade(i) = CallsMeant(i, e)

-----------------------------------------------------------------------------
(* Which programs are compiled. *)

\* A type that may be written at node i.
Known(i, type) ==
  LET classes == {Plain(program[c].name) :
                    c \in {c \in Items : c < i /\ program[c].op = "class"
                                        /\ Scope(c) \in Around(program, i)}}
  IN \/ type \in {NoName, IntType, BoolType, StringType, ArrayType,
                 OptionalOf("Int"), OptionalOf("String")} \union classes
     \/ \E c \in classes : type = OptionalOf(c[2])

Distinct(s) ==
  LET declared == Declared(s, "var") \union Declared(s, "class")
      functions == Functions(s) \union Declared(s, "init")
  IN /\ \A j, k \in declared : j # k => program[j].name # program[k].name
     /\ \A j \in declared : Plain(program[j].name) \notin Params(s)
     /\ \A j, k \in functions : j # k => FunctionName(j) # FunctionName(k)
     /\ Cardinality(Params(s)) = Len(program[s].params)

\* What the compiler can do in a method: assign, call and return names, and what
\* is in an operation.
FitForMethod(i) ==
  LET Operands(e) == UNION {Parts(o) : o \in {o \in Parts(e) : o.form = "op"}}
      e == program[i].expr
  IN /\ program[i].op \in {"assign", "call", "return"}
     /\ program[i].left.form # "at"
     /\ \A x \in Parts(e) : x.form \in {"none", "id", "self", "call"} \/ x \in Operands(e)

\* A local variable is loaded as a number or as a reference, which a string is not.
Loadable(v) == PlaceKind(v) = "local" /\ v[2] # SelfName => TypeOfVariable(v) \notin {StringType, BoolType}

\* A value of a type may be stored where a statement stores it.
LegalValue(i, type, wanted) ==
  CASE program[i].op = "assign" -> IF IsItem(i) THEN type = IntType ELSE Fits(type, wanted)
    [] program[i].op = "var"    -> /\ type # VoidType /\ Fits(type, wanted)
                                   /\ program[i].type = NoName => type # NilType
    [] OTHER                   -> TRUE

LegalStatement(i) ==
  LET e == program[i].expr
      items == IF IsItem(i) THEN {program[i].left} ELSE {}
  IN /\ Clear(i) /\ AllFit(i)
     /\ Member(Home(i)) => FitForMethod(i)
     /\ \A x \in items \union {e} : \A v \in ToSet(Reads(i, x)) : Loadable(v)
     /\ e # NoExpr => LegalValue(i, TypeOf(i, e), TypeOfVariable(Stored(i)))
     /\ program[i].op = "var" =>
          /\ Known(i, program[i].type)
          /\ e = NoExpr => program[i].type # NoName
          /\ program[Scope(i)].op = "class" => Reads(i, e) = <<>>

LegalScope(s) ==
  /\ Distinct(s)
  /\ \A k \in DOMAIN program[s].params : Known(s, program[s].params[k][2])
  /\ program[s].op \in {"func", "init"} =>
       /\ Known(s, program[s].type)
       /\ Member(s) => program[s].type = NoName
       /\ program[s].type # NoName => program[EndOf(program, s) - 1].op = "return"
       /\ program[Home(s)].op \in {"module", "class"}
  /\ program[s].op = "block" => ~Member(Home(s))
  /\ program[s].op = "class" =>
       /\ program[Scope(s)].op = "module"
       /\ \A c \in Items : program[c].op = "class" => c = s \/ program[c].name # program[s].name

WellFormed ==
  program # <<>> /\ \A i \in Items : IF i \in Statements THEN LegalStatement(i) ELSE LegalScope(i)

Closed ==
  /\ \A s \in DOMAIN program : program[s].op \in Scopes => Distinct(s)
  /\ \A i \in Statements :
       \A e \in Parts(program[i].expr) \union Parts(program[i].left) :
         /\ e.form = "id" => Meanings(i, e.name) # {}
         /\ e.form = "call" => Callees(i, e.name) # {} \/ e.name = PrintName

(* A well-formed program is compiled, neither refused nor the compiler's end; and
   what is compiled at least declares every name it uses, once in a scope.  *)
CompilesWhatIsWellFormed ==
  /\ stage \in {"stopped", "aborted"} => ~WellFormed
  /\ stage = "done" => Closed
=============================================================================

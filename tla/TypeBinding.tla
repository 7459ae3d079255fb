---------------------------- MODULE TypeBinding -----------------------------
(***************************************************************************)
(* TypeBinding (typebinding.cpp): the pass that gives variables, functions *)
(* and expressions their types, and variables their places.                *)
(***************************************************************************)
EXTENDS Compilation

\* What the visit of an expression makes of it.
Bound(e, slot) == [e EXCEPT !.slot = slot]

Reported(e, error) == [e EXCEPT !.errors = {error}]

\* A null pointer or an assertion behind a report.
Crash(e, reported) == [e EXCEPT !.errors = reported, !.ok = FALSE]

Reports(e) == UNION {x.errors : x \in Parts(e)}
Completed(e) == \A x \in Parts(e) : x.ok

\* A name that is looked up, with the tables of the stack.
BindIn(stack, e, name) ==
  IF ~FoundIn(stack, name) THEN Crash(e, {"cannot find variable"})
  ELSE IF LookupIn(stack, name).type = NoSlot THEN Crash(e, {})
  ELSE Bound(e, LookupIn(stack, name).type)

\* visit(IdentifierExpr): nothing is done for a name in the initialiser of a class's
\* field, but for the operands of an operation, which is a stage of its own.
BindName(e, name, visiting) ==
  IF visiting = "class" THEN e ELSE BindIn(symbols, e, name)

\* `self.x` asks for x like for any name, and has its type.
BindSelf(e, visiting) ==
  LET self == BindIn(symbols, e, SelfName)
      member == BindName(e, e.name, visiting)
  IN CASE ~member.ok -> member
       [] member.ok /\ ~self.ok -> self
       [] member.ok /\ self.ok -> IF member.slot = NoSlot THEN Crash(e, {}) ELSE member

\* A member is looked up in its class, then in every scope around.
BindMember(e, class) ==
  CASE class = NoSlot -> Crash(e, {})
    [] class # NoSlot /\ TypeAt(types, class).kind = "Optional" ->
         Reported(e, "access without unwrapping")
    [] class # NoSlot /\ TypeAt(types, class).kind # "Optional" ->
         IF class \in DOMAIN exports
           THEN BindIn(Append(symbols, exports[class]), e, e.name) ELSE Crash(e, {})

\* What is not optional gets no type, and no report.
Wrapped ==
  [slot \in NoSlot..(Len(types) - 1) |->
     IF slot # NoSlot /\ TypeAt(types, slot).kind = "Optional"
       THEN TypeAt(types, slot).link ELSE NoSlot]

\* The type of an item is the one numbers have, the object's that of its name.
BindSubscript(e, name) ==
  LET slot == IF Found(name) THEN Lookup(name).type ELSE NoSlot
  IN CASE slot = ArraySlot -> Bound(e, IntSlot)
       [] slot = DictSlot  -> Bound(e, BuiltIn(6))
       [] OTHER            -> Crash(e, {})

\* typeOf of an operand: an item has the type of what it is taken from; a call is
\* looked up by a name it does not have.
OperandType(x) ==
  CASE x.form = "at" -> x.args[1].slot
    [] x.form \in {"call", "array", "dict", "newdict"} -> NoSlot
    [] OTHER -> x.slot

\* typeOf(Expr), of two operands: the second one's.
BindOperation(e) ==
  IF \E k \in DOMAIN e.args : OperandType(e.args[k]) = NoSlot
    THEN Crash(e, {}) ELSE Bound(e, OperandType(e.args[2]))

\* A new dictionary's types are visited like variables, and looked up once more.
BindNewDict(e, visiting) ==
  LET visits == {BindName(e, n, visiting) : n \in {e.name, e.on}}
      IsClass(n) == Lookup(n).flag = "klass"
  IN CASE \E x \in visits : ~x.ok -> Crash(e, UNION {x.errors : x \in visits})
       [] \A x \in visits : x.ok ->
            IF ~Found(e.name) THEN Crash(e, {})
            ELSE IF ~IsClass(e.name) THEN Reported(e, "not a class")
            ELSE IF ~Found(e.on) THEN Crash(e, {})
            ELSE IF ~IsClass(e.on) THEN Reported(e, "not a class")
            ELSE [Bound(e, DictSlot) EXCEPT !.func = BuiltIn(13)]

\* A function is known by its signature; its result must be bound already.
BindCall(e) ==
  LET f == Lookup(e.name).type
      result == TypeAt(types, f).result
  IN IF result = NoSlot THEN Crash(e, {})
     ELSE [Bound(e, result) EXCEPT !.func = f]

\* A member function is looked up in the class only, and its result is not asked for.
BindCallOf(object, e) ==
  LET class == object.slot
      table == tables[exports[class]]
      f == table[e.name].type
  IN CASE ~object.ok -> object
       [] object.ok /\ class \notin DOMAIN exports -> Crash(e, {})
       [] object.ok /\ class \in DOMAIN exports ->
            IF e.name \notin DOMAIN table THEN Crash(e, {"cannot find function"})
            ELSE [Bound(e, TypeAt(types, f).result) EXCEPT !.func = f]

BindMemberCall(e, visiting) ==
  BindCallOf(IF e.on = SelfName THEN BindIn(symbols, e, e.on) ELSE BindName(e, e.on, visiting), e)

\* An expression, with the ones it is made of as they were and as they are bound.
BindNode(x, e, visiting) ==
  CASE x.form = "none"   -> e
    [] x.form = "int"    -> Bound(e, IntSlot)
    [] x.form = "string" -> Bound(e, StringSlot)
    [] x.form = "bool"   -> Bound(e, BoolSlot)
    [] x.form = "nil"    -> Bound(e, NilSlot)
    [] x.form = "id"     -> BindName(e, x.name, visiting)
    [] x.form = "self"   -> BindSelf(e, visiting)
    [] x.form = "member" -> BindMember(e, e.args[1].slot)
    [] x.form = "unwrap" -> Bound(e, Wrapped[e.args[1].slot])
    [] x.form = "at"     -> BindSubscript(e, NameOf(x.args[1]))
    [] x.form = "op"     -> BindOperation(e)
    [] x.form = "array"  -> Bound(e, ArraySlot)
    [] x.form = "dict"   -> Bound(e, DictSlot)
    [] x.form = "newdict"    -> BindNewDict(e, visiting)
    [] x.form = "call"       -> BindCall(e)
    [] x.form = "membercall" -> BindMemberCall(e, visiting)

\* What an expression is made of is visited before it is given its type, but for a
\* call of an unknown function; an operation is a stage of its own.
Bind(e) ==
  LET bound[x \in Parts(e), visiting \in {CurStage, "expr"}] ==
        LET inner == IF x.form = "op" THEN "expr" ELSE visiting
        IN IF x.form = "call" /\ ~Found(x.name) THEN Reported(x, "cannot find function")
           ELSE BindNode(x, [x EXCEPT !.args = [k \in DOMAIN x.args |-> bound[x.args[k], inner]]],
                         visiting)
  IN bound[e, CurStage]

-----------------------------------------------------------------------------
BindExpressions(left, right) ==
  LET reported == Reports(left) \union Reports(right)
  IN IF ~Completed(left) \/ ~Completed(right) THEN Abort(reported) ELSE
       /\ nodes' = [nodes EXCEPT ![at].left = left, ![at].expr = right]
       /\ errors' = errors \union reported
       /\ Continue
       /\ UNCHANGED <<program, context, service, code>>

BindStatement ==
  /\ program[at].op \in {"assign", "call", "return"}
  /\ BindExpressions(Bind(nodes[at].left), Bind(nodes[at].expr))

\* visit(TypeIdentifier), visit(OptionalType), visit(ArrayType), with the tables of
\* the stack.  A pattern's type must be found; an array is one of whatever it is.
SlotIn(stack, annotation) ==
  IF annotation[1] = "array" THEN ArraySlot
  ELSE IF FoundIn(stack, annotation) THEN LookupIn(stack, annotation).type ELSE NoSlot

TypeSlot(annotation) ==
  IF annotation = NoName THEN UnspecifiedSlot ELSE SlotIn(symbols, annotation)

UnknownTypes(stack, annotations) ==
  LET written == {IF t[1] = "array" THEN Plain(t[2]) ELSE t : t \in annotations \ {NoName}}
  IN IF \A t \in written : FoundIn(stack, t) THEN {} ELSE {"cannot find type"}

\* verifyIfAssignExpressionIsLegal.
NilMisplaced(pattern, e, slot) ==
  /\ e # NoExpr /\ slot = NilSlot
  /\ pattern = UnspecifiedSlot \/ TypeAt(types, pattern).kind # "Optional"

\* MUTANT: the place is a count of the scope's symbols.
NextPlaceInScope(owner) == Cardinality(DOMAIN CurTable) - 1

\* The place of the next variable of a function, a class or a module.
NextPlace(owner) == Len(TypeAt(types, owner).vars)

BindVariable(item, init, pattern) ==
  LET name == Plain(item.name)
      slot == IF pattern = UnspecifiedSlot THEN init.slot ELSE pattern
      reported == Reports(init) \union UnknownTypes(symbols, {item.type})
      owner == CurDeclType
      Report(reports) ==
        /\ errors' = errors \union reports
        /\ Continue
        /\ UNCHANGED <<syntax, context, service, code>>
  IN IF item.expr = NoExpr /\ item.type = NoName THEN Report({"missing annotation"})
     ELSE IF ~Completed(init) THEN Abort(Reports(init))
     ELSE IF slot = NoSlot THEN Abort(reported)
     ELSE IF NilMisplaced(pattern, item.expr, init.slot)
       THEN Report(reported \union {"misplaced nil"})
       ELSE
            /\ types' = [types EXCEPT ![owner + 1].vars = Append(@, Variable(name, slot))]
            /\ tables' = [tables EXCEPT ![CurScope][name].type = slot,
                                        ![CurScope][name].loc = NextPlace(owner)]
            /\ nodes' = [nodes EXCEPT ![at].expr = init, ![at].slot = slot]
            /\ errors' = errors \union reported
            /\ Continue
            /\ UNCHANGED <<program, context, exports, code>>

BindVarDecl ==
  LET item == program[at]
  IN Visiting("var") /\ BindVariable(item, Bind(item.expr), TypeSlot(item.type))

-----------------------------------------------------------------------------
BindModule ==
  /\ Visiting("module")
  /\ Enter("module", at, nodes[at].slot)
  /\ Continue
  /\ UNCHANGED <<syntax, service, errors, code>>

BindClassDecl ==
  /\ Visiting("class")
  /\ Enter("class", at, nodes[at].slot)
  /\ Continue
  /\ UNCHANGED <<syntax, service, errors, code>>

\* An if or a while enters its block, and so does the block's own visitor.
BindBlock ==
  /\ Visiting("block")
  /\ stages' = stages \o <<"block", "block">>
  /\ symbols' = symbols \o <<at, at>>
  /\ declTypes' = declTypes
  /\ Continue
  /\ UNCHANGED <<syntax, service, errors, code>>

\* The result and the parameters' types, before the function's statements; they
\* are looked up with the function's own names.
BindFuncDecl ==
  LET node == nodes[at]
      scope == Append(symbols, at)
      result == IF node.result = NoName THEN VoidSlot ELSE SlotIn(scope, node.result)
      slots == [k \in DOMAIN node.params |-> SlotIn(scope, node.params[k][2])]
      unknown == UnknownTypes(scope, {node.result} \union {node.params[k][2] : k \in DOMAIN slots})
  IN /\ program[at].op \in {"func", "init"}
     /\ IF result = NoSlot \/ \E k \in DOMAIN slots : slots[k] = NoSlot
          THEN Abort(unknown)
          ELSE /\ types' = [types EXCEPT ![node.slot + 1].result = result,
                              ![node.slot + 1].vars =
                                 [k \in DOMAIN slots |-> Variable(node.params[k][1], slots[k])]]
               /\ tables' = [tables EXCEPT ![at] =
                    [n \in DOMAIN @ |->
                       IF \E k \in DOMAIN slots : node.params[k][1] = n
                         THEN [@[n] EXCEPT !.type =
                                 slots[CHOOSE k \in DOMAIN slots : node.params[k][1] = n]]
                         ELSE @[n]]]
               /\ errors' = errors \union unknown
               /\ Enter("func", at, node.slot)
               /\ Continue
               /\ UNCHANGED <<syntax, exports, code>>

LeaveBlock ==
  /\ stages' = Front(Front(stages))
  /\ symbols' = Front(Front(symbols))
  /\ declTypes' = declTypes

BindEnd ==
  /\ Visiting("end")
  /\ IF program[CurScope].op = "block" THEN LeaveBlock ELSE Leave
  /\ IF program[CurScope].op = "module" THEN EndStage("irgen") ELSE Continue
  /\ UNCHANGED <<syntax, service, errors, code>>

BindTypes ==
  /\ stage = "binding"
  /\ \/ BindModule \/ BindClassDecl \/ BindBlock \/ BindFuncDecl
     \/ BindVarDecl \/ BindStatement \/ BindEnd
=============================================================================

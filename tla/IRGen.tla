------------------------------- MODULE IRGen --------------------------------
(***************************************************************************)
(* IRGen (IRGen.cpp): the pass that turns declarations, variables, calls   *)
(* and assignments into bytecode.  What it does to a body's statements and *)
(* jumps is in CodeGen.                                                    *)
(***************************************************************************)
EXTENDS Compilation

\* The function whose writer is written to: a class's fields are initialised in
\* its default initialiser, a module's statements are its own.
Writer ==
  IF TypeAt(types, CurDeclType).kind = "Class"
    THEN TypeAt(types, CurDeclType).cinit ELSE CurDeclType

(* The code of an expression; an assertion that fails, and a report, stand where it
   was come to.  *)
Op(op, a, b) == <<[op |-> op, a |-> a, b |-> b]>>
Op1(op, a) == Op(op, a, NoSlot)
Failed == Op1("assert", NoSlot)
Reporting == Op1("report", NoSlot)

\* The one report of this pass.
NoVariable == "no variable to load"

\* What is written for the node that is visited.
Written(writer, instructions) ==
  [k \in DOMAIN instructions |->
     [in |-> writer, at |-> at, op |-> instructions[k].op,
      a |-> instructions[k].a, b |-> instructions[k].b]]

-----------------------------------------------------------------------------
KindOf(slot) == TypeAt(types, slot).kind

\* MUTANT: a number is boxed for Any only.
AutoWrappingForAny(source, target) ==
  IF KindOf(target) = "Any" /\ KindOf(source) = "Int"
    THEN Op1("invoke", AutoWrappingInt) ELSE <<>>

\* autoWrapping, and forceWrapping for a class.
AutoWrapping(source, target) ==
  LET wraps ==
        CASE KindOf(source) = "Int"  -> Op1("invoke", AutoWrappingInt)
          [] KindOf(source) = "Bool" -> Op1("invoke", AutoWrappingBool)
          [] KindOf(source) = "Class" /\ KindOf(target) = "Optional" ->
               Op1("invoke", AutoWrappingClass)
          [] KindOf(source) = "Class" /\ KindOf(target) # "Optional" -> <<>>
          [] KindOf(source) \in {"Nil", "Optional"} -> <<>>
          [] KindOf(source) \in {"String", "Any"} /\ KindOf(target) = "Any" -> <<>>
          [] OTHER -> Failed
  IN IF source = NoSlot \/ target = NoSlot THEN Failed
     ELSE IF KindOf(target) \in {"Any", "Optional"} THEN wraps ELSE <<>>

\* emit(IdentifierExpr).
Load(name) ==
  LET symbol == Lookup(name)
  IN IF ~Found(name) THEN Reporting ELSE
     CASE symbol.flag = "var" /\ KindOf(symbol.type) = "Int" -> Op1("iload", symbol.loc)
       [] symbol.flag = "var" /\ KindOf(symbol.type) \in {"Any", "Optional", "Class"} ->
            Op1("oload", symbol.loc)
       [] symbol.flag = "field" /\ symbol.static -> Op("getstatic", symbol.parent, symbol.loc)
       [] symbol.flag = "field" /\ ~symbol.static -> Op1("getfield", symbol.loc)
       [] OTHER -> Failed

LoadSelf == Op1("oload", 0)

\* emit(MemberAccessExpr): the place is the member's in its own class.
LoadMember(e) ==
  LET class == e.args[1].slot
  IN IF class \in DOMAIN exports /\ e.name \in DOMAIN tables[exports[class]]
       THEN Op1("getfield", tables[exports[class]][e.name].loc)
       ELSE Failed

\* The built-in function for an item of an array, or of a dictionary.
OfObject(object, ofArray, ofDict) ==
  CASE object.slot = ArraySlot -> Op1("invoke", BuiltIn(ofArray))
    [] object.slot = DictSlot  -> Op1("invoke", BuiltIn(ofDict))
    [] OTHER                   -> Failed

\* A key and a value of a dictionary, and the insertion.
Entry(key, value, e) ==
  Op1("dup", 0) \o key \o value \o AutoWrapping(e.slot, AnySlot) \o
  Op1("invoke", BuiltIn(14))

\* emit(Expr): strings are appended to a builder, the last one first.
Concatenation(e, operands) ==
  LET Appended(k) == Op1("dup", 0) \o operands[k] \o Op1("invoke", BuiltIn(18)) \o Op1("pop", 0)
  IN IF e.name # Plain("+") THEN Failed
     ELSE Op1("new", BuilderSlot) \o
          FlattenSeq(Reverse([k \in DOMAIN operands |-> Appended(k)])) \o
          Op1("invoke", BuiltIn(19))

Operation(e, operands) ==
  IF e.slot = StringSlot THEN Concatenation(e, operands)
  ELSE FlattenSeq(operands) \o Op1(IF e.name = Plain("+") THEN "iadd" ELSE "icmp_l", NoSlot)

\* emit(FuncCallExpr): an object to construct, the arguments, each wrapped for its
\* parameter, and the call.  The first parameter of a function that is not
\* static is self.
EmitCall(e, arguments) ==
  LET f == TypeAt(types, e.func)
      first == IF f.static THEN 1 ELSE 2
      Argument(k) ==
        IF first + k - 1 \notin DOMAIN f.vars THEN Failed
        ELSE arguments[k] \o AutoWrapping(e.args[k].slot, f.vars[first + k - 1].type)
      object == IF f.funcType \in {"C_CInit", "VM_CInit"}
                  THEN Op1("new", f.result) ELSE <<>>
  IN IF e.func = NoSlot THEN Failed
     ELSE object \o FlattenSeq([k \in DOMAIN arguments |-> Argument(k)]) \o Op1("invoke", e.func)

\* An expression behind the code of what it is made of.
EmitNode(e, parts) ==
  CASE e.form = "none"   -> <<>>
    [] e.form = "int"    -> Op1("iconst", 1)
    [] e.form = "bool"   -> Op1("iconst", 1)
    [] e.form = "string" -> Op1("sconst", NoSlot)
    [] e.form = "nil"    -> Op1("oconst_nil", NoSlot)
    [] e.form = "id"     -> Load(e.name)
    [] e.form = "self"   -> LoadSelf \o Load(e.name)
    [] e.form = "member" -> parts[1] \o LoadMember(e)
    [] e.form = "unwrap" -> parts[1] \o Op1("invoke", AutoUnwrapping)
    [] e.form = "at"     -> parts[1] \o parts[2] \o OfObject(e.args[1], 10, 15)
    [] e.form = "op"     -> Operation(e, parts)
    [] e.form = "array"  ->
         FlattenSeq(parts) \o Op1("iconst", Len(parts)) \o Op1("onewarray", ArraySlot)
    [] e.form = "dict"   ->
         Op1("new", DictSlot) \o
         FlattenSeq([k \in 1..(Len(parts) \div 2) |->
                  Entry(parts[2 * k - 1], parts[2 * k], e.args[2 * k])])
    [] e.form \in {"call", "newdict"} -> EmitCall(e, parts)
    [] e.form = "membercall" ->
         (IF e.on = SelfName THEN LoadSelf ELSE Load(e.on)) \o EmitCall(e, parts)

Emit(e) ==
  LET emitted[x \in Parts(e)] == EmitNode(x, [k \in DOMAIN x.args |-> emitted[x.args[k]]])
  IN emitted[e]

-----------------------------------------------------------------------------
(* What is stored, behind the value. *)

\* emit(VarDecl).
Initialise(symbol, source) ==
  IF symbol.flag = "var" THEN Op1("istore", symbol.loc)
  ELSE AutoWrapping(source, symbol.type) \o
       (IF symbol.static THEN Op("putstatic", symbol.parent, symbol.loc)
                         ELSE LoadSelf \o Op1("putfield", symbol.loc))

\* emit(AssignExpr): to a variable, to a field of self, to another object's, where
\* the place is taken from the object's own symbol.
Store(left, source) ==
  LET symbol == Lookup(left.name)
      fields == tables[exports[Lookup(SelfName).type]]
      object == Lookup(NameOf(left.args[1]))
  IN CASE left.form = "id" /\ symbol.flag # "field" -> Op1("istore", symbol.loc)
       [] left.form = "id" /\ symbol.flag = "field" /\ symbol.static ->
            Op("putstatic", symbol.parent, symbol.loc)
       [] left.form = "id" /\ symbol.flag = "field" /\ ~symbol.static -> Op1("putfield", symbol.loc)
       [] left.form = "self" ->
            IF left.name \in DOMAIN fields /\ fields[left.name].flag = "field"
              THEN LoadSelf \o Op1("putfield", fields[left.name].loc) ELSE Failed
       [] left.form = "member" ->
            IF ~Found(NameOf(left.args[1])) \/ object.flag # "field" THEN Failed
            ELSE AutoWrapping(source, object.type) \o Emit(left.args[1]) \o
                 Op1("putfield", object.loc)

\* An item: the object and the index go first.
Assign(left, e, value) ==
  IF left.form = "at"
    THEN Emit(left.args[1]) \o Emit(left.args[2]) \o value \o
         (IF left.args[1].slot = DictSlot THEN AutoWrapping(e.slot, AnySlot) ELSE <<>>) \o
         OfObject(left.args[1], 11, 14)
    ELSE value \o Store(left, e.slot)

\* What is reported by the way is no code.
EmitItem(emitted) ==
  LET At(op) == {k \in DOMAIN emitted : emitted[k].op = op}
      reports == {r \in At("report") : \A f \in At("assert") : r < f}
      reported == IF reports = {} THEN {} ELSE {NoVariable}
  IN IF At("assert") # {} THEN Abort(reported) ELSE
       /\ code' = code \o Written(Writer, SelectSeq(emitted, LAMBDA i : i.op # "report"))
       /\ errors' = errors \union reported
       /\ Continue
       /\ UNCHANGED <<syntax, context, service>>

EmitVarDecl ==
  LET node == nodes[at]
  IN /\ Visiting("var")
     /\ EmitItem(IF node.expr = NoExpr THEN <<>>
                 ELSE Emit(node.expr) \o
                      Initialise(Lookup(Plain(program[at].name)), node.expr.slot))

EmitAssign ==
  /\ Visiting("assign")
  /\ EmitItem(Assign(nodes[at].left, nodes[at].expr, Emit(nodes[at].expr)))

EmitFuncCall == Visiting("call") /\ EmitItem(Emit(nodes[at].expr))

EmitReturn ==
  /\ Visiting("return")
  /\ EmitItem(Emit(nodes[at].expr) \o
              Op1(IF nodes[at].expr = NoExpr THEN "return" ELSE "ireturn", NoSlot))
-----------------------------------------------------------------------------
(* Declarations. *)

EmitModule ==
  /\ Visiting("module")
  /\ Enter("module", at, nodes[at].slot)
  /\ Continue
  /\ UNCHANGED <<syntax, service, errors, code>>

\* A block is what an if or a while runs; its condition and jump are one here.
EmitBlock ==
  /\ Visiting("block")
  /\ code' = code \o Written(Writer, Op1("branch", NoSlot))
  /\ Enter("block", at, NoSlot)
  /\ Continue
  /\ UNCHANGED <<syntax, service, errors>>

\* The fields are visited before the functions; their writers differ, so the order
\* of the visits does not show.
EmitClassDecl ==
  /\ Visiting("class")
  /\ Enter("class", at, nodes[at].slot)
  /\ Continue
  /\ UNCHANGED <<syntax, service, errors, code>>

\* A constructor runs the default initialiser first.
EmitFuncDecl ==
  LET slot == nodes[at].slot
      class == TypeAt(types, TypeAt(types, slot).result)
  IN /\ program[at].op \in {"func", "init"}
     /\ code' = IF program[at].op = "func" THEN code
                ELSE code \o Written(slot, LoadSelf \o Op1("invoke", class.cinit) \o Op1("pop", NoSlot))
     /\ Enter("func", at, slot)
     /\ Continue
     /\ UNCHANGED <<syntax, service, errors>>

\* What ends a scope's code.  TypeGen puts a return behind a function without a
\* result that does not end in one.
Epilogue(scope, node) ==
  CASE scope.op = "class" ->
         Written(TypeAt(types, node.slot).cinit, LoadSelf \o Op1("ireturn", NoSlot))
    [] scope.op = "init" -> Written(node.slot, LoadSelf \o Op1("oreturn", 0))
    [] scope.op = "module" -> Written(node.slot, Op1("return", 0))
    [] scope.op = "func" /\ scope.type = NoName /\ program[at - 1].op # "return" ->
         Written(node.slot, Op1("return", NoSlot))
    [] OTHER -> <<>>

\* The module's own code becomes a function.
EmitEnd ==
  LET scope == program[CurScope]
      node == nodes[CurScope]
      ended == code \o Epilogue(scope, node)
  IN /\ Visiting("end")
     /\ IF scope.op = "func" /\ \A k \in DOMAIN ended : ended[k].in # node.slot
          THEN Abort({})                                   \* no bytecodes
          ELSE /\ code' = ended
               /\ types' = IF scope.op # "module" THEN types
                    ELSE Declare(types, [Type("Func", Plain(scope.name)) EXCEPT !.static = TRUE])
               /\ Leave
               /\ IF scope.op = "module" THEN EndStage("done") ELSE Continue
               /\ UNCHANGED <<syntax, tables, exports, errors>>

EmitCode ==
  /\ stage = "irgen"
  /\ \/ EmitModule \/ EmitClassDecl \/ EmitFuncDecl \/ EmitBlock \/ EmitVarDecl
     \/ EmitAssign \/ EmitFuncCall \/ EmitReturn \/ EmitEnd
=============================================================================

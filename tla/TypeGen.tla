------------------------------ MODULE TypeGen -------------------------------
(***************************************************************************)
(* TypeGen (typegen.cpp): the pass that declares modules, classes,         *)
(* functions and variables, and makes members of `self` explicit.          *)
(***************************************************************************)
EXTENDS Compilation

\* The name a function is found by: FuncDecl::getSimpleName before `self` is
\* added, getSimpleConstructorName after.
SimpleName(item, class) ==
  Signature(IF item.op = "init" THEN class ELSE item.name,
            [k \in DOMAIN item.params |-> item.params[k][1][2]])

\* generateOptionalGlobally for an annotation that names an unknown one.
WithOptional(annotation) ==
  LET inner == Plain(annotation[2])
      wrapped == IF Found(inner) THEN Lookup(inner).type ELSE NoSlot
      unchanged == [types |-> types, globals |-> tables[GlobalTable], ok |-> TRUE]
  IN IF annotation[1] # "optional" \/ Found(annotation) THEN unchanged
     ELSE IF ~MayWrap(types, wrapped) THEN [unchanged EXCEPT !.ok = FALSE]
     ELSE [types   |-> DeclareOptional(types, annotation, wrapped),
           globals |-> Insert(tables[GlobalTable], annotation, Symbol("klass", NextSlot(types))),
           ok      |-> TRUE]

-----------------------------------------------------------------------------
(* Statements. *)

\* The identifiers of an expression that are visited in the current stage.
Visited(e) ==
  UNION {CASE x.form \in {"id", "self"} -> {x.name}
           [] x.form = "membercall"       -> {x.on}
           [] OTHER                       -> {} : x \in Parts(e)}

\* MUTANT: a name is looked up in the innermost scope only.
UndeclaredHere(names) ==
  IF CurStage \in {"module", "block"} /\ \E n \in names : n \notin DOMAIN CurTable
    THEN {"cannot find variable"} ELSE {}

\* visit(IdentifierExpr): only modules and code blocks look a name up, and a
\* class has no case.
Undeclared(names) ==
  IF CurStage \in {"module", "block"} /\ \E n \in names : ~Found(n)
    THEN {"cannot find variable"} ELSE {}

Unexpected(names) == CurStage = "class" /\ names # {}

GenStatement ==
  /\ program[at].op \in {"assign", "call", "return"}
  /\ errors' = errors \union
       Undeclared(Visited(program[at].left) \union Visited(program[at].expr))
  /\ Continue
  /\ UNCHANGED <<syntax, context, service, code>>

VariableFlag ==
  IF TypeAt(types, CurDeclType).kind = "Func" THEN "var" ELSE "field"

GenVarDecl ==
  LET item == program[at]
      found == Undeclared(Visited(item.expr))
      name == Plain(item.name)
      made == WithOptional(item.type)
      symbol == [Symbol(VariableFlag, UnspecifiedSlot) EXCEPT
                   !.parent = CurDeclType, !.static = CurStage = "module"]
  IN /\ Visiting("var")
     /\ IF Unexpected(Visited(item.expr)) \/ ~made.ok THEN Abort(found) ELSE
        \/ /\ name \in DOMAIN CurTable           \* SymbolTable::insert asserts
           /\ Abort(found \union {"duplicate variable"})
        \/ /\ name \notin DOMAIN CurTable
           /\ types' = made.types
           /\ tables' = [tables EXCEPT ![GlobalTable] = made.globals,
                                       ![CurScope] = Insert(@, name, symbol)]
           /\ errors' = errors \union found
           /\ Continue
           /\ UNCHANGED <<syntax, context, exports, code>>

-----------------------------------------------------------------------------
(* Scopes. *)

WithScope(i) == With(tables, i, EmptyTable)

GenModule ==
  /\ Visiting("module")
  /\ types' = Declare(types, Type("Module", Plain(program[at].name)))
  /\ nodes' = [nodes EXCEPT ![at].slot = NextSlot(types)]
  /\ tables' = WithScope(at)
  /\ Enter("module", at, NextSlot(types))
  /\ Continue
  /\ UNCHANGED <<program, exports, errors, code>>

GenBlock ==
  /\ Visiting("block")
  /\ tables' = WithScope(at)
  /\ Enter("block", at, NoSlot)
  /\ Continue
  /\ UNCHANGED <<syntax, types, exports, errors, code>>

\* MUTANT: the pass does not get past the declaration.
RedeclaredForEver ==
  /\ errors' = errors \union {"invalid redeclaration"}
  /\ UNCHANGED <<stage, at, syntax, context, service, code>>

\* The declaration is not visited any further.
Redeclared ==
  /\ errors' = errors \union {"invalid redeclaration"}
  /\ at' = EndOf(program, at) + 1
  /\ UNCHANGED <<stage, syntax, context, service, code>>

GenClassDecl ==
  LET name == Plain(program[at].name)
  IN /\ Visiting("class")
     /\ \/ name \in DOMAIN CurTable /\ Redeclared
        \/ /\ name \notin DOMAIN CurTable
           /\ types' = Declare(types, Type("Class", name))
           /\ nodes' = [nodes EXCEPT ![at].slot = NextSlot(types)]
           /\ tables' = [WithScope(at) EXCEPT ![CurScope] =
                           Insert(@, name, Symbol("klass", NextSlot(types)))]
           /\ Enter("class", at, NextSlot(types))
           /\ Continue
           /\ UNCHANGED <<program, exports, errors, code>>

\* FuncDecl::bindClass: members take `self` first, a constructor returns its class.
BoundNode(node, item, class) ==
  [node EXCEPT !.params = <<<<SelfName, class>>>> \o @,
               !.result = IF item.op = "init" THEN class ELSE @]

FunctionType(item, name, node) ==
  [Type("Func", name) EXCEPT
     !.funcType = IF item.op = "init" THEN "VM_CInit" ELSE "VM_Func",
     !.static = TypeAt(types, CurDeclType).kind = "Module",
     !.paramCount = Len(node.params),
     !.vars = [k \in DOMAIN node.params |-> Variable(node.params[k][1], NoSlot)]]

GenFuncDecl ==
  LET item == program[at]
      member == CurStage = "class"
      class == TypeAt(types, CurClassType).name
      name == SimpleName(item, class[2])
      node == IF member THEN BoundNode(nodes[at], item, class) ELSE nodes[at]
      symbol == Symbol(IF item.op = "init" THEN "constructor" ELSE "func", NextSlot(types))
  IN /\ program[at].op \in {"func", "init"}
     /\ IF \/ member /\ item.type # NoName                 \* bindClass asserts
           \/ item.op = "init" /\ CurClassType = NoSlot    \* a null class
          THEN Abort({})
          ELSE \/ name \in DOMAIN CurTable /\ Redeclared
               \/ /\ name \notin DOMAIN CurTable
                  /\ types' = Declare(types, FunctionType(item, name, node))
                  /\ nodes' = [nodes EXCEPT ![at] = [node EXCEPT !.slot = NextSlot(types)]]
                  /\ tables' = [WithScope(at) EXCEPT ![CurScope] = Insert(@, name, symbol)]
                  /\ Enter("func", at, NextSlot(types))
                  /\ Continue
                  /\ UNCHANGED <<program, exports, errors, code>>

\* visit(ParameterClause) goes first: the parameters are the function's first
\* symbols.
ParametersLeft ==
  /\ CurScope # GlobalTable /\ at = CurScope + 1
  /\ Cardinality(DOMAIN CurTable) < Len(nodes[CurScope].params)

GenParameter ==
  LET parameter == nodes[CurScope].params[Cardinality(DOMAIN CurTable) + 1]
      made == WithOptional(parameter[2])
  IN /\ ParametersLeft
     /\ IF ~made.ok THEN Abort({}) ELSE
        \/ /\ parameter[1] \in DOMAIN CurTable         \* SymbolTable::insert asserts
           /\ Abort({"duplicate parameter"})
        \/ /\ parameter[1] \notin DOMAIN CurTable
           /\ types' = made.types
           /\ tables' = [tables EXCEPT ![GlobalTable] = made.globals,
                                       ![CurScope] = Insert(@, parameter[1], Symbol("var", NoSlot))]
           /\ UNCHANGED <<syntax, stage, at, context, exports, errors, code>>

-----------------------------------------------------------------------------
(* TypeGenSelfForMemberFunc, over a function that is not static. *)

\* An identifier that names a field becomes `self.x`.
WithSelf(e) ==
  IF Found(e.name) /\ Lookup(e.name).flag = "field" THEN [e EXCEPT !.form = "self"] ELSE e

\* A call of a function that is not static becomes one of a member of self.
SelfCall(e, arguments) ==
  IF TypeAt(types, Lookup(e.name).type).static
    THEN [e EXCEPT !.args = arguments]
    ELSE [e EXCEPT !.args = arguments, !.form = "membercall", !.on = SelfName]

\* The operands of an operation are left as they are.
Rewritten(e) ==
  LET rewritten[x \in Parts(e)] ==
        CASE x.form = "id"   -> WithSelf(x)
          [] x.form = "call" -> SelfCall(x, [k \in DOMAIN x.args |-> rewritten[x.args[k]]])
          [] OTHER           -> x
  IN rewritten[e]

\* The visitor has no case for literals and other members, and takes a name it
\* cannot find for a function.
Supported(e) ==
  LET supported[x \in Parts(e)] ==
        CASE x.form = "call" -> /\ \A k \in DOMAIN x.args : supported[x.args[k]]
                                /\ Found(x.name) /\ TypeAt(types, Lookup(x.name).type).kind = "Func"
          [] OTHER -> x.form \in {"none", "id", "self", "op"}
  IN supported[e]

\* Functions inside have been through this, and are visited again; a call of theirs
\* that was rewritten then is one the visitor has no case for.
MemberBody(f) ==
  \A i \in (f + 1)..(at - 1) :
    /\ program[i].op \in {"assign", "call", "return", "func", "init", "end"}
    /\ Supported(nodes[i].left) /\ Supported(nodes[i].expr)

GenEndOfFunction ==
  LET f == CurScope
  IN /\ Closing({"func", "init"})
     /\ \/ /\ TypeAt(types, nodes[f].slot).static
           /\ UNCHANGED nodes
           /\ Leave /\ Continue /\ UNCHANGED <<program, service, errors, code>>
        \/ /\ ~TypeAt(types, nodes[f].slot).static
           /\ IF ~MemberBody(f) THEN Abort({}) ELSE
                /\ nodes' = [i \in DOMAIN nodes |->
                     IF i \in Body(program, f)
                       THEN [nodes[i] EXCEPT !.left = Rewritten(@), !.expr = Rewritten(@)]
                       ELSE nodes[i]]
                /\ Leave /\ Continue /\ UNCHANGED <<program, service, errors, code>>

-----------------------------------------------------------------------------
(* Ends. *)

GenEndOfBlock ==
  /\ Closing({"block"})
  /\ Leave
  /\ Continue
  /\ UNCHANGED <<syntax, service, errors, code>>

Constructors == {n \in DOMAIN CurTable : CurTable[n].flag = "constructor"}

DefaultConstructor ==
  [k \in 1..2 |-> Item(<<"init", "end">>[k], program[CurScope].depth + 1, "",
                       <<>>, NoName, NoExpr, NoExpr)]

ToInsert(s, new) == SubSeq(s, 1, at - 1) \o new \o SubSeq(s, at, Len(s))

\* processClassConstructors declares the default initialiser and adds a
\* constructor, to be visited next, to a class that has none.
ProcessClassConstructors ==
  LET class == nodes[CurScope].slot
      cinit == [Type("Func", <<"cinit", program[CurScope].name, <<>>>>) EXCEPT
                  !.funcType = "VM_CInit", !.static = TRUE, !.result = class,
                  !.paramCount = 1, !.vars = <<Variable(SelfName, class)>>]
      added == IF Constructors = {} THEN DefaultConstructor ELSE <<>>
  IN /\ Closing({"class"})
     /\ TypeAt(types, class).cinit = NoSlot
     /\ types' = Declare([types EXCEPT ![class + 1].cinit = NextSlot(types)], cinit)
     /\ program' = ToInsert(program, added)
     /\ nodes' = ToInsert(nodes, [k \in DOMAIN added |-> NodeOf(added[k])])
     /\ UNCHANGED <<stage, at, context, tables, exports, errors, code>>

\* The class's constructors become names of the scope it is in.
GenEndOfClass ==
  LET outer == tables[symbols[Len(symbols) - 1]]
  IN /\ Closing({"class"})
     /\ TypeAt(types, nodes[CurScope].slot).cinit # NoSlot
     /\ \/ /\ Constructors \intersect DOMAIN outer # {}
           /\ Abort({})
        \/ /\ Constructors \intersect DOMAIN outer = {}
           /\ tables' = [tables EXCEPT ![symbols[Len(symbols) - 1]] =
                           [n \in DOMAIN outer \union Constructors |->
                              IF n \in Constructors THEN CurTable[n] ELSE outer[n]]]
           /\ exports' = With(exports, nodes[CurScope].slot, CurScope)
           /\ Leave
           /\ Continue
           /\ UNCHANGED <<syntax, types, errors, code>>

GenEndOfModule ==
  /\ Closing({"module"})
  /\ Leave
  /\ EndStage("binding")
  /\ UNCHANGED <<syntax, service, errors, code>>

GenDeclaration ==
  \/ GenModule \/ GenClassDecl \/ GenFuncDecl \/ GenVarDecl \/ GenBlock \/ GenStatement
  \/ GenEndOfBlock \/ GenEndOfFunction
  \/ ProcessClassConstructors \/ GenEndOfClass \/ GenEndOfModule

Generate ==
  /\ stage = "typegen"
  /\ \/ GenParameter
     \/ ~ParametersLeft /\ GenDeclaration
=============================================================================

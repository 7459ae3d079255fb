---------------------------- MODULE Compilation -----------------------------
(***************************************************************************)
(* What the compiler's passes share: the syntax tree, the type table, the  *)
(* symbol tables and CompileContext, which knows where a visitor is.       *)
(*                                                                         *)
(* A program is the sequence of its nodes in source order; one that opens  *)
(* a scope is closed by an "end".  Nodes are known by their position, and  *)
(* `depth` counts the scopes a node is in.                                 *)
(***************************************************************************)
EXTENDS TypeTable, FiniteSets, FiniteSetsExt

\* An expression: a literal, a variable, `self.x`, `o.x`, `x!`, `a[i]`, an operation,
\* an array, a dictionary, a call, `o.f()`.  `args` are the expressions it is made
\* of, `on` the name of a call's object.  The passes give it a type and the function
\* it calls, report its errors, and may not come to the end of it.
Expression(form, name, args, on) ==
  [form |-> form, name |-> name, args |-> args, on |-> on, slot |-> NoSlot, func |-> NoSlot,
   errors |-> {}, ok |-> TRUE]

NoName == <<"none", "", <<>>>>
NoExpr == Expression("none", NoName, <<>>, NoName)

\* Parameters are pairs of a name and a type's name.  `type` is a variable's
\* annotation or a function's result, `left` what an assignment assigns to.
Item(op, depth, name, params, type, left, expr) ==
  [op |-> op, depth |-> depth, name |-> name, params |-> params, type |-> type,
   left |-> left, expr |-> expr]

Scopes == {"module", "class", "func", "init", "block"}

\* Scopes nest, and the module is around everything.
Inside(item) == IF item.op \in Scopes THEN item.depth + 1 ELSE item.depth

IsTree(p) ==
  /\ p \in Seq(ToSet(p)) /\ Len(p) > 1 /\ p[Len(p)].op = "end"
  /\ \A i \in 1..Len(p) :
       /\ p[i].depth \in Nat
       /\ p[i].depth = 0 <=> i \in {1, Len(p)}
       /\ p[i].op = "module" <=> i = 1
  /\ \A i \in 2..Len(p) :
       p[i].depth = IF p[i].op = "end" THEN Inside(p[i - 1]) - 1 ELSE Inside(p[i - 1])

CONSTANT Programs         (* sets of programs that may be compiled         *)

ASSUME ProgramsAreTrees == \A k \in DOMAIN Programs : \A p \in Programs[k] : IsTree(p)

ASSUME ParametersAreLists ==
  \A k \in DOMAIN Programs : \A p \in Programs[k] :
    \A i \in DOMAIN p : p[i].params \in Seq(ToSet(p[i].params))

VARIABLES
  program,      (* the module's nodes; <<>> when there is no module        *)
  nodes,        (* what the passes write to a node                         *)
  stage,        (* the stage of compile                                    *)
  at,           (* the node the running pass visits next                   *)
  stages,       (* CompileContext::stages                                  *)
  symbols,      (* CompileContext::symbols, tables by their node           *)
  declTypes,    (* CompileContext::types                                   *)
  types,        (* the type table                                          *)
  tables,       (* every symbol table: of a node, or a global one          *)
  exports,      (* exportingSymbolTableOfClasses: class slot to table      *)
  errors,       (* what Diagnostics holds                                  *)
  code          (* the instructions emitted, with function and node        *)

syntax  == <<program, nodes>>
context == <<stages, symbols, declTypes>>
service == <<types, tables, exports>>
vars    == <<syntax, stage, at, context, service, errors, code>>

-----------------------------------------------------------------------------
(* Symbols and their tables. *)

Symbol(flag, type) ==
  [flag |-> flag, type |-> type, parent |-> NoSlot, loc |-> NoSlot, static |-> FALSE]

EmptyTable == <<>>

\* A map with one more key, or another value for one.
With(map, key, value) ==
  [k \in DOMAIN map \union {key} |-> IF k = key THEN value ELSE map[k]]

\* SymbolTable::insert, when the name is new.
Insert(table, name, symbol) ==
  With(table, name, [symbol EXCEPT !.loc = Cardinality(DOMAIN table)])

GlobalTable == 0

FlagOf(slot) == IF TypeAt(BootTypes, slot).kind = "Func" THEN "func" ELSE "klass"

\* Symbols are inserted in the order of their slots, each of another name.
BootTable(slots) ==
  [name \in {TypeAt(BootTypes, s).name : s \in slots} |->
     LET slot == CHOOSE s \in slots : TypeAt(BootTypes, s).name = name
     IN [Symbol(FlagOf(slot), slot) EXCEPT !.loc = Cardinality({s \in slots : s < slot})]]

\* The table of a built-in class is known by the class's slot, negated.
BootTables ==
  With([t \in {-c : c \in DOMAIN BuiltInClasses} |-> BootTable(BuiltInClasses[-t])],
       GlobalTable, BootTable(GlobalSlots))

-----------------------------------------------------------------------------
(* CompileContext. *)

CurStage == Last(stages)
CurTable == tables[Last(symbols)]

\* The node whose scope is being visited.
CurScope == Last(symbols)

\* CompileContext::lookup: the innermost table that has the name.
FoundIn(stack, name) == \E k \in DOMAIN stack : name \in DOMAIN tables[stack[k]]
LookupIn(stack, name) ==
  tables[stack[Max({k \in DOMAIN stack : name \in DOMAIN tables[stack[k]]})]][name]

Found(name) == FoundIn(symbols, name)
Lookup(name) == LookupIn(symbols, name)

Innermost(kinds) ==
  LET within == {k \in DOMAIN declTypes : TypeAt(types, declTypes[k]).kind \in kinds}
  IN IF within = {} THEN NoSlot ELSE declTypes[Max(within)]

CurDeclType  == Innermost({"Func", "Class", "Module"})
CurFuncType  == Innermost({"Func"})
CurClassType == Innermost({"Class"})

\* CompileContext::visit, before and after the visit of node i's children; the
\* node's type is looked at both times.
Enter(visitStage, i, slot) ==
  /\ stages' = Append(stages, visitStage)
  /\ symbols' = Append(symbols, i)
  /\ declTypes' = IF slot = NoSlot THEN declTypes ELSE Append(declTypes, slot)

\* MUTANT: a type is popped behind every scope.
LeaveWithType ==
  /\ stages' = Front(stages)
  /\ symbols' = Front(symbols)
  /\ declTypes' = Front(declTypes)

Leave ==
  /\ stages' = Front(stages)
  /\ symbols' = Front(symbols)
  /\ declTypes' = IF nodes[CurScope].slot = NoSlot THEN declTypes ELSE Front(declTypes)

-----------------------------------------------------------------------------
(* The syntax tree, and the visitors' way through it. *)

\* What the passes know of a node: its type, its parameters and result once
\* bindClass has added to them, its expressions once they are rewritten and bound.
NodeOf(item) ==
  [slot |-> NoSlot, params |-> item.params, result |-> item.type,
   left |-> item.left, expr |-> item.expr]

\* An expression and everything it is made of; none is deeper than this.
ExprDepth == 5
Parts(e) ==
  LET within[depth \in 0..ExprDepth] ==
        IF depth = 0 THEN {e}
        ELSE UNION {{x} \union ToSet(x.args) : x \in within[depth - 1]}
  IN within[ExprDepth]

\* Node::getSimpleName of an expression.
NameOf(e) ==
  CASE e.form = "id" -> e.name
    [] e.form = "unwrap" /\ e.args[1].form = "id" -> e.args[1].name
    [] OTHER -> NoName

\* The "end" of the scope node i opens.
EndOf(p, i) == Min({j \in (i + 1)..Len(p) : p[j].depth = p[i].depth})

\* The nodes whose scope node i is in, itself not among them.
Around(p, i) ==
  {s \in 1..(i - 1) : p[s].op \in Scopes /\ \A j \in (s + 1)..i : p[j].depth > p[s].depth}

\* The statements and members of a scope.
Body(p, s) ==
  {i \in (s + 1)..(EndOf(p, s) - 1) : p[i].op # "end" /\ p[i].depth = p[s].depth + 1}

Visiting(op) == program[at].op = op

\* The visit of the end of a scope opened by one of the ops.
Closing(ops) == Visiting("end") /\ program[CurScope].op \in ops

Continue == at' = at + 1 /\ UNCHANGED stage

\* An assertion, or a null pointer, ends the program.
Abort(reported) ==
  /\ stage' = "aborted"
  /\ errors' = errors \union reported
  /\ UNCHANGED <<syntax, at, context, service, code>>

\* MUTANT: only the parser's errors end the compilation.
EndStageOfParser(next) ==
  /\ stage' = IF "syntax" \notin errors THEN next ELSE "stopped"
  /\ at' = 1

\* CHECK_ERROR_RETURN_NULL behind each stage of compile.
EndStage(next) ==
  /\ stage' = IF errors = {} THEN next ELSE "stopped"
  /\ at' = 1
=============================================================================

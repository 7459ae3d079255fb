--------------------------- MODULE CompilerProofs ---------------------------
(***************************************************************************)
(* For every program: what is compiled is free of errors, a type keeps its *)
(* slot, the context's stacks are the scopes around the node a pass is at, *)
(* and symbols name the types of their names, whichever passes run over it *)
(* and wherever they end.                                                  *)
(***************************************************************************)
EXTENDS Compiler, Induction, SequenceTheorems, FiniteSetTheorems, TLAPS

(* No code, as long as a pass before the generator runs; none of their errors, as
   soon as there may be code.  *)
CodeComesLast ==
  /\ stage \in {"parsed", "typegen", "binding", "irgen", "done", "stopped", "aborted"}
  /\ stage \in {"parsed", "typegen", "binding"} => code = <<>>
  /\ stage = "irgen" => errors \subseteq {NoVariable}
  /\ stage = "done" => errors = {}
  /\ stage \in {"stopped", "aborted"} => code = <<>> \/ errors \subseteq {NoVariable}

-----------------------------------------------------------------------------
\* Where a step of a pass may lead that is not the generating one.
OnlyReports(pass, next) ==
  /\ code' = code
  /\ \/ stage' \in {pass, "aborted"}
     \/ stage' = IF errors = {} THEN next ELSE "stopped"
  /\ stage' = next => errors' = {}

\* TypeGen takes no report back.
LEMMA GenerateReports ==
  ASSUME Generate
  PROVE  OnlyReports("typegen", "binding")
<1> USE DEF OnlyReports, Abort, Continue, syntax, context, service
<1>1. stage = "typegen"
  BY DEF Generate
<1>2. CASE GenParameter
  BY <1>1, <1>2 DEF GenParameter
<1>3. CASE GenModule
  BY <1>1, <1>3 DEF GenModule
<1>4. CASE GenClassDecl
  BY <1>1, <1>4 DEF GenClassDecl, Redeclared
<1>5. CASE GenFuncDecl
  BY <1>1, <1>5 DEF GenFuncDecl, Redeclared
<1>6. CASE GenVarDecl
  BY <1>1, <1>6 DEF GenVarDecl
<1>7. CASE GenBlock
  BY <1>1, <1>7 DEF GenBlock
<1>8. CASE GenStatement
  BY <1>1, <1>8 DEF GenStatement
<1>9. CASE GenEndOfBlock
  BY <1>1, <1>9 DEF GenEndOfBlock
<1>10. CASE GenEndOfFunction
  BY <1>1, <1>10 DEF GenEndOfFunction
<1>11. CASE ProcessClassConstructors
  BY <1>1, <1>11 DEF ProcessClassConstructors
<1>12. CASE GenEndOfClass
  BY <1>1, <1>12 DEF GenEndOfClass
<1>13. CASE GenEndOfModule
  BY <1>1, <1>13 DEF GenEndOfModule, EndStage
<1>14. QED
  BY <1>2, <1>3, <1>4, <1>5, <1>6, <1>7, <1>8, <1>9, <1>10, <1>11, <1>12, <1>13
     DEF Generate, GenDeclaration

\* TypeBinding takes no report back.
LEMMA BindTypesReports ==
  ASSUME BindTypes
  PROVE  OnlyReports("binding", "irgen")
<1> USE DEF OnlyReports, Abort, Continue, syntax, context, service
<1>1. stage = "binding"
  BY DEF BindTypes
<1>2. CASE BindModule
  BY <1>1, <1>2 DEF BindModule
<1>3. CASE BindClassDecl
  BY <1>1, <1>3 DEF BindClassDecl
<1>4. CASE BindBlock
  BY <1>1, <1>4 DEF BindBlock
<1>5. CASE BindFuncDecl
  BY <1>1, <1>5 DEF BindFuncDecl
<1>6. CASE BindVarDecl
  BY <1>1, <1>6 DEF BindVarDecl, BindVariable
<1>7. CASE BindStatement
  BY <1>1, <1>7 DEF BindStatement, BindExpressions
<1>8. CASE BindEnd
  BY <1>1, <1>8 DEF BindEnd, EndStage
<1>9. QED
  BY <1>2, <1>3, <1>4, <1>5, <1>6, <1>7, <1>8 DEF BindTypes

\* The generating pass reports a variable without a place at most.
LEMMA EmitCodeReports ==
  ASSUME EmitCode, errors \subseteq {NoVariable}
  PROVE  /\ errors' \subseteq {NoVariable}
         /\ stage' \in {"irgen", "done", "stopped", "aborted"}
         /\ stage' = "done" => errors' = {}
<1> USE DEF Abort, Continue, syntax, context, service
<1>1. stage = "irgen"
  BY DEF EmitCode
<1>2. \A emitted :
        EmitItem(emitted) => errors' \subseteq {NoVariable} /\ stage' \in {"irgen", "aborted"}
  BY <1>1 DEF EmitItem
<1>3. CASE EmitModule
  BY <1>1, <1>3 DEF EmitModule
<1>4. CASE EmitClassDecl
  BY <1>1, <1>4 DEF EmitClassDecl
<1>5. CASE EmitFuncDecl
  BY <1>1, <1>5 DEF EmitFuncDecl
<1>6. CASE EmitBlock
  BY <1>1, <1>6 DEF EmitBlock
<1>7. CASE EmitVarDecl
  BY <1>2, <1>7 DEF EmitVarDecl
<1>8. CASE EmitAssign
  BY <1>2, <1>8 DEF EmitAssign
<1>9. CASE EmitFuncCall
  BY <1>2, <1>9 DEF EmitFuncCall
<1>10. CASE EmitReturn
  BY <1>2, <1>10 DEF EmitReturn
<1>11. CASE EmitEnd
  BY <1>1, <1>11 DEF EmitEnd, EndStage
<1>12. QED
  BY <1>3, <1>4, <1>5, <1>6, <1>7, <1>8, <1>9, <1>10, <1>11 DEF EmitCode

(* No code is generated for a program a pass before the generator reported an error
   in, and no module is handed on with one: those passes leave no code, and the pass
   that generates is reached without errors (compiler+service.cpp:15, 53).  *)
THEOREM ThmNoCodeForErrors == Spec => []NoCodeForErrors
<1>1. Init => CodeComesLast
  BY DEF Init, CodeComesLast
<1>2. CodeComesLast /\ [Next]_vars => CodeComesLast'
  <2> SUFFICES ASSUME CodeComesLast, [Next]_vars PROVE CodeComesLast'
    OBVIOUS
  <2>1. CASE Parsed
    BY <2>1 DEF Parsed, EndStage, Abort, CodeComesLast, syntax, context, service
  <2>2. CASE Generate
    <3>1. stage = "typegen"
      BY <2>2 DEF Generate
    <3>2. QED
      BY <2>2, <3>1, GenerateReports DEF OnlyReports, CodeComesLast
  <2>3. CASE BindTypes
    <3>1. stage = "binding"
      BY <2>3 DEF BindTypes
    <3>2. QED
      BY <2>3, <3>1, BindTypesReports DEF OnlyReports, CodeComesLast
  <2>4. CASE EmitCode
    <3>1. stage = "irgen"
      BY <2>4 DEF EmitCode
    <3>2. QED
      BY <2>4, <3>1, EmitCodeReports DEF CodeComesLast
  <2>5. CASE UNCHANGED vars
    BY <2>5 DEF vars, CodeComesLast
  <2>6. QED
    BY <2>1, <2>2, <2>3, <2>4, <2>5 DEF Next
<1>3. CodeComesLast => NoCodeForErrors
  BY DEF CodeComesLast, NoCodeForErrors
<1>4. QED
  BY <1>1, <1>2, <1>3, PTL DEF Spec

-----------------------------------------------------------------------------
(* The type table. *)

Named(type) == {"kind", "name"} \subseteq DOMAIN type

IsTable(t) == \E S : t \in Seq(S) /\ \A type \in S : Named(type)

\* Every type keeps its slot, its kind and its name.
Keeps(t, u) ==
  /\ Len(t) <= Len(u)
  /\ \A k \in 1..Len(t) : u[k].kind = t[k].kind /\ u[k].name = t[k].name

\* A table follows one when it keeps its types.
Follows(u, t) == IsTable(u) /\ Keeps(t, u)

\* What is in a table stays when nothing is declared.
LEMMA TableFollowsItself ==
  ASSUME NEW t, IsTable(t)
  PROVE  Follows(t, t) /\ Len(t) \in Nat /\ \A k \in 1..Len(t) : Named(t[k])
<1>1. PICK S : t \in Seq(S) /\ \A type \in S : Named(type)
  BY DEF IsTable
<1>2. Len(t) \in Nat /\ \A k \in 1..Len(t) : t[k] \in S
  BY <1>1, ElementOfSeq, LenProperties
<1>3. QED
  BY <1>1, <1>2 DEF Follows, Keeps

\* What stays in two steps stays in both together.
LEMMA FollowsIsTransitive ==
  ASSUME NEW t, NEW u, NEW w, IsTable(t), Follows(u, t), Follows(w, u)
  PROVE  Follows(w, t)
<1>1. Len(t) \in Nat /\ Len(u) \in Nat /\ Len(w) \in Nat
  BY TableFollowsItself DEF Follows
<1>2. QED
  BY <1>1 DEF Follows, Keeps

\* A declaration puts a type behind those that are there.
LEMMA DeclaredFollows ==
  ASSUME NEW t, IsTable(t), NEW type, Named(type)
  PROVE  Follows(Declare(t, type), t)
<1>1. PICK S : t \in Seq(S) /\ \A x \in S : Named(x)
  BY DEF IsTable
<1> DEFINE R == S \union {type}
<1>2. t \in Seq(R)
  BY <1>1, SeqMonotonic
<1>3. /\ Append(t, type) \in Seq(R)
      /\ Len(Append(t, type)) = Len(t) + 1
      /\ \A k \in 1..Len(t) : Append(t, type)[k] = t[k]
  BY <1>2, AppendProperties
<1>4. Len(t) \in Nat
  BY TableFollowsItself
<1>5. \A x \in R : Named(x)
  BY <1>1
<1>6. QED
  BY <1>3, <1>4, <1>5 DEF Follows, IsTable, Keeps, Declare

\* What is changed in a type is neither its kind nor its name.
LEMMA ChangedFollows ==
  ASSUME NEW t, IsTable(t), NEW i, NEW type,
         i \in 1..Len(t) => Named(type) /\ type.kind = t[i].kind /\ type.name = t[i].name
  PROVE  Follows([t EXCEPT ![i] = type], t)
<1>1. PICK S : t \in Seq(S) /\ \A x \in S : Named(x)
  BY DEF IsTable
<1>2. Len(t) \in Nat /\ t \in [1..Len(t) -> S] /\ \A k \in 1..Len(t) : t[k] \in S
  BY <1>1, ElementOfSeq, LenProperties
<1> DEFINE u == [t EXCEPT ![i] = type]
<1>3. CASE i \notin 1..Len(t)
  <2>1. u = t
    BY <1>2, <1>3
  <2>2. QED
    BY <2>1, TableFollowsItself
<1>4. CASE i \in 1..Len(t)
  <2> DEFINE R == S \union {type}
  <2>1. u \in [1..Len(t) -> R]
    BY <1>2, <1>4
  <2>2. u \in Seq(R) /\ Len(u) = Len(t)
    BY <2>1, <1>2, SeqDef, LenProperties
  <2>3. \A k \in 1..Len(t) : u[k] = IF k = i THEN type ELSE t[k]
    BY <1>2
  <2>4. \A x \in R : Named(x)
    BY <1>1, <1>4
  <2>5. QED
    BY <2>2, <2>3, <2>4, <1>2, <1>4 DEF Follows, IsTable, Keeps
<1>5. QED
  BY <1>3, <1>4

\* So does an optional type, and the links it sets move nothing.
LEMMA OptionalFollows ==
  ASSUME NEW t, IsTable(t), NEW name, NEW wrapped
  PROVE  Follows(DeclareOptional(t, name, wrapped), t)
<1> DEFINE type == [t[wrapped + 1] EXCEPT !.link = NextSlot(t)]
           u == [t EXCEPT ![wrapped + 1] = type]
           optional == [Type("Optional", name) EXCEPT !.link = wrapped]
<1>1. wrapped + 1 \in 1..Len(t) =>
        Named(type) /\ type.kind = t[wrapped + 1].kind /\ type.name = t[wrapped + 1].name
  BY TableFollowsItself DEF Named
<1>2. Follows(u, t)
  BY <1>1, ChangedFollows
<1>3. Named(optional)
  BY DEF Named, Type
<1>4. Follows(Declare(u, optional), u)
  BY <1>2, <1>3, DeclaredFollows DEF Follows
<1>5. DeclareOptional(t, name, wrapped) = Declare(u, optional)
  BY DEF DeclareOptional
<1>6. QED
  BY <1>2, <1>4, <1>5, FollowsIsTransitive

\* Tables of named types put together are one.
LEMMA ConcatenatedTables ==
  ASSUME NEW t, IsTable(t), NEW u, IsTable(u)
  PROVE  IsTable(t \o u)
<1>1. PICK S : t \in Seq(S) /\ \A x \in S : Named(x)
  BY DEF IsTable
<1>2. PICK R : u \in Seq(R) /\ \A x \in R : Named(x)
  BY DEF IsTable
<1>3. t \in Seq(S \union R) /\ u \in Seq(S \union R)
  BY <1>1, <1>2, SeqMonotonic
<1>4. t \o u \in Seq(S \union R)
  BY <1>3, ConcatProperties
<1>5. \A x \in S \union R : Named(x)
  BY <1>1, <1>2
<1>6. QED
  BY <1>4, <1>5 DEF IsTable

\* The built-in types and the modules have names.
LEMMA TypesAreNamed ==
  /\ \A kind, name : Named(Type(kind, name))
  /\ \A k, param, result : Named(GlobalFunction(k, param, result))
  /\ \A k, funcType, result : Named(MemberFunction(k, funcType, result))
  /\ \A item, name, node : Named(FunctionType(item, name, node))
BY DEF Named, Type, GlobalFunction, MemberFunction, FunctionType

\* What the bootstrap declares is a table.
LEMMA BootTypesAreATable == IsTable(BootTypes)
<1> DEFINE values == [v \in DOMAIN ValueTypes |-> Type(ValueTypes[v], Plain(ValueTypes[v]))]
           globals == <<GlobalFunction(1, AnySlot, VoidSlot),
                        GlobalFunction(2, IntSlot, AnySlot),
                        GlobalFunction(3, BoolSlot, AnySlot),
                        GlobalFunction(4, AnySlot, 10),
                        GlobalFunction(5, BuiltIn(6), IntSlot)>>
           wrapsInt == DeclareOptional(values \o globals, OptionalOf("Int"), IntSlot)
           optionals == DeclareOptional(wrapsInt, OptionalOf("Bool"), BoolSlot)
           members == <<Type("Class", Plain("Array")),
                        MemberFunction(9, "C_Func", IntSlot),
                        MemberFunction(10, "C_Func", AnySlot),
                        MemberFunction(11, "C_Func", VoidSlot),
                        Type("Class", Plain("Dict")),
                        MemberFunction(13, "C_CInit", BuiltIn(12)),
                        MemberFunction(14, "C_Func", VoidSlot),
                        MemberFunction(15, "C_Func", BuiltIn(6)),
                        Type("Class", Plain("DictEntry")),
                        Type("Class", Plain("StringBuilder")),
                        MemberFunction(18, "C_Func", BuiltIn(17)),
                        MemberFunction(19, "C_Func", StringSlot)>>
<1>1. IsTable(values)
  <2> DEFINE S == {values[v] : v \in 1..7}
  <2>1. DOMAIN ValueTypes = 1..7
    BY DEF ValueTypes
  <2>2. values \in [1..7 -> S]
    BY <2>1
  <2>3. values \in Seq(S)
    BY <2>2, SeqDef
  <2>4. \A x \in S : Named(x)
    BY <2>1, TypesAreNamed
  <2>5. QED
    BY <2>3, <2>4 DEF IsTable
<1>2. IsTable(globals)
  <2> DEFINE S == {globals[k] : k \in 1..5}
  <2>1. globals \in Seq(S)
    OBVIOUS
  <2>2. \A x \in S : Named(x)
    BY TypesAreNamed
  <2>3. QED
    BY <2>1, <2>2 DEF IsTable
<1>3. IsTable(members)
  <2> DEFINE S == {members[k] : k \in 1..12}
  <2>1. members \in Seq(S)
    OBVIOUS
  <2>2. \A x \in S : Named(x)
    BY TypesAreNamed
  <2>3. QED
    BY <2>1, <2>2 DEF IsTable
<1> HIDE DEF values, globals, members
<1>4. IsTable(optionals)
  BY <1>1, <1>2, ConcatenatedTables, OptionalFollows DEF Follows
<1>5. BootTypes = optionals \o members
  BY DEF BootTypes, values, globals, members
<1>6. QED
  BY <1>3, <1>4, <1>5, ConcatenatedTables

-----------------------------------------------------------------------------
(* What the passes do to the type table. *)

\* Binding the annotations of a program moves no type.
LEMMA AnnotationsFollow ==
  ASSUME IsTable(types), NEW annotation
  PROVE  Follows(WithOptional(annotation).types, types)
<1>1. \/ WithOptional(annotation).types = types
      \/ \E wrapped :
           WithOptional(annotation).types = DeclareOptional(types, annotation, wrapped)
  BY DEF WithOptional
<1>2. QED
  BY <1>1, OptionalFollows, TableFollowsItself

\* TypeGen moves no type.
LEMMA GenerateFollows ==
  ASSUME IsTable(types), Generate
  PROVE  Follows(types', types)
<1> USE DEF Abort, service
<1>1. types' = types => Follows(types', types)
  BY TableFollowsItself
<1>2. CASE GenParameter
  BY <1>1, <1>2, AnnotationsFollow DEF GenParameter
<1>3. CASE GenModule
  BY <1>3, DeclaredFollows, TypesAreNamed DEF GenModule
<1>4. CASE GenClassDecl
  BY <1>1, <1>4, DeclaredFollows, TypesAreNamed DEF GenClassDecl, Redeclared
<1>5. CASE GenFuncDecl
  <2>1. \/ types' = types
        \/ \E item, name, node : types' = Declare(types, FunctionType(item, name, node))
    BY <1>5, ZenonT(30) DEF GenFuncDecl, Redeclared
  <2>2. QED
    BY <1>1, <2>1, DeclaredFollows, TypesAreNamed
<1>6. CASE GenVarDecl
  BY <1>1, <1>6, AnnotationsFollow DEF GenVarDecl
<1>7. CASE GenBlock
  BY <1>1, <1>7 DEF GenBlock
<1>8. CASE GenStatement
  BY <1>1, <1>8 DEF GenStatement
<1>9. CASE GenEndOfBlock
  BY <1>1, <1>9 DEF GenEndOfBlock
<1>10. CASE GenEndOfFunction
  BY <1>1, <1>10 DEF GenEndOfFunction
<1>11. CASE ProcessClassConstructors
  <2> DEFINE class == nodes[CurScope].slot
             type == [types[class + 1] EXCEPT !.cinit = NextSlot(types)]
             cinit == [Type("Func", <<"cinit", program[CurScope].name, <<>>>>) EXCEPT
                         !.funcType = "VM_CInit", !.static = TRUE, !.result = class,
                         !.paramCount = 1, !.vars = <<Variable(SelfName, class)>>]
             u == [types EXCEPT ![class + 1] = type]
  <2>1. Follows(u, types)
    BY TableFollowsItself, ChangedFollows DEF Named
  <2>2. Named(cinit)
    BY DEF Named, Type
  <2>3. Follows(Declare(u, cinit), u)
    BY <2>1, <2>2, DeclaredFollows DEF Follows
  <2>4. types' = Declare(u, cinit)
    BY <1>11 DEF ProcessClassConstructors
  <2>5. QED
    BY <2>1, <2>3, <2>4, FollowsIsTransitive
<1>12. CASE GenEndOfClass
  BY <1>1, <1>12 DEF GenEndOfClass
<1>13. CASE GenEndOfModule
  BY <1>1, <1>13 DEF GenEndOfModule
<1>14. QED
  BY <1>2, <1>3, <1>4, <1>5, <1>6, <1>7, <1>8, <1>9, <1>10, <1>11, <1>12, <1>13
     DEF Generate, GenDeclaration

\* TypeBinding moves no type.
LEMMA BindTypesFollows ==
  ASSUME IsTable(types), BindTypes
  PROVE  Follows(types', types)
<1> USE DEF Abort, service
<1>1. types' = types => Follows(types', types)
  BY TableFollowsItself
<1>2. CASE BindModule
  BY <1>1, <1>2 DEF BindModule
<1>3. CASE BindClassDecl
  BY <1>1, <1>3 DEF BindClassDecl
<1>4. CASE BindBlock
  BY <1>1, <1>4 DEF BindBlock
<1>5. CASE BindFuncDecl
  <2>1. \/ types' = types
        \/ \E i, result, locals :
             types' = [types EXCEPT ![i].result = result, ![i].vars = locals]
    <3> DEFINE node == nodes[at]
               scope == Append(symbols, at)
               result == IF node.result = NoName THEN VoidSlot ELSE SlotIn(scope, node.result)
               slots == [k \in DOMAIN node.params |-> SlotIn(scope, node.params[k][2])]
               locals == [k \in DOMAIN slots |-> Variable(node.params[k][1], slots[k])]
    <3>1. \/ types' = types
          \/ types' = [types EXCEPT ![node.slot + 1].result = result,
                                    ![node.slot + 1].vars = locals]
      BY <1>5, Zenon DEF BindFuncDecl
    <3> HIDE DEF result, locals
    <3>2. QED
      BY <3>1
  <2>2. ASSUME NEW i, NEW result, NEW locals,
               types' = [types EXCEPT ![i].result = result, ![i].vars = locals]
        PROVE  Follows(types', types)
    <3> DEFINE first == [types EXCEPT ![i] = [@ EXCEPT !.result = result]]
               second == [first EXCEPT ![i] = [@ EXCEPT !.vars = locals]]
    <3>1. Follows(first, types)
      BY TableFollowsItself, ChangedFollows DEF Named
    <3>2. IsTable(first)
      BY <3>1 DEF Follows
    <3> HIDE DEF first
    <3>3. Follows(second, first)
      BY <3>2, TableFollowsItself, ChangedFollows DEF Named
    <3>4. types' = second
      BY <2>2 DEF first
    <3>5. QED
      BY <3>1, <3>3, <3>4, FollowsIsTransitive
  <2>3. QED
    BY <1>1, <2>1, <2>2
<1>6. CASE BindVarDecl
  <2>1. \/ types' = types
        \/ \E i, locals : types' = [types EXCEPT ![i] = [@ EXCEPT !.vars = locals]]
    BY <1>6 DEF BindVarDecl, BindVariable
  <2>2. QED
    BY <1>1, <2>1, TableFollowsItself, ChangedFollows DEF Named
<1>7. CASE BindStatement
  BY <1>1, <1>7 DEF BindStatement, BindExpressions
<1>8. CASE BindEnd
  BY <1>1, <1>8 DEF BindEnd
<1>9. QED
  BY <1>2, <1>3, <1>4, <1>5, <1>6, <1>7, <1>8 DEF BindTypes

\* IRGen moves no type.
LEMMA EmitCodeFollows ==
  ASSUME IsTable(types), EmitCode
  PROVE  Follows(types', types)
<1> USE DEF Abort, service
<1>1. types' = types => Follows(types', types)
  BY TableFollowsItself
<1>2. \A emitted : EmitItem(emitted) => types' = types
  BY DEF EmitItem
<1>3. CASE EmitEnd
  <2>1. \A name : Named([Type("Func", name) EXCEPT !.static = TRUE])
    BY DEF Named, Type
  <2>2. QED
    BY <1>1, <1>3, <2>1, DeclaredFollows DEF EmitEnd
<1>4. CASE EmitModule \/ EmitClassDecl \/ EmitFuncDecl \/ EmitBlock
  BY <1>1, <1>4 DEF EmitModule, EmitClassDecl, EmitFuncDecl, EmitBlock
<1>5. CASE EmitVarDecl
  BY <1>1, <1>2, <1>5 DEF EmitVarDecl
<1>6. CASE EmitAssign
  BY <1>1, <1>2, <1>6 DEF EmitAssign
<1>7. CASE EmitFuncCall
  BY <1>1, <1>2, <1>7 DEF EmitFuncCall
<1>8. CASE EmitReturn
  BY <1>1, <1>2, <1>8 DEF EmitReturn
<1>9. QED
  BY <1>3, <1>4, <1>5, <1>6, <1>7, <1>8 DEF EmitCode

\* Whichever step is taken, the table is one that follows on what it was,
LEMMA NextFollows == IsTable(types) /\ [Next]_vars => Follows(types', types)
<1> SUFFICES ASSUME IsTable(types), [Next]_vars PROVE Follows(types', types)
  OBVIOUS
<1>1. CASE Parsed
  BY <1>1, TableFollowsItself DEF Parsed, Abort, service
<1>2. CASE UNCHANGED vars
  BY <1>2, TableFollowsItself DEF vars, service
<1>3. QED
  BY <1>1, <1>2, GenerateFollows, BindTypesFollows, EmitCodeFollows DEF Next

\* and it stays a table.
LEMMA TableStays == IsTable(types) /\ [Next]_vars => IsTable(types)'
BY NextFollows DEF Follows, IsTable

(* A type keeps its slot, its kind and its name: the passes only add types behind
   those there are, or change what else a type holds.  Slots may be kept as numbers
   in nodes, symbols and code (compiler+service.cpp:98).  *)
THEOREM ThmSlotsAreStable == Spec => SlotsAreStable
<1>1. Init => IsTable(types)
  BY BootTypesAreATable DEF Init
<1>2. IsTable(types) /\ [Next]_vars => IsTable(types)'
  BY TableStays
<1>3. IsTable(types) /\ [Next]_vars =>
        [/\ Len(types) <= Len(types')
         /\ \A k \in 1..Len(types) : /\ types'[k].kind = types[k].kind
                                     /\ types'[k].name = types[k].name]_vars
  BY NextFollows DEF Follows, Keeps
<1>4. QED
  BY <1>1, <1>2, <1>3, PTL DEF Spec, SlotsAreStable

-----------------------------------------------------------------------------
(* The tree a program is. *)

\* What is between two nodes whose depth is the same is deeper, and the second
\* ends the scope the first opens.
Encloses(p, s, e) ==
  /\ e \in (s + 1)..Len(p) /\ p[e].op = "end" /\ p[e].depth = p[s].depth
  /\ \A j \in (s + 1)..(e - 1) : p[j].depth > p[s].depth

\* A program is a sequence of nodes,
LEMMA TreeIsSequence ==
  ASSUME NEW p, IsTree(p)
  PROVE  /\ Len(p) \in Nat /\ Len(p) > 1 /\ DOMAIN p = 1..Len(p)
         /\ p[Len(p)].op = "end" /\ p[Len(p)].depth = 0 /\ Inside(p[Len(p)]) = 0
<1>1. Len(p) \in Nat /\ DOMAIN p = 1..Len(p) /\ Len(p) > 1 /\ p[Len(p)].op = "end"
  BY LenProperties DEF IsTree
<1>2. p[Len(p)].depth = 0
  <2>1. Len(p) \in 1..Len(p) /\ Len(p) \in {1, Len(p)}
    BY <1>1
  <2>2. QED
    BY <2>1 DEF IsTree
<1>3. QED
  BY <1>1, <1>2 DEF Inside, Scopes

\* and these have a depth.
LEMMA NodeOfTree ==
  ASSUME NEW p, IsTree(p)
  PROVE  \A i \in 1..Len(p) :
           /\ p[i].depth \in Nat
           /\ Inside(p[i]) = IF p[i].op \in Scopes THEN p[i].depth + 1 ELSE p[i].depth
           /\ Inside(p[i]) \in Nat
           /\ p[i].op = "end" => p[i].op \notin Scopes
BY DEF IsTree, Inside, Scopes

\* The end of a scope is where it looks for it.
LEMMA EndIsFound ==
  ASSUME NEW p, IsTree(p), NEW s \in 1..Len(p), NEW e, Encloses(p, s, e)
  PROVE  EndOf(p, s) = e
<1> DEFINE T == {j \in (s + 1)..Len(p) : p[j].depth = p[s].depth}
<1>1. Len(p) \in Nat /\ \A i \in 1..Len(p) : p[i].depth \in Nat
  BY TreeIsSequence, NodeOfTree
<1>2. e \in T /\ e \in Int
  BY DEF Encloses
<1>3. \A j \in T : e <= j /\ j \in Int
  BY <1>1 DEF Encloses
<1> HIDE DEF T
<1>4. \A x \in T : (\A y \in T : x <= y) => x = e
  BY <1>2, <1>3
<1>5. e = CHOOSE x \in T : \A y \in T : x <= y
  BY <1>2, <1>3, <1>4
<1>6. QED
  BY <1>5 DEF EndOf, Min, T

\* Every scope ends: the module at its last node, and what is in it before.
LEMMA ScopeEnds ==
  ASSUME NEW p, IsTree(p), NEW s \in 1..Len(p), p[s].op \in Scopes
  PROVE  Encloses(p, s, EndOf(p, s))
<1> DEFINE d == p[s].depth
           T == {j \in (s + 1)..Len(p) : Inside(p[j]) <= d}
<1>1. /\ Len(p) \in Nat /\ Len(p) > 1 /\ d \in Nat
      /\ \A i \in 1..Len(p) : p[i].depth \in Nat /\ Inside(p[i]) \in Nat
      /\ Inside(p[s]) = d + 1 /\ Inside(p[Len(p)]) = 0
  BY TreeIsSequence, NodeOfTree
<1>2. s < Len(p)
  BY <1>1
<1>3. Len(p) \in T
  BY <1>1, <1>2
<1>4. T \subseteq Int /\ \A j \in T : s <= j
  BY <1>1
<1>5. PICK e \in T : \A j \in T : e <= j
  <2> HIDE DEF T
  <2>1. s \in Int /\ T # {}
    BY <1>3
  <2>2. QED
    BY <1>4, <2>1, SmallestElement
<1>6. e \in (s + 1)..Len(p) /\ Inside(p[e]) <= d /\ e \in Int
  BY <1>4
<1>7. \A j \in s..(e - 1) : Inside(p[j]) >= d + 1
  BY <1>1, <1>5, <1>6, SMTT(30)
<1>8. p[e].op = "end" /\ p[e].depth = d
  <2>1. e \in 2..Len(p) /\ e - 1 \in s..(e - 1) /\ e \in 1..Len(p) /\ e - 1 \in 1..Len(p)
    BY <1>6
  <2>2. p[e].depth = IF p[e].op = "end" THEN Inside(p[e - 1]) - 1 ELSE Inside(p[e - 1])
    BY <2>1 DEF IsTree
  <2>3. /\ p[e].depth \in Nat /\ Inside(p[e]) \in {p[e].depth, p[e].depth + 1}
        /\ Inside(p[e - 1]) \in Nat /\ Inside(p[e - 1]) >= d + 1
    BY <1>7, <2>1, NodeOfTree
  <2>4. QED
    BY <1>1, <1>6, <2>2, <2>3
<1>9. \A j \in (s + 1)..(e - 1) : p[j].depth > d
  <2> TAKE j \in (s + 1)..(e - 1)
  <2>1. /\ j \in s..(e - 1) /\ j - 1 \in s..(e - 1) /\ j \in 1..Len(p) /\ j \in 2..Len(p)
        /\ j - 1 \in 1..Len(p)
    BY <1>6
  <2>2. /\ Inside(p[j]) >= d + 1 /\ Inside(p[j - 1]) >= d + 1
        /\ p[j].depth \in Nat /\ Inside(p[j]) \in Nat /\ Inside(p[j - 1]) \in Nat
        /\ p[j].op = "end" => Inside(p[j]) = p[j].depth
    BY <1>7, <2>1, NodeOfTree
  <2>3. p[j].op # "end" => p[j].depth = Inside(p[j - 1])
    BY <2>1 DEF IsTree
  <2>4. QED
    BY <1>1, <2>2, <2>3
<1>10. Encloses(p, s, e)
  BY <1>6, <1>8, <1>9 DEF Encloses
<1>11. QED
  BY <1>10, EndIsFound

\* A scope that begins in another ends in it.
LEMMA ScopesNest ==
  ASSUME NEW p, IsTree(p), NEW s \in 1..Len(p), p[s].op \in Scopes,
         NEW t \in 1..Len(p), p[t].op \in Scopes, s < t, t <= EndOf(p, s)
  PROVE  EndOf(p, t) < EndOf(p, s)
<1> DEFINE e == EndOf(p, s)
           f == EndOf(p, t)
<1>1. Encloses(p, s, e) /\ Encloses(p, t, f)
  BY ScopeEnds
<1> HIDE DEF e, f
<1>2. Len(p) \in Nat /\ e \in Int /\ f \in Int /\ e \in 1..Len(p) /\ f \in 1..Len(p)
  BY <1>1, NodeOfTree DEF Encloses
<1>3. /\ p[s].depth \in Nat /\ p[t].depth \in Nat /\ p[e].depth \in Nat /\ p[f].depth \in Nat
  BY <1>2, NodeOfTree
<1>4. t # e
  BY <1>1, NodeOfTree DEF Encloses
<1>5. t \in (s + 1)..(e - 1)
  BY <1>2, <1>4 DEF e
<1>6. p[t].depth > p[s].depth
  BY <1>1, <1>5 DEF Encloses
<1>7. p[e].depth = p[s].depth /\ p[f].depth = p[t].depth
  BY <1>1 DEF Encloses
<1>8. f # e
  BY <1>3, <1>6, <1>7
<1>9. ~ (f > e)
  <2> SUFFICES ASSUME f > e PROVE FALSE
    BY <1>2
  <2>1. e \in (t + 1)..(f - 1)
    BY <1>2, <1>5
  <2>2. p[e].depth > p[t].depth
    BY <1>1, <2>1 DEF Encloses
  <2>3. QED
    BY <1>3, <1>6, <1>7, <2>2
<1>10. QED
  BY <1>2, <1>8, <1>9 DEF e, f

\* An end closes one scope, which is the innermost there.
Closes(p, a, c) ==
  /\ c \in 1..(a - 1) /\ p[c].op \in Scopes /\ EndOf(p, c) = a
  /\ \A s \in 1..Len(p) :
       p[s].op \in Scopes =>
         /\ s < c => EndOf(p, s) # a
         /\ c < s /\ s < a => EndOf(p, s) < a

\* There is one for each end.
LEMMA EndCloses ==
  ASSUME NEW p, IsTree(p), NEW a \in 1..Len(p), p[a].op = "end"
  PROVE  \E c : Closes(p, a, c)
<1> DEFINE d == p[a].depth
           T == {s \in 1..(a - 1) : p[s].depth <= d}
<1>1. /\ Len(p) \in Nat /\ Len(p) > 1
      /\ \A i \in 1..Len(p) :
           /\ p[i].depth \in Nat /\ Inside(p[i]) \in Nat
           /\ Inside(p[i]) = IF p[i].op \in Scopes THEN p[i].depth + 1 ELSE p[i].depth
           /\ p[i].op = "end" => p[i].op \notin Scopes
  BY TreeIsSequence, NodeOfTree
<1>2. p[1].depth = 0 /\ a \in 2..Len(p)
  <2>1. 1 \in 1..Len(p) /\ 1 \in {1, Len(p)}
    BY <1>1
  <2>2. p[1].depth = 0 /\ p[1].op = "module"
    BY <2>1 DEF IsTree
  <2>3. QED
    BY <1>1, <2>2
<1>3. 1 \in T /\ T \subseteq Int /\ \A s \in T : s <= a
  BY <1>1, <1>2
<1>4. PICK c \in T : \A s \in T : s <= c
  <2> HIDE DEF T
  <2>1. a \in Int /\ T # {}
    BY <1>3
  <2>2. QED
    BY <1>3, <2>1, GreatestElement
<1>5. c \in 1..(a - 1) /\ c \in 1..Len(p) /\ p[c].depth <= d /\ c \in Int
  BY <1>2
<1>6. \A j \in (c + 1)..(a - 1) : p[j].depth > d
  BY <1>1, <1>4, <1>5
<1>7. p[c].op \in Scopes /\ p[c].depth = d
  <2>1. c + 1 \in 2..Len(p) /\ c + 1 \in 1..Len(p) /\ (c + 1) - 1 = c
    BY <1>2, <1>5
  <2>2. p[c + 1].depth = IF p[c + 1].op = "end" THEN Inside(p[c]) - 1 ELSE Inside(p[c])
    BY <2>1 DEF IsTree
  <2>3. CASE c + 1 = a
    BY <1>1, <1>5, <2>1, <2>2, <2>3
  <2>4. CASE c + 1 # a
    <3>1. c + 1 \in (c + 1)..(a - 1)
      BY <1>5, <2>4
    <3>2. p[c + 1].depth > d
      BY <1>6, <3>1
    <3>3. QED
      BY <1>1, <1>5, <2>1, <2>2, <3>2
  <2>5. QED
    BY <2>3, <2>4
<1>8. Encloses(p, c, a)
  BY <1>1, <1>5, <1>6, <1>7 DEF Encloses
<1>9. EndOf(p, c) = a
  BY <1>5, <1>8, EndIsFound
<1>10. ASSUME NEW s \in 1..Len(p), p[s].op \in Scopes
       PROVE  /\ s < c => EndOf(p, s) # a
              /\ c < s /\ s < a => EndOf(p, s) < a
  <2>1. ASSUME s < c, EndOf(p, s) = a PROVE FALSE
    <3>1. c <= EndOf(p, s)
      BY <1>5, <2>1
    <3>2. EndOf(p, c) < EndOf(p, s)
      BY <1>5, <1>7, <1>10, <2>1, <3>1, ScopesNest
    <3>3. QED
      BY <1>9, <2>1, <3>2
  <2>2. c < s /\ s < a => EndOf(p, s) < a
    BY <1>5, <1>7, <1>9, <1>10, ScopesNest
  <2>3. QED
    BY <2>1, <2>2
<1>11. QED
  BY <1>5, <1>7, <1>9, <1>10 DEF Closes

-----------------------------------------------------------------------------
(* What the scopes have pushed. *)

\* Every scope pushes something, known by its number.
Pushes(p, w, S) == w \in [1..Len(p) -> Seq(S)]

OpenAt(p, i, s) == p[s].op \in Scopes /\ i <= EndOf(p, s)

\* What the first n nodes have pushed that is still there at node i.
PushedUpTo(p, i, n, w) == FlattenSeq([s \in 1..n |-> IF OpenAt(p, i, s) THEN w[s] ELSE <<>>])

LEMMA PushedIsUpTo == \A p, i, w : Pushed(p, i, w) = PushedUpTo(p, i, i - 1, w)
BY DEF Pushed, PushedUpTo, OpenAt

\* Only what is pushed by scopes that are open counts.
LEMMA PushedAgree ==
  ASSUME NEW p, NEW i, NEW q, NEW j, NEW n, NEW w, NEW u,
         \A s \in 1..n :
           /\ OpenAt(p, i, s) <=> OpenAt(q, j, s)
           /\ OpenAt(p, i, s) => w[s] = u[s]
  PROVE  PushedUpTo(p, i, n, w) = PushedUpTo(q, j, n, u)
<1>1. [s \in 1..n |-> IF OpenAt(p, i, s) THEN w[s] ELSE <<>>]
        = [s \in 1..n |-> IF OpenAt(q, j, s) THEN u[s] ELSE <<>>]
  OBVIOUS
<1>2. QED
  BY <1>1 DEF PushedUpTo

\* The next node adds what it pushes, if its scope is open,
LEMMA PushedNext ==
  ASSUME NEW p, NEW S, NEW w, Pushes(p, w, S), NEW i, NEW n \in Nat, n + 1 \in 1..Len(p)
  PROVE  /\ PushedUpTo(p, i, n, w) \in Seq(S)
         /\ PushedUpTo(p, i, n + 1, w) =
              PushedUpTo(p, i, n, w) \o (IF OpenAt(p, i, n + 1) THEN w[n + 1] ELSE <<>>)
<1> DEFINE e == <<>>
           v == [s \in 1..(n + 1) |-> IF OpenAt(p, i, s) THEN w[s] ELSE e]
           front == [k \in 1..n |-> v[k]]
<1>1. e \in Seq(S) /\ \A s \in 1..(n + 1) : w[s] \in Seq(S)
  BY DEF Pushes
<1>2. v \in [1..(n + 1) -> Seq(S)]
  <2> HIDE DEF e
  <2>1. \A s \in 1..(n + 1) : (IF OpenAt(p, i, s) THEN w[s] ELSE e) \in Seq(S)
    BY <1>1
  <2>2. QED
    BY <2>1
<1>3. v[n + 1] = (IF OpenAt(p, i, n + 1) THEN w[n + 1] ELSE e)
  OBVIOUS
<1>4. front = [s \in 1..n |-> IF OpenAt(p, i, s) THEN w[s] ELSE e]
  OBVIOUS
<1>5. FlattenSeq(v) = PushedUpTo(p, i, n + 1, w) /\ FlattenSeq(front) = PushedUpTo(p, i, n, w)
  BY <1>4 DEF PushedUpTo
<1> HIDE DEF v
<1>6. FlattenSeq(front) \in Seq(S) /\ FlattenSeq(v) = FlattenSeq(front) \o v[n + 1]
  BY <1>2, FlattenNext
<1>7. QED
  BY <1>3, <1>5, <1>6

\* and nodes whose scope is not add nothing.
LEMMA PushedTail ==
  ASSUME NEW p, NEW S, NEW w, Pushes(p, w, S), NEW i, NEW n \in Nat, NEW m \in Nat,
         n <= m, Len(p) \in Nat, m <= Len(p), \A s \in (n + 1)..m : ~ OpenAt(p, i, s)
  PROVE  PushedUpTo(p, i, m, w) = PushedUpTo(p, i, n, w)
<1> DEFINE e == <<>>
           v == [s \in 1..m |-> IF OpenAt(p, i, s) THEN w[s] ELSE e]
           front == [s \in 1..n |-> v[s]]
<1>1. e \in Seq(S) /\ \A s \in 1..m : w[s] \in Seq(S)
  BY DEF Pushes
<1>2. v \in [1..m -> Seq(S)]
  <2> HIDE DEF e
  <2>1. \A s \in 1..m : (IF OpenAt(p, i, s) THEN w[s] ELSE e) \in Seq(S)
    BY <1>1
  <2>2. QED
    BY <2>1
<1>3. \A s \in (n + 1)..m : v[s] = <<>>
  OBVIOUS
<1>4. front = [s \in 1..n |-> IF OpenAt(p, i, s) THEN w[s] ELSE e]
  OBVIOUS
<1>5. FlattenSeq(v) = PushedUpTo(p, i, m, w) /\ FlattenSeq(front) = PushedUpTo(p, i, n, w)
  <2>1. FlattenSeq(v) = PushedUpTo(p, i, m, w)
    BY DEF PushedUpTo
  <2> HIDE DEF front
  <2>2. FlattenSeq(front) = PushedUpTo(p, i, n, w)
    BY <1>4 DEF PushedUpTo
  <2>3. QED
    BY <2>1, <2>2
<1>6. front \in [1..n -> Seq(S)] /\ \A s \in 1..n : front[s] = v[s]
  <2>1. \A s \in 1..n : v[s] \in Seq(S)
    BY <1>2
  <2> HIDE DEF v
  <2>2. QED
    BY <2>1
<1> HIDE DEF v, front
<1>7. EmptyBehind(front, n, v, m, S)
  BY <1>2, <1>3, <1>6 DEF EmptyBehind
<1>8. QED
  BY <1>5, <1>7, FlattenEmptyTail

\* At the first node nothing is open, and the stacks are sequences.
LEMMA PushedFirst == \A p, w : Pushed(p, 1, w) = <<>>
BY DEF Pushed, FlattenSeq

LEMMA PushedTyped ==
  ASSUME NEW p, IsTree(p), NEW S, NEW w, Pushes(p, w, S), NEW i \in 1..Len(p)
  PROVE  Pushed(p, i, w) \in Seq(S)
<1>1. i - 1 \in Nat /\ (i - 1) + 1 \in 1..Len(p)
  BY TreeIsSequence
<1>2. QED
  BY <1>1, PushedNext, PushedIsUpTo

-----------------------------------------------------------------------------
\* A scope pushes behind what those around it have.
LEMMA PushedEnter ==
  ASSUME NEW p, IsTree(p), NEW S, NEW w, Pushes(p, w, S), NEW a \in 1..Len(p),
         p[a].op \in Scopes
  PROVE  Pushed(p, a + 1, w) = Pushed(p, a, w) \o w[a]
<1>1. Len(p) \in Nat /\ a - 1 \in Nat /\ (a - 1) + 1 = a /\ (a + 1) - 1 = a
  BY TreeIsSequence
<1>2. \A s \in 1..(a - 1) : OpenAt(p, a, s) <=> OpenAt(p, a + 1, s)
  <2> TAKE s \in 1..(a - 1)
  <2> SUFFICES ASSUME p[s].op \in Scopes PROVE a <= EndOf(p, s) <=> a + 1 <= EndOf(p, s)
    BY DEF OpenAt
  <2>1. s \in 1..Len(p)
    BY <1>1
  <2>2. EndOf(p, s) \in Int /\ p[EndOf(p, s)].op = "end"
    BY <1>1, <2>1, ScopeEnds DEF Encloses
  <2>3. EndOf(p, s) # a
    BY <2>2 DEF Scopes
  <2>4. QED
    BY <1>1, <2>2, <2>3
<1>3. OpenAt(p, a + 1, a)
  <2>1. EndOf(p, a) \in (a + 1)..Len(p)
    BY ScopeEnds DEF Encloses
  <2>2. QED
    BY <2>1 DEF OpenAt
<1>4. PushedUpTo(p, a + 1, a, w) = PushedUpTo(p, a + 1, a - 1, w) \o w[a]
  BY <1>1, <1>3, PushedNext
<1>5. PushedUpTo(p, a + 1, a - 1, w) = PushedUpTo(p, a, a - 1, w)
  BY <1>2, PushedAgree
<1>6. QED
  BY <1>1, <1>4, <1>5, PushedIsUpTo

\* A node that is no scope and ends none pushes nothing.
LEMMA PushedPass ==
  ASSUME NEW p, IsTree(p), NEW S, NEW w, Pushes(p, w, S), NEW a \in 1..Len(p),
         p[a].op \notin Scopes, p[a].op # "end"
  PROVE  Pushed(p, a + 1, w) = Pushed(p, a, w)
<1>1. Len(p) \in Nat /\ a - 1 \in Nat /\ (a - 1) + 1 = a /\ (a + 1) - 1 = a /\ a \in Nat
  BY TreeIsSequence
<1>2. \A s \in 1..(a - 1) : OpenAt(p, a, s) <=> OpenAt(p, a + 1, s)
  <2> TAKE s \in 1..(a - 1)
  <2> SUFFICES ASSUME p[s].op \in Scopes PROVE a <= EndOf(p, s) <=> a + 1 <= EndOf(p, s)
    BY DEF OpenAt
  <2>1. s \in 1..Len(p)
    BY <1>1
  <2>2. EndOf(p, s) \in Int /\ p[EndOf(p, s)].op = "end"
    BY <1>1, <2>1, ScopeEnds DEF Encloses
  <2>3. QED
    BY <1>1, <2>2
<1>3. \A s \in ((a - 1) + 1)..a : ~ OpenAt(p, a + 1, s)
  BY <1>1 DEF OpenAt
<1>4. PushedUpTo(p, a + 1, a, w) = PushedUpTo(p, a + 1, a - 1, w)
  BY <1>1, <1>3, PushedTail
<1>5. PushedUpTo(p, a + 1, a - 1, w) = PushedUpTo(p, a, a - 1, w)
  BY <1>2, PushedAgree
<1>6. QED
  BY <1>1, <1>4, <1>5, PushedIsUpTo

\* An end takes away what the scope it closes has pushed, the last of all.
LEMMA PushedLeave ==
  ASSUME NEW p, IsTree(p), NEW S, NEW w, Pushes(p, w, S), NEW a \in 1..Len(p),
         NEW c, Closes(p, a, c)
  PROVE  /\ Pushed(p, a + 1, w) \in Seq(S)
         /\ Pushed(p, a, w) = Pushed(p, a + 1, w) \o w[c]
         /\ c = 1 => Pushed(p, a + 1, w) = <<>>
<1>1. /\ Len(p) \in Nat /\ a \in Nat /\ (a + 1) - 1 = a /\ c \in 1..(a - 1) /\ c \in 1..Len(p)
      /\ c - 1 \in Nat /\ (c - 1) + 1 = c /\ a - 1 \in Nat /\ c \in Nat
  BY TreeIsSequence DEF Closes
<1>2. p[c].op \in Scopes /\ EndOf(p, c) = a
  BY DEF Closes
<1>3. \A s \in 1..Len(p) :
        p[s].op \in Scopes =>
          /\ s < c => EndOf(p, s) # a
          /\ c < s /\ s < a => EndOf(p, s) < a
          /\ EndOf(p, s) \in Int
  BY <1>1, ScopeEnds DEF Closes, Encloses
<1>4. \A s \in 1..(c - 1) : OpenAt(p, a, s) <=> OpenAt(p, a + 1, s)
  BY <1>1, <1>3 DEF OpenAt
<1>5. OpenAt(p, a, c) /\ ~ OpenAt(p, a + 1, c)
  BY <1>1, <1>2 DEF OpenAt
<1>6. \A s \in (c + 1)..(a - 1) : ~ OpenAt(p, a, s)
  BY <1>1, <1>3 DEF OpenAt
<1>7. \A s \in ((c - 1) + 1)..a : ~ OpenAt(p, a + 1, s)
  <2> TAKE s \in ((c - 1) + 1)..a
  <2>1. CASE s = c
    BY <1>5, <2>1
  <2>2. CASE s = a
    <3>1. p[a].op = "end"
      BY <1>1, <1>2, ScopeEnds DEF Encloses
    <3>2. QED
      BY <2>2, <3>1 DEF OpenAt, Scopes
  <2>3. CASE s \in (c + 1)..(a - 1)
    BY <1>1, <1>3, <2>3 DEF OpenAt
  <2>4. s = c \/ s = a \/ s \in (c + 1)..(a - 1)
    BY <1>1
  <2>5. QED
    BY <2>1, <2>2, <2>3, <2>4
<1> DEFINE W == PushedUpTo(p, a + 1, c - 1, w)
<1>8. Pushed(p, a + 1, w) = W
  <2>1. PushedUpTo(p, a + 1, a, w) = W
    BY <1>1, <1>7, PushedTail
  <2>2. QED
    BY <1>1, <2>1, PushedIsUpTo
<1>9. W = PushedUpTo(p, a, c - 1, w)
  BY <1>4, PushedAgree
<1>10. PushedUpTo(p, a, a - 1, w) = PushedUpTo(p, a, c, w)
  BY <1>1, <1>6, PushedTail
<1>11. /\ PushedUpTo(p, a, c - 1, w) \in Seq(S)
       /\ PushedUpTo(p, a, c, w) = PushedUpTo(p, a, c - 1, w) \o w[c]
  BY <1>1, <1>5, PushedNext
<1>12. c = 1 => W = <<>>
  BY DEF PushedUpTo, FlattenSeq
<1>13. QED
  BY <1>8, <1>9, <1>10, <1>11, <1>12, PushedIsUpTo

\* Behind the end of a scope that was not entered it is as in front of it.
LEMMA PushedSkip ==
  ASSUME NEW p, IsTree(p), NEW S, NEW w, Pushes(p, w, S), NEW a \in 1..Len(p),
         p[a].op \in Scopes
  PROVE  /\ Pushed(p, EndOf(p, a) + 1, w) = Pushed(p, a, w)
         /\ \A s \in 1..EndOf(p, a) : OpenAt(p, EndOf(p, a) + 1, s) => s < a /\ OpenAt(p, a, s)
<1> DEFINE e == EndOf(p, a)
<1>1. Encloses(p, a, e)
  BY ScopeEnds
<1>2. Len(p) \in Nat /\ e \in (a + 1)..Len(p) /\ p[e].op = "end"
  BY <1>1, TreeIsSequence DEF Encloses
<1>3. \A s \in 1..Len(p) :
        p[s].op \in Scopes =>
          /\ EndOf(p, s) \in Int /\ p[EndOf(p, s)].op = "end"
          /\ s < a /\ a <= EndOf(p, s) => e < EndOf(p, s)
          /\ a < s /\ s <= e => EndOf(p, s) < e
  <2> TAKE s \in 1..Len(p)
  <2> HAVE p[s].op \in Scopes
  <2>1. EndOf(p, s) \in Int /\ p[EndOf(p, s)].op = "end"
    BY <1>2, ScopeEnds DEF Encloses
  <2>2. s < a /\ a <= EndOf(p, s) => e < EndOf(p, s)
    BY ScopesNest
  <2>3. a < s /\ s <= e => EndOf(p, s) < e
    BY ScopesNest
  <2>4. QED
    BY <2>1, <2>2, <2>3
<1> HIDE DEF e
<1>4. a \in Nat /\ e \in Nat /\ (e + 1) - 1 = e /\ a - 1 \in Nat /\ (a - 1) + 1 = a
  BY <1>2
<1>5. \A s \in 1..(a - 1) : OpenAt(p, e + 1, s) <=> OpenAt(p, a, s)
  BY <1>2, <1>3, <1>4 DEF OpenAt
<1>6. \A s \in ((a - 1) + 1)..e : ~ OpenAt(p, e + 1, s)
  <2> TAKE s \in ((a - 1) + 1)..e
  <2>1. s \in 1..Len(p)
    BY <1>2, <1>4
  <2>2. CASE s = a
    BY <1>4, <2>2 DEF OpenAt, e
  <2>3. CASE s # a
    BY <1>3, <1>4, <2>1, <2>3 DEF OpenAt
  <2>4. QED
    BY <2>2, <2>3
<1>7. PushedUpTo(p, e + 1, e, w) = PushedUpTo(p, e + 1, a - 1, w)
  BY <1>2, <1>4, <1>6, PushedTail
<1>8. PushedUpTo(p, e + 1, a - 1, w) = PushedUpTo(p, a, a - 1, w)
  BY <1>5, PushedAgree
<1>9. Pushed(p, e + 1, w) = Pushed(p, a, w)
  BY <1>4, <1>7, <1>8, PushedIsUpTo
<1>10. \A s \in 1..e : OpenAt(p, e + 1, s) => s < a /\ OpenAt(p, a, s)
  BY <1>4, <1>5, <1>6
<1>11. QED
  BY <1>9, <1>10 DEF e

-----------------------------------------------------------------------------
(* The context's stacks. *)

\* What each scope pushes: itself, twice if it is a block in binding, and its type.
VisitsOf(pass, p) ==
  [s \in DOMAIN p |-> IF pass = "binding" /\ p[s].op = "block" THEN <<s, s>> ELSE <<s>>]
SlotsOf(p, nd) ==
  [s \in DOMAIN p |-> IF p[s].op = "block" THEN <<>> ELSE <<nd[s].slot>>]

StageOf(p, s) == IF p[s].op = "init" THEN "func" ELSE p[s].op
StagesOf(p, visits) == [k \in DOMAIN visits |-> StageOf(p, visits[k])]

\* The table of the symbols that are known everywhere is below all the others.
Outermost == <<GlobalTable>>

\* Its key is a number, like a node's.
LEMMA OutermostIsTyped == Outermost \in Seq(Nat)
BY DEF Outermost, GlobalTable

\* What is pushed on top of it stays together.
LEMMA OutermostIsBelow ==
  ASSUME NEW v \in Seq(Nat), NEW u \in Seq(Nat)
  PROVE  (Outermost \o v) \o u = Outermost \o (v \o u)
BY OutermostIsTyped, ConcatAssociative

Context(pass, p, nd, a, stg, sym, dt) ==
  /\ sym = Outermost \o Pushed(p, a, VisitsOf(pass, p))
  /\ stg = StagesOf(p, Pushed(p, a, VisitsOf(pass, p)))
  /\ dt = Pushed(p, a, SlotsOf(p, nd))

\* What the visits and the types of the scopes push are sequences that Pushed can put
\* together.
LEMMA VisitsArePushed ==
  ASSUME NEW p, IsTree(p), NEW pass
  PROVE  Pushes(p, VisitsOf(pass, p), 1..Len(p))
<1>1. DOMAIN p = 1..Len(p) /\ Len(p) \in Nat
  BY TreeIsSequence
<1>2. \A s \in 1..Len(p) : <<s>> \in Seq(1..Len(p)) /\ <<s, s>> \in Seq(1..Len(p))
  OBVIOUS
<1>3. QED
  BY <1>1, <1>2 DEF Pushes, VisitsOf

\* The slots are, too.
LEMMA SlotsArePushed ==
  ASSUME NEW p, IsTree(p), NEW nd
  PROVE  \E S : Pushes(p, SlotsOf(p, nd), S)
<1> DEFINE e == <<>>
           S == {nd[s].slot : s \in 1..Len(p)}
           w == [s \in 1..Len(p) |-> IF p[s].op = "block" THEN e ELSE <<nd[s].slot>>]
<1>1. DOMAIN p = 1..Len(p) /\ Len(p) \in Nat
  BY TreeIsSequence
<1>2. e \in Seq(S)
  OBVIOUS
<1>3. \A s \in 1..Len(p) : <<nd[s].slot>> \in Seq(S)
  <2> TAKE s \in 1..Len(p)
  <2>1. nd[s].slot \in S
    OBVIOUS
  <2> HIDE DEF S
  <2>2. QED
    BY <2>1
<1>4. SlotsOf(p, nd) = w
  BY <1>1 DEF SlotsOf
<1> HIDE DEF e, S
<1>5. w \in [1..Len(p) -> Seq(S)]
  BY <1>2, <1>3
<1>6. QED
  BY <1>4, <1>5 DEF Pushes

\* Stages of visits put together.
LEMMA StagesOfConcat ==
  ASSUME NEW p, NEW S, NEW v \in Seq(S), NEW u \in Seq(S)
  PROVE  /\ StagesOf(p, v \o u) = StagesOf(p, v) \o StagesOf(p, u)
         /\ StagesOf(p, v) \in Seq({StageOf(p, s) : s \in S})
         /\ Len(StagesOf(p, v)) = Len(v)
<1> DEFINE R == {StageOf(p, s) : s \in S}
<1>1. /\ Len(v) \in Nat /\ Len(u) \in Nat /\ DOMAIN v = 1..Len(v) /\ DOMAIN u = 1..Len(u)
      /\ \A k \in 1..Len(v) : v[k] \in S
      /\ \A k \in 1..Len(u) : u[k] \in S
  BY LenProperties, ElementOfSeq
<1>2. /\ v \o u \in Seq(S) /\ Len(v \o u) = Len(v) + Len(u)
      /\ \A k \in 1..(Len(v) + Len(u)) :
           (v \o u)[k] = IF k <= Len(v) THEN v[k] ELSE u[k - Len(v)]
  BY ConcatProperties
<1>3. DOMAIN (v \o u) = 1..(Len(v) + Len(u))
  BY <1>2, LenProperties
<1>4. \A s \in S : StageOf(p, s) \in R
  OBVIOUS
<1> HIDE DEF R
<1> DEFINE f == StagesOf(p, v)
           g == StagesOf(p, u)
           h == StagesOf(p, v \o u)
<1>5. f \in [1..Len(v) -> R] /\ g \in [1..Len(u) -> R]
  BY <1>1, <1>4 DEF StagesOf
<1>6. f \in Seq(R) /\ g \in Seq(R) /\ Len(f) = Len(v) /\ Len(g) = Len(u)
  <2>1. f \in Seq(R) /\ g \in Seq(R)
    BY <1>1, <1>5, SeqDef, SMTT(30)
  <2>2. DOMAIN f = 1..Len(v) /\ DOMAIN g = 1..Len(u)
    BY <1>5
  <2> HIDE DEF f, g
  <2>3. Len(f) \in Nat /\ DOMAIN f = 1..Len(f) /\ Len(g) \in Nat /\ DOMAIN g = 1..Len(g)
    BY <2>1, LenProperties
  <2>4. QED
    BY <1>1, <2>1, <2>2, <2>3
<1>7. /\ f \o g \in Seq(R) /\ Len(f \o g) = Len(v) + Len(u)
      /\ \A k \in 1..(Len(v) + Len(u)) :
           (f \o g)[k] = IF k <= Len(v) THEN f[k] ELSE g[k - Len(v)]
  <2> HIDE DEF f, g, h
  <2>1. /\ f \o g \in Seq(R) /\ Len(f \o g) = Len(f) + Len(g)
        /\ \A k \in 1..(Len(f) + Len(g)) :
             (f \o g)[k] = IF k <= Len(f) THEN f[k] ELSE g[k - Len(f)]
    BY <1>6, ConcatProperties
  <2>2. QED
    BY <1>6, <2>1
<1>8. h = [k \in 1..(Len(v) + Len(u)) |-> StageOf(p, (v \o u)[k])]
  BY <1>3 DEF StagesOf
<1>9. \A k \in 1..Len(v) : f[k] = StageOf(p, v[k])
  BY <1>1 DEF StagesOf
<1>10. \A k \in 1..Len(u) : g[k] = StageOf(p, u[k])
  BY <1>1 DEF StagesOf
<1> HIDE DEF f, g, h
<1>11. \A k \in 1..(Len(v) + Len(u)) : h[k] = (f \o g)[k]
  <2> TAKE k \in 1..(Len(v) + Len(u))
  <2>1. CASE k <= Len(v)
    BY <1>1, <1>2, <1>7, <1>8, <1>9, <2>1
  <2>2. CASE ~ (k <= Len(v))
    <3>1. k - Len(v) \in 1..Len(u)
      BY <1>1, <2>2
    <3>2. QED
      BY <1>1, <1>2, <1>7, <1>8, <1>10, <2>2, <3>1
  <2>3. QED
    BY <2>1, <2>2
<1>12. f \o g = [k \in 1..(Len(v) + Len(u)) |-> (f \o g)[k]]
  <2>1. f \o g \in [1..(Len(v) + Len(u)) -> R]
    BY <1>7, LenProperties
  <2>2. QED
    BY <2>1
<1>13. h = f \o g
  BY <1>8, <1>11, <1>12
<1>14. QED
  BY <1>6, <1>13 DEF f, g, h, R

\* The type of a scope is that of its node.
LEMMA PushedSlots ==
  ASSUME NEW p, IsTree(p), NEW nd, NEW nd2, NEW a \in 1..Len(p),
         \A s \in 1..(a - 1) : nd2[s].slot = nd[s].slot
  PROVE  Pushed(p, a, SlotsOf(p, nd2)) = Pushed(p, a, SlotsOf(p, nd))
<1>1. DOMAIN p = 1..Len(p) /\ Len(p) \in Nat
  BY TreeIsSequence
<1>2. \A s \in 1..(a - 1) : SlotsOf(p, nd)[s] = SlotsOf(p, nd2)[s]
  BY <1>1 DEF SlotsOf
<1>3. PushedUpTo(p, a, a - 1, SlotsOf(p, nd)) = PushedUpTo(p, a, a - 1, SlotsOf(p, nd2))
  BY <1>2, PushedAgree
<1>4. QED
  BY <1>3, PushedIsUpTo

\* A scope is entered with what it pushes.
LEMMA EnterContext ==
  ASSUME NEW pass, NEW p, IsTree(p), NEW nd, NEW nd2, NEW a \in 1..Len(p), p[a].op \in Scopes,
         NEW stg, NEW sym, NEW dt, Context(pass, p, nd, a, stg, sym, dt),
         \A s \in 1..(a - 1) : nd2[s].slot = nd[s].slot
  PROVE  Context(pass, p, nd2, a + 1, stg \o StagesOf(p, VisitsOf(pass, p)[a]),
                 sym \o VisitsOf(pass, p)[a], dt \o SlotsOf(p, nd2)[a])
<1> DEFINE V == VisitsOf(pass, p)
           D == SlotsOf(p, nd2)
<1>1. Pushes(p, V, 1..Len(p))
  BY VisitsArePushed
<1>2. PICK S : Pushes(p, D, S)
  BY SlotsArePushed
<1>3. Pushed(p, a, SlotsOf(p, nd)) = Pushed(p, a, D)
  BY PushedSlots
<1>4. /\ sym = Outermost \o Pushed(p, a, V)
      /\ stg = StagesOf(p, Pushed(p, a, V))
      /\ dt = Pushed(p, a, D)
  BY <1>3 DEF Context
<1>5. V[a] \in Seq(1..Len(p))
  BY <1>1 DEF Pushes
<1> HIDE DEF V, D
<1>6. Pushed(p, a, V) \in Seq(1..Len(p))
  BY <1>1, PushedTyped
<1>7. Pushed(p, a + 1, V) = Pushed(p, a, V) \o V[a]
  BY <1>1, PushedEnter
<1>8. Pushed(p, a + 1, D) = Pushed(p, a, D) \o D[a]
  BY <1>2, PushedEnter
<1>9. sym \o V[a] = Outermost \o Pushed(p, a + 1, V)
  <2>1. 1..Len(p) \subseteq Nat /\ Outermost \in Seq(Nat)
    BY TreeIsSequence, OutermostIsTyped
  <2>2. \A v \in Seq(1..Len(p)) : v \in Seq(Nat)
    BY <2>1, SeqMonotonic
  <2>3. Pushed(p, a, V) \in Seq(Nat) /\ V[a] \in Seq(Nat) /\ Outermost \in Seq(Nat)
    BY <1>5, <1>6, <2>1, <2>2
  <2>4. (Outermost \o Pushed(p, a, V)) \o V[a] = Outermost \o (Pushed(p, a, V) \o V[a])
    BY <2>3, OutermostIsBelow
  <2>5. QED
    BY <1>4, <1>7, <2>4
<1>10. stg \o StagesOf(p, V[a]) = StagesOf(p, Pushed(p, a + 1, V))
  BY <1>4, <1>5, <1>6, <1>7, StagesOfConcat, ZenonT(30)
<1>11. QED
  BY <1>4, <1>8, <1>9, <1>10 DEF Context, V, D

\* A node that opens and ends no scope leaves them as they are.
LEMMA PassContext ==
  ASSUME NEW pass, NEW p, IsTree(p), NEW nd, NEW nd2, NEW a \in 1..Len(p),
         p[a].op \notin Scopes, p[a].op # "end",
         NEW stg, NEW sym, NEW dt, Context(pass, p, nd, a, stg, sym, dt),
         \A s \in 1..(a - 1) : nd2[s].slot = nd[s].slot
  PROVE  Context(pass, p, nd2, a + 1, stg, sym, dt)
<1>1. Pushes(p, VisitsOf(pass, p), 1..Len(p))
  BY VisitsArePushed
<1>2. PICK S : Pushes(p, SlotsOf(p, nd2), S)
  BY SlotsArePushed
<1>3. Pushed(p, a, SlotsOf(p, nd)) = Pushed(p, a, SlotsOf(p, nd2))
  BY PushedSlots
<1>4. Pushed(p, a + 1, VisitsOf(pass, p)) = Pushed(p, a, VisitsOf(pass, p))
  BY <1>1, PushedPass
<1>5. Pushed(p, a + 1, SlotsOf(p, nd2)) = Pushed(p, a, SlotsOf(p, nd2))
  BY <1>2, PushedPass
<1>6. QED
  BY <1>3, <1>4, <1>5 DEF Context

Typed(s) == \E S : s \in Seq(S)

\* What is on the stacks below what scope c has pushed.
Below(pass, p, nd, a, c, stg, sym, dt, stg0, sym0, dt0) ==
  /\ Typed(stg0) /\ sym0 \in Seq(Nat) /\ Typed(dt0)
  /\ Context(pass, p, nd, a + 1, stg0, sym0, dt0)
  /\ stg = stg0 \o StagesOf(p, VisitsOf(pass, p)[c])
  /\ sym = sym0 \o VisitsOf(pass, p)[c]
  /\ dt = dt0 \o SlotsOf(p, nd)[c]
  /\ c = 1 => stg0 = <<>> /\ sym0 = Outermost /\ dt0 = <<>>

\* What a scope has pushed is on top at its end.
LEMMA LeaveContext ==
  ASSUME NEW pass, NEW p, IsTree(p), NEW nd, NEW nd2, NEW a \in 1..Len(p),
         NEW c, Closes(p, a, c),
         NEW stg, NEW sym, NEW dt, Context(pass, p, nd, a, stg, sym, dt),
         \A s \in 1..(a - 1) : nd2[s].slot = nd[s].slot
  PROVE  \E stg0, sym0, dt0 : Below(pass, p, nd2, a, c, stg, sym, dt, stg0, sym0, dt0)
<1> DEFINE V == VisitsOf(pass, p)
           D == SlotsOf(p, nd2)
<1>1. Pushes(p, V, 1..Len(p)) /\ c \in 1..Len(p)
  BY VisitsArePushed, TreeIsSequence DEF Closes
<1>2. PICK S : Pushes(p, D, S)
  BY SlotsArePushed
<1>3. Pushed(p, a, SlotsOf(p, nd)) = Pushed(p, a, D)
  BY PushedSlots
<1>4. /\ sym = Outermost \o Pushed(p, a, V)
      /\ stg = StagesOf(p, Pushed(p, a, V))
      /\ dt = Pushed(p, a, D)
  BY <1>3 DEF Context
<1>5. V[c] \in Seq(1..Len(p))
  BY <1>1 DEF Pushes
<1> HIDE DEF V, D
<1>13. /\ Pushed(p, a + 1, V) \in Seq(1..Len(p))
       /\ Pushed(p, a, V) = Pushed(p, a + 1, V) \o V[c]
       /\ c = 1 => Pushed(p, a + 1, V) = <<>>
  <2> DEFINE N == 1..Len(p)
  <2>1. Pushes(p, V, N)
    BY <1>1
  <2> HIDE DEF N
  <2>2. /\ Pushed(p, a + 1, V) \in Seq(N)
        /\ Pushed(p, a, V) = Pushed(p, a + 1, V) \o V[c]
        /\ c = 1 => Pushed(p, a + 1, V) = <<>>
    BY <2>1, PushedLeave
  <2>3. QED
    BY <2>2 DEF N
<1>14. /\ Pushed(p, a + 1, D) \in Seq(S)
       /\ Pushed(p, a, D) = Pushed(p, a + 1, D) \o D[c]
       /\ c = 1 => Pushed(p, a + 1, D) = <<>>
  BY <1>2, PushedLeave
<1> DEFINE v0 == Pushed(p, a + 1, V)
           sym0 == Outermost \o v0
           stg0 == StagesOf(p, v0)
           dt0 == Pushed(p, a + 1, D)
<1>6. v0 \in Seq(1..Len(p)) /\ Pushed(p, a, V) = v0 \o V[c] /\ (c = 1 => v0 = <<>>)
  BY <1>13
<1>7. dt0 \in Seq(S) /\ dt = dt0 \o D[c] /\ (c = 1 => dt0 = <<>>)
  BY <1>4, <1>14
<1>8. Context(pass, p, nd2, a + 1, stg0, sym0, dt0)
  BY DEF Context, V, D
<1> HIDE DEF v0, dt0
<1>9. sym0 \in Seq(Nat) /\ sym = sym0 \o V[c] /\ (c = 1 => sym0 = Outermost)
  <2>1. 1..Len(p) \subseteq Nat /\ Outermost \in Seq(Nat)
    BY TreeIsSequence, OutermostIsTyped
  <2>7. \A v \in Seq(1..Len(p)) : v \in Seq(Nat)
    BY <2>1, SeqMonotonic
  <2>2. v0 \in Seq(Nat) /\ V[c] \in Seq(Nat) /\ Outermost \in Seq(Nat)
    BY <1>5, <1>6, <2>1, <2>7
  <2>3. sym0 \in Seq(Nat)
    BY <2>2, ConcatProperties
  <2>8. (Outermost \o v0) \o V[c] = Outermost \o (v0 \o V[c])
    BY <2>2, OutermostIsBelow
  <2>4. sym = sym0 \o V[c]
    BY <1>4, <1>6, <2>8
  <2>5. c = 1 => sym0 = Outermost
    BY <1>6, <2>2, ConcatEmptySeq
  <2>6. QED
    BY <2>3, <2>4, <2>5
<1>10. Typed(stg0) /\ stg = stg0 \o StagesOf(p, V[c])
  <2>1. /\ StagesOf(p, v0 \o V[c]) = StagesOf(p, v0) \o StagesOf(p, V[c])
        /\ StagesOf(p, v0) \in Seq({StageOf(p, s) : s \in 1..Len(p)})
    BY <1>5, <1>6, StagesOfConcat
  <2>2. stg = stg0 \o StagesOf(p, V[c])
    BY <1>4, <1>6, <2>1
  <2> HIDE DEF sym0
  <2>3. Typed(stg0)
    BY <2>1 DEF Typed
  <2>4. QED
    BY <2>2, <2>3
<1>11. c = 1 => stg0 = <<>>
  BY <1>6 DEF StagesOf
<1> HIDE DEF stg0, sym0
<1>12. Typed(dt0)
  BY <1>7 DEF Typed
<1> WITNESS stg0, sym0, dt0
<1>15. QED
  BY <1>7, <1>8, <1>9, <1>10, <1>11, <1>12 DEF Below, V, D

-----------------------------------------------------------------------------
(* Where a pass is. *)

\* Every node may be given a type, and a block has none.
Slotted(p, nd) ==
  /\ nd = [i \in 1..Len(p) |-> nd[i]]
  /\ \A i \in 1..Len(p) :
       /\ "slot" \in DOMAIN nd[i]
       /\ p[i].op = "block" => nd[i].slot = NoSlot

HasSlot(p, nd, i) == p[i].op \in Scopes \ {"block"} => nd[i].slot # NoSlot

\* TypeGen has given a type to the scopes it is in, and to all of them unless it
\* has passed over one that is declared twice.
Given(pass, p, a, err, i) == pass = "typegen" => i < a /\ (err = {} \/ OpenAt(p, a, i))

OnPath(pass, p, nd, a, stg, sym, dt, err) ==
  /\ IsTree(p) /\ a \in 1..Len(p)
  /\ Slotted(p, nd)
  /\ Context(pass, p, nd, a, stg, sym, dt)
  /\ \A i \in 1..Len(p) : Given(pass, p, a, err, i) => HasSlot(p, nd, i)

\* The module's end is behind all the other nodes.
LEMMA AfterIt ==
  ASSUME NEW p, IsTree(p), NEW a \in 1..Len(p)
  PROVE  /\ p[a].op # "end" => a + 1 \in 1..Len(p)
         /\ \A c : Closes(p, a, c) =>
              /\ c \in 1..Len(p) /\ p[a].op = "end"
              /\ c = 1 <=> p[c].op = "module"
              /\ c = 1 => a = Len(p)
              /\ c # 1 => a + 1 \in 1..Len(p)
<1>1. Len(p) \in Nat /\ Len(p) > 1 /\ p[Len(p)].op = "end" /\ p[Len(p)].depth = 0
  BY TreeIsSequence
<1>2. ASSUME NEW c, Closes(p, a, c)
      PROVE  /\ c \in 1..Len(p) /\ p[a].op = "end"
             /\ c = 1 <=> p[c].op = "module"
             /\ c = 1 => a = Len(p)
             /\ c # 1 => a + 1 \in 1..Len(p)
  <2>1. c \in 1..Len(p) /\ c < a /\ p[c].op \in Scopes /\ EndOf(p, c) = a
    BY <1>1, <1>2 DEF Closes
  <2>2. p[a].op = "end" /\ p[a].depth = p[c].depth
    BY <2>1, ScopeEnds DEF Encloses
  <2>3. /\ p[c].depth = 0 <=> c \in {1, Len(p)}
        /\ p[a].depth = 0 <=> a \in {1, Len(p)}
        /\ p[c].op = "module" <=> c = 1
    BY <2>1 DEF IsTree
  <2>4. QED
    BY <1>1, <2>1, <2>2, <2>3
<1>3. QED
  BY <1>1, <1>2

\* What is open behind a node was open there.
LEMMA OpenBefore ==
  ASSUME NEW p, IsTree(p), NEW a \in 1..Len(p), NEW s \in 1..Len(p), OpenAt(p, a + 1, s)
  PROVE  OpenAt(p, a, s)
<1>1. EndOf(p, s) \in Int /\ a \in Int
  BY ScopeEnds, TreeIsSequence DEF OpenAt, Encloses
<1>2. QED
  BY <1>1 DEF OpenAt

\* A pass begins in no scope.
LEMMA FirstContext ==
  ASSUME NEW pass, NEW p, NEW nd
  PROVE  Context(pass, p, nd, 1, <<>>, Outermost, <<>>)
<1>1. \A w : Pushed(p, 1, w) = <<>>
  BY PushedFirst
<1>2. Outermost \o <<>> = Outermost
  BY DEF Outermost
<1>3. StagesOf(p, <<>>) = <<>>
  BY DEF StagesOf
<1>4. QED
  BY <1>1, <1>2, <1>3 DEF Context

\* TypeGen begins with no scope given a type.
LEMMA FirstPass ==
  ASSUME NEW p, IsTree(p), NEW nd, Slotted(p, nd), NEW err
  PROVE  OnPath("typegen", p, nd, 1, <<>>, Outermost, <<>>, err)
<1>1. 1 \in 1..Len(p) /\ \A i \in 1..Len(p) : ~ (i < 1)
  BY TreeIsSequence
<1>2. QED
  BY <1>1, FirstContext DEF OnPath, Given

\* A pass at the module's end has been in every scope: the next one finds their types.
LEMMA NextPass ==
  ASSUME NEW pass, NEW p, NEW nd, NEW stg, NEW sym, NEW dt, NEW next,
         OnPath(pass, p, nd, Len(p), stg, sym, dt, {})
  PROVE  OnPath(next, p, nd, 1, <<>>, Outermost, <<>>, {})
<1>1. IsTree(p) /\ Slotted(p, nd)
  BY DEF OnPath
<1>2. Len(p) \in Nat /\ 1 \in 1..Len(p) /\ p[Len(p)].op = "end"
  BY <1>1, TreeIsSequence
<1>3. \A i \in 1..Len(p) : HasSlot(p, nd, i)
  <2> TAKE i \in 1..Len(p)
  <2>1. CASE i = Len(p)
    BY <1>2, <2>1 DEF HasSlot, Scopes
  <2>2. CASE i # Len(p)
    <3>1. i < Len(p)
      BY <1>2, <2>2
    <3>2. QED
      BY <3>1 DEF OnPath, Given
  <2>3. QED
    BY <2>1, <2>2
<1>4. QED
  BY <1>1, <1>2, <1>3, FirstContext DEF OnPath

\* A scope is entered.
LEMMA EnterPath ==
  ASSUME NEW pass, NEW p, NEW nd, NEW a, NEW stg, NEW sym, NEW dt, NEW err,
         OnPath(pass, p, nd, a, stg, sym, dt, err), p[a].op \in Scopes,
         NEW nd2, Slotted(p, nd2), \A i \in 1..Len(p) : i # a => nd2[i].slot = nd[i].slot,
         HasSlot(p, nd2, a),
         NEW err2, err2 = {} => err = {}
  PROVE  OnPath(pass, p, nd2, a + 1, stg \o StagesOf(p, VisitsOf(pass, p)[a]),
                sym \o VisitsOf(pass, p)[a], dt \o SlotsOf(p, nd2)[a], err2)
<1>1. /\ IsTree(p) /\ a \in 1..Len(p) /\ a \in Int /\ p[a].op # "end" /\ Len(p) \in Nat
      /\ Context(pass, p, nd, a, stg, sym, dt)
  BY TreeIsSequence DEF OnPath, Scopes
<1>2. a + 1 \in 1..Len(p)
  BY <1>1, AfterIt
<1>3. \A s \in 1..(a - 1) : nd2[s].slot = nd[s].slot
  BY <1>1
<1>4. Context(pass, p, nd2, a + 1, stg \o StagesOf(p, VisitsOf(pass, p)[a]),
              sym \o VisitsOf(pass, p)[a], dt \o SlotsOf(p, nd2)[a])
  BY <1>1, <1>3, EnterContext
<1>5. ASSUME NEW i \in 1..Len(p), Given(pass, p, a + 1, err2, i)
      PROVE  HasSlot(p, nd2, i)
  <2>1. CASE i = a
    BY <2>1
  <2>2. CASE i # a
    <3>1. Given(pass, p, a, err, i)
      BY <1>1, <1>5, <2>2, OpenBefore DEF Given
    <3>2. QED
      BY <2>2, <3>1 DEF OnPath, HasSlot
  <2>3. QED
    BY <2>1, <2>2
<1>6. QED
  BY <1>1, <1>2, <1>4, <1>5 DEF OnPath

\* A node that is no scope is visited.
LEMMA PassPath ==
  ASSUME NEW pass, NEW p, NEW nd, NEW a, NEW stg, NEW sym, NEW dt, NEW err,
         OnPath(pass, p, nd, a, stg, sym, dt, err), p[a].op \notin Scopes, p[a].op # "end",
         NEW nd2, Slotted(p, nd2), \A i \in 1..Len(p) : i # a => nd2[i].slot = nd[i].slot,
         NEW err2, err2 = {} => err = {}
  PROVE  OnPath(pass, p, nd2, a + 1, stg, sym, dt, err2)
<1>1. /\ IsTree(p) /\ a \in 1..Len(p) /\ a \in Int /\ Len(p) \in Nat
      /\ Context(pass, p, nd, a, stg, sym, dt)
  BY TreeIsSequence DEF OnPath
<1>2. a + 1 \in 1..Len(p)
  BY <1>1, AfterIt
<1>3. \A s \in 1..(a - 1) : nd2[s].slot = nd[s].slot
  BY <1>1
<1>4. Context(pass, p, nd2, a + 1, stg, sym, dt)
  BY <1>1, <1>3, PassContext
<1>5. ASSUME NEW i \in 1..Len(p), Given(pass, p, a + 1, err2, i)
      PROVE  HasSlot(p, nd2, i)
  <2>1. CASE i = a
    BY <2>1 DEF HasSlot
  <2>2. CASE i # a
    <3>1. Given(pass, p, a, err, i)
      BY <1>1, <1>5, <2>2, OpenBefore DEF Given
    <3>2. QED
      BY <2>2, <3>1 DEF OnPath, HasSlot
  <2>3. QED
    BY <2>1, <2>2
<1>6. QED
  BY <1>1, <1>2, <1>4, <1>5 DEF OnPath

\* TypeGen passes over a scope, which it reports.
LEMMA SkipPath ==
  ASSUME NEW p, NEW nd, NEW a, NEW stg, NEW sym, NEW dt, NEW err,
         OnPath("typegen", p, nd, a, stg, sym, dt, err), p[a].op \in Scopes, p[a].op # "module",
         NEW err2, err2 # {}
  PROVE  OnPath("typegen", p, nd, EndOf(p, a) + 1, stg, sym, dt, err2)
<1> DEFINE e == EndOf(p, a)
           V == VisitsOf("typegen", p)
           D == SlotsOf(p, nd)
<1>1. /\ IsTree(p) /\ a \in 1..Len(p) /\ a \in Int /\ Len(p) \in Nat /\ Slotted(p, nd)
      /\ Context("typegen", p, nd, a, stg, sym, dt)
  BY TreeIsSequence DEF OnPath
<1>2. e \in (a + 1)..Len(p) /\ p[e].depth = p[a].depth
  BY <1>1, ScopeEnds DEF Encloses
<1>3. e + 1 \in 1..Len(p)
  <2>1. /\ p[a].op = "module" <=> a = 1
        /\ p[a].depth = 0 <=> a \in {1, Len(p)}
        /\ p[Len(p)].depth = 0
    BY <1>1, TreeIsSequence DEF IsTree
  <2> HIDE DEF e
  <2>2. a # 1 /\ a # Len(p)
    BY <1>1, <1>2, <2>1
  <2>3. e # Len(p)
    BY <1>2, <2>1, <2>2
  <2>4. QED
    BY <1>1, <1>2, <2>3
<1>4. Pushes(p, V, 1..Len(p))
  BY <1>1, VisitsArePushed
<1>5. PICK S : Pushes(p, D, S)
  BY <1>1, SlotsArePushed
<1> HIDE DEF V, D
<1>6. Pushed(p, e + 1, V) = Pushed(p, a, V)
  BY <1>1, <1>4, PushedSkip
<1>7. /\ Pushed(p, e + 1, D) = Pushed(p, a, D)
      /\ \A s \in 1..e : OpenAt(p, e + 1, s) => s < a /\ OpenAt(p, a, s)
  BY <1>1, <1>5, PushedSkip
<1> HIDE DEF e
<1>8. Context("typegen", p, nd, e + 1, stg, sym, dt)
  BY <1>1, <1>6, <1>7 DEF Context, V, D
<1>9. ASSUME NEW i \in 1..Len(p), Given("typegen", p, e + 1, err2, i)
      PROVE  HasSlot(p, nd, i)
  <2>1. i < e + 1 /\ OpenAt(p, e + 1, i)
    BY <1>9 DEF Given
  <2>2. i \in 1..e
    BY <1>2, <2>1
  <2>3. i < a /\ OpenAt(p, a, i)
    BY <1>7, <2>1, <2>2
  <2>4. QED
    BY <2>3 DEF OnPath, Given
<1>10. QED
  BY <1>1, <1>3, <1>8, <1>9 DEF OnPath, e

\* What was put on a stack is taken back.
LEMMA TakenBack ==
  ASSUME NEW s, Typed(s), NEW x
  PROVE  /\ Front(s \o <<x>>) = s /\ Last(s \o <<x>>) = x
         /\ Front(Front(s \o <<x, x>>)) = s /\ Last(s \o <<x, x>>) = x
<1>1. PICK R : s \in Seq(R)
  BY DEF Typed
<1> DEFINE S == R \union {x}
           one == <<x>>
           two == <<x, x>>
<1>2. /\ s \in Seq(S) /\ x \in S
      /\ one \in Seq(S) /\ Len(one) = 1 /\ one[1] = x
      /\ two \in Seq(S) /\ Len(two) = 2 /\ two[1] = x /\ two[2] = x
  <2>1. s \in Seq(S) /\ x \in S
    BY <1>1, SeqMonotonic
  <2> HIDE DEF S
  <2>2. QED
    BY <2>1
<1> HIDE DEF S, one, two
<1>3. Len(s) \in Nat /\ s \in [1..Len(s) -> S]
  BY <1>2, LenProperties
<1>4. ASSUME NEW t \in Seq(S), NEW r \in Seq(S), Len(r) = Len(t) + 1, r[Len(t) + 1] = x,
             \A k \in 1..Len(t) : r[k] = t[k]
      PROVE  Front(r) = t /\ Last(r) = x
    <2>1. /\ Len(t) \in Nat /\ t \in [1..Len(t) -> S] /\ Len(r) \in Nat
          /\ \A k \in 1..Len(r) : r[k] \in S
      BY LenProperties, ElementOfSeq
    <2>2. Len(r) - 1 = Len(t)
      BY <1>4, <2>1
    <2>3. \A k \in 1..Len(t) : r[k] \in S
      BY <1>4, <2>1
    <2> DEFINE f == SubSeq(r, 1, Len(t))
    <2>4. f \in Seq(S) /\ Len(f) = Len(t) /\ \A k \in 1..Len(t) : f[k] = r[k]
      BY <2>1, <2>3, SubSeqProperties
    <2> HIDE DEF f
    <2>5. f \in [1..Len(t) -> S]
      BY <2>4, LenProperties
    <2>6. f = t
      BY <1>4, <2>1, <2>4, <2>5
    <2>7. QED
      BY <1>4, <2>2, <2>6 DEF Front, Last, f
<1> DEFINE r == s \o one
           q == s \o two
<1>5. /\ r \in Seq(S) /\ Len(r) = Len(s) + 1 /\ r[Len(s) + 1] = x
      /\ \A k \in 1..Len(s) : r[k] = s[k]
  <2>1. /\ r \in Seq(S) /\ Len(r) = Len(s) + Len(one)
        /\ \A k \in 1..(Len(s) + Len(one)) : r[k] = IF k <= Len(s) THEN s[k] ELSE one[k - Len(s)]
    BY <1>2, ConcatProperties
  <2> HIDE DEF r
  <2>2. QED
    BY <1>2, <1>3, <2>1
<1>6. /\ q \in Seq(S) /\ Len(q) = Len(s) + 2
      /\ q[Len(s) + 1] = x /\ q[Len(s) + 2] = x
      /\ \A k \in 1..Len(s) : q[k] = s[k]
  <2>1. /\ q \in Seq(S) /\ Len(q) = Len(s) + Len(two)
        /\ \A k \in 1..(Len(s) + Len(two)) : q[k] = IF k <= Len(s) THEN s[k] ELSE two[k - Len(s)]
    BY <1>2, ConcatProperties
  <2> HIDE DEF q
  <2>2. QED
    BY <1>2, <1>3, <2>1
<1> HIDE DEF r, q
<1>7. Front(r) = s /\ Last(r) = x
  BY <1>2, <1>4, <1>5
<1>8. Front(q) = r /\ Last(q) = x
  <2>1. Len(q) = Len(r) + 1 /\ q[Len(r) + 1] = x
    BY <1>3, <1>5, <1>6
  <2>2. \A k \in 1..Len(r) : q[k] = r[k]
    BY <1>3, <1>5, <1>6
  <2>3. QED
    BY <1>4, <1>5, <1>6, <2>1, <2>2
<1>9. QED
  BY <1>7, <1>8 DEF r, q, one, two

\* At an end a pass leaves the scope it is in; behind the module it has left them all.
Left(pass, p, nd, nd2, a, stg, sym, dt, err2, c) ==
  LET isBlock == p[c].op = "block"
      Up(s) == IF pass = "binding" /\ isBlock THEN Front(Front(s)) ELSE Front(s)
      up == IF isBlock THEN dt ELSE Front(dt)
  IN /\ Closes(p, a, c) /\ Last(sym) = c
     /\ nd[c].slot = NoSlot <=> isBlock
     /\ c # 1 => OnPath(pass, p, nd2, a + 1, Up(stg), Up(sym), up, err2)
     /\ c = 1 => Up(stg) = <<>> /\ Up(sym) = Outermost /\ up = <<>>

\* The end of a scope takes the top of each stack, of the types only for a scope that
\* has one, and what is left is the path to what is behind it.
LEMMA LeavePath ==
  ASSUME NEW pass, NEW p, NEW nd, NEW a, NEW stg, NEW sym, NEW dt, NEW err,
         OnPath(pass, p, nd, a, stg, sym, dt, err), p[a].op = "end",
         NEW nd2, Slotted(p, nd2), \A i \in 1..Len(p) : nd2[i].slot = nd[i].slot,
         NEW err2, err2 = {} => err = {}
  PROVE  \E c : Left(pass, p, nd, nd2, a, stg, sym, dt, err2, c)
<1>1. /\ IsTree(p) /\ a \in 1..Len(p) /\ a \in Int /\ Len(p) \in Nat /\ Slotted(p, nd)
      /\ Context(pass, p, nd, a, stg, sym, dt)
  BY TreeIsSequence DEF OnPath
<1>2. PICK c : Closes(p, a, c)
  BY <1>1, EndCloses
<1>3. c \in 1..Len(p) /\ (c # 1 => a + 1 \in 1..Len(p))
  BY <1>1, <1>2, AfterIt
<1>4. c < a /\ c \in Int /\ p[c].op \in Scopes /\ OpenAt(p, a, c)
  BY <1>1, <1>2 DEF Closes, OpenAt
<1>5. nd[c].slot = NoSlot <=> p[c].op = "block"
  <2>1. HasSlot(p, nd, c)
    BY <1>3, <1>4 DEF OnPath, Given
  <2>2. QED
    BY <1>1, <1>3, <1>4, <2>1 DEF HasSlot, Slotted
<1>6. \A s \in 1..(a - 1) : nd2[s].slot = nd[s].slot
  BY <1>1
<1>18. PICK stg0, sym0, dt0 : Below(pass, p, nd2, a, c, stg, sym, dt, stg0, sym0, dt0)
  BY <1>1, <1>2, <1>6, LeaveContext
<1>7. /\ Typed(stg0) /\ sym0 \in Seq(Nat) /\ Typed(dt0)
      /\ Context(pass, p, nd2, a + 1, stg0, sym0, dt0)
      /\ stg = stg0 \o StagesOf(p, VisitsOf(pass, p)[c])
      /\ sym = sym0 \o VisitsOf(pass, p)[c]
      /\ dt = dt0 \o SlotsOf(p, nd2)[c]
      /\ c = 1 => stg0 = <<>> /\ sym0 = Outermost /\ dt0 = <<>>
  BY <1>18 DEF Below
<1>8. Typed(sym0) /\ DOMAIN p = 1..Len(p)
  BY <1>1, <1>7, TreeIsSequence DEF Typed
<1> DEFINE isBlock == p[c].op = "block"
           Up(s) == IF pass = "binding" /\ isBlock THEN Front(Front(s)) ELSE Front(s)
           up == IF isBlock THEN dt ELSE Front(dt)
<1>9. /\ StagesOf(p, <<c>>) = <<StageOf(p, c)>>
      /\ StagesOf(p, <<c, c>>) = <<StageOf(p, c), StageOf(p, c)>>
  BY DEF StagesOf
<1>10. Up(stg) = stg0 /\ Up(sym) = sym0 /\ Last(sym) = c
  <2>1. CASE pass = "binding" /\ isBlock
    <3>1. VisitsOf(pass, p)[c] = <<c, c>>
      BY <1>3, <1>8, <2>1 DEF VisitsOf
    <3>2. stg = stg0 \o <<StageOf(p, c), StageOf(p, c)>> /\ sym = sym0 \o <<c, c>>
      BY <1>7, <1>9, <3>1
    <3>3. QED
      BY <1>7, <1>8, <2>1, <3>2, TakenBack
  <2>2. CASE ~ (pass = "binding" /\ isBlock)
    <3>1. VisitsOf(pass, p)[c] = <<c>>
      BY <1>3, <1>8, <2>2 DEF VisitsOf
    <3>2. stg = stg0 \o <<StageOf(p, c)>> /\ sym = sym0 \o <<c>>
      BY <1>7, <1>9, <3>1
    <3>3. QED
      BY <1>7, <1>8, <2>2, <3>2, TakenBack
  <2>3. QED
    BY <2>1, <2>2
<1>11. up = dt0
  <2>1. CASE isBlock
    <3>1. SlotsOf(p, nd2)[c] = <<>>
      BY <1>3, <1>8, <2>1 DEF SlotsOf
    <3>2. dt0 \o <<>> = dt0
      BY <1>7, ConcatEmptySeq DEF Typed
    <3>3. QED
      BY <1>7, <2>1, <3>1, <3>2
  <2>2. CASE ~ isBlock
    <3>1. SlotsOf(p, nd2)[c] = <<nd2[c].slot>>
      BY <1>3, <1>8, <2>2 DEF SlotsOf
    <3>2. QED
      BY <1>7, <2>2, <3>1, TakenBack
  <2>3. QED
    BY <2>1, <2>2
<1>12. ASSUME NEW i \in 1..Len(p), Given(pass, p, a + 1, err2, i), c # 1
       PROVE  HasSlot(p, nd2, i)
  <2>1. CASE i = a
    BY <2>1 DEF HasSlot, Scopes
  <2>2. CASE i # a
    <3>1. Given(pass, p, a, err, i)
      BY <1>1, <1>12, <2>2, OpenBefore DEF Given
    <3>2. QED
      BY <3>1 DEF OnPath, HasSlot
  <2>3. QED
    BY <2>1, <2>2
<1>13. c # 1 => OnPath(pass, p, nd2, a + 1, stg0, sym0, dt0, err2)
  BY <1>1, <1>3, <1>7, <1>12 DEF OnPath
<1>14. c = 1 => stg0 = <<>> /\ sym0 = Outermost /\ dt0 = <<>>
  BY <1>7
<1>15. /\ c # 1 => OnPath(pass, p, nd2, a + 1, Up(stg), Up(sym), up, err2)
       /\ c = 1 => Up(stg) = <<>> /\ Up(sym) = Outermost /\ up = <<>>
  <2> HIDE DEF Up, up, isBlock
  <2>1. QED
    BY <1>10, <1>11, <1>13, <1>14
<1>16. Left(pass, p, nd, nd2, a, stg, sym, dt, err2, c)
  <2> HIDE DEF Up, up
  <2>1. QED
    BY <1>2, <1>5, <1>10, <1>15 DEF Left, Up, up
<1>17. QED
  BY <1>16

-----------------------------------------------------------------------------
(* What is put into a program. *)

\* q is s with n in front of what was at a.
Spliced(s, a, n, q) ==
  /\ Len(q) = Len(s) + Len(n) /\ q = [i \in 1..(Len(s) + Len(n)) |-> q[i]]
  /\ \A i \in 1..(a - 1) : q[i] = s[i]
  /\ \A i \in 1..Len(n) : q[(a - 1) + i] = n[i]
  /\ \A i \in a..Len(s) : q[i + Len(n)] = s[i]

\* Putting in is cutting in two and concatenating.
LEMMA Splice ==
  ASSUME NEW S, NEW s \in Seq(S), NEW n \in Seq(S), NEW a \in 1..Len(s), Len(s) \in Nat
  PROVE  Spliced(s, a, n, (SubSeq(s, 1, a - 1) \o n) \o SubSeq(s, a, Len(s)))
<1> DEFINE f == SubSeq(s, 1, a - 1)
           b == SubSeq(s, a, Len(s))
<1>1. /\ a \in Nat /\ a - 1 \in Nat /\ a - 1 \in Int /\ Len(s) \in Int /\ 1 \in Int /\ a \in Int
      /\ Len(n) \in Nat
      /\ \A k \in 1..Len(s) : s[k] \in S
  BY LenProperties, ElementOfSeq
<1>2. f \in Seq(S) /\ Len(f) = a - 1 /\ \A k \in 1..(a - 1) : f[k] = s[k]
  <2>1. \A k \in 1..(a - 1) : s[k] \in S
    BY <1>1
  <2>2. /\ f \in Seq(S) /\ Len(f) = IF 1 <= a - 1 THEN (a - 1) - 1 + 1 ELSE 0
        /\ \A k \in 1..((a - 1) - 1 + 1) : f[k] = s[1 + k - 1]
    BY <1>1, <2>1, SubSeqProperties
  <2> HIDE DEF f
  <2>3. QED
    BY <1>1, <2>2
<1>3. /\ b \in Seq(S) /\ Len(b) = Len(s) - a + 1
      /\ \A k \in 1..(Len(s) - a + 1) : b[k] = s[a + k - 1]
  <2>1. \A k \in a..Len(s) : s[k] \in S
    BY <1>1
  <2>2. /\ b \in Seq(S) /\ Len(b) = IF a <= Len(s) THEN Len(s) - a + 1 ELSE 0
        /\ \A k \in 1..(Len(s) - a + 1) : b[k] = s[a + k - 1]
    BY <1>1, <2>1, SubSeqProperties
  <2> HIDE DEF b
  <2>3. QED
    BY <1>1, <2>2
<1> HIDE DEF f, b
<1> DEFINE h == f \o n
<1>4. /\ h \in Seq(S) /\ Len(h) = (a - 1) + Len(n)
      /\ \A k \in 1..((a - 1) + Len(n)) : h[k] = IF k <= a - 1 THEN f[k] ELSE n[k - (a - 1)]
  <2>1. /\ h \in Seq(S) /\ Len(h) = Len(f) + Len(n)
        /\ \A k \in 1..(Len(f) + Len(n)) : h[k] = IF k <= Len(f) THEN f[k] ELSE n[k - Len(f)]
    BY <1>2, ConcatProperties
  <2> HIDE DEF h
  <2>2. QED
    BY <1>2, <2>1
<1> HIDE DEF h
<1> DEFINE q == h \o b
<1>5. /\ q \in Seq(S) /\ Len(q) = Len(h) + Len(b)
      /\ \A k \in 1..(Len(h) + Len(b)) : q[k] = IF k <= Len(h) THEN h[k] ELSE b[k - Len(h)]
  BY <1>3, <1>4, ConcatProperties
<1> HIDE DEF q
<1>6. Len(q) = Len(s) + Len(n)
  BY <1>1, <1>3, <1>4, <1>5
<1>7. q = [i \in 1..(Len(s) + Len(n)) |-> q[i]]
  <2>1. q \in [1..Len(q) -> S]
    BY <1>5, LenProperties
  <2>2. QED
    BY <1>6, <2>1
<1>8. \A i \in 1..(a - 1) : q[i] = s[i]
  <2> TAKE i \in 1..(a - 1)
  <2>1. i \in 1..((a - 1) + Len(n)) /\ i <= a - 1 /\ i \in 1..(Len(h) + Len(b)) /\ i <= Len(h)
    BY <1>1, <1>3, <1>4
  <2>2. QED
    BY <1>2, <1>4, <1>5, <2>1
<1>9. \A i \in 1..Len(n) : q[(a - 1) + i] = n[i]
  <2> TAKE i \in 1..Len(n)
  <2> DEFINE k == (a - 1) + i
  <2>1. /\ k \in 1..((a - 1) + Len(n)) /\ ~ (k <= a - 1) /\ k - (a - 1) = i
        /\ k \in 1..(Len(h) + Len(b)) /\ k <= Len(h)
    BY <1>1, <1>3, <1>4
  <2> HIDE DEF k
  <2>2. q[k] = n[i]
    BY <1>4, <1>5, <2>1
  <2>3. QED
    BY <2>2 DEF k
<1>10. \A i \in a..Len(s) : q[i + Len(n)] = s[i]
  <2> TAKE i \in a..Len(s)
  <2> DEFINE k == i + Len(n)
             m == k - Len(h)
  <2>1. /\ k \in 1..(Len(h) + Len(b)) /\ ~ (k <= Len(h))
        /\ m \in 1..(Len(s) - a + 1) /\ a + m - 1 = i
    BY <1>1, <1>3, <1>4
  <2>2. q[k] = b[m]
    <3> HIDE DEF k
    <3>1. QED
      BY <1>5, <2>1
  <2> HIDE DEF m
  <2>3. b[m] = s[i]
    BY <1>3, <2>1
  <2>4. QED
    BY <2>2, <2>3 DEF k
<1>11. QED
  BY <1>6, <1>7, <1>8, <1>9, <1>10 DEF Spliced, q, h, f, b

\* Nothing changes nothing.
LEMMA SpliceNothing ==
  ASSUME NEW s, NEW a, NEW n, NEW q, Spliced(s, a, n, q), Len(n) = 0, Len(s) \in Nat,
         s = [i \in 1..Len(s) |-> s[i]], a \in 1..Len(s)
  PROVE  q = s
<1>1. \A i \in 1..Len(s) : q[i] = s[i]
  <2> TAKE i \in 1..Len(s)
  <2>1. CASE i < a
    BY <2>1 DEF Spliced
  <2>2. CASE ~ (i < a)
    <3>1. i \in a..Len(s) /\ i + Len(n) = i
      BY <2>2
    <3>2. QED
      BY <3>1 DEF Spliced
  <2>3. QED
    BY <2>1, <2>2
<1>2. q = [i \in 1..Len(s) |-> q[i]]
  BY DEF Spliced
<1>3. QED
  BY <1>1, <1>2

\* A constructor is put in front of the end of its class.
Grown(p, a, c, q) ==
  /\ Len(q) = Len(p) + 2 /\ q = [i \in 1..(Len(p) + 2) |-> q[i]]
  /\ \A i \in 1..(a - 1) : q[i] = p[i]
  /\ q[a].op = "init" /\ q[a].depth = p[c].depth + 1
  /\ q[a + 1].op = "end" /\ q[a + 1].depth = p[c].depth + 1
  /\ \A i \in a..Len(p) : q[i + 2] = p[i]

\* It makes a tree of a tree,
LEMMA GrownIsTree ==
  ASSUME NEW p, IsTree(p), NEW a \in 1..Len(p), NEW c, Closes(p, a, c), NEW q, Grown(p, a, c, q)
  PROVE  IsTree(q)
<1> DEFINE N == Len(p)
           d == p[c].depth
<1>12. q = [i \in 1..(N + 2) |-> q[i]]
  BY DEF Grown
<1>1. /\ N \in Nat /\ a \in Nat /\ Len(q) = N + 2
      /\ c \in 1..N /\ c < a /\ p[c].op \in Scopes /\ p[a].op = "end" /\ p[a].depth = d
      /\ d \in Nat /\ p[N].op = "end"
  <2>1. c \in 1..N /\ c < a /\ p[c].op \in Scopes /\ EndOf(p, c) = a
    BY TreeIsSequence DEF Closes
  <2>2. p[a].op = "end" /\ p[a].depth = d
    BY <2>1, ScopeEnds DEF Encloses
  <2>3. QED
    BY <2>1, <2>2, TreeIsSequence, NodeOfTree DEF Grown
<1>2. \A i \in 1..N :
        /\ p[i].depth \in Nat
        /\ p[i].depth = 0 <=> i \in {1, N}
        /\ p[i].op = "module" <=> i = 1
        /\ i \in 2..N =>
             p[i].depth = IF p[i].op = "end" THEN Inside(p[i - 1]) - 1 ELSE Inside(p[i - 1])
  BY DEF IsTree
<1>3. /\ \A i \in 1..(a - 1) : q[i] = p[i]
      /\ q[a].op = "init" /\ q[a].depth = d + 1
      /\ q[a + 1].op = "end" /\ q[a + 1].depth = d + 1
      /\ \A i \in (a + 2)..(N + 2) : q[i] = p[i - 2]
  <2>1. \A i \in (a + 2)..(N + 2) : i - 2 \in a..N /\ (i - 2) + 2 = i
    BY <1>1
  <2>2. QED
    BY <2>1 DEF Grown
<1>4. Inside(q[a]) = d + 2 /\ Inside(q[a + 1]) = d + 1 /\ q[a].op # "end"
  BY <1>1, <1>3 DEF Inside, Scopes
<1>5. a \in 2..N /\ a - 1 \in 1..N /\ a - 1 \in 1..(a - 1)
  BY <1>1
<1>6. Inside(q[a - 1]) = d + 1
  <2>1. p[a].depth = Inside(p[a - 1]) - 1
    BY <1>1, <1>2, <1>5
  <2>2. Inside(p[a - 1]) \in Nat
    BY <1>5, NodeOfTree
  <2>3. q[a - 1] = p[a - 1]
    BY <1>3, <1>5
  <2>4. QED
    BY <1>1, <2>1, <2>2, <2>3
<1> HIDE DEF N, d
<1>7. \A i \in 1..(N + 2) : i < a \/ i = a \/ i = a + 1 \/ i \in (a + 2)..(N + 2)
  BY <1>1
<1>8. ASSUME NEW i \in 1..(N + 2)
      PROVE  /\ q[i].depth \in Nat
             /\ q[i].depth = 0 <=> i \in {1, N + 2}
             /\ q[i].op = "module" <=> i = 1
  <2>1. CASE i < a
    <3>1. i \in 1..(a - 1) /\ i \in 1..N /\ i # N /\ i # N + 2
      BY <1>1, <1>5, <2>1
    <3>2. q[i] = p[i]
      BY <1>3, <3>1
    <3>3. QED
      BY <1>2, <3>1, <3>2
  <2>2. CASE i = a
    BY <1>1, <1>3, <1>5, <2>2
  <2>3. CASE i = a + 1
    BY <1>1, <1>3, <1>5, <2>3
  <2>4. CASE i \in (a + 2)..(N + 2)
    <3>1. i - 2 \in 1..N /\ i - 2 # 1 /\ i # 1 /\ (i - 2 = N <=> i = N + 2)
      BY <1>1, <1>5, <2>4
    <3>2. q[i] = p[i - 2]
      BY <1>3, <2>4
    <3>3. QED
      BY <1>2, <3>1, <3>2
  <2>5. QED
    BY <1>7, <2>1, <2>2, <2>3, <2>4
<1>9. ASSUME NEW i \in 2..(N + 2)
      PROVE  q[i].depth = IF q[i].op = "end" THEN Inside(q[i - 1]) - 1 ELSE Inside(q[i - 1])
  <2>1. CASE i < a
    <3>1. i \in 1..(a - 1) /\ i - 1 \in 1..(a - 1) /\ i \in 1..N /\ i \in 2..N
      BY <1>1, <1>5, <2>1
    <3>2. q[i] = p[i] /\ q[i - 1] = p[i - 1]
      BY <1>3, <3>1
    <3>3. QED
      BY <1>2, <3>1, <3>2
  <2>2. CASE i = a
    BY <1>1, <1>3, <1>4, <1>6, <2>2
  <2>3. CASE i = a + 1
    <3>1. i - 1 = a
      BY <1>1, <2>3
    <3>2. QED
      BY <1>1, <1>3, <1>4, <2>3, <3>1
  <2>4. CASE i = a + 2
    <3>1. i - 1 = a + 1 /\ q[i] = p[a]
      <4>1. a + 2 \in (a + 2)..(N + 2) /\ (a + 2) - 2 = a /\ (a + 2) - 1 = a + 1
        BY <1>1, <1>5
      <4>2. QED
        BY <1>3, <2>4, <4>1
    <3>2. QED
      BY <1>1, <1>4, <3>1
  <2>5. CASE i \in (a + 3)..(N + 2)
    <3>1. /\ i \in (a + 2)..(N + 2) /\ i - 1 \in (a + 2)..(N + 2)
          /\ i - 2 \in 1..N /\ i - 2 \in 2..N /\ (i - 1) - 2 = (i - 2) - 1
      <4>1. i \in (a + 3)..(N + 2) /\ N \in Nat /\ a \in 2..N
        BY <1>1, <1>5, <2>5
      <4>2. QED
        BY <4>1
    <3>2. q[i] = p[i - 2] /\ q[i - 1] = p[(i - 2) - 1]
      BY <1>3, <3>1
    <3>3. QED
      BY <1>2, <3>1, <3>2
  <2>6. i < a \/ i = a \/ i = a + 1 \/ i = a + 2 \/ i \in (a + 3)..(N + 2)
    BY <1>1
  <2>7. QED
    BY <2>1, <2>2, <2>3, <2>4, <2>5, <2>6
<1>10. q \in Seq(ToSet(q)) /\ Len(q) > 1 /\ q[Len(q)].op = "end"
  <2>1. DOMAIN q = 1..(N + 2) /\ N + 2 \in Nat
    BY <1>1, <1>12
  <2>2. \A i \in 1..(N + 2) : q[i] \in ToSet(q)
    BY <2>1 DEF ToSet
  <2>3. q \in [1..(N + 2) -> ToSet(q)]
    BY <1>12, <2>2
  <2>4. q \in Seq(ToSet(q))
    BY <2>1, <2>3, SeqDef
  <2>5. N + 2 \in (a + 2)..(N + 2) /\ (N + 2) - 2 = N
    BY <1>1, <1>5
  <2>6. q[N + 2] = p[N]
    BY <1>3, <2>5
  <2>7. p[N].op = "end"
    BY <1>1
  <2>8. QED
    BY <1>1, <2>4, <2>6, <2>7
<1>11. QED
  BY <1>1, <1>8, <1>9, <1>10 DEF IsTree

\* in which the same scopes are open.
LEMMA GrownIsOpen ==
  ASSUME NEW p, IsTree(p), NEW a \in 1..Len(p), NEW c, Closes(p, a, c), NEW q, Grown(p, a, c, q),
         NEW s \in 1..(a - 1)
  PROVE  OpenAt(q, a, s) <=> OpenAt(p, a, s)
<1> DEFINE e == EndOf(p, s)
<1>6. /\ Len(q) = Len(p) + 2
      /\ \A i \in 1..(a - 1) : q[i] = p[i]
      /\ \A i \in a..Len(p) : q[i + 2] = p[i]
  BY DEF Grown
<1>1. /\ Len(p) \in Nat /\ a \in Nat /\ s \in 1..Len(p) /\ IsTree(q)
      /\ q[s] = p[s] /\ s \in 1..Len(q) /\ c \in Int
  <2>1. Len(p) \in Nat /\ IsTree(q)
    BY TreeIsSequence, GrownIsTree
  <2>2. a \in Nat /\ s \in 1..Len(p) /\ q[s] = p[s] /\ s \in 1..Len(q)
    BY <1>6, <2>1
  <2>3. QED
    BY <2>1, <2>2 DEF Closes
<1> SUFFICES ASSUME p[s].op \in Scopes
             PROVE  a <= EndOf(q, s) <=> a <= EndOf(p, s)
  BY <1>1 DEF OpenAt
<1>2. /\ e \in (s + 1)..Len(p) /\ p[e].op = "end" /\ p[e].depth = p[s].depth
      /\ \A j \in (s + 1)..(e - 1) : p[j].depth > p[s].depth
  BY <1>1, ScopeEnds DEF Encloses
<1> HIDE DEF e
<1>3. CASE e < a
  <2>1. e \in (s + 1)..Len(q) /\ q[e] = p[e]
    BY <1>1, <1>2, <1>3, <1>6
  <2>2. \A j \in (s + 1)..(e - 1) : q[j] = p[j]
    BY <1>1, <1>2, <1>3, <1>6
  <2>3. Encloses(q, s, e)
    BY <1>1, <1>2, <2>1, <2>2 DEF Encloses
  <2>4. EndOf(q, s) = e
    BY <1>1, <2>3, EndIsFound
  <2>5. QED
    BY <2>4 DEF e
<1>4. CASE a <= e
  <2> DEFINE d == p[c].depth
  <2>1. d \in Nat /\ p[s].depth \in Nat /\ p[a].depth = d
    <3>1. c \in 1..Len(p) /\ p[c].op \in Scopes /\ EndOf(p, c) = a
      BY <1>1 DEF Closes
    <3>2. p[a].depth = d
      BY <3>1, ScopeEnds DEF Encloses
    <3>3. QED
      BY <1>1, <3>1, <3>2, NodeOfTree
  <2>2. p[s].depth <= d
    <3>1. CASE e = a
      BY <1>2, <2>1, <3>1
    <3>2. CASE e # a
      <4>1. a \in (s + 1)..(e - 1)
        BY <1>1, <1>2, <1>4, <3>2
      <4>2. QED
        BY <1>2, <2>1, <4>1
    <3>3. QED
      BY <3>1, <3>2
  <2>3. q[a].depth = d + 1 /\ q[a + 1].depth = d + 1
    BY DEF Grown
  <2> HIDE DEF d
  <2>4. e + 2 \in (s + 1)..Len(q) /\ q[e + 2] = p[e]
    BY <1>1, <1>2, <1>4, <1>6
  <2>5. ASSUME NEW j \in (s + 1)..((e + 2) - 1)
        PROVE  q[j].depth > q[s].depth
    <3>1. CASE j < a
      <4>1. q[j] = p[j] /\ j \in (s + 1)..(e - 1)
        BY <1>1, <1>2, <1>4, <1>6, <3>1
      <4>2. QED
        BY <1>1, <1>2, <4>1
    <3>2. CASE j = a \/ j = a + 1
      BY <1>1, <2>1, <2>2, <2>3, <3>2
    <3>3. CASE j >= a + 2
      <4>1. j - 2 \in a..Len(p) /\ (j - 2) + 2 = j /\ j - 2 \in (s + 1)..(e - 1)
        BY <1>1, <1>2, <3>3
      <4>2. q[j] = p[j - 2]
        BY <1>6, <4>1
      <4>3. QED
        BY <1>1, <1>2, <4>1, <4>2
    <3>4. j < a \/ j = a \/ j = a + 1 \/ j >= a + 2
      BY <1>1
    <3>5. QED
      BY <3>1, <3>2, <3>3, <3>4
  <2>6. Encloses(q, s, e + 2)
    BY <1>1, <1>2, <2>4, <2>5 DEF Encloses
  <2>7. EndOf(q, s) = e + 2
    BY <1>1, <2>6, EndIsFound
  <2>8. QED
    BY <1>1, <1>2, <1>4, <2>7 DEF e
<1>5. QED
  BY <1>1, <1>2, <1>3, <1>4

\* The pass is where it was.
LEMMA GrownPath ==
  ASSUME NEW p, NEW nd, NEW a, NEW stg, NEW sym, NEW dt, NEW err,
         OnPath("typegen", p, nd, a, stg, sym, dt, err), NEW c, Closes(p, a, c),
         NEW q, Grown(p, a, c, q), NEW nd2, Slotted(q, nd2),
         \A i \in 1..(a - 1) : nd2[i] = nd[i]
  PROVE  OnPath("typegen", q, nd2, a, stg, sym, dt, err)
<1> DEFINE V == VisitsOf("typegen", p)
           W == VisitsOf("typegen", q)
           D == SlotsOf(p, nd)
           E == SlotsOf(q, nd2)
<1>1. /\ IsTree(p) /\ a \in 1..Len(p) /\ a \in Nat /\ Len(p) \in Nat
      /\ DOMAIN p = 1..Len(p)
      /\ sym = Outermost \o Pushed(p, a, V) /\ stg = StagesOf(p, Pushed(p, a, V))
      /\ dt = Pushed(p, a, D)
  BY TreeIsSequence DEF OnPath, Context
<1>2. IsTree(q) /\ DOMAIN q = 1..Len(q)
  BY <1>1, GrownIsTree, TreeIsSequence
<1>3. Len(q) = Len(p) + 2 /\ \A i \in 1..(a - 1) : q[i] = p[i]
  BY DEF Grown
<1>4. a \in 1..Len(q) /\ \A s \in 1..(a - 1) : s \in 1..Len(p) /\ s \in 1..Len(q) /\ s < a
  BY <1>1, <1>3
<1>5. \A s \in 1..(a - 1) : OpenAt(p, a, s) <=> OpenAt(q, a, s)
  BY <1>1, GrownIsOpen
<1>6. \A s \in 1..(a - 1) : V[s] = <<s>> /\ W[s] = <<s>> /\ D[s] = E[s]
  BY <1>1, <1>2, <1>3, <1>4 DEF VisitsOf, SlotsOf
<1> HIDE DEF V, W, D, E
<1>7. PushedUpTo(p, a, a - 1, V) = PushedUpTo(q, a, a - 1, W)
  BY <1>5, <1>6, PushedAgree
<1>8. PushedUpTo(p, a, a - 1, D) = PushedUpTo(q, a, a - 1, E)
  BY <1>5, <1>6, PushedAgree
<1>9. Pushed(q, a, W) = Pushed(p, a, V) /\ Pushed(q, a, E) = Pushed(p, a, D)
  BY <1>7, <1>8, PushedIsUpTo
<1>10. Pushed(p, a, V) \in Seq(1..(a - 1))
  <2> DEFINE e == <<>>
             N == 1..(a - 1)
             U == [s \in 1..Len(p) |-> IF s < a THEN <<s>> ELSE e]
  <2>1. e \in Seq(N)
    OBVIOUS
  <2>2. \A s \in 1..Len(p) : s < a => <<s>> \in Seq(N)
    <3> TAKE s \in 1..Len(p)
    <3> HAVE s < a
    <3>1. s \in N
      BY <1>1
    <3> HIDE DEF N
    <3>2. QED
      BY <3>1
  <2> HIDE DEF N, e
  <2>3. U \in [1..Len(p) -> Seq(N)]
    BY <2>1, <2>2
  <2>4. Pushes(p, U, N)
    BY <2>3 DEF Pushes
  <2>5. \A s \in 1..(a - 1) : V[s] = U[s]
    BY <1>4, <1>6
  <2> HIDE DEF U
  <2>6. PushedUpTo(p, a, a - 1, V) = PushedUpTo(p, a, a - 1, U)
    BY <2>5, PushedAgree
  <2>7. Pushed(p, a, V) = Pushed(p, a, U)
    BY <2>6, PushedIsUpTo
  <2>8. Pushed(p, a, U) \in Seq(N)
    BY <1>1, <2>4, PushedTyped
  <2>9. QED
    BY <2>7, <2>8 DEF N
<1>11. StagesOf(p, Pushed(p, a, V)) = StagesOf(q, Pushed(p, a, V))
  <2> DEFINE v == Pushed(p, a, V)
  <2>1. \A k \in DOMAIN v : v[k] \in 1..(a - 1)
    <3> DEFINE N == 1..(a - 1)
    <3>1. v \in Seq(N)
      BY <1>10
    <3> HIDE DEF v, N
    <3>2. DOMAIN v = 1..Len(v) /\ \A k \in 1..Len(v) : v[k] \in N
      BY <3>1, LenProperties, ElementOfSeq
    <3>3. QED
      BY <3>2 DEF N
  <2> HIDE DEF v
  <2>2. \A k \in DOMAIN v : StageOf(p, v[k]) = StageOf(q, v[k])
    BY <1>3, <2>1 DEF StageOf
  <2>3. StagesOf(p, v) = StagesOf(q, v)
    BY <2>2 DEF StagesOf
  <2>4. QED
    BY <2>3 DEF v
<1>12. Context("typegen", q, nd2, a, stg, sym, dt)
  BY <1>1, <1>9, <1>11 DEF Context, W, E
<1>13. ASSUME NEW i \in 1..Len(q), Given("typegen", q, a, err, i)
       PROVE  HasSlot(q, nd2, i)
  <2>1. i \in 1..(a - 1) /\ i \in 1..Len(p)
    BY <1>1, <1>13 DEF Given
  <2>2. Given("typegen", p, a, err, i)
    BY <1>5, <1>13, <2>1 DEF Given
  <2>3. QED
    BY <1>3, <2>1, <2>2 DEF OnPath, HasSlot
<1>14. QED
  BY <1>2, <1>4, <1>12, <1>13 DEF OnPath

-----------------------------------------------------------------------------
(* The ways a visitor goes. *)

\* The stacks are sequences.
LEMMA StacksAreTyped ==
  ASSUME NEW pass, NEW p, NEW nd, NEW a, NEW stg, NEW sym, NEW dt, NEW err,
         OnPath(pass, p, nd, a, stg, sym, dt, err)
  PROVE  Typed(stg) /\ Typed(sym) /\ Typed(dt)
<1> DEFINE V == VisitsOf(pass, p)
           D == SlotsOf(p, nd)
           N == 1..Len(p)
<1>1. /\ IsTree(p) /\ a \in 1..Len(p) /\ N \subseteq Nat
      /\ sym = Outermost \o Pushed(p, a, V) /\ stg = StagesOf(p, Pushed(p, a, V))
      /\ dt = Pushed(p, a, D)
  BY TreeIsSequence DEF OnPath, Context
<1>2. Pushes(p, V, N)
  BY <1>1, VisitsArePushed
<1>3. PICK S : Pushes(p, D, S)
  BY <1>1, SlotsArePushed
<1> HIDE DEF V, D, N
<1>4. Pushed(p, a, V) \in Seq(N) /\ Pushed(p, a, D) \in Seq(S)
  BY <1>1, <1>2, <1>3, PushedTyped
<1>5. Pushed(p, a, V) \in Seq(Nat)
  BY <1>1, <1>4, SeqMonotonic
<1>6. sym \in Seq(Nat)
  BY <1>1, <1>5, OutermostIsTyped, ConcatProperties
<1>7. stg \in Seq({StageOf(p, s) : s \in N})
  BY <1>1, <1>4, StagesOfConcat
<1>8. QED
  BY <1>1, <1>4, <1>6, <1>7 DEF Typed

\* Appending is concatenating.
LEMMA AppendToTyped ==
  ASSUME NEW s, Typed(s), NEW x
  PROVE  Append(s, x) = s \o <<x>>
<1>1. PICK R : s \in Seq(R)
  BY DEF Typed
<1> DEFINE S == R \union {x}
<1>2. s \in Seq(S) /\ x \in S
  BY <1>1, SeqMonotonic
<1> HIDE DEF S
<1>3. QED
  BY <1>2, AppendIsConcat

\* A scope is entered once,
LEMMA EnterOnce ==
  ASSUME NEW pass, NEW p, NEW nd, NEW a, NEW stg, NEW sym, NEW dt, NEW err,
         OnPath(pass, p, nd, a, stg, sym, dt, err), p[a].op \in Scopes,
         ~ (pass = "binding" /\ p[a].op = "block"),
         NEW nd2, Slotted(p, nd2), \A i \in 1..Len(p) : i # a => nd2[i].slot = nd[i].slot,
         HasSlot(p, nd2, a), NEW err2, err2 = {} => err = {}, NEW slot, slot = nd2[a].slot
  PROVE  OnPath(pass, p, nd2, a + 1, Append(stg, StageOf(p, a)), Append(sym, a),
                IF slot = NoSlot THEN dt ELSE Append(dt, slot), err2)
<1>1. IsTree(p) /\ a \in 1..Len(p)
  BY DEF OnPath
<1>2. DOMAIN p = 1..Len(p)
  BY <1>1, TreeIsSequence
<1>3. Typed(stg) /\ Typed(sym) /\ Typed(dt)
  BY StacksAreTyped
<1>4. VisitsOf(pass, p)[a] = <<a>>
  BY <1>1, <1>2 DEF VisitsOf
<1>5. StagesOf(p, <<a>>) = <<StageOf(p, a)>>
  BY DEF StagesOf
<1>6. dt \o SlotsOf(p, nd2)[a] = IF slot = NoSlot THEN dt ELSE Append(dt, slot)
  <2>1. CASE p[a].op = "block"
    <3>1. SlotsOf(p, nd2)[a] = <<>> /\ slot = NoSlot
      BY <1>1, <1>2, <2>1 DEF SlotsOf, Slotted
    <3>2. dt \o <<>> = dt
      BY <1>3, ConcatEmptySeq DEF Typed
    <3>3. QED
      BY <3>1, <3>2
  <2>2. CASE p[a].op # "block"
    <3>1. SlotsOf(p, nd2)[a] = <<slot>> /\ slot # NoSlot
      BY <1>1, <1>2, <2>2 DEF SlotsOf, HasSlot
    <3>2. QED
      BY <1>3, <3>1, AppendToTyped
  <2>3. QED
    BY <2>1, <2>2
<1>7. stg \o StagesOf(p, VisitsOf(pass, p)[a]) = Append(stg, StageOf(p, a))
  BY <1>3, <1>4, <1>5, AppendToTyped
<1>8. sym \o VisitsOf(pass, p)[a] = Append(sym, a)
  BY <1>3, <1>4, AppendToTyped
<1>9. OnPath(pass, p, nd2, a + 1, stg \o StagesOf(p, VisitsOf(pass, p)[a]),
             sym \o VisitsOf(pass, p)[a], dt \o SlotsOf(p, nd2)[a], err2)
  BY EnterPath
<1>10. QED
  BY <1>6, <1>7, <1>8, <1>9

\* and a block twice, when names are bound.
LEMMA EnterTwice ==
  ASSUME NEW p, NEW nd, NEW a, NEW stg, NEW sym, NEW dt, NEW err,
         OnPath("binding", p, nd, a, stg, sym, dt, err), p[a].op = "block"
  PROVE  OnPath("binding", p, nd, a + 1, stg \o <<"block", "block">>, sym \o <<a, a>>, dt, err)
<1>1. IsTree(p) /\ a \in 1..Len(p) /\ Slotted(p, nd) /\ HasSlot(p, nd, a) /\ p[a].op \in Scopes
  BY DEF OnPath, HasSlot, Scopes
<1>2. DOMAIN p = 1..Len(p)
  BY <1>1, TreeIsSequence
<1>3. VisitsOf("binding", p)[a] = <<a, a>>
  BY <1>1, <1>2 DEF VisitsOf
<1>4. StagesOf(p, <<a, a>>) = <<"block", "block">>
  BY DEF StagesOf, StageOf
<1>5. dt \o SlotsOf(p, nd)[a] = dt
  <2>1. SlotsOf(p, nd)[a] = <<>>
    BY <1>1, <1>2 DEF SlotsOf
  <2>2. Typed(dt)
    BY StacksAreTyped
  <2>3. QED
    BY <2>1, <2>2, ConcatEmptySeq DEF Typed
<1>6. OnPath("binding", p, nd, a + 1, stg \o StagesOf(p, VisitsOf("binding", p)[a]),
             sym \o VisitsOf("binding", p)[a], dt \o SlotsOf(p, nd)[a], err)
  BY <1>1, EnterPath
<1>7. QED
  BY <1>3, <1>4, <1>5, <1>6

\* What a pass writes to a node.
Writes(p, nd, a, node, nd2) ==
  /\ Slotted(p, nd) /\ a \in 1..Len(p)
  /\ "slot" \in DOMAIN node /\ (p[a].op = "block" => node.slot = NoSlot)
  /\ nd2 = [nd EXCEPT ![a] = node]

\* Only that node changes.
LEMMA WrittenNode ==
  ASSUME NEW p, NEW nd, NEW a, NEW node, NEW nd2, Writes(p, nd, a, node, nd2)
  PROVE  /\ Slotted(p, nd2) /\ nd2[a] = node
         /\ \A i \in 1..Len(p) : i # a => nd2[i].slot = nd[i].slot
<1> USE DEF Writes
<1>1. nd = [i \in 1..Len(p) |-> nd[i]]
  BY DEF Slotted
<1>2. nd2 = [i \in 1..Len(p) |-> IF i = a THEN node ELSE nd[i]]
  BY <1>1
<1>3. \A i \in 1..Len(p) : nd2[i] = IF i = a THEN node ELSE nd[i]
  BY <1>2
<1>4. nd2 = [i \in 1..Len(p) |-> nd2[i]]
  BY <1>2
<1>5. Slotted(p, nd2)
  BY <1>3, <1>4 DEF Slotted
<1>6. QED
  BY <1>3, <1>5

-----------------------------------------------------------------------------
(* The steps of the passes. *)

IsAt(pass) == OnPath(pass, program, nodes, at, stages, symbols, declTypes, errors)

\* The slots of the other nodes stay, and no report is taken back.
Keeping == /\ program' = program /\ Slotted(program, nodes')
           /\ \A i \in 1..Len(program) : i # at => nodes'[i].slot = nodes[i].slot
           /\ errors' = {} => errors = {}

\* A visitor goes into a scope,
LEMMA GoesIn ==
  ASSUME NEW CONSTANT pass, IsAt(pass), program[at].op \in Scopes,
         ~ (pass = "binding" /\ program[at].op = "block"),
         NEW slot, Enter(StageOf(program, at), at, slot), at' = at + 1,
         Keeping, HasSlot(program, nodes', at), slot = nodes'[at].slot
  PROVE  IsAt(pass)'
<1>1. OnPath(pass, program, nodes', at + 1, Append(stages, StageOf(program, at)),
             Append(symbols, at), IF slot = NoSlot THEN declTypes ELSE Append(declTypes, slot),
             errors')
  BY EnterOnce DEF IsAt, Keeping
<1>2. QED
  BY <1>1 DEF IsAt, Enter, Keeping

\* On to the next node,
LEMMA GoesOn ==
  ASSUME NEW CONSTANT pass, IsAt(pass), program[at].op \notin Scopes, program[at].op # "end",
         Keeping, at' = at + 1, UNCHANGED context
  PROVE  IsAt(pass)'
<1>1. OnPath(pass, program, nodes', at + 1, stages, symbols, declTypes, errors')
  BY PassPath DEF IsAt, Keeping
<1>2. QED
  BY <1>1 DEF IsAt, Keeping, context

\* out of a scope at its end.
LEMMA GoesOut ==
  ASSUME NEW CONSTANT pass, IsAt(pass), Visiting("end"),
         IF pass = "binding" /\ program[CurScope].op = "block" THEN LeaveBlock ELSE Leave,
         Keeping, nodes'[at].slot = nodes[at].slot,
         program[CurScope].op # "module", at' = at + 1
  PROVE  IsAt(pass)'
<1>1. IsTree(program) /\ at \in 1..Len(program)
  BY DEF IsAt, OnPath
<1>2. \A i \in 1..Len(program) : nodes'[i].slot = nodes[i].slot
  BY <1>1 DEF Keeping
<1>3. PICK c : Left(pass, program, nodes, nodes', at, stages, symbols, declTypes, errors', c)
  BY <1>2, LeavePath DEF IsAt, Visiting, Keeping
<1>4. c = CurScope /\ Closes(program, at, c)
  BY <1>3 DEF Left, CurScope
<1>5. c # 1
  BY <1>1, <1>4, AfterIt
<1>6. CASE pass = "binding" /\ program[c].op = "block"
  <2>1. OnPath(pass, program, nodes', at + 1, Front(Front(stages)), Front(Front(symbols)),
               declTypes, errors')
    BY <1>3, <1>5, <1>6 DEF Left
  <2>2. LeaveBlock
    BY <1>4, <1>6
  <2>3. QED
    BY <2>1, <2>2 DEF IsAt, LeaveBlock, Keeping
<1>7. CASE ~ (pass = "binding" /\ program[c].op = "block")
  <2>1. OnPath(pass, program, nodes', at + 1, Front(stages), Front(symbols),
               IF program[c].op = "block" THEN declTypes ELSE Front(declTypes), errors')
    BY <1>3, <1>5, <1>7 DEF Left
  <2>2. nodes[c].slot = NoSlot <=> program[c].op = "block"
    BY <1>3 DEF Left
  <2>3. Leave
    BY <1>4, <1>7
  <2>4. QED
    BY <1>4, <2>1, <2>2, <2>3 DEF IsAt, Leave, Keeping
<1>8. QED
  BY <1>6, <1>7

\* Behind the module the next pass begins.
LEMMA GoesBack ==
  ASSUME NEW CONSTANT pass, IsAt(pass), Visiting("end"), Leave,
         program[CurScope].op = "module", UNCHANGED <<syntax, errors>>, errors = {}, at' = 1,
         NEW CONSTANT next
  PROVE  IsAt(next)'
<1>1. IsTree(program) /\ at \in 1..Len(program) /\ Slotted(program, nodes)
  BY DEF IsAt, OnPath
<1>2. PICK c : Left(pass, program, nodes, nodes, at, stages, symbols, declTypes, errors, c)
  BY <1>1, LeavePath DEF IsAt, Visiting
<1>3. c = CurScope /\ Closes(program, at, c)
  BY <1>2 DEF Left, CurScope
<1>4. c = 1 /\ at = Len(program)
  BY <1>1, <1>3, AfterIt
<1>5. nodes[c].slot # NoSlot /\ program[c].op # "block"
  BY <1>2, <1>3 DEF Left
<1>6. Front(stages) = <<>> /\ Front(symbols) = Outermost /\ Front(declTypes) = <<>>
  BY <1>2, <1>4, <1>5 DEF Left
<1>7. stages' = <<>> /\ symbols' = Outermost /\ declTypes' = <<>>
  BY <1>3, <1>5, <1>6 DEF Leave
<1>8. OnPath(next, program, nodes, 1, <<>>, Outermost, <<>>, {})
  BY <1>4, NextPass DEF IsAt
<1>9. QED
  BY <1>7, <1>8 DEF IsAt, syntax

(* A pass is on the path to the node it visits, and the first begins behind the
   parser.  *)
PathInv ==
  /\ stage \in {"typegen", "binding", "irgen"} => IsAt(stage)
  /\ stage = "parsed" =>
       /\ program = <<>> \/ (IsTree(program) /\ Slotted(program, nodes))
       /\ stages = <<>> /\ symbols = Outermost /\ declTypes = <<>>

\* A pass goes on, or the compilation has ended.
LEMMA StaysOnPath ==
  /\ \A pass \in {"typegen", "binding", "irgen"} : stage' = pass /\ IsAt(pass)' => PathInv'
  /\ stage' \in {"aborted", "stopped", "done"} => PathInv'
BY DEF PathInv

\* A scope's node is given a type.
LEMMA GivesType ==
  ASSUME NEW node, Writes(program, nodes, at, node, nodes'), node.slot # NoSlot,
         UNCHANGED <<program, errors>>
  PROVE  Keeping /\ HasSlot(program, nodes', at) /\ node.slot = nodes'[at].slot
<1>1. /\ Slotted(program, nodes') /\ nodes'[at] = node
      /\ \A i \in 1..Len(program) : i # at => nodes'[i].slot = nodes[i].slot
  BY WrittenNode
<1>2. QED
  BY <1>1 DEF Keeping, HasSlot

\* Reports leave the nodes as they are.
LEMMA KeepsNodes ==
  ASSUME NEW CONSTANT pass, IsAt(pass), UNCHANGED syntax, errors' = {} => errors = {}
  PROVE  Keeping /\ nodes'[at].slot = nodes[at].slot
BY DEF IsAt, OnPath, Keeping, syntax

\* Slots of types are no less than the first.
LEMMA SlotsAreSlots ==
  ASSUME IsTable(types)
  PROVE  NextSlot(types) # NoSlot
<1>1. Len(types) \in Nat
  BY TableFollowsItself
<1>2. QED
  BY <1>1 DEF NextSlot, NoSlot

\* The node a pass is at is one of the tree's.
LEMMA NodeCanBeWritten ==
  ASSUME NEW CONSTANT pass, IsAt(pass)
  PROVE  Slotted(program, nodes) /\ at \in 1..Len(program) /\ "slot" \in DOMAIN nodes[at]
BY DEF IsAt, OnPath, Slotted

\* TypeGen enters the module,
LEMMA GenModuleMoves ==
  ASSUME IsTable(types), IsAt("typegen"), GenModule
  PROVE  IsAt("typegen")'
<1> DEFINE node == [nodes[at] EXCEPT !.slot = NextSlot(types)]
<1>1. "slot" \in DOMAIN node /\ node.slot = NextSlot(types) /\ node.slot # NoSlot
  BY NodeCanBeWritten, SlotsAreSlots
<1>2. program[at].op = "module" /\ program[at].op \in Scopes /\ StageOf(program, at) = "module"
  BY DEF GenModule, Visiting, Scopes, StageOf
<1>3. /\ nodes' = [nodes EXCEPT ![at] = node] /\ UNCHANGED <<program, errors>>
      /\ Enter("module", at, NextSlot(types)) /\ at' = at + 1
  BY DEF GenModule, Continue
<1> HIDE DEF node
<1>4. Writes(program, nodes, at, node, nodes')
  BY <1>1, <1>2, <1>3, NodeCanBeWritten DEF Writes
<1>5. Keeping /\ HasSlot(program, nodes', at) /\ node.slot = nodes'[at].slot
  BY <1>1, <1>3, <1>4, GivesType
<1>6. QED
  BY <1>1, <1>2, <1>3, <1>5, GoesIn

\* a class, unless it is passed over as declared twice,
LEMMA GenClassMoves ==
  ASSUME IsTable(types), IsAt("typegen"), GenClassDecl
  PROVE  IsAt("typegen")'
<1>1. /\ program[at].op = "class" /\ program[at].op \in Scopes /\ program[at].op # "module"
      /\ StageOf(program, at) = "class"
  BY DEF GenClassDecl, Visiting, Scopes, StageOf
<1>2. CASE Redeclared
  <2>1. OnPath("typegen", program, nodes, EndOf(program, at) + 1, stages, symbols, declTypes,
               errors')
    BY <1>1, <1>2, SkipPath DEF IsAt, Redeclared
  <2>2. QED
    BY <1>2, <2>1 DEF IsAt, Redeclared, syntax, context
<1>3. CASE ~ Redeclared
  <2> DEFINE node == [nodes[at] EXCEPT !.slot = NextSlot(types)]
  <2>1. "slot" \in DOMAIN node /\ node.slot = NextSlot(types) /\ node.slot # NoSlot
    BY NodeCanBeWritten, SlotsAreSlots
  <2>2. /\ nodes' = [nodes EXCEPT ![at] = node] /\ UNCHANGED <<program, errors>>
        /\ Enter("class", at, NextSlot(types)) /\ at' = at + 1
    BY <1>3 DEF GenClassDecl, Continue
  <2> HIDE DEF node
  <2>3. Writes(program, nodes, at, node, nodes')
    BY <1>1, <2>1, <2>2, NodeCanBeWritten DEF Writes
  <2>4. Keeping /\ HasSlot(program, nodes', at) /\ node.slot = nodes'[at].slot
    BY <2>1, <2>2, <2>3, GivesType
  <2>5. QED
    BY <1>1, <2>1, <2>2, <2>4, GoesIn
<1>4. QED
  BY <1>2, <1>3

\* a function, likewise,
LEMMA GenFuncMoves ==
  ASSUME IsTable(types), IsAt("typegen"), GenFuncDecl, stage' # "aborted"
  PROVE  IsAt("typegen")'
<1>1. /\ program[at].op \in {"func", "init"} /\ program[at].op \in Scopes
      /\ program[at].op # "module" /\ program[at].op # "block"
      /\ StageOf(program, at) = "func"
  BY DEF GenFuncDecl, Scopes, StageOf
<1>2. CASE Redeclared
  <2>1. OnPath("typegen", program, nodes, EndOf(program, at) + 1, stages, symbols, declTypes,
               errors')
    BY <1>1, <1>2, SkipPath DEF IsAt, Redeclared
  <2>2. QED
    BY <1>2, <2>1 DEF IsAt, Redeclared, syntax, context
<1>3. CASE ~ Redeclared
  <2> DEFINE class == TypeAt(types, CurClassType).name
             node == IF CurStage = "class" THEN BoundNode(nodes[at], program[at], class)
                     ELSE nodes[at]
             new == [node EXCEPT !.slot = NextSlot(types)]
  <2>1. "slot" \in DOMAIN node
    BY NodeCanBeWritten DEF BoundNode
  <2>2. /\ nodes' = [nodes EXCEPT ![at] = new] /\ UNCHANGED <<program, errors>>
        /\ Enter("func", at, NextSlot(types)) /\ at' = at + 1
    BY <1>3, Zenon DEF GenFuncDecl, Continue, Abort
  <2> HIDE DEF node
  <2>3. "slot" \in DOMAIN new /\ new.slot = NextSlot(types) /\ new.slot # NoSlot
    BY <2>1, SlotsAreSlots
  <2> HIDE DEF new
  <2>4. Writes(program, nodes, at, new, nodes')
    BY <1>1, <2>2, <2>3, NodeCanBeWritten DEF Writes
  <2>5. Keeping /\ HasSlot(program, nodes', at) /\ new.slot = nodes'[at].slot
    BY <2>2, <2>3, <2>4, GivesType
  <2>6. QED
    BY <1>1, <2>2, <2>3, <2>5, GoesIn
<1>4. QED
  BY <1>2, <1>3

\* and a block, which has no type.
LEMMA GenBlockMoves ==
  ASSUME IsAt("typegen"), GenBlock
  PROVE  IsAt("typegen")'
<1>1. /\ program[at].op = "block" /\ program[at].op \in Scopes
      /\ StageOf(program, at) = "block" /\ HasSlot(program, nodes', at)
  BY DEF GenBlock, Visiting, Scopes, StageOf, HasSlot
<1>2. UNCHANGED syntax /\ UNCHANGED errors /\ Enter("block", at, NoSlot) /\ at' = at + 1
  BY DEF GenBlock, Continue
<1>3. Keeping /\ nodes'[at].slot = nodes[at].slot
  BY <1>2, KeepsNodes
<1>4. nodes[at].slot = NoSlot
  BY <1>1 DEF IsAt, OnPath, Slotted
<1>5. QED
  BY <1>1, <1>2, <1>3, <1>4, GoesIn

\* leaves them,
LEMMA GenEndMoves ==
  ASSUME IsAt("typegen"), GenEndOfBlock \/ GenEndOfClass, stage' # "aborted"
  PROVE  IsAt("typegen")'
<1>1. /\ Visiting("end") /\ program[CurScope].op # "module" /\ Leave /\ at' = at + 1
      /\ UNCHANGED syntax /\ UNCHANGED errors
  BY DEF GenEndOfBlock, GenEndOfClass, Closing, Continue, Abort
<1>2. Keeping /\ nodes'[at].slot = nodes[at].slot
  BY <1>1, KeepsNodes
<1>3. QED
  BY <1>1, <1>2, GoesOut

\* At a function's end it rewrites names inside, and goes out.
LEMMA GenEndOfFunctionMoves ==
  ASSUME IsAt("typegen"), GenEndOfFunction, stage' # "aborted"
  PROVE  IsAt("typegen")'
<1>1. /\ Visiting("end") /\ program[CurScope].op # "module" /\ Leave /\ at' = at + 1
      /\ UNCHANGED <<program, errors>>
      /\ \/ UNCHANGED nodes
         \/ nodes' = [i \in DOMAIN nodes |->
                        IF i \in Body(program, CurScope)
                          THEN [nodes[i] EXCEPT !.left = Rewritten(@), !.expr = Rewritten(@)]
                          ELSE nodes[i]]
  BY Zenon DEF GenEndOfFunction, Closing, Continue, Abort
<1>2. at \in 1..Len(program) /\ Slotted(program, nodes)
  BY DEF IsAt, OnPath
<1>3. /\ Slotted(program, nodes')
      /\ \A i \in 1..Len(program) : nodes'[i].slot = nodes[i].slot
  <2>1. CASE UNCHANGED nodes
    BY <1>2, <2>1
  <2>2. CASE ~ UNCHANGED nodes
    <3>1. nodes = [i \in 1..Len(program) |-> nodes[i]]
      BY <1>2 DEF Slotted
    <3>2. DOMAIN nodes = 1..Len(program)
      BY <3>1
    <3>3. nodes' = [i \in 1..Len(program) |->
                      IF i \in Body(program, CurScope)
                        THEN [nodes[i] EXCEPT !.left = Rewritten(@), !.expr = Rewritten(@)]
                        ELSE nodes[i]]
      BY <1>1, <2>2, <3>2
    <3>4. ASSUME NEW i \in 1..Len(program)
          PROVE  "slot" \in DOMAIN nodes'[i] /\ nodes'[i].slot = nodes[i].slot
      <4>1. "slot" \in DOMAIN nodes[i]
        BY <1>2 DEF Slotted
      <4>2. QED
        BY <3>3, <4>1
    <3>5. nodes' = [i \in 1..Len(program) |-> nodes'[i]]
      BY <3>3
    <3>6. QED
      BY <1>2, <3>4, <3>5 DEF Slotted
  <2>3. QED
    BY <2>1, <2>2
<1>4. Keeping /\ nodes'[at].slot = nodes[at].slot
  BY <1>1, <1>2, <1>3 DEF Keeping
<1>5. QED
  BY <1>1, <1>4, GoesOut

\* A function on the first numbers is a sequence.
LEMMA SequenceOfLength ==
  ASSUME NEW S, NEW n \in Nat, NEW f \in [1..n -> S]
  PROVE  f \in Seq(S) /\ Len(f) = n
<1>1. f \in Seq(S)
  BY SeqDef
<1>2. Len(f) \in Nat /\ DOMAIN f = 1..Len(f) /\ DOMAIN f = 1..n
  BY <1>1, LenProperties
<1>3. QED
  BY <1>1, <1>2

\* For whatever the two sequences hold.
LEMMA PutIn ==
  ASSUME NEW s, Typed(s), NEW n, Typed(n), NEW a \in 1..Len(s)
  PROVE  Spliced(s, a, n, (SubSeq(s, 1, a - 1) \o n) \o SubSeq(s, a, Len(s)))
<1>1. PICK R : s \in Seq(R)
  BY DEF Typed
<1>2. PICK T : n \in Seq(T)
  BY DEF Typed
<1> DEFINE S == R \union T
<1>3. s \in Seq(S) /\ n \in Seq(S)
  BY <1>1, <1>2, SeqMonotonic
<1> HIDE DEF S
<1>4. Len(s) \in Nat
  BY <1>3, LenProperties
<1>5. QED
  BY <1>3, <1>4, Splice

\* A constructor, for a class that has none, and what the passes know of it.
Added == IF Constructors = {} THEN DefaultConstructor ELSE <<>>
Made == [k \in DOMAIN Added |-> NodeOf(Added[k])]

AddsConstructor(c, added, made) ==
  /\ Len(added) \in {0, 2} /\ Len(made) = Len(added) /\ Typed(added) /\ Typed(made)
  /\ Len(added) = 2 =>
       /\ added[1].op = "init" /\ added[1].depth = program[c].depth + 1
       /\ added[2].op = "end" /\ added[2].depth = program[c].depth + 1
       /\ made = [k \in 1..2 |-> NodeOf(added[k])]
       /\ \A k \in 1..2 : added[k].params = <<>>

\* It is put in front of the class's end.
LEMMA ConstructorPutIn ==
  ASSUME IsAt("typegen"), ProcessClassConstructors
  PROVE  /\ AddsConstructor(CurScope, Added, Made)
         /\ Spliced(program, at, Added, program') /\ Spliced(nodes, at, Made, nodes')
         /\ Len(nodes) = Len(program)
<1> DEFINE c == CurScope
           added == Added
           made == Made
<1>1. /\ Visiting("end") /\ program[c].op = "class"
      /\ program' = (SubSeq(program, 1, at - 1) \o added) \o SubSeq(program, at, Len(program))
      /\ nodes' = (SubSeq(nodes, 1, at - 1) \o made) \o SubSeq(nodes, at, Len(nodes))
      /\ UNCHANGED <<stage, at, context, errors>>
  BY DEF ProcessClassConstructors, Closing, ToInsert, Added, Made
<1>2. /\ IsTree(program) /\ at \in 1..Len(program) /\ Slotted(program, nodes)
      /\ program[at].op = "end"
  BY <1>1 DEF IsAt, OnPath, Visiting
<1>3. Len(program) \in Nat /\ at \in Nat /\ DOMAIN program = 1..Len(program)
  BY <1>2, TreeIsSequence
<1>5. /\ Len(added) \in {0, 2} /\ Len(made) = Len(added) /\ Typed(added) /\ Typed(made)
      /\ Len(added) = 2 =>
           /\ added[1].op = "init" /\ added[1].depth = program[c].depth + 1
           /\ added[2].op = "end" /\ added[2].depth = program[c].depth + 1
           /\ made = [k \in 1..2 |-> NodeOf(added[k])]
           /\ \A k \in 1..2 : added[k].params = <<>>
  <2>1. CASE Constructors = {}
    <3> DEFINE S == {added[k] : k \in 1..2}
               R == {NodeOf(added[k]) : k \in 1..2}
    <3>1. added = [k \in 1..2 |-> Item(<<"init", "end">>[k], program[c].depth + 1, "",
                                       <<>>, NoName, NoExpr, NoExpr)]
      BY <2>1 DEF DefaultConstructor, Added
    <3>2. /\ added[1].op = "init" /\ added[1].depth = program[c].depth + 1
          /\ added[2].op = "end" /\ added[2].depth = program[c].depth + 1
          /\ \A k \in 1..2 : added[k].params = <<>>
      <4> DEFINE ItemOf(op) ==
                   Item(op, program[c].depth + 1, "", <<>>, NoName, NoExpr, NoExpr)
      <4>1. \A op : /\ ItemOf(op).op = op /\ ItemOf(op).depth = program[c].depth + 1
                   /\ ItemOf(op).params = <<>>
        BY DEF Item
      <4>2. \A k \in 1..2 : added[k] = ItemOf(<<"init", "end">>[k])
        BY <3>1
      <4> HIDE DEF ItemOf, added
      <4>3. added[1] = ItemOf("init") /\ added[2] = ItemOf("end")
        BY <4>2
      <4>4. QED
        BY <4>1, <4>2, <4>3
    <3>3. added \in [1..2 -> S] /\ DOMAIN added = 1..2
      BY <3>1
    <3> HIDE DEF added
    <3>4. made = [k \in 1..2 |-> NodeOf(added[k])]
      BY <3>3 DEF Made, added
    <3> HIDE DEF made, S
    <3>5. made \in [1..2 -> R]
      BY <3>4
    <3> HIDE DEF R
    <3>6. added \in Seq(S) /\ Len(added) = 2
      BY <3>3, SequenceOfLength
    <3>7. made \in Seq(R) /\ Len(made) = 2
      BY <3>5, SequenceOfLength
    <3>8. QED
      BY <3>2, <3>4, <3>6, <3>7 DEF Typed
  <2>2. CASE Constructors # {}
    <3>1. added = <<>>
      BY <2>2 DEF Added
    <3>2. made = <<>>
      <4>1. QED
        BY <3>1 DEF Made
    <3>3. Len(added) = 0 /\ Len(made) = 0 /\ added \in Seq({}) /\ made \in Seq({})
      BY <3>1, <3>2
    <3>4. QED
      BY <3>3 DEF Typed
  <2>3. QED
    BY <2>1, <2>2
<1>11. Len(nodes) = Len(program) /\ Typed(program) /\ Typed(nodes)
  <2> DEFINE S == {nodes[i] : i \in 1..Len(program)}
  <2>1. nodes = [i \in 1..Len(program) |-> nodes[i]]
    BY <1>2 DEF Slotted
  <2>2. nodes \in [1..Len(program) -> S]
    BY <2>1
  <2> HIDE DEF S
  <2>3. nodes \in Seq(S)
    BY <1>3, <2>2, SeqDef
  <2>5. Len(nodes) = Len(program)
    BY <1>3, <2>2, SequenceOfLength
  <2>6. QED
    BY <1>2, <2>3, <2>5 DEF Typed, IsTree
<1> HIDE DEF added, made, c
<1>6. Spliced(program, at, added, program')
  BY <1>1, <1>2, <1>3, <1>5, <1>11, PutIn
<1>7. Spliced(nodes, at, made, nodes')
  BY <1>1, <1>2, <1>3, <1>5, <1>11, PutIn
<1>8. QED
  BY <1>5, <1>6, <1>7, <1>11 DEF AddsConstructor, added, made, c

\* TypeGen puts a constructor into a class that has none.
LEMMA ConstructorIsPut ==
  ASSUME IsAt("typegen"), ProcessClassConstructors
  PROVE  IsAt("typegen")'
<1> DEFINE c == CurScope
           added == Added
           made == Made
<1>1. /\ Visiting("end") /\ program[c].op = "class"
      /\ UNCHANGED <<stage, at, context, errors>>
  BY DEF ProcessClassConstructors, Closing
<1>2. /\ IsTree(program) /\ at \in 1..Len(program) /\ Slotted(program, nodes)
      /\ program[at].op = "end"
  BY <1>1 DEF IsAt, OnPath, Visiting
<1>3. Len(program) \in Nat /\ at \in Nat /\ DOMAIN program = 1..Len(program)
  BY <1>2, TreeIsSequence
<1>4. Closes(program, at, c)
  <2>1. \E d : Left("typegen", program, nodes, nodes, at, stages, symbols, declTypes, errors, d)
    BY <1>2, LeavePath DEF IsAt
  <2>2. QED
    BY <2>1 DEF Left, CurScope
<1> HIDE DEF added, made, c
<1>5. /\ Len(added) \in {0, 2} /\ Len(made) = Len(added) /\ Typed(added) /\ Typed(made)
      /\ Len(added) = 2 =>
           /\ added[1].op = "init" /\ added[1].depth = program[c].depth + 1
           /\ added[2].op = "end" /\ added[2].depth = program[c].depth + 1
           /\ made = [k \in 1..2 |-> NodeOf(added[k])]
  BY ConstructorPutIn DEF AddsConstructor, added, made, c
<1>6. Spliced(program, at, added, program')
  BY ConstructorPutIn DEF added
<1>7. Spliced(nodes, at, made, nodes')
  BY ConstructorPutIn DEF made
<1>11. Len(nodes) = Len(program)
  BY ConstructorPutIn
<1>8. CASE Len(added) = 0
  <2>1. program = [i \in 1..Len(program) |-> program[i]]
    BY <1>2, <1>3 DEF IsTree
  <2>2. program' = program
    BY <1>2, <1>3, <1>6, <1>8, <2>1, SpliceNothing
  <2>3. nodes = [i \in 1..Len(nodes) |-> nodes[i]] /\ Len(made) = 0
    BY <1>2, <1>5, <1>8, <1>11 DEF Slotted
  <2>4. nodes' = nodes
    BY <1>2, <1>3, <1>7, <1>11, <2>3, SpliceNothing
  <2>5. QED
    BY <1>1, <2>2, <2>4 DEF IsAt, context
<1>9. CASE Len(added) = 2
  <2>1. Grown(program, at, c, program')
    <3>1. /\ Len(program') = Len(program) + 2
          /\ program' = [i \in 1..(Len(program) + 2) |-> program'[i]]
          /\ \A i \in 1..(at - 1) : program'[i] = program[i]
          /\ \A i \in at..Len(program) : program'[i + 2] = program[i]
      BY <1>6, <1>9 DEF Spliced
    <3>2. /\ 1 \in 1..Len(added) /\ 2 \in 1..Len(added)
          /\ (at - 1) + 1 = at /\ (at - 1) + 2 = at + 1
      BY <1>3, <1>9
    <3>3. program'[at] = added[1] /\ program'[at + 1] = added[2]
      BY <1>6, <3>2 DEF Spliced
    <3>4. QED
      BY <1>5, <1>9, <3>1, <3>3 DEF Grown
  <2>2. /\ Len(made) = 2 /\ Len(nodes) = Len(program) /\ Len(program') = Len(program) + 2
        /\ made = [k \in 1..2 |-> NodeOf(added[k])]
    BY <1>5, <1>9, <1>11, <2>1 DEF Grown
  <2>3. \A i \in 1..(at - 1) : nodes'[i] = nodes[i]
    BY <1>7 DEF Spliced
  <2>4. Slotted(program', nodes')
    <3>1. nodes' = [i \in 1..Len(program') |-> nodes'[i]]
      BY <1>7, <2>2 DEF Spliced
    <3>2. ASSUME NEW i \in 1..Len(program')
          PROVE  /\ "slot" \in DOMAIN nodes'[i]
                 /\ program'[i].op = "block" => nodes'[i].slot = NoSlot
      <4>1. CASE i < at
        <5>1. i \in 1..(at - 1) /\ i \in 1..Len(program)
          BY <1>2, <1>3, <4>1
        <5>2. nodes'[i] = nodes[i] /\ program'[i] = program[i]
          BY <2>1, <2>3, <5>1 DEF Grown
        <5>3. QED
          BY <1>2, <5>1, <5>2 DEF Slotted
      <4>2. CASE i = at \/ i = at + 1
        <5>1. PICK k \in 1..2 : i = (at - 1) + k
          BY <1>3, <4>2
        <5>2. made[k] = NodeOf(added[k]) /\ k \in 1..Len(made)
          BY <2>2
        <5>3. nodes'[i] = made[k]
          BY <1>7, <5>1, <5>2 DEF Spliced
        <5>4. "slot" \in DOMAIN made[k] /\ made[k].slot = NoSlot
          BY <5>2 DEF NodeOf
        <5>5. QED
          BY <5>3, <5>4
      <4>3. CASE i >= at + 2
        <5>1. i - 2 \in at..Len(program) /\ (i - 2) + 2 = i /\ i - 2 \in 1..Len(program)
          BY <1>2, <1>3, <2>2, <4>3
        <5>2. program'[i] = program[i - 2]
          BY <2>1, <5>1 DEF Grown
        <5>3. nodes'[i] = nodes[i - 2]
          BY <1>7, <2>2, <5>1 DEF Spliced
        <5>4. QED
          BY <1>2, <5>1, <5>2, <5>3 DEF Slotted
      <4>4. i < at \/ i = at \/ i = at + 1 \/ i >= at + 2
        BY <1>3, <2>2
      <4>5. QED
        BY <4>1, <4>2, <4>3, <4>4
    <3>3. QED
      BY <3>1, <3>2 DEF Slotted
  <2>5. OnPath("typegen", program', nodes', at, stages, symbols, declTypes, errors)
    BY <1>4, <2>1, <2>3, <2>4, GrownPath DEF IsAt
  <2>6. QED
    BY <1>1, <2>5 DEF IsAt, context
<1>10. QED
  BY <1>5, <1>8, <1>9

\* TypeGen is on its path.
LEMMA GenerateIsOnPath ==
  ASSUME IsTable(types), PathInv, Generate
  PROVE  PathInv'
<1>1. stage = "typegen" /\ IsAt("typegen")
  BY DEF Generate, PathInv
<1>2. stage' \in {"aborted", "stopped", "done"} => PathInv'
  BY StaysOnPath
<1>3. stage' = "typegen" /\ IsAt("typegen")' => PathInv'
  BY StaysOnPath
<1>4. stage' = "binding" /\ IsAt("binding")' => PathInv'
  BY StaysOnPath
<1>5. ASSUME UNCHANGED <<syntax, context, stage>>, at' = at + 1, errors' = {} => errors = {},
             program[at].op \in {"var", "assign", "call", "return"}
      PROVE  PathInv'
  <2>1. program[at].op \notin Scopes /\ program[at].op # "end"
    BY <1>5 DEF Scopes
  <2>2. Keeping
    BY <1>1, <1>5, KeepsNodes
  <2>3. IsAt("typegen")'
    BY <1>1, <1>5, <2>1, <2>2, GoesOn
  <2>4. QED
    BY <1>1, <1>3, <1>5, <2>3
<1>6. CASE GenParameter
  <2>1. stage' = "aborted" \/ UNCHANGED <<syntax, stage, at, context, errors>>
    BY <1>6 DEF GenParameter, Abort
  <2>2. CASE UNCHANGED <<syntax, stage, at, context, errors>>
    BY <1>1, <1>3, <2>2 DEF IsAt, syntax, context
  <2>3. QED
    BY <1>2, <2>1, <2>2
<1>7. CASE GenStatement
  BY <1>5, <1>7 DEF GenStatement, Continue
<1>8. CASE GenVarDecl
  <2>1. \/ stage' = "aborted"
        \/ /\ UNCHANGED <<syntax, context, stage>> /\ at' = at + 1
           /\ errors' = {} => errors = {}
    BY <1>8 DEF GenVarDecl, Abort, Continue
  <2>2. program[at].op = "var"
    BY <1>8 DEF GenVarDecl, Visiting
  <2>3. QED
    BY <1>2, <1>5, <2>1, <2>2
<1>9. CASE GenModule
  BY <1>1, <1>3, <1>9, GenModuleMoves DEF GenModule, Continue
<1>10. CASE GenClassDecl
  BY <1>1, <1>3, <1>10, GenClassMoves DEF GenClassDecl, Continue, Redeclared
<1>11. CASE GenFuncDecl
  <2>1. stage' = "aborted" \/ stage' = stage
    BY <1>11 DEF GenFuncDecl, Continue, Redeclared, Abort
  <2>2. QED
    BY <1>1, <1>2, <1>3, <1>11, <2>1, GenFuncMoves
<1>12. CASE GenBlock
  BY <1>1, <1>3, <1>12, GenBlockMoves DEF GenBlock, Continue
<1>13. CASE GenEndOfBlock \/ GenEndOfClass
  <2>1. stage' = "aborted" \/ stage' = stage
    BY <1>13 DEF GenEndOfBlock, GenEndOfClass, Continue, Abort
  <2>2. QED
    BY <1>1, <1>2, <1>3, <1>13, <2>1, GenEndMoves
<1>14. CASE GenEndOfFunction
  <2>1. stage' = "aborted" \/ stage' = stage
    BY <1>14 DEF GenEndOfFunction, Continue, Abort
  <2>2. QED
    BY <1>1, <1>2, <1>3, <1>14, <2>1, GenEndOfFunctionMoves
<1>15. CASE ProcessClassConstructors
  BY <1>1, <1>3, <1>15, ConstructorIsPut DEF ProcessClassConstructors
<1>16. CASE GenEndOfModule
  <2>1. /\ Visiting("end") /\ Leave /\ program[CurScope].op = "module"
        /\ UNCHANGED <<syntax, errors>> /\ at' = 1
        /\ stage' = IF errors = {} THEN "binding" ELSE "stopped"
    BY <1>16 DEF GenEndOfModule, Closing, EndStage
  <2>2. errors = {} => IsAt("binding")'
    BY <1>1, <2>1, GoesBack
  <2>3. QED
    BY <1>2, <1>4, <2>1, <2>2
<1>17. QED
  BY <1>6, <1>7, <1>8, <1>9, <1>10, <1>11, <1>12, <1>13, <1>14, <1>15, <1>16
     DEF Generate, GenDeclaration

\* So is TypeBinding.
LEMMA BindTypesIsOnPath ==
  ASSUME PathInv, BindTypes
  PROVE  PathInv'
<1>1. stage = "binding" /\ IsAt("binding")
  BY DEF BindTypes, PathInv
<1>2. stage' \in {"aborted", "stopped", "done"} => PathInv'
  BY StaysOnPath
<1>3. stage' = "binding" /\ IsAt("binding")' => PathInv'
  BY StaysOnPath
<1>4. stage' = "irgen" /\ IsAt("irgen")' => PathInv'
  BY StaysOnPath
<1>5. \A i \in 1..Len(program) : HasSlot(program, nodes, i)
  BY <1>1 DEF IsAt, OnPath, Given
<1>6. at \in 1..Len(program)
  BY <1>1 DEF IsAt, OnPath
<1>7. ASSUME program[at].op \in Scopes, program[at].op # "block", UNCHANGED <<syntax, stage>>,
             Enter(StageOf(program, at), at, nodes[at].slot), at' = at + 1,
             errors' = {} => errors = {}
      PROVE  PathInv'
  <2>1. Keeping /\ nodes'[at].slot = nodes[at].slot
    BY <1>1, <1>7, KeepsNodes
  <2>2. HasSlot(program, nodes', at)
    BY <1>5, <1>6, <1>7 DEF syntax
  <2>3. IsAt("binding")'
    BY <1>1, <1>7, <2>1, <2>2, GoesIn
  <2>4. QED
    BY <1>1, <1>3, <1>7, <2>3
<1>8. CASE BindModule
  <2>1. program[at].op = "module" /\ StageOf(program, at) = "module"
    BY <1>8 DEF BindModule, Visiting, StageOf
  <2>2. QED
    BY <1>7, <1>8, <2>1 DEF BindModule, Continue, Scopes
<1>9. CASE BindClassDecl
  <2>1. program[at].op = "class" /\ StageOf(program, at) = "class"
    BY <1>9 DEF BindClassDecl, Visiting, StageOf
  <2>2. QED
    BY <1>7, <1>9, <2>1 DEF BindClassDecl, Continue, Scopes
<1>10. CASE BindFuncDecl
  <2>1. /\ program[at].op \in {"func", "init"} /\ program[at].op # "block"
        /\ program[at].op \in Scopes /\ StageOf(program, at) = "func"
    BY <1>10 DEF BindFuncDecl, StageOf, Scopes
  <2>2. \/ stage' = "aborted"
        \/ /\ UNCHANGED <<syntax, stage>> /\ Enter("func", at, nodes[at].slot) /\ at' = at + 1
           /\ errors' = {} => errors = {}
    BY <1>10 DEF BindFuncDecl, Continue, Abort
  <2>3. QED
    BY <1>2, <1>7, <2>1, <2>2
<1>11. CASE BindBlock
  <2>1. /\ program[at].op = "block" /\ UNCHANGED <<syntax, stage, errors>> /\ at' = at + 1
        /\ stages' = stages \o <<"block", "block">> /\ symbols' = symbols \o <<at, at>>
        /\ declTypes' = declTypes
    BY <1>11 DEF BindBlock, Visiting, Continue
  <2>2. OnPath("binding", program, nodes, at + 1, stages \o <<"block", "block">>,
               symbols \o <<at, at>>, declTypes, errors)
    BY <1>1, <2>1, EnterTwice DEF IsAt
  <2>3. IsAt("binding")'
    BY <2>1, <2>2 DEF IsAt, syntax
  <2>4. QED
    BY <1>1, <1>3, <2>1, <2>3
<1>12. ASSUME NEW node, nodes' = nodes \/ Writes(program, nodes, at, node, nodes'),
              UNCHANGED <<program, context, stage>>, at' = at + 1, errors' = {} => errors = {},
              program[at].op \in {"var", "assign", "call", "return"}
       PROVE  PathInv'
  <2>1. program[at].op \notin Scopes /\ program[at].op # "end"
    BY <1>12 DEF Scopes
  <2>2. Keeping
    <3>1. CASE nodes' = nodes
      BY <1>1, <1>12, <3>1, KeepsNodes DEF syntax
    <3>2. CASE Writes(program, nodes, at, node, nodes')
      <4>1. /\ Slotted(program, nodes')
            /\ \A i \in 1..Len(program) : i # at => nodes'[i].slot = nodes[i].slot
        BY <3>2, WrittenNode
      <4>2. QED
        BY <1>12, <4>1 DEF Keeping
    <3>3. QED
      BY <1>12, <3>1, <3>2
  <2>3. IsAt("binding")'
    BY <1>1, <1>12, <2>1, <2>2, GoesOn
  <2>4. QED
    BY <1>1, <1>3, <1>12, <2>3
<1>13. CASE BindVarDecl
  <2>1. program[at].op = "var"
    BY <1>13 DEF BindVarDecl, Visiting
  <2>2. \/ stage' = "aborted"
        \/ /\ UNCHANGED <<program, context, stage>> /\ at' = at + 1
           /\ errors' = {} => errors = {}
           /\ \/ nodes' = nodes
              \/ \E init, slot : nodes' = [nodes EXCEPT ![at].expr = init, ![at].slot = slot]
    BY <1>13, ZenonT(30) DEF BindVarDecl, BindVariable, Abort, Continue, syntax
  <2>3. ASSUME NEW init, NEW slot, nodes' = [nodes EXCEPT ![at].expr = init, ![at].slot = slot]
        PROVE  \E node : Writes(program, nodes, at, node, nodes')
    <3> DEFINE node == [nodes[at] EXCEPT !.expr = init, !.slot = slot]
    <3>1. "slot" \in DOMAIN node /\ nodes' = [nodes EXCEPT ![at] = node]
      BY <1>1, <2>3, NodeCanBeWritten DEF Slotted
    <3> HIDE DEF node
    <3>2. Writes(program, nodes, at, node, nodes')
      BY <1>1, <2>1, <3>1, NodeCanBeWritten DEF Writes
    <3>3. QED
      BY <3>2
  <2>4. QED
    BY <1>2, <1>12, <2>1, <2>2, <2>3
<1>14. CASE BindStatement
  <2>1. program[at].op \in {"assign", "call", "return"}
    BY <1>14 DEF BindStatement
  <2>2. \/ stage' = "aborted"
        \/ /\ UNCHANGED <<program, context, stage>> /\ at' = at + 1
           /\ errors' = {} => errors = {}
           /\ \E left, right : nodes' = [nodes EXCEPT ![at].left = left, ![at].expr = right]
    BY <1>14 DEF BindStatement, BindExpressions, Abort, Continue
  <2>3. ASSUME NEW left, NEW right,
               nodes' = [nodes EXCEPT ![at].left = left, ![at].expr = right]
        PROVE  \E node : Writes(program, nodes, at, node, nodes')
    <3> DEFINE node == [nodes[at] EXCEPT !.left = left, !.expr = right]
    <3>1. "slot" \in DOMAIN node /\ nodes' = [nodes EXCEPT ![at] = node]
      BY <1>1, <2>3, NodeCanBeWritten DEF Slotted
    <3> HIDE DEF node
    <3>2. Writes(program, nodes, at, node, nodes')
      BY <1>1, <2>1, <3>1, NodeCanBeWritten DEF Writes
    <3>3. QED
      BY <3>2
  <2>4. QED
    BY <1>2, <1>12, <2>1, <2>2, <2>3
<1>15. CASE BindEnd
  <2>1. /\ Visiting("end") /\ UNCHANGED <<syntax, errors>>
        /\ IF program[CurScope].op = "block" THEN LeaveBlock ELSE Leave
        /\ IF program[CurScope].op = "module" THEN EndStage("irgen") ELSE Continue
    BY <1>15 DEF BindEnd
  <2>2. CASE program[CurScope].op = "module"
    <3>1. Leave /\ at' = 1 /\ stage' = IF errors = {} THEN "irgen" ELSE "stopped"
      BY <2>1, <2>2 DEF EndStage
    <3>2. errors = {} => IsAt("irgen")'
      BY <1>1, <2>1, <2>2, <3>1, GoesBack
    <3>3. QED
      BY <1>2, <1>4, <3>1, <3>2
  <2>3. CASE program[CurScope].op # "module"
    <3>1. at' = at + 1 /\ stage' = stage
      BY <2>1, <2>3 DEF Continue
    <3>2. Keeping /\ nodes'[at].slot = nodes[at].slot
      BY <1>1, <2>1, KeepsNodes
    <3>3. IsAt("binding")'
      BY <1>1, <2>1, <2>3, <3>1, <3>2, GoesOut
    <3>4. QED
      BY <1>1, <1>3, <3>1, <3>3
  <2>4. QED
    BY <2>2, <2>3
<1>16. QED
  BY <1>8, <1>9, <1>10, <1>11, <1>13, <1>14, <1>15 DEF BindTypes

\* And so is IRGen.
LEMMA EmitCodeIsOnPath ==
  ASSUME PathInv, EmitCode
  PROVE  PathInv'
<1>1. stage = "irgen" /\ IsAt("irgen")
  BY DEF EmitCode, PathInv
<1>2. stage' \in {"aborted", "stopped", "done"} => PathInv'
  BY StaysOnPath
<1>3. stage' = "irgen" /\ IsAt("irgen")' => PathInv'
  BY StaysOnPath
<1>4. \A i \in 1..Len(program) : HasSlot(program, nodes, i)
  BY <1>1 DEF IsAt, OnPath, Given
<1>5. at \in 1..Len(program) /\ Slotted(program, nodes)
  BY <1>1 DEF IsAt, OnPath
<1>6. ASSUME program[at].op \in Scopes, UNCHANGED <<syntax, stage, errors>>, at' = at + 1,
             Enter(StageOf(program, at), at, nodes[at].slot)
      PROVE  PathInv'
  <2>1. Keeping /\ nodes'[at].slot = nodes[at].slot
    BY <1>1, <1>6, KeepsNodes
  <2>2. HasSlot(program, nodes', at)
    BY <1>4, <1>5, <1>6 DEF syntax
  <2>3. IsAt("irgen")'
    BY <1>1, <1>6, <2>1, <2>2, GoesIn
  <2>4. QED
    BY <1>1, <1>3, <1>6, <2>3
<1>7. CASE EmitModule
  <2>1. program[at].op = "module" /\ StageOf(program, at) = "module"
    BY <1>7 DEF EmitModule, Visiting, StageOf
  <2>2. QED
    BY <1>6, <1>7, <2>1 DEF EmitModule, Continue, Scopes
<1>8. CASE EmitClassDecl
  <2>1. program[at].op = "class" /\ StageOf(program, at) = "class"
    BY <1>8 DEF EmitClassDecl, Visiting, StageOf
  <2>2. QED
    BY <1>6, <1>8, <2>1 DEF EmitClassDecl, Continue, Scopes
<1>9. CASE EmitFuncDecl
  <2>1. /\ program[at].op \in {"func", "init"} /\ program[at].op \in Scopes
        /\ StageOf(program, at) = "func"
    BY <1>9 DEF EmitFuncDecl, StageOf, Scopes
  <2>2. UNCHANGED <<syntax, stage, errors>> /\ at' = at + 1 /\ Enter("func", at, nodes[at].slot)
    BY <1>9 DEF EmitFuncDecl, Continue
  <2>3. QED
    BY <1>6, <2>1, <2>2
<1>10. CASE EmitBlock
  <2>1. program[at].op = "block" /\ StageOf(program, at) = "block" /\ program[at].op \in Scopes
    BY <1>10 DEF EmitBlock, Visiting, StageOf, Scopes
  <2>2. nodes[at].slot = NoSlot
    BY <1>5, <2>1 DEF Slotted
  <2>3. QED
    BY <1>6, <1>10, <2>1, <2>2 DEF EmitBlock, Continue
<1>11. ASSUME program[at].op \in {"var", "assign", "call", "return"}, NEW emitted,
              EmitItem(emitted)
       PROVE  PathInv'
  <2>1. program[at].op \notin Scopes /\ program[at].op # "end"
    BY <1>11 DEF Scopes
  <2>2. \/ stage' = "aborted"
        \/ /\ UNCHANGED <<syntax, context, stage>> /\ at' = at + 1
           /\ \E reported : errors' = errors \union reported
    BY <1>11 DEF EmitItem, Abort, Continue
  <2>3. CASE /\ UNCHANGED <<syntax, context, stage>> /\ at' = at + 1
             /\ \E reported : errors' = errors \union reported
    <3>1. Keeping
      BY <1>1, <2>3, KeepsNodes
    <3>2. IsAt("irgen")'
      BY <1>1, <2>1, <2>3, <3>1, GoesOn
    <3>3. QED
      BY <1>1, <1>3, <2>3, <3>2
  <2>4. QED
    BY <1>2, <2>2, <2>3
<1>12. CASE EmitVarDecl
  BY <1>11, <1>12 DEF EmitVarDecl, Visiting
<1>13. CASE EmitAssign
  BY <1>11, <1>13 DEF EmitAssign, Visiting
<1>14. CASE EmitFuncCall
  BY <1>11, <1>14 DEF EmitFuncCall, Visiting
<1>15. CASE EmitReturn
  <2>1. \E emitted : EmitItem(emitted)
    BY <1>15 DEF EmitReturn
  <2>2. Visiting("return")
    BY <1>15 DEF EmitReturn
  <2>3. QED
    BY <1>11, <2>1, <2>2 DEF Visiting
<1>16. CASE EmitEnd
  <2>1. \/ stage' = "aborted"
        \/ /\ Visiting("end") /\ Leave /\ UNCHANGED <<syntax, errors>>
           /\ IF program[CurScope].op = "module" THEN EndStage("done") ELSE Continue
    BY <1>16 DEF EmitEnd, Abort
  <2>2. CASE stage' = "aborted"
    BY <1>2, <2>2
  <2>3. CASE stage' # "aborted" /\ program[CurScope].op = "module"
    BY <1>2, <2>1, <2>3 DEF EndStage
  <2>4. CASE stage' # "aborted" /\ program[CurScope].op # "module"
    <3>1. Visiting("end") /\ Leave /\ UNCHANGED <<syntax, errors>> /\ at' = at + 1 /\ stage' = stage
      BY <2>1, <2>4 DEF Continue
    <3>2. Keeping /\ nodes'[at].slot = nodes[at].slot
      BY <1>1, <3>1, KeepsNodes
    <3>3. IsAt("irgen")'
      BY <1>1, <2>4, <3>1, <3>2, GoesOut
    <3>4. QED
      BY <1>1, <1>3, <3>1, <3>3
  <2>5. QED
    BY <2>2, <2>3, <2>4
<1>17. QED
  BY <1>7, <1>8, <1>9, <1>10, <1>12, <1>13, <1>14, <1>15, <1>16 DEF EmitCode

\* Before the first pass the stacks are empty.
LEMMA InitIsOnPath == Init => PathInv
<1> SUFFICES ASSUME Init PROVE PathInv
  OBVIOUS
<1>1. /\ stage = "parsed" /\ nodes = [i \in DOMAIN program |-> NodeOf(program[i])]
      /\ stages = <<>> /\ symbols = Outermost /\ declTypes = <<>>
      /\ program = <<>> \/ IsTree(program)
  BY ProgramsAreTrees DEF Init, Outermost
<1>2. ASSUME IsTree(program)
      PROVE  Slotted(program, nodes)
  <2>1. DOMAIN program = 1..Len(program)
    BY <1>2, TreeIsSequence
  <2>2. /\ nodes = [i \in 1..Len(program) |-> nodes[i]]
        /\ \A i \in 1..Len(program) : nodes[i] = NodeOf(program[i])
    BY <1>1, <2>1
  <2>3. QED
    BY <2>2 DEF Slotted, NodeOf
<1>3. QED
  BY <1>1, <1>2 DEF PathInv

\* Behind the parser the first pass begins, or there is nothing to compile.
LEMMA ParsedIsOnPath ==
  ASSUME PathInv, Parsed
  PROVE  PathInv'
<1>1. stage' \in {"aborted", "stopped", "done"} => PathInv'
  BY StaysOnPath
<1>2. stage' = "typegen" /\ IsAt("typegen")' => PathInv'
  BY StaysOnPath
<1>3. /\ stage = "parsed"
      /\ program = <<>> \/ (IsTree(program) /\ Slotted(program, nodes))
      /\ stages = <<>> /\ symbols = Outermost /\ declTypes = <<>>
  BY DEF Parsed, PathInv
<1>4. \/ stage' \in {"aborted", "stopped"}
      \/ /\ program # <<>> /\ stage' = "typegen" /\ at' = 1
         /\ UNCHANGED <<syntax, context, errors>>
  BY DEF Parsed, Abort, EndStage
<1>5. ASSUME program # <<>>, stage' = "typegen", at' = 1, UNCHANGED <<syntax, context, errors>>
      PROVE  IsAt("typegen")'
  <2>1. OnPath("typegen", program, nodes, 1, <<>>, Outermost, <<>>, errors)
    BY <1>3, <1>5, FirstPass
  <2>2. QED
    BY <1>3, <1>5, <2>1 DEF IsAt, syntax, context
<1>6. QED
  BY <1>1, <1>2, <1>4, <1>5

\* Whichever step is taken stays on the path.
LEMMA StepIsOnPath == IsTable(types) /\ PathInv /\ [Next]_vars => PathInv'
<1> SUFFICES ASSUME IsTable(types), PathInv, [Next]_vars PROVE PathInv'
  OBVIOUS
<1>1. CASE UNCHANGED vars
  BY <1>1 DEF PathInv, IsAt, vars, syntax, context
<1>2. QED
  BY <1>1, ParsedIsOnPath, GenerateIsOnPath, BindTypesIsOnPath, EmitCodeIsOnPath DEF Next

\* The path is what the property says of the stacks.
LEMMA PathIsTheContext == PathInv => ContextIsThePathToTheNode
<1> SUFFICES ASSUME PathInv, stage \in {"typegen", "binding", "irgen"}
             PROVE  LET visits == Pushed(program, at, VisitsOf(stage, program))
                        slots == Pushed(program, at, SlotsOf(program, nodes))
                    IN /\ symbols = <<GlobalTable>> \o visits
                       /\ declTypes = slots
                       /\ stages = [k \in DOMAIN visits |->
                                      IF program[visits[k]].op = "init" THEN "func"
                                      ELSE program[visits[k]].op]
  BY DEF ContextIsThePathToTheNode, VisitsOf, SlotsOf
<1>1. Context(stage, program, nodes, at, stages, symbols, declTypes)
  BY DEF PathInv, IsAt, OnPath
<1>2. QED
  BY <1>1 DEF Context, StagesOf, StageOf, Outermost

(* The context's stacks are the scopes around the node a pass is at, in every
   program that is a tree: a scope's type is there before it is popped, or was not
   there when it would have been pushed either, and the constructor TypeGen puts
   behind a class's members is a scope of its own inside it.  *)
THEOREM ThmContextIsThePath == Spec => []ContextIsThePathToTheNode
<1>1. Init => IsTable(types) /\ PathInv
  BY BootTypesAreATable, InitIsOnPath DEF Init
<1>2. IsTable(types) /\ [Next]_vars => IsTable(types)'
  BY TableStays
<1>3. IsTable(types) /\ PathInv /\ [Next]_vars => PathInv'
  BY StepIsOnPath
<1>4. PathInv => ContextIsThePathToTheNode
  BY PathIsTheContext
<1>5. QED
  BY <1>1, <1>2, <1>3, <1>4, PTL DEF Spec

-----------------------------------------------------------------------------
(* The names of symbols and types. *)

\* What slots of a table are.
InTable(t, slot) == slot \in 0..(Len(t) - 1)

\* The fields of a type the table's types are tied by.
Complete(type) == {"kind", "name", "link", "result", "cinit"} \subseteq DOMAIN type

IsOptional(type) == type.kind = "Optional"
IsInitialiser(type) == type.name[1] = "cinit"

\* Type k's link leads back to it, and one of the two is the optional.
LinksBack(t, k) ==
  t[k].link # NoSlot =>
    /\ InTable(t, t[k].link) /\ TypeAt(t, t[k].link).link = k - 1
    /\ IsOptional(t[k]) <=> ~ IsOptional(TypeAt(t, t[k].link))

InitialiserReturns(t, k) ==
  t[k].cinit # NoSlot =>
    /\ InTable(t, t[k].cinit) /\ TypeAt(t, t[k].cinit).result = k - 1
    /\ IsInitialiser(TypeAt(t, t[k].cinit))

Tied(t) ==
  \A k \in 1..Len(t) :
    /\ Complete(t[k])
    /\ LinksBack(t, k)
    /\ IsOptional(t[k]) => t[k].link # NoSlot
    /\ InitialiserReturns(t, k)

-----------------------------------------------------------------------------
NamesType(t, name, symbol) ==
  /\ {"flag", "type"} \subseteq DOMAIN symbol
  /\ symbol.flag \in {"func", "constructor", "klass"} =>
       /\ InTable(t, symbol.type)
       /\ TypeAt(t, symbol.type).name = name
       /\ TypeAt(t, symbol.type).kind = "Func" <=> symbol.flag # "klass"

SlotIsThere(t, symbol) == symbol.type = NoSlot \/ InTable(t, symbol.type)

NameTypes(t, table) == \A n \in DOMAIN table : NamesType(t, n, table[n])
HaveSlots(t, table) == \A n \in DOMAIN table : SlotIsThere(t, table[n])

-----------------------------------------------------------------------------
IsFunction(item) == item.op \in {"func", "init"}

\* A function's type is one whose name is that of a call.
FunctionsAreCalls(p, nd, t) ==
  \A i \in 1..Len(p) :
    /\ {"slot", "params"} \subseteq DOMAIN nd[i]
    /\ IsFunction(p[i]) /\ nd[i].slot # NoSlot =>
         InTable(t, nd[i].slot) /\ TypeAt(t, nd[i].slot).name[1] = "call"

IsListed(nd, i) == nd[i].slot \in Int /\ \E S : nd[i].params \in Seq(S)

-----------------------------------------------------------------------------
\* Node i is a statement or a member of scope s.
Within(p, s, i) ==
  /\ s \in 1..(i - 1) /\ p[s].op \in Scopes /\ p[i].depth = p[s].depth + 1
  /\ \A j \in (s + 1)..i : p[j].depth > p[s].depth

IsIn(table, n, flags) == n \in DOMAIN table /\ table[n].flag \in flags

VariableIsIn(p, tb, i) ==
  p[i].op = "var" =>
    \A s \in 1..(i - 1) : Within(p, s, i) =>
      s \in DOMAIN tb /\ IsIn(tb[s], Plain(p[i].name), {"var", "field"})

ParametersAreIn(p, nd, tb, f) ==
  IsFunction(p[f]) =>
    /\ f \in DOMAIN tb
    /\ \A k \in DOMAIN nd[f].params : IsIn(tb[f], nd[f].params[k][1], {"var"})

\* The parameters are a function's first symbols.
FirstAreIn(p, nd, tb, f) ==
  IsFunction(p[f]) =>
    /\ f \in DOMAIN tb /\ IsFiniteSet(DOMAIN tb[f])
    /\ \A k \in DOMAIN nd[f].params :
         k <= Cardinality(DOMAIN tb[f]) => IsIn(tb[f], nd[f].params[k][1], {"var"})

\* Of a function that has just been entered, parameters may be missing.
DeclaredTo(p, nd, tb, a) ==
  \A i \in 1..(a - 1) :
    /\ VariableIsIn(p, tb, i)
    /\ IF i = a - 1 THEN FirstAreIn(p, nd, tb, i) ELSE ParametersAreIn(p, nd, tb, i)

AllDeclared(p, nd, tb, n) ==
  \A i \in 1..n : VariableIsIn(p, tb, i) /\ ParametersAreIn(p, nd, tb, i)

-----------------------------------------------------------------------------
Sound(t, tb) == Tied(t) /\ \A s \in DOMAIN tb : NameTypes(t, tb[s])

\* While TypeGen declares, no symbol has a type that is not there yet.
Early(t, tb) == /\ GlobalTable \in DOMAIN tb /\ InTable(t, UnspecifiedSlot)
                /\ \A s \in DOMAIN tb : HaveSlots(t, tb[s])

AllListed(p, nd) == \A i \in 1..Len(p) : IsListed(nd, i)

OnStack(sym, tb) == \A k \in 1..Len(sym) : sym[k] \in DOMAIN tb

SymbolsInv ==
  /\ Sound(types, tables)
  /\ stage \in {"parsed", "typegen", "binding"} => FunctionsAreCalls(program, nodes, types)
  /\ stage \in {"parsed", "typegen"} => Early(types, tables) /\ AllListed(program, nodes)
  /\ stage = "typegen" => /\ OnStack(symbols, tables)
                          /\ errors = {} => DeclaredTo(program, nodes, tables, at)
  /\ stage = "binding" => AllDeclared(program, nodes, tables, Len(program))

-----------------------------------------------------------------------------
(* Tied types stay tied. *)

\* A slot of a table is a place in it.
LEMMA SlotIsPlace ==
  ASSUME NEW t, IsTable(t), NEW slot, InTable(t, slot)
  PROVE  /\ slot \in Int /\ slot # NoSlot /\ slot + 1 \in 1..Len(t)
         /\ TypeAt(t, slot) = t[slot + 1]
<1>1. Len(t) \in Nat
  BY TableFollowsItself
<1>2. QED
  BY <1>1 DEF InTable, NoSlot, TypeAt

\* What of a type its ties are made of.
SameTies(type, other) ==
  /\ Complete(other) /\ other.link = type.link /\ other.cinit = type.cinit
  /\ other.kind = type.kind /\ other.name = type.name
  /\ IsInitialiser(type) => other.result = type.result

\* A table with the same ties, and one type more that has none.
Extends(t, u, n) ==
  /\ Len(t) \in Nat /\ Len(u) = n /\ n \in {Len(t), Len(t) + 1}
  /\ \A k \in 1..Len(t) : SameTies(t[k], u[k])
  /\ n = Len(t) + 1 => /\ Complete(u[n]) /\ u[n].link = NoSlot /\ u[n].cinit = NoSlot
                       /\ ~ IsOptional(u[n])

\* Such a table is tied like the one before.
LEMMA ExtendedIsTied ==
  ASSUME NEW t, Tied(t), NEW u, NEW n, Extends(t, u, n)
  PROVE  Tied(u)
<1>1. /\ Len(t) \in Nat /\ Len(u) = n /\ Len(t) <= n
      /\ \A k \in 1..Len(t) : SameTies(t[k], u[k])
  BY DEF Extends
<1>2. ASSUME NEW slot, InTable(t, slot)
      PROVE  InTable(u, slot) /\ SameTies(TypeAt(t, slot), TypeAt(u, slot))
  BY <1>1, <1>2 DEF InTable, TypeAt
<1>3. ASSUME NEW k \in 1..Len(u), k \in 1..Len(t)
      PROVE  /\ Complete(u[k]) /\ LinksBack(u, k) /\ InitialiserReturns(u, k)
             /\ IsOptional(u[k]) => u[k].link # NoSlot
  <2>1. /\ LinksBack(t, k) /\ InitialiserReturns(t, k)
        /\ IsOptional(t[k]) => t[k].link # NoSlot
    BY <1>3 DEF Tied
  <2>2. SameTies(t[k], u[k])
    BY <1>1, <1>3
  <2>3. LinksBack(u, k)
    BY <1>2, <2>1, <2>2 DEF LinksBack, SameTies, IsOptional
  <2>4. InitialiserReturns(u, k)
    BY <1>2, <2>1, <2>2 DEF InitialiserReturns, SameTies, IsInitialiser
  <2>5. QED
    BY <2>1, <2>2, <2>3, <2>4 DEF SameTies, IsOptional
<1>4. ASSUME NEW k \in 1..Len(u), k \notin 1..Len(t)
      PROVE  /\ Complete(u[k]) /\ LinksBack(u, k) /\ InitialiserReturns(u, k)
             /\ IsOptional(u[k]) => u[k].link # NoSlot
  <2>1. k = n /\ n = Len(t) + 1
    BY <1>1, <1>4 DEF Extends
  <2>2. QED
    BY <2>1 DEF Extends, LinksBack, InitialiserReturns
<1>5. QED
  BY <1>3, <1>4 DEF Tied

\* A type's ties are its own.
LEMMA TiesAreSame ==
  ASSUME NEW type, Complete(type)
  PROVE  SameTies(type, type)
BY DEF SameTies

\* Whatever else a type holds, it may change.
LEMMA ChangedIsTied ==
  ASSUME NEW t, IsTable(t), Tied(t), NEW i, NEW type, i \in 1..Len(t) => SameTies(t[i], type)
  PROVE  Tied([t EXCEPT ![i] = type])
<1> DEFINE u == [t EXCEPT ![i] = type]
<1>1. PICK S : t \in Seq(S)
  BY DEF IsTable
<1>2. Len(t) \in Nat /\ t \in [1..Len(t) -> S]
  BY <1>1, LenProperties
<1>3. \A k \in 1..Len(t) : SameTies(t[k], t[k])
  BY TiesAreSame DEF Tied
<1>4. CASE i \notin 1..Len(t)
  <2>1. u = t
    BY <1>2, <1>4
  <2>2. QED
    BY <2>1
<1>5. CASE i \in 1..Len(t)
  <2>1. u \in [1..Len(t) -> S \union {type}]
    BY <1>2, <1>5
  <2>2. Len(u) = Len(t)
    BY <1>2, <2>1, SequenceOfLength
  <2>3. \A k \in 1..Len(t) : u[k] = IF k = i THEN type ELSE t[k]
    BY <1>2
  <2>4. \A k \in 1..Len(t) : SameTies(t[k], u[k])
    BY <1>3, <1>5, <2>3
  <2> HIDE DEF u
  <2>5. Extends(t, u, Len(t))
    <3>1. Len(t) \in Nat
      BY TableFollowsItself
    <3>2. Len(t) # Len(t) + 1
      BY <3>1
    <3>3. QED
      BY <2>2, <2>4, <3>1, <3>2 DEF Extends
  <2>6. Tied(u)
    BY <2>5, ExtendedIsTied
  <2>7. QED
    BY <2>6 DEF u
<1>6. QED
  BY <1>4, <1>5

\* A type that is declared without a tie leaves the others theirs.
Loose(type) ==
  Complete(type) /\ type.link = NoSlot /\ type.cinit = NoSlot /\ ~ IsOptional(type)

\* What a declaration makes of a table.
LEMMA DeclaredTable ==
  ASSUME NEW t, IsTable(t), NEW type
  PROVE  /\ Len(t) \in Nat /\ Len(Declare(t, type)) = Len(t) + 1
         /\ \A k \in 1..Len(t) : Declare(t, type)[k] = t[k]
         /\ Declare(t, type)[Len(t) + 1] = type
<1>1. PICK S : t \in Seq(S)
  BY DEF IsTable
<1>2. t \in Seq(S \union {type}) /\ Len(t) \in Nat
  BY <1>1, SeqMonotonic, LenProperties
<1>3. QED
  BY <1>2, AppendProperties DEF Declare

\* So a type without ties is declared.
LEMMA DeclaredIsTied ==
  ASSUME NEW t, IsTable(t), Tied(t), NEW type, Loose(type)
  PROVE  Tied(Declare(t, type))
<1>1. \A k \in 1..Len(t) : SameTies(t[k], t[k])
  BY TiesAreSame DEF Tied
<1>2. Extends(t, Declare(t, type), Len(t) + 1)
  BY <1>1, DeclaredTable DEF Extends, Loose
<1>3. QED
  BY <1>2, ExtendedIsTied

\* An optional and what it wraps get to know each other: neither had a link before.
LEMMA OptionalIsTied ==
  ASSUME NEW t, IsTable(t), Tied(t), NEW name, NEW wrapped, InTable(t, wrapped),
         TypeAt(t, wrapped).link = NoSlot
  PROVE  Tied(DeclareOptional(t, name, wrapped))
<1> DEFINE w == wrapped + 1
           n == Len(t) + 1
           inner == [t[w] EXCEPT !.link = NextSlot(t)]
           u == [t EXCEPT ![w] = inner]
           optional == [Type("Optional", name) EXCEPT !.link = wrapped]
           v == Declare(u, optional)
<1>1. /\ Len(t) \in Nat /\ w \in 1..Len(t) /\ wrapped \in Int /\ wrapped # NoSlot
      /\ t[w].link = NoSlot /\ wrapped = w - 1
  BY TableFollowsItself, SlotIsPlace
<1>2. /\ Complete(t[w]) /\ ~ IsOptional(t[w])
  BY <1>1 DEF Tied
<1>3. /\ Complete(inner) /\ inner.link = n - 1 /\ inner.cinit = t[w].cinit
      /\ inner.kind = t[w].kind /\ inner.name = t[w].name /\ inner.result = t[w].result
  BY <1>1, <1>2 DEF Complete, NextSlot
<1>4. /\ Complete(optional) /\ optional.link = w - 1 /\ optional.cinit = NoSlot
      /\ IsOptional(optional)
  BY <1>1 DEF Complete, Type, IsOptional
<1>5. Follows(u, t) /\ Len(u) = Len(t) /\ \A k \in 1..Len(t) : u[k] = IF k = w THEN inner ELSE t[k]
  <2>1. PICK S : t \in Seq(S)
    BY DEF IsTable
  <2>2. t \in [1..Len(t) -> S]
    BY <2>1, LenProperties
  <2>3. u \in [1..Len(t) -> S \union {inner}]
    BY <1>1, <2>2
  <2>4. Len(u) = Len(t)
    BY <1>1, <2>3, SequenceOfLength
  <2>5. Named(inner)
    BY <1>3 DEF Complete, Named
  <2>6. Follows(u, t)
    BY <1>3, <2>5, ChangedFollows
  <2>7. QED
    BY <2>2, <2>4, <2>6
<1>6. /\ Len(v) = n /\ v[n] = optional
      /\ \A k \in 1..Len(t) : v[k] = IF k = w THEN inner ELSE t[k]
  <2>1. IsTable(u)
    BY <1>5 DEF Follows
  <2> HIDE DEF u, inner
  <2>2. /\ Len(v) = Len(u) + 1 /\ v[Len(u) + 1] = optional
        /\ \A k \in 1..Len(u) : v[k] = u[k]
    BY <2>1, DeclaredTable
  <2> HIDE DEF v
  <2>3. QED
    BY <1>5, <2>2
<1>7. v = DeclareOptional(t, name, wrapped)
  BY DEF DeclareOptional
<1> HIDE DEF w, n, inner, u, optional, v
<1>8. n \in Nat /\ n = Len(t) + 1 /\ w \in Int /\ NoSlot \in Int
  BY <1>1 DEF n, NoSlot
<1>9. ASSUME NEW slot, InTable(t, slot)
      PROVE  /\ InTable(v, slot) /\ slot \in Int
             /\ slot # w - 1 => TypeAt(v, slot) = TypeAt(t, slot)
             /\ slot = w - 1 => TypeAt(v, slot) = inner /\ TypeAt(t, slot) = t[w]
  BY <1>1, <1>6, <1>8, <1>9 DEF InTable, TypeAt
<1>10. ASSUME NEW k \in 1..Len(t)
       PROVE  /\ Complete(v[k]) /\ LinksBack(v, k) /\ InitialiserReturns(v, k)
              /\ IsOptional(v[k]) => v[k].link # NoSlot
  <2>1. /\ Complete(t[k]) /\ LinksBack(t, k) /\ InitialiserReturns(t, k)
        /\ IsOptional(t[k]) => t[k].link # NoSlot
    BY DEF Tied
  <2>2. CASE k = w
    <3>1. v[k] = inner
      BY <1>6, <2>2
    <3>2. InTable(v, n - 1) /\ TypeAt(v, n - 1) = optional
      BY <1>1, <1>6, <1>8 DEF InTable, TypeAt
    <3>3. LinksBack(v, k)
      BY <1>2, <1>3, <1>4, <2>2, <3>1, <3>2 DEF LinksBack, IsOptional
    <3>4. InitialiserReturns(v, k)
      BY <1>3, <1>9, <2>1, <2>2, <3>1 DEF InitialiserReturns, IsInitialiser
    <3>5. QED
      BY <1>2, <1>3, <3>1, <3>3, <3>4 DEF IsOptional
  <2>3. CASE k # w
    <3>1. v[k] = t[k]
      BY <1>6, <2>3
    <3>2. t[k].link # NoSlot => t[k].link # w - 1
      <4> SUFFICES ASSUME t[k].link # NoSlot, t[k].link = w - 1 PROVE FALSE
        OBVIOUS
      <4>1. TypeAt(t, w - 1).link = k - 1
        BY <2>1 DEF LinksBack
      <4>2. TypeAt(t, w - 1) = t[w]
        BY <1>8 DEF TypeAt
      <4>3. k - 1 = NoSlot
        BY <1>1, <4>1, <4>2
      <4>4. QED
        BY <4>3 DEF NoSlot
    <3>3. LinksBack(v, k)
      BY <1>9, <2>1, <3>1, <3>2 DEF LinksBack
    <3>4. InitialiserReturns(v, k)
      BY <1>3, <1>9, <2>1, <3>1 DEF InitialiserReturns, IsInitialiser
    <3>5. QED
      BY <2>1, <3>1, <3>3, <3>4
  <2>4. QED
    BY <2>2, <2>3
<1>11. /\ Complete(v[n]) /\ LinksBack(v, n) /\ InitialiserReturns(v, n)
       /\ IsOptional(v[n]) => v[n].link # NoSlot
  <2>1. InTable(v, w - 1) /\ TypeAt(v, w - 1) = inner
    BY <1>1, <1>6, <1>8 DEF InTable, TypeAt
  <2>2. w - 1 # NoSlot
    BY <1>1
  <2>3. LinksBack(v, n)
    BY <1>2, <1>3, <1>4, <1>6, <2>1 DEF LinksBack, IsOptional
  <2>4. QED
    BY <1>4, <1>6, <2>2, <2>3 DEF InitialiserReturns
<1>12. QED
  <2>1. \A k \in 1..Len(v) : k \in 1..Len(t) \/ k = n
    BY <1>1, <1>6, <1>8
  <2>2. Tied(v)
    BY <1>10, <1>11, <2>1 DEF Tied
  <2>3. QED
    BY <1>7, <2>2

\* A class's initialiser, declared with its class, returns it.
LEMMA InitialiserIsTied ==
  ASSUME NEW t, IsTable(t), Tied(t), NEW class \in Int, NEW cinit, Loose(cinit),
         IsInitialiser(cinit), cinit.result = class
  PROVE  Tied(Declare([t EXCEPT ![class + 1].cinit = NextSlot(t)], cinit))
<1> DEFINE c == class + 1
           n == Len(t) + 1
           owner == [t[c] EXCEPT !.cinit = NextSlot(t)]
           u == [t EXCEPT ![c] = owner]
           v == Declare(u, cinit)
<1>1. Len(t) \in Nat
  BY TableFollowsItself
<1>2. c \in 1..Len(t) =>
        /\ Complete(owner) /\ owner.link = t[c].link /\ owner.cinit = n - 1
        /\ owner.kind = t[c].kind /\ owner.name = t[c].name /\ owner.result = t[c].result
  BY <1>1 DEF Complete, NextSlot, Tied
<1>3. Follows(u, t) /\ Len(u) = Len(t) /\ \A k \in 1..Len(t) : u[k] = IF k = c THEN owner ELSE t[k]
  <2>1. PICK S : t \in Seq(S)
    BY DEF IsTable
  <2>2. t \in [1..Len(t) -> S]
    BY <2>1, LenProperties
  <2>3. u \in [1..Len(t) -> S \union {owner}]
    BY <1>1, <2>2
  <2>4. Len(u) = Len(t)
    BY <1>1, <2>3, SequenceOfLength
  <2>5. c \in 1..Len(t) => Named(owner)
    BY <1>2 DEF Complete, Named
  <2>6. Follows(u, t)
    BY <1>2, <2>5, ChangedFollows
  <2>7. QED
    BY <2>2, <2>4, <2>6
<1>4. /\ Len(v) = n /\ v[n] = cinit
      /\ \A k \in 1..Len(t) : v[k] = IF k = c THEN owner ELSE t[k]
  <2>1. IsTable(u)
    BY <1>3 DEF Follows
  <2> HIDE DEF u, owner
  <2>2. /\ Len(v) = Len(u) + 1 /\ v[Len(u) + 1] = cinit
        /\ \A k \in 1..Len(u) : v[k] = u[k]
    BY <2>1, DeclaredTable
  <2> HIDE DEF v
  <2>3. QED
    BY <1>3, <2>2
<1> HIDE DEF c, n, owner, u, v
<1>5. n \in Nat /\ n = Len(t) + 1 /\ c \in Int /\ class = c - 1
  BY <1>1 DEF n, c
<1>6. ASSUME NEW slot, InTable(t, slot)
      PROVE  /\ InTable(v, slot)
             /\ \/ TypeAt(v, slot) = TypeAt(t, slot)
                \/ TypeAt(v, slot) = owner /\ c \in 1..Len(t) /\ TypeAt(t, slot) = t[c]
  BY <1>1, <1>4, <1>5, <1>6 DEF InTable, TypeAt
<1>7. ASSUME NEW k \in 1..Len(t)
      PROVE  /\ Complete(v[k]) /\ LinksBack(v, k) /\ InitialiserReturns(v, k)
             /\ IsOptional(v[k]) => v[k].link # NoSlot
  <2>1. /\ Complete(t[k]) /\ LinksBack(t, k) /\ InitialiserReturns(t, k)
        /\ IsOptional(t[k]) => t[k].link # NoSlot
    BY DEF Tied
  <2>2. CASE k = c
    <3>1. v[k] = owner
      BY <1>4, <2>2
    <3>2. InTable(v, n - 1) /\ TypeAt(v, n - 1) = cinit
      BY <1>1, <1>4, <1>5 DEF InTable, TypeAt
    <3>3. LinksBack(v, k)
      BY <1>2, <1>6, <2>1, <2>2, <3>1 DEF LinksBack, IsOptional
    <3>4. InitialiserReturns(v, k)
      BY <1>2, <1>5, <2>2, <3>1, <3>2 DEF InitialiserReturns
    <3>5. QED
      BY <1>2, <2>1, <2>2, <3>1, <3>3, <3>4 DEF IsOptional
  <2>3. CASE k # c
    <3>1. v[k] = t[k]
      BY <1>4, <2>3
    <3>2. LinksBack(v, k)
      BY <1>2, <1>6, <2>1, <3>1 DEF LinksBack, IsOptional
    <3>3. InitialiserReturns(v, k)
      BY <1>2, <1>6, <2>1, <3>1 DEF InitialiserReturns, IsInitialiser
    <3>4. QED
      BY <2>1, <3>1, <3>2, <3>3
  <2>4. QED
    BY <2>2, <2>3
<1>8. /\ Complete(v[n]) /\ LinksBack(v, n) /\ InitialiserReturns(v, n)
      /\ IsOptional(v[n]) => v[n].link # NoSlot
  BY <1>4 DEF Loose, LinksBack, InitialiserReturns
<1>9. Tied(v)
  <2>1. \A k \in 1..Len(v) : k \in 1..Len(t) \/ k = n
    BY <1>1, <1>4, <1>5
  <2>2. QED
    BY <1>7, <1>8, <2>1 DEF Tied
<1>10. v = Declare([t EXCEPT ![class + 1].cinit = NextSlot(t)], cinit)
  BY DEF v, u, owner, c
<1>11. QED
  BY <1>9, <1>10

-----------------------------------------------------------------------------
(* What symbols name stays what it is. *)

\* A symbol's type is still there in a table that follows.
LEMMA FollowingSlot ==
  ASSUME NEW t, IsTable(t), NEW u, Follows(u, t), NEW slot, InTable(t, slot)
  PROVE  /\ InTable(u, slot) /\ TypeAt(u, slot).name = TypeAt(t, slot).name
         /\ TypeAt(u, slot).kind = TypeAt(t, slot).kind
<1>1. slot \in Int /\ slot + 1 \in 1..Len(t) /\ Len(t) \in Nat /\ Len(u) \in Nat
  BY SlotIsPlace, TableFollowsItself DEF Follows
<1>2. /\ Len(t) <= Len(u) /\ u[slot + 1].name = t[slot + 1].name
      /\ u[slot + 1].kind = t[slot + 1].kind
  BY <1>1 DEF Follows, Keeps
<1>3. QED
  BY <1>1, <1>2 DEF InTable, TypeAt

\* What is named in a table is named in one that follows.
LEMMA FollowingNames ==
  ASSUME NEW t, IsTable(t), NEW u, Follows(u, t)
  PROVE  /\ \A table : NameTypes(t, table) => NameTypes(u, table)
         /\ \A table : HaveSlots(t, table) => HaveSlots(u, table)
<1>1. ASSUME NEW table, NameTypes(t, table), NEW n \in DOMAIN table
      PROVE  NamesType(u, n, table[n])
  <2>1. NamesType(t, n, table[n])
    BY <1>1 DEF NameTypes
  <2>2. QED
    BY <2>1, FollowingSlot DEF NamesType
<1>2. ASSUME NEW table, HaveSlots(t, table), NEW n \in DOMAIN table
      PROVE  SlotIsThere(u, table[n])
  <2>1. SlotIsThere(t, table[n])
    BY <1>2 DEF HaveSlots
  <2>2. QED
    BY <2>1, FollowingSlot DEF SlotIsThere
<1>3. QED
  BY <1>1, <1>2 DEF NameTypes, HaveSlots

\* So are the types of functions.
LEMMA FollowingFunctions ==
  ASSUME NEW t, IsTable(t), NEW u, Follows(u, t), NEW p, NEW nd, FunctionsAreCalls(p, nd, t)
  PROVE  FunctionsAreCalls(p, nd, u)
BY FollowingSlot DEF FunctionsAreCalls

\* A new symbol joins those that are there.
LEMMA InsertedSymbol ==
  ASSUME NEW table, NEW name, NEW symbol
  PROVE  /\ DOMAIN Insert(table, name, symbol) = DOMAIN table \union {name}
         /\ Insert(table, name, symbol)[name] = [symbol EXCEPT !.loc = Cardinality(DOMAIN table)]
         /\ \A n \in DOMAIN table : n # name => Insert(table, name, symbol)[n] = table[n]
BY DEF Insert, With

\* A symbol as it is inserted.
Fits(t, name, symbol) ==
  NamesType(t, name, symbol) /\ SlotIsThere(t, symbol) /\ {"flag", "type"} \subseteq DOMAIN symbol

\* It leaves the table it is put in as sound as it was.
LEMMA InsertedFits ==
  ASSUME NEW t, NEW table, NEW name, NEW symbol, Fits(t, name, symbol)
  PROVE  /\ NameTypes(t, table) => NameTypes(t, Insert(table, name, symbol))
         /\ HaveSlots(t, table) => HaveSlots(t, Insert(table, name, symbol))
         /\ Insert(table, name, symbol)[name].flag = symbol.flag
<1> DEFINE placed == [symbol EXCEPT !.loc = Cardinality(DOMAIN table)]
           grown == Insert(table, name, symbol)
<1>1. /\ DOMAIN placed = DOMAIN symbol /\ placed.flag = symbol.flag /\ placed.type = symbol.type
  BY DEF Fits
<1>2. /\ DOMAIN grown = DOMAIN table \union {name} /\ grown[name] = placed
      /\ \A n \in DOMAIN table : n # name => grown[n] = table[n]
  BY DEF Insert, With
<1> HIDE DEF placed, grown
<1>3. NamesType(t, name, placed) /\ SlotIsThere(t, placed)
  BY <1>1 DEF Fits, NamesType, SlotIsThere
<1>4. /\ NameTypes(t, table) => NameTypes(t, grown)
      /\ HaveSlots(t, table) => HaveSlots(t, grown)
  BY <1>2, <1>3 DEF NameTypes, HaveSlots
<1>5. QED
  BY <1>1, <1>2, <1>4 DEF grown

\* The symbol of the type that is declared next.
LEMMA DeclaredFits ==
  ASSUME NEW t, IsTable(t), NEW type, NEW name, type.name = name, NEW flag,
         type.kind = "Func" <=> flag # "klass", flag \in {"func", "constructor", "klass"}
  PROVE  Fits(Declare(t, type), name, Symbol(flag, NextSlot(t)))
<1> DEFINE u == Declare(t, type)
           symbol == Symbol(flag, NextSlot(t))
<1>1. Len(t) \in Nat /\ Len(u) = Len(t) + 1 /\ u[Len(t) + 1] = type
  BY DeclaredTable
<1>2. /\ {"flag", "type"} \subseteq DOMAIN symbol /\ symbol.flag = flag /\ symbol.type = Len(t)
  BY DEF Symbol, NextSlot
<1> HIDE DEF u, symbol
<1>3. InTable(u, Len(t)) /\ TypeAt(u, Len(t)) = type
  BY <1>1 DEF InTable, TypeAt
<1>4. QED
  BY <1>2, <1>3 DEF Fits, NamesType, SlotIsThere, u, symbol

-----------------------------------------------------------------------------
(* The bootstrap. *)

\* Types put together that have no tie.
LEMMA LooseAreTied ==
  ASSUME NEW t, IsTable(t), Tied(t), NEW u, IsTable(u), \A k \in 1..Len(u) : Loose(u[k])
  PROVE  Tied(t \o u)
<1>1. Len(t) \in Nat /\ Len(u) \in Nat
  BY TableFollowsItself
<1>2. /\ Len(t \o u) = Len(t) + Len(u)
      /\ \A k \in 1..Len(t) : (t \o u)[k] = t[k]
      /\ \A k \in (Len(t) + 1)..(Len(t) + Len(u)) : (t \o u)[k] = u[k - Len(t)]
  <2>1. PICK S : t \in Seq(S)
    BY DEF IsTable
  <2>2. PICK R : u \in Seq(R)
    BY DEF IsTable
  <2>3. t \in Seq(S \union R) /\ u \in Seq(S \union R)
    BY <2>1, <2>2, SeqMonotonic
  <2>4. QED
    BY <2>3, ConcatProperties
<1> DEFINE v == t \o u
<1> HIDE DEF v
<1>3. /\ Len(v) = Len(t) + Len(u)
      /\ \A k \in 1..Len(t) : v[k] = t[k]
      /\ \A k \in (Len(t) + 1)..(Len(t) + Len(u)) : v[k] = u[k - Len(t)]
  BY <1>2 DEF v
<1>4. \A slot : InTable(t, slot) => InTable(v, slot) /\ TypeAt(v, slot) = TypeAt(t, slot)
  BY <1>1, <1>3 DEF InTable, TypeAt
<1>5. ASSUME NEW k \in 1..Len(v)
      PROVE  /\ Complete(v[k]) /\ LinksBack(v, k) /\ InitialiserReturns(v, k)
             /\ IsOptional(v[k]) => v[k].link # NoSlot
  <2>1. CASE k \in 1..Len(t)
    <3>1. /\ Complete(t[k]) /\ LinksBack(t, k) /\ InitialiserReturns(t, k)
          /\ IsOptional(t[k]) => t[k].link # NoSlot
      BY <2>1 DEF Tied
    <3>2. v[k] = t[k]
      BY <1>3, <2>1
    <3>3. QED
      BY <1>4, <3>1, <3>2 DEF LinksBack, InitialiserReturns
  <2>2. CASE k \notin 1..Len(t)
    <3>1. k \in (Len(t) + 1)..(Len(t) + Len(u)) /\ k - Len(t) \in 1..Len(u)
      BY <1>1, <1>3, <2>2
    <3>2. Loose(v[k])
      BY <1>3, <3>1
    <3>3. QED
      BY <3>2 DEF Loose, LinksBack, InitialiserReturns
  <2>3. QED
    BY <2>1, <2>2
<1>6. Tied(v)
  BY <1>5 DEF Tied
<1>7. QED
  BY <1>6 DEF v

\* The types the passes and the bootstrap declare, but optionals.
LEMMA TypesAreLoose ==
  /\ \A kind, name : kind # "Optional" => Loose(Type(kind, name))
  /\ \A k, param, result : Loose(GlobalFunction(k, param, result))
  /\ \A k, funcType, result : Loose(MemberFunction(k, funcType, result))
  /\ \A item, name, node : Loose(FunctionType(item, name, node))
<1> USE DEF Loose, Complete, IsOptional
<1>1. ASSUME NEW kind, NEW name, kind # "Optional"
      PROVE  Loose(Type(kind, name))
  BY <1>1 DEF Type
<1>2. ASSUME NEW k, NEW param, NEW result
      PROVE  Loose(GlobalFunction(k, param, result))
  BY DEF GlobalFunction, Type
<1>3. ASSUME NEW k, NEW funcType, NEW result
      PROVE  Loose(MemberFunction(k, funcType, result))
  BY DEF MemberFunction, Type
<1>4. ASSUME NEW item, NEW name, NEW node
      PROVE  Loose(FunctionType(item, name, node))
  BY DEF FunctionType, Type
<1>5. QED
  BY <1>1, <1>2, <1>3, <1>4

\* The length of a table with an optional, and what it keeps.
LEMMA OptionalTable ==
  ASSUME NEW t, IsTable(t), NEW name, NEW wrapped, InTable(t, wrapped)
  PROVE  /\ Len(DeclareOptional(t, name, wrapped)) = Len(t) + 1
         /\ \A k \in 1..Len(t) : k # wrapped + 1 => DeclareOptional(t, name, wrapped)[k] = t[k]
<1> DEFINE w == wrapped + 1
           inner == [t[w] EXCEPT !.link = NextSlot(t)]
           u == [t EXCEPT ![w] = inner]
           optional == [Type("Optional", name) EXCEPT !.link = wrapped]
<1>1. Len(t) \in Nat /\ w \in 1..Len(t)
  BY TableFollowsItself, SlotIsPlace
<1>2. PICK S : t \in Seq(S)
  BY DEF IsTable
<1>3. t \in [1..Len(t) -> S]
  BY <1>2, LenProperties
<1>4. u \in [1..Len(t) -> S \union {inner}] /\ \A k \in 1..Len(t) : k # w => u[k] = t[k]
  BY <1>1, <1>3
<1> HIDE DEF u
<1>5. Len(u) = Len(t) /\ u \in Seq(S \union {inner})
  BY <1>1, <1>4, SequenceOfLength
<1>6. u \in Seq(S \union {inner} \union {optional})
  BY <1>5, SeqMonotonic
<1> HIDE DEF inner, optional
<1>7. Len(Append(u, optional)) = Len(u) + 1 /\ \A k \in 1..Len(u) : Append(u, optional)[k] = u[k]
  BY <1>6, AppendProperties
<1>8. DeclareOptional(t, name, wrapped) = Append(u, optional)
  BY DEF DeclareOptional, Declare, u, inner, optional
<1>9. QED
  BY <1>4, <1>5, <1>7, <1>8

\* What is declared before the passes is tied, and there are slots for all of it.
LEMMA BootTypesAreTied == Tied(BootTypes) /\ Len(BootTypes) = 26
<1> DEFINE values == [v \in DOMAIN ValueTypes |-> Type(ValueTypes[v], Plain(ValueTypes[v]))]
           globals == <<GlobalFunction(1, AnySlot, VoidSlot),
                        GlobalFunction(2, IntSlot, AnySlot),
                        GlobalFunction(3, BoolSlot, AnySlot),
                        GlobalFunction(4, AnySlot, 10),
                        GlobalFunction(5, BuiltIn(6), IntSlot)>>
           wrapsInt == DeclareOptional(values \o globals, OptionalOf("Int"), IntSlot)
           optionals == DeclareOptional(wrapsInt, OptionalOf("Bool"), BoolSlot)
           members == <<Type("Class", Plain("Array")),
                        MemberFunction(9, "C_Func", IntSlot),
                        MemberFunction(10, "C_Func", AnySlot),
                        MemberFunction(11, "C_Func", VoidSlot),
                        Type("Class", Plain("Dict")),
                        MemberFunction(13, "C_CInit", BuiltIn(12)),
                        MemberFunction(14, "C_Func", VoidSlot),
                        MemberFunction(15, "C_Func", BuiltIn(6)),
                        Type("Class", Plain("DictEntry")),
                        Type("Class", Plain("StringBuilder")),
                        MemberFunction(18, "C_Func", BuiltIn(17)),
                        MemberFunction(19, "C_Func", StringSlot)>>
<1>1. IsTable(values) /\ Len(values) = 7 /\ \A k \in 1..7 : Loose(values[k])
  <2> DEFINE S == {values[v] : v \in 1..7}
  <2>1. DOMAIN ValueTypes = 1..7 /\ \A v \in 1..7 : ValueTypes[v] # "Optional"
    BY DEF ValueTypes
  <2>2. values \in [1..7 -> S]
    BY <2>1
  <2>3. \A x \in S : Named(x) /\ Loose(x)
    BY <2>1, TypesAreNamed, TypesAreLoose
  <2>4. values \in Seq(S) /\ Len(values) = 7
    <3> HIDE DEF values, S
    <3>1. QED
      BY <2>2, SequenceOfLength
  <2>5. QED
    BY <2>2, <2>3, <2>4 DEF IsTable
<1>2. IsTable(globals) /\ Len(globals) = 5 /\ \A k \in 1..5 : Loose(globals[k])
  <2> DEFINE S == {globals[k] : k \in 1..5}
  <2>1. globals \in Seq(S) /\ Len(globals) = 5
    OBVIOUS
  <2>2. \A x \in S : Named(x) /\ Loose(x)
    BY TypesAreNamed, TypesAreLoose
  <2>3. QED
    BY <2>1, <2>2 DEF IsTable
<1>3. IsTable(members) /\ Len(members) = 12 /\ \A k \in 1..12 : Loose(members[k])
  <2> DEFINE S == {members[k] : k \in 1..12}
  <2>1. members \in Seq(S) /\ Len(members) = 12
    OBVIOUS
  <2>2. \A x \in S : Named(x) /\ Loose(x)
    BY TypesAreNamed, TypesAreLoose
  <2>3. QED
    BY <2>1, <2>2 DEF IsTable
<1>4. BootTypes = optionals \o members
  BY DEF BootTypes
<1> DEFINE first == values \o globals
<1> HIDE DEF values, globals, members
<1>5. /\ IsTable(first) /\ Tied(first) /\ Len(first) = 12
      /\ first[IntSlot + 1].link = NoSlot /\ first[BoolSlot + 1].link = NoSlot
  <2>1. Tied(values)
    BY <1>1 DEF Tied, Loose, LinksBack, InitialiserReturns
  <2>2. IsTable(first) /\ Tied(first)
    BY <1>1, <1>2, <2>1, LooseAreTied, ConcatenatedTables
  <2>3. PICK S : values \in Seq(S)
    BY <1>1 DEF IsTable
  <2>4. PICK R : globals \in Seq(R)
    BY <1>2 DEF IsTable
  <2>5. values \in Seq(S \union R) /\ globals \in Seq(S \union R)
    BY <2>3, <2>4, SeqMonotonic
  <2>6. Len(first) = 7 + 5 /\ \A k \in 1..7 : first[k] = values[k]
    <3>1. Len(values \o globals) = Len(values) + Len(globals)
      BY <2>5, ConcatProperties
    <3>2. \A k \in 1..Len(values) : (values \o globals)[k] = values[k]
      BY <2>5, ConcatProperties
    <3>3. QED
      BY <1>1, <1>2, <3>1, <3>2
  <2>7. QED
    BY <1>1, <2>2, <2>6 DEF IntSlot, BoolSlot, Loose
<1> HIDE DEF first
<1>6. /\ IsTable(wrapsInt) /\ Tied(wrapsInt) /\ Len(wrapsInt) = 13
      /\ wrapsInt[BoolSlot + 1].link = NoSlot
  <2>1. InTable(first, IntSlot) /\ TypeAt(first, IntSlot).link = NoSlot
    BY <1>5 DEF InTable, TypeAt, IntSlot
  <2>2. wrapsInt = DeclareOptional(first, OptionalOf("Int"), IntSlot)
    BY DEF first
  <2> HIDE DEF wrapsInt
  <2>3. BoolSlot + 1 \in 1..12 /\ BoolSlot + 1 # IntSlot + 1
    BY DEF BoolSlot, IntSlot
  <2>4. IsTable(wrapsInt) /\ Tied(wrapsInt)
    BY <1>5, <2>1, <2>2, OptionalIsTied, OptionalFollows DEF Follows
  <2>5. Len(wrapsInt) = 13 /\ wrapsInt[BoolSlot + 1] = first[BoolSlot + 1]
    <3> DEFINE with == DeclareOptional(first, OptionalOf("Int"), IntSlot)
    <3>0. /\ Len(with) = Len(first) + 1
          /\ \A k \in 1..Len(first) : k # IntSlot + 1 => with[k] = first[k]
      <4>1. IsTable(first) /\ InTable(first, IntSlot)
        BY <1>5, <2>1
      <4>2. QED
        BY <4>1, OptionalTable, Zenon
    <3> HIDE DEF with
    <3>1. /\ Len(wrapsInt) = Len(first) + 1
          /\ \A k \in 1..Len(first) : k # IntSlot + 1 => wrapsInt[k] = first[k]
      BY <2>2, <3>0 DEF with
    <3>2. QED
      BY <1>5, <2>3, <3>1
  <2>6. QED
    BY <1>5, <2>4, <2>5
<1> HIDE DEF wrapsInt
<1>7. IsTable(optionals) /\ Tied(optionals) /\ Len(optionals) = 14
  <2>1. InTable(wrapsInt, BoolSlot) /\ TypeAt(wrapsInt, BoolSlot).link = NoSlot
    BY <1>6 DEF InTable, TypeAt, BoolSlot
  <2>2. IsTable(optionals) /\ Tied(optionals)
    BY <1>6, <2>1, OptionalIsTied, OptionalFollows DEF Follows
  <2>3. Len(optionals) = 14
    <3>1. Len(optionals) = Len(wrapsInt) + 1
      BY <1>6, <2>1, OptionalTable
    <3>2. QED
      BY <1>6, <3>1
  <2>4. QED
    BY <2>2, <2>3
<1> HIDE DEF optionals
<1>8. Tied(optionals \o members)
  BY <1>3, <1>7, LooseAreTied
<1>9. Len(optionals \o members) = 26
  <2>1. PICK S : optionals \in Seq(S)
    BY <1>7 DEF IsTable
  <2>2. PICK R : members \in Seq(R)
    BY <1>3 DEF IsTable
  <2>3. optionals \in Seq(S \union R) /\ members \in Seq(S \union R)
    BY <2>1, <2>2, SeqMonotonic
  <2>4. QED
    <3>1. Len(optionals \o members) = Len(optionals) + Len(members)
      BY <2>3, ConcatProperties
    <3>2. QED
      BY <1>3, <1>7, <3>1
<1>10. QED
  BY <1>4, <1>8, <1>9

\* A table of some of them names them.
LEMMA BootTableNames ==
  ASSUME NEW slots, slots \subseteq 0..(Len(BootTypes) - 1)
  PROVE  NameTypes(BootTypes, BootTable(slots)) /\ HaveSlots(BootTypes, BootTable(slots))
<1> DEFINE slotOf(name) == CHOOSE s \in slots : TypeAt(BootTypes, s).name = name
           names == {TypeAt(BootTypes, s).name : s \in slots}
           symbolOf(name) == [Symbol(FlagOf(slotOf(name)), slotOf(name)) EXCEPT
                                !.loc = Cardinality({s \in slots : s < slotOf(name)})]
<1>1. BootTable(slots) = [name \in names |-> symbolOf(name)]
  BY DEF BootTable
<1>2. ASSUME NEW name \in names
      PROVE  slotOf(name) \in slots /\ TypeAt(BootTypes, slotOf(name)).name = name
  <2>1. \E s \in slots : TypeAt(BootTypes, s).name = name
    OBVIOUS
  <2>2. QED
    BY <2>1
<1>3. \A name : /\ DOMAIN symbolOf(name) = {"flag", "type", "parent", "loc", "static"}
                /\ symbolOf(name).flag = FlagOf(slotOf(name))
                /\ symbolOf(name).type = slotOf(name)
  BY DEF Symbol
<1> HIDE DEF slotOf, names, symbolOf
<1>4. ASSUME NEW name \in names
      PROVE  NamesType(BootTypes, name, symbolOf(name)) /\ SlotIsThere(BootTypes, symbolOf(name))
  <2>1. InTable(BootTypes, slotOf(name))
    BY <1>2 DEF InTable
  <2>2. TypeAt(BootTypes, slotOf(name)).kind = "Func" <=> FlagOf(slotOf(name)) # "klass"
    BY DEF FlagOf
  <2>3. QED
    BY <1>2, <1>3, <2>1, <2>2 DEF NamesType, SlotIsThere
<1>5. QED
  BY <1>1, <1>4 DEF NameTypes, HaveSlots

\* The bootstrap's tables: the global one, and those of the built-in classes.
LEMMA BootTablesName ==
  /\ GlobalTable \in DOMAIN BootTables
  /\ \A s \in DOMAIN BootTables :
       NameTypes(BootTypes, BootTables[s]) /\ HaveSlots(BootTypes, BootTables[s])
<1> DEFINE classes == [t \in {-c : c \in DOMAIN BuiltInClasses} |->
                         BootTable(BuiltInClasses[-t])]
<1>1. DOMAIN BuiltInClasses = {14, 18, 22, 23}
  BY DEF BuiltInClasses
<1>2. \A c \in {14, 18, 22, 23} : BuiltInClasses[c] \subseteq 0..25
  <2>1. BuiltInClasses[14] = 15..17 /\ BuiltInClasses[18] = 19..21
    BY DEF BuiltInClasses
  <2>2. BuiltInClasses[22] = {} /\ BuiltInClasses[23] = 24..25
    BY DEF BuiltInClasses
  <2> DEFINE of(c) == BuiltInClasses[c]
  <2>3. of(14) \subseteq 0..25 /\ of(18) \subseteq 0..25 /\ of(22) \subseteq 0..25
        /\ of(23) \subseteq 0..25
    BY <2>1, <2>2
  <2> HIDE DEF of
  <2>4. \A c \in {14, 18, 22, 23} : of(c) \subseteq 0..25
    BY <2>3
  <2>5. QED
    BY <2>4 DEF of
<1>3. BootTables = With(classes, GlobalTable, BootTable(GlobalSlots))
  BY DEF BootTables
<1>4. /\ DOMAIN BootTables = {GlobalTable} \union DOMAIN classes
      /\ BootTables[GlobalTable] = BootTable(GlobalSlots)
      /\ \A s \in DOMAIN classes : s # GlobalTable => BootTables[s] = classes[s]
  BY <1>3 DEF With
<1>5. GlobalSlots \subseteq 0..(Len(BootTypes) - 1)
  BY DEF GlobalSlots
<1>6. ASSUME NEW s \in DOMAIN classes
      PROVE  NameTypes(BootTypes, classes[s]) /\ HaveSlots(BootTypes, classes[s])
  <2>1. PICK c \in {14, 18, 22, 23} : s = -c
    BY <1>1
  <2>2. - s = c
    BY <2>1
  <2>3. classes[s] = BootTable(BuiltInClasses[c])
    BY <2>2
  <2>4. BuiltInClasses[c] \subseteq 0..(Len(BootTypes) - 1)
    BY <1>2, BootTypesAreTied
  <2>5. QED
    BY <2>3, <2>4, BootTableNames
<1>7. QED
  BY <1>4, <1>5, <1>6, BootTableNames

-----------------------------------------------------------------------------
(* The scope a node is in. *)

\* A node is in one scope only.
LEMMA OneScope ==
  ASSUME NEW p, IsTree(p), NEW i \in 1..Len(p), NEW s, NEW r, Within(p, s, i), Within(p, r, i)
  PROVE  s = r
<1>1. /\ \A j \in 1..Len(p) : p[j].depth \in Nat
      /\ s \in 1..(i - 1) /\ r \in 1..(i - 1) /\ Len(p) \in Nat
      /\ p[i].depth = p[s].depth + 1 /\ p[i].depth = p[r].depth + 1
      /\ \A j \in (s + 1)..i : p[j].depth > p[s].depth
      /\ \A j \in (r + 1)..i : p[j].depth > p[r].depth
  BY TreeIsSequence, NodeOfTree DEF Within
<1>2. /\ p[s].depth \in Nat /\ p[r].depth \in Nat /\ p[s].depth = p[r].depth
  BY <1>1
<1>3. ~ (s < r)
  <2> SUFFICES ASSUME s < r PROVE FALSE
    OBVIOUS
  <2>1. r \in (s + 1)..i
    BY <1>1
  <2>2. QED
    BY <1>1, <1>2, <2>1
<1>4. ~ (r < s)
  <2> SUFFICES ASSUME r < s PROVE FALSE
    OBVIOUS
  <2>1. s \in (r + 1)..i
    BY <1>1
  <2>2. QED
    BY <1>1, <1>2, <2>1
<1>5. QED
  BY <1>1, <1>3, <1>4

\* A statement or a member is in a scope, the last that has pushed.
LEMMA ScopeOfNode ==
  ASSUME NEW p, IsTree(p), NEW S, NEW w, Pushes(p, w, S), NEW a \in 1..Len(p), a # 1,
         p[a].op # "end"
  PROVE  \E c : /\ Within(p, c, a) /\ PushedUpTo(p, a, c - 1, w) \in Seq(S)
                /\ Pushed(p, a, w) = PushedUpTo(p, a, c - 1, w) \o w[c]
<1> DEFINE d == p[a].depth
           T == {s \in 1..(a - 1) : p[s].depth < d}
<1>1. /\ Len(p) \in Nat /\ Len(p) > 1 /\ a \in 2..Len(p) /\ a - 1 \in Nat
      /\ \A i \in 1..Len(p) :
           /\ p[i].depth \in Nat /\ Inside(p[i]) \in Nat
           /\ Inside(p[i]) = IF p[i].op \in Scopes THEN p[i].depth + 1 ELSE p[i].depth
           /\ p[i].op = "end" => p[i].op \notin Scopes
  BY TreeIsSequence, NodeOfTree
<1>2. p[1].depth = 0 /\ d > 0
  <2>1. /\ \A i \in 1..Len(p) : p[i].depth = 0 <=> i \in {1, Len(p)}
        /\ p[Len(p)].op = "end"
    BY DEF IsTree
  <2>2. 1 \in 1..Len(p) /\ a # Len(p)
    BY <1>1, <2>1
  <2>3. QED
    BY <1>1, <2>1, <2>2
<1>3. 1 \in T /\ T \subseteq Int /\ \A s \in T : s <= a
  BY <1>1, <1>2
<1>4. PICK c \in T : \A s \in T : s <= c
  <2> HIDE DEF T
  <2>1. a \in Int /\ T # {}
    BY <1>3
  <2>2. QED
    BY <1>3, <2>1, GreatestElement
<1>5. c \in 1..(a - 1) /\ c \in 1..Len(p) /\ p[c].depth < d /\ c \in Int
  BY <1>1, <1>4
<1>6. \A j \in (c + 1)..a : p[j].depth >= d
  <2> TAKE j \in (c + 1)..a
  <2>1. CASE j = a
    BY <1>1, <2>1
  <2>2. CASE j # a
    <3>1. j \in 1..(a - 1) /\ j \in 1..Len(p) /\ j > c
      BY <1>1, <1>5, <2>2
    <3>2. j \notin T
      BY <1>4, <1>5, <3>1
    <3>3. QED
      BY <1>1, <3>1, <3>2
  <2>3. QED
    BY <2>1, <2>2
<1>7. p[c].op \in Scopes /\ d = p[c].depth + 1
  <2>1. c + 1 \in 2..Len(p) /\ c + 1 \in 1..Len(p) /\ (c + 1) - 1 = c /\ c + 1 \in (c + 1)..a
    BY <1>1, <1>5
  <2>2. p[c + 1].depth = IF p[c + 1].op = "end" THEN Inside(p[c]) - 1 ELSE Inside(p[c])
    BY <2>1 DEF IsTree
  <2>3. p[c + 1].depth >= d
    BY <1>6, <2>1
  <2>4. QED
    BY <1>1, <1>5, <2>1, <2>2, <2>3
<1>8. Within(p, c, a)
  <2>1. \A j \in (c + 1)..a : p[j].depth > p[c].depth
    BY <1>1, <1>5, <1>6, <1>7
  <2>2. QED
    BY <1>5, <1>7, <2>1 DEF Within
<1>9. OpenAt(p, a, c)
  <2>1. Encloses(p, c, EndOf(p, c))
    BY <1>5, <1>7, ScopeEnds
  <2>2. /\ EndOf(p, c) \in (c + 1)..Len(p) /\ p[EndOf(p, c)].depth = p[c].depth
    BY <2>1 DEF Encloses
  <2>3. ~ (EndOf(p, c) \in (c + 1)..a)
    BY <1>1, <1>5, <1>6, <1>7, <2>2
  <2>4. QED
    BY <1>1, <1>5, <1>7, <2>2, <2>3 DEF OpenAt
<1>10. ASSUME NEW s \in (c + 1)..(a - 1)
       PROVE  ~ OpenAt(p, a, s)
  <2> SUFFICES ASSUME p[s].op \in Scopes, a <= EndOf(p, s) PROVE FALSE
    BY DEF OpenAt
  <2>1. s \in 1..Len(p) /\ s \in (c + 1)..a /\ s < a
    BY <1>1, <1>5
  <2>2. /\ EndOf(p, s) \in (s + 1)..Len(p) /\ p[EndOf(p, s)].op = "end"
        /\ \A j \in (s + 1)..(EndOf(p, s) - 1) : p[j].depth > p[s].depth
    BY <2>1, ScopeEnds DEF Encloses
  <2>3. EndOf(p, s) # a
    BY <2>2
  <2>4. a \in (s + 1)..(EndOf(p, s) - 1)
    BY <1>1, <2>1, <2>2, <2>3
  <2>5. p[a].depth > p[s].depth /\ p[s].depth >= d
    BY <1>6, <2>1, <2>2, <2>4
  <2>6. QED
    BY <1>1, <2>1, <2>5
<1>11. /\ c - 1 \in Nat /\ (c - 1) + 1 = c /\ c \in Nat /\ c <= a - 1 /\ a - 1 <= Len(p)
  BY <1>1, <1>5
<1>12. PushedUpTo(p, a, a - 1, w) = PushedUpTo(p, a, c, w)
  BY <1>1, <1>10, <1>11, PushedTail
<1>13. /\ PushedUpTo(p, a, c - 1, w) \in Seq(S)
       /\ PushedUpTo(p, a, c, w) = PushedUpTo(p, a, c - 1, w) \o w[c]
  BY <1>5, <1>9, <1>11, PushedNext
<1>14. QED
  BY <1>8, <1>12, <1>13, PushedIsUpTo

\* What the stack of tables is, and what is on top of it.
LEMMA TopOfScopes ==
  ASSUME NEW pass, NEW p, IsTree(p), NEW v \in Seq(1..Len(p)), NEW c \in 1..Len(p)
  PROVE  Last(Outermost \o (v \o VisitsOf(pass, p)[c])) = c
<1> DEFINE u == VisitsOf(pass, p)[c]
<1>1. Len(p) \in Nat /\ DOMAIN p = 1..Len(p)
  BY TreeIsSequence
<1>2. u = <<c>> \/ u = <<c, c>>
  BY <1>1 DEF VisitsOf
<1>3. v \in Seq(Nat) /\ u \in Seq(Nat)
  <2>1. 1..Len(p) \subseteq Nat
    BY <1>1
  <2>2. v \in Seq(Nat)
    BY <2>1, SeqMonotonic
  <2>3. c \in Nat
    BY <1>1
  <2>4. <<c>> \in Seq(Nat) /\ <<c, c>> \in Seq(Nat)
    BY <2>3
  <2> HIDE DEF u
  <2>5. QED
    BY <1>2, <2>2, <2>4
<1> HIDE DEF u
<1>4. Outermost \o (v \o u) = (Outermost \o v) \o u
  BY <1>3, OutermostIsBelow
<1>5. Typed(Outermost \o v)
  <2>1. Outermost \o v \in Seq(Nat)
    BY <1>3, OutermostIsTyped, ConcatProperties
  <2>2. QED
    BY <2>1 DEF Typed
<1>6. Last((Outermost \o v) \o u) = c
  BY <1>2, <1>5, TakenBack
<1>7. QED
  BY <1>4, <1>6 DEF u

\* The current scope is the one the node is in,
LEMMA ScopeIsCurrent ==
  ASSUME NEW pass, NEW p, NEW nd, NEW a, NEW stg, NEW sym, NEW dt, NEW err,
         OnPath(pass, p, nd, a, stg, sym, dt, err), p[a].op # "end", p[a].op # "module"
  PROVE  Within(p, Last(sym), a) /\ Last(sym) \in 1..Len(p) /\ Last(sym) < a
<1> DEFINE V == VisitsOf(pass, p)
<1>1. /\ IsTree(p) /\ a \in 1..Len(p) /\ sym = Outermost \o Pushed(p, a, V)
      /\ Len(p) \in Nat
  BY TreeIsSequence DEF OnPath, Context
<1>2. a # 1
  BY <1>1 DEF IsTree
<1>3. Pushes(p, V, 1..Len(p))
  BY <1>1, VisitsArePushed
<1> HIDE DEF V
<1>4. PICK c : /\ Within(p, c, a) /\ PushedUpTo(p, a, c - 1, V) \in Seq(1..Len(p))
               /\ Pushed(p, a, V) = PushedUpTo(p, a, c - 1, V) \o V[c]
  BY <1>1, <1>2, <1>3, ScopeOfNode
<1>5. c \in 1..(a - 1) /\ c \in 1..Len(p) /\ c < a
  BY <1>1, <1>4 DEF Within
<1>6. Last(sym) = c
  BY <1>1, <1>4, <1>5, TopOfScopes DEF V
<1>7. QED
  BY <1>4, <1>5, <1>6

\* or the one before it.
LEMMA ScopeJustEntered ==
  ASSUME NEW pass, NEW p, NEW nd, NEW a, NEW stg, NEW sym, NEW dt, NEW err,
         OnPath(pass, p, nd, a, stg, sym, dt, err), a # 1, p[a - 1].op \in Scopes
  PROVE  Last(sym) = a - 1
<1> DEFINE V == VisitsOf(pass, p)
<1>1. /\ IsTree(p) /\ a \in 1..Len(p) /\ sym = Outermost \o Pushed(p, a, V)
      /\ Len(p) \in Nat /\ a - 1 \in 1..Len(p) /\ (a - 1) + 1 = a
  BY TreeIsSequence DEF OnPath, Context
<1>2. Pushes(p, V, 1..Len(p))
  BY <1>1, VisitsArePushed
<1> HIDE DEF V
<1>3. Pushed(p, (a - 1) + 1, V) = Pushed(p, a - 1, V) \o V[a - 1]
  BY <1>1, <1>2, PushedEnter
<1>4. Pushed(p, a - 1, V) \in Seq(1..Len(p))
  BY <1>1, <1>2, PushedTyped
<1>5. sym = Outermost \o (Pushed(p, a - 1, V) \o V[a - 1])
  BY <1>1, <1>3
<1>6. QED
  BY <1>1, <1>4, <1>5, TopOfScopes DEF V

\* The stack of tables is a sequence of tables' keys.
LEMMA ScopesAreNumbers ==
  ASSUME NEW pass, NEW p, NEW nd, NEW a, NEW stg, NEW sym, NEW dt, NEW err,
         OnPath(pass, p, nd, a, stg, sym, dt, err)
  PROVE  sym \in Seq(Nat) /\ Len(sym) \in Nat /\ Len(sym) >= 1
<1> DEFINE V == VisitsOf(pass, p)
<1>1. /\ IsTree(p) /\ a \in 1..Len(p) /\ sym = Outermost \o Pushed(p, a, V)
      /\ 1..Len(p) \subseteq Nat
  BY TreeIsSequence DEF OnPath, Context
<1>2. Pushes(p, V, 1..Len(p))
  BY <1>1, VisitsArePushed
<1> HIDE DEF V
<1>3. Pushed(p, a, V) \in Seq(Nat)
  BY <1>1, <1>2, PushedTyped, SeqMonotonic
<1>4. Len(Outermost) = 1 /\ Outermost \in Seq(Nat)
  BY OutermostIsTyped DEF Outermost
<1>5. sym \in Seq(Nat) /\ Len(sym) = 1 + Len(Pushed(p, a, V))
  BY <1>1, <1>3, <1>4, ConcatProperties
<1>6. Len(Pushed(p, a, V)) \in Nat
  BY <1>3, LenProperties
<1>7. QED
  BY <1>5, <1>6

\* A name that is found is in one of the tables on the stack.
LEMMA FoundInTable ==
  ASSUME NEW name, Found(name), symbols \in Seq(Nat), NEW S,
         \A k \in 1..Len(symbols) : symbols[k] \in S
  PROVE  \E s \in S : name \in DOMAIN tables[s] /\ Lookup(name) = tables[s][name]
<1> DEFINE K == {k \in DOMAIN symbols : name \in DOMAIN tables[symbols[k]]}
<1>1. Len(symbols) \in Nat /\ DOMAIN symbols = 1..Len(symbols)
  BY LenProperties
<1>2. K # {}
  BY DEF Found, FoundIn
<1>3. K \subseteq Int /\ \A k \in K : k <= Len(symbols)
  BY <1>1
<1>4. PICK m \in K : \A k \in K : k <= m
  <2> DEFINE b == Len(symbols)
  <2>1. b \in Int /\ \A k \in K : k <= b
    BY <1>1, <1>3
  <2> HIDE DEF K, b
  <2>2. QED
    BY <1>2, <1>3, <2>1, GreatestElement
<1>5. Max(K) \in K
  <2>1. \E x \in K : \A y \in K : x >= y
    BY <1>3, <1>4
  <2> HIDE DEF K
  <2>2. QED
    BY <2>1 DEF Max
<1>6. /\ symbols[Max(K)] \in S /\ name \in DOMAIN tables[symbols[Max(K)]]
  BY <1>1, <1>5
<1>7. Lookup(name) = tables[symbols[Max(K)]][name]
  BY DEF Lookup, LookupIn
<1>8. QED
  BY <1>6, <1>7

-----------------------------------------------------------------------------
(* What TypeGen adds to tables and nodes. *)

\* The slot that is declared next, in the table that has it.
LEMMA DeclaredSlot ==
  ASSUME NEW t, IsTable(t), NEW type
  PROVE  /\ NextSlot(t) \in Int /\ InTable(Declare(t, type), NextSlot(t))
         /\ TypeAt(Declare(t, type), NextSlot(t)) = type
BY DeclaredTable DEF NextSlot, InTable, TypeAt

\* Tables stay sound for the types that follow.
LEMMA SoundFollows ==
  ASSUME NEW t, IsTable(t), NEW u, Follows(u, t), Tied(u), NEW tb
  PROVE  /\ Sound(t, tb) => Sound(u, tb)
         /\ Early(t, tb) => Early(u, tb)
BY FollowingNames, FollowingSlot DEF Sound, Early

\* A new table has no symbols yet.
LEMMA SoundWithScope ==
  ASSUME NEW t, NEW tb, NEW i
  PROVE  /\ Sound(t, tb) => Sound(t, With(tb, i, EmptyTable))
         /\ Early(t, tb) => Early(t, With(tb, i, EmptyTable))
         /\ DOMAIN With(tb, i, EmptyTable) = DOMAIN tb \union {i}
         /\ With(tb, i, EmptyTable)[i] = EmptyTable
         /\ \A s \in DOMAIN tb : s # i => With(tb, i, EmptyTable)[s] = tb[s]
<1> DEFINE w == With(tb, i, EmptyTable)
<1>1. /\ DOMAIN w = DOMAIN tb \union {i} /\ w[i] = EmptyTable
      /\ \A s \in DOMAIN tb : s # i => w[s] = tb[s]
  BY DEF With
<1>2. DOMAIN EmptyTable = {}
  BY DEF EmptyTable
<1> HIDE DEF w
<1>3. NameTypes(t, EmptyTable) /\ HaveSlots(t, EmptyTable)
  BY <1>2 DEF NameTypes, HaveSlots
<1>4. Sound(t, tb) => Sound(t, w)
  BY <1>1, <1>3 DEF Sound
<1>5. Early(t, tb) => Early(t, w)
  BY <1>1, <1>3 DEF Early
<1>6. QED
  BY <1>1, <1>4, <1>5 DEF w

\* A table may be put in the place of another.
LEMMA SoundWithTable ==
  ASSUME NEW t, NEW tb, NEW s, NEW table,
         s \in DOMAIN tb => NameTypes(t, table) /\ HaveSlots(t, table)
  PROVE  /\ Sound(t, tb) => Sound(t, [tb EXCEPT ![s] = table])
         /\ Early(t, tb) => Early(t, [tb EXCEPT ![s] = table])
         /\ DOMAIN [tb EXCEPT ![s] = table] = DOMAIN tb
BY DEF Sound, Early

\* A stack of tables grows by one that is there, and shrinks.
LEMMA StackGrows ==
  ASSUME NEW sym \in Seq(Nat), NEW tb, OnStack(sym, tb), NEW i \in Nat, NEW tb2,
         DOMAIN tb \subseteq DOMAIN tb2, i \in DOMAIN tb2
  PROVE  OnStack(Append(sym, i), tb2)
<1>1. /\ Len(Append(sym, i)) = Len(sym) + 1 /\ Len(sym) \in Nat
      /\ \A k \in 1..Len(sym) : Append(sym, i)[k] = sym[k]
      /\ Append(sym, i)[Len(sym) + 1] = i
  BY AppendProperties, LenProperties
<1>2. QED
  BY <1>1 DEF OnStack

\* What is left of the stack stays in the tables.
LEMMA StackShrinks ==
  ASSUME NEW sym \in Seq(Nat), NEW tb, OnStack(sym, tb), Len(sym) >= 1
  PROVE  OnStack(Front(sym), tb)
<1> DEFINE n == Len(sym)
<1>1. n \in Nat /\ n - 1 \in Nat /\ DOMAIN sym = 1..n
  BY LenProperties
<1>2. Front(sym) = [k \in 1..(n - 1) |-> sym[k]]
  <2>1. Front(sym) = SubSeq(sym, 1, n - 1)
    BY DEF Front
  <2>2. SubSeq(sym, 1, n - 1) = [k \in 1..(n - 1) |-> sym[k]]
    BY <1>1, <2>1 DEF Front
  <2>3. QED
    BY <2>1, <2>2
<1> DEFINE f == Front(sym)
<1>3. f \in [1..(n - 1) -> Nat]
  BY <1>1, <1>2, ElementOfSeq
<1>4. Len(f) = n - 1
  <2> HIDE DEF f, n
  <2>1. QED
    BY <1>1, <1>3, SequenceOfLength
<1>5. \A k \in 1..(n - 1) : f[k] = sym[k] /\ k \in 1..n
  BY <1>1, <1>2
<1> HIDE DEF f
<1>6. OnStack(f, tb)
  BY <1>1, <1>4, <1>5 DEF OnStack
<1>7. QED
  BY <1>6 DEF f

\* What is on top of it is there.
LEMMA TopIsThere ==
  ASSUME NEW sym \in Seq(Nat), NEW tb, OnStack(sym, tb), Len(sym) >= 1
  PROVE  Last(sym) \in DOMAIN tb
<1>1. Len(sym) \in Nat
  BY LenProperties
<1>2. QED
  BY <1>1 DEF Last, OnStack

-----------------------------------------------------------------------------
\* What a node holds that is written by TypeGen.
NodeFits(item, node, t) ==
  /\ {"slot", "params"} \subseteq DOMAIN node
  /\ node.slot \in Int /\ \E S : node.params \in Seq(S)
  /\ IsFunction(item) /\ node.slot # NoSlot =>
       InTable(t, node.slot) /\ TypeAt(t, node.slot).name[1] = "call"

Replaces(nd, i, node, nd2) == nd2 = [nd EXCEPT ![i] = node]

\* The nodes fit, when the one that is written does.
LEMMA WrittenNodeFits ==
  ASSUME NEW p, NEW nd, NEW t, FunctionsAreCalls(p, nd, t), AllListed(p, nd), Slotted(p, nd),
         NEW a \in 1..Len(p), NEW node, NodeFits(p[a], node, t),
         NEW nd2, Replaces(nd, a, node, nd2)
  PROVE  /\ FunctionsAreCalls(p, nd2, t) /\ AllListed(p, nd2)
         /\ \A i \in 1..Len(p) : i # a => nd2[i] = nd[i]
<1>1. DOMAIN nd = 1..Len(p)
  BY DEF Slotted
<1>2. nd2[a] = node /\ \A i \in 1..Len(p) : i # a => nd2[i] = nd[i]
  BY <1>1 DEF Replaces
<1>3. FunctionsAreCalls(p, nd2, t)
  BY <1>2 DEF FunctionsAreCalls, NodeFits
<1>4. AllListed(p, nd2)
  BY <1>2 DEF AllListed, IsListed, NodeFits
<1>5. QED
  BY <1>2, <1>3, <1>4

\* Nodes that fit, all of them.
LEMMA NodesThatFit ==
  ASSUME NEW p, NEW nd, NEW t
  PROVE  FunctionsAreCalls(p, nd, t) /\ AllListed(p, nd)
           <=> \A i \in 1..Len(p) : NodeFits(p[i], nd[i], t)
BY DEF FunctionsAreCalls, AllListed, IsListed, NodeFits

-----------------------------------------------------------------------------
(* What is declared stays declared. *)

\* The tables of the first n nodes lose no symbol, and no symbol its flag.
KeepsFlags(n, tb, tb2) ==
  \A s \in 1..n : s \in DOMAIN tb =>
    /\ s \in DOMAIN tb2
    /\ \A x \in DOMAIN tb[s] : x \in DOMAIN tb2[s] /\ tb2[s][x].flag = tb[s][x].flag

\* A symbol with a flag stays one with that flag.
LEMMA SymbolStays ==
  ASSUME NEW n, NEW tb, NEW tb2, KeepsFlags(n, tb, tb2), NEW s \in 1..n, s \in DOMAIN tb,
         NEW x, NEW flags, IsIn(tb[s], x, flags)
  PROVE  s \in DOMAIN tb2 /\ IsIn(tb2[s], x, flags)
BY DEF KeepsFlags, IsIn

\* A variable stays in its scope's table.
LEMMA VariableStays ==
  ASSUME NEW n \in Nat, NEW tb, NEW tb2, KeepsFlags(n, tb, tb2), NEW i \in 1..(n + 1),
         NEW p, VariableIsIn(p, tb, i), NEW q, \A j \in 1..i : q[j] = p[j]
  PROVE  VariableIsIn(q, tb2, i)
<1> SUFFICES ASSUME q[i].op = "var", NEW s \in 1..(i - 1), Within(q, s, i)
             PROVE  s \in DOMAIN tb2 /\ IsIn(tb2[s], Plain(q[i].name), {"var", "field"})
  BY DEF VariableIsIn
<1>1. q[i] = p[i] /\ s \in 1..n
  OBVIOUS
<1>2. Within(p, s, i)
  <2>1. \A j \in s..i : q[j] = p[j]
    OBVIOUS
  <2>2. q[s] = p[s] /\ q[i] = p[i] /\ \A j \in (s + 1)..i : q[j] = p[j]
    BY <2>1
  <2>3. QED
    BY <2>2 DEF Within
<1>3. s \in DOMAIN tb /\ IsIn(tb[s], Plain(p[i].name), {"var", "field"})
  BY <1>1, <1>2 DEF VariableIsIn
<1>4. QED
  BY <1>1, <1>3, SymbolStays

\* Parameters stay in their function's.
LEMMA ParametersStay ==
  ASSUME NEW n, NEW tb, NEW tb2, KeepsFlags(n, tb, tb2), NEW f \in 1..n,
         NEW p, NEW nd, ParametersAreIn(p, nd, tb, f),
         NEW q, q[f].op = p[f].op, NEW nd2, nd2[f].params = nd[f].params
  PROVE  ParametersAreIn(q, nd2, tb2, f)
<1> SUFFICES ASSUME IsFunction(q[f])
             PROVE  /\ f \in DOMAIN tb2
                    /\ \A k \in DOMAIN nd[f].params : IsIn(tb2[f], nd[f].params[k][1], {"var"})
  BY DEF ParametersAreIn
<1>1. /\ f \in DOMAIN tb
      /\ \A k \in DOMAIN nd[f].params : IsIn(tb[f], nd[f].params[k][1], {"var"})
  BY DEF ParametersAreIn, IsFunction
<1>2. f \in DOMAIN tb2
  BY <1>1 DEF KeepsFlags
<1>3. QED
  BY <1>1, <1>2, SymbolStays

\* A visit declares what the node does and disturbs nothing.
LEMMA DeclarationGoesOn ==
  ASSUME NEW p, NEW nd, NEW tb, NEW a, a \in Nat \ {0}, AllDeclared(p, nd, tb, a - 1),
         NEW tb2, KeepsFlags(a - 1, tb, tb2), NEW nd2,
         \A i \in 1..(a - 1) : nd2[i].params = nd[i].params,
         VariableIsIn(p, tb2, a), FirstAreIn(p, nd2, tb2, a)
  PROVE  DeclaredTo(p, nd2, tb2, a + 1)
<1>1. a - 1 \in Nat /\ (a - 1) + 1 = a /\ (a + 1) - 1 = a
  OBVIOUS
<1>2. ASSUME NEW i \in 1..a, i # a
      PROVE  VariableIsIn(p, tb2, i) /\ ParametersAreIn(p, nd2, tb2, i)
  <2>1. i \in 1..(a - 1) /\ i \in 1..((a - 1) + 1)
    BY <1>1, <1>2
  <2>2. VariableIsIn(p, tb, i) /\ ParametersAreIn(p, nd, tb, i)
    BY <2>1 DEF AllDeclared
  <2>3. VariableIsIn(p, tb2, i)
    BY <1>1, <2>1, <2>2, VariableStays
  <2>4. ParametersAreIn(p, nd2, tb2, i)
    BY <2>1, <2>2, ParametersStay
  <2>5. QED
    BY <2>3, <2>4
<1>3. QED
  BY <1>1, <1>2 DEF DeclaredTo

\* When no parameter is left, a function's parameters are all declared.
LEMMA ParametersAreDeclared ==
  ASSUME IsAt("typegen"), AllListed(program, nodes), ~ ParametersLeft,
         DeclaredTo(program, nodes, tables, at)
  PROVE  AllDeclared(program, nodes, tables, at - 1)
<1>1. at \in 1..Len(program) /\ Len(program) \in Nat
  BY TreeIsSequence DEF IsAt, OnPath
<1>2. ASSUME NEW i \in 1..(at - 1)
      PROVE  VariableIsIn(program, tables, i) /\ ParametersAreIn(program, nodes, tables, i)
  <2>1. /\ VariableIsIn(program, tables, i)
        /\ i = at - 1 => FirstAreIn(program, nodes, tables, i)
        /\ i # at - 1 => ParametersAreIn(program, nodes, tables, i)
    BY DEF DeclaredTo
  <2>2. CASE i # at - 1 \/ ~ IsFunction(program[i])
    BY <2>1, <2>2 DEF ParametersAreIn
  <2>3. CASE i = at - 1 /\ IsFunction(program[i])
    <3>1. /\ i \in DOMAIN tables /\ IsFiniteSet(DOMAIN tables[i])
          /\ \A k \in DOMAIN nodes[i].params :
               k <= Cardinality(DOMAIN tables[i]) =>
                 IsIn(tables[i], nodes[i].params[k][1], {"var"})
      BY <2>1, <2>3 DEF FirstAreIn
    <3>2. CurScope = i
      <4>1. program[at - 1].op \in Scopes /\ at # 1
        BY <1>1, <2>3 DEF IsFunction, Scopes
      <4>2. QED
        BY <2>3, <4>1, ScopeJustEntered DEF IsAt, CurScope
    <3>3. ~ (Cardinality(DOMAIN tables[i]) < Len(nodes[i].params))
      <4>1. CurScope # GlobalTable /\ at = CurScope + 1 /\ CurTable = tables[i]
        BY <1>1, <2>3, <3>2 DEF GlobalTable, CurTable, CurScope
      <4>2. QED
        BY <3>2, <4>1 DEF ParametersLeft
    <3>4. Cardinality(DOMAIN tables[i]) \in Nat
      BY <3>1, FS_CardinalityType
    <3>5. PICK S : nodes[i].params \in Seq(S)
      BY <1>1 DEF AllListed, IsListed
    <3>6. DOMAIN nodes[i].params = 1..Len(nodes[i].params) /\ Len(nodes[i].params) \in Nat
      BY <3>5, LenProperties
    <3>7. \A k \in DOMAIN nodes[i].params : k <= Cardinality(DOMAIN tables[i])
      BY <3>3, <3>4, <3>6
    <3>8. QED
      BY <2>1, <3>1, <3>7 DEF ParametersAreIn
  <2>4. QED
    BY <2>2, <2>3
<1>3. QED
  BY <1>2 DEF AllDeclared

-----------------------------------------------------------------------------
(* TypeGen's visits. *)

Declaring == stage = "typegen" /\ IsAt("typegen") /\ IsTable(types) /\ SymbolsInv

\* What a visit of TypeGen starts from.
LEMMA WhileDeclaring ==
  ASSUME Declaring
  PROVE  /\ Sound(types, tables) /\ Early(types, tables)
         /\ FunctionsAreCalls(program, nodes, types) /\ AllListed(program, nodes)
         /\ OnStack(symbols, tables) /\ symbols \in Seq(Nat) /\ Len(symbols) \in Nat
         /\ Len(symbols) >= 1 /\ CurScope \in DOMAIN tables
         /\ IsTree(program) /\ Slotted(program, nodes) /\ at \in 1..Len(program)
         /\ Len(program) \in Nat /\ at \in Nat \ {0} /\ at - 1 \in Nat
         /\ errors = {} => DeclaredTo(program, nodes, tables, at)
<1>1. /\ Sound(types, tables) /\ Early(types, tables)
      /\ FunctionsAreCalls(program, nodes, types) /\ AllListed(program, nodes)
      /\ OnStack(symbols, tables)
      /\ errors = {} => DeclaredTo(program, nodes, tables, at)
  BY DEF Declaring, SymbolsInv
<1>2. symbols \in Seq(Nat) /\ Len(symbols) \in Nat /\ Len(symbols) >= 1
  BY ScopesAreNumbers DEF Declaring, IsAt
<1>3. CurScope \in DOMAIN tables
  BY <1>1, <1>2, TopIsThere DEF CurScope
<1>4. IsTree(program) /\ Slotted(program, nodes) /\ at \in 1..Len(program)
  BY DEF Declaring, IsAt, OnPath
<1>5. Len(program) \in Nat
  BY <1>4, TreeIsSequence
<1>6. QED
  BY <1>1, <1>2, <1>3, <1>4, <1>5

\* What it ends with, when the pass goes on,
LEMMA GoesOnDeclaring ==
  ASSUME stage' = "typegen", Sound(types', tables'), Early(types', tables'),
         FunctionsAreCalls(program', nodes', types'), AllListed(program', nodes'),
         OnStack(symbols', tables'),
         errors' = {} => DeclaredTo(program', nodes', tables', at')
  PROVE  SymbolsInv'
BY DEF SymbolsInv

\* and when the compilation ends, or code is generated.
LEMMA EndsSound ==
  ASSUME stage' \in {"aborted", "stopped", "done", "irgen"}, Sound(types', tables')
  PROVE  SymbolsInv'
BY DEF SymbolsInv

\* An abort leaves everything as it was.
LEMMA AbortIsSound ==
  ASSUME Sound(types, tables), stage' = "aborted", UNCHANGED <<types, tables>>
  PROVE  SymbolsInv'
BY EndsSound

\* The node that is visited is declared now.
LEMMA VisitedIsDeclared ==
  ASSUME Declaring, ~ ParametersLeft, errors = {}, NEW tb, KeepsFlags(at - 1, tables, tb),
         NEW nd, \A i \in 1..(at - 1) : nd[i].params = nodes[i].params,
         VariableIsIn(program, tb, at), FirstAreIn(program, nd, tb, at)
  PROVE  DeclaredTo(program, nd, tb, at + 1)
<1>1. /\ AllListed(program, nodes) /\ DeclaredTo(program, nodes, tables, at)
      /\ at \in Nat \ {0}
  BY WhileDeclaring
<1>2. AllDeclared(program, nodes, tables, at - 1)
  BY <1>1, ParametersAreDeclared DEF Declaring
<1>3. QED
  BY <1>1, <1>2, DeclarationGoesOn

\* A table that is left alone keeps its flags.
LEMMA KeepsItself ==
  \A n, tb : KeepsFlags(n, tb, tb)
BY DEF KeepsFlags

\* What declares nothing declares what it is to declare.
LEMMA DeclaresNothing ==
  ASSUME NEW p, NEW nd, NEW tb, NEW i, p[i].op # "var", ~ IsFunction(p[i])
  PROVE  VariableIsIn(p, tb, i) /\ FirstAreIn(p, nd, tb, i)
BY DEF VariableIsIn, FirstAreIn

\* Visits that leave tables and types alone, and at most rewrite expressions.
LEMMA PassesOn ==
  ASSUME Declaring, ~ ParametersLeft, UNCHANGED <<program, types, tables>>,
         nodes' = nodes \/ (\A i \in 1..Len(program) :
           nodes'[i].slot = nodes[i].slot /\ nodes'[i].params = nodes[i].params
             /\ DOMAIN nodes'[i] = DOMAIN nodes[i]),
         stage' = "typegen", at' = at + 1,
         symbols' = symbols \/ symbols' = Front(symbols),
         errors' = {} => errors = {},
         program[at].op # "var", ~ IsFunction(program[at])
  PROVE  SymbolsInv'
<1>1. /\ Sound(types, tables) /\ Early(types, tables)
      /\ FunctionsAreCalls(program, nodes, types) /\ AllListed(program, nodes)
      /\ OnStack(symbols, tables) /\ symbols \in Seq(Nat) /\ Len(symbols) >= 1
      /\ at \in 1..Len(program) /\ Len(program) \in Nat
  BY WhileDeclaring
<1>2. \A i \in 1..Len(program) :
        nodes'[i].slot = nodes[i].slot /\ nodes'[i].params = nodes[i].params
          /\ DOMAIN nodes'[i] = DOMAIN nodes[i]
  OBVIOUS
<1>3. FunctionsAreCalls(program', nodes', types')
  BY <1>1, <1>2 DEF FunctionsAreCalls
<1>4. AllListed(program', nodes')
  BY <1>1, <1>2 DEF AllListed, IsListed
<1>5. OnStack(symbols', tables')
  BY <1>1, StackShrinks
<1>6. errors' = {} => DeclaredTo(program', nodes', tables', at')
  <2> SUFFICES ASSUME errors' = {} PROVE DeclaredTo(program, nodes', tables, at + 1)
    OBVIOUS
  <2>1. \A i \in 1..(at - 1) : nodes'[i].params = nodes[i].params
    BY <1>1, <1>2
  <2>2. VariableIsIn(program, tables, at) /\ FirstAreIn(program, nodes', tables, at)
    BY DeclaresNothing
  <2>3. QED
    BY <2>1, <2>2, KeepsItself, VisitedIsDeclared
<1>7. QED
  BY <1>1, <1>3, <1>4, <1>5, <1>6, GoesOnDeclaring

\* What is declared twice is passed over, and reported.
LEMMA PassesOver ==
  ASSUME Declaring, Redeclared
  PROVE  SymbolsInv'
<1>1. /\ Sound(types, tables) /\ Early(types, tables)
      /\ FunctionsAreCalls(program, nodes, types) /\ AllListed(program, nodes)
      /\ OnStack(symbols, tables)
  BY WhileDeclaring
<1>2. UNCHANGED <<stage, program, nodes, types, tables, symbols>> /\ errors' # {}
  BY DEF Redeclared, syntax, context, service
<1>3. QED
  BY <1>1, <1>2, GoesOnDeclaring DEF Declaring

-----------------------------------------------------------------------------
\* The visit of a statement.
LEMMA GenStatementNames ==
  ASSUME Declaring, ~ ParametersLeft, GenStatement
  PROVE  SymbolsInv'
<1>1. /\ UNCHANGED <<program, types, tables, nodes, symbols>> /\ at' = at + 1 /\ stage' = stage
      /\ errors' = {} => errors = {}
  BY DEF GenStatement, Continue, syntax, context, service
<1>2. program[at].op # "var" /\ ~ IsFunction(program[at])
  BY DEF GenStatement, IsFunction
<1>3. QED
  BY <1>1, <1>2, PassesOn DEF Declaring

\* The visit of a block's end.
LEMMA GenEndOfBlockNames ==
  ASSUME Declaring, ~ ParametersLeft, GenEndOfBlock
  PROVE  SymbolsInv'
<1>1. /\ UNCHANGED <<program, types, tables, nodes, errors>> /\ at' = at + 1 /\ stage' = stage
      /\ symbols' = Front(symbols)
  BY DEF GenEndOfBlock, Continue, Leave, syntax, service
<1>2. program[at].op # "var" /\ ~ IsFunction(program[at])
  BY DEF GenEndOfBlock, Closing, Visiting, IsFunction
<1>3. QED
  BY <1>1, <1>2, PassesOn DEF Declaring

\* The visit of a function's end; the expressions of a method are rewritten.
LEMMA GenEndOfFunctionNames ==
  ASSUME Declaring, ~ ParametersLeft, GenEndOfFunction
  PROVE  SymbolsInv'
<1>1. /\ Sound(types, tables) /\ FunctionsAreCalls(program, nodes, types)
      /\ Slotted(program, nodes)
  BY WhileDeclaring
<1>2. \/ stage' = "aborted" /\ UNCHANGED <<types, tables>>
      \/ /\ UNCHANGED <<program, types, tables, errors>> /\ at' = at + 1 /\ stage' = stage
         /\ symbols' = Front(symbols)
         /\ \/ UNCHANGED nodes
            \/ nodes' = [i \in DOMAIN nodes |->
                           IF i \in Body(program, CurScope)
                             THEN [nodes[i] EXCEPT !.left = Rewritten(@), !.expr = Rewritten(@)]
                             ELSE nodes[i]]
  BY ZenonT(30) DEF GenEndOfFunction, Continue, Leave, Abort, service
<1>3. program[at].op # "var" /\ ~ IsFunction(program[at])
  BY DEF GenEndOfFunction, Closing, Visiting, IsFunction
<1>4. ASSUME nodes' = [i \in DOMAIN nodes |->
                         IF i \in Body(program, CurScope)
                           THEN [nodes[i] EXCEPT !.left = Rewritten(@), !.expr = Rewritten(@)]
                           ELSE nodes[i]],
             NEW i \in 1..Len(program)
      PROVE  /\ nodes'[i].slot = nodes[i].slot /\ nodes'[i].params = nodes[i].params
             /\ DOMAIN nodes'[i] = DOMAIN nodes[i]
  <2>1. DOMAIN nodes = 1..Len(program)
    BY <1>1 DEF Slotted
  <2>2. {"slot", "params"} \subseteq DOMAIN nodes[i]
    BY <1>1 DEF FunctionsAreCalls
  <2>3. \/ nodes'[i] = nodes[i]
        \/ nodes'[i] = [nodes[i] EXCEPT !.left = Rewritten(@), !.expr = Rewritten(@)]
    BY <1>4, <2>1
  <2>4. QED
    BY <2>2, <2>3
<1>5. CASE stage' = "aborted" /\ UNCHANGED <<types, tables>>
  BY <1>1, <1>5, AbortIsSound
<1>6. CASE ~ (stage' = "aborted" /\ UNCHANGED <<types, tables>>)
  BY <1>2, <1>3, <1>4, <1>6, PassesOn DEF Declaring
<1>7. QED
  BY <1>5, <1>6

\* At the module's end everything is declared.
LEMMA GenEndOfModuleNames ==
  ASSUME Declaring, ~ ParametersLeft, GenEndOfModule
  PROVE  SymbolsInv'
<1>1. /\ Sound(types, tables) /\ Early(types, tables)
      /\ FunctionsAreCalls(program, nodes, types) /\ AllListed(program, nodes)
      /\ IsTree(program) /\ at \in 1..Len(program) /\ Len(program) \in Nat
      /\ errors = {} => DeclaredTo(program, nodes, tables, at)
      /\ Slotted(program, nodes)
  BY WhileDeclaring
<1>2. /\ program[at].op = "end" /\ program[CurScope].op = "module"
      /\ UNCHANGED <<program, nodes, types, tables, errors>>
      /\ stage' = IF errors = {} THEN "binding" ELSE "stopped"
  BY DEF GenEndOfModule, Closing, Visiting, EndStage, syntax, service
<1>3. CASE errors # {}
  BY <1>1, <1>2, <1>3, EndsSound
<1>4. CASE errors = {}
  <2>1. Closes(program, at, CurScope)
    <3>1. \E d : Left("typegen", program, nodes, nodes, at, stages, symbols, declTypes, errors, d)
      BY <1>1, <1>2, LeavePath DEF Declaring, IsAt
    <3>2. QED
      BY <3>1 DEF Left, CurScope
  <2>2. at = Len(program)
    <3>1. CurScope = 1 /\ program[at].depth = program[CurScope].depth
      <4>1. CurScope \in 1..(at - 1) /\ CurScope \in 1..Len(program)
            /\ program[CurScope].op \in Scopes /\ EndOf(program, CurScope) = at
        BY <1>1, <2>1 DEF Closes
      <4>2. Encloses(program, CurScope, EndOf(program, CurScope))
        BY <1>1, <4>1, ScopeEnds
      <4>3. QED
        BY <1>1, <1>2, <4>1, <4>2 DEF Encloses, IsTree
    <3>2. program[1].depth = 0 /\ at # 1
      BY <1>1, <1>2 DEF IsTree
    <3>3. QED
      BY <1>1, <3>1, <3>2 DEF IsTree
  <2>3. AllDeclared(program, nodes, tables, at - 1)
    BY <1>1, <1>4, ParametersAreDeclared DEF Declaring
  <2>4. VariableIsIn(program, tables, at) /\ ParametersAreIn(program, nodes, tables, at)
    BY <1>2 DEF VariableIsIn, ParametersAreIn, IsFunction
  <2>5. AllDeclared(program, nodes, tables, Len(program))
    BY <1>1, <2>2, <2>3, <2>4 DEF AllDeclared
  <2>6. QED
    BY <1>1, <1>2, <1>4, <2>5 DEF SymbolsInv
<1>5. QED
  BY <1>3, <1>4

-----------------------------------------------------------------------------
\* A symbol is inserted into one of the tables.
Inserted(tb, s, name, symbol) == [tb EXCEPT ![s] = Insert(tb[s], name, symbol)]

\* The tables stay sound and have one symbol more.
LEMMA InsertedTables ==
  ASSUME NEW t, NEW tb, NEW s \in DOMAIN tb, NEW name, NEW symbol, Fits(t, name, symbol),
         Sound(t, tb), Early(t, tb)
  PROVE  /\ Sound(t, Inserted(tb, s, name, symbol)) /\ Early(t, Inserted(tb, s, name, symbol))
         /\ DOMAIN Inserted(tb, s, name, symbol) = DOMAIN tb
         /\ Inserted(tb, s, name, symbol)[s] = Insert(tb[s], name, symbol)
         /\ \A r \in DOMAIN tb : r # s => Inserted(tb, s, name, symbol)[r] = tb[r]
<1>1. NameTypes(t, tb[s]) /\ HaveSlots(t, tb[s])
  BY DEF Sound, Early
<1>2. NameTypes(t, Insert(tb[s], name, symbol)) /\ HaveSlots(t, Insert(tb[s], name, symbol))
  BY <1>1, InsertedFits
<1>3. /\ Sound(t, Inserted(tb, s, name, symbol)) /\ Early(t, Inserted(tb, s, name, symbol))
  BY <1>2, SoundWithTable DEF Inserted
<1>4. QED
  BY <1>3 DEF Inserted

\* A new name takes no other away.
LEMMA InsertedKeeps ==
  ASSUME NEW tb, NEW s \in DOMAIN tb, NEW name, name \notin DOMAIN tb[s], NEW symbol, NEW n
  PROVE  KeepsFlags(n, tb, Inserted(tb, s, name, symbol))
<1> DEFINE tb2 == Inserted(tb, s, name, symbol)
           table == Insert(tb[s], name, symbol)
<1>2. DOMAIN table = DOMAIN tb[s] \union {name} /\ \A x \in DOMAIN tb[s] : table[x] = tb[s][x]
  <2>1. /\ DOMAIN table = DOMAIN tb[s] \union {name}
        /\ \A x \in DOMAIN tb[s] : x # name => table[x] = tb[s][x]
    BY DEF Insert, With
  <2> HIDE DEF table
  <2>2. QED
    BY <2>1
<1>1. /\ DOMAIN tb2 = DOMAIN tb /\ tb2[s] = table
      /\ \A r \in DOMAIN tb : r # s => tb2[r] = tb[r]
  BY DEF Inserted
<1> HIDE DEF tb2, table
<1>3. KeepsFlags(n, tb, tb2)
  BY <1>1, <1>2 DEF KeepsFlags
<1>4. QED
  BY <1>3 DEF tb2

\* Flags are kept from one change to the next.
LEMMA KeepsBoth ==
  ASSUME NEW n, NEW tb, NEW tb2, NEW tb3, KeepsFlags(n, tb, tb2), KeepsFlags(n, tb2, tb3)
  PROVE  KeepsFlags(n, tb, tb3)
BY DEF KeepsFlags

\* A function's parameters are still to be declared in a table without symbols.
LEMMA EmptyIsFirst ==
  ASSUME NEW p, NEW nd, NEW tb, NEW i, i \in DOMAIN tb, tb[i] = EmptyTable, IsListed(nd, i)
  PROVE  FirstAreIn(p, nd, tb, i)
<1>1. DOMAIN tb[i] = {} /\ IsFiniteSet(DOMAIN tb[i]) /\ Cardinality(DOMAIN tb[i]) = 0
  BY FS_EmptySet DEF EmptyTable
<1>2. PICK S : nd[i].params \in Seq(S)
  BY DEF IsListed
<1>3. \A k \in DOMAIN nd[i].params : ~ (k <= 0)
  BY <1>2, LenProperties
<1>4. QED
  BY <1>1, <1>3 DEF FirstAreIn

\* The tables when a scope is entered: its own, and the one it is declared in.
ScopeTables(tb, i) ==
  \/ tb = With(tables, i, EmptyTable)
  \/ \E name, symbol :
       /\ Fits(types', name, symbol) /\ CurScope # i /\ name \notin DOMAIN CurTable
       /\ tb = Inserted(With(tables, i, EmptyTable), CurScope, name, symbol)

\* A scope that is entered.
LEMMA EntersScope ==
  ASSUME Declaring, ~ ParametersLeft, Follows(types', types), Tied(types'),
         ScopeTables(tables', at),
         NEW node, NodeFits(program[at], node, types'), nodes' = [nodes EXCEPT ![at] = node],
         UNCHANGED <<program, errors>>, stage' = stage, at' = at + 1,
         symbols' = Append(symbols, at), program[at].op # "var"
  PROVE  SymbolsInv'
<1>1. /\ Sound(types, tables) /\ Early(types, tables)
      /\ FunctionsAreCalls(program, nodes, types) /\ AllListed(program, nodes)
      /\ OnStack(symbols, tables) /\ symbols \in Seq(Nat) /\ Slotted(program, nodes)
      /\ at \in 1..Len(program) /\ at \in Nat \ {0} /\ Len(program) \in Nat
      /\ CurScope \in DOMAIN tables
  BY WhileDeclaring
<1>2. IsTable(types)
  BY DEF Declaring
<1> DEFINE tb == With(tables, at, EmptyTable)
<1>3. /\ DOMAIN tb = DOMAIN tables \union {at} /\ tb[at] = EmptyTable
      /\ \A s \in DOMAIN tables : s # at => tb[s] = tables[s]
  BY SoundWithScope, Zenon
<1>4. Sound(types', tb) /\ Early(types', tb)
  <2>1. Sound(types', tables) /\ Early(types', tables)
    BY <1>1, <1>2, SoundFollows
  <2>2. QED
    BY <2>1, SoundWithScope
<1> HIDE DEF tb
<1>5. KeepsFlags(at - 1, tables, tb)
  <2>1. \A s \in 1..(at - 1) : s # at
    BY <1>1
  <2>2. QED
    BY <1>3, <2>1 DEF KeepsFlags
<1>6. /\ Sound(types', tables') /\ Early(types', tables')
      /\ DOMAIN tables' = DOMAIN tables \union {at} /\ tables'[at] = EmptyTable
      /\ KeepsFlags(at - 1, tables, tables')
  <2>1. CASE tables' = tb
    BY <1>3, <1>4, <1>5, <2>1
  <2>2. CASE tables' # tb
    <3>1. PICK name, symbol :
            /\ Fits(types', name, symbol) /\ CurScope # at /\ name \notin DOMAIN CurTable
            /\ tables' = Inserted(tb, CurScope, name, symbol)
      BY <2>2 DEF ScopeTables, tb
    <3>2. CurScope \in DOMAIN tb /\ tb[CurScope] = CurTable /\ at \in DOMAIN tb
      BY <1>1, <1>3, <3>1 DEF CurTable, CurScope
    <3>3. /\ Sound(types', tables') /\ Early(types', tables') /\ DOMAIN tables' = DOMAIN tb
          /\ \A r \in DOMAIN tb : r # CurScope => tables'[r] = tb[r]
      BY <1>4, <3>1, <3>2, InsertedTables
    <3>4. KeepsFlags(at - 1, tb, tables')
      BY <3>1, <3>2, InsertedKeeps
    <3>5. QED
      BY <1>3, <1>5, <3>1, <3>2, <3>3, <3>4, KeepsBoth
  <2>3. QED
    BY <2>1, <2>2
<1>7. /\ FunctionsAreCalls(program, nodes', types') /\ AllListed(program, nodes')
      /\ \A i \in 1..Len(program) : i # at => nodes'[i] = nodes[i]
  <2>1. FunctionsAreCalls(program, nodes, types')
    BY <1>1, <1>2, FollowingFunctions
  <2>2. Replaces(nodes, at, node, nodes')
    BY DEF Replaces
  <2>3. QED
    BY ONLY <1>1, <2>1, <2>2, NodeFits(program[at], node, types'), WrittenNodeFits
<1>8. OnStack(symbols', tables')
  <2>1. DOMAIN tables \subseteq DOMAIN tables' /\ at \in DOMAIN tables'
    BY <1>6
  <2>2. QED
    BY <1>1, <2>1, StackGrows
<1>9. errors' = {} => DeclaredTo(program', nodes', tables', at')
  <2> SUFFICES ASSUME errors = {} PROVE DeclaredTo(program, nodes', tables', at + 1)
    OBVIOUS
  <2>1. \A i \in 1..(at - 1) : nodes'[i].params = nodes[i].params
    BY <1>1, <1>7
  <2>2. VariableIsIn(program, tables', at)
    BY DEF VariableIsIn
  <2>3. FirstAreIn(program, nodes', tables', at)
    <3>1. IsListed(nodes', at) /\ at \in DOMAIN tables'
      BY <1>1, <1>6, <1>7 DEF AllListed
    <3>2. QED
      BY <1>6, <3>1, EmptyIsFirst
  <2>4. QED
    BY <1>6, <2>1, <2>2, <2>3, VisitedIsDeclared
<1>10. QED
  BY <1>6, <1>7, <1>8, <1>9, GoesOnDeclaring DEF Declaring

-----------------------------------------------------------------------------
\* A node that is given another slot fits when its type is there.
LEMMA SlotFits ==
  ASSUME NEW p, NEW nd, NEW t, FunctionsAreCalls(p, nd, t), AllListed(p, nd),
         NEW i \in 1..Len(p), NEW slot \in Int, NEW item, NEW u,
         IsFunction(item) => InTable(u, slot) /\ TypeAt(u, slot).name[1] = "call"
  PROVE  NodeFits(item, [nd[i] EXCEPT !.slot = slot], u)
<1>1. {"slot", "params"} \subseteq DOMAIN nd[i] /\ \E S : nd[i].params \in Seq(S)
  BY DEF FunctionsAreCalls, AllListed, IsListed
<1> DEFINE node == [nd[i] EXCEPT !.slot = slot]
<1>2. {"slot", "params"} \subseteq DOMAIN node /\ node.slot = slot /\ node.params = nd[i].params
  BY <1>1
<1> HIDE DEF node
<1>3. NodeFits(item, node, u)
  BY <1>1, <1>2 DEF NodeFits
<1>4. QED
  BY <1>3 DEF node

\* The table with a type without ties in it.
LEMMA DeclaredNext ==
  ASSUME Declaring, NEW type, Loose(type), Named(type), types' = Declare(types, type)
  PROVE  /\ Follows(types', types) /\ Tied(types')
         /\ NextSlot(types) \in Int /\ InTable(types', NextSlot(types))
         /\ TypeAt(types', NextSlot(types)) = type
<1>1. IsTable(types) /\ Sound(types, tables)
  BY WhileDeclaring DEF Declaring
<1>2. Tied(types)
  BY <1>1 DEF Sound
<1>3. Follows(types', types)
  BY <1>1, DeclaredFollows
<1>4. Tied(types')
  BY <1>1, <1>2, DeclaredIsTied
<1>5. QED
  BY <1>1, <1>3, <1>4, DeclaredSlot

\* The visit of the module.
LEMMA GenModuleNames ==
  ASSUME Declaring, ~ ParametersLeft, GenModule
  PROVE  SymbolsInv'
<1> DEFINE type == Type("Module", Plain(program[at].name))
           node == [nodes[at] EXCEPT !.slot = NextSlot(types)]
<1>1. /\ program[at].op = "module" /\ types' = Declare(types, type)
      /\ nodes' = [nodes EXCEPT ![at].slot = NextSlot(types)]
      /\ tables' = With(tables, at, EmptyTable)
      /\ symbols' = Append(symbols, at) /\ at' = at + 1 /\ stage' = stage
      /\ UNCHANGED <<program, errors>>
  BY DEF GenModule, Visiting, Enter, Continue, WithScope
<1>2. nodes' = [nodes EXCEPT ![at] = node]
  BY <1>1
<1>3. Loose(type) /\ Named(type)
  BY TypesAreLoose, TypesAreNamed
<1> HIDE DEF type
<1>4. Follows(types', types) /\ Tied(types') /\ NextSlot(types) \in Int
  BY <1>1, <1>3, DeclaredNext
<1>5. ~ IsFunction(program[at]) /\ program[at].op # "var"
  BY <1>1 DEF IsFunction
<1>6. NodeFits(program[at], node, types')
  BY <1>4, <1>5, WhileDeclaring, SlotFits
<1>7. ScopeTables(tables', at)
  BY <1>1 DEF ScopeTables
<1> HIDE DEF node
<1>8. QED
  BY <1>1, <1>2, <1>4, <1>5, <1>6, <1>7, EntersScope

\* The visit of a block.
LEMMA GenBlockNames ==
  ASSUME Declaring, ~ ParametersLeft, GenBlock
  PROVE  SymbolsInv'
<1>1. /\ program[at].op = "block" /\ types' = types /\ nodes' = nodes
      /\ tables' = With(tables, at, EmptyTable)
      /\ symbols' = Append(symbols, at) /\ at' = at + 1 /\ stage' = stage
      /\ UNCHANGED <<program, errors>>
  BY DEF GenBlock, Visiting, Enter, Continue, WithScope, syntax
<1>2. /\ Sound(types, tables) /\ FunctionsAreCalls(program, nodes, types)
      /\ AllListed(program, nodes) /\ at \in 1..Len(program) /\ Slotted(program, nodes)
  BY WhileDeclaring
<1>3. nodes' = [nodes EXCEPT ![at] = nodes[at]]
  BY <1>1, <1>2 DEF Slotted
<1>4. Follows(types', types) /\ Tied(types')
  BY <1>1, <1>2, TableFollowsItself DEF Declaring, Sound
<1>5. ~ IsFunction(program[at]) /\ program[at].op # "var"
  BY <1>1 DEF IsFunction
<1>6. NodeFits(program[at], nodes[at], types')
  BY <1>1, <1>2, NodesThatFit
<1>7. ScopeTables(tables', at)
  BY <1>1 DEF ScopeTables
<1>8. QED
  BY <1>1, <1>3, <1>4, <1>5, <1>6, <1>7, EntersScope

\* What declares itself is in a scope that is not its own.
LEMMA DeclaredElsewhere ==
  ASSUME Declaring, program[at].op \notin {"end", "module"}
  PROVE  /\ CurScope # at /\ CurScope \in 1..(at - 1) /\ CurScope # GlobalTable
         /\ Within(program, CurScope, at)
<1>1. Within(program, CurScope, at) /\ CurScope \in 1..Len(program) /\ CurScope < at
  BY ScopeIsCurrent DEF Declaring, IsAt, CurScope
<1>2. at \in Nat /\ Len(program) \in Nat
  BY WhileDeclaring
<1>3. QED
  BY <1>1, <1>2 DEF GlobalTable

\* The visit of a class, which becomes a type and a symbol.
LEMMA GenClassDeclNames ==
  ASSUME Declaring, ~ ParametersLeft, GenClassDecl
  PROVE  SymbolsInv'
<1> DEFINE name == Plain(program[at].name)
           type == Type("Class", name)
           symbol == Symbol("klass", NextSlot(types))
           node == [nodes[at] EXCEPT !.slot = NextSlot(types)]
<1>0. program[at].op = "class"
  BY DEF GenClassDecl, Visiting
<1>1. CASE Redeclared
  BY <1>1, PassesOver
<1>2. CASE ~ Redeclared
  <2>1. /\ name \notin DOMAIN CurTable /\ types' = Declare(types, type)
        /\ nodes' = [nodes EXCEPT ![at].slot = NextSlot(types)]
        /\ tables' = [With(tables, at, EmptyTable) EXCEPT ![CurScope] = Insert(@, name, symbol)]
        /\ symbols' = Append(symbols, at) /\ at' = at + 1 /\ stage' = stage
        /\ UNCHANGED <<program, errors>>
    BY <1>2 DEF GenClassDecl, Enter, Continue, WithScope
  <2>2. nodes' = [nodes EXCEPT ![at] = node]
    BY <2>1
  <2>3. Loose(type) /\ Named(type) /\ type.name = name /\ type.kind = "Class"
    BY TypesAreLoose, TypesAreNamed DEF Type
  <2>4. ~ IsFunction(program[at]) /\ program[at].op # "var"
    BY <1>0 DEF IsFunction
  <2> HIDE DEF type
  <2>5. Follows(types', types) /\ Tied(types') /\ NextSlot(types) \in Int
    BY <2>1, <2>3, DeclaredNext
  <2>6. NodeFits(program[at], node, types')
    BY <2>4, <2>5, WhileDeclaring, SlotFits
  <2>7. Fits(types', name, symbol)
    BY <2>1, <2>3, DeclaredFits DEF Declaring
  <2>8. CurScope # at
    BY <1>0, DeclaredElsewhere
  <2>9. tables' = Inserted(With(tables, at, EmptyTable), CurScope, name, symbol)
    BY <2>1 DEF Inserted
  <2> HIDE DEF name, symbol, node
  <2>10. ScopeTables(tables', at)
    BY <2>1, <2>7, <2>8, <2>9 DEF ScopeTables
  <2>11. QED
    BY <2>1, <2>2, <2>4, <2>5, <2>6, <2>10, EntersScope
<1>3. QED
  BY <1>1, <1>2

\* The symbol of an optional.
LEMMA OptionalFits ==
  ASSUME NEW t, IsTable(t), NEW name, NEW wrapped, InTable(t, wrapped)
  PROVE  Fits(DeclareOptional(t, name, wrapped), name, Symbol("klass", NextSlot(t)))
<1> DEFINE w == wrapped + 1
           inner == [t[w] EXCEPT !.link = NextSlot(t)]
           u == [t EXCEPT ![w] = inner]
           optional == [Type("Optional", name) EXCEPT !.link = wrapped]
<1>1. Len(t) \in Nat /\ w \in 1..Len(t)
  BY TableFollowsItself, SlotIsPlace
<1>2. Follows(u, t) /\ Len(u) = Len(t)
  <2>1. Named(t[w])
    BY <1>1, TableFollowsItself
  <2>2. Named(inner) /\ inner.kind = t[w].kind /\ inner.name = t[w].name
    BY <2>1 DEF Named
  <2>3. Follows(u, t)
    BY <2>2, ChangedFollows
  <2>4. PICK S : t \in Seq(S)
    BY DEF IsTable
  <2>5. t \in [1..Len(t) -> S]
    BY <2>4, LenProperties
  <2>6. u \in [1..Len(t) -> S \union {inner}]
    BY <1>1, <2>5
  <2> HIDE DEF u, inner
  <2>7. Len(u) = Len(t)
    BY <1>1, <2>6, SequenceOfLength
  <2>8. QED
    BY <2>3, <2>7 DEF u, inner
<1>3. optional.name = name /\ optional.kind = "Optional"
  BY DEF Type
<1>4. DeclareOptional(t, name, wrapped) = Declare(u, optional)
  BY DEF DeclareOptional
<1>5. NextSlot(u) = NextSlot(t)
  BY <1>2 DEF NextSlot
<1> HIDE DEF u, optional
<1>6. Fits(Declare(u, optional), name, Symbol("klass", NextSlot(u)))
  BY <1>2, <1>3, DeclaredFits DEF Follows
<1>7. QED
  BY <1>4, <1>5, <1>6

\* A member's node, with self in front of its parameters.
LEMMA BoundFits ==
  ASSUME NEW node, {"slot", "params"} \subseteq DOMAIN node, \E S : node.params \in Seq(S),
         NEW item, NEW class
  PROVE  /\ {"slot", "params"} \subseteq DOMAIN BoundNode(node, item, class)
         /\ \E S : BoundNode(node, item, class).params \in Seq(S)
<1>1. PICK S : node.params \in Seq(S)
  OBVIOUS
<1> DEFINE self == <<SelfName, class>>
           T == S \union {self}
           all == <<self>> \o node.params
<1>2. node.params \in Seq(T)
  BY <1>1, SeqMonotonic
<1>3. <<self>> \in Seq(T)
  <2>1. self \in T
    OBVIOUS
  <2> HIDE DEF self, T
  <2>2. QED
    BY <2>1
<1>4. all \in Seq(T)
  BY <1>2, <1>3, ConcatProperties
<1>5. /\ {"slot", "params"} \subseteq DOMAIN BoundNode(node, item, class)
      /\ BoundNode(node, item, class).params = all
  BY DEF BoundNode
<1> HIDE DEF all
<1>6. QED
  BY <1>4, <1>5

\* A function's symbol has the type of its name.
LEMMA GenFuncDeclNames ==
  ASSUME Declaring, ~ ParametersLeft, GenFuncDecl
  PROVE  SymbolsInv'
<1> DEFINE item == program[at]
           class == TypeAt(types, CurClassType).name
           name == SimpleName(item, class[2])
           node == IF CurStage = "class" THEN BoundNode(nodes[at], item, class) ELSE nodes[at]
           flag == IF item.op = "init" THEN "constructor" ELSE "func"
           type == FunctionType(item, name, node)
           symbol == Symbol(flag, NextSlot(types))
           new == [node EXCEPT !.slot = NextSlot(types)]
<1>0. program[at].op \in {"func", "init"}
  BY DEF GenFuncDecl
<1>1. /\ Sound(types, tables) /\ FunctionsAreCalls(program, nodes, types)
      /\ AllListed(program, nodes) /\ at \in 1..Len(program) /\ Slotted(program, nodes)
  BY WhileDeclaring
<1>2. CASE Redeclared
  BY <1>2, PassesOver
<1>3. CASE stage' = "aborted" /\ UNCHANGED <<types, tables>>
  BY <1>1, <1>3, AbortIsSound
<1>4. CASE ~ Redeclared /\ ~ (stage' = "aborted" /\ UNCHANGED <<types, tables>>)
  <2>1. /\ name \notin DOMAIN CurTable /\ types' = Declare(types, type)
        /\ nodes' = [nodes EXCEPT ![at] = new]
        /\ tables' = [With(tables, at, EmptyTable) EXCEPT ![CurScope] = Insert(@, name, symbol)]
        /\ symbols' = Append(symbols, at) /\ at' = at + 1 /\ stage' = stage
        /\ UNCHANGED <<program, errors>>
    BY <1>4, ZenonT(60) DEF GenFuncDecl, Enter, Continue, WithScope, Abort, service
  <2>2. /\ {"slot", "params"} \subseteq DOMAIN nodes[at] /\ \E S : nodes[at].params \in Seq(S)
    BY <1>1 DEF FunctionsAreCalls, AllListed, IsListed
  <2>3. {"slot", "params"} \subseteq DOMAIN node /\ \E S : node.params \in Seq(S)
    BY <2>2, BoundFits
  <2>4. Loose(type) /\ Named(type) /\ type.name = name /\ type.kind = "Func"
    <3>1. Loose(type) /\ Named(type)
      BY TypesAreLoose, TypesAreNamed
    <3>2. \A n, nd : /\ FunctionType(item, n, nd).name = n
                     /\ FunctionType(item, n, nd).kind = "Func"
      BY DEF FunctionType, Type
    <3>3. QED
      BY <3>1, <3>2
  <2>5. name[1] = "call"
    BY DEF SimpleName, Signature
  <2>6. flag \in {"func", "constructor", "klass"} /\ flag # "klass"
    OBVIOUS
  <2>7. program[at].op # "var" /\ IsFunction(program[at])
    BY <1>0 DEF IsFunction
  <2> HIDE DEF type, name, node, class, item, flag
  <2>8. /\ Follows(types', types) /\ Tied(types') /\ NextSlot(types) \in Int
        /\ InTable(types', NextSlot(types)) /\ TypeAt(types', NextSlot(types)) = type
    BY <2>1, <2>4, DeclaredNext
  <2>9. NodeFits(program[at], new, types')
    <3>1. /\ {"slot", "params"} \subseteq DOMAIN new /\ new.slot = NextSlot(types)
          /\ new.params = node.params
      BY <2>3
    <3> HIDE DEF new
    <3>2. QED
      BY <2>3, <2>4, <2>5, <2>8, <3>1 DEF NodeFits
  <2>10. Fits(types', name, symbol)
    BY <2>1, <2>4, <2>6, DeclaredFits DEF Declaring
  <2>11. CurScope # at
    BY <1>0, DeclaredElsewhere
  <2>12. tables' = Inserted(With(tables, at, EmptyTable), CurScope, name, symbol)
    BY <2>1 DEF Inserted
  <2> HIDE DEF symbol, new
  <2>13. ScopeTables(tables', at)
    BY <2>1, <2>10, <2>11, <2>12 DEF ScopeTables
  <2>14. QED
    BY <2>1, <2>7, <2>8, <2>9, <2>13, EntersScope
<1>5. QED
  BY <1>2, <1>3, <1>4

-----------------------------------------------------------------------------
(* Annotations. *)

\* The tables with another one for the global names.
GlobalsTable(globals) == [tables EXCEPT ![GlobalTable] = globals]

\* An optional that an annotation makes known is a symbol of its type.
LEMMA AnnotationFits ==
  ASSUME Declaring, NEW annotation, WithOptional(annotation).ok
  PROVE  LET made == WithOptional(annotation)
         IN /\ Follows(made.types, types) /\ Tied(made.types)
            /\ Sound(made.types, GlobalsTable(made.globals))
            /\ Early(made.types, GlobalsTable(made.globals))
<1> DEFINE made == WithOptional(annotation)
           inner == Plain(annotation[2])
           wrapped == IF Found(inner) THEN Lookup(inner).type ELSE NoSlot
           known == annotation[1] # "optional" \/ Found(annotation)
           symbol == Symbol("klass", NextSlot(types))
           optional == DeclareOptional(types, annotation, wrapped)
           table == Insert(tables[GlobalTable], annotation, symbol)
<1>1. /\ Sound(types, tables) /\ Early(types, tables) /\ IsTable(types)
      /\ OnStack(symbols, tables) /\ symbols \in Seq(Nat) /\ Tied(types)
      /\ GlobalTable \in DOMAIN tables
  BY WhileDeclaring DEF Declaring, Sound, Early
<1>2. /\ known => made.types = types /\ made.globals = tables[GlobalTable]
      /\ ~ known => /\ MayWrap(types, wrapped)
                    /\ made.types = optional /\ made.globals = table
  BY DEF WithOptional
<1>9. NameTypes(types, tables[GlobalTable]) /\ HaveSlots(types, tables[GlobalTable])
  BY <1>1 DEF Sound, Early
<1>10. ASSUME NEW t, Follows(t, types), Tied(t), NEW globals,
              NameTypes(t, globals), HaveSlots(t, globals)
       PROVE  Sound(t, GlobalsTable(globals)) /\ Early(t, GlobalsTable(globals))
  <2>1. Sound(t, tables) /\ Early(t, tables)
    BY <1>1, <1>10, SoundFollows
  <2>2. QED
    BY <1>10, <2>1, SoundWithTable DEF GlobalsTable
<1>3. CASE known
  <2>1. Follows(types, types)
    BY <1>1, TableFollowsItself
  <2>2. made.types = types /\ made.globals = tables[GlobalTable]
    BY <1>2, <1>3
  <2> HIDE DEF made
  <2>3. QED
    BY <1>1, <1>9, <1>10, <2>1, <2>2 DEF made
<1>4. CASE ~ known
  <2> HIDE DEF known, optional, table, made
  <2>1. wrapped # NoSlot /\ TypeAt(types, wrapped).link = NoSlot /\ Found(inner)
        /\ wrapped = Lookup(inner).type
    BY <1>2, <1>4 DEF MayWrap
  <2> HIDE DEF wrapped
  <2>2. InTable(types, wrapped)
    <3>1. \A k \in 1..Len(symbols) : symbols[k] \in DOMAIN tables
      BY <1>1 DEF OnStack
    <3>2. PICK s \in DOMAIN tables : inner \in DOMAIN tables[s] /\ Lookup(inner) = tables[s][inner]
      BY <1>1, <2>1, <3>1, FoundInTable
    <3>3. SlotIsThere(types, Lookup(inner))
      BY <1>1, <3>2 DEF Early, HaveSlots
    <3>4. QED
      BY <2>1, <3>3 DEF SlotIsThere
  <2>3. Tied(optional) /\ Follows(optional, types)
    BY <1>1, <2>1, <2>2, OptionalIsTied, OptionalFollows DEF optional
  <2>4. Fits(optional, annotation, symbol)
    BY <1>1, <2>2, OptionalFits DEF optional, symbol
  <2> HIDE DEF symbol
  <2>5. NameTypes(optional, tables[GlobalTable]) /\ HaveSlots(optional, tables[GlobalTable])
    BY <1>1, <1>9, <2>3, FollowingNames
  <2>6. NameTypes(optional, table) /\ HaveSlots(optional, table)
    BY <2>4, <2>5, InsertedFits DEF table
  <2>7. Sound(optional, GlobalsTable(table)) /\ Early(optional, GlobalsTable(table))
    BY <1>10, <2>3, <2>6
  <2>8. QED
    BY <1>2, <1>4, <2>3, <2>7 DEF made
<1>5. QED
  BY <1>3, <1>4

\* One table after another.
BothTables(globals, c, name, symbol) ==
  [tables EXCEPT ![GlobalTable] = globals, ![c] = Insert(@, name, symbol)]

\* The scope is not the global one, so both changes last.
LEMMA TwoTables ==
  ASSUME NEW globals, NEW c \in DOMAIN tables, c # GlobalTable, NEW name, NEW symbol
  PROVE  BothTables(globals, c, name, symbol) = Inserted(GlobalsTable(globals), c, name, symbol)
<1>1. GlobalsTable(globals)[c] = tables[c]
  BY DEF GlobalsTable
<1>2. BothTables(globals, c, name, symbol)
        = [GlobalsTable(globals) EXCEPT ![c] = Insert(tables[c], name, symbol)]
  BY DEF GlobalsTable, BothTables
<1>3. QED
  BY <1>1, <1>2 DEF Inserted

\* The tables once a variable is declared whose annotation is known by now.
LEMMA VariableTables ==
  ASSUME Declaring, NEW annotation, WithOptional(annotation).ok, CurScope # GlobalTable,
         NEW name, name \notin DOMAIN CurTable,
         NEW symbol, {"flag", "type"} \subseteq DOMAIN symbol, symbol.flag \in {"var", "field"},
         symbol.type \in {NoSlot, UnspecifiedSlot}
  PROVE  LET made == WithOptional(annotation)
             tb == Inserted(GlobalsTable(made.globals), CurScope, name, symbol)
         IN /\ Follows(made.types, types) /\ Tied(made.types)
            /\ Sound(made.types, tb) /\ Early(made.types, tb) /\ DOMAIN tb = DOMAIN tables
            /\ \A n : n \in Nat => KeepsFlags(n, tables, tb)
            /\ tb[CurScope] = Insert(CurTable, name, symbol)
            /\ IsIn(tb[CurScope], name, {symbol.flag})
<1> DEFINE made == WithOptional(annotation)
           tg == GlobalsTable(made.globals)
           tb == Inserted(tg, CurScope, name, symbol)
<1>1. /\ Follows(made.types, types) /\ Tied(made.types)
      /\ Sound(made.types, tg) /\ Early(made.types, tg)
  BY AnnotationFits
<1> HIDE DEF made
<1>2. CurScope \in DOMAIN tables
  BY WhileDeclaring
<1>3. /\ DOMAIN tg = DOMAIN tables /\ tg[CurScope] = CurTable
      /\ \A s \in DOMAIN tables : s # GlobalTable => tg[s] = tables[s]
  BY <1>2 DEF GlobalsTable, CurTable, CurScope
<1> HIDE DEF tg
<1>4. InTable(made.types, UnspecifiedSlot)
  BY <1>1 DEF Early
<1>5. Fits(made.types, name, symbol)
  BY <1>4 DEF Fits, NamesType, SlotIsThere
<1>6. CurScope \in DOMAIN tg /\ name \notin DOMAIN tg[CurScope]
  BY <1>2, <1>3
<1>7. /\ Sound(made.types, tb) /\ Early(made.types, tb) /\ DOMAIN tb = DOMAIN tg
      /\ tb[CurScope] = Insert(tg[CurScope], name, symbol)
  BY <1>1, <1>5, <1>6, InsertedTables
<1>8. ASSUME NEW n \in Nat
      PROVE  KeepsFlags(n, tables, tb)
  <2>1. KeepsFlags(n, tables, tg)
    <3>1. \A s \in 1..n : s # GlobalTable
      BY DEF GlobalTable
    <3>2. QED
      BY <1>3, <3>1 DEF KeepsFlags
  <2>2. KeepsFlags(n, tg, tb)
    BY <1>6, InsertedKeeps
  <2> HIDE DEF tb
  <2>3. QED
    BY <2>1, <2>2, KeepsBoth
<1>9. IsIn(tb[CurScope], name, {symbol.flag})
  <2> DEFINE table == Insert(CurTable, name, symbol)
  <2>1. name \in DOMAIN table
    BY DEF Insert, With
  <2>4. Fits(made.types, name, symbol)
    BY <1>5
  <2>2. table[name].flag = symbol.flag
    BY ONLY <2>4, InsertedFits
  <2>3. tb[CurScope] = table
    BY <1>3, <1>7
  <2> HIDE DEF table, tb
  <2>5. QED
    BY <2>1, <2>2, <2>3 DEF IsIn
<1> HIDE DEF tb
<1>10. QED
  BY <1>1, <1>3, <1>7, <1>8, <1>9 DEF tb, tg, made

\* A variable is declared in the scope it is in.
LEMMA GenVarDeclNames ==
  ASSUME Declaring, ~ ParametersLeft, GenVarDecl
  PROVE  SymbolsInv'
<1> DEFINE item == program[at]
           found == Undeclared(Visited(item.expr))
           name == Plain(item.name)
           made == WithOptional(item.type)
           symbol == [Symbol(VariableFlag, UnspecifiedSlot) EXCEPT
                        !.parent = CurDeclType, !.static = CurStage = "module"]
           tb == Inserted(GlobalsTable(made.globals), CurScope, name, symbol)
<1>0. program[at].op = "var"
  BY DEF GenVarDecl, Visiting
<1>1. /\ Sound(types, tables) /\ FunctionsAreCalls(program, nodes, types)
      /\ AllListed(program, nodes) /\ at \in 1..Len(program) /\ OnStack(symbols, tables)
      /\ at \in Nat /\ at - 1 \in Nat /\ IsTree(program)
  BY WhileDeclaring
<1>2. CASE stage' = "aborted" /\ UNCHANGED <<types, tables>>
  BY <1>1, <1>2, AbortIsSound
<1>3. CASE ~ (stage' = "aborted" /\ UNCHANGED <<types, tables>>)
  <2>1. /\ made.ok /\ name \notin DOMAIN CurTable /\ types' = made.types
        /\ tables' = [tables EXCEPT ![GlobalTable] = made.globals,
                                    ![CurScope] = Insert(@, name, symbol)]
        /\ errors' = errors \union found /\ at' = at + 1 /\ stage' = stage
        /\ UNCHANGED <<program, nodes, symbols>>
    BY <1>3, ZenonT(60) DEF GenVarDecl, Continue, Abort, service, context, syntax
  <2>3. /\ CurScope # GlobalTable /\ Within(program, CurScope, at)
    BY <1>0, DeclaredElsewhere
  <2>4. /\ {"flag", "type"} \subseteq DOMAIN symbol /\ symbol.flag \in {"var", "field"}
        /\ symbol.type \in {NoSlot, UnspecifiedSlot}
    BY DEF Symbol, VariableFlag
  <2> HIDE DEF symbol, item, name
  <2>2. tables' = tb
    <3>1. CurScope \in DOMAIN tables
      BY WhileDeclaring
    <3> HIDE DEF made
    <3>2. tables' = BothTables(made.globals, CurScope, name, symbol)
      BY <2>1 DEF BothTables
    <3>3. QED
      BY <2>3, <3>1, <3>2, TwoTables
  <2>5. /\ Follows(made.types, types) /\ Tied(made.types)
        /\ Sound(made.types, tb) /\ Early(made.types, tb) /\ DOMAIN tb = DOMAIN tables
        /\ \A n : n \in Nat => KeepsFlags(n, tables, tb)
        /\ IsIn(tb[CurScope], name, {symbol.flag})
    BY <2>1, <2>3, <2>4, VariableTables
  <2> HIDE DEF tb, made
  <2>6. FunctionsAreCalls(program', nodes', types')
    BY <1>1, <2>1, <2>5, FollowingFunctions DEF Declaring
  <2>7. OnStack(symbols', tables')
    BY <1>1, <2>1, <2>2, <2>5 DEF OnStack
  <2>8. errors' = {} => DeclaredTo(program', nodes', tables', at')
    <3> SUFFICES ASSUME errors = {} PROVE DeclaredTo(program, nodes, tb, at + 1)
      BY <2>1, <2>2
    <3>1. VariableIsIn(program, tb, at)
      <4> SUFFICES ASSUME NEW s \in 1..(at - 1), Within(program, s, at)
                   PROVE  s \in DOMAIN tb /\ IsIn(tb[s], name, {"var", "field"})
        BY DEF VariableIsIn, name, item
      <4>1. s = CurScope
        BY <1>1, <2>3, OneScope
      <4>2. CurScope \in DOMAIN tables
        BY WhileDeclaring
      <4>3. QED
        BY <2>4, <2>5, <4>1, <4>2 DEF IsIn
    <3>2. FirstAreIn(program, nodes, tb, at)
      BY <1>0 DEF FirstAreIn, IsFunction
    <3>3. QED
      BY <1>1, <2>5, <3>1, <3>2, VisitedIsDeclared
  <2>9. Sound(types', tables') /\ Early(types', tables') /\ AllListed(program', nodes')
    BY <1>1, <2>1, <2>2, <2>5
  <2>10. QED
    BY <2>1, <2>6, <2>7, <2>8, <2>9, GoesOnDeclaring DEF Declaring
<1>4. QED
  BY <1>2, <1>3

\* The next parameter is the function's next symbol.
LEMMA GenParameterNames ==
  ASSUME Declaring, GenParameter
  PROVE  SymbolsInv'
<1> DEFINE parameter == nodes[CurScope].params[Cardinality(DOMAIN CurTable) + 1]
           name == parameter[1]
           made == WithOptional(parameter[2])
           symbol == Symbol("var", NoSlot)
           tb == Inserted(GlobalsTable(made.globals), CurScope, name, symbol)
<1>0. CurScope # GlobalTable /\ at = CurScope + 1
  BY DEF GenParameter, ParametersLeft
<1>1. /\ Sound(types, tables) /\ FunctionsAreCalls(program, nodes, types)
      /\ AllListed(program, nodes) /\ at \in 1..Len(program) /\ OnStack(symbols, tables)
      /\ at \in Nat /\ at - 1 \in Nat /\ IsTree(program) /\ CurScope \in DOMAIN tables
      /\ symbols \in Seq(Nat) /\ Len(symbols) \in Nat /\ Len(symbols) >= 1
      /\ errors = {} => DeclaredTo(program, nodes, tables, at)
  BY WhileDeclaring
<1>2. CASE stage' = "aborted" /\ UNCHANGED <<types, tables>>
  BY <1>1, <1>2, AbortIsSound
<1>3. CASE ~ (stage' = "aborted" /\ UNCHANGED <<types, tables>>)
  <2>1. /\ made.ok /\ name \notin DOMAIN CurTable /\ types' = made.types
        /\ tables' = [tables EXCEPT ![GlobalTable] = made.globals,
                                    ![CurScope] = Insert(@, name, symbol)]
        /\ UNCHANGED <<program, nodes, symbols, at, stage, errors>>
    BY <1>3, ZenonT(60) DEF GenParameter, Abort, service, context, syntax
  <2>3. /\ {"flag", "type"} \subseteq DOMAIN symbol /\ symbol.flag = "var"
        /\ symbol.type \in {NoSlot, UnspecifiedSlot}
    BY DEF Symbol
  <2> HIDE DEF symbol, parameter, name
  <2>2. tables' = tb
    <3> HIDE DEF made
    <3>1. tables' = BothTables(made.globals, CurScope, name, symbol)
      BY <2>1 DEF BothTables
    <3>2. QED
      BY <1>0, <1>1, <3>1, TwoTables
  <2>4. /\ Follows(made.types, types) /\ Tied(made.types)
        /\ Sound(made.types, tb) /\ Early(made.types, tb) /\ DOMAIN tb = DOMAIN tables
        /\ \A n : n \in Nat => KeepsFlags(n, tables, tb)
        /\ tb[CurScope] = Insert(CurTable, name, symbol)
        /\ IsIn(tb[CurScope], name, {symbol.flag})
    BY <1>0, <2>1, <2>3, VariableTables
  <2> HIDE DEF tb, made
  <2>5. FunctionsAreCalls(program', nodes', types')
    BY <1>1, <2>1, <2>4, FollowingFunctions DEF Declaring
  <2>6. OnStack(symbols', tables')
    BY <1>1, <2>1, <2>2, <2>4 DEF OnStack
  <2>7. errors' = {} => DeclaredTo(program', nodes', tables', at')
    <3> SUFFICES ASSUME errors = {} PROVE DeclaredTo(program, nodes, tb, at)
      BY <2>1, <2>2
    <3>1. CurScope \in Nat /\ CurScope = at - 1
      BY <1>0, <1>1 DEF CurScope, Last
    <3>2. KeepsFlags(at - 1, tables, tb)
      BY <1>1, <2>4
    <3>3. ASSUME NEW i \in 1..(at - 1)
          PROVE  /\ VariableIsIn(program, tb, i)
                 /\ i # at - 1 => ParametersAreIn(program, nodes, tb, i)
      <4>1. /\ VariableIsIn(program, tables, i)
            /\ i # at - 1 => ParametersAreIn(program, nodes, tables, i)
        BY <1>1 DEF DeclaredTo
      <4>2. i \in 1..((at - 1) + 1)
        BY <1>1
      <4>3. VariableIsIn(program, tb, i)
        BY <1>1, <3>2, <4>1, <4>2, VariableStays
      <4>4. QED
        BY <3>2, <4>1, <4>3, ParametersStay
    <3>4. ASSUME at - 1 \in 1..(at - 1)
          PROVE  FirstAreIn(program, nodes, tb, at - 1)
      <4> DEFINE old == tables[CurScope]
                 new == tb[CurScope]
                 params == nodes[CurScope].params
      <4> SUFFICES ASSUME IsFunction(program[CurScope])
                   PROVE  /\ CurScope \in DOMAIN tb /\ IsFiniteSet(DOMAIN new)
                          /\ \A k \in DOMAIN params :
                               k <= Cardinality(DOMAIN new) => IsIn(new, params[k][1], {"var"})
        BY <3>1 DEF FirstAreIn
      <4>1. /\ IsFiniteSet(DOMAIN old)
            /\ \A k \in DOMAIN params :
                 k <= Cardinality(DOMAIN old) => IsIn(old, params[k][1], {"var"})
        <5>1. FirstAreIn(program, nodes, tables, CurScope)
          BY <1>1, <3>1, <3>4 DEF DeclaredTo
        <5>2. QED
          BY <5>1 DEF FirstAreIn
      <4>2. /\ DOMAIN new = DOMAIN old \union {name} /\ name \notin DOMAIN old /\ CurTable = old
            /\ name = params[Cardinality(DOMAIN old) + 1][1]
        <5>1. CurTable = old
          BY DEF CurTable, CurScope
        <5>2. DOMAIN Insert(CurTable, name, symbol) = DOMAIN CurTable \union {name}
          BY DEF Insert, With
        <5>3. QED
          BY <2>1, <2>4, <5>1, <5>2 DEF name, parameter
      <4>3. IsFiniteSet(DOMAIN new) /\ Cardinality(DOMAIN new) = Cardinality(DOMAIN old) + 1
        BY <4>1, <4>2, FS_AddElement
      <4>4. Cardinality(DOMAIN old) \in Nat
        BY <4>1, FS_CardinalityType
      <4>5. \E S : params \in Seq(S)
        <5>1. CurScope \in 1..Len(program)
          BY <1>1, <3>1, <3>4, TreeIsSequence
        <5>2. QED
          BY <1>1, <5>1 DEF AllListed, IsListed
      <4>6. DOMAIN params \subseteq Nat
        BY <4>5, LenProperties
      <4>7. ASSUME NEW x, IsIn(old, x, {"var"})
            PROVE  IsIn(new, x, {"var"})
        BY <1>1, <3>1, <3>2, <3>4, <4>7, SymbolStays
      <4> HIDE DEF old, new, params
      <4>8. IsIn(new, name, {"var"})
        BY <2>3, <2>4 DEF new
      <4>9. \A k \in DOMAIN params :
              k <= Cardinality(DOMAIN new) => IsIn(new, params[k][1], {"var"})
        <5> TAKE k \in DOMAIN params
        <5>1. CASE k <= Cardinality(DOMAIN old)
          BY <4>1, <4>7, <5>1
        <5>2. CASE k = Cardinality(DOMAIN old) + 1
          BY <4>2, <4>8, <5>2
        <5>3. k \in Nat
          BY <4>6
        <5>4. QED
          BY <4>3, <4>4, <5>1, <5>2, <5>3
      <4>10. QED
        BY <1>1, <2>4, <4>3, <4>9
    <3>5. QED
      BY <3>3, <3>4 DEF DeclaredTo
  <2>8. Sound(types', tables') /\ Early(types', tables') /\ AllListed(program', nodes')
    BY <1>1, <2>1, <2>2, <2>4
  <2>9. QED
    BY <2>1, <2>5, <2>6, <2>7, <2>8, GoesOnDeclaring DEF Declaring
<1>4. QED
  BY <1>2, <1>3

-----------------------------------------------------------------------------
(* Ends of classes. *)

\* A node as the parser has made it.
LEMMA NewNodeFits ==
  ASSUME NEW item, \E S : item.params \in Seq(S), NEW t
  PROVE  NodeFits(item, NodeOf(item), t)
<1>1. /\ {"slot", "params"} \subseteq DOMAIN NodeOf(item)
      /\ NodeOf(item).slot = NoSlot /\ NodeOf(item).params = item.params /\ NoSlot \in Int
  BY DEF NodeOf, NoSlot
<1>2. QED
  BY <1>1 DEF NodeFits

\* A default initialiser returns its class, and the constructor that is put in is
\* still to be visited.
LEMMA ConstructorNames ==
  ASSUME Declaring, ProcessClassConstructors, Follows(types', types)
  PROVE  SymbolsInv'
<1> DEFINE class == nodes[CurScope].slot
           cinit == [Type("Func", <<"cinit", program[CurScope].name, <<>>>>) EXCEPT
                       !.funcType = "VM_CInit", !.static = TRUE, !.result = class,
                       !.paramCount = 1, !.vars = <<Variable(SelfName, class)>>]
<1>1. /\ Sound(types, tables) /\ Early(types, tables) /\ OnStack(symbols, tables)
      /\ FunctionsAreCalls(program, nodes, types) /\ AllListed(program, nodes)
      /\ IsTree(program) /\ at \in 1..Len(program) /\ Slotted(program, nodes)
      /\ Len(program) \in Nat /\ at \in Nat /\ at - 1 \in Nat
      /\ errors = {} => DeclaredTo(program, nodes, tables, at)
  BY WhileDeclaring
<1>2. IsAt("typegen") /\ IsTable(types) /\ stage = "typegen"
  BY DEF Declaring
<1>3. /\ types' = Declare([types EXCEPT ![class + 1].cinit = NextSlot(types)], cinit)
      /\ program[at].op = "end" /\ UNCHANGED <<stage, at, context, tables, errors>>
  BY DEF ProcessClassConstructors, Closing, Visiting
<1>4. Tied(types')
  <2>1. CurScope \in 1..Len(program)
    <3>1. \E d : Left("typegen", program, nodes, nodes, at, stages, symbols, declTypes, errors, d)
      BY <1>1, <1>2, <1>3, LeavePath DEF IsAt
    <3>2. CurScope \in 1..(at - 1)
      BY <3>1 DEF Left, Closes, CurScope
    <3>3. QED
      BY <1>1, <3>2
  <2>2. class \in Int
    BY <1>1, <2>1 DEF AllListed, IsListed
  <2>3. /\ {"kind", "name", "link", "result", "cinit"} \subseteq DOMAIN cinit
        /\ cinit.link = NoSlot /\ cinit.cinit = NoSlot
        /\ cinit.kind = "Func" /\ cinit.result = class /\ cinit.name[1] = "cinit"
    BY DEF Type
  <2> HIDE DEF cinit, class
  <2>4. Loose(cinit) /\ IsInitialiser(cinit)
    BY <2>3 DEF Loose, Complete, IsOptional, IsInitialiser
  <2>5. QED
    BY <1>1, <1>2, <1>3, <2>2, <2>3, <2>4, InitialiserIsTied DEF Sound
<1> HIDE DEF cinit, class
<1>5. Sound(types', tables') /\ Early(types', tables') /\ OnStack(symbols', tables')
  BY <1>1, <1>2, <1>3, <1>4, SoundFollows DEF context
<1> DEFINE n == Len(Added)
<1>6. /\ AddsConstructor(CurScope, Added, Made)
      /\ Spliced(program, at, Added, program') /\ Spliced(nodes, at, Made, nodes')
      /\ Len(nodes) = Len(program)
  BY <1>2, ConstructorPutIn
<1>7. /\ n \in {0, 2} /\ Len(Made) = n /\ Len(program') = Len(program) + n
      /\ \A i \in 1..(at - 1) : program'[i] = program[i] /\ nodes'[i] = nodes[i]
      /\ \A k \in 1..n : program'[(at - 1) + k] = Added[k] /\ nodes'[(at - 1) + k] = Made[k]
      /\ \A i \in at..Len(program) : program'[i + n] = program[i] /\ nodes'[i + n] = nodes[i]
  BY <1>6 DEF AddsConstructor, Spliced
<1>8. ASSUME NEW k \in 1..n
      PROVE  NodeFits(Added[k], Made[k], types')
  <2>1. n = 2 /\ k \in 1..2
    BY <1>7
  <2>2. Made[k] = NodeOf(Added[k]) /\ Added[k].params = <<>>
    BY <1>6, <2>1 DEF AddsConstructor
  <2>3. Added[k].params \in Seq({})
    BY <2>2
  <2>4. QED
    BY <2>2, <2>3, NewNodeFits
<1> HIDE DEF n
<1>9. \A i \in 1..Len(program) : NodeFits(program[i], nodes[i], types')
  <2>1. FunctionsAreCalls(program, nodes, types')
    BY <1>1, <1>2, FollowingFunctions
  <2>2. QED
    BY <1>1, <2>1, NodesThatFit
<1>10. FunctionsAreCalls(program', nodes', types') /\ AllListed(program', nodes')
  <2>1. ASSUME NEW i \in 1..Len(program')
        PROVE  NodeFits(program'[i], nodes'[i], types')
    <3>1. CASE i < at
      <4>1. i \in 1..(at - 1) /\ i \in 1..Len(program)
        BY <1>1, <3>1
      <4>2. QED
        BY <1>7, <1>9, <4>1
    <3>2. CASE i >= at /\ i < at + n
      <4>1. i - (at - 1) \in 1..n /\ (at - 1) + (i - (at - 1)) = i
        BY <1>1, <1>7, <3>2
      <4>2. QED
        BY <1>7, <1>8, <4>1
    <3>3. CASE i >= at + n
      <4>1. i - n \in at..Len(program) /\ (i - n) + n = i /\ i - n \in 1..Len(program)
        BY <1>1, <1>7, <3>3
      <4>2. QED
        BY <1>7, <1>9, <4>1
    <3>4. i < at \/ (i >= at /\ i < at + n) \/ i >= at + n
      BY <1>1, <1>7
    <3>5. QED
      BY <3>1, <3>2, <3>3, <3>4
  <2>2. QED
    BY <2>1, NodesThatFit
<1>11. errors' = {} => DeclaredTo(program', nodes', tables', at')
  <2> SUFFICES ASSUME errors = {} PROVE DeclaredTo(program', nodes', tables, at)
    BY <1>3
  <2>1. DeclaredTo(program, nodes, tables, at)
    BY <1>1
  <2>2. ASSUME NEW i \in 1..(at - 1)
        PROVE  /\ VariableIsIn(program', tables, i)
               /\ i = at - 1 => FirstAreIn(program', nodes', tables, i)
               /\ i # at - 1 => ParametersAreIn(program', nodes', tables, i)
    <3>1. program'[i] = program[i] /\ nodes'[i] = nodes[i]
      BY <1>7
    <3>2. VariableIsIn(program', tables, i)
      <4>1. i \in 1..((at - 1) + 1) /\ \A j \in 1..i : j \in 1..(at - 1)
        BY <1>1
      <4>2. \A j \in 1..i : program'[j] = program[j]
        BY <1>7, <4>1
      <4>3. VariableIsIn(program, tables, i)
        BY <2>1 DEF DeclaredTo
      <4>4. QED
        BY <1>1, <4>1, <4>2, <4>3, KeepsItself, VariableStays
    <3>3. i = at - 1 => FirstAreIn(program', nodes', tables, i)
      BY <2>1, <3>1 DEF DeclaredTo, FirstAreIn
    <3>4. i # at - 1 => ParametersAreIn(program', nodes', tables, i)
      BY <2>1, <3>1 DEF DeclaredTo, ParametersAreIn
    <3>5. QED
      BY <3>2, <3>3, <3>4
  <2>3. QED
    BY <2>2 DEF DeclaredTo
<1>12. QED
  BY <1>2, <1>3, <1>5, <1>10, <1>11, GoesOnDeclaring

\* Its constructors become names of the scope a class is in, where none of them is
\* known.
LEMMA GenEndOfClassNames ==
  ASSUME Declaring, ~ ParametersLeft, GenEndOfClass
  PROVE  SymbolsInv'
<1> DEFINE o == symbols[Len(symbols) - 1]
           outer == tables[o]
           merged == [n \in DOMAIN outer \union Constructors |->
                        IF n \in Constructors THEN CurTable[n] ELSE outer[n]]
<1>1. /\ Sound(types, tables) /\ Early(types, tables) /\ OnStack(symbols, tables)
      /\ FunctionsAreCalls(program, nodes, types) /\ AllListed(program, nodes)
      /\ symbols \in Seq(Nat) /\ Len(symbols) >= 1 /\ CurScope \in DOMAIN tables
  BY WhileDeclaring
<1>2. CASE stage' = "aborted" /\ UNCHANGED <<types, tables>>
  BY <1>1, <1>2, AbortIsSound
<1>3. CASE ~ (stage' = "aborted" /\ UNCHANGED <<types, tables>>)
  <2>1. /\ Constructors \intersect DOMAIN outer = {}
        /\ tables' = [tables EXCEPT ![o] = merged]
        /\ symbols' = Front(symbols) /\ at' = at + 1 /\ stage' = stage
        /\ UNCHANGED <<program, nodes, types, errors>>
    BY <1>3 DEF GenEndOfClass, Leave, Continue, Abort, service, syntax
  <2>2. program[at].op = "end"
    BY DEF GenEndOfClass, Closing, Visiting
  <2>3. /\ DOMAIN merged = DOMAIN outer \union Constructors
        /\ \A n \in DOMAIN merged : \/ n \in DOMAIN CurTable /\ merged[n] = CurTable[n]
                                    \/ n \in DOMAIN outer /\ merged[n] = outer[n]
        /\ \A n \in DOMAIN outer : merged[n] = outer[n]
    BY <2>1 DEF Constructors
  <2> HIDE DEF merged
  <2>4. o \in DOMAIN tables => NameTypes(types, merged) /\ HaveSlots(types, merged)
    <3>1. NameTypes(types, CurTable) /\ HaveSlots(types, CurTable)
      BY <1>1 DEF Sound, Early, CurTable, CurScope
    <3>2. o \in DOMAIN tables => NameTypes(types, outer) /\ HaveSlots(types, outer)
      BY <1>1 DEF Sound, Early
    <3>3. QED
      BY <2>3, <3>1, <3>2 DEF NameTypes, HaveSlots
  <2>5. /\ Sound(types, tables') /\ Early(types, tables') /\ DOMAIN tables' = DOMAIN tables
    BY <1>1, <2>1, <2>4, SoundWithTable
  <2>6. KeepsFlags(at - 1, tables, tables')
    <3>1. \A s \in DOMAIN tables : tables'[s] = IF s = o THEN merged ELSE tables[s]
      BY <2>1
    <3>2. QED
      BY <2>3, <2>5, <3>1 DEF KeepsFlags
  <2>7. OnStack(symbols', tables')
    <3>1. OnStack(Front(symbols), tables)
      BY <1>1, StackShrinks
    <3>2. QED
      BY <2>1, <2>5, <3>1 DEF OnStack
  <2>8. errors' = {} => DeclaredTo(program', nodes', tables', at')
    <3> SUFFICES ASSUME errors = {} PROVE DeclaredTo(program, nodes, tables', at + 1)
      BY <2>1
    <3>1. VariableIsIn(program, tables', at) /\ FirstAreIn(program, nodes, tables', at)
      BY <2>2 DEF VariableIsIn, FirstAreIn, IsFunction
    <3>2. QED
      BY <2>6, <3>1, VisitedIsDeclared
  <2>9. QED
    BY <1>1, <2>1, <2>5, <2>7, <2>8, GoesOnDeclaring DEF Declaring
<1>4. QED
  BY <1>2, <1>3

\* TypeGen's symbols name the types they are declared with.
LEMMA GenerateNames ==
  ASSUME IsTable(types), PathInv, SymbolsInv, Generate
  PROVE  SymbolsInv'
<1>1. Declaring
  BY DEF Declaring, PathInv, Generate
<1>2. Follows(types', types)
  BY GenerateFollows
<1>3. CASE GenParameter
  BY <1>1, <1>3, GenParameterNames
<1>4. CASE ~ GenParameter
  <2>1. ~ ParametersLeft /\ GenDeclaration
    BY <1>4 DEF Generate
  <2>2. CASE GenModule \/ GenClassDecl \/ GenFuncDecl \/ GenVarDecl \/ GenBlock
    BY <1>1, <2>1, <2>2, GenModuleNames, GenClassDeclNames, GenFuncDeclNames, GenVarDeclNames,
       GenBlockNames
  <2>3. CASE GenStatement \/ GenEndOfBlock \/ GenEndOfFunction
    BY <1>1, <2>1, <2>3, GenStatementNames, GenEndOfBlockNames, GenEndOfFunctionNames
  <2>4. CASE ProcessClassConstructors \/ GenEndOfClass \/ GenEndOfModule
    BY <1>1, <1>2, <2>1, <2>4, ConstructorNames, GenEndOfClassNames, GenEndOfModuleNames
  <2>5. QED
    BY <2>1, <2>2, <2>3, <2>4 DEF GenDeclaration
<1>5. QED
  BY <1>3, <1>4

-----------------------------------------------------------------------------
(* TypeBinding's visits. *)

Binding == stage = "binding" /\ IsAt("binding") /\ IsTable(types) /\ SymbolsInv

\* What a visit of TypeBinding starts from.
LEMMA WhileBinding ==
  ASSUME Binding
  PROVE  /\ Sound(types, tables) /\ FunctionsAreCalls(program, nodes, types)
         /\ AllDeclared(program, nodes, tables, Len(program))
         /\ IsTree(program) /\ Slotted(program, nodes) /\ at \in 1..Len(program)
         /\ Len(program) \in Nat
<1>1. /\ Sound(types, tables) /\ FunctionsAreCalls(program, nodes, types)
      /\ AllDeclared(program, nodes, tables, Len(program))
  BY DEF Binding, SymbolsInv
<1>2. IsTree(program) /\ Slotted(program, nodes) /\ at \in 1..Len(program)
  BY DEF Binding, IsAt, OnPath
<1>3. Len(program) \in Nat
  BY <1>2, TreeIsSequence
<1>4. QED
  BY <1>1, <1>2, <1>3

\* The variables of a type tie it to no other.
LEMMA VariablesTieNothing ==
  ASSUME NEW t, IsTable(t), Tied(t), NEW i, NEW locals
  PROVE  Tied([t EXCEPT ![i] = [t[i] EXCEPT !.vars = locals]])
<1> DEFINE type == [t[i] EXCEPT !.vars = locals]
<1>1. ASSUME i \in 1..Len(t)
      PROVE  SameTies(t[i], type)
  <2>1. Complete(t[i])
    BY <1>1 DEF Tied
  <2>2. QED
    BY <2>1 DEF SameTies, Complete
<1> HIDE DEF type
<1>2. Tied([t EXCEPT ![i] = type])
  BY <1>1, ChangedIsTied
<1>3. QED
  BY <1>2 DEF type

\* Nor does the result of a function that is no initialiser.
LEMMA ResultTiesNothing ==
  ASSUME NEW t, IsTable(t), Tied(t), NEW i, i \in 1..Len(t) => ~ IsInitialiser(t[i]), NEW result
  PROVE  Tied([t EXCEPT ![i] = [t[i] EXCEPT !.result = result]])
<1> DEFINE type == [t[i] EXCEPT !.result = result]
<1>1. ASSUME i \in 1..Len(t)
      PROVE  SameTies(t[i], type)
  <2>1. Complete(t[i]) /\ ~ IsInitialiser(t[i])
    BY <1>1 DEF Tied
  <2>2. QED
    BY <2>1 DEF SameTies, Complete
<1> HIDE DEF type
<1>2. Tied([t EXCEPT ![i] = type])
  BY <1>1, ChangedIsTied
<1>3. QED
  BY <1>2 DEF type

\* A table in which only variables are given a type, or a place.
Retypes(table, old) ==
  /\ DOMAIN table = DOMAIN old
  /\ \A n \in DOMAIN old :
       \/ table[n] = old[n]
       \/ /\ old[n].flag \in {"var", "field"} /\ table[n].flag = old[n].flag
          /\ {"flag", "type"} \subseteq DOMAIN table[n]

\* It names no type that it did not name.
LEMMA VariablesNameNothing ==
  ASSUME NEW t, NEW tb, Sound(t, tb), NEW s, NEW table, s \in DOMAIN tb => Retypes(table, tb[s])
  PROVE  /\ Sound(t, [tb EXCEPT ![s] = table])
         /\ \A n : KeepsFlags(n, tb, [tb EXCEPT ![s] = table])
<1> DEFINE tb2 == [tb EXCEPT ![s] = table]
<1>1. /\ DOMAIN tb2 = DOMAIN tb /\ \A r \in DOMAIN tb : r # s => tb2[r] = tb[r]
      /\ s \in DOMAIN tb => tb2[s] = table
  OBVIOUS
<1> HIDE DEF tb2
<1>2. ASSUME s \in DOMAIN tb
      PROVE  NameTypes(t, table)
  <2>1. NameTypes(t, tb[s]) /\ Retypes(table, tb[s])
    BY <1>2 DEF Sound
  <2>2. QED
    BY <2>1 DEF NameTypes, Retypes, NamesType
<1>3. Sound(t, tb2)
  BY <1>1, <1>2 DEF Sound
<1>4. ASSUME NEW n
      PROVE  KeepsFlags(n, tb, tb2)
  BY <1>1 DEF KeepsFlags, Retypes
<1>5. QED
  BY <1>3, <1>4 DEF tb2

\* What is declared stays so.
LEMMA DeclaredStays ==
  ASSUME NEW p, NEW nd, NEW tb, NEW n, n \in Nat, AllDeclared(p, nd, tb, n),
         NEW tb2, KeepsFlags(n, tb, tb2), NEW nd2, \A i \in 1..n : nd2[i].params = nd[i].params
  PROVE  AllDeclared(p, nd2, tb2, n)
<1> SUFFICES ASSUME NEW i \in 1..n
             PROVE  VariableIsIn(p, tb2, i) /\ ParametersAreIn(p, nd2, tb2, i)
  BY DEF AllDeclared
<1>1. VariableIsIn(p, tb, i) /\ ParametersAreIn(p, nd, tb, i)
  BY DEF AllDeclared
<1>2. i \in 1..(n + 1)
  OBVIOUS
<1>3. VariableIsIn(p, tb2, i)
  BY <1>1, <1>2, VariableStays
<1>4. ParametersAreIn(p, nd2, tb2, i)
  BY <1>1, ParametersStay
<1>5. QED
  BY <1>3, <1>4

\* Nodes whose expressions, or a variable's type, are written.
Rewrites(p, nd, nd2) ==
  \A i \in 1..Len(p) :
    /\ DOMAIN nd2[i] = DOMAIN nd[i] /\ nd2[i].params = nd[i].params
    /\ IsFunction(p[i]) => nd2[i].slot = nd[i].slot

\* What a visit ends with, when it goes on.
LEMMA GoesOnBinding ==
  ASSUME Binding, stage' = "binding", program' = program, Rewrites(program, nodes, nodes'),
         Follows(types', types), Sound(types', tables'),
         KeepsFlags(Len(program), tables, tables')
  PROVE  SymbolsInv'
<1>1. /\ FunctionsAreCalls(program, nodes, types) /\ Len(program) \in Nat
      /\ AllDeclared(program, nodes, tables, Len(program))
  BY WhileBinding
<1>2. FunctionsAreCalls(program, nodes, types')
  BY <1>1, FollowingFunctions DEF Binding
<1>3. FunctionsAreCalls(program, nodes', types')
  BY <1>2 DEF FunctionsAreCalls, Rewrites
<1>4. \A i \in 1..Len(program) : nodes'[i].params = nodes[i].params
  BY DEF Rewrites
<1>5. AllDeclared(program, nodes', tables', Len(program))
  BY <1>1, <1>4, DeclaredStays
<1>6. QED
  BY <1>3, <1>5 DEF SymbolsInv

\* Nodes that are left alone.
LEMMA RewritesItself == \A p, nd : Rewrites(p, nd, nd)
BY DEF Rewrites

\* Visits that declare nothing and write at most expressions.
LEMMA PassesThrough ==
  ASSUME Binding, UNCHANGED <<program, types, tables>>, Rewrites(program, nodes, nodes'),
         stage' \in {"binding", "irgen", "stopped", "aborted"}
  PROVE  SymbolsInv'
<1>1. Sound(types, tables)
  BY WhileBinding
<1>2. CASE stage' = "binding"
  <2>1. Follows(types, types)
    BY TableFollowsItself DEF Binding
  <2>2. KeepsFlags(Len(program), tables, tables)
    BY KeepsItself
  <2>3. QED
    BY <1>1, <1>2, <2>1, <2>2, GoesOnBinding
<1>3. CASE stage' # "binding"
  BY <1>1, <1>3, EndsSound
<1>4. QED
  BY <1>2, <1>3

\* One node that is written.
LEMMA RewrittenNode ==
  ASSUME NEW p, NEW nd, Slotted(p, nd), NEW a \in 1..Len(p), NEW node,
         DOMAIN node = DOMAIN nd[a], node.params = nd[a].params,
         IsFunction(p[a]) => node.slot = nd[a].slot
  PROVE  Rewrites(p, nd, [nd EXCEPT ![a] = node])
<1>1. DOMAIN nd = 1..Len(p)
  BY DEF Slotted
<1>2. QED
  BY <1>1 DEF Rewrites

\* The visit of a scope, and of its end.
LEMMA BindScopeNames ==
  ASSUME Binding, BindModule \/ BindClassDecl \/ BindBlock \/ BindEnd
  PROVE  SymbolsInv'
<1>1. /\ UNCHANGED <<syntax, service>> /\ stage' \in {stage, "irgen", "stopped"}
  BY DEF BindModule, BindClassDecl, BindBlock, BindEnd, Continue, EndStage
<1>2. Rewrites(program, nodes, nodes')
  BY <1>1, RewritesItself DEF syntax
<1>3. QED
  BY <1>1, <1>2, PassesThrough DEF syntax, service, Binding

\* The visit of a statement, whose expressions are bound.
LEMMA BindStatementNames ==
  ASSUME Binding, BindStatement
  PROVE  SymbolsInv'
<1>1. /\ FunctionsAreCalls(program, nodes, types) /\ Slotted(program, nodes)
      /\ at \in 1..Len(program)
  BY WhileBinding
<1>2. \/ stage' = "aborted" /\ UNCHANGED <<program, nodes, types, tables>>
      \/ /\ UNCHANGED <<program, types, tables>> /\ stage' = stage
         /\ \E left, right : nodes' = [nodes EXCEPT ![at].left = left, ![at].expr = right]
  BY ZenonT(30) DEF BindStatement, BindExpressions, Continue, Abort, service, syntax
<1>3. CASE stage' = "aborted" /\ UNCHANGED <<program, nodes, types, tables>>
  BY <1>3, RewritesItself, PassesThrough
<1>4. ASSUME NEW left, NEW right,
             nodes' = [nodes EXCEPT ![at].left = left, ![at].expr = right]
      PROVE  Rewrites(program, nodes, nodes')
  <2> DEFINE node == [nodes[at] EXCEPT !.left = left, !.expr = right]
  <2>1. {"slot", "params"} \subseteq DOMAIN nodes[at]
    BY <1>1 DEF FunctionsAreCalls
  <2>2. /\ DOMAIN node = DOMAIN nodes[at] /\ node.params = nodes[at].params
        /\ node.slot = nodes[at].slot
    BY <2>1
  <2>3. nodes' = [nodes EXCEPT ![at] = node]
    BY <1>4
  <2> HIDE DEF node
  <2>4. QED
    BY <1>1, <2>2, <2>3, RewrittenNode
<1>5. QED
  BY <1>2, <1>3, <1>4, PassesThrough DEF Binding

\* A function's type gets its result and its variables, and its parameters theirs.
FunctionBound(slot, result, locals) ==
  [types EXCEPT ![slot + 1].result = result, ![slot + 1].vars = locals]

\* A function's type is no initialiser's, so its result ties it to nothing.
LEMMA FunctionBoundIsTied ==
  ASSUME IsTable(types), Tied(types), NEW slot, NEW result, NEW locals,
         slot # NoSlot => InTable(types, slot) /\ TypeAt(types, slot).name[1] = "call"
  PROVE  Tied(FunctionBound(slot, result, locals))
<1> DEFINE i == slot + 1
           first == [types EXCEPT ![i] = [types[i] EXCEPT !.result = result]]
           second == [first EXCEPT ![i] = [first[i] EXCEPT !.vars = locals]]
<1>1. i \in 1..Len(types) => ~ IsInitialiser(types[i])
  <2> SUFFICES ASSUME i \in 1..Len(types) PROVE ~ IsInitialiser(types[i])
    OBVIOUS
  <2>1. slot # NoSlot
    BY DEF NoSlot
  <2>2. TypeAt(types, slot) = types[i]
    BY DEF TypeAt
  <2>3. QED
    BY <2>1, <2>2 DEF IsInitialiser
<1>2. FunctionBound(slot, result, locals) = second
  BY DEF FunctionBound
<1> HIDE DEF i
<1>3. Tied(first)
  BY <1>1, ResultTiesNothing
<1>4. IsTable(first)
  <2>1. Follows(first, types)
    BY TableFollowsItself, ChangedFollows DEF Named
  <2>2. QED
    BY <2>1 DEF Follows
<1> HIDE DEF first
<1>5. Tied(second)
  BY <1>3, <1>4, VariablesTieNothing
<1>6. QED
  BY <1>2, <1>5

\* The visit of a function: its result, and its parameters' types.
LEMMA BindFuncDeclNames ==
  ASSUME Binding, BindFuncDecl
  PROVE  SymbolsInv'
<1> DEFINE node == nodes[at]
           scope == Append(symbols, at)
           result == IF node.result = NoName THEN VoidSlot ELSE SlotIn(scope, node.result)
           slots == [k \in DOMAIN node.params |-> SlotIn(scope, node.params[k][2])]
           locals == [k \in DOMAIN slots |-> Variable(node.params[k][1], slots[k])]
           table == [n \in DOMAIN tables[at] |->
                       IF \E k \in DOMAIN slots : node.params[k][1] = n
                         THEN [tables[at][n] EXCEPT !.type =
                                 slots[CHOOSE k \in DOMAIN slots : node.params[k][1] = n]]
                         ELSE tables[at][n]]
<1>1. /\ Sound(types, tables) /\ FunctionsAreCalls(program, nodes, types)
      /\ AllDeclared(program, nodes, tables, Len(program)) /\ at \in 1..Len(program)
  BY WhileBinding
<1>2. \/ stage' = "aborted" /\ UNCHANGED <<program, nodes, types, tables>>
      \/ /\ UNCHANGED <<program, nodes>> /\ stage' = stage
         /\ types' = [types EXCEPT ![node.slot + 1].result = result,
                                   ![node.slot + 1].vars = locals]
         /\ tables' = [tables EXCEPT ![at] = table]
  BY ZenonT(60) DEF BindFuncDecl, Continue, Abort, service, syntax
<1>3. IsFunction(program[at])
  BY DEF BindFuncDecl, IsFunction
<1>4. Rewrites(program, nodes, nodes')
  BY <1>2, RewritesItself
<1>5. CASE stage' = "aborted" /\ UNCHANGED <<program, nodes, types, tables>>
  BY <1>4, <1>5, PassesThrough
<1>6. CASE ~ (stage' = "aborted" /\ UNCHANGED <<program, nodes, types, tables>>)
  <2>1. /\ UNCHANGED <<program, nodes>> /\ stage' = "binding"
        /\ types' = FunctionBound(node.slot, result, locals)
        /\ tables' = [tables EXCEPT ![at] = table]
    BY <1>2, <1>6 DEF FunctionBound, Binding
  <2>2. DOMAIN slots = DOMAIN node.params
    OBVIOUS
  <2>3. Retypes(table, tables[at])
    <3>1. /\ at \in DOMAIN tables
          /\ \A k \in DOMAIN node.params : IsIn(tables[at], node.params[k][1], {"var"})
      BY <1>1, <1>3 DEF AllDeclared, ParametersAreIn
    <3>2. NameTypes(types, tables[at])
      BY <1>1, <3>1 DEF Sound
    <3> HIDE DEF slots
    <3>3. ASSUME NEW n \in DOMAIN tables[at]
          PROVE  \/ table[n] = tables[at][n]
                 \/ /\ tables[at][n].flag \in {"var", "field"}
                    /\ table[n].flag = tables[at][n].flag
                    /\ {"flag", "type"} \subseteq DOMAIN table[n]
      <4>1. CASE \E k \in DOMAIN slots : node.params[k][1] = n
        <5>1. tables[at][n].flag = "var"
          BY <2>2, <3>1, <4>1 DEF IsIn
        <5>2. {"flag", "type"} \subseteq DOMAIN tables[at][n]
          BY <3>2 DEF NameTypes, NamesType
        <5>3. \E slot : table[n] = [tables[at][n] EXCEPT !.type = slot]
          BY <4>1
        <5> HIDE DEF table
        <5>4. QED
          BY <5>1, <5>2, <5>3
      <4>2. CASE ~ \E k \in DOMAIN slots : node.params[k][1] = n
        BY <4>2
      <4>3. QED
        BY <4>1, <4>2
    <3>4. DOMAIN table = DOMAIN tables[at]
      OBVIOUS
    <3> HIDE DEF table
    <3>5. QED
      BY <3>3, <3>4 DEF Retypes
  <2> HIDE DEF slots, result, locals, table
  <2>4. Tied(types')
    <3>1. Tied(types)
      BY <1>1 DEF Sound
    <3>2. node.slot # NoSlot =>
            InTable(types, node.slot) /\ TypeAt(types, node.slot).name[1] = "call"
      BY <1>1, <1>3 DEF FunctionsAreCalls
    <3> HIDE DEF node
    <3>3. QED
      BY <2>1, <3>1, <3>2, FunctionBoundIsTied DEF Binding
  <2>5. Follows(types', types)
    BY BindTypesFollows DEF Binding, BindTypes
  <2>6. Sound(types, tables') /\ KeepsFlags(Len(program), tables, tables')
    BY <1>1, <2>1, <2>3, VariablesNameNothing
  <2>7. Sound(types', tables')
    BY <2>4, <2>5, <2>6, SoundFollows DEF Binding
  <2>8. QED
    BY <1>4, <2>1, <2>5, <2>6, <2>7, GoesOnBinding
<1>7. QED
  BY <1>5, <1>6

-----------------------------------------------------------------------------
\* A variable's symbol with its type and place.
VariableTyped(table, name, slot, loc) ==
  [table EXCEPT ![name] = [table[name] EXCEPT !.type = slot, !.loc = loc]]

\* The visit of a variable, which gets its type and its place.
LEMMA BindVarDeclNames ==
  ASSUME Binding, BindVarDecl
  PROVE  SymbolsInv'
<1> DEFINE item == program[at]
           name == Plain(item.name)
           pattern == TypeSlot(item.type)
           init == Bind(item.expr)
           slot == IF pattern = UnspecifiedSlot THEN init.slot ELSE pattern
           owner == CurDeclType
           locals == Append(types[owner + 1].vars, Variable(name, slot))
<1>0. program[at].op = "var"
  BY DEF BindVarDecl, Visiting
<1>1. /\ Sound(types, tables) /\ FunctionsAreCalls(program, nodes, types)
      /\ AllDeclared(program, nodes, tables, Len(program)) /\ at \in 1..Len(program)
      /\ Slotted(program, nodes)
  BY WhileBinding
<1>2. \/ /\ stage' \in {stage, "aborted"} /\ UNCHANGED <<program, nodes, types, tables>>
      \/ /\ program' = program /\ stage' = stage
         /\ \E i, v : types' = [types EXCEPT ![i] = [types[i] EXCEPT !.vars = v]]
         /\ \E s, loc :
              tables' = [tables EXCEPT ![CurScope][name].type = s,
                                       ![CurScope][name].loc = loc]
         /\ \E e, s : nodes' = [nodes EXCEPT ![at].expr = e, ![at].slot = s]
  <2>1. \/ /\ stage' \in {stage, "aborted"} /\ UNCHANGED <<program, nodes, types, tables>>
        \/ /\ program' = program /\ stage' = stage
           /\ types' = [types EXCEPT ![owner + 1].vars = Append(@, Variable(name, slot))]
           /\ tables' = [tables EXCEPT ![CurScope][name].type = slot,
                                       ![CurScope][name].loc = NextPlace(owner)]
           /\ nodes' = [nodes EXCEPT ![at].expr = init, ![at].slot = slot]
    BY ZenonT(60) DEF BindVarDecl, BindVariable, Continue, Abort, service, syntax
  <2> HIDE DEF slot, owner, name, init
  <2>2. types' = [types EXCEPT ![owner + 1].vars = Append(@, Variable(name, slot))]
          => types' = [types EXCEPT ![owner + 1] = [types[owner + 1] EXCEPT !.vars = locals]]
    OBVIOUS
  <2> HIDE DEF locals
  <2>3. QED
    BY <2>1, <2>2
<1> HIDE DEF slot, owner, init, pattern, locals, name, item
<1>3. CASE stage' \in {stage, "aborted"} /\ UNCHANGED <<program, nodes, types, tables>>
  BY <1>3, RewritesItself, PassesThrough DEF Binding
<1>4. ASSUME NEW e, NEW s, nodes' = [nodes EXCEPT ![at].expr = e, ![at].slot = s]
      PROVE  Rewrites(program, nodes, nodes')
  <2> DEFINE node == [nodes[at] EXCEPT !.expr = e, !.slot = s]
  <2>1. {"slot", "params"} \subseteq DOMAIN nodes[at]
    BY <1>1 DEF FunctionsAreCalls
  <2>2. DOMAIN node = DOMAIN nodes[at] /\ node.params = nodes[at].params
    BY <2>1
  <2>3. nodes' = [nodes EXCEPT ![at] = node]
    BY <1>4
  <2>4. ~ IsFunction(program[at])
    BY <1>0 DEF IsFunction
  <2> HIDE DEF node
  <2>5. QED
    BY <1>1, <2>2, <2>3, <2>4, RewrittenNode
<1>5. ASSUME NEW i, NEW v, types' = [types EXCEPT ![i] = [types[i] EXCEPT !.vars = v]]
      PROVE  Tied(types')
  <2>1. Tied(types)
    BY <1>1 DEF Sound
  <2>2. QED
    BY <1>5, <2>1, VariablesTieNothing DEF Binding
<1>6. ASSUME NEW s, NEW loc,
             tables' = [tables EXCEPT ![CurScope][name].type = s, ![CurScope][name].loc = loc]
      PROVE  Sound(types, tables') /\ KeepsFlags(Len(program), tables, tables')
  <2> DEFINE table == VariableTyped(tables[CurScope], name, s, loc)
  <2>1. Within(program, CurScope, at) /\ CurScope \in 1..(at - 1)
    BY <1>0, ScopeIsCurrent DEF Binding, IsAt, CurScope, Within
  <2>2. CurScope \in DOMAIN tables /\ IsIn(tables[CurScope], name, {"var", "field"})
    BY <1>0, <1>1, <2>1 DEF AllDeclared, VariableIsIn, name, item
  <2>3. {"flag", "type"} \subseteq DOMAIN tables[CurScope][name]
    BY <1>1, <2>2 DEF Sound, NameTypes, NamesType, IsIn
  <2>4. tables' = [tables EXCEPT ![CurScope] = table]
    BY <1>6, <2>2 DEF VariableTyped, IsIn
  <2>5. Retypes(table, tables[CurScope])
    BY <2>2, <2>3 DEF VariableTyped, Retypes, IsIn
  <2> HIDE DEF table
  <2>6. QED
    BY <1>1, <2>4, <2>5, VariablesNameNothing
<1>7. Follows(types', types)
  BY BindTypesFollows DEF Binding, BindTypes
<1>8. CASE ~ (stage' \in {stage, "aborted"} /\ UNCHANGED <<program, nodes, types, tables>>)
  <2>1. /\ program' = program /\ stage' = "binding" /\ Rewrites(program, nodes, nodes')
        /\ Tied(types') /\ Sound(types, tables')
        /\ KeepsFlags(Len(program), tables, tables')
    BY <1>2, <1>4, <1>5, <1>6, <1>8 DEF Binding
  <2>2. Sound(types', tables')
    BY <1>7, <2>1, SoundFollows DEF Binding
  <2>3. QED
    BY <1>7, <2>1, <2>2, GoesOnBinding
<1>9. QED
  BY <1>3, <1>8

\* Every visit of TypeBinding.
LEMMA BindTypesNames ==
  ASSUME IsTable(types), PathInv, SymbolsInv, BindTypes
  PROVE  SymbolsInv'
<1>1. Binding
  BY DEF Binding, BindTypes, PathInv
<1>2. QED
  BY <1>1, BindScopeNames, BindStatementNames, BindFuncDeclNames, BindVarDeclNames DEF BindTypes

-----------------------------------------------------------------------------
(* IRGen's visits, and what comes before the passes. *)

\* IRGen declares nothing but the module's function, and writes no symbol.
LEMMA EmitCodeNames ==
  ASSUME IsTable(types), PathInv, SymbolsInv, EmitCode
  PROVE  SymbolsInv'
<1>1. Sound(types, tables) /\ stage = "irgen"
  BY DEF SymbolsInv, EmitCode
<1>2. ASSUME UNCHANGED <<types, tables>>, stage' \in {"irgen", "aborted"}
      PROVE  SymbolsInv'
  BY <1>1, <1>2, EndsSound
<1>3. ASSUME NEW emitted, EmitItem(emitted)
      PROVE  SymbolsInv'
  BY <1>1, <1>2, <1>3 DEF EmitItem, Continue, Abort, service
<1>4. CASE EmitModule \/ EmitClassDecl \/ EmitFuncDecl \/ EmitBlock
  BY <1>1, <1>2, <1>4
     DEF EmitModule, EmitClassDecl, EmitFuncDecl, EmitBlock, Continue, service
<1>5. CASE EmitVarDecl \/ EmitAssign \/ EmitFuncCall \/ EmitReturn
  <2>1. \E emitted : EmitItem(emitted)
    BY <1>5 DEF EmitVarDecl, EmitAssign, EmitFuncCall, EmitReturn
  <2>2. QED
    BY <1>3, <2>1
<1>6. CASE EmitEnd
  <2> DEFINE type == [Type("Func", Plain(program[CurScope].name)) EXCEPT !.static = TRUE]
  <2>1. /\ tables' = tables /\ stage' \in {"irgen", "aborted", "stopped", "done"}
        /\ types' = types \/ types' = Declare(types, type)
    BY <1>1, <1>6 DEF EmitEnd, Continue, EndStage, Abort, service
  <2>2. Loose(type) /\ Named(type)
    BY DEF Type, Loose, Complete, IsOptional, Named
  <2> HIDE DEF type
  <2>3. Tied(types')
    BY <1>1, <2>1, <2>2, DeclaredIsTied DEF Sound
  <2>4. Follows(types', types)
    BY EmitCodeFollows
  <2>5. Sound(types', tables')
    BY <1>1, <2>1, <2>3, <2>4, SoundFollows
  <2>6. QED
    BY <2>1, <2>5, EndsSound
<1>7. QED
  BY <1>4, <1>5, <1>6 DEF EmitCode

\* TypeGen begins with nothing declared, and the global table on the stack.
LEMMA ParsedNames ==
  ASSUME PathInv, SymbolsInv, Parsed
  PROVE  SymbolsInv'
<1>1. /\ Sound(types, tables) /\ Early(types, tables) /\ AllListed(program, nodes)
      /\ FunctionsAreCalls(program, nodes, types) /\ symbols = <<GlobalTable>>
  BY DEF SymbolsInv, Parsed, PathInv, Outermost
<1>2. \/ stage' \in {"aborted", "stopped"} /\ UNCHANGED <<types, tables>>
      \/ /\ stage' = "typegen" /\ at' = 1
         /\ UNCHANGED <<program, nodes, types, tables, symbols, errors>>
  BY DEF Parsed, Abort, EndStage, syntax, service, context
<1>3. CASE stage' \in {"aborted", "stopped"} /\ UNCHANGED <<types, tables>>
  BY <1>1, <1>3, EndsSound
<1>4. CASE /\ stage' = "typegen" /\ at' = 1
           /\ UNCHANGED <<program, nodes, types, tables, symbols, errors>>
  <2>1. OnStack(symbols', tables')
    BY <1>1, <1>4 DEF OnStack, Early
  <2>2. DeclaredTo(program', nodes', tables', at')
    BY <1>4 DEF DeclaredTo
  <2>3. QED
    BY <1>1, <1>4, <2>1, <2>2, GoesOnDeclaring
<1>5. QED
  BY <1>2, <1>3, <1>4

\* Bootstrap's tables are sound, and no node has a type yet.
LEMMA InitNames == Init => SymbolsInv
<1> SUFFICES ASSUME Init PROVE SymbolsInv
  OBVIOUS
<1>1. /\ types = BootTypes /\ tables = BootTables /\ stage = "parsed"
      /\ nodes = [i \in DOMAIN program |-> NodeOf(program[i])]
      /\ \/ \E k \in DOMAIN Programs : program \in Programs[k]
         \/ program = <<>>
  BY DEF Init
<1>2. Sound(types, tables)
  BY <1>1, BootTypesAreTied, BootTablesName DEF Sound
<1>3. Early(types, tables)
  BY <1>1, BootTypesAreTied, BootTablesName DEF Early, InTable, UnspecifiedSlot
<1>4. ASSUME NEW i \in 1..Len(program)
      PROVE  NodeFits(program[i], nodes[i], types)
  <2>1. program # <<>>
    BY <1>4
  <2>2. PICK k \in DOMAIN Programs : program \in Programs[k]
    BY <1>1, <2>1
  <2>3. DOMAIN program = 1..Len(program)
    BY <2>2, ProgramsAreTrees, TreeIsSequence
  <2>4. program[i].params \in Seq(ToSet(program[i].params))
    BY <2>2, <2>3, ParametersAreLists
  <2>5. nodes[i] = NodeOf(program[i])
    BY <1>1, <2>3
  <2>6. QED
    BY <2>4, <2>5 DEF NodeFits, NodeOf, NoSlot
<1>5. FunctionsAreCalls(program, nodes, types) /\ AllListed(program, nodes)
  BY <1>4, NodesThatFit
<1>6. QED
  BY <1>1, <1>2, <1>3, <1>5 DEF SymbolsInv

\* What is sound names types as the property says.
LEMMA SoundIsNamed == IsTable(types) /\ SymbolsInv => SymbolsNameTypes
<1> SUFFICES ASSUME IsTable(types), SymbolsInv PROVE SymbolsNameTypes
  OBVIOUS
<1>1. Tied(types) /\ \A s \in DOMAIN tables : NameTypes(types, tables[s])
  BY DEF SymbolsInv, Sound
<1>2. DOMAIN types = 1..Len(types)
  BY TableFollowsItself
<1>3. ASSUME NEW s \in DOMAIN tables, NEW n \in DOMAIN tables[s],
             tables[s][n].flag \in {"func", "constructor", "klass"}
      PROVE  /\ TypeAt(types, tables[s][n].type).name = n
             /\ (TypeAt(types, tables[s][n].type).kind = "Func")
                  = (tables[s][n].flag # "klass")
  <2>1. NamesType(types, n, tables[s][n])
    BY <1>1 DEF NameTypes
  <2>2. QED
    BY <1>3, <2>1 DEF NamesType
<1>4. ASSUME NEW k \in DOMAIN types, types[k].link # NoSlot
      PROVE  /\ TypeAt(types, types[k].link).link = k - 1
             /\ (types[k].kind = "Optional") # (TypeAt(types, types[k].link).kind = "Optional")
  <2>1. LinksBack(types, k)
    BY <1>1, <1>2 DEF Tied
  <2>2. QED
    BY <1>4, <2>1 DEF LinksBack, IsOptional
<1>5. ASSUME NEW k \in DOMAIN types, types[k].cinit # NoSlot
      PROVE  TypeAt(types, types[k].cinit).result = k - 1
  <2>1. InitialiserReturns(types, k)
    BY <1>1, <1>2 DEF Tied
  <2>2. QED
    BY <1>5, <2>1 DEF InitialiserReturns
<1>6. QED
  BY <1>3, <1>4, <1>5 DEF SymbolsNameTypes

(* A symbol of a class or a function names the type of that name, an optional and
   what it wraps know each other, and a class's initialiser returns the class, in
   every program that is a tree: passes pass these on as bare numbers, and what a
   symbol names is cast to a function unseen (typebinding.cpp:229).  *)
THEOREM ThmSymbolsNameTypes == Spec => []SymbolsNameTypes
<1>1. Init => IsTable(types) /\ PathInv /\ SymbolsInv
  BY BootTypesAreATable, InitIsOnPath, InitNames DEF Init
<1>2. IsTable(types) /\ [Next]_vars => IsTable(types)'
  BY TableStays
<1>3. IsTable(types) /\ PathInv /\ [Next]_vars => PathInv'
  BY StepIsOnPath
<1>4. IsTable(types) /\ PathInv /\ SymbolsInv /\ [Next]_vars => SymbolsInv'
  <2> SUFFICES ASSUME IsTable(types), PathInv, SymbolsInv, [Next]_vars PROVE SymbolsInv'
    OBVIOUS
  <2>1. CASE UNCHANGED vars
    BY <2>1 DEF SymbolsInv, vars, syntax, context, service
  <2>2. CASE Generate
    BY <2>2, GenerateNames
  <2>3. QED
    BY <2>1, <2>2, ParsedNames, BindTypesNames, EmitCodeNames DEF Next
<1>5. IsTable(types) /\ SymbolsInv => SymbolsNameTypes
  BY SoundIsNamed
<1>6. QED
  BY <1>1, <1>2, <1>3, <1>4, <1>5, PTL DEF Spec
=============================================================================

----------------------------- MODULE TypeTable ------------------------------
(***************************************************************************)
(* The type table the compiler and the VM share (types.h, CompilerService):*)
(* a type's slot is its place in the table, and some slots are known to    *)
(* the compiler and the VM by number.                                      *)
(***************************************************************************)
EXTENDS Integers, Sequences, SequencesExt

\* A simple name: `x`, `f(a:b:)`, `Optional<X>`, and the name of an array's type.
Plain(x) == <<"plain", x, <<>>>>
Signature(f, labels) == <<"call", f, labels>>
OptionalOf(x) == <<"optional", x, <<>>>>
ArrayOf(x) == <<"array", x, <<>>>>

SelfName == Plain("self")

-----------------------------------------------------------------------------
NoSlot == -1

\* enum ValueType: the types whose slot is their kind.
ValueTypes == <<"Nil", "Unspecified", "Void", "Int", "Bool", "Any", "String">>
NilSlot         == 0
UnspecifiedSlot == 1
VoidSlot        == 2
IntSlot         == 3
BoolSlot        == 4
AnySlot         == 5
StringSlot      == 6

\* enum BuildIns, by name.
BuildIns ==
  LET names == <<Signature("print", <<"message">>),
                 Signature("autoWrapping", <<"int">>), Signature("autoWrapping", <<"bool">>),
                 Signature("autoWrapping", <<"class">>), Signature("autoUnwrapping", <<"value">>),
                 OptionalOf("Int"), OptionalOf("Bool"),
                 Plain("Array"), Signature("size", <<>>), Signature("get", <<"index">>),
                 Signature("set", <<"index", "value">>),
                 Plain("Dict"), Signature("Dict", <<>>), Signature("insert", <<"key", "value">>),
                 Signature("get", <<"key">>),
                 Plain("DictEntry"),
                 Plain("StringBuilder"), Signature("append", <<"string">>),
                 Signature("toString", <<>>)>>
  IN [k \in DOMAIN names |-> [name |-> names[k], slot |-> Len(ValueTypes) + k - 1]]

\* The number of the k-th of them.
BuiltIn(k) == BuildIns[k].slot
AutoWrappingInt   == BuiltIn(2)
AutoWrappingBool  == BuiltIn(3)
AutoWrappingClass == BuiltIn(4)
AutoUnwrapping    == BuiltIn(5)
ArraySlot         == BuiltIn(8)
DictSlot          == BuiltIn(12)
BuilderSlot       == BuiltIn(17)

-----------------------------------------------------------------------------
\* A variable of a function, or a field: its name and the slot of its type.
Variable(name, type) == [name |-> name, type |-> type]

\* A type.  `link` is the union of optionalTypeSlot and wrappedTypeSlot, `vars`
\* localVars, staticFields or instanceFields, `cinit` defaultInitializerSlot.
Type(kind, name) ==
  [kind |-> kind, name |-> name, link |-> NoSlot, vars |-> <<>>, paramCount |-> 0,
   result |-> NoSlot, static |-> FALSE, funcType |-> "VM_Func", cinit |-> NoSlot]

TypeAt(typeTable, slot) == typeTable[slot + 1]

\* MUTANT: slots are counted from one.
NextSlotFromOne(typeTable) == Len(typeTable) + 1

\* The slot declare gives the next type.
NextSlot(typeTable) == Len(typeTable)

\* MUTANT: a class is put before the types that are there.
DeclareBefore(typeTable, type) ==
  IF type.kind = "Class" THEN <<type>> \o typeTable ELSE Append(typeTable, type)

Declare(typeTable, type) == Append(typeTable, type)

\* MUTANT: the wrapped type does not learn of its optional.
DeclareOptionalOneWay(typeTable, name, wrapped) ==
  Declare(typeTable, [Type("Optional", name) EXCEPT !.link = wrapped])

\* new Optional, declared, and bound to the type it wraps.
DeclareOptional(typeTable, name, wrapped) ==
  Declare([typeTable EXCEPT ![wrapped + 1].link = NextSlot(typeTable)],
          [Type("Optional", name) EXCEPT !.link = wrapped])

\* The assertions of registerOptionalTypeGlobally.
MayWrap(typeTable, wrapped) ==
  wrapped # NoSlot /\ TypeAt(typeTable, wrapped).link = NoSlot

-----------------------------------------------------------------------------
(* CompilerService::bootstrap. *)

GlobalFunction(k, param, result) ==
  LET f == BuildIns[k].name
  IN [Type("Func", f) EXCEPT !.funcType = "C_Func", !.static = TRUE, !.result = result,
        !.paramCount = 1, !.vars = <<Variable(Plain(f[3][1]), param)>>]

MemberFunction(k, funcType, result) ==
  LET f == BuildIns[k].name
  IN [Type("Func", f) EXCEPT !.funcType = funcType, !.result = result,
        !.paramCount = Len(f[3])]

BootTypes ==
  LET values == [v \in DOMAIN ValueTypes |-> Type(ValueTypes[v], Plain(ValueTypes[v]))]
      globals == <<GlobalFunction(1, AnySlot, VoidSlot),
                   GlobalFunction(2, IntSlot, AnySlot),
                   GlobalFunction(3, BoolSlot, AnySlot),
                   GlobalFunction(4, AnySlot, 10),       \* ValueType::Class, as a slot
                   GlobalFunction(5, BuiltIn(6), IntSlot)>>
      wrapsInt == DeclareOptional(values \o globals, OptionalOf("Int"), IntSlot)
      optionals == DeclareOptional(wrapsInt, OptionalOf("Bool"), BoolSlot)
  IN optionals \o
     <<Type("Class", Plain("Array")),
       MemberFunction(9, "C_Func", IntSlot),
       MemberFunction(10, "C_Func", AnySlot),
       MemberFunction(11, "C_Func", VoidSlot),
       Type("Class", Plain("Dict")),
       MemberFunction(13, "C_CInit", BuiltIn(12)),
       MemberFunction(14, "C_Func", VoidSlot),
       MemberFunction(15, "C_Func", BuiltIn(6)),
       Type("Class", Plain("DictEntry")),
       Type("Class", Plain("StringBuilder")),
       MemberFunction(18, "C_Func", BuiltIn(17)),
       MemberFunction(19, "C_Func", StringSlot)>>

\* The member functions of each built-in class, which exports them.
BuiltInClasses ==
  [c \in {14, 18, 22, 23} |->
     CASE c = 14 -> 15..17 [] c = 18 -> 19..21 [] c = 22 -> {} [] c = 23 -> 24..25]

\* The others are global names.
GlobalSlots ==
  (0..(Len(BootTypes) - 1)) \ UNION {BuiltInClasses[c] : c \in DOMAIN BuiltInClasses}
=============================================================================

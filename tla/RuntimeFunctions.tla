-------------------------- MODULE RuntimeFunctions --------------------------
(***************************************************************************)
(* The function table of the joyeer runtime: the fields of                 *)
(* `struct Function` (types.h) the executor reads, and how many operand    *)
(* words a call site provides for a function against how many the executor *)
(* removes when the function is left.                                      *)
(***************************************************************************)
EXTENDS Integers

CONSTANTS
  Funcs,       (* the functions the type table holds                       *)
  Decl,        (* the declaration of each of them                          *)
  Initializer  (* ModuleClass::staticInitializerSlot, the module's code    *)

FuncType == {"C_Func", "C_CInit", "VM_Func", "VM_CInit"}

\* `returnsVoid` stands for returnTypeSlot = ValueType::Void; the module
\* initialiser's returnTypeSlot stays -1, which is not Void.
FunctionDecl ==
  [funcType : FuncType, paramCount : Nat, localVarCount : Nat,
   isStatic : BOOLEAN, returnsVoid : BOOLEAN]

IsVM(f) == Decl[f].funcType \in {"VM_Func", "VM_CInit"}

\* Operand words a call site pushes. IRGen emits the arguments, and before
\* them the receiver of a member call. FuncDecl::bindClass has made `self` a
\* parameter of a VM function of a class; the built-in C functions of a class
\* do not count it.
ArgumentWords(f) ==
  Decl[f].paramCount + (IF IsVM(f) \/ Decl[f].isStatic THEN 0 ELSE 1)

\* Operand words InterpretedExecutor::execute removes on the way out.
RemovedWords(f) ==
  Decl[f].paramCount + (IF Decl[f].isStatic THEN 0 ELSE 1)

\* Operand words a completed call leaves behind.
ResultWords(f) == IF Decl[f].returnsVoid THEN 0 ELSE 1

\* Words of the caller a call of f costs beyond its own arguments.
ExcessWords(f) == RemovedWords(f) - ArgumentWords(f)

\* No VM function of the program is an instance method or a constructor.
OnlyStaticCode == \A f \in Funcs : IsVM(f) => Decl[f].isStatic

ASSUME FunctionTable ==
  /\ Decl \in [Funcs -> FunctionDecl]
  /\ \A f \in Funcs : IsVM(f) => Decl[f].paramCount <= Decl[f].localVarCount
  /\ Initializer \in Funcs
  /\ Decl[Initializer] = [funcType |-> "VM_Func", paramCount |-> 0,
                          localVarCount |-> 0, isStatic |-> TRUE,
                          returnsVoid |-> FALSE]
=============================================================================

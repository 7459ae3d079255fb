------------------------------ MODULE MCExecutor ----------------------------
(***************************************************************************)
(* Small function tables for the executor.                                 *)
(***************************************************************************)
EXTENDS ExecutorProps

Fn(type, params, locals, static, void) ==
  [funcType |-> type, paramCount |-> params, localVarCount |-> locals,
   isStatic |-> static, returnsVoid |-> void]

ModuleCode == Fn("VM_Func", 0, 0, TRUE, FALSE)

\* A program without classes: module functions with and without a result, a
\* built-in function and two built-in methods (get(index:), set(index:value:)).
StaticDecl ==
  [init  |-> ModuleCode,
   value |-> Fn("VM_Func", 1, 1, TRUE, FALSE),
   void  |-> Fn("VM_Func", 2, 3, TRUE, TRUE),
   wrap  |-> Fn("C_Func", 1, 1, TRUE, FALSE),
   get   |-> Fn("C_Func", 1, 0, FALSE, FALSE),
   print |-> Fn("C_Func", 1, 1, TRUE, TRUE)]

\* A program with a class: its default initialiser <cinit> (static, takes
\* self), a constructor and a method without parameters of their own.
ClassDecl ==
  [init  |-> ModuleCode,
   cinit |-> Fn("VM_CInit", 1, 1, TRUE, FALSE),
   ctor  |-> Fn("VM_CInit", 1, 1, FALSE, FALSE),
   method |-> Fn("VM_Func", 1, 1, FALSE, TRUE)]
=============================================================================

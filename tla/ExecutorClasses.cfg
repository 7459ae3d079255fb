\* A program with a class: every call of a method or of a constructor removes one
\* word too many from its caller.
CONSTANTS
  Funcs = {"init", "cinit", "ctor", "method"}
  Decl <- ClassDecl
  Initializer = "init"
  Values = {0}
  StackWords = 12
  MaxCalls = 3
  MaxOperands = 3
SPECIFICATION Spec
INVARIANT FrameDiscipline
INVARIANT StackPointerLaw
CHECK_DEADLOCK FALSE

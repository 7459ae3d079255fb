\* The same program as ExecutorClasses: the generator's count of operands and the
\* stack pointer part at the first return of a method or of a constructor.
CONSTANTS
  Funcs = {"init", "cinit", "ctor", "method"}
  Decl <- ClassDecl
  Initializer = "init"
  Values = {0}
  StackWords = 12
  MaxCalls = 3
  MaxOperands = 3
SPECIFICATION Spec
INVARIANT CallsBalanced
CHECK_DEADLOCK FALSE

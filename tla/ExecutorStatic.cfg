\* A program without classes.
CONSTANTS
  Funcs = {"init", "value", "void", "wrap", "get", "print"}
  Decl <- StaticDecl
  Initializer = "init"
  Values = {0, 1}
  StackWords = 14
  MaxCalls = 3
  MaxOperands = 3
SPECIFICATION Spec
INVARIANT TypeOK
INVARIANT CallsBalanced
INVARIANT LayeredActivations
PROPERTY LocalsIsolated
PROPERTY ImplementsCallMachine
CHECK_DEADLOCK FALSE

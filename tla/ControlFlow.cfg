\* Every body of the MC module.
CONSTANTS
  Sources <- AllBodies
  Nesting = 2
  MaxTests = 3
SPECIFICATION Spec
INVARIANT TypeOK
INVARIANT WithinCode
INVARIANT DepthIsStatic
PROPERTY ImplementsStatements
PROPERTY Returns
CHECK_DEADLOCK FALSE

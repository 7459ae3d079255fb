\* Expressions of up to five operators.
CONSTANTS
  Operands <- AllNames
  Assignable = {"a", "b"}
  Exprs <- Expression
SPECIFICATION Spec
INVARIANT TypeOK
INVARIANT NothingMissing
INVARIANT IndInv
INVARIANT PostfixOfGrammar
CHECK_DEADLOCK FALSE

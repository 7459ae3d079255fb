\* `1.a`: the scanner never leaves the fraction of a literal.
CONSTANT Texts <- FractionTexts
SPECIFICATION Spec
PROPERTY Terminates
CHECK_DEADLOCK FALSE

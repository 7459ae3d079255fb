\* Texts without a fraction inside them.
CONSTANT Texts <- PlainTexts
SPECIFICATION Spec
INVARIANT TypeOK
INVARIANT MalformedReported
INVARIANT TokensAreLexemes
PROPERTY Terminates
CHECK_DEADLOCK FALSE

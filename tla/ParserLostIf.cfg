\* An if that is not complete before a return.
CONSTANT Families <- IfTexts
SPECIFICATION Spec
INVARIANT AcceptedIsDocumented
CHECK_DEADLOCK FALSE

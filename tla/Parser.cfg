\* Texts of every part of the grammar.
CONSTANT Families <- PassTexts
SPECIFICATION Spec
INVARIANT TypeOK
INVARIANT AcceptedIsLenient
INVARIANT BacktracksOrReports
PROPERTY NoFalseAlarm
PROPERTY Terminates
CHECK_DEADLOCK FALSE

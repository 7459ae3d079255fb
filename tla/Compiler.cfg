CONSTANTS
  Programs <- AllPrograms
SPECIFICATION Spec
INVARIANTS
  TypeOK
  ContextIsThePathToTheNode
  SymbolsNameTypes
  PlacesTellVariablesApart
  CallsFindTheirArguments
  CompilesWhatIsWellFormed
  NoCodeForErrors
PROPERTIES
  SlotsAreStable
  Ends
CHECK_DEADLOCK FALSE

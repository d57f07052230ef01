CONSTANTS
  MaxIndexRK = 3
  MaxArgC = 2
  FieldsPerFlush = 2
  MaxStack = 20
  SetlistWord = 3
  MaxVars = 12
  MaxUpvalues = 3
  MaxCCalls = 8
  StackSize = 60
  Collation <- Letters
  LoadedBy <- Loads
SPECIFICATION Spec
INVARIANTS
  CodeAccepted
  StackDiscipline
  MeansTheSource
  ErrorsNameTheOperand
  LoadsBack
CHECK_DEADLOCK FALSE

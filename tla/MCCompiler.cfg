SPECIFICATION Spec
CONSTANTS
  Names <- MCNames
  Scalars <- MCScalars
  Inputs <- MCInputs
  NameType <- MCNameType
INVARIANTS
  TypeOK
  NothingDropped
  GroupedByPrecedence
  TreesAreWalkable
  StatementsTerminate
  PrintsEachOnce
  FormatsFit
PROPERTIES
  Terminates
CHECK_DEADLOCK FALSE

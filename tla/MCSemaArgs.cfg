SPECIFICATION Spec
CONSTANTS
  Names <- MCNames
  Types <- MCTypes
  NoType = "none"
  InitialCapacity = 2
  MaxScopes = 16
  Fns <- MCFns
  Main = "main"
  SourceTypes <- MCSourceTypes
  ReturnTypes <- MCReturnTypes
  MaxNodes = 4
  MaxParams = 1
  MaxArgs = 1
INVARIANT CallArgumentsAreDeclared
CHECK_DEADLOCK FALSE

SPECIFICATION FairSpec
CONSTANTS
  Names <- MCNames
  Types <- MCTypes
  NoType = "none"
  InitialCapacity = 2
  MaxScopes = 16
  Fns <- MCFns
  Main = "main"
  SourceTypes <- MCSourceTypes
  ReturnTypes <- MCReturnTypes
  MaxNodes = 4
  MaxParams = 1
  MaxArgs = 1
INVARIANTS
  TypeOK
  VerdictInv
  AcceptedIsClean
  RejectedForCause
  ScopeBalance
PROPERTIES
  UsesScopeTable
  Termination
CHECK_DEADLOCK FALSE

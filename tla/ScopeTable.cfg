SPECIFICATION ScopeSpec
CONSTANTS
  Names = {x, y}
  Types = {int32, vec}
  NoType = NoType
  InitialCapacity = 1
  MaxScopes = 4
INVARIANTS
  ScopeInv
  FramesFit
PROPERTY ImplementsLexicalScope
CHECK_DEADLOCK FALSE

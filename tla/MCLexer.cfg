SPECIFICATION FairSpec
CONSTANTS
  Chars <- MCChars
  Modifiers <- MCModifiers
  ListCapacity = 2
  MaxLength = 5
INVARIANTS
  TypeOK
  PositionsExact
  NoCharacterLost
  ModesMatchTokens
  MaximalMunch
PROPERTY Terminates
CHECK_DEADLOCK FALSE

SPECIFICATION Spec
CONSTANTS
  Chars <- MCChars
  Modifiers <- MCModifiers
  ListCapacity = 2
  MaxLength = 4
INVARIANT CommentsEndWithTheirLine
CHECK_DEADLOCK FALSE

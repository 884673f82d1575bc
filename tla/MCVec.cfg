SPECIFICATION Spec
CONSTANTS
  Vars = {x, y}
  Items = {p, q}
  Junk = Junk
  FirstCapacity = 2
  IndexBits = 8
  Indices <- MCIndices
  MaxLiteral = 2
  MaxSize = 2
  MaxBlocks = 3
INVARIANTS
  TypeOK
  PrivateIsSequence
  AppendStaysInside
PROPERTY PanicsOutside
CHECK_DEADLOCK FALSE
SYMMETRY MCSymmetry

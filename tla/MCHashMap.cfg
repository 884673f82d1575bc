SPECIFICATION Spec
CONSTANTS
  Keys <- MCKeys
  Vals = {u, w}
  NoVal = NoVal
  NoKey = "none"
  Hash <- MCHash
  InitialCapacity = 2
  MaxLoads = {2, 3}
  MaxCapacity = 4
INVARIANTS
  TypeOK
  NodesInPlace
  NeverTwice
  NothingSkipped
PROPERTIES
  ReserveHolds
  ImplementsDictionary
CHECK_DEADLOCK FALSE

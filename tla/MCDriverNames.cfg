SPECIFICATION Spec
CONSTANTS
  p1 = p1
  p2 = p2
  d1 = d1
  d2 = d2
  Procs <- MCProcs
  Dirs <- MCDirs
  CommandLines <- MCLikeNames
  Dotted <- MCDotted
  Sources <- MCSources
  CFiles <- MCCFiles
  Leftovers <- MCNothingThere
  Commits = 1
  VersionOf <- MCOneVersion
INVARIANTS
  CIsKept
CHECK_DEADLOCK FALSE

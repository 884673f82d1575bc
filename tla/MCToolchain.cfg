SPECIFICATION Spec
CONSTANTS
  p1 = p1
  p2 = p2
  d1 = d1
  d2 = d2
  Procs <- MCProcs
  Dirs <- MCDirs
  CommandLines <- MCCommandLines
  Dotted <- MCDotted
  Sources <- MCSources
  CFiles <- MCCFiles
  Leftovers <- MCLeftovers
  Commits = 3
  VersionOf <- MCVersionOf
INVARIANTS
  ToolchainTypeOK
  ExitStatusIsTrue
  VerifiedBeforeRun
  TempRemoved
  SkewHasCause
PROPERTIES
  UpToDateIsTrue
SYMMETRY MCSymmetry
CHECK_DEADLOCK FALSE

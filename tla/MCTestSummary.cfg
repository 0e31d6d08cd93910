SPECIFICATION TestRun
CONSTANTS
  p1 = p1
  p2 = p2
  n1 = n1
  n2 = n2
  NoTest = NoTest
  Packages <- MCPackages
  Names <- MCNames
INVARIANTS
  PassedMeansAllEnded
  StatsExact
CHECK_DEADLOCK FALSE

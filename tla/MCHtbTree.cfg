SPECIFICATION Spec
CONSTANTS
  Config <- MCConfig
  NDev = 3
  Speed <- MCSpeed
  Medium = 100
  MaxDepth = 8
  Sizes = {0, 1, 3, 6}
  Nestings = {0, 1, 3, 4}
\* The program ends.
CHECK_DEADLOCK FALSE
INVARIANTS
  TypeOK
  GroupKeepsItsRate
  RatesNest
  LineShared
  ClassesAccepted
  
  ClassmapBacked

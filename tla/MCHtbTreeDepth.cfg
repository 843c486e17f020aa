SPECIFICATION Spec
CONSTANTS
  Config <- MCConfig
  NDev = 3
  Speed <- MCSpeed
  Medium = 100
  MaxDepth = 8
  Sizes = {6}
  Nestings = {5}
\* The program ends.
CHECK_DEADLOCK FALSE
INVARIANTS
  ClassesAccepted

SPECIFICATION Spec
CONSTANTS
  Directories <- MCDirectories
  Now = 20
  GB = 4
  Top = 2
  Longest = 4
\* The program ends.
CHECK_DEADLOCK FALSE
INVARIANTS
  MonthTotals
  OnePeriod
  SumsOfHeaviest
  DiesOfNothing

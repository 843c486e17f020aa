SPECIFICATION Spec
CONSTANTS
  Inputs <- MCInputs
  NoIndex = NoIndex
  idxtable_treshold1 = 1
  idxtable_treshold2 = 4
\* The loops end.
CHECK_DEADLOCK FALSE
INVARIANTS
  TypeOK
  WellLinked
  Routed
  Loadable
  FewAtTheTop

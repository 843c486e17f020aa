SPECIFICATION Spec
CONSTANTS
  Ip = {i1, i2}
  Plans <- MCPlans
  Loads = {0, 1, 3}
  MaxTraffic = 4
  Ages = {1, 4, 6}
  Switches = {"s", "q", "2", "4"}
INVARIANTS
  CeilCoversRate
  HeavierNotFaster
  LimitsEnd

SPECIFICATION Spec
CONSTANTS
  Addr <- MCAddr
  Hosts <- MCHosts
  MarkOf <- MCMarkOf
  Ip6 = FALSE
  MainModes = {"r", "d"}
  KeepModes = {"2"}
  MaxUnits = 0
  MaxClock = 1
  MaxFaults = 0
  MaxEdits = 1
INVARIANTS
  DryRunHarmless

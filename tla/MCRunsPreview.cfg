SPECIFICATION Spec
CONSTANTS
  Addr <- MCAddr
  Hosts <- MCHosts
  MarkOf <- MCMarkOf
  Ip6 = TRUE
  MainModes = {"r"}
  KeepModes = {"p"}
  MaxUnits = 2
  MaxClock = 0
  MaxFaults = 0
  MaxEdits = 0
INVARIANTS
  PreviewHarmless

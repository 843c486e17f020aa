SPECIFICATION FairSpec
CONSTANTS
  Addr <- MCAddr
  Hosts <- MCHosts
  MarkOf <- MCMarkOf
  Ip6 = FALSE
  MainModes = {"r", "f", "9"}
  KeepModes = {"p", "s", "2"}
  MaxUnits = 2
  MaxClock = 2
  MaxFaults = 1
  MaxEdits = 1
INVARIANTS
  TypeOK
  RulesMatchTree
  FupHitsOwnClass
  MapAsOldAsCounters
PROPERTIES
  BooksSpec
  ShapesAnew

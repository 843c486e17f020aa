SPECIFICATION Spec
CONSTANTS
  Addr <- MCAddr
  NoAddr = NoAddr
  Name <- MCName
  NoName = NoName
  Key <- MCKey
  FirstKey = "fine"
  DefaultKey = "plain"
  ReserveMin <- MCReserveMin
  ReserveMax <- MCReserveMax
  AvgMtu <- MCAvgMtu
  FreeMin = 6
  FreeMax = 6
  Unregistered = "any"
  Ip6 = TRUE
  Within <- MCWithin
  FIRSTGROUPID = 10
  FIRSTIPCLASS = 12
  PpsCap = 3
  MinGroup = 8
  NoMax <- MCNoMax
  Line <- MCLine
  Counted <- MCCounted
  MaxLines = 4
\* A hosts file ends.
CHECK_DEADLOCK FALSE
INVARIANT ClassIsListed

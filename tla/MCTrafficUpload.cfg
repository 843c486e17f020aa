SPECIFICATION Spec
CONSTANTS
  Addr <- MCAddr
  NoAddr = NoAddr
  V6 <- MCV6
  Unregistered = "0.0.0.0/0"
  Name <- MCName
  NoName = NoName
  NoHost = "(unregistered)"
  Code <- MCCode
  NoCode = NoCode
  EmptyCode = ""
  Listings <- MCListings
  HostsFiles <- MCHostsFiles
  Config <- MCConfig
  MB = 4
  Top = 2
  Longest = 3
\* The program ends.
CHECK_DEADLOCK FALSE
INVARIANT UploadNotIncluded

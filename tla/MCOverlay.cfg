SPECIFICATION MCSpec
CONSTANTS
  Prefixes = {1, 2}
  VTEPs = {1, 2}
  Index = {2}
  Gw = 9
  Underlay = {1}
  Hosts = {1, 9}
  MaxUpdates = 3
  MaxQueue = 1
  MaxUnderlay = 2
  MaxNetlink = 1
  Peers = {1, 2}
  SeqNums = 4
  MaxEvents = 5
  MaxBad = 1
  Before = {"vrf", "vxlan", "bridge", "provisionIP"}
  MaxAttempts = 2
  MaxErrors = 2
INVARIANTS
  OverlayIsReal
  StackLeavesNoTrace
PROPERTIES
  RoutesFollow
CHECK_DEADLOCK FALSE

SPECIFICATION MCSpec
CONSTANTS
  NetInputs <- MCNetInputs
  DeviceOrder <- MCDeviceOrder
  FrrLines <- MCFrrLines
  FrrStarts <- MCFrrStarts
  MaxFrrLines = 3
  NetJobs <- MCNetJobs
  MaxNetFaults = 3
  MaxSetups = 3
  MaxRecoveries = 2
  MaxSenders = 2
  MaxLinkFlips = 1
  MaxLosses = 1
INVARIANTS
  MergeIsCoherent
  SessionsAsDocumented
  SameNodeAsFrr
  NativeLikeFrrConf
PROPERTIES
  SetupLeavesNothing
  LldpTellsTheLink
CHECK_DEADLOCK FALSE

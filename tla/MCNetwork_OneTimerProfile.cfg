SPECIFICATION MCSpec
CONSTANTS
  NetInputs <- MCNetInputs
  DeviceOrder <- MCDeviceOrder
  FrrLines <- MCFrrLines
  FrrStarts <- MCFrrStarts
  MaxFrrLines = 3
  NetJobs <- MCNetJobs
  MaxNetFaults = 2
  MaxSetups = 3
  MaxRecoveries = 2
  MaxSenders = 2
  MaxLinkFlips = 1
  MaxLosses = 1
INVARIANT OneTimerProfile
CHECK_DEADLOCK FALSE

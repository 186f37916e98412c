SPECIFICATION MCSpec
CONSTANTS
  TargetJobs <- MCTargetJobs
  MaxTargetFaults = 2
  MaxTargetRuns = 3
  EspFiles = {"grub", "shim"}
  MaxChanges = 2
  MaxEspFaults = 2
  SriovJobs <- MCSriovJobs
  MaxValue = 2
  MaxSriovFaults = 2
  MaxBoots = 3
  MaxForeign = 1
  LayoutJobs <- MCLayoutJobs
  DiskMB = 6
  NetworkJobs <- MCNetworkJobs
  OldUnits <- MCOldUnits
  LeaseTime = 4
  MaxFlips = 2
  MaxLeaseFaults = 1
  MaxBinds = 2
INVARIANTS
  TargetIsWhole
  PeerStaysBootable
  FirmwareIsProven
  LayoutIsTrue
  TargetNetworkWorks
  LeasesAreKept
PROPERTIES
  EntryAfterCopy
  UplinkUndisturbed
CHECK_DEADLOCK FALSE

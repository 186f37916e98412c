SPECIFICATION Spec
CONSTANTS
    Order <- MCOrder
    Pair <- MCPair
    Raids <- MCRaids
    Jobs <- MCJobs
    Labels <- MCLabels
    Namespaces = "c"
    Holds = {"c", "none"}
    MaxRuns = 2
    MaxFaults = 2
    MaxTries = 1
INVARIANTS
    InstallIsWhole WipeIsComplete
PROPERTIES
    OtherDisksUntouched
CHECK_DEADLOCK FALSE

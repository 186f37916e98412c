SPECIFICATION Spec
CONSTANTS
    WaitModes = {TRUE, FALSE}
    KeepModes = {TRUE, FALSE}
INVARIANT LeavesCleanly
PROPERTY EveryRunEnds
CHECK_DEADLOCK FALSE

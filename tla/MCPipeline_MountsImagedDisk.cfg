SPECIFICATION Spec
CONSTANTS
    Disks = {1, 2}
    Nics = {1, 2}
    Configs <- MCDetected
    LateDisks = {"detected"}
    FreshStarts = FALSE
    MaxAttempts = 2
    StepRetries = 0
INVARIANT MountsImagedDisk
CHECK_DEADLOCK FALSE

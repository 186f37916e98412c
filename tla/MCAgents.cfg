SPECIFICATION MCSpec
CONSTANTS
    WatchedSteps = {"wipe-disks", "set-hostname"}
    Timeout = 6
    PetMax = 1
    IdleCap = 7
    Budgets <- MCBudgets
    MaxLines = 2
    MaxBytes = 2
    LineLens = {1, 3}
    MaxPushes = 3
    Lifetimes = {5, 10}
    Margins = {0, 8}
    Retries = 3
    BackoffBase = 1
    BackoffMax = 2
    ReqMax = 2
    Failures = {"status", "timeout"}
    None = None
    MaxJobs = 3
    MaxTries = 2
    MaxFaults = 1
INVARIANTS
    StoppedStaysHarmless
    NoLineLost
    DeliveryIsTrue
    ResetIsDeserved
    InstallsAreWhole
PROPERTIES
    StalledStepIsReset
    CloseEndsSender
    TokenIsHandled
    UpdateTouchesOnlyTarget
    ImplementsSlotSpec
CHECK_DEADLOCK FALSE

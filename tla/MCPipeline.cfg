SPECIFICATION Spec
CONSTANTS
    Disks = {1, 2}
    Nics = {1, 2}
    Configs <- MCConfigs
    LateDisks = {"mirror"}
    FreshStarts = TRUE
    MaxAttempts = 2
    StepRetries = 1
INVARIANT AttemptsAreSound
PROPERTIES ResumeKeepsContent
CHECK_DEADLOCK FALSE

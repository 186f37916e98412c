SPECIFICATION Spec
CONSTANTS
    MaxCommands = 2
    MaxRetries = 1
    MaxStarts = 2
    Dirs = {"machine-files"}
    Payloads = {"none", "archive"}
    Configs <- MCConfigs
    Cancels = TRUE
INVARIANT CommandsAreHonest
PROPERTY CommandsRunInTurn
CHECK_DEADLOCK FALSE

SPECIFICATION FairSpec
CONSTANTS
    Replicas = {r1, r2}
    NumFiles = 3
    StartPort = 1
    EndPort = 2
    MaxProcesses = 4
    MaxCommands = 1
    MaxCrashes = 1
    First = r1
    None = None
    RestartOutlastsSender = TRUE
INVARIANTS TypeOK BindsItsPort FindsFreePort RebuiltIsCopy
PROPERTY PollingEnds
CHECK_DEADLOCK FALSE

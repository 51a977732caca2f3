SPECIFICATION Spec
CONSTANTS
    Blocks = {b1}
    Snapshots = {s1, s2, s3}
    None = None
    Hole = Hole
    MaxChainLength = 6
    Retention = 1
    MaxHead = 4
    MaxWrites = 2
    MaxFaults = 1
    ReuseNames = FALSE
    RevertsListed = TRUE
INVARIANTS TypeOK Recoverable MemoryIsDisk CleanerIsNotRefused
PROPERTY KeepsSnapshots
CHECK_DEADLOCK FALSE

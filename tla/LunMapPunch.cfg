SPECIFICATION Spec
CONSTANTS
    NumBlocks = 2
    MaxFiles = 3
    MaxWrites = 3
    HoleCapacity = 2
    Unmapped = Unmapped
    Hole = Hole
    None = None
    MixedRuns = TRUE
    PartialInWO = FALSE
    FoldRacesHoles = FALSE
INVARIANT SnapshotsIntact
CHECK_DEADLOCK FALSE

SPECIFICATION Spec
CONSTANTS
    NumBlocks = 2
    MaxFiles = 4
    MaxWrites = 2
    HoleCapacity = 2
    Unmapped = Unmapped
    Hole = Hole
    None = None
    MixedRuns = FALSE
    PartialInWO = FALSE
    FoldRacesHoles = FALSE
INVARIANTS TypeOK ReadsCurrent SnapshotsIntact NoHoleInClosedFile
PROPERTY DrainEnds
CHECK_DEADLOCK FALSE

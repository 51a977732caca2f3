SPECIFICATION FairSpec
CONSTANTS
    IOs = {w1}
    Pings = {p1, p2}
    None = None
    CloseCapacity = 5
    MaxStops = 1
INVARIANTS TypeOK OwnAnswer FailStop
PROPERTY ConnectionEnds
CHECK_DEADLOCK FALSE

CONSTANTS
  Replicas = {r1, r2}
  RF = 2
  ChecksLength = TRUE
  MaxWrites = 1
  MaxSnaps = 3
  MaxFaults = 2
SPECIFICATION SpecHealthy
SYMMETRY Symmetry
INVARIANTS TypeOK RWAgreeOnCounted RWHoldAcked CheckpointIsCommon AtMostOneWO DeadAreSignalled ReadOnlyIsCurrent
CHECK_DEADLOCK FALSE

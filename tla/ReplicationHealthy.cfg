CONSTANTS
  Replicas = {r1, r2, r3}
  RF = 3
  ChecksLength = TRUE
  MaxWrites = 2
  MaxSnaps = 3
  MaxFaults = 1
SPECIFICATION SpecHealthy
SYMMETRY Symmetry
INVARIANTS RWAgreeOnCounted RWHoldAcked CheckpointIsCommon
CHECK_DEADLOCK FALSE

CONSTANTS
  Replicas = {r1, r2}
  RF = 2
  ChecksLength = TRUE
  MaxWrites = 5
  MaxSnaps = 5
  MaxFaults = 1
  MaxSize = 2
  MaxRequests = 1
  Retention = 3
  AllReached = FALSE
SPECIFICATION SpecAllServing
SYMMETRY Symmetry
INVARIANT RWAgreeOnCounted
CHECK_DEADLOCK FALSE

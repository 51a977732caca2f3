CONSTANTS
  Replicas = {r1, r2}
  RF = 2
  ChecksLength = TRUE
  MaxWrites = 5
  MaxSnaps = 5
  MaxFaults = 1
  MaxSize = 2
  MaxRequests = 1
  Retention = 1
  AllReached = TRUE
SPECIFICATION SpecServing
SYMMETRY Symmetry
INVARIANTS MgmtTypeOK UserSnapshotsKept CheckpointsStay SizesCover RWAgreeOnCounted
CHECK_DEADLOCK FALSE

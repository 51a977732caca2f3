CONSTANTS
  Replicas = {r1, r2, r3}
  Absent = r3
  None = None
  RF = 3
  ChecksLength = TRUE
  MaxWrites = 1
  MaxSnaps = 2
  MaxFaults = 2
SPECIFICATION SpecRunning
SYMMETRY SymmetryPresent
PROPERTY FirstLeaderHoldsAcked
CHECK_DEADLOCK FALSE

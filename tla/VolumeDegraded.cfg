CONSTANTS
  Replicas = {r1, r2, r3}
  Absent = r3
  None = None
  RF = 3
  ChecksLength = TRUE
  MaxWrites = 1
  MaxSnaps = 3
  MaxFaults = 1
SPECIFICATION SpecRunning
SYMMETRY SymmetryPresent
PROPERTY LeaderHoldsAcked
CHECK_DEADLOCK FALSE

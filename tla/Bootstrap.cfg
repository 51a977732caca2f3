CONSTANTS
  Replicas = {r1, r2, r3}
  RF = 3
  None = None
  MaxRevision = 2
  MaxFaults = 2
SPECIFICATION FairSpec
INVARIANT TypeOK
PROPERTIES LeaderIsLatestAtFirst VolumeStarts EveryReplicaSettles
CHECK_DEADLOCK FALSE

--------------------------- MODULE MCReplicaDisk ---------------------------
(* One replica directory: one block and three snapshot names, so that a      *)
(* chain of base, candidate, checkpoint and head exists.                     *)
EXTENDS ReplicaDisk
=============================================================================

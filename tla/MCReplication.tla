--------------------------- MODULE MCReplication ---------------------------
(* Instances of Replication for TLC. *)
EXTENDS Replication, TLC

Symmetry == Permutations(Replicas)

\* The volume once RF replicas have been started, added and rebuilt, each of
\* the RF - 1 additions having left a snapshot, and nothing has failed.
InitHealthy ==
  LET joined == 1..(RF - 1)
  IN  /\ Cardinality(Replicas) = RF
      /\ mode = [r \in Replicas |-> "RW"]
      /\ readOnly = FALSE
      /\ rwCount = RF
      /\ checkpoint = RF - 1
      /\ frontend = TRUE
      /\ pending = [r \in Replicas |-> 0]
      /\ signalled = [r \in Replicas |-> FALSE]
      /\ rev = [r \in Replicas |-> 1]
      /\ chain = [r \in Replicas |-> joined]
      /\ data = [r \in Replicas |-> [n \in 0..MaxSnaps |-> {}]]
      /\ repCkpt = [r \in Replicas |-> RF - 1]
      /\ rebuilding = [r \in Replicas |-> FALSE]
      /\ opened = [r \in Replicas |-> TRUE]
      /\ conn = [r \in Replicas |-> TRUE]
      /\ repMode = [r \in Replicas |-> "RW"]
      /\ task = [r \in Replicas |-> "running"]
      /\ src = [r \in Replicas |-> r]
      /\ todo = [r \in Replicas |-> {}]
      /\ acked = {}
      /\ uncounted = {}
      /\ lastWrite = 0
      /\ lastSnap = RF - 1
      /\ faults = 0

SpecHealthy == InitHealthy /\ [][Next]_vars
=============================================================================

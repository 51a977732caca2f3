---------------------------- MODULE MCManagement ----------------------------
(* Instances of Management for TLC. *)
EXTENDS Management, TLC

Symmetry == Permutations(Replicas)

\* A volume with some history: the user took snapshot 3, the others were left by
\* additions of replicas, the latest being everybody's checkpoint, and there was
\* a write before each of them and one since.  The replicas that are not present
\* failed that last write, were removed and have restarted.
Serving(present) ==
  /\ Cardinality(Replicas) = RF
  /\ mode = [r \in Replicas |-> IF r \in present THEN "RW" ELSE "NONE"]
  /\ readOnly = ReadOnlyOf(mode)
  /\ rwCount = Cardinality(present)
  /\ checkpoint = IF present = Replicas THEN 4 ELSE 0
  /\ frontend = TRUE
  /\ pending = [r \in Replicas |-> 0]
  /\ signalled = [r \in Replicas |-> r \notin present]
  /\ rev = [r \in Replicas |-> IF r \in present THEN 6 ELSE 5]
  /\ chain = [r \in Replicas |-> 1..4]
  /\ data = [r \in Replicas |-> [n \in 0..MaxSnaps |->
               IF n # 0 THEN (1..4) \cap {n} ELSE IF r \in present THEN {5} ELSE {}]]
  /\ repCkpt = [r \in Replicas |-> 4]
  /\ rebuilding = [r \in Replicas |-> FALSE]
  /\ opened = [r \in Replicas |-> r \in present]
  /\ conn = [r \in Replicas |-> r \in present]
  /\ repMode = [r \in Replicas |-> IF r \in present THEN "RW" ELSE "INIT"]
  /\ task = [r \in Replicas |-> IF r \in present THEN "running" ELSE "idle"]
  /\ src = [r \in Replicas |-> r]
  /\ todo = [r \in Replicas |-> {}]
  /\ acked = IF present = Replicas THEN 1..5 ELSE 1..4
  /\ uncounted = {}
  /\ lastWrite = 5
  /\ lastSnap = 4
  /\ faults = 0
  /\ size = 1
  /\ rsize = [r \in Replicas |-> 1]
  /\ users = {3}
  /\ marked = [r \in Replicas |-> {}]
  /\ victim = [r \in Replicas |-> 0]
  /\ revert = NoRevert
  /\ requests = 0
  /\ kept = {[name |-> 3, holds |-> 1..3]}

\* All replicas are present, or all but one.
InitServing == \E present \in {Replicas} \cup {Replicas \ {r} : r \in Replicas} : Serving(present)

SpecServing == InitServing /\ [][MgmtNext]_allVars
SpecAllServing == Serving(Replicas) /\ [][MgmtNext]_allVars
=============================================================================

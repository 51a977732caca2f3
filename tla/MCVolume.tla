------------------------------ MODULE MCVolume ------------------------------
(* Instances of Volume for TLC. *)
EXTENDS Volume, TLC

CONSTANT Absent  \* the replica that is missing, or None

SymmetryPresent == Permutations(Replicas \ {Absent})

\* A volume of RF replicas that have all been RW, of which Absent has since
\* failed, was removed, and has restarted: each of the RF - 1 additions left a
\* snapshot, the last one being everybody's checkpoint.
InitRunning ==
  LET present == Replicas \ {Absent}
      joined  == 1..(RF - 1)
  IN  /\ Cardinality(Replicas) = RF
      /\ mode = [r \in Replicas |-> IF r = Absent THEN "NONE" ELSE "RW"]
      /\ readOnly = ~(Cardinality(present) >= Majority)
      /\ rwCount = Cardinality(present)
      /\ checkpoint = IF Absent = None THEN RF - 1 ELSE 0
      /\ frontend = TRUE
      /\ pending = [r \in Replicas |-> 0]
      /\ signalled = [r \in Replicas |-> r = Absent]
      /\ rev = [r \in Replicas |-> 1]
      /\ chain = [r \in Replicas |-> joined]
      /\ data = [r \in Replicas |-> [n \in 0..MaxSnaps |-> {}]]
      /\ repCkpt = [r \in Replicas |-> RF - 1]
      /\ rebuilding = [r \in Replicas |-> FALSE]
      /\ opened = [r \in Replicas |-> r # Absent]
      /\ conn = [r \in Replicas |-> r # Absent]
      /\ repMode = [r \in Replicas |-> IF r = Absent THEN "INIT" ELSE "RW"]
      /\ task = [r \in Replicas |-> IF r = Absent THEN "idle" ELSE "running"]
      /\ src = [r \in Replicas |-> r]
      /\ todo = [r \in Replicas |-> {}]
      /\ acked = {}
      /\ uncounted = {}
      /\ lastWrite = 0
      /\ lastSnap = RF - 1
      /\ faults = 0
      /\ regRev = [r \in Replicas |-> IF r = Absent THEN -1 ELSE 1]
      /\ maxRev \in present
      /\ startSignalled = TRUE
      /\ inbox = [r \in Replicas |-> None]
      /\ carried = FALSE

SpecRunning == InitRunning /\ [][VolNext]_volVars
=============================================================================

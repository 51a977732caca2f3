------------------------- MODULE ReplicationProofs -------------------------
(***************************************************************************)
(* Proofs about modules Replication and Management, for any number of      *)
(* replicas, any replication factor and any bounds: the data path and the  *)
(* list of replicas; then what stays true of snapshots, reverts and        *)
(* resizes: that no replica's checkpoint is ever deleted anywhere, so that *)
(* a replica can always be rebuilt, and that no replica is smaller than    *)
(* the volume.                                                             *)
(***************************************************************************)
EXTENDS Management, FiniteSetTheorems, TLAPS

USE SMTT(20), ZenonT(20), SMTT(30)  \* the provers, in the order they are tried, and their time limits

USE ReplicationAssumption DEF ReplicationAssumption

-----------------------------------------------------------------------------
(* What the helpers return *)

\* A set of replicas has a size.
LEMMA CardinalityIsNat ==
  ASSUME NEW m, NEW k
  PROVE  /\ IsFiniteSet(InMode(m, k))
         /\ Cardinality(InMode(m, k)) \in Nat
<1>1. InMode(m, k) \subseteq Replicas  BY Zenon DEF InMode
<1> QED  BY <1>1, FS_Subset, FS_CardinalityType, Zenon

\* GetLatestSnapshot returns a snapshot name, or 0 (no checkpoint).
LEMMA NewCheckpointType ==
  ASSUME NEW m, NEW ch
  PROVE  NewCheckpoint(m, ch) \in 0..MaxSnaps
<1> DEFINE latest == {s \in Names : \A r \in Listed(m) :
                        opened[r] /\ s \in ch[r] /\ \A n \in ch[r] : n <= s}
           chosen == CHOOSE s \in latest : TRUE
<1>1. GetLatestSnapshot(m, ch) \in 0..MaxSnaps
  <2>1. latest # {} => chosen \in Names
    BY Zenon
  <2>2. GetLatestSnapshot(m, ch) = 0 \/ (latest # {} /\ GetLatestSnapshot(m, ch) = chosen)
    BY Zenon DEF GetLatestSnapshot
  <2> HIDE DEF latest, chosen
  <2>3. 0 \in 0..MaxSnaps /\ Names \subseteq 0..MaxSnaps
    BY DEF Names
  <2> QED  BY <2>1, <2>2, <2>3, Zenon
<1> QED  BY <1>1 DEF NewCheckpoint

\* UpdateVolStatus assigns a Boolean and a count.
LEMMA UpdateVolStatusType ==
  ASSUME NEW m, UpdateVolStatus(m)
  PROVE  readOnly' \in BOOLEAN /\ rwCount' \in Nat
BY CardinalityIsNat, Zenon DEF UpdateVolStatus, ReadOnlyOf

\* UpdateCheckpoint assigns a snapshot name or 0.
LEMMA UpdateCheckpointType ==
  ASSUME NEW m, NEW ch, NEW S, UpdateCheckpoint(m, ch, S)
  PROVE  checkpoint' \in 0..MaxSnaps
BY NewCheckpointType DEF UpdateCheckpoint

\* Storing a checkpoint keeps the type of the stored checkpoints.
LEMMA StoreCheckpointType ==
  ASSUME NEW m, NEW ch, NEW S, NEW ck \in [Replicas -> 0..MaxSnaps]
  PROVE  StoreCheckpoint(m, ch, S, ck) \in [Replicas -> 0..MaxSnaps]
<1> DEFINE nc == NewCheckpoint(m, ch)
<1>1. nc \in 0..MaxSnaps  BY NewCheckpointType, Zenon
<1> HIDE DEF nc
<1>2. StoreCheckpoint(m, ch, S, ck) = [r \in Replicas |-> IF r \in S THEN nc ELSE ck[r]]
  BY Zenon DEF StoreCheckpoint, nc
<1> QED  BY <1>1, <1>2, Zenon

\* Without drops replicas from a list.
LEMMA WithoutType ==
  ASSUME NEW m \in [Replicas -> Modes], NEW F
  PROVE  Without(m, F) \in [Replicas -> Modes]
BY Zenon DEF Without, Modes

\* RemoveReplicaNoLock leaves the controller's state, the stored checkpoints and
\* the connections well typed.
LEMMA RemoveReplicasType ==
  ASSUME TypeOK, NEW m \in [Replicas -> Modes], NEW F, NEW S, RemoveReplicas(m, F, S)
  PROVE  /\ CtrlTypeOK'
         /\ repCkpt' \in [Replicas -> 0..MaxSnaps]
         /\ conn' \in [Replicas -> BOOLEAN]
<1>1. mode' \in [Replicas -> Modes] /\ frontend' \in BOOLEAN
  BY Zenon DEF RemoveReplicas, TypeOK, CtrlTypeOK
<1>2. pending' \in [Replicas -> Nat] /\ signalled' \in [Replicas -> BOOLEAN]
  BY DEF RemoveReplicas, StopMonitoring, TypeOK, CtrlTypeOK
<1>3. readOnly' \in BOOLEAN /\ rwCount' \in Nat
  BY UpdateVolStatusType, Zenon DEF RemoveReplicas
<1>4. checkpoint' \in 0..MaxSnaps
  BY UpdateCheckpointType, Zenon DEF RemoveReplicas
<1>5. repCkpt' \in [Replicas -> 0..MaxSnaps]
  BY StoreCheckpointType, Zenon DEF RemoveReplicas, TypeOK, DiskTypeOK
<1>6. conn' \in [Replicas -> BOOLEAN]
  BY Zenon DEF RemoveReplicas, TypeOK, ProcTypeOK
<1> QED  BY <1>1, <1>2, <1>3, <1>4, <1>5, <1>6, Zenon DEF CtrlTypeOK

\* Taking snapshot s keeps disks and chains well typed.
LEMMA SnapshotType ==
  ASSUME TypeOK, NEW T, NEW s \in Names
  PROVE  /\ SnapshotData(T, s) \in [Replicas -> [0..MaxSnaps -> SUBSET (1..MaxWrites)]]
         /\ SnapshotChain(T, s) \in [Replicas -> SUBSET Names]
<1>1. s \in 0..MaxSnaps /\ 0 \in 0..MaxSnaps  BY DEF Names
<1>2. ASSUME NEW r \in Replicas
      PROVE  [data[r] EXCEPT ![s] = data[r][0], ![0] = {}] \in
               [0..MaxSnaps -> SUBSET (1..MaxWrites)]
  <2>1. data[r] \in [0..MaxSnaps -> SUBSET (1..MaxWrites)]
    BY Zenon DEF TypeOK, DiskTypeOK
  <2>2. data[r][0] \in SUBSET (1..MaxWrites)
    BY <1>1, <2>1, Zenon
  <2> QED  BY <1>1, <2>1, <2>2, Zenon
<1>3. SnapshotData(T, s) \in [Replicas -> [0..MaxSnaps -> SUBSET (1..MaxWrites)]]
  BY <1>2, Zenon DEF SnapshotData, TypeOK, DiskTypeOK
<1>4. SnapshotChain(T, s) \in [Replicas -> SUBSET Names]
  BY Zenon DEF SnapshotChain, TypeOK, DiskTypeOK
<1> QED  BY <1>3, <1>4, Zenon

\* A step that may count a fault keeps the bound.
LEMMA DisturbType ==
  ASSUME TypeOK, NEW b, Disturb(b)
  PROVE  faults' \in 0..MaxFaults
BY DEF Disturb, TypeOK, HistTypeOK

\* The next snapshot has a name.
LEMMA NextSnapType ==
  ASSUME TypeOK, lastSnap < MaxSnaps
  PROVE  lastSnap + 1 \in Names /\ lastSnap + 1 \in 0..MaxSnaps
BY DEF TypeOK, HistTypeOK, Names

-----------------------------------------------------------------------------
(* Type correctness *)

\* A write preserves the types.
LEMMA WriteAtType == TypeOK /\ WriteAt => TypeOK'
<1> SUFFICES ASSUME TypeOK, WriteAt PROVE TypeOK'
  BY Zenon
<1>1. PICK dat, cnt, ok : WriteTo(dat, cnt, ok)
  BY Zenon DEF WriteAt
<1> DEFINE failed == Writers(mode) \ ok
           m == Without(mode, failed)
           w == lastWrite + 1
<1>2. m \in [Replicas -> Modes]
  BY WithoutType, Zenon DEF TypeOK, CtrlTypeOK
<1>3. w \in 1..MaxWrites
  BY DEF WriteAt, TypeOK, HistTypeOK
<1>4. /\ CtrlTypeOK'
      /\ repCkpt' \in [Replicas -> 0..MaxSnaps]
      /\ conn' \in [Replicas -> BOOLEAN]
      /\ faults' \in 0..MaxFaults
  <2>1. CASE failed = {}
    <3>1. UNCHANGED <<ctrlVars, repCkpt, conn, faults>>
      BY <1>1, <2>1, Zenon DEF WriteTo
    <3> QED
      BY <3>1, Zenon DEF TypeOK, CtrlTypeOK, DiskTypeOK, ProcTypeOK, HistTypeOK, ctrlVars
  <2>2. CASE failed # {}
    <3>1. PICK S : RemoveReplicas(m, failed, S) /\ Disturb(TRUE)
      BY <1>1, <2>2, Zenon DEF WriteTo
    <3> HIDE DEF m, failed
    <3> QED  BY <1>2, <3>1, RemoveReplicasType, DisturbType, Zenon
  <2> QED  BY <2>1, <2>2, Zenon
<1>5. DiskTypeOK'
  <2>1. ASSUME NEW r \in Replicas
        PROVE  [data[r] EXCEPT ![0] = @ \cup {w}] \in [0..MaxSnaps -> SUBSET (1..MaxWrites)]
    BY <1>3 DEF TypeOK, DiskTypeOK
  <2>2. data' \in [Replicas -> [0..MaxSnaps -> SUBSET (1..MaxWrites)]]
    BY <1>1, <2>1, Zenon DEF WriteTo, TypeOK, DiskTypeOK
  <2>3. rev' \in [Replicas -> Nat]
    BY <1>1 DEF WriteTo, TypeOK, DiskTypeOK
  <2> QED  BY <1>4, <2>2, <2>3, Zenon DEF WriteAt, TypeOK, DiskTypeOK
<1>6. ProcTypeOK'
  BY <1>4, Zenon DEF WriteAt, TypeOK, ProcTypeOK
<1>7. HistTypeOK'
  <2>1. lastWrite' \in 0..MaxWrites
    BY <1>1, <1>3 DEF WriteTo
  <2>2. acked' \in {acked, acked \cup {w}} /\ uncounted' \in {uncounted, uncounted \cup {w}}
    BY <1>1, Zenon DEF WriteTo
  <2>3. lastSnap' = lastSnap
    BY Zenon DEF WriteAt
  <2> HIDE DEF w
  <2> QED  BY <1>3, <1>4, <2>1, <2>2, <2>3, Zenon DEF TypeOK, HistTypeOK
<1> QED  BY <1>4, <1>5, <1>6, <1>7, Zenon DEF TypeOK

\* A read or a flush that fails somewhere preserves the types.
LEMMA FailedIOType == ASSUME NEW F PROVE TypeOK /\ FailedIO(F) => TypeOK'
<1> SUFFICES ASSUME TypeOK, FailedIO(F) PROVE TypeOK'
  BY Zenon
<1> DEFINE m == Without(mode, F)
<1>1. m \in [Replicas -> Modes]
  BY WithoutType, Zenon DEF TypeOK, CtrlTypeOK
<1>2. PICK S : RemoveReplicas(m, F, S)
  BY Zenon DEF FailedIO
<1> HIDE DEF m
<1>3. faults' \in 0..MaxFaults
  BY DisturbType, Zenon DEF FailedIO
<1>4. /\ CtrlTypeOK'
      /\ repCkpt' \in [Replicas -> 0..MaxSnaps]
      /\ conn' \in [Replicas -> BOOLEAN]
  BY <1>1, <1>2, RemoveReplicasType, Zenon
<1> QED
  BY <1>3, <1>4, Zenon DEF FailedIO, TypeOK, DiskTypeOK, ProcTypeOK, HistTypeOK

\* Start, and what it does when it fails or finds replicas attached, preserves
\* the types.
LEMMA StartType ==
  ASSUME NEW r \in Replicas
  PROVE  TypeOK /\ (Start(r) \/ StartIgnored(r) \/ StartFails(r)) => TypeOK'
<1>1. ASSUME TypeOK, Start(r) PROVE TypeOK'
  <2> DEFINE m == [mode EXCEPT ![r] = "RW"]
  <2>1. m \in [Replicas -> Modes]
    BY <1>1, Zenon DEF TypeOK, CtrlTypeOK, Modes
  <2>2. /\ readOnly' \in BOOLEAN /\ rwCount' \in Nat
        /\ checkpoint' \in 0..MaxSnaps
        /\ repCkpt' \in [Replicas -> 0..MaxSnaps]
        /\ faults' \in 0..MaxFaults
        /\ task' \in [Replicas -> Tasks]
    <3>1. CASE /\ SetTask(r, "running")
               /\ UpdateVolStatus(m)
               /\ \E S \in SetCheckpoint(m, chain) :
                    /\ UpdateCheckpoint(m, chain, S)
                    /\ repCkpt' = StoreCheckpoint(m, chain, S, repCkpt)
                    /\ Disturb(SetCheckpointFails(m, chain, S))
      <4> HIDE DEF m
      <4>1. task' \in [Replicas -> Tasks]
        BY <1>1, <3>1, Zenon DEF SetTask, TypeOK, ProcTypeOK, Tasks
      <4> QED
        BY <1>1, <3>1, <4>1, UpdateVolStatusType, UpdateCheckpointType,
           StoreCheckpointType, DisturbType DEF TypeOK, DiskTypeOK
    <3>2. CASE /\ SetTask(r, "failed")
               /\ Disturb(TRUE)
               /\ UNCHANGED <<readOnly, rwCount, checkpoint, repCkpt>>
      BY <1>1, <3>2, DisturbType, Zenon
      DEF SetTask, TypeOK, CtrlTypeOK, DiskTypeOK, ProcTypeOK, Tasks
    <3> QED  BY <1>1, <3>1, <3>2, Zenon DEF Start
  <2>3. acked' \in SUBSET (1..MaxWrites)
    BY <1>1, Zenon DEF Start, TypeOK, HistTypeOK
  <2>4. /\ mode' \in [Replicas -> Modes]
        /\ frontend' \in BOOLEAN
        /\ signalled' \in [Replicas -> BOOLEAN]
        /\ opened' \in [Replicas -> BOOLEAN]
        /\ conn' \in [Replicas -> BOOLEAN]
        /\ repMode' \in [Replicas -> {"INIT", "WO", "RW"}]
    BY <1>1, <2>1, Zenon DEF Start, TypeOK, CtrlTypeOK, ProcTypeOK
  <2> QED
    BY <1>1, <2>2, <2>3, <2>4, Zenon
    DEF Start, TypeOK, CtrlTypeOK, DiskTypeOK, ProcTypeOK, HistTypeOK
<1>2. ASSUME TypeOK, StartIgnored(r) PROVE TypeOK'
  BY <1>2, Zenon
  DEF StartIgnored, SetTask, TypeOK, CtrlTypeOK, DiskTypeOK, ProcTypeOK, HistTypeOK,
      Tasks, ctrlVars, diskVars, histVars
<1>3. ASSUME TypeOK, StartFails(r) PROVE TypeOK'
  <2>1. faults' \in 0..MaxFaults
    BY <1>3, DisturbType, Zenon DEF StartFails
  <2>2. task' \in [Replicas -> Tasks] /\ opened' \in [Replicas -> BOOLEAN]
    BY <1>3, Zenon DEF StartFails, SetTask, TypeOK, ProcTypeOK, Tasks
  <2>3. CtrlTypeOK'
    <3>1. CASE UNCHANGED <<readOnly, rwCount, checkpoint, pending, signalled>>
      BY <1>3, <3>1, Zenon DEF StartFails, TypeOK, CtrlTypeOK
    <3>2. CASE /\ pending' = [pending EXCEPT ![r] = @ + 1]
               /\ signalled' = [signalled EXCEPT ![r] = TRUE]
               /\ UpdateVolStatus(mode)
               /\ UpdateCheckpoint(mode, chain, {})
      <4>1. readOnly' \in BOOLEAN /\ rwCount' \in Nat /\ checkpoint' \in 0..MaxSnaps
        BY <3>2, UpdateVolStatusType, UpdateCheckpointType, Zenon
      <4> QED  BY <1>3, <3>2, <4>1 DEF StartFails, TypeOK, CtrlTypeOK
    <3> QED  BY <1>3, <3>1, <3>2, Zenon DEF StartFails
  <2> QED
    BY <1>3, <2>1, <2>2, <2>3, Zenon
    DEF StartFails, TypeOK, DiskTypeOK, ProcTypeOK, HistTypeOK, diskVars
<1> QED  BY <1>1, <1>2, <1>3, Zenon

\* addReplicaNoLock preserves the types.
LEMMA AddReplicaNoLockType ==
  ASSUME NEW r \in Replicas
  PROVE  TypeOK /\ AddReplicaNoLock(r) => TypeOK'
<1> SUFFICES ASSUME TypeOK, AddReplicaNoLock(r) PROVE TypeOK'
  BY Zenon
<1> DEFINE takenOver == TakenOver
           m0 == Without(mode, takenOver)
           m1 == [m0 EXCEPT ![r] = "WO"]
           s  == lastSnap + 1
           others == Writers(m0)
           reachable == {q \in others : opened[q]}
<1>1. m0 \in [Replicas -> Modes] /\ m1 \in [Replicas -> Modes]
  <2>1. m0 \in [Replicas -> Modes]
    BY WithoutType, Zenon DEF TypeOK, CtrlTypeOK
  <2> HIDE DEF m0
  <2> QED  BY <2>1, Zenon DEF Modes
<1>2. s \in Names /\ s \in 0..MaxSnaps
  BY NextSnapType, Zenon DEF AddReplicaNoLock
<1>3. \E T : data' = SnapshotData(T, s) /\ chain' = SnapshotChain(T, s)
  BY Zenon DEF AddReplicaNoLock
<1>4. /\ data' \in [Replicas -> [0..MaxSnaps -> SUBSET (1..MaxWrites)]]
      /\ chain' \in [Replicas -> SUBSET Names]
  BY <1>2, <1>3, SnapshotType
<1>5. /\ mode' \in {m0, m1}
      /\ task' \in [Replicas -> Tasks]
      /\ repMode' \in [Replicas -> {"INIT", "WO", "RW"}]
  BY Zenon DEF AddReplicaNoLock, SetTask, TypeOK, ProcTypeOK, Tasks
<1>6. /\ faults' \in 0..MaxFaults
      /\ \E S : repCkpt' = StoreCheckpoint(m0, chain, S, repCkpt)
      /\ \/ UNCHANGED <<readOnly, rwCount, checkpoint>>
         \/ \E m, S : UpdateVolStatus(m) /\ UpdateCheckpoint(m, chain, S)
  <2>1. PICK S : /\ repCkpt' = StoreCheckpoint(m0, chain, S, repCkpt)
                 /\ \/ /\ UpdateVolStatus(m1)
                       /\ UpdateCheckpoint(m1, chain, {})
                       /\ Disturb(takenOver # {} /\ SetCheckpointFails(m0, chain, S))
                    \/ /\ IF takenOver = {}
                          THEN UNCHANGED <<readOnly, rwCount, checkpoint>>
                          ELSE UpdateVolStatus(m0) /\ UpdateCheckpoint(m0, chain, S)
                       /\ Disturb(reachable = others)
    BY Zenon DEF AddReplicaNoLock
  <2>2. faults' \in 0..MaxFaults
    BY <2>1, DisturbType, Zenon
  <2> HIDE DEF m0, m1, takenOver
  <2> QED  BY <2>1, <2>2, Zenon
<1>7. /\ repCkpt' \in [Replicas -> 0..MaxSnaps]
      /\ readOnly' \in BOOLEAN /\ rwCount' \in Nat /\ checkpoint' \in 0..MaxSnaps
  <2> HIDE DEF m0
  <2>1. repCkpt' \in [Replicas -> 0..MaxSnaps]
    BY <1>6, StoreCheckpointType DEF TypeOK, DiskTypeOK
  <2>2. readOnly' \in BOOLEAN /\ rwCount' \in Nat /\ checkpoint' \in 0..MaxSnaps
    <3>1. CASE UNCHANGED <<readOnly, rwCount, checkpoint>>
      BY <3>1, Zenon DEF TypeOK, CtrlTypeOK
    <3>2. CASE \E m, S : UpdateVolStatus(m) /\ UpdateCheckpoint(m, chain, S)
      BY <3>2, UpdateVolStatusType, UpdateCheckpointType, Zenon
    <3> QED  BY <1>6, <3>1, <3>2, Zenon
  <2> QED  BY <2>1, <2>2, Zenon
<1>8. /\ frontend' \in BOOLEAN
      /\ pending' \in [Replicas -> Nat]
      /\ signalled' \in [Replicas -> BOOLEAN]
      /\ conn' \in [Replicas -> BOOLEAN]
      /\ lastSnap' \in 0..MaxSnaps
  BY <1>2 DEF AddReplicaNoLock, TypeOK, CtrlTypeOK, ProcTypeOK
<1> HIDE DEF m0, m1, s
<1> QED
  BY <1>1, <1>4, <1>5, <1>6, <1>7, <1>8, Zenon
  DEF AddReplicaNoLock, TypeOK, CtrlTypeOK, DiskTypeOK, ProcTypeOK, HistTypeOK

\* The join of a replica preserves the types.
LEMMA AddType ==
  ASSUME NEW r \in Replicas
  PROVE  TypeOK /\ Add(r) => TypeOK'
<1>1. ASSUME TypeOK, GetVolume(r) PROVE TypeOK'
  BY <1>1, Zenon
  DEF GetVolume, SetTask, TypeOK, CtrlTypeOK, DiskTypeOK, ProcTypeOK, HistTypeOK, Tasks,
      ctrlVars, diskVars, histVars
<1>2. ASSUME TypeOK, AddReplicaCheck(r) PROVE TypeOK'
  <2> DEFINE m == Without(mode, TakenOver)
  <2>1. m \in [Replicas -> Modes]
    BY <1>2, WithoutType, Zenon DEF TypeOK, CtrlTypeOK
  <2>2. task' \in [Replicas -> Tasks]
    BY <1>2, Zenon DEF AddReplicaCheck, SetTask, TypeOK, ProcTypeOK, Tasks
  <2>3. \/ UNCHANGED <<ctrlVars, repCkpt, conn, faults>>
        \/ \E S : RemoveReplicas(m, TakenOver, S) /\ faults' \in 0..MaxFaults
    BY <1>2, DisturbType, Zenon DEF AddReplicaCheck
  <2> HIDE DEF m
  <2>4. /\ CtrlTypeOK'
        /\ repCkpt' \in [Replicas -> 0..MaxSnaps]
        /\ conn' \in [Replicas -> BOOLEAN]
        /\ faults' \in 0..MaxFaults
    <3>1. CASE UNCHANGED <<ctrlVars, repCkpt, conn, faults>>
      BY <1>2, <3>1, Zenon DEF TypeOK, CtrlTypeOK, DiskTypeOK, ProcTypeOK, HistTypeOK, ctrlVars
    <3>2. CASE \E S : RemoveReplicas(m, TakenOver, S) /\ faults' \in 0..MaxFaults
      BY <1>2, <2>1, <3>2, RemoveReplicasType, Zenon
    <3> QED  BY <2>3, <3>1, <3>2, Zenon
  <2> QED
    BY <1>2, <2>2, <2>4, Zenon
    DEF AddReplicaCheck, TypeOK, DiskTypeOK, ProcTypeOK, HistTypeOK
<1>3. ASSUME TypeOK, AddReplicaCreate(r) PROVE TypeOK'
  BY <1>3, Zenon
  DEF AddReplicaCreate, SetTask, TypeOK, CtrlTypeOK, DiskTypeOK, ProcTypeOK, HistTypeOK,
      Tasks, ctrlVars, diskVars, histVars
<1>4. ASSUME TypeOK, AddReplicaRefused(r) PROVE TypeOK'
  BY <1>4, Zenon
  DEF AddReplicaRefused, SetTask, TypeOK, CtrlTypeOK, DiskTypeOK, ProcTypeOK, HistTypeOK,
      Tasks, ctrlVars, diskVars, histVars
<1>5. ASSUME TypeOK, AddReplicaNoLock(r) PROVE TypeOK'
  BY <1>5, AddReplicaNoLockType, Zenon
<1> QED  BY <1>1, <1>2, <1>3, <1>4, <1>5, Zenon DEF Add

\* A step of the rebuild preserves the types.
LEMMA RebuildType ==
  ASSUME NEW r \in Replicas
  PROVE  TypeOK /\ Rebuild(r) => TypeOK'
<1>1. ASSUME TypeOK, StartRebuild(r) PROVE TypeOK'
  <2>1. src' \in [Replicas -> Replicas] /\ task' \in [Replicas -> Tasks]
    BY <1>1 DEF StartRebuild, SetTask, InMode, TypeOK, ProcTypeOK, Tasks
  <2>2. rebuilding' \in [Replicas -> BOOLEAN]
    BY <1>1, Zenon DEF StartRebuild, TypeOK, DiskTypeOK
  <2> QED
    BY <1>1, <2>1, <2>2, Zenon
    DEF StartRebuild, TypeOK, CtrlTypeOK, DiskTypeOK, ProcTypeOK, HistTypeOK,
        ctrlVars, histVars
<1>2. ASSUME TypeOK, PrepareRebuild(r) PROVE TypeOK'
  <2>1. chain' \in [Replicas -> SUBSET Names]
    BY <1>2, Zenon DEF PrepareRebuild, TypeOK, DiskTypeOK
  <2> QED
    BY <1>2, <2>1, Zenon
    DEF PrepareRebuild, SetTask, TypeOK, CtrlTypeOK, DiskTypeOK, ProcTypeOK, HistTypeOK,
        Tasks, ctrlVars, histVars
<1>3. ASSUME TypeOK, CompareChains(r) PROVE TypeOK'
  <2>1. src[r] \in Replicas
    BY <1>3, Zenon DEF TypeOK, ProcTypeOK
  <2>2. todo' \in [Replicas -> SUBSET Names] /\ task' \in [Replicas -> Tasks]
    <3>1. \/ UNCHANGED todo
          \/ todo' = [todo EXCEPT ![r] = Newer(src[r], repCkpt[r])]
      BY <1>3, Zenon DEF CompareChains
    <3>2. Newer(src[r], repCkpt[r]) \in SUBSET Names
      BY <1>3, <2>1, Zenon DEF Newer, TypeOK, DiskTypeOK
    <3>3. \E t \in Tasks : task' = [task EXCEPT ![r] = t]
      BY <1>3, Zenon DEF CompareChains, SetTask, Tasks
    <3> QED  BY <1>3, <3>1, <3>2, <3>3 DEF TypeOK, ProcTypeOK
  <2> QED
    BY <1>3, <2>2, Zenon
    DEF CompareChains, TypeOK, CtrlTypeOK, DiskTypeOK, ProcTypeOK, HistTypeOK,
        ctrlVars, diskVars, histVars
<1>4. ASSUME TypeOK, SyncFile(r) PROVE TypeOK'
  <2>1. src[r] \in Replicas
    BY <1>4 DEF TypeOK, ProcTypeOK
  <2>2. ASSUME NEW n \in todo[r], NEW part \in SUBSET (1..MaxWrites)
        PROVE  [data EXCEPT ![r][n] = part] \in
                 [Replicas -> [0..MaxSnaps -> SUBSET (1..MaxWrites)]]
    <3>1. n \in 0..MaxSnaps
      BY <1>4 DEF TypeOK, ProcTypeOK, Names
    <3> QED  BY <1>4, <3>1, Zenon DEF TypeOK, DiskTypeOK
  <2>3. ASSUME NEW n \in todo[r]
        PROVE  data[r][n] \in SUBSET (1..MaxWrites) /\ data[src[r]][n] \in SUBSET (1..MaxWrites)
    BY <1>4, <2>1 DEF TypeOK, DiskTypeOK, ProcTypeOK, Names
  <2>4. data' \in [Replicas -> [0..MaxSnaps -> SUBSET (1..MaxWrites)]]
    <3>1. \E n \in todo[r] : \E part :
            /\ data' = [data EXCEPT ![r][n] = part]
            /\ part = data[src[r]][n] \/ part \in SUBSET (data[r][n] \cup data[src[r]][n])
      BY <1>4, Zenon DEF SyncFile
    <3>2. PICK n \in todo[r] : \E part :
            /\ data' = [data EXCEPT ![r][n] = part]
            /\ part = data[src[r]][n] \/ part \in SUBSET (data[r][n] \cup data[src[r]][n])
      BY <3>1, Zenon
    <3>3. PICK part :
            /\ data' = [data EXCEPT ![r][n] = part]
            /\ part = data[src[r]][n] \/ part \in SUBSET (data[r][n] \cup data[src[r]][n])
      BY <3>2, Zenon
    <3>4. part \in SUBSET (1..MaxWrites)
      BY <2>3, <3>3, Zenon
    <3> QED  BY <2>2, <3>3, <3>4, Zenon
  <2>5. chain' \in [Replicas -> SUBSET Names]
    <3>1. \/ UNCHANGED chain
          \/ \E n : chain' = [chain EXCEPT ![r] =
                               {k \in @ : k > n \/ k <= repCkpt[r]}
                               \cup {k \in Newer(src[r], repCkpt[r]) : k <= n}]
      BY <1>4, Zenon DEF SyncFile
    <3>2. chain[r] \in SUBSET Names /\ Newer(src[r], repCkpt[r]) \in SUBSET Names
      BY <1>4, <2>1, Zenon DEF Newer, TypeOK, DiskTypeOK
    <3> QED  BY <1>4, <3>1, <3>2, Zenon DEF TypeOK, DiskTypeOK
  <2>6. todo' \in [Replicas -> SUBSET Names] /\ task' \in [Replicas -> Tasks]
    <3>1. \E n : UNCHANGED todo \/ todo' = [todo EXCEPT ![r] = @ \ {n}]
      BY <1>4, Zenon DEF SyncFile
    <3>2. \E t \in Tasks : task' = [task EXCEPT ![r] = t]
      BY <1>4, Zenon DEF SyncFile, SetTask, Tasks
    <3> QED  BY <1>4, <3>1, <3>2 DEF TypeOK, ProcTypeOK
  <2>7. faults' \in 0..MaxFaults
    BY <1>4, DisturbType, Zenon DEF SyncFile, TypeOK, HistTypeOK
  <2> QED
    BY <1>4, <2>4, <2>5, <2>6, <2>7, Zenon
    DEF SyncFile, TypeOK, CtrlTypeOK, DiskTypeOK, ProcTypeOK, HistTypeOK, ctrlVars
<1>5. ASSUME TypeOK, Reload(r) PROVE TypeOK'
  BY <1>5, Zenon
  DEF Reload, SetTask, TypeOK, CtrlTypeOK, DiskTypeOK, ProcTypeOK, HistTypeOK,
      Tasks, ctrlVars, diskVars, histVars
<1>6. ASSUME TypeOK, VerifyRebuild(r) PROVE TypeOK'
  <2> DEFINE m == [mode EXCEPT ![r] = "RW"]
  <2>1. m \in [Replicas -> Modes]
    BY <1>6 DEF TypeOK, CtrlTypeOK, Modes
  <2>2. task' \in [Replicas -> Tasks] /\ repMode' \in [Replicas -> {"INIT", "WO", "RW"}]
    BY <1>6, Zenon DEF VerifyRebuild, SetTask, TypeOK, ProcTypeOK, Tasks
  <2>3. rev' \in [Replicas -> Nat]
    <3>1. UNCHANGED rev \/ \E q \in Replicas : rev' = [rev EXCEPT ![r] = rev[q]]
      BY <1>6, Zenon DEF VerifyRebuild, InMode
    <3> QED  BY <1>6, <3>1, Zenon DEF TypeOK, DiskTypeOK
  <2>4. \/ UNCHANGED <<mode, readOnly, rwCount, checkpoint, repCkpt>> /\ faults' \in 0..MaxFaults
        \/ /\ mode' = m
           /\ UpdateVolStatus(m)
           /\ \E S : /\ UpdateCheckpoint(m, chain, S)
                     /\ repCkpt' = StoreCheckpoint(m, chain, S, repCkpt)
                     /\ faults' \in 0..MaxFaults
    <3>1. faults \in 0..MaxFaults  BY <1>6, Zenon DEF TypeOK, HistTypeOK
    <3> QED  BY <1>6, <3>1, DisturbType, Zenon DEF VerifyRebuild
  <2> HIDE DEF m
  <2>5. /\ mode' \in [Replicas -> Modes]
        /\ readOnly' \in BOOLEAN /\ rwCount' \in Nat /\ checkpoint' \in 0..MaxSnaps
        /\ repCkpt' \in [Replicas -> 0..MaxSnaps]
        /\ faults' \in 0..MaxFaults
    <3>1. CASE UNCHANGED <<mode, readOnly, rwCount, checkpoint, repCkpt>>
               /\ faults' \in 0..MaxFaults
      BY <1>6, <3>1, Zenon DEF TypeOK, CtrlTypeOK, DiskTypeOK
    <3>2. CASE /\ mode' = m
               /\ UpdateVolStatus(m)
               /\ \E S : /\ UpdateCheckpoint(m, chain, S)
                         /\ repCkpt' = StoreCheckpoint(m, chain, S, repCkpt)
                         /\ faults' \in 0..MaxFaults
      <4>1. readOnly' \in BOOLEAN /\ rwCount' \in Nat
        BY <3>2, UpdateVolStatusType, Zenon
      <4>2. checkpoint' \in 0..MaxSnaps
        BY <3>2, UpdateCheckpointType, Zenon
      <4>3. repCkpt' \in [Replicas -> 0..MaxSnaps]
        BY <1>6, <3>2, StoreCheckpointType DEF TypeOK, DiskTypeOK
      <4> QED  BY <2>1, <3>2, <4>1, <4>2, <4>3, Zenon
    <3> QED  BY <2>4, <3>1, <3>2, Zenon
  <2> QED
    BY <1>6, <2>2, <2>3, <2>5, Zenon
    DEF VerifyRebuild, TypeOK, CtrlTypeOK, DiskTypeOK, ProcTypeOK, HistTypeOK
<1>7. ASSUME TypeOK, FinishRebuild(r) PROVE TypeOK'
  BY <1>7, Zenon
  DEF FinishRebuild, SetTask, TypeOK, CtrlTypeOK, DiskTypeOK, ProcTypeOK, HistTypeOK,
      Tasks, ctrlVars, histVars
<1> QED  BY <1>1, <1>2, <1>3, <1>4, <1>5, <1>6, <1>7, Zenon DEF Rebuild

\* A snapshot of the volume preserves the types.
LEMMA SnapshotActionType ==
  ASSUME TypeOK, Snapshot
  PROVE  TypeOK'
<1> DEFINE s == lastSnap + 1
<1>1. s \in Names /\ s \in 0..MaxSnaps
  BY NextSnapType, Zenon DEF Snapshot
<1>2. PICK app, ok : SnapshotOn(app, ok)
  BY Zenon DEF Snapshot
<1>3. /\ data' \in [Replicas -> [0..MaxSnaps -> SUBSET (1..MaxWrites)]]
      /\ chain' \in [Replicas -> SUBSET Names]
  BY <1>1, <1>2, SnapshotType, Zenon DEF SnapshotOn
<1>4. mode' \in [Replicas -> Modes]
  BY <1>2, Zenon DEF SnapshotOn, TypeOK, CtrlTypeOK, Modes
<1>5. pending' \in [Replicas -> Nat] /\ signalled' \in [Replicas -> BOOLEAN]
  BY <1>2 DEF SnapshotOn, StopMonitoring, TypeOK, CtrlTypeOK
<1>6. faults' \in 0..MaxFaults /\ lastSnap' \in 0..MaxSnaps
  BY <1>1, <1>2, DisturbType, Zenon DEF SnapshotOn
<1> QED
  BY <1>3, <1>4, <1>5, <1>6, Zenon
  DEF Snapshot, TypeOK, CtrlTypeOK, DiskTypeOK, ProcTypeOK, HistTypeOK, procVars

\* The removal of a replica preserves the types.
LEMMA RemoveType ==
  ASSUME TypeOK, NEW r \in Replicas, RemoveReplica(r)
  PROVE  TypeOK'
<1> DEFINE m == Without(mode, {r})
<1>1. m \in [Replicas -> Modes]
  BY WithoutType, Zenon DEF TypeOK, CtrlTypeOK
<1>2. PICK S : RemoveReplicas(m, {r}, S)
  BY Zenon DEF RemoveReplica, RemoveReplicaNoLock
<1>3. /\ CtrlTypeOK'
      /\ repCkpt' \in [Replicas -> 0..MaxSnaps]
      /\ conn' \in [Replicas -> BOOLEAN]
  BY <1>1, <1>2, RemoveReplicasType, Zenon
<1>4. faults' \in 0..MaxFaults
  BY DisturbType, Zenon DEF RemoveReplica
<1> QED
  BY <1>3, <1>4, Zenon
  DEF RemoveReplica, RemoveReplicaNoLock, TypeOK, DiskTypeOK, ProcTypeOK, HistTypeOK

\* A monitoring goroutine preserves the types; one that runs was signalled, so the
\* number of signalled goroutines stays a natural number.
LEMMA MonitoringType ==
  ASSUME TypeOK, NEW r \in Replicas, Monitoring(r)
  PROVE  TypeOK'
<1>1. pending' \in [Replicas -> Nat]
  BY DEF Monitoring, TypeOK, CtrlTypeOK
<1>2. CASE mode[r] = "NONE"
  BY <1>1, <1>2, Zenon
  DEF Monitoring, TypeOK, CtrlTypeOK, DiskTypeOK, ProcTypeOK, HistTypeOK,
      diskVars, procVars, histVars
<1>3. CASE mode[r] # "NONE"
  <2> DEFINE m == Without(mode, {r})
  <2>1. m \in [Replicas -> Modes]
    BY WithoutType DEF TypeOK, CtrlTypeOK
  <2>2. mode' = m /\ UpdateVolStatus(m)
    BY <1>3, Zenon DEF Monitoring
  <2>3. PICK S : /\ UpdateCheckpoint(m, chain, S)
                 /\ repCkpt' = StoreCheckpoint(m, chain, S, repCkpt)
    BY <1>3, Zenon DEF Monitoring
  <2> HIDE DEF m
  <2>4. readOnly' \in BOOLEAN /\ rwCount' \in Nat
    BY <2>2, UpdateVolStatusType, Zenon
  <2>5. checkpoint' \in 0..MaxSnaps
    BY <2>3, UpdateCheckpointType, Zenon
  <2>6. repCkpt' \in [Replicas -> 0..MaxSnaps]
    BY <2>3, StoreCheckpointType, Zenon DEF TypeOK, DiskTypeOK
  <2>7. /\ frontend' \in BOOLEAN
        /\ signalled' \in [Replicas -> BOOLEAN]
        /\ conn' \in [Replicas -> BOOLEAN]
    BY <1>3, Zenon DEF Monitoring, TypeOK, CtrlTypeOK, ProcTypeOK
  <2> QED
    BY <1>1, <1>3, <2>1, <2>2, <2>4, <2>5, <2>6, <2>7, Zenon
    DEF Monitoring, TypeOK, CtrlTypeOK, DiskTypeOK, ProcTypeOK, HistTypeOK, histVars
<1> QED  BY <1>2, <1>3, Zenon

\* The end of a replica process preserves the types.
LEMMA ExitType ==
  ASSUME TypeOK, NEW r \in Replicas, Crash(r) \/ Restart(r)
  PROVE  TypeOK'
<1>1. Exit(r)
  BY Zenon DEF Crash, Restart
<1>2. faults' \in 0..MaxFaults
  BY DisturbType, Zenon DEF Crash, Restart, TypeOK, HistTypeOK
<1>3. pending' \in [Replicas -> Nat] /\ signalled' \in [Replicas -> BOOLEAN]
  BY <1>1 DEF Exit, StopMonitoring, TypeOK, CtrlTypeOK
<1>4. ProcTypeOK'
  BY <1>1, Zenon DEF Exit, SetTask, TypeOK, ProcTypeOK, Tasks
<1> QED
  BY <1>1, <1>2, <1>3, <1>4, Zenon
  DEF Exit, TypeOK, CtrlTypeOK, DiskTypeOK, HistTypeOK

\* Shutdown and the restart of the controller preserve the types.
LEMMA ControllerStopsType ==
  ASSUME TypeOK, Shutdown \/ ControllerRestart
  PROVE  TypeOK'
<1>1. ASSUME ShutdownFrontend \/ ControllerRestart PROVE faults' \in 0..MaxFaults
  BY <1>1, DisturbType, Zenon DEF ShutdownFrontend, ControllerRestart
<1>2. CASE ShutdownBackend
  <2>1. pending' \in [Replicas -> Nat] /\ signalled' \in [Replicas -> BOOLEAN]
    BY <1>2 DEF ShutdownBackend, StopMonitoring, TypeOK, CtrlTypeOK
  <2>2. mode' \in [Replicas -> Modes] /\ conn' \in [Replicas -> BOOLEAN]
    BY <1>2, Zenon DEF ShutdownBackend, Modes, TypeOK, ProcTypeOK
  <2> QED
    BY <1>2, <2>1, <2>2, Zenon
    DEF ShutdownBackend, TypeOK, CtrlTypeOK, DiskTypeOK, ProcTypeOK, HistTypeOK, diskVars,
        histVars
<1>3. CASE ShutdownFrontend
  BY <1>1, <1>3, Zenon
  DEF ShutdownFrontend, TypeOK, CtrlTypeOK, DiskTypeOK, ProcTypeOK, HistTypeOK, diskVars,
      procVars
<1>4. CASE ControllerRestart
  <2>1. task' \in [Replicas -> Tasks]
    BY <1>4, Zenon DEF ControllerRestart, Orphaned, Tasks, TypeOK, ProcTypeOK
  <2>2. CtrlTypeOK' /\ conn' \in [Replicas -> BOOLEAN]
    <3>1. checkpoint' \in 0..MaxSnaps /\ rwCount' \in Nat
      BY <1>4 DEF ControllerRestart
    <3>2. pending' \in [Replicas -> Nat] /\ mode' \in [Replicas -> Modes]
      BY <1>4, Zenon DEF ControllerRestart, Modes
    <3>3. /\ readOnly' \in BOOLEAN /\ frontend' \in BOOLEAN
          /\ signalled' \in [Replicas -> BOOLEAN]
          /\ conn' \in [Replicas -> BOOLEAN]
      BY <1>4, Zenon DEF ControllerRestart, TypeOK, CtrlTypeOK
    <3> QED  BY <3>1, <3>2, <3>3, Zenon DEF CtrlTypeOK
  <2> QED
    BY <1>1, <1>4, <2>1, <2>2, Zenon
    DEF ControllerRestart, TypeOK, DiskTypeOK, ProcTypeOK, HistTypeOK, diskVars
<1> QED  BY <1>2, <1>3, <1>4, Zenon DEF Shutdown

-----------------------------------------------------------------------------
(* Type correctness *)

\* The initial state is well typed.
LEMMA InitType == Init => TypeOK
<1> SUFFICES ASSUME Init PROVE TypeOK
  BY Zenon
<1>1. 0 \in 0..MaxSnaps /\ 0 \in 0..MaxWrites /\ 0 \in 0..MaxFaults
  OBVIOUS
<1>2. CtrlTypeOK
  BY <1>1, Zenon DEF Init, CtrlTypeOK, Modes
<1>3. DiskTypeOK
  BY <1>1, Zenon DEF Init, DiskTypeOK
<1>4. ProcTypeOK
  BY Zenon DEF Init, ProcTypeOK, Tasks
<1>5. HistTypeOK
  BY <1>1, Zenon DEF Init, HistTypeOK
<1> QED  BY <1>2, <1>3, <1>4, <1>5, Zenon DEF TypeOK

\* Every step keeps the types.
LEMMA StepType == TypeOK /\ [Next]_vars => TypeOK'
<1> SUFFICES ASSUME TypeOK, [Next]_vars PROVE TypeOK'
  BY Zenon
<1>1. CASE WriteAt  BY <1>1, WriteAtType, Zenon
<1>2. CASE ReadAt \/ Sync  BY <1>2, FailedIOType, Zenon DEF ReadAt, Sync
<1>3. CASE Snapshot  BY <1>3, SnapshotActionType, Zenon
<1>4. CASE Shutdown \/ ControllerRestart  BY <1>4, ControllerStopsType, Zenon
<1>5. ASSUME NEW r \in Replicas, Start(r) \/ StartIgnored(r) \/ StartFails(r)
      PROVE  TypeOK'
  BY <1>5, StartType, Zenon
<1>6. ASSUME NEW r \in Replicas, Add(r) PROVE TypeOK'
  BY <1>6, AddType, Zenon
<1>7. ASSUME NEW r \in Replicas, Rebuild(r) PROVE TypeOK'
  BY <1>7, RebuildType, Zenon
<1>8. ASSUME NEW r \in Replicas, RemoveReplica(r) PROVE TypeOK'
  BY <1>8, RemoveType, Zenon
<1>9. ASSUME NEW r \in Replicas, Monitoring(r) PROVE TypeOK'
  BY <1>9, MonitoringType, Zenon
<1>10. ASSUME NEW r \in Replicas, Crash(r) \/ Restart(r) PROVE TypeOK'
  BY <1>10, ExitType, Zenon
<1>11. CASE UNCHANGED vars
  BY <1>11, Zenon
  DEF vars, ctrlVars, diskVars, procVars, histVars,
      TypeOK, CtrlTypeOK, DiskTypeOK, ProcTypeOK, HistTypeOK
<1> QED
  BY <1>1, <1>2, <1>3, <1>4, <1>5, <1>6, <1>7, <1>8, <1>9, <1>10, <1>11, Zenon DEF Next

\* Type correctness: the modes, counters, chains and disks of any volume stay in
\* their types, the number of signalled goroutines (pending) never below zero.
THEOREM TypeCorrect == Spec => []TypeOK
BY InitType, StepType, PTL DEF Spec

-----------------------------------------------------------------------------
(* The replica list *)

\* What the safety properties of the list need besides: a replica on its way to be
\* added is not listed yet, and once created it stays connected.
Unlisted == \A r \in Replicas : task[r] \in {"checked", "opened"} => mode[r] = "NONE"
Created == \A r \in Replicas : task[r] = "opened" => conn[r]

\* A listed backend that failed has signalled its goroutine, and a goroutine that a
\* listed backend has signalled has yet to run.
FailedSignal == \A r \in Listed(mode) : mode[r] = "ERR" \/ ~conn[r] => signalled[r]
SignalsWait == \A r \in Listed(mode) : signalled[r] => pending[r] > 0

\* AtMostOneWO without counting
OneWO == \A a, b \in InMode(mode, "WO") : a = b

ListOK == Unlisted /\ Created /\ FailedSignal /\ SignalsWait /\ OneWO /\ ReadOnlyIsCurrent
ListInv == TypeOK /\ ListOK

\* Steps of the replica list that only move the join of a replica along.
JoinMoves ==
  \A r \in Replicas :
    /\ task'[r] \in {"checked", "opened"} =>
         task'[r] = task[r] \/ (task'[r] = "checked" /\ mode[r] = "NONE")
    /\ task[r] = "failed" => task'[r] = "failed"

\* A step that leaves the controller alone keeps the invariant.
LEMMA QuietStep ==
  ASSUME ListInv, JoinMoves,
         UNCHANGED <<mode, readOnly, frontend, pending, signalled, conn>>
  PROVE  ListOK'
<1>1. Unlisted' /\ Created'
  BY Zenon DEF ListInv, ListOK, JoinMoves, Unlisted, Created
<1>2. FailedSignal' /\ SignalsWait' /\ OneWO'
  BY Zenon DEF ListInv, ListOK, FailedSignal, SignalsWait, OneWO, Listed, InMode
<1>3. ReadOnlyIsCurrent'
  BY Zenon DEF ListInv, ListOK, JoinMoves, ReadOnlyIsCurrent, ReadOnlyOf, Listed, InMode
<1> QED  BY <1>1, <1>2, <1>3, Zenon DEF ListOK

\* The removal of listed replicas keeps the invariant: it signals their goroutines
\* and recomputes ReadOnly.
LEMMA RemovalStep ==
  ASSUME ListInv, JoinMoves, NEW F \in SUBSET Listed(mode), NEW S,
         RemoveReplicas(Without(mode, F), F, S)
  PROVE  ListOK'
<1> DEFINE m == Without(mode, F)
<1>1. /\ mode' = m
      /\ \A r \in Replicas : m[r] = IF r \in F THEN "NONE" ELSE mode[r]
  BY Zenon DEF RemoveReplicas, Without
<1>2. \A r \in Replicas : conn'[r] = (conn[r] /\ r \notin F)
  BY Zenon DEF RemoveReplicas
<1>3. \A r \in Replicas \ F : signalled'[r] = signalled[r] /\ pending'[r] = pending[r]
  BY Zenon DEF RemoveReplicas, StopMonitoring, ListInv, TypeOK, CtrlTypeOK
<1>4. readOnly' = ReadOnlyOf(mode)'
  BY <1>1, Zenon DEF RemoveReplicas, UpdateVolStatus, ReadOnlyOf, InMode
<1> HIDE DEF m
<1>5. Unlisted' /\ Created'
  BY <1>1, <1>2, Zenon DEF ListInv, ListOK, JoinMoves, Unlisted, Created, Listed
<1>6. FailedSignal' /\ SignalsWait'
  BY <1>1, <1>2, <1>3, Zenon DEF ListInv, ListOK, FailedSignal, SignalsWait, Listed
<1>7. OneWO'
  BY <1>1, Zenon DEF ListInv, ListOK, OneWO, InMode
<1>8. ReadOnlyIsCurrent'
  BY <1>4, Zenon DEF ReadOnlyIsCurrent
<1> QED  BY <1>5, <1>6, <1>7, <1>8, Zenon DEF ListOK

\* Reads and writes keep the invariant of the list.
LEMMA IOListStep ==
  ASSUME ListInv, WriteAt \/ ReadAt \/ Sync
  PROVE  ListOK'
<1>1. UNCHANGED task
  BY Zenon DEF WriteAt, ReadAt, Sync, FailedIO
<1>2. JoinMoves
  BY <1>1, Zenon DEF JoinMoves
<1>3. \/ UNCHANGED <<mode, readOnly, frontend, pending, signalled, conn>>
      \/ \E F \in SUBSET Listed(mode) : \E S : RemoveReplicas(Without(mode, F), F, S)
  <2>1. CASE WriteAt
    <3>1. PICK dat, cnt, ok : WriteTo(dat, cnt, ok)
      BY <2>1, Zenon DEF WriteAt
    <3>2. Writers(mode) \ ok \in SUBSET Listed(mode)
      BY Zenon DEF Writers, InMode, Listed
    <3> QED  BY <3>1, <3>2, Zenon DEF WriteTo, ctrlVars
  <2>2. CASE ReadAt \/ Sync
    <3>1. PICK F \in SUBSET Writers(mode) : FailedIO(F)
      BY <2>2, Zenon DEF ReadAt, Sync, Writers
    <3>2. F \in SUBSET Listed(mode)
      BY <3>1, Zenon DEF Writers, InMode, Listed
    <3> QED  BY <3>1, <3>2, Zenon DEF FailedIO
  <2> QED  BY <2>1, <2>2, Zenon
<1> QED  BY <1>2, <1>3, QuietStep, RemovalStep, Zenon

\* Start keeps the invariant of the list: it finds the list empty.
LEMMA StartListStep ==
  ASSUME ListInv, NEW r \in Replicas, Start(r) \/ StartIgnored(r) \/ StartFails(r)
  PROVE  ListOK'
<1>1. CASE StartIgnored(r)
  <2>1. JoinMoves
    BY <1>1, Zenon DEF StartIgnored, SetTask, JoinMoves, ListInv, TypeOK, ProcTypeOK
  <2> QED  BY <1>1, <2>1, QuietStep, Zenon DEF StartIgnored, ctrlVars
<1>2. CASE Start(r)
  <2>1. \A q \in Replicas : mode[q] = "NONE"
    BY <1>2, Zenon DEF Start, Listed
  <2>2. mode' = [mode EXCEPT ![r] = "RW"]
    BY <1>2, Zenon DEF Start
  <2>3. \A q \in Replicas : mode'[q] = IF q = r THEN "RW" ELSE "NONE"
    BY <2>1, <2>2, Zenon DEF ListInv, TypeOK, CtrlTypeOK
  <2>4. conn'[r] /\ ~signalled'[r] /\ task'[r] \in {"running", "failed"}
    BY <1>2, Zenon DEF Start, SetTask, ListInv, TypeOK, CtrlTypeOK, ProcTypeOK
  <2>5. \A q \in Replicas \ {r} : task'[q] = task[q] /\ conn'[q] = conn[q]
    BY <1>2, Zenon DEF Start, SetTask, ListInv, TypeOK, ProcTypeOK
  <2>6. Unlisted' /\ Created'
    BY <2>3, <2>4, <2>5, Zenon DEF ListInv, ListOK, Unlisted, Created
  <2>7. FailedSignal' /\ SignalsWait' /\ OneWO'
    BY <2>3, <2>4, Zenon DEF FailedSignal, SignalsWait, OneWO, Listed, InMode
  <2>8. ReadOnlyIsCurrent'
    <3>1. task'[r] = "failed" \/ UpdateVolStatus(mode')
      BY <1>2, <2>2, <2>4, Zenon DEF Start, SetTask, ListInv, TypeOK, ProcTypeOK
    <3> QED
      BY <2>3, <3>1, Zenon DEF ReadOnlyIsCurrent, UpdateVolStatus, ReadOnlyOf, InMode, Listed
  <2> QED  BY <2>6, <2>7, <2>8, Zenon DEF ListOK
<1>3. CASE StartFails(r)
  <2>1. \A q \in Replicas : mode'[q] = "NONE"
    BY <1>3, Zenon DEF StartFails, Listed
  <2>2. Unlisted' /\ FailedSignal' /\ SignalsWait' /\ OneWO'
    BY <2>1, Zenon DEF Unlisted, FailedSignal, SignalsWait, OneWO, Listed, InMode
  <2>3. Created'
    BY <1>3, Zenon DEF StartFails, SetTask, Created, ListInv, ListOK, TypeOK, ProcTypeOK
  <2>4. ReadOnlyIsCurrent'
    <3>1. UNCHANGED <<mode, frontend>> /\ (UNCHANGED readOnly \/ readOnly' = ReadOnlyOf(mode))
      BY <1>3, Zenon DEF StartFails, UpdateVolStatus
    <3>2. Listed(mode) = {}
      BY <1>3, Zenon DEF StartFails
    <3>3. ReadOnlyOf(mode)' = ReadOnlyOf(mode)
      BY <3>1, Zenon DEF ReadOnlyOf, InMode
    <3> QED  BY <3>1, <3>2, <3>3, Zenon DEF ReadOnlyIsCurrent, ListInv, ListOK
  <2> QED  BY <2>2, <2>3, <2>4, Zenon DEF ListOK
<1> QED  BY <1>1, <1>2, <1>3, Zenon

\* The join of a replica keeps the invariant of the list.
LEMMA AddListStep ==
  ASSUME ListInv, NEW r \in Replicas, Add(r)
  PROVE  ListOK'
<1>1. CASE GetVolume(r) \/ AddReplicaRefused(r)
  <2>1. JoinMoves
    BY <1>1, Zenon DEF GetVolume, AddReplicaRefused, SetTask, JoinMoves, ListInv, TypeOK, ProcTypeOK
  <2> QED  BY <1>1, <2>1, QuietStep, Zenon DEF GetVolume, AddReplicaRefused, ctrlVars
<1>2. CASE AddReplicaCheck(r)
  <2>1. JoinMoves
    BY <1>2, Zenon DEF AddReplicaCheck, CanAdd, SetTask, JoinMoves, ListInv, TypeOK, ProcTypeOK
  <2>2. TakenOver \in SUBSET Listed(mode)
    BY Zenon DEF TakenOver, InMode, Listed
  <2>3. \/ UNCHANGED <<mode, readOnly, frontend, pending, signalled, conn>>
        \/ \E S : RemoveReplicas(Without(mode, TakenOver), TakenOver, S)
    BY <1>2, Zenon DEF AddReplicaCheck, ctrlVars
  <2> QED  BY <2>1, <2>2, <2>3, QuietStep, RemovalStep, Zenon
<1>3. CASE AddReplicaCreate(r)
  <2>1. /\ UNCHANGED <<mode, readOnly, frontend, pending, signalled>>
        /\ mode[r] = "NONE"
        /\ conn'[r]
        /\ task[r] = "checked"
    BY <1>3, Zenon DEF AddReplicaCreate, ctrlVars, ListInv, ListOK, Unlisted, TypeOK, ProcTypeOK
  <2>2. \A q \in Replicas \ {r} : task'[q] = task[q] /\ conn'[q] = conn[q]
    BY <1>3, Zenon DEF AddReplicaCreate, SetTask, ListInv, TypeOK, ProcTypeOK
  <2>3. Unlisted' /\ Created'
    BY <2>1, <2>2, Zenon DEF ListInv, ListOK, Unlisted, Created
  <2>4. FailedSignal' /\ SignalsWait' /\ OneWO'
    BY <2>1, <2>2 DEF ListInv, ListOK, FailedSignal, SignalsWait, OneWO, Listed, InMode
  <2>5. ReadOnlyIsCurrent'
    BY <2>1, <2>2, Zenon DEF ListInv, ListOK, ReadOnlyIsCurrent, ReadOnlyOf, Listed, InMode
  <2> QED  BY <2>3, <2>4, <2>5, Zenon DEF ListOK
<1>4. CASE AddReplicaNoLock(r)
  <2> DEFINE takenOver == TakenOver
             m0 == Without(mode, takenOver)
             m1 == [m0 EXCEPT ![r] = "WO"]
  <2>1. /\ task[r] = "opened" /\ mode[r] = "NONE" /\ conn[r]
        /\ takenOver \in SUBSET Listed(mode)
    BY <1>4, Zenon DEF AddReplicaNoLock, TakenOver, ListInv, ListOK, Unlisted, Created, InMode, Listed
  <2>2. /\ m0 \in [Replicas -> Modes]
        /\ \A q \in Replicas : m0[q] = IF q \in takenOver THEN "NONE" ELSE mode[q]
    BY WithoutType, Zenon DEF Without, ListInv, TypeOK, CtrlTypeOK
  <2>3. /\ conn'[r] /\ ~signalled'[r]
        /\ \A q \in Replicas \ ({r} \cup takenOver) :
             /\ conn'[q] = conn[q]
             /\ signalled'[q] = signalled[q]
             /\ pending'[q] = pending[q]
    BY <1>4, <2>1, Zenon DEF AddReplicaNoLock, Listed, ListInv, TypeOK, CtrlTypeOK, ProcTypeOK
  <2>4. /\ task'[r] \in {"added", "failed"}
        /\ \A q \in Replicas \ {r} : task'[q] = task[q]
    BY <1>4, Zenon DEF AddReplicaNoLock, SetTask, ListInv, TypeOK, ProcTypeOK
  <2>5. \/ mode' = m1 /\ UpdateVolStatus(m1)
        \/ mode' = m0 /\ UpdateVolStatus(m0)
        \/ mode' = m0 /\ takenOver = {} /\ UNCHANGED readOnly /\ frontend' = frontend
    BY <1>4, Zenon DEF AddReplicaNoLock, ListInv, TypeOK, CtrlTypeOK
  <2>6. \A q \in Replicas : \/ mode'[q] = m0[q]
                            \/ q = r /\ mode'[q] = "WO"
    BY <2>2, <2>5, Zenon
  <2>7. \A q \in takenOver : mode'[q] = "NONE" /\ q # r
    BY <2>1, <2>2, <2>6, Zenon DEF Listed, InMode
  <2> HIDE DEF m1
  <2>8. Unlisted' /\ Created'
    <3> HIDE DEF takenOver
    <3>1. SUFFICES ASSUME NEW q \in Replicas, task'[q] \in {"checked", "opened"}
                   PROVE  mode'[q] = "NONE" /\ (task'[q] = "opened" => conn'[q])
      BY Zenon DEF Unlisted, Created
    <3>2. q # r /\ task[q] = task'[q]
      BY <2>4, <3>1, Zenon
    <3>3. mode[q] = "NONE" /\ (task[q] = "opened" => conn[q])
      BY <3>1, <3>2, Zenon DEF ListInv, ListOK, Unlisted, Created
    <3>4. q \notin takenOver
      BY <2>1, <3>3, Zenon DEF Listed
    <3>5. mode'[q] = "NONE"
      BY <2>2, <2>6, <3>2, <3>3, <3>4, Zenon
    <3> QED  BY <2>3, <3>2, <3>3, <3>4, <3>5, Zenon
  <2>9. FailedSignal' /\ SignalsWait'
    <3>1. mode'[r] \in {"NONE", "WO"}
      BY <2>1, <2>2, <2>6, Zenon DEF InMode
    <3>2. \A q \in Replicas \ ({r} \cup takenOver) : mode'[q] = mode[q]
      BY <2>2, <2>6, Zenon
    <3> HIDE DEF takenOver
    <3>3. FailedSignal'
      BY <2>3, <2>7, <3>1, <3>2, Zenon DEF ListInv, ListOK, FailedSignal, Listed
    <3>4. SignalsWait'
      BY <2>3, <2>7, <3>1, <3>2, Zenon DEF ListInv, ListOK, SignalsWait, Listed
    <3> QED  BY <3>3, <3>4, Zenon
  <2>10. OneWO'
    BY <2>2, <2>6, Zenon DEF OneWO, TakenOver, InMode
  <2>11. ReadOnlyIsCurrent'
    <3>1. CASE readOnly' = ReadOnlyOf(mode')
      BY <3>1, Zenon DEF ReadOnlyIsCurrent, ReadOnlyOf, InMode
    <3>2. CASE /\ mode' = m0 /\ takenOver = {}
               /\ UNCHANGED readOnly /\ frontend' = frontend
      <4>1. mode' = mode
        BY <2>2, <3>2 DEF ListInv, TypeOK, CtrlTypeOK
      <4>2. \A q \in Listed(mode) : task'[q] = task[q] /\ conn'[q] = conn[q]
        BY <2>1, <2>3, <2>4, <3>2, Zenon DEF Listed
      <4> QED
        BY <3>2, <4>1, <4>2, Zenon DEF ListInv, ListOK, ReadOnlyIsCurrent, ReadOnlyOf, InMode, Listed
    <3> QED  BY <2>5, <3>1, <3>2, Zenon DEF UpdateVolStatus
  <2> QED  BY <2>8, <2>9, <2>10, <2>11, Zenon DEF ListOK
<1> QED  BY <1>1, <1>2, <1>3, <1>4, Zenon DEF Add

\* The rebuild keeps the invariant of the list: only VerifyRebuildReplica changes a
\* mode, and it recomputes ReadOnly.
LEMMA RebuildListStep ==
  ASSUME ListInv, NEW r \in Replicas, Rebuild(r)
  PROVE  ListOK'
<1>1. JoinMoves
  <2>1. /\ task[r] \notin {"checked", "opened", "failed"}
        /\ \E t \in Tasks \ {"checked", "opened"} : task' = [task EXCEPT ![r] = t]
    BY Zenon DEF Rebuild, StartRebuild, PrepareRebuild, CompareChains, SyncFile, Reload, VerifyRebuild,
           FinishRebuild, SetTask, Tasks
  <2> QED  BY <2>1, Zenon DEF JoinMoves, ListInv, TypeOK, ProcTypeOK
<1>2. CASE UNCHANGED <<mode, readOnly, frontend, pending, signalled, conn>>
  BY <1>1, <1>2, QuietStep, Zenon
<1>3. CASE /\ mode[r] = "WO"
           /\ mode' = [mode EXCEPT ![r] = "RW"]
           /\ readOnly' = ReadOnlyOf(mode')
           /\ UNCHANGED <<frontend, pending, signalled, conn>>
  <2>1. \A q \in Replicas : mode'[q] = IF q = r THEN "RW" ELSE mode[q]
    BY <1>3, Zenon DEF ListInv, TypeOK, CtrlTypeOK
  <2>2. Unlisted' /\ Created'
    BY <1>1, <1>3, <2>1, Zenon DEF ListInv, ListOK, JoinMoves, Unlisted, Created
  <2>3. FailedSignal'
    <3>1. \A q \in Replicas : q \in Listed(mode') => q \in Listed(mode)
      BY <1>3, <2>1, Zenon DEF Listed
    <3>2. \A q \in Replicas : mode'[q] = "ERR" => mode[q] = "ERR"
      BY <2>1, Zenon
    <3>3. signalled' = signalled /\ conn' = conn /\ FailedSignal
      BY <1>3, Zenon DEF ListInv, ListOK
    <3> QED  BY <3>1, <3>2, <3>3, Zenon DEF FailedSignal, Listed
  <2>4. SignalsWait'
    <3>1. \A q \in Replicas : q \in Listed(mode') => q \in Listed(mode)
      BY <1>3, <2>1 DEF Listed
    <3>2. signalled' = signalled /\ pending' = pending /\ SignalsWait
      BY <1>3, Zenon DEF ListInv, ListOK
    <3> QED  BY <3>1, <3>2, Zenon DEF SignalsWait, Listed
  <2>5. OneWO'
    <3>1. \A q \in Replicas : q \in InMode(mode', "WO") => q \in InMode(mode, "WO")
      BY <2>1, Zenon DEF InMode
    <3>2. OneWO
      BY Zenon DEF ListInv, ListOK
    <3> QED  BY <3>1, <3>2, Zenon DEF OneWO, InMode
  <2>6. ReadOnlyIsCurrent'
    BY <1>3, Zenon DEF ReadOnlyIsCurrent, ReadOnlyOf, InMode
  <2> QED  BY <2>2, <2>3, <2>4, <2>5, <2>6, Zenon DEF ListOK
<1>4. \/ <1>2!1 \/ <1>3!1
  BY Zenon DEF Rebuild, StartRebuild, PrepareRebuild, CompareChains, SyncFile, Reload, VerifyRebuild,
         FinishRebuild, UpdateVolStatus, ctrlVars
<1> QED  BY <1>2, <1>3, <1>4, Zenon

\* A snapshot that fails on a replica marks it ERR and signals its goroutine.
LEMMA SnapshotListStep ==
  ASSUME ListInv, Snapshot
  PROVE  ListOK'
<1>1. PICK app, ok : SnapshotOn(app, ok)
  BY Zenon DEF Snapshot
<1> DEFINE failed == Writers(mode) \ ok
<1>2. /\ failed \in SUBSET Listed(mode)
      /\ \A r \in Replicas : mode'[r] = IF r \in failed THEN "ERR" ELSE mode[r]
  BY <1>1, Zenon DEF SnapshotOn, Writers, InMode, Listed
<1>3. /\ \A r \in failed : signalled'[r]
      /\ \A r \in Replicas \ failed : signalled'[r] = signalled[r]
      /\ \A r \in Replicas : pending'[r] = IF r \in failed /\ ~signalled[r]
                                           THEN pending[r] + 1 ELSE pending[r]
  BY <1>1, <1>2, Zenon DEF SnapshotOn, StopMonitoring, Listed, ListInv, TypeOK, CtrlTypeOK
<1>4. UNCHANGED <<task, conn, readOnly, frontend>>
  BY Zenon DEF Snapshot, procVars
<1> HIDE DEF failed
<1>5. Unlisted' /\ Created'
  BY <1>2, <1>4, Zenon DEF ListInv, ListOK, Unlisted, Created, Listed
<1>6. FailedSignal'
  BY <1>2, <1>3, <1>4, Zenon DEF ListInv, ListOK, FailedSignal, Listed
<1>7. SignalsWait'
  <2>1. \A r \in Replicas : pending[r] \in Nat
    BY Zenon DEF ListInv, TypeOK, CtrlTypeOK
  <2>2. SignalsWait
    BY Zenon DEF ListInv, ListOK
  <2> SUFFICES ASSUME NEW r \in Listed(mode)', signalled'[r] PROVE pending'[r] > 0
    BY Zenon DEF SignalsWait
  <2>3. r \in Replicas /\ mode[r] # "NONE"
    BY <1>2, Zenon DEF Listed
  <2>4. pending'[r] = pending[r] + 1 \/ (pending'[r] = pending[r] /\ pending[r] > 0)
    BY <1>3, <2>2, <2>3, Zenon DEF SignalsWait, Listed
  <2> QED  BY <2>1, <2>3, <2>4
<1>8. OneWO'
  BY <1>2, Zenon DEF ListInv, ListOK, OneWO, InMode
<1>9. ReadOnlyIsCurrent'
  <2>1. CASE failed = {}
    <3>1. \A r \in Replicas : mode'[r] = mode[r]
      BY <1>2, <2>1, Zenon
    <3>2. InMode(mode, "RW")' = InMode(mode, "RW") /\ Listed(mode)' = Listed(mode)
      BY <3>1, Zenon DEF InMode, Listed
    <3> QED
      BY <1>4, <3>1, <3>2, Zenon DEF ListInv, ListOK, ReadOnlyIsCurrent, ReadOnlyOf, Listed
  <2>2. CASE failed # {}
    BY <1>2, <2>2, Zenon DEF ReadOnlyIsCurrent, Listed
  <2> QED  BY <2>1, <2>2, Zenon
<1> QED  BY <1>5, <1>6, <1>7, <1>8, <1>9, Zenon DEF ListOK

\* An operator's removal and a monitoring goroutine keep the invariant of the list.
\* The goroutine that takes the last signal of an address takes it off the list.
LEMMA MonitoringListStep ==
  ASSUME ListInv, NEW r \in Replicas, RemoveReplica(r) \/ Monitoring(r)
  PROVE  ListOK'
<1>1. UNCHANGED task
  BY Zenon DEF RemoveReplica, RemoveReplicaNoLock, Monitoring, procVars
<1>2. JoinMoves
  BY <1>1, Zenon DEF JoinMoves
<1>3. CASE RemoveReplica(r)
  <2>1. {r} \in SUBSET Listed(mode)
    BY <1>3, Zenon DEF RemoveReplica, RemoveReplicaNoLock, Listed
  <2>2. \E S : RemoveReplicas(Without(mode, {r}), {r}, S)
    BY <1>3, Zenon DEF RemoveReplica, RemoveReplicaNoLock
  <2> QED  BY <1>2, <2>1, <2>2, RemovalStep, Zenon
<1>4. CASE Monitoring(r) /\ mode[r] = "NONE"
  <2>1. /\ UNCHANGED <<mode, readOnly, frontend, signalled, conn>>
        /\ \A q \in Replicas \ {r} : pending'[q] = pending[q]
    BY <1>4, Zenon DEF Monitoring, procVars, ListInv, TypeOK, CtrlTypeOK
  <2>2. Unlisted' /\ Created'
    BY <1>1, <2>1, Zenon DEF ListInv, ListOK, Unlisted, Created
  <2>3. FailedSignal' /\ SignalsWait' /\ OneWO'
    BY <1>4, <2>1, Zenon DEF ListInv, ListOK, FailedSignal, SignalsWait, OneWO, Listed, InMode
  <2>4. ReadOnlyIsCurrent'
    BY <1>1, <2>1, Zenon DEF ListInv, ListOK, ReadOnlyIsCurrent, ReadOnlyOf, Listed, InMode
  <2> QED  BY <2>2, <2>3, <2>4, Zenon DEF ListOK
<1>5. CASE Monitoring(r) /\ mode[r] # "NONE"
  <2>1. \A q \in Replicas : mode'[q] = IF q = r THEN "NONE" ELSE mode[q]
    BY <1>5, Zenon DEF Monitoring, Without
  <2>2. \A q \in Replicas \ {r} : /\ conn'[q] = conn[q]
                                  /\ signalled'[q] = signalled[q]
                                  /\ pending'[q] = pending[q]
    BY <1>5, Zenon DEF Monitoring, ListInv, TypeOK, CtrlTypeOK, ProcTypeOK
  <2>3. readOnly' = ReadOnlyOf(mode')
    BY <1>5, Zenon DEF Monitoring, UpdateVolStatus
  <2>4. Unlisted' /\ Created'
    BY <1>1, <1>5, <2>1, <2>2, Zenon DEF ListInv, ListOK, Unlisted, Created
  <2>5. FailedSignal' /\ SignalsWait' /\ OneWO'
    BY <2>1, <2>2, Zenon DEF ListInv, ListOK, FailedSignal, SignalsWait, OneWO, Listed, InMode
  <2>6. ReadOnlyIsCurrent'
    BY <2>3, Zenon DEF ReadOnlyIsCurrent, ReadOnlyOf, InMode
  <2> QED  BY <2>4, <2>5, <2>6 DEF ListOK
<1> QED  BY <1>3, <1>4, <1>5, Zenon

\* The end of a replica process keeps the invariant of the list: the lost connection
\* signals the goroutine of a listed replica.
LEMMA ExitListStep ==
  ASSUME ListInv, NEW r \in Replicas, Exit(r)
  PROVE  ListOK'
<1>1. UNCHANGED <<mode, readOnly, frontend>>
  BY Zenon DEF Exit
<1>2. /\ ~conn'[r] /\ task'[r] = "idle"
      /\ \A q \in Replicas \ {r} : conn'[q] = conn[q] /\ task'[q] = task[q]
  BY Zenon DEF Exit, SetTask, ListInv, TypeOK, ProcTypeOK
<1>3. /\ mode[r] # "NONE" => signalled'[r] /\ pending'[r] = IF signalled[r] THEN pending[r]
                                                            ELSE pending[r] + 1
      /\ \A q \in Replicas \ {r} : signalled'[q] = signalled[q] /\ pending'[q] = pending[q]
  BY Zenon DEF Exit, StopMonitoring, ListInv, TypeOK, CtrlTypeOK
<1>4. Unlisted' /\ Created' /\ OneWO'
  BY <1>1, <1>2, Zenon DEF ListInv, ListOK, Unlisted, Created, OneWO, InMode
<1>5. FailedSignal'
  BY <1>1, <1>2, <1>3, Zenon DEF ListInv, ListOK, FailedSignal, Listed
<1>6. SignalsWait'
  <2>1. \A q \in Replicas : pending[q] \in Nat
    BY Zenon DEF ListInv, TypeOK, CtrlTypeOK
  <2>2. SignalsWait
    BY Zenon DEF ListInv, ListOK
  <2> SUFFICES ASSUME NEW q \in Listed(mode)', signalled'[q] PROVE pending'[q] > 0
    BY Zenon DEF SignalsWait
  <2>3. q \in Replicas /\ mode[q] # "NONE"
    BY <1>1, Zenon DEF Listed
  <2>4. CASE q # r
    BY <1>3, <2>2, <2>3, <2>4, Zenon DEF SignalsWait, Listed
  <2>5. CASE q = r
    <3>1. pending'[q] = pending[q] + 1 \/ (pending'[q] = pending[q] /\ pending[q] > 0)
      BY <1>3, <2>2, <2>3, <2>5, Zenon DEF SignalsWait, Listed
    <3> QED  BY <2>1, <2>3, <3>1
  <2> QED  BY <2>4, <2>5, Zenon
<1>7. ReadOnlyIsCurrent'
  BY <1>1, <1>2, Zenon DEF ListInv, ListOK, ReadOnlyIsCurrent, ReadOnlyOf, Listed, InMode
<1> QED  BY <1>4, <1>5, <1>6, <1>7, Zenon DEF ListOK

\* Shutdown and a restart of the controller take the frontend down and empty the list.
LEMMA ControllerStopsListStep ==
  ASSUME ListInv, Shutdown \/ ControllerRestart
  PROVE  ListOK'
<1>1. CASE ShutdownFrontend
  <2>1. UNCHANGED <<mode, pending, signalled, task, conn>> /\ ~frontend'
    BY <1>1, Zenon DEF ShutdownFrontend, procVars
  <2>2. Unlisted' /\ Created' /\ FailedSignal' /\ SignalsWait' /\ OneWO'
    BY <2>1, Zenon
    DEF ListInv, ListOK, Unlisted, Created, FailedSignal, SignalsWait, OneWO, Listed, InMode
  <2>3. ReadOnlyIsCurrent'
    BY <2>1, Zenon DEF ReadOnlyIsCurrent
  <2> QED  BY <2>2, <2>3, Zenon DEF ListOK
<1>2. CASE ShutdownBackend \/ ControllerRestart
  <2>1. \A r \in Replicas : mode'[r] = "NONE"
    BY <1>2, Zenon DEF ShutdownBackend, ControllerRestart
  <2>4. ~frontend'
    BY <1>2, Zenon DEF ShutdownBackend, ControllerRestart
  <2>2. Unlisted' /\ FailedSignal' /\ SignalsWait' /\ OneWO' /\ ReadOnlyIsCurrent'
    BY <2>1, <2>4, Zenon
    DEF Unlisted, FailedSignal, SignalsWait, OneWO, ReadOnlyIsCurrent, Listed, InMode
  <2>3. Created'
    BY <1>2, Zenon
    DEF ShutdownBackend, ControllerRestart, Orphaned, ListInv, ListOK, Unlisted, Created
  <2> QED  BY <2>2, <2>3, Zenon DEF ListOK
<1> QED  BY <1>1, <1>2, Zenon DEF Shutdown

\* The invariant of the replica list, which the three theorems below rest on.
LEMMA ListInvariant == Spec => []ListInv
<1>1. Init => ListInv
  <2> SUFFICES ASSUME Init PROVE ListInv
    BY Zenon
  <2>1. TypeOK
    BY InitType, Zenon
  <2>2. ListOK
    BY Zenon DEF Init, ListOK, Unlisted, Created, FailedSignal, SignalsWait, OneWO, ReadOnlyIsCurrent,
           Listed, InMode
  <2> QED  BY <2>1, <2>2, Zenon DEF ListInv
<1>2. ListInv /\ [Next]_vars => ListInv'
  <2> SUFFICES ASSUME ListInv, [Next]_vars PROVE ListInv'
    BY Zenon
  <2>1. TypeOK'
    BY StepType, Zenon DEF ListInv
  <2>2. ListOK'
    <3>1. CASE WriteAt \/ ReadAt \/ Sync  BY <3>1, IOListStep, Zenon
    <3>2. CASE Snapshot  BY <3>2, SnapshotListStep, Zenon
    <3>3. CASE Shutdown \/ ControllerRestart  BY <3>3, ControllerStopsListStep, Zenon
    <3>4. ASSUME NEW r \in Replicas, Start(r) \/ StartIgnored(r) \/ StartFails(r)
          PROVE  ListOK'
      BY <3>4, StartListStep, Zenon
    <3>5. ASSUME NEW r \in Replicas, Add(r) PROVE ListOK'
      BY <3>5, AddListStep, Zenon
    <3>6. ASSUME NEW r \in Replicas, Rebuild(r) PROVE ListOK'
      BY <3>6, RebuildListStep, Zenon
    <3>7. ASSUME NEW r \in Replicas, RemoveReplica(r) \/ Monitoring(r) PROVE ListOK'
      BY <3>7, MonitoringListStep, Zenon
    <3>8. ASSUME NEW r \in Replicas, Crash(r) \/ Restart(r) PROVE ListOK'
      BY <3>8, ExitListStep, Zenon DEF Crash, Restart
    <3>9. CASE UNCHANGED vars
      <4>1. JoinMoves
        BY <3>9, Zenon DEF vars, procVars, JoinMoves
      <4> QED  BY <3>9, <4>1, QuietStep, Zenon DEF vars, ctrlVars, procVars
    <3> QED
      BY <3>1, <3>2, <3>3, <3>4, <3>5, <3>6, <3>7, <3>8, <3>9, Zenon DEF Next
  <2> QED  BY <2>1, <2>2, Zenon DEF ListInv
<1> QED  BY <1>1, <1>2, PTL DEF Spec

\* No two replicas are rebuilt at a time, however many ask to join while another join
\* has given up the lock.
THEOREM OneRebuildAtATime == Spec => []AtMostOneWO
<1>1. ListInv => AtMostOneWO
  <2> SUFFICES ASSUME ListInv PROVE AtMostOneWO
    BY Zenon
  <2>1. CASE InMode(mode, "WO") = {}
    BY <2>1, FS_EmptySet DEF AtMostOneWO
  <2>2. CASE InMode(mode, "WO") # {}
    <3>1. PICK a : InMode(mode, "WO") = {a}
      BY <2>2, Zenon DEF ListInv, ListOK, OneWO
    <3> QED  BY <3>1, FS_Singleton DEF AtMostOneWO
  <2> QED  BY <2>1, <2>2, Zenon
<1> QED  BY <1>1, ListInvariant, PTL

\* A failed replica does not stay in the list for want of a signal: a goroutine is on
\* its way to remove it.
THEOREM FailedReplicasAreSignalled == Spec => []DeadAreSignalled
<1>1. ListInv => DeadAreSignalled
  BY Zenon DEF ListInv, ListOK, FailedSignal, SignalsWait, DeadAreSignalled
<1> QED  BY <1>1, ListInvariant, PTL

\* Outside the time a failed replica takes to be removed, ReadOnly is computed from the
\* current modes.
THEOREM ReadOnlyFollowsModes == Spec => []ReadOnlyIsCurrent
<1>1. ListInv => ReadOnlyIsCurrent
  BY Zenon DEF ListInv, ListOK
<1> QED  BY <1>1, ListInvariant, PTL

-----------------------------------------------------------------------------
(* Snapshots, reverts and resizes: the inductive invariants *)

USE ManagementAssumption DEF ManagementAssumption

\* The stored checkpoints are in all the chains; the checkpoint of the controller,
\* when it has one, is that of every replica; and a cleaner is only ever about to
\* delete what is below all of them.
CheckpointInv ==
  /\ \A r, q \in Replicas : repCkpt[r] \in {0} \cup chain[q]
  /\ checkpoint # 0 => \A q \in Replicas : repCkpt[q] = checkpoint
  /\ \A r, q \in Replicas : victim[r] # 0 => victim[r] < repCkpt[q]

\* The replicas have one size, and while one of them serves the volume has no more.
SizeInv ==
  /\ \A r, q \in Replicas : rsize[r] = rsize[q]
  /\ InMode(mode, "RW") # {} => \A r \in Replicas : size <= rsize[r]

-----------------------------------------------------------------------------
(* Type correctness *)

\* Marking replicas ERR keeps the types of the list (replicator.SetMode).
LEMMA SetErrType ==
  ASSUME CtrlTypeOK, NEW F, SetErr(F)
  PROVE  /\ mode' \in [Replicas -> Modes]
         /\ pending' \in [Replicas -> Nat]
         /\ signalled' \in [Replicas -> BOOLEAN]
<1>1. mode' \in [Replicas -> Modes]
  BY Zenon DEF SetErr, CtrlTypeOK, Modes
<1> QED  BY <1>1 DEF SetErr, StopMonitoring, CtrlTypeOK

\* A request is counted within the bound.
LEMMA RequestType ==
  ASSUME requests \in 0..MaxRequests, Request
  PROVE  requests' \in 0..MaxRequests
BY DEF Request

\* The deletion of a snapshot is asked for (DeleteSnapshot, PrepareRemoveDisk).
LEMMA DeleteSnapshotType ==
  ASSUME MgmtTypeOK, NEW n \in Names, DeleteSnapshot(n)
  PROVE  MgmtTypeOK'
<1>1. PICK done : MarkOn(done, n)
  BY Zenon DEF DeleteSnapshot
<1>2. \E b : Disturb(b)
  BY Zenon DEF DeleteSnapshot
<1>3. /\ Request
      /\ UNCHANGED <<ctrlVars, diskVars, procVars, acked, uncounted, lastWrite, lastSnap,
                     size, rsize, users, victim, revert>>
  BY Zenon DEF DeleteSnapshot
<1>4. faults' \in 0..MaxFaults
  BY <1>2, DisturbType, Zenon DEF MgmtTypeOK
<1>5. TypeOK'
  BY <1>3, <1>4, Zenon
  DEF MgmtTypeOK, TypeOK, CtrlTypeOK, DiskTypeOK, ProcTypeOK, HistTypeOK,
      ctrlVars, diskVars, procVars
<1>6. marked' \in [Replicas -> SUBSET Names]
  BY <1>1, Zenon DEF MarkOn, MgmtTypeOK
<1>7. kept' \subseteq kept
  BY <1>1, Zenon DEF MarkOn
<1>8. requests' \in 0..MaxRequests
  BY <1>3, RequestType, Zenon DEF MgmtTypeOK
<1> QED  BY <1>3, <1>5, <1>6, <1>7, <1>8, Zenon DEF MgmtTypeOK

\* The disks of r once n is folded into its parent
Folded(r, n) == [k \in 0..MaxSnaps |-> CASE k = n -> {}
                                         [] k \in Parent(r, n) -> data[r][k] \cup data[r][n]
                                         [] OTHER -> data[r][k]]

\* A snapshot is folded into its parent (RemoveDiffDisk).
LEMMA FoldedType ==
  ASSUME TypeOK, NEW r \in Replicas, NEW n \in 0..MaxSnaps
  PROVE  Folded(r, n) \in [0..MaxSnaps -> SUBSET (1..MaxWrites)]
<1>1. data[r] \in [0..MaxSnaps -> SUBSET (1..MaxWrites)]
  BY Zenon DEF TypeOK, DiskTypeOK
<1>2. n \notin Parent(r, n)
  BY DEF Parent
<1> QED  BY <1>1, <1>2, Zenon DEF Folded

\* A cleaner picks a snapshot and folds it into its parent (CleanerPicks,
\* CleanerDeletes).
LEMMA CleanerType ==
  ASSUME MgmtTypeOK, NEW r \in Replicas, CleanerPicks(r) \/ CleanerDeletes(r)
  PROVE  MgmtTypeOK'
<1>1. CASE CleanerPicks(r)
  <2>1. PICK n \in DeleteCandidates(r, checkpoint) : victim' = [victim EXCEPT ![r] = n]
    BY <1>1, Zenon DEF CleanerPicks
  <2>2. n \in 0..MaxSnaps
    BY DEF DeleteCandidates, MgmtTypeOK, TypeOK, DiskTypeOK, Names
  <2>3. UNCHANGED <<vars, size, rsize, users, marked, revert, requests, kept>>
    BY <1>1, Zenon DEF CleanerPicks
  <2>4. TypeOK'
    BY <2>3, StepType, Zenon DEF MgmtTypeOK
  <2> QED  BY <2>1, <2>2, <2>3, <2>4, Zenon DEF MgmtTypeOK
<1>2. CASE CleanerDeletes(r)
  <2>1. /\ victim' = [victim EXCEPT ![r] = 0]
        /\ UNCHANGED <<ctrlVars, rev, repCkpt, rebuilding, procVars, histVars,
                       size, rsize, users, revert, requests, kept>>
    BY <1>2, Zenon DEF CleanerDeletes
  <2>2. /\ chain' \in [Replicas -> SUBSET Names]
        /\ data' \in [Replicas -> [0..MaxSnaps -> SUBSET (1..MaxWrites)]]
        /\ marked' \in [Replicas -> SUBSET Names]
    <3>1. CASE UNCHANGED <<chain, data, marked>>
      BY <3>1, Zenon DEF MgmtTypeOK, TypeOK, DiskTypeOK
    <3>2. CASE /\ chain' = [chain EXCEPT ![r] = @ \ {victim[r]}]
               /\ data' = [data EXCEPT ![r] = Folded(r, victim[r])]
               /\ marked' = [marked EXCEPT ![r] = @ \ {victim[r]}]
      <4>1. chain' \in [Replicas -> SUBSET Names] /\ marked' \in [Replicas -> SUBSET Names]
        BY <3>2, Zenon DEF MgmtTypeOK, TypeOK, DiskTypeOK
      <4>2. victim[r] \in 0..MaxSnaps
        BY Zenon DEF MgmtTypeOK
      <4>3. Folded(r, victim[r]) \in [0..MaxSnaps -> SUBSET (1..MaxWrites)]
        BY <4>2, FoldedType, Zenon DEF MgmtTypeOK
      <4> QED  BY <3>2, <4>1, <4>3, Zenon DEF MgmtTypeOK, TypeOK, DiskTypeOK
    <3>3. \/ UNCHANGED <<chain, data, marked>>
          \/ /\ chain' = [chain EXCEPT ![r] = @ \ {victim[r]}]
             /\ data' = [data EXCEPT ![r] = Folded(r, victim[r])]
             /\ marked' = [marked EXCEPT ![r] = @ \ {victim[r]}]
      BY <1>2, Zenon DEF CleanerDeletes, Folded
    <3> QED  BY <3>1, <3>2, <3>3, Zenon
  <2>3. TypeOK'
    BY <2>1, <2>2, Zenon
    DEF MgmtTypeOK, TypeOK, CtrlTypeOK, DiskTypeOK, ProcTypeOK, HistTypeOK,
        ctrlVars, procVars, histVars
  <2>4. victim' \in [Replicas -> 0..MaxSnaps]
    BY <2>1 DEF MgmtTypeOK
  <2>5. UNCHANGED <<size, rsize, users, revert, requests, kept>>
    BY <2>1, Zenon
  <2> QED  BY <2>2, <2>3, <2>4, <2>5, Zenon DEF MgmtTypeOK
<1> QED  BY <1>1, <1>2, Zenon

\* A revert: the list is read, the frontend shut, and the replicas asked under the
\* lock (Revert, revertDisk).
LEMMA RevertType ==
  ASSUME MgmtTypeOK,
         \/ \E n \in Names : RevertAsked(n)
         \/ RevertShutsFrontend \/ RevertLocked
  PROVE  MgmtTypeOK'
<1>1. ASSUME NEW n \in Names, RevertAsked(n) PROVE MgmtTypeOK'
  <2>1. /\ revert' = [phase |-> "asked", name |-> n, clients |-> Clients]
        /\ Request
        /\ UNCHANGED <<vars, size, rsize, users, marked, victim, kept>>
    BY <1>1, Zenon DEF RevertAsked
  <2>2. TypeOK'
    BY <2>1, StepType, Zenon DEF MgmtTypeOK
  <2>3. revert' \in [phase : {"none", "asked", "down"}, name : 0..MaxSnaps,
                     clients : SUBSET Replicas]
    BY <2>1 DEF Clients, InMode, Names
  <2>4. requests' \in 0..MaxRequests
    BY <2>1, RequestType, Zenon DEF MgmtTypeOK
  <2> QED  BY <2>1, <2>2, <2>3, <2>4, Zenon DEF MgmtTypeOK
<1>2. ASSUME RevertShutsFrontend PROVE MgmtTypeOK'
  <2>1. /\ frontend' = FALSE
        /\ UNCHANGED <<mode, readOnly, rwCount, checkpoint, pending, signalled, diskVars,
                       procVars, histVars>>
    BY <1>2, Zenon DEF RevertShutsFrontend
  <2>2. TypeOK'
    BY <2>1, Zenon
    DEF MgmtTypeOK, TypeOK, CtrlTypeOK, DiskTypeOK, ProcTypeOK, HistTypeOK,
        diskVars, procVars, histVars
  <2>3. revert' \in [phase : {"none", "asked", "down"}, name : 0..MaxSnaps,
                     clients : SUBSET Replicas]
    BY <1>2, Zenon DEF RevertShutsFrontend, MgmtTypeOK
  <2>4. UNCHANGED <<size, rsize, users, marked, victim, requests, kept>>
    BY <1>2, Zenon DEF RevertShutsFrontend
  <2> QED  BY <2>2, <2>3, <2>4, Zenon DEF MgmtTypeOK
<1>3. ASSUME RevertLocked PROVE MgmtTypeOK'
  <2>1. PICK n : n = revert.name
    BY Zenon
  <2>2. PICK app, ok, b :
          /\ RevertDisk(app, n)
          /\ SetErr(revert.clients \ ok)
          /\ \/ UNCHANGED <<frontend, acked, kept>>
             \/ StartFrontend /\ \E r \in ok : ForgetAfter(r, n)
          /\ Disturb(b)
    BY <1>3, <2>1, Zenon DEF RevertLocked
  <2>3. /\ revert' = NoRevert
        /\ UNCHANGED <<readOnly, rwCount, checkpoint, rev, repCkpt, rebuilding, procVars,
                       uncounted, lastWrite, lastSnap, size, rsize, users, marked, victim,
                       requests>>
    BY <1>3, Zenon DEF RevertLocked
  <2>4. TypeOK /\ CtrlTypeOK /\ DiskTypeOK
    BY Zenon DEF MgmtTypeOK, TypeOK
  <2>5. /\ mode' \in [Replicas -> Modes]
        /\ pending' \in [Replicas -> Nat]
        /\ signalled' \in [Replicas -> BOOLEAN]
    BY <2>2, <2>4, SetErrType, Zenon
  <2>6. /\ frontend' \in BOOLEAN
        /\ acked' \in SUBSET (1..MaxWrites)
        /\ kept' \subseteq kept
    <3>1. frontend' \in BOOLEAN
      BY <2>2, <2>4, Zenon DEF CtrlTypeOK, StartFrontend
    <3>2. acked' \subseteq acked /\ kept' \subseteq kept
      BY <2>2, Zenon DEF ForgetAfter
    <3> QED  BY <2>4, <3>1, <3>2, Zenon DEF TypeOK, HistTypeOK
  <2>7. /\ chain' \in [Replicas -> SUBSET Names]
        /\ data' \in [Replicas -> [0..MaxSnaps -> SUBSET (1..MaxWrites)]]
    <3>1. ASSUME NEW r \in Replicas
          PROVE  [data[r] EXCEPT ![0] = {}] \in [0..MaxSnaps -> SUBSET (1..MaxWrites)]
      BY <2>4, Zenon DEF DiskTypeOK
    <3> QED  BY <2>2, <2>4, <3>1, Zenon DEF RevertDisk, DiskTypeOK
  <2>8. faults' \in 0..MaxFaults
    BY <2>2, <2>4, DisturbType, Zenon
  <2>9. TypeOK'
    BY <2>3, <2>4, <2>5, <2>6, <2>7, <2>8
    DEF TypeOK, CtrlTypeOK, DiskTypeOK, ProcTypeOK, HistTypeOK, procVars
  <2>10. revert' \in [phase : {"none", "asked", "down"}, name : 0..MaxSnaps,
                      clients : SUBSET Replicas]
    <3>1. 0 \in 0..MaxSnaps /\ {} \in SUBSET Replicas
      BY ReplicationAssumption
    <3>2. NoRevert \in [phase : {"none", "asked", "down"}, name : 0..MaxSnaps,
                        clients : SUBSET Replicas]
      BY <3>1, Zenon DEF NoRevert
    <3> QED  BY <2>3, <3>2, Zenon
  <2>11. UNCHANGED <<size, rsize, users, marked, victim, requests>>
    BY <2>3, Zenon
  <2> QED  BY <2>6, <2>9, <2>10, <2>11, Zenon DEF MgmtTypeOK
<1> QED  BY <1>1, <1>2, <1>3, Zenon

\* A resize (Resize, replicator.Resize).
LEMMA ResizeType ==
  ASSUME MgmtTypeOK, NEW s \in 1..MaxSize, Resize(s)
  PROVE  MgmtTypeOK'
<1>1. PICK app, F :
        /\ rsize' = [r \in Replicas |-> IF r \in app THEN s ELSE rsize[r]]
        /\ SetErr(F)
        /\ size' = s \/ UNCHANGED size
        /\ \E b : Disturb(b)
  BY Zenon DEF Resize
<1>2. /\ Request
      /\ UNCHANGED <<readOnly, rwCount, checkpoint, frontend, diskVars, procVars, acked,
                     uncounted, lastWrite, lastSnap, users, marked, victim, revert, kept>>
  BY Zenon DEF Resize
<1>3. TypeOK /\ CtrlTypeOK
  BY Zenon DEF MgmtTypeOK, TypeOK
<1>4. /\ mode' \in [Replicas -> Modes]
      /\ pending' \in [Replicas -> Nat]
      /\ signalled' \in [Replicas -> BOOLEAN]
  BY <1>1, <1>3, SetErrType, Zenon
<1>5. faults' \in 0..MaxFaults
  BY <1>1, <1>3, DisturbType, Zenon
<1>6. TypeOK'
  BY <1>2, <1>3, <1>4, <1>5
  DEF TypeOK, CtrlTypeOK, DiskTypeOK, ProcTypeOK, HistTypeOK, diskVars, procVars
<1>7. rsize' \in [Replicas -> 1..MaxSize] /\ size' \in 0..Unset
  BY <1>1 DEF MgmtTypeOK, Unset
<1>8. requests' \in 0..MaxRequests
  BY <1>2, RequestType, Zenon DEF MgmtTypeOK
<1>9. UNCHANGED <<users, marked, victim, revert, kept>>
  BY <1>2, Zenon
<1> QED  BY <1>6, <1>7, <1>8, <1>9, Zenon DEF MgmtTypeOK

\* The steps of the volume that have a part in the requests' state (Snapshot, Start,
\* syncFiles, the end of a process).
LEMMA VolumeType ==
  ASSUME MgmtTypeOK,
         \/ SnapshotVolume \/ ControllerEnds
         \/ \E r \in Replicas : StartVolume(r) \/ CopySnapshot(r) \/ ReplicaEnds(r)
  PROVE  MgmtTypeOK'
<1>1. TypeOK
  BY Zenon DEF MgmtTypeOK
<1>2. CASE SnapshotVolume
  <2>1. Snapshot /\ UNCHANGED <<size, rsize, marked, victim, revert, requests>>
    BY <1>2, Zenon DEF SnapshotVolume
  <2>2. TypeOK'
    BY <1>1, <2>1, SnapshotActionType, Zenon
  <2>3. lastSnap' \in Names
    BY <1>1, <2>1, NextSnapType, Zenon DEF Snapshot, SnapshotOn
  <2>4. users' \subseteq Names
    BY <1>2, <2>3, Zenon DEF SnapshotVolume, MgmtTypeOK
  <2>5. ASSUME NEW a \in Replicas PROVE Visible(a) \in SUBSET (1..MaxWrites)
    <3>1. \A n \in 0..MaxSnaps : data[a][n] \subseteq 1..MaxWrites
      BY <1>1 DEF TypeOK, DiskTypeOK
    <3>2. chain[a] \subseteq 0..MaxSnaps /\ 0 \in 0..MaxSnaps
      BY <1>1 DEF TypeOK, DiskTypeOK, Names
    <3> QED  BY <3>1, <3>2, Zenon DEF Visible
  <2>6. kept' \subseteq [name : Names, holds : SUBSET (1..MaxWrites)]
    <3>1. CASE UNCHANGED kept
      BY <3>1, Zenon DEF MgmtTypeOK
    <3>2. ASSUME NEW a \in Replicas, kept' = kept \cup {[name |-> lastSnap', holds |-> Visible(a)]}
          PROVE  kept' \subseteq [name : Names, holds : SUBSET (1..MaxWrites)]
      <4>1. [name |-> lastSnap', holds |-> Visible(a)] \in [name : Names, holds : SUBSET (1..MaxWrites)]
        BY <2>3, <2>5, Zenon
      <4> QED  BY <3>2, <4>1, Zenon DEF MgmtTypeOK
    <3> QED  BY <1>2, <3>1, <3>2, Zenon DEF SnapshotVolume, InMode
  <2> QED  BY <2>1, <2>2, <2>4, <2>6, Zenon DEF MgmtTypeOK
<1>3. CASE ControllerEnds
  <2>1. ControllerRestart /\ size' = 0 /\ revert' = NoRevert
    BY <1>3, Zenon DEF ControllerEnds
  <2>2. TypeOK' /\ size' \in 0..Unset
    BY <1>1, <2>1, ControllerStopsType DEF Unset
  <2>3. revert' \in [phase : {"none", "asked", "down"}, name : 0..MaxSnaps,
                     clients : SUBSET Replicas]
    BY <2>1 DEF NoRevert
  <2>4. UNCHANGED <<rsize, users, marked, victim, requests, kept>>
    BY <1>3, Zenon DEF ControllerEnds
  <2> QED  BY <2>2, <2>3, <2>4, Zenon DEF MgmtTypeOK
<1>4. ASSUME NEW r \in Replicas, StartVolume(r) PROVE MgmtTypeOK'
  <2>1. Start(r) \/ StartFails(r)
    BY <1>4, Zenon DEF StartVolume
  <2>2. TypeOK'
    BY <1>1, <2>1, StartType, Zenon
  <2>3. size' \in 0..Unset
    <3>1. rsize[r] \in 1..MaxSize
      BY Zenon DEF MgmtTypeOK
    <3>2. size' = rsize[r] \/ size' = Unset
      BY <1>4, Zenon DEF StartVolume
    <3> QED  BY <3>1, <3>2 DEF Unset
  <2>4. kept' \subseteq kept /\ UNCHANGED <<rsize, users, marked, victim, revert, requests>>
    BY <1>4, Zenon DEF StartVolume
  <2> QED  BY <2>2, <2>3, <2>4, Zenon DEF MgmtTypeOK
<1>5. ASSUME NEW r \in Replicas, CopySnapshot(r) PROVE MgmtTypeOK'
  <2>1. SyncFile(r) /\ UNCHANGED <<size, rsize, users, victim, revert, requests, kept>>
    BY <1>5, Zenon DEF CopySnapshot
  <2>2. TypeOK'
    BY <1>1, <2>1, RebuildType, Zenon DEF Rebuild
  <2>3. src[r] \in Replicas
    BY <1>1, Zenon DEF TypeOK, ProcTypeOK
  <2>4. \E c : marked' = [marked EXCEPT ![r] = (@ \ c) \cup (marked[src[r]] \cap c)]
    BY <1>5, Zenon DEF CopySnapshot
  <2>5. marked' \in [Replicas -> SUBSET Names]
    BY <2>3, <2>4 DEF MgmtTypeOK
  <2> QED  BY <2>1, <2>2, <2>5, Zenon DEF MgmtTypeOK
<1>6. ASSUME NEW r \in Replicas, ReplicaEnds(r) PROVE MgmtTypeOK'
  <2>1. (Crash(r) \/ Restart(r)) /\ victim' = [victim EXCEPT ![r] = 0]
    BY <1>6, Zenon DEF ReplicaEnds
  <2>2. TypeOK'
    BY <1>1, <2>1, ExitType, Zenon
  <2>3. victim' \in [Replicas -> 0..MaxSnaps]
    BY <2>1 DEF MgmtTypeOK
  <2>4. UNCHANGED <<size, rsize, users, marked, revert, requests, kept>>
    BY <1>6, Zenon DEF ReplicaEnds
  <2> QED  BY <2>2, <2>3, <2>4, Zenon DEF MgmtTypeOK
<1> QED  BY <1>2, <1>3, <1>4, <1>5, <1>6, Zenon

\* The initial state is well typed.
LEMMA MgmtInitType == MgmtInit => MgmtTypeOK
<1> SUFFICES ASSUME MgmtInit PROVE MgmtTypeOK
  BY Zenon
<1>1. TypeOK
  BY InitType, Zenon DEF MgmtInit
<1>2. /\ size \in 0..Unset /\ rsize \in [Replicas -> 1..MaxSize]
      /\ victim \in [Replicas -> 0..MaxSnaps] /\ requests \in 0..MaxRequests
  BY DEF MgmtInit, Unset
<1>3. revert \in [phase : {"none", "asked", "down"}, name : 0..MaxSnaps,
                  clients : SUBSET Replicas]
  BY DEF MgmtInit, NoRevert
<1>4. users \subseteq Names /\ marked \in [Replicas -> SUBSET Names] /\ kept = {}
  BY Zenon DEF MgmtInit
<1> QED  BY <1>1, <1>2, <1>3, <1>4, Zenon DEF MgmtTypeOK

\* The steps of the volume that have no part in the requests' state
Unmanaged ==
  \/ WriteAt \/ ReadAt \/ Sync \/ Shutdown
  \/ \E r \in Replicas :
       \/ StartIgnored(r) \/ Add(r) \/ StartRebuild(r) \/ PrepareRebuild(r)
       \/ CompareChains(r) \/ Reload(r) \/ VerifyRebuild(r) \/ FinishRebuild(r)
       \/ RemoveReplica(r) \/ Monitoring(r)

\* Every step keeps the types.
LEMMA MgmtStepType == MgmtTypeOK /\ [MgmtNext]_allVars => MgmtTypeOK'
<1> SUFFICES ASSUME MgmtTypeOK, [MgmtNext]_allVars PROVE MgmtTypeOK'
  BY Zenon
<1>1. ASSUME Unmanaged, UNCHANGED mgmtVars PROVE MgmtTypeOK'
  <2>1. Next
    BY <1>1, Zenon DEF Unmanaged, Next, Rebuild
  <2>2. TypeOK'
    BY <2>1, StepType, Zenon DEF MgmtTypeOK
  <2> QED  BY <1>1, <2>2, Zenon DEF mgmtVars, MgmtTypeOK
<1>2. ASSUME UNCHANGED allVars PROVE MgmtTypeOK'
  <2>1. TypeOK'
    BY <1>2, StepType, Zenon DEF allVars, MgmtTypeOK
  <2> QED  BY <1>2, <2>1, Zenon DEF allVars, mgmtVars, MgmtTypeOK
<1>3. ASSUME NEW n \in Names, DeleteSnapshot(n) \/ RevertAsked(n) PROVE MgmtTypeOK'
  BY <1>3, DeleteSnapshotType, RevertType, Zenon
<1>4. ASSUME NEW s \in 1..MaxSize, Resize(s) PROVE MgmtTypeOK'
  BY <1>4, ResizeType, Zenon
<1>5. ASSUME NEW r \in Replicas, CleanerPicks(r) \/ CleanerDeletes(r) PROVE MgmtTypeOK'
  BY <1>5, CleanerType, Zenon
<1>6. ASSUME RevertShutsFrontend \/ RevertLocked PROVE MgmtTypeOK'
  BY <1>6, RevertType, Zenon
<1>7. ASSUME \/ SnapshotVolume \/ ControllerEnds
             \/ \E r \in Replicas : StartVolume(r) \/ CopySnapshot(r) \/ ReplicaEnds(r)
      PROVE  MgmtTypeOK'
  BY <1>7, VolumeType, Zenon
<1> QED  BY <1>1, <1>2, <1>3, <1>4, <1>5, <1>6, <1>7, Zenon DEF MgmtNext, Unmanaged

\* Type correctness: sizes, marks, victims, the revert being served and what the
\* user was promised stay in their types, in any volume and whatever fails.
THEOREM MgmtTypeCorrect == MgmtSpec => []MgmtTypeOK
BY MgmtInitType, MgmtStepType, PTL DEF MgmtSpec

-----------------------------------------------------------------------------
(* Checkpoints *)

\* The volume has no more replicas than its replication factor
FewReplicas == Cardinality(Replicas) <= RF

\* A new checkpoint is found only when every replica is RW, and it is the latest
\* snapshot of every one (UpdateCheckpoint, GetLatestSnapshot).
LEMMA NewCheckpointIs ==
  ASSUME FewReplicas, NEW m, NEW ch, NewCheckpoint(m, ch) # 0
  PROVE  /\ InMode(m, "RW") = Replicas
         /\ \A r \in Replicas : /\ NewCheckpoint(m, ch) \in ch[r]
                                /\ \A n \in ch[r] : n <= NewCheckpoint(m, ch)
<1>1. Cardinality(InMode(m, "RW")) = RF /\ NewCheckpoint(m, ch) = GetLatestSnapshot(m, ch)
  BY Zenon DEF NewCheckpoint
<1>2. InMode(m, "RW") = Replicas
  <2>1. InMode(m, "RW") \subseteq Replicas
    BY Zenon DEF InMode
  <2>2. /\ Cardinality(InMode(m, "RW")) <= Cardinality(Replicas)
        /\ Cardinality(Replicas) = Cardinality(InMode(m, "RW")) => Replicas = InMode(m, "RW")
    BY <2>1, FS_Subset, Zenon
  <2>3. Cardinality(Replicas) \in Nat
    BY FS_CardinalityType, Zenon
  <2> QED  BY <1>1, <2>2, <2>3 DEF FewReplicas
<1>3. Listed(m) = Replicas
  BY <1>2, Zenon DEF Listed, InMode
<1>4. PICK latest : latest = {s \in Names : \A r \in Listed(m) :
                                opened[r] /\ s \in ch[r] /\ \A n \in ch[r] : n <= s}
  BY Zenon
<1>5. latest # {} /\ GetLatestSnapshot(m, ch) = CHOOSE s \in latest : TRUE
  BY <1>1, <1>4, Zenon DEF GetLatestSnapshot
<1>6. GetLatestSnapshot(m, ch) \in latest
  BY <1>5, Zenon
<1> QED  BY <1>1, <1>2, <1>3, <1>4, <1>6, Zenon

\* A step keeps CheckpointInv when it sets no checkpoint, and takes none out of a
\* chain.
LEMMA CheckpointStays ==
  ASSUME CheckpointInv, UNCHANGED repCkpt, checkpoint' \in {0, checkpoint},
         \A r, q \in Replicas : repCkpt[r] \in chain[q] => repCkpt[r] \in chain'[q],
         \A r \in Replicas : victim'[r] \in {0, victim[r]}
  PROVE  CheckpointInv'
BY Zenon DEF CheckpointInv

\* A step keeps CheckpointInv when it sets a checkpoint on some replicas, or fails
\* to, and only adds to the chains (UpdateCheckpoint, SetCheckpoint): the new
\* checkpoint is above the old ones.
LEMMA CheckpointMoves ==
  ASSUME FewReplicas, MgmtTypeOK, CheckpointInv, NEW m, NEW S \in SetCheckpoint(m, chain),
         repCkpt' = StoreCheckpoint(m, chain, S, repCkpt),
         checkpoint' = 0 \/ UpdateCheckpoint(m, chain, S)
           \/ (NewCheckpoint(m, chain) = 0 /\ UNCHANGED checkpoint),
         \A q \in Replicas : chain[q] \subseteq chain'[q],
         UNCHANGED victim
  PROVE  CheckpointInv'
<1>1. PICK c : c = NewCheckpoint(m, chain)
  BY Zenon
<1>2. \A r \in Replicas : repCkpt'[r] = IF r \in S THEN c ELSE repCkpt[r]
  BY <1>1, Zenon DEF StoreCheckpoint
<1>3. CASE c = 0
  <2>1. S = {}
    BY <1>1, <1>3, Zenon DEF SetCheckpoint
  <2>2. \A r \in Replicas : repCkpt'[r] = repCkpt[r]
    BY <1>2, <2>1, Zenon
  <2>3. checkpoint' \in {0, checkpoint}
    BY <1>1, <1>3, Zenon DEF UpdateCheckpoint
  <2> QED  BY <2>2, <2>3, Zenon DEF CheckpointInv
<1>4. CASE c # 0
  <2>1. /\ InMode(m, "RW") = Replicas
        /\ \A r \in Replicas : c \in chain[r] /\ \A n \in chain[r] : n <= c
    BY <1>1, <1>4, NewCheckpointIs, Zenon
  <2>2. \A r, q \in Replicas : repCkpt'[r] \in {0} \cup chain'[q]
    BY <1>2, <2>1 DEF CheckpointInv
  <2>3. checkpoint' # 0 => S = Replicas /\ checkpoint' = c
    BY <1>1, <1>4, <2>1, Zenon DEF UpdateCheckpoint, SetCheckpointFails
  <2>4. ASSUME NEW r \in Replicas, NEW q \in Replicas, victim[r] # 0
        PROVE  victim[r] < repCkpt'[q]
    <3>1. victim[r] < repCkpt[q]
      BY <2>4, Zenon DEF CheckpointInv
    <3>2. c \in Int /\ repCkpt[q] \in Int /\ victim[r] \in Nat
      BY <2>1 DEF MgmtTypeOK, TypeOK, DiskTypeOK, Names
    <3>3. repCkpt[q] = 0 \/ repCkpt[q] \in chain[q]
      BY Zenon DEF CheckpointInv
    <3> QED  BY <1>2, <2>1, <2>4, <3>1, <3>2, <3>3
  <2> QED  BY <1>2, <2>2, <2>3, <2>4, Zenon DEF CheckpointInv
<1> QED  BY <1>3, <1>4, Zenon

\* A step that leaves checkpoints and chains alone keeps CheckpointInv.
LEMMA CheckpointQuiet ==
  ASSUME CheckpointInv, UNCHANGED <<checkpoint, repCkpt, chain, victim>>
  PROVE  CheckpointInv'
BY CheckpointStays, Zenon

\* The removal of replicas, by whomever (RemoveReplicaNoLock).
LEMMA CheckpointRemoval ==
  ASSUME FewReplicas, MgmtTypeOK, CheckpointInv, NEW m, NEW F,
         NEW S \in SetCheckpoint(m, chain), RemoveReplicas(m, F, S), UNCHANGED <<chain, victim>>
  PROVE  CheckpointInv'
<1>1. repCkpt' = StoreCheckpoint(m, chain, S, repCkpt) /\ UpdateCheckpoint(m, chain, S)
  BY Zenon DEF RemoveReplicas
<1>2. \A q \in Replicas : chain[q] \subseteq chain'[q]
  BY Zenon
<1> QED  BY <1>1, <1>2, CheckpointMoves, Zenon

\* Reads, writes and flushes (WriteAt, ReadAt, Sync).
LEMMA CheckpointIO ==
  ASSUME FewReplicas, MgmtTypeOK, CheckpointInv, WriteAt \/ ReadAt \/ Sync, UNCHANGED victim
  PROVE  CheckpointInv'
<1>1. CASE WriteAt
  <2>1. PICK dat, cnt, ok : WriteTo(dat, cnt, ok)
    BY <1>1, Zenon DEF WriteAt
  <2>2. UNCHANGED chain
    BY <1>1, Zenon DEF WriteAt
  <2>3. PICK failed : failed = Writers(mode) \ ok
    BY Zenon
  <2>4. PICK m : m = Without(mode, failed)
    BY Zenon
  <2>5. \/ UNCHANGED <<ctrlVars, repCkpt>>
        \/ \E S \in SetCheckpoint(m, chain) : RemoveReplicas(m, failed, S)
    BY <2>1, <2>3, <2>4, Zenon DEF WriteTo
  <2> QED  BY <2>2, <2>5, CheckpointQuiet, CheckpointRemoval, Zenon DEF ctrlVars
<1>2. ASSUME NEW F, FailedIO(F) PROVE CheckpointInv'
  <2>1. UNCHANGED chain
    BY <1>2, Zenon DEF FailedIO
  <2>2. \E m : \E S \in SetCheckpoint(m, chain) : RemoveReplicas(m, F, S)
    BY <1>2, Zenon DEF FailedIO
  <2> QED  BY <2>1, <2>2, CheckpointRemoval, Zenon
<1> QED  BY <1>1, <1>2, Zenon DEF ReadAt, Sync

\* Start (Start, addReplicaDuringStartNoLock).
LEMMA CheckpointStart ==
  ASSUME FewReplicas, MgmtTypeOK, CheckpointInv, NEW r \in Replicas,
         Start(r) \/ StartIgnored(r) \/ StartFails(r), UNCHANGED victim
  PROVE  CheckpointInv'
<1>1. UNCHANGED chain
  BY Zenon DEF Start, StartIgnored, StartFails, diskVars
<1>2. CASE Start(r)
  <2>1. PICK m : m = [mode EXCEPT ![r] = "RW"]
    BY Zenon
  <2>2. \/ UNCHANGED <<checkpoint, repCkpt>>
        \/ \E S \in SetCheckpoint(m, chain) :
             /\ UpdateCheckpoint(m, chain, S)
             /\ repCkpt' = StoreCheckpoint(m, chain, S, repCkpt)
    BY <1>2, <2>1, Zenon DEF Start
  <2> QED  BY <1>1, <2>2, CheckpointQuiet, CheckpointMoves, Zenon
<1>3. CASE StartIgnored(r)
  BY <1>3, CheckpointQuiet, Zenon DEF StartIgnored, ctrlVars, diskVars
<1>4. CASE StartFails(r)
  <2>1. GetLatestSnapshot(mode, chain) = 0
    BY <1>4, Zenon DEF StartFails, GetLatestSnapshot
  <2>2. NewCheckpoint(mode, chain) = 0
    BY <2>1, Zenon DEF NewCheckpoint
  <2>3. checkpoint' \in {0, checkpoint}
    BY <1>4, <2>2, Zenon DEF StartFails, UpdateCheckpoint
  <2>4. UNCHANGED repCkpt
    BY <1>4, Zenon DEF StartFails, diskVars
  <2> QED  BY <1>1, <2>3, <2>4, CheckpointStays, Zenon
<1> QED  BY <1>2, <1>3, <1>4, Zenon

\* The join of a replica (addReplica, addReplicaNoLock).
LEMMA CheckpointAdd ==
  ASSUME FewReplicas, MgmtTypeOK, CheckpointInv, NEW r \in Replicas, Add(r), UNCHANGED victim
  PROVE  CheckpointInv'
<1>1. CASE GetVolume(r) \/ AddReplicaCreate(r) \/ AddReplicaRefused(r)
  BY <1>1, CheckpointQuiet, Zenon DEF GetVolume, AddReplicaCreate, AddReplicaRefused, ctrlVars, diskVars
<1>2. CASE AddReplicaCheck(r)
  <2>1. UNCHANGED chain
    BY <1>2, Zenon DEF AddReplicaCheck
  <2>2. PICK m : m = Without(mode, TakenOver)
    BY Zenon
  <2>3. \/ UNCHANGED <<ctrlVars, repCkpt>>
        \/ \E S \in SetCheckpoint(m, chain) : RemoveReplicas(m, TakenOver, S)
    BY <1>2, <2>2, Zenon DEF AddReplicaCheck
  <2> QED  BY <2>1, <2>3, CheckpointQuiet, CheckpointRemoval, Zenon DEF ctrlVars
<1>3. CASE AddReplicaNoLock(r)
  <2>1. PICK m0 : m0 = Without(mode, TakenOver)
    OBVIOUS
  <2>2. PICK m1 : m1 = [m0 EXCEPT ![r] = "WO"]
    BY Zenon
  <2>3. m0 \in [Replicas -> Modes]
    BY <2>1, WithoutType, Zenon DEF MgmtTypeOK, TypeOK, CtrlTypeOK
  <2>4. PICK T, s : chain' = SnapshotChain(T, s)
    BY <1>3, Zenon DEF AddReplicaNoLock
  <2>5. \A q \in Replicas : chain[q] \subseteq chain'[q]
    BY <2>4, Zenon DEF SnapshotChain
  <2>6. PICK S \in IF TakenOver = {} THEN {{}} ELSE SetCheckpoint(m0, chain) :
          /\ repCkpt' = StoreCheckpoint(m0, chain, S, repCkpt)
          /\ \/ UpdateCheckpoint(m1, chain, {})
             \/ UNCHANGED checkpoint
             \/ UpdateCheckpoint(m0, chain, S)
    BY <1>3, <2>1, <2>2, Zenon DEF AddReplicaNoLock
  <2>7. S \in SetCheckpoint(m0, chain)
    BY <2>6, Zenon DEF SetCheckpoint
  <2>8. NewCheckpoint(m0, chain) = 0
    <3>1. m0[r] # "RW"
      BY <1>3, <2>1, Zenon DEF AddReplicaNoLock, CanAdd, Without
    <3> QED  BY <3>1, NewCheckpointIs, Zenon DEF InMode
  <2>9. NewCheckpoint(m1, chain) = 0
    <3>1. m1[r] # "RW"
      BY <2>2, <2>3, Zenon
    <3> QED  BY <3>1, NewCheckpointIs, Zenon DEF InMode
  <2>10. UpdateCheckpoint(m1, chain, {}) => checkpoint' = 0
    BY <2>9, Zenon DEF UpdateCheckpoint
  <2> QED  BY <2>5, <2>6, <2>7, <2>8, <2>10, CheckpointMoves, Zenon
<1> QED  BY <1>1, <1>2, <1>3, Zenon DEF Add

\* The rebuild: the snapshots that a joining replica drops or replaces are none of
\* the checkpoints, because its source has them all (PrepareRebuild, syncFiles).
LEMMA CheckpointRebuild ==
  ASSUME FewReplicas, MgmtTypeOK, CheckpointInv, NEW r \in Replicas, Rebuild(r), UNCHANGED victim
  PROVE  CheckpointInv'
<1>1. TypeOK /\ chain \in [Replicas -> SUBSET Names] /\ src[r] \in Replicas
  BY Zenon DEF MgmtTypeOK, TypeOK, DiskTypeOK, ProcTypeOK
<1>2. \A p, q, a \in Replicas : repCkpt[p] \in chain[q] => repCkpt[p] \in chain[a]
  BY <1>1 DEF CheckpointInv, Names
<1>3. CASE StartRebuild(r) \/ CompareChains(r) \/ Reload(r) \/ FinishRebuild(r)
  BY <1>3, CheckpointQuiet, Zenon
  DEF StartRebuild, CompareChains, Reload, FinishRebuild, ctrlVars, diskVars
<1>4. CASE PrepareRebuild(r)
  <2>1. UNCHANGED <<checkpoint, repCkpt>>
    BY <1>4, Zenon DEF PrepareRebuild, ctrlVars
  <2>2. \/ UNCHANGED chain
        \/ \E a \in Replicas :
             chain' = [chain EXCEPT ![r] = {n \in @ : \E t \in chain[a] : n <= t}]
    BY <1>4, Zenon DEF PrepareRebuild, InMode
  <2>3. ASSUME NEW p \in Replicas, NEW q \in Replicas, repCkpt[p] \in chain[q]
        PROVE  repCkpt[p] \in chain'[q]
    <3>1. \A a \in Replicas : repCkpt[p] \in chain[a]
      BY <1>2, <2>3, Zenon
    <3>2. repCkpt[p] \in Int
      BY <1>1, <2>3 DEF Names
    <3>3. \A a \in Replicas : \E t \in chain[a] : repCkpt[p] <= t
      BY <3>1, <3>2
    <3> QED  BY <1>1, <2>2, <2>3, <3>3, Zenon
  <2> QED  BY <2>1, <2>3, CheckpointStays, Zenon
<1>5. CASE SyncFile(r)
  <2>1. UNCHANGED <<checkpoint, repCkpt>>
    BY <1>5, Zenon DEF SyncFile, ctrlVars
  <2>2. PICK n \in todo[r] :
          \/ UNCHANGED chain
          \/ chain' = [chain EXCEPT ![r] = {k \in @ : k > n \/ k <= repCkpt[r]}
                                           \cup {k \in Newer(src[r], repCkpt[r]) : k <= n}]
    BY <1>5, Zenon DEF SyncFile
  <2>3. n \in Int /\ repCkpt[r] \in Int
    BY <1>1 DEF TypeOK, DiskTypeOK, ProcTypeOK, Names
  <2>4. ASSUME NEW p \in Replicas, NEW q \in Replicas, repCkpt[p] \in chain[q]
        PROVE  repCkpt[p] \in chain'[q]
    <3>1. \A a \in Replicas : repCkpt[p] \in chain[a]
      BY <1>2, <2>4, Zenon
    <3>2. repCkpt[p] \in Int
      <4>1. repCkpt \in [Replicas -> 0 .. MaxSnaps]
        BY <1>1, Zenon DEF TypeOK, DiskTypeOK
      <4>2. \A k \in 0 .. MaxSnaps : k \in Int
        OBVIOUS
      <4> QED  BY <4>1, <4>2, Zenon
    <3>3. \/ repCkpt[p] > n \/ repCkpt[p] <= repCkpt[r]
          \/ repCkpt[p] \in {k \in Newer(src[r], repCkpt[r]) : k <= n}
      <4>1. repCkpt[p] \in chain[src[r]]
        BY <1>1, <3>1, Zenon
      <4>2. \/ repCkpt[p] > n \/ repCkpt[p] <= repCkpt[r]
            \/ repCkpt[p] > repCkpt[r] /\ repCkpt[p] <= n
        <5>1. \A a, b, c \in Int : a > c \/ a <= b \/ (a > b /\ a <= c)
          OBVIOUS
        <5> QED  BY <2>3, <3>2, <5>1, Zenon
      <4> QED  BY <4>1, <4>2, Zenon DEF Newer
    <3> QED  BY <1>1, <2>2, <2>4, <3>1, <3>3, Zenon
  <2> QED  BY <2>1, <2>4, CheckpointStays, Zenon
<1>6. CASE VerifyRebuild(r)
  <2>1. UNCHANGED chain
    BY <1>6, Zenon DEF VerifyRebuild
  <2>2. PICK m : m = [mode EXCEPT ![r] = "RW"]
    BY Zenon
  <2>3. \/ UNCHANGED <<checkpoint, repCkpt>>
        \/ \E S \in SetCheckpoint(m, chain) :
             /\ UpdateCheckpoint(m, chain, S)
             /\ repCkpt' = StoreCheckpoint(m, chain, S, repCkpt)
    BY <1>6, <2>2, Zenon DEF VerifyRebuild
  <2> QED  BY <2>1, <2>3, CheckpointQuiet, CheckpointMoves, Zenon
<1> QED  BY <1>3, <1>4, <1>5, <1>6, Zenon DEF Rebuild

\* Snapshots, removals and the ends of processes (Snapshot, RemoveReplica,
\* monitoring, Shutdown).
LEMMA CheckpointVolume ==
  ASSUME FewReplicas, MgmtTypeOK, CheckpointInv
  PROVE  /\ SnapshotVolume \/ ControllerEnds => CheckpointInv'
         /\ Shutdown /\ UNCHANGED victim => CheckpointInv'
         /\ \A r \in Replicas : RemoveReplica(r) /\ UNCHANGED victim => CheckpointInv'
         /\ \A r \in Replicas : Monitoring(r) /\ UNCHANGED victim => CheckpointInv'
         /\ \A r \in Replicas : ReplicaEnds(r) => CheckpointInv'
<1>1. ASSUME SnapshotVolume PROVE CheckpointInv'
  <2>1. UNCHANGED <<checkpoint, repCkpt, victim>>
    BY <1>1, Zenon DEF SnapshotVolume, Snapshot
  <2>2. PICK app, s : chain' = SnapshotChain(app, s)
    BY <1>1, Zenon DEF SnapshotVolume, Snapshot, SnapshotOn
  <2>3. \A q \in Replicas : chain[q] \subseteq chain'[q]
    BY <2>2, Zenon DEF SnapshotChain
  <2> QED  BY <2>1, <2>3, CheckpointStays, Zenon
<1>2. ASSUME ControllerEnds PROVE CheckpointInv'
  <2>1. UNCHANGED <<repCkpt, chain, victim>> /\ checkpoint' = 0
    BY <1>2, Zenon DEF ControllerEnds, ControllerRestart, diskVars
  <2> QED  BY <2>1, CheckpointStays, Zenon
<1>3. ASSUME Shutdown, UNCHANGED victim PROVE CheckpointInv'
  BY <1>3, CheckpointQuiet, Zenon DEF Shutdown, ShutdownFrontend, ShutdownBackend, diskVars
<1>4. ASSUME NEW r \in Replicas, RemoveReplica(r), UNCHANGED victim PROVE CheckpointInv'
  <2>1. UNCHANGED chain
    BY <1>4, Zenon DEF RemoveReplica, RemoveReplicaNoLock
  <2>2. \E m : \E S \in SetCheckpoint(m, chain) : RemoveReplicas(m, {r}, S)
    BY <1>4, Zenon DEF RemoveReplica, RemoveReplicaNoLock
  <2> QED  BY <1>4, <2>1, <2>2, CheckpointRemoval, Zenon
<1>5. ASSUME NEW r \in Replicas, Monitoring(r), UNCHANGED victim PROVE CheckpointInv'
  <2>1. PICK m : m = Without(mode, {r})
    BY Zenon
  <2>2. UNCHANGED chain
    BY <1>5, Zenon DEF Monitoring, diskVars
  <2>3. \/ UNCHANGED <<checkpoint, repCkpt>>
        \/ \E S \in SetCheckpoint(m, chain) :
             /\ UpdateCheckpoint(m, chain, S)
             /\ repCkpt' = StoreCheckpoint(m, chain, S, repCkpt)
    BY <1>5, <2>1, Zenon DEF Monitoring, diskVars
  <2> QED  BY <1>5, <2>2, <2>3, CheckpointQuiet, CheckpointMoves, Zenon
<1>6. ASSUME NEW r \in Replicas, ReplicaEnds(r) PROVE CheckpointInv'
  <2>1. UNCHANGED <<checkpoint, repCkpt, chain>>
    BY <1>6, Zenon DEF ReplicaEnds, Crash, Restart, Exit
  <2>2. \A q \in Replicas : victim'[q] \in {0, victim[q]}
    BY <1>6, Zenon DEF ReplicaEnds, MgmtTypeOK
  <2> QED  BY <2>1, <2>2, CheckpointStays, Zenon
<1> QED  BY <1>1, <1>2, <1>3, <1>4, <1>5, <1>6, Zenon

\* The cleaner deletes only what is older than every checkpoint, and still is when
\* it gets to it, whatever happened since it asked (CleanUp, GetDeleteCandidateChain).
LEMMA CheckpointCleaner ==
  ASSUME MgmtTypeOK, CheckpointInv, NEW r \in Replicas, CleanerPicks(r) \/ CleanerDeletes(r)
  PROVE  CheckpointInv'
<1>1. CASE CleanerPicks(r)
  <2>1. UNCHANGED <<checkpoint, repCkpt, chain>> /\ checkpoint # 0
    BY <1>1, Zenon DEF CleanerPicks, vars, ctrlVars, diskVars
  <2>2. PICK n \in DeleteCandidates(r, checkpoint) : victim' = [victim EXCEPT ![r] = n]
    BY <1>1, Zenon DEF CleanerPicks
  <2>3. \A q \in Replicas : n < repCkpt[q]
    BY <2>1, <2>2, Zenon DEF DeleteCandidates, CheckpointInv
  <2>4. \A p, q \in Replicas : victim'[p] # 0 => victim'[p] < repCkpt[q]
    BY <2>2, <2>3, Zenon DEF MgmtTypeOK, CheckpointInv
  <2> QED  BY <2>1, <2>4, Zenon DEF CheckpointInv
<1>2. CASE CleanerDeletes(r)
  <2>1. UNCHANGED <<checkpoint, repCkpt>> /\ victim[r] # 0
    BY <1>2, Zenon DEF CleanerDeletes, ctrlVars
  <2>2. UNCHANGED chain \/ chain' = [chain EXCEPT ![r] = @ \ {victim[r]}]
    BY <1>2, Zenon DEF CleanerDeletes
  <2>3. \A p \in Replicas : repCkpt[p] # victim[r]
    BY <2>1 DEF CheckpointInv, MgmtTypeOK, TypeOK, DiskTypeOK
  <2>4. chain \in [Replicas -> SUBSET Names]
    BY Zenon DEF MgmtTypeOK, TypeOK, DiskTypeOK
  <2>5. \A p, q \in Replicas : repCkpt[p] \in chain[q] => repCkpt[p] \in chain'[q]
    BY <2>2, <2>3, <2>4, Zenon
  <2>6. \A q \in Replicas : victim'[q] \in {0, victim[q]}
    BY <1>2, Zenon DEF CleanerDeletes, MgmtTypeOK
  <2> QED  BY <2>1, <2>5, <2>6, CheckpointStays, Zenon
<1> QED  BY <1>1, <1>2, Zenon

\* A revert that stays at or above the checkpoint takes none out of a chain; the
\* other requests leave chains and checkpoints alone (Revert, DeleteSnapshot, Resize).
LEMMA CheckpointRequests ==
  ASSUME AllReached, MgmtTypeOK, CheckpointInv,
         \/ RevertShutsFrontend \/ RevertLocked
         \/ \E n \in Names : DeleteSnapshot(n) \/ RevertAsked(n)
         \/ \E s \in 1..MaxSize : Resize(s)
  PROVE  CheckpointInv'
<1>1. CASE RevertLocked
  <2>1. UNCHANGED <<checkpoint, repCkpt, victim>>
    BY <1>1, Zenon DEF RevertLocked
  <2>2. PICK n : n = revert.name
    BY Zenon
  <2>3. PICK app : /\ app = {} \/ \A r \in Replicas : n >= repCkpt[r]
                   /\ RevertDisk(app, n)
    BY <1>1, <2>2, Zenon DEF RevertLocked
  <2>4. \A p, q \in Replicas : repCkpt[p] \in chain[q] => repCkpt[p] \in chain'[q]
    <3>1. n \in Int /\ \A p \in Replicas : repCkpt[p] \in Int
      BY <2>2 DEF MgmtTypeOK, TypeOK, DiskTypeOK
    <3>2. \A q \in Replicas : chain'[q] = IF q \in app THEN {k \in chain[q] : k <= n} ELSE chain[q]
      BY <2>3, Zenon DEF RevertDisk
    <3> QED  BY <2>3, <3>1, <3>2, Zenon
  <2> QED  BY <2>1, <2>4, CheckpointStays, Zenon
<1>2. CASE RevertShutsFrontend \/ \E n \in Names : RevertAsked(n)
  BY <1>2, CheckpointQuiet, Zenon DEF RevertShutsFrontend, RevertAsked, vars, ctrlVars, diskVars
<1>3. ASSUME NEW n \in Names, DeleteSnapshot(n) PROVE CheckpointInv'
  BY <1>3, CheckpointQuiet, Zenon DEF DeleteSnapshot, ctrlVars, diskVars
<1>4. ASSUME NEW s \in 1..MaxSize, Resize(s) PROVE CheckpointInv'
  BY <1>4, CheckpointQuiet, Zenon DEF Resize, diskVars
<1> QED  BY <1>1, <1>2, <1>3, <1>4, Zenon

\* Every step keeps CheckpointInv.
LEMMA CheckpointStep ==
  ASSUME FewReplicas, AllReached, MgmtTypeOK, CheckpointInv, [MgmtNext]_allVars
  PROVE  CheckpointInv'
<1>1. ASSUME UNCHANGED allVars PROVE CheckpointInv'
  BY <1>1, CheckpointQuiet, Zenon DEF allVars, vars, ctrlVars, diskVars, mgmtVars
<1>2. ASSUME WriteAt \/ ReadAt \/ Sync \/ Shutdown, UNCHANGED mgmtVars PROVE CheckpointInv'
  BY <1>2, CheckpointIO, CheckpointVolume, Zenon DEF mgmtVars
<1>3. ASSUME NEW r \in Replicas, UNCHANGED mgmtVars,
             \/ StartIgnored(r) \/ Add(r) \/ StartRebuild(r) \/ PrepareRebuild(r)
             \/ CompareChains(r) \/ Reload(r) \/ VerifyRebuild(r) \/ FinishRebuild(r)
             \/ RemoveReplica(r) \/ Monitoring(r)
      PROVE  CheckpointInv'
  <2>1. UNCHANGED victim
    BY <1>3, Zenon DEF mgmtVars
  <2>2. StartIgnored(r) \/ Add(r) \/ Rebuild(r) \/ RemoveReplica(r) \/ Monitoring(r)
    BY <1>3, Zenon DEF Rebuild
  <2> QED  BY <2>1, <2>2, CheckpointStart, CheckpointAdd, CheckpointRebuild, CheckpointVolume, Zenon
<1>4. ASSUME NEW r \in Replicas,
             StartVolume(r) \/ CopySnapshot(r) \/ ReplicaEnds(r) \/ CleanerPicks(r) \/ CleanerDeletes(r)
      PROVE  CheckpointInv'
  <2>1. CASE StartVolume(r)
    BY <2>1, CheckpointStart, Zenon DEF StartVolume
  <2>2. CASE CopySnapshot(r)
    <3>1. Rebuild(r) /\ UNCHANGED victim
      BY <2>2, Zenon DEF CopySnapshot, Rebuild
    <3> QED  BY <3>1, CheckpointRebuild, Zenon
  <2> QED  BY <1>4, <2>1, <2>2, CheckpointVolume, CheckpointCleaner, Zenon
<1>5. ASSUME SnapshotVolume \/ ControllerEnds PROVE CheckpointInv'
  BY <1>5, CheckpointVolume, Zenon
<1>6. ASSUME \/ RevertShutsFrontend \/ RevertLocked
             \/ \E n \in Names : DeleteSnapshot(n) \/ RevertAsked(n)
             \/ \E s \in 1..MaxSize : Resize(s)
      PROVE  CheckpointInv'
  BY <1>6, CheckpointRequests, Zenon
<1> QED  BY <1>1, <1>2, <1>3, <1>4, <1>5, <1>6, Zenon DEF MgmtNext

\* The checkpoint that a replica has stored is in the chain of every RW replica,
\* whatever the cleaners delete and the operator asks, so that a replica that was
\* away can still be rebuilt (isRevisionCountAndChainSame).  This needs a volume
\* of at most RF replicas, and reverts that every replica takes part in and that
\* stay at or above the checkpoint.
THEOREM CheckpointsAreKept ==
  (FewReplicas /\ AllReached) => (MgmtSpec => []CheckpointsStay)
<1> SUFFICES ASSUME FewReplicas, AllReached
             PROVE  MgmtSpec => []CheckpointsStay
  BY Zenon
<1>1. MgmtInit => CheckpointInv
  BY Zenon DEF MgmtInit, Init, CheckpointInv
<1>2. CheckpointInv => CheckpointsStay
  BY Zenon DEF CheckpointInv, CheckpointsStay, InMode
<1>3. MgmtTypeOK /\ CheckpointInv /\ [MgmtNext]_allVars => CheckpointInv'
  BY CheckpointStep, Zenon
<1> QED  BY <1>1, <1>2, <1>3, MgmtTypeCorrect, PTL DEF MgmtSpec

-----------------------------------------------------------------------------
(* Sizes *)

\* Apart from Start, a replica becomes RW only next to one that is: the source of
\* its rebuild (VerifyRebuildReplica).
LEMMA RWFromRW ==
  ASSUME TypeOK, Unmanaged \/ Snapshot \/ \E r \in Replicas : SyncFile(r) \/ Crash(r) \/ Restart(r),
         InMode(mode', "RW") # {}
  PROVE  InMode(mode, "RW") # {}
<1>1. mode \in [Replicas -> Modes]
  BY Zenon DEF TypeOK, CtrlTypeOK
<1>2. ASSUME NEW F, mode' = Without(mode, F) PROVE InMode(mode, "RW") # {}
  BY <1>2, Zenon DEF Without, InMode
<1>3. ASSUME UNCHANGED mode PROVE InMode(mode, "RW") # {}
  BY <1>3, Zenon DEF InMode
<1>4. CASE WriteAt
  <2>1. PICK dat, cnt, ok : WriteTo(dat, cnt, ok)
    BY <1>4, Zenon DEF WriteAt
  <2>2. UNCHANGED mode \/ mode' = Without(mode, Writers(mode) \ ok)
    BY <2>1, Zenon DEF WriteTo, ctrlVars, RemoveReplicas
  <2> QED  BY <1>2, <1>3, <2>2, Zenon
<1>5. CASE ReadAt \/ Sync
  <2>1. PICK F : FailedIO(F)
    BY <1>5, Zenon DEF ReadAt, Sync
  <2>2. mode' = Without(mode, F)
    BY <2>1, Zenon DEF FailedIO, RemoveReplicas
  <2> QED  BY <1>2, <2>2, Zenon
<1>6. CASE Shutdown
  <2>1. UNCHANGED mode \/ \A r \in Replicas : mode'[r] = "NONE"
    BY <1>6, Zenon DEF Shutdown, ShutdownFrontend, ShutdownBackend
  <2> QED  BY <1>3, <2>1, Zenon DEF InMode
<1>7. CASE Snapshot
  <2>1. PICK app, ok : SnapshotOn(app, ok)
    BY <1>7, Zenon DEF Snapshot
  <2>2. mode' = [r \in Replicas |-> IF r \in Writers(mode) \ ok THEN "ERR" ELSE mode[r]]
    BY <2>1, Zenon DEF SnapshotOn
  <2>3. \A r \in Replicas : mode'[r] = "RW" => mode[r] = "RW"
    BY <2>2, Zenon
  <2> QED  BY <2>3, Zenon DEF InMode
<1>8. ASSUME NEW r \in Replicas, Add(r) PROVE InMode(mode, "RW") # {}
  <2>1. CASE GetVolume(r) \/ AddReplicaCreate(r) \/ AddReplicaRefused(r)
    BY <1>3, <2>1, Zenon DEF GetVolume, AddReplicaCreate, AddReplicaRefused, ctrlVars
  <2>2. CASE AddReplicaCheck(r)
    <3>1. UNCHANGED mode \/ mode' = Without(mode, TakenOver)
      BY <2>2, Zenon DEF AddReplicaCheck, RemoveReplicas, ctrlVars
    <3> QED  BY <1>2, <1>3, <3>1, Zenon
  <2>3. CASE AddReplicaNoLock(r)
    <3>1. PICK m0 : m0 = Without(mode, TakenOver)
      BY Zenon
    <3>2. mode' = m0 \/ mode' = [m0 EXCEPT ![r] = "WO"]
      BY <2>3, <3>1, Zenon DEF AddReplicaNoLock
    <3>3. \A q \in Replicas : mode'[q] = "RW" => mode[q] = "RW"
      BY <3>1, <3>2, Zenon DEF Without
    <3> QED  BY <3>3, Zenon DEF InMode
  <2> QED  BY <1>8, <2>1, <2>2, <2>3, Zenon DEF Add
<1>9. ASSUME NEW r \in Replicas, VerifyRebuild(r) PROVE InMode(mode, "RW") # {}
  <2>1. UNCHANGED mode \/ \E a \in InMode(mode, "RW") : TRUE
    BY <1>9, Zenon DEF VerifyRebuild
  <2> QED  BY <1>3, <2>1, Zenon
<1>10. ASSUME NEW r \in Replicas, RemoveReplica(r) \/ Monitoring(r)
       PROVE  InMode(mode, "RW") # {}
  <2>1. UNCHANGED mode \/ mode' = Without(mode, {r})
    BY <1>10, Zenon DEF RemoveReplica, RemoveReplicaNoLock, RemoveReplicas, Monitoring
  <2> QED  BY <1>2, <1>3, <2>1, Zenon
<1>11. ASSUME NEW r \in Replicas,
              \/ StartIgnored(r) \/ StartRebuild(r) \/ PrepareRebuild(r) \/ CompareChains(r)
              \/ SyncFile(r) \/ Reload(r) \/ FinishRebuild(r) \/ Crash(r) \/ Restart(r)
       PROVE  InMode(mode, "RW") # {}
  <2>1. UNCHANGED mode
    BY <1>11, Zenon DEF StartIgnored, StartRebuild, PrepareRebuild, CompareChains, SyncFile,
                 Reload, FinishRebuild, Crash, Restart, Exit, ctrlVars
  <2> QED  BY <1>3, <2>1, Zenon
<1> QED  BY <1>4, <1>5, <1>6, <1>7, <1>8, <1>9, <1>10, <1>11, Zenon DEF Unmanaged

\* A step that changes no size and makes no first RW replica keeps SizeInv.
LEMMA SizeStays ==
  ASSUME SizeInv, UNCHANGED <<size, rsize>>,
         InMode(mode', "RW") # {} => InMode(mode, "RW") # {}
  PROVE  SizeInv'
<1>1. InMode(mode, "RW")' = InMode(mode', "RW")
  BY Zenon DEF InMode
<1> QED  BY <1>1, Zenon DEF SizeInv

\* A resize that every replica takes part in (Resize, replicator.Resize)
LEMMA SizeResize ==
  ASSUME AllReached, MgmtTypeOK, SizeInv, NEW s \in 1..MaxSize, Resize(s)
  PROVE  SizeInv'
<1>1. PICK app \in SUBSET {r \in Resized : CanResize(r, s)} :
      \E ok \in SUBSET app :
        /\ Writers(mode) = Replicas /\ ok = Resized
        /\ rsize' = [r \in Replicas |-> IF r \in app THEN s ELSE rsize[r]]
  BY Zenon DEF Resize
<1>2. app = Replicas
  BY <1>1, Zenon DEF Resized
<1>3. \A r \in Replicas : rsize'[r] = s
  BY <1>1, <1>2, Zenon
<1>4. s > size /\ (size' = s \/ size' = size)
  BY Zenon DEF Resize
<1>5. s \in Int /\ size \in Int
  BY DEF MgmtTypeOK, Unset
<1>6. size' <= s
  BY <1>4, <1>5
<1> QED  BY <1>3, <1>6, Zenon DEF SizeInv

\* Start takes the size of a replica, and all are of one size (Start).
LEMMA SizeStart ==
  ASSUME MgmtTypeOK, SizeInv, NEW r \in Replicas, StartVolume(r)
  PROVE  SizeInv'
<1>1. UNCHANGED rsize
  BY Zenon DEF StartVolume
<1>2. CASE size' = rsize[r]
  <2>1. \A q \in Replicas : rsize[q] = rsize[r] /\ rsize[q] \in Int
    BY DEF SizeInv, MgmtTypeOK
  <2>2. \A q \in Replicas : size' <= rsize[q]
    BY <1>2, <2>1
  <2> QED  BY <1>1, <2>2, Zenon DEF SizeInv
<1>3. CASE StartFails(r)
  <2>1. InMode(mode, "RW")' = {}
    BY <1>3, Zenon DEF StartFails, Listed, InMode
  <2> QED  BY <1>1, <2>1, Zenon DEF SizeInv
<1> QED  BY <1>2, <1>3, Zenon DEF StartVolume

\* Every step keeps SizeInv.
LEMMA SizeStep ==
  ASSUME AllReached, MgmtTypeOK, SizeInv, [MgmtNext]_allVars
  PROVE  SizeInv'
<1>1. TypeOK
  BY Zenon DEF MgmtTypeOK
<1>2. ASSUME UNCHANGED <<mode, size, rsize>> PROVE SizeInv'
  BY <1>2, SizeStays, Zenon
<1>3. ASSUME UNCHANGED allVars PROVE SizeInv'
  BY <1>2, <1>3, Zenon DEF allVars, vars, ctrlVars, mgmtVars
<1>4. ASSUME Unmanaged, UNCHANGED mgmtVars PROVE SizeInv'
  BY <1>1, <1>4, RWFromRW, SizeStays, Zenon DEF mgmtVars
<1>5. ASSUME SnapshotVolume PROVE SizeInv'
  BY <1>1, <1>5, RWFromRW, SizeStays, Zenon DEF SnapshotVolume
<1>6. ASSUME NEW r \in Replicas, CopySnapshot(r) \/ ReplicaEnds(r) PROVE SizeInv'
  BY <1>1, <1>6, RWFromRW, SizeStays, Zenon DEF CopySnapshot, ReplicaEnds
<1>7. ASSUME NEW r \in Replicas, CleanerPicks(r) \/ CleanerDeletes(r) PROVE SizeInv'
  BY <1>2, <1>7, Zenon DEF CleanerPicks, CleanerDeletes, vars, ctrlVars
<1>8. ASSUME NEW n \in Names, DeleteSnapshot(n) \/ RevertAsked(n) PROVE SizeInv'
  BY <1>2, <1>8, Zenon DEF DeleteSnapshot, RevertAsked, vars, ctrlVars
<1>9. ASSUME RevertShutsFrontend PROVE SizeInv'
  BY <1>2, <1>9, Zenon DEF RevertShutsFrontend
<1>10. ASSUME RevertLocked PROVE SizeInv'
  <2>1. UNCHANGED <<size, rsize>>
    BY <1>10, Zenon DEF RevertLocked
  <2>2. PICK F : SetErr(F)
    BY <1>10, Zenon DEF RevertLocked
  <2>3. \A r \in Replicas : mode'[r] = "RW" => mode[r] = "RW"
    BY <2>2, Zenon DEF SetErr
  <2>4. InMode(mode', "RW") # {} => InMode(mode, "RW") # {}
    BY <2>3, Zenon DEF InMode
  <2> QED  BY <2>1, <2>4, SizeStays, Zenon
<1>11. ASSUME ControllerEnds PROVE SizeInv'
  <2>1. UNCHANGED rsize /\ \A r \in Replicas : mode'[r] = "NONE"
    BY <1>11, Zenon DEF ControllerEnds, ControllerRestart
  <2>2. InMode(mode, "RW")' = {}
    BY <2>1, Zenon DEF InMode
  <2> QED  BY <2>1, <2>2, Zenon DEF SizeInv
<1>12. ASSUME NEW r \in Replicas, StartVolume(r) PROVE SizeInv'
  BY <1>12, SizeStart, Zenon
<1>13. ASSUME NEW s \in 1..MaxSize, Resize(s) PROVE SizeInv'
  BY <1>13, SizeResize, Zenon
<1> QED  BY <1>3, <1>4, <1>5, <1>6, <1>7, <1>8, <1>9, <1>10, <1>11, <1>12, <1>13, Zenon
         DEF MgmtNext, Unmanaged

\* No RW replica is smaller than the volume, in a volume of any number of replicas
\* and whatever fails, as long as every replica takes part in each resize (Resize).
THEOREM SizesAreCovered == AllReached => (MgmtSpec => []SizesCover)
<1> SUFFICES ASSUME AllReached
             PROVE  MgmtSpec => []SizesCover
  BY Zenon
<1>1. MgmtInit => SizeInv
  BY DEF MgmtInit, Init, SizeInv, InMode
<1>2. MgmtTypeOK /\ SizeInv => SizesCover
  BY Zenon DEF MgmtTypeOK, SizeInv, SizesCover, InMode, Unset
<1>3. MgmtTypeOK /\ SizeInv /\ [MgmtNext]_allVars => SizeInv'
  BY SizeStep, Zenon
<1> QED  BY <1>1, <1>2, <1>3, MgmtTypeCorrect, PTL DEF MgmtSpec
=============================================================================

---------------------------- MODULE Replication ----------------------------
(***************************************************************************)
(* The data path of a jiva volume: the controller's replica list, the      *)
(* replicator that fans writes out, the rebuild of a joining replica, the  *)
(* monitor goroutines that drop failed replicas, and what every replica    *)
(* keeps on disk.                                                          *)
(*                                                                         *)
(* Abstractions                                                            *)
(*  - Every write has a number.  A disk of a replica (its head, or a       *)
(*    snapshot) is the set of writes it holds; writes reach a head in      *)
(*    increasing order, so equal sets are equal contents.                  *)
(*  - A snapshot is named by a number that grows with its creation, so a   *)
(*    chain is a set of names; 0 names the head among disks and "no        *)
(*    checkpoint" among checkpoints.                                       *)
(*  - c.replicas and replicator.backends always hold the same addresses    *)
(*    with the same modes, so one function stands for both ("NONE": not    *)
(*    in the list).  Quorum replicas are left out.                         *)
(*  - Which replica is told to start the volume is the business of module  *)
(*    Registration; here any closed replica may be.                        *)
(*  - Everything under c.Lock is one step; addReplica is two because it    *)
(*    unlocks around factory.Create.                                       *)
(***************************************************************************)
EXTENDS Integers, FiniteSets

CONSTANTS
  Replicas,      \* replica addresses
  RF,            \* REPLICATION_FACTOR
  ChecksLength,  \* the frontend treats a short count as a failed write
  MaxWrites,     \* bound: writes issued
  MaxSnaps,      \* bound: snapshots created
  MaxFaults      \* bound: crashes, failed calls and operator interventions

ASSUME ReplicationAssumption ==
  /\ IsFiniteSet(Replicas)
  /\ RF \in Nat \ {0}
  /\ ChecksLength \in BOOLEAN
  /\ MaxWrites \in Nat
  /\ MaxSnaps \in Nat
  /\ MaxFaults \in Nat

VARIABLES
  \* the controller
  mode,        \* types.Mode of each listed replica
  readOnly,    \* c.ReadOnly
  rwCount,     \* c.RWReplicaCount
  checkpoint,  \* c.Checkpoint
  frontend,    \* c.frontend.State() is up
  pending,     \* monitoring goroutines of an address that have been signalled
  signalled,   \* the listed backend of an address has signalled its goroutine
  \* on a replica's disk
  rev,         \* revision.counter
  chain,       \* the snapshots of the live chain
  data,        \* the writes held by the head (0) and by each snapshot
  repCkpt,     \* Checkpoint of volume.meta
  rebuilding,  \* Rebuilding of volume.meta
  \* a replica's process
  opened,      \* the replica is open
  conn,        \* the controller's connection to this open replica works
  repMode,     \* r.mode
  task,        \* where sync.Task.AddReplica is
  src,         \* fromClient of the rebuild
  todo,        \* snapshots still to be copied
  \* history
  acked,       \* acknowledged writes that this incarnation must keep
  uncounted,   \* writes stored by some replica without counting them
  lastWrite, lastSnap, faults

ctrlVars == <<mode, readOnly, rwCount, checkpoint, frontend, pending, signalled>>
diskVars == <<rev, chain, data, repCkpt, rebuilding>>
procVars == <<opened, conn, repMode, task, src, todo>>
histVars == <<acked, uncounted, lastWrite, lastSnap, faults>>
vars == <<ctrlVars, diskVars, procVars, histVars>>

Modes == {"NONE", "WO", "RW", "ERR"}
Names == 1..MaxSnaps
Tasks == {"idle", "joining", "checked", "opened", "added", "rebuilding", "prepared",
          "syncing", "synced", "reloaded", "verified", "running", "failed"}

CtrlTypeOK ==
  /\ mode \in [Replicas -> Modes]
  /\ readOnly \in BOOLEAN
  /\ rwCount \in Nat
  /\ checkpoint \in 0..MaxSnaps
  /\ frontend \in BOOLEAN
  /\ pending \in [Replicas -> Nat]
  /\ signalled \in [Replicas -> BOOLEAN]

DiskTypeOK ==
  /\ rev \in [Replicas -> Nat]
  /\ chain \in [Replicas -> SUBSET Names]
  /\ data \in [Replicas -> [0..MaxSnaps -> SUBSET (1..MaxWrites)]]
  /\ repCkpt \in [Replicas -> 0..MaxSnaps]
  /\ rebuilding \in [Replicas -> BOOLEAN]

ProcTypeOK ==
  /\ opened \in [Replicas -> BOOLEAN]
  /\ conn \in [Replicas -> BOOLEAN]
  /\ repMode \in [Replicas -> {"INIT", "WO", "RW"}]
  /\ task \in [Replicas -> Tasks]
  /\ src \in [Replicas -> Replicas]
  /\ todo \in [Replicas -> SUBSET Names]

HistTypeOK ==
  /\ acked \in SUBSET (1..MaxWrites)
  /\ uncounted \in SUBSET (1..MaxWrites)
  /\ lastWrite \in 0..MaxWrites
  /\ lastSnap \in 0..MaxSnaps
  /\ faults \in 0..MaxFaults

TypeOK == CtrlTypeOK /\ DiskTypeOK /\ ProcTypeOK /\ HistTypeOK

-----------------------------------------------------------------------------
(* The controller's view *)

Listed(m) == {r \in Replicas : m[r] # "NONE"}
InMode(m, k) == {r \in Replicas : m[r] = k}
\* mutant of Writers: a replica being rebuilt gets no writes
WritersOnlyRW(m) == InMode(m, "RW")
Writers(m) == InMode(m, "RW") \cup InMode(m, "WO")

Majority == RF \div 2 + 1

\* What a replica would answer to a read of the whole volume.
Visible(r) == data[r][0] \cup UNION {data[r][n] : n \in chain[r]}

\* m without the replicas of F
Without(m, F) == [r \in Replicas |-> IF r \in F THEN "NONE" ELSE m[r]]

\* A step with a fault counts against the bound.
Disturb(b) ==
  /\ faults' = IF b THEN faults + 1 ELSE faults
  /\ faults' <= MaxFaults

\* The latest snapshot, when every listed replica is RW, answers, and has the
\* same one; 0 when there is none to agree on.
GetLatestSnapshot(m, ch) ==
  LET latest == {s \in Names : \A r \in Listed(m) :
                   opened[r] /\ s \in ch[r] /\ \A n \in ch[r] : n <= s}
  IN  IF Listed(m) = InMode(m, "RW") /\ Listed(m) # {} /\ latest # {}
      THEN CHOOSE s \in latest : TRUE
      ELSE 0

\* mutant of NewCheckpoint: the replication factor is not looked at
NewCheckpointAnyRF(m, ch) == GetLatestSnapshot(m, ch)

\* The snapshot that UpdateCheckpoint tries to set for the list m.
NewCheckpoint(m, ch) ==
  IF Cardinality(InMode(m, "RW")) = RF THEN GetLatestSnapshot(m, ch) ELSE 0

\* The replicas on which replicator.SetCheckpoint takes effect.
SetCheckpoint(m, ch) ==
  IF NewCheckpoint(m, ch) = 0 THEN {{}} ELSE SUBSET InMode(m, "RW")

SetCheckpointFails(m, ch, S) ==
  NewCheckpoint(m, ch) # 0 /\ S # InMode(m, "RW")

\* ck, the checkpoints kept by the replicas, once S have stored the new one
StoreCheckpoint(m, ch, S, ck) ==
  [r \in Replicas |-> IF r \in S THEN NewCheckpoint(m, ch) ELSE ck[r]]

UpdateCheckpoint(m, ch, S) ==
  checkpoint' = IF SetCheckpointFails(m, ch, S) THEN 0 ELSE NewCheckpoint(m, ch)

ReadOnlyOf(m) == ~(Cardinality(InMode(m, "RW")) >= Majority)

\* mutant of UpdateVolStatus: ReadOnly is never set again
UpdateVolStatusOnce(m) ==
  /\ readOnly' = (readOnly /\ ReadOnlyOf(m))
  /\ rwCount' = Cardinality(InMode(m, "RW"))

UpdateVolStatus(m) ==
  /\ readOnly' = ReadOnlyOf(m)
  /\ rwCount' = Cardinality(InMode(m, "RW"))

\* mutant of StopMonitoring: the signal does not reach the goroutine
StopMonitoringUnheard(F) ==
  /\ UNCHANGED pending
  /\ signalled' = [r \in Replicas |-> signalled[r] \/ r \in F]

\* StopMonitoring on the backends of F: each signals its goroutine once.
StopMonitoring(F) ==
  /\ pending' = [r \in Replicas |-> IF r \in F /\ ~signalled[r]
                                    THEN pending[r] + 1 ELSE pending[r]]
  /\ signalled' = [r \in Replicas |-> signalled[r] \/ r \in F]

\* RemoveReplicaNoLock for each listed replica of F, which leaves the list m.
\* Only the last removal can find replicas to set a checkpoint on: before it
\* an ERR or WO replica is still listed.
RemoveReplicas(m, F, S) ==
  /\ mode' = m
  /\ frontend' = (frontend /\ Listed(m) # {})
  /\ StopMonitoring(F)
  /\ UpdateVolStatus(m)
  /\ UpdateCheckpoint(m, chain, S)
  /\ repCkpt' = StoreCheckpoint(m, chain, S, repCkpt)
  /\ conn' = [r \in Replicas |-> conn[r] /\ r \notin F]

\* mutant of SnapshotData: the new head replaces the old one
SnapshotDataLost(T, s) ==
  [r \in Replicas |-> IF r \in T THEN [data[r] EXCEPT ![0] = {}] ELSE data[r]]

\* The disks and chains once the replicas of T have taken snapshot s.
SnapshotData(T, s) ==
  [r \in Replicas |-> IF r \in T
                      THEN [data[r] EXCEPT ![s] = data[r][0], ![0] = {}]
                      ELSE data[r]]
SnapshotChain(T, s) ==
  [r \in Replicas |-> IF r \in T THEN chain[r] \cup {s} ELSE chain[r]]

-----------------------------------------------------------------------------
(* Reads and writes *)

\* A write that dat store, that cnt also count, and that ok answer in time; the
\* other writers are marked ERR and removed.
WriteTo(dat, cnt, ok) ==
  LET w       == lastWrite + 1
      failed  == Writers(mode) \ ok
      m       == Without(mode, failed)
      full    == failed = {} \/ Cardinality(ok) > Cardinality(Writers(mode)) \div 2
      noError == InMode(m, "RW") # {}
  IN  /\ lastWrite' = w
      /\ data' = [r \in Replicas |-> IF r \in dat
                                     THEN [data[r] EXCEPT ![0] = @ \cup {w}]
                                     ELSE data[r]]
      /\ rev' = [r \in Replicas |-> IF r \in cnt /\ repMode[r] = "RW"
                                    THEN rev[r] + 1 ELSE rev[r]]
      /\ uncounted' = IF \E r \in dat : r \notin cnt \/ repMode[r] # "RW"
                      THEN uncounted \cup {w} ELSE uncounted
      /\ acked' = IF noError /\ (full \/ ~ChecksLength)
                  THEN acked \cup {w} ELSE acked
      /\ IF failed = {}
         THEN UNCHANGED <<ctrlVars, repCkpt, conn, faults>>
         ELSE \E S \in SetCheckpoint(m, chain) :
                Disturb(TRUE) /\ RemoveReplicas(m, failed, S)

\* A write: every writer gets it.
WriteAt ==
  /\ frontend
  /\ ~readOnly
  /\ InMode(mode, "RW") # {}
  /\ lastWrite < MaxWrites
  /\ \E dat \in SUBSET {r \in Writers(mode) : conn[r]} :
     \E cnt \in SUBSET dat : \E ok \in SUBSET cnt : WriteTo(dat, cnt, ok)
  /\ UNCHANGED <<chain, rebuilding, opened, repMode, task, src, todo, lastSnap>>

\* An operation without effect on the data fails on the replicas of F.
FailedIO(F) ==
  LET m == Without(mode, F)
  IN  /\ F # {}
      /\ Disturb(TRUE)
      /\ \E S \in SetCheckpoint(m, chain) : RemoveReplicas(m, F, S)
      /\ UNCHANGED <<rev, chain, data, rebuilding, opened, repMode, task, src,
                     todo, acked, uncounted, lastWrite, lastSnap>>

\* A read: the readers of F are tried and fail before one succeeds, or all do.
\* A read that succeeds at once changes nothing.
ReadAt == frontend /\ \E F \in SUBSET InMode(mode, "RW") : FailedIO(F)

\* A flush: every writer gets it.
Sync ==
  /\ frontend
  /\ ~readOnly
  /\ InMode(mode, "RW") # {}
  /\ \E F \in SUBSET Writers(mode) : FailedIO(F)

-----------------------------------------------------------------------------
(* Membership *)

\* canAdd: r is not listed, and a listed WO replica is behind it.  The WO
\* replica is then removed.
CanAdd(r) ==
  /\ mode[r] = "NONE"
  /\ \A w \in InMode(mode, "WO") : rev[r] > rev[w]

\* canAdd's refusal, also when a WO replica that is gone does not answer.
CannotAdd(r) == ~CanAdd(r) \/ \E w \in InMode(mode, "WO") : ~opened[w]

\* mutant of TakenOver: canAdd leaves the WO replica in the list
TakenOverNone == {}

\* The WO replicas that canAdd removes in favour of the one that asks
TakenOver == InMode(mode, "WO")

SetTask(r, t) == task' = [task EXCEPT ![r] = t]

\* Start, for the replica that was told to: it is opened, listed and made RW.
Start(r) ==
  LET m == [mode EXCEPT ![r] = "RW"]
  IN  /\ task[r] = "idle" /\ ~opened[r]
      /\ Listed(mode) = {}
      /\ mode' = m
      /\ frontend' = TRUE
      /\ opened' = [opened EXCEPT ![r] = TRUE]
      /\ conn' = [conn EXCEPT ![r] = TRUE]
      /\ repMode' = [repMode EXCEPT ![r] = "RW"]
      /\ signalled' = [signalled EXCEPT ![r] = FALSE]
      /\ acked' = acked \cap Visible(r)
      /\ \/ \* all of it
            /\ SetTask(r, "running")
            /\ UpdateVolStatus(m)
            /\ \E S \in SetCheckpoint(m, chain) :
                 /\ UpdateCheckpoint(m, chain, S)
                 /\ repCkpt' = StoreCheckpoint(m, chain, S, repCkpt)
                 /\ Disturb(SetCheckpointFails(m, chain, S))
         \/ \* GetRevisionCounter fails once r is listed
            /\ Disturb(TRUE)
            /\ SetTask(r, "failed")
            /\ UNCHANGED <<readOnly, rwCount, checkpoint, repCkpt>>
      /\ UNCHANGED <<pending, rev, chain, data, rebuilding, src, todo, uncounted,
                     lastWrite, lastSnap>>

\* Start finds replicas attached: it answers success, and r is left running but
\* closed.
StartIgnored(r) ==
  /\ task[r] = "idle" /\ ~opened[r]
  /\ Listed(mode) # {}
  /\ SetTask(r, "running")
  /\ UNCHANGED <<ctrlVars, diskVars, opened, conn, repMode, src, todo, histVars>>

\* Start fails before r is RW: r is open, and was possibly listed and removed.
StartFails(r) ==
  /\ task[r] = "idle" /\ ~opened[r]
  /\ Listed(mode) = {}
  /\ Disturb(TRUE)
  /\ opened' = [opened EXCEPT ![r] = TRUE]
  /\ SetTask(r, "failed")
  /\ \/ UNCHANGED <<readOnly, rwCount, checkpoint, pending, signalled>>
     \/ /\ pending' = [pending EXCEPT ![r] = @ + 1]
        /\ signalled' = [signalled EXCEPT ![r] = TRUE]
        /\ UpdateVolStatus(mode)
        /\ UpdateCheckpoint(mode, chain, {})
  /\ UNCHANGED <<mode, frontend, diskVars, conn, repMode, src, todo,
                 acked, uncounted, lastWrite, lastSnap>>

\* The replica asks for the volume and finds replicas attached, or was told so.
GetVolume(r) ==
  /\ task[r] = "idle" /\ ~opened[r]
  /\ Listed(mode) # {}
  /\ SetTask(r, "joining")
  /\ UNCHANGED <<ctrlVars, diskVars, opened, conn, repMode, src, todo, histVars>>

\* addReplica up to its first Unlock.  A refused replica's process exits and
\* starts over from the same state.
AddReplicaCheck(r) ==
  LET m == Without(mode, TakenOver)
  IN  /\ task[r] = "joining"
      /\ \/ /\ CannotAdd(r)
            /\ SetTask(r, "idle")
            /\ UNCHANGED <<ctrlVars, repCkpt, conn, faults>>
         \/ /\ CanAdd(r)
            /\ SetTask(r, IF Cardinality(Listed(m)) = RF THEN "idle" ELSE "checked")
            /\ IF TakenOver = {}
               THEN UNCHANGED <<ctrlVars, repCkpt, conn, faults>>
               ELSE \E S \in SetCheckpoint(m, chain) :
                      /\ RemoveReplicas(m, TakenOver, S)
                      /\ Disturb(SetCheckpointFails(m, chain, S))
      /\ UNCHANGED <<rev, chain, data, rebuilding, opened, repMode, src, todo,
                     acked, uncounted, lastWrite, lastSnap>>

\* factory.Create, without the lock: the replica is opened and connected.
AddReplicaCreate(r) ==
  /\ task[r] = "checked"
  /\ SetTask(r, "opened")
  /\ opened' = [opened EXCEPT ![r] = TRUE]
  /\ conn' = [conn EXCEPT ![r] = TRUE]
  /\ UNCHANGED <<ctrlVars, diskVars, repMode, src, todo, histVars>>

\* addReplicaNoLock refuses r.
AddReplicaRefused(r) ==
  /\ task[r] = "opened"
  /\ CannotAdd(r)
  /\ SetTask(r, "failed")
  /\ UNCHANGED <<ctrlVars, diskVars, opened, conn, repMode, src, todo, histVars>>

\* addReplicaNoLock: a snapshot on every replica and on r, then r is listed WO.
\* When one call fails the snapshot stays where it was taken (app), nobody is
\* marked ERR and r is not listed.
AddReplicaNoLock(r) ==
  LET m0        == Without(mode, TakenOver)
      m1        == [m0 EXCEPT ![r] = "WO"]
      s         == lastSnap + 1
      others    == Writers(m0)
      reachable == {q \in others : opened[q]}
  IN  /\ task[r] = "opened"
      /\ CanAdd(r)
      /\ lastSnap < MaxSnaps
      /\ lastSnap' = s
      /\ frontend' = (frontend /\ (TakenOver = {} \/ Listed(m0) # {}))
      /\ pending' = [q \in Replicas |-> IF q \in TakenOver /\ ~signalled[q]
                                        THEN pending[q] + 1 ELSE pending[q]]
      /\ signalled' = [q \in Replicas |-> q # r /\ (signalled[q] \/ q \in TakenOver)]
      /\ conn' = [q \in Replicas |-> conn[q] /\ q \notin TakenOver]
      /\ \E S \in IF TakenOver = {} THEN {{}} ELSE SetCheckpoint(m0, chain) :
         /\ repCkpt' = StoreCheckpoint(m0, chain, S, repCkpt)
         /\ \/ \* r is added
               /\ reachable = others
               /\ data' = SnapshotData(others \cup {r}, s)
               /\ chain' = SnapshotChain(others \cup {r}, s)
               /\ mode' = m1
               /\ repMode' = [repMode EXCEPT ![r] = "WO"]
               /\ UpdateVolStatus(m1)
               /\ UpdateCheckpoint(m1, chain, {})
               /\ SetTask(r, "added")
               /\ Disturb(TakenOver # {} /\ SetCheckpointFails(m0, chain, S))
            \/ \* a call fails
               /\ \E app \in (SUBSET reachable) \cup
                             (IF reachable = others THEN {others \cup {r}} ELSE {}) :
                    data' = SnapshotData(app, s) /\ chain' = SnapshotChain(app, s)
               /\ mode' = m0
               /\ IF TakenOver = {}
                  THEN UNCHANGED <<readOnly, rwCount, checkpoint>>
                  ELSE UpdateVolStatus(m0) /\ UpdateCheckpoint(m0, chain, S)
               /\ SetTask(r, "failed")
               /\ Disturb(reachable = others)
               /\ UNCHANGED repMode
      /\ UNCHANGED <<rev, rebuilding, opened, src, todo, acked, uncounted, lastWrite>>

-----------------------------------------------------------------------------
(* The rebuild, run by the replica that joins (sync.Task.AddReplica) *)

\* getTransferClients and SetRebuilding(true)
StartRebuild(r) ==
  /\ task[r] = "added"
  /\ \/ /\ mode[r] = "WO"
        /\ \E a \in InMode(mode, "RW") : src' = [src EXCEPT ![r] = a]
        /\ rebuilding' = [rebuilding EXCEPT ![r] = TRUE]
        /\ SetTask(r, "rebuilding")
     \/ /\ mode[r] # "WO" \/ InMode(mode, "RW") = {}
        /\ SetTask(r, "failed")
        /\ UNCHANGED <<src, rebuilding>>
  /\ UNCHANGED <<ctrlVars, rev, chain, data, repCkpt, opened, conn, repMode,
                 todo, histVars>>

\* PrepareRebuildReplica: the head of r gets the parent of the RW head, on disk.
PrepareRebuild(r) ==
  /\ task[r] = "rebuilding"
  /\ \/ \E a \in InMode(mode, "RW") :
          /\ mode[r] = "WO" /\ opened[a]
          /\ chain' = [chain EXCEPT ![r] = {n \in @ : \E t \in chain[a] : n <= t}]
          /\ SetTask(r, "prepared")
     \/ /\ \/ mode[r] # "WO" \/ InMode(mode, "RW") = {}
           \/ \E a \in InMode(mode, "RW") : ~opened[a]
        /\ SetTask(r, "failed")
        /\ UNCHANGED chain
  /\ UNCHANGED <<ctrlVars, rev, data, repCkpt, rebuilding, opened, conn,
                 repMode, src, todo, histVars>>

\* mutant of Newer: the head is not left out
NewerWithHead(r, c) == {0} \cup {n \in chain[r] : n > c}

\* The snapshots of a replica newer than checkpoint c
Newer(r, c) == {n \in chain[r] : n > c}

\* mutant of IsRevisionCountAndChainSame: the counters are not compared
IsChainSame(r, a, c) == Newer(a, c) = Newer(r, c)

\* The counters and the chains above checkpoint c are the same.
IsRevisionCountAndChainSame(r, a, c) == rev[a] = rev[r] /\ Newer(a, c) = Newer(r, c)

\* Nothing is copied when they are.  The chain of r that is compared is the one in
\* memory, which follows the one on disk at the next reload; PrepareRebuild changes
\* it only when r has later snapshots than the RW replica, as after a revert.
CompareChains(r) ==
  LET a == src[r]
      c == repCkpt[r]
  IN  /\ task[r] = "prepared"
      /\ CASE ~opened[a] \/ (c # 0 /\ c \notin chain[a]) ->
                SetTask(r, "failed") /\ UNCHANGED todo
           [] opened[a] /\ (c = 0 \/ c \in chain[a])
              /\ IsRevisionCountAndChainSame(r, a, c) ->
                SetTask(r, "synced") /\ UNCHANGED todo
           [] OTHER ->
                /\ SetTask(r, "syncing")
                /\ todo' = [todo EXCEPT ![r] = Newer(a, c)]
      /\ UNCHANGED <<ctrlVars, diskVars, opened, conn, repMode, src, histVars>>

\* syncFiles, one snapshot: the file, then its metadata, oldest first.  From
\* then on whoever follows r's chain to n goes on as in src's chain, down to
\* r's checkpoint.
SyncFile(r) ==
  /\ task[r] = "syncing"
  /\ \E n \in todo[r] :
       LET a == src[r]
       IN  /\ \A k \in todo[r] : n <= k
           /\ \/ /\ data' = [data EXCEPT ![r][n] = data[a][n]]
                 /\ chain' = IF n \in chain[r]
                             THEN [chain EXCEPT ![r] =
                                     {k \in @ : k > n \/ k <= repCkpt[r]}
                                     \cup {k \in Newer(a, repCkpt[r]) : k <= n}]
                             ELSE chain
                 /\ todo' = [todo EXCEPT ![r] = @ \ {n}]
                 /\ SetTask(r, IF todo[r] = {n} THEN "synced" ELSE "syncing")
                 /\ UNCHANGED faults
              \/ \* the copy is cut off
                 /\ Disturb(TRUE)
                 /\ \E part \in SUBSET (data[r][n] \cup data[a][n]) :
                      data' = [data EXCEPT ![r][n] = part]
                 /\ SetTask(r, "failed")
                 /\ UNCHANGED <<chain, todo>>
  /\ UNCHANGED <<ctrlVars, rev, repCkpt, rebuilding, opened, conn, repMode,
                 src, acked, uncounted, lastWrite, lastSnap>>

\* Reload and UpdateLUNMap: the replica works on the copied files.
Reload(r) ==
  /\ task[r] = "synced"
  /\ SetTask(r, "reloaded")
  /\ UNCHANGED <<ctrlVars, diskVars, opened, conn, repMode, src, todo, histVars>>

\* The check of VerifyRebuildReplica: down to r's checkpoint, or to a's oldest
\* snapshot, both have the same snapshots.
ChainVerified(r, a) ==
  LET top == {n \in chain[a] : n >= repCkpt[r]}
  IN  /\ repCkpt[r] = 0 \/ repCkpt[r] \in chain[a]
      /\ top = {n \in chain[r] : \E k \in top : n >= k}

\* VerifyRebuildReplica: r becomes RW with the revision counter of an RW replica.
VerifyRebuild(r) ==
  /\ task[r] = "reloaded"
  /\ \/ \E a \in InMode(mode, "RW") :
        LET m == [mode EXCEPT ![r] = "RW"]
        IN  /\ mode[r] = "WO" /\ opened[a]
            /\ ChainVerified(r, a)
            /\ \/ \* all of it
                  /\ repMode' = [repMode EXCEPT ![r] = "RW"]
                  /\ rev' = [rev EXCEPT ![r] = rev[a]]
                  /\ mode' = m
                  /\ UpdateVolStatus(m)
                  /\ \E S \in SetCheckpoint(m, chain) :
                       /\ UpdateCheckpoint(m, chain, S)
                       /\ repCkpt' = StoreCheckpoint(m, chain, S, repCkpt)
                       /\ Disturb(SetCheckpointFails(m, chain, S))
                  /\ SetTask(r, "verified")
               \/ \* SetReplicaMode fails, with or without effect on r, or the
                  \* SetRevisionCounter after it does
                  /\ Disturb(TRUE)
                  /\ \/ UNCHANGED <<repMode, rev>>
                     \/ /\ repMode' = [repMode EXCEPT ![r] = "RW"]
                        /\ \E c \in {rev[r], rev[a]} : rev' = [rev EXCEPT ![r] = c]
                  /\ SetTask(r, "failed")
                  /\ UNCHANGED <<mode, readOnly, rwCount, checkpoint, repCkpt>>
     \/ /\ \/ mode[r] # "WO"
           \/ InMode(mode, "RW") = {}
           \/ \E a \in InMode(mode, "RW") : ~opened[a] \/ ~ChainVerified(r, a)
        /\ SetTask(r, "failed")
        /\ UNCHANGED <<mode, readOnly, rwCount, checkpoint, repCkpt, rev, repMode,
                       faults>>
  /\ UNCHANGED <<frontend, pending, signalled, chain, data, rebuilding, opened,
                 conn, src, todo, acked, uncounted, lastWrite, lastSnap>>

\* SetRebuilding(false)
FinishRebuild(r) ==
  /\ task[r] = "verified"
  /\ SetTask(r, "running")
  /\ rebuilding' = [rebuilding EXCEPT ![r] = FALSE]
  /\ UNCHANGED <<ctrlVars, rev, chain, data, repCkpt, opened, conn, repMode, src,
                 todo, histVars>>

-----------------------------------------------------------------------------
(* Snapshots, removals, crashes *)

\* Snapshot of the volume, which app take and ok answer: a replica that fails is
\* marked ERR and stays listed until its monitoring goroutine removes it.
SnapshotOn(app, ok) ==
  LET s      == lastSnap + 1
      failed == Writers(mode) \ ok
  IN  /\ lastSnap' = s
      /\ data' = SnapshotData(app, s)
      /\ chain' = SnapshotChain(app, s)
      /\ mode' = [r \in Replicas |-> IF r \in failed THEN "ERR" ELSE mode[r]]
      /\ StopMonitoring(failed)
      /\ Disturb(failed # {})

Snapshot ==
  /\ rwCount = RF
  /\ \E a \in InMode(mode, "RW") : opened[a]
  /\ lastSnap < MaxSnaps
  /\ \E app \in SUBSET {r \in Writers(mode) : opened[r]} :
     \E ok \in SUBSET app : SnapshotOn(app, ok)
  /\ UNCHANGED <<readOnly, rwCount, checkpoint, frontend, rev, repCkpt, rebuilding,
                 procVars, acked, uncounted, lastWrite>>

\* RemoveReplicaNoLock, when r is listed
RemoveReplicaNoLock(r) ==
  LET m == Without(mode, {r})
  IN  /\ mode[r] # "NONE"
      /\ \E S \in SetCheckpoint(m, chain) : RemoveReplicas(m, {r}, S)
      /\ UNCHANGED <<rev, chain, data, rebuilding, opened, repMode, task, src, todo>>

\* The operator removes a replica.
RemoveReplica(r) ==
  /\ Disturb(TRUE)
  /\ RemoveReplicaNoLock(r)
  /\ UNCHANGED <<acked, uncounted, lastWrite, lastSnap>>

\* A signalled monitoring goroutine gets the lock: it removes its address, be
\* it the backend it watched or one added since.
Monitoring(r) ==
  /\ pending[r] > 0
  /\ IF mode[r] = "NONE"
     THEN /\ pending' = [pending EXCEPT ![r] = @ - 1]
          /\ UNCHANGED <<mode, readOnly, rwCount, checkpoint, frontend, signalled,
                         diskVars, procVars>>
     ELSE LET m == Without(mode, {r})
          IN  /\ mode' = m
              /\ frontend' = (frontend /\ Listed(m) # {})
              /\ pending' = [pending EXCEPT ![r] = IF signalled[r] THEN @ - 1 ELSE @]
              /\ signalled' = [signalled EXCEPT ![r] = TRUE]
              /\ UpdateVolStatus(m)
              /\ conn' = [conn EXCEPT ![r] = FALSE]
              /\ \E S \in SetCheckpoint(m, chain) :
                   /\ UpdateCheckpoint(m, chain, S)
                   /\ repCkpt' = StoreCheckpoint(m, chain, S, repCkpt)
              /\ UNCHANGED <<rev, chain, data, rebuilding, opened, repMode, task,
                             src, todo>>
  /\ UNCHANGED histVars

\* The end of a replica process, which comes back closed.  checkAndResetFailed-
\* Rebuild clears the rebuilding flag before anything else happens.  The lost
\* connection signals the monitoring goroutine of a listed replica.  What the
\* rebuild knew, its source and the files to copy, is gone with the process.
Exit(r) ==
  /\ opened' = [opened EXCEPT ![r] = FALSE]
  /\ conn' = [conn EXCEPT ![r] = FALSE]
  /\ repMode' = [repMode EXCEPT ![r] = "INIT"]
  /\ SetTask(r, "idle")
  /\ src' = [src EXCEPT ![r] = r]
  /\ todo' = [todo EXCEPT ![r] = {}]
  /\ rebuilding' = [rebuilding EXCEPT ![r] = FALSE]
  /\ StopMonitoring(IF mode[r] = "NONE" THEN {} ELSE {r})
  /\ UNCHANGED <<mode, readOnly, rwCount, checkpoint, frontend, rev, chain, data,
                 repCkpt, acked, uncounted, lastWrite, lastSnap>>

Crash(r) == task[r] # "idle" /\ Disturb(TRUE) /\ Exit(r)

\* The process gives up: AddReplica failed, or the controller is gone.
Restart(r) ==
  /\ task[r] = "failed" \/ (opened[r] /\ ~conn[r])
  /\ Exit(r)
  /\ UNCHANGED faults

\* A request that was being served when the controller stopped fails.
Orphaned == [r \in Replicas |-> IF task[r] \in {"joining", "checked", "opened"}
                                THEN "failed" ELSE task[r]]

\* shutdownFrontend, the first half of Shutdown: no I/O from here on.  The other
\* handlers may run before the second half gets the lock.
ShutdownFrontend ==
  /\ frontend
  /\ Disturb(TRUE)
  /\ frontend' = FALSE
  /\ UNCHANGED <<mode, readOnly, rwCount, checkpoint, pending, signalled, diskVars,
                 procVars, acked, uncounted, lastWrite, lastSnap>>

\* shutdownBackend: the list is emptied; ReadOnly, RWReplicaCount and Checkpoint
\* stay.
ShutdownBackend ==
  /\ ~frontend
  /\ Listed(mode) # {}
  /\ mode' = [r \in Replicas |-> "NONE"]
  /\ StopMonitoring(Writers(mode))
  /\ conn' = [r \in Replicas |-> conn[r] /\ mode[r] = "NONE"]
  /\ UNCHANGED <<readOnly, rwCount, checkpoint, frontend, diskVars, opened, repMode,
                 task, src, todo, histVars>>

Shutdown == ShutdownFrontend \/ ShutdownBackend

\* The controller process dies and comes back with an empty list.
ControllerRestart ==
  /\ Listed(mode) # {}
  /\ Disturb(TRUE)
  /\ mode' = [r \in Replicas |-> "NONE"]
  /\ readOnly' = TRUE
  /\ rwCount' = 0
  /\ checkpoint' = 0
  /\ frontend' = FALSE
  /\ pending' = [r \in Replicas |-> 0]
  /\ conn' = [r \in Replicas |-> FALSE]
  /\ task' = Orphaned
  /\ UNCHANGED <<signalled, diskVars, opened, repMode, src, todo, acked, uncounted,
                 lastWrite, lastSnap>>

-----------------------------------------------------------------------------
Init ==
  /\ mode = [r \in Replicas |-> "NONE"]
  /\ readOnly = TRUE
  /\ rwCount = 0
  /\ checkpoint = 0
  /\ frontend = FALSE
  /\ pending = [r \in Replicas |-> 0]
  /\ signalled = [r \in Replicas |-> FALSE]
  /\ rev = [r \in Replicas |-> 1]
  /\ chain = [r \in Replicas |-> {}]
  /\ data = [r \in Replicas |-> [n \in 0..MaxSnaps |-> {}]]
  /\ repCkpt = [r \in Replicas |-> 0]
  /\ rebuilding = [r \in Replicas |-> FALSE]
  /\ opened = [r \in Replicas |-> FALSE]
  /\ conn = [r \in Replicas |-> FALSE]
  /\ repMode = [r \in Replicas |-> "INIT"]
  /\ task = [r \in Replicas |-> "idle"]
  /\ src = [r \in Replicas |-> r]
  /\ todo = [r \in Replicas |-> {}]
  /\ acked = {}
  /\ uncounted = {}
  /\ lastWrite = 0
  /\ lastSnap = 0
  /\ faults = 0

Rebuild(r) ==
  \/ StartRebuild(r) \/ PrepareRebuild(r) \/ CompareChains(r) \/ SyncFile(r)
  \/ Reload(r) \/ VerifyRebuild(r) \/ FinishRebuild(r)

Add(r) ==
  \/ GetVolume(r) \/ AddReplicaCheck(r) \/ AddReplicaCreate(r)
  \/ AddReplicaRefused(r) \/ AddReplicaNoLock(r)

Next ==
  \/ WriteAt \/ ReadAt \/ Sync \/ Snapshot \/ Shutdown \/ ControllerRestart
  \/ \E r \in Replicas :
       \/ Start(r) \/ StartIgnored(r) \/ StartFails(r) \/ Add(r) \/ Rebuild(r)
       \/ RemoveReplica(r) \/ Monitoring(r) \/ Crash(r) \/ Restart(r)

Spec == Init /\ [][Next]_vars

-----------------------------------------------------------------------------
\* RWHoldAcked: every RW replica, the ones reads are served from, holds every
\* acknowledged write (WriteAt, VerifyRebuildReplica, isRevisionCountAndChainSame).
RWHoldAcked == \A r \in InMode(mode, "RW") : acked \subseteq Visible(r)

\* RWAgreeOnCounted: two RW replicas differ at most in writes that some replica
\* stored without counting them.
RWAgreeOnCounted ==
  \A a, b \in InMode(mode, "RW") : Visible(a) \ uncounted = Visible(b) \ uncounted

\* AtMostOneWO: canAdd never leaves two WO replicas in the list.
AtMostOneWO == Cardinality(InMode(mode, "WO")) <= 1

\* ReadOnlyIsCurrent: c.ReadOnly is what the modes in the list make it, unless a
\* replica is marked ERR or failed to start and is still to be removed
\* (UpdateVolStatus and everything that should call it).
ReadOnlyIsCurrent ==
  \/ ~frontend
  \/ \E r \in Listed(mode) : mode[r] = "ERR" \/ task[r] = "failed" \/ ~conn[r]
  \/ readOnly = ReadOnlyOf(mode)

\* What r holds in its snapshots up to c
UpTo(r, c) == UNION {data[r][n] : n \in {k \in chain[r] : k <= c}}

\* CheckpointIsCommon: up to the checkpoint that a replica has stored, it holds
\* what every RW replica with that snapshot holds, so that a rebuild may leave
\* these snapshots alone (UpdateCheckpoint, isRevisionCountAndChainSame).
CheckpointIsCommon ==
  \A r \in Replicas : \A a \in InMode(mode, "RW") :
    repCkpt[r] \in chain[a] \cap chain[r] =>
      UpTo(r, repCkpt[r]) \ uncounted = UpTo(a, repCkpt[r]) \ uncounted

\* DeadAreSignalled: a listed replica that is ERR, or whose connection is gone,
\* has a monitoring goroutine on its way to remove it.
DeadAreSignalled ==
  \A r \in Listed(mode) : mode[r] = "ERR" \/ ~conn[r] => pending[r] > 0
=============================================================================

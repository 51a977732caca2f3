----------------------------- MODULE Management -----------------------------
(***************************************************************************)
(* What an operator asks of a volume that serves: snapshots and their      *)
(* deletion, revert and resize, on the replicas of module Replication and  *)
(* together with everything that happens to them there.                    *)
(*                                                                         *)
(* A snapshot whose deletion was asked for is only marked; each replica    *)
(* folds it into its parent when its own cleaner gets to it.  A revert     *)
(* looks at the list of replicas without the lock, takes the frontend down *)
(* and only then locks the controller.  A size is kept in volume.meta,     *)
(* which no rebuild copies.                                                *)
(***************************************************************************)
EXTENDS Replication

CONSTANTS
  MaxSize,     \* bound: sizes of the volume
  MaxRequests, \* bound: requests to delete a snapshot, to revert or to resize
  Retention,   \* SnapshotRetentionCount
  AllReached   \* every replica takes part in each revert that any takes part in,
               \* which stays at or above the checkpoint, and in each resize

ASSUME ManagementAssumption ==
  /\ MaxSize \in Nat \ {0}
  /\ MaxRequests \in Nat
  /\ Retention \in Nat \ {0}
  /\ AllReached \in BOOLEAN

VARIABLES
  size,     \* c.size
  rsize,    \* Size of a replica's volume.meta
  users,    \* the snapshots that are UserCreated
  marked,   \* the snapshots that are Removed, on each replica
  victim,   \* the snapshot a replica's cleaner is about to delete, or 0
  revert,   \* the revert request being served
  requests, \* how many requests there were
  kept      \* history: the user's snapshots and what they hold

mgmtVars == <<size, rsize, users, marked, victim, revert, requests, kept>>
allVars == <<vars, mgmtVars>>

Unset == MaxSize + 1  \* math.MaxInt64
NoRevert == [phase |-> "none", name |-> 0, clients |-> {}]

\* MgmtTypeOK: the types of the requests' state and of the replicas' (TypeOK)
MgmtTypeOK ==
  /\ TypeOK
  /\ size \in 0..Unset
  /\ rsize \in [Replicas -> 1..MaxSize]
  /\ users \subseteq Names
  /\ marked \in [Replicas -> SUBSET Names]
  /\ victim \in [Replicas -> 0..MaxSnaps]
  /\ revert \in [phase : {"none", "asked", "down"}, name : 0..MaxSnaps,
                 clients : SUBSET Replicas]
  /\ requests \in 0..MaxRequests
  /\ kept \subseteq [name : Names, holds : SUBSET (1..MaxWrites)]

\* The snapshots of r from its base to the latest
Base(r) == {n \in chain[r] : \A k \in chain[r] : n <= k}
Latest(r) == {n \in chain[r] : \A k \in chain[r] : n >= k}
Parent(r, n) == {p \in chain[r] : p < n /\ \A k \in chain[r] : k < n => k <= p}

\* What r holds in its snapshots up to n
Contents(r, n) == UNION {data[r][k] : k \in {i \in chain[r] : i <= n}}

\* A request counts against the bound.
Request == requests < MaxRequests /\ requests' = requests + 1

\* The replicas of F are marked ERR and their monitoring goroutines signalled.
SetErr(F) ==
  LET listed == {r \in F : mode[r] \notin {"NONE", "ERR"}}
  IN  /\ mode' = [r \in Replicas |-> IF r \in listed THEN "ERR" ELSE mode[r]]
      /\ StopMonitoring(listed)

-----------------------------------------------------------------------------
(* Snapshots *)

\* A snapshot the user asked for: some RW replica is left that has it, or the
\* user gets an error.
SnapshotVolume ==
  /\ Snapshot
  /\ users' = users \cup {lastSnap'}
  /\ \/ InMode(mode', "RW") = {} /\ UNCHANGED kept
     \/ \E a \in InMode(mode', "RW") :
          kept' = kept \cup {[name |-> lastSnap', holds |-> Visible(a)]}
  /\ UNCHANGED <<size, rsize, marked, victim, revert, requests>>

\* PrepareRemoveDisk marks n on replica r, or does nothing when r has no n.
CanMark(r, n) ==
  /\ opened[r]
  /\ repMode[r] = "RW"
  /\ n \notin Latest(r) \cup Base(r)

\* The requests go out one after the other, until one fails.
MarkOn(done, n) ==
  /\ marked' = [r \in Replicas |-> IF r \in done /\ n \in chain[r]
                                   THEN marked[r] \cup {n} ELSE marked[r]]
  /\ kept' = IF done = {} THEN kept ELSE {k \in kept : k.name # n}

DeleteSnapshot(n) ==
  LET able == {r \in Replicas : CanMark(r, n)}
  IN  /\ Cardinality(InMode(mode, "RW")) = RF
      /\ checkpoint \notin {0, n}
      /\ \E done \in SUBSET (able \cap Listed(mode)) :
           /\ MarkOn(done, n)
           /\ Disturb(Listed(mode) \subseteq able /\ done # Listed(mode))
      /\ Request
      /\ UNCHANGED <<ctrlVars, diskVars, procVars, acked, uncounted, lastWrite, lastSnap,
                     size, rsize, users, victim, revert>>

\* A snapshot of the user that is not marked
Protected(r, n) == n \in users \ marked[r]

\* mutant of DeleteCandidates: up to the checkpoint and with it
DeleteCandidatesUpTo(r, c) ==
  {n \in chain[r] \ Base(r) : /\ c \in chain[r] /\ n <= c
                              /\ ~Protected(r, n)
                              /\ \A p \in Parent(r, n) : ~Protected(r, p)}

\* mutant of DeleteCandidates: the parent is not looked at
DeleteCandidatesOverUser(r, c) ==
  {n \in chain[r] \ Base(r) : c \in chain[r] /\ n < c /\ ~Protected(r, n)}

\* What the cleaner of r may delete: not the base, nothing from the checkpoint
\* c on, and nothing that would change a snapshot of the user.
DeleteCandidates(r, c) ==
  {n \in chain[r] \ Base(r) : /\ c \in chain[r] /\ n < c
                              /\ ~Protected(r, n)
                              /\ \A p \in Parent(r, n) : ~Protected(r, p)}

\* The cleaner of r asks for the checkpoint and picks the smallest file.
CleanerPicks(r) ==
  /\ task[r] = "running" /\ opened[r]
  /\ victim[r] = 0
  /\ checkpoint # 0 /\ checkpoint = repCkpt[r]
  /\ Cardinality(DeleteCandidates(r, checkpoint)) >= Retention
  /\ \E n \in DeleteCandidates(r, checkpoint) : victim' = [victim EXCEPT ![r] = n]
  /\ UNCHANGED <<vars, size, rsize, users, marked, revert, requests, kept>>

\* It marks its victim, folds it into the parent and removes it.  These steps,
\* and what may come between them on one replica, are those of ReplicaDisk.
CleanerDeletes(r) ==
  LET n == victim[r]
  IN  /\ n # 0
      /\ victim' = [victim EXCEPT ![r] = 0]
      /\ IF CanMark(r, n) /\ n \in chain[r]
         THEN /\ chain' = [chain EXCEPT ![r] = @ \ {n}]
              /\ data' = [data EXCEPT ![r] = [k \in 0..MaxSnaps |->
                            CASE k = n -> {}
                              [] k \in Parent(r, n) -> @[k] \cup @[n]
                              [] OTHER -> @[k]]]
              /\ marked' = [marked EXCEPT ![r] = @ \ {n}]
         ELSE UNCHANGED <<chain, data, marked>>
      /\ UNCHANGED <<ctrlVars, rev, repCkpt, rebuilding, procVars, histVars,
                     size, rsize, users, revert, requests, kept>>

-----------------------------------------------------------------------------
(* Revert *)

\* mutant of Clients: the loop ends with the first replica
ClientsFirst == IF InMode(mode, "RW") = {} THEN {}
                ELSE {CHOOSE r \in InMode(mode, "RW") : TRUE}

\* clientsAndSnapshot: the replicas that are asked to revert
Clients == InMode(mode, "RW")

\* The list is read without the lock, and every RW replica must answer.  Nobody
\* looks for the snapshot.
RevertAsked(n) ==
  /\ revert.phase = "none"
  /\ InMode(mode, "RW") # {} /\ InMode(mode, "WO") = {}
  /\ \A r \in InMode(mode, "RW") : opened[r]
  /\ AllReached => /\ InMode(mode, "RW") = Replicas
                   /\ \A r \in Replicas : n \in chain[r] => n >= repCkpt[r]
  /\ revert' = [phase |-> "asked", name |-> n, clients |-> Clients]
  /\ Request
  /\ UNCHANGED <<vars, size, rsize, users, marked, victim, kept>>

\* shutdownFrontend
RevertShutsFrontend ==
  /\ revert.phase = "asked"
  /\ revert' = [revert EXCEPT !.phase = "down"]
  /\ frontend' = FALSE
  /\ UNCHANGED <<mode, readOnly, rwCount, checkpoint, pending, signalled, diskVars,
                 procVars, histVars, size, rsize, users, marked, victim, requests, kept>>

\* A replica reverts when it is open and has the file.  (Files that an earlier
\* revert left out of the chain are a matter of ReplicaDisk.)
CanRevert(r, n) == opened[r] /\ n \in chain[r]

\* The head of each replica of app is replaced by an empty one on top of n.  The
\* revision counter stays, and so do the files above n, out of the chain.
RevertDisk(app, n) ==
  /\ data' = [r \in Replicas |-> IF r \in app
                                 THEN [data[r] EXCEPT ![0] = {}] ELSE data[r]]
  /\ chain' = [r \in Replicas |-> IF r \in app
                                  THEN {k \in chain[r] : k <= n} ELSE chain[r]]

\* What the volume has promised, once it was reverted to n as r has it
ForgetAfter(r, n) ==
  /\ acked' = acked \cap Contents(r, n)
  /\ kept' = {k \in kept : k.name <= n}

\* startFrontend, unless there is nothing to serve from
StartFrontend == frontend' = (frontend \/ Listed(mode) # {})

\* Under the lock: the replicas of ok revert and say so.  The others become ERR.
RevertLocked ==
  LET n == revert.name
  IN  /\ revert.phase = "down"
      /\ \E app \in SUBSET {r \in revert.clients : CanRevert(r, n)} :
         \E ok \in SUBSET app :
           /\ AllReached =>
                \/ \A r \in revert.clients : ~CanRevert(r, n)
                \/ /\ ok = revert.clients /\ InMode(mode, "RW") = Replicas
                   /\ \A r \in Replicas : n >= repCkpt[r]
           /\ RevertDisk(app, n)
           /\ SetErr(revert.clients \ ok)
           /\ \/ ok = {} /\ UNCHANGED <<frontend, acked, kept>>
              \/ StartFrontend /\ \E r \in ok : ForgetAfter(r, n)
           /\ Disturb(\E r \in revert.clients \ ok : CanRevert(r, n))
      /\ revert' = NoRevert
      /\ UNCHANGED <<readOnly, rwCount, checkpoint, rev, repCkpt, rebuilding, procVars,
                     uncounted, lastWrite, lastSnap, size, rsize, users, marked, victim,
                     requests>>

-----------------------------------------------------------------------------
(* Resize *)

\* mutant of Resized: a replica being rebuilt is not told
ResizedOnlyRW == InMode(mode, "RW")

\* replicator.Resize: every replica that is not ERR is told.
Resized == Writers(mode)

\* The replica is open and not larger: it extends its files and its volume.meta.
CanResize(r, s) == opened[r] /\ rsize[r] <= s

\* The replicas of ok take size s and say so.  c.size follows when one of them
\* is RW and the frontend, which must be up, takes it too.
Resize(s) ==
  /\ s > size
  /\ \E app \in SUBSET {r \in Resized : CanResize(r, s)} : \E ok \in SUBSET app :
       /\ AllReached => Writers(mode) = Replicas /\ ok = Resized
       /\ rsize' = [r \in Replicas |-> IF r \in app THEN s ELSE rsize[r]]
       /\ SetErr(Resized \ ok)
       /\ \/ /\ frontend
             /\ ok = Resized \/ InMode(mode', "RW") # {}
             /\ size' = s
             /\ Disturb(\E r \in Resized \ ok : CanResize(r, s))
          \/ UNCHANGED size /\ Disturb(frontend)
  /\ Request
  /\ UNCHANGED <<readOnly, rwCount, checkpoint, frontend, diskVars, procVars, acked,
                 uncounted, lastWrite, lastSnap, users, marked, victim, revert, kept>>

-----------------------------------------------------------------------------
(* Together with the volume *)

\* Start takes the size of the replica that starts the volume, and what it has.
StartVolume(r) ==
  /\ \/ Start(r) /\ size' = rsize[r]
     \/ StartFails(r) /\ size' \in {Unset, rsize[r]}
  /\ kept' = {k \in kept : /\ k.name \in chain[r]
                           /\ Contents(r, k.name) \ uncounted = k.holds \ uncounted}
  /\ UNCHANGED <<rsize, users, marked, victim, revert, requests>>

\* The metadata of a copied snapshot says whether it is marked.
CopySnapshot(r) ==
  LET copied == todo[r] \ todo'[r]
  IN  /\ SyncFile(r)
      /\ marked' = [marked EXCEPT ![r] = (@ \ copied) \cup (marked[src[r]] \cap copied)]
      /\ UNCHANGED <<size, rsize, users, victim, revert, requests, kept>>

\* The process of r ends, and its cleaner with it.
ReplicaEnds(r) ==
  /\ Crash(r) \/ Restart(r)
  /\ victim' = [victim EXCEPT ![r] = 0]
  /\ UNCHANGED <<size, rsize, users, marked, revert, requests, kept>>

\* The controller dies with the request that it serves.
ControllerEnds ==
  /\ ControllerRestart
  /\ size' = 0
  /\ revert' = NoRevert
  /\ UNCHANGED <<rsize, users, marked, victim, requests, kept>>

MgmtInit ==
  /\ Init
  /\ size = 0
  /\ rsize = [r \in Replicas |-> 1]
  /\ users = {}
  /\ marked = [r \in Replicas |-> {}]
  /\ victim = [r \in Replicas |-> 0]
  /\ revert = NoRevert
  /\ requests = 0
  /\ kept = {}

MgmtNext ==
  \/ SnapshotVolume \/ ControllerEnds \/ RevertShutsFrontend \/ RevertLocked
  \/ \E n \in Names : DeleteSnapshot(n) \/ RevertAsked(n)
  \/ \E s \in 1..MaxSize : Resize(s)
  \/ \E r \in Replicas :
       StartVolume(r) \/ CopySnapshot(r) \/ ReplicaEnds(r) \/ CleanerPicks(r) \/ CleanerDeletes(r)
  \/ /\ \/ WriteAt \/ ReadAt \/ Sync \/ Shutdown
        \/ \E r \in Replicas :
             \/ StartIgnored(r) \/ Add(r) \/ StartRebuild(r) \/ PrepareRebuild(r)
             \/ CompareChains(r) \/ Reload(r) \/ VerifyRebuild(r) \/ FinishRebuild(r)
             \/ RemoveReplica(r) \/ Monitoring(r)
     /\ UNCHANGED mgmtVars

MgmtSpec == MgmtInit /\ [][MgmtNext]_allVars

-----------------------------------------------------------------------------
\* UserSnapshotsKept: every RW replica has every snapshot that the user took and
\* neither deleted nor reverted away, with what the volume held when it was
\* taken (Snapshot, DeleteSnapshot, GetDeleteCandidateChain, revertDisk, syncFiles).
UserSnapshotsKept ==
  \A k \in kept : \A r \in InMode(mode, "RW") :
    /\ k.name \in chain[r]
    /\ Contents(r, k.name) \ uncounted = k.holds \ uncounted

\* CheckpointsStay: the checkpoint that a replica has stored is in the chain of
\* every RW replica.  A rebuild from one that has lost it is refused, so that
\* the replica could never return (isRevisionCountAndChainSame).
CheckpointsStay ==
  \A r \in Replicas : \A a \in InMode(mode, "RW") : repCkpt[r] \in {0} \cup chain[a]

\* SizesCover: no RW replica is smaller than the volume, so that no write within
\* the volume is past the end of a replica (Resize, addReplicaDuringStartNoLock).
SizesCover == \A r \in InMode(mode, "RW") : rsize[r] >= size
=============================================================================

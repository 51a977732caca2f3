# A TLA+ model of jiva

Jiva is a replicated block volume: an iSCSI target (the *controller*) fans every
write out to a few *replicas*, each of which keeps the volume as a chain of sparse
files.  This directory holds TLA+ modules of its protocols, the TLC configurations
that check them on small instances, and TLAPS proofs of what holds for every
instance.  Paths below are relative to `src/`.

## 1. The system

| part | code | state | operations |
|---|---|---|---|
| controller, data path | `controller/control.go`, `replicator.go`, `multi_writer_at.go` | the replica list with modes RW / WO / ERR, `ReadOnly`, `RWReplicaCount`, `Checkpoint`, `size`, the frontend, one monitoring goroutine per backend | `Start`, `AddReplica`, `RemoveReplica`, `WriteAt`, `ReadAt`, `Sync`, `Unmap`, `Snapshot`, `DeleteSnapshot`, `Resize`, `Revert`, `Shutdown`, `monitoring` |
| controller, election | `controller/control.go` | `RegisteredReplicas`, `MaxRevReplica`, `StartSignalled` | `registerReplica`, `signalReplica`, resets in `Start` and `RemoveReplicaNoLock` |
| controller, rebuild | `controller/rebuild.go` | none of its own | `PrepareRebuildReplica`, `VerifyRebuildReplica` |
| sync task | `sync/sync.go` | progress of `AddReplica`, run by the replica that joins | register, start, add, compare chains, copy, reload, verify; clone; snapshot cleaner |
| replica | `replica/replica.go`, `server.go`, `revision_counter.go` | `volume.meta` (head, parent, checkpoint, rebuilding, dirty), disk metadata, `revision.counter`, mode | open, write, snapshot, revert, remove disk, reload, close |
| block map | `replica/diff_disk.go`, `backup.go`, `extents.go` | `location`, the open files, the queue of holes | read, write, unmap, remove index, preload, punch holes |
| remote backend | `backend/remote/remote.go` | the ping goroutine and its channels | create, ping, stop monitoring, signal |
| RPC | `rpc/`, `replica/rpc/` | outstanding messages, sequence number, error | operation, loop, close, serve |
| sync agent | `sync/agent/`, `replica/client/client.go` | processes, ports | create process, next port; poll |
| frontends, REST, command line | `frontend/`, `controller/rest/`, `replica/rest/`, `app/` | mostly none | forwarding |

How they interact.  A replica process registers with the controller every five
seconds until it is told what to do.  Once a majority of the replication factor has
registered, the controller signals the one with the highest revision count to start
the volume, and after that tells the others to add themselves.  Adding takes a
snapshot everywhere, lists the newcomer as WO so that it gets new writes, and lets
the newcomer copy the older snapshots from an RW replica, file by file through a pair
of processes that the two sync agents run; the controller verifies the chains and
makes it RW.  A checkpoint is a snapshot up to which all RF replicas are known to
agree; a rebuild copies only what is newer than it.  A replica that fails an
operation is marked ERR, its monitoring goroutine removes it, and its process
restarts and joins again.  In the background each replica's cleaner folds old
snapshots into their parents, and a goroutine punches holes where newer data hides
older.

What is hard about it: a write that is stored but not counted or not answered;
modes that change without the fields derived from them; the unlocked window in
`addReplica`; goroutines that act on an address that has been added again;
rebuilds cut off half-way; checkpoints stored on some replicas only; lost and late
signals during the election; registrations that outlive the list; crashes between
two file operations; holes punched behind a map that has moved on; timeouts that
race late answers; ports and processes that outlive those who asked for them.
`PROJECT.json` lists every hazard with its line.

## 2. The modules

**`Replication`** is the data path.  Its variables are in three groups that follow
the code: the controller's fields, what a replica keeps on disk, and where its
process is.  Everything done under `c.Lock` is one action; `addReplica` is three
(check, create, add) because it unlocks around `factory.Create`, and `Shutdown` is
two (frontend, backend); the sync task is one action per request.

- Data.  Every write has a number, and a disk is the set of writes it holds.
  Writes reach a head in order, so equal sets are equal contents.  A snapshot is
  named by a number that grows with creation, so a chain is a set of names.
- `replicator.backends` and `c.replicas` hold the same addresses and modes and are
  one function, `mode`.
- A call that fails may have taken effect: `WriteTo(dat, cnt, ok)` chooses who
  stores the write, who also counts it, and who answers in time.
- `pending[r]` counts the monitoring goroutines of an address that were signalled
  and wait for the lock; `signalled[r]` says whether the backend now listed has
  used up its own.
- A replica that fails a read, write or flush is marked ERR and removed in the same
  step, as `WriteAt`, `ReadAt` and `Sync` do.  Only `Snapshot` leaves it listed.
- `acked` and `uncounted` are history: the acknowledged writes, cut down to what
  the starting replica has whenever the volume starts, and the writes that some
  replica stored without counting.
- Any closed replica may start the volume here; who may is the subject of the next
  modules.

**`Registration`** holds the election handlers as operators over the controller's
election state.  **`Bootstrap`** runs them in the registration loop of the sync
task, with lost and late signals, failing starts, crashes, and replicas that leave.
**`Volume`** composes `Replication` with `Registration`: revision counts come from
the disks, only the elected replica starts, and every removal touches the
registrations.  `carried` is history: whether the election at hand may depend on what
an earlier one, or a volume that was shut down, left in the registrations.

**`Management`** composes `Replication` with what an operator asks for: user's
snapshots, their deletion, revert and resize, and with the replicas' cleaners.  A
deletion only marks the snapshot on one replica after the other; each cleaner picks
a victim (`GetDeleteCandidateChain`) and folds it later.  `Revert` is three actions,
because the code reads the list without the lock, takes the frontend down, and only
then locks; a name that a replica does not know marks it ERR, as in the code.  What a
cleaner's deletion and a revert do to the files is in `ReplicaDisk`.  `kept` is history: the snapshots the user took and has neither deleted
nor reverted away, with what the volume held then.  `AllReached` restricts reverts
and resizes to those that every replica takes part in, and reverts to snapshots that
are not below a stored checkpoint; section 3 says what happens without it.

**`ReplicaDisk`** is the directory of one replica: names, inodes, metadata files and
`volume.meta`, with the `Replica` structure in memory.  An operation is a program of
file-system steps (`todo`) that a crash may cut after any of them.  The cleaner of
`sync.go` works between operations.  A metadata file that cannot be written ends
`createDisk` in its cleanup, which leaves what it changed in memory (`torn`) or a head
that refuses writes, and `revertDisk` at once.  `RevertsListed` names an assumption about
the users: they revert only to snapshots the volume lists as theirs.  **`SnapshotStore`** is what the directory
promises: a block device with named snapshots, in which a write, a snapshot, a
deletion and a revert are one step each.  `ReplicaDisk` implements it under the
mapping `live <- seen.live, history <- seen.history`, where `seen` is what a restart
at this very moment would find.

**`LunMap`** is the block map of one replica: `location`, `SnapIndx`,
`UserCreatedSnap`, whole-block and partial writes, `Unmap`, `RemoveIndex`, preload,
`UpdateLUNMap` merging its own map with that of concurrent writes, the queue of
holes, the goroutine `CreateHoles` and the handshake `holeDrainer`.  A file keeps
its identity when its index moves.  The contents that an unmapped block reads as are
left open.  Three constants name cases that the code mishandles and that a run may
exclude: `MixedRuns`, `PartialInWO` and `FoldRacesHoles` (section 3).

**`Rpc`** is one data connection: callers, the client's goroutines `loop`, `read` and
`write`, the wire, the server, `monitorPing` with its channel of `CloseCapacity` (5, as in
`remote.go`), and the supervision of pings.  The replica ends some time after `Handle`
returned, when `Server.Close` got the lock; meanwhile `readWrite` goes on.  Timeouts
fire at any time.  The client's error is read without synchronisation, so an
operation may miss it.

**`Agent`** is the sync agents of all replicas and their clients: processes, ports,
the pair of `ssync` processes that copies a file, fold and backup commands, polling,
crashes.  `ssync` is external and modelled by how it is started: a sender tries a
port for some seconds, a listener writes what it is sent.

**`MCReplication`**, **`MCBootstrap`**, **`MCVolume`**, **`MCManagement`**,
**`MCReplicaDisk`**, **`MCLunMap`**, **`MCRpc`**, **`MCAgent`** are the modules TLC
runs; some add symmetry and initial states.  `InitHealthy` is a volume whose RF
replicas were started, added and rebuilt without a failure; `InitRunning` is the same
volume with its registrations, possibly with one replica removed and restarted;
`InitServing` has a chain of four snapshots, each with a write of its own, of which the
third is the user's and the fourth everybody's checkpoint, and one more write, which all
replicas have or all but one that is about to come back.  Starting there leaves the bounds to what happens
next.

The theorems and their lemmas are in **`ReplicationProofs`** (the data path, the replica
list, and checkpoints and sizes under requests), **`BootstrapProofs`** (the election),
**`LunMapProofs`** (the shape of the block map, the queue of holes),
**`LunMapContentProofs`** (what writes, snapshots and folds leave to read),
**`LunMapRebuildProofs`** (the same of a rebuild), **`LunMapReadProofs`** (the same of
removals, reverts and restarts, and what a replica reads), **`AgentProofs`** (processes,
ports and copied files), and **`RpcProofs`** (the connection).

Definitions whose comment says "mutant of X" are faulty variants of X.  They are
used by nothing; putting one in the place of X must break the property it is
paired with in `PROJECT.json`, which shows that the property depends on that line
of the code.

## 3. The runs

Bounds have names that begin with `Max` (writes, snapshots, faults, files, heads,
requests, processes, crashes, drops of the backend).  Deadlock is not checked: a system whose bounds are
used up stops.

| run | instance | checks | result |
|---|---|---|---|
| `ReplicationRF2` | RF 2 healthy, 1 write, 2 more snapshots, 2 faults | `TypeOK`, `RWAgreeOnCounted`, `RWHoldAcked`, `CheckpointIsCommon`, `AtMostOneWO`, `DeadAreSignalled`, `ReadOnlyIsCurrent` | hold, 888,010 states |
| `ReplicationHealthy` | RF 3 healthy, 2 writes, 1 more snapshot, 1 fault | `RWAgreeOnCounted`, `RWHoldAcked`, `CheckpointIsCommon` | hold, 911,464 states |
| `Bootstrap` | RF 3, revisions 1..2, 2 faults, fair | `TypeOK`, `LeaderIsLatestAtFirst`, `VolumeStarts`, `EveryReplicaSettles` | hold, 189,999 states |
| `VolumeElection` | RF 3 with one replica missing, 1 write, 2 faults | `FirstLeaderHoldsAcked` | holds, 438,672 states |
| `VolumeDegraded` | RF 3 with one replica missing, 1 fault | `LeaderHoldsAcked` | violated |
| `Management` | RF 2 serving, 1 more snapshot, 1 request, 1 fault, `AllReached` | `MgmtTypeOK`, `UserSnapshotsKept`, `CheckpointsStay`, `SizesCover`, `RWAgreeOnCounted` | hold, 299,689 states |
| `ManagementRevert` | the same, all replicas present, without `AllReached` and the cleaner | `RWAgreeOnCounted` | violated |
| `ReplicaDisk` | 1 block, 3 names, 4 heads, 2 writes, 1 fault, `RevertsListed` | `TypeOK`, `Recoverable`, `MemoryIsDisk`, `CleanerIsNotRefused`, `KeepsSnapshots` | hold, 1,008,542 states |
| `LunMap` | 2 blocks of 2 sectors, 4 files, 2 writes, 2 holes queued, fair | `TypeOK`, `ReadsCurrent`, `SnapshotsIntact`, `NoHoleInClosedFile`, `DrainEnds` | hold, 398,758 states |
| `LunMapPunch` | 3 files, 3 writes, `MixedRuns` | `SnapshotsIntact` | violated |
| `Rpc` | 1 write, 2 pings, 1 drop, fair | `TypeOK`, `OwnAnswer`, `FailStop`, `ConnectionEnds` | hold, 344,888 states |
| `Agent` | 2 replicas, 3 files, 2 ports, 4 processes, 1 command, 1 crash, fair | `TypeOK`, `BindsItsPort`, `FindsFreePort`, `RebuiltIsCopy`, `PollingEnds` | hold, 119,607 states |

Every property is stated in words above its definition.  Those that say most:

- `RWHoldAcked`, `RWAgreeOnCounted`: every RW replica has every acknowledged write,
  and two RW replicas differ at most in writes that were never counted.
- `CheckpointIsCommon`: what replicas store as their checkpoint is common to them.
- `LeaderHoldsAcked`: who starts the volume after everything went down has the
  acknowledged writes.  `FirstLeaderHoldsAcked` says so of the first election of a
  controller, where it holds.
- `KeepsSnapshots`: the refinement of `SnapshotStore`, through every crash.
- `ReadsCurrent`, `SnapshotsIntact`: what a flat volume and its snapshots would hold.
- `FailStop`: after a failure nothing later succeeds on a connection, which is what
  lets `Replication` treat a failed replica as gone.
- `RebuiltIsCopy`: a replica that became RW has every file of its source.
- `ConnectionEnds`: after an error, the end of the replica or a drop of the backend,
  all goroutines of the client exit, the replica ends and the controller is told.
- `UserSnapshotsKept`: a user's snapshot stays on every RW replica, unchanged.

Why the bounds are enough for the cases of interest.  Two faults allow a replica to
fail and its rebuild, or its replacement, to fail too, and in `ReplicationRF2` three
snapshots let two additions follow a failure, which a takeover needs.  Two writes in
`ReplicationHealthy` allow one that everybody has and one that only some have.
`ReplicaDisk` has room for a chain of three snapshots, a fold and a revert around a
crash.  Four files in `LunMap` are a chain with a file to fold, its parent, the latest
snapshot and the head; a queue of two holes fills up.  Two ports in `Agent` are
exhausted by a listener that outlives its sender.  In `VolumeElection` the two faults
are a restart of the controller and one lost signal, failed write or crash around it.
The chain of `Management` has data below, in and above the user's snapshot, a snapshot
below it that the cleaner may fold from the start and one above it that it must not, so a
wrong fold shows; the replica that comes back has missed a write, so it is rebuilt by
copying.  With another write the same properties held on 1,735,635 states, and from a
chain of five snapshots on 2,315,410.

Fairness.  `FairSpec` of `Bootstrap` is weak fairness of each step of a replica's
loop: the ticker fires, an action that waits is received, and the controller
answers requests, as `sync.Task.AddReplica` and the HTTP server make sure of.
Faults are not fair and are bounded, so liveness says what happens once they stop.
That `select` prefers the ticker over a waiting action counts as a fault.  In `LunMap`
the goroutine `CreateHoles` and the polling of `holeDrainer` are fair; in `Rpc` the
goroutines and the timers, and nothing the network does; in `Agent` the processes,
their timeouts and the polling clients, and no crash.

### What the violations show

1. `LeaderHoldsAcked` in `VolumeDegraded`.  `Shutdown` keeps the registrations with
   their old revision counts; a replica that missed writes can then be elected.  The
   election goes wrong in two more ways: a leader was removed, or does not answer, while
   others stay registered, and the next to register is chosen whatever its count; and a
   replica registers while only a replica that is being rebuilt is attached.
   `FirstLeaderHoldsAcked` excludes these three (`carried`) and nothing else.
2. `SnapshotsIntact` in `LunMapPunch`.  `fullWriteAt` collects adjacent blocks that
   one file holds.  When the next block belongs to another file it sends the hole of
   the collected blocks for `d.files[val]`, the file of the next block.  The guard
   `fileIndx > SnapIndx` was about the other file, so the hole can fall into the
   user's snapshot.
3. `RWAgreeOnCounted` in `ManagementRevert`.  A revert to the latest snapshot
   fails on one replica, which is dropped and comes back.  Revision counters and chains
   are equal, so its rebuild is skipped and it serves reads with what was reverted.  A
   replica that was away during the revert does the same.  There are two more ways, which
   TLC finds when it starts with a replica missing or with the cleaner at work: a replica
   that becomes RW between the reading of the list and the lock is not reverted, and a
   revert to a snapshot into which only some of the replicas have folded the next one
   gives different contents.

Cases that the passing runs exclude or except because the property does not hold
there; each is a hazard in `PROJECT.json`:

- a snapshot that fails on two of three replicas leaves `ReadOnly` as it was until
  their goroutines run, and the next write is acknowledged by the third alone
  (`control.go:576`; `ReadOnlyIsCurrent` excepts it, and so does not catch it);
- a write that one replica stored without counting can survive a skipped rebuild and
  end up below a checkpoint (`uncounted`);
- after one lost start signal a replica may be elected although a registered one has
  a higher count (`LeaderIsLatestAtFirst` stops there);
- a replica whose `Start` arrives late is told that it succeeded and never joins
  (`EveryReplicaSettles` takes it for settled, and so does not catch it);
- a partial write to a replica that is being rebuilt reads the rest of the block
  before it was copied (`PartialInWO`);
- a hole pending in the parent of a snapshot that is being folded is punched in what
  was folded, and a revert while a snapshot is folded queues such holes
  (`FoldRacesHoles`);
- `SnapIndx` is not lowered when the last flag leaves with a removed snapshot, so it may
  lie above the chain (`diff_disk.go`, `RemoveIndex`); that only keeps holes from being
  punched, and `TypeOK` of `LunMap` bounds it by the files ever created;
- a revert below a stored checkpoint keeps that replica from ever being rebuilt, and a
  replica that missed a resize rejoins with the old size (`AllReached`);
- names of snapshots used again (`ReuseNames`), after which the cleaner can be refused;
- a revert to a file that is not in the chain.  `revertDisk` asks for no more than a
  file of that name, and the lookup in `revert.go:109` is commented out.  With
  `RevertsListed` false and room for six heads TLC finds `Recoverable` violated: a revert
  leaves the files of the later snapshots behind, a new snapshot of such a name fails and
  its cleanup removes them, and a revert to the one above names a chain with a gap;
- a replica that was dropped before its first ping, which waits for ever
  (`rpc/server.go:77`; `ConnectionEnds` speaks of replicas that were pinged);
- a metadata file of a snapshot that cannot be written, after which the memory of that
  replica is ahead of its disk (`MemoryIsDisk` excepts it; what a restart finds is right).

## 4. The proofs

**The data path.**  For every finite set of replicas, every replication factor and
every bound (`ReplicationAssumption`):

- `TypeCorrect`: `Spec => []TypeOK`.  One lemma per action or group of actions; the
  lemmas about `UpdateCheckpoint`, `StopMonitoring`, `RemoveReplicas`,
  `SnapshotData` and `SnapshotChain` are shared.
- `OneRebuildAtATime` (`AtMostOneWO`), `FailedReplicasAreSignalled`
  (`DeadAreSignalled`), `ReadOnlyFollowsModes` (`ReadOnlyIsCurrent`).

The last three are proved from one inductive invariant, `ListInv`.  Besides `TypeOK`
it says: two WO replicas are the same one (`OneWO`), which avoids cardinalities
inside the induction; a failed listed replica's backend has used its signal
(`FailedSignal`), and a used signal means a goroutine that has yet to run
(`SignalsWait`), because a goroutine that removes an address added again must not
take away the only signal; a replica whose addition is under way is not listed
(`Unlisted`) and, once created, is connected (`Created`), because the action that
lists it resets `signalled`; and `ReadOnly` is current or a failure explains why not
(`ReadOnlyIsCurrent`).  Each action preserves it through one of a few step lemmas:
`QuietStep` for actions that leave the list alone, `RemovalStep` for those that
remove, and one per remaining action.

**The connection.**  For every set of operations and pings, finite or not
(`RpcAssumption`):

- `RpcTypeCorrect` (`TypeOK`), `EveryAnswerIsOwn` (`OwnAnswer`) and
  `ConnectionFailsStop` (`FailStop`).

They rest on `IInv` in `RpcProofs`, which says where the message of an operation
can be.  Sequence numbers are given once (`Numbered`); an operation is at most once
in the request channel, without a number and not performed (`RequestsOnce`), then at
most once in the send channel (`SendOnce`), then at most once on the wire and no
longer in the send channel (`ToServerOnce`), and only then performed and answered
(`AnswersPerformed`).  For `FailStop` it says that the answer to an operation invoked
after a failure comes behind an error in the loop's channel (`ErrorComesFirst`) and
that the loop gives no answers once it has seen one (`ErrStopsLoop`): without these
the unsynchronised read of the client's error would seem to let a late operation
succeed.  `RpcProofs` has one lemma per step of the loop, the wire and the server.

**The election.**  For every set of replicas, replication factor, assignment of
revision counts and number of faults, with no assumption on scheduling:

- `ElectionTypeCorrect` (`TypeOK`) and `LatestIsElected` (`LeaderIsLatestAtFirst`: who
  is chosen to start has the highest revision count of those registered, as long as no
  leader was given up while others were registered).

`LeaderIsLatestAtFirst` is an action property about the step that chooses.  It needs
`ElectionInv`: the map of registrations has the counts that are on disk (`MapIsDisk`),
an attached replica means a known leader (`AttachedHaveLeader`), and, unless a leader
was given up, `MaxRevReplica` is itself in the map (`LeaderIsEntered`) and nobody in the
map is ahead of it before the signal (`LeaderIsAhead`).  The last part stops at the
signal, because replicas that are ahead may still register then.  TLC checked
`ElectionInv` first, on 451,137 states.

**Requests of the operator.**  For every volume, with everything that can happen to it
in `Replication`:

- `MgmtTypeCorrect` (`MgmtTypeOK`).
- `CheckpointsAreKept` (`CheckpointsStay`), for a volume with at most RF replicas and
  under `AllReached`.
- `SizesAreCovered` (`SizesCover`), under `AllReached`.

`CheckpointsStay` speaks of RW replicas and is not inductive: a replica that is away
comes back with the chain it had, and a cleaner deletes what it picked long before.
`CheckpointInv` therefore says that every stored checkpoint is in the chain of *every*
replica, that a checkpoint the controller has is the one every replica has stored,
and that what a cleaner is about to delete is older than every stored checkpoint.  A
new checkpoint is found only when all replicas are RW and have the same latest
snapshot (`NewCheckpointIs`), so it is above the old ones and `CheckpointInv` survives
a `SetCheckpoint` that reaches some of them (`CheckpointMoves`).  Both hypotheses are
needed: a replica beyond the replication factor keeps an old checkpoint that the
others' cleaners may delete, and a revert below a checkpoint removes it.  `SizeInv`
says that all replicas have one size, which covers the volume once there is an RW
replica; it needs that a replica becomes RW only by `Start` or next to an RW one
(`RWFromRW`).  TLC checked both on the instance of `Management`, and from `MgmtInit` with
three snapshots and two faults.

**The block map.**  For every number of blocks, files and writes and every capacity of
the channel of holes (`LunMapAssumption`), with restarts at any time after a rebuild:

- `TypesCorrect` (`TypeOK`: the indices of the map and the flags fit the chain) and
  `ClosedFilesNotPunched` (`NoHoleInClosedFile`), in `LunMapProofs`.
- `ReadsAlwaysCurrent` (`ReadsCurrent`) and `SnapshotsStayIntact` (`SnapshotsIntact`), in
  `LunMapReadProofs`, under `~MixedRuns`, `~PartialInWO` and `~FoldRacesHoles`.  These
  three leave out what section 3 lists; with any one of them true TLC finds one of the
  two properties violated.

The loops of the code (`preload`, `fullWriteAt`, the holes of a preload) are recursive
functions.  What a loop returns is proved with `LeastIs`: a set of naturals that is not
empty has a least element, here the set of rounds after which the claim fails.
`PreloadIs` says that a preload finds the last file that holds a block, and makes holes
only where a later file holds the block and no flag lies in between; `WriteRunIs` and
`UpdateMergesIs` say the same of a write and of the merge.

`StructInv` relates the chain, the lock, the channel and the rebuild: no file is twice in
the chain, nothing is queued for the head, while the lock is held and the drain is over
nothing is queued at all, and a closed file is neither in the chain nor queued.

`ContentInv` is what makes reads current.  `Held` is what the files of the chain hold
once everything is copied, `Wants` what each index must read as: the volume at the head,
the user's snapshots below.  The invariant says: every index reads as it is wanted
(`ViewInv`); a block queued for punching is held by a file above it and below, or at,
every index that wants it (`QueueInv`), which a later write, snapshot or removal must
not undo; the map names the last file that holds a block (`LocationInv`); `SnapIndx` and
a flag cover each of the user's snapshots, in spite of the flag being one index too
high after `createDisk` (`FlagInv`); what is folded is in the parent, and no hole queued
there is about it (`FoldInv`); while files are copied the map has only what was written
meanwhile (`SyncInv`); and what `UpdateLUNMap` has read so far is still so, or was written
since, with all holes queued below it (`CopyInv`).  The last part of `CopyInv` was missing
at first: without it a hole punched during the preload could take away a block
that the map set aside names.  TLC checked `ContentInv` on the instance of `LunMap`.

**The sync agents.**  For every set of replicas, files, ports and commands, with
crashes at any time:

- `AgentTypeCorrect` (`TypeOK`), `PortIsFree` (`BindsItsPort`: the port that a listener
  is about to bind is bound by no other), `PortsAreFound` (`FindsFreePort`: a listener is
  refused only when every port belongs to one).
- `RebuiltReplicaIsCopy` (`RebuiltIsCopy`), under `RestartOutlastsSender`: a restart takes
  longer than the seven seconds for which a sender tries to connect.

The first three rest on `AgentInv`, which relates the table of processes to the table
of ports.  `RebuiltIsCopy` needs `CopyInv` besides.  It says what a replica that rebuilds
already has, and that its source is complete (`RoleInv`); that the process its client
waits for sends the file in question, and exits with 0 only after the copy (`WaitInv`);
that the only sender to a running replica is the one its rebuild waits for
(`SenderInv`); and that the only listener nobody has served yet is the one for the file
being copied (`ListenerInv`).  The last two are what a port used again, or a listener
that outlives its sender, could break.  TLC checked `CopyInv` on the instance of
`Agent`, and on 10 million states with three replicas.

**Left to TLC.**

- Liveness: `VolumeStarts`, `EveryReplicaSettles`, `DrainEnds`, `ConnectionEnds`,
  `PollingEnds`.
- `RWHoldAcked`, `RWAgreeOnCounted`, `CheckpointIsCommon` and `UserSnapshotsKept`.  They
  hold within the bounds of the runs and not for every number of faults.  With RF 2 and
  four faults TLC finds this behaviour of `Replication`, in which any closed replica may
  start the volume: after a `Shutdown`, which keeps `ReadOnly` false, a replica starts
  the volume although `GetRevisionCounter` fails, and takes a write alone; after a second
  `Shutdown` the other replica does the same.  Counters and chains are now equal, so
  when one joins the other nothing is copied and both are RW with different contents.
- `LeaderHoldsAcked` and `FirstLeaderHoldsAcked`, which rest on those.
- `ReplicaDisk`, with its refinement of `SnapshotStore`: what a chain of parents holds
  is defined by recursion over the chain, and its properties need induction over it.

## 5. What is not modelled

- Quorum replicas, which take part in elections and hold no data.
- Cloning (`CloneReplica`, the clone status of `volume.meta`).
- `Unmap` in the controller; on the replica it is an action of `LunMap`.
- `DeleteVolume`, the deletion of a replica's files, and the quorum lookups of the
  REST interface.  The other REST handlers and clients forward.
- `ReplaceDisk` and hard links: `processRemoveSnapshot`, which would ask for them, is
  never called.
- Backing files, block counters, statistics, logging, fault injection, and the
  command line.
- The programs `ssync`, `sfold` and backup, and the SCSI target: external.

A replica has one address for life, and the runs have as many addresses as the
replication factor, so they do not show additions beyond it.  Left out as well,
though the code is exposed to them: a metadata file that was not encoded completely
and is renamed over the good one, because `encodeToFile` tests another error
(`replica.go:770`); the buffer of a timed-out write, used again while its message
waits for the wire (`rpc/client.go:171`); that `Unmap` is not counted, so that a
replica that failed it keeps the old contents of unmapped blocks (`control.go:1094`);
and the wait group of `DeleteVolume`, sized before the lock (`rest/delete.go:121`); a write
of several blocks that fails half-way, after which `LunMap` would have some of them
(`diff_disk.go:199`; the replica is then dropped and rebuilt); a revert in `LunMap` to a
snapshot that is not the user's; a lock that `Server.Close` never gets
(`replica/server.go:92`); and an identifier of a process given out again after several
restarts of an agent.  In `Bootstrap` a replica that joins is RW at once, and in `Agent`
the replica that starts the volume is any with complete files: these are the matter of `Replication` and `Volume`.

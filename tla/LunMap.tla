------------------------------- MODULE LunMap -------------------------------
(* The block map of a replica (diff_disk.go, backup.go, extents.go and       *)
(* Server.UpdateLUNMap): which file of the chain holds a block, the holes    *)
(* punched in the files below, and the goroutine CreateHoles that punches    *)
(* them behind the writer's back.                                            *)
(*                                                                           *)
(* files is the chain, base first, as in the code, where index 0 is nil; a   *)
(* file keeps its identity when its index moves.  A block has two sectors: a *)
(* write of whole blocks goes to the head, a write of one sector reads the   *)
(* block first (the map has blocks of 4096 bytes, the target one of 512).    *)
(* Reads and writes of a replica arrive over one connection, one at a time.  *)
(* A rebuilding replica (WO) starts with the chain of a healthy one and the  *)
(* contents of its files still to be copied (source).                        *)
(*                                                                           *)
(* Abstracted: the block counters, backing files, failures of fallocate and  *)
(* fiemap; a write that the file system refuses, after which fullWriteAt     *)
(* marks the blocks and sends the holes all the same and the controller      *)
(* drops the replica; adjacent holes of preload and UpdateLUNMap are sent one by one.   *)
(* What a read of an unmapped block returns is left open.                    *)
EXTENDS Integers, Sequences, FiniteSetsExt

CONSTANTS
    NumBlocks,     \* the blocks of the volume
    MaxFiles,      \* bound: files ever created
    MaxWrites,     \* bound: writes, each with a value of its own, and unmaps
    HoleCapacity,  \* the capacity of HoleCreatorChan
    Unmapped,      \* the contents of a block that was unmapped
    Hole,          \* a block a file does not hold
    None,
    MixedRuns,     \* one write may replace blocks held by different files
    PartialInWO,   \* single sectors are written during a rebuild
    FoldRacesHoles \* holes in its parent are queued while a snapshot is folded

ASSUME LunMapAssumption ==
    /\ NumBlocks \in Nat \ {0} /\ MaxFiles \in Nat \ (0 .. 2) /\ MaxWrites \in Nat
    /\ HoleCapacity \in Nat \ {0}
    /\ MixedRuns \in BOOLEAN /\ PartialInWO \in BOOLEAN /\ FoldRacesHoles \in BOOLEAN

Blocks == 1 .. NumBlocks
Sectors == 1 .. 2
Files == 1 .. MaxFiles

\* the sectors of a block: 0 when never written, -1 and -2 in copied files
Value == [Sectors -> -2 .. MaxWrites]
Zeros == [s \in Sectors |-> 0]
NoData == [b \in Blocks |-> Hole]
FileData == [Blocks -> Value \union {Hole}]

\* a hole to punch; the one without a file only wakes CreateHoles
HoleType == [file : Files \union {None}, blocks : SUBSET Blocks]

ASSUME NoValueAssumption ==
    /\ Hole \notin Value
    /\ None \notin Files /\ None \notin FileData /\ None \notin HoleType

VARIABLES
    files,     \* the chain
    kind,      \* file -> auto, user, removed: the snapshot's metadata
    flags,     \* UserCreatedSnap, by index
    snapIndx,  \* SnapIndx: the latest user's snapshot
    location,  \* block -> index in files, 0 when not known
    data,      \* file -> block -> its contents, or Hole
    stage,     \* how far a rebuild is: sync, reloaded, preload, merged, done (RW)
    source,    \* what is still to be copied: file -> its blocks, or None
    copy,      \* the map UpdateLUNMap preloads, and the next file it reads
    punch,     \* ShouldPunchHoles
    holes,     \* HoleCreatorChan
    worker,    \* the hole CreateHoles is punching, or None
    drain,     \* DrainOps
    holder,    \* who holds the lock over a drain: RemoveDiffDisk or Close
    folded,    \* the snapshot the cleaner has folded into its parent, or None
    closed,    \* the files whose descriptor is closed
    used, writes,  \* the files created; the writes and unmaps made
    vol,       \* what was written last to each block, or Unmapped
    snaps      \* user's snapshot -> the blocks it must hold

mapVars == <<files, kind, flags, snapIndx, location>>
rebuildVars == <<stage, source, copy>>
holeVars == <<holes, worker, drain>>
cleanVars == <<holder, folded, closed>>
counters == <<used, writes>>
ghosts == <<vol, snaps>>
vars == <<mapVars, data, rebuildVars, punch, holeVars, cleanVars, counters, ghosts>>

Free == [op |-> "none", file |-> None, sent |-> FALSE]
Unlocked == holder.op = "none"
IsRW == stage = "done"

----------------------------------------------------------------------------
(* The map                                                                   *)

Top == Len(files)
Holds(i, b) == data[files[i]][b] # Hole

\* the last index up to n with property P, 0 when there is none
LastIndex(n, P(_)) == Max({0} \union {i \in 1 .. n : P(i)})

\* lookup; the base answers for what no file holds
Lookup(b) == IF Top = 1 THEN 1
             ELSE IF location[b] # 0 THEN location[b]
             ELSE Max({1} \union {i \in 2 .. Top : Holds(i, b)})

\* lookup remembers what it found, except in a chain of one file
Remember(b) == IF Top = 1 THEN location ELSE [location EXCEPT ![b] = Lookup(b)]

Contents(f, b) == IF data[f][b] = Hole THEN Zeros ELSE data[f][b]

\* fullReadAt of one block
ReadBlock(b) == Contents(files[Lookup(b)], b)

\* what the files up to index i hold, whatever the map says
ViewAt(i, b) == LET j == LastIndex(i, LAMBDA k : Holds(k, b))
                IN  IF j = 0 THEN Zeros ELSE Contents(files[j], b)

\* openLiveChain: the flags and SnapIndx, made from the snapshots' metadata
FlagsOf(chain) == [i \in DOMAIN chain |-> kind[chain[i]] # "auto"]
LastFlag(fl, n) == LastIndex(n, LAMBDA i : fl[i])

----------------------------------------------------------------------------
(* Preloading                                                                *)

MkHole(f, first, length) == [file |-> f, blocks |-> first .. first + length - 1]

\* sendToCreateHole for the blocks bs, one after the other, each in the file
\* that loc has for it
HolesFor(chain, loc, bs) ==
    LET upTo[n \in 0 .. NumBlocks] ==
            IF n = 0 THEN <<>>
            ELSE IF n \in bs THEN Append(upTo[n - 1], MkHole(chain[loc[n]], n, 1))
            ELSE upTo[n - 1]
    IN  upTo[NumBlocks]

\* preload, file i of chain: the blocks it holds are its own from now on, and
\* the copy below is a hole unless a user's snapshot needs it
PreloadFile(chain, fl, loc, i) ==
    LET mine == {b \in Blocks : data[chain[i]][b] # Hole}
        below == {b \in mine : loc[b] > LastFlag(fl, i) /\ punch}
    IN  [loc |-> [b \in Blocks |-> IF b \in mine THEN i ELSE loc[b]],
         holes |-> HolesFor(chain, loc, below)]

NoLocation == [b \in Blocks |-> 0]

\* PreloadLunMap, the map and the holes after the first n files of chain
PreloadUpTo(chain, fl) ==
    LET upTo[n \in 0 .. Len(chain)] ==
            IF n = 0 THEN [loc |-> NoLocation, holes |-> <<>>]
            ELSE LET before == upTo[n - 1]
                     p == PreloadFile(chain, fl, before.loc, n)
                 IN  [loc |-> p.loc, holes |-> before.holes \o p.holes]
    IN  upTo

Preload(chain, fl) == PreloadUpTo(chain, fl)[Len(chain)]

----------------------------------------------------------------------------
(* Writing                                                                   *)

\* what fullWriteAt collected: consecutive blocks that one file holds
Collected(acc) == acc.idx > snapIndx /\ punch

\* mutant of WriteBlock: the file of the latest user's snapshot is punched too
WriteBlockPunchesUser(acc, b) ==
    LET val == acc.loc[b]
        moved == [acc EXCEPT !.loc[b] = Top]
    IN  IF val \in {0, Top} THEN moved
        ELSE IF val >= snapIndx /\ punch
             THEN [moved EXCEPT !.holes = Append(@, MkHole(files[val], b, 1))] ELSE moved

\* fullWriteAt, one block of the run: when the next block is not adjacent, or
\* another file holds it, a hole is sent for the blocks collected so far, in
\* the file of the next block
WriteBlock(acc, b) ==
    LET val == acc.loc[b]
        moved == [acc EXCEPT !.loc[b] = Top]
    IN  IF val \in {0, Top} THEN moved
        ELSE IF val = acc.idx /\ b = acc.first + acc.length THEN [moved EXCEPT !.length = @ + 1]
        ELSE [moved EXCEPT !.idx = val, !.first = b, !.length = 1,
                           !.holes = IF Collected(acc)
                                     THEN Append(@, MkHole(files[val], acc.first, acc.length)) ELSE @]

\* fullWriteAt, the loop over the blocks of run
WriteUpTo(run, loc) ==
    LET upTo[n \in 0 .. Len(run)] ==
            IF n = 0 THEN [loc |-> loc, holes |-> <<>>, idx |-> 0, first |-> 0, length |-> 0]
            ELSE WriteBlock(upTo[n - 1], run[n])
    IN  upTo

\* fullWriteAt: the map and the holes sent after the blocks of run are written
WriteRun(run, loc) ==
    LET acc == WriteUpTo(run, loc)[Len(run)]
    IN  [loc |-> acc.loc,
         holes |-> IF Collected(acc) THEN Append(acc.holes, MkHole(files[acc.idx], acc.first, acc.length))
                   ELSE acc.holes]

\* sendToCreateHole waits while the channel is full
Send(new) == /\ Len(holes) + Len(new) <= HoleCapacity
             /\ holes' = holes \o new

\* the blocks of a run that have to leave a file
Leaving(run) == {location[b] : b \in run} \ {0, Top}

CountWrite == writes < MaxWrites /\ writes' = writes + 1

\* WriteAt of the whole blocks first to last
FullWrite(first, last) ==
    LET run == first .. last
        w == WriteRun([i \in 1 .. last - first + 1 |-> first + i - 1], location)
        block == [s \in Sectors |-> writes + 1]
    IN  /\ Unlocked /\ CountWrite
        /\ MixedRuns \/ \A i, j \in Leaving(run) : i = j
        /\ data' = [data EXCEPT ![files[Top]] = [b \in Blocks |-> IF b \in run THEN block ELSE @[b]]]
        /\ vol' = [b \in Blocks |-> IF b \in run THEN block ELSE vol[b]]
        /\ location' = w.loc
        /\ Send(w.holes)
        /\ UNCHANGED <<files, kind, flags, snapIndx, rebuildVars, punch, worker, drain, cleanVars, used, snaps>>

\* readModifyWrite of the first sector of block b
PartialWrite(b) ==
    LET w == WriteRun(<<b>>, Remember(b))
        block == [ReadBlock(b) EXCEPT ![1] = writes + 1]
    IN  /\ Unlocked /\ CountWrite
        /\ IsRW \/ PartialInWO
        /\ data' = [data EXCEPT ![files[Top]][b] = block]
        /\ vol' = [vol EXCEPT ![b] = IF @ = Unmapped THEN block ELSE [@ EXCEPT ![1] = writes + 1]]
        /\ location' = w.loc
        /\ Send(w.holes)
        /\ UNCHANGED <<files, kind, flags, snapIndx, rebuildVars, punch, worker, drain, cleanVars, used, snaps>>

\* a read leaves what lookup found in the map
ReadAt(b) == /\ Unlocked /\ IsRW
             /\ location' = Remember(b)
             /\ UNCHANGED <<files, kind, flags, snapIndx, data, rebuildVars, punch, holeVars, cleanVars, counters, ghosts>>

\* Unmap punches every file above the latest user's snapshot
Unmap(b) ==
    /\ Unlocked /\ CountWrite
    /\ data' = [f \in Files |-> IF \E i \in snapIndx + 1 .. Top : files[i] = f
                                THEN [data[f] EXCEPT ![b] = Hole] ELSE data[f]]
    /\ vol' = [vol EXCEPT ![b] = Unmapped]
    /\ UNCHANGED <<mapVars, rebuildVars, punch, holeVars, cleanVars, used, snaps>>

----------------------------------------------------------------------------
(* The chain                                                                 *)

\* createDisk: the head becomes a snapshot; the flag is appended at the index
\* of the new head, not at the snapshot's
Snapshot(byUser) ==
    /\ Unlocked /\ IsRW /\ used < MaxFiles
    /\ used' = used + 1
    /\ files' = Append(files, used + 1)
    /\ kind' = [kind EXCEPT ![files[Top]] = IF byUser THEN "user" ELSE "auto"]
    /\ flags' = Append(flags, byUser)
    /\ snapIndx' = IF byUser THEN Top ELSE snapIndx
    /\ snaps' = IF byUser THEN [snaps EXCEPT ![files[Top]] = vol] ELSE snaps
    /\ UNCHANGED <<location, data, rebuildVars, punch, holeVars, cleanVars, writes, vol>>

\* markDiskAsRemoved, for a snapshot the user deletes
DeleteSnapshot(i) ==
    /\ Unlocked /\ IsRW /\ i \in 2 .. Top - 2 /\ kind[files[i]] = "user"
    /\ kind' = [kind EXCEPT ![files[i]] = "removed"]
    /\ snaps' = [snaps EXCEPT ![files[i]] = None]
    /\ UNCHANGED <<files, flags, snapIndx, location, data, rebuildVars, punch, holeVars, cleanVars, counters, vol>>

\* construct with preload: the chain is read back and the map made from it
OpenChain(chain, queued) ==
    LET fl == FlagsOf(chain)
        p == Preload(chain, fl)
    IN  /\ files' = chain /\ flags' = fl
        /\ snapIndx' = LastFlag(fl, Len(chain))
        /\ location' = p.loc
        /\ holes' = queued \o p.holes

\* revertDisk to a user's snapshot, whose contents no hole may change, and
\* Reload; what was queued stays queued
Revert(i) ==
    /\ Unlocked /\ IsRW /\ used < MaxFiles
    /\ kind[files[i]] = "user"
    /\ FoldRacesHoles \/ folded = None
    /\ used' = used + 1
    /\ OpenChain(Append(SubSeq(files, 1, i), used + 1), holes)
    /\ vol' = snaps[files[i]]
    /\ UNCHANGED <<kind, data, rebuildVars, punch, worker, drain, cleanVars, writes, snaps>>

\* the process ends, by Close or by a crash, and a new one opens the replica
Restart ==
    /\ IsRW
    /\ OpenChain(files, <<>>)
    /\ worker' = None /\ drain' = "done"
    /\ holder' = Free /\ folded' = None /\ closed' = {}
    /\ UNCHANGED <<kind, data, rebuildVars, punch, counters, ghosts>>

----------------------------------------------------------------------------
(* Punching holes, and waiting until no more are punched                     *)

\* CreateHoles takes a hole; while a drain is on it empties the channel
Receive ==
    /\ worker = None /\ holes # <<>>
    /\ IF drain = "start"
       THEN holes' = <<>> /\ drain' = "done" /\ UNCHANGED worker
       ELSE /\ holes' = Tail(holes)
            /\ worker' = IF Head(holes).file = None THEN None ELSE Head(holes)
            /\ UNCHANGED drain
    /\ UNCHANGED <<mapVars, data, rebuildVars, punch, cleanVars, counters, ghosts>>

\* fallocate
Punch ==
    /\ worker # None
    /\ data' = [data EXCEPT ![worker.file] = [b \in Blocks |-> IF b \in worker.blocks THEN Hole ELSE @[b]]]
    /\ worker' = None
    /\ UNCHANGED <<mapVars, rebuildVars, punch, holes, drain, cleanVars, counters, ghosts>>

\* mutant of SendEmptyHole: the channel is not woken
SendEmptyHoleSkipped ==
    /\ ~Unlocked /\ ~holder.sent
    /\ holder' = [holder EXCEPT !.sent = TRUE]
    /\ UNCHANGED <<mapVars, data, rebuildVars, punch, holeVars, folded, closed, counters, ghosts>>

\* holeDrainer wakes CreateHoles with an empty hole
SendEmptyHole ==
    /\ ~Unlocked /\ ~holder.sent
    /\ Send(<<MkHole(None, 1, 0)>>)
    /\ holder' = [holder EXCEPT !.sent = TRUE]
    /\ UNCHANGED <<mapVars, data, rebuildVars, punch, worker, drain, folded, closed, counters, ghosts>>

\* holeDrainer, called with the lock held
StartDrain(op, f) ==
    /\ drain' = "start"
    /\ holder' = [op |-> op, file |-> f, sent |-> FALSE]
    /\ UNCHANGED <<mapVars, data, rebuildVars, punch, holes, worker, folded, closed, counters, ghosts>>

Drained(op) == holder.op = op /\ holder.sent /\ drain = "done"

----------------------------------------------------------------------------
(* Removing a snapshot (InternalSnapshotCleaner)                             *)

Pending == {holes[i].file : i \in 1 .. Len(holes)} \union (IF worker = None THEN {} ELSE {worker.file})

\* sfold copies the snapshot at index i into its parent; neither is a
\* snapshot the user keeps
Fold(i) ==
    /\ IsRW /\ folded = None
    /\ i \in 2 .. Top - 2
    /\ kind[files[i]] # "user" /\ kind[files[i - 1]] # "user"
    /\ FoldRacesHoles \/ files[i - 1] \notin Pending
    /\ data' = [data EXCEPT ![files[i - 1]] =
                  [b \in Blocks |-> IF Holds(i, b) THEN data[files[i]][b] ELSE @[b]]]
    /\ folded' = files[i]
    /\ UNCHANGED <<mapVars, rebuildVars, punch, holeVars, holder, closed, counters, ghosts>>

\* mutant of RemoveDiffDisk: the queue is not drained
RemoveDiffDiskWithoutDrain ==
    /\ Unlocked /\ IsRW /\ folded # None
    /\ holder' = [op |-> "remove", file |-> folded, sent |-> TRUE]
    /\ UNCHANGED <<mapVars, data, rebuildVars, punch, holeVars, folded, closed, counters, ghosts>>

RemoveDiffDisk == /\ Unlocked /\ IsRW /\ folded # None
                  /\ StartDrain("remove", folded)

\* s without its element i
Without(s, i) == SubSeq(s, 1, i - 1) \o SubSeq(s, i + 1, Len(s))

\* mutant of RemoveFlag: UserCreatedSnap keeps its length
RemoveFlagKept(i) == flags

\* RemoveIndex, UserCreatedSnap
RemoveFlag(i) == Without(flags, i)

\* mutant of RemoveIndex: the blocks of the removed file itself do not move
RemoveIndexAbove(i) == [b \in Blocks |-> IF location[b] > i THEN location[b] - 1 ELSE location[b]]

\* RemoveIndex: what was at index i or above moves down by one
RemoveIndex(i) == [b \in Blocks |-> IF location[b] >= i THEN location[b] - 1 ELSE location[b]]

\* removeDiskNode once drained; after a revert the file may have left the
\* chain.  SnapIndx keeps its value when no flag is left
FinishRemove ==
    LET i == LastIndex(Top, LAMBDA k : files[k] = holder.file)
        left == RemoveFlag(i)
        last == LastFlag(left, Len(left))
    IN  /\ Drained("remove")
        /\ IF i = 0 THEN UNCHANGED <<files, flags, snapIndx, location>>
           ELSE /\ files' = Without(files, i) /\ flags' = left
                /\ location' = RemoveIndex(i)
                /\ snapIndx' = IF last = 0 THEN snapIndx ELSE last
        /\ closed' = closed \union {holder.file}
        /\ holder' = Free /\ folded' = None
        /\ UNCHANGED <<kind, data, rebuildVars, punch, holeVars, counters, ghosts>>

\* Server.Close: every file is closed; the next step is a Restart
Close == Unlocked /\ IsRW /\ StartDrain("close", None)

FinishClose == /\ Drained("close")
               /\ closed' = Files
               /\ holder' = [holder EXCEPT !.op = "closed"]
               /\ UNCHANGED <<mapVars, data, rebuildVars, punch, holeVars, folded, counters, ghosts>>

----------------------------------------------------------------------------
(* Rebuilding (AddReplica, reloadAndVerify)                                  *)

\* syncFiles: ssync replaces one file after the other by the healthy replica's
SyncFile(f) ==
    /\ stage = "sync" /\ source[f] # None /\ \A g \in 1 .. f - 1 : source[g] = None
    /\ data' = [data EXCEPT ![f] = source[f]]
    /\ source' = [source EXCEPT ![f] = None]
    /\ UNCHANGED <<mapVars, stage, copy, punch, holeVars, cleanVars, counters, ghosts>>

\* Server.Reload without preload: the map is empty again
Reload ==
    /\ Unlocked /\ stage = "sync" /\ \A f \in Files : source[f] = None
    /\ stage' = "reloaded"
    /\ punch' = TRUE
    /\ flags' = FlagsOf(files)
    /\ snapIndx' = LastFlag(FlagsOf(files), Top)
    /\ location' = NoLocation
    /\ UNCHANGED <<files, kind, data, source, copy, holeVars, cleanVars, counters, ghosts>>

\* UpdateLUNMap: an empty map is set aside, and filled file by file while
\* writes go on
UpdateStarts ==
    /\ Unlocked /\ stage = "reloaded"
    /\ stage' = "preload"
    /\ copy' = [loc |-> NoLocation, next |-> 1]
    /\ UNCHANGED <<mapVars, data, source, punch, holeVars, cleanVars, counters, ghosts>>

UpdatePreloads ==
    LET p == PreloadFile(files, flags, copy.loc, copy.next)
    IN  /\ stage = "preload" /\ copy.next <= Top
        /\ copy' = [loc |-> p.loc, next |-> copy.next + 1]
        /\ Send(p.holes)
        /\ UNCHANGED <<mapVars, data, stage, source, punch, worker, drain, cleanVars, counters, ghosts>>

\* UpdateLUNMap, the merge: the map of the writes wins when it is above
Merged(b) == IF copy.loc[b] # 0 /\ location[b] <= copy.loc[b] THEN copy.loc[b] ELSE location[b]

UpdateMerges ==
    LET over == {b \in Blocks : copy.loc[b] # 0 /\ location[b] > copy.loc[b]
                                /\ copy.loc[b] > LastFlag(flags, Top) /\ punch}
    IN  /\ Unlocked /\ stage = "preload" /\ copy.next > Top
        /\ location' = [b \in Blocks |-> Merged(b)]
        /\ Send(HolesFor(files, copy.loc, over))
        /\ copy' = None /\ stage' = "merged"
        /\ UNCHANGED <<files, kind, flags, snapIndx, data, source, punch, worker, drain, cleanVars, counters, ghosts>>

\* VerifyRebuildReplica and SetReplicaMode: from now on it serves reads
BecomesRW == /\ Unlocked /\ stage = "merged" /\ stage' = "done"
             /\ UNCHANGED <<mapVars, data, source, copy, punch, holeVars, cleanVars, counters, ghosts>>

----------------------------------------------------------------------------

\* a volume just created and started
InitNew == /\ files = <<1>> /\ kind = [f \in Files |-> "auto"]
           /\ stage = "done" /\ source = [f \in Files |-> None]
           /\ used = 1 /\ punch = TRUE
           /\ vol = [b \in Blocks |-> Zeros]
           /\ snaps = [f \in Files |-> None]

\* a replica that rebuilds: two files to copy, a full one, a user's snapshot or
\* not, and one that holds the blocks of later
InitRebuild ==
    \E later \in SUBSET Blocks, byUser \in BOOLEAN :
        LET copied(v) == [s \in Sectors |-> v]
            base == [b \in Blocks |-> copied(-1)]
            over == [b \in Blocks |-> IF b \in later THEN copied(-2) ELSE Hole]
        IN  /\ files = <<1, 2, 3>>
            /\ kind = [f \in Files |-> IF f = 1 /\ byUser THEN "user" ELSE "auto"]
            /\ stage = "sync"
            /\ source = [f \in Files |-> CASE f = 1 -> base [] f = 2 -> over [] OTHER -> None]
            /\ used = 3 /\ punch = FALSE
            /\ vol = [b \in Blocks |-> IF b \in later THEN copied(-2) ELSE copied(-1)]
            /\ snaps = [f \in Files |-> IF f = 1 /\ byUser THEN base ELSE None]

Init == /\ InitNew \/ InitRebuild
        /\ flags = FlagsOf(files) /\ snapIndx = LastFlag(flags, Top)
        /\ location = NoLocation
        /\ data = [f \in Files |-> NoData]
        /\ copy = None /\ holes = <<>> /\ worker = None /\ drain = "done"
        /\ holder = Free /\ folded = None /\ closed = {}
        /\ writes = 0

IO == \/ \E first \in Blocks : \E last \in first .. NumBlocks : FullWrite(first, last)
      \/ \E b \in Blocks : PartialWrite(b) \/ ReadAt(b) \/ Unmap(b)

Chain == \/ \E byUser \in BOOLEAN : Snapshot(byUser)
         \/ \E i \in 1 .. Top : DeleteSnapshot(i) \/ Revert(i)
         \/ Restart \/ Close

CreateHoles == Receive \/ Punch

Cleaning == \/ \E i \in 1 .. Top : Fold(i)
            \/ RemoveDiffDisk

Draining == SendEmptyHole \/ FinishRemove \/ FinishClose

Rebuilding == \/ \E f \in Files : SyncFile(f)
              \/ Reload \/ UpdateStarts \/ UpdatePreloads \/ UpdateMerges \/ BecomesRW

Next == IO \/ Chain \/ CreateHoles \/ Cleaning \/ Draining \/ Rebuilding

\* CreateHoles is a goroutine of its own and holeDrainer polls: neither stops
Spec == Init /\ [][Next]_vars /\ WF_vars(CreateHoles) /\ WF_vars(Draining)

----------------------------------------------------------------------------
(* Properties                                                                *)

\* TypeOK: every index of the map and the flags fit the chain as it is now;
\* SnapIndx may be above it, but not above the files ever created (diffDisk:
\* location, files, UserCreatedSnap, RemoveIndex)
TypeOK ==
    /\ files \in Seq(Files) /\ Len(flags) = Len(files)
    /\ kind \in [Files -> {"auto", "user", "removed"}]
    /\ snapIndx \in 0 .. used
    /\ location \in [Blocks -> 0 .. Top]
    /\ data \in [Files -> [Blocks -> Value \union {Hole}]]
    /\ \A i \in 1 .. Len(holes) : holes[i] \in HoleType
    /\ worker \in HoleType \union {None}
    /\ stage \in {"sync", "reloaded", "preload", "merged", "done"}
    /\ drain \in {"start", "done"} /\ punch \in BOOLEAN

\* ReadsCurrent: whatever was snapshotted, folded, removed, reverted, punched
\* or rebuilt in between, a replica that serves reads returns for every block
\* what was written to it last (diffDisk.lookup, RemoveIndex, UpdateLUNMap)
ReadsCurrent ==
    IsRW /\ Unlocked => \A b \in Blocks : vol[b] # Unmapped => ReadBlock(b) = vol[b]

\* SnapshotsIntact: no hole and no fold ever changes what a snapshot the user
\* keeps holds (fullWriteAt, preload, UpdateLUNMap: SnapIndx)
SnapshotsIntact ==
    IsRW => \A i \in 1 .. Top - 1 : kind[files[i]] = "user" =>
                \A b \in Blocks : snaps[files[i]][b] # Unmapped => ViewAt(i, b) = snaps[files[i]][b]

\* NoHoleInClosedFile: once a file is closed CreateHoles neither punches it nor
\* finds it in the channel, where its descriptor could be another file's
\* (RemoveDiffDisk, Server.Close: holeDrainer)
NoHoleInClosedFile == Pending \intersect closed = {}

\* DrainEnds: RemoveDiffDisk and Close, which hold the lock of the replica
\* while they wait for CreateHoles, get on (holeDrainer, CreateHoles)
DrainEnds == (holder.op \in {"remove", "close"}) ~> (holder.op \in {"none", "closed"})
=============================================================================

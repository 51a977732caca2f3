---------------------------- MODULE ReplicaDisk ----------------------------
(* The directory of one replica and the replica process that works on it     *)
(* (replica.go, server.go, and the snapshot cleaner of sync.go).             *)
(*                                                                           *)
(* On disk: volume-head-*.img and volume-snap-*.img (img: a name to an       *)
(* inode, hard links included), a metadata file beside each (meta), and      *)
(* volume.meta (vol).  In memory: the Replica structure (replica).  An       *)
(* operation holds the server's lock and is a program of file-system steps   *)
(* (todo) that a crash may cut after any of them.  The cleaner works between *)
(* the operations, with the lock for its first and its last step only.       *)
(*                                                                           *)
(* Abstracted: sizes (a file has data or not), times, revision counters      *)
(* (Replication.tla), the LUN map and the holes (LunMap.tla), the dirty and  *)
(* rebuilding flags, backing files.  A head file's name is its number.       *)
EXTENDS Naturals, Sequences, FiniteSets, SequencesExt

CONSTANTS
    Blocks,          \* the blocks of the volume
    Snapshots,       \* the names of snapshots
    None,            \* no name, no inode, no record
    Hole,            \* a block a file does not hold
    MaxChainLength,  \* types.MaxChainLength
    Retention,       \* SnapshotRetentionCount of the cleaner
    MaxHead,         \* bound: the number of the last head file
    MaxWrites,       \* bound: writes, each with a value of its own
    MaxFaults,       \* bound: crashes, and metadata writes that fail
    ReuseNames,      \* whether users reuse the name of a snapshot they deleted
    RevertsListed    \* whether users revert only to what the volume lists as theirs

ASSUME DiskAssumption ==
    /\ MaxHead \in Nat /\ MaxWrites \in Nat /\ MaxFaults \in Nat
    /\ MaxChainLength \in Nat /\ Retention \in Nat \ {0}
    /\ ReuseNames \in BOOLEAN /\ RevertsListed \in BOOLEAN
    /\ Snapshots \intersect (0 .. MaxHead) = {}
    /\ None \notin Snapshots \union (0 .. MaxHead)

VARIABLES
    img,      \* image files: name -> inode, or None
    meta,     \* metadata files: name -> record, or None
    vol,      \* volume.meta: head and checkpoint, or None
    data,     \* inode -> the blocks it holds
    seen,     \* what a restart would find: always Restart
    replica,  \* the Replica in memory, or None when closed
    todo,     \* what is left of the operation that holds the lock
    cleaner,  \* where InternalSnapshotCleaner is
    asked,    \* snapshots whose deletion a user requested
    writes, faults

diskVars == <<img, meta, vol, data, seen>>
counters == <<writes, faults>>
vars == <<diskVars, replica, todo, cleaner, asked, counters>>

Heads == 0 .. MaxHead
Names == Heads \union Snapshots
Inodes == 1 .. Cardinality(Names)
Values == 0 .. MaxWrites
NoData == [b \in Blocks |-> Hole]
CleanerIdle == [at |-> "idle", source |-> None, target |-> None]

----------------------------------------------------------------------------
(* Reading the directory                                                     *)

\* readMetadata stops at a name that has no metadata file
Known(name) == name # None /\ meta[name] # None

\* the names from name down to the base, as Replica.Chain follows the parents
RECURSIVE ChainFrom(_)
ChainFrom(name) == IF Known(name) THEN <<name>> \o ChainFrom(meta[name].parent)
                   ELSE IF name = None THEN <<>> ELSE <<name>>

\* head first
DiskChain == IF vol = None THEN <<>> ELSE ChainFrom(vol.head)

\* what a read of block b returns at name and below
RECURSIVE ReadFrom(_, _)
ReadFrom(name, b) ==
    IF ~Known(name) \/ img[name] = None THEN 0
    ELSE IF data[img[name]][b] # Hole THEN data[img[name]][b]
    ELSE ReadFrom(meta[name].parent, b)

View(name) == [b \in Blocks |-> ReadFrom(name, b)]

InUse(rec) == rec.user /\ ~rec.removed

\* what a user can revert to at name and below, oldest first
RECURSIVE UserSnapshots(_)
UserSnapshots(name) ==
    IF ~Known(name) THEN <<>>
    ELSE UserSnapshots(meta[name].parent)
           \o (IF InUse(meta[name]) THEN <<[name |-> name, contents |-> View(name)]>> ELSE <<>>)

\* readDiskData adds every disk of the chain to its parent's children
ChildrenOf(f) ==
    [p \in {f[n].parent : n \in DOMAIN f} \ {None} |-> {n \in DOMAIN f : f[n].parent = p}]

\* construct, readMetadata and openLiveChain: the Replica a directory gives
Construct(mode) ==
    LET chain == DiskChain
        disks == [n \in Range(chain) |-> meta[n]]
    IN  [head |-> vol.head, parent |-> meta[vol.head].parent, checkpoint |-> vol.checkpoint,
         mode |-> mode, torn |-> FALSE, diskData |-> disks, children |-> ChildrenOf(disks),
         active |-> Reverse(chain)]

\* openLiveChain finds the metadata and the image of every disk
Openable == /\ vol # None
            /\ \A i \in 1 .. Len(DiskChain) : Known(DiskChain[i]) /\ img[DiskChain[i]] # None
            /\ Len(DiskChain) <= MaxChainLength

\* what a restart at this moment would find
Restart == IF vol = None THEN [live |-> View(None), history |-> <<>>]
           ELSE [live |-> View(vol.head), history |-> UserSnapshots(vol.head)]

----------------------------------------------------------------------------
(* The Replica in memory                                                     *)

\* nextFile
NextHead(head) == IF head = None THEN 0 ELSE head + 1

Record(parent, user) == [parent |-> parent, user |-> user, removed |-> FALSE]

\* addChildDisk and rmChildDisk on the children map k
AddChild(k, p, c) ==
    [q \in DOMAIN k \union {p} |-> IF q # p THEN k[q] ELSE IF p \in DOMAIN k THEN k[p] \union {c} ELSE {c}]
RmChild(k, p, c) ==
    IF p \notin DOMAIN k THEN k
    ELSE [q \in {r \in DOMAIN k : r # p \/ k[p] # {c}} |-> k[q] \ (IF q = p THEN {c} ELSE {})]

\* mutant of UpdateChild: the old child stays
UpdateChildKeepsOld(k, p, old, new) == IF p = None \/ new = None THEN k ELSE AddChild(k, p, new)

\* updateChildDisk: parent p has new instead of old
UpdateChild(k, p, old, new) ==
    LET without == RmChild(k, p, old)
    IN  IF p = None \/ new = None THEN without ELSE AddChild(without, p, new)

\* the Replica once the head became snapshot n under a new head
AfterSnapshot(r, n, user) ==
    LET old == r.head
        new == NextHead(old)
        snap == [r.diskData[old] EXCEPT !.user = user]
        names == (DOMAIN r.diskData \ {old}) \union {n, new}
    IN  [r EXCEPT !.head = new, !.parent = n,
                  !.diskData = [m \in names |-> IF m = new THEN Record(n, FALSE)
                                                ELSE IF m = n THEN snap ELSE r.diskData[m]],
                  !.children = UpdateChild(AddChild(@, n, new), snap.parent, old, n),
                  !.active = Append([@ EXCEPT ![Len(@)] = n], new)]

\* the Replica when the metadata of snapshot n could not be written: the entry
\* of the old head, which n shares, is already the snapshot's
AfterTorn(r, n, user) ==
    LET new == NextHead(r.head)
        snap == [r.diskData[r.head] EXCEPT !.user = user]
    IN  [r EXCEPT !.torn = TRUE,
                  !.diskData = [m \in DOMAIN @ \union {n, new} |->
                                  IF m = new THEN Record(n, FALSE)
                                  ELSE IF m \in {n, r.head} THEN snap ELSE @[m]],
                  !.children = AddChild(@, n, new),
                  !.active = [@ EXCEPT ![Len(@)] = n]]

\* the one child of n
ChildOf(r, n) == CHOOSE c \in r.children[n] : TRUE

\* mutant of AfterRemove: the child keeps its removed parent
AfterRemoveKeepsParent(r, n) ==
    [r EXCEPT !.diskData = [m \in DOMAIN @ \ {n} |-> @[m]],
              !.children = UpdateChild(@, r.diskData[n].parent, n, ChildOf(r, n)),
              !.active = SelectSeq(@, LAMBDA m : m # n)]

\* the Replica without n, whose child takes n's parent (removeDiskNode)
AfterRemove(r, n) ==
    LET p == r.diskData[n].parent
        child == ChildOf(r, n)
    IN  [r EXCEPT !.diskData = [m \in DOMAIN @ \ {n} |->
                                  IF m = child THEN [@[m] EXCEPT !.parent = p] ELSE @[m]],
                  !.children = UpdateChild(@, p, n, child),
                  !.active = SelectSeq(@, LAMBDA m : m # n)]

----------------------------------------------------------------------------
(* File-system steps                                                         *)

Create(n) == [do |-> "create", name |-> n]
Link(n, m) == [do |-> "link", name |-> n, to |-> m]
LinkMeta(n, m) == [do |-> "linkmeta", name |-> n, to |-> m]
WriteMeta(n, rec) == [do |-> "meta", name |-> n, rec |-> rec]
WriteVol(h, c) == [do |-> "vol", rec |-> [head |-> h, checkpoint |-> c]]
\* and what an operation does to the Replica in memory
InMemory(what, n, user) == [do |-> "memory", what |-> what, name |-> n, user |-> user]

\* rmDisk: the image, then its metadata
RmDisk(n) == <<[do |-> "rm", name |-> n], [do |-> "rmmeta", name |-> n]>>

FreshInode == CHOOSE i \in Inodes : \A n \in Names : img[n] # i


\* removing the last name of an inode frees it
DoRm(s) == /\ s.do = "rm"
           /\ img' = [img EXCEPT ![s.name] = None]
           /\ data' = IF img[s.name] = None \/ \E m \in Names \ {s.name} : img[m] = img[s.name]
                      THEN data ELSE [data EXCEPT ![img[s.name]] = NoData]
           /\ UNCHANGED <<meta, vol, replica, cleaner>>

DoCreate(s) == /\ s.do = "create"
               /\ img' = [img EXCEPT ![s.name] = FreshInode]
               /\ UNCHANGED <<meta, vol, data, replica, cleaner>>

DoLink(s) == /\ s.do = "link"
             /\ img' = [img EXCEPT ![s.to] = img[s.name]]
             /\ UNCHANGED <<meta, vol, data, replica, cleaner>>

\* encodeToFile writes a temporary file and renames it: all or nothing
DoMeta(s) == /\ s.do \in {"meta", "linkmeta", "rmmeta"}
             /\ meta' = CASE s.do = "meta" -> [meta EXCEPT ![s.name] = s.rec]
                          [] s.do = "linkmeta" -> [meta EXCEPT ![s.to] = meta[s.name]]
                          [] s.do = "rmmeta" -> [meta EXCEPT ![s.name] = None]
             /\ UNCHANGED <<img, vol, data, replica, cleaner>>

DoVol(s) == /\ s.do = "vol"
            /\ vol' = s.rec
            /\ UNCHANGED <<img, meta, data, replica, cleaner>>

DoMemory(s) == /\ s.do = "memory"
               /\ replica' = CASE s.what = "snapshot" -> AfterSnapshot(replica, s.name, s.user)
                               [] s.what = "remove" -> AfterRemove(replica, s.name)
                               [] s.what = "reload" -> IF Openable THEN Construct(replica.mode)
                                                       ELSE [replica EXCEPT !.mode = "broken"]
                               [] s.what = "torn" -> AfterTorn(replica, s.name, s.user)
                               [] s.what = "fail" -> [replica EXCEPT !.mode = "broken"]
               /\ UNCHANGED <<img, meta, vol, data, cleaner>>

\* the operation that holds the lock does its next step
Step == /\ todo # <<>>
        /\ LET s == Head(todo)
           IN  DoRm(s) \/ DoCreate(s) \/ DoLink(s) \/ DoMeta(s) \/ DoVol(s) \/ DoMemory(s)
        /\ todo' = Tail(todo)
        /\ UNCHANGED <<asked, counters>>
        /\ seen' = Restart'

\* what createDisk cleans up when it fails
Cleanup(n) == RmDisk(replica.head + 1) \o RmDisk(n)

\* what createDisk still does when s fails, its metadata of the new head, of the
\* snapshot n or of the volume: the second leaves its changes in memory, the
\* third an active file that is closed, so that every write fails
AfterFailure(s, n, user) ==
    IF s.do = "vol" THEN Append(Cleanup(n), InMemory("fail", n, user))
    ELSE IF s.name = n THEN Append(Cleanup(n), InMemory("torn", n, user))
    ELSE RmDisk(s.name)

\* a metadata file cannot be written (no space): createDisk cleans up and
\* revertDisk returns at once
WriteFails == /\ todo # <<>> /\ Head(todo).do \in {"meta", "vol"}
              /\ \E i \in 1 .. Len(todo) :
                    /\ todo[i].do = "memory"
                    /\ \/ /\ todo[i].what = "snapshot"
                          /\ todo' = AfterFailure(Head(todo), todo[i].name, todo[i].user)
                       \/ todo[i].what = "reload" /\ todo' = <<>>
              /\ faults < MaxFaults
              /\ faults' = faults + 1
              /\ UNCHANGED <<diskVars, replica, cleaner, asked, writes>>

----------------------------------------------------------------------------
(* Operations under the server's lock                                        *)

Free == todo = <<>>
IsOpen == Free /\ replica # None
InRW == IsOpen /\ replica.mode = "RW"
Works == IsOpen /\ replica.mode # "broken"

\* what createNewHead refuses: a next head that holds data
HeadHasData(h) == img[h] # None /\ data[img[h]] # NoData

\* createNewHead; an empty file of that name is left from a crash
NewHead(new, parent) ==
    (IF img[new] # None THEN RmDisk(new) ELSE <<>>)
        \o <<Create(new), WriteMeta(new, Record(parent, FALSE))>>

\* linkDisk refuses a name that is taken; the cleanup then removes that name
LinkRefused(n) == img[n] # None \/ meta[n] # None

\* mutant of CreateDisk: volume.meta names the new head before the snapshot exists
CreateDiskCommitsEarly(n, user) ==
    LET old == replica.head
        new == NextHead(old)
    IN  /\ ~HeadHasData(new) /\ Len(replica.active) + 2 <= MaxChainLength /\ ~LinkRefused(n)
        /\ todo' = NewHead(new, n)
                     \o <<WriteVol(new, replica.checkpoint), Link(old, n), LinkMeta(old, n),
                          WriteMeta(n, [replica.diskData[old] EXCEPT !.user = user]),
                          InMemory("snapshot", n, user)>> \o RmDisk(old)

\* createDisk for a snapshot of an open replica
CreateDisk(n, user) ==
    LET old == replica.head
        new == NextHead(old)
        refused == HeadHasData(new) \/ Len(replica.active) + 2 > MaxChainLength
        steps == <<Link(old, n), LinkMeta(old, n),
                   WriteMeta(n, [replica.diskData[old] EXCEPT !.user = user]),
                   WriteVol(new, replica.checkpoint), InMemory("snapshot", n, user)>> \o RmDisk(old)
    IN  /\ ~refused
        /\ todo' = NewHead(new, n) \o (IF LinkRefused(n) THEN Cleanup(n) ELSE steps)

\* Server.Create on an empty directory; a crash may have left a head there
CreateVolume == /\ Free /\ replica = None /\ vol = None
                /\ todo' = NewHead(NextHead(None), None) \o <<WriteVol(0, None)>>
                /\ UNCHANGED <<diskVars, replica, cleaner, asked, counters>>

\* Server.Open; the volume.meta it writes says what the old one said
Open == /\ Free /\ replica = None
        /\ Openable
        /\ replica' = Construct("INIT")
        /\ UNCHANGED <<diskVars, todo, cleaner, asked, counters>>

\* Server.Close: volume.meta from memory; then the process exits
Close == /\ IsOpen
         /\ vol' = [head |-> replica.head, checkpoint |-> replica.checkpoint]
         /\ replica' = None
         /\ cleaner' = CleanerIdle
         /\ UNCHANGED <<img, meta, data, todo, asked, counters>>
         /\ seen' = Restart'

SetReplicaMode == /\ IsOpen /\ replica.mode = "INIT"
                  /\ replica' = [replica EXCEPT !.mode = "RW"]
                  /\ UNCHANGED <<diskVars, todo, cleaner, asked, counters>>

\* mutant of SetCheckpoint: the head for the latest snapshot
SetCheckpointToHead == /\ InRW /\ replica.parent \notin {None, replica.checkpoint}
                       /\ replica' = [replica EXCEPT !.checkpoint = replica.head]
                       /\ vol' = [vol EXCEPT !.checkpoint = replica.head]
                       /\ UNCHANGED <<img, meta, data, todo, cleaner, asked, counters>>
                       /\ seen' = Restart'

\* the controller makes the latest snapshot the checkpoint
SetCheckpoint == /\ InRW /\ replica.parent \notin {None, replica.checkpoint}
                 /\ replica' = [replica EXCEPT !.checkpoint = replica.parent]
                 /\ vol' = [vol EXCEPT !.checkpoint = replica.parent]
                 /\ UNCHANGED <<img, meta, data, todo, cleaner, asked, counters>>
                 /\ seen' = Restart'

\* the block is written whatever the mode is
WriteAt(b) == /\ Works
              /\ writes < MaxWrites
              /\ writes' = writes + 1
              /\ data' = [data EXCEPT ![img[replica.head]][b] = writes + 1]
              /\ UNCHANGED <<img, meta, vol, replica, todo, cleaner, asked, faults>>
              /\ seen' = Restart'

\* a name nobody used: any of them stands for all
Fresh == {n \in Snapshots : ~LinkRefused(n) /\ n \notin asked \union DOMAIN replica.children}
ANewName == IF Fresh = {} THEN {} ELSE {CHOOSE n \in Fresh : TRUE}

\* Controller.Snapshot asks for a name no snapshot of the chain has: a new
\* one, or that of a snapshot that failed, was removed or was reverted over
UserSnapshot(n) == /\ Works
                   /\ n \notin Range(replica.active)
                   /\ n \in (Snapshots \ Fresh) \union ANewName
                   /\ n \in DOMAIN replica.children => ReuseNames /\ n \in asked
                   /\ NextHead(replica.head) \in Heads
                   /\ CreateDisk(n, TRUE)
                   /\ asked' = asked \ {n}
                   /\ UNCHANGED <<diskVars, replica, cleaner, counters>>

\* the snapshot taken when a replica is added; its name is new
AutoSnapshot(n) == /\ Works
                   /\ n \in ANewName
                   /\ NextHead(replica.head) \in Heads
                   /\ CreateDisk(n, FALSE)
                   /\ UNCHANGED <<diskVars, replica, cleaner, asked, counters>>

\* what the volume lists as a snapshot of the user
IsListed(n) == n \in Range(replica.active) /\ InUse(replica.diskData[n])

\* revertDisk: all it asks for is that there is a file of that name
Revert(n) ==
    LET new == NextHead(replica.head)
    IN  /\ Works /\ img[n] # None
        /\ RevertsListed => IsListed(n)
        /\ new \in Heads /\ ~HeadHasData(new)
        /\ todo' = NewHead(new, n) \o <<WriteVol(new, replica.checkpoint)>>
                     \o RmDisk(replica.head) \o <<InMemory("reload", None, FALSE)>>
        /\ UNCHANGED <<diskVars, replica, cleaner, asked, counters>>

----------------------------------------------------------------------------
(* Removing a snapshot                                                       *)

\* what PrepareRemoveDisk refuses: the head, the latest snapshot, the base
Removable(r, n) == /\ n \in DOMAIN r.diskData /\ img[n] # None /\ meta[n] # None
                   /\ n \notin {r.head, r.parent}
                   /\ r.diskData[n].parent # None

\* markDiskAsRemoved
Mark(n) == /\ replica' = [replica EXCEPT !.diskData[n].removed = TRUE]
           /\ meta' = [meta EXCEPT ![n] = replica'.diskData[n]]

\* DeleteSnapshot marks a snapshot; the cleaner removes it
DeleteSnapshot(n) == /\ InRW /\ Removable(replica, n)
                     /\ ~replica.diskData[n].removed
                     /\ Mark(n)
                     /\ asked' = asked \union {n}
                     /\ UNCHANGED <<img, vol, data, todo, cleaner, counters>>
                     /\ seen' = Restart'

\* mutant of Candidates: whatever the parent is
CandidatesOverUser(r) ==
    LET below == {i \in 2 .. Len(r.active) : \E j \in i + 1 .. Len(r.active) : r.active[j] = r.checkpoint}
    IN  {n \in {r.active[i] : i \in below} : ~InUse(r.diskData[n])}

\* GetDeleteCandidateChain: below the checkpoint, above the base, neither a
\* user's snapshot nor one that would be folded into a user's snapshot
Candidates(r) ==
    LET below == {i \in 2 .. Len(r.active) : \E j \in i + 1 .. Len(r.active) : r.active[j] = r.checkpoint}
    IN  {n \in {r.active[i] : i \in below} :
            ~InUse(r.diskData[n]) /\ ~InUse(r.diskData[r.diskData[n].parent])}

CleanerPicks == /\ IsOpen /\ cleaner = CleanerIdle
                /\ replica.checkpoint # None /\ Len(replica.active) > 3
                /\ Cardinality(Candidates(replica)) >= Retention
                /\ \E n \in Candidates(replica) : cleaner' = [at |-> "prepare", source |-> n, target |-> None]
                /\ UNCHANGED <<diskVars, replica, todo, asked, counters>>

\* PrepareRemoveDisk for the cleaner
CleanerPrepares ==
    /\ IsOpen /\ cleaner.at = "prepare"
    /\ IF replica.mode = "RW" /\ Removable(replica, cleaner.source)
       THEN /\ Mark(cleaner.source)
            /\ cleaner' = [cleaner EXCEPT !.at = "fold", !.target = replica.diskData[cleaner.source].parent]
       ELSE cleaner' = CleanerIdle /\ UNCHANGED <<meta, replica>>
    /\ UNCHANGED <<img, vol, data, todo, asked, counters>>
    /\ seen' = Restart'

\* sfold copies the blocks of the snapshot into its parent, without the lock
CleanerFolds ==
    /\ cleaner.at = "fold"
    /\ IF img[cleaner.source] = None \/ img[cleaner.target] = None
       THEN cleaner' = CleanerIdle /\ UNCHANGED data
       ELSE LET from == data[img[cleaner.source]]
            IN  /\ data' = [data EXCEPT ![img[cleaner.target]] =
                              [b \in Blocks |-> IF from[b] = Hole THEN @[b] ELSE from[b]]]
                /\ cleaner' = [cleaner EXCEPT !.at = "remove"]
    /\ UNCHANGED <<img, meta, vol, replica, todo, asked, counters>>
    /\ seen' = Restart'

Refused(r, n) == n \in DOMAIN r.diskData /\ n \in DOMAIN r.children /\ Cardinality(r.children[n]) > 1

\* RemoveDiffDisk; after a revert the snapshot may have left the chain
CleanerRemoves ==
    LET r == replica
        n == cleaner.source
        child == ChildOf(r, n)
        unlink == <<WriteMeta(child, [r.diskData[child] EXCEPT !.parent = r.diskData[n].parent]),
                    InMemory("remove", n, FALSE)>>
    IN  /\ IsOpen /\ cleaner.at = "remove"
        /\ cleaner' = CleanerIdle
        /\ todo' = IF r.mode # "RW" \/ n \in {r.head, r.parent} \/ Refused(r, n) THEN <<>>
                   ELSE (IF n \in DOMAIN r.diskData THEN unlink ELSE <<>>) \o RmDisk(n)
        /\ UNCHANGED <<diskVars, replica, asked, counters>>

----------------------------------------------------------------------------

Crash == /\ replica # None \/ todo # <<>>
         /\ faults < MaxFaults
         /\ faults' = faults + 1
         /\ replica' = None
         /\ todo' = <<>>
         /\ cleaner' = CleanerIdle
         /\ UNCHANGED <<diskVars, asked, writes>>

Init == /\ img = [n \in Names |-> None]
        /\ meta = [n \in Names |-> None]
        /\ vol = None
        /\ data = [i \in Inodes |-> NoData]
        /\ seen = Restart
        /\ replica = None
        /\ todo = <<>>
        /\ cleaner = CleanerIdle
        /\ asked = {}
        /\ writes = 0 /\ faults = 0

Next == \/ Step \/ WriteFails \/ Crash
        \/ CreateVolume \/ Open \/ Close \/ SetReplicaMode \/ SetCheckpoint
        \/ \E b \in Blocks : WriteAt(b)
        \/ \E n \in Snapshots : \/ UserSnapshot(n) \/ AutoSnapshot(n)
                                \/ Revert(n) \/ DeleteSnapshot(n)
        \/ CleanerPicks \/ CleanerPrepares \/ CleanerFolds \/ CleanerRemoves

Spec == Init /\ [][Next]_vars

----------------------------------------------------------------------------
(* Properties                                                                *)

\* TypeOK: the directory, the process and the cleaner hold what they can hold.
TypeOK ==
    LET records == [parent : Names \union {None}, user : BOOLEAN, removed : BOOLEAN]
    IN  /\ img \in [Names -> Inodes \union {None}]
        /\ meta \in [Names -> records \union {None}]
        /\ vol \in [head : Heads, checkpoint : Snapshots \union {None}] \union {None}
        /\ data \in [Inodes -> [Blocks -> Values \union {Hole}]]
        /\ replica # None => /\ replica.mode \in {"INIT", "RW", "broken"}
                             /\ DOMAIN replica.diskData \subseteq Names
                             /\ Range(replica.active) \subseteq Names
        /\ cleaner.at \in {"idle", "prepare", "fold", "remove"}
        /\ asked \subseteq Snapshots
        /\ writes \in 0 .. MaxWrites /\ faults \in 0 .. MaxFaults

\* Recoverable: whatever step a crash cuts an operation at, once volume.meta
\* exists the chain it names can be opened again: every disk has its metadata
\* and an image no other disk of the chain shares (createDisk, revertDisk,
\* removeDiskNode against readMetadata and openLiveChain).
Recoverable ==
    vol # None =>
        /\ Openable
        /\ LET chain == DiskChain
           IN  Cardinality({img[chain[i]] : i \in 1 .. Len(chain)}) = Len(chain)

\* MemoryIsDisk: between operations the chain and the disk records in memory
\* are the ones a restart would read, so a restart changes nothing (createDisk,
\* removeDiskNode and markDiskAsRemoved against construct), unless createDisk
\* failed and left its changes.
MemoryIsDisk ==
    Works /\ ~replica.torn =>
        /\ replica.active = Reverse(DiskChain)
        /\ replica.head = vol.head /\ replica.checkpoint = vol.checkpoint
        /\ replica.parent = meta[vol.head].parent
        /\ replica.diskData = [n \in Range(replica.active) |-> meta[n]]

\* CleanerIsNotRefused: the snapshot the cleaner has folded into its parent
\* can also be taken out of the chain: it has one child (removeDiskNode).
CleanerIsNotRefused ==
    cleaner.at = "remove" /\ IsOpen => ~Refused(replica, cleaner.source)

Store == INSTANCE SnapshotStore
    WITH live <- seen.live, history <- seen.history

\* KeepsSnapshots: the directory implements SnapshotStore: the blocks and the
\* user's snapshots that a restart at this very moment would find change only
\* as a write, a snapshot, a deletion that was asked for or a revert changes
\* them, each in one step, whatever the cleaner does and wherever a crash or a
\* failed write falls.
KeepsSnapshots == Store!Spec
=============================================================================

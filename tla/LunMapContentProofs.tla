------------------------ MODULE LunMapContentProofs ------------------------
(* Proofs about what the files of a replica hold (LunMap): the invariant     *)
(* that makes reads current, and that writes, unmaps, holes, snapshots and   *)
(* folds keep it.                                                            *)
EXTENDS LunMapProofs

USE SMTT(20), ZenonT(20), SMTT(30)  \* the provers, in the order they are tried, and their time limits

----------------------------------------------------------------------------
(* The invariant                                                             *)

\* what the files of the chain hold, by index, once everything is copied
Eff(f) == IF source[f] # None THEN source[f] ELSE data[f]
Held == [i \in 1 .. Top |-> Eff(files[i])]

\* what index i must read as: the volume at the head, a snapshot of the user
\* below, and nothing in particular elsewhere
Wants == [i \in 1 .. Top |->
             IF i = Top THEN vol
             ELSE IF kind[files[i]] = "user" THEN snaps[files[i]] ELSE [b \in Blocks |-> Unmapped]]

\* in files that hold H, block b reads as v at index i: the last one that holds
\* it has v, or none does
Reads(H, b, i, v) ==
    \/ /\ v # Hole
       /\ \E j \in 1 .. i : H[j][b] = v /\ \A k \in j + 1 .. i : H[k][b] = Hole
    \/ v = Zeros /\ \A k \in 1 .. i : H[k][b] = Hole

\* a file above k, up to i, holds b
Covered(H, b, k, i) == \E j \in k + 1 .. i : H[j][b] # Hole

ViewInv == \A i \in 1 .. Top, b \in Blocks : Wants[i][b] # Unmapped => Reads(Held, b, i, Wants[i][b])

\* a block queued for punching is held above, below everything that needs it
HidesFrom(f, bs) ==
    \A b \in bs, k \in 1 .. Top : files[k] = f =>
        \A i \in k .. Top : Wants[i][b] # Unmapped => Covered(Held, b, k, i)
QueueInv == \A h \in Queued : HidesFrom(h.file, h.blocks)

\* no file above the one the map names holds the block, and that one does,
\* unless it was unmapped or no file holds it
Located(b, l) ==
    /\ \A j \in l + 1 .. Top : Held[j][b] = Hole
    /\ vol[b] = Unmapped \/ l = 1 \/ Held[l][b] # Hole
LocationInv == \A b \in Blocks : location[b] # 0 => Located(b, location[b])

\* SnapIndx and a flag cover every snapshot the user keeps
FlagInv ==
    \A i \in 1 .. Top - 1 : kind[files[i]] = "user" =>
        /\ snapIndx >= i
        /\ flags[i] \/ flags[i + 1]
        /\ stage # "done" => flags[i]

\* what is folded is in the parent too, and no hole queued there is about it
FoldedAt(i) ==
    /\ files[i] = folded
    /\ kind[files[i]] # "user" /\ kind[files[i - 1]] # "user"
    /\ \A b \in Blocks : Held[i][b] # Hole => Held[i - 1][b] = Held[i][b]
    /\ \A h \in Queued : h.file = files[i - 1] => \A b \in h.blocks : Held[i][b] = Hole
FoldInv == folded # None => \E i \in 2 .. Top - 1 : FoldedAt(i)

\* while the files are copied the map has only what was written meanwhile
SyncInv ==
    /\ \A f \in Files : source[f] # None => stage = "sync" /\ f < files[Top]
    /\ stage = "sync" => ~punch
    /\ stage \in {"sync", "reloaded"} => Queued = {}
    /\ stage \in {"sync", "reloaded", "preload"} => \A b \in Blocks : location[b] \in {0, Top}

\* what UpdateLUNMap has read so far is still so, or was written since
CopiedAt(b, c, next) ==
    /\ \A j \in c + 1 .. next - 1 : Held[j][b] # Hole => j = Top /\ location[b] = Top
    /\ c = 0 \/ Held[c][b] # Hole \/ vol[b] = Unmapped \/ location[b] = Top
    /\ \A h \in Queued, k \in 1 .. Top : files[k] = h.file /\ b \in h.blocks => k < c
CopyInv == stage = "preload" => \A b \in Blocks : CopiedAt(b, copy.loc[b], copy.next)

ContentInv == ViewInv /\ QueueInv /\ LocationInv /\ FlagInv /\ FoldInv /\ SyncInv /\ CopyInv

----------------------------------------------------------------------------
(* Reading through a chain                                                   *)

\* ReadsKept: a read does not change when only files change that a file above
\* covers (fullReadAt).
LEMMA ReadsKept ==
    ASSUME NEW H, NEW G, NEW b, NEW i \in Nat, NEW v, Reads(H, b, i, v),
           \A k \in 1 .. i : G[k][b] = H[k][b] \/ Covered(H, b, k, i)
    PROVE  Reads(G, b, i, v)
  <1>1. CASE v # Hole /\ \E j \in 1 .. i : H[j][b] = v /\ \A k \in j + 1 .. i : H[k][b] = Hole
    <2>1. PICK j \in 1 .. i : H[j][b] = v /\ \A k \in j + 1 .. i : H[k][b] = Hole
      BY <1>1, Zenon
    <2>2. ASSUME NEW k \in j .. i
          PROVE  G[k][b] = H[k][b]
      <3>1. k \in 1 .. i /\ \A m \in k + 1 .. i : m \in j + 1 .. i
        OBVIOUS
      <3>2. QED
        BY <2>1, <3>1, Zenon DEF Covered
    <2>3. j \in j .. i /\ \A k \in j + 1 .. i : k \in j .. i
      OBVIOUS
    <2>4. G[j][b] = v /\ \A k \in j + 1 .. i : G[k][b] = Hole
      BY <2>1, <2>2, <2>3, Zenon
    <2>5. QED
      BY <1>1, <2>4, Zenon DEF Reads
  <1>2. CASE v = Zeros /\ \A k \in 1 .. i : H[k][b] = Hole
    <2>1. \A k \in 1 .. i : \A j \in k + 1 .. i : j \in 1 .. i
      OBVIOUS
    <2>2. QED
      BY <1>2, <2>1, Zenon DEF Reads, Covered
  <1>3. QED
    BY <1>1, <1>2, Zenon DEF Reads

\* ReadsAbove: a file on top that holds nothing does not change a read
\* (createDisk, revertDisk).
LEMMA ReadsAbove ==
    ASSUME NEW H, NEW G, NEW b, NEW i \in Nat, NEW v, Reads(H, b, i, v),
           \A k \in 1 .. i : G[k][b] = H[k][b], G[i + 1][b] = Hole
    PROVE  Reads(G, b, i + 1, v)
  <1>1. CASE v # Hole /\ \E j \in 1 .. i : H[j][b] = v /\ \A k \in j + 1 .. i : H[k][b] = Hole
    <2>1. PICK j \in 1 .. i : H[j][b] = v /\ \A k \in j + 1 .. i : H[k][b] = Hole
      BY <1>1, Zenon
    <2>2. j \in 1 .. i + 1 /\ G[j][b] = v /\ \A k \in j + 1 .. i + 1 : G[k][b] = Hole
      BY <2>1
    <2>3. QED
      BY <1>1, <2>2, Zenon DEF Reads
  <1>2. CASE v = Zeros /\ \A k \in 1 .. i : H[k][b] = Hole
    <2>1. \A k \in 1 .. i + 1 : G[k][b] = Hole
      BY <1>2
    <2>2. QED
      BY <1>2, <2>1, Zenon DEF Reads
  <1>3. QED
    BY <1>1, <1>2, Zenon DEF Reads

\* ReadsWithout: a file whose blocks its parent has too may leave the chain
\* (removeDiskNode).
LEMMA ReadsWithout ==
    ASSUME NEW H, NEW G, NEW b, NEW n \in Nat, NEW v, Reads(H, b, n + 1, v),
           NEW i \in 2 .. n, H[i][b] # Hole => H[i - 1][b] = H[i][b],
           \A k \in 1 .. n : G[k][b] = IF k < i THEN H[k][b] ELSE H[k + 1][b]
    PROVE  Reads(G, b, n, v)
  <1>1. CASE v # Hole /\ \E j \in 1 .. n + 1 : H[j][b] = v /\ \A k \in j + 1 .. n + 1 : H[k][b] = Hole
    <2>1. PICK j \in 1 .. n + 1 : H[j][b] = v /\ \A k \in j + 1 .. n + 1 : H[k][b] = Hole
      BY <1>1, Zenon
    <2>2. CASE j < i
      <3>1. j \in 1 .. n /\ G[j][b] = v /\ \A k \in j + 1 .. n : G[k][b] = Hole
        BY <2>1, <2>2
      <3>2. QED
        BY <1>1, <3>1, Zenon DEF Reads
    <2>3. CASE j >= i
      <3>1. j - 1 \in 1 .. n /\ G[j - 1][b] = v
        BY <1>1, <2>1, <2>3
      <3>2. \A k \in (j - 1) + 1 .. n : G[k][b] = Hole
        BY <2>1, <2>3
      <3>3. QED
        BY <1>1, <3>1, <3>2, Zenon DEF Reads
    <2>4. QED
      BY <2>2, <2>3
  <1>2. CASE v = Zeros /\ \A k \in 1 .. n + 1 : H[k][b] = Hole
    <2>1. \A k \in 1 .. n : G[k][b] = Hole
      BY <1>2
    <2>2. QED
      BY <1>2, <2>1, Zenon DEF Reads
  <1>3. QED
    BY <1>1, <1>2, Zenon DEF Reads

----------------------------------------------------------------------------
(* Steps that leave the chain and its files alone                            *)

\* HeldIs: what the invariant says of an index, by the file at it.
LEMMA HeldIs ==
    ASSUME StructInv
    PROVE  /\ \A i \in 1 .. Top : Held[i] = Eff(files[i]) /\ Held[i] \in FileData
           /\ Wants[Top] = vol
           /\ \A i \in 1 .. Top, b \in Blocks :
                 Wants[i][b] # Unmapped =>
                     i = Top \/ (i \in 1 .. Top - 1 /\ kind[files[i]] = "user" /\ Wants[i] = snaps[files[i]])
  <1>1. /\ Top \in Nat \ {0} /\ Top \in 1 .. Top
        /\ \A i \in 1 .. Top : files[i] \in Files /\ (i = Top \/ i \in 1 .. Top - 1)
    BY ChainFacts
  <1>2. \A f \in Files : Eff(f) \in FileData
    BY Zenon DEF StructInv, MapTypes, RebuildTypes, Eff
  <1>3. \A i \in 1 .. Top : Held[i] = Eff(files[i])
    BY Zenon DEF Held
  <1>4. \A i \in 1 .. Top : Wants[i] = IF i = Top THEN vol
                                       ELSE IF kind[files[i]] = "user" THEN snaps[files[i]]
                                       ELSE [b \in Blocks |-> Unmapped]
    BY Zenon DEF Wants
  <1>5. QED
    BY <1>1, <1>2, <1>3, <1>4

\* SameIndex: a file is at one index of the chain.
LEMMA SameIndex ==
    ASSUME StructInv, NEW i \in 1 .. Top, NEW j \in 1 .. Top, files[i] = files[j]
    PROVE  i = j
  BY Zenon DEF StructInv, ChainInv

\* QuietContent: taking a hole from the channel or waking CreateHoles changes
\* nothing that is read (CreateHoles, holeDrainer, Close).
LEMMA QuietContent ==
    ASSUME ContentInv, UNCHANGED <<mapVars, data, rebuildVars, punch, folded, ghosts>>, Queued' \subseteq Queued
    PROVE  ContentInv'
  <1>1. /\ Top' = Top /\ files' = files /\ kind' = kind /\ flags' = flags /\ snapIndx' = snapIndx
        /\ location' = location /\ stage' = stage /\ source' = source /\ copy' = copy /\ punch' = punch
        /\ folded' = folded /\ vol' = vol /\ snaps' = snaps /\ data' = data
    BY Zenon DEF mapVars, rebuildVars, ghosts, Top
  <1>2. Held' = Held /\ Wants' = Wants
    BY <1>1, Zenon DEF Held, Wants, Eff
  <1>3. ViewInv' /\ LocationInv' /\ FlagInv'
    BY <1>1, <1>2, Zenon DEF ContentInv, ViewInv, LocationInv, Located, FlagInv
  <1>4. QueueInv'
    BY <1>1, <1>2, Zenon DEF ContentInv, QueueInv, HidesFrom
  <1>5. FoldInv'
    BY <1>1, <1>2, Zenon DEF ContentInv, FoldInv, FoldedAt
  <1>6. SyncInv'
    BY <1>1 DEF ContentInv, SyncInv
  <1>7. CopyInv'
    BY <1>1, <1>2, Zenon DEF ContentInv, CopyInv, CopiedAt
  <1>8. QED
    BY <1>3, <1>4, <1>5, <1>6, <1>7, Zenon DEF ContentInv

\* AllCopied: once the files are copied they hold what is on the disk (syncFiles).
LEMMA AllCopied ==
    ASSUME StructInv, SyncInv, stage # "sync"
    PROVE  /\ \A f \in Files : Eff(f) = data[f]
           /\ \A i \in 1 .. Top : Held[i] = data[files[i]]
  <1>1. \A f \in Files : source[f] = None
    BY Zenon DEF SyncInv
  <1>2. \A f \in Files : Eff(f) = data[f]
    BY <1>1, Zenon DEF Eff
  <1>3. QED
    BY <1>2, HeldIs, ChainFacts, Zenon

\* LookupLocated: lookup finds the file that answers for a block.
LEMMA LookupLocated ==
    ASSUME StructInv, ContentInv, IsRW, NEW b \in Blocks
    PROVE  Lookup(b) \in 1 .. Top /\ Located(b, Lookup(b))
  <1>1. Lookup(b) \in 1 .. Top /\ Top \in Nat \ {0}
    BY LookupIs, ChainFacts, Zenon
  <1>2. CASE Top = 1
    <2>1. Lookup(b) = 1 /\ \A j \in 1 + 1 .. Top : FALSE
      BY <1>2 DEF Lookup
    <2>2. QED
      BY <1>1, <2>1, Zenon DEF Located
  <1>3. CASE Top # 1 /\ location[b] # 0
    <2>1. Lookup(b) = location[b]
      BY <1>3, Zenon DEF Lookup
    <2>2. QED
      BY <1>1, <1>3, <2>1, Zenon DEF ContentInv, LocationInv
  <1>4. CASE Top # 1 /\ location[b] = 0
    <2> DEFINE S == {1} \union {i \in 2 .. Top : Holds(i, b)}
    <2>1. Lookup(b) = Max(S) /\ S \in SUBSET (0 .. Top) /\ S # {}
      BY <1>1, <1>4 DEF Lookup
    <2>2. Max(S) \in S /\ \A y \in S : y <= Max(S)
      BY <1>1, <2>1, MaxIs, Zenon
    <2>3. \A i \in 1 .. Top : Held[i][b] # Hole <=> Holds(i, b)
      BY AllCopied, Zenon DEF ContentInv, IsRW, Holds
    <2>4. Lookup(b) = 1 \/ Holds(Lookup(b), b)
      BY <2>1, <2>2, Zenon
    <2>5. ASSUME NEW j \in Lookup(b) + 1 .. Top
          PROVE  Held[j][b] = Hole
      <3>1. j \in 2 .. Top /\ ~(j <= Lookup(b)) /\ j \in 1 .. Top
        BY <1>1
      <3>2. ~Holds(j, b)
        BY <2>1, <2>2, <3>1, Zenon
      <3>3. QED
        BY <2>3, <3>1, <3>2, Zenon
    <2>6. QED
      BY <1>1, <2>3, <2>4, <2>5, Zenon DEF Located
  <1>5. QED
    BY <1>2, <1>3, <1>4, Zenon

\* LocatedReads: the file the map names has what the chain reads as (fullReadAt).
LEMMA LocatedReads ==
    ASSUME StructInv, NEW b \in Blocks, NEW l \in 1 .. Top, Located(b, l), vol[b] # Unmapped,
           NEW v, Reads(Held, b, Top, v)
    PROVE  v = IF Held[l][b] = Hole THEN Zeros ELSE Held[l][b]
  <1>1. Top \in Nat \ {0}
    BY ChainFacts, Zenon
  <1>2. CASE Held[l][b] # Hole
    <2>1. PICK j \in 1 .. Top : v # Hole /\ Held[j][b] = v /\ \A k \in j + 1 .. Top : Held[k][b] = Hole
      BY <1>2, Zenon DEF Reads
    <2>2. \A k \in l + 1 .. Top : Held[k][b] = Hole
      BY Zenon DEF Located
    <2>3. j = l
      BY <1>1, <1>2, <2>1, <2>2
    <2>4. QED
      BY <1>2, <2>1, <2>3, Zenon
  <1>3. CASE Held[l][b] = Hole
    <2>1. l = 1 /\ \A k \in l + 1 .. Top : Held[k][b] = Hole
      BY <1>3, Zenon DEF Located
    <2>2. \A k \in 1 .. Top : Held[k][b] = Hole
      BY <1>1, <1>3, <2>1
    <2>3. QED
      BY <1>3, <2>2, Zenon DEF Reads
  <1>4. QED
    BY <1>2, <1>3, Zenon

\* CurrentNow: with the invariant a replica that serves reads returns what was
\* written last (fullReadAt).
LEMMA CurrentNow ==
    ASSUME StructInv, ContentInv, IsRW, NEW b \in Blocks, vol[b] # Unmapped
    PROVE  ReadBlock(b) = vol[b]
  <1>1. Lookup(b) \in 1 .. Top /\ Located(b, Lookup(b))
    BY LookupLocated, Zenon
  <1>2. Top \in 1 .. Top /\ Wants[Top][b] = vol[b]
    BY HeldIs, ChainFacts, Zenon
  <1>3. Reads(Held, b, Top, vol[b])
    BY <1>2, Zenon DEF ContentInv, ViewInv
  <1>4. vol[b] = IF Held[Lookup(b)][b] = Hole THEN Zeros ELSE Held[Lookup(b)][b]
    BY <1>1, <1>3, LocatedReads, Zenon
  <1>5. Held[Lookup(b)] = data[files[Lookup(b)]]
    BY <1>1, AllCopied, Zenon DEF ContentInv, IsRW
  <1>6. QED
    BY <1>4, <1>5, Zenon DEF ReadBlock, Contents

----------------------------------------------------------------------------
(* Reads and writes                                                          *)

\* ReadContent: what a read leaves in the map is right (lookup).
LEMMA ReadContent ==
    ASSUME StructInv, ContentInv, NEW b \in Blocks, ReadAt(b)
    PROVE  ContentInv'
  <1>1. /\ Top' = Top /\ files' = files /\ kind' = kind /\ flags' = flags /\ snapIndx' = snapIndx
        /\ stage' = stage /\ source' = source /\ copy' = copy /\ punch' = punch
        /\ folded' = folded /\ vol' = vol /\ snaps' = snaps /\ data' = data
        /\ stage = "done" /\ Queued' = Queued
    BY Zenon DEF ReadAt, mapVars, rebuildVars, cleanVars, holeVars, ghosts, Top, IsRW, Queued
  <1>2. Held' = Held /\ Wants' = Wants
    BY <1>1, Zenon DEF Held, Wants, Eff
  <1>3. LocationInv'
    <2>1. SUFFICES ASSUME NEW c \in Blocks, location'[c] # 0
                   PROVE  Located(c, location'[c])
      BY <1>1, <1>2, Zenon DEF LocationInv, Located
    <2>2. location'[c] = location[c] \/ (c = b /\ location'[c] = Lookup(b))
      BY Zenon DEF ReadAt, Remember, StructInv, MapTypes
    <2>3. QED
      BY <1>1, <2>1, <2>2, LookupLocated, Zenon DEF ContentInv, LocationInv, IsRW
  <1>4. ViewInv' /\ QueueInv' /\ FlagInv'
    BY <1>1, <1>2, Zenon DEF ContentInv, ViewInv, FlagInv, QueueInv, HidesFrom
  <1>5. FoldInv'
    BY <1>1, <1>2, Zenon DEF ContentInv, FoldInv, FoldedAt
  <1>6. SyncInv' /\ CopyInv'
    BY <1>1, Zenon DEF ContentInv, SyncInv, CopyInv
  <1>7. QED
    BY <1>3, <1>4, <1>5, <1>6, Zenon DEF ContentInv

\* a hole for blocks of D in a file above SnapIndx that was the last to hold them
Leaves(h, D) ==
    /\ stage \in {"merged", "done"}
    /\ \E k \in 1 .. Top - 1 :
          /\ h.file = files[k]
          /\ \A b \in h.blocks : b \in D /\ snapIndx < k /\ \A j \in k + 1 .. Top : Held[j][b] = Hole

\* WriteContent: a write of the blocks D to the head, with the holes it sends
\* (fullWriteAt).
LEMMA WriteContent ==
    ASSUME StructInv, ContentInv, NEW D \in SUBSET Blocks, NEW head,
           data' = [data EXCEPT ![files[Top]] = head],
           \A b \in D : head[b] # Hole /\ vol'[b] = head[b],
           \A b \in Blocks \ D : head[b] = data[files[Top]][b] /\ vol'[b] = vol[b],
           \A b \in Blocks : location'[b] = IF b \in D THEN Top ELSE location[b],
           \A h \in Queued' : h \in Queued \/ Leaves(h, D),
           UNCHANGED <<files, kind, flags, snapIndx, rebuildVars, punch, folded, snaps>>
    PROVE  ContentInv'
  <1>1. /\ Top' = Top /\ files' = files /\ kind' = kind /\ flags' = flags /\ snapIndx' = snapIndx
        /\ stage' = stage /\ source' = source /\ copy' = copy /\ punch' = punch
        /\ folded' = folded /\ snaps' = snaps
    BY Zenon DEF rebuildVars, Top
  <1>2. /\ Top \in Nat \ {0} /\ Top \in 1 .. Top
        /\ \A i \in 1 .. Top : files[i] \in Files /\ (i = Top \/ i \in 1 .. Top - 1)
        /\ \A i \in 1 .. Top - 1 : i \in 1 .. Top /\ i # Top
        /\ Queued \subseteq HoleType /\ Queued' \subseteq HoleType
    BY ChainFacts DEF Queued
  <1>3. /\ \A i \in 1 .. Top - 1 : data'[files[i]] = data[files[i]]
        /\ data'[files[Top]] = head
    BY <1>2 DEF StructInv, ChainInv, MapTypes
  <1>4. source[files[Top]] = None
    <2>1. ~(files[Top] < files[Top]) /\ files[Top] \in Files
      BY ChainFacts
    <2>2. QED
      BY <2>1, Zenon DEF ContentInv, SyncInv
  <1>5. /\ \A i \in 1 .. Top - 1 : Held'[i] = Held[i]
        /\ Held'[Top] = head /\ Held[Top] = data[files[Top]]
    <2>1. \A i \in 1 .. Top :
             /\ Held'[i] = IF source[files[i]] # None THEN source[files[i]] ELSE data'[files[i]]
             /\ Held[i] = IF source[files[i]] # None THEN source[files[i]] ELSE data[files[i]]
      BY <1>1 DEF Held, Eff
    <2>2. QED
      BY <1>2, <1>3, <1>4, <2>1
  <1>6. /\ \A i \in 1 .. Top - 1 : Wants'[i] = Wants[i]
        /\ Wants'[Top] = vol' /\ Wants[Top] = vol
    BY <1>1, <1>2, Zenon DEF Wants
  <1>7. ViewInv'
    <2>1. SUFFICES ASSUME NEW i \in 1 .. Top, NEW b \in Blocks, Wants'[i][b] # Unmapped
                   PROVE  Reads(Held', b, i, Wants'[i][b])
      BY <1>1, Zenon DEF ViewInv
    <2>2. CASE i = Top /\ b \in D
      <3>1. Held'[Top][b] = Wants'[i][b] /\ Held'[Top][b] # Hole
        BY <1>5, <1>6, <2>2, Zenon
      <3>2. \A k \in Top + 1 .. Top : FALSE
        BY <1>2
      <3>3. QED
        BY <1>2, <2>2, <3>1, <3>2, Zenon DEF Reads
    <2>3. CASE ~(i = Top /\ b \in D)
      <3>1. Wants'[i][b] = Wants[i][b]
        BY <1>2, <1>6, <2>3, Zenon
      <3>2. \A k \in 1 .. i : Held'[k][b] = Held[k][b] \/ Covered(Held, b, k, i)
        BY <1>2, <1>5, <2>3
      <3>3. i \in Nat /\ Reads(Held, b, i, Wants[i][b])
        BY <2>1, <3>1 DEF ContentInv, ViewInv
      <3>4. QED
        BY <3>1, <3>2, <3>3, ReadsKept, Zenon
    <2>4. QED
      BY <2>2, <2>3, Zenon
  <1>8. QueueInv'
    <2>1. SUFFICES ASSUME NEW h \in Queued', NEW b \in h.blocks, NEW k \in 1 .. Top, files[k] = h.file,
                          NEW i \in k .. Top, Wants'[i][b] # Unmapped
                   PROVE  Covered(Held', b, k, i)
      BY <1>1, Zenon DEF QueueInv, HidesFrom
    <2>2. b \in Blocks
      BY <1>2, Zenon DEF HoleType
    <2>3. k \in 1 .. Top - 1 /\ i \in 1 .. Top
      <3>1. h.file # files[Top]
        <4>1. h \in Queued => h.file # files[Top]
          BY Zenon DEF StructInv, ChainInv
        <4>2. Leaves(h, D) => h.file # files[Top]
          BY <1>2 DEF Leaves, StructInv, ChainInv
        <4>3. QED
          BY <4>1, <4>2, Zenon
      <3>2. QED
        BY <1>2, <2>1, <3>1
    <2>4. CASE i = Top /\ b \in D
      <3>1. Held'[Top][b] # Hole /\ Top \in k + 1 .. Top
        BY <1>2, <1>5, <2>3, <2>4
      <3>2. QED
        BY <2>4, <3>1, Zenon DEF Covered
    <2>5. CASE ~(i = Top /\ b \in D) /\ h \in Queued
      <3>1. Wants[i][b] # Unmapped
        BY <1>2, <1>6, <2>1, <2>2, <2>3, <2>5, Zenon
      <3>2. Covered(Held, b, k, i)
        BY <2>1, <2>5, <3>1, Zenon DEF ContentInv, QueueInv, HidesFrom
      <3>3. \A j \in k + 1 .. i : Held'[j][b] = Held[j][b]
        BY <1>2, <1>5, <2>2, <2>3, <2>5
      <3>4. QED
        BY <3>2, <3>3, Zenon DEF Covered
    <2>6. CASE ~(i = Top /\ b \in D) /\ Leaves(h, D)
      <3>1. PICK m \in 1 .. Top - 1 : h.file = files[m] /\ snapIndx < m /\ b \in D
        BY <2>6, Zenon DEF Leaves
      <3>2. m = k
        BY <1>2, <2>1, <3>1, SameIndex
      <3>3. i \in 1 .. Top - 1 /\ kind[files[i]] = "user"
        <4>1. i # Top /\ Wants[i][b] # Unmapped
          BY <1>2, <1>6, <2>1, <2>3, <2>6, <3>1, Zenon
        <4>2. QED
          BY <2>2, <2>3, <4>1, HeldIs, Zenon
      <3>4. snapIndx >= i
        BY <3>3, Zenon DEF ContentInv, FlagInv
      <3>5. snapIndx \in Nat
        BY ChainFacts, Zenon
      <3>6. QED
        BY <3>1, <3>2, <3>3, <3>4, <3>5, <2>1
    <2>7. QED
      BY <2>4, <2>5, <2>6, Zenon

  <1>9. \A b \in Blocks \ D, j \in 1 .. Top : Held'[j][b] = Held[j][b]
    BY <1>2, <1>5, Zenon
  <1>10. LocationInv'
    <2>1. SUFFICES ASSUME NEW b \in Blocks, location'[b] # 0
                   PROVE  /\ \A j \in location'[b] + 1 .. Top : Held'[j][b] = Hole
                          /\ vol'[b] = Unmapped \/ location'[b] = 1 \/ Held'[location'[b]][b] # Hole
      BY <1>1, Zenon DEF LocationInv, Located
    <2>2. CASE b \in D
      <3>1. location'[b] = Top /\ Held'[Top][b] # Hole
        BY <1>5, <2>2, Zenon
      <3>2. \A j \in Top + 1 .. Top : FALSE
        BY <1>2
      <3>3. QED
        BY <3>1, <3>2, Zenon
    <2>3. CASE b \notin D
      <3>1. location'[b] = location[b] /\ vol'[b] = vol[b] /\ location[b] \in 1 .. Top
        BY <2>1, <2>3 DEF StructInv, MapTypes
      <3>2. Located(b, location[b])
        BY <2>1, <3>1, Zenon DEF ContentInv, LocationInv
      <3>3. \A j \in location[b] + 1 .. Top : j \in 1 .. Top
        BY <3>1
      <3>4. \A j \in location[b] + 1 .. Top : Held'[j][b] = Hole
        BY <1>9, <2>3, <3>2, <3>3, Zenon DEF Located
      <3>5. vol[b] = Unmapped \/ location[b] = 1 \/ Held'[location[b]][b] # Hole
        BY <1>9, <2>3, <3>1, <3>2, Zenon DEF Located
      <3>6. QED
        BY <3>1, <3>4, <3>5, Zenon
    <2>4. QED
      BY <2>2, <2>3, Zenon
  <1>11. FlagInv'
    BY <1>1, Zenon DEF ContentInv, FlagInv
  <1>12. FoldInv'
    <2>1. SUFFICES ASSUME folded # None
                   PROVE  FoldInv'
      BY <1>1, Zenon DEF FoldInv
    <2>2. PICK i \in 2 .. Top - 1 : FoldedAt(i)
      BY <2>1, Zenon DEF ContentInv, FoldInv
    <2>3. i \in 1 .. Top - 1 /\ i - 1 \in 1 .. Top - 1 /\ i \in (i - 1) + 1 .. Top
      BY <1>2
    <2>4. Held'[i] = Held[i] /\ Held'[i - 1] = Held[i - 1]
      BY <1>5, <2>3, Zenon
    <2>5. ASSUME NEW h \in Queued', h.file = files[i - 1], NEW b \in h.blocks
          PROVE  Held[i][b] = Hole
      <3>1. CASE h \in Queued
        BY <2>2, <2>5, <3>1, Zenon DEF FoldedAt
      <3>2. CASE Leaves(h, D)
        <4>1. PICK k \in 1 .. Top - 1 : h.file = files[k] /\ \A j \in k + 1 .. Top : Held[j][b] = Hole
          BY <2>5, <3>2, Zenon DEF Leaves
        <4>2. k = i - 1
          BY <1>2, <2>3, <2>5, <4>1, SameIndex, Zenon
        <4>3. QED
          BY <2>3, <4>1, <4>2, Zenon
      <3>3. QED
        BY <3>1, <3>2, Zenon
    <2>6. FoldedAt(i)'
      BY <1>1, <2>2, <2>4, <2>5 DEF FoldedAt
    <2>7. QED
      BY <1>1, <2>6, Zenon DEF FoldInv
  <1>13. SyncInv'
    <2>1. stage \in {"sync", "reloaded"} => Queued' = {}
      BY Zenon DEF ContentInv, SyncInv, Leaves
    <2>2. stage \in {"sync", "reloaded", "preload"} => \A b \in Blocks : location'[b] \in {0, Top}
      BY Zenon DEF ContentInv, SyncInv
    <2>3. QED
      BY <1>1, <2>1, <2>2 DEF ContentInv, SyncInv
  <1>14. CopyInv'
    <2>1. SUFFICES ASSUME stage = "preload", NEW b \in Blocks
                   PROVE  CopiedAt(b, copy.loc[b], copy.next)'
      BY <1>1, Zenon DEF CopyInv
    <2>2. copy.loc[b] \in 0 .. Top /\ copy.next \in 1 .. Top + 1
      BY <2>1, Zenon DEF StructInv, RebuildTypes
    <2>3. CopiedAt(b, copy.loc[b], copy.next)
      BY <2>1, Zenon DEF ContentInv, CopyInv
    <2>4. Queued' \subseteq Queued
      BY <2>1, Zenon DEF Leaves
    <2>5. \A j \in copy.loc[b] + 1 .. copy.next - 1 : j \in 1 .. Top
      BY <1>2, <2>2
    <2>6. \A j \in 1 .. Top : Held'[j][b] = Held[j][b] \/ (j = Top /\ location'[b] = Top)
      BY <1>2, <1>5, <1>9, Zenon
    <2>7. location[b] = Top => location'[b] = Top
      BY Zenon
    <2>8. \A j \in copy.loc[b] + 1 .. copy.next - 1 : Held'[j][b] # Hole => j = Top /\ location'[b] = Top
      BY <2>3, <2>5, <2>6, <2>7, Zenon DEF CopiedAt
    <2>9. copy.loc[b] = 0 \/ Held'[copy.loc[b]][b] # Hole \/ vol'[b] = Unmapped \/ location'[b] = Top
      <3>1. copy.loc[b] = 0 \/ copy.loc[b] \in 1 .. Top
        BY <2>2
      <3>2. QED
        BY <2>3, <2>6, <2>7, <3>1, Zenon DEF CopiedAt
    <2>10. QED
      BY <1>1, <2>3, <2>4, <2>8, <2>9, Zenon DEF CopiedAt
  <1>15. QED
    BY <1>7, <1>8, <1>10, <1>11, <1>12, <1>13, <1>14, Zenon DEF ContentInv

\* OverLeaves: the holes a write sends, when all blocks that leave a file leave
\* the same one (fullWriteAt).
LEMMA OverLeaves ==
    ASSUME StructInv, ContentInv, NEW D \in SUBSET Blocks, NEW loc \in [Blocks -> 0 .. Top],
           \A c \in D : loc[c] # 0 => Located(c, loc[c]),
           stage # "done" => loc = location,
           \A c, d \in D : loc[c] \in {0, Top} \/ loc[d] \in {0, Top} \/ loc[c] = loc[d],
           NEW h, WrittenOver(h, D, loc)
    PROVE  Leaves(h, D)
  <1>1. PICK k, j \in 1 .. Top - 1 :
            /\ h \in HoleType /\ h.file = files[k] /\ h.blocks \subseteq D
            /\ snapIndx < j /\ \A b \in h.blocks : loc[b] = j
            /\ \E c \in D : loc[c] = k
    BY Zenon DEF WrittenOver
  <1>2. PICK c \in D : loc[c] = k
    BY <1>1, Zenon
  <1>3. k # 0 /\ k # Top /\ j # 0 /\ j # Top
    BY ChainFacts
  <1>4. stage \in {"merged", "done"}
    <2>1. stage # "done" => location[c] \notin {0, Top}
      BY <1>2, <1>3, Zenon
    <2>2. c \in Blocks
      BY Zenon
    <2>3. QED
      BY <2>1, <2>2, Zenon DEF ContentInv, SyncInv, StructInv, RebuildTypes
  <1>5. ASSUME NEW b \in h.blocks
        PROVE  b \in D /\ snapIndx < k /\ \A m \in k + 1 .. Top : Held[m][b] = Hole
    <2>1. b \in D /\ loc[b] = j
      BY <1>1, Zenon
    <2>2. j = k
      BY <1>2, <1>3, <2>1, Zenon
    <2>3. Located(b, k)
      BY <1>3, <2>1, <2>2, Zenon
    <2>4. QED
      BY <1>1, <2>1, <2>2, <2>3, Zenon DEF Located
  <1>6. QED
    BY <1>1, <1>4, <1>5, Zenon DEF Leaves

\* FullWriteContent: a write of whole blocks (fullWriteAt).
LEMMA FullWriteContent ==
    ASSUME ~MixedRuns, StructInv, ContentInv,
           NEW first \in Blocks, NEW last \in first .. NumBlocks, FullWrite(first, last)
    PROVE  ContentInv'
  <1> DEFINE block == [s \in Sectors |-> writes + 1]
             D == first .. last
             head == [b \in Blocks |-> IF b \in D THEN block ELSE data[files[Top]][b]]
  <1>1. /\ CountWrite
        /\ \A i, j \in Leaving(D) : i = j
        /\ data' = [data EXCEPT ![files[Top]] = [b \in Blocks |-> IF b \in D THEN block ELSE @[b]]]
        /\ vol' = [b \in Blocks |-> IF b \in D THEN block ELSE vol[b]]
        /\ UNCHANGED <<files, kind, flags, snapIndx, rebuildVars, punch, folded, snaps>> /\ worker' = worker
    BY Zenon DEF FullWrite, cleanVars
  <1>2. /\ files[Top] \in Files /\ data \in [Files -> FileData]
        /\ location \in [Blocks -> 0 .. Top] /\ D \in SUBSET Blocks
    BY ChainFacts, LunMapAssumption DEF StructInv, MapTypes, Blocks
  <1>3. block # Hole
    BY <1>1, ValueIs, NoValueAssumption, Zenon DEF CountWrite
  <1> HIDE DEF block, D
  <1>4. data' = [data EXCEPT ![files[Top]] = head]
    BY <1>1, <1>2, Zenon
  <1>5. /\ \A b \in D : head[b] # Hole /\ vol'[b] = head[b]
        /\ \A b \in Blocks \ D : head[b] = data[files[Top]][b] /\ vol'[b] = vol[b]
    BY <1>1, <1>2, <1>3, Zenon
  <1>6. \A b \in Blocks : location'[b] = IF b \in D THEN Top ELSE location[b]
    <2>1. location' = [b \in Blocks |-> IF b \in D THEN Top ELSE location[b]]
      BY FullWriteIs, Zenon DEF D
    <2>2. QED
      BY <2>1, Zenon
  <1>7. PICK new \in Seq(HoleType) :
            /\ holes' = holes \o new
            /\ \A m \in 1 .. Len(new) : WrittenOver(new[m], D, location) /\ punch
    BY FullWriteIs, Zenon DEF D
  <1>8. \A c, d \in D : location[c] \in {0, Top} \/ location[d] \in {0, Top} \/ location[c] = location[d]
    BY <1>1, Zenon DEF Leaving
  <1>9. \A c \in D : location[c] # 0 => Located(c, location[c])
    BY <1>2, Zenon DEF ContentInv, LocationInv
  <1>10. \A m \in 1 .. Len(new) : Leaves(new[m], D)
    BY <1>2, <1>7, <1>8, <1>9, OverLeaves, Zenon
  <1>11. \A h \in Queued' : h \in Queued \/ Leaves(h, D)
    <2>1. \A m \in 1 .. Len(new) : \E k \in 1 .. Top - 1 : new[m].file = files[k]
      BY <1>7, BelowHead, Zenon
    <2>2. \A h \in Queued' : h \in Queued \/ \E m \in 1 .. Len(new) : new[m] = h
      BY <1>1, <1>7, <2>1, SentHoles, Zenon
    <2>3. QED
      BY <1>10, <2>2, Zenon
  <1> HIDE DEF head
  <1>12. QED
    BY <1>1, <1>2, <1>4, <1>5, <1>6, <1>11, WriteContent, Zenon

\* PartialWriteContent: a write within a block, which reads the block first
\* (readModifyWrite).
LEMMA PartialWriteContent ==
    ASSUME ~PartialInWO, StructInv, ContentInv, NEW b \in Blocks, PartialWrite(b)
    PROVE  ContentInv'
  <1> DEFINE block == [ReadBlock(b) EXCEPT ![1] = writes + 1]
             D == {b}
             head == [data[files[Top]] EXCEPT ![b] = block]
             loc == Remember(b)
  <1>1. /\ CountWrite /\ IsRW
        /\ data' = [data EXCEPT ![files[Top]][b] = block]
        /\ vol' = [vol EXCEPT ![b] = IF @ = Unmapped THEN block ELSE [@ EXCEPT ![1] = writes + 1]]
        /\ UNCHANGED <<files, kind, flags, snapIndx, rebuildVars, punch, folded, snaps>> /\ worker' = worker
    BY Zenon DEF PartialWrite, cleanVars
  <1>2. /\ files[Top] \in Files /\ data \in [Files -> FileData] /\ vol \in [Blocks -> Value \union {Unmapped}]
        /\ location \in [Blocks -> 0 .. Top] /\ D \in SUBSET Blocks
    BY ChainFacts, Zenon DEF StructInv, MapTypes
  <1>3. block # Hole
    <2>1. ReadBlock(b) \in Value
      BY ChainFacts, LookupIs, ValueIs, Zenon DEF ReadBlock
    <2>2. block \in Value
      BY <1>1, <2>1, ValueIs, Zenon DEF CountWrite
    <2>3. QED
      BY <2>2, NoValueAssumption, Zenon
  <1>4. vol'[b] = block
    <2>1. vol[b] # Unmapped => ReadBlock(b) = vol[b]
      BY <1>1, CurrentNow, Zenon
    <2>2. vol'[b] = IF vol[b] = Unmapped THEN block ELSE [vol[b] EXCEPT ![1] = writes + 1]
      BY <1>1, <1>2, Zenon
    <2>3. QED
      BY <2>1, <2>2, Zenon
  <1> HIDE DEF block
  <1>5. data' = [data EXCEPT ![files[Top]] = head]
    BY <1>1, <1>2, Zenon
  <1>6. /\ \A c \in D : head[c] # Hole /\ vol'[c] = head[c]
        /\ \A c \in Blocks \ D : head[c] = data[files[Top]][c] /\ vol'[c] = vol[c]
    BY <1>1, <1>2, <1>3, <1>4, Zenon DEF FileData
  <1>7. \A c \in Blocks : location'[c] = IF c \in D THEN Top ELSE location[c]
    BY PartialWriteIs, Zenon
  <1>8. PICK new \in Seq(HoleType) :
            /\ holes' = holes \o new
            /\ \A m \in 1 .. Len(new) : WrittenOver(new[m], D, loc) /\ punch
    BY PartialWriteIs, Zenon
  <1>9. loc \in [Blocks -> 0 .. Top]
    BY LookupIs, Zenon
  <1>10. \A c \in D : loc[c] # 0 => Located(c, loc[c])
    <2>1. loc[b] = Lookup(b) \/ loc[b] = location[b]
      BY <1>2, Zenon DEF Remember
    <2>2. QED
      BY <1>1, <2>1, LookupLocated, Zenon DEF ContentInv, LocationInv
  <1> HIDE DEF loc, head
  <1>11. \A c, d \in D : loc[c] = loc[d]
    BY Zenon
  <1> HIDE DEF D
  <1>12. \A m \in 1 .. Len(new) : Leaves(new[m], D)
    BY <1>1, <1>2, <1>8, <1>9, <1>10, <1>11, OverLeaves, Zenon DEF IsRW
  <1>13. \A h \in Queued' : h \in Queued \/ Leaves(h, D)
    <2>1. \A m \in 1 .. Len(new) : \E k \in 1 .. Top - 1 : new[m].file = files[k]
      BY <1>8, BelowHead, Zenon
    <2>2. \A h \in Queued' : h \in Queued \/ \E m \in 1 .. Len(new) : new[m] = h
      BY <1>1, <1>8, <2>1, SentHoles, Zenon
    <2>3. QED
      BY <1>12, <2>2, Zenon
  <1>14. QED
    BY <1>1, <1>2, <1>5, <1>6, <1>7, <1>13, WriteContent, Zenon

----------------------------------------------------------------------------
(* Punching                                                                  *)

\* FewerHeld: files may lose what is covered from everything that needs it
\* (Unmap, CreateHoles).
LEMMA FewerHeld ==
    ASSUME StructInv, ContentInv, files' = files, location' = location, Queued' \subseteq Queued,
           Wants'[Top] = vol',
           \A i \in 1 .. Top, b \in Blocks : Held'[i][b] \in {Held[i][b], Hole},
           \A i \in 1 .. Top, b \in Blocks : Wants'[i][b] # Unmapped =>
               /\ Wants'[i][b] = Wants[i][b]
               /\ \A k \in 1 .. i : Held'[k][b] = Held[k][b] \/ Covered(Held', b, k, i)
    PROVE  ViewInv' /\ QueueInv' /\ LocationInv'
  <1>1. /\ Top' = Top /\ Top \in Nat \ {0} /\ Top \in 1 .. Top
        /\ \A i \in 1 .. Top : \A k \in 0 .. i : \A j \in k + 1 .. i : j \in 1 .. Top
        /\ Queued \subseteq HoleType
    BY ChainFacts DEF Top, Queued
  <1>2. ASSUME NEW i \in 1 .. Top, NEW b \in Blocks, NEW k \in 0 .. i, Covered(Held', b, k, i)
        PROVE  Covered(Held, b, k, i)
    BY <1>1, <1>2, Zenon DEF Covered
  <1>3. ViewInv'
    <2>1. SUFFICES ASSUME NEW i \in 1 .. Top, NEW b \in Blocks, Wants'[i][b] # Unmapped
                   PROVE  Reads(Held', b, i, Wants[i][b])
      BY <1>1, Zenon DEF ViewInv
    <2>2. Reads(Held, b, i, Wants[i][b])
      BY <2>1, Zenon DEF ContentInv, ViewInv
    <2>3. i \in Nat /\ \A k \in 1 .. i : k \in 0 .. i
      OBVIOUS
    <2>4. \A k \in 1 .. i : Held'[k][b] = Held[k][b] \/ Covered(Held, b, k, i)
      BY <1>2, <2>1, <2>3, Zenon
    <2>5. QED
      BY <2>2, <2>3, <2>4, ReadsKept, Zenon
  <1>4. QueueInv'
    <2>1. SUFFICES ASSUME NEW h \in Queued', NEW b \in h.blocks, NEW k \in 1 .. Top, files[k] = h.file,
                          NEW i \in k .. Top, Wants'[i][b] # Unmapped
                   PROVE  Covered(Held', b, k, i)
      BY <1>1, Zenon DEF QueueInv, HidesFrom
    <2>2. b \in Blocks /\ i \in 1 .. Top
      BY <1>1 DEF HoleType
    <2>3. Covered(Held, b, k, i)
      BY <2>1, <2>2, Zenon DEF ContentInv, QueueInv, HidesFrom
    <2>4. PICK j \in k + 1 .. i : Held[j][b] # Hole
      BY <2>3, Zenon DEF Covered
    <2>5. j \in 1 .. i /\ \A m \in j + 1 .. i : m \in k + 1 .. i
      BY <2>2
    <2>6. Held'[j][b] = Held[j][b] \/ Covered(Held', b, j, i)
      BY <2>1, <2>2, <2>5, Zenon
    <2>7. QED
      BY <2>4, <2>5, <2>6, Zenon DEF Covered
  <1>5. LocationInv'
    <2>1. SUFFICES ASSUME NEW b \in Blocks, location[b] # 0
                   PROVE  /\ \A j \in location[b] + 1 .. Top : Held'[j][b] = Hole
                          /\ vol'[b] = Unmapped \/ location[b] = 1 \/ Held'[location[b]][b] # Hole
      BY <1>1, Zenon DEF LocationInv, Located
    <2>2. location[b] \in 1 .. Top /\ \A j \in location[b] + 1 .. Top : j \in 1 .. Top
      BY <1>1, <2>1 DEF StructInv, MapTypes
    <2>3. Located(b, location[b])
      BY <2>1, Zenon DEF ContentInv, LocationInv
    <2>4. \A j \in location[b] + 1 .. Top : Held'[j][b] = Hole
      BY <2>2, <2>3, Zenon DEF Located
    <2>5. ASSUME vol'[b] # Unmapped
          PROVE  location[b] = 1 \/ Held'[location[b]][b] # Hole
      <3>1. vol[b] # Unmapped
        BY <1>1, <2>5, HeldIs, Zenon
      <3>2. location[b] = 1 \/ Held[location[b]][b] # Hole
        BY <2>3, <3>1, Zenon DEF Located
      <3>3. Held'[location[b]][b] = Held[location[b]][b] \/ Covered(Held', b, location[b], Top)
        BY <1>1, <2>2, <2>5, Zenon
      <3>4. QED
        BY <2>4, <3>2, <3>3, Zenon DEF Covered
    <2>6. QED
      BY <2>4, <2>5, Zenon
  <1>6. QED
    BY <1>3, <1>4, <1>5, Zenon

\* UnmapContent: an unmap leaves the user's snapshots and other blocks alone
\* (Unmap).
LEMMA UnmapContent ==
    ASSUME StructInv, ContentInv, NEW b \in Blocks, Unmap(b)
    PROVE  ContentInv'
  <1>1. /\ Top' = Top /\ files' = files /\ kind' = kind /\ flags' = flags /\ snapIndx' = snapIndx
        /\ location' = location /\ stage' = stage /\ source' = source /\ copy' = copy /\ punch' = punch
        /\ folded' = folded /\ snaps' = snaps /\ Queued' = Queued
    BY Zenon DEF Unmap, mapVars, rebuildVars, cleanVars, holeVars, Top, Queued
  <1>2. /\ Top \in Nat \ {0} /\ Top \in 1 .. Top /\ snapIndx \in Nat
        /\ \A i \in 1 .. Top : files[i] \in Files
        /\ \A i \in 1 .. Top : i = Top \/ i \in 1 .. Top - 1
    BY ChainFacts
  <1>3. \A c \in Blocks : vol'[c] = IF c = b THEN Unmapped ELSE vol[c]
    BY Zenon DEF Unmap, StructInv, MapTypes
  <1>4. \A i \in 1 .. Top, c \in Blocks :
           Held'[i][c] = IF c = b /\ i > snapIndx /\ source[files[i]] = None THEN Hole ELSE Held[i][c]
    <2>1. SUFFICES ASSUME NEW i \in 1 .. Top, NEW c \in Blocks
                   PROVE  Held'[i][c] = IF c = b /\ i > snapIndx /\ source[files[i]] = None THEN Hole
                                        ELSE Held[i][c]
      BY Zenon
    <2>2. /\ Held'[i] = IF source[files[i]] # None THEN source[files[i]] ELSE data'[files[i]]
          /\ Held[i] = IF source[files[i]] # None THEN source[files[i]] ELSE data[files[i]]
      BY <1>1, Zenon DEF Held, Eff
    <2>3. data'[files[i]] = IF \E j \in snapIndx + 1 .. Top : files[j] = files[i]
                            THEN [data[files[i]] EXCEPT ![b] = Hole] ELSE data[files[i]]
      BY <1>2, Zenon DEF Unmap
    <2>4. (\E j \in snapIndx + 1 .. Top : files[j] = files[i]) <=> i > snapIndx
      <3>1. ASSUME NEW j \in snapIndx + 1 .. Top, files[j] = files[i]
            PROVE  i > snapIndx
        <4>1. j \in 1 .. Top /\ j > snapIndx
          BY <1>2
        <4>2. j = i
          BY <3>1, <4>1, SameIndex, Zenon
        <4>3. QED
          BY <4>1, <4>2, Zenon
      <3>2. i > snapIndx => i \in snapIndx + 1 .. Top
        BY <1>2
      <3>3. QED
        BY <3>1, <3>2, Zenon
    <2>5. data[files[i]] \in FileData
      BY <1>2, Zenon DEF StructInv, MapTypes
    <2>6. [data[files[i]] EXCEPT ![b] = Hole][c] = IF c = b THEN Hole ELSE data[files[i]][c]
      BY <2>5, Zenon DEF FileData
    <2>7. QED
      BY <2>2, <2>3, <2>4, <2>6, Zenon
  <1>5. /\ \A i \in 1 .. Top - 1 : Wants'[i] = Wants[i]
        /\ Wants'[Top] = vol' /\ Wants[Top] = vol
    <2>1. \A i \in 1 .. Top - 1 : i \in 1 .. Top /\ i # Top
      BY <1>2
    <2>2. QED
      BY <1>1, <1>2, <2>1, Zenon DEF Wants
  <1>6. ASSUME NEW i \in 1 .. Top, NEW c \in Blocks, Wants'[i][c] # Unmapped
        PROVE  Wants'[i][c] = Wants[i][c] /\ \A k \in 1 .. i : Held'[k][c] = Held[k][c]
    <2>1. Wants'[i][c] = Wants[i][c]
      BY <1>2, <1>3, <1>5, <1>6, Zenon
    <2>2. CASE c = b
      <3>1. i \in 1 .. Top - 1 /\ kind[files[i]] = "user"
        <4>1. i # Top
          BY <1>3, <1>5, <1>6, <2>2, Zenon
        <4>2. QED
          BY <1>6, <2>1, <4>1, HeldIs, Zenon
      <3>2. snapIndx >= i
        BY <3>1, Zenon DEF ContentInv, FlagInv
      <3>3. \A k \in 1 .. i : k \in 1 .. Top /\ ~(k > snapIndx)
        BY <1>2, <3>2
      <3>4. QED
        BY <1>4, <2>1, <3>3, Zenon
    <2>3. CASE c # b
      <3>1. \A k \in 1 .. i : k \in 1 .. Top
        BY <1>2
      <3>2. QED
        BY <1>4, <2>1, <2>3, <3>1, Zenon
    <2>4. QED
      BY <2>2, <2>3, Zenon
  <1>7. \A i \in 1 .. Top, c \in Blocks : Held'[i][c] \in {Held[i][c], Hole}
    BY <1>4, Zenon
  <1>8. ViewInv' /\ QueueInv' /\ LocationInv'
    BY <1>1, <1>5, <1>6, <1>7, FewerHeld, Zenon
  <1>9. FlagInv'
    BY <1>1, Zenon DEF ContentInv, FlagInv
  <1>10. FoldInv'
    <2>1. SUFFICES ASSUME folded # None
                   PROVE  FoldInv'
      BY <1>1, Zenon DEF FoldInv
    <2>2. PICK i \in 2 .. Top - 1 : FoldedAt(i)
      BY <2>1, Zenon DEF ContentInv, FoldInv
    <2>3. i \in 1 .. Top /\ i - 1 \in 1 .. Top /\ (i - 1 > snapIndx => i > snapIndx)
      BY <1>2
    <2>4. source[files[i]] = None
      <3>1. stage # "sync"
        BY <2>1, Zenon DEF StructInv, RebuildInv
      <3>2. QED
        BY <1>2, <2>3, <3>1, Zenon DEF ContentInv, SyncInv
    <2>5. \A c \in Blocks : Held'[i][c] # Hole => Held'[i][c] = Held[i][c] /\ Held'[i - 1][c] = Held[i - 1][c]
      BY <1>4, <2>3, <2>4, Zenon
    <2>6. \A h \in Queued : \A c \in h.blocks : c \in Blocks
      BY Zenon DEF Queued, HoleType
    <2>7. FoldedAt(i)'
      <3>1. \A c \in Blocks : Held'[i][c] # Hole => Held'[i - 1][c] = Held'[i][c]
        BY <2>2, <2>5, Zenon DEF FoldedAt
      <3>2. \A h \in Queued : h.file = files[i - 1] => \A c \in h.blocks : Held'[i][c] = Hole
        BY <2>2, <2>5, <2>6, Zenon DEF FoldedAt
      <3>3. QED
        BY <1>1, <2>2, <3>1, <3>2, Zenon DEF FoldedAt
    <2>8. QED
      BY <1>1, <2>7, Zenon DEF FoldInv
  <1>11. SyncInv'
    BY <1>1, Zenon DEF ContentInv, SyncInv
  <1>12. CopyInv'
    <2>1. SUFFICES ASSUME stage = "preload", NEW c \in Blocks
                   PROVE  CopiedAt(c, copy.loc[c], copy.next)'
      BY <1>1, Zenon DEF CopyInv
    <2>2. copy.loc[c] \in 0 .. Top /\ copy.next \in 1 .. Top + 1
      BY <2>1, Zenon DEF StructInv, RebuildTypes
    <2>3. CopiedAt(c, copy.loc[c], copy.next)
      BY <2>1, Zenon DEF ContentInv, CopyInv
    <2>4. /\ \A j \in copy.loc[c] + 1 .. copy.next - 1 : j \in 1 .. Top
          /\ copy.loc[c] = 0 \/ copy.loc[c] \in 1 .. Top
      BY <1>2, <2>2
    <2>5. \A j \in copy.loc[c] + 1 .. copy.next - 1 : Held'[j][c] # Hole => j = Top /\ location[c] = Top
      BY <1>7, <2>3, <2>4, Zenon DEF CopiedAt
    <2>6. copy.loc[c] = 0 \/ Held'[copy.loc[c]][c] # Hole \/ vol'[c] = Unmapped \/ location[c] = Top
      BY <1>3, <1>4, <2>3, <2>4, Zenon DEF CopiedAt
    <2>7. QED
      BY <1>1, <2>3, <2>5, <2>6, Zenon DEF CopiedAt
  <1>13. QED
    BY <1>8, <1>9, <1>10, <1>11, <1>12, Zenon DEF ContentInv

\* PunchContent: what CreateHoles punches is needed by no read (CreateHoles).
LEMMA PunchContent ==
    ASSUME StructInv, ContentInv, Punch
    PROVE  ContentInv'
  <1>1. /\ Top' = Top /\ files' = files /\ kind' = kind /\ flags' = flags /\ snapIndx' = snapIndx
        /\ location' = location /\ stage' = stage /\ source' = source /\ copy' = copy /\ punch' = punch
        /\ folded' = folded /\ vol' = vol /\ snaps' = snaps
    BY Zenon DEF Punch, mapVars, rebuildVars, cleanVars, ghosts, Top
  <1>2. /\ Top \in Nat \ {0} /\ Top \in 1 .. Top
        /\ \A i \in 1 .. Top : files[i] \in Files
        /\ Queued' \subseteq Queued /\ Queued \subseteq HoleType
    BY ChainFacts, PunchStruct, Zenon DEF Queued
  <1>3. ASSUME NEW i \in 1 .. Top, files[i] = worker.file
        PROVE  worker \in Queued /\ source[files[i]] = None
    <2>1. worker \in Queued
      <3>1. worker \in HoleType /\ worker.file # None
        BY <1>2, <1>3, NoValueAssumption, Zenon DEF Punch, StructInv, HoleTypes
      <3>2. QED
        BY <3>1, Zenon DEF Queued
    <2>2. stage # "sync"
      BY <2>1, Zenon DEF ContentInv, SyncInv
    <2>3. QED
      BY <1>2, <2>1, <2>2, Zenon DEF ContentInv, SyncInv
  <1>4. \A i \in 1 .. Top, c \in Blocks :
           Held'[i][c] = IF files[i] = worker.file /\ c \in worker.blocks THEN Hole ELSE Held[i][c]
    <2>1. SUFFICES ASSUME NEW i \in 1 .. Top, NEW c \in Blocks
                   PROVE  Held'[i][c] = IF files[i] = worker.file /\ c \in worker.blocks THEN Hole
                                        ELSE Held[i][c]
      BY Zenon
    <2>2. /\ Held'[i] = IF source[files[i]] # None THEN source[files[i]] ELSE data'[files[i]]
          /\ Held[i] = IF source[files[i]] # None THEN source[files[i]] ELSE data[files[i]]
      BY <1>1, Zenon DEF Held, Eff
    <2>3. data'[files[i]][c] = IF files[i] = worker.file /\ c \in worker.blocks THEN Hole
                               ELSE data[files[i]][c]
      BY <1>2, Zenon DEF Punch, StructInv, MapTypes
    <2>4. QED
      BY <1>3, <2>2, <2>3, Zenon
  <1>5. Wants' = Wants
    BY <1>1, Zenon DEF Wants
  <1>6. ASSUME NEW i \in 1 .. Top, NEW c \in Blocks, Wants[i][c] # Unmapped, NEW k \in 1 .. i
        PROVE  Held'[k][c] = Held[k][c] \/ Covered(Held', c, k, i)
    <2>1. k \in 1 .. Top /\ i \in k .. Top
      BY <1>2
    <2>2. SUFFICES ASSUME files[k] = worker.file, c \in worker.blocks
                   PROVE  Covered(Held', c, k, i)
      BY <1>4, <2>1, Zenon
    <2>3. worker \in Queued
      BY <1>3, <2>1, <2>2, Zenon
    <2>4. Covered(Held, c, k, i)
      BY <1>6, <2>1, <2>2, <2>3, Zenon DEF ContentInv, QueueInv, HidesFrom
    <2>5. PICK j \in k + 1 .. i : Held[j][c] # Hole
      BY <2>4, Zenon DEF Covered
    <2>6. j \in 1 .. Top /\ j # k
      BY <1>2, <2>1
    <2>7. files[j] # worker.file
      BY <2>1, <2>2, <2>6, SameIndex, Zenon
    <2>8. QED
      BY <1>4, <2>5, <2>6, <2>7, Zenon DEF Covered
  <1>7. \A i \in 1 .. Top, c \in Blocks : Held'[i][c] \in {Held[i][c], Hole}
    BY <1>4, Zenon
  <1>8. ViewInv' /\ QueueInv' /\ LocationInv'
    <2>1. Wants'[Top] = vol'
      BY <1>1, <1>5, HeldIs, Zenon
    <2>2. QED
      BY <1>1, <1>2, <1>5, <1>6, <1>7, <2>1, FewerHeld, Zenon
  <1>9. FlagInv'
    BY <1>1, Zenon DEF ContentInv, FlagInv
  <1>10. FoldInv'
    <2>1. SUFFICES ASSUME folded # None
                   PROVE  FoldInv'
      BY <1>1, Zenon DEF FoldInv
    <2>2. PICK i \in 2 .. Top - 1 : FoldedAt(i)
      BY <2>1, Zenon DEF ContentInv, FoldInv
    <2>3. i \in 1 .. Top /\ i - 1 \in 1 .. Top
      BY <1>2
    <2>4. \A h \in Queued : \A c \in h.blocks : c \in Blocks
      BY <1>2, Zenon DEF HoleType
    <2>5. ASSUME NEW c \in Blocks, Held'[i][c] # Hole
          PROVE  Held'[i - 1][c] = Held'[i][c]
      <3>1. Held'[i][c] = Held[i][c] /\ Held[i][c] # Hole
        BY <1>7, <2>3, <2>5, Zenon
      <3>2. ~(files[i - 1] = worker.file /\ c \in worker.blocks)
        BY <1>3, <2>2, <2>3, <3>1, Zenon DEF FoldedAt
      <3>3. Held'[i - 1][c] = Held[i - 1][c]
        BY <1>4, <2>3, <3>2, Zenon
      <3>4. Held[i - 1][c] = Held[i][c]
        BY <2>2, <3>1, Zenon DEF FoldedAt
      <3>5. QED
        BY <3>1, <3>3, <3>4, Zenon
    <2>6. \A h \in Queued' : h.file = files[i - 1] => \A c \in h.blocks : Held'[i][c] = Hole
      BY <1>2, <1>7, <2>2, <2>3, <2>4, Zenon DEF FoldedAt
    <2>7. FoldedAt(i)'
      BY <1>1, <2>2, <2>5, <2>6, Zenon DEF FoldedAt
    <2>8. QED
      BY <1>1, <2>7, Zenon DEF FoldInv
  <1>11. SyncInv'
    BY <1>1, <1>2, Zenon DEF ContentInv, SyncInv
  <1>12. CopyInv'
    <2>1. SUFFICES ASSUME stage = "preload", NEW c \in Blocks
                   PROVE  CopiedAt(c, copy.loc[c], copy.next)'
      BY <1>1, Zenon DEF CopyInv
    <2>2. copy.loc[c] \in 0 .. Top /\ copy.next \in 1 .. Top + 1
      BY <2>1, Zenon DEF StructInv, RebuildTypes
    <2>3. CopiedAt(c, copy.loc[c], copy.next)
      BY <2>1, Zenon DEF ContentInv, CopyInv
    <2>4. /\ \A j \in copy.loc[c] + 1 .. copy.next - 1 : j \in 1 .. Top
          /\ copy.loc[c] = 0 \/ copy.loc[c] \in 1 .. Top
          /\ ~(copy.loc[c] < copy.loc[c])
      BY <1>2, <2>2
    <2>5. \A j \in copy.loc[c] + 1 .. copy.next - 1 : Held'[j][c] # Hole => j = Top /\ location[c] = Top
      BY <1>7, <2>3, <2>4, Zenon DEF CopiedAt
    <2>6. ASSUME copy.loc[c] \in 1 .. Top
          PROVE  Held'[copy.loc[c]][c] = Held[copy.loc[c]][c]
      <3>1. ~(files[copy.loc[c]] = worker.file /\ c \in worker.blocks)
        BY <1>3, <2>3, <2>4, <2>6, Zenon DEF CopiedAt
      <3>2. QED
        BY <1>4, <2>6, <3>1, Zenon
    <2>7. copy.loc[c] = 0 \/ Held'[copy.loc[c]][c] # Hole \/ vol[c] = Unmapped \/ location[c] = Top
      BY <2>3, <2>4, <2>6, Zenon DEF CopiedAt
    <2>8. QED
      BY <1>1, <1>2, <2>3, <2>5, <2>7, Zenon DEF CopiedAt
  <1>13. QED
    BY <1>8, <1>9, <1>10, <1>11, <1>12, Zenon DEF ContentInv

----------------------------------------------------------------------------
(* Snapshots                                                                 *)

\* SnapshotContent: a snapshot reads as the volume did when it was taken, and
\* so does the volume (createDisk).
LEMMA SnapshotContent ==
    ASSUME StructInv, ContentInv, NEW byUser \in BOOLEAN, Snapshot(byUser)
    PROVE  ContentInv'
  <1>1. /\ location' = location /\ stage' = stage /\ source' = source /\ copy' = copy /\ punch' = punch
        /\ folded' = folded /\ vol' = vol /\ data' = data /\ Queued' = Queued
        /\ stage = "done" /\ used < MaxFiles
        /\ files' = Append(files, used + 1)
        /\ kind' = [kind EXCEPT ![files[Top]] = IF byUser THEN "user" ELSE "auto"]
        /\ flags' = Append(flags, byUser)
        /\ snapIndx' = IF byUser THEN Top ELSE snapIndx
        /\ snaps' = IF byUser THEN [snaps EXCEPT ![files[Top]] = vol] ELSE snaps
    BY Zenon DEF Snapshot, rebuildVars, cleanVars, holeVars, IsRW, Queued
  <1>2. /\ Top \in Nat \ {0} /\ Top \in 1 .. Top /\ used \in Nat /\ snapIndx \in Nat
        /\ \A i \in 1 .. Top : files[i] \in Files /\ (i = Top \/ i \in 1 .. Top - 1)
        /\ \A i \in 1 .. Top - 1 : i \in 1 .. Top /\ i # Top
        /\ Queued \subseteq HoleType
    BY ChainFacts DEF Queued
  <1>3. /\ Top' = Top + 1 /\ files'[Top + 1] = used + 1
        /\ \A i \in 1 .. Top : files'[i] = files[i] /\ i \in 1 .. Top' /\ i # Top'
        /\ \A i \in 1 .. Top' : i = Top + 1 \/ i \in 1 .. Top
    <2>1. used + 1 \in Files
      BY <1>1, <1>2, LunMapAssumption DEF Files
    <2>2. /\ Top' = Top + 1 /\ files'[Top + 1] = used + 1
          /\ \A i \in 1 .. Top : files'[i] = files[i]
      BY <1>1, <2>1, ChainFacts DEF Top
    <2>3. \A i \in 1 .. Top : i \in 1 .. Top + 1 /\ i # Top + 1
      BY <1>2
    <2>4. \A i \in 1 .. Top + 1 : i = Top + 1 \/ i \in 1 .. Top
      BY <1>2
    <2>5. QED
      BY <2>2, <2>3, <2>4, Zenon
  <1>4. /\ flags'[Top + 1] = byUser
        /\ \A i \in 1 .. Top : flags'[i] = flags[i]
    <2>1. flags \in Seq(BOOLEAN) /\ Len(flags) = Top
      BY Zenon DEF StructInv, MapTypes
    <2>2. QED
      BY <1>1, <2>1
  <1>5. /\ \A i \in 1 .. Top - 1 : kind'[files[i]] = kind[files[i]] /\ snaps'[files[i]] = snaps[files[i]]
        /\ kind'[files[Top]] = "user" => byUser /\ snaps'[files[Top]] = vol
    <2>1. \A i \in 1 .. Top - 1 : files[i] # files[Top]
      BY <1>2, SameIndex, Zenon
    <2>2. QED
      BY <1>1, <1>2, <2>1, Zenon DEF StructInv, MapTypes
  <1>6. used + 1 \in Files /\ used + 1 > used
    BY <1>1, <1>2, LunMapAssumption DEF Files
  <1>7. /\ \A i \in 1 .. Top : Held'[i] = Held[i]
        /\ \A b \in Blocks : Held'[Top + 1][b] = Hole
    <2>1. /\ \A i \in 1 .. Top' : Held'[i] = IF source[files'[i]] # None THEN source[files'[i]] ELSE data[files'[i]]
          /\ \A i \in 1 .. Top : Held[i] = IF source[files[i]] # None THEN source[files[i]] ELSE data[files[i]]
      BY <1>1, Zenon DEF Held, Eff
    <2>2. source[used + 1] = None /\ data[used + 1] = NoData
      BY <1>6, Zenon DEF StructInv, ChainInv
    <2>3. Top + 1 \in 1 .. Top'
      BY <1>2, <1>3
    <2>4. Held'[Top + 1] = NoData
      BY <1>3, <2>1, <2>2, <2>3
    <2>5. \A i \in 1 .. Top : Held'[i] = Held[i]
      BY <1>3, <2>1
    <2>6. QED
      BY <2>4, <2>5, Zenon DEF NoData
  <1>8. ASSUME NEW i \in 1 .. Top', NEW b \in Blocks, Wants'[i][b] # Unmapped
        PROVE  \/ i = Top + 1 /\ Wants'[i][b] = Wants[Top][b]
               \/ i \in 1 .. Top /\ Wants'[i][b] = Wants[i][b]
    <2>1. Wants'[i] = IF i = Top' THEN vol' ELSE IF kind'[files'[i]] = "user" THEN snaps'[files'[i]]
                      ELSE [c \in Blocks |-> Unmapped]
      BY Zenon DEF Wants
    <2>2. /\ \A j \in 1 .. Top - 1 : Wants[j] = IF kind[files[j]] = "user" THEN snaps[files[j]]
                                               ELSE [c \in Blocks |-> Unmapped]
          /\ Wants[Top] = vol
      BY <1>2, Zenon DEF Wants
    <2>3. [c \in Blocks |-> Unmapped][b] = Unmapped
      BY Zenon
    <2>4. CASE i = Top + 1
      BY <1>1, <1>3, <2>1, <2>2, <2>4, Zenon
    <2>5. CASE i \in 1 .. Top /\ i # Top
      <3>1. i \in 1 .. Top - 1 /\ i # Top' /\ files'[i] = files[i]
        BY <1>2, <1>3, <2>5, Zenon
      <3>2. kind'[files[i]] = kind[files[i]] /\ snaps'[files[i]] = snaps[files[i]]
        BY <1>5, <3>1, Zenon
      <3>3. Wants'[i] = Wants[i]
        BY <2>1, <2>2, <3>1, <3>2, Zenon
      <3>4. QED
        BY <2>5, <3>3, Zenon
    <2>6. CASE i = Top
      BY <1>2, <1>3, <1>5, <1>8, <2>1, <2>2, <2>3, <2>6, Zenon
    <2>7. QED
      BY <1>3, <2>4, <2>5, <2>6, Zenon
  <1>9. ViewInv'
    <2>1. SUFFICES ASSUME NEW i \in 1 .. Top', NEW b \in Blocks, Wants'[i][b] # Unmapped
                   PROVE  Reads(Held', b, i, Wants'[i][b])
      BY Zenon DEF ViewInv
    <2>2. CASE i \in 1 .. Top /\ Wants'[i][b] = Wants[i][b]
      <3>1. Reads(Held, b, i, Wants[i][b])
        BY <2>1, <2>2, Zenon DEF ContentInv, ViewInv
      <3>2. i \in Nat /\ \A k \in 1 .. i : k \in 1 .. Top
        BY <1>2, <2>2
      <3>3. \A k \in 1 .. i : Held'[k][b] = Held[k][b] \/ Covered(Held, b, k, i)
        BY <1>7, <3>2, Zenon
      <3>4. QED
        BY <2>2, <3>1, <3>2, <3>3, ReadsKept, Zenon
    <2>3. CASE i = Top + 1 /\ Wants'[i][b] = Wants[Top][b]
      <3>1. Reads(Held, b, Top, Wants[Top][b])
        BY <1>2, <2>1, <2>3, Zenon DEF ContentInv, ViewInv
      <3>2. \A k \in 1 .. Top : Held'[k][b] = Held[k][b]
        BY <1>7, Zenon
      <3>3. Top \in Nat
        BY <1>2, Zenon
      <3>4. QED
        BY <1>7, <2>3, <3>1, <3>2, <3>3, ReadsAbove, Zenon
    <2>4. QED
      BY <1>8, <2>1, <2>2, <2>3, Zenon
  <1>10. QueueInv'
    <2>1. SUFFICES ASSUME NEW h \in Queued, NEW b \in h.blocks, NEW k \in 1 .. Top', files'[k] = h.file,
                          NEW i \in k .. Top', Wants'[i][b] # Unmapped
                   PROVE  Covered(Held', b, k, i)
      BY <1>1, Zenon DEF QueueInv, HidesFrom
    <2>2. b \in Blocks /\ i \in 1 .. Top'
      BY <1>2, <1>3 DEF HoleType
    <2>3. k \in 1 .. Top /\ files[k] = h.file
      <3>1. h.file <= used
        BY Zenon DEF StructInv, ChainInv
      <3>2. k # Top + 1
        BY <1>2, <1>3, <2>1, <3>1
      <3>3. QED
        BY <1>3, <2>1, <3>2, Zenon
    <2>4. PICK n \in k .. Top : n <= i /\ Wants[n][b] # Unmapped
      <3>1. CASE i \in 1 .. Top /\ Wants'[i][b] = Wants[i][b]
        BY <2>1, <3>1
      <3>2. CASE i = Top + 1 /\ Wants'[i][b] = Wants[Top][b]
        <4>1. Top \in k .. Top /\ Top <= i
          BY <1>2, <2>3, <3>2
        <4>2. QED
          BY <2>1, <3>2, <4>1, Zenon
      <3>3. QED
        BY <1>8, <2>1, <2>2, <3>1, <3>2, Zenon
    <2>5. Covered(Held, b, k, n)
      BY <2>3, <2>4, Zenon DEF ContentInv, QueueInv, HidesFrom
    <2>6. \A j \in k + 1 .. n : j \in k + 1 .. i /\ j \in 1 .. Top
      <3>1. k \in 1 .. Top /\ n \in k .. Top /\ n <= i /\ i \in Nat /\ Top \in Nat
        BY <1>2, <1>3, <2>2, <2>3, <2>4
      <3>2. QED
        BY <3>1
    <2>7. QED
      BY <1>7, <2>5, <2>6, Zenon DEF Covered
  <1>11. LocationInv'
    <2>1. SUFFICES ASSUME NEW b \in Blocks, location[b] # 0
                   PROVE  /\ \A j \in location[b] + 1 .. Top' : Held'[j][b] = Hole
                          /\ vol[b] = Unmapped \/ location[b] = 1 \/ Held'[location[b]][b] # Hole
      BY <1>1, Zenon DEF LocationInv, Located
    <2>2. location[b] \in 1 .. Top
      BY <1>2, <2>1 DEF StructInv, MapTypes
    <2>3. Located(b, location[b])
      BY <2>1, Zenon DEF ContentInv, LocationInv
    <2>4. \A j \in location[b] + 1 .. Top' : j = Top + 1 \/ (j \in location[b] + 1 .. Top /\ j \in 1 .. Top)
      <3>1. Top' = Top + 1 /\ Top \in Nat
        BY <1>2, <1>3, Zenon
      <3>2. QED
        BY <2>2, <3>1
    <2>5. QED
      BY <1>7, <2>2, <2>3, <2>4, Zenon DEF Located
  <1>12. FlagInv'
    <2>1. SUFFICES ASSUME NEW i \in 1 .. Top, kind'[files[i]] = "user"
                   PROVE  snapIndx' >= i /\ (flags'[i] \/ flags'[i + 1])
      <3>1. Top' - 1 = Top
        BY <1>2, <1>3
      <3>2. \A i \in 1 .. Top : files'[i] = files[i]
        BY <1>3, Zenon
      <3>3. QED
        BY <1>1, <3>1, <3>2, Zenon DEF FlagInv
    <2>2. CASE i = Top
      <3>1. snapIndx' = Top /\ flags'[Top + 1]
        BY <1>1, <1>4, <1>5, <2>1, <2>2, Zenon
      <3>2. QED
        BY <1>2, <2>2, <3>1
    <2>3. CASE i \in 1 .. Top - 1
      <3>1. snapIndx >= i /\ (flags[i] \/ flags[i + 1])
        BY <1>5, <2>1, <2>3, Zenon DEF ContentInv, FlagInv
      <3>2. i \in 1 .. Top /\ i + 1 \in 1 .. Top /\ Top >= i
        BY <1>2, <2>3
      <3>3. QED
        BY <1>1, <1>4, <3>1, <3>2, Zenon
    <2>4. QED
      BY <1>2, <2>2, <2>3, Zenon
  <1>13. FoldInv'
    <2>1. SUFFICES ASSUME folded # None
                   PROVE  FoldInv'
      BY <1>1, Zenon DEF FoldInv
    <2>2. PICK i \in 2 .. Top - 1 : FoldedAt(i)
      BY <2>1, Zenon DEF ContentInv, FoldInv
    <2>3. i \in 1 .. Top - 1 /\ i - 1 \in 1 .. Top - 1 /\ i \in 2 .. Top' - 1
      BY <1>2, <1>3
    <2>4. Held'[i] = Held[i] /\ Held'[i - 1] = Held[i - 1] /\ files'[i] = files[i] /\ files'[i - 1] = files[i - 1]
          /\ kind'[files[i]] = kind[files[i]] /\ kind'[files[i - 1]] = kind[files[i - 1]]
      BY <1>2, <1>3, <1>5, <1>7, <2>3, Zenon
    <2>5. FoldedAt(i)'
      BY <1>1, <2>2, <2>4, Zenon DEF FoldedAt
    <2>6. QED
      BY <2>3, <2>5, Zenon DEF FoldInv
  <1>14. SyncInv' /\ CopyInv'
    BY <1>1, Zenon DEF ContentInv, SyncInv, CopyInv
  <1>15. QED
    BY <1>9, <1>10, <1>11, <1>12, <1>13, <1>14, Zenon DEF ContentInv

\* DeleteContent: deleting a snapshot only ends what it is needed for
\* (markDiskAsRemoved).
LEMMA DeleteContent ==
    ASSUME StructInv, ContentInv, NEW i \in 1 .. Top, DeleteSnapshot(i)
    PROVE  ContentInv'
  <1>1. /\ Top' = Top /\ files' = files /\ flags' = flags /\ snapIndx' = snapIndx
        /\ location' = location /\ stage' = stage /\ source' = source /\ copy' = copy /\ punch' = punch
        /\ folded' = folded /\ vol' = vol /\ data' = data /\ Queued' = Queued /\ stage = "done"
        /\ kind' = [kind EXCEPT ![files[i]] = "removed"]
        /\ snaps' = [snaps EXCEPT ![files[i]] = None]
    BY Zenon DEF DeleteSnapshot, rebuildVars, cleanVars, holeVars, IsRW, Top, Queued
  <1>2. /\ Top \in Nat \ {0} /\ Top \in 1 .. Top /\ \A n \in 1 .. Top : files[n] \in Files
        /\ \A n \in 1 .. Top - 1 : n \in 1 .. Top
    BY ChainFacts
  <1>3. \A f \in Files : /\ kind'[f] = "user" => kind[f] = "user" /\ snaps'[f] = snaps[f]
                         /\ kind[f] # "user" => kind'[f] # "user"
    BY <1>1, Zenon DEF StructInv, MapTypes
  <1>4. Held' = Held
    BY <1>1, Zenon DEF Held, Eff
  <1>5. ASSUME NEW n \in 1 .. Top, NEW b \in Blocks, Wants'[n][b] # Unmapped
        PROVE  Wants'[n][b] = Wants[n][b]
    <2>1. /\ Wants'[n] = IF n = Top THEN vol ELSE IF kind'[files[n]] = "user" THEN snaps'[files[n]]
                         ELSE [c \in Blocks |-> Unmapped]
          /\ Wants[n] = IF n = Top THEN vol ELSE IF kind[files[n]] = "user" THEN snaps[files[n]]
                        ELSE [c \in Blocks |-> Unmapped]
      BY <1>1 DEF Wants
    <2>2. [c \in Blocks |-> Unmapped][b] = Unmapped
      BY Zenon
    <2>3. QED
      BY <1>2, <1>3, <1>5, <2>1, <2>2, Zenon
  <1>6. ViewInv'
    BY <1>1, <1>4, <1>5, Zenon DEF ContentInv, ViewInv
  <1>7. QueueInv'
    <2>1. SUFFICES ASSUME NEW h \in Queued, NEW b \in h.blocks, NEW k \in 1 .. Top, files[k] = h.file,
                          NEW n \in k .. Top, Wants'[n][b] # Unmapped
                   PROVE  Covered(Held, b, k, n)
      BY <1>1, <1>4, Zenon DEF QueueInv, HidesFrom
    <2>2. b \in Blocks /\ n \in 1 .. Top
      BY <1>2 DEF Queued, HoleType
    <2>3. QED
      BY <1>5, <2>1, <2>2, Zenon DEF ContentInv, QueueInv, HidesFrom
  <1>8. LocationInv'
    BY <1>1, <1>4, Zenon DEF ContentInv, LocationInv, Located
  <1>9. FlagInv'
    BY <1>1, <1>2, <1>3, Zenon DEF ContentInv, FlagInv
  <1>10. FoldInv'
    <2>1. \A n \in 2 .. Top - 1 : n \in 1 .. Top /\ n - 1 \in 1 .. Top
      BY <1>2
    <2>2. \A n \in 2 .. Top - 1 : FoldedAt(n) => FoldedAt(n)'
      BY <1>1, <1>2, <1>3, <1>4, <2>1, Zenon DEF FoldedAt
    <2>3. QED
      BY <1>1, <2>2, Zenon DEF ContentInv, FoldInv
  <1>11. SyncInv' /\ CopyInv'
    BY <1>1, Zenon DEF ContentInv, SyncInv, CopyInv
  <1>12. QED
    BY <1>6, <1>7, <1>8, <1>9, <1>10, <1>11, Zenon DEF ContentInv

\* FoldContent: what is copied into the parent is read above it anyway (sfold).
LEMMA FoldContent ==
    ASSUME ~FoldRacesHoles, StructInv, ContentInv, NEW i \in 1 .. Top, Fold(i)
    PROVE  ContentInv'
  <1>1. /\ Top' = Top /\ files' = files /\ kind' = kind /\ flags' = flags /\ snapIndx' = snapIndx
        /\ location' = location /\ stage' = stage /\ source' = source /\ copy' = copy /\ punch' = punch
        /\ vol' = vol /\ snaps' = snaps /\ Queued' = Queued /\ stage = "done"
        /\ i \in 2 .. Top - 2 /\ kind[files[i]] # "user" /\ kind[files[i - 1]] # "user"
        /\ files[i - 1] \notin Pending /\ folded' = files[i]
        /\ data' = [data EXCEPT ![files[i - 1]] =
                      [b \in Blocks |-> IF Holds(i, b) THEN data[files[i]][b] ELSE @[b]]]
    BY Zenon DEF Fold, mapVars, rebuildVars, holeVars, ghosts, IsRW, Top, Queued
  <1>2. /\ Top \in Nat \ {0} /\ Top \in 1 .. Top /\ \A n \in 1 .. Top : files[n] \in Files
        /\ i \in 1 .. Top /\ i - 1 \in 1 .. Top - 1 /\ i - 1 \in 1 .. Top /\ i # i - 1 /\ i \in 2 .. Top - 1
        /\ Queued \subseteq HoleType
    BY <1>1, ChainFacts DEF Queued
  <1>3. \A n \in 1 .. Top : Held[n] = data[files[n]]
    BY <1>1, AllCopied, Zenon DEF ContentInv
  <1>4. \A n \in 1 .. Top, b \in Blocks :
           Held'[n][b] = IF n = i - 1 /\ Held[i][b] # Hole THEN Held[i][b] ELSE Held[n][b]
    <2>1. SUFFICES ASSUME NEW n \in 1 .. Top, NEW b \in Blocks
                   PROVE  Held'[n][b] = IF n = i - 1 /\ Held[i][b] # Hole THEN Held[i][b] ELSE Held[n][b]
      BY Zenon
    <2>2. Held'[n] = data'[files[n]]
      <3>1. source[files[n]] = None
        BY <1>1, <1>2, Zenon DEF ContentInv, SyncInv
      <3>2. QED
        BY <1>1, <3>1, Zenon DEF Held, Eff
    <2>3. n # i - 1 => files[n] # files[i - 1]
      BY <1>2, SameIndex, Zenon
    <2>4. data'[files[n]][b] = IF files[n] = files[i - 1] /\ data[files[i]][b] # Hole
                               THEN data[files[i]][b] ELSE data[files[n]][b]
      BY <1>1, <1>2, Zenon DEF Holds, StructInv, MapTypes
    <2>5. QED
      BY <1>2, <1>3, <2>2, <2>3, <2>4, Zenon
  <1>5. Wants' = Wants
    BY <1>1, Zenon DEF Wants
  <1>6. ViewInv'
    <2>1. SUFFICES ASSUME NEW n \in 1 .. Top, NEW b \in Blocks, Wants[n][b] # Unmapped
                   PROVE  Reads(Held', b, n, Wants[n][b])
      BY <1>1, <1>5, Zenon DEF ViewInv
    <2>2. n # i - 1
      <3>1. n = Top \/ kind[files[n]] = "user"
        BY <2>1, HeldIs, Zenon
      <3>2. i - 1 # Top
        BY <1>2
      <3>3. QED
        BY <1>1, <3>1, <3>2, Zenon
    <2>3. ASSUME NEW k \in 1 .. n
          PROVE  Held'[k][b] = Held[k][b] \/ Covered(Held, b, k, n)
      <3>1. k \in 1 .. Top
        BY <1>2
      <3>2. CASE k = i - 1 /\ Held[i][b] # Hole
        <4>1. i \in k + 1 .. n
          BY <1>2, <2>2, <3>2
        <4>2. QED
          BY <3>2, <4>1, Zenon DEF Covered
      <3>3. QED
        BY <1>4, <3>1, <3>2, Zenon
    <2>4. n \in Nat /\ Reads(Held, b, n, Wants[n][b])
      BY <2>1 DEF ContentInv, ViewInv
    <2>5. QED
      BY <2>3, <2>4, ReadsKept, Zenon
  <1>7. \A n \in 1 .. Top, b \in Blocks : Held[n][b] # Hole => Held'[n][b] # Hole
    BY <1>4, Zenon
  <1>8. QueueInv'
    <2>1. SUFFICES ASSUME NEW h \in Queued, NEW b \in h.blocks, NEW k \in 1 .. Top, files[k] = h.file,
                          NEW n \in k .. Top, Wants[n][b] # Unmapped
                   PROVE  Covered(Held', b, k, n)
      BY <1>1, <1>5, Zenon DEF QueueInv, HidesFrom
    <2>2. b \in Blocks /\ \A j \in k + 1 .. n : j \in 1 .. Top
      BY <1>2 DEF HoleType
    <2>3. Covered(Held, b, k, n)
      BY <2>1, Zenon DEF ContentInv, QueueInv, HidesFrom
    <2>4. QED
      BY <1>7, <2>2, <2>3, Zenon DEF Covered
  <1>9. LocationInv'
    <2>1. SUFFICES ASSUME NEW b \in Blocks, location[b] # 0
                   PROVE  /\ \A j \in location[b] + 1 .. Top : Held'[j][b] = Hole
                          /\ vol[b] = Unmapped \/ location[b] = 1 \/ Held'[location[b]][b] # Hole
      BY <1>1, Zenon DEF LocationInv, Located
    <2>2. location[b] \in 1 .. Top
      BY <1>2, <2>1 DEF StructInv, MapTypes
    <2>3. Located(b, location[b])
      BY <2>1, Zenon DEF ContentInv, LocationInv
    <2>4. ASSUME NEW j \in location[b] + 1 .. Top
          PROVE  Held'[j][b] = Hole
      <3>1. j \in 1 .. Top /\ (j = i - 1 => i \in location[b] + 1 .. Top)
        BY <1>2, <2>2
      <3>2. Held[j][b] = Hole /\ (j = i - 1 => Held[i][b] = Hole)
        BY <2>3, <3>1, Zenon DEF Located
      <3>3. QED
        BY <1>4, <3>1, <3>2, Zenon
    <2>5. QED
      BY <1>7, <2>2, <2>3, <2>4, Zenon DEF Located
  <1>10. FlagInv'
    BY <1>1, Zenon DEF ContentInv, FlagInv
  <1>11. FoldInv'
    <2>1. \A b \in Blocks : Held'[i][b] # Hole => Held'[i - 1][b] = Held'[i][b]
      BY <1>2, <1>4, Zenon
    <2>2. \A h \in Queued : h.file # files[i - 1]
      <3>1. \A h \in Queued : h.file \in Pending
        BY NoValueAssumption, Zenon DEF Queued, Pending
      <3>2. QED
        BY <1>1, <3>1, Zenon
    <2>3. FoldedAt(i)'
      BY <1>1, <2>1, <2>2, Zenon DEF FoldedAt
    <2>4. QED
      BY <1>1, <1>2, <2>3, Zenon DEF FoldInv
  <1>12. SyncInv' /\ CopyInv'
    BY <1>1, Zenon DEF ContentInv, SyncInv, CopyInv
  <1>13. QED
    BY <1>6, <1>8, <1>9, <1>10, <1>11, <1>12, Zenon DEF ContentInv
============================================================================

------------------------ MODULE LunMapRebuildProofs ------------------------
(* Proofs about what the files of a replica hold (LunMap): every step of a   *)
(* rebuild keeps the invariant that makes reads current.                     *)
EXTENDS LunMapContentProofs

USE SMTT(20), ZenonT(20), SMTT(30)  \* the provers, in the order they are tried, and their time limits

----------------------------------------------------------------------------
(* Rebuilding                                                                *)

\* RebuildKeeps: what a step of a rebuild keeps when it leaves the chain alone
\* (syncFiles, Reload, UpdateLUNMap).
LEMMA RebuildKeeps ==
    ASSUME StructInv, ContentInv, stage # "done", Held' = Held,
           UNCHANGED <<files, kind, vol, snaps, folded>>
    PROVE  /\ Top' = Top /\ Wants' = Wants /\ ViewInv' /\ FoldInv'
           /\ \A f, bs : HidesFrom(f, bs)' = HidesFrom(f, bs)
  <1>1. files' = files /\ kind' = kind /\ vol' = vol /\ snaps' = snaps /\ folded' = folded
    BY Zenon
  <1>2. Top' = Top /\ Wants' = Wants
    BY <1>1, Zenon DEF Top, Wants
  <1>3. ViewInv'
    BY <1>2, Zenon DEF ContentInv, ViewInv
  <1>4. FoldInv'
    BY <1>1, Zenon DEF StructInv, RebuildInv, FoldInv
  <1>5. \A f, bs : HidesFrom(f, bs)' = HidesFrom(f, bs)
    BY <1>1, <1>2, Zenon DEF HidesFrom
  <1>6. QED
    BY <1>2, <1>3, <1>4, <1>5, Zenon

\* SyncContent: a copied file holds what it was to hold (syncFiles).
LEMMA SyncContent ==
    ASSUME StructInv, ContentInv, NEW f \in Files, SyncFile(f)
    PROVE  ContentInv'
  <1>1. /\ stage = "sync" /\ stage' = stage /\ source[f] # None
        /\ files' = files /\ kind' = kind /\ flags' = flags /\ snapIndx' = snapIndx /\ location' = location
        /\ punch' = punch /\ folded' = folded /\ vol' = vol /\ snaps' = snaps /\ Queued' = Queued
        /\ data' = [data EXCEPT ![f] = source[f]] /\ source' = [source EXCEPT ![f] = None]
    BY Zenon DEF SyncFile, mapVars, holeVars, cleanVars, ghosts, Queued
  <1>2. Top' = Top /\ \A k \in 1 .. Top : files[k] \in Files
    BY <1>1, ChainFacts, Zenon DEF Top
  <1>3. \A g \in Files : Eff(g)' = Eff(g)
    BY <1>1, Zenon DEF Eff, StructInv, MapTypes, RebuildTypes
  <1>4. Held' = Held
    <2>1. \A k \in 1 .. Top : Eff(files[k])' = Eff(files[k])
      BY <1>1, <1>2, <1>3, Zenon DEF Eff
    <2>2. Held = [k \in 1 .. Top |-> Eff(files[k])] /\ Held' = [k \in 1 .. Top |-> Eff(files[k])']
      BY <1>2, Zenon DEF Held
    <2>3. QED
      BY <2>1, <2>2, Zenon
  <1>5. /\ ViewInv' /\ FoldInv' /\ \A g, bs : HidesFrom(g, bs)' = HidesFrom(g, bs)
    BY <1>1, <1>4, RebuildKeeps, Zenon
  <1>6. QueueInv'
    BY <1>1, <1>5, Zenon DEF ContentInv, QueueInv
  <1>7. LocationInv' /\ FlagInv'
    BY <1>1, <1>2, <1>4, Zenon DEF ContentInv, LocationInv, Located, FlagInv
  <1>8. SyncInv'
    <2>1. \A g \in Files : source'[g] # None => source[g] # None
      BY <1>1, Zenon DEF StructInv, RebuildTypes
    <2>2. QED
      BY <1>1, <1>2, <2>1, Zenon DEF ContentInv, SyncInv
  <1>9. CopyInv'
    BY <1>1, Zenon DEF CopyInv
  <1>10. QED
    BY <1>5, <1>6, <1>7, <1>8, <1>9, Zenon DEF ContentInv

\* ReloadContent: an empty map names no wrong file, and the flags cover every
\* snapshot that was copied (Reload).
LEMMA ReloadContent ==
    ASSUME StructInv, ContentInv, Reload
    PROVE  ContentInv'
  <1>1. /\ stage = "sync" /\ stage' = "reloaded" /\ \A f \in Files : source[f] = None
        /\ flags' = FlagsOf(files) /\ snapIndx' = LastFlag(FlagsOf(files), Top) /\ location' = NoLocation
        /\ files' = files /\ kind' = kind /\ data' = data /\ source' = source
        /\ folded' = folded /\ vol' = vol /\ snaps' = snaps /\ Queued' = Queued
    BY Zenon DEF Reload, holeVars, cleanVars, ghosts, Queued
  <1>2. Held' = Held
    BY <1>1, Zenon DEF Held, Eff, Top
  <1>3. Top' = Top /\ ViewInv' /\ FoldInv'
    BY <1>1, <1>2, RebuildKeeps, Zenon
  <1>4. Queued = {}
    BY <1>1, Zenon DEF ContentInv, SyncInv
  <1>5. QueueInv'
    BY <1>1, <1>4, Zenon DEF QueueInv
  <1>6. \A b \in Blocks : location'[b] = 0
    BY <1>1, Zenon DEF NoLocation
  <1>7. LocationInv'
    BY <1>6, Zenon DEF LocationInv
  <1>8. FlagInv'
    <2>1. SUFFICES ASSUME NEW i \in 1 .. Top - 1, kind[files[i]] = "user"
                   PROVE  snapIndx' >= i /\ flags'[i]
      BY <1>1, <1>3, Zenon DEF FlagInv
    <2>2. i \in 1 .. Top /\ Top \in Nat
      BY ChainFacts
    <2>3. flags'[i] = (kind[files[i]] # "auto")
      BY <1>1, <2>2, ChainFacts, FlagsOfIs, Zenon DEF Top
    <2>4. flags'[i]
      BY <2>1, <2>3, Zenon
    <2>5. i <= LastFlag(flags', Top) /\ LastFlag(flags', Top) \in 0 .. Top
      BY <2>2, <2>4, LastFlagIs, Zenon
    <2>6. snapIndx' = LastFlag(flags', Top)
      BY <1>1, Zenon
    <2>7. QED
      BY <2>2, <2>4, <2>5, <2>6, Zenon
  <1>9. SyncInv' /\ CopyInv'
    BY <1>1, <1>4, <1>6, Zenon DEF SyncInv, CopyInv
  <1>10. QED
    BY <1>3, <1>5, <1>7, <1>8, <1>9, Zenon DEF ContentInv

\* UpdateStartsContent: nothing was read yet, and nothing is queued
\* (UpdateLUNMap, SetReplicaMode).
LEMMA UpdateStartsContent ==
    ASSUME StructInv, ContentInv, UpdateStarts \/ BecomesRW
    PROVE  ContentInv'
  <1>1. /\ \/ stage = "reloaded" /\ stage' = "preload" /\ copy' = [loc |-> NoLocation, next |-> 1]
           \/ stage = "merged" /\ stage' = "done"
        /\ files' = files /\ kind' = kind /\ flags' = flags /\ snapIndx' = snapIndx /\ location' = location
        /\ data' = data /\ source' = source
        /\ folded' = folded /\ vol' = vol /\ snaps' = snaps /\ Queued' = Queued
    BY Zenon DEF UpdateStarts, BecomesRW, mapVars, holeVars, cleanVars, ghosts, Queued
  <1>2. Held' = Held /\ stage # "done"
    <2>1. Held' = Held
      BY <1>1, Zenon DEF Held, Eff, Top
    <2>2. QED
      BY <1>1, <2>1, Zenon
  <1>3. Top' = Top /\ ViewInv' /\ FoldInv' /\ \A f, bs : HidesFrom(f, bs)' = HidesFrom(f, bs)
    BY <1>1, <1>2, RebuildKeeps, Zenon
  <1>4. QueueInv'
    BY <1>1, <1>3, Zenon DEF ContentInv, QueueInv
  <1>5. LocationInv' /\ FlagInv'
    BY <1>1, <1>2, <1>3, Zenon DEF ContentInv, LocationInv, Located, FlagInv
  <1>6. \A f \in Files : source[f] = None
    BY <1>1, Zenon DEF ContentInv, SyncInv
  <1>7. SyncInv'
    BY <1>1, <1>3, <1>6, Zenon DEF ContentInv, SyncInv
  <1>8. CopyInv'
    <2>1. CASE stage' = "preload"
      <3>1. Queued' = {}
        BY <1>1, <2>1, Zenon DEF ContentInv, SyncInv
      <3>2. copy'.next = 1 /\ \A b \in Blocks : copy'.loc[b] = 0
        BY <1>1, <2>1 DEF NoLocation
      <3>3. \A b \in Blocks : CopiedAt(b, copy.loc[b], copy.next)'
        BY <3>1, <3>2 DEF CopiedAt
      <3>4. QED
        BY <3>3, Zenon DEF CopyInv
    <2>2. QED
      BY <2>1, Zenon DEF CopyInv
  <1>9. QED
    BY <1>3, <1>4, <1>5, <1>7, <1>8, Zenon DEF ContentInv


\* HiddenHides: during a rebuild a copy below an index that holds the block,
\* with no flag in between, is hidden from everything that is needed (preload,
\* UpdateLUNMap).
LEMMA HiddenHides ==
    ASSUME StructInv, ContentInv, stage # "done", NEW b \in Blocks, NEW k \in 1 .. Top, NEW i \in 1 .. Top,
           k < i, LastFlag(flags, i) < k, Held[i][b] # Hole \/ (i = Top /\ vol[b] = Unmapped)
    PROVE  HidesFrom(files[k], {b})
  <1>1. SUFFICES ASSUME NEW j \in 1 .. Top, files[j] = files[k], NEW n \in j .. Top, Wants[n][b] # Unmapped
                 PROVE  Covered(Held, b, j, n)
    BY Zenon DEF HidesFrom
  <1>2. j = k
    BY <1>1, SameIndex, Zenon
  <1>3. n \in 1 .. Top /\ Top \in Nat \ {0}
    BY ChainFacts
  <1>4. n = Top \/ (n \in 1 .. Top - 1 /\ kind[files[n]] = "user")
    BY <1>1, <1>3, HeldIs, Zenon
  <1>5. CASE i <= n
    <2>1. i \in j + 1 .. n
      BY <1>2, <1>5
    <2>2. Held[i][b] # Hole
      <3>1. i = Top => n = Top
        BY <1>3, <1>5
      <3>2. n = Top => vol[b] # Unmapped
        BY <1>1, HeldIs, Zenon
      <3>3. QED
        BY <3>1, <3>2, Zenon
    <2>3. QED
      BY <2>1, <2>2, Zenon DEF Covered
  <1>6. CASE n < i
    <2>1. n \in 1 .. i /\ n # Top /\ i \in Nat
      BY <1>3, <1>6
    <2>2. flags[n]
      BY <1>4, <2>1, Zenon DEF ContentInv, FlagInv
    <2>3. n <= LastFlag(flags, i) /\ LastFlag(flags, i) \in 0 .. i
      BY <2>1, <2>2, LastFlagIs, Zenon
    <2>4. FALSE
      BY <1>2, <1>3, <2>1, <2>3
    <2>5. QED
      BY <2>4, Zenon
  <1>7. QED
    BY <1>3, <1>5, <1>6

\* PreloadsContent: UpdateLUNMap reads one more file, while writes go on
\* (preload).
LEMMA PreloadsContent ==
    ASSUME StructInv, ContentInv, UpdatePreloads
    PROVE  ContentInv'
  <1>1. /\ stage = "preload" /\ stage' = stage /\ copy.next <= Top
        /\ files' = files /\ kind' = kind /\ flags' = flags /\ snapIndx' = snapIndx /\ location' = location
        /\ data' = data /\ source' = source /\ punch' = punch
        /\ folded' = folded /\ vol' = vol /\ snaps' = snaps /\ worker' = worker
    BY Zenon DEF UpdatePreloads, mapVars, cleanVars, ghosts
  <1> DEFINE i == copy.next
  <1>2. /\ copy'.next = i + 1
        /\ copy'.loc = [b \in Blocks |-> IF Holds(i, b) THEN i ELSE copy.loc[b]]
    BY UpdatePreloadsIs, Zenon
  <1>3. PICK new \in Seq(HoleType) :
            /\ holes' = holes \o new
            /\ \A m \in 1 .. Len(new) :
                  \E b \in Blocks : /\ new[m].file = files[copy.loc[b]] /\ new[m].blocks = {b}
                                    /\ LastFlag(flags, i) < copy.loc[b] /\ Holds(i, b)
                                    /\ copy.loc[b] \in 1 .. i - 1
    BY UpdatePreloadsIs, Zenon
  <1>4. /\ Top \in Nat \ {0} /\ i \in 1 .. Top /\ \A b \in Blocks : copy.loc[b] \in 0 .. i - 1
    <2>1. /\ copy \in [loc : [Blocks -> 0 .. Top], next : 1 .. Top + 1] /\ copy.next <= Top
          /\ \A b \in Blocks : copy.loc[b] < copy.next
      BY <1>1, Zenon DEF StructInv, RebuildTypes
    <2>2. QED
      BY <2>1, ChainFacts
  <1> HIDE DEF i
  <1>5. Held' = Held
    BY <1>1, Zenon DEF Held, Eff, Top
  <1>6. stage # "done" /\ stage # "sync"
    BY <1>1, Zenon
  <1>7. Top' = Top /\ ViewInv' /\ FoldInv' /\ \A f, bs : HidesFrom(f, bs)' = HidesFrom(f, bs)
    BY <1>1, <1>5, <1>6, RebuildKeeps, Zenon
  <1>8. \A b \in Blocks : Held[i][b] # Hole <=> Holds(i, b)
    BY <1>4, <1>6, AllCopied, Zenon DEF ContentInv, Holds
  <1>9. ASSUME NEW h \in Queued', h \notin Queued
        PROVE  \E b \in Blocks : /\ h.file = files[copy.loc[b]] /\ h.blocks = {b}
                                 /\ LastFlag(flags, i) < copy.loc[b] /\ Holds(i, b)
                                 /\ copy.loc[b] \in 1 .. i - 1
    <2>1. \A n \in 1 .. Len(holes') : \/ n \in 1 .. Len(holes) /\ holes'[n] = holes[n]
                                      \/ \E m \in 1 .. Len(new) : holes'[n] = new[m]
      <3>1. holes \in Seq(HoleType)
        BY Zenon DEF StructInv, HoleTypes
      <3>2. holes' = holes \o new
        BY <1>3, Zenon
      <3>3. QED
        BY <3>1, <3>2, ConcatIs, Zenon
    <2>2. \E m \in 1 .. Len(new) : h = new[m]
      BY <1>1, <1>9, <2>1, Zenon DEF Queued
    <2>3. QED
      BY <1>3, <2>2, Zenon
  <1>10. QueueInv'
    <2>1. SUFFICES ASSUME NEW h \in Queued' PROVE HidesFrom(h.file, h.blocks)
      BY <1>7, Zenon DEF QueueInv
    <2>2. CASE h \in Queued
      BY <2>2, Zenon DEF ContentInv, QueueInv
    <2>3. CASE h \notin Queued
      <3>1. PICK b \in Blocks : /\ h.file = files[copy.loc[b]] /\ h.blocks = {b}
                                /\ LastFlag(flags, i) < copy.loc[b] /\ Holds(i, b)
                                /\ copy.loc[b] \in 1 .. i - 1
        BY <1>9, <2>3, Zenon
      <3>2. copy.loc[b] \in 1 .. Top /\ copy.loc[b] < i
        BY <1>4, <3>1
      <3>3. HidesFrom(files[copy.loc[b]], {b})
        BY <1>4, <1>6, <1>8, <3>1, <3>2, HiddenHides, Zenon
      <3>4. QED
        BY <3>1, <3>3, Zenon
    <2>4. QED
      BY <2>2, <2>3, Zenon
  <1>11. LocationInv' /\ FlagInv'
    BY <1>1, <1>5, <1>7, Zenon DEF ContentInv, LocationInv, Located, FlagInv
  <1>12. SyncInv'
    BY <1>1, <1>7, Zenon DEF ContentInv, SyncInv
  <1>13. CopyInv'
    <2>1. SUFFICES ASSUME NEW b \in Blocks
                   PROVE  /\ \A j \in copy'.loc[b] + 1 .. copy'.next - 1 : Held[j][b] # Hole => j = Top /\ location[b] = Top
                          /\ copy'.loc[b] = 0 \/ Held[copy'.loc[b]][b] # Hole \/ vol[b] = Unmapped \/ location[b] = Top
                          /\ \A h \in Queued', k \in 1 .. Top : files[k] = h.file /\ b \in h.blocks => k < copy'.loc[b]
      BY <1>1, <1>5, <1>7, Zenon DEF CopyInv, CopiedAt
    <2> DEFINE d == copy'.loc[b]
               e == copy'.next
    <2> DEFINE c == copy.loc[b]
    <2>2. CopiedAt(b, c, i) /\ c \in 0 .. i - 1 /\ e = i + 1 /\ d = IF Holds(i, b) THEN i ELSE c
      BY <1>1, <1>2, <1>4, Zenon DEF ContentInv, CopyInv, i
    <2> HIDE DEF c, d, e
    <2>3. ASSUME NEW h \in Queued', NEW k \in 1 .. Top, files[k] = h.file, b \in h.blocks
          PROVE  k < c \/ (k = c /\ Holds(i, b))
      <3>1. CASE h \in Queued
        BY <2>2, <2>3, <3>1, Zenon DEF CopiedAt
      <3>2. CASE h \notin Queued
        <4>1. PICK a \in Blocks : /\ h.file = files[copy.loc[a]] /\ h.blocks = {a}
                                  /\ Holds(i, a) /\ copy.loc[a] \in 1 .. i - 1
          BY <1>9, <3>2, Zenon
        <4>2. a = b /\ copy.loc[a] \in 1 .. Top
          BY <1>4, <2>3, <4>1
        <4>3. k = copy.loc[a]
          BY <2>3, <4>1, <4>2, SameIndex, Zenon
        <4>4. QED
          BY <4>1, <4>2, <4>3, Zenon DEF c
      <3>3. QED
        BY <3>1, <3>2, Zenon
    <2>4. CASE Holds(i, b)
      <3>1. d = i /\ Held[i][b] # Hole /\ \A j \in d + 1 .. e - 1 : FALSE
        BY <1>4, <1>8, <2>2, <2>4
      <3>2. \A h \in Queued', k \in 1 .. Top : files[k] = h.file /\ b \in h.blocks => k < d
        <4>1. \A k \in 1 .. Top : k < c \/ k = c => k < d
          BY <1>4, <2>2, <3>1
        <4>2. QED
          BY <2>3, <4>1, Zenon
      <3>3. QED
        BY <3>1, <3>2, Zenon DEF d, e
    <2>5. CASE ~Holds(i, b)
      <3>1. d = c /\ Held[i][b] = Hole
        BY <1>8, <2>2, <2>5, Zenon
      <3>2. \A j \in d + 1 .. e - 1 : j = i \/ j \in c + 1 .. i - 1
        BY <1>4, <2>2, <3>1
      <3>3. \A h \in Queued', k \in 1 .. Top : files[k] = h.file /\ b \in h.blocks => k < d
        BY <2>3, <2>5, <3>1, Zenon
      <3>4. \A j \in d + 1 .. e - 1 : Held[j][b] # Hole => j = Top /\ location[b] = Top
        BY <2>2, <3>1, <3>2, Zenon DEF CopiedAt
      <3>5. d = 0 \/ Held[d][b] # Hole \/ vol[b] = Unmapped \/ location[b] = Top
        BY <2>2, <3>1, Zenon DEF CopiedAt
      <3>6. QED
        BY <3>3, <3>4, <3>5, Zenon DEF d, e
    <2>6. QED
      BY <2>4, <2>5, Zenon
  <1>14. QED
    BY <1>7, <1>10, <1>11, <1>12, <1>13, Zenon DEF ContentInv

\* MergesContent: for every block the merge leaves the last file that holds it,
\* whether UpdateLUNMap read it there or it was written meanwhile (UpdateLUNMap).
LEMMA MergesContent ==
    ASSUME StructInv, ContentInv, UpdateMerges
    PROVE  ContentInv'
  <1>1. /\ stage = "preload" /\ stage' = "merged"
        /\ files' = files /\ kind' = kind /\ flags' = flags /\ snapIndx' = snapIndx
        /\ data' = data /\ source' = source /\ punch' = punch
        /\ folded' = folded /\ vol' = vol /\ snaps' = snaps /\ worker' = worker
    BY Zenon DEF UpdateMerges, cleanVars, ghosts
  <1>2. /\ copy \in [loc : [Blocks -> 0 .. Top], next : 1 .. Top + 1] /\ copy.next > Top
        /\ location' = [b \in Blocks |-> Merged(b)]
    BY UpdateMergesIs, Zenon
  <1>3. PICK new \in Seq(HoleType) :
            /\ holes' = holes \o new
            /\ \A m \in 1 .. Len(new) :
                  \E b \in Blocks : /\ new[m].file = files[copy.loc[b]] /\ new[m].blocks = {b}
                                    /\ LastFlag(flags, Top) < copy.loc[b] /\ copy.loc[b] < location[b]
                                    /\ copy.loc[b] \in 1 .. Top - 1
    BY UpdateMergesIs, Zenon
  <1>4. Top \in Nat \ {0} /\ Top \in 1 .. Top /\ copy.next = Top + 1
    BY <1>2, ChainFacts
  <1>5. Held' = Held
    BY <1>1, Zenon DEF Held, Eff, Top
  <1>6. stage # "done" /\ stage # "sync"
    BY <1>1, Zenon
  <1>7. Top' = Top /\ ViewInv' /\ FoldInv' /\ \A f, bs : HidesFrom(f, bs)' = HidesFrom(f, bs)
    BY <1>1, <1>5, <1>6, RebuildKeeps, Zenon
  <1>8. \A b \in Blocks : location[b] \in {0, Top}
    BY <1>1 DEF ContentInv, SyncInv
  <1>9. QueueInv'
    <2>1. SUFFICES ASSUME NEW h \in Queued' PROVE HidesFrom(h.file, h.blocks)
      BY <1>7, Zenon DEF QueueInv
    <2>2. CASE h \in Queued
      BY <2>2, Zenon DEF ContentInv, QueueInv
    <2>3. CASE h \notin Queued
      <3>1. \A n \in 1 .. Len(holes') : \/ n \in 1 .. Len(holes) /\ holes'[n] = holes[n]
                                        \/ \E m \in 1 .. Len(new) : holes'[n] = new[m]
        <4>1. holes \in Seq(HoleType)
          BY Zenon DEF StructInv, HoleTypes
        <4>2. holes' = holes \o new
          BY <1>3, Zenon
        <4>3. QED
          BY <4>1, <4>2, ConcatIs, Zenon
      <3>2. PICK m \in 1 .. Len(new) : h = new[m]
        BY <1>1, <2>1, <2>3, <3>1, Zenon DEF Queued
      <3>3. PICK b \in Blocks : /\ h.file = files[copy.loc[b]] /\ h.blocks = {b}
                                /\ LastFlag(flags, Top) < copy.loc[b] /\ copy.loc[b] < location[b]
                                /\ copy.loc[b] \in 1 .. Top - 1
        BY <1>3, <3>2, Zenon
      <3>4. location[b] = Top /\ copy.loc[b] \in 1 .. Top /\ copy.loc[b] < Top /\ Top # 0 /\ Top # 1
        BY <1>4, <1>8, <3>3
      <3>5. vol[b] = Unmapped \/ Held[Top][b] # Hole
        BY <3>4, Zenon DEF ContentInv, LocationInv, Located
      <3>6. HidesFrom(files[copy.loc[b]], {b})
        BY <1>4, <1>6, <3>3, <3>4, <3>5, HiddenHides, Zenon
      <3>7. QED
        BY <3>3, <3>6, Zenon
    <2>4. QED
      BY <2>2, <2>3, Zenon
  <1>10. LocationInv'
    <2>1. SUFFICES ASSUME NEW b \in Blocks, location'[b] # 0
                   PROVE  /\ \A j \in location'[b] + 1 .. Top : Held[j][b] = Hole
                          /\ vol[b] = Unmapped \/ location'[b] = 1 \/ Held[location'[b]][b] # Hole
      BY <1>1, <1>5, <1>7, Zenon DEF LocationInv, Located
    <2> DEFINE c == copy.loc[b]
    <2>2. c \in 0 .. Top /\ location[b] \in {0, Top} /\ CopiedAt(b, c, copy.next)
          /\ location'[b] = IF c # 0 /\ location[b] <= c THEN c ELSE location[b]
      <3>1. c \in 0 .. Top /\ location'[b] = Merged(b)
        BY <1>2, Zenon
      <3>2. CopiedAt(b, c, copy.next)
        BY <1>1, Zenon DEF ContentInv, CopyInv
      <3>3. QED
        BY <1>8, <3>1, <3>2, Zenon DEF Merged
    <2> HIDE DEF c
    <2>3. CASE location[b] = Top
      <3>1. location'[b] = location[b] /\ location[b] # 0
        BY <1>4, <2>2, <2>3
      <3>2. QED
        BY <3>1, Zenon DEF ContentInv, LocationInv, Located
    <2>4. CASE location[b] = 0
      <3>1. location'[b] = c /\ c # 0 /\ location[b] # Top /\ Top = copy.next - 1
        BY <1>4, <2>1, <2>2, <2>4
      <3>2. QED
        BY <2>2, <3>1, Zenon DEF CopiedAt
    <2>5. QED
      BY <2>2, <2>3, <2>4, Zenon
  <1>11. FlagInv'
    <2>1. stage' # "done"
      BY <1>1, Zenon
    <2>2. QED
      BY <1>1, <1>6, <1>7, <2>1, Zenon DEF ContentInv, FlagInv
  <1>12. SyncInv' /\ CopyInv'
    BY <1>1, Zenon DEF ContentInv, SyncInv, CopyInv
  <1>13. QED
    BY <1>7, <1>9, <1>10, <1>11, <1>12, Zenon DEF ContentInv
============================================================================

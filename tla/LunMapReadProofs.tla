------------------------- MODULE LunMapReadProofs --------------------------
(* Proofs about what a replica reads (LunMap): as long as no write replaces  *)
(* blocks of different files, no single sector is written during a rebuild   *)
(* and no hole races a fold, reads are current and snapshots stay intact.    *)
EXTENDS LunMapRebuildProofs

USE SMTT(20), ZenonT(20), SMTT(30)  \* the provers, in the order they are tried, and their time limits

----------------------------------------------------------------------------
(* Removing, reverting and opening                                           *)

\* RemoveContent: a folded snapshot leaves the chain and nothing reads
\* differently, the map and the flags moved down with the files (removeDiskNode,
\* RemoveIndex).
LEMMA RemoveContent ==
    ASSUME StructInv, ContentInv, FinishRemove
    PROVE  ContentInv'
  <1>1. /\ kind' = kind /\ stage' = stage /\ source' = source /\ copy' = copy /\ punch' = punch
        /\ vol' = vol /\ snaps' = snaps /\ data' = data /\ folded' = None /\ Queued' = Queued
    BY Zenon DEF FinishRemove, rebuildVars, holeVars, ghosts, Queued
  <1>2. Queued = {} /\ folded # None /\ ~Unlocked
    <2>1. Queued = {} /\ folded \in Files /\ ~Unlocked
      BY FinishRemoveIs, Zenon
    <2>2. QED
      BY <2>1, NoValueAssumption, Zenon
  <1>3. stage = "done"
    BY <1>2, Zenon DEF StructInv, RebuildInv
  <1>4. Top \in Nat \ {0}
    BY ChainFacts, Zenon
  <1>5. PICK i \in 2 .. Top - 1 : FoldedAt(i)
    BY <1>2, Zenon DEF ContentInv, FoldInv
  <1>6. i \in 1 .. Top - 1 /\ i \in 1 .. Top /\ i - 1 \in 1 .. Top - 1 /\ files[i] = folded
    BY <1>4, <1>5 DEF FoldedAt
  <1>7. /\ Top' = Top - 1
        /\ \A k \in 1 .. Top - 1 : files'[k] = IF k < i THEN files[k] ELSE files[k + 1]
        /\ \A k \in 1 .. Top - 1 : flags'[k] = IF k < i THEN flags[k] ELSE flags[k + 1]
        /\ location' = RemoveIndex(i)
        /\ LastFlag(flags', Top - 1) = 0 \/ snapIndx' = LastFlag(flags', Top - 1)
    <2>1. PICK m \in 1 .. Top - 1 :
              /\ files[m] = folded
              /\ Top' = Top - 1
              /\ \A k \in 1 .. Top - 1 : files'[k] = IF k < m THEN files[k] ELSE files[k + 1]
              /\ \A k \in 1 .. Top - 1 : flags'[k] = IF k < m THEN flags[k] ELSE flags[k + 1]
              /\ location' = RemoveIndex(m)
              /\ LastFlag(flags', Top - 1) = 0 \/ snapIndx' = LastFlag(flags', Top - 1)
      BY <1>6, FinishRemoveIs, Zenon
    <2>2. m \in 1 .. Top
      BY <1>4
    <2>3. m = i
      BY <1>6, <2>1, <2>2, SameIndex, Zenon
    <2>4. QED
      BY <2>1, <2>3, Zenon
  <1> DEFINE old(k) == IF k < i THEN k ELSE k + 1
  <1>8. \A k \in 1 .. Top - 1 : old(k) \in 1 .. Top /\ old(k) # i /\ (old(k) = Top <=> k = Top - 1)
    BY <1>4, <1>5
  <1>9. \A k \in 1 .. Top - 1 : files'[k] = files[old(k)] /\ flags'[k] = flags[old(k)]
    BY <1>7, Zenon
  <1>10. \A k \in 1 .. Top - 1 : Held'[k] = Held[old(k)]
    <2>1. /\ \A k \in 1 .. Top' : Held'[k] = IF source[files'[k]] # None THEN source[files'[k]] ELSE data[files'[k]]
          /\ \A k \in 1 .. Top : Held[k] = IF source[files[k]] # None THEN source[files[k]] ELSE data[files[k]]
      BY <1>1, Zenon DEF Held, Eff
    <2> HIDE DEF old
    <2>2. Top' = Top - 1
      BY <1>7, Zenon
    <2>3. QED
      BY <1>8, <1>9, <2>1, <2>2
  <1>11. \A k \in 1 .. Top - 1 : Wants'[k] = Wants[old(k)]
    <2>1. /\ \A k \in 1 .. Top' : Wants'[k] = IF k = Top' THEN vol ELSE IF kind[files'[k]] = "user" THEN snaps[files'[k]]
                                              ELSE [b \in Blocks |-> Unmapped]
          /\ \A k \in 1 .. Top : Wants[k] = IF k = Top THEN vol ELSE IF kind[files[k]] = "user" THEN snaps[files[k]]
                                            ELSE [b \in Blocks |-> Unmapped]
      BY <1>1, Zenon DEF Wants
    <2> HIDE DEF old
    <2>2. Top' = Top - 1
      BY <1>7
    <2>3. QED
      BY <1>8, <1>9, <2>1, <2>2
  <1>12. \A b \in Blocks : Held[i][b] # Hole => Held[i - 1][b] = Held[i][b]
    BY <1>5, Zenon DEF FoldedAt
  <1>13. \A k \in 1 .. Top - 1, b \in Blocks : Held'[k][b] = IF k < i THEN Held[k][b] ELSE Held[k + 1][b]
    BY <1>10, Zenon
  <1>14. ViewInv'
    <2>1. SUFFICES ASSUME NEW k \in 1 .. Top - 1, NEW b \in Blocks, Wants'[k][b] # Unmapped
                   PROVE  Reads(Held', b, k, Wants'[k][b])
      BY <1>7, Zenon DEF ViewInv
    <2>2. Wants'[k][b] = Wants[old(k)][b]
      BY <1>11, Zenon
    <2>3. Reads(Held, b, old(k), Wants[old(k)][b])
      BY <1>8, <2>1, <2>2, Zenon DEF ContentInv, ViewInv
    <2>4. k \in Nat /\ \A m \in 1 .. k : m \in 1 .. Top - 1
      BY <1>4
    <2>5. CASE k < i
      <3>1. old(k) = k /\ \A m \in 1 .. k : m < i
        BY <1>6, <2>5
      <3>2. \A m \in 1 .. k : Held'[m][b] = Held[m][b] \/ Covered(Held, b, m, k)
        BY <1>13, <2>4, <3>1, Zenon
      <3>3. QED
        BY <2>2, <2>3, <2>4, <3>1, <3>2, ReadsKept, Zenon
    <2>6. CASE ~(k < i)
      <3>1. old(k) = k + 1 /\ i \in 2 .. k
        BY <1>5, <2>6
      <3>2. \A m \in 1 .. k : Held'[m][b] = IF m < i THEN Held[m][b] ELSE Held[m + 1][b]
        BY <1>13, <2>4, Zenon
      <3>3. Reads(Held, b, k + 1, Wants'[k][b])
        BY <2>2, <2>3, <3>1, Zenon
      <3>4. QED
        BY <1>12, <2>4, <3>1, <3>2, <3>3, ReadsWithout, Zenon
    <2>7. QED
      BY <2>5, <2>6, Zenon
  <1>15. QueueInv' /\ FoldInv'
    BY <1>1, <1>2, Zenon DEF QueueInv, FoldInv
  <1>16. LocationInv'
    <2>1. SUFFICES ASSUME NEW b \in Blocks, location'[b] # 0
                   PROVE  /\ \A j \in location'[b] + 1 .. Top - 1 : Held'[j][b] = Hole
                          /\ vol[b] = Unmapped \/ location'[b] = 1 \/ Held'[location'[b]][b] # Hole
      BY <1>1, <1>7, Zenon DEF LocationInv, Located
    <2>2. location[b] \in 0 .. Top /\ location'[b] = IF location[b] >= i THEN location[b] - 1 ELSE location[b]
      BY <1>7, Zenon DEF RemoveIndex, StructInv, MapTypes
    <2>3. location[b] \in 1 .. Top
      BY <2>1, <2>2, <1>5
    <2>4. /\ \A j \in location[b] + 1 .. Top : Held[j][b] = Hole
          /\ vol[b] = Unmapped \/ location[b] = 1 \/ Held[location[b]][b] # Hole
      <3>1. location[b] # 0
        BY <2>3
      <3>2. QED
        BY <3>1, Zenon DEF ContentInv, LocationInv, Located
    <2>5. ASSUME NEW j \in location'[b] + 1 .. Top - 1
          PROVE  Held'[j][b] = Hole
      <3>1. j \in 1 .. Top - 1 /\ old(j) \in location[b] + 1 .. Top
        BY <1>4, <1>5, <2>2, <2>3
      <3>2. QED
        BY <1>10, <2>4, <3>1, Zenon
    <2>6. location'[b] \in 1 .. Top - 1 /\ (location[b] # i => old(location'[b]) = location[b])
          /\ (location[b] = i => old(location'[b]) = i - 1)
      BY <1>4, <1>5, <2>2, <2>3
    <2>7. CASE location[b] # i
      <3>1. Held'[location'[b]][b] = Held[location[b]][b]
        BY <1>10, <2>6, <2>7, Zenon
      <3>2. location[b] = 1 => location'[b] = 1
        BY <1>5, <2>2
      <3>3. QED
        BY <2>4, <2>5, <3>1, <3>2, Zenon
    <2>8. CASE location[b] = i
      <3>1. Held'[location'[b]][b] = Held[i - 1][b] /\ i # 1
        BY <1>5, <1>10, <2>6, <2>8
      <3>2. QED
        BY <1>12, <2>4, <2>5, <2>8, <3>1, Zenon
    <2>9. QED
      BY <2>7, <2>8, Zenon
  <1>17. FlagInv'
    <2>1. SUFFICES ASSUME NEW k \in 1 .. Top - 2, kind[files'[k]] = "user"
                   PROVE  snapIndx' >= k /\ (flags'[k] \/ flags'[k + 1])
      <3>1. Top' - 1 = Top - 2
        BY <1>4, <1>7
      <3>2. QED
        BY <1>1, <1>3, <3>1, Zenon DEF FlagInv
    <2>2. k \in 1 .. Top - 1 /\ k + 1 \in 1 .. Top - 1 /\ old(k) \in 1 .. Top - 1
      BY <1>4, <1>5
    <2>3. kind[files[old(k)]] = "user"
      BY <1>9, <2>1, <2>2, Zenon
    <2>4. old(k) # i - 1 /\ old(k) # i
      BY <1>5, <2>3, Zenon DEF FoldedAt
    <2>5. old(k + 1) = old(k) + 1
      BY <1>5, <2>4
    <2>6. flags[old(k)] \/ flags[old(k) + 1]
      BY <2>2, <2>3, Zenon DEF ContentInv, FlagInv
    <2>7. flags'[k] \/ flags'[k + 1]
      BY <1>9, <2>2, <2>5, <2>6, Zenon
    <2>8. LastFlag(flags', Top - 1) >= k /\ LastFlag(flags', Top - 1) # 0
      <3>1. Top - 1 \in Nat
        BY <1>4
      <3>2. /\ LastFlag(flags', Top - 1) \in 0 .. Top - 1
            /\ \A n \in 1 .. Top - 1 : flags'[n] => n <= LastFlag(flags', Top - 1)
        BY <3>1, LastFlagIs, Zenon
      <3>3. QED
        BY <2>2, <2>7, <3>2
    <2>9. QED
      BY <1>7, <2>7, <2>8, Zenon
  <1>18. SyncInv' /\ CopyInv'
    BY <1>1, <1>3, Zenon DEF ContentInv, SyncInv, CopyInv
  <1>19. QED
    BY <1>14, <1>15, <1>16, <1>17, <1>18, Zenon DEF ContentInv


\* OpenContent: a chain that is read back has its map and flags from the files
\* themselves, and the holes preload makes are hidden from every snapshot the
\* user keeps (openLiveChain, PreloadLunMap).
LEMMA OpenContent ==
    ASSUME StructInv, StructInv', ContentInv, NEW chain \in Seq(Files), Len(chain) # 0,
           NEW queued \in Seq(HoleType), OpenChain(chain, queued),
           stage = "done", stage' = stage, kind' = kind, data' = data, source' = source, folded' = None
    PROVE  /\ Top' = Len(chain) /\ \A k \in 1 .. Top' : files'[k] = chain[k] /\ Held'[k] = data[chain[k]]
           /\ LocationInv' /\ FlagInv' /\ FoldInv' /\ SyncInv' /\ CopyInv'
           /\ \E new \in Seq(HoleType) :
                 /\ holes' = queued \o new
                 /\ \A m \in 1 .. Len(new) : HidesFrom(new[m].file, new[m].blocks)'
  <1>1. /\ files' = chain /\ Top' = Len(chain)
        /\ flags' = FlagsOf(chain) /\ snapIndx' = LastFlag(flags', Len(chain))
        /\ LastOf(chain, Len(chain), location') /\ location' \in [Blocks -> 0 .. Len(chain)]
    BY OpenChainIs, Zenon
  <1>2. PICK new \in Seq(HoleType) :
            /\ holes' = queued \o new
            /\ \A m \in 1 .. Len(new) : Hidden(new[m], chain, flags', Len(chain))
    BY OpenChainIs, Zenon
  <1>3. Top' \in Nat \ {0} /\ \A k \in 1 .. Top' : chain[k] \in Files
    BY <1>1
  <1>4. \A f \in Files : source[f] = None
    BY Zenon DEF ContentInv, SyncInv
  <1>5. \A k \in 1 .. Top' : files'[k] = chain[k] /\ Held'[k] = data[chain[k]]
    <2>1. \A k \in 1 .. Top' : Held'[k] = IF source'[files'[k]] # None THEN source'[files'[k]] ELSE data'[files'[k]]
      BY Zenon DEF Held, Eff
    <2>2. QED
      BY <1>1, <1>3, <1>4, <2>1, Zenon
  <1>6. \A k \in 1 .. Top' : flags'[k] = (kind[chain[k]] # "auto")
    BY <1>1, FlagsOfIs, Zenon
  <1>7. LocationInv'
    <2>1. SUFFICES ASSUME NEW b \in Blocks, location'[b] # 0
                   PROVE  /\ \A j \in location'[b] + 1 .. Top' : Held'[j][b] = Hole
                          /\ Held'[location'[b]][b] # Hole
      BY Zenon DEF LocationInv, Located
    <2>2. location'[b] \in 1 .. Top' /\ \A j \in location'[b] + 1 .. Top' : j \in 1 .. Top'
      BY <1>1, <1>3, <2>1
    <2>3. /\ data[chain[location'[b]]][b] # Hole
          /\ \A j \in location'[b] + 1 .. Top' : data[chain[j]][b] = Hole
      BY <1>1, <2>1, Zenon DEF LastOf
    <2>4. QED
      BY <1>5, <2>2, <2>3, Zenon
  <1>8. FlagInv'
    <2>1. SUFFICES ASSUME NEW i \in 1 .. Top' - 1, kind[files'[i]] = "user"
                   PROVE  snapIndx' >= i /\ flags'[i]
      BY Zenon DEF FlagInv
    <2>2. i \in 1 .. Top'
      <3>1. \A t \in Nat : \A x \in 1 .. t - 1 : x \in 1 .. t
        OBVIOUS
      <3>2. Top' \in Nat
        BY <1>3, Zenon
      <3>3. QED
        BY <3>1, <3>2, Zenon
    <2>3. flags'[i]
      BY <1>5, <1>6, <2>1, <2>2, Zenon
    <2>4. i <= LastFlag(flags', Len(chain)) /\ LastFlag(flags', Len(chain)) \in 0 .. Len(chain)
      BY <1>1, <2>2, <2>3, LastFlagIs
    <2>5. QED
      BY <1>1, <2>3, <2>4, Zenon
  <1>9. FoldInv' /\ SyncInv' /\ CopyInv'
    BY <1>4, Zenon DEF FoldInv, SyncInv, CopyInv
  <1>10. ASSUME NEW m \in 1 .. Len(new)
         PROVE  HidesFrom(new[m].file, new[m].blocks)'
    <2>1. PICK k \in 1 .. Top', i \in 1 .. Top', b \in Blocks :
              /\ k < i /\ new[m].file = chain[k] /\ new[m].blocks = {b}
              /\ LastFlag(flags', i) < k /\ data[chain[i]][b] # Hole
      BY <1>1, <1>2, Zenon DEF Hidden
    <2>2. SUFFICES ASSUME NEW j \in 1 .. Top', files'[j] = chain[k], NEW n \in j .. Top', Wants'[n][b] # Unmapped
                   PROVE  Covered(Held', b, j, n)
      BY <2>1, Zenon DEF HidesFrom
    <2>3. j = k
      <3>1. \A p, q \in 1 .. Top' : files'[p] = files'[q] => p = q
        BY Zenon DEF StructInv, ChainInv
      <3>2. QED
        BY <1>5, <2>2, <3>1, Zenon
    <2>4. CASE i <= n
      <3>1. i \in j + 1 .. n
        BY <2>1, <2>3, <2>4
      <3>2. QED
        BY <1>5, <2>1, <3>1, Zenon DEF Covered
    <2>5. CASE n < i
      <3>1. n \in 1 .. Top' /\ n \in 1 .. i /\ n # Top' /\ i \in Nat
        BY <1>3, <2>5
      <3>2. kind[files'[n]] = "user"
        <4>1. Wants'[n] = IF n = Top' THEN vol' ELSE IF kind[files'[n]] = "user" THEN snaps'[files'[n]]
                          ELSE [c \in Blocks |-> Unmapped]
          BY <3>1, Zenon DEF Wants
        <4>2. [c \in Blocks |-> Unmapped][b] = Unmapped
          BY Zenon
        <4>3. QED
          BY <2>2, <3>1, <4>1, <4>2, Zenon
      <3>3. flags'[n]
        BY <1>5, <1>6, <3>1, <3>2, Zenon
      <3>4. n <= LastFlag(flags', i) /\ LastFlag(flags', i) \in 0 .. i
        BY <3>1, <3>3, LastFlagIs, Zenon
      <3>5. FALSE
        BY <2>1, <2>3, <3>1, <3>4
      <3>6. QED
        BY <3>5, Zenon
    <2>6. QED
      BY <2>1, <2>2, <2>4, <2>5
  <1>11. QED
    BY <1>1, <1>2, <1>5, <1>7, <1>8, <1>9, <1>10, Zenon


\* RevertContent: after a revert the volume reads as the snapshot, through a
\* new head that holds nothing (revertDisk).
LEMMA RevertContent ==
    ASSUME ~FoldRacesHoles, StructInv, StructInv', ContentInv, NEW i \in 1 .. Top, Revert(i)
    PROVE  ContentInv'
  <1> DEFINE chain == Append(SubSeq(files, 1, i), used + 1)
  <1>1. /\ stage = "done" /\ used < MaxFiles /\ kind[files[i]] = "user"
        /\ OpenChain(chain, holes) /\ vol' = snaps[files[i]]
        /\ kind' = kind /\ data' = data /\ snaps' = snaps /\ stage' = stage /\ source' = source
        /\ worker' = worker /\ folded' = None
    BY Zenon DEF Revert, rebuildVars, cleanVars, IsRW
  <1>2. /\ Top \in Nat \ {0} /\ Top \in 1 .. Top /\ used \in Nat /\ used + 1 \in Files /\ used + 1 > used
        /\ holes \in Seq(HoleType)
    <2>1. Top \in Nat \ {0} /\ Top \in 1 .. Top /\ used \in Nat /\ used < MaxFiles /\ holes \in Seq(HoleType)
      BY <1>1, ChainFacts, Zenon DEF StructInv, HoleTypes
    <2>2. used + 1 \in Files /\ used + 1 > used
      BY <2>1, LunMapAssumption DEF Files
    <2>3. QED
      BY <2>1, <2>2, Zenon
  <1>3. /\ chain \in Seq(Files) /\ Len(chain) = i + 1 /\ Len(chain) # 0 /\ chain[i + 1] = used + 1
        /\ \A k \in 1 .. i : chain[k] = files[k]
    BY <1>2, ChainFacts DEF Top
  <1> HIDE DEF chain
  <1>4. /\ Top' = i + 1 /\ \A k \in 1 .. Top' : files'[k] = chain[k] /\ Held'[k] = data[chain[k]]
        /\ LocationInv' /\ FlagInv' /\ FoldInv' /\ SyncInv' /\ CopyInv'
    BY <1>1, <1>2, <1>3, OpenContent, Zenon
  <1>5. PICK new \in Seq(HoleType) :
            /\ holes' = holes \o new
            /\ \A m \in 1 .. Len(new) : HidesFrom(new[m].file, new[m].blocks)'
    BY <1>1, <1>2, <1>3, OpenContent
  <1>6. i # Top
    BY <1>1, Zenon DEF StructInv, ChainInv
  <1>7. /\ i \in Nat /\ i + 1 \in 1 .. Top' /\ \A k \in 1 .. i : k \in 1 .. Top' /\ k \in 1 .. Top - 1 /\ k \in 1 .. Top
        /\ \A k \in 1 .. Top' : k \in 1 .. i \/ k = i + 1
    BY <1>2, <1>4, <1>6
  <1>8. (\A k \in 1 .. i : files'[k] = files[k] /\ Held'[k] = Held[k]) /\ files'[i + 1] = used + 1
    <2>1. \A k \in 1 .. Top : Held[k] = data[files[k]]
      BY <1>1, AllCopied, Zenon DEF ContentInv
    <2>2. QED
      BY <1>3, <1>4, <1>7, <2>1
  <1>9. \A b \in Blocks : Held'[i + 1][b] = Hole
    <2>1. Held'[i + 1] = data[used + 1]
      BY <1>3, <1>4, <1>7
    <2>2. data[used + 1] = NoData
      BY <1>2, Zenon DEF StructInv, ChainInv
    <2>3. QED
      BY <2>1, <2>2, Zenon DEF NoData
  <1>10. (\A k \in 1 .. i : Wants'[k] = Wants[k]) /\ Wants'[i + 1] = Wants[i]
    <2>1. /\ \A k \in 1 .. Top' : Wants'[k] = IF k = Top' THEN vol' ELSE IF kind[files'[k]] = "user" THEN snaps[files'[k]]
                                              ELSE [b \in Blocks |-> Unmapped]
          /\ \A k \in 1 .. Top : Wants[k] = IF k = Top THEN vol ELSE IF kind[files[k]] = "user" THEN snaps[files[k]]
                                            ELSE [b \in Blocks |-> Unmapped]
      BY <1>1, Zenon DEF Wants
    <2>2. \A k \in 1 .. i : k # i + 1 /\ k # Top
      BY <1>2, <1>6
    <2>3. \A k \in 1 .. i : Wants'[k] = Wants[k]
      BY <1>4, <1>7, <1>8, <2>1, <2>2
    <2>4. Wants'[i + 1] = snaps[files[i]]
      BY <1>1, <1>4, <1>7, <2>1, Zenon
    <2>5. Wants[i] = snaps[files[i]]
      BY <1>1, <1>6, <2>1, Zenon
    <2>6. QED
      BY <2>3, <2>4, <2>5, Zenon
  <1>11. ViewInv'
    <2>1. SUFFICES ASSUME NEW k \in 1 .. Top', NEW b \in Blocks, Wants'[k][b] # Unmapped
                   PROVE  Reads(Held', b, k, Wants'[k][b])
      BY Zenon DEF ViewInv
    <2>2. CASE k \in 1 .. i
      <3>1. Reads(Held, b, k, Wants[k][b])
        BY <1>7, <1>10, <2>1, <2>2, Zenon DEF ContentInv, ViewInv
      <3>2. k \in Nat /\ \A m \in 1 .. k : m \in 1 .. i
        BY <2>2
      <3>3. \A m \in 1 .. k : Held'[m][b] = Held[m][b] \/ Covered(Held, b, m, k)
        BY <1>8, <3>2, Zenon
      <3>4. QED
        BY <1>10, <2>2, <3>1, <3>2, <3>3, ReadsKept, Zenon
    <2>3. CASE k = i + 1
      <3>1. Reads(Held, b, i, Wants[i][b])
        BY <1>10, <2>1, <2>3, Zenon DEF ContentInv, ViewInv
      <3>2. \A m \in 1 .. i : Held'[m][b] = Held[m][b]
        BY <1>8, Zenon
      <3>3. QED
        BY <1>7, <1>9, <1>10, <2>3, <3>1, <3>2, ReadsAbove, Zenon
    <2>4. QED
      BY <1>7, <2>2, <2>3, Zenon
  <1>12. ASSUME NEW h \in Queued
         PROVE  HidesFrom(h.file, h.blocks)'
    <2>1. SUFFICES ASSUME NEW b \in h.blocks, NEW k \in 1 .. Top', files'[k] = h.file,
                          NEW n \in k .. Top', Wants'[n][b] # Unmapped
                   PROVE  Covered(Held', b, k, n)
      BY Zenon DEF HidesFrom
    <2>2. k \in 1 .. i /\ files[k] = h.file
      <3>1. h.file <= used
        BY Zenon DEF StructInv, ChainInv
      <3>2. k # i + 1
        BY <1>2, <1>8, <2>1, <3>1
      <3>3. QED
        BY <1>7, <1>8, <2>1, <3>2, Zenon
    <2>3. PICK m \in k .. i : m <= n /\ Wants[m][b] # Unmapped /\ n \in Nat
      <3>1. n \in Nat /\ (n \in k .. i \/ n = i + 1) /\ (n \in k .. i => n \in 1 .. i /\ n <= n)
            /\ i \in k .. i /\ i <= i + 1
        BY <1>4, <1>7, <2>2
      <3>2. QED
        BY <1>10, <2>1, <3>1, Zenon
    <2>4. Covered(Held, b, k, m)
      <3>1. k \in 1 .. Top /\ m \in k .. Top
        BY <1>2, <1>7, <2>2
      <3>2. QED
        BY <2>2, <2>3, <3>1, Zenon DEF ContentInv, QueueInv, HidesFrom
    <2>5. \A j \in k + 1 .. m : j \in k + 1 .. n /\ j \in 1 .. i
      BY <1>7, <2>2, <2>3
    <2>6. QED
      BY <1>8, <2>4, <2>5, Zenon DEF Covered
  <1>13. QueueInv'
    <2>1. \A n \in 1 .. Len(holes') : \/ n \in 1 .. Len(holes) /\ holes'[n] = holes[n]
                                      \/ \E m \in 1 .. Len(new) : holes'[n] = new[m]
      BY <1>2, <1>5, ConcatIs, Zenon
    <2>2. \A h \in Queued' : h \in Queued \/ \E m \in 1 .. Len(new) : h = new[m]
      BY <1>1, <2>1, Zenon DEF Queued
    <2>3. QED
      BY <1>5, <1>12, <2>2, Zenon DEF QueueInv
  <1>14. QED
    BY <1>4, <1>11, <1>13, Zenon DEF ContentInv

\* RestartContent: a new process reads the same chain, and has only the holes
\* it finds itself (construct).
LEMMA RestartContent ==
    ASSUME StructInv, StructInv', ContentInv, Restart
    PROVE  ContentInv'
  <1>1. /\ stage = "done" /\ OpenChain(files, <<>>) /\ worker' = None /\ folded' = None
        /\ kind' = kind /\ data' = data /\ snaps' = snaps /\ vol' = vol /\ stage' = stage /\ source' = source
    BY Zenon DEF Restart, rebuildVars, ghosts, IsRW
  <1> DEFINE none == <<>>
  <1>2. files \in Seq(Files) /\ Len(files) # 0 /\ none \in Seq(HoleType) /\ Top = Len(files) /\ OpenChain(files, none)
    BY <1>1, ChainFacts DEF Top
  <1> HIDE DEF none
  <1>3. /\ Top' = Len(files) /\ \A k \in 1 .. Top' : files'[k] = files[k] /\ Held'[k] = data[files[k]]
        /\ LocationInv' /\ FlagInv' /\ FoldInv' /\ SyncInv' /\ CopyInv'
    BY <1>1, <1>2, OpenContent, Zenon
  <1>4. PICK new \in Seq(HoleType) :
            /\ holes' = none \o new
            /\ \A m \in 1 .. Len(new) : HidesFrom(new[m].file, new[m].blocks)'
    BY <1>1, <1>2, OpenContent
  <1>5. holes' = new
    BY <1>4 DEF none
  <1>6. QueueInv'
    <2>1. \A h \in Queued' : \E m \in 1 .. Len(new) : h = new[m]
      BY <1>1, <1>5, NoValueAssumption, Zenon DEF Queued
    <2>2. QED
      BY <1>4, <2>1, Zenon DEF QueueInv
  <1>7. Top' = Top /\ files' = files
    BY <1>1, <1>2, <1>3, Zenon DEF OpenChain
  <1>8. \A f \in Files : source[f] = None
    BY <1>1, Zenon DEF ContentInv, SyncInv
  <1>9. Held' = Held /\ Wants' = Wants
    BY <1>1, <1>7, Zenon DEF Held, Wants, Eff
  <1>10. ViewInv'
    BY <1>7, <1>9, Zenon DEF ContentInv, ViewInv
  <1>11. QED
    BY <1>3, <1>6, <1>10, Zenon DEF ContentInv


----------------------------------------------------------------------------
(* The theorems                                                              *)

\* InitNewContent: a volume that holds nothing reads as zeros (construct).
LEMMA InitNewContent ==
    ASSUME Init, InitNew, StructInv
    PROVE  ContentInv
  <1>1. /\ location = NoLocation /\ data = [f \in Files |-> NoData] /\ holes = <<>> /\ worker = None
        /\ folded = None /\ files = <<1>> /\ stage = "done" /\ source = [f \in Files |-> None]
        /\ vol = [b \in Blocks |-> Zeros]
    BY Zenon DEF Init, InitNew
  <1>2. Top = 1 /\ Top \in 1 .. Top /\ \A k \in 1 .. Top : k = Top /\ files[k] \in Files
    BY <1>1, ChainFacts DEF Top
  <1>3. Queued = {}
    <2>1. \A k \in 1 .. Len(holes) : FALSE
      BY <1>1
    <2>2. QED
      BY <1>1, <2>1, NoValueAssumption, Zenon DEF Queued
  <1>4. \A k \in 1 .. Top, b \in Blocks : Held[k][b] = Hole
    <2>1. \A f \in Files, b \in Blocks : Eff(f)[b] = Hole
      BY <1>1, Zenon DEF Eff, NoData
    <2>2. \A k \in 1 .. Top : Held[k] = Eff(files[k])
      BY HeldIs, Zenon
    <2>3. QED
      <3>1. \A k \in 1 .. Top : files[k] \in Files
        BY <1>2, Zenon
      <3>2. QED
        BY <2>1, <2>2, <3>1
  <1>5. Wants[Top] = vol /\ \A b \in Blocks : vol[b] = Zeros
    BY <1>1, HeldIs, Zenon
  <1>6. ViewInv
    BY <1>2, <1>4, <1>5, Zenon DEF ViewInv, Reads
  <1>7. QueueInv /\ FoldInv
    BY <1>1, <1>3, Zenon DEF QueueInv, FoldInv
  <1>8. LocationInv
    BY <1>1, Zenon DEF LocationInv, NoLocation
  <1>9. FlagInv
    BY <1>2 DEF FlagInv
  <1>10. SyncInv /\ CopyInv
    BY <1>1, Zenon DEF SyncInv, CopyInv
  <1>11. QED
    BY <1>6, <1>7, <1>8, <1>9, <1>10, Zenon DEF ContentInv

\* InitRebuildContent: what is still to be copied reads as the healthy replica
\* (AddReplica).
LEMMA InitRebuildContent ==
    ASSUME Init, InitRebuild, StructInv
    PROVE  ContentInv
  <1> DEFINE copied(v) == [s \in Sectors |-> v]
             base == [b \in Blocks |-> copied(-1)]
             over(later) == [b \in Blocks |-> IF b \in later THEN copied(-2) ELSE Hole]
  <1>1. PICK later \in SUBSET Blocks, byUser \in BOOLEAN :
           /\ files = <<1, 2, 3>> /\ stage = "sync" /\ punch = FALSE
           /\ kind = [f \in Files |-> IF f = 1 /\ byUser THEN "user" ELSE "auto"]
           /\ source = [f \in Files |-> CASE f = 1 -> base [] f = 2 -> over(later) [] OTHER -> None]
           /\ vol = [b \in Blocks |-> IF b \in later THEN copied(-2) ELSE copied(-1)]
           /\ snaps = [f \in Files |-> IF f = 1 /\ byUser THEN base ELSE None]
    BY Zenon DEF InitRebuild
  <1>2. /\ flags = FlagsOf(files) /\ snapIndx = LastFlag(flags, Top)
        /\ location = NoLocation /\ data = [f \in Files |-> NoData] /\ holes = <<>> /\ worker = None /\ folded = None
    BY Zenon DEF Init
  <1>3. copied(-1) # Hole /\ copied(-2) # Hole
    <2>1. -1 \in -2 .. MaxWrites /\ -2 \in -2 .. MaxWrites
      BY LunMapAssumption
    <2>2. copied(-1) \in Value /\ copied(-2) \in Value
      BY <2>1, Zenon DEF Value
    <2>3. QED
      BY <2>2, NoValueAssumption, Zenon
  <1>4. base # None /\ over(later) # None /\ 1 \in Files /\ 2 \in Files /\ 3 \in Files
    <2>1. -1 \in -2 .. MaxWrites /\ -2 \in -2 .. MaxWrites
      BY LunMapAssumption
    <2>2. copied(-1) \in Value /\ copied(-2) \in Value
      BY <2>1, Zenon DEF Value
    <2> HIDE DEF copied
    <2>3. base \in FileData /\ over(later) \in FileData
      BY <2>2, Zenon DEF FileData
    <2>4. 1 \in Files /\ 2 \in Files /\ 3 \in Files
      BY LunMapAssumption DEF Files
    <2>5. QED
      BY <2>3, <2>4, NoValueAssumption, Zenon
  <1>5. Top = 3 /\ files[1] = 1 /\ files[2] = 2 /\ files[3] = 3
    BY <1>1, Zenon DEF Top
  <1> HIDE DEF copied
  <1>6. \A b \in Blocks : base[b] = copied(-1) /\ over(later)[b] = IF b \in later THEN copied(-2) ELSE Hole
    BY Zenon
  <1> HIDE DEF base, over
  <1>7. source[1] = base /\ source[2] = over(later) /\ source[3] = None /\ data[3] = NoData
    BY <1>1, <1>2, <1>4
  <1>8. /\ Held[1] = base /\ Held[2] = over(later) /\ Held[3] = NoData
        /\ \A b \in Blocks : Held[3][b] = Hole
    <2>1. Held[1] = Eff(1) /\ Held[2] = Eff(2) /\ Held[3] = Eff(3)
      BY <1>5, HeldIs
    <2>2. Eff(1) = base /\ Eff(2) = over(later) /\ Eff(3) = NoData
      BY <1>4, <1>7, Zenon DEF Eff
    <2>3. \A b \in Blocks : NoData[b] = Hole
      BY Zenon DEF NoData
    <2>4. QED
      BY <2>1, <2>2, <2>3, Zenon
  <1>9. kind[2] = "auto" /\ (kind[1] = "user" => snaps[1] = base)
    BY <1>1, <1>4
  <1>10. Queued = {}
    <2>1. \A k \in 1 .. Len(holes) : FALSE
      BY <1>2
    <2>2. QED
      BY <1>2, <2>1, NoValueAssumption, Zenon DEF Queued
  <1>11. ViewInv
    <2>1. SUFFICES ASSUME NEW k \in 1 .. Top, NEW b \in Blocks, Wants[k][b] # Unmapped
                   PROVE  Reads(Held, b, k, Wants[k][b])
      BY Zenon DEF ViewInv
    <2>2. k \in 1 .. 3 /\ (k = 1 \/ k = 2 \/ k = 3)
      BY <1>5
    <2>3. k = Top \/ (kind[files[k]] = "user" /\ Wants[k] = snaps[files[k]])
      BY <2>1, HeldIs, Zenon
    <2>4. CASE k = 1
      <3>1. Wants[1] = base /\ 1 \in 1 .. 1 /\ \A j \in 1 + 1 .. 1 : FALSE
        BY <1>5, <1>9, <2>3, <2>4
      <3>2. QED
        BY <1>3, <1>6, <1>8, <2>4, <3>1, Zenon DEF Reads
    <2>5. CASE k = 2
      BY <1>5, <1>9, <2>3, <2>5
    <2>6. CASE k = 3
      <3>1. Wants[3][b] = IF b \in later THEN copied(-2) ELSE copied(-1)
        BY <1>1, <1>5, HeldIs, Zenon
      <3>2. 1 \in 1 .. 3 /\ 2 \in 1 .. 3 /\ (\A j \in 1 + 1 .. 3 : j = 2 \/ j = 3) /\ \A j \in 2 + 1 .. 3 : j = 3
        OBVIOUS
      <3>3. CASE b \in later
        BY <1>3, <1>6, <1>8, <2>6, <3>1, <3>2, <3>3, Zenon DEF Reads
      <3>4. CASE b \notin later
        BY <1>3, <1>6, <1>8, <2>6, <3>1, <3>2, <3>4, Zenon DEF Reads
      <3>5. QED
        BY <3>3, <3>4, Zenon
    <2>7. QED
      BY <2>2, <2>4, <2>5, <2>6, Zenon
  <1>12. QueueInv /\ FoldInv
    BY <1>2, <1>10, Zenon DEF QueueInv, FoldInv
  <1>13. LocationInv
    BY <1>2, Zenon DEF LocationInv, NoLocation
  <1>14. FlagInv
    <2>1. SUFFICES ASSUME NEW k \in 1 .. Top - 1, kind[files[k]] = "user"
                   PROVE  snapIndx >= k /\ flags[k]
      BY Zenon DEF FlagInv
    <2>2. k \in 1 .. Top /\ Top \in Nat
      BY <1>5
    <2>3. flags[k] = (kind[files[k]] # "auto")
      BY <1>2, <2>2, ChainFacts, FlagsOfIs, Zenon DEF Top
    <2>4. flags[k]
      BY <2>1, <2>3, Zenon
    <2>5. k <= LastFlag(flags, Top) /\ LastFlag(flags, Top) \in 0 .. Top
      BY <2>2, <2>4, LastFlagIs, Zenon
    <2>6. QED
      BY <1>2, <2>2, <2>4, <2>5, Zenon
  <1>15. SyncInv
    <2>1. \A f \in Files : source[f] # None => f = 1 \/ f = 2
      BY <1>1, Zenon
    <2>2. \A f \in Files : source[f] # None => f < files[Top]
      BY <1>5, <2>1
    <2>3. \A b \in Blocks : location[b] = 0
      BY <1>2, Zenon DEF NoLocation
    <2>4. QED
      BY <1>1, <1>10, <2>2, <2>3, Zenon DEF SyncInv
  <1>16. CopyInv
    BY <1>1, Zenon DEF CopyInv
  <1>17. QED
    BY <1>11, <1>12, <1>13, <1>14, <1>15, <1>16, Zenon DEF ContentInv

\* NextContent: every step keeps the invariant.
LEMMA NextContent ==
    ASSUME ~MixedRuns, ~PartialInWO, ~FoldRacesHoles, StructInv, ContentInv, [Next]_vars
    PROVE  ContentInv'
  <1>1. StructInv'
    BY NextStruct, Zenon
  <1>2. ASSUME IO PROVE ContentInv'
    BY <1>2, FullWriteContent, PartialWriteContent, ReadContent, UnmapContent, Zenon DEF IO
  <1>3. ASSUME NEW op, NEW f, StartDrain(op, f) PROVE ContentInv'
    <2>1. UNCHANGED <<mapVars, data, rebuildVars, punch, folded, ghosts>> /\ holes' = holes /\ worker' = worker
      BY <1>3, Zenon DEF StartDrain
    <2>2. Queued' \subseteq Queued
      BY <2>1, Zenon DEF Queued
    <2>3. QED
      BY <2>1, <2>2, QuietContent, Zenon
  <1>4. ASSUME Chain PROVE ContentInv'
    BY <1>1, <1>3, <1>4, SnapshotContent, DeleteContent, RevertContent, RestartContent, Zenon DEF Chain, Close
  <1>5. ASSUME Receive \/ SendEmptyHole \/ FinishClose PROVE ContentInv'
    <2>1. Queued' \subseteq Queued
      <3>1. ASSUME FinishClose PROVE Queued' \subseteq Queued
        BY <3>1, Zenon DEF FinishClose, holeVars, Queued
      <3>2. QED
        BY <1>5, <3>1, ReceiveStruct, EmptyHoleStruct, Zenon
    <2>2. UNCHANGED <<mapVars, data, rebuildVars, punch, folded, ghosts>>
      BY <1>5, Zenon DEF Receive, SendEmptyHole, FinishClose, cleanVars
    <2>3. QED
      BY <2>1, <2>2, QuietContent, Zenon
  <1>6. ASSUME CreateHoles PROVE ContentInv'
    BY <1>5, <1>6, PunchContent, Zenon DEF CreateHoles
  <1>7. ASSUME Cleaning PROVE ContentInv'
    BY <1>3, <1>7, FoldContent, Zenon DEF Cleaning, RemoveDiffDisk
  <1>8. ASSUME Draining PROVE ContentInv'
    BY <1>5, <1>8, RemoveContent, Zenon DEF Draining
  <1>9. ASSUME Rebuilding PROVE ContentInv'
    BY <1>9, SyncContent, ReloadContent, UpdateStartsContent, PreloadsContent, MergesContent, Zenon DEF Rebuilding
  <1>10. ASSUME UNCHANGED vars PROVE ContentInv'
    <2>1. UNCHANGED <<mapVars, data, rebuildVars, punch, folded, ghosts>> /\ holes' = holes /\ worker' = worker
      BY <1>10, Zenon DEF vars, holeVars, cleanVars
    <2>2. Queued' \subseteq Queued
      BY <2>1, Zenon DEF Queued
    <2>3. QED
      BY <2>1, <2>2, QuietContent, Zenon
  <1>11. QED
    BY <1>2, <1>4, <1>6, <1>7, <1>8, <1>9, <1>10, Zenon DEF Next

\* ContentAlways: what is held, wanted, queued and mapped is always as the
\* invariant says.
LEMMA ContentAlways ==
    ASSUME ~MixedRuns, ~PartialInWO, ~FoldRacesHoles
    PROVE  Spec => [](StructInv /\ ContentInv)
  <1>1. Init => StructInv /\ ContentInv
    <2>1. SUFFICES ASSUME Init PROVE StructInv /\ ContentInv
      BY Zenon
    <2>2. StructInv /\ (InitNew \/ InitRebuild)
      BY <2>1, InitStruct, Zenon DEF Init
    <2>3. QED
      BY <2>1, <2>2, InitNewContent, InitRebuildContent, Zenon
  <1>2. StructInv /\ ContentInv /\ [Next]_vars => StructInv' /\ ContentInv'
    BY NextStruct, NextContent, Zenon
  <1>3. QED
    BY <1>1, <1>2, PTL DEF Spec

\* ReadsAlwaysCurrent: for any volume, any chain and any order of writes,
\* unmaps, snapshots, reverts, folds, removals, restarts and rebuilds, with
\* holes punched at any time in between, a replica that serves reads returns
\* what was written last.  The three assumptions leave out what the code gets
\* wrong: a write over blocks of several files (fullWriteAt), a sector written
\* during a rebuild (readModifyWrite), a fold with holes queued for the parent
\* or a revert while a snapshot is folded (InternalSnapshotCleaner).
THEOREM ReadsAlwaysCurrent ==
    ASSUME ~MixedRuns, ~PartialInWO, ~FoldRacesHoles
    PROVE  Spec => []ReadsCurrent
  <1>1. StructInv /\ ContentInv => ReadsCurrent
    BY CurrentNow, Zenon DEF ReadsCurrent
  <1>2. QED
    BY <1>1, ContentAlways, PTL

\* SnapshotsStayIntact: under the same assumptions, no write, hole, fold,
\* revert or restart ever changes what a snapshot the user keeps holds
\* (fullWriteAt, preload, UpdateLUNMap: SnapIndx).
THEOREM SnapshotsStayIntact ==
    ASSUME ~MixedRuns, ~PartialInWO, ~FoldRacesHoles
    PROVE  Spec => []SnapshotsIntact
  <1>1. ASSUME StructInv, ContentInv, IsRW, NEW i \in 1 .. Top - 1, kind[files[i]] = "user",
               NEW b \in Blocks, snaps[files[i]][b] # Unmapped
        PROVE  ViewAt(i, b) = snaps[files[i]][b]
    <2> DEFINE v == snaps[files[i]][b]
               S == {0} \union {k \in 1 .. i : Holds(k, b)}
               j == Max(S)
    <2>1. i \in 1 .. Top /\ i # Top /\ i \in Nat
      BY <1>1, ChainFacts
    <2>2. Wants[i] = snaps[files[i]]
      BY <1>1, <2>1, Zenon DEF Wants
    <2>3. Reads(Held, b, i, v)
      BY <1>1, <2>1, <2>2, Zenon DEF ContentInv, ViewInv
    <2>4. \A k \in 1 .. i : k \in 1 .. Top /\ (Held[k][b] # Hole <=> Holds(k, b)) /\ Held[k][b] = data[files[k]][b]
      <3>1. \A k \in 1 .. i : k \in 1 .. Top
        <4>1. Top \in Nat
          BY <1>1, ChainFacts, Zenon
        <4>2. QED
          BY <2>1, <4>1
      <3>2. QED
        BY <1>1, <3>1, AllCopied, Zenon DEF ContentInv, IsRW, Holds
    <2>5. ViewAt(i, b) = IF j = 0 THEN Zeros ELSE Contents(files[j], b)
      BY Zenon DEF ViewAt, LastIndex
    <2>6. j \in S /\ \A y \in S : y <= j
      <3>1. S \in SUBSET (0 .. i) /\ S # {}
        BY <2>1
      <3>2. QED
        BY <2>1, <3>1, MaxIs, Zenon
    <2> HIDE DEF j, v
    <2>7. j = 0 \/ (j \in 1 .. i /\ Holds(j, b))
      BY <2>6, Zenon
    <2>8. \A k \in 1 .. i : k <= j \/ ~Holds(k, b)
      BY <2>6, Zenon
    <2>9. CASE \E m \in 1 .. i : v # Hole /\ Held[m][b] = v /\ \A k \in m + 1 .. i : Held[k][b] = Hole
      <3>1. PICK m \in 1 .. i : v # Hole /\ Held[m][b] = v /\ \A k \in m + 1 .. i : Held[k][b] = Hole
        BY <2>9, Zenon
      <3>2. Holds(m, b) /\ \A k \in m + 1 .. i : ~Holds(k, b)
        <4>1. \A k \in m + 1 .. i : k \in 1 .. i
          OBVIOUS
        <4>2. QED
          BY <2>4, <3>1, <4>1, Zenon
      <3>3. j = m /\ j # 0
        BY <2>1, <2>7, <2>8, <3>2
      <3>4. Contents(files[j], b) = v
        BY <2>4, <3>1, <3>3, Zenon DEF Contents
      <3>5. QED
        BY <2>5, <3>3, <3>4, Zenon DEF v
    <2>10. CASE v = Zeros /\ \A k \in 1 .. i : Held[k][b] = Hole
      <3>1. j = 0
        BY <2>4, <2>7, <2>10, Zenon
      <3>2. QED
        BY <2>5, <2>10, <3>1, Zenon DEF v
    <2>11. QED
      BY <2>3, <2>9, <2>10, Zenon DEF Reads
  <1>2. StructInv /\ ContentInv => SnapshotsIntact
    BY <1>1, Zenon DEF SnapshotsIntact
  <1>3. QED
    BY <1>2, ContentAlways, PTL
============================================================================

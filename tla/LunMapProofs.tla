---------------------------- MODULE LunMapProofs ----------------------------
(* Proofs about the block map of a replica (LunMap).                         *)
EXTENDS LunMap, WellFoundedInduction, TLAPS

USE SMTT(20), ZenonT(20), SMTT(30)  \* the provers, in the order they are tried, and their time limits

----------------------------------------------------------------------------
(* The invariant                                                             *)

\* the types of all variables, and the bounds of the indices
MapTypes ==
    /\ files \in Seq(Files) /\ Top \in 1 .. used
    /\ flags \in Seq(BOOLEAN) /\ Len(flags) = Top
    /\ kind \in [Files -> {"auto", "user", "removed"}]
    /\ snapIndx \in 0 .. used
    /\ location \in [Blocks -> 0 .. Top]
    /\ data \in [Files -> FileData]
    /\ punch \in BOOLEAN
    /\ used \in Files /\ writes \in 0 .. MaxWrites
    /\ vol \in [Blocks -> Value \union {Unmapped}]
    /\ snaps \in [Files -> [Blocks -> Value \union {Unmapped}] \union {None}]
    /\ \A f \in Files : kind[f] = "user" => snaps[f] \in [Blocks -> Value \union {Unmapped}]

HoleTypes ==
    /\ holes \in Seq(HoleType) /\ worker \in HoleType \union {None}
    /\ drain \in {"start", "done"}
    /\ holder \in [op : {"none", "remove", "close", "closed"}, file : Files \union {None}, sent : BOOLEAN]
    /\ folded \in Files \union {None} /\ closed \in SUBSET Files

RebuildTypes ==
    /\ stage \in {"sync", "reloaded", "preload", "merged", "done"}
    /\ source \in [Files -> FileData \union {None}]
    /\ stage = "preload" => /\ copy \in [loc : [Blocks -> 0 .. Top], next : 1 .. Top + 1]
                            /\ \A b \in Blocks : copy.loc[b] < copy.next

\* the holes the channel and CreateHoles have, the empty ones left out
Queued == {h \in HoleType : /\ h.file # None
                            /\ h = worker \/ \E i \in 1 .. Len(holes) : holes[i] = h}

\* the files of the chain differ; what was not created yet is empty; the head
\* is no snapshot, is not folded, and no hole is queued for it
ChainInv ==
    /\ \A i, j \in 1 .. Top : files[i] = files[j] => i = j
    /\ \A i \in 1 .. Top : files[i] <= used
    /\ \A f \in Files : f > used => kind[f] = "auto" /\ data[f] = NoData /\ source[f] = None
    /\ kind[files[Top]] = "auto"
    /\ \A h \in Queued : h.file <= used /\ h.file # files[Top]
    /\ folded # None => folded <= used /\ folded # files[Top]

\* until a rebuilding replica is RW nothing but writes happens to its chain
RebuildInv ==
    stage # "done" => /\ Unlocked /\ folded = None /\ closed = {}
                      /\ files = <<1, 2, 3>>

\* with the lock held and the drain over nothing is queued; a closed file is
\* not of the chain, and no hole is queued for it
CloseInv ==
    /\ ~Unlocked /\ drain = "done" => Queued = {}
    /\ holder.op = "remove" => holder.file = folded /\ folded # None
    /\ holder.op = "closed" => drain = "done"
    /\ holder.op # "closed" => /\ \A f \in closed : f <= used
                               /\ \A i \in 1 .. Top : files[i] \notin closed
                               /\ \A h \in Queued : h.file \notin closed

StructInv == MapTypes /\ HoleTypes /\ RebuildTypes /\ ChainInv /\ RebuildInv /\ CloseInv

----------------------------------------------------------------------------
(* Least and greatest elements, and sequences of sets                        *)

\* LeastIs: a set of naturals that is not empty has a least element.  This is
\* what the loops of the code are proved by.
LEMMA LeastIs ==
    ASSUME NEW T \in SUBSET Nat, T # {}
    PROVE  \E x \in T : \A y \in T : x <= y
  <1> DEFINE Less == {x \in Nat \X Nat : x[1] < x[2]}
  <1>1. IsWellFoundedOn(Less, Nat)
    BY NatLessThanWellFounded, Zenon DEF OpToRel
  <1>2. \A a, b \in Nat : a < b => <<a, b>> \in Less
    BY Zenon
  <1> HIDE DEF Less
  <1>3. PICK x \in T : \A y \in T : ~(<<y, x>> \in Less)
    BY <1>1, WFMin, Zenon
  <1>4. ASSUME NEW y \in T
        PROVE  x <= y
    <2>1. x \in Nat /\ y \in Nat
      BY Zenon
    <2>2. ~(y < x)
      BY <1>2, <1>3, <2>1, Zenon
    <2>3. QED
      BY <2>1, <2>2
  <1>5. QED
    BY <1>4, Zenon

\* MaxIs: the greatest element of a bounded set of naturals (LastIndex).
LEMMA MaxIs ==
    ASSUME NEW n \in Nat, NEW S \in SUBSET (0 .. n), S # {}
    PROVE  Max(S) \in S /\ \A y \in S : y <= Max(S)
  <1> DEFINE T == {n - x : x \in S}
  <1>1. T \in SUBSET Nat /\ T # {}
    <2>1. \A x \in S : n - x \in Nat
      OBVIOUS
    <2>2. PICK x \in S : TRUE
      BY Zenon
    <2>3. n - x \in T
      BY Zenon
    <2>4. QED
      BY <2>1, <2>3, Zenon
  <1> HIDE DEF T
  <1>2. PICK t \in T : \A u \in T : t <= u
    BY <1>1, LeastIs, Zenon
  <1>3. PICK x \in S : t = n - x
    BY Zenon DEF T
  <1>4. \A y \in S : x >= y
    BY <1>2, <1>3 DEF T
  <1>5. QED
    BY <1>4, Zenon DEF Max

\* LastFlagIs: no flag up to n is above LastFlag (SnapIndx).
LEMMA LastFlagIs ==
    ASSUME NEW fl, NEW n \in Nat
    PROVE  /\ LastFlag(fl, n) \in 0 .. n
           /\ \A i \in 1 .. n : fl[i] => i <= LastFlag(fl, n)
           /\ LastFlag(fl, n) # 0 => fl[LastFlag(fl, n)]
  <1> DEFINE S == {0} \union {i \in 1 .. n : fl[i]}
  <1>1. S \in SUBSET (0 .. n) /\ S # {} /\ LastFlag(fl, n) = Max(S)
    BY DEF LastFlag, LastIndex
  <1>2. Max(S) \in S /\ \A y \in S : y <= Max(S)
    BY <1>1, MaxIs, Zenon
  <1>3. QED
    BY <1>1, <1>2, Zenon

\* JoinedIs: what is in the channel once more holes are sent (sendToCreateHole).
LEMMA JoinedIs ==
    ASSUME NEW A, NEW s \in Seq(A), NEW t \in Seq(A)
    PROVE  /\ s \o t \in Seq(A)
           /\ \A m \in 1 .. Len(s \o t) :
                 \/ m \in 1 .. Len(s) /\ (s \o t)[m] = s[m]
                 \/ \E k \in 1 .. Len(t) : (s \o t)[m] = t[k]
           /\ \A m \in 1 .. Len(s) : m \in 1 .. Len(s \o t) /\ (s \o t)[m] = s[m]
  <1>1. ASSUME NEW m \in 1 .. Len(s \o t), m \notin 1 .. Len(s)
        PROVE  \E k \in 1 .. Len(t) : (s \o t)[m] = t[k]
    <2>1. m - Len(s) \in 1 .. Len(t) /\ (s \o t)[m] = t[m - Len(s)]
      BY <1>1
    <2>2. QED
      BY <2>1, Zenon
  <1>2. QED
    BY <1>1

----------------------------------------------------------------------------
(* The loops                                                                 *)

\* PreloadLoop: the loop over the files of the chain does what its body says
\* (PreloadLunMap).
LEMMA PreloadLoop ==
    ASSUME NEW chain, Len(chain) \in Nat, NEW fl
    PROVE  LET upTo == PreloadUpTo(chain, fl)
           IN  /\ upTo[0] = [loc |-> NoLocation, holes |-> <<>>]
               /\ \A n \in 1 .. Len(chain) :
                     LET p == PreloadFile(chain, fl, upTo[n - 1].loc, n)
                     IN  upTo[n] = [loc |-> p.loc, holes |-> upTo[n - 1].holes \o p.holes]
  <1> DEFINE Zero == [loc |-> NoLocation, holes |-> <<>>]
             Body(a, n) == LET p == PreloadFile(chain, fl, a.loc, n)
                           IN  [loc |-> p.loc, holes |-> a.holes \o p.holes]
             Loop(g, N) == g = [n \in 0 .. N |-> IF n = 0 THEN Zero ELSE Body(g[n - 1], n)]
             upTo == PreloadUpTo(chain, fl)
             Bad == {N \in Nat : ~\E g : Loop(g, N)}
  <1>1. upTo = CHOOSE g : Loop(g, Len(chain))
    BY Zenon DEF PreloadUpTo
  <1> HIDE DEF Zero, Body, upTo
  <1>2. Bad = {}
    <2>1. SUFFICES ASSUME Bad # {} PROVE FALSE
      BY Zenon
    <2>2. PICK N \in Bad : \A y \in Bad : N <= y
      BY <2>1, LeastIs, Bad \in SUBSET Nat, Zenon
    <2>3. N # 0
      <3>1. Loop([n \in 0 .. 0 |-> Zero], 0)
        OBVIOUS
      <3>2. QED
        BY <3>1, <2>2, Zenon
    <2>4. PICK g : Loop(g, N - 1)
      <3>1. N - 1 \in Nat /\ ~(N <= N - 1)
        BY <2>2, <2>3
      <3>2. N - 1 \notin Bad
        BY <2>2, <3>1, Zenon
      <3>3. QED
        BY <3>1, <3>2, Zenon
    <2> DEFINE h == [n \in 0 .. N |-> IF n = N THEN Body(g[N - 1], N) ELSE g[n]]
    <2>5. Loop(h, N)
      <3>1. \A n \in 0 .. N - 1 : h[n] = g[n]
        BY <2>2, <2>3
      <3>2. ASSUME NEW n \in 0 .. N
            PROVE  h[n] = IF n = 0 THEN Zero ELSE Body(h[n - 1], n)
        <4>1. CASE n = N
          BY <4>1, <3>1, <2>2, <2>3
        <4>2. CASE n # N
          <5>1. n \in 0 .. N - 1 /\ (n # 0 => n - 1 \in 0 .. N - 1)
            BY <4>2, <2>2
          <5>2. QED
            BY <5>1, <3>1, <2>4, Zenon
        <4>3. QED
          BY <4>1, <4>2, Zenon
      <3>3. QED
        BY <3>2, Zenon
    <2>6. QED
      BY <2>2, <2>5, Zenon
  <1>3. Loop(upTo, Len(chain))
    BY <1>1, <1>2, Zenon
  <1>4. upTo[0] = Zero
    BY <1>3
  <1>5. \A n \in 1 .. Len(chain) : upTo[n] = Body(upTo[n - 1], n)
    BY <1>3
  <1>6. QED
    BY <1>4, <1>5, Zenon DEF Zero, Body, upTo

\* WriteLoop: the loop over the blocks of a run does what its body says
\* (fullWriteAt).
LEMMA WriteLoop ==
    ASSUME NEW run, Len(run) \in Nat, NEW loc
    PROVE  LET upTo == WriteUpTo(run, loc)
           IN  /\ upTo[0] = [loc |-> loc, holes |-> <<>>, idx |-> 0, first |-> 0, length |-> 0]
               /\ \A n \in 1 .. Len(run) : upTo[n] = WriteBlock(upTo[n - 1], run[n])
  <1> DEFINE Zero == [loc |-> loc, holes |-> <<>>, idx |-> 0, first |-> 0, length |-> 0]
             Body(a, n) == WriteBlock(a, run[n])
             Loop(g, N) == g = [n \in 0 .. N |-> IF n = 0 THEN Zero ELSE Body(g[n - 1], n)]
             upTo == WriteUpTo(run, loc)
             Bad == {N \in Nat : ~\E g : Loop(g, N)}
  <1>1. upTo = CHOOSE g : Loop(g, Len(run))
    BY DEF WriteUpTo
  <1> HIDE DEF Zero, Body, upTo
  <1>2. Bad = {}
    <2>1. SUFFICES ASSUME Bad # {} PROVE FALSE
      OBVIOUS
    <2>2. PICK N \in Bad : \A y \in Bad : N <= y
      BY <2>1, LeastIs, Bad \in SUBSET Nat, Zenon
    <2>3. N # 0
      <3>1. Loop([n \in 0 .. 0 |-> Zero], 0)
        OBVIOUS
      <3>2. QED
        BY <3>1, <2>2, Zenon
    <2>4. PICK g : Loop(g, N - 1)
      <3>1. N - 1 \in Nat /\ ~(N <= N - 1)
        BY <2>2, <2>3
      <3>2. N - 1 \notin Bad
        BY <2>2, <3>1, Zenon
      <3>3. QED
        BY <3>1, <3>2, Zenon
    <2> DEFINE h == [n \in 0 .. N |-> IF n = N THEN Body(g[N - 1], N) ELSE g[n]]
    <2>5. Loop(h, N)
      <3>1. \A n \in 0 .. N - 1 : h[n] = g[n]
        BY <2>2, <2>3
      <3>2. ASSUME NEW n \in 0 .. N
            PROVE  h[n] = IF n = 0 THEN Zero ELSE Body(h[n - 1], n)
        <4>1. CASE n = N
          BY <4>1, <3>1, <2>2, <2>3
        <4>2. CASE n # N
          <5>1. n \in 0 .. N - 1 /\ (n # 0 => n - 1 \in 0 .. N - 1)
            BY <4>2, <2>2
          <5>2. QED
            BY <5>1, <3>1, <2>4
        <4>3. QED
          BY <4>1, <4>2
      <3>3. QED
        BY <3>2
    <2>6. QED
      BY <2>2, <2>5, Zenon
  <1>3. Loop(upTo, Len(run))
    BY <1>1, <1>2, Zenon
  <1>4. upTo[0] = Zero
    BY <1>3
  <1>5. \A n \in 1 .. Len(run) : upTo[n] = Body(upTo[n - 1], n)
    BY <1>3
  <1>6. QED
    BY <1>4, <1>5, Zenon DEF Zero, Body, upTo

\* HolesLoop: the loop over the blocks does what its body says (sendToCreateHole,
\* as preload and UpdateLUNMap call it).
LEMMA HolesLoop ==
    ASSUME NEW chain, NEW loc, NEW bs
    PROVE  \E upTo : /\ upTo[0] = <<>>
                     /\ \A n \in 1 .. NumBlocks :
                           upTo[n] = IF n \in bs THEN Append(upTo[n - 1], MkHole(chain[loc[n]], n, 1))
                                     ELSE upTo[n - 1]
                     /\ HolesFor(chain, loc, bs) = upTo[NumBlocks]
  <1> DEFINE Body(a, n) == IF n \in bs THEN Append(a, MkHole(chain[loc[n]], n, 1)) ELSE a
             Loop(g, N) == g = [n \in 0 .. N |-> IF n = 0 THEN <<>> ELSE Body(g[n - 1], n)]
             upTo == CHOOSE g : Loop(g, NumBlocks)
             Bad == {N \in Nat : ~\E g : Loop(g, N)}
  <1>1. HolesFor(chain, loc, bs) = upTo[NumBlocks]
    BY Zenon DEF HolesFor
  <1> HIDE DEF Body
  <1>2. Bad = {}
    <2>1. SUFFICES ASSUME Bad # {} PROVE FALSE
      BY Zenon
    <2>2. PICK N \in Bad : \A y \in Bad : N <= y
      BY <2>1, LeastIs, Bad \in SUBSET Nat, Zenon
    <2>3. N # 0
      <3>1. Loop([n \in 0 .. 0 |-> <<>>], 0)
        OBVIOUS
      <3>2. QED
        BY <3>1, <2>2, Zenon
    <2>4. PICK g : Loop(g, N - 1)
      <3>1. N - 1 \in Nat /\ ~(N <= N - 1)
        BY <2>2, <2>3
      <3>2. N - 1 \notin Bad
        BY <2>2, <3>1, Zenon
      <3>3. QED
        BY <3>1, <3>2, Zenon
    <2> DEFINE h == [n \in 0 .. N |-> IF n = N THEN Body(g[N - 1], N) ELSE g[n]]
    <2>5. Loop(h, N)
      <3>1. \A n \in 0 .. N - 1 : h[n] = g[n]
        BY <2>2, <2>3
      <3>2. ASSUME NEW n \in 0 .. N
            PROVE  h[n] = IF n = 0 THEN <<>> ELSE Body(h[n - 1], n)
        <4>1. CASE n = N
          BY <4>1, <3>1, <2>2, <2>3
        <4>2. CASE n # N
          <5>1. n \in 0 .. N - 1 /\ (n # 0 => n - 1 \in 0 .. N - 1)
            BY <4>2, <2>2
          <5>2. QED
            BY <5>1, <3>1, <2>4, Zenon
        <4>3. QED
          BY <4>1, <4>2, Zenon
      <3>3. QED
        BY <3>2, Zenon
    <2>6. QED
      BY <2>2, <2>5, Zenon
  <1>3. NumBlocks \in Nat
    BY LunMapAssumption, Zenon
  <1>4. Loop(upTo, NumBlocks)
    BY <1>2, <1>3, Zenon
  <1> HIDE DEF upTo
  <1>5. upTo[0] = <<>>
    BY <1>3, <1>4
  <1>6. \A n \in 1 .. NumBlocks : upTo[n] = Body(upTo[n - 1], n)
    BY <1>3, <1>4
  <1>7. QED
    BY <1>1, <1>5, <1>6, Zenon DEF Body

\* HolesForIs: one hole for every block (sendToCreateHole).
LEMMA HolesForIs ==
    ASSUME NEW chain, NEW loc, NEW bs \in SUBSET Blocks, \A b \in bs : chain[loc[b]] \in Files,
           NEW q, q = HolesFor(chain, loc, bs)
    PROVE  /\ q \in Seq(HoleType)
           /\ \A m \in 1 .. Len(q) : \E b \in bs : q[m].file = chain[loc[b]] /\ q[m].blocks = {b}
  <1>1. PICK upTo : /\ upTo[0] = <<>>
                    /\ \A n \in 1 .. NumBlocks :
                          upTo[n] = IF n \in bs THEN Append(upTo[n - 1], MkHole(chain[loc[n]], n, 1))
                                    ELSE upTo[n - 1]
                    /\ HolesFor(chain, loc, bs) = upTo[NumBlocks]
    BY HolesLoop
  <1> DEFINE Made(h) == \E b \in bs : h.file = chain[loc[b]] /\ h.blocks = {b}
             Good(n) == upTo[n] \in Seq(HoleType) /\ \A m \in 1 .. Len(upTo[n]) : Made(upTo[n][m])
             Bad == {n \in 0 .. NumBlocks : ~Good(n)}
  <1>2. NumBlocks \in Nat
    BY LunMapAssumption, Zenon
  <1> HIDE DEF Made
  <1>3. Good(0)
    BY <1>1
  <1>4. ASSUME NEW n \in 1 .. NumBlocks, Good(n - 1)
        PROVE  Good(n)
    <2>1. CASE n \notin bs
      BY <1>1, <1>4, <2>1, Zenon
    <2>2. CASE n \in bs
      <3> DEFINE h == MkHole(chain[loc[n]], n, 1)
      <3>1. h.file = chain[loc[n]] /\ h.blocks = {n} /\ h \in HoleType
        <4>1. n .. n + 1 - 1 = {n}
          BY <1>2
        <4>2. QED
          BY <2>2, <4>1, Zenon DEF MkHole, HoleType
      <3>2. upTo[n] = Append(upTo[n - 1], h)
        BY <1>1, <2>2, Zenon
      <3>2a. Made(h)
        BY <2>2, <3>1, Zenon DEF Made
      <3> HIDE DEF h
      <3>3. upTo[n] \in Seq(HoleType)
        BY <1>4, <3>1, <3>2
      <3>4. ASSUME NEW m \in 1 .. Len(upTo[n])
            PROVE  upTo[n][m] = h \/ (m \in 1 .. Len(upTo[n - 1]) /\ upTo[n][m] = upTo[n - 1][m])
        BY <1>4, <3>1, <3>2
      <3>5. QED
        BY <1>4, <3>2a, <3>3, <3>4, Zenon
    <2>3. QED
      BY <2>1, <2>2, Zenon
  <1> HIDE DEF Good
  <1>5. Bad = {}
    <2>1. SUFFICES ASSUME Bad # {} PROVE FALSE
      BY Zenon
    <2>2. PICK n \in Bad : \A y \in Bad : n <= y
      BY <1>2, <2>1, LeastIs, Bad \in SUBSET Nat, Zenon
    <2>3. n # 0
      BY <1>3, Zenon
    <2>4. n - 1 \notin Bad /\ n \in 1 .. NumBlocks /\ n - 1 \in 0 .. NumBlocks
      <3>1. n \in 0 .. NumBlocks /\ n - 1 \in Nat /\ n - 1 < n
        BY <1>2, <2>2, <2>3
      <3> HIDE DEF Bad
      <3>2. QED
        BY <1>2, <2>2, <2>3, <3>1
    <2>5. QED
      BY <1>4, <2>4, Zenon
  <1>6. Good(NumBlocks)
    BY <1>2, <1>5
  <1>7. QED
    <2>1. q = upTo[NumBlocks]
      BY <1>1, Zenon
    <2>2. QED
      BY <2>1, <1>6, Zenon DEF Good, Made

\* loc names for every block the last of the first n files that holds it
LastOf(chain, n, loc) ==
    /\ loc \in [Blocks -> 0 .. n]
    /\ \A b \in Blocks : /\ loc[b] # 0 => data[chain[loc[b]]][b] # Hole
                         /\ \A j \in loc[b] + 1 .. n : data[chain[j]][b] = Hole

\* a hole for a block that a later file holds, with no flag in between
Hidden(h, chain, fl, n) ==
    \E k, i \in 1 .. n : \E b \in Blocks :
        /\ k < i /\ h.file = chain[k] /\ h.blocks = {b}
        /\ LastFlag(fl, i) < k /\ data[chain[i]][b] # Hole

\* PreloadFileIs: what one file does to the map, and the holes it makes below
\* (preload).
LEMMA PreloadFileIs ==
    ASSUME NEW chain \in Seq(Files), NEW fl, NEW i \in 1 .. Len(chain),
           NEW loc \in [Blocks -> 0 .. i - 1]
    PROVE  LET p == PreloadFile(chain, fl, loc, i)
           IN  /\ p.loc = [b \in Blocks |-> IF data[chain[i]][b] # Hole THEN i ELSE loc[b]]
               /\ p.holes \in Seq(HoleType)
               /\ \A m \in 1 .. Len(p.holes) :
                     \E b \in Blocks : /\ p.holes[m].file = chain[loc[b]] /\ p.holes[m].blocks = {b}
                                       /\ LastFlag(fl, i) < loc[b] /\ data[chain[i]][b] # Hole
                                       /\ loc[b] \in 1 .. i - 1 /\ punch
  <1> DEFINE mine == {b \in Blocks : data[chain[i]][b] # Hole}
             below == {b \in mine : loc[b] > LastFlag(fl, i) /\ punch}
             p == PreloadFile(chain, fl, loc, i)
  <1>1. p.loc = [b \in Blocks |-> IF b \in mine THEN i ELSE loc[b]] /\ p.holes = HolesFor(chain, loc, below)
    BY Zenon DEF PreloadFile
  <1>2. LastFlag(fl, i) \in 0 .. i
    BY LastFlagIs
  <1>3. ASSUME NEW b \in below
        PROVE  loc[b] \in 1 .. i - 1 /\ chain[loc[b]] \in Files /\ LastFlag(fl, i) < loc[b]
    BY <1>2
  <1>4. below \in SUBSET Blocks /\ \A b \in below : data[chain[i]][b] # Hole /\ punch
    BY Zenon
  <1> HIDE DEF p, below
  <1>5. /\ p.holes \in Seq(HoleType)
        /\ \A m \in 1 .. Len(p.holes) :
              \E b \in below : p.holes[m].file = chain[loc[b]] /\ p.holes[m].blocks = {b}
    <2>1. below \in SUBSET Blocks /\ \A b \in below : chain[loc[b]] \in Files
      BY <1>3, <1>4, Zenon
    <2> DEFINE q == p.holes
    <2>2. q = HolesFor(chain, loc, below)
      BY <1>1, Zenon
    <2> HIDE DEF q
    <2>3. /\ q \in Seq(HoleType)
          /\ \A m \in 1 .. Len(q) : \E b \in below : q[m].file = chain[loc[b]] /\ q[m].blocks = {b}
      BY <2>1, <2>2, HolesForIs, SMT
    <2>4. QED
      BY <2>3, Zenon DEF q
  <1>6. \A m \in 1 .. Len(p.holes) :
            \E b \in Blocks : /\ p.holes[m].file = chain[loc[b]] /\ p.holes[m].blocks = {b}
                              /\ LastFlag(fl, i) < loc[b] /\ data[chain[i]][b] # Hole
                              /\ loc[b] \in 1 .. i - 1 /\ punch
    BY <1>3, <1>4, <1>5, Zenon
  <1>7. QED
    BY <1>1, <1>5, <1>6, Zenon DEF p

\* a map with the last holder of every block, and holes for hidden ones
Preloaded(p, chain, fl) ==
    /\ LastOf(chain, Len(chain), p.loc)
    /\ p.holes \in Seq(HoleType)
    /\ \A m \in 1 .. Len(p.holes) : Hidden(p.holes[m], chain, fl, Len(chain))

\* PreloadIs: a preload of the whole chain finds the last holder of every
\* block, and makes holes only in copies that nobody needs (PreloadLunMap).
LEMMA PreloadIs ==
    ASSUME NEW chain \in Seq(Files), NEW fl
    PROVE  Preloaded(Preload(chain, fl), chain, fl)
  <1> DEFINE upTo == PreloadUpTo(chain, fl)
             Good(n) == /\ LastOf(chain, n, upTo[n].loc)
                        /\ upTo[n].holes \in Seq(HoleType)
                        /\ \A m \in 1 .. Len(upTo[n].holes) : Hidden(upTo[n].holes[m], chain, fl, n)
             Bad == {n \in 0 .. Len(chain) : ~Good(n)}
  <1>1. /\ upTo[0] = [loc |-> NoLocation, holes |-> <<>>]
        /\ \A n \in 1 .. Len(chain) :
              LET p == PreloadFile(chain, fl, upTo[n - 1].loc, n)
              IN  upTo[n] = [loc |-> p.loc, holes |-> upTo[n - 1].holes \o p.holes]
    <2>1. Len(chain) \in Nat
      OBVIOUS
    <2>2. QED
      BY <2>1, PreloadLoop, Zenon
  <1> HIDE DEF upTo
  <1>2. Good(0)
    <2>1. upTo[0].loc = NoLocation /\ upTo[0].holes = <<>>
      BY <1>1
    <2>2. LastOf(chain, 0, NoLocation)
      BY DEF LastOf, NoLocation
    <2>3. QED
      BY <2>1, <2>2
  <1>3. ASSUME NEW n \in 1 .. Len(chain), Good(n - 1)
        PROVE  Good(n)
    <2> DEFINE loc == upTo[n - 1].loc
               p == PreloadFile(chain, fl, loc, n)
    <2>1. loc \in [Blocks -> 0 .. n - 1]
      BY <1>3, Zenon DEF LastOf
    <2>2. /\ p.loc = [b \in Blocks |-> IF data[chain[n]][b] # Hole THEN n ELSE loc[b]]
          /\ p.holes \in Seq(HoleType)
          /\ \A m \in 1 .. Len(p.holes) :
                \E b \in Blocks : /\ p.holes[m].file = chain[loc[b]] /\ p.holes[m].blocks = {b}
                                  /\ LastFlag(fl, n) < loc[b] /\ data[chain[n]][b] # Hole
                                  /\ loc[b] \in 1 .. n - 1 /\ punch
      BY <2>1, PreloadFileIs, Zenon
    <2>3. upTo[n].loc = p.loc /\ upTo[n].holes = upTo[n - 1].holes \o p.holes
      <3> DEFINE h == upTo[n - 1].holes \o p.holes
                 l == p.loc
      <3>1. upTo[n] = [loc |-> l, holes |-> h]
        BY <1>1, Zenon
      <3>2. upTo[n].loc = l /\ upTo[n].holes = h
        <4> HIDE DEF h, l
        <4> QED
          BY <3>1
      <3>3. QED
        BY <3>2, Zenon
    <2> HIDE DEF p
    <2>4. LastOf(chain, n, p.loc)
      <3>1. p.loc \in [Blocks -> 0 .. n]
        BY <2>1, <2>2
      <3>2. ASSUME NEW b \in Blocks
            PROVE  /\ p.loc[b] # 0 => data[chain[p.loc[b]]][b] # Hole
                   /\ \A j \in p.loc[b] + 1 .. n : data[chain[j]][b] = Hole
        <4>1. /\ loc[b] \in 0 .. n - 1
              /\ loc[b] # 0 => data[chain[loc[b]]][b] # Hole
              /\ \A j \in loc[b] + 1 .. n - 1 : data[chain[j]][b] = Hole
          BY <1>3, <2>1, Zenon DEF LastOf
        <4>2. p.loc[b] = IF data[chain[n]][b] # Hole THEN n ELSE loc[b]
          BY <2>2, Zenon
        <4> HIDE DEF loc
        <4>3. QED
          BY <4>1, <4>2
      <3>3. QED
        BY <3>1, <3>2, Zenon DEF LastOf
    <2>5. ASSUME NEW m \in 1 .. Len(p.holes)
          PROVE  Hidden(p.holes[m], chain, fl, n)
      <3>1. PICK b \in Blocks : /\ p.holes[m].file = chain[loc[b]] /\ p.holes[m].blocks = {b}
                                /\ LastFlag(fl, n) < loc[b] /\ data[chain[n]][b] # Hole
                                /\ loc[b] \in 1 .. n - 1
        BY <2>2, Zenon
      <3>2. n \in 1 .. n /\ loc[b] \in 1 .. n /\ loc[b] < n
        BY <3>1
      <3>3. QED
        BY <3>1, <3>2, Zenon DEF Hidden
    <2>6. ASSUME NEW m \in 1 .. Len(upTo[n - 1].holes)
          PROVE  Hidden(upTo[n - 1].holes[m], chain, fl, n)
      <3>1. Hidden(upTo[n - 1].holes[m], chain, fl, n - 1)
        BY <1>3, Zenon
      <3>2. \A k \in 1 .. n - 1 : k \in 1 .. n
        OBVIOUS
      <3>3. QED
        BY <3>1, <3>2, Zenon DEF Hidden
    <2>7. /\ upTo[n].holes \in Seq(HoleType)
          /\ \A m \in 1 .. Len(upTo[n].holes) :
                \/ m \in 1 .. Len(upTo[n - 1].holes) /\ upTo[n].holes[m] = upTo[n - 1].holes[m]
                \/ \E k \in 1 .. Len(p.holes) : upTo[n].holes[m] = p.holes[k]
      <3>1. upTo[n - 1].holes \in Seq(HoleType) /\ p.holes \in Seq(HoleType)
        BY <1>3, <2>2, Zenon
      <3> DEFINE s == upTo[n - 1].holes
                 t == p.holes
      <3>2. s \in Seq(HoleType) /\ t \in Seq(HoleType) /\ upTo[n].holes = s \o t
        BY <2>3, <3>1, Zenon
      <3> HIDE DEF s, t
      <3>3. /\ s \o t \in Seq(HoleType)
            /\ \A m \in 1 .. Len(s \o t) :
                 \/ m \in 1 .. Len(s) /\ (s \o t)[m] = s[m]
                 \/ \E k \in 1 .. Len(t) : (s \o t)[m] = t[k]
        BY <3>2, JoinedIs
      <3>4. QED
        BY <3>2, <3>3, Zenon DEF s, t
    <2>8. \A m \in 1 .. Len(upTo[n].holes) : Hidden(upTo[n].holes[m], chain, fl, n)
      BY <2>5, <2>6, <2>7, Zenon
    <2>9. QED
      BY <2>3, <2>4, <2>7, <2>8, Zenon
  <1>4. Bad = {}
    <2>1. SUFFICES ASSUME Bad # {} PROVE FALSE
      BY Zenon
    <2>2. PICK n \in Bad : \A y \in Bad : n <= y
      BY <2>1, LeastIs, Bad \in SUBSET Nat, Zenon
    <2>3. n # 0
      BY <1>2, Zenon
    <2>4. n - 1 \notin Bad /\ n \in 1 .. Len(chain) /\ n - 1 \in 0 .. Len(chain)
      BY <2>2, <2>3
    <2> HIDE DEF Good
    <2>5. QED
      BY <1>3, <2>4, Zenon
  <1>5. Good(Len(chain))
    BY <1>4
  <1>6. QED
    BY <1>5, Zenon DEF Preload, Preloaded, upTo

\* what fullWriteAt keeps during its loop
AccType == [loc : [Blocks -> 0 .. Top], holes : Seq(HoleType), idx : Nat, first : Nat, length : Nat]

\* r is acc after block b, which the map had at index val
BlockWritten(acc, b, val, r) ==
    /\ r.loc = [acc.loc EXCEPT ![b] = Top]
    /\ r = [loc |-> r.loc, holes |-> r.holes, idx |-> r.idx, first |-> r.first, length |-> r.length]
    /\ \/ /\ val \in {0, Top}
          /\ r.idx = acc.idx /\ r.first = acc.first /\ r.length = acc.length
          /\ r.holes = acc.holes
       \/ /\ val \notin {0, Top} /\ val = acc.idx /\ b = acc.first + acc.length
          /\ r.idx = acc.idx /\ r.first = acc.first /\ r.length = acc.length + 1
          /\ r.holes = acc.holes
       \/ /\ val \notin {0, Top}
          /\ r.idx = val /\ r.first = b /\ r.length = 1
          /\ r.holes = IF Collected(acc)
                       THEN Append(acc.holes, MkHole(files[val], acc.first, acc.length))
                       ELSE acc.holes

\* WriteBlockIs: what one block of a run does to the map and to what is
\* collected (fullWriteAt).
LEMMA WriteBlockIs ==
    ASSUME NEW acc \in AccType, NEW b \in Blocks, Top \in Nat,
           NEW r, r = WriteBlock(acc, b), NEW val, val = acc.loc[b]
    PROVE  BlockWritten(acc, b, val, r)
  <1> DEFINE moved == [acc EXCEPT !.loc[b] = Top]
             new == IF Collected(acc) THEN Append(acc.holes, MkHole(files[val], acc.first, acc.length))
                    ELSE acc.holes
  <1>1. /\ moved.loc = [acc.loc EXCEPT ![b] = Top] /\ moved.holes = acc.holes /\ moved.idx = acc.idx
        /\ moved.first = acc.first /\ moved.length = acc.length
        /\ moved = [loc |-> moved.loc, holes |-> moved.holes, idx |-> moved.idx,
                    first |-> moved.first, length |-> moved.length]
    <2>1. acc = [loc |-> acc.loc, holes |-> acc.holes, idx |-> acc.idx,
                 first |-> acc.first, length |-> acc.length]
      BY Zenon DEF AccType
    <2>2. moved = [loc |-> [acc.loc EXCEPT ![b] = Top], holes |-> acc.holes, idx |-> acc.idx,
                   first |-> acc.first, length |-> acc.length]
      BY <2>1
    <2> HIDE DEF moved
    <2>3. QED
      BY <2>2, Zenon
  <1> HIDE DEF moved
  <1>2. CASE val \in {0, Top}
    <2>1. r = moved
      BY <1>2, Zenon DEF WriteBlock, moved
    <2>2. QED
      BY <1>1, <1>2, <2>1, Zenon DEF BlockWritten
  <1>3. CASE val \notin {0, Top} /\ val = acc.idx /\ b = acc.first + acc.length
    <2>1. r = [moved EXCEPT !.length = @ + 1]
      BY <1>3, Zenon DEF WriteBlock, moved
    <2>2. r.loc = moved.loc /\ r.idx = moved.idx /\ r.first = moved.first /\ r.holes = moved.holes
          /\ r.length = acc.length + 1
          /\ r = [loc |-> r.loc, holes |-> r.holes, idx |-> r.idx, first |-> r.first, length |-> r.length]
      BY <1>1, <2>1, Zenon
    <2>3. QED
      BY <1>1, <1>3, <2>2, Zenon DEF BlockWritten
  <1>4. CASE val \notin {0, Top} /\ ~(val = acc.idx /\ b = acc.first + acc.length)
    <2>1. r = [moved EXCEPT !.idx = val, !.first = b, !.length = 1,
                            !.holes = IF Collected(acc)
                                      THEN Append(@, MkHole(files[val], acc.first, acc.length)) ELSE @]
      BY <1>4, Zenon DEF WriteBlock, moved
    <2>2. r.loc = moved.loc /\ r.idx = val /\ r.first = b /\ r.length = 1 /\ r.holes = new
          /\ r = [loc |-> r.loc, holes |-> r.holes, idx |-> r.idx, first |-> r.first, length |-> r.length]
      BY <1>1, <2>1, Zenon
    <2>3. QED
      BY <1>1, <1>4, <2>2, Zenon DEF BlockWritten
  <1>5. QED
    BY <1>2, <1>3, <1>4, Zenon

\* a hole for blocks of D, all of them of one file above SnapIndx by the map
\* loc, in a file that loc has for a block of D
WrittenOver(h, D, loc) ==
    \E k, j \in 1 .. Top - 1 :
        /\ h \in HoleType /\ h.file = files[k] /\ h.blocks \subseteq D
        /\ snapIndx < j /\ \A b \in h.blocks : loc[b] = j
        /\ \E c \in D : loc[c] = k

\* CollectedIs: the blocks collected make such a hole, in the file of a block
\* of D (fullWriteAt).
LEMMA CollectedIs ==
    ASSUME files \in Seq(Files), snapIndx \in Nat,
           NEW D \in SUBSET Blocks, NEW loc \in [Blocks -> 0 .. Top],
           NEW acc \in AccType, Collected(acc), acc.idx < Top,
           \A b \in acc.first .. acc.first + acc.length - 1 : b \in D /\ loc[b] = acc.idx,
           NEW c \in D, loc[c] \in 1 .. Top - 1
    PROVE  WrittenOver(MkHole(files[loc[c]], acc.first, acc.length), D, loc)
  <1> DEFINE B == acc.first .. acc.first + acc.length - 1
             h == MkHole(files[loc[c]], acc.first, acc.length)
  <1>1. h = [file |-> files[loc[c]], blocks |-> B]
    BY Zenon DEF MkHole
  <1>2. acc.idx \in 1 .. Top - 1 /\ snapIndx < acc.idx
    BY DEF Collected, AccType, Top
  <1> HIDE DEF B
  <1>3. \A b \in B : b \in D /\ loc[b] = acc.idx
    BY Zenon DEF B
  <1>4. B \in SUBSET D /\ B \in SUBSET Blocks
    BY <1>3, Zenon
  <1>5. files[loc[c]] \in Files
    BY DEF Top
  <1> HIDE DEF h
  <1>6. h \in HoleType /\ h.file = files[loc[c]] /\ h.blocks = B
    BY <1>1, <1>4, <1>5, Zenon DEF HoleType
  <1>7. QED
    BY <1>2, <1>3, <1>4, <1>6, Zenon DEF WrittenOver, h

\* the blocks D are at the head, and the holes are for what they replaced
RunWritten(w, D, loc) ==
    /\ w.loc = [b \in Blocks |-> IF b \in D THEN Top ELSE loc[b]]
    /\ w.holes \in Seq(HoleType)
    /\ \A m \in 1 .. Len(w.holes) : WrittenOver(w.holes[m], D, loc) /\ punch

\* WriteRunIs: the blocks of a run are at the head afterwards, and every hole
\* sent is for blocks that were written over (fullWriteAt).
LEMMA WriteRunIs ==
    ASSUME files \in Seq(Files), Top \in Nat \ {0}, snapIndx \in Nat,
           NEW run \in Seq(Blocks), NEW loc \in [Blocks -> 0 .. Top],
           NEW D, D = {run[i] : i \in 1 .. Len(run)}
    PROVE  RunWritten(WriteRun(run, loc), D, loc)
  <1> DEFINE upTo == WriteUpTo(run, loc)
             Done(n) == {run[i] : i \in 1 .. n}
             Good(n) == /\ upTo[n] \in AccType
                        /\ upTo[n].loc = [b \in Blocks |-> IF b \in Done(n) THEN Top ELSE loc[b]]
                        /\ upTo[n].idx < Top
                        /\ upTo[n].idx # 0 =>
                              /\ upTo[n].length > 0
                              /\ \A b \in upTo[n].first .. upTo[n].first + upTo[n].length - 1 :
                                    b \in Done(n) /\ loc[b] = upTo[n].idx
                        /\ \A m \in 1 .. Len(upTo[n].holes) : WrittenOver(upTo[n].holes[m], Done(n), loc) /\ punch
             Bad == {n \in 0 .. Len(run) : ~Good(n)}
  <1>1. /\ upTo[0] = [loc |-> loc, holes |-> <<>>, idx |-> 0, first |-> 0, length |-> 0]
        /\ \A n \in 1 .. Len(run) : upTo[n] = WriteBlock(upTo[n - 1], run[n])
    <2>1. Len(run) \in Nat
      OBVIOUS
    <2>2. QED
      BY <2>1, WriteLoop, Zenon
  <1> HIDE DEF upTo
  <1>2. Good(0)
    <2>1. upTo[0].loc = loc /\ upTo[0].holes = <<>> /\ upTo[0].idx = 0
      BY <1>1
    <2>2. upTo[0] \in AccType
      <3>1. <<>> \in Seq(HoleType)
        OBVIOUS
      <3>2. QED
        BY <1>1, <3>1 DEF AccType
    <2>3. Done(0) = {}
      OBVIOUS
    <2>4. QED
      BY <2>1, <2>2, <2>3
  <1>3. ASSUME NEW n \in 1 .. Len(run), Good(n - 1)
        PROVE  Good(n)
    <2> DEFINE acc == upTo[n - 1]
               r == upTo[n]
               b == run[n]
               val == acc.loc[b]
    <2>1. b \in Blocks /\ Done(n) = Done(n - 1) \union {b} /\ Done(n) \in SUBSET Blocks
      OBVIOUS
    <2>2. /\ acc \in AccType
          /\ acc.loc = [c \in Blocks |-> IF c \in Done(n - 1) THEN Top ELSE loc[c]]
          /\ acc.idx < Top
          /\ acc.idx # 0 =>
                /\ acc.length > 0
                /\ \A c \in acc.first .. acc.first + acc.length - 1 : c \in Done(n - 1) /\ loc[c] = acc.idx
          /\ \A m \in 1 .. Len(acc.holes) : WrittenOver(acc.holes[m], Done(n - 1), loc) /\ punch
      BY <1>3, Zenon
    <2>3. r = WriteBlock(acc, b)
      BY <1>1, Zenon
    <2> HIDE DEF acc, r, b, Done
    <2>4. /\ acc.holes \in Seq(HoleType) /\ acc.idx \in Nat /\ acc.first \in Nat /\ acc.length \in Nat
          /\ acc.loc \in [Blocks -> 0 .. Top] /\ val \in 0 .. Top
      BY <2>1, <2>2, Zenon DEF AccType
    <2>5. val \notin {0, Top} => val = loc[b] /\ val \in 1 .. Top - 1
      BY <2>1, <2>2, <2>4
    <2>6. \A h : WrittenOver(h, Done(n - 1), loc) => WrittenOver(h, Done(n), loc)
      BY <2>1, Zenon DEF WrittenOver
    <2>7. /\ r.loc = [acc.loc EXCEPT ![b] = Top]
          /\ r = [loc |-> r.loc, holes |-> r.holes, idx |-> r.idx, first |-> r.first, length |-> r.length]
          /\ \/ /\ val \in {0, Top}
                /\ r.idx = acc.idx /\ r.first = acc.first /\ r.length = acc.length
                /\ r.holes = acc.holes
             \/ /\ val \notin {0, Top} /\ val = acc.idx /\ b = acc.first + acc.length
                /\ r.idx = acc.idx /\ r.first = acc.first /\ r.length = acc.length + 1
                /\ r.holes = acc.holes
             \/ /\ val \notin {0, Top}
                /\ r.idx = val /\ r.first = b /\ r.length = 1
                /\ r.holes = IF Collected(acc)
                             THEN Append(acc.holes, MkHole(files[val], acc.first, acc.length))
                             ELSE acc.holes
      <3>1. Top \in Nat /\ val = acc.loc[b]
        BY Zenon
      <3> HIDE DEF val
      <3>2. QED
        <4>1. BlockWritten(acc, b, val, r)
          BY <2>1, <2>2, <2>3, <3>1, WriteBlockIs, Zenon
        <4>2. QED
          BY <4>1, Zenon DEF BlockWritten
    <2>8. r.loc = [c \in Blocks |-> IF c \in Done(n) THEN Top ELSE loc[c]]
      BY <2>1, <2>2, <2>4, <2>7, Zenon
    <2>9. r.loc \in [Blocks -> 0 .. Top]
      BY <2>8
    <2>10. /\ r.idx \in Nat /\ r.first \in Nat /\ r.length \in Nat /\ r.idx < Top
           /\ r.idx # 0 =>
                /\ r.length > 0
                /\ \A c \in r.first .. r.first + r.length - 1 : c \in Done(n) /\ loc[c] = r.idx
      <3>1. b \in Nat
        BY <2>1 DEF Blocks
      <3> HIDE DEF val
      <3>2. CASE r.idx = acc.idx /\ r.first = acc.first /\ r.length = acc.length
        BY <3>2, <2>1, <2>2, <2>4, Zenon
      <3>3. CASE /\ val \notin {0, Top} /\ val = acc.idx /\ b = acc.first + acc.length
                 /\ r.idx = acc.idx /\ r.first = acc.first /\ r.length = acc.length + 1
        <4>1. \A c \in r.first .. r.first + r.length - 1 :
                 c = b \/ c \in acc.first .. acc.first + acc.length - 1
          <5>1. \A x, y \in Nat : \A c \in x .. x + (y + 1) - 1 : c = x + y \/ c \in x .. x + y - 1
            OBVIOUS
          <5>2. QED
            BY <3>3, <2>4, <5>1, Zenon
        <4>2. val = loc[b] /\ acc.idx # 0
          BY <3>3, <2>5, Zenon
        <4>3. QED
          BY <3>3, <4>1, <4>2, <2>1, <2>2, <2>4
      <3>4. CASE val \notin {0, Top} /\ r.idx = val /\ r.first = b /\ r.length = 1
        <4>1. val = loc[b] /\ val \in 1 .. Top - 1
          BY <3>4, <2>5, Zenon
        <4>2. \A c \in r.first .. r.first + r.length - 1 : c = b
          BY <3>4, <3>1
        <4>3. QED
          BY <3>1, <3>4, <4>1, <4>2, <2>1
      <3>5. QED
        BY <3>2, <3>3, <3>4, <2>7, Zenon
    <2>11. /\ r.holes \in Seq(HoleType)
           /\ \A m \in 1 .. Len(r.holes) : WrittenOver(r.holes[m], Done(n), loc) /\ punch
      <3>1. CASE r.holes = acc.holes
        BY <2>2, <2>4, <2>6, <3>1, Zenon
      <3>2. CASE r.holes # acc.holes
        <4> DEFINE h == MkHole(files[val], acc.first, acc.length)
        <4>1. Collected(acc) /\ val \notin {0, Top} /\ r.holes = Append(acc.holes, h)
          BY <2>7, <3>2, Zenon
        <4>2. acc.idx # 0 /\ punch
          BY <4>1, <2>4 DEF Collected
        <4>3. WrittenOver(h, Done(n), loc)
          <5>1. \A c \in acc.first .. acc.first + acc.length - 1 : c \in Done(n) /\ loc[c] = acc.idx
            BY <2>1, <2>2, <4>2, Zenon
          <5>2. b \in Done(n) /\ val = loc[b] /\ loc[b] \in 1 .. Top - 1
            BY <2>1, <2>5, <4>1, Zenon
          <5> HIDE DEF val
          <5>3. QED
            BY <2>1, <2>2, <4>1, <5>1, <5>2, CollectedIs, Zenon
        <4>4. h \in HoleType
          BY <4>3, Zenon DEF WrittenOver
        <4> HIDE DEF h
        <4>5. r.holes \in Seq(HoleType)
          BY <2>4, <4>1, <4>4
        <4>6. ASSUME NEW m \in 1 .. Len(r.holes)
              PROVE  r.holes[m] = h \/ (m \in 1 .. Len(acc.holes) /\ r.holes[m] = acc.holes[m])
          BY <2>4, <4>1, <4>4
        <4>7. QED
          BY <2>2, <2>6, <4>2, <4>3, <4>5, <4>6, Zenon
      <3>3. QED
        BY <3>1, <3>2, Zenon
    <2>12. r \in AccType
      BY <2>7, <2>9, <2>10, <2>11, Zenon DEF AccType
    <2>13. QED
      BY <2>8, <2>10, <2>11, <2>12, Zenon DEF r
  <1> HIDE DEF Good
  <1>4. Bad = {}
    <2>1. SUFFICES ASSUME Bad # {} PROVE FALSE
      BY Zenon
    <2>2. PICK n \in Bad : \A y \in Bad : n <= y
      BY <2>1, LeastIs, Bad \in SUBSET Nat, Zenon
    <2>3. n # 0
      BY <1>2, Zenon
    <2>4. n - 1 \notin Bad /\ n \in 1 .. Len(run) /\ n - 1 \in 0 .. Len(run)
      <3>1. n \in 0 .. Len(run) /\ n - 1 \in Nat /\ n - 1 < n
        BY <2>2, <2>3
      <3> HIDE DEF Bad
      <3>2. QED
        BY <2>2, <2>3, <3>1
    <2>5. QED
      BY <1>3, <2>4, Zenon
  <1>5. Good(Len(run))
    BY <1>4
  <1> DEFINE acc == upTo[Len(run)]
             w == WriteRun(run, loc)
             h == MkHole(files[acc.idx], acc.first, acc.length)
  <1>6. /\ w.loc = acc.loc
        /\ w.holes = IF Collected(acc) THEN Append(acc.holes, h) ELSE acc.holes
    BY Zenon DEF WriteRun, upTo
  <1>7. Done(Len(run)) = D /\ D \in SUBSET Blocks
    OBVIOUS
  <1>8. /\ acc \in AccType
        /\ acc.loc = [b \in Blocks |-> IF b \in D THEN Top ELSE loc[b]]
        /\ acc.idx < Top
        /\ acc.idx # 0 =>
             /\ acc.length > 0
             /\ \A b \in acc.first .. acc.first + acc.length - 1 : b \in D /\ loc[b] = acc.idx
        /\ \A m \in 1 .. Len(acc.holes) : WrittenOver(acc.holes[m], D, loc) /\ punch
    BY <1>5, <1>7, Zenon DEF Good
  <1> HIDE DEF acc, w, Good, Done, Bad
  <1>9. acc.holes \in Seq(HoleType) /\ acc.idx \in Nat /\ acc.first \in Nat /\ acc.length \in Nat
    BY <1>8, Zenon DEF AccType
  <1>10. /\ w.holes \in Seq(HoleType)
         /\ \A m \in 1 .. Len(w.holes) : WrittenOver(w.holes[m], D, loc) /\ punch
    <2>1. CASE ~Collected(acc)
      BY <1>6, <1>8, <1>9, <2>1, Zenon
    <2>2. CASE Collected(acc)
      <3>1. acc.idx \in 1 .. Top - 1 /\ punch
        BY <1>8, <1>9, <2>2 DEF Collected
      <3>2. WrittenOver(h, D, loc)
        <4>0. \A b \in acc.first .. acc.first + acc.length - 1 : b \in D /\ loc[b] = acc.idx
          BY <1>8, <3>1
        <4>1. acc.first \in D /\ loc[acc.first] = acc.idx
          <5>1. acc.length > 0
            BY <1>8, <3>1
          <5>2. acc.first \in acc.first .. acc.first + acc.length - 1
            BY <1>9, <5>1
          <5>3. QED
            BY <4>0, <5>2, Zenon
        <4>2. loc[acc.first] \in 1 .. Top - 1
          BY <3>1, <4>1, Zenon
        <4>3. WrittenOver(MkHole(files[loc[acc.first]], acc.first, acc.length), D, loc)
          BY <1>7, <1>8, <2>2, <4>0, <4>1, <4>2, CollectedIs, Zenon
        <4>4. QED
          BY <4>1, <4>3, Zenon
      <3>3. h \in HoleType
        BY <3>2, Zenon DEF WrittenOver
      <3> HIDE DEF h
      <3>4. w.holes \in Seq(HoleType)
        BY <1>6, <1>9, <2>2, <3>3
      <3>5. ASSUME NEW m \in 1 .. Len(w.holes)
            PROVE  w.holes[m] = h \/ (m \in 1 .. Len(acc.holes) /\ w.holes[m] = acc.holes[m])
        BY <1>6, <1>9, <2>2, <3>3
      <3>6. QED
        BY <1>8, <3>1, <3>2, <3>4, <3>5, Zenon
    <2>3. QED
      BY <2>1, <2>2, Zenon
  <1>11. QED
    BY <1>6, <1>8, <1>10, Zenon DEF w, RunWritten

----------------------------------------------------------------------------
(* The invariant is kept: types, files and holes                             *)

\* ChainFacts: the chain's files are files, and the head is the last of them.
LEMMA ChainFacts ==
    ASSUME StructInv
    PROVE  /\ files \in Seq(Files) /\ Top \in Nat \ {0} /\ used \in Nat /\ snapIndx \in Nat
           /\ \A i \in 1 .. Top : files[i] \in Files /\ files[i] \in Nat
           /\ Top \in 1 .. Top /\ files[Top] \in Files
  <1>1. files \in Seq(Files) /\ Top \in 1 .. used /\ used \in Files /\ snapIndx \in 0 .. used
    BY Zenon DEF StructInv, MapTypes
  <1>2. used \in Nat /\ \A f \in Files : f \in Nat
    BY <1>1, LunMapAssumption DEF Files
  <1>3. \A i \in 1 .. Top : files[i] \in Files
    BY <1>1 DEF Top
  <1>4. Top \in Nat \ {0} /\ Top \in 1 .. Top /\ snapIndx \in Nat
    BY <1>1, <1>2
  <1>5. QED
    BY <1>1, <1>2, <1>3, <1>4, Zenon

\* ConcatIs: the elements of two sequences of holes.
LEMMA ConcatIs ==
    ASSUME NEW s \in Seq(HoleType), NEW t \in Seq(HoleType)
    PROVE  \A n \in 1 .. Len(s \o t) : \/ n \in 1 .. Len(s) /\ (s \o t)[n] = s[n]
                                       \/ \E m \in 1 .. Len(t) : (s \o t)[n] = t[m]
  <1>1. TAKE n \in 1 .. Len(s \o t)
  <1>2. CASE n <= Len(s)
    BY <1>2
  <1>3. CASE n > Len(s)
    <2>1. n - Len(s) \in 1 .. Len(t) /\ (s \o t)[n] = t[n - Len(s)]
      BY <1>3
    <2>2. QED
      BY <2>1, Zenon
  <1>4. QED
    BY <1>2, <1>3

\* SentHoles: holes that are sent for files below the head keep what the
\* invariant says about the channel (sendToCreateHole).
LEMMA SentHoles ==
    ASSUME StructInv, NEW new \in Seq(HoleType), holes' = holes \o new, worker' = worker,
           \A m \in 1 .. Len(new) : \E k \in 1 .. Top - 1 : new[m].file = files[k]
    PROVE  /\ holes' \in Seq(HoleType)
           /\ \A h \in Queued' : /\ h \in Queued \/ \E m \in 1 .. Len(new) : new[m] = h
                                 /\ h.file <= used /\ h.file # files[Top]
                                 /\ h.file \in closed => h \in Queued \/ holder.op = "closed"
  <1>1. holes \in Seq(HoleType)
    BY Zenon DEF StructInv, HoleTypes
  <1>2. holes' \in Seq(HoleType)
    BY <1>1
  <1>3. \A n \in 1 .. Len(holes') : \/ n \in 1 .. Len(holes) /\ holes'[n] = holes[n]
                                    \/ \E m \in 1 .. Len(new) : holes'[n] = new[m]
    BY <1>1, ConcatIs, Zenon
  <1>4. ASSUME NEW h \in Queued'
        PROVE  h \in Queued \/ \E m \in 1 .. Len(new) : new[m] = h
    BY <1>3, <1>4, Zenon DEF Queued
  <1>5. \A h \in Queued : h.file <= used /\ h.file # files[Top]
    BY Zenon DEF StructInv, ChainInv
  <1>6. \A k \in 1 .. Top - 1 : files[k] <= used /\ files[k] # files[Top] /\ k \in 1 .. Top
    BY ChainFacts DEF StructInv, ChainInv
  <1>7. holder.op # "closed" => \A i \in 1 .. Top : files[i] \notin closed
    BY Zenon DEF StructInv, CloseInv
  <1>8. ASSUME NEW h \in Queued', h \notin Queued
        PROVE  h.file <= used /\ h.file # files[Top] /\ (h.file \in closed => holder.op = "closed")
    <2>1. PICK m \in 1 .. Len(new) : new[m] = h
      BY <1>4, <1>8, Zenon
    <2>2. PICK k \in 1 .. Top - 1 : h.file = files[k]
      BY <2>1, Zenon
    <2>3. QED
      BY <1>6, <1>7, <2>2, Zenon
  <1>9. QED
    BY <1>2, <1>4, <1>5, <1>8, Zenon

\* WriteStruct: a write puts blocks into the head and holes into the channel
\* (WriteAt: fullWriteAt, readModifyWrite).
LEMMA WriteStruct ==
    ASSUME StructInv, Unlocked, CountWrite,
           NEW new \in Seq(HoleType), holes' = holes \o new,
           \A m \in 1 .. Len(new) : \E k \in 1 .. Top - 1 : new[m].file = files[k],
           NEW head \in FileData, data' = [data EXCEPT ![files[Top]] = head],
           vol' \in [Blocks -> Value \union {Unmapped}],
           location' \in [Blocks -> 0 .. Top],
           UNCHANGED <<files, kind, flags, snapIndx, rebuildVars, punch, worker, drain, cleanVars, used, snaps>>
    PROVE  StructInv'
  <1>1. /\ files' = files /\ kind' = kind /\ flags' = flags /\ snapIndx' = snapIndx /\ punch' = punch
        /\ stage' = stage /\ source' = source /\ copy' = copy /\ worker' = worker /\ drain' = drain
        /\ holder' = holder /\ folded' = folded /\ closed' = closed /\ used' = used /\ snaps' = snaps
    BY Zenon DEF rebuildVars, cleanVars
  <1>2. Top' = Top /\ Unlocked' = Unlocked
    BY <1>1, Zenon DEF Top, Unlocked
  <1>3. /\ holes' \in Seq(HoleType)
        /\ \A h \in Queued' : /\ h.file <= used /\ h.file # files[Top]
                              /\ h.file \in closed => h \in Queued \/ holder.op = "closed"
    BY <1>1, SentHoles, Zenon
  <1>4. data' \in [Files -> FileData] /\ \A f \in Files : f # files[Top] => data'[f] = data[f]
    BY ChainFacts, Zenon DEF StructInv, MapTypes
  <1>5. MapTypes'
    BY <1>1, <1>2, <1>4, LunMapAssumption DEF StructInv, MapTypes, CountWrite
  <1>6. HoleTypes'
    BY <1>1, <1>3, Zenon DEF StructInv, HoleTypes
  <1>7. RebuildTypes'
    BY <1>1, <1>2, Zenon DEF StructInv, RebuildTypes
  <1>8. ChainInv'
    <2>1. \A f \in Files : f > used => data'[f] = data[f]
      <3>1. files[Top] <= used /\ files[Top] \in Nat /\ used \in Nat
        BY ChainFacts, Zenon DEF StructInv, ChainInv
      <3>2. \A f \in Files : f > used => f # files[Top]
        BY <3>1 DEF Files
      <3>3. QED
        BY <1>4, <3>2, Zenon
    <2>2. QED
      BY <1>1, <1>2, <1>3, <2>1 DEF StructInv, ChainInv
  <1>9. RebuildInv'
    BY <1>1, <1>2, Zenon DEF StructInv, RebuildInv
  <1>10. CloseInv'
    BY <1>1, <1>2, <1>3, Zenon DEF StructInv, CloseInv
  <1>11. QED
    BY <1>5, <1>6, <1>7, <1>8, <1>9, <1>10, Zenon DEF StructInv

\* LookupIs: lookup finds a file of the chain, and remembers it (lookup).
LEMMA LookupIs ==
    ASSUME StructInv, NEW b \in Blocks
    PROVE  Lookup(b) \in 1 .. Top /\ Remember(b) \in [Blocks -> 0 .. Top]
  <1>1. Top \in Nat \ {0} /\ location \in [Blocks -> 0 .. Top]
    BY ChainFacts, Zenon DEF StructInv, MapTypes
  <1> DEFINE S == {1} \union {i \in 2 .. Top : Holds(i, b)}
  <1>2. S \in SUBSET (1 .. Top) /\ S \in SUBSET (0 .. Top) /\ S # {} /\ Top \in Nat
    BY <1>1
  <1>3. Max(S) \in S
    <2> HIDE DEF S
    <2>1. QED
      BY <1>2, MaxIs, Zenon
  <1>4. Max(S) \in 1 .. Top
    BY <1>2, <1>3, Zenon
  <1>5. Lookup(b) = IF Top = 1 THEN 1 ELSE IF location[b] # 0 THEN location[b] ELSE Max(S)
    BY Zenon DEF Lookup
  <1> HIDE DEF S
  <1>6. Lookup(b) \in 1 .. Top
    BY <1>1, <1>4, <1>5
  <1>7. Remember(b) \in [Blocks -> 0 .. Top]
    BY <1>1, <1>6 DEF Remember
  <1>8. QED
    BY <1>6, <1>7, Zenon

\* FullWriteIs: what a write of whole blocks does to the map and the channel
\* (fullWriteAt).
LEMMA FullWriteIs ==
    ASSUME StructInv, NEW first \in Blocks, NEW last \in first .. NumBlocks, FullWrite(first, last)
    PROVE  /\ location' = [b \in Blocks |-> IF b \in first .. last THEN Top ELSE location[b]]
           /\ \E new \in Seq(HoleType) :
                 /\ holes' = holes \o new
                 /\ \A m \in 1 .. Len(new) : WrittenOver(new[m], first .. last, location) /\ punch
  <1> DEFINE run == [i \in 1 .. last - first + 1 |-> first + i - 1]
             D == first .. last
             w == WriteRun(run, location)
  <1>1. first \in Nat /\ last \in Nat /\ first <= last /\ D \in SUBSET Blocks
    BY LunMapAssumption DEF Blocks
  <1>2. run \in Seq(Blocks) /\ Len(run) = last - first + 1
    BY <1>1, LunMapAssumption DEF Blocks
  <1>3. D = {run[i] : i \in 1 .. Len(run)}
    <2>1. ASSUME NEW d \in D PROVE \E i \in 1 .. Len(run) : d = run[i]
      <3>1. d - first + 1 \in 1 .. Len(run) /\ run[d - first + 1] = d
        BY <1>1, <1>2
      <3>2. QED
        BY <3>1, Zenon
    <2>2. ASSUME NEW i \in 1 .. Len(run) PROVE run[i] \in D
      BY <1>1, <1>2
    <2> HIDE DEF D, run
    <2>3. QED
      BY <2>1, <2>2, Zenon
  <1>4. location' = w.loc /\ holes' = holes \o w.holes
    BY Zenon DEF FullWrite, Send
  <1>5. location \in [Blocks -> 0 .. Top]
    BY Zenon DEF StructInv, MapTypes
  <1> HIDE DEF run, D
  <1>6. /\ w.loc = [b \in Blocks |-> IF b \in D THEN Top ELSE location[b]]
        /\ w.holes \in Seq(HoleType)
        /\ \A m \in 1 .. Len(w.holes) : WrittenOver(w.holes[m], D, location) /\ punch
    <2>1. RunWritten(w, D, location)
      BY <1>2, <1>3, <1>5, ChainFacts, WriteRunIs, Zenon
    <2> HIDE DEF w
    <2>2. QED
      BY <2>1, Zenon DEF RunWritten
  <1> HIDE DEF w
  <1>7. QED
    BY <1>4, <1>6, Zenon DEF D

\* PartialWriteIs: the same for a write within a block (readModifyWrite).
LEMMA PartialWriteIs ==
    ASSUME StructInv, NEW b \in Blocks, PartialWrite(b)
    PROVE  /\ location' = [c \in Blocks |-> IF c = b THEN Top ELSE location[c]]
           /\ \E new \in Seq(HoleType) :
                 /\ holes' = holes \o new
                 /\ \A m \in 1 .. Len(new) : WrittenOver(new[m], {b}, Remember(b)) /\ punch
  <1> DEFINE run == <<b>>
             D == {b}
             loc == Remember(b)
             w == WriteRun(run, loc)
  <1>1. run \in Seq(Blocks) /\ Len(run) = 1 /\ run[1] = b
    OBVIOUS
  <1>2. D = {run[i] : i \in 1 .. Len(run)}
    <2> HIDE DEF run
    <2>1. QED
      BY <1>1
  <1>3. location' = w.loc /\ holes' = holes \o w.holes
    BY Zenon DEF PartialWrite, Send
  <1>4. loc \in [Blocks -> 0 .. Top]
    BY LookupIs, Zenon
  <1> HIDE DEF run, D
  <1>5. \A c \in Blocks : c \notin D => loc[c] = location[c]
    BY Zenon DEF StructInv, MapTypes, Remember, D
  <1> HIDE DEF loc
  <1>6. /\ w.loc = [c \in Blocks |-> IF c \in D THEN Top ELSE loc[c]]
        /\ w.holes \in Seq(HoleType)
        /\ \A m \in 1 .. Len(w.holes) : WrittenOver(w.holes[m], D, loc) /\ punch
    <2>1. RunWritten(w, D, loc)
      BY <1>1, <1>2, <1>4, ChainFacts, WriteRunIs, Zenon
    <2> HIDE DEF w
    <2>2. QED
      BY <2>1, Zenon DEF RunWritten
  <1> HIDE DEF w
  <1>7. w.loc = [c \in Blocks |-> IF c = b THEN Top ELSE location[c]]
    BY <1>5, <1>6, Zenon DEF D
  <1>8. QED
    BY <1>3, <1>6, <1>7, Zenon DEF D, loc

\* BelowHead: what a write sends is for files below the head (fullWriteAt).
LEMMA BelowHead ==
    ASSUME NEW new, NEW D, NEW loc, \A m \in 1 .. Len(new) : WrittenOver(new[m], D, loc) /\ punch
    PROVE  \A m \in 1 .. Len(new) : \E k \in 1 .. Top - 1 : new[m].file = files[k]
  BY Zenon DEF WrittenOver

\* ValueIs: what a write and a read of a block have (WriteAt, ReadAt).
LEMMA ValueIs ==
    ASSUME StructInv
    PROVE  /\ Zeros \in Value
           /\ writes < MaxWrites => /\ [s \in Sectors |-> writes + 1] \in Value
                                    /\ \A v \in Value : [v EXCEPT ![1] = writes + 1] \in Value
           /\ \A f \in Files, b \in Blocks : Contents(f, b) \in Value
  <1>1. writes \in 0 .. MaxWrites /\ data \in [Files -> FileData]
    BY Zenon DEF StructInv, MapTypes
  <1>2. 0 \in -2 .. MaxWrites /\ (writes < MaxWrites => writes + 1 \in -2 .. MaxWrites)
    BY <1>1, LunMapAssumption
  <1>3. Zeros \in Value
    BY <1>2, Zenon DEF Zeros, Value
  <1>4. ASSUME writes < MaxWrites
        PROVE  /\ [s \in Sectors |-> writes + 1] \in Value
               /\ \A v \in Value : [v EXCEPT ![1] = writes + 1] \in Value
    BY <1>2, <1>4, Zenon DEF Value
  <1>5. ASSUME NEW f \in Files, NEW b \in Blocks PROVE Contents(f, b) \in Value
    BY <1>1, <1>3, Zenon DEF FileData, Contents
  <1>6. QED
    BY <1>3, <1>4, <1>5, Zenon

\* FullWriteStruct: a write of whole blocks keeps the invariant (fullWriteAt).
LEMMA FullWriteStruct ==
    ASSUME StructInv, NEW first \in Blocks, NEW last \in first .. NumBlocks, FullWrite(first, last)
    PROVE  StructInv'
  <1> DEFINE block == [s \in Sectors |-> writes + 1]
             head == [b \in Blocks |-> IF b \in first .. last THEN block ELSE data[files[Top]][b]]
  <1>1. /\ Unlocked /\ CountWrite
        /\ data' = [data EXCEPT ![files[Top]] = [b \in Blocks |-> IF b \in first .. last THEN block ELSE @[b]]]
        /\ vol' = [b \in Blocks |-> IF b \in first .. last THEN block ELSE vol[b]]
        /\ UNCHANGED <<files, kind, flags, snapIndx, rebuildVars, punch, worker, drain, cleanVars, used, snaps>>
    BY Zenon DEF FullWrite
  <1>2. files[Top] \in Files /\ data \in [Files -> FileData] /\ vol \in [Blocks -> Value \union {Unmapped}]
        /\ location \in [Blocks -> 0 .. Top] /\ Top \in 0 .. Top
    BY ChainFacts DEF StructInv, MapTypes
  <1>3. block \in Value
    BY <1>1, ValueIs, Zenon DEF CountWrite
  <1> HIDE DEF block
  <1>4. head \in FileData /\ data' = [data EXCEPT ![files[Top]] = head]
    BY <1>1, <1>2, <1>3, Zenon DEF FileData
  <1>5. vol' \in [Blocks -> Value \union {Unmapped}]
    BY <1>1, <1>2, <1>3, Zenon
  <1>6. location' = [b \in Blocks |-> IF b \in first .. last THEN Top ELSE location[b]]
    BY FullWriteIs, Zenon
  <1>7. location' \in [Blocks -> 0 .. Top]
    BY <1>2, <1>6, Zenon
  <1>8. PICK new \in Seq(HoleType) :
            /\ holes' = holes \o new
            /\ \A m \in 1 .. Len(new) : WrittenOver(new[m], first .. last, location) /\ punch
    BY FullWriteIs, Zenon
  <1>9. \A m \in 1 .. Len(new) : \E k \in 1 .. Top - 1 : new[m].file = files[k]
    BY <1>8, BelowHead, Zenon
  <1> HIDE DEF head
  <1>10. QED
    BY <1>1, <1>4, <1>5, <1>7, <1>8, <1>9, WriteStruct, Zenon

\* PartialWriteStruct: so does a write within a block (readModifyWrite).
LEMMA PartialWriteStruct ==
    ASSUME StructInv, NEW b \in Blocks, PartialWrite(b)
    PROVE  StructInv'
  <1> DEFINE block == [ReadBlock(b) EXCEPT ![1] = writes + 1]
             head == [data[files[Top]] EXCEPT ![b] = block]
  <1>1. /\ Unlocked /\ CountWrite
        /\ data' = [data EXCEPT ![files[Top]][b] = block]
        /\ vol' = [vol EXCEPT ![b] = IF @ = Unmapped THEN block ELSE [@ EXCEPT ![1] = writes + 1]]
        /\ UNCHANGED <<files, kind, flags, snapIndx, rebuildVars, punch, worker, drain, cleanVars, used, snaps>>
    BY Zenon DEF PartialWrite
  <1>2. files[Top] \in Files /\ data \in [Files -> FileData] /\ vol \in [Blocks -> Value \union {Unmapped}]
        /\ location \in [Blocks -> 0 .. Top] /\ Top \in 0 .. Top
    BY ChainFacts DEF StructInv, MapTypes
  <1>3. \A v \in Value : [v EXCEPT ![1] = writes + 1] \in Value
    BY <1>1, ValueIs, Zenon DEF CountWrite
  <1>4. ReadBlock(b) \in Value
    BY ChainFacts, LookupIs, ValueIs, Zenon DEF ReadBlock
  <1>5. block \in Value
    BY <1>3, <1>4, Zenon
  <1> HIDE DEF block
  <1>6. head \in FileData /\ data' = [data EXCEPT ![files[Top]] = head]
    BY <1>1, <1>2, <1>5, Zenon DEF FileData
  <1>7. vol' \in [Blocks -> Value \union {Unmapped}]
    BY <1>1, <1>2, <1>3, <1>5, Zenon
  <1>8. location' = [c \in Blocks |-> IF c = b THEN Top ELSE location[c]]
    BY PartialWriteIs, Zenon
  <1>9. location' \in [Blocks -> 0 .. Top]
    BY <1>2, <1>8, Zenon
  <1>10. PICK new \in Seq(HoleType) :
            /\ holes' = holes \o new
            /\ \A m \in 1 .. Len(new) : WrittenOver(new[m], {b}, Remember(b)) /\ punch
    BY PartialWriteIs, Zenon
  <1>11. \A m \in 1 .. Len(new) : \E k \in 1 .. Top - 1 : new[m].file = files[k]
    BY <1>10, BelowHead, Zenon
  <1> HIDE DEF head
  <1>12. QED
    BY <1>1, <1>6, <1>7, <1>9, <1>10, <1>11, WriteStruct, Zenon

\* the holes queued after a step were queued, or are for files created that are
\* neither the head nor closed
QueuedWell ==
    \A h \in Queued' : h \in Queued \/ /\ h.file <= used /\ h.file # files[Top]
                                       /\ holder.op # "closed" => h.file \notin closed

\* what is folded after a step is not the head
FoldedWell == folded' \in {folded, None} \/ (folded' <= used /\ folded' # files[Top])

\* SameFiles: a step that keeps the chain keeps its invariant.
LEMMA SameFiles ==
    ASSUME StructInv, UNCHANGED <<files, kind, used, snaps>>,
           flags' \in Seq(BOOLEAN), Len(flags') = Top, snapIndx' \in 0 .. used,
           location' \in [Blocks -> 0 .. Top], punch' \in BOOLEAN, writes' \in 0 .. MaxWrites,
           vol' \in [Blocks -> Value \union {Unmapped}], data' \in [Files -> FileData],
           \A f \in Files : f > used => data'[f] = data[f] /\ source'[f] \in {source[f], None},
           QueuedWell, FoldedWell
    PROVE  MapTypes' /\ ChainInv'
  <1>1. files' = files /\ kind' = kind /\ used' = used /\ snaps' = snaps
    BY Zenon
  <1>2. Top' = Top
    BY <1>1, Zenon DEF Top
  <1>3. MapTypes'
    BY <1>1, <1>2, Zenon DEF StructInv, MapTypes
  <1>4. ChainInv
    BY Zenon DEF StructInv
  <1>5. \A h \in Queued' : h.file <= used /\ h.file # files[Top]
    BY <1>4, Zenon DEF ChainInv, QueuedWell
  <1>6. folded' # None => folded' <= used /\ folded' # files[Top]
    BY <1>4, Zenon DEF ChainInv, FoldedWell
  <1>7. ChainInv'
    BY <1>1, <1>2, <1>4, <1>5, <1>6 DEF ChainInv
  <1>8. QED
    BY <1>3, <1>7, Zenon

\* SameMap: so does one that changes neither the map nor what was written.
LEMMA SameMap ==
    ASSUME StructInv, UNCHANGED <<mapVars, punch, counters, ghosts>>,
           data' \in [Files -> FileData],
           \A f \in Files : f > used => data'[f] = data[f] /\ source'[f] \in {source[f], None},
           QueuedWell, FoldedWell
    PROVE  MapTypes' /\ ChainInv'
  <1>1. /\ files' = files /\ kind' = kind /\ used' = used /\ snaps' = snaps /\ flags' = flags
        /\ snapIndx' = snapIndx /\ location' = location /\ punch' = punch /\ writes' = writes /\ vol' = vol
    BY Zenon DEF mapVars, counters, ghosts
  <1>2. /\ flags \in Seq(BOOLEAN) /\ Len(flags) = Top /\ snapIndx \in 0 .. used
        /\ location \in [Blocks -> 0 .. Top] /\ punch \in BOOLEAN /\ writes \in 0 .. MaxWrites
        /\ vol \in [Blocks -> Value \union {Unmapped}]
    BY Zenon DEF StructInv, MapTypes
  <1>3. QED
    BY <1>1, <1>2, SameFiles, Zenon

\* SameHoles: a step that leaves the channel alone.
LEMMA SameHoles ==
    ASSUME UNCHANGED <<holes, worker>>
    PROVE  Queued' = Queued /\ QueuedWell
  BY Zenon DEF Queued, QueuedWell

\* SameRebuild: a step that is not of a rebuild.
LEMMA SameRebuild ==
    ASSUME StructInv, UNCHANGED <<files, rebuildVars>>
    PROVE  RebuildTypes'
  <1>1. files' = files /\ stage' = stage /\ source' = source /\ copy' = copy
    BY Zenon DEF rebuildVars
  <1>2. Top' = Top
    BY <1>1, Zenon DEF Top
  <1>3. QED
    BY <1>1, <1>2, Zenon DEF StructInv, RebuildTypes

\* SameLock: a step that changes neither the lock nor what is folded or closed.
LEMMA SameLock ==
    ASSUME StructInv, UNCHANGED <<files, used, cleanVars>>, stage' = stage \/ stage' = "done" \/ stage # "done",
           drain' = drain, QueuedWell, Unlocked \/ Queued' \subseteq Queued
    PROVE  RebuildInv' /\ CloseInv'
  <1>1. files' = files /\ used' = used /\ holder' = holder /\ folded' = folded /\ closed' = closed
    BY Zenon DEF cleanVars
  <1>2. Top' = Top /\ Unlocked' = Unlocked
    BY <1>1, Zenon DEF Top, Unlocked
  <1>3. RebuildInv'
    BY <1>1, <1>2, Zenon DEF StructInv, RebuildInv
  <1>4. CloseInv
    BY Zenon DEF StructInv
  <1>5. ~Unlocked /\ drain = "done" => Queued' = {}
    BY <1>4, Zenon DEF CloseInv
  <1>6. CloseInv'
    BY <1>1, <1>2, <1>4, <1>5, Zenon DEF CloseInv, QueuedWell
  <1>7. QED
    BY <1>3, <1>6, Zenon

\* ReadStruct: a read only fills the map in (ReadAt: lookup).
LEMMA ReadStruct ==
    ASSUME StructInv, NEW b \in Blocks, ReadAt(b)
    PROVE  StructInv'
  <1>1. /\ Unlocked /\ location' = Remember(b)
        /\ UNCHANGED <<files, kind, flags, snapIndx, data, rebuildVars, punch, holeVars, cleanVars, counters, ghosts>>
    BY Zenon DEF ReadAt
  <1>2. /\ files' = files /\ kind' = kind /\ flags' = flags /\ snapIndx' = snapIndx /\ data' = data
        /\ stage' = stage /\ source' = source /\ punch' = punch /\ holes' = holes /\ worker' = worker
        /\ drain' = drain /\ folded' = folded /\ used' = used /\ writes' = writes /\ vol' = vol /\ snaps' = snaps
    BY <1>1, Zenon DEF rebuildVars, holeVars, cleanVars, counters, ghosts
  <1>3. QueuedWell /\ FoldedWell
    BY <1>2, SameHoles, Zenon DEF FoldedWell
  <1>4. MapTypes' /\ ChainInv'
    <2>1. location' \in [Blocks -> 0 .. Top]
      BY <1>1, LookupIs, Zenon
    <2>2. /\ flags \in Seq(BOOLEAN) /\ Len(flags) = Top /\ snapIndx \in 0 .. used
          /\ punch \in BOOLEAN /\ writes \in 0 .. MaxWrites
          /\ vol \in [Blocks -> Value \union {Unmapped}] /\ data \in [Files -> FileData]
      BY Zenon DEF StructInv, MapTypes
    <2>3. QED
      BY <1>2, <1>3, <2>1, <2>2, SameFiles, Zenon
  <1>5. HoleTypes'
    BY <1>1, <1>2, Zenon DEF StructInv, HoleTypes, cleanVars
  <1>6. RebuildTypes'
    BY <1>1, SameRebuild, Zenon
  <1>7. RebuildInv' /\ CloseInv'
    BY <1>1, <1>2, <1>3, SameLock, Zenon
  <1>8. QED
    BY <1>4, <1>5, <1>6, <1>7, Zenon DEF StructInv

\* UnmapStruct: Unmap punches files of the chain only (UnmapAt).
LEMMA UnmapStruct ==
    ASSUME StructInv, NEW b \in Blocks, Unmap(b)
    PROVE  StructInv'
  <1>1. /\ Unlocked /\ CountWrite
        /\ data' = [f \in Files |-> IF \E i \in snapIndx + 1 .. Top : files[i] = f
                                    THEN [data[f] EXCEPT ![b] = Hole] ELSE data[f]]
        /\ vol' = [vol EXCEPT ![b] = Unmapped]
        /\ UNCHANGED <<mapVars, rebuildVars, punch, holeVars, cleanVars, used, snaps>>
    BY Zenon DEF Unmap
  <1>2. /\ files' = files /\ kind' = kind /\ flags' = flags /\ snapIndx' = snapIndx /\ location' = location
        /\ stage' = stage /\ source' = source /\ punch' = punch /\ holes' = holes /\ worker' = worker
        /\ drain' = drain /\ folded' = folded /\ used' = used /\ snaps' = snaps
    BY <1>1, Zenon DEF mapVars, rebuildVars, holeVars, cleanVars
  <1>3. QueuedWell /\ FoldedWell
    BY <1>2, SameHoles, Zenon DEF FoldedWell
  <1>4. data' \in [Files -> FileData]
    BY <1>1, Zenon DEF StructInv, MapTypes, FileData
  <1>5. \A f \in Files : f > used => data'[f] = data[f]
    <2>1. \A i \in snapIndx + 1 .. Top : files[i] <= used /\ files[i] \in Nat
      BY ChainFacts DEF StructInv, ChainInv
    <2>2. \A f \in Files : f > used => ~ \E i \in snapIndx + 1 .. Top : files[i] = f
      BY <2>1, ChainFacts
    <2>3. QED
      BY <1>1, <2>2, Zenon
  <1>6. MapTypes' /\ ChainInv'
    <2>1. /\ flags \in Seq(BOOLEAN) /\ Len(flags) = Top /\ snapIndx \in 0 .. used
          /\ location \in [Blocks -> 0 .. Top] /\ punch \in BOOLEAN
      BY Zenon DEF StructInv, MapTypes
    <2>2. writes' \in 0 .. MaxWrites /\ vol' \in [Blocks -> Value \union {Unmapped}]
      <3>1. writes < MaxWrites /\ writes' = writes + 1 /\ writes \in 0 .. MaxWrites
            /\ vol \in [Blocks -> Value \union {Unmapped}]
        BY <1>1, Zenon DEF StructInv, MapTypes, CountWrite
      <3>2. writes' \in 0 .. MaxWrites
        BY <3>1, LunMapAssumption
      <3>3. QED
        BY <1>1, <3>1, <3>2, Zenon
    <2>3. QED
      BY <1>2, <1>3, <1>4, <1>5, <2>1, <2>2, SameFiles, Zenon
  <1>7. HoleTypes'
    BY <1>1, <1>2, Zenon DEF StructInv, HoleTypes, cleanVars
  <1>8. RebuildTypes'
    BY <1>1, <1>2, SameRebuild, Zenon
  <1>9. RebuildInv' /\ CloseInv'
    BY <1>1, <1>2, <1>3, SameLock, Zenon
  <1>10. QED
    BY <1>6, <1>7, <1>8, <1>9, Zenon DEF StructInv

\* ReceiveStruct: CreateHoles takes a hole, or ends a drain with an empty
\* channel (CreateHoles).
LEMMA ReceiveStruct ==
    ASSUME StructInv, Receive
    PROVE  StructInv' /\ Queued' \subseteq Queued
  <1>1. /\ worker = None /\ holes # <<>>
        /\ \/ drain = "start" /\ holes' = <<>> /\ drain' = "done" /\ worker' = worker
           \/ /\ drain # "start" /\ holes' = Tail(holes) /\ drain' = drain
              /\ worker' = IF Head(holes).file = None THEN None ELSE Head(holes)
        /\ UNCHANGED <<mapVars, data, rebuildVars, punch, cleanVars, counters, ghosts>>
    BY Zenon DEF Receive
  <1>2. files' = files /\ data' = data /\ source' = source /\ folded' = folded /\ used' = used /\ stage' = stage
    BY <1>1, Zenon DEF mapVars, rebuildVars, cleanVars, counters
  <1>3. holes \in Seq(HoleType) /\ drain \in {"start", "done"} /\ data \in [Files -> FileData]
    BY Zenon DEF StructInv, HoleTypes, MapTypes
  <1>4. /\ holes' \in Seq(HoleType)
        /\ \A i \in 1 .. Len(holes') : \E j \in 1 .. Len(holes) : holes'[i] = holes[j]
        /\ Head(holes) = holes[1] /\ 1 \in 1 .. Len(holes) /\ holes[1] \in HoleType
    <2>1. Tail(holes) \in Seq(HoleType) /\ Len(Tail(holes)) = Len(holes) - 1
          /\ \A i \in 1 .. Len(Tail(holes)) : i + 1 \in 1 .. Len(holes) /\ Tail(holes)[i] = holes[i + 1]
      BY <1>1, <1>3
    <2>2. /\ <<>> \in Seq(HoleType) /\ Len(<<>>) = 0 /\ Head(holes) = holes[1] /\ 1 \in 1 .. Len(holes)
          /\ holes[1] \in HoleType
      BY <1>1, <1>3
    <2>3. CASE holes' = <<>>
      BY <2>2, <2>3
    <2>4. CASE holes' = Tail(holes)
      BY <2>1, <2>2, <2>4, Zenon
    <2>5. QED
      BY <1>1, <2>3, <2>4, Zenon
  <1>5. worker' \in {None, holes[1]}
    BY <1>1, <1>4, Zenon
  <1>6. Queued' \subseteq Queued
    <2>1. SUFFICES ASSUME NEW h \in HoleType, h.file # None,
                          h = worker' \/ \E i \in 1 .. Len(holes') : holes'[i] = h
                   PROVE  \E j \in 1 .. Len(holes) : holes[j] = h
      BY Zenon DEF Queued
    <2>2. CASE h = worker'
      <3>1. h # None
        BY NoValueAssumption, Zenon
      <3>2. QED
        BY <1>4, <1>5, <2>2, <3>1, Zenon
    <2>3. QED
      BY <1>4, <2>1, <2>2, Zenon
  <1>7. QueuedWell /\ FoldedWell
    BY <1>2, <1>6, Zenon DEF QueuedWell, FoldedWell
  <1>8. MapTypes' /\ ChainInv'
    BY <1>1, <1>2, <1>3, <1>7, SameMap, Zenon
  <1>9. HoleTypes'
    BY <1>1, <1>3, <1>4, <1>5, Zenon DEF StructInv, HoleTypes, cleanVars
  <1>10. RebuildTypes'
    BY <1>1, <1>2, SameRebuild, Zenon
  <1>11. RebuildInv' /\ CloseInv'
    <2>1. CASE drain' = drain
      BY <1>1, <1>2, <1>6, <1>7, <2>1, SameLock, Zenon
    <2>2. CASE drain' # drain
      <3>1. worker' = None /\ holes' = <<>> /\ drain = "start" /\ drain' = "done"
        BY <1>1, <2>2, Zenon
      <3>2. Len(<<>>) = 0 /\ \A i \in 1 .. 0 : FALSE
        OBVIOUS
      <3>3. Queued' = {}
        BY <3>1, <3>2, NoValueAssumption, Zenon DEF Queued
      <3>4. holder' = holder /\ folded' = folded /\ closed' = closed /\ Top' = Top /\ Unlocked' = Unlocked
        BY <1>1, <1>2, Zenon DEF cleanVars, Top, Unlocked
      <3>5. RebuildInv'
        BY <1>2, <3>4, Zenon DEF StructInv, RebuildInv
      <3>6. CloseInv'
        BY <1>2, <1>6, <3>1, <3>3, <3>4, Zenon DEF StructInv, CloseInv
      <3>7. QED
        BY <3>5, <3>6, Zenon
    <2>3. QED
      BY <2>1, <2>2, Zenon
  <1>12. QED
    BY <1>6, <1>8, <1>9, <1>10, <1>11, Zenon DEF StructInv

\* PunchStruct: CreateHoles punches a file that was created (CreateHoles).
LEMMA PunchStruct ==
    ASSUME StructInv, Punch
    PROVE  StructInv' /\ Queued' \subseteq Queued
  <1>1. /\ worker # None /\ worker' = None
        /\ data' = [data EXCEPT ![worker.file] = [b \in Blocks |-> IF b \in worker.blocks THEN Hole ELSE @[b]]]
        /\ UNCHANGED <<mapVars, rebuildVars, punch, holes, drain, cleanVars, counters, ghosts>>
    BY Zenon DEF Punch
  <1>2. /\ files' = files /\ source' = source /\ folded' = folded /\ used' = used /\ stage' = stage
        /\ holes' = holes /\ drain' = drain
    BY <1>1, Zenon DEF mapVars, rebuildVars, cleanVars, counters
  <1>3. data \in [Files -> FileData] /\ worker \in HoleType
    BY <1>1, Zenon DEF StructInv, HoleTypes, MapTypes
  <1>4. data' \in [Files -> FileData]
    BY <1>1, <1>3, Zenon DEF FileData
  <1>5. worker.file \in Files => worker.file <= used
    <2>1. worker.file # None => worker \in Queued
      BY <1>3, Zenon DEF Queued
    <2>2. QED
      BY <2>1, NoValueAssumption, Zenon DEF StructInv, ChainInv
  <1>6. \A f \in Files : f > used => data'[f] = data[f]
    <2>1. \A f \in Files : f > used => f # worker.file
      BY <1>5, ChainFacts DEF Files
    <2>2. QED
      BY <1>1, <1>3, <2>1, Zenon
  <1>7. Queued' \subseteq Queued
    BY <1>1, <1>2, NoValueAssumption, Zenon DEF Queued
  <1>8. QueuedWell /\ FoldedWell
    BY <1>2, <1>7, Zenon DEF QueuedWell, FoldedWell
  <1>9. MapTypes' /\ ChainInv'
    BY <1>1, <1>2, <1>4, <1>6, <1>8, SameMap, Zenon
  <1>10. HoleTypes'
    BY <1>1, <1>2, Zenon DEF StructInv, HoleTypes, cleanVars
  <1>11. RebuildTypes'
    BY <1>1, <1>2, SameRebuild, Zenon
  <1>12. RebuildInv' /\ CloseInv'
    BY <1>1, <1>2, <1>7, <1>8, SameLock, Zenon
  <1>13. QED
    BY <1>7, <1>9, <1>10, <1>11, <1>12, Zenon DEF StructInv

\* FoldStruct: the cleaner folds a file below the head (sfold).
LEMMA FoldStruct ==
    ASSUME StructInv, NEW i \in 1 .. Top, Fold(i)
    PROVE  StructInv'
  <1>1. /\ IsRW /\ folded = None /\ i \in 2 .. Top - 2 /\ folded' = files[i]
        /\ data' = [data EXCEPT ![files[i - 1]] = [b \in Blocks |-> IF Holds(i, b) THEN data[files[i]][b] ELSE @[b]]]
        /\ UNCHANGED <<mapVars, rebuildVars, punch, holeVars, holder, closed, counters, ghosts>>
    BY Zenon DEF Fold
  <1>2. /\ files' = files /\ source' = source /\ used' = used /\ stage' = stage
        /\ holes' = holes /\ drain' = drain /\ worker' = worker /\ holder' = holder /\ closed' = closed
    BY <1>1, Zenon DEF mapVars, rebuildVars, holeVars, counters
  <1>3. /\ files[i] \in Files /\ files[i - 1] \in Files /\ files[i] <= used /\ files[i - 1] <= used
        /\ files[i] # files[Top] /\ i \in 1 .. Top /\ Top \in 1 .. Top /\ used \in Nat
    BY <1>1, ChainFacts DEF StructInv, ChainInv
  <1>4. data \in [Files -> FileData]
    BY Zenon DEF StructInv, MapTypes
  <1>5. data' \in [Files -> FileData]
    BY <1>1, <1>3, <1>4 DEF FileData
  <1>6. \A f \in Files : f > used => data'[f] = data[f]
    <2>1. \A f \in Files : f > used => f # files[i - 1]
      BY <1>3 DEF Files
    <2>2. QED
      BY <1>1, <1>4, <2>1, Zenon
  <1>7. QueuedWell /\ FoldedWell /\ Queued' = Queued
    BY <1>1, <1>2, <1>3, SameHoles, Zenon DEF FoldedWell
  <1>8. MapTypes' /\ ChainInv'
    BY <1>1, <1>2, <1>5, <1>6, <1>7, SameMap, Zenon
  <1>9. HoleTypes'
    BY <1>1, <1>2, <1>3, Zenon DEF StructInv, HoleTypes
  <1>10. RebuildTypes'
    BY <1>1, <1>2, SameRebuild, Zenon
  <1>11. RebuildInv'
    BY <1>1, <1>2, Zenon DEF RebuildInv, IsRW
  <1>12. Top' = Top /\ Unlocked' = Unlocked
    BY <1>2, Zenon DEF Top, Unlocked
  <1>13. CloseInv'
    BY <1>1, <1>2, <1>7, <1>12, Zenon DEF StructInv, CloseInv
  <1>14. QED
    BY <1>8, <1>9, <1>10, <1>11, <1>13, Zenon DEF StructInv

\* EmptyHoleStruct: the hole that wakes CreateHoles is for no file
\* (holeDrainer).
LEMMA EmptyHoleStruct ==
    ASSUME StructInv, SendEmptyHole
    PROVE  StructInv' /\ Queued' \subseteq Queued
  <1> DEFINE e == MkHole(None, 1, 0)
  <1>1. /\ ~Unlocked /\ holes' = holes \o <<e>> /\ holder' = [holder EXCEPT !.sent = TRUE]
        /\ UNCHANGED <<mapVars, data, rebuildVars, punch, worker, drain, folded, closed, counters, ghosts>>
    BY Zenon DEF SendEmptyHole, Send
  <1>2. /\ files' = files /\ data' = data /\ source' = source /\ folded' = folded /\ used' = used /\ stage' = stage
        /\ worker' = worker /\ drain' = drain /\ closed' = closed
    BY <1>1, Zenon DEF mapVars, rebuildVars, counters
  <1>3. e \in HoleType /\ e.file = None
    BY DEF MkHole, HoleType
  <1> HIDE DEF e
  <1>4. /\ holes \in Seq(HoleType) /\ data \in [Files -> FileData]
        /\ holder \in [op : {"none", "remove", "close", "closed"}, file : Files \union {None}, sent : BOOLEAN]
    BY Zenon DEF StructInv, HoleTypes, MapTypes
  <1>5. /\ holes' \in Seq(HoleType)
        /\ \A n \in 1 .. Len(holes') : (n \in 1 .. Len(holes) /\ holes'[n] = holes[n]) \/ holes'[n] = e
    BY <1>1, <1>3, <1>4
  <1>6. Queued' \subseteq Queued
    BY <1>2, <1>3, <1>5, Zenon DEF Queued
  <1>7. /\ holder' \in [op : {"none", "remove", "close", "closed"}, file : Files \union {None}, sent : BOOLEAN]
        /\ holder'.op = holder.op /\ holder'.file = holder.file
    BY <1>1, <1>4, Zenon
  <1>8. QueuedWell /\ FoldedWell
    BY <1>2, <1>6, Zenon DEF QueuedWell, FoldedWell
  <1>9. MapTypes' /\ ChainInv'
    BY <1>1, <1>2, <1>4, <1>8, SameMap, Zenon
  <1>10. HoleTypes'
    BY <1>2, <1>5, <1>7, Zenon DEF StructInv, HoleTypes
  <1>11. RebuildTypes'
    BY <1>1, <1>2, SameRebuild, Zenon
  <1>12. Top' = Top /\ Unlocked' = Unlocked
    BY <1>2, <1>7, Zenon DEF Top, Unlocked
  <1>13. RebuildInv'
    BY <1>2, <1>12, Zenon DEF StructInv, RebuildInv
  <1>14. CloseInv'
    BY <1>2, <1>6, <1>7, <1>12, Zenon DEF StructInv, CloseInv
  <1>15. QED
    BY <1>6, <1>9, <1>10, <1>11, <1>13, <1>14, Zenon DEF StructInv

\* StartDrainStruct: RemoveDiffDisk and Close take the lock and start a drain
\* (holeDrainer).
LEMMA StartDrainStruct ==
    ASSUME StructInv, Unlocked, IsRW, NEW op \in {"remove", "close"}, NEW f \in Files \union {None},
           op = "remove" => f = folded /\ folded # None, StartDrain(op, f)
    PROVE  StructInv'
  <1>1. /\ drain' = "start" /\ holder' = [op |-> op, file |-> f, sent |-> FALSE]
        /\ UNCHANGED <<mapVars, data, rebuildVars, punch, holes, worker, folded, closed, counters, ghosts>>
    BY Zenon DEF StartDrain
  <1>2. /\ files' = files /\ data' = data /\ source' = source /\ folded' = folded /\ used' = used /\ stage' = stage
        /\ worker' = worker /\ holes' = holes /\ closed' = closed
    BY <1>1, Zenon DEF mapVars, rebuildVars, counters
  <1>3. QueuedWell /\ FoldedWell /\ Queued' = Queued
    BY <1>2, SameHoles, Zenon DEF FoldedWell
  <1>4. MapTypes' /\ ChainInv'
    <2>1. data \in [Files -> FileData]
      BY Zenon DEF StructInv, MapTypes
    <2>2. QED
      BY <1>1, <1>2, <1>3, <2>1, SameMap, Zenon
  <1>5. holder'.op = op /\ holder'.file = f /\ op \in {"none", "remove", "close", "closed"} /\ op # "closed"
        /\ holder' \in [op : {"none", "remove", "close", "closed"}, file : Files \union {None}, sent : BOOLEAN]
    BY <1>1, Zenon
  <1>6. HoleTypes'
    BY <1>1, <1>2, <1>5, Zenon DEF StructInv, HoleTypes
  <1>7. RebuildTypes'
    BY <1>1, <1>2, SameRebuild, Zenon
  <1>8. RebuildInv'
    BY <1>2, Zenon DEF RebuildInv, IsRW
  <1>9. Top' = Top /\ holder.op # "closed"
    BY <1>2, Zenon DEF Top, Unlocked
  <1>10. CloseInv'
    BY <1>1, <1>2, <1>3, <1>5, <1>9, Zenon DEF StructInv, CloseInv
  <1>11. QED
    BY <1>4, <1>6, <1>7, <1>8, <1>10, Zenon DEF StructInv

\* FinishCloseStruct: every file is closed once the drain is over
\* (Server.Close).
LEMMA FinishCloseStruct ==
    ASSUME StructInv, FinishClose
    PROVE  StructInv'
  <1>1. /\ holder.op = "close" /\ drain = "done" /\ closed' = Files /\ holder' = [holder EXCEPT !.op = "closed"]
        /\ UNCHANGED <<mapVars, data, rebuildVars, punch, holeVars, folded, counters, ghosts>>
    BY Zenon DEF FinishClose, Drained
  <1>2. /\ files' = files /\ data' = data /\ source' = source /\ folded' = folded /\ used' = used /\ stage' = stage
        /\ worker' = worker /\ holes' = holes /\ drain' = drain
    BY <1>1, Zenon DEF mapVars, rebuildVars, counters, holeVars
  <1>3. QueuedWell /\ FoldedWell /\ Queued' = Queued
    BY <1>2, SameHoles, Zenon DEF FoldedWell
  <1>4. /\ holder \in [op : {"none", "remove", "close", "closed"}, file : Files \union {None}, sent : BOOLEAN]
        /\ data \in [Files -> FileData]
    BY Zenon DEF StructInv, HoleTypes, MapTypes
  <1>5. MapTypes' /\ ChainInv'
    BY <1>1, <1>2, <1>3, <1>4, SameMap, Zenon
  <1>6. /\ holder' \in [op : {"none", "remove", "close", "closed"}, file : Files \union {None}, sent : BOOLEAN]
        /\ holder'.op = "closed"
    BY <1>1, <1>4, Zenon
  <1>7. HoleTypes'
    BY <1>1, <1>2, <1>6, Zenon DEF StructInv, HoleTypes
  <1>8. RebuildTypes'
    BY <1>1, <1>2, SameRebuild, Zenon
  <1>9. ~Unlocked
    BY <1>1, Zenon DEF Unlocked
  <1>10. RebuildInv'
    BY <1>2, <1>9, Zenon DEF StructInv, RebuildInv
  <1>11. CloseInv'
    BY <1>1, <1>2, <1>3, <1>6, <1>9, Zenon DEF StructInv, CloseInv
  <1>12. QED
    BY <1>5, <1>7, <1>8, <1>10, <1>11, Zenon DEF StructInv

\* SyncStruct: a file of the healthy replica replaces this one's (syncFiles).
LEMMA SyncStruct ==
    ASSUME StructInv, NEW f \in Files, SyncFile(f)
    PROVE  StructInv'
  <1>1. /\ stage = "sync" /\ source[f] # None
        /\ data' = [data EXCEPT ![f] = source[f]] /\ source' = [source EXCEPT ![f] = None]
        /\ UNCHANGED <<mapVars, stage, copy, punch, holeVars, cleanVars, counters, ghosts>>
    BY Zenon DEF SyncFile
  <1>2. /\ files' = files /\ folded' = folded /\ used' = used /\ stage' = stage
        /\ worker' = worker /\ holes' = holes /\ drain' = drain
    BY <1>1, Zenon DEF mapVars, cleanVars, counters, holeVars
  <1>3. /\ data \in [Files -> FileData] /\ source \in [Files -> FileData \union {None}] /\ ~(f > used)
    BY <1>1, Zenon DEF StructInv, MapTypes, RebuildTypes, ChainInv
  <1>4. data' \in [Files -> FileData] /\ source' \in [Files -> FileData \union {None}]
    BY <1>1, <1>3, Zenon
  <1>5. \A g \in Files : g > used => data'[g] = data[g] /\ source'[g] \in {source[g], None}
    BY <1>1, <1>3, Zenon
  <1>6. QueuedWell /\ FoldedWell
    BY <1>2, SameHoles, Zenon DEF FoldedWell
  <1>7. MapTypes' /\ ChainInv'
    BY <1>1, <1>2, <1>4, <1>5, <1>6, SameMap, Zenon
  <1>8. HoleTypes'
    BY <1>1, <1>2, Zenon DEF StructInv, HoleTypes, cleanVars
  <1>9. RebuildTypes'
    BY <1>1, <1>2, <1>4, Zenon DEF RebuildTypes
  <1>10. Unlocked
    BY <1>1, Zenon DEF StructInv, RebuildInv
  <1>11. RebuildInv' /\ CloseInv'
    BY <1>1, <1>2, <1>6, <1>10, SameLock, Zenon
  <1>12. QED
    BY <1>7, <1>8, <1>9, <1>11, Zenon DEF StructInv

\* FlagsOfIs: openLiveChain makes a flag for every file.
LEMMA FlagsOfIs ==
    ASSUME NEW chain \in Seq(Files)
    PROVE  /\ FlagsOf(chain) \in Seq(BOOLEAN) /\ Len(FlagsOf(chain)) = Len(chain)
           /\ \A i \in 1 .. Len(chain) : FlagsOf(chain)[i] = (kind[chain[i]] # "auto")
  <1>1. DOMAIN chain = 1 .. Len(chain) /\ Len(chain) \in Nat
    OBVIOUS
  <1>2. QED
    BY <1>1 DEF FlagsOf

\* ReloadStruct: after a reload without preload the map is empty (Reload).
LEMMA ReloadStruct ==
    ASSUME StructInv, Reload
    PROVE  StructInv'
  <1>1. /\ Unlocked /\ stage = "sync" /\ stage' = "reloaded" /\ punch' = TRUE
        /\ flags' = FlagsOf(files) /\ snapIndx' = LastFlag(FlagsOf(files), Top) /\ location' = NoLocation
        /\ UNCHANGED <<files, kind, data, source, copy, holeVars, cleanVars, counters, ghosts>>
    BY Zenon DEF Reload
  <1>2. /\ files' = files /\ kind' = kind /\ data' = data /\ source' = source /\ holes' = holes /\ worker' = worker
        /\ drain' = drain /\ folded' = folded /\ used' = used /\ writes' = writes /\ vol' = vol /\ snaps' = snaps
    BY <1>1, Zenon DEF holeVars, cleanVars, counters, ghosts
  <1>3. QueuedWell /\ FoldedWell
    BY <1>2, SameHoles, Zenon DEF FoldedWell
  <1>4. MapTypes' /\ ChainInv'
    <2>1. flags' \in Seq(BOOLEAN) /\ Len(flags') = Top
      BY <1>1, FlagsOfIs, ChainFacts, Zenon DEF Top
    <2>2. Top \in 1 .. used /\ writes \in 0 .. MaxWrites /\ data \in [Files -> FileData]
          /\ vol \in [Blocks -> Value \union {Unmapped}]
      BY Zenon DEF StructInv, MapTypes
    <2>3. snapIndx' \in 0 .. Top
      BY <1>1, LastFlagIs, ChainFacts, Zenon
    <2>4. snapIndx' \in 0 .. used /\ location' \in [Blocks -> 0 .. Top] /\ punch' \in BOOLEAN
      BY <1>1, <2>2, <2>3, ChainFacts DEF NoLocation
    <2>5. QED
      BY <1>2, <1>3, <2>1, <2>2, <2>4, SameFiles, Zenon
  <1>5. HoleTypes'
    BY <1>1, <1>2, Zenon DEF StructInv, HoleTypes, cleanVars
  <1>6. RebuildTypes'
    BY <1>1, <1>2, Zenon DEF StructInv, RebuildTypes
  <1>7. RebuildInv' /\ CloseInv'
    BY <1>1, <1>2, <1>3, SameLock, Zenon
  <1>8. QED
    BY <1>4, <1>5, <1>6, <1>7, Zenon DEF StructInv

\* UpdateStartsStruct: UpdateLUNMap starts with an empty map.
LEMMA UpdateStartsStruct ==
    ASSUME StructInv, UpdateStarts \/ BecomesRW
    PROVE  StructInv'
  <1>1. /\ Unlocked /\ stage # "done"
        /\ \/ stage' = "preload" /\ copy' = [loc |-> NoLocation, next |-> 1]
           \/ stage' = "done"
        /\ UNCHANGED <<mapVars, data, source, punch, holeVars, cleanVars, counters, ghosts>>
    BY Zenon DEF UpdateStarts, BecomesRW
  <1>2. /\ files' = files /\ data' = data /\ source' = source /\ holes' = holes /\ worker' = worker
        /\ drain' = drain /\ folded' = folded /\ used' = used
    BY <1>1, Zenon DEF mapVars, holeVars, cleanVars, counters
  <1>3. QueuedWell /\ FoldedWell
    BY <1>2, SameHoles, Zenon DEF FoldedWell
  <1>4. MapTypes' /\ ChainInv'
    <2>1. data \in [Files -> FileData]
      BY Zenon DEF StructInv, MapTypes
    <2>2. QED
      BY <1>1, <1>2, <1>3, <2>1, SameMap, Zenon
  <1>5. HoleTypes'
    BY <1>1, <1>2, Zenon DEF StructInv, HoleTypes, cleanVars
  <1>6. RebuildTypes'
    <2>1. Top' = Top
      BY <1>2, Zenon DEF Top
    <2>2. QED
      BY <1>1, <1>2, <2>1, ChainFacts DEF StructInv, RebuildTypes, NoLocation
  <1>7. RebuildInv' /\ CloseInv'
    BY <1>1, <1>2, <1>3, SameLock, Zenon
  <1>8. QED
    BY <1>4, <1>5, <1>6, <1>7, Zenon DEF StructInv

\* UpdatePreloadsIs: UpdateLUNMap reads the next file, and makes holes below it
\* (preload).
LEMMA UpdatePreloadsIs ==
    ASSUME StructInv, UpdatePreloads
    PROVE  /\ copy'.next = copy.next + 1 /\ copy' \in [loc : [Blocks -> 0 .. Top], next : 1 .. Top + 1]
           /\ copy'.loc = [b \in Blocks |-> IF Holds(copy.next, b) THEN copy.next ELSE copy.loc[b]]
           /\ \E new \in Seq(HoleType) :
                 /\ holes' = holes \o new
                 /\ \A m \in 1 .. Len(new) :
                       \E b \in Blocks : /\ new[m].file = files[copy.loc[b]] /\ new[m].blocks = {b}
                                         /\ LastFlag(flags, copy.next) < copy.loc[b] /\ Holds(copy.next, b)
                                         /\ copy.loc[b] \in 1 .. copy.next - 1
  <1> DEFINE loc == copy.loc
             i == copy.next
             p == PreloadFile(files, flags, loc, i)
  <1>1. stage = "preload" /\ i <= Top /\ copy' = [loc |-> p.loc, next |-> i + 1] /\ holes' = holes \o p.holes
    BY Zenon DEF UpdatePreloads, Send
  <1>2. copy \in [loc : [Blocks -> 0 .. Top], next : 1 .. Top + 1] /\ \A b \in Blocks : copy.loc[b] < copy.next
    BY <1>1, Zenon DEF StructInv, RebuildTypes
  <1>3. i \in 1 .. Top /\ loc \in [Blocks -> 0 .. i - 1]
    BY <1>1, <1>2, ChainFacts
  <1> HIDE DEF loc, i
  <1>4. /\ p.loc = [b \in Blocks |-> IF data[files[i]][b] # Hole THEN i ELSE loc[b]]
        /\ p.holes \in Seq(HoleType)
        /\ \A m \in 1 .. Len(p.holes) :
              \E b \in Blocks : /\ p.holes[m].file = files[loc[b]] /\ p.holes[m].blocks = {b}
                                /\ LastFlag(flags, i) < loc[b] /\ data[files[i]][b] # Hole
                                /\ loc[b] \in 1 .. i - 1 /\ punch
    BY <1>3, ChainFacts, PreloadFileIs, Zenon DEF Top
  <1> HIDE DEF p
  <1>5. copy'.next = i + 1 /\ copy'.loc = p.loc /\ copy' \in [loc : [Blocks -> 0 .. Top], next : 1 .. Top + 1]
    <2>1. p.loc \in [Blocks -> 0 .. Top] /\ i + 1 \in 1 .. Top + 1
      BY <1>3, <1>4, ChainFacts
    <2>2. QED
      BY <1>1, <2>1, Zenon
  <1>6. QED
    BY <1>1, <1>4, <1>5, Zenon DEF loc, i, Holds

\* UpdatePreloadsStruct: the map set aside has indices of files already read
\* (UpdateLUNMap).
LEMMA UpdatePreloadsStruct ==
    ASSUME StructInv, UpdatePreloads
    PROVE  StructInv'
  <1>1. /\ stage = "preload"
        /\ UNCHANGED <<mapVars, data, stage, source, punch, worker, drain, cleanVars, counters, ghosts>>
    BY Zenon DEF UpdatePreloads
  <1>2. /\ files' = files /\ data' = data /\ source' = source /\ worker' = worker /\ stage' = stage
        /\ drain' = drain /\ folded' = folded /\ used' = used /\ copy.next <= Top
    BY <1>1, Zenon DEF mapVars, cleanVars, counters, UpdatePreloads
  <1>3. PICK new \in Seq(HoleType) :
            /\ holes' = holes \o new
            /\ \A m \in 1 .. Len(new) :
                  \E b \in Blocks : /\ new[m].file = files[copy.loc[b]] /\ new[m].blocks = {b}
                                    /\ LastFlag(flags, copy.next) < copy.loc[b] /\ Holds(copy.next, b)
                                    /\ copy.loc[b] \in 1 .. copy.next - 1
    BY UpdatePreloadsIs, Zenon
  <1>4. /\ copy \in [loc : [Blocks -> 0 .. Top], next : 1 .. Top + 1] /\ data \in [Files -> FileData]
        /\ \A b \in Blocks : copy.loc[b] < copy.next
    BY <1>1, Zenon DEF StructInv, RebuildTypes, MapTypes
  <1>5. \A m \in 1 .. Len(new) : \E k \in 1 .. Top - 1 : new[m].file = files[k]
    <2>1. 1 .. copy.next - 1 \subseteq 1 .. Top - 1
      BY <1>2, <1>4, ChainFacts
    <2>2. QED
      BY <1>3, <2>1, Zenon
  <1>6. /\ holes' \in Seq(HoleType)
        /\ \A h \in Queued' : /\ h.file <= used /\ h.file # files[Top]
                              /\ h.file \in closed => h \in Queued \/ holder.op = "closed"
    BY <1>2, <1>3, <1>5, SentHoles, Zenon
  <1>7. QueuedWell /\ FoldedWell
    BY <1>2, <1>6, Zenon DEF QueuedWell, FoldedWell
  <1>8. MapTypes' /\ ChainInv'
    BY <1>1, <1>2, <1>4, <1>7, SameMap, Zenon
  <1>9. HoleTypes'
    BY <1>1, <1>2, <1>6, Zenon DEF StructInv, HoleTypes, cleanVars
  <1>10. RebuildTypes'
    <2>1. Top' = Top
      BY <1>2, Zenon DEF Top
    <2>2. /\ copy'.next = copy.next + 1 /\ copy' \in [loc : [Blocks -> 0 .. Top], next : 1 .. Top + 1]
          /\ copy'.loc = [b \in Blocks |-> IF Holds(copy.next, b) THEN copy.next ELSE copy.loc[b]]
      BY UpdatePreloadsIs, Zenon
    <2>3. \A b \in Blocks : copy'.loc[b] < copy'.next
      BY <1>4, <2>2, ChainFacts
    <2>4. QED
      BY <1>2, <2>1, <2>2, <2>3, Zenon DEF StructInv, RebuildTypes
  <1>11. Unlocked
    BY <1>1, Zenon DEF StructInv, RebuildInv
  <1>12. RebuildInv' /\ CloseInv'
    BY <1>1, <1>2, <1>7, <1>11, SameLock, Zenon
  <1>13. QED
    BY <1>8, <1>9, <1>10, <1>12, Zenon DEF StructInv

\* UpdateMergesIs: the merge takes the higher index of the two maps, and makes
\* holes where the writes won (UpdateLUNMap).
LEMMA UpdateMergesIs ==
    ASSUME StructInv, UpdateMerges
    PROVE  /\ copy \in [loc : [Blocks -> 0 .. Top], next : 1 .. Top + 1] /\ copy.next > Top
           /\ location' = [b \in Blocks |-> Merged(b)] /\ location' \in [Blocks -> 0 .. Top]
           /\ \E new \in Seq(HoleType) :
                 /\ holes' = holes \o new
                 /\ \A m \in 1 .. Len(new) :
                       \E b \in Blocks : /\ new[m].file = files[copy.loc[b]] /\ new[m].blocks = {b}
                                         /\ LastFlag(flags, Top) < copy.loc[b] /\ copy.loc[b] < location[b]
                                         /\ copy.loc[b] \in 1 .. Top - 1
  <1> DEFINE over == {b \in Blocks : copy.loc[b] # 0 /\ location[b] > copy.loc[b]
                                     /\ copy.loc[b] > LastFlag(flags, Top) /\ punch}
             q == HolesFor(files, copy.loc, over)
  <1>1. /\ stage = "preload" /\ copy.next > Top /\ location' = [b \in Blocks |-> Merged(b)]
        /\ holes' = holes \o q
    BY Zenon DEF UpdateMerges, Send
  <1>2. /\ copy \in [loc : [Blocks -> 0 .. Top], next : 1 .. Top + 1]
        /\ location \in [Blocks -> 0 .. Top]
    BY <1>1, Zenon DEF StructInv, RebuildTypes, MapTypes
  <1>3. LastFlag(flags, Top) \in 0 .. Top
    BY ChainFacts, LastFlagIs, Zenon
  <1>4. ASSUME NEW b \in over
        PROVE  /\ b \in Blocks /\ copy.loc[b] \in 1 .. Top - 1 /\ files[copy.loc[b]] \in Files
               /\ LastFlag(flags, Top) < copy.loc[b] /\ copy.loc[b] < location[b]
    <2>1. copy.loc[b] \in 1 .. Top - 1 /\ LastFlag(flags, Top) < copy.loc[b] /\ copy.loc[b] < location[b]
      BY <1>2, <1>3, ChainFacts
    <2>2. QED
      BY <2>1, ChainFacts
  <1>5. over \in SUBSET Blocks
    BY Zenon
  <1> HIDE DEF over
  <1>6. q = HolesFor(files, copy.loc, over)
    BY Zenon
  <1>7. \A b \in over : files[copy.loc[b]] \in Files
    BY <1>4, Zenon
  <1> HIDE DEF q
  <1>8. q \in Seq(HoleType) /\ \A m \in 1 .. Len(q) : \E b \in over : q[m].file = files[copy.loc[b]] /\ q[m].blocks = {b}
    BY <1>5, <1>6, <1>7, HolesForIs, SMT
  <1>9. location' \in [Blocks -> 0 .. Top]
    BY <1>1, <1>2, Zenon DEF Merged
  <1>10. \A m \in 1 .. Len(q) :
            \E b \in Blocks : /\ q[m].file = files[copy.loc[b]] /\ q[m].blocks = {b}
                              /\ LastFlag(flags, Top) < copy.loc[b] /\ copy.loc[b] < location[b]
                              /\ copy.loc[b] \in 1 .. Top - 1
    BY <1>4, <1>8, Zenon
  <1>11. QED
    BY <1>1, <1>2, <1>8, <1>9, <1>10, Zenon

\* UpdateMergesStruct: the merge keeps the invariant (UpdateLUNMap).
LEMMA UpdateMergesStruct ==
    ASSUME StructInv, UpdateMerges
    PROVE  StructInv'
  <1>1. /\ Unlocked /\ stage = "preload" /\ stage' = "merged"
        /\ UNCHANGED <<files, kind, flags, snapIndx, data, source, punch, worker, drain, cleanVars, counters, ghosts>>
    BY Zenon DEF UpdateMerges
  <1>2. /\ files' = files /\ kind' = kind /\ flags' = flags /\ snapIndx' = snapIndx /\ data' = data
        /\ source' = source /\ punch' = punch /\ worker' = worker
        /\ drain' = drain /\ folded' = folded /\ used' = used /\ writes' = writes /\ vol' = vol /\ snaps' = snaps
    BY <1>1, Zenon DEF cleanVars, counters, ghosts
  <1>3. location' \in [Blocks -> 0 .. Top]
    BY UpdateMergesIs, Zenon
  <1>4. PICK new \in Seq(HoleType) :
            /\ holes' = holes \o new
            /\ \A m \in 1 .. Len(new) :
                  \E b \in Blocks : /\ new[m].file = files[copy.loc[b]] /\ new[m].blocks = {b}
                                    /\ LastFlag(flags, Top) < copy.loc[b] /\ copy.loc[b] < location[b]
                                    /\ copy.loc[b] \in 1 .. Top - 1
    BY UpdateMergesIs, Zenon
  <1>5. \A m \in 1 .. Len(new) : \E k \in 1 .. Top - 1 : new[m].file = files[k]
    BY <1>4, Zenon
  <1>6. /\ holes' \in Seq(HoleType)
        /\ \A h \in Queued' : /\ h.file <= used /\ h.file # files[Top]
                              /\ h.file \in closed => h \in Queued \/ holder.op = "closed"
    BY <1>2, <1>4, <1>5, SentHoles, Zenon
  <1>7. QueuedWell /\ FoldedWell
    BY <1>2, <1>6, Zenon DEF QueuedWell, FoldedWell
  <1>8. MapTypes' /\ ChainInv'
    <2>1. /\ flags \in Seq(BOOLEAN) /\ Len(flags) = Top /\ snapIndx \in 0 .. used
          /\ punch \in BOOLEAN /\ writes \in 0 .. MaxWrites
          /\ vol \in [Blocks -> Value \union {Unmapped}] /\ data \in [Files -> FileData]
      BY Zenon DEF StructInv, MapTypes
    <2>2. QED
      BY <1>2, <1>3, <1>7, <2>1, SameFiles, Zenon
  <1>9. HoleTypes'
    BY <1>1, <1>2, <1>6, Zenon DEF StructInv, HoleTypes, cleanVars
  <1>10. RebuildTypes'
    BY <1>1, <1>2, Zenon DEF StructInv, RebuildTypes
  <1>11. RebuildInv' /\ CloseInv'
    BY <1>1, <1>2, <1>7, SameLock, Zenon
  <1>12. QED
    BY <1>8, <1>9, <1>10, <1>11, Zenon DEF StructInv

\* SnapshotStruct: a snapshot appends a new file, the head (createDisk).
LEMMA SnapshotStruct ==
    ASSUME StructInv, NEW byUser \in BOOLEAN, Snapshot(byUser)
    PROVE  StructInv'
  <1>1. /\ Unlocked /\ IsRW /\ used < MaxFiles /\ used' = used + 1 /\ files' = Append(files, used + 1)
        /\ kind' = [kind EXCEPT ![files[Top]] = IF byUser THEN "user" ELSE "auto"]
        /\ flags' = Append(flags, byUser) /\ snapIndx' = (IF byUser THEN Top ELSE snapIndx)
        /\ snaps' = (IF byUser THEN [snaps EXCEPT ![files[Top]] = vol] ELSE snaps)
        /\ UNCHANGED <<location, data, rebuildVars, punch, holeVars, cleanVars, writes, vol>>
    BY Zenon DEF Snapshot
  <1>2. /\ location' = location /\ data' = data /\ punch' = punch /\ writes' = writes /\ vol' = vol
        /\ stage' = stage /\ source' = source /\ holes' = holes /\ worker' = worker /\ drain' = drain
        /\ holder' = holder /\ folded' = folded /\ closed' = closed
    BY <1>1, Zenon DEF rebuildVars, holeVars, cleanVars
  <1>3. used + 1 \in Files /\ used \in Nat /\ Top \in 1 .. used /\ snapIndx \in 0 .. used
    <2>1. used < MaxFiles /\ used \in Nat /\ Top \in 1 .. used /\ snapIndx \in 0 .. used
      BY <1>1, ChainFacts, Zenon DEF StructInv, MapTypes
    <2>2. used + 1 \in Files
      BY <2>1, LunMapAssumption DEF Files
    <2>3. QED
      BY <2>1, <2>2, Zenon
  <1>4. /\ files' \in Seq(Files) /\ Top' = Top + 1 /\ files'[Top + 1] = used + 1
        /\ \A i \in 1 .. Top : files'[i] = files[i]
    <2>1. used + 1 \in Files /\ files \in Seq(Files) /\ files' = Append(files, used + 1)
      BY <1>1, <1>3, ChainFacts, Zenon
    <2>2. QED
      BY <2>1 DEF Top
  <1>5. flags' \in Seq(BOOLEAN) /\ Len(flags') = Top + 1
    BY <1>1 DEF StructInv, MapTypes
  <1>6. /\ kind' \in [Files -> {"auto", "user", "removed"}]
        /\ \A f \in Files : kind'[f] = IF f = files[Top] THEN (IF byUser THEN "user" ELSE "auto") ELSE kind[f]
    BY <1>1, ChainFacts, Zenon DEF StructInv, MapTypes
  <1>7. MapTypes'
    <2>1. Top' \in 1 .. used' /\ used' \in Files /\ snapIndx' \in 0 .. used'
      BY <1>1, <1>3, <1>4
    <2>2. location' \in [Blocks -> 0 .. Top'] /\ data' \in [Files -> FileData] /\ punch' \in BOOLEAN
          /\ writes' \in 0 .. MaxWrites /\ vol' \in [Blocks -> Value \union {Unmapped}]
      <3>1. \A j \in 0 .. Top : j \in 0 .. Top'
        BY <1>3, <1>4
      <3>2. location \in [Blocks -> 0 .. Top] /\ data \in [Files -> FileData] /\ punch \in BOOLEAN
            /\ writes \in 0 .. MaxWrites /\ vol \in [Blocks -> Value \union {Unmapped}]
        BY Zenon DEF StructInv, MapTypes
      <3>3. QED
        BY <1>2, <3>1, <3>2, Zenon
    <2>3. /\ snaps' \in [Files -> [Blocks -> Value \union {Unmapped}] \union {None}]
          /\ \A f \in Files : kind'[f] = "user" => snaps'[f] \in [Blocks -> Value \union {Unmapped}]
      <3>1. /\ snaps \in [Files -> [Blocks -> Value \union {Unmapped}] \union {None}]
            /\ \A f \in Files : kind[f] = "user" => snaps[f] \in [Blocks -> Value \union {Unmapped}]
            /\ vol \in [Blocks -> Value \union {Unmapped}] /\ files[Top] \in Files
        BY ChainFacts, Zenon DEF StructInv, MapTypes
      <3> DEFINE V == [Blocks -> Value \union {Unmapped}]
      <3> HIDE DEF V
      <3>2. QED
        BY <1>1, <1>6, <3>1, Zenon DEF V
    <2>4. QED
      BY <1>4, <1>5, <1>6, <2>1, <2>2, <2>3, Zenon DEF MapTypes
  <1>8. HoleTypes'
    BY <1>2, Zenon DEF StructInv, HoleTypes
  <1>9. RebuildTypes' /\ RebuildInv'
    BY <1>1, <1>2, Zenon DEF StructInv, RebuildTypes, RebuildInv, IsRW
  <1>10. Queued' = Queued
    BY <1>2, SameHoles, Zenon
  <1>11. ChainInv
    BY Zenon DEF StructInv
  <1>12. \A i \in 1 .. Top' : (i \in 1 .. Top /\ files'[i] = files[i] /\ files'[i] <= used) \/ (i = Top + 1 /\ files'[i] = used + 1)
    BY <1>3, <1>4, <1>11 DEF ChainInv
  <1>13. files[Top] <= used /\ files[Top] \in Nat
    BY <1>11, ChainFacts, Zenon DEF ChainInv
  <1>14. ChainInv'
    <2>1. \A i, j \in 1 .. Top' : files'[i] = files'[j] => i = j
      BY <1>3, <1>11, <1>12, ChainFacts DEF ChainInv
    <2>2. \A i \in 1 .. Top' : files'[i] <= used'
      <3>1. used' = used + 1
        BY <1>1, Zenon
      <3>2. \A i \in 1 .. Top' : files'[i] \in Nat /\ files'[i] <= used + 1
        BY <1>3, <1>12, ChainFacts
      <3>3. QED
        BY <3>1, <3>2, Zenon
    <2>3. \A f \in Files : f > used' => kind'[f] = "auto" /\ data'[f] = NoData /\ source'[f] = None
      <3>1. \A f \in Files : f > used' => f > used /\ f # files[Top]
        BY <1>1, <1>3, <1>13 DEF Files
      <3>2. QED
        BY <1>2, <1>6, <1>11, <3>1, Zenon DEF ChainInv
    <2>4. kind'[files'[Top']] = "auto"
      <3>1. used + 1 > used /\ used + 1 # files[Top]
        BY <1>3, <1>13
      <3>2. QED
        BY <1>3, <1>4, <1>6, <1>11, <3>1, Zenon DEF ChainInv
    <2>5. \A x : x <= used => (x <= used' /\ x # used + 1) \/ x \notin Nat
      BY <1>1, <1>3
    <2>6. \A h \in Queued' : h.file <= used' /\ h.file # files'[Top']
      <3>1. \A h \in Queued : h.file \in Nat /\ h.file <= used
        BY <1>11, LunMapAssumption DEF Queued, HoleType, Files, ChainInv
      <3>2. QED
        BY <1>4, <1>10, <2>5, <3>1, Zenon
    <2>7. folded' # None => folded' <= used' /\ folded' # files'[Top']
      <3>1. folded # None => folded \in Nat /\ folded <= used
        BY <1>11 DEF StructInv, HoleTypes, Files, ChainInv
      <3>2. QED
        BY <1>2, <1>4, <2>5, <3>1, Zenon
    <2>8. QED
      BY <2>1, <2>2, <2>3, <2>4, <2>6, <2>7, Zenon DEF ChainInv
  <1>15. CloseInv'
    <2>1. CloseInv
      BY Zenon DEF StructInv
    <2>2. Unlocked' /\ holder'.op = "none" /\ holder.op # "closed"
      BY <1>1, <1>2, Zenon DEF Unlocked
    <2>3. closed \in SUBSET Files /\ \A f \in closed : f <= used
      BY <2>1, <2>2, Zenon DEF StructInv, HoleTypes, CloseInv
    <2>4. (\A f \in closed : f <= used') /\ used + 1 \notin closed
      BY <1>1, <1>3, <2>3 DEF Files
    <2>5. QED
      BY <1>2, <1>10, <1>12, <2>1, <2>2, <2>4, Zenon DEF CloseInv
  <1>16. QED
    BY <1>7, <1>8, <1>9, <1>14, <1>15, Zenon DEF StructInv

\* DeleteStruct: a snapshot that is deleted is not the head
\* (markDiskAsRemoved).
LEMMA DeleteStruct ==
    ASSUME StructInv, NEW i \in 1 .. Top, DeleteSnapshot(i)
    PROVE  StructInv'
  <1>1. /\ Unlocked /\ i \in 2 .. Top - 2
        /\ kind' = [kind EXCEPT ![files[i]] = "removed"] /\ snaps' = [snaps EXCEPT ![files[i]] = None]
        /\ UNCHANGED <<files, flags, snapIndx, location, data, rebuildVars, punch, holeVars, cleanVars, counters, vol>>
    BY Zenon DEF DeleteSnapshot
  <1>2. /\ files' = files /\ flags' = flags /\ snapIndx' = snapIndx /\ location' = location /\ data' = data
        /\ stage' = stage /\ source' = source /\ punch' = punch /\ holes' = holes /\ worker' = worker
        /\ drain' = drain /\ folded' = folded /\ used' = used /\ writes' = writes /\ vol' = vol
        /\ holder' = holder /\ closed' = closed
    BY <1>1, Zenon DEF rebuildVars, holeVars, cleanVars, counters
  <1>3. Top' = Top /\ Queued' = Queued /\ QueuedWell
    BY <1>2, SameHoles, Zenon DEF Top
  <1>4. files[i] \in Files /\ files[i] <= used /\ files[i] # files[Top] /\ files[Top] \in Files /\ used \in Nat
    BY <1>1, ChainFacts DEF StructInv, ChainInv
  <1>5. /\ kind' \in [Files -> {"auto", "user", "removed"}]
        /\ \A f \in Files : kind'[f] = IF f = files[i] THEN "removed" ELSE kind[f]
    BY <1>1, <1>4, Zenon DEF StructInv, MapTypes
  <1>6. MapTypes'
    <2> DEFINE V == [Blocks -> Value \union {Unmapped}]
    <2>1. /\ snaps \in [Files -> V \union {None}] /\ \A f \in Files : kind[f] = "user" => snaps[f] \in V
      BY Zenon DEF StructInv, MapTypes
    <2> HIDE DEF V
    <2>2. /\ snaps' \in [Files -> V \union {None}] /\ \A f \in Files : kind'[f] = "user" => snaps'[f] \in V
      BY <1>1, <1>4, <1>5, <2>1, Zenon
    <2>3. QED
      BY <1>2, <1>3, <1>5, <2>2, Zenon DEF StructInv, MapTypes, V
  <1>7. ChainInv'
    <2>1. \A f \in Files : f > used => f # files[i]
      BY <1>4 DEF Files
    <2>2. QED
      BY <1>2, <1>3, <1>4, <1>5, <2>1, Zenon DEF StructInv, ChainInv
  <1>8. HoleTypes'
    BY <1>2, Zenon DEF StructInv, HoleTypes
  <1>9. RebuildTypes'
    BY <1>1, SameRebuild, Zenon
  <1>10. RebuildInv' /\ CloseInv'
    BY <1>1, <1>2, <1>3, SameLock, Zenon
  <1>11. QED
    BY <1>6, <1>7, <1>8, <1>9, <1>10, Zenon DEF StructInv

\* OpenChainIs: what opening a chain of created files makes of the map, the
\* flags and the channel (construct).
LEMMA OpenChainIs ==
    ASSUME NEW chain \in Seq(Files), Len(chain) # 0, NEW queued \in Seq(HoleType), OpenChain(chain, queued)
    PROVE  /\ files' = chain /\ Top' = Len(chain)
           /\ flags' = FlagsOf(chain) /\ flags' \in Seq(BOOLEAN) /\ Len(flags') = Len(chain)
           /\ snapIndx' = LastFlag(flags', Len(chain)) /\ snapIndx' \in 0 .. Len(chain)
           /\ LastOf(chain, Len(chain), location') /\ location' \in [Blocks -> 0 .. Len(chain)]
           /\ \E new \in Seq(HoleType) :
                 /\ holes' = queued \o new /\ holes' \in Seq(HoleType)
                 /\ \A m \in 1 .. Len(new) : Hidden(new[m], chain, flags', Len(chain))
  <1> DEFINE p == Preload(chain, FlagsOf(chain))
  <1>1. /\ files' = chain /\ flags' = FlagsOf(chain) /\ snapIndx' = LastFlag(FlagsOf(chain), Len(chain))
        /\ location' = p.loc /\ holes' = queued \o p.holes
    BY Zenon DEF OpenChain
  <1>2. Preloaded(p, chain, FlagsOf(chain))
    BY PreloadIs, Zenon
  <1>3. FlagsOf(chain) \in Seq(BOOLEAN) /\ Len(FlagsOf(chain)) = Len(chain)
    BY FlagsOfIs, Zenon
  <1> HIDE DEF p
  <1>4. Top' = Len(chain)
    BY <1>1, Zenon DEF Top
  <1>5. LastFlag(FlagsOf(chain), Len(chain)) \in 0 .. Len(chain)
    BY LastFlagIs
  <1>6. /\ LastOf(chain, Len(chain), p.loc) /\ p.loc \in [Blocks -> 0 .. Len(chain)]
        /\ p.holes \in Seq(HoleType)
        /\ \A m \in 1 .. Len(p.holes) : Hidden(p.holes[m], chain, FlagsOf(chain), Len(chain))
    BY <1>2, Zenon DEF Preloaded, LastOf
  <1>7. queued \o p.holes \in Seq(HoleType)
    BY <1>6
  <1>8. QED
    BY <1>1, <1>3, <1>4, <1>5, <1>6, <1>7, Zenon

\* RevertStruct: a revert cuts the chain and appends a new head (revertDisk).
LEMMA RevertStruct ==
    ASSUME StructInv, NEW i \in 1 .. Top, Revert(i)
    PROVE  StructInv'
  <1> DEFINE chain == Append(SubSeq(files, 1, i), used + 1)
  <1>1. /\ Unlocked /\ IsRW /\ used < MaxFiles /\ used' = used + 1 /\ kind[files[i]] = "user"
        /\ OpenChain(chain, holes) /\ vol' = snaps[files[i]]
        /\ UNCHANGED <<kind, data, rebuildVars, punch, worker, drain, cleanVars, writes, snaps>>
    BY Zenon DEF Revert
  <1>2. /\ kind' = kind /\ data' = data /\ punch' = punch /\ writes' = writes /\ snaps' = snaps
        /\ stage' = stage /\ source' = source /\ worker' = worker /\ drain' = drain
        /\ holder' = holder /\ folded' = folded /\ closed' = closed
    BY <1>1, Zenon DEF rebuildVars, cleanVars
  <1>3. used + 1 \in Files /\ used \in Nat /\ Top \in 1 .. used /\ holes \in Seq(HoleType) /\ used' = used + 1
    <2>1. used \in Nat /\ Top \in 1 .. used /\ holes \in Seq(HoleType) /\ used' = used + 1 /\ used < MaxFiles
      BY <1>1, ChainFacts, Zenon DEF StructInv, MapTypes, HoleTypes
    <2>2. used + 1 \in Files
      BY <2>1, LunMapAssumption DEF Files
    <2>3. QED
      BY <2>1, <2>2, Zenon
  <1>4. /\ chain \in Seq(Files) /\ Len(chain) = i + 1 /\ chain[i + 1] = used + 1
        /\ \A k \in 1 .. i : chain[k] = files[k]
    BY <1>3, ChainFacts DEF Top
  <1> HIDE DEF chain
  <1>5. /\ files' = chain /\ Top' = i + 1 /\ flags' \in Seq(BOOLEAN) /\ Len(flags') = i + 1
        /\ snapIndx' \in 0 .. i + 1 /\ location' \in [Blocks -> 0 .. i + 1]
    BY <1>1, <1>3, <1>4, OpenChainIs
  <1>6. PICK new \in Seq(HoleType) :
            /\ holes' = holes \o new /\ holes' \in Seq(HoleType)
            /\ \A m \in 1 .. Len(new) : Hidden(new[m], chain, flags', Len(chain))
    <2>1. Len(chain) # 0
      BY <1>4
    <2>2. QED
      BY <1>1, <1>3, <1>4, <2>1, OpenChainIs, Zenon
  <1>7. ChainInv
    BY Zenon DEF StructInv
  <1>8. \A k \in 1 .. Top' : \/ k \in 1 .. i /\ k \in 1 .. Top /\ files'[k] = files[k] /\ files'[k] <= used
                             \/ k = i + 1 /\ files'[k] = used + 1
    BY <1>4, <1>5, <1>7, ChainFacts DEF ChainInv
  <1>9. MapTypes'
    <2>1. Top' \in 1 .. used' /\ used' \in Files /\ snapIndx' \in 0 .. used' /\ Len(flags') = Top'
      BY <1>3, <1>5, ChainFacts
    <2>2. vol' \in [Blocks -> Value \union {Unmapped}]
      BY <1>1, ChainFacts, Zenon DEF StructInv, MapTypes
    <2>3. QED
      BY <1>2, <1>4, <1>5, <2>1, <2>2, Zenon DEF StructInv, MapTypes
  <1>10. HoleTypes'
    BY <1>2, <1>6, Zenon DEF StructInv, HoleTypes
  <1>11. RebuildTypes' /\ RebuildInv'
    BY <1>1, <1>2, Zenon DEF StructInv, RebuildTypes, RebuildInv, IsRW
  <1>12. \A h \in Queued' : h \in Queued \/ \E k \in 1 .. i : h.file = files[k]
    <2>1. \A m \in 1 .. Len(new) : \E k \in 1 .. i : new[m].file = files[k]
      <3>1. \A k, n \in 1 .. i + 1 : k < n => k \in 1 .. i
        OBVIOUS
      <3>2. \A m \in 1 .. Len(new) : \E k, n \in 1 .. i + 1 : k < n /\ new[m].file = chain[k]
        BY <1>4, <1>6, Zenon DEF Hidden
      <3>3. QED
        BY <1>4, <3>1, <3>2, Zenon
    <2>2. \A n \in 1 .. Len(holes') : \/ n \in 1 .. Len(holes) /\ holes'[n] = holes[n]
                                      \/ \E m \in 1 .. Len(new) : holes'[n] = new[m]
      BY <1>3, <1>6, ConcatIs, Zenon
    <2>3. \A h \in Queued' : h \in Queued \/ \E m \in 1 .. Len(new) : h = new[m]
      BY <1>2, <2>2, Zenon DEF Queued
    <2>4. ASSUME NEW h \in Queued', h \notin Queued PROVE \E k \in 1 .. i : h.file = files[k]
      <3>1. PICK m \in 1 .. Len(new) : h = new[m]
        BY <2>3, <2>4, Zenon
      <3>2. QED
        BY <2>1, <3>1, Zenon
    <2>5. QED
      BY <2>4, Zenon
  <1>13. \A h \in Queued' : h.file \in Nat /\ h.file <= used
    <2>1. \A h \in Queued : h.file \in Nat /\ h.file <= used
      BY <1>7, LunMapAssumption DEF Queued, HoleType, Files, ChainInv
    <2>2. \A k \in 1 .. i : files[k] \in Nat /\ files[k] <= used
      BY <1>7, ChainFacts DEF ChainInv
    <2>3. QED
      BY <1>12, <2>1, <2>2, Zenon
  <1>14. \A x \in Nat : x <= used => x <= used + 1 /\ x # used + 1
    BY <1>3
  <1>15. files'[Top'] = used + 1
    BY <1>4, <1>5, Zenon
  <1>16. ChainInv'
    <2>1. \A k, j \in 1 .. Top' : files'[k] = files'[j] => k = j
      BY <1>3, <1>7, <1>8, ChainFacts DEF ChainInv
    <2>2. \A k \in 1 .. Top' : files'[k] <= used'
      <3>1. \A k \in 1 .. Top' : files'[k] \in Nat /\ files'[k] <= used + 1
        BY <1>3, <1>8, ChainFacts
      <3>2. QED
        BY <1>3, <3>1, Zenon
    <2>3. \A f \in Files : f > used' => kind'[f] = "auto" /\ data'[f] = NoData /\ source'[f] = None
      <3>1. \A f \in Files : f > used' => f > used
        BY <1>3 DEF Files
      <3>2. QED
        BY <1>2, <1>7, <3>1, Zenon DEF ChainInv
    <2>4. kind'[files'[Top']] = "auto"
      <3>1. used + 1 > used
        BY <1>3
      <3>2. QED
        BY <1>2, <1>3, <1>7, <1>15, <3>1, Zenon DEF ChainInv
    <2>5. folded' # None => folded' \in Nat /\ folded' <= used
      BY <1>2, <1>7 DEF StructInv, HoleTypes, Files, ChainInv
    <2>6. QED
      BY <1>3, <1>13, <1>14, <1>15, <2>1, <2>2, <2>3, <2>4, <2>5, Zenon DEF ChainInv
  <1>17. CloseInv'
    <2>1. CloseInv
      BY Zenon DEF StructInv
    <2>2. Unlocked' /\ holder'.op = "none" /\ holder.op # "closed"
      BY <1>1, <1>2, Zenon DEF Unlocked
    <2>3. closed \in SUBSET Files /\ \A f \in closed : f <= used
      BY <2>1, <2>2, Zenon DEF StructInv, HoleTypes, CloseInv
    <2>4. (\A f \in closed : f <= used') /\ used + 1 \notin closed
      BY <1>3, <2>3 DEF Files
    <2>5. \A h \in Queued' : h.file \notin closed
      <3>1. \A k \in 1 .. i : k \in 1 .. Top
        BY ChainFacts
      <3>2. QED
        BY <1>12, <2>1, <2>2, <3>1, Zenon DEF CloseInv
    <2>6. QED
      BY <1>2, <1>8, <2>1, <2>2, <2>4, <2>5, Zenon DEF CloseInv
  <1>18. QED
    BY <1>9, <1>10, <1>11, <1>16, <1>17, Zenon DEF StructInv

\* RestartStruct: a new process has no lock, no fold and nothing closed, and
\* opens the chain as it is (Close, construct).
LEMMA RestartStruct ==
    ASSUME StructInv, Restart
    PROVE  StructInv'
  <1>1. /\ IsRW /\ OpenChain(files, <<>>) /\ worker' = None /\ drain' = "done"
        /\ holder' = Free /\ folded' = None /\ closed' = {}
        /\ UNCHANGED <<kind, data, rebuildVars, punch, counters, ghosts>>
    BY Zenon DEF Restart
  <1>2. /\ kind' = kind /\ data' = data /\ punch' = punch /\ writes' = writes /\ snaps' = snaps /\ used' = used
        /\ vol' = vol /\ stage' = stage /\ source' = source
    BY <1>1, Zenon DEF rebuildVars, counters, ghosts
  <1>3. files \in Seq(Files) /\ Len(files) # 0 /\ <<>> \in Seq(HoleType) /\ Top = Len(files)
    BY ChainFacts DEF Top
  <1>4. /\ files' = files /\ Top' = Top /\ flags' \in Seq(BOOLEAN) /\ Len(flags') = Top
        /\ snapIndx' \in 0 .. Top /\ location' \in [Blocks -> 0 .. Top]
        /\ \E new \in Seq(HoleType) :
              /\ holes' = <<>> \o new /\ holes' \in Seq(HoleType)
              /\ \A m \in 1 .. Len(new) : Hidden(new[m], files, flags', Len(files))
    BY <1>1, <1>3, OpenChainIs, Zenon
  <1>5. PICK new \in Seq(HoleType) :
            /\ holes' = <<>> \o new /\ \A m \in 1 .. Len(new) : Hidden(new[m], files, flags', Len(files))
    BY <1>4, Zenon
  <1>6. holes' = new
    BY <1>5
  <1>7. \A m \in 1 .. Len(new) : \E k \in 1 .. Top - 1 : new[m].file = files[k]
    <2>1. \A k, n \in 1 .. Top : k < n => k \in 1 .. Top - 1
      BY ChainFacts
    <2>2. QED
      BY <1>3, <1>5, <2>1, Zenon DEF Hidden
  <1>8. \A h \in Queued' : \E k \in 1 .. Top - 1 : h.file = files[k]
    BY <1>1, <1>6, <1>7, NoValueAssumption, Zenon DEF Queued
  <1>9. MapTypes'
    <2>1. snapIndx' \in 0 .. used
      BY <1>4, ChainFacts DEF StructInv, MapTypes
    <2>2. QED
      BY <1>2, <1>4, <2>1, Zenon DEF StructInv, MapTypes
  <1>10. HoleTypes'
    BY <1>1, <1>4, Zenon DEF StructInv, HoleTypes, Free
  <1>11. RebuildTypes' /\ RebuildInv'
    BY <1>1, <1>2, Zenon DEF StructInv, RebuildTypes, RebuildInv, IsRW
  <1>12. ChainInv'
    <2>1. ChainInv
      BY Zenon DEF StructInv
    <2>2. \A k \in 1 .. Top - 1 : files[k] <= used /\ files[k] # files[Top]
      BY <2>1, ChainFacts DEF ChainInv
    <2>3. \A h \in Queued' : h.file <= used /\ h.file # files[Top]
      BY <1>8, <2>2, Zenon
    <2>4. QED
      BY <1>1, <1>2, <1>4, <2>1, <2>3, Zenon DEF ChainInv
  <1>13. CloseInv'
    BY <1>1, Zenon DEF CloseInv, Unlocked, Free
  <1>14. QED
    BY <1>9, <1>10, <1>11, <1>12, <1>13, Zenon DEF StructInv

\* WithoutIs: what RemoveIndex leaves of a slice.
LEMMA WithoutIs ==
    ASSUME NEW S, NEW s \in Seq(S), NEW i \in 1 .. Len(s)
    PROVE  /\ Without(s, i) \in Seq(S) /\ Len(Without(s, i)) = Len(s) - 1
           /\ \A k \in 1 .. Len(s) - 1 : Without(s, i)[k] = IF k < i THEN s[k] ELSE s[k + 1]
  <1> DEFINE a == SubSeq(s, 1, i - 1)
             c == SubSeq(s, i + 1, Len(s))
  <1>1. /\ a \in Seq(S) /\ Len(a) = i - 1 /\ \A k \in 1 .. i - 1 : a[k] = s[k]
        /\ c \in Seq(S) /\ Len(c) = Len(s) - i /\ \A k \in 1 .. Len(s) - i : c[k] = s[i + k]
    <2>1. a \in Seq(S) /\ Len(a) = i - 1 /\ \A k \in 1 .. i - 1 : a[k] = s[k]
      OBVIOUS
    <2>2. c \in Seq(S) /\ Len(c) = Len(s) - i
      OBVIOUS
    <2>3. \A k \in 1 .. Len(s) - i : c[k] = s[i + k]
      OBVIOUS
    <2> HIDE DEF a, c
    <2>4. QED
      BY <2>1, <2>2, <2>3, Zenon
  <1>2. Without(s, i) = a \o c
    BY Zenon DEF Without
  <1> HIDE DEF a, c
  <1>3. a \o c \in Seq(S) /\ Len(a \o c) = Len(s) - 1
    <2>1. a \in Seq(S) /\ c \in Seq(S)
      BY <1>1, Zenon
    <2>2. a \o c \in Seq(S) /\ Len(a \o c) = Len(a) + Len(c)
      BY <2>1
    <2>3. QED
      BY <1>1, <2>2
  <1>4. ASSUME NEW k \in 1 .. Len(s) - 1
        PROVE  (a \o c)[k] = IF k < i THEN s[k] ELSE s[k + 1]
    <2>1. CASE k < i
      BY <1>1, <2>1
    <2>2. CASE ~(k < i)
      <3>1. (a \o c)[k] = c[k - (i - 1)] /\ k - (i - 1) \in 1 .. Len(s) - i
        BY <1>1, <2>2
      <3>2. c[k - (i - 1)] = s[i + (k - (i - 1))] /\ i + (k - (i - 1)) = k + 1
        BY <1>1, <3>1
      <3>3. QED
        BY <2>2, <3>1, <3>2, Zenon
    <2>3. QED
      BY <2>1, <2>2, Zenon
  <1>5. QED
    BY <1>2, <1>3, <1>4, Zenon

\* FinishRemoveIs: the folded file leaves the chain, when it is still in it;
\* the head stays (removeDiskNode).
LEMMA FinishRemoveIs ==
    ASSUME StructInv, FinishRemove
    PROVE  /\ drain = "done" /\ ~Unlocked /\ Queued = {} /\ holder.file = folded /\ folded \in Files
           /\ \/ /\ UNCHANGED <<files, flags, snapIndx, location>>
                 /\ \A k \in 1 .. Top : files[k] # folded
              \/ \E i \in 1 .. Top - 1 :
                    /\ files[i] = folded
                    /\ files' \in Seq(Files) /\ Top' = Top - 1
                    /\ \A k \in 1 .. Top - 1 : files'[k] = IF k < i THEN files[k] ELSE files[k + 1]
                    /\ flags' \in Seq(BOOLEAN) /\ Len(flags') = Top - 1
                    /\ \A k \in 1 .. Top - 1 : flags'[k] = IF k < i THEN flags[k] ELSE flags[k + 1]
                    /\ location' = RemoveIndex(i)
                    /\ \/ snapIndx' = snapIndx /\ LastFlag(flags', Top - 1) = 0
                       \/ snapIndx' = LastFlag(flags', Top - 1)
  <1> DEFINE S == {0} \union {k \in 1 .. Top : files[k] = holder.file}
             i == Max(S)
             left == RemoveFlag(i)
             last == LastFlag(left, Len(left))
  <1>1. /\ Drained("remove")
        /\ IF i = 0 THEN UNCHANGED <<files, flags, snapIndx, location>>
           ELSE /\ files' = Without(files, i) /\ flags' = left
                /\ location' = RemoveIndex(i)
                /\ snapIndx' = IF last = 0 THEN snapIndx ELSE last
    BY Zenon DEF FinishRemove, LastIndex
  <1>2. /\ drain = "done" /\ holder.op = "remove"
    BY <1>1, Zenon DEF Drained
  <1>3. drain = "done" /\ ~Unlocked /\ Queued = {} /\ holder.file = folded /\ folded \in Files /\ folded # files[Top]
    BY <1>2, Zenon DEF StructInv, HoleTypes, ChainInv, CloseInv, Unlocked
  <1>4. S \in SUBSET (0 .. Top) /\ S # {} /\ Top \in Nat
    BY ChainFacts
  <1>5. i \in S /\ \A y \in S : y <= i
    <2> HIDE DEF S
    <2>1. QED
      BY <1>4, MaxIs, Zenon
  <1> HIDE DEF i
  <1>6. CASE i = 0
    <2>1. \A k \in 1 .. Top : files[k] # folded
      BY <1>3, <1>4, <1>5, <1>6
    <2>2. QED
      BY <1>1, <1>3, <1>6, <2>1, Zenon
  <1>7. CASE i # 0
    <2>1. i \in 1 .. Top /\ files[i] = folded
      BY <1>3, <1>5, <1>7, Zenon
    <2>2. i \in 1 .. Top - 1
      <3>1. i # Top
        BY <1>3, <2>1, Zenon
      <3>2. QED
        BY <1>4, <2>1, <3>1
    <2>3. /\ files' = Without(files, i) /\ flags' = Without(flags, i) /\ location' = RemoveIndex(i)
          /\ snapIndx' = IF LastFlag(flags', Len(flags')) = 0 THEN snapIndx ELSE LastFlag(flags', Len(flags'))
      BY <1>1, <1>7, Zenon DEF RemoveFlag
    <2>4. /\ files' \in Seq(Files) /\ Len(files') = Len(files) - 1
          /\ \A k \in 1 .. Len(files) - 1 : files'[k] = IF k < i THEN files[k] ELSE files[k + 1]
      BY <2>1, <2>3, ChainFacts, WithoutIs, Zenon DEF Top
    <2>5. flags \in Seq(BOOLEAN) /\ Len(flags) = Top
      BY Zenon DEF StructInv, MapTypes
    <2>6. /\ flags' \in Seq(BOOLEAN) /\ Len(flags') = Top - 1
          /\ \A k \in 1 .. Top - 1 : flags'[k] = IF k < i THEN flags[k] ELSE flags[k + 1]
      BY <2>1, <2>3, <2>5, WithoutIs, Zenon
    <2>7. QED
      BY <1>3, <2>1, <2>2, <2>3, <2>4, <2>6, Zenon DEF Top
  <1>8. QED
    BY <1>6, <1>7, Zenon

\* FinishRemoveStruct: RemoveDiffDisk keeps the invariant (removeDiskNode,
\* RemoveIndex).
LEMMA FinishRemoveStruct ==
    ASSUME StructInv, FinishRemove
    PROVE  StructInv'
  <1>1. /\ closed' = closed \union {holder.file} /\ holder' = Free /\ folded' = None
        /\ UNCHANGED <<kind, data, rebuildVars, punch, holeVars, counters, ghosts>>
    BY Zenon DEF FinishRemove
  <1>2. /\ kind' = kind /\ data' = data /\ punch' = punch /\ writes' = writes /\ snaps' = snaps /\ used' = used
        /\ vol' = vol /\ stage' = stage /\ source' = source /\ holes' = holes /\ worker' = worker /\ drain' = drain
    BY <1>1, Zenon DEF rebuildVars, holeVars, counters, ghosts
  <1>3. ~Unlocked /\ Queued = {} /\ holder.file = folded /\ folded \in Files
    BY FinishRemoveIs, Zenon
  <1>4. Queued' = {}
    BY <1>2, <1>3, SameHoles, Zenon
  <1>5. stage = "done"
    BY <1>3, Zenon DEF StructInv, RebuildInv
  <1>6. RebuildTypes' /\ RebuildInv'
    BY <1>2, <1>5, Zenon DEF StructInv, RebuildTypes, RebuildInv
  <1>7. HoleTypes'
    <2>1. holder' \in [op : {"none", "remove", "close", "closed"}, file : Files \union {None}, sent : BOOLEAN]
      BY <1>1, Zenon DEF Free
    <2>2. closed' \in SUBSET Files
      BY <1>1, <1>3, Zenon DEF StructInv, HoleTypes
    <2>3. QED
      BY <1>1, <1>2, <2>1, <2>2, Zenon DEF StructInv, HoleTypes
  <1>8. /\ Unlocked' /\ holder'.op = "none" /\ ChainInv
        /\ \A f \in closed : f <= used
        /\ folded <= used /\ folded # files[Top]
        /\ \A k \in 1 .. Top : files[k] \notin closed
    <2>1. holder.op = "remove" /\ folded # None
      BY FinishRemoveIs, NoValueAssumption, Zenon DEF FinishRemove, Drained
    <2>2. QED
      BY <1>1, <2>1, Zenon DEF StructInv, CloseInv, ChainInv, Free, Unlocked
  <1>9. CASE UNCHANGED <<files, flags, snapIndx, location>> /\ \A k \in 1 .. Top : files[k] # folded
    <2>1. files' = files /\ flags' = flags /\ snapIndx' = snapIndx /\ location' = location /\ Top' = Top
      BY <1>9, Zenon DEF Top
    <2>2. MapTypes'
      BY <1>2, <2>1, Zenon DEF StructInv, MapTypes
    <2>3. ChainInv'
      BY <1>1, <1>2, <1>4, <1>8, <2>1, Zenon DEF ChainInv
    <2>4. CloseInv'
      BY <1>1, <1>2, <1>3, <1>4, <1>8, <1>9, <2>1, Zenon DEF CloseInv
    <2>5. QED
      BY <1>6, <1>7, <2>2, <2>3, <2>4, Zenon DEF StructInv
  <1>10. CASE \E i \in 1 .. Top - 1 :
                 /\ files[i] = folded
                 /\ files' \in Seq(Files) /\ Top' = Top - 1
                 /\ \A k \in 1 .. Top - 1 : files'[k] = IF k < i THEN files[k] ELSE files[k + 1]
                 /\ flags' \in Seq(BOOLEAN) /\ Len(flags') = Top - 1
                 /\ \A k \in 1 .. Top - 1 : flags'[k] = IF k < i THEN flags[k] ELSE flags[k + 1]
                 /\ location' = RemoveIndex(i)
                 /\ \/ snapIndx' = snapIndx /\ LastFlag(flags', Top - 1) = 0
                    \/ snapIndx' = LastFlag(flags', Top - 1)
    <2>1. PICK i \in 1 .. Top - 1 :
                 /\ files[i] = folded
                 /\ files' \in Seq(Files) /\ Top' = Top - 1
                 /\ \A k \in 1 .. Top - 1 : files'[k] = IF k < i THEN files[k] ELSE files[k + 1]
                 /\ flags' \in Seq(BOOLEAN) /\ Len(flags') = Top - 1
                 /\ location' = RemoveIndex(i)
                 /\ snapIndx' \in {snapIndx, LastFlag(flags', Top - 1)}
      BY <1>10, Zenon
    <2>2. \A k \in 1 .. Top' : \E j \in 1 .. Top : files'[k] = files[j] /\ j # i /\ j \in {k, k + 1} /\ (j = k <=> k < i)
      <3>1. TAKE k \in 1 .. Top'
      <3>2. k \in 1 .. Top /\ k + 1 \in 1 .. Top /\ k \in 1 .. Top - 1
        BY <2>1, ChainFacts
      <3>3. CASE k < i
        BY <2>1, <3>2, <3>3
      <3>4. CASE ~(k < i)
        BY <2>1, <3>2, <3>4
      <3>5. QED
        BY <3>3, <3>4, Zenon
    <2>3. files'[Top'] = files[Top]
      BY <2>1, ChainFacts
    <2>4. MapTypes'
      <3>1. LastFlag(flags', Top - 1) \in 0 .. Top - 1
        BY <2>1, ChainFacts, LastFlagIs
      <3>2. Top' \in 1 .. used /\ snapIndx' \in 0 .. used /\ Len(flags') = Top'
        BY <2>1, <3>1, ChainFacts DEF StructInv, MapTypes
      <3>3. location' \in [Blocks -> 0 .. Top']
        BY <2>1, ChainFacts DEF StructInv, MapTypes, RemoveIndex
      <3>4. QED
        BY <1>2, <2>1, <3>2, <3>3, Zenon DEF StructInv, MapTypes
    <2>5. ChainInv'
      <3>1. \A k, n \in 1 .. Top' : files'[k] = files'[n] => k = n
        <4>1. TAKE k, n \in 1 .. Top'
        <4>2. HAVE files'[k] = files'[n]
        <4>3. PICK j \in 1 .. Top : files'[k] = files[j] /\ j \in {k, k + 1} /\ (j = k <=> k < i)
          BY <2>2, Zenon
        <4>4. PICK m \in 1 .. Top : files'[n] = files[m] /\ m \in {n, n + 1} /\ (m = n <=> n < i)
          BY <2>2, Zenon
        <4>5. j = m
          BY <1>8, <4>2, <4>3, <4>4, Zenon DEF ChainInv
        <4>6. k \in Int /\ n \in Int /\ i \in Int
          BY <2>1, ChainFacts
        <4>7. QED
          BY <4>3, <4>4, <4>5, <4>6
      <3>2. \A k \in 1 .. Top' : files'[k] <= used
        BY <1>8, <2>2, Zenon DEF ChainInv
      <3>3. QED
        BY <1>1, <1>2, <1>4, <1>8, <2>3, <3>1, <3>2, Zenon DEF ChainInv
    <2>6. CloseInv'
      <3>1. \A k \in 1 .. Top' : files'[k] \notin closed'
        <4>1. TAKE k \in 1 .. Top'
        <4>2. PICK j \in 1 .. Top : files'[k] = files[j] /\ j # i
          BY <2>2, Zenon
        <4>3. i \in 1 .. Top
          BY ChainFacts
        <4>4. files[j] # folded
          BY <1>8, <2>1, <4>2, <4>3, Zenon DEF ChainInv
        <4>5. QED
          BY <1>1, <1>3, <1>8, <4>2, <4>4, Zenon
      <3>2. QED
        BY <1>1, <1>2, <1>3, <1>4, <1>8, <3>1, Zenon DEF CloseInv
    <2>7. QED
      BY <1>6, <1>7, <2>4, <2>5, <2>6, Zenon DEF StructInv
  <1>11. QED
    BY <1>9, <1>10, FinishRemoveIs, Zenon

\* InitStruct: a new volume and a replica about to rebuild satisfy the
\* invariant.
LEMMA InitStruct == Init => StructInv
  <1>1. SUFFICES ASSUME Init PROVE StructInv
    BY Zenon
  <1>2. /\ flags = FlagsOf(files) /\ snapIndx = LastFlag(flags, Top) /\ location = NoLocation
        /\ data = [f \in Files |-> NoData] /\ holes = <<>> /\ worker = None /\ drain = "done"
        /\ holder = Free /\ folded = None /\ closed = {} /\ writes = 0 /\ (InitNew \/ InitRebuild)
    BY <1>1, Zenon DEF Init
  <1>3. 1 \in Files /\ 2 \in Files /\ 3 \in Files /\ MaxWrites \in Nat
    BY LunMapAssumption DEF Files
  <1> DEFINE V == [Blocks -> Value \union {Unmapped}]
  <1>4. /\ NoData \in FileData
        /\ \A v \in -2 .. 0 : [s \in Sectors |-> v] \in Value
    <2>1. \A v \in -2 .. 0 : v \in -2 .. MaxWrites
      BY <1>3
    <2>2. \A v \in -2 .. 0 : [s \in Sectors |-> v] \in Value
      BY <2>1, Zenon DEF Value
    <2>3. NoData \in FileData
      BY Zenon DEF NoData, FileData
    <2>4. QED
      BY <2>2, <2>3, Zenon
  <1>5. /\ files \in Seq(Files) /\ Top \in 1 .. used /\ used \in Files /\ punch \in BOOLEAN
        /\ \A i \in 1 .. Top : files[i] = i
        /\ Top = used /\ (stage = "done" \/ (stage = "sync" /\ files = <<1, 2, 3>>))
    <2>1. CASE InitNew
      BY <1>3, <2>1 DEF InitNew, Top
    <2>2. CASE InitRebuild
      <3>1. files = <<1, 2, 3>> /\ used = 3 /\ punch = FALSE /\ stage = "sync"
        BY <2>2, Zenon DEF InitRebuild
      <3>2. /\ <<1, 2, 3>> \in Seq(Files) /\ Len(<<1, 2, 3>>) = 3
            /\ \A i \in 1 .. 3 : <<1, 2, 3>>[i] = i
        BY <1>3
      <3>3. Top = 3 /\ 3 \in 1 .. 3
        BY <3>1, <3>2 DEF Top
      <3>4. QED
        BY <1>3, <3>1, <3>2, <3>3, Zenon
    <2>3. QED
      BY <1>2, <2>1, <2>2, Zenon
  <1>6. /\ kind \in [Files -> {"auto", "user", "removed"}]
        /\ vol \in V /\ snaps \in [Files -> V \union {None}]
        /\ \A f \in Files : kind[f] = "user" => snaps[f] \in V
        /\ source \in [Files -> FileData \union {None}]
        /\ \A f \in Files : f > used => kind[f] = "auto" /\ source[f] = None
        /\ kind[used] = "auto"
    <2>1. CASE InitNew
      <3>1. Zeros \in Value
        BY <1>4 DEF Zeros
      <3>2. QED
        BY <1>3, <2>1, <3>1, Zenon DEF InitNew
    <2>2. CASE InitRebuild
      <3> DEFINE copied(v) == [s \in Sectors |-> v]
                 base == [b \in Blocks |-> copied(-1)]
                 over(later) == [b \in Blocks |-> IF b \in later THEN copied(-2) ELSE Hole]
      <3>1. PICK later \in SUBSET Blocks, byUser \in BOOLEAN :
               /\ kind = [f \in Files |-> IF f = 1 /\ byUser THEN "user" ELSE "auto"]
               /\ source = [f \in Files |-> CASE f = 1 -> base [] f = 2 -> over(later) [] OTHER -> None]
               /\ used = 3
               /\ vol = [b \in Blocks |-> IF b \in later THEN copied(-2) ELSE copied(-1)]
               /\ snaps = [f \in Files |-> IF f = 1 /\ byUser THEN base ELSE None]
        BY <2>2, Zenon DEF InitRebuild
      <3>2. copied(-1) \in Value /\ copied(-2) \in Value
        BY <1>4
      <3> HIDE DEF copied
      <3>3. base \in V /\ base \in FileData /\ over(later) \in FileData /\ vol \in V
        BY <3>1, <3>2, Zenon DEF FileData
      <3> HIDE DEF base, over, V
      <3>4. source \in [Files -> FileData \union {None}] /\ \A f \in Files : f > 3 => source[f] = None
        BY <3>1, <3>3
      <3>5. QED
        BY <1>3, <3>1, <3>3, <3>4
    <2>3. QED
      BY <1>2, <2>1, <2>2, Zenon
  <1>7. flags \in Seq(BOOLEAN) /\ Len(flags) = Top /\ snapIndx \in 0 .. used
    <2>1. flags \in Seq(BOOLEAN) /\ Len(flags) = Top
      BY <1>2, <1>5, FlagsOfIs, Zenon DEF Top
    <2>2. Top \in Nat
      BY <1>5 DEF Files
    <2>3. snapIndx \in 0 .. Top
      BY <1>2, <2>2, LastFlagIs, Zenon
    <2>4. QED
      BY <1>5, <2>1, <2>2, <2>3, Zenon
  <1>8. MapTypes
    <2>1. location \in [Blocks -> 0 .. Top] /\ data \in [Files -> FileData] /\ writes \in 0 .. MaxWrites
      BY <1>2, <1>3, <1>4, <1>5 DEF NoLocation, Files
    <2>2. QED
      BY <1>5, <1>6, <1>7, <2>1, Zenon DEF MapTypes, V
  <1>9. Queued = {}
    <2>1. Len(<<>>) = 0 /\ \A i \in 1 .. 0 : FALSE
      OBVIOUS
    <2>2. QED
      BY <1>2, <2>1, NoValueAssumption, Zenon DEF Queued
  <1>10. HoleTypes
    BY <1>2 DEF HoleTypes, Free
  <1>11. RebuildTypes /\ RebuildInv
    BY <1>2, <1>5, <1>6, Zenon DEF RebuildTypes, RebuildInv, Unlocked, Free
  <1>12. ChainInv
    <2>1. \A f \in Files : data[f] = NoData
      BY <1>2, Zenon
    <2>2. files[Top] = used /\ \A i \in 1 .. Top : files[i] <= used
      BY <1>5 DEF Files
    <2>3. QED
      BY <1>2, <1>5, <1>6, <1>9, <2>1, <2>2, Zenon DEF ChainInv
  <1>13. CloseInv
    BY <1>2, <1>9, Zenon DEF CloseInv, Unlocked, Free
  <1>14. QED
    BY <1>8, <1>10, <1>11, <1>12, <1>13, Zenon DEF StructInv

\* NextStruct: every step keeps the invariant.
LEMMA NextStruct == StructInv /\ [Next]_vars => StructInv'
  <1> SUFFICES ASSUME StructInv, [Next]_vars PROVE StructInv'
    BY Zenon
  <1>1. ASSUME IO PROVE StructInv'
    BY <1>1, FullWriteStruct, PartialWriteStruct, ReadStruct, UnmapStruct, Zenon DEF IO
  <1>2. ASSUME Close PROVE StructInv'
    <2>1. Unlocked /\ IsRW /\ StartDrain("close", None)
      BY <1>2, Zenon DEF Close
    <2>2. "close" \in {"remove", "close"} /\ "close" # "remove" /\ None \in Files \union {None}
      BY Zenon
    <2>3. QED
      BY <2>1, <2>2, StartDrainStruct, Zenon
  <1>3. ASSUME Chain PROVE StructInv'
    BY <1>2, <1>3, SnapshotStruct, DeleteStruct, RevertStruct, RestartStruct, Zenon DEF Chain
  <1>4. ASSUME CreateHoles PROVE StructInv'
    BY <1>4, ReceiveStruct, PunchStruct, Zenon DEF CreateHoles
  <1>5. ASSUME RemoveDiffDisk PROVE StructInv'
    <2>1. Unlocked /\ IsRW /\ folded # None /\ StartDrain("remove", folded)
      BY <1>5, Zenon DEF RemoveDiffDisk
    <2>2. "remove" \in {"remove", "close"} /\ folded \in Files \union {None}
      BY Zenon DEF StructInv, HoleTypes
    <2>3. QED
      BY <2>1, <2>2, StartDrainStruct, Zenon
  <1>6. ASSUME Cleaning PROVE StructInv'
    BY <1>5, <1>6, FoldStruct, Zenon DEF Cleaning
  <1>7. ASSUME Draining PROVE StructInv'
    BY <1>7, EmptyHoleStruct, FinishRemoveStruct, FinishCloseStruct, Zenon DEF Draining
  <1>8. ASSUME Rebuilding PROVE StructInv'
    BY <1>8, SyncStruct, ReloadStruct, UpdateStartsStruct, UpdatePreloadsStruct, UpdateMergesStruct, Zenon DEF Rebuilding
  <1>9. ASSUME UNCHANGED vars PROVE StructInv'
    <2>1. /\ files' = files /\ flags' = flags /\ snapIndx' = snapIndx /\ location' = location /\ data' = data
          /\ stage' = stage /\ source' = source /\ copy' = copy /\ punch' = punch /\ holes' = holes
          /\ worker' = worker /\ drain' = drain /\ holder' = holder /\ folded' = folded /\ closed' = closed
          /\ used' = used /\ writes' = writes /\ vol' = vol /\ kind' = kind /\ snaps' = snaps
      BY <1>9, Zenon DEF vars, mapVars, rebuildVars, holeVars, cleanVars, counters, ghosts
    <2>2. Top' = Top /\ Queued' = Queued /\ Unlocked' = Unlocked
      BY <2>1, SameHoles, Zenon DEF Top, Unlocked
    <2>3. MapTypes' /\ HoleTypes' /\ RebuildTypes'
      <3>1. MapTypes'
        BY <2>1, <2>2, Zenon DEF StructInv, MapTypes
      <3>2. HoleTypes' /\ RebuildTypes'
        BY <2>1, <2>2, Zenon DEF StructInv, HoleTypes, RebuildTypes
      <3>3. QED
        BY <3>1, <3>2, Zenon
    <2>4. ChainInv' /\ RebuildInv' /\ CloseInv'
      BY <2>1, <2>2, Zenon DEF StructInv, ChainInv, RebuildInv, CloseInv
    <2>5. QED
      BY <2>3, <2>4, Zenon DEF StructInv
  <1>10. QED
    BY <1>1, <1>3, <1>4, <1>6, <1>7, <1>8, <1>9, Zenon DEF Next

\* StructAlways: the types, the chain, the rebuild and the drains are always
\* as the invariant says.
THEOREM StructAlways == Spec => []StructInv
  BY InitStruct, NextStruct, PTL DEF Spec

\* TypesCorrect: for any volume, any chain and any order of writes, snapshots,
\* reverts, removals, restarts and rebuilds, every index of the map is one of
\* the chain, and there is a flag for every file (diffDisk: location, files,
\* UserCreatedSnap, RemoveIndex).
THEOREM TypesCorrect == Spec => []TypeOK
  <1>1. StructInv => TypeOK
    <2>1. SUFFICES ASSUME StructInv PROVE TypeOK
      BY Zenon
    <2>2. \A i \in 1 .. Len(holes) : holes[i] \in HoleType
      BY <2>1 DEF StructInv, HoleTypes
    <2>3. QED
      BY <2>1, <2>2, Zenon DEF TypeOK, StructInv, MapTypes, HoleTypes, RebuildTypes, Top, FileData
  <1>2. QED
    BY <1>1, StructAlways, PTL

\* ClosedFilesNotPunched: whatever the capacity of the channel, once RemoveDiffDisk
\* or Close has closed a file no hole is left for it, in the channel or in
\* CreateHoles (holeDrainer).
THEOREM ClosedFilesNotPunched == Spec => []NoHoleInClosedFile
  <1>1. StructInv => NoHoleInClosedFile
    <2>1. SUFFICES ASSUME StructInv, NEW f \in Pending, f \in closed PROVE FALSE
      BY Zenon DEF NoHoleInClosedFile
    <2>2. f \in Files /\ f # None
      BY <2>1, NoValueAssumption, Zenon DEF StructInv, HoleTypes
    <2>3. PICK h \in HoleType : h.file = f /\ (h = worker \/ \E i \in 1 .. Len(holes) : holes[i] = h)
      <3>1. CASE \E i \in 1 .. Len(holes) : f = holes[i].file
        <4>1. PICK i \in 1 .. Len(holes) : f = holes[i].file
          BY <3>1, Zenon
        <4>2. holes[i] \in HoleType
          BY <2>1 DEF StructInv, HoleTypes
        <4>3. QED
          BY <4>1, <4>2, Zenon
      <3>2. CASE worker # None /\ f = worker.file
        BY <2>1, <3>2, Zenon DEF StructInv, HoleTypes
      <3>3. QED
        BY <2>1, <3>1, <3>2, Zenon DEF Pending
    <2>4. h \in Queued
      BY <2>2, <2>3, Zenon DEF Queued
    <2>5. CASE holder.op = "closed"
      BY <2>1, <2>4, <2>5, Zenon DEF StructInv, CloseInv, Unlocked
    <2>6. CASE holder.op # "closed"
      BY <2>1, <2>3, <2>4, <2>6, Zenon DEF StructInv, CloseInv
    <2>7. QED
      BY <2>5, <2>6, Zenon
  <1>2. QED
    BY <1>1, StructAlways, PTL
=============================================================================

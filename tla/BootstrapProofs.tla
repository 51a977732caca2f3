-------------------------- MODULE BootstrapProofs --------------------------
(***************************************************************************)
(* What is proved about the election of the replica that starts the        *)
(* volume, for any number of replicas, any replication factor and any      *)
(* number of crashes and lost signals: the types, and that the leader is   *)
(* the latest of the registered replicas.                                  *)
(***************************************************************************)
EXTENDS Bootstrap, TLAPS

USE SMTT(20), ZenonT(20), SMTT(30)  \* the provers, in the order they are tried, and their time limits

-----------------------------------------------------------------------------
(* The inductive invariant                                                 *)

\* What the map says of a replica is what is on its disk.
MapIsDisk == \A r \in Replicas : regRev[r] \in {-1, rev[r]}

\* While replicas are attached there is a leader: only the last one to leave
\* takes it away.
AttachedHaveLeader == Attached # {} => maxRev # None

\* A leader that is not in the map is known only while the map is empty; from
\* the next registration on it counts as given up.
LeaderIsEntered ==
  /\ maxRev = None => Registered(regRev) = {}
  /\ maxRev # None /\ Registered(regRev) # {} => regRev[maxRev] # -1

\* Before the signal no entered replica is ahead of the leader.  Once it was
\* signalled, or is attached, replicas that are ahead may still enter.
LeaderIsAhead ==
  ~startSignalled /\ Attached = {} /\ maxRev # None =>
    \A q \in Registered(regRev) : RevCount(regRev, q) <= RevCount(regRev, maxRev)

ElectionInv ==
  /\ TypeOK
  /\ MapIsDisk
  /\ AttachedHaveLeader
  /\ ~dropped => LeaderIsEntered /\ LeaderIsAhead

-----------------------------------------------------------------------------
(* The handlers of Registration                                            *)

\* Channel: a signal leaves an action or nothing in every channel
\* (signalReplica, ActionChannel).
LEMMA Channel ==
  ASSUME NEW box \in [Replicas -> {"start", "add", None}], NEW m, NEW out
  PROVE  Delivered(box, m, out, "start") \in [Replicas -> {"start", "add", None}]
  BY Zenon DEF Delivered

\* LeaderIsKnown: the leader is the replica that registers or the one known so
\* far (the loop over RegisteredReplicas in registerReplica).
LEMMA LeaderIsKnown ==
  ASSUME NEW reg, NEW m \in Replicas \cup {None}, NEW r \in Replicas
  PROVE  /\ Leader(reg, m, r) \in Replicas
         /\ Leader(reg, m, r) \in {m, r}
  BY BootstrapAssumption, Zenon DEF Leader

\* NewLeaderIsAhead: when the leader known so far is ahead of everybody but r,
\* the replica that registers, the new one is ahead of everybody
\* (registerReplica).
LEMMA NewLeaderIsAhead ==
  ASSUME NEW reg \in [Replicas -> Int], NEW m \in Replicas \cup {None}, NEW r \in Replicas,
         reg[r] # -1, reg[r] >= 0,
         m = None => Registered(reg) = {r},
         m # None => \A q \in Registered(reg) \ {r} : RevCount(reg, q) <= RevCount(reg, m)
  PROVE  \A q \in Registered(reg) : RevCount(reg, q) <= RevCount(reg, Leader(reg, m, r))
  BY BootstrapAssumption DEF Leader, Registered, RevCount

\* SignalOutcome: the leader takes the signal, or is given up (signalReplica).
LEMMA SignalOutcome ==
  ASSUME NEW reg \in [Replicas -> Int], NEW m \in Replicas,
         NEW box \in [Replicas -> {"start", "add", None}], NEW out,
         SignalReplica(reg, m, box, out)
  PROVE  /\ inbox' \in [Replicas -> {"start", "add", None}]
         /\ \/ regRev' = reg /\ maxRev' = m /\ startSignalled' = TRUE
            \/ regRev' = [reg EXCEPT ![m] = -1] /\ maxRev' = None /\ startSignalled' = FALSE
  BY Channel, Zenon DEF SignalReplica

\* ChooseOutcome: the leader is chosen, and then signalled, left to wait for a
\* majority, or given up (the end of registerReplica).
LEMMA ChooseOutcome ==
  ASSUME NEW r \in Replicas, NEW reg \in [Replicas -> Int], NEW m \in Replicas \cup {None},
         NEW sig \in BOOLEAN, NEW box \in [Replicas -> {"start", "add", None}], NEW out,
         ChooseLeader(r, reg, m, sig, box, out)
  PROVE  LET l == Leader(reg, m, r)
         IN  /\ inbox' \in [Replicas -> {"start", "add", None}]
             /\ \/ regRev' = reg /\ maxRev' = l /\ startSignalled' \in {TRUE, sig}
                \/ regRev' = [reg EXCEPT ![l] = -1] /\ maxRev' = None /\ startSignalled' = FALSE
  <1> DEFINE l == Leader(reg, m, r)
  <1>1. l \in Replicas
    BY LeaderIsKnown, Zenon
  <1>2. CASE SignalReplica(reg, l, box, out)
    <2> HIDE DEF l
    <2>1. QED
      BY <1>1, <1>2, SignalOutcome, Zenon DEF l
  <1>3. CASE ~SignalReplica(reg, l, box, out)
    BY <1>3, Zenon DEF ChooseLeader
  <1>4. QED
    BY <1>2, <1>3, Zenon

-----------------------------------------------------------------------------
(* Registering                                                             *)

\* GivenUp: a registration that ends without a leader leaves an empty map, or
\* counts as having given one up (registerReplica, signalReplica).
LEMMA GivenUp ==
  ASSUME ElectionInv, Drop, maxRev' = None, startSignalled' = FALSE,
         maxRev = None => dropped \/ Registered(regRev') = {},
         Attached' = {}
  PROVE  /\ ~dropped' => LeaderIsEntered' /\ LeaderIsAhead'
         /\ Chosen /\ ~dropped' => Latest
  BY Zenon DEF Drop, ElectionInv, LeaderIsEntered, LeaderIsAhead, Chosen, Latest

\* EnteredOnly: a replica that registers while others are attached, or while the
\* signalled leader is alive, is only entered (the early returns of
\* registerReplica).
LEMMA EnteredOnly ==
  ASSUME ElectionInv, Drop, NEW r \in Replicas,
         Attached # {} \/ startSignalled,
         regRev' = [regRev EXCEPT ![r] = rev[r]],
         UNCHANGED <<maxRev, startSignalled>>, Attached' = Attached
  PROVE  /\ ~dropped' => LeaderIsEntered' /\ LeaderIsAhead'
         /\ Chosen /\ ~dropped' => Latest
  <1>1. maxRev # None
    BY Zenon DEF ElectionInv, AttachedHaveLeader, TypeOK, RegTypeOK
  <1>2. ~Chosen
    BY Zenon DEF Chosen
  <1>3. LeaderIsAhead'
    BY Zenon DEF LeaderIsAhead
  <1>4. ~dropped' => LeaderIsEntered'
    BY <1>1, Zenon DEF Drop, LeaderIsEntered
  <1>5. QED
    BY <1>2, <1>3, <1>4, Zenon

\* FirstChoice: a leader that registerReplica chooses before any signal is ahead
\* of all the entered replicas, or another one was given up.
LEMMA FirstChoice ==
  ASSUME ElectionInv, Drop, NEW r \in Replicas,
         Attached = {}, ~startSignalled, Attached' = {},
         regRev' = [regRev EXCEPT ![r] = rev[r]],
         maxRev' = Leader(regRev', maxRev, r)
  PROVE  /\ ~dropped' => LeaderIsEntered' /\ LeaderIsAhead'
         /\ Chosen /\ ~dropped' => Latest
  <1> SUFFICES ASSUME ~dropped'
               PROVE  LeaderIsEntered' /\ LeaderIsAhead' /\ Latest
    BY Zenon
  <1>1. /\ regRev \in [Replicas -> Int] /\ regRev' \in [Replicas -> Int]
        /\ rev[r] \in Nat /\ rev[r] >= 1 /\ regRev'[r] = rev[r]
        /\ maxRev \in Replicas \cup {None}
        /\ \A q \in Replicas : regRev[q] \in {-1, rev[q]}
    BY DEF ElectionInv, TypeOK, RegTypeOK, MapIsDisk
  <1>2. ~dropped /\ (maxRev # None => regRev'[maxRev] # -1)
    <2>1. r \in Registered(regRev')
      BY <1>1 DEF Registered
    <2>2. QED
      BY <2>1, Zenon DEF Drop
  <1>3. maxRev = None => Registered(regRev') = {r}
    BY <1>1, <1>2 DEF ElectionInv, LeaderIsEntered, Registered
  <1>4. maxRev # None => \A q \in Registered(regRev') \ {r} :
                            RevCount(regRev', q) <= RevCount(regRev', maxRev)
    BY <1>1, <1>2 DEF ElectionInv, LeaderIsAhead, Registered, RevCount
  <1>5. \A q \in Registered(regRev') : RevCount(regRev', q) <= RevCount(regRev', maxRev')
    <2>1. regRev'[r] # -1 /\ regRev'[r] >= 0
      BY <1>1
    <2>2. QED
      BY <1>1, <1>3, <1>4, <2>1, NewLeaderIsAhead, Zenon
  <1>6. Latest /\ LeaderIsAhead'
    BY <1>5, Zenon DEF Latest, LeaderIsAhead
  <1>7. LeaderIsEntered'
    <2>1. maxRev' \in Replicas /\ maxRev' \in {maxRev, r}
      BY <1>1, LeaderIsKnown, Zenon
    <2>2. maxRev' # None /\ regRev'[maxRev'] # -1
      BY <1>1, <1>2, <2>1, BootstrapAssumption
    <2>3. QED
      BY <2>2, Zenon DEF LeaderIsEntered
  <1>8. QED
    BY <1>6, <1>7, Zenon

\* OutcomeKeeps: whether the leader l is kept or given up, the types hold and the
\* map says what is on the disks (registerReplica, signalReplica).
LEMMA OutcomeKeeps ==
  ASSUME NEW f \in [Replicas -> Int], NEW l \in Replicas,
         \A q \in Replicas : f[q] \in {-1, rev[q]},
         inbox' \in [Replicas -> {"start", "add", None}],
         \/ regRev' = f /\ maxRev' = l /\ startSignalled' \in BOOLEAN
         \/ regRev' = [f EXCEPT ![l] = -1] /\ maxRev' = None /\ startSignalled' = FALSE
  PROVE  /\ RegTypeOK'
         /\ \A q \in Replicas : regRev'[q] \in {-1, rev[q]}
  <1>1. None \notin Replicas
    BY BootstrapAssumption, Zenon
  <1>2. CASE regRev' = f /\ maxRev' = l /\ startSignalled' \in BOOLEAN
    BY <1>1, <1>2, Zenon DEF RegTypeOK
  <1>3. CASE regRev' = [f EXCEPT ![l] = -1] /\ maxRev' = None /\ startSignalled' = FALSE
    <2>1. regRev' \in [Replicas -> Int] /\ \A q \in Replicas : regRev'[q] \in {-1, rev[q]}
      BY <1>3
    <2>2. QED
      BY <1>3, <2>1, Zenon DEF RegTypeOK
  <1>4. QED
    BY <1>2, <1>3, Zenon

\* RegisterKeeps: a registration, whatever becomes of its signals, keeps the
\* types, the map and the leader of attached replicas (registerReplica).
LEMMA RegisterKeeps ==
  ASSUME ElectionInv, NEW r \in Replicas, NEW alive, NEW first, NEW out,
         RegisterReplica(r, rev[r], Attached # {}, alive, first, out)
  PROVE  /\ RegTypeOK'
         /\ \A q \in Replicas : regRev'[q] \in {-1, rev[q]}
         /\ Attached # {} => maxRev' # None
  <1> DEFINE reg  == [regRev EXCEPT ![r] = rev[r]]
             left == [q \in Replicas |-> IF q = maxRev THEN -1 ELSE reg[q]]
  <1>1. /\ regRev \in [Replicas -> Int] /\ rev[r] \in Int
        /\ maxRev \in Replicas \cup {None}
        /\ startSignalled \in BOOLEAN
        /\ startSignalled => maxRev # None
        /\ inbox \in [Replicas -> {"start", "add", None}]
        /\ \A q \in Replicas : regRev[q] \in {-1, rev[q]}
        /\ Attached # {} => maxRev # None
    BY DEF ElectionInv, TypeOK, RegTypeOK, MapIsDisk, AttachedHaveLeader
  <1>2. /\ reg \in [Replicas -> Int] /\ left \in [Replicas -> Int]
        /\ \A q \in Replicas : reg[q] \in {-1, rev[q]} /\ left[q] \in {-1, rev[q]}
    BY <1>1
  <1> HIDE DEF reg, left
  <1>3. ASSUME NEW f \in [Replicas -> Int], NEW m \in Replicas \cup {None},
               NEW sig \in BOOLEAN, NEW box \in [Replicas -> {"start", "add", None}],
               ChooseLeader(r, f, m, sig, box, out),
               \A q \in Replicas : f[q] \in {-1, rev[q]}
        PROVE  RegTypeOK' /\ \A q \in Replicas : regRev'[q] \in {-1, rev[q]}
    <2>1. Leader(f, m, r) \in Replicas
      BY LeaderIsKnown, Zenon
    <2>2. /\ inbox' \in [Replicas -> {"start", "add", None}]
          /\ \/ regRev' = f /\ maxRev' = Leader(f, m, r) /\ startSignalled' \in {TRUE, sig}
             \/ /\ regRev' = [f EXCEPT ![Leader(f, m, r)] = -1]
                /\ maxRev' = None /\ startSignalled' = FALSE
      BY <1>3, ChooseOutcome, Zenon
    <2>3. QED
      BY <1>3, <2>1, <2>2, OutcomeKeeps, Zenon
  <1>4. CASE /\ Attached # {} \/ (startSignalled /\ r # maxRev /\ alive)
             /\ regRev' = reg
             /\ UNCHANGED <<maxRev, startSignalled, inbox>>
    BY <1>1, <1>2, <1>4, Zenon DEF RegTypeOK
  <1>5. CASE ~(Attached # {}) /\ ~startSignalled /\ ChooseLeader(r, reg, maxRev, FALSE, inbox, out)
    BY <1>1, <1>2, <1>3, <1>5, Zenon
  <1>6. CASE ~(Attached # {}) /\ startSignalled /\ r = maxRev /\ SignalAgain(r, reg, first, out)
    <2>1. CASE first = "sent"
      <3>1. /\ ChooseLeader(r, reg, r, TRUE, Delivered(inbox, r, first, "start"), out)
            /\ Delivered(inbox, r, first, "start") \in [Replicas -> {"start", "add", None}]
        BY <1>1, <1>6, <2>1, Channel, Zenon DEF SignalAgain
      <3>2. QED
        BY <1>2, <1>3, <1>6, <3>1, Zenon
    <2>2. CASE first # "sent"
      <3>1. SignalReplica(reg, r, inbox, first)
        BY <1>6, <2>2, Zenon DEF SignalAgain
      <3>2. /\ inbox' \in [Replicas -> {"start", "add", None}]
            /\ \/ regRev' = reg /\ maxRev' = r /\ startSignalled' = TRUE
               \/ regRev' = [reg EXCEPT ![r] = -1] /\ maxRev' = None /\ startSignalled' = FALSE
        BY <1>1, <1>2, <3>1, SignalOutcome, Zenon
      <3>3. QED
        BY <1>2, <1>6, <3>2, OutcomeKeeps, Zenon
    <2>3. QED
      BY <2>1, <2>2, Zenon
  <1>7. CASE ~(Attached # {}) /\ startSignalled /\ ChooseLeader(r, left, None, FALSE, inbox, out)
    BY <1>1, <1>2, <1>3, <1>7, Zenon
  <1>8. QED
    BY <1>4, <1>5, <1>6, <1>7, Zenon DEF RegisterReplica, reg, left

\* RegisterElects: a registration keeps what the invariant says of the leader,
\* and the leader it chooses is the latest (registerReplica).
LEMMA RegisterElects ==
  ASSUME ElectionInv, Drop, NEW r \in Replicas, NEW alive, NEW first, NEW out,
         RegisterReplica(r, rev[r], Attached # {}, alive, first, out),
         Attached' = Attached
  PROVE  /\ ~dropped' => LeaderIsEntered' /\ LeaderIsAhead'
         /\ Chosen /\ ~dropped' => Latest
  <1> DEFINE reg  == [regRev EXCEPT ![r] = rev[r]]
             left == [q \in Replicas |-> IF q = maxRev THEN -1 ELSE reg[q]]
             Goal == /\ ~dropped' => LeaderIsEntered' /\ LeaderIsAhead'
                     /\ Chosen /\ ~dropped' => Latest
  <1>1. /\ regRev \in [Replicas -> Int] /\ rev[r] \in Nat /\ rev[r] # -1
        /\ maxRev \in Replicas \cup {None}
        /\ startSignalled \in BOOLEAN
        /\ startSignalled => maxRev # None
        /\ inbox \in [Replicas -> {"start", "add", None}]
        /\ None \notin Replicas
    BY BootstrapAssumption DEF ElectionInv, TypeOK, RegTypeOK
  <1>2. reg \in [Replicas -> Int] /\ left \in [Replicas -> Int]
    BY <1>1
  <1>3. r # maxRev => r \in Registered(left)
    BY <1>1, Zenon DEF Registered
  <1>4. maxRev # None => left[maxRev] = -1
    BY <1>1, Zenon
  <1>5. maxRev = None => dropped \/ Registered([reg EXCEPT ![r] = -1]) = {}
    BY <1>1, Zenon DEF ElectionInv, LeaderIsEntered, Registered
  <1> HIDE DEF left, Goal
  <1>6. ASSUME Attached = {}, maxRev' = None, startSignalled' = FALSE,
               maxRev = None => dropped \/ Registered(regRev') = {}
        PROVE  Goal
    BY <1>6, GivenUp, Zenon DEF Goal
  <1>7. CASE /\ Attached # {} \/ (startSignalled /\ r # maxRev /\ alive)
             /\ regRev' = reg
             /\ UNCHANGED <<maxRev, startSignalled, inbox>>
    BY <1>7, EnteredOnly, Zenon DEF Goal
  <1>8. CASE ~(Attached # {}) /\ ~startSignalled /\ ChooseLeader(r, reg, maxRev, FALSE, inbox, out)
    <2> HIDE DEF reg
    <2> DEFINE l == Leader(reg, maxRev, r)
    <2>1. \/ regRev' = reg /\ maxRev' = l
          \/ regRev' = [reg EXCEPT ![l] = -1] /\ maxRev' = None /\ startSignalled' = FALSE
      BY <1>1, <1>2, <1>8, ChooseOutcome, Zenon
    <2>2. CASE regRev' = reg /\ maxRev' = l
      BY <1>8, <2>2, FirstChoice, Zenon DEF Goal, reg
    <2>3. CASE regRev' = [reg EXCEPT ![l] = -1] /\ maxRev' = None /\ startSignalled' = FALSE
      <3>1. maxRev = None => l = r
        BY <1>1, LeaderIsKnown
      <3>2. QED
        BY <1>5, <1>6, <1>8, <2>3, <3>1, Zenon DEF Goal
    <2>4. QED
      BY <2>1, <2>2, <2>3, Zenon
  <1>9. CASE ~(Attached # {}) /\ startSignalled /\ r = maxRev /\ SignalAgain(r, reg, first, out)
    <2> HIDE DEF reg
    <2>1. \/ regRev' = reg /\ maxRev' = r /\ startSignalled' = TRUE
          \/ maxRev' = None /\ startSignalled' = FALSE
      <3>1. CASE first = "sent"
        <4>1. /\ ChooseLeader(r, reg, r, TRUE, Delivered(inbox, r, first, "start"), out)
              /\ Delivered(inbox, r, first, "start") \in [Replicas -> {"start", "add", None}]
          BY <1>1, <1>9, <3>1, Channel, Zenon DEF SignalAgain
        <4>2. Leader(reg, r, r) = r
          BY LeaderIsKnown, Zenon
        <4>3. QED
          BY <1>1, <1>2, <4>1, <4>2, ChooseOutcome, Zenon
      <3>2. CASE first # "sent"
        <4>1. SignalReplica(reg, r, inbox, first)
          BY <1>9, <3>2, Zenon DEF SignalAgain
        <4>2. QED
          BY <1>1, <1>2, <4>1, SignalOutcome, Zenon
      <3>3. QED
        BY <3>1, <3>2, Zenon
    <2>2. CASE regRev' = reg /\ maxRev' = r /\ startSignalled' = TRUE
      BY <1>1, <1>9, <2>2, Zenon DEF Goal, Chosen, LeaderIsEntered, LeaderIsAhead, reg
    <2>3. CASE maxRev' = None /\ startSignalled' = FALSE
      BY <1>1, <1>6, <1>9, <2>3, Zenon DEF Goal
    <2>4. QED
      BY <2>1, <2>2, <2>3, Zenon
  <1>10. CASE /\ ~(Attached # {}) /\ startSignalled /\ r # maxRev
              /\ ChooseLeader(r, left, None, FALSE, inbox, out)
    <2>1. Leader(left, None, r) \in {None, r} /\ Leader(left, None, r) \in Replicas
      BY LeaderIsKnown, Zenon
    <2>2. \/ regRev' = left
          \/ maxRev' = None /\ startSignalled' = FALSE
      BY <1>1, <1>2, <1>10, <2>1, ChooseOutcome, Zenon
    <2>3. CASE regRev' = left
      <3>1. dropped'
        BY <1>1, <1>3, <1>4, <1>10, <2>3, Zenon DEF Drop
      <3>2. QED
        BY <3>1, Zenon DEF Goal
    <2>4. CASE maxRev' = None /\ startSignalled' = FALSE
      BY <1>1, <1>6, <1>10, <2>4, Zenon DEF Goal
    <2>5. QED
      BY <2>2, <2>3, <2>4, Zenon
  <1>11. QED
    BY <1>7, <1>8, <1>9, <1>10, Zenon DEF RegisterReplica, left, Goal

-----------------------------------------------------------------------------
(* The steps                                                               *)

\* ExitType: a process that starts over asks for the volume, with an empty
\* channel (sync.Task.AddReplica).
LEMMA ExitType ==
  ASSUME TypeOK, NEW r \in Replicas, Exit(r)
  PROVE  /\ phase' \in [Replicas -> Phases]
         /\ inbox' \in [Replicas -> {"start", "add", None}]
  BY Zenon DEF TypeOK, RegTypeOK, Exit, Move, Phases

\* FaultsType: the faults stay within their bound.
LEMMA FaultsType ==
  ASSUME TypeOK, NEW b, Disturb(b)
  PROVE  faults' \in 0..MaxFaults
  BY BootstrapAssumption DEF TypeOK, Disturb

\* MoveAttached: a replica that is not attached and moves on within its loop
\* leaves the others attached (sync.Task.AddReplica).
LEMMA MoveAttached ==
  ASSUME TypeOK, NEW r \in Replicas, NEW p \in Phases \ {"attached"}, Move(r, p),
         phase[r] # "attached"
  PROVE  Attached' = Attached /\ phase' \in [Replicas -> Phases]
  BY Zenon DEF TypeOK, Move, Attached, Phases

\* QuietElection: a step that touches neither the map nor the leader elects
\* nobody, and keeps the invariant when no replica leaves and one that is
\* attached finds a leader (every handler but registration and removal).
LEMMA QuietElection ==
  ASSUME ElectionInv, TypeOK', UNCHANGED <<regRev, maxRev, startSignalled, rev, dropped>>,
         Attached' = Attached \/ (Attached' # {} /\ maxRev # None)
  PROVE  ElectionInv' /\ ~Chosen
  <1>1. MapIsDisk' /\ AttachedHaveLeader'
    BY Zenon DEF ElectionInv, MapIsDisk, AttachedHaveLeader
  <1>2. ~dropped' => LeaderIsEntered' /\ LeaderIsAhead'
    BY Zenon DEF ElectionInv, LeaderIsEntered, LeaderIsAhead
  <1>3. QED
    BY <1>1, <1>2, Zenon DEF ElectionInv, Chosen

\* LoopStep: the steps of a replica's loop other than its registration elect
\* nobody (sync.Task.AddReplica, the crash of a replica that is not attached).
LEMMA LoopStep ==
  ASSUME ElectionInv, NEW r \in Replicas,
         GetVolume(r) \/ Retry(r) \/ Receive(r) \/ Crash(r)
  PROVE  ElectionInv' /\ ~Chosen
  <1>1. TypeOK
    BY Zenon DEF ElectionInv
  <1>2. /\ TypeOK' /\ Attached' = Attached
        /\ UNCHANGED <<regRev, maxRev, startSignalled, rev, dropped>>
    <2>1. CASE GetVolume(r)
      <3>1. PICK p \in {"register", "join"} : Move(r, p)
        BY <2>1, Zenon DEF GetVolume
      <3>2. Attached' = Attached /\ phase' \in [Replicas -> Phases]
        BY <1>1, <2>1, <3>1, MoveAttached, Zenon DEF GetVolume, Phases
      <3>3. QED
        BY <1>1, <2>1, <3>2, Zenon DEF GetVolume, regVars, TypeOK, RegTypeOK
    <2>2. CASE Retry(r)
      <3>1. Attached' = Attached /\ phase' \in [Replicas -> Phases]
        BY <1>1, <2>2, MoveAttached, Zenon DEF Retry, Phases
      <3>2. faults' \in 0..MaxFaults
        BY <1>1, <2>2, FaultsType, Zenon DEF Retry
      <3>3. QED
        BY <1>1, <2>2, <3>1, <3>2, Zenon DEF Retry, regVars, TypeOK, RegTypeOK
    <2>3. CASE Receive(r)
      <3>1. PICK p \in {"start", "join"} : Move(r, p)
        BY <2>3, Zenon DEF Receive
      <3>2. Attached' = Attached /\ phase' \in [Replicas -> Phases]
        BY <1>1, <2>3, <3>1, MoveAttached, Zenon DEF Receive, Phases
      <3>3. QED
        BY <1>1, <2>3, <3>2, Zenon DEF Receive, TypeOK, RegTypeOK
    <2>4. CASE Crash(r)
      <3>1. Attached' = Attached
        BY <1>1, <2>4, MoveAttached, Zenon DEF Crash, Exit, Phases
      <3>2. faults' \in 0..MaxFaults
        BY <1>1, <2>4, FaultsType, Zenon DEF Crash
      <3>3. /\ phase' \in [Replicas -> Phases]
            /\ inbox' \in [Replicas -> {"start", "add", None}]
        BY <1>1, <2>4, ExitType, Zenon DEF Crash
      <3>4. QED
        BY <1>1, <2>4, <3>1, <3>2, <3>3, Zenon DEF Crash, TypeOK, RegTypeOK
    <2>5. QED
      BY <2>1, <2>2, <2>3, <2>4, Zenon
  <1>3. QED
    BY <1>2, QuietElection, Zenon

\* JoinStep: a rebuild attaches its replica to others, or starts over
\* (sync.Task.AddReplica).
LEMMA JoinStep ==
  ASSUME ElectionInv, NEW r \in Replicas, Join(r)
  PROVE  ElectionInv' /\ ~Chosen
  <1>1. TypeOK /\ (Attached # {} => maxRev # None)
    BY Zenon DEF ElectionInv, AttachedHaveLeader
  <1>2. CASE Attached # {} /\ Move(r, "attached") /\ UNCHANGED inbox
    <2>1. phase' \in [Replicas -> Phases] /\ r \in Attached'
      BY <1>1, <1>2, Zenon DEF TypeOK, Move, Attached, Phases
    <2>2. TypeOK'
      BY <1>1, <1>2, <2>1, Zenon DEF Join, TypeOK, RegTypeOK
    <2>3. QED
      BY <1>1, <1>2, <2>1, <2>2, QuietElection, Zenon DEF Join
  <1>3. CASE Attached = {} /\ Exit(r)
    <2>1. Attached' = Attached
      BY <1>1, <1>3, MoveAttached, Zenon DEF Join, Exit, Phases
    <2>2. TypeOK'
      BY <1>1, <1>3, ExitType, Zenon DEF Join, TypeOK, RegTypeOK
    <2>3. QED
      BY <2>1, <2>2, QuietElection, Zenon DEF Join
  <1>4. QED
    BY <1>2, <1>3, Zenon DEF Join

\* StartStep: the Start request elects nobody; the replica that it attaches is
\* the leader (Controller.Start).
LEMMA StartStep ==
  ASSUME ElectionInv, NEW r \in Replicas, Start(r)
  PROVE  ElectionInv' /\ ~Chosen
  <1>1. TypeOK
    BY Zenon DEF ElectionInv
  <1>2. CASE Attached # {} /\ Move(r, "stranded") /\ UNCHANGED <<regVars, faults>>
    <2>1. Attached' = Attached /\ phase' \in [Replicas -> Phases]
      BY <1>1, <1>2, MoveAttached, Zenon DEF Start, Phases
    <2>2. TypeOK'
      BY <1>1, <1>2, <2>1, Zenon DEF Start, regVars, TypeOK, RegTypeOK
    <2>3. QED
      BY <1>2, <2>1, <2>2, QuietElection, Zenon DEF Start, regVars
  <1>3. CASE Exit(r) /\ UNCHANGED <<regRev, maxRev, startSignalled, faults>>
    <2>1. Attached' = Attached
      BY <1>1, <1>3, MoveAttached, Zenon DEF Start, Exit, Phases
    <2>2. TypeOK'
      BY <1>1, <1>3, ExitType, Zenon DEF Start, TypeOK, RegTypeOK
    <2>3. QED
      BY <1>3, <2>1, <2>2, QuietElection, Zenon DEF Start
  <1>4. ASSUME maxRev = r, Move(r, "attached"),
               NEW reached, SignalOthers(r, reached), Disturb(reached # Replicas)
        PROVE  ElectionInv' /\ ~Chosen
    <2>1. phase' \in [Replicas -> Phases] /\ r \in Attached'
      BY <1>1, <1>4, Zenon DEF TypeOK, Move, Attached, Phases
    <2>2. inbox' \in [Replicas -> {"start", "add", None}]
      BY <1>1, <1>4, Zenon DEF SignalOthers, TypeOK, RegTypeOK
    <2>3. faults' \in 0..MaxFaults
      BY <1>1, <1>4, FaultsType, Zenon
    <2>4. TypeOK'
      BY <1>1, <1>4, <2>1, <2>2, <2>3, Zenon DEF Start, SignalOthers, TypeOK, RegTypeOK
    <2>5. QED
      BY <1>4, <2>1, <2>4, QuietElection, BootstrapAssumption, Zenon DEF Start, SignalOthers
  <1>5. QED
    BY <1>2, <1>3, <1>4, Zenon DEF Start

\* RegisterStep: a registration keeps the invariant, and the leader it chooses is
\* the latest (registerReplica).
LEMMA RegisterStep ==
  ASSUME ElectionInv, NEW r \in Replicas, Register(r)
  PROVE  ElectionInv' /\ (Chosen /\ ~dropped' => Latest)
  <1>1. TypeOK
    BY DEF ElectionInv
  <1>2. PICK alive \in BOOLEAN, first \in Outcomes, out \in Outcomes :
          /\ RegisterReplica(r, rev[r], Attached # {}, alive, first, out)
          /\ Disturb(~alive \/ first # "sent" \/ out # "sent")
    BY Zenon DEF Register
  <1>3. Attached' = Attached /\ phase' \in [Replicas -> Phases]
    BY <1>1, MoveAttached, Zenon DEF Register, Phases
  <1>4. /\ RegTypeOK'
        /\ \A q \in Replicas : regRev'[q] \in {-1, rev[q]}
        /\ Attached # {} => maxRev' # None
    BY <1>2, RegisterKeeps, Zenon
  <1>5. /\ ~dropped' => LeaderIsEntered' /\ LeaderIsAhead'
        /\ Chosen /\ ~dropped' => Latest
    BY <1>2, <1>3, RegisterElects, Zenon DEF Register
  <1>6. TypeOK'
    <2>1. faults' \in 0..MaxFaults
      BY <1>1, <1>2, FaultsType, Zenon
    <2>2. dropped' \in BOOLEAN
      BY <1>1, Zenon DEF Register, Drop, TypeOK
    <2>3. QED
      BY <1>1, <1>3, <1>4, <2>1, <2>2, Zenon DEF Register, TypeOK
  <1>7. MapIsDisk' /\ AttachedHaveLeader'
    BY <1>3, <1>4, Zenon DEF Register, MapIsDisk, AttachedHaveLeader
  <1>8. QED
    BY <1>5, <1>6, <1>7, Zenon DEF ElectionInv

\* RemovalKeeps: taking replicas out of the map, and the leader with the last of
\* them, keeps the types (RemoveReplicaNoLock).
LEMMA RemovalKeeps ==
  ASSUME ElectionInv, NEW r \in Replicas, NEW last \in BOOLEAN, Unregister({r}, last),
         UNCHANGED rev
  PROVE  /\ regRev' \in [Replicas -> Int]
         /\ maxRev' \in Replicas \cup {None}
         /\ startSignalled' \in BOOLEAN
         /\ startSignalled' => maxRev' # None
         /\ MapIsDisk'
  <1>1. regRev' \in [Replicas -> Int] /\ MapIsDisk'
    BY DEF ElectionInv, TypeOK, RegTypeOK, MapIsDisk, Unregister
  <1>2. CASE last
    BY <1>1, <1>2, Zenon DEF ElectionInv, TypeOK, RegTypeOK, Unregister
  <1>3. CASE ~last
    BY <1>1, <1>3, Zenon DEF ElectionInv, TypeOK, RegTypeOK, Unregister
  <1>4. QED
    BY <1>2, <1>3, Zenon

\* StartFailsStep: a Start that fails gives its leader up (Controller.Start,
\* rmReplicaFromRegisteredReplicas).
LEMMA StartFailsStep ==
  ASSUME ElectionInv, NEW r \in Replicas, StartFails(r)
  PROVE  ElectionInv' /\ (Chosen /\ ~dropped' => Latest)
  <1>1. TypeOK /\ maxRev = r /\ maxRev # None /\ Attached = {}
    BY BootstrapAssumption, Zenon DEF ElectionInv, StartFails
  <1>2. Attached' = {}
    BY <1>1, MoveAttached, Zenon DEF StartFails, Exit, Phases
  <1>3. AttachedHaveLeader'
    BY <1>2, Zenon DEF AttachedHaveLeader
  <1>4. /\ faults' \in 0..MaxFaults
        /\ phase' \in [Replicas -> Phases]
        /\ inbox' \in [Replicas -> {"start", "add", None}]
        /\ dropped' \in BOOLEAN
    BY <1>1, FaultsType, ExitType, Zenon DEF StartFails, Drop, TypeOK
  <1>5. CASE RmReplicaFromRegisteredReplicas
    <2>1. TypeOK' /\ MapIsDisk'
      BY <1>1, <1>4, <1>5, Zenon
      DEF StartFails, RmReplicaFromRegisteredReplicas, ElectionInv, TypeOK, RegTypeOK, MapIsDisk
    <2>2. QED
      BY <1>1, <1>2, <1>3, <1>5, <2>1, GivenUp, Zenon
      DEF StartFails, RmReplicaFromRegisteredReplicas, ElectionInv
  <1>6. CASE Unregister({r}, FALSE)
    <2>1. TypeOK' /\ MapIsDisk'
      <3>1. /\ regRev' \in [Replicas -> Int]
            /\ maxRev' \in Replicas \cup {None}
            /\ startSignalled' \in BOOLEAN
            /\ startSignalled' => maxRev' # None
            /\ MapIsDisk'
        BY <1>6, RemovalKeeps, Zenon DEF StartFails
      <3>2. QED
        BY <1>1, <1>4, <3>1, Zenon DEF StartFails, TypeOK, RegTypeOK
    <2>2. maxRev' = r /\ regRev'[r] = -1 /\ startSignalled' = startSignalled
      BY <1>1, <1>6, Zenon DEF Unregister, TypeOK, RegTypeOK
    <2>3. ~Chosen
      BY <1>1, <2>2, Zenon DEF Chosen
    <2>4. ~dropped' => Registered(regRev') = {}
      BY <1>1, <2>2, Zenon DEF StartFails, Drop
    <2>5. ~dropped' => LeaderIsEntered' /\ LeaderIsAhead'
      BY <1>1, <2>2, <2>4, Zenon DEF LeaderIsEntered, LeaderIsAhead
    <2>6. QED
      BY <1>3, <2>1, <2>3, <2>5, Zenon DEF ElectionInv
  <1>7. QED
    BY <1>5, <1>6, Zenon DEF StartFails

\* LeaveStep: the last replica to leave takes the leader with it, and a leader
\* that leaves others behind counts as given up (RemoveReplicaNoLock).
LEMMA LeaveStep ==
  ASSUME ElectionInv, NEW r \in Replicas, Leave(r)
  PROVE  ElectionInv' /\ (Chosen /\ ~dropped' => Latest)
  <1>1. TypeOK /\ r \in Attached /\ maxRev # None /\ Attached' = Attached \ {r}
    BY Zenon DEF ElectionInv, TypeOK, AttachedHaveLeader, Leave, Attached, Exit, Move, Phases
  <1>2. /\ faults' \in 0..MaxFaults
        /\ phase' \in [Replicas -> Phases]
        /\ inbox' \in [Replicas -> {"start", "add", None}]
        /\ dropped' \in BOOLEAN
    BY <1>1, FaultsType, ExitType, Zenon DEF Leave, Drop, TypeOK
  <1>3. /\ regRev' \in [Replicas -> Int]
        /\ maxRev' \in Replicas \cup {None}
        /\ startSignalled' \in BOOLEAN
        /\ startSignalled' => maxRev' # None
        /\ MapIsDisk'
    BY RemovalKeeps, Zenon DEF Leave
  <1>4. TypeOK'
    BY <1>1, <1>2, <1>3, Zenon DEF Leave, TypeOK, RegTypeOK
  <1>5. CASE Attached = {r}
    <2>1. maxRev' = None /\ startSignalled' = FALSE /\ Attached' = {}
      BY <1>1, <1>5, Zenon DEF Leave, Unregister
    <2>2. QED
      BY <1>1, <1>3, <1>4, <2>1, GivenUp, Zenon DEF Leave, ElectionInv, AttachedHaveLeader
  <1>6. CASE Attached # {r}
    <2>1. maxRev' = maxRev /\ startSignalled' = startSignalled /\ Attached' # {}
      BY <1>1, <1>6, Zenon DEF Leave, Unregister, TypeOK, RegTypeOK
    <2>2. ~Chosen /\ AttachedHaveLeader' /\ LeaderIsAhead'
      BY <1>1, <2>1, Zenon DEF Chosen, AttachedHaveLeader, LeaderIsAhead
    <2>3. ~dropped' => LeaderIsEntered'
      BY <1>1, <2>1, Zenon DEF Leave, Drop, LeaderIsEntered
    <2>4. QED
      BY <1>3, <1>4, <2>2, <2>3, Zenon DEF ElectionInv
  <1>7. QED
    BY <1>5, <1>6, Zenon

\* ElectionInit: no replica is registered at first.
LEMMA ElectionInit == Init => ElectionInv
  <1> SUFFICES ASSUME Init PROVE ElectionInv
    BY Zenon
  <1>1. TypeOK
    <2>1. RegTypeOK
      <3>1. regRev \in [Replicas -> Int]
        BY DEF Init, RegInit
      <3>2. inbox \in [Replicas -> {"start", "add", None}]
        BY Zenon DEF Init, RegInit
      <3>3. QED
        BY <3>1, <3>2, Zenon DEF Init, RegInit, RegTypeOK
    <2>2. phase \in [Replicas -> Phases] /\ faults \in 0..MaxFaults
      BY BootstrapAssumption DEF Init, Phases
    <2>3. QED
      BY <2>1, <2>2, Zenon DEF Init, TypeOK
  <1>2. MapIsDisk /\ Registered(regRev) = {} /\ maxRev = None /\ Attached = {}
    BY Zenon DEF Init, RegInit, MapIsDisk, Registered, Attached
  <1>3. QED
    BY <1>1, <1>2, Zenon DEF ElectionInv, AttachedHaveLeader, LeaderIsEntered, LeaderIsAhead

\* ElectionStep: every step keeps the invariant, and chooses only the latest.
LEMMA ElectionStep ==
  ASSUME ElectionInv, [Next]_vars
  PROVE  ElectionInv' /\ [Chosen /\ ~dropped' => Latest]_vars
  <1>1. CASE UNCHANGED vars
    <2>1. TypeOK' /\ Attached' = Attached
      BY <1>1, Zenon DEF vars, regVars, ElectionInv, TypeOK, RegTypeOK, Attached
    <2>2. QED
      BY <1>1, <2>1, QuietElection, Zenon DEF vars, regVars
  <1>2. ASSUME NEW r \in Replicas, Step(r) \/ StartFails(r) \/ Leave(r) \/ Crash(r)
        PROVE  ElectionInv' /\ (Chosen /\ ~dropped' => Latest)
    BY <1>2, LoopStep, JoinStep, StartStep, RegisterStep, StartFailsStep, LeaveStep, Zenon DEF Step
  <1>3. QED
    BY <1>1, <1>2, Zenon DEF Next

\* ElectionInvariant: the invariant holds in every reachable state.
LEMMA ElectionInvariant == Spec => []ElectionInv
  <1>1. ElectionInv /\ [Next]_vars => ElectionInv'
    BY ElectionStep, Zenon
  <1>2. QED
    BY <1>1, ElectionInit, PTL DEF Spec

-----------------------------------------------------------------------------
(* The results                                                             *)

\* ElectionTypeCorrect: the state of the registration and of the replicas' loops
\* keeps its types; with them, a controller that has signalled a replica to
\* start knows which one (registerReplica, rmReplicaFromRegisteredReplicas).
THEOREM ElectionTypeCorrect == Spec => []TypeOK
  <1>1. ElectionInv => TypeOK
    BY Zenon DEF ElectionInv
  <1>2. QED
    BY <1>1, ElectionInvariant, PTL

\* LatestIsElected: for every number of replicas, replication factor, order of
\* registrations and number of faults, the replica that is told to start has
\* the highest revision count of the registered ones, as long as no leader was
\* given up while others were registered (registerReplica, signalReplica).
THEOREM LatestIsElected == Spec => LeaderIsLatestAtFirst
  <1>1. ElectionInv /\ [Next]_vars => [Chosen /\ ~dropped' => Latest]_vars
    BY ElectionStep, Zenon
  <1>2. QED
    BY <1>1, ElectionInvariant, PTL DEF Spec, LeaderIsLatestAtFirst
=============================================================================

---------------------------- MODULE Registration ----------------------------
(***************************************************************************)
(* How the controller chooses the replica that starts the volume: the      *)
(* registration handler and the parts of Start, RemoveReplicaNoLock and    *)
(* rmReplicaFromRegisteredReplicas that touch its state.  The handlers are  *)
(* operators over the state of the replicas, which the modules that use    *)
(* them provide.                                                           *)
(*                                                                         *)
(* A replica has one address and one UUID, so the clean-up of a UUID that  *)
(* shows up at a second address is left out, as are quorum replicas.  So   *)
(* is the refusal of a replica that reports the state "rebuilding":        *)
(* checkAndResetFailedRebuild clears that flag before the first            *)
(* registration.                                                           *)
(***************************************************************************)
EXTENDS Integers, FiniteSets

CONSTANTS
  Replicas,    \* replica addresses
  RF,          \* REPLICATION_FACTOR
  None         \* MaxRevReplica = ""; an empty channel

VARIABLES
  regRev,          \* RegisteredReplicas: RevCount by address, -1 when absent
  maxRev,          \* MaxRevReplica
  startSignalled,  \* StartSignalled
  inbox            \* the first action in the ActionChannel of each replica

regVars == <<regRev, maxRev, startSignalled, inbox>>

RegTypeOK ==
  /\ regRev \in [Replicas -> Int]
  /\ maxRev \in Replicas \cup {None}
  /\ startSignalled \in BOOLEAN
  /\ startSignalled => maxRev # None
  /\ inbox \in [Replicas -> {"start", "add", None}]

RegInit ==
  /\ regRev = [r \in Replicas |-> -1]
  /\ maxRev = None
  /\ startSignalled = FALSE
  /\ inbox = [r \in Replicas |-> None]

Registered(reg) == {r \in Replicas : reg[r] # -1}

\* The RevCount a lookup of the map returns; a missing entry reads as 0.
RevCount(reg, r) == IF reg[r] = -1 THEN 0 ELSE reg[r]

\* What becomes of a signal: it is delivered, it is lost (or finds the channel
\* full), or it is delivered although the caller timed out.
Outcomes == {"sent", "lost", "late"}

\* A process reads its channel at most once, so only the first action counts.
Delivered(box, m, out, action) ==
  [box EXCEPT ![m] = IF out # "lost" /\ @ = None THEN action ELSE @]

\* signalReplica: a leader that does not answer is deleted from the map.
SignalReplica(reg, m, box, out) ==
  /\ inbox' = Delivered(box, m, out, "start")
  /\ IF out = "sent"
     THEN /\ regRev' = reg
          /\ maxRev' = m
          /\ startSignalled' = TRUE
     ELSE /\ regRev' = [reg EXCEPT ![m] = -1]
          /\ maxRev' = None
          /\ startSignalled' = FALSE

\* mutant of Leader: the first to register stays the leader
LeaderStays(reg, m, r) == IF m = None THEN r ELSE m

\* The leader after r has registered: the one known so far, or r when that one
\* is behind any registered replica.
Leader(reg, m, r) ==
  LET known == IF m = None THEN r ELSE m
  IN  IF \E q \in Registered(reg) : RevCount(reg, known) < RevCount(reg, q)
      THEN r ELSE known

\* The end of registerReplica: choose a leader, and signal it once a majority
\* of the replicas has registered.
ChooseLeader(r, reg, m, sig, box, out) ==
  IF Cardinality(Registered(reg)) >= RF \div 2 + 1
  THEN SignalReplica(reg, Leader(reg, m, r), box, out)
  ELSE /\ regRev' = reg
       /\ maxRev' = Leader(reg, m, r)
       /\ startSignalled' = sig
       /\ inbox' = box

\* mutant of SignalAgain: the leader that registers again is only entered
SignalAgainNever(r, reg, first, out) ==
  /\ regRev' = reg
  /\ UNCHANGED <<maxRev, startSignalled, inbox>>

\* registerReplica for the leader that was signalled before.
SignalAgain(r, reg, first, out) ==
  IF first = "sent"
  THEN ChooseLeader(r, reg, r, TRUE, Delivered(inbox, r, first, "start"), out)
  ELSE SignalReplica(reg, r, inbox, first)

\* registerReplica for r with revision count rc.  attached: the controller has
\* replicas; alive: the outcome of VerifyReplicaAlive; first, out: the outcomes
\* of the signals.  The signalled leader is signalled again, and once more at
\* the end.
RegisterReplica(r, rc, attached, alive, first, out) ==
  LET reg == [regRev EXCEPT ![r] = rc]
  IN  \/ /\ attached \/ (startSignalled /\ r # maxRev /\ alive)
         /\ regRev' = reg
         /\ UNCHANGED <<maxRev, startSignalled, inbox>>
      \/ /\ ~attached /\ ~startSignalled
         /\ ChooseLeader(r, reg, maxRev, FALSE, inbox, out)
      \/ /\ ~attached /\ startSignalled /\ r = maxRev
         /\ SignalAgain(r, reg, first, out)
      \/ /\ ~attached /\ startSignalled /\ r # maxRev /\ ~alive
         /\ ChooseLeader(r, [q \in Replicas |-> IF q = maxRev THEN -1 ELSE reg[q]],
                         None, FALSE, inbox, out)

\* Start has attached r and its channel has been read: the other registered
\* replicas are told to add themselves; reached are the ones the signal gets to.
SignalOthers(r, reached) ==
  /\ inbox' = [q \in Replicas |->
                 CASE q = r -> None
                   [] q # r /\ q \in reached /\ regRev[q] # -1 /\ inbox[q] = None -> "add"
                   [] OTHER -> inbox[q]]
  /\ UNCHANGED <<regRev, maxRev, startSignalled>>

\* mutant of RmReplicaFromRegisteredReplicas: StartSignalled is not reset
RmReplicaStillSignalled ==
  /\ maxRev' = None
  /\ UNCHANGED <<regRev, startSignalled>>

\* rmReplicaFromRegisteredReplicas: the map is keyed by host and the address is
\* a URL, so no entry is deleted.
RmReplicaFromRegisteredReplicas ==
  /\ startSignalled' = FALSE
  /\ maxRev' = None
  /\ UNCHANGED regRev

\* RemoveReplicaNoLock for the replicas of F; last: the frontend goes down with
\* them.
Unregister(F, last) ==
  /\ regRev' = [r \in Replicas |-> IF r \in F THEN -1 ELSE regRev[r]]
  /\ startSignalled' = (startSignalled /\ ~last)
  /\ maxRev' = IF last THEN None ELSE maxRev
=============================================================================

------------------------------ MODULE Bootstrap ------------------------------
(***************************************************************************)
(* The start of a volume: replicas that register in a loop, the election   *)
(* of Registration, and the Start request of the elected replica.  What a  *)
(* replica does once it is attached is module Replication; here it is      *)
(* attached or it leaves.                                                  *)
(***************************************************************************)
EXTENDS Registration

CONSTANTS
  MaxRevision,  \* bound: revision counters on disk are 1..MaxRevision
  MaxFaults     \* bound: crashes and failed calls

ASSUME BootstrapAssumption ==
  /\ IsFiniteSet(Replicas)
  /\ RF \in Nat \ {0}
  /\ None \notin Replicas
  /\ MaxRevision \in Nat
  /\ MaxFaults \in Nat

VARIABLES
  rev,     \* the revision counter on the disk of each replica
  phase,   \* where sync.Task.AddReplica is
  dropped, \* history: a leader was given up while others were registered
  faults

vars == <<regVars, rev, phase, dropped, faults>>

\* get: asks for the volume; register: found no replica attached; wait: in the
\* select, for an action or the ticker; start, join: acts on what it was told;
\* stranded: AddReplica returned success and the replica is not attached.
Phases == {"get", "register", "wait", "start", "join", "attached", "stranded"}

TypeOK ==
  /\ RegTypeOK
  /\ rev \in [Replicas -> 1..MaxRevision]
  /\ phase \in [Replicas -> Phases]
  /\ dropped \in BOOLEAN
  /\ faults \in 0..MaxFaults

Attached == {r \in Replicas : phase[r] = "attached"}

Move(r, p) == phase' = [phase EXCEPT ![r] = p]

Disturb(b) ==
  /\ faults' = IF b THEN faults + 1 ELSE faults
  /\ faults' <= MaxFaults

Drop ==
  dropped' = \/ dropped
             \/ /\ maxRev # None
                /\ maxRev' = None \/ regRev'[maxRev] = -1
                /\ Registered(regRev') # {}

\* The process of r ends and a new one starts over with an empty channel.
Exit(r) == Move(r, "get") /\ inbox' = [inbox EXCEPT ![r] = None]

\* mutant of GetVolume: the answer is not looked at
GetVolumeIgnored(r) ==
  /\ phase[r] = "get"
  /\ Move(r, "register")
  /\ UNCHANGED <<regVars, rev, faults, dropped>>

\* AddReplica asks whether replicas are attached.
GetVolume(r) ==
  /\ phase[r] = "get"
  /\ Move(r, IF Attached = {} THEN "register" ELSE "join")
  /\ UNCHANGED <<regVars, rev, faults, dropped>>

Register(r) ==
  /\ phase[r] = "register"
  /\ Move(r, "wait")
  /\ \E alive \in BOOLEAN : \E first, out \in Outcomes :
       /\ first = "sent" \/ r = maxRev
       /\ RegisterReplica(r, rev[r], Attached # {}, alive, first, out)
       /\ Disturb(~alive \/ first # "sent" \/ out # "sent")
  /\ Drop
  /\ UNCHANGED rev

\* The ticker fires and the loop starts over.  That select picks it although an
\* action is waiting is rare enough to count against the bound.
Retry(r) ==
  /\ phase[r] = "wait"
  /\ Move(r, "get")
  /\ Disturb(inbox[r] # None)
  /\ UNCHANGED <<regVars, rev, dropped>>

\* An action arrives.
Receive(r) ==
  /\ phase[r] = "wait"
  /\ inbox[r] # None
  /\ Move(r, IF inbox[r] = "start" THEN "start" ELSE "join")
  /\ inbox' = [inbox EXCEPT ![r] = None]
  /\ UNCHANGED <<regRev, maxRev, startSignalled, rev, faults, dropped>>

\* The controller serves r's Start request.  With replicas attached it answers
\* success and does nothing; to any but the leader it answers an error.
Start(r) ==
  /\ phase[r] = "start"
  /\ \/ /\ Attached # {}
        /\ Move(r, "stranded")
        /\ UNCHANGED <<regVars, faults>>
     \/ /\ Attached = {} /\ maxRev # r
        /\ Exit(r)
        /\ UNCHANGED <<regRev, maxRev, startSignalled, faults>>
     \/ /\ Attached = {} /\ maxRev = r
        /\ Move(r, "attached")
        /\ \E reached \in {Replicas} \cup {Replicas \ {q} : q \in Replicas \ {r}} :
             SignalOthers(r, reached) /\ Disturb(reached # Replicas)
  /\ UNCHANGED <<rev, dropped>>

\* Start fails: before r was listed, or after.
StartFails(r) ==
  /\ phase[r] = "start"
  /\ Attached = {} /\ maxRev = r
  /\ Disturb(TRUE)
  /\ RmReplicaFromRegisteredReplicas \/ Unregister({r}, FALSE)
  /\ Exit(r)
  /\ Drop
  /\ UNCHANGED rev

\* The rebuild succeeds, or finds that nobody is attached any more.  (The list that
\* then holds the joiner alone for a moment, as WO, is a matter of Replication.)
Join(r) ==
  /\ phase[r] = "join"
  /\ \/ Attached # {} /\ Move(r, "attached") /\ UNCHANGED inbox
     \/ Attached = {} /\ Exit(r)
  /\ UNCHANGED <<regRev, maxRev, startSignalled, rev, faults, dropped>>

\* An attached replica fails and is removed.
Leave(r) ==
  /\ phase[r] = "attached"
  /\ Disturb(TRUE)
  /\ Unregister({r}, Attached = {r})
  /\ Exit(r)
  /\ Drop
  /\ UNCHANGED rev

\* A replica that is not attached crashes.
Crash(r) ==
  /\ phase[r] # "attached"
  /\ Disturb(TRUE)
  /\ Exit(r)
  /\ UNCHANGED <<regRev, maxRev, startSignalled, rev, dropped>>

Init ==
  /\ RegInit
  /\ rev \in [Replicas -> 1..MaxRevision]
  /\ phase = [r \in Replicas |-> "get"]
  /\ dropped = FALSE
  /\ faults = 0

Step(r) ==
  \/ GetVolume(r) \/ Register(r) \/ Retry(r) \/ Receive(r) \/ Start(r) \/ Join(r)

Next == \E r \in Replicas : Step(r) \/ StartFails(r) \/ Leave(r) \/ Crash(r)

Spec == Init /\ [][Next]_vars

\* A replica's loop never stops: the ticker fires every five seconds, an action
\* that waits is received, and every request is answered.
FairSpec ==
  /\ Spec
  /\ \A r \in Replicas :
       /\ WF_vars(GetVolume(r)) /\ WF_vars(Register(r)) /\ WF_vars(Retry(r))
       /\ WF_vars(Receive(r)) /\ WF_vars(Start(r)) /\ WF_vars(Join(r))

-----------------------------------------------------------------------------
\* The signal to start goes to a replica for the first time.
Chosen == startSignalled' /\ (~startSignalled \/ maxRev' # maxRev)

Latest == \A q \in Registered(regRev') : RevCount(regRev', q) <= RevCount(regRev', maxRev')

\* LeaderIsLatestAtFirst: the replica that registerReplica chooses has the highest
\* revision count of all the registered ones, as long as no leader was given up
\* while others were registered, whatever the order of registrations, retries
\* and restarts.
LeaderIsLatestAtFirst == [][Chosen /\ ~dropped' => Latest]_vars

\* VolumeStarts: whatever happens to the signals and the processes, a replica is
\* attached again and again (the loop of sync.Task.AddReplica, registerReplica).
VolumeStarts == []<>(Attached # {})

\* EveryReplicaSettles: in the end every replica is attached, or its AddReplica
\* returned success (sync.Task.AddReplica).
EveryReplicaSettles ==
  \A r \in Replicas : <>[](phase[r] \in {"attached", "stranded"})
=============================================================================

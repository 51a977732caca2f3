------------------------------- MODULE Volume -------------------------------
(***************************************************************************)
(* The data path of module Replication together with the election of       *)
(* module Registration: only the replica that the controller chose starts  *)
(* the volume, on the revision counts that the replicas registered with,   *)
(* and removing a replica also touches its registration.                   *)
(***************************************************************************)
EXTENDS Replication

CONSTANT None  \* no leader, no action

ASSUME VolumeAssumption == None \notin Replicas

VARIABLES
  regRev, maxRev, startSignalled, inbox,
  carried  \* history: the election may have to do with what is left of another
           \* one, or of a volume that was shut down

Reg == INSTANCE Registration

regVars == <<regRev, maxRev, startSignalled, inbox>>
volVars == <<vars, regVars, carried>>

\* The replicas that a step removes from the list lose their registration.
Removal ==
  /\ Reg!Unregister(Listed(mode) \ Listed(mode'), frontend /\ ~frontend')
  /\ UNCHANGED inbox

\* A process that ends takes its channel with it.
Ended(r) ==
  /\ inbox' = [inbox EXCEPT ![r] = None]
  /\ UNCHANGED <<regRev, maxRev, startSignalled>>

\* An unattached replica registers with the counter on its disk.
Register(r) ==
  /\ task[r] = "idle" /\ ~opened[r]
  /\ \E alive \in BOOLEAN : \E first, out \in Reg!Outcomes :
       /\ first = "sent" \/ r = maxRev
       /\ Disturb(~alive \/ first # "sent" \/ out # "sent")
       /\ Reg!RegisterReplica(r, rev[r], Listed(mode) # {}, alive, first, out)
  /\ UNCHANGED <<ctrlVars, diskVars, procVars, acked, uncounted, lastWrite, lastSnap>>

\* The Start request of a replica that was told to start
LeaderStarts(r) ==
  /\ inbox[r] = "start"
  /\ maxRev = r
  /\ \/ Start(r) /\ Reg!SignalOthers(r, Replicas)
     \/ /\ StartFails(r)
        /\ IF pending' = pending
           THEN Reg!RmReplicaFromRegisteredReplicas
           ELSE Reg!Unregister({r}, FALSE)
        /\ UNCHANGED inbox

OtherStarts(r) ==
  /\ inbox[r] = "start"
  /\ \/ StartIgnored(r) /\ UNCHANGED regVars
     \/ /\ task[r] = "idle" /\ ~opened[r]
        /\ Listed(mode) = {} /\ maxRev # r
        /\ Ended(r)
        /\ UNCHANGED vars

VolInit == Init /\ Reg!RegInit /\ carried = FALSE

\* A removal or a failed start can leave replicas registered without a leader, and
\* so can a registration while a replica that cannot serve is attached; a leader
\* that does not answer is given up.  The next one to register is then chosen,
\* whoever else is registered.
Leaderless ==
  /\ Reg!Registered(regRev') # {}
  /\ \/ maxRev' = None \/ regRev'[maxRev'] = -1
     \/ maxRev # None /\ regRev'[maxRev] = -1

\* What a step of the volume does to the registrations
VolStep ==
  \/ (WriteAt \/ ReadAt \/ Sync \/ Snapshot) /\ Removal
  \/ \E r \in Replicas :
       \/ Register(r) \/ LeaderStarts(r) \/ OtherStarts(r)
       \/ (Add(r) \/ Rebuild(r) \/ RemoveReplica(r) \/ Monitoring(r)) /\ Removal
       \/ (Crash(r) \/ Restart(r)) /\ Ended(r)

\* Shutdown leaves the registrations as they are.
ShutdownVolume == Shutdown /\ UNCHANGED regVars /\ carried' = TRUE

\* A new controller knows of nobody.
NewController ==
  /\ ControllerRestart
  /\ regRev' = [r \in Replicas |-> -1]
  /\ maxRev' = None
  /\ startSignalled' = FALSE
  /\ UNCHANGED inbox
  /\ carried' = FALSE

VolNext ==
  \/ VolStep /\ carried' = (carried \/ Leaderless)
  \/ ShutdownVolume \/ NewController

VolSpec == VolInit /\ [][VolNext]_volVars

-----------------------------------------------------------------------------
\* r starts the volume
Starts(r) == Listed(mode) = {} /\ mode'[r] = "RW"

\* LeaderHoldsAcked: the replica that starts the volume holds every write that
\* was acknowledged before (registerReplica, Start).
LeaderHoldsAcked ==
  [][\A r \in Replicas : Starts(r) => acked \subseteq Visible(r)]_volVars

\* FirstLeaderHoldsAcked: it does in the first election of a controller: a majority
\* acknowledged each write and a majority registers, in any order, again and again
\* and with signals that are lost (registerReplica, WriteAt).
FirstLeaderHoldsAcked ==
  [][\A r \in Replicas : Starts(r) /\ ~carried => acked \subseteq Visible(r)]_volVars
=============================================================================

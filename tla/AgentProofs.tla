---------------------------- MODULE AgentProofs ----------------------------
(***************************************************************************)
(* What is proved about the sync agents, for any number of replicas,       *)
(* files, ports, processes and crashes: the types, that a listener finds   *)
(* the port it was given free, that an agent refuses a listener only when  *)
(* its ports are all taken, and that a rebuilt replica is a copy of its    *)
(* source.                                                                 *)
(***************************************************************************)
EXTENDS Agent, WellFoundedInduction, TLAPS

\* the provers' time limits, in seconds
USE SMTT(20), ZenonT(20), SMTT(30)  \* the provers, in the order they are tried, and their time limits

-----------------------------------------------------------------------------
(* The inductive invariant: the processes and the ports                    *)

Ended(p) == p.state \in {"exited", "unstarted"}

\* What holds of a process in every table: a sender knows where to, a listener
\* has a port and a file, only a sender that runs is connected to a listener,
\* and ExitCode is -2 from CreateProcess's answer until the process exits.
WellFormed(p) ==
    /\ p.kind = "send" => p.host \in Replicas /\ p.file \in Files
    /\ p.kind = "listen" => p.port \in Ports /\ p.file \in Files
    /\ p.peer > 0 => p.kind = "send" /\ p.state = "running"
    /\ p.state \in {"created", "running", "unstarted"} => p.exit = -2

TableOf(r) ==
    /\ Len(processes[r]) <= MaxProcesses
    /\ ~up[r] => processes[r] = <<>>
    /\ \A i \in Ids(r) : WellFormed(processes[r][i])

TableInv == \A r \in Replicas : TableOf(r)

\* processesByPort and the listeners that hold a port name each other, and a
\* listener that gave its port back has ended.
PortsOf(r) ==
    /\ \A i \in Ids(r) : processes[r][i].held =>
         processes[r][i].kind = "listen" /\ byPort[r][processes[r][i].port] = i
    /\ \A i \in Ids(r) : processes[r][i].kind = "listen" /\ ~processes[r][i].held =>
         Ended(processes[r][i])
    /\ \A p \in Ports : byPort[r][p] # 0 =>
         /\ byPort[r][p] \in Ids(r)
         /\ processes[r][byPort[r][p]].held /\ processes[r][byPort[r][p]].port = p

PortInv == \A r \in Replicas : PortsOf(r)

Busy(r) == task[r].phase # "idle"

\* A rebuild is of a replica that runs, from another one, and the listener it waits
\* for is in its agent's table.
TaskOf(r) == Busy(r) =>
    /\ up[r]
    /\ task[r].file \in Files /\ task[r].from \in Replicas \ {r}
    /\ task[r].phase = "received" =>
         task[r].id \in Ids(r) /\ processes[r][task[r].id].kind = "listen"

TaskInv == \A r \in Replicas : TaskOf(r)

AgentInv == TypeOK /\ TableInv /\ PortInv /\ TaskInv

-----------------------------------------------------------------------------
(* Tables of processes                                                     *)

\* p becomes q: what it was asked for stays, and what has ended stays ended.
Progress(p, q) ==
    /\ q.kind = p.kind /\ q.file = p.file /\ q.host = p.host /\ q.port = p.port
    /\ q.held = p.held
    /\ Ended(p) => Ended(q)

\* OneMore: a step that appends a process leaves all the others as they are
\* (CreateProcess).
LEMMA OneMore ==
    ASSUME TypeOK, NEW r \in Replicas, NEW p \in Processes,
           processes' = [processes EXCEPT ![r] = Append(@, p)]
    PROVE  /\ processes' \in [Replicas -> Seq(Processes)]
           /\ Len(processes'[r]) = Len(processes[r]) + 1
           /\ Ids(r)' = Ids(r) \cup {Len(processes[r]) + 1}
           /\ Len(processes[r]) + 1 \notin Ids(r)
           /\ \A s \in Replicas \ {r} : processes'[s] = processes[s] /\ Ids(s)' = Ids(s)
           /\ processes'[r][Len(processes[r]) + 1] = p
           /\ \A s \in Replicas : \A k \in Ids(s) : processes'[s][k] = processes[s][k]
  BY DEF TypeOK, Ids

States == {"registered", "created", "running", "unstarted", "exited"}

\* q once it exited; once CreateProcess answered; once it moved on to state st;
\* once it is connected, or was served
Exited(q, code) == [q EXCEPT !.state = "exited", !.exit = code, !.peer = 0]
Answered(q) == [q EXCEPT !.state = "created", !.exit = -2]
InState(q, st) == [q EXCEPT !.state = st]
WithPeer(q, j) == [q EXCEPT !.peer = j]

\* ExitedIs: what an exit leaves of a process (Process.ExitCode).
LEMMA ExitedIs ==
    ASSUME NEW q \in Processes, NEW code \in {0, 1}
    PROVE  /\ Exited(q, code) \in Processes
           /\ Progress(q, Exited(q, code))
           /\ Exited(q, code).state = "exited" /\ Exited(q, code).exit = code
           /\ Exited(q, code).peer = 0
  <1> DEFINE type(st, c, j) == [q EXCEPT !.state = st, !.exit = c, !.peer = j]
  <1>1. ASSUME NEW st \in States, NEW c \in {-2, 0, 1}, NEW j \in -1 .. MaxProcesses
        PROVE  type(st, c, j) \in Processes
    BY Zenon DEF Processes, States
  <1>2. "exited" \in States /\ code \in {-2, 0, 1} /\ 0 \in -1 .. MaxProcesses
    BY AgentAssumption DEF States
  <1> HIDE DEF type
  <1>3. type("exited", code, 0) \in Processes
    BY <1>1, <1>2, Zenon
  <1>4. QED
    BY <1>3, Zenon DEF type, Exited, Processes, Progress, Ended

\* StateIs: what another state makes of a process (CreateProcess, launch).
LEMMA StateIs ==
    ASSUME NEW q \in Processes
    PROVE  /\ Answered(q) \in Processes
           /\ Progress(q, Answered(q)) \/ Ended(q)
           /\ Answered(q).state = "created" /\ Answered(q).exit = -2 /\ Answered(q).peer = q.peer
           /\ \A st \in States :
                /\ InState(q, st) \in Processes
                /\ Progress(q, InState(q, st)) \/ Ended(q)
                /\ InState(q, st).state = st /\ InState(q, st).exit = q.exit
                /\ InState(q, st).peer = q.peer
  BY Zenon DEF Answered, InState, Processes, States, Progress, Ended

\* PeerIs: what a connection makes of a process (ssync).
LEMMA PeerIs ==
    ASSUME NEW q \in Processes, NEW j \in -1 .. MaxProcesses
    PROVE  /\ WithPeer(q, j) \in Processes
           /\ Progress(q, WithPeer(q, j))
           /\ WithPeer(q, j).peer = j /\ WithPeer(q, j).state = q.state
           /\ WithPeer(q, j).exit = q.exit
  BY Zenon DEF WithPeer, Processes, Progress, Ended

\* ExitIs: Exit replaces one process (Process.ExitCode).
LEMMA ExitIs ==
    ASSUME TypeOK, NEW r \in Replicas, NEW i \in Ids(r), NEW code
    PROVE  Exit(r, i, code) = [processes EXCEPT ![r][i] = Exited(processes[r][i], code)]
  BY Zenon DEF Exit, Exited, TypeOK, Ids

\* ExitAt: the process that Exit replaces.
LEMMA ExitAt ==
    ASSUME TypeOK, NEW r \in Replicas, NEW i \in Ids(r), NEW code
    PROVE  Exit(r, i, code)[r][i] = Exited(processes[r][i], code)
  <1>1. Exit(r, i, code) = [processes EXCEPT ![r][i] = Exited(processes[r][i], code)]
    BY ExitIs
  <1>2. QED
    BY <1>1 DEF TypeOK, Ids

\* What process i of r does by itself
Moves(r, i) ==
    \/ Answer(r, i) \/ Launch(r, i) \/ LaunchFails(r, i)
    \/ \E code \in {0, 1} : CommandEnds(r, i, code)
    \/ SenderFails(r, i) \/ ListenerEnds(r, i)

\* q becomes p by itself: it goes on, or it exits, a sender never with code 0
MovesTo(q, p) ==
    /\ Progress(q, p) /\ ~Ended(q)
    /\ \/ /\ p.state \in {"created", "running", "unstarted"} /\ p.exit = -2 /\ p.peer = q.peer
          /\ q.state # "running"
       \/ p.state = "exited" /\ p.peer = 0 /\ (p.exit = 0 => q.kind # "send")

\* MoveIs: a process that moves on by itself stays well formed, changes nothing
\* else, and does not end as a listener that a sender is connected to
\* (CreateProcess, launch, ssync).
LEMMA MoveIs ==
    ASSUME AgentInv, NEW r \in Replicas, NEW i \in Ids(r), Moves(r, i)
    PROVE  /\ UNCHANGED <<up, crashes, role, content, byPort, currentPort, task, job>>
           /\ \E p \in Processes :
                /\ processes' = [processes EXCEPT ![r][i] = p]
                /\ MovesTo(processes[r][i], p) /\ WellFormed(p)
                /\ processes[r][i].kind = "listen" /\ Ended(p) =>
                     processes[r][i].state = "created" \/ Senders(r, i) = {}
  <1> DEFINE q == processes[r][i]
             Goal == \E p \in Processes :
                       /\ processes' = [processes EXCEPT ![r][i] = p]
                       /\ MovesTo(q, p) /\ WellFormed(p)
                       /\ q.kind = "listen" /\ Ended(p) =>
                            q.state = "created" \/ Senders(r, i) = {}
  <1>1. TypeOK /\ q \in Processes /\ WellFormed(q)
    BY DEF AgentInv, TypeOK, TableInv, TableOf, Ids
  <1>2. UNCHANGED <<up, crashes, role, content, byPort, currentPort, task, job>>
    BY Zenon DEF Moves, Answer, Launch, LaunchFails, CommandEnds, SenderFails, ListenerEnds, clients
  <1>3. ASSUME NEW code \in {0, 1}, processes' = Exit(r, i, code), q.state \in {"created", "running"},
               code = 0 => q.kind # "send",
               q.kind = "listen" => q.state = "created" \/ Senders(r, i) = {}
        PROVE  Goal
    <2>1. processes' = [processes EXCEPT ![r][i] = Exited(q, code)]
      BY <1>1, <1>3, ExitIs
    <2> HIDE DEF q
    <2>2. /\ Exited(q, code) \in Processes /\ Progress(q, Exited(q, code))
          /\ Exited(q, code).state = "exited" /\ Exited(q, code).exit = code
          /\ Exited(q, code).peer = 0
      BY <1>1, ExitedIs, Zenon
    <2>3. MovesTo(q, Exited(q, code)) /\ WellFormed(Exited(q, code))
      BY <1>1, <1>3, <2>2 DEF MovesTo, WellFormed, Progress, Ended
    <2>4. QED
      BY <1>3, <2>1, <2>2, <2>3, Zenon
  <1>4. ASSUME NEW p \in Processes, processes' = [processes EXCEPT ![r][i] = p],
               q.state \in {"registered", "created"},
               p.state \in {"created", "running", "unstarted"},
               p.state = "unstarted" => q.state = "created",
               p.exit = -2, p.peer = q.peer, Progress(q, p) \/ Ended(q)
        PROVE  Goal
    <2> HIDE DEF q
    <2>1. MovesTo(q, p) /\ WellFormed(p)
      BY <1>1, <1>4, Zenon DEF MovesTo, WellFormed, Progress, Ended
    <2>2. Ended(p) => q.state = "created"
      BY <1>4, Zenon DEF Ended
    <2>3. QED
      BY <1>4, <2>1, <2>2, Zenon
  <1> HIDE DEF Goal
  <1>5. CASE Answer(r, i)
    <2> DEFINE p == Answered(q)
    <2>1. processes' = [processes EXCEPT ![r][i] = p]
      BY <1>1, <1>5, Zenon DEF Answer, Answered, TypeOK, Ids
    <2>2. q.state = "registered"
      BY <1>5, Zenon DEF Answer
    <2> HIDE DEF q
    <2>3. /\ p \in Processes
          /\ Progress(q, p) \/ Ended(q)
          /\ p.state = "created" /\ p.exit = -2 /\ p.peer = q.peer
      BY <1>1, <2>2, StateIs, Zenon DEF Ended
    <2> HIDE DEF p
    <2>4. Goal
      BY <1>4, <2>1, <2>2, <2>3, Zenon DEF Ended
    <2>5. QED
      BY <1>2, <2>4, Zenon DEF Goal, q
  <1>6. CASE LaunchFails(r, i)
    <2> DEFINE p == InState(q, "unstarted")
    <2>1. processes' = [processes EXCEPT ![r][i] = p]
      BY <1>1, <1>6, Zenon DEF LaunchFails, InState, TypeOK, Ids
    <2>2. q.state = "created" /\ q.exit = -2
      BY <1>1, <1>6, Zenon DEF LaunchFails, WellFormed
    <2> HIDE DEF q
    <2>3. /\ p \in Processes
          /\ Progress(q, p) \/ Ended(q)
          /\ p.state = "unstarted" /\ p.exit = -2 /\ p.peer = q.peer
      BY <1>1, <2>2, StateIs, Zenon DEF States
    <2> HIDE DEF p
    <2>4. Goal
      BY <1>4, <2>1, <2>2, <2>3, Zenon DEF Ended
    <2>5. QED
      BY <1>2, <2>4, Zenon DEF Goal, q
  <1>7. CASE Launch(r, i)
    <2>1. q.state = "created" /\ q.exit = -2
      BY <1>1, <1>7, Zenon DEF Launch, WellFormed
    <2>2. CASE processes' = Exit(r, i, 1)
      <3> HIDE DEF q
      <3>1. Goal
        BY <1>3, <2>1, <2>2
      <3>2. QED
        BY <1>2, <3>1, Zenon DEF Goal, q
    <2>3. CASE processes' = [processes EXCEPT ![r][i].state = "running"]
      <3> DEFINE p == InState(q, "running")
      <3>1. processes' = [processes EXCEPT ![r][i] = p]
        BY <1>1, <2>3, Zenon DEF InState, TypeOK, Ids
      <3> HIDE DEF q
      <3>2. /\ p \in Processes
            /\ Progress(q, p) \/ Ended(q)
            /\ p.state = "running" /\ p.exit = -2 /\ p.peer = q.peer
        BY <1>1, <2>1, StateIs, Zenon DEF States
      <3> HIDE DEF p
      <3>3. Goal
        BY <1>4, <2>1, <3>1, <3>2, Zenon DEF Ended
      <3>4. QED
        BY <1>2, <3>3, Zenon DEF Goal, q
    <2>4. QED
      BY <1>7, <2>2, <2>3, Zenon DEF Launch
  <1>8. ASSUME NEW code \in {0, 1}, CommandEnds(r, i, code)
        PROVE  Goal
    BY <1>3, <1>8, Zenon DEF CommandEnds
  <1>9. CASE SenderFails(r, i)
    BY <1>2, <1>3, <1>9 DEF SenderFails, Sending, Goal
  <1>10. CASE ListenerEnds(r, i)
    BY <1>2, <1>3, <1>10, Zenon DEF ListenerEnds, Goal
  <1>11. QED
    BY <1>2, <1>5, <1>6, <1>7, <1>8, <1>9, <1>10, Zenon DEF Moves, Goal
-----------------------------------------------------------------------------
(* The processes and the ports                                             *)

\* Every process of r goes on, or stays as it is
AllProgress(r) ==
    /\ Len(processes'[r]) = Len(processes[r])
    /\ \A k \in Ids(r) : /\ Progress(processes[r][k], processes'[r][k])
                         /\ WellFormed(processes'[r][k])

\* AgentKeeps: the agent of r, when its processes only go on, and nobody takes or
\* gives back a port (Server.processes, Server.processesByPort).
LEMMA AgentKeeps ==
    ASSUME NEW r \in Replicas, processes'[r] \in Seq(Processes),
           TableOf(r), PortsOf(r), TaskOf(r), AllProgress(r), up'[r] = up[r], byPort'[r] = byPort[r],
           task'[r] = task[r]
    PROVE  TableOf(r)' /\ PortsOf(r)' /\ TaskOf(r)'
  <1>1. Ids(r)' = Ids(r)
    BY Zenon DEF AllProgress, Ids
  <1>2. TableOf(r)'
    <2>1. ~up'[r] => processes'[r] = <<>>
      BY DEF TableOf, AllProgress
    <2>2. QED
      BY <1>1, <2>1, Zenon DEF TableOf, AllProgress
  <1>3. PortsOf(r)'
    BY <1>1 DEF PortsOf, AllProgress, Progress
  <1>4. TaskOf(r)'
    BY <1>1, Zenon DEF TaskOf, Busy, AllProgress, Progress
  <1>5. QED
    BY <1>2, <1>3, <1>4, Zenon

\* OneKeeps: the agents, when one process goes on.
LEMMA OneKeeps ==
    ASSUME AgentInv, NEW r \in Replicas, NEW i \in Ids(r), NEW p \in Processes,
           processes' = [processes EXCEPT ![r][i] = p],
           Progress(processes[r][i], p), WellFormed(p), UNCHANGED <<up, byPort, task>>
    PROVE  processes' \in [Replicas -> Seq(Processes)] /\ TableInv' /\ PortInv' /\ TaskInv'
  <1>1. TypeOK
    BY Zenon DEF AgentInv
  <1>2. /\ processes' \in [Replicas -> Seq(Processes)]
        /\ \A s \in Replicas : Len(processes'[s]) = Len(processes[s])
        /\ processes'[r][i] = p
        /\ \A s \in Replicas : \A k \in Ids(s) : s # r \/ k # i => processes'[s][k] = processes[s][k]
    BY <1>1 DEF TypeOK, Ids
  <1>3. \A s \in Replicas : AllProgress(s)
    BY <1>2 DEF AllProgress, Progress, AgentInv, TableInv, TableOf
  <1>4. \A s \in Replicas : TableOf(s)' /\ PortsOf(s)' /\ TaskOf(s)'
    BY <1>2, <1>3, AgentKeeps, Zenon DEF AgentInv, TableInv, PortInv, TaskInv
  <1>5. QED
    BY <1>2, <1>4, Zenon DEF TableInv, PortInv, TaskInv

\* MoveKeeps: a process that moves on by itself (CreateProcess, launch, ssync).
LEMMA MoveKeeps ==
    ASSUME AgentInv, NEW r \in Replicas, NEW i \in Ids(r), Moves(r, i)
    PROVE  AgentInv'
  <1>1. PICK p \in Processes : /\ processes' = [processes EXCEPT ![r][i] = p]
                               /\ MovesTo(processes[r][i], p) /\ WellFormed(p)
    BY MoveIs, Zenon
  <1>2. UNCHANGED <<up, crashes, role, content, byPort, currentPort, task, job>>
    BY MoveIs, Zenon
  <1>3. processes' \in [Replicas -> Seq(Processes)] /\ TableInv' /\ PortInv' /\ TaskInv'
    BY <1>1, <1>2, OneKeeps, Zenon DEF MovesTo
  <1>4. QED
    BY <1>2, <1>3, Zenon DEF AgentInv, TypeOK

\* ConnectIs: a sender that connects is the only process that changes (ssync).
LEMMA ConnectIs ==
    ASSUME AgentInv, NEW s \in Replicas, NEW i \in Ids(s), processes[s][i].kind = "send",
           NEW j \in Ids(processes[s][i].host), Connect(s, i, j)
    PROVE  LET q == processes[s][i]
           IN  /\ q.host \in Replicas
               /\ processes' = [processes EXCEPT ![s][i] = WithPeer(q, j)]
               /\ WithPeer(q, j) \in Processes
               /\ Progress(q, WithPeer(q, j)) /\ WellFormed(WithPeer(q, j))
               /\ processes[q.host][j].file \in Files
               /\ content' = [content EXCEPT ![q.host][processes[q.host][j].file] = 0]
  <1> DEFINE q == processes[s][i]
  <1>1. TypeOK /\ q \in Processes /\ WellFormed(q)
    BY DEF AgentInv, TypeOK, TableInv, TableOf, Ids
  <1>2. q.host \in Replicas
    BY <1>1, Zenon DEF WellFormed
  <1>3. j \in -1 .. MaxProcesses /\ j > 0
    BY <1>1, <1>2, AgentAssumption DEF AgentInv, TypeOK, TableInv, TableOf, Ids
  <1>4. processes' = [processes EXCEPT ![s][i] = WithPeer(q, j)]
    BY <1>1, Zenon DEF Connect, WithPeer, TypeOK, Ids
  <1>5. WithPeer(q, j) \in Processes /\ Progress(q, WithPeer(q, j))
    BY <1>1, <1>3, PeerIs, Zenon
  <1>6. WellFormed(WithPeer(q, j))
    <2>1. q.state = "running"
      BY Zenon DEF Connect, Sending
    <2> HIDE DEF q
    <2>2. WithPeer(q, j).state = "running" /\ WithPeer(q, j).exit = q.exit
      BY <1>1, <1>3, <2>1, PeerIs, Zenon
    <2>3. QED
      BY <1>1, <1>5, <2>1, <2>2, Zenon DEF WellFormed, Progress, q
  <1>7. processes[q.host][j].file \in Files
    BY <1>2, Zenon DEF Connect, AgentInv, TableInv, TableOf, WellFormed
  <1>8. content' = [content EXCEPT ![q.host][processes[q.host][j].file] = 0]
    BY Zenon DEF Connect
  <1>9. QED
    BY <1>2, <1>4, <1>5, <1>6, <1>7, <1>8, Zenon

\* ConnectKeeps: a sender that connects to a listener (ssync).
LEMMA ConnectKeeps ==
    ASSUME AgentInv, NEW s \in Replicas, NEW i \in Ids(s), processes[s][i].kind = "send",
           NEW j \in Ids(processes[s][i].host), Connect(s, i, j)
    PROVE  AgentInv'
  <1> DEFINE q == processes[s][i]
             f == processes[q.host][j].file
  <1>1. /\ q.host \in Replicas
        /\ processes' = [processes EXCEPT ![s][i] = WithPeer(q, j)]
        /\ WithPeer(q, j) \in Processes
        /\ Progress(q, WithPeer(q, j)) /\ WellFormed(WithPeer(q, j))
        /\ f \in Files
        /\ content' = [content EXCEPT ![q.host][f] = 0]
    BY ConnectIs, Zenon
  <1>2. UNCHANGED <<up, crashes, role, byPort, currentPort, task, job>>
    BY Zenon DEF Connect, clients
  <1>3. processes' \in [Replicas -> Seq(Processes)] /\ TableInv' /\ PortInv' /\ TaskInv'
    BY <1>1, <1>2, OneKeeps, Zenon
  <1>4. content' \in [Replicas -> [Files -> 0 .. NumFiles]]
    <2>1. content \in [Replicas -> [Files -> 0 .. NumFiles]] /\ 0 \in 0 .. NumFiles
      BY AgentAssumption DEF AgentInv, TypeOK
    <2> HIDE DEF q, f
    <2>2. QED
      BY <1>1, <2>1, Zenon
  <1>5. QED
    BY <1>2, <1>3, <1>4, Zenon DEF AgentInv, TypeOK

\* TableIs: a table that is given process by process (Server.processes).
LEMMA TableIs ==
    ASSUME NEW n \in Nat, NEW t \in [1 .. n -> Processes]
    PROVE  t \in Seq(Processes) /\ Len(t) = n
  OBVIOUS

\* NoProcess: the table of an agent that has just started (NewServer).
LEMMA NoProcess == <<>> \in Seq(Processes) /\ Len(<<>>) = 0
  OBVIOUS

\* AllKeep: the agents, when every process goes on, or stays as it is.
LEMMA AllKeep ==
    ASSUME AgentInv, DOMAIN processes' = Replicas, processes' = [r \in Replicas |-> processes'[r]],
           \A r \in Replicas : processes'[r] \in [Ids(r) -> Processes],
           \A r \in Replicas : \A k \in Ids(r) : /\ Progress(processes[r][k], processes'[r][k])
                                                 /\ WellFormed(processes'[r][k]),
           UNCHANGED <<up, byPort, task>>
    PROVE  /\ processes' \in [Replicas -> Seq(Processes)] /\ TableInv' /\ PortInv' /\ TaskInv'
           /\ \A r \in Replicas : Ids(r)' = Ids(r)
  <1>1. \A r \in Replicas : Len(processes[r]) \in Nat
    BY DEF AgentInv, TypeOK
  <1>2. \A r \in Replicas : processes'[r] \in Seq(Processes) /\ Len(processes'[r]) = Len(processes[r])
    BY <1>1, TableIs, Zenon DEF Ids
  <1>3. \A r \in Replicas : AllProgress(r)
    BY <1>2, Zenon DEF AllProgress
  <1>4. \A r \in Replicas : TableOf(r)' /\ PortsOf(r)' /\ TaskOf(r)'
    BY <1>2, <1>3, AgentKeeps, Zenon DEF AgentInv, TableInv, PortInv, TaskInv
  <1>5. QED
    BY <1>2, <1>4, Zenon DEF TableInv, PortInv, TaskInv, Ids

\* What a transfer by process i of s makes of process k of r
Served(s, i, r, k) ==
    LET p == processes[s][i]
    IN  IF r = p.host /\ k = p.peer THEN WithPeer(processes[r][k], -1)
        ELSE IF r = s /\ k = i THEN Exited(processes[r][k], 0)
        ELSE IF <<r, k>> \in Senders(p.host, p.peer) THEN Exited(processes[r][k], 1)
        ELSE processes[r][k]

\* ServedIs: a process goes on under a transfer (ssync).
LEMMA ServedIs ==
    ASSUME AgentInv, NEW s \in Replicas, NEW i \in Ids(s), Sending(s, i),
           NEW r \in Replicas, NEW k \in Ids(r)
    PROVE  /\ Served(s, i, r, k) \in Processes
           /\ Progress(processes[r][k], Served(s, i, r, k)) /\ WellFormed(Served(s, i, r, k))
  <1> DEFINE q == processes[r][k]
  <1>1. q \in Processes /\ WellFormed(q)
    BY DEF AgentInv, TypeOK, TableInv, TableOf, Ids
  <1> HIDE DEF q
  <1>2. -1 \in -1 .. MaxProcesses
    BY AgentAssumption
  <1>3. /\ WithPeer(q, -1) \in Processes /\ Progress(q, WithPeer(q, -1))
        /\ WithPeer(q, -1).peer = -1 /\ WithPeer(q, -1).state = q.state
        /\ WithPeer(q, -1).exit = q.exit
    BY <1>1, <1>2, PeerIs, Zenon
  <1>4. WellFormed(WithPeer(q, -1))
    BY <1>1, <1>3 DEF WellFormed, Progress
  <1>5. ASSUME NEW code \in {0, 1}
        PROVE  /\ Exited(q, code) \in Processes /\ Progress(q, Exited(q, code))
               /\ WellFormed(Exited(q, code))
    <2>1. /\ Exited(q, code) \in Processes /\ Progress(q, Exited(q, code))
          /\ Exited(q, code).state = "exited" /\ Exited(q, code).peer = 0
      BY <1>1, ExitedIs, Zenon
    <2>2. QED
      BY <1>1, <2>1 DEF WellFormed, Progress
  <1>6. Progress(q, q)
    BY Zenon DEF Progress
  <1>7. QED
    BY <1>1, <1>3, <1>4, <1>5, <1>6, Zenon DEF Served, q

\* TransferIs: what a transfer makes of every process (ssync).
LEMMA TransferIs ==
    ASSUME AgentInv, NEW s \in Replicas, NEW i \in Ids(s), Transfer(s, i)
    PROVE  /\ processes' = [r \in Replicas |-> [k \in Ids(r) |-> Served(s, i, r, k)]]
           /\ UNCHANGED <<up, crashes, role, byPort, currentPort, task, job>>
  <1> DEFINE p == processes[s][i]
             others == Senders(p.host, p.peer) \ {<<s, i>>}
             new(r, k) == IF r = p.host /\ k = p.peer THEN [processes[r][k] EXCEPT !.peer = -1]
                          ELSE IF r = s /\ k = i THEN Exit(s, i, 0)[s][i]
                          ELSE IF <<r, k>> \in others THEN Exit(r, k, 1)[r][k]
                          ELSE processes[r][k]
  <1>1. processes' = [r \in Replicas |-> [k \in Ids(r) |-> new(r, k)]]
    BY Zenon DEF Transfer
  <1>2. ASSUME NEW r \in Replicas, NEW k \in Ids(r), NEW code \in {0, 1}
        PROVE  Exit(r, k, code)[r][k] = Exited(processes[r][k], code)
    BY ExitAt DEF AgentInv
  <1>3. ASSUME NEW r \in Replicas, NEW k \in Ids(r)
        PROVE  new(r, k) = Served(s, i, r, k)
    <2>1. <<r, k>> \in others <=> <<r, k>> \in Senders(p.host, p.peer) /\ ~(r = s /\ k = i)
      BY Zenon
    <2>2. /\ Exit(s, i, 0)[s][i] = Exited(processes[s][i], 0)
          /\ Exit(r, k, 1)[r][k] = Exited(processes[r][k], 1)
      BY <1>2, Zenon
    <2> HIDE DEF others
    <2>3. QED
      BY <2>1, <2>2, Zenon DEF Served, WithPeer
  <1> HIDE DEF new
  <1>4. processes' = [r \in Replicas |-> [k \in Ids(r) |-> Served(s, i, r, k)]]
    BY <1>1, <1>3, Zenon
  <1>5. QED
    BY <1>4, Zenon DEF Transfer, clients

\* TransferKeeps: a sender that is done (ssync).
LEMMA TransferKeeps ==
    ASSUME AgentInv, NEW s \in Replicas, NEW i \in Ids(s), Transfer(s, i)
    PROVE  AgentInv' /\ \A r \in Replicas : Ids(r)' = Ids(r)
  <1>1. /\ processes' = [r \in Replicas |-> [k \in Ids(r) |-> Served(s, i, r, k)]]
        /\ UNCHANGED <<up, crashes, role, byPort, currentPort, task, job>>
    BY TransferIs, Zenon
  <1>2. Sending(s, i)
    BY Zenon DEF Transfer
  <1>3. \A r \in Replicas : \A k \in Ids(r) :
          /\ Served(s, i, r, k) \in Processes
          /\ Progress(processes[r][k], Served(s, i, r, k)) /\ WellFormed(Served(s, i, r, k))
    BY <1>2, ServedIs, Zenon
  <1>4. /\ processes' \in [Replicas -> Seq(Processes)] /\ TableInv' /\ PortInv' /\ TaskInv'
        /\ \A r \in Replicas : Ids(r)' = Ids(r)
    BY <1>1, <1>3, AllKeep, Zenon
  <1>5. content' \in [Replicas -> [Files -> 0 .. NumFiles]]
    <2>1. content \in [Replicas -> [Files -> 0 .. NumFiles]] /\ 0 \in 0 .. NumFiles
      BY AgentAssumption DEF AgentInv, TypeOK
    <2>2. processes[s][i].file \in Files
      BY <1>2, Zenon DEF Sending, AgentInv, TableInv, TableOf, WellFormed
    <2> DEFINE p == processes[s][i]
               sent(x) == content[x[1]][processes[x[1]][x[2]].file]
               h == p.host
               f == processes[p.host][p.peer].file
               v == IF \A x \in Senders(p.host, p.peer) \ {<<s, i>>} : sent(x) = sent(<<s, i>>)
                    THEN sent(<<s, i>>) ELSE 0
    <2>3. content' = [content EXCEPT ![h][f] = v]
      BY Zenon DEF Transfer
    <2>4. v \in 0 .. NumFiles
      BY <2>1, <2>2, Zenon
    <2> HIDE DEF h, f, v
    <2>5. QED
      BY <2>1, <2>3, <2>4, Zenon
  <1>6. QED
    BY <1>1, <1>4, <1>5, Zenon DEF AgentInv, TypeOK

\* EndIs: what the end of replica r makes of every process (Process.ExitCode).
LEMMA EndIs ==
    ASSUME AgentInv, NEW r \in Replicas, End(r)
    PROVE  /\ DOMAIN processes' = Replicas /\ processes' = [s \in Replicas |-> processes'[s]]
           /\ processes'[r] = <<>>
           /\ \A s \in Replicas \ {r} :
                processes'[s] = [i \in Ids(s) |->
                  IF Sending(s, i) /\ processes[s][i].host = r /\ processes[s][i].peer # 0
                  THEN Exited(processes[s][i], 1) ELSE processes[s][i]]
  <1>1. ASSUME NEW s \in Replicas, NEW i \in Ids(s)
        PROVE  Exit(s, i, 1)[s][i] = Exited(processes[s][i], 1)
    BY ExitAt, Zenon DEF AgentInv
  <1>2. processes' = [s \in Replicas |->
         IF s = r THEN <<>>
         ELSE [i \in Ids(s) |-> IF Sending(s, i) /\ processes[s][i].host = r /\ processes[s][i].peer # 0
                                THEN Exit(s, i, 1)[s][i] ELSE processes[s][i]]]
    BY Zenon DEF End
  <1>3. QED
    BY <1>1, <1>2, Zenon

\* EndKeeps: the end of a replica, with its agent.
LEMMA EndKeeps ==
    ASSUME AgentInv, NEW r \in Replicas, End(r), crashes' \in 0 .. MaxCrashes
    PROVE  AgentInv' /\ \A s \in Replicas \ {r} : Ids(s)' = Ids(s)
  <1>1. /\ DOMAIN processes' = Replicas /\ processes' = [s \in Replicas |-> processes'[s]]
        /\ processes'[r] = <<>>
        /\ \A s \in Replicas \ {r} :
             processes'[s] = [i \in Ids(s) |->
               IF Sending(s, i) /\ processes[s][i].host = r /\ processes[s][i].peer # 0
               THEN Exited(processes[s][i], 1) ELSE processes[s][i]]
    BY EndIs, Zenon
  <1>2. \A s \in Replicas : 
          s # r => up'[s] = up[s] /\ byPort'[s] = byPort[s] /\ task'[s] = task[s]
    BY Zenon DEF End, AgentInv, TypeOK
  <1>3. ASSUME NEW s \in Replicas, NEW i \in Ids(s)
        PROVE  /\ processes[s][i] \in Processes /\ WellFormed(processes[s][i])
               /\ Progress(processes[s][i], processes[s][i])
               /\ Exited(processes[s][i], 1) \in Processes
               /\ Progress(processes[s][i], Exited(processes[s][i], 1))
               /\ WellFormed(Exited(processes[s][i], 1))
    <2> DEFINE q == processes[s][i]
    <2>1. q \in Processes /\ WellFormed(q)
      BY DEF AgentInv, TypeOK, TableInv, TableOf, Ids
    <2> HIDE DEF q
    <2>2. /\ Exited(q, 1) \in Processes /\ Progress(q, Exited(q, 1))
          /\ Exited(q, 1).state = "exited" /\ Exited(q, 1).peer = 0
      BY <2>1, ExitedIs, Zenon
    <2>3. WellFormed(Exited(q, 1)) /\ Progress(q, q)
      BY <2>1, <2>2 DEF WellFormed, Progress
    <2>4. QED
      BY <2>1, <2>2, <2>3, Zenon DEF q
  <1>4. ASSUME NEW s \in Replicas \ {r}
        PROVE  /\ processes'[s] \in Seq(Processes) /\ Len(processes'[s]) = Len(processes[s])
               /\ TableOf(s)' /\ PortsOf(s)' /\ TaskOf(s)'
    <2>1. processes'[s] \in [Ids(s) -> Processes]
      BY <1>1, <1>3
    <2>2. processes'[s] \in Seq(Processes) /\ Len(processes'[s]) = Len(processes[s])
      <3>1. Len(processes[s]) \in Nat
        BY DEF AgentInv, TypeOK
      <3>2. QED
        BY <2>1, <3>1, TableIs, Zenon DEF Ids
    <2>3. \A k \in Ids(s) : Progress(processes[s][k], processes'[s][k]) /\ WellFormed(processes'[s][k])
      BY <1>1, <1>3
    <2>4. AllProgress(s)
      BY <2>2, <2>3, Zenon DEF AllProgress
    <2>5. TableOf(s) /\ PortsOf(s) /\ TaskOf(s)
      BY Zenon DEF AgentInv, TableInv, PortInv, TaskInv
    <2>6. QED
      BY <1>2, <2>2, <2>4, <2>5, AgentKeeps, Zenon
  <1>5. processes'[r] \in Seq(Processes) /\ TableOf(r)' /\ PortsOf(r)' /\ TaskOf(r)'
    <2>1. Len(<<>>) = 0 /\ <<>> \in Seq(Processes)
      BY NoProcess, Zenon
    <2>2. byPort'[r] = [p \in Ports |-> 0]
      BY Zenon DEF End, AgentInv, TypeOK
    <2>3. task'[r].phase = "idle"
      BY Zenon DEF End, AgentInv, TypeOK, Idle
    <2>4. QED
      BY <1>1, <2>1, <2>2, <2>3, AgentAssumption DEF TableOf, PortsOf, TaskOf, Busy, Ids
  <1>6. TypeOK'
    <2>1. TypeOK
      BY Zenon DEF AgentInv
    <2>2. processes' \in [Replicas -> Seq(Processes)]
      BY <1>1, <1>4, <1>5, Zenon
    <2>3. Idle \in Tasks
      BY AgentAssumption DEF Idle, Tasks
    <2>4. task' \in [Replicas -> Tasks] /\ job' \in [Replicas -> 0 .. MaxProcesses]
      BY <2>1, <2>3, AgentAssumption DEF End, TypeOK
    <2>5. up' \in [Replicas -> BOOLEAN] /\ role' \in [Replicas -> {"RW", "new"}]
      BY <2>1, Zenon DEF End, TypeOK
    <2>6. byPort' \in [Replicas -> [Ports -> 0 .. MaxProcesses]] /\ currentPort' \in [Replicas -> Ports]
      <3>1. [p \in Ports |-> 0] \in [Ports -> 0 .. MaxProcesses] /\ StartPort \in Ports
        BY AgentAssumption DEF Ports
      <3>2. QED
        BY <2>1, <3>1, Zenon DEF End, TypeOK
    <2>7. content' \in [Replicas -> [Files -> 0 .. NumFiles]]
      BY <2>1, Zenon DEF End, TypeOK
    <2>8. QED
      BY <2>2, <2>4, <2>5, <2>6, <2>7, Zenon DEF TypeOK
  <1>7. QED
    BY <1>4, <1>5, <1>6, Zenon DEF AgentInv, TableInv, PortInv, TaskInv, Ids

-----------------------------------------------------------------------------
(* nextPort                                                                *)

\* PortAfterIs: counting on from a port, round the range, gives a port, and every
\* port is met (nextPort).
LEMMA PortAfterIs ==
    ASSUME NEW p \in Ports
    PROVE  /\ \A k \in 0 .. EndPort - StartPort : PortAfter(p, k) \in Ports
           /\ \A q \in Ports : \E k \in 0 .. EndPort - StartPort : PortAfter(p, k) = q
  <1>1. /\ StartPort \in Nat /\ EndPort \in Nat /\ StartPort <= EndPort
        /\ p \in Int /\ StartPort <= p /\ p <= EndPort
    BY AgentAssumption DEF Ports
  <1>2. \A k \in 0 .. EndPort - StartPort : PortAfter(p, k) \in Ports
    BY <1>1 DEF PortAfter, Ports
  <1>3. ASSUME NEW q \in Ports
        PROVE  \E k \in 0 .. EndPort - StartPort : PortAfter(p, k) = q
    <2>1. q \in Int /\ StartPort <= q /\ q <= EndPort
      BY <1>1 DEF Ports
    <2>2. CASE p <= q
      <3>1. q - p \in 0 .. EndPort - StartPort /\ PortAfter(p, q - p) = q
        BY <1>1, <2>1, <2>2 DEF PortAfter
      <3>2. QED
        BY <3>1, Zenon
    <2>3. CASE q < p
      <3> DEFINE k == q - p + (EndPort - StartPort + 1)
      <3>1. k \in 0 .. EndPort - StartPort /\ PortAfter(p, k) = q
        BY <1>1, <2>1, <2>3 DEF PortAfter
      <3>2. QED
        BY <3>1, Zenon
    <2>4. QED
      BY <1>1, <2>1, <2>2, <2>3
  <1>4. QED
    BY <1>2, <1>3, Zenon

\* NextPortIs: the port that nextPort gives out is one that nobody has.
LEMMA NextPortIs ==
    ASSUME TypeOK, NEW r \in Replicas, Tries(r) # {}
    PROVE  NextPort(r) \in Ports /\ byPort[r][NextPort(r)] = 0 /\ Following(NextPort(r)) \in Ports
  <1>1. Tries(r) \subseteq 0 .. EndPort - StartPort
    BY Zenon DEF Tries
  <1>2. Tries(r) \subseteq Nat
    BY <1>1, AgentAssumption
  <1> DEFINE Less == {x \in Nat \X Nat : x[1] < x[2]}
  <1>3. IsWellFoundedOn(Less, Nat)
    BY NatLessThanWellFounded, Zenon DEF OpToRel
  <1> HIDE DEF Less
  <1>4. PICK k \in Tries(r) : \A j \in Tries(r) : ~(<<j, k>> \in Less)
    BY <1>2, <1>3, WFMin, Zenon
  <1>5. \A j \in Tries(r) : k <= j
    <2>1. \A a, b \in Nat : a < b => <<a, b>> \in Less
      BY Zenon DEF Less
    <2>2. QED
      <3>1. ASSUME NEW j \in Tries(r)
            PROVE  k <= j
        <4>1. k \in Nat /\ j \in Nat
          BY <1>2, Zenon
        <4>2. ~(j < k)
          BY <1>4, <2>1, <4>1, Zenon
        <4>3. QED
          BY <4>1, <4>2
      <3>2. QED
        BY <3>1, Zenon
  <1>6. Skipped(r) \in Tries(r)
    BY <1>5, Zenon DEF Skipped
  <1>7. currentPort[r] \in Ports
    BY Zenon DEF TypeOK
  <1>8. NextPort(r) \in Ports /\ byPort[r][NextPort(r)] = 0
    BY <1>6, <1>7, PortAfterIs, Zenon DEF NextPort, Tries
  <1>9. QED
    BY <1>8, AgentAssumption DEF Following, Ports

-----------------------------------------------------------------------------
(* CreateProcess, and the tasks                                            *)

\* p as CreateProcess enters it
Entered(p) == [p EXCEPT !.held = Listed(p)]

\* what CreateProcess starts from
NewProcess(p) ==
    /\ p \in Processes /\ p.state = "registered" /\ p.exit = 0 /\ p.peer = 0 /\ ~p.held
    /\ WellFormed(p)

\* EnteredIs: a process as CreateProcess enters it.
LEMMA EnteredIs ==
    ASSUME NEW p, NewProcess(p)
    PROVE  /\ Entered(p) \in Processes /\ WellFormed(Entered(p))
           /\ Entered(p).kind = p.kind /\ Entered(p).port = p.port
           /\ Entered(p).file = p.file /\ Entered(p).host = p.host
           /\ Entered(p).state = "registered" /\ Entered(p).exit = 0 /\ Entered(p).peer = 0
           /\ Entered(p).held = (p.kind = "listen")
  <1>1. p \in Processes /\ (p.kind = "listen") \in BOOLEAN
    BY Zenon DEF NewProcess
  <1>2. Listed(p) = (p.kind = "listen")
    BY Zenon DEF Listed
  <1>3. ASSUME NEW b \in BOOLEAN
        PROVE  [p EXCEPT !.held = b] \in Processes
    BY <1>1, Zenon DEF Processes
  <1>4. Entered(p) \in Processes
    BY <1>1, <1>2, <1>3, Zenon DEF Entered
  <1>5. /\ Entered(p).kind = p.kind /\ Entered(p).port = p.port
        /\ Entered(p).file = p.file /\ Entered(p).host = p.host
        /\ Entered(p).state = "registered" /\ Entered(p).exit = 0 /\ Entered(p).peer = 0
        /\ Entered(p).held = (p.kind = "listen")
    BY <1>1, <1>2, Zenon DEF Entered, NewProcess, Processes
  <1>6. QED
    BY <1>4, <1>5, Zenon DEF WellFormed, NewProcess

\* RegisterIs: a process that is entered leaves all the others as they are, and a
\* listener that is given a free port is the only one to have it (CreateProcess).
LEMMA RegisterIs ==
    ASSUME AgentInv, NEW r \in Replicas, up[r], NEW p, NewProcess(p),
           p.kind = "listen" => byPort[r][p.port] = 0, Register(r, p), UNCHANGED up
    PROVE  /\ processes' \in [Replicas -> Seq(Processes)]
           /\ byPort' \in [Replicas -> [Ports -> 0 .. MaxProcesses]]
           /\ TableInv' /\ PortInv'
           /\ Len(processes[r]) + 1 \in 1 .. MaxProcesses
           /\ Ids(r)' = Ids(r) \cup {Len(processes[r]) + 1} /\ Len(processes[r]) + 1 \notin Ids(r)
           /\ \A s \in Replicas \ {r} : processes'[s] = processes[s] /\ Ids(s)' = Ids(s)
           /\ processes'[r][Len(processes[r]) + 1] = Entered(p)
           /\ \A s \in Replicas : \A k \in Ids(s) : processes'[s][k] = processes[s][k]
  <1> DEFINE n == Len(processes[r]) + 1
  <1>1. TypeOK /\ TableInv /\ PortInv
    BY Zenon DEF AgentInv
  <1>2. processes' = [processes EXCEPT ![r] = Append(@, Entered(p))]
    BY Zenon DEF Register, Entered
  <1>3. /\ Entered(p) \in Processes /\ WellFormed(Entered(p))
        /\ Entered(p).kind = p.kind /\ Entered(p).port = p.port /\ Entered(p).state = "registered"
        /\ Entered(p).held = (p.kind = "listen")
    BY EnteredIs, Zenon
  <1>4. /\ processes' \in [Replicas -> Seq(Processes)]
        /\ Len(processes'[r]) = n
        /\ Ids(r)' = Ids(r) \cup {n} /\ n \notin Ids(r)
        /\ \A s \in Replicas \ {r} : processes'[s] = processes[s] /\ Ids(s)' = Ids(s)
        /\ processes'[r][n] = Entered(p)
        /\ \A s \in Replicas : \A k \in Ids(s) : processes'[s][k] = processes[s][k]
    BY <1>1, <1>2, <1>3, OneMore, Zenon
  <1>5. n \in 1 .. MaxProcesses /\ Len(processes[r]) \in Nat
    BY <1>1, AgentAssumption DEF Register, TypeOK
  <1>6. PortsOf(r) /\ \A i \in Ids(r) : i # 0
    BY <1>1 DEF PortInv, Ids
  <1>7. byPort' \in [Replicas -> [Ports -> 0 .. MaxProcesses]] /\ PortsOf(r)'
    <2>1. CASE p.kind = "listen"
      <3>1. p.port \in Ports /\ byPort[r][p.port] = 0
        BY <2>1, Zenon DEF NewProcess, WellFormed
      <3>2. byPort' = [byPort EXCEPT ![r][p.port] = n]
        BY <2>1, Zenon DEF Register, Listed
      <3>3. byPort \in [Replicas -> [Ports -> 0 .. MaxProcesses]] /\ n \in 0 .. MaxProcesses /\ n # 0
        BY <1>1, <1>5 DEF TypeOK
      <3> HIDE DEF n
      <3>4. /\ byPort' \in [Replicas -> [Ports -> 0 .. MaxProcesses]]
            /\ byPort'[r][p.port] = n
            /\ \A q \in Ports \ {p.port} : byPort'[r][q] = byPort[r][q]
        BY <3>1, <3>2, <3>3, Zenon
      <3>5. \A i \in Ids(r) : processes[r][i].held =>
              processes[r][i].port # p.port /\ processes[r][i].port \in Ports
        <4>1. ASSUME NEW i \in Ids(r), processes[r][i].held
              PROVE  processes[r][i].port # p.port /\ processes[r][i].port \in Ports
          <5>1. processes[r][i].kind = "listen" /\ byPort[r][processes[r][i].port] = i
            BY <1>6, <4>1, Zenon DEF PortsOf
          <5>2. WellFormed(processes[r][i])
            BY <1>1, Zenon DEF TableInv, TableOf
          <5>3. processes[r][i].port \in Ports
            BY <5>1, <5>2, Zenon DEF WellFormed
          <5>4. QED
            BY <1>6, <3>1, <5>1, <5>3, Zenon
        <4>2. QED
          BY <4>1, Zenon
      <3>6. ASSUME NEW i \in Ids(r)', processes'[r][i].held
            PROVE  processes'[r][i].kind = "listen" /\ byPort'[r][processes'[r][i].port] = i
        <4>1. CASE i = n
          BY <1>3, <1>4, <2>1, <3>6, <4>1, <3>4, <3>5
        <4>2. CASE i \in Ids(r)
          <5>1. processes'[r][i] = processes[r][i]
            BY <1>4, <4>2, Zenon
          <5>2. QED
            BY <1>6, <3>6, <4>2, <5>1, <3>4, <3>5 DEF PortsOf
        <4>3. QED
          BY <1>4, <4>1, <4>2, Zenon
      <3>7. ASSUME NEW i \in Ids(r)', processes'[r][i].kind = "listen", ~processes'[r][i].held
            PROVE  Ended(processes'[r][i])
        <4>1. CASE i = n
          BY <1>3, <1>4, <2>1, <3>7, <4>1, Zenon
        <4>2. CASE i \in Ids(r)
          <5>1. processes'[r][i] = processes[r][i]
            BY <1>4, <4>2
          <5>2. QED
            BY <1>6, <3>7, <4>2, <5>1, Zenon DEF PortsOf
        <4>3. QED
          BY <1>4, <4>1, <4>2, Zenon
      <3>8. ASSUME NEW q \in Ports, byPort'[r][q] # 0
            PROVE  /\ byPort'[r][q] \in Ids(r)'
                   /\ processes'[r][byPort'[r][q]].held /\ processes'[r][byPort'[r][q]].port = q
        <4>1. CASE q = p.port
          BY <1>3, <1>4, <2>1, <3>4, <4>1, Zenon
        <4>2. CASE q # p.port
          <5>1. /\ byPort[r][q] \in Ids(r) /\ byPort'[r][q] = byPort[r][q]
                /\ processes[r][byPort[r][q]].held /\ processes[r][byPort[r][q]].port = q
            BY <1>6, <3>4, <3>8, <4>2, Zenon DEF PortsOf
          <5>2. QED
            BY <1>4, <5>1
        <4>3. QED
          BY <4>1, <4>2, Zenon
      <3>9. QED
        BY <3>4, <3>6, <3>7, <3>8, Zenon DEF PortsOf
    <2>2. CASE p.kind # "listen"
      <3>1. byPort' = byPort /\ byPort \in [Replicas -> [Ports -> 0 .. MaxProcesses]]
        BY <1>1, <2>2, Zenon DEF Register, Listed, TypeOK
      <3> HIDE DEF n
      <3>2. ASSUME NEW i \in Ids(r)', processes'[r][i].held
            PROVE  processes'[r][i].kind = "listen" /\ byPort'[r][processes'[r][i].port] = i
        <4>1. CASE i = n
          BY <1>3, <1>4, <2>2, <3>2, <4>1, <3>1, Zenon
        <4>2. CASE i \in Ids(r)
          <5>1. processes'[r][i] = processes[r][i]
            BY <1>4, <4>2
          <5>2. QED
            BY <1>6, <3>2, <4>2, <5>1, <3>1, Zenon DEF PortsOf
        <4>3. QED
          BY <1>4, <4>1, <4>2
      <3>3. ASSUME NEW i \in Ids(r)', processes'[r][i].kind = "listen", ~processes'[r][i].held
            PROVE  Ended(processes'[r][i])
        <4>1. CASE i = n
          BY <1>3, <1>4, <2>2, <3>3, <4>1, Zenon
        <4>2. CASE i \in Ids(r)
          <5>1. processes'[r][i] = processes[r][i]
            BY <1>4, <4>2
          <5>2. QED
            BY <1>6, <3>3, <4>2, <5>1 DEF PortsOf
        <4>3. QED
          BY <1>4, <4>1, <4>2
      <3>4. ASSUME NEW q \in Ports, byPort'[r][q] # 0
            PROVE  /\ byPort'[r][q] \in Ids(r)'
                   /\ processes'[r][byPort'[r][q]].held /\ processes'[r][byPort'[r][q]].port = q
        <4>1. /\ byPort[r][q] \in Ids(r) /\ byPort'[r][q] = byPort[r][q]
              /\ processes[r][byPort[r][q]].held /\ processes[r][byPort[r][q]].port = q
          BY <1>6, <3>1, <3>4, Zenon DEF PortsOf
        <4>2. QED
          BY <1>4, <4>1
      <3>5. QED
        BY <3>1, <3>2, <3>3, <3>4, Zenon DEF PortsOf
    <2>3. QED
      BY <2>1, <2>2, Zenon
  <1>8. TableOf(r)'
    <2> HIDE DEF n
    <2>1. QED
      BY <1>1, <1>3, <1>4, <1>5 DEF TableInv, TableOf
  <1>9. ASSUME NEW s \in Replicas \ {r}
        PROVE  TableOf(s)' /\ PortsOf(s)'
    <2>1. byPort'[s] = byPort[s] /\ up'[s] = up[s]
      BY <1>1, Zenon DEF Register, TypeOK
    <2>2. TableOf(s) /\ PortsOf(s)
      BY <1>1, Zenon DEF TableInv, PortInv
    <2>3. processes'[s] = processes[s] /\ Ids(s)' = Ids(s)
      BY <1>4, Zenon
    <2>4. TableOf(s)'
      BY <2>1, <2>2, <2>3, Zenon DEF TableOf
    <2>5. PortsOf(s)'
      BY <2>1, <2>2, <2>3 DEF PortsOf
    <2>6. QED
      BY <2>4, <2>5, Zenon
  <1>10. QED
    BY <1>4, <1>5, <1>7, <1>8, <1>9, Zenon DEF TableInv, PortInv

\* GiveBackKeeps: the port of a listener that ended is free again (CreateProcess).
LEMMA GiveBackKeeps ==
    ASSUME AgentInv, NEW r \in Replicas, NEW i \in Ids(r), GiveBack(r, i)
    PROVE  /\ AgentInv' /\ \A s \in Replicas : Ids(s)' = Ids(s)
           /\ \A s \in Replicas : \A k \in Ids(s) :
                /\ processes'[s][k].kind = processes[s][k].kind
                /\ processes'[s][k].state = processes[s][k].state
                /\ processes'[s][k].peer = processes[s][k].peer
                /\ processes'[s][k].exit = processes[s][k].exit
                /\ processes'[s][k].file = processes[s][k].file
                /\ processes'[s][k].host = processes[s][k].host
  <1> DEFINE q == processes[r][i]
             p == [q EXCEPT !.held = FALSE]
  <1>1. TypeOK /\ q \in Processes /\ WellFormed(q) /\ PortsOf(r) /\ TableOf(r)
    BY DEF AgentInv, TypeOK, TableInv, TableOf, PortInv, Ids
  <1>2. q.held /\ Ended(q) /\ UNCHANGED <<up, crashes, role, content, currentPort, task, job>>
    BY Zenon DEF GiveBack, Ended, clients
  <1>3. q.kind = "listen" /\ q.port \in Ports /\ byPort[r][q.port] = i
    BY <1>1, <1>2, Zenon DEF PortsOf, WellFormed
  <1>4. processes' = [processes EXCEPT ![r][i] = p]
    BY <1>1, Zenon DEF GiveBack, TypeOK, Ids
  <1>5. byPort' = [byPort EXCEPT ![r][q.port] = 0]
    BY Zenon DEF GiveBack
  <1> HIDE DEF q
  <1>6. /\ p \in Processes /\ p.kind = q.kind /\ p.file = q.file /\ p.host = q.host
        /\ p.port = q.port /\ p.state = q.state /\ p.exit = q.exit /\ p.peer = q.peer
        /\ p.held = FALSE
    BY <1>1, Zenon DEF Processes
  <1> HIDE DEF p
  <1>7. WellFormed(p) /\ Ended(p)
    BY <1>1, <1>2, <1>6, Zenon DEF WellFormed, Ended
  <1>8. /\ processes' \in [Replicas -> Seq(Processes)]
        /\ \A s \in Replicas : Len(processes'[s]) = Len(processes[s]) /\ Ids(s)' = Ids(s)
        /\ processes'[r][i] = p
        /\ \A s \in Replicas : \A k \in Ids(s) :
             s # r \/ k # i => processes'[s][k] = processes[s][k]
    BY <1>1, <1>4, <1>6 DEF TypeOK, Ids
  <1>9. /\ byPort' \in [Replicas -> [Ports -> 0 .. MaxProcesses]]
        /\ \A s \in Replicas \ {r} : byPort'[s] = byPort[s]
        /\ byPort'[r][q.port] = 0
        /\ \A x \in Ports \ {q.port} : byPort'[r][x] = byPort[r][x]
    BY <1>1, <1>3, <1>5, AgentAssumption DEF TypeOK
  <1>10. TypeOK'
    BY <1>1, <1>2, <1>8, <1>9, Zenon DEF TypeOK
  <1>11. \A s \in Replicas : \A k \in Ids(s) :
           /\ processes'[s][k].kind = processes[s][k].kind
           /\ processes'[s][k].state = processes[s][k].state
           /\ processes'[s][k].peer = processes[s][k].peer
           /\ processes'[s][k].exit = processes[s][k].exit
           /\ processes'[s][k].file = processes[s][k].file
           /\ processes'[s][k].host = processes[s][k].host
    BY <1>6, <1>8, Zenon DEF q
  <1>12. ASSUME NEW s \in Replicas
         PROVE  TableOf(s)' /\ TaskOf(s)'
    <2>1. TableOf(s) /\ TaskOf(s)
      BY Zenon DEF AgentInv, TableInv, TaskInv
    <2>2. ~up'[s] => processes'[s] = <<>>
      BY <1>2, <1>8, <2>1 DEF TableOf
    <2>3. TableOf(s)'
      BY <1>7, <1>8, <2>1, <2>2, Zenon DEF TableOf
    <2>4. QED
      BY <1>2, <1>8, <1>11, <2>1, <2>3, Zenon DEF TaskOf, Busy
  <1>13. PortsOf(r)'
    <2>1. ASSUME NEW k \in Ids(r), processes'[r][k].held
          PROVE  processes'[r][k].kind = "listen" /\ byPort'[r][processes'[r][k].port] = k
      <3>1. k # i /\ processes'[r][k] = processes[r][k]
        BY <1>6, <1>8, <2>1, Zenon
      <3>2. processes[r][k].kind = "listen" /\ byPort[r][processes[r][k].port] = k
        BY <1>1, <2>1, <3>1, Zenon DEF PortsOf
      <3>3. processes[r][k].port \in Ports
        BY <1>1, <3>2, Zenon DEF TableOf, WellFormed
      <3>4. QED
        BY <1>3, <1>9, <3>1, <3>2, <3>3, Zenon
    <2>2. ASSUME NEW k \in Ids(r), processes'[r][k].kind = "listen", ~processes'[r][k].held
          PROVE  Ended(processes'[r][k])
      <3>1. CASE k = i
        BY <1>7, <1>8, <3>1, Zenon
      <3>2. CASE k # i
        <4>1. processes'[r][k] = processes[r][k]
          BY <1>8, <3>2, Zenon
        <4>2. processes[r][k].kind = "listen" /\ ~processes[r][k].held
          BY <2>2, <4>1, Zenon
        <4>3. Ended(processes[r][k])
          BY <1>1, <4>2, Zenon DEF PortsOf
        <4>4. QED
          BY <4>1, <4>3, Zenon
      <3>3. QED
        BY <3>1, <3>2, Zenon
    <2>3. ASSUME NEW x \in Ports, byPort'[r][x] # 0
          PROVE  /\ byPort'[r][x] \in Ids(r)
                 /\ processes'[r][byPort'[r][x]].held /\ processes'[r][byPort'[r][x]].port = x
      <3>1. x # q.port /\ byPort'[r][x] = byPort[r][x]
        BY <1>9, <2>3, Zenon
      <3>2. /\ byPort[r][x] \in Ids(r)
            /\ processes[r][byPort[r][x]].held /\ processes[r][byPort[r][x]].port = x
        BY <1>1, <2>3, <3>1, Zenon DEF PortsOf
      <3>3. byPort[r][x] # i
        BY <3>1, <3>2, Zenon DEF q
      <3>4. QED
        BY <1>8, <3>1, <3>2, <3>3
    <2>4. QED
      BY <1>8, <2>1, <2>2, <2>3, Zenon DEF PortsOf
  <1>14. ASSUME NEW s \in Replicas \ {r}
         PROVE  PortsOf(s)'
    <2>1. PortsOf(s)
      BY Zenon DEF AgentInv, PortInv
    <2>2. /\ byPort'[s] = byPort[s] /\ Ids(s)' = Ids(s)
          /\ \A k \in Ids(s) : processes'[s][k] = processes[s][k]
      BY <1>8, <1>9, Zenon
    <2>3. QED
      BY <2>1, <2>2 DEF PortsOf
  <1>15. QED
    BY <1>8, <1>10, <1>11, <1>12, <1>13, <1>14, Zenon DEF AgentInv, TableInv, PortInv, TaskInv

\* the task of a rebuild once it began; once its listener, and its sender, are asked
\* for; once it polls; once it saw one exit code of 0; at the next file
Began(from) == [Idle EXCEPT !.phase = "receiver", !.file = 1, !.from = from]
Received(t, n) == [t EXCEPT !.phase = "received", !.id = n]
Sent(t, n) == [t EXCEPT !.phase = "sent", !.id = n, !.oks = 0]
Polls(t) == [t EXCEPT !.phase = "polling"]
SawOne(t) == [t EXCEPT !.oks = 1]
NextFile(t) == [t EXCEPT !.phase = "receiver", !.file = t.file + 1, !.id = 0, !.oks = 0]

\* IdleIs: a replica that is not being rebuilt.
LEMMA IdleIs == Idle \in Tasks /\ Idle.phase = "idle"
  BY AgentAssumption DEF Idle, Tasks

\* BeganIs: a rebuild starts with the first file (Task.syncFiles).
LEMMA BeganIs ==
    ASSUME NEW from \in Replicas
    PROVE  /\ Began(from) \in Tasks /\ Began(from).phase = "receiver"
           /\ Began(from).file = 1 /\ Began(from).from = from
  <1>1. ASSUME NEW f \in 0 .. NumFiles
        PROVE  [Idle EXCEPT !.phase = "receiver", !.file = f, !.from = from] \in Tasks
    BY IdleIs, Zenon DEF Tasks
  <1>2. 1 \in 0 .. NumFiles
    BY AgentAssumption
  <1>3. Began(from) \in Tasks
    BY <1>1, <1>2, Zenon DEF Began
  <1>4. QED
    BY IdleIs, <1>3, Zenon DEF Began, Tasks

\* ReceivedIs: the listener for a file is known (LaunchReceiver).
LEMMA ReceivedIs ==
    ASSUME NEW t \in Tasks, NEW n \in 0 .. MaxProcesses
    PROVE  /\ Received(t, n) \in Tasks /\ Received(t, n).phase = "received"
           /\ Received(t, n).id = n /\ Received(t, n).file = t.file /\ Received(t, n).from = t.from
  BY Zenon DEF Received, Tasks

\* SentIs: the sender of a file is asked for (SendFile).
LEMMA SentIs ==
    ASSUME NEW t \in Tasks, NEW n \in 0 .. MaxProcesses
    PROVE  /\ Sent(t, n) \in Tasks /\ Sent(t, n).phase = "sent"
           /\ Sent(t, n).id = n /\ Sent(t, n).file = t.file /\ Sent(t, n).from = t.from
  <1>1. ASSUME NEW o \in {0, 1}
        PROVE  [t EXCEPT !.phase = "sent", !.id = n, !.oks = o] \in Tasks
    BY Zenon DEF Tasks
  <1>2. Sent(t, n) \in Tasks
    BY <1>1, Zenon DEF Sent
  <1>3. QED
    BY <1>2, Zenon DEF Sent, Tasks

\* PollsIs: the post for a sender is answered (SendFile).
LEMMA PollsIs ==
    ASSUME NEW t \in Tasks
    PROVE  /\ Polls(t) \in Tasks /\ Polls(t).phase = "polling"
           /\ Polls(t).id = t.id /\ Polls(t).file = t.file /\ Polls(t).from = t.from
  BY Zenon DEF Polls, Tasks

\* SawOneIs: a poll finds the sender exited (SendFile).
LEMMA SawOneIs ==
    ASSUME NEW t \in Tasks
    PROVE  /\ SawOne(t) \in Tasks /\ SawOne(t).phase = t.phase
           /\ SawOne(t).id = t.id /\ SawOne(t).file = t.file /\ SawOne(t).from = t.from
  BY Zenon DEF SawOne, Tasks

\* NextFileIs: a rebuild goes on to its next file (Task.syncFiles).
LEMMA NextFileIs ==
    ASSUME NEW t \in Tasks
    PROVE  /\ t.file < NumFiles => NextFile(t) \in Tasks
           /\ NextFile(t).phase = "receiver"
           /\ NextFile(t).file = t.file + 1 /\ NextFile(t).from = t.from
  <1>1. t.file \in 0 .. NumFiles /\ NumFiles \in Nat /\ 0 \in 0 .. MaxProcesses
    BY AgentAssumption DEF Tasks
  <1>2. t.file < NumFiles => t.file + 1 \in 0 .. NumFiles
    BY <1>1
  <1>3. ASSUME NEW f \in 0 .. NumFiles
        PROVE  [t EXCEPT !.phase = "receiver", !.file = f, !.id = 0, !.oks = 0] \in Tasks
    BY <1>1, Zenon DEF Tasks
  <1>4. t.file < NumFiles => NextFile(t) \in Tasks
    BY <1>2, <1>3, Zenon DEF NextFile
  <1>5. QED
    BY <1>4, Zenon DEF NextFile, Tasks

\* TaskSet: a step of one rebuild leaves the others (Task).
LEMMA TaskSet ==
    ASSUME TypeOK, NEW r \in Replicas, NEW t \in Tasks, SetTask(r, t)
    PROVE  /\ task' \in [Replicas -> Tasks] /\ task'[r] = t
           /\ \A s \in Replicas \ {r} : task'[s] = task[s]
  BY Zenon DEF SetTask, TypeOK

\* TaskKeeps: a rebuild that does nothing, whatever its agent is asked for.
LEMMA TaskKeeps ==
    ASSUME NEW s \in Replicas, TaskOf(s), task'[s] = task[s], up'[s] = up[s],
           Ids(s) \subseteq Ids(s)', \A k \in Ids(s) : processes'[s][k] = processes[s][k]
    PROVE  TaskOf(s)'
  BY Zenon DEF TaskOf, Busy

\* ProcessIs: what CreateProcess is asked for (LaunchReceiver, SendFile, Coalesce).
LEMMA ProcessIs ==
    ASSUME NEW f \in Files, NEW host \in Replicas, NEW port \in Ports, NEW any \in Ports \cup {0}
    PROVE  /\ NewProcess(Process("listen", f, None, port))
           /\ NewProcess(Process("send", f, host, any))
           /\ NewProcess(Process("command", 0, None, 0))
  <1>1. /\ f \in 0 .. NumFiles /\ 0 \in 0 .. NumFiles /\ 0 \in -1 .. MaxProcesses
        /\ port \in Ports \cup {0}
    BY AgentAssumption DEF Files
  <1>2. Process("listen", f, None, port) \in Processes
    BY <1>1, Zenon DEF Process, Processes
  <1>3. Process("send", f, host, any) \in Processes
    BY <1>1, Zenon DEF Process, Processes
  <1>4. Process("command", 0, None, 0) \in Processes
    BY <1>1, Zenon DEF Process, Processes
  <1>5. QED
    BY <1>2, <1>3, <1>4 DEF NewProcess, Process, WellFormed

\* StartCommandKeeps: a command is asked for (Coalesce, CreateBackup).
LEMMA StartCommandKeeps ==
    ASSUME AgentInv, NEW r \in Replicas, StartCommand(r)
    PROVE  AgentInv'
  <1> DEFINE p == Process("command", 0, None, 0)
             n == Len(processes[r]) + 1
  <1>1. up[r] /\ Register(r, p) /\ UNCHANGED <<up, crashes, role, content, currentPort, task>>
    BY Zenon DEF StartCommand
  <1>2. NewProcess(p) /\ p.kind # "listen"
    <2>1. 1 \in Files /\ StartPort \in Ports
      BY AgentAssumption DEF Files, Ports
    <2>2. QED
      BY <2>1, ProcessIs, Zenon DEF Process
  <1> HIDE DEF p
  <1>3. /\ processes' \in [Replicas -> Seq(Processes)]
        /\ byPort' \in [Replicas -> [Ports -> 0 .. MaxProcesses]]
        /\ TableInv' /\ PortInv'
        /\ n \in 1 .. MaxProcesses /\ Ids(r)' = Ids(r) \cup {n}
        /\ \A s \in Replicas \ {r} : Ids(s)' = Ids(s)
        /\ \A s \in Replicas : \A k \in Ids(s) : processes'[s][k] = processes[s][k]
    BY <1>1, <1>2, RegisterIs, Zenon
  <1>4. job' \in [Replicas -> 0 .. MaxProcesses]
    <2>1. job' = [job EXCEPT ![r] = n] /\ n \in 0 .. MaxProcesses
      BY <1>3 DEF StartCommand
    <2> HIDE DEF n
    <2>2. QED
      BY <2>1, Zenon DEF AgentInv, TypeOK
  <1>5. TypeOK'
    BY <1>1, <1>3, <1>4, Zenon DEF AgentInv, TypeOK
  <1> HIDE DEF n
  <1>6. \A s \in Replicas : TaskOf(s)'
    BY <1>1, <1>3, TaskKeeps, Zenon DEF AgentInv, TaskInv
  <1>7. QED
    BY <1>3, <1>5, <1>6, Zenon DEF AgentInv, TaskInv

\* ReceiverIs: a rebuild asks its own agent for a listener (LaunchReceiver).
LEMMA ReceiverIs ==
    ASSUME AgentInv, NEW r \in Replicas, LaunchReceiver(r)
    PROVE  LET n == Len(processes[r]) + 1
               p == Process("listen", task[r].file, None, NextPort(r))
           IN  /\ AgentInv' /\ UNCHANGED <<up, crashes, role, content, job>>
               /\ Ids(r)' = Ids(r) \cup {n} /\ n \notin Ids(r)
               /\ \A s \in Replicas \ {r} : Ids(s)' = Ids(s)
               /\ \A s \in Replicas : \A k \in Ids(s) : processes'[s][k] = processes[s][k]
               /\ NewProcess(p) /\ processes'[r][n] = Entered(p)
               /\ task'[r] = Received(task[r], n)
               /\ \A s \in Replicas \ {r} : task'[s] = task[s]
  <1> DEFINE n == Len(processes[r]) + 1
             p == Process("listen", task[r].file, None, NextPort(r))
  <1>1. /\ task[r].phase = "receiver" /\ Tries(r) # {} /\ Register(r, p)
        /\ currentPort' = [currentPort EXCEPT ![r] = Following(NextPort(r))]
        /\ SetTask(r, Received(task[r], n))
        /\ UNCHANGED <<up, crashes, role, content, job>>
    BY Zenon DEF LaunchReceiver, Received
  <1>2. TypeOK /\ task[r] \in Tasks /\ up[r] /\ task[r].file \in Files
    BY <1>1, Zenon DEF AgentInv, TypeOK, TaskInv, TaskOf, Busy
  <1>3. NextPort(r) \in Ports /\ byPort[r][NextPort(r)] = 0 /\ Following(NextPort(r)) \in Ports
    BY <1>1, <1>2, NextPortIs, Zenon
  <1>4. NewProcess(p)
    BY <1>2, <1>3, AgentAssumption, ProcessIs, Zenon
  <1>5. p.kind = "listen" /\ p.port = NextPort(r)
    BY Zenon DEF Process
  <1> HIDE DEF p
  <1>6. /\ processes' \in [Replicas -> Seq(Processes)]
        /\ byPort' \in [Replicas -> [Ports -> 0 .. MaxProcesses]]
        /\ TableInv' /\ PortInv'
        /\ n \in 1 .. MaxProcesses /\ Ids(r)' = Ids(r) \cup {n} /\ n \notin Ids(r)
        /\ \A s \in Replicas \ {r} : Ids(s)' = Ids(s)
        /\ processes'[r][n] = Entered(p)
        /\ \A s \in Replicas : \A k \in Ids(s) : processes'[s][k] = processes[s][k]
    BY <1>1, <1>2, <1>3, <1>4, <1>5, RegisterIs, Zenon
  <1>7. n \in 0 .. MaxProcesses
    BY <1>6
  <1> HIDE DEF n
  <1>8. /\ Received(task[r], n) \in Tasks /\ Received(task[r], n).phase = "received"
        /\ Received(task[r], n).id = n /\ Received(task[r], n).file = task[r].file
        /\ Received(task[r], n).from = task[r].from
    BY <1>2, <1>7, ReceivedIs, Zenon
  <1>9. /\ task' \in [Replicas -> Tasks] /\ task'[r] = Received(task[r], n)
        /\ \A s \in Replicas \ {r} : task'[s] = task[s]
    BY <1>1, <1>2, <1>8, TaskSet, Zenon
  <1>10. TypeOK'
    <2>1. currentPort' \in [Replicas -> Ports]
      BY <1>1, <1>2, <1>3, Zenon DEF TypeOK
    <2>2. QED
      BY <1>1, <1>2, <1>6, <1>9, <2>1, Zenon DEF TypeOK
  <1>11. TaskOf(r)'
    <2>1. processes'[r][n].kind = "listen"
      BY <1>4, <1>5, <1>6, EnteredIs, Zenon
    <2>2. task[r].from \in Replicas \ {r}
      BY <1>1, Zenon DEF AgentInv, TaskInv, TaskOf, Busy
    <2>3. QED
      BY <1>1, <1>2, <1>6, <1>8, <1>9, <2>1, <2>2, Zenon DEF TaskOf
  <1>12. \A s \in Replicas \ {r} : TaskOf(s)'
    BY <1>1, <1>6, <1>9, TaskKeeps, Zenon DEF AgentInv, TaskInv
  <1>13. AgentInv'
    BY <1>6, <1>10, <1>11, <1>12, Zenon DEF AgentInv, TaskInv
  <1>14. QED
    BY <1>1, <1>4, <1>6, <1>9, <1>13, Zenon DEF n, p

\* SendFileIs: a rebuild asks the agent of its source for a sender (SendFile).
LEMMA SendFileIs ==
    ASSUME AgentInv, NEW r \in Replicas, SendFile(r), NEW from, from = task[r].from
    PROVE  LET n == Len(processes[from]) + 1
               p == Process("send", task[r].file, r, processes[r][task[r].id].port)
           IN  /\ AgentInv' /\ UNCHANGED <<up, crashes, role, content, job>>
               /\ from \in Replicas \ {r} /\ up[from]
               /\ Ids(from)' = Ids(from) \cup {n} /\ n \notin Ids(from)
               /\ \A s \in Replicas \ {from} : Ids(s)' = Ids(s)
               /\ \A s \in Replicas : \A k \in Ids(s) : processes'[s][k] = processes[s][k]
               /\ NewProcess(p) /\ processes'[from][n] = Entered(p)
               /\ task'[r] = Sent(task[r], n)
               /\ \A s \in Replicas \ {r} : task'[s] = task[s]
  <1> DEFINE n == Len(processes[from]) + 1
             p == Process("send", task[r].file, r, processes[r][task[r].id].port)
  <1>1. /\ task[r].phase = "received" /\ up[from] /\ Register(from, p)
        /\ SetTask(r, Sent(task[r], n))
        /\ UNCHANGED <<up, crashes, role, content, currentPort, job>>
    BY Zenon DEF SendFile, Sent
  <1>2. /\ TypeOK /\ task[r] \in Tasks /\ up[r] /\ task[r].file \in Files
        /\ from \in Replicas \ {r} /\ task[r].id \in Ids(r)
    BY <1>1, Zenon DEF AgentInv, TypeOK, TaskInv, TaskOf, Busy
  <1>3. NewProcess(p)
    <2>1. processes[r][task[r].id] \in Processes
      BY <1>2 DEF TypeOK, Ids
    <2>2. processes[r][task[r].id].port \in Ports \cup {0} /\ StartPort \in Ports
      BY <2>1, AgentAssumption DEF Processes, Ports
    <2>3. QED
      BY <1>2, <2>2, ProcessIs, Zenon
  <1>4. p.kind = "send"
    BY Zenon DEF Process
  <1> HIDE DEF p
  <1>5. /\ processes' \in [Replicas -> Seq(Processes)]
        /\ byPort' \in [Replicas -> [Ports -> 0 .. MaxProcesses]]
        /\ TableInv' /\ PortInv'
        /\ n \in 1 .. MaxProcesses /\ Ids(from)' = Ids(from) \cup {n} /\ n \notin Ids(from)
        /\ \A s \in Replicas \ {from} : Ids(s)' = Ids(s)
        /\ processes'[from][n] = Entered(p)
        /\ \A s \in Replicas : \A k \in Ids(s) : processes'[s][k] = processes[s][k]
    BY <1>1, <1>2, <1>3, <1>4, RegisterIs, Zenon
  <1>6. n \in 0 .. MaxProcesses
    BY <1>5
  <1> HIDE DEF n
  <1>7. /\ Sent(task[r], n) \in Tasks /\ Sent(task[r], n).phase = "sent"
        /\ Sent(task[r], n).id = n /\ Sent(task[r], n).file = task[r].file
        /\ Sent(task[r], n).from = task[r].from
    BY <1>2, <1>6, SentIs, Zenon
  <1>8. /\ task' \in [Replicas -> Tasks] /\ task'[r] = Sent(task[r], n)
        /\ \A s \in Replicas \ {r} : task'[s] = task[s]
    BY <1>1, <1>2, <1>7, TaskSet, Zenon
  <1>9. TypeOK'
    BY <1>1, <1>2, <1>5, <1>8, Zenon DEF TypeOK
  <1>10. TaskOf(r)'
    BY <1>1, <1>2, <1>7, <1>8, Zenon DEF TaskOf
  <1>11. ASSUME NEW s \in Replicas \ {r}
         PROVE  TaskOf(s)'
    <2>1. up'[s] = up[s] /\ task'[s] = task[s]
      BY <1>1, <1>8, Zenon
    <2>2. Ids(s) \subseteq Ids(s)'
      <3>1. CASE s = from
        BY <1>5, <3>1, Zenon
      <3>2. CASE s # from
        BY <1>5, <3>2, Zenon
      <3>3. QED
        BY <3>1, <3>2, Zenon
    <2>3. QED
      BY <1>5, <2>1, <2>2, TaskKeeps, Zenon DEF AgentInv, TaskInv
  <1>12. AgentInv'
    BY <1>5, <1>9, <1>10, <1>11, Zenon DEF AgentInv, TaskInv
  <1>13. QED
    BY <1>1, <1>2, <1>3, <1>5, <1>8, <1>12, Zenon DEF n, p

\* TablesKeep: what holds of the tables of the agents and of their ports does, as long
\* as nobody changes them and no agent stops (Server).
LEMMA TablesKeep ==
    ASSUME TableInv, PortInv, UNCHANGED <<processes, byPort>>,
           \A s \in Replicas : up[s] => up'[s]
    PROVE  TableInv' /\ PortInv'
  <1>1. \A s \in Replicas : Ids(s)' = Ids(s)
    BY Zenon DEF Ids
  <1>2. ASSUME NEW s \in Replicas
        PROVE  TableOf(s)'
    <2>1. TableOf(s)
      BY Zenon DEF TableInv
    <2>2. QED
      BY <1>1, <2>1, Zenon DEF TableOf
  <1>3. ASSUME NEW s \in Replicas
        PROVE  PortsOf(s)'
    <2>1. PortsOf(s)
      BY Zenon DEF PortInv
    <2>2. QED
      BY <1>1, <2>1, Zenon DEF PortsOf
  <1>4. QED
    BY <1>2, <1>3, Zenon DEF TableInv, PortInv

\* TaskStep: a step of a rebuild that asks no agent for a process (SendFile, Task).
LEMMA TaskStep ==
    ASSUME AgentInv, NEW r \in Replicas, NEW t \in Tasks, SetTask(r, t),
           UNCHANGED <<up, crashes, content, processes, byPort, currentPort, job>>,
           role' \in [Replicas -> {"RW", "new"}], t.phase # "received",
           t.phase # "idle" => up[r] /\ t.file \in Files /\ t.from \in Replicas \ {r}
    PROVE  /\ AgentInv' /\ task'[r] = t /\ \A s \in Replicas \ {r} : task'[s] = task[s]
           /\ \A s \in Replicas : Ids(s)' = Ids(s)
  <1>1. TypeOK
    BY Zenon DEF AgentInv
  <1>2. /\ task' \in [Replicas -> Tasks] /\ task'[r] = t
        /\ \A s \in Replicas \ {r} : task'[s] = task[s]
    BY <1>1, TaskSet, Zenon
  <1>3. TypeOK'
    BY <1>1, <1>2, Zenon DEF TypeOK
  <1>4. \A s \in Replicas : Ids(s)' = Ids(s)
    BY Zenon DEF Ids
  <1>5. TableInv' /\ PortInv'
    BY TablesKeep, Zenon DEF AgentInv
  <1>6. TaskOf(r)'
    BY <1>2, Zenon DEF TaskOf, Busy
  <1>7. \A s \in Replicas \ {r} : TaskOf(s)'
    BY <1>2, <1>4 DEF AgentInv, TaskInv, TaskOf, Busy
  <1>8. QED
    BY <1>2, <1>3, <1>4, <1>5, <1>6, <1>7, Zenon DEF AgentInv, TaskInv

\* StartRebuildIs: a replica is let in (Task.AddReplica).
LEMMA StartRebuildIs ==
    ASSUME AgentInv, NEW r \in Replicas, NEW from \in Replicas, StartRebuild(r, from)
    PROVE  /\ AgentInv' /\ Began(from) \in Tasks /\ Began(from).phase = "receiver"
           /\ Began(from).file = 1 /\ Began(from).from = from
           /\ task'[r] = Began(from) /\ \A s \in Replicas \ {r} : task'[s] = task[s]
           /\ \A s \in Replicas : Ids(s)' = Ids(s)
  <1>1. /\ up[r] /\ r # from /\ SetTask(r, Began(from))
        /\ UNCHANGED <<up, crashes, role, content, processes, byPort, currentPort, job>>
    <2>1. up[r] /\ role[r] = "new" /\ role[from] = "RW"
      BY Zenon DEF StartRebuild
    <2>2. SetTask(r, Began(from))
      BY Zenon DEF StartRebuild, Began
    <2>3. UNCHANGED <<up, crashes, role, content, processes, byPort, currentPort, job>>
      BY Zenon DEF StartRebuild, agent
    <2>4. QED
      BY <2>1, <2>2, <2>3, Zenon
  <1>2. TypeOK /\ task[r] \in Tasks /\ 0 \in 0 .. MaxProcesses /\ 1 \in Files
    <2>1. 0 \in 0 .. MaxProcesses /\ 1 \in Files
      BY AgentAssumption DEF Files
    <2>2. QED
      BY <2>1, Zenon DEF AgentInv, TypeOK
  <1>3. /\ Began(from) \in Tasks /\ Began(from).phase = "receiver"
        /\ Began(from).file = 1 /\ Began(from).from = from
    BY BeganIs, Zenon
  <1>4. role' \in [Replicas -> {"RW", "new"}]
    BY <1>1, <1>2, Zenon DEF TypeOK
  <1>5. QED
    BY <1>1, <1>2, <1>3, <1>4, TaskStep, Zenon

\* SendAnsweredIs: the post for a sender is answered (SendFile).
LEMMA SendAnsweredIs ==
    ASSUME AgentInv, NEW r \in Replicas, SendAnswered(r)
    PROVE  /\ AgentInv' /\ Polls(task[r]).phase = "polling" /\ Polls(task[r]).id = task[r].id
           /\ Polls(task[r]).file = task[r].file /\ Polls(task[r]).from = task[r].from
           /\ task'[r] = Polls(task[r]) /\ \A s \in Replicas \ {r} : task'[s] = task[s]
           /\ \A s \in Replicas : Ids(s)' = Ids(s)
  <1>1. /\ task[r].phase = "sent" /\ SetTask(r, Polls(task[r]))
        /\ UNCHANGED <<up, crashes, role, content, processes, byPort, currentPort, job>>
    BY Zenon DEF SendAnswered, Polls, agent
  <1>2. TypeOK /\ task[r] \in Tasks /\ 0 \in 0 .. MaxProcesses /\ First \in Replicas
    BY AgentAssumption DEF AgentInv, TypeOK
  <1>3. /\ Polls(task[r]) \in Tasks /\ Polls(task[r]).phase = "polling"
        /\ Polls(task[r]).id = task[r].id
        /\ Polls(task[r]).file = task[r].file /\ Polls(task[r]).from = task[r].from
    BY <1>2, PollsIs, Zenon
  <1>4. role' \in [Replicas -> {"RW", "new"}]
    BY <1>1, <1>2, Zenon DEF TypeOK
  <1>5. up[r] /\ task[r].file \in Files /\ task[r].from \in Replicas \ {r}
    BY <1>1, Zenon DEF AgentInv, TaskInv, TaskOf, Busy
  <1>6. QED
    BY <1>1, <1>2, <1>3, <1>4, <1>5, TaskStep, Zenon

\* PollIs: a poll that finds exit code 0 is counted, or it is the second one and
\* the next file's turn, or the rebuild is done (SendFile, Task.syncFiles).
LEMMA PollIs ==
    ASSUME AgentInv, NEW r \in Replicas, Poll(r)
    PROVE  /\ AgentInv' /\ \A s \in Replicas \ {r} : task'[s] = task[s]
           /\ \A s \in Replicas : Ids(s)' = Ids(s)
           /\ \/ /\ task'[r].phase = "polling" /\ task'[r].id = task[r].id
                 /\ task'[r].file = task[r].file /\ task'[r].from = task[r].from
                 /\ UNCHANGED role
              \/ /\ task'[r].phase = "receiver" /\ task'[r].file = task[r].file + 1
                 /\ task'[r].from = task[r].from /\ UNCHANGED role
              \/ /\ task'[r] = Idle /\ task[r].file = NumFiles
                 /\ role' = [role EXCEPT ![r] = "RW"]
  <1> DEFINE t == task[r]
  <1>1. /\ t.phase = "polling"
        /\ UNCHANGED <<up, crashes, content, processes, byPort, currentPort, job>>
    BY Zenon DEF Poll, agent
  <1>2. TypeOK /\ t \in Tasks /\ 0 \in 0 .. MaxProcesses /\ First \in Replicas
    BY AgentAssumption DEF AgentInv, TypeOK
  <1>3. up[r] /\ t.file \in Files /\ t.from \in Replicas \ {r}
    BY <1>1, Zenon DEF AgentInv, TaskInv, TaskOf, Busy
  <1>4. role' \in [Replicas -> {"RW", "new"}]
    BY <1>2, Zenon DEF Poll, TypeOK
  <1>5. CASE SetTask(r, SawOne(t)) /\ UNCHANGED role
    <2>1. /\ SawOne(t) \in Tasks /\ SawOne(t).phase = t.phase
          /\ SawOne(t).id = t.id /\ SawOne(t).file = t.file /\ SawOne(t).from = t.from
      BY <1>2, SawOneIs, Zenon
    <2>2. AgentInv' /\ task'[r] = SawOne(t) /\ \A s \in Replicas \ {r} : task'[s] = task[s]
      BY <1>1, <1>2, <1>3, <1>4, <1>5, <2>1, TaskStep, Zenon
    <2>3. \A s \in Replicas : Ids(s)' = Ids(s)
      BY <1>1, Zenon DEF Ids
    <2>4. QED
      BY <1>1, <1>5, <2>1, <2>2, <2>3, Zenon
  <1>6. CASE t.file < NumFiles /\ SetTask(r, NextFile(t)) /\ UNCHANGED role
    <2>1. /\ NextFile(t) \in Tasks /\ NextFile(t).phase = "receiver"
          /\ NextFile(t).file = t.file + 1 /\ NextFile(t).from = t.from
      BY <1>2, <1>6, NextFileIs, Zenon
    <2>2. t.file + 1 \in Files
      BY <1>3, <1>6, AgentAssumption DEF Files
    <2>3. AgentInv' /\ task'[r] = NextFile(t) /\ \A s \in Replicas \ {r} : task'[s] = task[s]
      BY <1>1, <1>2, <1>3, <1>4, <1>6, <2>1, <2>2, TaskStep
    <2>4. \A s \in Replicas : Ids(s)' = Ids(s)
      BY <1>1 DEF Ids
    <2>5. QED
      BY <1>6, <2>1, <2>3, <2>4, Zenon
  <1>7. CASE t.file = NumFiles /\ SetTask(r, Idle) /\ role' = [role EXCEPT ![r] = "RW"]
    <2>1. Idle \in Tasks /\ Idle.phase = "idle"
      BY IdleIs, Zenon
    <2>2. AgentInv' /\ task'[r] = Idle /\ \A s \in Replicas \ {r} : task'[s] = task[s]
      BY <1>1, <1>2, <1>4, <1>7, <2>1, TaskStep, Zenon
    <2>3. \A s \in Replicas : Ids(s)' = Ids(s)
      BY <1>1 DEF Ids
    <2>4. QED
      BY <1>7, <2>2, <2>3, Zenon
  <1>8. QED
    BY <1>5, <1>6, <1>7, Zenon DEF Poll, SawOne, NextFile

\* QuietKeeps: a step that the agents and the rebuilds take no part in, such as the
\* election of a replica, or its restart, with an empty table.
LEMMA QuietKeeps ==
    ASSUME AgentInv, UNCHANGED <<crashes, content, processes, byPort, currentPort, task>>,
           role' \in [Replicas -> {"RW", "new"}], up' \in [Replicas -> BOOLEAN],
           job' \in [Replicas -> 0 .. MaxProcesses], \A r \in Replicas : up[r] => up'[r]
    PROVE  AgentInv' /\ \A s \in Replicas : Ids(s)' = Ids(s)
  <1>1. TypeOK'
    BY Zenon DEF AgentInv, TypeOK
  <1>2. \A s \in Replicas : Ids(s)' = Ids(s)
    BY Zenon DEF Ids
  <1>3. TableInv' /\ PortInv'
    BY TablesKeep, Zenon DEF AgentInv
  <1>4. TaskInv'
    BY <1>2 DEF AgentInv, TaskInv, TaskOf, Busy
  <1>5. QED
    BY <1>1, <1>2, <1>3, <1>4, Zenon DEF AgentInv

\* ElectKeeps: the volume is started with a replica (Elect).
LEMMA ElectKeeps ==
    ASSUME AgentInv, NEW r \in Replicas, Elect(r)
    PROVE  AgentInv' /\ \A s \in Replicas : Ids(s)' = Ids(s)
  <1>1. UNCHANGED <<crashes, content, processes, byPort, currentPort, task, up, job>>
    BY Zenon DEF Elect, agent, clients
  <1>2. role' \in [Replicas -> {"RW", "new"}]
    BY Zenon DEF Elect, AgentInv, TypeOK
  <1>3. up' \in [Replicas -> BOOLEAN] /\ job' \in [Replicas -> 0 .. MaxProcesses]
    BY <1>1, Zenon DEF AgentInv, TypeOK
  <1>4. QED
    BY <1>1, <1>2, <1>3, QuietKeeps, Zenon

\* RestartKeeps: a replica starts again (Restart).
LEMMA RestartKeeps ==
    ASSUME AgentInv, NEW r \in Replicas, Restart(r)
    PROVE  AgentInv' /\ \A s \in Replicas : Ids(s)' = Ids(s)
  <1>1. UNCHANGED <<crashes, content, processes, byPort, currentPort, task, role, job>>
    BY Zenon DEF Restart, agent, clients
  <1>2. up' \in [Replicas -> BOOLEAN] /\ \A s \in Replicas : up[s] => up'[s]
    BY Zenon DEF Restart, AgentInv, TypeOK
  <1>3. role' \in [Replicas -> {"RW", "new"}] /\ job' \in [Replicas -> 0 .. MaxProcesses]
    BY <1>1, Zenon DEF AgentInv, TypeOK
  <1>4. QED
    BY <1>1, <1>2, <1>3, QuietKeeps, Zenon

\* PollCommandKeeps: a poll that finds that a command ended (fileOperation).
LEMMA PollCommandKeeps ==
    ASSUME AgentInv, NEW r \in Replicas, PollCommand(r)
    PROVE  AgentInv' /\ \A s \in Replicas : Ids(s)' = Ids(s)
  <1>1. UNCHANGED <<crashes, content, processes, byPort, currentPort, task, role, up>>
    BY Zenon DEF PollCommand, agent
  <1>2. job' \in [Replicas -> 0 .. MaxProcesses]
    BY AgentAssumption DEF PollCommand, AgentInv, TypeOK
  <1>3. role' \in [Replicas -> {"RW", "new"}] /\ up' \in [Replicas -> BOOLEAN]
    BY <1>1, Zenon DEF AgentInv, TypeOK
  <1>4. QED
    BY <1>1, <1>2, <1>3, QuietKeeps, Zenon

-----------------------------------------------------------------------------
(* The invariant of the processes and the ports                            *)

\* AgentInit: it holds at first.
LEMMA AgentInit == Init => AgentInv
  <1> SUFFICES ASSUME Init
               PROVE  AgentInv
    BY Zenon
  <1>1. \A r \in Replicas : /\ processes[r] = <<>> /\ Len(processes[r]) = 0 /\ Ids(r) = {}
                            /\ task[r] = Idle /\ up[r]
                            /\ \A p \in Ports : byPort[r][p] = 0
    <2>1. ASSUME NEW r \in Replicas
          PROVE  processes[r] = <<>> /\ task[r] = Idle /\ up[r] /\ \A p \in Ports : byPort[r][p] = 0
      BY Zenon DEF Init
    <2>2. ASSUME NEW r \in Replicas
          PROVE  Len(processes[r]) = 0 /\ Ids(r) = {}
      BY <2>1, NoProcess DEF Ids
    <2>3. QED
      BY <2>1, <2>2, Zenon
  <1>2. TypeOK
    <2>1. up \in [Replicas -> BOOLEAN] /\ crashes \in 0 .. MaxCrashes
      BY AgentAssumption DEF Init
    <2>2. role \in [Replicas -> {"RW", "new"}] /\ job \in [Replicas -> 0 .. MaxProcesses]
      BY AgentAssumption DEF Init
    <2>3. content \in [Replicas -> [Files -> 0 .. NumFiles]]
      <3>1. \A f \in Files : f \in 0 .. NumFiles /\ 0 \in 0 .. NumFiles
        BY AgentAssumption DEF Files
      <3>2. QED
        BY <3>1, Zenon DEF Init
    <2>4. processes \in [Replicas -> Seq(Processes)]
      BY NoProcess, Zenon DEF Init
    <2>5. byPort \in [Replicas -> [Ports -> 0 .. MaxProcesses]] /\ currentPort \in [Replicas -> Ports]
      BY AgentAssumption DEF Init, Ports
    <2>6. task \in [Replicas -> Tasks]
      <3>1. Idle \in Tasks
        BY AgentAssumption DEF Idle, Tasks
      <3>2. QED
        BY <3>1, Zenon DEF Init
    <2>7. QED
      BY <2>1, <2>2, <2>3, <2>4, <2>5, <2>6, Zenon DEF TypeOK
  <1>3. TableInv /\ PortInv
    BY <1>1, AgentAssumption DEF TableInv, TableOf, PortInv, PortsOf
  <1>4. TaskInv
    BY <1>1 DEF TaskInv, TaskOf, Busy, Idle
  <1>5. QED
    BY <1>2, <1>3, <1>4, Zenon DEF AgentInv

\* AgentStep: every step of the agents and of their clients keeps it.
LEMMA AgentStep == AgentInv /\ [Next]_vars => AgentInv'
  <1> SUFFICES ASSUME AgentInv, [Next]_vars
               PROVE  AgentInv'
    BY Zenon
  <1>1. ASSUME NEW r \in Replicas, NEW i \in Ids(r), Moves(r, i)
        PROVE  AgentInv'
    BY <1>1, MoveKeeps, Zenon
  <1>2. ASSUME NEW r \in Replicas, NEW i \in Ids(r), GiveBack(r, i) \/ Transfer(r, i)
        PROVE  AgentInv'
    BY <1>2, GiveBackKeeps, TransferKeeps, Zenon
  <1>3. ASSUME NEW r \in Replicas, NEW i \in Ids(r), processes[r][i].kind = "send",
               NEW j \in Ids(processes[r][i].host), Connect(r, i, j)
        PROVE  AgentInv'
    BY <1>3, ConnectKeeps, Zenon
  <1>4. ASSUME NEW r \in Replicas, End(r), crashes' \in 0 .. MaxCrashes
        PROVE  AgentInv'
    BY <1>4, EndKeeps, Zenon
  <1>5. ASSUME NEW r \in Replicas, Crash(r) \/ RebuildFails(r)
        PROVE  AgentInv'
    <2>1. End(r)
      BY <1>5, Zenon DEF Crash, RebuildFails
    <2>2. crashes' \in 0 .. MaxCrashes
      BY <1>5, AgentAssumption DEF Crash, RebuildFails, AgentInv, TypeOK
    <2>3. QED
      BY <1>4, <2>1, <2>2, Zenon
  <1>6. ASSUME NEW r \in Replicas, LaunchReceiver(r) \/ SendFile(r) \/ SendAnswered(r) \/ Poll(r)
        PROVE  AgentInv'
    BY <1>6, ReceiverIs, SendFileIs, SendAnsweredIs, PollIs, Zenon
  <1>7. ASSUME NEW r \in Replicas, NEW from \in Replicas, StartRebuild(r, from)
        PROVE  AgentInv'
    BY <1>7, StartRebuildIs, Zenon
  <1>8. ASSUME NEW r \in Replicas, StartCommand(r) \/ PollCommand(r) \/ Elect(r) \/ Restart(r)
        PROVE  AgentInv'
    BY <1>8, StartCommandKeeps, PollCommandKeeps, ElectKeeps, RestartKeeps, Zenon
  <1>9. CASE UNCHANGED vars
    BY <1>9, QuietKeeps, Zenon DEF vars, agent, clients, AgentInv, TypeOK
  <1>10. CASE Next
    <2>1. PICK r \in Replicas :
            \/ Runs(r) \/ Rebuild(r) \/ StartCommand(r) \/ PollCommand(r)
            \/ \E i \in Ids(r) : \/ LaunchFails(r, i) \/ ListenerEnds(r, i)
                                 \/ /\ processes[r][i].kind = "send"
                                    /\ \E j \in Ids(processes[r][i].host) : Connect(r, i, j)
            \/ \E from \in Replicas : StartRebuild(r, from)
            \/ Elect(r) \/ Crash(r) \/ Restart(r)
      BY <1>10, Zenon DEF Next
    <2>2. CASE Runs(r)
      BY <1>1, <1>2, <2>2, Zenon DEF Runs, Moves
    <2>3. CASE Rebuild(r)
      BY <1>5, <1>6, <2>3, Zenon DEF Rebuild
    <2>4. CASE \E i \in Ids(r) : \/ LaunchFails(r, i) \/ ListenerEnds(r, i)
                                 \/ /\ processes[r][i].kind = "send"
                                    /\ \E j \in Ids(processes[r][i].host) : Connect(r, i, j)
      BY <1>1, <1>3, <2>4, Zenon DEF Moves
    <2>5. QED
      BY <1>5, <1>7, <1>8, <2>1, <2>2, <2>3, <2>4, Zenon
  <1>11. QED
    BY <1>9, <1>10, Zenon

\* AgentInvariant: the invariant of the processes and the ports holds always.
LEMMA AgentInvariant == Spec => []AgentInv
  BY AgentInit, AgentStep, PTL DEF Spec

\* AgentTypeCorrect: the state of the agents and of their clients is always of its
\* type (agent.Server, agent.Process, ReplicaClient).
THEOREM AgentTypeCorrect == Spec => []TypeOK
  <1>1. AgentInv => TypeOK
    BY Zenon DEF AgentInv
  <1>2. QED
    BY <1>1, AgentInvariant, PTL

\* PortIsFree: however many listeners outlive their senders, and whatever ends in
\* whatever order, the port that nextPort gave a listener is still bound by no
\* other one when launch binds it (CreateProcess, nextPort, launch).
THEOREM PortIsFree == Spec => []BindsItsPort
  <1>1. AgentInv => BindsItsPort
    BY DEF AgentInv, PortInv, PortsOf, Ended, BindsItsPort, Bound
  <1>2. QED
    BY <1>1, AgentInvariant, PTL

\* PortsAreFound: nextPort tries every port of the range, and one that it finds
\* taken belongs to a listener that has not given it back (nextPort).
THEOREM PortsAreFound == Spec => []FindsFreePort
  <1>1. ASSUME AgentInv
        PROVE  FindsFreePort
    <2>1. SUFFICES ASSUME NEW r \in Replicas, Tries(r) = {}, NEW p \in Ports
                   PROVE  \E i \in Ids(r) : processes[r][i].port = p /\ processes[r][i].held
      BY Zenon DEF FindsFreePort
    <2>2. currentPort[r] \in Ports
      BY <1>1, Zenon DEF AgentInv, TypeOK
    <2>3. PICK k \in 0 .. EndPort - StartPort : PortAfter(currentPort[r], k) = p
      BY <2>2, PortAfterIs, Zenon
    <2>4. byPort[r][p] # 0
      BY <2>1, <2>3, Zenon DEF Tries
    <2>5. QED
      BY <1>1, <2>4 DEF AgentInv, PortInv, PortsOf
  <1>2. QED
    BY <1>1, AgentInvariant, PTL

-----------------------------------------------------------------------------
(* The inductive invariant: the rebuild                                    *)

Complete(r) == \A f \in Files : content[r][f] = f

\* a sender that may still connect or send
Live(s, i) == processes[s][i].kind = "send" /\ ~Ended(processes[s][i])

\* a listener that nobody has served yet
Fresh(r, j) == /\ processes[r][j].kind = "listen" /\ processes[r][j].peer = 0
               /\ ~Ended(processes[r][j])

NoneFresh(r) == \A j \in Ids(r) : ~Fresh(r, j)

\* An RW replica runs, has no rebuild, and is complete; there is one rebuild at a
\* time, its source is complete, and the files before the current one are copied.
RoleOf(r) ==
    /\ role[r] = "RW" => up[r] /\ ~Busy(r) /\ Complete(r)
    /\ Busy(r) => /\ \A s \in Replicas : task[r].from = s => Complete(s)
                  /\ \A f \in 1 .. task[r].file - 1 : content[r][f] = f
                  /\ \A q \in Replicas : Busy(q) => q = r

RoleInv == \A r \in Replicas : RoleOf(r)

\* Process i of s is the sender that the rebuild of r waits for; it is gone only
\* when s has crashed, and it exits with 0 only after it has copied the file.
WaitsFor(r, s, i) ==
    /\ role[s] = "RW" => i \in Ids(s)
    /\ i \in Ids(s) =>
         /\ processes[s][i].kind = "send" /\ processes[s][i].host = r
         /\ processes[s][i].file = task[r].file
         /\ task[r].phase = "polling" => processes[s][i].state # "registered"
         /\ processes[s][i].state = "exited" /\ processes[s][i].exit = 0 =>
              content[r][task[r].file] = task[r].file /\ NoneFresh(r)

\* the rebuild of h is where it waits for process i of s
Expected(h, s, i) == /\ task[h].phase \in {"sent", "polling"}
                     /\ task[h].from = s /\ task[h].id = i

WaitInv == \A r, s \in Replicas : \A i \in 0 .. MaxProcesses :
    Expected(r, s, i) => WaitsFor(r, s, i)

\* The only sender to a replica that runs is the one its rebuild waits for; one
\* that is connected is so to a listener that was not served.
Connected(h, j) == j \in Ids(h) /\ Fresh(h, j) /\ processes[h][j].state = "running"

\* Process i of s is a sender to h, and its connection is j
SendsTo(s, i, h, j) == Live(s, i) /\ processes[s][i].host = h /\ processes[s][i].peer = j

SenderInv == \A s, h \in Replicas : \A i \in Ids(s) : \A j \in -1 .. MaxProcesses :
    SendsTo(s, i, h, j) => /\ up[h] => Expected(h, s, i)
                           /\ j # -1
                           /\ j > 0 => Connected(h, j)

\* The only listener that was not served is the one for the file being copied.
ListenerOf(r) == \A j \in Ids(r) : Fresh(r, j) =>
    /\ task[r].phase \in {"received", "sent", "polling"}
    /\ processes[r][j].file = task[r].file
    /\ \A k \in Ids(r) : Fresh(r, k) => k = j

ListenerInv == \A r \in Replicas : ListenerOf(r)

CopyInv == AgentInv /\ RoleInv /\ WaitInv /\ SenderInv /\ ListenerInv

-----------------------------------------------------------------------------
(* The invariant of the rebuild: steps of one process                      *)

\* q becomes p, as far as a rebuild can tell
Harmless(q, p) ==
    /\ p.kind = q.kind /\ p.file = q.file /\ p.host = q.host
    /\ Ended(q) => Ended(p)
    /\ ~Ended(p) => p.peer = q.peer
    /\ p.state = "registered" => q.state = "registered"
    /\ q.kind = "send" /\ p.state = "exited" /\ p.exit = 0 => q.state = "exited" /\ q.exit = 0

\* InTable: a process in the table of an agent (Server.processes).
LEMMA InTable ==
    ASSUME AgentInv, NEW s \in Replicas, NEW i \in Ids(s)
    PROVE  /\ i \in 1 .. MaxProcesses /\ i \in 0 .. MaxProcesses /\ i \in -1 .. MaxProcesses
           /\ processes[s][i] \in Processes /\ WellFormed(processes[s][i])
  BY AgentAssumption DEF AgentInv, TypeOK, TableInv, TableOf, Ids

\* SenderIs: a sender that may still send has a replica to send to.
LEMMA SenderIs ==
    ASSUME AgentInv, NEW s \in Replicas, NEW i \in Ids(s), Live(s, i)
    PROVE  \E h \in Replicas, j \in -1 .. MaxProcesses : SendsTo(s, i, h, j)
  <1>1. processes[s][i] \in Processes /\ WellFormed(processes[s][i])
    BY DEF AgentInv, TypeOK, TableInv, TableOf, Ids
  <1>2. processes[s][i].host \in Replicas /\ processes[s][i].peer \in -1 .. MaxProcesses
    BY <1>1, Zenon DEF Processes, WellFormed, Live
  <1>3. QED
    BY <1>2, Zenon DEF SendsTo

\* HarmlessKeeps: processes that move on by themselves, none of them a listener that
\* a sender is connected to.
LEMMA HarmlessKeeps ==
    ASSUME CopyInv, AgentInv', UNCHANGED <<up, role, content, task>>,
           \A s \in Replicas : Ids(s)' = Ids(s),
           \A s \in Replicas : \A k \in Ids(s) : Harmless(processes[s][k], processes'[s][k]),
           \A s, h \in Replicas : \A i \in Ids(s), j \in Ids(h) :
             SendsTo(s, i, h, j) /\ Connected(h, j) => processes'[h][j].state = "running"
    PROVE  CopyInv'
  <1>1. RoleInv'
    BY DEF CopyInv, RoleInv, RoleOf, Busy, Complete
  <1>2. ASSUME NEW r \in Replicas, NEW j \in Ids(r), Fresh(r, j)'
        PROVE  Fresh(r, j)
    BY <1>2, Zenon DEF Fresh, Harmless
  <1>3. ASSUME NEW r \in Replicas, NEW s \in Replicas, NEW i \in 0 .. MaxProcesses, Expected(r, s, i)'
        PROVE  WaitsFor(r, s, i)'
    <2>1. Expected(r, s, i)
      BY <1>3, Zenon DEF Expected
    <2>2. WaitsFor(r, s, i)
      BY <2>1, Zenon DEF CopyInv, WaitInv
    <2>3. NoneFresh(r) => NoneFresh(r)'
      BY <1>2, Zenon DEF NoneFresh
    <2>4. QED
      BY <2>2, <2>3 DEF WaitsFor, Harmless
  <1>4. ASSUME NEW s \in Replicas, NEW h \in Replicas, NEW i \in Ids(s), NEW j \in -1 .. MaxProcesses,
               SendsTo(s, i, h, j)'
        PROVE  /\ up'[h] => Expected(h, s, i)'
               /\ j # -1
               /\ j > 0 => Connected(h, j)'
    <2>1. SendsTo(s, i, h, j)
      BY <1>4, Zenon DEF SendsTo, Live, Harmless
    <2>2. (up[h] => Expected(h, s, i)) /\ j # -1 /\ (j > 0 => Connected(h, j))
      BY <2>1, Zenon DEF CopyInv, SenderInv
    <2>3. ASSUME j > 0
          PROVE  Connected(h, j)'
      <3>1. j \in Ids(h) /\ Fresh(h, j) /\ processes'[h][j].state = "running"
        BY <2>1, <2>2, <2>3, Zenon DEF Connected
      <3>2. Harmless(processes[h][j], processes'[h][j])
        BY <3>1, Zenon
      <3>3. Fresh(h, j)'
        BY <3>1, <3>2, Zenon DEF Fresh, Harmless, Ended
      <3>4. QED
        BY <3>1, <3>3, Zenon DEF Connected
    <2>4. up'[h] => Expected(h, s, i)'
      BY <2>2, Zenon DEF Expected
    <2>5. QED
      BY <2>2, <2>3, <2>4, Zenon
  <1>5. WaitInv' /\ SenderInv'
    BY <1>3, <1>4, Zenon DEF WaitInv, SenderInv
  <1>6. ListenerInv'
    BY <1>2 DEF CopyInv, ListenerInv, ListenerOf, Harmless
  <1>7. QED
    BY <1>1, <1>5, <1>6, Zenon DEF CopyInv

\* MoveCopies: a process that moves on by itself (CreateProcess, launch, ssync).
LEMMA MoveCopies ==
    ASSUME CopyInv, NEW r \in Replicas, NEW i \in Ids(r), Moves(r, i)
    PROVE  CopyInv'
  <1>1. AgentInv /\ AgentInv'
    BY MoveKeeps, Zenon DEF CopyInv
  <1>2. PICK p \in Processes :
          /\ processes' = [processes EXCEPT ![r][i] = p]
          /\ MovesTo(processes[r][i], p)
          /\ processes[r][i].kind = "listen" /\ Ended(p) =>
               processes[r][i].state = "created" \/ Senders(r, i) = {}
    BY <1>1, MoveIs, Zenon
  <1>3. UNCHANGED <<up, role, content, task>>
    BY <1>1, MoveIs, Zenon
  <1>4. /\ \A s \in Replicas : Ids(s)' = Ids(s)
        /\ processes'[r][i] = p
        /\ \A s \in Replicas : \A k \in Ids(s) : s # r \/ k # i => processes'[s][k] = processes[s][k]
    BY <1>1, <1>2 DEF AgentInv, TypeOK, Ids
  <1>5. Harmless(processes[r][i], p)
    BY <1>2, Zenon DEF MovesTo, Progress, Harmless, Ended
  <1>6. \A s \in Replicas : \A k \in Ids(s) : Harmless(processes[s][k], processes'[s][k])
    BY <1>4, <1>5, Zenon DEF Harmless
  <1>7. ASSUME NEW s \in Replicas, NEW h \in Replicas, NEW k \in Ids(s), NEW j \in Ids(h),
               SendsTo(s, k, h, j), Connected(h, j)
        PROVE  processes'[h][j].state = "running"
    <2>1. processes[s][k].state = "running"
      <3>1. WellFormed(processes[s][k]) /\ j > 0
        BY <1>1 DEF AgentInv, TableInv, TableOf, Ids
      <3>2. QED
        BY <1>7, <3>1, Zenon DEF SendsTo, WellFormed
    <2>2. <<s, k>> \in Senders(h, j)
      BY <1>7, <2>1 DEF Senders, Sending, SendsTo, Live
    <2>3. processes[h][j].state = "running" /\ processes[h][j].kind = "listen"
      BY <1>7, Zenon DEF Connected, Fresh
    <2>4. ASSUME h = r, j = i
          PROVE  FALSE
      <3>1. processes[r][i].kind = "listen" /\ processes[r][i].state = "running"
        BY <2>3, <2>4, Zenon
      <3>2. Ended(p)
        BY <1>2, <3>1, Zenon DEF MovesTo, Ended
      <3>3. Senders(r, i) = {}
        BY <1>2, <3>1, <3>2, Zenon
      <3>4. QED
        BY <2>2, <2>4, <3>3, Zenon
    <2>5. processes'[h][j] = processes[h][j]
      BY <1>4, <2>4, Zenon
    <2>6. QED
      BY <2>3, <2>5, Zenon
  <1>8. QED
    BY <1>1, <1>3, <1>4, <1>6, <1>7, HarmlessKeeps, Zenon

\* GiveBackCopies: a port is given back (CreateProcess).
LEMMA GiveBackCopies ==
    ASSUME CopyInv, NEW r \in Replicas, NEW i \in Ids(r), GiveBack(r, i)
    PROVE  CopyInv'
  <1>1. /\ AgentInv' /\ \A s \in Replicas : Ids(s)' = Ids(s)
        /\ \A s \in Replicas : \A k \in Ids(s) :
             /\ processes'[s][k].kind = processes[s][k].kind
             /\ processes'[s][k].state = processes[s][k].state
             /\ processes'[s][k].peer = processes[s][k].peer
             /\ processes'[s][k].exit = processes[s][k].exit
             /\ processes'[s][k].file = processes[s][k].file
             /\ processes'[s][k].host = processes[s][k].host
    BY GiveBackKeeps, Zenon DEF CopyInv
  <1>2. UNCHANGED <<up, role, content, task>>
    BY Zenon DEF GiveBack, clients
  <1>3. \A s \in Replicas : \A k \in Ids(s) : Harmless(processes[s][k], processes'[s][k])
    BY <1>1, Zenon DEF Harmless, Ended
  <1>4. \A s, h \in Replicas : \A k \in Ids(s), j \in Ids(h) :
          SendsTo(s, k, h, j) /\ Connected(h, j) => processes'[h][j].state = "running"
    BY <1>1, Zenon DEF Connected
  <1>5. QED
    BY <1>1, <1>2, <1>3, <1>4, HarmlessKeeps, Zenon

\* Reaches: when a sender is at, or finds, a listener that nobody has served, that
\* is the sender the rebuild waits for, and the listener is the one for its file;
\* only the copy of that file is ever written (ssync, SendFile).
LEMMA Reaches ==
    ASSUME CopyInv, NEW s \in Replicas, NEW h \in Replicas, NEW i \in Ids(s),
           NEW c \in -1 .. MaxProcesses, SendsTo(s, i, h, c), NEW j \in Ids(h), Fresh(h, j)
    PROVE  /\ up[h] /\ Busy(h) /\ h # s /\ Expected(h, s, i)
           /\ processes[h][j].file = task[h].file /\ processes[s][i].file = task[h].file
           /\ task[h].file \in Files /\ Complete(s)
           /\ \A r \in Replicas : Busy(r) => r = h
           /\ \A k \in Ids(h) : Fresh(h, k) => k = j
  <1>1. AgentInv /\ RoleOf(h) /\ TaskOf(h) /\ TableOf(h) /\ ListenerOf(h)
    BY Zenon DEF CopyInv, AgentInv, RoleInv, TaskInv, TableInv, ListenerInv
  <1>2. up[h]
    <2>1. Ids(h) # {}
      BY Zenon
    <2>2. processes[h] # <<>>
      BY <2>1, NoProcess DEF Ids
    <2>3. QED
      BY <1>1, <2>2, Zenon DEF TableOf
  <1>3. Expected(h, s, i)
    BY <1>2, Zenon DEF CopyInv, SenderInv
  <1>4. Busy(h)
    BY <1>3, Zenon DEF Expected, Busy
  <1>5. h # s /\ task[h].file \in Files /\ Complete(s) /\ \A r \in Replicas : Busy(r) => r = h
    BY <1>1, <1>3, <1>4, Zenon DEF TaskOf, RoleOf, Expected
  <1>6. processes[h][j].file = task[h].file /\ \A k \in Ids(h) : Fresh(h, k) => k = j
    BY <1>1, Zenon DEF ListenerOf
  <1>7. processes[s][i].file = task[h].file
    <2>1. i \in 0 .. MaxProcesses
      BY <1>1, InTable, Zenon
    <2>2. WaitsFor(h, s, i)
      BY <1>3, <2>1, Zenon DEF CopyInv, WaitInv
    <2>3. QED
      BY <2>2, Zenon DEF WaitsFor
  <1>8. QED
    BY <1>2, <1>3, <1>4, <1>5, <1>6, <1>7, Zenon

\* RolesKeep: the roles, when only the copy of the file that the one rebuild is at
\* is written.
LEMMA RolesKeep ==
    ASSUME CopyInv, NEW h \in Replicas, Busy(h), NEW v,
           \A r \in Replicas : Busy(r) => r = h,
           content' = [content EXCEPT ![h][task[h].file] = v], UNCHANGED <<up, role, task>>
    PROVE  RoleInv'
  <1>1. TypeOK /\ RoleInv /\ TaskOf(h)
    BY Zenon DEF CopyInv, AgentInv, TaskInv
  <1>2. /\ \A r \in Replicas \ {h} : content'[r] = content[r]
        /\ \A f \in Files \ {task[h].file} : content'[h][f] = content[h][f]
    BY <1>1, Zenon DEF TypeOK
  <1>3. \A r \in Replicas : Busy(r)' <=> Busy(r)
    BY Zenon DEF Busy
  <1>4. ASSUME NEW r \in Replicas, role'[r] = "RW"
        PROVE  up'[r] /\ ~Busy(r)' /\ Complete(r)'
    <2>1. up[r] /\ ~Busy(r) /\ Complete(r)
      BY <1>1, <1>4, Zenon DEF RoleInv, RoleOf
    <2>2. r # h
      BY <2>1, Zenon
    <2>3. QED
      BY <1>2, <1>3, <2>1, <2>2, Zenon DEF Complete
  <1>5. RoleOf(h)'
    <2>1. /\ role[h] # "RW" /\ RoleOf(h)
          /\ task[h].file \in Files /\ task[h].from \in Replicas \ {h}
      BY <1>1, Zenon DEF RoleInv, RoleOf, TaskOf
    <2>2. \A f \in 1 .. task[h].file - 1 : f \in Files /\ f # task[h].file
      BY <2>1, AgentAssumption DEF Files
    <2>3. \A f \in 1 .. task'[h].file - 1 : content'[h][f] = f
      BY <1>2, <2>1, <2>2, Zenon DEF RoleOf
    <2>4. ASSUME NEW s \in Replicas, task'[h].from = s
          PROVE  Complete(s)'
      BY <1>2, <2>1, <2>4 DEF RoleOf, Complete
    <2>5. QED
      BY <1>3, <2>1, <2>3, <2>4, Zenon DEF RoleOf
  <1>6. \A r \in Replicas \ {h} : RoleOf(r)'
    BY <1>3, <1>4, Zenon DEF RoleOf
  <1>7. QED
    BY <1>5, <1>6, Zenon DEF RoleInv

\* ConnectCopies: a sender connects to a listener (ssync).
LEMMA ConnectCopies ==
    ASSUME CopyInv, NEW s \in Replicas, NEW i \in Ids(s), NEW h \in Replicas,
           processes[s][i].kind = "send", processes[s][i].host = h,
           NEW j \in Ids(h), Connect(s, i, j)
    PROVE  CopyInv'
  <1> DEFINE p == WithPeer(processes[s][i], j)
  <1>1. AgentInv /\ AgentInv'
    BY ConnectKeeps, Zenon DEF CopyInv
  <1>2. /\ processes' = [processes EXCEPT ![s][i] = p]
        /\ p \in Processes
        /\ content' = [content EXCEPT ![h][processes[h][j].file] = 0]
    <2>1. /\ processes' = [processes EXCEPT ![s][i] = WithPeer(processes[s][i], j)]
          /\ WithPeer(processes[s][i], j) \in Processes
      <3>1. TypeOK /\ processes[s][i] \in Processes /\ j \in -1 .. MaxProcesses
        BY <1>1, InTable, Zenon DEF AgentInv
      <3>2. WithPeer(processes[s][i], j) \in Processes
        BY <3>1, PeerIs, Zenon
      <3>3. processes' = [processes EXCEPT ![s][i] = WithPeer(processes[s][i], j)]
        BY <3>1, Zenon DEF Connect, WithPeer, TypeOK, Ids
      <3>4. QED
        BY <3>2, <3>3, Zenon
    <2>2. content' = [content EXCEPT ![h][processes[h][j].file] = 0]
      BY Zenon DEF Connect
    <2>3. QED
      BY <2>1, <2>2, Zenon
  <1>3. /\ SendsTo(s, i, h, 0) /\ Fresh(h, j) /\ processes[h][j].state = "running"
        /\ processes[s][i].state = "running"
        /\ UNCHANGED <<up, role, task>>
    BY Zenon DEF Connect, Sending, SendsTo, Live, Fresh, Ended, clients
  <1>4. /\ up[h] /\ Busy(h) /\ h # s /\ Expected(h, s, i)
        /\ processes[h][j].file = task[h].file
        /\ \A r \in Replicas : Busy(r) => r = h
    BY <1>3, AgentAssumption, Reaches
  <1>5. /\ p.kind = "send" /\ p.file = processes[s][i].file /\ p.host = h
        /\ p.state = "running" /\ p.peer = j
    <2>1. processes[s][i] \in Processes /\ j \in -1 .. MaxProcesses
      BY <1>1, InTable, Zenon
    <2>2. QED
      BY <1>3, <2>1, PeerIs, Zenon DEF Progress
  <1> HIDE DEF p
  <1>6. /\ \A r \in Replicas : Ids(r)' = Ids(r)
        /\ processes'[s][i] = p
        /\ \A r \in Replicas : \A k \in Ids(r) : r # s \/ k # i => processes'[r][k] = processes[r][k]
    <2>1. TypeOK
      BY <1>1, Zenon DEF AgentInv
    <2>2. QED
      BY <1>2, <2>1 DEF TypeOK, Ids
  <1>7. RoleInv'
    BY <1>2, <1>3, <1>4, RolesKeep, Zenon
  <1>8. \A r \in Replicas : \A k \in Ids(r) :
          /\ Fresh(r, k)' <=> Fresh(r, k)
          /\ processes'[r][k].kind = processes[r][k].kind
          /\ processes'[r][k].file = processes[r][k].file
          /\ processes'[r][k].host = processes[r][k].host
          /\ processes'[r][k].state = processes[r][k].state
    <2>1. ~Fresh(s, i)' /\ ~Fresh(s, i)
      BY <1>3, <1>5, <1>6, Zenon DEF Fresh, SendsTo, Live
    <2>2. /\ processes'[s][i].kind = processes[s][i].kind
          /\ processes'[s][i].file = processes[s][i].file
          /\ processes'[s][i].host = processes[s][i].host
          /\ processes'[s][i].state = processes[s][i].state
      BY <1>3, <1>5, <1>6, Zenon DEF SendsTo, Live
    <2>3. ASSUME NEW r \in Replicas, NEW k \in Ids(r), r # s \/ k # i
          PROVE  processes'[r][k] = processes[r][k] /\ (Fresh(r, k)' <=> Fresh(r, k))
      BY <1>6, <2>3, Zenon DEF Fresh
    <2>4. QED
      BY <2>1, <2>2, <2>3, Zenon
  <1>9. ASSUME NEW r \in Replicas, NEW q \in Replicas, NEW k \in 0 .. MaxProcesses, Expected(r, q, k)'
        PROVE  WaitsFor(r, q, k)'
    <2>1. Expected(r, q, k) /\ Busy(r)
      BY <1>3, <1>9, Zenon DEF Expected, Busy
    <2>2. r = h /\ q = s /\ k = i
      BY <1>4, <2>1, Zenon DEF Expected
    <2>3. WaitsFor(h, s, i)
      BY <2>1, <2>2, Zenon DEF CopyInv, WaitInv
    <2>4. WaitsFor(h, s, i)'
      BY <1>3, <1>5, <1>6, <2>3, Zenon DEF WaitsFor
    <2>5. QED
      BY <2>2, <2>4, Zenon
  <1>10. ASSUME NEW q \in Replicas, NEW g \in Replicas, NEW k \in Ids(q), NEW l \in -1 .. MaxProcesses,
                SendsTo(q, k, g, l)'
         PROVE  /\ up'[g] => Expected(g, q, k)'
                /\ l # -1
                /\ l > 0 => Connected(g, l)'
    <2>1. \A r \in Replicas : \A m \in Ids(r) : Connected(r, m) => Connected(r, m)'
      BY <1>6, <1>8 DEF Connected
    <2>2. CASE q = s /\ k = i
      <3>1. g = h /\ l = j
        BY <1>5, <1>6, <1>10, <2>2, Zenon DEF SendsTo
      <3>2. Connected(h, j) /\ j \in Int /\ j > 0
        BY <1>3 DEF Connected, Ids
      <3>3. Connected(h, j)'
        BY <2>1, <3>2, Zenon
      <3>4. QED
        BY <1>3, <1>4, <2>2, <3>1, <3>2, <3>3 DEF Expected
    <2>3. CASE q # s \/ k # i
      <3>1. SendsTo(q, k, g, l)
        BY <1>6, <1>10, <2>3, Zenon DEF SendsTo, Live
      <3>2. (up[g] => Expected(g, q, k)) /\ l # -1 /\ (l > 0 => Connected(g, l))
        BY <3>1, Zenon DEF CopyInv, SenderInv
      <3>3. l > 0 => Connected(g, l)'
        BY <2>1, <3>2, Zenon DEF Connected
      <3>4. QED
        BY <1>3, <3>2, <3>3, Zenon DEF Expected
    <2>4. QED
      BY <2>2, <2>3, Zenon
  <1>11. WaitInv' /\ SenderInv'
    BY <1>6, <1>9, <1>10, Zenon DEF WaitInv, SenderInv
  <1>12. ListenerInv'
    BY <1>3, <1>6, <1>8 DEF CopyInv, ListenerInv, ListenerOf
  <1>13. QED
    BY <1>1, <1>7, <1>11, <1>12, Zenon DEF CopyInv

\* TransferCopies: a sender is done; it is the only one at its listener, which now
\* holds the file of the source (ssync).
LEMMA TransferCopies ==
    ASSUME CopyInv, NEW s \in Replicas, NEW i \in Ids(s), Transfer(s, i)
    PROVE  CopyInv'
  <1>1. AgentInv /\ AgentInv' /\ \A r \in Replicas : Ids(r)' = Ids(r)
    BY TransferKeeps, Zenon DEF CopyInv
  <1>2. /\ processes' = [r \in Replicas |-> [k \in Ids(r) |-> Served(s, i, r, k)]]
        /\ UNCHANGED <<up, role, task>>
    BY <1>1, TransferIs, Zenon
  <1>3. Sending(s, i) /\ Live(s, i) /\ processes[s][i].peer > 0
    BY Zenon DEF Transfer, Sending, Live, Ended
  <1>4. PICK h \in Replicas, j \in -1 .. MaxProcesses : SendsTo(s, i, h, j)
    BY <1>1, <1>3, SenderIs, Zenon
  <1>5. processes[s][i].host = h /\ processes[s][i].peer = j /\ Connected(h, j)
    BY <1>3, <1>4, Zenon DEF SendsTo, CopyInv, SenderInv
  <1>6. j \in Ids(h) /\ Fresh(h, j) /\ processes[h][j].state = "running"
    BY <1>5, Zenon DEF Connected
  <1>7. /\ up[h] /\ Busy(h) /\ h # s /\ Expected(h, s, i)
        /\ processes[h][j].file = task[h].file /\ processes[s][i].file = task[h].file
        /\ task[h].file \in Files /\ Complete(s)
        /\ \A r \in Replicas : Busy(r) => r = h
        /\ \A k \in Ids(h) : Fresh(h, k) => k = j
    BY <1>4, <1>6, Reaches, Zenon
  <1>8. ASSUME NEW q \in Replicas, NEW k \in Ids(q), NEW l \in -1 .. MaxProcesses, SendsTo(q, k, h, l)
        PROVE  q = s /\ k = i
    BY <1>7, <1>8, Zenon DEF CopyInv, SenderInv, Expected
  <1>9. Senders(h, j) \subseteq {<<s, i>>}
    <2>1. SUFFICES ASSUME NEW q \in Replicas, NEW k \in Ids(q), Sending(q, k),
                          processes[q][k].host = h, processes[q][k].peer = j
                   PROVE  q = s /\ k = i
      BY DEF Senders
    <2>2. SendsTo(q, k, h, j)
      BY <2>1, Zenon DEF SendsTo, Live, Sending, Ended
    <2>3. QED
      BY <1>8, <2>2, Zenon
  <1>10. /\ processes'[h][j] = WithPeer(processes[h][j], -1)
         /\ processes'[s][i] = Exited(processes[s][i], 0)
         /\ \A r \in Replicas : \A k \in Ids(r) :
              (r = h /\ k = j) \/ (r = s /\ k = i) \/ processes'[r][k] = processes[r][k]
    <2>1. \A r \in Replicas : \A k \in Ids(r) : processes'[r][k] = Served(s, i, r, k)
      BY <1>2, Zenon
    <2>2. \A r \in Replicas : \A k \in Ids(r) : <<r, k>> \in Senders(h, j) => r = s /\ k = i
      BY <1>9, Zenon
    <2>3. Served(s, i, h, j) = WithPeer(processes[h][j], -1)
      BY <1>5, Zenon DEF Served
    <2>4. Served(s, i, s, i) = Exited(processes[s][i], 0)
      BY <1>5, <1>7, Zenon DEF Served
    <2>5. ASSUME NEW r \in Replicas, NEW k \in Ids(r), ~(r = h /\ k = j), ~(r = s /\ k = i)
          PROVE  Served(s, i, r, k) = processes[r][k]
      BY <1>5, <2>2, <2>5, Zenon DEF Served
    <2>6. processes'[h][j] = WithPeer(processes[h][j], -1)
      BY <1>6, <2>1, <2>3, Zenon
    <2>7. processes'[s][i] = Exited(processes[s][i], 0)
      BY <2>1, <2>4, Zenon
    <2>8. ASSUME NEW r \in Replicas, NEW k \in Ids(r), ~(r = h /\ k = j), ~(r = s /\ k = i)
          PROVE  processes'[r][k] = processes[r][k]
      BY <2>1, <2>5, <2>8, Zenon
    <2>9. QED
      BY <2>6, <2>7, <2>8, Zenon
  <1>11. content' = [content EXCEPT ![h][task[h].file] = task[h].file]
    <2> DEFINE sent(x) == content[x[1]][processes[x[1]][x[2]].file]
    <2>1. content' = [content EXCEPT ![h][task[h].file] =
                        IF \A x \in Senders(h, j) \ {<<s, i>>} : sent(x) = sent(<<s, i>>)
                        THEN sent(<<s, i>>) ELSE 0]
      BY <1>5, <1>7, Zenon DEF Transfer
    <2>2. sent(<<s, i>>) = task[h].file
      BY <1>7, Zenon DEF Complete
    <2>3. Senders(h, j) \ {<<s, i>>} = {}
      BY <1>9, Zenon
    <2> HIDE DEF sent
    <2>4. QED
      BY <2>1, <2>2, <2>3, Zenon
  <1>12. RoleInv'
    BY <1>2, <1>7, <1>11, RolesKeep, Zenon
  <1>13. /\ ~Fresh(h, j)' /\ ~Live(s, i)' /\ ~Live(h, j)' /\ ~Fresh(s, i)'
         /\ processes'[s][i].kind = "send" /\ processes'[s][i].host = h
         /\ processes'[s][i].file = task[h].file
         /\ processes'[s][i].state = "exited"
    <2>1. processes[s][i] \in Processes /\ processes[h][j] \in Processes /\ -1 \in -1 .. MaxProcesses
      <3>1. -1 \in -1 .. MaxProcesses
        BY AgentAssumption
      <3>2. QED
        BY <1>1, <1>6, <3>1, InTable, Zenon
    <2>2. /\ Progress(processes[s][i], Exited(processes[s][i], 0))
          /\ Exited(processes[s][i], 0).state = "exited"
      BY <2>1, ExitedIs, Zenon
    <2>3. /\ Progress(processes[h][j], WithPeer(processes[h][j], -1))
          /\ WithPeer(processes[h][j], -1).peer = -1
      BY <2>1, PeerIs, Zenon
    <2>4. processes[h][j].kind = "listen" /\ processes[s][i].kind = "send"
      BY <1>3, <1>6, Zenon DEF Fresh, Live
    <2>5. QED
      <3>1. processes'[h][j].kind = "listen" /\ processes'[h][j].peer = -1
        BY <1>10, <2>3, <2>4, Zenon DEF Progress
      <3>2. /\ processes'[s][i].kind = "send" /\ processes'[s][i].state = "exited"
            /\ processes'[s][i].host = processes[s][i].host
            /\ processes'[s][i].file = processes[s][i].file
        BY <1>10, <2>2, <2>4, Zenon DEF Progress
      <3>3. ~Fresh(h, j)' /\ ~Live(h, j)'
        BY <3>1 DEF Fresh, Live
      <3>4. ~Fresh(s, i)' /\ ~Live(s, i)'
        BY <3>2, Zenon DEF Fresh, Live, Ended
      <3>5. QED
        BY <1>5, <1>7, <3>2, <3>3, <3>4, Zenon
  <1>14. \A r \in Replicas : \A k \in Ids(r) :
           Fresh(r, k)' => Fresh(r, k) /\ processes'[r][k] = processes[r][k]
    BY <1>10, <1>13, Zenon DEF Fresh
  <1>15. NoneFresh(h)'
    BY <1>1, <1>7, <1>13, <1>14, Zenon DEF NoneFresh
  <1>16. ASSUME NEW r \in Replicas, NEW q \in Replicas, NEW k \in 0 .. MaxProcesses, Expected(r, q, k)'
         PROVE  WaitsFor(r, q, k)'
    <2>1. Expected(r, q, k) /\ Busy(r)
      BY <1>2, <1>16, Zenon DEF Expected, Busy
    <2>2. r = h /\ q = s /\ k = i
      BY <1>7, <2>1, Zenon DEF Expected
    <2>3. content'[h][task[h].file] = task[h].file
      BY <1>1, <1>7, <1>11, Zenon DEF AgentInv, TypeOK
    <2>4. WaitsFor(h, s, i)'
      BY <1>1, <1>2, <1>13, <1>15, <2>3, Zenon DEF WaitsFor
    <2>5. QED
      BY <2>2, <2>4, Zenon
  <1>17. ASSUME NEW q \in Replicas, NEW g \in Replicas, NEW k \in Ids(q), NEW l \in -1 .. MaxProcesses,
                SendsTo(q, k, g, l)'
         PROVE  /\ up'[g] => Expected(g, q, k)'
                /\ l # -1
                /\ l > 0 => Connected(g, l)'
    <2>1. ~(q = s /\ k = i) /\ processes'[q][k] = processes[q][k]
      BY <1>10, <1>13, <1>17, Zenon DEF SendsTo
    <2>2. SendsTo(q, k, g, l)
      BY <1>17, <2>1, Zenon DEF SendsTo, Live
    <2>3. (up[g] => Expected(g, q, k)) /\ l # -1 /\ (l > 0 => Connected(g, l))
      BY <2>2, Zenon DEF CopyInv, SenderInv
    <2>4. g # h
      BY <1>8, <2>1, <2>2, Zenon
    <2>5. ASSUME l > 0
          PROVE  Connected(g, l)'
      <3>1. l \in Ids(g) /\ Fresh(g, l) /\ processes[g][l].state = "running"
        BY <2>3, <2>5, Zenon DEF Connected
      <3>2. ~(g = s /\ l = i)
        BY <1>3, <3>1, Zenon DEF Fresh, Live
      <3>3. processes'[g][l] = processes[g][l]
        BY <1>10, <2>4, <3>1, <3>2, Zenon
      <3>4. QED
        BY <1>1, <3>1, <3>3, Zenon DEF Connected, Fresh
    <2>6. QED
      BY <1>2, <2>3, <2>5, Zenon DEF Expected
  <1>18. WaitInv' /\ SenderInv'
    BY <1>1, <1>16, <1>17, Zenon DEF WaitInv, SenderInv
  <1>19. ListenerInv'
    BY <1>1, <1>2, <1>14 DEF CopyInv, ListenerInv, ListenerOf
  <1>20. QED
    BY <1>1, <1>12, <1>18, <1>19, Zenon DEF CopyInv

-----------------------------------------------------------------------------
(* The invariant of the rebuild: crash, restart and election               *)

\* EndCopies: the end of a replica (Task.AddReplica, a crash).
LEMMA EndCopies ==
    ASSUME CopyInv, NEW r \in Replicas, End(r), crashes' \in 0 .. MaxCrashes
    PROVE  CopyInv'
  <1>1. AgentInv /\ AgentInv' /\ \A s \in Replicas \ {r} : Ids(s)' = Ids(s)
    BY EndKeeps, Zenon DEF CopyInv
  <1>2. /\ processes'[r] = <<>>
        /\ \A s \in Replicas \ {r} :
             processes'[s] = [i \in Ids(s) |->
               IF Sending(s, i) /\ processes[s][i].host = r /\ processes[s][i].peer # 0
               THEN Exited(processes[s][i], 1) ELSE processes[s][i]]
    BY <1>1, EndIs, Zenon
  <1>3. Ids(r)' = {}
    BY <1>2, NoProcess DEF Ids
  <1>4. /\ content' = content /\ up'[r] = FALSE /\ role'[r] = "new" /\ ~Busy(r)'
        /\ \A s \in Replicas \ {r} : up'[s] = up[s] /\ role'[s] = role[s] /\ task'[s] = task[s]
    BY <1>1, Zenon DEF End, AgentInv, TypeOK, Busy, Idle
  <1>5. ASSUME NEW s \in Replicas \ {r}, NEW i \in Ids(s)
        PROVE  \/ processes'[s][i] = processes[s][i]
               \/ /\ Sending(s, i) /\ processes[s][i].host = r
                  /\ ~Live(s, i)' /\ ~Fresh(s, i)'
    <2>1. processes[s][i] \in Processes
      BY <1>1, InTable, Zenon
    <2>2. Exited(processes[s][i], 1).state = "exited"
      BY <2>1, ExitedIs, Zenon
    <2>3. QED
      BY <1>2, <2>2, Zenon DEF Live, Fresh, Ended
  <1>13. ASSUME NEW s \in Replicas \ {r}, NEW i \in Ids(s),
                Sending(s, i) /\ processes[s][i].host = r /\ processes[s][i].peer # 0
         PROVE  ~Live(s, i)'
    <2>0. processes'[s][i] = IF Sending(s, i) /\ processes[s][i].host = r /\ processes[s][i].peer # 0
                             THEN Exited(processes[s][i], 1) ELSE processes[s][i]
      BY <1>2, Zenon
    <2>1. processes'[s][i] = Exited(processes[s][i], 1)
      BY <1>13, <2>0, Zenon
    <2>2. processes[s][i] \in Processes
      BY <1>1, InTable
    <2>3. QED
      BY <2>1, <2>2, ExitedIs, Zenon DEF Live, Ended
  <1>6. ASSUME NEW s \in Replicas \ {r}, NEW i \in Ids(s)
        PROVE  /\ Fresh(s, i)' <=> Fresh(s, i)
               /\ processes[s][i].kind = "listen" => processes'[s][i] = processes[s][i]
    BY <1>5, Zenon DEF Fresh, Sending
  <1>7. RoleInv'
    <2>1. ASSUME NEW s \in Replicas \ {r}
          PROVE  RoleOf(s)'
      <3>1. RoleOf(s) /\ (Busy(s)' <=> Busy(s)) /\ \A q \in Replicas : Busy(q)' => Busy(q)
        BY <1>4, Zenon DEF CopyInv, RoleInv, Busy
      <3>2. QED
        BY <1>4, <3>1, Zenon DEF RoleOf, Complete
    <2>2. RoleOf(r)'
      BY <1>4, Zenon DEF RoleOf
    <2>3. QED
      BY <2>1, <2>2, Zenon DEF RoleInv
  <1>8. ASSUME NEW w \in Replicas, NEW s \in Replicas, NEW i \in 0 .. MaxProcesses, Expected(w, s, i)'
        PROVE  WaitsFor(w, s, i)'
    <2>1. w # r
      BY <1>4, <1>8, Zenon DEF Expected, Busy
    <2>2. Expected(w, s, i)
      BY <1>4, <1>8, <2>1, Zenon DEF Expected
    <2>3. WaitsFor(w, s, i)
      BY <2>2, Zenon DEF CopyInv, WaitInv
    <2>4. CASE s = r
      BY <1>3, <1>4, <2>4, Zenon DEF WaitsFor
    <2>5. CASE s # r
      <3>1. NoneFresh(w) => NoneFresh(w)'
        BY <1>1, <1>6, <2>1, Zenon DEF NoneFresh
      <3>2. i \in Ids(s) => processes'[s][i] = processes[s][i]
        BY <1>5, <2>1, <2>3, <2>5, Zenon DEF WaitsFor
      <3>3. QED
        BY <1>1, <1>4, <2>1, <2>3, <2>5, <3>1, <3>2, Zenon DEF WaitsFor
    <2>6. QED
      BY <2>4, <2>5, Zenon
  <1>9. ASSUME NEW s \in Replicas, NEW h \in Replicas, NEW i \in Ids(s)', NEW j \in -1 .. MaxProcesses,
               SendsTo(s, i, h, j)'
        PROVE  /\ up'[h] => Expected(h, s, i)'
               /\ j # -1
               /\ j > 0 => Connected(h, j)'
    <2>1. s # r /\ i \in Ids(s)
      BY <1>1, <1>3, <1>9, Zenon
    <2>2. processes'[s][i] = processes[s][i]
      BY <1>5, <1>9, <2>1, Zenon DEF SendsTo
    <2>3. SendsTo(s, i, h, j)
      BY <1>9, <2>2, Zenon DEF SendsTo, Live
    <2>4. (up[h] => Expected(h, s, i)) /\ j # -1 /\ (j > 0 => Connected(h, j))
      BY <2>1, <2>3, Zenon DEF CopyInv, SenderInv
    <2>5. up'[h] => Expected(h, s, i)'
      BY <1>4, <2>4, Zenon DEF Expected
    <2>6. ASSUME j > 0
          PROVE  Connected(h, j)'
      <3>1. j \in Ids(h) /\ Fresh(h, j) /\ processes[h][j].state = "running"
        BY <2>4, <2>6, Zenon DEF Connected
      <3>2. h # r
        <4>1. SUFFICES ASSUME h = r
                       PROVE  FALSE
          BY Zenon
        <4>2. WellFormed(processes[s][i]) /\ processes[s][i] \in Processes
          BY <1>1, <2>1, InTable, Zenon
        <4>3. Sending(s, i) /\ processes[s][i].host = r /\ processes[s][i].peer # 0
          BY <2>3, <2>6, <4>1, <4>2 DEF SendsTo, Live, Sending, WellFormed
        <4>4. ~Live(s, i)'
          BY <1>13, <2>1, <4>3, Zenon
        <4>5. QED
          BY <1>9, <4>4, Zenon DEF SendsTo
      <3>3. QED
        BY <1>1, <1>6, <3>1, <3>2, Zenon DEF Connected, Fresh
    <2>7. QED
      BY <2>4, <2>5, <2>6, Zenon
  <1>10. WaitInv' /\ SenderInv'
    BY <1>8, <1>9, Zenon DEF WaitInv, SenderInv
  <1>11. ListenerInv'
    <2>1. ListenerOf(r)'
      BY <1>3, Zenon DEF ListenerOf
    <2>2. ASSUME NEW s \in Replicas \ {r}
          PROVE  ListenerOf(s)'
      <3>1. ListenerOf(s)
        BY Zenon DEF CopyInv, ListenerInv
      <3>2. \A i \in Ids(s) : Fresh(s, i) => processes[s][i].kind = "listen"
        BY Zenon DEF Fresh
      <3>3. QED
        BY <1>1, <1>4, <1>6, <3>1, <3>2, Zenon DEF ListenerOf
    <2>3. QED
      BY <2>1, <2>2, Zenon DEF ListenerInv
  <1>12. QED
    BY <1>1, <1>7, <1>10, <1>11, Zenon DEF CopyInv

\* RestartCopies: a replica is back, and no sender of the time before is left
\* (launchSync: the timeout of a sender).
LEMMA RestartCopies ==
    ASSUME CopyInv, RestartOutlastsSender, NEW r \in Replicas, Restart(r)
    PROVE  CopyInv'
  <1>1. AgentInv /\ AgentInv' /\ \A s \in Replicas : Ids(s)' = Ids(s)
    BY RestartKeeps, Zenon DEF CopyInv
  <1>2. /\ ~up[r] /\ SenderTimeout(r) /\ up' = [up EXCEPT ![r] = TRUE]
        /\ UNCHANGED <<role, content, processes, task>>
    BY Zenon DEF Restart, agent, clients
  <1>3. \A s \in Replicas \ {r} : up'[s] = up[s]
    BY <1>1, <1>2, Zenon DEF AgentInv, TypeOK
  <1>4. RoleInv'
    <2>1. up'[r]
      BY <1>1, <1>2, Zenon DEF AgentInv, TypeOK
    <2>2. QED
      BY <1>2, <1>3, <2>1 DEF CopyInv, RoleInv, RoleOf, Busy, Complete
  <1>5. WaitInv'
    BY <1>1, <1>2 DEF CopyInv, WaitInv, WaitsFor, Expected, NoneFresh, Fresh
  <1>6. ListenerInv'
    BY <1>1, <1>2 DEF CopyInv, ListenerInv, ListenerOf, Fresh
  <1>7. ASSUME NEW s \in Replicas, NEW h \in Replicas, NEW i \in Ids(s), NEW j \in -1 .. MaxProcesses,
               SendsTo(s, i, h, j)'
        PROVE  /\ up'[h] => Expected(h, s, i)'
               /\ j # -1
               /\ j > 0 => Connected(h, j)'
    <2>1. SendsTo(s, i, h, j)
      BY <1>2, <1>7, Zenon DEF SendsTo, Live
    <2>2. (up[h] => Expected(h, s, i)) /\ j # -1 /\ (j > 0 => Connected(h, j))
      BY <2>1, Zenon DEF CopyInv, SenderInv
    <2>3. h # r
      <3>1. SUFFICES ASSUME h = r
                     PROVE  FALSE
        BY Zenon
      <3>2. j # 0
        BY <1>2, <2>1, <3>1, Zenon DEF SenderTimeout, SendsTo, Live, Ended
      <3>3. j \in Ids(r)
        BY <2>2, <3>1, <3>2, AgentAssumption DEF Connected
      <3>4. processes[r] = <<>>
        BY <1>1, <1>2, Zenon DEF AgentInv, TableInv, TableOf
      <3>5. QED
        BY <3>3, <3>4, NoProcess DEF Ids
    <2>4. QED
      BY <1>1, <1>2, <1>3, <2>2, <2>3, Zenon DEF Expected, Connected, Fresh
  <1>8. QED
    BY <1>1, <1>4, <1>5, <1>6, <1>7, Zenon DEF CopyInv, SenderInv

-----------------------------------------------------------------------------
(* The invariant of the rebuild: the steps of the rebuild itself            *)

\* SameTables: a step that the processes take no part in.
LEMMA SameTables ==
    ASSUME CopyInv, AgentInv', RoleInv', UNCHANGED <<up, content, processes>>,
           \A s \in Replicas : Ids(s)' = Ids(s),
           \A h, s \in Replicas : \A i \in 0 .. MaxProcesses : Expected(h, s, i)' => WaitsFor(h, s, i)',
           \A h, s \in Replicas : \A i \in Ids(s) :
             Live(s, i) /\ processes[s][i].host = h /\ up[h] => Expected(h, s, i)',
           \A h \in Replicas : ~NoneFresh(h) =>
             task'[h].phase \in {"received", "sent", "polling"} /\ task'[h].file = task[h].file
    PROVE  CopyInv'
  <1>1. \A s \in Replicas : \A i \in Ids(s) : (Fresh(s, i)' <=> Fresh(s, i)) /\ (Live(s, i)' <=> Live(s, i))
    BY Zenon DEF Fresh, Live
  <1>2. WaitInv'
    BY Zenon DEF WaitInv
  <1>3. ASSUME NEW s \in Replicas, NEW h \in Replicas, NEW i \in Ids(s), NEW j \in -1 .. MaxProcesses,
               SendsTo(s, i, h, j)'
        PROVE  (up'[h] => Expected(h, s, i)') /\ j # -1 /\ (j > 0 => Connected(h, j)')
    <2>1. SendsTo(s, i, h, j)
      BY <1>1, <1>3, Zenon DEF SendsTo
    <2>2. j # -1 /\ (j > 0 => Connected(h, j))
      BY <2>1, Zenon DEF CopyInv, SenderInv
    <2>3. up'[h] => Expected(h, s, i)'
      BY <2>1, Zenon DEF SendsTo
    <2>4. Connected(h, j) => Connected(h, j)'
      BY <1>1, Zenon DEF Connected
    <2>5. QED
      BY <2>2, <2>3, <2>4, Zenon
  <1>4. SenderInv'
    BY <1>3, Zenon DEF SenderInv
  <1>5. ListenerInv'
    BY <1>1, Zenon DEF CopyInv, ListenerInv, ListenerOf, NoneFresh
  <1>6. QED
    BY <1>2, <1>4, <1>5, Zenon DEF CopyInv

\* LiveIsExpected: a sender to a replica that runs is the one its rebuild waits for.
LEMMA LiveIsExpected ==
    ASSUME CopyInv, NEW s \in Replicas, NEW h \in Replicas, NEW i \in Ids(s),
           Live(s, i), processes[s][i].host = h, up[h]
    PROVE  Expected(h, s, i)
  <1>1. AgentInv
    BY Zenon DEF CopyInv
  <1>2. processes[s][i] \in Processes
    BY <1>1, InTable, Zenon
  <1>3. processes[s][i].peer \in -1 .. MaxProcesses
    BY <1>2, Zenon DEF Processes
  <1>4. SendsTo(s, i, h, processes[s][i].peer)
    BY Zenon DEF SendsTo
  <1>5. QED
    BY <1>3, <1>4, Zenon DEF CopyInv, SenderInv

\* ElectCopies: the volume is started with a complete replica (Elect).
LEMMA ElectCopies ==
    ASSUME CopyInv, NEW r \in Replicas, Elect(r)
    PROVE  CopyInv'
  <1>1. AgentInv /\ AgentInv' /\ \A s \in Replicas : Ids(s)' = Ids(s)
    BY ElectKeeps, Zenon DEF CopyInv
  <1>2. UNCHANGED <<up, content, processes, task>>
    BY Zenon DEF Elect, agent, clients
  <1>3. /\ up[r] /\ Complete(r) /\ \A s \in Replicas : ~Busy(s) /\ ~Busy(s)'
        /\ \A s \in Replicas \ {r} : role'[s] = role[s]
    BY <1>1, <1>2 DEF Elect, Complete, Busy, Idle, AgentInv, TypeOK
  <1>4. RoleInv'
    BY <1>2, <1>3, Zenon DEF CopyInv, RoleInv, RoleOf, Complete
  <1>5. \A h, s \in Replicas : \A i \in 0 .. MaxProcesses : ~Expected(h, s, i)'
    BY <1>3, Zenon DEF Expected, Busy
  <1>6. \A h, s \in Replicas : \A i \in Ids(s) :
          Live(s, i) /\ processes[s][i].host = h /\ up[h] => Expected(h, s, i)'
    <2>1. ASSUME NEW h \in Replicas, NEW s \in Replicas, NEW i \in Ids(s),
                 Live(s, i), processes[s][i].host = h, up[h]
          PROVE  Expected(h, s, i)'
      <3>1. Expected(h, s, i)
        BY <2>1, LiveIsExpected, Zenon
      <3>2. QED
        BY <1>2, <3>1, Zenon DEF Expected
    <2>2. QED
      BY <2>1, Zenon
  <1>7. \A h \in Replicas : ~NoneFresh(h) =>
          task'[h].phase \in {"received", "sent", "polling"} /\ task'[h].file = task[h].file
    BY <1>2, Zenon DEF CopyInv, ListenerInv, ListenerOf, NoneFresh
  <1>8. QED
    BY <1>1, <1>2, <1>4, <1>5, <1>6, <1>7, SameTables, Zenon

\* StartRebuildCopies: a replica is let in (Task.AddReplica).
LEMMA StartRebuildCopies ==
    ASSUME CopyInv, NEW r \in Replicas, NEW from \in Replicas, StartRebuild(r, from)
    PROVE  CopyInv'
  <1>1. AgentInv /\ AgentInv' /\ \A s \in Replicas : Ids(s)' = Ids(s)
    BY StartRebuildIs, Zenon DEF CopyInv
  <1>2. /\ task'[r].phase = "receiver" /\ task'[r].file = 1 /\ task'[r].from = from
        /\ \A s \in Replicas \ {r} : task'[s] = task[s]
    BY <1>1, StartRebuildIs, Zenon
  <1>3. UNCHANGED <<up, content, processes, role>>
    BY Zenon DEF StartRebuild, agent
  <1>4. role[r] = "new" /\ role[from] = "RW" /\ \A s \in Replicas : task[s].phase = "idle"
    BY DEF StartRebuild, Idle
  <1>5. RoleInv'
    <2>1. RoleOf(r)'
      <3>1. \A q \in Replicas : Busy(q)' => q = r
        BY <1>2, <1>4, Zenon DEF Busy
      <3>2. Complete(from)'
        BY <1>3, <1>4, Zenon DEF CopyInv, RoleInv, RoleOf, Complete
      <3>3. 1 .. task'[r].file - 1 = {}
        BY <1>2
      <3>4. QED
        BY <1>2, <1>3, <1>4, <3>1, <3>2, <3>3, Zenon DEF RoleOf
    <2>2. ASSUME NEW s \in Replicas \ {r}
          PROVE  RoleOf(s)'
      <3>1. RoleOf(s) /\ ~Busy(s)'
        BY <1>2, <1>4, Zenon DEF CopyInv, RoleInv, Busy
      <3>2. QED
        BY <1>3, <3>1, Zenon DEF RoleOf, Complete
    <2>3. QED
      BY <2>1, <2>2, Zenon DEF RoleInv
  <1>6. \A h, s \in Replicas : \A i \in 0 .. MaxProcesses : ~Expected(h, s, i)'
    BY <1>2, <1>4, Zenon DEF Expected
  <1>7. \A h, s \in Replicas : \A i \in Ids(s) :
          ~(Live(s, i) /\ processes[s][i].host = h /\ up[h])
    BY <1>4, LiveIsExpected, Zenon DEF Expected
  <1>8. \A h \in Replicas : NoneFresh(h)
    BY <1>4, Zenon DEF CopyInv, ListenerInv, ListenerOf, NoneFresh
  <1>9. QED
    BY <1>1, <1>3, <1>5, <1>6, <1>7, <1>8, SameTables, Zenon

\* SendAnsweredCopies: the post for a sender is answered (SendFile).
LEMMA SendAnsweredCopies ==
    ASSUME CopyInv, NEW r \in Replicas, SendAnswered(r)
    PROVE  CopyInv'
  <1>1. AgentInv /\ AgentInv' /\ \A s \in Replicas : Ids(s)' = Ids(s)
    BY SendAnsweredIs, Zenon DEF CopyInv
  <1>2. /\ task'[r].phase = "polling" /\ task'[r].file = task[r].file
        /\ task'[r].from = task[r].from /\ task'[r].id = task[r].id
        /\ \A s \in Replicas \ {r} : task'[s] = task[s]
    BY <1>1, SendAnsweredIs, Zenon
  <1>3. UNCHANGED <<up, content, processes, role>>
    BY Zenon DEF SendAnswered, agent
  <1>4. task[r].phase = "sent" /\ processes[task[r].from][task[r].id].state # "registered"
    BY Zenon DEF SendAnswered
  <1>5. \A s \in Replicas : Busy(s)' <=> Busy(s)
    BY <1>2, <1>4, Zenon DEF Busy
  <1>6. RoleInv'
    <2>1. ASSUME NEW s \in Replicas
          PROVE  RoleOf(s)'
      <3>1. task'[s].from = task[s].from /\ task'[s].file = task[s].file
        BY <1>2, Zenon
      <3>2. RoleOf(s)
        BY Zenon DEF CopyInv, RoleInv
      <3>3. QED
        BY <1>3, <1>5, <3>1, <3>2, Zenon DEF RoleOf, Complete
    <2>2. QED
      BY <2>1, Zenon DEF RoleInv
  <1>7. \A h, s \in Replicas : \A i \in 0 .. MaxProcesses : Expected(h, s, i)' <=> Expected(h, s, i)
    BY <1>2, <1>4, Zenon DEF Expected
  <1>8. ASSUME NEW h \in Replicas, NEW s \in Replicas, NEW i \in 0 .. MaxProcesses, Expected(h, s, i)'
        PROVE  WaitsFor(h, s, i)'
    <2>1. WaitsFor(h, s, i) /\ Expected(h, s, i)
      BY <1>7, <1>8, Zenon DEF CopyInv, WaitInv
    <2>2. NoneFresh(h)' <=> NoneFresh(h)
      BY <1>1, <1>3, Zenon DEF NoneFresh, Fresh
    <2>3. task'[h].phase = "polling" /\ i \in Ids(s) => processes'[s][i].state # "registered"
      BY <1>2, <1>3, <1>4, <2>1, Zenon DEF WaitsFor, Expected
    <2>4. task'[h].file = task[h].file
      BY <1>2, Zenon
    <2>5. QED
      BY <1>1, <1>3, <2>1, <2>2, <2>3, <2>4, Zenon DEF WaitsFor
  <1>9. \A h, s \in Replicas : \A i \in Ids(s) :
          Live(s, i) /\ processes[s][i].host = h /\ up[h] => Expected(h, s, i)'
    <2>1. ASSUME NEW h \in Replicas, NEW s \in Replicas, NEW i \in Ids(s),
                 Live(s, i), processes[s][i].host = h, up[h]
          PROVE  Expected(h, s, i)'
      <3>1. Expected(h, s, i) /\ i \in 0 .. MaxProcesses
        BY <1>1, <2>1, LiveIsExpected, InTable, Zenon
      <3>2. QED
        BY <1>7, <3>1, Zenon
    <2>2. QED
      BY <2>1
  <1>10. \A h \in Replicas : ~NoneFresh(h) =>
           task'[h].phase \in {"received", "sent", "polling"} /\ task'[h].file = task[h].file
    BY <1>2, Zenon DEF CopyInv, ListenerInv, ListenerOf, NoneFresh
  <1>11. QED
    BY <1>1, <1>3, <1>6, <1>8, <1>9, <1>10, SameTables, Zenon

\* PollFinds: a poll finds exit code 0 only once the file is copied, and then nobody
\* writes to the replica any more (SendFile, GetProcess).
LEMMA PollFinds ==
    ASSUME CopyInv, NEW r \in Replicas, Poll(r)
    PROVE  /\ content[r][task[r].file] = task[r].file /\ NoneFresh(r)
           /\ \A s \in Replicas : \A i \in Ids(s) :
                ~(Live(s, i) /\ processes[s][i].host = r)
  <1>1. AgentInv
    BY Zenon DEF CopyInv
  <1>2. PICK from : from = task[r].from
    BY Zenon
  <1>3. PICK n : n = task[r].id
    BY Zenon
  <1>4. task[r].phase = "polling" /\ n \in Ids(from) /\ processes[from][n].exit = 0
    BY <1>2, <1>3, Zenon DEF Poll, Found, ExitCode
  <1>5. up[r] /\ from \in Replicas
    BY <1>1, <1>2, <1>4, Zenon DEF AgentInv, TaskInv, TaskOf, Busy
  <1>6. n \in 0 .. MaxProcesses /\ processes[from][n] \in Processes /\ WellFormed(processes[from][n])
    BY <1>1, <1>4, <1>5, InTable, Zenon
  <1>7. Expected(r, from, n)
    BY <1>2, <1>3, <1>4, Zenon DEF Expected
  <1>8. WaitsFor(r, from, n)
    BY <1>5, <1>6, <1>7, Zenon DEF CopyInv, WaitInv
  <1>9. processes[from][n].state = "exited"
    <2>1. processes[from][n].state # "registered"
      BY <1>4, <1>8, Zenon DEF WaitsFor
    <2>2. processes[from][n].state \notin {"created", "running", "unstarted"}
      BY <1>4, <1>6 DEF WellFormed
    <2>3. QED
      BY <1>6, <2>1, <2>2, Zenon DEF Processes
  <1>10. content[r][task[r].file] = task[r].file /\ NoneFresh(r)
    BY <1>4, <1>8, <1>9, Zenon DEF WaitsFor
  <1>11. ASSUME NEW s \in Replicas, NEW i \in Ids(s), Live(s, i), processes[s][i].host = r
         PROVE  FALSE
    <2>1. Expected(r, s, i)
      BY <1>5, <1>11, LiveIsExpected, Zenon
    <2>2. s = from /\ i = n
      BY <1>2, <1>3, <2>1, Zenon DEF Expected
    <2>3. QED
      BY <1>9, <1>11, <2>2, Zenon DEF Live, Ended
  <1>12. QED
    BY <1>10, <1>11, Zenon

\* PollCopies: a poll that finds exit code 0 (SendFile, Task.syncFiles).
LEMMA PollCopies ==
    ASSUME CopyInv, NEW r \in Replicas, Poll(r)
    PROVE  CopyInv'
  <1>1. AgentInv /\ AgentInv' /\ \A s \in Replicas : Ids(s)' = Ids(s)
    BY PollIs, Zenon DEF CopyInv
  <1>2. \A s \in Replicas \ {r} : task'[s] = task[s]
    BY <1>1, PollIs, Zenon
  <1>3. UNCHANGED <<up, content, processes>>
    BY Zenon DEF Poll, agent
  <1>4. /\ content[r][task[r].file] = task[r].file /\ NoneFresh(r)
        /\ \A s \in Replicas : \A i \in Ids(s) : ~(Live(s, i) /\ processes[s][i].host = r)
    BY PollFinds, Zenon
  <1>5. task[r].phase = "polling" /\ Busy(r) /\ up[r] /\ task[r].file \in Files
    BY <1>1, Zenon DEF Poll, AgentInv, TaskInv, TaskOf, Busy
  <1>6. /\ role[r] # "RW" /\ \A q \in Replicas : Busy(q) => q = r
        /\ \A s \in Replicas : task[r].from = s => Complete(s)
        /\ \A f \in 1 .. task[r].file - 1 : content[r][f] = f
    <2>1. RoleOf(r)
      BY Zenon DEF CopyInv, RoleInv
    <2>2. QED
      BY <1>5, <2>1, Zenon DEF RoleOf
  <1>7. \A s \in Replicas \ {r} : ~Busy(s) /\ ~Busy(s)' /\ RoleOf(s)
    BY <1>2, <1>6, Zenon DEF CopyInv, RoleInv, Busy
  <1>8. \A s \in Replicas : Complete(s)' <=> Complete(s)
    BY <1>3, Zenon DEF Complete
  <1>9. \/ /\ task'[r].phase = "polling" /\ task'[r].id = task[r].id
           /\ task'[r].file = task[r].file /\ task'[r].from = task[r].from
           /\ UNCHANGED role
        \/ /\ task'[r].phase = "receiver" /\ task'[r].file = task[r].file + 1
           /\ task'[r].from = task[r].from /\ UNCHANGED role
        \/ /\ task'[r] = Idle /\ task[r].file = NumFiles
           /\ role' = [role EXCEPT ![r] = "RW"]
    BY <1>1, PollIs, Zenon
  <1>10. \A s \in Replicas \ {r} : role'[s] = role[s]
    BY <1>1, <1>9, Zenon DEF AgentInv, TypeOK
  <1>11. \A s \in Replicas \ {r} : RoleOf(s)'
    BY <1>3, <1>7, <1>8, <1>10, Zenon DEF RoleOf
  <1>12. \A f \in 1 .. task[r].file : content[r][f] = f
    <2>1. task[r].file \in Nat
      BY <1>5, AgentAssumption DEF Files
    <2>2. \A f \in 1 .. task[r].file : f \in 1 .. task[r].file - 1 \/ f = task[r].file
      BY <2>1
    <2>3. QED
      BY <1>4, <1>6, <2>2, Zenon
  <1>13. RoleOf(r)'
    <2>1. \A q \in Replicas : Busy(q)' => q = r
      BY <1>7, Zenon
    <2>2. CASE task'[r].phase = "polling" /\ task'[r].file = task[r].file
               /\ task'[r].from = task[r].from /\ UNCHANGED role
      BY <1>3, <1>6, <1>8, <2>1, <2>2, Zenon DEF RoleOf
    <2>3. CASE task'[r].phase = "receiver" /\ task'[r].file = task[r].file + 1
               /\ task'[r].from = task[r].from /\ UNCHANGED role
      <3>1. 1 .. task'[r].file - 1 = 1 .. task[r].file
        <4>1. task[r].file \in Int
          BY <1>5 DEF Files
        <4>2. task'[r].file - 1 = task[r].file
          BY <2>3, <4>1
        <4>3. QED
          BY <4>2, Zenon
      <3>2. \A f \in 1 .. task'[r].file - 1 : content'[r][f] = f
        BY <1>3, <1>12, <3>1, Zenon
      <3>3. QED
        BY <1>6, <1>8, <2>1, <2>3, <3>2, Zenon DEF RoleOf
    <2>4. CASE task'[r] = Idle /\ task[r].file = NumFiles /\ role' = [role EXCEPT ![r] = "RW"]
      <3>1. ~Busy(r)'
        BY <2>4 DEF Busy, Idle
      <3>2. Complete(r)'
        BY <1>3, <1>12, <2>4, Zenon DEF Complete, Files
      <3>3. QED
        BY <1>3, <1>5, <3>1, <3>2, Zenon DEF RoleOf
    <2>5. QED
      BY <1>9, <2>2, <2>3, <2>4, Zenon
  <1>14. RoleInv'
    BY <1>11, <1>13, Zenon DEF RoleInv
  <1>15. ASSUME NEW h \in Replicas, NEW s \in Replicas, NEW i \in 0 .. MaxProcesses, Expected(h, s, i)'
         PROVE  WaitsFor(h, s, i)'
    <2>1. h = r
      BY <1>7, <1>15 DEF Expected, Busy
    <2>2. /\ task'[r].phase = "polling" /\ task'[r].id = task[r].id
          /\ task'[r].file = task[r].file /\ task'[r].from = task[r].from
          /\ UNCHANGED role
      BY <1>9, <1>15, <2>1 DEF Expected, Idle
    <2>3. Expected(r, s, i)
      BY <1>5, <1>15, <2>1, <2>2, Zenon DEF Expected
    <2>4. WaitsFor(r, s, i)
      BY <2>3, Zenon DEF CopyInv, WaitInv
    <2>5. NoneFresh(r)' <=> NoneFresh(r)
      BY <1>1, <1>3, Zenon DEF NoneFresh, Fresh
    <2>6. QED
      BY <1>1, <1>3, <1>5, <2>1, <2>2, <2>4, <2>5, Zenon DEF WaitsFor
  <1>16. \A h, s \in Replicas : \A i \in Ids(s) :
           Live(s, i) /\ processes[s][i].host = h /\ up[h] => Expected(h, s, i)'
    <2>1. ASSUME NEW h \in Replicas, NEW s \in Replicas, NEW i \in Ids(s),
                 Live(s, i), processes[s][i].host = h, up[h]
          PROVE  FALSE
      <3>1. h # r
        BY <1>4, <2>1, Zenon
      <3>2. Expected(h, s, i)
        BY <2>1, LiveIsExpected
      <3>3. QED
        BY <1>7, <3>1, <3>2 DEF Expected, Busy
    <2>2. QED
      BY <2>1, Zenon
  <1>17. \A h \in Replicas : ~NoneFresh(h) =>
           task'[h].phase \in {"received", "sent", "polling"} /\ task'[h].file = task[h].file
    BY <1>2, <1>4, Zenon DEF CopyInv, ListenerInv, ListenerOf, NoneFresh
  <1>18. QED
    BY <1>1, <1>3, <1>14, <1>15, <1>16, <1>17, SameTables, Zenon

\* NewSenders: the senders, when agent a is asked for process n (CreateProcess).
LEMMA NewSenders ==
    ASSUME CopyInv, UNCHANGED up, NEW a \in Replicas, NEW n,
           Ids(a)' = Ids(a) \cup {n}, \A s \in Replicas \ {a} : Ids(s)' = Ids(s),
           \A s \in Replicas : \A k \in Ids(s) : processes'[s][k] = processes[s][k],
           processes'[a][n].peer = 0,
           \A h, s \in Replicas : \A i \in Ids(s) :
             Live(s, i) /\ processes[s][i].host = h /\ up[h] => Expected(h, s, i)',
           \A h \in Replicas : Live(a, n)' /\ processes'[a][n].host = h /\ up[h] => Expected(h, a, n)'
    PROVE  SenderInv'
  <1>1. SUFFICES ASSUME NEW s \in Replicas, NEW h \in Replicas, NEW i \in Ids(s)', NEW j \in -1 .. MaxProcesses,
                        SendsTo(s, i, h, j)'
                 PROVE  (up'[h] => Expected(h, s, i)') /\ j # -1 /\ (j > 0 => Connected(h, j)')
    BY Zenon DEF SenderInv
  <1>2. CASE i \in Ids(s)
    <2>1. SendsTo(s, i, h, j)
      BY <1>1, <1>2, Zenon DEF SendsTo, Live
    <2>2. j # -1 /\ (j > 0 => Connected(h, j))
      BY <1>2, <2>1, Zenon DEF CopyInv, SenderInv
    <2>3. up'[h] => Expected(h, s, i)'
      BY <1>2, <2>1, Zenon DEF SendsTo
    <2>4. ASSUME Connected(h, j)
          PROVE  Connected(h, j)'
      <3>1. j \in Ids(h) /\ j \in Ids(h)'
        BY <2>4, Zenon DEF Connected
      <3>2. QED
        BY <2>4, <3>1, Zenon DEF Connected, Fresh
    <2>5. QED
      BY <2>2, <2>3, <2>4, Zenon
  <1>3. CASE i \notin Ids(s)
    <2>1. s = a /\ i = n
      BY <1>3, Zenon
    <2>2. j = 0 /\ Live(a, n)' /\ processes'[a][n].host = h
      BY <1>1, <2>1, Zenon DEF SendsTo
    <2>3. QED
      BY <2>1, <2>2
  <1>4. QED
    BY <1>2, <1>3, Zenon

\* TableFits: the identifier of a process in a table (Server.processCounter).
LEMMA TableFits ==
    ASSUME AgentInv', NEW r \in Replicas, NEW n \in Ids(r)'
    PROVE  n \in 0 .. MaxProcesses
  <1>1. TypeOK' /\ TableOf(r)'
    BY Zenon DEF AgentInv, TableInv
  <1>2. Len(processes'[r]) <= MaxProcesses
    BY <1>1, Zenon DEF TableOf
  <1>3. processes'[r] \in Seq(Processes)
    BY <1>1, Zenon DEF TypeOK
  <1>4. Len(processes'[r]) \in Nat
    BY <1>3
  <1>5. QED
    BY <1>2, <1>4, AgentAssumption DEF Ids

\* ReceiverCopies: a rebuild asks for the listener of its next file (LaunchReceiver).
LEMMA ReceiverCopies ==
    ASSUME CopyInv, NEW r \in Replicas, LaunchReceiver(r)
    PROVE  CopyInv'
  <1>1. AgentInv
    BY DEF CopyInv
  <1>2. PICK n : n = Len(processes[r]) + 1
    BY Zenon
  <1>3. PICK p : p = Process("listen", task[r].file, None, NextPort(r))
    BY Zenon
  <1>4. /\ AgentInv' /\ UNCHANGED <<up, role, content>>
        /\ Ids(r)' = Ids(r) \cup {n} /\ n \notin Ids(r)
        /\ \A s \in Replicas \ {r} : Ids(s)' = Ids(s)
        /\ \A s \in Replicas : \A k \in Ids(s) : processes'[s][k] = processes[s][k]
        /\ NewProcess(p) /\ processes'[r][n] = Entered(p)
        /\ task'[r] = Received(task[r], n)
        /\ \A s \in Replicas \ {r} : task'[s] = task[s]
    BY <1>1, <1>2, <1>3, ReceiverIs, Zenon
  <1>5. task[r].phase = "receiver"
    BY Zenon DEF LaunchReceiver
  <1>6. Busy(r) /\ up[r] /\ task[r] \in Tasks
    BY <1>1, <1>5, Zenon DEF AgentInv, TaskInv, TaskOf, Busy, TypeOK
  <1>7. \A s \in Replicas : Busy(s) => s = r
    BY <1>6, Zenon DEF CopyInv, RoleInv, RoleOf
  <1>8. task'[r].phase = "received" /\ task'[r].file = task[r].file /\ task'[r].from = task[r].from
    <2>1. n \in 0 .. MaxProcesses
      <3>1. n \in Ids(r)'
        BY <1>4, Zenon
      <3>2. QED
        BY <1>4, <3>1, TableFits, Zenon
    <2>2. /\ Received(task[r], n).phase = "received" /\ Received(task[r], n).file = task[r].file
          /\ Received(task[r], n).from = task[r].from
      BY <1>6, <2>1, ReceivedIs, Zenon
    <2>3. task'[r] = Received(task[r], n)
      BY <1>4, Zenon
    <2>4. QED
      BY <2>2, <2>3, Zenon
  <1>9. \A s \in Replicas : Busy(s)' <=> Busy(s)
    BY <1>4, <1>6, <1>8, Zenon DEF Busy
  <1>10. RoleInv'
    <2>1. ASSUME NEW s \in Replicas
          PROVE  RoleOf(s)'
      <3>1. task'[s].from = task[s].from /\ task'[s].file = task[s].file
        BY <1>4, <1>8, Zenon
      <3>2. RoleOf(s)
        BY DEF CopyInv, RoleInv
      <3>3. QED
        <4>1. \A q \in Replicas : Complete(q)' <=> Complete(q)
          BY <1>4, Zenon DEF Complete
        <4>2. role'[s] = "RW" => up'[s] /\ ~Busy(s)' /\ Complete(s)'
          BY <1>4, <1>9, <3>2, <4>1, Zenon DEF RoleOf
        <4>3. Busy(s)' => /\ \A q \in Replicas : task'[s].from = q => Complete(q)'
                          /\ \A f \in 1 .. task'[s].file - 1 : content'[s][f] = f
          BY <1>4, <1>9, <3>1, <3>2, <4>1, Zenon DEF RoleOf
        <4>4. Busy(s)' => \A q \in Replicas : Busy(q)' => q = s
          BY <1>9, <3>2, Zenon DEF RoleOf
        <4>5. QED
          BY <4>2, <4>3, <4>4, Zenon DEF RoleOf
    <2>2. QED
      BY <2>1 DEF RoleInv
  <1>11. WaitInv'
    <2>1. \A s \in Replicas : task'[s].phase \notin {"sent", "polling"}
      BY <1>4, <1>7, <1>8, Zenon DEF Busy
    <2>2. QED
      BY <2>1, Zenon DEF WaitInv, Expected
  <1>12. \A h, s \in Replicas : \A i \in Ids(s) : ~(Live(s, i) /\ processes[s][i].host = h /\ up[h])
    <2>1. ASSUME NEW h \in Replicas, NEW s \in Replicas, NEW i \in Ids(s),
                 Live(s, i), processes[s][i].host = h, up[h]
          PROVE  FALSE
      <3>1. Expected(h, s, i)
        BY <2>1, LiveIsExpected
      <3>2. QED
        BY <1>5, <1>7, <3>1, Zenon DEF Expected, Busy
    <2>2. QED
      BY <2>1, Zenon
  <1>13. /\ processes'[r][n].kind = "listen" /\ processes'[r][n].peer = 0
         /\ processes'[r][n].file = task[r].file
    <2>1. p.kind = "listen" /\ p.file = task[r].file
      BY <1>3, Zenon DEF Process
    <2>2. QED
      BY <1>4, <2>1, EnteredIs, Zenon
  <1>14. SenderInv'
    <2>1. ~Live(r, n)'
      BY <1>13, Zenon DEF Live
    <2>2. QED
      BY <1>4, <1>12, <1>13, <2>1, NewSenders, Zenon
  <1>15. ListenerInv'
    <2>1. NoneFresh(r)
      BY <1>5, Zenon DEF CopyInv, ListenerInv, ListenerOf, NoneFresh
    <2>2. ASSUME NEW k \in Ids(r)', Fresh(r, k)'
          PROVE  k = n
      BY <1>4, <2>1, <2>2, Zenon DEF NoneFresh, Fresh
    <2>3. ListenerOf(r)'
      BY <1>8, <1>13, <2>2, Zenon DEF ListenerOf
    <2>4. \A s \in Replicas \ {r} : ListenerOf(s)'
      <3>1. ASSUME NEW s \in Replicas \ {r}
            PROVE  ListenerOf(s)'
        <4>1. ListenerOf(s)
          BY Zenon DEF CopyInv, ListenerInv
        <4>2. Ids(s)' = Ids(s) /\ task'[s] = task[s]
          BY <1>4, Zenon
        <4>3. \A k \in Ids(s) : processes'[s][k] = processes[s][k] /\ (Fresh(s, k)' <=> Fresh(s, k))
          BY <1>4, Zenon DEF Fresh
        <4>4. QED
          BY <4>1, <4>2, <4>3, Zenon DEF ListenerOf
      <3>2. QED
        BY <3>1, Zenon
    <2>5. QED
      BY <2>3, <2>4, Zenon DEF ListenerInv
  <1>16. QED
    BY <1>4, <1>10, <1>11, <1>14, <1>15, Zenon DEF CopyInv

\* SendFileCopies: a rebuild asks for the sender of its file (SendFile).
LEMMA SendFileCopies ==
    ASSUME CopyInv, NEW r \in Replicas, SendFile(r)
    PROVE  CopyInv'
  <1>1. AgentInv
    BY DEF CopyInv
  <1>2. PICK from : from = task[r].from
    OBVIOUS
  <1>3. PICK n : n = Len(processes[from]) + 1
    BY Zenon
  <1>4. PICK p : p = Process("send", task[r].file, r, processes[r][task[r].id].port)
    BY Zenon
  <1>5. /\ AgentInv' /\ UNCHANGED <<up, role, content>> /\ from \in Replicas \ {r}
        /\ Ids(from)' = Ids(from) \cup {n} /\ n \notin Ids(from)
        /\ \A s \in Replicas \ {from} : Ids(s)' = Ids(s)
        /\ \A s \in Replicas : \A k \in Ids(s) : processes'[s][k] = processes[s][k]
        /\ NewProcess(p) /\ processes'[from][n] = Entered(p)
        /\ task'[r] = Sent(task[r], n)
        /\ \A s \in Replicas \ {r} : task'[s] = task[s]
    <2> DEFINE m == Len(processes[from]) + 1
               q == Process("send", task[r].file, r, processes[r][task[r].id].port)
    <2>1. /\ AgentInv' /\ UNCHANGED <<up, role, content>> /\ from \in Replicas \ {r}
          /\ Ids(from)' = Ids(from) \cup {m} /\ m \notin Ids(from)
          /\ \A s \in Replicas \ {from} : Ids(s)' = Ids(s)
          /\ \A s \in Replicas : \A k \in Ids(s) : processes'[s][k] = processes[s][k]
          /\ NewProcess(q) /\ processes'[from][m] = Entered(q)
          /\ task'[r] = Sent(task[r], m)
          /\ \A s \in Replicas \ {r} : task'[s] = task[s]
      BY <1>1, <1>2, SendFileIs
    <2>2. m = n /\ q = p
      BY <1>3, <1>4, Zenon
    <2> HIDE DEF m, q
    <2>3. QED
      BY <2>1, <2>2, Zenon
  <1>6. task[r].phase = "received"
    BY Zenon DEF SendFile
  <1>7. Busy(r) /\ up[r] /\ task[r] \in Tasks
    BY <1>1, <1>6, Zenon DEF AgentInv, TaskInv, TaskOf, Busy, TypeOK
  <1>8. \A s \in Replicas : Busy(s) => s = r
    BY <1>7, Zenon DEF CopyInv, RoleInv, RoleOf
  <1>9. n \in 0 .. MaxProcesses
    <2>1. n \in Ids(from)'
      BY <1>5, Zenon
    <2>2. QED
      BY <1>5, <2>1, TableFits, Zenon
  <1>10. /\ task'[r].phase = "sent" /\ task'[r].file = task[r].file
         /\ task'[r].from = from /\ task'[r].id = n
    <2>1. /\ Sent(task[r], n).phase = "sent" /\ Sent(task[r], n).file = task[r].file
          /\ Sent(task[r], n).from = task[r].from /\ Sent(task[r], n).id = n
      BY <1>7, <1>9, SentIs, Zenon
    <2>2. task'[r] = Sent(task[r], n)
      BY <1>5, Zenon
    <2>3. QED
      BY <1>2, <2>1, <2>2, Zenon
  <1>11. \A s \in Replicas : Busy(s)' <=> Busy(s)
    BY <1>5, <1>7, <1>10, Zenon DEF Busy
  <1>12. RoleInv'
    <2>1. ASSUME NEW s \in Replicas
          PROVE  RoleOf(s)'
      <3>1. task'[s].from = task[s].from /\ task'[s].file = task[s].file
        BY <1>2, <1>5, <1>10, Zenon
      <3>2. RoleOf(s)
        BY DEF CopyInv, RoleInv
      <3>3. QED
        <4>1. \A q \in Replicas : Complete(q)' <=> Complete(q)
          BY <1>5, Zenon DEF Complete
        <4>2. role'[s] = "RW" => up'[s] /\ ~Busy(s)' /\ Complete(s)'
          BY <1>5, <1>11, <3>2, <4>1, Zenon DEF RoleOf
        <4>3. Busy(s)' => /\ \A q \in Replicas : task'[s].from = q => Complete(q)'
                          /\ \A f \in 1 .. task'[s].file - 1 : content'[s][f] = f
          BY <1>5, <1>11, <3>1, <3>2, <4>1, Zenon DEF RoleOf
        <4>4. Busy(s)' => \A q \in Replicas : Busy(q)' => q = s
          BY <1>11, <3>2, Zenon DEF RoleOf
        <4>5. QED
          BY <4>2, <4>3, <4>4, Zenon DEF RoleOf
    <2>2. QED
      BY <2>1 DEF RoleInv
  <1>13. /\ processes'[from][n].kind = "send" /\ processes'[from][n].peer = 0
         /\ processes'[from][n].file = task[r].file /\ processes'[from][n].host = r
         /\ processes'[from][n].state = "registered"
    <2>1. p.kind = "send" /\ p.file = task[r].file /\ p.host = r
      BY <1>4, Zenon DEF Process
    <2>2. QED
      <3>1. NewProcess(p) /\ processes'[from][n] = Entered(p)
        BY <1>5, Zenon
      <3>2. /\ Entered(p).kind = p.kind /\ Entered(p).file = p.file /\ Entered(p).host = p.host
            /\ Entered(p).peer = 0 /\ Entered(p).state = "registered"
        BY <3>1, EnteredIs, Zenon
      <3>3. QED
        BY <2>1, <3>1, <3>2, Zenon
  <1>14. ASSUME NEW h \in Replicas, NEW s \in Replicas, NEW i \in 0 .. MaxProcesses, Expected(h, s, i)'
         PROVE  WaitsFor(h, s, i)'
    <2>1. h = r
      BY <1>5, <1>8, <1>14, Zenon DEF Expected, Busy
    <2>2. s = from /\ i = n
      BY <1>10, <1>14, <2>1, Zenon DEF Expected
    <2>3. n \in Ids(from)'
      BY <1>5, Zenon
    <2>4. QED
      BY <1>10, <1>13, <2>1, <2>2, <2>3, Zenon DEF WaitsFor
  <1>15. \A h, s \in Replicas : \A i \in Ids(s) : ~(Live(s, i) /\ processes[s][i].host = h /\ up[h])
    <2>1. ASSUME NEW h \in Replicas, NEW s \in Replicas, NEW i \in Ids(s),
                 Live(s, i), processes[s][i].host = h, up[h]
          PROVE  FALSE
      <3>1. Expected(h, s, i)
        BY <2>1, LiveIsExpected
      <3>2. QED
        BY <1>6, <1>8, <3>1, Zenon DEF Expected, Busy
    <2>2. QED
      BY <2>1
  <1>16. SenderInv'
    <2>1. Expected(r, from, n)'
      BY <1>10, Zenon DEF Expected
    <2>2. \A h \in Replicas : processes'[from][n].host = h => Expected(h, from, n)'
      BY <1>13, <2>1, Zenon
    <2>3. from \in Replicas
      BY <1>5, Zenon
    <2>4. QED
      BY <1>5, <1>13, <1>15, <2>2, <2>3, NewSenders, Zenon
  <1>17. ListenerInv'
    <2>1. ASSUME NEW s \in Replicas, NEW k \in Ids(s)', Fresh(s, k)'
          PROVE  k \in Ids(s) /\ Fresh(s, k)
      <3>1. s # from \/ k # n
        BY <1>13, <2>1, Zenon DEF Fresh
      <3>2. k \in Ids(s)
        BY <1>5, <3>1, Zenon
      <3>3. QED
        BY <1>5, <2>1, <3>2, Zenon DEF Fresh
    <2>2. ASSUME NEW s \in Replicas
          PROVE  ListenerOf(s)'
      <3>1. ListenerOf(s)
        BY Zenon DEF CopyInv, ListenerInv
      <3>2. /\ task'[s].file = task[s].file
            /\ task[s].phase \in {"received", "sent", "polling"} =>
                 task'[s].phase \in {"received", "sent", "polling"}
        BY <1>5, <1>10, Zenon
      <3>3. \A k \in Ids(s)' : Fresh(s, k)' =>
              k \in Ids(s) /\ Fresh(s, k) /\ processes'[s][k] = processes[s][k]
        BY <1>5, <2>1, Zenon
      <3>4. QED
        BY <3>1, <3>2, <3>3, Zenon DEF ListenerOf
    <2>3. QED
      BY <2>2 DEF ListenerInv
  <1>18. QED
    BY <1>5, <1>12, <1>14, <1>16, <1>17, Zenon DEF CopyInv, WaitInv

\* StartCommandCopies: an RW replica asks for a command; the sender a rebuild waits
\* for is in its agent's table, so the command does not get its identifier
\* (Coalesce, CreateBackup, CreateProcess).
LEMMA StartCommandCopies ==
    ASSUME CopyInv, NEW r \in Replicas, StartCommand(r)
    PROVE  CopyInv'
  <1>1. AgentInv /\ AgentInv'
    BY StartCommandKeeps, Zenon DEF CopyInv
  <1>2. PICK n : n = Len(processes[r]) + 1
    OBVIOUS
  <1>3. PICK p : p = Process("command", 0, None, 0)
    BY Zenon
  <1>4. up[r] /\ role[r] = "RW" /\ Register(r, p) /\ UNCHANGED <<up, role, content, task>>
    BY <1>3, Zenon DEF StartCommand
  <1>5. NewProcess(p) /\ p.kind = "command"
    <2>1. 1 \in Files /\ StartPort \in Ports
      BY AgentAssumption DEF Files, Ports
    <2>2. QED
      BY <1>3, <2>1, ProcessIs, Zenon DEF Process
  <1>6. /\ Ids(r)' = Ids(r) \cup {n} /\ n \notin Ids(r)
        /\ \A s \in Replicas \ {r} : Ids(s)' = Ids(s)
        /\ processes'[r][n] = Entered(p)
        /\ \A s \in Replicas : \A k \in Ids(s) : processes'[s][k] = processes[s][k]
    BY <1>1, <1>2, <1>4, <1>5, RegisterIs, Zenon
  <1>7. processes'[r][n].kind = "command" /\ processes'[r][n].peer = 0
    BY <1>5, <1>6, EnteredIs, Zenon
  <1>8. RoleInv'
    <2>1. ASSUME NEW s \in Replicas
          PROVE  RoleOf(s)'
      <3>1. RoleOf(s)
        BY Zenon DEF CopyInv, RoleInv
      <3>2. \A q \in Replicas : (Complete(q)' <=> Complete(q)) /\ (Busy(q)' <=> Busy(q))
        BY <1>4, Zenon DEF Complete, Busy
      <3>3. QED
        BY <1>4, <3>1, <3>2, Zenon DEF RoleOf
    <2>2. QED
      BY <2>1, Zenon DEF RoleInv
  <1>9. ASSUME NEW s \in Replicas, NEW k \in Ids(s)', Fresh(s, k)'
        PROVE  k \in Ids(s) /\ Fresh(s, k)
    <2>1. s # r \/ k # n
      BY <1>7, <1>9, Zenon DEF Fresh
    <2>2. k \in Ids(s)
      BY <1>6, <2>1, Zenon
    <2>3. QED
      BY <1>6, <1>9, <2>2, Zenon DEF Fresh
  <1>10. ASSUME NEW h \in Replicas, NEW s \in Replicas, NEW i \in 0 .. MaxProcesses, Expected(h, s, i)'
         PROVE  WaitsFor(h, s, i)'
    <2>1. WaitsFor(h, s, i)
      BY <1>4, <1>10, Zenon DEF Expected, CopyInv, WaitInv
    <2>2. NoneFresh(h) => NoneFresh(h)'
      BY <1>9, Zenon DEF NoneFresh
    <2>3. i \in Ids(s)' <=> i \in Ids(s)
      BY <1>4, <1>6, <2>1 DEF WaitsFor
    <2>4. QED
      BY <1>4, <1>6, <2>1, <2>2, <2>3, Zenon DEF WaitsFor
  <1>11. SenderInv'
    <2>1. \A h, s \in Replicas : \A i \in Ids(s) :
            Live(s, i) /\ processes[s][i].host = h /\ up[h] => Expected(h, s, i)'
      <3>1. ASSUME NEW h \in Replicas, NEW s \in Replicas, NEW i \in Ids(s),
                   Live(s, i), processes[s][i].host = h, up[h]
            PROVE  Expected(h, s, i)'
        <4>1. Expected(h, s, i)
          BY <3>1, LiveIsExpected
        <4>2. QED
          BY <1>4, <4>1, Zenon DEF Expected
      <3>2. QED
        BY <3>1
    <2>2. ~Live(r, n)'
      BY <1>7, Zenon DEF Live
    <2>3. QED
      BY <1>4, <1>6, <1>7, <2>1, <2>2, NewSenders, Zenon
  <1>12. ListenerInv'
    <2>1. ASSUME NEW s \in Replicas
          PROVE  ListenerOf(s)'
      <3>1. ListenerOf(s) /\ task'[s] = task[s]
        BY <1>4, Zenon DEF CopyInv, ListenerInv
      <3>2. \A k \in Ids(s)' : Fresh(s, k)' =>
              k \in Ids(s) /\ Fresh(s, k) /\ processes'[s][k] = processes[s][k]
        BY <1>6, <1>9, Zenon
      <3>3. QED
        BY <3>1, <3>2, Zenon DEF ListenerOf
    <2>2. QED
      BY <2>1, Zenon DEF ListenerInv
  <1>13. QED
    BY <1>1, <1>8, <1>10, <1>11, <1>12, Zenon DEF CopyInv, WaitInv

\* QuietCopies: a step that neither the agents nor the rebuilds take part in.
LEMMA QuietCopies ==
    ASSUME CopyInv, AgentInv', UNCHANGED <<up, role, content, processes, task>>
    PROVE  CopyInv'
  <1>1. \A s \in Replicas : Ids(s)' = Ids(s)
    BY Zenon DEF Ids
  <1>2. \A s \in Replicas : \A k \in Ids(s) : Harmless(processes[s][k], processes'[s][k])
    BY Zenon DEF Harmless
  <1>3. \A s, h \in Replicas : \A i \in Ids(s), j \in Ids(h) :
          SendsTo(s, i, h, j) /\ Connected(h, j) => processes'[h][j].state = "running"
    BY Zenon DEF Connected
  <1>4. QED
    BY <1>1, <1>2, <1>3, HarmlessKeeps, Zenon

-----------------------------------------------------------------------------
(* A rebuilt replica is a copy                                             *)

\* CopyInit: the invariant of the rebuild holds at first.
LEMMA CopyInit == Init => CopyInv
  <1> SUFFICES ASSUME Init
               PROVE  CopyInv
    BY Zenon
  <1>1. AgentInv
    BY AgentInit, Zenon
  <1>2. \A r \in Replicas : Ids(r) = {} /\ task[r].phase = "idle" /\ up[r]
    <2>1. ASSUME NEW r \in Replicas
          PROVE  processes[r] = <<>> /\ task[r].phase = "idle" /\ up[r]
      BY Zenon DEF Init, Idle
    <2>2. ASSUME NEW r \in Replicas
          PROVE  Ids(r) = {}
      BY <2>1, NoProcess DEF Ids
    <2>3. QED
      BY <2>1, <2>2, Zenon
  <1>3. RoleInv
    BY <1>2, Zenon DEF RoleInv, RoleOf, Busy, Complete, Init
  <1>4. WaitInv /\ SenderInv /\ ListenerInv
    BY <1>2, Zenon DEF WaitInv, SenderInv, ListenerInv, ListenerOf, Expected
  <1>5. QED
    BY <1>1, <1>3, <1>4, Zenon DEF CopyInv

\* CopyStep: every step keeps it, when a restart outlasts the timeout of a sender.
LEMMA CopyStep == RestartOutlastsSender /\ CopyInv /\ [Next]_vars => CopyInv'
  <1> SUFFICES ASSUME RestartOutlastsSender, CopyInv, [Next]_vars
               PROVE  CopyInv'
    BY Zenon
  <1>1. ASSUME NEW r \in Replicas, NEW i \in Ids(r), Moves(r, i)
        PROVE  CopyInv'
    BY <1>1, MoveCopies, Zenon
  <1>2. ASSUME NEW r \in Replicas, NEW i \in Ids(r), GiveBack(r, i) \/ Transfer(r, i)
        PROVE  CopyInv'
    BY <1>2, GiveBackCopies, TransferCopies, Zenon
  <1>3. ASSUME NEW r \in Replicas, NEW i \in Ids(r), processes[r][i].kind = "send",
               NEW j \in Ids(processes[r][i].host), Connect(r, i, j)
        PROVE  CopyInv'
    <2>1. AgentInv
      BY Zenon DEF CopyInv
    <2>2. WellFormed(processes[r][i])
      BY <2>1, InTable, Zenon
    <2>3. PICK h \in Replicas : processes[r][i].host = h
      BY <1>3, <2>2, Zenon DEF WellFormed
    <2>4. QED
      BY <1>3, <2>3, ConnectCopies, Zenon
  <1>4. ASSUME NEW r \in Replicas, Crash(r) \/ RebuildFails(r)
        PROVE  CopyInv'
    <2>1. End(r)
      BY <1>4, Zenon DEF Crash, RebuildFails
    <2>2. crashes' \in 0 .. MaxCrashes
      BY <1>4, AgentAssumption DEF Crash, RebuildFails, CopyInv, AgentInv, TypeOK
    <2>3. QED
      BY <2>1, <2>2, EndCopies, Zenon
  <1>5. ASSUME NEW r \in Replicas, LaunchReceiver(r) \/ SendFile(r) \/ SendAnswered(r) \/ Poll(r)
        PROVE  CopyInv'
    BY <1>5, ReceiverCopies, SendFileCopies, SendAnsweredCopies, PollCopies, Zenon
  <1>6. ASSUME NEW r \in Replicas, NEW from \in Replicas, StartRebuild(r, from)
        PROVE  CopyInv'
    BY <1>6, StartRebuildCopies, Zenon
  <1>7. ASSUME NEW r \in Replicas, StartCommand(r) \/ Elect(r) \/ Restart(r)
        PROVE  CopyInv'
    BY <1>7, StartCommandCopies, ElectCopies, RestartCopies, Zenon
  <1>8. AgentInv'
    BY AgentStep, Zenon DEF CopyInv
  <1>9. ASSUME NEW r \in Replicas, PollCommand(r)
        PROVE  CopyInv'
    BY <1>8, <1>9, QuietCopies, Zenon DEF PollCommand, agent
  <1>10. CASE UNCHANGED vars
    BY <1>8, <1>10, QuietCopies, Zenon DEF vars, agent, clients
  <1>11. CASE Next
    <2>1. PICK r \in Replicas :
            \/ Runs(r) \/ Rebuild(r) \/ StartCommand(r) \/ PollCommand(r)
            \/ \E i \in Ids(r) : \/ LaunchFails(r, i) \/ ListenerEnds(r, i)
                                 \/ /\ processes[r][i].kind = "send"
                                    /\ \E j \in Ids(processes[r][i].host) : Connect(r, i, j)
            \/ \E from \in Replicas : StartRebuild(r, from)
            \/ Elect(r) \/ Crash(r) \/ Restart(r)
      BY <1>11, Zenon DEF Next
    <2>2. CASE Runs(r)
      BY <1>1, <1>2, <2>2, Zenon DEF Runs, Moves
    <2>3. CASE Rebuild(r)
      BY <1>4, <1>5, <2>3, Zenon DEF Rebuild
    <2>4. CASE \E i \in Ids(r) : \/ LaunchFails(r, i) \/ ListenerEnds(r, i)
                                 \/ /\ processes[r][i].kind = "send"
                                    /\ \E j \in Ids(processes[r][i].host) : Connect(r, i, j)
      BY <1>1, <1>3, <2>4, Zenon DEF Moves
    <2>5. QED
      BY <1>4, <1>6, <1>7, <1>9, <2>1, <2>2, <2>3, <2>4, Zenon
  <1>12. QED
    BY <1>10, <1>11, Zenon

\* RebuiltReplicaIsCopy: as long as a restart takes longer than a sender tries to
\* connect, a replica that is RW holds every file as the source does, however many
\* replicas, files, ports and crashes of either side there are, and however the
\* listeners that outlive their senders are served (Task.syncFiles, SendFile,
\* launchSync).
THEOREM RebuiltReplicaIsCopy == RestartOutlastsSender => (Spec => []RebuiltIsCopy)
  <1> SUFFICES ASSUME RestartOutlastsSender
               PROVE  Spec => []RebuiltIsCopy
    BY Zenon
  <1>1. CopyInv => RebuiltIsCopy
    BY Zenon DEF CopyInv, RoleInv, RoleOf, Complete, RebuiltIsCopy
  <1>2. CopyInv /\ [Next]_vars => CopyInv'
    BY CopyStep, Zenon
  <1>3. QED
    BY <1>1, <1>2, CopyInit, PTL DEF Spec
=============================================================================

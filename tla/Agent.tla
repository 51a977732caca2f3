------------------------------- MODULE Agent -------------------------------
(* The sync agents: the process beside every replica that starts commands    *)
(* for it (sync/agent/process.go), and the clients that ask for them         *)
(* (replica/client/client.go): the rebuild of a replica, which copies file   *)
(* after file through a pair of ssync processes, and the commands an RW      *)
(* replica has run on itself, fold and the backup commands.                  *)
(*                                                                           *)
(* A file is its number; what a file on a disk holds is the number of the    *)
(* file it is a copy of, or 0 when it is old or half written.  The files     *)
(* are those of one rebuild, oldest first.  A process has an identifier, its *)
(* place in the table of its agent, which starts afresh with the replica.    *)
(* ssync itself is external: a sender tries to reach the port for some       *)
(* seconds, and whatever listens there writes what it is sent; a listener    *)
(* ends after the first sender that finishes, but not at once.               *)
EXTENDS Integers, Sequences

CONSTANTS
    Replicas,
    NumFiles,             \* the files of a rebuild
    StartPort, EndPort,   \* the agent's ports
    MaxProcesses,         \* bound: processes of an agent between two restarts
    MaxCommands,          \* bound: the last of them to be fold or backup
    MaxCrashes,           \* bound: crashes
    First,                \* the replica that is not RW at first
    None,
    RestartOutlastsSender \* a restart takes longer than a sender's timeout

Ports == StartPort .. EndPort
Files == 1 .. NumFiles

ASSUME AgentAssumption ==
    /\ NumFiles \in Nat \ {0}
    /\ StartPort \in Nat \ {0} /\ EndPort \in Nat /\ StartPort <= EndPort
    /\ MaxProcesses \in Nat /\ MaxCommands \in Nat /\ MaxCrashes \in Nat
    /\ First \in Replicas /\ None \notin Replicas
    /\ RestartOutlastsSender \in BOOLEAN

VARIABLES
    up,          \* replica -> whether it runs, its agent with it
    crashes,     \* how many crashes there were, rebuilds that failed apart
    role,        \* replica -> RW, or new: it needs a rebuild
    content,     \* replica -> file -> what it holds
    processes,   \* replica -> Server.processes, by identifier
    byPort,      \* replica -> Server.processesByPort, 0 for no process
    currentPort, \* replica -> Server.currentPort
    task,        \* replica -> the rebuild of it
    job          \* replica -> the process its fold or backup polls, or 0

agent == <<processes, byPort, currentPort>>
clients == <<task, job>>
vars == <<up, crashes, role, content, agent, clients>>

Idle == [phase |-> "idle", file |-> 0, from |-> None, id |-> 0, oks |-> 0]

\* a process: what it is asked for; whether it holds its port in byPort; how far
\* it is, ExitCode being 0 when it is only registered; for a sender, the listener
\* it is connected to; for a listener, -1 once it was served
Process(kind, f, host, port) ==
    [kind |-> kind, file |-> f, host |-> host, port |-> port, held |-> FALSE,
     state |-> "registered", exit |-> 0, peer |-> 0]

Processes == [kind : {"listen", "send", "command"}, file : 0 .. NumFiles, host : Replicas \union {None},
              port : Ports \union {0}, held : BOOLEAN,
              state : {"registered", "created", "running", "unstarted", "exited"},
              exit : {-2, 0, 1}, peer : -1 .. MaxProcesses]
Tasks == [phase : {"idle", "receiver", "received", "sent", "polling"}, file : 0 .. NumFiles,
          from : Replicas \union {None}, id : 0 .. MaxProcesses, oks : {0, 1}]

Ids(r) == 1 .. Len(processes[r])

----------------------------------------------------------------------------
(* The agent                                                                 *)

\* the port k places after p, round the range
PortAfter(p, k) == IF p + k > EndPort THEN p + k - (EndPort - StartPort + 1) ELSE p + k

\* mutant of Tries: the loop of nextPort stops one port short
TriesOneShort(r) == {k \in 0 .. EndPort - StartPort - 1 : byPort[r][PortAfter(currentPort[r], k)] = 0}

\* nextPort: how many ports it skips before it meets a free one
Tries(r) == {k \in 0 .. EndPort - StartPort : byPort[r][PortAfter(currentPort[r], k)] = 0}
Skipped(r) == CHOOSE k \in Tries(r) : \A j \in Tries(r) : k <= j
NextPort(r) == PortAfter(currentPort[r], Skipped(r))

\* mutant of Following: the port after the last is not the first
FollowingUnwrapped(p) == p + 1

\* nextPort: currentPort after a port was taken
Following(p) == IF p + 1 > EndPort THEN StartPort ELSE p + 1

\* mutant of Listed: no process is entered
ListedNever(p) == FALSE

\* CreateProcess: gotNextPort, whether the process is entered in processesByPort
Listed(p) == p.kind = "listen"

\* CreateProcess up to its Unlock
Register(r, p) ==
    /\ Len(processes[r]) < MaxProcesses
    /\ processes' = [processes EXCEPT ![r] = Append(@, [p EXCEPT !.held = Listed(p)])]
    /\ byPort' = IF Listed(p) THEN [byPort EXCEPT ![r][p.port] = Len(processes[r]) + 1] ELSE byPort

\* CreateProcess after its Unlock: the answer carries ExitCode -2
Answer(r, i) ==
    /\ processes[r][i].state = "registered"
    /\ processes' = [processes EXCEPT ![r][i].state = "created", ![r][i].exit = -2]
    /\ UNCHANGED <<up, crashes, role, content, byPort, currentPort, clients>>

Exit(r, i, code) == [processes EXCEPT ![r][i].state = "exited", ![r][i].exit = code, ![r][i].peer = 0]

Bound(r, port) == \E j \in Ids(r) : /\ processes[r][j].kind = "listen" /\ processes[r][j].port = port
                                    /\ processes[r][j].state = "running"

\* launch: a listener whose port is taken fails to bind
Launch(r, i) ==
    /\ processes[r][i].state = "created"
    /\ processes' = IF processes[r][i].kind = "listen" /\ Bound(r, processes[r][i].port) THEN Exit(r, i, 1)
                    ELSE [processes EXCEPT ![r][i].state = "running"]
    /\ UNCHANGED <<up, crashes, role, content, byPort, currentPort, clients>>

\* launch: the command cannot be started, and ExitCode stays as it is
LaunchFails(r, i) ==
    /\ processes[r][i].state = "created"
    /\ processes' = [processes EXCEPT ![r][i].state = "unstarted"]
    /\ UNCHANGED <<up, crashes, role, content, byPort, currentPort, clients>>

\* fold and the backup commands end, well or badly
CommandEnds(r, i, code) ==
    /\ processes[r][i].kind = "command" /\ processes[r][i].state = "running"
    /\ processes' = Exit(r, i, code)
    /\ UNCHANGED <<up, crashes, role, content, byPort, currentPort, clients>>

\* the goroutine of CreateProcess gives the port back
GiveBack(r, i) ==
    /\ processes[r][i].state \in {"exited", "unstarted"} /\ processes[r][i].held
    /\ byPort' = [byPort EXCEPT ![r][processes[r][i].port] = 0]
    /\ processes' = [processes EXCEPT ![r][i].held = FALSE]
    /\ UNCHANGED <<up, crashes, role, content, currentPort, clients>>

----------------------------------------------------------------------------
(* ssync (external)                                                          *)

Sending(s, i) == processes[s][i].kind = "send" /\ processes[s][i].state = "running"

\* the senders connected to listener j of h
Senders(h, j) == {x \in UNION {{<<s, i>> : i \in Ids(s)} : s \in Replicas} :
                    /\ Sending(x[1], x[2]) /\ processes[x[1]][x[2]].host = h
                    /\ processes[x[1]][x[2]].peer = j}

\* the sender finds a listener at the port; the file is now being written
Connect(s, i, j) ==
    LET p == processes[s][i]
        l == processes[p.host][j]
    IN  /\ Sending(s, i) /\ p.peer = 0
        /\ l.kind = "listen" /\ l.state = "running" /\ l.port = p.port /\ l.peer = 0
        /\ processes' = [processes EXCEPT ![s][i].peer = j]
        /\ content' = [content EXCEPT ![p.host][l.file] = 0]
        /\ UNCHANGED <<up, crashes, role, byPort, currentPort, clients>>

\* the sender is done and ends; the listener's file holds what it sent, unless
\* another sender wrote a different file over it; that one is cut off
Transfer(s, i) ==
    LET p == processes[s][i]
        others == Senders(p.host, p.peer) \ {<<s, i>>}
        sent(x) == content[x[1]][processes[x[1]][x[2]].file]
    IN  /\ Sending(s, i) /\ p.peer > 0
        /\ content' = [content EXCEPT ![p.host][processes[p.host][p.peer].file] =
                          IF \A x \in others : sent(x) = sent(<<s, i>>) THEN sent(<<s, i>>) ELSE 0]
        /\ processes' = [r \in Replicas |-> [k \in Ids(r) |->
             IF r = p.host /\ k = p.peer THEN [processes[r][k] EXCEPT !.peer = -1]
             ELSE IF r = s /\ k = i THEN Exit(s, i, 0)[s][i]
             ELSE IF <<r, k>> \in others THEN Exit(r, k, 1)[r][k]
             ELSE processes[r][k]]]
        /\ UNCHANGED <<up, crashes, role, byPort, currentPort, clients>>

\* the sender gives up: nobody listened for long enough, or the connection broke
SenderFails(s, i) ==
    /\ Sending(s, i)
    /\ processes' = Exit(s, i, 1)
    /\ UNCHANGED <<up, crashes, role, content, byPort, currentPort, clients>>

\* a listener that was served ends; one nobody speaks to ends, or stays
ListenerEnds(h, j) ==
    LET l == processes[h][j]
    IN  /\ l.kind = "listen" /\ l.state = "running" /\ Senders(h, j) = {}
        /\ processes' = Exit(h, j, IF l.peer = -1 THEN 0 ELSE 1)
        /\ UNCHANGED <<up, crashes, role, content, byPort, currentPort, clients>>

----------------------------------------------------------------------------
(* Crash and restart                                                         *)

\* a replica ends, with its agent and everything that runs there; the senders
\* connected to it end as well
End(r) ==
    /\ up[r]
    /\ up' = [up EXCEPT ![r] = FALSE]
    /\ role' = [role EXCEPT ![r] = "new"]
    /\ processes' = [s \in Replicas |->
         IF s = r THEN <<>>
         ELSE [i \in Ids(s) |-> IF Sending(s, i) /\ processes[s][i].host = r /\ processes[s][i].peer # 0
                                THEN Exit(s, i, 1)[s][i] ELSE processes[s][i]]]
    /\ byPort' = [byPort EXCEPT ![r] = [p \in Ports |-> 0]]
    /\ currentPort' = [currentPort EXCEPT ![r] = StartPort]
    /\ task' = [task EXCEPT ![r] = Idle] /\ job' = [job EXCEPT ![r] = 0]
    /\ UNCHANGED content

Crash(r) ==
    /\ crashes < MaxCrashes
    /\ crashes' = crashes + 1
    /\ End(r)

\* mutant of SenderTimeout: ssync's default of two minutes
SenderTimeoutLong(r) == TRUE

\* launchSync: a sender tries for seven seconds only, less than a restart takes
SenderTimeout(r) == RestartOutlastsSender =>
    \A s \in Replicas : \A i \in Ids(s) :
        processes[s][i].host = r /\ processes[s][i].peer = 0 => processes[s][i].state \in {"exited", "unstarted"}

Restart(r) ==
    /\ ~up[r] /\ SenderTimeout(r)
    /\ up' = [up EXCEPT ![r] = TRUE]
    /\ UNCHANGED <<crashes, role, content, agent, clients>>

----------------------------------------------------------------------------
(* The rebuild of a replica                                                  *)

SetTask(r, t) == task' = [task EXCEPT ![r] = t]

\* the controller starts the volume with a replica whose files are complete: that
\* it is the one the revision counters elect is a matter of Volume
Elect(r) ==
    /\ up[r] /\ \A f \in Files : content[r][f] = f
    /\ \A s \in Replicas : role[s] = "new" /\ task[s] = Idle
    /\ role' = [role EXCEPT ![r] = "RW"]
    /\ UNCHANGED <<up, crashes, content, agent, clients>>

\* the controller lets r in, with from as the replica to copy; it refuses while
\* another replica is WO
StartRebuild(r, from) ==
    /\ up[r] /\ role[r] = "new" /\ up[from] /\ role[from] = "RW"
    /\ \A s \in Replicas : task[s] = Idle
    /\ SetTask(r, [Idle EXCEPT !.phase = "receiver", !.file = 1, !.from = from])
    /\ UNCHANGED <<up, crashes, role, content, agent, job>>

\* LaunchReceiver on r's own agent; without a port CreateProcess fails
LaunchReceiver(r) ==
    /\ task[r].phase = "receiver"
    /\ Tries(r) # {}
    /\ Register(r, Process("listen", task[r].file, None, NextPort(r)))
    /\ currentPort' = [currentPort EXCEPT ![r] = Following(NextPort(r))]
    /\ SetTask(r, [task[r] EXCEPT !.phase = "received", !.id = Len(processes[r]) + 1])
    /\ UNCHANGED <<up, crashes, role, content, job>>

\* SendFile posts to the agent of the source
SendFile(r) ==
    LET from == task[r].from
    IN  /\ task[r].phase = "received" /\ processes[r][task[r].id].state # "registered"
        /\ up[from]
        /\ Register(from, Process("send", task[r].file, r, processes[r][task[r].id].port))
        /\ SetTask(r, [task[r] EXCEPT !.phase = "sent", !.id = Len(processes[from]) + 1, !.oks = 0])
        /\ UNCHANGED <<up, crashes, role, content, currentPort, job>>

\* the post is answered, and polling begins
SendAnswered(r) ==
    /\ task[r].phase = "sent" /\ up[task[r].from]
    /\ task[r].id \in Ids(task[r].from) /\ processes[task[r].from][task[r].id].state # "registered"
    /\ SetTask(r, [task[r] EXCEPT !.phase = "polling"])
    /\ UNCHANGED <<up, crashes, role, content, agent, job>>

\* what the agent of s answers about process i: its ExitCode, or no such process
Found(s, i) == up[s] /\ i \in Ids(s)
ExitCode(s, i) == processes[s][i].exit

\* SendFile: the second poll that finds 0
Believed(t) == t.oks = 1

\* SendFile polls: -2 is polled again, 0 must be seen twice; then the next file,
\* and after the last one the replica becomes RW
Poll(r) ==
    LET t == task[r]
    IN  /\ t.phase = "polling" /\ Found(t.from, t.id) /\ ExitCode(t.from, t.id) = 0
        /\ \/ /\ ~Believed(t)
              /\ SetTask(r, [t EXCEPT !.oks = 1])
              /\ UNCHANGED role
           \/ /\ Believed(t) /\ t.file < NumFiles
              /\ SetTask(r, [t EXCEPT !.phase = "receiver", !.file = t.file + 1, !.id = 0, !.oks = 0])
              /\ UNCHANGED role
           \/ /\ Believed(t) /\ t.file = NumFiles
              /\ SetTask(r, Idle)
              /\ role' = [role EXCEPT ![r] = "RW"]
        /\ UNCHANGED <<up, crashes, content, agent, job>>

\* mutant of Fails: a poll of a process the agent does not know is repeated
FailsOnExitCode(r) ==
    LET t == task[r]
    IN  \/ t.phase = "receiver" /\ Tries(r) = {}
        \/ t.phase = "received" /\ ~up[t.from]
        \/ t.phase = "sent" /\ ~Found(t.from, t.id)
        \/ t.phase = "polling" /\ Found(t.from, t.id) /\ ExitCode(t.from, t.id) \notin {0, -2}

\* any step of the rebuild fails: no port, the source gone, the process unknown,
\* an exit code; the task ends, and with it the replica
Fails(r) ==
    LET t == task[r]
    IN  \/ t.phase = "receiver" /\ Tries(r) = {}
        \/ t.phase = "received" /\ ~up[t.from]
        \/ t.phase = "sent" /\ ~Found(t.from, t.id)
        \/ t.phase = "polling" /\ (Found(t.from, t.id) => ExitCode(t.from, t.id) \notin {0, -2})

RebuildFails(r) == Fails(r) /\ End(r) /\ UNCHANGED crashes

----------------------------------------------------------------------------
(* fold and the backup commands                                              *)

\* Coalesce, CreateBackup and the others, of an RW replica
StartCommand(r) ==
    /\ up[r] /\ role[r] = "RW" /\ job[r] = 0
    /\ Len(processes[r]) < MaxCommands
    /\ Register(r, Process("command", 0, None, 0))
    /\ job' = [job EXCEPT ![r] = Len(processes[r]) + 1]
    /\ UNCHANGED <<up, crashes, role, content, currentPort, task>>

\* fileOperation polls until the exit code is not -2
PollCommand(r) ==
    /\ job[r] # 0 /\ processes[r][job[r]].state # "registered" /\ ExitCode(r, job[r]) # -2
    /\ job' = [job EXCEPT ![r] = 0]
    /\ UNCHANGED <<up, crashes, role, content, agent, task>>

----------------------------------------------------------------------------

Init == /\ up = [r \in Replicas |-> TRUE] /\ crashes = 0
        /\ role = [r \in Replicas |-> IF r = First THEN "new" ELSE "RW"]
        /\ content = [r \in Replicas |-> [f \in Files |-> IF r = First THEN 0 ELSE f]]
        /\ processes = [r \in Replicas |-> <<>>]
        /\ byPort = [r \in Replicas |-> [p \in Ports |-> 0]]
        /\ currentPort = [r \in Replicas |-> StartPort]
        /\ task = [r \in Replicas |-> Idle] /\ job = [r \in Replicas |-> 0]

\* what the agent of r and its commands do
Runs(r) == \E i \in Ids(r) : \/ Answer(r, i) \/ Launch(r, i) \/ GiveBack(r, i)
                             \/ \E code \in {0, 1} : CommandEnds(r, i, code)
                             \/ Transfer(r, i) \/ SenderFails(r, i)
Rebuild(r) == LaunchReceiver(r) \/ SendFile(r) \/ SendAnswered(r) \/ Poll(r) \/ RebuildFails(r)

Next == \E r \in Replicas :
    \/ Runs(r) \/ Rebuild(r) \/ StartCommand(r) \/ PollCommand(r)
    \/ \E i \in Ids(r) : \/ LaunchFails(r, i) \/ ListenerEnds(r, i)
                         \/ processes[r][i].kind = "send" /\ \E j \in Ids(processes[r][i].host) : Connect(r, i, j)
    \/ \E from \in Replicas : StartRebuild(r, from)
    \/ Elect(r) \/ Crash(r) \/ Restart(r)

Spec == Init /\ [][Next]_vars
FairSpec == Spec /\ \A r \in Replicas : WF_vars(Runs(r)) /\ WF_vars(Rebuild(r))

----------------------------------------------------------------------------
(* Properties                                                                *)

\* TypeOK: the types of the agents' and the clients' state
\* (agent.Server, agent.Process, ReplicaClient)
TypeOK ==
    /\ up \in [Replicas -> BOOLEAN] /\ crashes \in 0 .. MaxCrashes
    /\ role \in [Replicas -> {"RW", "new"}]
    /\ content \in [Replicas -> [Files -> 0 .. NumFiles]]
    /\ processes \in [Replicas -> Seq(Processes)]
    /\ byPort \in [Replicas -> [Ports -> 0 .. MaxProcesses]]
    /\ currentPort \in [Replicas -> Ports]
    /\ task \in [Replicas -> Tasks]
    /\ job \in [Replicas -> 0 .. MaxProcesses]

\* BindsItsPort: the port a listener is about to bind is bound by no other
\* listener of the agent, whatever the senders and the listeners that outlived
\* their sender do (CreateProcess, nextPort, "bind port failed")
BindsItsPort == \A r \in Replicas : \A i \in Ids(r) :
    processes[r][i].kind = "listen" /\ processes[r][i].state = "created" => ~Bound(r, processes[r][i].port)

\* FindsFreePort: an agent refuses a listener only when every port belongs to
\* one (nextPort, "Out of ports")
FindsFreePort == \A r \in Replicas :
    Tries(r) = {} => \A p \in Ports : \E i \in Ids(r) : processes[r][i].port = p /\ processes[r][i].held

\* RebuiltIsCopy: a replica that is RW, also after rebuilds that crashes of
\* either side cut short, holds every file as the source does
\* (Task.syncFiles, SendFile, launchSync)
RebuiltIsCopy == \A r \in Replicas : role[r] = "RW" => \A f \in Files : content[r][f] = f

\* PollingEnds: a rebuild that polls a sender that runs stops polling, whatever
\* becomes of the two agents (SendFile, GetProcess, launchSync)
PollingEnds == \A r \in Replicas :
    (task[r].phase = "polling" /\ Found(task[r].from, task[r].id)
        /\ processes[task[r].from][task[r].id].state = "running") ~> (task[r].phase # "polling")
=============================================================================

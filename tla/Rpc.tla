-------------------------------- MODULE Rpc --------------------------------
(* The data connection between the controller and one replica: rpc.Client    *)
(* and its goroutines loop, write and read, the wire, rpc.Server with its    *)
(* supervision of pings, and Remote.monitorPing.                             *)
(*                                                                           *)
(* An operation is a read, write, sync or unmap of the controller, or a ping *)
(* of monitorPing; only its identity matters.  A goroutine takes one message *)
(* per step.  Timeouts may fire at any time: no bound on delays is assumed.  *)
(* The client's error is read by operation without synchronisation with the  *)
(* loop that sets it, so an operation may miss it.                           *)
(*                                                                           *)
(* Abstracted: payloads, offsets, the journal of pending operations, the     *)
(* capacity of the channels (1024, more than the operations in flight).      *)
EXTENDS Naturals, Sequences

CONSTANTS
    IOs,     \* the operations of the controller
    Pings,   \* the pings of monitorPing
    None,
    CloseCapacity, \* the capacity of Remote.closeChan
    MaxStops       \* bound: calls of StopMonitoring

ASSUME RpcAssumption ==
    /\ IOs \intersect Pings = {} /\ None \notin IOs \union Pings
    /\ CloseCapacity \in Nat /\ MaxStops \in Nat

Ops == IOs \union Pings

VARIABLES
    status,    \* operation -> new, waiting, or what it returned
    late,      \* operation -> whether another had failed when it was invoked
    answer,    \* operation -> the operation whose response it was given
    seqOf,     \* operation -> its sequence number, 0 before it has one
    seq,       \* Client.seq
    messages,  \* Client.messages: the operations in flight
    requests, send, responses, \* the channels of the client
    err,       \* Client.err is set
    loop,      \* loop: run, failed, closing, exited
    reader, writer, \* read and write: run, exited
    monitor,   \* monitorPing: idle, the ping it waits for, or stopped
    closeChan, \* signals in Remote.closeChan
    stops,     \* calls of StopMonitoring
    told,      \* what monitorChan was sent: nothing, nil or an error
    toServer, toClient, \* what is on the wire
    link,      \* the connection: up, or broken by the network
    shut,      \* the client has shut its side down
    server,    \* rpc.Server: run, ending once Handle returned, exited (with the replica)
    pinged,    \* the server has seen a ping
    executed   \* operation -> how often the replica performed it

callers == <<status, late, answer>>
channels == <<requests, send, responses>>
client == <<seqOf, seq, messages, err, loop, reader, writer>>
monitorVars == <<monitor, closeChan, stops, told>>
wire == <<toServer, toClient, link, shut>>
serverVars == <<server, pinged, executed>>
vars == <<callers, channels, client, monitorVars, wire, serverVars>>

Statuses == {"new", "waiting", "ok", "error", "failed", "timeout"}

\* a message that carries an operation, and the one that carries an error
Message(kind, o) == [kind |-> kind, op |-> o, seq |-> seqOf[o]]
TransportError == [kind |-> "transport", op |-> None, seq |-> 0]

\* the operation returned because of the connection, not of the replica
Broken(o) == status[o] \in {"failed", "timeout"}

----------------------------------------------------------------------------
(* Callers                                                                   *)

\* operation: it fails at once when it sees the client's error; nobody reads
\* the requests once the loop has ended
Invoke(o) ==
    /\ status[o] = "new"
    /\ late' = [late EXCEPT ![o] = \E p \in Ops : Broken(p)]
    /\ \/ /\ err
          /\ status' = [status EXCEPT ![o] = "failed"]
          /\ UNCHANGED requests
       \/ /\ status' = [status EXCEPT ![o] = "waiting"]
          /\ requests' = IF loop = "run" THEN Append(requests, o) ELSE requests
    /\ UNCHANGED answer

\* the controller holds its lock until the operation returns
Call(o) == /\ o \in IOs
           /\ \A p \in IOs : status[p] # "waiting"
           /\ Invoke(o)
           /\ UNCHANGED <<send, responses, client, monitorVars, wire, serverVars>>

\* a message for the loop; once the loop has ended nothing is read any more
ToLoop(m) == IF loop = "run" THEN Append(responses, m) ELSE responses

\* mutant of SetErrorOnTimeout: the client goes on after a timeout
SetErrorOnTimeoutSkipped == responses

\* SetError by the operation that timed out
SetErrorOnTimeout == ToLoop(TransportError)

Timeout(o) == /\ status[o] = "waiting"
              /\ status' = [status EXCEPT ![o] = "timeout"]
              /\ responses' = SetErrorOnTimeout
              /\ UNCHANGED <<late, answer, requests, send, client, monitorVars, wire, serverVars>>

\* req.Complete reaches the operation if it still waits
Return(o, result) == IF status[o] = "waiting" THEN [status EXCEPT ![o] = result] ELSE status

----------------------------------------------------------------------------
(* The goroutines of the client                                              *)

\* handleRequest
LoopRequest ==
    /\ loop = "run" /\ requests # <<>>
    /\ LET o == Head(requests)
       IN  /\ requests' = Tail(requests)
           /\ seq' = seq + 1
           /\ seqOf' = [seqOf EXCEPT ![o] = seq + 1]
           /\ messages' = messages \union {o}
           /\ send' = Append(send, o)
    /\ UNCHANGED <<callers, responses, err, loop, reader, writer, monitorVars, wire, serverVars>>

\* mutant of Answered: any operation in flight takes the response
AnsweredByAny(m) == messages

\* handleResponse: the operation in flight with the response's number
Answered(m) == {o \in messages : seqOf[o] = m.seq}

\* handleResponse, for an answer of the replica
LoopResponse ==
    /\ loop = "run" /\ responses # <<>>
    /\ Head(responses).kind # "transport"
    /\ responses' = Tail(responses)
    /\ \/ \E o \in Answered(Head(responses)) :
            /\ messages' = messages \ {o}
            /\ answer' = [answer EXCEPT ![o] = Head(responses).op]
            /\ status' = Return(o, Head(responses).kind)
       \/ /\ Answered(Head(responses)) = {}
          /\ UNCHANGED <<messages, answer, status>>
    /\ UNCHANGED <<late, requests, send, seqOf, seq, err, loop, reader, writer, monitorVars, wire, serverVars>>

\* handleResponse, for an error: it is kept, monitorPing is signalled, and
\* what is left in the channels is not read
LoopError ==
    /\ loop = "run" /\ responses # <<>>
    /\ Head(responses).kind = "transport"
    /\ responses' = <<>> /\ requests' = <<>>
    /\ err' = TRUE /\ loop' = "failed"
    /\ closeChan < CloseCapacity /\ closeChan' = closeChan + 1
    /\ UNCHANGED <<callers, send, seqOf, seq, messages, reader, writer, monitor, stops, told, wire, serverVars>>

Connected == link = "up" /\ server # "exited" /\ ~shut

\* two seconds later everything in flight is answered with the error, and
\* loop closes the send channel and shuts the connection down.  Close returns
\* at once if that fails, which it may when the other side is gone.
LoopTerminates ==
    /\ loop = "failed"
    /\ status' = [o \in Ops |-> IF o \in messages /\ status[o] = "waiting" THEN "failed" ELSE status[o]]
    /\ messages' = {}
    /\ \/ loop' = "closing" /\ shut' = TRUE /\ toClient' = <<>>
       \/ ~Connected /\ loop' = "exited" /\ UNCHANGED <<shut, toClient>>
    /\ UNCHANGED <<late, answer, channels, seqOf, seq, err, reader, writer, monitorVars, toServer, link, serverVars>>

\* Client.Close returns once the other two have exited
LoopExits == /\ loop = "closing" /\ reader = "exited" /\ writer = "exited"
             /\ loop' = "exited"
             /\ UNCHANGED <<callers, channels, seqOf, seq, messages, err, reader, writer, monitorVars, wire, serverVars>>

\* write, one message; when the other side is gone it may be taken and lost
WriterSends ==
    /\ writer = "run" /\ send # <<>> /\ ~shut
    /\ toServer' = IF Connected THEN Append(toServer, Message("request", Head(send))) ELSE toServer
    /\ send' = Tail(send)
    /\ UNCHANGED <<callers, requests, responses, client, monitorVars, toClient, link, shut, serverVars>>

\* write: the wire refuses the message
WriterFails ==
    /\ writer = "run" /\ send # <<>> /\ ~Connected
    /\ send' = Tail(send)
    /\ responses' = ToLoop(TransportError)
    /\ writer' = "exited"
    /\ UNCHANGED <<callers, requests, seqOf, seq, messages, err, loop, reader, monitorVars, wire, serverVars>>

\* mutant of WriterExits: the send channel is closed after Close, not before
WriterExitsLast ==
    /\ writer = "run" /\ loop = "exited" /\ send = <<>>
    /\ writer' = "exited"
    /\ UNCHANGED <<callers, channels, seqOf, seq, messages, err, loop, reader, monitorVars, wire, serverVars>>

\* write: the send channel is closed and empty
WriterExits ==
    /\ writer = "run" /\ loop \in {"closing", "exited"} /\ send = <<>>
    /\ writer' = "exited"
    /\ UNCHANGED <<callers, channels, seqOf, seq, messages, err, loop, reader, monitorVars, wire, serverVars>>

\* read, one message
ReaderReceives ==
    /\ reader = "run" /\ toClient # <<>>
    /\ responses' = ToLoop(Head(toClient))
    /\ toClient' = Tail(toClient)
    /\ UNCHANGED <<callers, requests, send, client, monitorVars, toServer, link, shut, serverVars>>

\* read: the connection is broken, or closed by either side
ReaderFails ==
    /\ reader = "run"
    /\ shut \/ link = "broken" \/ (server = "exited" /\ toClient = <<>>)
    /\ responses' = ToLoop(TransportError)
    /\ reader' = "exited"
    /\ UNCHANGED <<callers, requests, send, seqOf, seq, messages, err, loop, writer, monitorVars, wire, serverVars>>

----------------------------------------------------------------------------
(* The server                                                                *)

\* readWrite: one message is read, performed and answered; the answer of a
\* broken connection is lost
ServerHandles ==
    /\ server # "exited" /\ toServer # <<>>
    /\ LET o == Head(toServer).op
       IN  /\ executed' = [executed EXCEPT ![o] = @ + 1]
           /\ pinged' = (pinged \/ o \in Pings)
           /\ toServer' = Tail(toServer)
           /\ \E kind \in {"ok", "error"} :
                toClient' = IF link = "up" /\ ~shut THEN Append(toClient, [Head(toServer) EXCEPT !.kind = kind])
                            ELSE toClient
    /\ UNCHANGED <<callers, channels, client, monitorVars, link, shut, server>>

\* the replica ends: an I/O error of the disk in the midst of an operation
ServerFatal ==
    /\ server # "exited" /\ toServer # <<>> /\ Head(toServer).op \in IOs
    /\ server' = "exited"
    /\ toServer' = <<>>
    /\ UNCHANGED <<callers, channels, client, monitorVars, toClient, link, shut, pinged, executed>>

\* Handle returns the error of readWrite
ServerEnds ==
    /\ server = "run"
    /\ link = "broken" \/ (shut /\ toServer = <<>>)
    /\ server' = "ending"
    /\ UNCHANGED <<callers, channels, client, monitorVars, wire, pinged, executed>>

\* Handle: no ping for twice the timeout; before the first ping it does not mind
PingExpires ==
    /\ server = "run" /\ pinged
    /\ server' = "ending"
    /\ UNCHANGED <<callers, channels, client, monitorVars, wire, pinged, executed>>

\* the replica closes its files, for which it needs the server's lock, and ends;
\* until then readWrite goes on
ServerExits ==
    /\ server = "ending"
    /\ server' = "exited"
    /\ toServer' = <<>>
    /\ UNCHANGED <<callers, channels, client, monitorVars, toClient, link, shut, pinged, executed>>

\* the network fails; what the replica has received it may still perform
LinkBreaks == /\ link = "up" /\ link' = "broken"
              /\ toClient' = <<>>
              /\ UNCHANGED <<callers, channels, client, monitorVars, toServer, shut, serverVars>>

----------------------------------------------------------------------------
(* monitorPing                                                               *)

MonitorPings(p) == /\ monitor = "idle" /\ p \in Pings
                   /\ Invoke(p)
                   /\ monitor' = p
                   /\ UNCHANGED <<send, responses, client, closeChan, stops, told, wire, serverVars>>

\* the ping was answered, or it failed and the client is told
MonitorReturns ==
    /\ monitor \in Pings /\ status[monitor] \notin {"new", "waiting"}
    /\ \/ /\ status[monitor] = "ok"
          /\ monitor' = "idle"
          /\ UNCHANGED <<responses, told>>
       \/ /\ status[monitor] # "ok"
          /\ responses' = ToLoop(TransportError)
          /\ monitor' = "stopped" /\ told' = "error"
    /\ UNCHANGED <<callers, requests, send, client, closeChan, stops, wire, serverVars>>

\* mutant of MonitorCloses: it stops without a signal
MonitorClosesUnsignalled == /\ monitor = "idle"
                            /\ closeChan' = closeChan - 1
                            /\ monitor' = "stopped" /\ told' = "nil"
                            /\ UNCHANGED <<callers, channels, client, stops, wire, serverVars>>

MonitorCloses == /\ monitor = "idle" /\ closeChan > 0
                 /\ closeChan' = closeChan - 1
                 /\ monitor' = "stopped" /\ told' = "nil"
                 /\ UNCHANGED <<callers, channels, client, stops, wire, serverVars>>

\* the controller marks the replica ERR or drops it (Remote.Close), which does
\* not close the connection; the caller waits while the channel is full
StopMonitoring == /\ stops < MaxStops /\ closeChan < CloseCapacity
                  /\ stops' = stops + 1
                  /\ closeChan' = closeChan + 1
                  /\ UNCHANGED <<callers, channels, client, monitor, told, wire, serverVars>>

----------------------------------------------------------------------------

Init == /\ status = [o \in Ops |-> "new"] /\ late = [o \in Ops |-> FALSE]
        /\ answer = [o \in Ops |-> None]
        /\ seqOf = [o \in Ops |-> 0] /\ seq = 0 /\ messages = {}
        /\ requests = <<>> /\ send = <<>> /\ responses = <<>>
        /\ err = FALSE /\ loop = "run" /\ reader = "run" /\ writer = "run"
        /\ monitor = "idle" /\ closeChan = 0 /\ stops = 0 /\ told = "nothing"
        /\ toServer = <<>> /\ toClient = <<>> /\ link = "up" /\ shut = FALSE
        /\ server = "run" /\ pinged = FALSE
        /\ executed = [o \in Ops |-> 0]

Loop == LoopRequest \/ LoopResponse \/ LoopError \/ LoopTerminates \/ LoopExits
Writer == WriterSends \/ WriterFails \/ WriterExits
Reader == ReaderReceives \/ ReaderFails
Monitor == MonitorReturns \/ MonitorCloses

Next == \/ \E o \in Ops : Call(o) \/ Timeout(o) \/ MonitorPings(o)
        \/ Loop \/ Writer \/ Reader \/ Monitor \/ StopMonitoring
        \/ ServerHandles \/ ServerFatal \/ ServerEnds \/ PingExpires \/ ServerExits \/ LinkBreaks

Spec == Init /\ [][Next]_vars

\* goroutines run, timers fire, and a server whose client has stopped pinging
\* gets no more pings
FairSpec == /\ Spec
            /\ \A o \in Ops : WF_vars(Timeout(o))
            /\ WF_vars(Loop) /\ WF_vars(Writer) /\ WF_vars(Reader) /\ WF_vars(Monitor)
            /\ WF_vars(ServerHandles) /\ WF_vars(ServerEnds) /\ WF_vars(ServerExits)
            /\ WF_vars(PingExpires /\ monitor = "stopped")

----------------------------------------------------------------------------
(* Properties                                                                *)

MessageType == [kind : {"request", "ok", "error", "transport"}, op : Ops \union {None}, seq : Nat]

\* TypeOK: the types of the client's, the server's and the wire's state
\* (rpc.Client, rpc.Server, Wire)
TypeOK ==
    /\ status \in [Ops -> Statuses] /\ late \in [Ops -> BOOLEAN]
    /\ answer \in [Ops -> Ops \union {None}]
    /\ seqOf \in [Ops -> Nat] /\ seq \in Nat /\ messages \subseteq Ops
    /\ requests \in Seq(Ops) /\ send \in Seq(Ops)
    /\ responses \in Seq(MessageType)
    /\ toServer \in Seq(MessageType) /\ toClient \in Seq(MessageType)
    /\ err \in BOOLEAN /\ loop \in {"run", "failed", "closing", "exited"}
    /\ reader \in {"run", "exited"} /\ writer \in {"run", "exited"}
    /\ monitor \in Pings \union {"idle", "stopped"}
    /\ closeChan \in 0 .. CloseCapacity /\ stops \in 0 .. MaxStops /\ told \in {"nothing", "nil", "error"}
    /\ link \in {"up", "broken"} /\ shut \in BOOLEAN
    /\ server \in {"run", "ending", "exited"} /\ pinged \in BOOLEAN
    /\ executed \in [Ops -> Nat]

\* OwnAnswer: an operation that succeeds was given the answer to itself, and
\* the replica performed it exactly once (Client.messages, nextSeq, handleResponse)
OwnAnswer == \A o \in Ops : status[o] = "ok" => answer[o] = o /\ executed[o] = 1

\* FailStop: once an operation has returned a timeout or an error of the
\* connection, no operation invoked later on that connection succeeds, though
\* the client's error is set only later and read without a lock: a replica
\* that missed a write never acknowledges the next (SetError, Client.loop)
FailStop == \A o \in Ops : late[o] => status[o] # "ok"

\* the goroutines of the client have exited
ClientGone == loop = "exited" /\ reader = "exited" /\ writer = "exited"

\* ConnectionEnds: once one side has had an error, the replica has ended, or the
\* controller has dropped the backend of a replica that was pinged, which leaves
\* the connection open, everything ends: the three goroutines of the client exit,
\* the replica ends and the controller is told, whether or not an operation is
\* waiting (Client.Close waits for readExit and writeExit, or returns early;
\* Client.read; closeChan and monitorPing; Server.Handle)
ConnectionEnds ==
    (err \/ server = "exited" \/ (told # "nothing" /\ pinged))
        ~> (ClientGone /\ server = "exited" /\ told # "nothing")
=============================================================================

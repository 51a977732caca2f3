------------------------------ MODULE RpcProofs ------------------------------
(* Proofs about Rpc, for any number of operations and pings: an operation    *)
(* that succeeds got its own answer and was performed once, and none that is *)
(* invoked after another failed succeeds.                                    *)
EXTENDS Rpc, TLAPS

\* the provers' time limits, in seconds
USE SMTT(20), ZenonT(20), SMTT(30)  \* the provers, in the order they are tried, and their time limits

----------------------------------------------------------------------------
(* The inductive invariant: where the message of an operation can be         *)

\* the client's error is set exactly when the loop has stopped
ErrStopsLoop == err <=> loop # "run"

\* sequence numbers are given once, and to everything in flight
Numbered ==
    /\ \A o \in Ops : seqOf[o] <= seq
    /\ \A o, p \in Ops : seqOf[o] # 0 /\ seqOf[o] = seqOf[p] => o = p
    /\ \A o \in messages : seqOf[o] # 0
    /\ \A o \in Ops : status[o] = "new" => seqOf[o] = 0
    /\ \A o \in Ops : seqOf[o] = 0 => executed[o] = 0

\* an operation in the request channel has no number yet and is there once
RequestsOnce ==
    /\ \A i \in 1 .. Len(requests) : seqOf[requests[i]] = 0 /\ status[requests[i]] # "new"
    /\ \A i, j \in 1 .. Len(requests) : requests[i] = requests[j] => i = j

\* one in the send channel has a number, has not been performed, is there once
SendOnce ==
    /\ \A i \in 1 .. Len(send) : seqOf[send[i]] # 0 /\ executed[send[i]] = 0
    /\ \A i, j \in 1 .. Len(send) : send[i] = send[j] => i = j

\* the message m carries its operation's own number
Genuine(m) == m.op \in Ops /\ seqOf[m.op] # 0 /\ m.seq = seqOf[m.op]

\* so is one on its way to the server, and it has left the send channel
ToServerOnce ==
    /\ \A i \in 1 .. Len(toServer) : Genuine(toServer[i]) /\ executed[toServer[i].op] = 0
    /\ \A i, j \in 1 .. Len(toServer) : toServer[i].op = toServer[j].op => i = j
    /\ \A i \in 1 .. Len(toServer), j \in 1 .. Len(send) : toServer[i].op # send[j]

Performed(m) == Genuine(m) /\ executed[m.op] = 1 /\ m.kind \in {"ok", "error"}

\* answers are about what was performed once
AnswersPerformed ==
    /\ \A i \in 1 .. Len(toClient) : Performed(toClient[i])
    /\ \A i \in 1 .. Len(responses) : responses[i].kind # "transport" => Performed(responses[i])

\* an error is on its way to the loop
HasError == \E j \in 1 .. Len(responses) : responses[j].kind = "transport"

\* the answer to an operation invoked late comes after an error
ErrorComesFirst ==
    /\ (\E o \in Ops : Broken(o)) => err \/ HasError
    /\ \A o \in Ops : late[o] => err \/ HasError
    /\ \A i \in 1 .. Len(responses) :
         responses[i].kind # "transport" /\ late[responses[i].op]
            => \E j \in 1 .. i - 1 : responses[j].kind = "transport"

IInv == /\ TypeOK /\ ErrStopsLoop /\ Numbered /\ RequestsOnce /\ SendOnce
        /\ ToServerOnce /\ AnswersPerformed /\ ErrorComesFirst
        /\ OwnAnswer /\ FailStop
----------------------------------------------------------------------------
(* Sequences                                                                 *)

\* AppendFacts: what a channel holds after a send
LEMMA AppendFacts ==
    ASSUME NEW S, NEW s \in Seq(S), NEW e \in S
    PROVE  /\ Append(s, e) \in Seq(S)
           /\ Len(s) \in Nat /\ Len(Append(s, e)) = Len(s) + 1
           /\ \A i \in 1 .. Len(s) : Append(s, e)[i] = s[i] /\ s[i] \in S
           /\ Append(s, e)[Len(s) + 1] = e
OBVIOUS

\* TailFacts: what a channel holds after a receive
LEMMA TailFacts ==
    ASSUME NEW S, NEW s \in Seq(S), s # <<>>
    PROVE  /\ Tail(s) \in Seq(S)
           /\ Len(s) \in Nat /\ Len(s) >= 1 /\ Len(Tail(s)) = Len(s) - 1
           /\ \A i \in 1 .. Len(s) - 1 : Tail(s)[i] = s[i + 1]
           /\ Head(s) = s[1] /\ Head(s) \in S
           /\ \A i \in 1 .. Len(s) : s[i] \in S
OBVIOUS

\* EmptyFacts: facts about the empty channel
LEMMA EmptyFacts == ASSUME NEW S PROVE <<>> \in Seq(S) /\ Len(<<>>) = 0
OBVIOUS

----------------------------------------------------------------------------
(* Steps                                                                     *)

\* ErrorPushed: SetError, whoever calls it, leaves an error for the loop unless
\* the loop has stopped, and does not overtake an answer (Client.SetError)
LEMMA ErrorPushed ==
    ASSUME TypeOK, ErrStopsLoop, AnswersPerformed, ErrorComesFirst,
           responses' = ToLoop(TransportError),
           UNCHANGED <<late, err, seqOf, executed, toClient>>
    PROVE  responses' \in Seq(MessageType) /\ AnswersPerformed' /\ ErrorComesFirst'
<1>1. responses \in Seq(MessageType) /\ TransportError \in MessageType
  BY Zenon DEF TypeOK, MessageType, TransportError
<1>2. CASE loop = "run"
  <2>1. /\ responses' = Append(responses, TransportError)
        /\ Len(responses) \in Nat /\ Len(responses') = Len(responses) + 1
        /\ \A i \in 1 .. Len(responses) : responses'[i] = responses[i]
        /\ responses'[Len(responses) + 1].kind = "transport"
    BY <1>1, <1>2, AppendFacts DEF ToLoop, TransportError
  <2>1a. responses' \in Seq(MessageType)
    BY <1>1, <2>1, AppendFacts
  <2>2. HasError'
    BY <2>1 DEF HasError
  <2>3. \A i \in 1 .. Len(responses') : responses'[i].kind # "transport" => i \in 1 .. Len(responses)
    BY <2>1
  <2>4. AnswersPerformed'
    BY <2>1, <2>3 DEF AnswersPerformed, Performed, Genuine
  <2>5. ErrorComesFirst'
    BY <2>1, <2>2, <2>3 DEF ErrorComesFirst
  <2>. QED BY <2>1a, <2>4, <2>5, Zenon
<1>3. CASE loop # "run"
  <2>1. responses' = responses /\ err
    BY <1>3, Zenon DEF ToLoop, ErrStopsLoop
  <2>. QED BY <1>1, <2>1 DEF AnswersPerformed, Performed, Genuine, ErrorComesFirst
<1>. QED BY <1>2, <1>3, Zenon

\* CallersFrame: what is said of the callers and of the numbers depends on their
\* state and on the request channel only
LEMMA CallersFrame ==
    ASSUME Numbered, RequestsOnce, OwnAnswer, FailStop,
           UNCHANGED <<status, late, answer, seqOf, seq, messages, executed, requests>>
    PROVE  Numbered' /\ RequestsOnce' /\ OwnAnswer' /\ FailStop'
<1>1. Numbered'
  BY Zenon DEF Numbered
<1>2. RequestsOnce'
  BY Zenon DEF RequestsOnce
<1>3. OwnAnswer' /\ FailStop'
  BY Zenon DEF OwnAnswer, FailStop
<1>. QED BY <1>1, <1>2, <1>3, Zenon

\* ServerFrame: what is said of the way to the server depends on the numbers, on
\* that way and on what was performed
LEMMA ServerFrame ==
    ASSUME SendOnce, ToServerOnce, UNCHANGED <<seqOf, executed, send, toServer>>
    PROVE  SendOnce' /\ ToServerOnce'
<1>1. SendOnce'
  BY Zenon DEF SendOnce
<1>2. ToServerOnce'
  BY Zenon DEF ToServerOnce, Genuine
<1>. QED BY <1>1, <1>2, Zenon

\* AnswersFrame: what is said of the answers depends on the way back
LEMMA AnswersFrame ==
    ASSUME AnswersPerformed, UNCHANGED <<seqOf, executed, toClient, responses>>
    PROVE  AnswersPerformed'
BY Zenon DEF AnswersPerformed, Performed, Genuine

\* ErrorFrame: the order of errors and answers depends on the response channel
LEMMA ErrorFrame ==
    ASSUME ErrorComesFirst, UNCHANGED <<status, late, err, responses>>
    PROVE  ErrorComesFirst'
BY Zenon DEF ErrorComesFirst, HasError, Broken

\* StopMonitoringStep: the step keeps the invariant (Remote.Close)
LEMMA StopMonitoringStep ==
    ASSUME IInv, StopMonitoring
    PROVE  IInv'
<1>. USE DEF IInv
<1>1. TypeOK'
  BY RpcAssumption DEF TypeOK, StopMonitoring, vars, callers, channels, client, monitorVars, wire, serverVars
<1>2. ErrStopsLoop' /\ Numbered' /\ RequestsOnce' /\ SendOnce' /\ ToServerOnce' /\ AnswersPerformed' /\ ErrorComesFirst' /\ OwnAnswer' /\ FailStop'
  <2>1. UNCHANGED <<status, late, answer, seqOf, seq, messages, executed, requests, send, responses, err, loop, toServer, toClient>>
    BY Zenon DEF StopMonitoring, vars, callers, channels, client, monitorVars, wire, serverVars
  <2>2. Numbered' /\ RequestsOnce' /\ SendOnce' /\ ToServerOnce' /\ AnswersPerformed' /\ ErrorComesFirst' /\ OwnAnswer' /\ FailStop'
    BY <2>1, CallersFrame, ServerFrame, AnswersFrame, ErrorFrame, Zenon
  <2>3. ErrStopsLoop'
    BY <2>1, Zenon DEF ErrStopsLoop
  <2>. QED BY <2>2, <2>3, Zenon
<1>. QED BY <1>1, <1>2, Zenon

\* MonitorClosesStep: the step keeps the invariant (monitorPing)
LEMMA MonitorClosesStep ==
    ASSUME IInv, MonitorCloses
    PROVE  IInv'
<1>. USE DEF IInv
<1>1. TypeOK'
  BY RpcAssumption DEF TypeOK, MonitorCloses, vars, callers, channels, client, monitorVars, wire, serverVars
<1>2. ErrStopsLoop' /\ Numbered' /\ RequestsOnce' /\ SendOnce' /\ ToServerOnce' /\ AnswersPerformed' /\ ErrorComesFirst' /\ OwnAnswer' /\ FailStop'
  <2>1. UNCHANGED <<status, late, answer, seqOf, seq, messages, executed, requests, send, responses, err, loop, toServer, toClient>>
    BY Zenon DEF MonitorCloses, vars, callers, channels, client, monitorVars, wire, serverVars
  <2>2. Numbered' /\ RequestsOnce' /\ SendOnce' /\ ToServerOnce' /\ AnswersPerformed' /\ ErrorComesFirst' /\ OwnAnswer' /\ FailStop'
    BY <2>1, CallersFrame, ServerFrame, AnswersFrame, ErrorFrame
  <2>3. ErrStopsLoop'
    BY <2>1 DEF ErrStopsLoop
  <2>. QED BY <2>2, <2>3
<1>. QED BY <1>1, <1>2

\* LoopExitsStep: the step keeps the invariant (Client.Close)
LEMMA LoopExitsStep ==
    ASSUME IInv, LoopExits
    PROVE  IInv'
<1>. USE DEF IInv
<1>1. TypeOK'
  BY Zenon DEF TypeOK, LoopExits, vars, callers, channels, client, monitorVars, wire, serverVars
<1>2. ErrStopsLoop' /\ Numbered' /\ RequestsOnce' /\ SendOnce' /\ ToServerOnce' /\ AnswersPerformed' /\ ErrorComesFirst' /\ OwnAnswer' /\ FailStop'
  <2>1. UNCHANGED <<status, late, answer, seqOf, seq, messages, executed, requests, send, responses, err, toServer, toClient>>
    BY Zenon DEF LoopExits, vars, callers, channels, client, monitorVars, wire, serverVars
  <2>2. Numbered' /\ RequestsOnce' /\ SendOnce' /\ ToServerOnce' /\ AnswersPerformed' /\ ErrorComesFirst' /\ OwnAnswer' /\ FailStop'
    BY <2>1, CallersFrame, ServerFrame, AnswersFrame, ErrorFrame, Zenon
  <2>3. ErrStopsLoop'
    BY Zenon DEF ErrStopsLoop, LoopExits
  <2>. QED BY <2>2, <2>3
<1>. QED BY <1>1, <1>2

\* WriterExitsStep: the step keeps the invariant (Client.write)
LEMMA WriterExitsStep ==
    ASSUME IInv, WriterExits
    PROVE  IInv'
<1>. USE DEF IInv
<1>1. TypeOK'
  BY DEF TypeOK, WriterExits, vars, callers, channels, client, monitorVars, wire, serverVars
<1>2. ErrStopsLoop' /\ Numbered' /\ RequestsOnce' /\ SendOnce' /\ ToServerOnce' /\ AnswersPerformed' /\ ErrorComesFirst' /\ OwnAnswer' /\ FailStop'
  <2>1. UNCHANGED <<status, late, answer, seqOf, seq, messages, executed, requests, send, responses, err, loop, toServer, toClient>>
    BY Zenon DEF WriterExits, vars, callers, channels, client, monitorVars, wire, serverVars
  <2>2. Numbered' /\ RequestsOnce' /\ SendOnce' /\ ToServerOnce' /\ AnswersPerformed' /\ ErrorComesFirst' /\ OwnAnswer' /\ FailStop'
    BY <2>1, CallersFrame, ServerFrame, AnswersFrame, ErrorFrame
  <2>3. ErrStopsLoop'
    BY <2>1 DEF ErrStopsLoop
  <2>. QED BY <2>2, <2>3
<1>. QED BY <1>1, <1>2

\* ServerFatalStep: the step keeps the invariant (rpc.Server: logrus.Fatal)
LEMMA ServerFatalStep ==
    ASSUME IInv, ServerFatal
    PROVE  IInv'
<1>. USE DEF IInv
<1>1. toServer' = <<>> /\ toServer' \in Seq(MessageType) /\ Len(toServer') = 0
  BY EmptyFacts, Zenon DEF ServerFatal
<1>2. TypeOK'
  BY <1>1 DEF TypeOK, ServerFatal, vars, callers, channels, client, monitorVars, wire, serverVars
<1>3. ToServerOnce'
  BY <1>1 DEF ToServerOnce
<1>4. ErrStopsLoop' /\ Numbered' /\ RequestsOnce' /\ SendOnce' /\ AnswersPerformed' /\ ErrorComesFirst' /\ OwnAnswer' /\ FailStop'
  <2>1. UNCHANGED <<status, late, answer, seqOf, seq, messages, executed, requests, send, responses, err, loop, toClient>>
    BY Zenon DEF ServerFatal, vars, callers, channels, client, monitorVars, wire, serverVars
  <2>2. Numbered' /\ RequestsOnce' /\ AnswersPerformed' /\ ErrorComesFirst' /\ OwnAnswer' /\ FailStop'
    BY <2>1, CallersFrame, AnswersFrame, ErrorFrame, Zenon
  <2>3. ErrStopsLoop'
    BY <2>1, Zenon DEF ErrStopsLoop
  <2>4. SendOnce'
    BY <2>1, Zenon DEF SendOnce
  <2>. QED BY <2>2, <2>3, <2>4, Zenon
<1>. QED BY <1>2, <1>3, <1>4, Zenon

\* ServerEndsStep: the step keeps the invariant (Server.Handle)
LEMMA ServerEndsStep ==
    ASSUME IInv, ServerEnds
    PROVE  IInv'
<1>. USE DEF IInv
<1>1. TypeOK'
  BY DEF TypeOK, ServerEnds, vars, callers, channels, client, monitorVars, wire, serverVars
<1>2. ErrStopsLoop' /\ Numbered' /\ RequestsOnce' /\ SendOnce' /\ ToServerOnce' /\ AnswersPerformed' /\ ErrorComesFirst' /\ OwnAnswer' /\ FailStop'
  <2>1. UNCHANGED <<status, late, answer, seqOf, seq, messages, executed, requests, send, responses, err, loop, toServer, toClient>>
    BY Zenon DEF ServerEnds, vars, callers, channels, client, monitorVars, wire, serverVars
  <2>2. Numbered' /\ RequestsOnce' /\ SendOnce' /\ ToServerOnce' /\ AnswersPerformed' /\ ErrorComesFirst' /\ OwnAnswer' /\ FailStop'
    BY <2>1, CallersFrame, ServerFrame, AnswersFrame, ErrorFrame
  <2>3. ErrStopsLoop'
    BY <2>1 DEF ErrStopsLoop
  <2>. QED BY <2>2, <2>3
<1>. QED BY <1>1, <1>2

\* PingExpiresStep: the step keeps the invariant (Server.Handle)
LEMMA PingExpiresStep ==
    ASSUME IInv, PingExpires
    PROVE  IInv'
<1>. USE DEF IInv
<1>1. TypeOK'
  BY DEF TypeOK, PingExpires, vars, callers, channels, client, monitorVars, wire, serverVars
<1>2. ErrStopsLoop' /\ Numbered' /\ RequestsOnce' /\ SendOnce' /\ ToServerOnce' /\ AnswersPerformed' /\ ErrorComesFirst' /\ OwnAnswer' /\ FailStop'
  <2>1. UNCHANGED <<status, late, answer, seqOf, seq, messages, executed, requests, send, responses, err, loop, toServer, toClient>>
    BY Zenon DEF PingExpires, vars, callers, channels, client, monitorVars, wire, serverVars
  <2>2. Numbered' /\ RequestsOnce' /\ SendOnce' /\ ToServerOnce' /\ AnswersPerformed' /\ ErrorComesFirst' /\ OwnAnswer' /\ FailStop'
    BY <2>1, CallersFrame, ServerFrame, AnswersFrame, ErrorFrame
  <2>3. ErrStopsLoop'
    BY <2>1 DEF ErrStopsLoop
  <2>. QED BY <2>2, <2>3
<1>. QED BY <1>1, <1>2

\* ServerExitsStep: the step keeps the invariant (ListenAndServe)
LEMMA ServerExitsStep ==
    ASSUME IInv, ServerExits
    PROVE  IInv'
<1>. USE DEF IInv
<1>1. toServer' = <<>> /\ toServer' \in Seq(MessageType) /\ Len(toServer') = 0
  BY EmptyFacts, Zenon DEF ServerExits
<1>2. TypeOK'
  BY <1>1 DEF TypeOK, ServerExits, vars, callers, channels, client, monitorVars, wire, serverVars
<1>3. ToServerOnce'
  BY <1>1 DEF ToServerOnce
<1>4. ErrStopsLoop' /\ Numbered' /\ RequestsOnce' /\ SendOnce' /\ AnswersPerformed' /\ ErrorComesFirst' /\ OwnAnswer' /\ FailStop'
  <2>1. UNCHANGED <<status, late, answer, seqOf, seq, messages, executed, requests, send, responses, err, loop, toClient>>
    BY Zenon DEF ServerExits, vars, callers, channels, client, monitorVars, wire, serverVars
  <2>2. Numbered' /\ RequestsOnce' /\ AnswersPerformed' /\ ErrorComesFirst' /\ OwnAnswer' /\ FailStop'
    BY <2>1, CallersFrame, AnswersFrame, ErrorFrame
  <2>3. ErrStopsLoop'
    BY <2>1 DEF ErrStopsLoop
  <2>4. SendOnce'
    BY <2>1 DEF SendOnce
  <2>. QED BY <2>2, <2>3, <2>4
<1>. QED BY <1>2, <1>3, <1>4

\* LinkBreaksStep: the step keeps the invariant (the network)
LEMMA LinkBreaksStep ==
    ASSUME IInv, LinkBreaks
    PROVE  IInv'
<1>. USE DEF IInv
<1>1. toClient' = <<>> /\ toClient' \in Seq(MessageType) /\ Len(toClient') = 0
  BY EmptyFacts, Zenon DEF LinkBreaks
<1>2. TypeOK'
  BY <1>1 DEF TypeOK, LinkBreaks, vars, callers, channels, client, monitorVars, wire, serverVars
<1>3. AnswersPerformed'
  BY <1>1 DEF AnswersPerformed, Performed, Genuine, LinkBreaks, vars, callers, channels, client, monitorVars, wire, serverVars
<1>4. ErrStopsLoop' /\ Numbered' /\ RequestsOnce' /\ SendOnce' /\ ToServerOnce' /\ ErrorComesFirst' /\ OwnAnswer' /\ FailStop'
  <2>1. UNCHANGED <<status, late, answer, seqOf, seq, messages, executed, requests, send, responses, err, loop, toServer>>
    BY Zenon DEF LinkBreaks, vars, callers, channels, client, monitorVars, wire, serverVars
  <2>2. Numbered' /\ RequestsOnce' /\ SendOnce' /\ ToServerOnce' /\ ErrorComesFirst' /\ OwnAnswer' /\ FailStop'
    BY <2>1, CallersFrame, ServerFrame, ErrorFrame, Zenon
  <2>3. ErrStopsLoop'
    BY <2>1 DEF ErrStopsLoop
  <2>. QED BY <2>2, <2>3, Zenon
<1>. QED BY <1>2, <1>3, <1>4, Zenon

\* TimeoutStep: the step keeps the invariant (operation, SetError)
LEMMA TimeoutStep ==
    ASSUME IInv, NEW o \in Ops, Timeout(o)
    PROVE  IInv'
<1>. USE DEF IInv
<1>1. responses' \in Seq(MessageType) /\ AnswersPerformed' /\ ErrorComesFirst'
  <2>1. responses' = ToLoop(TransportError) /\ UNCHANGED <<late, err, seqOf, executed, toClient>>
    BY Zenon DEF Timeout, SetErrorOnTimeout, vars, callers, channels, client, monitorVars, wire, serverVars
  <2>. QED BY <2>1, ErrorPushed, Zenon
<1>2. TypeOK'
  BY <1>1 DEF TypeOK, Statuses, Timeout, SetErrorOnTimeout, vars, callers, channels, client, monitorVars, wire, serverVars
<1>3. Numbered' /\ RequestsOnce'
  <2>1. \A p \in Ops : status'[p] = "new" <=> status[p] = "new"
    BY Zenon DEF TypeOK, Timeout
  <2>2. UNCHANGED <<seqOf, seq, messages, executed, requests>>
    BY Zenon DEF Timeout, client, serverVars
  <2>3. \A i \in 1 .. Len(requests) : requests[i] \in Ops
    BY DEF TypeOK
  <2>4. Numbered'
    BY <2>1, <2>2, Zenon DEF Numbered
  <2>5. RequestsOnce'
    BY <2>1, <2>2, <2>3, Zenon DEF RequestsOnce
  <2>. QED BY <2>4, <2>5, Zenon
<1>4. OwnAnswer' /\ FailStop'
  <2>1. \A p \in Ops : status'[p] = "ok" => status[p] = "ok"
    BY Zenon DEF TypeOK, Timeout
  <2>2. UNCHANGED <<late, answer, executed>>
    BY Zenon DEF Timeout, serverVars
  <2>. QED BY <2>1, <2>2, Zenon DEF OwnAnswer, FailStop
<1>5. ErrStopsLoop' /\ SendOnce' /\ ToServerOnce'
  <2>1. UNCHANGED <<seqOf, executed, send, err, loop, toServer>>
    BY Zenon DEF Timeout, SetErrorOnTimeout, vars, callers, channels, client, monitorVars, wire, serverVars
  <2>2. SendOnce' /\ ToServerOnce'
    BY <2>1, ServerFrame, Zenon
  <2>3. ErrStopsLoop'
    BY <2>1, Zenon DEF ErrStopsLoop
  <2>. QED BY <2>2, <2>3, Zenon
<1>. QED BY <1>1, <1>2, <1>3, <1>4, <1>5, Zenon

\* WriterFailsStep: the step keeps the invariant (Client.write, SetError)
LEMMA WriterFailsStep ==
    ASSUME IInv, WriterFails
    PROVE  IInv'
<1>. USE DEF IInv
<1>1. responses' \in Seq(MessageType) /\ AnswersPerformed' /\ ErrorComesFirst'
  <2>1. responses' = ToLoop(TransportError) /\ UNCHANGED <<late, err, seqOf, executed, toClient>>
    BY Zenon DEF WriterFails, vars, callers, channels, client, monitorVars, wire, serverVars
  <2>. QED BY <2>1, ErrorPushed, Zenon
<1>2. /\ Len(send) \in Nat /\ Len(send') = Len(send) - 1
      /\ \A i \in 1 .. Len(send') : send'[i] = send[i + 1] /\ i + 1 \in 1 .. Len(send)
  <2>1. send \in Seq(Ops) /\ send # <<>> /\ send' = Tail(send)
    BY Zenon DEF TypeOK, WriterFails
  <2>. QED BY <2>1, TailFacts
<1>2a. send' \in Seq(Ops)
  <2>1. send \in Seq(Ops) /\ send # <<>> /\ send' = Tail(send)
    BY DEF TypeOK, WriterFails
  <2>. QED BY <2>1, TailFacts, Zenon
<1>3. TypeOK'
  BY <1>1, <1>2a DEF TypeOK, WriterFails, vars, callers, channels, client, monitorVars, wire, serverVars
<1>4. SendOnce'
  <2>1. UNCHANGED <<seqOf, executed>>
    BY Zenon DEF WriterFails, vars, callers, channels, client, monitorVars, wire, serverVars
  <2>2. \A i \in 1 .. Len(send') : seqOf'[send'[i]] # 0 /\ executed'[send'[i]] = 0
    BY <1>2, <2>1 DEF SendOnce
  <2>3. \A i, j \in 1 .. Len(send') : send'[i] = send'[j] => i = j
    BY <1>2 DEF SendOnce
  <2>. QED BY <2>2, <2>3, Zenon DEF SendOnce
<1>5. ToServerOnce'
  <2>1. UNCHANGED <<seqOf, executed, toServer>>
    BY Zenon DEF WriterFails, vars, callers, channels, client, monitorVars, wire, serverVars
  <2>. QED BY <1>2, <2>1 DEF ToServerOnce, Genuine
<1>6. ErrStopsLoop' /\ Numbered' /\ RequestsOnce' /\ OwnAnswer' /\ FailStop'
  <2>1. UNCHANGED <<status, late, answer, seqOf, seq, messages, executed, requests, err, loop>>
    BY Zenon DEF WriterFails, vars, callers, channels, client, monitorVars, wire, serverVars
  <2>2. Numbered' /\ RequestsOnce' /\ OwnAnswer' /\ FailStop'
    BY <2>1, CallersFrame, Zenon
  <2>3. ErrStopsLoop'
    BY <2>1, Zenon DEF ErrStopsLoop
  <2>. QED BY <2>2, <2>3, Zenon
<1>. QED BY <1>1, <1>3, <1>4, <1>5, <1>6, Zenon

\* ReaderFailsStep: the step keeps the invariant (Client.read, SetError)
LEMMA ReaderFailsStep ==
    ASSUME IInv, ReaderFails
    PROVE  IInv'
<1>. USE DEF IInv
<1>1. responses' \in Seq(MessageType) /\ AnswersPerformed' /\ ErrorComesFirst'
  <2>1. responses' = ToLoop(TransportError) /\ UNCHANGED <<late, err, seqOf, executed, toClient>>
    BY Zenon DEF ReaderFails, vars, callers, channels, client, monitorVars, wire, serverVars
  <2>. QED BY <2>1, ErrorPushed
<1>2. TypeOK'
  BY <1>1 DEF TypeOK, Statuses, ReaderFails, vars, callers, channels, client, monitorVars, wire, serverVars
<1>3. ErrStopsLoop' /\ Numbered' /\ RequestsOnce' /\ SendOnce' /\ ToServerOnce' /\ OwnAnswer' /\ FailStop'
  <2>1. UNCHANGED <<status, late, answer, seqOf, seq, messages, executed, requests, send, err, loop, toServer>>
    BY Zenon DEF ReaderFails, vars, callers, channels, client, monitorVars, wire, serverVars
  <2>2. Numbered' /\ RequestsOnce' /\ SendOnce' /\ ToServerOnce' /\ OwnAnswer' /\ FailStop'
    BY <2>1, CallersFrame, ServerFrame, Zenon
  <2>3. ErrStopsLoop'
    BY <2>1, Zenon DEF ErrStopsLoop
  <2>. QED BY <2>2, <2>3, Zenon
<1>. QED BY <1>1, <1>2, <1>3, Zenon

\* MonitorReturnsStep: the step keeps the invariant (monitorPing, SetError)
LEMMA MonitorReturnsStep ==
    ASSUME IInv, MonitorReturns
    PROVE  IInv'
<1>. USE DEF IInv
<1>1. responses' \in Seq(MessageType) /\ AnswersPerformed' /\ ErrorComesFirst'
  <2>1. CASE status[monitor] = "ok"
    <3>1. UNCHANGED <<late, err, seqOf, executed, toClient, responses, status>>
      BY <2>1, Zenon DEF MonitorReturns, vars, callers, channels, client, monitorVars, wire, serverVars
    <3>2. responses \in Seq(MessageType)
      BY Zenon DEF TypeOK
    <3>. QED BY <3>1, <3>2, AnswersFrame, ErrorFrame, Zenon
  <2>2. CASE status[monitor] # "ok"
    <3>1. responses' = ToLoop(TransportError) /\ UNCHANGED <<late, err, seqOf, executed, toClient>>
      BY <2>2, Zenon DEF MonitorReturns, vars, callers, channels, client, monitorVars, wire, serverVars
    <3>. QED BY <3>1, ErrorPushed
  <2>. QED BY <2>1, <2>2, Zenon
<1>2. TypeOK'
  BY <1>1 DEF TypeOK, MonitorReturns, vars, callers, channels, client, monitorVars, wire, serverVars
<1>3. ErrStopsLoop' /\ Numbered' /\ RequestsOnce' /\ SendOnce' /\ ToServerOnce' /\ OwnAnswer' /\ FailStop'
  <2>1. UNCHANGED <<status, late, answer, seqOf, seq, messages, executed, requests, send, err, loop, toServer>>
    BY Zenon DEF MonitorReturns, vars, callers, channels, client, monitorVars, wire, serverVars
  <2>2. Numbered' /\ RequestsOnce' /\ SendOnce' /\ ToServerOnce' /\ OwnAnswer' /\ FailStop'
    BY <2>1, CallersFrame, ServerFrame
  <2>3. ErrStopsLoop'
    BY <2>1 DEF ErrStopsLoop
  <2>. QED BY <2>2, <2>3
<1>. QED BY <1>1, <1>2, <1>3

----------------------------------------------------------------------------
(* The callers and the client's loop                                         *)

\* InvokeStep: what operation does to the callers and the request channel; a
\* response to an operation that is only now invoked cannot be on its way
LEMMA InvokeStep ==
    ASSUME IInv, NEW o \in Ops, Invoke(o), UNCHANGED <<send, responses, client, wire, serverVars>>
    PROVE  /\ status' \in [Ops -> Statuses] /\ late' \in [Ops -> BOOLEAN]
           /\ answer' \in [Ops -> Ops \union {None}] /\ requests' \in Seq(Ops)
           /\ ErrStopsLoop' /\ Numbered' /\ RequestsOnce' /\ SendOnce' /\ ToServerOnce'
           /\ AnswersPerformed' /\ ErrorComesFirst' /\ OwnAnswer' /\ FailStop'
<1>. USE DEF IInv
<1>1. /\ status[o] = "new" /\ status' \in [Ops -> Statuses]
      /\ \A p \in Ops : p # o => status'[p] = status[p]
      /\ status'[o] \in {"failed", "waiting"}
      /\ status'[o] = "failed" => err
      /\ answer' = answer /\ answer \in [Ops -> Ops \union {None}]
  BY Zenon DEF Invoke, TypeOK, Statuses
<1>2. /\ late' \in [Ops -> BOOLEAN] /\ late \in [Ops -> BOOLEAN]
      /\ \A p \in Ops : p # o => late'[p] = late[p]
      /\ late'[o] => \E p \in Ops : Broken(p)
  BY Zenon DEF Invoke, TypeOK
<1>3. UNCHANGED <<send, responses, seqOf, seq, messages, err, loop, toServer, toClient, executed>>
  BY Zenon DEF vars, callers, channels, client, monitorVars, wire, serverVars
<1>4. requests \in Seq(Ops) /\ responses \in Seq(MessageType)
  BY Zenon DEF TypeOK
<1>5. seqOf[o] = 0
  BY <1>1, Zenon DEF Numbered
<1>6. requests' \in Seq(Ops) /\ RequestsOnce'
  <2>1. CASE requests' = requests
    BY <1>1, <1>3, <1>4, <2>1 DEF RequestsOnce
  <2>2. CASE requests' = Append(requests, o)
    <3>0. requests' \in Seq(Ops)
      BY <1>4, <2>2, AppendFacts, Zenon
    <3>1. /\ Len(requests) \in Nat /\ Len(requests') = Len(requests) + 1
          /\ \A i \in 1 .. Len(requests) : requests'[i] = requests[i] /\ requests[i] \in Ops
          /\ requests'[Len(requests) + 1] = o
      BY <1>4, <2>2, AppendFacts
    <3>2. \A i \in 1 .. Len(requests) : requests[i] # o
      BY <1>1, Zenon DEF RequestsOnce
    <3>3. \A i \in 1 .. Len(requests') : i \in 1 .. Len(requests) \/ i = Len(requests) + 1
      BY <3>1
    <3>4. \A i \in 1 .. Len(requests') : seqOf'[requests'[i]] = 0 /\ status'[requests'[i]] # "new"
      BY <1>1, <1>3, <1>5, <3>1, <3>2, <3>3 DEF RequestsOnce
    <3>5. \A i, j \in 1 .. Len(requests') : requests'[i] = requests'[j] => i = j
      BY <3>1, <3>2, <3>3 DEF RequestsOnce
    <3>. QED BY <3>0, <3>4, <3>5, Zenon DEF RequestsOnce
  <2>. QED BY <2>1, <2>2, Zenon DEF Invoke
<1>7. Numbered'
  BY <1>1, <1>3, Zenon DEF Numbered
<1>8. ErrorComesFirst'
  <2>1. (\E p \in Ops : Broken(p)) => err \/ HasError
    BY Zenon DEF ErrorComesFirst
  <2>2. HasError' <=> HasError
    BY <1>3, Zenon DEF HasError
  <2>3. (\E p \in Ops : Broken(p)') => err \/ HasError
    BY <1>1, <2>1, Zenon DEF Broken
  <2>4. \A p \in Ops : late'[p] => err \/ HasError
    BY <1>2, <2>1, Zenon DEF ErrorComesFirst
  <2>5. \A i \in 1 .. Len(responses) : responses[i].kind # "transport" => responses[i].op \in Ops /\ responses[i].op # o
    BY <1>5, Zenon DEF AnswersPerformed, Performed, Genuine
  <2>6. \A i \in 1 .. Len(responses) : responses[i].kind # "transport" /\ late'[responses[i].op]
            => \E j \in 1 .. i - 1 : responses[j].kind = "transport"
    BY <1>2, <2>5, Zenon DEF ErrorComesFirst
  <2>. QED BY <1>3, <2>2, <2>3, <2>4, <2>6, Zenon DEF ErrorComesFirst
<1>9. ErrStopsLoop' /\ SendOnce' /\ ToServerOnce' /\ AnswersPerformed'
  <2>1. ErrStopsLoop' /\ SendOnce'
    BY <1>3, Zenon DEF ErrStopsLoop, SendOnce
  <2>2. ToServerOnce'
    BY <1>3, ServerFrame, Zenon
  <2>3. AnswersPerformed'
    BY <1>3, AnswersFrame, Zenon
  <2>. QED BY <2>1, <2>2, <2>3, Zenon
<1>10. OwnAnswer' /\ FailStop'
  BY <1>1, <1>2, <1>3 DEF OwnAnswer, FailStop
<1>. QED BY <1>1, <1>2, <1>6, <1>7, <1>8, <1>9, <1>10, Zenon

\* CallStep: the step keeps the invariant (operation)
LEMMA CallStep ==
    ASSUME IInv, NEW o \in Ops, Call(o)
    PROVE  IInv'
<1>. USE DEF IInv
<1>1. Invoke(o) /\ UNCHANGED <<send, responses, client, wire, serverVars>>
  BY Zenon DEF Call
<1>2. TypeOK'
  BY <1>1, InvokeStep DEF TypeOK, Call, vars, callers, channels, client, monitorVars, wire, serverVars
<1>. QED BY <1>1, <1>2, InvokeStep, Zenon

\* MonitorPingsStep: the step keeps the invariant (monitorPing)
LEMMA MonitorPingsStep ==
    ASSUME IInv, NEW o \in Ops, MonitorPings(o)
    PROVE  IInv'
<1>. USE DEF IInv
<1>1. Invoke(o) /\ UNCHANGED <<send, responses, client, wire, serverVars>>
  BY Zenon DEF MonitorPings
<1>2. TypeOK'
  BY <1>1, InvokeStep DEF TypeOK, MonitorPings, vars, callers, channels, client, monitorVars, wire, serverVars
<1>. QED BY <1>1, <1>2, InvokeStep

\* LoopErrorStep: the step keeps the invariant (handleResponse)
LEMMA LoopErrorStep ==
    ASSUME IInv, LoopError
    PROVE  IInv'
<1>. USE DEF IInv
<1>1. /\ responses' = <<>> /\ requests' = <<>> /\ responses' \in Seq(MessageType) /\ requests' \in Seq(Ops)
      /\ Len(requests') = 0 /\ Len(responses') = 0 /\ err' = TRUE /\ loop' = "failed"
  BY EmptyFacts, Zenon DEF LoopError
<1>2. TypeOK'
  <2>1. closeChan' \in 0 .. CloseCapacity
    BY RpcAssumption DEF LoopError, TypeOK
  <2>. QED BY <1>1, <2>1, Zenon
       DEF TypeOK, LoopError, callers, channels, client, monitorVars, wire, serverVars
<1>3. ErrStopsLoop' /\ RequestsOnce' /\ ErrorComesFirst'
  <2>1. ErrStopsLoop'
    BY <1>1, Zenon DEF ErrStopsLoop
  <2>2. RequestsOnce'
    BY <1>1 DEF RequestsOnce
  <2>3. ErrorComesFirst'
    BY <1>1 DEF ErrorComesFirst
  <2>. QED BY <2>1, <2>2, <2>3, Zenon
<1>4. AnswersPerformed'
  <2>1. UNCHANGED <<toClient, executed, seqOf>>
    BY Zenon DEF LoopError, vars, callers, channels, client, monitorVars, wire, serverVars
  <2>. QED BY <1>1, <2>1 DEF AnswersPerformed, Performed, Genuine
<1>5. Numbered' /\ SendOnce' /\ ToServerOnce' /\ OwnAnswer' /\ FailStop'
  <2>1. UNCHANGED <<status, late, answer, seqOf, seq, messages, executed, send, toServer>>
    BY Zenon DEF LoopError, vars, callers, channels, client, monitorVars, wire, serverVars
  <2>2. SendOnce' /\ ToServerOnce'
    BY <2>1, ServerFrame, Zenon
  <2>3. Numbered'
    BY <2>1, Zenon DEF Numbered
  <2>4. OwnAnswer'
    BY <2>1, Zenon DEF OwnAnswer
  <2>5. FailStop'
    BY <2>1, Zenon DEF FailStop
  <2>. QED BY <2>2, <2>3, <2>4, <2>5, Zenon
<1>. QED BY <1>2, <1>3, <1>4, <1>5, Zenon

\* LoopTerminatesStep: the step keeps the invariant (replyError, loop)
LEMMA LoopTerminatesStep ==
    ASSUME IInv, LoopTerminates
    PROVE  IInv'
<1>. USE DEF IInv
<1>1. /\ messages' = {} /\ loop = "failed" /\ loop' \in {"closing", "exited"} /\ err' = err
      /\ shut' \in {shut, TRUE} /\ toClient' \in {toClient, <<>>}
  BY Zenon DEF LoopTerminates
<1>1a. toClient' \in Seq(MessageType)
  BY <1>1, EmptyFacts, Zenon DEF TypeOK
<1>2. /\ status' \in [Ops -> Statuses]
      /\ \A o \in Ops : status'[o] \in {"ok", "new"} => status'[o] = status[o]
      /\ \A o \in Ops : status'[o] = "new" <=> status[o] = "new"
  BY Zenon DEF LoopTerminates, TypeOK, Statuses
<1>3. UNCHANGED <<seqOf, seq, requests, responses, send, toServer, executed, answer, late>>
  BY Zenon DEF LoopTerminates, channels, serverVars
<1>4. TypeOK'
  <2>1. UNCHANGED <<reader, writer, monitor, closeChan, stops, told, link, server, pinged>>
    BY Zenon DEF LoopTerminates, monitorVars, serverVars
  <2>2. messages' \subseteq Ops /\ shut' \in BOOLEAN /\ loop' \in {"run", "failed", "closing", "exited"}
    BY <1>1, Zenon DEF TypeOK
  <2>. QED BY <1>1, <1>1a, <1>2, <1>3, <2>1, <2>2, Zenon DEF TypeOK
<1>5. err
  BY <1>1, Zenon DEF ErrStopsLoop
<1>6. ErrStopsLoop' /\ ErrorComesFirst'
  BY <1>1, <1>3, <1>5, Zenon DEF ErrStopsLoop, ErrorComesFirst
<1>7. Numbered'
  BY <1>1, <1>2, <1>3, Zenon DEF Numbered
<1>8. RequestsOnce'
  <2>1. \A i \in 1 .. Len(requests) : requests[i] \in Ops
    BY DEF TypeOK
  <2>. QED BY <1>2, <1>3, <2>1, Zenon DEF RequestsOnce
<1>9. SendOnce' /\ ToServerOnce'
  BY <1>3, ServerFrame, Zenon
<1>10. AnswersPerformed'
  <2>1. CASE toClient' = toClient
    BY <1>3, <2>1, Zenon DEF AnswersPerformed, Performed, Genuine
  <2>2. CASE toClient' = <<>>
    BY <1>3, <2>2 DEF AnswersPerformed, Performed, Genuine
  <2>. QED BY <1>1, <2>1, <2>2, Zenon
<1>11. OwnAnswer' /\ FailStop'
  BY <1>2, <1>3, Zenon DEF OwnAnswer, FailStop
<1>. QED BY <1>4, <1>6, <1>7, <1>8, <1>9, <1>10, <1>11, Zenon

\* LoopRequestStep: the step keeps the invariant; the number is new (handleRequest, nextSeq)
LEMMA LoopRequestStep ==
    ASSUME IInv, LoopRequest
    PROVE  IInv'
<1>. USE DEF IInv
<1>. DEFINE o == Head(requests)
<1>1. /\ requests \in Seq(Ops) /\ requests # <<>> /\ requests' = Tail(requests)
      /\ send \in Seq(Ops) /\ send' = Append(send, o)
      /\ seq' = seq + 1 /\ seq \in Nat /\ messages' = messages \union {o} /\ messages \subseteq Ops
  BY Zenon DEF LoopRequest, TypeOK
<1>2. /\ o \in Ops /\ o = requests[1] /\ Len(requests) \in Nat /\ Len(requests) >= 1
      /\ Len(requests') = Len(requests) - 1
      /\ \A i \in 1 .. Len(requests) - 1 : requests'[i] = requests[i + 1]
      /\ \A i \in 1 .. Len(requests) : requests[i] \in Ops
  BY <1>1, TailFacts, Zenon
<1>2a. requests' \in Seq(Ops)
  BY <1>1, TailFacts, Zenon
<1>3. /\ Len(send) \in Nat /\ Len(send') = Len(send) + 1
      /\ \A i \in 1 .. Len(send) : send'[i] = send[i] /\ send[i] \in Ops
      /\ send'[Len(send) + 1] = o
  BY <1>1, <1>2, AppendFacts
<1>3a. send' \in Seq(Ops)
  BY <1>1, <1>2, AppendFacts, Zenon
<1>4. /\ seqOf \in [Ops -> Nat] /\ seqOf' \in [Ops -> Nat] /\ seqOf'[o] = seq + 1
      /\ \A p \in Ops : p # o => seqOf'[p] = seqOf[p]
  BY <1>1, <1>2 DEF LoopRequest, TypeOK
<1>. HIDE DEF o
<1>5. UNCHANGED <<status, late, answer, responses, err, loop, toServer, toClient, executed>>
  BY Zenon DEF LoopRequest, callers, wire, serverVars
<1>6. seqOf[o] = 0 /\ status[o] # "new" /\ executed[o] = 0
  BY <1>2 DEF RequestsOnce, Numbered
<1>7. TypeOK'
  BY <1>1, <1>2, <1>2a, <1>3a, <1>4 DEF TypeOK, LoopRequest, vars, callers, channels, client, monitorVars, wire, serverVars
<1>8. Numbered'
  <2>0. \A p \in Ops : seqOf[p] \in Nat /\ seqOf[p] <= seq
    BY <1>4, Zenon DEF Numbered
  <2>1. \A p \in Ops : seqOf'[p] <= seq' /\ (p # o => seqOf'[p] # seqOf'[o])
    BY <1>1, <1>2, <1>4, <2>0
  <2>2. ASSUME NEW p \in Ops, NEW q \in Ops, seqOf'[p] # 0, seqOf'[p] = seqOf'[q]
        PROVE  p = q
    <3>1. CASE p = o \/ q = o
      BY <2>1, <2>2, <3>1, Zenon
    <3>2. CASE p # o /\ q # o
      BY <1>4, <2>2, <3>2, Zenon DEF Numbered
    <3>. QED BY <3>1, <3>2, Zenon
  <2>3. \A p \in messages' : seqOf'[p] # 0
    BY <1>1, <1>2, <1>4 DEF Numbered
  <2>4. \A p \in Ops : (status'[p] = "new" => seqOf'[p] = 0) /\ (seqOf'[p] = 0 => executed'[p] = 0)
    BY <1>1, <1>4, <1>5, <1>6, Zenon DEF Numbered
  <2>. QED BY <2>1, <2>2, <2>3, <2>4, Zenon DEF Numbered
<1>9. RequestsOnce'
  <2>1. \A i \in 1 .. Len(requests') : requests'[i] = requests[i + 1] /\ i + 1 \in 1 .. Len(requests) /\ i + 1 # 1
    BY <1>2
  <2>2. ASSUME NEW i \in 1 .. Len(requests')
        PROVE  requests'[i] # o /\ requests'[i] \in Ops
    <3>1. /\ 1 \in 1 .. Len(requests) /\ i + 1 \in 1 .. Len(requests) /\ i + 1 # 1
          /\ requests'[i] = requests[i + 1]
      BY <1>2, <2>1
    <3>. QED BY <1>2, <3>1, Zenon DEF RequestsOnce
  <2>3. \A i \in 1 .. Len(requests') : seqOf'[requests'[i]] = 0 /\ status'[requests'[i]] # "new"
    BY <1>4, <1>5, <2>1, <2>2 DEF RequestsOnce
  <2>4. \A i, j \in 1 .. Len(requests') : requests'[i] = requests'[j] => i = j
    BY <1>2, <2>1 DEF RequestsOnce
  <2>. QED BY <2>3, <2>4, Zenon DEF RequestsOnce
<1>10. SendOnce'
  <2>1. \A i \in 1 .. Len(send) : send[i] # o
    BY <1>6, Zenon DEF SendOnce
  <2>2. \A i \in 1 .. Len(send') : i \in 1 .. Len(send) \/ i = Len(send) + 1
    BY <1>3
  <2>3. \A i \in 1 .. Len(send') : seqOf'[send'[i]] # 0 /\ executed'[send'[i]] = 0
    <3>1. \A i \in 1 .. Len(send) : seqOf'[send[i]] # 0 /\ executed'[send[i]] = 0
      BY <1>3, <1>4, <1>5, <2>1, Zenon DEF SendOnce
    <3>2. seqOf'[o] # 0 /\ executed'[o] = 0
      BY <1>1, <1>4, <1>5, <1>6
    <3>. QED BY <1>3, <2>2, <3>1, <3>2, Zenon
  <2>4. \A i, j \in 1 .. Len(send') : send'[i] = send'[j] => i = j
    BY <1>3, <2>1, <2>2 DEF SendOnce
  <2>. QED BY <2>3, <2>4 DEF SendOnce
<1>12. ToServerOnce'
  <2>1. \A i \in 1 .. Len(toServer) : Genuine(toServer[i])' /\ executed[toServer[i].op] = 0 /\ toServer[i].op # o
    <3>1. \A i \in 1 .. Len(toServer) : toServer[i].op \in Ops /\ toServer[i].op # o /\ executed[toServer[i].op] = 0
      BY <1>6, Zenon DEF ToServerOnce, Genuine
    <3>. QED BY <1>4, <1>5, <3>1, Zenon DEF ToServerOnce, Genuine
  <2>2. \A i \in 1 .. Len(toServer), j \in 1 .. Len(send') : toServer[i].op # send'[j]
    <3>1. \A j \in 1 .. Len(send') : send'[j] = o \/ (j \in 1 .. Len(send) /\ send'[j] = send[j])
      BY <1>3
    <3>. QED BY <2>1, <3>1 DEF ToServerOnce
  <2>. QED BY <1>5, <2>1, <2>2, Zenon DEF ToServerOnce, Genuine
<1>13. AnswersPerformed'
  <2>1. \A m : Performed(m) => m.op \in Ops /\ m.op # o /\ executed[m.op] = 1
    BY <1>6, Zenon DEF Performed, Genuine
  <2>2. \A i \in 1 .. Len(toClient) : Performed(toClient[i])'
    BY <1>4, <1>5, <2>1 DEF AnswersPerformed, Performed, Genuine
  <2>3. ASSUME NEW i \in 1 .. Len(responses), responses[i].kind # "transport"
        PROVE  Performed(responses[i])'
    <3>1. Performed(responses[i]) /\ responses'[i] = responses[i]
      BY <1>5, <2>3, Zenon DEF AnswersPerformed
    <3>. QED BY <1>4, <1>5, <2>1, <3>1, Zenon DEF Performed, Genuine
  <2>. QED BY <1>5, <2>2, <2>3, Zenon DEF AnswersPerformed
<1>14. ErrStopsLoop' /\ ErrorComesFirst' /\ OwnAnswer' /\ FailStop'
  <2>1. ErrorComesFirst'
    BY <1>5, ErrorFrame, Zenon
  <2>. QED BY <1>5, <2>1, Zenon DEF ErrStopsLoop, OwnAnswer, FailStop
<1>. QED BY <1>7, <1>8, <1>9, <1>10, <1>12, <1>13, <1>14, Zenon

\* LoopResponseStep: the step keeps the invariant; the response is the operation's own,
\* and not that of an operation invoked late (handleResponse)
LEMMA LoopResponseStep ==
    ASSUME IInv, LoopResponse
    PROVE  IInv'
<1>. USE DEF IInv
<1>. DEFINE m == Head(responses)
<1>1. responses \in Seq(MessageType) /\ responses # <<>> /\ responses' = Tail(responses) /\ m.kind # "transport"
  BY Zenon DEF LoopResponse, TypeOK
<1>2. /\ Len(responses) \in Nat /\ Len(responses) >= 1
      /\ Len(responses') = Len(responses) - 1 /\ m = responses[1]
      /\ \A i \in 1 .. Len(responses') : responses'[i] = responses[i + 1] /\ i + 1 \in 1 .. Len(responses)
  BY <1>1, TailFacts
<1>2a. responses' \in Seq(MessageType)
  BY <1>1, TailFacts, Zenon
<1>. HIDE DEF m
<1>3. UNCHANGED <<late, requests, send, seqOf, seq, err, loop, toServer, toClient, executed>>
  BY Zenon DEF LoopResponse, wire, serverVars
<1>4. Performed(m) /\ m.op \in Ops
  BY <1>1, <1>2 DEF AnswersPerformed, Performed, Genuine
<1>5. ~late[m.op]
  BY <1>1, <1>2 DEF ErrorComesFirst
<1>6. \A o \in Answered(m) : o = m.op
  <2>1. messages \subseteq Ops
    BY Zenon DEF TypeOK
  <2>. QED BY <1>4, <2>1, Zenon DEF Answered, Performed, Genuine, Numbered
<1>7. /\ status' \in [Ops -> Statuses] /\ answer' \in [Ops -> Ops \union {None}] /\ messages' \subseteq messages
      /\ \A o \in Ops : status'[o] # status[o] => o = m.op /\ status[o] = "waiting" /\ status'[o] = m.kind
      /\ \A o \in Ops : answer'[o] # answer[o] => o = m.op
      /\ \A o \in Ops : status'[o] # status[o] => answer'[o] = m.op
      /\ answer'[m.op] # answer[m.op] => answer'[m.op] = m.op
  <2>1. CASE Answered(m) = {}
    <3>1. UNCHANGED <<messages, answer, status>>
      BY <2>1, Zenon DEF LoopResponse, m
    <3>. QED BY <3>1, Zenon DEF TypeOK
  <2>2. CASE Answered(m) # {}
    <3>1. /\ messages' = messages \ {m.op}
          /\ answer' = [answer EXCEPT ![m.op] = m.op]
          /\ status' = Return(m.op, m.kind)
      BY <1>6, <2>2, Zenon DEF LoopResponse, m
    <3>2. m.kind \in Statuses
      BY <1>4, Zenon DEF Performed, Statuses
    <3>. QED BY <1>4, <3>1, <3>2, SMTT(20) DEF TypeOK, Return
  <2>. QED BY <2>1, <2>2, Zenon
<1>8. TypeOK'
  <2>1. messages' \subseteq Ops
    BY <1>7, Zenon DEF TypeOK
  <2>2. UNCHANGED <<late, requests, send, seqOf, seq, err, loop, reader, writer, monitor, closeChan,
                    stops, told, toServer, toClient, link, shut, server, pinged, executed>>
    BY Zenon DEF LoopResponse, monitorVars, wire, serverVars
  <2>. QED BY <1>2a, <1>7, <2>1, <2>2 DEF TypeOK
<1>9. m.kind \in {"ok", "error"} /\ executed[m.op] = 1
  BY <1>4, Zenon DEF Performed
<1>10. Numbered' /\ RequestsOnce'
  <2>1. \A o \in Ops : status'[o] = "new" <=> status[o] = "new"
    <3>1. m.kind # "new"
      BY <1>9, Zenon
    <3>. QED BY <1>7, <3>1, Zenon
  <2>2. \A i \in 1 .. Len(requests) : requests[i] \in Ops
    BY DEF TypeOK
  <2>3. Numbered'
    <3>1. messages' \subseteq messages
      BY <1>7, Zenon
    <3>. QED BY <1>3, <2>1, <3>1, Zenon DEF Numbered
  <2>4. RequestsOnce'
    BY <1>3, <2>1, <2>2, Zenon DEF RequestsOnce
  <2>. QED BY <2>3, <2>4, Zenon
<1>11. ErrStopsLoop' /\ SendOnce' /\ ToServerOnce'
  <2>1. SendOnce' /\ ToServerOnce'
    BY <1>3, ServerFrame, Zenon
  <2>. QED BY <1>3, <2>1, Zenon DEF ErrStopsLoop
<1>12. AnswersPerformed'
  <2>2. ASSUME NEW i \in 1 .. Len(responses'), responses'[i].kind # "transport"
        PROVE  Performed(responses[i])'
    <3>1. responses'[i] = responses[i + 1] /\ i + 1 \in 1 .. Len(responses)
      BY <1>2, Zenon
    <3>2. Performed(responses[i + 1])
      BY <2>2, <3>1, Zenon DEF AnswersPerformed
    <3>. QED BY <1>3, <3>1, <3>2, Zenon DEF Performed, Genuine
  <2>3. \A i \in 1 .. Len(toClient') : Performed(toClient[i])'
    BY <1>3, Zenon DEF AnswersPerformed, Performed, Genuine
  <2>. QED BY <2>2, <2>3, Zenon DEF AnswersPerformed
<1>13. ErrorComesFirst'
  <2>1. HasError => HasError'
    <3>1. ASSUME NEW j \in 1 .. Len(responses), responses[j].kind = "transport"
          PROVE  j - 1 \in 1 .. Len(responses') /\ responses'[j - 1] = responses[j]
      BY <1>1, <1>2, <3>1
    <3>. QED BY <3>1, Zenon DEF HasError
  <2>2. \A o \in Ops : Broken(o)' => Broken(o)
    BY <1>7, <1>9, Zenon DEF Broken
  <2>3. ASSUME NEW i \in 1 .. Len(responses'), responses'[i].kind # "transport", late'[responses'[i].op]
        PROVE  \E j \in 1 .. i - 1 : responses'[j].kind = "transport"
    <3>0. /\ i + 1 \in 1 .. Len(responses) /\ responses[i + 1].kind # "transport"
          /\ late[responses[i + 1].op]
      BY <1>2, <1>3, <2>3, Zenon
    <3>1. PICK j \in 1 .. (i + 1) - 1 : responses[j].kind = "transport"
      BY <3>0, Zenon DEF ErrorComesFirst
    <3>2. j # 1
      BY <1>1, <1>2, <3>1, Zenon
    <3>3. j - 1 \in 1 .. i - 1 /\ j - 1 \in 1 .. Len(responses') /\ (j - 1) + 1 = j
      BY <1>2, <3>2
    <3>. QED BY <1>2, <3>1, <3>3, Zenon
  <2>. QED BY <1>3, <2>1, <2>2, <2>3, Zenon DEF ErrorComesFirst
<1>14. OwnAnswer'
  BY <1>3, <1>7, <1>9 DEF OwnAnswer
<1>15. FailStop'
  BY <1>3, <1>5, <1>7, Zenon DEF FailStop
<1>. QED BY <1>8, <1>10, <1>11, <1>12, <1>13, <1>14, <1>15, Zenon

----------------------------------------------------------------------------
(* The wire and the server                                                   *)

\* WriterSendsStep: the step keeps the invariant (Client.write, Wire.Write)
LEMMA WriterSendsStep ==
    ASSUME IInv, WriterSends
    PROVE  IInv'
<1>. USE DEF IInv
<1>. DEFINE m == Message("request", Head(send))
<1>1. /\ send \in Seq(Ops) /\ send # <<>> /\ send' = Tail(send)
      /\ toServer \in Seq(MessageType)
      /\ toServer' = Append(toServer, m) \/ toServer' = toServer
  BY Zenon DEF WriterSends, TypeOK
<1>2. /\ Len(send) \in Nat /\ Len(send) >= 1 /\ Len(send') = Len(send) - 1
      /\ Head(send) = send[1] /\ Head(send) \in Ops
      /\ \A i \in 1 .. Len(send') : send'[i] = send[i + 1] /\ i + 1 \in 1 .. Len(send) /\ i + 1 # 1
  BY <1>1, TailFacts
<1>2a. send' \in Seq(Ops)
  BY <1>1, TailFacts, Zenon
<1>3. m \in MessageType /\ m.op = Head(send) /\ m.seq = seqOf[Head(send)]
  BY <1>2, Zenon DEF Message, MessageType, TypeOK
<1>. HIDE DEF m
<1>4. ASSUME toServer' = Append(toServer, m)
      PROVE  /\ Len(toServer) \in Nat /\ Len(toServer') = Len(toServer) + 1
             /\ \A i \in 1 .. Len(toServer) : toServer'[i] = toServer[i]
             /\ toServer'[Len(toServer) + 1] = m
  BY <1>1, <1>3, <1>4, AppendFacts
<1>4a. toServer' \in Seq(MessageType)
  BY <1>1, <1>3, AppendFacts, Zenon
<1>5. UNCHANGED <<seqOf, executed>>
  BY Zenon DEF WriterSends, client, serverVars
<1>6. TypeOK'
  BY <1>2a, <1>4a DEF TypeOK, WriterSends, vars, callers, channels, client, monitorVars, wire, serverVars
<1>7. SendOnce'
  <2>1. \A i \in 1 .. Len(send') : seqOf'[send'[i]] # 0 /\ executed'[send'[i]] = 0
    BY <1>2, <1>5 DEF SendOnce
  <2>2. \A i, j \in 1 .. Len(send') : send'[i] = send'[j] => i = j
    BY <1>2 DEF SendOnce
  <2>. QED BY <2>1, <2>2 DEF SendOnce
<1>8. ASSUME toServer' = Append(toServer, m) PROVE ToServerOnce'
  <2>1. \A i \in 1 .. Len(toServer') : i \in 1 .. Len(toServer) \/ i = Len(toServer) + 1
    BY <1>4, <1>8
  <2>2. m.op \in Ops /\ seqOf[m.op] # 0 /\ m.seq = seqOf[m.op] /\ executed[m.op] = 0
    BY <1>2, <1>3 DEF SendOnce
  <2>3. \A i \in 1 .. Len(toServer) : toServer[i].op # m.op
    BY <1>2, <1>3 DEF ToServerOnce
  <2>4. \A j \in 1 .. Len(send') : send'[j] # m.op
    BY <1>2, <1>3 DEF SendOnce
  <2>5. \A i \in 1 .. Len(toServer') : Genuine(toServer[i])' /\ executed'[toServer'[i].op] = 0
    <3>1. ASSUME NEW i \in 1 .. Len(toServer)
          PROVE  Genuine(toServer[i])' /\ executed'[toServer'[i].op] = 0
      BY <1>4, <1>8, <1>5, Zenon DEF ToServerOnce, Genuine
    <3>2. ASSUME NEW i, i = Len(toServer) + 1
          PROVE  Genuine(toServer[i])' /\ executed'[toServer'[i].op] = 0
      BY <1>4, <1>8, <1>5, <2>2, <3>2, Zenon DEF Genuine
    <3>. QED BY <2>1, <3>1, <3>2, Zenon
  <2>6. \A i, j \in 1 .. Len(toServer') : toServer'[i].op = toServer'[j].op => i = j
    <3>1. /\ \A i \in 1 .. Len(toServer) : toServer'[i] = toServer[i]
          /\ toServer'[Len(toServer) + 1] = m
      BY <1>4, <1>8, Zenon
    <3>. QED BY <2>1, <2>3, <3>1, Zenon DEF ToServerOnce
  <2>7. \A i \in 1 .. Len(toServer'), j \in 1 .. Len(send') : toServer'[i].op # send'[j]
    BY <1>2, <1>4, <1>8, <2>1, <2>4 DEF ToServerOnce
  <2>. QED BY <2>5, <2>6, <2>7, Zenon DEF ToServerOnce
<1>8a. ASSUME toServer' = toServer PROVE ToServerOnce'
  <2>1. \A i \in 1 .. Len(toServer'), j \in 1 .. Len(send') : toServer'[i].op # send'[j]
    BY <1>2, <1>8a DEF ToServerOnce
  <2>. QED BY <1>5, <1>8a, <2>1, Zenon DEF ToServerOnce, Genuine
<1>9. ErrStopsLoop' /\ Numbered' /\ RequestsOnce' /\ AnswersPerformed' /\ ErrorComesFirst' /\ OwnAnswer' /\ FailStop'
  <2>1. UNCHANGED <<status, late, answer, seqOf, seq, messages, executed, requests, responses, err, loop, toClient>>
    BY Zenon DEF WriterSends, vars, callers, channels, client, monitorVars, wire, serverVars
  <2>2. Numbered' /\ RequestsOnce' /\ AnswersPerformed' /\ ErrorComesFirst' /\ OwnAnswer' /\ FailStop'
    BY <2>1, CallersFrame, AnswersFrame, ErrorFrame, Zenon
  <2>3. ErrStopsLoop'
    BY <2>1 DEF ErrStopsLoop
  <2>. QED BY <2>2, <2>3, Zenon
<1>. QED BY <1>1, <1>6, <1>7, <1>8, <1>8a, <1>9, Zenon

\* ReaderReceivesStep: the step keeps the invariant; the response of an operation
\* invoked late queues behind the error (Client.read)
LEMMA ReaderReceivesStep ==
    ASSUME IInv, ReaderReceives
    PROVE  IInv'
<1>. USE DEF IInv
<1>. DEFINE m == Head(toClient)
<1>1. /\ toClient \in Seq(MessageType) /\ toClient # <<>> /\ toClient' = Tail(toClient)
      /\ responses \in Seq(MessageType) /\ responses' = ToLoop(m)
  BY Zenon DEF ReaderReceives, TypeOK
<1>2. /\ Len(toClient) \in Nat /\ Len(toClient) >= 1
      /\ Len(toClient') = Len(toClient) - 1 /\ m = toClient[1] /\ m \in MessageType
      /\ \A i \in 1 .. Len(toClient') : toClient'[i] = toClient[i + 1] /\ i + 1 \in 1 .. Len(toClient)
  BY <1>1, TailFacts
<1>2a. toClient' \in Seq(MessageType)
  BY <1>1, TailFacts, Zenon
<1>2b. responses \in Seq(MessageType) /\ m \in MessageType
  BY <1>1, <1>2, Zenon
<1>3. Performed(m)
  BY <1>2 DEF AnswersPerformed
<1>. HIDE DEF m
<1>4. UNCHANGED <<seqOf, executed, late, err, status, loop>>
  BY Zenon DEF ReaderReceives, client, serverVars, callers
<1>4a. \A i \in 1 .. Len(toClient') : Performed(toClient[i])'
  <2>1. \A i \in 1 .. Len(toClient') : Performed(toClient[i + 1]) /\ toClient'[i] = toClient[i + 1]
    BY <1>2, Zenon DEF AnswersPerformed
  <2>. QED BY <1>4, <2>1, Zenon DEF Performed, Genuine
<1>5. responses' \in Seq(MessageType) /\ AnswersPerformed' /\ ErrorComesFirst'
  <2>1. CASE loop = "run"
    <3>0. responses' = Append(responses, m) /\ responses' \in Seq(MessageType)
      BY <1>1, <1>2b, <2>1, AppendFacts, Zenon DEF ToLoop
    <3>1. /\ Len(responses) \in Nat /\ Len(responses') = Len(responses) + 1
          /\ \A i \in 1 .. Len(responses) : responses'[i] = responses[i]
          /\ responses'[Len(responses) + 1] = m
      BY <1>2b, <3>0, AppendFacts
    <3>2. \A i \in 1 .. Len(responses') : i \in 1 .. Len(responses) \/ i = Len(responses) + 1
      BY <3>1
    <3>3. AnswersPerformed'
      <4>2. \A i \in 1 .. Len(responses) : responses[i].kind # "transport" => Performed(responses[i])'
        BY <1>4, <3>1 DEF AnswersPerformed, Performed, Genuine
      <4>3. \A i : i = Len(responses) + 1 => Performed(responses[i])'
        BY <1>3, <1>4, <3>1, Zenon DEF Performed, Genuine
      <4>. QED BY <1>4a, <3>1, <3>2, <4>2, <4>3, Zenon DEF AnswersPerformed
    <3>4. HasError => HasError'
      BY <3>1 DEF HasError
    <3>5. late[m.op] => HasError
      BY <1>3, <2>1, Zenon DEF ErrorComesFirst, ErrStopsLoop, Performed, Genuine
    <3>6. ASSUME NEW i \in 1 .. Len(responses'), responses'[i].kind # "transport", late'[responses'[i].op]
          PROVE  \E j \in 1 .. i - 1 : responses'[j].kind = "transport"
      <4>1. CASE i \in 1 .. Len(responses)
        BY <1>4, <3>1, <3>6, <4>1 DEF ErrorComesFirst
      <4>2. CASE i = Len(responses) + 1
        BY <1>4, <3>1, <3>5, <3>6, <4>2 DEF HasError
      <4>. QED BY <3>2, <4>1, <4>2, Zenon
    <3>7. ErrorComesFirst'
      BY <1>4, <3>4, <3>6, Zenon DEF ErrorComesFirst, Broken
    <3>. QED BY <3>0, <3>3, <3>7, Zenon
  <2>2. CASE loop # "run"
    <3>1. responses' = responses
      BY <1>1, <2>2, Zenon DEF ToLoop
    <3>2. AnswersPerformed'
      <4>2. \A i \in 1 .. Len(responses') : responses'[i].kind # "transport" => Performed(responses[i])'
        BY <1>4, <3>1, Zenon DEF AnswersPerformed, Performed, Genuine
      <4>. QED BY <1>4a, <4>2, Zenon DEF AnswersPerformed
    <3>3. ErrorComesFirst'
      BY <1>4, <3>1, ErrorFrame, Zenon
    <3>. QED BY <1>1, <3>1, <3>2, <3>3, Zenon
  <2>. QED BY <2>1, <2>2, Zenon
<1>6. TypeOK'
  BY <1>2a, <1>5 DEF TypeOK, ReaderReceives, vars, callers, channels, client, monitorVars, wire, serverVars
<1>7. ErrStopsLoop' /\ Numbered' /\ RequestsOnce' /\ SendOnce' /\ ToServerOnce' /\ OwnAnswer' /\ FailStop'
  <2>1. UNCHANGED <<status, late, answer, seqOf, seq, messages, executed, requests, send, err, loop, toServer>>
    BY Zenon DEF ReaderReceives, vars, callers, channels, client, monitorVars, wire, serverVars
  <2>2. Numbered' /\ RequestsOnce' /\ SendOnce' /\ ToServerOnce' /\ OwnAnswer' /\ FailStop'
    BY <2>1, CallersFrame, ServerFrame
  <2>3. ErrStopsLoop'
    BY <2>1 DEF ErrStopsLoop
  <2>. QED BY <2>2, <2>3
<1>. QED BY <1>5, <1>6, <1>7

\* ServerHandlesStep: the step keeps the invariant; what is performed has not been
\* before, and its answer is the only one (readWrite)
LEMMA ServerHandlesStep ==
    ASSUME IInv, ServerHandles
    PROVE  IInv'
<1>. USE DEF IInv
<1>. DEFINE h == Head(toServer)
<1>1. /\ toServer \in Seq(MessageType) /\ toServer # <<>> /\ toServer' = Tail(toServer)
      /\ toClient \in Seq(MessageType)
      /\ executed' = [executed EXCEPT ![h.op] = @ + 1]
  BY Zenon DEF ServerHandles, TypeOK
<1>2. /\ Len(toServer) \in Nat /\ Len(toServer) >= 1
      /\ Len(toServer') = Len(toServer) - 1 /\ h = toServer[1] /\ h \in MessageType
      /\ \A i \in 1 .. Len(toServer') : toServer'[i] = toServer[i + 1] /\ i + 1 \in 1 .. Len(toServer) /\ i + 1 # 1
  BY <1>1, TailFacts
<1>2a. toServer' \in Seq(MessageType)
  BY <1>1, TailFacts, Zenon
<1>3. Genuine(h) /\ executed[h.op] = 0 /\ h.op \in Ops
  BY <1>2 DEF ToServerOnce, Genuine
<1>4. PICK kind \in {"ok", "error"} :
        toClient' = IF link = "up" /\ ~shut THEN Append(toClient, [h EXCEPT !.kind = kind]) ELSE toClient
  BY Zenon DEF ServerHandles
<1>5. UNCHANGED <<seqOf, seq, messages, status, late, answer, requests, send, responses, err, loop>>
  BY Zenon DEF ServerHandles, callers, channels, client
<1>6. /\ executed' \in [Ops -> Nat] /\ executed'[h.op] = 1
      /\ \A p \in Ops : p # h.op => executed'[p] = executed[p]
  BY <1>1, <1>3 DEF TypeOK
<1>7. /\ [h EXCEPT !.kind = kind] \in MessageType
      /\ [h EXCEPT !.kind = kind].op = h.op /\ [h EXCEPT !.kind = kind].seq = h.seq
      /\ [h EXCEPT !.kind = kind].kind = kind
  BY <1>2, Zenon DEF MessageType
<1>. DEFINE PerformedNow(m) == /\ m.op \in Ops /\ seqOf'[m.op] # 0 /\ m.seq = seqOf'[m.op]
                               /\ executed'[m.op] = 1 /\ m.kind \in {"ok", "error"}
<1>8. \A m : Performed(m) => PerformedNow(m)
  BY <1>3, <1>5, <1>6, Zenon DEF Performed, Genuine
<1>9. toClient' \in Seq(MessageType) /\ AnswersPerformed'
  <2>. DEFINE r == [h EXCEPT !.kind = kind]
  <2>1. r \in MessageType /\ PerformedNow(r)
    BY <1>3, <1>5, <1>6, <1>7, Zenon DEF Genuine
  <2>. HIDE DEF PerformedNow
  <2>2. \A i \in 1 .. Len(responses') : responses'[i].kind # "transport" => PerformedNow(responses'[i])
    BY <1>5, <1>8, Zenon DEF AnswersPerformed
  <2>3. toClient' \in Seq(MessageType) /\ \A i \in 1 .. Len(toClient') : PerformedNow(toClient'[i])
    <3>1. CASE toClient' = toClient
      BY <1>1, <1>8, <3>1, Zenon DEF AnswersPerformed
    <3>2. CASE toClient' = Append(toClient, r)
      <4>. HIDE DEF r
      <4>0. toClient' \in Seq(MessageType)
        BY <1>1, <2>1, <3>2, AppendFacts, Zenon
      <4>1. /\ Len(toClient) \in Nat /\ Len(toClient') = Len(toClient) + 1
            /\ \A i \in 1 .. Len(toClient) : toClient'[i] = toClient[i]
            /\ toClient'[Len(toClient) + 1] = r
        BY <1>1, <2>1, <3>2, AppendFacts
      <4>2. \A i \in 1 .. Len(toClient') : i \in 1 .. Len(toClient) \/ i = Len(toClient) + 1
        BY <4>1
      <4>. QED BY <1>8, <2>1, <4>0, <4>1, <4>2, Zenon DEF AnswersPerformed
    <3>. QED BY <1>4, <3>1, <3>2, Zenon
  <2>. QED BY <2>2, <2>3, Zenon DEF AnswersPerformed, Performed, Genuine, PerformedNow
<1>. HIDE DEF h
<1>10. TypeOK'
  <2>1. pinged' \in BOOLEAN
    BY Zenon DEF ServerHandles, TypeOK
  <2>2. UNCHANGED <<reader, writer, monitor, closeChan, stops, told, link, shut, server>>
    BY Zenon DEF ServerHandles, client, monitorVars
  <2>. QED BY <1>2a, <1>5, <1>6, <1>9, <2>1, <2>2 DEF TypeOK
<1>11. Numbered'
  BY <1>3, <1>5, <1>6, Zenon DEF Numbered, Genuine
<1>12. SendOnce'
  <2>1. \A j \in 1 .. Len(send) : send[j] # h.op /\ send[j] \in Ops
    <3>1. send \in Seq(Ops)
      BY Zenon DEF TypeOK
    <3>. QED BY <1>2, <3>1 DEF ToServerOnce
  <2>. QED BY <1>5, <1>6, <2>1, Zenon DEF SendOnce
<1>13. ToServerOnce'
  <2>1. \A i \in 2 .. Len(toServer) : toServer[i].op # h.op /\ Genuine(toServer[i]) /\ executed[toServer[i].op] = 0
    BY <1>2 DEF ToServerOnce
  <2>2. \A i \in 1 .. Len(toServer') : i + 1 \in 2 .. Len(toServer) /\ toServer'[i] = toServer[i + 1]
    BY <1>2
  <2>3. \A i \in 1 .. Len(toServer') : Genuine(toServer[i])' /\ executed'[toServer'[i].op] = 0
    BY <1>5, <1>6, <2>1, <2>2 DEF Genuine
  <2>4. ASSUME NEW i \in 1 .. Len(toServer'), NEW j \in 1 .. Len(toServer'), toServer'[i].op = toServer'[j].op
        PROVE  i = j
    <3>1. /\ i + 1 \in 1 .. Len(toServer) /\ j + 1 \in 1 .. Len(toServer)
          /\ toServer[i + 1].op = toServer[j + 1].op
      BY <1>2, <2>4, Zenon
    <3>2. i + 1 = j + 1
      BY <3>1, Zenon DEF ToServerOnce
    <3>. QED BY <3>2
  <2>5. ASSUME NEW i \in 1 .. Len(toServer'), NEW j \in 1 .. Len(send')
        PROVE  toServer'[i].op # send'[j]
    <3>1. i + 1 \in 1 .. Len(toServer) /\ toServer'[i] = toServer[i + 1] /\ send' = send
      BY <1>2, <1>5, Zenon
    <3>. QED BY <3>1, Zenon DEF ToServerOnce
  <2>. QED BY <2>3, <2>4, <2>5, Zenon DEF ToServerOnce
<1>14. OwnAnswer'
  BY <1>3, <1>5, <1>6, Zenon DEF OwnAnswer
<1>15. ErrStopsLoop' /\ RequestsOnce' /\ ErrorComesFirst' /\ FailStop'
  <2>1. ErrorComesFirst'
    BY <1>5, ErrorFrame, Zenon
  <2>. QED BY <1>5, <2>1, Zenon DEF ErrStopsLoop, RequestsOnce, FailStop
<1>. QED BY <1>9, <1>10, <1>11, <1>12, <1>13, <1>14, <1>15, Zenon

----------------------------------------------------------------------------
(* The theorems                                                              *)

\* Inductive: the invariant holds in every state
THEOREM Inductive == Spec => []IInv
<1>1. Init => IInv
  <2>. SUFFICES ASSUME Init PROVE IInv
    BY Zenon
  <2>1. <<>> \in Seq(Ops) /\ <<>> \in Seq(MessageType) /\ Len(<<>>) = 0
    BY EmptyFacts, Zenon
  <2>2. TypeOK
    <3>1. 0 \in 0 .. CloseCapacity /\ 0 \in 0 .. MaxStops
      BY RpcAssumption
    <3>. QED BY <2>1, <3>1, Zenon DEF Init, TypeOK, Statuses
  <2>3. ErrStopsLoop /\ Numbered /\ OwnAnswer /\ FailStop
    BY DEF Init, ErrStopsLoop, Numbered, OwnAnswer, FailStop
  <2>4. RequestsOnce /\ SendOnce /\ ToServerOnce /\ AnswersPerformed
    BY <2>1 DEF Init, RequestsOnce, SendOnce, ToServerOnce, AnswersPerformed
  <2>5. ErrorComesFirst
    BY <2>1 DEF Init, ErrorComesFirst, Broken
  <2>. QED BY <2>2, <2>3, <2>4, <2>5, Zenon DEF IInv
<1>2. IInv /\ [Next]_vars => IInv'
  <2>. SUFFICES ASSUME IInv, [Next]_vars PROVE IInv'
    BY Zenon
  <2>1. ASSUME NEW o \in Ops, Call(o) PROVE IInv'
    BY <2>1, CallStep, Zenon
  <2>2. ASSUME NEW o \in Ops, Timeout(o) PROVE IInv'
    BY <2>2, TimeoutStep, Zenon
  <2>3. ASSUME NEW o \in Ops, MonitorPings(o) PROVE IInv'
    BY <2>3, MonitorPingsStep
  <2>4. CASE LoopRequest
    BY <2>4, LoopRequestStep, Zenon
  <2>5. CASE LoopResponse
    BY <2>5, LoopResponseStep, Zenon
  <2>6. CASE LoopError
    BY <2>6, LoopErrorStep
  <2>7. CASE LoopTerminates
    BY <2>7, LoopTerminatesStep
  <2>8. CASE LoopExits
    BY <2>8, LoopExitsStep
  <2>9. CASE WriterSends
    BY <2>9, WriterSendsStep
  <2>10. CASE WriterFails
    BY <2>10, WriterFailsStep
  <2>11. CASE WriterExits
    BY <2>11, WriterExitsStep
  <2>12. CASE ReaderReceives
    BY <2>12, ReaderReceivesStep
  <2>13. CASE ReaderFails
    BY <2>13, ReaderFailsStep
  <2>14. CASE MonitorReturns
    BY <2>14, MonitorReturnsStep
  <2>15. CASE MonitorCloses
    BY <2>15, MonitorClosesStep
  <2>16. CASE StopMonitoring
    BY <2>16, StopMonitoringStep
  <2>17. CASE ServerHandles
    BY <2>17, ServerHandlesStep
  <2>18. CASE ServerFatal
    BY <2>18, ServerFatalStep
  <2>19. CASE ServerEnds
    BY <2>19, ServerEndsStep
  <2>20. CASE PingExpires
    BY <2>20, PingExpiresStep
  <2>21. CASE LinkBreaks
    BY <2>21, LinkBreaksStep
  <2>23. CASE ServerExits
    BY <2>23, ServerExitsStep
  <2>22. CASE UNCHANGED vars
    <3>1. UNCHANGED <<status, late, answer, seqOf, seq, messages, requests, send, responses, err, loop, reader, writer, monitor, closeChan, stops, told, toServer, toClient, link, shut, server, pinged, executed>>
      BY <2>22, Zenon DEF vars, callers, channels, client, monitorVars, wire, serverVars
    <3>. USE DEF IInv
    <3>2. TypeOK'
      BY <3>1 DEF TypeOK
    <3>3. ErrStopsLoop'
      BY <3>1, Zenon DEF ErrStopsLoop
    <3>. QED BY <3>1, <3>2, <3>3, CallersFrame, ServerFrame, AnswersFrame, ErrorFrame, Zenon
  <2>. QED BY <2>1, <2>2, <2>3, <2>4, <2>5, <2>6, <2>7, <2>8, <2>9, <2>10, <2>11, <2>12, <2>13, <2>14, <2>15, <2>16, <2>17, <2>18, <2>19, <2>20, <2>21, <2>22, <2>23, Zenon DEF Next, Loop, Writer, Reader, Monitor
<1>. QED BY <1>1, <1>2, PTL DEF Spec

\* RpcTypeCorrect: the client's, the server's and the wire's state keep their
\* types, whatever the operations in flight (rpc.Client, rpc.Server, Wire)
THEOREM RpcTypeCorrect == Spec => []TypeOK
<1>1. IInv => TypeOK
  BY Zenon DEF IInv
<1>. QED BY <1>1, Inductive, PTL

\* EveryAnswerIsOwn: an operation that succeeds was performed once and given
\* its own answer, for any number of operations (nextSeq, handleResponse)
THEOREM EveryAnswerIsOwn == Spec => []OwnAnswer
<1>1. IInv => OwnAnswer
  BY Zenon DEF IInv
<1>. QED BY <1>1, Inductive, PTL

\* ConnectionFailsStop: after an operation that timed out or failed no later one
\* succeeds on the connection, for any number of operations (SetError, loop)
THEOREM ConnectionFailsStop == Spec => []FailStop
<1>1. IInv => FailStop
  BY Zenon DEF IInv
<1>. QED BY <1>1, Inductive, PTL
=============================================================================

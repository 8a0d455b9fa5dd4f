----------------------------- MODULE WorkerLink -----------------------------
(***************************************************************************)
(* The connection between a worker process and the console: what the two   *)
(* ends do with each other's frames (worker-docker and worker-sys          *)
(* session_client.go and runner.go; the console's Connect, writerLoop and  *)
(* handleHeartbeat in service_connect.go).                                 *)
(*                                                                         *)
(* Every channel is bounded and the stream has flow control, so each       *)
(* goroutine may wait for another one: the worker's sender, receiver,      *)
(* heartbeat loop and commands, the console's receive loop and writer.     *)
(* The worker connects again and again (Run), and a new connection has     *)
(* everything new.  The variables of the console's end are those of the    *)
(* newest connection, but for the session: until the new one is published, *)
(* closed, ask and the queues are still the old one's, which dispatchers   *)
(* find until its Connect returns.  The delays of Run and of the jitter    *)
(* are time and left out.  A channel's room counts the frame its reader    *)
(* has taken and not yet passed on.                                        *)
(***************************************************************************)
EXTENDS Integers, FiniteSets, Sequences

CONSTANTS
  Commands,     \* the commands the console dispatches, each once
  Workers,      \* the kinds of worker: "docker", "sys" or both
  OutboundRoom, \* the worker's outbound channel
  AckRoom,      \* the worker's heartbeatAckCh
  ControlRoom,  \* the console's controlOutbound
  WireRoom,     \* frames the stream takes in one direction before Send blocks
  MaxFaults     \* faults of the network and the console in one behaviour (bound)

ASSUME CommandsAssumption == IsFiniteSet(Commands)
ASSUME RoomAssumption ==
  /\ Workers \subseteq {"docker", "sys"} /\ MaxFaults \in Nat
  /\ {OutboundRoom, AckRoom, ControlRoom, WireRoom} \subseteq Nat \ {0}

VARIABLES
  (* the console's end *)
  handler,   \* Connect: "off", "published", "stored" (after Upsert), "recv",
             \* "beat" (waits to queue an ack), "over"
  closed,    \* the session in the table is closed
  writer,    \* writerLoop: "poll" and "any" are its two selects
  control,   \* controlOutbound
  dispatch,  \* commandOutbound
  (* the network *)
  net,       \* "up", "silent" (nothing arrives, nobody is told) or "down"
  down, up,  \* frames under way to the worker, to the console
  (* the worker's end *)
  worker,    \* which kind it is; it stays so
  main,      \* runSession and its heartbeatLoop
  missed,    \* consecutiveAckTimeouts
  acks,      \* heartbeatAckCh
  outbound,  \* outbound
  receiver,  \* receiverLoop
  sender,    \* senderLoop
  failed,    \* sessionErrCh is not empty
  job,       \* job[c]: the goroutine that executes command c
  (* history *)
  ask,       \* ask[c]: what the dispatcher of command c knows
  faults,    \* faults so far
  quota      \* heartbeats that may still be queued on a silent network

consoleVars == <<handler, closed, writer, control, dispatch>>
netVars == <<net, down, up>>
loopVars == <<main, missed>>
workerVars == <<worker, acks, outbound, receiver, sender, failed, job>>
history == <<ask, faults, quota>>
vars == <<consoleVars, netVars, loopVars, workerVars, history>>

Frames == {"connect_ack", "heartbeat_ack"} \cup Commands
Requests == {"heartbeat"} \cup Commands

TypeOK ==
  /\ handler \in {"off", "published", "stored", "recv", "beat", "over"}
  /\ closed \in BOOLEAN
  /\ writer \in {"poll", "any", "gone"}
  /\ control \in Seq({"connect_ack", "heartbeat_ack"}) /\ Len(control) \leq ControlRoom
  /\ dispatch \in Seq(Commands)
  /\ net \in {"up", "silent", "down"}
  /\ down \in Seq(Frames) /\ Len(down) \leq WireRoom
  /\ up \in Seq(Requests) /\ Len(up) \leq WireRoom
  /\ worker \in Workers
  /\ main \in {"hello", "wait", "send", "await", "ended"}
  /\ missed \in 0..1
  /\ acks \in 0..AckRoom
  /\ outbound \in Seq(Requests) /\ Len(outbound) \leq OutboundRoom
  /\ receiver \in {"run", "gone"} /\ sender \in {"run", "gone"}
  /\ failed \in BOOLEAN
  /\ job \in [Commands -> {"none", "running", "leaving"}]
  /\ ask \in [Commands -> {"new", "open", "over"}]
  /\ faults \in 0..MaxFaults
  /\ quota \in {-1} \cup Nat

Init ==
  /\ handler = "over" /\ closed = TRUE /\ writer = "gone"
  /\ control = <<>> /\ dispatch = <<>>
  /\ net = "down" /\ down = <<>> /\ up = <<>>
  /\ worker \in Workers /\ main = "ended" /\ missed = 0
  /\ acks = 0 /\ outbound = <<>>
  /\ receiver = "gone" /\ sender = "gone" /\ failed = FALSE
  /\ job = [c \in Commands |-> "none"]
  /\ ask = [c \in Commands |-> "new"]
  /\ faults = 0 /\ quota = 0

Fault == faults < MaxFaults /\ faults' = faults + 1
Lost(asked) == [c \in Commands |-> IF asked[c] = "open" THEN "over" ELSE asked[c]]

-----------------------------------------------------------------------------
(* The console's end.                                                      *)

(* The session is closed: nobody waits for a result any more.              *)
CloseSession == closed' = TRUE /\ ask' = Lost(ask)

(* Connect returns: removeSession and close are deferred, the stream ends. *)
Over ==
  /\ handler' = "over" /\ CloseSession
  /\ UNCHANGED <<writer, control, dispatch, netVars, loopVars, workerVars, quota>>

(* Connect returns before it has published anything.                       *)
TurnedAway ==
  /\ handler' = "over"
  /\ UNCHANGED <<closed, writer, control, dispatch, netVars, loopVars, workerVars, ask, quota>>

(* swapSession; a session that is still in the table is closed.            *)
Publish ==
  /\ handler = "off" /\ net = "up"
  /\ handler' = "published" /\ closed' = FALSE /\ ask' = Lost(ask)
  /\ control' = <<>> /\ dispatch' = <<>>
  /\ UNCHANGED <<writer, netVars, loopVars, workerVars, faults, quota>>

(* Upsert has stored the worker; the writer starts.                        *)
StartWriter ==
  /\ handler = "published"
  /\ handler' = "stored" /\ writer' = "poll"
  /\ UNCHANGED <<closed, control, dispatch, netVars, loopVars, workerVars, history>>

(* The Connect of the old connection returns while a new one has not been  *)
(* published: its session leaves the table.                                *)
OldEnds ==
  /\ handler \in {"off", "over"} /\ ~closed /\ CloseSession
  /\ UNCHANGED <<handler, writer, control, dispatch, netVars, loopVars, workerVars, faults, quota>>

(* The hello is refused, Upsert fails, or so does TouchWithSession.        *)
Refuse ==
  /\ Fault
  /\ \/ handler = "off" /\ net = "up" /\ TurnedAway
     \/ handler = "published" /\ Over
     \/ handler = "recv" /\ up # <<>> /\ Head(up) = "heartbeat" /\ Over

(* A dispatcher finds the session as soon as it is published.              *)
Dispatch(c) ==
  /\ ask[c] = "new" /\ ~closed
  /\ ask' = [ask EXCEPT ![c] = "open"]
  /\ dispatch' = Append(dispatch, c)
  /\ UNCHANGED <<handler, closed, writer, control, netVars, loopVars, workerVars, faults, quota>>

(* Mutant: the acknowledgement is forgotten.                               *)
QueueAckForgotten ==
  /\ handler = "stored" /\ ~closed
  /\ handler' = "recv"
  /\ UNCHANGED <<closed, writer, control, dispatch, netVars, loopVars, workerVars, history>>

(* enqueueControl of connect_ack, long after the session was published.    *)
QueueAck ==
  /\ handler = "stored" /\ ~closed
  /\ control' = Append(control, "connect_ack")
  /\ handler' = "recv"
  /\ UNCHANGED <<closed, writer, dispatch, netVars, loopVars, workerVars, history>>

(* The loop of Connect looks for the end of the writer only between two    *)
(* frames; Recv has no such exit.                                          *)
NextFrame(asked) ==
  IF writer = "gone"
  THEN handler' = "over" /\ closed' = TRUE /\ ask' = Lost(asked)
  ELSE handler' = "recv" /\ ask' = asked /\ UNCHANGED closed

TakeUp == up # <<>> /\ up' = Tail(up) /\ UNCHANGED <<net, down>>

(* handleHeartbeat answers through controlOutbound, or waits for room.     *)
HandleHeartbeat ==
  /\ handler = "recv" /\ TakeUp /\ Head(up) = "heartbeat" /\ ~closed
  /\ IF Len(control) < ControlRoom
     THEN control' = Append(control, "heartbeat_ack") /\ NextFrame(ask)
     ELSE handler' = "beat" /\ UNCHANGED <<closed, control, ask>>
  /\ UNCHANGED <<writer, dispatch, loopVars, workerVars, faults, quota>>

QueueHeartbeatAck ==
  /\ handler = "beat" /\ ~closed /\ Len(control) < ControlRoom
  /\ control' = Append(control, "heartbeat_ack")
  /\ NextFrame(ask)
  /\ UNCHANGED <<writer, dispatch, netVars, loopVars, workerVars, faults, quota>>

(* resolvePending: a result nobody waits for is ignored.                   *)
HandleResult ==
  /\ handler = "recv" /\ TakeUp /\ Head(up) \in Commands
  /\ NextFrame([ask EXCEPT ![Head(up)] = IF @ = "open" THEN "over" ELSE @])
  /\ UNCHANGED <<writer, control, dispatch, loopVars, workerVars, faults, quota>>

HeartbeatOnClosed == handler = "recv" /\ up # <<>> /\ Head(up) = "heartbeat" /\ closed

(* Mutant: handleHeartbeat waits as long as it takes.                      *)
GiveUpIfClosed ==
  /\ HeartbeatOnClosed \/ (handler \in {"stored", "beat"} /\ closed)
  /\ Over /\ UNCHANGED faults

(* enqueueControl fails: the session is closed, or the queue had no room   *)
(* within heartbeatAckEnqueueTimeout.                                      *)
GiveUp ==
  /\ \/ HeartbeatOnClosed
     \/ handler \in {"stored", "beat"} /\ closed
     \/ handler = "beat" /\ Len(control) = ControlRoom
  /\ Over /\ UNCHANGED faults

RecvFails ==
  /\ net = "down" /\ UNCHANGED faults
  /\ \/ handler = "off" /\ TurnedAway
     \/ handler = "recv" /\ Over

Connect ==
  \/ Publish \/ StartWriter \/ QueueAck \/ HandleHeartbeat \/ QueueHeartbeatAck
  \/ HandleResult \/ GiveUp \/ RecvFails \/ OldEnds

(* disconnectWorker, or a newer connection of the same worker.             *)
Disconnect ==
  /\ ~closed /\ Fault /\ CloseSession
  /\ UNCHANGED <<handler, writer, control, dispatch, netVars, loopVars, workerVars, quota>>

CanSend(wire) == net = "up" /\ handler # "over" /\ Len(wire) < WireRoom

SendControl ==
  /\ writer \in {"poll", "any"} /\ control # <<>> /\ CanSend(down)
  /\ down' = Append(down, Head(control)) /\ control' = Tail(control)
  /\ writer' = "poll"
  /\ UNCHANGED <<handler, closed, dispatch, net, up, loopVars, workerVars, history>>

(* The first select of writerLoop finds no control frame.                  *)
PollNothing ==
  /\ writer = "poll" /\ control = <<>> /\ dispatch # <<>>
  /\ writer' = "any"
  /\ UNCHANGED <<handler, closed, control, dispatch, netVars, loopVars, workerVars, history>>

SendCommand ==
  /\ writer = "any" /\ dispatch # <<>> /\ CanSend(down)
  /\ down' = Append(down, Head(dispatch)) /\ dispatch' = Tail(dispatch)
  /\ writer' = "poll"
  /\ UNCHANGED <<handler, closed, control, net, up, loopVars, workerVars, history>>

WriterStops ==
  /\ writer # "gone"
  /\ closed \/ (net = "down" /\ control \o dispatch # <<>>)
  /\ writer' = "gone"
  /\ UNCHANGED <<handler, closed, control, dispatch, netVars, loopVars, workerVars, history>>

WriterLoop == SendControl \/ PollNothing \/ SendCommand \/ WriterStops

-----------------------------------------------------------------------------
(* The network.                                                            *)

Acks(wire) == Cardinality({i \in 1..Len(wire) : wire[i] = "heartbeat_ack"})

(* Frames that are under way still arrive, then there are no more.         *)
FallSilent ==
  /\ net = "up" /\ Fault
  /\ net' = "silent" /\ quota' = 2 * (acks + Acks(down)) + 2
  /\ UNCHANGED <<consoleVars, down, up, loopVars, workerVars, ask>>

Break ==
  /\ \/ net = "up" /\ Fault
     \/ net = "silent" /\ UNCHANGED faults
  /\ net' = "down" /\ quota' = 0
  /\ UNCHANGED <<consoleVars, down, up, loopVars, workerVars, ask>>

-----------------------------------------------------------------------------
(* The worker's end.                                                       *)

(* runSession returns: the context of the connection is canceled and the   *)
(* connection closed.                                                      *)
End ==
  /\ main' = "ended" /\ missed' = 0
  /\ net' = "down" /\ down' = <<>> /\ quota' = 0
  /\ acks' = 0 /\ outbound' = <<>> /\ receiver' = "gone" /\ sender' = "gone"
  /\ failed' = FALSE /\ job' = [c \in Commands |-> "none"]
  /\ UNCHANGED <<consoleVars, up, worker, ask>>

(* Run connects again: Connect and the hello frame.                        *)
Dial ==
  /\ main = "ended"
  /\ main' = "hello" /\ net' = "up" /\ up' = <<>>
  /\ handler' = "off" /\ writer' = "gone"
  /\ UNCHANGED <<closed, control, dispatch, down, missed, workerVars, history>>

StreamOver == net = "down" \/ (net = "up" /\ handler = "over")

(* Mutant: a command before connect_ack is skipped.                        *)
FirstFrameSkipping ==
  /\ main = "hello" /\ down # <<>>
  /\ down' = Tail(down)
  /\ IF Head(down) = "connect_ack"
     THEN main' = "wait" /\ receiver' = "run" /\ sender' = "run"
     ELSE UNCHANGED <<main, receiver, sender>>
  /\ UNCHANGED <<consoleVars, net, up, missed, worker, acks, outbound, failed, job, history>>

(* The first frame is connect_ack, or the connection is given up.          *)
FirstFrame ==
  /\ main = "hello" /\ down # <<>>
  /\ IF Head(down) = "connect_ack"
     THEN /\ down' = Tail(down)
          /\ main' = "wait" /\ receiver' = "run" /\ sender' = "run"
          /\ UNCHANGED <<consoleVars, net, up, missed, worker, acks, outbound, failed, job, history>>
     ELSE End /\ UNCHANGED faults

(* recvWithTimeout: the stream ends, or no frame will come any more; that  *)
(* a frame comes too late counts as a fault.                               *)
FirstFrameFails ==
  /\ main = "hello"
  /\ StreamOver \/ net = "silent" \/ (closed /\ handler # "off")
  /\ End /\ UNCHANGED faults
FirstFrameLate == main = "hello" /\ net = "up" /\ Fault /\ End

Enqueued(frame) ==
  /\ Len(outbound) < OutboundRoom /\ outbound' = Append(outbound, frame)
  /\ UNCHANGED <<worker, acks, receiver, sender, failed>>

QueueHeartbeat ==
  /\ Enqueued("heartbeat") /\ main' = "await"
  /\ quota' = IF net = "silent" /\ quota \geq 0 THEN quota - 1 ELSE quota
  /\ UNCHANGED <<consoleVars, netVars, missed, job, ask, faults>>

(* heartbeatLoop: the timer fires.  enqueueRequest may have to wait for    *)
(* room; it has no timeout and does not look at sessionErrCh.              *)
HeartbeatDue ==
  \/ main = "wait" /\ QueueHeartbeat
  \/ /\ main = "wait" /\ Len(outbound) = OutboundRoom
     /\ main' = "send"
     /\ UNCHANGED <<consoleVars, netVars, missed, workerVars, history>>
  \/ main = "send" /\ QueueHeartbeat

(* Any acknowledgement will do, also one of an earlier heartbeat.          *)
HeartbeatAcked ==
  /\ main = "await" /\ acks > 0
  /\ acks' = acks - 1 /\ missed' = 0 /\ main' = "wait"
  /\ UNCHANGED <<consoleVars, netVars, worker, outbound, receiver, sender, failed, job, history>>

Missed(n) == missed' = n /\ main' = "wait" /\ UNCHANGED <<consoleVars, netVars, workerVars, history>>

(* Mutants: a third wait is allowed; misses are not counted.               *)
AckMissedThrice ==
  /\ main = "await"
  /\ \/ missed < 2 /\ Missed(missed + 1)
     \/ missed = 2 /\ End /\ UNCHANGED faults
AckMissedForgiven == main = "await" /\ Missed(0)

(* CallTimeout passes; the second time in a row ends the connection.  The  *)
(* select may find an acknowledgement ready as well and still take this.   *)
AckMissed ==
  /\ main = "await"
  /\ \/ missed = 0 /\ Missed(1)
     \/ missed = 1 /\ End /\ UNCHANGED faults

LoopFails == main \in {"wait", "await"} /\ failed /\ End /\ UNCHANGED faults

RunSession ==
  \/ Dial \/ FirstFrame \/ FirstFrameFails
  \/ HeartbeatDue \/ HeartbeatAcked \/ AckMissed \/ LoopFails

TakeDown == receiver = "run" /\ down # <<>> /\ down' = Tail(down) /\ UNCHANGED <<net, up>>

ReceiveAck ==
  /\ TakeDown /\ Head(down) = "heartbeat_ack" /\ acks < AckRoom
  /\ acks' = acks + 1
  /\ UNCHANGED <<consoleVars, loopVars, worker, outbound, receiver, sender, failed, job, history>>

Busy == worker = "sys" /\ \E c \in Commands : job[c] # "none"

(* A command gets a goroutine of its own.                                  *)
ReceiveCommand ==
  /\ TakeDown /\ Head(down) \in Commands /\ ~Busy
  /\ job' = [job EXCEPT ![Head(down)] = "running"]
  /\ UNCHANGED <<consoleVars, loopVars, worker, acks, outbound, receiver, sender, failed, history>>

(* worker-sys: session_busy, or the end of the connection when not even    *)
(* that can be queued.                                                     *)
RefuseCommand ==
  /\ TakeDown /\ Head(down) \in Commands /\ Busy
  /\ IF Len(outbound) < OutboundRoom
     THEN outbound' = Append(outbound, Head(down)) /\ UNCHANGED <<receiver, failed>>
     ELSE receiver' = "gone" /\ failed' = TRUE /\ UNCHANGED outbound
  /\ UNCHANGED <<consoleVars, loopVars, worker, acks, sender, job, history>>

ReceiverFails ==
  /\ receiver = "run" /\ down = <<>> /\ StreamOver
  /\ receiver' = "gone" /\ failed' = TRUE
  /\ UNCHANGED <<consoleVars, netVars, loopVars, worker, acks, outbound, sender, job, history>>

ReceiverLoop == ReceiveAck \/ ReceiveCommand \/ RefuseCommand \/ ReceiverFails

(* The command ends, at the latest at its deadline, and its result is      *)
(* queued; only then worker-sys frees the slot.                            *)
Execute(c) ==
  /\ job[c] = "running" /\ Enqueued(c)
  /\ job' = [job EXCEPT ![c] = IF worker = "sys" THEN "leaving" ELSE "none"]
  /\ UNCHANGED <<consoleVars, netVars, loopVars, history>>

ReleaseSlot(c) ==
  /\ job[c] = "leaving" /\ job' = [job EXCEPT ![c] = "none"]
  /\ UNCHANGED <<consoleVars, netVars, loopVars, worker, acks, outbound, receiver, sender, failed, history>>

Job(c) == Execute(c) \/ ReleaseSlot(c)

Send ==
  /\ sender = "run" /\ outbound # <<>> /\ CanSend(up)
  /\ up' = Append(up, Head(outbound)) /\ outbound' = Tail(outbound)
  /\ UNCHANGED <<consoleVars, net, down, loopVars, worker, acks, receiver, sender, failed, job, history>>

SendFails ==
  /\ sender = "run" /\ outbound # <<>> /\ StreamOver
  /\ outbound' = Tail(outbound) /\ sender' = "gone" /\ failed' = TRUE
  /\ UNCHANGED <<consoleVars, netVars, loopVars, worker, acks, receiver, job, history>>

(* A silent network takes frames for a while, as much as its buffers hold. *)
Swallow ==
  /\ sender = "run" /\ outbound # <<>> /\ net = "silent"
  /\ outbound' = Tail(outbound)
  /\ UNCHANGED <<consoleVars, netVars, loopVars, worker, acks, receiver, sender, failed, job, history>>

SenderLoop == Send \/ SendFails

-----------------------------------------------------------------------------
Next ==
  \/ Connect \/ WriterLoop \/ Refuse \/ Disconnect \/ FallSilent \/ Break
  \/ RunSession \/ FirstFrameLate \/ ReceiverLoop \/ SenderLoop \/ Swallow
  \/ \E c \in Commands : Dispatch(c) \/ Job(c)

Spec == Init /\ [][Next]_vars

(* Every goroutine runs, and a command ends at its deadline.  Faults and   *)
(* dispatches are never due.                                               *)
Fairness ==
  /\ WF_vars(Connect) /\ WF_vars(WriterLoop)
  /\ SF_vars(PollNothing) /\ SF_vars(SendCommand)
  /\ WF_vars(RunSession) /\ WF_vars(ReceiverLoop) /\ WF_vars(SenderLoop)
  /\ \A c \in Commands : SF_vars(Execute(c)) /\ WF_vars(ReleaseSlot(c))

FairSpec == Spec /\ Fairness

-----------------------------------------------------------------------------
(* Properties.                                                             *)

(* The heartbeat loop waits for room that nobody makes: the queue is full  *)
(* and the sender is gone, or stuck on a network that does not tell.       *)
Hung ==
  /\ main = "send" /\ Len(outbound) = OutboundRoom
  /\ sender = "gone" \/ net = "silent"

(* Two heartbeats without an answer end a connection, but an answer to an  *)
(* earlier one counts.  After the network has fallen silent, each          *)
(* acknowledgement that waits in the channel or is still under way delays  *)
(* the end by two heartbeats (it may be taken after a miss and make that   *)
(* undone), and nothing delays it further.                                 *)
NotOverdue == quota \geq 0

(* Goroutines that wait for one another's queues do not wait for ever.     *)
HeartbeatsGo == main = "send" ~> (main # "send" \/ Hung)

(* A worker notices that its connection is dead.                           *)
DeathNoticed ==
  (net # "up" \/ handler = "over") ~> (main = "ended" \/ Hung)

(* A worker without a connection is served again.                          *)
ServedAgain == main = "ended" ~> main \in {"wait", "send", "await"}

(* A dispatched command is answered or its session is closed.              *)
CommandsResolved ==
  \A c \in Commands : ask[c] = "open" ~> (ask[c] # "open" \/ Hung)
=============================================================================

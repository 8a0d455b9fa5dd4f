-------------------------- MODULE WorkerLinkProofs --------------------------
(***************************************************************************)
(* The types of the variables of WorkerLink, and how long a worker may     *)
(* hold on to a connection whose network has fallen silent.                *)
(***************************************************************************)
EXTENDS WorkerLink, FiniteSetTheorems, SequenceTheorems, TLAPS

-----------------------------------------------------------------------------
(* The inductive invariant.                                                *)

(* How many heartbeats the loop may still queue once nothing new arrives:  *)
(* two for every acknowledgement it has or that still comes (each may undo *)
(* a miss), and those that end the connection.  The heartbeat it waits for *)
(* is among them.                                                          *)
Due == 2 * (acks + Acks(down)) + 2 - missed - (IF main = "await" THEN 1 ELSE 0)

Bounded == net = "silent" => quota \geq Due

(* Nothing has been queued to the worker before the connect_ack, so that   *)
(* there is room for it.                                                   *)
Unacked == handler \in {"published", "stored"} => control = <<>>

IInv == TypeOK /\ NotOverdue /\ Bounded /\ Unacked

-----------------------------------------------------------------------------
(* Queues and frames.                                                      *)

Acknowledgements == {"connect_ack", "heartbeat_ack"}

(* A queue that has room takes a frame, and keeps its type.                *)
LEMMA PutFrame ==
  ASSUME NEW S, NEW s \in Seq(S), NEW f \in S, NEW n \in Nat, Len(s) < n
  PROVE  Append(s, f) \in Seq(S) /\ Len(Append(s, f)) \leq n
<1>1. Append(s, f) \in Seq(S) /\ Len(Append(s, f)) = Len(s) + 1
  BY AppendProperties
<1>2. Len(s) \in Nat
  BY LenProperties
<1> QED
  BY <1>1, <1>2

(* The frame taken from a queue is one of its frames.                      *)
LEMMA TakeFrame ==
  ASSUME NEW S, NEW s \in Seq(S), s # <<>>
  PROVE  Head(s) \in S /\ Tail(s) \in Seq(S) /\ Len(Tail(s)) \leq Len(s)
<1>1. Head(s) \in S /\ Tail(s) \in Seq(S) /\ Len(Tail(s)) = Len(s) - 1
  BY HeadTailProperties
<1>2. Len(s) \in Nat
  BY LenProperties
<1> QED
  BY <1>1, <1>2

(* The number of acknowledgements in a finite sequence of frames.          *)
LEMMA AcksType == ASSUME NEW S, NEW s \in Seq(S) PROVE Acks(s) \in Nat
<1>1. Len(s) \in Nat
  BY LenProperties
<1>2. IsFiniteSet(1..Len(s))
  BY <1>1, FS_Interval
<1>3. {i \in 1..Len(s) : s[i] = "heartbeat_ack"} \in SUBSET (1..Len(s))
  OBVIOUS
<1>4. IsFiniteSet({i \in 1..Len(s) : s[i] = "heartbeat_ack"})
  BY <1>2, <1>3, FS_Subset
<1> QED
  BY <1>4, FS_CardinalityType DEF Acks

(* Receiving a frame leaves one acknowledgement fewer under way if it is   *)
(* one, and as many otherwise.                                             *)
LEMMA AcksTail ==
  ASSUME NEW S, NEW s \in Seq(S), s # <<>>
  PROVE  Acks(s) = Acks(Tail(s)) + (IF Head(s) = "heartbeat_ack" THEN 1 ELSE 0)
<1> DEFINE D == {i \in 1..Len(s) : s[i] = "heartbeat_ack"}
           T == {i \in 1..Len(Tail(s)) : Tail(s)[i] = "heartbeat_ack"}
           f == [i \in T |-> i + 1]
<1>1. Len(s) \in Nat /\ Len(s) # 0
  BY LenProperties, EmptySeq
<1>2. /\ Len(Tail(s)) = Len(s) - 1
      /\ \A i \in 1..Len(Tail(s)) : Tail(s)[i] = s[i + 1]
  BY HeadTailProperties
<1>3. Head(s) = s[1]
  OBVIOUS
<1>4. IsFiniteSet(D)
  <2>1. IsFiniteSet(1..Len(s))
    BY <1>1, FS_Interval
  <2>2. D \in SUBSET (1..Len(s))
    OBVIOUS
  <2> QED
    BY <2>1, <2>2, FS_Subset
<1>5. IsFiniteSet(T)
  <2>1. IsFiniteSet(1..Len(Tail(s)))
    BY <1>1, <1>2, FS_Interval
  <2>2. T \in SUBSET (1..Len(Tail(s)))
    OBVIOUS
  <2> QED
    BY <2>1, <2>2, FS_Subset
<1>6. ExistsBijection(T, D \ {1})
  <2>1. \A i \in T : i \in Nat /\ i + 1 \in D \ {1}
    BY <1>1, <1>2
  <2>2. f \in [T -> D \ {1}]
    BY <2>1
  <2>3. \A i, j \in T : f[i] = f[j] => i = j
    BY <2>1
  <2>4. \A k \in D \ {1} : \E i \in T : f[i] = k
    <3>1. TAKE k \in D \ {1}
    <3>2. k - 1 \in T
      <4>1. k \in 2..Len(s) /\ s[k] = "heartbeat_ack"
        BY <1>1
      <4>2. k - 1 \in 1..Len(Tail(s)) /\ (k - 1) + 1 = k
        BY <1>1, <1>2, <4>1
      <4> QED
        BY <1>2, <4>1, <4>2
    <3>3. f[k - 1] = k
      BY <3>2, <1>1
    <3> QED
      BY <3>2, <3>3
  <2>5. f \in Bijection(T, D \ {1})
    BY <2>2, <2>3, <2>4 DEF Bijection, Injection, Surjection, IsInjective
  <2> QED
    BY <2>5 DEF ExistsBijection
<1>7. Cardinality(D \ {1}) = Cardinality(T)
  BY <1>5, <1>6, FS_Bijection
<1>8. Cardinality(D \ {1}) = IF 1 \in D THEN Cardinality(D) - 1 ELSE Cardinality(D)
  BY <1>4, FS_RemoveElement
<1>9. 1 \in D <=> Head(s) = "heartbeat_ack"
  BY <1>1, <1>3
<1>10. Cardinality(D) \in Nat /\ Cardinality(T) \in Nat
  BY <1>4, <1>5, FS_CardinalityType
<1> QED
  <2>1. Acks(s) = Cardinality(D) /\ Acks(Tail(s)) = Cardinality(T)
    BY DEF Acks
  <2> HIDE DEF D, T
  <2> QED
    BY <2>1, <1>7, <1>8, <1>9, <1>10

(* What can be put into the queues and taken from them.                    *)
QueuesFit ==
  /\ \A f \in Acknowledgements : Len(control) < ControlRoom =>
       /\ Append(control, f) \in Seq(Acknowledgements)
       /\ Len(Append(control, f)) \leq ControlRoom
  /\ control # <<>> =>
       /\ Head(control) \in Frames
       /\ Tail(control) \in Seq(Acknowledgements) /\ Len(Tail(control)) \leq ControlRoom
  /\ \A c \in Commands : Append(dispatch, c) \in Seq(Commands)
  /\ dispatch # <<>> => Head(dispatch) \in Frames /\ Tail(dispatch) \in Seq(Commands)
  /\ \A f \in Frames : Len(down) < WireRoom =>
       Append(down, f) \in Seq(Frames) /\ Len(Append(down, f)) \leq WireRoom
  /\ down # <<>> =>
       Head(down) \in Frames /\ Tail(down) \in Seq(Frames) /\ Len(Tail(down)) \leq WireRoom
  /\ \A f \in Requests : Len(up) < WireRoom =>
       Append(up, f) \in Seq(Requests) /\ Len(Append(up, f)) \leq WireRoom
  /\ up # <<>> =>
       Head(up) \in Requests /\ Tail(up) \in Seq(Requests) /\ Len(Tail(up)) \leq WireRoom
  /\ \A f \in Requests : Len(outbound) < OutboundRoom =>
       /\ Append(outbound, f) \in Seq(Requests)
       /\ Len(Append(outbound, f)) \leq OutboundRoom
  /\ outbound # <<>> =>
       /\ Head(outbound) \in Requests
       /\ Tail(outbound) \in Seq(Requests) /\ Len(Tail(outbound)) \leq OutboundRoom
  /\ <<>> \in Seq(Acknowledgements) /\ <<>> \in Seq(Commands)
  /\ <<>> \in Seq(Frames) /\ <<>> \in Seq(Requests) /\ Len(<<>>) = 0

LEMMA Queues == ASSUME TypeOK PROVE QueuesFit
<1> USE RoomAssumption DEF TypeOK, Acknowledgements
<1>1. ControlRoom \in Nat /\ WireRoom \in Nat /\ OutboundRoom \in Nat
  OBVIOUS
<1>2. /\ control \in Seq(Acknowledgements) /\ Len(control) \leq ControlRoom /\ Len(control) \in Nat
      /\ dispatch \in Seq(Commands)
      /\ down \in Seq(Frames) /\ Len(down) \leq WireRoom /\ Len(down) \in Nat
      /\ up \in Seq(Requests) /\ Len(up) \leq WireRoom /\ Len(up) \in Nat
      /\ outbound \in Seq(Requests) /\ Len(outbound) \leq OutboundRoom /\ Len(outbound) \in Nat
  BY LenProperties
<1>3. Acknowledgements \subseteq Frames /\ Commands \subseteq Frames
  BY DEF Frames
<1>4. ASSUME NEW S, NEW s \in Seq(S), NEW n \in Nat, Len(s) \leq n, s # <<>>
      PROVE  Head(s) \in S /\ Tail(s) \in Seq(S) /\ Len(Tail(s)) \leq n
  <2>1. Head(s) \in S /\ Tail(s) \in Seq(S) /\ Len(Tail(s)) \leq Len(s)
    BY <1>4, TakeFrame
  <2>2. Len(s) \in Nat /\ Len(Tail(s)) \in Nat
    BY <2>1, LenProperties
  <2> QED
    BY <1>4, <2>1, <2>2
<1> HIDE DEF TypeOK, Acknowledgements
<1> HIDE RoomAssumption
<1>5. \A f \in Acknowledgements : Len(control) < ControlRoom =>
        /\ Append(control, f) \in Seq(Acknowledgements)
        /\ Len(Append(control, f)) \leq ControlRoom
  BY <1>1, <1>2, PutFrame
<1>6. control # <<>> =>
        /\ Head(control) \in Frames
        /\ Tail(control) \in Seq(Acknowledgements) /\ Len(Tail(control)) \leq ControlRoom
  BY <1>1, <1>2, <1>3, <1>4
<1>7. \A c \in Commands : Append(dispatch, c) \in Seq(Commands)
  BY <1>2, AppendProperties
<1>8. dispatch # <<>> => Head(dispatch) \in Frames /\ Tail(dispatch) \in Seq(Commands)
  BY <1>2, <1>3, HeadTailProperties
<1>9. \A f \in Frames : Len(down) < WireRoom =>
        Append(down, f) \in Seq(Frames) /\ Len(Append(down, f)) \leq WireRoom
  BY <1>1, <1>2, PutFrame
<1>10. down # <<>> =>
        Head(down) \in Frames /\ Tail(down) \in Seq(Frames) /\ Len(Tail(down)) \leq WireRoom
  BY <1>1, <1>2, <1>4
<1>11. \A f \in Requests : Len(up) < WireRoom =>
        Append(up, f) \in Seq(Requests) /\ Len(Append(up, f)) \leq WireRoom
  BY <1>1, <1>2, PutFrame
<1>12. up # <<>> =>
        Head(up) \in Requests /\ Tail(up) \in Seq(Requests) /\ Len(Tail(up)) \leq WireRoom
  BY <1>1, <1>2, <1>4
<1>13. \A f \in Requests : Len(outbound) < OutboundRoom =>
         /\ Append(outbound, f) \in Seq(Requests)
         /\ Len(Append(outbound, f)) \leq OutboundRoom
  BY <1>1, <1>2, PutFrame
<1>14. outbound # <<>> =>
         /\ Head(outbound) \in Requests
         /\ Tail(outbound) \in Seq(Requests) /\ Len(Tail(outbound)) \leq OutboundRoom
  BY <1>1, <1>2, <1>4
<1> QED
  BY <1>5, <1>6, <1>7, <1>8, <1>9, <1>10, <1>11, <1>12, <1>13, <1>14, EmptySeq DEF QueuesFit

-----------------------------------------------------------------------------
(* The invariant is kept by every step.                                    *)

(* runSession's return leaves empty queues and no goroutine (End).         *)
LEMMA EndType == ASSUME TypeOK, End, faults' \in 0..MaxFaults PROVE TypeOK'
<1>1. QueuesFit
  BY Queues
<1>2. /\ down' \in Seq(Frames) /\ Len(down') \leq WireRoom
      /\ outbound' \in Seq(Requests) /\ Len(outbound') \leq OutboundRoom
  BY <1>1, RoomAssumption DEF QueuesFit, End
<1>3. /\ missed' \in 0..1 /\ acks' \in 0..AckRoom /\ quota' \in {-1} \cup Nat
      /\ job' \in [Commands -> {"none", "running", "leaving"}]
  BY RoomAssumption DEF End
<1> QED
  BY <1>2, <1>3 DEF TypeOK, End, consoleVars

(* The closing of the session leaves every dispatcher with an answer.      *)
LEMMA LostType ==
  ASSUME NEW asked \in [Commands -> {"new", "open", "over"}]
  PROVE  Lost(asked) \in [Commands -> {"new", "open", "over"}]
BY DEF Lost

(* A result resolves its own command, or nothing (resolvePending).         *)
LEMMA ResolvedType ==
  ASSUME TypeOK, HandleResult
  PROVE  /\ ask' \in [Commands -> {"new", "open", "over"}]
         /\ handler' \in {"recv", "over"} /\ closed' \in BOOLEAN
<1> DEFINE Asks == [Commands -> {"new", "open", "over"}]
<1>1. PICK c \in Commands : c = Head(up)
  BY DEF HandleResult
<1>2. ask \in Asks /\ closed \in BOOLEAN
  BY DEF TypeOK
<1>3. PICK asked : asked = [ask EXCEPT ![c] = IF ask[c] = "open" THEN "over" ELSE ask[c]]
  OBVIOUS
<1>4. asked \in Asks
  BY <1>2, <1>3
<1>5. NextFrame(asked)
  BY <1>1, <1>3 DEF HandleResult
<1>6. Lost(asked) \in Asks
  BY <1>4, LostType
<1> QED
  BY <1>2, <1>4, <1>5, <1>6 DEF NextFrame

(* Every action keeps the types.                                           *)
LEMMA TypeStep == ASSUME TypeOK, Unacked, [Next]_vars PROVE TypeOK'
<1>q. QueuesFit
  BY Queues
<1>l. \A asked \in [Commands -> {"new", "open", "over"}] :
        Lost(asked) \in [Commands -> {"new", "open", "over"}]
  BY LostType
<1> USE RoomAssumption DEF TypeOK, Acknowledgements, Frames, Requests
<1>0. ASSUME UNCHANGED vars PROVE TypeOK'
  BY <1>0 DEF vars, consoleVars, netVars, loopVars, workerVars, history
<1>1. ASSUME Publish PROVE TypeOK'
  <2>1. ask' \in [Commands -> {"new", "open", "over"}]
    BY <1>1, <1>l DEF Publish
  <2>2. /\ control' \in Seq(Acknowledgements) /\ Len(control') \leq ControlRoom
        /\ dispatch' \in Seq(Commands)
    BY <1>1, <1>q DEF Publish, QueuesFit
  <2> QED
    BY <1>1, <2>1, <2>2 DEF Publish, netVars, loopVars, workerVars
<1>2. ASSUME StartWriter PROVE TypeOK'
  BY <1>2 DEF StartWriter, consoleVars, netVars, loopVars, workerVars,
     history
<1>3. ASSUME QueueAck PROVE TypeOK'
  <2>1. control = <<>> /\ Len(control) < ControlRoom
    BY <1>3, <1>q DEF QueueAck, Unacked, QueuesFit
  <2> QED
    BY <1>3, <2>1, <1>q, <1>l DEF QueueAck, QueuesFit, consoleVars,
       netVars, loopVars, workerVars, history
<1>4. ASSUME HandleHeartbeat PROVE TypeOK'
  <2>1. /\ control' \in Seq(Acknowledgements) /\ Len(control') \leq ControlRoom
        /\ ask' \in [Commands -> {"new", "open", "over"}]
        /\ handler' \in {"recv", "beat", "over"} /\ closed' \in BOOLEAN
    BY <1>4, <1>q, <1>l DEF HandleHeartbeat, NextFrame, QueuesFit
  <2>2. up' \in Seq(Requests) /\ Len(up') \leq WireRoom
    BY <1>4, <1>q DEF HandleHeartbeat, TakeUp, QueuesFit
  <2> QED
    BY <1>4, <2>1, <2>2 DEF HandleHeartbeat, TakeUp, loopVars, workerVars
<1>5. ASSUME QueueHeartbeatAck PROVE TypeOK'
  <2>1. /\ control' \in Seq(Acknowledgements) /\ Len(control') \leq ControlRoom
        /\ ask' \in [Commands -> {"new", "open", "over"}]
        /\ handler' \in {"recv", "beat", "over"} /\ closed' \in BOOLEAN
    BY <1>5, <1>q, <1>l DEF QueueHeartbeatAck, NextFrame, QueuesFit
  <2> QED
    BY <1>5, <2>1 DEF QueueHeartbeatAck, netVars, loopVars, workerVars
<1>6. ASSUME HandleResult PROVE TypeOK'
  <2>2. /\ ask' \in [Commands -> {"new", "open", "over"}]
        /\ handler' \in {"recv", "over"} /\ closed' \in BOOLEAN
    BY <1>6, ResolvedType
  <2> QED
    BY <1>6, <2>2, <1>q DEF HandleResult, TakeUp, QueuesFit, loopVars,
       workerVars
<1>7. ASSUME GiveUp PROVE TypeOK'
  BY <1>7, <1>l DEF GiveUp, Over, CloseSession, consoleVars, netVars,
     loopVars, workerVars, history
<1>8. ASSUME RecvFails PROVE TypeOK'
  <2>1. CASE TurnedAway
    BY <1>8, <2>1 DEF RecvFails, TurnedAway, netVars, loopVars, workerVars
  <2>2. CASE Over
    BY <1>8, <2>2, <1>l DEF RecvFails, Over, CloseSession, netVars, loopVars, workerVars
  <2> QED
    BY <1>8, <2>1, <2>2 DEF RecvFails
<1>9. ASSUME OldEnds PROVE TypeOK'
  BY <1>9, <1>l DEF OldEnds, CloseSession, consoleVars, netVars, loopVars,
     workerVars, history
<1>10. ASSUME SendControl PROVE TypeOK'
  <2>1. /\ down' \in Seq(Frames) /\ Len(down') \leq WireRoom
        /\ control' \in Seq(Acknowledgements) /\ Len(control') \leq ControlRoom
    BY <1>10, <1>q DEF SendControl, CanSend, QueuesFit
  <2> QED
    BY <1>10, <2>1 DEF SendControl, loopVars, workerVars, history
<1>11. ASSUME PollNothing PROVE TypeOK'
  BY <1>11 DEF PollNothing, consoleVars, netVars, loopVars, workerVars,
     history
<1>12. ASSUME SendCommand PROVE TypeOK'
  <2>1. /\ down' \in Seq(Frames) /\ Len(down') \leq WireRoom
        /\ dispatch' \in Seq(Commands)
    BY <1>12, <1>q DEF SendCommand, CanSend, QueuesFit
  <2> QED
    BY <1>12, <2>1 DEF SendCommand, loopVars, workerVars, history
<1>13. ASSUME WriterStops PROVE TypeOK'
  BY <1>13 DEF WriterStops, consoleVars, netVars, loopVars, workerVars,
     history
<1>14. ASSUME Refuse PROVE TypeOK'
  <2>1. /\ faults' \in 0..MaxFaults
        /\ UNCHANGED <<writer, control, dispatch, netVars, loopVars, workerVars, quota>>
    BY <1>14 DEF Refuse, Over, TurnedAway, Fault
  <2>2. CASE TurnedAway
    BY <2>1, <2>2 DEF TurnedAway, netVars, loopVars, workerVars
  <2>3. CASE Over
    BY <2>1, <2>3, <1>l DEF Over, CloseSession, netVars, loopVars, workerVars
  <2> QED
    BY <1>14, <2>2, <2>3 DEF Refuse
<1>15. ASSUME Disconnect PROVE TypeOK'
  <2>1. /\ ask' \in [Commands -> {"new", "open", "over"}]
        /\ faults' \in 0..MaxFaults
    BY <1>15, <1>l DEF Disconnect, Over, TurnedAway, CloseSession, Fault
  <2> QED
    BY <1>15, <2>1 DEF Disconnect, CloseSession, netVars, loopVars,
       workerVars
<1>16. ASSUME FallSilent PROVE TypeOK'
  <2>1. Acks(down) \in Nat /\ acks \in Nat
    BY AcksType
  <2>2. faults' \in 0..MaxFaults /\ quota' \in Nat
    BY <1>16, <2>1 DEF FallSilent, Fault
  <2> QED
    BY <1>16, <2>2 DEF FallSilent, consoleVars, loopVars, workerVars
<1>17. ASSUME Break PROVE TypeOK'
  <2>1. faults' \in 0..MaxFaults
    BY <1>17 DEF Break, Fault
  <2> QED
    BY <1>17, <2>1 DEF Break, consoleVars, netVars, loopVars, workerVars,
       history
<1>18. ASSUME Dial PROVE TypeOK'
  BY <1>18, <1>q, <1>l DEF Dial, QueuesFit, consoleVars, netVars, loopVars,
     workerVars, history
<1>19. ASSUME FirstFrame PROVE TypeOK'
  <2>1. CASE Head(down) = "connect_ack"
    BY <1>19, <2>1, <1>q DEF FirstFrame, QueuesFit, consoleVars, netVars,
       loopVars, workerVars, history
  <2>2. CASE Head(down) # "connect_ack"
    BY <1>19, <2>2, EndType DEF FirstFrame
  <2> QED
    BY <2>1, <2>2
<1>20. ASSUME FirstFrameFails PROVE TypeOK'
  BY <1>20, EndType DEF FirstFrameFails
<1>21. ASSUME HeartbeatDue PROVE TypeOK'
  <2>1. CASE QueueHeartbeat
    <3>1. outbound' \in Seq(Requests) /\ Len(outbound') \leq OutboundRoom
      BY <2>1, <1>q DEF QueueHeartbeat, Enqueued, QueuesFit
    <3>2. quota' \in {-1} \cup Nat
      BY <2>1 DEF QueueHeartbeat
    <3> QED
      BY <2>1, <3>1, <3>2 DEF QueueHeartbeat, Enqueued, consoleVars,
         netVars, loopVars, workerVars, history
  <2>2. CASE main' = "send" /\ UNCHANGED <<consoleVars, netVars, missed, workerVars, history>>
    BY <2>2 DEF consoleVars, netVars, loopVars, workerVars, history
  <2> QED
    BY <1>21, <2>1, <2>2 DEF HeartbeatDue
<1>22. ASSUME HeartbeatAcked PROVE TypeOK'
  BY <1>22 DEF HeartbeatAcked, consoleVars, netVars, loopVars, workerVars,
     history
<1>23. ASSUME AckMissed PROVE TypeOK'
  <2>1. CASE End /\ UNCHANGED faults
    BY <2>1, EndType
  <2>2. CASE missed = 0 /\ Missed(1)
    BY <2>2 DEF Missed, consoleVars, netVars, loopVars, workerVars,
       history
  <2> QED
    BY <1>23, <2>1, <2>2 DEF AckMissed
<1>24. ASSUME LoopFails PROVE TypeOK'
  BY <1>24, EndType DEF LoopFails
<1>25. ASSUME FirstFrameLate PROVE TypeOK'
  BY <1>25, EndType DEF FirstFrameLate, Fault
<1>26. ASSUME ReceiveAck PROVE TypeOK'
  <2>1. /\ down' \in Seq(Frames) /\ Len(down') \leq WireRoom
        /\ acks' \in 0..AckRoom
    BY <1>26, <1>q DEF ReceiveAck, TakeDown, QueuesFit
  <2> QED
    BY <1>26, <2>1 DEF ReceiveAck, TakeDown, consoleVars, loopVars, history
<1>27. ASSUME ReceiveCommand PROVE TypeOK'
  <2>1. /\ down' \in Seq(Frames) /\ Len(down') \leq WireRoom
        /\ job' \in [Commands -> {"none", "running", "leaving"}]
    BY <1>27, <1>q DEF ReceiveCommand, TakeDown, QueuesFit
  <2> QED
    BY <1>27, <2>1 DEF ReceiveCommand, TakeDown, consoleVars, loopVars,
       history
<1>28. ASSUME RefuseCommand PROVE TypeOK'
  <2>1. /\ outbound' \in Seq(Requests) /\ Len(outbound') \leq OutboundRoom
        /\ receiver' \in {"run", "gone"} /\ failed' \in BOOLEAN
    BY <1>28, <1>q DEF RefuseCommand, TakeDown, QueuesFit
  <2>2. down' \in Seq(Frames) /\ Len(down') \leq WireRoom
    BY <1>28, <1>q DEF RefuseCommand, TakeDown, QueuesFit
  <2> QED
    BY <1>28, <2>1, <2>2 DEF RefuseCommand, TakeDown, consoleVars,
       loopVars, history
<1>29. ASSUME ReceiverFails PROVE TypeOK'
  BY <1>29 DEF ReceiverFails, consoleVars, netVars, loopVars, workerVars,
     history
<1>30. ASSUME Send PROVE TypeOK'
  <2>1. /\ up' \in Seq(Requests) /\ Len(up') \leq WireRoom
        /\ outbound' \in Seq(Requests) /\ Len(outbound') \leq OutboundRoom
    BY <1>30, <1>q DEF Send, CanSend, QueuesFit
  <2> QED
    BY <1>30, <2>1 DEF Send, consoleVars, loopVars, history
<1>31. ASSUME SendFails PROVE TypeOK'
  <2>1. outbound' \in Seq(Requests) /\ Len(outbound') \leq OutboundRoom
    BY <1>31, <1>q DEF SendFails, QueuesFit
  <2> QED
    BY <1>31, <2>1 DEF SendFails, consoleVars, netVars, loopVars, history
<1>32. ASSUME Swallow PROVE TypeOK'
  BY <1>32, <1>q DEF Swallow, QueuesFit, consoleVars, netVars, loopVars,
     workerVars, history
<1>33. ASSUME NEW c \in Commands, Dispatch(c) PROVE TypeOK'
  BY <1>33, <1>q DEF Dispatch, QueuesFit, consoleVars, netVars, loopVars,
     workerVars, history
<1>34. ASSUME NEW c \in Commands, Execute(c) PROVE TypeOK'
  BY <1>34, <1>q DEF Execute, Enqueued, QueuesFit, consoleVars, netVars,
     loopVars, workerVars, history
<1>35. ASSUME NEW c \in Commands, ReleaseSlot(c) PROVE TypeOK'
  BY <1>35 DEF ReleaseSlot, consoleVars, netVars, loopVars, workerVars,
     history
<1> QED
  BY <1>0, <1>1, <1>2, <1>3, <1>4, <1>5, <1>6, <1>7, <1>8, <1>9, <1>10,
     <1>11, <1>12, <1>13, <1>14, <1>15, <1>16, <1>17, <1>18, <1>19, <1>20,
     <1>21, <1>22, <1>23, <1>24, <1>25, <1>26, <1>27, <1>28, <1>29, <1>30,
     <1>31, <1>32, <1>33, <1>34, <1>35 DEF Next, Connect, WriterLoop,
     RunSession, ReceiverLoop, SenderLoop, Job

(* The control queue is empty until the connect_ack is due: only Connect   *)
(* fills it, and a new connection begins with a new one (swapSession).     *)
LEMMA UnackedStep == ASSUME Unacked, [Next]_vars PROVE Unacked'
<1>0. ASSUME UNCHANGED <<handler, control>> PROVE Unacked'
  BY <1>0 DEF Unacked
<1>1. ASSUME handler' = "over" \/ handler' \in {"recv", "beat"} PROVE Unacked'
  BY <1>1 DEF Unacked
<1>2. CASE UNCHANGED vars
  BY <1>0, <1>2 DEF vars, consoleVars
<1>3. CASE Publish \/ StartWriter
  BY <1>3 DEF Publish, StartWriter, Unacked
<1>4. CASE QueueAck \/ HandleHeartbeat \/ QueueHeartbeatAck \/ HandleResult
  BY <1>1, <1>4 DEF QueueAck, HandleHeartbeat, QueueHeartbeatAck, HandleResult, NextFrame
<1>5. CASE GiveUp \/ RecvFails \/ Refuse
  BY <1>1, <1>5 DEF GiveUp, RecvFails, Refuse, Over, TurnedAway
<1>6. CASE SendControl
  BY <1>6 DEF SendControl, Unacked
<1>7. CASE PollNothing \/ SendCommand \/ WriterStops \/ OldEnds \/ Disconnect
  BY <1>0, <1>7 DEF PollNothing, SendCommand, WriterStops, OldEnds, Disconnect
<1>8. CASE FallSilent \/ Break \/ ReceiverLoop \/ SenderLoop \/ Swallow
  BY <1>0, <1>8 DEF FallSilent, Break, ReceiverLoop, SenderLoop, Swallow, ReceiveAck,
     ReceiveCommand, RefuseCommand, ReceiverFails, Send, SendFails, consoleVars
<1>9. CASE Dial
  BY <1>9 DEF Dial, Unacked
<1>10. CASE FirstFrame \/ FirstFrameFails \/ FirstFrameLate \/ LoopFails \/ AckMissed
  BY <1>0, <1>10 DEF FirstFrame, FirstFrameFails, FirstFrameLate, LoopFails, AckMissed, Missed,
     End, consoleVars
<1>11. CASE HeartbeatDue \/ HeartbeatAcked
  BY <1>0, <1>11 DEF HeartbeatDue, HeartbeatAcked, QueueHeartbeat, consoleVars
<1>12. CASE \E c \in Commands : Dispatch(c) \/ Job(c)
  BY <1>0, <1>12 DEF Dispatch, Job, Execute, ReleaseSlot, consoleVars
<1> QED
  BY <1>2, <1>3, <1>4, <1>5, <1>6, <1>7, <1>8, <1>9, <1>10, <1>11, <1>12
  DEF Next, Connect, WriterLoop, RunSession

(* A silent network brings nothing new, and each heartbeat queued spends   *)
(* an acknowledgement or a miss.                                           *)
LEMMA OverdueStep ==
  ASSUME TypeOK, NotOverdue, Bounded, [Next]_vars, TypeOK'
  PROVE  NotOverdue' /\ Bounded'
<1> DEFINE Good == NotOverdue' /\ Bounded'
<1>a. Acks(down) \in Nat /\ Acks(down') \in Nat
  BY AcksType DEF TypeOK
<1>t. /\ acks \in Nat /\ missed \in 0..1 /\ quota \in Int
      /\ acks' \in Nat /\ missed' \in 0..1 /\ quota' \in Int
  BY RoomAssumption DEF TypeOK
<1>d. down # <<>> =>
        Acks(down) = Acks(Tail(down)) + (IF Head(down) = "heartbeat_ack" THEN 1 ELSE 0)
  BY AcksTail DEF TypeOK
<1>0. ASSUME quota' = quota \/ quota' = 0, net' # "silent" PROVE Good
  BY <1>0, <1>t DEF NotOverdue, Bounded
<1>1. ASSUME UNCHANGED <<net, quota, acks, missed, main>>, net = "up" \/ down' = down PROVE Good
  BY <1>1, <1>a, <1>t DEF NotOverdue, Bounded, Due
<1>2. CASE UNCHANGED vars
  BY <1>1, <1>2 DEF vars, netVars, loopVars, workerVars, history
<1>3. CASE \/ Publish \/ StartWriter \/ QueueAck \/ HandleHeartbeat \/ QueueHeartbeatAck
            \/ HandleResult
  BY <1>1, <1>3 DEF Publish, StartWriter, QueueAck, HandleHeartbeat, QueueHeartbeatAck,
     HandleResult, TakeUp, netVars, loopVars, workerVars, history
<1>4. CASE GiveUp \/ RecvFails \/ OldEnds \/ Refuse \/ Disconnect
  BY <1>1, <1>4 DEF GiveUp, RecvFails, OldEnds, Refuse, Disconnect, Over, TurnedAway,
     netVars, loopVars, workerVars
<1>5. CASE WriterLoop
  BY <1>1, <1>5 DEF WriterLoop, SendControl, PollNothing, SendCommand, WriterStops, CanSend,
     netVars, loopVars, workerVars, history
<1>6. CASE FallSilent
  BY <1>6, <1>a, <1>t DEF FallSilent, NotOverdue, Bounded, Due, loopVars, workerVars
<1>7. CASE Break \/ End
  BY <1>0, <1>7 DEF Break, End
<1>8. CASE Dial
  BY <1>0, <1>8 DEF Dial, history
<1>9. CASE FirstFrame /\ ~End
  <2>1. /\ down # <<>> /\ down' = Tail(down) /\ main = "hello" /\ main' = "wait"
        /\ UNCHANGED <<net, quota, acks, missed>>
    BY <1>9 DEF FirstFrame, history
  <2> QED
    BY <2>1, <1>a, <1>t, <1>d DEF NotOverdue, Bounded, Due
<1>10. CASE QueueHeartbeat /\ main \in {"wait", "send"}
  <2>1. /\ UNCHANGED <<net, down, acks, missed>> /\ main' = "await"
        /\ quota' = IF net = "silent" /\ quota \geq 0 THEN quota - 1 ELSE quota
    BY <1>10 DEF QueueHeartbeat, Enqueued, netVars
  <2>2. net = "silent" => quota \geq Due /\ Due \geq 1 /\ Due' = Due - 1
    BY <2>1, <1>10, <1>a, <1>t DEF Bounded, Due
  <2>3. Due \in Int
    BY <1>a, <1>t DEF Due
  <2> QED
    BY <2>1, <2>2, <2>3, <1>t DEF NotOverdue, Bounded
<1>11. CASE HeartbeatDue /\ ~QueueHeartbeat
  <2>1. UNCHANGED <<net, quota, acks, missed, down>> /\ main = "wait" /\ main' = "send"
    BY <1>11 DEF HeartbeatDue, netVars, workerVars, history
  <2> QED
    BY <2>1, <1>a, <1>t DEF NotOverdue, Bounded, Due
<1>12. CASE HeartbeatAcked
  <2>1. /\ UNCHANGED <<net, quota, down>> /\ main = "await" /\ main' = "wait"
        /\ acks > 0 /\ acks' = acks - 1 /\ missed' = 0
    BY <1>12 DEF HeartbeatAcked, netVars, history
  <2> QED
    BY <2>1, <1>a, <1>t DEF NotOverdue, Bounded, Due
<1>13. CASE AckMissed /\ ~End
  <2>1. /\ UNCHANGED <<net, quota, down, acks>> /\ main = "await" /\ main' = "wait"
        /\ missed = 0 /\ missed' = 1
    BY <1>13 DEF AckMissed, Missed, netVars, workerVars, history
  <2> QED
    BY <2>1, <1>a, <1>t DEF NotOverdue, Bounded, Due
<1>14. CASE ReceiveAck
  <2>1. /\ UNCHANGED <<net, quota, main, missed>> /\ down # <<>> /\ down' = Tail(down)
        /\ acks' = acks + 1 /\ Head(down) = "heartbeat_ack"
    BY <1>14 DEF ReceiveAck, TakeDown, loopVars, history
  <2>2. Acks(down) = Acks(down') + 1
    BY <2>1, <1>a, <1>d
  <2>3. Due' = Due
    BY <2>1, <2>2, <1>a, <1>t DEF Due
  <2> QED
    BY <2>1, <2>3 DEF NotOverdue, Bounded
<1>15. CASE ReceiveCommand \/ RefuseCommand
  <2>1. /\ UNCHANGED <<net, quota, main, missed, acks>> /\ down # <<>> /\ down' = Tail(down)
    BY <1>15 DEF ReceiveCommand, RefuseCommand, TakeDown, loopVars, history
  <2>2. Acks(down') \leq Acks(down)
    BY <2>1, <1>a, <1>d
  <2>3. Due \in Int /\ Due' \in Int /\ Due' \leq Due
    BY <2>1, <2>2, <1>a, <1>t DEF Due
  <2> QED
    BY <2>1, <2>3, <1>t DEF NotOverdue, Bounded
<1>16. CASE ReceiverFails \/ SenderLoop \/ Swallow
  BY <1>1, <1>16 DEF ReceiverFails, SenderLoop, Send, SendFails, Swallow, netVars, loopVars, history
<1>17. CASE \E c \in Commands : Dispatch(c) \/ Job(c)
  BY <1>1, <1>17 DEF Dispatch, Job, Execute, ReleaseSlot, Enqueued, netVars, loopVars, workerVars,
     history
<1>18. ASSUME FirstFrameFails \/ FirstFrameLate \/ LoopFails PROVE End
  BY <1>18 DEF FirstFrameFails, FirstFrameLate, LoopFails
<1>19. ASSUME HeartbeatDue, QueueHeartbeat PROVE main \in {"wait", "send"}
  BY <1>19 DEF HeartbeatDue
<1> QED
  BY <1>2, <1>3, <1>4, <1>5, <1>6, <1>7, <1>8, <1>9, <1>10, <1>11, <1>12, <1>13, <1>14, <1>15,
     <1>16, <1>17, <1>18, <1>19
  DEF Next, Connect, RunSession, ReceiverLoop

-----------------------------------------------------------------------------
LEMMA InitInv == Init => IInv
<1>1. ASSUME NEW S, NEW n \in Nat PROVE <<>> \in Seq(S) /\ Len(<<>>) \leq n
  BY EmptySeq
<1>2. {OutboundRoom, AckRoom, ControlRoom, WireRoom} \subseteq Nat /\ MaxFaults \in Nat
  BY RoomAssumption
<1>3. ASSUME Init PROVE TypeOK
  <2>1. /\ control \in Seq({"connect_ack", "heartbeat_ack"}) /\ Len(control) \leq ControlRoom
        /\ dispatch \in Seq(Commands)
        /\ down \in Seq(Frames) /\ Len(down) \leq WireRoom
        /\ up \in Seq(Requests) /\ Len(up) \leq WireRoom
        /\ outbound \in Seq(Requests) /\ Len(outbound) \leq OutboundRoom
    BY <1>1, <1>2, <1>3 DEF Init
  <2>2. /\ missed \in 0..1 /\ acks \in 0..AckRoom /\ faults \in 0..MaxFaults
        /\ quota \in {-1} \cup Nat
    BY <1>2, <1>3 DEF Init
  <2>3. /\ job \in [Commands -> {"none", "running", "leaving"}]
        /\ ask \in [Commands -> {"new", "open", "over"}]
    BY <1>3 DEF Init
  <2> QED
    BY <1>3, <2>1, <2>2, <2>3 DEF Init, TypeOK
<1>4. Init => NotOverdue /\ Bounded /\ Unacked
  BY DEF Init, NotOverdue, Bounded, Unacked
<1> QED
  BY <1>3, <1>4 DEF IInv

(* The invariant holds in every reachable state.                           *)
LEMMA Invariance == Spec => []IInv
<1>1. IInv /\ [Next]_vars => IInv'
  BY TypeStep, UnackedStep, OverdueStep DEF IInv
<1> QED
  BY <1>1, InitInv, PTL DEF Spec

(* Every variable keeps its type: no queue of the two ends or of the       *)
(* stream is ever filled beyond its room, and there is always room for the *)
(* connect_ack, for any sizes.                                             *)
THEOREM TypeCorrect == Spec => []TypeOK
<1>1. IInv => TypeOK
  BY DEF IInv
<1> QED
  BY <1>1, Invariance, PTL

(* On a network that has fallen silent the heartbeat loop queues no more   *)
(* heartbeats than the acknowledgements in its channel and under way       *)
(* account for, for any room of the channels and any number of commands    *)
(* (heartbeatLoop, waitHeartbeatAck).                                      *)
THEOREM NotOverdueHolds == Spec => []NotOverdue
<1>1. IInv => NotOverdue
  BY DEF IInv
<1> QED
  BY <1>1, Invariance, PTL

=============================================================================

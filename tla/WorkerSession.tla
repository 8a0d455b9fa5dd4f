--------------------------- MODULE WorkerSession ---------------------------
(***************************************************************************)
(* One active session of one worker on the console, and the dispatchers    *)
(* that use it (console/internal/grpcserver: session_runtime.go,           *)
(* service_dispatch.go, service_connect.go).                               *)
(*                                                                         *)
(* A session keeps an in-flight counter per capability, the table of       *)
(* commands that wait for a result, an outbound queue, and a done channel. *)
(* Four kinds of goroutines meet in it: one dispatcher per command, the    *)
(* receive loop of Connect, the writer goroutine, and whoever closes the   *)
(* session (a newer connection, a deletion, or Connect itself).            *)
(*                                                                         *)
(* Every critical section of the code is one step.  What a goroutine does  *)
(* between two critical sections is not atomic here either: a session      *)
(* pointer is used after it left the table of sessions, a slot count is    *)
(* read before it is taken, an entry is removed from the pending table     *)
(* before its slot is given back.                                          *)
(***************************************************************************)
EXTENDS Integers, FiniteSets, Sequences

CONSTANTS
  Commands,         \* calls of dispatchCommand, each with its own command_id
  Capabilities,     \* capability names the worker declared
  CapabilityOf,     \* the capability each call asks for
  MaxInflight,      \* capability -> max_inflight of the hello frame
  OutboundCapacity  \* commandOutboundBufferSize

ASSUME CommandsAssumption == IsFiniteSet(Commands)
ASSUME CapabilityAssumption == CapabilityOf \in [Commands -> Capabilities]
ASSUME MaxInflightAssumption == MaxInflight \in [Capabilities -> Nat \ {0}]
ASSUME OutboundAssumption == OutboundCapacity \in Nat \ {0}

VARIABLES
  mapped,     \* the session is in RegistryService.sessions
  stream,     \* progress of the Connect handler that serves the session
  writing,    \* writerLoop is running
  outbound,   \* commandOutbound
  sent,       \* commands written to the stream
  inflight,   \* capabilities[k].inflight
  pending,    \* commands in the pending table
  resolving,  \* the command the receive loop took out of the table
  done,       \* the done channel is closed
  closer,     \* progress of close()
  closing,    \* commands close() took and has not failed yet
  result,     \* each command's result channel
  ctx,        \* each call's commandCtx
  call,       \* progress of each call of dispatchCommand
  answer      \* what each call returns

connVars == <<mapped, stream, writing, sent>>
tableVars == <<pending, resolving, done, closer, closing>>
callVars == <<result, ctx, call, answer>>
vars == <<connVars, outbound, inflight, tableVars, callVars>>

CallSteps == {"idle", "found", "picked", "acquired", "abandoning", "registered",
              "sending", "waiting", "leaving", "releasing", "returned"}
Outcomes == {"ok", "error", "session_closed", "closed"}
Answers == {"none", "no_worker", "no_capacity", "internal", "deadline",
            "canceled"} \cup Outcomes

TypeOK ==
  /\ mapped \in BOOLEAN
  /\ stream \in {"starting", "serving", "ended"}
  /\ writing \in BOOLEAN
  /\ outbound \in Seq(Commands)
  /\ sent \in SUBSET Commands
  /\ inflight \in [Capabilities -> Nat]
  /\ pending \in SUBSET Commands
  /\ resolving \in SUBSET Commands
  /\ done \in BOOLEAN
  /\ closer \in {"open", "signaled", "draining", "closed"}
  /\ closing \in SUBSET Commands
  /\ result \in [Commands -> {"absent", "open"} \cup Outcomes]
  /\ ctx \in [Commands -> {"live", "deadline", "canceled"}]
  /\ call \in [Commands -> CallSteps]
  /\ answer \in [Commands -> Answers]

(* swapSession has just published the session; a command may already find it. *)
Init ==
  /\ mapped = TRUE
  /\ stream = "starting"
  /\ writing = FALSE
  /\ outbound = <<>>
  /\ sent = {}
  /\ inflight = [k \in Capabilities |-> 0]
  /\ pending = {}
  /\ resolving = {}
  /\ done = FALSE
  /\ closer = "open"
  /\ closing = {}
  /\ result = [c \in Commands |-> "absent"]
  /\ ctx = [c \in Commands |-> "live"]
  /\ call = [c \in Commands |-> "idle"]
  /\ answer = [c \in Commands |-> "none"]

-----------------------------------------------------------------------------
(* Helpers shared by the goroutines.                                       *)

Goto(c, step) == call' = [call EXCEPT ![c] = step]
Leave(c, step, what) ==
  /\ call' = [call EXCEPT ![c] = step]
  /\ answer' = [answer EXCEPT ![c] = what]

HasRoom(c) == inflight[CapabilityOf[c]] < MaxInflight[CapabilityOf[c]]

(* releaseCapability: a counter that is already 0 stays 0. *)
Release(c) ==
  inflight' = [inflight EXCEPT ![CapabilityOf[c]] = IF @ > 0 THEN @ - 1 ELSE 0]

(* closeResult runs once per channel: later calls find closeOnce used. *)
CloseResult(c, what) ==
  result' = [result EXCEPT ![c] = IF @ = "open" THEN what ELSE @]

-----------------------------------------------------------------------------
(* The dispatcher of command c: dispatchCommand.                           *)

(* The store may list no online node, or the listed node has no session.   *)
FindSession(c) ==
  /\ call[c] = "idle"
  /\ \/ mapped /\ Goto(c, "found") /\ UNCHANGED answer
     \/ Leave(c, "returned", "no_worker")
  /\ UNCHANGED <<connVars, outbound, inflight, tableVars, result, ctx>>

(* inflightSnapshot: the candidate is kept only if it has room now. *)
SnapshotInflight(c) ==
  /\ call[c] = "found"
  /\ IF HasRoom(c) THEN Goto(c, "picked") /\ UNCHANGED answer
                   ELSE Leave(c, "returned", "no_capacity")
  /\ UNCHANGED <<connVars, outbound, inflight, tableVars, result, ctx>>

(* Mutant: the snapshot is trusted, the room is not checked again. *)
TryAcquireUnchecked(c) ==
  /\ call[c] = "picked"
  /\ inflight' = [inflight EXCEPT ![CapabilityOf[c]] = @ + 1]
  /\ Goto(c, "acquired")
  /\ UNCHANGED <<connVars, outbound, tableVars, result, ctx, answer>>

(* tryAcquireCapability re-checks the room before it takes the slot. *)
TryAcquire(c) ==
  /\ call[c] = "picked"
  /\ \/ /\ HasRoom(c)
        /\ inflight' = [inflight EXCEPT ![CapabilityOf[c]] = @ + 1]
        /\ Goto(c, "acquired") /\ UNCHANGED answer
     \/ /\ ~HasRoom(c)
        /\ Leave(c, "returned", "no_capacity") /\ UNCHANGED inflight
  /\ UNCHANGED <<connVars, outbound, tableVars, result, ctx>>

(* newCommandIDFn fails: the slot must be given back. *)
CommandIDFails(c) ==
  /\ call[c] = "acquired"
  /\ Leave(c, "abandoning", "internal")
  /\ UNCHANGED <<connVars, outbound, inflight, tableVars, result, ctx>>

(* Mutant: done is not looked at under pendingMu. *)
RegisterPendingBlind(c) ==
  /\ call[c] = "acquired"
  /\ pending' = pending \cup {c}
  /\ result' = [result EXCEPT ![c] = "open"]
  /\ Goto(c, "registered")
  /\ UNCHANGED <<connVars, outbound, inflight, resolving, done, closer, closing, ctx, answer>>

(* registerPending looks at done and inserts under one hold of pendingMu. *)
RegisterPending(c) ==
  /\ call[c] = "acquired"
  /\ \/ /\ ~done
        /\ pending' = pending \cup {c}
        /\ result' = [result EXCEPT ![c] = "open"]
        /\ Goto(c, "registered") /\ UNCHANGED answer
     \/ /\ done
        /\ Leave(c, "abandoning", "session_closed")
        /\ UNCHANGED <<pending, result>>
  /\ UNCHANGED <<connVars, outbound, inflight, resolving, done, closer, closing, ctx>>

(* Mutant: an error path forgets releaseCapability. *)
AbandonSlotKeeping(c) ==
  /\ call[c] = "abandoning"
  /\ Goto(c, "returned")
  /\ UNCHANGED <<connVars, outbound, inflight, tableVars, result, ctx, answer>>

(* releaseCapability on the two error paths before the deferred cleanup. *)
AbandonSlot(c) ==
  /\ call[c] = "abandoning"
  /\ Release(c)
  /\ Goto(c, "returned")
  /\ UNCHANGED <<connVars, outbound, tableVars, result, ctx, answer>>

(* First select of enqueue: a closed session is noticed before queueing. *)
EnqueueCheck(c) ==
  /\ call[c] = "registered"
  /\ IF done THEN Leave(c, "leaving", "session_closed")
             ELSE Goto(c, "sending") /\ UNCHANGED answer
  /\ UNCHANGED <<connVars, outbound, inflight, tableVars, result, ctx>>

(* Second select of enqueue: any branch that is ready may be taken. *)
Enqueue(c) ==
  /\ call[c] = "sending"
  /\ \/ /\ Len(outbound) < OutboundCapacity
        /\ outbound' = Append(outbound, c)
        /\ Goto(c, "waiting") /\ UNCHANGED answer
     \/ done /\ Leave(c, "leaving", "session_closed") /\ UNCHANGED outbound
     \/ ctx[c] # "live" /\ Leave(c, "leaving", ctx[c]) /\ UNCHANGED outbound
  /\ UNCHANGED <<connVars, inflight, tableVars, result, ctx>>

(* Mutant: the caller waits for the result channel only. *)
AwaitResult(c) ==
  /\ call[c] = "waiting"
  /\ result[c] \in Outcomes /\ Leave(c, "leaving", result[c])
  /\ UNCHANGED <<connVars, outbound, inflight, tableVars, result, ctx>>

(* Final select of dispatchCommand: the context or the result channel. *)
AwaitOutcome(c) ==
  /\ call[c] = "waiting"
  /\ \/ ctx[c] # "live" /\ Leave(c, "leaving", ctx[c])
     \/ result[c] \in Outcomes /\ Leave(c, "leaving", result[c])
  /\ UNCHANGED <<connVars, outbound, inflight, tableVars, result, ctx>>

(* Mutant: the slot is released whether or not the entry was there. *)
UnregisterAlways(c) ==
  /\ call[c] = "leaving"
  /\ pending' = pending \ {c}
  /\ Goto(c, "releasing")
  /\ UNCHANGED <<connVars, outbound, inflight, resolving, done, closer, closing,
                 result, ctx, answer>>

(* The deferred unregisterPending, first half: take the entry if present. *)
UnregisterTake(c) ==
  /\ call[c] = "leaving"
  /\ pending' = pending \ {c}
  /\ Goto(c, IF c \in pending THEN "releasing" ELSE "returned")
  /\ UNCHANGED <<connVars, outbound, inflight, resolving, done, closer, closing,
                 result, ctx, answer>>

(* Mutant: the slot is released, the channel left open. *)
UnregisterSilently(c) ==
  /\ call[c] = "releasing"
  /\ Release(c)
  /\ Goto(c, "returned")
  /\ UNCHANGED <<connVars, outbound, tableVars, result, ctx, answer>>

(* Second half: only who took the entry releases and closes the channel. *)
UnregisterRelease(c) ==
  /\ call[c] = "releasing"
  /\ Release(c)
  /\ CloseResult(c, "closed")
  /\ Goto(c, "returned")
  /\ UNCHANGED <<connVars, outbound, tableVars, ctx, answer>>

Dispatcher(c) ==
  \/ FindSession(c)
  \/ SnapshotInflight(c)
  \/ TryAcquire(c)
  \/ RegisterPending(c)
  \/ AbandonSlot(c)
  \/ EnqueueCheck(c)
  \/ Enqueue(c)
  \/ AwaitOutcome(c)
  \/ UnregisterTake(c)
  \/ UnregisterRelease(c)

InCall(c) == call[c] \notin {"idle", "returned"}

(* The command's deadline passes. *)
Expire(c) ==
  /\ InCall(c) /\ ctx[c] = "live"
  /\ ctx' = [ctx EXCEPT ![c] = "deadline"]
  /\ UNCHANGED <<connVars, outbound, inflight, tableVars, result, call, answer>>

(* The task is canceled, or the HTTP request that waits goes away. *)
Cancel(c) ==
  /\ InCall(c) /\ ctx[c] = "live"
  /\ ctx' = [ctx EXCEPT ![c] = "canceled"]
  /\ UNCHANGED <<connVars, outbound, inflight, tableVars, result, call, answer>>

-----------------------------------------------------------------------------
(* The Connect handler after swapSession, and its receive loop.            *)

(* Upsert, go writerLoop and enqueueControl(connect_ack), or the handler   *)
(* returns because one of them failed.                                     *)
StartStream ==
  /\ stream = "starting"
  /\ \/ stream' = "serving" /\ writing' = TRUE
     \/ stream' = "ended" /\ UNCHANGED writing
  /\ UNCHANGED <<mapped, sent, outbound, inflight, tableVars, callVars>>

(* resolvePending: the entry leaves the table under pendingMu.  A result   *)
(* whose command is no longer pending is dropped.                          *)
ResolveTake(c) ==
  /\ stream = "serving" /\ resolving = {}
  /\ c \in sent /\ c \in pending
  /\ pending' = pending \ {c}
  /\ resolving' = {c}
  /\ UNCHANGED <<connVars, outbound, inflight, done, closer, closing, callVars>>

(* Its slot is released and the outcome delivered: a payload, or an error  *)
(* the worker reported (an empty result counts as one).                    *)
ResolveDeliver(c) ==
  /\ c \in resolving
  /\ resolving' = resolving \ {c}
  /\ Release(c)
  /\ \E what \in {"ok", "error"} : CloseResult(c, what)
  /\ UNCHANGED <<connVars, outbound, pending, done, closer, closing, ctx, call, answer>>

(* Recv fails, the writer failed, or a frame is refused. *)
StreamEnds ==
  /\ stream = "serving" /\ resolving = {}
  /\ stream' = "ended"
  /\ UNCHANGED <<mapped, writing, sent, outbound, inflight, tableVars, callVars>>

-----------------------------------------------------------------------------
(* writerLoop: it leaves when the session is done or when stream.Send      *)
(* fails, and the frame in hand is then lost.                              *)
WriteCommand ==
  /\ writing /\ outbound # <<>>
  /\ outbound' = Tail(outbound)
  /\ \/ sent' = sent \cup {Head(outbound)} /\ UNCHANGED writing
     \/ writing' = FALSE /\ UNCHANGED sent
  /\ UNCHANGED <<mapped, stream, inflight, tableVars, callVars>>

WriterStops ==
  /\ writing /\ done
  /\ writing' = FALSE
  /\ UNCHANGED <<mapped, stream, sent, outbound, inflight, tableVars, callVars>>

-----------------------------------------------------------------------------
(* Ending the session.                                                     *)

(* swapSession by a newer connection, disconnectWorker, or removeSession   *)
(* when this connection's handler returns: always before close().          *)
Unmap ==
  /\ mapped
  /\ mapped' = FALSE
  /\ UNCHANGED <<stream, writing, sent, outbound, inflight, tableVars, callVars>>

(* closeOnce: close(done) comes before the pending table is swapped. *)
CloseSignal ==
  /\ ~mapped /\ closer = "open"
  /\ closer' = "signaled"
  /\ done' = TRUE
  /\ UNCHANGED <<connVars, outbound, inflight, pending, resolving, closing, callVars>>

CloseSwapPending ==
  /\ closer = "signaled"
  /\ closer' = "draining"
  /\ closing' = pending
  /\ pending' = {}
  /\ UNCHANGED <<connVars, outbound, inflight, resolving, done, callVars>>

CloseFailOne(c) ==
  /\ closer = "draining" /\ c \in closing
  /\ closing' = closing \ {c}
  /\ Release(c)
  /\ CloseResult(c, "session_closed")
  /\ UNCHANGED <<connVars, outbound, pending, resolving, done, closer, ctx, call, answer>>

CloseFinish ==
  /\ closer = "draining" /\ closing = {}
  /\ closer' = "closed"
  /\ UNCHANGED <<connVars, outbound, inflight, pending, resolving, done, closing, callVars>>

-----------------------------------------------------------------------------
Connection == StartStream \/ StreamEnds \/ WriteCommand \/ WriterStops
Closer == CloseSwapPending \/ (\E c \in Commands : CloseFailOne(c)) \/ CloseFinish

Next ==
  \/ \E c \in Commands : Dispatcher(c) \/ CommandIDFails(c) \/ Expire(c) \/ Cancel(c)
  \/ \E c \in Commands : ResolveTake(c) \/ ResolveDeliver(c)
  \/ Connection
  \/ Unmap
  \/ CloseSignal
  \/ Closer

Spec == Init /\ [][Next]_vars

(* Goroutines that can run do run, a deadline passes, and close() does not *)
(* stop half way.  Nothing is assumed of the worker, of the stream or of   *)
(* whoever might close the session.                                        *)
Fairness ==
  /\ \A c \in Commands : WF_vars(Dispatcher(c)) /\ WF_vars(Expire(c))
  /\ \A c \in Commands : WF_vars(ResolveDeliver(c))
  /\ WF_vars(Closer)

FairSpec == Spec /\ Fairness

-----------------------------------------------------------------------------
(* Properties.                                                             *)

(* Who answers for command c's slot: its dispatcher before registration or *)
(* in the second half of unregisterPending, the pending table, the receive *)
(* loop, or close().                                                       *)
HeldByCall(c) == call[c] \in {"acquired", "abandoning", "releasing"}
Holds(c) == HeldByCall(c) \/ c \in pending \/ c \in resolving \/ c \in closing
Holders(k) == {c \in Commands : CapabilityOf[c] = k /\ Holds(c)}

(* Every in-flight slot is accounted for by exactly one command that still *)
(* owes its release: releaseCapability is called exactly once for every    *)
(* successful tryAcquireCapability, whichever of unregisterPending,        *)
(* resolvePending and close() wins the race for the entry.                 *)
InflightAccounting == \A k \in Capabilities : inflight[k] = Cardinality(Holders(k))

(* A slot has one owner at a time: two goroutines never both believe they  *)
(* took the same entry out of the pending table.                           *)
SingleOwner ==
  /\ \A c \in Commands : HeldByCall(c) => c \notin pending \cup resolving \cup closing
  /\ pending \cap resolving = {} /\ pending \cap closing = {} /\ resolving \cap closing = {}

(* The commands of a capability that hold a slot never exceed what the     *)
(* worker declared, although the room is first read outside the lock.      *)
CapacityRespected ==
  \A k \in Capabilities : Cardinality(Holders(k)) <= MaxInflight[k]

(* No lost wakeup: once close() is through, no command is in the table     *)
(* (registerPending cannot slip one in behind it) and every dispatcher     *)
(* that waits has its outcome, unless the receive loop is delivering it.   *)
ClosedAnswersAll ==
  closer = "closed" =>
    /\ pending = {}
    /\ \A c \in Commands : call[c] = "waiting" /\ result[c] = "open" => c \in resolving

(* A channel is closed only after its slot has left the table, and an open *)
(* channel always has somebody who will close it.                          *)
OpenHasOwner ==
  \A c \in Commands :
    result[c] = "open" <=>
      c \in pending \cup resolving \cup closing \/ call[c] = "releasing"

(* The session's counter, table and channels together behave as a pool of  *)
(* slots: see SlotPool.  A command is through with its slot as soon as the *)
(* slot is released, which may be well before its dispatcher returns.      *)
Slot(c) ==
  IF Holds(c) THEN "held"
  ELSE IF call[c] \in {"idle", "found", "picked"} THEN "free" ELSE "spent"

Pool == INSTANCE SlotPool WITH slot <- [c \in Commands |-> Slot(c)]

ImplementsSlotPool == Pool!Spec

(* dispatchCommand returns: no worker that stays silent, no full queue and *)
(* no closing session holds a caller for ever.                             *)
CallsReturn == \A c \in Commands : InCall(c) ~> call[c] = "returned"

(* A closed session gives all its slots back, once and for all.            *)
ClosedSessionDrains == done ~> [](\A k \in Capabilities : inflight[k] = 0)
=============================================================================

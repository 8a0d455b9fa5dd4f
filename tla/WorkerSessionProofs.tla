------------------------ MODULE WorkerSessionProofs ------------------------
(***************************************************************************)
(* Machine-checked proofs about WorkerSession, for every finite set of     *)
(* commands, every set of capabilities and every max_inflight.             *)
(*                                                                         *)
(* The order of the argument: types; who can own a command's entry         *)
(* (Ownership); from that, that each step moves, adds or removes at most   *)
(* one holder, so that the counter of a capability is the number of its    *)
(* holders (Accounting); from both, that the session is a SlotPool.        *)
(***************************************************************************)
EXTENDS WorkerSession, FiniteSetTheorems, SequenceTheorems, TLAPS

Tabled == pending \cup resolving \cup closing

(* What the phases of close() say about the table, and how far the         *)
(* dispatcher of a command in a table can be.                              *)
TablePhases ==
  /\ done <=> closer # "open"
  /\ closer \in {"draining", "closed"} => pending = {}
  /\ closer # "draining" => closing = {}
  /\ \A c \in Tabled :
       call[c] \in {"registered", "sending", "waiting", "leaving", "returned"}

Ownership == SingleOwner /\ OpenHasOwner /\ TablePhases

WithinMax == \A k \in Capabilities : inflight[k] <= MaxInflight[k]

IInv == TypeOK /\ Ownership /\ InflightAccounting /\ WithinMax

-----------------------------------------------------------------------------
(* Giving a slot back keeps the counters natural, even at 0.               *)
LEMMA ReleaseType ==
  ASSUME NEW c \in Commands, inflight \in [Capabilities -> Nat], Release(c)
  PROVE  inflight' \in [Capabilities -> Nat]
<1>1. CapabilityOf[c] \in Capabilities
  BY CapabilityAssumption
<1>2. IF inflight[CapabilityOf[c]] > 0 THEN inflight[CapabilityOf[c]] - 1 \in Nat ELSE 0 \in Nat
  BY <1>1
<1> QED
  BY <1>1, <1>2 DEF Release

(* Closing a result channel leaves the other channels' types alone.        *)
LEMMA CloseResultType ==
  ASSUME NEW c \in Commands, NEW what \in Outcomes, CloseResult(c, what),
         result \in [Commands -> {"absent", "open"} \cup Outcomes]
  PROVE  result' \in [Commands -> {"absent", "open"} \cup Outcomes]
BY DEF CloseResult

(* Types: every step keeps every variable of the session in its range.     *)
LEMMA TypeStep == TypeOK /\ [Next]_vars => TypeOK'
<1> SUFFICES ASSUME TypeOK, [Next]_vars PROVE TypeOK'
  OBVIOUS
<1> USE CapabilityAssumption, MaxInflightAssumption
    DEF TypeOK, connVars, tableVars, callVars, CallSteps, Outcomes, Answers
<1>1. ASSUME NEW c \in Commands, Dispatcher(c) PROVE TypeOK'
  <2>1. CASE FindSession(c)
    BY <2>1 DEF FindSession, Goto, Leave
  <2>2. CASE SnapshotInflight(c)
    BY <2>2 DEF SnapshotInflight, Goto, Leave
  <2>3. CASE TryAcquire(c)
    <3>1. CapabilityOf[c] \in Capabilities /\ inflight[CapabilityOf[c]] + 1 \in Nat
      OBVIOUS
    <3>2. inflight' \in [Capabilities -> Nat]
      BY <2>3, <3>1 DEF TryAcquire
    <3>3. call' \in [Commands -> CallSteps] /\ answer' \in [Commands -> Answers]
      BY <2>3 DEF TryAcquire, Goto, Leave
    <3> QED
      BY <2>3, <3>2, <3>3 DEF TryAcquire
  <2>4. CASE RegisterPending(c)
    BY <2>4 DEF RegisterPending, Goto, Leave
  <2>5. CASE AbandonSlot(c)
    BY <2>5, ReleaseType DEF AbandonSlot, Goto
  <2>6. CASE EnqueueCheck(c)
    BY <2>6 DEF EnqueueCheck, Goto, Leave
  <2>7. CASE Enqueue(c)
    <3>0. Append(outbound, c) \in Seq(Commands)
      BY AppendProperties
    <3>1. outbound' \in Seq(Commands)
      BY <2>7, <3>0 DEF Enqueue
    <3>2. ctx[c] # "live" => ctx[c] \in Answers
      OBVIOUS
    <3>3. call' \in [Commands -> CallSteps] /\ answer' \in [Commands -> Answers]
      BY <2>7, <3>2 DEF Enqueue, Goto, Leave
    <3> QED
      BY <2>7, <3>1, <3>3 DEF Enqueue
  <2>8. CASE AwaitOutcome(c)
    <3>1. ctx[c] # "live" => ctx[c] \in Answers
      OBVIOUS
    <3>2. call' \in [Commands -> CallSteps] /\ answer' \in [Commands -> Answers]
      BY <2>8, <3>1 DEF AwaitOutcome, Leave
    <3> QED
      BY <2>8, <3>2 DEF AwaitOutcome
  <2>9. CASE UnregisterTake(c)
    BY <2>9 DEF UnregisterTake, Goto
  <2>10. CASE UnregisterRelease(c)
    BY <2>10, ReleaseType, CloseResultType DEF UnregisterRelease, Goto
  <2> QED
    BY <1>1, <2>1, <2>2, <2>3, <2>4, <2>5, <2>6, <2>7, <2>8, <2>9, <2>10 DEF Dispatcher
<1>2. ASSUME NEW c \in Commands, CommandIDFails(c) \/ Expire(c) \/ Cancel(c) PROVE TypeOK'
  <2>1. CASE CommandIDFails(c)
    BY <2>1 DEF CommandIDFails, Leave
  <2>2. CASE Expire(c) \/ Cancel(c)
    <3>1. ctx' \in [Commands -> {"live", "deadline", "canceled"}]
      BY <2>2 DEF Expire, Cancel
    <3> QED
      BY <2>2, <3>1 DEF Expire, Cancel
  <2> QED
    BY <1>2, <2>1, <2>2
<1>3. ASSUME NEW c \in Commands, ResolveTake(c) PROVE TypeOK'
  BY <1>3 DEF ResolveTake
<1>4. ASSUME NEW c \in Commands, ResolveDeliver(c) PROVE TypeOK'
  <2>1. PICK what \in {"ok", "error"} : CloseResult(c, what)
    BY <1>4 DEF ResolveDeliver
  <2> QED
    BY <1>4, <2>1, ReleaseType, CloseResultType DEF ResolveDeliver
<1>5. CASE Connection
  <2>1. CASE WriteCommand
    <3>1. outbound' \in Seq(Commands) /\ Head(outbound) \in Commands
      BY <2>1, HeadTailProperties DEF WriteCommand
    <3>2. sent' \in SUBSET Commands /\ writing' \in BOOLEAN
      BY <2>1, <3>1 DEF WriteCommand
    <3> QED
      BY <2>1, <3>1, <3>2 DEF WriteCommand
  <2> QED
    BY <1>5, <2>1 DEF Connection, StartStream, StreamEnds, WriterStops
<1>6. CASE Unmap
  BY <1>6 DEF Unmap
<1>7. CASE CloseSignal
  BY <1>7 DEF CloseSignal
<1>8. CASE Closer
  <2>1. ASSUME NEW c \in Commands, CloseFailOne(c) PROVE TypeOK'
    BY <2>1, ReleaseType, CloseResultType DEF CloseFailOne
  <2> QED
    BY <1>8, <2>1 DEF Closer, CloseSwapPending, CloseFinish
<1>9. CASE UNCHANGED vars
  BY <1>9 DEF vars
<1> QED
  BY <1>1, <1>2, <1>3, <1>4, <1>5, <1>6, <1>7, <1>8, <1>9 DEF Next

(* Every variable of a session keeps its type in every reachable state.    *)
THEOREM TypeCorrect == Spec => []TypeOK
<1>1. Init => TypeOK
  <2> SUFFICES ASSUME Init PROVE TypeOK
    OBVIOUS
  <2>1. outbound \in Seq(Commands)
    BY EmptySeq DEF Init
  <2> QED
    BY <2>1 DEF Init, TypeOK, CallSteps, Outcomes, Answers
<1> QED
  BY <1>1, TypeStep, PTL DEF Spec

-----------------------------------------------------------------------------
(* Ownership: who can hold a command's entry.                              *)

(* A command that is released leaves every other command's channel alone.  *)
LEMMA OwnershipStep == TypeOK /\ Ownership /\ [Next]_vars => Ownership'
<1> SUFFICES ASSUME TypeOK, Ownership, [Next]_vars PROVE Ownership'
  OBVIOUS
<1> USE DEF Ownership, SingleOwner, OpenHasOwner, TablePhases, Tabled, HeldByCall,
            TypeOK, connVars, tableVars, callVars, CallSteps, Outcomes
<1>1. ASSUME NEW c \in Commands, Dispatcher(c) PROVE Ownership'
  <2>1. CASE FindSession(c)
    BY <2>1 DEF FindSession, Goto, Leave
  <2>2. CASE SnapshotInflight(c)
    BY <2>2 DEF SnapshotInflight, Goto, Leave
  <2>3. CASE TryAcquire(c)
    <3>1. PICK step \in {"acquired", "returned"} : call' = [call EXCEPT ![c] = step]
      BY <2>3 DEF TryAcquire, Goto, Leave
    <3>2. c \notin Tabled /\ result[c] # "open" /\ UNCHANGED <<tableVars, result>>
      BY <2>3 DEF TryAcquire
    <3> QED
      BY <3>1, <3>2
  <2>4. CASE RegisterPending(c)
    <3>1. CASE done
      <4>1. call' = [call EXCEPT ![c] = "abandoning"] /\ UNCHANGED <<tableVars, result>>
        BY <2>4, <3>1 DEF RegisterPending, Leave
      <4>2. call[c] = "acquired"
        BY <2>4 DEF RegisterPending
      <4> QED
        BY <4>1, <4>2
    <3>2. CASE ~done
      <4>1. /\ call' = [call EXCEPT ![c] = "registered"]
            /\ pending' = pending \cup {c}
            /\ result' = [result EXCEPT ![c] = "open"]
            /\ UNCHANGED <<resolving, done, closer, closing>>
        BY <2>4, <3>2 DEF RegisterPending, Goto
      <4>2. SingleOwner'
        BY <2>4, <4>1 DEF RegisterPending
      <4>3. OpenHasOwner'
        BY <4>1
      <4>4. TablePhases'
        BY <2>4, <3>2, <4>1 DEF RegisterPending
      <4> QED
        BY <4>2, <4>3, <4>4
    <3> QED
      BY <3>1, <3>2
  <2>5. CASE AbandonSlot(c)
    BY <2>5 DEF AbandonSlot, Goto
  <2>6. CASE EnqueueCheck(c)
    BY <2>6 DEF EnqueueCheck, Goto, Leave
  <2>7. CASE Enqueue(c)
    BY <2>7 DEF Enqueue, Goto, Leave
  <2>8. CASE AwaitOutcome(c)
    BY <2>8 DEF AwaitOutcome, Leave
  <2>9. CASE UnregisterTake(c)
    BY <2>9 DEF UnregisterTake, Goto
  <2>10. CASE UnregisterRelease(c)
    BY <2>10 DEF UnregisterRelease, CloseResult, Goto
  <2> QED
    BY <1>1, <2>1, <2>2, <2>3, <2>4, <2>5, <2>6, <2>7, <2>8, <2>9, <2>10 DEF Dispatcher
<1>2. ASSUME NEW c \in Commands, CommandIDFails(c) PROVE Ownership'
  BY <1>2 DEF CommandIDFails, Leave
<1>3. ASSUME NEW c \in Commands, Expire(c) \/ Cancel(c) PROVE Ownership'
  BY <1>3 DEF Expire, Cancel
<1>4. ASSUME NEW c \in Commands, ResolveTake(c) PROVE Ownership'
  BY <1>4 DEF ResolveTake
<1>5. ASSUME NEW c \in Commands, ResolveDeliver(c) PROVE Ownership'
  <2>1. PICK what \in {"ok", "error"} : CloseResult(c, what)
    BY <1>5 DEF ResolveDeliver
  <2> QED
    BY <1>5, <2>1 DEF ResolveDeliver, CloseResult
<1>6. CASE Connection
  BY <1>6 DEF Connection, StartStream, StreamEnds, WriteCommand, WriterStops
<1>7. CASE Unmap
  BY <1>7 DEF Unmap
<1>8. CASE CloseSignal
  BY <1>8 DEF CloseSignal
<1>9. CASE CloseSwapPending
  BY <1>9 DEF CloseSwapPending
<1>10. ASSUME NEW c \in Commands, CloseFailOne(c) PROVE Ownership'
  BY <1>10 DEF CloseFailOne, CloseResult
<1>11. CASE CloseFinish
  BY <1>11 DEF CloseFinish
<1>12. CASE UNCHANGED vars
  BY <1>12 DEF vars
<1> QED
  BY <1>1, <1>2, <1>3, <1>4, <1>5, <1>6, <1>7, <1>8, <1>9, <1>10, <1>11, <1>12
     DEF Next, Closer

-----------------------------------------------------------------------------
(* What a step does to the slots: nothing, or it moves one command.        *)

Moves(c, from, to) ==
  /\ Slot(c) = from /\ Slot(c)' = to
  /\ \A d \in Commands \ {c} : Slot(d)' = Slot(d)

Still == UNCHANGED inflight /\ \A d \in Commands : Slot(d)' = Slot(d)
Refused(c) == UNCHANGED inflight /\ Moves(c, "free", "spent")
Taken(c) ==
  /\ HasRoom(c)
  /\ inflight' = [inflight EXCEPT ![CapabilityOf[c]] = @ + 1]
  /\ Moves(c, "free", "held")
Given(c) == Release(c) /\ Moves(c, "held", "spent")

SlotStep == Still \/ \E c \in Commands : Refused(c) \/ Taken(c) \/ Given(c)

(* Whoever takes an entry out of the table is the only one to release it,  *)
(* and moving an entry between owners is invisible to the slots.           *)
LEMMA StepKinds == TypeOK /\ Ownership /\ [Next]_vars => SlotStep
<1> SUFFICES ASSUME TypeOK, Ownership, [Next]_vars PROVE SlotStep
  OBVIOUS
<1> USE DEF Ownership, SingleOwner, TablePhases, Tabled, Slot, Holds, HeldByCall,
            TypeOK, connVars, tableVars, callVars, CallSteps
<1>1. ASSUME NEW c \in Commands, Dispatcher(c) PROVE SlotStep
  <2>1. CASE FindSession(c)
    <3>1. Still \/ Refused(c)
      BY <2>1 DEF FindSession, Goto, Leave, Still, Refused, Moves
    <3> QED  BY <3>1 DEF SlotStep
  <2>2. CASE SnapshotInflight(c)
    <3>1. Still \/ Refused(c)
      BY <2>2 DEF SnapshotInflight, Goto, Leave, Still, Refused, Moves
    <3> QED  BY <3>1 DEF SlotStep
  <2>3. CASE TryAcquire(c)
    <3>1. CASE HasRoom(c)
      <4>1. Taken(c)
        BY <2>3, <3>1 DEF TryAcquire, Goto, Taken, Moves
      <4> QED  BY <4>1 DEF SlotStep
    <3>2. CASE ~HasRoom(c)
      <4>1. Refused(c)
        BY <2>3, <3>2 DEF TryAcquire, Leave, Refused, Moves
      <4> QED  BY <4>1 DEF SlotStep
    <3> QED  BY <3>1, <3>2
  <2>4. CASE RegisterPending(c)
    <3>1. Still
      BY <2>4 DEF RegisterPending, Goto, Leave, Still
    <3> QED  BY <3>1 DEF SlotStep
  <2>5. CASE AbandonSlot(c)
    <3>1. Given(c)
      BY <2>5 DEF AbandonSlot, Goto, Given, Moves
    <3> QED  BY <3>1 DEF SlotStep
  <2>6. CASE EnqueueCheck(c) \/ Enqueue(c) \/ AwaitOutcome(c)
    <3>1. Still
      BY <2>6 DEF EnqueueCheck, Enqueue, AwaitOutcome, Goto, Leave, Still
    <3> QED  BY <3>1 DEF SlotStep
  <2>7. CASE UnregisterTake(c)
    <3>1. Still
      BY <2>7 DEF UnregisterTake, Goto, Still
    <3> QED  BY <3>1 DEF SlotStep
  <2>8. CASE UnregisterRelease(c)
    <3>1. Given(c)
      BY <2>8 DEF UnregisterRelease, Goto, Given, Moves
    <3> QED  BY <3>1 DEF SlotStep
  <2> QED
    BY <1>1, <2>1, <2>2, <2>3, <2>4, <2>5, <2>6, <2>7, <2>8 DEF Dispatcher
<1>2. ASSUME NEW c \in Commands, CommandIDFails(c) \/ Expire(c) \/ Cancel(c) PROVE SlotStep
  <2>1. Still
    BY <1>2 DEF CommandIDFails, Expire, Cancel, Leave, Still
  <2> QED  BY <2>1 DEF SlotStep
<1>3. ASSUME NEW c \in Commands, ResolveTake(c) PROVE SlotStep
  <2>1. Still
    BY <1>3 DEF ResolveTake, Still
  <2> QED  BY <2>1 DEF SlotStep
<1>4. ASSUME NEW c \in Commands, ResolveDeliver(c) PROVE SlotStep
  <2>1. Given(c)
    BY <1>4 DEF ResolveDeliver, Given, Moves
  <2> QED  BY <2>1 DEF SlotStep
<1>5. ASSUME NEW c \in Commands, CloseFailOne(c) PROVE SlotStep
  <2>1. Given(c)
    BY <1>5 DEF CloseFailOne, Given, Moves
  <2> QED  BY <2>1 DEF SlotStep
<1>6. CASE Connection \/ Unmap \/ CloseSignal
  <2>1. Still
    BY <1>6 DEF Connection, StartStream, StreamEnds, WriteCommand, WriterStops, Unmap,
                CloseSignal, Still
  <2> QED  BY <2>1 DEF SlotStep
<1>7. CASE CloseSwapPending \/ CloseFinish
  <2>1. Still
    BY <1>7 DEF CloseSwapPending, CloseFinish, Still
  <2> QED  BY <2>1 DEF SlotStep
<1>8. CASE UNCHANGED vars
  <2>1. Still
    BY <1>8 DEF vars, Still
  <2> QED  BY <2>1 DEF SlotStep
<1> QED
  BY <1>1, <1>2, <1>3, <1>4, <1>5, <1>6, <1>7, <1>8 DEF Next, Closer

-----------------------------------------------------------------------------
(* The counter of a capability is the number of its holders.               *)

LEMMA HoldersFinite ==
  ASSUME NEW k \in Capabilities
  PROVE  IsFiniteSet(Holders(k)) /\ Cardinality(Holders(k)) \in Nat
<1>1. Holders(k) \in SUBSET Commands
  BY DEF Holders
<1> QED
  BY <1>1, CommandsAssumption, FS_Subset, FS_CardinalityType

LEMMA HoldersNextFinite ==
  ASSUME NEW k \in Capabilities
  PROVE  IsFiniteSet(Holders(k)') /\ Cardinality(Holders(k)') \in Nat
<1>1. Holders(k)' \in SUBSET Commands
  BY DEF Holders
<1> QED
  BY <1>1, CommandsAssumption, FS_Subset, FS_CardinalityType

LEMMA SlotHeld == \A c \in Commands : Holds(c) <=> Slot(c) = "held"
BY DEF Slot

LEMMA SlotHeldNext == \A c \in Commands : Holds(c)' <=> Slot(c)' = "held"
BY DEF Slot

Counted == TypeOK /\ InflightAccounting /\ WithinMax

LEMMA AccountingStep == Counted /\ SlotStep => InflightAccounting' /\ WithinMax'
<1> SUFFICES ASSUME Counted, SlotStep, NEW k \in Capabilities
             PROVE  inflight'[k] = Cardinality(Holders(k)') /\ inflight'[k] <= MaxInflight[k]
  BY DEF InflightAccounting, WithinMax
<1> DEFINE n == Cardinality(Holders(k))
<1>0. /\ inflight \in [Capabilities -> Nat] /\ inflight[k] = n /\ n <= MaxInflight[k]
      /\ n \in Nat /\ IsFiniteSet(Holders(k)) /\ MaxInflight[k] \in Nat
  BY HoldersFinite, MaxInflightAssumption DEF Counted, TypeOK, InflightAccounting, WithinMax
<1> HIDE DEF n
<1>1. CASE Still
  <2>1. Holders(k)' = Holders(k)
    BY <1>1, SlotHeld, SlotHeldNext DEF Still, Holders
  <2> QED
    BY <1>0, <1>1, <2>1 DEF Still, n
<1>2. ASSUME NEW c \in Commands, Refused(c)
      PROVE inflight'[k] = Cardinality(Holders(k)') /\ inflight'[k] <= MaxInflight[k]
  <2>1. Holders(k)' = Holders(k)
    BY <1>2, SlotHeld, SlotHeldNext DEF Refused, Moves, Holders
  <2> QED
    BY <1>0, <1>2, <2>1 DEF Refused, n
<1>3. ASSUME NEW c \in Commands, Taken(c)
      PROVE inflight'[k] = Cardinality(Holders(k)') /\ inflight'[k] <= MaxInflight[k]
  <2>1. CASE CapabilityOf[c] = k
    <3>1. Holders(k)' = Holders(k) \cup {c} /\ c \notin Holders(k)
      BY <1>3, <2>1, SlotHeld, SlotHeldNext DEF Taken, Moves, Holders
    <3>2. Cardinality(Holders(k)') = n + 1
      BY <1>0, <3>1, FS_AddElement DEF n
    <3>3. inflight'[k] = n + 1 /\ n < MaxInflight[k]
      BY <1>0, <1>3, <2>1 DEF Taken, HasRoom
    <3> QED
      BY <1>0, <3>2, <3>3
  <2>2. CASE CapabilityOf[c] # k
    <3>1. Holders(k)' = Holders(k)
      BY <1>3, <2>2, SlotHeld, SlotHeldNext DEF Taken, Moves, Holders
    <3>2. inflight'[k] = inflight[k]
      BY <1>0, <1>3, <2>2 DEF Taken
    <3> QED
      BY <1>0, <3>1, <3>2 DEF n
  <2> QED
    BY <2>1, <2>2
<1>4. ASSUME NEW c \in Commands, Given(c)
      PROVE inflight'[k] = Cardinality(Holders(k)') /\ inflight'[k] <= MaxInflight[k]
  <2>1. CASE CapabilityOf[c] = k
    <3>1. Holders(k)' = Holders(k) \ {c} /\ c \in Holders(k)
      BY <1>4, <2>1, SlotHeld, SlotHeldNext DEF Given, Moves, Holders
    <3>2. Cardinality(Holders(k)') = n - 1
      BY <1>0, <3>1, FS_RemoveElement DEF n
    <3>3. n > 0
      BY <1>0, <3>1, FS_EmptySet DEF n
    <3>4. inflight'[k] = n - 1
      BY <1>0, <1>4, <2>1, <3>3 DEF Given, Release
    <3> QED
      BY <1>0, <3>2, <3>4
  <2>2. CASE CapabilityOf[c] # k
    <3>1. Holders(k)' = Holders(k)
      BY <1>4, <2>2, SlotHeld, SlotHeldNext DEF Given, Moves, Holders
    <3>2. inflight'[k] = inflight[k]
      BY <1>0, <1>4, <2>2 DEF Given, Release
    <3> QED
      BY <1>0, <3>1, <3>2 DEF n
  <2> QED
    BY <2>1, <2>2
<1> QED
  BY <1>1, <1>2, <1>3, <1>4 DEF SlotStep

LEMMA InitInv == Init => IInv
<1> SUFFICES ASSUME Init PROVE IInv
  OBVIOUS
<1>1. TypeOK
  BY EmptySeq DEF Init, TypeOK, CallSteps, Outcomes, Answers
<1>2. Ownership
  BY DEF Init, Ownership, SingleOwner, OpenHasOwner, TablePhases, Tabled, HeldByCall
<1>3. ASSUME NEW k \in Capabilities PROVE Holders(k) = {} /\ inflight[k] = 0
  BY DEF Init, Holders, Holds, HeldByCall
<1>4. InflightAccounting
  BY <1>3, FS_EmptySet DEF InflightAccounting
<1>5. WithinMax
  BY <1>3, MaxInflightAssumption DEF WithinMax
<1> QED
  BY <1>1, <1>2, <1>4, <1>5 DEF IInv

LEMMA StepInv == IInv /\ [Next]_vars => IInv'
BY TypeStep, OwnershipStep, StepKinds, AccountingStep DEF IInv, Counted

LEMMA Invariance == Spec => []IInv
BY InitInv, StepInv, PTL DEF Spec

(* Whichever of unregisterPending, resolvePending and close() wins a race, *)
(* each slot taken is released exactly once: the counter never drifts.     *)
THEOREM AccountingHolds == Spec => []InflightAccounting
<1>1. IInv => InflightAccounting
  BY DEF IInv
<1> QED
  BY <1>1, Invariance, PTL

(* No interleaving gives one entry of the pending table to two goroutines. *)
THEOREM SingleOwnerHolds == Spec => []SingleOwner
<1>1. IInv => SingleOwner
  BY DEF IInv, Ownership
<1> QED
  BY <1>1, Invariance, PTL

(* A result channel that is open has somebody who will close it, and one   *)
(* that is closed has left the pending table.                              *)
THEOREM OpenHasOwnerHolds == Spec => []OpenHasOwner
<1>1. IInv => OpenHasOwner
  BY DEF IInv, Ownership
<1> QED
  BY <1>1, Invariance, PTL

(* The worker never has more commands of a capability than max_inflight.   *)
THEOREM CapacityHolds == Spec => []CapacityRespected
<1>1. IInv => CapacityRespected
  BY DEF IInv, InflightAccounting, WithinMax, CapacityRespected
<1> QED
  BY <1>1, Invariance, PTL

(* After close() no dispatcher is left waiting on a channel nobody closes. *)
THEOREM ClosedAnswersAllHolds == Spec => []ClosedAnswersAll
<1>1. IInv => ClosedAnswersAll
  <2> SUFFICES ASSUME IInv, closer = "closed"
               PROVE  /\ pending = {}
                      /\ \A c \in Commands :
                           call[c] = "waiting" /\ result[c] = "open" => c \in resolving
    BY DEF ClosedAnswersAll
  <2> QED
    BY DEF IInv, Ownership, TablePhases, OpenHasOwner
<1> QED
  BY <1>1, Invariance, PTL

(* The session is a pool of slots: every step of the counter, the table    *)
(* and the channels is a step of SlotPool or invisible there.              *)
THEOREM Refinement == Spec => ImplementsSlotPool
<1> DEFINE slot == [c \in Commands |-> Slot(c)]
<1>1. Init => Pool!Init
  BY DEF Init, Pool!Init, Slot, Holds, HeldByCall
<1>2. IInv /\ [Next]_vars => [Pool!Next]_slot
  <2> SUFFICES ASSUME IInv, [Next]_vars PROVE [Pool!Next]_slot
    OBVIOUS
  <2>1. SlotStep
    BY StepKinds DEF IInv
  <2>2. CASE Still
    BY <2>2 DEF Still
  <2>3. ASSUME NEW c \in Commands, Refused(c) PROVE Pool!Next
    <3>1. slot' = [slot EXCEPT ![c] = "spent"] /\ slot[c] = "free"
      BY <2>3 DEF Refused, Moves
    <3> QED
      BY <3>1 DEF Pool!Next, Pool!Refuse, Pool!Move
  <2>4. ASSUME NEW c \in Commands, Taken(c) PROVE Pool!Next
    <3>1. slot' = [slot EXCEPT ![c] = "held"] /\ slot[c] = "free"
      BY <2>4 DEF Taken, Moves
    <3>2. Pool!InUse(CapabilityOf[c]) = Holders(CapabilityOf[c])
      BY SlotHeld DEF Pool!InUse, Holders
    <3>3. Cardinality(Pool!InUse(CapabilityOf[c])) < MaxInflight[CapabilityOf[c]]
      BY <2>4, <3>2, CapabilityAssumption DEF Taken, HasRoom, IInv, InflightAccounting
    <3>4. Pool!Cardinality(Pool!InUse(CapabilityOf[c])) = Cardinality(Pool!InUse(CapabilityOf[c]))
      BY DEF Pool!Cardinality, Cardinality, Pool!IsFiniteSet, IsFiniteSet
    <3> QED
      BY <3>1, <3>3, <3>4 DEF Pool!Next, Pool!Acquire, Pool!Move
  <2>5. ASSUME NEW c \in Commands, Given(c) PROVE Pool!Next
    <3>1. slot' = [slot EXCEPT ![c] = "spent"] /\ slot[c] = "held"
      BY <2>5 DEF Given, Moves
    <3> QED
      BY <3>1 DEF Pool!Next, Pool!GiveBack, Pool!Move
  <2> QED
    BY <2>1, <2>2, <2>3, <2>4, <2>5 DEF SlotStep
<1> QED
  BY <1>1, <1>2, Invariance, PTL DEF Spec, ImplementsSlotPool, Pool!Spec
=============================================================================

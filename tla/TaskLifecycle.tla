--------------------------- MODULE TaskLifecycle ---------------------------
(***************************************************************************)
(* Tasks of one account on the console (console/internal/grpcserver:       *)
(* task.go; the statements of console/db/queries/tasks.sql; the start-up   *)
(* recovery of console/internal/persistence/db.go).                        *)
(*                                                                         *)
(* A task is a row of the tasks table and, while it may still end, a       *)
(* runtime record in memory: a context its executor runs under and a done  *)
(* channel its callers wait on.  The row and the record are never changed  *)
(* together.  SubmitTask calls, one executor per created task, CancelTask  *)
(* calls, the pruner and crashes interleave at every statement the         *)
(* database executes and at every critical section of tasksMu.             *)
(*                                                                         *)
(* The task a SubmitTask call creates carries the name of the call.        *)
(***************************************************************************)
EXTENDS Integers, FiniteSets

CONSTANTS
  Submits,    \* calls of SubmitTask
  Cancels,    \* calls of CancelTask
  RequestOf,  \* the request_id of each SubmitTask call
  ModeOf,     \* its mode
  NoRequest,  \* the empty request_id
  NoTask,     \* target of a CancelTask call that has not begun
  MaxFaults,  \* bound: database statements that fail
  MaxCrashes  \* bound: times the console process dies

Callers == Submits \cup Cancels

ASSUME CallersAssumption == Submits \cap Cancels = {} /\ NoTask \notin Submits
ASSUME ModeAssumption == ModeOf \in [Submits -> {"sync", "async", "auto"}]
ASSUME BoundsAssumption == MaxFaults \in Nat /\ MaxCrashes \in Nat

VARIABLES
  up,        \* the console process runs
  crashes,   \* how often it died
  faults,    \* how many statements failed
  row,       \* each task's row: absent, deleted, or its status column
  reserved,  \* calls that hold their key in taskRequestReservations
  runtime,   \* tasks that have a record in RegistryService.tasks
  ctx,       \* each task's context
  closed,    \* tasks whose done channel is closed
  call,      \* progress of each SubmitTask and CancelTask call
  target,    \* the task each call is about
  waits,     \* the call got a runtime record to wait on
  reply,     \* what each call answered
  work,      \* progress of executeTask (by task) and finishTask (by cancel)
  wrote,     \* how the last guarded UPDATE of that goroutine ended
  verdict    \* the terminal status it wants to write

processVars == <<up, crashes>>
recordVars == <<runtime, ctx, closed>>
callVars == <<call, target, waits, reply>>
workVars == <<work, wrote, verdict>>
vars == <<processVars, faults, row, reserved, recordVars, callVars, workVars>>

Active == {"queued", "dispatched", "running"}
Terminal == {"succeeded", "failed", "timeout", "canceled"}
Refusals == {"in_progress", "refused", "not_found", "gone", "conflict", "error", "dropped"}

CallSteps == {"idle", "lookup", "found", "checking", "conflicted", "created",
              "registered", "snapshot", "waiting", "final", "leaving",
              "finishing", "returned"}
WorkSteps == {"idle", "start", "dispatching", "marking", "aborting", "canceling",
              "awaiting", "finish", "fallback", "taking", "closing", "ended", "gaveup"}

TypeOK ==
  /\ up \in BOOLEAN
  /\ crashes \in 0..MaxCrashes
  /\ faults \in 0..MaxFaults
  /\ row \in [Submits -> {"absent", "deleted"} \cup Active \cup Terminal]
  /\ reserved \in SUBSET Submits
  /\ runtime \in SUBSET Submits
  /\ ctx \in [Submits -> {"live", "deadline", "canceled"}]
  /\ closed \in SUBSET Submits
  /\ call \in [Callers -> CallSteps]
  /\ target \in [Callers -> Submits \cup {NoTask}]
  /\ waits \in [Callers -> BOOLEAN]
  /\ reply \in [Callers -> {"none"} \cup Active \cup Terminal \cup Refusals]
  /\ work \in [Callers -> WorkSteps]
  /\ wrote \in [Callers -> {"nothing", "applied", "refused", "failed", "failed_again"}]
  /\ verdict \in [Callers -> Terminal]

Init ==
  /\ up = TRUE
  /\ crashes = 0
  /\ faults = 0
  /\ row = [t \in Submits |-> "absent"]
  /\ reserved = {}
  /\ runtime = {}
  /\ ctx = [t \in Submits |-> "live"]
  /\ closed = {}
  /\ call = [c \in Callers |-> "idle"]
  /\ target = [c \in Callers |-> IF c \in Submits THEN c ELSE NoTask]
  /\ waits = [c \in Callers |-> FALSE]
  /\ reply = [c \in Callers |-> "none"]
  /\ work = [c \in Callers |-> "idle"]
  /\ wrote = [c \in Callers |-> "nothing"]
  /\ verdict = [c \in Callers |-> "canceled"]

-----------------------------------------------------------------------------
(* Helpers.                                                                *)

(* A statement may fail (SQLITE_BUSY, a full disk). *)
Fault == faults < MaxFaults /\ faults' = faults + 1

Present(t) == row[t] \in Active \cup Terminal
Settled == {t \in Submits : row[t] \in Terminal}
SameRequest(s, t) == RequestOf[s] # NoRequest /\ RequestOf[s] = RequestOf[t]
Twins(s) == {t \in Submits : SameRequest(s, t) /\ Present(t)}

(* DeleteExpiredTerminalTasks; which finished tasks expired is left open. *)
Prune(expired) ==
  row' = [t \in Submits |-> IF t \in expired THEN "deleted" ELSE row[t]]

Goto(c, step) == call' = [call EXCEPT ![c] = step]

(* A call that still owns its reservation gives it back on the way out. *)
Answer(c, what) ==
  /\ reply' = [reply EXCEPT ![c] = what]
  /\ Goto(c, IF c \in reserved THEN "leaving" ELSE "returned")

(* getTaskByOwnerAndRequest: an error counts as "no such task". *)
Misses(s) ==
  \/ Twins(s) = {} /\ UNCHANGED faults
  \/ Fault

(* getTaskByID: a failed read looks like a missing row. *)
ReadFails(t) ==
  \/ ~Present(t) /\ UNCHANGED faults
  \/ Fault

-----------------------------------------------------------------------------
(* SubmitTask.                                                             *)

(* Mutant: the key is looked at but not reserved. *)
BeginUnreserved(s) ==
  /\ up /\ call[s] = "idle"
  /\ \E expired \in SUBSET Settled : Prune(expired)
  /\ Goto(s, IF RequestOf[s] = NoRequest THEN "checking" ELSE "lookup")
  /\ UNCHANGED <<processVars, faults, reserved, recordVars, target, waits, reply, workVars>>

(* maybePruneExpiredTasks, then the reservation of the request key. *)
Begin(s) ==
  /\ up /\ call[s] = "idle"
  /\ \E expired \in SUBSET Settled : Prune(expired)
  /\ \/ /\ RequestOf[s] = NoRequest
        /\ Goto(s, "checking") /\ UNCHANGED <<reserved, reply>>
     \/ /\ \E u \in reserved : SameRequest(s, u)
        /\ Answer(s, "in_progress") /\ UNCHANGED reserved
     \/ /\ RequestOf[s] # NoRequest /\ ~\E u \in reserved : SameRequest(s, u)
        /\ reserved' = reserved \cup {s}
        /\ Goto(s, "lookup") /\ UNCHANGED reply
  /\ UNCHANGED <<processVars, faults, recordVars, target, waits, workVars>>

(* Is there a task under this key already? *)
Lookup(s) ==
  /\ call[s] = "lookup"
  /\ \/ \E t \in Twins(s) :
          /\ target' = [target EXCEPT ![s] = t]
          /\ Goto(s, "found") /\ UNCHANGED faults
     \/ /\ Misses(s)
        /\ Goto(s, "checking") /\ UNCHANGED target
  /\ UNCHANGED <<processVars, row, reserved, recordVars, waits, reply, workVars>>

(* getTaskRuntime of the task found; it may be gone by now. *)
LookRuntime(s) ==
  /\ call[s] = "found"
  /\ waits' = [waits EXCEPT ![s] = target[s] \in runtime]
  /\ Goto(s, "snapshot")
  /\ UNCHANGED <<processVars, faults, row, reserved, recordVars, target, reply, workVars>>

(* Mutant: the reservation ends with the insert, before setTaskRuntime. *)
CreateReleasing(s) ==
  /\ call[s] = "checking" /\ Twins(s) = {}
  /\ row' = [row EXCEPT ![s] = "queued"]
  /\ reserved' = reserved \ {s}
  /\ Goto(s, "created")
  /\ UNCHANGED <<processVars, faults, recordVars, target, waits, reply, workVars>>

(* Mutant: no unique index on (owner_id, request_id). *)
CreateUnindexed(s) ==
  /\ call[s] = "checking"
  /\ row' = [row EXCEPT ![s] = "queued"]
  /\ Goto(s, "created")
  /\ UNCHANGED <<processVars, faults, reserved, recordVars, target, waits, reply, workVars>>

(* checkCapabilityAvailability, newTaskID and InsertTask; the unique index *)
(* on (owner_id, request_id) refuses a second row with the same key.       *)
Create(s) ==
  /\ call[s] = "checking"
  /\ \/ Answer(s, "refused") /\ UNCHANGED row
     \/ /\ Twins(s) = {}
        /\ row' = [row EXCEPT ![s] = "queued"]
        /\ Goto(s, "created") /\ UNCHANGED reply
     \/ /\ Twins(s) # {}
        /\ Goto(s, "conflicted") /\ UNCHANGED <<row, reply>>
  /\ UNCHANGED <<processVars, faults, reserved, recordVars, target, waits, workVars>>

(* After a conflict the existing task is looked up once more. *)
Relook(s) ==
  /\ call[s] = "conflicted"
  /\ \/ \E t \in Twins(s) :
          /\ target' = [target EXCEPT ![s] = t]
          /\ Goto(s, "found") /\ UNCHANGED <<faults, reply>>
     \/ /\ Misses(s)
        /\ Answer(s, "refused") /\ UNCHANGED target
  /\ UNCHANGED <<processVars, row, reserved, recordVars, waits, workVars>>

(* setTaskRuntime. *)
Register(s) ==
  /\ call[s] = "created"
  /\ runtime' = runtime \cup {s}
  /\ waits' = [waits EXCEPT ![s] = TRUE]
  /\ Goto(s, "registered")
  /\ UNCHANGED <<processVars, faults, row, reserved, ctx, closed, target, reply, workVars>>

(* The reservation goes before the executor is started. *)
Launch(s) ==
  /\ call[s] = "registered"
  /\ reserved' = reserved \ {s}
  /\ work' = [work EXCEPT ![s] = "start"]
  /\ Goto(s, "snapshot")
  /\ UNCHANGED <<processVars, faults, row, recordVars, target, waits, reply, wrote, verdict>>

(* resolveSubmitTaskResult: the snapshot taken before any wait. *)
Snapshot(s) ==
  /\ call[s] = "snapshot"
  /\ LET t == target[s] IN
     \/ ReadFails(t) /\ Answer(s, "not_found")
     \/ /\ row[t] \in Terminal \cup (IF ModeOf[s] = "async" THEN Active ELSE {})
        /\ Answer(s, row[t]) /\ UNCHANGED faults
     \/ /\ ModeOf[s] # "async" /\ row[t] \in Active
        /\ Goto(s, IF waits[s] THEN "waiting" ELSE "final")
        /\ UNCHANGED <<faults, reply>>
  /\ UNCHANGED <<processVars, row, reserved, recordVars, target, waits, workVars>>

(* waitDone: the done channel, or in auto mode the wait_ms timer. *)
Wake(s) ==
  /\ call[s] = "waiting"
  /\ target[s] \in closed \/ ModeOf[s] = "auto"
  /\ Goto(s, "final")
  /\ UNCHANGED <<processVars, faults, row, reserved, recordVars, target, waits, reply, workVars>>

(* The HTTP request is canceled while it waits. *)
ClientLeaves(s) ==
  /\ call[s] = "waiting"
  /\ Answer(s, "gone")
  /\ UNCHANGED <<processVars, faults, row, reserved, recordVars, target, waits, workVars>>

(* The snapshot that is answered after the wait, whatever it shows. *)
FinalSnapshot(s) ==
  /\ call[s] = "final"
  /\ \/ ReadFails(target[s]) /\ Answer(s, "not_found")
     \/ Present(target[s]) /\ Answer(s, row[target[s]]) /\ UNCHANGED faults
  /\ UNCHANGED <<processVars, row, reserved, recordVars, target, waits, workVars>>

(* The deferred deletion of the reservation. *)
Leave(s) ==
  /\ call[s] = "leaving"
  /\ reserved' = reserved \ {s}
  /\ Goto(s, "returned")
  /\ UNCHANGED <<processVars, faults, row, recordVars, target, waits, reply, workVars>>

Submit(s) ==
  \/ Lookup(s)
  \/ LookRuntime(s)
  \/ Create(s)
  \/ Relook(s)
  \/ Register(s)
  \/ Launch(s)
  \/ Snapshot(s)
  \/ Wake(s)
  \/ FinalSnapshot(s)
  \/ Leave(s)

-----------------------------------------------------------------------------
(* executeTask.  A guarded UPDATE touches the row only while it is active. *)

(* Mutant: UPDATE without its filter on status. *)
UpdateUnguarded(a, t, status, step, refusedStep) ==
  /\ row' = [row EXCEPT ![t] = IF Present(t) THEN status ELSE @]
  /\ wrote' = [wrote EXCEPT ![a] = IF Present(t) THEN "applied" ELSE "refused"]
  /\ work' = [work EXCEPT ![a] = IF Present(t) THEN step ELSE refusedStep]

Update(a, t, status, step, refusedStep) ==
  \/ /\ row[t] \in Active
     /\ row' = [row EXCEPT ![t] = status]
     /\ wrote' = [wrote EXCEPT ![a] = "applied"]
     /\ work' = [work EXCEPT ![a] = step]
  \/ /\ row[t] \notin Active
     /\ wrote' = [wrote EXCEPT ![a] = "refused"]
     /\ work' = [work EXCEPT ![a] = refusedStep]
     /\ UNCHANGED row

UpdateFails(a, how, step) ==
  /\ Fault
  /\ wrote' = [wrote EXCEPT ![a] = how]
  /\ work' = [work EXCEPT ![a] = step]
  /\ UNCHANGED row

MarkDispatched(t) ==
  /\ work[t] = "start"
  /\ \/ Update(t, t, "dispatched", "dispatching", "ended") /\ UNCHANGED faults
     \/ UpdateFails(t, "failed", "fallback")
  /\ UNCHANGED <<processVars, reserved, recordVars, callVars, verdict>>

(* dispatchCommand has put the command into a session's outbound queue. *)
Enqueued(t) ==
  /\ work[t] = "dispatching"
  /\ work' = [work EXCEPT ![t] = "marking"]
  /\ UNCHANGED <<processVars, faults, row, reserved, recordVars, callVars, wrote, verdict>>

(* onDispatched, first half. *)
MarkRunning(t) ==
  /\ work[t] = "marking"
  /\ \/ Update(t, t, "running", "awaiting", "aborting") /\ UNCHANGED faults
     \/ UpdateFails(t, "failed", "aborting")
  /\ UNCHANGED <<processVars, reserved, recordVars, callVars, verdict>>

(* Second half: the command is given up by canceling the task's context.   *)
(* The record is looked up under the lock and its cancel is seen not to be *)
(* nil ...                                                                 *)
LookCancel(t) ==
  /\ work[t] = "aborting"
  /\ work' = [work EXCEPT ![t] = IF t \in runtime THEN "canceling" ELSE "awaiting"]
  /\ UNCHANGED <<processVars, faults, row, reserved, recordVars, callVars, wrote, verdict>>

(* ... and read again without it, to be called once: by now a finisher may *)
(* have called it, which makes this call do nothing, or have set it to nil *)
(* (see Panic).                                                            *)
Abort(t) ==
  /\ work[t] = "canceling"
  /\ ctx' = [ctx EXCEPT ![t] = IF @ = "live" THEN "canceled" ELSE @]
  /\ work' = [work EXCEPT ![t] = "awaiting"]
  /\ UNCHANGED <<processVars, faults, row, reserved, runtime, closed, callVars, wrote, verdict>>

(* dispatchCommand returned.  A failed or refused markTaskRunning decides  *)
(* first; else the outcome becomes the terminal status to write.           *)
Conclude(t, status) ==
  /\ work' = [work EXCEPT ![t] = IF wrote[t] = "refused" THEN "ended"
                                 ELSE IF wrote[t] = "failed" THEN "fallback" ELSE "finish"]
  /\ verdict' = [verdict EXCEPT ![t] = status]
  /\ UNCHANGED <<processVars, faults, row, reserved, recordVars, callVars, wrote>>

(* No worker, no capacity, or the session closed before the queue; where   *)
(* it was closed with DeadlineExceeded, the task has timed out.            *)
DispatchFails(t) ==
  work[t] = "dispatching" /\ \E status \in {"failed", "timeout"} : Conclude(t, status)

(* A result, an error of the worker, or the end of its session, whose      *)
(* error may again be DeadlineExceeded; a result whose owner scope cannot  *)
(* be restored is a failure too.                                           *)
WorkerAnswers(t) ==
  work[t] = "awaiting"
  /\ \E status \in {"succeeded", "failed", "timeout"} : Conclude(t, status)

(* Mutant: only a cancellation is noticed, not the deadline. *)
ContextEndsCanceled(t) ==
  /\ work[t] \in {"dispatching", "awaiting"} /\ ctx[t] = "canceled"
  /\ Conclude(t, "canceled")

ContextEnds(t) ==
  /\ work[t] \in {"dispatching", "awaiting"}
  /\ \/ ctx[t] = "deadline" /\ Conclude(t, "timeout")
     \/ ctx[t] = "canceled" /\ Conclude(t, "canceled")

Expire(t) ==
  /\ work[t] \in {"start", "dispatching", "marking", "aborting", "canceling", "awaiting"}
  /\ ctx[t] = "live"
  /\ ctx' = [ctx EXCEPT ![t] = "deadline"]
  /\ UNCHANGED <<processVars, faults, row, reserved, runtime, closed, callVars, workVars>>

-----------------------------------------------------------------------------
(* finishTask, run by an executor or by a CancelTask call: the row first,  *)
(* then the runtime record, whatever became of the row.                    *)

FinishWrite(a) ==
  /\ \/ /\ work[a] = "finish"
        /\ \/ Update(a, target[a], verdict[a], "taking", "taking") /\ UNCHANGED faults
           \/ UpdateFails(a, "failed", "taking")
     \/ /\ work[a] = "fallback"
        /\ \/ Update(a, target[a], "failed", "taking", "taking") /\ UNCHANGED faults
           \/ UpdateFails(a, "failed_again", "taking")
  /\ UNCHANGED <<processVars, reserved, recordVars, callVars, verdict>>

(* Mutant: a failed write of the terminal status is only logged. *)
AfterFinishLogged(a) == "ended"

(* failTaskOnPersistenceError follows a failed write of an executor, once. *)
AfterFinish(a) ==
  IF wrote[a] = "failed" /\ a \in Submits THEN "fallback"
  ELSE IF wrote[a] = "failed_again" THEN "gaveup" ELSE "ended"

(* Mutant: finishTask returns early when its UPDATE matched no row. *)
TakeRuntimeIfApplied(a) ==
  /\ work[a] = "taking"
  /\ runtime' = runtime \ {target[a]}
  /\ work' = [work EXCEPT ![a] = IF target[a] \in runtime /\ wrote[a] = "applied"
                                 THEN "closing" ELSE AfterFinish(a)]
  /\ UNCHANGED <<processVars, faults, row, reserved, ctx, closed, callVars, wrote, verdict>>

(* completeTaskRuntime, first half: only one finisher gets the record, and *)
(* sets its cancel to nil.                                                 *)
TakeRuntime(a) ==
  /\ work[a] = "taking"
  /\ runtime' = runtime \ {target[a]}
  /\ work' = [work EXCEPT ![a] = IF target[a] \in runtime THEN "closing" ELSE AfterFinish(a)]
  /\ UNCHANGED <<processVars, faults, row, reserved, ctx, closed, callVars, wrote, verdict>>

(* closeTaskRuntimeRecord: call the cancel it kept, then close done.       *)
CloseRuntime(a) ==
  /\ work[a] = "closing"
  /\ ctx' = [ctx EXCEPT ![target[a]] = IF @ = "live" THEN "canceled" ELSE @]
  /\ closed' = closed \cup {target[a]}
  /\ work' = [work EXCEPT ![a] = AfterFinish(a)]
  /\ UNCHANGED <<processVars, faults, row, reserved, runtime, callVars, wrote, verdict>>

Finish(a) == FinishWrite(a) \/ TakeRuntime(a) \/ CloseRuntime(a)

Execute(t) ==
  \/ MarkDispatched(t) \/ MarkRunning(t) \/ LookCancel(t) \/ Abort(t)
  \/ ContextEnds(t) \/ Expire(t)

-----------------------------------------------------------------------------
(* CancelTask, by a client that learnt the task_id from an answer.         *)

BeginCancel(k, t) ==
  /\ up /\ call[k] = "idle"
  /\ \E s \in Submits : target[s] = t /\ reply[s] \in Active \cup Terminal
  /\ target' = [target EXCEPT ![k] = t]
  /\ \/ ReadFails(t) /\ Answer(k, "not_found") /\ UNCHANGED <<work, verdict>>
     \/ row[t] \in Terminal /\ Answer(k, "conflict") /\ UNCHANGED <<faults, work, verdict>>
     \/ /\ row[t] \in Active
        /\ work' = [work EXCEPT ![k] = "finish"]
        /\ verdict' = [verdict EXCEPT ![k] = "canceled"]
        /\ Goto(k, "finishing") /\ UNCHANGED <<faults, reply>>
  /\ UNCHANGED <<processVars, row, reserved, recordVars, waits, wrote>>

(* The row is read again to answer. *)
EndCancel(k) ==
  /\ call[k] = "finishing" /\ work[k] = "ended"
  /\ LET t == target[k] IN
     \/ wrote[k] = "failed" /\ Answer(k, "error") /\ UNCHANGED faults
     \/ wrote[k] # "failed" /\ ReadFails(t) /\ Answer(k, "not_found")
     \/ wrote[k] = "applied" /\ Present(t) /\ Answer(k, row[t]) /\ UNCHANGED faults
     \/ /\ wrote[k] = "refused" /\ Present(t) /\ UNCHANGED faults
        /\ Answer(k, IF row[t] \in Terminal THEN "conflict" ELSE "error")
  /\ UNCHANGED <<processVars, row, reserved, recordVars, target, waits, workVars>>

-----------------------------------------------------------------------------
(* The process: the pruning ticker, a crash, and the start-up recovery.    *)

Sweep ==
  /\ up
  /\ \E expired \in (SUBSET Settled) \ {{}} : Prune(expired)
  /\ UNCHANGED <<processVars, faults, reserved, recordVars, callVars, workVars>>

InCall(c) == call[c] \notin {"idle", "returned"}

(* Everything in memory is gone; every call in progress is cut off. *)
Die ==
  /\ up
  /\ up' = FALSE
  /\ reserved' = {} /\ runtime' = {}
  /\ call' = [c \in Callers |-> IF InCall(c) THEN "returned" ELSE call[c]]
  /\ reply' = [c \in Callers |-> IF InCall(c) /\ reply[c] = "none" THEN "dropped" ELSE reply[c]]
  /\ work' = [c \in Callers |-> IF work[c] = "idle" THEN "idle" ELSE "ended"]
  /\ UNCHANGED <<faults, row, ctx, closed, target, waits, wrote, verdict>>

Crash == crashes < MaxCrashes /\ crashes' = crashes + 1 /\ Die

Closing(t) == \E a \in Callers : target[a] = t /\ work[a] = "closing"

(* The executor reads a nil function from a record that is being closed    *)
(* and spends the once on it: nothing recovers from that panic.            *)
Panic(t) == work[t] = "canceling" /\ Closing(t) /\ Die /\ UNCHANGED crashes

(* Mutant: the recovery fails every task. *)
StartFailsAll ==
  /\ ~up
  /\ up' = TRUE
  /\ row' = [t \in Submits |-> IF Present(t) THEN "failed" ELSE row[t]]
  /\ UNCHANGED <<crashes, faults, reserved, recordVars, callVars, workVars>>

(* Open runs MarkNonTerminalTasksFailedOnStartup before anything else; if  *)
(* that fails, the process does not come up.                               *)
Start ==
  /\ ~up
  /\ up' = TRUE
  /\ row' = [t \in Submits |-> IF row[t] \in Active THEN "failed" ELSE row[t]]
  /\ UNCHANGED <<crashes, faults, reserved, recordVars, callVars, workVars>>

Next ==
  \/ \E s \in Submits : Begin(s) \/ Submit(s) \/ ClientLeaves(s)
  \/ \E t \in Submits : Execute(t) \/ Enqueued(t) \/ DispatchFails(t) \/ WorkerAnswers(t)
                         \/ Panic(t)
  \/ \E a \in Callers : Finish(a)
  \/ \E k \in Cancels : EndCancel(k) \/ \E t \in Submits : BeginCancel(k, t)
  \/ Sweep
  \/ Crash
  \/ Start

Spec == Init /\ [][Next]_vars

(* Goroutines run, deadlines pass, and the supervisor restarts the console *)
(* (restart: unless-stopped).  No client, worker or pruner need do a thing.*)
Fairness ==
  /\ \A s \in Submits : WF_vars(Submit(s)) /\ WF_vars(Execute(s))
  /\ \A a \in Callers : WF_vars(Finish(a))
  /\ \A k \in Cancels : WF_vars(EndCancel(k))
  /\ WF_vars(Start)

FairSpec == Spec /\ Fairness

-----------------------------------------------------------------------------
(* Properties.                                                             *)

Working(t) == work[t] \notin {"idle", "ended", "gaveup"}

(* A runtime record always has somebody who will take it out: its executor *)
(* still runs (or is about to be started), or a finisher is past the row   *)
(* and on its way to the record.  Otherwise the record, its timer and its  *)
(* waiters would stay for ever, which a CancelTask that runs ahead of      *)
(* setTaskRuntime would cause.                                             *)
RuntimeHasFinisher ==
  \A t \in runtime :
    \/ call[t] = "registered" \/ Working(t)
    \/ \E a \in Callers : target[a] = t /\ work[a] = "taking"

(* No lost wakeup: a caller that waits on a done channel waits on one that *)
(* is closed, is being closed, or still belongs to a record of the map.    *)
WaiterHasRuntime ==
  \A s \in Submits :
    call[s] = "waiting" =>
      \/ target[s] \in closed \cup runtime
      \/ \E a \in Callers : target[a] = target[s] /\ work[a] = "closing"

(* A row that is not terminal has somebody to make it so: the call that    *)
(* created it, or its executor.  The only way out is an executor whose     *)
(* write and fallback write both failed; not a cancel, not a restart.      *)
ActiveHasDriver ==
  up => \A t \in Submits :
    row[t] \in Active =>
      call[t] \in {"created", "registered"} \/ Working(t) \/ work[t] = "gaveup"

(* An answer that names a terminal status stays true as long as the row    *)
(* exists: no late result, timeout, second cancel or restart overwrites it,*)
(* and a cancel that succeeded really ended the task as canceled.          *)
AnswersStand ==
  \A c \in Callers :
    reply[c] \in Terminal =>
      /\ row[target[c]] \in {reply[c], "deleted"}
      /\ c \in Cancels => reply[c] = "canceled"

(* Two calls with one request_id that both learnt a task learnt the same   *)
(* one, unless the first was pruned meanwhile: a retry never runs the      *)
(* command a second time beside or after a task that is still on record.   *)
RetriesJoin ==
  \A s, u \in Submits :
    SameRequest(s, u) /\ reply[s] \in Active \cup Terminal
                      /\ reply[u] \in Active \cup Terminal =>
      target[s] = target[u] \/ row[target[s]] = "deleted" \/ row[target[u]] = "deleted"

(* A sync call that is answered with a task is answered with a finished    *)
(* one, also a retry that joins a task another call created.               *)
SyncCompletes ==
  \A s \in Submits : ModeOf[s] = "sync" => reply[s] \notin Active

(* So it is while every statement succeeds.                                *)
SyncCompletesUnlessFault == faults = 0 => SyncCompletes

(* The table is a task book: see TaskBook. *)
Book == INSTANCE TaskBook WITH Tasks <- Submits, status <- row

ImplementsTaskBook == Book!Spec

(* Every call returns, also when the worker stays silent, the task is      *)
(* canceled under it, or the console dies.                                 *)
CallsReturn == \A c \in Callers : InCall(c) ~> call[c] = "returned"

(* Every task ends: one failed statement per run is absorbed by the        *)
(* fallback, a crash by the start-up recovery.                             *)
TasksEnd == \A t \in Submits : row[t] \in Active ~> row[t] \notin Active
=============================================================================

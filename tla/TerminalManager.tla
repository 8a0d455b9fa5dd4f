--------------------------- MODULE TerminalManager ---------------------------
(***************************************************************************)
(* The containers of a worker-docker process: terminal sessions, which     *)
(* outlive the command that made them, and pythonExec containers, which do *)
(* not (terminal_exec.go, terminal_resource.go, python_runtime.go).        *)
(*                                                                         *)
(* A call is the goroutine of one dispatched command.  The name of a       *)
(* container is random and given once, so a container is named here by     *)
(* the call that creates it.  A call without session_id opens an id nobody *)
(* else knows (a fresh UUID).  The Docker daemon is outside of the code:   *)
(* what it does is modelled from the commands the worker runs and the      *)
(* answers it looks at.  A command that runs in a container goes on when   *)
(* the docker client that started it is killed.                            *)
(***************************************************************************)
EXTENDS Naturals, FiniteSets

CONSTANTS
  Calls,     \* the commands the console sends
  Ids,       \* session ids
  IdOf,      \* IdOf[c]: the session a terminal call asks for
  KindOf,    \* KindOf[c]: "open" (terminalExec that may create), "use"
             \* (terminalExec that may not), "read" (terminalResource), "python"
  Removable, \* containers that somebody else may remove (bound)
  NoSession, \* an id that is not in the table
  NoBox      \* a call that has no container in hand

Kinds == {"open", "use", "read", "python"}

ASSUME CallsAssumption == IsFiniteSet(Calls) /\ NoBox \notin Calls
ASSUME KindAssumption == KindOf \in [Calls -> Kinds] /\ IdOf \in [Calls -> Ids]
ASSUME NoSessionAssumption == NoSession \notin [box : Calls, busy : BOOLEAN, leased : BOOLEAN]

VARIABLES
  table,    \* table[id]: the entry of the sessions map, guarded by mu
  box,      \* box[b]: the container that call b created, as the daemon sees it
  jobs,     \* jobs[b]: the calls whose command runs in container b
  pc,       \* pc[c]: where the goroutine of call c is
  ctx,      \* ctx[c]: the context of call c, "ended" by its deadline or the connection
  mine,     \* mine[c]: the container call c works on
  answer,   \* answer[c]: what the command result is going to say
  phase,    \* the shutdown: Run's deferred Close, then the end of the process
  janitor,  \* the janitor goroutine
  doomed,   \* containers the janitor, then Close, is about to remove
  lost      \* history: containers a failed docker command left behind

dockerVars == <<box, jobs, lost>>
callVars == <<pc, ctx, mine, answer>>
processVars == <<phase, janitor, doomed>>
vars == <<table, dockerVars, callVars, processVars>>

Steps == {"idle", "create", "start", "undo", "drop", "exec", "running", "mark",
          "destroy", "remove", "inspect", "cleanup", "returned"}
Answers == {"none", "ok", "failed", "deadline"}
Entry == [box : Calls, busy : BOOLEAN, leased : BOOLEAN]

InCall(c) == pc[c] \notin {"idle", "returned"}
Exists(b) == box[b] \in {"created", "running"}
Known == {id \in Ids : table[id] # NoSession}

TypeOK ==
  /\ table \in [Ids -> Entry \cup {NoSession}]
  /\ box \in [Calls -> {"none", "created", "running", "gone"}]
  /\ jobs \in [Calls -> SUBSET Calls]
  /\ pc \in [Calls -> Steps]
  /\ ctx \in [Calls -> {"live", "ended"}]
  /\ mine \in [Calls -> Calls \cup {NoBox}]
  /\ answer \in [Calls -> Answers]
  /\ phase \in {"open", "stopping", "removing", "closed", "exited"}
  /\ janitor \in {"waiting", "removing", "stopped"}
  /\ doomed \in SUBSET Calls
  /\ lost \in SUBSET Calls

Init ==
  /\ table = [id \in Ids |-> NoSession]
  /\ box = [b \in Calls |-> "none"]
  /\ jobs = [b \in Calls |-> {}]
  /\ pc = [c \in Calls |-> "idle"]
  /\ ctx = [c \in Calls |-> "live"]
  /\ mine = [c \in Calls |-> NoBox]
  /\ answer = [c \in Calls |-> "none"]
  /\ phase = "open" /\ janitor = "waiting" /\ doomed = {}
  /\ lost = {}

Goto(c, step) == pc' = [pc EXCEPT ![c] = step]
Answer(c, what) == answer' = [answer EXCEPT ![c] = what]

(* The goroutine ends, and its local variables with it.                    *)
Return(c) ==
  /\ Goto(c, "returned")
  /\ ctx' = [ctx EXCEPT ![c] = "live"]
  /\ mine' = [mine EXCEPT ![c] = NoBox]
  /\ answer' = [answer EXCEPT ![c] = "none"]

(* docker rm -f under a context of its own: it may fail or take longer     *)
(* than three seconds, which is only logged.                               *)
ForceRemove(b) ==
  \/ /\ box' = [box EXCEPT ![b] = IF Exists(b) THEN "gone" ELSE @]
     /\ jobs' = [jobs EXCEPT ![b] = {}]
     /\ UNCHANGED lost
  \/ /\ Exists(b)
     /\ lost' = lost \cup {b}
     /\ UNCHANGED <<box, jobs>>

-----------------------------------------------------------------------------
(* The start of a command: buildCommandResult, then mu is held once.  A    *)
(* command whose deadline has passed, or whose payload or lease is not     *)
(* valid, is refused before that and changes nothing.                      *)

(* The context of a command is that of the connection, which has ended     *)
(* before the process shuts down.                                          *)
Arrive(c) ==
  /\ pc[c] = "idle" /\ phase # "exited"
  /\ ctx' = [ctx EXCEPT ![c] = IF phase = "open" THEN "live" ELSE "ended"]
  /\ UNCHANGED <<dockerVars, processVars>>

(* Execute without session, or with create_if_missing on an unknown id: a  *)
(* session that has no container yet; its first command makes one.         *)
OpenNew(c) ==
  /\ Arrive(c) /\ KindOf[c] = "open" /\ table[IdOf[c]] = NoSession
  /\ table' = [table EXCEPT ![IdOf[c]] = [box |-> c, busy |-> TRUE, leased |-> TRUE]]
  /\ mine' = [mine EXCEPT ![c] = c]
  /\ Goto(c, "create") /\ UNCHANGED answer

(* A known session becomes busy; Execute extends its lease (the lease is   *)
(* at least LeaseMinSec long), ResolveResource does not.                   *)
OpenKnown(c) ==
  LET id == IdOf[c] IN
  /\ Arrive(c) /\ KindOf[c] # "python" /\ table[id] # NoSession
  /\ ~table[id].busy
  /\ table' = [table EXCEPT ![id].busy = TRUE, ![id].leased = @ \/ KindOf[c] # "read"]
  /\ mine' = [mine EXCEPT ![c] = table[id].box]
  /\ Goto(c, "exec") /\ UNCHANGED answer

(* session_not_found and session_busy.                                     *)
OpenFails(c) ==
  /\ pc[c] = "idle" /\ phase # "exited" /\ KindOf[c] # "python"
  /\ \/ table[IdOf[c]] = NoSession /\ KindOf[c] # "open"
     \/ table[IdOf[c]] # NoSession /\ table[IdOf[c]].busy
  /\ Goto(c, "returned")
  /\ UNCHANGED <<table, dockerVars, ctx, mine, answer, processVars>>

(* runPythonExecInDockerWithImage: a container of its own, no session.     *)
OpenPython(c) ==
  /\ Arrive(c) /\ KindOf[c] = "python"
  /\ mine' = [mine EXCEPT ![c] = c]
  /\ Goto(c, "create") /\ UNCHANGED <<table, answer>>

-----------------------------------------------------------------------------
(* docker create and docker start.                                         *)

(* Docker refuses, or the client is killed by the end of the context: the  *)
(* daemon may have made the container all the same, and nobody removes it. *)
CreateFails(c) ==
  /\ pc[c] = "create"
  /\ \/ UNCHANGED dockerVars
     \/ /\ ctx[c] = "ended"
        /\ box' = [box EXCEPT ![c] = "created"]
        /\ lost' = lost \cup {c}
        /\ UNCHANGED jobs
  /\ IF KindOf[c] = "python" THEN Return(c)
     ELSE Goto(c, "drop") /\ Answer(c, "failed") /\ UNCHANGED <<ctx, mine>>
  /\ UNCHANGED <<table, processVars>>

Create(c) ==
  /\ pc[c] = "create" /\ ctx[c] = "live"
  /\ box' = [box EXCEPT ![c] = "created"]
  /\ Goto(c, "start")
  /\ UNCHANGED <<table, jobs, lost, ctx, mine, answer, processVars>>

(* A terminal container runs an idle loop, a python container its code.    *)
Start(c) ==
  /\ pc[c] = "start" /\ ctx[c] = "live" /\ box[c] = "created"
  /\ box' = [box EXCEPT ![c] = "running"]
  /\ IF KindOf[c] = "python"
     THEN Goto(c, "running") /\ jobs' = [jobs EXCEPT ![c] = {c}]
     ELSE Goto(c, "exec") /\ UNCHANGED jobs
  /\ UNCHANGED <<table, lost, ctx, mine, answer, processVars>>

(* Mutant: a container that was not started is forgotten.                  *)
StartFailsForgetting(c) ==
  /\ pc[c] = "start" /\ KindOf[c] # "python"
  /\ UNCHANGED dockerVars
  /\ Goto(c, "drop") /\ Answer(c, "failed")
  /\ UNCHANGED <<table, ctx, mine, processVars>>

(* docker start fails, or its client is killed after the daemon took it.   *)
StartFails(c) ==
  /\ pc[c] = "start" /\ KindOf[c] # "python"
  /\ \/ UNCHANGED box
     \/ ctx[c] = "ended" /\ box[c] = "created" /\ box' = [box EXCEPT ![c] = "running"]
  /\ Goto(c, "undo") /\ Answer(c, "failed")
  /\ UNCHANGED <<table, jobs, lost, ctx, mine, processVars>>

(* docker start -a: a context that was over before the client started is   *)
(* an error of its own; a client that fails or is killed only has an exit  *)
(* code, and the container is inspected.                                   *)
PythonStartFails(c) ==
  /\ pc[c] = "start" /\ KindOf[c] = "python"
  /\ \/ Goto(c, "inspect") /\ UNCHANGED <<dockerVars, answer>>
     \/ ctx[c] = "ended" /\ Goto(c, "cleanup") /\ Answer(c, "deadline") /\ UNCHANGED dockerVars
     \/ /\ ctx[c] = "ended" /\ box[c] = "created"
        /\ box' = [box EXCEPT ![c] = "running"]
        /\ jobs' = [jobs EXCEPT ![c] = {c}]
        /\ Goto(c, "inspect") /\ UNCHANGED <<lost, answer>>
  /\ UNCHANGED <<table, ctx, mine, processVars>>

Undo(c) ==
  /\ pc[c] = "undo"
  /\ ForceRemove(c)
  /\ Goto(c, "drop")
  /\ UNCHANGED <<table, ctx, mine, answer, processVars>>

(* dropSession: by id.                                                     *)
Drop(c) ==
  /\ pc[c] = "drop"
  /\ table' = [table EXCEPT ![IdOf[c]] = NoSession]
  /\ Return(c)
  /\ UNCHANGED <<dockerVars, processVars>>

-----------------------------------------------------------------------------
(* docker exec, and what Execute and ResolveResource make of its end.      *)

(* The command runs in the container of the session.                       *)
Exec(c) ==
  /\ pc[c] = "exec" /\ ctx[c] = "live" /\ box[mine[c]] = "running"
  /\ jobs' = [jobs EXCEPT ![mine[c]] = @ \cup {c}]
  /\ Goto(c, "running")
  /\ UNCHANGED <<table, box, lost, ctx, mine, answer, processVars>>

(* The context was over before the client started; the daemon knows no     *)
(* such container; or docker exec fails in some other way.                 *)
ExecFails(c) ==
  /\ pc[c] = "exec"
  /\ \/ ctx[c] = "ended" /\ Goto(c, "destroy") /\ Answer(c, "deadline")
     \/ box[mine[c]] = "gone" /\ Goto(c, "destroy") /\ Answer(c, "failed")
     \/ Goto(c, "mark") /\ \E what \in {"ok", "failed"} : Answer(c, what)
  /\ UNCHANGED <<table, dockerVars, ctx, mine, processVars>>

(* The command ends, or its container was removed under it: the client has *)
(* an exit code, and its standard error does not say "no such container".  *)
Finish(c) ==
  /\ pc[c] = "running"
  /\ c \in jobs[mine[c]] \/ ~Exists(mine[c])
  /\ jobs' = [jobs EXCEPT ![mine[c]] = @ \ {c}]
  /\ IF KindOf[c] = "python"
     THEN \/ Exists(c) /\ Goto(c, "cleanup") /\ Answer(c, "ok")
          \/ Goto(c, "inspect") /\ UNCHANGED answer
     ELSE Goto(c, "mark") /\ Answer(c, "ok")
  /\ UNCHANGED <<table, box, lost, ctx, mine, processVars>>

(* The context ends while the client runs.  Cmd.Run reports the kill as an *)
(* exit code; the error of the context only comes out when the client got  *)
(* through with code 0 at that very moment.                                *)
Killed(c) ==
  /\ pc[c] = "running" /\ ctx[c] = "ended"
  /\ \/ /\ Goto(c, IF KindOf[c] = "python" THEN "inspect" ELSE "mark")
        /\ Answer(c, "ok") /\ UNCHANGED jobs
     \/ /\ c \in jobs[mine[c]]
        /\ jobs' = [jobs EXCEPT ![mine[c]] = @ \ {c}]
        /\ Goto(c, IF KindOf[c] = "python" THEN "cleanup" ELSE "destroy")
        /\ Answer(c, "deadline")
  /\ UNCHANGED <<table, box, lost, ctx, mine, processVars>>

(* A command nobody waits for any more ends in its container.              *)
JobEnds(b, c) ==
  /\ c \in jobs[b] /\ pc[c] # "running"
  /\ jobs' = [jobs EXCEPT ![b] = @ \ {c}]
  /\ UNCHANGED <<table, box, lost, callVars, processVars>>

(* markSessionIdle: by id, whatever session has the id now.                *)
Mark(c) ==
  /\ pc[c] = "mark"
  /\ table' = [table EXCEPT ![IdOf[c]] = IF @ = NoSession THEN @ ELSE [@ EXCEPT !.busy = FALSE]]
  /\ Return(c)
  /\ UNCHANGED <<dockerVars, processVars>>

(* destroySession: by id; the container that session has is removed        *)
(* outside of mu.                                                          *)
Destroy(c) ==
  /\ pc[c] = "destroy"
  /\ IF table[IdOf[c]] = NoSession
     THEN Return(c) /\ UNCHANGED table
     ELSE /\ mine' = [mine EXCEPT ![c] = table[IdOf[c]].box]
          /\ table' = [table EXCEPT ![IdOf[c]] = NoSession]
          /\ Goto(c, "remove") /\ UNCHANGED <<ctx, answer>>
  /\ UNCHANGED <<dockerVars, processVars>>

Remove(c) ==
  /\ pc[c] = "remove"
  /\ ForceRemove(mine[c])
  /\ Return(c)
  /\ UNCHANGED <<table, processVars>>

(* Mutant: the exit code is believed without a look at the state.          *)
InspectExitCode(c) ==
  /\ pc[c] = "inspect"
  /\ Goto(c, "cleanup") /\ Answer(c, "ok")
  /\ UNCHANGED <<table, dockerVars, ctx, mine, processVars>>

(* inspectPythonExecContainerState: only a container whose code has ended  *)
(* has an exit code to report; the inspection itself may fail.             *)
Inspect(c) ==
  /\ pc[c] = "inspect"
  /\ Goto(c, "cleanup")
  /\ \/ box[c] = "running" /\ jobs[c] = {} /\ Answer(c, "ok")
     \/ Answer(c, "failed")
  /\ UNCHANGED <<table, dockerVars, ctx, mine, processVars>>

(* The deferred cleanupPythonExecContainer.                                *)
Cleanup(c) ==
  /\ pc[c] = "cleanup"
  /\ ForceRemove(c)
  /\ Return(c)
  /\ UNCHANGED <<table, processVars>>

-----------------------------------------------------------------------------
(* The janitor, the shutdown and what happens around them.                 *)

(* Sessions leave the table under mu; their containers are removed later.  *)
Take(ids) ==
  /\ table' = [id \in Ids |-> IF id \in ids THEN NoSession ELSE table[id]]
  /\ doomed' = {table[id].box : id \in ids}
  /\ UNCHANGED <<dockerVars, callVars>>

SweepOf(over) ==
  /\ janitor = "waiting" /\ phase \in {"open", "stopping"} /\ over # {}
  /\ Take(over)
  /\ janitor' = "removing" /\ UNCHANGED phase

(* Mutants: the sweep does not spare busy sessions; it ignores the lease.  *)
SweepBusy == SweepOf({id \in Known : ~table[id].leased})
SweepLeased == SweepOf({id \in Known : ~table[id].busy})

(* cleanupExpiredSessions, the part under mu.                              *)
Sweep == SweepOf({id \in Known : ~table[id].busy /\ ~table[id].leased})

(* The containers of the swept sessions go one by one.                     *)
SweepRemove ==
  /\ janitor = "removing"
  /\ \/ \E b \in doomed : ForceRemove(b) /\ doomed' = doomed \ {b} /\ UNCHANGED janitor
     \/ doomed = {} /\ janitor' = "waiting" /\ UNCHANGED <<dockerVars, doomed>>
  /\ UNCHANGED <<table, callVars, phase>>

(* Run returns when the context of the process is over, so every command's *)
(* context is; its goroutines are not waited for.                          *)
Close ==
  /\ phase = "open" /\ \A c \in Calls : InCall(c) => ctx[c] = "ended"
  /\ phase' = "stopping"
  /\ UNCHANGED <<table, dockerVars, callVars, janitor, doomed>>

JanitorStops ==
  /\ phase = "stopping" /\ janitor = "waiting"
  /\ janitor' = "stopped"
  /\ UNCHANGED <<table, dockerVars, callVars, phase, doomed>>

CloseTakeOf(ids) ==
  /\ phase = "stopping" /\ janitor = "stopped"
  /\ Take(ids)
  /\ phase' = "removing" /\ UNCHANGED janitor

(* Mutant: Close leaves the busy sessions to their commands.               *)
CloseTakeIdle == CloseTakeOf({id \in Known : ~table[id].busy})

(* Close waits for the janitor before it empties the table.                *)
CloseTake == CloseTakeOf(Known)

CloseRemove ==
  /\ phase = "removing"
  /\ \/ \E b \in doomed : ForceRemove(b) /\ doomed' = doomed \ {b} /\ UNCHANGED phase
     \/ doomed = {} /\ phase' = "closed" /\ UNCHANGED <<dockerVars, doomed>>
  /\ UNCHANGED <<table, callVars, janitor>>

(* The process is gone, and with it every goroutine that still ran.        *)
Exit ==
  /\ phase = "closed"
  /\ phase' = "exited"
  /\ pc' = [c \in Calls |-> "returned"]
  /\ ctx' = [c \in Calls |-> "live"]
  /\ mine' = [c \in Calls |-> NoBox]
  /\ answer' = [c \in Calls |-> "none"]
  /\ UNCHANGED <<table, dockerVars, janitor, doomed>>

(* The deadline of a command passes, or its connection ends.               *)
EndContext(c) ==
  /\ InCall(c) /\ ctx[c] = "live"
  /\ ctx' = [ctx EXCEPT ![c] = "ended"]
  /\ UNCHANGED <<table, dockerVars, pc, mine, answer, processVars>>

LeaseEnds(id) ==
  /\ table[id] # NoSession /\ table[id].leased
  /\ table' = [table EXCEPT ![id].leased = FALSE]
  /\ UNCHANGED <<dockerVars, callVars, processVars>>

(* Somebody else removes a container of the worker.                        *)
Vanish(b) ==
  /\ b \in Removable /\ Exists(b)
  /\ box' = [box EXCEPT ![b] = "gone"] /\ jobs' = [jobs EXCEPT ![b] = {}]
  /\ UNCHANGED <<table, lost, callVars, processVars>>

-----------------------------------------------------------------------------
Begin(c) == OpenNew(c) \/ OpenKnown(c) \/ OpenFails(c) \/ OpenPython(c)

Work(c) ==
  /\ phase # "exited"
  /\ \/ Create(c) \/ CreateFails(c) \/ Start(c) \/ StartFails(c) \/ PythonStartFails(c)
     \/ Undo(c) \/ Drop(c) \/ Exec(c) \/ ExecFails(c) \/ Finish(c) \/ Killed(c)
     \/ Mark(c) \/ Destroy(c) \/ Remove(c) \/ Inspect(c) \/ Cleanup(c)

Next ==
  \/ \E c \in Calls : Begin(c) \/ Work(c) \/ EndContext(c)
  \/ \E b, c \in Calls : JobEnds(b, c)
  \/ \E b \in Calls : Vanish(b)
  \/ \E id \in Ids : LeaseEnds(id)
  \/ Sweep \/ SweepRemove
  \/ Close \/ JanitorStops \/ CloseTake \/ CloseRemove \/ Exit

Spec == Init /\ [][Next]_vars

(* Goroutines run, docker clients end at the latest when they are killed   *)
(* at the deadline the console sets, leases run out, the ticker ticks, and *)
(* a shutdown that has begun goes on.  Nothing makes a command end by      *)
(* itself, a client come or the process shut down.                         *)
Fairness ==
  /\ \A c \in Calls : WF_vars(Work(c)) /\ WF_vars(EndContext(c))
  /\ \A id \in Ids : WF_vars(LeaseEnds(id))
  /\ WF_vars(Sweep) /\ WF_vars(SweepRemove)
  /\ WF_vars(JanitorStops \/ CloseTake \/ CloseRemove \/ Exit)

FairSpec == Spec /\ Fairness

-----------------------------------------------------------------------------
(* Properties.                                                             *)

(* The steps in which a terminal call has its session for itself.          *)
Holding(c) == pc[c] \in {"create", "start", "undo", "drop", "exec", "running", "mark", "destroy"}

(* markSessionIdle, dropSession and destroySession find a session by its   *)
(* id.  Until the shutdown that is the very session the call took: nobody  *)
(* else can have removed it, or put another one in its place, meanwhile.   *)
HeldSessions ==
  phase \in {"open", "stopping"} =>
    \A c \in Calls :
      Holding(c) /\ KindOf[c] # "python" =>
        /\ table[IdOf[c]] # NoSession
        /\ table[IdOf[c]].busy /\ table[IdOf[c]].box = mine[c]
        /\ \A d \in Calls \ {c} :
             Holding(d) /\ KindOf[d] # "python" => IdOf[d] # IdOf[c]

(* No leak: while the process lives, every container the daemon has is     *)
(* known to somebody who will remove it (the table until Close has taken   *)
(* it, the janitor, Close or the goroutine of a call), unless a docker     *)
(* command that failed or was killed left it behind.  Close does not wait  *)
(* for the calls: what they still had to remove at the end stays.          *)
Handled(b) ==
  \/ phase \in {"open", "stopping"} /\ \E id \in Known : table[id].box = b
  \/ b \in doomed
  \/ \E c \in Calls :
       \/ InCall(c) /\ KindOf[c] = "python" /\ b = c
       \/ pc[c] = "remove" /\ mine[c] = b
       \/ pc[c] \in {"start", "undo"} /\ c = b
NothingLeaks ==
  phase # "exited" => \A b \in Calls : Exists(b) => Handled(b) \/ b \in lost

(* A pythonExec result with an exit code is that of code that ended.       *)
PythonTruthful ==
  \A c \in Calls :
    KindOf[c] = "python" /\ pc[c] = "cleanup" /\ answer[c] = "ok" => c \notin jobs[c]

(* A session goes before its lease is over only when a command of its own  *)
(* failed on it, or at the shutdown.                                       *)
LeaseKept ==
  [][\A id \in Ids :
       table[id] # NoSession /\ table[id].leased /\ table'[id] = NoSession =>
         \/ phase' = "removing"
         \/ \E c \in Calls : IdOf[c] = id /\ pc[c] \in {"drop", "destroy"} /\ pc'[c] # pc[c]]_vars

(* Every container is removed in the end: after its lease, after the call  *)
(* that made it in vain, or by Close.                                      *)
ContainersGo ==
  \A b \in Calls : Exists(b) ~> (~Exists(b) \/ b \in lost \/ phase = "exited")
=============================================================================

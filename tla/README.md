# TLA+ model of onlyboxes

onlyboxes runs commands for users in boxes. A *console* (one Go process with a
SQLite database) offers an HTTP API, an MCP endpoint and a web interface to users,
and a gRPC stream to *workers*. A worker connects with a provisioned credential,
declares its capabilities with a number of parallel commands for each, and then
receives commands and sends results on one bidirectional stream. `worker-docker` runs
Python code and terminal sessions in containers, `worker-sys` runs commands on its
own host.

This directory holds the TLA+ specifications of the console's concurrent core, of the
workers' ends and of the dashboard's requests, the TLC configurations that check them, and proofs checked by the TLA+ proof
system. `PROJECT.json` lists the runs, the source lines each definition stands
for, the hazards, the findings and the theorems.

Paths below are relative to `src/`; `grpcserver/` stands for
`console/internal/grpcserver/`.

## Inventory

| Part | State | Operations | What is hard | What makes it correct |
|---|---|---|---|---|
| Worker session (`grpcserver/session_runtime.go`, `service_dispatch.go`, writer and receive loop of `service_connect.go`) | in-flight counter per capability, pending table, outbound queue, `done`, one result channel per command | `dispatchCommand`, `tryAcquireCapability`, `registerPending`, `enqueue`, `unregisterPending`, `resolvePending`, `close` | one dispatcher goroutine per command, the receive loop, the writer and whoever closes the session meet between critical sections | a slot is released exactly once; never more slots than declared; no caller is forgotten |
| Task lifecycle (`grpcserver/task.go`, `console/db/queries/tasks.sql`) | row of `tasks`, runtime record with context and `done` channel, reservations of `request_id` | `SubmitTask`, `executeTask`, `finishTask`, `CancelTask`, `GetTask`, pruning, start-up recovery | row and record change apart; retries, cancels, late results, failing statements, crashes | a task ends, once; answers stand; a retry joins its task; nobody waits for ever |
| Worker registration (`grpcserver/service_connect.go`, `service_credentials_runtime.go`, `console/internal/registry`) | credential map, `worker_credentials`, `worker_nodes` with `session_id`, `provisioned`, `last_seen`, the table of sessions | `Connect`, heartbeat, `removeSession`, `DeleteProvisionedWorker`, `PruneOffline`, start-up | no lock spans the map, the table and the database | one open session per worker is found; replaced ones are closed; provisioned workers stay; deleted ones go |
| Choice of a worker (`service_dispatch.go:263-358`) | round-robin counter | `pickSessionForCapability` | candidates are read, then acquired | no refusal while a worker has room |
| Terminal session routes (`terminal_session_routes.go`) | session id to node, with an index by node and a TTL | bind, reserve, touch, clear, prune | reservation races, late results, replaced workers | table and index agree; one session, one worker |
| Control stream (`service_connect.go`, `session_client.go` and `runner.go` of both workers) | bounded queues at both ends, heartbeat and ack counters of the worker | hello, ack, heartbeat, command, result, reconnect | frames cross, acks are late, every goroutine may wait for another one's queue | a dead connection is noticed; the worker is served again; every command is answered or failed |
| Provisioning (`service_credentials_runtime.go`, `httpapi/worker_handler.go`) | rows, claim of the one `worker-sys` per owner | seed, claim, put credential, roll back | check and claim are apart, steps fail | at most one usable `worker-sys` per owner; no half-made worker |
| Owner scoping (`task_owner_scope.go`) | none | scope and unscope ids of a payload | round trip | what one owner named, only that owner sees |
| Console accounts and logins (`httpapi/console_auth*.go`) | `accounts`, map of login sessions | login, change password, delete account, expiry | login beside deletion or change | no session outlives what it was created from |
| Access tokens (`httpapi/mcp_auth.go`) | `trusted_tokens` | create, list, delete, look up | single statements, the cascade of an account | a token is accepted until its own account deletes it |
| HTTP and MCP adapters | none | parse, call, map answers | none of their own | the answer says what the task says |
| worker-docker terminal manager (`worker/worker-docker/internal/runner/terminal_exec.go`) | sessions with busy flag and lease, containers | execute, janitor, close | an id may be reused while a call is under way | one command per session; every container is removed |
| worker-docker Python runner | none shared | run in a container of its own | cleanup | container removed |
| worker-sys slot (`worker/worker-sys/internal/runner/session_client.go`) | one slot for two capabilities | acquire, release | release after the result is queued | refusals only when busy |
| Persistence (`console/internal/persistence`) | SQLite file | open, migrate, recover | partial failure | recovered state is consistent |
| Web interface, configuration, logging, generated code, images | - | - | - | not part of the model |

How they interact: an HTTP or MCP handler calls `SubmitTask`; the task's executor
calls `dispatchCommand`, which chooses a session from the table that `Connect`
maintains, takes a slot, registers the command in the session's pending table,
queues the frame and waits. The writer goroutine sends it, the receive loop
resolves the result, and the executor writes the terminal status and wakes the
callers that wait on the task. `DeleteProvisionedWorker`, a newer connection or a
broken stream close the session, which fails every pending command.

## Modules

| Module | Models | Uses |
|---|---|---|
| `SlotPool` | abstract: commands take and give back slots, at most `MaxInflight` at a time | |
| `WorkerSession` | one session and its dispatchers | refines `SlotPool` |
| `TaskBook` | abstract: the record of a task as its readers may see it | |
| `TaskLifecycle` | tasks of one account with faults and crashes | refines `TaskBook` |
| `SessionLife` | abstract: sessions of one worker: new, in the table, out of it, closed | |
| `WorkerRegistry` | connections, deletions, pruning, restarts for one worker | refines `SessionLife` |
| `TerminalRoutes` | choice of a worker for a command, routes of terminal sessions, over several workers | |
| `TerminalManager` | worker-docker: terminal sessions, pythonExec, janitor, shutdown | |
| `WorkerLink` | one worker and the console over one stream: both ends and the network | |
| `Accounts` | dashboard accounts, login sessions, access tokens | |
| `Provisioning` | creation and deletion of workers from the dashboard | |
| `Dashboard` | the requests of the dashboard on one console | composes `Accounts` and `Provisioning` |
| `*MC` | values of the constants for TLC | extend the module they are named after |
| `*Proofs` | theorems | extend the module they are named after; `AccountsProofs` and `DashboardProofs` are about the two parts of `Dashboard`, the second builds on the first |

The modules compose through their abstract specifications. `WorkerSession` takes
for granted that a session leaves the table before `close()` runs (its guard of
`CloseSignal`); that this order holds with all goroutines that may end a session is
what `WorkerRegistry` shows by refining `SessionLife`. `TaskLifecycle` treats
`dispatchCommand` as a call that ends with a result, an error or the end of its
context; `WorkerSession` shows (`CallsReturn`) that it does return.

`Dashboard` runs `Accounts` and `Provisioning` side by side over the same requests: the
account a creation acts for is that of a login session, a restart hits both.
`Provisioning` leaves out what a deletion does to a connection, which is
`WorkerRegistry`; `WorkerLink` takes over from `WorkerRegistry` that publishing a new
connection closes the old session, and from `WorkerSession` that closing a session
fails its pending commands; it adds what the two ends do to each other through bounded
queues. `TerminalManager` is what happens behind one of `WorkerLink`'s commands on a
worker-docker.

`TerminalRoutes` looks at many sessions at once; what `WorkerSession` shows of one (a
slot is released once, every call gets an outcome) it takes over as single steps.

Operators whose comment begins with "Mutant" are not part of any specification:
each is a plausible mistake in the definition below it, and swapping it in makes a
property fail. They show that the properties can fail.

### WorkerSession

Every critical section of the code is one action: `TryAcquire` and `Release` under
`capabilityMu`; `RegisterPending`, `UnregisterTake`, `ResolveTake` and
`CloseSwapPending` under `pendingMu`; `EnqueueCheck` and `Enqueue` for the two
selects of `enqueue`; `CloseSignal` for `close(s.done)`. `unregisterPending`,
`resolvePending` and `close` are split where the code leaves the lock: the entry is
taken first, the slot released later. `call[c]` is the program counter of
`dispatchCommand`, `result[c]` the state of the channel (absent, open, or the outcome
it was closed with), `ctx[c]` its context. The worker may never answer, answer late or
answer with an error; the writer may fail at any frame. Payloads are left out.

### TaskLifecycle

A task is named after the `SubmitTask` call that creates it. `row[t]` is the status
column ("absent" and "deleted" both stand for no row; they are told apart so that the
properties can speak of history). `runtime`, `ctx` and `closed` are the runtime record,
its context and its done channel. Each database statement is one step, each hold of
`tasksMu` is one step. `work[a]` is the progress of `executeTask` (for a task) or of
`finishTask` inside `CancelTask` (for a cancel). `wrote[a]` is what the last guarded
UPDATE said: applied, refused by its guard, failed, failed again.

When the UPDATE to running did not apply, the executor gives the command up: it tests
the `cancel` field of the runtime record (`LookCancel`) and reads it again to call it
(`Abort`), without the lock. A `CancelTask` that closes the record sets the field to nil
before it spends the `sync.Once`; if the executor's second read comes in between, it
spends the once on nil and panics (`Panic`). Nothing recovers in that goroutine: the
process dies as in a crash, and the supervisor starts it anew.

Abstractions: which finished rows are past their retention is left open (any may be
pruned); "refused" stands for no worker, a full worker, an id that cannot be made or a
failed INSERT; a client cancels only a task whose id it has learnt from an answer. A
crash loses everything in memory; a start-up whose recovery statement fails is a
process that has not come up.

### WorkerRegistry

A session is named after the `Connect` call that creates it. Steps: the credential
map, each statement of the store, `sessionsMu`, `close()`. `fresh` abstracts
`last_seen`: a heartbeat sets it, time clears it. The secret is right in every call
(a wrong one only returns). Frames other than heartbeats do not touch the
registration.

### TerminalRoutes

One step is one hold of `sessionsMu`, `capabilityMu` or `terminalRoutesMu`. `pc[c]`
walks through `pickSessionForDispatch` and the rest of `dispatchCommand`:

| Code | Steps |
|---|---|
| `maybePruneTerminalSessionRoutes`, `touchTerminalSessionRoute` | `Begin`, `Touch` |
| `pickSessionForCapability` | `List`, `Look` and `Snapshot` per listed worker, `Acquire` per attempt, `Refuse` |
| `tryReserveAndPickTerminalSession` | `Reserve`, `GiveBack`, `FindNode`, `AcquireNode`, `ClearStale`; `round` counts the two passes |
| `dispatchCommand` after the choice | `Send` or `SendFails` and `Unroute`, `Resolve` / `FailPending` / `Expire`, `Apply`, `Leave` |
| `swapSession`, `removeSession`, `disconnectWorker` | `Swap`, `Remove`, `ClearRoutes`, `CloseReplaced`, `CloseOwn`, `Disconnect`, `CloseDoomed` |

`route` and `index` are the two maps; `Bind`, `Clear`, `ClearByNode` and `PruneIdle` are
the functions of `terminal_session_routes.go`. Abstractions: the store may list any set
of workers as online (its `last_seen` is not in step with the table of sessions); the
candidates are looked at and tried in any order, which covers every start of the round
robin; `idle` stands for a last use longer ago than the TTL. A route does not become
idle while one of its calls is under way (`InFlight`): the TTL is 30 minutes
(`service.go`, `defaultTerminalRouteTTL`), a task lasts at most 10
(`task.go`, `maxTaskTimeout`). `MaxInflight` belongs to the connection, as each hello
declares its own; whether it declares the capability at all is open (`capable`).
`visited`, `disturbed` and the fields `looked` and `full` of a pick are history: no
guard reads them.

`Connected` (served when the behaviour begins) and `Deletable` choose the part of a
worker's life an instance is about: every connection may end; those not in `Connected`
may come up at any moment.

### TerminalManager

A call is the goroutine of one command on a worker-docker; it walks through `Execute`,
`ResolveResource` or `runPythonExecInDockerWithImage`: `OpenNew`, `OpenKnown`,
`OpenFails` and `OpenPython` (one hold of `mu`), `Create` and `Start` with their
failures, `Exec`, the end of the docker client, `Mark`, `Drop`, `Destroy`, and the
`docker rm -f` of a removal. `table` is the map of sessions, `box` what the daemon knows,
`jobs` the commands that run in a container. The daemon is external: a docker command
may fail, or be killed by the end of its context while the daemon finishes the work all
the same. The janitor takes expired sessions out under `mu` (`Sweep`) and removes their
containers afterwards; `Close` stops the janitor, takes the rest and does not wait for
the calls. A lease is a flag that time may clear. `lost` is history: containers behind a
docker command that failed. Output, exit codes other than "it ended" and resource limits
are left out.

### WorkerLink

The console's end is the handler of `Connect` and `writerLoop` with its two selects; the
worker's end is `runSession` with its heartbeat loop, `receiverLoop`, `senderLoop` and
one goroutine per command. Between them the stream holds `WireRoom` frames in each
direction before `Send` blocks; it is up, broken, or silent (frames under way arrive,
then nothing more, and nobody is told). All channels are bounded, so that the ring of
goroutines which wait for each other is in the model. The kind of worker decides what
happens with a second command: worker-docker starts a goroutine for each, worker-sys has
one slot and answers `session_busy`, and gives the connection up when even that cannot
be queued. A new connection is a step of its own for each thing `Connect` does: `Publish`
(`swapSession`, which closes the session it replaces), `StartWriter` after `Upsert`,
`QueueAck`; the handler of the old one may notice its end before or after (`OldEnds`).
Left out: time (a timeout may come whenever the code waits), the reconnect
delay, the content of frames.

### Accounts, Provisioning, Dashboard

Each statement of the database and each hold of a lock is one step. `Accounts` knows
passwords by who set them and sessions by the request that opened them: `Login`,
`ChangePassword`, `DeleteAccount`, `Register`, logout and expiry, the creation and
deletion of tokens; the deletion of a row takes the tokens along (ON DELETE CASCADE).
`Provisioning` is the loop of `CreateProvisionedWorkerForOwner` with its rollbacks, and
`DeleteProvisionedWorker`, over rows, claims, credentials and the credential map; every
statement may fail, with the result ignored where the code ignores it. The one other
writer of the map is `getCredential`, for a worker that connects: it reads the hash and puts
it into the map afterwards (`FetchHash`, `PutBack`), whatever a deletion did in between. A
restart empties the login sessions and loads the credential map from the table.

## Runs

`tlc -config <cfg> <module>` in this directory.

| Run | Configuration | Shows |
|---|---|---|
| session_calls | `WorkerSession_calls.cfg` | 2 commands, 1 slot, queue of 1, fairness: `InflightAccounting`, `ClosedAnswersAll`, `OpenHasOwner`, `ImplementsSlotPool`, `CallsReturn`, `ClosedSessionDrains` |
| task_retry | `TaskLifecycle_retry.cfg` | a sync call and an async retry, 1 cancel, 2 failing statements: `ActiveHasDriver`, `RuntimeHasFinisher`, `WaiterHasRuntime`, `AnswersStand`, `RetriesJoin`, `SyncCompletesUnlessFault` |
| task_progress | `TaskLifecycle_progress.cfg` | a sync and an auto call under one key with 1 fault or 1 crash, or one call with 1 cancel, 1 fault and 1 crash, fairness: `ImplementsTaskBook`, `CallsReturn`, `TasksEnd` |
| task_blocking | `TaskLifecycle_blocking.cfg` | **violated**: with 1 fault, `SyncCompletes` |
| registry_life | `WorkerRegistry_life.cfg` | 2 connections, 1 deletion, 2 faults, 1 restart, fairness: `UnmappedIsClosed`, `ProvisionedKept`, `ImplementsSessionLife`, `ReplacedCloses` |
| registry_final | `WorkerRegistry_final.cfg` | **violated**: `DeleteIsFinal` |
| registry_newest | `WorkerRegistry_newest.cfg` | **violated**: `NewestIsNotOutdated` |
| routes_calls | `TerminalRoutes_calls.cfg` | 2 calls of one terminal session and a plain command on 2 workers, or the 2 calls with 3 connections and a deletion; 2 slots and 1: `IndexAgrees`, `SlotsHeld`, `Sticky`, `RouteTraced`, `RefusalExplained` |
| routes_refusal | `TerminalRoutes_refusal.cfg` | **violated**: 3 commands, a worker with 2 slots and one with 1, `RefusedOnlyIfFull` |
| terminal_sessions | `TerminalManager_sessions.cfg` | 3 commands on one terminal session, or one of them beside another session's command or a pythonExec, shutdown, fairness: `HeldSessions`, `NothingLeaks`, `PythonTruthful`, `LeaseKept`, `ContainersGo` |
| worker_link | `WorkerLink_link.cfg` | both kinds of worker, every queue of 1, 2 commands, or 1 command and 1 fault, fairness: `NotOverdue`, `HeartbeatsGo`, `DeathNoticed`, `ServedAgain`, `CommandsResolved` |
| dashboard_requests | `Dashboard_requests.cfg` | 3 requests of any kind, failing statements, restarts, 2 attempts per creation: `SessionsCurrent`, `TokensStand`, `OneSysPerOwner`, `CreatedIsUsable`, `NothingLeft`, `RefusedHasWorker` |

Every type invariant is a theorem (`TypeCorrect`) and in no run.

Why these bounds. The races of a session are between two goroutines over one entry or
one slot. With one slot and a queue of one, the second command finds the worker full,
and, once the first gave up while its frame still waits, finds the queue full. For
tasks, two calls are a call and its retry (or two strangers), a cancel races the
executor, two faults make the write and its fallback fail, a crash falls between any
two steps. For the registry, two connections make a replacement, and the deletion takes
the place of a third that removes either. For the routes, two calls of one terminal
session on two workers make the reservation race and its retry; one worker that connects
again gives a replacement, another that is deleted gives a route to nobody; a plain command
beside them fills a worker between the look and the attempt. The two slots of one worker
and the one of the other are the least that tell a half-used worker from an idle one, so
that candidates are passed over. The plain command meets connections as they are, the
two calls of the terminal meet a deletion and then, once it is over, a replacement
(`Apart` in `TerminalRoutesMC`). The calls of one kind are interchangeable (same terminal, no constant
tells them apart), so the symmetry over them is sound for these invariants. Every
invariant and refinement of a passing run is proved for all values; the runs check them on
the instances where the cases first occur.
For the terminal sessions, two creators and a reader give every order of becoming
busy, failing, being swept and being created anew under one id. Calls that share no
session meet only in the sweeps and the shutdown, so behaviours with such a call have
two calls at most until the process exits (`Apart` in `TerminalManagerMC`). For the
link, rooms of one make every queue full after one frame; a fault and a second command
do not need each other, since with room for one frame the first command already fills
what the heartbeats go through (`Apart` in `WorkerLinkMC`; the two commands are alike and
dispatched in one order). For the progress of tasks, the retry meets a fault or a crash,
not both, and no cancellation, which the run task_retry covers for safety (`Apart` in
`TaskLifecycleMC`). These action constraints stop behaviours, they never force a step: what
they exclude is a call, fault or dispatch that no fairness demands, so a liveness
property cannot come out true because of them. For the dashboard, a third request is one
that deletes or changes what two others race for; the requests are alike, and no
liveness is checked, so that the symmetry over them is sound.
`CHECK_DEADLOCK FALSE` is set because every instance stops when its finite set of
calls is used up.

Bounds in guards: `MaxFaults` (failing statements; in `WorkerLink` faults of network and
console), `MaxCrashes`, `MaxRestarts`, `Removable` (containers somebody else removes).
`MaxAttempts` is a parameter of the program (8), checked with 2.
`OutboundCapacity` is a parameter of the program (128), not a bound.

### Findings

* `task_blocking`: `finishTask` removes the runtime record and closes `done` even when
  its UPDATE failed (`task.go:526-564`); the caller of a sync task then reads an
  unfinished row, before `failTaskOnPersistenceError` writes the fallback, and answers
  "task timed out" although the documentation calls the endpoint blocking.
* `registry_final`: a `Connect` that passed the credential check before
  `DeleteProvisionedWorker` emptied the map is published after `disconnectWorker`
  looked; it is served and its row is inserted again.
* `registry_newest`: two overlapping connections may be ordered A, B by `swapSession`
  and B, A by `Upsert`; the row then names A's session, which is closed, and B's
  heartbeat is refused as outdated. B's worker reconnects.
* `routes_refusal`: `pickSessionForCapability` drops the candidates it has gathered when
  it meets a less loaded worker (`service_dispatch.go:310`) instead of keeping them as
  fallback. If the idle worker fills up before the attempt, the call is refused for lack of
  capacity although a worker it looked at has a free slot. `RefusalExplained` says, for any
  numbers of slots, that this is the only way: every other worker it looked at was full.

Other disagreements met, which are part of what the models do and which properties
name as exceptions rather than violate:

* An executor whose command was cancelled at the wrong moment panics on a nil function
  and takes the console with it (`task.go:384-386`, `task.go:591-594`). It takes a
  cancellation which is just closing the record of the task. No property forbids the panic;
  the runs contain it, and check what follows (`TasksEnd`, `ImplementsTaskBook`).
  `connect_service_test.go:1743` expects the cancel to run
  once; the once is there, the field it is read from is not protected.
* A `docker exec` killed at the deadline ends as an `*exec.ExitError`, so a terminal
  session whose command timed out is marked idle and kept (`terminal_exec.go`), while the
  command goes on in the container, beside the next one. The documentation of
  worker-docker (`worker/worker-docker/README/overview.md:52`) says that the session is destroyed.
  The model does what the code does, and no property takes either side.
* A login session that is opened by a request which read the account before a password
  change or a deletion outlives it, for its 12 hours (`SessionsCurrent`, `overtaken`).
* `CountWorkersByOwnerAndType` answers 0 when its statement fails; the claim then still
  decides (`OneSysPerOwner`). A rollback that fails, or a crash between row and claim,
  leaves a row of type worker-sys that blocks its owner until somebody deletes it
  (`NothingLeft` promises nothing once `disturbed`).
* The deletion of a worker while it is being created, or while it connects
  (`getCredential` puts back what it has read before), may leave its credential in the map
  until the next restart. Deleting an account leaves its workers and claims.
* `enqueueRequest` of the workers waits for room without a timeout: once the sender is
  gone, or stuck on a silent network, a full channel (64 frames) holds the heartbeat loop
  and the reconnection for ever. The properties of `WorkerLink` name this state (`Hung`).

## Fairness

* `WorkerSession`: `WF` on each dispatcher's steps, on its deadline, on the delivery of
  a result the receive loop has taken, and on the steps of `close()` once begun. The Go
  scheduler runs goroutines that can run, and every `commandCtx` has a deadline
  (`service_dispatch.go:96-101`, or the task context of `task.go:229`). Nothing is assumed of the worker, the stream, the
  writer, or of whoever might close the session.
* `TaskLifecycle`: `WF` on the steps of `SubmitTask`, of `executeTask` including the
  deadline of its context (`task.go:229`), of `finishTask`, of `CancelTask`, and on the
  restart of a dead console (`docker/docker-compose.yml` restarts it). `Enqueued`,
  `WorkerAnswers`, `DispatchFails`, `ClientLeaves`, `Sweep` and `Crash` are not fair: no
  worker, client or ticker has to act.
* `TerminalRoutes`, `Dashboard`: none; their properties are invariants.
* `TerminalManager`: `WF` on the steps of a call and on its deadline (the console sets one
  for every command, and a docker client is killed then), on the end of a lease, the
  ticker of the janitor, and a shutdown that has begun. No command ends by itself, no
  client comes, and the process never has to shut down.
* `WorkerLink`: `WF` on every goroutine of both ends and on timeouts, which are part of
  their loops. `SF` where Go's `select` chooses among ready channels: `writerLoop` gets to
  its second select and takes a command there unless control frames come without end, and
  `select` chooses at random; likewise a command's goroutine gets room in the outbound
  channel, whose waiting senders Go serves in order. Faults and dispatches are never due.
* `WorkerRegistry`: `WF` on a `Connect` call after its hello frame, except for the
  heartbeat, the end of the stream and the refusal; `WF` on a deletion that has begun.

## Proofs

All theorems hold for every value of the constants, under the named assumptions of
the modules (finite set of commands, positive `MaxInflight` and rooms of queues, distinct
calls). None of them assumes a bound on calls, attempts, faults or restarts beyond its
being a number.

`WorkerSessionProofs` (`Spec => []IInv`): `TypeOK`; `Ownership`, which says who may hold
a command's entry (`SingleOwner`), that an open channel is exactly one that has an
owner (`OpenHasOwner`), and what the phases of `close()` imply (`TablePhases`); from it,
`StepKinds` shows that a step leaves all slots alone, or refuses, takes or gives back
exactly one. The cardinality argument then is about these four kinds of step only, and
gives `InflightAccounting` and `WithinMax`. The same four kinds are the steps of
`SlotPool`: `Refinement`. Capacity alone is not inductive: a counter below the maximum
says nothing unless it counts the holders.

`TaskLifecycleProofs`: the inductive invariant knows which task each goroutine is about
(`Located`), which rows cannot exist yet (`Inserted`), how far the executor's row can
be (`Staged`), what the last UPDATE told its goroutine (`Written`), that a reservation
hides a task until its runtime is registered (`Keyed`), and that a record of a finished
task has a finisher on its way (`Recorded`). From these: `ActiveHasDriver`,
`AnswersStand`, `RetriesJoin`, `RuntimeHasFinisher`, `WaiterHasRuntime`, and the step
simulation of `TaskBook`. `Keyed` is what makes the rest inductive: without the
reservation a cancel could finish a task before its record exists.

`WorkerRegistryProofs`: the session in the table belongs to a call that has not left it
(`CurrentServes`); sessions somebody is about to close were published and are not in
the table (`ReplacedPublished`, `VictimPublished`); what `Upsert` read of a provisioned
row is still true while nobody deletes (`FoundProvisioned`). From these
`UnmappedIsClosed`, `CurrentIsOpen`, `ProvisionedKept`, and the step simulation of
`SessionLife`.

`TerminalRoutesProofs`: every call is where its slot and its picked session say it is
(`Placed`), a session in the table belongs to its worker (`SessionsMatch`), a call that
sends or has sent a command of an undisturbed terminal has the session of the worker the
route names, and every worker visited is that worker (`Follow`), and what a pick has
gathered is accounted for: found full, still a candidate, or passed over for a candidate
with less load (`Kept`, `Accounted`). From these `SlotsHeld` by the same cardinality
argument as for one session, `Sticky`, and `RefusalExplained`. `RouteTraced` needs that a
call with a result has been sent where its session is (`Sent`), because the result binds
the route again. `IndexAgrees` is inductive on its own.

`SyncCompletesHolds` needs more, and only while no statement has failed, so it is a second
invariant on top of the first (`Smooth`): no write failed (`NoFailedWrite`), a closed
record is of a task that is over (`ClosedOver`), an unfinished row has its record
(`ActiveRecorded`), and a sync caller on its way to the answer has a task that exists and, once it does not
wait any more, is over (`Heading`). The finding `task_blocking` breaks `ClosedOver`: after a failed
UPDATE the record is closed and the task is not over.

`TerminalManagerProofs`: how far each call is, which container it works on and what has
been created under its name (`Staged`), and the order of the shutdown (`Ordered`: all
contexts end before the janitor stops, and the janitor stops before the table is
emptied). `HeldSessions` and `PythonTruthful` are inductive with `Staged`;
`NothingLeaks` needs all of them: a `docker start` that succeeds comes before the
shutdown, when by `HeldSessions` the session of the new container is still in the table.
`LeaseKept` is an action property that goes through the actions: each that empties an entry of the
table is a sweep (of an entry without a lease), a failure of the call that holds the
session, or `Close`.

`WorkerLinkProofs`: `Bounded`, a credit argument. On a silent network nothing is
added to what is under way; what may still be queued is at least `Due`: one heartbeat
for an acknowledgement in the channel, two for one still under way (it may undo a miss),
and the two misses that end the connection, less the heartbeat already waited for.
Each step of the loop and of the receiver keeps the inequality. `NotOverdue` alone is not
inductive, it says nothing of what may still come. The lemma `AcksTail` counts the
acknowledgements of a wire by a bijection of indices. `TypeCorrect` needs `Unacked`:
`QueueAck` has no guard for room, and there is room because nothing else is put into the
control queue before it.

`AccountsProofs` is about `Dashboard`, not about `Accounts` alone: `AccountsImplemented`
says that the composition is a behaviour of `Accounts` (worker requests leave its state
alone), and the invariant is carried over. It says that account ids are fresh (`AccountsBorn`),
that whoever is about to open a session has shown the present password or was overtaken
(`ProofsCurrent`), and that a token is that of the request answered with it
(`TokensOwned`). `SessionsCurrent` is inductive only with `ProofsCurrent`: the password was
compared some steps before the session is opened.

`DashboardProofs`: `ProvisioningImplemented` says the same of `Provisioning`. The
invariant rests on fresh ids (`IdsFresh`: an id not drawn yet is in no table and nobody's
target), on the claim (`HoldersOnly`: only the worker that holds its owner's claim comes
near a credential; `FetchedKnown`: what `getCredential` is about to put back as well;
`RowsLinked`: a claim is of a row, by the foreign keys) and on what a creation may count
on at each step (`OnTheWay`). `OneSysPerOwner` follows: two usable workers of one owner
would both hold one claim. While no statement fails, `Undisturbed` adds that what is on
record belongs to a creation under way or to one answered as created, that a claim is that
of a creation that will succeed, and that a refusal has something to point at (`Hope`);
this gives `NothingLeft` and `RefusedHasWorker`. `CreatedIsUsable` needs no such
condition.

TLC checked each of these inductive invariants on the instances of the runs before it was
proved.

Only model-checked: the liveness properties (`CallsReturn`, `ClosedSessionDrains`,
`TasksEnd`, `ReplacedCloses`, `ContainersGo`, `HeartbeatsGo`, `DeathNoticed`,
`ServedAgain`, `CommandsResolved`), because TLAPS proves no liveness under fairness and
no `ENABLED`.

## Plan

Done, in this order: `WorkerSession` (the races of the in-flight slots), `TaskLifecycle`
(idempotency, cancels, faults, recovery), `WorkerRegistry` (replacement and deletion),
`TerminalRoutes` (choice of a worker, routes of terminal sessions), `TerminalManager`
(worker-docker), `WorkerLink` (both ends of the stream), `Accounts` and `Provisioning`,
composed in `Dashboard`.

Proofs: every safety property of the passing runs has a theorem. Still worth having: the
action properties that go with the new invariants, such as that a claim of an owner changes hands only
by a deletion or a rollback; a bound on the heartbeats in terms of the rooms alone; the
safety parts of the liveness properties (a step that resolves a command is never undone).

## Not modelled

* Owner scoping (`task_owner_scope.go`): string prefixes put on and taken off ids. Its
  effect, that a result whose scope cannot be restored is a failure, is in
  `WorkerAnswers`.
* HTTP task handlers and MCP tools: they parse a request, make one of the calls that
  `TaskLifecycle` models and render the answer; they hold no state.
* Configuration, logging, the web interface, generated code, container images, skills:
  no state of the system, or pure input and output.
* Directory queries (lists, statistics, in-flight figures of the dashboard): reads without
  effect; the two a decision depends on (online nodes of a capability, the count of an
  owner's workers) are in `TerminalRoutes` and `Provisioning`.
* The command execution of worker-sys inside its slot and its file reader: one process
  per command, killed at the deadline; `WorkerLink` has its slot and its result.
* Time: deadlines, leases, TTLs and delays may run out at any moment, except that a route
  does not become idle under a call.

Go's memory model is represented by critical sections; the one unsynchronised access
met (`task.go:381`, the `cancel` field) is split into its reads in `TaskLifecycle`.

--------------------------- MODULE WorkerRegistry ---------------------------
(***************************************************************************)
(* The registration of one worker (one node_id) on the console: the        *)
(* credential, the row of worker_nodes and the entry in the table of       *)
(* sessions (console/internal/grpcserver: service_connect.go,              *)
(* service_credentials_runtime.go; console/internal/registry).             *)
(*                                                                         *)
(* Every Connect call, every DeleteProvisionedWorker call and the pruner   *)
(* go through the credential map, the session map and the database one     *)
(* lock or one statement at a time, and no lock spans two of them.         *)
(*                                                                         *)
(* The session a Connect call creates carries the name of the call.        *)
(***************************************************************************)
EXTENDS Integers, FiniteSets

CONSTANTS
  Conns,       \* calls of Connect by this worker, with a valid secret
  Deletes,     \* calls of DeleteProvisionedWorker for it
  NoSession,   \* the empty session_id, or no entry in the table
  MaxFaults,   \* bound: database statements that fail
  MaxRestarts  \* bound: times the console process is restarted

ASSUME ConnsAssumption == NoSession \notin Conns /\ Conns \cap Deletes = {}
ASSUME BoundsAssumption == MaxFaults \in Nat /\ MaxRestarts \in Nat

VARIABLES
  restarts,  \* how often the process was restarted
  faults,    \* how many statements failed
  cached,    \* the credential is in RegistryService.credentials
  stored,    \* the row of worker_credentials
  row,       \* the row of worker_nodes: absent, or by its provisioned column
  session,   \* its session_id column
  fresh,     \* its last_seen is within offlineTTL
  current,   \* RegistryService.sessions[node_id]
  closed,    \* sessions whose close() ran
  conn,      \* progress of each Connect call
  replaced,  \* the session each Connect call swapped out
  found,     \* the row was provisioned when its Upsert looked
  ended,     \* why each Connect call returns
  delete,    \* progress of each DeleteProvisionedWorker call
  hit,       \* it deleted something
  victim     \* the session it took out of the table

dbVars == <<stored, row, session, fresh>>
connVars == <<conn, replaced, found, ended>>
deleteVars == <<delete, hit, victim>>
vars == <<restarts, faults, cached, dbVars, current, closed, connVars, deleteVars>>

ConnSteps == {"idle", "lookup", "caching", "authorized", "swapped", "reading",
              "writing", "serving", "rechecking", "leaving", "clearing",
              "closing", "over"}
DeleteSteps == {"idle", "stored", "row", "unmapping", "clearing", "closing",
                "not_found", "deleted", "cut"}
Reasons == {"none", "unauthenticated", "refused", "internal", "not_found",
            "outdated", "stream", "cut"}

TypeOK ==
  /\ restarts \in 0..MaxRestarts
  /\ faults \in 0..MaxFaults
  /\ cached \in BOOLEAN
  /\ stored \in BOOLEAN
  /\ row \in {"absent", "runtime", "provisioned"}
  /\ session \in Conns \cup {NoSession}
  /\ fresh \in BOOLEAN
  /\ current \in Conns \cup {NoSession}
  /\ closed \in SUBSET Conns
  /\ conn \in [Conns -> ConnSteps]
  /\ replaced \in [Conns -> Conns \cup {NoSession}]
  /\ found \in [Conns -> BOOLEAN]
  /\ ended \in [Conns -> Reasons]
  /\ delete \in [Deletes -> DeleteSteps]
  /\ hit \in [Deletes -> BOOLEAN]
  /\ victim \in [Deletes -> Conns \cup {NoSession}]

(* CreateProvisionedWorkerForOwner has just returned. *)
Init ==
  /\ restarts = 0
  /\ faults = 0
  /\ cached = TRUE
  /\ stored = TRUE
  /\ row = "provisioned"
  /\ session = NoSession
  /\ fresh = FALSE
  /\ current = NoSession
  /\ closed = {}
  /\ conn = [c \in Conns |-> "idle"]
  /\ replaced = [c \in Conns |-> NoSession]
  /\ found = [c \in Conns |-> FALSE]
  /\ ended = [c \in Conns |-> "none"]
  /\ delete = [d \in Deletes |-> "idle"]
  /\ hit = [d \in Deletes |-> FALSE]
  /\ victim = [d \in Deletes |-> NoSession]

-----------------------------------------------------------------------------
(* Helpers.                                                                *)

Goto(c, step) == conn' = [conn EXCEPT ![c] = step]
Return(c, step, why) ==
  /\ conn' = [conn EXCEPT ![c] = step]
  /\ ended' = [ended EXCEPT ![c] = why]
Proceed(d, step) == delete' = [delete EXCEPT ![d] = step]

(* A statement may fail (SQLITE_BUSY, a full disk). *)
Fault == faults < MaxFaults /\ faults' = faults + 1

(* activeSession.close of a session that may not be there. *)
CloseSession(s) == closed' = closed \cup (Conns \cap {s})

(* DELETE FROM worker_nodes takes the credential row with it (ON DELETE    *)
(* CASCADE).                                                               *)
DropNode ==
  /\ row' = "absent"
  /\ session' = NoSession
  /\ fresh' = FALSE
  /\ stored' = FALSE

-----------------------------------------------------------------------------
(* Connect.                                                                *)

(* The hello frame arrives; getCredential asks the map first. *)
Hello(c) ==
  /\ conn[c] = "idle"
  /\ Goto(c, IF cached THEN "authorized" ELSE "lookup")
  /\ UNCHANGED <<restarts, faults, cached, dbVars, current, closed, replaced, found, ended, deleteVars>>

(* Then the database. *)
Lookup(c) ==
  /\ conn[c] = "lookup"
  /\ \/ stored /\ Goto(c, "caching") /\ UNCHANGED <<faults, ended>>
     \/ ~stored /\ Return(c, "over", "unauthenticated") /\ UNCHANGED faults
     \/ Fault /\ Return(c, "over", "unauthenticated")
  /\ UNCHANGED <<restarts, cached, dbVars, current, closed, replaced, found, deleteVars>>

(* What the database answered goes into the map. *)
Cache(c) ==
  /\ conn[c] = "caching"
  /\ cached' = TRUE
  /\ Goto(c, "authorized")
  /\ UNCHANGED <<restarts, faults, dbVars, current, closed, replaced, found, ended, deleteVars>>

(* The capabilities do not fit the worker's type, or no session_id.        *)
Refuse(c) ==
  /\ conn[c] = "authorized"
  /\ Return(c, "over", "refused")
  /\ UNCHANGED <<restarts, faults, cached, dbVars, current, closed, replaced, found, deleteVars>>

(* swapSession. *)
Swap(c) ==
  /\ conn[c] = "authorized"
  /\ replaced' = [replaced EXCEPT ![c] = current]
  /\ current' = c
  /\ Goto(c, "swapped")
  /\ UNCHANGED <<restarts, faults, cached, dbVars, closed, found, ended, deleteVars>>

(* Mutant: the session that was replaced is left to its own handler. *)
CloseReplacedNot(c) ==
  /\ conn[c] = "swapped"
  /\ Goto(c, "reading")
  /\ UNCHANGED <<restarts, faults, cached, dbVars, current, closed, replaced, found, ended, deleteVars>>

CloseReplaced(c) ==
  /\ conn[c] = "swapped"
  /\ CloseSession(replaced[c])
  /\ Goto(c, "reading")
  /\ UNCHANGED <<restarts, faults, cached, dbVars, current, replaced, found, ended, deleteVars>>

(* Mutant: the provisioned column of the existing row is not looked at. *)
UpsertReadBlind(c) ==
  /\ conn[c] = "reading"
  /\ Goto(c, "writing")
  /\ UNCHANGED <<restarts, faults, cached, dbVars, current, closed, replaced, found, ended, deleteVars>>

(* Store.Upsert looks at the row outside the transaction that writes it. *)
UpsertRead(c) ==
  /\ conn[c] = "reading"
  /\ \/ /\ found' = [found EXCEPT ![c] = row = "provisioned"]
        /\ Goto(c, "writing") /\ UNCHANGED <<faults, ended>>
     \/ Fault /\ Return(c, "leaving", "internal") /\ UNCHANGED found
  /\ UNCHANGED <<restarts, cached, dbVars, current, closed, replaced, deleteVars>>

UpsertWrite(c) ==
  /\ conn[c] = "writing"
  /\ \/ /\ row' = IF found[c] THEN "provisioned" ELSE "runtime"
        /\ session' = c
        /\ fresh' = TRUE
        /\ Goto(c, "serving") /\ UNCHANGED <<faults, ended>>
     \/ Fault /\ Return(c, "leaving", "internal") /\ UNCHANGED <<row, session, fresh>>
  /\ UNCHANGED <<restarts, cached, stored, current, closed, replaced, found, deleteVars>>

(* handleHeartbeat: TouchWithSession updates the row of this session, and  *)
(* the ack is refused by a session that is closed.                         *)
Heartbeat(c) ==
  /\ conn[c] = "serving"
  /\ \/ /\ session = c
        /\ fresh' = TRUE
        /\ IF c \in closed THEN Return(c, "leaving", "stream") ELSE UNCHANGED <<conn, ended>>
        /\ UNCHANGED faults
     \/ session # c /\ Goto(c, "rechecking") /\ UNCHANGED <<faults, fresh, ended>>
     \/ Fault /\ Return(c, "leaving", "internal") /\ UNCHANGED fresh
  /\ UNCHANGED <<restarts, cached, stored, row, session, current, closed, replaced, found, deleteVars>>

(* When no row was touched it reads the row to say why. *)
Recheck(c) ==
  /\ conn[c] = "rechecking"
  /\ \/ row = "absent" /\ Return(c, "leaving", "not_found") /\ UNCHANGED faults
     \/ row # "absent" /\ session # c /\ Return(c, "leaving", "outdated") /\ UNCHANGED faults
     \/ /\ session = c /\ UNCHANGED faults
        /\ IF c \in closed THEN Return(c, "leaving", "stream")
                           ELSE Goto(c, "serving") /\ UNCHANGED ended
     \/ Fault /\ Return(c, "leaving", "internal")
  /\ UNCHANGED <<restarts, cached, dbVars, current, closed, replaced, found, deleteVars>>

(* The stream breaks, the writer ends, or the worker goes away. *)
StreamEnds(c) ==
  /\ conn[c] = "serving"
  /\ Return(c, "leaving", "stream")
  /\ UNCHANGED <<restarts, faults, cached, dbVars, current, closed, replaced, found, deleteVars>>

(* Mutant: the entry is deleted without a look at its session_id. *)
RemoveAny(c) ==
  /\ conn[c] = "leaving"
  /\ current' = NoSession
  /\ Goto(c, "clearing")
  /\ UNCHANGED <<restarts, faults, cached, dbVars, closed, replaced, found, ended, deleteVars>>

(* Mutant: close() is deferred after removeSession, so it runs first. *)
RemoveClosed(c) ==
  /\ conn[c] = "leaving"
  /\ CloseSession(c)
  /\ Goto(c, "closing")
  /\ UNCHANGED <<restarts, faults, cached, dbVars, current, replaced, found, ended, deleteVars>>

(* removeSession takes only its own session out of the table. *)
Remove(c) ==
  /\ conn[c] = "leaving"
  /\ IF current = c THEN current' = NoSession /\ Goto(c, "clearing")
                    ELSE Goto(c, "closing") /\ UNCHANGED current
  /\ UNCHANGED <<restarts, faults, cached, dbVars, closed, replaced, found, ended, deleteVars>>

(* ClearSession by node and session; a failure is only logged. *)
ClearOwn(c) ==
  /\ conn[c] = "clearing"
  /\ \/ session' = (IF session = c THEN NoSession ELSE session) /\ UNCHANGED faults
     \/ Fault /\ UNCHANGED session
  /\ Goto(c, "closing")
  /\ UNCHANGED <<restarts, cached, stored, row, fresh, current, closed, replaced, found, ended, deleteVars>>

CloseOwn(c) ==
  /\ conn[c] = "closing"
  /\ CloseSession(c)
  /\ Goto(c, "over")
  /\ UNCHANGED <<restarts, faults, cached, dbVars, current, replaced, found, ended, deleteVars>>

Connect(c) ==
  \/ Lookup(c)
  \/ Cache(c)
  \/ Swap(c)
  \/ CloseReplaced(c)
  \/ UpsertRead(c)
  \/ UpsertWrite(c)
  \/ Recheck(c)
  \/ Remove(c)
  \/ ClearOwn(c)
  \/ CloseOwn(c)

-----------------------------------------------------------------------------
(* DeleteProvisionedWorker and disconnectWorker.                           *)

DropCached(d) ==
  /\ delete[d] = "idle"
  /\ cached' = FALSE
  /\ hit' = [hit EXCEPT ![d] = cached]
  /\ Proceed(d, "stored")
  /\ UNCHANGED <<restarts, faults, dbVars, current, closed, connVars, victim>>

DropStored(d) ==
  /\ delete[d] = "stored"
  /\ \/ /\ stored' = FALSE
        /\ hit' = [hit EXCEPT ![d] = @ \/ stored]
        /\ UNCHANGED faults
     \/ Fault /\ UNCHANGED <<stored, hit>>
  /\ Proceed(d, "row")
  /\ UNCHANGED <<restarts, cached, row, session, fresh, current, closed, connVars, victim>>

DropRow(d) ==
  /\ delete[d] = "row"
  /\ \/ DropNode /\ hit' = [hit EXCEPT ![d] = @ \/ row # "absent"] /\ UNCHANGED faults
     \/ Fault /\ UNCHANGED <<dbVars, hit>>
  /\ Proceed(d, IF hit'[d] THEN "unmapping" ELSE "not_found")
  /\ UNCHANGED <<restarts, cached, current, closed, connVars, victim>>

Unmap(d) ==
  /\ delete[d] = "unmapping"
  /\ victim' = [victim EXCEPT ![d] = current]
  /\ current' = NoSession
  /\ Proceed(d, "clearing")
  /\ UNCHANGED <<restarts, faults, cached, dbVars, closed, connVars, hit>>

(* ClearSessionByNode; a failure is only logged. *)
ClearNode(d) ==
  /\ delete[d] = "clearing"
  /\ \/ session' = NoSession /\ UNCHANGED faults
     \/ Fault /\ UNCHANGED session
  /\ Proceed(d, "closing")
  /\ UNCHANGED <<restarts, cached, stored, row, fresh, current, closed, connVars, hit, victim>>

CloseVictim(d) ==
  /\ delete[d] = "closing"
  /\ CloseSession(victim[d])
  /\ Proceed(d, "deleted")
  /\ UNCHANGED <<restarts, faults, cached, dbVars, current, connVars, hit, victim>>

Delete(d) ==
  \/ DropStored(d)
  \/ DropRow(d)
  \/ Unmap(d)
  \/ ClearNode(d)
  \/ CloseVictim(d)

-----------------------------------------------------------------------------
(* Time passes without a heartbeat. *)
Age ==
  /\ fresh
  /\ fresh' = FALSE
  /\ UNCHANGED <<restarts, faults, cached, stored, row, session, current, closed, connVars, deleteVars>>

(* PruneOffline deletes an offline worker nobody provisioned. *)
Prune ==
  /\ row = "runtime" /\ ~fresh
  /\ DropNode
  /\ UNCHANGED <<restarts, faults, cached, current, closed, connVars, deleteVars>>

(* The process dies and comes up again: ClearAllWorkerSessions runs, and   *)
(* the credential map is loaded from the database, or left empty if that   *)
(* read fails.                                                             *)
Restart ==
  /\ restarts < MaxRestarts
  /\ restarts' = restarts + 1
  /\ \/ cached' = stored /\ UNCHANGED faults
     \/ Fault /\ cached' = FALSE
  /\ session' = NoSession
  /\ current' = NoSession
  /\ conn' = [c \in Conns |-> IF conn[c] = "idle" THEN "idle" ELSE "over"]
  /\ ended' = [c \in Conns |-> IF conn[c] \in {"idle", "over"} THEN ended[c] ELSE "cut"]
  /\ delete' = [d \in Deletes |-> IF delete[d] \in {"idle", "deleted", "not_found"}
                                  THEN delete[d] ELSE "cut"]
  /\ UNCHANGED <<stored, row, fresh, closed, replaced, found, hit, victim>>

Next ==
  \/ \E c \in Conns : Hello(c) \/ Connect(c) \/ Refuse(c) \/ Heartbeat(c) \/ StreamEnds(c)
  \/ \E d \in Deletes : DropCached(d) \/ Delete(d)
  \/ Age
  \/ Prune
  \/ Restart

Spec == Init /\ [][Next]_vars

(* Handlers that have work run; no worker has to connect, to send a        *)
(* heartbeat or to go away, and nobody has to delete anything.             *)
Fairness ==
  /\ \A c \in Conns : WF_vars(Connect(c))
  /\ \A d \in Deletes : WF_vars(Delete(d))

FairSpec == Spec /\ Fairness

-----------------------------------------------------------------------------
(* Properties.                                                             *)

(* Connect calls whose session is published and that are not leaving. *)
Serves(c) == conn[c] \in {"swapped", "reading", "writing", "serving", "rechecking"}

(* A session that serves its worker without being in the table cannot be   *)
(* found by a dispatcher; somebody is always on the way to close it.  A    *)
(* removeSession that takes a newer session out would leave it an orphan.  *)
UnmappedIsClosed ==
  \A c \in Conns :
    Serves(c) /\ c # current =>
      \/ c \in closed
      \/ \E e \in Conns : conn[e] = "swapped" /\ replaced[e] = c
      \/ \E d \in Deletes : delete[d] \in {"clearing", "closing"} /\ victim[d] = c

(* The session a dispatcher can find is open: whoever closes a session has *)
(* taken it out of the table first.                                        *)
CurrentIsOpen ==
  current # NoSession => current \notin closed /\ conn[current] # "over"

(* A provisioned worker keeps its row, its provisioned column and its      *)
(* credential through any sequence of connections, replacements, faults,   *)
(* prunings and restarts, until somebody deletes it.                       *)
ProvisionedKept ==
  (\A d \in Deletes : delete[d] = "idle") => row = "provisioned" /\ stored

(* The table of sessions and close() keep the promise that WorkerSession   *)
(* takes for granted: see SessionLife.                                     *)
LifeOf(c) ==
  IF ended[c] = "cut" THEN "gone"
  ELSE IF current = c THEN "mapped"
  ELSE IF c \in closed THEN "closed"
  ELSE IF Serves(c) \/ conn[c] \in {"leaving", "clearing", "closing"} THEN "unmapped"
  ELSE "new"

Table == INSTANCE SessionLife WITH Sessions <- Conns, life <- [c \in Conns |-> LifeOf(c)]

ImplementsSessionLife == Table!Spec

(* A session that lost its place in the table is closed in the end, with   *)
(* or without the help of its worker.                                      *)
ReplacedCloses ==
  \A c \in Conns : (Serves(c) /\ c # current) ~> (c \in closed \/ conn[c] = "over")

(* DELETE /workers/:node_id is final: once it has answered, no session of  *)
(* the worker is open and served.                                          *)
DeleteIsFinal ==
  \A d \in Deletes, c \in Conns :
    delete[d] = "deleted" /\ conn[c] = "serving" => c \in closed

(* The newest session keeps its place: a heartbeat is answered "session is *)
(* outdated" only if the session was replaced.                             *)
NewestIsNotOutdated ==
  \A c \in Conns : conn[c] = "leaving" /\ ended[c] = "outdated" => current # c
=============================================================================

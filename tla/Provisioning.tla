---------------------------- MODULE Provisioning ----------------------------
(***************************************************************************)
(* The creation and deletion of workers from the dashboard: CreateWorker   *)
(* and DeleteWorker of worker_handler.go, CreateProvisionedWorkerForOwner  *)
(* and DeleteProvisionedWorker of service_credentials_runtime.go, over the *)
(* tables worker_nodes, worker_credentials and worker_sys_owner_claims and *)
(* the credential map of the process.                                      *)
(*                                                                         *)
(* A creation is a row, for a worker-sys a claim on the owner, an entry of *)
(* the map and a row with the hash of the secret, one after the other; each*)
(* that fails takes back what came before it.  The worker ids are fresh    *)
(* UUIDs: an id is named by the request and the attempt that drew it, so   *)
(* the branches for an id that is taken (of the row, of the map) are left  *)
(* out.  The one other writer of the map is getCredential, for a worker    *)
(* that connects.  What becomes of the connection, and what a deletion     *)
(* does to it, is in WorkerRegistry.                                       *)
(***************************************************************************)
EXTENDS Naturals, FiniteSets, Functions

CONSTANTS
  Calls,       \* HTTP requests
  Owners,      \* accounts
  MaxAttempts, \* maxProvisioningCreateAttempts
  NoOrder      \* nothing has been asked for yet

VARIABLES
  workers,  \* rows of worker_nodes: id -> the owner and type labels
  claims,   \* rows of worker_sys_owner_claims: owner -> id
  stored,   \* ids with a row in worker_credentials
  cached,   \* ids in RegistryService.credentials
  fetched,  \* ids whose hash a Connect has read and is about to put into the map
  work,     \* progress of each request
  order,    \* the owner and type a request asks for
  worker,   \* the id a request works on
  hit,      \* a deletion has deleted something
  condemned, \* history: workers a deletion has laid hand on
  disturbed \* history: a statement failed or the process was restarted

vars == <<workers, claims, stored, cached, fetched, work, order, worker, hit, condemned, disturbed>>
rows == <<workers, claims, stored>>
request == <<order, worker, hit>>
memory == <<cached, fetched>>

Types == {"normal", "worker-sys"}
Ids == Calls \X (1..MaxAttempts)
Orders == [owner : Owners, type : Types]
Creating == {"counting", "seeding", "claiming", "caching", "storing", "forgetting",
             "retrying", "refusing", "abandoning"}
Deleting == {"checking", "uncaching", "unstoring", "removing"}
Answers == {"created", "exists", "failed", "deleted", "not_found", "cut"}

TypeOK ==
  /\ DOMAIN workers \in SUBSET Ids /\ \A w \in DOMAIN workers : workers[w] \in Orders
  /\ DOMAIN claims \in SUBSET Owners /\ \A o \in DOMAIN claims : claims[o] \in Ids
  /\ stored \in SUBSET Ids
  /\ cached \in SUBSET Ids
  /\ fetched \in SUBSET Ids
  /\ work \in [Calls -> {"idle"} \cup Creating \cup Deleting \cup Answers]
  /\ order \in [Calls -> Orders \cup {NoOrder}]
  /\ worker \in [Calls -> Ids]
  /\ hit \in [Calls -> BOOLEAN]
  /\ condemned \in SUBSET Ids
  /\ disturbed \in BOOLEAN

(* The tables are empty.                                                   *)
Init ==
  /\ workers = << >>
  /\ claims = << >>
  /\ stored = {}
  /\ cached = {}
  /\ fetched = {}
  /\ work = [c \in Calls |-> "idle"]
  /\ order = [c \in Calls |-> NoOrder]
  /\ worker = [c \in Calls |-> <<c, 1>>]
  /\ hit = [c \in Calls |-> FALSE]
  /\ condemned = {}
  /\ disturbed = FALSE

-----------------------------------------------------------------------------
(* Helpers.                                                                *)

Goto(c, step) == work' = [work EXCEPT ![c] = step]
Row(w) == w \in DOMAIN workers
SysOf(o) == {w \in DOMAIN workers : workers[w] = [owner |-> o, type |-> "worker-sys"]}
IsSys(c) == order[c].type = "worker-sys"
Ask(c, owner, type) == order' = [order EXCEPT ![c] = [owner |-> owner, type |-> type]]
Fault == disturbed' = TRUE
NoFault == UNCHANGED disturbed

(* DELETE FROM worker_nodes takes the claim and the credential with it     *)
(* (ON DELETE CASCADE).                                                    *)
Delete(w) ==
  /\ workers' = Restrict(workers, DOMAIN workers \ {w})
  /\ claims' = Restrict(claims, {o \in DOMAIN claims : claims[o] # w})
  /\ stored' = stored \ {w}

(* The next round of the loop, if there is one.                            *)
NextAttempt(c) ==
  IF worker[c][2] < MaxAttempts
  THEN worker' = [worker EXCEPT ![c] = <<c, @[2] + 1>>] /\ Goto(c, "seeding")
  ELSE UNCHANGED worker /\ Goto(c, "failed")

-----------------------------------------------------------------------------
(* CreateProvisionedWorkerForOwner.                                        *)

BeginCreate(c, owner, type) ==
  /\ work[c] = "idle"
  /\ Ask(c, owner, type)
  /\ Goto(c, IF type = "worker-sys" THEN "counting" ELSE "seeding")
  /\ UNCHANGED <<condemned, rows, memory, worker, hit>> /\ NoFault

(* CountWorkersByOwnerAndType answers 0 when its statement fails.          *)
Count(c) ==
  /\ work[c] = "counting"
  /\ \/ SysOf(order[c].owner) # {} /\ Goto(c, "exists") /\ NoFault
     \/ SysOf(order[c].owner) = {} /\ Goto(c, "seeding") /\ NoFault
     \/ Goto(c, "seeding") /\ Fault
  /\ UNCHANGED <<condemned, rows, memory, request>>

(* SeedProvisionedWorkers, one transaction.                                *)
Seed(c) ==
  /\ work[c] = "seeding"
  /\ \/ /\ workers' = [w \in DOMAIN workers \cup {worker[c]} |->
                        IF w = worker[c] THEN order[c] ELSE workers[w]]
        /\ Goto(c, IF IsSys(c) THEN "claiming" ELSE "caching")
        /\ UNCHANGED worker /\ NoFault
     \/ NextAttempt(c) /\ UNCHANGED workers /\ Fault
  /\ UNCHANGED <<condemned, claims, stored, memory, order, hit>>

(* Mutants: an insert that hits the key counts as a claim; a refused       *)
(* creation leaves its row; another row of the owner is taken for a claim. *)
ClaimRepeated(c) ==
  /\ work[c] = "claiming"
  /\ Goto(c, "caching")
  /\ UNCHANGED <<condemned, rows, memory, request>> /\ NoFault
ClaimKeeping(c) ==
  /\ work[c] = "claiming"
  /\ Goto(c, IF order[c].owner \in DOMAIN claims THEN "exists" ELSE "caching")
  /\ claims' = [o \in DOMAIN claims \cup {order[c].owner} |->
                 IF o \in DOMAIN claims THEN claims[o] ELSE worker[c]]
  /\ UNCHANGED <<condemned, workers, stored, memory, request>> /\ NoFault
ClaimByCount(c) ==
  /\ work[c] = "claiming"
  /\ Goto(c, IF SysOf(order[c].owner) \subseteq {worker[c]} THEN "caching" ELSE "refusing")
  /\ UNCHANGED <<condemned, rows, memory, request>> /\ NoFault

(* InsertWorkerSysOwnerClaimIfAbsent: the owner is the primary key, the    *)
(* foreign key asks for the row of the worker.                             *)
Claim(c) ==
  /\ work[c] = "claiming"
  /\ LET owner == order[c].owner IN
     \/ /\ owner \notin DOMAIN claims /\ Row(worker[c])
        /\ claims' = [o \in DOMAIN claims \cup {owner} |->
                       IF o = owner THEN worker[c] ELSE claims[o]]
        /\ Goto(c, "caching") /\ NoFault
     \/ owner \in DOMAIN claims /\ Goto(c, "refusing") /\ UNCHANGED claims /\ NoFault
     \/ /\ owner \notin DOMAIN claims /\ ~Row(worker[c])
        /\ Goto(c, "abandoning") /\ UNCHANGED claims /\ NoFault
     \/ Goto(c, "abandoning") /\ UNCHANGED claims /\ Fault
  /\ UNCHANGED <<condemned, workers, stored, memory, request>>

(* putCredentialIfAbsent.                                                  *)
Cache(c) ==
  /\ work[c] = "caching"
  /\ cached' = cached \cup {worker[c]}
  /\ Goto(c, "storing")
  /\ UNCHANGED <<fetched, condemned, rows, request>> /\ NoFault

(* PutCredentialHashIfAbsent: false also for a row that is gone.           *)
Store(c) ==
  /\ work[c] = "storing"
  /\ \/ Row(worker[c]) /\ stored' = stored \cup {worker[c]} /\ Goto(c, "created") /\ NoFault
     \/ ~Row(worker[c]) /\ Goto(c, "forgetting") /\ UNCHANGED stored /\ NoFault
     \/ Goto(c, "forgetting") /\ UNCHANGED stored /\ Fault
  /\ UNCHANGED <<condemned, workers, claims, memory, request>>

(* deleteCredential of the rollback.                                       *)
Forget(c) ==
  /\ work[c] = "forgetting"
  /\ cached' = cached \ {worker[c]}
  /\ Goto(c, "retrying")
  /\ UNCHANGED <<fetched, condemned, rows, request>> /\ NoFault

(* Mutant: the rollback deletes the workers-sys of the owner.              *)
UndoByOwner(c) ==
  /\ work[c] \in {"retrying", "refusing", "abandoning"}
  /\ LET lost == SysOf(order[c].owner) IN
     /\ workers' = Restrict(workers, DOMAIN workers \ lost)
     /\ claims' = Restrict(claims, {o \in DOMAIN claims : claims[o] \notin lost})
     /\ stored' = stored \ lost
  /\ Goto(c, "exists")
  /\ UNCHANGED <<condemned, memory, request>> /\ NoFault

(* The rollback of the row; nobody looks whether the statement fails.      *)
Undo(c) ==
  /\ work[c] \in {"retrying", "refusing", "abandoning"}
  /\ \/ Delete(worker[c]) /\ NoFault
     \/ UNCHANGED rows /\ Fault
  /\ CASE work[c] = "retrying" -> NextAttempt(c)
       [] work[c] = "refusing" -> Goto(c, "exists") /\ UNCHANGED worker
       [] work[c] = "abandoning" -> Goto(c, "failed") /\ UNCHANGED worker
  /\ UNCHANGED <<condemned, memory, order, hit>>

CreateWorker(c) ==
  \/ Count(c) \/ Seed(c) \/ Claim(c) \/ Cache(c) \/ Store(c) \/ Forget(c) \/ Undo(c)

-----------------------------------------------------------------------------
(* DeleteWorker.  An id is learnt from the list of workers, which shows a  *)
(* worker from its row on.                                                 *)

BeginDelete(c, owner, admin) ==
  /\ work[c] = "idle"
  /\ \E w \in DOMAIN workers : worker' = [worker EXCEPT ![c] = w]
  /\ Ask(c, owner, "worker-sys")
  /\ Goto(c, IF admin THEN "uncaching" ELSE "checking")
  /\ UNCHANGED <<condemned, rows, memory, hit>> /\ NoFault

(* Who is not the admin may delete a worker-sys of the own account.        *)
Check(c) ==
  /\ work[c] = "checking"
  /\ \/ worker[c] \in SysOf(order[c].owner) /\ Goto(c, "uncaching") /\ NoFault
     \/ worker[c] \notin SysOf(order[c].owner) /\ Goto(c, "not_found") /\ NoFault
     \/ Goto(c, "not_found") /\ Fault
  /\ UNCHANGED <<condemned, rows, memory, request>>

Hit(c, found) == hit' = [hit EXCEPT ![c] = @ \/ found]

(* deleteCredential.                                                       *)
Uncache(c) ==
  /\ work[c] = "uncaching"
  /\ Hit(c, worker[c] \in cached)
  /\ cached' = cached \ {worker[c]}
  /\ condemned' = condemned \cup {worker[c]}
  /\ Goto(c, "unstoring")
  /\ UNCHANGED <<fetched, rows, order, worker>> /\ NoFault

(* DeleteCredential.                                                       *)
Unstore(c) ==
  /\ work[c] = "unstoring"
  /\ \/ Hit(c, worker[c] \in stored) /\ stored' = stored \ {worker[c]} /\ NoFault
     \/ UNCHANGED <<hit, stored>> /\ Fault
  /\ Goto(c, "removing")
  /\ UNCHANGED <<condemned, workers, claims, memory, order, worker>>

(* Store.Delete and the answer.                                            *)
Remove(c) ==
  /\ work[c] = "removing"
  /\ \/ /\ Hit(c, Row(worker[c])) /\ Delete(worker[c]) /\ NoFault
     \/ UNCHANGED <<hit, rows>> /\ Fault
  /\ Goto(c, IF hit'[c] THEN "deleted" ELSE "not_found")
  /\ UNCHANGED <<condemned, memory, order, worker>>

DeleteWorker(c) == Check(c) \/ Uncache(c) \/ Unstore(c) \/ Remove(c)

-----------------------------------------------------------------------------
(* getCredential, called by the Connect of a worker that has its secret.   *)

(* The map does not have the worker: its hash is read from the database.   *)
FetchHash(w) ==
  /\ w \in stored \ cached
  /\ \E c \in Calls : work[c] = "created" /\ worker[c] = w
  /\ fetched' = fetched \cup {w}
  /\ UNCHANGED <<condemned, rows, cached, work, request>> /\ NoFault

(* And put into the map, whatever has become of the row; another Connect   *)
(* of the worker may have read it too.                                     *)
PutBack(w) ==
  /\ w \in fetched
  /\ cached' = cached \cup {w}
  /\ fetched' \in {fetched, fetched \ {w}}
  /\ UNCHANGED <<condemned, rows, work, request>> /\ NoFault

GetCredential(w) == FetchHash(w) \/ PutBack(w)

-----------------------------------------------------------------------------
(* The process ends and starts again: LoadCredentials fills the map.       *)
Restart ==
  /\ cached' = stored /\ fetched' = {}
  /\ work' = [c \in Calls |-> IF work[c] \in Creating \cup Deleting THEN "cut" ELSE work[c]]
  /\ disturbed' = TRUE
  /\ UNCHANGED <<condemned, rows, request>>

Next ==
  \/ \E c \in Calls, o \in Owners, t \in Types : BeginCreate(c, o, t)
  \/ \E c \in Calls, o \in Owners, admin \in BOOLEAN : BeginDelete(c, o, admin)
  \/ \E c \in Calls : CreateWorker(c) \/ DeleteWorker(c)
  \/ \E w \in Ids : GetCredential(w)
  \/ Restart

Spec == Init /\ [][Next]_vars

-----------------------------------------------------------------------------
(* Properties.                                                             *)

Usable(w) == Row(w) /\ w \in stored /\ w \in cached
Accepted(w) == w \in cached \cup stored
Resting(c) == work[c] \notin Creating \cup Deleting

(* Of the workers-sys of an account at most one has a credential: two      *)
(* creations may both find none when they count and both insert a row, and *)
(* a retry, a rollback, a deletion, a failing statement or a restart may   *)
(* come in between, but only the holder of the claim goes on to the        *)
(* credential, and the claim lasts as long as its row.                     *)
OneSysPerOwner ==
  \A o \in Owners : Cardinality({w \in SysOf(o) : Accepted(w)}) \leq 1

(* The worker whose id and secret were returned works - row, hash and map  *)
(* entry are there - until somebody deletes it: no rollback of another     *)
(* creation, no failing statement and no restart takes any of them.        *)
CreatedIsUsable ==
  \A c \in Calls : work[c] = "created" => Usable(worker[c]) \/ worker[c] \in condemned

(* While no statement fails, every row and every credential belongs to a   *)
(* creation that is under way or has been answered with it, or to a        *)
(* deletion under way: a refused or repeated creation leaves nothing that  *)
(* would block its owner.  The one thing that may stay is the map entry of *)
(* a worker that was deleted while it was being created or while it        *)
(* connected (getCredential).                                              *)
NothingLeft ==
  ~disturbed =>
    \A w \in DOMAIN workers \cup stored \cup cached :
       \/ worker[w[1]] = w /\ work[w[1]] \in Creating
       \/ worker[w[1]] = w /\ work[w[1]] = "created" /\ (Row(w) \/ w \in condemned \ stored)
       \/ w \in condemned /\ (\E c \in Calls : work[c] \in Deleting /\ worker[c] = w)

(* An owner is told that the worker-sys exists only if, once the other     *)
(* requests are done, there is one - or there was and it has been deleted: *)
(* of several creations at the same time one wins.                         *)
RefusedHasWorker ==
  ~disturbed /\ (\A c \in Calls : Resting(c)) =>
    \A c \in Calls : work[c] = "exists" =>
      \/ \E w \in SysOf(order[c].owner) : Usable(w)
      \/ \E w \in condemned : order[w[1]] = order[c]
=============================================================================

------------------------------ MODULE Dashboard ------------------------------
(***************************************************************************)
(* The requests of the dashboard on one console: accounts, login sessions  *)
(* and tokens (module Accounts) and the creation and deletion of workers   *)
(* (module Provisioning), which a login session lets through               *)
(* (NewRouter and resolveWorkerAccessScope in worker_handler.go).          *)
(***************************************************************************)
EXTENDS Naturals, FiniteSets

CONSTANTS
  Calls,       \* HTTP requests
  Root,        \* the admin account
  User,        \* an account it has registered
  NoAccount,   \* no session has been looked at yet
  NoOrder,     \* no worker has been asked for yet
  MaxAttempts  \* maxProvisioningCreateAttempts

ASSUME CallsAssumption ==
  /\ Root # User /\ NoAccount \notin Calls \cup {Root, User}
  /\ Calls \cap {Root, User} = {}
ASSUME AttemptsAssumption == MaxAttempts \in Nat \ {0}

VARIABLES accounts, sessions, tokens, at, subject, proof, overtaken, revoked,
          workers, claims, stored, cached, fetched, work, order, worker, hit, condemned, disturbed

Known == Calls \cup {Root, User}

A == INSTANCE Accounts
P == INSTANCE Provisioning WITH Owners <- Known

accountVars == <<accounts, sessions, tokens, at, subject, proof, overtaken, revoked>>
workerVars ==
  <<workers, claims, stored, cached, fetched, work, order, worker, hit, condemned, disturbed>>
vars == <<accountVars, workerVars>>

Init == A!Init /\ P!Init

(* A request is of one kind.                                               *)
AccountRequest(c) == work[c] = "idle" /\ A!Request(c) /\ UNCHANGED workerVars

(* Only an admin creates a worker that is not a worker-sys.                *)
BeginCreate(c) ==
  /\ at[c] = "idle"
  /\ \E s \in sessions, type \in P!Types :
       (type = "normal" => s.account = Root) /\ P!BeginCreate(c, s.account, type)
  /\ UNCHANGED accountVars

BeginDelete(c) ==
  /\ at[c] = "idle"
  /\ \E s \in sessions : P!BeginDelete(c, s.account, s.account = Root)
  /\ UNCHANGED accountVars

WorkerRequest(c) ==
  \/ BeginCreate(c) \/ BeginDelete(c)
  \/ (P!CreateWorker(c) \/ P!DeleteWorker(c)) /\ UNCHANGED accountVars

(* A worker connects.                                                      *)
GetCredential(w) == P!GetCredential(w) /\ UNCHANGED accountVars

EndSession == A!EndSession /\ UNCHANGED workerVars
Restart == A!Restart /\ P!Restart

Next ==
  \/ \E c \in Calls : AccountRequest(c) \/ WorkerRequest(c)
  \/ \E w \in P!Ids : GetCredential(w)
  \/ EndSession
  \/ Restart

Spec == Init /\ [][Next]_vars

-----------------------------------------------------------------------------
(* Properties: those of the two parts, with requests of both kinds under   *)
(* way and the deletion of the account behind a creation among them.       *)

TypeOK == A!TypeOK /\ P!TypeOK

(* A login session stands for the present password of an account that      *)
(* exists (ChangePassword and DeleteAccount sweep the map), except for     *)
(* those createSession opens after the sweep for a request that had read   *)
(* or written the row before it.                                           *)
SessionsCurrent == A!SessionsCurrent

(* A token answered as created is accepted exactly until its own account   *)
(* asked to delete it (deleteToken) or the account is gone.                *)
TokensStand == A!TokensStand

(* However creations of one account overlap, fail and are taken back, at   *)
(* most one of its workers-sys has a credential: the claim decides         *)
(* (CreateProvisionedWorkerForOwner), not the count before it.             *)
OneSysPerOwner == P!OneSysPerOwner

(* A worker whose secret was handed out keeps row, hash and map entry      *)
(* until somebody deletes it, whatever another creation rolls back.        *)
CreatedIsUsable == P!CreatedIsUsable

(* While no statement fails, a creation that was refused or repeated       *)
(* leaves no row, claim or credential behind (the rollbacks of             *)
(* CreateProvisionedWorkerForOwner and DeleteProvisionedWorker).           *)
NothingLeft == P!NothingLeft

(* Of several creations at a time one wins: nobody is told                 *)
(* ErrWorkerSysAlreadyExists when in the end there is none and none was    *)
(* deleted.                                                                *)
RefusedHasWorker == P!RefusedHasWorker
=============================================================================

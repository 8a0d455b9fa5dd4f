------------------------------ MODULE Accounts ------------------------------
(***************************************************************************)
(* Dashboard accounts, their login sessions and their access tokens        *)
(* (console_auth_handlers.go, console_auth_session.go,                     *)
(* console_auth_account.go, mcp_auth.go of console/internal/httpapi).      *)
(*                                                                         *)
(* Accounts and tokens are rows of the database, login sessions live in a  *)
(* map of the process.  A request looks at the map, runs its statements    *)
(* and changes the map again, and nothing holds two of these together.     *)
(*                                                                         *)
(* An account is named by its id, which is fresh: the id of a registered   *)
(* account is the request that registered it.  A password is named by who  *)
(* set it, a session and a token by the request that made them.            *)
(***************************************************************************)
EXTENDS Functions

CONSTANTS
  Calls,    \* HTTP requests
  Root,     \* the admin account of the first start
  User,     \* an account it has registered
  NoAccount \* no session has been looked at yet

VARIABLES
  accounts,  \* rows of accounts: id -> user name and password
  sessions,  \* ConsoleAuth.sessions
  tokens,    \* rows of trusted_tokens
  at,        \* progress of each request
  subject,   \* the account a request acts on
  proof,     \* the password a request has seen to be right, or has set
  overtaken, \* history: requests whose account was changed after they read it
  revoked    \* history: tokens an account asked to delete

vars == <<accounts, sessions, tokens, at, subject, proof, overtaken, revoked>>

Known == Calls \cup {Root, User}
Names == {Root, User}
Reading == {"reading", "updating", "deleting", "registering", "minting", "revoking"}
Writing == {"opening", "rotating", "renewing", "evicting", "severing"}
Answers == {"signed_in", "denied", "changed", "deleted", "registered", "refused",
            "minted", "revoked", "not_found", "failed", "cut"}

TypeOK ==
  /\ DOMAIN accounts \in SUBSET Known
  /\ \A a \in DOMAIN accounts : accounts[a] \in [name : Names, password : Known]
  /\ sessions \in SUBSET [by : Known, account : Known, password : Known]
  /\ tokens \in SUBSET [by : Calls, account : Known, value : Known]
  /\ at \in [Calls -> {"idle"} \cup Reading \cup Writing \cup Answers]
  /\ subject \in [Calls -> Known \cup {NoAccount}]
  /\ proof \in [Calls -> Known \cup {NoAccount}]
  /\ overtaken \in SUBSET Calls
  /\ revoked \in SUBSET (Calls \X Known)

(* Root and User are signed in with their first passwords.                 *)
Init ==
  /\ accounts = [a \in {Root, User} |-> [name |-> a, password |-> a]]
  /\ sessions = {[by |-> a, account |-> a, password |-> a] : a \in {Root, User}}
  /\ tokens = {}
  /\ at = [c \in Calls |-> "idle"]
  /\ subject = [c \in Calls |-> NoAccount]
  /\ proof = [c \in Calls |-> NoAccount]
  /\ overtaken = {}
  /\ revoked = {}

-----------------------------------------------------------------------------
(* Helpers.                                                                *)

Exists(a) == a \in DOMAIN accounts
Goto(c, step) == at' = [at EXCEPT ![c] = step]
ActOn(c, a) == subject' = [subject EXCEPT ![c] = a]

SessionsOf(a) == {s \in sessions : s.account = a}

Show(c, password) == proof' = [proof EXCEPT ![c] = password]

KeepHistory == UNCHANGED <<overtaken, revoked>>

(* createSession.                                                          *)
CreateSession(c) ==
  sessions' = sessions \cup {[by |-> c, account |-> subject[c], password |-> proof[c]]}

(* deleteSessionsByAccountID.                                              *)
DeleteSessions(a) == sessions' = sessions \ SessionsOf(a)

(* Requests that will open a session of a on the strength of what they     *)
(* have read or written before.                                            *)
Underway(a) == {c \in Calls : at[c] \in {"opening", "rotating", "renewing"} /\ subject[c] = a}

(* RequireAuth: the account is the one the session was opened for; the     *)
(* database is not asked.  RequireAdmin lets Root through: Register makes  *)
(* no second admin.                                                        *)
SignedIn(c, s, step) == at[c] = "idle" /\ ActOn(c, s.account) /\ Goto(c, step)
Admins == SessionsOf(Root)

(* A statement fails, or createSession finds no randomness for the id, and *)
(* the request with it; what it has done before stays done.                *)
StatementFails(c) ==
  /\ at[c] \in Reading \cup {"opening", "renewing"}
  /\ Goto(c, "failed")
  /\ UNCHANGED <<accounts, sessions, tokens, subject, proof>> /\ KeepHistory

-----------------------------------------------------------------------------
(* Login.                                                                  *)

(* lookupAccount and verifyPassword: the password is compared with the     *)
(* hash the row had when it was read.                                      *)
Login(c) ==
  /\ at[c] = "idle"
  /\ \/ \E a \in DOMAIN accounts :
          ActOn(c, a) /\ Show(c, accounts[a].password) /\ Goto(c, "opening")
     \/ Goto(c, "denied") /\ UNCHANGED <<subject, proof>>
  /\ UNCHANGED <<accounts, sessions, tokens>> /\ KeepHistory

OpenSession(c) ==
  /\ at[c] = "opening"
  /\ CreateSession(c)
  /\ Goto(c, "signed_in")
  /\ UNCHANGED <<accounts, tokens, subject, proof>> /\ KeepHistory

(* Logout, or the session is found to be expired.                          *)
EndSession ==
  /\ \E s \in sessions : sessions' = sessions \ {s}
  /\ UNCHANGED <<accounts, tokens, at, subject, proof>> /\ KeepHistory

-----------------------------------------------------------------------------
(* ChangePassword.                                                         *)

BeginChange(c) ==
  /\ \E s \in sessions : SignedIn(c, s, "reading")
  /\ UNCHANGED <<accounts, sessions, tokens, proof>> /\ KeepHistory

(* GetAccountByID, and the current password against the hash it returned.  *)
ReadAccount(c) ==
  /\ at[c] = "reading"
  /\ \/ Exists(subject[c]) /\ (Goto(c, "updating") \/ Goto(c, "denied"))
     \/ ~Exists(subject[c]) /\ Goto(c, "evicting")
  /\ UNCHANGED <<accounts, sessions, tokens, subject, proof>> /\ KeepHistory

(* UpdateAccountPasswordByID does not ask for the hash that was read.      *)
UpdatePassword(c) ==
  /\ at[c] = "updating"
  /\ Exists(subject[c])
  /\ accounts' = [accounts EXCEPT ![subject[c]].password = c]
  /\ overtaken' = overtaken \cup Underway(subject[c])
  /\ Show(c, c)
  /\ Goto(c, "rotating")
  /\ UNCHANGED <<sessions, tokens, subject, revoked>>

UpdateMisses(c) ==
  /\ at[c] = "updating"
  /\ ~Exists(subject[c])
  /\ Goto(c, "evicting")
  /\ UNCHANGED <<accounts, sessions, tokens, subject, proof>> /\ KeepHistory

RotateSessions(c) ==
  /\ at[c] = "rotating"
  /\ DeleteSessions(subject[c])
  /\ Goto(c, "renewing")
  /\ UNCHANGED <<accounts, tokens, subject, proof>> /\ KeepHistory

RenewSession(c) ==
  /\ at[c] = "renewing"
  /\ CreateSession(c)
  /\ Goto(c, "changed")
  /\ UNCHANGED <<accounts, tokens, subject, proof>> /\ KeepHistory

(* The account is gone: its sessions go with it.                           *)
Evict(c) ==
  /\ at[c] = "evicting"
  /\ DeleteSessions(subject[c])
  /\ Goto(c, "denied")
  /\ UNCHANGED <<accounts, tokens, subject, proof>> /\ KeepHistory

ChangePassword(c) ==
  \/ BeginChange(c) \/ ReadAccount(c) \/ UpdatePassword(c) \/ UpdateMisses(c)
  \/ RotateSessions(c) \/ RenewSession(c) \/ Evict(c)

-----------------------------------------------------------------------------
(* Register and DeleteAccount, for an admin.                               *)

BeginRegister(c) ==
  /\ \E s \in Admins : SignedIn(c, s, "registering")
  /\ UNCHANGED <<accounts, sessions, tokens, proof>> /\ KeepHistory

(* createAccountWithRetry: the unique index on the user name decides.      *)
Register(c) ==
  /\ at[c] = "registering"
  /\ \E name \in Names :
       IF \E a \in DOMAIN accounts : accounts[a].name = name
       THEN Goto(c, "refused") /\ UNCHANGED accounts
       ELSE /\ accounts' = [a \in DOMAIN accounts \cup {c} |->
                              IF a = c THEN [name |-> name, password |-> c] ELSE accounts[a]]
            /\ Goto(c, "registered")
  /\ UNCHANGED <<sessions, tokens, subject, proof>> /\ KeepHistory

(* The admin may not delete the account of the session.                    *)
BeginDelete(c) ==
  /\ at[c] = "idle"
  /\ \E s \in Admins, a \in Known \ {c} :
       /\ a # s.account
       /\ a = User \/ (a \in Calls /\ at[a] = "registered")
       /\ ActOn(c, a)
  /\ Goto(c, "deleting")
  /\ UNCHANGED <<accounts, sessions, tokens, proof>> /\ KeepHistory

(* DeleteNonAdminAccountByID; the tokens of the account go with the row    *)
(* (ON DELETE CASCADE), its workers and tasks stay.                        *)
DeleteAccount(c) ==
  /\ at[c] = "deleting"
  /\ Exists(subject[c])
  /\ accounts' = Restrict(accounts, DOMAIN accounts \ {subject[c]})
  /\ tokens' = {t \in tokens : t.account # subject[c]}
  /\ overtaken' = overtaken \cup Underway(subject[c])
  /\ Goto(c, "severing")
  /\ UNCHANGED <<sessions, subject, proof, revoked>>

DeleteMisses(c) ==
  /\ at[c] = "deleting"
  /\ ~Exists(subject[c])
  /\ Goto(c, "not_found")
  /\ UNCHANGED <<accounts, sessions, tokens, subject, proof>> /\ KeepHistory

(* Mutant: the sessions of a deleted account are left to their expiry.     *)
SeverNothing(c) ==
  /\ at[c] = "severing"
  /\ Goto(c, "deleted")
  /\ UNCHANGED <<accounts, sessions, tokens, subject, proof>> /\ KeepHistory

SeverSessions(c) ==
  /\ at[c] = "severing"
  /\ DeleteSessions(subject[c])
  /\ Goto(c, "deleted")
  /\ UNCHANGED <<accounts, tokens, subject, proof>> /\ KeepHistory

ManageAccounts(c) ==
  \/ BeginRegister(c) \/ Register(c)
  \/ BeginDelete(c) \/ DeleteAccount(c) \/ DeleteMisses(c) \/ SeverSessions(c)

-----------------------------------------------------------------------------
(* Access tokens.                                                          *)

BeginToken(c) ==
  /\ \E s \in sessions : SignedIn(c, s, "minting") \/ SignedIn(c, s, "revoking")
  /\ UNCHANGED <<accounts, sessions, tokens, proof>> /\ KeepHistory

(* createToken: a generated value is the request's own, a value the user   *)
(* chose may be in use.  All tokens are asked for under one name, which is *)
(* unique within the account; the foreign key asks for the account.        *)
CreateToken(c) ==
  /\ at[c] = "minting"
  /\ \E value \in {c, User} :
       LET taken == \E t \in tokens : t.value = value \/ t.account = subject[c] IN
       \/ /\ Exists(subject[c]) /\ ~taken
          /\ tokens' = tokens \cup {[by |-> c, account |-> subject[c], value |-> value]}
          /\ Goto(c, "minted")
       \/ /\ ~Exists(subject[c]) \/ taken
          /\ Goto(c, "refused")
          /\ UNCHANGED tokens
  /\ UNCHANGED <<accounts, sessions, subject, proof>> /\ KeepHistory

(* Mutant: deleteToken asks for the id only.                               *)
DeleteTokenById(c) ==
  /\ at[c] = "revoking"
  /\ \E id \in Calls :
       /\ at[id] = "minted"
       /\ tokens' = {t \in tokens : t.by # id}
       /\ revoked' = revoked \cup {<<id, subject[c]>>}
  /\ Goto(c, "revoked")
  /\ UNCHANGED <<accounts, sessions, subject, proof, overtaken>>

(* deleteToken asks for the id and the account of the session.             *)
DeleteToken(c) ==
  /\ at[c] = "revoking"
  /\ \E id \in Calls :
       LET gone == {t \in tokens : t.by = id /\ t.account = subject[c]} IN
       /\ at[id] = "minted"
       /\ tokens' = tokens \ gone
       /\ revoked' = revoked \cup {<<id, subject[c]>>}
       /\ Goto(c, IF gone = {} THEN "not_found" ELSE "revoked")
  /\ UNCHANGED <<accounts, sessions, subject, proof, overtaken>>

ManageTokens(c) == BeginToken(c) \/ CreateToken(c) \/ DeleteToken(c)

-----------------------------------------------------------------------------
(* The process ends and starts again: the map of sessions is empty.        *)
Restart ==
  /\ sessions' = {}
  /\ at' = [c \in Calls |-> IF at[c] \in Reading \cup Writing THEN "cut" ELSE at[c]]
  /\ UNCHANGED <<accounts, tokens, subject, proof>> /\ KeepHistory

Request(c) ==
  \/ Login(c) \/ OpenSession(c) \/ ChangePassword(c)
  \/ ManageAccounts(c) \/ ManageTokens(c) \/ StatementFails(c)

Next == (\E c \in Calls : Request(c)) \/ EndSession \/ Restart

Spec == Init /\ [][Next]_vars

-----------------------------------------------------------------------------
(* Properties.                                                             *)

(* A change of the password or the deletion of the account is over: c has  *)
(* still to delete the sessions of a.                                      *)
Cleaning(a) == \E c \in Calls : at[c] \in {"rotating", "severing"} /\ subject[c] = a

(* A session stands for the present password of an account that exists,    *)
(* unless the request that changed or deleted the account has yet to       *)
(* delete the sessions, was cut off by a restart - which empties the       *)
(* table - or the session was opened by a request that had read the row    *)
(* (Login) or written it (ChangePassword) before and came to createSession *)
(* after the sweep.  That is the only way a session survives.              *)
SessionsCurrent ==
  \A s \in sessions :
     \/ Exists(s.account) /\ accounts[s.account].password = s.password
     \/ Cleaning(s.account)
     \/ s.by \in overtaken

(* A token answered as created is accepted until its own account asked to  *)
(* delete it or the account is gone, and never after: neither a request of *)
(* another account that knows its id nor a deletion between the check of   *)
(* the session and the INSERT changes that.                                *)
TokensStand ==
  /\ \A t \in tokens : Exists(t.account)
  /\ \A c \in Calls : at[c] = "minted" =>
        ((\E t \in tokens : t.by = c) <=> (Exists(subject[c]) /\ <<c, subject[c]>> \notin revoked))
=============================================================================

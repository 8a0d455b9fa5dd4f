---------------------------- MODULE AccountsProofs ----------------------------
(***************************************************************************)
(* Machine-checked proofs about the accounts, login sessions and access    *)
(* tokens of Dashboard, for every set of requests.                         *)
(*                                                                         *)
(* SessionsCurrent needs that whoever is about to open a session has shown *)
(* the present password or was overtaken (ProofsCurrent); TokensStand,     *)
(* that a token belongs to the request that was answered with it           *)
(* (TokensOwned).  Both need that the ids of accounts are fresh            *)
(* (AccountsBorn).                                                         *)
(***************************************************************************)
EXTENDS Dashboard, TLAPS

(* Accounts.                                                               *)

(* The rows are a function, and an id is that of a request only if the     *)
(* request has registered it: in a row, in a session, as a subject.        *)
Registered(a) == a \in Calls => at[a] = "registered"

AccountsBorn ==
  /\ accounts \in [DOMAIN accounts -> [name : A!Names, password : A!Known]]
  /\ \A a \in DOMAIN accounts : Registered(a)
  /\ \A s \in sessions : Registered(s.account)
  /\ \A c \in Calls :
       /\ Registered(subject[c])
       /\ at[c] \notin {"idle", "denied"} => subject[c] # NoAccount
       /\ at[c] \in {"opening", "rotating", "renewing"} => proof[c] # NoAccount

(* A request that is going to open a session has shown the password the    *)
(* row still has, unless it was overtaken.                                 *)
ProofsCurrent ==
  \A c \in Calls :
    at[c] \in {"opening", "rotating", "renewing"} =>
      \/ A!Exists(subject[c]) /\ accounts[subject[c]].password = proof[c]
      \/ c \in overtaken

(* A token is that of the request that was answered with it, and only such *)
(* a request has its token deleted.                                        *)
TokensOwned ==
  /\ \A t \in tokens : at[t.by] = "minted" /\ t.account = subject[t.by]
  /\ \A r \in revoked : at[r[1]] = "minted"

AccountInv ==
  /\ A!TypeOK /\ AccountsBorn /\ ProofsCurrent /\ TokensOwned
  /\ A!SessionsCurrent /\ A!TokensStand

-----------------------------------------------------------------------------
(* What the steps that write the rows do to them.                          *)
LEMMA UpdateRow ==
  ASSUME A!TypeOK, AccountsBorn, NEW c \in Calls, A!UpdatePassword(c)
  PROVE  /\ DOMAIN accounts' = DOMAIN accounts /\ subject[c] \in DOMAIN accounts
         /\ accounts' \in [DOMAIN accounts -> [name : A!Names, password : A!Known]]
         /\ accounts'[subject[c]].password = c
         /\ \A a \in DOMAIN accounts : a # subject[c] => accounts'[a] = accounts[a]
<1> DEFINE R == [name : A!Names, password : A!Known]
           row == [accounts[subject[c]] EXCEPT !.password = c]
<1>1. accounts \in [DOMAIN accounts -> R] /\ subject[c] \in DOMAIN accounts
  BY DEF AccountsBorn, A!UpdatePassword, A!Exists
<1>2. accounts' = [accounts EXCEPT ![subject[c]] = row]
  BY DEF A!UpdatePassword
<1>3. row \in R /\ row.password = c
  BY <1>1 DEF A!Known
<1> HIDE DEF row, R
<1>4. accounts' \in [DOMAIN accounts -> R] /\ accounts'[subject[c]] = row
  BY <1>1, <1>2, <1>3
<1>5. \A a \in DOMAIN accounts : a # subject[c] => accounts'[a] = accounts[a]
  BY <1>1, <1>2
<1> QED
  BY <1>1, <1>3, <1>4, <1>5 DEF R

(* Register adds a row of the request's own, or none.                      *)
LEMMA RegisterRow ==
  ASSUME A!TypeOK, AccountsBorn, NEW c \in Calls, A!Register(c)
  PROVE  \/ accounts' = accounts /\ A!Goto(c, "refused")
         \/ /\ DOMAIN accounts' = DOMAIN accounts \cup {c}
            /\ accounts' \in [DOMAIN accounts' -> [name : A!Names, password : A!Known]]
            /\ \A a \in DOMAIN accounts : a # c => accounts'[a] = accounts[a]
            /\ A!Goto(c, "registered")
<1> DEFINE R == [name : A!Names, password : A!Known]
<1>1. accounts \in [DOMAIN accounts -> R]
  BY DEF AccountsBorn
<1>2. PICK name \in A!Names :
        IF \E a \in DOMAIN accounts : accounts[a].name = name
        THEN A!Goto(c, "refused") /\ UNCHANGED accounts
        ELSE /\ accounts' = [a \in DOMAIN accounts \cup {c} |->
                               IF a = c THEN [name |-> name, password |-> c] ELSE accounts[a]]
             /\ A!Goto(c, "registered")
  BY DEF A!Register
<1> DEFINE row == [name |-> name, password |-> c]
<1>3. row \in R
  BY DEF A!Known
<1> HIDE DEF row, R
<1>4. CASE accounts' = [a \in DOMAIN accounts \cup {c} |-> IF a = c THEN row ELSE accounts[a]]
  BY <1>1, <1>2, <1>3, <1>4 DEF R, row
<1> QED
  BY <1>2, <1>4 DEF row

(* DeleteAccount takes one row out and leaves the others.                  *)
LEMMA DeleteRow ==
  ASSUME A!TypeOK, AccountsBorn, NEW c \in Calls, A!DeleteAccount(c)
  PROVE  /\ subject[c] \in DOMAIN accounts /\ DOMAIN accounts' = DOMAIN accounts \ {subject[c]}
         /\ accounts' \in [DOMAIN accounts' -> [name : A!Names, password : A!Known]]
         /\ \A a \in DOMAIN accounts' : accounts'[a] = accounts[a]
BY DEF A!DeleteAccount, AccountsBorn, A!Exists, A!Restrict

(* Who a request acts for.                                                 *)
LEMMA SubjectKnown ==
  ASSUME A!TypeOK, AccountsBorn, NEW c \in Calls, at[c] \notin {"idle", "denied"}
  PROVE  /\ subject[c] \in A!Known
         /\ at[c] \in {"opening", "rotating", "renewing"} => proof[c] \in A!Known
BY DEF A!TypeOK, AccountsBorn

(* Types.                                                                  *)
LEMMA AccountTypeStep == A!TypeOK /\ AccountsBorn /\ [A!Next]_(A!vars) => A!TypeOK'
<1> SUFFICES ASSUME A!TypeOK, AccountsBorn, [A!Next]_(A!vars) PROVE A!TypeOK'
  OBVIOUS
<1> USE CallsAssumption DEF A!TypeOK, A!Reading, A!Writing, A!Answers, A!Known
<1>1. ASSUME NEW c \in Calls, A!Login(c) PROVE A!TypeOK'
  BY <1>1 DEF A!Login, A!ActOn, A!Show, A!Goto, A!KeepHistory
<1>2. ASSUME NEW c \in Calls, A!OpenSession(c) PROVE A!TypeOK'
  <2>1. subject[c] \in A!Known /\ proof[c] \in A!Known
    BY <1>2, SubjectKnown DEF A!OpenSession, A!RenewSession
  <2>2. [by |-> c, account |-> subject[c], password |-> proof[c]]
          \in [by : A!Known, account : A!Known, password : A!Known]
    BY <2>1
  <2> QED
    BY <1>2, <2>2 DEF A!OpenSession, A!RenewSession, A!CreateSession, A!Goto, A!KeepHistory
<1>3. ASSUME NEW c \in Calls, A!BeginChange(c) PROVE A!TypeOK'
  BY <1>3 DEF A!BeginChange, A!SignedIn, A!ActOn, A!Goto, A!KeepHistory
<1>4. ASSUME NEW c \in Calls, A!ReadAccount(c) PROVE A!TypeOK'
  BY <1>4 DEF A!ReadAccount, A!Goto, A!KeepHistory
<1>5. ASSUME NEW c \in Calls, A!UpdatePassword(c) PROVE A!TypeOK'
  BY <1>5, UpdateRow DEF A!UpdatePassword, A!Underway, A!Show, A!Goto, A!KeepHistory
<1>6. ASSUME NEW c \in Calls, A!UpdateMisses(c) PROVE A!TypeOK'
  BY <1>6 DEF A!UpdateMisses, A!Goto, A!KeepHistory
<1>7. ASSUME NEW c \in Calls, A!RotateSessions(c) PROVE A!TypeOK'
  BY <1>7 DEF A!RotateSessions, A!DeleteSessions, A!SessionsOf, A!Goto, A!KeepHistory
<1>8. ASSUME NEW c \in Calls, A!RenewSession(c) PROVE A!TypeOK'
  <2>1. subject[c] \in A!Known /\ proof[c] \in A!Known
    BY <1>8, SubjectKnown DEF A!OpenSession, A!RenewSession
  <2>2. [by |-> c, account |-> subject[c], password |-> proof[c]]
          \in [by : A!Known, account : A!Known, password : A!Known]
    BY <2>1
  <2> QED
    BY <1>8, <2>2 DEF A!OpenSession, A!RenewSession, A!CreateSession, A!Goto, A!KeepHistory
<1>9. ASSUME NEW c \in Calls, A!Evict(c) PROVE A!TypeOK'
  BY <1>9 DEF A!Evict, A!DeleteSessions, A!SessionsOf, A!Goto, A!KeepHistory
<1>10. ASSUME NEW c \in Calls, A!BeginRegister(c) PROVE A!TypeOK'
  BY <1>10
     DEF A!BeginRegister, A!Admins, A!SessionsOf, A!SignedIn, A!ActOn, A!Goto,
         A!KeepHistory
<1>11. ASSUME NEW c \in Calls, A!Register(c) PROVE A!TypeOK'
  BY <1>11, RegisterRow DEF A!Register, A!Goto, A!KeepHistory
<1>12. ASSUME NEW c \in Calls, A!BeginDelete(c) PROVE A!TypeOK'
  BY <1>12 DEF A!BeginDelete, A!Admins, A!SessionsOf, A!ActOn, A!Goto, A!KeepHistory
<1>13. ASSUME NEW c \in Calls, A!DeleteAccount(c) PROVE A!TypeOK'
  BY <1>13, DeleteRow DEF A!DeleteAccount, A!Underway, A!Goto, A!KeepHistory
<1>14. ASSUME NEW c \in Calls, A!DeleteMisses(c) PROVE A!TypeOK'
  BY <1>14 DEF A!DeleteMisses, A!Goto, A!KeepHistory
<1>15. ASSUME NEW c \in Calls, A!SeverSessions(c) PROVE A!TypeOK'
  BY <1>15 DEF A!SeverSessions, A!DeleteSessions, A!SessionsOf, A!Goto, A!KeepHistory
<1>16. ASSUME NEW c \in Calls, A!BeginToken(c) PROVE A!TypeOK'
  BY <1>16 DEF A!BeginToken, A!SignedIn, A!ActOn, A!Goto, A!KeepHistory
<1>17. ASSUME NEW c \in Calls, A!CreateToken(c) PROVE A!TypeOK'
  <2>1. subject[c] \in A!Known
    BY <1>17, SubjectKnown DEF A!CreateToken
  <2>2. \A value \in {c, User} : [by |-> c, account |-> subject[c], value |-> value]
          \in [by : Calls, account : A!Known, value : A!Known]
    BY <2>1
  <2>3. tokens' \in SUBSET [by : Calls, account : A!Known, value : A!Known]
    BY <1>17, <2>2 DEF A!CreateToken
  <2>4. at' \in [Calls -> {"idle"} \cup A!Reading \cup A!Writing \cup A!Answers]
    BY <1>17 DEF A!CreateToken, A!Goto
  <2> QED
    BY <1>17, <2>3, <2>4 DEF A!CreateToken, A!KeepHistory
<1>18. ASSUME NEW c \in Calls, A!DeleteToken(c) PROVE A!TypeOK'
  <2>1. subject[c] \in A!Known
    BY <1>18, SubjectKnown DEF A!DeleteToken
  <2>2. PICK id \in Calls :
          LET gone == {t \in tokens : t.by = id /\ t.account = subject[c]} IN
          /\ tokens' = tokens \ gone
          /\ revoked' = revoked \cup {<<id, subject[c]>>}
          /\ A!Goto(c, IF gone = {} THEN "not_found" ELSE "revoked")
    BY <1>18 DEF A!DeleteToken
  <2>3. revoked' \in SUBSET (Calls \X A!Known)
    BY <2>1, <2>2
  <2>4. at' \in [Calls -> {"idle"} \cup A!Reading \cup A!Writing \cup A!Answers]
    BY <2>2 DEF A!Goto
  <2> QED
    BY <1>18, <2>2, <2>3, <2>4 DEF A!DeleteToken
<1>19. ASSUME NEW c \in Calls, A!StatementFails(c) PROVE A!TypeOK'
  BY <1>19 DEF A!StatementFails, A!Goto, A!KeepHistory
<1>20. CASE A!EndSession
  BY <1>20 DEF A!EndSession, A!KeepHistory
<1>21. CASE A!Restart
  BY <1>21 DEF A!Restart, A!Reading, A!Writing, A!KeepHistory
<1>22. CASE UNCHANGED A!vars
  BY <1>22 DEF A!vars
<1> QED
  BY <1>1, <1>2, <1>3, <1>4, <1>5, <1>6, <1>7, <1>8, <1>9, <1>10, <1>11, <1>12,
     <1>13, <1>14, <1>15, <1>16, <1>17, <1>18, <1>19, <1>20, <1>21, <1>22
  DEF A!Next, A!Request, A!ChangePassword, A!ManageAccounts, A!ManageTokens

(* A request acts for one account, and an answer is final.                 *)
Lasting(d) ==
  /\ at[d] # "idle" => subject'[d] = subject[d]
  /\ at[d] \in A!Answers => at'[d] = at[d]

(* No step moves a request that was answered.                              *)
LEMMA AnswersLast ==
  A!TypeOK /\ AccountsBorn /\ [A!Next]_(A!vars) => \A d \in Calls : Lasting(d)
<1> SUFFICES ASSUME A!TypeOK, AccountsBorn, [A!Next]_(A!vars), NEW d \in Calls PROVE Lasting(d)
  OBVIOUS
<1> USE DEF A!TypeOK, Lasting, A!Reading, A!Writing, A!Answers
<1>1. ASSUME NEW c \in Calls, A!Login(c) PROVE Lasting(d)
  BY <1>1 DEF A!Login, A!ActOn, A!Show, A!Goto, A!KeepHistory
<1>2. ASSUME NEW c \in Calls, A!OpenSession(c) PROVE Lasting(d)
  BY <1>2 DEF A!OpenSession, A!CreateSession, A!Goto, A!KeepHistory
<1>3. ASSUME NEW c \in Calls, A!BeginChange(c) PROVE Lasting(d)
  BY <1>3 DEF A!BeginChange, A!SignedIn, A!ActOn, A!Goto, A!KeepHistory
<1>4. ASSUME NEW c \in Calls, A!ReadAccount(c) PROVE Lasting(d)
  BY <1>4 DEF A!ReadAccount, A!Goto, A!KeepHistory
<1>5. ASSUME NEW c \in Calls, A!UpdatePassword(c) PROVE Lasting(d)
  BY <1>5 DEF A!UpdatePassword, A!Show, A!Goto, A!KeepHistory
<1>6. ASSUME NEW c \in Calls, A!UpdateMisses(c) PROVE Lasting(d)
  BY <1>6 DEF A!UpdateMisses, A!Goto, A!KeepHistory
<1>7. ASSUME NEW c \in Calls, A!RotateSessions(c) PROVE Lasting(d)
  BY <1>7 DEF A!RotateSessions, A!DeleteSessions, A!SessionsOf, A!Goto, A!KeepHistory
<1>8. ASSUME NEW c \in Calls, A!RenewSession(c) PROVE Lasting(d)
  BY <1>8 DEF A!RenewSession, A!CreateSession, A!Goto, A!KeepHistory
<1>9. ASSUME NEW c \in Calls, A!Evict(c) PROVE Lasting(d)
  BY <1>9 DEF A!Evict, A!DeleteSessions, A!SessionsOf, A!Goto, A!KeepHistory
<1>10. ASSUME NEW c \in Calls, A!BeginRegister(c) PROVE Lasting(d)
  BY <1>10
     DEF A!BeginRegister, A!Admins, A!SessionsOf, A!SignedIn, A!ActOn, A!Goto,
         A!KeepHistory
<1>11. ASSUME NEW c \in Calls, A!Register(c) PROVE Lasting(d)
  BY <1>11, RegisterRow DEF A!Register, A!Goto, A!KeepHistory
<1>12. ASSUME NEW c \in Calls, A!BeginDelete(c) PROVE Lasting(d)
  BY <1>12 DEF A!BeginDelete, A!Admins, A!SessionsOf, A!ActOn, A!Goto, A!KeepHistory
<1>13. ASSUME NEW c \in Calls, A!DeleteAccount(c) PROVE Lasting(d)
  BY <1>13 DEF A!DeleteAccount, A!Goto, A!KeepHistory
<1>14. ASSUME NEW c \in Calls, A!DeleteMisses(c) PROVE Lasting(d)
  BY <1>14 DEF A!DeleteMisses, A!Goto, A!KeepHistory
<1>15. ASSUME NEW c \in Calls, A!SeverSessions(c) PROVE Lasting(d)
  BY <1>15 DEF A!SeverSessions, A!DeleteSessions, A!SessionsOf, A!Goto, A!KeepHistory
<1>16. ASSUME NEW c \in Calls, A!BeginToken(c) PROVE Lasting(d)
  BY <1>16 DEF A!BeginToken, A!SignedIn, A!ActOn, A!Goto, A!KeepHistory
<1>17. ASSUME NEW c \in Calls, A!CreateToken(c) PROVE Lasting(d)
  BY <1>17 DEF A!CreateToken, A!Goto, A!KeepHistory
<1>18. ASSUME NEW c \in Calls, A!DeleteToken(c) PROVE Lasting(d)
  BY <1>18 DEF A!DeleteToken, A!Goto, A!KeepHistory
<1>19. ASSUME NEW c \in Calls, A!StatementFails(c) PROVE Lasting(d)
  BY <1>19 DEF A!StatementFails, A!Goto, A!KeepHistory
<1>20. CASE A!EndSession
  BY <1>20 DEF A!EndSession, A!KeepHistory
<1>21. CASE A!Restart
  BY <1>21 DEF A!Restart, A!Reading, A!Writing, A!KeepHistory
<1>22. CASE UNCHANGED A!vars
  BY <1>22 DEF A!vars
<1> QED
  BY <1>1, <1>2, <1>3, <1>4, <1>5, <1>6, <1>7, <1>8, <1>9, <1>10, <1>11, <1>12,
     <1>13, <1>14, <1>15, <1>16, <1>17, <1>18, <1>19, <1>20, <1>21, <1>22
  DEF A!Next, A!Request, A!ChangePassword, A!ManageAccounts, A!ManageTokens

(* Who writes the rows of the accounts.                                    *)
LEMMA RowWriters ==
  ASSUME [A!Next]_(A!vars)
  PROVE  UNCHANGED accounts \/
           \E c \in Calls : A!UpdatePassword(c) \/ A!Register(c) \/ A!DeleteAccount(c)
<1> DEFINE Goal == UNCHANGED accounts \/
           \E c \in Calls : A!UpdatePassword(c) \/ A!Register(c) \/ A!DeleteAccount(c)
<1>1. ASSUME NEW c \in Calls, A!Login(c) PROVE Goal
  BY <1>1 DEF A!Login, A!ActOn, A!Show, A!Goto, A!KeepHistory
<1>2. ASSUME NEW c \in Calls, A!OpenSession(c) PROVE Goal
  BY <1>2 DEF A!OpenSession, A!CreateSession, A!Goto, A!KeepHistory
<1>3. ASSUME NEW c \in Calls, A!BeginChange(c) PROVE Goal
  BY <1>3 DEF A!BeginChange, A!SignedIn, A!ActOn, A!Goto, A!KeepHistory
<1>4. ASSUME NEW c \in Calls, A!ReadAccount(c) PROVE Goal
  BY <1>4 DEF A!ReadAccount, A!Goto, A!KeepHistory
<1>5. ASSUME NEW c \in Calls, A!UpdatePassword(c) PROVE Goal
  BY <1>5
<1>6. ASSUME NEW c \in Calls, A!UpdateMisses(c) PROVE Goal
  BY <1>6 DEF A!UpdateMisses, A!Goto, A!KeepHistory
<1>7. ASSUME NEW c \in Calls, A!RotateSessions(c) PROVE Goal
  BY <1>7 DEF A!RotateSessions, A!DeleteSessions, A!SessionsOf, A!Goto, A!KeepHistory
<1>8. ASSUME NEW c \in Calls, A!RenewSession(c) PROVE Goal
  BY <1>8 DEF A!RenewSession, A!CreateSession, A!Goto, A!KeepHistory
<1>9. ASSUME NEW c \in Calls, A!Evict(c) PROVE Goal
  BY <1>9 DEF A!Evict, A!DeleteSessions, A!SessionsOf, A!Goto, A!KeepHistory
<1>10. ASSUME NEW c \in Calls, A!BeginRegister(c) PROVE Goal
  BY <1>10
     DEF A!BeginRegister, A!Admins, A!SessionsOf, A!SignedIn, A!ActOn, A!Goto,
         A!KeepHistory
<1>11. ASSUME NEW c \in Calls, A!Register(c) PROVE Goal
  BY <1>11
<1>12. ASSUME NEW c \in Calls, A!BeginDelete(c) PROVE Goal
  BY <1>12 DEF A!BeginDelete, A!Admins, A!SessionsOf, A!ActOn, A!Goto, A!KeepHistory
<1>13. ASSUME NEW c \in Calls, A!DeleteAccount(c) PROVE Goal
  BY <1>13
<1>14. ASSUME NEW c \in Calls, A!DeleteMisses(c) PROVE Goal
  BY <1>14 DEF A!DeleteMisses, A!Goto, A!KeepHistory
<1>15. ASSUME NEW c \in Calls, A!SeverSessions(c) PROVE Goal
  BY <1>15 DEF A!SeverSessions, A!DeleteSessions, A!SessionsOf, A!Goto, A!KeepHistory
<1>16. ASSUME NEW c \in Calls, A!BeginToken(c) PROVE Goal
  BY <1>16 DEF A!BeginToken, A!SignedIn, A!ActOn, A!Goto, A!KeepHistory
<1>17. ASSUME NEW c \in Calls, A!CreateToken(c) PROVE Goal
  BY <1>17 DEF A!CreateToken, A!Goto, A!KeepHistory
<1>18. ASSUME NEW c \in Calls, A!DeleteToken(c) PROVE Goal
  BY <1>18 DEF A!DeleteToken, A!Goto, A!KeepHistory
<1>19. ASSUME NEW c \in Calls, A!StatementFails(c) PROVE Goal
  BY <1>19 DEF A!StatementFails, A!Goto, A!KeepHistory
<1>20. CASE A!EndSession
  BY <1>20 DEF A!EndSession, A!KeepHistory
<1>21. CASE A!Restart
  BY <1>21 DEF A!Restart, A!Reading, A!Writing, A!KeepHistory
<1>22. CASE UNCHANGED A!vars
  BY <1>22 DEF A!vars
<1> QED
  BY <1>1, <1>2, <1>3, <1>4, <1>5, <1>6, <1>7, <1>8, <1>9, <1>10, <1>11, <1>12,
     <1>13, <1>14, <1>15, <1>16, <1>17, <1>18, <1>19, <1>20, <1>21, <1>22
  DEF A!Next, A!Request, A!ChangePassword, A!ManageAccounts, A!ManageTokens

(* Who opens a session.                                                    *)
LEMMA SessionWriters ==
  ASSUME [A!Next]_(A!vars)
  PROVE  sessions' \subseteq sessions \/
           \E c \in Calls : A!OpenSession(c) \/ A!RenewSession(c)
<1> DEFINE Goal == sessions' \subseteq sessions \/
           \E c \in Calls : A!OpenSession(c) \/ A!RenewSession(c)
<1>1. ASSUME NEW c \in Calls, A!Login(c) PROVE Goal
  BY <1>1 DEF A!Login, A!ActOn, A!Show, A!Goto, A!KeepHistory
<1>2. ASSUME NEW c \in Calls, A!OpenSession(c) PROVE Goal
  BY <1>2
<1>3. ASSUME NEW c \in Calls, A!BeginChange(c) PROVE Goal
  BY <1>3 DEF A!BeginChange, A!SignedIn, A!ActOn, A!Goto, A!KeepHistory
<1>4. ASSUME NEW c \in Calls, A!ReadAccount(c) PROVE Goal
  BY <1>4 DEF A!ReadAccount, A!Goto, A!KeepHistory
<1>5. ASSUME NEW c \in Calls, A!UpdatePassword(c) PROVE Goal
  BY <1>5 DEF A!UpdatePassword, A!Show, A!Goto, A!KeepHistory
<1>6. ASSUME NEW c \in Calls, A!UpdateMisses(c) PROVE Goal
  BY <1>6 DEF A!UpdateMisses, A!Goto, A!KeepHistory
<1>7. ASSUME NEW c \in Calls, A!RotateSessions(c) PROVE Goal
  BY <1>7 DEF A!RotateSessions, A!DeleteSessions, A!SessionsOf, A!Goto, A!KeepHistory
<1>8. ASSUME NEW c \in Calls, A!RenewSession(c) PROVE Goal
  BY <1>8
<1>9. ASSUME NEW c \in Calls, A!Evict(c) PROVE Goal
  BY <1>9 DEF A!Evict, A!DeleteSessions, A!SessionsOf, A!Goto, A!KeepHistory
<1>10. ASSUME NEW c \in Calls, A!BeginRegister(c) PROVE Goal
  BY <1>10
     DEF A!BeginRegister, A!Admins, A!SessionsOf, A!SignedIn, A!ActOn, A!Goto,
         A!KeepHistory
<1>11. ASSUME NEW c \in Calls, A!Register(c) PROVE Goal
  BY <1>11 DEF A!Register, A!Goto, A!KeepHistory
<1>12. ASSUME NEW c \in Calls, A!BeginDelete(c) PROVE Goal
  BY <1>12 DEF A!BeginDelete, A!Admins, A!SessionsOf, A!ActOn, A!Goto, A!KeepHistory
<1>13. ASSUME NEW c \in Calls, A!DeleteAccount(c) PROVE Goal
  BY <1>13 DEF A!DeleteAccount, A!Goto, A!KeepHistory
<1>14. ASSUME NEW c \in Calls, A!DeleteMisses(c) PROVE Goal
  BY <1>14 DEF A!DeleteMisses, A!Goto, A!KeepHistory
<1>15. ASSUME NEW c \in Calls, A!SeverSessions(c) PROVE Goal
  BY <1>15 DEF A!SeverSessions, A!DeleteSessions, A!SessionsOf, A!Goto, A!KeepHistory
<1>16. ASSUME NEW c \in Calls, A!BeginToken(c) PROVE Goal
  BY <1>16 DEF A!BeginToken, A!SignedIn, A!ActOn, A!Goto, A!KeepHistory
<1>17. ASSUME NEW c \in Calls, A!CreateToken(c) PROVE Goal
  BY <1>17 DEF A!CreateToken, A!Goto, A!KeepHistory
<1>18. ASSUME NEW c \in Calls, A!DeleteToken(c) PROVE Goal
  BY <1>18 DEF A!DeleteToken, A!Goto, A!KeepHistory
<1>19. ASSUME NEW c \in Calls, A!StatementFails(c) PROVE Goal
  BY <1>19 DEF A!StatementFails, A!Goto, A!KeepHistory
<1>20. CASE A!EndSession
  BY <1>20 DEF A!EndSession, A!KeepHistory
<1>21. CASE A!Restart
  BY <1>21 DEF A!Restart, A!Reading, A!Writing, A!KeepHistory
<1>22. CASE UNCHANGED A!vars
  BY <1>22 DEF A!vars
<1> QED
  BY <1>1, <1>2, <1>3, <1>4, <1>5, <1>6, <1>7, <1>8, <1>9, <1>10, <1>11, <1>12,
     <1>13, <1>14, <1>15, <1>16, <1>17, <1>18, <1>19, <1>20, <1>21, <1>22
  DEF A!Next, A!Request, A!ChangePassword, A!ManageAccounts, A!ManageTokens

(* Who writes the rows of the tokens.                                      *)
LEMMA TokenWriters ==
  ASSUME [A!Next]_(A!vars)
  PROVE  UNCHANGED <<tokens, revoked>> \/
           \E c \in Calls : A!CreateToken(c) \/ A!DeleteToken(c) \/ A!DeleteAccount(c)
<1> DEFINE Goal == UNCHANGED <<tokens, revoked>> \/
           \E c \in Calls : A!CreateToken(c) \/ A!DeleteToken(c) \/ A!DeleteAccount(c)
<1>1. ASSUME NEW c \in Calls, A!Login(c) PROVE Goal
  BY <1>1 DEF A!Login, A!ActOn, A!Show, A!Goto, A!KeepHistory
<1>2. ASSUME NEW c \in Calls, A!OpenSession(c) PROVE Goal
  BY <1>2 DEF A!OpenSession, A!CreateSession, A!Goto, A!KeepHistory
<1>3. ASSUME NEW c \in Calls, A!BeginChange(c) PROVE Goal
  BY <1>3 DEF A!BeginChange, A!SignedIn, A!ActOn, A!Goto, A!KeepHistory
<1>4. ASSUME NEW c \in Calls, A!ReadAccount(c) PROVE Goal
  BY <1>4 DEF A!ReadAccount, A!Goto, A!KeepHistory
<1>5. ASSUME NEW c \in Calls, A!UpdatePassword(c) PROVE Goal
  BY <1>5 DEF A!UpdatePassword, A!Show, A!Goto, A!KeepHistory
<1>6. ASSUME NEW c \in Calls, A!UpdateMisses(c) PROVE Goal
  BY <1>6 DEF A!UpdateMisses, A!Goto, A!KeepHistory
<1>7. ASSUME NEW c \in Calls, A!RotateSessions(c) PROVE Goal
  BY <1>7 DEF A!RotateSessions, A!DeleteSessions, A!SessionsOf, A!Goto, A!KeepHistory
<1>8. ASSUME NEW c \in Calls, A!RenewSession(c) PROVE Goal
  BY <1>8 DEF A!RenewSession, A!CreateSession, A!Goto, A!KeepHistory
<1>9. ASSUME NEW c \in Calls, A!Evict(c) PROVE Goal
  BY <1>9 DEF A!Evict, A!DeleteSessions, A!SessionsOf, A!Goto, A!KeepHistory
<1>10. ASSUME NEW c \in Calls, A!BeginRegister(c) PROVE Goal
  BY <1>10
     DEF A!BeginRegister, A!Admins, A!SessionsOf, A!SignedIn, A!ActOn, A!Goto,
         A!KeepHistory
<1>11. ASSUME NEW c \in Calls, A!Register(c) PROVE Goal
  BY <1>11 DEF A!Register, A!Goto, A!KeepHistory
<1>12. ASSUME NEW c \in Calls, A!BeginDelete(c) PROVE Goal
  BY <1>12 DEF A!BeginDelete, A!Admins, A!SessionsOf, A!ActOn, A!Goto, A!KeepHistory
<1>13. ASSUME NEW c \in Calls, A!DeleteAccount(c) PROVE Goal
  BY <1>13
<1>14. ASSUME NEW c \in Calls, A!DeleteMisses(c) PROVE Goal
  BY <1>14 DEF A!DeleteMisses, A!Goto, A!KeepHistory
<1>15. ASSUME NEW c \in Calls, A!SeverSessions(c) PROVE Goal
  BY <1>15 DEF A!SeverSessions, A!DeleteSessions, A!SessionsOf, A!Goto, A!KeepHistory
<1>16. ASSUME NEW c \in Calls, A!BeginToken(c) PROVE Goal
  BY <1>16 DEF A!BeginToken, A!SignedIn, A!ActOn, A!Goto, A!KeepHistory
<1>17. ASSUME NEW c \in Calls, A!CreateToken(c) PROVE Goal
  BY <1>17
<1>18. ASSUME NEW c \in Calls, A!DeleteToken(c) PROVE Goal
  BY <1>18
<1>19. ASSUME NEW c \in Calls, A!StatementFails(c) PROVE Goal
  BY <1>19 DEF A!StatementFails, A!Goto, A!KeepHistory
<1>20. CASE A!EndSession
  BY <1>20 DEF A!EndSession, A!KeepHistory
<1>21. CASE A!Restart
  BY <1>21 DEF A!Restart, A!Reading, A!Writing, A!KeepHistory
<1>22. CASE UNCHANGED A!vars
  BY <1>22 DEF A!vars
<1> QED
  BY <1>1, <1>2, <1>3, <1>4, <1>5, <1>6, <1>7, <1>8, <1>9, <1>10, <1>11, <1>12,
     <1>13, <1>14, <1>15, <1>16, <1>17, <1>18, <1>19, <1>20, <1>21, <1>22
  DEF A!Next, A!Request, A!ChangePassword, A!ManageAccounts, A!ManageTokens

(* Rows, sessions and requests are of accounts that were registered.       *)
LEMMA StillRegistered ==
  ASSUME A!TypeOK, AccountsBorn, [A!Next]_(A!vars), NEW a, Registered(a)
  PROVE  Registered(a)'
BY AnswersLast DEF Registered, Lasting, A!Answers

RowsBorn ==
  /\ accounts \in [DOMAIN accounts -> [name : A!Names, password : A!Known]]
  /\ \A a \in DOMAIN accounts : Registered(a)

LEMMA RowsBornStep == A!TypeOK /\ AccountsBorn /\ [A!Next]_(A!vars) => RowsBorn'
<1> SUFFICES ASSUME A!TypeOK, AccountsBorn, [A!Next]_(A!vars) PROVE RowsBorn'
  OBVIOUS
<1> USE DEF RowsBorn
<1>1. \A a : Registered(a) => Registered(a)'
  BY StillRegistered
<1>2. CASE UNCHANGED accounts
  BY <1>1, <1>2 DEF AccountsBorn
<1>3. ASSUME NEW c \in Calls, A!UpdatePassword(c) PROVE RowsBorn'
  BY <1>1, <1>3, UpdateRow DEF AccountsBorn
<1>4. ASSUME NEW c \in Calls, A!Register(c) PROVE RowsBorn'
  <2>1. CASE accounts' = accounts
    BY <1>1, <2>1 DEF AccountsBorn
  <2>2. CASE accounts' # accounts
    <3>1. A!Goto(c, "registered")
      BY <1>4, <2>2, RegisterRow
    <3>2. Registered(c)'
      BY <3>1 DEF A!Goto, A!TypeOK, Registered
    <3> QED
      BY <1>1, <1>4, <2>2, <3>2, RegisterRow DEF AccountsBorn
  <2> QED
    BY <2>1, <2>2
<1>5. ASSUME NEW c \in Calls, A!DeleteAccount(c) PROVE RowsBorn'
  BY <1>1, <1>5, DeleteRow DEF AccountsBorn
<1> QED
  BY <1>2, <1>3, <1>4, <1>5, RowWriters

(* A session is opened for the subject of a request.                       *)
LEMMA SessionsBornStep ==
  A!TypeOK /\ AccountsBorn /\ [A!Next]_(A!vars) => \A s \in sessions' : Registered(s.account)'
<1> SUFFICES ASSUME A!TypeOK, AccountsBorn, [A!Next]_(A!vars), NEW s \in sessions'
             PROVE  Registered(s.account)'
  OBVIOUS
<1>1. CASE s \in sessions
  BY <1>1, StillRegistered DEF AccountsBorn
<1>2. ASSUME NEW c \in Calls, A!OpenSession(c) \/ A!RenewSession(c) PROVE Registered(s.account)'
  <2>1. s \in sessions \/ s.account = subject[c]
    BY <1>2 DEF A!OpenSession, A!RenewSession, A!CreateSession
  <2> QED
    BY <1>1, <2>1, StillRegistered DEF AccountsBorn
<1> QED
  BY <1>1, <1>2, SessionWriters

RequestsBorn(c) ==
  /\ Registered(subject[c])
  /\ at[c] \notin {"idle", "denied"} => subject[c] # NoAccount
  /\ at[c] \in {"opening", "rotating", "renewing"} => proof[c] # NoAccount

(* A request takes its subject from a session, a row or the list of        *)
(* accounts.                                                               *)
LEMMA RequestsBornStep ==
  A!TypeOK /\ AccountsBorn /\ [A!Next]_(A!vars) => \A d \in Calls : RequestsBorn(d)'
<1> SUFFICES ASSUME A!TypeOK, AccountsBorn, [A!Next]_(A!vars), NEW d \in Calls
             PROVE  RequestsBorn(d)'
  OBVIOUS
<1>a. \A a : Registered(a) => Registered(a)'
  BY StillRegistered
<1>b. RequestsBorn(d)
  BY DEF AccountsBorn, RequestsBorn
<1>c. \A s \in sessions : s.account # NoAccount /\ Registered(s.account)
  BY CallsAssumption DEF A!TypeOK, A!Known, AccountsBorn
<1>d. \A a \in DOMAIN accounts : a # NoAccount /\ accounts[a].password # NoAccount /\ Registered(a)
  BY CallsAssumption DEF A!TypeOK, A!Known, AccountsBorn
<1>e. NoAccount \notin Calls /\ User # NoAccount
  BY CallsAssumption
<1>f. at \in [Calls -> {"idle"} \cup A!Reading \cup A!Writing \cup A!Answers]
      /\ subject \in [Calls -> A!Known \cup {NoAccount}]
      /\ proof \in [Calls -> A!Known \cup {NoAccount}]
  BY DEF A!TypeOK
<1> HIDE DEF Registered
<1>1. ASSUME NEW c \in Calls, A!Login(c) PROVE RequestsBorn(d)'
  BY <1>1, <1>a, <1>b, <1>c, <1>d, <1>e, <1>f
     DEF A!Login, A!ActOn, A!Show, A!Goto, A!KeepHistory, RequestsBorn
<1>2. ASSUME NEW c \in Calls, A!OpenSession(c) PROVE RequestsBorn(d)'
  BY <1>2, <1>a, <1>b, <1>c, <1>d, <1>e, <1>f
     DEF A!OpenSession, A!CreateSession, A!Goto, A!KeepHistory, RequestsBorn
<1>3. ASSUME NEW c \in Calls, A!BeginChange(c) PROVE RequestsBorn(d)'
  BY <1>3, <1>a, <1>b, <1>c, <1>d, <1>e, <1>f
     DEF A!BeginChange, A!SignedIn, A!ActOn, A!Goto, A!KeepHistory, RequestsBorn
<1>4. ASSUME NEW c \in Calls, A!ReadAccount(c) PROVE RequestsBorn(d)'
  BY <1>4, <1>a, <1>b, <1>c, <1>d, <1>e, <1>f
     DEF A!ReadAccount, A!Goto, A!KeepHistory, RequestsBorn
<1>5. ASSUME NEW c \in Calls, A!UpdatePassword(c) PROVE RequestsBorn(d)'
  BY <1>5, <1>a, <1>b, <1>c, <1>d, <1>e, <1>f
     DEF A!UpdatePassword, A!Show, A!Goto, A!KeepHistory, RequestsBorn
<1>6. ASSUME NEW c \in Calls, A!UpdateMisses(c) PROVE RequestsBorn(d)'
  BY <1>6, <1>a, <1>b, <1>c, <1>d, <1>e, <1>f
     DEF A!UpdateMisses, A!Goto, A!KeepHistory, RequestsBorn
<1>7. ASSUME NEW c \in Calls, A!RotateSessions(c) PROVE RequestsBorn(d)'
  BY <1>7, <1>a, <1>b, <1>c, <1>d, <1>e, <1>f
     DEF A!RotateSessions, A!DeleteSessions, A!SessionsOf, A!Goto, A!KeepHistory,
         RequestsBorn
<1>8. ASSUME NEW c \in Calls, A!RenewSession(c) PROVE RequestsBorn(d)'
  BY <1>8, <1>a, <1>b, <1>c, <1>d, <1>e, <1>f
     DEF A!RenewSession, A!CreateSession, A!Goto, A!KeepHistory, RequestsBorn
<1>9. ASSUME NEW c \in Calls, A!Evict(c) PROVE RequestsBorn(d)'
  BY <1>9, <1>a, <1>b, <1>c, <1>d, <1>e, <1>f
     DEF A!Evict, A!DeleteSessions, A!SessionsOf, A!Goto, A!KeepHistory, RequestsBorn
<1>10. ASSUME NEW c \in Calls, A!BeginRegister(c) PROVE RequestsBorn(d)'
  BY <1>10, <1>a, <1>b, <1>c, <1>d, <1>e, <1>f
     DEF A!BeginRegister, A!Admins, A!SessionsOf, A!SignedIn, A!ActOn, A!Goto,
         A!KeepHistory, RequestsBorn
<1>11. ASSUME NEW c \in Calls, A!Register(c) PROVE RequestsBorn(d)'
  BY <1>11, <1>a, <1>b, <1>f DEF A!Register, A!Goto, RequestsBorn
<1>12. ASSUME NEW c \in Calls, A!BeginDelete(c) PROVE RequestsBorn(d)'
  <2>1. PICK a \in A!Known \ {c} :
          (a = User \/ (a \in Calls /\ at[a] = "registered")) /\ A!ActOn(c, a)
    BY <1>12 DEF A!BeginDelete
  <2>2. Registered(a) /\ a # NoAccount
    BY <2>1, CallsAssumption DEF Registered
  <2>3. subject' = [subject EXCEPT ![c] = a] /\ at' = [at EXCEPT ![c] = "deleting"] /\ proof' = proof
    BY <1>12, <2>1 DEF A!BeginDelete, A!ActOn, A!Goto
  <2> QED
    BY <1>a, <1>b, <1>f, <2>2, <2>3 DEF RequestsBorn
<1>13. ASSUME NEW c \in Calls, A!DeleteAccount(c) PROVE RequestsBorn(d)'
  BY <1>13, <1>a, <1>b, <1>c, <1>d, <1>e, <1>f
     DEF A!DeleteAccount, A!Goto, A!KeepHistory, RequestsBorn
<1>14. ASSUME NEW c \in Calls, A!DeleteMisses(c) PROVE RequestsBorn(d)'
  BY <1>14, <1>a, <1>b, <1>c, <1>d, <1>e, <1>f
     DEF A!DeleteMisses, A!Goto, A!KeepHistory, RequestsBorn
<1>15. ASSUME NEW c \in Calls, A!SeverSessions(c) PROVE RequestsBorn(d)'
  BY <1>15, <1>a, <1>b, <1>c, <1>d, <1>e, <1>f
     DEF A!SeverSessions, A!DeleteSessions, A!SessionsOf, A!Goto, A!KeepHistory,
         RequestsBorn
<1>16. ASSUME NEW c \in Calls, A!BeginToken(c) PROVE RequestsBorn(d)'
  BY <1>16, <1>a, <1>b, <1>c, <1>d, <1>e, <1>f
     DEF A!BeginToken, A!SignedIn, A!ActOn, A!Goto, A!KeepHistory, RequestsBorn
<1>17. ASSUME NEW c \in Calls, A!CreateToken(c) PROVE RequestsBorn(d)'
  BY <1>17, <1>a, <1>b, <1>c, <1>d, <1>e, <1>f
     DEF A!CreateToken, A!Goto, A!KeepHistory, RequestsBorn
<1>18. ASSUME NEW c \in Calls, A!DeleteToken(c) PROVE RequestsBorn(d)'
  BY <1>18, <1>a, <1>b, <1>c, <1>d, <1>e, <1>f
     DEF A!DeleteToken, A!Goto, A!KeepHistory, RequestsBorn
<1>19. ASSUME NEW c \in Calls, A!StatementFails(c) PROVE RequestsBorn(d)'
  BY <1>19, <1>a, <1>b, <1>f DEF A!StatementFails, A!Goto, A!Reading, RequestsBorn
<1>20. CASE A!EndSession
  BY <1>20, <1>a, <1>b, <1>c, <1>d, <1>e, <1>f DEF A!EndSession, A!KeepHistory, RequestsBorn
<1>21. CASE A!Restart
  BY <1>21, <1>a, <1>b, <1>c, <1>d, <1>e, <1>f
     DEF A!Restart, A!Reading, A!Writing, A!KeepHistory, RequestsBorn
<1>22. CASE UNCHANGED A!vars
  BY <1>22, <1>a, <1>b, <1>c, <1>d, <1>e, <1>f DEF A!vars, RequestsBorn
<1> QED
  BY <1>1, <1>2, <1>3, <1>4, <1>5, <1>6, <1>7, <1>8, <1>9, <1>10, <1>11, <1>12,
     <1>13, <1>14, <1>15, <1>16, <1>17, <1>18, <1>19, <1>20, <1>21, <1>22
  DEF A!Next, A!Request, A!ChangePassword, A!ManageAccounts, A!ManageTokens

(* Together: AccountsBorn is kept.                                         *)
LEMMA BornStep == A!TypeOK /\ AccountsBorn /\ [A!Next]_(A!vars) => AccountsBorn'
BY RowsBornStep, SessionsBornStep, RequestsBornStep DEF AccountsBorn, RowsBorn, RequestsBorn

(* What a request proved is current, unless it was overtaken.              *)
ProofCurrent(d) ==
  at[d] \in {"opening", "rotating", "renewing"} =>
    \/ A!Exists(subject[d]) /\ accounts[subject[d]].password = proof[d]
    \/ d \in overtaken

(* A request that registers an account is not an account yet.              *)
LEMMA NewRow ==
  ASSUME A!TypeOK, AccountsBorn, NEW c \in Calls, A!Register(c)
  PROVE  \A a \in DOMAIN accounts : a # c /\ a \in DOMAIN accounts' /\ accounts'[a] = accounts[a]
<1>1. c \notin DOMAIN accounts
  BY DEF A!Register, AccountsBorn, Registered
<1> QED
  BY <1>1, RegisterRow

(* A change or deletion puts every request under way for the account among *)
(* the overtaken ones.                                                     *)
LEMMA ProofsStep ==
  A!TypeOK /\ AccountsBorn /\ ProofsCurrent /\ [A!Next]_(A!vars) => ProofsCurrent'
<1> SUFFICES ASSUME A!TypeOK, AccountsBorn, ProofsCurrent, [A!Next]_(A!vars), NEW d \in Calls
             PROVE  ProofCurrent(d)'
  BY DEF ProofsCurrent, ProofCurrent
<1>a. ProofCurrent(d)
  BY DEF ProofsCurrent, ProofCurrent
<1>b. at \in [Calls -> {"idle"} \cup A!Reading \cup A!Writing \cup A!Answers]
      /\ subject \in [Calls -> A!Known \cup {NoAccount}]
      /\ proof \in [Calls -> A!Known \cup {NoAccount}]
  BY DEF A!TypeOK
<1>1. ASSUME NEW c \in Calls, A!Login(c) PROVE ProofCurrent(d)'
  BY <1>1, <1>a, <1>b
     DEF A!Login, A!ActOn, A!Show, A!Goto, A!KeepHistory, A!Exists, ProofCurrent
<1>2. ASSUME NEW c \in Calls, A!OpenSession(c) PROVE ProofCurrent(d)'
  BY <1>2, <1>a, <1>b
     DEF A!OpenSession, A!CreateSession, A!Goto, A!KeepHistory, A!Exists, ProofCurrent
<1>3. ASSUME NEW c \in Calls, A!BeginChange(c) PROVE ProofCurrent(d)'
  BY <1>3, <1>a, <1>b
     DEF A!BeginChange, A!SignedIn, A!ActOn, A!Goto, A!KeepHistory, A!Exists, ProofCurrent
<1>4. ASSUME NEW c \in Calls, A!ReadAccount(c) PROVE ProofCurrent(d)'
  BY <1>4, <1>a, <1>b DEF A!ReadAccount, A!Goto, A!KeepHistory, A!Exists, ProofCurrent
<1>5. ASSUME NEW c \in Calls, A!UpdatePassword(c) PROVE ProofCurrent(d)'
  <2>1. /\ subject[c] \in DOMAIN accounts' /\ accounts'[subject[c]].password = c
        /\ \A a \in DOMAIN accounts : a # subject[c] => a \in DOMAIN accounts' /\ accounts'[a] = accounts[a]
    BY <1>5, UpdateRow
  <2>2. CASE d = c
    BY <1>5, <1>b, <2>1, <2>2 DEF A!UpdatePassword, A!Show, A!Goto, A!Exists, ProofCurrent
  <2>3. CASE d # c /\ subject[d] = subject[c]
    BY <1>5, <1>a, <1>b, <2>3 DEF A!UpdatePassword, A!Underway, A!Show, A!Goto, ProofCurrent
  <2>4. CASE d # c /\ subject[d] # subject[c]
    BY <1>5, <1>a, <1>b, <2>1, <2>4 DEF A!UpdatePassword, A!Show, A!Goto, A!Exists, ProofCurrent
  <2> QED
    BY <2>2, <2>3, <2>4
<1>6. ASSUME NEW c \in Calls, A!UpdateMisses(c) PROVE ProofCurrent(d)'
  BY <1>6, <1>a, <1>b DEF A!UpdateMisses, A!Goto, A!KeepHistory, A!Exists, ProofCurrent
<1>7. ASSUME NEW c \in Calls, A!RotateSessions(c) PROVE ProofCurrent(d)'
  BY <1>7, <1>a, <1>b
     DEF A!RotateSessions, A!DeleteSessions, A!SessionsOf, A!Goto, A!KeepHistory,
         A!Exists, ProofCurrent
<1>8. ASSUME NEW c \in Calls, A!RenewSession(c) PROVE ProofCurrent(d)'
  BY <1>8, <1>a, <1>b
     DEF A!RenewSession, A!CreateSession, A!Goto, A!KeepHistory, A!Exists, ProofCurrent
<1>9. ASSUME NEW c \in Calls, A!Evict(c) PROVE ProofCurrent(d)'
  BY <1>9, <1>a, <1>b
     DEF A!Evict, A!DeleteSessions, A!SessionsOf, A!Goto, A!KeepHistory, A!Exists,
         ProofCurrent
<1>10. ASSUME NEW c \in Calls, A!BeginRegister(c) PROVE ProofCurrent(d)'
  BY <1>10, <1>a, <1>b
     DEF A!BeginRegister, A!Admins, A!SessionsOf, A!SignedIn, A!ActOn, A!Goto,
         A!KeepHistory, A!Exists, ProofCurrent
<1>11. ASSUME NEW c \in Calls, A!Register(c) PROVE ProofCurrent(d)'
  <2>1. \A a \in DOMAIN accounts : a \in DOMAIN accounts' /\ accounts'[a] = accounts[a]
    BY <1>11, NewRow
  <2>2. at' = [at EXCEPT ![c] = "refused"] \/ at' = [at EXCEPT ![c] = "registered"]
    BY <1>11 DEF A!Register, A!Goto
  <2> QED
    BY <1>11, <1>a, <1>b, <2>1, <2>2 DEF A!Register, A!KeepHistory, A!Exists, ProofCurrent
<1>12. ASSUME NEW c \in Calls, A!BeginDelete(c) PROVE ProofCurrent(d)'
  BY <1>12, <1>a, <1>b
     DEF A!BeginDelete, A!Admins, A!SessionsOf, A!ActOn, A!Goto, A!KeepHistory, A!Exists,
         ProofCurrent
<1>13. ASSUME NEW c \in Calls, A!DeleteAccount(c) PROVE ProofCurrent(d)'
  <2>1. \A a \in DOMAIN accounts : a # subject[c] => a \in DOMAIN accounts' /\ accounts'[a] = accounts[a]
    BY <1>13, DeleteRow
  <2>2. CASE subject[d] = subject[c]
    BY <1>13, <1>a, <1>b, <2>2 DEF A!DeleteAccount, A!Underway, A!Goto, ProofCurrent
  <2>3. CASE subject[d] # subject[c]
    BY <1>13, <1>a, <1>b, <2>1, <2>3 DEF A!DeleteAccount, A!Goto, A!Exists, ProofCurrent
  <2> QED
    BY <2>2, <2>3
<1>14. ASSUME NEW c \in Calls, A!DeleteMisses(c) PROVE ProofCurrent(d)'
  BY <1>14, <1>a, <1>b DEF A!DeleteMisses, A!Goto, A!KeepHistory, A!Exists, ProofCurrent
<1>15. ASSUME NEW c \in Calls, A!SeverSessions(c) PROVE ProofCurrent(d)'
  BY <1>15, <1>a, <1>b
     DEF A!SeverSessions, A!DeleteSessions, A!SessionsOf, A!Goto, A!KeepHistory, A!Exists,
         ProofCurrent
<1>16. ASSUME NEW c \in Calls, A!BeginToken(c) PROVE ProofCurrent(d)'
  BY <1>16, <1>a, <1>b
     DEF A!BeginToken, A!SignedIn, A!ActOn, A!Goto, A!KeepHistory, A!Exists, ProofCurrent
<1>17. ASSUME NEW c \in Calls, A!CreateToken(c) PROVE ProofCurrent(d)'
  BY <1>17, <1>a, <1>b DEF A!CreateToken, A!Goto, A!KeepHistory, A!Exists, ProofCurrent
<1>18. ASSUME NEW c \in Calls, A!DeleteToken(c) PROVE ProofCurrent(d)'
  BY <1>18, <1>a, <1>b DEF A!DeleteToken, A!Goto, A!KeepHistory, A!Exists, ProofCurrent
<1>19. ASSUME NEW c \in Calls, A!StatementFails(c) PROVE ProofCurrent(d)'
  BY <1>19, <1>a, <1>b DEF A!StatementFails, A!Goto, A!KeepHistory, A!Exists, ProofCurrent
<1>20. CASE A!EndSession
  BY <1>20, <1>a, <1>b DEF A!EndSession, A!KeepHistory, A!Exists, ProofCurrent
<1>21. CASE A!Restart
  BY <1>21, <1>a, <1>b
     DEF A!Restart, A!Reading, A!Writing, A!KeepHistory, A!Exists, ProofCurrent
<1>22. CASE UNCHANGED A!vars
  BY <1>22, <1>a, <1>b DEF A!vars, A!Exists, ProofCurrent
<1> QED
  BY <1>1, <1>2, <1>3, <1>4, <1>5, <1>6, <1>7, <1>8, <1>9, <1>10, <1>11, <1>12,
     <1>13, <1>14, <1>15, <1>16, <1>17, <1>18, <1>19, <1>20, <1>21, <1>22
  DEF A!Next, A!Request, A!ChangePassword, A!ManageAccounts, A!ManageTokens

(* A sweep that is owed is owed until it is done: it takes every session   *)
(* of the account out.                                                     *)
LEMMA CleaningStays ==
  ASSUME A!TypeOK, AccountsBorn, [A!Next]_(A!vars), NEW s \in sessions, s \in sessions',
         A!Cleaning(s.account)
  PROVE  A!Cleaning(s.account)'
<1> PICK d \in Calls : at[d] \in {"rotating", "severing"} /\ subject[d] = s.account
  BY DEF A!Cleaning
<1> SUFFICES at'[d] = at[d]
  BY AnswersLast DEF Lasting, A!Cleaning
<1>a. at \in [Calls -> {"idle"} \cup A!Reading \cup A!Writing \cup A!Answers]
  BY DEF A!TypeOK
<1>1. ASSUME NEW c \in Calls, A!Login(c) PROVE at'[d] = at[d]
  BY <1>1, <1>a DEF A!Login, A!ActOn, A!Show, A!Goto, A!KeepHistory
<1>2. ASSUME NEW c \in Calls, A!OpenSession(c) PROVE at'[d] = at[d]
  BY <1>2, <1>a DEF A!OpenSession, A!CreateSession, A!Goto, A!KeepHistory
<1>3. ASSUME NEW c \in Calls, A!BeginChange(c) PROVE at'[d] = at[d]
  BY <1>3, <1>a DEF A!BeginChange, A!SignedIn, A!ActOn, A!Goto, A!KeepHistory
<1>4. ASSUME NEW c \in Calls, A!ReadAccount(c) PROVE at'[d] = at[d]
  BY <1>4, <1>a DEF A!ReadAccount, A!Goto, A!KeepHistory
<1>5. ASSUME NEW c \in Calls, A!UpdatePassword(c) PROVE at'[d] = at[d]
  BY <1>5, <1>a DEF A!UpdatePassword, A!Show, A!Goto, A!KeepHistory
<1>6. ASSUME NEW c \in Calls, A!UpdateMisses(c) PROVE at'[d] = at[d]
  BY <1>6, <1>a DEF A!UpdateMisses, A!Goto, A!KeepHistory
<1>7. ASSUME NEW c \in Calls, A!RotateSessions(c) PROVE at'[d] = at[d]
  BY <1>7, <1>a DEF A!RotateSessions, A!DeleteSessions, A!SessionsOf, A!Goto, A!KeepHistory
<1>8. ASSUME NEW c \in Calls, A!RenewSession(c) PROVE at'[d] = at[d]
  BY <1>8, <1>a DEF A!RenewSession, A!CreateSession, A!Goto, A!KeepHistory
<1>9. ASSUME NEW c \in Calls, A!Evict(c) PROVE at'[d] = at[d]
  BY <1>9, <1>a DEF A!Evict, A!DeleteSessions, A!SessionsOf, A!Goto, A!KeepHistory
<1>10. ASSUME NEW c \in Calls, A!BeginRegister(c) PROVE at'[d] = at[d]
  BY <1>10, <1>a
     DEF A!BeginRegister, A!Admins, A!SessionsOf, A!SignedIn, A!ActOn, A!Goto,
         A!KeepHistory
<1>11. ASSUME NEW c \in Calls, A!Register(c) PROVE at'[d] = at[d]
  BY <1>11, <1>a DEF A!Register, A!Goto, A!KeepHistory
<1>12. ASSUME NEW c \in Calls, A!BeginDelete(c) PROVE at'[d] = at[d]
  BY <1>12, <1>a DEF A!BeginDelete, A!Admins, A!SessionsOf, A!ActOn, A!Goto, A!KeepHistory
<1>13. ASSUME NEW c \in Calls, A!DeleteAccount(c) PROVE at'[d] = at[d]
  BY <1>13, <1>a DEF A!DeleteAccount, A!Goto, A!KeepHistory
<1>14. ASSUME NEW c \in Calls, A!DeleteMisses(c) PROVE at'[d] = at[d]
  BY <1>14, <1>a DEF A!DeleteMisses, A!Goto, A!KeepHistory
<1>15. ASSUME NEW c \in Calls, A!SeverSessions(c) PROVE at'[d] = at[d]
  BY <1>15, <1>a DEF A!SeverSessions, A!DeleteSessions, A!SessionsOf, A!Goto, A!KeepHistory
<1>16. ASSUME NEW c \in Calls, A!BeginToken(c) PROVE at'[d] = at[d]
  BY <1>16, <1>a DEF A!BeginToken, A!SignedIn, A!ActOn, A!Goto, A!KeepHistory
<1>17. ASSUME NEW c \in Calls, A!CreateToken(c) PROVE at'[d] = at[d]
  BY <1>17, <1>a DEF A!CreateToken, A!Goto, A!KeepHistory
<1>18. ASSUME NEW c \in Calls, A!DeleteToken(c) PROVE at'[d] = at[d]
  BY <1>18, <1>a DEF A!DeleteToken, A!Goto, A!KeepHistory
<1>19. ASSUME NEW c \in Calls, A!StatementFails(c) PROVE at'[d] = at[d]
  BY <1>19, <1>a DEF A!StatementFails, A!Goto, A!KeepHistory, A!Reading
<1>20. CASE A!EndSession
  BY <1>20, <1>a DEF A!EndSession, A!KeepHistory
<1>21. CASE A!Restart
  BY <1>21, <1>a DEF A!Restart, A!Reading, A!Writing, A!KeepHistory
<1>22. CASE UNCHANGED A!vars
  BY <1>22, <1>a DEF A!vars
<1> QED
  BY <1>1, <1>2, <1>3, <1>4, <1>5, <1>6, <1>7, <1>8, <1>9, <1>10, <1>11, <1>12,
     <1>13, <1>14, <1>15, <1>16, <1>17, <1>18, <1>19, <1>20, <1>21, <1>22
  DEF A!Next, A!Request, A!ChangePassword, A!ManageAccounts, A!ManageTokens

(* Sessions.                                                               *)
SessionCurrent(s) ==
  \/ A!Exists(s.account) /\ accounts[s.account].password = s.password
  \/ A!Cleaning(s.account)
  \/ s.by \in overtaken

(* What was overtaken stays so.                                            *)
LEMMA OvertakenLasts == [A!Next]_(A!vars) => overtaken \subseteq overtaken'
<1> SUFFICES ASSUME [A!Next]_(A!vars) PROVE overtaken \subseteq overtaken'
  OBVIOUS
<1>1. ASSUME NEW c \in Calls, A!Login(c) PROVE overtaken \subseteq overtaken'
  BY <1>1 DEF A!Login, A!ActOn, A!Show, A!Goto, A!KeepHistory
<1>2. ASSUME NEW c \in Calls, A!OpenSession(c) PROVE overtaken \subseteq overtaken'
  BY <1>2 DEF A!OpenSession, A!CreateSession, A!Goto, A!KeepHistory
<1>3. ASSUME NEW c \in Calls, A!BeginChange(c) PROVE overtaken \subseteq overtaken'
  BY <1>3 DEF A!BeginChange, A!SignedIn, A!ActOn, A!Goto, A!KeepHistory
<1>4. ASSUME NEW c \in Calls, A!ReadAccount(c) PROVE overtaken \subseteq overtaken'
  BY <1>4 DEF A!ReadAccount, A!Goto, A!KeepHistory
<1>5. ASSUME NEW c \in Calls, A!UpdatePassword(c) PROVE overtaken \subseteq overtaken'
  BY <1>5 DEF A!UpdatePassword, A!Show, A!Goto, A!KeepHistory
<1>6. ASSUME NEW c \in Calls, A!UpdateMisses(c) PROVE overtaken \subseteq overtaken'
  BY <1>6 DEF A!UpdateMisses, A!Goto, A!KeepHistory
<1>7. ASSUME NEW c \in Calls, A!RotateSessions(c) PROVE overtaken \subseteq overtaken'
  BY <1>7 DEF A!RotateSessions, A!DeleteSessions, A!SessionsOf, A!Goto, A!KeepHistory
<1>8. ASSUME NEW c \in Calls, A!RenewSession(c) PROVE overtaken \subseteq overtaken'
  BY <1>8 DEF A!RenewSession, A!CreateSession, A!Goto, A!KeepHistory
<1>9. ASSUME NEW c \in Calls, A!Evict(c) PROVE overtaken \subseteq overtaken'
  BY <1>9 DEF A!Evict, A!DeleteSessions, A!SessionsOf, A!Goto, A!KeepHistory
<1>10. ASSUME NEW c \in Calls, A!BeginRegister(c) PROVE overtaken \subseteq overtaken'
  BY <1>10
     DEF A!BeginRegister, A!Admins, A!SessionsOf, A!SignedIn, A!ActOn, A!Goto,
         A!KeepHistory
<1>11. ASSUME NEW c \in Calls, A!Register(c) PROVE overtaken \subseteq overtaken'
  BY <1>11 DEF A!Register, A!Goto, A!KeepHistory
<1>12. ASSUME NEW c \in Calls, A!BeginDelete(c) PROVE overtaken \subseteq overtaken'
  BY <1>12 DEF A!BeginDelete, A!Admins, A!SessionsOf, A!ActOn, A!Goto, A!KeepHistory
<1>13. ASSUME NEW c \in Calls, A!DeleteAccount(c) PROVE overtaken \subseteq overtaken'
  BY <1>13 DEF A!DeleteAccount, A!Goto, A!KeepHistory
<1>14. ASSUME NEW c \in Calls, A!DeleteMisses(c) PROVE overtaken \subseteq overtaken'
  BY <1>14 DEF A!DeleteMisses, A!Goto, A!KeepHistory
<1>15. ASSUME NEW c \in Calls, A!SeverSessions(c) PROVE overtaken \subseteq overtaken'
  BY <1>15 DEF A!SeverSessions, A!DeleteSessions, A!SessionsOf, A!Goto, A!KeepHistory
<1>16. ASSUME NEW c \in Calls, A!BeginToken(c) PROVE overtaken \subseteq overtaken'
  BY <1>16 DEF A!BeginToken, A!SignedIn, A!ActOn, A!Goto, A!KeepHistory
<1>17. ASSUME NEW c \in Calls, A!CreateToken(c) PROVE overtaken \subseteq overtaken'
  BY <1>17 DEF A!CreateToken, A!Goto, A!KeepHistory
<1>18. ASSUME NEW c \in Calls, A!DeleteToken(c) PROVE overtaken \subseteq overtaken'
  BY <1>18 DEF A!DeleteToken, A!Goto, A!KeepHistory
<1>19. ASSUME NEW c \in Calls, A!StatementFails(c) PROVE overtaken \subseteq overtaken'
  BY <1>19 DEF A!StatementFails, A!Goto, A!KeepHistory
<1>20. CASE A!EndSession
  BY <1>20 DEF A!EndSession, A!KeepHistory
<1>21. CASE A!Restart
  BY <1>21 DEF A!Restart, A!Reading, A!Writing, A!KeepHistory
<1>22. CASE UNCHANGED A!vars
  BY <1>22 DEF A!vars
<1> QED
  BY <1>1, <1>2, <1>3, <1>4, <1>5, <1>6, <1>7, <1>8, <1>9, <1>10, <1>11, <1>12,
     <1>13, <1>14, <1>15, <1>16, <1>17, <1>18, <1>19, <1>20, <1>21, <1>22
  DEF A!Next, A!Request, A!ChangePassword, A!ManageAccounts, A!ManageTokens

(* A new session is as current as the proof it is opened on; an old one    *)
(* loses its row only to a request that still has to sweep.                *)
LEMMA SessionsStep ==
  /\ A!TypeOK /\ AccountsBorn /\ ProofsCurrent /\ A!SessionsCurrent /\ [A!Next]_(A!vars)
  => A!SessionsCurrent'
<1> SUFFICES ASSUME A!TypeOK, AccountsBorn, ProofsCurrent, A!SessionsCurrent, [A!Next]_(A!vars),
                    NEW s \in sessions'
             PROVE  SessionCurrent(s)'
  BY DEF A!SessionsCurrent, SessionCurrent
<1>1. CASE s \notin sessions
  <2>1. PICK c \in Calls : A!OpenSession(c) \/ A!RenewSession(c)
    BY <1>1, SessionWriters
  <2>2. s.by = c /\ s.account = subject[c] /\ s.password = proof[c]
    BY <1>1, <2>1 DEF A!OpenSession, A!RenewSession, A!CreateSession
  <2>3. UNCHANGED <<accounts, overtaken>> /\ at[c] \in {"opening", "renewing"}
    BY <2>1 DEF A!OpenSession, A!RenewSession, A!KeepHistory
  <2> QED
    BY <2>2, <2>3 DEF ProofsCurrent, SessionCurrent, A!Exists
<1>2. CASE s \in sessions
  <2>1. CASE A!Cleaning(s.account)
    BY <1>2, <2>1, CleaningStays DEF SessionCurrent
  <2>2. CASE s.by \in overtaken
    BY <2>2, OvertakenLasts DEF SessionCurrent
  <2>3. CASE A!Exists(s.account) /\ accounts[s.account].password = s.password
    <3>1. CASE UNCHANGED accounts
      BY <2>3, <3>1 DEF SessionCurrent, A!Exists
    <3>2. ASSUME NEW c \in Calls, A!Register(c) PROVE SessionCurrent(s)'
      BY <2>3, <3>2, NewRow DEF SessionCurrent, A!Exists
    <3>3. ASSUME NEW c \in Calls, A!UpdatePassword(c) \/ A!DeleteAccount(c)
          PROVE  SessionCurrent(s)'
      <4>1. CASE s.account = subject[c]
        BY <3>3, <4>1
           DEF SessionCurrent, A!Cleaning, A!UpdatePassword, A!DeleteAccount, A!Goto,
               A!TypeOK
      <4>2. CASE s.account # subject[c]
        BY <2>3, <3>3, <4>2, UpdateRow, DeleteRow DEF SessionCurrent, A!Exists
      <4> QED
        BY <4>1, <4>2
    <3> QED
      BY <3>1, <3>2, <3>3, RowWriters
  <2> QED
    BY <1>2, <2>1, <2>2, <2>3 DEF A!SessionsCurrent
<1> QED
  BY <1>1, <1>2

-----------------------------------------------------------------------------
(* Tokens.                                                                 *)
LEMMA TokensOwnedStep ==
  A!TypeOK /\ AccountsBorn /\ TokensOwned /\ [A!Next]_(A!vars) => TokensOwned'
<1> SUFFICES ASSUME A!TypeOK, AccountsBorn, TokensOwned, [A!Next]_(A!vars) PROVE TokensOwned'
  OBVIOUS
<1>0. \A d \in Calls : at[d] = "minted" => at'[d] = "minted" /\ subject'[d] = subject[d]
  BY AnswersLast DEF Lasting, A!Answers
<1>1. \A t \in tokens : t.by \in Calls
  BY DEF A!TypeOK
<1>2. \A r \in revoked : r[1] \in Calls
  BY DEF A!TypeOK
<1>3. ASSUME tokens' \subseteq tokens
      PROVE  \A t \in tokens' : at'[t.by] = "minted" /\ t.account = subject'[t.by]
  BY <1>0, <1>1, <1>3 DEF TokensOwned
<1>4. ASSUME revoked' = revoked PROVE \A r \in revoked' : at'[r[1]] = "minted"
  BY <1>0, <1>2, <1>4 DEF TokensOwned
<1>5. CASE UNCHANGED <<tokens, revoked>>
  BY <1>3, <1>4, <1>5 DEF TokensOwned
<1>6. ASSUME NEW c \in Calls, A!CreateToken(c) PROVE TokensOwned'
  <2>1. revoked' = revoked /\ subject' = subject
    BY <1>6 DEF A!CreateToken, A!KeepHistory
  <2>2. PICK value \in {c, User} :
          \/ /\ tokens' = tokens \cup {[by |-> c, account |-> subject[c], value |-> value]}
             /\ A!Goto(c, "minted")
          \/ tokens' = tokens
    BY <1>6 DEF A!CreateToken
  <2>3. CASE tokens' = tokens
    BY <1>3, <1>4, <2>1, <2>3 DEF TokensOwned
  <2>4. CASE /\ tokens' = tokens \cup {[by |-> c, account |-> subject[c], value |-> value]}
             /\ A!Goto(c, "minted")
    <3>1. at'[c] = "minted"
      BY <2>4 DEF A!Goto, A!TypeOK
    <3>2. \A t \in tokens' : at'[t.by] = "minted" /\ t.account = subject'[t.by]
      BY <1>0, <1>1, <2>1, <2>4, <3>1 DEF TokensOwned
    <3> QED
      BY <1>4, <2>1, <3>2 DEF TokensOwned
  <2> QED
    BY <2>2, <2>3, <2>4
<1>7. ASSUME NEW c \in Calls, A!DeleteToken(c) PROVE TokensOwned'
  <2>1. PICK id \in Calls : /\ at[id] = "minted" /\ tokens' \subseteq tokens
                            /\ revoked' = revoked \cup {<<id, subject[c]>>}
    BY <1>7 DEF A!DeleteToken
  <2>2. \A r \in revoked' : at'[r[1]] = "minted"
    BY <1>0, <1>2, <2>1 DEF TokensOwned
  <2> QED
    BY <1>3, <2>1, <2>2 DEF TokensOwned
<1>8. ASSUME NEW c \in Calls, A!DeleteAccount(c) PROVE TokensOwned'
  <2>1. tokens' \subseteq tokens /\ revoked' = revoked
    BY <1>8 DEF A!DeleteAccount
  <2> QED
    BY <1>3, <1>4, <2>1 DEF TokensOwned
<1> QED
  BY <1>5, <1>6, <1>7, <1>8, TokenWriters

(* Who answers with a token.                                               *)
LEMMA Minters ==
  ASSUME A!TypeOK, [A!Next]_(A!vars), NEW d \in Calls, at'[d] = "minted", at[d] # "minted"
  PROVE  A!CreateToken(d)
<1> SUFFICES ASSUME \A c \in Calls : A!CreateToken(c) => c # d PROVE FALSE
  OBVIOUS
<1>a. at \in [Calls -> {"idle"} \cup A!Reading \cup A!Writing \cup A!Answers]
  BY DEF A!TypeOK
<1>1. ASSUME NEW c \in Calls, A!Login(c) PROVE FALSE
  BY <1>1, <1>a DEF A!Login, A!ActOn, A!Show, A!Goto, A!KeepHistory
<1>2. ASSUME NEW c \in Calls, A!OpenSession(c) PROVE FALSE
  BY <1>2, <1>a DEF A!OpenSession, A!CreateSession, A!Goto, A!KeepHistory
<1>3. ASSUME NEW c \in Calls, A!BeginChange(c) PROVE FALSE
  BY <1>3, <1>a DEF A!BeginChange, A!SignedIn, A!ActOn, A!Goto, A!KeepHistory
<1>4. ASSUME NEW c \in Calls, A!ReadAccount(c) PROVE FALSE
  BY <1>4, <1>a DEF A!ReadAccount, A!Goto, A!KeepHistory
<1>5. ASSUME NEW c \in Calls, A!UpdatePassword(c) PROVE FALSE
  BY <1>5, <1>a DEF A!UpdatePassword, A!Show, A!Goto, A!KeepHistory
<1>6. ASSUME NEW c \in Calls, A!UpdateMisses(c) PROVE FALSE
  BY <1>6, <1>a DEF A!UpdateMisses, A!Goto, A!KeepHistory
<1>7. ASSUME NEW c \in Calls, A!RotateSessions(c) PROVE FALSE
  BY <1>7, <1>a DEF A!RotateSessions, A!DeleteSessions, A!SessionsOf, A!Goto, A!KeepHistory
<1>8. ASSUME NEW c \in Calls, A!RenewSession(c) PROVE FALSE
  BY <1>8, <1>a DEF A!RenewSession, A!CreateSession, A!Goto, A!KeepHistory
<1>9. ASSUME NEW c \in Calls, A!Evict(c) PROVE FALSE
  BY <1>9, <1>a DEF A!Evict, A!DeleteSessions, A!SessionsOf, A!Goto, A!KeepHistory
<1>10. ASSUME NEW c \in Calls, A!BeginRegister(c) PROVE FALSE
  BY <1>10, <1>a
     DEF A!BeginRegister, A!Admins, A!SessionsOf, A!SignedIn, A!ActOn, A!Goto,
         A!KeepHistory
<1>11. ASSUME NEW c \in Calls, A!Register(c) PROVE FALSE
  BY <1>11, <1>a DEF A!Register, A!Goto, A!KeepHistory
<1>12. ASSUME NEW c \in Calls, A!BeginDelete(c) PROVE FALSE
  BY <1>12, <1>a DEF A!BeginDelete, A!Admins, A!SessionsOf, A!ActOn, A!Goto, A!KeepHistory
<1>13. ASSUME NEW c \in Calls, A!DeleteAccount(c) PROVE FALSE
  BY <1>13, <1>a DEF A!DeleteAccount, A!Goto, A!KeepHistory
<1>14. ASSUME NEW c \in Calls, A!DeleteMisses(c) PROVE FALSE
  BY <1>14, <1>a DEF A!DeleteMisses, A!Goto, A!KeepHistory
<1>15. ASSUME NEW c \in Calls, A!SeverSessions(c) PROVE FALSE
  BY <1>15, <1>a DEF A!SeverSessions, A!DeleteSessions, A!SessionsOf, A!Goto, A!KeepHistory
<1>16. ASSUME NEW c \in Calls, A!BeginToken(c) PROVE FALSE
  BY <1>16, <1>a DEF A!BeginToken, A!SignedIn, A!ActOn, A!Goto
<1>17. ASSUME NEW c \in Calls, A!CreateToken(c) PROVE FALSE
  BY <1>17, <1>a DEF A!CreateToken, A!Goto, A!KeepHistory
<1>18. ASSUME NEW c \in Calls, A!DeleteToken(c) PROVE FALSE
  BY <1>18, <1>a DEF A!DeleteToken, A!Goto, A!KeepHistory
<1>19. ASSUME NEW c \in Calls, A!StatementFails(c) PROVE FALSE
  BY <1>19, <1>a DEF A!StatementFails, A!Goto, A!KeepHistory
<1>20. CASE A!EndSession
  BY <1>20, <1>a DEF A!EndSession, A!KeepHistory
<1>21. CASE A!Restart
  BY <1>21, <1>a DEF A!Restart, A!Reading, A!Writing, A!KeepHistory
<1>22. CASE UNCHANGED A!vars
  BY <1>22, <1>a DEF A!vars
<1> QED
  BY <1>1, <1>2, <1>3, <1>4, <1>5, <1>6, <1>7, <1>8, <1>9, <1>10, <1>11, <1>12,
     <1>13, <1>14, <1>15, <1>16, <1>17, <1>18, <1>19, <1>20, <1>21, <1>22
  DEF A!Next, A!Request, A!ChangePassword, A!ManageAccounts, A!ManageTokens

(* A token and its answer.                                                 *)
HasToken(d) == \E t \in tokens : t.by = d
Standing(d) == A!Exists(subject[d]) /\ <<d, subject[d]>> \notin revoked

(* The foreign key of trusted_tokens, with its cascade.                    *)
LEMMA TokenRows ==
  A!TypeOK /\ AccountsBorn /\ A!TokensStand /\ [A!Next]_(A!vars)
  => \A t \in tokens' : A!Exists(t.account)'
<1> SUFFICES ASSUME A!TypeOK, AccountsBorn, A!TokensStand, [A!Next]_(A!vars), NEW t \in tokens'
             PROVE  A!Exists(t.account)'
  OBVIOUS
<1>1. ASSUME NEW c \in Calls, A!DeleteAccount(c) PROVE A!Exists(t.account)'
  <2>1. t \in tokens /\ t.account # subject[c]
    BY <1>1 DEF A!DeleteAccount
  <2> QED
    BY <1>1, <2>1, DeleteRow DEF A!TokensStand, A!Exists
<1>2. ASSUME A!Exists(t.account)
      PROVE  A!Exists(t.account)' \/ \E c \in Calls : A!DeleteAccount(c)
  BY <1>2, RowWriters, UpdateRow, NewRow DEF A!Exists
<1>3. CASE t \in tokens
  BY <1>1, <1>2, <1>3 DEF A!TokensStand
<1>4. ASSUME NEW c \in Calls, A!CreateToken(c), t \notin tokens PROVE A!Exists(t.account)'
  BY <1>4 DEF A!CreateToken, A!Exists
<1>5. t \in tokens \/ \E c \in Calls : A!CreateToken(c) \/ A!DeleteAccount(c)
  BY TokenWriters DEF A!DeleteToken
<1> QED
  BY <1>1, <1>3, <1>4, <1>5

(* A token disappears with its account, or by a deletion of its own        *)
(* account, which is on record.                                            *)
LEMMA TokensStandStep ==
  /\ A!TypeOK /\ AccountsBorn /\ TokensOwned /\ A!TokensStand /\ [A!Next]_(A!vars)
  => A!TokensStand'
<1> SUFFICES ASSUME A!TypeOK, AccountsBorn, TokensOwned, A!TokensStand, [A!Next]_(A!vars),
                    NEW d \in Calls, at'[d] = "minted"
             PROVE  (HasToken(d) <=> Standing(d))'
  BY TokenRows DEF A!TokensStand, HasToken, Standing
<1>1. CASE at[d] # "minted"
  <2>1. /\ A!CreateToken(d)
        /\ A!Exists(subject[d])
        /\ \E value : tokens' = tokens \cup {[by |-> d, account |-> subject[d], value |-> value]}
    <3>1. A!CreateToken(d)
      BY <1>1, Minters
    <3>2. ~A!Goto(d, "refused")
      BY <1>1 DEF A!Goto, A!TypeOK
    <3> QED
      BY <3>1, <3>2 DEF A!CreateToken
  <2>2. UNCHANGED <<accounts, subject, revoked>>
    BY <2>1 DEF A!CreateToken, A!KeepHistory
  <2>3. HasToken(d)'
    <3>1. PICK value : tokens' = tokens \cup {[by |-> d, account |-> subject[d], value |-> value]}
      BY <2>1
    <3>2. [by |-> d, account |-> subject[d], value |-> value] \in tokens'
      BY <3>1
    <3> QED
      BY <3>2 DEF HasToken
  <2>4. <<d, subject[d]>> \notin revoked
    BY <1>1 DEF TokensOwned
  <2> QED
    BY <2>1, <2>2, <2>3, <2>4 DEF Standing, A!Exists
<1>2. CASE at[d] = "minted"
  <2>1. subject'[d] = subject[d] /\ (HasToken(d) <=> Standing(d))
    BY <1>2, AnswersLast DEF Lasting, A!Answers, A!TokensStand, HasToken, Standing
  <2>2. \A t \in tokens : t.by = d => t.account = subject[d]
    BY DEF TokensOwned
  <2>a. ASSUME NEW c \in Calls, A!DeleteAccount(c) PROVE (HasToken(d) <=> Standing(d))'
    <3>1. tokens' = {t \in tokens : t.account # subject[c]} /\ revoked' = revoked
      BY <2>a DEF A!DeleteAccount
    <3>2. HasToken(d)' <=> HasToken(d) /\ subject[d] # subject[c]
      BY <2>2, <3>1 DEF HasToken
    <3>3. Standing(d)' <=> Standing(d) /\ subject[d] # subject[c]
      BY <2>1, <2>a, <3>1, DeleteRow DEF Standing, A!Exists
    <3> QED
      BY <2>1, <3>2, <3>3
  <2>3. (A!Exists(subject[d])' <=> A!Exists(subject[d])) \/ \E c \in Calls : A!DeleteAccount(c)
    <3>1. ASSUME NEW c \in Calls, A!Register(c) PROVE subject[d] # c
      BY <3>1 DEF A!Register, AccountsBorn, Registered
    <3>2. ASSUME NEW c \in Calls, A!Register(c)
          PROVE  A!Exists(subject[d])' <=> A!Exists(subject[d])
      <4>1. accounts' = accounts \/ DOMAIN accounts' = DOMAIN accounts \cup {c}
        BY <3>2, RegisterRow
      <4>2. subject[d] # c
        BY <3>1, <3>2
      <4> QED
        BY <2>1, <4>1, <4>2 DEF A!Exists
    <3> QED
      BY <2>1, <3>2, RowWriters, UpdateRow DEF A!Exists
  <2>4. CASE UNCHANGED <<tokens, revoked>>
    BY <2>1, <2>3, <2>4, <2>a DEF HasToken, Standing
  <2>5. ASSUME NEW c \in Calls, A!CreateToken(c) PROVE (HasToken(d) <=> Standing(d))'
    <3>1. UNCHANGED <<accounts, revoked>> /\ c # d
      BY <1>2, <2>5 DEF A!CreateToken, A!KeepHistory
    <3>2. HasToken(d)' <=> HasToken(d)
      BY <2>5, <3>1 DEF A!CreateToken, HasToken
    <3> QED
      BY <2>1, <3>1, <3>2 DEF Standing, A!Exists
  <2>6. ASSUME NEW c \in Calls, A!DeleteToken(c) PROVE (HasToken(d) <=> Standing(d))'
    <3>1. PICK id \in Calls :
            /\ tokens' = tokens \ {t \in tokens : t.by = id /\ t.account = subject[c]}
            /\ revoked' = revoked \cup {<<id, subject[c]>>}
      BY <2>6 DEF A!DeleteToken
    <3>2. accounts' = accounts
      BY <2>6 DEF A!DeleteToken
    <3>3. HasToken(d)' <=> HasToken(d) /\ ~(id = d /\ subject[c] = subject[d])
      BY <2>2, <3>1 DEF HasToken
    <3>4. Standing(d)' <=> Standing(d) /\ ~(id = d /\ subject[c] = subject[d])
      BY <2>1, <3>1, <3>2 DEF Standing, A!Exists
    <3> QED
      BY <2>1, <3>3, <3>4
  <2> QED
    BY <2>a, <2>4, <2>5, <2>6, TokenWriters
<1> QED
  BY <1>1, <1>2

-----------------------------------------------------------------------------
(* The inductive invariant, and what it gives.                             *)
LEMMA AccountInit == A!Init => AccountInv
<1> SUFFICES ASSUME A!Init PROVE AccountInv
  OBVIOUS
<1> USE CallsAssumption DEF A!Init
<1>1. A!TypeOK
  BY DEF A!TypeOK, A!Known, A!Names
<1>2. AccountsBorn
  BY DEF AccountsBorn, Registered, A!Known, A!Names
<1>3. ProofsCurrent /\ TokensOwned /\ A!TokensStand
  BY DEF ProofsCurrent, TokensOwned, A!TokensStand
<1>4. A!SessionsCurrent
  BY DEF A!SessionsCurrent, A!Exists
<1> QED
  BY <1>1, <1>2, <1>3, <1>4 DEF AccountInv

(* Every step keeps the invariant.                                         *)
LEMMA AccountStep == AccountInv /\ [A!Next]_(A!vars) => AccountInv'
BY AccountTypeStep, BornStep, ProofsStep, TokensOwnedStep, SessionsStep, TokensStandStep
   DEF AccountInv

(* A step of the dashboard is a step of the accounts, or leaves them alone.*)
LEMMA StepOfAccounts == [Next]_vars => [A!Next]_(A!vars)
<1>1. ASSUME NEW c \in Calls, AccountRequest(c) PROVE A!Next
  BY <1>1 DEF AccountRequest, A!Next
<1>2. ASSUME NEW c \in Calls, WorkerRequest(c) PROVE UNCHANGED A!vars
  BY <1>2 DEF WorkerRequest, BeginCreate, BeginDelete, accountVars, A!vars
<1>3. ASSUME NEW w \in P!Ids, GetCredential(w) PROVE UNCHANGED A!vars
  BY <1>3 DEF GetCredential, accountVars, A!vars
<1>4. CASE EndSession
  BY <1>4 DEF EndSession, A!Next
<1>5. CASE Restart
  BY <1>5 DEF Restart, A!Next
<1>6. CASE UNCHANGED vars
  BY <1>6 DEF vars, accountVars, A!vars
<1> QED
  BY <1>1, <1>2, <1>3, <1>4, <1>5, <1>6 DEF Next

(* With requests for workers among them, the requests for accounts, login  *)
(* sessions and tokens behave as module Accounts says (the handlers of     *)
(* worker_handler.go write none of its state).                             *)
THEOREM AccountsImplemented == Spec => A!Spec
<1>1. Init => A!Init
  BY DEF Init
<1> QED
  BY <1>1, StepOfAccounts, PTL DEF Spec, A!Spec

(* The invariant holds in every reachable state.                           *)
LEMMA AccountInvariance == Spec => []AccountInv
<1>1. Init => AccountInv
  BY AccountInit DEF Init
<1>2. AccountInv /\ [Next]_vars => AccountInv'
  BY AccountStep, StepOfAccounts
<1> QED
  BY <1>1, <1>2, PTL DEF Spec

(* A login session stands for the present password of an account that      *)
(* exists, or its sweep is due, or createSession opened it after the sweep *)
(* for a request that had been overtaken - however many requests, accounts *)
(* and restarts there are.                                                 *)
THEOREM SessionsCurrentHolds == Spec => []SessionsCurrent
<1>1. AccountInv => SessionsCurrent
  BY DEF AccountInv, SessionsCurrent
<1> QED
  BY <1>1, AccountInvariance, PTL

(* A token answered as created is accepted exactly until its own account   *)
(* asked to delete it or the account is gone, whatever other accounts ask  *)
(* for (deleteToken) and however deletions and creations overlap.          *)
THEOREM TokensStandHolds == Spec => []TokensStand
<1>1. AccountInv => TokensStand
  BY DEF AccountInv, TokensStand
<1> QED
  BY <1>1, AccountInvariance, PTL

=============================================================================

--------------------------- MODULE DashboardProofs ---------------------------
(***************************************************************************)
(* Machine-checked proofs about the creation and deletion of workers in    *)
(* Dashboard, for every set of requests and any number of attempts.        *)
(*                                                                         *)
(* The claim is what matters: only its holder comes near a credential      *)
(* (HoldersOnly), it lasts as long as the row (RowsLinked) and, while no   *)
(* statement fails, it is that of a creation that will succeed             *)
(* (Undisturbed).  All of it rests on fresh ids (IdsFresh): no request     *)
(* works on, rolls back or is blocked by what another has put on record,   *)
(* but for a deletion, which is on record itself (condemned).              *)
(***************************************************************************)
EXTENDS AccountsProofs, FiniteSetTheorems

(* Workers.                                                                *)

Early == {"idle", "counting", "seeding"}
Late == {"claiming", "caching", "storing", "forgetting", "retrying", "refusing", "abandoning"}
Sys(o) == [owner |-> o, type |-> "worker-sys"]

(* The tables are functions; what a request has asked for, and whose id it *)
(* works on.                                                               *)
RequestsOwn ==
  /\ workers \in [DOMAIN workers -> P!Orders]
  /\ claims \in [DOMAIN claims -> P!Ids]
  /\ \A c \in Calls :
       /\ work[c] = "idle" => worker[c] = <<c, 1>>
       /\ work[c] \in P!Creating \cup {"created"} => worker[c][1] = c
       /\ work[c] # "idle" => order[c] \in P!Orders
       /\ work[c] \in {"counting", "claiming", "refusing", "abandoning", "exists"} =>
            order[c].type = "worker-sys"
       /\ work[c] \in {"unstoring", "removing"} => worker[c] \in condemned

(* An id that was not drawn yet is nowhere, and nobody can know it.        *)
Unborn(w) ==
  /\ w \notin DOMAIN workers \cup stored \cup cached \cup condemned
  /\ \A d \in Calls : work[d] \in P!Deleting => worker[d] # w

Undrawn(w) ==
  \/ work[w[1]] \in Early /\ w[2] >= worker[w[1]][2]
  \/ work[w[1]] \in Late /\ w[2] > worker[w[1]][2]

IdsFresh == \A w \in P!Ids : Undrawn(w) => Unborn(w)

(* The foreign keys, and the order a row was made for.                     *)
RowsLinked ==
  /\ \A w \in DOMAIN workers : workers[w] = order[w[1]]
  /\ stored \subseteq DOMAIN workers
  /\ \A o \in DOMAIN claims : claims[o] \in DOMAIN workers /\ workers[claims[o]] = Sys(o)

(* Only the worker that holds the claim of its owner comes to a credential.*)
Holds(w) == workers[w].owner \in DOMAIN claims /\ claims[workers[w].owner] = w
Near(w) == w \in cached \cup stored \/ (worker[w[1]] = w /\ work[w[1]] \in {"caching", "storing"})
HoldersOnly == \A w \in DOMAIN workers : workers[w].type = "worker-sys" /\ Near(w) => Holds(w)

(* A creation on its way: its entry of the map is there, or not yet or not *)
(* any more, and its row is gone only by a deletion.                       *)
OnTheWay ==
  \A c \in Calls :
    /\ work[c] = "storing" => worker[c] \in cached \cup condemned
    /\ work[c] \in {"claiming", "retrying", "refusing", "abandoning"} => worker[c] \notin cached
    /\ work[c] \in {"claiming", "caching", "storing"} => worker[c] \in DOMAIN workers \cup condemned

(* A hash is about to be put into the map: it is that of a worker whose    *)
(* secret was handed out and which a deletion has taken off the map.       *)
Fetched(w) ==
  /\ w[1] \in Calls /\ work[w[1]] = "created" /\ worker[w[1]] = w /\ w \in condemned
  /\ w \in DOMAIN workers /\ workers[w].type = "worker-sys" => Holds(w)
FetchedKnown == \A w \in fetched : Fetched(w)

(* While no statement fails: what is on record belongs to its creation,    *)
(* only a creation without a row is taken back on another ground than the  *)
(* claim, and the claim is that of a creation that will succeed.           *)
Hope(o) ==
  \/ \E d \in Calls : order[d] = Sys(o) /\ work[d] = "claiming"
  \/ o \in DOMAIN claims
  \/ \E w \in condemned : order[w[1]] = Sys(o)

RecordsOwned ==
  \A w \in DOMAIN workers \cup stored \cup cached :
    /\ worker[w[1]] = w
    /\ \/ work[w[1]] \in P!Creating
       \/ work[w[1]] = "created" /\ w \in DOMAIN workers \cup condemned

Undisturbed ==
  ~disturbed =>
    /\ RecordsOwned
    /\ \A c \in Calls :
         /\ work[c] \in {"forgetting", "retrying", "abandoning"} => ~P!Row(worker[c])
         /\ work[c] \in {"refusing", "exists"} => Hope(order[c].owner)
    /\ \A o \in DOMAIN claims :
         worker[claims[o][1]] = claims[o] /\ work[claims[o][1]] \in {"caching", "storing", "created"}

WorkerInv ==
  /\ P!TypeOK /\ RequestsOwn /\ IdsFresh /\ RowsLinked /\ HoldersOnly /\ OnTheWay
  /\ P!CreatedIsUsable /\ FetchedKnown /\ Undisturbed

-----------------------------------------------------------------------------
(* Ids.                                                                    *)
LEMMA IdParts ==
  ASSUME NEW w \in P!Ids
  PROVE  w[1] \in Calls /\ w[2] \in 1..MaxAttempts /\ w = <<w[1], w[2]>>
BY DEF P!Ids

(* A creation works on an id of its own.                                   *)
LEMMA OwnId ==
  ASSUME P!TypeOK, RequestsOwn, NEW c \in Calls,
         work[c] \in P!Creating \cup {"created", "idle"}
  PROVE  worker[c] \in P!Ids /\ worker[c][1] = c /\ worker[c] = <<c, worker[c][2]>>
<1>1. worker[c] \in P!Ids
  BY DEF P!TypeOK
<1>2. worker[c][1] = c
  BY DEF RequestsOwn
<1> QED
  BY <1>1, <1>2, IdParts

(* What the statements and the loop do.                                    *)
LEMMA DeleteEffect ==
  ASSUME P!TypeOK, RequestsOwn, NEW w, P!Delete(w)
  PROVE  /\ DOMAIN workers' = DOMAIN workers \ {w}
         /\ workers' \in [DOMAIN workers' -> P!Orders]
         /\ \A v \in DOMAIN workers' : workers'[v] = workers[v]
         /\ DOMAIN claims' = {o \in DOMAIN claims : claims[o] # w}
         /\ claims' \in [DOMAIN claims' -> P!Ids]
         /\ \A o \in DOMAIN claims' : claims'[o] = claims[o]
         /\ stored' = stored \ {w}
<1>1. workers \in [DOMAIN workers -> P!Orders] /\ claims \in [DOMAIN claims -> P!Ids]
  BY DEF RequestsOwn
<1>2. /\ workers' = [v \in DOMAIN workers \ {w} |-> workers[v]]
      /\ claims' = [o \in {p \in DOMAIN claims : claims[p] # w} |-> claims[o]]
      /\ stored' = stored \ {w}
  BY DEF P!Delete, P!Restrict
<1> QED
  BY <1>1, <1>2

Advance(c) ==
  \/ /\ worker[c][2] < MaxAttempts
     /\ worker' = [worker EXCEPT ![c] = <<c, worker[c][2] + 1>>]
     /\ work' = [work EXCEPT ![c] = "seeding"]
  \/ worker' = worker /\ work' = [work EXCEPT ![c] = "failed"]

(* The next round of the loop goes on to the next id, or gives up.         *)
LEMMA NextEffect ==
  ASSUME P!TypeOK, NEW c \in Calls, P!NextAttempt(c)
  PROVE  Advance(c)
BY DEF P!NextAttempt, P!Goto, P!TypeOK, Advance

Seeded(c) ==
  /\ DOMAIN workers' = DOMAIN workers \cup {worker[c]}
  /\ workers'[worker[c]] = order[c]
  /\ \A v \in DOMAIN workers : v # worker[c] => workers'[v] = workers[v]
  /\ worker' = worker /\ disturbed' = disturbed
  /\ \/ work' = [work EXCEPT ![c] = "claiming"] /\ order[c].type = "worker-sys"
     \/ work' = [work EXCEPT ![c] = "caching"] /\ order[c].type # "worker-sys"

(* SeedProvisionedWorkers: one row more, or the next round.                *)
LEMMA SeedEffect ==
  ASSUME P!TypeOK, RequestsOwn, NEW c \in Calls, P!Seed(c)
  PROVE  /\ work[c] = "seeding" /\ order[c] \in P!Orders
         /\ workers' \in [DOMAIN workers' -> P!Orders]
         /\ UNCHANGED <<condemned, claims, stored, cached, fetched, order, hit>>
         /\ Seeded(c) \/ (workers' = workers /\ Advance(c) /\ disturbed')
<1>1. work[c] = "seeding" /\ order[c] \in P!Orders /\ workers \in [DOMAIN workers -> P!Orders]
  BY DEF P!Seed, RequestsOwn
<1>2. UNCHANGED <<condemned, claims, stored, cached, fetched, order, hit>>
  BY DEF P!Seed, P!memory
<1>3. CASE /\ workers' = [w \in DOMAIN workers \cup {worker[c]} |->
                           IF w = worker[c] THEN order[c] ELSE workers[w]]
           /\ P!Goto(c, IF P!IsSys(c) THEN "claiming" ELSE "caching")
           /\ UNCHANGED worker /\ P!NoFault
  BY <1>1, <1>2, <1>3 DEF P!Goto, P!IsSys, P!NoFault, Seeded
<1>4. CASE P!NextAttempt(c) /\ UNCHANGED workers /\ P!Fault
  BY <1>1, <1>2, <1>4, NextEffect DEF P!Fault
<1> QED
  BY <1>3, <1>4 DEF P!Seed

Claimed(c) ==
  /\ worker[c] \in DOMAIN workers /\ order[c].owner \notin DOMAIN claims
  /\ DOMAIN claims' = DOMAIN claims \cup {order[c].owner}
  /\ claims'[order[c].owner] = worker[c]
  /\ \A o \in DOMAIN claims : claims'[o] = claims[o]
  /\ work' = [work EXCEPT ![c] = "caching"] /\ disturbed' = disturbed

ClaimLost(c) ==
  /\ claims' = claims
  /\ \/ /\ work' = [work EXCEPT ![c] = "refusing"]
        /\ order[c].owner \in DOMAIN claims /\ disturbed' = disturbed
     \/ /\ work' = [work EXCEPT ![c] = "abandoning"]
        /\ \/ worker[c] \notin DOMAIN workers /\ disturbed' = disturbed
           \/ disturbed'

(* InsertWorkerSysOwnerClaimIfAbsent: the claim is won or lost.            *)
LEMMA ClaimEffect ==
  ASSUME P!TypeOK, RequestsOwn, NEW c \in Calls, P!Claim(c)
  PROVE  /\ work[c] = "claiming" /\ order[c] \in P!Orders /\ order[c] = Sys(order[c].owner)
         /\ claims' \in [DOMAIN claims' -> P!Ids]
         /\ UNCHANGED <<condemned, workers, stored, cached, fetched, order, worker, hit>>
         /\ Claimed(c) \/ ClaimLost(c)
<1>1. /\ work[c] = "claiming" /\ order[c] \in P!Orders
      /\ order[c].type = "worker-sys" /\ claims \in [DOMAIN claims -> P!Ids]
  BY DEF P!Claim, RequestsOwn
<1>2. UNCHANGED <<condemned, workers, stored, cached, fetched, order, worker, hit>>
  BY DEF P!Claim, P!memory, P!request
<1>3. order[c] = Sys(order[c].owner)
  BY <1>1 DEF P!Orders, Sys
<1>4. worker[c] \in P!Ids
  BY DEF P!TypeOK
<1>5. CASE /\ order[c].owner \notin DOMAIN claims /\ P!Row(worker[c])
           /\ claims' = [o \in DOMAIN claims \cup {order[c].owner} |->
                          IF o = order[c].owner THEN worker[c] ELSE claims[o]]
           /\ P!Goto(c, "caching") /\ P!NoFault
  BY <1>1, <1>2, <1>3, <1>4, <1>5 DEF P!Goto, P!Row, P!NoFault, Claimed
<1>6. CASE \/ order[c].owner \in DOMAIN claims /\ P!Goto(c, "refusing") /\ UNCHANGED claims /\ P!NoFault
           \/ /\ order[c].owner \notin DOMAIN claims /\ ~P!Row(worker[c])
              /\ P!Goto(c, "abandoning") /\ UNCHANGED claims /\ P!NoFault
           \/ P!Goto(c, "abandoning") /\ UNCHANGED claims /\ P!Fault
  BY <1>1, <1>2, <1>3, <1>6 DEF P!Goto, P!Row, P!NoFault, P!Fault, ClaimLost
<1> QED
  BY <1>5, <1>6 DEF P!Claim

(* The rollback of a creation and where it goes on.                        *)
LEMMA UndoEffect ==
  ASSUME P!TypeOK, RequestsOwn, NEW c \in Calls, P!Undo(c)
  PROVE  /\ UNCHANGED <<condemned, cached, fetched, order, hit>>
         /\ \/ P!Delete(worker[c]) /\ disturbed' = disturbed
            \/ UNCHANGED <<workers, claims, stored>> /\ disturbed'
         /\ \/ work[c] = "retrying" /\ Advance(c)
            \/ work[c] = "refusing" /\ worker' = worker /\ work' = [work EXCEPT ![c] = "exists"]
            \/ work[c] = "abandoning" /\ worker' = worker /\ work' = [work EXCEPT ![c] = "failed"]
BY NextEffect DEF P!Undo, P!NoFault, P!Fault, P!rows, P!memory, P!Goto

(* getCredential changes the map and nothing else.                         *)
LEMMA ConnectEffect ==
  ASSUME NEW k \in P!Ids, P!GetCredential(k)
  PROVE  /\ UNCHANGED <<workers, claims, stored, condemned, work, order, worker, hit, disturbed>>
         /\ cached' = cached \/ (k \in fetched /\ cached' = cached \cup {k})
BY DEF P!GetCredential, P!FetchHash, P!PutBack, P!NoFault, P!rows, P!request

-----------------------------------------------------------------------------
(* Types.                                                                  *)
LEMMA AdvanceType ==
  ASSUME P!TypeOK, NEW c \in Calls, Advance(c)
  PROVE  worker' \in [Calls -> P!Ids]
         /\ work' \in [Calls -> {"idle"} \cup P!Creating \cup P!Deleting \cup P!Answers]
BY IdParts, AttemptsAssumption DEF P!TypeOK, Advance, P!Ids, P!Creating, P!Answers

(* Every step keeps the types; the worker a request writes has the order   *)
(* of the request.                                                         *)
LEMMA WorkerTypeStep == P!TypeOK /\ RequestsOwn /\ [P!Next]_(P!vars) => P!TypeOK'
<1> SUFFICES ASSUME P!TypeOK, RequestsOwn, [P!Next]_(P!vars) PROVE P!TypeOK'
  OBVIOUS
<1> USE DEF P!TypeOK, P!Creating, P!Deleting, P!Answers
<1>1. ASSUME NEW c \in Calls, NEW o \in Known, NEW t \in P!Types, P!BeginCreate(c, o, t)
      PROVE  P!TypeOK'
  BY <1>1 DEF P!BeginCreate, P!Ask, P!Goto, P!NoFault, P!rows, P!memory, P!Orders, P!Types
<1>2. ASSUME NEW c \in Calls, NEW o \in Known, NEW a \in BOOLEAN, P!BeginDelete(c, o, a)
      PROVE  P!TypeOK'
  BY <1>2 DEF P!BeginDelete, P!Ask, P!Goto, P!NoFault, P!rows, P!memory, P!Orders, P!Types
<1>3. ASSUME NEW c \in Calls, P!Count(c) PROVE P!TypeOK'
  BY <1>3 DEF P!Count, P!Goto, P!NoFault, P!Fault, P!rows, P!memory, P!request
<1>4. ASSUME NEW c \in Calls, P!Seed(c) PROVE P!TypeOK'
  <2>1. /\ workers' \in [DOMAIN workers' -> P!Orders]
        /\ UNCHANGED <<condemned, claims, stored, cached, fetched, order, hit>>
    BY <1>4, SeedEffect
  <2>2. CASE Seeded(c)
    BY <2>1, <2>2 DEF Seeded
  <2>3. CASE workers' = workers /\ Advance(c) /\ disturbed'
    BY <2>1, <2>3, AdvanceType
  <2> QED
    BY <1>4, <2>2, <2>3, SeedEffect
<1>5. ASSUME NEW c \in Calls, P!Claim(c) PROVE P!TypeOK'
  <2>1. order[c].owner \in Known
    BY <1>5, ClaimEffect DEF P!Orders
  <2>2. DOMAIN claims' \in SUBSET Known /\ (disturbed' = disturbed \/ disturbed' = TRUE)
    BY <1>5, <2>1 DEF P!Claim, P!NoFault, P!Fault
  <2>3. work' \in [Calls -> {"idle"} \cup P!Creating \cup P!Deleting \cup P!Answers]
    BY <1>5, ClaimEffect DEF Claimed, ClaimLost
  <2> QED
    BY <1>5, <2>2, <2>3, ClaimEffect
<1>6. ASSUME NEW c \in Calls, P!Cache(c) PROVE P!TypeOK'
  BY <1>6 DEF P!Cache, P!Goto, P!NoFault, P!rows, P!memory, P!request
<1>7. ASSUME NEW c \in Calls, P!Store(c) PROVE P!TypeOK'
  BY <1>7 DEF P!Store, P!Goto, P!NoFault, P!Fault, P!Row, P!memory, P!request
<1>8. ASSUME NEW c \in Calls, P!Forget(c) PROVE P!TypeOK'
  BY <1>8 DEF P!Forget, P!Goto, P!NoFault, P!rows, P!memory, P!request
<1>9. ASSUME NEW c \in Calls, P!Undo(c) PROVE P!TypeOK'
  <2>1. disturbed' \in BOOLEAN
    BY <1>9 DEF P!Undo, P!NoFault, P!Fault
  <2>2. /\ DOMAIN workers' \in SUBSET P!Ids /\ \A w \in DOMAIN workers' : workers'[w] \in P!Orders
        /\ DOMAIN claims' \in SUBSET Known /\ \A p \in DOMAIN claims' : claims'[p] \in P!Ids
        /\ stored' \in SUBSET P!Ids
    <3>1. CASE P!Delete(worker[c])
      BY <3>1, DeleteEffect
    <3>2. CASE UNCHANGED <<workers, claims, stored>>
      BY <3>2
    <3> QED
      BY <1>9, <3>1, <3>2, UndoEffect
  <2>3. /\ worker' \in [Calls -> P!Ids]
        /\ work' \in [Calls -> {"idle"} \cup P!Creating \cup P!Deleting \cup P!Answers]
    BY <1>9, UndoEffect, AdvanceType
  <2> QED
    BY <1>9, <2>1, <2>2, <2>3, UndoEffect
<1>10. ASSUME NEW c \in Calls, P!Check(c) PROVE P!TypeOK'
  BY <1>10 DEF P!Check, P!Goto, P!NoFault, P!Fault, P!rows, P!memory, P!request
<1>11. ASSUME NEW c \in Calls, P!Uncache(c) PROVE P!TypeOK'
  BY <1>11 DEF P!Uncache, P!Hit, P!Goto, P!NoFault, P!rows, P!memory
<1>12. ASSUME NEW c \in Calls, P!Unstore(c) PROVE P!TypeOK'
  BY <1>12 DEF P!Unstore, P!memory, P!Hit, P!Goto, P!NoFault, P!Fault
<1>13. ASSUME NEW c \in Calls, P!Remove(c) PROVE P!TypeOK'
  <2>1. disturbed' \in BOOLEAN /\ hit' \in [Calls -> BOOLEAN]
    BY <1>13 DEF P!Remove, P!Hit, P!NoFault, P!Fault
  <2>2. /\ DOMAIN workers' \in SUBSET P!Ids /\ \A w \in DOMAIN workers' : workers'[w] \in P!Orders
        /\ DOMAIN claims' \in SUBSET Known /\ \A p \in DOMAIN claims' : claims'[p] \in P!Ids
        /\ stored' \in SUBSET P!Ids
    <3>1. CASE P!Delete(worker[c])
      BY <3>1, DeleteEffect
    <3>2. CASE UNCHANGED <<workers, claims, stored>>
      BY <3>2
    <3> QED
      BY <1>13, <3>1, <3>2 DEF P!Remove, P!rows, P!memory
  <2>3. work' \in [Calls -> {"idle"} \cup P!Creating \cup P!Deleting \cup P!Answers]
    BY <1>13 DEF P!Remove, P!Goto
  <2> QED
    BY <1>13, <2>1, <2>2, <2>3 DEF P!Remove, P!memory
<1>14. CASE P!Restart
  BY <1>14 DEF P!Restart, P!Creating, P!Deleting, P!rows, P!memory, P!request
<1>15. CASE UNCHANGED P!vars
  BY <1>15 DEF P!vars
<1>16. ASSUME NEW k \in P!Ids, P!GetCredential(k) PROVE P!TypeOK'
  BY <1>16 DEF P!GetCredential, P!FetchHash, P!PutBack, P!NoFault, P!rows, P!request
<1> QED
  BY <1>1, <1>2, <1>3, <1>4, <1>5, <1>6, <1>7, <1>8, <1>9, <1>10, <1>11, <1>12,
     <1>13, <1>14, <1>15, <1>16
  DEF P!Next, P!CreateWorker, P!DeleteWorker

-----------------------------------------------------------------------------
(* What the requests ask for and whose ids they work on.                   *)
RequestOwns(c) ==
  /\ work[c] = "idle" => worker[c] = <<c, 1>>
  /\ work[c] \in P!Creating \cup {"created"} => worker[c][1] = c
  /\ work[c] # "idle" => order[c] \in P!Orders
  /\ work[c] \in {"counting", "claiming", "refusing", "abandoning", "exists"} =>
       order[c].type = "worker-sys"
  /\ work[c] \in {"unstoring", "removing"} => worker[c] \in condemned

(* An id and an order change only where a request begins or goes round its *)
(* loop.                                                                   *)
LEMMA RequestOwnsStep ==
  P!TypeOK /\ RequestsOwn /\ [P!Next]_(P!vars) => \A d \in Calls : RequestOwns(d)'
<1> SUFFICES ASSUME P!TypeOK, RequestsOwn, [P!Next]_(P!vars), NEW d \in Calls
             PROVE  RequestOwns(d)'
  OBVIOUS
<1>a. RequestOwns(d)
  BY DEF RequestsOwn, RequestOwns
<1>b. /\ work \in [Calls -> {"idle"} \cup P!Creating \cup P!Deleting \cup P!Answers]
      /\ order \in [Calls -> P!Orders \cup {NoOrder}]
      /\ worker \in [Calls -> P!Ids]
  BY DEF P!TypeOK
<1>c. ASSUME NEW c \in Calls, work[c] # "idle", Advance(c), order' = order, condemned' = condemned
      PROVE  RequestOwns(d)'
  BY <1>a, <1>b, <1>c DEF RequestOwns, Advance, P!Creating
<1>1. ASSUME NEW c \in Calls, NEW o \in Known, NEW t \in P!Types, P!BeginCreate(c, o, t)
      PROVE  RequestOwns(d)'
  BY <1>1, <1>a, <1>b
     DEF P!BeginCreate, P!Ask, P!Goto, P!NoFault, P!rows, P!memory, P!Orders, P!Types, RequestOwns,
         P!Creating
<1>2. ASSUME NEW c \in Calls, NEW o \in Known, NEW a \in BOOLEAN, P!BeginDelete(c, o, a)
      PROVE  RequestOwns(d)'
  BY <1>2, <1>a, <1>b
     DEF P!BeginDelete, P!Ask, P!Goto, P!NoFault, P!rows, P!memory, P!Orders, P!Types, RequestOwns,
         P!Creating
<1>3. ASSUME NEW c \in Calls, P!Count(c) PROVE RequestOwns(d)'
  BY <1>3, <1>a, <1>b
     DEF P!Count, P!Goto, P!NoFault, P!Fault, P!rows, P!memory, P!request, RequestOwns, P!Creating
<1>4. ASSUME NEW c \in Calls, P!Seed(c) PROVE RequestOwns(d)'
  <2>1. CASE Seeded(c)
    BY <1>4, <1>a, <1>b, <2>1, SeedEffect DEF Seeded, RequestOwns, P!Creating
  <2>2. CASE Advance(c)
    BY <1>4, <1>c, <2>2, SeedEffect
  <2> QED
    BY <1>4, <2>1, <2>2, SeedEffect
<1>5. ASSUME NEW c \in Calls, P!Claim(c) PROVE RequestOwns(d)'
  <2>1. /\ work[c] = "claiming" /\ UNCHANGED <<condemned, order, worker>>
        /\ \E s \in {"caching", "refusing", "abandoning"} : work' = [work EXCEPT ![c] = s]
    BY <1>5, ClaimEffect DEF Claimed, ClaimLost
  <2> QED
    BY <1>a, <1>b, <2>1 DEF RequestOwns, P!Creating
<1>6. ASSUME NEW c \in Calls, P!Cache(c) PROVE RequestOwns(d)'
  BY <1>6, <1>a, <1>b
     DEF P!Cache, P!Goto, P!NoFault, P!rows, P!memory, P!request, RequestOwns, P!Creating
<1>7. ASSUME NEW c \in Calls, P!Store(c) PROVE RequestOwns(d)'
  BY <1>7, <1>a, <1>b
     DEF P!Store, P!Goto, P!NoFault, P!Fault, P!Row, P!memory, P!request, RequestOwns, P!Creating
<1>8. ASSUME NEW c \in Calls, P!Forget(c) PROVE RequestOwns(d)'
  BY <1>8, <1>a, <1>b
     DEF P!Forget, P!Goto, P!NoFault, P!rows, P!memory, P!request, RequestOwns, P!Creating
<1>9. ASSUME NEW c \in Calls, P!Undo(c) PROVE RequestOwns(d)'
  <2>1. CASE Advance(c)
    BY <1>9, <1>c, <2>1, UndoEffect
  <2>2. CASE ~Advance(c)
    BY <1>9, <1>a, <1>b, <2>2, UndoEffect DEF RequestOwns, P!Creating
  <2> QED
    BY <2>1, <2>2
<1>10. ASSUME NEW c \in Calls, P!Check(c) PROVE RequestOwns(d)'
  BY <1>10, <1>a, <1>b
     DEF P!Check, P!Goto, P!NoFault, P!Fault, P!rows, P!memory, P!request, RequestOwns, P!Creating
<1>11. ASSUME NEW c \in Calls, P!Uncache(c) PROVE RequestOwns(d)'
  BY <1>11, <1>a, <1>b
     DEF P!Uncache, P!Hit, P!Goto, P!NoFault, P!rows, P!memory, RequestOwns, P!Creating
<1>12. ASSUME NEW c \in Calls, P!Unstore(c) PROVE RequestOwns(d)'
  BY <1>12, <1>a, <1>b
     DEF P!Unstore, P!memory, P!Hit, P!Goto, P!NoFault, P!Fault, RequestOwns, P!Creating
<1>13. ASSUME NEW c \in Calls, P!Remove(c) PROVE RequestOwns(d)'
  <2>1. work[c] = "removing" /\ UNCHANGED <<condemned, order, worker>>
    BY <1>13 DEF P!Remove
  <2>2. work' = [work EXCEPT ![c] = "deleted"] \/ work' = [work EXCEPT ![c] = "not_found"]
    BY <1>13 DEF P!Remove, P!Goto
  <2> QED
    BY <1>13, <1>a, <1>b, <2>1, <2>2 DEF RequestOwns, P!Creating
<1>14. CASE P!Restart
  BY <1>14, <1>a, <1>b
     DEF P!Restart, P!Creating, P!Deleting, P!rows, P!memory, P!request, RequestOwns, P!Creating
<1>15. CASE UNCHANGED P!vars
  BY <1>15, <1>a, <1>b DEF P!vars, RequestOwns, P!Creating
<1>16. ASSUME NEW k \in P!Ids, P!GetCredential(k) PROVE RequestOwns(d)'
  BY <1>16, <1>a, ConnectEffect DEF RequestOwns
<1> QED
  BY <1>1, <1>2, <1>3, <1>4, <1>5, <1>6, <1>7, <1>8, <1>9, <1>10, <1>11, <1>12,
     <1>13, <1>14, <1>15, <1>16
  DEF P!Next, P!CreateWorker, P!DeleteWorker

(* Who writes the rows and the claims.                                     *)
LEMMA TableWriters ==
  ASSUME [P!Next]_(P!vars)
  PROVE  \/ UNCHANGED <<workers, claims>>
         \/ \E c \in Calls : P!Seed(c) \/ P!Claim(c) \/ P!Undo(c) \/ P!Remove(c)
<1> DEFINE Goal == \/ UNCHANGED <<workers, claims>>
                   \/ \E c \in Calls : P!Seed(c) \/ P!Claim(c) \/ P!Undo(c) \/ P!Remove(c)
<1>1. ASSUME NEW c \in Calls, NEW o \in Known, NEW t \in P!Types, P!BeginCreate(c, o, t)
      PROVE  Goal
  BY <1>1 DEF P!BeginCreate, P!Ask, P!Goto, P!NoFault, P!rows, P!memory
<1>2. ASSUME NEW c \in Calls, NEW o \in Known, NEW a \in BOOLEAN, P!BeginDelete(c, o, a)
      PROVE  Goal
  BY <1>2 DEF P!BeginDelete, P!Ask, P!Goto, P!NoFault, P!rows, P!memory
<1>3. ASSUME NEW c \in Calls, P!Count(c) PROVE Goal
  BY <1>3 DEF P!Count, P!Goto, P!NoFault, P!Fault, P!rows, P!memory, P!request
<1>4. ASSUME NEW c \in Calls, P!Seed(c) PROVE Goal
  BY <1>4
<1>5. ASSUME NEW c \in Calls, P!Claim(c) PROVE Goal
  BY <1>5
<1>6. ASSUME NEW c \in Calls, P!Cache(c) PROVE Goal
  BY <1>6 DEF P!Cache, P!Goto, P!NoFault, P!rows, P!memory, P!request
<1>7. ASSUME NEW c \in Calls, P!Store(c) PROVE Goal
  BY <1>7 DEF P!Store, P!Goto, P!NoFault, P!Fault, P!Row, P!memory, P!request
<1>8. ASSUME NEW c \in Calls, P!Forget(c) PROVE Goal
  BY <1>8 DEF P!Forget, P!Goto, P!NoFault, P!rows, P!memory, P!request
<1>9. ASSUME NEW c \in Calls, P!Undo(c) PROVE Goal
  BY <1>9
<1>10. ASSUME NEW c \in Calls, P!Check(c) PROVE Goal
  BY <1>10 DEF P!Check, P!Goto, P!NoFault, P!Fault, P!rows, P!memory, P!request
<1>11. ASSUME NEW c \in Calls, P!Uncache(c) PROVE Goal
  BY <1>11 DEF P!Uncache, P!Hit, P!Goto, P!NoFault, P!rows, P!memory
<1>12. ASSUME NEW c \in Calls, P!Unstore(c) PROVE Goal
  BY <1>12 DEF P!Unstore, P!memory, P!Hit, P!Goto, P!NoFault, P!Fault
<1>13. ASSUME NEW c \in Calls, P!Remove(c) PROVE Goal
  BY <1>13
<1>14. CASE P!Restart
  BY <1>14 DEF P!Restart, P!Creating, P!Deleting, P!rows, P!memory, P!request
<1>15. CASE UNCHANGED P!vars
  BY <1>15 DEF P!vars
<1>16. ASSUME NEW k \in P!Ids, P!GetCredential(k) PROVE Goal
  BY <1>16, ConnectEffect
<1> QED
  BY <1>1, <1>2, <1>3, <1>4, <1>5, <1>6, <1>7, <1>8, <1>9, <1>10, <1>11, <1>12,
     <1>13, <1>14, <1>15, <1>16
  DEF P!Next, P!CreateWorker, P!DeleteWorker

(* The tables stay functions.                                              *)
LEMMA TablesStep ==
  P!TypeOK /\ RequestsOwn /\ [P!Next]_(P!vars)
  => workers' \in [DOMAIN workers' -> P!Orders] /\ claims' \in [DOMAIN claims' -> P!Ids]
<1> SUFFICES ASSUME P!TypeOK, RequestsOwn, [P!Next]_(P!vars)
             PROVE  workers' \in [DOMAIN workers' -> P!Orders] /\ claims' \in [DOMAIN claims' -> P!Ids]
  OBVIOUS
<1>1. workers \in [DOMAIN workers -> P!Orders] /\ claims \in [DOMAIN claims -> P!Ids]
  BY DEF RequestsOwn
<1> QED
  BY <1>1, TableWriters, SeedEffect, ClaimEffect, UndoEffect, DeleteEffect
     DEF P!Remove, P!rows, P!memory

(* Together: RequestsOwn is kept.                                          *)
LEMMA RequestsOwnStep == P!TypeOK /\ RequestsOwn /\ [P!Next]_(P!vars) => RequestsOwn'
BY TablesStep, RequestOwnsStep DEF RequestsOwn, RequestOwns

-----------------------------------------------------------------------------
(* Fresh ids: a request never goes back to an id it has passed, and only   *)
(* the request that drew an id puts it on record.                          *)
LEMMA UndrawnBefore ==
  ASSUME P!TypeOK, RequestsOwn, [P!Next]_(P!vars), NEW w \in P!Ids, Undrawn(w)'
  PROVE  Undrawn(w)
<1>a. w[1] \in Calls /\ w[2] \in Int
  BY IdParts, AttemptsAssumption
<1>b. /\ work \in [Calls -> {"idle"} \cup P!Creating \cup P!Deleting \cup P!Answers]
      /\ worker \in [Calls -> P!Ids]
  BY DEF P!TypeOK
<1>c. \A c \in Calls : worker[c][2] \in Int
  BY <1>b, IdParts, AttemptsAssumption
<1>d. ASSUME NEW c \in Calls, work[c] \in {"seeding", "retrying"}, Advance(c) PROVE Undrawn(w)
  <2>1. CASE w[1] = c /\ worker' = [worker EXCEPT ![c] = <<c, worker[c][2] + 1>>]
               /\ work' = [work EXCEPT ![c] = "seeding"]
    <3>1. worker'[w[1]][2] = worker[c][2] + 1 /\ work'[w[1]] = "seeding"
      BY <1>b, <2>1
    <3>2. w[2] >= worker[c][2] + 1
      BY <3>1 DEF Undrawn, Early, Late
    <3> QED
      BY <1>a, <1>c, <1>d, <2>1, <3>2 DEF Undrawn, Early, Late
  <2>2. CASE w[1] = c /\ work' = [work EXCEPT ![c] = "failed"]
    BY <1>b, <2>2 DEF Undrawn, Early, Late
  <2>3. CASE w[1] # c
    BY <1>a, <1>b, <1>d, <2>3 DEF Advance, Undrawn
  <2> QED
    BY <1>d, <2>1, <2>2, <2>3 DEF Advance
<1>1. ASSUME NEW c \in Calls, NEW o \in Known, NEW t \in P!Types, P!BeginCreate(c, o, t)
      PROVE  Undrawn(w)
  BY <1>1, <1>a, <1>b, <1>c
     DEF P!BeginCreate, P!Ask, P!Goto, P!NoFault, P!rows, P!memory, Undrawn, Early, Late
<1>2. ASSUME NEW c \in Calls, NEW o \in Known, NEW a \in BOOLEAN, P!BeginDelete(c, o, a)
      PROVE  Undrawn(w)
  BY <1>2, <1>a, <1>b, <1>c
     DEF P!BeginDelete, P!Ask, P!Goto, P!NoFault, P!rows, P!memory, Undrawn, Early, Late
<1>3. ASSUME NEW c \in Calls, P!Count(c) PROVE Undrawn(w)
  BY <1>3, <1>a, <1>b, <1>c
     DEF P!Count, P!Goto, P!NoFault, P!Fault, P!rows, P!memory, P!request, Undrawn, Early, Late
<1>4. ASSUME NEW c \in Calls, P!Seed(c) PROVE Undrawn(w)
  <2>1. CASE Seeded(c)
    BY <1>4, <1>a, <1>b, <1>c, <2>1, SeedEffect DEF Seeded, Undrawn, Early, Late
  <2> QED
    BY <1>4, <1>d, <2>1, SeedEffect
<1>5. ASSUME NEW c \in Calls, P!Claim(c) PROVE Undrawn(w)
  <2>1. /\ work[c] = "claiming" /\ UNCHANGED <<condemned, order, worker>>
        /\ \E s \in {"caching", "refusing", "abandoning"} : work' = [work EXCEPT ![c] = s]
    BY <1>5, ClaimEffect DEF Claimed, ClaimLost
  <2> QED
    BY <1>a, <1>b, <1>c, <2>1 DEF Undrawn, Early, Late
<1>6. ASSUME NEW c \in Calls, P!Cache(c) PROVE Undrawn(w)
  BY <1>6, <1>a, <1>b, <1>c
     DEF P!Cache, P!Goto, P!NoFault, P!rows, P!memory, P!request, Undrawn, Early, Late
<1>7. ASSUME NEW c \in Calls, P!Store(c) PROVE Undrawn(w)
  BY <1>7, <1>a, <1>b, <1>c
     DEF P!Store, P!Goto, P!NoFault, P!Fault, P!Row, P!memory, P!request, Undrawn, Early, Late
<1>8. ASSUME NEW c \in Calls, P!Forget(c) PROVE Undrawn(w)
  BY <1>8, <1>a, <1>b, <1>c
     DEF P!Forget, P!Goto, P!NoFault, P!rows, P!memory, P!request, Undrawn, Early, Late
<1>9. ASSUME NEW c \in Calls, P!Undo(c) PROVE Undrawn(w)
  <2>1. CASE work[c] = "retrying" /\ Advance(c)
    BY <1>d, <2>1
  <2>2. CASE worker' = worker /\ \E s \in {"exists", "failed"} : work' = [work EXCEPT ![c] = s]
    BY <1>a, <1>b, <1>c, <2>2 DEF Undrawn, Early, Late
  <2> QED
    BY <1>9, <2>1, <2>2, UndoEffect
<1>10. ASSUME NEW c \in Calls, P!Check(c) PROVE Undrawn(w)
  BY <1>10, <1>a, <1>b, <1>c
     DEF P!Check, P!Goto, P!NoFault, P!Fault, P!rows, P!memory, P!request, Undrawn, Early, Late
<1>11. ASSUME NEW c \in Calls, P!Uncache(c) PROVE Undrawn(w)
  BY <1>11, <1>a, <1>b, <1>c
     DEF P!Uncache, P!Hit, P!Goto, P!NoFault, P!rows, P!memory, Undrawn, Early, Late
<1>12. ASSUME NEW c \in Calls, P!Unstore(c) PROVE Undrawn(w)
  BY <1>12, <1>a, <1>b, <1>c
     DEF P!Unstore, P!memory, P!Hit, P!Goto, P!NoFault, P!Fault, Undrawn, Early, Late
<1>13. ASSUME NEW c \in Calls, P!Remove(c) PROVE Undrawn(w)
  <2>1. worker' = worker /\ \E s \in {"deleted", "not_found"} : work' = [work EXCEPT ![c] = s]
    BY <1>13 DEF P!Remove, P!Goto
  <2> QED
    BY <1>a, <1>b, <1>c, <2>1 DEF Undrawn, Early, Late
<1>14. CASE P!Restart
  BY <1>14, <1>a, <1>b, <1>c
     DEF P!Restart, P!Creating, P!Deleting, P!rows, P!memory, P!request, Undrawn, Early, Late
<1>15. CASE UNCHANGED P!vars
  BY <1>15, <1>a, <1>b, <1>c DEF P!vars, Undrawn, Early, Late
<1>16. ASSUME NEW k \in P!Ids, P!GetCredential(k) PROVE Undrawn(w)
  BY <1>16, ConnectEffect DEF Undrawn
<1> QED
  BY <1>1, <1>2, <1>3, <1>4, <1>5, <1>6, <1>7, <1>8, <1>9, <1>10, <1>11, <1>12,
     <1>13, <1>14, <1>15, <1>16
  DEF P!Next, P!CreateWorker, P!DeleteWorker

(* Only its own request puts an id on record, and in doing so draws it.    *)
LEMMA UnbornStays ==
  ASSUME P!TypeOK, RequestsOwn, FetchedKnown, [P!Next]_(P!vars), NEW w \in P!Ids,
         Undrawn(w), Undrawn(w)', Unborn(w)
  PROVE  Unborn(w)'
<1>a. w[1] \in Calls /\ w[2] \in Int
  BY IdParts, AttemptsAssumption
<1>b. /\ work \in [Calls -> {"idle"} \cup P!Creating \cup P!Deleting \cup P!Answers]
      /\ worker \in [Calls -> P!Ids]
  BY DEF P!TypeOK
<1>c. /\ w \notin DOMAIN workers /\ w \notin stored /\ w \notin cached /\ w \notin condemned
      /\ \A d \in Calls : work[d] \in P!Deleting => worker[d] # w
  BY DEF Unborn
<1>d. ASSUME NEW c \in Calls, work[c] \in {"seeding", "retrying"}, Advance(c)
      PROVE  \A d \in Calls : work'[d] \in P!Deleting => worker'[d] # w
  BY <1>b, <1>c, <1>d DEF Advance, P!Deleting
<1>1. ASSUME NEW c \in Calls, NEW o \in Known, NEW t \in P!Types, P!BeginCreate(c, o, t)
      PROVE  Unborn(w)'
  BY <1>1, <1>a, <1>b, <1>c
     DEF P!BeginCreate, P!Ask, P!Goto, P!NoFault, P!rows, P!memory, Unborn, P!Deleting
<1>2. ASSUME NEW c \in Calls, NEW o \in Known, NEW a \in BOOLEAN, P!BeginDelete(c, o, a)
      PROVE  Unborn(w)'
  BY <1>2, <1>a, <1>b, <1>c
     DEF P!BeginDelete, P!Ask, P!Goto, P!NoFault, P!rows, P!memory, Unborn, P!Deleting
<1>3. ASSUME NEW c \in Calls, P!Count(c) PROVE Unborn(w)'
  BY <1>3, <1>a, <1>b, <1>c
     DEF P!Count, P!Goto, P!NoFault, P!Fault, P!rows, P!memory, P!request, Unborn, P!Deleting
<1>4. ASSUME NEW c \in Calls, P!Seed(c) PROVE Unborn(w)'
  <2>0. work[c] = "seeding" /\ UNCHANGED <<condemned, stored, cached>>
    BY <1>4, SeedEffect
  <2>1. CASE Seeded(c)
    <3>1. w # worker[c]
      BY <1>4, <1>a, <1>b, <2>1, OwnId DEF Seeded, Undrawn, Early, Late, P!Creating, P!Seed
    <3>2. w \notin DOMAIN workers'
      BY <1>c, <2>1, <3>1 DEF Seeded
    <3>3. \A d \in Calls : work'[d] \in P!Deleting => worker'[d] # w
      BY <1>b, <1>c, <2>1 DEF Seeded, P!Deleting
    <3> QED
      BY <1>c, <2>0, <3>2, <3>3 DEF Unborn
  <2>2. CASE workers' = workers /\ Advance(c)
    BY <1>c, <1>d, <2>0, <2>2 DEF Unborn
  <2> QED
    BY <1>4, <2>1, <2>2, SeedEffect
<1>5. ASSUME NEW c \in Calls, P!Claim(c) PROVE Unborn(w)'
  <2>1. /\ work[c] = "claiming" /\ UNCHANGED <<condemned, workers, stored, cached, order, worker>>
        /\ \E s \in {"caching", "refusing", "abandoning"} : work' = [work EXCEPT ![c] = s]
    BY <1>5, ClaimEffect DEF Claimed, ClaimLost
  <2> QED
    BY <1>b, <1>c, <2>1 DEF Unborn, P!Deleting
<1>6. ASSUME NEW c \in Calls, P!Cache(c) PROVE Unborn(w)'
  <2>1. w # worker[c]
    BY <1>6, <1>a, <1>b, OwnId DEF P!Cache, Undrawn, Early, Late, P!Creating
  <2> QED
    BY <1>6, <1>b, <1>c, <2>1 DEF P!Cache, P!Goto, P!rows, P!memory, P!request, Unborn, P!Deleting
<1>7. ASSUME NEW c \in Calls, P!Store(c) PROVE Unborn(w)'
  BY <1>7, <1>a, <1>b, <1>c
     DEF P!Store, P!Goto, P!NoFault, P!Fault, P!Row, P!memory, P!request, Unborn, P!Deleting
<1>8. ASSUME NEW c \in Calls, P!Forget(c) PROVE Unborn(w)'
  BY <1>8, <1>a, <1>b, <1>c
     DEF P!Forget, P!Goto, P!NoFault, P!rows, P!memory, P!request, Unborn, P!Deleting
<1>9. ASSUME NEW c \in Calls, P!Undo(c) PROVE Unborn(w)'
  <2>1. UNCHANGED <<condemned, cached>> /\ w \notin DOMAIN workers' /\ w \notin stored'
    BY <1>9, <1>c, UndoEffect, DeleteEffect
  <2>2. CASE work[c] = "retrying" /\ Advance(c)
    BY <1>c, <1>d, <2>1, <2>2 DEF Unborn
  <2>3. CASE worker' = worker /\ \E s \in {"exists", "failed"} : work' = [work EXCEPT ![c] = s]
    BY <1>b, <1>c, <2>1, <2>3 DEF Unborn, P!Deleting
  <2> QED
    BY <1>9, <2>2, <2>3, UndoEffect
<1>10. ASSUME NEW c \in Calls, P!Check(c) PROVE Unborn(w)'
  BY <1>10, <1>a, <1>b, <1>c
     DEF P!Check, P!Goto, P!NoFault, P!Fault, P!rows, P!memory, P!request, Unborn, P!Deleting
<1>11. ASSUME NEW c \in Calls, P!Uncache(c) PROVE Unborn(w)'
  BY <1>11, <1>a, <1>b, <1>c
     DEF P!Uncache, P!Hit, P!Goto, P!NoFault, P!rows, P!memory, Unborn, P!Deleting
<1>12. ASSUME NEW c \in Calls, P!Unstore(c) PROVE Unborn(w)'
  BY <1>12, <1>a, <1>b, <1>c
     DEF P!Unstore, P!memory, P!Hit, P!Goto, P!NoFault, P!Fault, Unborn, P!Deleting
<1>13. ASSUME NEW c \in Calls, P!Remove(c) PROVE Unborn(w)'
  <2>1. worker' = worker /\ \E s \in {"deleted", "not_found"} : work' = [work EXCEPT ![c] = s]
    BY <1>13 DEF P!Remove, P!Goto
  <2>2. UNCHANGED <<condemned, cached>> /\ w \notin DOMAIN workers' /\ w \notin stored'
    BY <1>13, <1>c, DeleteEffect DEF P!Remove, P!rows, P!memory
  <2> QED
    BY <1>b, <1>c, <2>1, <2>2 DEF Unborn, P!Deleting
<1>14. CASE P!Restart
  BY <1>14, <1>c DEF P!Restart, P!Creating, P!Deleting, P!rows, P!memory, P!request, Unborn
<1>15. CASE UNCHANGED P!vars
  BY <1>15, <1>a, <1>b, <1>c DEF P!vars, Unborn, P!Deleting
<1>16. ASSUME NEW k \in P!Ids, P!GetCredential(k) PROVE Unborn(w)'
  BY <1>16, <1>a, <1>c, ConnectEffect DEF FetchedKnown, Fetched, Undrawn, Unborn, Early, Late
<1> QED
  BY <1>1, <1>2, <1>3, <1>4, <1>5, <1>6, <1>7, <1>8, <1>9, <1>10, <1>11, <1>12,
     <1>13, <1>14, <1>15, <1>16
  DEF P!Next, P!CreateWorker, P!DeleteWorker

(* Together: IdsFresh is kept.                                             *)
LEMMA IdsFreshStep ==
  P!TypeOK /\ RequestsOwn /\ IdsFresh /\ FetchedKnown /\ [P!Next]_(P!vars) => IdsFresh'
<1> SUFFICES ASSUME P!TypeOK, RequestsOwn, IdsFresh, FetchedKnown, [P!Next]_(P!vars),
                    NEW w \in P!Ids, Undrawn(w)'
             PROVE  Unborn(w)'
  BY DEF IdsFresh
<1> QED
  BY UndrawnBefore, UnbornStays DEF IdsFresh

-----------------------------------------------------------------------------
(* A worker on record had its order placed: it is not that of a request    *)
(* that has not begun.                                                     *)
LEMMA OnRecord ==
  ASSUME P!TypeOK, RequestsOwn, IdsFresh,
         NEW w \in DOMAIN workers \cup stored \cup cached \cup condemned
  PROVE  /\ w \in P!Ids /\ w[1] \in Calls /\ work[w[1]] # "idle"
         /\ work[w[1]] \in {"counting", "seeding"} => worker[w[1]] # w
<1>1. w \in P!Ids
  BY DEF P!TypeOK
<1>2. w[1] \in Calls /\ w[2] \in 1..MaxAttempts
  BY <1>1, IdParts
<1>3. ~Undrawn(w)
  BY <1>1 DEF IdsFresh, Unborn
<1>4. work[w[1]] # "idle"
  BY <1>2, <1>3, AttemptsAssumption DEF Undrawn, Early, RequestsOwn
<1>5. work[w[1]] \in {"counting", "seeding"} => worker[w[1]] # w
  BY <1>2, <1>3, AttemptsAssumption DEF Undrawn, Early
<1> QED
  BY <1>1, <1>2, <1>4, <1>5

(* An order is placed once.                                                *)
LEMMA OrderStays ==
  ASSUME P!TypeOK, RequestsOwn, [P!Next]_(P!vars), NEW d \in Calls, work[d] # "idle"
  PROVE  order'[d] = order[d]
<1>a. order \in [Calls -> P!Orders \cup {NoOrder}]
  BY DEF P!TypeOK
<1>1. ASSUME NEW c \in Calls, NEW o \in Known, NEW t \in P!Types, P!BeginCreate(c, o, t)
      PROVE  order'[d] = order[d]
  BY <1>1, <1>a DEF P!BeginCreate, P!Ask, P!Goto, P!NoFault, P!rows, P!memory
<1>2. ASSUME NEW c \in Calls, NEW o \in Known, NEW a \in BOOLEAN, P!BeginDelete(c, o, a)
      PROVE  order'[d] = order[d]
  BY <1>2, <1>a DEF P!BeginDelete, P!Ask, P!Goto, P!NoFault, P!rows, P!memory
<1>3. ASSUME NEW c \in Calls, P!Count(c) PROVE order'[d] = order[d]
  BY <1>3, <1>a DEF P!Count, P!Goto, P!NoFault, P!Fault, P!rows, P!memory, P!request
<1>4. ASSUME NEW c \in Calls, P!Seed(c) PROVE order'[d] = order[d]
  BY <1>4, SeedEffect
<1>5. ASSUME NEW c \in Calls, P!Claim(c) PROVE order'[d] = order[d]
  BY <1>5, ClaimEffect
<1>6. ASSUME NEW c \in Calls, P!Cache(c) PROVE order'[d] = order[d]
  BY <1>6, <1>a DEF P!Cache, P!Goto, P!NoFault, P!rows, P!memory, P!request
<1>7. ASSUME NEW c \in Calls, P!Store(c) PROVE order'[d] = order[d]
  BY <1>7, <1>a DEF P!Store, P!Goto, P!NoFault, P!Fault, P!Row, P!memory, P!request
<1>8. ASSUME NEW c \in Calls, P!Forget(c) PROVE order'[d] = order[d]
  BY <1>8, <1>a DEF P!Forget, P!Goto, P!NoFault, P!rows, P!memory, P!request
<1>9. ASSUME NEW c \in Calls, P!Undo(c) PROVE order'[d] = order[d]
  BY <1>9, UndoEffect
<1>10. ASSUME NEW c \in Calls, P!Check(c) PROVE order'[d] = order[d]
  BY <1>10, <1>a DEF P!Check, P!Goto, P!NoFault, P!Fault, P!rows, P!memory, P!request
<1>11. ASSUME NEW c \in Calls, P!Uncache(c) PROVE order'[d] = order[d]
  BY <1>11, <1>a DEF P!Uncache, P!Hit, P!Goto, P!NoFault, P!rows, P!memory
<1>12. ASSUME NEW c \in Calls, P!Unstore(c) PROVE order'[d] = order[d]
  BY <1>12, <1>a DEF P!Unstore, P!memory, P!Hit, P!Goto, P!NoFault, P!Fault
<1>13. ASSUME NEW c \in Calls, P!Remove(c) PROVE order'[d] = order[d]
  BY <1>13 DEF P!Remove
<1>14. CASE P!Restart
  BY <1>14, <1>a DEF P!Restart, P!Creating, P!Deleting, P!rows, P!memory, P!request
<1>15. CASE UNCHANGED P!vars
  BY <1>15, <1>a DEF P!vars
<1>16. ASSUME NEW k \in P!Ids, P!GetCredential(k) PROVE order'[d] = order[d]
  BY <1>16, ConnectEffect
<1> QED
  BY <1>1, <1>2, <1>3, <1>4, <1>5, <1>6, <1>7, <1>8, <1>9, <1>10, <1>11, <1>12,
     <1>13, <1>14, <1>15, <1>16
  DEF P!Next, P!CreateWorker, P!DeleteWorker

(* The order a worker on record was made for stays.                        *)
LEMMA OrderOfRecord ==
  ASSUME P!TypeOK, RequestsOwn, IdsFresh, [P!Next]_(P!vars),
         NEW w \in DOMAIN workers \cup stored \cup cached \cup condemned
  PROVE  order'[w[1]] = order[w[1]]
BY OnRecord, OrderStays

(* The foreign keys.                                                       *)
LEMMA SeededId ==
  ASSUME P!TypeOK, RequestsOwn, IdsFresh, NEW c \in Calls, work[c] = "seeding"
  PROVE  Unborn(worker[c])
<1>1. worker[c] \in P!Ids /\ worker[c][1] = c
  BY OwnId DEF P!Creating
<1>2. worker[c][2] \in Int
  BY <1>1, IdParts, AttemptsAssumption
<1> QED
  BY <1>1, <1>2 DEF IdsFresh, Undrawn, Early

(* Who writes worker_nodes, the claims and the credentials.                *)
LEMMA StoredWriters ==
  ASSUME [P!Next]_(P!vars)
  PROVE  \/ stored' \subseteq stored /\ UNCHANGED <<workers, claims>>
         \/ \E c \in Calls : P!Seed(c) \/ P!Claim(c) \/ P!Store(c) \/ P!Undo(c) \/ P!Remove(c)
<1> DEFINE Goal == \/ stored' \subseteq stored /\ UNCHANGED <<workers, claims>>
                   \/ \E c \in Calls :
                        P!Seed(c) \/ P!Claim(c) \/ P!Store(c) \/ P!Undo(c) \/ P!Remove(c)
<1>1. ASSUME NEW c \in Calls, NEW o \in Known, NEW t \in P!Types, P!BeginCreate(c, o, t)
      PROVE  Goal
  BY <1>1 DEF P!BeginCreate, P!Ask, P!Goto, P!NoFault, P!rows, P!memory
<1>2. ASSUME NEW c \in Calls, NEW o \in Known, NEW a \in BOOLEAN, P!BeginDelete(c, o, a)
      PROVE  Goal
  BY <1>2 DEF P!BeginDelete, P!Ask, P!Goto, P!NoFault, P!rows, P!memory
<1>3. ASSUME NEW c \in Calls, P!Count(c) PROVE Goal
  BY <1>3 DEF P!Count, P!Goto, P!NoFault, P!Fault, P!rows, P!memory, P!request
<1>4. ASSUME NEW c \in Calls, P!Seed(c) PROVE Goal
  BY <1>4
<1>5. ASSUME NEW c \in Calls, P!Claim(c) PROVE Goal
  BY <1>5
<1>6. ASSUME NEW c \in Calls, P!Cache(c) PROVE Goal
  BY <1>6 DEF P!Cache, P!Goto, P!NoFault, P!rows, P!memory, P!request
<1>7. ASSUME NEW c \in Calls, P!Store(c) PROVE Goal
  BY <1>7
<1>8. ASSUME NEW c \in Calls, P!Forget(c) PROVE Goal
  BY <1>8 DEF P!Forget, P!Goto, P!NoFault, P!rows, P!memory, P!request
<1>9. ASSUME NEW c \in Calls, P!Undo(c) PROVE Goal
  BY <1>9
<1>10. ASSUME NEW c \in Calls, P!Check(c) PROVE Goal
  BY <1>10 DEF P!Check, P!Goto, P!NoFault, P!Fault, P!rows, P!memory, P!request
<1>11. ASSUME NEW c \in Calls, P!Uncache(c) PROVE Goal
  BY <1>11 DEF P!Uncache, P!Hit, P!Goto, P!NoFault, P!rows, P!memory
<1>12. ASSUME NEW c \in Calls, P!Unstore(c) PROVE Goal
  BY <1>12 DEF P!Unstore, P!memory, P!Hit, P!Goto, P!NoFault, P!Fault
<1>13. ASSUME NEW c \in Calls, P!Remove(c) PROVE Goal
  BY <1>13
<1>14. CASE P!Restart
  BY <1>14 DEF P!Restart, P!Creating, P!Deleting, P!rows, P!memory, P!request
<1>15. CASE UNCHANGED P!vars
  BY <1>15 DEF P!vars
<1>16. ASSUME NEW k \in P!Ids, P!GetCredential(k) PROVE Goal
  BY <1>16, ConnectEffect
<1> QED
  BY <1>1, <1>2, <1>3, <1>4, <1>5, <1>6, <1>7, <1>8, <1>9, <1>10, <1>11, <1>12,
     <1>13, <1>14, <1>15, <1>16
  DEF P!Next, P!CreateWorker, P!DeleteWorker

LinkedRows == \A w \in DOMAIN workers : workers[w] = order[w[1]]
Referring ==
  /\ stored \subseteq DOMAIN workers
  /\ \A o \in DOMAIN claims : claims[o] \in DOMAIN workers /\ workers[claims[o]] = Sys(o)

(* The foreign keys hold after each of them (ON DELETE CASCADE).           *)
LEMMA RowsLinkedStep ==
  P!TypeOK /\ RequestsOwn /\ IdsFresh /\ RowsLinked /\ [P!Next]_(P!vars) => RowsLinked'
<1> SUFFICES ASSUME P!TypeOK, RequestsOwn, IdsFresh, RowsLinked, [P!Next]_(P!vars)
             PROVE  LinkedRows' /\ Referring'
  BY DEF RowsLinked, LinkedRows, Referring
<1>0. LinkedRows /\ Referring
  BY DEF RowsLinked, LinkedRows, Referring
<1>1. \A w \in DOMAIN workers : order'[w[1]] = order[w[1]]
  BY OrderOfRecord
<1>2. CASE stored' \subseteq stored /\ UNCHANGED <<workers, claims>>
  BY <1>0, <1>1, <1>2 DEF LinkedRows, Referring
<1>3. ASSUME NEW c \in Calls, P!Seed(c) PROVE LinkedRows' /\ Referring'
  <2>1. CASE Seeded(c)
    <3>1. /\ work[c] = "seeding" /\ order' = order
          /\ UNCHANGED <<claims, stored>>
      BY <1>3, SeedEffect
    <3>2. worker[c] \notin DOMAIN workers /\ worker[c][1] = c
      BY <3>1, SeededId, OwnId DEF Unborn, P!Creating
    <3>3. LinkedRows'
      BY <1>0, <2>1, <3>1, <3>2 DEF LinkedRows, Seeded
    <3>4. Referring'
      BY <1>0, <2>1, <3>1, <3>2 DEF Referring, Seeded
    <3> QED
      BY <3>3, <3>4
  <2>2. CASE workers' = workers
    BY <1>0, <1>3, <2>2, SeedEffect DEF LinkedRows, Referring
  <2> QED
    BY <1>3, <2>1, <2>2, SeedEffect
<1>4. ASSUME NEW c \in Calls, P!Claim(c) PROVE LinkedRows' /\ Referring'
  <2>1. UNCHANGED <<workers, stored, order>> /\ order[c] = Sys(order[c].owner)
    BY <1>4, ClaimEffect
  <2>2. CASE Claimed(c)
    <3>1. worker[c][1] = c
      BY <1>4, OwnId, ClaimEffect DEF P!Creating
    <3>2. workers[worker[c]] = Sys(order[c].owner)
      BY <1>0, <2>1, <2>2, <3>1 DEF LinkedRows, Claimed
    <3>3. Referring'
      BY <1>0, <2>1, <2>2, <3>2 DEF Referring, Claimed
    <3> QED
      BY <1>0, <2>1, <3>3 DEF LinkedRows
  <2>3. CASE ClaimLost(c)
    BY <1>0, <2>1, <2>3 DEF LinkedRows, Referring, ClaimLost
  <2> QED
    BY <1>4, <2>2, <2>3, ClaimEffect
<1>5. ASSUME NEW c \in Calls, P!Store(c) PROVE LinkedRows' /\ Referring'
  BY <1>0, <1>5 DEF P!Store, P!Row, P!memory, P!request, LinkedRows, Referring
<1>6. ASSUME NEW w, P!Delete(w) PROVE LinkedRows' /\ Referring'
  <2>1. /\ DOMAIN workers' = DOMAIN workers \ {w} /\ stored' = stored \ {w}
        /\ \A v \in DOMAIN workers' : workers'[v] = workers[v]
        /\ DOMAIN claims' = {o \in DOMAIN claims : claims[o] # w}
        /\ \A o \in DOMAIN claims' : claims'[o] = claims[o]
    BY <1>6, DeleteEffect
  <2>2. LinkedRows'
    BY <1>0, <1>1, <2>1 DEF LinkedRows
  <2>3. Referring'
    BY <1>0, <2>1 DEF Referring
  <2> QED
    BY <2>2, <2>3
<1>7. ASSUME NEW c \in Calls, P!Undo(c) \/ P!Remove(c) PROVE LinkedRows' /\ Referring'
  <2>1. P!Delete(worker[c]) \/ UNCHANGED <<workers, claims, stored>>
    BY <1>7, UndoEffect DEF P!Remove, P!rows, P!memory
  <2> QED
    BY <1>2, <1>6, <2>1
<1> QED
  BY <1>2, <1>3, <1>4, <1>5, <1>7, StoredWriters

-----------------------------------------------------------------------------
(* Only the holder of the claim comes near a credential.                   *)
(* Who comes near one: a creation that has won its claim, or needs none.   *)
Progress(w) == worker[w[1]] = w /\ work[w[1]] \in {"caching", "storing"}

(* Nobody else comes near a credential.                                    *)
LEMMA NearBefore ==
  ASSUME P!TypeOK, RequestsOwn, [P!Next]_(P!vars), NEW w \in P!Ids, Near(w)'
  PROVE  \/ Near(w)
         \/ Seeded(w[1]) /\ P!Seed(w[1]) /\ w = worker[w[1]] /\ order[w[1]].type # "worker-sys"
         \/ Claimed(w[1]) /\ P!Claim(w[1]) /\ w = worker[w[1]]
         \/ w \in fetched /\ UNCHANGED <<workers, claims>>
<1> SUFFICES ASSUME ~Near(w)
             PROVE  \/ Seeded(w[1]) /\ P!Seed(w[1]) /\ w = worker[w[1]] /\ order[w[1]].type # "worker-sys"
                    \/ Claimed(w[1]) /\ P!Claim(w[1]) /\ w = worker[w[1]]
                    \/ w \in fetched /\ UNCHANGED <<workers, claims>>
  OBVIOUS
<1> DEFINE New == \/ Seeded(w[1]) /\ P!Seed(w[1]) /\ w = worker[w[1]] /\ order[w[1]].type # "worker-sys"
                  \/ Claimed(w[1]) /\ P!Claim(w[1]) /\ w = worker[w[1]]
                  \/ w \in fetched /\ UNCHANGED <<workers, claims>>
<1> HIDE DEF New
<1> SUFFICES New
  BY DEF New
<1>a. w[1] \in Calls
  BY IdParts
<1>b. /\ work \in [Calls -> {"idle"} \cup P!Creating \cup P!Deleting \cup P!Answers]
      /\ worker \in [Calls -> P!Ids]
  BY DEF P!TypeOK
<1>c. w \notin cached /\ w \notin stored /\ ~Progress(w)
  BY DEF Near, Progress
<1>d. w \in cached' \/ w \in stored' \/ Progress(w)'
  BY DEF Near, Progress
<1>e. ASSUME NEW c \in Calls, Advance(c) PROVE ~Progress(w)'
  BY <1>a, <1>b, <1>c, <1>e DEF Advance, Progress
<1>1. ASSUME NEW c \in Calls, NEW o \in Known, NEW t \in P!Types, P!BeginCreate(c, o, t)
      PROVE  New
  BY <1>1, <1>a, <1>b, <1>c, <1>d
     DEF P!BeginCreate, P!Ask, P!Goto, P!NoFault, P!rows, P!memory, Progress
<1>2. ASSUME NEW c \in Calls, NEW o \in Known, NEW a \in BOOLEAN, P!BeginDelete(c, o, a)
      PROVE  New
  BY <1>2, <1>a, <1>b, <1>c, <1>d
     DEF P!BeginDelete, P!Ask, P!Goto, P!NoFault, P!rows, P!memory, Progress
<1>3. ASSUME NEW c \in Calls, P!Count(c) PROVE New
  BY <1>3, <1>a, <1>b, <1>c, <1>d
     DEF P!Count, P!Goto, P!NoFault, P!Fault, P!rows, P!memory, P!request, Progress
<1>4. ASSUME NEW c \in Calls, P!Seed(c) PROVE New
  <2>1. UNCHANGED <<stored, cached>>
    BY <1>4, SeedEffect
  <2>2. CASE Seeded(c)
    <3>1. CASE w[1] = c
      BY <1>4, <1>b, <1>c, <1>d, <2>1, <2>2, <3>1 DEF Seeded, Progress, New
    <3>2. CASE w[1] # c
      BY <1>a, <1>b, <1>c, <1>d, <2>1, <2>2, <3>2 DEF Seeded, Progress
    <3> QED
      BY <3>1, <3>2
  <2>3. CASE Advance(c)
    BY <1>c, <1>d, <1>e, <2>1, <2>3
  <2> QED
    BY <1>4, <2>2, <2>3, SeedEffect
<1>5. ASSUME NEW c \in Calls, P!Claim(c) PROVE New
  <2>1. UNCHANGED <<stored, cached, worker>>
    BY <1>5, ClaimEffect
  <2>2. CASE Claimed(c)
    <3>1. CASE w[1] = c
      BY <1>5, <1>b, <1>c, <1>d, <2>1, <2>2, <3>1 DEF Claimed, Progress, New
    <3>2. CASE w[1] # c
      BY <1>a, <1>b, <1>c, <1>d, <2>1, <2>2, <3>2 DEF Claimed, Progress
    <3> QED
      BY <3>1, <3>2
  <2>3. CASE ClaimLost(c)
    BY <1>a, <1>b, <1>c, <1>d, <2>1, <2>3 DEF ClaimLost, Progress
  <2> QED
    BY <1>5, <2>2, <2>3, ClaimEffect
<1>6. ASSUME NEW c \in Calls, P!Cache(c) PROVE New
  BY <1>6, <1>a, <1>b, <1>c, <1>d, OwnId
     DEF P!Cache, P!Goto, P!rows, P!memory, P!request, Progress, P!Creating
<1>7. ASSUME NEW c \in Calls, P!Store(c) PROVE New
  BY <1>7, <1>a, <1>b, <1>c, <1>d, OwnId
     DEF P!Store, P!Goto, P!memory, P!request, Progress, P!Creating
<1>8. ASSUME NEW c \in Calls, P!Forget(c) PROVE New
  BY <1>8, <1>a, <1>b, <1>c, <1>d
     DEF P!Forget, P!Goto, P!NoFault, P!rows, P!memory, P!request, Progress
<1>9. ASSUME NEW c \in Calls, P!Undo(c) PROVE New
  <2>1. cached' = cached /\ stored' \subseteq stored
    BY <1>9, UndoEffect, DeleteEffect
  <2>2. CASE Advance(c)
    BY <1>c, <1>d, <1>e, <2>1, <2>2
  <2>3. CASE worker' = worker /\ \E s \in {"exists", "failed"} : work' = [work EXCEPT ![c] = s]
    BY <1>a, <1>b, <1>c, <1>d, <2>1, <2>3 DEF Progress
  <2> QED
    BY <1>9, <2>2, <2>3, UndoEffect
<1>10. ASSUME NEW c \in Calls, P!Check(c) PROVE New
  BY <1>10, <1>a, <1>b, <1>c, <1>d
     DEF P!Check, P!Goto, P!NoFault, P!Fault, P!rows, P!memory, P!request, Progress
<1>11. ASSUME NEW c \in Calls, P!Uncache(c) PROVE New
  BY <1>11, <1>a, <1>b, <1>c, <1>d
     DEF P!Uncache, P!Hit, P!Goto, P!NoFault, P!rows, P!memory, Progress
<1>12. ASSUME NEW c \in Calls, P!Unstore(c) PROVE New
  BY <1>12, <1>a, <1>b, <1>c, <1>d
     DEF P!Unstore, P!memory, P!Hit, P!Goto, P!NoFault, P!Fault, Progress
<1>13. ASSUME NEW c \in Calls, P!Remove(c) PROVE New
  <2>1. worker' = worker /\ \E s \in {"deleted", "not_found"} : work' = [work EXCEPT ![c] = s]
    BY <1>13 DEF P!Remove, P!Goto
  <2>2. cached' = cached /\ stored' \subseteq stored
    BY <1>13, DeleteEffect DEF P!Remove, P!rows, P!memory
  <2> QED
    BY <1>a, <1>b, <1>c, <1>d, <2>1, <2>2 DEF Progress
<1>14. CASE P!Restart
  BY <1>14, <1>a, <1>c, <1>d
     DEF P!Restart, P!Creating, P!Deleting, P!rows, P!memory, P!request, Progress
<1>15. CASE UNCHANGED P!vars
  BY <1>15, <1>a, <1>b, <1>c, <1>d DEF P!vars, Progress
<1>16. ASSUME NEW k \in P!Ids, P!GetCredential(k) PROVE New
  BY <1>16, <1>c, <1>d, ConnectEffect DEF Progress, New
<1> QED
  BY <1>1, <1>2, <1>3, <1>4, <1>5, <1>6, <1>7, <1>8, <1>9, <1>10, <1>11, <1>12,
     <1>13, <1>14, <1>15, <1>16
  DEF P!Next, P!CreateWorker, P!DeleteWorker

(* A claim lasts as long as its row.                                       *)
LEMMA HoldsStays ==
  ASSUME P!TypeOK, RequestsOwn, [P!Next]_(P!vars),
         NEW w \in DOMAIN workers, w \in DOMAIN workers', workers'[w] = workers[w], Holds(w)
  PROVE  Holds(w)'
<1>1. CASE UNCHANGED <<workers, claims>>
  BY <1>1 DEF Holds
<1>2. ASSUME NEW v, P!Delete(v) PROVE Holds(w)'
  <2>1. /\ DOMAIN workers' = DOMAIN workers \ {v}
        /\ DOMAIN claims' = {o \in DOMAIN claims : claims[o] # v}
        /\ \A o \in DOMAIN claims' : claims'[o] = claims[o]
    BY <1>2, DeleteEffect
  <2>2. w # v
    BY <2>1
  <2> QED
    BY <2>1, <2>2 DEF Holds
<1>3. ASSUME NEW c \in Calls, P!Seed(c) PROVE Holds(w)'
  BY <1>3, SeedEffect DEF Holds
<1>4. ASSUME NEW c \in Calls, P!Claim(c) PROVE Holds(w)'
  <2>1. CASE Claimed(c)
    BY <2>1 DEF Holds, Claimed
  <2>2. CASE ClaimLost(c)
    BY <2>2 DEF Holds, ClaimLost
  <2> QED
    BY <1>4, <2>1, <2>2, ClaimEffect
<1>5. ASSUME NEW c \in Calls, P!Undo(c) \/ P!Remove(c) PROVE Holds(w)'
  BY <1>1, <1>2, <1>5, UndoEffect DEF P!Remove, P!rows, P!memory
<1> QED
  BY <1>1, <1>3, <1>4, <1>5, TableWriters

(* Who makes a row.                                                        *)
LEMMA RowMaker ==
  ASSUME P!TypeOK, RequestsOwn, [P!Next]_(P!vars), NEW w \in DOMAIN workers', w \notin DOMAIN workers
  PROVE  \E c \in Calls : P!Seed(c) /\ Seeded(c) /\ w = worker[c]
<1>1. workers' # workers
  OBVIOUS
<1>2. \A v : P!Delete(v) => w \notin DOMAIN workers'
  BY DeleteEffect
<1>3. \A c \in Calls : ~P!Undo(c) /\ ~P!Remove(c)
  BY <1>1, <1>2, UndoEffect DEF P!Remove, P!rows, P!memory
<1>4. \A c \in Calls : ~P!Claim(c)
  BY <1>1, ClaimEffect
<1>5. PICK c \in Calls : P!Seed(c)
  BY <1>1, <1>3, <1>4, TableWriters
<1>6. Seeded(c)
  BY <1>1, <1>5, SeedEffect
<1> QED
  BY <1>5, <1>6 DEF Seeded

(* A worker-sys comes near its credential by winning the claim, and keeps  *)
(* the claim as long as its row.                                           *)
LEMMA HoldersStep ==
  /\ P!TypeOK /\ RequestsOwn /\ IdsFresh /\ RowsLinked /\ HoldersOnly /\ FetchedKnown
  /\ [P!Next]_(P!vars)
  => HoldersOnly'
<1> SUFFICES ASSUME P!TypeOK, RequestsOwn, IdsFresh, RowsLinked, HoldersOnly, FetchedKnown,
                    [P!Next]_(P!vars), NEW w \in DOMAIN workers', workers'[w].type = "worker-sys", Near(w)'
             PROVE  Holds(w)'
  BY DEF HoldersOnly
<1>a. w \in P!Ids
  BY WorkerTypeStep DEF P!TypeOK
<1>b. w \in DOMAIN workers => workers'[w] = workers[w]
  <2> SUFFICES ASSUME w \in DOMAIN workers PROVE workers'[w] = workers[w]
    OBVIOUS
  <2>1. workers'[w] = order'[w[1]] /\ workers[w] = order[w[1]]
    BY RowsLinkedStep DEF RowsLinked
  <2> QED
    BY <2>1, OrderOfRecord
<1>1. CASE Seeded(w[1]) /\ P!Seed(w[1]) /\ w = worker[w[1]] /\ order[w[1]].type # "worker-sys"
  BY <1>1 DEF Seeded
<1>2. CASE Claimed(w[1]) /\ P!Claim(w[1]) /\ w = worker[w[1]]
  <2>1. w[1] \in Calls
    BY <1>a, IdParts
  <2>2. workers' = workers /\ workers[w] = order[w[1]]
    BY <1>2, <2>1, ClaimEffect DEF Claimed, RowsLinked
  <2> QED
    BY <1>2, <2>2 DEF Claimed, Holds
<1>3. CASE Near(w)
  <2>1. CASE w \in DOMAIN workers
    BY <1>3, <1>b, <2>1, HoldsStays DEF HoldersOnly
  <2>2. CASE w \notin DOMAIN workers
    <3>1. PICK c \in Calls : P!Seed(c) /\ Seeded(c) /\ w = worker[c]
      BY <2>2, RowMaker
    <3>2. work[c] = "seeding" /\ worker[c][1] = c
      BY <3>1, SeedEffect, OwnId DEF P!Creating
    <3>3. Unborn(w)
      BY <3>1, <3>2, SeededId
    <3> QED
      BY <1>3, <3>1, <3>2, <3>3 DEF Near, Unborn
  <2> QED
    BY <2>1, <2>2
<1>4. CASE w \in fetched /\ UNCHANGED <<workers, claims>>
  BY <1>4 DEF FetchedKnown, Fetched, Holds
<1> QED
  BY <1>a, <1>1, <1>2, <1>3, <1>4, NearBefore

-----------------------------------------------------------------------------
(* A rollback and a deletion take their own worker off the tables.         *)
LEMMA OthersStay ==
  ASSUME P!TypeOK, RequestsOwn, NEW c \in Calls, P!Undo(c) \/ P!Remove(c)
  PROVE  /\ \A w \in DOMAIN workers : w # worker[c] => w \in DOMAIN workers'
         /\ \A w \in stored : w # worker[c] => w \in stored'
<1>1. P!Delete(worker[c]) \/ UNCHANGED <<workers, claims, stored>>
  BY UndoEffect DEF P!Remove, P!rows, P!memory
<1>2. CASE P!Delete(worker[c])
  <2>1. DOMAIN workers' = DOMAIN workers \ {worker[c]} /\ stored' = stored \ {worker[c]}
    BY <1>2, DeleteEffect
  <2> QED
    BY <2>1
<1>3. CASE UNCHANGED <<workers, claims, stored>>
  BY <1>3
<1> QED
  BY <1>1, <1>2, <1>3

(* A creation on its way, and one that was answered.                       *)
Travels(d) ==
  /\ work[d] = "storing" => worker[d] \in cached \cup condemned
  /\ work[d] \in {"claiming", "retrying", "refusing", "abandoning"} => worker[d] \notin cached
  /\ work[d] \in {"claiming", "caching", "storing"} => worker[d] \in DOMAIN workers \cup condemned

(* A creation loses its row only to a deletion, and its entry of the map   *)
(* only to a deletion or its own rollback.                                 *)
LEMMA OnTheWayStep ==
  /\ P!TypeOK /\ RequestsOwn /\ IdsFresh /\ RowsLinked /\ OnTheWay /\ FetchedKnown
  /\ [P!Next]_(P!vars)
  => OnTheWay'
<1> SUFFICES ASSUME P!TypeOK, RequestsOwn, IdsFresh, RowsLinked, OnTheWay, FetchedKnown,
                    [P!Next]_(P!vars), NEW d \in Calls
             PROVE  Travels(d)'
  BY DEF OnTheWay, Travels
<1>a. Travels(d)
  BY DEF OnTheWay, Travels
<1>b. /\ work \in [Calls -> {"idle"} \cup P!Creating \cup P!Deleting \cup P!Answers]
      /\ worker \in [Calls -> P!Ids]
  BY DEF P!TypeOK
<1>c. /\ \A c \in Calls : work[c] \in P!Creating \cup {"created"} => worker[c][1] = c
      /\ \A c \in Calls : work[c] \in {"unstoring", "removing"} => worker[c] \in condemned
  BY DEF RequestsOwn
<1>1. ASSUME NEW c \in Calls, NEW o \in Known, NEW t \in P!Types, P!BeginCreate(c, o, t)
      PROVE  Travels(d)'
  BY <1>1, <1>a, <1>b, <1>c
     DEF P!BeginCreate, P!Ask, P!Goto, P!NoFault, P!rows, P!memory, Travels, P!Creating
<1>2. ASSUME NEW c \in Calls, NEW o \in Known, NEW a \in BOOLEAN, P!BeginDelete(c, o, a)
      PROVE  Travels(d)'
  BY <1>2, <1>a, <1>b, <1>c
     DEF P!BeginDelete, P!Ask, P!Goto, P!NoFault, P!rows, P!memory, Travels, P!Creating
<1>3. ASSUME NEW c \in Calls, P!Count(c) PROVE Travels(d)'
  BY <1>3, <1>a, <1>b, <1>c
     DEF P!Count, P!Goto, P!NoFault, P!Fault, P!rows, P!memory, P!request, Travels, P!Creating
<1>4. ASSUME NEW c \in Calls, P!Seed(c) PROVE Travels(d)'
  <2>1. work[c] = "seeding" /\ worker[c][1] = c /\ UNCHANGED <<condemned, stored, cached>>
    BY <1>4, <1>c, SeedEffect DEF P!Creating
  <2>2. CASE Seeded(c)
    <3>1. CASE c = d
      <4>1. worker[d] \notin cached
        BY <2>1, <3>1, SeededId DEF Unborn
      <4> QED
        BY <1>b, <2>1, <2>2, <3>1, <4>1 DEF Seeded, Travels
    <3>2. CASE c # d
      BY <1>a, <1>b, <1>c, <2>1, <2>2, <3>2 DEF Seeded, Travels
    <3> QED
      BY <3>1, <3>2
  <2>3. CASE workers' = workers /\ Advance(c)
    BY <1>a, <1>b, <2>1, <2>3 DEF Advance, Travels
  <2> QED
    BY <1>4, <2>2, <2>3, SeedEffect
<1>5. ASSUME NEW c \in Calls, P!Claim(c) PROVE Travels(d)'
  <2>1. work[c] = "claiming" /\ UNCHANGED <<condemned, workers, stored, cached, worker>>
    BY <1>5, ClaimEffect
  <2>2. \E s \in {"caching", "refusing", "abandoning"} : work' = [work EXCEPT ![c] = s]
    BY <1>5, ClaimEffect DEF Claimed, ClaimLost
  <2> QED
    BY <1>a, <1>b, <2>1, <2>2 DEF Travels
<1>6. ASSUME NEW c \in Calls, P!Cache(c) PROVE Travels(d)'
  BY <1>6, <1>a, <1>b, <1>c
     DEF P!Cache, P!Goto, P!NoFault, P!rows, P!memory, P!request, Travels, P!Creating
<1>7. ASSUME NEW c \in Calls, P!Store(c) PROVE Travels(d)'
  BY <1>7, <1>a, <1>b, <1>c
     DEF P!Store, P!Goto, P!NoFault, P!Fault, P!Row, P!memory, P!request, Travels, P!Creating
<1>8. ASSUME NEW c \in Calls, P!Forget(c) PROVE Travels(d)'
  BY <1>8, <1>a, <1>b, <1>c
     DEF P!Forget, P!Goto, P!NoFault, P!rows, P!memory, P!request, Travels, P!Creating
<1>9. ASSUME NEW c \in Calls, P!Undo(c) PROVE Travels(d)'
  <2>1. /\ work[c] \in {"retrying", "refusing", "abandoning"} /\ worker[c][1] = c
        /\ UNCHANGED <<condemned, cached>>
    BY <1>9, <1>c, UndoEffect DEF P!Creating
  <2>2. /\ \A w \in DOMAIN workers : w # worker[c] => w \in DOMAIN workers'
        /\ \A w \in stored : w # worker[c] => w \in stored'
    BY <1>9, OthersStay
  <2>3. CASE Advance(c)
    BY <1>a, <1>b, <1>c, <2>1, <2>2, <2>3 DEF Advance, Travels, P!Creating
  <2>4. CASE worker' = worker /\ \E s \in {"exists", "failed"} : work' = [work EXCEPT ![c] = s]
    BY <1>a, <1>b, <1>c, <2>1, <2>2, <2>4 DEF Travels, P!Creating
  <2> QED
    BY <1>9, <2>3, <2>4, UndoEffect
<1>10. ASSUME NEW c \in Calls, P!Check(c) PROVE Travels(d)'
  BY <1>10, <1>a, <1>b, <1>c
     DEF P!Check, P!Goto, P!NoFault, P!Fault, P!rows, P!memory, P!request, Travels, P!Creating
<1>11. ASSUME NEW c \in Calls, P!Uncache(c) PROVE Travels(d)'
  BY <1>11, <1>a, <1>b, <1>c
     DEF P!Uncache, P!Hit, P!Goto, P!NoFault, P!rows, P!memory, Travels, P!Creating
<1>12. ASSUME NEW c \in Calls, P!Unstore(c) PROVE Travels(d)'
  BY <1>12, <1>a, <1>b, <1>c
     DEF P!Unstore, P!memory, P!Hit, P!Goto, P!NoFault, P!Fault, Travels, P!Creating
<1>13. ASSUME NEW c \in Calls, P!Remove(c) PROVE Travels(d)'
  <2>1. /\ worker' = worker /\ \E s \in {"deleted", "not_found"} : work' = [work EXCEPT ![c] = s]
        /\ work[c] = "removing" /\ UNCHANGED <<condemned, cached>>
    BY <1>13 DEF P!Remove, P!memory, P!Goto
  <2>2. /\ \A w \in DOMAIN workers : w # worker[c] => w \in DOMAIN workers'
        /\ \A w \in stored : w # worker[c] => w \in stored'
    BY <1>13, OthersStay
  <2>3. worker[c] \in condemned
    BY <1>c, <2>1
  <2> QED
    BY <1>a, <1>b, <1>c, <2>1, <2>2, <2>3 DEF Travels
<1>14. CASE P!Restart
  BY <1>14 DEF P!Restart, P!Creating, P!Deleting, Travels
<1>15. CASE UNCHANGED P!vars
  BY <1>15, <1>a, <1>b, <1>c DEF P!vars, Travels, P!Creating
<1>16. ASSUME NEW k \in P!Ids, P!GetCredential(k) PROVE Travels(d)'
  BY <1>16, <1>a, <1>c, ConnectEffect DEF FetchedKnown, Fetched, Travels, P!Creating
<1> QED
  BY <1>1, <1>2, <1>3, <1>4, <1>5, <1>6, <1>7, <1>8, <1>9, <1>10, <1>11, <1>12,
     <1>13, <1>14, <1>15, <1>16
  DEF P!Next, P!CreateWorker, P!DeleteWorker

Works(d) == work[d] = "created" => P!Usable(worker[d]) \/ worker[d] \in condemned

(* Nor does a worker that was answered with its secret lose any of the     *)
(* three but to a deletion.                                                *)
LEMMA CreatedStep ==
  /\ P!TypeOK /\ RequestsOwn /\ IdsFresh /\ RowsLinked /\ OnTheWay /\ P!CreatedIsUsable
  /\ [P!Next]_(P!vars)
  => P!CreatedIsUsable'
<1> SUFFICES ASSUME P!TypeOK, RequestsOwn, IdsFresh, RowsLinked, OnTheWay, P!CreatedIsUsable,
                    [P!Next]_(P!vars), NEW d \in Calls
             PROVE  Works(d)'
  BY DEF P!CreatedIsUsable, Works
<1>a. Works(d)
  BY DEF P!CreatedIsUsable, Works
<1>b. /\ work \in [Calls -> {"idle"} \cup P!Creating \cup P!Deleting \cup P!Answers]
      /\ worker \in [Calls -> P!Ids]
  BY DEF P!TypeOK
<1>c. /\ \A c \in Calls : work[c] \in P!Creating \cup {"created"} => worker[c][1] = c
      /\ \A c \in Calls : work[c] \in {"unstoring", "removing"} => worker[c] \in condemned
  BY DEF RequestsOwn
<1> USE DEF P!Usable, P!Row
<1>1. ASSUME NEW c \in Calls, NEW o \in Known, NEW t \in P!Types, P!BeginCreate(c, o, t)
      PROVE  Works(d)'
  BY <1>1, <1>a, <1>b, <1>c
     DEF P!BeginCreate, P!Ask, P!Goto, P!NoFault, P!rows, P!memory, Works, P!Creating
<1>2. ASSUME NEW c \in Calls, NEW o \in Known, NEW a \in BOOLEAN, P!BeginDelete(c, o, a)
      PROVE  Works(d)'
  BY <1>2, <1>a, <1>b, <1>c
     DEF P!BeginDelete, P!Ask, P!Goto, P!NoFault, P!rows, P!memory, Works, P!Creating
<1>3. ASSUME NEW c \in Calls, P!Count(c) PROVE Works(d)'
  BY <1>3, <1>a, <1>b, <1>c
     DEF P!Count, P!Goto, P!NoFault, P!Fault, P!rows, P!memory, P!request, Works, P!Creating
<1>4. ASSUME NEW c \in Calls, P!Seed(c) PROVE Works(d)'
  <2>1. work[c] = "seeding" /\ worker[c][1] = c /\ UNCHANGED <<condemned, stored, cached>>
    BY <1>4, <1>c, SeedEffect DEF P!Creating
  <2>2. CASE Seeded(c)
    <3>1. CASE c = d
      <4>1. worker[d] \notin cached
        BY <2>1, <3>1, SeededId DEF Unborn
      <4> QED
        BY <1>b, <2>1, <2>2, <3>1, <4>1 DEF Seeded, Works
    <3>2. CASE c # d
      BY <1>a, <1>b, <1>c, <2>1, <2>2, <3>2 DEF Seeded, Works
    <3> QED
      BY <3>1, <3>2
  <2>3. CASE workers' = workers /\ Advance(c)
    BY <1>a, <1>b, <2>1, <2>3 DEF Advance, Works
  <2> QED
    BY <1>4, <2>2, <2>3, SeedEffect
<1>5. ASSUME NEW c \in Calls, P!Claim(c) PROVE Works(d)'
  <2>1. work[c] = "claiming" /\ UNCHANGED <<condemned, workers, stored, cached, worker>>
    BY <1>5, ClaimEffect
  <2>2. \E s \in {"caching", "refusing", "abandoning"} : work' = [work EXCEPT ![c] = s]
    BY <1>5, ClaimEffect DEF Claimed, ClaimLost
  <2> QED
    BY <1>a, <1>b, <2>1, <2>2 DEF Works
<1>6. ASSUME NEW c \in Calls, P!Cache(c) PROVE Works(d)'
  BY <1>6, <1>a, <1>b, <1>c
     DEF P!Cache, P!Goto, P!NoFault, P!rows, P!memory, P!request, Works, P!Creating
<1>7. ASSUME NEW c \in Calls, P!Store(c) PROVE Works(d)'
  <2>1. work[c] = "storing" => worker[c] \in cached \cup condemned
    BY DEF OnTheWay
  <2> QED
    BY <1>7, <1>a, <1>b, <1>c, <2>1 DEF P!Store, P!Goto, P!memory, P!request, Works, P!Creating
<1>8. ASSUME NEW c \in Calls, P!Forget(c) PROVE Works(d)'
  BY <1>8, <1>a, <1>b, <1>c
     DEF P!Forget, P!Goto, P!NoFault, P!rows, P!memory, P!request, Works, P!Creating
<1>9. ASSUME NEW c \in Calls, P!Undo(c) PROVE Works(d)'
  <2>1. /\ work[c] \in {"retrying", "refusing", "abandoning"} /\ worker[c][1] = c
        /\ UNCHANGED <<condemned, cached>>
    BY <1>9, <1>c, UndoEffect DEF P!Creating
  <2>2. /\ \A w \in DOMAIN workers : w # worker[c] => w \in DOMAIN workers'
        /\ \A w \in stored : w # worker[c] => w \in stored'
    BY <1>9, OthersStay
  <2>3. CASE Advance(c)
    BY <1>a, <1>b, <1>c, <2>1, <2>2, <2>3 DEF Advance, Works, P!Creating
  <2>4. CASE worker' = worker /\ \E s \in {"exists", "failed"} : work' = [work EXCEPT ![c] = s]
    BY <1>a, <1>b, <1>c, <2>1, <2>2, <2>4 DEF Works, P!Creating
  <2> QED
    BY <1>9, <2>3, <2>4, UndoEffect
<1>10. ASSUME NEW c \in Calls, P!Check(c) PROVE Works(d)'
  BY <1>10, <1>a, <1>b, <1>c
     DEF P!Check, P!Goto, P!NoFault, P!Fault, P!rows, P!memory, P!request, Works, P!Creating
<1>11. ASSUME NEW c \in Calls, P!Uncache(c) PROVE Works(d)'
  BY <1>11, <1>a, <1>b, <1>c
     DEF P!Uncache, P!Hit, P!Goto, P!NoFault, P!rows, P!memory, Works, P!Creating
<1>12. ASSUME NEW c \in Calls, P!Unstore(c) PROVE Works(d)'
  BY <1>12, <1>a, <1>b, <1>c
     DEF P!Unstore, P!memory, P!Hit, P!Goto, P!NoFault, P!Fault, Works, P!Creating
<1>13. ASSUME NEW c \in Calls, P!Remove(c) PROVE Works(d)'
  <2>1. /\ worker' = worker /\ \E s \in {"deleted", "not_found"} : work' = [work EXCEPT ![c] = s]
        /\ work[c] = "removing" /\ UNCHANGED <<condemned, cached>>
    BY <1>13 DEF P!Remove, P!memory, P!Goto
  <2>2. /\ \A w \in DOMAIN workers : w # worker[c] => w \in DOMAIN workers'
        /\ \A w \in stored : w # worker[c] => w \in stored'
    BY <1>13, OthersStay
  <2>3. worker[c] \in condemned
    BY <1>c, <2>1
  <2> QED
    BY <1>a, <1>b, <1>c, <2>1, <2>2, <2>3 DEF Works
<1>14. CASE P!Restart
  BY <1>14, <1>a, <1>b DEF P!Restart, P!Creating, P!Deleting, P!rows, P!memory, P!request, Works
<1>15. CASE UNCHANGED P!vars
  BY <1>15, <1>a, <1>b, <1>c DEF P!vars, Works, P!Creating
<1>16. ASSUME NEW k \in P!Ids, P!GetCredential(k) PROVE Works(d)'
  BY <1>16, <1>a, ConnectEffect DEF Works
<1> QED
  BY <1>1, <1>2, <1>3, <1>4, <1>5, <1>6, <1>7, <1>8, <1>9, <1>10, <1>11, <1>12,
     <1>13, <1>14, <1>15, <1>16
  DEF P!Next, P!CreateWorker, P!DeleteWorker

-----------------------------------------------------------------------------
(* While no statement fails.                                               *)
LEMMA FaultsStay ==
  ASSUME P!TypeOK, RequestsOwn, [P!Next]_(P!vars), ~disturbed'
  PROVE  ~disturbed
<1>1. ASSUME NEW c \in Calls, NEW o \in Known, NEW t \in P!Types, P!BeginCreate(c, o, t)
      PROVE  ~disturbed
  BY <1>1 DEF P!BeginCreate, P!Ask, P!Goto, P!NoFault, P!rows, P!memory
<1>2. ASSUME NEW c \in Calls, NEW o \in Known, NEW a \in BOOLEAN, P!BeginDelete(c, o, a)
      PROVE  ~disturbed
  BY <1>2 DEF P!BeginDelete, P!Ask, P!Goto, P!NoFault, P!rows, P!memory
<1>3. ASSUME NEW c \in Calls, P!Count(c) PROVE ~disturbed
  BY <1>3 DEF P!Count, P!Goto, P!NoFault, P!Fault, P!rows, P!memory, P!request
<1>4. ASSUME NEW c \in Calls, P!Seed(c) PROVE ~disturbed
  BY <1>4, SeedEffect DEF Seeded
<1>5. ASSUME NEW c \in Calls, P!Claim(c) PROVE ~disturbed
  BY <1>5, ClaimEffect DEF Claimed, ClaimLost
<1>6. ASSUME NEW c \in Calls, P!Cache(c) PROVE ~disturbed
  BY <1>6 DEF P!Cache, P!Goto, P!NoFault, P!rows, P!memory, P!request
<1>7. ASSUME NEW c \in Calls, P!Store(c) PROVE ~disturbed
  BY <1>7 DEF P!Store, P!Goto, P!NoFault, P!Fault, P!Row, P!memory, P!request
<1>8. ASSUME NEW c \in Calls, P!Forget(c) PROVE ~disturbed
  BY <1>8 DEF P!Forget, P!Goto, P!NoFault, P!rows, P!memory, P!request
<1>9. ASSUME NEW c \in Calls, P!Undo(c) PROVE ~disturbed
  BY <1>9, UndoEffect
<1>10. ASSUME NEW c \in Calls, P!Check(c) PROVE ~disturbed
  BY <1>10 DEF P!Check, P!Goto, P!NoFault, P!Fault, P!rows, P!memory, P!request
<1>11. ASSUME NEW c \in Calls, P!Uncache(c) PROVE ~disturbed
  BY <1>11 DEF P!Uncache, P!Hit, P!Goto, P!NoFault, P!rows, P!memory
<1>12. ASSUME NEW c \in Calls, P!Unstore(c) PROVE ~disturbed
  BY <1>12 DEF P!Unstore, P!memory, P!Hit, P!Goto, P!NoFault, P!Fault
<1>13. ASSUME NEW c \in Calls, P!Remove(c) PROVE ~disturbed
  BY <1>13 DEF P!Remove, P!Hit, P!Goto, P!NoFault, P!Fault, P!rows, P!memory
<1>14. CASE P!Restart
  BY <1>14 DEF P!Restart, P!Creating, P!Deleting, P!rows, P!memory, P!request
<1>15. CASE UNCHANGED P!vars
  BY <1>15 DEF P!vars
<1>16. ASSUME NEW k \in P!Ids, P!GetCredential(k) PROVE ~disturbed
  BY <1>16, ConnectEffect
<1> QED
  BY <1>1, <1>2, <1>3, <1>4, <1>5, <1>6, <1>7, <1>8, <1>9, <1>10, <1>11, <1>12,
     <1>13, <1>14, <1>15, <1>16
  DEF P!Next, P!CreateWorker, P!DeleteWorker

(* What is on record belongs to its creation.                              *)
Recorded(w) == w \in DOMAIN workers \/ w \in stored \/ w \in cached
Owned(w) ==
  /\ worker[w[1]] = w
  /\ \/ work[w[1]] \in P!Creating
     \/ work[w[1]] = "created" /\ (w \in DOMAIN workers \/ w \in condemned)

(* Without a fault a request leaves its id behind only once nothing is on  *)
(* record under it.                                                        *)
LEMMA OwnedStep ==
  ASSUME P!TypeOK, RequestsOwn, IdsFresh, OnTheWay, FetchedKnown, RecordsOwned,
         [P!Next]_(P!vars), ~disturbed', NEW w, Recorded(w)'
  PROVE  Owned(w)'
<1>a. Recorded(w) => Owned(w) /\ w[1] \in Calls /\ work[w[1]] \notin {"idle", "counting", "seeding"}
  <2> SUFFICES ASSUME Recorded(w)
               PROVE  Owned(w) /\ w[1] \in Calls /\ work[w[1]] \notin {"idle", "counting", "seeding"}
    OBVIOUS
  <2>1. w \in DOMAIN workers \cup stored \cup cached
    BY DEF Recorded
  <2>2. Owned(w)
    BY <2>1 DEF RecordsOwned, Owned
  <2> QED
    BY <2>1, <2>2, OnRecord DEF Owned
<1>b. /\ work \in [Calls -> {"idle"} \cup P!Creating \cup P!Deleting \cup P!Answers]
      /\ worker \in [Calls -> P!Ids]
  BY DEF P!TypeOK
<1>c. /\ \A c \in Calls : work[c] \in P!Creating \cup {"created"} => worker[c][1] = c
      /\ \A c \in Calls : work[c] \in {"unstoring", "removing"} => worker[c] \in condemned
  BY DEF RequestsOwn
<1> USE DEF P!Creating
<1>1. ASSUME NEW c \in Calls, NEW o \in Known, NEW t \in P!Types, P!BeginCreate(c, o, t)
      PROVE  Owned(w)'
  BY <1>1, <1>a, <1>b, <1>c
     DEF P!BeginCreate, P!Ask, P!Goto, P!NoFault, P!rows, P!memory, Owned, Recorded
<1>2. ASSUME NEW c \in Calls, NEW o \in Known, NEW a \in BOOLEAN, P!BeginDelete(c, o, a)
      PROVE  Owned(w)'
  BY <1>2, <1>a, <1>b, <1>c
     DEF P!BeginDelete, P!Ask, P!Goto, P!NoFault, P!rows, P!memory, Owned, Recorded
<1>3. ASSUME NEW c \in Calls, P!Count(c) PROVE Owned(w)'
  BY <1>3, <1>a, <1>b, <1>c
     DEF P!Count, P!Goto, P!NoFault, P!Fault, P!rows, P!memory, P!request, Owned, Recorded
<1>4. ASSUME NEW c \in Calls, P!Seed(c) PROVE Owned(w)'
  <2>1. work[c] = "seeding" /\ worker[c][1] = c /\ UNCHANGED <<condemned, stored, cached>>
    BY <1>4, <1>c, SeedEffect
  <2>2. Seeded(c)
    BY <1>4, SeedEffect
  <2>3. CASE w = worker[c]
    BY <1>b, <2>1, <2>2, <2>3 DEF Seeded, Owned
  <2>4. CASE w # worker[c]
    <3>1. Recorded(w) /\ (w \in DOMAIN workers => w \in DOMAIN workers')
      BY <2>1, <2>2, <2>4 DEF Seeded, Recorded
    <3> QED
      BY <1>a, <1>b, <2>1, <2>2, <3>1 DEF Seeded, Owned
  <2> QED
    BY <2>3, <2>4
<1>5. ASSUME NEW c \in Calls, P!Claim(c) PROVE Owned(w)'
  <2>1. work[c] = "claiming" /\ UNCHANGED <<condemned, workers, stored, cached, worker>>
    BY <1>5, ClaimEffect
  <2>2. \E s \in {"caching", "refusing", "abandoning"} : work' = [work EXCEPT ![c] = s]
    BY <1>5, ClaimEffect DEF Claimed, ClaimLost
  <2> QED
    BY <1>a, <1>b, <2>1, <2>2 DEF Owned, Recorded
<1>6. ASSUME NEW c \in Calls, P!Cache(c) PROVE Owned(w)'
  BY <1>6, <1>a, <1>b, <1>c
     DEF P!Cache, P!Goto, P!NoFault, P!rows, P!memory, P!request, Owned, Recorded
<1>7. ASSUME NEW c \in Calls, P!Store(c) PROVE Owned(w)'
  BY <1>7, <1>a, <1>b, <1>c
     DEF P!Store, P!Goto, P!NoFault, P!Fault, P!Row, P!memory, P!request, Owned, Recorded
<1>8. ASSUME NEW c \in Calls, P!Forget(c) PROVE Owned(w)'
  BY <1>8, <1>a, <1>b, <1>c
     DEF P!Forget, P!Goto, P!NoFault, P!rows, P!memory, P!request, Owned, Recorded
<1>9. ASSUME NEW c \in Calls, P!Undo(c) PROVE Owned(w)'
  <2>1. /\ work[c] \in {"retrying", "refusing", "abandoning"} /\ worker[c][1] = c
        /\ UNCHANGED <<condemned, cached>> /\ worker[c] \notin cached
    BY <1>9, <1>c, UndoEffect DEF OnTheWay
  <2>2. DOMAIN workers' = DOMAIN workers \ {worker[c]} /\ stored' = stored \ {worker[c]}
    BY <1>9, UndoEffect, DeleteEffect
  <2>3. w # worker[c] /\ Recorded(w)
    BY <2>1, <2>2 DEF Recorded
  <2>4. w[1] # c
    BY <1>a, <2>3 DEF Owned
  <2>5. work'[w[1]] = work[w[1]] /\ worker'[w[1]] = worker[w[1]]
    BY <1>9, <1>a, <1>b, <2>3, <2>4, UndoEffect DEF Advance
  <2> QED
    BY <1>a, <2>1, <2>2, <2>3, <2>5 DEF Owned
<1>10. ASSUME NEW c \in Calls, P!Check(c) PROVE Owned(w)'
  BY <1>10, <1>a, <1>b, <1>c
     DEF P!Check, P!Goto, P!NoFault, P!Fault, P!rows, P!memory, P!request, Owned, Recorded
<1>11. ASSUME NEW c \in Calls, P!Uncache(c) PROVE Owned(w)'
  BY <1>11, <1>a, <1>b, <1>c
     DEF P!Uncache, P!Hit, P!Goto, P!NoFault, P!rows, P!memory, Owned, Recorded
<1>12. ASSUME NEW c \in Calls, P!Unstore(c) PROVE Owned(w)'
  BY <1>12, <1>a, <1>b, <1>c
     DEF P!Unstore, P!memory, P!Hit, P!Goto, P!NoFault, P!Fault, Owned, Recorded
<1>13. ASSUME NEW c \in Calls, P!Remove(c) PROVE Owned(w)'
  <2>1. /\ worker' = worker /\ \E s \in {"deleted", "not_found"} : work' = [work EXCEPT ![c] = s]
        /\ work[c] = "removing" /\ UNCHANGED <<condemned, cached>>
    BY <1>13 DEF P!Remove, P!memory, P!Goto
  <2>2. \A v \in DOMAIN workers : v # worker[c] => v \in DOMAIN workers'
    BY <1>13, OthersStay
  <2>3. DOMAIN workers' \subseteq DOMAIN workers /\ stored' \subseteq stored
    BY <1>13, DeleteEffect DEF P!Remove, P!rows, P!memory
  <2>4. Recorded(w) /\ worker[c] \in condemned
    BY <1>c, <2>1, <2>3 DEF Recorded
  <2> QED
    BY <1>a, <1>b, <2>1, <2>2, <2>4 DEF Owned
<1>14. CASE P!Restart
  BY <1>14 DEF P!Restart
<1>15. CASE UNCHANGED P!vars
  BY <1>15, <1>a, <1>b, <1>c DEF P!vars, Owned, Recorded
<1>16. ASSUME NEW k \in P!Ids, P!GetCredential(k) PROVE Owned(w)'
  BY <1>16, <1>a, ConnectEffect DEF FetchedKnown, Fetched, Owned, Recorded
<1> QED
  BY <1>1, <1>2, <1>3, <1>4, <1>5, <1>6, <1>7, <1>8, <1>9, <1>10, <1>11, <1>12,
     <1>13, <1>14, <1>15, <1>16
  DEF P!Next, P!CreateWorker, P!DeleteWorker

(* A creation that is taken back on other grounds than the claim has no row.*)
Bare(d) == work[d] \in {"forgetting", "retrying", "abandoning"} => worker[d] \notin DOMAIN workers

(* Without a fault a row is missing only because it was deleted.           *)
LEMMA BareStep ==
  ASSUME P!TypeOK, RequestsOwn, [P!Next]_(P!vars), ~disturbed', NEW d \in Calls, Bare(d)
  PROVE  Bare(d)'
<1>b. /\ work \in [Calls -> {"idle"} \cup P!Creating \cup P!Deleting \cup P!Answers]
      /\ worker \in [Calls -> P!Ids]
  BY DEF P!TypeOK
<1>c. \A c \in Calls : work[c] \in P!Creating \cup {"created"} => worker[c][1] = c
  BY DEF RequestsOwn
<1> USE DEF P!Creating
<1>1. ASSUME NEW c \in Calls, NEW o \in Known, NEW t \in P!Types, P!BeginCreate(c, o, t)
      PROVE  Bare(d)'
  BY <1>1, <1>b, <1>c DEF P!BeginCreate, P!Ask, P!Goto, P!NoFault, P!rows, P!memory, Bare
<1>2. ASSUME NEW c \in Calls, NEW o \in Known, NEW a \in BOOLEAN, P!BeginDelete(c, o, a)
      PROVE  Bare(d)'
  BY <1>2, <1>b, <1>c DEF P!BeginDelete, P!Ask, P!Goto, P!NoFault, P!rows, P!memory, Bare
<1>3. ASSUME NEW c \in Calls, P!Count(c) PROVE Bare(d)'
  BY <1>3, <1>b, <1>c DEF P!Count, P!Goto, P!NoFault, P!Fault, P!rows, P!memory, P!request, Bare
<1>4. ASSUME NEW c \in Calls, P!Seed(c) PROVE Bare(d)'
  <2>1. work[c] = "seeding" /\ worker[c][1] = c /\ Seeded(c)
    BY <1>4, <1>c, SeedEffect
  <2> QED
    BY <1>b, <1>c, <2>1 DEF Seeded, Bare
<1>5. ASSUME NEW c \in Calls, P!Claim(c) PROVE Bare(d)'
  <2>1. work[c] = "claiming" /\ UNCHANGED <<workers, worker>>
    BY <1>5, ClaimEffect
  <2>2. CASE Claimed(c)
    BY <1>b, <2>1, <2>2 DEF Claimed, Bare
  <2>3. CASE ClaimLost(c)
    BY <1>b, <2>1, <2>3 DEF ClaimLost, Bare
  <2> QED
    BY <1>5, <2>2, <2>3, ClaimEffect
<1>6. ASSUME NEW c \in Calls, P!Cache(c) PROVE Bare(d)'
  BY <1>6, <1>b, <1>c DEF P!Cache, P!Goto, P!NoFault, P!rows, P!memory, P!request, Bare
<1>7. ASSUME NEW c \in Calls, P!Store(c) PROVE Bare(d)'
  BY <1>7, <1>b, <1>c DEF P!Store, P!Goto, P!NoFault, P!Fault, P!Row, P!memory, P!request, Bare
<1>8. ASSUME NEW c \in Calls, P!Forget(c) PROVE Bare(d)'
  BY <1>8, <1>b, <1>c DEF P!Forget, P!Goto, P!NoFault, P!rows, P!memory, P!request, Bare
<1>9. ASSUME NEW c \in Calls, P!Undo(c) PROVE Bare(d)'
  <2>1. DOMAIN workers' \subseteq DOMAIN workers
    BY <1>9, UndoEffect, DeleteEffect
  <2> QED
    BY <1>9, <1>b, <2>1, UndoEffect DEF Advance, Bare
<1>10. ASSUME NEW c \in Calls, P!Check(c) PROVE Bare(d)'
  BY <1>10, <1>b, <1>c DEF P!Check, P!Goto, P!NoFault, P!Fault, P!rows, P!memory, P!request, Bare
<1>11. ASSUME NEW c \in Calls, P!Uncache(c) PROVE Bare(d)'
  BY <1>11, <1>b, <1>c DEF P!Uncache, P!Hit, P!Goto, P!NoFault, P!rows, P!memory, Bare
<1>12. ASSUME NEW c \in Calls, P!Unstore(c) PROVE Bare(d)'
  BY <1>12, <1>b, <1>c DEF P!Unstore, P!memory, P!Hit, P!Goto, P!NoFault, P!Fault, Bare
<1>13. ASSUME NEW c \in Calls, P!Remove(c) PROVE Bare(d)'
  <2>1. worker' = worker /\ \E s \in {"deleted", "not_found"} : work' = [work EXCEPT ![c] = s]
    BY <1>13 DEF P!Remove, P!Goto
  <2>2. DOMAIN workers' \subseteq DOMAIN workers
    BY <1>13, DeleteEffect DEF P!Remove, P!rows, P!memory
  <2> QED
    BY <1>b, <2>1, <2>2 DEF Bare
<1>14. CASE P!Restart
  BY <1>14 DEF P!Restart
<1>15. CASE UNCHANGED P!vars
  BY <1>15, <1>b, <1>c DEF P!vars, Bare
<1>16. ASSUME NEW k \in P!Ids, P!GetCredential(k) PROVE Bare(d)'
  BY <1>16, ConnectEffect DEF Bare
<1> QED
  BY <1>1, <1>2, <1>3, <1>4, <1>5, <1>6, <1>7, <1>8, <1>9, <1>10, <1>11, <1>12,
     <1>13, <1>14, <1>15, <1>16
  DEF P!Next, P!CreateWorker, P!DeleteWorker

(* A claim is that of a creation that will succeed, or has succeeded.      *)
Promising(o) ==
  o \in DOMAIN claims =>
    worker[claims[o][1]] = claims[o] /\ work[claims[o][1]] \in {"caching", "storing", "created"}

(* Without a fault a claim is won on the way to a credential.              *)
LEMMA PromisingStep ==
  ASSUME P!TypeOK, RequestsOwn, RowsLinked, [P!Next]_(P!vars), ~disturbed', NEW p, Promising(p)
  PROVE  Promising(p)'
<1>b. /\ work \in [Calls -> {"idle"} \cup P!Creating \cup P!Deleting \cup P!Answers]
      /\ worker \in [Calls -> P!Ids]
  BY DEF P!TypeOK
<1>c. \A c \in Calls : work[c] \in P!Creating \cup {"created"} => worker[c][1] = c
  BY DEF RequestsOwn
<1>d. p \in DOMAIN claims => claims[p] \in P!Ids /\ claims[p][1] \in Calls /\ claims[p] \in DOMAIN workers
  BY IdParts DEF P!TypeOK, RowsLinked
<1> USE DEF P!Creating
<1>1. ASSUME NEW c \in Calls, NEW o \in Known, NEW t \in P!Types, P!BeginCreate(c, o, t)
      PROVE  Promising(p)'
  BY <1>1, <1>b, <1>d DEF P!BeginCreate, P!Ask, P!Goto, P!NoFault, P!rows, P!memory, Promising
<1>2. ASSUME NEW c \in Calls, NEW o \in Known, NEW a \in BOOLEAN, P!BeginDelete(c, o, a)
      PROVE  Promising(p)'
  BY <1>2, <1>b, <1>c, <1>d
     DEF P!BeginDelete, P!Ask, P!Goto, P!NoFault, P!rows, P!memory, Promising
<1>3. ASSUME NEW c \in Calls, P!Count(c) PROVE Promising(p)'
  BY <1>3, <1>b, <1>c, <1>d
     DEF P!Count, P!Goto, P!NoFault, P!Fault, P!rows, P!memory, P!request, Promising
<1>4. ASSUME NEW c \in Calls, P!Seed(c) PROVE Promising(p)'
  <2>1. work[c] = "seeding" /\ claims' = claims /\ Seeded(c)
    BY <1>4, SeedEffect
  <2> QED
    BY <1>b, <1>d, <2>1 DEF Seeded, Promising
<1>5. ASSUME NEW c \in Calls, P!Claim(c) PROVE Promising(p)'
  <2>1. work[c] = "claiming" /\ worker[c][1] = c /\ UNCHANGED <<workers, worker>>
    BY <1>5, <1>c, ClaimEffect
  <2>2. CASE Claimed(c)
    <3>1. CASE p = order[c].owner
      BY <1>b, <2>1, <2>2, <3>1 DEF Claimed, Promising
    <3>2. CASE p # order[c].owner
      BY <1>b, <1>d, <2>1, <2>2, <3>2 DEF Claimed, Promising
    <3> QED
      BY <3>1, <3>2
  <2>3. CASE ClaimLost(c)
    BY <1>b, <1>d, <2>1, <2>3 DEF ClaimLost, Promising
  <2> QED
    BY <1>5, <2>2, <2>3, ClaimEffect
<1>6. ASSUME NEW c \in Calls, P!Cache(c) PROVE Promising(p)'
  BY <1>6, <1>b, <1>c, <1>d DEF P!Cache, P!Goto, P!NoFault, P!rows, P!memory, P!request, Promising
<1>7. ASSUME NEW c \in Calls, P!Store(c) PROVE Promising(p)'
  BY <1>7, <1>b, <1>c, <1>d
     DEF P!Store, P!Goto, P!NoFault, P!Fault, P!Row, P!memory, P!request, Promising
<1>8. ASSUME NEW c \in Calls, P!Forget(c) PROVE Promising(p)'
  BY <1>8, <1>b, <1>c, <1>d DEF P!Forget, P!Goto, P!NoFault, P!rows, P!memory, P!request, Promising
<1>9. ASSUME NEW c \in Calls, P!Undo(c) PROVE Promising(p)'
  <2>1. DOMAIN claims' \subseteq DOMAIN claims /\ \A q \in DOMAIN claims' : claims'[q] = claims[q]
    BY <1>9, UndoEffect, DeleteEffect
  <2> QED
    BY <1>9, <1>b, <1>d, <2>1, UndoEffect DEF Advance, Promising
<1>10. ASSUME NEW c \in Calls, P!Check(c) PROVE Promising(p)'
  BY <1>10, <1>b, <1>c, <1>d
     DEF P!Check, P!Goto, P!NoFault, P!Fault, P!rows, P!memory, P!request, Promising
<1>11. ASSUME NEW c \in Calls, P!Uncache(c) PROVE Promising(p)'
  BY <1>11, <1>b, <1>c, <1>d DEF P!Uncache, P!Hit, P!Goto, P!NoFault, P!rows, P!memory, Promising
<1>12. ASSUME NEW c \in Calls, P!Unstore(c) PROVE Promising(p)'
  BY <1>12, <1>b, <1>c, <1>d DEF P!Unstore, P!memory, P!Hit, P!Goto, P!NoFault, P!Fault, Promising
<1>13. ASSUME NEW c \in Calls, P!Remove(c) PROVE Promising(p)'
  <2>1. /\ worker' = worker /\ \E s \in {"deleted", "not_found"} : work' = [work EXCEPT ![c] = s]
        /\ work[c] = "removing"
    BY <1>13 DEF P!Remove, P!Goto
  <2>2. DOMAIN claims' \subseteq DOMAIN claims /\ \A q \in DOMAIN claims' : claims'[q] = claims[q]
    BY <1>13, DeleteEffect DEF P!Remove, P!rows, P!memory
  <2> QED
    BY <1>b, <1>d, <2>1, <2>2 DEF Promising
<1>14. CASE P!Restart
  BY <1>14 DEF P!Restart
<1>15. CASE UNCHANGED P!vars
  BY <1>15, <1>b, <1>c, <1>d DEF P!vars, Promising
<1>16. ASSUME NEW k \in P!Ids, P!GetCredential(k) PROVE Promising(p)'
  BY <1>16, <1>d, ConnectEffect DEF Promising
<1> QED
  BY <1>1, <1>2, <1>3, <1>4, <1>5, <1>6, <1>7, <1>8, <1>9, <1>10, <1>11, <1>12,
     <1>13, <1>14, <1>15, <1>16
  DEF P!Next, P!CreateWorker, P!DeleteWorker

(* Who condemns, who ends a claim, who refuses.                            *)
LEMMA CondemnedGrows ==
  ASSUME P!TypeOK, RequestsOwn, [P!Next]_(P!vars)
  PROVE  condemned \subseteq condemned'
<1>1. ASSUME NEW c \in Calls, NEW o \in Known, NEW t \in P!Types, P!BeginCreate(c, o, t)
      PROVE  condemned \subseteq condemned'
  BY <1>1 DEF P!BeginCreate, P!Ask, P!Goto, P!NoFault, P!rows, P!memory
<1>2. ASSUME NEW c \in Calls, NEW o \in Known, NEW a \in BOOLEAN, P!BeginDelete(c, o, a)
      PROVE  condemned \subseteq condemned'
  BY <1>2 DEF P!BeginDelete, P!Ask, P!Goto, P!NoFault, P!rows, P!memory
<1>3. ASSUME NEW c \in Calls, P!Count(c) PROVE condemned \subseteq condemned'
  BY <1>3 DEF P!Count, P!Goto, P!NoFault, P!Fault, P!rows, P!memory, P!request
<1>4. ASSUME NEW c \in Calls, P!Seed(c) PROVE condemned \subseteq condemned'
  BY <1>4, SeedEffect
<1>5. ASSUME NEW c \in Calls, P!Claim(c) PROVE condemned \subseteq condemned'
  BY <1>5, ClaimEffect
<1>6. ASSUME NEW c \in Calls, P!Cache(c) PROVE condemned \subseteq condemned'
  BY <1>6 DEF P!Cache, P!Goto, P!NoFault, P!rows, P!memory, P!request
<1>7. ASSUME NEW c \in Calls, P!Store(c) PROVE condemned \subseteq condemned'
  BY <1>7 DEF P!Store, P!Goto, P!NoFault, P!Fault, P!Row, P!memory, P!request
<1>8. ASSUME NEW c \in Calls, P!Forget(c) PROVE condemned \subseteq condemned'
  BY <1>8 DEF P!Forget, P!Goto, P!NoFault, P!rows, P!memory, P!request
<1>9. ASSUME NEW c \in Calls, P!Undo(c) PROVE condemned \subseteq condemned'
  BY <1>9, UndoEffect
<1>10. ASSUME NEW c \in Calls, P!Check(c) PROVE condemned \subseteq condemned'
  BY <1>10 DEF P!Check, P!Goto, P!NoFault, P!Fault, P!rows, P!memory, P!request
<1>11. ASSUME NEW c \in Calls, P!Uncache(c) PROVE condemned \subseteq condemned'
  BY <1>11 DEF P!Uncache, P!Hit, P!Goto, P!NoFault, P!rows, P!memory
<1>12. ASSUME NEW c \in Calls, P!Unstore(c) PROVE condemned \subseteq condemned'
  BY <1>12 DEF P!Unstore, P!memory, P!Hit, P!Goto, P!NoFault, P!Fault
<1>13. ASSUME NEW c \in Calls, P!Remove(c) PROVE condemned \subseteq condemned'
  BY <1>13 DEF P!Remove
<1>14. CASE P!Restart
  BY <1>14 DEF P!Restart, P!Creating, P!Deleting, P!rows, P!memory, P!request
<1>15. CASE UNCHANGED P!vars
  BY <1>15 DEF P!vars
<1>16. ASSUME NEW k \in P!Ids, P!GetCredential(k) PROVE condemned \subseteq condemned'
  BY <1>16, ConnectEffect
<1> QED
  BY <1>1, <1>2, <1>3, <1>4, <1>5, <1>6, <1>7, <1>8, <1>9, <1>10, <1>11, <1>12,
     <1>13, <1>14, <1>15, <1>16
  DEF P!Next, P!CreateWorker, P!DeleteWorker

(* A creation that is claiming goes on by Claim only.                      *)
LEMMA ClaimingEnds ==
  ASSUME P!TypeOK, RequestsOwn, [P!Next]_(P!vars), ~disturbed',
         NEW d \in Calls, work[d] = "claiming", work'[d] # "claiming"
  PROVE  P!Claim(d)
<1> SUFFICES ASSUME ~P!Claim(d) PROVE FALSE
  OBVIOUS
<1>b. /\ work \in [Calls -> {"idle"} \cup P!Creating \cup P!Deleting \cup P!Answers]
      /\ worker \in [Calls -> P!Ids]
  BY DEF P!TypeOK
<1>1. ASSUME NEW c \in Calls, NEW o \in Known, NEW t \in P!Types, P!BeginCreate(c, o, t)
      PROVE  FALSE
  BY <1>1, <1>b DEF P!BeginCreate, P!Ask, P!Goto, P!NoFault, P!rows, P!memory
<1>2. ASSUME NEW c \in Calls, NEW o \in Known, NEW a \in BOOLEAN, P!BeginDelete(c, o, a)
      PROVE  FALSE
  BY <1>2, <1>b DEF P!BeginDelete, P!Ask, P!Goto, P!NoFault, P!rows, P!memory
<1>3. ASSUME NEW c \in Calls, P!Count(c) PROVE FALSE
  BY <1>3, <1>b DEF P!Count, P!Goto, P!NoFault, P!Fault, P!rows, P!memory, P!request
<1>4. ASSUME NEW c \in Calls, P!Seed(c) PROVE FALSE
  BY <1>4, <1>b, SeedEffect DEF Seeded, Advance
<1>5. ASSUME NEW c \in Calls, P!Claim(c) PROVE FALSE
  BY <1>5, <1>b, ClaimEffect DEF Claimed, ClaimLost
<1>6. ASSUME NEW c \in Calls, P!Cache(c) PROVE FALSE
  BY <1>6, <1>b DEF P!Cache, P!Goto, P!NoFault, P!rows, P!memory, P!request
<1>7. ASSUME NEW c \in Calls, P!Store(c) PROVE FALSE
  BY <1>7, <1>b DEF P!Store, P!Goto, P!NoFault, P!Fault, P!Row, P!memory, P!request
<1>8. ASSUME NEW c \in Calls, P!Forget(c) PROVE FALSE
  BY <1>8, <1>b DEF P!Forget, P!Goto, P!NoFault, P!rows, P!memory, P!request
<1>9. ASSUME NEW c \in Calls, P!Undo(c) PROVE FALSE
  BY <1>9, <1>b, UndoEffect DEF Advance
<1>10. ASSUME NEW c \in Calls, P!Check(c) PROVE FALSE
  BY <1>10, <1>b DEF P!Check, P!Goto, P!NoFault, P!Fault, P!rows, P!memory, P!request
<1>11. ASSUME NEW c \in Calls, P!Uncache(c) PROVE FALSE
  BY <1>11, <1>b DEF P!Uncache, P!Hit, P!Goto, P!NoFault, P!rows, P!memory
<1>12. ASSUME NEW c \in Calls, P!Unstore(c) PROVE FALSE
  BY <1>12, <1>b DEF P!Unstore, P!memory, P!Hit, P!Goto, P!NoFault, P!Fault
<1>13. ASSUME NEW c \in Calls, P!Remove(c) PROVE FALSE
  <2>1. work[c] = "removing" /\ \E s \in {"deleted", "not_found"} : work' = [work EXCEPT ![c] = s]
    BY <1>13 DEF P!Remove, P!Goto
  <2> QED
    BY <1>b, <2>1
<1>14. CASE P!Restart
  BY <1>14 DEF P!Restart
<1>15. CASE UNCHANGED P!vars
  BY <1>15, <1>b DEF P!vars
<1>16. ASSUME NEW k \in P!Ids, P!GetCredential(k) PROVE FALSE
  BY <1>16, ConnectEffect
<1> QED
  BY <1>1, <1>2, <1>3, <1>4, <1>5, <1>6, <1>7, <1>8, <1>9, <1>10, <1>11, <1>12,
     <1>13, <1>14, <1>15, <1>16
  DEF P!Next, P!CreateWorker, P!DeleteWorker

(* A creation is refused by the claim or by the count.                     *)
LEMMA RefusalBegins ==
  ASSUME P!TypeOK, RequestsOwn, [P!Next]_(P!vars), ~disturbed',
         NEW d \in Calls, work[d] \notin {"refusing", "exists"}, work'[d] \in {"refusing", "exists"}
  PROVE  P!Claim(d) \/ P!Count(d)
<1> SUFFICES ASSUME ~P!Claim(d), ~P!Count(d) PROVE FALSE
  OBVIOUS
<1>b. /\ work \in [Calls -> {"idle"} \cup P!Creating \cup P!Deleting \cup P!Answers]
      /\ worker \in [Calls -> P!Ids]
  BY DEF P!TypeOK
<1>1. ASSUME NEW c \in Calls, NEW o \in Known, NEW t \in P!Types, P!BeginCreate(c, o, t)
      PROVE  FALSE
  BY <1>1, <1>b DEF P!BeginCreate, P!Ask, P!Goto, P!NoFault, P!rows, P!memory
<1>2. ASSUME NEW c \in Calls, NEW o \in Known, NEW a \in BOOLEAN, P!BeginDelete(c, o, a)
      PROVE  FALSE
  BY <1>2, <1>b DEF P!BeginDelete, P!Ask, P!Goto, P!NoFault, P!rows, P!memory
<1>3. ASSUME NEW c \in Calls, P!Count(c) PROVE FALSE
  BY <1>3, <1>b DEF P!Count, P!Goto, P!NoFault, P!Fault, P!rows, P!memory, P!request
<1>4. ASSUME NEW c \in Calls, P!Seed(c) PROVE FALSE
  BY <1>4, <1>b, SeedEffect DEF Seeded, Advance
<1>5. ASSUME NEW c \in Calls, P!Claim(c) PROVE FALSE
  BY <1>5, <1>b, ClaimEffect DEF Claimed, ClaimLost
<1>6. ASSUME NEW c \in Calls, P!Cache(c) PROVE FALSE
  BY <1>6, <1>b DEF P!Cache, P!Goto, P!NoFault, P!rows, P!memory, P!request
<1>7. ASSUME NEW c \in Calls, P!Store(c) PROVE FALSE
  BY <1>7, <1>b DEF P!Store, P!Goto, P!NoFault, P!Fault, P!Row, P!memory, P!request
<1>8. ASSUME NEW c \in Calls, P!Forget(c) PROVE FALSE
  BY <1>8, <1>b DEF P!Forget, P!Goto, P!NoFault, P!rows, P!memory, P!request
<1>9. ASSUME NEW c \in Calls, P!Undo(c) PROVE FALSE
  BY <1>9, <1>b, UndoEffect DEF Advance
<1>10. ASSUME NEW c \in Calls, P!Check(c) PROVE FALSE
  BY <1>10, <1>b DEF P!Check, P!Goto, P!NoFault, P!Fault, P!rows, P!memory, P!request
<1>11. ASSUME NEW c \in Calls, P!Uncache(c) PROVE FALSE
  BY <1>11, <1>b DEF P!Uncache, P!Hit, P!Goto, P!NoFault, P!rows, P!memory
<1>12. ASSUME NEW c \in Calls, P!Unstore(c) PROVE FALSE
  BY <1>12, <1>b DEF P!Unstore, P!memory, P!Hit, P!Goto, P!NoFault, P!Fault
<1>13. ASSUME NEW c \in Calls, P!Remove(c) PROVE FALSE
  <2>1. work[c] = "removing" /\ \E s \in {"deleted", "not_found"} : work' = [work EXCEPT ![c] = s]
    BY <1>13 DEF P!Remove, P!Goto
  <2> QED
    BY <1>b, <2>1
<1>14. CASE P!Restart
  BY <1>14 DEF P!Restart
<1>15. CASE UNCHANGED P!vars
  BY <1>15, <1>b DEF P!vars
<1>16. ASSUME NEW k \in P!Ids, P!GetCredential(k) PROVE FALSE
  BY <1>16, ConnectEffect
<1> QED
  BY <1>1, <1>2, <1>3, <1>4, <1>5, <1>6, <1>7, <1>8, <1>9, <1>10, <1>11, <1>12,
     <1>13, <1>14, <1>15, <1>16
  DEF P!Next, P!CreateWorker, P!DeleteWorker

(* An owner with a row for a worker-sys may hope for one.                  *)
LEMMA RowMeansHope ==
  ASSUME WorkerInv, ~disturbed, NEW w \in DOMAIN workers, NEW o, workers[w] = Sys(o)
  PROVE  Hope(o)
<1> DEFINE d == w[1]
<1>1. /\ d \in Calls /\ order[d] = Sys(o)
      /\ work[d] \in {"counting", "seeding"} => worker[d] # w
  BY OnRecord DEF WorkerInv, RowsLinked
<1>2. worker[d] = w /\ work[d] \in P!Creating \cup {"created"}
  BY DEF WorkerInv, Undisturbed, RecordsOwned
<1>3. Near(w) => o \in DOMAIN claims
  BY DEF WorkerInv, HoldersOnly, Holds, Sys
<1>4. CASE work[d] = "claiming"
  BY <1>1, <1>4 DEF Hope
<1>5. CASE work[d] \in {"caching", "storing"}
  BY <1>2, <1>3, <1>5 DEF Hope, Near
<1>6. CASE work[d] \in {"forgetting", "retrying", "abandoning"}
  BY <1>1, <1>2, <1>6 DEF WorkerInv, Undisturbed, P!Row
<1>7. CASE work[d] = "refusing"
  BY <1>1, <1>7 DEF WorkerInv, Undisturbed, Sys
<1>8. CASE work[d] = "created"
  <2>1. w \in stored \/ w \in condemned
    BY <1>1, <1>2, <1>8 DEF WorkerInv, P!CreatedIsUsable, P!Usable
  <2> QED
    BY <1>1, <1>3, <2>1 DEF Hope, Near
<1> QED
  BY <1>1, <1>2, <1>4, <1>5, <1>6, <1>7, <1>8 DEF P!Creating

(* A hope is kept: the creation that is claiming wins, finds the claim     *)
(* taken, or was deleted; a claim ends with a deletion.                    *)
LEMMA HopeStays ==
  ASSUME WorkerInv, [P!Next]_(P!vars), ~disturbed', NEW p, Hope(p)
  PROVE  Hope(p)'
<1>0. P!TypeOK /\ RequestsOwn /\ IdsFresh /\ RowsLinked /\ OnTheWay /\ ~disturbed
  BY FaultsStay DEF WorkerInv
<1>a. \A w \in condemned : w \in condemned' /\ order'[w[1]] = order[w[1]]
  BY <1>0, CondemnedGrows, OrderOfRecord
<1>1. ASSUME NEW w \in condemned, order[w[1]] = Sys(p) PROVE Hope(p)'
  BY <1>a, <1>1 DEF Hope, Sys
<1>2. ASSUME NEW d \in Calls, order[d] = Sys(p), work[d] = "claiming" PROVE Hope(p)'
  <2>1. order'[d] = Sys(p)
    BY <1>0, <1>2, OrderStays
  <2>2. CASE work'[d] = "claiming"
    BY <2>1, <2>2 DEF Hope, Sys
  <2>3. CASE work'[d] # "claiming"
    <3>1. P!Claim(d)
      BY <1>0, <1>2, <2>3, ClaimingEnds
    <3>2. order[d].owner = p
      BY <1>2 DEF Sys
    <3>3. CASE Claimed(d)
      BY <3>2, <3>3 DEF Claimed, Hope
    <3>4. CASE ClaimLost(d)
      <4>1. CASE p \in DOMAIN claims
        BY <3>4, <4>1 DEF ClaimLost, Hope
      <4>2. CASE p \notin DOMAIN claims
        <5>1. worker[d] \notin DOMAIN workers
          BY <3>2, <3>4, <4>2 DEF ClaimLost
        <5>2. worker[d] \in condemned /\ worker[d][1] = d
          BY <1>0, <1>2, <5>1, OwnId DEF OnTheWay, P!Creating
        <5> QED
          BY <1>1, <1>2, <5>2
      <4> QED
        BY <4>1, <4>2
    <3> QED
      BY <1>0, <3>1, <3>3, <3>4, ClaimEffect
  <2> QED
    BY <2>2, <2>3
<1>3. CASE p \in DOMAIN claims
  <2>1. CASE p \in DOMAIN claims'
    BY <2>1 DEF Hope
  <2>2. CASE p \notin DOMAIN claims'
    <3>1. claims' # claims
      BY <1>3, <2>2
    <3>2. \A c \in Calls : ~P!Seed(c)
      BY <1>0, <3>1, SeedEffect
    <3>3. \A c \in Calls : ~P!Claim(c)
      BY <1>0, <1>3, <2>2, ClaimEffect DEF Claimed, ClaimLost
    <3>4. PICK c \in Calls : P!Undo(c) \/ P!Remove(c)
      BY <3>1, <3>2, <3>3, TableWriters
    <3>5. P!Delete(worker[c])
      BY <1>0, <3>1, <3>4, UndoEffect DEF P!Remove, P!rows, P!memory
    <3>6. claims[p] = worker[c]
      <4>1. DOMAIN claims' = {q \in DOMAIN claims : claims[q] # worker[c]}
        BY <1>0, <3>5, DeleteEffect
      <4> QED
        BY <1>3, <2>2, <4>1
    <3>7. worker[c] \in DOMAIN workers /\ order[worker[c][1]] = Sys(p)
      BY <1>0, <1>3, <3>6 DEF RowsLinked
    <3>8. CASE P!Undo(c)
      <4>1. work[c] \in {"retrying", "refusing", "abandoning"}
        BY <1>0, <3>8, UndoEffect
      <4>2. worker[c][1] = c
        BY <1>0, <4>1, OwnId DEF P!Creating
      <4>3. work[claims[p][1]] \in {"caching", "storing", "created"}
        BY <1>0, <1>3 DEF WorkerInv, Undisturbed
      <4> QED
        BY <3>6, <4>1, <4>2, <4>3
    <3>9. CASE P!Remove(c)
      <4>1. worker[c] \in condemned
        BY <1>0, <3>9 DEF P!Remove, RequestsOwn
      <4> QED
        BY <1>1, <3>7, <4>1
    <3> QED
      BY <3>4, <3>8, <3>9
  <2> QED
    BY <2>1, <2>2
<1> QED
  BY <1>1, <1>2, <1>3 DEF Hope

(* So whoever is refused may hope, and goes on doing so.                   *)
LEMMA RefusedStep ==
  ASSUME WorkerInv, [P!Next]_(P!vars), ~disturbed', NEW d \in Calls, work'[d] \in {"refusing", "exists"}
  PROVE  Hope(order[d].owner)'
<1>0. P!TypeOK /\ RequestsOwn /\ IdsFresh /\ RowsLinked /\ OnTheWay /\ ~disturbed
  BY FaultsStay DEF WorkerInv
<1>1. CASE work[d] \in {"refusing", "exists"}
  <2>1. Hope(order[d].owner)
    BY <1>0, <1>1 DEF WorkerInv, Undisturbed
  <2>2. order'[d] = order[d]
    BY <1>0, <1>1, OrderStays
  <2>3. PICK p : p = order[d].owner
    OBVIOUS
  <2>4. Hope(p)'
    BY <2>1, <2>3, HopeStays
  <2> QED
    BY <2>2, <2>3, <2>4 DEF Hope
<1>2. CASE work[d] \notin {"refusing", "exists"}
  <2>1. CASE P!Claim(d)
    <3>1. order' = order /\ claims' = claims /\ order[d].owner \in DOMAIN claims
      BY <1>0, <1>2, <2>1, ClaimEffect DEF Claimed, ClaimLost, P!TypeOK
    <3> QED
      BY <3>1 DEF Hope
  <2>2. CASE P!Count(d)
    <3>1. order' = order /\ P!SysOf(order[d].owner) # {}
      BY <1>0, <1>2, <2>2 DEF P!Count, P!Goto, P!memory, P!request, P!TypeOK
    <3>2. PICK p : p = order[d].owner
      OBVIOUS
    <3>3. PICK w \in DOMAIN workers : workers[w] = Sys(p)
      BY <3>1, <3>2 DEF P!SysOf, Sys
    <3>4. Hope(p)'
      BY <1>0, <3>3, RowMeansHope, HopeStays
    <3> QED
      BY <3>1, <3>2, <3>4 DEF Hope
  <2> QED
    BY <1>0, <1>2, <2>1, <2>2, RefusalBegins
<1> QED
  BY <1>1, <1>2

(* Together: Undisturbed is kept.                                          *)
LEMMA UndisturbedStep == WorkerInv /\ [P!Next]_(P!vars) => Undisturbed'
<1> SUFFICES ASSUME WorkerInv, [P!Next]_(P!vars), ~disturbed'
             PROVE  /\ RecordsOwned'
                    /\ \A d \in Calls : Bare(d)'
                    /\ \A d \in Calls : work'[d] \in {"refusing", "exists"} => Hope(order[d].owner)'
                    /\ \A p \in DOMAIN claims' : Promising(p)'
  BY DEF Undisturbed, Bare, Promising, P!Row
<1>0. /\ P!TypeOK /\ RequestsOwn /\ IdsFresh /\ RowsLinked /\ OnTheWay /\ FetchedKnown
      /\ ~disturbed /\ RecordsOwned
  BY FaultsStay DEF WorkerInv, Undisturbed
<1>1. RecordsOwned'
  <2>1. \A w : Recorded(w)' => Owned(w)'
    BY <1>0, OwnedStep
  <2> QED
    BY <2>1 DEF RecordsOwned, Recorded, Owned
<1>2. \A d \in Calls : Bare(d)
  BY <1>0 DEF WorkerInv, Undisturbed, Bare, P!Row
<1>3. \A p : Promising(p)
  BY <1>0 DEF WorkerInv, Undisturbed, Promising
<1>4. \A d \in Calls : Bare(d)'
  BY <1>0, <1>2, BareStep
<1>5. \A p : Promising(p)'
  BY <1>0, <1>3, PromisingStep
<1> QED
  BY <1>1, <1>4, <1>5, RefusedStep

-----------------------------------------------------------------------------
(* Connects under way.                                                     *)

(* Who reads a hash.                                                       *)
LEMMA FetchedWriters ==
  ASSUME [P!Next]_(P!vars)
  PROVE  fetched' \subseteq fetched \/ \E k \in P!Ids : P!FetchHash(k)
<1> DEFINE NewFetched == fetched' \subseteq fetched \/ \E k \in P!Ids : P!FetchHash(k)
<1>1. ASSUME NEW c \in Calls, NEW o \in Known, NEW t \in P!Types, P!BeginCreate(c, o, t)
      PROVE  NewFetched
  BY <1>1 DEF P!BeginCreate, P!memory
<1>2. ASSUME NEW c \in Calls, NEW o \in Known, NEW a \in BOOLEAN, P!BeginDelete(c, o, a)
      PROVE  NewFetched
  BY <1>2 DEF P!BeginDelete, P!memory
<1>3. ASSUME NEW c \in Calls, P!Count(c) PROVE NewFetched
  BY <1>3 DEF P!Count, P!memory, P!request
<1>4. ASSUME NEW c \in Calls, P!Seed(c) PROVE NewFetched
  BY <1>4 DEF P!Seed, P!memory
<1>5. ASSUME NEW c \in Calls, P!Claim(c) PROVE NewFetched
  BY <1>5 DEF P!Claim, P!memory, P!request
<1>6. ASSUME NEW c \in Calls, P!Cache(c) PROVE NewFetched
  BY <1>6 DEF P!Cache, P!request
<1>7. ASSUME NEW c \in Calls, P!Store(c) PROVE NewFetched
  BY <1>7 DEF P!Store, P!memory, P!request
<1>8. ASSUME NEW c \in Calls, P!Forget(c) PROVE NewFetched
  BY <1>8 DEF P!Forget, P!request
<1>9. ASSUME NEW c \in Calls, P!Undo(c) PROVE NewFetched
  BY <1>9 DEF P!Undo, P!memory
<1>10. ASSUME NEW c \in Calls, P!Check(c) PROVE NewFetched
  BY <1>10 DEF P!Check, P!memory, P!request
<1>11. ASSUME NEW c \in Calls, P!Uncache(c) PROVE NewFetched
  BY <1>11 DEF P!Uncache
<1>12. ASSUME NEW c \in Calls, P!Unstore(c) PROVE NewFetched
  BY <1>12 DEF P!Unstore, P!memory
<1>13. ASSUME NEW c \in Calls, P!Remove(c) PROVE NewFetched
  BY <1>13 DEF P!Remove, P!memory
<1>14. ASSUME P!Restart PROVE NewFetched
  BY <1>14 DEF P!Restart
<1>15. ASSUME UNCHANGED P!vars PROVE NewFetched
  BY <1>15 DEF P!vars
<1>16. ASSUME NEW k \in P!Ids, P!GetCredential(k) PROVE NewFetched
  BY <1>16 DEF P!GetCredential, P!PutBack
<1> QED
  BY <1>1, <1>2, <1>3, <1>4, <1>5, <1>6, <1>7, <1>8, <1>9, <1>10, <1>11, <1>12,
     <1>13, <1>14, <1>15, <1>16
  DEF P!Next, P!CreateWorker, P!DeleteWorker

(* A request that was answered with a worker keeps its answer.             *)
LEMMA CreatedStays ==
  ASSUME P!TypeOK, RequestsOwn, [P!Next]_(P!vars), NEW d \in Calls, work[d] = "created"
  PROVE  work'[d] = "created" /\ worker'[d] = worker[d]
<1> DEFINE Stays == work'[d] = "created" /\ worker'[d] = worker[d]
<1>b. /\ work \in [Calls -> {"idle"} \cup P!Creating \cup P!Deleting \cup P!Answers]
      /\ worker \in [Calls -> P!Ids]
  BY DEF P!TypeOK
<1>1. ASSUME NEW c \in Calls, NEW o \in Known, NEW t \in P!Types, P!BeginCreate(c, o, t)
      PROVE  Stays
  BY <1>1, <1>b DEF P!BeginCreate, P!Goto
<1>2. ASSUME NEW c \in Calls, NEW o \in Known, NEW a \in BOOLEAN, P!BeginDelete(c, o, a)
      PROVE  Stays
  BY <1>2, <1>b DEF P!BeginDelete, P!Goto
<1>3. ASSUME NEW c \in Calls, P!Count(c) PROVE Stays
  BY <1>3, <1>b DEF P!Count, P!Goto, P!request
<1>4. ASSUME NEW c \in Calls, P!Seed(c) PROVE Stays
  BY <1>4, <1>b, SeedEffect DEF Seeded, Advance
<1>5. ASSUME NEW c \in Calls, P!Claim(c) PROVE Stays
  BY <1>5, <1>b, ClaimEffect DEF Claimed, ClaimLost
<1>6. ASSUME NEW c \in Calls, P!Cache(c) PROVE Stays
  BY <1>6, <1>b DEF P!Cache, P!Goto, P!request
<1>7. ASSUME NEW c \in Calls, P!Store(c) PROVE Stays
  BY <1>7, <1>b DEF P!Store, P!Goto, P!request
<1>8. ASSUME NEW c \in Calls, P!Forget(c) PROVE Stays
  BY <1>8, <1>b DEF P!Forget, P!Goto, P!request
<1>9. ASSUME NEW c \in Calls, P!Undo(c) PROVE Stays
  BY <1>9, <1>b, UndoEffect DEF Advance
<1>10. ASSUME NEW c \in Calls, P!Check(c) PROVE Stays
  BY <1>10, <1>b DEF P!Check, P!Goto, P!request
<1>11. ASSUME NEW c \in Calls, P!Uncache(c) PROVE Stays
  BY <1>11, <1>b DEF P!Uncache, P!Goto
<1>12. ASSUME NEW c \in Calls, P!Unstore(c) PROVE Stays
  BY <1>12, <1>b DEF P!Unstore, P!Goto
<1>13. ASSUME NEW c \in Calls, P!Remove(c) PROVE Stays
  BY <1>13, <1>b DEF P!Remove, P!Goto
<1>14. ASSUME P!Restart PROVE Stays
  BY <1>14, <1>b DEF P!Restart, P!Creating, P!Deleting, P!request
<1>15. ASSUME UNCHANGED P!vars PROVE Stays
  BY <1>15 DEF P!vars
<1>16. ASSUME NEW k \in P!Ids, P!GetCredential(k) PROVE Stays
  BY <1>16, ConnectEffect
<1> QED
  BY <1>1, <1>2, <1>3, <1>4, <1>5, <1>6, <1>7, <1>8, <1>9, <1>10, <1>11, <1>12,
     <1>13, <1>14, <1>15, <1>16
  DEF P!Next, P!CreateWorker, P!DeleteWorker

(* What a Connect has read stays what it is; it reads the hash of a worker *)
(* that is not in the map, that is, of one that is being deleted.          *)
LEMMA FetchedStep ==
  /\ P!TypeOK /\ RequestsOwn /\ IdsFresh /\ RowsLinked /\ HoldersOnly /\ P!CreatedIsUsable
  /\ FetchedKnown /\ [P!Next]_(P!vars)
  => FetchedKnown'
<1> SUFFICES ASSUME P!TypeOK, RequestsOwn, IdsFresh, RowsLinked, HoldersOnly, P!CreatedIsUsable,
                    FetchedKnown, [P!Next]_(P!vars), NEW w \in fetched'
             PROVE  Fetched(w)'
  BY DEF FetchedKnown
<1>1. CASE w \in fetched
  <2>1. Fetched(w)
    BY <1>1 DEF FetchedKnown
  <2>2. w[1] \in Calls /\ work'[w[1]] = "created" /\ worker'[w[1]] = w /\ w \in condemned'
    BY <2>1, CreatedStays, CondemnedGrows DEF Fetched
  <2>3. ASSUME w \in DOMAIN workers', workers'[w].type = "worker-sys" PROVE Holds(w)'
    <3>1. w \in DOMAIN workers
      <4> SUFFICES ASSUME w \notin DOMAIN workers PROVE FALSE
        OBVIOUS
      <4>1. PICK c \in Calls : P!Seed(c) /\ Seeded(c) /\ w = worker[c]
        BY <2>3, RowMaker
      <4>2. work[c] = "seeding" /\ worker[c][1] = c
        BY <4>1, SeedEffect, OwnId DEF P!Creating
      <4> QED
        BY <2>1, <4>1, <4>2 DEF Fetched
    <3>2. workers'[w] = workers[w]
      <4>1. workers'[w] = order'[w[1]] /\ workers[w] = order[w[1]]
        BY <2>3, <3>1, RowsLinkedStep DEF RowsLinked
      <4> QED
        BY <3>1, <4>1, OrderOfRecord
    <3> QED
      BY <2>1, <2>3, <3>1, <3>2, HoldsStays DEF Fetched
  <2> QED
    BY <2>2, <2>3 DEF Fetched
<1>2. CASE w \notin fetched
  <2>1. P!FetchHash(w)
    <3>1. PICK k \in P!Ids : P!FetchHash(k)
      BY <1>2, FetchedWriters
    <3> QED
      BY <1>2, <3>1 DEF P!FetchHash
  <2>2. UNCHANGED <<workers, claims, condemned, work, worker>> /\ w \in stored /\ w \notin cached
    BY <2>1 DEF P!FetchHash, P!rows, P!request
  <2>3. PICK c \in Calls : work[c] = "created" /\ worker[c] = w
    BY <2>1 DEF P!FetchHash
  <2>4. w \in condemned
    BY <2>2, <2>3 DEF P!CreatedIsUsable, P!Usable
  <2>5. w[1] = c
    BY <2>3 DEF RequestsOwn
  <2>6. w \in DOMAIN workers /\ workers[w].type = "worker-sys" => Holds(w)
    BY <2>2 DEF HoldersOnly, Near
  <2> QED
    BY <2>2, <2>3, <2>4, <2>5, <2>6 DEF Fetched, Holds
<1> QED
  BY <1>1, <1>2

-----------------------------------------------------------------------------
(* The inductive invariant.                                                *)
LEMMA WorkerInit == P!Init => WorkerInv
<1> SUFFICES ASSUME P!Init PROVE WorkerInv
  OBVIOUS
<1> USE DEF P!Init
<1>1. P!TypeOK
  <2>1. workers = << >> /\ DOMAIN workers = {} /\ claims = << >> /\ DOMAIN claims = {}
    OBVIOUS
  <2>2. \A c \in Calls : <<c, 1>> \in P!Ids
    BY AttemptsAssumption DEF P!Ids
  <2>3. worker \in [Calls -> P!Ids]
    BY <2>2
  <2> QED
    BY <2>1, <2>3 DEF P!TypeOK
<1>2. RequestsOwn
  BY DEF RequestsOwn, P!Creating
<1>3. IdsFresh
  BY DEF IdsFresh, Unborn, P!Deleting
<1>4. RowsLinked /\ HoldersOnly
  BY DEF RowsLinked, HoldersOnly
<1>5. OnTheWay /\ P!CreatedIsUsable
  BY DEF OnTheWay, P!CreatedIsUsable
<1>6. Undisturbed
  BY DEF Undisturbed, RecordsOwned
<1>7. FetchedKnown
  BY DEF FetchedKnown
<1> QED
  BY <1>1, <1>2, <1>3, <1>4, <1>5, <1>6, <1>7 DEF WorkerInv

(* Every step keeps the invariant.                                         *)
LEMMA WorkerStep == WorkerInv /\ [P!Next]_(P!vars) => WorkerInv'
<1> SUFFICES ASSUME WorkerInv, [P!Next]_(P!vars) PROVE WorkerInv'
  OBVIOUS
<1>1. /\ P!TypeOK /\ RequestsOwn /\ IdsFresh /\ RowsLinked /\ HoldersOnly /\ OnTheWay
      /\ P!CreatedIsUsable /\ FetchedKnown
  BY DEF WorkerInv
<1>2. P!TypeOK' /\ RequestsOwn' /\ IdsFresh'
  BY <1>1, WorkerTypeStep, RequestsOwnStep, IdsFreshStep
<1>3. RowsLinked' /\ HoldersOnly'
  BY <1>1, RowsLinkedStep, HoldersStep
<1>4. OnTheWay' /\ P!CreatedIsUsable'
  BY <1>1, OnTheWayStep, CreatedStep
<1>5. Undisturbed'
  BY UndisturbedStep
<1>6. FetchedKnown'
  BY <1>1, FetchedStep
<1> QED
  BY <1>2, <1>3, <1>4, <1>5, <1>6 DEF WorkerInv

(* A step of the dashboard is a step of the provisioning, or leaves it     *)
(* alone: who creates or deletes has a session, and a session is of an     *)
(* account.                                                                *)
LEMMA StepOfWorkers == A!TypeOK /\ [Next]_vars => [P!Next]_(P!vars)
<1> SUFFICES ASSUME A!TypeOK, [Next]_vars PROVE [P!Next]_(P!vars)
  OBVIOUS
<1>0. \A s \in sessions : s.account \in Known
  BY DEF A!TypeOK, A!Known, Known
<1>1. ASSUME NEW c \in Calls, BeginCreate(c) PROVE P!Next
  BY <1>0, <1>1 DEF BeginCreate, P!Next
<1>2. ASSUME NEW c \in Calls, BeginDelete(c) PROVE P!Next
  <2>1. PICK s \in sessions : P!BeginDelete(c, s.account, s.account = Root)
    BY <1>2 DEF BeginDelete
  <2>2. (s.account = Root) \in BOOLEAN
    OBVIOUS
  <2> QED
    BY <1>0, <2>1, <2>2 DEF P!Next
<1>3. ASSUME NEW c \in Calls, P!CreateWorker(c) \/ P!DeleteWorker(c) PROVE P!Next
  BY <1>3 DEF P!Next
<1>7. ASSUME NEW w \in P!Ids, GetCredential(w) PROVE P!Next
  BY <1>7 DEF GetCredential, P!Next
<1>4. CASE UNCHANGED workerVars
  BY <1>4 DEF workerVars, P!vars
<1>5. CASE Restart
  BY <1>5 DEF Restart, P!Next
<1>6. CASE UNCHANGED vars
  BY <1>4, <1>6 DEF vars
<1> QED
  BY <1>1, <1>2, <1>3, <1>4, <1>5, <1>6, <1>7 DEF Next, AccountRequest, WorkerRequest, EndSession

(* Both invariants hold in every reachable state.                          *)
LEMMA WorkerInvariance == Spec => [](AccountInv /\ WorkerInv)
<1>1. Init => AccountInv /\ WorkerInv
  BY AccountInit, WorkerInit DEF Init
<1>2. AccountInv /\ WorkerInv /\ [Next]_vars => (AccountInv /\ WorkerInv)'
  BY AccountStep, WorkerStep, StepOfAccounts, StepOfWorkers DEF AccountInv
<1> QED
  BY <1>1, <1>2, PTL DEF Spec

(* What it gives.                                                          *)
LEMMA SameCardinality == ASSUME NEW S PROVE P!Cardinality(S) = Cardinality(S)
BY DEF P!Cardinality, Cardinality

(* At most one credential: its worker is the one the claim names.          *)
LEMMA OneHolder == WorkerInv => OneSysPerOwner
<1> SUFFICES ASSUME WorkerInv, NEW o \in Known
             PROVE  P!Cardinality({w \in P!SysOf(o) : P!Accepted(w)}) \leq 1
  BY Zenon DEF OneSysPerOwner, P!OneSysPerOwner
<1> DEFINE S == {w \in P!SysOf(o) : P!Accepted(w)}
<1>1. \A w \in S : w = claims[o]
  BY DEF P!SysOf, P!Accepted, WorkerInv, HoldersOnly, Near, Holds
<1>2. S \subseteq {claims[o]}
  BY <1>1
<1>3. IsFiniteSet({claims[o]}) /\ Cardinality({claims[o]}) = 1
  BY FS_Singleton
<1>4. Cardinality(S) \leq Cardinality({claims[o]})
  BY <1>2, <1>3, FS_Subset
<1>5. P!Cardinality(S) = Cardinality(S)
  BY SameCardinality
<1>6. Cardinality(S) \leq 1
  BY <1>3, <1>4
<1> QED
  BY <1>5, <1>6

(* Nothing is left behind.                                                 *)
LEMMA LeavesNothing == WorkerInv => NothingLeft
<1> SUFFICES ASSUME WorkerInv, ~disturbed, NEW w \in DOMAIN workers \cup stored \cup cached
             PROVE  /\ worker[w[1]] = w
                    /\ \/ work[w[1]] \in P!Creating
                       \/ work[w[1]] = "created" /\ (P!Row(w) \/ w \in condemned \ stored)
  BY DEF NothingLeft, P!NothingLeft
<1>1. /\ worker[w[1]] = w
      /\ \/ work[w[1]] \in P!Creating
         \/ work[w[1]] = "created" /\ w \in DOMAIN workers \cup condemned
  BY DEF WorkerInv, Undisturbed, RecordsOwned
<1>2. stored \subseteq DOMAIN workers
  BY DEF WorkerInv, RowsLinked
<1> QED
  BY <1>1, <1>2 DEF P!Row

(* When all requests are at rest, a claim is that of a worker that works   *)
(* or was deleted.                                                         *)
LEMMA RefusalsJustified == WorkerInv => RefusedHasWorker
<1> SUFFICES ASSUME WorkerInv, ~disturbed, \A c \in Calls : P!Resting(c),
                    NEW c \in Calls, work[c] = "exists"
             PROVE  \/ \E w \in P!SysOf(order[c].owner) : P!Usable(w)
                    \/ \E w \in condemned : order[w[1]] = order[c]
  BY DEF RefusedHasWorker, P!RefusedHasWorker
<1> DEFINE o == order[c].owner
<1>1. order[c] = Sys(o)
  BY DEF WorkerInv, RequestsOwn, P!Orders, Sys
<1>2. Hope(o)
  BY DEF WorkerInv, Undisturbed
<1>3. \A d \in Calls : work[d] # "claiming"
  BY DEF P!Resting, P!Creating
<1>4. CASE o \in DOMAIN claims
  <2> DEFINE w == claims[o]
  <2>1. w \in DOMAIN workers /\ workers[w] = Sys(o) /\ order[w[1]] = Sys(o) /\ w[1] \in Calls
    BY <1>4, OnRecord DEF WorkerInv, RowsLinked
  <2>2. worker[w[1]] = w /\ work[w[1]] = "created"
    BY <1>4, <2>1 DEF WorkerInv, Undisturbed, P!Resting, P!Creating
  <2>3. P!Usable(w) \/ w \in condemned
    BY <2>1, <2>2 DEF WorkerInv, P!CreatedIsUsable
  <2> QED
    BY <1>1, <2>1, <2>3 DEF P!SysOf, Sys
<1> QED
  BY <1>1, <1>2, <1>3, <1>4 DEF Hope

-----------------------------------------------------------------------------
(* Every variable of both parts keeps its type in every reachable state:   *)
(* rows and claims are of ids and accounts that exist.                     *)
THEOREM TypeCorrect == Spec => []TypeOK
<1>1. AccountInv /\ WorkerInv => TypeOK
  BY DEF AccountInv, WorkerInv, TypeOK
<1> QED
  BY <1>1, WorkerInvariance, PTL

(* What worker_handler.go lets through for a login session is a behaviour  *)
(* of module Provisioning, for which the accounts of the sessions are the  *)
(* owners.                                                                 *)
THEOREM ProvisioningImplemented == Spec => P!Spec
<1>1. Init => P!Init
  BY DEF Init
<1>2. AccountInv /\ [Next]_vars => [P!Next]_(P!vars)
  BY StepOfWorkers DEF AccountInv
<1> QED
  BY <1>1, <1>2, AccountInvariance, PTL DEF Spec, P!Spec

(* At most one worker-sys of an account has a credential, for any number   *)
(* of overlapping creations, retries, deletions, failures and restarts     *)
(* (CreateProvisionedWorkerForOwner).                                      *)
THEOREM OneSysPerOwnerHolds == Spec => []OneSysPerOwner
BY OneHolder, WorkerInvariance, PTL

(* A worker whose secret was handed out keeps row, hash and map entry      *)
(* until somebody deletes it (CreateProvisionedWorkerForOwner,             *)
(* DeleteProvisionedWorker, LoadCredentials).                              *)
THEOREM CreatedIsUsableHolds == Spec => []CreatedIsUsable
<1>1. WorkerInv => CreatedIsUsable
  BY DEF WorkerInv, CreatedIsUsable
<1> QED
  BY <1>1, WorkerInvariance, PTL

(* While no statement fails, the rollbacks of                              *)
(* CreateProvisionedWorkerForOwner leave nothing of a refused or repeated  *)
(* creation on record.                                                     *)
THEOREM NothingLeftHolds == Spec => []NothingLeft
BY LeavesNothing, WorkerInvariance, PTL

(* While no statement fails, ErrWorkerSysAlreadyExists tells the truth: in *)
(* the end the owner has a worker-sys that works, or one was deleted.      *)
THEOREM RefusedHasWorkerHolds == Spec => []RefusedHasWorker
BY RefusalsJustified, WorkerInvariance, PTL
=============================================================================

------------------------ MODULE TaskLifecycleProofs ------------------------
(***************************************************************************)
(* Machine-checked proofs about TaskLifecycle, for every set of calls,     *)
(* every request key and mode, and every number of failed statements and   *)
(* crashes.                                                                *)
(*                                                                         *)
(* The order of the argument: types and who works on what (Located), what  *)
(* is known of rows (Inserted, Written) and of reservations (Keyed), and   *)
(* from these the life of the runtime records (Recorded, Waiting).  The    *)
(* refinement of TaskBook follows, and last what holds beside all this     *)
(* while no statement fails (Smooth).                                      *)
(***************************************************************************)
EXTENDS TaskLifecycle, TLAPS

Early == {"idle", "lookup", "checking", "conflicted"}
Creating == {"created", "registered"}

(* Which task each goroutine is about, and how far it can be.  A call that *)
(* has not created its task yet has no executor; an executor works on the  *)
(* task of its own name; a cancel finishes the task of a call.             *)
Located ==
  /\ \A s \in Submits :
       /\ target[s] \in Submits
       /\ call[s] \in Early \cup Creating => work[s] = "idle"
       /\ call[s] \in Early \cup Creating \/ work[s] # "idle" => target[s] = s
       /\ call[s] # "finishing"
  /\ \A k \in Cancels :
       /\ call[k] \in {"idle", "finishing", "returned"}
       /\ call[k] = "idle" => work[k] = "idle"
       /\ call[k] = "finishing" => work[k] # "idle"
       /\ work[k] \in {"idle", "finish", "taking", "closing", "ended"}
       /\ work[k] # "idle" => target[k] \in Submits
       /\ verdict[k] = "canceled" /\ wrote[k] # "failed_again"
  /\ reserved \subseteq Submits
  /\ ~up => \A c \in Callers : call[c] \in {"idle", "returned"} /\ work[c] \in {"idle", "ended"}

(* A call has answered only when it is on its way out, and a status it     *)
(* answered with is that of a task that was created.                       *)
Answered ==
  /\ \A c \in Callers : reply[c] # "none" => call[c] \in {"leaving", "returned"}
  /\ \A c \in Callers : reply[c] \in Active \cup Terminal =>
       target[c] \in Submits /\ row[target[c]] # "absent"

(* Rows of calls that have not inserted one yet.                           *)
Inserted ==
  /\ \A s \in Submits : call[s] \in Early => row[s] = "absent"
  /\ \A s \in Submits : call[s] \in Creating => row[s] # "absent"
  /\ \A s \in Submits : row[s] = "absent" => work[s] = "idle"

(* A status other than a terminal one is written by the executor alone.    *)
Staged ==
  \A t \in Submits :
    /\ work[t] = "start" => row[t] \notin {"dispatched", "running"}
    /\ work[t] \in {"dispatching", "marking"} => row[t] \notin {"queued", "running"}

(* What a goroutine knows of the row after its last guarded UPDATE.        *)
Written ==
  /\ \A a \in Callers : work[a] = "idle" => wrote[a] = "nothing"
  /\ \A a \in Callers : work[a] \in {"taking", "closing"} => wrote[a] # "nothing"
  /\ \A t \in Submits : wrote[t] = "refused" => row[t] \notin Active
  /\ \A t \in Submits :
       work[t] \in {"taking", "closing"} /\ wrote[t] = "applied" => row[t] \notin Active
  /\ \A k \in Cancels :
       wrote[k] = "applied" =>
         work[k] # "idle" /\ row[target[k]] \in {"canceled", "deleted"}
  /\ \A k \in Cancels :
       work[k] # "idle" =>
         /\ row[target[k]] # "absent"
         /\ wrote[k] = "refused" => row[target[k]] \notin Active

(* The request keys: one reservation per key, held until the runtime is    *)
(* registered, so that nobody else knows a task that is still being made.  *)
Keyed ==
  /\ \A s \in Submits :
       RequestOf[s] # NoRequest /\ call[s] \in {"lookup", "checking", "conflicted"} \cup Creating
         => s \in reserved
  /\ \A s \in reserved : call[s] \notin {"idle", "returned"}
  /\ \A s, u \in reserved : SameRequest(s, u) => s = u
  /\ \A s, u \in Submits :
       target[u] = s /\ u # s => SameRequest(u, s) /\ call[s] \notin Early \cup Creating
  /\ \A s, u \in Submits : SameRequest(s, u) /\ Present(s) /\ Present(u) => s = u
  /\ \A s \in Submits : call[s] \in Creating => row[s] = "queued"
  /\ \A k \in Cancels, s \in Submits :
       work[k] # "idle" /\ target[k] = s => call[s] \notin Early \cup Creating

(* The map of runtime records.                                             *)
Recorded ==
  /\ ~up => runtime = {}
  /\ \A t \in runtime : call[t] = "registered" \/ work[t] # "idle"
  /\ \A t \in Submits : call[t] = "registered" => t \in runtime
  /\ \A a \in Callers : work[a] = "closing" => target[a] \notin runtime
  /\ \A t \in runtime : work[t] # "gaveup"
  /\ \A t \in runtime :
       row[t] \notin Active => \E a \in Callers : target[a] = t /\ work[a] = "taking"

(* A caller that was given a record to wait on.                            *)
Waiting ==
  \A s \in Submits :
    call[s] \in {"snapshot", "waiting"} /\ waits[s] =>
      \/ target[s] \in closed \cup runtime
      \/ \E a \in Callers : target[a] = target[s] /\ work[a] = "closing"

WaitersKnow == \A s \in Submits : call[s] = "waiting" => waits[s]

IInv ==
  /\ TypeOK /\ Located /\ Answered /\ Inserted /\ Staged /\ Written
  /\ Keyed /\ Recorded /\ Waiting /\ WaitersKnow
  /\ ActiveHasDriver /\ AnswersStand

-----------------------------------------------------------------------------
(* Pruning deletes finished rows and leaves the others as they are.        *)
LEMMA PruneEffect ==
  ASSUME NEW expired \in SUBSET Settled, Prune(expired)
  PROVE  \A t \in Submits :
           row'[t] = row[t] \/ (row[t] \in Terminal /\ row'[t] = "deleted")
BY DEF Prune, Settled

(* Types.  The cancels need to be about a task when they finish it.        *)
LEMMA TypeStep == TypeOK /\ Located /\ [Next]_vars => TypeOK'
<1> SUFFICES ASSUME TypeOK, Located, [Next]_vars PROVE TypeOK'
  OBVIOUS
<1> USE CallersAssumption, ModeAssumption, BoundsAssumption DEF TypeOK, vars, processVars,
    recordVars, callVars, workVars, Callers, Active, Terminal, Refusals, CallSteps, WorkSteps
<1>1. ASSUME NEW s \in Submits, Begin(s) PROVE TypeOK'
  BY <1>1 DEF Begin, Prune, Goto, Answer
<1>2. ASSUME NEW s \in Submits, Lookup(s) PROVE TypeOK'
  BY <1>2 DEF Lookup, Twins, Misses, Fault, Goto
<1>3. ASSUME NEW s \in Submits, LookRuntime(s) PROVE TypeOK'
  BY <1>3 DEF LookRuntime, Goto
<1>4. ASSUME NEW s \in Submits, Create(s) PROVE TypeOK'
  BY <1>4 DEF Create, Goto, Answer
<1>5. ASSUME NEW s \in Submits, Relook(s) PROVE TypeOK'
  BY <1>5 DEF Relook, Twins, Misses, Fault, Goto, Answer
<1>6. ASSUME NEW s \in Submits, Register(s) PROVE TypeOK'
  BY <1>6 DEF Register, Goto
<1>7. ASSUME NEW s \in Submits, Launch(s) PROVE TypeOK'
  BY <1>7 DEF Launch, Goto
<1>8. ASSUME NEW s \in Submits, Snapshot(s) PROVE TypeOK'
  <2>1. target[s] \in Submits
    BY DEF Located
  <2> QED
    BY <1>8, <2>1 DEF Snapshot, ReadFails, Fault, Goto, Answer, Present
<1>9. ASSUME NEW s \in Submits, Wake(s) PROVE TypeOK'
  BY <1>9 DEF Wake, Goto
<1>10. ASSUME NEW s \in Submits, FinalSnapshot(s) PROVE TypeOK'
  BY <1>10 DEF FinalSnapshot, ReadFails, Fault, Goto, Answer, Present
<1>11. ASSUME NEW s \in Submits, Leave(s) PROVE TypeOK'
  BY <1>11 DEF Leave, Goto
<1>12. ASSUME NEW s \in Submits, ClientLeaves(s) PROVE TypeOK'
  BY <1>12 DEF ClientLeaves, Goto, Answer
<1>13. ASSUME NEW s \in Submits, MarkDispatched(s) PROVE TypeOK'
  BY <1>13 DEF MarkDispatched, Update, UpdateFails, Fault
<1>14. ASSUME NEW s \in Submits, MarkRunning(s) PROVE TypeOK'
  BY <1>14 DEF MarkRunning, Update, UpdateFails, Fault
<1>15. ASSUME NEW s \in Submits, Abort(s) PROVE TypeOK'
  BY <1>15 DEF Abort
<1>16. ASSUME NEW s \in Submits, ContextEnds(s) PROVE TypeOK'
  BY <1>16 DEF ContextEnds, Conclude
<1>17. ASSUME NEW s \in Submits, Expire(s) PROVE TypeOK'
  BY <1>17 DEF Expire
<1>18. ASSUME NEW s \in Submits, Enqueued(s) PROVE TypeOK'
  BY <1>18 DEF Enqueued
<1>19. ASSUME NEW s \in Submits, DispatchFails(s) PROVE TypeOK'
  BY <1>19 DEF DispatchFails, Conclude
<1>20. ASSUME NEW s \in Submits, WorkerAnswers(s) PROVE TypeOK'
  BY <1>20 DEF WorkerAnswers, Conclude
<1>21. ASSUME NEW a \in Callers, FinishWrite(a) PROVE TypeOK'
  BY <1>21 DEF FinishWrite, Update, UpdateFails, Fault
<1>22. ASSUME NEW a \in Callers, TakeRuntime(a) PROVE TypeOK'
  BY <1>22 DEF TakeRuntime, AfterFinish
<1>23. ASSUME NEW a \in Callers, CloseRuntime(a) PROVE TypeOK'
  <2>1. target[a] \in Submits
    BY <1>23 DEF CloseRuntime, Located
  <2> QED
    BY <1>23, <2>1 DEF CloseRuntime, AfterFinish
<1>24. ASSUME NEW k \in Cancels, EndCancel(k) PROVE TypeOK'
  <2>1. target[k] \in Submits
    BY <1>24 DEF EndCancel, Located
  <2> QED
    BY <1>24, <2>1 DEF EndCancel, ReadFails, Fault, Goto, Answer, Present
<1>25. ASSUME NEW k \in Cancels, NEW t \in Submits, BeginCancel(k, t) PROVE TypeOK'
  BY <1>25 DEF BeginCancel, ReadFails, Fault, Goto, Answer, Present
<1>26. CASE Sweep
  BY <1>26 DEF Sweep, Prune
<1>27. CASE Crash
  <2>1. crashes' \in 0..MaxCrashes
    BY <1>27, BoundsAssumption DEF Crash, Die
  <2> QED
    BY <1>27, <2>1 DEF Crash, Die, InCall
<1>28. CASE Start
  BY <1>28 DEF Start
<1>29. CASE UNCHANGED vars
  BY <1>29
<1>30. ASSUME NEW s \in Submits, LookCancel(s) PROVE TypeOK'
  BY <1>30 DEF LookCancel
<1>31. ASSUME NEW s \in Submits, Panic(s) PROVE TypeOK'
  BY <1>31 DEF Panic, Die, InCall
<1> QED
  BY <1>1, <1>2, <1>3, <1>4, <1>5, <1>6, <1>7, <1>8, <1>9, <1>10, <1>11, <1>12, <1>13, <1>14,
      <1>15, <1>16, <1>17, <1>18, <1>19, <1>20, <1>21, <1>22, <1>23, <1>24, <1>25, <1>26,
      <1>27, <1>28, <1>29, <1>30, <1>31
  DEF Next, Submit, Execute, Finish

(* Who is about which task, and how far.                                   *)
LEMMA LocatedStep == TypeOK /\ Located /\ [Next]_vars => Located'
<1> SUFFICES ASSUME TypeOK, Located, [Next]_vars PROVE Located'
  OBVIOUS
<1> USE CallersAssumption DEF TypeOK, vars, processVars, recordVars, callVars, workVars,
    Callers, Active, Terminal, Located, Early, Creating, Refusals
<1>1. ASSUME NEW s \in Submits, Begin(s) PROVE Located'
  BY <1>1 DEF Begin, Prune, Goto, Answer
<1>2. ASSUME NEW s \in Submits, Lookup(s) PROVE Located'
  BY <1>2 DEF Lookup, Twins, Misses, Fault, Goto
<1>3. ASSUME NEW s \in Submits, LookRuntime(s) PROVE Located'
  BY <1>3 DEF LookRuntime, Goto
<1>4. ASSUME NEW s \in Submits, Create(s) PROVE Located'
  BY <1>4 DEF Create, Goto, Answer
<1>5. ASSUME NEW s \in Submits, Relook(s) PROVE Located'
  BY <1>5 DEF Relook, Twins, Misses, Fault, Goto, Answer
<1>6. ASSUME NEW s \in Submits, Register(s) PROVE Located'
  BY <1>6 DEF Register, Goto
<1>7. ASSUME NEW s \in Submits, Launch(s) PROVE Located'
  BY <1>7 DEF Launch, Goto
<1>8. ASSUME NEW s \in Submits, Snapshot(s) PROVE Located'
  BY <1>8 DEF Snapshot, ReadFails, Fault, Goto, Answer, Present
<1>9. ASSUME NEW s \in Submits, Wake(s) PROVE Located'
  BY <1>9 DEF Wake, Goto
<1>10. ASSUME NEW s \in Submits, FinalSnapshot(s) PROVE Located'
  BY <1>10 DEF FinalSnapshot, ReadFails, Fault, Goto, Answer, Present
<1>11. ASSUME NEW s \in Submits, Leave(s) PROVE Located'
  BY <1>11 DEF Leave, Goto
<1>12. ASSUME NEW s \in Submits, ClientLeaves(s) PROVE Located'
  BY <1>12 DEF ClientLeaves, Goto, Answer
<1>13. ASSUME NEW s \in Submits, MarkDispatched(s) PROVE Located'
  BY <1>13 DEF MarkDispatched, Update, UpdateFails, Fault
<1>14. ASSUME NEW s \in Submits, MarkRunning(s) PROVE Located'
  BY <1>14 DEF MarkRunning, Update, UpdateFails, Fault
<1>15. ASSUME NEW s \in Submits, Abort(s) PROVE Located'
  BY <1>15 DEF Abort
<1>16. ASSUME NEW s \in Submits, ContextEnds(s) PROVE Located'
  BY <1>16 DEF ContextEnds, Conclude
<1>17. ASSUME NEW s \in Submits, Expire(s) PROVE Located'
  BY <1>17 DEF Expire
<1>18. ASSUME NEW s \in Submits, Enqueued(s) PROVE Located'
  BY <1>18 DEF Enqueued
<1>19. ASSUME NEW s \in Submits, DispatchFails(s) PROVE Located'
  BY <1>19 DEF DispatchFails, Conclude
<1>20. ASSUME NEW s \in Submits, WorkerAnswers(s) PROVE Located'
  BY <1>20 DEF WorkerAnswers, Conclude
<1>21. ASSUME NEW a \in Callers, FinishWrite(a) PROVE Located'
  BY <1>21 DEF FinishWrite, Update, UpdateFails, Fault
<1>22. ASSUME NEW a \in Callers, TakeRuntime(a) PROVE Located'
  BY <1>22 DEF TakeRuntime, AfterFinish
<1>23. ASSUME NEW a \in Callers, CloseRuntime(a) PROVE Located'
  BY <1>23 DEF CloseRuntime, AfterFinish
<1>24. ASSUME NEW k \in Cancels, EndCancel(k) PROVE Located'
  BY <1>24 DEF EndCancel, ReadFails, Fault, Goto, Answer, Present
<1>25. ASSUME NEW k \in Cancels, NEW t \in Submits, BeginCancel(k, t) PROVE Located'
  BY <1>25 DEF BeginCancel, ReadFails, Fault, Goto, Answer, Present
<1>26. CASE Sweep
  BY <1>26 DEF Sweep, Prune
<1>27. CASE Crash
  BY <1>27 DEF Crash, Die, InCall
<1>28. CASE Start
  BY <1>28 DEF Start
<1>29. CASE UNCHANGED vars
  BY <1>29
<1>30. ASSUME NEW s \in Submits, LookCancel(s) PROVE Located'
  BY <1>30 DEF LookCancel
<1>31. ASSUME NEW s \in Submits, Panic(s) PROVE Located'
  BY <1>31 DEF Panic, Die, InCall
<1> QED
  BY <1>1, <1>2, <1>3, <1>4, <1>5, <1>6, <1>7, <1>8, <1>9, <1>10, <1>11, <1>12, <1>13, <1>14,
      <1>15, <1>16, <1>17, <1>18, <1>19, <1>20, <1>21, <1>22, <1>23, <1>24, <1>25, <1>26,
      <1>27, <1>28, <1>29, <1>30, <1>31
  DEF Next, Submit, Execute, Finish

(* Answers are given on the way out, about tasks that were created.        *)
LEMMA AnsweredStep == TypeOK /\ Located /\ Answered /\ [Next]_vars => Answered'
<1> SUFFICES ASSUME TypeOK, Located, Answered, [Next]_vars PROVE Answered'
  OBVIOUS
<1> USE CallersAssumption DEF TypeOK, vars, processVars, recordVars, callVars, workVars,
    Callers, Active, Terminal, Located, Answered, Early, Creating, Refusals
<1>1. ASSUME NEW s \in Submits, Begin(s) PROVE Answered'
  BY <1>1 DEF Begin, Prune, Goto, Answer
<1>2. ASSUME NEW s \in Submits, Lookup(s) PROVE Answered'
  BY <1>2 DEF Lookup, Twins, Misses, Fault, Goto
<1>3. ASSUME NEW s \in Submits, LookRuntime(s) PROVE Answered'
  BY <1>3 DEF LookRuntime, Goto
<1>4. ASSUME NEW s \in Submits, Create(s) PROVE Answered'
  BY <1>4 DEF Create, Goto, Answer
<1>5. ASSUME NEW s \in Submits, Relook(s) PROVE Answered'
  BY <1>5 DEF Relook, Twins, Misses, Fault, Goto, Answer
<1>6. ASSUME NEW s \in Submits, Register(s) PROVE Answered'
  BY <1>6 DEF Register, Goto
<1>7. ASSUME NEW s \in Submits, Launch(s) PROVE Answered'
  BY <1>7 DEF Launch, Goto
<1>8. ASSUME NEW s \in Submits, Snapshot(s) PROVE Answered'
  BY <1>8 DEF Snapshot, ReadFails, Fault, Goto, Answer, Present
<1>9. ASSUME NEW s \in Submits, Wake(s) PROVE Answered'
  BY <1>9 DEF Wake, Goto
<1>10. ASSUME NEW s \in Submits, FinalSnapshot(s) PROVE Answered'
  BY <1>10 DEF FinalSnapshot, ReadFails, Fault, Goto, Answer, Present
<1>11. ASSUME NEW s \in Submits, Leave(s) PROVE Answered'
  BY <1>11 DEF Leave, Goto
<1>12. ASSUME NEW s \in Submits, ClientLeaves(s) PROVE Answered'
  BY <1>12 DEF ClientLeaves, Goto, Answer
<1>13. ASSUME NEW s \in Submits, MarkDispatched(s) PROVE Answered'
  BY <1>13 DEF MarkDispatched, Update, UpdateFails, Fault
<1>14. ASSUME NEW s \in Submits, MarkRunning(s) PROVE Answered'
  BY <1>14 DEF MarkRunning, Update, UpdateFails, Fault
<1>15. ASSUME NEW s \in Submits, Abort(s) PROVE Answered'
  BY <1>15 DEF Abort
<1>16. ASSUME NEW s \in Submits, ContextEnds(s) PROVE Answered'
  BY <1>16 DEF ContextEnds, Conclude
<1>17. ASSUME NEW s \in Submits, Expire(s) PROVE Answered'
  BY <1>17 DEF Expire
<1>18. ASSUME NEW s \in Submits, Enqueued(s) PROVE Answered'
  BY <1>18 DEF Enqueued
<1>19. ASSUME NEW s \in Submits, DispatchFails(s) PROVE Answered'
  BY <1>19 DEF DispatchFails, Conclude
<1>20. ASSUME NEW s \in Submits, WorkerAnswers(s) PROVE Answered'
  BY <1>20 DEF WorkerAnswers, Conclude
<1>21. ASSUME NEW a \in Callers, FinishWrite(a) PROVE Answered'
  BY <1>21 DEF FinishWrite, Update, UpdateFails, Fault
<1>22. ASSUME NEW a \in Callers, TakeRuntime(a) PROVE Answered'
  BY <1>22 DEF TakeRuntime, AfterFinish
<1>23. ASSUME NEW a \in Callers, CloseRuntime(a) PROVE Answered'
  BY <1>23 DEF CloseRuntime, AfterFinish
<1>24. ASSUME NEW k \in Cancels, EndCancel(k) PROVE Answered'
  BY <1>24 DEF EndCancel, ReadFails, Fault, Goto, Answer, Present
<1>25. ASSUME NEW k \in Cancels, NEW t \in Submits, BeginCancel(k, t) PROVE Answered'
  BY <1>25 DEF BeginCancel, ReadFails, Fault, Goto, Answer, Present
<1>26. CASE Sweep
  BY <1>26 DEF Sweep, Prune
<1>27. CASE Crash
  BY <1>27 DEF Crash, Die, InCall
<1>28. CASE Start
  BY <1>28 DEF Start
<1>29. CASE UNCHANGED vars
  BY <1>29
<1>30. ASSUME NEW s \in Submits, LookCancel(s) PROVE Answered'
  BY <1>30 DEF LookCancel
<1>31. ASSUME NEW s \in Submits, Panic(s) PROVE Answered'
  BY <1>31 DEF Panic, Die, InCall
<1> QED
  BY <1>1, <1>2, <1>3, <1>4, <1>5, <1>6, <1>7, <1>8, <1>9, <1>10, <1>11, <1>12, <1>13, <1>14,
      <1>15, <1>16, <1>17, <1>18, <1>19, <1>20, <1>21, <1>22, <1>23, <1>24, <1>25, <1>26,
      <1>27, <1>28, <1>29, <1>30, <1>31
  DEF Next, Submit, Execute, Finish

(* Rows and the progress of the call that inserts them.                    *)
LEMMA InsertedStep == TypeOK /\ Located /\ Inserted /\ [Next]_vars => Inserted'
<1> SUFFICES ASSUME TypeOK, Located, Inserted, [Next]_vars PROVE Inserted'
  OBVIOUS
<1> USE CallersAssumption DEF TypeOK, vars, processVars, recordVars, callVars, workVars,
    Callers, Active, Terminal, Located, Inserted, Early, Creating, Refusals, Settled
<1>1. ASSUME NEW s \in Submits, Begin(s) PROVE Inserted'
  BY <1>1 DEF Begin, Prune, Goto, Answer
<1>2. ASSUME NEW s \in Submits, Lookup(s) PROVE Inserted'
  BY <1>2 DEF Lookup, Twins, Misses, Fault, Goto
<1>3. ASSUME NEW s \in Submits, LookRuntime(s) PROVE Inserted'
  BY <1>3 DEF LookRuntime, Goto
<1>4. ASSUME NEW s \in Submits, Create(s) PROVE Inserted'
  BY <1>4 DEF Create, Goto, Answer
<1>5. ASSUME NEW s \in Submits, Relook(s) PROVE Inserted'
  BY <1>5 DEF Relook, Twins, Misses, Fault, Goto, Answer
<1>6. ASSUME NEW s \in Submits, Register(s) PROVE Inserted'
  BY <1>6 DEF Register, Goto
<1>7. ASSUME NEW s \in Submits, Launch(s) PROVE Inserted'
  BY <1>7 DEF Launch, Goto
<1>8. ASSUME NEW s \in Submits, Snapshot(s) PROVE Inserted'
  BY <1>8 DEF Snapshot, ReadFails, Fault, Goto, Answer, Present
<1>9. ASSUME NEW s \in Submits, Wake(s) PROVE Inserted'
  BY <1>9 DEF Wake, Goto
<1>10. ASSUME NEW s \in Submits, FinalSnapshot(s) PROVE Inserted'
  BY <1>10 DEF FinalSnapshot, ReadFails, Fault, Goto, Answer, Present
<1>11. ASSUME NEW s \in Submits, Leave(s) PROVE Inserted'
  BY <1>11 DEF Leave, Goto
<1>12. ASSUME NEW s \in Submits, ClientLeaves(s) PROVE Inserted'
  BY <1>12 DEF ClientLeaves, Goto, Answer
<1>13. ASSUME NEW s \in Submits, MarkDispatched(s) PROVE Inserted'
  BY <1>13 DEF MarkDispatched, Update, UpdateFails, Fault
<1>14. ASSUME NEW s \in Submits, MarkRunning(s) PROVE Inserted'
  BY <1>14 DEF MarkRunning, Update, UpdateFails, Fault
<1>15. ASSUME NEW s \in Submits, Abort(s) PROVE Inserted'
  BY <1>15 DEF Abort
<1>16. ASSUME NEW s \in Submits, ContextEnds(s) PROVE Inserted'
  BY <1>16 DEF ContextEnds, Conclude
<1>17. ASSUME NEW s \in Submits, Expire(s) PROVE Inserted'
  BY <1>17 DEF Expire
<1>18. ASSUME NEW s \in Submits, Enqueued(s) PROVE Inserted'
  BY <1>18 DEF Enqueued
<1>19. ASSUME NEW s \in Submits, DispatchFails(s) PROVE Inserted'
  BY <1>19 DEF DispatchFails, Conclude
<1>20. ASSUME NEW s \in Submits, WorkerAnswers(s) PROVE Inserted'
  BY <1>20 DEF WorkerAnswers, Conclude
<1>21. ASSUME NEW a \in Callers, FinishWrite(a) PROVE Inserted'
  BY <1>21 DEF FinishWrite, Update, UpdateFails, Fault
<1>22. ASSUME NEW a \in Callers, TakeRuntime(a) PROVE Inserted'
  BY <1>22 DEF TakeRuntime, AfterFinish
<1>23. ASSUME NEW a \in Callers, CloseRuntime(a) PROVE Inserted'
  BY <1>23 DEF CloseRuntime, AfterFinish
<1>24. ASSUME NEW k \in Cancels, EndCancel(k) PROVE Inserted'
  BY <1>24 DEF EndCancel, ReadFails, Fault, Goto, Answer, Present
<1>25. ASSUME NEW k \in Cancels, NEW t \in Submits, BeginCancel(k, t) PROVE Inserted'
  BY <1>25 DEF BeginCancel, ReadFails, Fault, Goto, Answer, Present
<1>26. CASE Sweep
  BY <1>26 DEF Sweep, Prune
<1>27. CASE Crash
  BY <1>27 DEF Crash, Die, InCall
<1>28. CASE Start
  BY <1>28 DEF Start
<1>29. CASE UNCHANGED vars
  BY <1>29
<1>30. ASSUME NEW s \in Submits, LookCancel(s) PROVE Inserted'
  BY <1>30 DEF LookCancel
<1>31. ASSUME NEW s \in Submits, Panic(s) PROVE Inserted'
  BY <1>31 DEF Panic, Die, InCall
<1> QED
  BY <1>1, <1>2, <1>3, <1>4, <1>5, <1>6, <1>7, <1>8, <1>9, <1>10, <1>11, <1>12, <1>13, <1>14,
      <1>15, <1>16, <1>17, <1>18, <1>19, <1>20, <1>21, <1>22, <1>23, <1>24, <1>25, <1>26,
      <1>27, <1>28, <1>29, <1>30, <1>31
  DEF Next, Submit, Execute, Finish

(* The executor's stage and the status it wrote.                           *)
LEMMA StagedStep == TypeOK /\ Located /\ Inserted /\ Keyed /\ Staged /\ [Next]_vars => Staged'
<1> SUFFICES ASSUME TypeOK, Located, Inserted, Keyed, Staged, [Next]_vars PROVE Staged'
  OBVIOUS
<1> USE CallersAssumption DEF TypeOK, vars, processVars, recordVars, callVars, workVars,
    Callers, Active, Terminal, Located, Inserted, Keyed, Staged, Early, Creating, Refusals,
    Settled
<1>1. ASSUME NEW s \in Submits, Begin(s) PROVE Staged'
  BY <1>1 DEF Begin, Prune, Goto, Answer
<1>2. ASSUME NEW s \in Submits, Lookup(s) PROVE Staged'
  BY <1>2 DEF Lookup, Twins, Misses, Fault, Goto
<1>3. ASSUME NEW s \in Submits, LookRuntime(s) PROVE Staged'
  BY <1>3 DEF LookRuntime, Goto
<1>4. ASSUME NEW s \in Submits, Create(s) PROVE Staged'
  BY <1>4 DEF Create, Goto, Answer
<1>5. ASSUME NEW s \in Submits, Relook(s) PROVE Staged'
  BY <1>5 DEF Relook, Twins, Misses, Fault, Goto, Answer
<1>6. ASSUME NEW s \in Submits, Register(s) PROVE Staged'
  BY <1>6 DEF Register, Goto
<1>7. ASSUME NEW s \in Submits, Launch(s) PROVE Staged'
  BY <1>7 DEF Launch, Goto
<1>8. ASSUME NEW s \in Submits, Snapshot(s) PROVE Staged'
  BY <1>8 DEF Snapshot, ReadFails, Fault, Goto, Answer, Present
<1>9. ASSUME NEW s \in Submits, Wake(s) PROVE Staged'
  BY <1>9 DEF Wake, Goto
<1>10. ASSUME NEW s \in Submits, FinalSnapshot(s) PROVE Staged'
  BY <1>10 DEF FinalSnapshot, ReadFails, Fault, Goto, Answer, Present
<1>11. ASSUME NEW s \in Submits, Leave(s) PROVE Staged'
  BY <1>11 DEF Leave, Goto
<1>12. ASSUME NEW s \in Submits, ClientLeaves(s) PROVE Staged'
  BY <1>12 DEF ClientLeaves, Goto, Answer
<1>13. ASSUME NEW s \in Submits, MarkDispatched(s) PROVE Staged'
  BY <1>13 DEF MarkDispatched, Update, UpdateFails, Fault
<1>14. ASSUME NEW s \in Submits, MarkRunning(s) PROVE Staged'
  BY <1>14 DEF MarkRunning, Update, UpdateFails, Fault
<1>15. ASSUME NEW s \in Submits, Abort(s) PROVE Staged'
  BY <1>15 DEF Abort
<1>16. ASSUME NEW s \in Submits, ContextEnds(s) PROVE Staged'
  BY <1>16 DEF ContextEnds, Conclude
<1>17. ASSUME NEW s \in Submits, Expire(s) PROVE Staged'
  BY <1>17 DEF Expire
<1>18. ASSUME NEW s \in Submits, Enqueued(s) PROVE Staged'
  BY <1>18 DEF Enqueued
<1>19. ASSUME NEW s \in Submits, DispatchFails(s) PROVE Staged'
  BY <1>19 DEF DispatchFails, Conclude
<1>20. ASSUME NEW s \in Submits, WorkerAnswers(s) PROVE Staged'
  BY <1>20 DEF WorkerAnswers, Conclude
<1>21. ASSUME NEW a \in Callers, FinishWrite(a) PROVE Staged'
  BY <1>21 DEF FinishWrite, Update, UpdateFails, Fault
<1>22. ASSUME NEW a \in Callers, TakeRuntime(a) PROVE Staged'
  BY <1>22 DEF TakeRuntime, AfterFinish
<1>23. ASSUME NEW a \in Callers, CloseRuntime(a) PROVE Staged'
  BY <1>23 DEF CloseRuntime, AfterFinish
<1>24. ASSUME NEW k \in Cancels, EndCancel(k) PROVE Staged'
  BY <1>24 DEF EndCancel, ReadFails, Fault, Goto, Answer, Present
<1>25. ASSUME NEW k \in Cancels, NEW t \in Submits, BeginCancel(k, t) PROVE Staged'
  BY <1>25 DEF BeginCancel, ReadFails, Fault, Goto, Answer, Present
<1>26. CASE Sweep
  BY <1>26 DEF Sweep, Prune
<1>27. CASE Crash
  BY <1>27 DEF Crash, Die, InCall
<1>28. CASE Start
  BY <1>28 DEF Start
<1>29. CASE UNCHANGED vars
  BY <1>29
<1>30. ASSUME NEW s \in Submits, LookCancel(s) PROVE Staged'
  BY <1>30 DEF LookCancel
<1>31. ASSUME NEW s \in Submits, Panic(s) PROVE Staged'
  BY <1>31 DEF Panic, Die, InCall
<1> QED
  BY <1>1, <1>2, <1>3, <1>4, <1>5, <1>6, <1>7, <1>8, <1>9, <1>10, <1>11, <1>12, <1>13, <1>14,
      <1>15, <1>16, <1>17, <1>18, <1>19, <1>20, <1>21, <1>22, <1>23, <1>24, <1>25, <1>26,
      <1>27, <1>28, <1>29, <1>30, <1>31
  DEF Next, Submit, Execute, Finish

(* What the guarded UPDATE told a goroutine stays true of the row.         *)
LEMMA WrittenStep == TypeOK /\ Located /\ Inserted /\ Written /\ [Next]_vars => Written'
<1> SUFFICES ASSUME TypeOK, Located, Inserted, Written, [Next]_vars PROVE Written'
  OBVIOUS
<1> USE CallersAssumption DEF TypeOK, vars, processVars, recordVars, callVars, workVars,
    Callers, Active, Terminal, Located, Inserted, Written, Early, Creating, Refusals, Settled
<1>1. ASSUME NEW s \in Submits, Begin(s) PROVE Written'
  BY <1>1 DEF Begin, Prune, Goto, Answer
<1>2. ASSUME NEW s \in Submits, Lookup(s) PROVE Written'
  BY <1>2 DEF Lookup, Twins, Misses, Fault, Goto
<1>3. ASSUME NEW s \in Submits, LookRuntime(s) PROVE Written'
  BY <1>3 DEF LookRuntime, Goto
<1>4. ASSUME NEW s \in Submits, Create(s) PROVE Written'
  BY <1>4 DEF Create, Goto, Answer
<1>5. ASSUME NEW s \in Submits, Relook(s) PROVE Written'
  BY <1>5 DEF Relook, Twins, Misses, Fault, Goto, Answer
<1>6. ASSUME NEW s \in Submits, Register(s) PROVE Written'
  BY <1>6 DEF Register, Goto
<1>7. ASSUME NEW s \in Submits, Launch(s) PROVE Written'
  BY <1>7 DEF Launch, Goto
<1>8. ASSUME NEW s \in Submits, Snapshot(s) PROVE Written'
  BY <1>8 DEF Snapshot, ReadFails, Fault, Goto, Answer, Present
<1>9. ASSUME NEW s \in Submits, Wake(s) PROVE Written'
  BY <1>9 DEF Wake, Goto
<1>10. ASSUME NEW s \in Submits, FinalSnapshot(s) PROVE Written'
  BY <1>10 DEF FinalSnapshot, ReadFails, Fault, Goto, Answer, Present
<1>11. ASSUME NEW s \in Submits, Leave(s) PROVE Written'
  BY <1>11 DEF Leave, Goto
<1>12. ASSUME NEW s \in Submits, ClientLeaves(s) PROVE Written'
  BY <1>12 DEF ClientLeaves, Goto, Answer
<1>13. ASSUME NEW s \in Submits, MarkDispatched(s) PROVE Written'
  BY <1>13 DEF MarkDispatched, Update, UpdateFails, Fault
<1>14. ASSUME NEW s \in Submits, MarkRunning(s) PROVE Written'
  BY <1>14 DEF MarkRunning, Update, UpdateFails, Fault
<1>15. ASSUME NEW s \in Submits, Abort(s) PROVE Written'
  BY <1>15 DEF Abort
<1>16. ASSUME NEW s \in Submits, ContextEnds(s) PROVE Written'
  BY <1>16 DEF ContextEnds, Conclude
<1>17. ASSUME NEW s \in Submits, Expire(s) PROVE Written'
  BY <1>17 DEF Expire
<1>18. ASSUME NEW s \in Submits, Enqueued(s) PROVE Written'
  BY <1>18 DEF Enqueued
<1>19. ASSUME NEW s \in Submits, DispatchFails(s) PROVE Written'
  BY <1>19 DEF DispatchFails, Conclude
<1>20. ASSUME NEW s \in Submits, WorkerAnswers(s) PROVE Written'
  BY <1>20 DEF WorkerAnswers, Conclude
<1>21. ASSUME NEW a \in Callers, FinishWrite(a) PROVE Written'
  BY <1>21 DEF FinishWrite, Update, UpdateFails, Fault
<1>22. ASSUME NEW a \in Callers, TakeRuntime(a) PROVE Written'
  BY <1>22 DEF TakeRuntime, AfterFinish
<1>23. ASSUME NEW a \in Callers, CloseRuntime(a) PROVE Written'
  BY <1>23 DEF CloseRuntime, AfterFinish
<1>24. ASSUME NEW k \in Cancels, EndCancel(k) PROVE Written'
  BY <1>24 DEF EndCancel, ReadFails, Fault, Goto, Answer, Present
<1>25. ASSUME NEW k \in Cancels, NEW t \in Submits, BeginCancel(k, t) PROVE Written'
  BY <1>25 DEF BeginCancel, ReadFails, Fault, Goto, Answer, Present
<1>26. CASE Sweep
  BY <1>26 DEF Sweep, Prune
<1>27. CASE Crash
  BY <1>27 DEF Crash, Die, InCall
<1>28. CASE Start
  BY <1>28 DEF Start
<1>29. CASE UNCHANGED vars
  BY <1>29
<1>30. ASSUME NEW s \in Submits, LookCancel(s) PROVE Written'
  BY <1>30 DEF LookCancel
<1>31. ASSUME NEW s \in Submits, Panic(s) PROVE Written'
  BY <1>31 DEF Panic, Die, InCall
<1> QED
  BY <1>1, <1>2, <1>3, <1>4, <1>5, <1>6, <1>7, <1>8, <1>9, <1>10, <1>11, <1>12, <1>13, <1>14,
      <1>15, <1>16, <1>17, <1>18, <1>19, <1>20, <1>21, <1>22, <1>23, <1>24, <1>25, <1>26,
      <1>27, <1>28, <1>29, <1>30, <1>31
  DEF Next, Submit, Execute, Finish

(* A call that looked its key up goes on with the task it found, or with   *)
(* none: both steps keep the reservations and the keys of the rows.        *)
LEMMA KeyedLooked ==
  ASSUME TypeOK, Located, Inserted, Keyed,
         NEW s \in Submits, call[s] \in {"lookup", "conflicted"},
         UNCHANGED <<row, reserved, work>>,
         NEW step \in {"found", "checking", "leaving", "returned"},
         s \in reserved => step # "returned",
         call' = [call EXCEPT ![s] = step],
         NEW t \in Submits, target' = [target EXCEPT ![s] = t],
         t = s \/ (t \in Twins(s) /\ step = "found")
  PROVE  Keyed'
<1> USE CallersAssumption DEF Early, Creating
<1>1. \A u \in Submits : call'[u] = IF u = s THEN step ELSE call[u]
  BY DEF TypeOK, Callers
<1>2. \A c \in Callers : target'[c] = IF c = s THEN t ELSE target[c]
  BY DEF TypeOK, Callers
<1>3. target[s] = s /\ row[s] = "absent"
  BY DEF Located, Inserted
<1>4. t # s => SameRequest(s, t) /\ Present(t)
  BY DEF Twins
<1>5. t # s => call[t] \notin Early
  BY <1>4 DEF Inserted, Present, Active, Terminal
<1>6. t # s => call[t] \notin Creating
  <2> SUFFICES ASSUME t # s, call[t] \in Creating PROVE FALSE
    OBVIOUS
  <2>1. s \in reserved /\ t \in reserved
    BY <1>4 DEF Keyed, SameRequest
  <2> QED
    BY <1>4, <2>1 DEF Keyed
<1>7. \A u \in Submits :
        RequestOf[u] # NoRequest /\ call'[u] \in {"lookup", "checking", "conflicted"} \cup Creating
          => u \in reserved'
  BY <1>1 DEF Keyed
<1>8. \A u \in reserved' : call'[u] \notin {"idle", "returned"}
  BY <1>1 DEF Keyed, Located
<1>9. \A u, q \in reserved' : SameRequest(u, q) => u = q
  BY DEF Keyed
<1>10. \A u, q \in Submits :
         target'[q] = u /\ q # u => SameRequest(q, u) /\ call'[u] \notin Early \cup Creating
  <2> SUFFICES ASSUME NEW u \in Submits, NEW q \in Submits, target'[q] = u, q # u
               PROVE  SameRequest(q, u) /\ call'[u] \notin Early \cup Creating
    OBVIOUS
  <2>1. CASE q = s
    BY <1>1, <1>2, <1>4, <1>5, <1>6, <2>1 DEF Callers
  <2>2. CASE q # s
    <3>1. target[q] = u
      BY <1>2, <2>2 DEF Callers
    <3>2. SameRequest(q, u) /\ call[u] \notin Early \cup Creating
      BY <3>1 DEF Keyed
    <3> QED
      BY <1>1, <3>2
  <2> QED
    BY <2>1, <2>2
<1>11. \A u, q \in Submits : SameRequest(u, q) /\ Present(u)' /\ Present(q)' => u = q
  BY DEF Keyed, Present
<1>12. \A u \in Submits : call'[u] \in Creating => row'[u] = "queued"
  BY <1>1 DEF Keyed
<1>13. \A k \in Cancels, u \in Submits :
         work'[k] # "idle" /\ target'[k] = u => call'[u] \notin Early \cup Creating
  <2> SUFFICES ASSUME NEW k \in Cancels, NEW u \in Submits, work[k] # "idle", target'[k] = u
               PROVE  call'[u] \notin Early \cup Creating
    OBVIOUS
  <2>1. target[k] = u
    BY <1>2 DEF Callers
  <2>2. call[u] \notin Early \cup Creating
    BY <2>1 DEF Keyed
  <2> QED
    BY <1>1, <2>2
<1> QED
  BY <1>7, <1>8, <1>9, <1>10, <1>11, <1>12, <1>13 DEF Keyed, SameRequest

(* Reservations keep a task unknown to others until it is registered, and  *)
(* at most one kept row has a given key.                                   *)
LEMMA KeyedStep == TypeOK /\ Located /\ Answered /\ Inserted /\ Keyed /\ [Next]_vars => Keyed'
<1> SUFFICES ASSUME TypeOK, Located, Answered, Inserted, Keyed, [Next]_vars PROVE Keyed'
  OBVIOUS
<1> USE CallersAssumption DEF TypeOK, vars, processVars, recordVars, callVars, workVars,
    Callers, Active, Terminal, Located, Answered, Inserted, Keyed, Early, Creating, Refusals,
    Settled, SameRequest, Twins, Present
<1>1. ASSUME NEW s \in Submits, Begin(s) PROVE Keyed'
  <2>1. \A t \in Submits : t # s => call'[t] = call[t] /\ (t \in reserved' <=> t \in reserved)
    BY <1>1 DEF Begin, Goto, Answer
  <2>2. \A t \in Submits : row'[t] = row[t] \/ (row[t] \in Terminal /\ row'[t] = "deleted")
    BY <1>1, PruneEffect DEF Begin
  <2>3. target' = target /\ work' = work /\ row[s] = "absent" /\ call[s] = "idle"
    BY <1>1 DEF Begin
  <2>4. /\ call'[s] \in {"lookup", "checking", "returned"}
        /\ call'[s] = "lookup" => s \in reserved'
        /\ s \in reserved' =>
             call'[s] = "lookup" /\ \A u \in reserved : ~SameRequest(s, u)
        /\ call'[s] = "checking" => RequestOf[s] = NoRequest
    BY <1>1 DEF Begin, Goto, Answer
  <2>5. reserved' \subseteq Submits
    BY <1>1 DEF Begin
  <2>6. \A t, u \in reserved' : SameRequest(t, u) => t = u
    BY <2>1, <2>4, <2>5
  <2>7. \A t, u \in Submits : target'[u] = t /\ u # t =>
          SameRequest(u, t) /\ call'[t] \notin Early \cup Creating
    BY <2>1, <2>3, <2>4
  <2>8. \A t, u \in Submits :
          SameRequest(t, u) /\ row'[t] \in Active \cup Terminal
                           /\ row'[u] \in Active \cup Terminal => t = u
    BY <2>2
  <2>9. \A t \in Submits : call'[t] \in Creating => row'[t] = "queued"
    BY <2>1, <2>2, <2>4
  <2>10. \A t \in Submits :
           /\ RequestOf[t] # NoRequest
           /\ call'[t] \in {"lookup", "checking", "conflicted"} \cup Creating
           => t \in reserved'
    BY <2>1, <2>4
  <2>11. \A t \in reserved' : call'[t] \notin {"idle", "returned"}
    BY <2>1, <2>4, <2>5
  <2>12. \A k \in Cancels, t \in Submits :
           work'[k] # "idle" /\ target'[k] = t => call'[t] \notin Early \cup Creating
    BY <2>1, <2>3, <2>4
  <2> QED
    BY <2>6, <2>7, <2>8, <2>9, <2>10, <2>11, <2>12
<1>2. ASSUME NEW s \in Submits, Lookup(s) PROVE Keyed'
  <2>1. call[s] = "lookup" /\ target[s] = s /\ UNCHANGED <<row, reserved, work>>
    BY <1>2 DEF Lookup
  <2>2. CASE \E t \in Twins(s) : target' = [target EXCEPT ![s] = t] /\ Goto(s, "found")
    <3>1. PICK t \in Twins(s) : target' = [target EXCEPT ![s] = t] /\ Goto(s, "found")
      BY <2>2
    <3>2. t \in Submits
      BY DEF Twins
    <3>3. call' = [call EXCEPT ![s] = "found"] /\ target' = [target EXCEPT ![s] = t]
      BY <3>1 DEF Goto
    <3> HIDE DEF TypeOK, Located, Inserted, Keyed
    <3> QED
      BY <2>1, <3>2, <3>3, KeyedLooked
  <2>3. CASE Goto(s, "checking") /\ UNCHANGED target
    <3>1. target' = [target EXCEPT ![s] = s]
      BY <2>1, <2>3
    <3> QED
      BY <2>1, <2>3, <3>1, KeyedLooked DEF Goto
  <2> QED
    BY <1>2, <2>2, <2>3 DEF Lookup
<1>3. ASSUME NEW s \in Submits, LookRuntime(s) PROVE Keyed'
  BY <1>3 DEF LookRuntime, Goto
<1>4. ASSUME NEW s \in Submits, Create(s) PROVE Keyed'
  BY <1>4 DEF Create, Goto, Answer
<1>5. ASSUME NEW s \in Submits, Relook(s) PROVE Keyed'
  <2>1. call[s] = "conflicted" /\ target[s] = s /\ UNCHANGED <<row, reserved, work>>
    BY <1>5 DEF Relook
  <2>2. CASE \E t \in Twins(s) : target' = [target EXCEPT ![s] = t] /\ Goto(s, "found")
    <3>1. PICK t \in Twins(s) : target' = [target EXCEPT ![s] = t] /\ Goto(s, "found")
      BY <2>2
    <3>2. t \in Submits
      BY DEF Twins
    <3>3. call' = [call EXCEPT ![s] = "found"] /\ target' = [target EXCEPT ![s] = t]
      BY <3>1 DEF Goto
    <3> HIDE DEF TypeOK, Located, Inserted, Keyed
    <3> QED
      BY <2>1, <3>2, <3>3, KeyedLooked
  <2>3. CASE Answer(s, "refused") /\ UNCHANGED target
    <3>1. target' = [target EXCEPT ![s] = s]
      BY <2>1, <2>3
    <3> QED
      BY <2>1, <2>3, <3>1, KeyedLooked DEF Answer, Goto
  <2> QED
    BY <1>5, <2>2, <2>3 DEF Relook
<1>6. ASSUME NEW s \in Submits, Register(s) PROVE Keyed'
  BY <1>6 DEF Register, Goto
<1>7. ASSUME NEW s \in Submits, Launch(s) PROVE Keyed'
  BY <1>7 DEF Launch, Goto
<1>8. ASSUME NEW s \in Submits, Snapshot(s) PROVE Keyed'
  BY <1>8 DEF Snapshot, ReadFails, Fault, Goto, Answer, Present
<1>9. ASSUME NEW s \in Submits, Wake(s) PROVE Keyed'
  BY <1>9 DEF Wake, Goto
<1>10. ASSUME NEW s \in Submits, FinalSnapshot(s) PROVE Keyed'
  BY <1>10 DEF FinalSnapshot, ReadFails, Fault, Goto, Answer, Present
<1>11. ASSUME NEW s \in Submits, Leave(s) PROVE Keyed'
  BY <1>11 DEF Leave, Goto
<1>12. ASSUME NEW s \in Submits, ClientLeaves(s) PROVE Keyed'
  BY <1>12 DEF ClientLeaves, Goto, Answer
<1>13. ASSUME NEW s \in Submits, MarkDispatched(s) PROVE Keyed'
  BY <1>13 DEF MarkDispatched, Update, UpdateFails, Fault
<1>14. ASSUME NEW s \in Submits, MarkRunning(s) PROVE Keyed'
  BY <1>14 DEF MarkRunning, Update, UpdateFails, Fault
<1>15. ASSUME NEW s \in Submits, Abort(s) PROVE Keyed'
  BY <1>15 DEF Abort
<1>16. ASSUME NEW s \in Submits, ContextEnds(s) PROVE Keyed'
  BY <1>16 DEF ContextEnds, Conclude
<1>17. ASSUME NEW s \in Submits, Expire(s) PROVE Keyed'
  BY <1>17 DEF Expire
<1>18. ASSUME NEW s \in Submits, Enqueued(s) PROVE Keyed'
  BY <1>18 DEF Enqueued
<1>19. ASSUME NEW s \in Submits, DispatchFails(s) PROVE Keyed'
  BY <1>19 DEF DispatchFails, Conclude
<1>20. ASSUME NEW s \in Submits, WorkerAnswers(s) PROVE Keyed'
  BY <1>20 DEF WorkerAnswers, Conclude
<1>21. ASSUME NEW a \in Callers, FinishWrite(a) PROVE Keyed'
  BY <1>21 DEF FinishWrite, Update, UpdateFails, Fault
<1>22. ASSUME NEW a \in Callers, TakeRuntime(a) PROVE Keyed'
  BY <1>22 DEF TakeRuntime, AfterFinish
<1>23. ASSUME NEW a \in Callers, CloseRuntime(a) PROVE Keyed'
  BY <1>23 DEF CloseRuntime, AfterFinish
<1>24. ASSUME NEW k \in Cancels, EndCancel(k) PROVE Keyed'
  BY <1>24 DEF EndCancel, ReadFails, Fault, Goto, Answer, Present
<1>25. ASSUME NEW k \in Cancels, NEW t \in Submits, BeginCancel(k, t) PROVE Keyed'
  BY <1>25 DEF BeginCancel, ReadFails, Fault, Goto, Answer, Present
<1>26. CASE Sweep
  BY <1>26 DEF Sweep, Prune
<1>27. CASE Crash
  BY <1>27 DEF Crash, Die, InCall
<1>28. CASE Start
  BY <1>28 DEF Start
<1>29. CASE UNCHANGED vars
  BY <1>29
<1>30. ASSUME NEW s \in Submits, LookCancel(s) PROVE Keyed'
  BY <1>30 DEF LookCancel
<1>31. ASSUME NEW s \in Submits, Panic(s) PROVE Keyed'
  BY <1>31 DEF Panic, Die, InCall
<1> QED
  BY <1>1, <1>2, <1>3, <1>4, <1>5, <1>6, <1>7, <1>8, <1>9, <1>10, <1>11, <1>12, <1>13, <1>14,
      <1>15, <1>16, <1>17, <1>18, <1>19, <1>20, <1>21, <1>22, <1>23, <1>24, <1>25, <1>26,
      <1>27, <1>28, <1>29, <1>30, <1>31
  DEF Next, Submit, Execute, Finish

(* Records leave the map exactly once, and a record of a finished task is  *)
(* about to leave it.                                                      *)
LEMMA RecordedStep == TypeOK /\ Located /\ Keyed /\ Recorded /\ [Next]_vars => Recorded'
<1> SUFFICES ASSUME TypeOK, Located, Keyed, Recorded, [Next]_vars PROVE Recorded'
  OBVIOUS
<1> USE CallersAssumption DEF TypeOK, vars, processVars, recordVars, callVars, workVars,
    Callers, Active, Terminal, Located, Keyed, Recorded, Early, Creating, Refusals, Settled
<1>1. ASSUME NEW s \in Submits, Begin(s) PROVE Recorded'
  BY <1>1 DEF Begin, Prune, Goto, Answer
<1>2. ASSUME NEW s \in Submits, Lookup(s) PROVE Recorded'
  BY <1>2 DEF Lookup, Twins, Misses, Fault, Goto
<1>3. ASSUME NEW s \in Submits, LookRuntime(s) PROVE Recorded'
  BY <1>3 DEF LookRuntime, Goto
<1>4. ASSUME NEW s \in Submits, Create(s) PROVE Recorded'
  BY <1>4 DEF Create, Goto, Answer
<1>5. ASSUME NEW s \in Submits, Relook(s) PROVE Recorded'
  BY <1>5 DEF Relook, Twins, Misses, Fault, Goto, Answer
<1>6. ASSUME NEW s \in Submits, Register(s) PROVE Recorded'
  BY <1>6 DEF Register, Goto
<1>7. ASSUME NEW s \in Submits, Launch(s) PROVE Recorded'
  BY <1>7 DEF Launch, Goto
<1>8. ASSUME NEW s \in Submits, Snapshot(s) PROVE Recorded'
  BY <1>8 DEF Snapshot, ReadFails, Fault, Goto, Answer, Present
<1>9. ASSUME NEW s \in Submits, Wake(s) PROVE Recorded'
  BY <1>9 DEF Wake, Goto
<1>10. ASSUME NEW s \in Submits, FinalSnapshot(s) PROVE Recorded'
  BY <1>10 DEF FinalSnapshot, ReadFails, Fault, Goto, Answer, Present
<1>11. ASSUME NEW s \in Submits, Leave(s) PROVE Recorded'
  BY <1>11 DEF Leave, Goto
<1>12. ASSUME NEW s \in Submits, ClientLeaves(s) PROVE Recorded'
  BY <1>12 DEF ClientLeaves, Goto, Answer
<1>13. ASSUME NEW s \in Submits, MarkDispatched(s) PROVE Recorded'
  BY <1>13 DEF MarkDispatched, Update, UpdateFails, Fault
<1>14. ASSUME NEW s \in Submits, MarkRunning(s) PROVE Recorded'
  BY <1>14 DEF MarkRunning, Update, UpdateFails, Fault
<1>15. ASSUME NEW s \in Submits, Abort(s) PROVE Recorded'
  BY <1>15 DEF Abort
<1>16. ASSUME NEW s \in Submits, ContextEnds(s) PROVE Recorded'
  <2>1. \A b \in Callers : work[b] = "taking" => work'[b] = "taking"
    BY <1>16 DEF ContextEnds, Conclude
  <2>2. /\ up' = up /\ call' = call /\ target' = target /\ row' = row /\ runtime' = runtime
        /\ work[s] # "idle" /\ work'[s] \notin {"idle", "closing"}
        /\ \A b \in Callers : b # s => work'[b] = work[b]
    BY <1>16 DEF ContextEnds, Conclude
  <2>3. s \in runtime => work'[s] # "gaveup"
    BY <1>16 DEF ContextEnds, Conclude
  <2>4. ASSUME NEW t \in runtime, row[t] \notin Active
        PROVE  \E b \in Callers : target'[b] = t /\ work'[b] = "taking"
    BY <2>1, <2>2, <2>4
  <2>5. \A b \in Callers : work'[b] = "closing" => target'[b] \notin runtime
    BY <2>2
  <2>6. \A t \in runtime : work'[t] # "gaveup" /\ (call[t] = "registered" \/ work'[t] # "idle")
    BY <2>2, <2>3
  <2> QED
    BY <2>2, <2>4, <2>5, <2>6
<1>17. ASSUME NEW s \in Submits, Expire(s) PROVE Recorded'
  BY <1>17 DEF Expire
<1>18. ASSUME NEW s \in Submits, Enqueued(s) PROVE Recorded'
  BY <1>18 DEF Enqueued
<1>19. ASSUME NEW s \in Submits, DispatchFails(s) PROVE Recorded'
  BY <1>19 DEF DispatchFails, Conclude
<1>20. ASSUME NEW s \in Submits, WorkerAnswers(s) PROVE Recorded'
  BY <1>20 DEF WorkerAnswers, Conclude
<1>21. ASSUME NEW a \in Callers, FinishWrite(a) PROVE Recorded'
  BY <1>21 DEF FinishWrite, Update, UpdateFails, Fault
<1>22. ASSUME NEW a \in Callers, TakeRuntime(a) PROVE Recorded'
  BY <1>22 DEF TakeRuntime, AfterFinish
<1>23. ASSUME NEW a \in Callers, CloseRuntime(a) PROVE Recorded'
  <2>1. \A b \in Callers : work[b] = "taking" => work'[b] = "taking"
    BY <1>23 DEF CloseRuntime
  <2>2. /\ up' = up /\ call' = call /\ target' = target /\ row' = row /\ runtime' = runtime
        /\ work[a] # "idle" /\ work'[a] \notin {"idle", "closing"}
        /\ \A b \in Callers : b # a => work'[b] = work[b]
    BY <1>23 DEF CloseRuntime, AfterFinish
  <2>3. a \in runtime => work'[a] # "gaveup"
    BY <1>23 DEF CloseRuntime, AfterFinish
  <2>4. ASSUME NEW t \in runtime, row[t] \notin Active
        PROVE  \E b \in Callers : target'[b] = t /\ work'[b] = "taking"
    BY <2>1, <2>2, <2>4
  <2>5. \A b \in Callers : work'[b] = "closing" => target'[b] \notin runtime
    BY <2>2
  <2>6. \A t \in runtime : work'[t] # "gaveup" /\ (call[t] = "registered" \/ work'[t] # "idle")
    BY <2>2, <2>3
  <2> QED
    BY <2>2, <2>4, <2>5, <2>6
<1>24. ASSUME NEW k \in Cancels, EndCancel(k) PROVE Recorded'
  BY <1>24 DEF EndCancel, ReadFails, Fault, Goto, Answer, Present
<1>25. ASSUME NEW k \in Cancels, NEW t \in Submits, BeginCancel(k, t) PROVE Recorded'
  <2>1. /\ up' = up /\ runtime' = runtime /\ row' = row /\ \A u \in Submits : call'[u] = call[u]
        /\ target' = [target EXCEPT ![k] = t] /\ call[k] = "idle"
        /\ work' = work \/ work' = [work EXCEPT ![k] = "finish"]
    BY <1>25 DEF BeginCancel, ReadFails, Fault, Goto, Answer, Present
  <2>2. work[k] = "idle"
    BY <2>1
  <2> QED
    BY <2>1, <2>2
<1>26. CASE Sweep
  BY <1>26 DEF Sweep, Prune
<1>27. CASE Crash
  BY <1>27 DEF Crash, Die, InCall
<1>28. CASE Start
  BY <1>28 DEF Start
<1>29. CASE UNCHANGED vars
  BY <1>29
<1>30. ASSUME NEW s \in Submits, LookCancel(s) PROVE Recorded'
  BY <1>30 DEF LookCancel
<1>31. ASSUME NEW s \in Submits, Panic(s) PROVE Recorded'
  BY <1>31 DEF Panic, Die, InCall
<1> QED
  BY <1>1, <1>2, <1>3, <1>4, <1>5, <1>6, <1>7, <1>8, <1>9, <1>10, <1>11, <1>12, <1>13, <1>14,
      <1>15, <1>16, <1>17, <1>18, <1>19, <1>20, <1>21, <1>22, <1>23, <1>24, <1>25, <1>26,
      <1>27, <1>28, <1>29, <1>30, <1>31
  DEF Next, Submit, Execute, Finish

(* Waiters.                                                                *)
LEMMA WaitingStep == TypeOK /\ Located /\ Recorded /\ Waiting /\ [Next]_vars => Waiting'
<1> SUFFICES ASSUME TypeOK, Located, Recorded, Waiting, [Next]_vars PROVE Waiting'
  OBVIOUS
<1> USE CallersAssumption DEF TypeOK, vars, processVars, recordVars, callVars, workVars,
    Callers, Active, Terminal, Located, Recorded, Waiting, Early, Creating, Refusals, Settled
<1>1. ASSUME NEW s \in Submits, Begin(s) PROVE Waiting'
  BY <1>1 DEF Begin, Prune, Goto, Answer
<1>2. ASSUME NEW s \in Submits, Lookup(s) PROVE Waiting'
  BY <1>2 DEF Lookup, Twins, Misses, Fault, Goto
<1>3. ASSUME NEW s \in Submits, LookRuntime(s) PROVE Waiting'
  <2>1. /\ waits'[s] => target[s] \in runtime
        /\ \A u \in Submits : u # s => call'[u] = call[u] /\ waits'[u] = waits[u]
    BY <1>3 DEF LookRuntime, Goto
  <2> QED
    BY <1>3, <2>1 DEF LookRuntime
<1>4. ASSUME NEW s \in Submits, Create(s) PROVE Waiting'
  BY <1>4 DEF Create, Goto, Answer
<1>5. ASSUME NEW s \in Submits, Relook(s) PROVE Waiting'
  BY <1>5 DEF Relook, Twins, Misses, Fault, Goto, Answer
<1>6. ASSUME NEW s \in Submits, Register(s) PROVE Waiting'
  BY <1>6 DEF Register, Goto
<1>7. ASSUME NEW s \in Submits, Launch(s) PROVE Waiting'
  <2>1. target[s] = s /\ s \in runtime
    BY <1>7 DEF Launch
  <2>2. \A b \in Callers : work[b] = "closing" => work'[b] = "closing"
    BY <1>7 DEF Launch
  <2>3. \A u \in Submits : u # s => call'[u] = call[u]
    BY <1>7 DEF Launch, Goto
  <2> QED
    BY <1>7, <2>1, <2>2, <2>3 DEF Launch
<1>8. ASSUME NEW s \in Submits, Snapshot(s) PROVE Waiting'
  BY <1>8 DEF Snapshot, ReadFails, Fault, Goto, Answer, Present
<1>9. ASSUME NEW s \in Submits, Wake(s) PROVE Waiting'
  BY <1>9 DEF Wake, Goto
<1>10. ASSUME NEW s \in Submits, FinalSnapshot(s) PROVE Waiting'
  BY <1>10 DEF FinalSnapshot, ReadFails, Fault, Goto, Answer, Present
<1>11. ASSUME NEW s \in Submits, Leave(s) PROVE Waiting'
  BY <1>11 DEF Leave, Goto
<1>12. ASSUME NEW s \in Submits, ClientLeaves(s) PROVE Waiting'
  BY <1>12 DEF ClientLeaves, Goto, Answer
<1>13. ASSUME NEW s \in Submits, MarkDispatched(s) PROVE Waiting'
  BY <1>13 DEF MarkDispatched, Update, UpdateFails, Fault
<1>14. ASSUME NEW s \in Submits, MarkRunning(s) PROVE Waiting'
  BY <1>14 DEF MarkRunning, Update, UpdateFails, Fault
<1>15. ASSUME NEW s \in Submits, Abort(s) PROVE Waiting'
  BY <1>15 DEF Abort
<1>16. ASSUME NEW s \in Submits, ContextEnds(s) PROVE Waiting'
  BY <1>16 DEF ContextEnds, Conclude
<1>17. ASSUME NEW s \in Submits, Expire(s) PROVE Waiting'
  BY <1>17 DEF Expire
<1>18. ASSUME NEW s \in Submits, Enqueued(s) PROVE Waiting'
  BY <1>18 DEF Enqueued
<1>19. ASSUME NEW s \in Submits, DispatchFails(s) PROVE Waiting'
  BY <1>19 DEF DispatchFails, Conclude
<1>20. ASSUME NEW s \in Submits, WorkerAnswers(s) PROVE Waiting'
  BY <1>20 DEF WorkerAnswers, Conclude
<1>21. ASSUME NEW a \in Callers, FinishWrite(a) PROVE Waiting'
  BY <1>21 DEF FinishWrite, Update, UpdateFails, Fault
<1>22. ASSUME NEW a \in Callers, TakeRuntime(a) PROVE Waiting'
  BY <1>22 DEF TakeRuntime, AfterFinish
<1>23. ASSUME NEW a \in Callers, CloseRuntime(a) PROVE Waiting'
  BY <1>23 DEF CloseRuntime, AfterFinish
<1>24. ASSUME NEW k \in Cancels, EndCancel(k) PROVE Waiting'
  BY <1>24 DEF EndCancel, ReadFails, Fault, Goto, Answer, Present
<1>25. ASSUME NEW k \in Cancels, NEW t \in Submits, BeginCancel(k, t) PROVE Waiting'
  BY <1>25 DEF BeginCancel, ReadFails, Fault, Goto, Answer, Present
<1>26. CASE Sweep
  BY <1>26 DEF Sweep, Prune
<1>27. CASE Crash
  BY <1>27 DEF Crash, Die, InCall
<1>28. CASE Start
  BY <1>28 DEF Start
<1>29. CASE UNCHANGED vars
  BY <1>29
<1>30. ASSUME NEW s \in Submits, LookCancel(s) PROVE Waiting'
  BY <1>30 DEF LookCancel
<1>31. ASSUME NEW s \in Submits, Panic(s) PROVE Waiting'
  BY <1>31 DEF Panic, Die, InCall
<1> QED
  BY <1>1, <1>2, <1>3, <1>4, <1>5, <1>6, <1>7, <1>8, <1>9, <1>10, <1>11, <1>12, <1>13, <1>14,
      <1>15, <1>16, <1>17, <1>18, <1>19, <1>20, <1>21, <1>22, <1>23, <1>24, <1>25, <1>26,
      <1>27, <1>28, <1>29, <1>30, <1>31
  DEF Next, Submit, Execute, Finish

(* Only a call that has a record waits.                                    *)
LEMMA WaitersKnowStep == TypeOK /\ Located /\ WaitersKnow /\ [Next]_vars => WaitersKnow'
<1> SUFFICES ASSUME TypeOK, Located, WaitersKnow, [Next]_vars PROVE WaitersKnow'
  OBVIOUS
<1> USE CallersAssumption DEF TypeOK, vars, processVars, recordVars, callVars, workVars,
    Callers, Active, Terminal, Located, WaitersKnow, Early, Creating, Refusals, Settled
<1>1. ASSUME NEW s \in Submits, Begin(s) PROVE WaitersKnow'
  BY <1>1 DEF Begin, Prune, Goto, Answer
<1>2. ASSUME NEW s \in Submits, Lookup(s) PROVE WaitersKnow'
  BY <1>2 DEF Lookup, Twins, Misses, Fault, Goto
<1>3. ASSUME NEW s \in Submits, LookRuntime(s) PROVE WaitersKnow'
  BY <1>3 DEF LookRuntime, Goto
<1>4. ASSUME NEW s \in Submits, Create(s) PROVE WaitersKnow'
  BY <1>4 DEF Create, Goto, Answer
<1>5. ASSUME NEW s \in Submits, Relook(s) PROVE WaitersKnow'
  BY <1>5 DEF Relook, Twins, Misses, Fault, Goto, Answer
<1>6. ASSUME NEW s \in Submits, Register(s) PROVE WaitersKnow'
  BY <1>6 DEF Register, Goto
<1>7. ASSUME NEW s \in Submits, Launch(s) PROVE WaitersKnow'
  BY <1>7 DEF Launch, Goto
<1>8. ASSUME NEW s \in Submits, Snapshot(s) PROVE WaitersKnow'
  BY <1>8 DEF Snapshot, ReadFails, Fault, Goto, Answer, Present
<1>9. ASSUME NEW s \in Submits, Wake(s) PROVE WaitersKnow'
  BY <1>9 DEF Wake, Goto
<1>10. ASSUME NEW s \in Submits, FinalSnapshot(s) PROVE WaitersKnow'
  BY <1>10 DEF FinalSnapshot, ReadFails, Fault, Goto, Answer, Present
<1>11. ASSUME NEW s \in Submits, Leave(s) PROVE WaitersKnow'
  BY <1>11 DEF Leave, Goto
<1>12. ASSUME NEW s \in Submits, ClientLeaves(s) PROVE WaitersKnow'
  BY <1>12 DEF ClientLeaves, Goto, Answer
<1>13. ASSUME NEW s \in Submits, MarkDispatched(s) PROVE WaitersKnow'
  BY <1>13 DEF MarkDispatched, Update, UpdateFails, Fault
<1>14. ASSUME NEW s \in Submits, MarkRunning(s) PROVE WaitersKnow'
  BY <1>14 DEF MarkRunning, Update, UpdateFails, Fault
<1>15. ASSUME NEW s \in Submits, Abort(s) PROVE WaitersKnow'
  BY <1>15 DEF Abort
<1>16. ASSUME NEW s \in Submits, ContextEnds(s) PROVE WaitersKnow'
  BY <1>16 DEF ContextEnds, Conclude
<1>17. ASSUME NEW s \in Submits, Expire(s) PROVE WaitersKnow'
  BY <1>17 DEF Expire
<1>18. ASSUME NEW s \in Submits, Enqueued(s) PROVE WaitersKnow'
  BY <1>18 DEF Enqueued
<1>19. ASSUME NEW s \in Submits, DispatchFails(s) PROVE WaitersKnow'
  BY <1>19 DEF DispatchFails, Conclude
<1>20. ASSUME NEW s \in Submits, WorkerAnswers(s) PROVE WaitersKnow'
  BY <1>20 DEF WorkerAnswers, Conclude
<1>21. ASSUME NEW a \in Callers, FinishWrite(a) PROVE WaitersKnow'
  BY <1>21 DEF FinishWrite, Update, UpdateFails, Fault
<1>22. ASSUME NEW a \in Callers, TakeRuntime(a) PROVE WaitersKnow'
  BY <1>22 DEF TakeRuntime, AfterFinish
<1>23. ASSUME NEW a \in Callers, CloseRuntime(a) PROVE WaitersKnow'
  BY <1>23 DEF CloseRuntime, AfterFinish
<1>24. ASSUME NEW k \in Cancels, EndCancel(k) PROVE WaitersKnow'
  BY <1>24 DEF EndCancel, ReadFails, Fault, Goto, Answer, Present
<1>25. ASSUME NEW k \in Cancels, NEW t \in Submits, BeginCancel(k, t) PROVE WaitersKnow'
  BY <1>25 DEF BeginCancel, ReadFails, Fault, Goto, Answer, Present
<1>26. CASE Sweep
  BY <1>26 DEF Sweep, Prune
<1>27. CASE Crash
  BY <1>27 DEF Crash, Die, InCall
<1>28. CASE Start
  BY <1>28 DEF Start
<1>29. CASE UNCHANGED vars
  BY <1>29
<1>30. ASSUME NEW s \in Submits, LookCancel(s) PROVE WaitersKnow'
  BY <1>30 DEF LookCancel
<1>31. ASSUME NEW s \in Submits, Panic(s) PROVE WaitersKnow'
  BY <1>31 DEF Panic, Die, InCall
<1> QED
  BY <1>1, <1>2, <1>3, <1>4, <1>5, <1>6, <1>7, <1>8, <1>9, <1>10, <1>11, <1>12, <1>13, <1>14,
      <1>15, <1>16, <1>17, <1>18, <1>19, <1>20, <1>21, <1>22, <1>23, <1>24, <1>25, <1>26,
      <1>27, <1>28, <1>29, <1>30, <1>31
  DEF Next, Submit, Execute, Finish

(* An active row keeps its driver.                                         *)
LEMMA DriverStep == TypeOK /\ Located /\ Inserted /\ Written /\ ActiveHasDriver /\ [Next]_vars => ActiveHasDriver'
<1> SUFFICES ASSUME TypeOK, Located, Inserted, Written, ActiveHasDriver, [Next]_vars PROVE ActiveHasDriver'
  OBVIOUS
<1> USE CallersAssumption DEF TypeOK, vars, processVars, recordVars, callVars, workVars,
    Callers, Active, Terminal, Located, Inserted, Written, ActiveHasDriver, Working, Early,
    Creating, Refusals, Settled
<1>1. ASSUME NEW s \in Submits, Begin(s) PROVE ActiveHasDriver'
  BY <1>1 DEF Begin, Prune, Goto, Answer
<1>2. ASSUME NEW s \in Submits, Lookup(s) PROVE ActiveHasDriver'
  BY <1>2 DEF Lookup, Twins, Misses, Fault, Goto
<1>3. ASSUME NEW s \in Submits, LookRuntime(s) PROVE ActiveHasDriver'
  BY <1>3 DEF LookRuntime, Goto
<1>4. ASSUME NEW s \in Submits, Create(s) PROVE ActiveHasDriver'
  BY <1>4 DEF Create, Goto, Answer
<1>5. ASSUME NEW s \in Submits, Relook(s) PROVE ActiveHasDriver'
  BY <1>5 DEF Relook, Twins, Misses, Fault, Goto, Answer
<1>6. ASSUME NEW s \in Submits, Register(s) PROVE ActiveHasDriver'
  BY <1>6 DEF Register, Goto
<1>7. ASSUME NEW s \in Submits, Launch(s) PROVE ActiveHasDriver'
  BY <1>7 DEF Launch, Goto
<1>8. ASSUME NEW s \in Submits, Snapshot(s) PROVE ActiveHasDriver'
  BY <1>8 DEF Snapshot, ReadFails, Fault, Goto, Answer, Present
<1>9. ASSUME NEW s \in Submits, Wake(s) PROVE ActiveHasDriver'
  BY <1>9 DEF Wake, Goto
<1>10. ASSUME NEW s \in Submits, FinalSnapshot(s) PROVE ActiveHasDriver'
  BY <1>10 DEF FinalSnapshot, ReadFails, Fault, Goto, Answer, Present
<1>11. ASSUME NEW s \in Submits, Leave(s) PROVE ActiveHasDriver'
  BY <1>11 DEF Leave, Goto
<1>12. ASSUME NEW s \in Submits, ClientLeaves(s) PROVE ActiveHasDriver'
  BY <1>12 DEF ClientLeaves, Goto, Answer
<1>13. ASSUME NEW s \in Submits, MarkDispatched(s) PROVE ActiveHasDriver'
  BY <1>13 DEF MarkDispatched, Update, UpdateFails, Fault
<1>14. ASSUME NEW s \in Submits, MarkRunning(s) PROVE ActiveHasDriver'
  BY <1>14 DEF MarkRunning, Update, UpdateFails, Fault
<1>15. ASSUME NEW s \in Submits, Abort(s) PROVE ActiveHasDriver'
  BY <1>15 DEF Abort
<1>16. ASSUME NEW s \in Submits, ContextEnds(s) PROVE ActiveHasDriver'
  <2>1. work'[s] = "ended" => row[s] \notin Active
    BY <1>16 DEF ContextEnds, Conclude
  <2>2. \A u \in Submits : u # s => work'[u] = work[u]
    BY <1>16 DEF ContextEnds, Conclude
  <2>3. up' = up /\ row' = row /\ call' = call /\ work'[s] \in {"ended", "fallback", "finish"}
    BY <1>16 DEF ContextEnds, Conclude
  <2> QED
    BY <2>1, <2>2, <2>3
<1>17. ASSUME NEW s \in Submits, Expire(s) PROVE ActiveHasDriver'
  BY <1>17 DEF Expire
<1>18. ASSUME NEW s \in Submits, Enqueued(s) PROVE ActiveHasDriver'
  BY <1>18 DEF Enqueued
<1>19. ASSUME NEW s \in Submits, DispatchFails(s) PROVE ActiveHasDriver'
  BY <1>19 DEF DispatchFails, Conclude
<1>20. ASSUME NEW s \in Submits, WorkerAnswers(s) PROVE ActiveHasDriver'
  BY <1>20 DEF WorkerAnswers, Conclude
<1>21. ASSUME NEW a \in Callers, FinishWrite(a) PROVE ActiveHasDriver'
  BY <1>21 DEF FinishWrite, Update, UpdateFails, Fault
<1>22. ASSUME NEW a \in Callers, TakeRuntime(a) PROVE ActiveHasDriver'
  BY <1>22 DEF TakeRuntime, AfterFinish
<1>23. ASSUME NEW a \in Callers, CloseRuntime(a) PROVE ActiveHasDriver'
  BY <1>23 DEF CloseRuntime, AfterFinish
<1>24. ASSUME NEW k \in Cancels, EndCancel(k) PROVE ActiveHasDriver'
  BY <1>24 DEF EndCancel, ReadFails, Fault, Goto, Answer, Present
<1>25. ASSUME NEW k \in Cancels, NEW t \in Submits, BeginCancel(k, t) PROVE ActiveHasDriver'
  BY <1>25 DEF BeginCancel, ReadFails, Fault, Goto, Answer, Present
<1>26. CASE Sweep
  BY <1>26 DEF Sweep, Prune
<1>27. CASE Crash
  BY <1>27 DEF Crash, Die, InCall
<1>28. CASE Start
  BY <1>28 DEF Start
<1>29. CASE UNCHANGED vars
  BY <1>29
<1>30. ASSUME NEW s \in Submits, LookCancel(s) PROVE ActiveHasDriver'
  BY <1>30 DEF LookCancel
<1>31. ASSUME NEW s \in Submits, Panic(s) PROVE ActiveHasDriver'
  BY <1>31 DEF Panic, Die, InCall
<1> QED
  BY <1>1, <1>2, <1>3, <1>4, <1>5, <1>6, <1>7, <1>8, <1>9, <1>10, <1>11, <1>12, <1>13, <1>14,
      <1>15, <1>16, <1>17, <1>18, <1>19, <1>20, <1>21, <1>22, <1>23, <1>24, <1>25, <1>26,
      <1>27, <1>28, <1>29, <1>30, <1>31
  DEF Next, Submit, Execute, Finish

(* A terminal answer stays true.                                           *)
LEMMA AnswersStandStep == TypeOK /\ Located /\ Answered /\ Inserted /\ Written /\ AnswersStand /\ [Next]_vars => AnswersStand'
<1> SUFFICES ASSUME TypeOK, Located, Answered, Inserted, Written, AnswersStand, [Next]_vars PROVE AnswersStand'
  OBVIOUS
<1> USE CallersAssumption DEF TypeOK, vars, processVars, recordVars, callVars, workVars,
    Callers, Active, Terminal, Located, Answered, Inserted, Written, AnswersStand, Early,
    Creating, Refusals, Settled
<1>1. ASSUME NEW s \in Submits, Begin(s) PROVE AnswersStand'
  BY <1>1 DEF Begin, Prune, Goto, Answer
<1>2. ASSUME NEW s \in Submits, Lookup(s) PROVE AnswersStand'
  BY <1>2 DEF Lookup, Twins, Misses, Fault, Goto
<1>3. ASSUME NEW s \in Submits, LookRuntime(s) PROVE AnswersStand'
  BY <1>3 DEF LookRuntime, Goto
<1>4. ASSUME NEW s \in Submits, Create(s) PROVE AnswersStand'
  BY <1>4 DEF Create, Goto, Answer
<1>5. ASSUME NEW s \in Submits, Relook(s) PROVE AnswersStand'
  BY <1>5 DEF Relook, Twins, Misses, Fault, Goto, Answer
<1>6. ASSUME NEW s \in Submits, Register(s) PROVE AnswersStand'
  BY <1>6 DEF Register, Goto
<1>7. ASSUME NEW s \in Submits, Launch(s) PROVE AnswersStand'
  BY <1>7 DEF Launch, Goto
<1>8. ASSUME NEW s \in Submits, Snapshot(s) PROVE AnswersStand'
  BY <1>8 DEF Snapshot, ReadFails, Fault, Goto, Answer, Present
<1>9. ASSUME NEW s \in Submits, Wake(s) PROVE AnswersStand'
  BY <1>9 DEF Wake, Goto
<1>10. ASSUME NEW s \in Submits, FinalSnapshot(s) PROVE AnswersStand'
  BY <1>10 DEF FinalSnapshot, ReadFails, Fault, Goto, Answer, Present
<1>11. ASSUME NEW s \in Submits, Leave(s) PROVE AnswersStand'
  BY <1>11 DEF Leave, Goto
<1>12. ASSUME NEW s \in Submits, ClientLeaves(s) PROVE AnswersStand'
  BY <1>12 DEF ClientLeaves, Goto, Answer
<1>13. ASSUME NEW s \in Submits, MarkDispatched(s) PROVE AnswersStand'
  BY <1>13 DEF MarkDispatched, Update, UpdateFails, Fault
<1>14. ASSUME NEW s \in Submits, MarkRunning(s) PROVE AnswersStand'
  BY <1>14 DEF MarkRunning, Update, UpdateFails, Fault
<1>15. ASSUME NEW s \in Submits, Abort(s) PROVE AnswersStand'
  BY <1>15 DEF Abort
<1>16. ASSUME NEW s \in Submits, ContextEnds(s) PROVE AnswersStand'
  BY <1>16 DEF ContextEnds, Conclude
<1>17. ASSUME NEW s \in Submits, Expire(s) PROVE AnswersStand'
  BY <1>17 DEF Expire
<1>18. ASSUME NEW s \in Submits, Enqueued(s) PROVE AnswersStand'
  BY <1>18 DEF Enqueued
<1>19. ASSUME NEW s \in Submits, DispatchFails(s) PROVE AnswersStand'
  BY <1>19 DEF DispatchFails, Conclude
<1>20. ASSUME NEW s \in Submits, WorkerAnswers(s) PROVE AnswersStand'
  BY <1>20 DEF WorkerAnswers, Conclude
<1>21. ASSUME NEW a \in Callers, FinishWrite(a) PROVE AnswersStand'
  BY <1>21 DEF FinishWrite, Update, UpdateFails, Fault
<1>22. ASSUME NEW a \in Callers, TakeRuntime(a) PROVE AnswersStand'
  BY <1>22 DEF TakeRuntime, AfterFinish
<1>23. ASSUME NEW a \in Callers, CloseRuntime(a) PROVE AnswersStand'
  BY <1>23 DEF CloseRuntime, AfterFinish
<1>24. ASSUME NEW k \in Cancels, EndCancel(k) PROVE AnswersStand'
  BY <1>24 DEF EndCancel, ReadFails, Fault, Goto, Answer, Present
<1>25. ASSUME NEW k \in Cancels, NEW t \in Submits, BeginCancel(k, t) PROVE AnswersStand'
  BY <1>25 DEF BeginCancel, ReadFails, Fault, Goto, Answer, Present
<1>26. CASE Sweep
  BY <1>26 DEF Sweep, Prune
<1>27. CASE Crash
  BY <1>27 DEF Crash, Die, InCall
<1>28. CASE Start
  BY <1>28 DEF Start
<1>29. CASE UNCHANGED vars
  BY <1>29
<1>30. ASSUME NEW s \in Submits, LookCancel(s) PROVE AnswersStand'
  BY <1>30 DEF LookCancel
<1>31. ASSUME NEW s \in Submits, Panic(s) PROVE AnswersStand'
  BY <1>31 DEF Panic, Die, InCall
<1> QED
  BY <1>1, <1>2, <1>3, <1>4, <1>5, <1>6, <1>7, <1>8, <1>9, <1>10, <1>11, <1>12, <1>13, <1>14,
      <1>15, <1>16, <1>17, <1>18, <1>19, <1>20, <1>21, <1>22, <1>23, <1>24, <1>25, <1>26,
      <1>27, <1>28, <1>29, <1>30, <1>31
  DEF Next, Submit, Execute, Finish

-----------------------------------------------------------------------------
(* The invariant holds at the start ...                                    *)
LEMMA InitInv == Init => IInv
<1> SUFFICES ASSUME Init PROVE IInv
  OBVIOUS
<1> USE CallersAssumption, BoundsAssumption DEF Init, Callers, Active, Terminal
<1>1. TypeOK
  BY DEF TypeOK, Refusals, CallSteps, WorkSteps
<1>2. Located /\ Answered /\ Inserted /\ Staged /\ Written
  BY DEF Located, Answered, Inserted, Staged, Written, Early, Creating
<1>3. Keyed
  BY DEF Keyed, Early, Creating, SameRequest, Present
<1>4. Recorded /\ Waiting /\ WaitersKnow
  BY DEF Recorded, Waiting, WaitersKnow
<1>5. ActiveHasDriver /\ AnswersStand
  BY DEF ActiveHasDriver, AnswersStand
<1> QED
  BY <1>1, <1>2, <1>3, <1>4, <1>5 DEF IInv

(* ... and every step keeps it.                                            *)
LEMMA StepInv == IInv /\ [Next]_vars => IInv'
BY TypeStep, LocatedStep, AnsweredStep, InsertedStep, StagedStep, WrittenStep, KeyedStep,
   RecordedStep, WaitingStep, WaitersKnowStep, DriverStep, AnswersStandStep DEF IInv

LEMMA Invariance == Spec => []IInv
BY InitInv, StepInv, PTL DEF Spec

(* Every variable keeps its type in every reachable state.                 *)
THEOREM TypeCorrect == Spec => []TypeOK
<1>1. IInv => TypeOK
  BY DEF IInv
<1> QED
  BY <1>1, Invariance, PTL

(* A task that is not finished has a call or an executor that will finish  *)
(* it, or an executor whose write and fallback write both failed, however  *)
(* calls, cancels, pruning and crashes interleave.                         *)
THEOREM DriverHolds == Spec => []ActiveHasDriver
<1>1. IInv => ActiveHasDriver
  BY DEF IInv
<1> QED
  BY <1>1, Invariance, PTL

(* No terminal status that was answered is ever overwritten.               *)
THEOREM AnswersStandHolds == Spec => []AnswersStand
<1>1. IInv => AnswersStand
  BY DEF IInv
<1> QED
  BY <1>1, Invariance, PTL

(* Calls with one request_id agree on the task as long as it is kept.      *)
THEOREM RetriesJoinHolds == Spec => []RetriesJoin
<1>1. IInv => RetriesJoin
  <2> SUFFICES ASSUME TypeOK, Located, Answered, Keyed,
                      NEW s \in Submits, NEW u \in Submits, SameRequest(s, u),
                      reply[s] \in Active \cup Terminal, reply[u] \in Active \cup Terminal,
                      row[target[s]] # "deleted", row[target[u]] # "deleted"
               PROVE  target[s] = target[u]
    BY DEF IInv, RetriesJoin
  <2>1. /\ target[s] \in Submits /\ target[u] \in Submits
        /\ row[target[s]] # "absent" /\ row[target[u]] # "absent"
    BY DEF Answered, Callers
  <2>2. Present(target[s]) /\ Present(target[u])
    BY <2>1 DEF TypeOK, Present
  <2>3. /\ target[s] = s \/ SameRequest(s, target[s])
        /\ target[u] = u \/ SameRequest(u, target[u])
    BY <2>1 DEF Keyed
  <2>4. SameRequest(target[s], target[u])
    BY <2>3 DEF SameRequest
  <2> QED
    BY <2>1, <2>2, <2>4 DEF Keyed
<1> QED
  BY <1>1, Invariance, PTL

(* Every runtime record has somebody who will take it out of the map.      *)
THEOREM FinisherHolds == Spec => []RuntimeHasFinisher
<1>1. IInv => RuntimeHasFinisher
  <2> SUFFICES ASSUME IInv, NEW t \in runtime, call[t] # "registered", ~Working(t)
               PROVE  \E a \in Callers : target[a] = t /\ work[a] = "taking"
    BY DEF RuntimeHasFinisher
  <2>1. t \in Submits /\ up
    BY DEF IInv, TypeOK, Recorded
  <2>2. work[t] \notin {"idle", "gaveup"}
    BY <2>1 DEF IInv, Recorded
  <2>3. call[t] # "created"
    BY <2>1, <2>2 DEF IInv, Located, Creating
  <2>4. row[t] \notin Active
    BY <2>1, <2>2, <2>3 DEF IInv, ActiveHasDriver
  <2> QED
    BY <2>4 DEF IInv, Recorded
<1> QED
  BY <1>1, Invariance, PTL

(* No caller waits on a done channel that nobody will close.               *)
THEOREM WaiterHolds == Spec => []WaiterHasRuntime
<1>1. IInv => WaiterHasRuntime
  BY DEF IInv, Waiting, WaitersKnow, WaiterHasRuntime
<1> QED
  BY <1>1, Invariance, PTL

-----------------------------------------------------------------------------
(* A row that stays, or is written by an executor or a cancel, is a step   *)
(* of the task book or none.                                               *)
LEMMA UpdateRefines ==
  ASSUME TypeOK, NEW t \in Submits, NEW status \in Terminal, row[t] \in Active,
         row' = [row EXCEPT ![t] = status]
  PROVE  Book!End(t)
BY DEF TypeOK, Active, Terminal, Book!End, Book!Become, Book!Unfinished, Book!Finished

LEMMA PruneRefines ==
  ASSUME NEW expired \in SUBSET Settled, Prune(expired)
  PROVE  Book!Forget
<1>1. expired \in SUBSET {t \in Submits : row[t] \in Book!Finished}
  BY DEF Settled, Terminal, Book!Finished
<1>2. row' = [t \in Submits |-> IF t \in expired THEN "deleted" ELSE row[t]]
  BY DEF Prune
<1> QED
  BY <1>1, <1>2 DEF Book!Forget

LEMMA StepRefines == IInv /\ [Next]_vars => [Book!Next]_row
<1> SUFFICES ASSUME IInv, [Next]_vars PROVE Book!Next \/ row' = row
  BY DEF Book!Next
<1>0. TypeOK /\ Located /\ Inserted /\ Staged /\ Keyed
  BY DEF IInv
<1>1. ASSUME NEW s \in Submits, Begin(s) PROVE Book!Next \/ row' = row
  <2>1. PICK expired \in SUBSET Settled : Prune(expired)
    BY <1>1 DEF Begin
  <2> QED
    BY <2>1, PruneRefines DEF Book!Next
<1>2. ASSUME NEW s \in Submits, Create(s) PROVE Book!Next \/ row' = row
  <2>1. CASE Twins(s) = {} /\ row' = [row EXCEPT ![s] = "queued"]
    <3>1. row[s] = "absent"
      BY <1>0, <1>2 DEF Create, Inserted, Early
    <3>2. ASSUME NEW u \in Submits, u # s, RequestOf[s] # NoRequest,
                 RequestOf[u] = RequestOf[s]
          PROVE  row[u] \notin Active \cup Terminal
      BY <2>1, <3>2 DEF Twins, SameRequest, Present
    <3>3. \A u \in Book!Twins(s) : ~Book!Kept(u)
      BY <3>2 DEF Book!Twins, Book!Kept, Book!Unfinished, Book!Finished, Active, Terminal
    <3>4. Book!Create(s)
      BY <2>1, <3>1, <3>3 DEF Book!Create, Book!Become
    <3> QED
      BY <3>4 DEF Book!Next
  <2>2. CASE row' = row
    BY <2>2
  <2> QED
    BY <1>2, <2>1, <2>2 DEF Create
<1>3. ASSUME NEW t \in Submits, MarkDispatched(t) PROVE Book!Next \/ row' = row
  <2>1. CASE row' = row
    BY <2>1
  <2>2. CASE row[t] \in Active /\ row' = [row EXCEPT ![t] = "dispatched"]
    <3>1. row[t] = "queued"
      BY <1>0, <1>3, <2>2 DEF MarkDispatched, Staged, Active
    <3> QED
      BY <2>2, <3>1 DEF Book!Next, Book!Advance, Book!Become
  <2> QED
    BY <1>3, <2>1, <2>2 DEF MarkDispatched, Update, UpdateFails
<1>4. ASSUME NEW t \in Submits, MarkRunning(t) PROVE Book!Next \/ row' = row
  <2>1. CASE row' = row
    BY <2>1
  <2>2. CASE row[t] \in Active /\ row' = [row EXCEPT ![t] = "running"]
    <3>1. row[t] = "dispatched"
      BY <1>0, <1>4, <2>2 DEF MarkRunning, Staged, Active
    <3> QED
      BY <2>2, <3>1 DEF Book!Next, Book!Advance, Book!Become
  <2> QED
    BY <1>4, <2>1, <2>2 DEF MarkRunning, Update, UpdateFails
<1>5. ASSUME NEW a \in Callers, FinishWrite(a) PROVE Book!Next \/ row' = row
  <2>1. target[a] \in Submits
    BY <1>0, <1>5 DEF FinishWrite, Located, Callers
  <2>2. CASE row' = row
    BY <2>2
  <2>3. ASSUME NEW status \in Terminal, row[target[a]] \in Active,
               row' = [row EXCEPT ![target[a]] = status]
        PROVE  Book!Next
    BY <1>0, <2>1, <2>3, UpdateRefines DEF Book!Next
  <2>4. verdict[a] \in Terminal /\ "failed" \in Terminal
    BY <1>0 DEF TypeOK, Terminal
  <2> QED
    BY <1>5, <2>2, <2>3, <2>4 DEF FinishWrite, Update, UpdateFails
<1>6. CASE Sweep
  <2>1. PICK expired \in SUBSET Settled : Prune(expired)
    BY <1>6 DEF Sweep
  <2> QED
    BY <2>1, PruneRefines DEF Book!Next
<1>7. CASE Start
  BY <1>7 DEF Start, Active, Book!Next, Book!Interrupt, Book!Unfinished
<1>8. ASSUME NEW s \in Submits,
             \/ Lookup(s) \/ LookRuntime(s) \/ Relook(s) \/ Register(s) \/ Launch(s)
             \/ Snapshot(s) \/ Wake(s) \/ FinalSnapshot(s) \/ Leave(s) \/ ClientLeaves(s)
      PROVE  row' = row
  BY <1>8 DEF Lookup, LookRuntime, Relook, Register, Launch, Snapshot, Wake,
              FinalSnapshot, Leave, ClientLeaves
<1>9. ASSUME NEW t \in Submits,
             \/ LookCancel(t) \/ Abort(t) \/ Panic(t) \/ ContextEnds(t) \/ Expire(t) \/ Enqueued(t)
             \/ DispatchFails(t) \/ WorkerAnswers(t)
      PROVE  row' = row
  BY <1>9 DEF LookCancel, Abort, Panic, Die, ContextEnds, Expire, Enqueued, DispatchFails, WorkerAnswers, Conclude
<1>10. ASSUME NEW a \in Callers, TakeRuntime(a) \/ CloseRuntime(a) PROVE row' = row
  BY <1>10 DEF TakeRuntime, CloseRuntime
<1>11. ASSUME NEW k \in Cancels, EndCancel(k) \/ (\E t \in Submits : BeginCancel(k, t))
       PROVE  row' = row
  BY <1>11 DEF EndCancel, BeginCancel
<1>12. CASE Crash \/ UNCHANGED vars
  BY <1>12 DEF Crash, Die, vars
<1> QED
  BY <1>1, <1>2, <1>3, <1>4, <1>5, <1>6, <1>7, <1>8, <1>9, <1>10, <1>11, <1>12
  DEF Next, Submit, Execute, Finish

(* The task table is a task book: forward only, ended once, one kept task  *)
(* per request key, forgotten only when finished.                          *)
THEOREM Refinement == Spec => ImplementsTaskBook
<1>1. Init => Book!Init
  BY DEF Init, Book!Init
<1> QED
  BY <1>1, StepRefines, Invariance, PTL DEF Spec, ImplementsTaskBook, Book!Spec

-----------------------------------------------------------------------------
(* While no statement has failed: what is over, what is still recorded,    *)
(* and what the calls on their way to an answer can count on.              *)
Over(t) == row[t] \in Terminal \cup {"deleted"}

NoFailedWrite == \A a \in Callers : wrote[a] \notin {"failed", "failed_again"}

ClosedOver == \A t \in closed : Over(t)

ActiveRecorded ==
  up => \A t \in Submits : row[t] \in Active => call[t] = "created" \/ t \in runtime

HeadingOf(s) ==
  /\ call[s] \in {"found", "snapshot", "waiting", "final"} => row[target[s]] # "absent"
  /\ call[s] = "registered" => waits[s]
  /\ call[s] = "snapshot" /\ ~waits[s] => Over(target[s])
  /\ call[s] = "final" /\ ModeOf[s] = "sync" => Over(target[s])

Heading == \A s \in Submits : HeadingOf(s)

Smooth ==
  faults = 0 => NoFailedWrite /\ ClosedOver /\ ActiveRecorded /\ Heading /\ SyncCompletes

(* A statement that fails is counted.                                      *)
LEMMA FaultCounts == TypeOK /\ Fault => faults' # 0
BY BoundsAssumption DEF TypeOK, Fault

(* A task that was created stays so, and one that is over stays over.      *)
Onward == \A t \in Submits : /\ row[t] # "absent" => row'[t] # "absent"
                             /\ Over(t) => Over(t)'

LEMMA RowsOnward == IInv /\ [Next]_vars => Onward
<1> SUFFICES ASSUME IInv, [Next]_vars PROVE Onward
  OBVIOUS
<1> USE DEF Onward, Over, Terminal
<1>1. TypeOK /\ [Book!Next]_row
  BY StepRefines DEF IInv
<1>2. ASSUME NEW t \in Submits, Book!Create(t) \/ Book!Advance(t) \/ Book!End(t)
      PROVE  Onward
  BY <1>1, <1>2 DEF TypeOK, Book!Create, Book!Advance, Book!End, Book!Become,
                    Book!Unfinished, Book!Finished
<1>3. CASE Book!Interrupt
  BY <1>1, <1>3 DEF TypeOK, Book!Interrupt, Book!Unfinished
<1>4. CASE Book!Forget
  BY <1>1, <1>4 DEF TypeOK, Book!Forget
<1>5. CASE row' = row
  BY <1>5
<1> QED
  BY <1>1, <1>2, <1>3, <1>4, <1>5 DEF Book!Next

(* Faults are never forgotten.                                             *)
LEMMA FaultsGrow == TypeOK /\ [Next]_vars /\ faults # 0 => faults' # 0
<1> SUFFICES ASSUME TypeOK, [Next]_vars PROVE faults' = faults \/ Fault
  BY FaultCounts
<1>1. ASSUME NEW s \in Submits, Begin(s) \/ Submit(s) \/ ClientLeaves(s)
      PROVE  faults' = faults \/ Fault
  BY <1>1 DEF Begin, Submit, ClientLeaves, Lookup, LookRuntime, Create, Relook, Register, Launch,
              Snapshot, Wake, FinalSnapshot, Leave, Misses, ReadFails
<1>2. ASSUME NEW t \in Submits, Execute(t) \/ Panic(t) PROVE faults' = faults \/ Fault
  BY <1>2 DEF Execute, MarkDispatched, MarkRunning, UpdateFails, LookCancel, Abort, ContextEnds,
              Expire, Conclude, Panic, Die
<1>3. ASSUME NEW t \in Submits, Enqueued(t) \/ DispatchFails(t) \/ WorkerAnswers(t)
      PROVE  faults' = faults
  BY <1>3 DEF Enqueued, DispatchFails, WorkerAnswers, Conclude
<1>4. ASSUME NEW a \in Callers, Finish(a) PROVE faults' = faults \/ Fault
  BY <1>4 DEF Finish, FinishWrite, UpdateFails, TakeRuntime, CloseRuntime
<1>5. ASSUME NEW k \in Cancels, EndCancel(k) \/ (\E t \in Submits : BeginCancel(k, t))
      PROVE  faults' = faults \/ Fault
  BY <1>5 DEF EndCancel, BeginCancel, ReadFails
<1>6. CASE Sweep \/ Crash \/ Start \/ UNCHANGED vars
  BY <1>6 DEF Sweep, Crash, Die, Start, vars
<1> QED
  BY <1>1, <1>2, <1>3, <1>4, <1>5, <1>6 DEF Next

(* No guarded UPDATE has failed.                                          *)
LEMMA NoFailedWriteStep ==
  ASSUME TypeOK, NoFailedWrite, [Next]_vars, faults' = 0
  PROVE  NoFailedWrite'
<1> USE DEF NoFailedWrite, TypeOK
<1>1. ~Fault
  BY FaultCounts
<1>2. ASSUME NEW t \in Submits, MarkDispatched(t) \/ MarkRunning(t) PROVE NoFailedWrite'
  BY <1>1, <1>2 DEF MarkDispatched, MarkRunning, Update, UpdateFails
<1>3. ASSUME NEW a \in Callers, FinishWrite(a) PROVE NoFailedWrite'
  BY <1>1, <1>3 DEF FinishWrite, Update, UpdateFails
<1>4. ASSUME NEW s \in Submits, Begin(s) \/ Submit(s) \/ ClientLeaves(s) PROVE wrote' = wrote
  BY <1>4 DEF Begin, Submit, ClientLeaves, Lookup, LookRuntime, Create, Relook, Register, Launch,
              Snapshot, Wake, FinalSnapshot, Leave, workVars
<1>5. ASSUME NEW t \in Submits,
             \/ LookCancel(t) \/ Abort(t) \/ Panic(t) \/ ContextEnds(t) \/ Expire(t) \/ Enqueued(t)
             \/ DispatchFails(t) \/ WorkerAnswers(t)
      PROVE  wrote' = wrote
  BY <1>5 DEF LookCancel, Abort, Panic, Die, ContextEnds, Expire, Enqueued, DispatchFails,
              WorkerAnswers, Conclude, workVars
<1>6. ASSUME NEW a \in Callers, TakeRuntime(a) \/ CloseRuntime(a) PROVE wrote' = wrote
  BY <1>6 DEF TakeRuntime, CloseRuntime
<1>7. ASSUME NEW k \in Cancels, EndCancel(k) \/ (\E t \in Submits : BeginCancel(k, t))
      PROVE  wrote' = wrote
  BY <1>7 DEF EndCancel, BeginCancel, workVars
<1>8. CASE Sweep \/ Crash \/ Start \/ UNCHANGED vars
  BY <1>8 DEF Sweep, Crash, Die, Start, vars, workVars
<1> QED
  BY <1>2, <1>3, <1>4, <1>5, <1>6, <1>7, <1>8 DEF Next, Execute, Finish

(* A done channel is closed only when the task is over.                   *)
LEMMA ClosedOverStep ==
  ASSUME IInv, NoFailedWrite, ClosedOver, [Next]_vars
  PROVE  ClosedOver'
<1>1. /\ TypeOK /\ Located /\ Inserted /\ Written /\ Onward
  BY RowsOnward DEF IInv
<1>2. CASE closed' = closed
  BY <1>1, <1>2 DEF ClosedOver, Onward, TypeOK
<1>3. ASSUME NEW a \in Callers, CloseRuntime(a) PROVE ClosedOver'
  <2>1. closed' = closed \cup {target[a]} /\ row' = row /\ work[a] = "closing"
    BY <1>3 DEF CloseRuntime
  <2>2. wrote[a] \in {"applied", "refused"}
    BY <1>1, <2>1 DEF TypeOK, NoFailedWrite, Written
  <2>3. target[a] \in Submits /\ row[target[a]] \notin Active
    BY <1>1, <2>1, <2>2 DEF Located, Written, Callers, Active
  <2>4. row[target[a]] # "absent"
    BY <1>1, <2>1 DEF Located, Inserted, Written, Callers
  <2>5. Over(target[a])
    BY <1>1, <2>3, <2>4 DEF TypeOK, Over
  <2> QED
    BY <2>1, <2>5 DEF ClosedOver, Over
<1>4. ASSUME NEW s \in Submits, Begin(s) \/ Submit(s) \/ ClientLeaves(s) PROVE closed' = closed
  BY <1>4 DEF Begin, Submit, ClientLeaves, Lookup, LookRuntime, Create, Relook, Register, Launch,
              Snapshot, Wake, FinalSnapshot, Leave, recordVars
<1>5. ASSUME NEW t \in Submits, Execute(t) \/ Panic(t) PROVE closed' = closed
  BY <1>5 DEF Execute, MarkDispatched, MarkRunning, LookCancel, Abort, ContextEnds, Expire,
              Panic, Die, Conclude, recordVars
<1>6. ASSUME NEW t \in Submits, Enqueued(t) \/ DispatchFails(t) \/ WorkerAnswers(t)
      PROVE  closed' = closed
  BY <1>6 DEF Enqueued, DispatchFails, WorkerAnswers, Conclude, recordVars
<1>7. ASSUME NEW a \in Callers, FinishWrite(a) \/ TakeRuntime(a) PROVE closed' = closed
  BY <1>7 DEF FinishWrite, TakeRuntime, recordVars
<1>8. ASSUME NEW k \in Cancels, EndCancel(k) \/ (\E t \in Submits : BeginCancel(k, t))
      PROVE  closed' = closed
  BY <1>8 DEF EndCancel, BeginCancel, recordVars
<1>9. CASE Sweep \/ Crash \/ Start \/ UNCHANGED vars
  BY <1>2, <1>9 DEF Sweep, Crash, Die, Start, vars, recordVars
<1> QED
  BY <1>2, <1>3, <1>4, <1>5, <1>6, <1>7, <1>8, <1>9 DEF Next, Finish

(* A task that is active has its record, from setTaskRuntime on.           *)
LEMMA ActiveRecordedStep ==
  ASSUME IInv, NoFailedWrite, ActiveRecorded, [Next]_vars
  PROVE  ActiveRecorded'
<1> USE DEF ActiveRecorded
<1>1. /\ TypeOK /\ Located /\ Inserted /\ Written
  BY DEF IInv
<1> DEFINE Stay == /\ up' = up
                   /\ \A t \in Submits : row'[t] \in Active => row[t] \in Active
                   /\ runtime \subseteq runtime'
                   /\ \A t \in Submits : call[t] = "created" => call'[t] = "created"
<1>2. CASE Stay
  BY <1>2
<1>3. ASSUME NEW s \in Submits, Begin(s) PROVE Stay
  <2>1. PICK expired \in SUBSET Settled : Prune(expired)
    BY <1>3 DEF Begin
  <2>2. \A t \in Submits : row'[t] \in Active => row[t] \in Active
    BY <2>1, PruneEffect DEF Active, Terminal
  <2> QED
    BY <1>1, <1>3, <2>2
    DEF TypeOK, Begin, Goto, Answer, recordVars, processVars, Callers
<1>4. ASSUME NEW s \in Submits,
             \/ Lookup(s) \/ LookRuntime(s) \/ Relook(s) \/ Launch(s) \/ Snapshot(s) \/ Wake(s)
             \/ FinalSnapshot(s) \/ Leave(s) \/ ClientLeaves(s)
      PROVE  Stay
  BY <1>1, <1>4 DEF TypeOK, Lookup, LookRuntime, Relook, Launch, Snapshot, Wake, FinalSnapshot,
                    Leave, ClientLeaves, Goto, Answer, recordVars, processVars, Callers
<1>5. ASSUME NEW s \in Submits, Create(s) PROVE ActiveRecorded'
  <2>1. up' = up /\ runtime' = runtime
    BY <1>5 DEF Create, processVars, recordVars
  <2>2. /\ \A t \in Submits : t # s => row'[t] = row[t] /\ call'[t] = call[t]
        /\ row'[s] = row[s] \/ call'[s] = "created"
        /\ row[s] = "absent"
    BY <1>1, <1>5 DEF TypeOK, Create, Goto, Answer, Inserted, Early, Callers
  <2> QED
    BY <2>1, <2>2 DEF Active
<1>6. ASSUME NEW s \in Submits, Register(s) PROVE ActiveRecorded'
  BY <1>1, <1>6 DEF TypeOK, Register, Goto, processVars, Callers
<1>7. ASSUME NEW t \in Submits, Execute(t) \/ Enqueued(t) \/ DispatchFails(t) \/ WorkerAnswers(t)
      PROVE  Stay
  BY <1>1, <1>7 DEF TypeOK, Execute, Enqueued, DispatchFails, WorkerAnswers, MarkDispatched,
    MarkRunning, Update, UpdateFails, LookCancel, Abort, ContextEnds, Expire, Conclude,
    processVars, recordVars, callVars
<1>8. ASSUME NEW t \in Submits, Panic(t) PROVE ActiveRecorded'
  BY <1>8 DEF Panic, Die
<1>9. ASSUME NEW a \in Callers, FinishWrite(a) \/ CloseRuntime(a) PROVE Stay
  BY <1>1, <1>9 DEF TypeOK, FinishWrite, CloseRuntime, Update, UpdateFails, processVars,
                    recordVars, callVars, Active
<1>10. ASSUME NEW a \in Callers, TakeRuntime(a) PROVE ActiveRecorded'
  <2>1. /\ up' = up /\ row' = row /\ call' = call /\ runtime' = runtime \ {target[a]}
        /\ work[a] = "taking"
    BY <1>10 DEF TakeRuntime, processVars, callVars
  <2>2. wrote[a] \in {"applied", "refused"}
    BY <1>1, <2>1 DEF TypeOK, NoFailedWrite, Written
  <2>3. row[target[a]] \notin Active
    BY <1>1, <2>1, <2>2 DEF Located, Written, Callers, Active
  <2> QED
    BY <2>1, <2>3
<1>11. ASSUME NEW k \in Cancels, EndCancel(k) \/ (\E t \in Submits : BeginCancel(k, t))
       PROVE  Stay
  BY <1>1, <1>11, CallersAssumption DEF TypeOK, EndCancel, BeginCancel, Goto, Answer,
                    processVars, recordVars, Callers
<1>12. CASE Sweep
  BY <1>12, PruneEffect DEF Sweep, processVars, recordVars, callVars, Active, Terminal
<1>13. CASE Crash
  BY <1>13 DEF Crash, Die
<1>14. CASE Start
  BY <1>1, <1>14 DEF TypeOK, Start, Active
<1>15. CASE UNCHANGED vars
  BY <1>15 DEF vars, processVars, recordVars, callVars
<1> QED
  BY <1>2, <1>3, <1>4, <1>5, <1>6, <1>7, <1>8, <1>9, <1>10, <1>11, <1>12, <1>13, <1>14, <1>15
  DEF Next, Submit, Finish

(* What a call that does not move knows stays true.                        *)
LEMMA HeadingStays ==
  ASSUME Located, Onward, NEW s \in Submits, HeadingOf(s),
         call'[s] = call[s], target'[s] = target[s], waits'[s] = waits[s]
  PROVE  HeadingOf(s)'
<1>1. target[s] \in Submits
  BY DEF Located
<1> QED
  BY <1>1 DEF Onward, HeadingOf, Over

(* The calls on their way to an answer.                                    *)
LEMMA HeadingStep ==
  ASSUME IInv, ClosedOver, ActiveRecorded, Heading, [Next]_vars, faults' = 0
  PROVE  Heading'
<1>1. /\ TypeOK /\ Located /\ Inserted /\ Keyed /\ Onward
      /\ \A s \in Submits : HeadingOf(s) /\ target[s] \in Submits
  BY RowsOnward DEF IInv, Heading, HeadingOf, Located
<1>2. ~Fault
  BY <1>1, FaultCounts
<1>3. SUFFICES ASSUME NEW s \in Submits PROVE HeadingOf(s)'
  BY DEF Heading, HeadingOf
<1>4. CASE call'[s] = call[s] /\ target'[s] = target[s] /\ waits'[s] = waits[s]
  BY <1>1, <1>4, HeadingStays
<1>5. CASE call'[s] \notin {"found", "registered", "snapshot", "waiting", "final"}
  BY <1>5 DEF HeadingOf
<1>6. CASE Lookup(s) \/ Relook(s)
  <2>1. CASE call'[s] = "found"
    <3>1. row[target'[s]] # "absent" /\ row' = row
      BY <1>1, <1>6, <2>1 DEF TypeOK, Lookup, Relook, Goto, Answer, Twins, Present, Active, Terminal, Callers
    <3> QED
      BY <2>1, <3>1 DEF HeadingOf
  <2> QED
    BY <1>1, <1>5, <1>6, <2>1 DEF TypeOK, Lookup, Relook, Goto, Answer, Callers
<1>7. CASE LookRuntime(s)
  <2>1. /\ row' = row /\ target' = target /\ up' = up /\ call[s] = "found"
        /\ call'[s] = "snapshot" /\ waits'[s] = (target[s] \in runtime)
    BY <1>1, <1>7 DEF TypeOK, LookRuntime, Goto, Callers, processVars
  <2>2. up
    BY <1>1, <2>1 DEF Located, Callers
  <2>3. call[target[s]] # "created"
    BY <1>1, <2>1 DEF Keyed, Creating
  <2>4. row[target[s]] # "absent"
    BY <1>1, <2>1 DEF HeadingOf
  <2>5. ~waits'[s] => Over(target[s])
    BY <1>1, <2>1, <2>2, <2>3, <2>4 DEF TypeOK, ActiveRecorded, Over
  <2> QED
    BY <2>1, <2>4, <2>5 DEF HeadingOf, Over
<1>8. CASE Register(s)
  BY <1>1, <1>8 DEF TypeOK, Register, Goto, HeadingOf, Callers
<1>9. CASE Launch(s)
  <2>1. /\ row' = row /\ target' = target /\ waits' = waits
        /\ call[s] = "registered" /\ call'[s] = "snapshot"
    BY <1>1, <1>9 DEF TypeOK, Launch, Goto, Callers
  <2>2. waits[s] /\ target[s] = s /\ row[s] # "absent"
    BY <1>1, <2>1 DEF HeadingOf, Located, Inserted, Creating
  <2> QED
    BY <2>1, <2>2 DEF HeadingOf
<1>10. CASE Snapshot(s)
  <2>1. row' = row /\ target' = target /\ waits' = waits /\ call[s] = "snapshot"
    BY <1>10 DEF Snapshot
  <2>2. call'[s] \in {"waiting", "final", "leaving", "returned"}
    BY <1>1, <1>10 DEF TypeOK, Snapshot, Goto, Answer, Callers
  <2>3. call'[s] = "final" => ~waits[s]
    BY <1>1, <1>10 DEF TypeOK, Snapshot, Goto, Answer, Callers
  <2> QED
    BY <1>1, <2>1, <2>2, <2>3 DEF HeadingOf, Over
<1>11. CASE Wake(s)
  <2>1. /\ row' = row /\ target' = target /\ waits' = waits
        /\ call[s] = "waiting" /\ call'[s] = "final"
        /\ target[s] \in closed \/ ModeOf[s] # "sync"
    BY <1>1, <1>11 DEF TypeOK, Wake, Goto, Callers
  <2> QED
    BY <1>1, <2>1 DEF HeadingOf, ClosedOver, Over
<1>12. CASE Begin(s) \/ Create(s) \/ FinalSnapshot(s) \/ Leave(s) \/ ClientLeaves(s)
  BY <1>1, <1>5, <1>12 DEF TypeOK, Begin, Create, FinalSnapshot, Leave, ClientLeaves, Goto,
                           Answer, Callers
<1>13. ASSUME NEW u \in Submits, u # s, Begin(u) \/ Submit(u) \/ ClientLeaves(u)
       PROVE  call'[s] = call[s] /\ target'[s] = target[s] /\ waits'[s] = waits[s]
  BY <1>1, <1>13 DEF TypeOK, Begin, Submit, ClientLeaves, Lookup, LookRuntime, Create, Relook,
    Register, Launch, Snapshot, Wake, FinalSnapshot, Leave, Goto, Answer, Callers
<1>14. ASSUME NEW t \in Submits, Execute(t) \/ Enqueued(t) \/ DispatchFails(t) \/ WorkerAnswers(t)
       PROVE  UNCHANGED callVars
  BY <1>14 DEF Execute, Enqueued, DispatchFails, WorkerAnswers, MarkDispatched, MarkRunning,
               LookCancel, Abort, ContextEnds, Expire, Conclude
<1>15. ASSUME NEW a \in Callers, Finish(a) PROVE UNCHANGED callVars
  BY <1>15 DEF Finish, FinishWrite, TakeRuntime, CloseRuntime
<1>16. ASSUME NEW k \in Cancels, EndCancel(k) \/ (\E t \in Submits : BeginCancel(k, t))
       PROVE  call'[s] = call[s] /\ target'[s] = target[s] /\ waits'[s] = waits[s]
  BY <1>1, <1>16, CallersAssumption DEF TypeOK, EndCancel, BeginCancel, Goto, Answer, Callers
<1>17. ASSUME Die PROVE HeadingOf(s)'
  <2>1. call'[s] \in {"idle", "returned"}
    BY <1>17 DEF Die, InCall, Callers
  <2> QED
    BY <1>5, <2>1
<1>18. CASE Sweep \/ Start \/ UNCHANGED vars
  BY <1>4, <1>18 DEF Sweep, Start, vars, callVars
<1> QED
  BY <1>4, <1>6, <1>7, <1>8, <1>9, <1>10, <1>11, <1>12, <1>13, <1>14, <1>15, <1>16, <1>17, <1>18
  DEF Next, Submit, Crash, Panic, callVars

(* The answers themselves.                                                 *)
LEMMA SyncCompletesStep ==
  ASSUME IInv, Heading, SyncCompletes, [Next]_vars, faults' = 0
  PROVE  SyncCompletes'
<1>1. TypeOK /\ Located
  BY DEF IInv
<1>2. SUFFICES ASSUME NEW s \in Submits, ModeOf[s] = "sync" PROVE reply'[s] \notin Active
  BY DEF SyncCompletes
<1>3. CASE reply'[s] = reply[s]
  BY <1>2, <1>3 DEF SyncCompletes
<1>4. CASE reply'[s] \in Refusals
  BY <1>4 DEF Refusals, Active
<1>5. CASE Begin(s) \/ Create(s) \/ Relook(s) \/ ClientLeaves(s)
  BY <1>1, <1>3, <1>4, <1>5 DEF TypeOK, Begin, Create, Relook, ClientLeaves, Answer, Refusals, Callers
<1>6. CASE Snapshot(s)
  BY <1>1, <1>2, <1>3, <1>4, <1>6 DEF TypeOK, Snapshot, Answer, Refusals, Callers, Active, Terminal
<1>7. CASE FinalSnapshot(s)
  <2>1. Over(target[s])
    BY <1>2, <1>7 DEF FinalSnapshot, Heading, HeadingOf
  <2>2. row[target[s]] \notin Active
    BY <2>1 DEF Over, Active, Terminal
  <2> QED
    BY <1>1, <1>4, <1>7, <2>2 DEF TypeOK, FinalSnapshot, Answer, Refusals, Callers
<1>8. CASE Lookup(s) \/ LookRuntime(s) \/ Register(s) \/ Launch(s) \/ Wake(s) \/ Leave(s)
  BY <1>3, <1>8 DEF Lookup, LookRuntime, Register, Launch, Wake, Leave
<1>9. ASSUME NEW u \in Submits, u # s, Begin(u) \/ Submit(u) \/ ClientLeaves(u)
      PROVE  reply'[s] = reply[s]
  BY <1>1, <1>9 DEF TypeOK, Begin, Submit, ClientLeaves, Lookup, LookRuntime, Create, Relook,
    Register, Launch, Snapshot, Wake, FinalSnapshot, Leave, Answer, Callers
<1>10. ASSUME NEW t \in Submits, Execute(t) \/ Enqueued(t) \/ DispatchFails(t) \/ WorkerAnswers(t)
       PROVE  reply' = reply
  BY <1>10 DEF Execute, Enqueued, DispatchFails, WorkerAnswers, MarkDispatched, MarkRunning,
               LookCancel, Abort, ContextEnds, Expire, Conclude, callVars
<1>11. ASSUME NEW a \in Callers, Finish(a) PROVE reply' = reply
  BY <1>11 DEF Finish, FinishWrite, TakeRuntime, CloseRuntime, callVars
<1>12. ASSUME NEW k \in Cancels, EndCancel(k) \/ (\E t \in Submits : BeginCancel(k, t))
       PROVE  reply'[s] = reply[s]
  BY <1>1, <1>12, CallersAssumption DEF TypeOK, EndCancel, BeginCancel, Answer, Callers
<1>13. ASSUME Die PROVE reply'[s] \in {reply[s], "dropped"}
  BY <1>1, <1>13 DEF Die, Callers
<1>14. CASE Sweep \/ Start \/ UNCHANGED vars
  BY <1>3, <1>14 DEF Sweep, Start, vars, callVars
<1> QED
  BY <1>3, <1>4, <1>5, <1>6, <1>7, <1>8, <1>9, <1>10, <1>11, <1>12, <1>13, <1>14
  DEF Next, Submit, Crash, Panic, Refusals

(* Together they are inductive, given what is known of every state.        *)
LEMMA SmoothStep == IInv /\ Smooth /\ [Next]_vars => Smooth'
<1> SUFFICES ASSUME IInv, Smooth, [Next]_vars, faults' = 0 PROVE Smooth'
  BY DEF Smooth
<1>1. faults = 0
  BY FaultsGrow DEF IInv
<1> QED
  BY <1>1, NoFailedWriteStep, ClosedOverStep, ActiveRecordedStep, HeadingStep, SyncCompletesStep
  DEF Smooth, IInv

(* A sync call is answered with a finished task, whatever races it, as     *)
(* long as every statement succeeds.                                       *)
THEOREM SyncCompletesHolds == Spec => []SyncCompletesUnlessFault
<1>1. Init => Smooth
  BY ModeAssumption DEF Init, Smooth, NoFailedWrite, ClosedOver, ActiveRecorded, Heading, HeadingOf,
     SyncCompletes, Callers, Active
<1>2. IInv /\ Smooth => SyncCompletesUnlessFault
  BY DEF Smooth, SyncCompletesUnlessFault
<1> QED
  BY <1>1, <1>2, SmoothStep, Invariance, PTL DEF Spec
=============================================================================

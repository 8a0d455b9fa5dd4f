------------------------ MODULE TerminalManagerProofs ------------------------
(***************************************************************************)
(* Machine-checked proofs about TerminalManager, for every set of commands *)
(* and sessions and whatever containers somebody else removes.             *)
(*                                                                         *)
(* HeldSessions and PythonTruthful are inductive beside types and how far  *)
(* each call is (Staged).  NothingLeaks needs them, and the order of the   *)
(* shutdown (Ordered): docker start succeeds only before it, while the     *)
(* session of the container is still in the table.                         *)
(***************************************************************************)
EXTENDS TerminalManager, TLAPS

(* How far a call can be, which container it works on, and whose name a    *)
(* container bears: nothing has been created under the name of a call that *)
(* has not come to docker create, and a call that drops its session has    *)
(* removed its container, or lost it.                                      *)
Staged ==
  \A c \in Calls :
    /\ pc[c] \in {"idle", "create"} => box[c] = "none"
    /\ KindOf[c] = "python" => pc[c] \notin {"undo", "drop", "exec", "mark", "destroy", "remove"}
    /\ KindOf[c] # "python" => pc[c] \notin {"inspect", "cleanup"}
    /\ pc[c] \in {"create", "start", "undo", "drop"} => mine[c] = c
    /\ InCall(c) /\ KindOf[c] = "python" => mine[c] = c
    /\ InCall(c) => mine[c] \in Calls
    /\ pc[c] = "drop" => ~Exists(c) \/ c \in lost

(* The order of the shutdown: every context ends before it, the janitor    *)
(* before the table is emptied, and nobody is doomed before that but by a  *)
(* sweep in progress.                                                      *)
Ordered ==
  /\ phase # "open" => \A c \in Calls : InCall(c) => ctx[c] = "ended"
  /\ janitor # "removing" /\ phase \in {"open", "stopping"} => doomed = {}
  /\ phase \notin {"open", "stopping"} => janitor = "stopped"

IInv == TypeOK /\ Staged /\ Ordered /\ HeldSessions /\ NothingLeaks /\ PythonTruthful

-----------------------------------------------------------------------------
(* An entry of the table is a record, also after it was changed.           *)
LEMMA EntryType ==
  ASSUME TypeOK, NEW id \in Ids, table[id] # NoSession
  PROVE  table[id] \in Entry /\ table[id].box \in Calls
BY DEF TypeOK, Entry

LEMMA EntryChanges ==
  ASSUME NEW e \in Entry, NEW busy \in BOOLEAN, NEW leased \in BOOLEAN
  PROVE  /\ [e EXCEPT !.busy = busy] \in Entry
         /\ [e EXCEPT !.leased = leased] \in Entry
         /\ [e EXCEPT !.busy = busy, !.leased = leased] \in Entry
BY DEF Entry

(* A command that takes a known session.                                   *)
LEMMA OpenKnownTable ==
  ASSUME TypeOK, NEW c \in Calls, OpenKnown(c)
  PROVE  /\ IdOf[c] \in Ids /\ table[IdOf[c]] \in Entry /\ ~table[IdOf[c]].busy
         /\ table' \in [Ids -> Entry \cup {NoSession}]
         /\ \A i \in Ids : i # IdOf[c] => table'[i] = table[i]
         /\ table'[IdOf[c]] \in Entry /\ table'[IdOf[c]] # NoSession
         /\ table'[IdOf[c]].busy /\ table'[IdOf[c]].box = table[IdOf[c]].box
<1>1. IdOf[c] \in Ids /\ table[IdOf[c]] \in Entry /\ ~table[IdOf[c]].busy
  BY KindAssumption, EntryType DEF OpenKnown
<1> DEFINE e == [table[IdOf[c]] EXCEPT !.busy = TRUE,
                   !.leased = table[IdOf[c]].leased \/ KindOf[c] # "read"]
<1>2. table' = [table EXCEPT ![IdOf[c]] = e]
  BY <1>1 DEF OpenKnown, TypeOK, Entry
<1>3. (table[IdOf[c]].leased \/ KindOf[c] # "read") \in BOOLEAN
  OBVIOUS
<1>4. e \in Entry
  BY <1>1, <1>3, EntryChanges
<1>5. e.busy /\ e.box = table[IdOf[c]].box
  BY <1>1 DEF Entry
<1>6. e # NoSession
  BY <1>4, NoSessionAssumption DEF Entry
<1> HIDE DEF e
<1>7. table'[IdOf[c]] = e
  BY <1>1, <1>2 DEF TypeOK
<1>8. \A i \in Ids : i # IdOf[c] => table'[i] = table[i]
  BY <1>2 DEF TypeOK
<1>9. table' \in [Ids -> Entry \cup {NoSession}]
  BY <1>2, <1>4 DEF TypeOK
<1> QED
  BY <1>1, <1>4, <1>5, <1>6, <1>7, <1>8, <1>9

(* Taking sessions out of the table.                                       *)
LEMMA TakeType ==
  ASSUME TypeOK, NEW ids \in SUBSET Known, Take(ids)
  PROVE  table' \in [Ids -> Entry \cup {NoSession}] /\ doomed' \in SUBSET Calls
BY EntryType DEF TypeOK, Take, Known

(* Types.                                                                  *)
LEMMA TypeStep == TypeOK /\ Staged /\ [Next]_vars => TypeOK'
<1> SUFFICES ASSUME TypeOK, Staged, [Next]_vars PROVE TypeOK'
  OBVIOUS
<1> USE CallsAssumption, KindAssumption DEF TypeOK, vars, dockerVars, callVars, processVars, Steps, Answers, Entry
<1>1. ASSUME NEW c \in Calls, OpenNew(c) PROVE TypeOK'
  BY <1>1 DEF OpenNew, Arrive, Goto
<1>2. ASSUME NEW c \in Calls, OpenKnown(c) PROVE TypeOK'
  <2>1. table[IdOf[c]].box \in Calls /\ table' \in [Ids -> Entry \cup {NoSession}]
    BY <1>2, OpenKnownTable
  <2> QED
    BY <1>2, <2>1 DEF OpenKnown, Arrive, Goto
<1>3. ASSUME NEW c \in Calls, OpenFails(c) PROVE TypeOK'
  BY <1>3 DEF OpenFails, Goto
<1>4. ASSUME NEW c \in Calls, OpenPython(c) PROVE TypeOK'
  BY <1>4 DEF OpenPython, Arrive, Goto
<1>5. ASSUME NEW c \in Calls, Create(c) PROVE TypeOK'
  BY <1>5 DEF Create, Goto
<1>6. ASSUME NEW c \in Calls, CreateFails(c) PROVE TypeOK'
  BY <1>6 DEF CreateFails, Return, Goto, Answer
<1>7. ASSUME NEW c \in Calls, Start(c) PROVE TypeOK'
  BY <1>7 DEF Start, Goto
<1>8. ASSUME NEW c \in Calls, StartFails(c) PROVE TypeOK'
  BY <1>8 DEF StartFails, Goto, Answer
<1>9. ASSUME NEW c \in Calls, PythonStartFails(c) PROVE TypeOK'
  BY <1>9 DEF PythonStartFails, Goto, Answer
<1>10. ASSUME NEW c \in Calls, Undo(c) PROVE TypeOK'
  BY <1>10 DEF Undo, ForceRemove, Goto
<1>11. ASSUME NEW c \in Calls, Drop(c) PROVE TypeOK'
  BY <1>11 DEF Drop, Return, Goto
<1>12. ASSUME NEW c \in Calls, Exec(c) PROVE TypeOK'
  BY <1>12 DEF Exec, Goto
<1>13. ASSUME NEW c \in Calls, ExecFails(c) PROVE TypeOK'
  BY <1>13 DEF ExecFails, Goto, Answer
<1>14. ASSUME NEW c \in Calls, Finish(c) PROVE TypeOK'
  BY <1>14 DEF Finish, Goto, Answer
<1>15. ASSUME NEW c \in Calls, Killed(c) PROVE TypeOK'
  BY <1>15 DEF Killed, Goto, Answer
<1>16. ASSUME NEW c \in Calls, Mark(c) PROVE TypeOK'
  <2>1. CASE table[IdOf[c]] = NoSession
    BY <1>16, <2>1 DEF Mark, Return, Goto
  <2>2. CASE table[IdOf[c]] # NoSession
    <3>1. IdOf[c] \in Ids /\ table[IdOf[c]] \in Entry
      BY <2>2, EntryType
    <3>2. [table[IdOf[c]] EXCEPT !.busy = FALSE] \in Entry
      BY <3>1, EntryChanges
    <3> QED
      BY <1>16, <2>2, <3>1, <3>2 DEF Mark, Return, Goto
  <2> QED
    BY <2>1, <2>2
<1>17. ASSUME NEW c \in Calls, Destroy(c) PROVE TypeOK'
  BY <1>17 DEF Destroy, Return, Goto
<1>18. ASSUME NEW c \in Calls, Remove(c) PROVE TypeOK'
  <2>1. mine[c] \in Calls
    BY <1>18 DEF Remove, Staged, InCall
  <2> QED
    BY <1>18, <2>1 DEF Remove, ForceRemove, Return, Goto
<1>19. ASSUME NEW c \in Calls, Inspect(c) PROVE TypeOK'
  BY <1>19 DEF Inspect, Goto, Answer
<1>20. ASSUME NEW c \in Calls, Cleanup(c) PROVE TypeOK'
  BY <1>20 DEF Cleanup, ForceRemove, Return, Goto
<1>21. ASSUME NEW c \in Calls, EndContext(c) PROVE TypeOK'
  BY <1>21 DEF EndContext
<1>22. ASSUME NEW b \in Calls, NEW c \in Calls, JobEnds(b, c) PROVE TypeOK'
  BY <1>22 DEF JobEnds
<1>23. ASSUME NEW b \in Calls, Vanish(b) PROVE TypeOK'
  BY <1>23 DEF Vanish
<1>24. ASSUME NEW id \in Ids, LeaseEnds(id) PROVE TypeOK'
  <2>1. table[id] # NoSession /\ [table[id] EXCEPT !.leased = FALSE] \in Entry
    BY <1>24, EntryType, EntryChanges DEF LeaseEnds
  <2>2. table' = [table EXCEPT ![id] = [table[id] EXCEPT !.leased = FALSE]]
    BY <1>24 DEF LeaseEnds
  <2> QED
    BY <1>24, <2>1, <2>2 DEF LeaseEnds
<1>25. CASE Sweep
  <2>1. Take({id \in Known : ~table[id].busy /\ ~table[id].leased})
    BY <1>25 DEF Sweep, SweepOf
  <2>2. table' \in [Ids -> Entry \cup {NoSession}] /\ doomed' \in SUBSET Calls
    BY <2>1, TakeType
  <2> QED
    BY <1>25, <2>2 DEF Sweep, SweepOf, Take
<1>26. CASE SweepRemove
  BY <1>26 DEF SweepRemove, ForceRemove
<1>27. CASE Close
  BY <1>27 DEF Close
<1>28. CASE JanitorStops
  BY <1>28 DEF JanitorStops
<1>29. CASE CloseTake
  <2>1. table' \in [Ids -> Entry \cup {NoSession}] /\ doomed' \in SUBSET Calls
    BY <1>29, TakeType DEF CloseTake, CloseTakeOf
  <2> QED
    BY <1>29, <2>1 DEF CloseTake, CloseTakeOf, Take
<1>30. CASE CloseRemove
  BY <1>30 DEF CloseRemove, ForceRemove
<1>31. CASE Exit
  BY <1>31 DEF Exit
<1>32. CASE UNCHANGED vars
  BY <1>32
<1> QED
  BY <1>1, <1>2, <1>3, <1>4, <1>5, <1>6, <1>7, <1>8, <1>9, <1>10, <1>11, <1>12, <1>13, <1>14,
     <1>15, <1>16, <1>17, <1>18, <1>19, <1>20, <1>21, <1>22, <1>23, <1>24, <1>25, <1>26, <1>27, <1>28,
     <1>29, <1>30, <1>31, <1>32
  DEF Next, Begin, Work

(* How far each call is.                                                   *)
LEMMA StagedStep == TypeOK /\ Staged /\ Ordered /\ [Next]_vars => Staged'
<1> SUFFICES ASSUME TypeOK, Staged, Ordered, [Next]_vars PROVE Staged'
  OBVIOUS
<1> USE CallsAssumption, KindAssumption DEF TypeOK, vars, dockerVars, callVars, processVars, Entry, Staged, Ordered, InCall, Exists, Kinds
<1>1. ASSUME NEW c \in Calls, OpenNew(c) PROVE Staged'
  BY <1>1 DEF OpenNew, Arrive, Goto
<1>2. ASSUME NEW c \in Calls, OpenKnown(c) PROVE Staged'
  BY <1>2 DEF OpenKnown, Arrive, Goto
<1>3. ASSUME NEW c \in Calls, OpenFails(c) PROVE Staged'
  BY <1>3 DEF OpenFails, Goto
<1>4. ASSUME NEW c \in Calls, OpenPython(c) PROVE Staged'
  BY <1>4 DEF OpenPython, Arrive, Goto
<1>5. ASSUME NEW c \in Calls, Create(c) PROVE Staged'
  BY <1>5 DEF Create, Goto
<1>6. ASSUME NEW c \in Calls, CreateFails(c) PROVE Staged'
  BY <1>6 DEF CreateFails, Return, Goto, Answer
<1>7. ASSUME NEW c \in Calls, Start(c) PROVE Staged'
  BY <1>7 DEF Start, Goto
<1>8. ASSUME NEW c \in Calls, StartFails(c) PROVE Staged'
  BY <1>8 DEF StartFails, Goto, Answer
<1>9. ASSUME NEW c \in Calls, PythonStartFails(c) PROVE Staged'
  BY <1>9 DEF PythonStartFails, Goto, Answer
<1>10. ASSUME NEW c \in Calls, Undo(c) PROVE Staged'
  BY <1>10 DEF Undo, ForceRemove, Goto
<1>11. ASSUME NEW c \in Calls, Drop(c) PROVE Staged'
  BY <1>11 DEF Drop, Return, Goto
<1>12. ASSUME NEW c \in Calls, Exec(c) PROVE Staged'
  BY <1>12 DEF Exec, Goto
<1>13. ASSUME NEW c \in Calls, ExecFails(c) PROVE Staged'
  BY <1>13 DEF ExecFails, Goto, Answer
<1>14. ASSUME NEW c \in Calls, Finish(c) PROVE Staged'
  BY <1>14 DEF Finish, Goto, Answer
<1>15. ASSUME NEW c \in Calls, Killed(c) PROVE Staged'
  BY <1>15 DEF Killed, Goto, Answer
<1>16. ASSUME NEW c \in Calls, Mark(c) PROVE Staged'
  BY <1>16 DEF Mark, Return, Goto
<1>17. ASSUME NEW c \in Calls, Destroy(c) PROVE Staged'
  BY <1>17 DEF Destroy, Return, Goto
<1>18. ASSUME NEW c \in Calls, Remove(c) PROVE Staged'
  BY <1>18 DEF Remove, ForceRemove, Return, Goto
<1>19. ASSUME NEW c \in Calls, Inspect(c) PROVE Staged'
  BY <1>19 DEF Inspect, Goto, Answer
<1>20. ASSUME NEW c \in Calls, Cleanup(c) PROVE Staged'
  BY <1>20 DEF Cleanup, ForceRemove, Return, Goto
<1>21. ASSUME NEW c \in Calls, EndContext(c) PROVE Staged'
  BY <1>21 DEF EndContext
<1>22. ASSUME NEW b \in Calls, NEW c \in Calls, JobEnds(b, c) PROVE Staged'
  BY <1>22 DEF JobEnds
<1>23. ASSUME NEW b \in Calls, Vanish(b) PROVE Staged'
  BY <1>23 DEF Vanish
<1>24. ASSUME NEW id \in Ids, LeaseEnds(id) PROVE Staged'
  BY <1>24 DEF LeaseEnds
<1>25. CASE Sweep
  BY <1>25 DEF Sweep, SweepOf, Take
<1>26. CASE SweepRemove
  BY <1>26 DEF SweepRemove, ForceRemove
<1>27. CASE Close
  BY <1>27 DEF Close
<1>28. CASE JanitorStops
  BY <1>28 DEF JanitorStops
<1>29. CASE CloseTake
  BY <1>29 DEF CloseTake, CloseTakeOf, Take
<1>30. CASE CloseRemove
  BY <1>30 DEF CloseRemove, ForceRemove
<1>31. CASE Exit
  BY <1>31 DEF Exit
<1>32. CASE UNCHANGED vars
  BY <1>32
<1> QED
  BY <1>1, <1>2, <1>3, <1>4, <1>5, <1>6, <1>7, <1>8, <1>9, <1>10, <1>11, <1>12, <1>13, <1>14,
     <1>15, <1>16, <1>17, <1>18, <1>19, <1>20, <1>21, <1>22, <1>23, <1>24, <1>25, <1>26, <1>27, <1>28,
     <1>29, <1>30, <1>31, <1>32
  DEF Next, Begin, Work

(* The order of the shutdown.                                              *)
LEMMA OrderedStep == TypeOK /\ Ordered /\ [Next]_vars => Ordered'
<1> SUFFICES ASSUME TypeOK, Ordered, [Next]_vars PROVE Ordered'
  OBVIOUS
<1> USE DEF TypeOK, vars, dockerVars, callVars, processVars, Ordered, InCall
<1>1. ASSUME NEW c \in Calls, OpenNew(c) PROVE Ordered'
  BY <1>1 DEF OpenNew, Arrive, Goto
<1>2. ASSUME NEW c \in Calls, OpenKnown(c) PROVE Ordered'
  BY <1>2 DEF OpenKnown, Arrive, Goto
<1>3. ASSUME NEW c \in Calls, OpenFails(c) PROVE Ordered'
  BY <1>3 DEF OpenFails, Goto
<1>4. ASSUME NEW c \in Calls, OpenPython(c) PROVE Ordered'
  BY <1>4 DEF OpenPython, Arrive, Goto
<1>5. ASSUME NEW c \in Calls, Create(c) PROVE Ordered'
  BY <1>5 DEF Create, Goto
<1>6. ASSUME NEW c \in Calls, CreateFails(c) PROVE Ordered'
  BY <1>6 DEF CreateFails, Return, Goto, Answer
<1>7. ASSUME NEW c \in Calls, Start(c) PROVE Ordered'
  BY <1>7 DEF Start, Goto
<1>8. ASSUME NEW c \in Calls, StartFails(c) PROVE Ordered'
  BY <1>8 DEF StartFails, Goto, Answer
<1>9. ASSUME NEW c \in Calls, PythonStartFails(c) PROVE Ordered'
  BY <1>9 DEF PythonStartFails, Goto, Answer
<1>10. ASSUME NEW c \in Calls, Undo(c) PROVE Ordered'
  BY <1>10 DEF Undo, ForceRemove, Goto
<1>11. ASSUME NEW c \in Calls, Drop(c) PROVE Ordered'
  BY <1>11 DEF Drop, Return, Goto
<1>12. ASSUME NEW c \in Calls, Exec(c) PROVE Ordered'
  BY <1>12 DEF Exec, Goto
<1>13. ASSUME NEW c \in Calls, ExecFails(c) PROVE Ordered'
  BY <1>13 DEF ExecFails, Goto, Answer
<1>14. ASSUME NEW c \in Calls, Finish(c) PROVE Ordered'
  BY <1>14 DEF Finish, Goto, Answer
<1>15. ASSUME NEW c \in Calls, Killed(c) PROVE Ordered'
  BY <1>15 DEF Killed, Goto, Answer
<1>16. ASSUME NEW c \in Calls, Mark(c) PROVE Ordered'
  BY <1>16 DEF Mark, Return, Goto
<1>17. ASSUME NEW c \in Calls, Destroy(c) PROVE Ordered'
  BY <1>17 DEF Destroy, Return, Goto
<1>18. ASSUME NEW c \in Calls, Remove(c) PROVE Ordered'
  BY <1>18 DEF Remove, ForceRemove, Return, Goto
<1>19. ASSUME NEW c \in Calls, Inspect(c) PROVE Ordered'
  BY <1>19 DEF Inspect, Goto, Answer
<1>20. ASSUME NEW c \in Calls, Cleanup(c) PROVE Ordered'
  BY <1>20 DEF Cleanup, ForceRemove, Return, Goto
<1>21. ASSUME NEW c \in Calls, EndContext(c) PROVE Ordered'
  BY <1>21 DEF EndContext
<1>22. ASSUME NEW b \in Calls, NEW c \in Calls, JobEnds(b, c) PROVE Ordered'
  BY <1>22 DEF JobEnds
<1>23. ASSUME NEW b \in Calls, Vanish(b) PROVE Ordered'
  BY <1>23 DEF Vanish
<1>24. ASSUME NEW id \in Ids, LeaseEnds(id) PROVE Ordered'
  BY <1>24 DEF LeaseEnds
<1>25. CASE Sweep
  BY <1>25 DEF Sweep, SweepOf, Take
<1>26. CASE SweepRemove
  BY <1>26 DEF SweepRemove, ForceRemove
<1>27. CASE Close
  BY <1>27 DEF Close
<1>28. CASE JanitorStops
  BY <1>28 DEF JanitorStops
<1>29. CASE CloseTake
  BY <1>29 DEF CloseTake, CloseTakeOf, Take
<1>30. CASE CloseRemove
  BY <1>30 DEF CloseRemove, ForceRemove
<1>31. CASE Exit
  BY <1>31 DEF Exit
<1>32. CASE UNCHANGED vars
  BY <1>32
<1> QED
  BY <1>1, <1>2, <1>3, <1>4, <1>5, <1>6, <1>7, <1>8, <1>9, <1>10, <1>11, <1>12, <1>13, <1>14,
     <1>15, <1>16, <1>17, <1>18, <1>19, <1>20, <1>21, <1>22, <1>23, <1>24, <1>25, <1>26, <1>27, <1>28,
     <1>29, <1>30, <1>31, <1>32
  DEF Next, Begin, Work

(* A terminal call that has its session for itself.                        *)
Owner(c) == Holding(c) /\ KindOf[c] # "python"

(* Sessions that stay as their owners know them.                           *)
LEMMA HeldFrame ==
  ASSUME HeldSessions, phase' \in {"open", "stopping"} => phase \in {"open", "stopping"},
         \A c \in Calls : Owner(c)' => Owner(c) /\ mine'[c] = mine[c],
         phase \in {"open", "stopping"} =>
           \A c \in Calls : Owner(c)' =>
             /\ table'[IdOf[c]] # NoSession
             /\ table'[IdOf[c]].busy = table[IdOf[c]].busy
             /\ table'[IdOf[c]].box = table[IdOf[c]].box
  PROVE  HeldSessions'
BY DEF HeldSessions, Owner

(* Nobody owns a session that is not there, or that is not busy; and one   *)
(* call owns it at most.                                                   *)
LEMMA OwnersKnow ==
  ASSUME HeldSessions, phase \in {"open", "stopping"}, NEW c \in Calls, Owner(c)
  PROVE  /\ table[IdOf[c]] # NoSession /\ table[IdOf[c]].busy /\ table[IdOf[c]].box = mine[c]
         /\ \A d \in Calls : Owner(d) /\ d # c => IdOf[d] # IdOf[c]
BY DEF HeldSessions, Owner

(* The session of a call is the one it took.                               *)
LEMMA HeldStep == TypeOK /\ Staged /\ HeldSessions /\ [Next]_vars => HeldSessions'
<1> SUFFICES ASSUME TypeOK, Staged, HeldSessions, [Next]_vars PROVE HeldSessions'
  OBVIOUS
<1> USE CallsAssumption, KindAssumption
<1> DEFINE Calm == phase \in {"open", "stopping"}
           Same == /\ phase' = phase /\ table' = table
                   /\ \A c \in Calls : Owner(c)' => Owner(c) /\ mine'[c] = mine[c]
<1>0. Same => HeldSessions'
  <2> SUFFICES ASSUME Same PROVE HeldSessions'
    OBVIOUS
  <2>1. \A c \in Calls : Owner(c)' => Owner(c) /\ mine'[c] = mine[c]
    OBVIOUS
  <2>2. Calm => \A c \in Calls : Owner(c) => table[IdOf[c]] # NoSession
    BY OwnersKnow
  <2> HIDE DEF Calm
  <2> QED
    BY <2>1, <2>2, HeldFrame DEF Calm
<1>1. ASSUME NEW c \in Calls, OpenNew(c) PROVE HeldSessions'
  <2>1. /\ phase' = phase /\ table[IdOf[c]] = NoSession /\ KindOf[c] = "open" /\ IdOf[c] \in Ids
        /\ table' = [table EXCEPT ![IdOf[c]] = [box |-> c, busy |-> TRUE, leased |-> TRUE]]
        /\ \A d \in Calls : d # c => (Owner(d)' <=> Owner(d)) /\ mine'[d] = mine[d]
        /\ mine'[c] = c
    BY <1>1 DEF TypeOK, OpenNew, Arrive, Goto, Owner, Holding, processVars
  <2>2. ASSUME NEW d \in Calls, Calm, Owner(d) PROVE IdOf[d] # IdOf[c]
    BY <2>1, <2>2, OwnersKnow
  <2>3. table'[IdOf[c]] = [box |-> c, busy |-> TRUE, leased |-> TRUE]
    BY <2>1 DEF TypeOK
  <2>4. \A d \in Calls : IdOf[d] # IdOf[c] => table'[IdOf[d]] = table[IdOf[d]]
    BY <2>1 DEF TypeOK
  <2>5. table'[IdOf[c]] # NoSession
    <3>1. [box |-> c, busy |-> TRUE, leased |-> TRUE] \in [box : Calls, busy : BOOLEAN, leased : BOOLEAN]
      OBVIOUS
    <3> QED
      BY <2>3, <3>1, NoSessionAssumption
  <2>6. ASSUME Calm, NEW d \in Calls, Owner(d)'
        PROVE  /\ table'[IdOf[d]] # NoSession /\ table'[IdOf[d]].busy /\ table'[IdOf[d]].box = mine'[d]
               /\ \A e \in Calls \ {d} : Owner(e)' => IdOf[e] # IdOf[d]
    <3>1. CASE d = c
      BY <2>1, <2>2, <2>3, <2>5, <2>6, <3>1
    <3>2. CASE d # c
      <4>1. Owner(d) /\ IdOf[d] # IdOf[c]
        BY <2>1, <2>2, <2>6, <3>2
      <4> QED
        BY <2>1, <2>4, <2>6, <3>2, <4>1, OwnersKnow
    <3> QED
      BY <3>1, <3>2
  <2> QED
    BY <2>1, <2>6 DEF HeldSessions, Owner
<1>2. ASSUME NEW c \in Calls, OpenKnown(c) PROVE HeldSessions'
  <2>1. /\ phase' = phase /\ table[IdOf[c]] # NoSession /\ IdOf[c] \in Ids
        /\ ~table[IdOf[c]].busy
        /\ \A d \in Calls : d # c => (Owner(d)' <=> Owner(d)) /\ mine'[d] = mine[d]
        /\ mine'[c] = table[IdOf[c]].box
    BY <1>2 DEF TypeOK, OpenKnown, Arrive, Goto, Owner, Holding, processVars
  <2>2. ASSUME NEW d \in Calls, Calm, Owner(d) PROVE IdOf[d] # IdOf[c]
    BY <2>1, <2>2, OwnersKnow
  <2>3. table'[IdOf[c]].busy /\ table'[IdOf[c]].box = mine'[c]
    BY <1>2, <2>1, OpenKnownTable
  <2>4. \A d \in Calls : IdOf[d] # IdOf[c] => table'[IdOf[d]] = table[IdOf[d]]
    BY <1>2, OpenKnownTable
  <2>5. table'[IdOf[c]] # NoSession
    BY <1>2, OpenKnownTable
  <2>6. ASSUME Calm, NEW d \in Calls, Owner(d)'
        PROVE  /\ table'[IdOf[d]] # NoSession /\ table'[IdOf[d]].busy /\ table'[IdOf[d]].box = mine'[d]
               /\ \A e \in Calls \ {d} : Owner(e)' => IdOf[e] # IdOf[d]
    <3>1. CASE d = c
      BY <2>1, <2>2, <2>3, <2>5, <2>6, <3>1
    <3>2. CASE d # c
      <4>1. Owner(d) /\ IdOf[d] # IdOf[c]
        BY <2>1, <2>2, <2>6, <3>2
      <4> QED
        BY <2>1, <2>4, <2>6, <3>2, <4>1, OwnersKnow
    <3> QED
      BY <3>1, <3>2
  <2> QED
    BY <2>1, <2>6 DEF HeldSessions, Owner
<1>3. ASSUME NEW c \in Calls, OpenFails(c) PROVE HeldSessions'
  <2>1. Same
    BY <1>3 DEF TypeOK, OpenFails, Goto, Owner, Holding, dockerVars, callVars, processVars
  <2> QED
    BY <1>0, <2>1
<1>4. ASSUME NEW c \in Calls, OpenPython(c) PROVE HeldSessions'
  <2>1. Same
    BY <1>4 DEF TypeOK, OpenPython, Arrive, Goto, Owner, Holding, dockerVars, callVars, processVars
  <2> QED
    BY <1>0, <2>1
<1>5. ASSUME NEW c \in Calls, Create(c) PROVE HeldSessions'
  <2>1. Same
    BY <1>5 DEF TypeOK, Create, Goto, Owner, Holding, dockerVars, callVars, processVars
  <2> QED
    BY <1>0, <2>1
<1>6. ASSUME NEW c \in Calls, CreateFails(c) PROVE HeldSessions'
  <2>1. Same
    BY <1>6 DEF TypeOK, CreateFails, Return, Goto, Answer, Owner, Holding, dockerVars, callVars, processVars
  <2> QED
    BY <1>0, <2>1
<1>7. ASSUME NEW c \in Calls, Start(c) PROVE HeldSessions'
  <2>1. Same
    BY <1>7 DEF TypeOK, Start, Goto, Owner, Holding, dockerVars, callVars, processVars
  <2> QED
    BY <1>0, <2>1
<1>8. ASSUME NEW c \in Calls, StartFails(c) PROVE HeldSessions'
  <2>1. Same
    BY <1>8 DEF TypeOK, StartFails, Goto, Answer, Owner, Holding, dockerVars, callVars, processVars
  <2> QED
    BY <1>0, <2>1
<1>9. ASSUME NEW c \in Calls, PythonStartFails(c) PROVE HeldSessions'
  <2>1. Same
    BY <1>9 DEF TypeOK, PythonStartFails, Goto, Answer, Owner, Holding, dockerVars, callVars, processVars
  <2> QED
    BY <1>0, <2>1
<1>10. ASSUME NEW c \in Calls, Undo(c) PROVE HeldSessions'
  <2>1. Same
    BY <1>10 DEF TypeOK, Undo, ForceRemove, Goto, Owner, Holding, dockerVars, callVars, processVars
  <2> QED
    BY <1>0, <2>1
<1>11. ASSUME NEW c \in Calls, Drop(c) PROVE HeldSessions'
  <2>1. /\ phase' = phase /\ Owner(c)
        /\ \A d \in Calls : d # c /\ Owner(d)' => Owner(d) /\ mine'[d] = mine[d]
        /\ ~Owner(c)' /\ KindOf[c] # "python"
        /\ \A d \in Calls : IdOf[d] # IdOf[c] => table'[IdOf[d]] = table[IdOf[d]]
    BY <1>11 DEF TypeOK, Staged, Drop, Return, Goto, Owner, Holding, processVars
  <2>2. ASSUME Calm, NEW d \in Calls, Owner(d)' PROVE d # c /\ Owner(d) /\ IdOf[d] # IdOf[c]
    BY <2>1, <2>2, OwnersKnow
  <2>3. ASSUME Calm, NEW d \in Calls, Owner(d)'
        PROVE  table'[IdOf[d]] = table[IdOf[d]] /\ table[IdOf[d]] # NoSession
    BY <2>1, <2>2, <2>3, OwnersKnow
  <2> QED
    BY <2>1, <2>3, HeldFrame
<1>12. ASSUME NEW c \in Calls, Exec(c) PROVE HeldSessions'
  <2>1. Same
    BY <1>12 DEF TypeOK, Exec, Goto, Owner, Holding, dockerVars, callVars, processVars
  <2> QED
    BY <1>0, <2>1
<1>13. ASSUME NEW c \in Calls, ExecFails(c) PROVE HeldSessions'
  <2>1. Same
    BY <1>13 DEF TypeOK, ExecFails, Goto, Answer, Owner, Holding, dockerVars, callVars, processVars
  <2> QED
    BY <1>0, <2>1
<1>14. ASSUME NEW c \in Calls, Finish(c) PROVE HeldSessions'
  <2>1. Same
    BY <1>14 DEF TypeOK, Finish, Goto, Answer, Owner, Holding, dockerVars, callVars, processVars
  <2> QED
    BY <1>0, <2>1
<1>15. ASSUME NEW c \in Calls, Killed(c) PROVE HeldSessions'
  <2>1. Same
    BY <1>15 DEF TypeOK, Killed, Goto, Answer, Owner, Holding, dockerVars, callVars, processVars
  <2> QED
    BY <1>0, <2>1
<1>16. ASSUME NEW c \in Calls, Mark(c) PROVE HeldSessions'
  <2>1. /\ phase' = phase /\ Owner(c)
        /\ \A d \in Calls : d # c /\ Owner(d)' => Owner(d) /\ mine'[d] = mine[d]
        /\ ~Owner(c)' /\ KindOf[c] # "python"
        /\ \A d \in Calls : IdOf[d] # IdOf[c] => table'[IdOf[d]] = table[IdOf[d]]
    BY <1>16 DEF TypeOK, Staged, Mark, Return, Goto, Owner, Holding, processVars
  <2>2. ASSUME Calm, NEW d \in Calls, Owner(d)' PROVE d # c /\ Owner(d) /\ IdOf[d] # IdOf[c]
    BY <2>1, <2>2, OwnersKnow
  <2>3. ASSUME Calm, NEW d \in Calls, Owner(d)'
        PROVE  table'[IdOf[d]] = table[IdOf[d]] /\ table[IdOf[d]] # NoSession
    BY <2>1, <2>2, <2>3, OwnersKnow
  <2> QED
    BY <2>1, <2>3, HeldFrame
<1>17. ASSUME NEW c \in Calls, Destroy(c) PROVE HeldSessions'
  <2>1. /\ phase' = phase /\ Owner(c)
        /\ \A d \in Calls : d # c /\ Owner(d)' => Owner(d) /\ mine'[d] = mine[d]
        /\ ~Owner(c)' /\ KindOf[c] # "python"
        /\ \A d \in Calls : IdOf[d] # IdOf[c] => table'[IdOf[d]] = table[IdOf[d]]
    BY <1>17 DEF TypeOK, Staged, Destroy, Return, Goto, Owner, Holding, processVars
  <2>2. ASSUME Calm, NEW d \in Calls, Owner(d)' PROVE d # c /\ Owner(d) /\ IdOf[d] # IdOf[c]
    BY <2>1, <2>2, OwnersKnow
  <2>3. ASSUME Calm, NEW d \in Calls, Owner(d)'
        PROVE  table'[IdOf[d]] = table[IdOf[d]] /\ table[IdOf[d]] # NoSession
    BY <2>1, <2>2, <2>3, OwnersKnow
  <2> QED
    BY <2>1, <2>3, HeldFrame
<1>18. ASSUME NEW c \in Calls, Remove(c) PROVE HeldSessions'
  <2>1. Same
    BY <1>18 DEF TypeOK, Remove, ForceRemove, Return, Goto, Owner, Holding, dockerVars, callVars, processVars
  <2> QED
    BY <1>0, <2>1
<1>19. ASSUME NEW c \in Calls, Inspect(c) PROVE HeldSessions'
  <2>1. Same
    BY <1>19 DEF TypeOK, Inspect, Goto, Answer, Owner, Holding, dockerVars, callVars, processVars
  <2> QED
    BY <1>0, <2>1
<1>20. ASSUME NEW c \in Calls, Cleanup(c) PROVE HeldSessions'
  <2>1. Same
    BY <1>20 DEF TypeOK, Cleanup, ForceRemove, Return, Goto, Owner, Holding, dockerVars, callVars, processVars
  <2> QED
    BY <1>0, <2>1
<1>21. ASSUME NEW c \in Calls, EndContext(c) PROVE HeldSessions'
  <2>1. Same
    BY <1>21 DEF TypeOK, EndContext, Owner, Holding, dockerVars, callVars, processVars
  <2> QED
    BY <1>0, <2>1
<1>22. ASSUME NEW b \in Calls, NEW c \in Calls, JobEnds(b, c) PROVE HeldSessions'
  <2>1. Same
    BY <1>22 DEF TypeOK, JobEnds, Owner, Holding, dockerVars, callVars, processVars
  <2> QED
    BY <1>0, <2>1
<1>23. ASSUME NEW b \in Calls, Vanish(b) PROVE HeldSessions'
  <2>1. Same
    BY <1>23 DEF TypeOK, Vanish, Owner, Holding, dockerVars, callVars, processVars
  <2> QED
    BY <1>0, <2>1
<1>24. ASSUME NEW id \in Ids, LeaseEnds(id) PROVE HeldSessions'
  <2>1. /\ phase' = phase /\ table[id] # NoSession
        /\ \A d \in Calls : (Owner(d)' <=> Owner(d)) /\ mine'[d] = mine[d]
        /\ \A i \in Ids : i # id => table'[i] = table[i]
        /\ table'[id] = [table[id] EXCEPT !.leased = FALSE]
    BY <1>24 DEF TypeOK, LeaseEnds, Owner, Holding, processVars, callVars
  <2>2. /\ table'[id].busy = table[id].busy /\ table'[id].box = table[id].box
        /\ table'[id] \in Entry
    BY <2>1, EntryType DEF Entry
  <2>3. table'[id] # NoSession
    BY <2>2, NoSessionAssumption DEF Entry
  <2>4. ASSUME Calm, NEW d \in Calls, Owner(d)'
        PROVE  /\ table'[IdOf[d]] # NoSession
               /\ table'[IdOf[d]].busy = table[IdOf[d]].busy
               /\ table'[IdOf[d]].box = table[IdOf[d]].box
    <3>1. Owner(d) /\ table[IdOf[d]] # NoSession /\ IdOf[d] \in Ids
      BY <2>1, <2>4, OwnersKnow
    <3> QED
      BY <2>1, <2>2, <2>3, <3>1
  <2> QED
    BY <2>1, <2>4, HeldFrame
<1>25. CASE Sweep
  <2> DEFINE ids == {id \in Known : ~table[id].busy /\ ~table[id].leased}
  <2>1. /\ phase' = phase
        /\ \A d \in Calls : (Owner(d)' <=> Owner(d)) /\ mine'[d] = mine[d]
        /\ table' = [id \in Ids |-> IF id \in ids THEN NoSession ELSE table[id]]
    BY <1>25 DEF Sweep, SweepOf, Take, Owner, Holding, callVars
  <2>2. ASSUME Calm, NEW d \in Calls, Owner(d)'
        PROVE  table'[IdOf[d]] = table[IdOf[d]] /\ table[IdOf[d]] # NoSession
    <3>1. Owner(d) /\ table[IdOf[d]] # NoSession /\ table[IdOf[d]].busy /\ IdOf[d] \in Ids
      BY <2>1, <2>2, OwnersKnow
    <3> QED
      BY <2>1, <3>1
  <2> HIDE DEF ids
  <2> QED
    BY <2>1, <2>2, HeldFrame
<1>26. CASE SweepRemove
  <2>1. Same
    BY <1>26 DEF TypeOK, SweepRemove, ForceRemove, Owner, Holding, dockerVars, callVars, processVars
  <2> QED
    BY <1>0, <2>1
<1>27. CASE Close
  <2>1. /\ phase = "open" /\ table' = table
        /\ \A d \in Calls : (Owner(d)' <=> Owner(d)) /\ mine'[d] = mine[d]
    BY <1>27 DEF Close, Owner, Holding, callVars
  <2> QED
    BY <2>1, OwnersKnow, HeldFrame
<1>28. CASE JanitorStops
  <2>1. Same
    BY <1>28 DEF TypeOK, JanitorStops, Owner, Holding, dockerVars, callVars, processVars
  <2> QED
    BY <1>0, <2>1
<1>29. CASE CloseTake
  BY <1>29 DEF CloseTake, CloseTakeOf, HeldSessions
<1>30. CASE CloseRemove
  BY <1>30, HeldFrame DEF CloseRemove, HeldSessions
<1>31. CASE Exit
  BY <1>31 DEF Exit, HeldSessions
<1>32. CASE UNCHANGED vars
  <2>1. Same
    BY <1>32 DEF TypeOK, Owner, Holding, dockerVars, callVars, processVars, vars
  <2> QED
    BY <1>0, <2>1
<1> QED
  BY <1>1, <1>2, <1>3, <1>4, <1>5, <1>6, <1>7, <1>8, <1>9, <1>10, <1>11, <1>12, <1>13, <1>14,
     <1>15, <1>16, <1>17, <1>18, <1>19, <1>20, <1>21, <1>22, <1>23, <1>24, <1>25, <1>26, <1>27, <1>28,
     <1>29, <1>30, <1>31, <1>32
  DEF Next, Begin, Work

(* Who answers for a container: the table, or a call.                      *)
Tabled(b) == phase \in {"open", "stopping"} /\ \E id \in Known : table[id].box = b
CaredFor(b) ==
  \E c \in Calls :
    \/ InCall(c) /\ KindOf[c] = "python" /\ b = c
    \/ pc[c] = "remove" /\ mine[c] = b
    \/ pc[c] \in {"start", "undo"} /\ c = b

(* Every container stays somebody's.                                       *)
LEMMA LeakStep ==
  TypeOK /\ Staged /\ Ordered /\ HeldSessions /\ NothingLeaks /\ [Next]_vars => NothingLeaks'
<1> SUFFICES ASSUME TypeOK, Staged, Ordered, HeldSessions, NothingLeaks, [Next]_vars,
                    phase' # "exited", NEW x \in Calls, Exists(x)'
             PROVE  Tabled(x)' \/ (x \in doomed)' \/ CaredFor(x)' \/ (x \in lost)'
  BY DEF NothingLeaks, Handled, Tabled, CaredFor
<1> DEFINE Kept == Tabled(x)' \/ (x \in doomed)' \/ CaredFor(x)' \/ (x \in lost)'
<1> SUFFICES Kept
  OBVIOUS
<1> USE CallsAssumption, KindAssumption DEF TypeOK, dockerVars, callVars, processVars
<1>0. phase # "exited" /\ Exists(x) => Tabled(x) \/ x \in doomed \/ CaredFor(x) \/ x \in lost
  BY DEF NothingLeaks, Handled, Tabled, CaredFor
<1>1. ASSUME NEW c \in Calls, OpenNew(c) PROVE Kept
  BY <1>0, <1>1 DEF OpenNew, Arrive, Goto, Staged, Tabled, CaredFor, Known, InCall, Exists
<1>2. ASSUME NEW c \in Calls, OpenKnown(c) PROVE Kept
  <2>1. /\ IdOf[c] \in Ids /\ \A i \in Ids : i # IdOf[c] => table'[i] = table[i]
        /\ table'[IdOf[c]] # NoSession /\ table'[IdOf[c]].box = table[IdOf[c]].box
    BY <1>2, OpenKnownTable
  <2>2. Tabled(x) => Tabled(x)'
    <3>1. phase' = phase
      BY <1>2 DEF OpenKnown, Arrive
    <3>2. \A i \in Known : i \in Known' /\ table'[i].box = table[i].box
      BY <2>1 DEF Known
    <3> QED
      BY <3>1, <3>2 DEF Tabled
  <2>3. /\ phase' = phase /\ box' = box /\ lost' = lost /\ doomed' = doomed
        /\ \A d \in Calls : d # c => pc'[d] = pc[d] /\ mine'[d] = mine[d]
        /\ pc[c] = "idle"
    BY <1>2 DEF OpenKnown, Arrive, Goto
  <2> QED
    BY <1>0, <2>2, <2>3 DEF CaredFor, InCall, Exists
<1>3. ASSUME NEW c \in Calls, OpenFails(c) PROVE Kept
  BY <1>0, <1>3 DEF OpenFails, Goto, Staged, Tabled, CaredFor, Known, InCall, Exists
<1>4. ASSUME NEW c \in Calls, OpenPython(c) PROVE Kept
  BY <1>0, <1>4 DEF OpenPython, Arrive, Goto, Staged, Tabled, CaredFor, Known, InCall, Exists
<1>5. ASSUME NEW c \in Calls, Create(c) PROVE Kept
  BY <1>0, <1>5 DEF Create, Goto, Staged, Tabled, CaredFor, Known, InCall, Exists
<1>6. ASSUME NEW c \in Calls, CreateFails(c) PROVE Kept
  BY <1>0, <1>6 DEF CreateFails, Return, Goto, Answer, Staged, Tabled, CaredFor, Known, InCall, Exists
<1>7. ASSUME NEW c \in Calls, Start(c) PROVE Kept
  <2>1. phase = "open" /\ phase' = phase /\ table' = table
    BY <1>7 DEF Start, Ordered, InCall
  <2>2. CASE x = c
    <3>1. CASE KindOf[c] = "python"
      BY <1>7, <2>2, <3>1 DEF Start, Goto, CaredFor, InCall
    <3>2. CASE KindOf[c] # "python"
      <4>1. Owner(c) /\ mine[c] = c /\ IdOf[c] \in Ids
        BY <1>7, <3>2 DEF Start, Staged, Owner, Holding
      <4>2. table[IdOf[c]] # NoSession /\ table[IdOf[c]].box = c
        BY <2>1, <4>1, OwnersKnow
      <4> QED
        BY <2>1, <2>2, <4>1, <4>2 DEF Tabled, Known
    <3> QED
      BY <3>1, <3>2
  <2>3. CASE x # c
    <3>1. /\ Exists(x) /\ phase # "exited" /\ lost' = lost /\ doomed' = doomed
          /\ \A d \in Calls : d # c => pc'[d] = pc[d] /\ mine'[d] = mine[d]
          /\ pc[c] = "start"
      BY <1>7, <2>3 DEF Start, Goto, Exists
    <3>2. Tabled(x) => Tabled(x)'
      BY <2>1 DEF Tabled, Known
    <3>3. CaredFor(x) => CaredFor(x)'
      BY <2>3, <3>1 DEF CaredFor, InCall
    <3> QED
      BY <1>0, <3>1, <3>2, <3>3
  <2> QED
    BY <2>2, <2>3
<1>8. ASSUME NEW c \in Calls, StartFails(c) PROVE Kept
  BY <1>0, <1>8 DEF StartFails, Goto, Answer, Staged, Tabled, CaredFor, Known, InCall, Exists
<1>9. ASSUME NEW c \in Calls, PythonStartFails(c) PROVE Kept
  BY <1>0, <1>9 DEF PythonStartFails, Goto, Answer, Staged, Tabled, CaredFor, Known, InCall, Exists
<1>10. ASSUME NEW c \in Calls, Undo(c) PROVE Kept
  BY <1>0, <1>10 DEF Undo, ForceRemove, Goto, Staged, Tabled, CaredFor, Known, InCall, Exists
<1>11. ASSUME NEW c \in Calls, Drop(c) PROVE Kept
  <2>1. /\ phase' = phase /\ box' = box /\ lost' = lost /\ doomed' = doomed
        /\ \A d \in Calls : d # c => pc'[d] = pc[d] /\ mine'[d] = mine[d]
        /\ pc[c] = "drop" /\ KindOf[c] # "python" /\ mine[c] = c
        /\ \A i \in Ids : i # IdOf[c] => table'[i] = table[i]
        /\ ~Exists(c) \/ c \in lost
    BY <1>11 DEF Drop, Return, Goto, Staged
  <2>2. Exists(x) /\ phase # "exited"
    BY <2>1 DEF Exists
  <2>3. CaredFor(x) => CaredFor(x)'
    BY <2>1 DEF CaredFor, InCall
  <2>4. Tabled(x) => Tabled(x)' \/ x \in lost
    <3>1. SUFFICES ASSUME phase \in {"open", "stopping"}, NEW id \in Known, table[id].box = x
                   PROVE  Tabled(x)' \/ x \in lost
      BY DEF Tabled
    <3>2. CASE id = IdOf[c]
      <4>1. Owner(c)
        BY <2>1 DEF Owner, Holding
      <4>2. x = c
        BY <2>1, <3>1, <3>2, <4>1, OwnersKnow
      <4> QED
        BY <2>1, <2>2, <4>2
    <3>3. CASE id # IdOf[c]
      BY <2>1, <3>1, <3>3 DEF Tabled, Known
    <3> QED
      BY <3>2, <3>3
  <2> QED
    BY <1>0, <2>1, <2>2, <2>3, <2>4
<1>12. ASSUME NEW c \in Calls, Exec(c) PROVE Kept
  BY <1>0, <1>12 DEF Exec, Goto, Staged, Tabled, CaredFor, Known, InCall, Exists
<1>13. ASSUME NEW c \in Calls, ExecFails(c) PROVE Kept
  BY <1>0, <1>13 DEF ExecFails, Goto, Answer, Staged, Tabled, CaredFor, Known, InCall, Exists
<1>14. ASSUME NEW c \in Calls, Finish(c) PROVE Kept
  BY <1>0, <1>14 DEF Finish, Goto, Answer, Staged, Tabled, CaredFor, Known, InCall, Exists
<1>15. ASSUME NEW c \in Calls, Killed(c) PROVE Kept
  BY <1>0, <1>15 DEF Killed, Goto, Answer, Staged, Tabled, CaredFor, Known, InCall, Exists
<1>16. ASSUME NEW c \in Calls, Mark(c) PROVE Kept
  <2>1. Tabled(x) => Tabled(x)'
    <3>1. CASE table[IdOf[c]] = NoSession
      BY <1>16, <3>1 DEF Mark, Tabled, Known
    <3>2. CASE table[IdOf[c]] # NoSession
      <4>1. IdOf[c] \in Ids /\ table[IdOf[c]] \in Entry
        BY <3>2, EntryType
      <4>2. table' = [table EXCEPT ![IdOf[c]] = [table[IdOf[c]] EXCEPT !.busy = FALSE]]
        BY <1>16, <3>2 DEF Mark
      <4>3. table'[IdOf[c]] \in Entry /\ table'[IdOf[c]].box = table[IdOf[c]].box
        BY <4>1, <4>2 DEF Entry
      <4> QED
        BY <1>16, <4>1, <4>2, <4>3, NoSessionAssumption DEF Mark, Tabled, Known, Entry
    <3> QED
      BY <3>1, <3>2
  <2>2. /\ phase' = phase /\ box' = box /\ lost' = lost /\ doomed' = doomed
        /\ \A d \in Calls : d # c => pc'[d] = pc[d] /\ mine'[d] = mine[d]
        /\ pc[c] = "mark" /\ KindOf[c] # "python"
    BY <1>16 DEF Mark, Return, Goto, Staged
  <2> QED
    BY <1>0, <2>1, <2>2 DEF CaredFor, InCall, Exists
<1>17. ASSUME NEW c \in Calls, Destroy(c) PROVE Kept
  BY <1>0, <1>17 DEF Destroy, Return, Goto, Staged, Tabled, CaredFor, Known, InCall, Exists
<1>18. ASSUME NEW c \in Calls, Remove(c) PROVE Kept
  BY <1>0, <1>18 DEF Remove, ForceRemove, Return, Goto, Staged, Tabled, CaredFor, Known, InCall, Exists
<1>19. ASSUME NEW c \in Calls, Inspect(c) PROVE Kept
  BY <1>0, <1>19 DEF Inspect, Goto, Answer, Staged, Tabled, CaredFor, Known, InCall, Exists
<1>20. ASSUME NEW c \in Calls, Cleanup(c) PROVE Kept
  BY <1>0, <1>20 DEF Cleanup, ForceRemove, Return, Goto, Staged, Tabled, CaredFor, Known, InCall, Exists
<1>21. ASSUME NEW c \in Calls, EndContext(c) PROVE Kept
  BY <1>0, <1>21 DEF EndContext, Staged, Tabled, CaredFor, Known, InCall, Exists
<1>22. ASSUME NEW b \in Calls, NEW c \in Calls, JobEnds(b, c) PROVE Kept
  BY <1>0, <1>22 DEF JobEnds, Staged, Tabled, CaredFor, Known, InCall, Exists
<1>23. ASSUME NEW b \in Calls, Vanish(b) PROVE Kept
  BY <1>0, <1>23 DEF Vanish, Staged, Tabled, CaredFor, Known, InCall, Exists
<1>24. ASSUME NEW id \in Ids, LeaseEnds(id) PROVE Kept
  <2>1. table[id] \in Entry /\ table' = [table EXCEPT ![id] = [table[id] EXCEPT !.leased = FALSE]]
    BY <1>24, EntryType DEF LeaseEnds
  <2>2. table'[id] \in Entry /\ table'[id].box = table[id].box
    BY <2>1 DEF Entry
  <2>3. table'[id] # NoSession
    BY <2>2, NoSessionAssumption DEF Entry
  <2>4. phase' = phase /\ \A i \in Ids : i # id => table'[i] = table[i]
    BY <1>24, <2>1 DEF LeaseEnds
  <2>5. Tabled(x) => Tabled(x)'
    BY <2>2, <2>3, <2>4 DEF Tabled, Known
  <2> QED
    BY <1>0, <2>5, <1>24 DEF LeaseEnds, CaredFor, InCall, Exists
<1>25. CASE Sweep
  <2>1. /\ phase # "exited" /\ doomed = {}
        /\ box' = box /\ lost' = lost /\ pc' = pc /\ mine' = mine
    BY <1>25 DEF Sweep, SweepOf, Take, Ordered
  <2>2. CaredFor(x) => CaredFor(x)'
    BY <2>1 DEF CaredFor, InCall
  <2>3. Tabled(x) => Tabled(x)' \/ x \in doomed'
    BY <1>25 DEF Sweep, SweepOf, Take, Tabled, Known
  <2> QED
    BY <1>0, <2>1, <2>2, <2>3 DEF Exists
<1>26. CASE SweepRemove
  BY <1>0, <1>26 DEF SweepRemove, ForceRemove, Staged, Tabled, CaredFor, Known, InCall, Exists
<1>27. CASE Close
  BY <1>0, <1>27 DEF Close, Staged, Tabled, CaredFor, Known, InCall, Exists
<1>28. CASE JanitorStops
  BY <1>0, <1>28 DEF JanitorStops, Staged, Tabled, CaredFor, Known, InCall, Exists
<1>29. CASE CloseTake
  <2>1. /\ phase # "exited" /\ doomed = {}
        /\ box' = box /\ lost' = lost /\ pc' = pc /\ mine' = mine
    BY <1>29 DEF CloseTake, CloseTakeOf, Take, Ordered
  <2>2. CaredFor(x) => CaredFor(x)'
    BY <2>1 DEF CaredFor, InCall
  <2>3. Tabled(x) => Tabled(x)' \/ x \in doomed'
    BY <1>29 DEF CloseTake, CloseTakeOf, Take, Tabled, Known
  <2> QED
    BY <1>0, <2>1, <2>2, <2>3 DEF Exists
<1>30. CASE CloseRemove
  BY <1>0, <1>30 DEF CloseRemove, ForceRemove, Staged, Tabled, CaredFor, Known, InCall, Exists
<1>31. CASE Exit
  BY <1>0, <1>31 DEF Exit, Staged, Tabled, CaredFor, Known, InCall, Exists
<1>32. CASE UNCHANGED vars
  BY <1>0, <1>32 DEF vars, Staged, Tabled, CaredFor, Known, InCall, Exists
<1> QED
  BY <1>1, <1>2, <1>3, <1>4, <1>5, <1>6, <1>7, <1>8, <1>9, <1>10, <1>11, <1>12, <1>13, <1>14,
     <1>15, <1>16, <1>17, <1>18, <1>19, <1>20, <1>21, <1>22, <1>23, <1>24, <1>25, <1>26, <1>27, <1>28,
     <1>29, <1>30, <1>31, <1>32
  DEF Next, Begin, Work

(* A python container whose code still runs has no exit code to report.    *)
LEMMA TruthStep == TypeOK /\ Staged /\ PythonTruthful /\ [Next]_vars => PythonTruthful'
<1> SUFFICES ASSUME TypeOK, Staged, PythonTruthful, [Next]_vars PROVE PythonTruthful'
  OBVIOUS
<1> USE KindAssumption DEF TypeOK, Staged, PythonTruthful, InCall, dockerVars, callVars, processVars
<1>1. ASSUME NEW c \in Calls, OpenNew(c) PROVE PythonTruthful'
  BY <1>1 DEF OpenNew, Arrive, Goto
<1>2. ASSUME NEW c \in Calls, OpenKnown(c) PROVE PythonTruthful'
  BY <1>2 DEF OpenKnown, Arrive, Goto
<1>3. ASSUME NEW c \in Calls, OpenFails(c) PROVE PythonTruthful'
  BY <1>3 DEF OpenFails, Goto
<1>4. ASSUME NEW c \in Calls, OpenPython(c) PROVE PythonTruthful'
  BY <1>4 DEF OpenPython, Arrive, Goto
<1>5. ASSUME NEW c \in Calls, Create(c) PROVE PythonTruthful'
  BY <1>5 DEF Create, Goto
<1>6. ASSUME NEW c \in Calls, CreateFails(c) PROVE PythonTruthful'
  BY <1>6 DEF CreateFails, Return, Goto, Answer
<1>7. ASSUME NEW c \in Calls, Start(c) PROVE PythonTruthful'
  BY <1>7 DEF Start, Goto
<1>8. ASSUME NEW c \in Calls, StartFails(c) PROVE PythonTruthful'
  BY <1>8 DEF StartFails, Goto, Answer
<1>9. ASSUME NEW c \in Calls, PythonStartFails(c) PROVE PythonTruthful'
  BY <1>9 DEF PythonStartFails, Goto, Answer
<1>10. ASSUME NEW c \in Calls, Undo(c) PROVE PythonTruthful'
  BY <1>10 DEF Undo, ForceRemove, Goto
<1>11. ASSUME NEW c \in Calls, Drop(c) PROVE PythonTruthful'
  BY <1>11 DEF Drop, Return, Goto
<1>12. ASSUME NEW c \in Calls, Exec(c) PROVE PythonTruthful'
  BY <1>12 DEF Exec, Goto
<1>13. ASSUME NEW c \in Calls, ExecFails(c) PROVE PythonTruthful'
  BY <1>13 DEF ExecFails, Goto, Answer
<1>14. ASSUME NEW c \in Calls, Finish(c) PROVE PythonTruthful'
  BY <1>14 DEF Finish, Goto, Answer
<1>15. ASSUME NEW c \in Calls, Killed(c) PROVE PythonTruthful'
  BY <1>15 DEF Killed, Goto, Answer
<1>16. ASSUME NEW c \in Calls, Mark(c) PROVE PythonTruthful'
  BY <1>16 DEF Mark, Return, Goto
<1>17. ASSUME NEW c \in Calls, Destroy(c) PROVE PythonTruthful'
  BY <1>17 DEF Destroy, Return, Goto
<1>18. ASSUME NEW c \in Calls, Remove(c) PROVE PythonTruthful'
  BY <1>18 DEF Remove, ForceRemove, Return, Goto
<1>19. ASSUME NEW c \in Calls, Inspect(c) PROVE PythonTruthful'
  BY <1>19 DEF Inspect, Goto, Answer
<1>20. ASSUME NEW c \in Calls, Cleanup(c) PROVE PythonTruthful'
  BY <1>20 DEF Cleanup, ForceRemove, Return, Goto
<1>21. ASSUME NEW c \in Calls, EndContext(c) PROVE PythonTruthful'
  BY <1>21 DEF EndContext
<1>22. ASSUME NEW b \in Calls, NEW c \in Calls, JobEnds(b, c) PROVE PythonTruthful'
  BY <1>22 DEF JobEnds
<1>23. ASSUME NEW b \in Calls, Vanish(b) PROVE PythonTruthful'
  BY <1>23 DEF Vanish
<1>24. ASSUME NEW id \in Ids, LeaseEnds(id) PROVE PythonTruthful'
  BY <1>24 DEF LeaseEnds
<1>25. CASE Sweep
  BY <1>25 DEF Sweep, SweepOf, Take
<1>26. CASE SweepRemove
  BY <1>26 DEF SweepRemove, ForceRemove
<1>27. CASE Close
  BY <1>27 DEF Close
<1>28. CASE JanitorStops
  BY <1>28 DEF JanitorStops
<1>29. CASE CloseTake
  BY <1>29 DEF CloseTake, CloseTakeOf, Take
<1>30. CASE CloseRemove
  BY <1>30 DEF CloseRemove, ForceRemove
<1>31. CASE Exit
  BY <1>31 DEF Exit
<1>32. CASE UNCHANGED vars
  BY <1>32 DEF vars
<1> QED
  BY <1>1, <1>2, <1>3, <1>4, <1>5, <1>6, <1>7, <1>8, <1>9, <1>10, <1>11, <1>12, <1>13, <1>14,
     <1>15, <1>16, <1>17, <1>18, <1>19, <1>20, <1>21, <1>22, <1>23, <1>24, <1>25, <1>26, <1>27, <1>28,
     <1>29, <1>30, <1>31, <1>32
  DEF Next, Begin, Work

-----------------------------------------------------------------------------
(* The invariant holds at the start ...                                    *)
LEMMA InitInv == Init => IInv
<1> SUFFICES ASSUME Init PROVE IInv
  OBVIOUS
<1>1. TypeOK
  BY CallsAssumption DEF Init, TypeOK, Steps, Answers
<1>2. Staged /\ Ordered
  BY DEF Init, Staged, Ordered, InCall
<1>3. HeldSessions /\ NothingLeaks /\ PythonTruthful
  BY DEF Init, HeldSessions, Holding, NothingLeaks, Exists, PythonTruthful
<1> QED
  BY <1>1, <1>2, <1>3 DEF IInv

(* ... and every step keeps it.                                            *)
LEMMA Invariance == Spec => []IInv
<1>1. IInv /\ [Next]_vars => IInv'
  BY TypeStep, StagedStep, OrderedStep, HeldStep, LeakStep, TruthStep DEF IInv
<1> QED
  BY <1>1, InitInv, PTL DEF Spec

(* Every variable keeps its type in every reachable state.                 *)
THEOREM TypeCorrect == Spec => []TypeOK
<1>1. IInv => TypeOK
  BY DEF IInv
<1> QED
  BY <1>1, Invariance, PTL

(* Until the shutdown a terminal call finds under its session id the very  *)
(* session it took, however commands, sweeps and deadlines interleave.     *)
THEOREM HeldSessionsHolds == Spec => []HeldSessions
<1>1. IInv => HeldSessions
  BY DEF IInv
<1> QED
  BY <1>1, Invariance, PTL

(* While the process lives, each container the daemon has is known to the  *)
(* table, the janitor, Close or a call, unless a docker command failed.    *)
THEOREM NothingLeaksHolds == Spec => []NothingLeaks
<1>1. IInv => NothingLeaks
  BY DEF IInv
<1> QED
  BY <1>1, Invariance, PTL

(* A pythonExec answers with an exit code only of code that has ended.     *)
THEOREM PythonTruthfulHolds == Spec => []PythonTruthful
<1>1. IInv => PythonTruthful
  BY DEF IInv
<1> QED
  BY <1>1, Invariance, PTL

(* A session leaves the table before its lease is over only by a command   *)
(* of its own that failed on it, or when Close empties the table.          *)
THEOREM LeaseKeptHolds == Spec => LeaseKept
<1>1. ASSUME TypeOK, [Next]_vars, NEW x \in Ids,
             table[x] # NoSession, table[x].leased, table'[x] = NoSession
      PROVE  \/ phase' = "removing"
             \/ \E c \in Calls : IdOf[c] = x /\ pc[c] \in {"drop", "destroy"} /\ pc'[c] # pc[c]
  <2> DEFINE Good == \/ phase' = "removing"
                     \/ \E c \in Calls : IdOf[c] = x /\ pc[c] \in {"drop", "destroy"} /\ pc'[c] # pc[c]
  <2> SUFFICES Good
    OBVIOUS
  <2>1. CASE table'[x] = table[x]
    BY <1>1, <2>1
  <2>2. CASE table'[x] \in Entry
    BY <1>1, <2>2, NoSessionAssumption DEF Entry
  <2>3. ASSUME NEW c \in Calls, OpenNew(c) PROVE table'[x] = table[x]
    BY <1>1, <2>3 DEF TypeOK, OpenNew
  <2>4. ASSUME NEW c \in Calls, OpenKnown(c) PROVE table'[x] = table[x] \/ table'[x] \in Entry
    BY <1>1, <2>4, OpenKnownTable
  <2>5. ASSUME NEW c \in Calls, Mark(c) PROVE table'[x] = table[x] \/ table'[x] \in Entry
    <3>1. CASE x = IdOf[c]
      <4>1. table[x] \in Entry
        BY <1>1, EntryType
      <4>2. [table[x] EXCEPT !.busy = FALSE] \in Entry
        BY <4>1, EntryChanges
      <4> QED
        BY <1>1, <2>5, <3>1, <4>2 DEF TypeOK, Mark
    <3>2. CASE x # IdOf[c]
      BY <1>1, <2>5, <3>2 DEF TypeOK, Mark
    <3> QED
      BY <3>1, <3>2
  <2>6. ASSUME NEW c \in Calls, Drop(c) \/ Destroy(c) PROVE table'[x] = table[x] \/ Good
    BY <1>1, <2>6 DEF TypeOK, Drop, Destroy, Return, Goto
  <2>7. ASSUME NEW id \in Ids, LeaseEnds(id) PROVE table'[x] = table[x] \/ table'[x] \in Entry
    <3>1. table[id] \in Entry
      BY <1>1, <2>7, EntryType DEF LeaseEnds
    <3>2. [table[id] EXCEPT !.leased = FALSE] \in Entry
      BY <3>1, EntryChanges
    <3>3. table' = [table EXCEPT ![id] = [table[id] EXCEPT !.leased = FALSE]]
      BY <2>7 DEF LeaseEnds
    <3> QED
      BY <1>1, <3>2, <3>3 DEF TypeOK
  <2>8. CASE Sweep
    BY <1>1, <2>8 DEF TypeOK, Sweep, SweepOf, Take
  <2>9. CASE CloseTake
    BY <2>9 DEF CloseTake, CloseTakeOf
  <2>10. ASSUME NEW c \in Calls,
                \/ OpenFails(c) \/ OpenPython(c) \/ Create(c) \/ CreateFails(c) \/ Start(c)
                \/ StartFails(c) \/ PythonStartFails(c) \/ Undo(c) \/ Exec(c) \/ ExecFails(c)
                \/ Finish(c) \/ Killed(c) \/ Remove(c) \/ Inspect(c) \/ Cleanup(c) \/ EndContext(c)
         PROVE  table' = table
    BY <2>10 DEF OpenFails, OpenPython, Create, CreateFails, Start, StartFails, PythonStartFails,
                 Undo, Exec, ExecFails, Finish, Killed, Remove, Inspect, Cleanup, EndContext
  <2>11. ASSUME NEW b \in Calls, Vanish(b) \/ (\E c \in Calls : JobEnds(b, c)) PROVE table' = table
    BY <2>11 DEF Vanish, JobEnds
  <2>12. CASE SweepRemove \/ Close \/ JanitorStops \/ CloseRemove \/ Exit \/ UNCHANGED vars
    BY <2>1, <2>12 DEF SweepRemove, Close, JanitorStops, CloseRemove, Exit, vars
  <2> HIDE DEF Good
  <2> QED
    BY <1>1, <2>1, <2>2, <2>3, <2>4, <2>5, <2>6, <2>7, <2>8, <2>9, <2>10, <2>11, <2>12
    DEF Next, Begin, Work
<1>2. TypeOK /\ [Next]_vars =>
        \A id \in Ids :
          table[id] # NoSession /\ table[id].leased /\ table'[id] = NoSession =>
            \/ phase' = "removing"
            \/ \E c \in Calls : IdOf[c] = id /\ pc[c] \in {"drop", "destroy"} /\ pc'[c] # pc[c]
  BY <1>1
<1> QED
  BY <1>2, TypeCorrect, PTL DEF Spec, LeaseKept
==============================================================================

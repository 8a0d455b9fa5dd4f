------------------------------ MODULE TaskBook ------------------------------
(***************************************************************************)
(* What the console promises about the record of a task, without memory,   *)
(* goroutines, crashes or retries: a task is created queued, at most one   *)
(* kept task per request key; it moves forward only, ends once, and is     *)
(* forgotten only after it ended.                                          *)
(***************************************************************************)
EXTENDS Integers

CONSTANTS Tasks, RequestOf, NoRequest

VARIABLE status  \* task -> the status a reader of the record sees

Unfinished == {"queued", "dispatched", "running"}
Finished == {"succeeded", "failed", "timeout", "canceled"}

Kept(t) == status[t] \in Unfinished \cup Finished
Twins(t) ==
  {u \in Tasks : u # t /\ RequestOf[t] # NoRequest /\ RequestOf[u] = RequestOf[t]}

Init == status = [t \in Tasks |-> "absent"]

Become(t, from, to) == status[t] \in from /\ status' = [status EXCEPT ![t] = to]

Create(t) ==
  /\ \A u \in Twins(t) : ~Kept(u)
  /\ Become(t, {"absent"}, "queued")

Advance(t) ==
  \/ Become(t, {"queued"}, "dispatched")
  \/ Become(t, {"dispatched"}, "running")

End(t) == \E how \in Finished : Become(t, Unfinished, how)

(* The console restarts: whatever was unfinished has failed. *)
Interrupt ==
  status' = [t \in Tasks |-> IF status[t] \in Unfinished THEN "failed" ELSE status[t]]

(* Retention is over for some finished tasks. *)
Forget ==
  \E old \in SUBSET {t \in Tasks : status[t] \in Finished} :
    status' = [t \in Tasks |-> IF t \in old THEN "deleted" ELSE status[t]]

Next ==
  \/ \E t \in Tasks : Create(t) \/ Advance(t) \/ End(t)
  \/ Interrupt
  \/ Forget

Spec == Init /\ [][Next]_status
=============================================================================

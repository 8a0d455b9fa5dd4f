----------------------------- MODULE SessionLife -----------------------------
(***************************************************************************)
(* What the console promises about the sessions of one worker: at most one *)
(* is found through the table of sessions, a session leaves the table once *)
(* and for all, and only then is it closed.  WorkerSession relies on this  *)
(* order; WorkerRegistry, which has all the goroutines that may end a      *)
(* session, keeps it.                                                      *)
(***************************************************************************)

CONSTANT Sessions

VARIABLE life  \* session -> new, mapped, unmapped, closed, or gone

Init ==
  /\ life \in [Sessions -> {"new", "mapped"}]
  /\ \A s, u \in Sessions : life[s] = "mapped" /\ life[u] = "mapped" => s = u

(* A session that is published takes the place of the one in the table. *)
Publish(s) ==
  /\ life[s] = "new"
  /\ life' = [u \in Sessions |-> IF u = s THEN "mapped"
                                 ELSE IF life[u] = "mapped" THEN "unmapped" ELSE life[u]]

Unmap(s) == life[s] = "mapped" /\ life' = [life EXCEPT ![s] = "unmapped"]

Close(s) == life[s] = "unmapped" /\ life' = [life EXCEPT ![s] = "closed"]

(* The process dies and takes every session along. *)
ProcessDies ==
  \E lost \in SUBSET Sessions :
    /\ \A s \in Sessions : life[s] \in {"mapped", "unmapped"} => s \in lost
    /\ life' = [s \in Sessions |-> IF s \in lost THEN "gone" ELSE life[s]]

Next == (\E s \in Sessions : Publish(s) \/ Unmap(s) \/ Close(s)) \/ ProcessDies

Spec == Init /\ [][Next]_life
=============================================================================

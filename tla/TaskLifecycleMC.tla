-------------------------- MODULE TaskLifecycleMC --------------------------
(***************************************************************************)
(* Instances of TaskLifecycle for TLC.                                     *)
(***************************************************************************)
EXTENDS TaskLifecycle

CONSTANTS s1, s2, req, k1

(* A call and its retry under one request_id. *)
Pair == {s1, s2}
PairRequest == [s \in Pair |-> req]
SyncAsync == [s \in Pair |-> IF s = s1 THEN "sync" ELSE "async"]
AutoSync == [s \in Pair |-> IF s = s1 THEN "auto" ELSE "sync"]

(* One blocking call on its own. *)
Single == {s1}
SingleRequest == [s \in Single |-> req]
SingleSync == [s \in Single |-> "sync"]

OneCancel == {k1}
NoCancel == {}

(* One behaviour has the call and its retry with a failing statement or a  *)
(* crash, or the call alone with a cancellation, a failing statement and a *)
(* crash.  No call is ever forced to begin: the fairness is that of        *)
(* FairSpec.                                                               *)
Apart ==
  (faults' > 0 /\ crashes' > 0) \/ (\E k \in Cancels : call'[k] # "idle") => call'[s2] = "idle"
============================================================================

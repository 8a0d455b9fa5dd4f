-------------------------- MODULE WorkerSessionMC --------------------------
(***************************************************************************)
(* Instances of WorkerSession for TLC.                                     *)
(***************************************************************************)
EXTENDS WorkerSession

CONSTANTS c1, c2, exec

ExecOnly == {exec}

(* Two commands compete for the only slot of a capability. *)
TwoCommands == {c1, c2}
TwoExec == [c \in TwoCommands |-> exec]
OneSlot == [k \in ExecOnly |-> 1]
============================================================================

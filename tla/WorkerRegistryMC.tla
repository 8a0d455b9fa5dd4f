-------------------------- MODULE WorkerRegistryMC --------------------------
(***************************************************************************)
(* Instances of WorkerRegistry for TLC.                                    *)
(***************************************************************************)
EXTENDS WorkerRegistry

CONSTANTS c1, c2, d1

TwoConns == {c1, c2}
OneDelete == {d1}
NoDelete == {}
=============================================================================

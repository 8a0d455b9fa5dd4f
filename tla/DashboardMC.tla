---------------------------- MODULE DashboardMC ----------------------------
(***************************************************************************)
(* The instance of Dashboard for TLC: three requests of any kind.          *)
(***************************************************************************)
EXTENDS Dashboard, TLC

CONSTANTS c1, c2, c3

Three == {c1, c2, c3}
Interchangeable == Permutations(Three)
============================================================================

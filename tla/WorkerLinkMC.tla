----------------------------- MODULE WorkerLinkMC -----------------------------
(***************************************************************************)
(* The instance of WorkerLink for TLC.                                     *)
(***************************************************************************)
EXTENDS WorkerLink

CONSTANTS c1, c2

Two == {c1, c2}

(* The commands are alike: it is enough to look at one order of dispatch.  *)
(* A behaviour has both commands, or the first one and a fault.  Neither a *)
(* fault nor a dispatch is ever due: the fairness is that of FairSpec.     *)
Apart == ask'[c2] # "new" => ask'[c1] # "new" /\ faults' = 0
===============================================================================

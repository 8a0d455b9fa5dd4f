------------------------- MODULE TerminalManagerMC -------------------------
(***************************************************************************)
(* The instance of TerminalManager for TLC.                                *)
(***************************************************************************)
EXTENDS TerminalManager

CONSTANTS c1, c2, c3, c4, p1, s1, s2

(* Two commands that may create the session and a third that only reads    *)
(* it, and a command on a session of its own; or one of them beside a      *)
(* pythonExec.                                                             *)
Mixed == {c1, c2, c3, c4, p1}
TwoSessions == {s1, s2}
MixedIds == [c \in Mixed |-> IF c = c4 THEN s2 ELSE s1]
MixedKinds == [c \in Mixed |-> CASE c = c3 -> "read" [] c = p1 -> "python" [] OTHER -> "open"]
First == {c1}

(* pythonExec shares no state with a session but the shutdown, and two     *)
(* sessions only the sweeps, so one behaviour has three commands on a      *)
(* session, or two calls that share none.  No call is ever forced to       *)
(* begin: the fairness is that of FairSpec.                                *)
Begun == {c \in Mixed : pc[c] # "idle"}
Apart == Begun' \cap {c4, p1} # {} => Cardinality(Begun') \leq 2 \/ phase' = "exited"
============================================================================

-------------------------- MODULE TerminalRoutesMC --------------------------
(***************************************************************************)
(* Instances of TerminalRoutes for TLC.                                    *)
(***************************************************************************)
EXTENDS TerminalRoutes, TLC

CONSTANTS a, b, a1, a2, b1, c1, c2, c3, shell

(* Two workers.  Both are connected; the first may connect again, the      *)
(* second may be deleted.                                                  *)
TwoNodes == {a, b}
TwoConns == {a1, b1}
ThreeConns == {a1, a2, b1}
ConnNode == [k \in Conns |-> IF k = b1 THEN b ELSE a]
OnlyB == {b}
NoNode == {}

(* Two calls of one terminal session beside a command without one, or      *)
(* three commands without one.                                             *)
OneTerminal == {shell}
ThreeCalls == {c1, c2, c3}
TwoShells == [c \in Calls |-> IF c = c3 THEN None ELSE shell]
AllPlain == [c \in Calls |-> None]

(* The first worker runs two commands at a time, the second one. *)
TwoAndOne == [k \in Conns |-> IF k = b1 THEN 1 ELSE 2]

(* A behaviour has all three calls, or the two of the terminal session and *)
(* a worker that connects again, is lost or is deleted; a deletion is over *)
(* before the other worker connects again.                                 *)
Apart ==
  /\ pc'[c3] # "start" =>
       /\ doomed' \cup closed' = {}
       /\ \A k \in Conns : link'[k] = IF k \in Connected THEN "serving" ELSE "new"
  /\ doomed' # {} => \A k \in Conns \ Connected : link'[k] = "new"

ShellSymmetry == Permutations({c1, c2})
CallSymmetry == Permutations(Calls)
=============================================================================

------------------------------ MODULE SlotPool ------------------------------
(***************************************************************************)
(* What a worker session promises about its execution slots, without       *)
(* counters, tables or channels: a command is refused, or it takes one     *)
(* slot of its capability while fewer than max_inflight commands hold one, *)
(* and gives that slot back exactly once.                                  *)
(***************************************************************************)
EXTENDS Integers, FiniteSets

CONSTANTS Commands, CapabilityOf, MaxInflight

VARIABLE slot  \* command -> whether it waits for, holds or is done with a slot

InUse(k) == {c \in Commands : CapabilityOf[c] = k /\ slot[c] = "held"}

Init == slot = [c \in Commands |-> "free"]

Move(c, from, to) == slot[c] = from /\ slot' = [slot EXCEPT ![c] = to]

Acquire(c) ==
  /\ Cardinality(InUse(CapabilityOf[c])) < MaxInflight[CapabilityOf[c]]
  /\ Move(c, "free", "held")

GiveBack(c) == Move(c, "held", "spent")

Refuse(c) == Move(c, "free", "spent")

Next == \E c \in Commands : Acquire(c) \/ GiveBack(c) \/ Refuse(c)

Spec == Init /\ [][Next]_slot
=============================================================================

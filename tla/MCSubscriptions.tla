---------------------------- MODULE MCSubscriptions ----------------------------
(***************************************************************************)
(* Subscriptions by itself: one weekly row, and requests that may give it  *)
(* a second name.                                                          *)
(***************************************************************************)
EXTENDS Subscriptions, TLC

CONSTANT n1

OneRow == (n1 :> ([day |-> 2, before |-> 1, enabled |-> TRUE, renewed |-> NoMark] @@ Unset))
PatchBefore == {[before |-> 0]}
NewYear2024 == DayNumber(2024, 1, 1)

===============================================================================

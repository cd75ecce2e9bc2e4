------------------------------ MODULE PressesMC ------------------------------
(* Ways of using the headset for the configurations of Presses. *)
EXTENDS Presses

Use(directions, missable, restored, lag) ==
  [directions |-> directions, missable |-> missable, restored |-> restored, lag |-> lag]

(* One button pressed faster than the polls, its levels late; both buttons, *)
(* their pulses seen; one button of a device that is restored meanwhile.    *)
CountedUses == {Use({1}, TRUE, FALSE, 4), Use({1, -1}, FALSE, FALSE, 1), Use({-1}, TRUE, TRUE, 1)}
=============================================================================

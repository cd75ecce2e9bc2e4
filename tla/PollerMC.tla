------------------------------ MODULE PollerMC ------------------------------
(* A volume level may be the target, another one, or invalid. *)
EXTENDS Poller

TwoLevelsOrInvalid == {Target, 12, None}
=============================================================================

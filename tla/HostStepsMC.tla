----------------------------- MODULE HostStepsMC -----------------------------
(* Values of the constants that a configuration file cannot write down. *)
EXTENDS HostSteps

UpAndDown == {-1, 0, 1}
=============================================================================

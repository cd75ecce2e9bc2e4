-------------------------- MODULE AudioControllerMC --------------------------
(* The adapters are interchangeable. *)
EXTENDS AudioController, TLC

AdapterSymmetry == Permutations(Adapters)
=============================================================================

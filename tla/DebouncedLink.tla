---------------------------- MODULE DebouncedLink ----------------------------
(***************************************************************************)
(* What the poller promises about the connection it reports: a good sample *)
(* of the selected adapter connects at once; samples that fail disconnect  *)
(* when they have failed for as long as the debounce time, not before and  *)
(* not after; a removed or replaced adapter disconnects at once.           *)
(* (specs/architecture.md, "Connection state machine".)                    *)
(***************************************************************************)
EXTENDS Naturals

CONSTANTS
  NoAdapter,    \* no adapter is selected
  Step,         \* the time a failed sample stands for
  Patience      \* the debounce time

VARIABLES
  adapter,      \* the adapter the samples are of
  reported,     \* what was reported last: TRUE, FALSE, or NoAdapter before
  silence       \* for how long samples have failed, up to Patience

linkVars == <<adapter, reported, silence>>

LinkInit == adapter = NoAdapter /\ reported = NoAdapter /\ silence = 0

Hear ==
  /\ adapter # NoAdapter
  /\ reported' = TRUE
  /\ silence' = 0
  /\ UNCHANGED adapter

Miss ==
  /\ adapter # NoAdapter
  /\ IF silence + Step < Patience
     THEN silence' = silence + Step /\ UNCHANGED reported
     ELSE silence' = Patience /\ reported' = FALSE
  /\ UNCHANGED adapter

(* Leaving an adapter, or learning that there is none, is a disconnection. *)
Switch ==
  /\ adapter' # adapter \/ (adapter' = NoAdapter /\ reported = NoAdapter)
  /\ reported' = IF adapter # NoAdapter \/ adapter' = NoAdapter THEN FALSE ELSE reported
  /\ silence' = 0

LinkNext == Hear \/ Miss \/ Switch

LinkSpec == LinkInit /\ [][LinkNext]_linkVars
=============================================================================

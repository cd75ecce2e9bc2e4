----------------------------- MODULE LatestSlot -----------------------------
(***************************************************************************)
(* What the daemon expects of the two channels between its workers: a      *)
(* register with room for one value.  Putting a value replaces the value   *)
(* nobody has taken yet; getting takes the value out.  A value is          *)
(* identified by its position in the order of the puts.                    *)
(***************************************************************************)
EXTENDS Naturals

Empty == 0    \* the slot holds nothing; values are numbered from 1

VARIABLES
  put,        \* number of the newest value put
  slot,       \* the value waiting, or Empty
  got         \* the value the receiver took last, or Empty

slotVars == <<put, slot, got>>

SlotInit == put = 0 /\ slot = Empty /\ got = Empty

Put ==
  /\ put' = put + 1
  /\ slot' = put'
  /\ UNCHANGED got

Get ==
  /\ slot # Empty
  /\ got' = slot
  /\ slot' = Empty
  /\ UNCHANGED put

SlotNext == Put \/ Get

SlotSpec == SlotInit /\ [][SlotNext]_slotVars
=============================================================================

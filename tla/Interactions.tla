---------------------------- MODULE Interactions ----------------------------
(***************************************************************************)
(* The interaction tracker of internal/state/interactions.go: what one     *)
(* report of the headset adds to the host volume steps, in host-only mode. *)
(* The tracker sees a press twice: as a rising edge of a button bit, which *)
(* a slow poll may miss, and as a change of the device's volume level,     *)
(* which may arrive some reports later.  A credit is an edge that has been *)
(* counted and whose level change is still expected.  The microphone has   *)
(* no part in it.                                                          *)
(***************************************************************************)
EXTENDS Integers

CONSTANTS
  None,        \* a level out of range
  Target       \* hid.DeviceVolumeTarget

CreditSamples == 4    \* reports a credit lasts

Reset == [established |-> FALSE, volume |-> None, up |-> FALSE, down |-> FALSE,
          upCredits |-> 0, downCredits |-> 0, age |-> 0]

NoCredits(t) == [t EXCEPT !.upCredits = 0, !.downCredits = 0, !.age = 0]

HasCredits(t) == t.upCredits > 0 \/ t.downCredits > 0

(* Variants: credits last a report less; they last for ever. *)
AgedEarly(t) ==
  IF ~HasCredits(t) THEN t
  ELSE IF t.age + 1 >= CreditSamples THEN NoCredits(t)
  ELSE [t EXCEPT !.age = @ + 1]

AgedForever(t) == IF HasCredits(t) THEN [t EXCEPT !.age = @ + 1] ELSE t

(* The credits grow older with each report. *)
Aged(t) ==
  IF ~HasCredits(t) THEN t
  ELSE IF t.age + 1 > CreditSamples THEN NoCredits(t)
  ELSE [t EXCEPT !.age = @ + 1]

(* Whether the device was restored between two levels: it stands at the     *)
(* target again, or on the other side of it.                                *)
Restored(from, to) == to = Target /\ from # Target
Crossed(from, to) == (from < Target /\ to > Target) \/ (from > Target /\ to < Target)

(* Variant: always from the target. *)
MovedFromTarget(from, to) == IF to = Target THEN 0 ELSE to - Target

(* How far the level has moved, not counting the restoration. *)
Moved(from, to) ==
  IF Restored(from, to) THEN 0
  ELSE IF Crossed(from, to) THEN to - Target
  ELSE to - from

Lesser(a, b) == IF a < b THEN a ELSE b

(* Report r takes tracker t to the tracker .tracker, adding .steps. *)
Sample(t, r) ==
  LET known == t.volume # None /\ r.volume # None
      raw == IF known THEN Moved(t.volume, r.volume) ELSE 0
      a == IF known /\ (Restored(t.volume, r.volume) \/ Crossed(t.volume, r.volume))
           THEN NoCredits(t) ELSE Aged(t)
      usedUp == IF raw > 0 THEN Lesser(raw, a.upCredits) ELSE 0
      usedDown == IF raw < 0 THEN Lesser(-raw, a.downCredits) ELSE 0
      rest == raw - usedUp + usedDown
      pressUp == r.up /\ ~t.up
      pressDown == r.down /\ ~t.down
      rest1 == IF pressUp /\ rest > 0 THEN rest - 1 ELSE rest
      creditUp == pressUp /\ rest <= 0
      rest2 == IF pressDown /\ rest1 < 0 THEN rest1 + 1 ELSE rest1
      creditDown == pressDown /\ rest1 >= 0
      up == a.upCredits - usedUp
      down == a.downCredits - usedDown
      now == [established |-> TRUE, volume |-> r.volume, up |-> r.up, down |-> r.down,
              upCredits |-> up + IF creditUp THEN 1 ELSE 0,
              downCredits |-> down + IF creditDown THEN 1 ELSE 0,
              age |-> IF creditUp \/ creditDown \/ (up = 0 /\ down = 0)
                      THEN 0 ELSE a.age]
  IN IF t.established
     THEN [tracker |-> now,
           steps |-> (IF pressUp THEN 1 ELSE 0) - (IF pressDown THEN 1 ELSE 0) + rest2]
     ELSE [tracker |-> [t EXCEPT !.established = TRUE, !.volume = r.volume,
                                 !.up = r.up, !.down = r.down],
           steps |-> 0]
=============================================================================

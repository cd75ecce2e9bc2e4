------------------------------- MODULE Presses -------------------------------
(***************************************************************************)
(* The interaction tracker against a headset whose volume buttons are      *)
(* pressed: a press raises a button bit for a while and moves the device's *)
(* volume level some reports later; the daemon's restoration sets the      *)
(* level back to the target at any moment in between.                      *)
(***************************************************************************)
EXTENDS Interactions, Sequences

CONSTANTS
  Uses,         \* the ways of using the headset to be considered
  MaxPresses    \* bound on the number of presses

(* A way of using the headset: the buttons pressed (1 is volume up, -1      *)
(* volume down), whether a button bit may come and go between two reports,  *)
(* whether the daemon restores the device's volume, and how many reports a  *)
(* level change may lag behind its press.                                   *)
ASSUME PressesAssumption ==
  /\ Uses \subseteq [directions : SUBSET {1, -1}, missable : BOOLEAN,
                     restored : BOOLEAN, lag : Nat]
  /\ Target \in 0..15 /\ None \notin Int
  /\ MaxPresses \in Nat

VARIABLES
  use,        \* the way the headset is used
  level,      \* the device's volume level
  bits,       \* the buttons whose bit is raised
  coming,     \* level changes still to come: [by: direction, lag: reports seen since]
  written,    \* a restoring write is under way
  news,       \* the bits have changed since the last report
  tracker,    \* the interaction tracker
  pressed,    \* presses so far, as steps
  presses,    \* their number
  counted     \* the steps the tracker has reported

vars == <<use, level, bits, coming, written, news, tracker, pressed, presses, counted>>

Report(v, b) == [volume |-> v, up |-> 1 \in b, down |-> -1 \in b]

(* The connection's first report is its baseline. *)
Init ==
  /\ use \in Uses
  /\ level = Target /\ bits = {} /\ coming = <<>>
  /\ written = FALSE /\ news = FALSE
  /\ tracker = Sample(Reset, Report(Target, {})).tracker
  /\ pressed = 0 /\ presses = 0 /\ counted = 0

Press(d) ==
  /\ presses < MaxPresses
  /\ d \notin bits
  /\ use.missable \/ ~news
  /\ bits' = bits \cup {d}
  /\ coming' = Append(coming, [by |-> d, lag |-> 0])
  /\ news' = TRUE
  /\ pressed' = pressed + d
  /\ presses' = presses + 1
  /\ UNCHANGED <<use, level, written, tracker, counted>>

Release(d) ==
  /\ d \in bits
  /\ use.missable \/ ~news
  /\ bits' = bits \ {d}
  /\ news' = TRUE
  /\ UNCHANGED <<use, level, coming, written, tracker, pressed, presses, counted>>

(* The level follows the presses in their order. *)
LevelMoves ==
  /\ coming # <<>>
  /\ level + Head(coming).by \in 0..15
  /\ level' = level + Head(coming).by
  /\ coming' = Tail(coming)
  /\ UNCHANGED <<use, bits, written, news, tracker, pressed, presses, counted>>

Poll ==
  /\ \A i \in DOMAIN coming : coming[i].lag < use.lag
  /\ LET s == Sample(tracker, Report(level, bits))
     IN tracker' = s.tracker /\ counted' = counted + s.steps
  /\ coming' = [i \in DOMAIN coming |-> [coming[i] EXCEPT !.lag = @ + 1]]
  /\ written' = (written \/ (use.restored /\ level # Target))
  /\ news' = FALSE
  /\ UNCHANGED <<use, level, bits, pressed, presses>>

(* The write that convergeDeviceVolume began reaches the device. *)
Restore ==
  /\ written
  /\ level' = Target
  /\ written' = FALSE
  /\ UNCHANGED <<use, bits, coming, news, tracker, pressed, presses, counted>>

Next ==
  \/ \E d \in use.directions : Press(d) \/ Release(d)
  \/ LevelMoves \/ Poll \/ Restore

Spec == Init /\ [][Next]_vars
-----------------------------------------------------------------------------
TypeOK ==
  /\ use \in Uses /\ level \in 0..15
  /\ bits \subseteq use.directions
  /\ coming \in Seq([by : use.directions, lag : 0..use.lag])
  /\ written \in BOOLEAN /\ news \in BOOLEAN
  /\ tracker \in [established : BOOLEAN, volume : 0..15 \cup {None},
                  up : BOOLEAN, down : BOOLEAN,
                  upCredits : 0..MaxPresses, downCredits : 0..MaxPresses,
                  age : 0..CreditSamples]
  /\ pressed \in -MaxPresses..MaxPresses /\ presses \in 0..MaxPresses
  /\ counted \in Int

(* Every press the device has shown in full: nothing to come, and the last  *)
(* report was of the level and the bits as they are.                        *)
Settled ==
  /\ coming = <<>> /\ ~written /\ ~news
  /\ tracker.volume = level
  /\ tracker.up = (1 \in bits) /\ tracker.down = (-1 \in bits)

(* Each press is one step: those whose bit was seen, those whose level was  *)
(* seen, and those of which both were, in whatever reports.  (A restoration *)
(* may hide a press that falls between two reports.)                        *)
PressesCounted == Settled /\ ~use.restored => counted = pressed

(* Only one button is in use, the one of direction d. *)
Only(d) == use.directions = {d}

(* Levels come in time: within the life of a credit; and, where the level   *)
(* is restored, before the second report after their press.                 *)
Timely == use.lag <= (IF use.restored THEN 1 ELSE CreditSamples)

(* Where levels come in time no press counts twice, by its bit and by its   *)
(* level, nor once more for the level that a restoration takes away: with   *)
(* one button in use, the steps never exceed the presses.  (Where one is    *)
(* restored and levels come two reports late, a report may see the return   *)
(* to the target, and drop the credits, before the level of a counted press *)
(* has moved, which then counts again.)                                     *)
NoDoubleCount == \A d \in {1, -1} : Only(d) /\ Timely => counted * d <= pressed * d
=============================================================================

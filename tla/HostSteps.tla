------------------------------ MODULE HostSteps ------------------------------
(***************************************************************************)
(* The host-only volume arithmetic of the audio controller against what    *)
(* specs/v1.1.1.md promises of it: one host step for each button edge,     *)
(* absolute and idempotent targets, edges accumulated while a target is    *)
(* pending, and a fresh read when none is.                                 *)
(*                                                                         *)
(* The module adds a history variable to AudioController: base, the host   *)
(* volume at which zero steps of the current host session stand.  It is    *)
(* counted anew when a session begins, when steps have been settled, and   *)
(* when the user moves the volume.  Once a live action has read the volume *)
(* its target is settled on, and what the user does then does not count.   *)
(* It moves when a limit cuts off steps that are added to such a target.   *)
(***************************************************************************)
EXTENDS AudioController

VARIABLE base

VolumeOf(h, d) == IF d.connected THEN h.volume[d.usb] ELSE 0

(* A live action has read the volume and not yet told the controller. *)
ReadUntold == \E a \in acts : ~a.cancelled /\ At(a, "resolve")

(* Where zero steps stand when the volume is counted from now on. *)
FromNow == VolumeOf(host', current') - settled'

(* Where they stand when the steps received now are added to a target that  *)
(* is pending: what a limit cuts off them is not owed to later ones.        *)
FromTarget ==
  Clamp(Clamp(base + current.steps) + (current'.steps - current.steps))
    - current'.steps

CountedAnew ==
  \/ rev' # rev /\ (~SameHostSession(current, current') \/ ReadUntold)
  \/ settled' # settled
  \/ userActs' # userActs /\ hostTarget = None /\ ~ReadUntold

Rebase ==
  base' = IF CountedAnew THEN FromNow
          ELSE IF rev' # rev /\ hostTarget # None THEN FromTarget
          ELSE base

StepSpec ==
  /\ Init /\ base = 0
  /\ [][Next /\ Rebase]_<<vars, base>>

FairStepSpec == StepSpec /\ Fairness
-----------------------------------------------------------------------------
(* The target of a live action is the session's base plus every step asked  *)
(* for since: a failed or superseded write that took effect is never        *)
(* counted into it again, and no edge is lost, save to a limit, or counted  *)
(* twice.                                                                   *)
TargetExact ==
  \A a \in acts :
    ~a.cancelled /\ a.target # None => a.target = Clamp(base + a.des.steps)

(* When an action for host steps has succeeded, the volume of the headset   *)
(* stands at the base plus those steps, unless the user moved it.           *)
StepsLand ==
  [][ settled' # settled /\ rev' = rev /\ userActs = 0
      => VolumeOf(host, current) = Clamp(base + settled') ]_<<vars, base>>

(* The volume of the host moves by the user's hand, or for steps that were  *)
(* asked for: a reconnect alone moves nothing.  (Where presses only go up,  *)
(* no steps means no press.)                                                *)
ReconnectIsSilent ==
  [][ host'.volume # host.volume /\ userActs' = userActs
      => \E a \in acts : a.des.steps # 0 ]_<<vars, base>>

(* When nothing is under way, the presses of the session have moved the     *)
(* volume as far as they add up to.                                         *)
PressesConserved ==
  Idle /\ rev > 0 /\ userActs = 0
    => VolumeOf(host, current) = Clamp(base + current.steps)
=============================================================================

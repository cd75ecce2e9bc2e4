--------------------------- MODULE AudioController ---------------------------
(***************************************************************************)
(* The audio controller of internal/audio/controller.go: one goroutine     *)
(* that turns each desired audio state into an action, an action goroutine *)
(* per attempt that issues wpctl commands one after another, cancellation  *)
(* of superseded actions, retries, and the host volume arithmetic of the   *)
(* host-only mode.  Around it: the observer that builds the desired states *)
(* (internal/daemon/daemon.go), the channel between the two, the user of   *)
(* the desktop, and the host's audio state that the commands change.       *)
(*                                                                         *)
(* The channel is a slot that a newer desired state overwrites: module     *)
(* SendLatest shows that sendLatest implements that.  Volumes are in units *)
(* of 1/15, the width of one button step.                                  *)
(***************************************************************************)
EXTENDS Integers

CONSTANTS
  Adapters,         \* USB identities of the adapters that may be selected
  None,             \* nil, an invalid optional, an empty channel
  Fallback,         \* the configured fallback sink and source
  Foreign,          \* a sink the user picked that is none of the above
  SourceRouting,    \* a fallback source is configured
  ControlsEnabled,  \* controls.enabled
  HostOnly,         \* controls.volume_mode is host-only, not synchronized
  Levels,           \* device volume levels a report may carry
  Mutes,            \* microphone states a report may carry
  Deltas,           \* host steps one sample may add
  MaxVolume,        \* full scale of the host volume
  StartVolume,      \* host volume before the daemon starts
  UserVolumes,      \* volumes the user may choose
  KillIsPrompt,     \* a cancelled command has no effect from then on
  Ends,             \* the daemon's context may be cancelled
  MaxSends,         \* bound: desired states the observer sends
  MaxAttempts,      \* bound: attempts of an action; the last only a kill fails
  MaxUserActs       \* bound: changes the user makes

ASSUME NoneAssumption ==
  None \notin Int \cup BOOLEAN \cup Adapters \cup {Fallback, Foreign}

ASSUME TargetAssumption == {Fallback, Foreign} \cap Adapters = {}

ASSUME ModeAssumption ==
  {SourceRouting, ControlsEnabled, HostOnly, KillIsPrompt, Ends} \subseteq BOOLEAN

ASSUME ValueAssumption ==
  /\ MaxVolume \in Nat
  /\ StartVolume \in 0..MaxVolume
  /\ Levels \subseteq 0..MaxVolume
  /\ UserVolumes \subseteq 0..MaxVolume
  /\ Mutes \subseteq BOOLEAN
  /\ Deltas \subseteq Int

ASSUME BoundAssumption ==
  MaxSends \in Nat /\ MaxAttempts \in Nat \ {0} /\ MaxUserActs \in Nat

Kinds == {"route", "volume", "mute", "hostVolume"}
Commands == {"sink", "source", "volume", "mute", "read", "write"}
Calls == Commands \cup {"resolve"}

Desired == [connected : BOOLEAN,
            usb       : Adapters \cup {None},
            steps     : Int,
            volume    : Levels \cup {None},
            muted     : Mutes \cup {None}]

(* The observer's desired state before the first connection report, and the *)
(* controller's before the first receive.                                   *)
Zero == [connected |-> FALSE, usb |-> None, steps |-> 0,
         volume |-> None, muted |-> None]

VARIABLES
  obs,         \* observer.desired
  chan,        \* desiredStates: the waiting desired state, or None
  sends,       \* number of desired states sent
  rev,         \* controller: revision
  current,     \* controller: current
  applied,     \* controller: applied, None while nil
  plan,        \* controller: plan, the set of the kinds that are true
  attempt,     \* controller: attempt
  canceler,    \* controller: {id of the action actionCancel cancels}, or {}
  retrying,    \* controller: the retry timer runs
  settled,     \* controller: settledHostSteps
  lastSteps,   \* controller: lastHostSteps
  hostTarget,  \* controller: hostTarget, None while nil
  acts,        \* the action goroutines
  results,     \* the channel results, of capacity one: its content or None
  host,        \* the host's defaults and the state of the adapters' nodes
  userActs,    \* number of changes the user made
  ctxDone,     \* the daemon's context is cancelled
  stopped      \* Run of the controller has returned

envVars  == <<obs, sends>>
ctlVars  == <<rev, current, applied, plan, attempt, canceler, retrying,
              settled, lastSteps, hostTarget, stopped>>
vars     == <<envVars, chan, ctlVars, acts, results, host, userActs, ctxDone>>

Init ==
  /\ obs = Zero /\ chan = None /\ sends = 0
  /\ rev = 0 /\ current = Zero /\ applied = None /\ plan = {} /\ attempt = 0
  /\ canceler = {} /\ retrying = FALSE
  /\ settled = 0 /\ lastSteps = 0 /\ hostTarget = None
  /\ acts = {} /\ results = None
  /\ host = [sink |-> Foreign, source |-> Foreign,
             volume |-> [u \in Adapters |-> StartVolume],
             muted  |-> [u \in Adapters |-> FALSE]]
  /\ userActs = 0 /\ ctxDone = FALSE /\ stopped = FALSE
-----------------------------------------------------------------------------
(* The observer, called from the polling goroutine. *)

Send(d) ==
  /\ sends < MaxSends
  /\ sends' = sends + 1
  /\ obs' = d
  /\ chan' = d
  /\ UNCHANGED <<ctlVars, acts, results, host, userActs, ctxDone>>

(* A connection report starts a new desired state: no volume, no microphone *)
(* state, no host steps.  The USB identity of a disconnected state is never *)
(* looked at.                                                               *)
ConnectHeadset(u) ==
  /\ ~obs.connected
  /\ Send([Zero EXCEPT !.connected = TRUE, !.usb = u])

DisconnectHeadset == Send(Zero)

(* An interaction of the connected headset: new control values v and m and  *)
(* d more host steps.  The first sample after a connection has no steps.    *)
Interact(v, m, d) ==
  /\ obs.connected
  /\ ControlsEnabled
  /\ d # 0 => obs.muted # None
  /\ Send([obs EXCEPT !.volume = v, !.muted = m,
                      !.steps = IF HostOnly THEN @ + d ELSE @])
-----------------------------------------------------------------------------
(* What the controller computes. *)

(* Variant: full scale is not a limit. *)
ClampBelow(v) == IF v < 0 THEN 0 ELSE v

Clamp(v) == IF v < 0 THEN 0 ELSE IF v > MaxVolume THEN MaxVolume ELSE v

SameHostSession(c, d) ==
  c.connected /\ d.connected /\ ControlsEnabled /\ HostOnly /\ c.usb = d.usb

(* Variant, for checking that UserChoiceKept can fail: routes again whenever *)
(* a headset is connected.                                                  *)
RouteAlways(d, a) == a = None \/ d.connected \/ a.connected

RouteNeeded(d, a) ==
  \/ a = None
  \/ d.connected # a.connected
  \/ d.connected /\ d.usb # a.usb

(* Neither the same adapter nor a headset connected when last applied. *)
NewSession(d, a) == a = None \/ ~a.connected \/ d.usb # a.usb

VolumeNeeded(d, a) ==
  /\ ControlsEnabled /\ ~HostOnly /\ d.connected /\ d.volume # None
  /\ NewSession(d, a) \/ d.volume # a.volume

MuteNeeded(d, a) ==
  /\ SourceRouting /\ ControlsEnabled /\ d.connected /\ d.muted # None
  /\ NewSession(d, a) \/ d.muted # a.muted

HostVolumeNeeded(d, s) ==
  ControlsEnabled /\ HostOnly /\ d.connected /\ d.steps # s

Plan(d, a, s) ==
  {k \in Kinds : \/ k = "route" /\ RouteNeeded(d, a)
                 \/ k = "volume" /\ VolumeNeeded(d, a)
                 \/ k = "mute" /\ MuteNeeded(d, a)
                 \/ k = "hostVolume" /\ HostVolumeNeeded(d, s)}

(* Variants: no mute after a volume; a read before every write.             *)
CallsVolumeElseMute(p, target) ==
  {c \in Calls :
     \/ c = "sink" /\ "route" \in p
     \/ c = "source" /\ "route" \in p /\ SourceRouting
     \/ c = "volume" /\ c \in p
     \/ c = "mute" /\ c \in p /\ "volume" \notin p}

CallsReadAlways(p, target) ==
  {c \in Calls :
     \/ c = "sink" /\ "route" \in p
     \/ c \in {"read", "resolve", "write"} /\ "hostVolume" \in p}

(* The calls apply makes for plan p.  It makes them in the order of Rank, so *)
(* that the set of the calls still to make says where a goroutine is.       *)
CallsOf(p, target) ==
  {c \in Calls :
     \/ c = "sink" /\ "route" \in p
     \/ c = "source" /\ "route" \in p /\ SourceRouting
     \/ c \in {"volume", "mute"} /\ c \in p
     \/ c \in {"read", "resolve"} /\ "hostVolume" \in p /\ target = None
     \/ c = "write" /\ "hostVolume" \in p}

Rank == [sink |-> 1, source |-> 2, volume |-> 3, mute |-> 4,
         read |-> 5, resolve |-> 6, write |-> 7]

At(a, c) == ~a.err /\ c \in a.todo /\ \A x \in a.todo : Rank[c] <= Rank[x]

(* The goroutine startAction starts.  Under a cancelled context its first   *)
(* command fails before it begins.                                          *)
Action(r, n, d, p, target, s) ==
  [rev |-> r, att |-> n, des |-> d, target |-> target, settled |-> s,
   todo |-> CallsOf(p, target), cancelled |-> ctxDone, err |-> ctxDone]

Id(a) == <<a.rev, a.att>>

(* Variant: the cancel function is not called. *)
CancelNothing(as, c) == as

(* actionCancel(): the action whose id is in c is cancelled. *)
Cancel(as, c) == {[a EXCEPT !.cancelled = @ \/ Id(a) \in c] : a \in as}
(* Variant: the cancel function is not kept. *)
StartUncancelable(as, r, n, d, p, target, s) ==
  /\ canceler' = {}
  /\ acts' = as \cup {Action(r, n, d, p, target, s)}

(* startAction, with the action goroutines as beside the new one. *)
StartAction(as, r, n, d, p, target, s) ==
  /\ canceler' = {<<r, n>>}
  /\ acts' = as \cup {Action(r, n, d, p, target, s)}
-----------------------------------------------------------------------------
(* The controller's goroutine: one action per case of its select. *)

Receive ==
  /\ ~stopped
  /\ chan # None
  /\ LET same == SameHostSession(current, chan)
         target == IF same /\ hostTarget # None
                   THEN Clamp(hostTarget + (chan.steps - lastSteps))
                   ELSE None
         set == IF same THEN settled ELSE 0
         p == Plan(chan, applied, set)
         others == Cancel(acts, canceler)
     IN /\ hostTarget' = target
        /\ settled' = set
        /\ plan' = p
        /\ \/ /\ p = {}
              /\ applied' = chan
              /\ canceler' = {}
              /\ acts' = others
              /\ UNCHANGED attempt
           \/ /\ p # {}
              /\ attempt' = 1
              /\ StartAction(others, rev + 1, 1, chan, p, target, set)
              /\ UNCHANGED applied
  /\ rev' = rev + 1
  /\ current' = chan
  /\ lastSteps' = chan.steps
  /\ retrying' = FALSE
  /\ chan' = None
  /\ UNCHANGED <<envVars, stopped, results, host, userActs, ctxDone>>

(* A result of a superseded revision is dropped. *)
DropResult ==
  /\ ~stopped
  /\ results # None
  /\ results.rev # rev
  /\ results' = None
  /\ UNCHANGED <<envVars, chan, ctlVars, acts, host, userActs, ctxDone>>

HandleResult ==
  /\ ~stopped
  /\ results # None
  /\ results.rev = rev
  /\ \/ /\ ~results.err
        /\ applied' = results.des
        /\ IF "hostVolume" \in plan
           THEN settled' = results.des.steps /\ hostTarget' = None
           ELSE UNCHANGED <<settled, hostTarget>>
        /\ UNCHANGED retrying
     \/ /\ results.err
        /\ retrying' = TRUE
        /\ UNCHANGED <<applied, settled, hostTarget>>
  /\ acts' = Cancel(acts, canceler)
  /\ canceler' = {}
  /\ results' = None
  /\ UNCHANGED <<envVars, chan, rev, current, plan, attempt, lastSteps,
                 stopped, host, userActs, ctxDone>>

RetryFires ==
  /\ ~stopped
  /\ retrying
  /\ attempt < MaxAttempts
  /\ retrying' = FALSE
  /\ attempt' = attempt + 1
  /\ StartAction(acts, rev, attempt + 1, current, plan, hostTarget, settled)
  /\ UNCHANGED <<envVars, chan, rev, current, applied, plan, settled,
                 lastSteps, hostTarget, stopped, results, host, userActs,
                 ctxDone>>

Stop ==
  /\ ~stopped
  /\ ctxDone
  /\ stopped' = TRUE
  /\ acts' = Cancel(acts, canceler)
  /\ canceler' = {}
  /\ retrying' = FALSE
  /\ UNCHANGED <<envVars, chan, rev, current, applied, plan, attempt, settled,
                 lastSteps, hostTarget, results, host, userActs, ctxDone>>
-----------------------------------------------------------------------------
(* The action goroutines. *)

SinkOf(d)   == IF d.connected THEN d.usb ELSE Fallback
SourceOf(d) == IF d.connected THEN d.usb ELSE Fallback

(* The host h after the effect of command c of action a. *)
Effect(h, c, a) ==
  CASE c = "sink"   -> [h EXCEPT !.sink = SinkOf(a.des)]
    [] c = "source" -> [h EXCEPT !.source = SourceOf(a.des)]
    [] c = "volume" -> [h EXCEPT !.volume[a.des.usb] = a.des.volume]
    [] c = "mute"   -> [h EXCEPT !.muted[a.des.usb] = a.des.muted]
    [] c = "write"  -> [h EXCEPT !.volume[a.des.usb] = a.target]
    [] OTHER        -> h

(* Variant: the steps already settled are counted again. *)
TargetResettled(c, a) ==
  IF c = "read" THEN Clamp(host.volume[a.des.usb] + a.des.steps) ELSE a.target

(* The target the action knows after command c: a read derives it. *)
TargetAfter(c, a) ==
  IF c = "read"
  THEN Clamp(host.volume[a.des.usb] + (a.des.steps - a.settled))
  ELSE a.target

Replace(a, b) == acts' = (acts \ {a}) \cup {b}

(* Command c of a live action runs to its end. *)
Perform(a, c) ==
  /\ At(a, c)
  /\ ~a.cancelled
  /\ host' = Effect(host, c, a)
  /\ Replace(a, [a EXCEPT !.todo = @ \ {c}, !.target = TargetAfter(c, a)])
  /\ UNCHANGED <<envVars, chan, ctlVars, results, userActs, ctxDone>>

(* A command fails, times out or is killed.  It may have taken effect; one  *)
(* killed by a cancellation still may, unless a kill is prompt.             *)
Fail(a, c) ==
  /\ At(a, c)
  /\ a.cancelled \/ a.att < MaxAttempts
  /\ \/ UNCHANGED host
     \/ /\ ~(a.cancelled /\ KillIsPrompt)
        /\ host' = Effect(host, c, a)
  /\ Replace(a, [a EXCEPT !.err = TRUE])
  /\ UNCHANGED <<envVars, chan, ctlVars, results, userActs, ctxDone>>

(* The unbuffered send on hostResolutions meets the controller's select. *)
Resolve(a) ==
  /\ ~stopped
  /\ At(a, "resolve")
  /\ hostTarget' = IF a.rev = rev THEN a.target ELSE hostTarget
  /\ Replace(a, [a EXCEPT !.todo = @ \ {"resolve"}])
  /\ UNCHANGED <<envVars, chan, rev, current, applied, plan, attempt, canceler,
                 retrying, settled, lastSteps, stopped, results, host,
                 userActs, ctxDone>>

(* Variant: nothing but the controller ends the send. *)
AbandonNever(a) == FALSE

(* Or the cancellation does. *)
AbandonResolve(a) ==
  /\ At(a, "resolve")
  /\ a.cancelled
  /\ Replace(a, [a EXCEPT !.err = TRUE])
  /\ UNCHANGED <<envVars, chan, ctlVars, results, host, userActs, ctxDone>>

Finished(a) == a.err \/ a.todo = {}

(* Variant: a failed action says nothing. *)
ReportSuccess(a) ==
  /\ a.todo = {} /\ ~a.err
  /\ results = None
  /\ results' = [rev |-> a.rev, des |-> a.des, err |-> FALSE]
  /\ acts' = acts \ {a}
  /\ UNCHANGED <<envVars, chan, ctlVars, host, userActs, ctxDone>>

Report(a) ==
  /\ Finished(a)
  /\ results = None
  /\ results' = [rev |-> a.rev, des |-> a.des, err |-> a.err]
  /\ acts' = acts \ {a}
  /\ UNCHANGED <<envVars, chan, ctlVars, host, userActs, ctxDone>>

(* A cancelled action may leave without reporting. *)
Leave(a) ==
  /\ Finished(a)
  /\ a.cancelled
  /\ acts' = acts \ {a}
  /\ UNCHANGED <<envVars, chan, ctlVars, results, host, userActs, ctxDone>>
-----------------------------------------------------------------------------
(* The user, and the end of the daemon. *)

UserPicksSink ==
  /\ userActs < MaxUserActs
  /\ userActs' = userActs + 1
  /\ host.sink # Foreign
  /\ host' = [host EXCEPT !.sink = Foreign]
  /\ UNCHANGED <<envVars, chan, ctlVars, acts, results, ctxDone>>

(* Only the host-only mode ever reads a volume. *)
UserSetsVolume(u, v) ==
  /\ HostOnly
  /\ userActs < MaxUserActs
  /\ userActs' = userActs + 1
  /\ host.volume[u] # v
  /\ host' = [host EXCEPT !.volume[u] = v]
  /\ UNCHANGED <<envVars, chan, ctlVars, acts, results, ctxDone>>

(* The daemon's context is cancelled, and every action's context with it. *)
CancelContext ==
  /\ Ends
  /\ ~ctxDone
  /\ ctxDone' = TRUE
  /\ acts' = {[a EXCEPT !.cancelled = TRUE] : a \in acts}
  /\ UNCHANGED <<envVars, chan, ctlVars, results, host, userActs>>
-----------------------------------------------------------------------------
Environment ==
  \/ \E u \in Adapters : ConnectHeadset(u)
  \/ DisconnectHeadset
  \/ \E v \in Levels \cup {None}, m \in Mutes, d \in Deltas : Interact(v, m, d)
  \/ UserPicksSink
  \/ \E u \in Adapters, v \in UserVolumes : UserSetsVolume(u, v)
  \/ CancelContext

Controller == Receive \/ DropResult \/ HandleResult \/ RetryFires \/ Stop

ActionStep(a) ==
  \/ \E c \in Commands : Perform(a, c) \/ Fail(a, c)
  \/ Resolve(a) \/ AbandonResolve(a)
  \/ Report(a) \/ Leave(a)

Next == Environment \/ Controller \/ (\E a \in acts : ActionStep(a))

Spec == Init /\ [][Next]_vars

(* The controller returns to its select and takes what is ready, a timer    *)
(* fires, and an action goroutine keeps running.  Nothing is assumed of the *)
(* headset, the user or the end of the daemon.                              *)
Fairness ==
  /\ WF_vars(Receive) /\ WF_vars(DropResult \/ HandleResult)
  /\ WF_vars(RetryFires) /\ WF_vars(Stop)
  /\ WF_vars(\E a \in acts : ActionStep(a))

FairSpec == Spec /\ Fairness
-----------------------------------------------------------------------------
Actions == [rev : Nat, att : Nat, des : Desired, target : 0..MaxVolume \cup {None},
            settled : Int, todo : SUBSET Calls, cancelled : BOOLEAN, err : BOOLEAN]

TypeOK ==
  /\ obs \in Desired /\ chan \in Desired \cup {None} /\ sends \in 0..MaxSends
  /\ rev \in Nat /\ current \in Desired /\ applied \in Desired \cup {None}
  /\ plan \subseteq Kinds /\ attempt \in Nat
  /\ canceler \subseteq Nat \X Nat
  /\ retrying \in BOOLEAN
  /\ settled \in Int /\ lastSteps \in Int
  /\ hostTarget \in 0..MaxVolume \cup {None}
  /\ acts \subseteq Actions
  /\ results \in [rev : Nat, des : Desired, err : BOOLEAN] \cup {None}
  /\ host \in [sink   : Adapters \cup {Fallback, Foreign},
               source : Adapters \cup {Fallback, Foreign},
               volume : [Adapters -> 0..MaxVolume],
               muted  : [Adapters -> BOOLEAN]]
  /\ userActs \in 0..MaxUserActs
  /\ ctxDone \in BOOLEAN /\ stopped \in BOOLEAN

Idle == canceler = {} /\ ~retrying

(* At most one action runs that has not been cancelled, and it is the one   *)
(* whose cancel function the controller holds: no attempt of a superseded   *)
(* desired state keeps running unnoticed, and none is started twice.        *)
OneLiveAction ==
  /\ \A a \in acts : ~a.cancelled => canceler = {Id(a)}
  /\ \A a, b \in acts : ~a.cancelled /\ ~b.cancelled => a = b

(* Run calls actionCancel when it takes the result of the current revision: *)
(* the function is not nil then (the call would panic).                     *)
NoNilCancel ==
  ~stopped /\ results # None /\ results.rev = rev => canceler # {}

(* Whether the host agrees with the current desired state.  A sink the user *)
(* picked afterwards is left alone.                                         *)
Holds(k) ==
  CASE k = "route"  -> /\ host.sink \in {SinkOf(current), Foreign}
                       /\ SourceRouting => host.source = SourceOf(current)
    [] k = "volume" -> host.volume[current.usb] = current.volume
    [] k = "mute"   -> host.muted[current.usb] = current.muted
    [] OTHER        -> TRUE

(* When the last action of the current desired state has succeeded, the     *)
(* host is as that action planned it: no older action, failed attempt or    *)
(* late command has undone a part of it.                                    *)
DoneMeansDone == Idle /\ ~ctxDone => \A k \in plan : Holds(k)

(* A sink the user picked after a transition was handled is left alone      *)
(* until the next transition: neither volume, microphone or button          *)
(* interactions, nor retries, nor superseded actions take it away.          *)
UserChoiceKept ==
  [][ host.sink = Foreign /\ host'.sink # Foreign /\ applied # None
      => \/ applied.connected # current.connected
         \/ applied.usb # current.usb ]_vars

(* When nothing is under way or waiting, the sink is that of the headset    *)
(* while it is connected and the fallback while it is not, or the user's.   *)
OutputFollowsHeadset == Idle /\ chan = None /\ rev > 0 => Holds("route")

(* When the headset goes quiet, the newest desired state is the one applied *)
(* and nothing is left pending, unless the daemon ends.                     *)
Quiescent ==
  /\ chan = None /\ results = None /\ acts = {}
  /\ Idle /\ (sends > 0 => applied = obs)

Converges == <>[](Quiescent \/ ctxDone)

(* After the daemon's context is cancelled the controller returns and every *)
(* action goroutine ends, those waiting to deliver a result or a resolution *)
(* included.                                                                *)
NothingLeaks == ctxDone ~> (stopped /\ acts = {})
=============================================================================

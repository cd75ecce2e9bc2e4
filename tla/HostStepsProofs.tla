---------------------------- MODULE HostStepsProofs ----------------------------
(***************************************************************************)
(* Theorems about HostSteps, for every value of its constants in which a   *)
(* kill is prompt: the targets of the host-only mode are exact, and the    *)
(* steps of a write that has succeeded have landed.                        *)
(***************************************************************************)
EXTENDS HostSteps, AudioControllerProofs

(* The volume the steps asked for so far come to. *)
Counted == Clamp(base + current.steps)

(* What the current revision's action knows of the target: the controller   *)
(* knows it too, unless the action has not told it yet.                     *)
TargetKnown(a) ==
  /\ a.target # None /\ ~ctxDone => a.target = Counted
  /\ "read" \in a.todo => a.target = None /\ "resolve" \in a.todo
  /\ "resolve" \in a.todo => hostTarget = None
  /\ "resolve" \notin a.todo => hostTarget = a.target
  /\ "resolve" \in a.todo /\ "read" \notin a.todo => a.todo \subseteq {"resolve", "write"}

(* An action that failed with a target, and has not been cancelled since,   *)
(* had told the controller.                                                 *)
Told(a) == a.err /\ ~a.cancelled /\ a.target # None => hostTarget = a.target

(* No target is pending: the next one is counted from the host's volume.    *)
Unread ==
  ~ctxDone /\ HostOnly /\ current.connected /\ hostTarget = None /\ ~ReadUntold

Written == userActs = 0 /\ "hostVolume" \in plan => VolumeOf(host, current) = Counted

StepInv ==
  /\ base \in Int
  /\ hostTarget # None => current.connected /\ (~ctxDone => hostTarget = Counted)
  /\ \A a \in acts : a.rev = rev /\ ~a.err =>
       TargetKnown(a) /\ ("write" \notin a.todo => Written)
  /\ \A a \in acts : Told(a)
  /\ Unread => base = host.volume[current.usb] - settled
  /\ results # None /\ results.rev = rev /\ ~results.err => Written
-----------------------------------------------------------------------------
(* The history variable only records: StepSpec allows no more than Spec.    *)
LEMMA StepsAreSteps == StepSpec => Spec
<1>1. [Next /\ Rebase]_<<vars, base>> => [Next]_vars
  OBVIOUS
<1> QED
  BY <1>1, PTL DEF StepSpec, Spec

LEMMA StepInit == ASSUME Init, base = 0 PROVE StepInv
  BY DEF Init, Zero, StepInv, Unread

LEMMA ClampTwice == ASSUME NEW v \in Int PROVE Clamp(Clamp(v)) = Clamp(v)
  BY ValueAssumption DEF Clamp

(* The type of the history variable. *)
LEMMA BaseType ==
  ASSUME Base, base \in Int, [Next /\ Rebase]_<<vars, base>>, Base'
  PROVE  base' \in Int
<1>1. ASSUME NEW d \in Desired, NEW h, Named(d), h.volume \in [Adapters -> 0..MaxVolume]
      PROVE  VolumeOf(h, d) \in Int
  BY <1>1, ValueAssumption DEF VolumeOf, Named
<1>2. /\ current \in Desired /\ current' \in Desired /\ Named(current')
      /\ settled' \in Int /\ host'.volume \in [Adapters -> 0..MaxVolume]
  BY DEF Base, Typed, TypeOK, Fits
<1>3. FromNow \in Int
  <2>1. VolumeOf(host', current') \in Int
    BY <1>1, <1>2
  <2> QED
    BY <1>2, <2>1 DEF FromNow
<1>4. FromTarget \in Int
  <2>1. current.steps \in Int /\ current'.steps \in Int
    BY <1>2 DEF Desired
  <2>2. Clamp(base + current.steps) \in Int
    BY <2>1, ClampType, ValueAssumption
  <2>3. Clamp(Clamp(base + current.steps) + (current'.steps - current.steps)) \in Int
    BY <2>1, <2>2, ClampType, ValueAssumption
  <2> QED
    BY <2>1, <2>3 DEF FromTarget
<1> QED
  BY <1>3, <1>4 DEF Rebase
-----------------------------------------------------------------------------
LEMMA BaseStays ==
  ASSUME Rebase, rev' = rev, settled' = settled, userActs' = userActs
  PROVE  base' = base
  BY DEF Rebase, CountedAnew

(* What these depend on stays as it is.                                     *)
LEMMA KnownStays ==
  ASSUME UNCHANGED <<base, current, hostTarget, plan, ctxDone, userActs>>
  PROVE  /\ \A x : TargetKnown(x) => TargetKnown(x)'
         /\ host'.volume = host.volume => (Written => Written')
         /\ Counted' = Counted
  BY DEF TargetKnown, Written, Counted, VolumeOf

LEMMA AlikeKnown ==
  ASSUME NEW x, NEW a, Alike(x, a), TargetKnown(a)
  PROVE  TargetKnown(x)
  BY DEF Alike, TargetKnown

(* An action that has read and not told is the only one, and the controller *)
(* knows no target.                                                         *)
LEMMA UntoldIsCurrent ==
  ASSUME Base, StepInv, ReadUntold
  PROVE  hostTarget = None /\ \E a \in acts : a.rev = rev
<1>1. PICK a \in acts : ~a.cancelled /\ At(a, "resolve")
  BY DEF ReadUntold
<1>2. a.rev = rev
  BY <1>1, LiveIsCurrent DEF Base
<1> QED
  BY <1>1, <1>2 DEF StepInv, TargetKnown, At

(* With a target the current revision's action knows and the controller     *)
(* does not, the action is about to tell it.                                *)
LEMMA KnownIsTold ==
  ASSUME Base, StepInv, NEW a \in acts, a.rev = rev, ~a.err, ~ctxDone,
         a.target # None, hostTarget = None
  PROVE  ReadUntold
<1>1. TargetKnown(a) /\ ~a.cancelled
  BY DEF StepInv, Base, CurrentInv, ForCurrent
<1>2. "resolve" \in a.todo /\ a.todo \subseteq {"resolve", "write"}
  BY <1>1 DEF TargetKnown
<1>3. At(a, "resolve")
  BY <1>2 DEF At, Rank
<1> QED
  BY <1>1, <1>3 DEF ReadUntold

LEMMA UserSteps ==
  ASSUME Base, StepInv, Rebase, base' \in Int,
         userActs' = userActs + 1,
         UNCHANGED <<envVars, chan, ctlVars, acts, results, ctxDone>>
  PROVE  StepInv'
<1>2. userActs \in Nat /\ userActs' # 0 /\ userActs' # userActs
  BY DEF Base, Typed, TypeOK
<1>3. Written'
  BY <1>2 DEF Written
<1>4. UNCHANGED <<rev, current, plan, settled, hostTarget>>
  BY DEF ctlVars
<1>5. ReadUntold' <=> ReadUntold
  BY DEF ReadUntold
<1>6. CASE hostTarget = None /\ ~ReadUntold
  <2>1. base' = FromNow
    BY <1>2, <1>6 DEF Rebase, CountedAnew
  <2>2. \A a \in acts : a.rev = rev /\ ~a.err => TargetKnown(a)'
    BY <1>4, <1>6, KnownIsTold DEF StepInv, TargetKnown
  <2>3. Unread' => base' = host'.volume[current.usb] - settled
    BY <1>4, <2>1 DEF Unread, FromNow, VolumeOf
  <2> QED
    BY <1>3, <1>4, <1>6, <2>2, <2>3 DEF StepInv, Told
<1>7. CASE ~(hostTarget = None /\ ~ReadUntold)
  <2>1. base' = base
    BY <1>4, <1>7 DEF Rebase, CountedAnew
  <2>2. Counted' = Counted
    BY <1>4, <2>1 DEF Counted
  <2>3. \A a \in acts : a.rev = rev /\ ~a.err => TargetKnown(a)'
    BY <1>4, <2>2 DEF StepInv, TargetKnown
  <2>4. ~Unread'
    BY <1>4, <1>5, <1>7 DEF Unread
  <2> QED
    BY <1>3, <1>4, <2>2, <2>3, <2>4 DEF StepInv, Told
<1> QED
  BY <1>6, <1>7

LEMMA EnvironmentSteps ==
  ASSUME Base, StepInv, Rebase, base' \in Int, Environment
  PROVE  StepInv'
<1>1. CASE UserPicksSink
  BY <1>1, UserSteps DEF UserPicksSink
<1>2. ASSUME NEW u \in Adapters, NEW v \in UserVolumes, UserSetsVolume(u, v)
      PROVE  StepInv'
  BY <1>2, UserSteps DEF UserSetsVolume
<1>3. CASE CancelContext
  <2>1. /\ UNCHANGED <<rev, current, plan, settled, hostTarget, results, host, userActs>>
        /\ ctxDone'
    BY <1>3 DEF CancelContext, ctlVars
  <2>2. base' = base
    BY <2>1, BaseStays
  <2>3. Written => Written'
    BY <2>1, <2>2 DEF Written, Counted, VolumeOf
  <2>4. ASSUME NEW x \in acts', x.rev = rev, ~x.err
        PROVE  TargetKnown(x)' /\ ("write" \notin x.todo => Written)
    <3>1. PICK a \in acts : Alike(x, a)
      BY <1>3, CancelContextKeeps DEF Base
    <3>2. TargetKnown(x) /\ ("write" \notin x.todo => Written)
      BY <2>4, <3>1, AlikeKnown DEF Alike, StepInv
    <3> QED
      BY <2>1, <3>2 DEF TargetKnown
  <2>5. \A x \in acts' : x.cancelled
    BY <1>3, CancelContextKeeps DEF Base
  <2> QED
    BY <2>1, <2>3, <2>4, <2>5 DEF StepInv, Unread, Told
<1>4. ASSUME NEW d, Send(d) PROVE StepInv'
  <2>1. UNCHANGED <<rev, current, plan, settled, hostTarget, results, acts, host,
                    userActs, ctxDone>>
    BY <1>4 DEF Send, ctlVars
  <2>2. base' = base
    BY <2>1, BaseStays
  <2>3. /\ \A x : TargetKnown(x) => TargetKnown(x)'
        /\ Written => Written'
        /\ Counted' = Counted
    BY <2>1, <2>2, KnownStays
  <2>4. Unread' => Unread
    BY <2>1 DEF Unread, ReadUntold
  <2> QED
    BY <2>1, <2>2, <2>3, <2>4 DEF StepInv, Told
<1> QED
  BY <1>1, <1>2, <1>3, <1>4
  DEF Environment, ConnectHeadset, DisconnectHeadset, Interact
-----------------------------------------------------------------------------
(* A target that is pending is clamped with every receive, and so is base.  *)
LEMMA ReceiveTarget ==
  ASSUME Base, StepInv, Rebase, Receive, hostTarget' # None
  PROVE  current'.connected /\ (~ctxDone => hostTarget' = Counted')
<1>1. /\ SameHostSession(current, chan) /\ hostTarget # None
      /\ hostTarget' = Clamp(hostTarget + (chan.steps - lastSteps))
      /\ settled' = settled
  BY DEF Receive
<1>2. current' = chan /\ rev' # rev /\ userActs' = userActs /\ lastSteps = current.steps
  BY DEF Receive, Base, Typed, TypeOK, CurrentInv
<1>3. ~ReadUntold
  BY <1>1, UntoldIsCurrent
<1>4. base' = FromTarget
  BY <1>1, <1>2, <1>3 DEF Rebase, CountedAnew
<1>5. current'.connected
  BY <1>1, <1>2 DEF SameHostSession
<1>6. ASSUME ~ctxDone PROVE hostTarget' = Counted'
  <2> DEFINE x == Counted + (chan.steps - current.steps)
  <2>1. current.steps \in Int /\ chan.steps \in Int /\ base \in Int
    BY DEF Base, Typed, TypeOK, Desired, StepInv, Receive
  <2>2. Counted \in Int
    BY <2>1, ClampType, ValueAssumption DEF Counted
  <2>3. x \in Int
    BY <2>1, <2>2
  <2>4. hostTarget = Counted
    BY <1>1, <1>6 DEF StepInv
  <2>5. hostTarget' = Clamp(x)
    BY <1>1, <1>2, <2>4
  <2>6. base' = Clamp(x) - chan.steps
    BY <1>2, <1>4 DEF FromTarget, Counted
  <2> HIDE DEF x
  <2>7. Clamp(x) \in Int
    BY <2>3, ClampType, ValueAssumption
  <2>8. base' + chan.steps = Clamp(x)
    BY <2>1, <2>6, <2>7
  <2>9. Counted' = Clamp(Clamp(x))
    BY <1>2, <2>8 DEF Counted
  <2> QED
    BY <2>3, <2>5, <2>9, ClampTwice
<1> QED
  BY <1>5, <1>6

LEMMA ReceiveSteps ==
  ASSUME Base, StepInv, Rebase, base' \in Int, Receive
  PROVE  StepInv'
<1>0. Typed /\ ControlInv /\ CurrentInv
  BY DEF Base
<1>1. PICK p :
        /\ plan' = p
        /\ \/ acts' = Cancel(acts, canceler)
           \/ acts' = Cancel(acts, canceler)
                        \cup {Action(rev + 1, 1, chan, p, hostTarget', settled')}
  BY DEF Receive, StartAction
<1>2. /\ rev' = rev + 1 /\ rev' # rev /\ current' = chan
      /\ UNCHANGED <<results, host, userActs, ctxDone>>
  BY <1>0 DEF Receive, Typed, TypeOK
<1>3. results # None => results.rev # rev'
  BY <1>0, <1>2 DEF Typed, TypeOK, ControlInv
<1>4. hostTarget' # None => current'.connected /\ (~ctxDone' => hostTarget' = Counted')
  BY <1>2, ReceiveTarget
<1>5. ASSUME NEW x \in acts', x.rev = rev', ~x.err
      PROVE  TargetKnown(x)' /\ ("write" \notin x.todo => Written')
  <2>1. x = Action(rev + 1, 1, chan, p, hostTarget', settled')
    BY <1>0, <1>1, <1>2, <1>5, CancelRevisions
  <2>2. x.target = hostTarget' /\ x.todo = CallsOf(p, hostTarget')
    BY <2>1, ActionCurrent
  <2>3. TargetKnown(x)'
    BY <1>4, <2>2 DEF TargetKnown, CallsOf, Calls, Commands
  <2>4. "write" \notin x.todo => Written'
    BY <1>1, <2>2 DEF Written, CallsOf, Calls, Commands
  <2> QED
    BY <2>3, <2>4
<1>6. ASSUME Unread' PROVE base' = host'.volume[current'.usb] - settled'
  <2>1. ~ctxDone /\ HostOnly /\ current'.connected /\ hostTarget' = None
    BY <1>2, <1>6 DEF Unread
  <2>2. CASE ~SameHostSession(current, current') \/ ReadUntold
    BY <1>2, <2>1, <2>2 DEF Rebase, CountedAnew, FromNow, VolumeOf
  <2>3. CASE SameHostSession(current, current') /\ ~ReadUntold
    <3>1. hostTarget = None /\ settled' = settled
      <4>1. /\ settled' = settled
            /\ hostTarget # None
                 => hostTarget' = Clamp(hostTarget + (chan.steps - lastSteps))
        BY <1>2, <2>3 DEF Receive
      <4>2. hostTarget # None => hostTarget + (chan.steps - lastSteps) \in Int
        BY <1>0 DEF Typed, TypeOK, Receive, Desired
      <4>3. hostTarget # None => hostTarget' \in 0..MaxVolume
        BY <4>1, <4>2, ClampType
      <4>4. None \notin 0..MaxVolume
        BY NoneAssumption
      <4> QED
        BY <2>1, <4>1, <4>3, <4>4
    <3>2. base' = base
      BY <1>2, <2>3, <3>1 DEF Rebase, CountedAnew
    <3>3. Unread /\ current'.usb = current.usb
      BY <2>1, <2>3, <3>1 DEF Unread, SameHostSession
    <3> QED
      BY <1>2, <3>1, <3>2, <3>3 DEF StepInv
  <2> QED
    BY <2>2, <2>3
<1>7. \A x \in acts' : Told(x)'
  BY <1>0, <1>1, CancelRevisions, ActionCurrent DEF Told
<1> QED
  BY <1>2, <1>3, <1>4, <1>5, <1>6, <1>7 DEF StepInv

LEMMA ControllerSteps ==
  ASSUME Base, StepInv, Rebase, base' \in Int, Controller
  PROVE  StepInv'
<1>0. Typed /\ ControlInv /\ CurrentInv
  BY DEF Base
<1>1. CASE Receive
  BY <1>1, ReceiveSteps
<1>2. CASE DropResult
  <2>1. /\ results' = None
        /\ UNCHANGED <<rev, current, plan, settled, hostTarget, acts, host, userActs,
                       ctxDone>>
    BY <1>2 DEF DropResult, ctlVars
  <2>2. base' = base
    BY <2>1, BaseStays
  <2>3. /\ \A x : TargetKnown(x) => TargetKnown(x)'
        /\ Written => Written'
        /\ Counted' = Counted
    BY <2>1, <2>2, KnownStays
  <2>4. Unread' => Unread
    BY <2>1 DEF Unread, ReadUntold
  <2> QED
    BY <2>1, <2>2, <2>3, <2>4 DEF StepInv, Told
<1>3. CASE HandleResult
  <2>1. /\ acts' = Cancel(acts, canceler) /\ results' = None
        /\ UNCHANGED <<rev, current, plan, host, userActs, ctxDone>>
        /\ results # None /\ results.rev = rev /\ ~stopped
    BY <1>3 DEF HandleResult
  <2>2. canceler # {} /\ \A a \in acts : a.rev # rev
    BY <1>0, <2>1 DEF ControlInv
  <2>3. \A x \in acts' : x.rev # rev /\ x.cancelled
    BY <1>0, <2>1, <2>2, CancelRevisions
  <2>4. ~ReadUntold
    BY <2>2, UntoldIsCurrent
  <2>5. CASE ~results.err /\ "hostVolume" \in plan
    <3>1. settled' = current.steps /\ hostTarget' = None
      BY <1>0, <1>3, <2>1, <2>5 DEF HandleResult, CurrentInv
    <3>2. settled' # settled
      BY <1>0, <2>2, <2>5, <3>1 DEF CurrentInv, Reasons
    <3>3. base' = FromNow
      BY <3>2 DEF Rebase, CountedAnew
    <3>4. Unread' => base' = host'.volume[current'.usb] - settled'
      BY <3>3 DEF Unread, FromNow, VolumeOf
    <3> QED
      BY <2>1, <2>3, <3>1, <3>4 DEF StepInv, Told
  <2>6. CASE ~(~results.err /\ "hostVolume" \in plan)
    <3>1. settled' = settled /\ hostTarget' = hostTarget
      BY <1>3, <2>6 DEF HandleResult
    <3>2. base' = base
      BY <2>1, <3>1, BaseStays
    <3>3. Counted' = Counted /\ (Unread' => Unread)
      BY <2>1, <2>4, <3>1, <3>2 DEF Counted, Unread
    <3> QED
      BY <2>1, <2>3, <3>1, <3>2, <3>3 DEF StepInv, Told
  <2> QED
    BY <2>5, <2>6
<1>4. CASE RetryFires
  <2>0. PICK n : n = Action(rev, attempt + 1, current, plan, hostTarget, settled)
    OBVIOUS
  <2>1. /\ acts' = acts \cup {n} /\ retrying /\ ~stopped
        /\ UNCHANGED <<rev, current, plan, settled, hostTarget, results, host, userActs,
                       ctxDone>>
    BY <1>4, <2>0 DEF RetryFires, StartAction
  <2>2. base' = base
    BY <2>1, BaseStays
  <2>3. /\ \A x : TargetKnown(x) => TargetKnown(x)'
        /\ Written => Written'
        /\ Counted' = Counted
    BY <2>1, <2>2, KnownStays
  <2>4. n.target = hostTarget /\ n.todo = CallsOf(plan, hostTarget)
    BY <2>0, ActionCurrent
  <2>5. TargetKnown(n)
    BY <2>4 DEF TargetKnown, CallsOf, Calls, Commands, StepInv
  <2>6. "write" \notin n.todo => Written
    BY <2>4 DEF Written, CallsOf, Calls, Commands
  <2>7. Unread' => Unread
    BY <2>1 DEF Unread, ReadUntold
  <2>8. Told(n)
    BY <2>0, ActionCurrent DEF Told
  <2> QED
    BY <2>1, <2>2, <2>3, <2>5, <2>6, <2>7, <2>8 DEF StepInv, Told
<1>5. CASE Stop
  <2>1. /\ acts' = Cancel(acts, canceler) /\ ctxDone /\ ctxDone'
        /\ UNCHANGED <<rev, current, plan, settled, hostTarget, results, host, userActs>>
    BY <1>5 DEF Stop
  <2>2. base' = base
    BY <2>1, BaseStays
  <2>3. /\ \A x : TargetKnown(x) => TargetKnown(x)'
        /\ Written => Written'
    BY <2>1, <2>2, BaseStays DEF TargetKnown, Written, Counted, VolumeOf
  <2>4. ASSUME NEW x \in acts', x.rev = rev, ~x.err
        PROVE  TargetKnown(x) /\ ("write" \notin x.todo => Written)
    <3>1. PICK a \in acts : Alike(x, a)
      BY <1>0, <2>1, CancelKeeps
    <3> QED
      BY <2>4, <3>1, AlikeKnown DEF Alike, StepInv
  <2>5. \A x \in acts' : x.cancelled
    BY <1>0, <2>1, CancelRevisions
  <2> QED
    BY <2>1, <2>2, <2>3, <2>4, <2>5 DEF StepInv, Unread, Told
<1> QED
  BY <1>1, <1>2, <1>3, <1>4, <1>5 DEF Controller
-----------------------------------------------------------------------------
(* A live action reads: the target it derives is the one the steps come to. *)
LEMMA ReadTarget ==
  ASSUME Base, StepInv, NEW a \in acts, Perform(a, "read")
  PROVE  TargetAfter("read", a) = Counted
<1>1. /\ ~a.cancelled /\ ~a.err /\ a.rev = rev /\ "read" \in a.todo
      /\ \A x \in acts : x.rev = rev => x = a
  BY LiveIsCurrent DEF Base, Perform, At
<1>2. ForCurrent(a) /\ TargetKnown(a) /\ HostOnly /\ ~ctxDone
  BY <1>1 DEF Base, CurrentInv, PlanMode, ForCurrent, StepInv
<1>3. current.connected
  BY <1>1, <1>2 DEF Base, Typed, Fits, TodoFits, ForCurrent
<1>4. hostTarget = None
  BY <1>1, <1>2 DEF TargetKnown
<1>5. ~ReadUntold
  <2>1. ~At(a, "resolve")
    BY <1>1 DEF At, Rank
  <2> QED
    BY <1>1, <2>1, LiveIsCurrent DEF Base, ReadUntold
<1>6. base = host.volume[current.usb] - settled
  BY <1>2, <1>3, <1>4, <1>5 DEF Unread, StepInv
<1>7. /\ host.volume[current.usb] \in Int /\ settled \in Int /\ current.steps \in Int
  <2>1. current.usb \in Adapters
    BY <1>3 DEF Base, Typed, Fits, Named
  <2> QED
    BY <2>1, ValueAssumption DEF Base, Typed, TypeOK, Desired
<1>8. host.volume[current.usb] + (current.steps - settled) = base + current.steps
  BY <1>6, <1>7
<1> QED
  BY <1>2, <1>8 DEF TargetAfter, Counted, ForCurrent

(* The effect of a command on the volume of the current headset.            *)
LEMMA EffectVolume ==
  ASSUME Base, StepInv, NEW a \in acts, NEW c \in Commands, At(a, c), ~a.cancelled
  PROVE  LET h == Effect(host, c, a)
         IN  /\ c \notin {"volume", "write"} => h.volume = host.volume
             /\ c = "volume" => ~HostOnly /\ "hostVolume" \notin plan
             /\ c = "write" => /\ hostTarget # None
                              /\ VolumeOf(h, current) = Counted
<1>1. /\ a.rev = rev /\ c \in a.todo /\ ~a.err /\ a \in Actions
      /\ ForCurrent(a) /\ TargetKnown(a) /\ ~ctxDone /\ TodoFits(a) /\ PlanMode
  BY LiveIsCurrent DEF Base, At, CurrentInv, StepInv, Typed, TypeOK, Fits
<1>2. /\ host \in [sink   : Adapters \cup {Fallback, Foreign},
                   source : Adapters \cup {Fallback, Foreign},
                   volume : [Adapters -> 0..MaxVolume],
                   muted  : [Adapters -> BOOLEAN]]
  BY DEF Base, Typed, TypeOK
<1>3. ASSUME c \notin {"volume", "write"}
      PROVE  Effect(host, c, a).volume = host.volume
  BY <1>2, <1>3 DEF Effect, Commands
<1>4. ASSUME c = "volume" PROVE ~HostOnly /\ "hostVolume" \notin plan
  BY <1>1, <1>4 DEF ForCurrent, PlanMode
<1>5. ASSUME c = "write"
      PROVE  hostTarget # None /\ VolumeOf(Effect(host, c, a), current) = Counted
  <2>1. "read" \notin a.todo /\ "resolve" \notin a.todo
    BY <1>5 DEF At, Rank
  <2>2. a.target # None /\ a.target = hostTarget /\ a.target = Counted
    BY <1>1, <1>5, <2>1 DEF TodoFits, TargetKnown
  <2>3. a.des = current /\ current.connected /\ current.usb \in Adapters
    BY <1>1, <1>5 DEF ForCurrent, TodoFits, Base, Typed, Fits, Named
  <2> QED
    BY <1>2, <1>5, <2>2, <2>3 DEF Effect, VolumeOf
<1> QED
  BY <1>3, <1>4, <1>5

(* A live command that runs to its end leaves the target known and base as  *)
(* it was; a write lands.                                                   *)
LEMMA PerformSteps ==
  ASSUME Base, StepInv, Rebase, base' \in Int, NEW a \in acts, NEW c \in Commands,
         Perform(a, c)
  PROVE  StepInv'
<1>0. PICK b : b = [a EXCEPT !.todo = @ \ {c}, !.target = TargetAfter(c, a)]
  OBVIOUS
<1>1. /\ a \in Actions /\ At(a, c) /\ c \in a.todo /\ ~a.cancelled /\ ~a.err
      /\ host' = Effect(host, c, a) /\ Replace(a, b)
      /\ UNCHANGED <<rev, current, plan, settled, hostTarget, results, userActs, ctxDone>>
  BY <1>0 DEF Base, Typed, TypeOK, Perform, At, ctlVars
<1>2. b.rev = a.rev /\ b.todo = a.todo \ {c} /\ b.target = TargetAfter(c, a)
  BY <1>0, <1>1 DEF Actions
<1>3. /\ a.rev = rev /\ \A x \in acts : x.rev = rev => x = a
      /\ results # None => results.rev # rev
  BY <1>1, LiveIsCurrent DEF Base
<1>4. base' = base
  BY <1>1, BaseStays
<1>5. Counted' = Counted /\ \A x : TargetKnown(x) => TargetKnown(x)'
  BY <1>1, <1>4, KnownStays
<1>6. TargetKnown(a) /\ ("write" \notin a.todo => Written)
  BY <1>1, <1>3 DEF StepInv
<1>7. TargetKnown(b)
  <2>1. CASE c = "read"
    <3>1. b.target = Counted
      BY <1>1, <1>2, <2>1, ReadTarget
    <3>2. a.todo \subseteq {"read", "resolve", "write"}
      BY <1>1, <2>1 DEF At, Rank, Actions, Calls, Commands
    <3> QED
      BY <1>1, <1>2, <1>6, <2>1, <3>1, <3>2 DEF TargetKnown
  <2>2. CASE c # "read"
    <3>1. b.target = a.target
      BY <1>2, <2>2 DEF TargetAfter
    <3> QED
      BY <1>2, <1>6, <2>2, <3>1 DEF TargetKnown, Commands
  <2> QED
    BY <2>1, <2>2
<1>8. "write" \notin b.todo => Written'
  <2>1. CASE c = "write"
    BY <1>1, <1>5, <2>1, EffectVolume DEF Written
  <2>2. CASE c = "volume"
    BY <1>1, <2>2, EffectVolume DEF Written
  <2>3. CASE c \notin {"write", "volume"}
    <3>1. host'.volume = host.volume
      BY <1>1, <2>3, EffectVolume
    <3> QED
      BY <1>1, <1>2, <1>4, <1>6, <2>3, <3>1, KnownStays
  <2> QED
    BY <2>1, <2>2, <2>3
<1>9. Unread' => Unread /\ host'.volume = host.volume
  <2>1. ~ReadUntold
    <3>1. ~At(a, "resolve")
      BY <1>1 DEF At, Rank, Commands
    <3> QED
      BY <1>3, <3>1, LiveIsCurrent DEF Base, ReadUntold
  <2>2. Unread' => c \notin {"volume", "write"}
    BY <1>1, EffectVolume DEF Unread
  <2> QED
    BY <1>1, <2>1, <2>2, EffectVolume DEF Unread
<1>10. \A x \in acts' : x.rev = rev => x = b
  BY <1>1, <1>3 DEF Replace
<1>11. \A x \in acts' : Told(x)'
  <2>1. b.err = a.err
    BY <1>0, <1>1 DEF Actions
  <2> QED
    BY <1>1, <2>1 DEF Replace, StepInv, Told
<1> QED
  BY <1>1, <1>3, <1>4, <1>5, <1>7, <1>8, <1>9, <1>10, <1>11 DEF StepInv

(* A step of action a that leaves the controller's part and base alone, and *)
(* after which a is either gone or failed, or as far as it was.             *)
LEMMA EndSteps ==
  ASSUME Base, StepInv, Rebase, base' \in Int, NEW a \in acts,
         ~At(a, "resolve") \/ a.cancelled,
         \A x \in acts' : x \in acts \/ (x.err /\ Told(x)),
         \A x \in acts : x # a => x \in acts',
         UNCHANGED <<rev, current, plan, settled, hostTarget, userActs, ctxDone>>,
         \/ host' = host
         \/ /\ ~a.cancelled /\ results' = results
            /\ \E c \in Commands : At(a, c) /\ host' = Effect(host, c, a)
            /\ \A x \in acts' : x.rev = rev => x.err,
         \/ results' = results
         \/ results'.rev = a.rev /\ results'.err = a.err /\ (a.err \/ a.todo = {})
  PROVE  StepInv'
<1>1. base' = base
  BY BaseStays
<1>2. Counted' = Counted /\ \A x : TargetKnown(x) => TargetKnown(x)'
  BY <1>1, KnownStays
<1>3. ReadUntold => ReadUntold'
  BY DEF ReadUntold
<1>4. Unread' => Unread
  BY <1>3 DEF Unread
<1>5. \A x \in acts' : Told(x)'
  BY DEF StepInv, Told
<1>6. CASE host' = host
  <2>1. Written => Written'
    BY <1>1, <1>6, KnownStays
  <2>2. \A x \in acts' : x.rev = rev /\ ~x.err
          => TargetKnown(x)' /\ ("write" \notin x.todo => Written')
    BY <1>2, <2>1 DEF StepInv
  <2>3. results' # None /\ results'.rev = rev /\ ~results'.err => Written
    BY DEF StepInv
  <2> QED
    BY <1>1, <1>2, <1>4, <1>6, <1>5, <2>1, <2>2, <2>3 DEF StepInv
<1>7. CASE host' # host
  <2>1. PICK c \in Commands : At(a, c) /\ host' = Effect(host, c, a)
    BY <1>7
  <2>2. ~a.cancelled /\ results' = results /\ \A x \in acts' : x.rev = rev => x.err
    BY <1>7
  <2>3. results # None => results.rev # rev
    BY <2>2, LiveIsCurrent DEF Base
  <2>4. Unread' => c \notin {"volume", "write"}
    BY <2>1, <2>2, EffectVolume DEF Unread
  <2>5. Unread' => host'.volume = host.volume
    BY <2>1, <2>2, <2>4, EffectVolume
  <2> QED
    BY <1>1, <1>2, <1>4, <1>5, <2>2, <2>3, <2>5 DEF StepInv
<1> QED
  BY <1>6, <1>7

LEMMA ResolveSteps ==
  ASSUME Base, StepInv, Rebase, base' \in Int, NEW a \in acts, Resolve(a)
  PROVE  StepInv'
<1>0. PICK b : b = [a EXCEPT !.todo = @ \ {"resolve"}]
  OBVIOUS
<1>1. /\ a \in Actions /\ "resolve" \in a.todo /\ "read" \notin a.todo /\ ~a.err
      /\ TodoFits(a) /\ Replace(a, b)
      /\ hostTarget' = IF a.rev = rev THEN a.target ELSE hostTarget
      /\ UNCHANGED <<rev, current, plan, settled, results, host, userActs, ctxDone>>
  BY <1>0 DEF Base, Typed, TypeOK, Fits, Resolve, At, Rank
<1>2. b.rev = a.rev /\ b.todo = a.todo \ {"resolve"} /\ b.target = a.target
  BY <1>0, <1>1 DEF Actions
<1>3. base' = base
  BY <1>1, BaseStays
<1>4. Counted' = Counted /\ (Written => Written')
  BY <1>1, <1>3 DEF Counted, Written, VolumeOf
<1>5. b.err = a.err
  BY <1>0, <1>1 DEF Actions
<1>6. \A x \in acts' : Told(x)'
  <2>1. ASSUME NEW x \in acts, x # a, ~x.cancelled PROVE a.rev # rev
    BY <2>1, LiveIsCurrent DEF Base
  <2> QED
    BY <1>1, <1>5, <2>1 DEF Replace, StepInv, Told
<1>7. CASE a.rev = rev
  <2>1. /\ TargetKnown(a) /\ ("write" \notin a.todo => Written) /\ a.des = current
        /\ \A x \in acts : x.rev = rev => x = a
    BY <1>1, <1>7 DEF StepInv, Base, CurrentInv, ForCurrent, ControlInv
  <2>2. current.connected /\ a.target # None /\ hostTarget' = a.target
    BY <1>1, <1>7, <2>1 DEF TodoFits
  <2>3. TargetKnown(b)'
    BY <1>1, <1>2, <1>4, <2>1, <2>2 DEF TargetKnown
  <2>4. \A x \in acts' : x.rev = rev => x = b
    BY <1>1, <2>1 DEF Replace
  <2>5. ~ctxDone => hostTarget' = Counted
    BY <2>1, <2>2 DEF TargetKnown
  <2> QED
    BY <1>1, <1>2, <1>3, <1>4, <1>6, <2>1, <2>2, <2>3, <2>4, <2>5 DEF StepInv, Unread
<1>8. CASE a.rev # rev
  <2>1. hostTarget' = hostTarget
    BY <1>1, <1>8
  <2>2. \A x : TargetKnown(x) => TargetKnown(x)'
    BY <1>1, <1>3, <2>1, KnownStays
  <2>3. \A x \in acts' : x.rev = rev => x \in acts
    BY <1>1, <1>2, <1>8 DEF Replace
  <2>4. ReadUntold => ReadUntold'
    <3>1. a.cancelled
      BY <1>8, LiveIsCurrent DEF Base
    <3> QED
      BY <1>1, <3>1 DEF ReadUntold, Replace
  <2>5. Unread' => Unread
    BY <1>1, <2>1, <2>4 DEF Unread
  <2> QED
    BY <1>1, <1>3, <1>4, <1>6, <2>1, <2>2, <2>3, <2>5 DEF StepInv
<1> QED
  BY <1>7, <1>8

LEMMA ActionStepSteps ==
  ASSUME KillIsPrompt, Base, StepInv, Rebase, base' \in Int,
         NEW a \in acts, ActionStep(a)
  PROVE  StepInv'
<1>0. a \in Actions
  BY DEF Base, Typed, TypeOK
<1>1. ASSUME NEW c \in Commands, Perform(a, c) PROVE StepInv'
  BY <1>1, PerformSteps
<1>2. ASSUME NEW c \in Commands, Fail(a, c) PROVE StepInv'
  <2>0. PICK b : b = [a EXCEPT !.err = TRUE]
    OBVIOUS
  <2>1. /\ b.err /\ Replace(a, b) /\ At(a, c) /\ ~At(a, "resolve")
        /\ UNCHANGED <<rev, current, plan, settled, hostTarget, results, userActs, ctxDone>>
        /\ host' = host \/ (~a.cancelled /\ host' = Effect(host, c, a))
    BY <1>0, <1>2, <2>0 DEF Fail, At, Rank, Commands, Actions, ctlVars
  <2>2. ~a.cancelled => \A x \in acts' : x.rev = rev => x.err
    BY <2>1, LiveIsCurrent DEF Base, Replace
  <2>3. Told(b)
    <3>1. b.cancelled = a.cancelled /\ b.target = a.target
      BY <1>0, <2>0 DEF Actions
    <3>2. ~a.cancelled /\ a.target # None => hostTarget = a.target
      <4> SUFFICES ASSUME ~a.cancelled, a.target # None PROVE hostTarget = a.target
        OBVIOUS
      <4>1. TargetKnown(a)
        BY <2>1, LiveIsCurrent DEF Base, StepInv, At
      <4>2. "resolve" \notin a.todo
        BY <2>1, <4>1 DEF TargetKnown, At, Rank
      <4> QED
        BY <4>1, <4>2 DEF TargetKnown
    <3> QED
      BY <3>1, <3>2 DEF Told
  <2> QED
    BY <2>1, <2>2, <2>3, EndSteps DEF Replace
<1>3. CASE Resolve(a)
  BY <1>3, ResolveSteps
<1>4. CASE AbandonResolve(a)
  <2>0. PICK b : b = [a EXCEPT !.err = TRUE]
    OBVIOUS
  <2>1. /\ b.err /\ Replace(a, b) /\ a.cancelled /\ b.cancelled /\ host' = host
        /\ UNCHANGED <<rev, current, plan, settled, hostTarget, results, userActs, ctxDone>>
    BY <1>0, <1>4, <2>0 DEF AbandonResolve, Actions, ctlVars
  <2> QED
    BY <2>1, EndSteps DEF Replace, Told
<1>5. CASE Report(a)
  <2>1. /\ acts' = acts \ {a} /\ host' = host
        /\ results'.rev = a.rev /\ results'.err = a.err /\ (a.err \/ a.todo = {})
        /\ UNCHANGED <<rev, current, plan, settled, hostTarget, userActs, ctxDone>>
    BY <1>5 DEF Report, Finished, ctlVars
  <2>2. ~At(a, "resolve")
    BY <2>1 DEF At
  <2> QED
    BY <2>1, <2>2, EndSteps
<1>6. CASE Leave(a)
  <2>1. /\ acts' = acts \ {a} /\ host' = host /\ a.cancelled
        /\ UNCHANGED <<rev, current, plan, settled, hostTarget, results, userActs, ctxDone>>
    BY <1>6 DEF Leave, ctlVars
  <2> QED
    BY <2>1, EndSteps
<1> QED
  BY <1>1, <1>2, <1>3, <1>4, <1>5, <1>6 DEF ActionStep
-----------------------------------------------------------------------------
(* The inductive invariant of the host-only arithmetic: a pending target,   *)
(* and that of the current revision's action, is base plus the steps asked  *)
(* for; with none pending base and the settled steps make up the host's     *)
(* volume.                                                                  *)
THEOREM Steps == KillIsPrompt => (StepSpec => [](Base /\ StepInv))
<1> SUFFICES ASSUME KillIsPrompt PROVE StepSpec => [](Base /\ StepInv)
  OBVIOUS
<1>1. Init /\ base = 0 => StepInv
  BY StepInit
<1>2. Base /\ Base' /\ StepInv /\ [Next /\ Rebase]_<<vars, base>> => StepInv'
  <2> SUFFICES ASSUME Base, Base', StepInv, [Next /\ Rebase]_<<vars, base>>
               PROVE  StepInv'
    OBVIOUS
  <2>1. base' \in Int
    BY BaseType DEF StepInv
  <2>2. CASE Environment /\ Rebase
    BY <2>1, <2>2, EnvironmentSteps
  <2>3. CASE Controller /\ Rebase
    BY <2>1, <2>3, ControllerSteps
  <2>4. ASSUME NEW a \in acts, ActionStep(a), Rebase PROVE StepInv'
    BY <2>1, <2>4, ActionStepSteps
  <2>5. CASE UNCHANGED <<vars, base>>
    <3>1. UNCHANGED <<rev, current, plan, settled, hostTarget, results, acts, host,
                      userActs, ctxDone, base>>
      BY <2>5 DEF vars, ctlVars
    <3>2. /\ \A x : TargetKnown(x) => TargetKnown(x)'
          /\ Written => Written'
          /\ Counted' = Counted
      BY <3>1, KnownStays
    <3>3. Unread' => Unread
      BY <3>1 DEF Unread, ReadUntold
    <3> QED
      BY <3>1, <3>2, <3>3 DEF StepInv, Told
  <2> QED
    BY <2>2, <2>3, <2>4, <2>5 DEF Next
<1>3. StepSpec => []Base
  BY StepsAreSteps, Current, PTL
<1> QED
  BY <1>1, <1>2, <1>3, PTL DEF StepSpec

(* However presses, failures, retries, superseded actions and a user who    *)
(* moves the volume interleave, at the limits too: what a live action is to *)
(* write is the session's base plus the steps, each counted once.           *)
THEOREM TargetsAreExact == KillIsPrompt => (StepSpec => []TargetExact)
<1>1. Base /\ StepInv => TargetExact
  <2> SUFFICES ASSUME Base, StepInv, NEW a \in acts, ~a.cancelled, a.target # None
               PROVE  a.target = Clamp(base + a.des.steps)
    BY DEF TargetExact
  <2>1. a.rev = rev /\ ForCurrent(a) /\ ~ctxDone
    BY LiveIsCurrent DEF Base, CurrentInv
  <2>2. CASE a.err
    BY <2>1, <2>2 DEF StepInv, Told, Counted, ForCurrent
  <2>3. CASE ~a.err
    BY <2>1, <2>3 DEF StepInv, TargetKnown, Counted, ForCurrent
  <2> QED
    BY <2>2, <2>3
<1> QED
  BY <1>1, Steps, PTL

(* When the controller settles steps that were asked for, the headset's     *)
(* volume on the host stands where they lead, unless the user moved it.     *)
THEOREM StepsHaveLanded == KillIsPrompt => (StepSpec => StepsLand)
<1>1. /\ Base /\ StepInv /\ [Next /\ Rebase]_<<vars, base>>
      => (settled' # settled /\ rev' = rev /\ userActs = 0
            => VolumeOf(host, current) = Clamp(base + settled'))
  <2> SUFFICES ASSUME Base, StepInv, [Next /\ Rebase]_<<vars, base>>,
                      settled' # settled, rev' = rev, userActs = 0
               PROVE  VolumeOf(host, current) = Clamp(base + settled')
    OBVIOUS
  <2>1. rev \in Nat
    BY DEF Base, Typed, TypeOK
  <2>2. HandleResult
    <3>1. ~Environment
      BY DEF Environment, ConnectHeadset, DisconnectHeadset, Interact, Send,
             UserPicksSink, UserSetsVolume, CancelContext, ctlVars
    <3>2. ~ \E a \in acts : ActionStep(a)
      BY DEF ActionStep, Perform, Fail, Resolve, AbandonResolve, Report, Leave, ctlVars
    <3>3. ~Receive
      BY <2>1 DEF Receive
    <3>4. ~DropResult /\ ~RetryFires /\ ~Stop
      BY DEF DropResult, RetryFires, Stop, ctlVars
    <3>5. ~UNCHANGED <<vars, base>>
      BY DEF vars, ctlVars
    <3> QED
      BY <3>1, <3>2, <3>3, <3>4, <3>5 DEF Next, Controller
  <2>3. /\ results # None /\ results.rev = rev /\ ~results.err
        /\ "hostVolume" \in plan /\ settled' = results.des.steps
    BY <2>2 DEF HandleResult
  <2>4. Written /\ results.des = current
    BY <2>3 DEF StepInv, Base, CurrentInv
  <2> QED
    BY <2>3, <2>4 DEF Written, Counted
<1> QED
  BY <1>1, Steps, PTL DEF StepSpec, StepsLand
=============================================================================

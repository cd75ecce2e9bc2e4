------------------------ MODULE AudioControllerProofs ------------------------
(***************************************************************************)
(* Theorems about AudioController, for every value of its constants: its   *)
(* type invariant, and the two invariants that make cancellation safe.     *)
(* Where a kill is prompt, a finished transition holds on the host, and    *)
(* the user's sink is left alone.                                          *)
(***************************************************************************)
EXTENDS AudioController, TLAPS

(* A connected state names an adapter. *)
Named(d) == d.connected => d.usb \in Adapters

(* What a plan says of the desired state it was made for. *)
PlanFits(p, d) ==
  \A k \in p : /\ k # "route" => d.connected
               /\ k = "volume" => d.volume # None
               /\ k = "mute" => d.muted # None

(* What the calls an action still has to make say of its data. *)
TodoFits(a) ==
  \A c \in a.todo : /\ c \notin {"sink", "source"} => a.des.connected
                    /\ c = "volume" => a.des.volume # None
                    /\ c = "mute" => a.des.muted # None
                    /\ c \in {"resolve", "write"}
                         => a.target # None \/ "read" \in a.todo

Fits ==
  /\ Named(obs) /\ (chan # None => Named(chan)) /\ Named(current)
  /\ PlanFits(plan, current)
  /\ \A a \in acts : Named(a.des) /\ TodoFits(a)

Typed == TypeOK /\ Fits
-----------------------------------------------------------------------------
LEMMA ClampType == ASSUME NEW v \in Int PROVE Clamp(v) \in 0..MaxVolume
  BY ValueAssumption DEF Clamp

LEMMA ZeroType == Zero \in Desired /\ Named(Zero)
  BY DEF Zero, Desired, Named

(* A plan fits the desired state it is made for. *)
LEMMA PlanType ==
  ASSUME NEW d \in Desired, NEW a, NEW s
  PROVE  Plan(d, a, s) \subseteq Kinds /\ PlanFits(Plan(d, a, s), d)
  BY DEF Plan, PlanFits, Kinds, VolumeNeeded, MuteNeeded, HostVolumeNeeded

(* A new action is well typed and fits its data. *)
LEMMA ActionType ==
  ASSUME TypeOK,
         NEW r \in Nat, NEW n \in Nat, NEW d \in Desired, Named(d),
         NEW p \in SUBSET Kinds, PlanFits(p, d),
         NEW t \in 0..MaxVolume \cup {None}, NEW s \in Int
  PROVE  /\ Action(r, n, d, p, t, s) \in Actions
         /\ Named(Action(r, n, d, p, t, s).des)
         /\ TodoFits(Action(r, n, d, p, t, s))
<1> DEFINE A == Action(r, n, d, p, t, s)
<1>1. A.des = d /\ A.todo = CallsOf(p, t) /\ A.target = t
  BY DEF Action
<1>2. CallsOf(p, t) \subseteq Calls
  BY DEF CallsOf
<1>3. A \in Actions
  BY <1>2 DEF Action, Actions, TypeOK
<1>4. TodoFits(A)
  <2> SUFFICES ASSUME NEW c \in CallsOf(p, t)
               PROVE  /\ c \notin {"sink", "source"} => d.connected
                      /\ c = "volume" => d.volume # None
                      /\ c = "mute" => d.muted # None
                      /\ c \in {"resolve", "write"}
                           => t # None \/ "read" \in CallsOf(p, t)
    BY <1>1 DEF TodoFits
  <2> QED
    BY DEF CallsOf, PlanFits, Calls, Commands
<1> QED
  BY <1>1, <1>3, <1>4

(* Cancelling changes no more than the flag. *)
LEMMA CancelType ==
  ASSUME NEW as \in SUBSET Actions, NEW c, \A a \in as : Named(a.des) /\ TodoFits(a)
  PROVE  /\ Cancel(as, c) \subseteq Actions
         /\ \A a \in Cancel(as, c) : Named(a.des) /\ TodoFits(a)
<1>1. SUFFICES ASSUME NEW a \in as
               PROVE  LET b == [a EXCEPT !.cancelled = @ \/ Id(a) \in c]
                      IN  b \in Actions /\ Named(b.des) /\ TodoFits(b)
  BY DEF Cancel
<1> DEFINE b == [a EXCEPT !.cancelled = @ \/ Id(a) \in c]
<1>2. b \in Actions
  BY DEF Actions
<1>3. b.des = a.des /\ b.todo = a.todo /\ b.target = a.target
  BY DEF Actions
<1> QED
  BY <1>2, <1>3 DEF TodoFits, Named

(* The effect of the next command of an action leaves the host well typed. *)
LEMMA EffectType ==
  ASSUME Typed, NEW a \in acts, NEW c \in Commands, At(a, c)
  PROVE  Effect(host, c, a) \in
           [sink   : Adapters \cup {Fallback, Foreign},
            source : Adapters \cup {Fallback, Foreign},
            volume : [Adapters -> 0..MaxVolume],
            muted  : [Adapters -> BOOLEAN]]
<1> DEFINE H == [sink   : Adapters \cup {Fallback, Foreign},
                 source : Adapters \cup {Fallback, Foreign},
                 volume : [Adapters -> 0..MaxVolume],
                 muted  : [Adapters -> BOOLEAN]]
<1>1. host \in H /\ a \in Actions /\ Named(a.des) /\ TodoFits(a) /\ c \in a.todo
  BY DEF Typed, TypeOK, Fits, At
<1>2. SinkOf(a.des) \in Adapters \cup {Fallback, Foreign}
  BY <1>1 DEF SinkOf, Named
<1>3. SourceOf(a.des) \in Adapters \cup {Fallback, Foreign}
  BY <1>1 DEF SourceOf, Named
<1>4. CASE c = "sink"
  BY <1>1, <1>2, <1>4 DEF Effect
<1>5. CASE c = "source"
  BY <1>1, <1>3, <1>5 DEF Effect
<1>6. CASE c = "volume"
  <2>1. a.des.volume \in 0..MaxVolume
    BY <1>1, <1>6, ValueAssumption DEF TodoFits, Actions, Desired
  <2> QED
    BY <1>1, <1>6, <2>1 DEF Effect
<1>7. CASE c = "mute"
  <2>1. a.des.muted \in BOOLEAN
    BY <1>1, <1>7, ValueAssumption DEF TodoFits, Actions, Desired
  <2> QED
    BY <1>1, <1>7, <2>1 DEF Effect
<1>8. CASE c = "write"
  <2>1. "read" \notin a.todo
    BY <1>8 DEF At, Rank
  <2>2. a.target \in 0..MaxVolume
    BY <1>1, <1>8, <2>1 DEF TodoFits, Actions
  <2> QED
    BY <1>1, <1>8, <2>2 DEF Effect
<1>9. CASE c = "read"
  BY <1>1, <1>9 DEF Effect
<1> QED
  BY <1>4, <1>5, <1>6, <1>7, <1>8, <1>9 DEF Commands
-----------------------------------------------------------------------------
LEMMA TypedInit == ASSUME Init PROVE Typed
<1>1. /\ StartVolume \in 0..MaxVolume
      /\ 0 \in 0..MaxSends /\ 0 \in 0..MaxUserActs
  BY ValueAssumption, BoundAssumption
<1>2. host \in [sink   : Adapters \cup {Fallback, Foreign},
                source : Adapters \cup {Fallback, Foreign},
                volume : [Adapters -> 0..MaxVolume],
                muted  : [Adapters -> BOOLEAN]]
  BY <1>1 DEF Init
<1>3. /\ obs = Zero /\ chan = None /\ sends = 0
      /\ rev = 0 /\ current = Zero /\ applied = None /\ plan = {} /\ attempt = 0
      /\ canceler = {} /\ retrying = FALSE
      /\ settled = 0 /\ lastSteps = 0 /\ hostTarget = None
      /\ acts = {} /\ results = None
      /\ userActs = 0 /\ ctxDone = FALSE /\ stopped = FALSE
  BY DEF Init
<1>4. TypeOK
  <2>1. obs \in Desired /\ current \in Desired
    BY <1>3, ZeroType
  <2>2. sends \in 0..MaxSends /\ userActs \in 0..MaxUserActs
    BY <1>1, <1>3
  <2>3. plan \subseteq Kinds /\ canceler \subseteq Nat \X Nat /\ acts \subseteq Actions
    BY <1>3
  <2>4. /\ rev \in Nat /\ attempt \in Nat /\ settled \in Int /\ lastSteps \in Int
    BY <1>3
  <2>6. retrying \in BOOLEAN /\ ctxDone \in BOOLEAN /\ stopped \in BOOLEAN
    BY <1>3
  <2>5. /\ chan \in Desired \cup {None} /\ applied \in Desired \cup {None}
        /\ hostTarget \in 0..MaxVolume \cup {None}
        /\ results \in [rev : Nat, des : Desired, err : BOOLEAN] \cup {None}
    BY <1>3
  <2> QED
    BY <1>2, <2>1, <2>2, <2>3, <2>4, <2>5, <2>6 DEF TypeOK
<1>5. Fits
  BY <1>3, ZeroType DEF Fits, PlanFits
<1> QED
  BY <1>4, <1>5 DEF Typed

LEMMA SendTyped ==
  ASSUME Typed, NEW d \in Desired, Named(d), Send(d)
  PROVE  Typed'
<1>1. TypeOK'
  BY BoundAssumption DEF Send, Typed, TypeOK, ctlVars
<1>2. Fits'
  BY DEF Send, Typed, Fits, ctlVars
<1> QED
  BY <1>1, <1>2 DEF Typed

LEMMA EnvironmentTyped == ASSUME Typed, Environment PROVE Typed'
<1>1. ASSUME NEW u \in Adapters, ConnectHeadset(u) PROVE Typed'
  <2>1. /\ [Zero EXCEPT !.connected = TRUE, !.usb = u] \in Desired
        /\ Named([Zero EXCEPT !.connected = TRUE, !.usb = u])
    BY ZeroType DEF Desired, Named
  <2> QED
    BY <1>1, <2>1, SendTyped DEF ConnectHeadset
<1>2. CASE DisconnectHeadset
  BY <1>2, ZeroType, SendTyped DEF DisconnectHeadset
<1>3. ASSUME NEW v \in Levels \cup {None}, NEW m \in Mutes, NEW d \in Deltas,
             Interact(v, m, d)
      PROVE  Typed'
  <2> DEFINE o == [obs EXCEPT !.volume = v, !.muted = m,
                              !.steps = IF HostOnly THEN @ + d ELSE @]
  <2>1. obs \in Desired /\ Named(obs)
    BY DEF Typed, TypeOK, Fits
  <2>2. o \in Desired /\ Named(o)
    <3>1. (IF HostOnly THEN obs.steps + d ELSE obs.steps) \in Int
      BY <2>1, ValueAssumption DEF Desired
    <3> QED
      BY <2>1, <3>1 DEF Desired, Named
  <2>3. Send(o)
    BY <1>3 DEF Interact
  <2> HIDE DEF o
  <2> QED
    BY <2>2, <2>3, SendTyped
<1>4. CASE UserPicksSink
  BY <1>4, BoundAssumption
  DEF UserPicksSink, Typed, TypeOK, Fits, envVars, ctlVars, Named, PlanFits, TodoFits
<1>5. ASSUME NEW u \in Adapters, NEW v \in UserVolumes, UserSetsVolume(u, v)
      PROVE  Typed'
  <2>1. v \in 0..MaxVolume
    BY ValueAssumption
  <2>2. TypeOK'
    BY <1>5, <2>1, BoundAssumption
    DEF UserSetsVolume, Typed, TypeOK, envVars, ctlVars
  <2>3. Fits'
    BY <1>5 DEF UserSetsVolume, Typed, Fits, envVars, ctlVars
  <2> QED
    BY <2>2, <2>3 DEF Typed
<1>6. CASE CancelContext
  <2>1. acts' \subseteq Actions /\ \A a \in acts' : Named(a.des) /\ TodoFits(a)
    <3>1. SUFFICES ASSUME NEW a \in acts
                   PROVE  LET b == [a EXCEPT !.cancelled = TRUE]
                          IN  b \in Actions /\ Named(b.des) /\ TodoFits(b)
      BY <1>6 DEF CancelContext
    <3> DEFINE b == [a EXCEPT !.cancelled = TRUE]
    <3>2. a \in Actions /\ Named(a.des) /\ TodoFits(a)
      BY DEF Typed, TypeOK, Fits
    <3>3. b \in Actions /\ b.des = a.des /\ b.todo = a.todo /\ b.target = a.target
      BY <3>2 DEF Actions
    <3> QED
      BY <3>2, <3>3 DEF TodoFits, Named
  <2> QED
    BY <1>6, <2>1
    DEF CancelContext, Typed, TypeOK, Fits, envVars, ctlVars, Named, PlanFits
<1> QED
  BY <1>1, <1>2, <1>3, <1>4, <1>5, <1>6 DEF Environment

LEMMA ReceiveTyped == ASSUME Typed, Receive PROVE Typed'
<1> DEFINE same == SameHostSession(current, chan)
           target == IF same /\ hostTarget # None
                     THEN Clamp(hostTarget + (chan.steps - lastSteps))
                     ELSE None
           set == IF same THEN settled ELSE 0
           p == Plan(chan, applied, set)
           others == Cancel(acts, canceler)
<1>1. chan \in Desired /\ Named(chan)
  BY DEF Receive, Typed, TypeOK, Fits
<1>2. set \in Int /\ settled' = set
  BY DEF Receive, Typed, TypeOK
<1>3. target \in 0..MaxVolume \cup {None} /\ hostTarget' = target
  <2>1. ASSUME hostTarget # None
        PROVE  hostTarget + (chan.steps - lastSteps) \in Int
    BY <1>1, <2>1 DEF Typed, TypeOK, Desired
  <2>2. target \in 0..MaxVolume \cup {None}
    BY <2>1, ClampType
  <2> QED
    BY <2>2 DEF Receive
<1>4. p \subseteq Kinds /\ PlanFits(p, chan) /\ plan' = p
  BY <1>1, PlanType DEF Receive
<1>5. others \subseteq Actions /\ \A a \in others : Named(a.des) /\ TodoFits(a)
  BY CancelType DEF Typed, TypeOK, Fits
<1>6. LET a == Action(rev + 1, 1, chan, p, target, set)
      IN  a \in Actions /\ Named(a.des) /\ TodoFits(a)
  <2>1. rev + 1 \in Nat /\ 1 \in Nat /\ TypeOK
    BY DEF Typed, TypeOK
  <2> HIDE DEF target, set, p
  <2> QED
    BY <1>1, <1>2, <1>3, <1>4, <2>1, ActionType
<1>7. \/ /\ applied' = chan /\ canceler' = {} /\ acts' = others
         /\ attempt' = attempt
      \/ /\ attempt' = 1 /\ canceler' = {<<rev + 1, 1>>} /\ applied' = applied
         /\ acts' = others \cup {Action(rev + 1, 1, chan, p, target, set)}
  BY DEF Receive, StartAction
<1> HIDE DEF target, set, p, others
<1>8. acts' \subseteq Actions /\ \A a \in acts' : Named(a.des) /\ TodoFits(a)
  BY <1>5, <1>6, <1>7
<1>9. /\ applied' \in Desired \cup {None} /\ attempt' \in Nat
      /\ canceler' \subseteq Nat \X Nat
  BY <1>1, <1>7 DEF Typed, TypeOK
<1>10. /\ rev' = rev + 1 /\ current' = chan /\ lastSteps' = chan.steps
       /\ retrying' = FALSE /\ chan' = None
       /\ UNCHANGED <<envVars, stopped, results, host, userActs, ctxDone>>
  BY DEF Receive
<1>11. TypeOK'
  <2>1. chan.steps \in Int
    BY <1>1 DEF Desired
  <2>2. /\ rev' \in Nat /\ current' \in Desired /\ lastSteps' \in Int
        /\ settled' \in Int /\ plan' \subseteq Kinds
        /\ hostTarget' \in 0..MaxVolume \cup {None}
        /\ retrying' = FALSE /\ chan' = None
    BY <1>1, <1>2, <1>3, <1>4, <1>10, <2>1 DEF Typed, TypeOK
  <2>3. UNCHANGED <<obs, sends, stopped, results, host, userActs, ctxDone>>
    BY <1>10 DEF envVars
  <2> QED
    BY <1>8, <1>9, <2>2, <2>3 DEF Typed, TypeOK
<1>12. Fits'
  BY <1>1, <1>4, <1>8, <1>10 DEF Typed, Fits, envVars
<1> QED
  BY <1>11, <1>12 DEF Typed

LEMMA ControllerTyped == ASSUME Typed, Controller PROVE Typed'
<1>1. CASE Receive
  BY <1>1, ReceiveTyped
<1>2. CASE DropResult
  BY <1>2 DEF DropResult, Typed, TypeOK, Fits, envVars, ctlVars
<1>3. CASE HandleResult
  <2>1. acts' \subseteq Actions /\ \A a \in acts' : Named(a.des) /\ TodoFits(a)
    BY <1>3, CancelType DEF HandleResult, Typed, TypeOK, Fits
  <2>2. results \in [rev : Nat, des : Desired, err : BOOLEAN]
    BY <1>3 DEF HandleResult, Typed, TypeOK
  <2>3. results.des \in Desired /\ results.des.steps \in Int
    BY <2>2 DEF Desired
  <2>4. /\ applied' \in Desired \cup {None} /\ settled' \in Int
        /\ hostTarget' \in 0..MaxVolume \cup {None} /\ retrying' \in BOOLEAN
    BY <1>3, <2>3 DEF HandleResult, Typed, TypeOK
  <2>5. /\ canceler' = {} /\ results' = None
        /\ UNCHANGED <<envVars, chan, rev, current, plan, attempt, lastSteps,
                       stopped, host, userActs, ctxDone>>
    BY <1>3 DEF HandleResult
  <2>6. TypeOK'
    BY <2>1, <2>4, <2>5 DEF Typed, TypeOK, envVars
  <2>7. Fits'
    BY <2>1, <2>5 DEF Typed, Fits, envVars
  <2> QED
    BY <2>6, <2>7 DEF Typed
<1>4. CASE RetryFires
  <2> DEFINE a == Action(rev, attempt + 1, current, plan, hostTarget, settled)
  <2>1. a \in Actions /\ Named(a.des) /\ TodoFits(a)
    <3>1. /\ TypeOK /\ rev \in Nat /\ attempt + 1 \in Nat
          /\ current \in Desired /\ Named(current)
          /\ plan \in SUBSET Kinds /\ PlanFits(plan, current)
          /\ hostTarget \in 0..MaxVolume \cup {None} /\ settled \in Int
      BY DEF Typed, TypeOK, Fits
    <3> QED
      BY <3>1, ActionType
  <2> HIDE DEF a
  <2>2. acts' = acts \cup {a}
    BY <1>4 DEF RetryFires, StartAction, a
  <2>3. TypeOK'
    <3>1. /\ attempt' = attempt + 1 /\ attempt' \in Nat
          /\ canceler' = {<<rev, attempt'>>} /\ canceler' \subseteq Nat \X Nat
      BY <1>4 DEF RetryFires, StartAction, Typed, TypeOK
    <3>2. /\ retrying' = FALSE
          /\ UNCHANGED <<envVars, chan, rev, current, applied, plan, settled,
                         lastSteps, hostTarget, stopped, results, host,
                         userActs, ctxDone>>
      BY <1>4 DEF RetryFires
    <3> QED
      BY <2>1, <2>2, <3>1, <3>2 DEF Typed, TypeOK, envVars
  <2>4. Fits'
    BY <1>4, <2>1, <2>2 DEF RetryFires, Typed, Fits, envVars
  <2> QED
    BY <2>3, <2>4 DEF Typed
<1>5. CASE Stop
  <2>1. acts' \subseteq Actions /\ \A a \in acts' : Named(a.des) /\ TodoFits(a)
    BY <1>5, CancelType DEF Stop, Typed, TypeOK, Fits
  <2>2. TypeOK'
    BY <1>5, <2>1 DEF Stop, Typed, TypeOK, envVars
  <2>3. Fits'
    BY <1>5, <2>1 DEF Stop, Typed, Fits, envVars
  <2> QED
    BY <2>2, <2>3 DEF Typed
<1> QED
  BY <1>1, <1>2, <1>3, <1>4, <1>5 DEF Controller

(* Replacing an action by a fitting one keeps the set of actions typed. *)
LEMMA ReplaceType ==
  ASSUME Typed, NEW a \in acts, NEW b \in Actions, Named(b.des), TodoFits(b),
         Replace(a, b)
  PROVE  acts' \subseteq Actions /\ \A x \in acts' : Named(x.des) /\ TodoFits(x)
  BY DEF Replace, Typed, TypeOK, Fits

LEMMA PerformTyped ==
  ASSUME Typed, NEW a \in acts, NEW c \in Commands, Perform(a, c)
  PROVE  Typed'
<1> DEFINE b == [a EXCEPT !.todo = @ \ {c}, !.target = TargetAfter(c, a)]
<1>1. a \in Actions /\ Named(a.des) /\ TodoFits(a) /\ At(a, c) /\ c \in a.todo
  BY DEF Typed, TypeOK, Fits, Perform, At
<1>2. TargetAfter(c, a) \in 0..MaxVolume \cup {None}
      /\ (c = "read" => TargetAfter(c, a) \in 0..MaxVolume)
  <2>1. CASE c = "read"
    <3>1. a.des \in Desired /\ a.des.usb \in Adapters
      BY <1>1, <2>1 DEF Actions, Named, TodoFits
    <3>2. host.volume[a.des.usb] \in 0..MaxVolume
      BY <3>1 DEF Typed, TypeOK
    <3>3. a.des.steps \in Int /\ a.settled \in Int
      BY <1>1, <3>1 DEF Actions, Desired
    <3>4. host.volume[a.des.usb] + (a.des.steps - a.settled) \in Int
      BY <3>2, <3>3, ValueAssumption
    <3> QED
      BY <2>1, <3>4, ClampType DEF TargetAfter
  <2>2. CASE c # "read"
    BY <1>1, <2>2 DEF TargetAfter, Actions
  <2> QED
    BY <2>1, <2>2
<1>3. /\ b \in Actions /\ b.des = a.des /\ b.todo = a.todo \ {c}
      /\ b.target = TargetAfter(c, a)
  BY <1>1, <1>2 DEF Actions
<1>4. TodoFits(b)
  <2> SUFFICES ASSUME NEW x \in b.todo, x \in {"resolve", "write"}
               PROVE  b.target # None \/ "read" \in b.todo
    BY <1>1, <1>3 DEF TodoFits
  <2>1. CASE c = "read"
    BY <1>2, <1>3, <2>1, NoneAssumption
  <2>2. CASE c # "read"
    BY <1>1, <1>3, <2>2 DEF TodoFits, TargetAfter
  <2> QED
    BY <2>1, <2>2
<1>5. acts' \subseteq Actions /\ \A x \in acts' : Named(x.des) /\ TodoFits(x)
  <2>1. Replace(a, b)
    BY DEF Perform
  <2> HIDE DEF b
  <2> QED
    BY <1>1, <1>3, <1>4, <2>1, ReplaceType
<1>6. /\ host' = Effect(host, c, a)
      /\ UNCHANGED <<envVars, chan, ctlVars, results, userActs, ctxDone>>
  BY DEF Perform
<1>7. TypeOK'
  BY <1>1, <1>5, <1>6, EffectType DEF Typed, TypeOK, envVars, ctlVars
<1>8. Fits'
  BY <1>5, <1>6 DEF Typed, Fits, envVars, ctlVars
<1> QED
  BY <1>7, <1>8 DEF Typed

(* An action that has failed keeps its data. *)
LEMMA FailedType ==
  ASSUME Typed, NEW a \in acts, Replace(a, [a EXCEPT !.err = TRUE])
  PROVE  acts' \subseteq Actions /\ \A x \in acts' : Named(x.des) /\ TodoFits(x)
<1> DEFINE b == [a EXCEPT !.err = TRUE]
<1>1. a \in Actions /\ Named(a.des) /\ TodoFits(a)
  BY DEF Typed, TypeOK, Fits
<1>2. b \in Actions /\ b.des = a.des /\ b.todo = a.todo /\ b.target = a.target
  BY <1>1 DEF Actions
<1>3. Named(b.des) /\ TodoFits(b)
  BY <1>1, <1>2 DEF TodoFits
<1> HIDE DEF b
<1> QED
  BY <1>2, <1>3, ReplaceType DEF b

LEMMA ActionStepTyped == ASSUME Typed, NEW a \in acts, ActionStep(a) PROVE Typed'
<1>1. ASSUME NEW c \in Commands, Perform(a, c) PROVE Typed'
  BY <1>1, PerformTyped
<1>2. ASSUME NEW c \in Commands, Fail(a, c) PROVE Typed'
  <2>1. acts' \subseteq Actions /\ \A x \in acts' : Named(x.des) /\ TodoFits(x)
    BY <1>2, FailedType DEF Fail
  <2>2. /\ host' \in {host, Effect(host, c, a)}
        /\ UNCHANGED <<envVars, chan, ctlVars, results, userActs, ctxDone>>
        /\ At(a, c)
    BY <1>2 DEF Fail
  <2>3. TypeOK'
    BY <2>1, <2>2, EffectType DEF Typed, TypeOK, envVars, ctlVars
  <2>4. Fits'
    BY <2>1, <2>2 DEF Typed, Fits, envVars, ctlVars
  <2> QED
    BY <2>3, <2>4 DEF Typed
<1>3. CASE Resolve(a)
  <2> DEFINE b == [a EXCEPT !.todo = @ \ {"resolve"}]
  <2>1. a \in Actions /\ Named(a.des) /\ TodoFits(a) /\ "read" \notin a.todo
    BY <1>3 DEF Typed, TypeOK, Fits, Resolve, At, Rank
  <2>2. /\ b \in Actions /\ b.des = a.des /\ b.todo = a.todo \ {"resolve"}
        /\ b.target = a.target
    BY <2>1 DEF Actions
  <2>3. Named(b.des) /\ TodoFits(b)
    BY <2>1, <2>2 DEF TodoFits
  <2>4. Replace(a, b)
    BY <1>3 DEF Resolve
  <2> HIDE DEF b
  <2>5. acts' \subseteq Actions /\ \A x \in acts' : Named(x.des) /\ TodoFits(x)
    BY <2>2, <2>3, <2>4, ReplaceType
  <2>6. hostTarget' \in 0..MaxVolume \cup {None}
    BY <1>3, <2>1 DEF Resolve, Typed, TypeOK, Actions
  <2>7. UNCHANGED <<envVars, chan, rev, current, applied, plan, attempt, canceler,
                    retrying, settled, lastSteps, stopped, results, host,
                    userActs, ctxDone>>
    BY <1>3 DEF Resolve
  <2>8. TypeOK'
    BY <2>5, <2>6, <2>7 DEF Typed, TypeOK, envVars
  <2>9. Fits'
    BY <2>5, <2>7 DEF Typed, Fits, envVars
  <2> QED
    BY <2>8, <2>9 DEF Typed
<1>4. CASE AbandonResolve(a)
  <2>1. acts' \subseteq Actions /\ \A x \in acts' : Named(x.des) /\ TodoFits(x)
    BY <1>4, FailedType DEF AbandonResolve
  <2>2. UNCHANGED <<envVars, chan, ctlVars, results, host, userActs, ctxDone>>
    BY <1>4 DEF AbandonResolve
  <2> QED
    BY <2>1, <2>2 DEF Typed, TypeOK, Fits, envVars, ctlVars
<1>5. CASE Report(a)
  <2>1. results' \in [rev : Nat, des : Desired, err : BOOLEAN]
    <3>1. a \in Actions
      BY DEF Typed, TypeOK
    <3> QED
      BY <1>5, <3>1 DEF Report, Actions
  <2>2. acts' = acts \ {a} /\ UNCHANGED <<envVars, chan, ctlVars, host, userActs, ctxDone>>
    BY <1>5 DEF Report
  <2> QED
    BY <2>1, <2>2 DEF Typed, TypeOK, Fits, envVars, ctlVars
<1>6. CASE Leave(a)
  BY <1>6 DEF Leave, Typed, TypeOK, Fits, envVars, ctlVars
<1> QED
  BY <1>1, <1>2, <1>3, <1>4, <1>5, <1>6 DEF ActionStep

-----------------------------------------------------------------------------
(* Why cancellation is safe: what the controller's cancel function, the     *)
(* action goroutines and the waiting result say of the current revision.    *)
ControlInv ==
  /\ canceler \subseteq {<<rev, attempt>>}
  /\ retrying => canceler = {}
  /\ \A a \in acts : /\ a.rev <= rev
                     /\ ~a.cancelled => canceler = {Id(a)}
                     /\ a.rev = rev /\ ~stopped => canceler # {}
  /\ \A a, b \in acts : a.rev = b.rev => a = b
  /\ results # None =>
       /\ results.rev <= rev
       /\ results.rev = rev => /\ ~stopped => canceler # {}
                              /\ \A a \in acts : a.rev # rev

LEMMA ControlInit == ASSUME Init PROVE ControlInv
  BY DEF Init, ControlInv

(* After actionCancel, and whatever else is done to the flags, no action    *)
(* outlives the canceler; revisions stay as they are.                       *)
LEMMA CancelControl ==
  ASSUME Typed, ControlInv
  PROVE  /\ \A a \in Cancel(acts, canceler) : a.cancelled /\ a.rev \in Nat /\ a.rev <= rev
         /\ \A a, b \in Cancel(acts, canceler) : a.rev = b.rev => a = b
         /\ \A n : (\A a \in acts : a.rev # n)
                    => \A a \in Cancel(acts, canceler) : a.rev # n
<1> DEFINE C(a) == [a EXCEPT !.cancelled = @ \/ Id(a) \in canceler]
<1>1. ASSUME NEW a \in acts
      PROVE  /\ C(a).rev = a.rev /\ C(a).rev \in Nat /\ C(a).rev <= rev
             /\ C(a).cancelled
  <2>1. a \in Actions /\ a.rev <= rev
    BY DEF Typed, TypeOK, ControlInv
  <2>2. C(a).rev = a.rev /\ a.rev \in Nat
    BY <2>1 DEF Actions
  <2>3. C(a).cancelled = (a.cancelled \/ Id(a) \in canceler)
    BY <2>1 DEF Actions
  <2>4. a.cancelled \/ Id(a) \in canceler
    BY DEF ControlInv
  <2> QED
    BY <2>1, <2>2, <2>3, <2>4
<1>2. Cancel(acts, canceler) = {C(a) : a \in acts}
  BY DEF Cancel
<1>3. \A a, b \in acts : a.rev = b.rev => a = b
  BY DEF ControlInv
<1> HIDE DEF C
<1> QED
  BY <1>1, <1>2, <1>3

(* An action that moves on under the same identity disturbs nothing. *)
LEMMA ReplaceControl ==
  ASSUME Typed, ControlInv, NEW a \in acts, NEW b,
         b.rev = a.rev, b.att = a.att, b.cancelled = a.cancelled, Replace(a, b),
         UNCHANGED <<rev, attempt, canceler, retrying, stopped, results>>
  PROVE  ControlInv'
  BY DEF ControlInv, Replace, Id

LEMMA EnvironmentControl ==
  ASSUME Typed, ControlInv, Environment
  PROVE  ControlInv'
<1>1. CASE CancelContext
  <2> DEFINE C(a) == [a EXCEPT !.cancelled = TRUE]
  <2>1. ASSUME NEW a \in acts PROVE C(a).rev = a.rev /\ C(a).cancelled
    BY DEF Typed, TypeOK, Actions
  <2>2. acts' = {C(a) : a \in acts}
    BY <1>1 DEF CancelContext
  <2> HIDE DEF C
  <2>3. UNCHANGED <<rev, attempt, canceler, retrying, stopped, results>>
    BY <1>1 DEF CancelContext, ctlVars
  <2> QED
    BY <2>1, <2>2, <2>3 DEF ControlInv
<1>2. CASE ~CancelContext
  <2>1. UNCHANGED <<rev, attempt, canceler, retrying, stopped, results, acts>>
    BY <1>2 DEF Environment, ConnectHeadset, DisconnectHeadset, Interact, Send,
                UserPicksSink, UserSetsVolume, ctlVars
  <2> QED
    BY <2>1 DEF ControlInv, Id
<1> QED
  BY <1>1, <1>2

LEMMA ControllerControl ==
  ASSUME Typed, ControlInv, Controller
  PROVE  ControlInv'
<1>1. CASE Receive
  <2>1. /\ rev' = rev + 1 /\ retrying' = FALSE /\ results' = results /\ rev \in Nat
        /\ stopped' = stopped
    BY <1>1 DEF Receive, Typed, TypeOK
  <2>2. PICK p, t, s :
          \/ canceler' = {} /\ acts' = Cancel(acts, canceler)
          \/ /\ attempt' = 1 /\ canceler' = {<<rev + 1, 1>>}
             /\ acts' = Cancel(acts, canceler) \cup {Action(rev + 1, 1, chan, p, t, s)}
    BY <1>1 DEF Receive, StartAction
  <2> DEFINE n == Action(rev + 1, 1, chan, p, t, s)
  <2>3. n.rev = rev + 1 /\ n.att = 1
    BY DEF Action
  <2> HIDE DEF n
  <2>4. results # None => results.rev \in Nat /\ results.rev <= rev
    BY DEF Typed, TypeOK, ControlInv
  <2>5. \A a \in Cancel(acts, canceler) : a.rev # rev + 1 /\ a.rev <= rev + 1
    BY <2>1, CancelControl
  <2>6. CASE canceler' = {} /\ acts' = Cancel(acts, canceler)
    BY <2>1, <2>4, <2>5, <2>6, CancelControl DEF ControlInv
  <2>7. CASE /\ attempt' = 1 /\ canceler' = {<<rev + 1, 1>>}
             /\ acts' = Cancel(acts, canceler) \cup {n}
    BY <2>1, <2>3, <2>4, <2>5, <2>7, CancelControl DEF ControlInv, Id
  <2> QED
    BY <2>2, <2>6, <2>7 DEF n
<1>2. CASE DropResult
  BY <1>2 DEF DropResult, ControlInv, ctlVars, Id
<1>3. CASE HandleResult
  <2>1. /\ acts' = Cancel(acts, canceler) /\ canceler' = {} /\ results' = None
        /\ UNCHANGED <<rev, attempt, stopped>>
    BY <1>3 DEF HandleResult
  <2>2. \A a \in acts : a.rev # rev
    BY <1>3 DEF HandleResult, ControlInv
  <2> QED
    BY <2>1, <2>2, CancelControl DEF ControlInv
<1>4. CASE RetryFires
  <2> DEFINE n == Action(rev, attempt + 1, current, plan, hostTarget, settled)
  <2>1. /\ acts' = acts \cup {n} /\ attempt' = attempt + 1 /\ retrying' = FALSE
        /\ canceler' = {<<rev, attempt'>>} /\ ~stopped /\ retrying
        /\ UNCHANGED <<rev, stopped, results>>
    BY <1>4 DEF RetryFires, StartAction
  <2>2. n.rev = rev /\ n.att = attempt + 1
    BY DEF Action
  <2> HIDE DEF n
  <2>3. canceler = {}
    BY <2>1 DEF ControlInv
  <2>4. \A a \in acts : a.rev # rev /\ a.cancelled
    BY <2>1, <2>3 DEF ControlInv
  <2>5. results # None => results.rev # rev
    BY <2>1, <2>3 DEF ControlInv
  <2>6. rev \in Nat
    BY DEF Typed, TypeOK
  <2> QED
    BY <2>1, <2>2, <2>3, <2>4, <2>5, <2>6 DEF ControlInv, Id
<1>5. CASE Stop
  <2>1. /\ acts' = Cancel(acts, canceler) /\ canceler' = {} /\ retrying' = FALSE
        /\ stopped' = TRUE /\ UNCHANGED <<rev, attempt, results>>
    BY <1>5 DEF Stop
  <2> QED
    BY <2>1, CancelControl DEF ControlInv
<1> QED
  BY <1>1, <1>2, <1>3, <1>4, <1>5 DEF Controller

LEMMA ActionStepControl ==
  ASSUME Typed, ControlInv, NEW a \in acts, ActionStep(a)
  PROVE  ControlInv'
<1>0. a \in Actions
  BY DEF Typed, TypeOK
<1>1. ASSUME NEW c \in Commands, Perform(a, c) PROVE ControlInv'
  <2> DEFINE b == [a EXCEPT !.todo = @ \ {c}, !.target = TargetAfter(c, a)]
  <2>1. b.rev = a.rev /\ b.att = a.att /\ b.cancelled = a.cancelled
    BY <1>0 DEF Actions
  <2>2. /\ Replace(a, b)
        /\ UNCHANGED <<rev, attempt, canceler, retrying, stopped, results>>
    BY <1>1 DEF Perform, ctlVars
  <2> HIDE DEF b
  <2> QED
    BY <2>1, <2>2, ReplaceControl
<1>2. ASSUME \/ \E c \in Commands : Fail(a, c)
             \/ AbandonResolve(a)
      PROVE  ControlInv'
  <2> DEFINE b == [a EXCEPT !.err = TRUE]
  <2>1. b.rev = a.rev /\ b.att = a.att /\ b.cancelled = a.cancelled
    BY <1>0 DEF Actions
  <2>2. /\ Replace(a, b)
        /\ UNCHANGED <<rev, attempt, canceler, retrying, stopped, results>>
    BY <1>2 DEF Fail, AbandonResolve, ctlVars
  <2> HIDE DEF b
  <2> QED
    BY <2>1, <2>2, ReplaceControl
<1>3. CASE Resolve(a)
  <2> DEFINE b == [a EXCEPT !.todo = @ \ {"resolve"}]
  <2>1. b.rev = a.rev /\ b.att = a.att /\ b.cancelled = a.cancelled
    BY <1>0 DEF Actions
  <2>2. /\ Replace(a, b)
        /\ UNCHANGED <<rev, attempt, canceler, retrying, stopped, results>>
    BY <1>3 DEF Resolve
  <2> HIDE DEF b
  <2> QED
    BY <2>1, <2>2, ReplaceControl
<1>4. CASE Report(a)
  <2>1. /\ acts' = acts \ {a} /\ results'.rev = a.rev
        /\ UNCHANGED <<rev, attempt, canceler, retrying, stopped>>
    BY <1>4 DEF Report, ctlVars
  <2> QED
    BY <2>1 DEF ControlInv, Id
<1>5. CASE Leave(a)
  <2>1. /\ acts' = acts \ {a}
        /\ UNCHANGED <<rev, attempt, canceler, retrying, stopped, results>>
    BY <1>5 DEF Leave, ctlVars
  <2> QED
    BY <2>1 DEF ControlInv, Id
<1> QED
  BY <1>1, <1>2, <1>3, <1>4, <1>5 DEF ActionStep

(* The inductive invariant behind the theorems below.                       *)
THEOREM Control == Spec => [](Typed /\ ControlInv)
<1>1. Init => Typed /\ ControlInv
  BY TypedInit, ControlInit
<1>2. Typed /\ ControlInv /\ [Next]_vars => Typed' /\ ControlInv'
  <2> SUFFICES ASSUME Typed, ControlInv, [Next]_vars PROVE Typed' /\ ControlInv'
    OBVIOUS
  <2>1. CASE Environment
    BY <2>1, EnvironmentTyped, EnvironmentControl
  <2>2. CASE Controller
    BY <2>2, ControllerTyped, ControllerControl
  <2>3. ASSUME NEW a \in acts, ActionStep(a) PROVE Typed' /\ ControlInv'
    BY <2>3, ActionStepTyped, ActionStepControl
  <2>4. CASE UNCHANGED vars
    BY <2>4 DEF Typed, TypeOK, Fits, ControlInv, Id, vars, envVars, ctlVars
  <2> QED
    BY <2>1, <2>2, <2>3, <2>4 DEF Next
<1> QED
  BY <1>1, <1>2, PTL DEF Spec

(* No step takes a variable out of its type.                                *)
THEOREM TypeCorrect == Spec => []TypeOK
  BY Control, PTL DEF Typed

(* However fast desired states follow one another and whatever fails, at    *)
(* most one action is not cancelled, and the controller can cancel it.      *)
THEOREM OneLive == Spec => []OneLiveAction
<1>1. Typed /\ ControlInv => OneLiveAction
  <2> SUFFICES ASSUME Typed, ControlInv PROVE OneLiveAction
    OBVIOUS
  <2>1. \A a \in acts : ~a.cancelled => canceler = {Id(a)}
    BY DEF ControlInv
  <2>2. ASSUME NEW a \in acts, NEW b \in acts, ~a.cancelled, ~b.cancelled
        PROVE  a = b
    <3>1. Id(a) = Id(b)
      BY <2>1, <2>2
    <3> QED
      BY <3>1, <2>2 DEF ControlInv, Id
  <2> QED
    BY <2>1, <2>2 DEF OneLiveAction
<1> QED
  BY <1>1, Control, PTL

(* The call of actionCancel on a result of the current revision never meets *)
(* a nil function.                                                          *)
THEOREM CancelNeverNil == Spec => []NoNilCancel
<1>1. ControlInv => NoNilCancel
  BY DEF ControlInv, NoNilCancel
<1> QED
  BY <1>1, Control, PTL
-----------------------------------------------------------------------------
(* What the current revision's action, plan and result say of one another.  *)
(* The calls still to make belong to the plan, which is only made in the    *)
(* mode it is for; while anything is under way its reasons still hold.      *)
PlanMode ==
  ("volume" \in plan => ~HostOnly) /\ ("hostVolume" \in plan => HostOnly)

ForCurrent(a) ==
  /\ a.des = current /\ a.settled = settled
  /\ a.todo \cap {"sink", "source"} # {} => "route" \in plan
  /\ a.todo \cap {"read", "resolve", "write"} # {} => "hostVolume" \in plan
  /\ "volume" \in a.todo => "volume" \in plan
  /\ "mute" \in a.todo => "mute" \in plan
  /\ ~ctxDone => ~a.cancelled

Reasons ==
  /\ "route" \in plan => RouteNeeded(current, applied)
  /\ "hostVolume" \in plan => current.steps # settled

CurrentInv ==
  /\ PlanMode
  /\ ctxDone => \A a \in acts : a.cancelled
  /\ \A a \in acts : a.rev = rev => ForCurrent(a)
  /\ canceler # {} \/ retrying => Reasons
  /\ results # None /\ results.rev = rev => results.des = current
  /\ lastSteps = current.steps

(* Two actions that differ in the flag of their context at most. *)
Alike(x, a) ==
  /\ x.rev = a.rev /\ x.att = a.att /\ x.des = a.des /\ x.target = a.target
  /\ x.settled = a.settled /\ x.todo = a.todo /\ x.err = a.err

LEMMA CancelKeeps ==
  ASSUME Typed, NEW c, NEW x \in Cancel(acts, c)
  PROVE  \E a \in acts : Alike(x, a) /\ (a.cancelled => x.cancelled)
<1>1. PICK a \in acts : x = [a EXCEPT !.cancelled = @ \/ Id(a) \in c]
  BY DEF Cancel
<1>2. a \in Actions
  BY DEF Typed, TypeOK
<1> QED
  BY <1>1, <1>2 DEF Alike, Actions

LEMMA CancelContextKeeps ==
  ASSUME Typed, CancelContext, NEW x \in acts'
  PROVE  x.cancelled /\ \E a \in acts : Alike(x, a)
<1>1. PICK a \in acts : x = [a EXCEPT !.cancelled = TRUE]
  BY DEF CancelContext
<1>2. a \in Actions
  BY DEF Typed, TypeOK
<1> QED
  BY <1>1, <1>2 DEF Alike, Actions

(* An action that is not cancelled is the current revision's only one, and  *)
(* nothing else of that revision is pending.                                *)
LEMMA LiveIsCurrent ==
  ASSUME Typed, ControlInv, NEW a \in acts, ~a.cancelled
  PROVE  /\ a.rev = rev /\ canceler # {} /\ ~retrying
         /\ \A x \in acts : x.rev = rev => x = a
         /\ results # None => results.rev # rev
<1>1. canceler = {<<a.rev, a.att>>} /\ canceler \subseteq {<<rev, attempt>>}
  BY DEF ControlInv, Id
<1>2. a.rev = rev
  BY <1>1
<1> QED
  BY <1>1, <1>2 DEF ControlInv

(* After actionCancel nothing of revision n is left to run, if nothing was. *)
LEMMA CancelRevisions ==
  ASSUME Typed, ControlInv
  PROVE  /\ \A x \in Cancel(acts, canceler) : x.rev # rev + 1 /\ x.cancelled
         /\ (\A a \in acts : a.rev # rev)
              => \A x \in Cancel(acts, canceler) : x.rev # rev
<1>1. rev \in Nat
  BY DEF Typed, TypeOK
<1> QED
  BY <1>1, CancelControl

LEMMA ActionCurrent ==
  ASSUME NEW r, NEW n, NEW d, NEW p, NEW t, NEW s
  PROVE  LET a == Action(r, n, d, p, t, s)
         IN  /\ a.rev = r /\ a.des = d /\ a.target = t /\ a.settled = s
             /\ a.todo = CallsOf(p, t) /\ a.cancelled = ctxDone /\ a.err = ctxDone
             /\ a.todo \cap {"sink", "source"} # {} => "route" \in p
             /\ a.todo \cap {"read", "resolve", "write"} # {} => "hostVolume" \in p
             /\ "volume" \in a.todo => "volume" \in p
             /\ "mute" \in a.todo => "mute" \in p
  BY DEF Action, CallsOf

LEMMA CurrentInit == ASSUME Init PROVE CurrentInv
  BY DEF Init, CurrentInv, PlanMode, Zero

LEMMA EnvironmentCurrent ==
  ASSUME Typed, CurrentInv, Environment
  PROVE  CurrentInv'
<1>1. CASE CancelContext
  <2>1. /\ UNCHANGED <<rev, current, applied, plan, canceler, retrying, settled,
                       lastSteps, results>>
        /\ ctxDone' = TRUE
    BY <1>1 DEF CancelContext, ctlVars
  <2>2. ASSUME NEW x \in acts'
        PROVE  x.cancelled /\ (x.rev = rev => ForCurrent(x)')
    <3>1. PICK a \in acts : x.cancelled /\ Alike(x, a)
      BY <1>1, CancelContextKeeps
    <3> QED
      BY <2>1, <3>1 DEF Alike, CurrentInv, ForCurrent
  <2> QED
    BY <2>1, <2>2 DEF CurrentInv, PlanMode, Reasons
<1>2. CASE ~CancelContext
  <2>1. UNCHANGED <<rev, current, applied, plan, canceler, retrying, settled,
                    lastSteps, results, acts, ctxDone>>
    BY <1>2 DEF Environment, ConnectHeadset, DisconnectHeadset, Interact, Send,
                UserPicksSink, UserSetsVolume, ctlVars
  <2> QED
    BY <2>1 DEF CurrentInv, PlanMode, ForCurrent, Reasons
<1> QED
  BY <1>1, <1>2

(* What startAction leaves behind, for the plan p made for desired state d. *)
LEMMA ReceiveCurrent ==
  ASSUME Typed, ControlInv, CurrentInv, Receive
  PROVE  CurrentInv'
<1>1. PICK p, t, s :
        /\ plan' = p /\ settled' = s /\ hostTarget' = t /\ p = Plan(chan, applied, s)
        /\ \/ p = {} /\ canceler' = {} /\ acts' = Cancel(acts, canceler)
           \/ /\ applied' = applied
              /\ acts' = Cancel(acts, canceler)
                           \cup {Action(rev + 1, 1, chan, p, t, s)}
  BY DEF Receive, StartAction
<1>2. /\ rev' = rev + 1 /\ current' = chan /\ lastSteps' = chan.steps
      /\ retrying' = FALSE /\ results' = results /\ ctxDone' = ctxDone
  BY DEF Receive
<1>3. PlanMode'
  BY <1>1 DEF Plan, PlanMode, VolumeNeeded, HostVolumeNeeded
<1>4. Reasons'
  BY <1>1, <1>2 DEF Plan, Reasons, HostVolumeNeeded
<1>5. ASSUME NEW x \in acts'
      PROVE  (ctxDone => x.cancelled) /\ (x.rev = rev' => ForCurrent(x)')
  <2>1. CASE x \in Cancel(acts, canceler)
    BY <1>2, <2>1, CancelRevisions
  <2>2. CASE x = Action(rev + 1, 1, chan, p, t, s)
    BY <1>1, <1>2, <2>2, ActionCurrent DEF ForCurrent
  <2> QED
    BY <1>1, <2>1, <2>2
<1>6. results # None => results.rev # rev'
  BY <1>2 DEF Typed, TypeOK, ControlInv
<1> QED
  BY <1>1, <1>2, <1>3, <1>4, <1>5, <1>6 DEF CurrentInv

LEMMA ControllerCurrent ==
  ASSUME Typed, ControlInv, CurrentInv, Controller
  PROVE  CurrentInv'
<1>1. CASE Receive
  BY <1>1, ReceiveCurrent
<1>2. CASE DropResult
  BY <1>2 DEF DropResult, CurrentInv, PlanMode, ForCurrent, Reasons, ctlVars
<1>3. CASE HandleResult
  <2>1. /\ acts' = Cancel(acts, canceler) /\ canceler' = {} /\ results' = None
        /\ UNCHANGED <<rev, current, plan, lastSteps, ctxDone>>
        /\ retrying' => UNCHANGED <<applied, settled>> \/ retrying
    BY <1>3 DEF HandleResult
  <2>2. canceler # {} /\ ~retrying /\ \A a \in acts : a.rev # rev
    BY <1>3 DEF HandleResult, ControlInv
  <2>3. \A x \in acts' : x.rev # rev /\ x.cancelled
    BY <2>1, <2>2, CancelRevisions
  <2>4. retrying' => Reasons'
    BY <2>1, <2>2 DEF CurrentInv, Reasons
  <2> QED
    BY <2>1, <2>3, <2>4 DEF CurrentInv, PlanMode
<1>4. CASE RetryFires
  <2>0. PICK n : n = Action(rev, attempt + 1, current, plan, hostTarget, settled)
    OBVIOUS
  <2>1. /\ acts' = acts \cup {n} /\ retrying /\ ~stopped
        /\ UNCHANGED <<rev, current, applied, plan, settled, lastSteps, results,
                       ctxDone>>
    BY <1>4, <2>0 DEF RetryFires, StartAction
  <2>2. ForCurrent(n) /\ (ctxDone => n.cancelled)
    BY <2>0, ActionCurrent DEF ForCurrent
  <2>3. ForCurrent(n)'
    BY <2>1, <2>2 DEF ForCurrent
  <2> QED
    BY <2>1, <2>2, <2>3 DEF CurrentInv, PlanMode, ForCurrent, Reasons
<1>5. CASE Stop
  <2>1. /\ acts' = Cancel(acts, canceler) /\ canceler' = {} /\ retrying' = FALSE
        /\ UNCHANGED <<rev, current, plan, settled, lastSteps, results, ctxDone>>
        /\ ctxDone
    BY <1>5 DEF Stop
  <2>2. ASSUME NEW x \in acts'
        PROVE  x.cancelled /\ (x.rev = rev => ForCurrent(x)')
    <3>1. PICK a \in acts : Alike(x, a)
      BY <2>1, CancelKeeps
    <3> QED
      BY <2>1, <3>1, CancelRevisions DEF Alike, CurrentInv, ForCurrent
  <2> QED
    BY <2>1, <2>2 DEF CurrentInv, PlanMode
<1> QED
  BY <1>1, <1>2, <1>3, <1>4, <1>5 DEF Controller

LEMMA ActionStepCurrent ==
  ASSUME Typed, CurrentInv, NEW a \in acts, ActionStep(a)
  PROVE  CurrentInv'
<1>1. a \in Actions
  BY DEF Typed, TypeOK
<1>2. UNCHANGED <<rev, current, applied, plan, canceler, retrying, settled,
                  lastSteps, ctxDone>>
  BY DEF ActionStep, Perform, Fail, Resolve, AbandonResolve, Report, Leave, ctlVars
<1>3. ASSUME NEW b, b.rev = a.rev, b.des = a.des, b.settled = a.settled,
             b.todo \subseteq a.todo, b.cancelled = a.cancelled,
             Replace(a, b), results' = results
      PROVE  CurrentInv'
  <2>1. ASSUME NEW x \in acts'
        PROVE  (ctxDone => x.cancelled) /\ (x.rev = rev => ForCurrent(x))
    BY <1>3 DEF Replace, CurrentInv, ForCurrent
  <2> QED
    BY <1>2, <1>3, <2>1 DEF CurrentInv, PlanMode, ForCurrent, Reasons
<1>4. ASSUME NEW c \in Commands, Perform(a, c) PROVE CurrentInv'
  <2> DEFINE b == [a EXCEPT !.todo = @ \ {c}, !.target = TargetAfter(c, a)]
  <2>1. /\ b.rev = a.rev /\ b.des = a.des /\ b.settled = a.settled
        /\ b.todo \subseteq a.todo /\ b.cancelled = a.cancelled
    BY <1>1 DEF Actions
  <2>2. Replace(a, b) /\ results' = results
    BY <1>4 DEF Perform
  <2> HIDE DEF b
  <2> QED
    BY <1>3, <2>1, <2>2
<1>5. ASSUME (\E c \in Commands : Fail(a, c)) \/ AbandonResolve(a) PROVE CurrentInv'
  <2> DEFINE b == [a EXCEPT !.err = TRUE]
  <2>1. /\ b.rev = a.rev /\ b.des = a.des /\ b.settled = a.settled
        /\ b.todo \subseteq a.todo /\ b.cancelled = a.cancelled
    BY <1>1 DEF Actions
  <2>2. Replace(a, b) /\ results' = results
    BY <1>5 DEF Fail, AbandonResolve
  <2> HIDE DEF b
  <2> QED
    BY <1>3, <2>1, <2>2
<1>6. CASE Resolve(a)
  <2> DEFINE b == [a EXCEPT !.todo = @ \ {"resolve"}]
  <2>1. /\ b.rev = a.rev /\ b.des = a.des /\ b.settled = a.settled
        /\ b.todo \subseteq a.todo /\ b.cancelled = a.cancelled
    BY <1>1 DEF Actions
  <2>2. Replace(a, b) /\ results' = results
    BY <1>6 DEF Resolve
  <2> HIDE DEF b
  <2> QED
    BY <1>3, <2>1, <2>2
<1>7. CASE Report(a)
  <2>1. /\ acts' = acts \ {a} /\ results'.rev = a.rev /\ results'.des = a.des
    BY <1>7 DEF Report
  <2> QED
    BY <1>2, <2>1 DEF CurrentInv, PlanMode, ForCurrent, Reasons
<1>8. CASE Leave(a)
  BY <1>2, <1>8 DEF Leave, CurrentInv, PlanMode, ForCurrent, Reasons
<1> QED
  BY <1>4, <1>5, <1>6, <1>7, <1>8 DEF ActionStep

(* What the theorems that compare the host with the desired state rest on.  *)
Base == Typed /\ ControlInv /\ CurrentInv

THEOREM Current == Spec => []Base
<1>1. Init => CurrentInv
  BY CurrentInit
<1>2. Typed /\ ControlInv /\ CurrentInv /\ [Next]_vars => CurrentInv'
  <2> SUFFICES ASSUME Typed, ControlInv, CurrentInv, [Next]_vars PROVE CurrentInv'
    OBVIOUS
  <2>1. CASE Environment
    BY <2>1, EnvironmentCurrent
  <2>2. CASE Controller
    BY <2>2, ControllerCurrent
  <2>3. ASSUME NEW a \in acts, ActionStep(a) PROVE CurrentInv'
    BY <2>3, ActionStepCurrent
  <2>4. CASE UNCHANGED vars
    BY <2>4 DEF CurrentInv, PlanMode, ForCurrent, Reasons, vars, ctlVars
  <2> QED
    BY <2>1, <2>2, <2>3, <2>4 DEF Next
<1> QED
  BY <1>1, <1>2, Control, PTL DEF Spec, Base
-----------------------------------------------------------------------------
(* The parts of the plan for which no call of todo is left have taken       *)
(* effect on the host.                                                      *)
Landed(todo) ==
  /\ "route" \in plan =>
       /\ "sink" \notin todo => host.sink \in {SinkOf(current), Foreign}
       /\ "source" \notin todo /\ SourceRouting => host.source = SourceOf(current)
  /\ "volume" \in plan \ todo => host.volume[current.usb] = current.volume
  /\ "mute" \in plan \ todo => host.muted[current.usb] = current.muted

(* The calls of the current revision land one after another, and what has   *)
(* landed stays: while the action runs, when it has reported, and after.    *)
HostInv ==
  /\ \A a \in acts : a.rev = rev /\ ~a.err => Landed(a.todo)
  /\ results # None /\ results.rev = rev /\ ~results.err => Landed({})
  /\ Idle /\ ~ctxDone => Landed({})

LEMMA LandedIsHolds == Landed({}) => \A k \in plan : Holds(k)
  BY DEF Landed, Holds

(* Neither the user nor a step that leaves the host alone undoes a part.    *)
LEMMA LandedKept ==
  ASSUME NEW t, Landed(t), UNCHANGED <<plan, current>>,
         host'.sink \in {host.sink, Foreign},
         host'.source = host.source, host'.muted = host.muted,
         "volume" \in plan => host'.volume = host.volume
  PROVE  Landed(t)'
  BY DEF Landed

(* A live command lands, and undoes nothing that has.                       *)
LEMMA LandedPerform ==
  ASSUME Base, NEW a \in acts, NEW c \in Commands, Perform(a, c), Landed(a.todo)
  PROVE  Landed(a.todo \ {c})'
<1>1. /\ a \in Actions /\ Named(a.des) /\ TodoFits(a) /\ c \in a.todo
      /\ a.des = current
  BY LiveIsCurrent
  DEF Base, Typed, TypeOK, Fits, Perform, At, CurrentInv, ForCurrent
<1>2. UNCHANGED <<plan, current>> /\ host' = Effect(host, c, a)
  BY DEF Perform, ctlVars
<1>3. /\ host \in [sink   : Adapters \cup {Fallback, Foreign},
                   source : Adapters \cup {Fallback, Foreign},
                   volume : [Adapters -> 0..MaxVolume],
                   muted  : [Adapters -> BOOLEAN]]
  BY DEF Base, Typed, TypeOK
<1>4. CASE c = "sink"
  <2>1. /\ host'.sink = SinkOf(current) /\ host'.source = host.source
        /\ host'.volume = host.volume /\ host'.muted = host.muted
    BY <1>1, <1>2, <1>3, <1>4 DEF Effect
  <2> QED
    BY <1>2, <1>4, <2>1 DEF Landed, SinkOf, SourceOf
<1>5. CASE c = "source"
  <2>1. /\ host'.source = SourceOf(current) /\ host'.sink = host.sink
        /\ host'.volume = host.volume /\ host'.muted = host.muted
    BY <1>1, <1>2, <1>3, <1>5 DEF Effect
  <2> QED
    BY <1>2, <1>5, <2>1 DEF Landed, SinkOf, SourceOf
<1>6. CASE c = "volume"
  <2>1. current.usb \in Adapters
    BY <1>1, <1>6 DEF Named, TodoFits
  <2>2. /\ host'.volume[current.usb] = current.volume /\ host'.sink = host.sink
        /\ host'.source = host.source /\ host'.muted = host.muted
    BY <1>1, <1>2, <1>3, <1>6, <2>1 DEF Effect
  <2> QED
    BY <1>2, <1>6, <2>2 DEF Landed, SinkOf, SourceOf
<1>7. CASE c = "mute"
  <2>1. current.usb \in Adapters
    BY <1>1, <1>7 DEF Named, TodoFits
  <2>2. /\ host'.muted[current.usb] = current.muted /\ host'.sink = host.sink
        /\ host'.source = host.source /\ host'.volume = host.volume
    BY <1>1, <1>2, <1>3, <1>7, <2>1 DEF Effect
  <2> QED
    BY <1>2, <1>7, <2>2 DEF Landed, SinkOf, SourceOf
<1>8. CASE c = "write"
  <2>1. "volume" \notin plan
    BY <1>1, <1>8, LiveIsCurrent DEF Base, Perform, CurrentInv, ForCurrent, PlanMode
  <2>2. /\ host'.sink = host.sink /\ host'.source = host.source
        /\ host'.muted = host.muted
    BY <1>2, <1>3, <1>8 DEF Effect
  <2> QED
    BY <1>2, <1>8, <2>1, <2>2 DEF Landed, SinkOf, SourceOf
<1>9. CASE c = "read"
  BY <1>2, <1>9 DEF Landed, Effect, SinkOf, SourceOf
<1> QED
  BY <1>4, <1>5, <1>6, <1>7, <1>8, <1>9 DEF Commands

LEMMA HostInit == ASSUME Init PROVE HostInv
  BY DEF Init, HostInv, Landed

LEMMA EnvironmentHost ==
  ASSUME Base, HostInv, Environment
  PROVE  HostInv'
<1> DEFINE Gentle ==
      /\ UNCHANGED <<rev, current, plan, canceler, retrying, results>>
      /\ host'.sink \in {host.sink, Foreign} /\ host'.source = host.source
      /\ host'.muted = host.muted
      /\ "volume" \in plan => host'.volume = host.volume
<1>1. Gentle
  <2>1. host \in [sink   : Adapters \cup {Fallback, Foreign},
                 source : Adapters \cup {Fallback, Foreign},
                 volume : [Adapters -> 0..MaxVolume],
                 muted  : [Adapters -> BOOLEAN]]
    BY DEF Base, Typed, TypeOK
  <2>2. CASE UserPicksSink
    BY <2>1, <2>2 DEF UserPicksSink, ctlVars
  <2>3. ASSUME NEW u \in Adapters, NEW v \in UserVolumes, UserSetsVolume(u, v)
        PROVE  Gentle
    BY <2>1, <2>3 DEF UserSetsVolume, ctlVars, Base, CurrentInv, PlanMode
  <2>4. CASE CancelContext
    BY <2>4 DEF CancelContext, ctlVars
  <2>5. ASSUME NEW d, Send(d) PROVE Gentle
    BY <2>5 DEF Send, ctlVars
  <2> QED
    BY <2>2, <2>3, <2>4, <2>5
    DEF Environment, ConnectHeadset, DisconnectHeadset, Interact
<1>2. \A t : Landed(t) => Landed(t)'
  BY <1>1, LandedKept
<1>3. CASE CancelContext
  <2>1. ASSUME NEW x \in acts', x.rev = rev, ~x.err PROVE Landed(x.todo)
    BY <1>3, <2>1, CancelContextKeeps DEF Base, Alike, HostInv
  <2>2. ctxDone'
    BY <1>3 DEF CancelContext
  <2> QED
    BY <1>1, <1>2, <2>1, <2>2 DEF HostInv
<1>4. CASE ~CancelContext
  <2>1. UNCHANGED <<acts, ctxDone>>
    BY <1>4 DEF Environment, ConnectHeadset, DisconnectHeadset, Interact, Send,
                UserPicksSink, UserSetsVolume
  <2> QED
    BY <1>1, <1>2, <2>1 DEF HostInv, Idle
<1> QED
  BY <1>3, <1>4

LEMMA ControllerHost ==
  ASSUME Base, HostInv, Controller
  PROVE  HostInv'
<1>1. Typed /\ ControlInv /\ CurrentInv
  BY DEF Base
<1>2. CASE Receive
  <2>1. PICK p, t, s :
          /\ plan' = p
          /\ \/ p = {} /\ acts' = Cancel(acts, canceler)
             \/ /\ canceler' = {<<rev + 1, 1>>}
                /\ acts' = Cancel(acts, canceler)
                             \cup {Action(rev + 1, 1, chan, p, t, s)}
    BY <1>2 DEF Receive, StartAction
  <2>2. rev' = rev + 1 /\ results' = results /\ rev \in Nat
    BY <1>1, <1>2 DEF Receive, Typed, TypeOK
  <2>3. results # None => results.rev # rev'
    BY <1>1, <2>2 DEF Typed, TypeOK, ControlInv
  <2>4. ASSUME NEW x \in acts', x.rev = rev' PROVE p # {} => x.todo = CallsOf(p, t)
    BY <1>1, <2>1, <2>2, <2>4, CancelRevisions, ActionCurrent
  <2>5. p = {} => \A y : Landed(y)'
    BY <2>1 DEF Landed
  <2>6. Landed(CallsOf(p, t))'
    BY <2>1 DEF Landed, CallsOf, Calls, Commands
  <2>7. p # {} => ~Idle'
    BY <2>1 DEF Idle
  <2> QED
    BY <2>2, <2>3, <2>4, <2>5, <2>6, <2>7 DEF HostInv
<1>3. CASE DropResult
  BY <1>3 DEF DropResult, HostInv, Idle, Landed, ctlVars
<1>4. CASE HandleResult
  <2>1. /\ acts' = Cancel(acts, canceler) /\ canceler' = {} /\ results' = None
        /\ UNCHANGED <<rev, current, plan, host, ctxDone>>
        /\ results.err => retrying'
        /\ results # None /\ results.rev = rev
    BY <1>4 DEF HandleResult
  <2>2. \A a \in acts : a.rev # rev
    BY <1>1, <2>1 DEF ControlInv
  <2>3. \A x \in acts' : x.rev # rev
    BY <1>1, <2>1, <2>2, CancelRevisions
  <2>4. ~results.err => Landed({})'
    BY <2>1 DEF HostInv, Landed
  <2> QED
    BY <2>1, <2>3, <2>4 DEF HostInv, Idle
<1>5. CASE RetryFires
  <2>0. PICK n : n = Action(rev, attempt + 1, current, plan, hostTarget, settled)
    OBVIOUS
  <2>1. /\ acts' = acts \cup {n} /\ canceler' # {} /\ retrying /\ ~stopped
        /\ UNCHANGED <<rev, current, plan, host, results>>
    BY <1>5, <2>0 DEF RetryFires, StartAction
  <2>2. /\ \A a \in acts : a.rev # rev
        /\ results # None => results.rev # rev
    BY <1>1, <2>1 DEF ControlInv
  <2>3. Landed(n.todo)'
    <3>1. n.todo = CallsOf(plan, hostTarget)
      BY <2>0, ActionCurrent
    <3> QED
      BY <2>1, <3>1 DEF Landed, CallsOf, Calls, Commands
  <2> QED
    BY <2>1, <2>2, <2>3 DEF HostInv, Idle
<1>6. CASE Stop
  <2>1. /\ acts' = Cancel(acts, canceler) /\ ctxDone'
        /\ UNCHANGED <<rev, current, plan, host, results>>
    BY <1>6 DEF Stop
  <2>2. ASSUME NEW x \in acts', x.rev = rev, ~x.err PROVE Landed(x.todo)
    BY <1>1, <2>1, <2>2, CancelKeeps DEF Alike, HostInv
  <2>3. \A t : Landed(t) => Landed(t)'
    BY <2>1 DEF Landed
  <2> QED
    BY <2>1, <2>2, <2>3 DEF HostInv
<1> QED
  BY <1>2, <1>3, <1>4, <1>5, <1>6 DEF Controller

LEMMA ActionStepHost ==
  ASSUME KillIsPrompt, Base, HostInv, NEW a \in acts, ActionStep(a)
  PROVE  HostInv'
<1>1. Typed /\ ControlInv /\ CurrentInv /\ a \in Actions
  BY DEF Base, Typed, TypeOK
<1>2. UNCHANGED <<rev, current, plan, canceler, retrying, ctxDone>>
  BY DEF ActionStep, Perform, Fail, Resolve, AbandonResolve, Report, Leave, ctlVars
<1>3. host' = host => \A t : Landed(t) => Landed(t)'
  BY <1>2 DEF Landed
(* A live action that moves on to b. *)
<1>4. ASSUME NEW b, b.rev = a.rev, Replace(a, b), results' = results,
             ~a.cancelled, ~b.err /\ ~a.err => Landed(b.todo)',
             a.err => b.err
      PROVE  HostInv'
  <2>1. /\ canceler # {} /\ \A x \in acts : x.rev = rev => x = a
        /\ results # None => results.rev # rev
    BY <1>1, <1>4, LiveIsCurrent
  <2>2. \A x \in acts' : x.rev = rev => x = b
    BY <1>4, <2>1 DEF Replace
  <2> QED
    BY <1>2, <1>4, <2>1, <2>2 DEF HostInv, Idle
(* One that changes nothing on the host. *)
<1>5. ASSUME NEW b, b.rev = a.rev, Replace(a, b), results' = results,
             host' = host, ~b.err => ~a.err /\ (Landed(a.todo) => Landed(b.todo))
      PROVE  HostInv'
  <2>1. \A x \in acts' : x.rev = rev /\ ~x.err => Landed(x.todo)
    BY <1>5 DEF Replace, HostInv
  <2> QED
    BY <1>2, <1>3, <1>5, <2>1 DEF HostInv, Idle
<1>6. ASSUME NEW c \in Commands, Perform(a, c) PROVE HostInv'
  <2>0. PICK b : b = [a EXCEPT !.todo = @ \ {c}, !.target = TargetAfter(c, a)]
    OBVIOUS
  <2>1. b.rev = a.rev /\ b.todo = a.todo \ {c} /\ b.err = a.err
    BY <1>1, <2>0 DEF Actions
  <2>2. Replace(a, b) /\ results' = results /\ ~a.cancelled /\ ~a.err
    BY <1>6, <2>0 DEF Perform, At
  <2>3. Landed(a.todo)
    BY <1>1, <2>2, LiveIsCurrent DEF HostInv
  <2>4. Landed(b.todo)'
    BY <1>6, <2>1, <2>3, LandedPerform
  <2> QED
    BY <1>4, <2>1, <2>2, <2>4
<1>7. ASSUME NEW c \in Commands, Fail(a, c) PROVE HostInv'
  <2>0. PICK b : b = [a EXCEPT !.err = TRUE]
    OBVIOUS
  <2>1. b.rev = a.rev /\ b.err
    BY <1>1, <2>0 DEF Actions
  <2>2. Replace(a, b) /\ results' = results /\ (host' = host \/ ~a.cancelled)
    BY <1>7, <2>0 DEF Fail
  <2> QED
    BY <1>4, <1>5, <2>1, <2>2
<1>8. CASE AbandonResolve(a)
  <2>0. PICK b : b = [a EXCEPT !.err = TRUE]
    OBVIOUS
  <2>1. b.rev = a.rev /\ b.err
    BY <1>1, <2>0 DEF Actions
  <2>2. Replace(a, b) /\ results' = results /\ host' = host
    BY <1>8, <2>0 DEF AbandonResolve
  <2> QED
    BY <1>5, <2>1, <2>2
<1>9. CASE Resolve(a)
  <2>0. PICK b : b = [a EXCEPT !.todo = @ \ {"resolve"}]
    OBVIOUS
  <2>1. b.rev = a.rev /\ b.todo = a.todo \ {"resolve"}
    BY <1>1, <2>0 DEF Actions
  <2>2. Replace(a, b) /\ results' = results /\ host' = host /\ ~a.err
    BY <1>9, <2>0 DEF Resolve, At
  <2>3. Landed(a.todo) => Landed(b.todo)
    BY <2>1 DEF Landed
  <2> QED
    BY <1>5, <2>1, <2>2, <2>3
<1>10. CASE Report(a)
  <2>1. /\ acts' = acts \ {a} /\ host' = host
        /\ results'.rev = a.rev /\ results'.err = a.err /\ (a.err \/ a.todo = {})
    BY <1>10 DEF Report, Finished
  <2> QED
    BY <1>2, <1>3, <2>1 DEF HostInv, Idle
<1>11. CASE Leave(a)
  <2>1. acts' = acts \ {a} /\ host' = host /\ results' = results
    BY <1>11 DEF Leave
  <2> QED
    BY <1>2, <1>3, <2>1 DEF HostInv, Idle
<1> QED
  BY <1>6, <1>7, <1>8, <1>9, <1>10, <1>11 DEF ActionStep

(* Where a command killed by a cancellation has no effect from then on, the *)
(* host agrees with the plan of the current desired state once its action   *)
(* has succeeded, whatever was superseded, failed or retried before.        *)
THEOREM DoneHolds == KillIsPrompt => (Spec => []DoneMeansDone)
<1> SUFFICES ASSUME KillIsPrompt PROVE Spec => []DoneMeansDone
  OBVIOUS
<1>1. Init => HostInv
  BY HostInit
<1>2. Base /\ HostInv /\ [Next]_vars => HostInv'
  <2> SUFFICES ASSUME Base, HostInv, [Next]_vars PROVE HostInv'
    OBVIOUS
  <2>1. CASE Environment
    BY <2>1, EnvironmentHost
  <2>2. CASE Controller
    BY <2>2, ControllerHost
  <2>3. ASSUME NEW a \in acts, ActionStep(a) PROVE HostInv'
    BY <2>3, ActionStepHost
  <2>4. CASE UNCHANGED vars
    BY <2>4 DEF HostInv, Landed, Idle, vars, ctlVars
  <2> QED
    BY <2>1, <2>2, <2>3, <2>4 DEF Next
<1>3. HostInv => DoneMeansDone
  BY LandedIsHolds DEF HostInv, DoneMeansDone
<1> QED
  BY <1>1, <1>2, <1>3, Current, PTL DEF Spec

(* Under the same condition no retry, superseded action or volume,          *)
(* microphone or button interaction takes away a sink the user picked: a    *)
(* step that does belongs to a transition that has not been applied yet.    *)
THEOREM ChoiceKept == KillIsPrompt => (Spec => UserChoiceKept)
<1> SUFFICES ASSUME KillIsPrompt PROVE Spec => UserChoiceKept
  OBVIOUS
<1> DEFINE Taken == host.sink = Foreign /\ host'.sink # Foreign /\ applied # None
           Transition == \/ applied.connected # current.connected
                         \/ applied.usb # current.usb
<1>1. Base /\ [Next]_vars => (Taken => Transition)
  <2> SUFFICES ASSUME Base, [Next]_vars, Taken PROVE Transition
    OBVIOUS
  <2>1. host \in [sink   : Adapters \cup {Fallback, Foreign},
                 source : Adapters \cup {Fallback, Foreign},
                 volume : [Adapters -> 0..MaxVolume],
                 muted  : [Adapters -> BOOLEAN]]
    BY DEF Base, Typed, TypeOK
  <2>2. ~Environment /\ ~Controller /\ ~UNCHANGED vars
    <3>1. ~UserPicksSink /\ ~(\E u \in Adapters, v \in UserVolumes : UserSetsVolume(u, v))
      BY <2>1 DEF UserPicksSink, UserSetsVolume
    <3> QED
      BY <3>1 DEF Environment, ConnectHeadset, DisconnectHeadset, Interact, Send,
                  CancelContext, Controller, Receive, DropResult, HandleResult,
                  RetryFires, Stop, vars
  <2>3. PICK a \in acts : ActionStep(a)
    BY <2>2 DEF Next
  <2>4. PICK c \in Commands : At(a, c) /\ ~a.cancelled /\ host' = Effect(host, c, a)
    BY <2>3 DEF ActionStep, Perform, Fail, Resolve, AbandonResolve, Report, Leave
  <2>5. c = "sink"
    BY <2>1, <2>4 DEF Effect, Commands
  <2>6. ForCurrent(a) /\ Reasons /\ "sink" \in a.todo
    BY <2>4, <2>5, LiveIsCurrent DEF Base, CurrentInv, At
  <2>7. RouteNeeded(current, applied)
    BY <2>6 DEF ForCurrent, Reasons
  <2> QED
    BY <2>7 DEF RouteNeeded
<1> QED
  BY <1>1, Current, PTL DEF Spec, UserChoiceKept
=============================================================================

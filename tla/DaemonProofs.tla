---------------------------- MODULE DaemonProofs ----------------------------
(***************************************************************************)
(* Theorems about Daemon, for every set of adapters and every number of    *)
(* selections: type correctness, the join of the three workers, no false   *)
(* alarm at the end, and the name of a connected desired state.            *)
(***************************************************************************)
EXTENDS Daemon, FiniteSetTheorems, TLAPS

Results == [name : Workers, err : BOOLEAN]

(* Every worker is alive, waits in the channel of results or was collected; *)
(* Run returns after the third.                                             *)
EndInv ==
  /\ Cardinality(alive) + Len(results) + collected = 3
  /\ exit # None => collected = 3

TypeInv == TypeOK /\ EndInv
-----------------------------------------------------------------------------
LEMMA WorkersFinite == IsFiniteSet(Workers) /\ Cardinality(Workers) = 3
<1>1. IsFiniteSet({}) /\ Cardinality({}) = 0
  BY FS_EmptySet
<1>2. IsFiniteSet({"audio"}) /\ Cardinality({"audio"}) = 1
  <2>1. {"audio"} = {} \cup {"audio"}
    OBVIOUS
  <2> QED
    BY <1>1, <2>1, FS_AddElement
<1>3. IsFiniteSet({"polling", "audio"}) /\ Cardinality({"polling", "audio"}) = 2
  <2>1. {"polling", "audio"} = {"audio"} \cup {"polling"}
    OBVIOUS
  <2> QED
    BY <1>2, <2>1, FS_AddElement
<1>4. Workers = {"polling", "audio"} \cup {"discovery"}
  BY DEF Workers
<1> QED
  BY <1>3, <1>4, FS_AddElement

(* The workers that are alive can be counted. *)
LEMMA AliveFinite ==
  ASSUME NEW S \in SUBSET Workers
  PROVE  IsFiniteSet(S) /\ Cardinality(S) \in Nat
  BY WorkersFinite, FS_Subset, FS_CardinalityType

(* The end of a worker takes it from the living to the results. *)
LEMMA ReturnCounts ==
  ASSUME TypeInv, NEW w \in alive, NEW err \in BOOLEAN, Return(w, err)
  PROVE  /\ alive' \subseteq Workers
         /\ results' \in Seq(Results) /\ Len(results') <= 3
         /\ EndInv'
<1>1. alive \in SUBSET Workers /\ results \in Seq(Results) /\ collected \in 0..3
  BY DEF TypeInv, TypeOK, Results
<1>2. Cardinality(alive') = Cardinality(alive) - 1 /\ alive' \in SUBSET Workers
  BY <1>1, AliveFinite, FS_RemoveElement DEF Return
<1>3. Cardinality(alive) \in Nat /\ Cardinality(alive') \in Nat
  BY <1>1, <1>2, AliveFinite
<1>4. [name |-> w, err |-> err] \in Results
  BY <1>1 DEF Results
<1>5. results' \in Seq(Results) /\ Len(results') = Len(results) + 1
  BY <1>1, <1>4 DEF Return
<1>6. Cardinality(alive') + Len(results') + collected' = 3
  BY <1>1, <1>2, <1>3, <1>5 DEF TypeInv, EndInv, Return
<1>7. exit' = exit /\ collected' = collected
  BY DEF Return
<1> QED
  BY <1>1, <1>2, <1>3, <1>5, <1>6, <1>7 DEF TypeInv, EndInv
-----------------------------------------------------------------------------
LEMMA InitType == Init => TypeInv
<1> SUFFICES ASSUME Init PROVE TypeInv
  OBVIOUS
<1>1. TypeOK
  <2>1. Zero \in States
    BY DEF Zero, States
  <2>2. 0 \in 0..MaxSelections /\ 0 \in 0..MaxChanges
    BY DaemonBoundAssumption
  <2>3. results \in Seq([name : Workers, err : BOOLEAN]) /\ Len(results) = 0
    BY DEF Init
  <2>4. /\ selected = None /\ selections = Empty /\ adapter = None /\ reported = None
        /\ silence = 0 /\ telling = None /\ newest = Zero /\ current = Zero /\ desired = Empty
        /\ sends = 0 /\ changes = 0 /\ collected = 0 /\ fatal = None /\ exit = None
        /\ alive = Workers /\ links \in [Adapters -> BOOLEAN]
    BY DEF Init, Link!LinkInit
  <2>5. missed \in BOOLEAN /\ broken \in BOOLEAN /\ signalled \in BOOLEAN /\ cancelled \in BOOLEAN
    BY DEF Init
  <2> QED
    BY <2>1, <2>2, <2>3, <2>4, <2>5 DEF TypeOK
<1>2. EndInv
  BY WorkersFinite DEF Init, EndInv
<1> QED
  BY <1>1, <1>2 DEF TypeInv

(* The steps of the discovery worker that select. *)
LEMMA SelectType ==
  ASSUME TypeInv, NEW c \in Adapters \cup {None}, SelectionChanged(c)
  PROVE  TypeInv'
<1>1. sends' \in 0..MaxSelections
  BY DaemonBoundAssumption DEF TypeInv, TypeOK, SelectionChanged
<1>2. missed' \in BOOLEAN
  BY DEF TypeInv, TypeOK, SelectionChanged
<1>3. selected' \in Adapters \cup {None} /\ selections' \in Adapters \cup {None, Empty}
  BY DEF SelectionChanged
<1> QED
  BY <1>1, <1>2, <1>3
     DEF TypeInv, TypeOK, EndInv, SelectionChanged, linkVars, stateVars, worldVars, lifeVars

(* A step that leaves all but the poller's part and its call alone. *)
LEMMA PollerType ==
  ASSUME TypeInv,
         UNCHANGED <<selected, sends, missed, desired, newest, current, worldVars, lifeVars>>,
         selections' \in {selections, Empty},
         adapter' \in Adapters \cup {None}, reported' \in BOOLEAN \cup {None},
         silence' \in 0..1,
         telling' \in States \cup [connected : BOOLEAN, usb : {Empty}] \cup {None}
  PROVE  TypeInv'
  BY DEF TypeInv, TypeOK, EndInv, worldVars, lifeVars

(* What a call of ConnectionChanged holds before it has read the selection. *)
LEMMA Tells ==
  ASSUME NEW c \in BOOLEAN, Tell(c)
  PROVE  telling' \in [connected : BOOLEAN, usb : {Empty}]
  BY DEF Tell

LEMMA TakeSelectionType == TypeInv /\ TakeSelection => TypeInv'
<1> SUFFICES ASSUME TypeInv, TakeSelection PROVE TypeInv'
  OBVIOUS
<1> USE DEF TypeInv, TypeOK, selectVars, linkVars, stateVars, worldVars, lifeVars
<1>1. CASE UNCHANGED <<linkVars, telling>>
  BY <1>1, PollerType DEF TakeSelection
<1>2. CASE adapter' = selections /\ Link!Switch
           /\ IF IsDisconnection(adapter') THEN Tell(FALSE) ELSE UNCHANGED telling
  <2>1. telling' \in [connected : BOOLEAN, usb : {Empty}] \cup {telling}
    <3>1. CASE Tell(FALSE)
      BY <3>1, Tells
    <3>2. CASE telling' = telling
      BY <3>2
    <3> QED
      BY <1>2, <3>1, <3>2
  <2>2. adapter' \in Adapters \cup {None}
    BY <1>2 DEF TakeSelection
  <2>3. reported' \in BOOLEAN \cup {None} /\ silence' = 0
    BY <1>2 DEF Link!Switch
  <2> QED
    BY <2>1, <2>2, <2>3, PollerType DEF TakeSelection
<1> QED
  BY <1>1, <1>2 DEF TakeSelection

LEMMA SampleType == TypeInv /\ Sample => TypeInv'
<1> SUFFICES ASSUME TypeInv, Sample PROVE TypeInv'
  OBVIOUS
<1>1. /\ adapter' = adapter /\ silence' \in 0..1
      /\ reported' \in BOOLEAN \/ reported' = reported
  <2>1. CASE Link!Hear
    BY <2>1 DEF Link!Hear
  <2>2. CASE Link!Miss
    <3>1. ~(silence + 1 < 1)
      BY DEF TypeInv, TypeOK
    <3>2. silence' = 1 /\ reported' = FALSE /\ adapter' = adapter
      BY <2>2, <3>1, Zenon DEF Link!Miss
    <3>3. reported' \in BOOLEAN
      BY <3>2, Zenon
    <3>4. silence' \in 0..1
      BY <3>2
    <3> QED
      BY <3>2, <3>3, <3>4
  <2>3. Link!Hear \/ Link!Miss
    BY Zenon DEF Sample
  <2> QED
    BY <2>1, <2>2, <2>3
<1>2. telling' \in [connected : BOOLEAN, usb : {Empty}] \cup {telling}
  <2>1. CASE reported' = reported
    BY <2>1 DEF Sample
  <2>2. CASE reported' # reported
    <3>1. telling' = [connected |-> reported', usb |-> Empty]
      BY <2>2, Zenon DEF Sample, Tell
    <3>2. reported' \in BOOLEAN
      BY <1>1, <2>2
    <3> QED
      BY <3>1, <3>2
  <2> QED
    BY <2>1, <2>2
<1> QED
  BY <1>1, <1>2, PollerType
     DEF TypeInv, TypeOK, Sample, selectVars, stateVars, worldVars, lifeVars

(* What the observer reads into the call of ConnectionChanged. *)
LEMMA ReadSelectionTells ==
  ASSUME TypeInv, ReadSelection
  PROVE  telling' = [connected |-> telling.connected, usb |-> selected]
         /\ telling.connected \in BOOLEAN
<1>1. telling \in [connected : BOOLEAN, usb : Adapters \cup {None, Empty}]
  BY DEF ReadSelection, TypeInv, TypeOK, States
<1> QED
  BY <1>1 DEF ReadSelection

LEMMA ReadSelectionType == TypeInv /\ ReadSelection => TypeInv'
<1> SUFFICES ASSUME TypeInv, ReadSelection PROVE TypeInv'
  OBVIOUS
<1>1. telling' \in States
  BY ReadSelectionTells DEF TypeInv, TypeOK, States
<1> QED
  BY <1>1, PollerType
     DEF ReadSelection, TypeInv, TypeOK, selectVars, linkVars, stateVars, worldVars, lifeVars

LEMMA DesiredType == TypeInv /\ (SendDesired \/ ReceiveDesired) => TypeInv'
<1> SUFFICES ASSUME TypeInv, SendDesired \/ ReceiveDesired PROVE TypeInv'
  OBVIOUS
<1> USE DEF TypeInv, TypeOK, EndInv, selectVars, linkVars, stateVars, worldVars, lifeVars
<1>1. CASE SendDesired
  <2>1. telling \in States
    BY <1>1 DEF SendDesired
  <2> QED
    BY <1>1, <2>1 DEF SendDesired
<1>2. CASE ReceiveDesired
  BY <1>2 DEF ReceiveDesired
<1> QED
  BY <1>1, <1>2

LEMMA ReturnType ==
  ASSUME TypeInv, NEW w \in alive, NEW err \in BOOLEAN, Return(w, err),
         broken' \in BOOLEAN
  PROVE  TypeInv'
<1>1. alive' \subseteq Workers /\ results' \in Seq(Results) /\ Len(results') <= 3 /\ EndInv'
  BY ReturnCounts
<1> QED
  BY <1>1 DEF TypeInv, TypeOK, Return, Results, selectVars, linkVars, stateVars, worldVars

LEMMA CollectType == TypeInv /\ Collect => TypeInv'
<1> SUFFICES ASSUME TypeInv, Collect PROVE TypeInv'
  OBVIOUS
<1>1. results \in Seq(Results) /\ results # <<>> /\ collected \in 0..3 /\ collected < 3
      /\ alive \in SUBSET Workers
  BY DEF Collect, TypeInv, TypeOK, Results
<1>2. results' \in Seq(Results) /\ Len(results') = Len(results) - 1
  BY <1>1 DEF Collect
<1>3. Head(results) \in Results
  BY <1>1
<1>4. fatal' \in Workers \cup {None} /\ cancelled' \in BOOLEAN
  BY <1>3 DEF Collect, Results, TypeInv, TypeOK
<1>5. collected' = collected + 1 /\ alive' = alive /\ exit' = exit
  BY DEF Collect
<1>6. Cardinality(alive) \in Nat
  BY <1>1, AliveFinite
<1>7. EndInv'
  BY <1>1, <1>2, <1>5, <1>6 DEF TypeInv, EndInv
<1> QED
  BY <1>1, <1>2, <1>4, <1>5, <1>7
     DEF Collect, TypeInv, TypeOK, Results, selectVars, linkVars, stateVars, worldVars

LEMMA RunType == TypeInv /\ (Finish \/ Signal \/ Propagate) => TypeInv'
<1> SUFFICES ASSUME TypeInv, Finish \/ Signal \/ Propagate PROVE TypeInv'
  OBVIOUS
<1> USE DEF TypeInv, TypeOK, EndInv, selectVars, linkVars, stateVars, worldVars
<1>1. CASE Finish
  BY <1>1 DEF Finish
<1>2. CASE Signal
  BY <1>2 DEF Signal
<1>3. CASE Propagate
  BY <1>3 DEF Propagate
<1> QED
  BY <1>1, <1>2, <1>3

LEMMA LinksType ==
  ASSUME TypeInv, NEW a \in Adapters, LinkChanges(a)
  PROVE  TypeInv'
<1>1. links' \in [Adapters -> BOOLEAN] /\ changes' \in 0..MaxChanges
  BY DaemonBoundAssumption DEF LinkChanges, TypeInv, TypeOK
<1> QED
  BY <1>1 DEF LinkChanges, TypeInv, TypeOK, EndInv, selectVars, linkVars, stateVars, lifeVars

LEMMA StepType == TypeInv /\ [Next]_vars => TypeInv'
<1> SUFFICES ASSUME TypeInv, [Next]_vars PROVE TypeInv'
  OBVIOUS
<1>1. CASE FirstSelection \/ NewSelection
  BY <1>1, SelectType DEF FirstSelection, NewSelection
<1>2. CASE DiscoveryFails
  BY <1>2, ReturnType DEF DiscoveryFails
<1>3. CASE \E w \in Workers : WorkerEnds(w)
  <2>1. PICK w \in alive : WorkerEnds(w)
    BY <1>3 DEF WorkerEnds
  <2>2. broken' \in BOOLEAN
    BY <2>1 DEF WorkerEnds, TypeInv, TypeOK
  <2> QED
    BY <2>1, <2>2, ReturnType DEF WorkerEnds
<1>4. CASE PollerStep \/ ReceiveDesired
  BY <1>4, TakeSelectionType, SampleType, ReadSelectionType, DesiredType DEF PollerStep
<1>5. CASE Collect
  BY <1>5, CollectType
<1>6. CASE Finish \/ Signal \/ Propagate
  BY <1>6, RunType
<1>7. CASE \E a \in Adapters : LinkChanges(a)
  BY <1>7, LinksType
<1>8. CASE UNCHANGED vars
  BY <1>8 DEF vars, selectVars, linkVars, stateVars, worldVars, lifeVars, TypeInv, TypeOK, EndInv
<1> QED
  BY <1>1, <1>2, <1>3, <1>4, <1>5, <1>6, <1>7, <1>8 DEF Next, Discovering

LEMMA TypeInductive == Spec => []TypeInv
  BY InitType, StepType, PTL DEF Spec

(* The daemon's state is always of its type; no fourth result is ever sent. *)
THEOREM TypeCorrect == Spec => []TypeOK
<1>1. TypeInv => TypeOK
  BY DEF TypeInv
<1> QED
  BY <1>1, TypeInductive, PTL

(* Run returns only when all three workers have: it leaks no goroutine.     *)
THEOREM JoinsAll == Spec => []AllEnded
<1>1. TypeInv => AllEnded
  <2> SUFFICES ASSUME TypeInv, exit # None PROVE alive = {} /\ results = <<>>
    BY DEF AllEnded
  <2>1. alive \in SUBSET Workers /\ results \in Seq(Results)
    BY DEF TypeInv, TypeOK, Results
  <2>2. IsFiniteSet(alive) /\ Cardinality(alive) \in Nat
    BY <2>1, AliveFinite
  <2>3. Cardinality(alive) = 0 /\ Len(results) = 0
    BY <2>1, <2>2 DEF TypeInv, EndInv
  <2> QED
    BY <2>1, <2>2, <2>3, FS_EmptySet
<1> QED
  BY <1>1, TypeInductive, PTL
-----------------------------------------------------------------------------
(* Only a failed discovery sends an error; a worker that ends without one   *)
(* was told to, and was told to before Run looks at its result.             *)
Blameless(r) == IF r.err THEN r.name = "discovery" /\ broken ELSE cancelled

AlarmInv ==
  /\ \A i \in 1..Len(results) : Blameless(results[i])
  /\ fatal # None => fatal = "discovery" /\ broken

LEMMA ReturnAlarm ==
  ASSUME TypeInv, AlarmInv, NEW w \in Workers, NEW err \in BOOLEAN, Return(w, err),
         broken => broken',
         IF err THEN w = "discovery" /\ broken' ELSE cancelled
  PROVE  AlarmInv'
<1>1. results \in Seq(Results)
  BY DEF TypeInv, TypeOK, Results
<1> DEFINE r == [name |-> w, err |-> err]
<1>2. r \in Results
  BY DEF Results
<1>3. results' = Append(results, r) /\ cancelled' = cancelled /\ fatal' = fatal
  BY DEF Return
<1>4. Blameless(r)'
  BY <1>3 DEF Blameless
<1>5. ASSUME NEW i \in 1..Len(results') PROVE Blameless(results[i])' 
  <2>1. CASE i \in 1..Len(results)
    <3>1. results'[i] = results[i]
      BY <1>1, <1>2, <1>3, <2>1
    <3> QED
      BY <1>3, <2>1, <3>1 DEF AlarmInv, Blameless
  <2>2. CASE i = Len(results) + 1
    <3>1. results'[i] = r
      BY <1>1, <1>2, <1>3, <2>2
    <3> QED
      BY <1>4, <3>1 DEF Blameless
  <2> QED
    BY <1>1, <1>2, <1>3, <2>1, <2>2
<1> QED
  BY <1>3, <1>5 DEF AlarmInv

LEMMA CollectAlarm == TypeInv /\ AlarmInv /\ Collect => AlarmInv'
<1> SUFFICES ASSUME TypeInv, AlarmInv, Collect PROVE AlarmInv'
  OBVIOUS
<1>1. results \in Seq(Results) /\ results # <<>>
  BY DEF Collect, TypeInv, TypeOK, Results
<1>2. results' = Tail(results) /\ broken' = broken
  BY DEF Collect
<1>3. cancelled => cancelled'
  BY DEF Collect
<1>4. ASSUME NEW i \in 1..Len(results') PROVE Blameless(results[i])'
  <2>1. results'[i] = results[i + 1] /\ i + 1 \in 1..Len(results)
    BY <1>1, <1>2
  <2>2. Blameless(results[i + 1])
    BY <2>1 DEF AlarmInv
  <2> QED
    BY <1>2, <1>3, <2>1, <2>2 DEF Blameless
<1>5. fatal' # None => fatal' = "discovery" /\ broken'
  <2>1. CASE fatal = None /\ Failed(Head(results))
    <3>1. Head(results) = results[1] /\ 1 \in 1..Len(results)
      BY <1>1
    <3>2. Blameless(Head(results))
      BY <3>1 DEF AlarmInv
    <3>3. Head(results).name = "discovery" /\ broken
      BY <2>1, <3>2 DEF Failed, Blameless
    <3> QED
      BY <1>2, <2>1, <3>3 DEF Collect
  <2>2. CASE ~(fatal = None /\ Failed(Head(results)))
    BY <1>2, <2>2 DEF Collect, AlarmInv
  <2> QED
    BY <2>1, <2>2
<1> QED
  BY <1>4, <1>5 DEF AlarmInv

(* The steps of nobody's end. *)
LEMMA OtherAlarm ==
  ASSUME AlarmInv, UNCHANGED <<broken, results, fatal>>, cancelled => cancelled'
  PROVE  AlarmInv'
  BY DEF AlarmInv, Blameless

LEMMA StepAlarm == TypeInv /\ AlarmInv /\ [Next]_vars => AlarmInv'
<1> SUFFICES ASSUME TypeInv, AlarmInv, [Next]_vars PROVE AlarmInv'
  OBVIOUS
<1>1. CASE DiscoveryFails
  <2>1. "discovery" \in Workers
    BY DEF Workers
  <2> QED
    BY <1>1, <2>1, ReturnAlarm DEF DiscoveryFails
<1>2. CASE \E w \in Workers : WorkerEnds(w)
  <2>1. PICK w \in Workers : WorkerEnds(w)
    BY <1>2
  <2>2. Return(w, FALSE) /\ cancelled /\ broken' = broken
    BY <2>1 DEF WorkerEnds
  <2> QED
    BY <2>2, ReturnAlarm
<1>3. CASE Collect
  BY <1>3, CollectAlarm
<1>4. CASE FirstSelection \/ NewSelection
  BY <1>4, OtherAlarm DEF FirstSelection, NewSelection, SelectionChanged, lifeVars
<1>5. CASE PollerStep \/ ReceiveDesired
  <2>1. UNCHANGED lifeVars
    BY <1>5, Zenon
       DEF PollerStep, TakeSelection, Sample, ReadSelection, SendDesired, ReceiveDesired
  <2> QED
    BY <2>1, OtherAlarm DEF lifeVars
<1>6. CASE Finish \/ Signal \/ Propagate
  BY <1>6, OtherAlarm DEF Finish, Signal, Propagate
<1>7. CASE \E a \in Adapters : LinkChanges(a)
  BY <1>7, OtherAlarm DEF LinkChanges, lifeVars
<1>8. CASE UNCHANGED vars
  BY <1>8, OtherAlarm DEF vars, lifeVars
<1> QED
  BY <1>1, <1>2, <1>3, <1>4, <1>5, <1>6, <1>7, <1>8 DEF Next, Discovering

(* A worker that stops because it was told to is never taken for one that   *)
(* failed: Run reports a fatal error only when discovery has failed.        *)
THEOREM NoFalseFailure == Spec => []NoFalseAlarm
<1>1. Init => AlarmInv
  BY DEF Init, AlarmInv
<1>2. TypeInv /\ AlarmInv /\ [Next]_vars => AlarmInv'
  BY StepAlarm
<1>3. AlarmInv => NoFalseAlarm
  BY DEF AlarmInv, NoFalseAlarm
<1> QED
  BY <1>1, <1>2, <1>3, TypeInductive, PTL DEF Spec
-----------------------------------------------------------------------------
(* What the observer has been told and what the poller has: nothing before  *)
(* the first selection; the selection the poller works with is the          *)
(* observer's or its successor waits; the state told last, or being told,   *)
(* says of the connection what the poller reported.                         *)
ToldInv ==
  /\ sends = 0 => /\ selections = Empty /\ adapter = None /\ reported = None
                  /\ telling = None
  /\ selections # Empty => selections = selected
  /\ sends # 0 /\ selections = Empty => adapter = selected
  /\ telling = None => (newest.connected <=> reported = TRUE)
  /\ telling # None => (telling.connected <=> reported = TRUE)
  /\ reported = TRUE => adapter # None

(* Unless a change of adapters was missed, a selection that waits is        *)
(* another adapter, and a connected state, or one being told, that no       *)
(* waiting selection will end names the poller's adapter.                   *)
NameInv == missed \/
  /\ selections # Empty => selections # adapter \/ adapter = None
  /\ selections = Empty /\ telling = None /\ newest.connected => newest.usb = adapter
  /\ selections = Empty /\ telling # None /\ telling.connected /\ telling.usb # Empty
       => telling.usb = adapter

Told == ToldInv /\ NameInv

LEMMA Distinct ==
  /\ None # Empty /\ None \notin BOOLEAN /\ Empty \notin Adapters \cup {None}
  /\ None \notin Adapters
  BY DistinctAssumption

(* A call of ConnectionChanged is not the absence of one. *)
LEMMA CallIsNotNone ==
  ASSUME TypeInv, telling # None
  PROVE  telling.connected \in BOOLEAN /\ telling.usb \in Adapters \cup {None, Empty}
  BY DEF TypeInv, TypeOK, States

LEMMA UnreadIsCall ==
  ASSUME NEW c \in BOOLEAN
  PROVE  [connected |-> c, usb |-> Empty] # None
<1>1. [connected |-> c, usb |-> Empty]
        \in [connected : BOOLEAN, usb : Adapters \cup {None, Empty}]
  OBVIOUS
<1> QED
  BY <1>1, DistinctAssumption

LEMMA InitTold == Init => Told
<1> SUFFICES ASSUME Init PROVE Told
  OBVIOUS
<1>1. newest.connected = FALSE
  BY DEF Init, Zero
<1>2. /\ selections = Empty /\ sends = 0 /\ telling = None
      /\ adapter = None /\ reported = None
  BY DEF Init, Link!LinkInit
<1>3. reported # TRUE
  BY <1>2, Distinct, Zenon
<1> QED
  BY <1>1, <1>2, <1>3, Zenon DEF Told, ToldInv, NameInv

LEMMA SelectTold ==
  ASSUME TypeInv, Told, NEW c \in Adapters \cup {None}, SelectionChanged(c),
         sends = 0 \/ c # selected
  PROVE  Told'
<1>1. /\ selected' = c /\ selections' = c /\ sends' = sends + 1
      /\ UNCHANGED <<adapter, reported, telling, newest>>
  BY DEF SelectionChanged, linkVars, stateVars
<1>2. sends' # 0 /\ selections' # Empty
  BY <1>1, Distinct DEF TypeInv, TypeOK
<1>3. ToldInv'
  BY <1>1, <1>2 DEF Told, ToldInv
<1>4. missed' \/ c # adapter \/ adapter = None
  <2>1. CASE sends = 0
    BY <2>1 DEF Told, ToldInv
  <2>2. CASE c # selected
    BY <2>2 DEF SelectionChanged
  <2> QED
    BY <2>1, <2>2
<1> QED
  BY <1>1, <1>2, <1>3, <1>4 DEF Told, NameInv

(* The poller learns of a selection: what it may tell is a disconnection.   *)
LEMMA TakeSelectionTold == TypeInv /\ Told /\ TakeSelection => Told'
<1> SUFFICES ASSUME TypeInv, Told, TakeSelection PROVE Told'
  OBVIOUS
<1>1. /\ telling = None /\ selections # Empty /\ selections = selected
      /\ selections' = Empty /\ UNCHANGED <<selected, sends, missed, newest>>
  BY DEF TakeSelection, Polling, Told, ToldInv, stateVars
<1>2. sends' # 0
  BY <1>1 DEF Told, ToldInv
<1>3. CASE selections = adapter /\ UNCHANGED <<linkVars, telling>>
  <2>1. UNCHANGED <<adapter, reported, telling>>
    BY <1>3 DEF linkVars
  <2>2. ToldInv'
    BY <1>1, <1>2, <1>3, <2>1 DEF Told, ToldInv
  <2>3. missed \/ ~newest.connected
    BY <1>1, <1>3 DEF Told, ToldInv, NameInv
  <2> QED
    BY <1>1, <2>1, <2>2, <2>3 DEF Told, NameInv
<1>4. CASE adapter' = selections /\ Link!Switch
           /\ IF IsDisconnection(adapter') THEN Tell(FALSE) ELSE UNCHANGED telling
  <2>1. CASE IsDisconnection(adapter')
    <3>1. telling' = [connected |-> FALSE, usb |-> Empty]
      BY <1>4, <2>1 DEF Tell
    <3>2. telling' # None => telling'.connected = FALSE
      BY <3>1
    <3>3. reported' = FALSE
      BY <1>4, <2>1 DEF Link!Switch, IsDisconnection
    <3>4. telling' # None
      BY <3>1, UnreadIsCall
    <3> QED
      BY <1>1, <1>2, <1>4, <3>2, <3>3, <3>4, Zenon DEF Told, ToldInv, NameInv
  <2>2. CASE ~IsDisconnection(adapter')
    <3>1. telling' = None /\ reported' = reported /\ adapter = None
      BY <1>1, <1>4, <2>2 DEF Link!Switch, IsDisconnection
    <3>2. reported # TRUE /\ ~newest.connected
      BY <1>1, <3>1 DEF Told, ToldInv
    <3> QED
      BY <1>1, <1>2, <1>4, <3>1, <3>2 DEF Told, ToldInv, NameInv
  <2> QED
    BY <2>1, <2>2
<1> QED
  BY <1>3, <1>4 DEF TakeSelection

LEMMA SampleTold == TypeInv /\ Told /\ Sample => Told'
<1> SUFFICES ASSUME TypeInv, Told, Sample PROVE Told'
  OBVIOUS
<1>1. /\ telling = None /\ adapter # None
      /\ UNCHANGED <<selected, selections, sends, missed, newest>>
  BY DEF Sample, Polling, selectVars, stateVars
<1>2. /\ adapter' = adapter
      /\ reported' \in BOOLEAN \/ reported' = reported
  <2>1. CASE Link!Hear
    BY <2>1 DEF Link!Hear
  <2>2. CASE Link!Miss
    BY <2>2, Zenon DEF Link!Miss
  <2>3. Link!Hear \/ Link!Miss
    BY Zenon DEF Sample
  <2> QED
    BY <2>1, <2>2, <2>3
<1>3. sends' # 0
  BY <1>1 DEF Told, ToldInv
<1>4. CASE reported' = reported
  <2>1. telling' = None
    BY <1>1, <1>4 DEF Sample
  <2> QED
    BY <1>1, <1>2, <1>3, <1>4, <2>1 DEF Told, ToldInv, NameInv
<1>5. CASE reported' # reported
  <2>1. telling' = [connected |-> reported', usb |-> Empty] /\ reported' \in BOOLEAN
    <3>1. telling' = [connected |-> reported', usb |-> Empty]
      BY <1>5 DEF Sample, Tell
    <3> QED
      BY <1>2, <1>5, <3>1
  <2>2. telling'.connected = reported' /\ telling'.usb = Empty
    BY <2>1
  <2>3. telling' # None
    BY <2>1, UnreadIsCall
  <2>4. telling'.connected <=> reported' = TRUE
    BY <2>1, <2>2, Zenon
  <2>5. ToldInv'
    BY <1>1, <1>2, <1>3, <2>3, <2>4, Zenon DEF Told, ToldInv
  <2>6. NameInv'
    BY <1>1, <1>2, <2>2, <2>3, Zenon DEF Told, NameInv
  <2> QED
    BY <2>5, <2>6 DEF Told
<1> QED
  BY <1>4, <1>5

(* The observer reads the selection: with none waiting, it is the poller's. *)
LEMMA ReadSelectionTold == TypeInv /\ Told /\ ReadSelection => Told'
<1> SUFFICES ASSUME TypeInv, Told, ReadSelection PROVE Told'
  OBVIOUS
<1>1. /\ telling # None
      /\ UNCHANGED <<selected, selections, sends, missed, adapter, reported, newest>>
  BY DEF ReadSelection, selectVars, linkVars, stateVars
<1>2. telling' = [connected |-> telling.connected, usb |-> selected]
      /\ telling.connected \in BOOLEAN
  BY ReadSelectionTells
<1>3. telling'.connected = telling.connected /\ telling'.usb = selected
  BY <1>2
<1>4. telling' # None
  BY <1>2, DistinctAssumption DEF TypeInv, TypeOK
<1>5. selections = Empty => adapter = selected
  BY <1>1 DEF Told, ToldInv
<1>6. ToldInv'
  BY <1>1, <1>3, <1>4, Zenon DEF Told, ToldInv
<1>7. NameInv'
  BY <1>1, <1>3, <1>4, <1>5, Zenon DEF Told, NameInv
<1> QED
  BY <1>6, <1>7 DEF Told

LEMMA SendDesiredTold == TypeInv /\ Told /\ SendDesired => Told'
<1> SUFFICES ASSUME TypeInv, Told, SendDesired PROVE Told'
  OBVIOUS
<1>1. /\ telling # None /\ telling.usb # Empty /\ telling' = None /\ newest' = telling
      /\ UNCHANGED <<selected, selections, sends, missed, adapter, reported>>
  BY DEF SendDesired, selectVars, linkVars
<1> QED
  BY <1>1, Zenon DEF Told, ToldInv, NameInv

(* The steps of the audio worker, of the ends and of the headsets.          *)
LEMMA OtherTold ==
  ASSUME Told, UNCHANGED <<selectVars, linkVars, telling, newest>>
  PROVE  Told'
  BY DEF Told, ToldInv, NameInv, selectVars, linkVars

LEMMA StepTold == TypeInv /\ Told /\ [Next]_vars => Told'
<1> SUFFICES ASSUME TypeInv, Told, [Next]_vars PROVE Told'
  OBVIOUS
<1>1. CASE FirstSelection \/ NewSelection
  BY <1>1, SelectTold DEF FirstSelection, NewSelection
<1>2. CASE PollerStep
  BY <1>2, TakeSelectionTold, SampleTold, ReadSelectionTold, SendDesiredTold DEF PollerStep
<1>3. CASE ReceiveDesired
  BY <1>3, OtherTold DEF ReceiveDesired
<1>4. CASE DiscoveryFails \/ \E w \in Workers : WorkerEnds(w)
  BY <1>4, OtherTold DEF DiscoveryFails, WorkerEnds, Return, stateVars
<1>5. CASE Collect \/ Finish \/ Signal \/ Propagate
  BY <1>5, OtherTold DEF Collect, Finish, Signal, Propagate, stateVars
<1>6. CASE \E a \in Adapters : LinkChanges(a)
  BY <1>6, OtherTold DEF LinkChanges, stateVars
<1>7. CASE UNCHANGED vars
  BY <1>7, OtherTold DEF vars, stateVars
<1> QED
  BY <1>1, <1>2, <1>3, <1>4, <1>5, <1>6, <1>7 DEF Next, Discovering

(* The name the observer takes from discovery is that of the adapter the    *)
(* poller heard the headset on, unless discovery went away from it and back *)
(* unnoticed, for any number of adapters and selections.                    *)
THEOREM NamesOwnAdapter == Spec => []NamedUnlessMissed
<1>1. Told => NamedUnlessMissed
  BY DEF Told, NameInv, NamedUnlessMissed, Named
<1> QED
  BY <1>1, InitTold, StepTold, TypeInductive, PTL DEF Spec
=============================================================================

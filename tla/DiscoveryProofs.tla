-------------------------- MODULE DiscoveryProofs --------------------------
(***************************************************************************)
(* Theorems about Discovery, for every set of adapters and however often   *)
(* they come and go, when none does before the monitor receives events:    *)
(* the watcher has selected, and told, the first adapter whenever it has   *)
(* nothing to handle, and a selected adapter that is gone has its removal  *)
(* waiting.                                                                *)
(***************************************************************************)
EXTENDS Discovery, WellFoundedInduction, TLAPS

LEMMA LeastExists ==
  ASSUME NEW S \in SUBSET Paths, S # {}
  PROVE  \E c \in S : \A p \in S : c <= p
<1>1. S \subseteq Nat
  BY PathAssumption
<1>2. \E c \in S : \A p \in S : <<p, c>> \notin OpToRel(<, Nat)
  BY <1>1, NatLessThanWellFounded, WFMin, Zenon
<1>3. ASSUME NEW c \in S, NEW p \in S, <<p, c>> \notin OpToRel(<, Nat)
      PROVE  c <= p
  BY <1>1, <1>3 DEF OpToRel
<1> QED
  BY <1>2, <1>3

LEMMA SelectsFirst ==
  ASSUME NEW S \in SUBSET Paths
  PROVE  IsFirst(SelectFrom(S), S) /\ SelectFrom(S) \in S \cup {None}
<1>1. CASE S = {}
  BY <1>1 DEF SelectFrom, IsFirst
<1>2. CASE S # {}
  BY <1>2, LeastExists DEF SelectFrom, IsFirst, Min
<1> QED
  BY <1>1, <1>2

(* What waits in a queue after a step at either end. *)
LEMMA RangeAppend ==
  ASSUME NEW s \in Seq(Events), NEW e \in Events
  PROVE  Append(s, e) \in Seq(Events) /\ Range(Append(s, e)) = Range(s) \cup {e}
<1>1. Append(s, e) \in Seq(Events) /\ Len(Append(s, e)) = Len(s) + 1
  OBVIOUS
<1>2. \A i \in 1..Len(s) : Append(s, e)[i] = s[i]
  OBVIOUS
<1>3. Append(s, e)[Len(s) + 1] = e
  OBVIOUS
<1> QED
  BY <1>1, <1>2, <1>3 DEF Range

LEMMA RangeTail ==
  ASSUME NEW s \in Seq(Events), s # <<>>
  PROVE  /\ Tail(s) \in Seq(Events) /\ Head(s) \in Events
         /\ Range(s) = {Head(s)} \cup Range(Tail(s))
<1>1. Tail(s) \in Seq(Events) /\ Len(Tail(s)) = Len(s) - 1 /\ Len(s) \in Nat \ {0}
      /\ Head(s) = s[1] /\ Head(s) \in Events
  OBVIOUS
<1>2. \A i \in 1..Len(Tail(s)) : Tail(s)[i] = s[i + 1]
  OBVIOUS
<1>3. ASSUME NEW e \in Range(s) PROVE e \in {Head(s)} \cup Range(Tail(s))
  <2>1. PICK i \in 1..Len(s) : s[i] = e
    BY DEF Range
  <2>2. CASE i = 1
    BY <1>1, <2>1, <2>2
  <2>3. CASE i # 1
    <3>1. i - 1 \in 1..Len(Tail(s)) /\ Tail(s)[i - 1] = e
      BY <1>1, <1>2, <2>1, <2>3
    <3>2. PICK j \in 1..Len(Tail(s)) : Tail(s)[j] = e
      BY <3>1
    <3>3. j \in DOMAIN Tail(s)
      BY <1>1
    <3>4. e \in Range(Tail(s))
      BY <3>2, <3>3 DEF Range
    <3> QED
      BY <3>4
  <2> QED
    BY <2>2, <2>3
<1>4. ASSUME NEW e \in {Head(s)} \cup Range(Tail(s)) PROVE e \in Range(s)
  <2>1. CASE e = Head(s)
    <3>1. 1 \in 1..Len(s) /\ s[1] = e
      BY <1>1, <2>1
    <3> QED
      BY <3>1 DEF Range
  <2>2. CASE e \in Range(Tail(s))
    <3>1. PICK i \in 1..Len(Tail(s)) : Tail(s)[i] = e
      BY <1>1, <2>2 DEF Range
    <3>2. i + 1 \in 1..Len(s) /\ s[i + 1] = e
      BY <1>1, <1>2, <3>1
    <3> QED
      BY <3>2 DEF Range
  <2> QED
    BY <2>1, <2>2
<1> QED
  BY <1>3, <1>4
-----------------------------------------------------------------------------
LEMMA InitType == Init => TypeOK
<1> SUFFICES ASSUME Init PROVE TypeOK
  OBVIOUS
<1>1. 0 \in 0..MaxPlugs /\ 0 \in 0..MaxSpurious
  BY WorldAssumption
<1>2. plugs = 0 /\ spurious = 0 /\ events \in Seq(Events) /\ present \subseteq Paths
  BY DEF Init
<1>3. receiving \in BOOLEAN /\ established \in BOOLEAN
  BY DEF Init
<1>4. /\ phase = "list" /\ listed \subseteq Paths /\ selected = None /\ told = Nothing
  BY DEF Init
<1> QED
  BY <1>1, <1>2, <1>3, <1>4 DEF TypeOK

LEMMA OccursType ==
  ASSUME TypeOK, NEW e \in Events, Occurs(e)
  PROVE  events' \in Seq(Events)
  BY RangeAppend DEF TypeOK, Occurs

LEMMA StepType == TypeOK /\ [Next]_vars => TypeOK'
<1> SUFFICES ASSUME TypeOK, [Next]_vars PROVE TypeOK'
  OBVIOUS
<1> USE DEF watcherVars, worldVars
<1>1. ASSUME NEW p \in Paths, PlugChanges(p) PROVE TypeOK'
  <2>1. plugs' \in 0..MaxPlugs /\ present' \subseteq Paths
    BY <1>1, WorldAssumption DEF PlugChanges, TypeOK
  <2>2. events' \in Seq(Events)
    <3>1. [action |-> "add", path |-> p] \in Events /\ [action |-> "remove", path |-> p] \in Events
      BY DEF Events
    <3> QED
      BY <1>1, <3>1, OccursType DEF PlugChanges
  <2> QED
    BY <1>1, <2>1, <2>2 DEF PlugChanges, TypeOK
<1>2. ASSUME NEW e \in Events, SpuriousEvent(e) PROVE TypeOK'
  <2>1. spurious' \in 0..MaxSpurious /\ events' \in Seq(Events)
    BY <1>2, OccursType, WorldAssumption DEF SpuriousEvent, TypeOK
  <2> QED
    BY <1>2, <2>1 DEF SpuriousEvent, TypeOK
<1>3. CASE List
  BY <1>3 DEF List, TypeOK
<1>4. CASE Inspect
  <2>1. SelectFrom(listed \cap present) \in Paths \cup {None}
    BY SelectsFirst DEF TypeOK
  <2> QED
    BY <1>4, <2>1 DEF Inspect, TypeOK
<1>5. CASE EnableReceiving
  BY <1>5 DEF EnableReceiving, TypeOK
<1>6. CASE HandleEvent
  <2>1. events' \in Seq(Events)
    BY <1>6, RangeTail DEF HandleEvent, TypeOK
  <2> QED
    BY <1>6, <2>1 DEF HandleEvent, TypeOK
<1>7. CASE Fail
  BY <1>7 DEF Fail, TypeOK
<1>8. CASE UNCHANGED vars
  BY <1>8 DEF vars, TypeOK
<1> QED
  BY <1>1, <1>2, <1>3, <1>4, <1>5, <1>6, <1>7, <1>8 DEF Next, World, Watcher

(* The watcher's state is always of its type; what is selected is an        *)
(* adapter or none.                                                         *)
THEOREM TypeCorrect == Spec => []TypeOK
  BY InitType, StepType, PTL DEF Spec
-----------------------------------------------------------------------------
(* No event that waits makes the watcher enumerate again. *)
Quiet == \A e \in Range(events) : ~Relevant(e)

(* With nothing relevant waiting, what was listed, or selected from it, is  *)
(* what there is; before the monitor receives events nothing changes after  *)
(* the scan.                                                                *)
StartInv ==
  /\ ~receiving => events = <<>> /\ phase \in {"list", "inspect", "monitor", "failed"}
  /\ ~receiving /\ phase \in {"list", "inspect"} => ~established
  /\ receiving => phase # "monitor" /\ established
  /\ phase \in {"monitor", "wait"} => established

ToldInv ==
  /\ established => told = selected
  /\ ~established => selected = None

SeenInv ==
  /\ phase = "inspect" /\ Quiet => listed = present
  /\ phase \in {"monitor", "wait"} /\ Quiet => IsFirst(selected, present)

Inv == StartInv /\ ToldInv /\ SeenInv /\ GoneIsPending

LEMMA InitInv == Init => Inv
  BY DEF Init, Inv, StartInv, ToldInv, SeenInv, GoneIsPending

(* An adapter comes or goes: while events are received, this is one.        *)
LEMMA PlugInv ==
  ASSUME TypeOK, Inv, ~Gap, NEW p \in Paths, PlugChanges(p)
  PROVE  Inv'
<1>1. UNCHANGED <<receiving, phase, listed, selected, established, told>>
  BY DEF PlugChanges, watcherVars
<1>2. CASE ~receiving
  <2>1. phase = "list" /\ events' = events
    BY <1>2 DEF PlugChanges, Occurs
  <2>2. selected = None
    BY <1>2, <2>1 DEF Inv, StartInv, ToldInv
  <2> QED
    BY <1>1, <1>2, <2>1, <2>2 DEF Inv, StartInv, ToldInv, SeenInv, GoneIsPending
<1>3. CASE receiving
  <2>1. PICK e \in Events : /\ events' = Append(events, e) /\ e.path = p
                            /\ \/ e.action = "add" /\ present' = present \cup {p}
                               \/ e.action = "remove" /\ present' = present \ {p}
    <3>1. [action |-> "add", path |-> p] \in Events /\ [action |-> "remove", path |-> p] \in Events
      BY DEF Events
    <3> QED
      BY <1>3, <3>1 DEF PlugChanges, Occurs
  <2>2. Range(events') = Range(events) \cup {e}
    BY <2>1, RangeAppend DEF TypeOK
  <2>3. ~Quiet'
    BY <2>1, <2>2 DEF Quiet, Relevant
  <2>4. ASSUME selected \notin present' \cup {None}, phase # "failed"
        PROVE  [action |-> "remove", path |-> selected] \in Range(events')
    <3>1. CASE selected \in present
      <4>1. e.action = "remove" /\ selected = p
        BY <2>1, <2>4, <3>1
      <4>2. e = [action |-> "remove", path |-> selected]
        BY <2>1, <4>1 DEF Events
      <4> QED
        BY <2>2, <4>2
    <3>2. CASE selected \notin present
      BY <2>2, <2>4, <3>2 DEF Inv, GoneIsPending
    <3> QED
      BY <3>1, <3>2
  <2> QED
    BY <1>1, <1>3, <2>3, <2>4 DEF Inv, StartInv, ToldInv, SeenInv, GoneIsPending
<1> QED
  BY <1>2, <1>3

LEMMA SpuriousInv ==
  ASSUME TypeOK, Inv, NEW e \in Events, SpuriousEvent(e)
  PROVE  Inv'
<1>1. UNCHANGED <<present, receiving, phase, listed, selected, established, told>>
  BY DEF SpuriousEvent, watcherVars
<1>2. Range(events) \subseteq Range(events')
  BY RangeAppend DEF SpuriousEvent, Occurs, TypeOK
<1>3. ~receiving => events' = events
  BY DEF SpuriousEvent, Occurs
<1>4. Quiet' => Quiet
  BY <1>2 DEF Quiet, Relevant
<1> QED
  BY <1>1, <1>2, <1>3, <1>4 DEF Inv, StartInv, ToldInv, SeenInv, GoneIsPending

LEMMA InspectInv == TypeOK /\ Inv /\ Inspect => Inv'
<1> SUFFICES ASSUME TypeOK, Inv, Inspect PROVE Inv'
  OBVIOUS
<1> DEFINE first == SelectFrom(listed \cap present)
<1>1. /\ selected' = first /\ established' = TRUE /\ told' = first
      /\ UNCHANGED <<present, receiving, events>> /\ phase = "inspect"
      /\ phase' = IF receiving THEN "wait" ELSE "monitor"
  BY DEF Inspect, worldVars, TypeOK, Inv, ToldInv
<1>2. IsFirst(first, listed \cap present) /\ first \in (listed \cap present) \cup {None}
  BY SelectsFirst DEF TypeOK
<1>3. Quiet => listed \cap present = present
  BY <1>1 DEF Inv, SeenInv
<1>4. Quiet' => IsFirst(selected, present)'
  BY <1>1, <1>2, <1>3 DEF Quiet, Relevant, IsFirst
<1>5. GoneIsPending'
  BY <1>1, <1>2 DEF GoneIsPending
<1> QED
  BY <1>1, <1>4, <1>5 DEF Inv, StartInv, ToldInv, SeenInv

LEMMA HandleEventInv == TypeOK /\ Inv /\ HandleEvent => Inv'
<1> SUFFICES ASSUME TypeOK, Inv, HandleEvent PROVE Inv'
  OBVIOUS
<1> DEFINE e == Head(events)
<1>1. /\ phase = "wait" /\ established /\ e \in Events
      /\ events' \in Seq(Events) /\ Range(events) = {e} \cup Range(events')
      /\ UNCHANGED <<present, receiving, listed, established>>
  BY RangeTail DEF HandleEvent, worldVars, TypeOK, Inv, StartInv
<1>2. /\ told' = selected' /\ selected' \in {selected, None}
      /\ e.action = "remove" /\ e.path = selected => selected' = None
  BY <1>1 DEF HandleEvent, Inv, ToldInv, Relevant
<1>3. GoneIsPending'
  <2> SUFFICES ASSUME selected' \notin present \cup {None}
               PROVE  [action |-> "remove", path |-> selected'] \in Range(events')
    BY <1>1 DEF GoneIsPending
  <2>1. selected' = selected /\ ~(e.action = "remove" /\ e.path = selected)
    BY <1>2
  <2>2. [action |-> "remove", path |-> selected] \in Range(events)
    BY <1>1, <2>1 DEF Inv, GoneIsPending
  <2>3. e # [action |-> "remove", path |-> selected]
    BY <2>1
  <2> QED
    BY <1>1, <2>1, <2>2, <2>3
<1>4. CASE Relevant(e)
  <2>1. phase' = "list"
    BY <1>4 DEF HandleEvent
  <2>2. receiving
    BY <1>1 DEF Inv, StartInv
  <2> QED
    BY <1>1, <1>2, <1>3, <2>1, <2>2 DEF Inv, StartInv, ToldInv, SeenInv
<1>5. CASE ~Relevant(e)
  <2>1. phase' = "wait" /\ selected' = selected
    BY <1>1, <1>5 DEF HandleEvent
  <2>2. Quiet' => Quiet
    BY <1>1, <1>5 DEF Quiet, Relevant
  <2>3. receiving
    BY <1>1 DEF Inv, StartInv
  <2> QED
    BY <1>1, <1>2, <1>3, <2>1, <2>2, <2>3 DEF Inv, StartInv, ToldInv, SeenInv, IsFirst
<1> QED
  BY <1>4, <1>5

LEMMA OtherInv == TypeOK /\ Inv /\ (List \/ EnableReceiving \/ Fail) => Inv'
<1> SUFFICES ASSUME TypeOK, Inv, List \/ EnableReceiving \/ Fail PROVE Inv'
  OBVIOUS
<1> USE DEF Inv, StartInv, ToldInv, SeenInv, GoneIsPending, Quiet, Relevant, IsFirst, worldVars
<1>1. CASE List
  BY <1>1 DEF List
<1>2. CASE EnableReceiving
  BY <1>2 DEF EnableReceiving
<1>3. CASE Fail
  BY <1>3 DEF Fail
<1> QED
  BY <1>1, <1>2, <1>3

LEMMA StepInv == TypeOK /\ Inv /\ ~Gap /\ [Next]_vars => Inv'
<1> SUFFICES ASSUME TypeOK, Inv, ~Gap, [Next]_vars PROVE Inv'
  OBVIOUS
<1>1. CASE World
  BY <1>1, PlugInv, SpuriousInv DEF World
<1>2. CASE Watcher \/ Fail
  BY <1>2, InspectInv, HandleEventInv, OtherInv DEF Watcher
<1>3. CASE UNCHANGED vars
  BY <1>3
     DEF vars, worldVars, watcherVars, Inv, StartInv, ToldInv, SeenInv, GoneIsPending,
         Quiet, Relevant, IsFirst
<1> QED
  BY <1>1, <1>2, <1>3 DEF Next

LEMMA Invariant == ~Gap /\ Spec => []Inv
<1>1. SUFFICES ASSUME ~Gap PROVE Spec => []Inv
  OBVIOUS
<1>2. TypeOK /\ Inv /\ [Next]_vars => Inv'
  BY <1>1, StepInv
<1> QED
  BY <1>2, InitInv, TypeCorrect, PTL DEF Spec

(* When the watcher has handled every event, it has selected and told the   *)
(* first of the adapters, however many there are and however they came and  *)
(* went, if none did between the first scan and the monitor's start.        *)
THEOREM InformedWithoutGap == ~Gap /\ Spec => []Informed
<1>1. Inv => Informed
  <2> SUFFICES ASSUME Inv, phase = "wait", events = <<>>
               PROVE  IsFirst(selected, present) /\ told = selected
    BY DEF Informed
  <2>1. Quiet
    BY DEF Quiet, Range
  <2> QED
    BY <2>1 DEF Inv, SeenInv, StartInv, ToldInv
<1> QED
  BY <1>1, Invariant, PTL

(* A selected adapter that is gone has its removal waiting to be handled.   *)
THEOREM GoneIsPendingWithoutGap == ~Gap /\ Spec => []GoneIsPending
<1>1. Inv => GoneIsPending
  BY DEF Inv
<1> QED
  BY <1>1, Invariant, PTL
=============================================================================

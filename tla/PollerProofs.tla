---------------------------- MODULE PollerProofs ----------------------------
(***************************************************************************)
(* Theorems about Poller, for every threshold, interval and set of         *)
(* adapters.  The connection it reports is that of DebouncedLink, and no   *)
(* sample is taken of a replaced adapter.  At most one write of a session  *)
(* is under way and the poller knows of it; nothing of a session outlives  *)
(* it; and no variable leaves its type.                                    *)
(***************************************************************************)
EXTENDS Poller, FiniteSetTheorems, TLAPS

Debouncers == [present : BOOLEAN, connected : BOOLEAN,
               established : BOOLEAN, failures : 0..Threshold]

(* The parts of the state the connection depends on. *)
LinkTyped ==
  /\ selections \in Adapters \cup {None, Empty}
  /\ candidate \in Adapters \cup {None}
  /\ hasSelection \in BOOLEAN
  /\ debouncer \in Debouncers
  /\ elapsed \in Nat /\ elapsed < Interval
  /\ devices \in [Adapters -> [link : BOOLEAN, level : Levels]]
  /\ reading \in [of : Adapters, result : Reports \cup {None, Failed}] \cup {None}

(* The read under way is of the selected adapter, which there is. *)
ReadInv == reading # None => candidate # None /\ reading.of = candidate

(* The debouncer, what was reported, and the selection go together. *)
LinkInv ==
  /\ debouncer.present <=> candidate # None
  /\ debouncer.established => reported = debouncer.connected
  /\ ~debouncer.established => reported = None /\ ~debouncer.connected
  /\ debouncer.failures = Threshold => debouncer.established /\ ~debouncer.connected
  /\ ~hasSelection => candidate = None /\ ~debouncer.established

Inv == LinkTyped /\ ReadInv /\ LinkInv
-----------------------------------------------------------------------------
LEMMA BooleanIsNotNone == None \notin BOOLEAN
  BY NameAssumption

(* An interval between polls is positive and no longer than the interval.   *)
LEMMA PollIntervalBounds == PollInterval \in Nat \ {0} /\ PollInterval <= Interval
  BY TimeAssumption DEF PollInterval

(* One failure more stands for one interval more. *)
LEMMA OneMore ==
  ASSUME NEW f \in Nat, NEW i \in Nat
  PROVE  (f + 1) * i = f * i + i
  BY SMT

(* So many failures stand for no more time than more failures do. *)
LEMMA Monotone ==
  ASSUME NEW f \in Nat, NEW t \in Nat, NEW i \in Nat, f <= t
  PROVE  f * i <= t * i
  BY SMT
-----------------------------------------------------------------------------
(* What a sample makes of the debouncer of a present adapter. *)
LEMMA HeardDebouncer ==
  ASSUME NEW d \in Debouncers, d.present
  PROVE  Debounce!Sample(d, TRUE) =
           [present |-> TRUE, connected |-> TRUE, established |-> TRUE, failures |-> 0]
  BY DEF Debounce!Sample, Debouncers

LEMMA PatientDebouncer ==
  ASSUME NEW d \in Debouncers, d.present, d.failures + 1 < Threshold
  PROVE  Debounce!Sample(d, FALSE) =
           [present |-> TRUE, connected |-> d.connected,
            established |-> d.established, failures |-> d.failures + 1]
  BY TimeAssumption DEF Debounce!Sample, Debouncers

LEMMA GivenUpDebouncer ==
  ASSUME NEW d \in Debouncers, d.present, ~(d.failures + 1 < Threshold)
  PROVE  Debounce!Sample(d, FALSE) =
           [present |-> TRUE, connected |-> FALSE,
            established |-> TRUE, failures |-> Threshold]
  BY TimeAssumption DEF Debounce!Sample, Debouncers

(* A counted sample that decides about the connection is what is reported   *)
(* after it.                                                                *)
LEMMA Reported ==
  ASSUME Inv, candidate # None, NEW c \in BOOLEAN, TakeSample(c), Counted(c),
         c \/ ~(debouncer.failures + 1 < Threshold)
  PROVE  reported' = c
<1>1. debouncer.present
  BY DEF Inv, LinkInv
<1>2. reported' = IF Debounce!SampleIsNews(debouncer, c) THEN c ELSE reported
  BY DEF TakeSample, IsNews
<1>3. c \/ debouncer.failures + 1 >= Threshold
  BY TimeAssumption DEF Inv, LinkTyped, Debouncers
<1>4. CASE Debounce!SampleIsNews(debouncer, c)
  BY <1>2, <1>4
<1>5. CASE ~Debounce!SampleIsNews(debouncer, c)
  <2>1. debouncer.established /\ debouncer.connected = c
    BY <1>1, <1>3, <1>5 DEF Debounce!SampleIsNews
  <2>2. reported = c
    BY <2>1 DEF Inv, LinkInv
  <2> QED
    BY <1>2, <1>5, <2>2
<1> QED
  BY <1>4, <1>5

(* A sample keeps the debouncer, the carried-over time and the report in    *)
(* order.                                                                   *)
LEMMA SampleKeeps ==
  ASSUME Inv, candidate # None, NEW c \in BOOLEAN, TakeSample(c),
         UNCHANGED <<candidate, hasSelection>>
  PROVE  debouncer' \in Debouncers /\ elapsed' \in Nat /\ elapsed' < Interval /\ LinkInv'
<1>1. elapsed' \in Nat /\ elapsed' < Interval
  <2>1. elapsed' = ElapsedAfter(c)
    BY DEF TakeSample
  <2> QED
    BY <2>1, PollIntervalBounds, TimeAssumption DEF Inv, LinkTyped, ElapsedAfter
<1>2. CASE ~Counted(c)
  <2>1. debouncer' = debouncer /\ reported' = reported
    BY <1>2 DEF TakeSample, IsNews
  <2> QED
    BY <1>1, <2>1 DEF Inv, LinkTyped, LinkInv
<1>3. CASE Counted(c)
  <2>1. debouncer' = Debounce!Sample(debouncer, c)
    BY <1>3 DEF TakeSample
  <2>2. debouncer.present /\ hasSelection /\ debouncer \in Debouncers
    BY DEF Inv, LinkTyped, LinkInv
  <2>3. Threshold \in Nat \ {0}
    BY TimeAssumption
  <2>4. CASE c = TRUE
    <3>1. debouncer' = [present |-> TRUE, connected |-> TRUE,
                        established |-> TRUE, failures |-> 0]
      BY <2>1, <2>2, <2>4, HeardDebouncer
    <3>2. reported' = TRUE
      BY <1>3, <2>4, Reported
    <3> QED
      BY <1>1, <2>2, <2>3, <3>1, <3>2 DEF LinkInv, Debouncers
  <2>5. CASE c = FALSE /\ debouncer.failures + 1 < Threshold
    <3>1. debouncer' = [present |-> TRUE, connected |-> debouncer.connected,
                        established |-> debouncer.established,
                        failures |-> debouncer.failures + 1]
      BY <2>1, <2>2, <2>5, PatientDebouncer
    <3>2. reported' = reported
      BY <2>3, <2>5 DEF TakeSample, IsNews, Debounce!SampleIsNews, Inv, LinkTyped, Debouncers
    <3>3. debouncer' \in Debouncers
      BY <2>2, <2>3, <2>5, <3>1 DEF Debouncers
    <3>4. /\ debouncer'.present /\ debouncer'.failures # Threshold
          /\ debouncer'.established = debouncer.established
          /\ debouncer'.connected = debouncer.connected
      BY <2>2, <2>3, <2>5, <3>1 DEF Debouncers
    <3>5. LinkInv'
      BY <2>2, <3>2, <3>4 DEF LinkInv, Inv
    <3> QED
      BY <1>1, <3>3, <3>5
  <2>6. CASE c = FALSE /\ ~(debouncer.failures + 1 < Threshold)
    <3>1. debouncer' = [present |-> TRUE, connected |-> FALSE,
                        established |-> TRUE, failures |-> Threshold]
      BY <2>1, <2>2, <2>6, GivenUpDebouncer
    <3>2. reported' = FALSE
      BY <1>3, <2>6, Reported
    <3>3. debouncer' \in Debouncers
      BY <2>3, <3>1 DEF Debouncers
    <3>4. LinkInv'
      BY <2>2, <3>1, <3>2 DEF LinkInv
    <3> QED
      BY <1>1, <3>3, <3>4
  <2> QED
    BY <2>4, <2>5, <2>6
<1> QED
  BY <1>2, <1>3

(* A good sample is heard. *)
LEMMA GoodSample ==
  ASSUME Inv, candidate # None, TakeSample(TRUE), UNCHANGED candidate
  PROVE  Link!Hear
<1>1. debouncer' = [present |-> TRUE, connected |-> TRUE,
                    established |-> TRUE, failures |-> 0]
  <2>1. debouncer' = Debounce!Sample(debouncer, TRUE)
    BY DEF TakeSample, Counted
  <2>2. debouncer \in Debouncers /\ debouncer.present
    BY DEF Inv, LinkTyped, LinkInv
  <2> QED
    BY <2>1, <2>2, HeardDebouncer
<1>2. reported' = TRUE
  BY Reported DEF Counted
<1>3. elapsed' = 0
  BY DEF TakeSample, ElapsedAfter
<1>4. Silence' = 0
  <2>1. debouncer'.failures = 0
    BY <1>1
  <2> QED
    BY <1>3, <2>1, TimeAssumption DEF Silence
<1> QED
  BY <1>2, <1>4 DEF Link!Hear

(* A bad sample is missed: the time grows by one poll, and the headset is   *)
(* reported disconnected when it reaches the debounce time.                 *)
LEMMA MissedSample ==
  ASSUME Inv, candidate # None, TakeSample(FALSE), UNCHANGED candidate
  PROVE  Link!Miss
<1> DEFINE f == debouncer.failures
           P == PollInterval
<1>1. /\ f \in Nat /\ f <= Threshold /\ elapsed \in Nat /\ elapsed < Interval
      /\ Threshold \in Nat \ {0} /\ Interval \in Nat \ {0}
      /\ P \in Nat \ {0} /\ P <= Interval
  BY PollIntervalBounds, TimeAssumption DEF Inv, LinkTyped, Debouncers
<1>2. debouncer \in Debouncers /\ debouncer.present
  BY DEF Inv, LinkTyped, LinkInv
<1>3. f * Interval \in Nat /\ Threshold * Interval \in Nat
  BY <1>1
<1>4. (f + 1) * Interval = f * Interval + Interval
  BY <1>1, OneMore
<1>5. Silence = IF f = Threshold THEN Threshold * Interval
                ELSE f * Interval + elapsed
  BY DEF Silence
<1>6. CASE ~Counted(FALSE)
  <2>1. debouncer' = debouncer /\ reported' = reported
    BY <1>6 DEF TakeSample, IsNews
  <2>2. elapsed' = elapsed + P /\ elapsed + P < Interval
    BY <1>1, <1>6 DEF TakeSample, ElapsedAfter, Counted
  <2>3. CASE f = Threshold
    <3>1. Silence' = Threshold * Interval
      BY <2>1, <2>3 DEF Silence
    <3>2. reported' = FALSE
      BY <2>1, <2>3 DEF Inv, LinkInv
    <3> QED
      BY <1>1, <1>3, <1>5, <2>3, <3>1, <3>2 DEF Link!Miss
  <2>4. CASE f # Threshold
    <3>1. Silence' = f * Interval + elapsed + P
      BY <1>1, <1>3, <2>1, <2>2, <2>4 DEF Silence
    <3>2. f * Interval + Interval <= Threshold * Interval
      BY <1>1, <1>4, <2>4, Monotone
    <3>3. f * Interval + elapsed + P < Threshold * Interval
      BY <1>1, <1>3, <2>2, <3>2
    <3> QED
      BY <1>5, <2>1, <2>4, <3>1, <3>3 DEF Link!Miss
  <2> QED
    BY <2>3, <2>4
<1>7. CASE Counted(FALSE)
  <2>1. /\ debouncer' = Debounce!Sample(debouncer, FALSE)
        /\ elapsed' = elapsed + P - Interval /\ elapsed + P >= Interval
    BY <1>7 DEF TakeSample, ElapsedAfter, Counted
  <2>2. CASE f + 1 < Threshold
    <3>1. debouncer'.failures = f + 1
      <4>1. debouncer' = [present |-> TRUE, connected |-> debouncer.connected,
                          established |-> debouncer.established,
                          failures |-> debouncer.failures + 1]
        BY <1>2, <2>1, <2>2, PatientDebouncer, Zenon
      <4> QED
        BY <4>1
    <3>2. reported' = reported
      <4>1. ~(f + 1 >= Threshold)
        BY <1>1, <2>2
      <4>2. ~IsNews(FALSE)
        BY <4>1 DEF IsNews, Debounce!SampleIsNews
      <4> QED
        BY <4>2 DEF TakeSample
    <3>3. Silence' = f * Interval + elapsed + P
      <4>1. f + 1 # Threshold
        BY <1>1, <2>2
      <4>2. Silence' = (f + 1) * Interval + elapsed'
        BY <3>1, <4>1 DEF Silence
      <4> QED
        BY <1>1, <1>3, <1>4, <2>1, <4>2
    <3>4. f * Interval + elapsed + P < Threshold * Interval
      <4>1. (f + 2) * Interval = (f + 1) * Interval + Interval
        BY <1>1, OneMore
      <4>2. (f + 2) * Interval <= Threshold * Interval
        BY <1>1, <2>2, Monotone
      <4> QED
        BY <1>1, <1>3, <1>4, <4>1, <4>2
    <3> QED
      BY <1>1, <1>5, <2>2, <3>2, <3>3, <3>4 DEF Link!Miss
  <2>3. CASE ~(f + 1 < Threshold)
    <3>1. debouncer'.failures = Threshold
      <4>1. debouncer' = [present |-> TRUE, connected |-> FALSE,
                          established |-> TRUE, failures |-> Threshold]
        BY <1>2, <2>1, <2>3, GivenUpDebouncer, Zenon
      <4> QED
        BY <4>1
    <3>2. Silence' = Threshold * Interval
      BY <3>1 DEF Silence
    <3>3. reported' = FALSE
      BY <1>7, <2>3, Reported
    <3>4. ~(Silence + P < Threshold * Interval)
      <4>1. CASE f = Threshold
        BY <1>1, <1>3, <1>5, <4>1
      <4>2. CASE f # Threshold
        <5>1. Threshold = f + 1
          BY <1>1, <2>3, <4>2
        <5> QED
          BY <1>1, <1>3, <1>4, <1>5, <2>1, <4>2, <5>1
      <4> QED
        BY <4>1, <4>2
    <3> QED
      BY <3>2, <3>3, <3>4 DEF Link!Miss
  <2> QED
    BY <2>2, <2>3
<1> QED
  BY <1>6, <1>7
-----------------------------------------------------------------------------
(* What the connection depends on, but for the read under way. *)
linkState == <<candidate, hasSelection, debouncer, elapsed, reported>>

(* A step that leaves the connection alone is a stutter of DebouncedLink.   *)
LEMMA QuietStep ==
  ASSUME Inv, UNCHANGED linkState,
         reading' = None \/ (reading # None /\ reading'.of = reading.of),
         LinkTyped'
  PROVE  Inv' /\ UNCHANGED Link!linkVars
<1>1. LinkInv'
  BY DEF Inv, LinkInv, linkState
<1>2. ReadInv'
  BY DEF Inv, ReadInv, linkState
<1>3. UNCHANGED Link!linkVars
  BY DEF Link!linkVars, Silence, linkState
<1> QED
  BY <1>1, <1>2, <1>3 DEF Inv
(* Every step but those that take selections and samples is quiet. *)
LEMMA OtherSteps ==
  ASSUME Inv,
         \/ Environment \/ FinishWrite \/ Stop \/ ReadAnswers \/ ReadFails
         \/ \E w \in writes : WriteStep(w)
  PROVE  Inv' /\ UNCHANGED Link!linkVars
<1>1. CASE Environment
  <2>1. UNCHANGED linkState /\ reading' = reading
    BY <1>1 DEF Environment, Select, LinkChanges, LevelChanges, Event, linkState,
                pollerVars, ioVars
  <2>2. selections' \in Adapters \cup {None, Empty}
    BY <1>1 DEF Environment, Select, LinkChanges, LevelChanges, Event, Inv, LinkTyped
  <2>3. devices' \in [Adapters -> [link : BOOLEAN, level : Levels]]
    <3>1. CASE \E c \in Adapters \cup {None} : Select(c)
      BY <3>1 DEF Select, worldVars, Inv, LinkTyped
    <3>2. CASE \E a \in Adapters : LinkChanges(a)
      BY <3>2 DEF LinkChanges, Event, Inv, LinkTyped
    <3>3. CASE \E a \in Adapters, v \in Levels : LevelChanges(a, v)
      BY <3>3 DEF LevelChanges, Event, Inv, LinkTyped
    <3> QED
      BY <1>1, <3>1, <3>2, <3>3 DEF Environment
  <2>4. LinkTyped'
    BY <2>1, <2>2, <2>3 DEF Inv, LinkTyped, linkState
  <2> QED
    BY <2>1, <2>4, QuietStep
<1>2. CASE FinishWrite \/ Stop
  <2>1. /\ UNCHANGED linkState /\ UNCHANGED <<selections, devices>>
        /\ reading' = reading \/ reading' = None
    BY <1>2 DEF FinishWrite, Stop, linkState, worldVars
  <2>2. LinkTyped'
    BY <2>1 DEF Inv, LinkTyped, linkState
  <2> QED
    BY <2>1, <2>2, QuietStep
<1>3. CASE ReadAnswers
  <2>1. UNCHANGED linkState /\ UNCHANGED <<selections, devices>>
    BY <1>3 DEF ReadAnswers, linkState, pollerVars, worldVars
  <2>2. reading # None /\ reading \in [of : Adapters, result : Reports \cup {None, Failed}]
    BY <1>3 DEF ReadAnswers, Inv, LinkTyped
  <2> DEFINE answer == [connected |-> devices[reading.of].link,
                        volume |-> devices[reading.of].level,
                        up |-> FALSE, down |-> FALSE]
  <2>3. answer \in Reports
    BY <2>2 DEF Inv, LinkTyped, Reports
  <2>4. reading' = [reading EXCEPT !.result = answer]
    BY <1>3 DEF ReadAnswers
  <2>5. /\ reading' \in [of : Adapters, result : Reports \cup {None, Failed}]
        /\ reading'.of = reading.of
    BY <2>2, <2>3, <2>4
  <2>6. LinkTyped'
    BY <2>1, <2>5 DEF Inv, LinkTyped, linkState
  <2> QED
    BY <2>1, <2>2, <2>5, <2>6, QuietStep
<1>4. CASE ReadFails
  <2>1. UNCHANGED linkState /\ UNCHANGED <<selections, devices>>
    BY <1>4 DEF ReadFails, linkState, pollerVars
  <2>2. reading # None /\ reading \in [of : Adapters, result : Reports \cup {None, Failed}]
    BY <1>4 DEF ReadFails, Inv, LinkTyped
  <2>3. /\ reading' \in [of : Adapters, result : Reports \cup {None, Failed}]
        /\ reading'.of = reading.of
    BY <1>4, <2>2 DEF ReadFails
  <2>4. LinkTyped'
    BY <2>1, <2>3 DEF Inv, LinkTyped, linkState
  <2> QED
    BY <2>1, <2>2, <2>3, <2>4, QuietStep
<1>5. CASE \E w \in writes : WriteStep(w)
  <2>1. UNCHANGED linkState /\ UNCHANGED <<selections, reading>>
    BY <1>5 DEF WriteStep, WriteSucceeds, WriteFails, DeliverWrite, linkState, pollerVars
  <2>2. devices' \in [Adapters -> [link : BOOLEAN, level : Levels]]
    BY <1>5, DeviceAssumption
    DEF WriteStep, WriteSucceeds, WriteFails, DeliverWrite, worldVars, Inv, LinkTyped
  <2>3. LinkTyped'
    BY <2>1, <2>2 DEF Inv, LinkTyped, linkState
  <2> QED
    BY <2>1, <2>3, QuietStep
<1> QED
  BY <1>1, <1>2, <1>3, <1>4, <1>5
(* A sample, good or bad, is a step of DebouncedLink. *)
LEMMA SampleStep ==
  ASSUME Inv, candidate # None, NEW c \in BOOLEAN, TakeSample(c),
         UNCHANGED <<candidate, hasSelection, selections, devices>>,
         \/ reading' = None
         \/ reading' = reading
  PROVE  Inv' /\ Link!LinkNext
<1>1. debouncer' \in Debouncers /\ elapsed' \in Nat /\ elapsed' < Interval /\ LinkInv'
  BY SampleKeeps
<1>2. LinkTyped'
  BY <1>1 DEF Inv, LinkTyped
<1>3. ReadInv'
  BY DEF Inv, ReadInv
<1>4. Link!LinkNext
  <2>1. CASE c = TRUE
    BY <2>1, GoodSample DEF Link!LinkNext
  <2>2. CASE c = FALSE
    BY <2>2, MissedSample DEF Link!LinkNext
  <2> QED
    BY <2>1, <2>2
<1> QED
  BY <1>1, <1>2, <1>3, <1>4 DEF Inv

LEMMA TickStep ==
  ASSUME Inv, Tick
  PROVE  Inv' /\ [Link!LinkNext]_(Link!linkVars)
<1>1. /\ candidate # None /\ reading = None
      /\ UNCHANGED <<candidate, hasSelection, selections, devices>>
  BY DEF Tick
<1>2. CASE StartRead /\ UNCHANGED <<debouncer, elapsed, reported>>
  <2>1. UNCHANGED linkState
    BY <1>1, <1>2 DEF linkState
  <2>2. /\ candidate \in Adapters
        /\ reading' = [of |-> candidate, result |-> None]
    BY <1>1, <1>2 DEF StartRead, Inv, LinkTyped
  <2>3. LinkTyped'
    BY <1>1, <2>1, <2>2 DEF Inv, LinkTyped, linkState
  <2>4. LinkInv' /\ ReadInv'
    BY <1>1, <2>1, <2>2 DEF Inv, LinkInv, ReadInv, linkState
  <2>5. UNCHANGED Link!linkVars
    BY <2>1 DEF linkState, Link!linkVars, Silence
  <2> QED
    BY <2>3, <2>4, <2>5 DEF Inv
<1>3. CASE BadSample /\ UNCHANGED reading
  <2>1. TakeSample(FALSE)
    BY <1>3 DEF BadSample
  <2> QED
    BY <1>1, <1>3, <2>1, SampleStep
<1> QED
  BY <1>2, <1>3 DEF Tick

LEMMA HandleReadStep ==
  ASSUME Inv, HandleRead
  PROVE  Inv' /\ [Link!LinkNext]_(Link!linkVars)
<1>1. /\ reading # None /\ reading.result # None /\ reading' = None
      /\ UNCHANGED <<candidate, hasSelection, selections, devices>>
  BY DEF HandleRead, worldVars
<1>2. candidate # None
  BY <1>1 DEF Inv, ReadInv
<1>3. CASE TakeSample(FALSE)
  BY <1>1, <1>2, <1>3, SampleStep
<1>4. CASE reading.result # Failed /\ TakeSample(reading.result.connected)
  <2>1. reading.result \in Reports
    BY <1>1, <1>4 DEF Inv, LinkTyped
  <2>2. reading.result.connected \in BOOLEAN
    BY <2>1 DEF Reports
  <2> QED
    BY <1>1, <1>2, <1>4, <2>2, SampleStep
<1> QED
  BY <1>3, <1>4 DEF HandleRead, BadSample

LEMMA TakeSelectionStep ==
  ASSUME Inv, TakeSelection
  PROVE  Inv' /\ [Link!LinkNext]_(Link!linkVars)
<1>1. /\ selections \in Adapters \cup {None} /\ selections' = Empty
      /\ reading' = None /\ UNCHANGED devices
  BY DEF TakeSelection, AbandonRead, worldVars, Inv, LinkTyped
<1>2. CASE UNCHANGED pollerVars
  <2>1. UNCHANGED linkState
    BY <1>2 DEF linkState, pollerVars
  <2>2. LinkTyped'
    BY <1>1, <2>1 DEF Inv, LinkTyped, linkState
  <2> QED
    BY <1>1, <2>1, <2>2, QuietStep
<1>3. CASE ~(hasSelection /\ selections = candidate) /\ ~UNCHANGED pollerVars
  <2> DEFINE left == candidate # None
             none == selections = None
             d == IF left \/ none THEN Debounce!AdapterAbsent(debouncer) ELSE debouncer
  <2>1. /\ hasSelection' = TRUE /\ candidate' = selections /\ elapsed' = 0
        /\ debouncer' = IF none THEN d ELSE Debounce!AdapterAdded(d)
        /\ reported' = IF (left \/ none) /\ Debounce!AbsentIsNews(debouncer)
                       THEN FALSE ELSE reported
    BY <1>3 DEF TakeSelection
  <2>2. debouncer \in Debouncers
    BY DEF Inv, LinkTyped
  <2>3. d \in Debouncers
    BY <2>2, TimeAssumption DEF Debouncers, Debounce!AdapterAbsent
  <2>4. debouncer' \in Debouncers
    <3>1. ASSUME NEW e \in Debouncers PROVE Debounce!AdapterAdded(e) \in Debouncers
      <4>1. [e EXCEPT !.present = TRUE] \in Debouncers
        BY DEF Debouncers
      <4>2. ASSUME NEW g \in Debouncers PROVE [g EXCEPT !.failures = 0] \in Debouncers
        BY TimeAssumption DEF Debouncers
      <4> QED
        BY <4>1, <4>2 DEF Debounce!AdapterAdded
    <3>2. Debounce!AdapterAdded(d) \in Debouncers
      BY <2>3, <3>1
    <3> HIDE DEF d
    <3> QED
      BY <2>1, <2>3, <3>2
  <2>5. LinkTyped'
    <3>1. elapsed' \in Nat /\ elapsed' < Interval
      <4>1. elapsed' = 0
        BY <2>1
      <4> QED
        BY <4>1, TimeAssumption
    <3> QED
      <4>1. /\ candidate' \in Adapters \cup {None} /\ hasSelection' \in BOOLEAN
            /\ selections' = Empty
        BY <1>1, <2>1
      <4> QED
        BY <1>1, <2>4, <3>1, <4>1 DEF Inv, LinkTyped
  <2>6. Silence' = 0 /\ LinkInv' /\ reported' = IF left \/ none THEN FALSE ELSE reported
    <3>1. CASE left \/ none
      <4>1. debouncer' = [present |-> ~none, connected |-> FALSE,
                          established |-> TRUE, failures |-> 0]
        BY <2>1, <3>1 DEF Debounce!AdapterAbsent, Debounce!AdapterAdded
      <4>2. reported' = FALSE
        <5>1. CASE Debounce!AbsentIsNews(debouncer)
          BY <2>1, <3>1, <5>1
        <5>2. CASE ~Debounce!AbsentIsNews(debouncer)
          <6>1. debouncer.established /\ debouncer.connected = FALSE
            BY <2>2, <5>2 DEF Debounce!AbsentIsNews, Debouncers
          <6>2. reported = FALSE
            BY <6>1 DEF Inv, LinkInv
          <6> QED
            BY <2>1, <5>2, <6>2
        <5> QED
          BY <5>1, <5>2
      <4>3. LinkInv'
        <5>1. /\ debouncer'.present <=> ~none
              /\ debouncer'.established = TRUE /\ debouncer'.connected = FALSE
          BY <4>1
        <5>2. candidate' # None <=> ~none
          BY <2>1
        <5> QED
          BY <2>1, <4>2, <5>1, <5>2 DEF LinkInv
      <4>4. Silence' = 0
        BY <2>1, <4>1, TimeAssumption DEF Silence
      <4> QED
        BY <3>1, <4>2, <4>3, <4>4
    <3>2. CASE ~left /\ ~none
      <4>1. debouncer' = [debouncer EXCEPT !.present = TRUE, !.failures = 0]
        BY <2>1, <3>2 DEF Debounce!AdapterAdded
      <4>2. /\ debouncer'.present = TRUE /\ debouncer'.failures = 0
            /\ debouncer'.connected = debouncer.connected
            /\ debouncer'.established = debouncer.established
        BY <2>2, <4>1 DEF Debouncers
      <4>3. reported' = reported
        BY <2>1, <3>2
      <4>4. LinkInv'
        BY <2>1, <3>2, <4>2, <4>3, TimeAssumption DEF Inv, LinkInv
      <4>5. Silence' = 0
        BY <2>1, <4>2, TimeAssumption DEF Silence
      <4> QED
        BY <3>2, <4>3, <4>4, <4>5
    <3> QED
      BY <3>1, <3>2
  <2>7. Inv'
    BY <1>1, <2>5, <2>6 DEF Inv, ReadInv
  <2>8. candidate' # candidate \/ (candidate' = None /\ reported = None)
    BY <1>3, <2>1 DEF Inv, LinkInv
  <2>9. Link!Switch
    BY <2>1, <2>6, <2>8 DEF Link!Switch
  <2> QED
    BY <2>7, <2>9 DEF Link!LinkNext
<1> QED
  BY <1>2, <1>3 DEF TakeSelection
-----------------------------------------------------------------------------
LEMMA InitLink == Init => Inv /\ Link!LinkInit
<1> SUFFICES ASSUME Init PROVE Inv /\ Link!LinkInit
  OBVIOUS
<1>1. LinkTyped
  <2>1. debouncer \in Debouncers
    BY TimeAssumption DEF Init, Debouncers, Debounce!New
  <2>2. devices \in [Adapters -> [link : BOOLEAN, level : Levels]]
    BY DeviceAssumption DEF Init
  <2>3. elapsed \in Nat /\ elapsed < Interval
    BY TimeAssumption DEF Init
  <2> QED
    BY <2>1, <2>2, <2>3 DEF Init, LinkTyped
<1>2. LinkInv /\ ReadInv
  BY TimeAssumption DEF Init, LinkInv, ReadInv, Debounce!New
<1>3. Silence = 0
  BY TimeAssumption DEF Init, Silence, Debounce!New
<1> QED
  BY <1>1, <1>2, <1>3 DEF Init, Inv, Link!LinkInit

LEMMA StepLink == Inv /\ [Next]_vars => Inv' /\ [Link!LinkNext]_(Link!linkVars)
<1> SUFFICES ASSUME Inv, [Next]_vars
             PROVE  Inv' /\ [Link!LinkNext]_(Link!linkVars)
  OBVIOUS
<1>1. CASE UNCHANGED vars
  BY <1>1 DEF vars, pollerVars, ioVars, worldVars, Inv, LinkTyped, ReadInv, LinkInv,
              Link!linkVars, Silence
<1>2. CASE TakeSelection
  BY <1>2, TakeSelectionStep
<1>3. CASE Tick
  BY <1>3, TickStep
<1>4. CASE HandleRead
  BY <1>4, HandleReadStep
<1>5. CASE \/ Environment \/ FinishWrite \/ Stop \/ ReadAnswers \/ ReadFails
           \/ \E w \in writes : WriteStep(w)
  BY <1>5, OtherSteps
<1> QED
  BY <1>1, <1>2, <1>3, <1>4, <1>5 DEF Next

THEOREM LinkInvariant == Spec => []Inv
<1>1. Init => Inv
  BY InitLink
<1>2. Inv /\ [Next]_vars => Inv'
  BY StepLink
<1> QED
  BY <1>1, <1>2, PTL DEF Spec

(* The connection Poller reports, with the selected adapter and the time    *)
(* for which its samples have failed, behaves as DebouncedLink says, for    *)
(* every threshold and interval.                                            *)
THEOREM ImplementsLink == Spec => LinkSpec
<1>1. Init => Link!LinkInit
  BY InitLink
<1>2. Inv /\ [Next]_vars => [Link!LinkNext]_(Link!linkVars)
  BY StepLink
<1> QED
  BY <1>1, <1>2, LinkInvariant, PTL DEF Spec, LinkSpec, Link!LinkSpec

(* A read under way is of the adapter that is selected now, so no sample of *)
(* a replaced adapter is ever taken.                                        *)
THEOREM ReadsOwnAdapter == Spec => []OwnAdapter
<1>1. Inv => OwnAdapter
  BY DEF Inv, ReadInv, OwnAdapter
<1> QED
  BY <1>1, LinkInvariant, PTL
-----------------------------------------------------------------------------
(* The writes of a session, and the state that ends with it. *)
RestoreTyped ==
  /\ restore = [active |-> restore.active, inFlight |-> restore.inFlight,
                readback |-> restore.readback, attempt |-> restore.attempt,
                retryPolls |-> restore.retryPolls, generation |-> restore.generation]
  /\ restore.inFlight \in BOOLEAN
  /\ restore.attempt \in Nat /\ restore.generation \in Nat

Writes == [generation : Nat, of : Adapters, attempt : Nat, err : BOOLEAN \cup {None}]

(* The writes of the session, and the result of one that waits. *)
Current == {w \in writes : w.generation = restore.generation}

Waiting == writeResults # None /\ writeResults.generation = restore.generation

(* Writes are of this session or of one before, and one that is in flight   *)
(* either runs or has its result waiting.                                   *)
WriteInv ==
  /\ RestoreTyped
  /\ writes \subseteq Writes
  /\ writeResults \in [generation : Nat, err : BOOLEAN] \cup {None}
  /\ \A w \in writes : w.generation <= restore.generation
  /\ writeResults # None => writeResults.generation <= restore.generation
  /\ \/ restore.inFlight /\ Waiting /\ Current = {}
     \/ restore.inFlight /\ ~Waiting /\ \E w \in writes : Current = {w}
     \/ ~restore.inFlight /\ ~Waiting /\ Current = {}

RestIdle(r) ==
  /\ ~r.active /\ ~r.inFlight /\ ~r.readback
  /\ r.attempt = 0 /\ r.retryPolls = 0

LEMMA ResetIsIdle ==
  ASSUME NEW r, r.generation \in Nat
  PROVE  RestIdle(ResetRestore(r)) /\ ResetRestore(r).generation = r.generation + 1
  BY DEF RestIdle, ResetRestore
-----------------------------------------------------------------------------
(* The steps on writes. *)

LEMMA KeepWrites ==
  ASSUME WriteInv, UNCHANGED <<writes, writeResults>>, RestoreTyped',
         restore'.inFlight = restore.inFlight, restore'.generation = restore.generation
  PROVE  WriteInv'
  BY DEF WriteInv, Current, Waiting

(* After a reset, every write and every result is of a session before.      *)
LEMMA ResetWrites ==
  ASSUME WriteInv, UNCHANGED <<writes, writeResults>>, restore' = ResetRestore(restore)
  PROVE  WriteInv'
<1>1. restore' = [active |-> FALSE, inFlight |-> FALSE, readback |-> FALSE,
                  attempt |-> 0, retryPolls |-> 0, generation |-> restore.generation + 1]
  BY DEF ResetRestore
<1>2. restore'.inFlight = FALSE /\ restore'.generation = restore.generation + 1
  BY <1>1
<1>3. restore.generation \in Nat
  BY DEF WriteInv, RestoreTyped
<1>4. RestoreTyped'
  BY <1>1, <1>3 DEF RestoreTyped
<1>5. \A w \in writes : w \in Writes /\ w.generation \in Nat /\ w.generation <= restore.generation
  BY DEF WriteInv, Writes
<1>6. Current' = {}
  BY <1>2, <1>3, <1>5 DEF Current
<1>7. writeResults # None =>
        writeResults.generation \in Nat /\ writeResults.generation <= restore.generation
  BY DEF WriteInv
<1>8. ~Waiting'
  BY <1>2, <1>3, <1>7 DEF Waiting
<1>9. \A w \in writes' : w.generation <= restore'.generation
  BY <1>2, <1>3, <1>5
<1>10. writeResults' # None => writeResults'.generation <= restore'.generation
  BY <1>2, <1>3, <1>7
<1> QED
  BY <1>2, <1>4, <1>6, <1>8, <1>9, <1>10 DEF WriteInv

LEMMA BeginWrites ==
  ASSUME WriteInv, candidate \in Adapters, ~restore.inFlight,
         BeginWrite, writeResults' = writeResults
  PROVE  WriteInv'
<1> DEFINE w == [generation |-> restore.generation, of |-> candidate,
                 attempt |-> restore.attempt + 1, err |-> None]
<1>1. restore' = [active |-> TRUE, inFlight |-> TRUE, readback |-> FALSE,
                  attempt |-> restore.attempt + 1, retryPolls |-> restore.retryPolls,
                  generation |-> restore.generation]
  BY DEF BeginWrite, WriteInv, RestoreTyped
<1>2. restore'.inFlight = TRUE /\ restore'.generation = restore.generation
  BY <1>1
<1>3. restore.attempt \in Nat /\ restore.generation \in Nat
  BY DEF WriteInv, RestoreTyped
<1>4. RestoreTyped'
  BY <1>1, <1>3 DEF RestoreTyped
<1>5. writes' = writes \cup {w} /\ w \in Writes /\ w.generation = restore.generation
  BY <1>3 DEF BeginWrite, Writes
<1>6. Current = {} /\ ~Waiting
  BY DEF WriteInv
<1>7. Current' = {w} /\ ~Waiting'
  BY <1>2, <1>5, <1>6 DEF Current, Waiting
<1> QED
  BY <1>2, <1>3, <1>4, <1>5, <1>7 DEF WriteInv

LEMMA FinishWrites == WriteInv /\ FinishWrite => WriteInv'
<1> SUFFICES ASSUME WriteInv, FinishWrite PROVE WriteInv'
  OBVIOUS
<1>1. writeResults # None /\ writeResults' = None /\ writes' = writes
  BY DEF FinishWrite
<1>2. CASE ~IsCurrent(writeResults)
  <2>1. restore' = restore /\ ~Waiting
    BY <1>2 DEF FinishWrite, IsCurrent, Waiting
  <2> QED
    BY <1>1, <2>1 DEF WriteInv, RestoreTyped, Current, Waiting
<1>3. CASE IsCurrent(writeResults)
  <2>1. Waiting /\ Current = {}
    BY <1>1, <1>3 DEF WriteInv, IsCurrent, Waiting
  <2>2. PICK a, p, b : restore' = [active |-> restore.active, inFlight |-> FALSE, readback |-> b,
                                   attempt |-> a, retryPolls |-> p,
                                   generation |-> restore.generation]
                       /\ a \in Nat
    <3>1. CASE writeResults.err
      <4>1. restore' = [active |-> restore.active, inFlight |-> FALSE, readback |-> FALSE,
                        attempt |-> restore.attempt,
                        retryPolls |-> RetryPolls(restore.attempt),
                        generation |-> restore.generation]
        BY <1>3, <3>1 DEF FinishWrite, WriteInv, RestoreTyped
      <4>2. restore.attempt \in Nat
        BY DEF WriteInv, RestoreTyped
      <4> QED
        BY <4>1, <4>2
    <3>2. CASE ~writeResults.err
      <4>1. restore' = [active |-> restore.active, inFlight |-> FALSE, readback |-> TRUE,
                        attempt |-> 0, retryPolls |-> 0,
                        generation |-> restore.generation]
        BY <1>3, <3>2 DEF FinishWrite, WriteInv, RestoreTyped
      <4> QED
        BY <4>1
    <3> QED
      BY <3>1, <3>2
  <2>3. restore'.inFlight = FALSE /\ restore'.generation = restore.generation
        /\ restore'.attempt \in Nat
    BY <2>2
  <2>4. RestoreTyped'
    BY <2>2 DEF RestoreTyped, WriteInv
  <2> QED
    BY <1>1, <2>1, <2>3, <2>4 DEF WriteInv, Current, Waiting
<1> QED
  BY <1>2, <1>3

LEMMA EndWrites ==
  ASSUME WriteInv, NEW w \in writes, NEW e \in BOOLEAN, EndWrite(w, e),
         UNCHANGED <<restore, writeResults>>
  PROVE  WriteInv'
<1> DEFINE v == [w EXCEPT !.err = e]
<1>1. w \in Writes /\ v \in Writes /\ v.generation = w.generation
  BY DEF WriteInv, Writes
<1>2. writes' = (writes \ {w}) \cup {v}
  BY DEF EndWrite
<1>3. RestoreTyped' /\ Waiting' = Waiting
  BY DEF WriteInv, RestoreTyped, Waiting
<1>4. CASE w.generation = restore.generation
  <2>1. Current = {w} /\ restore.inFlight /\ ~Waiting
    BY <1>4 DEF WriteInv, Current
  <2>2. Current' = {v}
    BY <1>1, <1>2, <1>4, <2>1 DEF Current
  <2> QED
    BY <1>1, <1>2, <1>3, <2>1, <2>2 DEF WriteInv
<1>5. CASE w.generation # restore.generation
  <2>1. Current' = Current
    BY <1>1, <1>2, <1>5 DEF Current
  <2>2. \A u \in writes : Current = {u} => u \in writes'
    BY <1>2, <1>5 DEF Current
  <2> QED
    BY <1>1, <1>2, <1>3, <2>1, <2>2 DEF WriteInv
<1> QED
  BY <1>4, <1>5

LEMMA DeliverWrites ==
  ASSUME WriteInv, NEW w \in writes, DeliverWrite(w)
  PROVE  WriteInv'
<1> DEFINE r == [generation |-> w.generation, err |-> w.err]
<1>1. /\ writeResults = None /\ writeResults' = r /\ writes' = writes \ {w}
      /\ restore' = restore
  BY DEF DeliverWrite, pollerVars
<1>2. w \in Writes /\ w.err # None
  BY DEF WriteInv, DeliverWrite
<1>3. r \in [generation : Nat, err : BOOLEAN] /\ r # None
  BY <1>2, NameAssumption DEF Writes
<1>4. RestoreTyped' /\ ~Waiting /\ (Waiting' <=> w.generation = restore.generation)
  BY <1>1, <1>3 DEF WriteInv, RestoreTyped, Waiting
<1>5. CASE w.generation = restore.generation
  <2>1. Current = {w} /\ restore.inFlight
    BY <1>5 DEF WriteInv, Current
  <2>2. Current' = {}
    BY <1>1, <2>1 DEF Current
  <2> QED
    BY <1>1, <1>3, <1>4, <1>5, <2>1, <2>2 DEF WriteInv
<1>6. CASE w.generation # restore.generation
  <2>1. Current' = Current
    BY <1>1, <1>6 DEF Current
  <2>2. \A u \in writes : Current = {u} => u \in writes'
    BY <1>1, <1>6 DEF Current
  <2> QED
    BY <1>1, <1>3, <1>4, <1>6, <2>1, <2>2 DEF WriteInv
<1> QED
  BY <1>5, <1>6

LEMMA ConvergeWrites ==
  ASSUME WriteInv, candidate \in Adapters, NEW v, Converge(v), writeResults' = writeResults
  PROVE  WriteInv'
<1> DEFINE same(a, b, p) ==
             restore' = [active |-> a, inFlight |-> restore.inFlight, readback |-> b,
                         attempt |-> restore.attempt, retryPolls |-> p,
                         generation |-> restore.generation]
<1>1. ASSUME NEW a, NEW b, NEW p, same(a, b, p), writes' = writes PROVE WriteInv'
  <2>1. restore'.inFlight = restore.inFlight /\ restore'.generation = restore.generation
        /\ restore'.attempt = restore.attempt
    BY <1>1
  <2>2. RestoreTyped'
    BY <1>1, <2>1 DEF WriteInv, RestoreTyped
  <2> QED
    BY <1>1, <2>1, <2>2, KeepWrites
<1>2. CASE UNCHANGED <<restore, writes>>
  BY <1>2, KeepWrites DEF WriteInv, RestoreTyped
<1>3. CASE writes' = writes /\ restore' = [restore EXCEPT !.active = FALSE, !.readback = FALSE]
  <2>1. same(FALSE, FALSE, restore.retryPolls)
    BY <1>3 DEF WriteInv, RestoreTyped
  <2> QED
    BY <1>1, <1>3, <2>1
<1>4. CASE writes' = writes /\ restore' = [restore EXCEPT !.active = TRUE]
  <2>1. same(TRUE, restore.readback, restore.retryPolls)
    BY <1>4 DEF WriteInv, RestoreTyped
  <2> QED
    BY <1>1, <1>4, <2>1
<1>5. CASE writes' = writes /\ restore' = [restore EXCEPT !.active = TRUE, !.retryPolls = @ - 1]
  <2>1. same(TRUE, restore.readback, restore.retryPolls - 1)
    BY <1>5 DEF WriteInv, RestoreTyped
  <2> QED
    BY <1>1, <1>5, <2>1
<1>6. CASE ~restore.inFlight /\ BeginWrite
  BY <1>6, BeginWrites
<1> QED
  BY <1>2, <1>3, <1>4, <1>5, <1>6 DEF Converge

(* A step that leaves all three alone, but perhaps resets the restoration.  *)
LEMMA IdleWrites ==
  ASSUME WriteInv, UNCHANGED <<writes, writeResults>>,
         restore' = restore \/ restore' = ResetRestore(restore)
  PROVE  WriteInv'
<1>1. CASE restore' = restore
  BY <1>1, KeepWrites DEF WriteInv, RestoreTyped
<1>2. CASE restore' = ResetRestore(restore)
  BY <1>2, ResetWrites
<1> QED
  BY <1>1, <1>2

LEMMA BadSampleIsIdle ==
  ASSUME BadSample
  PROVE  restore' = restore \/ restore' = ResetRestore(restore)
  BY DEF BadSample, LoseHeadset

LEMMA StepWrites == Inv /\ WriteInv /\ [Next]_vars => WriteInv'
<1> SUFFICES ASSUME Inv, WriteInv, [Next]_vars PROVE WriteInv'
  OBVIOUS
<1>1. CASE Environment \/ ReadAnswers \/ ReadFails \/ Stop
  BY <1>1, IdleWrites
     DEF Environment, Select, LinkChanges, LevelChanges, Event, ReadAnswers, ReadFails,
         Stop, pollerVars, ioVars
<1>2. CASE TakeSelection
  BY <1>2, IdleWrites DEF TakeSelection, LoseHeadset, pollerVars
<1>3. CASE Tick
  BY <1>3, IdleWrites, BadSampleIsIdle DEF Tick
<1>4. CASE HandleRead
  <2>1. CASE BadSample /\ UNCHANGED writes
    BY <1>4, <2>1, IdleWrites, BadSampleIsIdle DEF HandleRead
  <2>2. CASE \E v : Converge(v)
    <3>1. candidate \in Adapters
      BY <1>4 DEF HandleRead, Inv, ReadInv, LinkTyped
    <3> QED
      BY <1>4, <2>2, <3>1, ConvergeWrites DEF HandleRead
  <2> QED
    BY <1>4, <2>1, <2>2 DEF HandleRead
<1>5. CASE FinishWrite
  BY <1>5, FinishWrites
<1>6. ASSUME NEW w \in writes, WriteStep(w) PROVE WriteInv'
  <2>1. CASE DeliverWrite(w)
    BY <2>1, DeliverWrites
  <2>2. CASE WriteSucceeds(w) \/ WriteFails(w)
    <3>1. UNCHANGED <<restore, writeResults>>
      BY <2>2 DEF WriteSucceeds, WriteFails, pollerVars
    <3>2. EndWrite(w, TRUE) \/ EndWrite(w, FALSE)
      BY <2>2 DEF WriteSucceeds, WriteFails
    <3> QED
      BY <3>1, <3>2, EndWrites
  <2> QED
    BY <1>6, <2>1, <2>2 DEF WriteStep
<1>7. CASE UNCHANGED vars
  BY <1>7, IdleWrites DEF vars, pollerVars, ioVars
<1> QED
  BY <1>1, <1>2, <1>3, <1>4, <1>5, <1>6, <1>7 DEF Next

LEMMA WriteInvariant == Spec => []WriteInv
<1>1. Init => WriteInv
  <2> SUFFICES ASSUME Init PROVE WriteInv
    OBVIOUS
  <2>1. restore = [active |-> FALSE, inFlight |-> FALSE, readback |-> FALSE,
                   attempt |-> 0, retryPolls |-> 0, generation |-> 0]
    BY DEF Init
  <2>2. RestoreTyped /\ restore.inFlight = FALSE
    BY <2>1 DEF RestoreTyped
  <2>3. writes = {} /\ writeResults = None
    BY DEF Init
  <2> QED
    BY <2>2, <2>3 DEF WriteInv, Current, Waiting
<1> QED
  BY <1>1, StepWrites, LinkInvariant, PTL DEF Spec

(* At most one write of a session is under way, and inFlight tells whether  *)
(* one is, however late the results of earlier sessions come.               *)
THEOREM WritesOne == Spec => []OneWrite
<1>1. WriteInv => OneWrite
  <2> SUFFICES ASSUME WriteInv
               PROVE  Cardinality(Current) + (IF Waiting THEN 1 ELSE 0)
                        = (IF restore.inFlight THEN 1 ELSE 0)
    BY DEF OneWrite, Current, Waiting
  <2>1. CASE restore.inFlight /\ Waiting /\ Current = {}
    BY <2>1, FS_EmptySet
  <2>2. CASE restore.inFlight /\ ~Waiting /\ \E w \in writes : Current = {w}
    <3>1. PICK w \in writes : Current = {w}
      BY <2>2
    <3>2. Cardinality(Current) = 1
      BY <3>1, FS_Singleton
    <3> QED
      BY <2>2, <3>2
  <2>3. CASE ~restore.inFlight /\ ~Waiting /\ Current = {}
    BY <2>3, FS_EmptySet
  <2> QED
    BY <2>1, <2>2, <2>3 DEF WriteInv
<1> QED
  BY <1>1, WriteInvariant, PTL
-----------------------------------------------------------------------------
(* Without an adapter there is no connection; without a connection, nothing *)
(* of a session.                                                            *)
SessionInv ==
  /\ ~debouncer.present => ~debouncer.connected
  /\ ~debouncer.connected => tracker = Tracker!Reset /\ RestIdle(restore)

(* What a bad sample that is no news leaves of the connection. *)
LEMMA StaysConnected ==
  ASSUME Inv, candidate # None, TakeSample(FALSE), ~IsNews(FALSE)
  PROVE  debouncer'.present /\ debouncer'.connected = debouncer.connected
<1>1. debouncer \in Debouncers /\ debouncer.present
  BY DEF Inv, LinkTyped, LinkInv
<1>2. CASE ~Counted(FALSE)
  BY <1>1, <1>2 DEF TakeSample
<1>3. CASE Counted(FALSE)
  <2>1. debouncer' = Debounce!Sample(debouncer, FALSE)
    BY <1>3 DEF TakeSample
  <2>2. debouncer.failures + 1 >= Threshold =>
          debouncer.established /\ debouncer.connected = FALSE
    BY <1>1, <1>3 DEF IsNews, Debounce!SampleIsNews, Debouncers
  <2>3. CASE debouncer.failures + 1 < Threshold
    <3>1. debouncer' = [present |-> TRUE, connected |-> debouncer.connected,
                        established |-> debouncer.established,
                        failures |-> debouncer.failures + 1]
      BY <1>1, <2>1, <2>3, PatientDebouncer
    <3> QED
      BY <3>1
  <2>4. CASE ~(debouncer.failures + 1 < Threshold)
    <3>1. debouncer' = [present |-> TRUE, connected |-> FALSE,
                        established |-> TRUE, failures |-> Threshold]
      BY <1>1, <2>1, <2>4, GivenUpDebouncer
    <3>2. debouncer.connected = FALSE
      BY <1>1, <2>2, <2>4, TimeAssumption DEF Debouncers
    <3> QED
      BY <3>1, <3>2
  <2> QED
    BY <2>3, <2>4
<1> QED
  BY <1>2, <1>3

LEMMA LoseSession ==
  ASSUME WriteInv, LoseHeadset
  PROVE  tracker' = Tracker!Reset /\ RestIdle(restore')
  BY ResetIsIdle DEF LoseHeadset, WriteInv, RestoreTyped

LEMMA StaysPresent ==
  ASSUME Inv, candidate # None, NEW c \in BOOLEAN, TakeSample(c),
         UNCHANGED <<candidate, hasSelection>>
  PROVE  debouncer'.present
  BY SampleKeeps DEF LinkInv

LEMMA BadSampleSession ==
  ASSUME Inv, WriteInv, SessionInv, candidate # None, BadSample,
         UNCHANGED <<candidate, hasSelection>>
  PROVE  SessionInv'
<1>1. TakeSample(FALSE)
  BY DEF BadSample
<1>2. debouncer'.present
  BY <1>1, StaysPresent
<1>3. CASE IsNews(FALSE)
  BY <1>2, <1>3, LoseSession DEF BadSample, SessionInv
<1>4. CASE ~IsNews(FALSE)
  BY <1>1, <1>2, <1>4, StaysConnected DEF BadSample, SessionInv
<1> QED
  BY <1>3, <1>4

LEMMA HandleReadSession ==
  ASSUME Inv, WriteInv, SessionInv, HandleRead
  PROVE  SessionInv'
<1>1. candidate # None /\ reading # None /\ reading.result # None
      /\ UNCHANGED <<candidate, hasSelection>>
  BY DEF HandleRead, Inv, ReadInv
<1> DEFINE r == reading.result
<1>2. CASE BadSample
  BY <1>1, <1>2, BadSampleSession
<1>3. CASE /\ r # Failed /\ TakeSample(r.connected)
           /\ r.connected \/ (debouncer.connected /\ ~IsNews(FALSE))
  <2>1. r.connected \in BOOLEAN
    BY <1>1, <1>3 DEF Inv, LinkTyped, Reports
  <2>2. CASE r.connected = TRUE
    <3>1. debouncer' = [present |-> TRUE, connected |-> TRUE,
                        established |-> TRUE, failures |-> 0]
      BY <1>1, <1>3, <2>2, HeardDebouncer DEF TakeSample, Counted, Inv, LinkTyped, LinkInv
    <3> QED
      BY <3>1 DEF SessionInv
  <2>3. CASE r.connected = FALSE
    <3>1. debouncer.connected /\ ~IsNews(FALSE) /\ TakeSample(FALSE)
      BY <1>3, <2>3
    <3> QED
      BY <1>1, <3>1, StaysConnected DEF SessionInv
  <2> QED
    BY <2>1, <2>2, <2>3
<1> QED
  BY <1>2, <1>3 DEF HandleRead

LEMMA TakeSelectionSession ==
  ASSUME Inv, WriteInv, SessionInv, TakeSelection
  PROVE  SessionInv'
<1>1. CASE UNCHANGED pollerVars
  BY <1>1 DEF SessionInv, pollerVars
<1>2. CASE ~(hasSelection /\ selections = candidate) /\ ~UNCHANGED pollerVars
  <2> DEFINE gone == candidate # None \/ selections = None
             d == IF gone THEN Debounce!AdapterAbsent(debouncer) ELSE debouncer
  <2>1. debouncer' = IF selections = None THEN d ELSE Debounce!AdapterAdded(d)
    BY <1>2 DEF TakeSelection
  <2>2. CASE gone
    <3>1. LoseHeadset
      BY <1>2, <2>2 DEF TakeSelection
    <3>2. debouncer' = [present |-> selections # None, connected |-> FALSE,
                        established |-> TRUE, failures |-> 0]
      BY <2>1, <2>2 DEF Debounce!AdapterAbsent, Debounce!AdapterAdded
    <3>3. debouncer'.connected = FALSE
      BY <3>2
    <3> QED
      BY <3>1, <3>3, LoseSession DEF SessionInv
  <2>3. CASE ~gone
    <3>1. UNCHANGED <<tracker, restore>>
      BY <1>2, <2>3 DEF TakeSelection
    <3>2. debouncer' = [debouncer EXCEPT !.present = TRUE, !.failures = 0]
      BY <2>1, <2>3 DEF Debounce!AdapterAdded
    <3>3. debouncer'.present = TRUE /\ debouncer'.connected = debouncer.connected
      BY <3>2 DEF Inv, LinkTyped, Debouncers
    <3> QED
      BY <3>1, <3>3 DEF SessionInv
  <2> QED
    BY <2>2, <2>3
<1> QED
  BY <1>1, <1>2 DEF TakeSelection

(* While the headset is disconnected, no result is of the current session.  *)
LEMMA FinishWriteSession ==
  ASSUME WriteInv, SessionInv, FinishWrite
  PROVE  SessionInv'
<1>1. UNCHANGED <<debouncer, tracker>>
  BY DEF FinishWrite
<1>2. ~debouncer.connected => restore' = restore
  <2> SUFFICES ASSUME ~debouncer.connected PROVE restore' = restore
    OBVIOUS
  <2>1. ~restore.inFlight
    BY DEF SessionInv, RestIdle
  <2>2. ~Waiting
    BY <2>1 DEF WriteInv
  <2> QED
    BY <2>2 DEF FinishWrite, IsCurrent, Waiting
<1> QED
  BY <1>1, <1>2 DEF SessionInv

LEMMA StepSession == Inv /\ WriteInv /\ SessionInv /\ [Next]_vars => SessionInv'
<1> SUFFICES ASSUME Inv, WriteInv, SessionInv, [Next]_vars PROVE SessionInv'
  OBVIOUS
<1>1. CASE TakeSelection
  BY <1>1, TakeSelectionSession
<1>2. CASE Tick
  <2>1. CASE UNCHANGED <<debouncer, tracker, restore>>
    BY <2>1 DEF SessionInv
  <2>2. CASE BadSample
    BY <1>2, <2>2, BadSampleSession DEF Tick
  <2> QED
    BY <1>2, <2>1, <2>2 DEF Tick
<1>3. CASE HandleRead
  BY <1>3, HandleReadSession
<1>4. CASE FinishWrite
  BY <1>4, FinishWriteSession
<1>5. CASE \/ Environment \/ ReadAnswers \/ ReadFails \/ Stop
           \/ \E w \in writes : WriteStep(w)
  <2>1. UNCHANGED <<debouncer, tracker, restore>>
    BY <1>5
       DEF Environment, Select, LinkChanges, LevelChanges, Event, ReadAnswers, ReadFails,
           Stop, WriteStep, WriteSucceeds, WriteFails, DeliverWrite, pollerVars
  <2> QED
    BY <2>1 DEF SessionInv
<1>6. CASE UNCHANGED vars
  BY <1>6 DEF vars, pollerVars, SessionInv
<1> QED
  BY <1>1, <1>2, <1>3, <1>4, <1>5, <1>6 DEF Next

(* While the headset is disconnected nothing of its last session is left:   *)
(* no history of buttons, no restoration, no write that is waited for.      *)
THEOREM NothingOutlivesSession == Spec => []SessionState
<1>1. Init => SessionInv
  <2> SUFFICES ASSUME Init PROVE SessionInv
    OBVIOUS
  <2>1. debouncer = Debounce!New /\ tracker = Tracker!Reset
    BY DEF Init
  <2>2. RestIdle(restore)
    BY DEF Init, RestIdle
  <2> QED
    BY <2>1, <2>2 DEF SessionInv, Debounce!New
<1>2. SessionInv => SessionState
  BY DEF SessionInv, RestIdle, SessionState
<1> QED
  BY <1>1, <1>2, StepSession, LinkInvariant, WriteInvariant, PTL DEF Spec
-----------------------------------------------------------------------------
(* A power of two is the number of subsets of a set, and so a natural       *)
(* number: the provers know of powers no more than the library's theorem.   *)
LEMMA PowerType == ASSUME NEW n \in Nat PROVE 2 ^ n \in Nat
<1>1. IsFiniteSet(1..n) /\ Cardinality(1..n) = n
  BY FS_Interval
<1>2. IsFiniteSet(SUBSET (1..n)) /\ Cardinality(SUBSET (1..n)) = 2 ^ n
  BY <1>1, FS_SUBSET
<1> QED
  BY <1>2, FS_CardinalityType

(* The delay of a retry is a whole number of polls.                         *)
LEMMA RetryPollsType == ASSUME NEW n \in Nat PROVE RetryPolls(n) \in Nat
<1> DEFINE k == IF n = 0 THEN 0 ELSE n - 1
           doubled == InitialRetry * 2 ^ k
           delay == IF doubled > MaximumRetry THEN MaximumRetry ELSE doubled
<1>1. /\ InitialRetry \in Nat /\ MaximumRetry \in Nat
      /\ PollInterval \in Nat \ {0}
  BY TimeAssumption, PollIntervalBounds
<1>2. doubled \in Nat
  <2>1. k \in Nat
    OBVIOUS
  <2>2. 2 ^ k \in Nat
    BY <2>1, PowerType
  <2> QED
    BY <1>1, <2>2
<1>3. delay \in Nat
  BY <1>1, <1>2
<1>4. RetryPolls(n) = (delay + PollInterval - 1) \div PollInterval
  BY DEF RetryPolls
<1> HIDE DEF delay
<1>5. delay + PollInterval - 1 \in Nat
  BY <1>1, <1>3
<1> QED
  BY <1>1, <1>4, <1>5

LEMMA ResetType ==
  ASSUME restore \in Restores
  PROVE  ResetRestore(restore) \in Restores
  BY DEF ResetRestore, Restores

LEMMA ConvergeType ==
  ASSUME restore \in Restores, NEW v, Converge(v)
  PROVE  restore' \in Restores
<1>1. CASE restore' = restore
  BY <1>1
<1>2. CASE restore' = [restore EXCEPT !.active = FALSE, !.readback = FALSE]
  BY <1>2 DEF Restores
<1>3. CASE restore' = [restore EXCEPT !.active = TRUE]
  BY <1>3 DEF Restores
<1>4. CASE /\ restore.retryPolls > 0
           /\ restore' = [restore EXCEPT !.active = TRUE, !.retryPolls = @ - 1]
  <2>1. restore.retryPolls - 1 \in Nat
    BY <1>4 DEF Restores
  <2> QED
    BY <1>4, <2>1 DEF Restores
<1>5. CASE BeginWrite
  <2>1. restore' = [restore EXCEPT !.active = TRUE, !.readback = FALSE,
                                   !.inFlight = TRUE, !.attempt = @ + 1]
    BY <1>5 DEF BeginWrite
  <2>2. restore.attempt + 1 \in Nat
    BY DEF Restores
  <2> QED
    BY <2>1, <2>2 DEF Restores
<1> QED
  BY <1>1, <1>2, <1>3, <1>4, <1>5 DEF Converge

LEMMA BadSampleType ==
  ASSUME restore \in Restores, reader \in BOOLEAN, reported \in BOOLEAN \cup {None},
         BadSample
  PROVE  /\ restore' \in Restores /\ reader' \in BOOLEAN
         /\ reported' \in BOOLEAN \cup {None}
  BY ResetType DEF BadSample, TakeSample, LoseHeadset

(* The parts of the state no other invariant speaks of.                     *)
RestTyped ==
  /\ sends \in 0..MaxSelections /\ events \in 0..MaxEvents /\ failures \in 0..MaxFailures
  /\ reader \in BOOLEAN /\ stopped \in BOOLEAN
  /\ restore \in Restores
  /\ reported \in BOOLEAN \cup {None}

LEMMA FailsType ==
  ASSUME failures \in 0..MaxFailures, NEW a, Fails(a)
  PROVE  failures' \in 0..MaxFailures
  BY PollerBoundAssumption DEF Fails

LEMMA StepRest == Inv /\ RestTyped /\ [Next]_vars => RestTyped'
<1> SUFFICES ASSUME Inv, RestTyped, [Next]_vars PROVE RestTyped'
  OBVIOUS
<1>1. CASE Environment
  <2>1. /\ UNCHANGED <<reader, stopped, restore, reported, failures>>
        /\ \/ sends < MaxSelections /\ sends' = sends + 1 /\ events' = events
           \/ events < MaxEvents /\ events' = events + 1 /\ sends' = sends
    BY <1>1 DEF Environment, Select, LinkChanges, LevelChanges, Event, pollerVars, worldVars
  <2> QED
    BY <2>1, PollerBoundAssumption DEF RestTyped
<1>2. CASE TakeSelection
  <2>1. UNCHANGED <<sends, events, failures, stopped>>
    BY <1>2 DEF TakeSelection, pollerVars, worldVars
  <2>2. reported' \in BOOLEAN \cup {None}
    BY <1>2 DEF TakeSelection, RestTyped, pollerVars
  <2>3. restore' \in Restores /\ reader' \in BOOLEAN
    BY <1>2, ResetType DEF TakeSelection, RestTyped, pollerVars, LoseHeadset
  <2> QED
    BY <2>1, <2>2, <2>3 DEF RestTyped
<1>3. CASE FinishWrite
  <2>1. /\ UNCHANGED <<sends, events, failures, stopped, reader, reported>>
    BY <1>3 DEF FinishWrite, worldVars
  <2>2. RetryPolls(restore.attempt) \in Nat
    BY RetryPollsType DEF RestTyped, Restores
  <2>3. restore' \in Restores
    BY <1>3, <2>2 DEF FinishWrite, RestTyped, Restores
  <2> QED
    BY <2>1, <2>3 DEF RestTyped
<1>4. CASE Tick
  <2>1. UNCHANGED <<sends, events, stopped>>
    BY <1>4 DEF Tick
  <2>2. failures' \in 0..MaxFailures
    BY <1>4, FailsType DEF Tick, RestTyped
  <2>3. /\ restore' \in Restores /\ reader' \in BOOLEAN
        /\ reported' \in BOOLEAN \cup {None}
    BY <1>4, BadSampleType DEF Tick, RestTyped
  <2> QED
    BY <2>1, <2>2, <2>3 DEF RestTyped
<1>5. CASE HandleRead
  <2>1. UNCHANGED <<sends, events, failures, stopped>>
    BY <1>5 DEF HandleRead, worldVars
  <2>2. CASE BadSample
    BY <2>1, <2>2, BadSampleType DEF RestTyped
  <2>3. CASE ~BadSample
    <3>1. PICK r : /\ r = reading.result /\ r # Failed /\ r # None
                   /\ TakeSample(r.connected) /\ Converge(r.volume) /\ reader' = reader
      BY <1>5, <2>3 DEF HandleRead
    <3>2. r.connected \in BOOLEAN
      BY <1>5, <3>1 DEF HandleRead, Inv, LinkTyped, Reports
    <3>3. reported' \in BOOLEAN \cup {None}
      BY <3>1, <3>2 DEF TakeSample, RestTyped
    <3>4. restore' \in Restores
      BY <3>1, ConvergeType DEF RestTyped
    <3> QED
      BY <2>1, <3>1, <3>3, <3>4 DEF RestTyped
  <2> QED
    BY <2>2, <2>3
<1>6. CASE Stop
  BY <1>6 DEF Stop, RestTyped, worldVars
<1>7. CASE ReadAnswers \/ ReadFails
  <2>1. UNCHANGED <<sends, events, reader, stopped, restore, reported>>
    BY <1>7 DEF ReadAnswers, ReadFails, pollerVars, worldVars
  <2>2. failures' \in 0..MaxFailures
    BY <1>7, FailsType DEF ReadAnswers, ReadFails, RestTyped, worldVars
  <2> QED
    BY <2>1, <2>2 DEF RestTyped
<1>8. ASSUME NEW w \in writes, WriteStep(w) PROVE RestTyped'
  <2>1. UNCHANGED <<sends, events, reader, stopped, restore, reported>>
    BY <1>8 DEF WriteStep, WriteSucceeds, WriteFails, DeliverWrite, pollerVars, worldVars
  <2>2. failures' \in 0..MaxFailures
    BY <1>8, FailsType
    DEF WriteStep, WriteSucceeds, WriteFails, DeliverWrite, RestTyped, worldVars
  <2> QED
    BY <2>1, <2>2 DEF RestTyped
<1>9. CASE UNCHANGED vars
  BY <1>9 DEF vars, pollerVars, worldVars, RestTyped
<1> QED
  BY <1>1, <1>2, <1>3, <1>4, <1>5, <1>6, <1>7, <1>8, <1>9 DEF Next

(* No step takes a variable out of its type: the carried-over time stays    *)
(* below an interval, the failures below the threshold, and the delay of a  *)
(* retry, which doubles with each attempt, is a number of polls.            *)
THEOREM PollerTypeCorrect == Spec => []TypeOK
<1>1. Init => RestTyped
  <2> SUFFICES ASSUME Init PROVE RestTyped
    OBVIOUS
  <2>1. restore \in Restores /\ reported \in BOOLEAN \cup {None}
    BY DEF Init, Restores
  <2>2. /\ sends \in 0..MaxSelections /\ events \in 0..MaxEvents
        /\ failures \in 0..MaxFailures
    BY PollerBoundAssumption DEF Init
  <2> QED
    BY <2>1, <2>2 DEF Init, RestTyped
<1>2. Inv /\ WriteInv /\ RestTyped => TypeOK
  <2> SUFFICES ASSUME Inv, WriteInv, RestTyped PROVE TypeOK
    OBVIOUS
  <2>1. elapsed \in 0..(Interval - 1)
    BY TimeAssumption DEF Inv, LinkTyped
  <2> QED
    BY <2>1 DEF Inv, LinkTyped, Debouncers, WriteInv, Writes, RestTyped, TypeOK
<1> QED
  BY <1>1, <1>2, StepRest, LinkInvariant, WriteInvariant, PTL DEF Spec
=============================================================================

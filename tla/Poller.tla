------------------------------- MODULE Poller -------------------------------
(***************************************************************************)
(* The poller of internal/polling/poller.go: one goroutine that takes the  *)
(* selected adapter from discovery, reads a feature report of it at each   *)
(* tick, debounces the connection bit, feeds the interaction tracker, and  *)
(* in host-only mode writes the device's volume back to its target.        *)
(* A read and a write each run in a goroutine of their own.  While a read  *)
(* is under way the poller's select also takes selections and the results  *)
(* of writes.  Time is counted in units of which PollInterval, Interval    *)
(* and the retry delays are multiples.                                     *)
(***************************************************************************)
EXTENDS Integers, FiniteSets

CONSTANTS
  Adapters,       \* the adapters discovery may select
  None,           \* no adapter, no read, no result; an invalid volume level
  Empty,          \* the selections channel is empty
  Failed,         \* the result of a read that failed
  Threshold,      \* disconnect_failures
  Interval,       \* interval
  FastInterval,   \* 50 ms
  HostOnly,       \* the poller's hostOnlyVolume
  Target,         \* hid.DeviceVolumeTarget
  Levels,         \* volume levels a headset may show, None for an invalid one
  InitialRetry,   \* 250 ms
  MaximumRetry,   \* 30 s
  Ends,           \* the daemon's context may be cancelled
  MaxSelections,  \* bound: selections discovery sends
  MaxEvents,      \* bound: changes of the headsets' links and levels
  MaxFailures     \* bound: opens, reads and writes that fail without cause

ASSUME NameAssumption ==
  /\ None \notin Int \cup BOOLEAN \cup Adapters
  /\ Empty \notin Adapters \cup {None}
  /\ Failed # None
  /\ None \notin [generation : Nat, err : BOOLEAN]

ASSUME TimeAssumption ==
  {Threshold, Interval, FastInterval, InitialRetry, MaximumRetry} \subseteq Nat \ {0}

ASSUME DeviceAssumption ==
  /\ Target \in Levels /\ Target # None
  /\ Levels \subseteq Int \cup {None}
  /\ {HostOnly, Ends} \subseteq BOOLEAN

ASSUME PollerBoundAssumption == {MaxSelections, MaxEvents, MaxFailures} \subseteq Nat

Debounce == INSTANCE Debouncer
Tracker == INSTANCE Interactions

VARIABLES
  selections,   \* the selections channel: the waiting selection, or Empty
  sends,        \* number of selections sent
  candidate, hasSelection,
  reader,       \* the poller has an open reader
  debouncer,
  elapsed,      \* failureElapsed
  tracker,      \* interactions
  restore,      \* the fields about the restoration of the device's volume
  reading,      \* the read waitForRead waits for, or None
  writes,       \* the write goroutines
  writeResults, \* the channel of that name, of capacity one: content or None
  reported,     \* the connection the observer was told last, None before
  devices,      \* the headsets: their radio links and volume levels
  events, failures,
  stopped       \* Run has returned

pollerVars == <<candidate, hasSelection, reader, debouncer, elapsed, tracker,
                restore, reported, stopped>>
ioVars     == <<reading, writes, writeResults>>
worldVars  == <<devices, events, failures>>
vars       == <<selections, sends, pollerVars, ioVars, worldVars>>

Init ==
  /\ selections = Empty /\ sends = 0
  /\ candidate = None /\ hasSelection = FALSE /\ reader = FALSE
  /\ debouncer = Debounce!New /\ elapsed = 0
  /\ tracker = Tracker!Reset
  /\ restore = [active |-> FALSE, inFlight |-> FALSE, readback |-> FALSE,
                attempt |-> 0, retryPolls |-> 0, generation |-> 0]
  /\ reading = None /\ writes = {} /\ writeResults = None
  /\ reported = None
  /\ devices = [a \in Adapters |-> [link |-> FALSE, level |-> Target]]
  /\ events = 0 /\ failures = 0 /\ stopped = FALSE
-----------------------------------------------------------------------------
(* Discovery and the headsets. *)

Select(c) ==
  /\ sends < MaxSelections
  /\ sends' = sends + 1
  /\ selections' = c
  /\ UNCHANGED <<pollerVars, ioVars, worldVars>>

Event(a, d) ==
  /\ events < MaxEvents
  /\ events' = events + 1
  /\ devices' = [devices EXCEPT ![a] = d]
  /\ UNCHANGED <<selections, sends, pollerVars, ioVars, failures>>

LinkChanges(a) == Event(a, [devices[a] EXCEPT !.link = ~@])

(* The buttons of a headset that is on move its volume. *)
LevelChanges(a, v) ==
  /\ devices[a].link
  /\ v # devices[a].level
  /\ Event(a, [devices[a] EXCEPT !.level = v])

(* An input or output of adapter a fails: because the headset is off, or    *)
(* for a reason that is none of this model's.                               *)
Fails(a) ==
  \/ ~devices[a].link /\ UNCHANGED failures
  \/ devices[a].link /\ failures < MaxFailures /\ failures' = failures + 1
-----------------------------------------------------------------------------
(* Debouncing. *)

PollInterval ==
  IF HostOnly /\ Interval > FastInterval THEN FastInterval ELSE Interval

(* Variants: nothing is carried over to the next failures; everything is. *)
ElapsedWithoutCarry(connected) ==
  IF connected \/ elapsed + PollInterval >= Interval THEN 0
  ELSE elapsed + PollInterval

ElapsedGrows(connected) == IF connected THEN 0 ELSE elapsed + PollInterval

ElapsedAfter(connected) ==
  IF connected THEN 0
  ELSE IF elapsed + PollInterval >= Interval THEN elapsed + PollInterval - Interval
  ELSE elapsed + PollInterval

(* A failure reaches the debouncer once per Interval. *)
Counted(connected) == connected \/ elapsed + PollInterval >= Interval

IsNews(connected) == Counted(connected) /\ Debounce!SampleIsNews(debouncer, connected)

(* Variant: a write of before the reset is still waited for. *)
ResetKeepsInFlight(r) == [r EXCEPT !.active = FALSE, !.readback = FALSE,
  !.attempt = 0, !.retryPolls = 0, !.generation = @ + 1]

ResetRestore(r) ==
  [active |-> FALSE, inFlight |-> FALSE, readback |-> FALSE,
   attempt |-> 0, retryPolls |-> 0, generation |-> r.generation + 1]

(* sample(connected), but for what follows when the headset is lost. *)
TakeSample(connected) ==
  /\ elapsed' = ElapsedAfter(connected)
  /\ debouncer' = IF Counted(connected) THEN Debounce!Sample(debouncer, connected)
                  ELSE debouncer
  /\ reported' = IF IsNews(connected) THEN connected ELSE reported

(* Variant: the tracker keeps the state of the lost headset. *)
LoseHeadsetOnly ==
  /\ restore' = ResetRestore(restore)
  /\ reader' = FALSE
  /\ UNCHANGED tracker

LoseHeadset ==
  /\ tracker' = Tracker!Reset
  /\ restore' = ResetRestore(restore)
  /\ reader' = FALSE

(* A sample(FALSE) that ends the handler: a failed one, or one of a report  *)
(* that leaves the headset disconnected.                                    *)
BadSample ==
  /\ TakeSample(FALSE)
  /\ IF IsNews(FALSE) THEN LoseHeadset ELSE UNCHANGED <<tracker, restore, reader>>
-----------------------------------------------------------------------------
(* Restoring the device's volume. *)

(* scheduleWriteRetry: the delay in polls, rounded up. *)
RetryPolls(attempt) ==
  LET doubled == InitialRetry * 2 ^ (IF attempt = 0 THEN 0 ELSE attempt - 1)
      delay == IF doubled > MaximumRetry THEN MaximumRetry ELSE doubled
  IN (delay + PollInterval - 1) \div PollInterval

BeginWrite ==
  /\ restore' = [restore EXCEPT !.active = TRUE, !.readback = FALSE,
                                !.inFlight = TRUE, !.attempt = @ + 1]
  /\ writes' = writes \cup {[generation |-> restore.generation, of |-> candidate,
                             attempt |-> restore.attempt + 1, err |-> None]}

(* convergeDeviceVolume(v); the program's reader is always a writer too. *)
Converge(v) ==
  \/ /\ ~HostOnly \/ v = None
     /\ UNCHANGED <<restore, writes>>
  \/ /\ HostOnly /\ v = Target
     /\ restore' = IF restore.active
                   THEN [restore EXCEPT !.active = FALSE, !.readback = FALSE]
                   ELSE restore
     /\ UNCHANGED writes
  \/ /\ HostOnly /\ v \notin {None, Target}
     /\ \/ /\ restore.inFlight
           /\ restore' = [restore EXCEPT !.active = TRUE]
           /\ UNCHANGED writes
        \/ /\ ~restore.inFlight /\ restore.retryPolls > 0
           /\ restore' = [restore EXCEPT !.active = TRUE, !.retryPolls = @ - 1]
           /\ UNCHANGED writes
        \/ /\ ~restore.inFlight /\ restore.retryPolls = 0
           /\ BeginWrite

(* Variant: any result is taken for the write in flight. *)
Concerns(result) == TRUE

(* The result is of a write begun since the last reset. *)
IsCurrent(result) == result.generation = restore.generation

(* finishDeviceVolumeWrite, in either select. *)
FinishWrite ==
  /\ ~stopped
  /\ writeResults # None
  /\ writeResults' = None
  /\ restore' =
       IF ~IsCurrent(writeResults) THEN restore
       ELSE IF writeResults.err
       THEN [restore EXCEPT !.inFlight = FALSE, !.readback = FALSE,
                            !.retryPolls = RetryPolls(restore.attempt)]
       ELSE [restore EXCEPT !.inFlight = FALSE, !.readback = TRUE,
                            !.attempt = 0, !.retryPolls = 0]
  /\ UNCHANGED <<selections, sends, candidate, hasSelection, reader, debouncer,
                 elapsed, tracker, reported, stopped, reading, writes, worldVars>>
-----------------------------------------------------------------------------
(* The select of Run and the one of waitForRead. *)

(* Variant: the read of the adapter before goes on. *)
ReadGoesOn == UNCHANGED reading

(* waitForRead leaves its read alone and returns. *)
AbandonRead == reading' = None

(* selectCandidate(selections) *)
TakeSelection ==
  /\ ~stopped
  /\ selections # Empty
  /\ selections' = Empty
  /\ AbandonRead
  /\ \/ /\ hasSelection /\ selections = candidate
        /\ UNCHANGED pollerVars
     \/ /\ ~(hasSelection /\ selections = candidate)
        /\ hasSelection' = TRUE
        /\ candidate' = selections
        /\ elapsed' = 0
        /\ LET left == candidate # None
               d == IF left \/ selections = None THEN Debounce!AdapterAbsent(debouncer)
                    ELSE debouncer
           IN /\ debouncer' = IF selections = None THEN d ELSE Debounce!AdapterAdded(d)
              /\ reported' = IF (left \/ selections = None)
                                /\ Debounce!AbsentIsNews(debouncer)
                             THEN FALSE ELSE reported
              /\ IF left \/ selections = None
                 THEN LoseHeadset
                 ELSE UNCHANGED <<tracker, restore, reader>>
        /\ UNCHANGED stopped
  /\ UNCHANGED <<sends, writes, writeResults, worldVars>>

StartRead == reading' = [of |-> candidate, result |-> None]

(* A tick opens the adapter if need be and begins a read. *)
Tick ==
  /\ ~stopped
  /\ reading = None
  /\ candidate # None
  /\ \/ /\ reader' = TRUE
        /\ StartRead
        /\ UNCHANGED <<debouncer, elapsed, tracker, restore, reported, failures>>
     \/ /\ ~reader
        /\ Fails(candidate)
        /\ BadSample
        /\ UNCHANGED reading
  /\ UNCHANGED <<selections, sends, candidate, hasSelection, stopped, writes,
                 writeResults, devices, events>>

(* waitForRead takes the result of the read. *)
HandleRead ==
  /\ ~stopped
  /\ reading # None /\ reading.result # None
  /\ LET r == reading.result
     IN \/ /\ r = Failed
           /\ BadSample
           /\ UNCHANGED writes
        \/ /\ r # Failed /\ ~r.connected /\ (~debouncer.connected \/ IsNews(FALSE))
           /\ BadSample
           /\ UNCHANGED writes
        \/ /\ r # Failed /\ (r.connected \/ (debouncer.connected /\ ~IsNews(FALSE)))
           /\ TakeSample(r.connected)
           /\ tracker' = Tracker!Sample(tracker, r).tracker
           /\ Converge(r.volume)
           /\ UNCHANGED reader
  /\ reading' = None
  /\ UNCHANGED <<selections, sends, candidate, hasSelection, stopped,
                 writeResults, worldVars>>

Stop ==
  /\ Ends
  /\ ~stopped
  /\ stopped' = TRUE
  /\ reader' = FALSE
  /\ reading' = None
  /\ UNCHANGED <<selections, sends, candidate, hasSelection, debouncer, elapsed,
                 tracker, restore, reported, writes, writeResults, worldVars>>
-----------------------------------------------------------------------------
(* The goroutines that read and write. *)

(* The device answers with its state; the buttons are left out here. *)
ReadAnswers ==
  /\ reading # None /\ reading.result = None
  /\ LET d == devices[reading.of]
     IN reading' = [reading EXCEPT !.result =
          [connected |-> d.link, volume |-> d.level, up |-> FALSE, down |-> FALSE]]
  /\ UNCHANGED <<selections, sends, pollerVars, writes, writeResults, worldVars>>

ReadFails ==
  /\ reading # None /\ reading.result = None
  /\ Fails(reading.of)
  /\ reading' = [reading EXCEPT !.result = Failed]
  /\ UNCHANGED <<selections, sends, pollerVars, writes, writeResults, devices, events>>

EndWrite(w, failed) == writes' = (writes \ {w}) \cup {[w EXCEPT !.err = failed]}

WriteSucceeds(w) ==
  /\ w.err = None
  /\ devices[w.of].link
  /\ devices' = [devices EXCEPT ![w.of].level = Target]
  /\ EndWrite(w, FALSE)
  /\ UNCHANGED <<selections, sends, pollerVars, reading, writeResults, events, failures>>

(* A write fails on a reader that was closed under it, too. *)
WriteFails(w) ==
  /\ w.err = None
  /\ \/ w.generation # restore.generation /\ UNCHANGED failures
     \/ Fails(w.of)
  /\ EndWrite(w, TRUE)
  /\ UNCHANGED <<selections, sends, pollerVars, reading, writeResults, devices, events>>

DeliverWrite(w) ==
  /\ w.err # None
  /\ writeResults = None
  /\ writeResults' = [generation |-> w.generation, err |-> w.err]
  /\ writes' = writes \ {w}
  /\ UNCHANGED <<selections, sends, pollerVars, reading, worldVars>>
-----------------------------------------------------------------------------
Environment ==
  \/ \E c \in Adapters \cup {None} : Select(c)
  \/ \E a \in Adapters : LinkChanges(a) \/ \E v \in Levels : LevelChanges(a, v)

WriteStep(w) == WriteSucceeds(w) \/ WriteFails(w) \/ DeliverWrite(w)

Next ==
  \/ Environment
  \/ TakeSelection \/ FinishWrite \/ Tick \/ HandleRead \/ Stop
  \/ ReadAnswers \/ ReadFails
  \/ \E w \in writes : WriteStep(w)

Spec == Init /\ [][Next]_vars

(* The ticker ticks, the selects take what is ready, and reads and writes   *)
(* come to an end.                                                          *)
Fairness ==
  /\ WF_vars(TakeSelection) /\ WF_vars(FinishWrite)
  /\ WF_vars(Tick) /\ WF_vars(HandleRead)
  /\ WF_vars(ReadAnswers \/ ReadFails)
  /\ WF_vars(\E w \in writes : WriteStep(w))

FairSpec == Spec /\ Fairness
-----------------------------------------------------------------------------
Restores == [active : BOOLEAN, inFlight : BOOLEAN, readback : BOOLEAN,
             attempt : Nat, retryPolls : Nat, generation : Nat]

Reports == [connected : BOOLEAN, volume : Levels, up : BOOLEAN, down : BOOLEAN]

TypeOK ==
  /\ selections \in Adapters \cup {None, Empty} /\ sends \in 0..MaxSelections
  /\ candidate \in Adapters \cup {None} /\ hasSelection \in BOOLEAN
  /\ reader \in BOOLEAN
  /\ debouncer \in [present : BOOLEAN, connected : BOOLEAN,
                    established : BOOLEAN, failures : 0..Threshold]
  /\ elapsed \in 0..(Interval - 1)
  /\ restore \in Restores
  /\ reading \in [of : Adapters, result : Reports \cup {None, Failed}] \cup {None}
  /\ writes \subseteq [generation : Nat, of : Adapters, attempt : Nat,
                       err : BOOLEAN \cup {None}]
  /\ writeResults \in [generation : Nat, err : BOOLEAN] \cup {None}
  /\ reported \in BOOLEAN \cup {None}
  /\ devices \in [Adapters -> [link : BOOLEAN, level : Levels]]
  /\ events \in 0..MaxEvents /\ failures \in 0..MaxFailures
  /\ stopped \in BOOLEAN

(* For how long the samples have failed. *)
Silence == IF debouncer.failures = Threshold THEN Threshold * Interval
           ELSE debouncer.failures * Interval + elapsed

Link == INSTANCE DebouncedLink WITH
  NoAdapter <- None,
  Step <- PollInterval,
  Patience <- Threshold * Interval,
  adapter <- candidate,
  reported <- reported,
  silence <- Silence

(* The connection is reported as DebouncedLink promises: at once for a good *)
(* sample or a removal, and after exactly the configured time of failures,  *)
(* however often the poller polls.                                          *)
LinkSpec == Link!LinkSpec

(* A sample is only ever taken from the adapter that is selected: no read   *)
(* of an adapter that has been replaced counts for its successor.           *)
OwnAdapter == reading # None => reading.of = candidate

(* Nothing of a session outlives it: while the headset is disconnected      *)
(* there is no history of buttons to take a press from, and no restoration  *)
(* under way.                                                               *)
SessionState ==
  ~debouncer.connected =>
    /\ tracker = Tracker!Reset
    /\ ~restore.active /\ ~restore.inFlight /\ ~restore.readback
    /\ restore.attempt = 0 /\ restore.retryPolls = 0

(* At most one write of the current session is under way, and the poller    *)
(* knows whether one is: the late result of a write from before a reset     *)
(* neither ends the wait for a newer one nor lets a second begin.           *)
OneWrite ==
  LET current == {w \in writes : w.generation = restore.generation}
      waiting == writeResults # None /\ writeResults.generation = restore.generation
  IN Cardinality(current) + (IF waiting THEN 1 ELSE 0)
       = (IF restore.inFlight THEN 1 ELSE 0)

(* When discovery and the headsets go quiet, the connection last reported   *)
(* is that of the selected adapter, unless the poller has stopped.          *)
ConnectionFollows ==
  <>[](\/ stopped
       \/ sends > 0 => reported = (candidate # None /\ devices[candidate].link))

(* And the volume of a connected headset is back at the target. *)
LevelConverges ==
  <>[](HostOnly /\ ~stopped /\ reported = TRUE /\ devices[candidate].level # None
         => devices[candidate].level = Target)
=============================================================================

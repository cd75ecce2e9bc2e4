# pslinkd: models, checks and proofs

pslinkd watches the USB adapter of a wireless headset and switches the
desktop's default audio sink and source when the headset connects and
disconnects; optionally it carries the headset's volume, microphone state and
volume buttons over to the host. This directory holds TLA+ models of the
program, the TLC runs that check them, and theorems proved with TLAPS.

## Inventory

| Component | State | Operations | Interacts with |
| --- | --- | --- | --- |
| discovery `Watcher` (`internal/discovery`) | selected adapter, established, warning key | `Run`, `handleEvent`, `reconcile`, `Select` | udev (enumeration and events); `SelectionChanged` of the observer |
| observer (`internal/daemon`) | selected adapter, desired audio state, episode and failure flags | `SelectionChanged`, `ConnectionChanged`, `InteractionChanged`, log callbacks | called by discovery and the poller; sends to the two one-place channels |
| channels (`sendLatest`) | one waiting selection, one waiting desired state | `sendLatest`, receive | observer to poller, observer to controller |
| `Poller` (`internal/polling`) | adapter, reader, debouncer, interaction tracker, restore state | `Run`, `waitForRead`, `selectCandidate`, `sample`, `convergeDeviceVolume`, `finishDeviceVolumeWrite` | selections in; read and write goroutines; observer callbacks out |
| `Debouncer`, `InteractionTracker` (`internal/state`) | connection, failures; last controls, button bits, credits | `AdapterAdded`, `AdapterAbsent`, `Sample`; `Sample`, `Reset` | owned by the poller |
| HID (`internal/hid`) | open file | `Open`, `ReadFeature`, `WriteFeature`, `Close`, `DecodeReport` | the adapter |
| audio `Controller` (`internal/audio/controller.go`) | revision, current, applied, plan, attempt, cancel function, retry timer, step counters, pending target | the cases of `Run`; `plan`, `apply` | desired states in; action goroutines; results and resolutions back |
| wpctl adapter (`internal/audio/wpctl.go`) | none | `SetDefault`, `SetVolume`, `GetVolume`, `SetVolumeScalar`, `SetMute`, resolution | PipeWire, through processes |
| daemon (`internal/daemon`, `cmd`) | three workers | `Run` | starts, watches and stops the workers |
| configuration, logging | file values; rate-limit table | `Load`, `Validate`; `Event`, `RateLimited` | start-up; all |

What is hard here: three goroutines that talk through lossy one-place channels;
action goroutines that are cancelled but not joined, so that their results and
their effects can be late; retries of actions that may already have worked;
relative button presses turned into absolute volumes; conflation of states that
an observer counted in; and a shutdown at any point. `PROJECT.json` lists each
hazard at its line.

What makes each part correct:

* channels: the sender never blocks, the newest value arrives, the old one is
  replaced;
* controller: one live action; a finished transition holds on the host; the
  newest state is applied in the end; the user's own choice is left alone;
  steps are neither lost nor counted twice; nothing leaks at shutdown;
* poller: a connection is reported once and after the configured time only; no
  result of an earlier adapter is taken for the present one; a restore ends;
* tracker: each press is one step;
* discovery: the selected adapter is the first of those present, in the end;
* daemon: one worker's failure ends all, and the first failure is reported.

## Modules

| Module | Models |
| --- | --- |
| `LatestSlot` | abstract: a register for one value, a put replaces what waits |
| `SendLatest` | `sendLatest`, one action for each of its three channel operations, and the receiver |
| `SendLatestProofs` | `SendLatest` never blocks, and implements `LatestSlot` |
| `AudioController` | `Controller.Run` and `apply`, the observer that feeds it, the host's audio state, the user |
| `AudioControllerMC` | symmetry of the adapters |
| `HostSteps` | `AudioController` with a history variable: where the volume should stand |
| `HostStepsMC` | values for its configurations |
| `AudioControllerProofs` | typing, one live action, no nil cancel function; a finished transition holds, the user's sink is kept |
| `HostStepsProofs` | targets are exact, steps have landed |
| `Debouncer` | the operations of `Debouncer`, as operators |
| `Interactions` | `InteractionTracker.Sample` and its parts, as operators |
| `DebouncedLink` | abstract: what the poller promises about the connection it reports |
| `Poller` | `Poller` with both selects, its read and write goroutines, and the headsets |
| `PollerMC` | levels for its configuration |
| `PollerProofs` | `Poller` implements `DebouncedLink`; reads are of the selected adapter; one write at most; nothing of a session outlives it; typing |
| `Presses` | the tracker against a headset whose buttons are pressed |
| `PressesMC` | values for its configurations |
| `PressesProofs` | typing; with one button in use, each press counts once, and none twice where levels come in time |
| `Discovery` | `Watcher` and the udev backend against adapters that come and go |
| `DiscoveryProofs` | typing; what is selected and told, if nothing falls into the gap |
| `Daemon` | `Run` of the daemon: discovery, poller, observer, channels and audio worker composed, their failures and their end |
| `DaemonProofs` | typing; whose name a state bears; the join; no false failure |
| `Resolver` | the wpctl adapter's resolution, process by process, against a graph that changes |
| `ResolverMC` | graphs, nodes and targets for its configuration |
| `ResolverProofs` | typing; no command on another's node; the preferred node |

### SendLatest and LatestSlot

`pc` is where the sender stands among `Offer` (the first select), `Drain` (the
second) and `Send` (the last statement); the receiver may act between any two.
Values are numbered. The refinement takes the drain, or the offer that succeeds,
as the moment of the put. `AudioController` uses the abstract register: `chan`
is overwritten by every send.

### AudioController

One action for each case of the controller's select: `Receive`, `DropResult` and
`HandleResult`, `RetryFires`, and `Stop`; `Resolve` is the meeting of the
action's send on the unbuffered `hostResolutions` with the select. `plan` is the
set of the fields of `actionPlan` that are true. An action goroutine is a record
in `acts`, identified by revision and attempt, with the set `todo` of the calls
it still has to make; they are made in the order of `Rank`, which is the order of
the statements of `apply`. `canceler` stands for `actionCancel`: the identity of
the action it cancels, or empty when nil.

A call of the `Setter` is one step: it succeeds (`Perform`), or it fails, times
out or is killed (`Fail`), with or without its effect on the host. The list,
inspect and set processes that make up one call are not told apart. A cancelled
context is noticed at the next command, as `exec.CommandContext` does. A
cancelled goroutine that has finished may report or leave, since both cases of
its select are ready.

The environment is the observer's callbacks (`ConnectHeadset`,
`DisconnectHeadset`, `Interact`), the user, and the end of the context. The
observer's `Zero` stands for a disconnected state of any adapter: the controller
never looks at the USB identity of a disconnected state. (`NewSession` compares
it with that of the last applied state, but is true for a disconnected one
anyway.)

Volumes are counted in units of 1/15, one button step. `wpctl get-volume`
prints two decimals, so the real target may be off by less than half a percent;
the model counts exactly. A user may amplify beyond full scale with other tools;
the model's volumes end at `MaxVolume`.

### HostSteps

`base` is the volume at which zero steps of the session stand: it is counted
anew when a host session begins, when steps are settled, and when the user moves
the volume. It also moves when a limit cuts off steps that are added to a pending
target: the controller clamps the old target plus the new steps, so what was
cut off is not owed to a later press the other way. It never influences the
program's variables.

### Debouncer, DebouncedLink and Poller

`Poller` has one action for each case of the select in `Run` (`Tick`,
`TakeSelection`, `FinishWrite`, `Stop`) and in `waitForRead` (the last three
again, and `HandleRead`). `reading` is the read `waitForRead` waits for: `Tick`
opens the adapter if need be and begins one, `ReadAnswers` and `ReadFails` are
the goroutine, `HandleRead` is all that follows a result. A new selection
abandons the read; its goroutine's result goes to a channel nobody reads, so the
model forgets it. A write goroutine is a record in `writes` until it has put its
result in `writeResults`; it outlives resets, as in the code, and carries the
generation it was begun in.

`sample` is `TakeSample`, and `LoseHeadset` for what it does when a
disconnection is news. `Counted` says whether a failure reaches the debouncer:
at a fast poll only once per configured interval, with the remainder carried over
(`ElapsedAfter`). Time is a number of units of which the intervals and delays
are multiples. The debouncer counts failures up to the threshold only; the code
counts on, and never looks again.

`DebouncedLink` states the promise of `specs/architecture.md`: a good sample
connects at once, failures disconnect when they have lasted for the debounce time
and not before, leaving an adapter disconnects. `silence` is that time; `Poller`
maps it to `failures * Interval + elapsed`.

The headsets are a link and a level each. A read of a headset that is off may
fail or answer with a clear bit; one that is on may fail too, `MaxFailures`
times. Button bits play no part here; `Presses` has them.

### Interactions and Presses

`Sample(t, r)` is the tracker after report `r` and the steps it adds; the
operators before it are the cases of its switch. `Presses` runs it against a
device: a press raises a bit until the button is released, and moves the level at
most `lag` reports later; `Poll` is a report; `Restore` is the daemon's write
reaching the device. `pressed` and `counted` compare what the user did with what
the tracker reported. If pulses are not `missable`, every change of a bit is seen
by a report, which 50 ms polls are meant to achieve.

What one can ask depends on how the headset is used, which `use` fixes at the
start:

* one button, pulses missable, levels up to four reports late: every press
  counts once, by its pulse or by its level;
* both buttons, pulses seen, levels at most one report late: the same. With a
  lag of two it does not hold: the levels of opposite presses may then change
  between the same two reports and cancel, and their credits stay to swallow later
  presses. Missed pulses of opposite buttons cancel in the level likewise;
* one button while the daemon restores the level: a press between two reports may
  be hidden by the restoration, and nothing in the reports tells. What is left to
  ask is that none counts twice (`NoDoubleCount`). That holds, and is stated, for
  levels at most one report late (`Timely`): no report then falls between a press's
  bit and its level with a restoration in between. With a lag of two the code does
  count a press twice; see Violations.

### Discovery

The watcher's goroutine lists (`udev_enumerate_scan_devices`), inspects
(`udev_device_new_from_syspath` finds only what is still there), and selects in one
step with the inspection; `phase` says where it is. Syspaths are numbers in
their order. The monitor receives events from `EnableReceiving` on. `Gap = FALSE`
assumes that nothing is plugged in or out between the first scan and then.

### Daemon

Composes the parts that have models of their own by what those promise. The
poller is `DebouncedLink` (`INSTANCE`, with nothing to debounce), which
`PollerProofs` shows `Poller` to implement; the channels are registers, which
`SendLatestProofs` shows `sendLatest` to implement; the audio worker only takes
the desired state. What is left in full is what none of them holds alone: the
observer, and `Run`.

`SelectionChanged` is one action: the code holds `selectedMu` from the assignment
to the send. `ConnectionChanged` is three, for the poller calls it
(`TakeSelection`, `Sample` set `telling`), reads the selection under the lock
(`ReadSelection`), and sends (`SendDesired`); discovery may act between any two.
`InteractionChanged` only adds controls to the desired state and is in
`AudioController`.

Each worker sends one result to `results`; `Collect` is one turn of the loop over
three results with its two conditions, `Finish` the return. `signalled` and
`cancelled` are the two contexts: a signal cancels Run's, and `Propagate` the
derived one. `DiscoveryFails` follows the order of the conditions in
`Watcher.Run`: an error of the first enumeration is returned always, one of the
monitor only while the context lives. The poller and the controller never return
an error: the one they have is for a closed channel, and no one closes any.

### Resolver

One action for each wpctl process of an operation: `ListNames`; `ListDevices`,
`InspectDevice`, `ListNodes`, `InspectNode`; `Act` for the command itself, in any
of the five operations; `Choose` is the sort. `graph` maps object IDs to objects
and changes between any two processes; `recycled` records that an ID was given
to another object. `ProcessFails` stands for a process that fails or times out
and for output that does not parse; `GiveUp` ends an attempt, and the
controller's retry is the next `Begin`. An operation that has succeeded is over: the
controller repeats it no more, though a preferred node may have appeared while it
was resolved. A behaviour is one operation, for the next one starts from whatever
graph it finds. `wpctl` is taken to fail on an ID that no object has. Objects are
inspected in any order, and the sort may put any least node first, so neither the
order of a listing nor the instability of `sort.Slice` is fixed.

`IsPreferred` restates rules 1 to 5 of `specs/architecture.md` without the steps of
the code: the nodes of every device of the adapter, a serial that fits, the
greatest priority, the least name. `calm` says that the graph has not changed
since the attempt began. Paths are abstracted to the adapter they belong to, and a
device's serial to the set of USB serials that `serialsMatch` takes it for (itself,
and what follows an underscore in it).

## Runs

All runs set `CHECK_DEADLOCK FALSE`: the environment's bounds let the system
come to rest.

| Run | Question | Bounds |
| --- | --- | --- |
| `SendLatest` | does the sender block, is the newest value lost, is it one atomic replacement? | 12 values |
| `AudioTransitions` | is one action live, does a finished transition hold, is the user's sink left alone? | 2 symmetric adapters and sources, synchronized controls, 3 desired states, 2 attempts, 1 user action |
| `AudioEnds` | does the newest state get applied, and does everything end when the context does? | 1 adapter, host-only controls, 3 desired states, 2 attempts, late effects allowed; volume starts at full scale |
| `HostSteps` | are steps counted exactly? | 4 desired states, steps of -1, 0, 1, 2 attempts, 1 user action; volume 0..2 starting at 2, the user sets 1 |
| `Poller` | is the connection reported as `DebouncedLink` says, is a session's state gone with it, do the connection and the device's volume come right? | 2 adapters, 3 selections, 3 changes of links and levels, 1 failure; threshold 2, interval 5 polled every 2; target, another and an invalid level |
| `Presses` | is each press one step, and none two? | 5 presses of each of three uses of a headset |
| `Discovery` | is the first adapter selected, and told, in the end? | 2 adapters, 4 plugs, 1 irrelevant or duplicate event |
| `Daemon` | does the audio state follow the selected adapter's headset and bear its name, does Run end with all its workers, when it must, and with the right result? | 2 adapters, 3 selections, 1 change of a link (either state at the start), a failure and a signal at any point |
| `Resolver` | can a command reach another's node, is the preferred node found, does the operation succeed in the end? | 4 IDs, 2 adapters, 4 changes of the graph, 1 failed process; one target by name, two by adapter |
| `SupersededRoute`, `LostPress`, `NoisyReconnect` | violations, see below | smallest that show them |

Why the bounds suffice: a desired state can be superseded twice by three sends
(an action running, a result waiting and a newer state at once), which is as
many as the one-place channels and the single `actionCancel` can tell apart; two
attempts give a failure, its retry and a result of each. Four sends with
interactions are a connection and three presses, of which one can be under way,
one pending and one waiting. With a volume of 0..2 the presses reach both limits
and come away from them again, so that targets saturate in between; the theorems
about `HostSteps` cover every `MaxVolume`.

Three selections take an adapter away and bring it or another back, the shortest
way for a write or read of one session to meet the next; a failure of a headset
that is on comes on top of any number of failures of one that is off, and three
changes let a headset connect, drop and return, or move its level. An interval
of 5 polled every 2 leaves every remainder of 0 to 4 to carry over. Levels are the target and one other (and an invalid one): nothing in
the poller looks further. Credits last four reports, so a lag of four is the limit
at which they must still match, and five presses hold several credits of
either direction at once.

Three selections are the first, one away and one back, which is where the
observer's and the poller's selections can differ and agree again; links begin in
any state, so one change is a headset that connects or drops at any point. Four
IDs hold two devices and two nodes, which is what uniqueness, priority and names
are decided between; four changes take a device with its node away and bring
another pair under the same or other IDs during one resolution.

### Fairness

`Fairness` asks that the controller's select takes each kind of ready case in
the end, that a timer fires, and that an action goroutine keeps running (each
command has a timeout of five seconds). Go's select chooses at random among the
ready cases, which is what weak fairness of each case over a finite number of
sends amounts to. Nothing is asked of the headset, the user or the end of the
context. `MaxAttempts` adds an assumption: the last attempt of an action fails
only by being cancelled, that is, the host works in the end. Without it the
code retries for ever and nothing converges.

The poller's fairness: its ticker ticks, both selects take what is ready (Go's
select is fair with probability one), an ioctl returns, and a write goroutine ends
and hands its result over. After `MaxFailures` failures of a headset that is on,
its reads and writes succeed: without that nothing can be learned of it.
Discovery's: the watcher's goroutine runs, and its poll wakes every 250 ms.

The daemon's: the first enumeration ends one way or the other, the three workers'
selects take what is ready, a cancelled context reaches the derived one, and `Run`
takes the results. Later selections, failures, links and signals are free. The
resolution's: each process ends, after the timeout at the latest, and the
controller tries again after a failure, and only then (`Begin` is not enabled once
the operation has succeeded).

### KillIsPrompt

`actionCancel` does not wait for the goroutine it cancels. With
`KillIsPrompt = FALSE` a command killed by a cancellation may still take effect
later. `AudioEnds` allows it. The runs that compare the host
with the desired state assume `TRUE`: whether a request of a killed `wpctl` can
still be carried out after one of the next process is up to PipeWire. With
`FALSE`, `DoneMeansDone` does not hold.

## Violations

* `SupersededRoute`: the headset connects, the action sets the default sink,
  the headset disconnects before the result is taken. `plan` compares with
  `applied`, which is still the disconnected state: nothing to do, and the sink
  stays on the headset.
* `LostPress`: a press up, its write takes effect, a press down arrives before
  the result. The steps equal the settled steps: nothing to do, and the volume
  stays one step up. Moreover `hostTarget` is then still set with nothing pending, and the next
  press is counted from it without a fresh read.
* `NoisyReconnect`: after a settled press, a disconnect and a reconnect are
  merged by `sendLatest`; the observer's steps start at zero again, the
  controller sees the same session and moves the volume back.

More disagreements follow from the actions of the models, without a run of their
own:

* presses take the level to 13; the restoration and one more press fall between
  two samples, which see 13 and 12: the default case of the tracker infers a step
  down for a press up, where `specs/v1.1.1.md:129-130` counts the new excursion
  from level 11 (`Presses` with the use `Use({1}, TRUE, TRUE, 0)` gets there);
* a press is seen by its bit while its level is still to come; a report sees the
  restoration of an earlier press and drops the credit; the level change that
  follows counts again, against `specs/v1.1.1.md:124-127` (with `Timely`
  left out, `NoDoubleCount` is violated with the use `Use({1}, FALSE, TRUE, 2)`);
* the observer names a connected state by its own selection, not by the adapter
  the poller heard the headset on. Discovery selects another adapter, the poller
  hears the first one's headset and reports it under the other's name, discovery
  selects the first again, and the poller finds its selection unchanged and tells
  nothing: the desired state names an adapter that is not selected until the
  headset disconnects (`Named` is violated in the instance of the run `Daemon`;
  `missed` marks the behaviours in which it can be);
* `belongsToUSB` and the name are checked when an object is inspected, not when it
  is acted on: with `~recycled` left out, `OwnObject` is violated by an object that
  vanishes and another that gets its ID before the command runs;
* a valid report with a clear connection bit, read below the disconnect
  threshold, is decoded for controls like a connected one (`HandleRead`, third
  disjunct);
* `FinishWrite` may come between `ReadAnswers` and `HandleRead`: a report read
  before the write ended is taken for the readback after it, and a redundant
  write begins;
* with `Gap = TRUE` an adapter that arrives after the first scan and before
  `udev_monitor_enable_receiving` is not selected: no event tells of it. The run
  of `Discovery` assumes `Gap = FALSE`, and `Informed` is false without it.

## Proofs

`SendLatestProofs` proves from the inductive invariant `IInv` (the sender and the
buffer agree on which values are where) that `NeverBlocks` always holds and that
every step of `Spec` is a put, a get or a stutter of `LatestSlot`, for any
`MaxSends`.

`AudioControllerProofs` proves `TypeOK`, `OneLiveAction` and `NoNilCancel` for
every value of the constants that the module's assumptions allow. The invariant
`Typed /\ ControlInv` adds to them what they need: every goroutine's plan fits its
desired state (a volume is only written where one is known, a write has a target
by the time it is made), revisions and attempts of goroutines and results never
lie ahead of the controller's, at most one of {live action, waiting result of the
current revision, running retry timer} exists, and the action of the controller's
cancel function has reported at most once. None of the three is inductive alone:
`NoNilCancel` needs that a current result comes from the one action that was
live, and `OneLiveAction` that a retry is only pending when none is.

`DoneMeansDone` and `UserChoiceKept` relate the host to calls that several
goroutines make in their own time. They are proved where `KillIsPrompt`, which is
where they hold: a command that is carried out after its kill undoes what a newer
one has done. `CurrentInv` says that a current goroutine or result is for the
current desired state and plan, and why the plan has a part (`Reasons`). `HostInv`
is the invariant about the host: `Landed(todo)` says that each part of the plan
whose call is no longer to be made holds there; it is so for the calls a current
goroutine still has to make, and for none when its result waits and when the
controller rests. A live call lands its part and disturbs no other
(`LandedPerform`), a cancelled one that is killed does nothing, and the user's
sink is `Foreign`, which `Holds` allows (`LandedKept`).

`HostStepsProofs` builds on those invariants for the history variable `base`.
`Counted`, the base plus the steps of the current state, is what every target must
be. `StepInv` follows it from the goroutine that has read the volume but not yet
told it (`TargetKnown`), through the controller's `hostTarget`, into a retry
(`Told`: an action that failed after its read had told its target) and onto the
host (`Written`); with no target pending, the host's volume is the base plus the
settled steps (`Unread`), so a fresh read agrees with it. `TargetsAreExact` and
`StepsHaveLanded` follow for any volumes, steps and limits.

`PollerProofs` proves `LinkSpec` and `OwnAdapter` for every threshold, interval,
poll rate and set of adapters. The invariant `Inv` ties the debouncer to the
selection and to what was reported: present exactly when an adapter is selected,
established exactly when something was reported, which is then the debounced
state; at the threshold, disconnected. The carried-over time stays below the
interval because a poll stands for no more than one interval
(`PollIntervalBounds`); so one failure of the debouncer stands for exactly one
interval, and `GoodSample` and `MissedSample` show that a sample is a step of
`DebouncedLink`. Nonlinear facts (`OneMore`, `Monotone`) are lemmas of their own.

Two more invariants stand on `Inv`. `WriteInv` says where the one
write of the present generation is: under way as a member of `writes`, waiting as a
result, or nowhere; `inFlight` is true in the first two cases only. `OneWrite` is
not inductive without it, because a reset of the restore state must make every
write under way one of an earlier generation, which generations that never lie
ahead of the current one ensure. `SessionInv` says that without a connection the
tracker and the restore state are idle; a sample that is no news cannot end a
connection (`StaysConnected`), so every end passes through the resets. For `TypeOK`
there remain the ranges of the restore state; that the wait before a retry, a
power of two, is a natural number is had from counting the subsets of a set
(`FS_SUBSET`), since the provers know no powers and no induction.

`PressesProofs` begins with the operators: `SampledBits` to `OneSampled` say what
`Sample` makes of a report, part by part and then for one direction. `Typed`
bounds the credits: with the rising bits no report has shown yet they are no more
than the presses. With one button in use and no restoration, `OneWay` says that
the steps counted are those whose level was reported and those that are owed a
level; and the level change of the first press owed may be more reports late than its
credit is old, so that the credit is not given up too early. Hence
`PressesAreCounted` for any number of presses and any lag of at most
`CreditSamples` reports. With restorations, `Within` bounds what was counted, what
the level still shows and the level changes to come by the presses, but for the
one credit just earned. It needs levels at most one report late. `NoDoubleCount`
says so itself (`Timely`), because the code counts twice at a lag of two (see
Violations); `NoPressCountsTwice` proves it for every set of uses.

`DiscoveryProofs` assumes `~Gap`. `SeenInv` carries it: while no relevant event waits,
what was listed is what is present, so what is selected is the first of those;
`StartInv` that no events wait before the monitor receives any. Both need that a
plug while events are received leaves an event behind.

`DaemonProofs`: `EndInv` counts workers alive, results waiting and results taken,
three in all, so that `Run` cannot return before the last. `AlarmInv` says that
every waiting result either carries an error of discovery or was sent after the
cancellation; since `cancelled` never becomes false, no such result is a fault
when it is taken. `ToldInv` relates the poller's adapter and report to the
observer's selection and the newest state through the channel and the call under
way; `NameInv`, unless a change was missed, that a selection that waits is another
adapter (so a disconnection will follow), and that a name read with none waiting
is the poller's.

`ResolverProofs`: `KeptInv` and `TrueInv` say that every ID the resolution holds has
been in use, and that its object, if still there, is what it was inspected as;
while no ID is given away again an ID in use keeps its object or loses it
(`Persists`). `CalmInv` says that while the graph is quiet the devices and nodes
inspected so far are exactly those listed that qualify. `Preferred` follows at the
sort, for any set of nodes and any order.

Assumptions of the constants are named in the modules. Three go beyond the
obvious: `None` and `Empty` differ from every adapter and from the records they
stand beside, IDs are finitely many, and start graphs are well formed: a node's
device is there, and names differ among the nodes of a kind of one device.

## Only model-checked

Liveness (`NewestDelivered`, `NothingLeaks`, `Converges`, `ConnectionFollows`,
`LevelConverges`, `Finds`, `AudioFollows`, `Ends`, `Settles`) is beyond the prover. Every invariant of the runs is
stated by a theorem, with these limits: the theorems about the host assume
`KillIsPrompt`, those about discovery `~Gap`, as the runs do; of the three uses in
the run `Presses`, `PressesCounted` is proved for one button, and only checked,
for five presses, where both are in use.

## Not modelled

* Audio controller: the length of retry delays (a retry may fire at any time);
  changes the user makes to the default source, to mute, or to the volume in
  synchronized mode (nothing in the code reads them).
* Observer: log records, and `hidWriteFailed`, `hidEpisode` and the resolver's
  callback, which only log records depend on.
* Poller: `hadFailure`, readers that cannot write, closed channels.
* Tracker: the microphone, which no step depends on.
* Discovery: the warning about several adapters, an overflow of the netlink
  buffer, and a syspath that another device node takes over.
* HID: the fixed numbers of the requests; the reuse of a descriptor's number by
  whatever the process opens between the check of `file` and the ioctl.
* wpctl adapter: the grammar of wpctl's output, sysfs path prefixes, and the
  environment of its processes: string functions that table tests cover.
* Configuration: read and validated once, before any worker starts, by
  sequential code that keeps no state.
* Logging: output under one lock that nothing reads; its rate-limit table grows by
  one entry per adapter episode and distinct error.
* Nix packaging: build and deployment.

## Plan

Next to prove is `PressesCounted` for both buttons at a lag of one, where the
credits of opposite presses must be told apart; then that the whole of
`AudioController` implements a setter that applies desired states one at a time.
Next to model are the retry delays with the time they take.

------------------------------- MODULE Daemon -------------------------------
(***************************************************************************)
(* Run and the observer of internal/daemon/daemon.go: three workers, each  *)
(* a goroutine, that talk through the observer and two one-place channels, *)
(* and their common end.  The discovery worker tells the observer which    *)
(* adapter is selected; the polling worker learns it later, through a      *)
(* channel, and tells the observer of connections; the observer joins the  *)
(* two into a desired state for the audio worker.                          *)
(*                                                                         *)
(* The polling worker is what DebouncedLink promises of it, with nothing   *)
(* to debounce: PollerProofs shows that Poller keeps the promise.  The     *)
(* channels are slots that a newer value overwrites: SendLatestProofs.     *)
(***************************************************************************)
EXTENDS Naturals, Sequences

CONSTANTS
  Adapters,       \* the adapters discovery may select
  None,           \* no adapter, no worker, nothing reported, not known yet
  Empty,          \* a channel holds nothing
  MaxSelections,  \* bound: selections of discovery
  MaxChanges      \* bound: changes of the headsets' radio links

ASSUME DistinctAssumption ==
  /\ {None, Empty} \cap (Adapters \cup BOOLEAN) = {}
  /\ None # Empty
  /\ None \notin [connected : BOOLEAN, usb : Adapters \cup {None, Empty}]

ASSUME DaemonBoundAssumption == {MaxSelections, MaxChanges} \subseteq Nat

Workers == {"discovery", "polling", "audio"}

VARIABLES
  selected,     \* observer.selected
  selections,   \* the selections channel: the waiting selection, or Empty
  sends,        \* number of selections sent
  missed,       \* history: discovery went away from the adapter the poller
                \* polls and back again before the poller learned of it
  adapter, reported, silence,   \* the polling worker, see DebouncedLink
  telling,      \* the call of ConnectionChanged under way, or None
  newest,       \* observer.desired
  desired,      \* the desiredStates channel: the waiting state, or Empty
  current,      \* the desired state the audio worker took last
  links,        \* the radio links of the adapters' headsets
  changes,
  alive,        \* the workers that have not returned
  broken,       \* discovery has failed
  results,      \* the channel of that name, of capacity 3
  collected,    \* number of results Run has taken
  fatal,        \* the worker of Run's variable fatal, or None
  signalled,    \* SIGINT or SIGTERM has cancelled Run's context
  cancelled,    \* the workers' context is cancelled
  exit          \* what Run returned: "success" or "failure"; None before

selectVars == <<selected, selections, sends, missed>>
linkVars   == <<adapter, reported, silence>>
stateVars  == <<newest, desired, current>>
worldVars  == <<links, changes>>
lifeVars   == <<alive, broken, results, collected, fatal, signalled, cancelled, exit>>
vars       == <<selectVars, linkVars, telling, stateVars, worldVars, lifeVars>>

Link == INSTANCE DebouncedLink WITH NoAdapter <- None, Step <- 1, Patience <- 1

Zero == [connected |-> FALSE, usb |-> None]

Init ==
  /\ selected = None /\ selections = Empty /\ sends = 0 /\ missed = FALSE
  /\ Link!LinkInit
  /\ telling = None
  /\ newest = Zero /\ desired = Empty /\ current = Zero
  /\ links \in [Adapters -> BOOLEAN] /\ changes = 0
  /\ alive = Workers /\ broken = FALSE /\ results = <<>> /\ collected = 0
  /\ fatal = None /\ signalled = FALSE /\ cancelled = FALSE /\ exit = None
-----------------------------------------------------------------------------
(* The discovery worker. *)

(* SelectionChanged(c): the lock is held until the selection is sent.       *)
SelectionChanged(c) ==
  /\ "discovery" \in alive
  /\ sends < MaxSelections
  /\ sends' = sends + 1
  /\ selected' = c
  /\ selections' = c
  /\ missed' = (missed \/ (c = adapter /\ c \notin {None, selected}))
  /\ UNCHANGED <<linkVars, telling, stateVars, worldVars, lifeVars>>

(* The first enumeration tells what there is, be it nothing. *)
FirstSelection == sends = 0 /\ \E c \in Adapters \cup {None} : SelectionChanged(c)

NewSelection ==
  /\ sends > 0
  /\ \E c \in (Adapters \cup {None}) \ {selected} : SelectionChanged(c)
-----------------------------------------------------------------------------
(* The polling worker.  It calls ConnectionChanged, which first reads the   *)
(* observer's selection, and after that sends the desired state.            *)

Polling == "polling" \in alive /\ telling = None

Tell(connected) == telling' = [connected |-> connected, usb |-> Empty]

(* Variant: only the absence of any adapter is a disconnection. *)
GoneIsNews(c) == c = None

(* selectCandidate(c) has a disconnection to tell of. *)
IsDisconnection(c) == adapter # None \/ c = None

(* selectCandidate(selections) *)
TakeSelection ==
  /\ Polling
  /\ selections # Empty
  /\ \/ /\ selections = adapter /\ {adapter, reported} # {None}
        /\ UNCHANGED <<linkVars, telling>>
     \/ /\ adapter' = selections
        /\ Link!Switch
        /\ IF IsDisconnection(adapter') THEN Tell(FALSE) ELSE UNCHANGED telling
  /\ selections' = Empty
  /\ UNCHANGED <<selected, sends, missed, stateVars, worldVars, lifeVars>>

(* A sample of the headset of the selected adapter. *)
Sample ==
  /\ Polling
  /\ adapter # None
  /\ IF links[adapter] THEN Link!Hear ELSE Link!Miss
  /\ IF reported' = reported THEN UNCHANGED telling ELSE Tell(reported')
  /\ UNCHANGED <<selectVars, stateVars, worldVars, lifeVars>>

(* Variant: the identity is that of the state before. *)
KeepIdentity ==
  /\ telling # None /\ telling.usb = Empty
  /\ telling' = [telling EXCEPT !.usb = IF newest.usb = None THEN selected ELSE newest.usb]
  /\ UNCHANGED <<selectVars, linkVars, stateVars, worldVars, lifeVars>>

ReadSelection ==
  /\ telling # None /\ telling.usb = Empty
  /\ telling' = [telling EXCEPT !.usb = selected]
  /\ UNCHANGED <<selectVars, linkVars, stateVars, worldVars, lifeVars>>

(* The rest of ConnectionChanged. *)
SendDesired ==
  /\ telling # None /\ telling.usb # Empty
  /\ newest' = telling
  /\ desired' = telling
  /\ telling' = None
  /\ UNCHANGED <<selectVars, linkVars, current, worldVars, lifeVars>>

(* A radio link comes up or goes down. *)
LinkChanges(a) ==
  /\ changes < MaxChanges
  /\ changes' = changes + 1
  /\ links' = [links EXCEPT ![a] = ~@]
  /\ UNCHANGED <<selectVars, linkVars, telling, stateVars, lifeVars>>
-----------------------------------------------------------------------------
(* The audio worker; what it does with the state is AudioController.        *)
ReceiveDesired ==
  /\ "audio" \in alive
  /\ desired # Empty
  /\ current' = desired
  /\ desired' = Empty
  /\ UNCHANGED <<selectVars, linkVars, telling, newest, worldVars, lifeVars>>
-----------------------------------------------------------------------------
(* The workers' end. *)

(* Variant: a worker is started again and returns again. *)
ReturnAndRestart(w, err) ==
  /\ results' = Append(results, [name |-> w, err |-> err])
  /\ UNCHANGED <<selectVars, linkVars, telling, stateVars, worldVars, alive,
                 collected, fatal, signalled, cancelled, exit>>

Return(w, err) ==
  /\ alive' = alive \ {w}
  /\ results' = Append(results, [name |-> w, err |-> err])
  /\ UNCHANGED <<selectVars, linkVars, telling, stateVars, worldVars, collected,
                 fatal, signalled, cancelled, exit>>

(* An enumeration or the monitor fails.  Once the monitor runs, an error of *)
(* it is no error any more when the context is cancelled.                   *)
DiscoveryFails ==
  /\ "discovery" \in alive
  /\ sends = 0 \/ ~cancelled
  /\ broken' = TRUE
  /\ Return("discovery", TRUE)

(* A worker notices that its context is cancelled: the watcher in its       *)
(* monitor, the poller and the controller in their selects.                 *)
WorkerEnds(w) ==
  /\ w \in alive
  /\ cancelled
  /\ w = "discovery" => sends > 0
  /\ w = "polling" => telling = None
  /\ UNCHANGED broken
  /\ Return(w, FALSE)
-----------------------------------------------------------------------------
(* Run, and the signals. *)

(* Variant: an end without an error is always unexpected. *)
AlwaysFailed(r) == TRUE

(* A worker that ends without an error while nobody asked it to, failed.    *)
Failed(r) == r.err \/ ~cancelled

(* Variants: the other workers go on; two results are enough. *)
CollectOnly ==
  /\ results # <<>> /\ collected < 3
  /\ collected' = collected + 1
  /\ results' = Tail(results)
  /\ fatal' = IF fatal = None /\ Failed(Head(results)) THEN Head(results).name ELSE fatal
  /\ UNCHANGED <<selectVars, linkVars, telling, stateVars, worldVars, alive,
                 broken, signalled, cancelled, exit>>

FinishEarly ==
  /\ collected = 2 /\ exit = None
  /\ exit' = IF signalled \/ fatal = None THEN "success" ELSE "failure"
  /\ UNCHANGED <<selectVars, linkVars, telling, stateVars, worldVars, alive,
                 broken, results, collected, fatal, signalled, cancelled>>

Collect ==
  /\ results # <<>> /\ collected < 3
  /\ collected' = collected + 1
  /\ results' = Tail(results)
  /\ IF fatal = None /\ Failed(Head(results))
     THEN fatal' = Head(results).name /\ cancelled' = TRUE
     ELSE UNCHANGED <<fatal, cancelled>>
  /\ UNCHANGED <<selectVars, linkVars, telling, stateVars, worldVars, alive,
                 broken, signalled, exit>>

Finish ==
  /\ collected = 3 /\ exit = None
  /\ exit' = IF signalled \/ fatal = None THEN "success" ELSE "failure"
  /\ UNCHANGED <<selectVars, linkVars, telling, stateVars, worldVars, alive,
                 broken, results, collected, fatal, signalled, cancelled>>

Signal ==
  /\ ~signalled /\ exit = None
  /\ signalled' = TRUE
  /\ UNCHANGED <<selectVars, linkVars, telling, stateVars, worldVars, alive,
                 broken, results, collected, fatal, cancelled, exit>>

(* The cancellation of a context reaches the one derived from it. *)
Propagate ==
  /\ signalled /\ ~cancelled
  /\ cancelled' = TRUE
  /\ UNCHANGED <<selectVars, linkVars, telling, stateVars, worldVars, alive,
                 broken, results, collected, fatal, signalled, exit>>
-----------------------------------------------------------------------------
Discovering == FirstSelection \/ NewSelection \/ DiscoveryFails

PollerStep == TakeSelection \/ Sample \/ ReadSelection \/ SendDesired

Next ==
  \/ Discovering \/ PollerStep \/ ReceiveDesired
  \/ \E w \in Workers : WorkerEnds(w)
  \/ Collect \/ Finish \/ Signal \/ Propagate
  \/ \E a \in Adapters : LinkChanges(a)

Spec == Init /\ [][Next]_vars

(* The first enumeration comes to an end; the poller keeps polling, its     *)
(* calls return, both selects take what is ready, and so does Run.          *)
Fairness ==
  /\ WF_vars(sends = 0 /\ (FirstSelection \/ DiscoveryFails))
  /\ WF_vars(TakeSelection) /\ WF_vars(Sample)
  /\ WF_vars(ReadSelection) /\ WF_vars(SendDesired) /\ WF_vars(ReceiveDesired)
  /\ \A w \in Workers : WF_vars(WorkerEnds(w))
  /\ WF_vars(Collect) /\ WF_vars(Finish) /\ WF_vars(Propagate)

FairSpec == Spec /\ Fairness
-----------------------------------------------------------------------------
States == [connected : BOOLEAN, usb : Adapters \cup {None}]

TypeOK ==
  /\ selected \in Adapters \cup {None}
  /\ selections \in Adapters \cup {None, Empty}
  /\ sends \in 0..MaxSelections /\ missed \in BOOLEAN
  /\ adapter \in Adapters \cup {None} /\ reported \in BOOLEAN \cup {None}
  /\ silence \in 0..1
  /\ telling \in States \cup [connected : BOOLEAN, usb : {Empty}] \cup {None}
  /\ newest \in States /\ current \in States /\ desired \in States \cup {Empty}
  /\ links \in [Adapters -> BOOLEAN] /\ changes \in 0..MaxChanges
  /\ alive \subseteq Workers /\ broken \in BOOLEAN
  /\ results \in Seq([name : Workers, err : BOOLEAN]) /\ Len(results) <= 3
  /\ collected \in 0..3 /\ fatal \in Workers \cup {None}
  /\ signalled \in BOOLEAN /\ cancelled \in BOOLEAN
  /\ exit \in {"success", "failure", None}

(* When the poller has taken every selection and told of all it saw, the    *)
(* adapter a connected state names is the one the poller polls, although    *)
(* the observer takes the name from discovery.                              *)
Named ==
  telling = None /\ selections = Empty /\ newest.connected => newest.usb = adapter

(* The same, unless discovery went away from the poller's adapter and back  *)
(* before the poller learned of it.                                         *)
NamedUnlessMissed == missed \/ Named

(* No worker is reported as failed because it stopped when it was told to:  *)
(* where there is a fatal error, discovery has failed.                      *)
NoFalseAlarm == fatal # None => broken /\ fatal = "discovery"

(* Run returns only when all three workers have. *)
AllEnded == exit # None => alive = {} /\ results = <<>>

(* When discovery and the headsets go quiet, the state the audio worker has *)
(* is that of the selected adapter's headset, by its name (see              *)
(* NamedUnlessMissed), unless the daemon ends.                              *)
Right ==
  /\ current.connected = (selected # None /\ links[selected])
  /\ current.connected /\ ~missed => current.usb = selected

AudioFollows == <>[](cancelled \/ signalled \/ Right \/ "discovery" \notin alive)

(* A failure of discovery or a signal ends the daemon; and where there was  *)
(* no signal, with a failure, so that it is started again.                  *)
Ends ==
  /\ signalled ~> exit = "success"
  /\ broken ~> exit # None
  /\ [](exit = "success" => signalled)
=============================================================================

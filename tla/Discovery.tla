------------------------------ MODULE Discovery ------------------------------
(***************************************************************************)
(* The watcher of internal/discovery: it enumerates the adapters, selects  *)
(* the one with the first syspath, and enumerates again after each add or  *)
(* remove event of the udev monitor.  An enumeration first lists the       *)
(* devices of the subsystem and then inspects each: one that has gone in   *)
(* between is skipped.  Adapters are named by the place of their syspath   *)
(* in the order of syspaths.                                               *)
(***************************************************************************)
EXTENDS Integers, Sequences, FiniteSetsExt, Functions

CONSTANTS
  Paths,        \* the adapters that may be plugged in
  None,         \* no adapter
  Nothing,      \* the sink has not been told anything
  Gap,          \* adapters may come or go before the monitor receives events
  MayFail,      \* an enumeration or the monitor may fail
  MaxPlugs,     \* bound: times an adapter is plugged in or out
  MaxSpurious   \* bound: events that are irrelevant or duplicates

ASSUME PathAssumption == Paths \subseteq Nat /\ {None, Nothing} \cap Int = {} /\ None # Nothing

ASSUME WorldAssumption ==
  {Gap, MayFail} \subseteq BOOLEAN /\ {MaxPlugs, MaxSpurious} \subseteq Nat

Events == [action : {"add", "remove", "change"}, path : Paths]

VARIABLES
  present,      \* the adapters plugged in
  plugs, spurious,
  receiving,    \* the monitor receives events
  events,       \* those it has received and the watcher has not
  phase,        \* where the watcher's goroutine is
  listed,       \* the devices the enumeration under way has listed
  selected, established,
  told          \* the last selection the sink was told; Nothing before

worldVars   == <<present, plugs, spurious>>
watcherVars == <<phase, listed, selected, established, told>>
vars        == <<worldVars, receiving, events, watcherVars>>

Init ==
  /\ present \in SUBSET Paths /\ plugs = 0 /\ spurious = 0
  /\ receiving = FALSE /\ events = <<>>
  /\ phase = "list" /\ listed = {}
  /\ selected = None /\ established = FALSE /\ told = Nothing

Occurs(e) == events' = IF receiving THEN Append(events, e) ELSE events

(* An adapter is plugged in or pulled out. *)
PlugChanges(p) ==
  /\ Gap \/ receiving \/ phase = "list"
  /\ plugs < MaxPlugs
  /\ plugs' = plugs + 1
  /\ \/ /\ p \notin present
        /\ present' = present \cup {p}
        /\ Occurs([action |-> "add", path |-> p])
     \/ /\ p \in present
        /\ present' = present \ {p}
        /\ Occurs([action |-> "remove", path |-> p])
  /\ UNCHANGED <<spurious, receiving, watcherVars>>

SpuriousEvent(e) ==
  /\ spurious < MaxSpurious
  /\ spurious' = spurious + 1
  /\ Occurs(e)
  /\ UNCHANGED <<present, plugs, receiving, watcherVars>>

(* Variants: the last syspath; zero for none. *)
SelectLast(candidates) == IF candidates = {} THEN None ELSE Max(candidates)

SelectZero(candidates) == IF candidates = {} THEN 0 ELSE Min(candidates)

SelectFrom(candidates) == IF candidates = {} THEN None ELSE Min(candidates)

(* Enumerate: the scan of the subsystem. *)
List ==
  /\ phase = "list"
  /\ listed' = present
  /\ phase' = "inspect"
  /\ UNCHANGED <<worldVars, receiving, events, selected, established, told>>

(* The inspection of what was listed, and the rest of reconcile. *)
Inspect ==
  /\ phase = "inspect"
  /\ LET first == SelectFrom(listed \cap present)
     IN IF ~established \/ first # selected
        THEN selected' = first /\ established' = TRUE /\ told' = first
        ELSE UNCHANGED <<selected, established, told>>
  /\ listed' = {}
  /\ phase' = IF receiving THEN "wait" ELSE "monitor"
  /\ UNCHANGED <<worldVars, receiving, events>>

(* Monitor sets the netlink socket up. *)
EnableReceiving ==
  /\ phase = "monitor"
  /\ receiving' = TRUE
  /\ phase' = "wait"
  /\ UNCHANGED <<worldVars, events, listed, selected, established, told>>

(* Variants: only an arrival, or only a removal, is looked into. *)
RelevantAdd(e) == e.action = "add"

RelevantRemove(e) == e.action = "remove"

Relevant(e) == e.action \in {"add", "remove"}

HandleEvent ==
  /\ phase = "wait"
  /\ events # <<>>
  /\ LET e == Head(events)
     IN /\ IF e.action = "remove" /\ established /\ e.path = selected /\ Relevant(e)
           THEN selected' = None /\ told' = None
           ELSE UNCHANGED <<selected, told>>
        /\ phase' = IF Relevant(e) THEN "list" ELSE phase
  /\ events' = Tail(events)
  /\ UNCHANGED <<worldVars, receiving, listed, established>>

(* Run returns the error and the daemon ends. *)
Fail ==
  /\ MayFail
  /\ phase # "failed"
  /\ phase' = "failed"
  /\ UNCHANGED <<worldVars, receiving, events, listed, selected, established, told>>

World ==
  \/ \E p \in Paths : PlugChanges(p)
  \/ \E e \in Events : SpuriousEvent(e)

Watcher == List \/ Inspect \/ EnableReceiving \/ HandleEvent

Next == World \/ Watcher \/ Fail

Spec == Init /\ [][Next]_vars

(* The watcher's goroutine keeps running and polls the socket. *)
FairSpec == Spec /\ WF_vars(Watcher)
-----------------------------------------------------------------------------
TypeOK ==
  /\ present \subseteq Paths /\ plugs \in 0..MaxPlugs /\ spurious \in 0..MaxSpurious
  /\ receiving \in BOOLEAN /\ events \in Seq(Events)
  /\ phase \in {"list", "inspect", "monitor", "wait", "failed"}
  /\ listed \subseteq Paths
  /\ selected \in Paths \cup {None} /\ established \in BOOLEAN
  /\ told \in Paths \cup {None, Nothing}

IsFirst(c, candidates) ==
  IF candidates = {} THEN c = None
  ELSE c \in candidates /\ \A p \in candidates : c <= p

(* When the watcher has handled every event it has selected, and told, the  *)
(* first of the adapters that are plugged in, whatever came and went while  *)
(* it was enumerating.                                                      *)
Informed ==
  phase = "wait" /\ events = <<>> => IsFirst(selected, present) /\ told = selected

(* An adapter that has gone stays selected only as long as its removal has  *)
(* not been handled.                                                        *)
GoneIsPending ==
  selected \notin present \cup {None} /\ phase # "failed"
    => [action |-> "remove", path |-> selected] \in Range(events)

(* When nothing is plugged in or out any more, the first adapter is told,   *)
(* unless the watcher has failed, which ends the daemon.                    *)
Finds == <>[](phase = "failed" \/ IsFirst(told, present))
=============================================================================

------------------------------ MODULE Resolver ------------------------------
(***************************************************************************)
(* The target resolution of internal/audio/wpctl.go: each operation on the *)
(* host's audio finds the numeric ID of a sink or source with a series of  *)
(* wpctl processes, then acts on that ID with one more.  PipeWire's graph  *)
(* may change between any two of them, and an ID that has become free may  *)
(* be given to another object.                                             *)
(*                                                                         *)
(* A target is an exact node name, or else the USB adapter whose audio     *)
(* device has the node.  belongsToUSB compares whole components of sysfs   *)
(* paths; here a device names its adapter.  serialsMatch takes a device's  *)
(* serial for a USB serial that it equals or ends in after an underscore;  *)
(* here a device's serial is the set of those USB serials.  Node names are *)
(* numbers in their lexicographic order.                                   *)
(*                                                                         *)
(* A behaviour is one operation: the controller retries it while it fails, *)
(* and never repeats it when it has succeeded.                             *)
(***************************************************************************)
EXTENDS Integers, FiniteSets

CONSTANTS
  Ids,          \* object IDs
  Devices,      \* audio devices: [kind: {"device"}, usb, serial: set or None]
  Nodes,        \* nodes: [kind: {"sink", "source"}, device: Ids, name, priority]
  Targets,      \* what may be asked for: [kind, name, usb, serial]
  None,         \* no object, no name, no serial, no priority
  StartGraphs,  \* graphs at the start
  MaxChanges,   \* bound: objects that appear or vanish
  MaxFailures   \* bound: processes that fail without cause

Objects == Devices \cup Nodes

ASSUME ObjectAssumption ==
  /\ IsFiniteSet(Ids)
  /\ None \notin Ids \cup Objects \cup Int
  /\ \A d \in Devices : d.kind = "device"
  /\ \A n \in Nodes : n.kind \in {"sink", "source"} /\ n.device \in Ids
                      /\ n.name \in Int /\ n.priority \in Int \cup {None}
  /\ \A t \in Targets : t.kind \in {"sink", "source"} /\ t.name \in Int \cup {None}

ASSUME ResolverBoundAssumption == {MaxChanges, MaxFailures} \subseteq Nat

IsNode(o) == o # None /\ o.kind # "device"

(* WirePlumber makes nodes for a device that is there, and takes them away  *)
(* before it; names differ among the nodes of one kind of a device.         *)
WellFormed(g) ==
  \A i \in Ids : IsNode(g[i]) =>
    /\ g[g[i].device] # None /\ g[g[i].device].kind = "device"
    /\ \A j \in Ids \ {i} : IsNode(g[j]) =>
         <<g[j].kind, g[j].device, g[j].name>> # <<g[i].kind, g[i].device, g[i].name>>

ASSUME GraphAssumption ==
  StartGraphs \subseteq {g \in [Ids -> Objects \cup {None}] : WellFormed(g)}

VARIABLES
  graph,        \* PipeWire's objects: ID to object, or None
  used,         \* the IDs that have been in use
  recycled,     \* an ID has been given to another object
  changes, failures,
  target,       \* the target asked for
  step,         \* what the action's goroutine does next, or how it ended
  todo,         \* IDs listed and not yet inspected
  matches,      \* the devices that belong to the target's adapter
  eligible,     \* the nodes of the matched device: [id, name, priority]
  chosen,       \* the ID resolved last
  calm          \* history: the graph has not changed since the resolution began

graphVars == <<graph, used, recycled, changes>>
workVars  == <<step, todo, matches, eligible, chosen>>
vars      == <<graphVars, failures, target, workVars, calm>>

Init ==
  /\ graph \in StartGraphs /\ used = {i \in Ids : graph[i] # None}
  /\ recycled = FALSE /\ changes = 0 /\ failures = 0
  /\ target \in Targets
  /\ step = "idle" /\ todo = {} /\ matches = {} /\ eligible = {} /\ chosen = None
  /\ calm = FALSE
-----------------------------------------------------------------------------
(* PipeWire *)

GraphBecomes(g) ==
  /\ changes < MaxChanges
  /\ changes' = changes + 1
  /\ WellFormed(g)
  /\ graph' = g
  /\ calm' = FALSE
  /\ UNCHANGED <<failures, target, workVars>>

Appears(i, o) ==
  /\ graph[i] = None
  /\ GraphBecomes([graph EXCEPT ![i] = o])
  /\ used' = used \cup {i}
  /\ recycled' = (recycled \/ i \in used)

Vanishes(i) ==
  /\ graph[i] # None
  /\ GraphBecomes([graph EXCEPT ![i] = None])
  /\ UNCHANGED <<used, recycled>>

Listed(kind) == {i \in Ids : graph[i] # None /\ graph[i].kind = kind}
-----------------------------------------------------------------------------
(* The resolution: one action per process. *)

(* The operation fails; the controller will retry it. *)
GiveUp ==
  /\ step' = "failed"
  /\ todo' = {} /\ matches' = {} /\ eligible' = {} /\ chosen' = None
  /\ UNCHANGED calm

Resolved(i) ==
  /\ step' = "act" /\ chosen' = i /\ todo' = {}
  /\ UNCHANGED <<matches, eligible, calm>>

Unchanged == UNCHANGED <<graphVars, failures, target>>

(* resolveTarget, for the first time or when the controller retries. *)
Begin ==
  /\ step \in {"idle", "failed"}
  /\ step' = IF target.name = None THEN "listDevices" ELSE "listNames"
  /\ calm' = TRUE
  /\ matches' = {} /\ eligible' = {} /\ todo' = {} /\ chosen' = None
  /\ Unchanged

IsUnique(ids) == Cardinality(ids) = 1

(* resolveExactName *)
ListNames ==
  /\ step = "listNames"
  /\ LET named == {i \in Listed(target.kind) : graph[i].name = target.name}
     IN IF IsUnique(named) THEN \E i \in named : Resolved(i) ELSE GiveUp
  /\ Unchanged

ListDevices ==
  /\ step = "listDevices"
  /\ todo' = Listed("device")
  /\ step' = "inspectDevices"
  /\ UNCHANGED <<matches, eligible, chosen, calm>> /\ Unchanged

Inspected(i) ==
  /\ todo' = todo \ {i}
  /\ UNCHANGED <<step, chosen, calm>>

SerialsMatch(audio, usb) == usb \in audio

(* Variant: a missing serial number does not fit. *)
SameSerial(d) ==
  d.serial # None /\ target.serial # None /\ SerialsMatch(d.serial, target.serial)

SerialFits(d) ==
  d.serial = None \/ target.serial = None \/ SerialsMatch(d.serial, target.serial)

InspectDevice(i) ==
  /\ step = "inspectDevices" /\ i \in todo
  /\ LET o == graph[i]
         belongs == o # None /\ o.kind = "device" /\ o.usb = target.usb
     IN IF o = None \/ (belongs /\ ~SerialFits(o)) THEN GiveUp
        ELSE /\ Inspected(i)
             /\ matches' = IF belongs THEN matches \cup {i} ELSE matches
             /\ UNCHANGED eligible
  /\ Unchanged

ListNodes ==
  /\ step = "inspectDevices" /\ todo = {}
  /\ IF IsUnique(matches)
     THEN /\ todo' = Listed(target.kind)
          /\ step' = "inspectNodes"
          /\ UNCHANGED <<matches, eligible, chosen, calm>>
     ELSE GiveUp
  /\ Unchanged

(* Variant: every node is eligible. *)
AnyNode(o) == IsNode(o)

IsEligible(o) == IsNode(o) /\ o.device \in matches

InspectNode(i) ==
  /\ step = "inspectNodes" /\ i \in todo
  /\ IF graph[i] = None THEN GiveUp
     ELSE /\ Inspected(i)
          /\ eligible' = IF IsEligible(graph[i])
                         THEN eligible \cup {[id |-> i, name |-> graph[i].name,
                                              priority |-> graph[i].priority]}
                         ELSE eligible
          /\ UNCHANGED matches
  /\ Unchanged

(* Variant: a node without a priority comes first. *)
NilFirst(l, r) ==
  \/ l.priority = None /\ r.priority # None
  \/ None \notin {l.priority, r.priority} /\ l.priority > r.priority
  \/ l.priority = r.priority /\ l.name < r.name

(* The order of sort.Slice. *)
Before(l, r) ==
  \/ l.priority # None /\ r.priority = None
  \/ None \notin {l.priority, r.priority} /\ l.priority > r.priority
  \/ l.priority = r.priority /\ l.name < r.name

(* Variant: that there is a node is not checked. *)
ChooseUnchecked ==
  /\ step = "inspectNodes" /\ todo = {}
  /\ IF eligible = {} THEN Resolved(None) ELSE \E n \in eligible : Resolved(n.id)
  /\ Unchanged

(* sort.Slice is not stable: any node that none is before may come first.   *)
Choose ==
  /\ step = "inspectNodes" /\ todo = {}
  /\ IF eligible = {} THEN GiveUp
     ELSE \E n \in eligible :
            /\ \A m \in eligible : ~Before(m, n)
            /\ Resolved(n.id)
  /\ Unchanged

(* set-default, set-volume, get-volume or set-mute on the chosen ID, which  *)
(* fails if no object has it any more.                                      *)
Act ==
  /\ step = "act"
  /\ IF graph[chosen] = None THEN GiveUp
     ELSE /\ step' = "succeeded"
          /\ UNCHANGED <<todo, matches, eligible, chosen, calm>>
  /\ Unchanged

(* A process fails or times out. *)
ProcessFails ==
  /\ step \notin {"idle", "failed", "succeeded"}
  /\ failures < MaxFailures
  /\ failures' = failures + 1
  /\ GiveUp
  /\ UNCHANGED <<graphVars, target>>
-----------------------------------------------------------------------------
PipeWire ==
  \E i \in Ids : Vanishes(i) \/ \E o \in Objects : Appears(i, o)

Resolution ==
  \/ ListNames \/ ListDevices \/ ListNodes \/ Choose \/ Act
  \/ \E i \in todo : InspectDevice(i) \/ InspectNode(i)

Next == PipeWire \/ Begin \/ Resolution \/ ProcessFails

Spec == Init /\ [][Next]_vars

(* Processes end (after five seconds at the latest).  Begin is fair because *)
(* the controller retries what has failed; it is not enabled once the       *)
(* operation has succeeded.                                                 *)
FairSpec == Spec /\ WF_vars(Begin) /\ WF_vars(Resolution)
-----------------------------------------------------------------------------
TypeOK ==
  /\ graph \in [Ids -> Objects \cup {None}] /\ WellFormed(graph)
  /\ used \subseteq Ids /\ {i \in Ids : graph[i] # None} \subseteq used
  /\ recycled \in BOOLEAN
  /\ changes \in 0..MaxChanges /\ failures \in 0..MaxFailures
  /\ target \in Targets
  /\ step \in {"idle", "listNames", "listDevices", "inspectDevices",
               "inspectNodes", "act", "failed", "succeeded"}
  /\ todo \subseteq Ids /\ matches \subseteq Ids
  /\ eligible \subseteq [id : Ids, name : Int, priority : Int \cup {None}]
  /\ chosen \in Ids \cup {None} /\ (step = "act" => chosen # None)
  /\ calm \in BOOLEAN

(* Object i is what was asked for. *)
IsTarget(i) ==
  /\ graph[i].kind = target.kind
  /\ IF target.name # None THEN graph[i].name = target.name
     ELSE graph[graph[i].device].usb = target.usb

(* No command ever takes effect on another adapter's node, or on another    *)
(* name, whatever comes and goes during the resolution, as long as PipeWire *)
(* gives no ID away again: a stale ID is of nothing.                        *)
OwnObject ==
  step = "act" /\ graph[chosen] # None /\ ~recycled => IsTarget(chosen)

Own(usb) == {d \in Listed("device") : graph[d].usb = usb}

Rank(i) == IF graph[i].priority = None THEN {} ELSE {graph[i].priority}

(* Node i has a greater priority than j, counting none as the least.        *)
Outranks(i, j) == \A p \in Rank(j) : \E q \in Rank(i) : q > p

(* The one node that specs/architecture.md says the target resolves to.     *)
IsPreferred(i) ==
  /\ i \in Listed(target.kind) /\ IsTarget(i)
  /\ \A j \in Listed(target.kind) \ {i} : IsTarget(j) =>
       /\ target.name = None
       /\ \/ Rank(i) = Rank(j) /\ graph[i].name < graph[j].name
          \/ Rank(i) # Rank(j) /\ Outranks(i, j)
  /\ target.name = None =>
       \A d \in Own(target.usb) :
         /\ d = graph[i].device
         /\ graph[d].serial # None /\ target.serial # None => target.serial \in graph[d].serial

(* What is resolved while the graph is quiet is the preferred node, in      *)
(* whatever order the objects are listed: the two resolutions of a volume   *)
(* read and the write computed from it find the same node.                  *)
Preferred == step = "act" /\ calm => IsPreferred(chosen)

(* When the graph goes quiet with a preferred node in it, the operation     *)
(* succeeds in the end: no failure on the way there, of a process or of an  *)
(* ID that went stale between two, leaves it undone or failing for ever.    *)
(* What it has then acted on need not be the node preferred in the end: an  *)
(* operation that succeeded while the graph changed is not repeated.        *)
Settles == <>[](step = "succeeded" \/ \A i \in Ids : ~IsPreferred(i))
=============================================================================

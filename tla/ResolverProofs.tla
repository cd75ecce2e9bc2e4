--------------------------- MODULE ResolverProofs ---------------------------
(***************************************************************************)
(* Theorems about Resolver, for every set of objects and targets and every *)
(* graph: a command reaches no other adapter's node, and what is resolved  *)
(* in a quiet graph is the preferred node.                                 *)
(***************************************************************************)
EXTENDS Resolver, FiniteSetTheorems, TLAPS

LEMMA Kinds ==
  /\ \A o \in Objects : o # None /\ o.kind \in {"device", "sink", "source"}
  /\ \A o \in Objects : o.kind # "device" =>
       /\ o \in Nodes /\ o.device \in Ids
       /\ o.name \in Int /\ o.priority \in Int \cup {None}
  /\ \A t \in Targets : t.kind \in {"sink", "source"} /\ t.name \in Int \cup {None}
<1>1. \A o \in Devices : o # None /\ o.kind = "device"
  BY ObjectAssumption DEF Objects
<1>2. \A o \in Nodes : /\ o # None /\ o.kind \in {"sink", "source"} /\ o.device \in Ids
                       /\ o.name \in Int /\ o.priority \in Int \cup {None}
  BY ObjectAssumption DEF Objects
<1> QED
  BY <1>1, <1>2, ObjectAssumption DEF Objects

(* An object that is listed as a sink or a source is a node. *)
LEMMA ListedIsNode ==
  ASSUME TypeOK, NEW i \in Ids, graph[i] # None, graph[i].kind = target.kind
  PROVE  /\ IsNode(graph[i]) /\ graph[i].device \in Ids /\ graph[i].name \in Int
         /\ graph[i].priority \in Int \cup {None}
         /\ graph[graph[i].device] # None /\ graph[graph[i].device].kind = "device"
<1>1. graph[i] \in Objects /\ target \in Targets
  BY DEF TypeOK
<1>2. graph[i].kind # "device"
  BY <1>1, Kinds
<1>3. IsNode(graph[i])
  BY <1>2 DEF IsNode
<1> QED
  BY <1>1, <1>2, <1>3, Kinds DEF TypeOK, WellFormed
-----------------------------------------------------------------------------
LEMMA InitType == Init => TypeOK
<1> SUFFICES ASSUME Init PROVE TypeOK
  OBVIOUS
<1>1. graph \in [Ids -> Objects \cup {None}] /\ WellFormed(graph)
  BY GraphAssumption DEF Init
<1>2. 0 \in 0..MaxChanges /\ 0 \in 0..MaxFailures
  BY ResolverBoundAssumption
<1> QED
  BY <1>1, <1>2 DEF Init, TypeOK

LEMMA PipeWireType == TypeOK /\ PipeWire => TypeOK'
<1> SUFFICES ASSUME TypeOK, NEW i \in Ids,
                    Vanishes(i) \/ \E o \in Objects : Appears(i, o)
             PROVE  TypeOK'
  BY DEF PipeWire
<1>1. ASSUME NEW g \in [Ids -> Objects \cup {None}], GraphBecomes(g),
             used' \subseteq Ids, {j \in Ids : g[j] # None} \subseteq used',
             recycled' \in BOOLEAN
      PROVE  TypeOK'
  <2>1. changes' \in 0..MaxChanges
    BY <1>1, ResolverBoundAssumption DEF GraphBecomes, TypeOK
  <2> QED
    BY <1>1, <2>1 DEF GraphBecomes, TypeOK, WellFormed, IsNode, workVars
<1>2. CASE Vanishes(i)
  <2>1. [graph EXCEPT ![i] = None] \in [Ids -> Objects \cup {None}]
    BY DEF TypeOK
  <2>2. {j \in Ids : [graph EXCEPT ![i] = None][j] # None} \subseteq used
    BY DEF TypeOK
  <2> QED
    BY <1>1, <1>2, <2>1, <2>2 DEF Vanishes, TypeOK
<1>3. ASSUME NEW o \in Objects, Appears(i, o) PROVE TypeOK'
  <2>1. [graph EXCEPT ![i] = o] \in [Ids -> Objects \cup {None}]
    BY DEF TypeOK
  <2>2. {j \in Ids : [graph EXCEPT ![i] = o][j] # None} \subseteq used \cup {i}
    BY DEF TypeOK
  <2>3. used' = used \cup {i} /\ used' \subseteq Ids /\ recycled' \in BOOLEAN
    BY <1>3 DEF Appears, TypeOK
  <2> QED
    BY <1>1, <1>3, <2>1, <2>2, <2>3 DEF Appears
<1> QED
  BY <1>2, <1>3

(* A step of the resolution: what it may leave behind. *)
LEMMA WorkType ==
  ASSUME TypeOK, UNCHANGED <<graphVars, target>>,
         failures' \in 0..MaxFailures,
         step' \in {"idle", "listNames", "listDevices", "inspectDevices",
                    "inspectNodes", "act", "failed", "succeeded"},
         todo' \subseteq Ids, matches' \subseteq Ids,
         eligible' \subseteq [id : Ids, name : Int, priority : Int \cup {None}],
         chosen' \in Ids \cup {None}, step' = "act" => chosen' # None,
         calm' \in BOOLEAN
  PROVE  TypeOK'
  BY DEF TypeOK, graphVars, WellFormed, IsNode

LEMMA GiveUpType ==
  ASSUME TypeOK, GiveUp, UNCHANGED <<graphVars, target>>, failures' \in 0..MaxFailures
  PROVE  TypeOK'
  BY WorkType DEF TypeOK, GiveUp

LEMMA ResolvedType ==
  ASSUME TypeOK, NEW i \in Ids, Resolved(i), Unchanged
  PROVE  TypeOK'
  BY WorkType, ObjectAssumption DEF TypeOK, Resolved, Unchanged

LEMMA InspectType ==
  ASSUME TypeOK, NEW i \in todo, InspectDevice(i) \/ InspectNode(i)
  PROVE  TypeOK'
<1> USE DEF Unchanged
<1>1. CASE GiveUp
  BY <1>1, GiveUpType DEF InspectDevice, InspectNode, TypeOK
<1>2. CASE InspectDevice(i) /\ ~GiveUp
  BY <1>2, WorkType DEF InspectDevice, Inspected, TypeOK
<1>3. CASE InspectNode(i) /\ ~GiveUp
  <2>1. graph[i] # None /\ graph[i] \in Objects
    BY <1>3 DEF InspectNode, TypeOK
  <2>2. IsEligible(graph[i]) =>
          [id |-> i, name |-> graph[i].name, priority |-> graph[i].priority]
            \in [id : Ids, name : Int, priority : Int \cup {None}]
    BY <2>1, Kinds DEF IsEligible, IsNode, TypeOK
  <2>3. eligible' \subseteq [id : Ids, name : Int, priority : Int \cup {None}]
    BY <1>3, <2>1, <2>2 DEF InspectNode, TypeOK
  <2> QED
    BY <1>3, <2>1, <2>3, WorkType DEF InspectNode, Inspected, TypeOK
<1> QED
  BY <1>1, <1>2, <1>3

LEMMA ResolutionType == TypeOK /\ Resolution => TypeOK'
<1> SUFFICES ASSUME TypeOK, Resolution PROVE TypeOK'
  OBVIOUS
<1>1. CASE ListNames
  <2>1. CASE GiveUp
    BY <1>1, <2>1, GiveUpType DEF ListNames, Unchanged, TypeOK
  <2>2. CASE ~GiveUp
    <3>1. PICK i \in Listed(target.kind) : Resolved(i)
      BY <1>1, <2>2 DEF ListNames
    <3> QED
      BY <1>1, <3>1, ResolvedType DEF ListNames, Listed
  <2> QED
    BY <2>1, <2>2
<1>2. CASE ListDevices
  BY <1>2, WorkType DEF ListDevices, Listed, Unchanged, TypeOK
<1>3. CASE ListNodes
  <2>1. CASE GiveUp
    BY <1>3, <2>1, GiveUpType DEF ListNodes, Unchanged, TypeOK
  <2>2. CASE ~GiveUp
    BY <1>3, <2>2, WorkType DEF ListNodes, Listed, Unchanged, TypeOK
  <2> QED
    BY <2>1, <2>2
<1>4. CASE Choose
  <2>1. CASE GiveUp
    BY <1>4, <2>1, GiveUpType DEF Choose, Unchanged, TypeOK
  <2>2. CASE ~GiveUp
    <3>1. PICK n \in eligible : Resolved(n.id)
      BY <1>4, <2>2 DEF Choose
    <3>2. n.id \in Ids
      BY DEF TypeOK
    <3> QED
      BY <1>4, <3>1, <3>2, ResolvedType DEF Choose
  <2> QED
    BY <2>1, <2>2
<1>5. CASE Act
  BY <1>5, GiveUpType, WorkType DEF Act, Unchanged, TypeOK
<1>6. CASE \E i \in todo : InspectDevice(i) \/ InspectNode(i)
  BY <1>6, InspectType
<1> QED
  BY <1>1, <1>2, <1>3, <1>4, <1>5, <1>6 DEF Resolution

LEMMA StepType == TypeOK /\ [Next]_vars => TypeOK'
<1> SUFFICES ASSUME TypeOK, [Next]_vars PROVE TypeOK'
  OBVIOUS
<1>1. CASE PipeWire
  BY <1>1, PipeWireType
<1>2. CASE Begin
  BY <1>2, WorkType DEF Begin, Unchanged, TypeOK
<1>3. CASE Resolution
  BY <1>3, ResolutionType
<1>4. CASE ProcessFails
  <2>1. failures' \in 0..MaxFailures
    BY <1>4, ResolverBoundAssumption DEF ProcessFails, TypeOK
  <2> QED
    BY <1>4, <2>1, GiveUpType DEF ProcessFails
<1>5. CASE UNCHANGED vars
  BY <1>5, WorkType DEF vars, workVars, TypeOK
<1> QED
  BY <1>1, <1>2, <1>3, <1>4, <1>5 DEF Next

(* The resolution's state is always of its type; a chosen object is one.    *)
THEOREM TypeCorrect == Spec => []TypeOK
  BY InitType, StepType, PTL DEF Spec
-----------------------------------------------------------------------------
(* What the resolution remembers of an ID stays true of the object that has *)
(* it, or there is none any more.                                           *)
IsDevice(i)  == graph[i].kind = "device" /\ graph[i].usb = target.usb
IsMatched(i) == graph[i].kind = target.kind /\ graph[i].device \in matches

Known == todo \cup matches \cup {e.id : e \in eligible}

KeptInv ==
  /\ Known \subseteq used /\ (step = "act" => chosen \in used)
  /\ step = "listNames" => target.name # None
  /\ step \in {"listDevices", "inspectDevices", "inspectNodes"} => target.name = None

TrueInv == recycled \/
  /\ \A d \in matches : graph[d] # None => IsDevice(d)
  /\ \A e \in eligible : graph[e.id] # None => IsMatched(e.id)
  /\ step = "inspectNodes" => \A i \in todo : graph[i] # None => graph[i].kind = target.kind
  /\ step = "act" /\ graph[chosen] # None => IsTarget(chosen)

OwnInv == KeptInv /\ TrueInv

(* An ID that has been in use keeps its object or loses it, until PipeWire  *)
(* gives an ID away again.                                                  *)
LEMMA Persists ==
  ASSUME TypeOK, PipeWire, ~recycled'
  PROVE  /\ ~recycled /\ used \subseteq used'
         /\ \A j \in used : graph'[j] = None \/ graph'[j] = graph[j]
<1>1. PICK i \in Ids : Vanishes(i) \/ \E o \in Objects : Appears(i, o)
  BY DEF PipeWire
<1>2. CASE Vanishes(i)
  BY <1>2 DEF Vanishes, GraphBecomes, TypeOK
<1>3. CASE \E o \in Objects : Appears(i, o)
  BY <1>3 DEF Appears, GraphBecomes, TypeOK
<1> QED
  BY <1>1, <1>2, <1>3

LEMMA PipeWireFrame ==
  ASSUME PipeWire
  PROVE  UNCHANGED <<failures, target, workVars>> /\ used \subseteq used' /\ calm' = FALSE
  BY DEF PipeWire, Vanishes, Appears, GraphBecomes

LEMMA PipeWireOwn == TypeOK /\ TypeOK' /\ OwnInv /\ PipeWire => OwnInv'
<1> SUFFICES ASSUME TypeOK, TypeOK', OwnInv, PipeWire PROVE OwnInv'
  OBVIOUS
<1>1. UNCHANGED <<target, step, todo, matches, eligible, chosen>> /\ used \subseteq used'
  BY PipeWireFrame DEF workVars
<1>2. KeptInv'
  BY <1>1 DEF OwnInv, KeptInv, Known
<1>3. ASSUME ~recycled' PROVE TrueInv'
  <2>1. ~recycled /\ \A j \in used : graph'[j] = None \/ graph'[j] = graph[j]
    BY <1>3, Persists
  <2>2. todo \subseteq used /\ matches \subseteq used /\ \A e \in eligible : e.id \in used
    BY DEF OwnInv, KeptInv, Known
  <2>3. \A d \in matches' : graph'[d] # None => IsDevice(d)'
    BY <1>1, <2>1, <2>2 DEF OwnInv, TrueInv, IsDevice
  <2>4. \A e \in eligible' : graph'[e.id] # None => IsMatched(e.id)'
    BY <1>1, <2>1, <2>2 DEF OwnInv, TrueInv, IsMatched
  <2>5. step' = "inspectNodes" =>
          \A i \in todo' : graph'[i] # None => graph'[i].kind = target'.kind
    BY <1>1, <2>1, <2>2 DEF OwnInv, TrueInv
  <2>6. ASSUME step = "act", graph'[chosen] # None PROVE IsTarget(chosen)'
    <3>1. chosen \in used /\ chosen \in Ids /\ graph'[chosen] = graph[chosen]
      BY <2>1, <2>6 DEF OwnInv, KeptInv, TypeOK
    <3>2. IsTarget(chosen) /\ graph[chosen].kind = target.kind
      BY <2>1, <2>6, <3>1 DEF OwnInv, TrueInv, IsTarget
    <3> DEFINE d == graph[chosen].device
    <3>3. d \in Ids /\ graph[d] # None
      BY <2>6, <3>1, <3>2, ListedIsNode
    <3>4. target \in Targets /\ graph[chosen] \in Objects
      BY <2>6, <3>1 DEF TypeOK
    <3>5. IsNode(graph'[chosen])
      BY <2>6, <3>1, <3>2, <3>4, Kinds DEF IsNode
    <3>6. graph'[d] # None
      BY <3>1, <3>5 DEF TypeOK, WellFormed
    <3>7. d \in used
      BY <3>3 DEF TypeOK
    <3>8. graph'[d] = graph[d]
      BY <2>1, <3>6, <3>7
    <3> QED
      BY <1>1, <3>1, <3>2, <3>8 DEF IsTarget
  <2> QED
    BY <1>1, <2>3, <2>4, <2>5, <2>6 DEF TrueInv
<1> QED
  BY <1>2, <1>3 DEF OwnInv, TrueInv

(* An operation that fails forgets what it knew. *)
LEMMA GiveUpOwn ==
  ASSUME GiveUp
  PROVE  OwnInv'
  BY DEF GiveUp, OwnInv, KeptInv, Known, TrueInv

LEMMA BeginOwn == Begin => OwnInv'
<1> SUFFICES ASSUME Begin PROVE OwnInv'
  OBVIOUS
<1>1. todo' = {} /\ matches' = {} /\ eligible' = {} /\ target' = target
      /\ step' = IF target.name = None THEN "listDevices" ELSE "listNames"
  BY DEF Begin, Unchanged
<1> QED
  BY <1>1 DEF OwnInv, KeptInv, Known, TrueInv

LEMMA ListNamesOwn == TypeOK /\ OwnInv /\ ListNames => OwnInv'
<1> SUFFICES ASSUME TypeOK, OwnInv, ListNames, ~GiveUp PROVE OwnInv'
  BY GiveUpOwn
<1>1. PICK i \in Listed(target.kind) : graph[i].name = target.name /\ Resolved(i)
  BY DEF ListNames
<1>2. i \in used /\ graph[i].kind = target.kind /\ target.name # None
  BY <1>1 DEF Listed, TypeOK, ListNames, OwnInv, KeptInv
<1>3. IsTarget(i)
  BY <1>1, <1>2 DEF IsTarget
<1>4. /\ step' = "act" /\ chosen' = i /\ todo' = {}
      /\ UNCHANGED <<graph, used, recycled, target, matches, eligible>>
  BY <1>1 DEF ListNames, Resolved, Unchanged, graphVars
<1>5. KeptInv'
  BY <1>2, <1>4 DEF OwnInv, KeptInv, Known
<1>6. TrueInv'
  BY <1>3, <1>4 DEF OwnInv, TrueInv, IsDevice, IsMatched, IsTarget
<1> QED
  BY <1>5, <1>6 DEF OwnInv

LEMMA ListOwn == TypeOK /\ OwnInv /\ (ListDevices \/ ListNodes) => OwnInv'
<1> SUFFICES ASSUME TypeOK, OwnInv, ListDevices \/ ListNodes, ~GiveUp PROVE OwnInv'
  BY GiveUpOwn
<1>1. UNCHANGED <<graph, used, recycled, target, matches, eligible>>
      /\ step \in {"listDevices", "inspectDevices"}
      /\ step' \in {"inspectDevices", "inspectNodes"}
  BY DEF ListDevices, ListNodes, Unchanged, graphVars
<1>2. todo' \subseteq used
  BY DEF ListDevices, ListNodes, Listed, TypeOK
<1>3. step' = "inspectNodes" => todo' = Listed(target.kind)
  BY DEF ListDevices, ListNodes
<1>4. KeptInv'
  BY <1>1, <1>2 DEF OwnInv, KeptInv, Known
<1>5. TrueInv'
  BY <1>1, <1>3 DEF OwnInv, TrueInv, IsDevice, IsMatched, Listed
<1> QED
  BY <1>4, <1>5 DEF OwnInv

LEMMA InspectDeviceOwn ==
  ASSUME TypeOK, OwnInv, NEW i \in todo, InspectDevice(i)
  PROVE  OwnInv'
<1>1. CASE GiveUp
  BY <1>1, GiveUpOwn
<1>2. CASE ~GiveUp
  <2>1. /\ UNCHANGED <<graph, used, recycled, target, eligible>>
        /\ step = "inspectDevices" /\ step' = step /\ todo' = todo \ {i}
    BY <1>2 DEF InspectDevice, Inspected, Unchanged, graphVars
  <2>2. matches' = matches \/ (matches' = matches \cup {i} /\ IsDevice(i))
    BY <1>2 DEF InspectDevice, IsDevice
  <2>3. i \in used /\ matches' \subseteq matches \cup {i} /\ matches \subseteq matches'
    BY <2>2 DEF OwnInv, KeptInv, Known
  <2>4. KeptInv'
    BY <2>1, <2>3 DEF OwnInv, KeptInv, Known
  <2>5. TrueInv'
    BY <2>1, <2>2, <2>3 DEF OwnInv, TrueInv, IsDevice, IsMatched
  <2> QED
    BY <2>4, <2>5 DEF OwnInv
<1> QED
  BY <1>1, <1>2

LEMMA InspectNodeOwn ==
  ASSUME TypeOK, OwnInv, NEW i \in todo, InspectNode(i)
  PROVE  OwnInv'
<1>1. CASE GiveUp
  BY <1>1, GiveUpOwn
<1>2. CASE ~GiveUp
  <2>1. /\ UNCHANGED <<graph, used, recycled, target, matches>>
        /\ step = "inspectNodes" /\ step' = step /\ todo' = todo \ {i} /\ graph[i] # None
    BY <1>2 DEF InspectNode, Inspected, Unchanged, graphVars
  <2>2. recycled \/ graph[i].kind = target.kind
    BY <2>1 DEF OwnInv, TrueInv
  <2>3. \A e \in eligible' : e \in eligible \/ (e.id = i /\ graph[i].device \in matches)
    BY <1>2 DEF InspectNode, IsEligible
  <2>4. i \in used /\ \A e \in eligible : e.id \in used
    BY DEF OwnInv, KeptInv, Known
  <2>5. KeptInv'
    BY <2>1, <2>3, <2>4 DEF OwnInv, KeptInv, Known
  <2>6. TrueInv'
    BY <2>1, <2>2, <2>3 DEF OwnInv, TrueInv, IsDevice, IsMatched
  <2> QED
    BY <2>5, <2>6 DEF OwnInv
<1> QED
  BY <1>1, <1>2

(* The chosen node was on the matched device, which was the adapter's.      *)
LEMMA ChooseOwn == TypeOK /\ OwnInv /\ Choose => OwnInv'
<1> SUFFICES ASSUME TypeOK, OwnInv, Choose, ~GiveUp PROVE OwnInv'
  BY GiveUpOwn
<1>1. PICK n \in eligible : Resolved(n.id)
  BY DEF Choose
<1>2. n.id \in Ids /\ n.id \in used /\ target.name = None
  BY <1>1 DEF OwnInv, KeptInv, Known, Choose, TypeOK
<1>3. /\ step' = "act" /\ chosen' = n.id /\ todo' = {}
      /\ UNCHANGED <<graph, used, recycled, target, matches, eligible>>
  BY <1>1 DEF Choose, Resolved, Unchanged, graphVars
<1>4. KeptInv'
  BY <1>2, <1>3 DEF OwnInv, KeptInv, Known
<1>5. ASSUME ~recycled, graph[n.id] # None PROVE IsTarget(n.id)
  <2>1. graph[n.id].kind = target.kind /\ graph[n.id].device \in matches
    BY <1>1, <1>5 DEF OwnInv, TrueInv, IsMatched
  <2>2. graph[graph[n.id].device] # None
    BY <1>2, <1>5, <2>1, ListedIsNode
  <2>3. IsDevice(graph[n.id].device)
    BY <1>5, <2>1, <2>2 DEF OwnInv, TrueInv
  <2> QED
    BY <1>2, <2>1, <2>3 DEF IsTarget, IsDevice
<1>6. TrueInv'
  BY <1>3, <1>5 DEF OwnInv, TrueInv, IsDevice, IsMatched, IsTarget
<1> QED
  BY <1>4, <1>6 DEF OwnInv

(* Steps that only forget, or change nothing of this. *)
LEMMA KeepOwn ==
  ASSUME OwnInv, UNCHANGED <<graph, used, recycled, target, todo, matches, eligible, chosen>>,
         step' \in {"succeeded", step}
  PROVE  OwnInv'
  BY DEF OwnInv, KeptInv, Known, TrueInv, IsDevice, IsMatched, IsTarget

LEMMA StepOwn == TypeOK /\ TypeOK' /\ OwnInv /\ [Next]_vars => OwnInv'
<1> SUFFICES ASSUME TypeOK, TypeOK', OwnInv, [Next]_vars PROVE OwnInv'
  OBVIOUS
<1>1. CASE PipeWire
  BY <1>1, PipeWireOwn
<1>2. CASE Begin
  BY <1>2, BeginOwn
<1>3. CASE ListNames \/ ListDevices \/ ListNodes \/ Choose
  BY <1>3, ListNamesOwn, ListOwn, ChooseOwn
<1>4. CASE \E i \in todo : InspectDevice(i) \/ InspectNode(i)
  BY <1>4, InspectDeviceOwn, InspectNodeOwn
<1>5. CASE Act
  BY <1>5, GiveUpOwn, KeepOwn DEF Act, Unchanged, graphVars
<1>6. CASE ProcessFails
  BY <1>6, GiveUpOwn DEF ProcessFails
<1>7. CASE UNCHANGED vars
  BY <1>7, KeepOwn DEF vars, graphVars, workVars
<1> QED
  BY <1>1, <1>2, <1>3, <1>4, <1>5, <1>6, <1>7 DEF Next, Resolution

LEMMA OwnInvariant == Spec => []OwnInv
<1>1. Init => OwnInv
  BY DEF Init, OwnInv, KeptInv, Known, TrueInv
<1> QED
  BY <1>1, StepOwn, TypeCorrect, PTL DEF Spec

(* No command ever reaches another adapter's node or another name, whatever *)
(* comes and goes between the processes, as long as no ID is given away     *)
(* again: for every graph, target and number of changes.                    *)
THEOREM ActsOnOwnObject == Spec => []OwnObject
<1>1. OwnInv => OwnObject
  BY DEF OwnInv, TrueInv, OwnObject
<1> QED
  BY <1>1, OwnInvariant, PTL
-----------------------------------------------------------------------------
(* In a quiet graph, what is known is what there is. *)
Info(i) == [id |-> i, name |-> graph[i].name, priority |-> graph[i].priority]

DevicesKnown ==
  /\ matches = {d \in Listed("device") \ todo : graph[d].usb = target.usb}
  /\ \A d \in matches : SerialFits(graph[d])

NodesKnown ==
  /\ matches = Own(target.usb) /\ \E d \in Ids : matches = {d}
  /\ \A d \in matches : SerialFits(graph[d])
  /\ eligible = {Info(i) : i \in {j \in Listed(target.kind) \ todo : graph[j].device \in matches}}

CalmInv == calm =>
  /\ step = "listDevices" => matches = {} /\ eligible = {}
  /\ step = "inspectDevices" => todo \subseteq Listed("device") /\ DevicesKnown /\ eligible = {}
  /\ step = "inspectNodes" => todo \subseteq Listed(target.kind) /\ NodesKnown
  /\ step = "act" => IsPreferred(chosen)

LEMMA UniqueIsSingleton ==
  ASSUME NEW S \in SUBSET Ids, IsUnique(S)
  PROVE  \E d \in Ids : S = {d}
<1>1. IsFiniteSet(S)
  BY ObjectAssumption, FS_Subset
<1> QED
  BY <1>1, FS_Singleton DEF IsUnique

(* Of two nodes of one device, the one that the other is not before in the  *)
(* order of the sort has the greater priority, or the same and the lesser   *)
(* name.                                                                    *)
LEMMA FirstIsPreferred ==
  ASSUME TypeOK, NEW i \in Listed(target.kind), NEW j \in Listed(target.kind), i # j,
         graph[i].device = graph[j].device, ~Before(Info(j), Info(i))
  PROVE  \/ Rank(i) = Rank(j) /\ graph[i].name < graph[j].name
         \/ Rank(i) # Rank(j) /\ Outranks(i, j)
<1> DEFINE p == graph[i].priority  q == graph[j].priority
<1>1. /\ IsNode(graph[i]) /\ graph[i].name \in Int /\ p \in Int \cup {None}
      /\ IsNode(graph[j]) /\ graph[j].name \in Int /\ q \in Int \cup {None}
  BY ListedIsNode DEF Listed
<1>2. graph[i].name # graph[j].name
  BY <1>1 DEF TypeOK, WellFormed, Listed
<1>3. /\ ~(q # None /\ p = None)
      /\ ~(None \notin {q, p} /\ q > p)
      /\ ~(q = p /\ graph[j].name < graph[i].name)
  BY DEF Before, Info
<1>4. None \notin Int
  BY ObjectAssumption
<1>5. CASE p = q
  BY <1>1, <1>2, <1>3, <1>5 DEF Rank
<1>6. CASE p # q
  <2>1. p # None /\ p \in Int
    BY <1>1, <1>3, <1>6
  <2>2. CASE q = None
    BY <2>1, <2>2 DEF Rank, Outranks
  <2>3. CASE q # None
    <3>1. q \in Int /\ p > q
      BY <1>1, <1>3, <1>4, <1>6, <2>1, <2>3
    <3> QED
      BY <2>1, <2>3, <3>1 DEF Rank, Outranks
  <2> QED
    BY <2>2, <2>3
<1> QED
  BY <1>5, <1>6
-----------------------------------------------------------------------------
LEMMA ListNamesPrefers == TypeOK /\ OwnInv /\ ListNames => CalmInv'
<1> SUFFICES ASSUME TypeOK, OwnInv, ListNames PROVE CalmInv'
  OBVIOUS
<1>1. CASE GiveUp
  BY <1>1 DEF GiveUp, CalmInv
<1>2. CASE ~GiveUp
  <2> DEFINE named == {i \in Listed(target.kind) : graph[i].name = target.name}
  <2>1. named \subseteq Ids /\ IsUnique(named) /\ \E i \in named : Resolved(i)
    BY <1>2 DEF ListNames, Listed
  <2>2. PICK i \in Ids : named = {i}
    BY <2>1, UniqueIsSingleton
  <2>3. Resolved(i)
    BY <2>1, <2>2
  <2>4. target.name # None
    BY DEF ListNames, OwnInv, KeptInv
  <2>5. IsPreferred(i)
    <3>1. i \in Listed(target.kind) /\ graph[i].name = target.name
      BY <2>2
    <3>2. \A j \in Listed(target.kind) \ {i} : ~IsTarget(j)
      BY <2>2, <2>4 DEF IsTarget
    <3> QED
      BY <2>4, <3>1, <3>2 DEF IsPreferred, IsTarget, Listed
  <2>6. step' = "act" /\ chosen' = i /\ UNCHANGED <<graph, target>>
    BY <2>3 DEF Resolved, ListNames, Unchanged, graphVars
  <2>7. IsPreferred(i)'
    BY <2>5, <2>6 DEF IsPreferred, IsTarget, Listed, Own, Rank, Outranks
  <2> QED
    BY <2>6, <2>7 DEF CalmInv
<1> QED
  BY <1>1, <1>2

LEMMA ListDevicesPrefers == CalmInv /\ ListDevices => CalmInv'
<1> SUFFICES ASSUME CalmInv, ListDevices PROVE CalmInv'
  OBVIOUS
<1>1. /\ step = "listDevices" /\ step' = "inspectDevices" /\ todo' = Listed("device")
      /\ UNCHANGED <<graph, target, matches, eligible, calm>>
  BY DEF ListDevices, Unchanged, graphVars
<1> QED
  BY <1>1 DEF CalmInv, DevicesKnown, Listed

LEMMA InspectDevicePrefers ==
  ASSUME CalmInv, NEW i \in todo, InspectDevice(i)
  PROVE  CalmInv'
<1>1. CASE GiveUp
  BY <1>1 DEF GiveUp, CalmInv
<1>2. CASE ~GiveUp
  <2>1. /\ step = "inspectDevices" /\ step' = step /\ todo' = todo \ {i}
        /\ UNCHANGED <<graph, target, eligible, calm>>
    BY <1>2 DEF InspectDevice, Inspected, Unchanged, graphVars
  <2> SUFFICES ASSUME calm
               PROVE  todo' \subseteq Listed("device") /\ DevicesKnown' /\ eligible = {}
    BY <2>1 DEF CalmInv, Listed
  <2>2. i \in Listed("device") /\ DevicesKnown /\ todo \subseteq Listed("device") /\ eligible = {}
    BY <2>1 DEF CalmInv
  <2>3. matches' = IF graph[i].usb = target.usb THEN matches \cup {i} ELSE matches
    BY <1>2, <2>2 DEF InspectDevice, Listed
  <2>4. graph[i].usb = target.usb => SerialFits(graph[i])
    BY <1>2, <2>2 DEF InspectDevice, Listed
  <2>5. matches' = {d \in Listed("device") \ todo' : graph[d].usb = target.usb}
    BY <2>1, <2>2, <2>3 DEF DevicesKnown
  <2>6. \A d \in matches' : SerialFits(graph[d])
    BY <2>2, <2>3, <2>4 DEF DevicesKnown
  <2> QED
    BY <2>1, <2>2, <2>5, <2>6 DEF DevicesKnown, Listed, SerialFits, SerialsMatch
<1> QED
  BY <1>1, <1>2

LEMMA ListNodesPrefers == TypeOK /\ CalmInv /\ ListNodes => CalmInv'
<1> SUFFICES ASSUME TypeOK, CalmInv, ListNodes PROVE CalmInv'
  OBVIOUS
<1>1. CASE GiveUp
  BY <1>1 DEF GiveUp, CalmInv
<1>2. CASE ~GiveUp
  <2>1. /\ step = "inspectDevices" /\ todo = {} /\ step' = "inspectNodes"
        /\ todo' = Listed(target.kind) /\ IsUnique(matches)
        /\ UNCHANGED <<graph, target, matches, eligible, calm>>
    BY <1>2 DEF ListNodes, Unchanged, graphVars
  <2> SUFFICES ASSUME calm
               PROVE  todo' \subseteq Listed(target.kind)' /\ NodesKnown'
    BY <2>1 DEF CalmInv
  <2>2. DevicesKnown /\ eligible = {}
    BY <2>1 DEF CalmInv
  <2>3. matches = Own(target.usb)
    BY <2>1, <2>2 DEF DevicesKnown, Own
  <2>4. \E d \in Ids : matches = {d}
    BY <2>1, UniqueIsSingleton DEF TypeOK
  <2>5. Listed(target.kind)' = todo' /\ Own(target.usb)' = Own(target.usb)
    BY <2>1 DEF Listed, Own
  <2>6. \A d \in matches' : SerialFits(graph[d])'
    BY <2>1, <2>2 DEF DevicesKnown, SerialFits, SerialsMatch
  <2>7. {j \in Listed(target.kind)' \ todo' : graph'[j].device \in matches'} = {}
    BY <2>5
  <2> QED
    BY <2>1, <2>2, <2>3, <2>4, <2>5, <2>6, <2>7 DEF NodesKnown
<1> QED
  BY <1>1, <1>2

LEMMA InspectNodePrefers ==
  ASSUME TypeOK, CalmInv, NEW i \in todo, InspectNode(i)
  PROVE  CalmInv'
<1>1. CASE GiveUp
  BY <1>1 DEF GiveUp, CalmInv
<1>2. CASE ~GiveUp
  <2>1. /\ step = "inspectNodes" /\ step' = step /\ todo' = todo \ {i}
        /\ UNCHANGED <<graph, target, matches, calm>>
    BY <1>2 DEF InspectNode, Inspected, Unchanged, graphVars
  <2> SUFFICES ASSUME calm
               PROVE  todo' \subseteq Listed(target.kind)' /\ NodesKnown'
    BY <2>1 DEF CalmInv
  <2>2. i \in Listed(target.kind) /\ NodesKnown /\ todo \subseteq Listed(target.kind)
    BY <2>1 DEF CalmInv
  <2>3. IsNode(graph[i])
    BY <2>2, ListedIsNode DEF Listed
  <2>4. eligible' = IF graph[i].device \in matches THEN eligible \cup {Info(i)} ELSE eligible
    BY <1>2, <2>3 DEF InspectNode, IsEligible, Info
  <2>5. eligible' = {Info(k) : k \in {j \in Listed(target.kind) \ todo' :
                                       graph[j].device \in matches}}
    BY <2>1, <2>2, <2>4 DEF NodesKnown
  <2>6. Listed(target.kind)' = Listed(target.kind) /\ Own(target.usb)' = Own(target.usb)
    BY <2>1 DEF Listed, Own
  <2>7. \A j \in Ids : Info(j)' = Info(j)
    BY <2>1 DEF Info
  <2>8. \A d \in matches' : SerialFits(graph[d])'
    BY <2>1, <2>2 DEF NodesKnown, SerialFits, SerialsMatch
  <2>9. matches' = Own(target.usb)' /\ \E d \in Ids : matches' = {d}
    BY <2>1, <2>2, <2>6 DEF NodesKnown
  <2>10. eligible' = {Info(k)' : k \in {j \in Listed(target.kind)' \ todo' :
                                        graph'[j].device \in matches'}}
    BY <2>1, <2>5, <2>6 DEF Info
  <2> QED
    BY <2>1, <2>2, <2>6, <2>8, <2>9, <2>10 DEF NodesKnown
<1> QED
  BY <1>1, <1>2

LEMMA ChoosePrefers == TypeOK /\ OwnInv /\ CalmInv /\ Choose => CalmInv'
<1> SUFFICES ASSUME TypeOK, OwnInv, CalmInv, Choose PROVE CalmInv'
  OBVIOUS
<1>1. CASE GiveUp
  BY <1>1 DEF GiveUp, CalmInv
<1>2. CASE ~GiveUp
  <2>1. PICK n \in eligible : Resolved(n.id) /\ \A m \in eligible : ~Before(m, n)
    BY <1>2 DEF Choose
  <2>2. /\ step = "inspectNodes" /\ todo = {} /\ step' = "act" /\ chosen' = n.id
        /\ UNCHANGED <<graph, target, calm>> /\ target.name = None
    BY <2>1 DEF Choose, Resolved, Unchanged, graphVars, OwnInv, KeptInv
  <2> SUFFICES ASSUME calm PROVE IsPreferred(n.id)'
    BY <2>2 DEF CalmInv
  <2>3. NodesKnown
    BY <2>2 DEF CalmInv
  <2>4. PICK i \in Listed(target.kind) : graph[i].device \in matches /\ n = Info(i)
    BY <2>2, <2>3 DEF NodesKnown
  <2>5. n.id = i
    BY <2>4 DEF Info
  <2>6. PICK d \in Ids : matches = {d}
    BY <2>3 DEF NodesKnown
  <2>7. Own(target.usb) = {d} /\ graph[i].device = d /\ SerialFits(graph[d])
    BY <2>3, <2>4, <2>6 DEF NodesKnown
  <2>8. IsTarget(i)
    BY <2>2, <2>4, <2>7 DEF IsTarget, Listed, Own
  <2>9. ASSUME NEW j \in Listed(target.kind) \ {i}, IsTarget(j)
        PROVE  \/ Rank(i) = Rank(j) /\ graph[i].name < graph[j].name
               \/ Rank(i) # Rank(j) /\ Outranks(i, j)
    <3>1. /\ graph[j].device \in Ids /\ graph[graph[j].device] # None
          /\ graph[graph[j].device].kind = "device"
      BY <2>9, ListedIsNode DEF Listed
    <3>2. graph[j].device \in Own(target.usb)
      BY <2>2, <2>9, <3>1 DEF IsTarget, Own, Listed
    <3>3. graph[j].device = d
      BY <2>7, <3>2
    <3>4. Info(j) \in eligible
      BY <2>2, <2>3, <2>6, <2>9, <3>3 DEF NodesKnown
    <3>5. ~Before(Info(j), Info(i))
      BY <2>1, <2>4, <3>4
    <3> QED
      BY <2>7, <2>9, <3>3, <3>5, FirstIsPreferred
  <2>10. \A e \in Own(target.usb) :
           /\ e = graph[i].device
           /\ graph[e].serial # None /\ target.serial # None => target.serial \in graph[e].serial
    BY <2>7 DEF SerialFits, SerialsMatch
  <2>11. IsPreferred(i)
    BY <2>2, <2>4, <2>8, <2>9, <2>10 DEF IsPreferred
  <2> QED
    BY <2>2, <2>5, <2>11 DEF IsPreferred, IsTarget, Listed, Own, Rank, Outranks
<1> QED
  BY <1>1, <1>2

LEMMA StepPrefers == TypeOK /\ OwnInv /\ CalmInv /\ [Next]_vars => CalmInv'
<1> SUFFICES ASSUME TypeOK, OwnInv, CalmInv, [Next]_vars PROVE CalmInv'
  OBVIOUS
<1>1. CASE PipeWire
  BY <1>1, PipeWireFrame DEF CalmInv
<1>2. CASE Begin
  BY <1>2 DEF Begin, Unchanged, CalmInv
<1>3. CASE ListNames \/ ListDevices \/ ListNodes \/ Choose
  BY <1>3, ListNamesPrefers, ListDevicesPrefers, ListNodesPrefers, ChoosePrefers
<1>4. CASE \E i \in todo : InspectDevice(i) \/ InspectNode(i)
  BY <1>4, InspectDevicePrefers, InspectNodePrefers
<1>5. CASE Act
  BY <1>5 DEF Act, GiveUp, CalmInv
<1>6. CASE ProcessFails
  BY <1>6 DEF ProcessFails, GiveUp, CalmInv
<1>7. CASE UNCHANGED vars
  BY <1>7
     DEF vars, graphVars, workVars, CalmInv, DevicesKnown, NodesKnown, Info,
         SerialFits, SerialsMatch, IsPreferred, IsTarget, Listed, Own, Rank, Outranks
<1> QED
  BY <1>1, <1>2, <1>3, <1>4, <1>5, <1>6, <1>7 DEF Next, Resolution

(* What is resolved while the graph is quiet is the preferred node of       *)
(* specs/architecture.md, however the objects are listed and sorted.        *)
THEOREM ResolvesPreferred == Spec => []Preferred
<1>1. Init => CalmInv
  BY DEF Init, CalmInv
<1>2. CalmInv => Preferred
  BY DEF CalmInv, Preferred
<1> QED
  BY <1>1, <1>2, StepPrefers, TypeCorrect, OwnInvariant, PTL DEF Spec
=============================================================================

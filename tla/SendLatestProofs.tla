-------------------------- MODULE SendLatestProofs --------------------------
(***************************************************************************)
(* Theorems about SendLatest, for every number of sends: the final send    *)
(* never waits, and sendLatest implements the latest-value slot.           *)
(***************************************************************************)
EXTENDS SendLatest, TLAPS

(* What the buffer may hold depends on the sender's step only: after the    *)
(* drain it is empty.  Its content is older than the value being sent.      *)
IInv ==
  /\ TypeOK
  /\ pc = "send" => buf = <<>>
  /\ pc # "idle" => sent > 0
  /\ buf # <<>> => buf = <<Head(buf)>>

LEMMA Inductive == Spec => []IInv
<1>1. Init => IInv
  BY DEF Init, IInv, TypeOK, Capacity
<1>2. IInv /\ [Next]_vars => IInv'
  <2> SUFFICES ASSUME IInv, [Next]_vars PROVE IInv'
    OBVIOUS
  <2> USE DEF IInv, TypeOK, Capacity
  <2>1. CASE Call
    BY <2>1, MaxSendsAssumption DEF Call
  <2>2. CASE Offer
    <3>1. CASE Len(buf) < Capacity
      <4>1. buf = <<>> /\ buf' = <<sent>> /\ pc' = "idle"
        BY <2>2, <3>1 DEF Offer
      <4> QED
        BY <2>2, <4>1 DEF Offer
    <3>2. CASE Len(buf) >= Capacity
      BY <2>2, <3>2 DEF Offer
    <3> QED
      BY <2>2, <3>1, <3>2 DEF Offer
  <2>3. CASE Drain
    BY <2>3 DEF Drain
  <2>4. CASE Send
    BY <2>4 DEF Send
  <2>5. CASE Receive
    BY <2>5 DEF Receive
  <2>6. CASE UNCHANGED vars
    BY <2>6 DEF vars
  <2> QED
    BY <2>1, <2>2, <2>3, <2>4, <2>5, <2>6 DEF Next
<1> QED
  BY <1>1, <1>2, PTL DEF Spec

(* The channel's buffer never holds more than its one value, whatever the   *)
(* sender and the receiver do in between.                                   *)
THEOREM TypeCorrect == Spec => []TypeOK
<1>1. IInv => TypeOK
  BY DEF IInv
<1> QED
  BY <1>1, Inductive, PTL

(* The send without a default branch always finds room.                     *)
THEOREM SendNeverBlocks == Spec => []NeverBlocks
<1>1. IInv => NeverBlocks
  BY DEF IInv, NeverBlocks, Capacity
<1> QED
  BY <1>1, Inductive, PTL
-----------------------------------------------------------------------------
(* The initial state, and every step, is one of the slot or a stutter.      *)
LEMMA SlotInit == Init => Slot!SlotInit
  BY DEF Init, Slot!SlotInit, Slot!Empty

LEMMA SlotStep == IInv /\ [Next]_vars => [Slot!SlotNext]_(Slot!slotVars)
<1> SUFFICES ASSUME IInv, [Next]_vars PROVE [Slot!SlotNext]_(Slot!slotVars)
  OBVIOUS
<1> USE DEF Slot!slotVars, Slot!Empty
<1>1. CASE Call
  BY <1>1 DEF Call, IInv, TypeOK
<1>2. CASE Offer
  BY <1>2 DEF Offer, IInv, TypeOK, Capacity, Slot!SlotNext, Slot!Put
<1>3. CASE Drain
  BY <1>3 DEF Drain, IInv, TypeOK, Capacity, Slot!SlotNext, Slot!Put
<1>4. CASE Send
  BY <1>4 DEF Send, IInv, TypeOK, Capacity
<1>5. CASE Receive
  BY <1>5 DEF Receive, IInv, TypeOK, Capacity, Slot!SlotNext, Slot!Get
<1>6. CASE UNCHANGED vars
  BY <1>6 DEF vars
<1> QED
  BY <1>1, <1>2, <1>3, <1>4, <1>5, <1>6 DEF Next

(* sendLatest and the receiver of its channel implement the latest-value    *)
(* slot: a value waiting is replaced in one step, none comes back.          *)
THEOREM ImplementsSlot == Spec => SlotSpec
  BY SlotInit, SlotStep, Inductive, PTL DEF Spec, SlotSpec, Slot!SlotSpec
=============================================================================

----------------------------- MODULE SendLatest -----------------------------
(***************************************************************************)
(* sendLatest of internal/daemon/daemon.go on a channel of capacity one,   *)
(* step by step, interleaved with the one receiver of that channel.  The   *)
(* daemon uses it twice: the discovery goroutine sends the selected        *)
(* adapter to the poller, and the polling goroutine sends the desired      *)
(* audio state to the audio controller.  Each channel has one sender and   *)
(* one receiver.  Values are numbered in the order they are sent.          *)
(***************************************************************************)
EXTENDS Naturals, Sequences

CONSTANT MaxSends      \* bound on the number of values sent

ASSUME MaxSendsAssumption == MaxSends \in Nat

Capacity == 1          \* selectionBufferSize, desiredBufferSize

VARIABLES
  sent,   \* number of the value in, or last passed to, sendLatest
  pc,     \* where the sender is: idle, or at one of the three channel steps
  buf,    \* the channel's buffer
  got     \* the value the receiver took last; 0 before the first

vars == <<sent, pc, buf, got>>

Init ==
  /\ sent = 0
  /\ pc = "idle"
  /\ buf = <<>>
  /\ got = 0

(* The sender calls sendLatest with its next value. *)
Call ==
  /\ pc = "idle"
  /\ sent < MaxSends
  /\ sent' = sent + 1
  /\ pc' = "offer"
  /\ UNCHANGED <<buf, got>>

(* Variants, each a mistake that one of the properties below must notice:   *)
(* sends into a full buffer; leaves the old value in; drops the new value.  *)
OfferAlways ==
  /\ pc = "offer"
  /\ buf' = Append(buf, sent)
  /\ pc' = "idle"
  /\ UNCHANGED <<sent, got>>

DrainNothing ==
  /\ pc = "drain"
  /\ pc' = "send"
  /\ UNCHANGED <<sent, buf, got>>

OfferOrDrop ==
  /\ pc = "offer"
  /\ buf' = IF Len(buf) < Capacity THEN Append(buf, sent) ELSE buf
  /\ pc' = "idle"
  /\ UNCHANGED <<sent, got>>

(* First select: send if there is room, else fall through. *)
Offer ==
  /\ pc = "offer"
  /\ \/ /\ Len(buf) < Capacity
        /\ buf' = Append(buf, sent)
        /\ pc' = "idle"
     \/ /\ Len(buf) >= Capacity
        /\ pc' = "drain"
        /\ UNCHANGED buf
  /\ UNCHANGED <<sent, got>>

(* Second select: take the old value out if it is still there. *)
Drain ==
  /\ pc = "drain"
  /\ buf' = IF buf = <<>> THEN buf ELSE Tail(buf)
  /\ pc' = "send"
  /\ UNCHANGED <<sent, got>>

(* The final send waits for room. *)
Send ==
  /\ pc = "send"
  /\ Len(buf) < Capacity
  /\ buf' = Append(buf, sent)
  /\ pc' = "idle"
  /\ UNCHANGED <<sent, got>>

(* The receiver's select takes the value. *)
Receive ==
  /\ buf # <<>>
  /\ got' = Head(buf)
  /\ buf' = Tail(buf)
  /\ UNCHANGED <<sent, pc>>

Next == Call \/ Offer \/ Drain \/ Send \/ Receive

Spec == Init /\ [][Next]_vars

(* A goroutine inside sendLatest keeps running, and the receiver keeps     *)
(* returning to its select; nothing obliges anyone to call sendLatest.     *)
Fairness == WF_vars(Offer) /\ WF_vars(Drain) /\ WF_vars(Send) /\ WF_vars(Receive)

FairSpec == Spec /\ Fairness
-----------------------------------------------------------------------------
TypeOK ==
  /\ sent \in Nat
  /\ pc \in {"idle", "offer", "drain", "send"}
  /\ buf \in Seq(Nat \ {0})
  /\ Len(buf) <= Capacity
  /\ got \in Nat

(* The final send of sendLatest, which has no default branch, always finds *)
(* room: the goroutine that reports hardware state (the poller or the udev *)
(* watcher) is never stalled by a receiver that is slow or gone.           *)
NeverBlocks == pc = "send" => Len(buf) < Capacity

(* The last value sent reaches the receiver: when the sender goes quiet,   *)
(* the receiver ends up with the newest value and not an older one.        *)
NewestDelivered == []<>(got = sent)

(* sendLatest is one atomic replacement of the waiting value.  It takes    *)
(* effect at the offer that succeeds, or at the drain.                     *)
Slot == INSTANCE LatestSlot WITH
  put  <- IF pc \in {"offer", "drain"} THEN sent - 1 ELSE sent,
  slot <- IF pc = "send" THEN sent ELSE IF buf = <<>> THEN 0 ELSE Head(buf),
  got  <- got

SlotSpec == Slot!SlotSpec
=============================================================================

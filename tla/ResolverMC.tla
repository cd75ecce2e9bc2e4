----------------------------- MODULE ResolverMC -----------------------------
(* Two adapters, the first with one sink, and what may come beside it. *)
EXTENDS Resolver

(* What a serial without and one with a vendor's prefix match. *)
Plain    == {"s1"}
Prefixed == {"s1", "Vendor_s1"}

Device(u, s) == [kind |-> "device", usb |-> u, serial |-> s]

Node(k, d, n, p) == [kind |-> k, device |-> d, name |-> n, priority |-> p]

SomeDevices == {Device(u, s) : u \in {"usb1", "usb2"}, s \in {None, Prefixed}}
               \cup {Device("usb1", Plain)}

SomeNodes == [kind : {"sink"}, device : {1, 2}, name : {1, 2}, priority : {None, 1, 2}]
             \cup {Node("source", 1, 3, None)}

SomeTargets ==
  {[kind |-> "sink", name |-> None, usb |-> "usb1", serial |-> "s2"],
   [kind |-> "sink", name |-> None, usb |-> "usb1", serial |-> "s1"],
   [kind |-> "sink", name |-> 1, usb |-> "usb1", serial |-> None]}

OneSink == [i \in Ids |-> CASE i = 1 -> Device("usb1", None)
                            [] i = 3 -> Node("sink", 1, 1, 1)
                            [] OTHER -> None]

TwoAdapters == [i \in Ids |-> CASE i = 1 -> Device("usb1", Plain)
                                [] i = 2 -> Device("usb2", None)
                                [] i = 3 -> Node("sink", 2, 1, 2)
                                [] OTHER -> None]

SomeGraphs == {OneSink, TwoAdapters}
=============================================================================

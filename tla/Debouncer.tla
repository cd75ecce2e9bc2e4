------------------------------ MODULE Debouncer ------------------------------
(***************************************************************************)
(* The debouncer of internal/state/debouncer.go.  A debouncer is a record: *)
(* the adapter is present, the headset is connected, a connection has been *)
(* established, and the number of samples that failed in a row.  Each      *)
(* operation has an operator for the new debouncer and, where it may have  *)
(* news for the observer, one that tells whether it has.                   *)
(***************************************************************************)
EXTENDS Naturals

CONSTANT Threshold     \* disconnectFailures

New == [present |-> FALSE, connected |-> FALSE, established |-> FALSE, failures |-> 0]

AdapterAdded(d) == [d EXCEPT !.present = TRUE, !.failures = 0]

AdapterAbsent(d) ==
  [present |-> FALSE, connected |-> FALSE, established |-> TRUE, failures |-> 0]

AbsentIsNews(d) == ~d.established \/ d.present \/ d.connected

(* The number of failures matters up to the threshold only, and is counted  *)
(* so far only.                                                             *)
Sample(d, connected) ==
  IF ~d.present THEN d
  ELSE IF connected
  THEN [d EXCEPT !.failures = 0, !.established = TRUE, !.connected = TRUE]
  ELSE IF d.failures + 1 < Threshold THEN [d EXCEPT !.failures = @ + 1]
  ELSE [d EXCEPT !.failures = Threshold, !.established = TRUE, !.connected = FALSE]

(* Variant: what the headset is at the start is no news. *)
SampleChanges(d, connected) ==
  /\ d.present
  /\ connected \/ d.failures + 1 >= Threshold
  /\ d.connected # connected

SampleIsNews(d, connected) ==
  /\ d.present
  /\ connected \/ d.failures + 1 >= Threshold
  /\ ~d.established \/ d.connected # connected
=============================================================================

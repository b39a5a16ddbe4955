--------------------------- MODULE OrderedDelivery ---------------------------
(***************************************************************************)
(* What the event stream promises a subscriber's handler, with no          *)
(* connection, batch or wake-up in sight: it is given committed events one *)
(* at a time, each of a greater number than the one before, and none that  *)
(* was committed in its turn is left out.  EventStream is shown to         *)
(* implement it, through every failure it has.                             *)
(*                                                                         *)
(* It does not promise the events that commit late, behind one of a        *)
(* greater number: the position may have gone by.                          *)
(***************************************************************************)
EXTENDS Integers, Sequences

CONSTANTS Number, Given

VARIABLES
  stream,    \* the committed events
  late,      \* those committed after one of a greater number
  opened,    \* where the subscriber began
  delivered  \* what its handler has been given, in order

vars == <<stream, late, opened, delivered>>

Init == stream = {} /\ late = {} /\ opened = Given /\ delivered = <<>>

Reached == IF delivered = <<>> THEN opened ELSE delivered[Len(delivered)]

(* Some events, none of them seen before, become visible at once.          *)
Publish ==
  /\ \E new \in SUBSET (Number \ stream) :
       /\ stream' = stream \cup new
       /\ late' = late \cup {n \in new : \E m \in stream : n < m}
  /\ UNCHANGED <<opened, delivered>>

(* A subscriber begins where it was told to, or at the end of the stream.  *)
Open ==
  /\ opened' = Given \/ (opened' \in stream /\ \A m \in stream : m <= opened')
  /\ delivered' = <<>>
  /\ UNCHANGED <<stream, late>>

(* The next event is handled: nothing that came in its turn lies between.  *)
Deliver(n) ==
  /\ Reached < n
  /\ \A m \in stream \ late : m <= Reached \/ n <= m
  /\ delivered' = Append(delivered, n)
  /\ UNCHANGED <<stream, late, opened>>

Next == Publish \/ Open \/ \E n \in stream : Deliver(n)

Spec == Init /\ [][Next]_vars
=============================================================================

---------------------------- MODULE EventStream ----------------------------
(***************************************************************************)
(* The durable event stream and its asynchronous subscriber: writers that  *)
(* append to os_events inside their transactions (storage/repositories/    *)
(* event_repo.py, core/runner.py), pg_notify as the wake-up (events/bus.py) *)
(* and EventSubscriber (events/listener.py), which reads forward from its  *)
(* position.                                                               *)
(*                                                                         *)
(* An event IS its sequence number.  PostgreSQL allocates it when the row  *)
(* is inserted and makes the row visible when its transaction commits, and *)
(* two transactions may do these in opposite orders.                       *)
(*                                                                         *)
(* The subscriber is one coroutine: an action of it runs between two       *)
(* awaits.  The notification callback runs whenever it is suspended.       *)
(***************************************************************************)
EXTENDS Integers, Sequences, FiniteSets

CONSTANTS
  Writer,       \* concurrent transactions that append events
  BatchSize,    \* how many events one drain pass reads
  None,         \* a position not yet established
  StartFrom,    \* the start_from argument
  Faults,       \* which faults happen: see Fault
  MaxSequence   \* bound on allocated sequence numbers

(* "link": the pump's drain raises PostgresError or OSError; "fatal": it    *)
(* raises anything else, as a handler or the storage layer may, or start   *)
(* or a reconnect raises at all; "drop": the LISTEN connection is lost     *)
(* while the subscriber waits on it; "stop": its owner stops it;           *)
(* "restart": the process ends and another one begins.                     *)
Fault == {"link", "fatal", "drop", "stop", "restart"}

ASSUME EventStreamAssumption ==
  /\ BatchSize \in Nat \ {0}
  /\ None \notin Nat
  /\ StartFrom \in Nat \cup {None}
  /\ Faults \subseteq Fault
  /\ MaxSequence \in Nat

VARIABLES
  allocated,    \* the last sequence number the IDENTITY column gave out
  staged,       \* the events each open transaction has inserted
  stream,       \* the committed events
  late,         \* history: those committed after one of a greater number
  listening,    \* the server holds a LISTEN for this subscriber
  notified,     \* a notification is on its way to it
  wakeup,       \* its asyncio.Event
  phase,        \* where the coroutine is suspended
  during,       \* whose drain is running: start, the pump's, or a reconnect's
  position,     \* the last sequence number processed
  batch,        \* the events read and not yet handled
  full,         \* the batch read was as long as the limit
  handled,      \* history: the events the handler has completed, in order
  opened        \* history: the position this subscriber began at

writers    == <<allocated, staged, stream, late>>
subscriber == <<phase, during, position, batch, full, handled, opened>>
vars       == <<writers, listening, notified, wakeup, subscriber>>

At == IF position = None THEN 0 ELSE position

GivenStart == IF StartFrom = None THEN 0 ELSE StartFrom

Init ==
  /\ allocated = 0 /\ staged = [w \in Writer |-> {}] /\ stream = {} /\ late = {}
  /\ listening = FALSE /\ notified = FALSE /\ wakeup = FALSE
  /\ phase = "stopped" /\ during = "start"
  /\ position = StartFrom
  /\ batch = {} /\ full = FALSE
  /\ handled = <<>> /\ opened = GivenStart

----------------------------------------------------------------------------
(* The Kernel's runner appends an event and flushes: the number is given.  *)
AppendEvent(w) ==
  /\ allocated < MaxSequence
  /\ allocated' = allocated + 1
  /\ staged' = [staged EXCEPT ![w] = @ \cup {allocated + 1}]
  /\ UNCHANGED <<stream, late, listening, notified, wakeup, subscriber>>

(* COMMIT makes its events visible and its queued notifications delivered. *)
CommitEvents(w) ==
  /\ staged[w] # {}
  /\ stream' = stream \cup staged[w]
  /\ late' = late \cup {n \in staged[w] : \E m \in stream : n < m}
  /\ staged' = [staged EXCEPT ![w] = {}]
  /\ notified' = (notified \/ listening)
  /\ UNCHANGED <<allocated, listening, wakeup, subscriber>>

(* A rollback leaves a hole in the numbering and notifies nobody.          *)
RollbackEvents(w) ==
  /\ staged[w] # {}
  /\ staged' = [staged EXCEPT ![w] = {}]
  /\ UNCHANGED <<allocated, stream, late, listening, notified, wakeup, subscriber>>

(* _on_notification ignores the payload: however many, one wake-up.        *)
OnNotification ==
  /\ notified
  /\ notified' = FALSE
  /\ wakeup' = TRUE
  /\ UNCHANGED <<writers, listening, subscriber>>

----------------------------------------------------------------------------
(* start: LISTEN first, ...                                                *)
Subscribe ==
  /\ phase = "stopped"
  /\ listening' = TRUE
  /\ phase' = "subscribed" /\ during' = "start"
  /\ UNCHANGED <<writers, notified, wakeup, position, batch, full, handled, opened>>

(* latest_sequence_number: the greatest committed one, 0 if there is none. *)
IsLatest(n) == \A m \in stream : m <= n

AsGiven(latest) == position                      \* wrong: never established

(* The position that was given, or remembered from before a stop, stands.  *)
Opening(latest) == IF position = None THEN latest ELSE position

(* ... then the position, and then a drain.                                *)
EstablishPosition ==
  /\ phase = "subscribed"
  /\ phase' = "reading"
  /\ \E n \in stream \cup {0} : IsLatest(n) /\ position' = Opening(n)
  /\ opened' = IF handled = <<>> THEN position' ELSE opened
  /\ UNCHANGED <<writers, listening, notified, wakeup, during, batch, full, handled>>

Unread == {n \in stream : n > At}

NewestFirst(read) ==                             \* wrong: descending
  /\ \A n \in read, m \in Unread \ read : m < n
  /\ Cardinality(read) <= BatchSize
  /\ Cardinality(read) < BatchSize => read = Unread

(* list_since: the oldest committed events after the position, as many as  *)
(* there are up to the limit.                                              *)
ListSince(read) ==
  /\ \A n \in read, m \in Unread \ read : n < m
  /\ Cardinality(read) <= BatchSize
  /\ Cardinality(read) < BatchSize => read = Unread

NeverFull(read) == FALSE                         \* wrong: one pass per wake-up

(* A batch as long as the limit may have left events behind.               *)
IsFull(read) == ~(Cardinality(read) < BatchSize)

(* One pass of drain reads a batch; an empty one ends the drain.           *)
ReadBatch ==
  /\ phase = "reading"
  /\ \E read \in SUBSET Unread :
       /\ ListSince(read)
       /\ batch' = read
       /\ full' = IsFull(read)
       /\ phase' = IF read = {} THEN "waiting" ELSE "handling"
  /\ UNCHANGED <<writers, listening, notified, wakeup, during, position, handled, opened>>

PositionAfterBatch(event) ==                     \* wrong: only after the last of them
  IF batch = {event} THEN event ELSE position

(* The position advances after each handled event, not after the batch.    *)
AdvancedPosition(event) == event

(* The batch is handled in the order it was read: by sequence number.      *)
HandleEvent ==
  /\ phase = "handling"
  /\ \E event \in batch :
       /\ \A other \in batch : event <= other
       /\ handled' = Append(handled, event)
       /\ position' = AdvancedPosition(event)
       /\ batch' = batch \ {event}
  /\ phase' = IF batch' # {} THEN "handling" ELSE IF full THEN "reading" ELSE "waiting"
  /\ UNCHANGED <<writers, listening, notified, wakeup, during, full, opened>>

(* run_forever: wait for the wake-up, clear it, and only then drain.       *)
WakeUp ==
  /\ phase = "waiting"
  /\ wakeup
  /\ wakeup' = FALSE
  /\ phase' = "reading" /\ during' = "pump"
  /\ UNCHANGED <<writers, listening, notified, position, batch, full, handled, opened>>

----------------------------------------------------------------------------
(* The pump's drain raises before the event at hand is done: the position  *)
(* stays, and run_forever goes on to reconnect.                            *)
LinkFails ==
  /\ "link" \in Faults
  /\ phase \in {"reading", "handling"} /\ during = "pump"
  /\ phase' = "reconnecting"
  /\ batch' = {}
  /\ UNCHANGED <<writers, listening, notified, wakeup, during, position, full, handled, opened>>

(* What nothing catches: start raises to its caller, and the pump ends on  *)
(* an exception of another kind or on one raised inside its except clause. *)
DrainFails ==
  /\ "fatal" \in Faults
  /\ phase \in {"subscribed", "reading", "handling", "reconnecting"}
  /\ phase' = IF during = "start" THEN "stopped" ELSE "dead"
  /\ batch' = {}
  /\ UNCHANGED <<writers, listening, notified, wakeup, during, position, full, handled, opened>>

ReconnectWithoutDrain ==                         \* wrong: waits for the next wake-up
  /\ phase = "reconnecting"
  /\ listening' = TRUE
  /\ notified' = FALSE
  /\ phase' = "waiting" /\ during' = "reconnect"
  /\ UNCHANGED <<writers, wakeup, position, batch, full, handled, opened>>

(* _reconnect: a new connection, a new LISTEN, and a drain of its own.     *)
Reconnect ==
  /\ phase = "reconnecting"
  /\ listening' = TRUE
  /\ notified' = FALSE
  /\ phase' = "reading" /\ during' = "reconnect"
  /\ UNCHANGED <<writers, wakeup, position, batch, full, handled, opened>>

(* The connection goes and nothing tells the coroutine.                    *)
ConnectionDrops ==
  /\ "drop" \in Faults
  /\ listening
  /\ listening' = FALSE
  /\ notified' = FALSE
  /\ UNCHANGED <<writers, wakeup, subscriber>>

(* stop cancels the pump wherever it is.  A later start resumes from the   *)
(* position, and a wake-up already set stays set.                          *)
Stop ==
  /\ "stop" \in Faults
  /\ phase = "waiting" \/ (during # "start" /\ phase \notin {"stopped", "dead"})
  /\ phase' = "stopped"
  /\ listening' = FALSE /\ notified' = FALSE
  /\ batch' = {}
  /\ UNCHANGED <<writers, wakeup, during, position, full, handled, opened>>

(* A new process has a new subscriber: nothing in memory survives.         *)
Restart ==
  /\ "restart" \in Faults
  /\ phase # "stopped"
  /\ phase' = "stopped" /\ during' = "start"
  /\ listening' = FALSE /\ notified' = FALSE /\ wakeup' = FALSE
  /\ position' = StartFrom
  /\ batch' = {} /\ full' = FALSE
  /\ handled' = <<>> /\ opened' = GivenStart
  /\ UNCHANGED writers

Next ==
  \/ \E w \in Writer : AppendEvent(w) \/ CommitEvents(w) \/ RollbackEvents(w)
  \/ OnNotification
  \/ Subscribe \/ EstablishPosition \/ ReadBatch \/ HandleEvent \/ WakeUp
  \/ LinkFails \/ DrainFails \/ Reconnect \/ ConnectionDrops \/ Stop \/ Restart

Spec == Init /\ [][Next]_vars

(* The event loop runs whatever it can run; nothing obliges a writer to    *)
(* commit, a fault to happen or a subscriber that is stopped to be started. *)
SubscriberStep ==
  EstablishPosition \/ ReadBatch \/ HandleEvent \/ WakeUp \/ Reconnect

FairSpec == Spec /\ WF_vars(SubscriberStep) /\ WF_vars(OnNotification)

----------------------------------------------------------------------------
Sequence == 1..MaxSequence

TypeOK ==
  /\ allocated \in 0..MaxSequence
  /\ staged \in [Writer -> SUBSET Sequence]
  /\ stream \subseteq Sequence /\ late \subseteq Sequence
  /\ listening \in BOOLEAN /\ notified \in BOOLEAN /\ wakeup \in BOOLEAN
  /\ phase \in {"stopped", "subscribed", "reading", "handling", "waiting",
                "reconnecting", "dead"}
  /\ during \in {"start", "pump", "reconnect"}
  /\ position \in Nat \cup {None}
  /\ phase \in {"reading", "handling", "waiting", "reconnecting"} => position \in Nat
  /\ batch \subseteq Sequence /\ handled \in Seq(Sequence)
  /\ full \in BOOLEAN
  /\ opened \in Nat

(* The hazard of a wake-up that is only a hint: a subscriber that waits    *)
(* with its LISTEN in place has read everything committed, or is about to  *)
(* be woken.  LISTEN before the first drain, the wake-up cleared before    *)
(* the drain and the drain after each reconnect are what it takes          *)
(* (listener.py, start, run_forever and _reconnect).                       *)
NoWakeupIsLost ==
  phase = "waiting" /\ listening => notified \/ wakeup \/ Unread = {}

(* Whatever fails and wherever a drain is interrupted, the handler         *)
(* completes events in increasing sequence order and no event twice.       *)
HandledInOrder ==
  /\ \A i \in 1..Len(handled) : opened < handled[i] /\ handled[i] <= At
  /\ \A i, j \in 1..Len(handled) : i < j => handled[i] < handled[j]

(* Whatever fails, the position passes over a committed event unhandled    *)
(* only if the event became visible after one of a greater number: a drain *)
(* cut short, a batch shorter than the backlog, a stop and a later start   *)
(* skip nothing that was there to be read in order (drain, list_since).    *)
OnlyLateEventsAreSkipped ==
  \A n \in stream \ late :
    opened < n /\ n <= At => \E i \in 1..Len(handled) : handled[i] = n

(* Every committed event is passed by the position sooner or later, however *)
(* many notifications were folded into one, unless the subscription ended: *)
(* stopped, dead, or dropped, which the coroutine is not told (run_forever *)
(* waits on its wake-up alone).                                            *)
EveryEventIsReached ==
  \A n \in Sequence :
    n \in stream ~> n <= At \/ phase \in {"stopped", "dead"} \/ ~listening

----------------------------------------------------------------------------
(* The stream and the handler alone, as OrderedDelivery sees them.         *)
Ordered == INSTANCE OrderedDelivery WITH
  Number <- Sequence, Given <- GivenStart, delivered <- handled

(* Batches, wake-ups, failures, reconnects and stops do not show: the      *)
(* handler is given the committed events in order, each once, and every    *)
(* one that was committed in its turn.                                     *)
ImplementsOrderedDelivery == Ordered!Spec

----------------------------------------------------------------------------
(* What the documentation says and the code does not do: the subject of a  *)
(* run that expects a violation.                                           *)

(* listener.py: "no event is lost".  A writer that commits a number after  *)
(* a concurrent writer has committed a greater one loses it.               *)
NothingIsSkipped ==
  \A n \in stream : opened < n /\ n <= At => \E i \in 1..Len(handled) : handled[i] = n
=============================================================================

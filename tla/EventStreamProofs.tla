------------------------- MODULE EventStreamProofs -------------------------
(***************************************************************************)
(* Of EventStream, for any writers, batch size, faults and stream length:  *)
(* types, that no wake-up is lost, that events are handled in order, that  *)
(* only an event committed late can be passed over; and that all this      *)
(* implements OrderedDelivery: every step of writers and subscriber is a   *)
(* publication, a beginning, the delivery of the next event, or nothing.   *)
(***************************************************************************)
EXTENDS EventStream, FiniteSetTheorems, TLAPS

LEMMA InitTypes == Init => TypeOK
<1> SUFFICES ASSUME Init PROVE TypeOK
  OBVIOUS
<1> USE EventStreamAssumption DEF Init, GivenStart
<1>1. allocated \in 0..MaxSequence
  OBVIOUS
<1>2. staged \in [Writer -> SUBSET Sequence] /\ stream \subseteq Sequence
  OBVIOUS
<1>3. batch \subseteq Sequence /\ handled \in Seq(Sequence)
  OBVIOUS
<1>4. position \in Nat \cup {None} /\ opened \in Nat
  OBVIOUS
<1>5. QED
  BY <1>1, <1>2, <1>3, <1>4 DEF TypeOK

(* One step per action; the sequences and the positions in it are numbers. *)
LEMMA NextTypes == TypeOK /\ [Next]_vars => TypeOK'
<1> SUFFICES ASSUME TypeOK, [Next]_vars PROVE TypeOK'
  OBVIOUS
<1> USE EventStreamAssumption DEF TypeOK, Sequence, writers, subscriber
<1>1. ASSUME NEW w \in Writer, AppendEvent(w) PROVE TypeOK'
  BY <1>1 DEF AppendEvent
<1>2. ASSUME NEW w \in Writer, CommitEvents(w) PROVE TypeOK'
  BY <1>2 DEF CommitEvents
<1>3. ASSUME NEW w \in Writer, RollbackEvents(w) PROVE TypeOK'
  BY <1>3 DEF RollbackEvents
<1>4. CASE OnNotification
  BY <1>4 DEF OnNotification
<1>5. CASE Subscribe
  BY <1>5 DEF Subscribe
<1>6. CASE EstablishPosition
  BY <1>6 DEF EstablishPosition, Opening
<1>7. CASE ReadBatch
  BY <1>7 DEF ReadBatch, Unread, IsFull
<1>8. CASE HandleEvent
  BY <1>8 DEF HandleEvent, AdvancedPosition
<1>9. CASE WakeUp
  BY <1>9 DEF WakeUp
<1>10. CASE LinkFails
  BY <1>10 DEF LinkFails
<1>11. CASE DrainFails
  BY <1>11 DEF DrainFails
<1>12. CASE Reconnect
  BY <1>12 DEF Reconnect
<1>13. CASE ConnectionDrops
  BY <1>13 DEF ConnectionDrops
<1>14. CASE Stop
  BY <1>14 DEF Stop
<1>15. CASE Restart
  <2>1. handled' \in Seq(1..MaxSequence) /\ position' \in Nat \cup {None}
    BY <1>15 DEF Restart
  <2>2. opened' \in Nat
    BY <1>15 DEF Restart, GivenStart
  <2>3. QED
    BY <1>15, <2>1, <2>2 DEF Restart
<1>16. CASE UNCHANGED vars
  BY <1>16 DEF vars
<1>17. QED
  BY <1>1, <1>2, <1>3, <1>4, <1>5, <1>6, <1>7, <1>8, <1>9, <1>10, <1>11, <1>12,
     <1>13, <1>14, <1>15, <1>16 DEF Next

(* The state of the stream and of its subscriber is well formed.           *)
THEOREM EventStreamTypes == Spec => []TypeOK
BY InitTypes, NextTypes, PTL DEF Spec

----------------------------------------------------------------------------
(* A wake-up may be cleared only by a drain that then reads everything: in *)
(* the last pass of a drain, what is not read yet has notified.            *)
LastPassReadsAll ==
  /\ phase = "handling" => batch \subseteq Unread
  /\ phase = "handling" /\ ~full /\ listening =>
       notified \/ wakeup \/ Unread \subseteq batch

WakeupInv == NoWakeupIsLost /\ LastPassReadsAll

LEMMA NextWakeup == TypeOK /\ WakeupInv /\ [Next]_vars => WakeupInv'
<1> SUFFICES ASSUME TypeOK, WakeupInv, [Next]_vars PROVE WakeupInv'
  OBVIOUS
<1> USE EventStreamAssumption
    DEF WakeupInv, NoWakeupIsLost, LastPassReadsAll, Unread, At, writers, subscriber
<1>0. stream \subseteq Nat /\ batch \subseteq Nat /\ full \in BOOLEAN
      /\ listening \in BOOLEAN /\ notified \in BOOLEAN /\ wakeup \in BOOLEAN
      /\ position \in Nat \cup {None}
      /\ (phase \in {"reading", "handling", "waiting", "reconnecting"} => position \in Nat)
  BY DEF TypeOK, Sequence
<1>1. ASSUME NEW w \in Writer, AppendEvent(w) PROVE WakeupInv'
  BY <1>1 DEF AppendEvent
<1>2. ASSUME NEW w \in Writer, CommitEvents(w) PROVE WakeupInv'
  BY <1>0, <1>2 DEF CommitEvents
<1>3. ASSUME NEW w \in Writer, RollbackEvents(w) PROVE WakeupInv'
  BY <1>3 DEF RollbackEvents
<1>4. CASE OnNotification
  BY <1>4 DEF OnNotification
<1>5. CASE Subscribe
  BY <1>5 DEF Subscribe
<1>6. CASE EstablishPosition
  BY <1>6 DEF EstablishPosition
<1>7. CASE ReadBatch
  <2>1. PICK read \in SUBSET Unread :
          /\ ListSince(read)
          /\ batch' = read
          /\ full' = IsFull(read)
          /\ phase' = IF read = {} THEN "waiting" ELSE "handling"
    BY <1>7 DEF ReadBatch
  <2>2. Unread' = Unread
    BY <1>7 DEF ReadBatch
  <2>3. ~IsFull(read) => read = Unread
    BY <2>1 DEF ListSince, IsFull
  <2>4. IsFull(read) => read # {}
    <3>1. Cardinality({}) = 0
      BY FS_EmptySet
    <3>2. QED
      BY <3>1 DEF IsFull
  <2>5. QED
    BY <2>1, <2>2, <2>3, <2>4
<1>8. CASE HandleEvent
  <2>1. PICK event \in batch :
          /\ \A other \in batch : event <= other
          /\ position' = event
          /\ batch' = batch \ {event}
    BY <1>8 DEF HandleEvent, AdvancedPosition
  <2>2. /\ phase' = IF batch' # {} THEN "handling" ELSE IF full THEN "reading" ELSE "waiting"
        /\ stream' = stream /\ full' = full /\ phase = "handling"
        /\ listening' = listening /\ notified' = notified /\ wakeup' = wakeup
    BY <1>8 DEF HandleEvent
  <2>3. event \in Nat /\ position \in Nat /\ position < event
    BY <1>0, <2>1, <2>2
  <2>4. Unread' = {n \in stream : n > event}
    BY <1>0, <2>1, <2>2, <2>3
  <2>5. batch' \subseteq Unread'
    BY <1>0, <2>1, <2>2, <2>4
  <2>6. ASSUME Unread \subseteq batch, NEW n \in Unread' PROVE n \in batch'
    <3>1. n \in stream /\ n \in Nat /\ n > event
      BY <1>0, <2>4
    <3>2. n \in Unread
      BY <2>3, <3>1
    <3>3. QED
      BY <2>1, <2>3, <2>6, <3>1, <3>2
  <2>7. QED
    BY <1>0, <2>2, <2>5, <2>6
<1>9. CASE WakeUp
  BY <1>9 DEF WakeUp
<1>10. CASE LinkFails
  BY <1>10 DEF LinkFails
<1>11. CASE DrainFails
  BY <1>11 DEF DrainFails
<1>12. CASE Reconnect
  BY <1>12 DEF Reconnect
<1>13. CASE ConnectionDrops
  BY <1>13 DEF ConnectionDrops
<1>14. CASE Stop
  BY <1>14 DEF Stop
<1>15. CASE Restart
  BY <1>15 DEF Restart
<1>16. CASE UNCHANGED vars
  BY <1>16 DEF vars
<1>17. QED
  BY <1>1, <1>2, <1>3, <1>4, <1>5, <1>6, <1>7, <1>8, <1>9, <1>10, <1>11, <1>12,
     <1>13, <1>14, <1>15, <1>16 DEF Next

(* A subscriber that waits under its LISTEN is caught up or about to be    *)
(* woken (listener.py, start, run_forever and _reconnect), whatever number *)
(* of writers, batch size and faults.                                      *)
THEOREM NoWakeupIsEverLost == Spec => []NoWakeupIsLost
<1>1. Init => WakeupInv
  BY DEF Init, WakeupInv, NoWakeupIsLost, LastPassReadsAll
<1>2. WakeupInv => NoWakeupIsLost
  BY DEF WakeupInv
<1>3. QED
  BY <1>1, <1>2, NextWakeup, EventStreamTypes, PTL DEF Spec

----------------------------------------------------------------------------
(* A batch lies ahead of the position, and the position of the opening:    *)
(* that an established position is never given up keeps them so.           *)
OrderInv ==
  /\ HandledInOrder
  /\ handled # <<>> => position \in Nat
  /\ phase \in {"reading", "handling", "waiting", "reconnecting"} => opened <= At
  /\ phase = "handling" => \A n \in batch : At < n

LEMMA NextOrder == TypeOK /\ OrderInv /\ [Next]_vars => OrderInv'
<1> SUFFICES ASSUME TypeOK, OrderInv, [Next]_vars PROVE OrderInv'
  OBVIOUS
<1> USE EventStreamAssumption DEF OrderInv, HandledInOrder, At, writers, subscriber
<1>0. /\ stream \subseteq Nat /\ batch \subseteq Nat /\ handled \in Seq(Nat)
      /\ position \in Nat \cup {None} /\ opened \in Nat
      /\ (phase \in {"reading", "handling", "waiting", "reconnecting"} => position \in Nat)
  BY DEF TypeOK, Sequence
<1>1. ASSUME NEW w \in Writer, AppendEvent(w) PROVE OrderInv'
  BY <1>1 DEF AppendEvent
<1>2. ASSUME NEW w \in Writer, CommitEvents(w) PROVE OrderInv'
  BY <1>2 DEF CommitEvents
<1>3. ASSUME NEW w \in Writer, RollbackEvents(w) PROVE OrderInv'
  BY <1>3 DEF RollbackEvents
<1>4. CASE OnNotification
  BY <1>4 DEF OnNotification
<1>5. CASE Subscribe
  BY <1>5 DEF Subscribe
<1>6. CASE EstablishPosition
  <2>1. CASE handled = <<>>
    BY <1>0, <1>6, <2>1 DEF EstablishPosition, Opening
  <2>2. CASE handled # <<>>
    <3>1. position' = position /\ handled' = handled /\ opened' = opened /\ phase' = "reading"
      BY <1>0, <1>6, <2>2 DEF EstablishPosition, Opening
    <3>2. Len(handled) \in Nat \ {0} /\ handled[1] \in Nat
      BY <1>0, <2>2
    <3>3. opened < handled[1] /\ handled[1] <= At
      BY <3>2
    <3>4. QED
      BY <1>0, <2>2, <3>1, <3>2, <3>3
  <2>3. QED
    BY <2>1, <2>2
<1>7. CASE ReadBatch
  BY <1>0, <1>7 DEF ReadBatch, Unread
<1>8. CASE HandleEvent
  <2>1. PICK event \in batch :
          /\ \A other \in batch : event <= other
          /\ handled' = Append(handled, event)
          /\ position' = event
          /\ batch' = batch \ {event}
    BY <1>8 DEF HandleEvent, AdvancedPosition
  <2>2. opened' = opened /\ event \in Nat /\ position \in Nat /\ opened <= position
        /\ position < event /\ At' = event
    BY <1>0, <1>8, <2>1 DEF HandleEvent
  <2>3. Len(handled') = Len(handled) + 1 /\ handled'[Len(handled) + 1] = event
        /\ \A i \in 1..Len(handled) : handled'[i] = handled[i] /\ handled[i] \in Nat
    BY <1>0, <2>1, <2>2
  <2>4. HandledInOrder'
    <3>1. Len(handled) \in Nat
      BY <1>0
    <3>2. \A i \in 1..Len(handled) : opened < handled[i] /\ handled[i] < event
      BY <1>0, <2>2, <2>3
    <3>3. ASSUME NEW i \in 1..Len(handled')
          PROVE  opened' < handled'[i] /\ handled'[i] <= At'
      <4>1. i \in 1..Len(handled) \/ i = Len(handled) + 1
        BY <2>3, <3>1
      <4>2. CASE i \in 1..Len(handled)
        BY <2>2, <2>3, <3>2, <4>2
      <4>3. CASE i = Len(handled) + 1
        BY <1>0, <2>2, <2>3, <4>3
      <4>4. QED
        BY <4>1, <4>2, <4>3
    <3>4. ASSUME NEW i \in 1..Len(handled'), NEW j \in 1..Len(handled'), i < j
          PROVE  handled'[i] < handled'[j]
      <4>1. i \in 1..Len(handled) /\ (j \in 1..Len(handled) \/ j = Len(handled) + 1)
        BY <2>3, <3>1, <3>4
      <4>2. CASE j \in 1..Len(handled)
        <5>1. handled[i] < handled[j]
          BY <1>0, <3>4, <4>1, <4>2
        <5>2. QED
          BY <2>3, <4>1, <4>2, <5>1
      <4>3. CASE j = Len(handled) + 1
        BY <2>3, <3>2, <4>1, <4>3
      <4>4. QED
        BY <4>1, <4>2, <4>3
    <3>5. QED
      BY <3>3, <3>4
  <2>5. QED
    BY <1>0, <2>1, <2>2, <2>4
<1>9. CASE WakeUp
  BY <1>9 DEF WakeUp
<1>10. CASE LinkFails
  BY <1>10 DEF LinkFails
<1>11. CASE DrainFails
  BY <1>11 DEF DrainFails
<1>12. CASE Reconnect
  BY <1>12 DEF Reconnect
<1>13. CASE ConnectionDrops
  BY <1>13 DEF ConnectionDrops
<1>14. CASE Stop
  BY <1>14 DEF Stop
<1>15. CASE Restart
  BY <1>15 DEF Restart
<1>16. CASE UNCHANGED vars
  BY <1>16 DEF vars
<1>17. QED
  BY <1>1, <1>2, <1>3, <1>4, <1>5, <1>6, <1>7, <1>8, <1>9, <1>10, <1>11, <1>12,
     <1>13, <1>14, <1>15, <1>16 DEF Next

(* Across batches, interrupted drains, reconnects and stops the handler    *)
(* completes events in strictly increasing order (listener.py, drain: the  *)
(* position advances after each handled event).                            *)
THEOREM EventsAreHandledInOrder == Spec => []HandledInOrder
<1>1. Init => OrderInv
  BY DEF Init, OrderInv, HandledInOrder
<1>2. OrderInv => HandledInOrder
  BY DEF OrderInv
<1>3. QED
  BY <1>1, <1>2, NextOrder, EventStreamTypes, PTL DEF Spec

----------------------------------------------------------------------------
(* Once it has moved, the position is on a committed event, and a batch    *)
(* leaves out no event below its own that was in time: so what commits     *)
(* behind either of them is late.                                          *)
SkipInv ==
  /\ OnlyLateEventsAreSkipped
  /\ opened < At => At \in stream
  /\ phase = "handling" =>
       /\ batch \subseteq stream
       /\ \A n \in stream \ late, m \in batch : At < n /\ n < m => n \in batch

LEMMA NextSkip == TypeOK /\ OrderInv /\ SkipInv /\ [Next]_vars => SkipInv'
<1> SUFFICES ASSUME TypeOK, OrderInv, SkipInv, [Next]_vars PROVE SkipInv'
  OBVIOUS
<1> USE EventStreamAssumption DEF SkipInv, OnlyLateEventsAreSkipped, At, writers, subscriber
<1>0. /\ stream \subseteq Nat /\ batch \subseteq Nat /\ handled \in Seq(Nat)
      /\ staged \in [Writer -> SUBSET Nat]
      /\ position \in Nat \cup {None} /\ opened \in Nat
      /\ (phase \in {"reading", "handling", "waiting", "reconnecting"} => position \in Nat)
      /\ (handled # <<>> => position \in Nat)
  BY DEF TypeOK, Sequence, OrderInv
<1>1. ASSUME NEW w \in Writer, AppendEvent(w) PROVE SkipInv'
  BY <1>1 DEF AppendEvent
<1>2. ASSUME NEW w \in Writer, CommitEvents(w) PROVE SkipInv'
  <2>1. /\ stream' = stream \cup staged[w]
        /\ late' = late \cup {n \in staged[w] : \E m \in stream : n < m}
        /\ UNCHANGED <<phase, position, batch, handled, opened>>
    BY <1>2 DEF CommitEvents
  <2>2. ASSUME NEW n \in stream' \ late', n \notin stream, NEW m \in stream
        PROVE  m <= n
    BY <1>0, <2>1, <2>2
  <2>3. OnlyLateEventsAreSkipped'
    <3>1. ASSUME NEW n \in stream' \ late', opened < n, n <= At
          PROVE  n \in stream \ late
      BY <1>0, <2>1, <2>2, <3>1
    <3>2. QED
      BY <2>1, <3>1
  <2>4. QED
    BY <1>0, <2>1, <2>2, <2>3
<1>3. ASSUME NEW w \in Writer, RollbackEvents(w) PROVE SkipInv'
  BY <1>3 DEF RollbackEvents
<1>4. CASE OnNotification
  BY <1>4 DEF OnNotification
<1>5. CASE Subscribe
  BY <1>5 DEF Subscribe
<1>6. CASE EstablishPosition
  <2>1. CASE handled = <<>>
    <3>1. opened' = position' /\ position' \in Nat /\ stream' = stream /\ phase' = "reading"
      BY <1>0, <1>6, <2>1 DEF EstablishPosition, Opening
    <3>2. QED
      BY <1>0, <3>1
  <2>2. CASE handled # <<>>
    BY <1>0, <1>6, <2>2 DEF EstablishPosition, Opening
  <2>3. QED
    BY <2>1, <2>2
<1>7. CASE ReadBatch
  <2>1. PICK read \in SUBSET Unread : ListSince(read) /\ batch' = read
    BY <1>7 DEF ReadBatch
  <2>2. ASSUME NEW n \in stream, NEW m \in read, At < n, n < m
        PROVE  n \in read
    BY <1>0, <2>1, <2>2 DEF ListSince, Unread
  <2>3. UNCHANGED <<stream, late, position, opened, handled>>
    BY <1>7 DEF ReadBatch
  <2>4. QED
    BY <2>1, <2>2, <2>3 DEF Unread
<1>8. CASE HandleEvent
  <2>1. PICK event \in batch :
          /\ \A other \in batch : event <= other
          /\ handled' = Append(handled, event)
          /\ position' = event
          /\ batch' = batch \ {event}
    BY <1>8 DEF HandleEvent, AdvancedPosition
  <2>2. /\ phase = "handling" /\ position \in Nat /\ event \in Nat
        /\ At' = event /\ At = position
        /\ UNCHANGED <<stream, late, opened>>
    BY <1>0, <1>8, <2>1 DEF HandleEvent
  <2>3. /\ Len(handled) \in Nat /\ Len(handled') = Len(handled) + 1
        /\ handled'[Len(handled) + 1] = event
        /\ \A i \in 1..Len(handled) : handled'[i] = handled[i]
    BY <1>0, <2>1, <2>2
  <2>4. OnlyLateEventsAreSkipped'
    <3>1. SUFFICES ASSUME NEW n \in stream \ late, opened < n, n <= event
                   PROVE  \E i \in 1..Len(handled') : handled'[i] = n
      BY <2>2
    <3>2. CASE n <= position
      BY <2>2, <2>3, <3>1, <3>2
    <3>3. CASE position < n
      <4>1. n = event
        BY <1>0, <2>1, <2>2, <3>1, <3>3
      <4>2. QED
        BY <2>3, <4>1
    <3>4. QED
      BY <1>0, <2>2, <3>2, <3>3
  <2>5. ASSUME NEW n \in stream \ late, NEW m \in batch', event < n, n < m
        PROVE  n \in batch'
    <3>1. position < event
      BY <2>2 DEF OrderInv
    <3>2. position < n /\ m \in batch
      BY <1>0, <2>1, <2>2, <2>5, <3>1
    <3>3. QED
      BY <1>0, <2>1, <2>2, <2>5, <3>2
  <2>6. QED
    BY <2>1, <2>2, <2>4, <2>5
<1>9. CASE WakeUp
  BY <1>9 DEF WakeUp
<1>10. CASE LinkFails
  BY <1>10 DEF LinkFails
<1>11. CASE DrainFails
  BY <1>11 DEF DrainFails
<1>12. CASE Reconnect
  BY <1>12 DEF Reconnect
<1>13. CASE ConnectionDrops
  BY <1>13 DEF ConnectionDrops
<1>14. CASE Stop
  BY <1>14 DEF Stop
<1>15. CASE Restart
  BY <1>0, <1>15 DEF Restart, GivenStart
<1>16. CASE UNCHANGED vars
  BY <1>16 DEF vars
<1>17. QED
  BY <1>1, <1>2, <1>3, <1>4, <1>5, <1>6, <1>7, <1>8, <1>9, <1>10, <1>11, <1>12,
     <1>13, <1>14, <1>15, <1>16 DEF Next

(* An event the position has passed unhandled is one that became visible   *)
(* after a greater one (event_repo.py, list_since; listener.py, drain):    *)
(* with writers that commit in order nothing is skipped, through any       *)
(* failure, reconnect, stop and start.                                     *)
THEOREM OnlyLateEventsAreEverSkipped == Spec => []OnlyLateEventsAreSkipped
<1>1. Init => SkipInv /\ OrderInv
  <2> SUFFICES ASSUME Init PROVE SkipInv /\ OrderInv
    OBVIOUS
  <2> USE DEF Init, GivenStart
  <2>1. OrderInv
    BY DEF OrderInv, HandledInOrder
  <2>2. SkipInv
    BY EventStreamAssumption DEF SkipInv, OnlyLateEventsAreSkipped, At
  <2>3. QED
    BY <2>1, <2>2
<1>2. SkipInv => OnlyLateEventsAreSkipped
  BY DEF SkipInv
<1>3. QED
  BY <1>1, <1>2, NextOrder, NextSkip, EventStreamTypes, PTL DEF Spec

----------------------------------------------------------------------------
(* The refinement of OrderedDelivery.                                      *)
(* The IDENTITY column gives a number once, so that no event is published  *)
(* twice.                                                                  *)
NumbersAreGivenOnce ==
  /\ stream \subseteq 1..allocated
  /\ \A w \in Writer : staged[w] \subseteq (1..allocated) \ stream
  /\ \A v, w \in Writer : v # w => staged[v] \cap staged[w] = {}

Reached == IF handled = <<>> THEN opened ELSE handled[Len(handled)]

(* The position is where the handler is.                                   *)
PositionIsReached ==
  /\ position = None => handled = <<>> /\ StartFrom = None
  /\ position # None => position = Reached

DeliveryInv == OrderInv /\ SkipInv /\ NumbersAreGivenOnce /\ PositionIsReached

----------------------------------------------------------------------------
LEMMA NextNumbers == TypeOK /\ NumbersAreGivenOnce /\ [Next]_vars => NumbersAreGivenOnce'
<1> SUFFICES ASSUME TypeOK, NumbersAreGivenOnce, [Next]_vars PROVE NumbersAreGivenOnce'
  OBVIOUS
<1>0. allocated \in Nat /\ staged \in [Writer -> SUBSET Sequence]
  BY EventStreamAssumption DEF TypeOK
<1>1. ASSUME NEW w \in Writer, AppendEvent(w) PROVE NumbersAreGivenOnce'
  <2>1. /\ allocated' = allocated + 1 /\ stream' = stream
        /\ staged' = [staged EXCEPT ![w] = @ \cup {allocated + 1}]
    BY <1>1 DEF AppendEvent
  <2>2. 1..allocated' = (1..allocated) \cup {allocated + 1} /\ allocated + 1 \notin 1..allocated
    BY <1>0, <2>1
  <2>3. /\ staged'[w] = staged[w] \cup {allocated + 1}
        /\ \A v \in Writer \ {w} : staged'[v] = staged[v]
    BY <1>0, <2>1
  <2>4. QED
    BY <2>1, <2>2, <2>3 DEF NumbersAreGivenOnce
<1>2. ASSUME NEW w \in Writer, CommitEvents(w) \/ RollbackEvents(w) PROVE NumbersAreGivenOnce'
  <2>1. /\ allocated' = allocated /\ stream' \in {stream, stream \cup staged[w]}
        /\ staged'[w] = {} /\ \A v \in Writer \ {w} : staged'[v] = staged[v]
    BY <1>0, <1>2 DEF CommitEvents, RollbackEvents
  <2>2. QED
    BY <2>1 DEF NumbersAreGivenOnce
<1>3. CASE allocated' = allocated /\ stream' = stream /\ staged' = staged
  BY <1>3 DEF NumbersAreGivenOnce
<1>4. QED
  BY <1>1, <1>2, <1>3 DEF Next, vars, writers, OnNotification, Subscribe, EstablishPosition,
     ReadBatch, HandleEvent, WakeUp, LinkFails, DrainFails, Reconnect, ConnectionDrops, Stop,
     Restart

LEMMA NextReached == TypeOK /\ PositionIsReached /\ [Next]_vars => PositionIsReached'
<1> SUFFICES ASSUME TypeOK, PositionIsReached, [Next]_vars PROVE PositionIsReached'
  OBVIOUS
<1>0. handled \in Seq(Sequence) /\ position \in Nat \cup {None} /\ None \notin Nat
      /\ stream \subseteq Nat
  BY EventStreamAssumption DEF TypeOK, Sequence
<1>1. CASE EstablishPosition
  <2>1. PICK n \in stream \cup {0} : position' = Opening(n)
    BY <1>1 DEF EstablishPosition
  <2>2. position' # None /\ (position # None => position' = position)
    BY <1>0, <2>1 DEF Opening
  <2>3. handled' = handled /\ opened' = IF handled = <<>> THEN position' ELSE opened
    BY <1>1 DEF EstablishPosition
  <2>4. QED
    BY <2>2, <2>3 DEF PositionIsReached, Reached
<1>2. CASE HandleEvent
  <2>1. PICK event \in batch : handled' = Append(handled, event) /\ position' = event
    BY <1>2 DEF HandleEvent, AdvancedPosition
  <2>2. event \in Sequence /\ event # None
    BY EventStreamAssumption DEF TypeOK, Sequence
  <2>3. handled' # <<>> /\ handled'[Len(handled')] = event
    BY <1>0, <2>1, <2>2
  <2>4. QED
    BY <2>1, <2>2, <2>3 DEF PositionIsReached, Reached
<1>3. CASE Restart
  BY <1>3, EventStreamAssumption DEF Restart, PositionIsReached, Reached, GivenStart
<1>4. CASE position' = position /\ handled' = handled /\ opened' = opened
  BY <1>4 DEF PositionIsReached, Reached
<1>5. QED
  BY <1>1, <1>2, <1>3, <1>4 DEF Next, vars, subscriber, AppendEvent, CommitEvents,
     RollbackEvents, OnNotification, Subscribe, ReadBatch, WakeUp, LinkFails, DrainFails,
     Reconnect, ConnectionDrops, Stop

LEMMA DeliveryIsInvariant == Spec => [](TypeOK /\ DeliveryInv)
<1>1. Init => NumbersAreGivenOnce /\ PositionIsReached
  BY EventStreamAssumption DEF Init, NumbersAreGivenOnce, PositionIsReached, Reached, GivenStart
<1>2. Init => OrderInv
  BY DEF Init, OrderInv, HandledInOrder
<1>3. Init => SkipInv
  BY EventStreamAssumption DEF Init, SkipInv, OnlyLateEventsAreSkipped, At, GivenStart
<1>4. TypeOK /\ DeliveryInv /\ [Next]_vars => DeliveryInv'
  BY NextOrder, NextSkip, NextNumbers, NextReached DEF DeliveryInv
<1>5. DeliveryInv <=> OrderInv /\ SkipInv /\ NumbersAreGivenOnce /\ PositionIsReached
  BY DEF DeliveryInv
<1>6. QED
  BY <1>1, <1>2, <1>3, <1>4, <1>5, EventStreamTypes, PTL DEF Spec

----------------------------------------------------------------------------
LEMMA CommitsPublish ==
  ASSUME TypeOK, DeliveryInv, NEW w \in Writer, CommitEvents(w)
  PROVE  Ordered!Publish
<1>1. staged[w] \subseteq Sequence \ stream
  BY DEF TypeOK, DeliveryInv, NumbersAreGivenOnce
<1>2. /\ stream' = stream \cup staged[w]
      /\ late' = late \cup {n \in staged[w] : \E m \in stream : n < m}
      /\ opened' = opened /\ handled' = handled
  BY DEF CommitEvents, subscriber
<1>3. QED
  BY <1>1, <1>2 DEF Ordered!Publish

(* A position that stands from before a stop begins nothing.               *)
LEMMA OpeningsOpen ==
  ASSUME TypeOK, DeliveryInv, EstablishPosition
  PROVE  Ordered!Open \/ UNCHANGED <<stream, late, opened, handled>>
<1>1. PICK n \in stream \cup {0} : IsLatest(n) /\ position' = Opening(n)
  BY DEF EstablishPosition
<1>2. /\ stream' = stream /\ late' = late /\ handled' = handled
      /\ opened' = IF handled = <<>> THEN position' ELSE opened
  BY DEF EstablishPosition, writers
<1>3. CASE position # None
  BY <1>1, <1>2, <1>3 DEF Opening, DeliveryInv, PositionIsReached, Reached
<1>4. CASE position = None
  <2>1. handled = <<>> /\ GivenStart = 0 /\ opened' = n
    BY <1>1, <1>2, <1>4 DEF DeliveryInv, PositionIsReached, GivenStart, Opening
  <2>2. opened' = GivenStart \/ (opened' \in stream /\ \A m \in stream : m <= opened')
    BY <1>1, <2>1 DEF IsLatest
  <2>3. QED
    BY <1>2, <2>1, <2>2 DEF Ordered!Open
<1>5. QED
  BY <1>3, <1>4

LEMMA HandlingDelivers ==
  ASSUME TypeOK, DeliveryInv, HandleEvent
  PROVE  \E n \in stream : Ordered!Deliver(n)
<1>1. PICK event \in batch :
        /\ \A other \in batch : event <= other
        /\ handled' = Append(handled, event)
  BY DEF HandleEvent
<1>2. /\ phase = "handling" /\ position \in Nat /\ position = Reached /\ At = position
      /\ UNCHANGED <<stream, late, opened>>
  BY EventStreamAssumption DEF HandleEvent, writers, TypeOK, DeliveryInv, PositionIsReached, At
<1>3. stream \subseteq Nat /\ event \in Nat
  BY DEF TypeOK, Sequence
<1>4. event \in stream /\ position < event
  BY <1>2 DEF DeliveryInv, OrderInv, SkipInv
<1>5. \A m \in stream \ late : m <= position \/ event <= m
  <2>1. ASSUME NEW m \in stream \ late, position < m, m < event PROVE FALSE
    <3>1. m \in batch
      BY <1>2, <2>1 DEF DeliveryInv, SkipInv
    <3>2. QED
      BY <1>1, <1>3, <2>1, <3>1
  <2>2. QED
    BY <1>2, <1>3, <2>1
<1>6. Ordered!Reached = position
  BY <1>2 DEF Ordered!Reached, Reached
<1>7. QED
  BY <1>1, <1>2, <1>4, <1>5, <1>6 DEF Ordered!Deliver

(* The handler of a subscriber, whatever batches are read, wake-ups folded *)
(* and drains interrupted (events/listener.py), is given the committed     *)
(* events in order, each once, and every one that came in its turn.        *)
THEOREM TheStreamDeliversInOrder == Spec => ImplementsOrderedDelivery
<1>1. Init => Ordered!Init
  BY DEF Init, Ordered!Init
<1>2. TypeOK /\ DeliveryInv /\ [Next]_vars => [Ordered!Next]_(Ordered!vars)
  <2> SUFFICES ASSUME TypeOK, DeliveryInv, [Next]_vars
               PROVE  Ordered!Next \/ UNCHANGED <<stream, late, opened, handled>>
    BY DEF Ordered!vars
  <2>1. ASSUME NEW w \in Writer, CommitEvents(w) PROVE Ordered!Next
    BY <2>1, CommitsPublish DEF Ordered!Next
  <2>2. CASE EstablishPosition
    BY <2>2, OpeningsOpen DEF Ordered!Next
  <2>3. CASE HandleEvent
    BY <2>3, HandlingDelivers DEF Ordered!Next
  <2>4. CASE Restart
    BY <2>4 DEF Restart, writers, Ordered!Open, Ordered!Next
  <2>5. CASE UNCHANGED <<stream, late, opened, handled>>
    BY <2>5
  <2>6. QED
    BY <2>1, <2>2, <2>3, <2>4, <2>5 DEF Next, vars, writers, subscriber, AppendEvent,
       RollbackEvents, OnNotification, Subscribe, ReadBatch, WakeUp, LinkFails, DrainFails,
       Reconnect, ConnectionDrops, Stop
<1>3. QED
  BY <1>1, <1>2, DeliveryIsInvariant, PTL DEF Spec, ImplementsOrderedDelivery, Ordered!Spec

=============================================================================

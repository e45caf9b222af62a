--------------------------- MODULE PikaEventBroker ---------------------------
(***************************************************************************)
(* The event broker for RabbitMQ (rasa/core/brokers/pika.py).  publish only *)
(* creates a task; the task sends the event and waits for the exchange to   *)
(* confirm it.  An event whose task fails is queued, and the callback that  *)
(* runs when the connection is restored publishes the queue again.          *)
(*                                                                         *)
(* aio_pika and RabbitMQ are modelled as far as the broker relies on them:  *)
(* frames of one connection arrive in order, a connection that breaks takes *)
(* with it what has not arrived, and every publish that was not confirmed   *)
(* raises, each when the loop gets to it, maybe after the reconnection.     *)
(***************************************************************************)
EXTENDS Integers, SequencesExt

CONSTANTS
  MaxEvents,     \* bound on the events handed to the broker
  MaxFailures    \* bound on the failures of the connection

VARIABLES
  keep,          \* should_keep_unpublished_messages
  connection,    \* the number of the connection, or of the last one
  up,            \* whether it is up
  handed,        \* how many events publish was called with, 1, 2, ...
  ready,         \* the events of the tasks that have not begun
  sent,          \* of the tasks that wait: the event, the connection, and
                 \* whether it is "sent" or has "arrived"
  unpublished,   \* _unpublished_events
  exchange,      \* the events the exchange received
  failed         \* history: the events a publish raised for

vars == <<keep, connection, up, handed, ready, sent, unpublished, exchange, failed>>

Init ==
  /\ keep \in BOOLEAN
  /\ connection = 1
  /\ up = TRUE
  /\ handed = 0
  /\ ready = <<>>
  /\ sent = <<>>
  /\ unpublished = <<>>
  /\ exchange = <<>>
  /\ failed = {}

\* Mistaken create_task: the newest tasks run first.
CreateTasks_Newest(events) == events \o ready

\* create_task, for each of the events: the loop runs what is ready in order.
CreateTasks(events) == ready \o events

\* publish, called by stream_events
Publish ==
  /\ handed < MaxEvents
  /\ handed' = handed + 1
  /\ ready' = CreateTasks(<<handed'>>)
  /\ UNCHANGED <<keep, connection, up, sent, unpublished, exchange, failed>>

\* Mistaken _publish: the queue holds one event.
Unpublished_One(event) == IF keep THEN <<event>> ELSE unpublished

\* _publish, after an exception; raise_on_failure reaches no caller of publish.
Unpublished(event) == IF keep THEN Append(unpublished, event) ELSE unpublished

\* _publish, up to the wait for the confirmation; without a connection it
\* raises at once.
Begin ==
  /\ ready # <<>>
  /\ ready' = Tail(ready)
  /\ IF up
       THEN /\ sent' = Append(sent, [event |-> Head(ready), on |-> connection, state |-> "sent"])
            /\ UNCHANGED <<unpublished, failed>>
       ELSE /\ unpublished' = Unpublished(Head(ready))
            /\ failed' = failed \union {Head(ready)}
            /\ UNCHANGED sent
  /\ UNCHANGED <<keep, connection, up, handed, exchange>>

OnThisConnection(i) == up /\ sent[i].on = connection

InTransit(i) == OnThisConnection(i) /\ sent[i].state = "sent"

\* The exchange receives the next frame of the connection.
Arrive(i) ==
  /\ InTransit(i) /\ \A j \in 1 .. i - 1 : ~InTransit(j)
  /\ exchange' = Append(exchange, sent[i].event)
  /\ sent' = [sent EXCEPT ![i].state = "arrived"]
  /\ UNCHANGED <<keep, connection, up, handed, ready, unpublished, failed>>

\* The exchange confirms, and the task is done.
Confirm(i) ==
  /\ OnThisConnection(i) /\ sent[i].state = "arrived"
  /\ sent' = RemoveAt(sent, i)
  /\ UNCHANGED <<keep, connection, up, handed, ready, unpublished, exchange, failed>>

Disconnect ==
  /\ up /\ connection =< MaxFailures
  /\ up' = FALSE
  /\ UNCHANGED <<keep, connection, handed, ready, sent, unpublished, exchange, failed>>

\* A publish on a connection that broke raises.
Raise(i) ==
  /\ ~OnThisConnection(i)
  /\ unpublished' = Unpublished(sent[i].event)
  /\ failed' = failed \union {sent[i].event}
  /\ sent' = RemoveAt(sent, i)
  /\ UNCHANGED <<keep, connection, up, handed, ready, exchange>>

\* Mistaken _publish_unpublished_messages: keeps what it publishes queued.
Drained_Kept == unpublished

\* What _publish_unpublished_messages leaves queued.
Drained == <<>>

\* The connection is restored; _publish_unpublished_messages
Reconnect ==
  /\ ~up
  /\ up' = TRUE
  /\ connection' = connection + 1
  /\ ready' = CreateTasks(unpublished)
  /\ unpublished' = Drained
  /\ UNCHANGED <<keep, handed, sent, exchange, failed>>

Next ==
  \/ Publish \/ Begin \/ Disconnect \/ Reconnect
  \/ \E i \in DOMAIN sent : Arrive(i) \/ Confirm(i) \/ Raise(i)

Spec == Init /\ [][Next]_vars

-----------------------------------------------------------------------------
EventNumbers == 1 .. MaxEvents

\* The type invariant.
TypeOK ==
  /\ {keep, up} \subseteq BOOLEAN
  /\ connection \in 1 .. MaxFailures + 1
  /\ handed \in 0 .. MaxEvents
  /\ ready \in Seq(EventNumbers) /\ unpublished \in Seq(EventNumbers)
  /\ exchange \in Seq(EventNumbers)
  /\ sent \in Seq([event : EventNumbers, on : 1 .. MaxFailures + 1, state : {"sent", "arrived"}])
  /\ failed \subseteq 1 .. handed

Pending == ToSet(ready) \union {s.event : s \in ToSet(sent)} \union ToSet(unpublished)

\* Between tasks, queue and reconnections no event gets lost: it is at the
\* exchange, or still to be published; unless unpublished events are not kept,
\* when only those that raised are lost.
NothingForgotten ==
  1 .. handed \subseteq ToSet(exchange) \union Pending \union IF keep THEN {} ELSE failed

\* At no time is an event about to be published twice over.
QueuedOnce ==
  LET waiting == [i \in DOMAIN sent |-> sent[i].event]
  IN  /\ IsInjective(ready) /\ IsInjective(waiting) /\ IsInjective(unpublished)
      /\ ToSet(ready) \intersect ToSet(waiting) = {}
      /\ ToSet(ready) \intersect ToSet(unpublished) = {}
      /\ ToSet(waiting) \intersect ToSet(unpublished) = {}

FirstIn(log, e) == SelectInSeq(log, LAMBDA x : x = e)

\* The exchange receives an event a second time, or after a later one, only if
\* its publishing raised before.
InOrderUnlessFailed ==
  \A e \in ToSet(exchange) \ failed :
    /\ Cardinality({i \in DOMAIN exchange : exchange[i] = e}) = 1
    /\ \A i \in 1 .. FirstIn(exchange, e) : exchange[i] =< e

=============================================================================

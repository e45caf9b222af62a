-------------------------- MODULE KafkaEventBroker --------------------------
(***************************************************************************)
(* The event broker for Kafka (rasa/core/brokers/kafka.py).  publish hands  *)
(* the event to a producer, which delivers it in the background; when that  *)
(* fails it tries again, asleep in between, and with it the whole process.  *)
(*                                                                         *)
(* confluent_kafka's Producer is modelled as far as the broker relies on    *)
(* it: it buffers a limited number of events, sends them while the cluster  *)
(* is up, gives up on one that stays undelivered for too long, and keeps    *)
(* every event in its buffer until poll() serves its delivery report.  The  *)
(* broker's thread that is to poll starts before there is a producer and    *)
(* ends at once, so no report is ever served.                               *)
(*                                                                         *)
(* The broker asks for no idempotent producer and, unless it partitions by  *)
(* sender, gives its messages no key.  So the producer may send an event    *)
(* again whose acknowledgement it missed, and in another order: the topic   *)
(* is the set of the events that arrived, and what the broker answers for   *)
(* is which events it gives to its producers, and in which order.           *)
(***************************************************************************)
EXTENDS Integers, SequencesExt

CONSTANTS
  MaxEvents,    \* bound on the events handed to the broker
  MaxFailures,  \* bound on the failures of the cluster
  Retries,      \* of publish
  BufferLimit   \* queue.buffering.max.messages of the producer

VARIABLES
  up,         \* whether the cluster can be reached
  failures,   \* how often it could not, see MaxFailures
  handed,     \* how many events publish was called with, 1, 2, ...
  retries,    \* what is left of them; 0 while no publish runs
  producer,   \* the number of the producer; 0 before the first publish
  buffer,     \* the events the producer was given
  settled,    \* the positions of the buffer the producer is done with
  topic,      \* the events in Kafka
  given,      \* history: the events all producers were given, in order
  lost        \* history: the events given up, each with its cause

vars == <<up, failures, handed, retries, producer, buffer, settled, topic, given, lost>>

Init ==
  /\ up \in BOOLEAN
  /\ failures = IF up THEN 0 ELSE 1
  /\ handed = 0
  /\ retries = 0
  /\ producer = 0
  /\ buffer = <<>>
  /\ settled = {}
  /\ topic = {}
  /\ given = <<>>
  /\ lost = {}

Lose(events, cause) == lost' = lost \union {<<e, cause>> : e \in events}

\* Mistaken check of the first connection: its branches are swapped.
Connected_Swapped == ~up

\* The check of the first connection.
Connected == up

\* The first publish makes the producer, and drops its event if that cannot
\* reach the cluster.
FirstPublish ==
  /\ producer = 0 /\ handed < MaxEvents
  /\ handed' = 1
  /\ producer' = 1
  /\ IF Connected
       THEN retries' = Retries /\ UNCHANGED lost
       ELSE retries' = 0 /\ Lose({1}, "not connected")
  /\ UNCHANGED <<up, failures, buffer, settled, topic, given>>

Publish ==
  /\ producer > 0 /\ retries = 0 /\ handed < MaxEvents
  /\ handed' = handed + 1
  /\ retries' = Retries
  /\ UNCHANGED <<up, failures, producer, buffer, settled, topic, given, lost>>

\* _publish: produce succeeds unless the buffer is full, connected or not.
Produce ==
  /\ retries > 0 /\ Len(buffer) < BufferLimit
  /\ buffer' = Append(buffer, handed)
  /\ given' = Append(given, handed)
  /\ retries' = 0
  /\ UNCHANGED <<up, failures, handed, producer, settled, topic, lost>>

\* What is left of the retries after one that failed.
Remaining == retries - 1

\* The last retry failed, and publish returns without the event.
GiveUp == IF Remaining = 0 THEN Lose({handed}, "given up") ELSE UNCHANGED lost

\* produce raised as the buffer is full; the cluster answers, so the producer
\* is kept, and publish sleeps.
RetryConnected ==
  /\ retries > 0 /\ Len(buffer) = BufferLimit /\ up
  /\ retries' = Remaining
  /\ GiveUp
  /\ UNCHANGED <<up, failures, handed, producer, buffer, settled, topic, given>>

Undelivered == {buffer[i] : i \in DOMAIN buffer \ settled}

\* Mistaken reconnection: publishes all that the old producer was given.
Rebuffered_All(event) == Append(buffer, event)

\* What a new producer is given.
Rebuffered(event) == <<event>>

\* produce raised, and the cluster does not answer: there is a new producer,
\* without what was buffered, and it may reach the cluster.
Reconnect(reached) ==
  /\ retries > 0 /\ Len(buffer) = BufferLimit /\ ~up
  /\ producer' = producer + 1
  /\ settled' = {}
  /\ up' = reached
  /\ IF reached
       THEN buffer' = Rebuffered(handed) /\ retries' = 0 /\ Lose(Undelivered, "replaced")
       ELSE /\ buffer' = <<>>
            /\ retries' = Remaining
            /\ Lose(Undelivered \union IF Remaining = 0 THEN {handed} ELSE {}, "replaced")
  /\ given' = given \o buffer'
  /\ UNCHANGED <<failures, handed, topic>>

\* The producer delivers an event in the background.  It is done with it when
\* the acknowledgement arrives, and sends it again otherwise.
Deliver ==
  /\ up
  /\ \E i \in DOMAIN buffer \ settled :
       /\ topic' = topic \union {buffer[i]}
       /\ settled' \in {settled, settled \union {i}}
  /\ UNCHANGED <<up, failures, handed, retries, producer, buffer, given, lost>>

\* The producer gives up on an event it could not deliver in time.
TimeOut ==
  /\ ~up
  /\ \E i \in DOMAIN buffer \ settled :
       /\ settled' = settled \union {i}
       /\ Lose({buffer[i]}, "timed out")
  /\ UNCHANGED <<up, failures, handed, retries, producer, buffer, topic, given>>

Fail ==
  /\ up /\ failures < MaxFailures
  /\ up' = FALSE
  /\ failures' = failures + 1
  /\ UNCHANGED <<handed, retries, producer, buffer, settled, topic, given, lost>>

Recover ==
  /\ ~up
  /\ up' = TRUE
  /\ UNCHANGED <<failures, handed, retries, producer, buffer, settled, topic, given, lost>>

Next ==
  \/ FirstPublish \/ Publish \/ Produce \/ RetryConnected
  \/ \E reached \in BOOLEAN : Reconnect(reached)
  \/ Deliver \/ TimeOut \/ Fail \/ Recover

Spec == Init /\ [][Next]_vars

-----------------------------------------------------------------------------
Causes == {"not connected", "given up", "replaced", "timed out"}

\* The type invariant.
TypeOK ==
  /\ up \in BOOLEAN
  /\ failures \in 0 .. MaxFailures + 1
  /\ handed \in 0 .. MaxEvents
  /\ retries \in 0 .. Retries
  /\ producer \in Nat
  /\ buffer \in Seq(1 .. MaxEvents) /\ Len(buffer) =< BufferLimit
  /\ settled \subseteq DOMAIN buffer
  /\ topic \subseteq 1 .. MaxEvents
  /\ given \in Seq(1 .. MaxEvents)
  /\ lost \subseteq (1 .. MaxEvents) \X Causes

\* However often publish retries and the producer is replaced, the broker gives
\* each event to one producer only, once, and in the order it was handed them.
\* How often and in which order it then arrives is up to the producer.
GivenOnceInOrder == \A i, j \in DOMAIN given : i < j => given[i] < given[j]

\* No event disappears without a trace: publish still tries, or the event was
\* given up, by publish or by the producer, lost with its producer, is buffered,
\* or is in Kafka.
NothingForgotten ==
  \A e \in 1 .. handed :
    \/ e = handed /\ retries > 0
    \/ e \in topic \union ToSet(buffer) \union {l[1] : l \in lost}

\* As long as the cluster can be reached, the producer takes as many events as
\* its buffer holds, and no more: then every publish sleeps through all its
\* retries and drops its event.
DropsOnceFull ==
  failures = 0 => /\ \A l \in lost : l[1] > BufferLimit
                  /\ \A e \in topic : e =< BufferLimit

=============================================================================

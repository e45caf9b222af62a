---------------------------- MODULE EventBrokers ----------------------------
(***************************************************************************)
(* The event broker of an assistant (rasa/core/brokers/broker.py): create   *)
(* chooses it by the type in the endpoint configuration.  The brokers with  *)
(* a protocol of their own are PikaEventBroker and KafkaEventBroker; those  *)
(* that write to a file or to a database do so within publish.              *)
(***************************************************************************)
EXTENDS Integers, Sequences

CONSTANTS MaxEvents, MaxFailures, Retries, BufferLimit

ASSUME BrokersAssumption ==
  /\ {MaxEvents, MaxFailures} \subseteq Nat
  /\ {Retries, BufferLimit} \subseteq Nat \ {0}

VARIABLES
  type,          \* of the broker: "pika" or "kafka"
  up, handed,    \* of either broker
  keep, connection, ready, sent, unpublished, exchange, failed,    \* Pika
  failures, retries, producer, buffer, settled, topic, given, lost \* Kafka

pikaVars == <<keep, connection, ready, sent, unpublished, exchange, failed>>
kafkaVars == <<failures, retries, producer, buffer, settled, topic, given, lost>>
brokerVars == <<type, up, handed, pikaVars, kafkaVars>>

Pika == INSTANCE PikaEventBroker
Kafka == INSTANCE KafkaEventBroker

\* _create_from_endpoint_config: the broker of the other type stays unmade.
CreateBroker ==
  \/ /\ type = "pika" /\ Pika!Init
     /\ failures = "" /\ retries = "" /\ producer = "" /\ buffer = ""
     /\ settled = "" /\ topic = "" /\ given = "" /\ lost = ""
  \/ /\ type = "kafka" /\ Kafka!Init
     /\ keep = "" /\ connection = "" /\ ready = "" /\ sent = ""
     /\ unpublished = "" /\ exchange = "" /\ failed = ""

BrokerNext ==
  \/ type = "pika" /\ Pika!Next /\ UNCHANGED <<type, kafkaVars>>
  \/ type = "kafka" /\ Kafka!Next /\ UNCHANGED <<type, pikaVars>>

BrokerSpec == CreateBroker /\ [][BrokerNext]_brokerVars

\* The type invariant.
BrokerTypeOK == IF type = "pika" THEN Pika!TypeOK ELSE Kafka!TypeOK

\* Nothing handed to a broker gets lost on the way to RabbitMQ or Kafka but
\* what the broker gave up, or was not to keep.
NothingForgotten == IF type = "pika" THEN Pika!NothingForgotten ELSE Kafka!NothingForgotten

\* The broker's own bookkeeping never publishes an event twice at a time.
PikaQueuedOnce == type = "pika" => Pika!QueuedOnce

\* An event whose publishing never raised arrives once, and in order.
PikaInOrder == type = "pika" => Pika!InOrderUnlessFailed

\* The broker gives each event to one producer for Kafka, once, and in order,
\* whatever is retried and however often the producer is replaced.
KafkaGivenOnceInOrder == type = "kafka" => Kafka!GivenOnceInOrder

\* While the cluster can be reached, the events that fit the buffer of the
\* producer are delivered, and no others.
KafkaDropsOnceFull == type = "kafka" => Kafka!DropsOnceFull

=============================================================================

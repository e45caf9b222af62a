CONSTANTS
  MaxEvents = 4
  MaxFailures = 2
  Retries = 3
  BufferLimit = 2
SPECIFICATION BrokerSpec
CHECK_DEADLOCK FALSE
INVARIANTS NothingForgotten PikaQueuedOnce PikaInOrder KafkaGivenOnceInOrder KafkaDropsOnceFull

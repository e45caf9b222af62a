CONSTANTS
  Kinds = {"appending", "whole"}
  MaxRequests = 4
  MaxFaults = 2
SPECIFICATION Spec
CHECK_DEADLOCK FALSE
INVARIANTS StoredExactly StoredOnceInOrder PublishedFirst PublishedOnceInOrder

CONSTANTS
  Kinds = {"whole"}
  MaxRequests = 3
  MaxFaults = 1
SPECIFICATION Spec
CHECK_DEADLOCK FALSE
PROPERTIES HistoryKept

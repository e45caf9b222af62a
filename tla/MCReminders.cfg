CONSTANTS
  Conversations <- TwoConversations
  Results <- TurnResults
  MaxMessages = 2
  MaxReminders = 2
  MaxAgents = 2
SPECIFICATION Spec
CHECK_DEADLOCK FALSE
INVARIANTS TypeOK DroppedForACause
PROPERTIES TriggeredInTime TurnsKept

CONSTANTS
  Names <- MCNames
  Configs <- MCNegatedConfigs
  Events <- MCEvents
  MaxLength = 3
  MaxConversations = 1
SPECIFICATION Spec
CHECK_DEADLOCK FALSE
INVARIANT NegatedTagsApply

CONSTANTS
  Assistants <- AllAssistants
  Replays = TRUE
SPECIFICATION FairSpec
CHECK_DEADLOCK FALSE
INVARIANTS NoRunawayTurn
PROPERTIES SilenceBeforeNewSession RestoredAsLeft PausedBotIsSilent LoopSurvives TurnEnds

CONSTANTS
  Intents <- SomeIntents
  Forms <- OneForm
  Slots <- TwoSlots
  Returned <- ActionResults
  DefaultActions <- BackIntent
  Width <- Lengths
  Projects <- SomeProjects
  MaxMessages = 4
  MaxEvents = 18
SPECIFICATION Spec
CHECK_DEADLOCK FALSE
INVARIANTS KeepsToStories ResumesUnvalidated RuleTurnsUnseen

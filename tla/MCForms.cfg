SPECIFICATION Spec
CONSTANTS
  Slots <- MCSlots
  Forms <- MCForms
  Required <- MCRequired
  Mappings <- MCMappings
  Validating = {"book", "order"}
  Stopping = {"order"}
  MaxPredictions = 3
  MaxMessages = 3
INVARIANTS AsksForMissing
PROPERTIES SubmitsComplete SubmitsValidated

------------------------------- MODULE Forms -------------------------------
(***************************************************************************)
(* Filling forms: rasa/core/actions/forms.py and loops.py, with the         *)
(* extraction of slots (rasa/core/actions/action.py) and the part of the    *)
(* RulePolicy that keeps a form going (rasa/core/policies/rule_policy.py).  *)
(* A message fills slots by their mappings; the active form has its         *)
(* custom action validate them and asks for the next one; or it rejects,    *)
(* and the policies choose another action before the form goes on.          *)
(*                                                                         *)
(* A message stands for the mappings whose intent and entities it has, a    *)
(* value for whether a validation accepted it.  What a form says is left    *)
(* out, and so is the history that MessageProcessor is about.               *)
(***************************************************************************)
EXTENDS Tracker, FiniteSets

CONSTANTS
  Slots,           \* the slots of the domain, but for requested_slot
  Forms,           \* the forms
  Required,        \* per form, the slots it has to fill, in order
  Mappings,        \* the mappings: a slot, and a condition it is bound to
  Validating,      \* the forms with a custom action validate_<form>
  Stopping,        \* those whose custom action may end the form early
  MaxPredictions,  \* max_number_of_predictions
  MaxMessages      \* a bound on the messages

OTHER_ACTION == "action_other"
REQUESTED_SLOT == "requested_slot"

\* What a slot holds: nothing, what a mapping found, what a validation left.
Unset == NoName
Values == {Unset, "raw", "valid"}

\* A mapping applies always, while a form is active, or while it asks.  No form
\* has the name of another action.
ASSUME FormsAssumption ==
  /\ IsFiniteSet(Slots) /\ {NoName, REQUESTED_SLOT} \intersect Slots = {}
  /\ {NoName, LISTEN, OTHER_ACTION} \intersect Forms = {}
  /\ Required \in [Forms -> Seq(Slots)]
  /\ Mappings \subseteq [slot : Slots, loop : Forms \union {NoName}, requested : BOOLEAN]
  /\ Stopping \subseteq Validating /\ Validating \subseteq Forms
  /\ {MaxPredictions, MaxMessages} \subseteq Nat

VARIABLES
  tracker,   \* the dialogue, as far as forms are concerned
  heard,     \* the mappings whose intent and entities the last message has
  turn,      \* a message is being handled
  paused,    \* a human has taken over
  messages,  \* messages so far
  missed     \* history: why the form may have missed what a message said

vars == <<tracker, heard, turn, paused, messages, missed>>

-----------------------------------------------------------------------------
(* Events and the tracker.                                                  *)

SlotSet(slot, value) == [type |-> "slot", name |-> slot, time |-> 0, value |-> value]

RequiredOf(form) == ToSet(Required[form])
Requested(t) == t.slots[REQUESTED_SLOT]

\* change_loop_to
ChangeLoopTo(t, name) == [t EXCEPT !.loop = name, !.rejected = FALSE]

\* reject_action, and the action that the ensemble vetoes.
RejectAction(t, name) == [t EXCEPT !.rejected = @ \/ t.loop = name, !.vetoed = name]

\* apply_to: also which slots were set since the last message, and the
\* executions since the bot last listened.
ApplyTo(t, e) ==
  CASE e.type = "slot" ->
         [t EXCEPT !.slots[e.name] = e.value, !.said = @ \union {e.name}]
    [] e.type = "active_loop" -> ChangeLoopTo(t, e.name)
    [] e.type = "rejected" -> RejectAction(t, e.name)
    [] e.type = "action" ->
         [t EXCEPT !.latest = e.name, !.vetoed = NoName,
                   !.rejected = @ /\ t.loop # e.name,
                   !.executed = IF e.name = LISTEN THEN 0 ELSE @ + 1]

UpdateWith(t, events) == Through(events, ApplyTo, t)

\* What a list of events has in it: rejections, and the places of others.
Rejects(events) == \E i \in DOMAIN events : events[i].type = "rejected"
Requests(events) == {i \in DOMAIN events : Is(events[i], "slot", REQUESTED_SLOT)}
LoopChanges(events) == {i \in DOMAIN events : events[i].type = "active_loop"}

\* The event that sets each slot of a function from slots to values.
SetAll(values) ==
  LET slots == SetToSeq(DOMAIN values)
  IN  [i \in 1 .. Len(slots) |-> SlotSet(slots[i], values[slots[i]])]

-----------------------------------------------------------------------------
(* ActionExtractSlots                                                       *)

\* _matches_mapping_conditions
Matches(t, mapping) ==
  \/ mapping.loop = NoName
  \/ /\ ~(t.rejected /\ Requested(t) = mapping.slot)
     /\ mapping.loop = t.loop
     /\ mapping.requested => Requested(t) = mapping.slot

\* run, and _execute_validation_action: what a mapping found is set, or unset
\* by the custom action action_validate_slot_mappings.
Extractions(t, message) ==
  LET found == {m.slot : m \in {n \in message : Matches(t, n)}}
  IN  [found -> {"raw", Unset}]

-----------------------------------------------------------------------------
(* FormAction                                                               *)

Missing(form, slots) == {s \in RequiredOf(form) : slots[s] = Unset}

\* _find_next_slot_to_request
NextSlot(form, slots) ==
  LET open == {i \in DOMAIN Required[form] : slots[Required[form][i]] = Unset}
  IN  IF open = {} THEN NoName ELSE Required[form][Min(open)]

\* validate_slots: the custom action accepts each candidate or unsets it, and
\* may request a slot, end the form in two ways, or reject its execution.
Validations(form, t, candidates) ==
  LET Verdicts == {values \in [candidates -> {"valid", Unset}] :
                     \A s \in candidates : t.slots[s] = Unset => values[s] = Unset}
      Left(values) ==
        [s \in Slots |-> IF s \in candidates THEN values[s] ELSE t.slots[s]]
      Closing(values) ==
        {<<>>, <<ActionExecutionRejected(form)>>}
          \union {<<SlotSet(REQUESTED_SLOT, s)>> : s \in Missing(form, Left(values))}
          \union IF form \in Stopping
                   THEN {<<SlotSet(REQUESTED_SLOT, NoName)>>, <<ActiveLoop(NoName)>>} ELSE {}
  IN  IF form \notin Validating THEN {<<>>}
      ELSE UNION {{SetAll(values) \o closing : closing \in Closing(values)} : values \in Verdicts}

\* Mistaken activate: slots filled before are not validated.
Activations_Unvalidated(form, t, message) ==
  {<<ActiveLoop(form)>> \o SetAll(found) :
     found \in Extractions(ApplyTo(t, ActiveLoop(form)), message)}

\* _activate_loop and activate: extracts slots once more, and validates what
\* is filled already.
Activations(form, t, message) ==
  LET active == ApplyTo(t, ActiveLoop(form))
      Validated(found) ==
        LET filled == UpdateWith(active, SetAll(found))
            prefilled == RequiredOf(form) \ Missing(form, filled.slots)
            Rest(events) ==
              [s \in {s \in DOMAIN found : \A i \in DOMAIN events : ~Is(events[i], "slot", s)}
                 |-> found[s]]
        IN  IF prefilled = {} THEN {SetAll(found)}
            ELSE {events \o SetAll(Rest(events)) : events \in Validations(form, filled, prefilled)}
  IN  {<<ActiveLoop(form)>> \o events :
         events \in UNION {Validated(found) : found \in Extractions(active, message)}}

\* get_slot_to_fill
SlotToFill(form, t) == IF t.loop = form THEN Requested(t) ELSE NoName

\* validate: what the last message filled of the required slots and the
\* requested one goes to the custom action; the form rejects if it waited for
\* an answer and nothing came of it.
Validate(form, t) ==
  LET toFill == SlotToFill(form, t)
      candidates == t.said \intersect (RequiredOf(form) \union {toFill})
      Raises(events) ==
        /\ toFill # NoName
        /\ candidates = {}
        /\ \A i \in DOMAIN events : events[i].type = "slot" => events[i].name = REQUESTED_SLOT
        /\ ~Rejects(events)
  IN  {[raises |-> Raises(events), events |-> events] :
         events \in Validations(form, t, candidates)}

\* _validate_if_required
NeedsValidation(t, interrupted) ==
  t.loop = NoName \/ (t.latest = LISTEN /\ ~interrupted)

ValidateIfRequired(form, t, interrupted) ==
  IF NeedsValidation(t, interrupted) THEN Validate(form, t)
  ELSE {[raises |-> FALSE, events |-> events] : events \in Validations(form, t, {})}

\* is_done: the last request and the last change of the loop count.
IsDone(events) ==
  /\ ~Rejects(events)
  /\ \/ /\ Requests(events) # {}
        /\ events[Max(Requests(events))].value = NoName
     \/ /\ LoopChanges(events) # {}
        /\ events[Max(LoopChanges(events))].name = NoName

\* Mistaken request_next_slot: looks at the tracker from before the run.
RequestNextSlot_Stale(form, t, events) ==
  <<SlotSet(REQUESTED_SLOT, NextSlot(form, t.slots))>>

\* request_next_slot: the first slot requested so far, or the first missing.
RequestNextSlot(form, t, events) ==
  LET asked == IF Requests(events) = {} THEN NoName ELSE events[Min(Requests(events))].value
  IN  IF IsDone(events) THEN <<SlotSet(REQUESTED_SLOT, NoName)>>
      ELSE IF asked # NoName THEN <<>>
      ELSE <<SlotSet(REQUESTED_SLOT, NextSlot(form, UpdateWith(t, events).slots))>>

\* do: validates unless the activation has.
Do(form, t, interrupted, soFar) ==
  LET validated == IF LoopChanges(soFar) = DOMAIN soFar
                     THEN ValidateIfRequired(form, t, interrupted)
                     ELSE {[raises |-> FALSE, events |-> <<>>]}
      Goes(v) == IF v.raises \/ Rejects(v.events) THEN v
                 ELSE [v EXCEPT !.events = @ \o RequestNextSlot(form, t, soFar \o @)]
  IN  {[v EXCEPT !.events = soFar \o @] : v \in {Goes(v) : v \in validated}}

\* LoopAction.run
Runs(form, t, interrupted, message) ==
  LET starts == IF t.loop = form THEN {<<>>} ELSE Activations(form, t, message)
      Done(soFar) == IF IsDone(soFar) THEN {[raises |-> FALSE, events |-> soFar]}
                     ELSE Do(form, t, interrupted, soFar)
      Closed(r) == IF IsDone(r.events) THEN [r EXCEPT !.events = Append(@, ActiveLoop(NoName))] ELSE r
  IN  {Closed(r) : r \in UNION {Done(soFar) : soFar \in starts}}

-----------------------------------------------------------------------------
(* The dialogue.                                                            *)

Init ==
  /\ tracker = [slots |-> [s \in Slots \union {REQUESTED_SLOT} |-> Unset], said |-> {},
                loop |-> NoName, rejected |-> FALSE, latest |-> LISTEN,
                vetoed |-> NoName, executed |-> 0]
  /\ heard = {}
  /\ turn = FALSE /\ paused = FALSE
  /\ messages = 0
  /\ missed = {}

\* handle_message up to the prediction loop: the message is logged and slots
\* are extracted, also while the bot is paused.
HandleMessage(message) ==
  /\ ~turn
  /\ messages < MaxMessages
  /\ messages' = messages + 1
  /\ \E found \in Extractions(tracker, message) :
       tracker' = UpdateWith([tracker EXCEPT !.said = {}], SetAll(found))
  /\ heard' = message
  /\ turn' = ~paused
  /\ missed' = missed \union IF paused THEN {"paused"} ELSE {}
  /\ UNCHANGED paused

Predicts == turn /\ tracker.executed < MaxPredictions

\* _find_action_from_loop_happy_path
HappyPath ==
  IF tracker.loop = NoName \/ tracker.rejected THEN {}
  ELSE {IF tracker.latest = tracker.loop THEN LISTEN ELSE tracker.loop}

\* The RulePolicy keeps to the form until it rejects; then rules and other
\* policies choose, but not the action that has just been rejected.
Predicted(action) ==
  action \in IF HappyPath # {} THEN HappyPath
             ELSE (Forms \union {LISTEN, OTHER_ACTION}) \ {tracker.vetoed}

\* A message the form has not seen is answered without it.
Overlooked(action) ==
  tracker.loop \notin {NoName, action, tracker.vetoed} /\ tracker.latest = LISTEN

Act(action, events) ==
  tracker' = UpdateWith(tracker,
    IF Rejects(events) THEN events ELSE <<ActionExecuted(action)>> \o events)

\* The form runs.  A rule from an unhappy path has it interrupted: it skips
\* the validation.
RunForm(form) ==
  /\ Predicts /\ Predicted(form)
  /\ \E interrupted \in {FALSE, tracker.rejected /\ tracker.latest = LISTEN} :
     \E r \in Runs(form, tracker, interrupted, heard) :
       /\ IF r.raises THEN tracker' = ApplyTo(tracker, ActionExecutionRejected(form))
          ELSE Act(form, r.events)
       /\ missed' = IF tracker.loop # form THEN {}
                    ELSE missed \union IF interrupted THEN {"interrupted"} ELSE {}
  /\ UNCHANGED <<heard, turn, paused, messages>>

\* The custom action of a form fails: what it did is lost, but it counts as
\* executed.
FormFails(form) ==
  /\ Predicts /\ Predicted(form) /\ form \in Validating
  /\ Act(form, <<>>)
  /\ missed' = missed \union {"failed"}
  /\ UNCHANGED <<heard, turn, paused, messages>>

\* Any other action: it says something, sets a slot, or is
\* action_deactivate_loop.
RunOther(events) ==
  /\ Predicts /\ Predicted(OTHER_ACTION)
  /\ Act(OTHER_ACTION, events)
  /\ missed' = missed \union IF events # <<>> \/ Overlooked(OTHER_ACTION) THEN {"other"} ELSE {}
  /\ UNCHANGED <<heard, turn, paused, messages>>

Deactivation == <<ActiveLoop(NoName), SlotSet(REQUESTED_SLOT, NoName)>>
OtherResults == {<<>>, Deactivation} \union {<<SlotSet(s, "raw")>> : s \in Slots}

Listen ==
  /\ Predicts /\ Predicted(LISTEN)
  /\ Act(LISTEN, <<>>)
  /\ turn' = FALSE
  /\ missed' = missed \union IF Overlooked(LISTEN) THEN {"other"} ELSE {}
  /\ UNCHANGED <<heard, paused, messages>>

\* The circuit breaker.
Trip ==
  /\ turn /\ ~Predicts
  /\ turn' = FALSE
  /\ missed' = missed \union {"tripped"}
  /\ UNCHANGED <<tracker, heard, paused, messages>>

\* POST tracker/events with pause or resume
Takeover == ~turn /\ paused' = ~paused /\ UNCHANGED <<tracker, heard, turn, messages, missed>>

Next ==
  \/ \E message \in SUBSET Mappings : HandleMessage(message)
  \/ \E form \in Forms : RunForm(form) \/ FormFails(form)
  \/ \E events \in OtherResults : RunOther(events)
  \/ Listen
  \/ Trip
  \/ Takeover

Spec == Init /\ [][Next]_vars

-----------------------------------------------------------------------------
Causes == {"paused", "interrupted", "failed", "other", "tripped"}

\* The type invariant.
FormTracker ==
  [slots : [Slots \union {REQUESTED_SLOT} -> Values \union Slots],
   said : SUBSET (Slots \union {REQUESTED_SLOT}),
   loop : Forms \union {NoName}, rejected : BOOLEAN,
   latest : Forms \union {LISTEN, OTHER_ACTION}, vetoed : Forms \union {NoName},
   executed : 0 .. MaxPredictions]

TypeOK ==
  /\ tracker \in FormTracker
  /\ \A s \in Slots : tracker.slots[s] \in Values
  /\ Requested(tracker) \in Slots \union {NoName}
  /\ tracker.rejected => tracker.loop # NoName
  /\ heard \subseteq Mappings
  /\ turn \in BOOLEAN /\ paused \in BOOLEAN /\ (turn => ~paused)
  /\ messages \in 0 .. MaxMessages
  /\ missed \subseteq Causes

\* The form that ends in this step, by its own run.
Ends(form) ==
  /\ tracker'.latest = form /\ tracker'.loop = NoName
  /\ tracker'.executed = tracker.executed + 1
  /\ Requested(tracker') = NoName
  /\ tracker.loop = form \/ missed' = {}

\* A form whose custom action does not end it early ends only once all its
\* required slots are filled, whatever the policies did meanwhile.
SubmitsComplete ==
  [][\A form \in Forms \ Stopping : Ends(form) => Missing(form, tracker'.slots) = {}]_vars

\* forms.py:238 "If a custom action is available for validating the slots, we
\* call it to validate them": a form ends with slots its custom action has
\* accepted, if since its activation it was offered each message first and
\* none of its runs failed.
SubmitsValidated ==
  [][\A form \in Validating \ Stopping : Ends(form) /\ missed' = {} =>
       \A s \in RequiredOf(form) : tracker'.slots[s] = "valid"]_vars

\* The bot that listens while a form is active waits for a required slot of
\* this form that is empty, not for one of the form it was switched from, and
\* not for one that is filled, unless a message or a failed run got in between.
AsksForMissing ==
  ~turn /\ tracker.loop # NoName /\ ~tracker.rejected /\ missed \subseteq {"interrupted", "other"} =>
    Requested(tracker) \in Missing(tracker.loop, tracker.slots)

=============================================================================

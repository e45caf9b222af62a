--------------------------- MODULE DialogueStates ---------------------------
(***************************************************************************)
(* What policies see of a dialogue: the domain's states of a tracker        *)
(* (rasa/shared/core/domain.py), and the examples that a featurizer makes   *)
(* of a tracker for training (rasa/core/featurizers/tracker_featurizers.py).*)
(*                                                                         *)
(* A state is what was true before an action: the latest intent, the        *)
(* previous action, the active loop and the slots.  Policies that learn     *)
(* from stories are not to see the turns that only rules know: those are    *)
(* skipped, and their traces in later states covered up.                    *)
(*                                                                         *)
(* Messages have an intent and neither text nor entities that count; a slot *)
(* is one that influences the dialogue and has no initial value.            *)
(***************************************************************************)
EXTENDS Tracker

CONSTANT Slots   \* the slots of the domain

\* A rule says so if a slot or a loop must not be set.
SHOULD_NOT_BE_SET == "should_not_be_set"
Set(value) == value \notin {NoName, SHOULD_NOT_BE_SET}

\* The parts of a state, in the order of the JSON text that stands for it.
USER == "user"
PREVIOUS_ACTION == "prev_action"
ACTIVE_LOOP == "active_loop"
Features == {ACTIVE_LOOP, PREVIOUS_ACTION, USER} \union Slots
ASSUME SlotsAssumption == {ACTIVE_LOOP, PREVIOUS_ACTION, USER} \intersect Slots = {}
Rank(feature) ==
  CASE feature = ACTIVE_LOOP -> 1 [] feature = PREVIOUS_ACTION -> 2
    [] feature = USER -> 4 [] OTHER -> 3

\* An execution also has the mark that its turn is a rule's alone.
Executed(action, hide) ==
  [type |-> "action", name |-> action, time |-> 0, hide |-> hide]
SlotSet(slot, value) == [type |-> "slot", name |-> slot, time |-> 0, value |-> value]

Fresh ==
  [f \in DOMAIN Blank \union {"slots"} |-> IF f = "slots" THEN [s \in Slots |-> NoName] ELSE Blank[f]]

ApplyTo(state, e) ==
  IF e.type = "slot" THEN [state EXCEPT !.slots[e.name] = e.value] ELSE Apply(state, e)

\* update
UpdateDialogue(t, e) ==
  LET events == Append(t.events, e)
  IN  [events |-> events,
       state |-> IF e.type = "rewind"
                   THEN Through(AppliedEvents(events), ApplyTo, Fresh)
                   ELSE ApplyTo(t.state, e)]

UpdateDialogueWith(t, events) == Through(events, LAMBDA u, e : UpdateDialogue(u, e), t)

\* active_loop_name
ActiveLoopName(state) == IF Set(state.loop) THEN state.loop ELSE NoName

\* get_active_state
ActiveState(state) ==
  [f \in Features |->
     CASE f = USER -> state.latest_message.name
       [] f = PREVIOUS_ACTION -> state.latest_action
       [] f = ACTIVE_LOOP -> state.loop
       [] OTHER -> state.slots[f]]

\* generate_all_prior_trackers: the tracker before each action, with the mark
\* of that action, and the tracker after them all.
PriorTrackers(applied) ==
  LET Prior(state, hide) == <<[state |-> state, hide |-> hide]>>
      Step(acc, e) ==
        [state |-> ApplyTo(acc.state, e),
         prior |-> IF e.type = "action" THEN acc.prior \o Prior(acc.state, e.hide) ELSE acc.prior]
      Upto(end) == end.prior \o Prior(end.state, FALSE)
  IN  Upto(Through(applied, Step, [state |-> Fresh, prior |-> <<>>]))

\* states_for_tracker_history, of all turns.
StatesForTrackerHistory(applied) ==
  LET Seen(prior) == [i \in DOMAIN prior |-> ActiveState(prior[i].state)]
  IN  Seen(PriorTrackers(applied))

\* _remove_rule_only_features
WithoutRuleOnly(state, ruleOnly) ==
  [f \in Features |->
     IF f \in ruleOnly.slots \/ (f = ACTIVE_LOOP /\ state[f] \in ruleOnly.loops)
       THEN NoName ELSE state[f]]

\* _substitute_rule_only_user_input: only a listening bot has heard something new.
SubstituteUserInput(state, states) ==
  IF states = <<>> \/ state[PREVIOUS_ACTION] = LISTEN THEN state
  ELSE [state EXCEPT ![USER] = Last(states)[USER]]

\* Mistaken states_for_tracker_history: the action before a hidden turn is forgotten.
StatesWithoutRuleTurns_Forgetful(applied, ruleOnly) ==
  LET Step(acc, prior) ==
        LET state == SubstituteUserInput(
                       WithoutRuleOnly(ActiveState(prior.state), ruleOnly), acc.states)
        IN  IF prior.hide THEN acc ELSE [acc EXCEPT !.states = Append(@, state)]
  IN  Through(PriorTrackers(applied), Step, [states |-> <<>>]).states

\* states_for_tracker_history with ignore_rule_only_turns.  A follow-up action
\* and the listening after a loop stay on whichever side the turn before was.
StatesWithoutRuleTurns(applied, ruleOnly) ==
  LET Step(acc, prior) ==
        LET t == prior.state
            lastMl == IF acc.hidden THEN acc.lastMl ELSE t.latest_action
            hidden == IF t.followup = NoName /\ t.latest_action # ActiveLoopName(t)
                        THEN prior.hide ELSE acc.hidden
            state == SubstituteUserInput(WithoutRuleOnly(ActiveState(t), ruleOnly), acc.states)
            seen == IF lastMl = NoName THEN state ELSE [state EXCEPT ![PREVIOUS_ACTION] = lastMl]
        IN  [hidden |-> hidden, lastMl |-> lastMl,
             states |-> IF hidden THEN acc.states ELSE Append(acc.states, seen)]
  IN  Through(PriorTrackers(applied), Step,
              [hidden |-> FALSE, lastMl |-> NoName, states |-> <<>>]).states

\* slice_state_history
Slice(states, maxHistory) ==
  IF maxHistory = 0 \/ Len(states) <= maxHistory THEN states
  ELSE SubSeq(states, Len(states) - maxHistory + 1, Len(states))

\* The actions a training tracker teaches: but for one that a story, or the
\* mark of a rule's beginning, starts with.
Predictable(events, i) ==
  /\ events[i].type = "action"
  /\ \/ events[i].name = LISTEN
     \/ \E j \in 1 .. i - 1 : events[j].type \in {"user", "action"}

\* _extract_examples: the states before each action, and the action.
Examples(events, maxHistory) ==
  LET Of(applied, states) ==
        LET Before(i) == Cardinality({j \in 1 .. i : applied[j].type = "action"})
        IN  {[states |-> Slice(SubSeq(states, 1, Before(i)), maxHistory), action |-> applied[i].name] :
               i \in {j \in DOMAIN applied : Predictable(applied, j)}}
      Ofs(applied) == Of(applied, StatesForTrackerHistory(applied))
  IN  Ofs(AppliedEvents(events))

=============================================================================

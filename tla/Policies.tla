------------------------------ MODULE Policies ------------------------------
(***************************************************************************)
(* The policies that decide what the bot does next, and their training:     *)
(* the RulePolicy (rasa/core/policies/rule_policy.py), a MemoizationPolicy  *)
(* (memoization.py) and their ensemble (ensemble.py).                       *)
(*                                                                         *)
(* Rules and stories are turned into examples of states and actions.  The   *)
(* RulePolicy keeps those of the rules, tries them on all stories and       *)
(* rules, and refuses training data that contradict each other.  The        *)
(* MemoizationPolicy keeps those of the stories.  A conversation is then    *)
(* led by what the ensemble makes of the two.                               *)
(*                                                                         *)
(* Training and serving are two processes.  Policies that have to be        *)
(* learned, texts in place of intents, checkpoints and the augmentation of  *)
(* stories are left out.                                                    *)
(***************************************************************************)
EXTENDS DialogueStates, FiniteSets

CONSTANTS
  Intents,          \* what a user may say
  Forms,            \* the forms of the domain
  Returned,         \* the events an action, other than a form, may return
  DefaultActions,   \* DEFAULT_ACTION_MAPPINGS: the intents with an action of their own
  Width,            \* how long the JSON text of a name is
  Projects,         \* the training data and configurations to choose from
  MaxMessages,      \* a bound on the messages of a conversation
  MaxEvents         \* a bound on its events

FALLBACK == "action_default_fallback"
SNIPPET == "..."
ActionNames == DOMAIN Returned \union Forms

\* Confidences: nothing, core_fallback_threshold, and certainty.
None == 0
Threshold == 3
Certain == 10

\* What training data consist of.  A rule has conditions, may hold at the
\* start of a conversation only, and may leave open what comes after it.
Rule(conditions, starts, steps, waits) ==
  [conditions |-> conditions, starts |-> starts, steps |-> steps, waits |-> waits]

ASSUME PoliciesAssumption ==
  /\ {LISTEN, FALLBACK} \subseteq DOMAIN Returned /\ LISTEN \notin Forms
  /\ {NoName, SNIPPET} \intersect ActionNames = {}
  /\ DOMAIN DefaultActions \subseteq Intents
  /\ \A p \in Projects : p.maxHistory \in Nat /\ {p.fallback, p.augmented} \subseteq BOOLEAN
  /\ {MaxMessages, MaxEvents} \subseteq Nat

\* Listening returns nothing; the other actions set slots and revert messages.
ASSUME ReturnedAssumption ==
  /\ Returned[LISTEN] = {<<>>}
  /\ \A action \in DOMAIN Returned : \A events \in Returned[action] :
       /\ events \in Seq(ToSet(events))
       /\ \A e \in ToSet(events) :
            e = UserUtteranceReverted \/ \E slot \in Slots : e = SlotSet(slot, e.value)

\* What a rule or a story goes through, one by one.
IsStep(e) ==
  \/ \E intent \in Intents : e = UserUttered(intent, 0)
  \/ \E action \in ActionNames : e = Executed(action, FALSE)
  \/ \E loop \in Forms \union {NoName} : e = ActiveLoop(loop)
  \/ \E slot \in Slots : e = SlotSet(slot, e.value)
AreSteps(steps) == steps \in Seq(ToSet(steps)) /\ \A e \in ToSet(steps) : IsStep(e)

ASSUME ProjectsAssumption ==
  \A p \in Projects :
    /\ IsFiniteSet(p.rules) /\ \A r \in p.rules : AreSteps(r.conditions) /\ AreSteps(r.steps)
    /\ p.stories \in Seq(ToSet(p.stories)) /\ \A story \in ToSet(p.stories) : AreSteps(story)

VARIABLES
  project,   \* the training data and the configuration
  model,     \* what the policies have learned
  stage,     \* "training", "analyzing", "refused", "trained" or "serving"
  hash,      \* the order in which this process goes through a set
  dialogue   \* the conversation

vars == <<project, model, stage, hash, dialogue>>

-----------------------------------------------------------------------------
(* The training trackers.                                                  *)

\* explicit_events: the bot listens before each message, and at the end.
AddActionListen(events) ==
  IF events # <<>> /\ Is(Last(events), "action", LISTEN) THEN events
  ELSE Append(events, Executed(LISTEN, FALSE))

ExplicitEvents(steps) ==
  AddActionListen(Through(steps,
    LAMBDA done, e : Append(IF e.type = "user" THEN AddActionListen(done) ELSE done, e), <<>>))

\* In a rule, no slot and no loop means that there must be none (_process_step).
Explicitly(e) ==
  IF e.type = "slot" /\ e.value = NoName THEN [e EXCEPT !.value = SHOULD_NOT_BE_SET]
  ELSE IF Is(e, "active_loop", NoName) THEN [e EXCEPT !.name = SHOULD_NOT_BE_SET]
  ELSE e

\* RuleParser: the action "..." stands for whatever came before, or comes after.
RuleEvents(rule) ==
  LET Open(here) == IF here THEN <<Executed(SNIPPET, FALSE)>> ELSE <<>>
      steps == rule.conditions \o Open(~rule.starts) \o rule.steps \o Open(~rule.waits)
  IN  ExplicitEvents([i \in DOMAIN steps |-> Explicitly(steps[i])])

RuleTrackers(p) == {RuleEvents(r) : r \in p.rules}
StoryTrackers(p) == [i \in DOMAIN p.stories |-> ExplicitEvents(p.stories[i])]

ExamplesOf(trackers, maxHistory) == UNION {Examples(t, maxHistory) : t \in trackers}

-----------------------------------------------------------------------------
(* Lookups.                                                                *)

\* _create_lookup_from_states: a key with two actions is dropped.
LookupFromStates(examples) ==
  LET Taught(key) == {x.action : x \in {y \in examples : y.states = key}}
      keys == {key \in {x.states : x \in examples} \ {<<>>} : Cardinality(Taught(key)) = 1}
  IN  [key \in keys |-> CHOOSE action \in Taught(key) : TRUE]

\* RulePolicy._create_feature_key: the states since the last "...".
FeatureKey(states) ==
  LET i == SelectLastInSeq(states, LAMBDA s : s[PREVIOUS_ACTION] = SNIPPET)
  IN  SubSeq(states, i + 1, Len(states))

\* _states_for_unhappy_loop_predictions: what the bot did before, and the state.
UnhappyKey(states) ==
  LET n == Len(states)
      Did(s) == [f \in Features |-> IF f = PREVIOUS_ACTION THEN s[f] ELSE NoName]
  IN  IF n = 1 \/ states[n - 1][PREVIOUS_ACTION] = NoName THEN <<states[n]>>
      ELSE <<Did(states[n - 1]), states[n]>>

LOOP_WAS_INTERRUPTED == "loop_was_interrupted"
DO_NOT_PREDICT_LOOP_ACTION == "do_not_predict_loop_action"

\* Mistaken _create_loop_unhappy_lookup_from_states: no loop is told.
LoopUnhappyLookup_Untold(examples) ==
  LET Key(x) == FeatureKey(UnhappyKey(x.states))
      Against(x) == /\ Set(Last(x.states)[ACTIVE_LOOP])
                    /\ Last(x.states)[PREVIOUS_ACTION] # LISTEN
                    /\ x.action # Last(x.states)[ACTIVE_LOOP]
  IN  [key \in {Key(x) : x \in {y \in examples : Against(y)}} \ {<<>>} |-> DO_NOT_PREDICT_LOOP_ACTION]

\* _create_loop_unhappy_lookup_from_states: a loop goes on right after a
\* message, or something else than the loop comes after an action.
LoopUnhappyLookup(examples) ==
  LET Key(x) == FeatureKey(UnhappyKey(x.states))
      In(x, listening, resumes) ==
        LET s == Last(x.states)
        IN  /\ Set(s[ACTIVE_LOOP])
            /\ (s[PREVIOUS_ACTION] = LISTEN) = listening
            /\ (x.action = s[ACTIVE_LOOP]) = resumes
      Keys(listening, resumes) ==
        {Key(x) : x \in {y \in examples : In(y, listening, resumes)}} \ {<<>>}
  IN  [key \in Keys(TRUE, TRUE) \union Keys(FALSE, FALSE) |->
         IF key \in Keys(TRUE, TRUE) THEN LOOP_WAS_INTERRUPTED ELSE DO_NOT_PREDICT_LOOP_ACTION]

\* _get_slots_loops_from_states, _find_rule_only_slots_loops
RuleOnly(ruleExamples, storyExamples) ==
  LET States(examples) == UNION {ToSet(x.states) : x \in examples}
      SlotsOf(examples) == {slot \in Slots : \E s \in States(examples) : s[slot] # NoName}
      LoopsOf(examples) == {s[ACTIVE_LOOP] : s \in States(examples)} \ {NoName, SHOULD_NOT_BE_SET}
  IN  [slots |-> SlotsOf(ruleExamples) \ SlotsOf(storyExamples),
       loops |-> LoopsOf(ruleExamples) \ LoopsOf(storyExamples)]

-----------------------------------------------------------------------------
(* RulePolicy: prediction.                                                  *)

\* _does_rule_match_state
MatchesState(rule, state) ==
  \A f \in Features :
    CASE rule[f] = NoName -> TRUE
      [] rule[f] = SHOULD_NOT_BE_SET -> ~Set(state[f])
      [] OTHER -> state[f] = rule[f]

\* _is_rule_applicable, at every turn back from the last: only the beginning
\* of a conversation matches that of a rule.
Applicable(key, states) ==
  \A i \in 0 .. Len(states) - 1 :
    \/ i >= Len(key)
    \/ LET rule == key[Len(key) - i]
           state == states[Len(states) - i]
       IN  IF NoName \in {rule[PREVIOUS_ACTION], state[PREVIOUS_ACTION]}
             THEN rule[PREVIOUS_ACTION] = state[PREVIOUS_ACTION]
             ELSE MatchesState(rule, state)

\* _get_possible_keys
PossibleKeys(lookup, states) == {key \in DOMAIN lookup : Applicable(key, states)}

\* The length of a key, as a JSON text.
KeyLength(key) ==
  LET OfState(s) == MapThenSumSet(LAMBDA f : Width[f] + Width[s[f]],
                                  {f \in Features : s[f] # NoName})
  IN  MapThenSumSet(LAMBDA i : OfState(key[i]), DOMAIN key)

\* max(rule_keys, key=len): of several as long, the first of the set.
BestKeys(keys) == {key \in keys : \A other \in keys : KeyLength(other) <= KeyLength(key)}
Best(keys, order) ==
  LET First(best) == IF best = <<>> THEN <<>> ELSE IF order = "forwards" THEN Head(best) ELSE Last(best)
  IN  First(SetToSeq(BestKeys(keys)))

\* Where a prediction comes from: a rule, or the states no rule is for; an
\* intent with an action of its own; a loop, or the listening after it.
Source(kind, key, name) == [kind |-> kind, key |-> key, name |-> name]
FromRule(key) == Source("rule", key, NoName)

Predicted(action, source) ==
  [action |-> action, confidence |-> Certain, source |-> source,
   noUser |-> FALSE, interrupted |-> FALSE, hide |-> FALSE]

\* _find_action_from_rules, for intents.  An active loop goes on instead of
\* listening, unless the training data show that it does not.
FindActionFromRules(lookup, t, order) ==
  LET loop == ActiveLoopName(t.state)
      default == IF lookup.fallback THEN FALLBACK ELSE LISTEN
      Given(states, best, conditions) ==
        LET found == IF best = <<>> THEN NoName ELSE lookup.rules[best]
            generalListen == /\ loop # NoName /\ found = LISTEN
                             /\ ~Set(Last(best)[ACTIVE_LOOP])
            goesOn == generalListen /\ DO_NOT_PREDICT_LOOP_ACTION \notin conditions
            action == IF goesOn THEN loop ELSE IF generalListen THEN NoName ELSE found
        IN  [Predicted(IF action = NoName THEN default ELSE action,
                       FromRule(IF best # <<>> THEN best ELSE FeatureKey(states)))
               EXCEPT !.confidence = IF action # NoName THEN @ ELSE IF lookup.fallback THEN Threshold ELSE None,
                      !.interrupted = loop # NoName /\ ~goesOn /\ LOOP_WAS_INTERRUPTED \in conditions]
      Of(states) == Given(states, Best(PossibleKeys(lookup.rules, states), order),
                          {lookup.unhappy[key] : key \in PossibleKeys(lookup.unhappy, states)})
  IN  Of(StatesForTrackerHistory(AppliedEvents(t.events)))

\* _find_action_from_loop_happy_path, of an active loop that has not rejected.
LoopHappyPath(t) ==
  LET loop == ActiveLoopName(t.state)
      p == IF t.state.latest_action = loop THEN Predicted(LISTEN, Source("listen", <<>>, loop))
           ELSE Predicted(loop, Source("loop", <<>>, loop))
  IN  [p EXCEPT !.noUser = TRUE]

\* _predict: an intent with an action of its own, the active loop, the rules.
RulePredict(lookup, t, order) ==
  LET intent == t.state.latest_message.name
  IN  IF t.state.latest_action = LISTEN /\ intent \in DOMAIN DefaultActions
        THEN Predicted(DefaultActions[intent], Source("default", <<>>, intent))
      ELSE IF ActiveLoopName(t.state) # NoName /\ ~t.state.rejected
        THEN LoopHappyPath(t)
      ELSE FindActionFromRules(lookup, t, order)

-----------------------------------------------------------------------------
(* RulePolicy: training.                                                    *)

\* _check_rule_restriction
AllowedUserInputs(tracker) == Len(SelectSeq(tracker, LAMBDA e : e.type = "user")) <= 1

\* create_action_fingerprints: what comes after an action, in any rule, up to
\* the next action or message.
Following(trackers, action) ==
  UNION {{t[i] : i \in {j \in DOMAIN t :
            /\ t[j].type \notin {"user", "action"}
            /\ \E k \in 1 .. j - 1 : /\ Is(t[k], "action", action)
                                     /\ \A l \in k + 1 .. j : t[l].type \notin {"user", "action"}}} :
         t \in trackers}

\* _check_for_incomplete_rules: after an action, the state has the slots and
\* one of the loops that the action sets in other rules.
Complete(trackers, tracker) ==
  LET AsSet(state, following) ==
        LET Names(type) == {e.name : e \in {f \in following : f.type = type}}
        IN  /\ \A slot \in Names("slot") : state[slot] # NoName
            /\ Names("active_loop") # {} => state[ACTIVE_LOOP] \in Names("active_loop")
      Throughout(states) ==
        \A i \in DOMAIN states :
          \/ SNIPPET \in {states[j][PREVIOUS_ACTION] : j \in {i, i + 1} \intersect DOMAIN states}
          \/ AsSet(states[i], Following(trackers, states[i][PREVIOUS_ACTION]))
  IN  Throughout(StatesForTrackerHistory(AppliedEvents(tracker)))

\* The text of a state, but for its end, begins the text of another.
StateBegins(state, other) ==
  \A f \in Features :
    (\E g \in Features : state[g] # NoName /\ Rank(f) <= Rank(g)) => other[f] = state[f]

\* source.startswith(prediction_source[:-2])
Begins(key, other) ==
  /\ Len(key) <= Len(other)
  /\ \A i \in 1 .. Len(key) - 1 : key[i] = other[i]
  /\ StateBegins(Last(key), other[Len(key)])

\* _should_delete: a story may do more after an action a rule ends with, if
\* some other rule does.
ShouldDelete(rules, predicted, isRule) ==
  LET key == predicted.source.key
  IN  /\ ~isRule /\ predicted.source.kind = "rule" /\ predicted.action = LISTEN
      /\ Cardinality({i \in DOMAIN key : key[i][PREVIOUS_ACTION] # NoName}) <= 1
      /\ \E other \in DOMAIN rules : other # key /\ Begins(key, other)

\* _predict_next_action: that nothing is predicted is of no account in a story.
PredictNextAction(lookup, t, isRule, order) ==
  LET OfAccount(p) == IF p.confidence = Certain \/ isRule THEN p ELSE [p EXCEPT !.action = NoName]
  IN  OfAccount(RulePredict(lookup, t, order))

\* _predicted_action_name: a loop gives way to what the training data say.
PredictedActionName(lookup, t, gold, isRule, order) ==
  LET loop == ActiveLoopName(t.state)
      Again(after) == [t |-> after, by |-> PredictNextAction(lookup, after, isRule, order)]
      Unless(first) ==
        IF loop # NoName /\ first.action = loop /\ gold # loop
          THEN Again(UpdateDialogue(t, ActionExecutionRejected(loop)))
          ELSE [t |-> t, by |-> first]
  IN  Unless(PredictNextAction(lookup, t, isRule, order))

\* _collect_sources: which action a source should lead to.
Collected(p, gold) ==
  <<p.source, IF p.source.kind = "rule" THEN gold ELSE p.action>>

\* Mistaken _check_prediction: contradictions are looked for in rules only.
CheckPrediction_RulesOnly(run, p, gold, isRule, sources) ==
  LET differs == p.action \notin {NoName, gold}
  IN  [run EXCEPT
         !.used = @ \union (IF ~isRule /\ p.action = gold THEN {p.source} ELSE {}),
         !.contradicts = @ \/ (differs /\ isRule /\ <<p.source, gold>> \notin sources)]

\* _check_prediction, and the source used in a story.
CheckPrediction(run, p, gold, isRule, sources) ==
  LET used == IF ~isRule /\ p.action = gold THEN {p.source} ELSE {}
      differs == p.action \notin {NoName, gold}
      deletes == differs /\ ShouldDelete(run.lookup.rules, p, isRule)
      rules == run.lookup.rules
  IN  [run EXCEPT
         !.used = @ \union used,
         !.lookup.rules = IF deletes THEN [key \in DOMAIN rules \ {p.source.key} |-> rules[key]] ELSE @,
         !.contradicts = @ \/ (differs /\ ~deletes
                               /\ \E action \in ActionNames : action # gold /\ <<p.source, action>> \in sources)]

\* _run_prediction_on_trackers, for one: the first action, and that after a
\* "...", cannot be predicted.
RunPrediction(run, tracker, isRule, sources, order) ==
  LET Checked(r, e, p) == [CheckPrediction(r, p.by, e.name, isRule, sources)
                             EXCEPT !.collected = @ \union {Collected(p.by, e.name)}, !.t = p.t]
      Predicting(r, e) ==
        IF e.type # "action" THEN r
        ELSE IF r.unpredictable \/ e.name = SNIPPET THEN [r EXCEPT !.unpredictable = e.name = SNIPPET]
        ELSE Checked(r, e, PredictedActionName(r.lookup, r.t, e.name, isRule, order))
      Updated(r, e) == [r EXCEPT !.t = UpdateDialogue(@, e)]
      Step(r, e) == Updated(Predicting(r, e), e)
  IN  Through(AppliedEvents(tracker), Step,
              [run EXCEPT !.t = [events |-> <<>>, state |-> Fresh], !.unpredictable = TRUE])

\* And for all of them, each with whether it is a rule.
RunPredictions(trackers, lookup, sources, order) ==
  Through(trackers, LAMBDA run, tracker : RunPrediction(run, tracker.events, tracker.isRule, sources, order),
          [t |-> [events |-> <<>>, state |-> Fresh], unpredictable |-> TRUE, lookup |-> lookup,
           collected |-> {}, used |-> {}, contradicts |-> FALSE])

\* The sources that no story used, of the rules and of RulePolicy itself.
NotInStories(sources, used) ==
  ({s[1] : s \in sources}
     \union {Source("default", <<>>, intent) : intent \in DOMAIN DefaultActions}
     \union {Source(kind, <<>>, form) : kind \in {"loop", "listen"}, form \in Forms}) \ used

\* _analyze_rules: on the rules for their sources, then on stories and rules.
AnalyzeRules(p, lookup, order) ==
  LET Told(trackers, isRule) == [i \in DOMAIN trackers |-> [events |-> trackers[i], isRule |-> isRule]]
      rules == Told(SetToSeq(RuleTrackers(p)), TRUE)
      sources == RunPredictions(rules, lookup, {}, order).collected
      Result(end) == [rules |-> end.lookup.rules, contradicts |-> end.contradicts,
                      notInStories |-> NotInStories(sources, end.used)]
  IN  Result(RunPredictions(Told(StoryTrackers(p), FALSE) \o rules, lookup, sources, order))

\* _create_lookup_from_trackers
LookupFromTrackers(p) ==
  LET Closed(rules) == [key \in {k \in DOMAIN rules : rules[k] # SNIPPET} |-> rules[key]]
      Lookup(ruleExamples, storyExamples) ==
        [rules |-> Closed(LookupFromStates({[x EXCEPT !.states = FeatureKey(@)] : x \in ruleExamples})),
         unhappy |-> LoopUnhappyLookup(ruleExamples \union storyExamples),
         ruleOnly |-> RuleOnly(ruleExamples, storyExamples),
         fallback |-> p.fallback]
  IN  Lookup(ExamplesOf(RuleTrackers(p), 0), ExamplesOf(ToSet(StoryTrackers(p)), 0))

\* _check_rule_restriction, _check_for_incomplete_rules
Restricted(p) ==
  \A t \in RuleTrackers(p) : AllowedUserInputs(t) /\ Complete(RuleTrackers(p), t)

-----------------------------------------------------------------------------
(* MemoizationPolicy and AugmentedMemoizationPolicy: prediction.            *)

\* _prediction_states
MemoStates(m, applied) ==
  Slice(StatesWithoutRuleTurns(applied, m.lookup.ruleOnly), project.maxHistory)

\* _trim_tracker_by_max_history: the first event that may be gone back to.
TrimmedTo(applied) ==
  LET ActionsFrom(i) == Cardinality({j \in i .. Len(applied) : applied[j].type = "action"})
      stops == {i \in DOMAIN applied : /\ Is(applied[i], "action", LISTEN)
                                       /\ ActionsFrom(i) > project.maxHistory}
  IN  IF project.maxHistory = 0 \/ stops = {} THEN 1 ELSE Max(stops)

\* recall, and _recall_using_truncation: the events from some action on are
\* what is remembered.
Recall(m, applied) ==
  LET From(i) == MemoStates(m, AppliedEvents(SubSeq(applied, i, Len(applied))))
      hits == {i \in TrimmedTo(applied) .. Len(applied) :
                 applied[i].type = "action" /\ From(i) \in DOMAIN m.memo}
  IN  IF MemoStates(m, applied) \in DOMAIN m.memo THEN m.memo[MemoStates(m, applied)]
      ELSE IF project.augmented /\ hits # {} THEN m.memo[From(Min(hits))]
      ELSE NoName

MemoPredict(m, t) ==
  LET Recalled(action) ==
        IF action # NoName THEN Predicted(action, FromRule(<<>>))
        ELSE [Predicted(LISTEN, FromRule(<<>>)) EXCEPT !.confidence = None]
  IN  Recalled(Recall(m, AppliedEvents(t.events)))

-----------------------------------------------------------------------------
(* The ensemble.                                                           *)

\* The action that _best_policy_prediction takes for rejected.
RejectedAction(t) ==
  LET i == SelectLastInSeq(t.events, LAMBDA e : e.type \in {"rejected", "action"})
  IN  IF i # 0 /\ t.events[i].type = "rejected" THEN t.events[i].name ELSE NoName

\* With no probability left, the first action of the domain has the most.
Vetoed(p, t) ==
  IF p.action = RejectedAction(t) THEN [p EXCEPT !.action = LISTEN, !.confidence = None] ELSE p

\* _pick_best_policy: what does without the user, the higher confidence, the
\* higher priority, which is the RulePolicy's; the events of all count.
Combined(rule, memo) ==
  IF ~rule.noUser /\ memo.confidence > rule.confidence
    THEN [memo EXCEPT !.interrupted = rule.interrupted] ELSE rule

\* _predict_next_with_tracker: a follow-up action needs no policy.
Prediction(t) ==
  LET Marked(rule) == [rule EXCEPT !.hide = rule.source \in model.notInStories]
  IN  IF t.state.followup # NoName THEN Predicted(t.state.followup, FromRule(<<>>))
      ELSE Combined(Vetoed(Marked(RulePredict(model.lookup, t, hash)), t),
                    Vetoed(MemoPredict(model, t), t))

-----------------------------------------------------------------------------
(* Training, loading the model, and a conversation.                         *)

Orders == {"forwards", "backwards"}

Init ==
  /\ project \in Projects
  /\ hash \in Orders
  /\ stage = "training" /\ model = <<>>
  /\ dialogue = [events |-> <<>>, state |-> Fresh]

\* MemoizationPolicy.train, and RulePolicy.train up to the lookups.
Train ==
  /\ stage = "training"
  /\ stage' = IF Restricted(project) THEN "analyzing" ELSE "refused"
  /\ model' = [lookup |-> LookupFromTrackers(project),
               memo |-> LookupFromStates(ExamplesOf(ToSet(StoryTrackers(project)), project.maxHistory))]
  /\ UNCHANGED <<project, hash, dialogue>>

\* The rest of RulePolicy.train: the rules are tried on rules and stories.
Analyze ==
  /\ stage = "analyzing"
  /\ \E analysis \in {AnalyzeRules(project, model.lookup, hash)} :
       /\ stage' = IF analysis.contradicts THEN "refused" ELSE "trained"
       /\ model' = [lookup |-> [model.lookup EXCEPT !.rules = analysis.rules],
                    memo |-> model.memo, notInStories |-> analysis.notInStories]
  /\ UNCHANGED <<project, hash, dialogue>>

\* Another process loads the model; a conversation begins.
Load ==
  /\ stage = "trained" /\ stage' = "serving"
  /\ hash' \in Orders
  /\ dialogue' = UpdateDialogue(dialogue, Executed(LISTEN, FALSE))
  /\ UNCHANGED <<project, model>>

Waiting == Is(Last(dialogue.events), "action", LISTEN)
Acting == stage = "serving" /\ ~Waiting

\* _handle_message_with_tracker
Say(intent) ==
  /\ stage = "serving" /\ Waiting
  /\ Len(SelectSeq(dialogue.events, LAMBDA e : e.type = "user")) < MaxMessages
  /\ dialogue' = UpdateDialogue(dialogue, UserUttered(intent, 0))
  /\ UNCHANGED <<project, model, stage, hash>>

\* What a form may do: begin, ask, end.
FormReturns(form) ==
  IF dialogue.state.loop = form THEN {<<>>, <<ActiveLoop(NoName)>>}
  ELSE {<<ActiveLoop(form)>>, <<ActiveLoop(form), ActiveLoop(NoName)>>}

\* A form that waits for an answer rejects if it gets none.
MayReject(p) ==
  /\ p.action \in Forms /\ p.action = dialogue.state.loop
  /\ dialogue.state.latest_action = LISTEN /\ ~p.interrupted

\* A round of _run_prediction_loop.  An action the domain does not know raises.
RunAction ==
  /\ Acting /\ Len(dialogue.events) < MaxEvents
  /\ \E p \in {q \in {Prediction(dialogue)} : q.action \in ActionNames} :
       \/ \E events \in IF p.action \in Forms THEN FormReturns(p.action) ELSE Returned[p.action] :
            dialogue' = UpdateDialogueWith(dialogue, <<Executed(p.action, p.hide)>> \o events)
       \/ /\ MayReject(p)
          /\ dialogue' = UpdateDialogue(dialogue, ActionExecutionRejected(p.action))
  /\ UNCHANGED <<project, model, stage, hash>>

Next == Train \/ Analyze \/ Load \/ RunAction \/ \E intent \in Intents : Say(intent)

Spec == Init /\ [][Next]_vars

-----------------------------------------------------------------------------
(* Properties.                                                             *)

\* The dialogue as a story would tell it.
AsStory(events) ==
  LET told == Without({"rejected"}, AppliedEvents(events))
  IN  [i \in DOMAIN told |-> IF told[i].type = "action" THEN [told[i] EXCEPT !.hide = FALSE] ELSE told[i]]

\* What is left of the stories, and the dialogue has come to the action at a
\* position of one.
Told == {AppliedEvents(t) : t \in ToSet(StoryTrackers(project))}
At(story, k) ==
  /\ Predictable(story, k)
  /\ AsStory(dialogue.events) = SubSeq(story, 1, k - 1)

\* No other action follows, in a story, what the MemoizationPolicy sees.
Remembered(story, k) ==
  LET states == StatesForTrackerHistory(SubSeq(story, 1, k - 1))
  IN  Slice(states, project.maxHistory) \in DOMAIN model.memo

\* Two rules as long apply: which one is taken depends on the process.
Tied ==
  LET states == StatesForTrackerHistory(AppliedEvents(dialogue.events))
  IN  \E first, second \in BestKeys(PossibleKeys(model.lookup.rules, states)) :
        model.lookup.rules[first] # model.lookup.rules[second]

\* A dialogue that goes like a story is continued like it, whatever the rules
\* say besides: the contradictions between rules and stories were found, and
\* what policies see when serving is what they saw when trained, though forms
\* ran on and were undone.  An active form is asked first.
KeepsToStories ==
  Acting => \A story \in Told : \A k \in DOMAIN story :
    At(story, k) /\ Remembered(story, k) /\ ~Tied =>
      LET asked == {dialogue.state.loop} \ (IF dialogue.state.rejected THEN {dialogue.state.loop}
                                           ELSE {NoName, SHOULD_NOT_BE_SET})
      IN  Prediction(dialogue).action \in {story[k].name} \union asked

\* A form that a story goes on with right after an answer to something else
\* is told so, and will not take that answer for its own.
ResumesUnvalidated ==
  Acting => \A story \in Told : \A k \in DOMAIN story :
    At(story, k) /\ story[k].name = ActiveLoopName(dialogue.state)
      /\ dialogue.state.latest_action = LISTEN /\ dialogue.state.rejected =>
        Prediction(dialogue).interrupted

Actions(applied) == {i \in DOMAIN applied : applied[i].type = "action"}

\* A message that a rule's action answered first.
TakenByRules(applied, u) ==
  \E i \in Actions(applied) :
    i > u /\ applied[i].hide /\ Actions(applied) \intersect (u + 1 .. i - 1) = {}

WithoutRuleTurns(applied) ==
  LET Kept(i) ==
        CASE applied[i].type = "action" -> ~applied[i].hide
          [] applied[i].type = "user" -> ~TakenByRules(applied, i)
          [] OTHER -> TRUE
      Step(kept, i) == IF Kept(i) THEN Append(kept, applied[i]) ELSE kept
  IN  Through([i \in DOMAIN applied |-> i], Step, <<>>)

\* A listening that only rules know of ends a turn that only rules know of.
ListensWithRules(applied) ==
  \A l \in Actions(applied) : applied[l].name = LISTEN /\ applied[l].hide =>
    \E u \in 1 .. l : /\ applied[u].type = "user"
                      /\ \A i \in Actions(applied) \intersect (u .. l - 1) :
                           applied[i].hide /\ applied[i].name # LISTEN

\* What rules alone did leaves no trace in what policies that learn from stories
\* see, be it a whole turn or a part of one: neither their actions, nor a message
\* that they were first to answer.  Forms are another matter.
RuleTurnsUnseen ==
  LET applied == AppliedEvents(dialogue.events)
  IN  Acting /\ LoopNames(applied) = {} /\ ListensWithRules(applied) =>
        StatesWithoutRuleTurns(applied, model.lookup.ruleOnly)
          = StatesWithoutRuleTurns(WithoutRuleTurns(applied), model.lookup.ruleOnly)

=============================================================================

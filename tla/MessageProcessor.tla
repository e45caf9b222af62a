-------------------------- MODULE MessageProcessor --------------------------
(***************************************************************************)
(* The message processor (rasa/core/processor.py) at work on one            *)
(* conversation, whose lock it holds: a turn restores the tracker, starts a *)
(* session if need be, logs the message, lets the policies choose actions   *)
(* and runs them until the bot listens again, and saves the tracker.        *)
(*                                                                         *)
(* What the policies choose and what an action returns is left open, within *)
(* the limits the code sets: any action but the one just rejected, any of   *)
(* the event lists its kind of action can return.                           *)
(***************************************************************************)
EXTENDS Tracker

CONSTANTS
  Assistants,      \* the assistants considered
  Replays          \* the tracker store restores by recreate_from_dialogue

RESTART == "action_restart"
BACK == "action_back"
FALLBACK == "action_default_fallback"
DefaultActions == {LISTEN, SESSION_START, RESTART, BACK, FALLBACK}
RESTART_INTENT == "restart"
Intents == {"greet", RESTART_INTENT}

\* No custom action or form takes the place of a default action, but for the
\* session start (customSessionStart).
ASSUME AssistantsAssumption ==
  /\ Replays \in BOOLEAN
  /\ Intents \subseteq STRING
  /\ \A a \in Assistants :
       /\ a.maxPredictions \in Nat \ {0}
       /\ {a.expiry, a.maxTime, a.maxRequests, a.maxEvents} \subseteq Nat
       /\ a.custom \union a.forms \union a.builtin \union a.rejecting \subseteq STRING
       /\ (a.custom \union a.forms) \intersect DefaultActions = {}
       /\ a.returned \subseteq Seq(TrackerEvent)
       /\ a.customSessionStart \in BOOLEAN

VARIABLES
  assistant,  \* the assistant that is run
  now,        \* time.time(), in ticks
  stored,     \* the conversation's events in the tracker store
  turn,       \* "idle", or "loop" in the prediction loop
  tracker,    \* the tracker of the running turn
  goOn,       \* should_predict_another_action, in the prediction loop
  requests,   \* the requests begun so far, bounded by the assistant's maxRequests
  began       \* history: the index of the message the turn is about

vars == <<assistant, now, stored, turn, tracker, goOn, requests, began>>

-----------------------------------------------------------------------------
(* The assistant: its domain, its action server and its configuration.     *)

Custom == assistant.custom        \* actions of the action server, and responses
Forms == assistant.forms
Builtin == assistant.builtin      \* the default actions the policies may choose
Returned == assistant.returned    \* the event lists a custom action may return
Rejecting == assistant.rejecting  \* the custom actions that may raise a rejection
Expiry == assistant.expiry        \* session_expiration_time, in ticks; 0 for none
SessionStartIsCustom == assistant.customSessionStart
MaxPredictions == assistant.maxPredictions   \* max_number_of_predictions

\* Bounds: on the clock, the requests, and the events a turn may add.
MaxTime == assistant.maxTime
MaxRequests == assistant.maxRequests
MaxEvents == assistant.maxEvents

Actions == {LISTEN} \union Custom \union Forms \union Builtin

-----------------------------------------------------------------------------
(* The conditions of the code.                                             *)

\* What the tracker store makes of the stored events.
Restore(events) == IF Replays THEN RecreateFromDialogue(events) ELSE FromEvents(events)

\* Mistaken _has_session_expired: measures from the first message.
SessionExpired_First(events) ==
  LET applied == AppliedEvents(events)
      i == SelectInSeq(applied, LAMBDA e : e.type = "user")
  IN  Expiry > 0 /\ i > 0 /\ now - applied[i].time > Expiry

\* Whether what the user last said was older than session_expiration_time:
\* get_last_event_for looks at the applied events.
ExpiredAt(events, time) ==
  LET applied == AppliedEvents(events)
      i == LastOf("user", applied)
  IN  Expiry > 0 /\ i > 0 /\ time - applied[i].time > Expiry

\* _has_session_expired
SessionExpired(events) == ExpiredAt(events, now)

NeedsSession(events) == AppliedEvents(events) = <<>> \/ SessionExpired(events)

\* Mistaken _should_handle_message: ignores the pause.
ShouldHandle_Always(state) == TRUE

\* _should_handle_message
ShouldHandle(state) == ~state.paused \/ state.latest_message.name = RESTART_INTENT

\* should_predict_another_action
PredictAnother(action) == action \notin {LISTEN, SESSION_START}

\* The executions since the bot last listened or started a session.
ExecutedSinceListening(events) ==
  LET i == SelectLastInSeq(events, LAMBDA e : e \in {ActionExecuted(LISTEN), ActionExecuted(SESSION_START)})
  IN  Cardinality({j \in i + 1 .. Len(events) : events[j].type = "action"})

\* Mistaken is_action_limit_reached: one too many.
LimitReached_OffByOne(t) ==
  /\ ExecutedSinceListening(t.events) > MaxPredictions
  /\ PredictAnother(t.state.latest_action)

\* Mistaken is_action_limit_reached: never trips.
LimitReached_Never(t) == FALSE

\* is_action_limit_reached
LimitReached(t) ==
  /\ ExecutedSinceListening(t.events) >= MaxPredictions
  /\ PredictAnother(t.state.latest_action)

\* The policy ensemble gives an action that was just rejected no confidence.
JustRejected(events) ==
  LET i == SelectLastInSeq(events, LAMBDA e : e.type \in {"action", "rejected"})
  IN  IF i > 0 /\ events[i].type = "rejected" THEN {events[i].name} ELSE {}

\* _predict_next_with_tracker: a follow-up action the domain knows, or the
\* choice of the policies.
Predictable(t) ==
  IF t.state.followup \in Actions \union {SESSION_START}
    THEN {t.state.followup}
    ELSE Actions \ JustRejected(t.events)

-----------------------------------------------------------------------------
(* Running an action.                                                      *)

\* The event lists run() may return.  An exception counts as an empty list.
Results(action, state) ==
  CASE action = LISTEN -> {<<>>}
    [] action = SESSION_START ->
         {<<SessionStarted, ActionExecuted(LISTEN)>>}
           \union IF SessionStartIsCustom THEN {<<>>} ELSE {}
    [] action = RESTART -> {<<Restarted>>}
    [] action = BACK -> {<<UserUtteranceReverted, UserUtteranceReverted>>}
    [] action = FALLBACK -> {<<UserUtteranceReverted>>}
    [] action \in Forms ->
         LET start == IF state.loop = action THEN <<>> ELSE <<ActiveLoop(action)>>
         IN  {<<>>, start, Append(start, ActiveLoop(NoName)),
              Append(start, ActionExecutionRejected(action))}
    [] OTHER -> {<<>>} \union Returned

\* A form raises a rejection if it finds nothing in an answer to it; the
\* action server may answer with one to any action.
MayReject(action, state) ==
  \/ action \in Rejecting
  \/ action \in Forms /\ state.loop = action /\ state.latest_action = LISTEN

\* _log_action_on_tracker: an action whose own events reject it is not logged.
Logged(action, result) ==
  IF \E e \in ToSet(result) : e.type = "rejected"
    THEN result ELSE <<ActionExecuted(action)>> \o result

\* The trackers _run_action may leave behind.
AfterAction(t, action) ==
  {UpdateWithEvents(t, Logged(action, result)) : result \in Results(action, t.state)}
    \union IF MayReject(action, t.state)
             THEN {Update(t, ActionExecutionRejected(action))} ELSE {}

\* _update_tracker_session
AfterSessionUpdate(t) ==
  IF NeedsSession(t.events) THEN AfterAction(t, SESSION_START) ELSE {t}

-----------------------------------------------------------------------------
Init ==
  /\ assistant \in Assistants
  /\ now = 0
  /\ stored = <<>>
  /\ turn = "idle"
  /\ tracker = NewTracker
  /\ goOn = FALSE
  /\ requests = 0
  /\ began = 0

Begin ==
  /\ turn = "idle"
  /\ requests < MaxRequests
  /\ requests' = requests + 1
  /\ UNCHANGED assistant

\* The trackers a request of the conversation may start to work on.
Fetched == AfterSessionUpdate(Restore(stored))

\* handle_message and trigger_external_user_uttered, up to the loop.
HandleMessage(intent) ==
  /\ Begin
  /\ \E t \in Fetched : /\ tracker' = Update(t, UserUttered(intent, now))
                        /\ began' = Len(t.events) + 1
  /\ turn' = "loop"
  /\ goOn' = TRUE
  /\ UNCHANGED <<now, stored>>

KeepsPredicting == turn = "loop" /\ goOn /\ ShouldHandle(tracker.state)

\* A round of _run_prediction_loop.
RunAction(action) ==
  /\ KeepsPredicting
  /\ ~LimitReached(tracker)
  /\ action \in Predictable(tracker)
  /\ Len(tracker.events) < began + MaxEvents
  /\ tracker' \in AfterAction([tracker EXCEPT !.state.followup = NoName], action)
  /\ goOn' = PredictAnother(action)
  /\ UNCHANGED <<assistant, now, stored, turn, requests, began>>

EndTurn(events) ==
  /\ turn' = "idle"
  /\ stored' = events
  /\ tracker' = NewTracker
  /\ goOn' = FALSE
  /\ began' = 0
  /\ UNCHANGED <<assistant, now, requests>>

\* The circuit breaker trips, and the tracker is saved.
Trip == KeepsPredicting /\ LimitReached(tracker) /\ EndTurn(tracker.events)

\* The loop is over, and the tracker is saved.
Finish == turn = "loop" /\ ~KeepsPredicting /\ EndTurn(tracker.events)

\* The process dies, or something outside an action raises (the parser, a
\* policy, the output channel, the save itself): the turn is lost.
Abort == turn = "loop" /\ EndTurn(stored)

\* The endpoints that work on a tracker without predicting.
Amend(events) ==
  /\ Begin
  /\ stored' = events
  /\ UNCHANGED <<now, turn, tracker, goOn, began>>

\* POST execute
ExecuteAction(action) ==
  \E t \in Fetched : \E u \in AfterAction(t, action) : Amend(u.events)

\* POST messages
AddMessage(intent) ==
  \E t \in Fetched : Amend(Append(t.events, UserUttered(intent, now)))

\* POST predict
PredictNext == \E t \in Fetched : Amend(t.events)

\* do_events_begin_with_session_start
BeginWithSessionStart(events) ==
  Len(events) >= 2 /\ events[1] = ActionExecuted(SESSION_START) /\ events[2] = SessionStarted

\* POST tracker/events: a new conversation gets its session first, unless the
\* events bring one.
AppendEvents(events) ==
  \E t \in IF stored = <<>> /\ ~BeginWithSessionStart(events)
             THEN Fetched ELSE {Restore(stored)} :
    Amend(t.events \o events)

Tick == now < MaxTime /\ now' = now + 1
        /\ UNCHANGED <<assistant, stored, turn, tracker, goOn, requests, began>>

Loop == Trip \/ Finish \/ \E action \in Actions \union {SESSION_START} : RunAction(action)

Next ==
  \/ Tick
  \/ Loop
  \/ Abort
  \/ PredictNext
  \/ \E intent \in Intents :
       HandleMessage(intent) \/ AddMessage(intent)
  \/ \E action \in Actions : ExecuteAction(action)
  \/ \E events \in Returned : AppendEvents(events)

Spec == Init /\ [][Next]_vars

\* Policies answer, and actions return or run into DEFAULT_REQUEST_TIMEOUT.
FairSpec == Spec /\ WF_vars(Loop)

-----------------------------------------------------------------------------
\* The type invariant.
TypeOK ==
  /\ assistant \in Assistants
  /\ now \in 0 .. MaxTime
  /\ stored \in Seq(TrackerEvent)
  /\ turn \in {"idle", "loop"}
  /\ tracker \in [events : Seq(TrackerEvent), state : TrackerState]
  /\ goOn \in BOOLEAN
  /\ requests \in 0 .. MaxRequests
  /\ began \in Nat

\* What the turn has added to the tracker since its message.
TurnEvents == SubSeq(tracker.events, began + 1, Len(tracker.events))

Reverts(events) == \E e \in ToSet(events) : e.type \in {"undo", "rewind"}

\* The circuit breaker: a turn logs no more executions than
\* max_number_of_predictions, unless it reverts what it did.
NoRunawayTurn ==
  turn = "loop" /\ ~Reverts(TurnEvents) =>
    Cardinality({i \in began + 1 .. Len(tracker.events) :
                   tracker.events[i].type = "action" /\ tracker.events[i].name # LISTEN})
      =< MaxPredictions

\* The turn ends with a save of its events.
Saves == turn = "loop" /\ turn' = "idle" /\ stored' = tracker.events /\ stored' # stored

\* While a human has taken over, the bot is silent: a message to a paused
\* conversation gets no action but the start of a session, whatever follow-up
\* is pending.  Two messages end the pause: the one that restarts the
\* conversation, and one that begins a new session after the user was silent
\* for longer than session_expiration_time (SessionStarted resets the tracker).
PausedBotIsSilent ==
  [][Saves /\ Restore(stored).state.paused =>
       \/ tracker.events[began].name = RESTART_INTENT
       \/ /\ SessionStarted \in ToSet(SubSeq(tracker.events, Len(stored) + 1, began - 1))
          /\ ExpiredAt(stored, tracker.events[began].time)
       \/ \A e \in ToSet(SubSeq(tracker.events, Len(stored) + 1, Len(tracker.events))) :
            e.type = "action" => e = ActionExecuted(SESSION_START)]_vars

LastRestart(events) == SelectLastInSeq(events, LAMBDA e : e.type \in {"restart", "session_started"})

\* A session is not cut off while the user is talking: a message starts a new
\* session only if the user has been silent for longer than
\* session_expiration_time, or since the conversation was restarted, or if
\* what the user said was reverted.  It holds of conversations without forms: the
\* answers to a form are not among the applied events.
SilenceBeforeNewSession ==
  [][/\ LoopNames(stored) = {} /\ ~Reverts(stored)
     /\ turn = "idle" /\ turn' = "loop"
     /\ SessionStarted \in ToSet(SubSeq(tracker'.events, Len(stored) + 1, began'))
     => \A i \in LastRestart(stored) + 1 .. Len(stored) :
          stored[i].type = "user" => now - stored[i].time > Expiry]_vars

\* Two actions rejected in a row: the circuit breaker counts neither.
RejectsInARow(events) ==
  LET tries == SelectSeq(events, LAMBDA e : e.type \in {"action", "rejected"})
  IN  \E i \in 1 .. Len(tries) - 1 : {tries[i].type, tries[i + 1].type} = {"rejected"}

\* A turn ends, unless it escapes the count of the circuit breaker: by
\* reverting what it did, or by actions that reject one right after the other.
TurnEnds ==
  turn = "loop" ~> turn = "idle" \/ Reverts(TurnEvents) \/ RejectsInARow(TurnEvents)

\* trackers.py:604 "If the tracker is blank before calling this method, the
\* final state will be identical to the tracker from which the dialogue was
\* created": the next turn finds the dialogue as the last one left it, the
\* pending follow-up action aside, which predicting uses up without an event.
\* It holds of conversations without forms, whose undone answers are not replayed.
RestoredAsLeft ==
  [][LoopNames(tracker.events) = {} /\ Saves =>
       [Restore(stored').state EXCEPT !.followup = NoName]
       = [tracker.state EXCEPT !.followup = NoName]]_vars

\* Whatever is replayed or undone, the next turn finds the active form.
LoopSurvives ==
  [][Saves => Restore(stored').state.loop = tracker.state.loop]_vars

=============================================================================

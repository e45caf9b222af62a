------------------------------ MODULE Tracker ------------------------------
(***************************************************************************)
(* The DialogueStateTracker of one conversation                             *)
(* (rasa/shared/core/trackers.py) and the events that change it             *)
(* (rasa/shared/core/events.py).                                            *)
(*                                                                         *)
(* A tracker is the list of its events together with a state.  update()     *)
(* appends an event and applies it to the state; most events change the     *)
(* state directly, but a revert resets it and replays the applied events,   *)
(* those that are left when reverted turns and repeated executions of a     *)
(* form are undone.  A store that keeps the events alone rebuilds the state *)
(* by such a replay as well.                                                *)
(*                                                                         *)
(* Slots, bot utterances, the featurization marks of the policies and       *)
(* LoopInterrupted are left out.                                            *)
(***************************************************************************)
EXTENDS Integers, SequencesExt

LISTEN == "action_listen"
SESSION_START == "action_session_start"
NoName == "None"

-----------------------------------------------------------------------------
(* Events: a type, the intent, action or loop it names, and when it was     *)
(* created, for the events whose time matters.                              *)

Event(type, name, time) == [type |-> type, name |-> name, time |-> time]

UserUttered(intent, time) == Event("user", intent, time)
ActionExecuted(action) == Event("action", action, 0)
ActionExecutionRejected(action) == Event("rejected", action, 0)
ActiveLoop(loop) == Event("active_loop", loop, 0)
FollowupAction(action) == Event("followup", action, 0)
SessionStarted == Event("session_started", NoName, 0)
Restarted == Event("restart", NoName, 0)
UserUtteranceReverted == Event("rewind", NoName, 0)
ActionReverted == Event("undo", NoName, 0)
ConversationPaused == Event("pause", NoName, 0)
ConversationResumed == Event("resume", NoName, 0)

NoMessage == UserUttered(NoName, 0)

Is(e, type, name) == e.type = type /\ e.name = name

\* SequencesExt's FoldLeft, as a function of the length.
Through(events, Step(_, _), base) ==
  LET after[i \in 0 .. Len(events)] ==
        IF i = 0 THEN base ELSE Step(after[i - 1], events[i])
  IN  after[Len(events)]

\* The events that are of none of some types.
Without(types, events) ==
  LET Step(kept, e) == IF e.type \in types THEN kept ELSE Append(kept, e)
  IN  Through(events, Step, <<>>)

\* The index of the last event of a type, 0 if there is none.
LastOf(type, events) == SelectLastInSeq(events, LAMBDA e : e.type = type)

-----------------------------------------------------------------------------
(* Which events count.                                                     *)

\* _undo_till_previous: everything from the last event of the type on goes;
\* everything goes if there is none.
UndoTillPrevious(type, done) == SubSeq(done, 1, LastOf(type, done) - 1)

\* The events at which _first_loop_execution_or_unhappy_path stops looking
\* back: a deactivated loop, the rejection or an execution of this one, or a
\* user message that some other action answered.
Decides(loop, done, i) ==
  \/ Is(done[i], "active_loop", NoName)
  \/ Is(done[i], "rejected", loop)
  \/ Is(done[i], "action", loop)
  \/ /\ done[i].type = "user"
     /\ \E j \in i + 1 .. Len(done) : done[j].type = "action"

LastDecision(loop, done) ==
  LET stops == {i \in 1 .. Len(done) : Decides(loop, done, i)}
  IN  IF stops = {} THEN 0 ELSE Max(stops)

FirstLoopExecutionOrUnhappyPath(loop, done) ==
  LET i == LastDecision(loop, done)
  IN  i = 0 \/ ~Is(done[i], "action", loop)

LastExecution(loop, done) == SelectLastInSeq(done, LAMBDA e : Is(e, "action", loop))

\* Mistaken _undo_till_previous_loop_execution: loops go as well.
UndoTillPreviousLoopExecution_Loops(loop, done) == SubSeq(done, 1, LastExecution(loop, done))

\* _undo_till_previous_loop_execution: of what came after the last execution
\* of the loop, messages and actions go.
UndoTillPreviousLoopExecution(loop, done) ==
  LET i == LastExecution(loop, done)
  IN  SubSeq(done, 1, i) \o Without({"user", "action"}, SubSeq(done, i + 1, Len(done)))

LoopNames(events) ==
  {e.name : e \in {f \in ToSet(events) : f.type = "active_loop"}} \ {NoName}

\* What an event leaves of the applied ones before it, in a tracker of some loops.
AfterEvent(loops, done, e) ==
  IF e.type \in {"restart", "session_started"} THEN <<>>
  ELSE IF e.type = "undo" THEN UndoTillPrevious("action", done)
  ELSE IF e.type = "rewind" THEN UndoTillPrevious("action", UndoTillPrevious("user", done))
  ELSE IF /\ e.type = "action" /\ e.name \in loops
          /\ ~FirstLoopExecutionOrUnhappyPath(e.name, done)
         THEN UndoTillPreviousLoopExecution(e.name, done)
  ELSE Append(done, e)

AppliedIn(loops, events) ==
  LET Step(done, e) == AfterEvent(loops, done, e) IN Through(events, Step, <<>>)

AppliedEvents(events) == AppliedIn(LoopNames(events), events)

-----------------------------------------------------------------------------
(* The state.                                                              *)

\* The state of a new tracker.
Blank == [paused |-> FALSE, followup |-> LISTEN, latest_action |-> NoName,
          latest_message |-> NoMessage, loop |-> NoName, rejected |-> FALSE]

\* Mistaken _reset: the conversation stays paused.
Reset_KeepsPaused(state) == [Blank EXCEPT !.paused = state.paused]

\* _reset
Reset(state) == Blank

\* apply_to, for the events that do not replay others.
Apply(state, e) ==
  CASE e.type = "user" ->
         [state EXCEPT !.latest_message = e, !.followup = NoName]
    [] e.type = "action" ->
         [state EXCEPT !.latest_action = e.name, !.followup = NoName,
                       !.rejected = @ /\ state.loop # e.name]
    [] e.type = "rejected" ->
         [state EXCEPT !.rejected = @ \/ state.loop = e.name]
    [] e.type = "active_loop" -> [state EXCEPT !.loop = e.name, !.rejected = FALSE]
    [] e.type = "followup" -> [state EXCEPT !.followup = e.name]
    [] e.type = "session_started" -> Reset(state)
    [] e.type = "restart" -> [Reset(state) EXCEPT !.followup = SESSION_START]
    [] e.type = "pause" -> [state EXCEPT !.paused = TRUE]
    [] e.type = "resume" -> [state EXCEPT !.paused = FALSE]

\* _reset, then replay_events.
Replay(events) == Through(AppliedEvents(events), Apply, Blank)

\* init_tracker: no events yet.
NewTracker == [events |-> <<>>, state |-> Blank]

\* update
Update(tracker, e) ==
  LET events == Append(tracker.events, e)
  IN  [events |-> events,
       state |-> IF e.type \in {"undo", "rewind"}
                   THEN Replay(events) ELSE Apply(tracker.state, e)]

UpdateWithEvents(tracker, events) == Through(events, Update, tracker)

\* recreate_from_dialogue: the stores that keep whole dialogues.
RecreateFromDialogue(events) == [events |-> events, state |-> Replay(events)]

\* from_events: the stores that keep single events.
FromEvents(events) == UpdateWithEvents(NewTracker, events)

-----------------------------------------------------------------------------
(* The types of a turn's events and of the tracker's state.                 *)

\* What the provers do not know of literals.
ASSUME NamesAssumption == {NoName, LISTEN, SESSION_START} \subseteq STRING

EventTypes == {"user", "action", "rejected", "active_loop", "followup", "session_started",
               "restart", "rewind", "undo", "pause", "resume"}
TrackerEvent == [type : EventTypes, name : STRING, time : Nat]
TrackerState == [paused : BOOLEAN, followup : STRING, latest_action : STRING,
                 latest_message : TrackerEvent, loop : STRING, rejected : BOOLEAN]

=============================================================================

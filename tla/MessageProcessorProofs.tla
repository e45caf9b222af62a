----------------------- MODULE MessageProcessorProofs -----------------------
(***************************************************************************)
(* Proofs about MessageProcessor: that the state of a tracker and what a    *)
(* replay of its events makes of it agree, as far as the next turn relies   *)
(* on it; that a paused bot is silent; that the circuit breaker bounds a    *)
(* turn; and that a session is not cut off while the user is talking.       *)
(***************************************************************************)
EXTENDS MessageProcessor, Lemmas, FiniteSetTheorems

-----------------------------------------------------------------------------
(* What the events of a tracker say of its forms.                           *)

LEMMA LoopNamesAppend ==
  ASSUME NEW es \in Seq(TrackerEvent), NEW e \in TrackerEvent
  PROVE  LoopNames(Append(es, e)) =
           LoopNames(es) \union ((IF e.type = "active_loop" THEN {e.name} ELSE {}) \ {NoName})
<1>1. ToSet(Append(es, e)) = ToSet(es) \union {e}
  BY Appended DEF ToSet
<1>. QED  BY <1>1 DEF LoopNames

LEMMA LoopNamesEmpty == LoopNames(<<>>) = {}
BY DEF LoopNames, ToSet

\* The events applied after one more.
LEMMA AppliedEventsAppend ==
  ASSUME NEW es \in Seq(TrackerEvent), NEW e \in TrackerEvent
  PROVE  /\ e.type # "active_loop" =>
              AppliedEvents(Append(es, e)) = AfterEvent(LoopNames(es), AppliedEvents(es), e)
         /\ e.type = "active_loop" =>
              \E done \in Seq(Playable) : AppliedEvents(Append(es, e)) = Append(done, e)
<1>. DEFINE loops == LoopNames(Append(es, e))
<1>1. AppliedEvents(Append(es, e)) = AfterEvent(loops, AppliedIn(loops, es), e)
  BY AppliedAppend DEF AppliedEvents
<1>2. CASE e.type # "active_loop"
  <2>1. loops = LoopNames(es)
    BY <1>2, LoopNamesAppend DEF LoopNames
  <2>. QED  BY <1>1, <1>2, <2>1 DEF AppliedEvents
<1>3. CASE e.type = "active_loop"
  <2>1. AfterEvent(loops, AppliedIn(loops, es), e) = Append(AppliedIn(loops, es), e)
    BY <1>3 DEF AfterEvent
  <2>2. AppliedIn(loops, es) \in Seq(Playable)
    BY AppliedType DEF Playable
  <2>. QED  BY <1>1, <1>3, <2>1, <2>2
<1>. QED  BY <1>2, <1>3

\* Which form is active depends on the form before and the event.
LEMMA ApplyLoop ==
  ASSUME NEW s \in TrackerState, NEW t \in TrackerState, s.loop = t.loop,
         NEW e \in TrackerEvent, e.type \notin Replaying
  PROVE  Apply(s, e).loop = Apply(t, e).loop
<1>1. /\ Apply(s, e).loop = IF e.type \in Resetting THEN NoName
                            ELSE IF e.type = "active_loop" THEN e.name ELSE s.loop
      /\ Apply(t, e).loop = IF e.type \in Resetting THEN NoName
                            ELSE IF e.type = "active_loop" THEN e.name ELSE t.loop
  BY ApplyParts DEF AppliedTo
<1>. QED  BY <1>1

\* Messages and actions leave the active form as it is.
LEMMA LoopWithout ==
  ASSUME NEW done \in Seq(Playable), NEW es \in Seq(Playable)
  PROVE  Played(done \o Without({"user", "action"}, es)).loop = Played(done \o es).loop
<1>. DEFINE Left(s) == Without({"user", "action"}, s)
           P == {s \in Seq(Playable) : Played(done \o Left(s)).loop = Played(done \o s).loop}
<1>1. <<>> \in P
  <2>1. <<>> \in Seq(Playable) /\ Left(<<>>) = <<>>
    BY WithoutEmpty
  <2>. HIDE DEF Left
  <2>. QED  BY <2>1
<1>2. ASSUME NEW s \in Seq(Playable), NEW e \in Playable, s \in P PROVE Append(s, e) \in P
  <2>1. /\ Left(s) \in Seq(Playable)
        /\ Left(Append(s, e)) = IF e.type \in {"user", "action"} THEN Left(s) ELSE Append(Left(s), e)
    BY WithoutAppend
  <2>2. e \in TrackerEvent /\ e.type \notin Replaying
    BY DEF Playable, Kept
  <2>. HIDE DEF Left
  <2>3. done \o s \in Seq(Playable) /\ done \o Left(s) \in Seq(Playable)
    BY <2>1, ConcatProperties
  <2>4. done \o Append(s, e) = Append(done \o s, e)
    BY ConcatAppend
  <2>5. done \o Append(Left(s), e) = Append(done \o Left(s), e)
    BY <2>1, ConcatAppend
  <2>6. /\ Played(done \o s) \in TrackerState /\ Played(done \o Left(s)) \in TrackerState
        /\ Played(Append(done \o s, e)) = Apply(Played(done \o s), e)
        /\ Played(Append(done \o Left(s), e)) = Apply(Played(done \o Left(s)), e)
    BY <2>3, PlayedAppend
  <2>7. Played(done \o s).loop = Played(done \o Left(s)).loop
    BY <1>2
  <2>8. Played(done \o Left(Append(s, e))).loop = Played(done \o Append(s, e)).loop
    <3>1. CASE e.type \in {"user", "action"}
      <4>1. Apply(Played(done \o s), e).loop = Played(done \o s).loop
        BY <2>2, <2>6, <3>1, ApplyParts DEF AppliedTo, Resetting
      <4>. QED  BY <2>1, <2>4, <2>6, <2>7, <3>1, <4>1
    <3>2. CASE e.type \notin {"user", "action"}
      <4>1. Apply(Played(done \o s), e).loop = Apply(Played(done \o Left(s)), e).loop
        BY <2>2, <2>6, <2>7, ApplyLoop
      <4>. QED  BY <2>1, <2>4, <2>5, <2>6, <3>2, <4>1
    <3>. QED  BY <3>1, <3>2
  <2>9. Append(s, e) \in Seq(Playable)
    OBVIOUS
  <2>. QED  BY <2>8, <2>9
<1>3. es \in P
  <2>. HIDE DEF P
  <2>. QED  BY <1>1, <1>2, InductionOverSequences
<1>. QED  BY <1>3

LEMMA LoopUndone ==
  ASSUME NEW done \in Seq(Playable), NEW loop
  PROVE  /\ UndoTillPreviousLoopExecution(loop, done) \in Seq(Playable)
         /\ Played(UndoTillPreviousLoopExecution(loop, done)).loop = Played(done).loop
<1>. DEFINE i == LastExecution(loop, done)
           before == SubSeq(done, 1, i)
           after == SubSeq(done, i + 1, Len(done))
<1>1. i \in 0 .. Len(done)
  BY LastExecutionIndex
<1>2. ASSUME NEW k \in 0 .. Len(done)
      PROVE  /\ SubSeq(done, 1, k) \in Seq(Playable)
             /\ SubSeq(done, k + 1, Len(done)) \in Seq(Playable)
             /\ SubSeq(done, 1, k) \o SubSeq(done, k + 1, Len(done)) = done
  <2>1. SubSeq(done, 1, k) \in Seq(Playable) /\ SubSeq(done, k + 1, Len(done)) \in Seq(Playable)
    OBVIOUS
  <2>2. SubSeq(done, 1, k) \o SubSeq(done, k + 1, Len(done)) = SubSeq(done, 1, Len(done))
    <3>1. 1 \in 1 .. Len(done) + 1 /\ k \in 1 - 1 .. Len(done) /\ Len(done) \in k .. Len(done)
      OBVIOUS
    <3>. QED  BY <3>1, ConcatAdjacentSubSeq
  <2>. QED  BY <2>1, <2>2, SubSeqFull
<1>3. before \in Seq(Playable) /\ after \in Seq(Playable) /\ before \o after = done
  BY <1>1, <1>2
<1>4. Played(before \o Without({"user", "action"}, after)).loop = Played(before \o after).loop
  <2>. HIDE DEF before, after
  <2>. QED  BY <1>3, LoopWithout
<1>. QED  BY <1>3, <1>4, UndoTillPreviousLoopExecutionType DEF UndoTillPreviousLoopExecution

-----------------------------------------------------------------------------
(* The state of a tracker and what a replay of its events makes of it.      *)

\* States that differ in the follow-up action at most.
Alike(s, t) == /\ s.paused = t.paused /\ s.loop = t.loop /\ s.rejected = t.rejected
               /\ s.latest_action = t.latest_action /\ s.latest_message = t.latest_message

\* The active form is always the replayed one; without forms, all is.
Sound == {t \in TrackerType :
            /\ t.state.loop = Replay(t.events).loop
            /\ LoopNames(t.events) = {} => Alike(t.state, Replay(t.events))}

LEMMA ApplyAlike ==
  ASSUME NEW s \in TrackerState, NEW t \in TrackerState, Alike(s, t),
         NEW e \in TrackerEvent, e.type \notin Replaying
  PROVE  Alike(Apply(s, e), Apply(t, e))
<1>1. AppliedTo(s, e, Apply(s, e)) /\ AppliedTo(t, e, Apply(t, e))
  BY ApplyParts
<1>. QED  BY <1>1 DEF AppliedTo, Alike

LEMMA ReplayEmpty == Replay(<<>>) = Blank
<1>1. <<>> \in Seq(TrackerEvent) /\ AppliedEvents(<<>>) = <<>>
  BY AppliedEmpty DEF AppliedEvents
<1>. QED  BY <1>1, ReplayPlays, PlayedEmpty

\* A replay of one more event, as far as the forms go.
LEMMA ReplayLoop ==
  ASSUME NEW es \in Seq(TrackerEvent), NEW e \in TrackerEvent, e.type \notin Replaying
  PROVE  Replay(Append(es, e)).loop = Apply(Replay(es), e).loop
<1>. DEFINE done == AppliedEvents(es)
           all == Append(es, e)
<1>1. all \in Seq(TrackerEvent)
  OBVIOUS
<1>2. /\ done \in Seq(Playable) /\ Replay(es) = Played(done) /\ Replay(es) \in TrackerState
      /\ AppliedEvents(all) \in Seq(Playable) /\ Replay(all) = Played(AppliedEvents(all))
  <2>. HIDE DEF all
  <2>. QED  BY <1>1, ReplayPlays
<1>3. e \in Playable
  BY DEF Playable, Kept
<1>. HIDE DEF done
<1>4. CASE e.type = "active_loop"
  <2>1. PICK some \in Seq(Playable) : AppliedEvents(all) = Append(some, e)
    BY <1>4, AppliedEventsAppend
  <2>2. Replay(all) = Apply(Played(some), e) /\ Played(some) \in TrackerState
    BY <1>2, <1>3, <2>1, PlayedAppend
  <2>3. Apply(Played(some), e).loop = e.name /\ Apply(Replay(es), e).loop = e.name
    BY <1>2, <1>4, <2>2, ApplyParts DEF AppliedTo, Resetting
  <2>. QED  BY <2>2, <2>3
<1>5. CASE e.type # "active_loop"
  <2>1. AppliedEvents(all) = AfterEvent(LoopNames(es), done, e)
    BY <1>5, AppliedEventsAppend DEF done
  <2>2. CASE e.type \in Resetting
    <3>1. AppliedEvents(all) = <<>>
      BY <2>1, <2>2 DEF AfterEvent, Resetting
    <3>2. Replay(all).loop = NoName
      BY <1>2, <3>1, PlayedEmpty DEF Blank
    <3>. QED  BY <1>2, <2>2, <3>2, ApplyParts DEF AppliedTo
  <2>3. CASE e.type \notin Resetting /\ AppliedEvents(all) = Append(done, e)
    BY <1>2, <1>3, <2>3, PlayedAppend
  <2>4. CASE e.type = "action" /\ AppliedEvents(all) = UndoTillPreviousLoopExecution(e.name, done)
    <3>1. Replay(all).loop = Replay(es).loop
      BY <1>2, <2>4, LoopUndone
    <3>. QED  BY <1>2, <2>4, <3>1, ApplyParts DEF AppliedTo, Resetting
  <2>. QED  BY <2>1, <2>2, <2>3, <2>4 DEF AfterEvent, Resetting, Replaying
<1>. QED  BY <1>4, <1>5

\* A replay of one more event, without forms.
LEMMA ReplayAlike ==
  ASSUME NEW es \in Seq(TrackerEvent), NEW e \in TrackerEvent, e.type \notin Replaying,
         LoopNames(Append(es, e)) = {}
  PROVE  LoopNames(es) = {} /\ Alike(Replay(Append(es, e)), Apply(Replay(es), e))
<1>. DEFINE done == AppliedEvents(es)
           all == Append(es, e)
<1>1. all \in Seq(TrackerEvent)
  OBVIOUS
<1>2. /\ done \in Seq(Playable) /\ Replay(es) = Played(done) /\ Replay(es) \in TrackerState
      /\ AppliedEvents(all) \in Seq(Playable) /\ Replay(all) = Played(AppliedEvents(all))
  <2>. HIDE DEF all
  <2>. QED  BY <1>1, ReplayPlays
<1>3. e \in Playable
  BY DEF Playable, Kept
<1>4. LoopNames(es) = {}
  BY LoopNamesAppend
<1>5. AppliedEvents(all) = AfterEvent({}, done, e)
  BY AppliedAppend, <1>4 DEF AppliedEvents
<1>. HIDE DEF done
<1>6. CASE e.type \in Resetting
  <2>1. AppliedEvents(all) = <<>>
    BY <1>5, <1>6 DEF AfterEvent, Resetting
  <2>2. Replay(all) = Blank
    BY <1>2, <2>1, PlayedEmpty
  <2>3. AppliedTo(Replay(es), e, Apply(Replay(es), e))
    BY <1>2, ApplyParts
  <2>. QED  BY <1>4, <1>6, <2>2, <2>3 DEF AppliedTo, Alike, Blank
<1>7. CASE e.type \notin Resetting
  <2>1. AppliedEvents(all) = Append(done, e)
    BY <1>5, <1>7 DEF AfterEvent, Resetting, Replaying
  <2>. QED  BY <1>2, <1>3, <1>4, <2>1, PlayedAppend DEF Alike
<1>. QED  BY <1>6, <1>7

\* An update keeps the agreement.
LEMMA UpdateSound == Closed(Sound, TrackerEvent)
<1>. SUFFICES ASSUME NEW t \in Sound, NEW e \in TrackerEvent PROVE Update(t, e) \in Sound
  BY DEF Closed
<1>. DEFINE u == Update(t, e)
<1>1. t \in TrackerType /\ u \in TrackerType /\ u.events = Append(t.events, e)
  BY UpdateType DEF Sound
<1>2. t.events \in Seq(TrackerEvent) /\ t.state \in TrackerState
  BY <1>1 DEF TrackerType
<1>3. CASE e.type \in Replaying
  <2>1. u.state = Replay(u.events)
    BY <1>3 DEF Update, Replaying
  <2>. QED  BY <1>1, <2>1 DEF Sound, Alike
<1>4. CASE e.type \notin Replaying
  <2>1. u.state = Apply(t.state, e)
    BY <1>4 DEF Update, Replaying
  <2>2. Replay(t.events) \in TrackerState
    BY <1>2, ReplayPlays
  <2>3. t.state.loop = Replay(t.events).loop
    BY DEF Sound
  <2>. HIDE DEF u
  <2>4. u.state.loop = Replay(u.events).loop
    <3>1. Apply(t.state, e).loop = Apply(Replay(t.events), e).loop
      BY <1>2, <1>4, <2>2, <2>3, ApplyLoop
    <3>2. Replay(u.events).loop = Apply(Replay(t.events), e).loop
      BY <1>1, <1>2, <1>4, ReplayLoop
    <3>. QED  BY <2>1, <3>1, <3>2
  <2>5. ASSUME LoopNames(u.events) = {} PROVE Alike(u.state, Replay(u.events))
    <3>1. LoopNames(t.events) = {} /\ Alike(Replay(u.events), Apply(Replay(t.events), e))
      BY <1>1, <1>2, <1>4, <2>5, ReplayAlike
    <3>2. Alike(Apply(t.state, e), Apply(Replay(t.events), e))
      <4>1. Alike(t.state, Replay(t.events))
        BY <3>1 DEF Sound
      <4>. QED  BY <1>2, <1>4, <2>2, <4>1, ApplyAlike
    <3>. QED  BY <2>1, <3>1, <3>2 DEF Alike
  <2>. QED  BY <1>1, <2>4, <2>5 DEF Sound, u
<1>. QED  BY <1>3, <1>4

\* Sound trackers: a new one, and what a store restores.
LEMMA RestoreSound ==
  ASSUME NEW es \in Seq(TrackerEvent)
  PROVE  Restore(es) \in Sound /\ Restore(es).events = es
<1>1. NewTracker \in TrackerType /\ NewTracker \in Sound
  <2>1. <<>> \in Seq(TrackerEvent)
    OBVIOUS
  <2>. QED  BY <2>1, BlankType, ReplayEmpty DEF NewTracker, TrackerType, Sound, Alike
<1>2. RecreateFromDialogue(es) \in Sound /\ RecreateFromDialogue(es).events = es
  BY ReplayPlays DEF RecreateFromDialogue, Sound, TrackerType, Alike
<1>3. FromEvents(es) \in Sound
  BY <1>1, UpdateSound, UpdatesStay DEF FromEvents
<1>4. FromEvents(es).events = es
  <2>1. FromEvents(es).events = <<>> \o es
    BY <1>1, UpdatesType DEF FromEvents, NewTracker
  <2>. QED  BY <2>1
<1>. QED  BY <1>2, <1>3, <1>4 DEF Restore

-----------------------------------------------------------------------------
(* What an action returns.                                                  *)

LEMMA AssistantFacts ==
  ASSUME assistant \in Assistants
  PROVE  /\ Actions \subseteq STRING /\ Rejecting \subseteq STRING /\ Forms \subseteq STRING
         /\ Forms \intersect DefaultActions = {}
         /\ Returned \subseteq Seq(TrackerEvent)
         /\ MaxPredictions \in Nat \ {0} /\ Expiry \in Nat
         /\ MaxTime \in Nat /\ MaxRequests \in Nat /\ MaxEvents \in Nat
BY AssistantsAssumption, NamesAssumption
   DEF Actions, Rejecting, Forms, Builtin, Custom, Returned, MaxPredictions, Expiry, MaxTime,
       MaxRequests, MaxEvents

\* The event lists run() may return, action by action.
LEMMA ResultsCases ==
  ASSUME assistant \in Assistants, NEW action, NEW state
  PROVE  /\ action = LISTEN => Results(action, state) = {<<>>}
         /\ action = SESSION_START =>
              Results(action, state) \subseteq {<<>>, <<SessionStarted, ActionExecuted(LISTEN)>>}
         /\ action = RESTART => Results(action, state) = {<<Restarted>>}
         /\ action = BACK =>
              Results(action, state) = {<<UserUtteranceReverted, UserUtteranceReverted>>}
         /\ action = FALLBACK => Results(action, state) = {<<UserUtteranceReverted>>}
         /\ action \in Forms =>
              \A result \in Results(action, state) :
                \/ result = <<>> \/ result = <<ActiveLoop(action)>>
                \/ result = <<ActiveLoop(NoName)>>
                \/ result = <<ActiveLoop(action), ActiveLoop(NoName)>>
                \/ result = <<ActionExecutionRejected(action)>>
                \/ result = <<ActiveLoop(action), ActionExecutionRejected(action)>>
         /\ action \notin DefaultActions \union Forms =>
              Results(action, state) = {<<>>} \union Returned
<1>1. Forms \intersect DefaultActions = {}
  BY AssistantFacts
<1>2. CASE action = LISTEN
  BY <1>1, <1>2, Zenon DEF Results, DefaultActions, LISTEN, SESSION_START, RESTART, BACK, FALLBACK
<1>3. CASE action = SESSION_START
  <2>1. Results(action, state) =
          {<<SessionStarted, ActionExecuted(LISTEN)>>}
            \union IF SessionStartIsCustom THEN {<<>>} ELSE {}
    BY <1>1, <1>3, Zenon
       DEF Results, DefaultActions, LISTEN, SESSION_START, RESTART, BACK, FALLBACK
  <2>. QED  BY <1>1, <1>3, <2>1, Zenon
            DEF DefaultActions, LISTEN, SESSION_START, RESTART, BACK, FALLBACK
<1>4. CASE action = RESTART
  BY <1>1, <1>4, Zenon DEF Results, DefaultActions, LISTEN, SESSION_START, RESTART, BACK, FALLBACK
<1>5. CASE action = BACK
  BY <1>1, <1>5, Zenon DEF Results, DefaultActions, LISTEN, SESSION_START, RESTART, BACK, FALLBACK
<1>6. CASE action = FALLBACK
  BY <1>1, <1>6, Zenon DEF Results, DefaultActions, LISTEN, SESSION_START, RESTART, BACK, FALLBACK
<1>7. CASE action \in Forms
  <2>. DEFINE start == IF state.loop = action THEN <<>> ELSE <<ActiveLoop(action)>>
  <2>1. Results(action, state) =
          {<<>>, start, Append(start, ActiveLoop(NoName)),
           Append(start, ActionExecutionRejected(action))}
    BY <1>1, <1>7, Zenon
       DEF Results, DefaultActions, LISTEN, SESSION_START, RESTART, BACK, FALLBACK
  <2>2. \A e, f : Append(<<>>, e) = <<e>> /\ Append(<<e>>, f) = <<e, f>>
    BY AppendToOne
  <2>3. action \notin DefaultActions
    BY <1>1, <1>7
  <2>. QED  BY <1>7, <2>1, <2>2, <2>3 DEF DefaultActions
<1>8. CASE action \notin DefaultActions \union Forms
  BY <1>8, Zenon DEF Results, DefaultActions
<1>. QED  BY <1>2, <1>3, <1>4, <1>5, <1>6, <1>7, <1>8 DEF DefaultActions

LEMMA EventTyped ==
  /\ \A action \in STRING :
       /\ ActionExecuted(action) \in TrackerEvent
       /\ ActionExecutionRejected(action) \in TrackerEvent /\ ActiveLoop(action) \in TrackerEvent
  /\ SessionStarted \in TrackerEvent /\ Restarted \in TrackerEvent
  /\ UserUtteranceReverted \in TrackerEvent /\ ActiveLoop(NoName) \in TrackerEvent
  /\ ActionExecuted(LISTEN) \in TrackerEvent /\ ActionExecuted(SESSION_START) \in TrackerEvent
  /\ \A intent \in STRING, time \in Nat : UserUttered(intent, time) \in TrackerEvent
BY NamesAssumption
   DEF ActionExecuted, ActionExecutionRejected, ActiveLoop, SessionStarted, Restarted,
       UserUtteranceReverted, UserUttered, Event, TrackerEvent, EventTypes

LEMMA ResultsType ==
  ASSUME assistant \in Assistants, NEW action \in Actions \union {SESSION_START}, NEW state
  PROVE  Results(action, state) \subseteq Seq(TrackerEvent)
<1>1. action \in STRING /\ Returned \subseteq Seq(TrackerEvent)
  BY AssistantFacts, NamesAssumption
<1>2. <<>> \in Seq(TrackerEvent)
  OBVIOUS
<1>3. ASSUME NEW e \in TrackerEvent PROVE <<e>> \in Seq(TrackerEvent)
  OBVIOUS
<1>4. ASSUME NEW e \in TrackerEvent, NEW f \in TrackerEvent PROVE <<e, f>> \in Seq(TrackerEvent)
  OBVIOUS
<1>. SUFFICES ASSUME NEW result \in Results(action, state) PROVE result \in Seq(TrackerEvent)
  OBVIOUS
<1>5. CASE action \in DefaultActions
  <2>1. /\ <<SessionStarted, ActionExecuted(LISTEN)>> \in Seq(TrackerEvent)
        /\ <<Restarted>> \in Seq(TrackerEvent) /\ <<UserUtteranceReverted>> \in Seq(TrackerEvent)
        /\ <<UserUtteranceReverted, UserUtteranceReverted>> \in Seq(TrackerEvent)
    BY <1>3, <1>4, EventTyped
  <2>2. \/ result = <<>> \/ result = <<SessionStarted, ActionExecuted(LISTEN)>>
        \/ result = <<Restarted>> \/ result = <<UserUtteranceReverted>>
        \/ result = <<UserUtteranceReverted, UserUtteranceReverted>>
    <3>. DEFINE of == Results(action, state)
    <3>. HIDE DEF of
    <3>1. \/ of = {<<>>} \/ of \subseteq {<<>>, <<SessionStarted, ActionExecuted(LISTEN)>>}
          \/ of = {<<Restarted>>} \/ of = {<<UserUtteranceReverted>>}
          \/ of = {<<UserUtteranceReverted, UserUtteranceReverted>>}
      BY <1>5, ResultsCases, Zenon DEF DefaultActions, of
    <3>2. result \in of
      BY DEF of
    <3>. QED  BY <3>1, <3>2, Zenon
  <2>. QED  BY <1>2, <2>1, <2>2, Zenon
<1>6. CASE action \in Forms
  <2>1. /\ <<ActiveLoop(action)>> \in Seq(TrackerEvent) /\ <<ActiveLoop(NoName)>> \in Seq(TrackerEvent)
        /\ <<ActiveLoop(action), ActiveLoop(NoName)>> \in Seq(TrackerEvent)
        /\ <<ActionExecutionRejected(action)>> \in Seq(TrackerEvent)
        /\ <<ActiveLoop(action), ActionExecutionRejected(action)>> \in Seq(TrackerEvent)
    BY <1>1, <1>3, <1>4, EventTyped
  <2>. QED  BY <1>2, <1>6, <2>1, ResultsCases
<1>7. CASE action \notin DefaultActions \union Forms
  BY <1>1, <1>2, <1>7, ResultsCases
<1>. QED  BY <1>5, <1>6, <1>7

LEMMA LoggedType ==
  ASSUME NEW action \in STRING, NEW result \in Seq(TrackerEvent)
  PROVE  Logged(action, result) \in Seq(TrackerEvent)
<1>1. <<ActionExecuted(action)>> \in Seq(TrackerEvent)
  <2>. DEFINE e == ActionExecuted(action)
  <2>1. e \in TrackerEvent
    BY EventTyped
  <2>. HIDE DEF e
  <2>2. <<e>> \in Seq(TrackerEvent)
    BY <2>1
  <2>. QED  BY <2>2 DEF e
<1>. QED  BY <1>1, ConcatProperties DEF Logged

LEMMA UpdateOnce ==
  ASSUME NEW t \in TrackerType, NEW e \in TrackerEvent
  PROVE  Update(t, e) = UpdateWithEvents(t, <<e>>)
<1>1. Closed(TrackerType, TrackerEvent) /\ <<>> \in Seq(TrackerEvent)
  BY UpdateType DEF Closed
<1>2. Append(<<>>, e) = <<e>>
  OBVIOUS
<1>3. UpdateWithEvents(t, Append(<<>>, e)) = Update(UpdateWithEvents(t, <<>>), e)
  <2>. DEFINE none == <<>>
  <2>1. none \in Seq(TrackerEvent)
    OBVIOUS
  <2>. HIDE DEF none
  <2>2. UpdateWithEvents(t, Append(none, e)) = Update(UpdateWithEvents(t, none), e)
    BY <1>1, <2>1, UpdatesAppend
  <2>. QED  BY <2>2 DEF none
<1>. QED  BY <1>2, <1>3, UpdatesEmpty

\* What _run_action logs: the action and what it returned, or its rejection.
LogsOf(action, state) ==
  {Logged(action, result) : result \in Results(action, state)}
    \union {<<ActionExecutionRejected(action)>>}

LEMMA AfterActionLogs ==
  ASSUME assistant \in Assistants, NEW action \in Actions \union {SESSION_START},
         NEW t \in TrackerType, NEW u \in AfterAction(t, action)
  PROVE  \E log \in LogsOf(action, t.state) :
           log \in Seq(TrackerEvent) /\ u = UpdateWithEvents(t, log)
<1>1. action \in STRING
  BY AssistantFacts, NamesAssumption
<1>2. CASE \E result \in Results(action, t.state) : u = UpdateWithEvents(t, Logged(action, result))
  BY <1>1, <1>2, ResultsType, LoggedType DEF LogsOf
<1>3. CASE u = Update(t, ActionExecutionRejected(action))
  <2>1. ActionExecutionRejected(action) \in TrackerEvent
    BY <1>1, EventTyped
  <2>2. <<ActionExecutionRejected(action)>> \in Seq(TrackerEvent)
    BY <2>1
  <2>. QED  BY <1>3, <2>1, <2>2, UpdateOnce DEF LogsOf
<1>. QED  BY <1>2, <1>3 DEF AfterAction

-----------------------------------------------------------------------------
(* The type invariant, and the agreement of the turn's tracker.             *)

\* The logs of a session start.
SessionLogs ==
  {<<ActionExecuted(SESSION_START)>>,
   <<ActionExecuted(SESSION_START)>> \o <<SessionStarted, ActionExecuted(LISTEN)>>,
   <<ActionExecutionRejected(SESSION_START)>>}

LEMMA SessionStartLogs ==
  ASSUME assistant \in Assistants, NEW state
  PROVE  LogsOf(SESSION_START, state) \subseteq SessionLogs
<1>. SUFFICES ASSUME NEW result \in Results(SESSION_START, state)
              PROVE  Logged(SESSION_START, result) \in SessionLogs
  BY DEF LogsOf, SessionLogs
<1>1. CASE result = <<>>
  <2>1. ToSet(<<>>) = {}
    BY DEF ToSet
  <2>2. <<ActionExecuted(SESSION_START)>> \o <<>> = <<ActionExecuted(SESSION_START)>>
    OBVIOUS
  <2>. QED  BY <1>1, <2>1, <2>2 DEF Logged, SessionLogs
<1>2. CASE result = <<SessionStarted, ActionExecuted(LISTEN)>>
  <2>1. \A e \in ToSet(result) : e.type # "rejected"
    BY <1>2 DEF ToSet, SessionStarted, ActionExecuted, Event
  <2>. QED  BY <1>2, <2>1 DEF Logged, SessionLogs
<1>. QED  BY <1>1, <1>2, ResultsCases

\* What a request starts to work on.
LEMMA FetchedCases ==
  ASSUME TypeOK, NEW t \in Fetched
  PROVE  /\ t \in Sound
         /\ \/ t = Restore(stored)
            \/ /\ NeedsSession(stored)
               /\ \E log \in SessionLogs :
                    log \in Seq(TrackerEvent) /\ t = UpdateWithEvents(Restore(stored), log)
<1>1. stored \in Seq(TrackerEvent) /\ assistant \in Assistants
  BY DEF TypeOK
<1>2. Restore(stored) \in Sound /\ Restore(stored).events = stored
  BY <1>1, RestoreSound
<1>3. CASE NeedsSession(stored)
  <2>1. t \in AfterAction(Restore(stored), SESSION_START)
    BY <1>2, <1>3 DEF Fetched, AfterSessionUpdate
  <2>2. PICK log \in LogsOf(SESSION_START, Restore(stored).state) :
          log \in Seq(TrackerEvent) /\ t = UpdateWithEvents(Restore(stored), log)
    BY <1>1, <1>2, <2>1, AfterActionLogs DEF Sound
  <2>3. log \in SessionLogs
    BY <1>1, SessionStartLogs
  <2>4. t \in Sound
    BY <1>2, <2>2, UpdateSound, UpdatesStay
  <2>. QED  BY <1>3, <2>2, <2>3, <2>4
<1>4. CASE ~NeedsSession(stored)
  BY <1>2, <1>4 DEF Fetched, AfterSessionUpdate
<1>. QED  BY <1>3, <1>4

LEMMA FetchedType ==
  ASSUME TypeOK, NEW t \in Fetched
  PROVE  t.events \in Seq(TrackerEvent) /\ t \in TrackerType
BY FetchedCases DEF Sound, TrackerType

\* The follow-up action is used up without an event.
LEMMA FollowupUsed ==
  ASSUME NEW t \in Sound
  PROVE  LET u == [t EXCEPT !.state.followup = NoName]
         IN  /\ u \in Sound /\ u.events = t.events
             /\ u.state.followup = NoName /\ Alike(u.state, t.state)
<1>. DEFINE u == [t EXCEPT !.state.followup = NoName]
<1>1. t \in TrackerType /\ t.state \in TrackerState
  BY DEF Sound, TrackerType
<1>2. u.events = t.events /\ u.state = [t.state EXCEPT !.followup = NoName]
  BY <1>1 DEF TrackerType
<1>3. u \in TrackerType
  BY <1>1, NamesAssumption DEF TrackerType, TrackerState
<1>4. Alike(u.state, t.state) /\ u.state.followup = NoName
  BY <1>1, <1>2 DEF Alike, TrackerState
<1>. QED  BY <1>2, <1>3, <1>4 DEF Sound, Alike

\* A round of the loop updates the tracker with what the action logs.
LEMMA RunActionLogs ==
  ASSUME TypeOK, tracker \in Sound, NEW action \in Actions \union {SESSION_START}, RunAction(action)
  PROVE  \E u \in Sound :
           /\ u.events = tracker.events /\ Alike(u.state, tracker.state)
           /\ \E log \in LogsOf(action, u.state) :
                /\ log \in Seq(TrackerEvent)
                /\ tracker' = UpdateWithEvents(u, log)
                /\ tracker' \in Sound /\ tracker'.events = tracker.events \o log
<1>. DEFINE u == [tracker EXCEPT !.state.followup = NoName]
<1>1. u \in Sound /\ u.events = tracker.events /\ Alike(u.state, tracker.state)
  BY FollowupUsed
<1>2. tracker' \in AfterAction(u, action)
  BY DEF RunAction
<1>. HIDE DEF u
<1>3. assistant \in Assistants
  BY DEF TypeOK
<1>4. u \in TrackerType
  BY <1>1 DEF Sound
<1>5. PICK log \in LogsOf(action, u.state) :
        log \in Seq(TrackerEvent) /\ tracker' = UpdateWithEvents(u, log)
  BY <1>2, <1>3, <1>4, AfterActionLogs
<1>6. tracker' \in Sound
  BY <1>1, <1>5, UpdateSound, UpdatesStay
<1>7. tracker'.events = tracker.events \o log
  BY <1>1, <1>4, <1>5, UpdatesType
<1>. QED  BY <1>1, <1>5, <1>6, <1>7

\* The inductive invariant of the types.
TypedTurn == TypeOK /\ tracker \in Sound

LEMMA NewTrackerSound == NewTracker \in Sound
<1>1. <<>> \in Seq(TrackerEvent)
  OBVIOUS
<1>. QED  BY <1>1, BlankType, ReplayEmpty DEF NewTracker, TrackerType, Sound, Alike

LEMMA TypedInit == Init => TypedTurn
<1>. SUFFICES ASSUME Init PROVE TypedTurn
  OBVIOUS
<1>1. assistant \in Assistants
  BY DEF Init
<1>2. MaxTime \in Nat /\ MaxRequests \in Nat
  BY <1>1, AssistantFacts
<1>3. <<>> \in Seq(TrackerEvent)
  OBVIOUS
<1>4. NewTracker \in Sound /\ NewTracker \in TrackerType
  BY NewTrackerSound DEF Sound
<1>5. now \in 0 .. MaxTime /\ requests \in 0 .. MaxRequests
  BY <1>2 DEF Init
<1>. QED  BY <1>1, <1>3, <1>4, <1>5 DEF Init, TypedTurn, TypeOK, TrackerType

LEMMA TypedNext == TypedTurn /\ [Next]_vars => TypedTurn'
<1>. SUFFICES ASSUME TypedTurn, [Next]_vars PROVE TypedTurn'
  OBVIOUS
<1>1. /\ TypeOK /\ tracker \in Sound /\ assistant \in Assistants
      /\ stored \in Seq(TrackerEvent) /\ now \in Nat
  <2>1. TypeOK /\ assistant \in Assistants
    BY DEF TypedTurn, TypeOK
  <2>. QED  BY <2>1, AssistantFacts DEF TypedTurn, TypeOK
<1>2. MaxTime \in Nat /\ MaxRequests \in Nat
  BY <1>1, AssistantFacts
<1>3. ASSUME NEW events \in Seq(TrackerEvent), EndTurn(events) PROVE TypedTurn'
  BY <1>1, <1>3, NewTrackerSound
     DEF EndTurn, TypedTurn, TypeOK, Sound, TrackerType, MaxTime, MaxRequests
<1>4. ASSUME NEW events \in Seq(TrackerEvent), Amend(events) PROVE TypedTurn'
  BY <1>1, <1>2, <1>4 DEF Amend, Begin, TypedTurn, TypeOK, MaxTime, MaxRequests
<1>5. CASE Tick
  BY <1>1, <1>2, <1>5 DEF Tick, TypedTurn, TypeOK, MaxTime, MaxRequests
<1>6. CASE Loop
  <2>1. tracker.events \in Seq(TrackerEvent)
    BY <1>1 DEF Sound, TrackerType
  <2>2. CASE Trip
    BY <1>3, <2>1, <2>2 DEF Trip
  <2>3. CASE Finish
    BY <1>3, <2>1, <2>3 DEF Finish
  <2>4. ASSUME NEW action \in Actions \union {SESSION_START}, RunAction(action) PROVE TypedTurn'
    <3>1. tracker' \in Sound /\ tracker' \in TrackerType
      BY <1>1, <2>4, RunActionLogs DEF Sound
    <3>2. goOn' \in BOOLEAN
      BY <2>4 DEF RunAction, PredictAnother
    <3>. QED  BY <1>1, <2>4, <3>1, <3>2
              DEF RunAction, TypedTurn, TypeOK, TrackerType, MaxTime, MaxRequests
  <2>. QED  BY <1>6, <2>2, <2>3, <2>4 DEF Loop
<1>7. CASE Abort
  BY <1>1, <1>3, <1>7 DEF Abort
<1>8. CASE PredictNext
  BY <1>1, <1>4, <1>8, FetchedType DEF PredictNext
<1>9. ASSUME NEW intent \in Intents, HandleMessage(intent) PROVE TypedTurn'
  <2>1. PICK t \in Fetched : tracker' = Update(t, UserUttered(intent, now)) /\ began' = Len(t.events) + 1
    BY <1>9 DEF HandleMessage
  <2>2. t \in Sound /\ t.events \in Seq(TrackerEvent)
    BY <1>1, FetchedCases, FetchedType
  <2>3. UserUttered(intent, now) \in TrackerEvent
    BY <1>1, EventTyped, AssistantsAssumption
  <2>4. tracker' \in Sound /\ tracker' \in TrackerType
    BY <2>1, <2>2, <2>3, UpdateSound DEF Closed, Sound
  <2>5. began' \in Nat
    BY <2>1, <2>2
  <2>. QED  BY <1>1, <1>2, <1>9, <2>4, <2>5
            DEF HandleMessage, Begin, TypedTurn, TypeOK, TrackerType, MaxTime, MaxRequests
<1>10. ASSUME NEW intent \in Intents, AddMessage(intent) PROVE TypedTurn'
  <2>1. PICK t \in Fetched : Amend(Append(t.events, UserUttered(intent, now)))
    BY <1>10 DEF AddMessage
  <2>2. t.events \in Seq(TrackerEvent)
    BY <1>1, FetchedType
  <2>3. UserUttered(intent, now) \in TrackerEvent
    BY <1>1, EventTyped, AssistantsAssumption
  <2>4. Append(t.events, UserUttered(intent, now)) \in Seq(TrackerEvent)
    BY <2>2, <2>3, AppendProperties
  <2>. QED  BY <1>4, <2>1, <2>4
<1>11. ASSUME NEW action \in Actions, ExecuteAction(action) PROVE TypedTurn'
  <2>1. PICK t \in Fetched : \E u \in AfterAction(t, action) : Amend(u.events)
    BY <1>11 DEF ExecuteAction
  <2>2. PICK u \in AfterAction(t, action) : Amend(u.events)
    BY <2>1
  <2>3. t \in TrackerType
    BY <1>1, FetchedType
  <2>4. u \in TrackerType
    BY <1>1, <2>3, AfterActionLogs, UpdatesType
  <2>. QED  BY <1>4, <2>2, <2>4 DEF TrackerType
<1>12. ASSUME NEW events \in Returned, AppendEvents(events) PROVE TypedTurn'
  <2>1. PICK t \in IF stored = <<>> /\ ~BeginWithSessionStart(events)
                       THEN Fetched ELSE {Restore(stored)} :
                 Amend(t.events \o events)
    BY <1>12 DEF AppendEvents
  <2>2. t.events \in Seq(TrackerEvent)
    BY <1>1, FetchedType, RestoreSound
  <2>3. events \in Seq(TrackerEvent)
    BY <1>1, AssistantFacts
  <2>. QED  BY <1>4, <2>1, <2>2, <2>3, ConcatProperties
<1>13. CASE UNCHANGED vars
  BY <1>13 DEF vars, TypedTurn, TypeOK, MaxTime, MaxRequests
<1>. QED  BY <1>5, <1>6, <1>7, <1>8, <1>9, <1>10, <1>11, <1>12, <1>13 DEF Next

\* Whatever the actions return and whatever is undone, the tracker, the saved
\* events and the counters keep their types.
THEOREM TypeCorrect == Spec => []TypeOK
<1>1. TypedTurn => TypeOK
  BY DEF TypedTurn
<1>. QED  BY <1>1, TypedInit, TypedNext, PTL DEF Spec

-----------------------------------------------------------------------------
(* What the next turn finds.                                                *)

\* What a store restores from the events of a sound tracker.
LEMMA RestoredAgrees ==
  ASSUME NEW t \in Sound
  PROVE  /\ Restore(t.events).state.loop = t.state.loop
         /\ LoopNames(t.events) = {} =>
              [Restore(t.events).state EXCEPT !.followup = NoName]
              = [t.state EXCEPT !.followup = NoName]
<1>. DEFINE r == Restore(t.events)
<1>1. t.events \in Seq(TrackerEvent) /\ t.state \in TrackerState
  BY DEF Sound, TrackerType
<1>2. r \in Sound /\ r.events = t.events
  BY <1>1, RestoreSound
<1>. HIDE DEF r
<1>3. r.state \in TrackerState
  BY <1>2 DEF Sound, TrackerType
<1>4. r.state.loop = t.state.loop
  BY <1>2 DEF Sound
<1>5. ASSUME LoopNames(t.events) = {}
      PROVE  [r.state EXCEPT !.followup = NoName] = [t.state EXCEPT !.followup = NoName]
  <2>1. Alike(r.state, t.state)
    BY <1>2, <1>5 DEF Sound, Alike
  <2>. QED  BY <1>1, <1>3, <2>1 DEF Alike, TrackerState
<1>. QED  BY <1>4, <1>5 DEF r

\* Whatever was replayed, undone or kept by the store as single events, the
\* next turn finds the form the last one left active.
THEOREM ActiveFormSurvives == Spec => LoopSurvives
<1>1. TypedTurn /\ [Next]_vars =>
        [Saves => Restore(stored').state.loop = tracker.state.loop]_vars
  BY RestoredAgrees DEF TypedTurn, Saves
<1>. QED  BY <1>1, TypedInit, TypedNext, PTL DEF Spec, LoopSurvives

\* Without forms, the next turn finds the dialogue as the last one left it, the
\* follow-up action aside: applying the events one by one, replaying them all
\* and undoing some lead to the same state.
THEOREM DialogueSurvives == Spec => RestoredAsLeft
<1>1. TypedTurn /\ [Next]_vars =>
        [LoopNames(tracker.events) = {} /\ Saves =>
           [Restore(stored').state EXCEPT !.followup = NoName]
           = [tracker.state EXCEPT !.followup = NoName]]_vars
  BY RestoredAgrees DEF TypedTurn, Saves
<1>. QED  BY <1>1, TypedInit, TypedNext, PTL DEF Spec, RestoredAsLeft

-----------------------------------------------------------------------------
(* The silence of a paused bot.                                             *)

\* What comes after some index of a sequence.
LEMMA Afterwards ==
  ASSUME NEW E, NEW es \in Seq(E), NEW n \in 0 .. Len(es)
  PROVE  ToSet(SubSeq(es, n + 1, Len(es))) = {es[i] : i \in n + 1 .. Len(es)}
<1>. DEFINE rest == SubSeq(es, n + 1, Len(es))
<1>1. /\ Len(rest) = Len(es) - n /\ DOMAIN rest = 1 .. Len(es) - n
      /\ \A i \in 1 .. Len(es) - n : rest[i] = es[n + i]
  OBVIOUS
<1>. HIDE DEF rest
<1>2. ASSUME NEW e \in ToSet(rest) PROVE e \in {es[i] : i \in n + 1 .. Len(es)}
  <2>1. PICK i \in 1 .. Len(es) - n : e = rest[i]
    BY <1>1 DEF ToSet
  <2>2. n + i \in n + 1 .. Len(es) /\ e = es[n + i]
    BY <1>1, <2>1
  <2>. QED  BY <2>2
<1>3. ASSUME NEW i \in n + 1 .. Len(es) PROVE es[i] \in ToSet(rest)
  <2>1. i - n \in 1 .. Len(es) - n /\ es[i] = rest[i - n]
    BY <1>1
  <2>. QED  BY <1>1, <2>1 DEF ToSet
<1>. QED  BY <1>2, <1>3 DEF rest

LEMMA Between ==
  ASSUME NEW E, NEW es \in Seq(E), NEW n \in Nat, NEW k \in 0 .. Len(es), NEW i \in n + 1 .. k
  PROVE  es[i] \in ToSet(SubSeq(es, n + 1, k))
<1>. DEFINE part == SubSeq(es, n + 1, k)
            j == i - n
<1>1. Len(es) \in Nat /\ k \in Nat /\ k =< Len(es) /\ n + 1 =< k /\ j \in 1 .. k - n
  OBVIOUS
<1>2. Len(part) = k - n /\ DOMAIN part = 1 .. k - n /\ \A m \in 1 .. k - n : part[m] = es[n + m]
  BY <1>1
<1>. HIDE DEF part
<1>3. part[j] = es[i]
  <2>1. n + j = i
    OBVIOUS
  <2>. QED  BY <1>1, <1>2, <2>1
<1>. QED  BY <1>1, <1>2, <1>3 DEF ToSet, part

\* Where something of a form's execution is undone, something is left.
LEMMA UndoneLeaves ==
  ASSUME NEW done \in Seq(Playable), NEW loop, ~FirstLoopExecutionOrUnhappyPath(loop, done)
  PROVE  UndoTillPreviousLoopExecution(loop, done) # <<>>
<1>. DEFINE stops == {i \in 1 .. Len(done) : Decides(loop, done, i)}
            I == {i \in 1 .. Len(done) : Is(done[i], "action", loop)}
            last == LastExecution(loop, done)
            d == LastDecision(loop, done)
            rest == Without({"user", "action"}, SubSeq(done, last + 1, Len(done)))
<1>1. stops \in SUBSET (1 .. Len(done)) /\ I \in SUBSET (1 .. Len(done)) /\ Len(done) \in Nat
  OBVIOUS
<1>2. d = IF stops # {} THEN Max(stops) ELSE 0
  BY DEF LastDecision
<1>3. d \in 0 .. Len(done) /\ (d > 0 => d \in stops)
  <2>. HIDE DEF stops, d
  <2>. QED  BY <1>1, <1>2, LastIndex
<1>4. d # 0 /\ Is(done[d], "action", loop)
  BY DEF FirstLoopExecutionOrUnhappyPath
<1>5. d \in I
  <2>. HIDE DEF stops, d
  <2>. QED  BY <1>3, <1>4
<1>6. last = IF I # {} THEN Max(I) ELSE 0
  BY DEF LastExecution, SelectLastInSeq
<1>7. d =< last /\ last \in 0 .. Len(done)
  <2>. HIDE DEF I, last, d
  <2>. QED  BY <1>1, <1>5, <1>6, LastIndex
<1>. HIDE DEF stops, d, I, last
<1>8. last \in 1 .. Len(done)
  BY <1>3, <1>4, <1>7
<1>9. SubSeq(done, 1, last) \in Seq(Playable) /\ Len(SubSeq(done, 1, last)) >= 1
  BY <1>1, <1>8
<1>10. rest \in Seq(Playable)
  <2>1. SubSeq(done, last + 1, Len(done)) \in Seq(Playable)
    BY <1>8
  <2>. QED  BY <2>1, WithoutType
<1>. HIDE DEF rest
<1>11. SubSeq(done, 1, last) \o rest # <<>>
  <2>. DEFINE first == SubSeq(done, 1, last)
  <2>1. first \in Seq(Playable) /\ Len(first) >= 1 /\ Len(first) \in Nat
    BY <1>9
  <2>. HIDE DEF first
  <2>2. Len(first \o rest) = Len(first) + Len(rest) /\ Len(rest) \in Nat
    BY <1>10, <2>1, ConcatProperties
  <2>. DEFINE whole == first \o rest
  <2>3. Len(whole) >= 1
    BY <2>1, <2>2
  <2>. HIDE DEF whole
  <2>4. whole # <<>>
    BY <2>3
  <2>. QED  BY <2>4 DEF first, whole
<1>. QED  BY <1>11 DEF UndoTillPreviousLoopExecution, rest, last

\* Where nothing of the conversation applies any more, nothing pauses it.
Awake == {t \in TrackerType : AppliedEvents(t.events) = <<>> => ~t.state.paused}

LEMMA UpdateAwake == Closed(Awake, TrackerEvent)
<1>. SUFFICES ASSUME NEW t \in Awake, NEW e \in TrackerEvent PROVE Update(t, e) \in Awake
  BY DEF Closed
<1>. DEFINE u == Update(t, e)
            done == AppliedEvents(t.events)
<1>1. t \in TrackerType /\ u \in TrackerType /\ u.events = Append(t.events, e)
  BY UpdateType DEF Awake
<1>2. t.events \in Seq(TrackerEvent) /\ t.state \in TrackerState /\ u.events \in Seq(TrackerEvent)
  BY <1>1 DEF TrackerType
<1>3. done \in Seq(Playable)
  BY <1>2, ReplayPlays
<1>. SUFFICES ASSUME AppliedEvents(u.events) = <<>> PROVE ~u.state.paused
  BY <1>1 DEF Awake
<1>4. CASE e.type \in Replaying
  <2>1. u.state = Replay(u.events)
    BY <1>4 DEF Update, Replaying
  <2>2. Replay(u.events) = Blank
    BY <1>2, ReplayPlays, PlayedEmpty
  <2>. QED  BY <2>1, <2>2 DEF Blank
<1>5. CASE e.type \in Resetting
  <2>1. u.state = Apply(t.state, e) /\ e.type \notin Replaying
    BY <1>5 DEF Update, Replaying, Resetting
  <2>2. AppliedTo(t.state, e, Apply(t.state, e))
    BY <1>2, <2>1, ApplyParts
  <2>. QED  BY <1>5, <2>1, <2>2 DEF AppliedTo
<1>6. CASE e.type \notin Replaying \union Resetting
  <2>1. e.type # "active_loop"
    <3>1. ASSUME e.type = "active_loop" PROVE FALSE
      <4>1. PICK some \in Seq(Playable) : AppliedEvents(u.events) = Append(some, e)
        BY <1>1, <1>2, <3>1, AppliedEventsAppend
      <4>. QED  BY <4>1
    <3>. QED  BY <3>1
  <2>2. AfterEvent(LoopNames(t.events), done, e) = <<>>
    BY <1>1, <1>2, <2>1, AppliedEventsAppend
  <2>. HIDE DEF done
  <2>3. Append(done, e) # <<>>
    BY <1>3
  <2>4. e.type \notin {"restart", "session_started", "undo", "rewind"}
    BY <1>6 DEF Replaying, Resetting
  <2>5. /\ ~FirstLoopExecutionOrUnhappyPath(e.name, done)
        /\ UndoTillPreviousLoopExecution(e.name, done) = <<>>
    BY <2>2, <2>3, <2>4 DEF AfterEvent
  <2>. QED  BY <1>3, <2>5, UndoneLeaves
<1>. QED  BY <1>4, <1>5, <1>6

LEMMA RestoreAwake ==
  ASSUME NEW es \in Seq(TrackerEvent), Restore(es).state.paused
  PROVE  AppliedEvents(es) # <<>>
<1>1. NewTracker \in Awake
  BY NewTrackerSound, BlankType DEF NewTracker, Awake, Sound, Blank
<1>2. FromEvents(es) \in Awake
  BY <1>1, UpdateAwake, UpdatesStay DEF FromEvents
<1>3. RecreateFromDialogue(es) \in Awake
  <2>1. RecreateFromDialogue(es) \in TrackerType
        /\ RecreateFromDialogue(es).state = Replay(es) /\ RecreateFromDialogue(es).events = es
    BY ReplayPlays DEF RecreateFromDialogue, TrackerType
  <2>2. AppliedEvents(es) = <<>> => Replay(es) = Blank
    BY ReplayPlays, PlayedEmpty
  <2>. QED  BY <2>1, <2>2 DEF Awake, Blank
<1>4. Restore(es) \in Awake /\ Restore(es).events = es
  BY <1>2, <1>3, RestoreSound DEF Restore
<1>. QED  BY <1>4 DEF Awake

\* The message of a turn comes after the saved events.
BeganInTurn == turn = "loop" => began \in Len(stored) + 1 .. Len(tracker.events)

New == Len(stored) + 1 .. Len(tracker.events)

\* A session that began before the message, after a silence.
NewSession ==
  /\ \E i \in Len(stored) + 1 .. began - 1 : tracker.events[i] = SessionStarted
  /\ ExpiredAt(stored, tracker.events[began].time)

\* A turn of a paused conversation that neither restarts it nor begins a
\* session after a silence has done nothing so far, and will not.
Silenced ==
  turn = "loop" /\ Restore(stored).state.paused =>
    \/ tracker.events[began].name = RESTART_INTENT
    \/ NewSession
    \/ /\ \A i \in New : tracker.events[i].type = "action" =>
                           tracker.events[i] = ActionExecuted(SESSION_START)
       /\ tracker.state.paused
       /\ tracker.state.latest_message = tracker.events[began]

\* A message to a paused conversation.
LEMMA MessageToPaused ==
  ASSUME TypedTurn, NEW intent \in Intents, HandleMessage(intent)
  PROVE  BeganInTurn' /\ Silenced'
<1>. DEFINE r == Restore(stored)
           msg == UserUttered(intent, now)
           n == Len(stored)
<1>1. /\ TypeOK /\ stored \in Seq(TrackerEvent) /\ n \in Nat /\ now \in Nat
  <2>1. TypeOK /\ assistant \in Assistants /\ stored \in Seq(TrackerEvent)
    BY DEF TypedTurn, TypeOK
  <2>. QED  BY <2>1, AssistantFacts DEF TypeOK
<1>2. r \in TrackerType /\ r.events = stored /\ r.state \in TrackerState
  BY <1>1, RestoreSound DEF Sound, TrackerType
<1>. HIDE DEF r
<1>3. msg \in TrackerEvent /\ msg.type = "user" /\ msg.type \notin Replaying
  BY <1>1, EventTyped, AssistantsAssumption DEF UserUttered, Event, Replaying
<1>. HIDE DEF msg
<1>4. PICK t \in Fetched : tracker' = Update(t, msg) /\ began' = Len(t.events) + 1
  BY DEF HandleMessage, msg
<1>5. /\ t \in TrackerType /\ t.events \in Seq(TrackerEvent) /\ t.state \in TrackerState
  BY <1>1, FetchedType DEF TrackerType
<1>6. /\ tracker'.events = Append(t.events, msg) /\ Len(tracker'.events) = Len(t.events) + 1
      /\ tracker'.events[began'] = msg /\ Len(t.events) \in Nat
      /\ \A i \in 1 .. Len(t.events) : tracker'.events[i] = t.events[i]
  <2>1. tracker'.events = Append(t.events, msg)
    BY <1>3, <1>4, <1>5, UpdateType
  <2>2. /\ Len(Append(t.events, msg)) = Len(t.events) + 1 /\ Len(t.events) \in Nat
        /\ Append(t.events, msg)[Len(t.events) + 1] = msg
        /\ \A i \in 1 .. Len(t.events) : Append(t.events, msg)[i] = t.events[i]
    BY <1>3, <1>5, Appended
  <2>. QED  BY <1>4, <2>1, <2>2
<1>7. /\ tracker'.state.paused = t.state.paused
      /\ tracker'.state.latest_message = tracker'.events[began']
  <2>1. tracker'.state = Apply(t.state, msg)
    BY <1>3, <1>4 DEF Update, Replaying
  <2>2. AppliedTo(t.state, msg, Apply(t.state, msg))
    BY <1>3, <1>5, ApplyParts
  <2>. QED  BY <1>3, <1>6, <2>1, <2>2 DEF AppliedTo, Resetting
<1>8. stored' = stored /\ New' = n + 1 .. Len(t.events) + 1
  BY <1>6 DEF HandleMessage, New
<1>9. CASE t = r
  <2>1. t.events = stored /\ Len(t.events) = n
    BY <1>2, <1>9
  <2>2. began' = n + 1 /\ New' = {n + 1}
    BY <1>1, <1>4, <1>8, <2>1
  <2>3. tracker'.events[n + 1] = msg /\ Len(tracker'.events) = n + 1
    BY <1>6, <2>1
  <2>4. BeganInTurn'
    BY <1>1, <1>8, <2>2, <2>3 DEF BeganInTurn
  <2>5. Silenced'
    BY <1>3, <1>7, <1>8, <1>9, <2>2, <2>3 DEF Silenced, r
  <2>. QED  BY <2>4, <2>5
<1>10. CASE /\ NeedsSession(stored)
            /\ \E log \in SessionLogs : log \in Seq(TrackerEvent) /\ t = UpdateWithEvents(r, log)
  <2>1. PICK log \in SessionLogs : log \in Seq(TrackerEvent) /\ t = UpdateWithEvents(r, log)
    BY <1>10
  <2>2. t.events = stored \o log
    BY <1>2, <2>1, UpdatesType
  <2>3. /\ Len(t.events) = n + Len(log) /\ Len(log) \in Nat
        /\ \A i \in 1 .. Len(log) : t.events[n + i] = log[i]
    BY <1>1, <2>1, <2>2
  <2>4. BeganInTurn'
    BY <1>1, <1>4, <1>6, <1>8, <2>3 DEF BeganInTurn
  <2>5. CASE log = <<ActionExecuted(SESSION_START)>> \o <<SessionStarted, ActionExecuted(LISTEN)>>
    <3>1. Len(log) = 3 /\ log[2] = SessionStarted
      BY <2>5
    <3>2. Len(stored') = n /\ began' = n + 4 /\ tracker'.events[n + 2] = SessionStarted
      BY <1>1, <1>4, <1>6, <1>8, <2>3, <3>1
    <3>3. \E i \in Len(stored') + 1 .. began' - 1 : tracker'.events[i] = SessionStarted
      BY <1>1, <3>2
    <3>4. ASSUME Restore(stored).state.paused, NeedsSession(stored)
          PROVE  NewSession'
      <4>1. ExpiredAt(stored, now)
        BY <1>1, <3>4, RestoreAwake DEF NeedsSession, SessionExpired
      <4>2. tracker'.events[began'].time = now
        <5>1. msg.time = now
          BY DEF msg, UserUttered, Event
        <5>. QED  BY <1>6, <5>1
      <4>3. ExpiredAt(stored, tracker.events[began].time)'
        <5>1. assistant' = assistant
          BY DEF HandleMessage, Begin
        <5>. QED  BY <1>8, <4>1, <4>2, <5>1 DEF ExpiredAt, Expiry
      <4>. QED  BY <3>3, <4>3 DEF NewSession
    <3>. QED  BY <1>8, <1>10, <2>4, <3>4 DEF Silenced
  <2>6. ASSUME NEW e, log = <<e>>, e.type \in {"action", "rejected"},
               e.type = "action" => e = ActionExecuted(SESSION_START)
        PROVE  Silenced'
    <3>1. e \in TrackerEvent /\ Len(log) = 1 /\ log[1] = e
      BY <2>1, <2>6
    <3>2. t = Update(r, e)
      BY <1>2, <2>1, <2>6, <3>1, UpdateOnce
    <3>3. t.state = Apply(r.state, e)
      BY <2>6, <3>2 DEF Update
    <3>4. t.state.paused = r.state.paused
      <4>1. AppliedTo(r.state, e, Apply(r.state, e))
        BY <1>2, <2>6, <3>1, ApplyParts DEF Replaying
      <4>. QED  BY <2>6, <3>3, <4>1 DEF AppliedTo, Resetting
    <3>5. New' = {n + 1, n + 2} /\ tracker'.events[n + 1] = e /\ tracker'.events[n + 2] = msg
      BY <1>1, <1>4, <1>6, <1>8, <2>3, <3>1
    <3>. QED  BY <1>3, <1>7, <1>8, <2>6, <3>4, <3>5 DEF Silenced, r
  <2>. QED  BY <2>1, <2>4, <2>5, <2>6
            DEF SessionLogs, ActionExecuted, ActionExecutionRejected, Event
<1>. QED  BY <1>1, <1>4, <1>9, <1>10, FetchedCases DEF r

LEMMA SilencedNext ==
  TypedTurn /\ BeganInTurn /\ Silenced /\ [Next]_vars => BeganInTurn' /\ Silenced'
<1>. SUFFICES ASSUME TypedTurn, BeganInTurn, Silenced, [Next]_vars
              PROVE  BeganInTurn' /\ Silenced'
  OBVIOUS
<1>1. CASE UNCHANGED <<assistant, stored, turn, tracker, began>>
  BY <1>1 DEF BeganInTurn, Silenced, New, NewSession, ExpiredAt, Expiry
<1>2. CASE turn' # "loop"
  BY <1>2 DEF BeganInTurn, Silenced
<1>3. ASSUME NEW action \in Actions \union {SESSION_START}, RunAction(action)
      PROVE  BeganInTurn' /\ Silenced'
  <2>1. /\ turn = "loop" /\ turn' = "loop" /\ stored' = stored /\ began' = began
        /\ (tracker.state.paused => tracker.state.latest_message.name = RESTART_INTENT)
    BY <1>3 DEF RunAction, KeepsPredicting, ShouldHandle
  <2>2. /\ TypeOK /\ tracker \in Sound /\ tracker.events \in Seq(TrackerEvent)
        /\ stored \in Seq(TrackerEvent)
    BY DEF TypedTurn, TypeOK
  <2>3. PICK log \in Seq(TrackerEvent) : tracker'.events = tracker.events \o log
    BY <1>3, <2>2, RunActionLogs
  <2>4. /\ Len(tracker.events) \in Nat /\ Len(tracker'.events) = Len(tracker.events) + Len(log)
        /\ Len(log) \in Nat /\ Len(stored) \in Nat
        /\ \A i \in 1 .. Len(tracker.events) : tracker'.events[i] = tracker.events[i]
    BY <2>2, <2>3
  <2>5. began \in New /\ New \subseteq 1 .. Len(tracker.events) /\ New \subseteq New'
    BY <2>1, <2>4 DEF BeganInTurn, New
  <2>6. BeganInTurn'
    BY <2>1, <2>5 DEF BeganInTurn, New
  <2>7. ASSUME NewSession PROVE NewSession'
    <3>1. assistant' = assistant /\ tracker'.events[began] = tracker.events[began]
      BY <1>3, <2>4, <2>5 DEF RunAction
    <3>2. \E i \in Len(stored) + 1 .. began - 1 : tracker'.events[i] = SessionStarted
      BY <2>4, <2>5, <2>7 DEF NewSession
    <3>. QED  BY <2>1, <2>7, <3>1, <3>2 DEF NewSession, ExpiredAt, Expiry
  <2>8. Silenced'
    BY <2>1, <2>4, <2>5, <2>7 DEF Silenced
  <2>. QED  BY <2>6, <2>8
<1>4. ASSUME NEW intent \in Intents, HandleMessage(intent) PROVE BeganInTurn' /\ Silenced'
  BY <1>4, MessageToPaused
<1>5. ASSUME NEW events, Amend(events) PROVE turn' # "loop"
  BY <1>5 DEF Amend, Begin
<1>6. Next => \/ turn' # "loop" \/ UNCHANGED <<assistant, stored, turn, tracker, began>>
              \/ \E action \in Actions \union {SESSION_START} : RunAction(action)
              \/ \E intent \in Intents : HandleMessage(intent)
  BY <1>5 DEF Next, Loop, Tick, Trip, Finish, Abort, EndTurn, PredictNext, AddMessage,
              ExecuteAction, AppendEvents
<1>. QED  BY <1>1, <1>2, <1>3, <1>4, <1>6 DEF vars

\* While a human has taken over, the bot is silent: whatever follow-up action is
\* pending and whatever the policies would choose, a message to a paused
\* conversation gets no action but the start of a session, unless it restarts
\* the conversation or begins a new session after a silence of the user that
\* lasted longer than session_expiration_time.
THEOREM PauseIsKept == Spec => PausedBotIsSilent
<1>. DEFINE Inv == TypedTurn /\ BeganInTurn /\ Silenced
            Quiet ==
              \/ tracker.events[began].name = RESTART_INTENT
              \/ /\ SessionStarted \in ToSet(SubSeq(tracker.events, Len(stored) + 1, began - 1))
                 /\ ExpiredAt(stored, tracker.events[began].time)
              \/ \A e \in ToSet(SubSeq(tracker.events, Len(stored) + 1, Len(tracker.events))) :
                   e.type = "action" => e = ActionExecuted(SESSION_START)
<1>1. Init => Inv
  BY TypedInit DEF Init, BeganInTurn, Silenced
<1>2. Inv /\ [Next]_vars => Inv'
  BY TypedNext, SilencedNext
<1>3. Inv => (Saves /\ Restore(stored).state.paused => Quiet)
  <2>. SUFFICES ASSUME Inv, Saves, Restore(stored).state.paused
                PROVE  Quiet
    OBVIOUS
  <2>1. turn = "loop" /\ tracker.events \in Seq(TrackerEvent) /\ stored \in Seq(TrackerEvent)
    BY DEF Saves, TypedTurn, TypeOK
  <2>2. Len(stored) \in 0 .. Len(tracker.events)
    BY <2>1 DEF BeganInTurn
  <2>3. ToSet(SubSeq(tracker.events, Len(stored) + 1, Len(tracker.events)))
          = {tracker.events[i] : i \in New}
    BY <2>1, <2>2, Afterwards DEF New
  <2>4. ASSUME NEW i \in Len(stored) + 1 .. began - 1
        PROVE  tracker.events[i] \in ToSet(SubSeq(tracker.events, Len(stored) + 1, began - 1))
    BY <2>1, Between DEF BeganInTurn
  <2>5. CASE NewSession
    BY <2>4, <2>5 DEF NewSession
  <2>6. CASE ~NewSession
    BY <2>1, <2>3, <2>6 DEF Silenced
  <2>. QED  BY <2>5, <2>6
<1>. QED  BY <1>1, <1>2, <1>3, PTL DEF Spec, PausedBotIsSilent

-----------------------------------------------------------------------------
(* The circuit breaker.                                                     *)

\* The events actions return report no executions: an action server may let
\* them, and what it reports is not the processor's to limit.
NoExecutionReturned ==
  \A a \in Assistants : \A result \in a.returned :
    \A i \in 1 .. Len(result) : result[i].type # "action"

\* What an action's log says it executed.
LEMMA LogExecutions ==
  ASSUME NoExecutionReturned, assistant \in Assistants,
         NEW action \in Actions \union {SESSION_START}, NEW state, NEW log \in LogsOf(action, state)
  PROVE  \A i \in 1 .. Len(log) :
           log[i].type = "action" =>
             \/ i = 1 /\ log[i].name = action
             \/ action = SESSION_START /\ log[i].name = LISTEN
<1>1. CASE log = <<ActionExecutionRejected(action)>>
  BY <1>1 DEF ActionExecutionRejected, Event
<1>2. ASSUME NEW result \in Results(action, state), log = Logged(action, result),
             \A i \in 1 .. Len(result) :
               result[i].type = "action" => action = SESSION_START /\ result[i].name = LISTEN
      PROVE  \A i \in 1 .. Len(log) :
               log[i].type = "action" =>
                 \/ i = 1 /\ log[i].name = action
                 \/ action = SESSION_START /\ log[i].name = LISTEN
  <2>1. CASE log = result
    BY <1>2, <2>1
  <2>2. CASE log = <<ActionExecuted(action)>> \o result
    <3>1. result \in Seq(TrackerEvent)
      BY ResultsType
    <3>2. /\ Len(log) = Len(result) + 1 /\ Len(result) \in Nat /\ log[1] = ActionExecuted(action)
          /\ \A i \in 2 .. Len(log) : log[i] = result[i - 1] /\ i - 1 \in 1 .. Len(result)
      <4>1. <<ActionExecuted(action)>> \in Seq({ActionExecuted(action)} \union TrackerEvent)
            /\ result \in Seq({ActionExecuted(action)} \union TrackerEvent)
        BY <3>1
      <4>. HIDE DEF ActionExecuted
      <4>. QED  BY <2>2, <3>1, <4>1, ConcatProperties
    <3>. QED  BY <1>2, <3>2 DEF ActionExecuted, Event
  <2>. QED  BY <1>2, <2>1, <2>2 DEF Logged
<1>3. ASSUME NEW result \in Results(action, state), NEW i \in 1 .. Len(result),
             result[i].type = "action"
      PROVE  action = SESSION_START /\ result[i].name = LISTEN
  <2>1. CASE action \in Forms
    <3>1. \/ result = <<>> \/ result = <<ActiveLoop(action)>> \/ result = <<ActiveLoop(NoName)>>
          \/ result = <<ActiveLoop(action), ActiveLoop(NoName)>>
          \/ result = <<ActionExecutionRejected(action)>>
          \/ result = <<ActiveLoop(action), ActionExecutionRejected(action)>>
      BY <2>1, ResultsCases
    <3>. QED  BY <1>3, <3>1 DEF ActiveLoop, ActionExecutionRejected, Event
  <2>2. CASE action \in DefaultActions \ {SESSION_START}
    <3>1. \/ result = <<>> \/ result = <<Restarted>> \/ result = <<UserUtteranceReverted>>
          \/ result = <<UserUtteranceReverted, UserUtteranceReverted>>
      BY <2>2, ResultsCases DEF DefaultActions
    <3>. QED  BY <1>3, <3>1 DEF Restarted, UserUtteranceReverted, Event
  <2>3. CASE action = SESSION_START
    <3>1. result = <<>> \/ result = <<SessionStarted, ActionExecuted(LISTEN)>>
      BY <2>3, ResultsCases
    <3>. QED  BY <1>3, <2>3, <3>1 DEF SessionStarted, ActionExecuted, Event
  <2>4. CASE action \notin DefaultActions \union Forms
    <3>1. result = <<>> \/ result \in Returned
      BY <2>4, ResultsCases
    <3>. QED  BY <1>3, <3>1 DEF NoExecutionReturned, Returned
  <2>. QED  BY <2>1, <2>2, <2>3, <2>4
<1>. QED  BY <1>1, <1>2, <1>3 DEF LogsOf

\* The executions a turn has logged.
Executions == {i \in began + 1 .. Len(tracker.events) :
                 tracker.events[i].type = "action" /\ tracker.events[i].name # LISTEN}

\* While the loop goes on, every execution of the turn counts, and the latest
\* action does not stop the count.
Counted ==
  turn = "loop" /\ ~Reverts(TurnEvents) =>
    /\ Cardinality(Executions) =< MaxPredictions
    /\ goOn =>
         \A i \in began + 1 .. Len(tracker.events) :
           tracker.events[i].type = "action" =>
             PredictAnother(tracker.events[i].name) /\ PredictAnother(tracker.state.latest_action)

LEMMA ExecutionsFinite ==
  ASSUME NEW m \in Nat, NEW n \in Nat, NEW S \in SUBSET (m + 1 .. n)
  PROVE  IsFiniteSet(S) /\ Cardinality(S) \in Nat
<1>1. IsFiniteSet(m + 1 .. n)
  BY FS_Interval
<1>. QED  BY <1>1, FS_Subset, FS_CardinalityType

\* The circuit breaker counts every execution of a turn that goes on.
LEMMA CountedExecutions ==
  ASSUME NEW n \in Nat, began \in 0 .. n, Len(tracker.events) = n,
         \A i \in began + 1 .. n :
           tracker.events[i].type = "action" => PredictAnother(tracker.events[i].name)
  PROVE  /\ ExecutedSinceListening(tracker.events) \in Nat
         /\ Cardinality(Executions) =< ExecutedSinceListening(tracker.events)
<1>. DEFINE stop(e) == e \in {ActionExecuted(LISTEN), ActionExecuted(SESSION_START)}
           I == {i \in 1 .. n : stop(tracker.events[i])}
           last == IF I # {} THEN Max(I) ELSE 0
           counted == {j \in last + 1 .. n : tracker.events[j].type = "action"}
<1>1. ExecutedSinceListening(tracker.events) = Cardinality(counted)
  BY DEF ExecutedSinceListening, SelectLastInSeq
<1>2. last \in 0 .. began
  <2>1. I \in SUBSET (1 .. n)
    OBVIOUS
  <2>2. \A i \in I : i =< began
    BY DEF PredictAnother, ActionExecuted, Event
  <2>. HIDE DEF I
  <2>3. last \in 0 .. n /\ (last > 0 => last \in I)
    BY <2>1, LastIndex
  <2>. HIDE DEF last
  <2>. QED  BY <2>2, <2>3
<1>. HIDE DEF last
<1>3. Executions \in SUBSET counted /\ counted \in SUBSET (last + 1 .. n) /\ last \in Nat
  BY <1>2 DEF Executions
<1>. HIDE DEF counted
<1>4. IsFiniteSet(counted) /\ Cardinality(counted) \in Nat
  BY <1>3, ExecutionsFinite
<1>5. Cardinality(Executions) =< Cardinality(counted)
  BY <1>3, <1>4, FS_Subset
<1>. QED  BY <1>1, <1>4, <1>5

\* Trackers whose executions since some index do not stop the count, and what
\* keeps them so.
Unstopped(m) == {t \in TrackerType :
  (\E i \in m + 1 .. Len(t.events) : t.events[i].type = "action")
    => PredictAnother(t.state.latest_action)}
Harmless == {e \in TrackerEvent : /\ e.type \notin Replaying
                                  /\ e.type = "action" => PredictAnother(e.name)}

LEMMA UnstoppedClosed == \A m \in Nat : Closed(Unstopped(m), Harmless)
<1>. SUFFICES ASSUME NEW m \in Nat, NEW t \in Unstopped(m), NEW e \in Harmless
              PROVE  Update(t, e) \in Unstopped(m)
  BY DEF Closed
<1>. DEFINE u == Update(t, e)
<1>1. t \in TrackerType /\ e \in TrackerEvent /\ e.type \notin Replaying
  BY DEF Unstopped, Harmless
<1>2. t.events \in Seq(TrackerEvent) /\ t.state \in TrackerState
  BY <1>1 DEF TrackerType
<1>3. u \in TrackerType /\ u.events = Append(t.events, e)
  BY <1>1, UpdateType
<1>4. u.state = Apply(t.state, e)
  BY <1>1 DEF Update, Replaying
<1>. HIDE DEF u
<1>5. AppliedTo(t.state, e, Apply(t.state, e))
  BY <1>1, <1>2, ApplyParts
<1>6. ASSUME \E i \in m + 1 .. Len(u.events) : u.events[i].type = "action"
      PROVE  PredictAnother(u.state.latest_action)
  <2>1. CASE e.type \in Resetting
    BY <1>4, <1>5, <2>1 DEF AppliedTo, PredictAnother, NoName, LISTEN, SESSION_START
  <2>2. CASE e.type = "action"
    BY <1>4, <1>5, <2>2 DEF AppliedTo, Resetting, Harmless
  <2>3. CASE e.type \notin Resetting /\ e.type # "action"
    <3>1. PICK i \in m + 1 .. Len(u.events) : u.events[i].type = "action"
      BY <1>6
    <3>2. i \in m + 1 .. Len(t.events) /\ t.events[i].type = "action"
      <4>1. /\ Len(u.events) = Len(t.events) + 1 /\ Len(t.events) \in Nat
            /\ u.events[Len(t.events) + 1] = e
            /\ \A j \in 1 .. Len(t.events) : u.events[j] = t.events[j]
        BY <1>1, <1>2, <1>3, Appended
      <4>. QED  BY <2>3, <3>1, <4>1
    <3>3. PredictAnother(t.state.latest_action)
      BY <3>2 DEF Unstopped
    <3>. QED  BY <1>4, <1>5, <2>3, <3>3 DEF AppliedTo
  <2>. QED  BY <2>1, <2>2, <2>3
<1>. QED  BY <1>3, <1>6 DEF Unstopped, u

\* A turn reverts nothing if none of its events does.
LEMMA RevertsNothing ==
  ASSUME tracker.events \in Seq(TrackerEvent), began \in 0 .. Len(tracker.events)
  PROVE  Reverts(TurnEvents) <=>
           \E i \in began + 1 .. Len(tracker.events) : tracker.events[i].type \in Replaying
<1>1. ToSet(TurnEvents) = {tracker.events[i] : i \in began + 1 .. Len(tracker.events)}
  BY Afterwards DEF TurnEvents
<1>. QED  BY <1>1 DEF Reverts, Replaying

\* A round of the loop keeps the count.
LEMMA RoundCounted ==
  ASSUME NoExecutionReturned, TypedTurn, BeganInTurn, Counted, ~Reverts(TurnEvents'),
         NEW action \in Actions \union {SESSION_START}, RunAction(action)
  PROVE  Counted'
<1>. DEFINE n == Len(tracker.events)
<1>1. /\ TypeOK /\ tracker \in Sound /\ tracker.events \in Seq(TrackerEvent) /\ n \in Nat
      /\ assistant \in Assistants /\ MaxPredictions \in Nat \ {0}
  BY AssistantFacts DEF TypedTurn, TypeOK
<1>2. /\ turn = "loop" /\ turn' = "loop" /\ goOn /\ goOn' = PredictAnother(action)
      /\ ~LimitReached(tracker) /\ began' = began /\ assistant' = assistant
  BY DEF RunAction, KeepsPredicting
<1>3. began \in 1 .. n
  BY <1>1, <1>2 DEF BeganInTurn, TypeOK
<1>4. PICK u \in Sound :
        /\ u.events = tracker.events /\ Alike(u.state, tracker.state)
        /\ \E log \in LogsOf(action, u.state) :
             /\ log \in Seq(TrackerEvent) /\ tracker' = UpdateWithEvents(u, log)
             /\ tracker' \in Sound /\ tracker'.events = tracker.events \o log
  BY <1>1, RunActionLogs
<1>5. PICK log \in LogsOf(action, u.state) :
        /\ log \in Seq(TrackerEvent) /\ tracker' = UpdateWithEvents(u, log)
        /\ tracker' \in Sound /\ tracker'.events = tracker.events \o log
  BY <1>4
<1>6. /\ Len(tracker'.events) = n + Len(log) /\ Len(log) \in Nat
      /\ \A i \in 1 .. n : tracker'.events[i] = tracker.events[i]
      /\ \A i \in 1 .. Len(log) : tracker'.events[n + i] = log[i]
  BY <1>1, <1>5
<1>. HIDE DEF n
<1>7. \A i \in 1 .. Len(log) :
        log[i].type = "action" =>
          \/ i = 1 /\ log[i].name = action
          \/ action = SESSION_START /\ log[i].name = LISTEN
  BY <1>1, LogExecutions
<1>8. \A i \in began + 1 .. n + Len(log) : tracker'.events[i].type \notin Replaying
  <2>1. tracker'.events \in Seq(TrackerEvent) /\ began' \in 0 .. Len(tracker'.events)
    <3>1. tracker' \in TrackerType
      BY <1>5 DEF Sound
    <3>. QED  BY <1>1, <1>2, <1>3, <1>6, <3>1 DEF TrackerType
  <2>2. Reverts(TurnEvents') <=>
          \E i \in began' + 1 .. Len(tracker'.events) : tracker'.events[i].type \in Replaying
    <3>1. ToSet(TurnEvents') = {tracker'.events[i] : i \in began' + 1 .. Len(tracker'.events)}
      BY <2>1, Afterwards DEF TurnEvents
    <3>. QED  BY <3>1 DEF Reverts, Replaying
  <2>. QED  BY <1>2, <1>6, <2>2
<1>9. ~Reverts(TurnEvents)
  <2>1. \A i \in began + 1 .. n : tracker.events[i].type \notin Replaying
    <3>1. ASSUME NEW i \in began + 1 .. n
          PROVE  /\ i \in began + 1 .. n + Len(log)
                 /\ tracker'.events[i] = tracker.events[i]
      BY <1>1, <1>3, <1>6
    <3>. QED  BY <1>8, <3>1
  <2>. QED  BY <1>1, <1>3, <2>1, RevertsNothing DEF n
<1>10. /\ Cardinality(Executions) =< MaxPredictions
       /\ \A i \in began + 1 .. n :
            tracker.events[i].type = "action" =>
              PredictAnother(tracker.events[i].name) /\ PredictAnother(tracker.state.latest_action)
  BY <1>2, <1>9 DEF Counted, n
<1>11. IsFiniteSet(Executions) /\ Cardinality(Executions) \in Nat
  <2>1. Executions \in SUBSET (began + 1 .. n)
    BY DEF Executions, n
  <2>2. IsFiniteSet(began + 1 .. n)
    BY <1>1, <1>3, FS_Interval
  <2>. QED  BY <2>1, <2>2, FS_Subset, FS_CardinalityType
\* One execution more at most.
<1>12. Cardinality(Executions') =< MaxPredictions
  <2>1. Executions' \in SUBSET (Executions \union {n + 1})
    <3>. SUFFICES ASSUME NEW i \in Executions', i # n + 1 PROVE i \in Executions
      OBVIOUS
    <3>1. /\ i \in began + 1 .. n + Len(log)
          /\ tracker'.events[i].type = "action" /\ tracker'.events[i].name # LISTEN
      BY <1>2, <1>6 DEF Executions
    <3>2. CASE i =< n
      BY <1>1, <1>3, <1>6, <3>1, <3>2 DEF Executions, n
    <3>3. CASE i > n
      <4>1. i - n \in 2 .. Len(log) /\ tracker'.events[i] = log[i - n]
        BY <1>1, <1>3, <1>6, <3>1, <3>3
      <4>. QED  BY <1>7, <3>1, <4>1
    <3>. QED  BY <1>1, <1>3, <3>1, <3>2, <3>3
  <2>2. Cardinality(Executions) + 1 =< MaxPredictions
    <3>1. CASE Executions = {}
      BY <1>1, <3>1, FS_EmptySet
    <3>2. CASE Executions # {}
      <4>1. PredictAnother(tracker.state.latest_action)
        BY <1>10, <3>2 DEF Executions, n
      <4>2. ~(ExecutedSinceListening(tracker.events) >= MaxPredictions)
        BY <1>2, <4>1 DEF LimitReached
      <4>3. /\ ExecutedSinceListening(tracker.events) \in Nat
            /\ Cardinality(Executions) =< ExecutedSinceListening(tracker.events)
        BY <1>1, <1>3, <1>10, CountedExecutions DEF n
      <4>. QED  BY <1>1, <1>11, <4>2, <4>3
    <3>. QED  BY <3>1, <3>2
  <2>3. /\ IsFiniteSet(Executions \union {n + 1})
        /\ Cardinality(Executions \union {n + 1}) =< Cardinality(Executions) + 1
    BY <1>11, FS_AddElement
  <2>4. Cardinality(Executions') =< Cardinality(Executions \union {n + 1})
    BY <2>1, <2>3, FS_Subset
  <2>5. Cardinality(Executions') \in Nat /\ Cardinality(Executions \union {n + 1}) \in Nat
    BY <2>1, <2>3, FS_Subset, FS_CardinalityType
  <2>. QED  BY <1>1, <1>11, <2>2, <2>3, <2>4, <2>5
<1>13. ASSUME goOn', NEW i \in began + 1 .. n + Len(log), tracker'.events[i].type = "action"
       PROVE  PredictAnother(tracker'.events[i].name) /\ PredictAnother(tracker'.state.latest_action)
  <2>1. PredictAnother(action) /\ action # SESSION_START
    BY <1>2, <1>13 DEF PredictAnother
  <2>2. \A j \in 1 .. Len(log) : log[j].type = "action" => PredictAnother(log[j].name)
    BY <1>7, <2>1
  <2>3. PredictAnother(tracker'.events[i].name)
    <3>1. CASE i =< n
      <4>1. i \in began + 1 .. n /\ tracker'.events[i] = tracker.events[i]
        BY <1>1, <1>3, <1>6, <3>1
      <4>. QED  BY <1>10, <1>13, <4>1
    <3>2. CASE i > n
      <4>1. i - n \in 1 .. Len(log) /\ tracker'.events[i] = log[i - n]
        BY <1>1, <1>3, <1>6, <3>2
      <4>. QED  BY <1>13, <2>2, <4>1
    <3>. QED  BY <1>1, <1>3, <3>1, <3>2
  <2>4. u \in Unstopped(began)
    BY <1>4, <1>10 DEF Unstopped, Sound, Alike, n
  <2>5. log \in Seq(Harmless)
    <3>1. \A j \in 1 .. Len(log) : log[j] \in Harmless
      <4>. SUFFICES ASSUME NEW j \in 1 .. Len(log) PROVE log[j] \in Harmless
        OBVIOUS
      <4>1. log[j] \in TrackerEvent
        BY <1>5
      <4>2. log[j].type \notin Replaying
        BY <1>1, <1>3, <1>6, <1>8
      <4>. QED  BY <2>2, <4>1, <4>2 DEF Harmless
    <3>. QED  BY <1>5, <3>1, IsASeq
  <2>6. tracker' \in Unstopped(began)
    BY <1>3, <1>5, <2>4, <2>5, UnstoppedClosed, UpdatesStay
  <2>7. i \in began + 1 .. Len(tracker'.events)
    BY <1>6
  <2>. QED  BY <1>13, <2>3, <2>6, <2>7 DEF Unstopped
<1>. QED  BY <1>2, <1>6, <1>12, <1>13 DEF Counted, MaxPredictions

\* A new turn has executed nothing.
LEMMA BegunCounted ==
  ASSUME TypedTurn, NEW intent \in Intents, HandleMessage(intent)
  PROVE  Counted'
<1>1. /\ TypeOK /\ assistant \in Assistants /\ assistant' = assistant
      /\ MaxPredictions \in Nat \ {0} /\ now \in Nat
  BY AssistantFacts DEF TypedTurn, TypeOK, HandleMessage, Begin
<1>2. PICK t \in Fetched : tracker' = Update(t, UserUttered(intent, now)) /\ began' = Len(t.events) + 1
  BY DEF HandleMessage
<1>3. t \in TrackerType /\ t.events \in Seq(TrackerEvent) /\ UserUttered(intent, now) \in TrackerEvent
  BY <1>1, FetchedType, EventTyped, AssistantsAssumption
<1>4. tracker'.events = Append(t.events, UserUttered(intent, now))
  BY <1>2, <1>3, UpdateType
<1>5. Len(tracker'.events) = Len(t.events) + 1 /\ Len(t.events) \in Nat
  BY <1>3, <1>4, Appended
<1>6. began' + 1 .. Len(tracker'.events) = {}
  BY <1>2, <1>5
<1>7. Executions' = {}
  BY <1>6 DEF Executions
<1>8. Cardinality(Executions') = 0
  BY <1>7, FS_EmptySet
<1>. QED  BY <1>1, <1>6, <1>8 DEF Counted, MaxPredictions

LEMMA CountedNext ==
  ASSUME NoExecutionReturned
  PROVE  TypedTurn /\ BeganInTurn /\ Counted /\ [Next]_vars => Counted'
<1>. SUFFICES ASSUME TypedTurn, BeganInTurn, Counted, [Next]_vars PROVE Counted'
  OBVIOUS
<1>1. CASE UNCHANGED <<assistant, turn, tracker, goOn, began>>
  BY <1>1 DEF Counted, Executions, TurnEvents, Reverts, MaxPredictions
<1>2. CASE turn' # "loop"
  BY <1>2 DEF Counted
<1>3. ASSUME NEW action \in Actions \union {SESSION_START}, RunAction(action) PROVE Counted'
  <2>1. CASE Reverts(TurnEvents')
    BY <2>1 DEF Counted, Reverts
  <2>2. CASE ~Reverts(TurnEvents')
    BY <1>3, <2>2, RoundCounted
  <2>. QED  BY <2>1, <2>2
<1>4. ASSUME NEW intent \in Intents, HandleMessage(intent) PROVE Counted'
  BY <1>4, BegunCounted
<1>5. ASSUME NEW events, Amend(events) PROVE turn' # "loop"
  BY <1>5 DEF Amend, Begin
<1>6. Next => \/ turn' # "loop" \/ UNCHANGED <<assistant, turn, tracker, goOn, began>>
              \/ \E action \in Actions \union {SESSION_START} : RunAction(action)
              \/ \E intent \in Intents : HandleMessage(intent)
  BY <1>5 DEF Next, Loop, Tick, Trip, Finish, Abort, EndTurn, PredictNext, AddMessage,
              ExecuteAction, AppendEvents
<1>. QED  BY <1>1, <1>2, <1>3, <1>4, <1>6 DEF vars

\* The circuit breaker works: whatever the policies choose, a turn that reverts
\* nothing executes at most max_number_of_predictions actions.
THEOREM TurnsAreBounded ==
  ASSUME NoExecutionReturned
  PROVE  Spec => []NoRunawayTurn
<1>. DEFINE Inv == TypedTurn /\ BeganInTurn /\ Silenced /\ Counted
<1>1. Init => Inv
  BY TypedInit DEF Init, BeganInTurn, Silenced, Counted
<1>2. Inv /\ [Next]_vars => Inv'
  BY TypedNext, SilencedNext, CountedNext
<1>3. Inv => NoRunawayTurn
  BY DEF Counted, Executions, NoRunawayTurn
<1>. QED  BY <1>1, <1>2, <1>3, PTL DEF Spec

-----------------------------------------------------------------------------
(* Sessions.                                                                *)

\* Without forms and reverts, the events since the last restart are applied.
Plain(es) == /\ LoopNames(es) = {}
             /\ \A i \in 1 .. Len(es) : es[i].type \notin Replaying

LEMMA LastRestartIndex ==
  ASSUME NEW es \in Seq(TrackerEvent)
  PROVE  /\ LastRestart(es) \in 0 .. Len(es)
         /\ LastRestart(es) > 0 => es[LastRestart(es)].type \in Resetting
         /\ \A i \in LastRestart(es) + 1 .. Len(es) : es[i].type \notin Resetting
<1>. DEFINE I == {i \in 1 .. Len(es) : es[i].type \in {"restart", "session_started"}}
           last == IF I # {} THEN Max(I) ELSE 0
<1>1. LastRestart(es) = last
  BY DEF LastRestart, SelectLastInSeq
<1>2. I \in SUBSET (1 .. Len(es)) /\ Len(es) \in Nat
  OBVIOUS
<1>3. last \in 0 .. Len(es) /\ (last > 0 => last \in I) /\ \A i \in I : i =< last
  <2>. HIDE DEF I
  <2>. QED  BY <1>2, LastIndex
<1>4. last > 0 => es[last].type \in Resetting
  BY <1>3 DEF Resetting
<1>5. ASSUME NEW i \in last + 1 .. Len(es) PROVE es[i].type \notin Resetting
  <2>1. i \in 1 .. Len(es) /\ i \notin I
    <3>. HIDE DEF I, last
    <3>. QED  BY <1>2, <1>3
  <2>. QED  BY <2>1 DEF Resetting
<1>. HIDE DEF last
<1>. QED  BY <1>1, <1>3, <1>4, <1>5

LEMMA LastRestartAppend ==
  ASSUME NEW es \in Seq(TrackerEvent), NEW e \in TrackerEvent
  PROVE  LastRestart(Append(es, e)) =
           IF e.type \in Resetting THEN Len(es) + 1 ELSE LastRestart(es)
<1>. DEFINE all == Append(es, e)
            r == LastRestart(all)
            p == LastRestart(es)
<1>1. /\ all \in Seq(TrackerEvent) /\ Len(all) = Len(es) + 1 /\ Len(es) \in Nat
      /\ all[Len(es) + 1] = e /\ \A i \in 1 .. Len(es) : all[i] = es[i]
  BY Appended
<1>. HIDE DEF all
<1>2. /\ r \in 0 .. Len(all) /\ (r > 0 => all[r].type \in Resetting)
      /\ \A i \in r + 1 .. Len(all) : all[i].type \notin Resetting
  BY <1>1, LastRestartIndex
<1>3. /\ p \in 0 .. Len(es) /\ (p > 0 => es[p].type \in Resetting)
      /\ \A i \in p + 1 .. Len(es) : es[i].type \notin Resetting
  BY LastRestartIndex
<1>. HIDE DEF r, p
<1>4. CASE e.type \in Resetting
  BY <1>1, <1>2, <1>4 DEF r, all
<1>5. CASE e.type \notin Resetting
  <2>1. r =< Len(es)
    BY <1>1, <1>2, <1>5
  <2>2. ~(p < r)
    <3>. SUFFICES ASSUME p < r PROVE FALSE
      OBVIOUS
    <3>1. r \in p + 1 .. Len(es) /\ r \in 1 .. Len(es) /\ r > 0
      BY <1>1, <1>2, <1>3, <2>1
    <3>2. all[r] = es[r]
      BY <1>1, <3>1
    <3>. QED  BY <1>2, <1>3, <3>1, <3>2
  <2>3. ~(r < p)
    <3>. SUFFICES ASSUME r < p PROVE FALSE
      OBVIOUS
    <3>1. p \in r + 1 .. Len(all) /\ p \in 1 .. Len(es) /\ p > 0
      BY <1>1, <1>2, <1>3
    <3>2. all[p] = es[p]
      BY <1>1, <3>1
    <3>. QED  BY <1>2, <1>3, <3>1, <3>2
  <2>4. r = p
    BY <1>1, <1>2, <1>3, <2>2, <2>3
  <2>. QED  BY <1>5, <2>4 DEF r, p, all
<1>. QED  BY <1>4, <1>5

LEMMA AppliedPlain ==
  ASSUME NEW es \in Seq(TrackerEvent), Plain(es)
  PROVE  AppliedEvents(es) = SubSeq(es, LastRestart(es) + 1, Len(es))
<1>. DEFINE P == {s \in Seq(TrackerEvent) :
                    Plain(s) => AppliedEvents(s) = SubSeq(s, LastRestart(s) + 1, Len(s))}
<1>1. <<>> \in P
  <2>. DEFINE none == <<>>
  <2>1. none \in Seq(TrackerEvent) /\ Len(none) = 0 /\ \A i \in Nat : SubSeq(none, i + 1, 0) = none
    OBVIOUS
  <2>2. AppliedEvents(none) = none
    BY AppliedEmpty DEF AppliedEvents
  <2>. HIDE DEF none
  <2>3. LastRestart(none) \in 0 .. Len(none)
    BY <2>1, LastRestartIndex
  <2>4. LastRestart(none) = 0 /\ SubSeq(none, 0 + 1, 0) = none
    BY <2>1, <2>3
  <2>5. AppliedEvents(none) = SubSeq(none, LastRestart(none) + 1, Len(none))
    BY <2>1, <2>2, <2>4
  <2>6. none \in P
    BY <2>1, <2>5
  <2>. QED  BY <2>6 DEF none
<1>2. ASSUME NEW s \in Seq(TrackerEvent), NEW e \in TrackerEvent, s \in P
      PROVE  Append(s, e) \in P
  <2>. DEFINE all == Append(s, e)
  <2>1. /\ all \in Seq(TrackerEvent) /\ Len(all) = Len(s) + 1 /\ Len(s) \in Nat
        /\ all[Len(s) + 1] = e /\ \A i \in 1 .. Len(s) : all[i] = s[i]
    BY Appended
  <2>2. LastRestart(all) = IF e.type \in Resetting THEN Len(s) + 1 ELSE LastRestart(s)
    BY LastRestartAppend
  <2>3. LastRestart(s) \in 0 .. Len(s)
    BY LastRestartIndex
  <2>4. LoopNames(all) =
         LoopNames(s) \union ((IF e.type = "active_loop" THEN {e.name} ELSE {}) \ {NoName})
    BY LoopNamesAppend
  <2>5. AppliedEvents(all) = AfterEvent(LoopNames(all), AppliedIn(LoopNames(all), s), e)
    BY AppliedAppend DEF AppliedEvents
  <2>. HIDE DEF all
  <2>6. ASSUME Plain(all) PROVE AppliedEvents(all) = SubSeq(all, LastRestart(all) + 1, Len(all))
    <3>1. LoopNames(all) = {} /\ LoopNames(s) = {}
      BY <2>4, <2>6 DEF Plain
    <3>2. e.type \notin Replaying /\ Plain(s)
      BY <2>1, <2>6, <3>1 DEF Plain
    <3>3. AppliedEvents(s) = SubSeq(s, LastRestart(s) + 1, Len(s))
      BY <1>2, <3>2
    <3>4. AppliedEvents(all) = AfterEvent({}, AppliedEvents(s), e)
      BY <2>5, <3>1 DEF AppliedEvents
    <3>5. CASE e.type \in Resetting
      <4>1. AppliedEvents(all) = <<>>
        BY <3>4, <3>5 DEF AfterEvent, Resetting
      <4>2. SubSeq(all, Len(s) + 1 + 1, Len(s) + 1) = <<>>
        BY <2>1, SubSeqEmpty
      <4>. QED  BY <2>1, <2>2, <3>5, <4>1, <4>2
    <3>6. CASE e.type \notin Resetting
      <4>1. AppliedEvents(all) = Append(SubSeq(s, LastRestart(s) + 1, Len(s)), e)
        BY <3>2, <3>3, <3>4, <3>6 DEF AfterEvent, Resetting, Replaying
      <4>2. ASSUME NEW r \in 0 .. Len(s)
            PROVE  SubSeq(all, r + 1, Len(s) + 1) = Append(SubSeq(s, r + 1, Len(s)), e)
        BY SubSeqAppend DEF all
      <4>. QED  BY <2>1, <2>2, <2>3, <3>6, <4>1, <4>2
    <3>. QED  BY <3>5, <3>6
  <2>. QED  BY <2>1, <2>6 DEF all
<1>3. es \in P
  <2>. HIDE DEF P
  <2>. QED  BY <1>1, <1>2, InductionOverSequences
<1>. QED  BY <1>3

\* The events actions return, and the endpoint appends, hold no messages of the
\* user: their times would be the sender's.
NoMessageReturned ==
  \A a \in Assistants : \A result \in a.returned :
    \A i \in 1 .. Len(result) : result[i].type # "user"

\* No message was logged before an earlier one, and none is from the future.
Ordered(es, time) ==
  \A j \in 1 .. Len(es) : es[j].type = "user" =>
    /\ es[j].time =< time
    /\ \A i \in 1 .. j : es[i].type = "user" => es[i].time =< es[j].time

LEMMA OrderedConcat ==
  ASSUME NEW es \in Seq(TrackerEvent), NEW log \in Seq(TrackerEvent), NEW time \in Nat,
         Ordered(es, time), \A i \in 1 .. Len(log) : log[i].type = "user" => log[i].time = time
  PROVE  Ordered(es \o log, time)
<1>. DEFINE all == es \o log
            n == Len(es)
<1>1. /\ all \in Seq(TrackerEvent) /\ Len(all) = n + Len(log) /\ n \in Nat /\ Len(log) \in Nat
      /\ \A i \in 1 .. n : all[i] = es[i]
      /\ \A i \in n + 1 .. Len(all) : i - n \in 1 .. Len(log) /\ all[i] = log[i - n]
  BY ConcatProperties
<1>. HIDE DEF all
<1>2. ASSUME NEW i \in 1 .. Len(all) PROVE all[i].time \in Nat
  <2>1. all[i] \in TrackerEvent
    BY <1>1
  <2>. QED  BY <2>1 DEF TrackerEvent
<1>3. ASSUME NEW i \in 1 .. Len(all), all[i].type = "user" PROVE all[i].time =< time
  <2>1. CASE i \in 1 .. n
    BY <1>1, <1>3, <2>1 DEF Ordered
  <2>2. CASE i \in n + 1 .. Len(all)
    <3>1. all[i].time = time
      BY <1>1, <1>3, <2>2
    <3>. QED  BY <3>1
  <2>. QED  BY <1>1, <2>1, <2>2
<1>4. ASSUME NEW j \in 1 .. Len(all), all[j].type = "user", NEW i \in 1 .. j, all[i].type = "user"
      PROVE  all[i].time =< all[j].time
  <2>1. i \in 1 .. Len(all)
    BY <1>1
  <2>2. CASE j \in 1 .. n
    <3>1. i \in 1 .. n /\ es[i] = all[i] /\ es[j] = all[j]
      BY <1>1, <2>2
    <3>. QED  BY <1>4, <2>2, <3>1 DEF Ordered
  <2>3. CASE j \in n + 1 .. Len(all)
    <3>1. all[j].time = time
      BY <1>1, <1>4, <2>3
    <3>. QED  BY <1>3, <1>4, <2>1, <3>1
  <2>. QED  BY <1>1, <2>2, <2>3
<1>. QED  BY <1>3, <1>4 DEF Ordered, all

\* No action logs a message.
LEMMA LogMessages ==
  ASSUME NoMessageReturned, assistant \in Assistants,
         NEW action \in Actions \union {SESSION_START}, NEW state, NEW log \in LogsOf(action, state)
  PROVE  \A i \in 1 .. Len(log) : log[i].type # "user"
<1>1. CASE log = <<ActionExecutionRejected(action)>>
  BY <1>1 DEF ActionExecutionRejected, Event
<1>2. ASSUME NEW result \in Results(action, state), NEW i \in 1 .. Len(result)
      PROVE  result[i].type # "user"
  <2>1. CASE action \in Forms
    <3>1. \/ result = <<>> \/ result = <<ActiveLoop(action)>> \/ result = <<ActiveLoop(NoName)>>
          \/ result = <<ActiveLoop(action), ActiveLoop(NoName)>>
          \/ result = <<ActionExecutionRejected(action)>>
          \/ result = <<ActiveLoop(action), ActionExecutionRejected(action)>>
      BY <2>1, ResultsCases
    <3>. QED  BY <3>1 DEF ActiveLoop, ActionExecutionRejected, Event
  <2>2. CASE action \in DefaultActions \ {SESSION_START}
    <3>1. \/ result = <<>> \/ result = <<Restarted>> \/ result = <<UserUtteranceReverted>>
          \/ result = <<UserUtteranceReverted, UserUtteranceReverted>>
      BY <2>2, ResultsCases DEF DefaultActions
    <3>. QED  BY <3>1 DEF Restarted, UserUtteranceReverted, Event
  <2>3. CASE action = SESSION_START
    <3>1. result = <<>> \/ result = <<SessionStarted, ActionExecuted(LISTEN)>>
      BY <2>3, ResultsCases
    <3>. QED  BY <3>1 DEF SessionStarted, ActionExecuted, Event
  <2>4. CASE action \notin DefaultActions \union Forms
    <3>1. result = <<>> \/ result \in Returned
      BY <2>4, ResultsCases
    <3>. QED  BY <3>1 DEF NoMessageReturned, Returned
  <2>. QED  BY <2>1, <2>2, <2>3, <2>4
<1>3. ASSUME NEW result \in Results(action, state), log = Logged(action, result)
      PROVE  \A i \in 1 .. Len(log) : log[i].type # "user"
  <2>1. CASE log = result
    BY <1>2, <2>1
  <2>2. CASE log = <<ActionExecuted(action)>> \o result
    <3>1. result \in Seq(TrackerEvent)
      BY ResultsType
    <3>2. /\ Len(log) = Len(result) + 1 /\ Len(result) \in Nat /\ log[1] = ActionExecuted(action)
          /\ \A i \in 2 .. Len(log) : log[i] = result[i - 1] /\ i - 1 \in 1 .. Len(result)
      <4>1. <<ActionExecuted(action)>> \in Seq({ActionExecuted(action)} \union TrackerEvent)
            /\ result \in Seq({ActionExecuted(action)} \union TrackerEvent)
        BY <3>1
      <4>. HIDE DEF ActionExecuted
      <4>. QED  BY <2>2, <3>1, <4>1, ConcatProperties
    <3>. QED  BY <1>2, <3>2 DEF ActionExecuted, Event
  <2>. QED  BY <1>3, <2>1, <2>2 DEF Logged
<1>. QED  BY <1>1, <1>3 DEF LogsOf

\* The messages of the conversation are in order, saved or not.
InOrder == Ordered(stored, now) /\ (turn = "loop" => Ordered(tracker.events, now))

LEMMA FetchedInOrder ==
  ASSUME NoMessageReturned, TypeOK, Ordered(stored, now), NEW t \in Fetched
  PROVE  Ordered(t.events, now)
<1>1. /\ stored \in Seq(TrackerEvent) /\ assistant \in Assistants /\ now \in Nat
  <2>1. assistant \in Assistants
    BY DEF TypeOK
  <2>. QED  BY <2>1, AssistantFacts DEF TypeOK
<1>2. Restore(stored) \in TrackerType /\ Restore(stored).events = stored
  BY <1>1, RestoreSound DEF Sound
<1>3. CASE t = Restore(stored)
  BY <1>2, <1>3
<1>4. ASSUME NEW log \in SessionLogs, log \in Seq(TrackerEvent),
             t = UpdateWithEvents(Restore(stored), log)
      PROVE  Ordered(t.events, now)
  <2>1. t.events = stored \o log
    BY <1>2, <1>4, UpdatesType
  <2>2. \A i \in 1 .. Len(log) : log[i].type # "user"
    <3>1. CASE log = <<ActionExecuted(SESSION_START)>> \o <<SessionStarted, ActionExecuted(LISTEN)>>
      <4>1. /\ Len(log) = 3 /\ log[1] = ActionExecuted(SESSION_START) /\ log[2] = SessionStarted
            /\ log[3] = ActionExecuted(LISTEN)
        BY <3>1
      <4>. QED  BY <4>1 DEF ActionExecuted, SessionStarted, Event
    <3>2. CASE log = <<ActionExecuted(SESSION_START)>>
      BY <3>2 DEF ActionExecuted, Event
    <3>3. CASE log = <<ActionExecutionRejected(SESSION_START)>>
      BY <3>3 DEF ActionExecutionRejected, Event
    <3>. QED  BY <1>4, <3>1, <3>2, <3>3 DEF SessionLogs
  <2>. QED  BY <1>1, <1>4, <2>1, <2>2, OrderedConcat
<1>. QED  BY <1>3, <1>4, FetchedCases

\* A message of now keeps the order.
LEMMA MessageInOrder ==
  ASSUME NEW es \in Seq(TrackerEvent), now \in Nat, Ordered(es, now), NEW intent \in Intents
  PROVE  Ordered(Append(es, UserUttered(intent, now)), now)
<1>. DEFINE msg == UserUttered(intent, now)
<1>1. msg \in TrackerEvent /\ msg.time = now
  BY EventTyped, AssistantsAssumption DEF UserUttered, Event
<1>. HIDE DEF msg
<1>2. Append(es, msg) = es \o <<msg>> /\ <<msg>> \in Seq(TrackerEvent)
  BY <1>1
<1>3. \A i \in 1 .. Len(<<msg>>) : <<msg>>[i].time = now
  BY <1>1
<1>4. Ordered(es \o <<msg>>, now)
  BY <1>2, <1>3, OrderedConcat
<1>. QED  BY <1>2, <1>4 DEF msg

LEMMA InOrderNext ==
  ASSUME NoMessageReturned
  PROVE  TypedTurn /\ InOrder /\ [Next]_vars => InOrder'
<1>. SUFFICES ASSUME TypedTurn, InOrder, [Next]_vars PROVE InOrder'
  OBVIOUS
<1>1. /\ TypeOK /\ tracker \in Sound /\ tracker \in TrackerType /\ assistant \in Assistants
      /\ stored \in Seq(TrackerEvent) /\ tracker.events \in Seq(TrackerEvent) /\ now \in Nat
      /\ Ordered(stored, now)
  <2>1. TypeOK /\ assistant \in Assistants /\ tracker \in Sound
    BY DEF TypedTurn, TypeOK
  <2>. QED  BY <2>1, AssistantFacts DEF TypeOK, InOrder, Sound, TrackerType
<1>2. ASSUME NEW events, Ordered(events, now), EndTurn(events), now' = now PROVE InOrder'
  BY <1>2 DEF EndTurn, InOrder
<1>3. ASSUME NEW events, Ordered(events, now), Amend(events) PROVE InOrder'
  BY <1>3 DEF Amend, Begin, InOrder
<1>4. CASE Tick
  <2>1. ASSUME NEW es \in Seq(TrackerEvent), Ordered(es, now) PROVE Ordered(es, now')
    <3>1. now' = now + 1
      BY <1>4 DEF Tick
    <3>2. ASSUME NEW i \in 1 .. Len(es), es[i].type = "user" PROVE es[i].time =< now'
      <4>1. es[i] \in TrackerEvent /\ es[i].time =< now
        BY <2>1, <3>2 DEF Ordered
      <4>2. es[i].time \in Nat
        BY <4>1 DEF TrackerEvent
      <4>. QED  BY <1>1, <3>1, <4>1, <4>2
    <3>. QED  BY <2>1, <3>2 DEF Ordered
  <2>2. UNCHANGED <<stored, turn, tracker>>
    BY <1>4 DEF Tick
  <2>. QED  BY <1>1, <2>1, <2>2 DEF InOrder
<1>5. CASE Loop
  <2>1. CASE Trip
    BY <1>2, <2>1 DEF Trip, KeepsPredicting, InOrder, EndTurn
  <2>2. CASE Finish
    BY <1>2, <2>2 DEF Finish, InOrder, EndTurn
  <2>3. ASSUME NEW action \in Actions \union {SESSION_START}, RunAction(action) PROVE InOrder'
    <3>1. PICK u \in Sound : \E log \in LogsOf(action, u.state) :
            /\ log \in Seq(TrackerEvent) /\ tracker'.events = tracker.events \o log
      BY <1>1, <2>3, RunActionLogs
    <3>2. PICK log \in LogsOf(action, u.state) :
            /\ log \in Seq(TrackerEvent) /\ tracker'.events = tracker.events \o log
      BY <3>1
    <3>3. \A i \in 1 .. Len(log) : log[i].type # "user"
      BY <1>1, LogMessages
    <3>4. UNCHANGED <<stored, now, turn>> /\ turn = "loop"
      BY <2>3 DEF RunAction, KeepsPredicting
    <3>5. Ordered(tracker.events \o log, now)
      BY <1>1, <3>2, <3>3, <3>4, OrderedConcat DEF InOrder
    <3>. QED  BY <1>1, <3>2, <3>4, <3>5 DEF InOrder
  <2>. QED  BY <1>5, <2>1, <2>2, <2>3 DEF Loop
<1>6. CASE Abort
  BY <1>1, <1>2, <1>6 DEF Abort, EndTurn
<1>7. CASE PredictNext
  BY <1>1, <1>3, <1>7, FetchedInOrder DEF PredictNext
<1>8. ASSUME NEW intent \in Intents, HandleMessage(intent) PROVE InOrder'
  <2>1. PICK t \in Fetched : tracker' = Update(t, UserUttered(intent, now))
    BY <1>8 DEF HandleMessage
  <2>2. t \in TrackerType /\ t.events \in Seq(TrackerEvent) /\ Ordered(t.events, now)
    BY <1>1, FetchedInOrder, FetchedType
  <2>3. tracker'.events = Append(t.events, UserUttered(intent, now))
    BY <1>1, <2>1, <2>2, UpdateType, EventTyped, AssistantsAssumption
  <2>4. UNCHANGED <<stored, now>>
    BY <1>8 DEF HandleMessage
  <2>. QED  BY <1>1, <2>2, <2>3, <2>4, MessageInOrder DEF InOrder
<1>9. ASSUME NEW intent \in Intents, AddMessage(intent) PROVE InOrder'
  <2>1. PICK t \in Fetched : Amend(Append(t.events, UserUttered(intent, now)))
    BY <1>9 DEF AddMessage
  <2>2. t.events \in Seq(TrackerEvent) /\ Ordered(t.events, now)
    BY <1>1, FetchedInOrder, FetchedType
  <2>. QED  BY <1>1, <1>3, <2>1, <2>2, MessageInOrder
<1>10. ASSUME NEW action \in Actions, ExecuteAction(action) PROVE InOrder'
  <2>1. PICK t \in Fetched : \E u \in AfterAction(t, action) : Amend(u.events)
    BY <1>10 DEF ExecuteAction
  <2>2. PICK u \in AfterAction(t, action) : Amend(u.events)
    BY <2>1
  <2>3. t \in TrackerType /\ t.events \in Seq(TrackerEvent) /\ Ordered(t.events, now)
    BY <1>1, FetchedInOrder, FetchedType
  <2>4. PICK log \in LogsOf(action, t.state) :
          log \in Seq(TrackerEvent) /\ u = UpdateWithEvents(t, log)
    BY <1>1, <2>3, AfterActionLogs
  <2>5. \A i \in 1 .. Len(log) : log[i].type # "user"
    BY <1>1, LogMessages
  <2>6. u.events = t.events \o log
    BY <2>3, <2>4, UpdatesType
  <2>7. Ordered(u.events, now)
    BY <1>1, <2>3, <2>4, <2>5, <2>6, OrderedConcat
  <2>. QED  BY <1>3, <2>2, <2>7
<1>11. ASSUME NEW events \in Returned, AppendEvents(events) PROVE InOrder'
  <2>1. PICK t \in IF stored = <<>> /\ ~BeginWithSessionStart(events)
                       THEN Fetched ELSE {Restore(stored)} :
                 Amend(t.events \o events)
    BY <1>11 DEF AppendEvents
  <2>2. t.events \in Seq(TrackerEvent) /\ Ordered(t.events, now)
    <3>1. CASE t \in Fetched
      BY <1>1, <3>1, FetchedInOrder, FetchedType
    <3>2. CASE t = Restore(stored)
      BY <1>1, <3>2, RestoreSound
    <3>. QED  BY <2>1, <3>1, <3>2
  <2>3. events \in Seq(TrackerEvent) /\ \A i \in 1 .. Len(events) : events[i].type # "user"
    BY <1>1, AssistantFacts DEF NoMessageReturned, Returned
  <2>4. Ordered(t.events \o events, now)
    BY <1>1, <2>2, <2>3, OrderedConcat
  <2>. QED  BY <1>3, <2>1, <2>4
<1>12. CASE UNCHANGED vars
  BY <1>12 DEF vars, InOrder
<1>. QED  BY <1>4, <1>5, <1>6, <1>7, <1>8, <1>9, <1>10, <1>11, <1>12 DEF Next

\* What a new session takes: every message since the last restart has expired.
LEMMA Expired ==
  ASSUME NEW es \in Seq(TrackerEvent), assistant \in Assistants, now \in Nat, Plain(es),
         Ordered(es, now), NeedsSession(es),
         NEW i \in LastRestart(es) + 1 .. Len(es), es[i].type = "user"
  PROVE  now - es[i].time > Expiry
<1>. DEFINE applied == AppliedEvents(es)
            r == LastRestart(es)
            n == Len(es)
            last == LastOf("user", applied)
<1>1. r \in 0 .. n /\ n \in Nat /\ Expiry \in Nat
  BY LastRestartIndex, AssistantFacts
<1>2. applied = SubSeq(es, r + 1, n)
  BY AppliedPlain
<1>. HIDE DEF r
<1>3. /\ applied \in Seq(TrackerEvent) /\ Len(applied) = n - r
      /\ \A k \in 1 .. n - r : applied[k] = es[r + k]
  BY <1>1, <1>2
<1>4. NeedsSession(es) = (applied = <<>> \/ (Expiry > 0 /\ last > 0 /\ now - applied[last].time > Expiry))
  BY DEF NeedsSession, SessionExpired, ExpiredAt
<1>. HIDE DEF applied
<1>5. /\ last \in 0 .. Len(applied)
      /\ \A k \in last + 1 .. Len(applied) : applied[k].type # "user"
      /\ last > 0 => applied[last].type = "user"
  BY <1>3, LastOfType
<1>. HIDE DEF last
<1>6. i - r \in 1 .. n - r /\ i \in r + 1 .. n /\ applied[i - r] = es[i]
  BY <1>1, <1>3 DEF r
<1>7. applied # <<>>
  BY <1>3, <1>6
<1>8. last > 0 /\ now - applied[last].time > Expiry
  BY <1>4, <1>7
<1>9. i - r =< last
  BY <1>3, <1>5, <1>6
<1>10. /\ r + last \in 1 .. n /\ i \in 1 .. r + last /\ es[r + last] = applied[last]
       /\ es[r + last].type = "user"
  BY <1>1, <1>3, <1>5, <1>6, <1>8, <1>9
<1>11. es[i].time =< es[r + last].time /\ es[i].time \in Nat /\ es[r + last].time \in Nat
  <2>1. es[i].time =< es[r + last].time
    BY <1>10 DEF Ordered
  <2>2. es[i] \in TrackerEvent /\ es[r + last] \in TrackerEvent
    BY <1>1, <1>6, <1>10
  <2>. QED  BY <2>1, <2>2 DEF TrackerEvent
<1>. QED  BY <1>1, <1>8, <1>10, <1>11

\* A session is not cut off while the user is talking: however the requests
\* and the clock interleave, a message starts a new session only after a silence.
THEOREM SessionsLast ==
  ASSUME NoMessageReturned
  PROVE  Spec => SilenceBeforeNewSession
<1>. DEFINE Inv == TypedTurn /\ InOrder
<1>1. Init => Inv
  BY TypedInit DEF Init, InOrder, Ordered
<1>2. Inv /\ [Next]_vars => Inv'
  BY TypedNext, InOrderNext
<1>3. Inv /\ [Next]_vars =>
        [/\ LoopNames(stored) = {} /\ ~Reverts(stored)
         /\ turn = "idle" /\ turn' = "loop"
         /\ SessionStarted \in ToSet(SubSeq(tracker'.events, Len(stored) + 1, began'))
         => \A i \in LastRestart(stored) + 1 .. Len(stored) :
              stored[i].type = "user" => now - stored[i].time > Expiry]_vars
  <2>. SUFFICES ASSUME Inv, Next, LoopNames(stored) = {}, ~Reverts(stored),
                       turn = "idle", turn' = "loop",
                       SessionStarted \in ToSet(SubSeq(tracker'.events, Len(stored) + 1, began')),
                       NEW i \in LastRestart(stored) + 1 .. Len(stored), stored[i].type = "user"
                PROVE  now - stored[i].time > Expiry
    BY DEF vars
  <2>1. /\ TypeOK /\ assistant \in Assistants /\ stored \in Seq(TrackerEvent) /\ now \in Nat
        /\ Ordered(stored, now)
    <3>1. assistant \in Assistants
      BY DEF TypedTurn, TypeOK
    <3>. QED  BY <3>1, AssistantFacts DEF TypedTurn, TypeOK, InOrder
  <2>2. Plain(stored)
    <3>1. \A e \in ToSet(stored) : e.type \notin Replaying
      BY DEF Reverts, Replaying
    <3>. QED  BY <2>1, <3>1 DEF Plain, ToSet
  <2>3. PICK intent \in Intents : HandleMessage(intent)
    BY DEF Next, Loop, Tick, Trip, Finish, Abort, EndTurn, PredictNext, AddMessage, Amend,
           ExecuteAction, AppendEvents, RunAction, KeepsPredicting
  <2>4. PICK t \in Fetched : tracker' = Update(t, UserUttered(intent, now)) /\ began' = Len(t.events) + 1
    BY <2>3 DEF HandleMessage
  <2>5. NeedsSession(stored)
    <3>. SUFFICES ASSUME ~NeedsSession(stored) PROVE FALSE
      OBVIOUS
    <3>. DEFINE msg == UserUttered(intent, now)
    <3>1. msg \in TrackerEvent /\ msg.type = "user"
      BY <2>1, EventTyped, AssistantsAssumption DEF UserUttered, Event
    <3>2. t = Restore(stored) /\ t \in TrackerType /\ t.events = stored
      BY <2>1, FetchedCases, RestoreSound DEF Sound
    <3>. HIDE DEF msg
    <3>3. tracker'.events = Append(stored, msg) /\ began' = Len(stored) + 1
      BY <2>4, <3>1, <3>2, UpdateType DEF msg
    <3>4. /\ tracker'.events \in Seq(TrackerEvent) /\ Len(tracker'.events) = Len(stored) + 1
          /\ tracker'.events[Len(stored) + 1] = msg /\ Len(stored) \in 0 .. Len(tracker'.events)
      BY <2>1, <3>1, <3>3, Appended
    <3>5. SessionStarted = msg
      <4>. DEFINE all == tracker'.events
                 n == Len(stored)
      <4>1. all \in Seq(TrackerEvent) /\ Len(all) = n + 1 /\ all[n + 1] = msg /\ n \in 0 .. Len(all)
        BY <3>4
      <4>2. SessionStarted \in ToSet(SubSeq(all, n + 1, Len(all)))
        BY <3>3, <4>1
      <4>. HIDE DEF all, n
      <4>3. SessionStarted \in {all[j] : j \in n + 1 .. Len(all)}
        BY <4>1, <4>2, Afterwards
      <4>. QED  BY <4>1, <4>3
    <3>. QED  BY <3>1, <3>5 DEF SessionStarted, Event
  <2>. QED  BY <2>1, <2>2, <2>5, Expired
<1>. QED  BY <1>1, <1>2, <1>3, PTL DEF Spec, SilenceBeforeNewSession

=============================================================================

--------------------------- MODULE PoliciesProofs ---------------------------
(***************************************************************************)
(* Two results about conversations, for any domain, training data and       *)
(* number of messages: turns that only rules know of leave no trace in what *)
(* policies that learn from stories see (RuleTurnsUnseen), and a form that  *)
(* a story goes on with after an answer to something else is told so        *)
(* (ResumesUnvalidated).                                                    *)
(*                                                                         *)
(* The first has two parts.  One is about sequences of events: go           *)
(* through one, and side by side through what is left of it without those   *)
(* turns.  Up to each event the states made of the two, and what is seen    *)
(* of the states before, are alike (Alike); each kind of event keeps them   *)
(* so, provided that a message only follows a listening, that a listening   *)
(* is followed by one (Turns), and that a hidden listening ends a hidden    *)
(* turn (RulesLeaveNoTrace).                                               *)
(*                                                                         *)
(* The other part is that a conversation has such turns, whatever is        *)
(* predicted.  The events that count (Spoken) are those that are left when  *)
(* reverted messages and repeated executions of forms are undone, and the   *)
(* invariant (Sound) relates the state of the tracker, which is kept event  *)
(* by event, to the one their replay leads to (Agrees): not the same one, a *)
(* form that goes on has had messages undone that the state still has, but  *)
(* the same where it matters to what comes next.                            *)
(*                                                                         *)
(* The second result takes Agrees further.  A conversation and the story it *)
(* goes like lead to the same states (RetoldStates), which are those of an  *)
(* example of the training (ExampleBefore).  That example taught that the   *)
(* loop goes on unvalidated (UnhappyTold) for a key that applies to these   *)
(* states (UnhappyKeyApplies), and the rule that applies to them is one     *)
(* that an example taught (RuleTaught): trying the rules only deletes some  *)
(* (AnalyzeRulesWithin), the ensemble keeps what a prediction says of the   *)
(* loop (PredictionInterrupted).                                            *)
(***************************************************************************)
EXTENDS Policies, Lemmas

-----------------------------------------------------------------------------
(* What policies see, event by event.                                      *)

\* Events of which a state is made.
Proper(E) ==
  \A e \in E : /\ e.type \in {"user", "action", "rejected", "active_loop", "slot"}
               /\ e.type = "slot" => e.name \in Slots
               /\ e.type = "action" => e.hide \in BOOLEAN /\ e.name # NoName

Values(E) == {NoName, LISTEN} \union {e.name : e \in E} \union {e.value : e \in E}
States(E) ==
  [slots : [Slots -> Values(E)], paused : BOOLEAN, followup : Values(E), latest_action : Values(E),
   latest_message : E \union {NoMessage}, loop : Values(E), rejected : BOOLEAN]

LEMMA FreshState ==
  /\ Fresh.followup = LISTEN /\ Fresh.latest_action = NoName /\ Fresh.latest_message = NoMessage
  /\ Fresh.loop = NoName /\ Fresh.slots = [s \in Slots |-> NoName] /\ Fresh.rejected = FALSE
  /\ \A E : Fresh \in States(E)
<1>. DEFINE F == [slots |-> [s \in Slots |-> NoName], paused |-> FALSE, followup |-> LISTEN,
                  latest_action |-> NoName, latest_message |-> NoMessage, loop |-> NoName,
                  rejected |-> FALSE]
<1>1. DOMAIN F = DOMAIN Blank \union {"slots"}
  BY DEF Blank
<1>2. \A f \in DOMAIN F : F[f] = IF f = "slots" THEN [s \in Slots |-> NoName] ELSE Blank[f]
  <2>1. /\ F["slots"] = [s \in Slots |-> NoName] /\ F["paused"] = Blank["paused"]
        /\ F["followup"] = Blank["followup"] /\ F["latest_action"] = Blank["latest_action"]
        /\ F["latest_message"] = Blank["latest_message"] /\ F["loop"] = Blank["loop"]
        /\ F["rejected"] = Blank["rejected"]
    BY DEF Blank
  <2>2. DOMAIN F = {"slots", "paused", "followup", "latest_action", "latest_message", "loop", "rejected"}
    OBVIOUS
  <2>. HIDE DEF F
  <2>. QED  BY <2>1, <2>2
<1>3. F = [f \in DOMAIN F |-> F[f]]
  OBVIOUS
<1>4. Fresh = F
  <2>. HIDE DEF F
  <2>. QED  BY <1>1, <1>2, <1>3 DEF Fresh
<1>. QED  BY <1>4 DEF States, Values

\* What an event does to a state.
NextState(state, e, next) ==
  /\ next.followup = IF e.type \in {"user", "action"} THEN NoName ELSE state.followup
  /\ next.latest_action = IF e.type = "action" THEN e.name ELSE state.latest_action
  /\ next.latest_message = IF e.type = "user" THEN e ELSE state.latest_message
  /\ next.loop = IF e.type = "active_loop" THEN e.name ELSE state.loop
  /\ next.slots = IF e.type = "slot" THEN [state.slots EXCEPT ![e.name] = e.value] ELSE state.slots

LEMMA ApplyToParts ==
  ASSUME NEW E, Proper(E), NEW state \in States(E), NEW e \in E
  PROVE  ApplyTo(state, e) \in States(E) /\ NextState(state, e, ApplyTo(state, e))
<1>. USE DEF NextState, States
<1>0. e.name \in Values(E) /\ e.value \in Values(E) /\ NoName \in Values(E)
  BY DEF Values
<1>1. CASE e.type = "user"
  <2>1. ApplyTo(state, e) = [state EXCEPT !.latest_message = e, !.followup = NoName]
    BY <1>1, Zenon DEF ApplyTo, Apply
  <2>. QED  BY <1>0, <1>1, <2>1
<1>2. CASE e.type = "action"
  <2>1. ApplyTo(state, e) = [state EXCEPT !.latest_action = e.name, !.followup = NoName,
                                   !.rejected = @ /\ state.loop # e.name]
    BY <1>2, Zenon DEF ApplyTo, Apply
  <2>. QED  BY <1>0, <1>2, <2>1
<1>3. CASE e.type = "rejected"
  <2>1. ApplyTo(state, e) = [state EXCEPT !.rejected = @ \/ state.loop = e.name]
    BY <1>3, Zenon DEF ApplyTo, Apply
  <2>. QED  BY <1>3, <2>1
<1>4. CASE e.type = "active_loop"
  <2>1. ApplyTo(state, e) = [state EXCEPT !.loop = e.name, !.rejected = FALSE]
    BY <1>4, Zenon DEF ApplyTo, Apply
  <2>. QED  BY <1>0, <1>4, <2>1
<1>5. CASE e.type = "slot"
  <2>1. ApplyTo(state, e) = [state EXCEPT !.slots[e.name] = e.value]
    BY <1>5 DEF ApplyTo
  <2>2. [state.slots EXCEPT ![e.name] = e.value] \in [Slots -> Values(E)]
    BY <1>0
  <2>. QED  BY <1>5, <2>1, <2>2
<1>. QED  BY <1>1, <1>2, <1>3, <1>4, <1>5 DEF Proper

-----------------------------------------------------------------------------
(* The state after some events.                                            *)

Replayed(es) == Through(es, ApplyTo, Fresh)
ReplayStep(E) == [p \in States(E) \X E |-> ApplyTo(p[1], p[2])]

LEMMA ReplayStepGoes ==
  ASSUME NEW E, Proper(E), NEW es \in Seq(E)
  PROVE  Goes(States(E), E, ReplayStep(E), Fresh, es)
BY ApplyToParts, FreshState DEF Goes, ReplayStep

LEMMA ReplayedFolded ==
  ASSUME NEW E, Proper(E), NEW es \in Seq(E)
  PROVE  Replayed(es) = Folded(States(E), ReplayStep(E), Fresh, es)
<1>. DEFINE Fold(h) == h = [i \in 0 .. Len(es) |-> IF i = 0 THEN Fresh ELSE ApplyTo(h[i - 1], es[i])]
           step == ReplayStep(E)
           S == States(E)
<1>1. Goes(S, E, step, Fresh, es)
  BY ReplayStepGoes
<1>2. PICK g : IsFold(g, S, step, Fresh, es) /\ Folded(S, step, Fresh, es) = g[Len(es)]
  <2>. HIDE DEF step, S
  <2>. QED  BY <1>1, FoldedIsFold
<1>3. ASSUME NEW a \in S, NEW e \in E PROVE step[<<a, e>>] = ApplyTo(a, e)
  BY DEF ReplayStep
<1>. HIDE DEF step, S
<1>4. ASSUME NEW i \in 1 .. Len(es) PROVE g[i] = ApplyTo(g[i - 1], es[i])
  <2>1. i - 1 \in 0 .. Len(es) /\ es[i] \in E
    OBVIOUS
  <2>2. g[i - 1] \in S
    BY <1>2, <2>1 DEF IsFold
  <2>3. g[i] = step[<<g[i - 1], es[i]>>]
    BY <1>2 DEF IsFold
  <2>. QED  BY <2>1, <2>2, <2>3, <1>3
<1>5. Fold(g)
  BY <1>2, <1>4 DEF IsFold
<1>6. ASSUME NEW h, Fold(h) PROVE h = g
  <2>1. h[0] = g[0] /\ \A i \in 1 .. Len(es) : h[i - 1] = g[i - 1] => h[i] = g[i]
    BY <1>5, <1>6
  <2>2. Len(es) \in Nat
    OBVIOUS
  <2>3. \A i \in 0 .. Len(es) : h[i] = g[i]
    BY <2>1, <2>2, FoldsAgree, Zenon
  <2>. QED  BY <2>3, <1>5, <1>6
<1>7. Replayed(es) = (CHOOSE h : Fold(h))[Len(es)]
  BY DEF Replayed, Through
<1>8. (CHOOSE h : Fold(h)) = g
  <2>. HIDE DEF Fold
  <2>. QED  BY <1>5, <1>6
<1>. QED  BY <1>2, <1>7, <1>8 DEF step, S

LEMMA ReplayedEmpty == Replayed(<<>>) = Fresh
<1>1. Proper({}) /\ <<>> \in Seq({})
  BY DEF Proper
<1>2. Goes(States({}), {}, ReplayStep({}), Fresh, <<>>)
  BY <1>1, ReplayStepGoes
<1>. QED  BY <1>1, <1>2, ReplayedFolded, FoldedEmpty

LEMMA ReplayedAppend ==
  ASSUME NEW E, Proper(E), NEW es \in Seq(E), NEW e \in E
  PROVE  Replayed(es) \in States(E) /\ Replayed(Append(es, e)) = ApplyTo(Replayed(es), e)
<1>1. Goes(States(E), E, ReplayStep(E), Fresh, es) /\ Append(es, e) \in Seq(E)
  BY ReplayStepGoes
<1>2. Replayed(es) \in States(E)
  BY <1>1, ReplayedFolded, FoldedType
<1>3. /\ Replayed(es) = Folded(States(E), ReplayStep(E), Fresh, es)
      /\ Replayed(Append(es, e)) = Folded(States(E), ReplayStep(E), Fresh, Append(es, e))
  BY <1>1, ReplayedFolded
<1>4. Replayed(Append(es, e)) = ReplayStep(E)[<<Replayed(es), e>>]
  BY <1>1, <1>3, FoldedAppend
<1>. QED  BY <1>2, <1>4 DEF ReplayStep

LEMMA ReplayedNext ==
  ASSUME NEW E, Proper(E), NEW es \in Seq(E), NEW e \in E
  PROVE  /\ Replayed(es) \in States(E) /\ Replayed(Append(es, e)) \in States(E)
         /\ NextState(Replayed(es), e, Replayed(Append(es, e)))
<1>1. Replayed(es) \in States(E) /\ Replayed(Append(es, e)) = ApplyTo(Replayed(es), e)
  BY ReplayedAppend
<1>. QED  BY <1>1, ApplyToParts

LEMMA ReplayedType ==
  ASSUME NEW E, Proper(E), NEW es \in Seq(E)
  PROVE  Replayed(es) \in States(E)
<1>1. Goes(States(E), E, ReplayStep(E), Fresh, es)
  BY ReplayStepGoes
<1>. QED  BY <1>1, ReplayedFolded, FoldedType

-----------------------------------------------------------------------------
(* The states before the actions.                                          *)

PriorOf(E) == [state : States(E), hide : BOOLEAN]
BeforeOf(E) == [state : States(E), prior : Seq(PriorOf(E))]
NoneBefore == [state |-> Fresh, prior |-> <<>>]

AfterThat(acc, e) ==
  [state |-> ApplyTo(acc.state, e),
   prior |-> IF e.type = "action" THEN acc.prior \o <<[state |-> acc.state, hide |-> e.hide]>> ELSE acc.prior]

Befores(es) == Through(es, AfterThat, NoneBefore)
BeforeStep(E) == [p \in BeforeOf(E) \X E |-> AfterThat(p[1], p[2])]

LEMMA PriorTrackersParts ==
  ASSUME NEW es
  PROVE  PriorTrackers(es) = Befores(es).prior \o <<[state |-> Befores(es).state, hide |-> FALSE]>>
BY DEF PriorTrackers, Befores, AfterThat, NoneBefore, Through

LEMMA AfterThatType ==
  ASSUME NEW E, Proper(E), NEW acc \in BeforeOf(E), NEW e \in E
  PROVE  AfterThat(acc, e) \in BeforeOf(E)
<1>1. acc.state \in States(E) /\ acc.prior \in Seq(PriorOf(E)) /\ ApplyTo(acc.state, e) \in States(E)
  BY ApplyToParts DEF BeforeOf
<1>2. CASE e.type = "action"
  <2>1. e.hide \in BOOLEAN
    BY <1>2 DEF Proper
  <2>2. [state |-> acc.state, hide |-> e.hide] \in PriorOf(E)
    BY <1>1, <2>1 DEF PriorOf
  <2>3. acc.prior \o <<[state |-> acc.state, hide |-> e.hide]>> \in Seq(PriorOf(E))
    <3>. DEFINE o == [state |-> acc.state, hide |-> e.hide]
               P == PriorOf(E)
    <3>1. o \in P /\ acc.prior \in Seq(P)
      BY <1>1, <2>2
    <3>. HIDE DEF o, P
    <3>2. acc.prior \o <<o>> \in Seq(P)
      BY <3>1
    <3>. QED  BY <3>2 DEF o, P
  <2>. QED  BY <1>1, <1>2, <2>3 DEF AfterThat, BeforeOf
<1>3. CASE e.type # "action"
  BY <1>1, <1>3 DEF AfterThat, BeforeOf
<1>. QED  BY <1>2, <1>3

LEMMA BeforesStepGoes ==
  ASSUME NEW E, Proper(E), NEW es \in Seq(E)
  PROVE  Goes(BeforeOf(E), E, BeforeStep(E), NoneBefore, es)
<1>1. NoneBefore \in BeforeOf(E)
  BY FreshState DEF NoneBefore, BeforeOf
<1>2. BeforeStep(E) \in [BeforeOf(E) \X E -> BeforeOf(E)]
  BY AfterThatType DEF BeforeStep
<1>. QED  BY <1>1, <1>2 DEF Goes

LEMMA BeforesFolded ==
  ASSUME NEW E, Proper(E), NEW es \in Seq(E)
  PROVE  Befores(es) = Folded(BeforeOf(E), BeforeStep(E), NoneBefore, es)
<1>. DEFINE Step(a, e) == AfterThat(a, e)
           Fold(h) == h = [i \in 0 .. Len(es) |-> IF i = 0 THEN NoneBefore ELSE Step(h[i - 1], es[i])]
           step == BeforeStep(E)
           S == BeforeOf(E)
<1>1. Goes(S, E, step, NoneBefore, es)
  BY BeforesStepGoes
<1>2. PICK g : IsFold(g, S, step, NoneBefore, es) /\ Folded(S, step, NoneBefore, es) = g[Len(es)]
  <2>. HIDE DEF step, S
  <2>. QED  BY <1>1, FoldedIsFold
<1>3. ASSUME NEW a \in S, NEW e \in E PROVE step[<<a, e>>] = Step(a, e)
  BY Zenon DEF BeforeStep
<1>. HIDE DEF step, Step, S
<1>4. ASSUME NEW i \in 1 .. Len(es) PROVE g[i] = Step(g[i - 1], es[i])
  <2>1. i - 1 \in 0 .. Len(es) /\ es[i] \in E
    OBVIOUS
  <2>2. g[i - 1] \in S
    BY <1>2, <2>1 DEF IsFold
  <2>3. g[i] = step[<<g[i - 1], es[i]>>]
    BY <1>2 DEF IsFold
  <2>. QED  BY <2>1, <2>2, <2>3, <1>3
<1>5. Fold(g)
  BY <1>2, <1>4 DEF IsFold
<1>6. ASSUME NEW h, Fold(h) PROVE h = g
  <2>1. h[0] = g[0] /\ \A i \in 1 .. Len(es) : h[i - 1] = g[i - 1] => h[i] = g[i]
    BY <1>5, <1>6
  <2>2. Len(es) \in Nat
    OBVIOUS
  <2>3. \A i \in 0 .. Len(es) : h[i] = g[i]
    BY <2>1, <2>2, FoldsAgree, Zenon
  <2>. QED  BY <2>3, <1>5, <1>6
<1>7. Befores(es) = (CHOOSE h : Fold(h))[Len(es)]
  BY DEF Befores, Through, Step
<1>8. (CHOOSE h : Fold(h)) = g
  <2>. HIDE DEF Fold
  <2>. QED  BY <1>5, <1>6
<1>. QED  BY <1>2, <1>7, <1>8 DEF step, S

LEMMA BeforesEmpty == Befores(<<>>) = NoneBefore
<1>1. Proper({}) /\ <<>> \in Seq({})
  BY DEF Proper
<1>2. Goes(BeforeOf({}), {}, BeforeStep({}), NoneBefore, <<>>)
  BY <1>1, BeforesStepGoes
<1>. QED  BY <1>1, <1>2, BeforesFolded, FoldedEmpty

LEMMA BeforesAppend ==
  ASSUME NEW E, Proper(E), NEW es \in Seq(E), NEW e \in E
  PROVE  Befores(es) \in BeforeOf(E) /\ Befores(Append(es, e)) = AfterThat(Befores(es), e)
<1>1. Goes(BeforeOf(E), E, BeforeStep(E), NoneBefore, es) /\ Append(es, e) \in Seq(E)
  BY BeforesStepGoes
<1>2. Befores(es) \in BeforeOf(E)
  BY <1>1, BeforesFolded, FoldedType
<1>3. /\ Befores(es) = Folded(BeforeOf(E), BeforeStep(E), NoneBefore, es)
      /\ Befores(Append(es, e)) = Folded(BeforeOf(E), BeforeStep(E), NoneBefore, Append(es, e))
  BY <1>1, BeforesFolded
<1>4. Befores(Append(es, e)) = BeforeStep(E)[<<Befores(es), e>>]
  BY <1>1, <1>3, FoldedAppend
<1>. QED  BY <1>2, <1>4 DEF BeforeStep

LEMMA BeforesType ==
  ASSUME NEW E, Proper(E), NEW es \in Seq(E)
  PROVE  Befores(es) \in BeforeOf(E)
<1>1. Goes(BeforeOf(E), E, BeforeStep(E), NoneBefore, es)
  BY BeforesStepGoes
<1>. QED  BY <1>1, BeforesFolded, FoldedType

\* The state that the states before the actions end with is the replayed one.
LEMMA BeforesState ==
  ASSUME NEW E, Proper(E)
  PROVE  \A es \in Seq(E) : Befores(es).state = Replayed(es)
<1>. DEFINE P == {es \in Seq(E) : Befores(es).state = Replayed(es)}
<1>1. <<>> \in P
  BY BeforesEmpty, ReplayedEmpty DEF NoneBefore
<1>2. ASSUME NEW es \in Seq(E), NEW e \in E, es \in P PROVE Append(es, e) \in P
  <2>1. Befores(Append(es, e)).state = ApplyTo(Befores(es).state, e)
    <3>1. Befores(Append(es, e)) = AfterThat(Befores(es), e)
      BY BeforesAppend
    <3>. QED  BY <3>1 DEF AfterThat
  <2>2. Replayed(Append(es, e)) = ApplyTo(Replayed(es), e)
    BY ReplayedAppend
  <2>. QED  BY <1>2, <2>1, <2>2
<1>3. \A es \in Seq(E) : es \in P
  <2>. HIDE DEF P
  <2>. QED  BY <1>1, <1>2, InductionOverSequences
<1>. QED  BY <1>3

-----------------------------------------------------------------------------
(* What policies that learn from stories see of them.                      *)

Sights(E) == [hidden : BOOLEAN, lastMl : Values(E), states : Seq([Features -> Values(E)])]
NoSight == [hidden |-> FALSE, lastMl |-> NoName, states |-> <<>>]

Hidden(acc, prior) ==
  LET t == prior.state
  IN  IF t.followup = NoName /\ t.latest_action # ActiveLoopName(t) THEN prior.hide ELSE acc.hidden
LastMl(acc, t) == IF acc.hidden THEN acc.lastMl ELSE t.latest_action
SeenState(acc, t, R) ==
  LET state == SubstituteUserInput(WithoutRuleOnly(ActiveState(t), R), acc.states)
  IN  IF LastMl(acc, t) = NoName THEN state ELSE [state EXCEPT ![PREVIOUS_ACTION] = LastMl(acc, t)]

Sight(acc, prior, R) ==
  [hidden |-> Hidden(acc, prior), lastMl |-> LastMl(acc, prior.state),
   states |-> IF Hidden(acc, prior) THEN acc.states ELSE Append(acc.states, SeenState(acc, prior.state, R))]

Views(priors, R) ==
  LET Step(acc, prior) == Sight(acc, prior, R) IN Through(priors, Step, NoSight)
ViewStep(E, R) == [p \in Sights(E) \X PriorOf(E) |-> Sight(p[1], p[2], R)]

LEMMA StatesWithoutRuleTurnsViews ==
  ASSUME NEW es, NEW R
  PROVE  StatesWithoutRuleTurns(es, R) = Views(PriorTrackers(es), R).states
BY DEF StatesWithoutRuleTurns, Views, Sight, Hidden, LastMl, SeenState, NoSight, Through

LEMMA ActiveStateType ==
  ASSUME NEW E, NEW t \in States(E), NEW R
  PROVE  /\ ActiveState(t) \in [Features -> Values(E)]
         /\ WithoutRuleOnly(ActiveState(t), R) \in [Features -> Values(E)]
<1>1. t.latest_message.name \in Values(E)
  BY DEF States, Values, NoMessage, UserUttered, Event
<1>2. t.latest_action \in Values(E) /\ t.loop \in Values(E) /\ t.slots \in [Slots -> Values(E)] /\ NoName \in Values(E)
  BY DEF States, Values
<1>3. \A f \in Features : f \notin {USER, PREVIOUS_ACTION, ACTIVE_LOOP} => f \in Slots
  BY DEF Features
<1>4. \A f \in Features : (CASE f = USER -> t.latest_message.name
       [] f = PREVIOUS_ACTION -> t.latest_action
       [] f = ACTIVE_LOOP -> t.loop
       [] OTHER -> t.slots[f]) \in Values(E)
  BY <1>1, <1>2, <1>3
<1>5. ActiveState(t) \in [Features -> Values(E)]
  BY <1>4 DEF ActiveState
<1>6. \A s \in [Features -> Values(E)] : WithoutRuleOnly(s, R) \in [Features -> Values(E)]
  BY <1>2 DEF WithoutRuleOnly
<1>. QED  BY <1>5, <1>6

LEMMA SightType ==
  ASSUME NEW E, NEW R, NEW acc \in Sights(E), NEW prior \in PriorOf(E)
  PROVE  Sight(acc, prior, R) \in Sights(E) /\ SeenState(acc, prior.state, R) \in [Features -> Values(E)]
<1>. DEFINE t == prior.state
           V == [Features -> Values(E)]
           s == WithoutRuleOnly(ActiveState(t), R)
<1>1. t \in States(E) /\ prior.hide \in BOOLEAN
  BY DEF PriorOf
<1>2. acc.hidden \in BOOLEAN /\ acc.lastMl \in Values(E) /\ acc.states \in Seq(V)
  BY DEF Sights
<1>3. s \in V
  BY <1>1, ActiveStateType
<1>4. LastMl(acc, t) \in Values(E)
  BY <1>1, <1>2 DEF LastMl, States
<1>5. Hidden(acc, prior) \in BOOLEAN
  BY <1>1, <1>2 DEF Hidden
<1>6. SubstituteUserInput(s, acc.states) \in V
  <2>. HIDE DEF s
  <2>1. CASE acc.states = <<>> \/ s[PREVIOUS_ACTION] = LISTEN
    BY <2>1, <1>3 DEF SubstituteUserInput
  <2>2. CASE ~(acc.states = <<>> \/ s[PREVIOUS_ACTION] = LISTEN)
    <3>1. Last(acc.states) \in V
      BY <1>2, <2>2 DEF Last
    <3>2. USER \in Features
      BY DEF Features
    <3>. QED  BY <1>3, <2>2, <3>1, <3>2 DEF SubstituteUserInput
  <2>. QED  BY <2>1, <2>2
<1>7. SeenState(acc, t, R) \in V
  <2>. DEFINE u == SubstituteUserInput(s, acc.states)
  <2>1. u \in V
    BY <1>6
  <2>2. SeenState(acc, t, R) = IF LastMl(acc, t) = NoName THEN u ELSE [u EXCEPT ![PREVIOUS_ACTION] = LastMl(acc, t)]
    BY DEF SeenState
  <2>. HIDE DEF u, s
  <2>. QED  BY <1>4, <2>1, <2>2
<1>8. Append(acc.states, SeenState(acc, t, R)) \in Seq(V)
  <2>. DEFINE x == SeenState(acc, t, R)
  <2>1. x \in V
    BY <1>7
  <2>. HIDE DEF x, V
  <2>2. Append(acc.states, x) \in Seq(V)
    BY <1>2, <2>1
  <2>. QED  BY <2>2 DEF x
<1>9. Sight(acc, prior, R) \in Sights(E)
  BY <1>2, <1>4, <1>5, <1>8 DEF Sight, Sights
<1>. QED  BY <1>7, <1>9

LEMMA ViewsStepGoes ==
  ASSUME NEW E, NEW R, NEW es \in Seq(PriorOf(E))
  PROVE  Goes(Sights(E), PriorOf(E), ViewStep(E, R), NoSight, es)
<1>1. NoSight \in Sights(E)
  BY DEF NoSight, Sights, Values
<1>2. ViewStep(E, R) \in [Sights(E) \X PriorOf(E) -> Sights(E)]
  BY SightType DEF ViewStep
<1>. QED  BY <1>1, <1>2 DEF Goes

LEMMA ViewsFolded ==
  ASSUME NEW E, NEW R, NEW es \in Seq(PriorOf(E))
  PROVE  Views(es, R) = Folded(Sights(E), ViewStep(E, R), NoSight, es)
<1>. DEFINE Step(a, e) == Sight(a, e, R)
           Fold(h) == h = [i \in 0 .. Len(es) |-> IF i = 0 THEN NoSight ELSE Step(h[i - 1], es[i])]
           step == ViewStep(E, R)
           S == Sights(E)
<1>1. Goes(S, PriorOf(E), step, NoSight, es)
  BY ViewsStepGoes
<1>2. PICK g : IsFold(g, S, step, NoSight, es) /\ Folded(S, step, NoSight, es) = g[Len(es)]
  <2>. HIDE DEF step, S
  <2>. QED  BY <1>1, FoldedIsFold
<1>3. ASSUME NEW a \in S, NEW e \in PriorOf(E) PROVE step[<<a, e>>] = Step(a, e)
  BY Zenon DEF ViewStep
<1>. HIDE DEF step, Step, S
<1>4. ASSUME NEW i \in 1 .. Len(es) PROVE g[i] = Step(g[i - 1], es[i])
  <2>1. i - 1 \in 0 .. Len(es) /\ es[i] \in PriorOf(E)
    OBVIOUS
  <2>2. g[i - 1] \in S
    BY <1>2, <2>1 DEF IsFold
  <2>3. g[i] = step[<<g[i - 1], es[i]>>]
    BY <1>2 DEF IsFold
  <2>. QED  BY <2>1, <2>2, <2>3, <1>3
<1>5. Fold(g)
  BY <1>2, <1>4 DEF IsFold
<1>6. ASSUME NEW h, Fold(h) PROVE h = g
  <2>1. h[0] = g[0] /\ \A i \in 1 .. Len(es) : h[i - 1] = g[i - 1] => h[i] = g[i]
    BY <1>5, <1>6
  <2>2. Len(es) \in Nat
    OBVIOUS
  <2>3. \A i \in 0 .. Len(es) : h[i] = g[i]
    BY <2>1, <2>2, FoldsAgree, Zenon
  <2>. QED  BY <2>3, <1>5, <1>6
<1>7. Views(es, R) = (CHOOSE h : Fold(h))[Len(es)]
  BY DEF Views, Through, Step
<1>8. (CHOOSE h : Fold(h)) = g
  <2>. HIDE DEF Fold
  <2>. QED  BY <1>5, <1>6
<1>. QED  BY <1>2, <1>7, <1>8 DEF step, S

LEMMA ViewsEmpty == \A R : Views(<<>>, R) = NoSight
<1>. TAKE R
<1>1. <<>> \in Seq(PriorOf({}))
  OBVIOUS
<1>2. Goes(Sights({}), PriorOf({}), ViewStep({}, R), NoSight, <<>>)
  BY <1>1, ViewsStepGoes
<1>. QED  BY <1>1, <1>2, ViewsFolded, FoldedEmpty

LEMMA ViewsAppend ==
  ASSUME NEW E, NEW R, NEW es \in Seq(PriorOf(E)), NEW e \in PriorOf(E)
  PROVE  Views(es, R) \in Sights(E) /\ Views(Append(es, e), R) = Sight(Views(es, R), e, R)
<1>1. Goes(Sights(E), PriorOf(E), ViewStep(E, R), NoSight, es) /\ Append(es, e) \in Seq(PriorOf(E))
  BY ViewsStepGoes
<1>2. Views(es, R) \in Sights(E)
  BY <1>1, ViewsFolded, FoldedType
<1>3. /\ Views(es, R) = Folded(Sights(E), ViewStep(E, R), NoSight, es)
      /\ Views(Append(es, e), R) = Folded(Sights(E), ViewStep(E, R), NoSight, Append(es, e))
  BY <1>1, ViewsFolded
<1>4. Views(Append(es, e), R) = ViewStep(E, R)[<<Views(es, R), e>>]
  BY <1>1, <1>3, FoldedAppend
<1>. QED  BY <1>2, <1>4 DEF ViewStep

\* The same, from the events.
View(es, R) == Views(Befores(es).prior, R)
PriorTo(state, hide) == [state |-> state, hide |-> hide]

LEMMA ViewEmpty == \A R : View(<<>>, R) = NoSight
BY BeforesEmpty, ViewsEmpty DEF View, NoneBefore

LEMMA PriorsAppend ==
  ASSUME NEW E, NEW priors \in Seq(PriorOf(E)), NEW prior \in PriorOf(E)
  PROVE  priors \o <<prior>> = Append(priors, prior)
<1>. DEFINE P == PriorOf(E)
<1>1. priors \in Seq(P) /\ prior \in P
  OBVIOUS
<1>. HIDE DEF P
<1>. QED  BY <1>1, AppendIsConcat

LEMMA ViewAppend ==
  ASSUME NEW E, Proper(E), NEW R, NEW es \in Seq(E), NEW e \in E
  PROVE  /\ View(es, R) \in Sights(E)
         /\ View(Append(es, e), R) = IF e.type = "action" THEN Sight(View(es, R), PriorTo(Replayed(es), e.hide), R)
                                     ELSE View(es, R)
<1>. DEFINE b == Befores(es)
<1>1. b \in BeforeOf(E) /\ b.state = Replayed(es) /\ Befores(Append(es, e)) = AfterThat(b, e)
  BY BeforesAppend, BeforesState
<1>2. b.prior \in Seq(PriorOf(E)) /\ b.state \in States(E)
  BY <1>1 DEF BeforeOf
<1>3. View(es, R) \in Sights(E)
  <2>1. PriorTo(b.state, FALSE) \in PriorOf(E)
    BY <1>2 DEF PriorTo, PriorOf
  <2>. QED  BY <1>2, <2>1, ViewsAppend DEF View
<1>4. CASE e.type = "action"
  <2>1. PriorTo(b.state, e.hide) \in PriorOf(E)
    BY <1>2, <1>4 DEF PriorTo, PriorOf, Proper
  <2>2. Befores(Append(es, e)).prior = Append(b.prior, PriorTo(b.state, e.hide))
    <3>1. AfterThat(b, e).prior = b.prior \o <<PriorTo(b.state, e.hide)>>
      BY <1>4 DEF AfterThat, PriorTo
    <3>2. b.prior \o <<PriorTo(b.state, e.hide)>> = Append(b.prior, PriorTo(b.state, e.hide))
      BY <1>2, <2>1, PriorsAppend, Zenon
    <3>. QED  BY <1>1, <3>1, <3>2
  <2>3. View(Append(es, e), R) = Sight(View(es, R), PriorTo(b.state, e.hide), R)
    BY <1>2, <2>1, <2>2, ViewsAppend DEF View
  <2>. QED  BY <1>1, <1>3, <1>4, <2>3
<1>5. CASE e.type # "action"
  <2>1. AfterThat(b, e).prior = b.prior
    BY <1>5 DEF AfterThat
  <2>. QED  BY <1>1, <1>3, <1>5, <2>1 DEF View
<1>. QED  BY <1>4, <1>5

\* What is seen of all the events is what would be seen before a next action.
LEMMA StatesWithoutRuleTurnsView ==
  ASSUME NEW E, Proper(E), NEW R, NEW es \in Seq(E)
  PROVE  StatesWithoutRuleTurns(es, R) = Sight(View(es, R), PriorTo(Replayed(es), FALSE), R).states
<1>. DEFINE b == Befores(es)
           p == PriorTo(b.state, FALSE)
<1>1. b \in BeforeOf(E) /\ b.state = Replayed(es)
  BY BeforesType, BeforesState
<1>2. b.prior \in Seq(PriorOf(E)) /\ b.state \in States(E)
  BY <1>1 DEF BeforeOf
<1>3. p \in PriorOf(E)
  BY <1>2 DEF PriorTo, PriorOf
<1>4. PriorTrackers(es) = b.prior \o <<p>>
  BY PriorTrackersParts DEF PriorTo
<1>5. PriorTrackers(es) = Append(b.prior, p)
  BY <1>2, <1>3, <1>4, PriorsAppend, Zenon
<1>6. Views(PriorTrackers(es), R) = Sight(Views(b.prior, R), p, R)
  BY <1>2, <1>3, <1>5, ViewsAppend
<1>. QED  BY <1>1, <1>6, StatesWithoutRuleTurnsViews DEF View

\* What only rules know of are some of the slots.
SomeSlots(R) == R.slots \subseteq Slots

\* The parts of what is seen where no loop is active.
LEMMA SeenParts ==
  ASSUME NEW E, NEW R, NEW acc \in Sights(E), NEW t \in States(E), t.loop = NoName, SomeSlots(R)
  PROVE  LET x == SeenState(acc, t, R)
         IN  /\ x \in [Features -> Values(E)]
             /\ x[USER] = IF acc.states = <<>> \/ t.latest_action = LISTEN THEN t.latest_message.name
                          ELSE Last(acc.states)[USER]
             /\ x[PREVIOUS_ACTION] = IF LastMl(acc, t) = NoName THEN t.latest_action ELSE LastMl(acc, t)
             /\ x[ACTIVE_LOOP] = NoName
             /\ \A s \in Slots : x[s] = IF s \in R.slots THEN NoName ELSE t.slots[s]
<1>. DEFINE s == WithoutRuleOnly(ActiveState(t), R)
           u == SubstituteUserInput(s, acc.states)
           x == SeenState(acc, t, R)
           V == [Features -> Values(E)]
<1>1. PriorTo(t, FALSE) \in PriorOf(E)
  BY DEF PriorTo, PriorOf
<1>2. x \in V
  BY <1>1, SightType DEF PriorTo
<1>3. s \in V
  BY ActiveStateType
<1>4. {USER, PREVIOUS_ACTION, ACTIVE_LOOP} \subseteq Features /\ Slots \subseteq Features
      /\ USER \notin Slots /\ PREVIOUS_ACTION \notin Slots /\ ACTIVE_LOOP \notin Slots
  BY SlotsAssumption DEF Features
<1>5. USER # PREVIOUS_ACTION /\ USER # ACTIVE_LOOP /\ PREVIOUS_ACTION # ACTIVE_LOOP
  BY DEF USER, PREVIOUS_ACTION, ACTIVE_LOOP
<1>6. /\ ActiveState(t)[USER] = t.latest_message.name /\ ActiveState(t)[PREVIOUS_ACTION] = t.latest_action
      /\ ActiveState(t)[ACTIVE_LOOP] = NoName /\ \A f \in Slots : ActiveState(t)[f] = t.slots[f]
  BY <1>4, <1>5 DEF ActiveState
<1>7. /\ s[USER] = t.latest_message.name /\ s[PREVIOUS_ACTION] = t.latest_action
      /\ s[ACTIVE_LOOP] = NoName /\ \A f \in Slots : s[f] = IF f \in R.slots THEN NoName ELSE t.slots[f]
  BY <1>4, <1>5, <1>6 DEF WithoutRuleOnly, SomeSlots
<1>. HIDE DEF s
<1>8. /\ u \in V
      /\ u[USER] = IF acc.states = <<>> \/ t.latest_action = LISTEN THEN t.latest_message.name
                   ELSE Last(acc.states)[USER]
      /\ \A f \in Features : f # USER => u[f] = s[f]
  <2>1. CASE acc.states = <<>> \/ t.latest_action = LISTEN
    <3>1. u = s
      BY <2>1, <1>7 DEF SubstituteUserInput
    <3>. QED  BY <2>1, <3>1, <1>3, <1>7
  <2>2. CASE ~(acc.states = <<>> \/ t.latest_action = LISTEN)
    <3>1. u = [s EXCEPT ![USER] = Last(acc.states)[USER]]
      BY <2>2, <1>7 DEF SubstituteUserInput
    <3>2. Last(acc.states) \in V
      <4>1. acc.states \in Seq(V)
        BY DEF Sights
      <4>. QED  BY <2>2, <4>1 DEF Last
    <3>. QED  BY <2>2, <3>1, <3>2, <1>3, <1>4
  <2>. QED  BY <2>1, <2>2
<1>9. x = IF LastMl(acc, t) = NoName THEN u ELSE [u EXCEPT ![PREVIOUS_ACTION] = LastMl(acc, t)]
  BY DEF SeenState, s
<1>. HIDE DEF u
<1>10. x[PREVIOUS_ACTION] = IF LastMl(acc, t) = NoName THEN t.latest_action ELSE LastMl(acc, t)
  BY <1>4, <1>5, <1>7, <1>8, <1>9
<1>11. \A f \in Features : f # PREVIOUS_ACTION => x[f] = u[f]
  BY <1>8, <1>9
<1>. HIDE DEF x
<1>12. x[ACTIVE_LOOP] = NoName /\ \A f \in Slots : x[f] = IF f \in R.slots THEN NoName ELSE t.slots[f]
  <2>1. \A f \in Slots : f \in Features /\ f # PREVIOUS_ACTION /\ f # USER
    BY <1>4
  <2>2. ACTIVE_LOOP \in Features /\ ACTIVE_LOOP # PREVIOUS_ACTION /\ ACTIVE_LOOP # USER
    BY <1>4, <1>5
  <2>. QED  BY <2>1, <2>2, <1>7, <1>8, <1>11
<1>13. x[USER] = u[USER]
  BY <1>4, <1>5, <1>11
<1>. QED  BY <1>2, <1>8, <1>10, <1>12, <1>13 DEF x

-----------------------------------------------------------------------------
(* Turns: a message follows a listening, and a listening is followed by one. *)

Acts(es, i) == es[i].type = "action"
Says(es, i) == es[i].type = "user"
Hides(es, i) == es[i].hide
NoActs(es, i, j) == \A k \in i .. j : ~Acts(es, k)

\* The last action up to a position.
LastAct(es, l, i) == Acts(es, l) /\ NoActs(es, l + 1, i)

Turns(es) ==
  \A i \in 1 .. Len(es) :
    /\ Acts(es, i) /\ NoActs(es, 1, i - 1) => es[i].name = LISTEN /\ ~es[i].hide
    /\ Says(es, i) => \E l \in 1 .. i - 1 : LastAct(es, l, i - 1) /\ es[l].name = LISTEN
    /\ Acts(es, i) => \A l \in 1 .. i - 1 :
         LastAct(es, l, i - 1) /\ es[l].name = LISTEN => \E u \in l + 1 .. i - 1 : Says(es, u)

Answered(es) ==
  \A l \in 1 .. Len(es) :
    LastAct(es, l, Len(es)) /\ es[l].name = LISTEN => \E u \in l + 1 .. Len(es) : Says(es, u)

\* A message that no action has answered yet, and one whose turn is hidden so far.
Pending(es, i) == \E u \in 1 .. i : Says(es, u) /\ NoActs(es, u + 1, i)
HiddenSoFar(es, i) == \E u \in 1 .. i : Says(es, u) /\ \A k \in u .. i : Acts(es, k) => es[k].hide

IsKept(es, i) ==
  CASE es[i].type = "action" -> ~es[i].hide
    [] es[i].type = "user" -> ~TakenByRules(es, i)
    [] OTHER -> TRUE

\* Of a conversation and of what is left of it when the turns of rules are left
\* out: the states a and b, and what is seen of the states before, v and w.
Alike(E, es, i, a, b, v, w) ==
  /\ a \in States(E) /\ b \in States(E) /\ v \in Sights(E) /\ w \in Sights(E)
  /\ a.loop = NoName /\ b.loop = NoName /\ a.slots = b.slots
  /\ v.states = w.states /\ ~w.hidden /\ b.latest_action = LastMl(v, a)
  /\ a.latest_action = LISTEN => b.latest_action = LISTEN
  /\ Pending(es, i) => a.latest_action = LISTEN
  /\ HiddenSoFar(es, i) => b.latest_action = LISTEN
  /\ Pending(es, i) /\ ~TakenByRules(es, i) => a.latest_message = b.latest_message
  /\ \A l \in 1 .. i : LastAct(es, l, i) => a.latest_action = es[l].name
  /\ NoActs(es, 1, i) =>
       /\ a.latest_action = NoName /\ ~v.hidden /\ v.states = <<>>
       /\ a.latest_message = b.latest_message /\ ~Pending(es, i)
  /\ ~NoActs(es, 1, i) =>
       /\ a.followup = NoName /\ a.latest_action # NoName /\ b.latest_action # NoName
       /\ v.states # <<>> /\ \E l \in 1 .. i : LastAct(es, l, i)
       /\ ~(Pending(es, i) /\ ~TakenByRules(es, i)) => Last(v.states)[USER] = b.latest_message.name

\* A state of a bot that listens is one that has heard something.
HasHeard(es, i, a) == a.latest_action = LISTEN => Pending(es, i)

\* At an event that is no action.
LEMMA AtNoAction ==
  ASSUME NEW E, NEW es \in Seq(E), NEW i \in 1 .. Len(es), ~Acts(es, i)
  PROVE  /\ Pending(es, i) <=> Says(es, i) \/ Pending(es, i - 1)
         /\ HiddenSoFar(es, i) <=> Says(es, i) \/ HiddenSoFar(es, i - 1)
         /\ TakenByRules(es, i) <=> TakenByRules(es, i - 1)
         /\ NoActs(es, 1, i) <=> NoActs(es, 1, i - 1)
         /\ \A l \in 1 .. i : LastAct(es, l, i) <=> l \in 1 .. i - 1 /\ LastAct(es, l, i - 1)
<1>1. \A k \in 1 .. i : NoActs(es, k, i) <=> NoActs(es, k, i - 1)
  BY DEF NoActs
<1>2. NoActs(es, i + 1, i) /\ (NoActs(es, 1, i) <=> NoActs(es, 1, i - 1))
  BY <1>1 DEF NoActs
<1>3. Pending(es, i) <=> Says(es, i) \/ Pending(es, i - 1)
  <2>1. ASSUME NEW u \in 1 .. i - 1 PROVE NoActs(es, u + 1, i) <=> NoActs(es, u + 1, i - 1)
    BY <1>1
  <2>. QED  BY <2>1 DEF Pending, NoActs
<1>4. HiddenSoFar(es, i) <=> Says(es, i) \/ HiddenSoFar(es, i - 1)
  BY DEF HiddenSoFar
<1>5. TakenByRules(es, i) <=> TakenByRules(es, i - 1)
  <2>1. \A k \in DOMAIN es : k > i - 1 /\ Acts(es, k) => k > i
    BY DEF Acts
  <2>2. i \notin Actions(es)
    BY DEF Actions, Acts
  <2>3. \A k \in DOMAIN es : k > i => Actions(es) \intersect (i + 1 .. k - 1) = Actions(es) \intersect (i - 1 + 1 .. k - 1)
    BY <2>2
  <2>. QED  BY <2>1, <2>2, <2>3 DEF TakenByRules, Actions, Acts
<1>6. \A l \in 1 .. i : LastAct(es, l, i) <=> l \in 1 .. i - 1 /\ LastAct(es, l, i - 1)
  BY <1>1 DEF LastAct, Acts
<1>. QED  BY <1>2, <1>3, <1>4, <1>5, <1>6

\* At an action.
LEMMA AtAction ==
  ASSUME NEW E, NEW es \in Seq(E), NEW i \in 1 .. Len(es), Acts(es, i), es[i].hide \in BOOLEAN
  PROVE  /\ ~Pending(es, i) /\ ~NoActs(es, 1, i) /\ LastAct(es, i, i)
         /\ HiddenSoFar(es, i) => es[i].hide /\ HiddenSoFar(es, i - 1)
         /\ TakenByRules(es, i - 1) <=> es[i].hide
         /\ \A l \in 1 .. i : LastAct(es, l, i) => l = i
<1>1. ~Pending(es, i)
  BY DEF Pending, NoActs, Says, Acts
<1>2. ~NoActs(es, 1, i) /\ LastAct(es, i, i) /\ \A l \in 1 .. i : LastAct(es, l, i) => l = i
  BY DEF NoActs, LastAct
<1>3. HiddenSoFar(es, i) => es[i].hide /\ HiddenSoFar(es, i - 1)
  BY DEF HiddenSoFar, Says, Acts
<1>4. TakenByRules(es, i - 1) <=> es[i].hide
  <2>1. i \in Actions(es)
    BY DEF Actions, Acts
  <2>2. Actions(es) \intersect (i - 1 + 1 .. i - 1) = {}
    OBVIOUS
  <2>3. \A k \in Actions(es) : k > i - 1 /\ Actions(es) \intersect (i - 1 + 1 .. k - 1) = {} => k = i
    BY <2>1 DEF Actions
  <2>. QED  BY <2>1, <2>2, <2>3 DEF TakenByRules
<1>. QED  BY <1>1, <1>2, <1>3, <1>4

\* What rules do not answer is seen alike.
LEMMA SameSight ==
  ASSUME NEW E, NEW R, SomeSlots(R), NEW es, NEW i, NEW a, NEW b, NEW v, NEW w,
         Alike(E, es, i, a, b, v, w), ~TakenByRules(es, i), HasHeard(es, i, a)
  PROVE  /\ SeenState(v, a, R) = SeenState(w, b, R)
         /\ SeenState(v, a, R)[USER] = b.latest_message.name
         /\ ~Hidden(v, PriorTo(a, FALSE)) /\ ~Hidden(w, PriorTo(b, FALSE))
<1>. DEFINE x == SeenState(v, a, R)
           y == SeenState(w, b, R)
<1>0. /\ a \in States(E) /\ b \in States(E) /\ v \in Sights(E) /\ w \in Sights(E)
      /\ a.loop = NoName /\ b.loop = NoName /\ a.slots = b.slots
      /\ v.states = w.states /\ ~w.hidden /\ b.latest_action = LastMl(v, a)
  BY DEF Alike
<1>1. /\ x \in [Features -> Values(E)]
      /\ x[USER] = IF v.states = <<>> \/ a.latest_action = LISTEN THEN a.latest_message.name
                   ELSE Last(v.states)[USER]
      /\ x[PREVIOUS_ACTION] = IF LastMl(v, a) = NoName THEN a.latest_action ELSE LastMl(v, a)
      /\ x[ACTIVE_LOOP] = NoName
      /\ \A s \in Slots : x[s] = IF s \in R.slots THEN NoName ELSE a.slots[s]
  BY <1>0, SeenParts
<1>2. /\ y \in [Features -> Values(E)]
      /\ y[USER] = IF w.states = <<>> \/ b.latest_action = LISTEN THEN b.latest_message.name
                   ELSE Last(w.states)[USER]
      /\ y[PREVIOUS_ACTION] = IF LastMl(w, b) = NoName THEN b.latest_action ELSE LastMl(w, b)
      /\ y[ACTIVE_LOOP] = NoName
      /\ \A s \in Slots : y[s] = IF s \in R.slots THEN NoName ELSE b.slots[s]
  BY <1>0, SeenParts
<1>3. LastMl(w, b) = b.latest_action
  BY <1>0 DEF LastMl
<1>. HIDE DEF x, y
<1>4. ASSUME NoActs(es, 1, i)
      PROVE  /\ x[USER] = b.latest_message.name /\ y[USER] = b.latest_message.name
             /\ x[PREVIOUS_ACTION] = y[PREVIOUS_ACTION] /\ ~Hidden(v, PriorTo(a, FALSE))
  <2>1. a.latest_action = NoName /\ ~v.hidden /\ v.states = <<>> /\ a.latest_message = b.latest_message
    BY <1>4 DEF Alike
  <2>2. b.latest_action = NoName
    BY <2>1, <1>0 DEF LastMl
  <2>3. x[USER] = b.latest_message.name /\ y[USER] = b.latest_message.name
    BY <1>0, <1>1, <1>2, <2>1
  <2>4. x[PREVIOUS_ACTION] = y[PREVIOUS_ACTION]
    BY <1>0, <1>1, <1>2, <1>3, <2>1, <2>2
  <2>5. ~Hidden(v, PriorTo(a, FALSE))
    BY <2>1 DEF Hidden, PriorTo
  <2>. QED  BY <2>3, <2>4, <2>5
<1>5. ASSUME ~NoActs(es, 1, i)
      PROVE  /\ x[USER] = b.latest_message.name /\ y[USER] = b.latest_message.name
             /\ x[PREVIOUS_ACTION] = y[PREVIOUS_ACTION] /\ ~Hidden(v, PriorTo(a, FALSE))
  <2>1. /\ a.followup = NoName /\ a.latest_action # NoName /\ b.latest_action # NoName
        /\ v.states # <<>>
        /\ ~(Pending(es, i) /\ ~TakenByRules(es, i)) => Last(v.states)[USER] = b.latest_message.name
    BY <1>5, Zenon DEF Alike
  <2>2. /\ a.latest_action = LISTEN => b.latest_action = LISTEN
        /\ Pending(es, i) => a.latest_action = LISTEN
        /\ Pending(es, i) => a.latest_message = b.latest_message
        /\ a.latest_action = LISTEN => Pending(es, i)
    BY Zenon DEF Alike, HasHeard
  <2>3. x[USER] = b.latest_message.name /\ y[USER] = b.latest_message.name
    BY <1>0, <1>1, <1>2, <2>1, <2>2
  <2>4. x[PREVIOUS_ACTION] = y[PREVIOUS_ACTION]
    BY <1>0, <1>1, <1>2, <1>3, <2>1
  <2>5. ~Hidden(v, PriorTo(a, FALSE))
    BY <1>0, <2>1 DEF Hidden, PriorTo, ActiveLoopName, Set
  <2>. QED  BY <2>3, <2>4, <2>5
<1>6. x = y
  <2>1. \A f \in Features : x[f] = y[f]
    BY <1>0, <1>1, <1>2, <1>4, <1>5 DEF Features
  <2>. QED  BY <1>1, <1>2, <2>1
<1>7. ~Hidden(w, PriorTo(b, FALSE))
  BY <1>0 DEF Hidden, PriorTo
<1>. QED  BY <1>4, <1>5, <1>6, <1>7 DEF x, y

\* One event of both.
Proceeds(E, R, es, i, a, b, v, w, a2, b2, v2, w2) ==
  /\ a2 = ApplyTo(a, es[i])
  /\ b2 = IF IsKept(es, i) THEN ApplyTo(b, es[i]) ELSE b
  /\ v2 = IF Acts(es, i) THEN Sight(v, PriorTo(a, es[i].hide), R) ELSE v
  /\ w2 = IF Acts(es, i) /\ IsKept(es, i) THEN Sight(w, PriorTo(b, es[i].hide), R) ELSE w

Loopless(es) == \A i \in 1 .. Len(es) : es[i].type = "active_loop" => es[i].name = NoName
RulesListenAlone(es) ==
  \A i \in 1 .. Len(es) : Acts(es, i) /\ es[i].name = LISTEN /\ es[i].hide => HiddenSoFar(es, i - 1)

\* An event that is neither action nor message.
LEMMA AlikeAfterOther ==
  ASSUME NEW E, Proper(E), NEW R, NEW es \in Seq(E), Loopless(es), NEW i \in 1 .. Len(es),
         NEW a, NEW b, NEW v, NEW w, NEW a2, NEW b2, NEW v2, NEW w2,
         Alike(E, es, i - 1, a, b, v, w), Proceeds(E, R, es, i, a, b, v, w, a2, b2, v2, w2),
         ~Acts(es, i), ~Says(es, i)
  PROVE  Alike(E, es, i, a2, b2, v2, w2)
<1>1. es[i] \in E /\ es[i].type \in {"rejected", "active_loop", "slot"}
  <2>1. es[i] \in E
    OBVIOUS
  <2>. QED  BY <2>1 DEF Proper, Acts, Says
<1>2. IsKept(es, i)
  BY DEF IsKept, Acts, Says
<1>3. a2 = ApplyTo(a, es[i]) /\ b2 = ApplyTo(b, es[i]) /\ v2 = v /\ w2 = w
  BY <1>2, Zenon DEF Proceeds
<1>4. /\ a \in States(E) /\ b \in States(E) /\ v \in Sights(E) /\ w \in Sights(E)
      /\ a.loop = NoName /\ b.loop = NoName /\ a.slots = b.slots
  BY DEF Alike
<1>5. /\ a2 \in States(E) /\ b2 \in States(E)
      /\ NextState(a, es[i], a2) /\ NextState(b, es[i], b2)
  BY <1>1, <1>3, <1>4, ApplyToParts
<1>6. /\ a2.followup = a.followup /\ a2.latest_action = a.latest_action /\ a2.latest_message = a.latest_message
      /\ b2.latest_action = b.latest_action /\ b2.latest_message = b.latest_message
      /\ a2.loop = NoName /\ b2.loop = NoName /\ a2.slots = b2.slots
  BY <1>1, <1>4, <1>5 DEF NextState, Loopless
<1>7. /\ Pending(es, i) <=> Pending(es, i - 1)
      /\ HiddenSoFar(es, i) <=> HiddenSoFar(es, i - 1)
      /\ TakenByRules(es, i) <=> TakenByRules(es, i - 1)
      /\ NoActs(es, 1, i) <=> NoActs(es, 1, i - 1)
      /\ \A l \in 1 .. i : LastAct(es, l, i) <=> l \in 1 .. i - 1 /\ LastAct(es, l, i - 1)
  BY AtNoAction
<1>8. LastMl(v2, a2) = LastMl(v, a)
  BY <1>3, <1>6 DEF LastMl
<1>9. \A l \in 1 .. i : LastAct(es, l, i) => a2.latest_action = es[l].name
  BY <1>6, <1>7 DEF Alike
<1>10. NoActs(es, 1, i) =>
         /\ a2.latest_action = NoName /\ ~v2.hidden /\ v2.states = <<>>
         /\ a2.latest_message = b2.latest_message /\ ~Pending(es, i)
  BY <1>3, <1>6, <1>7 DEF Alike
<1>11. ~NoActs(es, 1, i) =>
         /\ a2.followup = NoName /\ a2.latest_action # NoName /\ b2.latest_action # NoName
         /\ v2.states # <<>> /\ \E l \in 1 .. i : LastAct(es, l, i)
         /\ ~(Pending(es, i) /\ ~TakenByRules(es, i)) => Last(v2.states)[USER] = b2.latest_message.name
  <2>1. 1 .. i - 1 \subseteq 1 .. i
    OBVIOUS
  <2>. QED  BY <1>3, <1>6, <1>7, <2>1, Zenon DEF Alike
<1>12. /\ v2.states = w2.states /\ ~w2.hidden /\ b2.latest_action = LastMl(v2, a2)
       /\ v2 \in Sights(E) /\ w2 \in Sights(E)
       /\ a2.latest_action = LISTEN => b2.latest_action = LISTEN
       /\ Pending(es, i) => a2.latest_action = LISTEN
       /\ HiddenSoFar(es, i) => b2.latest_action = LISTEN
       /\ Pending(es, i) /\ ~TakenByRules(es, i) => a2.latest_message = b2.latest_message
  BY <1>3, <1>6, <1>7, <1>8 DEF Alike
<1>. QED  BY <1>5, <1>6, <1>9, <1>10, <1>11, <1>12, Zenon DEF Alike

\* A message: after a listening of both.
LEMMA AlikeAfterMessage ==
  ASSUME NEW E, Proper(E), NEW R, NEW es \in Seq(E), Turns(es), NEW i \in 1 .. Len(es),
         NEW a, NEW b, NEW v, NEW w, NEW a2, NEW b2, NEW v2, NEW w2,
         Alike(E, es, i - 1, a, b, v, w), Proceeds(E, R, es, i, a, b, v, w, a2, b2, v2, w2),
         Says(es, i)
  PROVE  Alike(E, es, i, a2, b2, v2, w2)
<1>1. es[i] \in E /\ es[i].type = "user" /\ ~Acts(es, i)
  BY DEF Says, Acts
<1>2. IsKept(es, i) <=> ~TakenByRules(es, i)
  BY <1>1 DEF IsKept
<1>3. a2 = ApplyTo(a, es[i]) /\ v2 = v /\ w2 = w /\ b2 = IF IsKept(es, i) THEN ApplyTo(b, es[i]) ELSE b
  BY <1>1, Zenon DEF Proceeds
<1>4. /\ a \in States(E) /\ b \in States(E) /\ v \in Sights(E) /\ w \in Sights(E)
      /\ a.loop = NoName /\ b.loop = NoName /\ a.slots = b.slots
  BY DEF Alike
<1>5. /\ a2 \in States(E) /\ ApplyTo(b, es[i]) \in States(E)
      /\ NextState(a, es[i], a2) /\ NextState(b, es[i], ApplyTo(b, es[i]))
  BY <1>1, <1>3, <1>4, ApplyToParts
<1>6. /\ a2.followup = NoName /\ a2.latest_action = a.latest_action /\ a2.latest_message = es[i]
      /\ b2.latest_action = b.latest_action /\ b2 \in States(E)
      /\ a2.loop = NoName /\ b2.loop = NoName /\ a2.slots = b2.slots
      /\ b2.latest_message = IF IsKept(es, i) THEN es[i] ELSE b.latest_message
  BY <1>1, <1>3, <1>4, <1>5 DEF NextState
<1>7. /\ Pending(es, i) /\ HiddenSoFar(es, i)
      /\ TakenByRules(es, i) <=> TakenByRules(es, i - 1)
      /\ NoActs(es, 1, i) <=> NoActs(es, 1, i - 1)
      /\ \A l \in 1 .. i : LastAct(es, l, i) <=> l \in 1 .. i - 1 /\ LastAct(es, l, i - 1)
  BY <1>1, AtNoAction
<1>8. PICK l \in 1 .. i - 1 : LastAct(es, l, i - 1) /\ es[l].name = LISTEN
  BY DEF Turns
<1>9. a.latest_action = LISTEN /\ b.latest_action = LISTEN
  BY <1>8 DEF Alike
<1>10. ~NoActs(es, 1, i - 1)
  BY <1>8 DEF LastAct, NoActs
<1>11. LastMl(v2, a2) = LastMl(v, a)
  BY <1>3, <1>6 DEF LastMl
<1>12. \A k \in 1 .. i : LastAct(es, k, i) => a2.latest_action = es[k].name
  BY <1>6, <1>7 DEF Alike
<1>13. TakenByRules(es, i) => Last(v2.states)[USER] = b2.latest_message.name
  BY <1>2, <1>3, <1>6, <1>7, <1>10, Zenon DEF Alike
<1>14. /\ a2.followup = NoName /\ a2.latest_action # NoName /\ b2.latest_action # NoName
       /\ v2.states # <<>> /\ \E k \in 1 .. i : LastAct(es, k, i)
  <2>1. 1 .. i - 1 \subseteq 1 .. i
    OBVIOUS
  <2>. QED  BY <1>3, <1>6, <1>7, <1>8, <1>10, <2>1, Zenon DEF Alike
<1>15. /\ v2.states = w2.states /\ ~w2.hidden /\ b2.latest_action = LastMl(v2, a2)
       /\ v2 \in Sights(E) /\ w2 \in Sights(E)
       /\ a2.latest_action = LISTEN /\ b2.latest_action = LISTEN
       /\ ~TakenByRules(es, i) => a2.latest_message = b2.latest_message
  BY <1>2, <1>3, <1>6, <1>9, <1>11 DEF Alike
<1>. QED  BY <1>5, <1>6, <1>7, <1>10, <1>12, <1>13, <1>14, <1>15, Zenon DEF Alike

\* A listening before an action has been answered.
LEMMA HeardBeforeAction ==
  ASSUME NEW E, NEW es \in Seq(E), Turns(es), NEW i \in 1 .. Len(es), Acts(es, i),
         NEW a, NEW b, NEW v, NEW w, Alike(E, es, i - 1, a, b, v, w), a.latest_action = LISTEN
  PROVE  Pending(es, i - 1)
<1>1. ~NoActs(es, 1, i - 1)
  <2>1. LISTEN # NoName
    BY DEF LISTEN, NoName
  <2>. QED  BY <2>1, Zenon DEF Alike
<1>2. PICK l \in 1 .. i - 1 : LastAct(es, l, i - 1)
  BY <1>1, Zenon DEF Alike
<1>3. es[l].name = LISTEN
  BY <1>2, Zenon DEF Alike
<1>4. PICK u \in l + 1 .. i - 1 : Says(es, u)
  BY <1>2, <1>3 DEF Turns
<1>5. u \in 1 .. i - 1 /\ NoActs(es, u + 1, i - 1)
  BY <1>2 DEF LastAct, NoActs
<1>. QED  BY <1>4, <1>5 DEF Pending

\* An action of the stories.
LEMMA AlikeAfterAction ==
  ASSUME NEW E, Proper(E), NEW R, SomeSlots(R), NEW es \in Seq(E), Turns(es), NEW i \in 1 .. Len(es),
         NEW a, NEW b, NEW v, NEW w, NEW a2, NEW b2, NEW v2, NEW w2,
         Alike(E, es, i - 1, a, b, v, w), Proceeds(E, R, es, i, a, b, v, w, a2, b2, v2, w2),
         Acts(es, i), ~Hides(es, i)
  PROVE  Alike(E, es, i, a2, b2, v2, w2)
<1>. DEFINE p == PriorTo(a, FALSE)
           q == PriorTo(b, FALSE)
<1>1. es[i] \in E /\ es[i].type = "action" /\ es[i].hide = FALSE /\ es[i].name # NoName
  <2>1. es[i] \in E
    OBVIOUS
  <2>. QED  BY <2>1 DEF Proper, Acts, Hides
<1>2. a2 = ApplyTo(a, es[i]) /\ b2 = ApplyTo(b, es[i]) /\ v2 = Sight(v, p, R) /\ w2 = Sight(w, q, R)
  BY <1>1 DEF Proceeds, IsKept
<1>3. /\ a \in States(E) /\ b \in States(E) /\ v \in Sights(E) /\ w \in Sights(E)
      /\ a.loop = NoName /\ b.loop = NoName /\ a.slots = b.slots /\ v.states = w.states
  BY DEF Alike
<1>4. /\ a2 \in States(E) /\ b2 \in States(E)
      /\ NextState(a, es[i], a2) /\ NextState(b, es[i], b2)
  BY <1>1, <1>2, <1>3, ApplyToParts
<1>5. /\ a2.followup = NoName /\ a2.latest_action = es[i].name /\ b2.latest_action = es[i].name
      /\ b2.latest_message = b.latest_message
      /\ a2.loop = NoName /\ b2.loop = NoName /\ a2.slots = b2.slots
  BY <1>1, <1>3, <1>4 DEF NextState
<1>6. /\ ~Pending(es, i) /\ ~NoActs(es, 1, i) /\ LastAct(es, i, i) /\ ~HiddenSoFar(es, i)
      /\ ~TakenByRules(es, i - 1)
      /\ \A l \in 1 .. i : LastAct(es, l, i) => l = i
  BY <1>1, AtAction
<1>7. HasHeard(es, i - 1, a)
  BY HeardBeforeAction DEF HasHeard
<1>8. /\ SeenState(v, a, R) = SeenState(w, b, R)
      /\ SeenState(v, a, R)[USER] = b.latest_message.name
      /\ ~Hidden(v, p) /\ ~Hidden(w, q)
  BY <1>6, <1>7, SameSight
<1>9. p \in PriorOf(E) /\ q \in PriorOf(E) /\ p.state = a /\ q.state = b
  BY <1>3 DEF PriorTo, PriorOf
<1>10. /\ v2 \in Sights(E) /\ w2 \in Sights(E) /\ SeenState(v, a, R) \in [Features -> Values(E)]
  BY <1>2, <1>3, <1>9, SightType
<1>11. /\ v2.states = Append(v.states, SeenState(v, a, R)) /\ w2.states = Append(w.states, SeenState(w, b, R))
       /\ ~v2.hidden /\ ~w2.hidden
  BY <1>2, <1>8, <1>9 DEF Sight
<1>12. v2.states # <<>> /\ Last(v2.states) = SeenState(v, a, R)
  <2>. DEFINE x == SeenState(v, a, R)
             V == [Features -> Values(E)]
  <2>1. v.states \in Seq(V) /\ x \in V
    BY <1>3, <1>10 DEF Sights
  <2>. HIDE DEF x, V
  <2>2. Append(v.states, x) # <<>> /\ Last(Append(v.states, x)) = x
    BY <2>1 DEF Last
  <2>. QED  BY <1>11, <2>2 DEF x
<1>13. b2.latest_action = LastMl(v2, a2)
  BY <1>5, <1>11 DEF LastMl
<1>14. v2.states = w2.states
  BY <1>3, <1>8, <1>11
<1>15. \A l \in 1 .. i : LastAct(es, l, i) => a2.latest_action = es[l].name
  BY <1>5, <1>6
<1>16. /\ a2.latest_action # NoName /\ b2.latest_action # NoName
       /\ \E l \in 1 .. i : LastAct(es, l, i)
       /\ Last(v2.states)[USER] = b2.latest_message.name
  BY <1>1, <1>5, <1>6, <1>8, <1>12
<1>. QED  BY <1>4, <1>5, <1>6, <1>10, <1>11, <1>12, <1>13, <1>14, <1>15, <1>16, Zenon DEF Alike

\* An action that only rules know of.
LEMMA AlikeAfterHiddenAction ==
  ASSUME NEW E, Proper(E), NEW R, SomeSlots(R), NEW es \in Seq(E), Turns(es), RulesListenAlone(es),
         NEW i \in 1 .. Len(es),
         NEW a, NEW b, NEW v, NEW w, NEW a2, NEW b2, NEW v2, NEW w2,
         Alike(E, es, i - 1, a, b, v, w), Proceeds(E, R, es, i, a, b, v, w, a2, b2, v2, w2),
         Acts(es, i), Hides(es, i)
  PROVE  Alike(E, es, i, a2, b2, v2, w2)
<1>. DEFINE p == PriorTo(a, TRUE)
<1>1. es[i] \in E /\ es[i].type = "action" /\ es[i].hide = TRUE /\ es[i].name # NoName
  <2>1. es[i] \in E
    OBVIOUS
  <2>. QED  BY <2>1 DEF Proper, Acts, Hides
<1>2. a2 = ApplyTo(a, es[i]) /\ b2 = b /\ v2 = Sight(v, p, R) /\ w2 = w
  BY <1>1 DEF Proceeds, IsKept
<1>3. /\ a \in States(E) /\ b \in States(E) /\ v \in Sights(E) /\ w \in Sights(E)
      /\ a.loop = NoName /\ b.loop = NoName /\ a.slots = b.slots /\ v.states = w.states /\ ~w.hidden
      /\ b.latest_action = LastMl(v, a)
  BY DEF Alike
<1>4. a2 \in States(E) /\ NextState(a, es[i], a2)
  BY <1>1, <1>2, <1>3, ApplyToParts
<1>5. /\ a2.followup = NoName /\ a2.latest_action = es[i].name
      /\ a2.loop = NoName /\ a2.slots = b2.slots
  BY <1>1, <1>2, <1>3, <1>4 DEF NextState
<1>6. /\ ~Pending(es, i) /\ ~NoActs(es, 1, i) /\ LastAct(es, i, i)
      /\ HiddenSoFar(es, i) => HiddenSoFar(es, i - 1)
      /\ TakenByRules(es, i - 1)
      /\ \A l \in 1 .. i : LastAct(es, l, i) => l = i
  BY <1>1, AtAction
<1>7. ~NoActs(es, 1, i - 1)
  BY DEF Turns, Hides
<1>8. /\ a.followup = NoName /\ a.latest_action # NoName /\ b.latest_action # NoName
      /\ v.states # <<>>
      /\ Last(v.states)[USER] = b.latest_message.name
  BY <1>6, <1>7, Zenon DEF Alike
<1>9. p \in PriorOf(E) /\ p.state = a /\ p.hide
  BY <1>3 DEF PriorTo, PriorOf
<1>10. Hidden(v, p)
  BY <1>3, <1>8, <1>9 DEF Hidden, ActiveLoopName, Set
<1>11. v2 \in Sights(E) /\ v2.states = v.states /\ v2.hidden /\ v2.lastMl = LastMl(v, a)
  <2>1. v2 \in Sights(E)
    BY <1>2, <1>3, <1>9, SightType
  <2>. QED  BY <2>1, <1>2, <1>9, <1>10 DEF Sight
<1>12. LastMl(v2, a2) = b2.latest_action
  BY <1>2, <1>3, <1>11 DEF LastMl
<1>13. HiddenSoFar(es, i - 1) => b2.latest_action = LISTEN
  BY <1>2, Zenon DEF Alike
<1>14. a2.latest_action = LISTEN => b2.latest_action = LISTEN
  BY <1>1, <1>5, <1>13 DEF RulesListenAlone
<1>15. \A l \in 1 .. i : LastAct(es, l, i) => a2.latest_action = es[l].name
  BY <1>5, <1>6
<1>16. /\ a2.latest_action # NoName
       /\ \E l \in 1 .. i : LastAct(es, l, i)
       /\ Last(v2.states)[USER] = b2.latest_message.name
  <2>1. a2.latest_action # NoName /\ Last(v2.states)[USER] = b2.latest_message.name
    BY <1>1, <1>2, <1>5, <1>8, <1>11
  <2>2. i \in 1 .. i
    OBVIOUS
  <2>. QED  BY <1>6, <2>1, <2>2, Zenon
<1>. QED  BY <1>2, <1>3, <1>4, <1>5, <1>6, <1>8, <1>11, <1>12, <1>13, <1>14, <1>15, <1>16, Zenon DEF Alike

\* What is left without the turns of rules, event by event.
LEMMA WithoutRuleTurnsSteps ==
  ASSUME NEW E, NEW es \in Seq(E)
  PROVE  \E g \in [0 .. Len(es) -> Seq(E)] :
           /\ g[0] = <<>> /\ g[Len(es)] = WithoutRuleTurns(es)
           /\ \A i \in 1 .. Len(es) : g[i] = IF IsKept(es, i) THEN Append(g[i - 1], es[i]) ELSE g[i - 1]
<1>. DEFINE n == Len(es)
           is == [i \in DOMAIN es |-> i]
           Step(kept, i) == IF IsKept(es, i) THEN Append(kept, es[i]) ELSE kept
           step == [p \in Seq(E) \X (1 .. n) |-> Step(p[1], p[2])]
           Fold(h) == h = [i \in 0 .. Len(is) |-> IF i = 0 THEN <<>> ELSE Step(h[i - 1], is[i])]
<1>1. n \in Nat /\ is \in Seq(1 .. n) /\ Len(is) = n /\ \A i \in 1 .. n : is[i] = i
  OBVIOUS
<1>2. step \in [Seq(E) \X (1 .. n) -> Seq(E)]
  OBVIOUS
<1>3. \A s \in Seq(E), i \in 1 .. n : step[<<s, i>>] = Step(s, i)
  OBVIOUS
<1>. HIDE DEF step, Step, is
<1>4. PICK g : IsFold(g, Seq(E), step, <<>>, is)
  <2>1. <<>> \in Seq(E)
    OBVIOUS
  <2>. QED  BY <1>1, <1>2, <2>1, FoldExists
<1>5. g \in [0 .. n -> Seq(E)] /\ g[0] = <<>> /\ \A i \in 1 .. n : g[i] = step[<<g[i - 1], is[i]>>]
  BY <1>1, <1>4 DEF IsFold
<1>. HIDE DEF n
<1>6. \A i \in 1 .. n : g[i] = Step(g[i - 1], i) /\ is[i] = i
  <2>. TAKE i \in 1 .. n
  <2>1. i - 1 \in 0 .. n
    BY <1>1
  <2>2. g[i - 1] \in Seq(E)
    BY <1>5, <2>1
  <2>3. is[i] = i /\ g[i] = Step(g[i - 1], is[i])
    BY <1>1, <1>3, <1>5, <2>2
  <2>. QED  BY <2>3, Zenon
<1>7. Fold(g)
  BY <1>1, <1>5, <1>6
<1>8. ASSUME NEW h, Fold(h) PROVE h = g
  <2>1. h[0] = g[0] /\ \A i \in 1 .. n : h[i - 1] = g[i - 1] => h[i] = g[i]
    BY <1>1, <1>6, <1>7, <1>8
  <2>2. n \in Nat
    BY <1>1
  <2>3. \A i \in 0 .. n : h[i] = g[i]
    BY <2>1, <2>2, FoldsAgree, Zenon
  <2>. QED  BY <1>1, <2>3, <1>7, <1>8
<1>9. WithoutRuleTurns(es) = (CHOOSE h : Fold(h))[Len(is)]
  BY DEF WithoutRuleTurns, Through, Step, IsKept, is
<1>10. (CHOOSE h : Fold(h)) = g
  <2>. HIDE DEF Fold
  <2>. QED  BY <1>7, <1>8
<1>11. WithoutRuleTurns(es) = g[n]
  BY <1>1, <1>9, <1>10
<1>. QED  BY <1>5, <1>6, <1>11 DEF Step, n

LEMMA PrefixByPrefix ==
  ASSUME NEW E, NEW es \in Seq(E), NEW i \in 1 .. Len(es)
  PROVE  /\ SubSeq(es, 1, i) = Append(SubSeq(es, 1, i - 1), es[i])
         /\ SubSeq(es, 1, i - 1) \in Seq(E) /\ es[i] \in E
OBVIOUS

\* Nothing has happened yet.
LEMMA AlikeAtFirst ==
  ASSUME NEW E, Proper(E), NEW es
  PROVE  Alike(E, es, 0, Fresh, Fresh, NoSight, NoSight)
<1>1. Fresh \in States(E) /\ Fresh.loop = NoName /\ Fresh.latest_action = NoName
  BY FreshState
<1>2. NoSight \in Sights(E) /\ NoSight.hidden = FALSE /\ NoSight.states = <<>> /\ LastMl(NoSight, Fresh) = NoName
  BY <1>1 DEF NoSight, Sights, Values, LastMl
<1>3. ~Pending(es, 0) /\ ~HiddenSoFar(es, 0) /\ NoActs(es, 1, 0) /\ 1 .. 0 = {}
  BY DEF Pending, HiddenSoFar, NoActs
<1>4. LISTEN # NoName
  BY DEF LISTEN, NoName
<1>. QED  BY <1>1, <1>2, <1>3, <1>4 DEF Alike

\* What rules alone did leaves no trace in what policies that learn from stories see.
LEMMA RulesLeaveNoTrace ==
  ASSUME NEW E, Proper(E), NEW R, SomeSlots(R),
         NEW es \in Seq(E), Turns(es), Answered(es), Loopless(es), RulesListenAlone(es)
  PROVE  StatesWithoutRuleTurns(es, R) = StatesWithoutRuleTurns(WithoutRuleTurns(es), R)
<1>1. PICK g \in [0 .. Len(es) -> Seq(E)] :
        /\ g[0] = <<>> /\ g[Len(es)] = WithoutRuleTurns(es)
        /\ \A i \in 1 .. Len(es) : g[i] = IF IsKept(es, i) THEN Append(g[i - 1], es[i]) ELSE g[i - 1]
  BY WithoutRuleTurnsSteps
<1>. DEFINE n == Len(es)
           a(i) == Replayed(SubSeq(es, 1, i))
           b(i) == Replayed(g[i])
           v(i) == View(SubSeq(es, 1, i), R)
           w(i) == View(g[i], R)
           S == {i \in 0 .. n : Alike(E, es, i, a(i), b(i), v(i), w(i))}
<1>2. n \in Nat /\ SubSeq(es, 1, 0) = <<>> /\ SubSeq(es, 1, n) = es
  OBVIOUS
<1>3. 0 \in S
  <2>1. a(0) = Fresh /\ b(0) = Fresh /\ v(0) = NoSight /\ w(0) = NoSight
    BY <1>1, <1>2, ReplayedEmpty, ViewEmpty
  <2>. HIDE DEF a, b, v, w
  <2>. QED  BY <1>2, <2>1, AlikeAtFirst
<1>4. ASSUME NEW i \in 1 .. n, i - 1 \in S PROVE i \in S
  <2>1. /\ SubSeq(es, 1, i) = Append(SubSeq(es, 1, i - 1), es[i])
        /\ SubSeq(es, 1, i - 1) \in Seq(E) /\ es[i] \in E
    BY PrefixByPrefix
  <2>2. g[i - 1] \in Seq(E) /\ g[i] = IF IsKept(es, i) THEN Append(g[i - 1], es[i]) ELSE g[i - 1]
    BY <1>1
  <2>3. a(i) = ApplyTo(a(i - 1), es[i])
    BY <2>1, ReplayedAppend
  <2>4. b(i) = IF IsKept(es, i) THEN ApplyTo(b(i - 1), es[i]) ELSE b(i - 1)
    BY <2>1, <2>2, ReplayedAppend
  <2>5. v(i) = IF Acts(es, i) THEN Sight(v(i - 1), PriorTo(a(i - 1), es[i].hide), R) ELSE v(i - 1)
    <3>1. View(Append(SubSeq(es, 1, i - 1), es[i]), R)
            = IF es[i].type = "action"
                THEN Sight(View(SubSeq(es, 1, i - 1), R), PriorTo(Replayed(SubSeq(es, 1, i - 1)), es[i].hide), R)
              ELSE View(SubSeq(es, 1, i - 1), R)
      BY <2>1, ViewAppend, Zenon
    <3>. QED  BY <2>1, <3>1, Zenon DEF Acts
  <2>6. w(i) = IF Acts(es, i) /\ IsKept(es, i) THEN Sight(w(i - 1), PriorTo(b(i - 1), es[i].hide), R) ELSE w(i - 1)
    <3>1. CASE IsKept(es, i)
      <4>1. g[i] = Append(g[i - 1], es[i])
        BY <2>2, <3>1
      <4>2. View(Append(g[i - 1], es[i]), R)
              = IF es[i].type = "action" THEN Sight(View(g[i - 1], R), PriorTo(Replayed(g[i - 1]), es[i].hide), R)
                ELSE View(g[i - 1], R)
        BY <2>1, <2>2, ViewAppend, Zenon
      <4>. QED  BY <3>1, <4>1, <4>2, Zenon DEF Acts
    <3>2. CASE ~IsKept(es, i)
      BY <2>2, <3>2
    <3>. QED  BY <3>1, <3>2
  <2>7. Alike(E, es, i - 1, a(i - 1), b(i - 1), v(i - 1), w(i - 1))
    BY <1>4
  <2>8. Proceeds(E, R, es, i, a(i - 1), b(i - 1), v(i - 1), w(i - 1), a(i), b(i), v(i), w(i))
    BY <2>3, <2>4, <2>5, <2>6, Zenon DEF Proceeds
  <2>. HIDE DEF a, b, v, w
  <2>9. Alike(E, es, i, a(i), b(i), v(i), w(i))
    <3>1. CASE ~Acts(es, i) /\ ~Says(es, i)
      BY <2>7, <2>8, <3>1, AlikeAfterOther
    <3>2. CASE Says(es, i)
      BY <2>7, <2>8, <3>2, AlikeAfterMessage
    <3>3. CASE Acts(es, i) /\ ~Hides(es, i)
      BY <2>7, <2>8, <3>3, AlikeAfterAction
    <3>4. CASE Acts(es, i) /\ Hides(es, i)
      BY <2>7, <2>8, <3>4, AlikeAfterHiddenAction
    <3>. QED  BY <3>1, <3>2, <3>3, <3>4
  <2>10. i \in 0 .. n
    BY <1>2
  <2>. QED  BY <2>9, <2>10
<1>5. n \in S
  <2>1. \A i \in 0 .. n : i \in S
    <3>. HIDE DEF S
    <3>. QED  BY <1>2, <1>3, <1>4, InductionUpTo
  <2>. QED  BY <1>2, <2>1
<1>6. Alike(E, es, n, a(n), b(n), v(n), w(n))
  BY <1>5
<1>7. ~TakenByRules(es, n)
  BY <1>2 DEF TakenByRules, Actions
<1>8. HasHeard(es, n, a(n))
  <2>. SUFFICES ASSUME a(n).latest_action = LISTEN PROVE Pending(es, n)
    BY DEF HasHeard
  <2>0. LISTEN # NoName
    BY DEF LISTEN, NoName
  <2>. HIDE DEF a, b, v, w
  <2>1. ~NoActs(es, 1, n)
    BY <1>6, <2>0, Zenon DEF Alike
  <2>2. PICK l \in 1 .. n : LastAct(es, l, n)
    BY <1>6, <2>1, Zenon DEF Alike
  <2>3. es[l].name = LISTEN
    BY <1>6, <2>2, Zenon DEF Alike
  <2>4. PICK u \in l + 1 .. n : Says(es, u)
    BY <2>2, <2>3 DEF Answered
  <2>5. u \in 1 .. n /\ NoActs(es, u + 1, n)
    BY <1>2, <2>2 DEF LastAct, NoActs
  <2>. QED  BY <2>4, <2>5 DEF Pending
<1>9. /\ SeenState(v(n), a(n), R) = SeenState(w(n), b(n), R)
      /\ ~Hidden(v(n), PriorTo(a(n), FALSE)) /\ ~Hidden(w(n), PriorTo(b(n), FALSE))
      /\ v(n).states = w(n).states
  <2>. HIDE DEF a, b, v, w
  <2>1. v(n).states = w(n).states
    BY <1>6 DEF Alike
  <2>2. /\ SeenState(v(n), a(n), R) = SeenState(w(n), b(n), R)
        /\ ~Hidden(v(n), PriorTo(a(n), FALSE)) /\ ~Hidden(w(n), PriorTo(b(n), FALSE))
    <3>. HIDE DEF n
    <3>. QED  BY <1>6, <1>7, <1>8, SameSight
  <2>. QED  BY <2>1, <2>2
<1>10. Sight(v(n), PriorTo(a(n), FALSE), R).states = Sight(w(n), PriorTo(b(n), FALSE), R).states
  <2>. HIDE DEF a, b, v, w
  <2>. QED  BY <1>9 DEF Sight, PriorTo
<1>11. StatesWithoutRuleTurns(es, R) = Sight(v(n), PriorTo(a(n), FALSE), R).states
  BY <1>2, StatesWithoutRuleTurnsView
<1>12. StatesWithoutRuleTurns(WithoutRuleTurns(es), R) = Sight(w(n), PriorTo(b(n), FALSE), R).states
  <2>1. g[n] \in Seq(E) /\ g[n] = WithoutRuleTurns(es)
    BY <1>1, <1>2
  <2>. QED  BY <2>1, StatesWithoutRuleTurnsView
<1>. QED  BY <1>10, <1>11, <1>12

-----------------------------------------------------------------------------
(* How turns go on.                                                        *)

\* A sequence that another one begins with.
Begun(E, s, es) ==
  /\ s \in Seq(E) /\ es \in Seq(E) /\ Len(s) =< Len(es)
  /\ \A i \in 1 .. Len(s) : es[i] = s[i]

TurnAt(es, i) ==
  /\ Acts(es, i) /\ NoActs(es, 1, i - 1) => es[i].name = LISTEN /\ ~es[i].hide
  /\ Says(es, i) => \E l \in 1 .. i - 1 : LastAct(es, l, i - 1) /\ es[l].name = LISTEN
  /\ Acts(es, i) => \A l \in 1 .. i - 1 :
       LastAct(es, l, i - 1) /\ es[l].name = LISTEN => \E u \in l + 1 .. i - 1 : Says(es, u)

LEMMA TurnsAt == \A es : Turns(es) <=> \A i \in 1 .. Len(es) : TurnAt(es, i)
BY DEF Turns, TurnAt

LEMMA BegunAlike ==
  ASSUME NEW E, NEW s, NEW es, Begun(E, s, es), NEW i \in 1 .. Len(s)
  PROVE  /\ Acts(es, i) <=> Acts(s, i)
         /\ Says(es, i) <=> Says(s, i)
         /\ es[i] = s[i]
         /\ \A l \in 1 .. i + 1 : NoActs(es, l, i) <=> NoActs(s, l, i)
         /\ \A l \in 1 .. i : NoActs(es, l, i - 1) <=> NoActs(s, l, i - 1)
<1>1. \A k \in 1 .. Len(s) : es[k] = s[k]
  BY DEF Begun
<1>2. Len(s) \in Nat
  BY DEF Begun
<1>3. \A k \in 1 .. Len(s) : Acts(es, k) <=> Acts(s, k)
  BY <1>1 DEF Acts
<1>4. \A l \in 1 .. i + 1 : \A k \in l .. i : k \in 1 .. Len(s)
  BY <1>2
<1>5. \A l \in 1 .. i : \A k \in l .. i - 1 : k \in 1 .. Len(s)
  BY <1>2
<1>6. \A l \in 1 .. i + 1 : NoActs(es, l, i) <=> NoActs(s, l, i)
  BY <1>3, <1>4 DEF NoActs
<1>7. \A l \in 1 .. i : NoActs(es, l, i - 1) <=> NoActs(s, l, i - 1)
  BY <1>3, <1>5 DEF NoActs
<1>. QED  BY <1>1, <1>3, <1>6, <1>7 DEF Says

LEMMA BegunTurnAt ==
  ASSUME NEW E, NEW s, NEW es, Begun(E, s, es), NEW i \in 1 .. Len(s)
  PROVE  TurnAt(es, i) <=> TurnAt(s, i)
<1>1. \A k \in 1 .. Len(s) : (Acts(es, k) <=> Acts(s, k)) /\ (Says(es, k) <=> Says(s, k)) /\ es[k] = s[k]
  BY BegunAlike
<1>2. \A l \in 1 .. i : NoActs(es, l, i - 1) <=> NoActs(s, l, i - 1)
  BY BegunAlike
<1>3. Len(s) \in Nat
  BY DEF Begun
<1>4. /\ \A l \in 1 .. i - 1 : l \in 1 .. Len(s) /\ l + 1 \in 1 .. i
      /\ \A l \in 1 .. i - 1 : \A u \in l + 1 .. i - 1 : u \in 1 .. Len(s)
      /\ 1 \in 1 .. i
  BY <1>3
<1>5. \A l \in 1 .. i - 1 : LastAct(es, l, i - 1) <=> LastAct(s, l, i - 1)
  BY <1>1, <1>2, <1>4 DEF LastAct
<1>. QED  BY <1>1, <1>2, <1>4, <1>5 DEF TurnAt

\* The beginning of turns are turns.
LEMMA TurnsBegin ==
  ASSUME NEW E, NEW s, NEW es, Begun(E, s, es), Turns(es)
  PROVE  Turns(s)
<1>1. \A i \in 1 .. Len(s) : i \in 1 .. Len(es)
  BY DEF Begun
<1>. QED  BY <1>1, TurnsAt, BegunTurnAt

\* What is neither message nor action changes no turn.
LEMMA TurnsGoOn ==
  ASSUME NEW E, NEW s, NEW es, Begun(E, s, es), Turns(s),
         \A i \in Len(s) + 1 .. Len(es) : ~Acts(es, i) /\ ~Says(es, i)
  PROVE  Turns(es)
<1>1. Len(s) \in Nat /\ Len(es) \in Nat
  BY DEF Begun
<1>2. ASSUME NEW i \in 1 .. Len(es) PROVE TurnAt(es, i)
  <2>1. CASE i \in 1 .. Len(s)
    BY <2>1, TurnsAt, BegunTurnAt
  <2>2. CASE i \in Len(s) + 1 .. Len(es)
    BY <2>2 DEF TurnAt
  <2>. QED  BY <1>1, <2>1, <2>2
<1>. QED  BY <1>2, TurnsAt

LEMMA AnsweredGoesOn ==
  ASSUME NEW E, NEW s, NEW es, Begun(E, s, es), Answered(s),
         \A i \in Len(s) + 1 .. Len(es) : ~Acts(es, i)
  PROVE  Answered(es)
<1>1. Len(s) \in Nat /\ Len(es) \in Nat /\ Len(s) =< Len(es)
  BY DEF Begun
<1>2. SUFFICES ASSUME NEW l \in 1 .. Len(es), LastAct(es, l, Len(es)), es[l].name = LISTEN
               PROVE  \E u \in l + 1 .. Len(es) : Says(es, u)
  BY DEF Answered
<1>3. l \in 1 .. Len(s)
  BY <1>1, <1>2 DEF LastAct
<1>4. \A k \in 1 .. Len(s) : (Acts(es, k) <=> Acts(s, k)) /\ (Says(es, k) <=> Says(s, k)) /\ es[k] = s[k]
  BY BegunAlike
<1>5. LastAct(s, l, Len(s))
  <2>1. \A k \in l + 1 .. Len(s) : k \in l + 1 .. Len(es) /\ k \in 1 .. Len(s)
    BY <1>1, <1>3
  <2>. QED  BY <1>2, <1>3, <1>4, <2>1 DEF LastAct, NoActs
<1>6. PICK u \in l + 1 .. Len(s) : Says(s, u)
  BY <1>2, <1>3, <1>4, <1>5 DEF Answered
<1>7. u \in 1 .. Len(s) /\ u \in l + 1 .. Len(es)
  BY <1>1, <1>3
<1>. QED  BY <1>4, <1>6, <1>7

\* A sequence begins one with an event more.
LEMMA BegunAppend ==
  ASSUME NEW E, NEW s \in Seq(E), NEW e \in E
  PROVE  /\ Begun(E, s, Append(s, e)) /\ Len(Append(s, e)) = Len(s) + 1 /\ Len(s) \in Nat
         /\ Append(s, e)[Len(s) + 1] = e
BY Appended DEF Begun

LEMMA BegunSubSeq ==
  ASSUME NEW E, NEW es \in Seq(E), NEW i \in 0 .. Len(es)
  PROVE  /\ Begun(E, SubSeq(es, 1, i), es) /\ Len(SubSeq(es, 1, i)) = i
         /\ \A k \in 1 .. i : SubSeq(es, 1, i)[k] = es[k]
BY DEF Begun

LEMMA BegunConcat ==
  ASSUME NEW E, NEW s \in Seq(E), NEW t \in Seq(E)
  PROVE  /\ Begun(E, s, s \o t) /\ Len(s \o t) = Len(s) + Len(t)
         /\ \A i \in Len(s) + 1 .. Len(s) + Len(t) : i - Len(s) \in 1 .. Len(t) /\ (s \o t)[i] = t[i - Len(s)]
<1>1. /\ s \o t \in Seq(E) /\ Len(s \o t) = Len(s) + Len(t)
      /\ Len(s) \in Nat /\ Len(t) \in Nat
      /\ \A i \in 1 .. Len(s) : (s \o t)[i] = s[i]
      /\ \A i \in 1 .. Len(t) : (s \o t)[Len(s) + i] = t[i]
  BY ConcatParts
<1>2. \A i \in Len(s) + 1 .. Len(s) + Len(t) : i - Len(s) \in 1 .. Len(t) /\ Len(s) + (i - Len(s)) = i
  BY <1>1
<1>3. \A i \in Len(s) + 1 .. Len(s) + Len(t) : (s \o t)[i] = t[i - Len(s)]
  BY <1>1, <1>2
<1>4. Begun(E, s, s \o t)
  BY <1>1 DEF Begun
<1>. QED  BY <1>1, <1>2, <1>3, <1>4

\* A message after a listening.
LEMMA TurnsWithMessage ==
  ASSUME NEW E, NEW s \in Seq(E), NEW e \in E, Turns(s),
         e.type = "user", s # <<>>, Is(Last(s), "action", LISTEN)
  PROVE  Turns(Append(s, e)) /\ Answered(Append(s, e))
<1>. DEFINE n == Len(s)
           es == Append(s, e)
<1>1. Begun(E, s, es) /\ Len(es) = n + 1 /\ n \in Nat /\ es[n + 1] = e
  BY BegunAppend
<1>2. n \in 1 .. n /\ Last(s) = s[n]
  BY DEF Last
<1>. HIDE DEF es
<1>3. es[n] = s[n]
  BY <1>1, <1>2 DEF Begun
<1>. HIDE DEF n
<1>4. LastAct(es, n, n) /\ es[n].name = LISTEN
  BY <1>1, <1>2, <1>3 DEF LastAct, Acts, NoActs, Is
<1>5. ASSUME NEW i \in 1 .. Len(es) PROVE TurnAt(es, i)
  <2>1. CASE i \in 1 .. n
    BY <2>1, <1>1, TurnsAt, BegunTurnAt DEF n
  <2>2. CASE i = n + 1
    <3>1. ~Acts(es, i) /\ i - 1 = n /\ n \in 1 .. i - 1
      BY <1>1, <1>2, <2>2 DEF Acts
    <3>. QED  BY <1>4, <3>1 DEF TurnAt
  <2>. QED  BY <1>1, <2>1, <2>2
<1>6. Answered(es)
  <2>1. Says(es, n + 1)
    BY <1>1 DEF Says
  <2>2. \A l \in 1 .. n + 1 : Acts(es, l) => n + 1 \in l + 1 .. n + 1
    BY <1>1, <2>1 DEF Says, Acts
  <2>. QED  BY <1>1, <2>1, <2>2 DEF Answered, LastAct
<1>. QED  BY <1>5, <1>6, TurnsAt DEF es

\* An action after what has been answered.
LEMMA TurnsWithAction ==
  ASSUME NEW E, NEW s \in Seq(E), NEW e \in E, Turns(s), Answered(s), e.type = "action",
         NoActs(s, 1, Len(s)) => e.name = LISTEN /\ ~e.hide
  PROVE  /\ Turns(Append(s, e))
         /\ e.name # LISTEN => Answered(Append(s, e))
<1>. DEFINE n == Len(s)
           es == Append(s, e)
<1>1. Begun(E, s, es) /\ Len(es) = n + 1 /\ n \in Nat /\ es[n + 1] = e
  BY BegunAppend
<1>. HIDE DEF es
<1>2. \A k \in 1 .. n : (Acts(es, k) <=> Acts(s, k)) /\ (Says(es, k) <=> Says(s, k)) /\ es[k] = s[k]
  BY <1>1, BegunAlike
<1>3. NoActs(es, 1, n) <=> NoActs(s, 1, n)
  BY <1>2 DEF NoActs
<1>4. \A l \in 1 .. n : LastAct(es, l, n) <=> LastAct(s, l, n)
  <2>1. \A l \in 1 .. n : \A k \in l + 1 .. n : k \in 1 .. n
    BY <1>1
  <2>. QED  BY <1>2, <2>1 DEF LastAct, NoActs
<1>5. ASSUME NEW l \in 1 .. n, LastAct(es, l, n), es[l].name = LISTEN
      PROVE  \E u \in l + 1 .. n : Says(es, u)
  <2>1. PICK u \in l + 1 .. n : Says(s, u)
    BY <1>2, <1>4, <1>5 DEF Answered
  <2>2. u \in 1 .. n
    BY <1>1
  <2>. QED  BY <1>2, <2>1, <2>2
<1>. HIDE DEF n
<1>6. ASSUME NEW i \in 1 .. Len(es) PROVE TurnAt(es, i)
  <2>1. CASE i \in 1 .. n
    BY <2>1, <1>1, TurnsAt, BegunTurnAt DEF n
  <2>2. CASE i = n + 1
    <3>1. ~Says(es, i) /\ i - 1 = n
      BY <1>1, <2>2 DEF Says
    <3>2. NoActs(es, 1, n) => es[i].name = LISTEN /\ ~es[i].hide
      BY <1>1, <1>3, <2>2 DEF n
    <3>. QED  BY <1>5, <3>1, <3>2 DEF TurnAt
  <2>. QED  BY <1>1, <2>1, <2>2
<1>7. e.name # LISTEN => Answered(es)
  <2>1. ASSUME NEW l \in 1 .. n + 1, LastAct(es, l, n + 1) PROVE l = n + 1
    <3>1. Acts(es, n + 1)
      BY <1>1 DEF Acts
    <3>. QED  BY <1>1, <2>1, <3>1 DEF LastAct, NoActs
  <2>. QED  BY <1>1, <2>1 DEF Answered
<1>. QED  BY <1>6, <1>7, TurnsAt DEF es

\* What a reverted message leaves has been answered.
LEMMA TurnsReverted ==
  ASSUME NEW E, NEW es \in Seq(E), Turns(es)
  PROVE  LET s == UndoTillPrevious("action", UndoTillPrevious("user", es))
         IN  s \in Seq(E) /\ Turns(s) /\ Answered(s)
<1>. DEFINE d == UndoTillPrevious("user", es)
           s == UndoTillPrevious("action", d)
           l == LastOf("action", d)
<1>1. d \in Seq(E) /\ s \in Seq(E)
  BY UndoTillPreviousType
<1>2. Turns(d)
  <2>. DEFINE u == LastOf("user", es)
  <2>1. u \in 0 .. Len(es)
    BY LastOfType
  <2>2. CASE u = 0
    <3>1. d = SubSeq(es, 1, -1)
      BY <2>2 DEF UndoTillPrevious
    <3>2. SubSeq(es, 1, -1) = <<>>
      OBVIOUS
    <3>. QED  BY <3>1, <3>2 DEF Turns
  <2>3. CASE u > 0
    <3>1. u - 1 \in 0 .. Len(es)
      BY <2>1, <2>3
    <3>2. d = SubSeq(es, 1, u - 1)
      BY DEF UndoTillPrevious
    <3>. HIDE DEF d, u
    <3>. QED  BY <3>1, <3>2, BegunSubSeq, TurnsBegin
  <2>. QED  BY <2>1, <2>2, <2>3
<1>. HIDE DEF d
<1>3. l \in 0 .. Len(d) /\ (l > 0 => Acts(d, l)) /\ Len(d) \in Nat
  BY <1>1, LastOfType DEF Acts
<1>4. CASE l = 0
  <2>1. s = SubSeq(d, 1, -1)
    BY <1>4 DEF UndoTillPrevious
  <2>2. SubSeq(d, 1, -1) = <<>>
    BY <1>1
  <2>. QED  BY <1>1, <2>1, <2>2 DEF Turns, Answered, d
<1>5. CASE l > 0
  <2>1. l - 1 \in 0 .. Len(d) /\ l \in 1 .. Len(d)
    BY <1>3, <1>5
  <2>2. s = SubSeq(d, 1, l - 1)
    BY DEF UndoTillPrevious
  <2>. HIDE DEF s, l
  <2>3. Begun(E, s, d) /\ Len(s) = l - 1
    BY <1>1, <2>1, <2>2, BegunSubSeq
  <2>4. Turns(s)
    BY <1>2, <2>3, TurnsBegin
  <2>5. Answered(s)
    <3>1. SUFFICES ASSUME NEW k \in 1 .. Len(s), LastAct(s, k, Len(s)), s[k].name = LISTEN
                   PROVE  \E u \in k + 1 .. Len(s) : Says(s, u)
      BY DEF Answered
    <3>2. \A i \in 1 .. l - 1 : (Acts(d, i) <=> Acts(s, i)) /\ (Says(d, i) <=> Says(s, i)) /\ d[i] = s[i]
      BY <2>3, BegunAlike
    <3>3. LastAct(d, k, l - 1) /\ d[k].name = LISTEN /\ k \in 1 .. l - 1
      <4>1. \A i \in k + 1 .. l - 1 : i \in 1 .. l - 1
        BY <2>1, <2>3, <3>1
      <4>. QED  BY <2>3, <3>1, <3>2, <4>1 DEF LastAct, NoActs
    <3>4. PICK u \in k + 1 .. l - 1 : Says(d, u)
      BY <1>2, <1>3, <1>5, <2>1, <3>3 DEF Turns
    <3>5. u \in 1 .. l - 1
      BY <2>1, <3>3
    <3>. QED  BY <2>3, <3>2, <3>4, <3>5
  <2>. QED  BY <1>1, <2>4, <2>5 DEF s, d
<1>. QED  BY <1>3, <1>4, <1>5

-----------------------------------------------------------------------------
(* The events of a conversation, and those of them that count.             *)

SlotValues == {e.value : e \in UNION {ToSet(events) : events \in UNION {Returned[a] : a \in DOMAIN Returned}}}
Talk ==
  {UserUttered(intent, 0) : intent \in Intents}
    \union {Executed(action, hide) : action \in ActionNames, hide \in BOOLEAN}
    \union {ActionExecutionRejected(form) : form \in Forms}
    \union {ActiveLoop(loop) : loop \in Forms \union {NoName}}
    \union {SlotSet(slot, value) : slot \in Slots, value \in SlotValues}
AllTalk == Talk \union {UserUtteranceReverted}

LEMMA TalkParts ==
  \A e \in Talk :
    \/ e.type = "user" /\ e.name \in Intents
    \/ e.type = "action" /\ e.name \in ActionNames /\ e.hide \in BOOLEAN
    \/ e.type = "rejected" /\ e.name \in Forms
    \/ e.type = "active_loop" /\ e.name \in Forms \union {NoName}
    \/ e.type = "slot" /\ e.name \in Slots
<1>. TAKE e \in Talk
<1>1. CASE \E intent \in Intents : e = UserUttered(intent, 0)
  BY <1>1 DEF UserUttered, Event
<1>2. CASE \E action \in ActionNames, hide \in BOOLEAN : e = Executed(action, hide)
  BY <1>2 DEF Executed
<1>3. CASE \E form \in Forms : e = ActionExecutionRejected(form)
  BY <1>3 DEF ActionExecutionRejected, Event
<1>4. CASE \E loop \in Forms \union {NoName} : e = ActiveLoop(loop)
  BY <1>4 DEF ActiveLoop, Event
<1>5. CASE \E slot \in Slots, value \in SlotValues : e = SlotSet(slot, value)
  BY <1>5 DEF SlotSet
<1>. QED  BY <1>1, <1>2, <1>3, <1>4, <1>5 DEF Talk

LEMMA TalkKept == /\ Kept(AllTalk) = Talk /\ Proper(Talk)
                  /\ UserUtteranceReverted.type = "rewind"
<1>1. UserUtteranceReverted.type = "rewind"
  BY DEF UserUtteranceReverted, Event
<1>2. \A e \in Talk : e.type \notin Replaying
  BY TalkParts DEF Replaying
<1>3. Kept(AllTalk) = Talk
  BY <1>1, <1>2 DEF Kept, AllTalk, Replaying
<1>4. Proper(Talk)
  <2>1. NoName \notin ActionNames
    BY PoliciesAssumption
  <2>. QED  BY <2>1, TalkParts DEF Proper
<1>. QED  BY <1>1, <1>3, <1>4

\* The events that count, whatever forms are active.
Spoken(es) == AppliedIn(Forms, es)

LEMMA SpokenAppend ==
  ASSUME NEW es \in Seq(AllTalk), NEW e \in AllTalk
  PROVE  Spoken(es) \in Seq(Talk) /\ Spoken(Append(es, e)) = AfterEvent(Forms, Spoken(es), e)
BY AppliedType, AppliedAppend, TalkKept DEF Spoken

LEMMA AppliedInAgree ==
  ASSUME NEW L
  PROVE  \A es \in Seq(AllTalk) :
           (\A i \in 1 .. Len(es) : Acts(es, i) => (es[i].name \in Forms <=> es[i].name \in L))
             => AppliedIn(L, es) = Spoken(es)
<1>. DEFINE Same(es) == \A i \in 1 .. Len(es) : Acts(es, i) => (es[i].name \in Forms <=> es[i].name \in L)
           P == {es \in Seq(AllTalk) : Same(es) => AppliedIn(L, es) = Spoken(es)}
<1>1. <<>> \in P
  BY AppliedEmpty DEF Spoken
<1>2. ASSUME NEW es \in Seq(AllTalk), NEW e \in AllTalk, es \in P PROVE Append(es, e) \in P
  <2>. DEFINE all == Append(es, e)
  <2>1. /\ all \in Seq(AllTalk) /\ Len(all) = Len(es) + 1 /\ Len(es) \in Nat /\ all[Len(es) + 1] = e
        /\ \A i \in 1 .. Len(es) : all[i] = es[i]
    BY Appended
  <2>2. AppliedIn(L, all) = AfterEvent(L, AppliedIn(L, es), e) /\ Spoken(all) = AfterEvent(Forms, Spoken(es), e)
    BY AppliedAppend, SpokenAppend
  <2>. HIDE DEF all
  <2>3. SUFFICES ASSUME Same(all) PROVE AppliedIn(L, all) = Spoken(all)
    BY <2>1 DEF all
  <2>4. Same(es)
    BY <2>1, <2>3 DEF Acts
  <2>5. AppliedIn(L, es) = Spoken(es)
    BY <1>2, <2>4
  <2>6. e.type = "action" => (e.name \in Forms <=> e.name \in L)
    BY <2>1, <2>3 DEF Acts
  <2>7. AfterEvent(L, Spoken(es), e) = AfterEvent(Forms, Spoken(es), e)
    BY <2>6 DEF AfterEvent
  <2>. QED  BY <2>2, <2>5, <2>7
<1>3. \A es \in Seq(AllTalk) : es \in P
  <2>. HIDE DEF P
  <2>. QED  BY <1>1, <1>2, InductionOverSequences
<1>. QED  BY <1>3

LEMMA LoopNamesForms == \A es \in Seq(AllTalk) : LoopNames(es) \subseteq Forms
<1>. TAKE es \in Seq(AllTalk)
<1>1. \A e \in ToSet(es) : e \in AllTalk
  BY DEF ToSet
<1>2. \A e \in AllTalk : e.type = "active_loop" => e.name \in Forms \union {NoName}
  BY TalkParts, TalkKept DEF AllTalk
<1>. QED  BY <1>1, <1>2 DEF LoopNames

\* A form that was executed has been active.
FormsWereActive(es) ==
  \A i \in 1 .. Len(es) : Acts(es, i) /\ es[i].name \in Forms => es[i].name \in LoopNames(es)

LEMMA AppliedEventsSpoken ==
  ASSUME NEW es \in Seq(AllTalk), FormsWereActive(es)
  PROVE  AppliedEvents(es) = Spoken(es)
<1>1. \A i \in 1 .. Len(es) : Acts(es, i) => (es[i].name \in Forms <=> es[i].name \in LoopNames(es))
  BY LoopNamesForms DEF FormsWereActive
<1>. QED  BY <1>1, AppliedInAgree DEF AppliedEvents

LEMMA LoopNamesAppend ==
  ASSUME NEW E, NEW es \in Seq(E), NEW e \in E
  PROVE  LoopNames(Append(es, e))
           = LoopNames(es) \union (IF e.type = "active_loop" /\ e.name # NoName THEN {e.name} ELSE {})
<1>1. ToSet(Append(es, e)) = ToSet(es) \union {e}
  <2>. DEFINE all == Append(es, e)
  <2>1. /\ all \in Seq(E) /\ Len(all) = Len(es) + 1 /\ Len(es) \in Nat /\ all[Len(es) + 1] = e
        /\ \A i \in 1 .. Len(es) : all[i] = es[i]
    BY Appended
  <2>. HIDE DEF all
  <2>2. DOMAIN all = DOMAIN es \union {Len(es) + 1} /\ DOMAIN es = 1 .. Len(es)
    BY <2>1
  <2>3. ToSet(all) = ToSet(es) \union {e}
    BY <2>1, <2>2 DEF ToSet
  <2>. QED  BY <2>3 DEF all
<1>. QED  BY <1>1 DEF LoopNames

\* The loop of the replayed state has been activated.
LEMMA ReplayedLoop ==
  ASSUME NEW E, Proper(E)
  PROVE  \A es \in Seq(E) : Replayed(es).loop \in {NoName} \union {e.name : e \in {f \in E : f.type = "active_loop"}}
<1>. DEFINE N == {NoName} \union {e.name : e \in {f \in E : f.type = "active_loop"}}
           P == {es \in Seq(E) : Replayed(es).loop \in N}
<1>1. <<>> \in P
  BY ReplayedEmpty, FreshState
<1>2. ASSUME NEW es \in Seq(E), NEW e \in E, es \in P PROVE Append(es, e) \in P
  <2>1. NextState(Replayed(es), e, Replayed(Append(es, e)))
    BY ReplayedAppend, ApplyToParts
  <2>2. Replayed(Append(es, e)).loop = IF e.type = "active_loop" THEN e.name ELSE Replayed(es).loop
    BY <2>1 DEF NextState
  <2>. QED  BY <1>2, <2>2
<1>3. \A es \in Seq(E) : es \in P
  <2>. HIDE DEF P
  <2>. QED  BY <1>1, <1>2, InductionOverSequences
<1>. QED  BY <1>3

\* Without messages and actions nothing but to listen is asked for; after an
\* action nothing is.
LEMMA ReplayedFollowup ==
  ASSUME NEW E, Proper(E)
  PROVE  \A es \in Seq(E) :
           /\ (\A i \in 1 .. Len(es) : ~Acts(es, i) /\ ~Says(es, i)) => Replayed(es).followup = LISTEN
           /\ Replayed(es).latest_action # NoName => Replayed(es).followup = NoName
<1>. DEFINE Silent(es) == \A i \in 1 .. Len(es) : ~Acts(es, i) /\ ~Says(es, i)
           P == {es \in Seq(E) : /\ Silent(es) => Replayed(es).followup = LISTEN
                                 /\ Replayed(es).latest_action # NoName => Replayed(es).followup = NoName}
<1>1. <<>> \in P
  BY ReplayedEmpty, FreshState
<1>2. ASSUME NEW es \in Seq(E), NEW e \in E, es \in P PROVE Append(es, e) \in P
  <2>1. NextState(Replayed(es), e, Replayed(Append(es, e)))
    BY ReplayedAppend, ApplyToParts
  <2>. DEFINE all == Append(es, e)
  <2>2. /\ all \in Seq(E) /\ Len(all) = Len(es) + 1 /\ Len(es) \in Nat /\ all[Len(es) + 1] = e
        /\ \A i \in 1 .. Len(es) : all[i] = es[i]
    BY Appended
  <2>. HIDE DEF all
  <2>3. Silent(all) => Silent(es) /\ e.type # "action" /\ e.type # "user"
    BY <2>2 DEF Acts, Says
  <2>. QED  BY <1>2, <2>1, <2>2, <2>3 DEF NextState, all
<1>3. \A es \in Seq(E) : es \in P
  <2>. HIDE DEF P
  <2>. QED  BY <1>1, <1>2, InductionOverSequences
<1>. QED  BY <1>3

\* Messages and actions change neither slots nor loops.
LEMMA ReplayedWithout ==
  ASSUME NEW E, Proper(E), NEW s \in Seq(E)
  PROVE  \A t \in Seq(E) :
           LET r == Without({"user", "action"}, t)
           IN  /\ Replayed(s \o r).loop = Replayed(s \o t).loop
               /\ Replayed(s \o r).slots = Replayed(s \o t).slots
               /\ Replayed(s \o r).latest_action = Replayed(s).latest_action
<1>. DEFINE r(t) == Without({"user", "action"}, t)
           Same(t) == /\ Replayed(s \o r(t)).loop = Replayed(s \o t).loop
                      /\ Replayed(s \o r(t)).slots = Replayed(s \o t).slots
                      /\ Replayed(s \o r(t)).latest_action = Replayed(s).latest_action
           P == {t \in Seq(E) : Same(t)}
<1>1. <<>> \in P
  <2>1. r(<<>>) = <<>> /\ s \o <<>> = s /\ <<>> \in Seq(E)
    BY WithoutEmpty
  <2>. HIDE DEF r
  <2>2. Same(<<>>)
    BY <2>1
  <2>. QED  BY <2>1, <2>2
<1>2. ASSUME NEW t \in Seq(E), NEW e \in E, t \in P PROVE Append(t, e) \in P
  <2>1. /\ r(t) \in Seq(E)
        /\ r(Append(t, e)) = IF e.type \in {"user", "action"} THEN r(t) ELSE Append(r(t), e)
    BY WithoutAppend
  <2>. HIDE DEF r
  <2>2. s \o Append(t, e) = Append(s \o t, e) /\ s \o t \in Seq(E) /\ s \o r(t) \in Seq(E)
        /\ s \o Append(r(t), e) = Append(s \o r(t), e)
    <3>1. s \o Append(t, e) = Append(s \o t, e) /\ s \o t \in Seq(E)
      BY ConcatAppend, ConcatProperties
    <3>2. s \o r(t) \in Seq(E) /\ s \o Append(r(t), e) = Append(s \o r(t), e)
      BY <2>1, ConcatAppend, ConcatProperties
    <3>. QED  BY <3>1, <3>2
  <2>3. NextState(Replayed(s \o t), e, Replayed(s \o Append(t, e)))
    BY <2>2, ReplayedNext
  <2>4. NextState(Replayed(s \o r(t)), e, Replayed(s \o Append(r(t), e)))
    BY <2>1, <2>2, ReplayedNext
  <2>5. Same(t) /\ Append(t, e) \in Seq(E)
    BY <1>2
  <2>6. CASE e.type \in {"user", "action"}
    <3>1. r(Append(t, e)) = r(t)
      BY <2>1, <2>6
    <3>. QED  BY <2>3, <2>5, <2>6, <3>1 DEF NextState
  <2>7. CASE e.type \notin {"user", "action"}
    <3>1. r(Append(t, e)) = Append(r(t), e)
      BY <2>1, <2>7
    <3>. QED  BY <2>3, <2>4, <2>5, <2>7, <3>1 DEF NextState
  <2>. QED  BY <2>6, <2>7
<1>3. \A t \in Seq(E) : t \in P
  <2>. HIDE DEF P
  <2>. QED  BY <1>1, <1>2, InductionOverSequences
<1>. QED  BY <1>3

LEMMA SubSeqsJoin ==
  ASSUME NEW E, NEW es \in Seq(E), NEW i \in 0 .. Len(es)
  PROVE  /\ SubSeq(es, 1, i) \o SubSeq(es, i + 1, Len(es)) = es
         /\ SubSeq(es, i + 1, Len(es)) \in Seq(E)
<1>. DEFINE s == SubSeq(es, 1, i)
           t == SubSeq(es, i + 1, Len(es))
           a == s \o t
<1>1. /\ s \in Seq(E) /\ t \in Seq(E) /\ Len(s) = i /\ Len(t) = Len(es) - i
      /\ \A k \in 1 .. i : s[k] = es[k]
      /\ \A k \in 1 .. Len(es) - i : t[k] = es[i + k]
  OBVIOUS
<1>. HIDE DEF s, t
<1>2. /\ a \in Seq(E) /\ Len(a) = Len(s) + Len(t)
      /\ \A k \in 1 .. Len(s) : a[k] = s[k]
      /\ \A k \in 1 .. Len(t) : a[Len(s) + k] = t[k]
  BY <1>1, ConcatParts
<1>. HIDE DEF a
<1>3. Len(a) = Len(es)
  BY <1>1, <1>2
<1>4. ASSUME NEW k \in 1 .. Len(a) PROVE a[k] = es[k]
  <2>1. CASE k =< i
    <3>1. k \in 1 .. i /\ k \in 1 .. Len(s)
      BY <1>1, <1>3, <2>1
    <3>. QED  BY <1>1, <1>2, <3>1
  <2>2. CASE k > i
    <3>1. k - i \in 1 .. Len(t) /\ k - i \in 1 .. Len(es) - i /\ i + (k - i) = k /\ Len(s) = i
      BY <1>1, <1>3, <2>2
    <3>2. a[Len(s) + (k - i)] = t[k - i]
      BY <1>2, <3>1
    <3>3. t[k - i] = es[i + (k - i)]
      BY <1>1, <3>1
    <3>. QED  BY <3>1, <3>2, <3>3
  <2>. QED  BY <2>1, <2>2
<1>5. a = es
  BY <1>2, <1>3, <1>4, SeqEqual
<1>. QED  BY <1>1, <1>5 DEF a, s, t

LEMMA WithoutTypes ==
  ASSUME NEW E, NEW es \in Seq(E), NEW types, NEW i \in 1 .. Len(Without(types, es))
  PROVE  Without(types, es)[i].type \notin types
BY WithoutMembers

\* What is left of the turns when the form goes on: the last that was heard is the form.
LEMMA FormGoesOn ==
  ASSUME NEW E, Proper(E), NEW done \in Seq(E), Turns(done), NEW form, form # LISTEN,
         ~FirstLoopExecutionOrUnhappyPath(form, done)
  PROVE  LET u == UndoTillPreviousLoopExecution(form, done)
         IN  /\ u \in Seq(E) /\ Turns(u) /\ Answered(u) /\ ~NoActs(u, 1, Len(u)) /\ ~Pending(u, Len(u))
             /\ Replayed(u).loop = Replayed(done).loop /\ Replayed(u).slots = Replayed(done).slots
             /\ Replayed(u).latest_action = form
<1>. DEFINE u == UndoTillPreviousLoopExecution(form, done)
           i == LastExecution(form, done)
           s == SubSeq(done, 1, i)
           t == SubSeq(done, i + 1, Len(done))
           r == Without({"user", "action"}, t)
           n == Len(u)
<1>1. i \in 1 .. Len(done) /\ Is(done[i], "action", form)
  <2>. DEFINE I == {k \in 1 .. Len(done) : Is(done[k], "action", form)}
             stops == {k \in 1 .. Len(done) : Decides(form, done, k)}
             last == IF I # {} THEN Max(I) ELSE 0
  <2>1. LastDecision(form, done) # 0 /\ Is(done[LastDecision(form, done)], "action", form)
    BY DEF FirstLoopExecutionOrUnhappyPath
  <2>2. stops # {} /\ LastDecision(form, done) = Max(stops)
    BY <2>1 DEF LastDecision
  <2>3. stops \in SUBSET Nat /\ Len(done) \in Nat /\ \A k \in stops : k =< Len(done)
    OBVIOUS
  <2>4. Max(stops) \in stops
    <3>. HIDE DEF stops
    <3>. QED  BY <2>2, <2>3, MaxGreatest
  <2>5. LastDecision(form, done) \in I
    BY <2>1, <2>2, <2>4
  <2>6. i = last
    BY DEF LastExecution, SelectLastInSeq
  <2>7. I \in SUBSET (1 .. Len(done)) /\ I # {}
    BY <2>5
  <2>8. last \in I
    <3>1. last \in 0 .. Len(done) /\ (last > 0 => last \in I) /\ \A k \in I : k =< last
      <4>. HIDE DEF I
      <4>. QED  BY <2>3, <2>7, LastIndex
    <3>2. PICK k \in I : k > 0 /\ k \in Nat
      BY <2>7
    <3>. HIDE DEF I, last
    <3>. QED  BY <3>1, <3>2
  <2>. QED  BY <2>6, <2>8
<1>. HIDE DEF i
<1>2. /\ Begun(E, s, done) /\ Len(s) = i /\ \A k \in 1 .. i : s[k] = done[k]
      /\ s \o t = done /\ s \in Seq(E) /\ t \in Seq(E)
  <2>1. i \in 0 .. Len(done)
    BY <1>1
  <2>. QED  BY <2>1, BegunSubSeq, SubSeqsJoin DEF Begun
<1>3. r \in Seq(E) /\ \A k \in 1 .. Len(r) : r[k].type \notin {"user", "action"}
  <2>. HIDE DEF t
  <2>1. ASSUME NEW k \in 1 .. Len(r) PROVE r[k].type \notin {"user", "action"}
    BY <1>2, WithoutTypes, Zenon
  <2>2. r \in Seq(E)
    BY <1>2, WithoutType
  <2>. HIDE DEF r
  <2>. QED  BY <2>1, <2>2
<1>4. u = s \o r
  BY DEF UndoTillPreviousLoopExecution, i
<1>5. /\ Replayed(s \o r).loop = Replayed(s \o t).loop
      /\ Replayed(s \o r).slots = Replayed(s \o t).slots
      /\ Replayed(s \o r).latest_action = Replayed(s).latest_action
  <2>. HIDE DEF s, t
  <2>. QED  BY <1>2, ReplayedWithout
<1>6. Replayed(s).latest_action = form
  <2>1. s = Append(SubSeq(done, 1, i - 1), done[i]) /\ SubSeq(done, 1, i - 1) \in Seq(E) /\ done[i] \in E
    BY <1>1, PrefixByPrefix
  <2>2. NextState(Replayed(SubSeq(done, 1, i - 1)), done[i], Replayed(s))
    BY <2>1, ReplayedNext
  <2>. HIDE DEF s
  <2>. QED  BY <1>1, <2>2 DEF NextState, Is
<1>. HIDE DEF r, s, t, u
<1>7. /\ Begun(E, s, u) /\ n = i + Len(r) /\ i \in Nat /\ Len(r) \in Nat /\ u \in Seq(E)
      /\ \A k \in i + 1 .. n : ~Acts(u, k) /\ ~Says(u, k)
  <2>1. Begun(E, s, u) /\ n = Len(s) + Len(r)
        /\ \A k \in Len(s) + 1 .. Len(s) + Len(r) : k - Len(s) \in 1 .. Len(r) /\ u[k] = r[k - Len(s)]
    BY <1>2, <1>3, <1>4, BegunConcat
  <2>2. Len(r) \in Nat /\ i \in Nat /\ u \in Seq(E)
    BY <1>1, <1>3, <2>1 DEF Begun
  <2>. HIDE DEF n
  <2>. QED  BY <1>2, <1>3, <2>1, <2>2 DEF Acts, Says
<1>8. Turns(u)
  <2>1. Turns(s)
    BY <1>2, TurnsBegin
  <2>2. \A k \in Len(s) + 1 .. Len(u) : ~Acts(u, k) /\ ~Says(u, k)
    BY <1>2, <1>7
  <2>. QED  BY <1>7, <2>1, <2>2, TurnsGoOn
<1>9. Is(u[i], "action", form) /\ i \in 1 .. n
  BY <1>1, <1>2, <1>7 DEF Begun
<1>. HIDE DEF n
<1>10. \A l \in 1 .. n : LastAct(u, l, n) => l = i
  BY <1>7, <1>9 DEF LastAct, NoActs, Acts, Is
<1>11. Answered(u)
  BY <1>9, <1>10 DEF Answered, Is, n
<1>12. ~NoActs(u, 1, n)
  BY <1>9 DEF NoActs, Acts, Is
<1>13. ~Pending(u, n)
  <2>. SUFFICES ASSUME NEW k \in 1 .. n, Says(u, k), NoActs(u, k + 1, n) PROVE FALSE
    BY DEF Pending
  <2>1. k =< i /\ k # i
    BY <1>7, <1>9 DEF Says, Is
  <2>2. i \in k + 1 .. n
    BY <1>9, <2>1
  <2>. QED  BY <1>9, <2>2 DEF NoActs, Acts, Is
<1>. QED  BY <1>2, <1>4, <1>5, <1>6, <1>7, <1>8, <1>11, <1>12, <1>13 DEF u, n

-----------------------------------------------------------------------------
(* The dialogue: its state agrees with the events of it that count.         *)

Dialogues == [events : Seq(AllTalk), state : States(Talk)]
UpdateDialogueStep == [p \in Dialogues \X AllTalk |-> UpdateDialogue(p[1], p[2])]

LEMMA UpdateDialogueParts ==
  ASSUME NEW t \in Dialogues, NEW e \in AllTalk
  PROVE  /\ UpdateDialogue(t, e) \in Dialogues
         /\ UpdateDialogue(t, e).events = Append(t.events, e)
         /\ UpdateDialogue(t, e).state = IF e.type = "rewind" THEN Replayed(AppliedEvents(Append(t.events, e)))
                                         ELSE ApplyTo(t.state, e)
<1>1. t.events \in Seq(AllTalk) /\ t.state \in States(Talk)
  BY DEF Dialogues
<1>. DEFINE all == Append(t.events, e)
<1>2. all \in Seq(AllTalk)
  BY <1>1, Appended
<1>3. AppliedEvents(all) \in Seq(Talk)
  <2>. HIDE DEF all
  <2>. QED  BY <1>2, AppliedType, TalkKept DEF AppliedEvents
<1>. HIDE DEF all
<1>4. Replayed(AppliedEvents(all)) \in States(Talk)
  BY <1>3, TalkKept, ReplayedType
<1>5. e.type # "rewind" => ApplyTo(t.state, e) \in States(Talk)
  <2>1. e.type # "rewind" => e \in Talk
    BY TalkKept DEF AllTalk
  <2>. QED  BY <1>1, <2>1, TalkKept, ApplyToParts
<1>6. UpdateDialogue(t, e) = [events |-> all, state |-> IF e.type = "rewind" THEN Replayed(AppliedEvents(all))
                                                      ELSE ApplyTo(t.state, e)]
  BY DEF UpdateDialogue, Replayed, all
<1>. QED  BY <1>2, <1>4, <1>5, <1>6 DEF Dialogues, all

LEMMA DialogueStepGoes ==
  ASSUME NEW t \in Dialogues, NEW es \in Seq(AllTalk)
  PROVE  Goes(Dialogues, AllTalk, UpdateDialogueStep, t, es)
BY UpdateDialogueParts DEF Goes, UpdateDialogueStep

LEMMA DialogueFolded ==
  ASSUME NEW t \in Dialogues, NEW es \in Seq(AllTalk)
  PROVE  UpdateDialogueWith(t, es) = Folded(Dialogues, UpdateDialogueStep, t, es)
<1>. DEFINE Step(a, e) == UpdateDialogue(a, e)
           Fold(h) == h = [i \in 0 .. Len(es) |-> IF i = 0 THEN t ELSE Step(h[i - 1], es[i])]
           step == UpdateDialogueStep
           S == Dialogues
<1>1. Goes(S, AllTalk, step, t, es)
  BY DialogueStepGoes
<1>2. PICK g : IsFold(g, S, step, t, es) /\ Folded(S, step, t, es) = g[Len(es)]
  <2>. HIDE DEF step, S
  <2>. QED  BY <1>1, FoldedIsFold
<1>3. ASSUME NEW a \in S, NEW e \in AllTalk PROVE step[<<a, e>>] = Step(a, e)
  BY Zenon DEF UpdateDialogueStep
<1>. HIDE DEF step, Step, S
<1>4. ASSUME NEW i \in 1 .. Len(es) PROVE g[i] = Step(g[i - 1], es[i])
  <2>1. i - 1 \in 0 .. Len(es) /\ es[i] \in AllTalk
    OBVIOUS
  <2>2. g[i - 1] \in S
    BY <1>2, <2>1 DEF IsFold
  <2>3. g[i] = step[<<g[i - 1], es[i]>>]
    BY <1>2 DEF IsFold
  <2>. QED  BY <2>1, <2>2, <2>3, <1>3
<1>5. Fold(g)
  BY <1>2, <1>4 DEF IsFold
<1>6. ASSUME NEW h, Fold(h) PROVE h = g
  <2>1. h[0] = g[0] /\ \A i \in 1 .. Len(es) : h[i - 1] = g[i - 1] => h[i] = g[i]
    BY <1>5, <1>6
  <2>2. Len(es) \in Nat
    OBVIOUS
  <2>3. \A i \in 0 .. Len(es) : h[i] = g[i]
    BY <2>1, <2>2, FoldsAgree, Zenon
  <2>. QED  BY <2>3, <1>5, <1>6
<1>7. UpdateDialogueWith(t, es) = (CHOOSE h : Fold(h))[Len(es)]
  BY DEF UpdateDialogueWith, Through, Step
<1>8. (CHOOSE h : Fold(h)) = g
  <2>. HIDE DEF Fold
  <2>. QED  BY <1>5, <1>6
<1>. QED  BY <1>2, <1>7, <1>8 DEF step, S

LEMMA DialogueWithOne ==
  ASSUME NEW t \in Dialogues, NEW e \in AllTalk
  PROVE  UpdateDialogueWith(t, <<e>>) = UpdateDialogue(t, e)
<1>. DEFINE S == Dialogues
           step == UpdateDialogueStep
           none == <<>>
<1>1. none \in Seq(AllTalk) /\ <<e>> \in Seq(AllTalk) /\ Append(none, e) = <<e>>
  OBVIOUS
<1>2. Goes(S, AllTalk, step, t, none)
  BY <1>1, DialogueStepGoes
<1>3. Folded(S, step, t, none) = t
  BY <1>2, FoldedEmpty
<1>. HIDE DEF S, step, none
<1>4. Folded(S, step, t, Append(none, e)) = step[<<Folded(S, step, t, none), e>>]
  BY <1>2, FoldedAppend
<1>5. UpdateDialogueWith(t, <<e>>) = step[<<t, e>>]
  BY <1>1, <1>3, <1>4, DialogueFolded DEF S, step
<1>. QED  BY <1>5 DEF UpdateDialogueStep, step

LEMMA DialogueWithAppend ==
  ASSUME NEW t \in Dialogues, NEW es \in Seq(AllTalk), NEW e \in AllTalk
  PROVE  /\ UpdateDialogueWith(t, es) \in Dialogues
         /\ UpdateDialogueWith(t, Append(es, e)) = UpdateDialogue(UpdateDialogueWith(t, es), e)
<1>1. Goes(Dialogues, AllTalk, UpdateDialogueStep, t, es) /\ Append(es, e) \in Seq(AllTalk)
  BY DialogueStepGoes
<1>2. UpdateDialogueWith(t, es) \in Dialogues
  BY <1>1, DialogueFolded, FoldedType
<1>3. /\ UpdateDialogueWith(t, es) = Folded(Dialogues, UpdateDialogueStep, t, es)
      /\ UpdateDialogueWith(t, Append(es, e)) = Folded(Dialogues, UpdateDialogueStep, t, Append(es, e))
  BY <1>1, DialogueFolded
<1>4. UpdateDialogueWith(t, Append(es, e)) = UpdateDialogueStep[<<UpdateDialogueWith(t, es), e>>]
  BY <1>1, <1>3, FoldedAppend
<1>. QED  BY <1>2, <1>4 DEF UpdateDialogueStep

Agrees(st, es) ==
  /\ st.loop = Replayed(es).loop /\ st.slots = Replayed(es).slots
  /\ st.latest_action = Replayed(es).latest_action
  /\ Pending(es, Len(es)) => st.latest_message = Replayed(es).latest_message
  /\ NoActs(es, 1, Len(es)) => st.followup = LISTEN
  /\ st.latest_action # NoName => st.followup = NoName

Faithful(t) ==
  /\ t \in Dialogues
  /\ Turns(Spoken(t.events)) /\ Agrees(t.state, Spoken(t.events))

\* An event that is neither message nor action.
LEMMA AgreesAfterOther ==
  ASSUME NEW st \in States(Talk), NEW es \in Seq(Talk), Turns(es), Agrees(st, es),
         NEW e \in Talk, e.type \notin {"user", "action"}
  PROVE  /\ Turns(Append(es, e)) /\ Agrees(ApplyTo(st, e), Append(es, e))
         /\ Answered(es) => Answered(Append(es, e))
         /\ NoActs(es, 1, Len(es)) => NoActs(Append(es, e), 1, Len(es) + 1)
<1>. DEFINE n == Len(es)
           all == Append(es, e)
           next == ApplyTo(st, e)
<1>1. Begun(Talk, es, all) /\ Len(all) = n + 1 /\ n \in Nat /\ all[n + 1] = e
  BY BegunAppend
<1>2. NextState(Replayed(es), e, Replayed(all))
  BY TalkKept, ReplayedNext
<1>3. NextState(st, e, next)
  BY TalkKept, ApplyToParts
<1>. HIDE DEF all, next
<1>4. ~Acts(all, n + 1) /\ ~Says(all, n + 1)
  BY <1>1 DEF Acts, Says
<1>5. Turns(all) /\ (Answered(es) => Answered(all))
  <2>1. \A i \in n + 1 .. n + 1 : i = n + 1
    BY <1>1
  <2>. QED  BY <1>1, <1>4, <2>1, TurnsGoOn, AnsweredGoesOn DEF n
<1>6. \A k \in 1 .. n : (Acts(all, k) <=> Acts(es, k)) /\ (Says(all, k) <=> Says(es, k))
  BY <1>1, BegunAlike
<1>7. NoActs(all, 1, n + 1) <=> NoActs(es, 1, n)
  BY <1>1, <1>4, <1>6 DEF NoActs
<1>8. Pending(all, n + 1) => Pending(es, n)
  <2>1. all \in Seq(Talk) /\ n + 1 \in 1 .. Len(all) /\ n + 1 - 1 = n
    BY <1>1 DEF Begun
  <2>2. Pending(all, n + 1) => Pending(all, n)
    BY <1>4, <2>1, AtNoAction
  <2>3. \A u \in 1 .. n : \A k \in u + 1 .. n : k \in 1 .. n
    BY <1>1
  <2>4. Pending(all, n) => Pending(es, n)
    BY <1>6, <2>3 DEF Pending, NoActs
  <2>. QED  BY <2>2, <2>4
<1>9. Agrees(next, all)
  BY <1>1, <1>2, <1>3, <1>7, <1>8 DEF Agrees, NextState, n
<1>. QED  BY <1>5, <1>7, <1>9 DEF all, next, n

\* A message after a listening.
LEMMA AgreesAfterMessage ==
  ASSUME NEW st \in States(Talk), NEW es \in Seq(Talk), Turns(es), Agrees(st, es),
         NEW e \in Talk, e.type = "user", es # <<>>, Is(Last(es), "action", LISTEN)
  PROVE  Turns(Append(es, e)) /\ Agrees(ApplyTo(st, e), Append(es, e)) /\ Answered(Append(es, e))
<1>. DEFINE n == Len(es)
           all == Append(es, e)
           next == ApplyTo(st, e)
<1>1. Begun(Talk, es, all) /\ Len(all) = n + 1 /\ n \in Nat /\ all[n + 1] = e
  BY BegunAppend
<1>2. NextState(Replayed(es), e, Replayed(all))
  BY TalkKept, ReplayedNext
<1>3. NextState(st, e, next)
  BY TalkKept, ApplyToParts
<1>4. Turns(all) /\ Answered(all)
  BY TurnsWithMessage
<1>5. n \in 1 .. n /\ Acts(es, n)
  BY DEF Last, Is, Acts
<1>. HIDE DEF all, next
<1>6. ~NoActs(all, 1, n + 1)
  <2>1. Acts(all, n)
    BY <1>1, <1>5, BegunAlike
  <2>2. n \in 1 .. n + 1
    BY <1>1, <1>5
  <2>. QED  BY <2>1, <2>2 DEF NoActs
<1>7. Agrees(next, all)
  BY <1>1, <1>2, <1>3, <1>6 DEF Agrees, NextState
<1>. QED  BY <1>4, <1>7 DEF all, next

\* An action after what has been answered, the first being to listen.
LEMMA AgreesAfterAction ==
  ASSUME NEW st \in States(Talk), NEW es \in Seq(Talk), Turns(es), Answered(es), Agrees(st, es),
         NEW e \in Talk, e.type = "action", NoActs(es, 1, Len(es)) => e.name = LISTEN /\ ~e.hide
  PROVE  LET left == AfterEvent(Forms, es, e)
         IN  /\ left \in Seq(Talk) /\ Turns(left) /\ Agrees(ApplyTo(st, e), left)
             /\ e.name # LISTEN => Answered(left)
             /\ e.name = LISTEN => left = Append(es, e)
<1>. DEFINE n == Len(es)
           all == Append(es, e)
           next == ApplyTo(st, e)
           left == AfterEvent(Forms, es, e)
           again == e.name \in Forms /\ ~FirstLoopExecutionOrUnhappyPath(e.name, es)
<1>1. NextState(st, e, next)
  BY TalkKept, ApplyToParts
<1>2. left = IF again THEN UndoTillPreviousLoopExecution(e.name, es) ELSE all
  BY DEF AfterEvent
<1>3. e.name # NoName /\ e.hide \in BOOLEAN
  BY TalkKept DEF Proper
<1>. HIDE DEF left, next
<1>4. CASE ~again
  <2>1. Begun(Talk, es, all) /\ Len(all) = n + 1 /\ n \in Nat /\ all[n + 1] = e /\ all \in Seq(Talk)
    BY BegunAppend DEF Begun
  <2>2. NextState(Replayed(es), e, Replayed(all))
    BY TalkKept, ReplayedNext
  <2>3. Turns(all) /\ (e.name # LISTEN => Answered(all))
    BY TurnsWithAction
  <2>. HIDE DEF all
  <2>4. ~Pending(all, n + 1) /\ ~NoActs(all, 1, n + 1)
    <3>1. n + 1 \in 1 .. Len(all) /\ Acts(all, n + 1) /\ all[n + 1].hide \in BOOLEAN
      BY <1>3, <2>1 DEF Acts
    <3>. QED  BY <2>1, <3>1, AtAction
  <2>5. Agrees(next, all)
    BY <1>1, <2>1, <2>2, <2>4 DEF Agrees, NextState
  <2>. QED  BY <1>2, <1>4, <2>1, <2>3, <2>5 DEF left, next, all
<1>5. CASE again
  <2>1. e.name # LISTEN
    BY <1>5, PoliciesAssumption
  <2>2. /\ left \in Seq(Talk) /\ Turns(left) /\ Answered(left)
        /\ ~NoActs(left, 1, Len(left)) /\ ~Pending(left, Len(left))
        /\ Replayed(left).loop = Replayed(es).loop /\ Replayed(left).slots = Replayed(es).slots
        /\ Replayed(left).latest_action = e.name
    BY <1>2, <1>5, <2>1, TalkKept, FormGoesOn
  <2>3. Agrees(next, left)
    BY <1>1, <2>2 DEF Agrees, NextState
  <2>. QED  BY <2>1, <2>2, <2>3 DEF left, next
<1>. QED  BY <1>4, <1>5

\* In the midst of a turn: the message has been heard.
InTurn(t) ==
  /\ Faithful(t) /\ Answered(Spoken(t.events))
  /\ t.events # <<>> /\ ~Is(Last(t.events), "action", LISTEN)

LEMMA LastAppended ==
  ASSUME NEW E, NEW es \in Seq(E), NEW e \in E
  PROVE  Append(es, e) # <<>> /\ Last(Append(es, e)) = e
BY Appended DEF Last

\* The forms stay those that have been active.
LEMMA FormsWereActiveAppend ==
  ASSUME NEW es \in Seq(AllTalk), NEW e \in AllTalk, FormsWereActive(es),
         e.type = "action" /\ e.name \in Forms => e.name \in LoopNames(es)
  PROVE  FormsWereActive(Append(es, e))
<1>. DEFINE all == Append(es, e)
<1>1. /\ Len(all) = Len(es) + 1 /\ Len(es) \in Nat /\ all[Len(es) + 1] = e
      /\ \A i \in 1 .. Len(es) : all[i] = es[i]
  BY Appended
<1>2. LoopNames(es) \subseteq LoopNames(all)
  BY LoopNamesAppend
<1>. HIDE DEF all
<1>. QED  BY <1>1, <1>2 DEF FormsWereActive, Acts, all

\* A form is executed, and becomes active.
LEMMA FormBecomesActive ==
  ASSUME NEW es \in Seq(AllTalk), NEW e \in AllTalk, NEW f \in AllTalk, FormsWereActive(es),
         e.type = "action", e.name \in Forms, f.type = "active_loop", f.name = e.name
  PROVE  FormsWereActive(Append(Append(es, e), f))
<1>. DEFINE one == Append(es, e)
           two == Append(one, f)
<1>1. /\ one \in Seq(AllTalk) /\ Len(one) = Len(es) + 1 /\ Len(es) \in Nat /\ one[Len(es) + 1] = e
      /\ \A i \in 1 .. Len(es) : one[i] = es[i]
  BY Appended
<1>2. LoopNames(one) = LoopNames(es)
  <2>1. LoopNames(one)
          = LoopNames(es) \union (IF e.type = "active_loop" /\ e.name # NoName THEN {e.name} ELSE {})
    BY LoopNamesAppend
  <2>. HIDE DEF one
  <2>. QED  BY <2>1
<1>. HIDE DEF one
<1>3. /\ Len(two) = Len(one) + 1 /\ two[Len(one) + 1] = f
      /\ \A i \in 1 .. Len(one) : two[i] = one[i]
  BY <1>1, Appended
<1>4. LoopNames(two) = LoopNames(one) \union {e.name}
  <2>1. e.name # NoName
    BY PoliciesAssumption DEF ActionNames
  <2>. QED  BY <1>1, <2>1, LoopNamesAppend
<1>. HIDE DEF two
<1>5. ASSUME NEW i \in 1 .. Len(two), Acts(two, i), two[i].name \in Forms PROVE two[i].name \in LoopNames(two)
  <2>1. CASE i \in 1 .. Len(es)
    <3>1. two[i] = es[i]
      BY <1>1, <1>3, <2>1
    <3>. QED  BY <1>2, <1>4, <1>5, <2>1, <3>1 DEF FormsWereActive, Acts
  <2>2. CASE i = Len(es) + 1
    <3>1. two[i] = e
      BY <1>1, <1>3, <2>2
    <3>. QED  BY <1>4, <3>1
  <2>3. CASE i = Len(es) + 2
    <3>1. two[i] = f
      BY <1>1, <1>3, <2>3
    <3>. QED  BY <1>5, <3>1 DEF Acts
  <2>. QED  BY <1>1, <1>3, <2>1, <2>2, <2>3
<1>. QED  BY <1>5 DEF FormsWereActive, two, one

\* What is neither message, action nor revert.
LEMMA InTurnAfterOther ==
  ASSUME NEW t, InTurn(t), NEW e \in Talk, e.type \notin {"user", "action"}
  PROVE  InTurn(UpdateDialogue(t, e))
<1>. DEFINE es == Spoken(t.events)
           u == UpdateDialogue(t, e)
<1>1. /\ t \in Dialogues /\ Turns(es) /\ Agrees(t.state, es) /\ Answered(es)
      /\ t.events \in Seq(AllTalk) /\ t.state \in States(Talk)
  BY DEF InTurn, Faithful, Dialogues
<1>2. e \in AllTalk /\ e.type \notin Replaying /\ e.type # "rewind"
  BY TalkParts DEF AllTalk, Replaying
<1>3. es \in Seq(Talk) /\ Spoken(Append(t.events, e)) = Append(es, e)
  <2>1. e.type \in {"rejected", "active_loop", "slot"}
    BY TalkParts
  <2>2. AfterEvent(Forms, es, e) = Append(es, e)
    BY <2>1 DEF AfterEvent
  <2>. QED  BY <1>1, <1>2, <2>2, SpokenAppend
<1>4. u \in Dialogues /\ u.events = Append(t.events, e) /\ u.state = ApplyTo(t.state, e)
  BY <1>1, <1>2, UpdateDialogueParts
<1>. HIDE DEF es, u
<1>5. Turns(Append(es, e)) /\ Agrees(ApplyTo(t.state, e), Append(es, e)) /\ Answered(Append(es, e))
  BY <1>1, <1>3, AgreesAfterOther
<1>6. u.events # <<>> /\ Last(u.events) = e
  BY <1>1, <1>2, <1>4, LastAppended
<1>. QED  BY <1>3, <1>4, <1>5, <1>6 DEF InTurn, Faithful, Is, u, es

\* A message is reverted.
LEMMA InTurnAfterRevert ==
  ASSUME NEW t, InTurn(t), FormsWereActive(t.events)
  PROVE  InTurn(UpdateDialogue(t, UserUtteranceReverted))
<1>. DEFINE e == UserUtteranceReverted
           es == Spoken(t.events)
           all == Append(t.events, e)
           left == UndoTillPrevious("action", UndoTillPrevious("user", es))
           u == UpdateDialogue(t, e)
<1>1. t \in Dialogues /\ Turns(es) /\ t.events \in Seq(AllTalk) /\ e \in AllTalk /\ e.type = "rewind"
  BY TalkKept DEF InTurn, Faithful, Dialogues, AllTalk
<1>. HIDE DEF e
<1>2. es \in Seq(Talk) /\ Spoken(all) = left
  <2>1. AfterEvent(Forms, es, e) = left
    BY <1>1 DEF AfterEvent
  <2>. QED  BY <1>1, <2>1, SpokenAppend
<1>3. /\ u \in Dialogues /\ u.events = all /\ u.state = Replayed(AppliedEvents(all))
      /\ all \in Seq(AllTalk) /\ all # <<>> /\ Last(all) = e
  <2>1. u \in Dialogues /\ u.events = all /\ u.state = Replayed(AppliedEvents(all))
    BY <1>1, UpdateDialogueParts
  <2>2. all \in Seq(AllTalk) /\ all # <<>> /\ Last(all) = e
    BY <1>1, Appended, LastAppended
  <2>. QED  BY <2>1, <2>2
<1>4. AppliedEvents(all) = left
  <2>1. FormsWereActive(all)
    BY <1>1, FormsWereActiveAppend
  <2>. HIDE DEF all
  <2>. QED  BY <1>2, <1>3, <2>1, AppliedEventsSpoken
<1>. HIDE DEF es, all, left, u
<1>5. left \in Seq(Talk) /\ Turns(left) /\ Answered(left)
  BY <1>1, <1>2, TurnsReverted DEF left
<1>6. Agrees(Replayed(left), left)
  <2>1. ASSUME NoActs(left, 1, Len(left)), NEW i \in 1 .. Len(left) PROVE ~Acts(left, i) /\ ~Says(left, i)
    <3>1. \A k \in 1 .. i - 1 : k \in 1 .. Len(left)
      OBVIOUS
    <3>. QED  BY <1>5, <2>1, <3>1 DEF Turns, NoActs, LastAct
  <2>2. NoActs(left, 1, Len(left)) => Replayed(left).followup = LISTEN
    BY <1>5, <2>1, TalkKept, ReplayedFollowup
  <2>3. Replayed(left).latest_action # NoName => Replayed(left).followup = NoName
    BY <1>5, TalkKept, ReplayedFollowup
  <2>. QED  BY <2>2, <2>3 DEF Agrees
<1>. QED  BY <1>1, <1>2, <1>3, <1>4, <1>5, <1>6 DEF InTurn, Faithful, Is, u, e

\* An action is executed that is not to listen; a form becomes active after that.
LEMMA InTurnAfterAction ==
  ASSUME NEW t, InTurn(t), NEW e \in Talk, e.type = "action", e.name # LISTEN,
         ~NoActs(Spoken(t.events), 1, Len(Spoken(t.events)))
  PROVE  InTurn(UpdateDialogue(t, e))
<1>. DEFINE es == Spoken(t.events)
           u == UpdateDialogue(t, e)
           left == AfterEvent(Forms, es, e)
<1>1. /\ t \in Dialogues /\ Turns(es) /\ Agrees(t.state, es) /\ Answered(es)
      /\ t.events \in Seq(AllTalk) /\ t.state \in States(Talk)
  BY DEF InTurn, Faithful, Dialogues
<1>2. e \in AllTalk
  BY DEF AllTalk
<1>3. es \in Seq(Talk) /\ Spoken(Append(t.events, e)) = left
  BY <1>1, <1>2, SpokenAppend
<1>4. u \in Dialogues /\ u.events = Append(t.events, e) /\ u.state = ApplyTo(t.state, e)
  BY <1>1, <1>2, UpdateDialogueParts
<1>. HIDE DEF u
<1>5. Turns(left) /\ Agrees(ApplyTo(t.state, e), left) /\ Answered(left)
  <2>. HIDE DEF es
  <2>1. NoActs(es, 1, Len(es)) => e.name = LISTEN /\ ~e.hide
    BY DEF es
  <2>. QED  BY <1>1, <1>3, <2>1, AgreesAfterAction
<1>6. u.events # <<>> /\ Last(u.events) = e
  BY <1>1, <1>2, <1>4, LastAppended
<1>. HIDE DEF left, es
<1>. QED  BY <1>3, <1>4, <1>5, <1>6 DEF InTurn, Faithful, Is, u

\* The bot listens: the turn is over.
Listening(t) ==
  /\ Faithful(t) /\ t.events # <<>> /\ Is(Last(t.events), "action", LISTEN)
  /\ Spoken(t.events) # <<>> /\ Last(Spoken(t.events)) = Last(t.events)

LEMMA ListeningAfterAction ==
  ASSUME NEW t, Faithful(t), Answered(Spoken(t.events)), NEW e \in Talk, Is(e, "action", LISTEN),
         NoActs(Spoken(t.events), 1, Len(Spoken(t.events))) => ~e.hide
  PROVE  Listening(UpdateDialogue(t, e))
<1>. DEFINE es == Spoken(t.events)
           u == UpdateDialogue(t, e)
           left == AfterEvent(Forms, es, e)
<1>1. /\ t \in Dialogues /\ Turns(es) /\ Agrees(t.state, es) /\ Answered(es)
      /\ t.events \in Seq(AllTalk) /\ t.state \in States(Talk)
  BY DEF Faithful, Dialogues
<1>2. e \in AllTalk /\ e.type = "action" /\ e.name = LISTEN /\ e.type # "rewind"
  BY DEF AllTalk, Is
<1>3. es \in Seq(Talk) /\ Spoken(Append(t.events, e)) = left
  BY <1>1, <1>2, SpokenAppend
<1>4. u \in Dialogues /\ u.events = Append(t.events, e) /\ u.state = ApplyTo(t.state, e)
  BY <1>1, <1>2, UpdateDialogueParts
<1>. HIDE DEF u
<1>5. Turns(left) /\ Agrees(ApplyTo(t.state, e), left) /\ left = Append(es, e)
  <2>. HIDE DEF es
  <2>1. NoActs(es, 1, Len(es)) => e.name = LISTEN /\ ~e.hide
    BY <1>2 DEF es
  <2>. QED  BY <1>1, <1>2, <1>3, <2>1, AgreesAfterAction
<1>6. u.events # <<>> /\ Last(u.events) = e
  BY <1>1, <1>2, <1>4, LastAppended
<1>7. Append(es, e) # <<>> /\ Last(Append(es, e)) = e
  BY <1>3, LastAppended
<1>. HIDE DEF left, es
<1>. QED  BY <1>3, <1>4, <1>5, <1>6, <1>7 DEF Listening, Faithful, u

\* A message begins a turn.
LEMMA InTurnAfterMessage ==
  ASSUME NEW t, Listening(t), NEW e \in Talk, e.type = "user"
  PROVE  InTurn(UpdateDialogue(t, e))
<1>. DEFINE es == Spoken(t.events)
           u == UpdateDialogue(t, e)
<1>1. /\ t \in Dialogues /\ Turns(es) /\ Agrees(t.state, es) /\ es # <<>> /\ Is(Last(es), "action", LISTEN)
      /\ t.events \in Seq(AllTalk) /\ t.state \in States(Talk)
  BY DEF Listening, Faithful, Dialogues
<1>2. e \in AllTalk /\ e.type # "rewind"
  BY DEF AllTalk
<1>3. es \in Seq(Talk) /\ Spoken(Append(t.events, e)) = Append(es, e)
  <2>1. AfterEvent(Forms, es, e) = Append(es, e)
    BY DEF AfterEvent
  <2>. QED  BY <1>1, <1>2, <2>1, SpokenAppend
<1>4. u \in Dialogues /\ u.events = Append(t.events, e) /\ u.state = ApplyTo(t.state, e)
  BY <1>1, <1>2, UpdateDialogueParts
<1>. HIDE DEF es, u
<1>5. Turns(Append(es, e)) /\ Agrees(ApplyTo(t.state, e), Append(es, e)) /\ Answered(Append(es, e))
  BY <1>1, <1>3, AgreesAfterMessage
<1>6. u.events # <<>> /\ Last(u.events) = e
  BY <1>1, <1>2, <1>4, LastAppended
<1>. QED  BY <1>3, <1>4, <1>5, <1>6 DEF InTurn, Faithful, Is, u, es

-----------------------------------------------------------------------------
(* The conversation: what its steps make of the dialogue.                   *)

\* In the midst of a turn, or listening.
Sound(t) == FormsWereActive(t.events) /\ (InTurn(t) \/ Listening(t))

\* What actions other than forms return.
Returns == {e \in AllTalk : e.type \notin {"user", "action"}}

LEMMA InTurnAfterReturned ==
  ASSUME NEW t, InTurn(t), FormsWereActive(t.events), NEW e \in Returns
  PROVE  InTurn(UpdateDialogue(t, e)) /\ FormsWereActive(UpdateDialogue(t, e).events)
<1>1. t \in Dialogues /\ t.events \in Seq(AllTalk) /\ e \in AllTalk /\ e.type \notin {"user", "action"}
  BY DEF InTurn, Faithful, Dialogues, Returns
<1>2. InTurn(UpdateDialogue(t, e))
  <2>1. CASE e \in Talk
    BY <1>1, <2>1, InTurnAfterOther
  <2>2. CASE e = UserUtteranceReverted
    BY <2>2, InTurnAfterRevert
  <2>. QED  BY <1>1, <2>1, <2>2 DEF AllTalk
<1>3. UpdateDialogue(t, e).events = Append(t.events, e)
  BY <1>1, UpdateDialogueParts
<1>. QED  BY <1>1, <1>2, <1>3, FormsWereActiveAppend

\* An action other than to listen, and other than a form that begins, and the
\* events it returns.
LEMMA InTurnAfterExecution ==
  ASSUME NEW t, InTurn(t), FormsWereActive(t.events), NEW x \in Talk, x.type = "action", x.name # LISTEN,
         x.name \in Forms => x.name \in LoopNames(t.events),
         ~NoActs(Spoken(t.events), 1, Len(Spoken(t.events)))
  PROVE  \A rs \in Seq(Returns) : Sound(UpdateDialogueWith(t, <<x>> \o rs))
<1>. DEFINE u(rs) == UpdateDialogueWith(t, <<x>> \o rs)
           P == {rs \in Seq(Returns) : InTurn(u(rs)) /\ FormsWereActive(u(rs).events)}
<1>1. t \in Dialogues /\ t.events \in Seq(AllTalk) /\ x \in AllTalk /\ <<x>> \in Seq(AllTalk)
  BY DEF InTurn, Faithful, Dialogues, AllTalk
<1>2. <<>> \in P
  <2>1. <<>> \in Seq(Returns) /\ <<x>> \o <<>> = <<x>>
    OBVIOUS
  <2>2. u(<<>>) = UpdateDialogue(t, x)
    BY <1>1, <2>1, DialogueWithOne
  <2>3. InTurn(UpdateDialogue(t, x))
    BY InTurnAfterAction
  <2>4. UpdateDialogue(t, x).events = Append(t.events, x)
    BY <1>1, UpdateDialogueParts
  <2>5. FormsWereActive(Append(t.events, x))
    BY <1>1, FormsWereActiveAppend
  <2>. HIDE DEF u
  <2>. QED  BY <2>1, <2>2, <2>3, <2>4, <2>5
<1>3. ASSUME NEW rs \in Seq(Returns), NEW e \in Returns, rs \in P PROVE Append(rs, e) \in P
  <2>1. rs \in Seq(AllTalk) /\ e \in AllTalk /\ Append(rs, e) \in Seq(Returns)
    BY DEF Returns
  <2>2. <<x>> \o Append(rs, e) = Append(<<x>> \o rs, e) /\ <<x>> \o rs \in Seq(AllTalk)
    BY <1>1, <2>1, ConcatAppend, ConcatProperties
  <2>. DEFINE before == <<x>> \o rs
             after == <<x>> \o Append(rs, e)
  <2>3. u(Append(rs, e)) = UpdateDialogue(u(rs), e)
    <3>1. after = Append(before, e) /\ before \in Seq(AllTalk)
      BY <2>2
    <3>. HIDE DEF before, after
    <3>2. UpdateDialogueWith(t, after) = UpdateDialogue(UpdateDialogueWith(t, before), e)
      BY <1>1, <2>1, <3>1, DialogueWithAppend
    <3>. QED  BY <3>2 DEF before, after
  <2>4. InTurn(u(rs)) /\ FormsWereActive(u(rs).events)
    BY <1>3
  <2>. HIDE DEF u
  <2>5. InTurn(UpdateDialogue(u(rs), e)) /\ FormsWereActive(UpdateDialogue(u(rs), e).events)
    BY <2>4, InTurnAfterReturned
  <2>. QED  BY <2>1, <2>3, <2>5
<1>4. \A rs \in Seq(Returns) : rs \in P
  <2>. HIDE DEF P
  <2>. QED  BY <1>2, <1>3, InductionOverSequences
<1>. QED  BY <1>4 DEF Sound

LEMMA DialogueWithMore ==
  ASSUME NEW t \in Dialogues, NEW x \in AllTalk, NEW f \in AllTalk, NEW g \in AllTalk
  PROVE  /\ UpdateDialogueWith(t, <<x>> \o <<>>) = UpdateDialogue(t, x)
         /\ UpdateDialogueWith(t, <<x>> \o <<f>>) = UpdateDialogue(UpdateDialogue(t, x), f)
         /\ UpdateDialogueWith(t, <<x>> \o <<f, g>>)
              = UpdateDialogue(UpdateDialogue(UpdateDialogue(t, x), f), g)
<1>. DEFINE one == <<x>>
           two == <<x, f>>
           three == <<x, f, g>>
<1>1. /\ <<x>> \o <<>> = one /\ <<x>> \o <<f>> = two /\ <<x>> \o <<f, g>> = three
      /\ one \in Seq(AllTalk) /\ two \in Seq(AllTalk)
      /\ two = Append(one, f) /\ three = Append(two, g)
  <2>1. one \in Seq(AllTalk) /\ two \in Seq(AllTalk)
    OBVIOUS
  <2>2. <<x>> \o <<>> = one
    OBVIOUS
  <2>5. two = Append(one, f)
    OBVIOUS
  <2>6. three = Append(two, g)
    OBVIOUS
  <2>3. <<x>> \o <<f>> = two
    BY <2>1, <2>5, AppendIsConcat
  <2>4. <<x>> \o <<f, g>> = three
    <3>. DEFINE last == <<f>>
    <3>1. last \in Seq(AllTalk) /\ <<f, g>> = Append(last, g)
      OBVIOUS
    <3>2. one \o last = two
      BY <2>3
    <3>. HIDE DEF one, two, three, last
    <3>3. one \o Append(last, g) = Append(one \o last, g)
      BY <2>1, <3>1, ConcatAppend
    <3>4. one \o Append(last, g) = three
      BY <2>6, <3>2, <3>3
    <3>. QED  BY <3>1, <3>4 DEF one
  <2>. QED  BY <2>1, <2>2, <2>3, <2>4, <2>5, <2>6
<1>2. UpdateDialogueWith(t, one) = UpdateDialogue(t, x)
  BY DialogueWithOne
<1>. HIDE DEF one, two, three
<1>3. UpdateDialogueWith(t, two) = UpdateDialogue(UpdateDialogueWith(t, one), f)
  BY <1>1, DialogueWithAppend
<1>4. UpdateDialogueWith(t, three) = UpdateDialogue(UpdateDialogueWith(t, two), g)
  <2>1. UpdateDialogueWith(t, Append(two, g)) = UpdateDialogue(UpdateDialogueWith(t, two), g)
    BY <1>1, DialogueWithAppend
  <2>. QED  BY <1>1, <2>1
<1>. QED  BY <1>1, <1>2, <1>3, <1>4

\* The active loop is one that has been activated.
LEMMA LoopWasActive ==
  ASSUME NEW t, Faithful(t), t.state.loop # NoName
  PROVE  t.state.loop \in LoopNames(t.events)
<1>. DEFINE es == t.events
           E == Kept(ToSet(es))
<1>1. es \in Seq(AllTalk) /\ t.state.loop = Replayed(Spoken(es)).loop
  BY DEF Faithful, Dialogues, Agrees
<1>2. es \in Seq(ToSet(es)) /\ ToSet(es) \subseteq AllTalk
  BY <1>1 DEF ToSet
<1>3. Proper(E)
  <2>1. E \subseteq Talk
    BY <1>2, TalkKept DEF Kept
  <2>. QED  BY <2>1, TalkKept DEF Proper
<1>4. Spoken(es) \in Seq(E)
  BY <1>2, AppliedType DEF Spoken
<1>5. t.state.loop \in {NoName} \union {e.name : e \in {f \in E : f.type = "active_loop"}}
  <2>. HIDE DEF E
  <2>. QED  BY <1>1, <1>3, <1>4, ReplayedLoop
<1>. QED  BY <1>5 DEF Kept, LoopNames

\* A form that the prediction names, and what it does.
LEMMA SoundAfterForm ==
  ASSUME NEW t, InTurn(t), FormsWereActive(t.events), NEW form \in Forms, NEW hide \in BOOLEAN,
         ~NoActs(Spoken(t.events), 1, Len(Spoken(t.events))),
         NEW rs, rs \in IF t.state.loop = form THEN {<<>>, <<ActiveLoop(NoName)>>}
                        ELSE {<<ActiveLoop(form)>>, <<ActiveLoop(form), ActiveLoop(NoName)>>}
  PROVE  Sound(UpdateDialogueWith(t, <<Executed(form, hide)>> \o rs))
<1>. DEFINE x == Executed(form, hide)
           f == ActiveLoop(form)
           g == ActiveLoop(NoName)
<1>1. /\ x \in Talk /\ x.type = "action" /\ x.name = form /\ f \in Talk /\ f.type = "active_loop" /\ f.name = form
      /\ g \in Talk /\ g.type = "active_loop" /\ x \in AllTalk /\ f \in AllTalk /\ g \in AllTalk
  <2>1. x.type = "action" /\ x.name = form /\ x \in Talk
    BY DEF Executed, Talk, ActionNames
  <2>2. f.type = "active_loop" /\ f.name = form /\ g.type = "active_loop"
    BY DEF ActiveLoop, Event
  <2>3. f \in Talk /\ g \in Talk
    BY DEF Talk
  <2>. QED  BY <2>1, <2>2, <2>3 DEF AllTalk
<1>2. form # LISTEN /\ form # NoName
  BY PoliciesAssumption DEF ActionNames
<1>3. t \in Dialogues /\ t.events \in Seq(AllTalk) /\ Faithful(t)
  BY DEF InTurn, Faithful, Dialogues
<1>. HIDE DEF x, f, g
<1>4. CASE t.state.loop = form
  <2>1. form \in LoopNames(t.events)
    BY <1>2, <1>3, <1>4, LoopWasActive
  <2>2. rs \in Seq(Returns)
    <3>1. g \in Returns
      BY <1>1 DEF Returns
    <3>2. <<>> \in Seq(Returns) /\ <<g>> \in Seq(Returns)
      BY <3>1
    <3>. QED  BY <1>4, <3>2 DEF g
  <2>3. \A s \in Seq(Returns) : Sound(UpdateDialogueWith(t, <<x>> \o s))
    BY <1>1, <1>2, <2>1, InTurnAfterExecution
  <2>. QED  BY <2>2, <2>3 DEF x
<1>5. CASE t.state.loop # form
  <2>. DEFINE a == UpdateDialogue(t, x)
             b == UpdateDialogue(a, f)
             c == UpdateDialogue(b, g)
  <2>1. InTurn(a) /\ a \in Dialogues /\ a.events = Append(t.events, x)
    BY <1>1, <1>2, <1>3, InTurnAfterAction, UpdateDialogueParts
  <2>. HIDE DEF a
  <2>2. InTurn(b) /\ b.events = Append(a.events, f)
    BY <1>1, <2>1, InTurnAfterOther, UpdateDialogueParts
  <2>3. FormsWereActive(b.events)
    BY <1>1, <1>3, <2>1, <2>2, FormBecomesActive
  <2>. HIDE DEF b
  <2>4. g \in Returns
    BY <1>1 DEF Returns
  <2>5. InTurn(c) /\ FormsWereActive(c.events)
    BY <2>2, <2>3, <2>4, InTurnAfterReturned
  <2>6. UpdateDialogueWith(t, <<x>> \o <<f>>) = b /\ UpdateDialogueWith(t, <<x>> \o <<f, g>>) = c
    BY <1>1, <1>3, DialogueWithMore DEF a, b
  <2>7. rs = <<f>> \/ rs = <<f, g>>
    BY <1>5 DEF f, g
  <2>8. Sound(b) /\ Sound(c)
    BY <2>2, <2>3, <2>5 DEF Sound
  <2>. QED  BY <2>6, <2>7, <2>8 DEF x
<1>. QED  BY <1>4, <1>5

\* What is known of a prediction, whatever is predicted.
Hidable(p) == "hide" \in DOMAIN p /\ p.hide \in BOOLEAN

LEMMA PredictedHidable == \A action, source : Hidable(Predicted(action, source))
BY DEF Predicted, Hidable

LEMMA ChangedHidable ==
  ASSUME NEW p, Hidable(p), NEW v
  PROVE  /\ Hidable([p EXCEPT !.action = v]) /\ Hidable([p EXCEPT !.confidence = v])
         /\ Hidable([p EXCEPT !.interrupted = v]) /\ Hidable([p EXCEPT !.noUser = v])
         /\ v \in BOOLEAN => Hidable([p EXCEPT !.hide = v])
BY DEF Hidable

LEMMA PredictionParts ==
  ASSUME NEW t
  PROVE  /\ Prediction(t).hide \in BOOLEAN
         /\ t.state.followup # NoName => Prediction(t).action = t.state.followup /\ Prediction(t).hide = FALSE
<1>1. Hidable(LoopHappyPath(t))
  BY PredictedHidable, ChangedHidable DEF LoopHappyPath
<1>2. ASSUME NEW lookup, NEW order PROVE Hidable(FindActionFromRules(lookup, t, order))
  BY PredictedHidable, ChangedHidable DEF FindActionFromRules
<1>3. ASSUME NEW lookup, NEW order PROVE Hidable(RulePredict(lookup, t, order))
  BY <1>1, <1>2, PredictedHidable DEF RulePredict
<1>4. Hidable(MemoPredict(model, t))
  BY PredictedHidable, ChangedHidable DEF MemoPredict
<1>5. ASSUME NEW p, Hidable(p) PROVE Hidable(Vetoed(p, t))
  <2>1. Hidable([[p EXCEPT !.action = LISTEN] EXCEPT !.confidence = None])
    BY <1>5, ChangedHidable
  <2>. QED  BY <1>5, <2>1 DEF Vetoed
<1>6. ASSUME NEW p, NEW q, Hidable(p), Hidable(q) PROVE Hidable(Combined(p, q))
  BY <1>6, ChangedHidable DEF Combined
<1>. DEFINE rule == RulePredict(model.lookup, t, hash)
           marked == [rule EXCEPT !.hide = rule.source \in model.notInStories]
<1>7. Hidable(marked)
  <2>1. Hidable(rule)
    BY <1>3
  <2>. DEFINE known == rule.source \in model.notInStories
  <2>2. known \in BOOLEAN
    OBVIOUS
  <2>. HIDE DEF rule, known
  <2>3. Hidable([rule EXCEPT !.hide = known])
    BY <2>1, <2>2, ChangedHidable
  <2>. QED  BY <2>3 DEF rule, known
<1>8. Hidable(Combined(Vetoed(marked, t), Vetoed(MemoPredict(model, t), t)))
  <2>. HIDE DEF rule, marked
  <2>. QED  BY <1>4, <1>5, <1>6, <1>7
<1>9. CASE t.state.followup # NoName
  <2>1. Prediction(t) = Predicted(t.state.followup, FromRule(<<>>))
    BY <1>9 DEF Prediction
  <2>. QED  BY <2>1 DEF Predicted
<1>10. CASE t.state.followup = NoName
  <2>1. Prediction(t) = Combined(Vetoed(marked, t), Vetoed(MemoPredict(model, t), t))
    BY <1>10 DEF Prediction
  <2>. QED  BY <1>8, <1>10, <2>1 DEF Hidable
<1>. QED  BY <1>9, <1>10

\* A round of the bot's turn keeps the dialogue sound.
LEMMA RunActionSound ==
  ASSUME RunAction, InTurn(dialogue), FormsWereActive(dialogue.events)
  PROVE  Sound(dialogue')
<1>. DEFINE t == dialogue
           p == Prediction(t)
           es == Spoken(t.events)
           x == Executed(p.action, p.hide)
<1>1. p.action \in ActionNames
      /\ \/ \E events \in IF p.action \in Forms THEN FormReturns(p.action) ELSE Returned[p.action] :
               dialogue' = UpdateDialogueWith(t, <<Executed(p.action, p.hide)>> \o events)
         \/ MayReject(p) /\ dialogue' = UpdateDialogue(t, ActionExecutionRejected(p.action))
  BY DEF RunAction
<1>2. p.hide \in BOOLEAN /\ (t.state.followup # NoName => p.action = t.state.followup /\ p.hide = FALSE)
  BY PredictionParts
<1>. HIDE DEF p
<1>3. /\ t \in Dialogues /\ t.events \in Seq(AllTalk) /\ Faithful(t) /\ Answered(es)
      /\ NoActs(es, 1, Len(es)) => t.state.followup = LISTEN
  BY DEF InTurn, Faithful, Dialogues, Agrees
<1>4. /\ x \in Talk /\ x \in AllTalk /\ x.type = "action" /\ x.name = p.action /\ x.hide = p.hide
  <2>1. x.type = "action" /\ x.name = p.action /\ x.hide = p.hide
    BY DEF Executed
  <2>2. x \in Talk
    BY <1>1, <1>2 DEF Talk
  <2>. QED  BY <2>1, <2>2 DEF AllTalk
<1>5. NoActs(es, 1, Len(es)) => p.action = LISTEN /\ ~p.hide
  <2>1. LISTEN # NoName
    BY DEF LISTEN, NoName
  <2>. QED  BY <1>2, <1>3, <2>1
<1>. HIDE DEF t, es
<1>6. ASSUME NEW events \in IF p.action \in Forms THEN FormReturns(p.action) ELSE Returned[p.action],
             dialogue' = UpdateDialogueWith(t, <<Executed(p.action, p.hide)>> \o events)
      PROVE  Sound(dialogue')
  <2>1. CASE p.action \in Forms
    <3>1. p.action # LISTEN
      BY <2>1, PoliciesAssumption
    <3>2. events \in IF t.state.loop = p.action THEN {<<>>, <<ActiveLoop(NoName)>>}
                     ELSE {<<ActiveLoop(p.action)>>, <<ActiveLoop(p.action), ActiveLoop(NoName)>>}
      BY <1>6, <2>1 DEF FormReturns, t
    <3>3. ~NoActs(Spoken(t.events), 1, Len(Spoken(t.events)))
      BY <1>5, <3>1 DEF es
    <3>4. InTurn(t) /\ FormsWereActive(t.events)
      BY DEF t
    <3>. QED  BY <1>2, <1>6, <2>1, <3>2, <3>3, <3>4, SoundAfterForm
  <2>2. CASE p.action \notin Forms /\ p.action = LISTEN
    <3>1. events = <<>>
      BY <1>6, <2>2, ReturnedAssumption
    <3>2. dialogue' = UpdateDialogue(t, x)
      <4>1. UpdateDialogueWith(t, <<x>> \o <<>>) = UpdateDialogue(t, x)
        BY <1>3, <1>4, DialogueWithMore
      <4>. QED  BY <1>6, <3>1, <4>1
    <3>3. Listening(UpdateDialogue(t, x))
      <4>1. NoActs(Spoken(t.events), 1, Len(Spoken(t.events))) => ~x.hide
        BY <1>4, <1>5 DEF es
      <4>2. Answered(Spoken(t.events)) /\ Is(x, "action", LISTEN)
        BY <1>3, <1>4, <2>2 DEF es, Is
      <4>. HIDE DEF x
      <4>. QED  BY <1>3, <1>4, <4>1, <4>2, ListeningAfterAction
    <3>4. FormsWereActive(UpdateDialogue(t, x).events)
      <4>1. UpdateDialogue(t, x).events = Append(t.events, x)
        BY <1>3, <1>4, UpdateDialogueParts
      <4>2. FormsWereActive(t.events)
        BY DEF t
      <4>. HIDE DEF x
      <4>. QED  BY <1>3, <1>4, <2>2, <4>1, <4>2, FormsWereActiveAppend
    <3>. QED  BY <3>2, <3>3, <3>4 DEF Sound
  <2>3. CASE p.action \notin Forms /\ p.action # LISTEN
    <3>1. p.action \in DOMAIN Returned /\ events \in Returned[p.action]
      BY <1>1, <1>6, <2>3 DEF ActionNames
    <3>2. events \in Seq(Returns)
      <4>1. /\ events \in Seq(ToSet(events))
            /\ \A e \in ToSet(events) :
                 e = UserUtteranceReverted \/ \E slot \in Slots : e = SlotSet(slot, e.value)
        BY <3>1, ReturnedAssumption
      <4>2. ASSUME NEW e \in ToSet(events) PROVE e \in Returns
        <5>1. CASE e = UserUtteranceReverted
          BY <5>1, TalkKept DEF Returns, AllTalk
        <5>2. CASE \E slot \in Slots : e = SlotSet(slot, e.value)
          <6>1. PICK slot \in Slots : e = SlotSet(slot, e.value)
            BY <5>2
          <6>2. e.value \in SlotValues
            BY <3>1, <4>2 DEF SlotValues
          <6>3. e \in Talk
            BY <6>1, <6>2 DEF Talk
          <6>4. e.type = "slot"
            BY <6>1 DEF SlotSet
          <6>. QED  BY <6>3, <6>4 DEF Returns, AllTalk
        <5>. QED  BY <4>1, <5>1, <5>2
      <4>. QED  BY <4>1, <4>2
    <3>3. ~NoActs(Spoken(t.events), 1, Len(Spoken(t.events)))
      BY <1>5, <2>3 DEF es
    <3>4. InTurn(t) /\ FormsWereActive(t.events)
      BY DEF t
    <3>5. \A rs \in Seq(Returns) : Sound(UpdateDialogueWith(t, <<x>> \o rs))
      <4>. HIDE DEF x
      <4>. QED  BY <1>4, <2>3, <3>3, <3>4, InTurnAfterExecution
    <3>. QED  BY <1>6, <3>2, <3>5
  <2>. QED  BY <2>1, <2>2, <2>3
<1>7. ASSUME MayReject(p), dialogue' = UpdateDialogue(t, ActionExecutionRejected(p.action))
      PROVE  Sound(dialogue')
  <2>. DEFINE e == ActionExecutionRejected(p.action)
  <2>1. e.type = "rejected"
    BY DEF ActionExecutionRejected, Event
  <2>2. e \in Talk
    BY <1>7 DEF MayReject, Talk
  <2>3. e \in Returns
    BY <2>1, <2>2 DEF Returns, AllTalk
  <2>4. InTurn(t) /\ FormsWereActive(t.events)
    BY DEF t
  <2>. HIDE DEF e
  <2>5. InTurn(UpdateDialogue(t, e)) /\ FormsWereActive(UpdateDialogue(t, e).events)
    BY <2>3, <2>4, InTurnAfterReturned
  <2>. QED  BY <1>7, <2>5 DEF Sound, e
<1>. QED  BY <1>1, <1>6, <1>7 DEF t

\* The first listening.
LEMMA FirstListening ==
  LET t == [events |-> <<>>, state |-> Fresh]
  IN  Sound(UpdateDialogue(t, Executed(LISTEN, FALSE)))
<1>. DEFINE t == [events |-> <<>>, state |-> Fresh]
           e == Executed(LISTEN, FALSE)
           none == <<>>
<1>1. t.events = none /\ none \in Seq(AllTalk) /\ t.state = Fresh /\ t \in Dialogues /\ none \in Seq(Talk)
  BY FreshState DEF Dialogues
<1>2. e \in Talk /\ e \in AllTalk /\ Is(e, "action", LISTEN) /\ e.hide = FALSE
  <2>1. e.type = "action" /\ e.name = LISTEN /\ e.hide = FALSE
    BY DEF Executed
  <2>2. LISTEN \in ActionNames
    BY PoliciesAssumption DEF ActionNames
  <2>3. e \in Talk
    <3>0. FALSE \in BOOLEAN
      OBVIOUS
    <3>. DEFINE no == FALSE
               here == LISTEN
    <3>1. \E action \in ActionNames, hide \in BOOLEAN : e = Executed(action, hide)
      <4>1. e = Executed(here, no) /\ here \in ActionNames /\ no \in BOOLEAN
        BY <2>2, <3>0
      <4>. HIDE DEF no, here, e
      <4>. QED  BY <4>1, Zenon
    <3>. HIDE DEF e
    <3>. QED  BY <3>1 DEF Talk
  <2>. QED  BY <2>1, <2>3 DEF Is, AllTalk
<1>3. Spoken(none) = none
  BY AppliedEmpty DEF Spoken
<1>4. Turns(none) /\ Answered(none) /\ ~Pending(none, Len(none)) /\ FormsWereActive(none)
  BY DEF Turns, Answered, Pending, FormsWereActive
<1>5. Agrees(Fresh, none)
  <2>1. Replayed(none) = Fresh
    BY ReplayedEmpty
  <2>. QED  BY <1>4, <2>1, FreshState DEF Agrees
<1>. HIDE DEF t, e, none
<1>6. Faithful(t)
  BY <1>1, <1>3, <1>4, <1>5 DEF Faithful
<1>7. Listening(UpdateDialogue(t, e))
  BY <1>1, <1>2, <1>3, <1>4, <1>6, ListeningAfterAction
<1>8. FormsWereActive(UpdateDialogue(t, e).events)
  <2>1. UpdateDialogue(t, e).events = Append(none, e)
    BY <1>1, <1>2, UpdateDialogueParts
  <2>. QED  BY <1>1, <1>2, <1>4, <2>1, PoliciesAssumption, FormsWereActiveAppend DEF Is
<1>. QED  BY <1>7, <1>8 DEF Sound, t, e

-----------------------------------------------------------------------------
(* The invariant, and what follows from it.                                 *)

\* The model knows what only rules know of; the conversation is sound.
PInv ==
  /\ stage # "training" => "ruleOnly" \in DOMAIN model.lookup /\ SomeSlots(model.lookup.ruleOnly)
  /\ stage # "serving" => dialogue = [events |-> <<>>, state |-> Fresh]
  /\ stage = "serving" => Sound(dialogue)

LEMMA PInvHolds == Spec => []PInv
<1>1. Init => PInv
  BY DEF Init, PInv
<1>2. PInv /\ [Next]_vars => PInv'
  <2>. SUFFICES ASSUME PInv, [Next]_vars PROVE PInv'
    OBVIOUS
  <2>1. CASE Train
    <3>1. "ruleOnly" \in DOMAIN LookupFromTrackers(project) /\ SomeSlots(LookupFromTrackers(project).ruleOnly)
      BY DEF LookupFromTrackers, RuleOnly, SomeSlots
    <3>2. model'.lookup = LookupFromTrackers(project)
      BY <2>1 DEF Train
    <3>. QED  BY <2>1, <3>1, <3>2 DEF Train, PInv
  <2>2. CASE Analyze
    <3>1. \E rules : model'.lookup = [model.lookup EXCEPT !.rules = rules]
      <4>. HIDE DEF PInv
      <4>1. PICK analysis : model' = [lookup |-> [model.lookup EXCEPT !.rules = analysis.rules],
                                     memo |-> model.memo, notInStories |-> analysis.notInStories]
        BY <2>2, Zenon DEF Analyze
      <4>2. model'.lookup = [model.lookup EXCEPT !.rules = analysis.rules]
        BY <4>1
      <4>. QED  BY <4>2
    <3>0. PICK rules : model'.lookup = [model.lookup EXCEPT !.rules = rules]
      BY <3>1
    <3>2. DOMAIN model'.lookup = DOMAIN model.lookup /\ ("ruleOnly" \in DOMAIN model.lookup =>
            model'.lookup.ruleOnly = model.lookup.ruleOnly)
      BY <3>0
    <3>. QED  BY <2>2, <3>2 DEF Analyze, PInv
  <2>3. CASE Load
    <3>1. dialogue = [events |-> <<>>, state |-> Fresh]
      BY <2>3 DEF Load, PInv
    <3>2. dialogue' = UpdateDialogue([events |-> <<>>, state |-> Fresh], Executed(LISTEN, FALSE))
      BY <2>3, <3>1 DEF Load
    <3>3. Sound(dialogue')
      BY <3>2, FirstListening
    <3>. QED  BY <2>3, <3>3 DEF Load, PInv
  <2>4. CASE RunAction
    <3>1. InTurn(dialogue) /\ FormsWereActive(dialogue.events) /\ stage = "serving"
      BY <2>4 DEF RunAction, Acting, Waiting, PInv, Sound, Listening
    <3>2. Sound(dialogue')
      BY <2>4, <3>1, RunActionSound
    <3>. QED  BY <2>4, <3>1, <3>2 DEF RunAction, PInv
  <2>5. ASSUME NEW intent \in Intents, Say(intent) PROVE PInv'
    <3>. DEFINE e == UserUttered(intent, 0)
    <3>1. stage = "serving" /\ Listening(dialogue) /\ FormsWereActive(dialogue.events)
      BY <2>5 DEF Say, Waiting, PInv, Sound, InTurn
    <3>2. e \in Talk /\ e.type = "user"
      BY DEF Talk, UserUttered, Event
    <3>3. dialogue' = UpdateDialogue(dialogue, e)
      BY <2>5 DEF Say
    <3>. HIDE DEF e
    <3>4. InTurn(dialogue')
      BY <3>1, <3>2, <3>3, InTurnAfterMessage
    <3>5. FormsWereActive(dialogue'.events)
      <4>1. dialogue \in Dialogues /\ dialogue.events \in Seq(AllTalk) /\ e \in AllTalk
        BY <3>1, <3>2 DEF Listening, Faithful, Dialogues, AllTalk
      <4>2. dialogue'.events = Append(dialogue.events, e)
        BY <3>3, <4>1, UpdateDialogueParts
      <4>. QED  BY <3>1, <3>2, <4>1, <4>2, FormsWereActiveAppend
    <3>. QED  BY <2>5, <3>4, <3>5 DEF Say, PInv, Sound
  <2>6. CASE UNCHANGED vars
    BY <2>6 DEF vars, PInv
  <2>. QED  BY <2>1, <2>2, <2>3, <2>4, <2>5, <2>6 DEF Next
<1>. QED  BY <1>1, <1>2, PTL DEF Spec

\* What rules alone did leaves no trace in what policies that learn from
\* stories see (states_for_tracker_history with ignore_rule_only_turns).
THEOREM RuleTurnsUnseenHolds == Spec => []RuleTurnsUnseen
<1>1. PInv => RuleTurnsUnseen
  <2>. DEFINE es == AppliedEvents(dialogue.events)
             R == model.lookup.ruleOnly
  <2>. SUFFICES ASSUME PInv, Acting, LoopNames(es) = {}, ListensWithRules(es)
                PROVE  StatesWithoutRuleTurns(es, R) = StatesWithoutRuleTurns(WithoutRuleTurns(es), R)
    BY Zenon DEF RuleTurnsUnseen
  <2>1. InTurn(dialogue) /\ FormsWereActive(dialogue.events) /\ SomeSlots(R)
    BY DEF PInv, Acting, Waiting, Sound, Listening
  <2>2. es = Spoken(dialogue.events) /\ es \in Seq(Talk)
    <3>1. dialogue.events \in Seq(AllTalk)
      BY <2>1 DEF InTurn, Faithful, Dialogues
    <3>2. es = Spoken(dialogue.events)
      BY <2>1, <3>1, AppliedEventsSpoken
    <3>3. Spoken(dialogue.events) \in Seq(Talk)
      BY <3>1, AppliedType, TalkKept DEF Spoken
    <3>. HIDE DEF es
    <3>. QED  BY <3>2, <3>3
  <2>. HIDE DEF es, R
  <2>3. Turns(es) /\ Answered(es)
    BY <2>1, <2>2 DEF InTurn, Faithful
  <2>4. Loopless(es)
    <3>1. ASSUME NEW i \in 1 .. Len(es), es[i].type = "active_loop", es[i].name # NoName PROVE FALSE
      <4>1. es[i] \in ToSet(es)
        BY <2>2 DEF ToSet
      <4>2. es[i].name \in LoopNames(es)
        BY <3>1, <4>1 DEF LoopNames
      <4>. QED  BY <4>2
    <3>. QED  BY <3>1 DEF Loopless
  <2>5. RulesListenAlone(es)
    <3>1. SUFFICES ASSUME NEW i \in 1 .. Len(es), Acts(es, i), es[i].name = LISTEN, es[i].hide
                   PROVE  HiddenSoFar(es, i - 1)
      BY DEF RulesListenAlone
    <3>2. i \in Actions(es)
      BY <2>2, <3>1 DEF Actions, Acts
    <3>3. PICK u \in 1 .. i : es[u].type = "user" /\ \A k \in Actions(es) \intersect (u .. i - 1) :
                               es[k].hide /\ es[k].name # LISTEN
      BY <3>1, <3>2 DEF ListensWithRules
    <3>4. u # i
      BY <3>1, <3>3 DEF Acts
    <3>5. \A k \in u .. i - 1 : Acts(es, k) => k \in Actions(es)
      BY <2>2, <3>1, <3>3 DEF Actions, Acts
    <3>. QED  BY <3>1, <3>3, <3>4, <3>5 DEF HiddenSoFar, Says
  <2>. QED  BY <2>1, <2>2, <2>3, <2>4, <2>5, TalkKept, RulesLeaveNoTrace
<1>. QED  BY <1>1, PInvHolds, PTL

-----------------------------------------------------------------------------
(* The states of all turns, and those of a beginning.                       *)

\* An action adds the state before it.
LEMMA PriorAppend ==
  ASSUME NEW E, Proper(E), NEW es \in Seq(E), NEW e \in E
  PROVE  /\ Befores(es).prior \in Seq(PriorOf(E))
         /\ Befores(Append(es, e)).prior =
              IF e.type = "action" THEN Append(Befores(es).prior, PriorTo(Replayed(es), e.hide))
              ELSE Befores(es).prior
<1>1. Befores(es) \in BeforeOf(E) /\ Befores(Append(es, e)) = AfterThat(Befores(es), e)
  BY BeforesAppend
<1>2. Befores(es).prior \in Seq(PriorOf(E)) /\ Befores(es).state = Replayed(es) /\ Replayed(es) \in States(E)
  BY <1>1, BeforesState, ReplayedType DEF BeforeOf
<1>3. CASE e.type = "action"
  <2>. DEFINE prior == PriorTo(Replayed(es), e.hide)
             before == Befores(es).prior
             P == PriorOf(E)
  <2>1. prior \in P
    BY <1>2, <1>3 DEF Proper, PriorOf, PriorTo
  <2>2. Befores(Append(es, e)).prior = before \o <<prior>>
    BY <1>1, <1>2, <1>3 DEF AfterThat, PriorTo
  <2>. HIDE DEF prior, before
  <2>3. before \o <<prior>> = Append(before, prior)
    BY <1>2, <2>1, PriorsAppend DEF before
  <2>4. Befores(Append(es, e)).prior = Append(before, prior)
    BY <2>2, <2>3
  <2>. QED  BY <1>2, <1>3, <2>4 DEF before, prior
<1>4. CASE e.type # "action"
  BY <1>1, <1>2, <1>4 DEF AfterThat
<1>. QED  BY <1>3, <1>4

\* The states of all turns are those before the actions, and the one they led to.
LEMMA StatesParts ==
  ASSUME NEW E, Proper(E), NEW es \in Seq(E)
  PROVE  LET prior == Befores(es).prior
             states == StatesForTrackerHistory(es)
         IN  /\ prior \in Seq(PriorOf(E)) /\ Len(prior) \in Nat
             /\ states \in Seq([Features -> Values(E)]) /\ Len(states) = Len(prior) + 1
             /\ \A i \in 1 .. Len(prior) : states[i] = ActiveState(prior[i].state)
             /\ states[Len(prior) + 1] = ActiveState(Replayed(es)) /\ Last(states) = ActiveState(Replayed(es))
<1>. DEFINE prior == Befores(es).prior
           last == PriorTo(Replayed(es), FALSE)
           one == <<last>>
           all == prior \o one
           P == PriorOf(E)
           states == StatesForTrackerHistory(es)
           V == [Features -> Values(E)]
           seen == [i \in DOMAIN all |-> ActiveState(all[i].state)]
<1>1. prior \in Seq(P) /\ Replayed(es) \in States(E) /\ Befores(es).state = Replayed(es)
  BY BeforesType, BeforesState, ReplayedType DEF BeforeOf
<1>2. last \in P /\ last.state = Replayed(es)
  BY <1>1 DEF PriorOf, PriorTo
<1>3. PriorTrackers(es) = all
  <2>1. PriorTrackers(es) = prior \o <<[state |-> Befores(es).state, hide |-> FALSE]>>
    BY PriorTrackersParts
  <2>. HIDE DEF prior
  <2>. QED  BY <1>1, <2>1 DEF PriorTo
<1>4. states = seen
  <2>1. states = [i \in DOMAIN PriorTrackers(es) |-> ActiveState(PriorTrackers(es)[i].state)]
    BY DEF StatesForTrackerHistory
  <2>. HIDE DEF states, all
  <2>. QED  BY <1>3, <2>1
<1>5. one \in Seq(P) /\ Len(one) = 1 /\ one[1] = last
  <2>. HIDE DEF last, P
  <2>. QED  BY <1>2
<1>. HIDE DEF prior, one, P, states, last
<1>6. /\ all \in Seq(P) /\ Len(all) = Len(prior) + 1 /\ Len(prior) \in Nat
      /\ \A i \in 1 .. Len(prior) : all[i] = prior[i]
      /\ all[Len(prior) + 1] = last
  <2>1. /\ all \in Seq(P) /\ Len(all) = Len(prior) + Len(one) /\ Len(prior) \in Nat
        /\ (\A i \in 1 .. Len(prior) : all[i] = prior[i])
        /\ \A i \in 1 .. Len(one) : all[Len(prior) + i] = one[i]
    BY <1>1, <1>5, ConcatParts
  <2>. HIDE DEF all
  <2>. QED  BY <1>5, <2>1
<1>. HIDE DEF all
<1>7. \A i \in 1 .. Len(prior) + 1 : ActiveState(all[i].state) \in V
  <2>. TAKE i \in 1 .. Len(prior) + 1
  <2>1. all[i] \in P
    BY <1>6
  <2>2. all[i].state \in States(E)
    BY <2>1 DEF P, PriorOf
  <2>. QED  BY <2>2, ActiveStateType
<1>8. seen \in Seq(V) /\ Len(seen) = Len(prior) + 1
  <2>. HIDE DEF V
  <2>1. DOMAIN all = 1 .. Len(prior) + 1
    BY <1>6
  <2>. QED  BY <1>6, <1>7, <2>1
<1>9. \A i \in 1 .. Len(prior) + 1 : seen[i] = ActiveState(all[i].state)
  BY <1>6
<1>. HIDE DEF seen, V
<1>10. seen[Len(prior) + 1] = ActiveState(Replayed(es)) /\ Last(seen) = seen[Len(prior) + 1]
  <2>1. Len(prior) + 1 \in 1 .. Len(prior) + 1 /\ Len(seen) = Len(prior) + 1
    BY <1>2, <1>6, <1>8
  <2>2. seen[Len(prior) + 1] = ActiveState(all[Len(prior) + 1].state)
    BY <1>9, <2>1
  <2>. QED  BY <1>2, <1>6, <1>8, <2>1, <2>2 DEF Last
<1>11. \A i \in 1 .. Len(prior) : seen[i] = ActiveState(prior[i].state)
  BY <1>6, <1>9
<1>. QED  BY <1>1, <1>4, <1>6, <1>8, <1>10, <1>11 DEF prior, P, states, V

\* As many states are before actions as there are actions.
LEMMA PriorLength ==
  ASSUME NEW E, Proper(E)
  PROVE  \A es \in Seq(E) : Len(Befores(es).prior) = Cardinality({j \in 1 .. Len(es) : Acts(es, j)})
<1>. DEFINE A(es) == {j \in 1 .. Len(es) : Acts(es, j)}
           P == {es \in Seq(E) : Len(Befores(es).prior) = Cardinality(A(es))}
<1>1. <<>> \in P
  <2>. DEFINE none == <<>>
  <2>1. A(none) = {} /\ Befores(none).prior = none /\ Len(none) = 0 /\ none \in Seq(E)
    BY BeforesEmpty DEF NoneBefore
  <2>. HIDE DEF A
  <2>. QED  BY <2>1, FS_EmptySet
<1>2. ASSUME NEW es \in Seq(E), NEW e \in E, es \in P PROVE Append(es, e) \in P
  <2>. DEFINE n == Len(es)
             s == Append(es, e)
  <2>1. /\ s \in Seq(E) /\ Len(s) = n + 1 /\ n \in Nat /\ s[n + 1] = e
        /\ \A j \in 1 .. n : s[j] = es[j]
    BY Appended
  <2>. HIDE DEF s
  <2>2. A(s) = IF e.type = "action" THEN A(es) \union {n + 1} ELSE A(es)
    BY <2>1 DEF Acts
  <2>3. IsFiniteSet(A(es)) /\ n + 1 \notin A(es)
    <3>1. IsFiniteSet(1 .. n)
      BY <2>1, FS_Interval
    <3>. QED  BY <2>1, <3>1, FS_Subset
  <2>4. Befores(es).prior \in Seq(PriorOf(E)) /\
        Befores(s).prior = IF e.type = "action" THEN Append(Befores(es).prior, PriorTo(Replayed(es), e.hide))
                           ELSE Befores(es).prior
    BY PriorAppend DEF s
  <2>. HIDE DEF n
  <2>5. Len(Befores(s).prior) = IF e.type = "action" THEN Len(Befores(es).prior) + 1 ELSE Len(Befores(es).prior)
    BY <2>4
  <2>6. Cardinality(A(es) \union {n + 1}) = Cardinality(A(es)) + 1
    <3>. HIDE DEF A
    <3>. QED  BY <2>3, FS_AddElement
  <2>7. Len(Befores(es).prior) = Cardinality(A(es))
    BY <1>2
  <2>. HIDE DEF A
  <2>8. Len(Befores(s).prior) = Cardinality(A(s))
    BY <2>2, <2>5, <2>6, <2>7
  <2>. QED  BY <2>1, <2>8 DEF s
<1>3. \A es \in Seq(E) : es \in P
  <2>. HIDE DEF P
  <2>. QED  BY <1>1, <1>2, InductionOverSequences
<1>. QED  BY <1>3

\* The states before the actions of a beginning are the first of all.
LEMMA PriorBegins ==
  ASSUME NEW E, Proper(E)
  PROVE  \A es \in Seq(E) : \A i \in 0 .. Len(es) :
           /\ Len(Befores(SubSeq(es, 1, i)).prior) =< Len(Befores(es).prior)
           /\ \A j \in 1 .. Len(Befores(SubSeq(es, 1, i)).prior) :
                Befores(es).prior[j] = Befores(SubSeq(es, 1, i)).prior[j]
<1>. DEFINE Starting(a, b) == Len(a) =< Len(b) /\ \A j \in 1 .. Len(a) : b[j] = a[j]
           P == {es \in Seq(E) : \A i \in 0 .. Len(es) : Starting(Befores(SubSeq(es, 1, i)).prior, Befores(es).prior)}
<1>0. \A es \in Seq(E) : Befores(es).prior \in Seq(PriorOf(E)) /\ Len(Befores(es).prior) \in Nat
  BY StatesParts
<1>1. <<>> \in P
  <2>. DEFINE none == <<>>
  <2>1. none \in Seq(E) /\ Len(none) = 0 /\ SubSeq(none, 1, 0) = none
    OBVIOUS
  <2>. HIDE DEF none
  <2>2. Starting(Befores(none).prior, Befores(none).prior)
    BY <1>0, <2>1
  <2>. HIDE DEF Starting
  <2>3. \A i \in 0 .. Len(none) : Starting(Befores(SubSeq(none, 1, i)).prior, Befores(none).prior)
    <3>. TAKE i \in 0 .. Len(none)
    <3>1. i = 0
      BY <2>1
    <3>. QED  BY <2>1, <2>2, <3>1
  <2>4. none \in P
    BY <2>1, <2>3
  <2>. QED  BY <2>4 DEF none
<1>2. ASSUME NEW es \in Seq(E), NEW e \in E, es \in P PROVE Append(es, e) \in P
  <2>. DEFINE n == Len(es)
             s == Append(es, e)
  <2>1. s \in Seq(E) /\ Len(s) = n + 1 /\ n \in Nat /\ SubSeq(s, 1, n + 1) = s
    OBVIOUS
  <2>2. Starting(Befores(es).prior, Befores(s).prior)
    <3>. DEFINE a == Befores(es).prior
               x == PriorTo(Replayed(es), e.hide)
               A == PriorOf(E)
    <3>1. a \in Seq(A) /\ (Befores(s).prior = Append(a, x) \/ Befores(s).prior = a)
      BY PriorAppend
    <3>. HIDE DEF a, x, A, s
    <3>2. Starting(a, Append(a, x)) /\ Starting(a, a)
      BY <3>1
    <3>. QED  BY <3>1, <3>2 DEF a
  <2>3. ASSUME NEW i \in 0 .. n + 1 PROVE Starting(Befores(SubSeq(s, 1, i)).prior, Befores(s).prior)
    <3>1. CASE i = n + 1
      <4>1. Starting(Befores(s).prior, Befores(s).prior)
        BY <1>0, <2>1
      <4>. HIDE DEF Starting, s
      <4>. QED  BY <3>1, <2>1, <4>1
    <3>2. CASE i \in 0 .. n
      <4>1. SubSeq(s, 1, i) = SubSeq(es, 1, i) /\ SubSeq(es, 1, i) \in Seq(E)
        BY <3>2, <2>1
      <4>2. Starting(Befores(SubSeq(es, 1, i)).prior, Befores(es).prior)
        BY <1>2, <3>2
      <4>3. ASSUME NEW a, NEW b, NEW c, Len(a) \in Nat, Len(b) \in Nat, Len(c) \in Nat, Starting(a, b), Starting(b, c)
            PROVE  Starting(a, c)
        BY <4>3
      <4>. HIDE DEF Starting
      <4>4. Starting(Befores(SubSeq(es, 1, i)).prior, Befores(s).prior)
        BY <1>0, <2>1, <2>2, <4>1, <4>2, <4>3
      <4>. HIDE DEF s
      <4>. QED  BY <4>1, <4>4
    <3>. QED  BY <3>1, <3>2, <2>1
  <2>. HIDE DEF Starting, s
  <2>4. s \in P
    BY <2>1, <2>3
  <2>. QED  BY <2>4 DEF s
<1>3. \A es \in Seq(E) : es \in P
  <2>. HIDE DEF P
  <2>. QED  BY <1>1, <1>2, InductionOverSequences
<1>. QED  BY <1>3

\* The states an example of training has are those of what comes before its action.
LEMMA ExampleBefore ==
  ASSUME NEW E, Proper(E), NEW es \in Seq(E), NEW k \in 1 .. Len(es), Acts(es, k)
  PROVE  SubSeq(StatesForTrackerHistory(es), 1, Cardinality({j \in 1 .. k : es[j].type = "action"}))
           = StatesForTrackerHistory(SubSeq(es, 1, k - 1))
<1>. DEFINE pre == SubSeq(es, 1, k - 1)
           upto == SubSeq(es, 1, k)
           all == StatesForTrackerHistory(es)
           some == StatesForTrackerHistory(pre)
           n == Len(Befores(pre).prior)
           V == [Features -> Values(E)]
<1>1. pre \in Seq(E) /\ upto \in Seq(E) /\ es[k] \in E /\ upto = Append(pre, es[k]) /\ Len(upto) = k
  BY PrefixByPrefix
<1>2. Befores(pre).prior \in Seq(PriorOf(E)) /\ n \in Nat
      /\ some \in Seq(V) /\ Len(some) = n + 1
      /\ (\A i \in 1 .. n : some[i] = ActiveState(Befores(pre).prior[i].state))
      /\ some[n + 1] = ActiveState(Replayed(pre))
  BY <1>1, StatesParts
<1>3. all \in Seq(V) /\ Len(all) = Len(Befores(es).prior) + 1 /\ Len(Befores(es).prior) \in Nat
      /\ \A i \in 1 .. Len(Befores(es).prior) : all[i] = ActiveState(Befores(es).prior[i].state)
  BY StatesParts
<1>4. Befores(upto).prior = Append(Befores(pre).prior, PriorTo(Replayed(pre), es[k].hide))
  <2>1. es[k].type = "action"
    BY DEF Acts
  <2>. DEFINE e == es[k]
  <2>. HIDE DEF pre, upto, e
  <2>2. pre \in Seq(E) /\ e \in E /\ upto = Append(pre, e) /\ e.type = "action"
    BY <1>1, <2>1 DEF e
  <2>3. Befores(Append(pre, e)).prior = IF e.type = "action" THEN Append(Befores(pre).prior, PriorTo(Replayed(pre), e.hide))
                                        ELSE Befores(pre).prior
    BY <2>2, PriorAppend
  <2>. QED  BY <2>2, <2>3 DEF e
<1>5. Len(Befores(upto).prior) = n + 1
      /\ (\A i \in 1 .. n : Befores(upto).prior[i] = Befores(pre).prior[i])
      /\ Befores(upto).prior[n + 1].state = Replayed(pre)
  <2>. DEFINE x == PriorTo(Replayed(pre), es[k].hide)
             b == Befores(pre).prior
             P == PriorOf(E)
  <2>1. x.state = Replayed(pre) /\ b \in Seq(P) /\ Befores(upto).prior = Append(b, x)
    BY <1>2, <1>4 DEF PriorTo
  <2>2. n = Len(b)
    OBVIOUS
  <2>. HIDE DEF x, b, P, upto, n
  <2>. QED  BY <2>1, <2>2 DEF b
<1>6. Cardinality({j \in 1 .. k : es[j].type = "action"}) = n + 1
  <2>1. Cardinality({j \in 1 .. Len(upto) : Acts(upto, j)}) = n + 1
    BY <1>1, <1>5, PriorLength
  <2>2. {j \in 1 .. Len(upto) : Acts(upto, j)} = {j \in 1 .. k : es[j].type = "action"}
    BY <1>1 DEF Acts
  <2>. QED  BY <2>1, <2>2
<1>7. n + 1 =< Len(Befores(es).prior) /\ \A j \in 1 .. n + 1 : Befores(es).prior[j] = Befores(upto).prior[j]
  BY <1>5, PriorBegins
<1>. HIDE DEF n, some, all, pre, upto
<1>8. \A i \in 1 .. n + 1 : all[i] = some[i]
  <2>. TAKE i \in 1 .. n + 1
  <2>1. all[i] = ActiveState(Befores(upto).prior[i].state)
    <3>1. i \in 1 .. Len(Befores(es).prior)
      BY <1>2, <1>3, <1>7
    <3>2. all[i] = ActiveState(Befores(es).prior[i].state)
      BY <1>3, <3>1
    <3>. QED  BY <1>7, <3>2
  <2>. QED  BY <1>2, <1>5, <2>1
<1>9. SubSeq(all, 1, n + 1) = some
  <2>. HIDE DEF V
  <2>. QED  BY <1>2, <1>3, <1>7, <1>8
<1>. QED  BY <1>6, <1>9 DEF all, some, pre

-----------------------------------------------------------------------------
(* A conversation told as a story.                                          *)

\* An event, and all of them, as a story would tell them (AsStory).
Unmarked(e) == IF e.type = "action" THEN [e EXCEPT !.hide = FALSE] ELSE e
Retold(es) ==
  LET told == Without({"rejected"}, es)
  IN  [i \in DOMAIN told |-> IF told[i].type = "action" THEN [told[i] EXCEPT !.hide = FALSE] ELSE told[i]]

LEMMA AsStoryRetold == \A events : AsStory(events) = Retold(AppliedEvents(events))
BY DEF AsStory, Retold

LEMMA UnmarkedParts ==
  ASSUME NEW e \in Talk
  PROVE  /\ Unmarked(e) \in Talk /\ Unmarked(e).type = e.type /\ Unmarked(e).name = e.name
         /\ e.type # "action" => Unmarked(e) = e
<1>1. CASE e.type = "action"
  <2>1. PICK action \in ActionNames, hide \in BOOLEAN : e = Executed(action, hide)
    BY <1>1 DEF Talk, UserUttered, ActionExecutionRejected, ActiveLoop, SlotSet, Event
  <2>2. Unmarked(e) = Executed(action, FALSE)
    BY <1>1, <2>1 DEF Unmarked, Executed
  <2>3. Executed(action, FALSE) \in Talk
    <3>. DEFINE no == FALSE
    <3>1. no \in BOOLEAN
      OBVIOUS
    <3>. HIDE DEF no
    <3>2. Executed(action, no) \in Talk
      BY <3>1 DEF Talk
    <3>. QED  BY <3>2 DEF no
  <2>. QED  BY <1>1, <2>1, <2>2, <2>3 DEF Executed
<1>2. CASE e.type # "action"
  BY <1>2 DEF Unmarked
<1>. QED  BY <1>1, <1>2

LEMMA RetoldEmpty == Retold(<<>>) = <<>>
<1>1. Without({"rejected"}, <<>>) = <<>>
  BY WithoutEmpty
<1>. QED  BY <1>1 DEF Retold

\* A story tells each event but a rejection.
LEMMA RetoldAppend ==
  ASSUME NEW es \in Seq(Talk), NEW e \in Talk
  PROVE  /\ Retold(es) \in Seq(Talk)
         /\ Retold(Append(es, e)) = IF e.type = "rejected" THEN Retold(es) ELSE Append(Retold(es), Unmarked(e))
<1>. DEFINE told == Without({"rejected"}, es)
           Plain(s) == [i \in DOMAIN s |-> Unmarked(s[i])]
<1>1. told \in Seq(Talk) /\ Without({"rejected"}, Append(es, e)) = IF e.type = "rejected" THEN told ELSE Append(told, e)
  BY WithoutAppend
<1>2. Retold(es) = Plain(told) /\ Retold(Append(es, e)) = Plain(Without({"rejected"}, Append(es, e)))
  BY DEF Retold, Unmarked
<1>. HIDE DEF told
<1>3. Plain(told) \in Seq(Talk)
  BY <1>1, UnmarkedParts
<1>4. Plain(Append(told, e)) = Append(Plain(told), Unmarked(e))
  <2>1. /\ Append(told, e) \in Seq(Talk) /\ Len(Append(told, e)) = Len(told) + 1 /\ Len(told) \in Nat
        /\ Append(told, e)[Len(told) + 1] = e
        /\ \A i \in 1 .. Len(told) : Append(told, e)[i] = told[i]
    BY <1>1, Appended
  <2>. DEFINE a == Append(told, e)
             b == Append(Plain(told), Unmarked(e))
  <2>2. /\ b \in Seq(Talk) /\ Len(b) = Len(told) + 1 /\ b[Len(told) + 1] = Unmarked(e)
        /\ \A i \in 1 .. Len(told) : b[i] = Unmarked(told[i])
    <3>1. Len(Plain(told)) = Len(told) /\ \A i \in 1 .. Len(told) : Plain(told)[i] = Unmarked(told[i])
      BY <1>1
    <3>. HIDE DEF Plain
    <3>. QED  BY <1>3, <3>1, UnmarkedParts, Appended
  <2>3. DOMAIN a = 1 .. Len(told) + 1 /\ DOMAIN b = 1 .. Len(told) + 1
    BY <2>1, <2>2
  <2>4. b = [i \in 1 .. Len(told) + 1 |-> b[i]]
    BY <2>2, <2>3
  <2>. HIDE DEF a, b
  <2>5. \A i \in 1 .. Len(told) + 1 : Unmarked(a[i]) = b[i]
    <3>. TAKE i \in 1 .. Len(told) + 1
    <3>1. CASE i = Len(told) + 1
      BY <2>1, <2>2, <3>1 DEF a
    <3>2. CASE i \in 1 .. Len(told)
      BY <2>1, <2>2, <3>2 DEF a
    <3>. QED  BY <2>1, <3>1, <3>2
  <2>6. Plain(a) = b
    BY <2>3, <2>4, <2>5
  <2>. QED  BY <2>6 DEF a, b
<1>. QED  BY <1>1, <1>2, <1>3, <1>4

\* States that policies cannot tell apart.
SameState(a, b) ==
  /\ a.latest_action = b.latest_action /\ a.latest_message = b.latest_message
  /\ a.loop = b.loop /\ a.slots = b.slots

LEMMA SameActiveState ==
  ASSUME NEW a, NEW b, SameState(a, b)
  PROVE  ActiveState(a) = ActiveState(b)
BY DEF SameState, ActiveState

\* A conversation and its story lead to states that look the same.
LEMMA RetoldAlike ==
  \A es \in Seq(Talk) :
    /\ SameState(Replayed(Retold(es)), Replayed(es))
    /\ Len(Befores(Retold(es)).prior) = Len(Befores(es).prior)
    /\ \A i \in 1 .. Len(Befores(es).prior) :
         SameState(Befores(Retold(es)).prior[i].state, Befores(es).prior[i].state)
<1>. DEFINE Same(p, q) == Len(p) = Len(q) /\ \A i \in 1 .. Len(q) : SameState(p[i].state, q[i].state)
           P == {es \in Seq(Talk) : /\ SameState(Replayed(Retold(es)), Replayed(es))
                                    /\ Same(Befores(Retold(es)).prior, Befores(es).prior)}
<1>0. Proper(Talk)
  BY TalkKept
<1>1. <<>> \in P
  <2>. DEFINE none == <<>>
  <2>1. none \in Seq(Talk) /\ Len(none) = 0 /\ Retold(none) = none /\ Befores(none).prior = none
    BY RetoldEmpty, BeforesEmpty DEF NoneBefore
  <2>. HIDE DEF none
  <2>2. SameState(Replayed(none), Replayed(none)) /\ Same(none, none)
    BY <2>1 DEF SameState
  <2>. HIDE DEF Same
  <2>. QED  BY <2>1, <2>2 DEF none
<1>2. ASSUME NEW es \in Seq(Talk), NEW e \in Talk, es \in P PROVE Append(es, e) \in P
  <2>. DEFINE s == Append(es, e)
             u == Unmarked(e)
             r == Retold(es)
             v == Append(r, u)
             p == Befores(es).prior
             q == Befores(r).prior
             x == PriorTo(Replayed(es), e.hide)
             y == PriorTo(Replayed(r), u.hide)
             A == PriorOf(Talk)
  <2>1. s \in Seq(Talk) /\ r \in Seq(Talk) /\ Retold(s) = IF e.type = "rejected" THEN r ELSE v
    BY RetoldAppend
  <2>2. u \in Talk /\ u.type = e.type /\ u.name = e.name /\ (e.type # "action" => u = e)
    BY UnmarkedParts
  <2>3. SameState(Replayed(r), Replayed(es)) /\ Same(q, p)
    BY <1>2
  <2>4. NextState(Replayed(es), e, Replayed(s))
    BY <1>0, ReplayedNext
  <2>. HIDE DEF u, r
  <2>5. NextState(Replayed(r), u, Replayed(v))
    BY <1>0, <2>1, <2>2, ReplayedNext
  <2>6. p \in Seq(A) /\ Befores(s).prior = IF e.type = "action" THEN Append(p, x) ELSE p
    BY <1>0, PriorAppend
  <2>7. q \in Seq(A) /\ Befores(v).prior = IF u.type = "action" THEN Append(q, y) ELSE q
    BY <1>0, <2>1, <2>2, PriorAppend
  <2>8. x.state = Replayed(es) /\ y.state = Replayed(r)
    BY DEF PriorTo
  <2>. HIDE DEF s, v, p, q, x, y, A
  <2>9. CASE e.type = "rejected"
    <3>1. SameState(Replayed(r), Replayed(s))
      BY <2>3, <2>4, <2>9 DEF SameState, NextState
    <3>2. Befores(s).prior = p
      BY <2>6, <2>9
    <3>. HIDE DEF Same
    <3>3. SameState(Replayed(Retold(s)), Replayed(s)) /\ Same(Befores(Retold(s)).prior, Befores(s).prior)
      BY <2>1, <2>3, <2>9, <3>1, <3>2 DEF q
    <3>. QED  BY <2>1, <3>3 DEF s
  <2>10. CASE e.type # "rejected"
    <3>1. SameState(Replayed(v), Replayed(s))
      BY <2>2, <2>3, <2>4, <2>5, <2>10 DEF SameState, NextState
    <3>2. Same(Befores(v).prior, Befores(s).prior)
      <4>1. CASE e.type = "action"
        <5>1. SameState(y.state, x.state)
          BY <2>3, <2>8
        <5>2. Same(Append(q, y), Append(p, x))
          <6>1. /\ Len(Append(p, x)) = Len(p) + 1 /\ Len(p) \in Nat /\ Append(p, x)[Len(p) + 1] = x
                /\ \A i \in 1 .. Len(p) : Append(p, x)[i] = p[i]
            BY <2>6
          <6>2. /\ Len(Append(q, y)) = Len(q) + 1 /\ Len(q) \in Nat /\ Append(q, y)[Len(q) + 1] = y
                /\ \A i \in 1 .. Len(q) : Append(q, y)[i] = q[i]
            BY <2>7
          <6>3. Len(q) = Len(p)
            BY <2>3
          <6>4. ASSUME NEW i \in 1 .. Len(p) + 1
                PROVE  SameState(Append(q, y)[i].state, Append(p, x)[i].state)
            <7>1. CASE i = Len(p) + 1
              BY <5>1, <6>1, <6>2, <6>3, <7>1
            <7>2. CASE i \in 1 .. Len(p)
              <8>1. SameState(q[i].state, p[i].state)
                BY <2>3, <7>2
              <8>2. Append(q, y)[i] = q[i] /\ Append(p, x)[i] = p[i]
                BY <6>1, <6>2, <6>3, <7>2
              <8>. QED  BY <8>1, <8>2, Zenon
            <7>3. i = Len(p) + 1 \/ i \in 1 .. Len(p)
              BY <6>1
            <7>. QED  BY <7>1, <7>2, <7>3, Zenon
          <6>. QED  BY <6>1, <6>2, <6>3, <6>4
        <5>. HIDE DEF Same
        <5>. QED  BY <2>2, <2>6, <2>7, <4>1, <5>2
      <4>2. CASE e.type # "action"
        BY <2>2, <2>3, <2>6, <2>7, <4>2
      <4>. QED  BY <4>1, <4>2
    <3>. HIDE DEF Same
    <3>3. SameState(Replayed(Retold(s)), Replayed(s)) /\ Same(Befores(Retold(s)).prior, Befores(s).prior)
      BY <2>1, <2>10, <3>1, <3>2
    <3>. QED  BY <2>1, <3>3 DEF s
  <2>. QED  BY <2>9, <2>10
<1>3. \A es \in Seq(Talk) : es \in P
  <2>. HIDE DEF P
  <2>. QED  BY <1>1, <1>2, InductionOverSequences
<1>. QED  BY <1>3

\* Policies see of a conversation what they would see of its story.
LEMMA RetoldStates ==
  ASSUME NEW es \in Seq(Talk)
  PROVE  Retold(es) \in Seq(Talk) /\ StatesForTrackerHistory(Retold(es)) = StatesForTrackerHistory(es)
<1>. DEFINE r == Retold(es)
           p == Befores(es).prior
           q == Befores(r).prior
           a == StatesForTrackerHistory(es)
           b == StatesForTrackerHistory(r)
           V == [Features -> Values(Talk)]
<1>0. Proper(Talk)
  BY TalkKept
<1>1. r \in Seq(Talk)
  <2>1. \A s \in Seq(Talk) : Retold(s) \in Seq(Talk)
    <3>. TAKE s \in Seq(Talk)
    <3>1. ActiveLoop(NoName) \in Talk
      BY DEF Talk
    <3>. QED  BY <3>1, RetoldAppend
  <2>. QED  BY <2>1
<1>2. SameState(Replayed(r), Replayed(es)) /\ Len(q) = Len(p)
      /\ \A i \in 1 .. Len(p) : SameState(q[i].state, p[i].state)
  BY RetoldAlike
<1>3. /\ Len(p) \in Nat /\ a \in Seq(V) /\ Len(a) = Len(p) + 1
      /\ (\A i \in 1 .. Len(p) : a[i] = ActiveState(p[i].state))
      /\ a[Len(p) + 1] = ActiveState(Replayed(es))
  BY <1>0, StatesParts
<1>. HIDE DEF r
<1>4. /\ Len(q) \in Nat /\ b \in Seq(V) /\ Len(b) = Len(q) + 1
      /\ (\A i \in 1 .. Len(q) : b[i] = ActiveState(q[i].state))
      /\ b[Len(q) + 1] = ActiveState(Replayed(r))
  BY <1>0, <1>1, StatesParts
<1>. HIDE DEF p, q, a, b, V
<1>5. \A i \in 1 .. Len(p) + 1 : b[i] = a[i]
  <2>. TAKE i \in 1 .. Len(p) + 1
  <2>1. CASE i = Len(p) + 1
    BY <1>2, <1>3, <1>4, <2>1, SameActiveState
  <2>2. CASE i \in 1 .. Len(p)
    <3>1. ActiveState(q[i].state) = ActiveState(p[i].state)
      BY <1>2, <2>2, SameActiveState
    <3>. QED  BY <1>2, <1>3, <1>4, <2>2, <3>1
  <2>. QED  BY <1>3, <2>1, <2>2
<1>6. a = b
  BY <1>2, <1>3, <1>4, <1>5
<1>. QED  BY <1>1, <1>6 DEF a, b, r

\* What was said last is the message that the state has, and a story tells it.
LEMMA ReplayedMessage ==
  ASSUME NEW E, Proper(E)
  PROVE  \A es \in Seq(E) :
           (\E u \in 1 .. Len(es) : Says(es, u)) =>
             \E u \in 1 .. Len(es) : Says(es, u) /\ Replayed(es).latest_message = es[u]
<1>. DEFINE Heard(es) == \E u \in 1 .. Len(es) : Says(es, u)
           Known(es) == \E u \in 1 .. Len(es) : Says(es, u) /\ Replayed(es).latest_message = es[u]
           P == {es \in Seq(E) : Heard(es) => Known(es)}
<1>1. <<>> \in P
  OBVIOUS
<1>2. ASSUME NEW es \in Seq(E), NEW e \in E, es \in P PROVE Append(es, e) \in P
  <2>. DEFINE s == Append(es, e)
             n == Len(es)
  <2>1. s \in Seq(E) /\ Len(s) = n + 1 /\ n \in Nat /\ s[n + 1] = e /\ \A i \in 1 .. n : s[i] = es[i]
    BY Appended
  <2>2. Replayed(s).latest_message = IF e.type = "user" THEN e ELSE Replayed(es).latest_message
    BY ReplayedNext DEF NextState
  <2>. HIDE DEF s
  <2>3. CASE e.type = "user"
    <3>1. n + 1 \in 1 .. Len(s) /\ Says(s, n + 1) /\ Replayed(s).latest_message = s[n + 1]
      BY <2>1, <2>2, <2>3 DEF Says
    <3>2. Known(s)
      BY <3>1
    <3>. QED  BY <2>1, <3>2 DEF s
  <2>4. CASE e.type # "user"
    <3>1. ASSUME Heard(s) PROVE Heard(es)
      BY <2>1, <2>4, <3>1 DEF Says
    <3>2. ASSUME Known(es) PROVE Known(s)
      <4>1. PICK u \in 1 .. n : Says(es, u) /\ Replayed(es).latest_message = es[u]
        BY <3>2
      <4>2. u \in 1 .. Len(s) /\ Says(s, u) /\ Replayed(s).latest_message = s[u]
        BY <2>1, <2>2, <2>4, <4>1 DEF Says
      <4>. QED  BY <4>2
    <3>3. Heard(es) => Known(es)
      BY <1>2
    <3>. QED  BY <2>1, <3>1, <3>2, <3>3 DEF s
  <2>. QED  BY <2>3, <2>4
<1>3. \A es \in Seq(E) : es \in P
  <2>. HIDE DEF P
  <2>. QED  BY <1>1, <1>2, InductionOverSequences
<1>. QED  BY <1>3

LEMMA RetoldMessages ==
  ASSUME NEW es \in Seq(Talk), NEW u \in 1 .. Len(es), Says(es, u)
  PROVE  \E i \in 1 .. Len(Retold(es)) : Retold(es)[i] = es[u]
<1>. DEFINE told == Without({"rejected"}, es)
<1>1. \E i \in 1 .. Len(told) : told[i] = es[u]
  <2>1. es[u].type \notin {"rejected"}
    BY DEF Says
  <2>2. \E i \in 1 .. Len(es) : es[i] = es[u]
    OBVIOUS
  <2>. DEFINE types == {"rejected"}
  <2>. HIDE DEF types
  <2>3. \A e : (\E i \in 1 .. Len(Without(types, es)) : Without(types, es)[i] = e)
                 <=> e.type \notin types /\ \E i \in 1 .. Len(es) : es[i] = e
    BY WithoutMembers
  <2>. QED  BY <2>1, <2>2, <2>3, Zenon DEF types
<1>2. told \in Seq(Talk)
  BY WithoutType
<1>3. Retold(es) = [i \in DOMAIN told |-> IF told[i].type = "action" THEN [told[i] EXCEPT !.hide = FALSE] ELSE told[i]]
  BY DEF Retold
<1>. HIDE DEF told
<1>4. PICK i \in 1 .. Len(told) : told[i] = es[u]
  BY <1>1
<1>5. i \in 1 .. Len(Retold(es)) /\ Retold(es)[i] = told[i]
  <2>1. Retold(es)[i] = told[i]
    BY <1>2, <1>3, <1>4 DEF Says
  <2>2. DOMAIN Retold(es) = 1 .. Len(told) /\ Len(told) \in Nat
    BY <1>2, <1>3
  <2>3. Len(Retold(es)) = Len(told)
    BY <2>2
  <2>. QED  BY <2>1, <2>3
<1>. QED  BY <1>4, <1>5

-----------------------------------------------------------------------------
(* The training trackers.                                                   *)

\* The steps of a rule or story are events of which a state is made.
LEMMA StepsProper ==
  ASSUME NEW steps, AreSteps(steps)
  PROVE  Proper(ToSet(steps)) /\ steps \in Seq(ToSet(steps))
<1>1. ASSUME NEW e, IsStep(e)
      PROVE  /\ e.type \in {"user", "action", "active_loop", "slot"}
             /\ e.type = "slot" => e.name \in Slots
             /\ e.type = "action" => e.hide \in BOOLEAN /\ e.name \in ActionNames
  <2>1. CASE \E intent \in Intents : e = UserUttered(intent, 0)
    BY <2>1 DEF UserUttered, Event
  <2>2. CASE \E action \in ActionNames : e = Executed(action, FALSE)
    BY <2>2 DEF Executed
  <2>3. CASE \E loop \in Forms \union {NoName} : e = ActiveLoop(loop)
    BY <2>3 DEF ActiveLoop, Event
  <2>4. CASE \E slot \in Slots : e = SlotSet(slot, e.value)
    <3>1. PICK slot \in Slots : e = SlotSet(slot, e.value)
      BY <2>4
    <3>2. e.type = "slot" /\ e.name = slot
      <4>. DEFINE v == e.value
      <4>1. e = SlotSet(slot, v)
        BY <3>1
      <4>. HIDE DEF v
      <4>. QED  BY <4>1 DEF SlotSet
    <3>. QED  BY <3>2
  <2>. QED  BY <1>1, <2>1, <2>2, <2>3, <2>4 DEF IsStep
<1>2. NoName \notin ActionNames
  BY PoliciesAssumption
<1>. HIDE DEF IsStep, ActionNames
<1>. QED  BY <1>1, <1>2 DEF AreSteps, Proper

LEMMA AddActionListenType ==
  ASSUME NEW E, Executed(LISTEN, FALSE) \in E, NEW es \in Seq(E)
  PROVE  AddActionListen(es) \in Seq(E)
<1>. DEFINE x == Executed(LISTEN, FALSE)
<1>1. x \in E
  OBVIOUS
<1>2. AddActionListen(es) = es \/ AddActionListen(es) = Append(es, x)
  BY DEF AddActionListen
<1>. HIDE DEF x
<1>. QED  BY <1>1, <1>2, Appended

\* explicit_events, step by step.
ExplicitAfter(done, e) == Append(IF e.type = "user" THEN AddActionListen(done) ELSE done, e)
Explicit(es) == Through(es, ExplicitAfter, <<>>)
ExplicitStep(E) == [p \in Seq(E) \X E |-> ExplicitAfter(p[1], p[2])]

LEMMA ExplicitStepGoes ==
  ASSUME NEW E, Executed(LISTEN, FALSE) \in E, NEW es \in Seq(E)
  PROVE  Goes(Seq(E), E, ExplicitStep(E), <<>>, es)
<1>1. ASSUME NEW done \in Seq(E), NEW e \in E PROVE ExplicitAfter(done, e) \in Seq(E)
  <2>1. AddActionListen(done) \in Seq(E)
    BY AddActionListenType
  <2>2. Append(done, e) \in Seq(E)
    OBVIOUS
  <2>3. Append(AddActionListen(done), e) \in Seq(E)
    BY <2>1
  <2>. QED  BY <2>2, <2>3 DEF ExplicitAfter
<1>2. ExplicitStep(E) \in [Seq(E) \X E -> Seq(E)]
  BY <1>1 DEF ExplicitStep
<1>. QED  BY <1>2 DEF Goes

LEMMA ExplicitFolded ==
  ASSUME NEW E, Executed(LISTEN, FALSE) \in E, NEW es \in Seq(E)
  PROVE  Explicit(es) = Folded(Seq(E), ExplicitStep(E), <<>>, es)
<1>. DEFINE Step(a, e) == ExplicitAfter(a, e)
           Fold(h) == h = [i \in 0 .. Len(es) |-> IF i = 0 THEN <<>> ELSE Step(h[i - 1], es[i])]
           step == ExplicitStep(E)
           S == Seq(E)
<1>1. Goes(S, E, step, <<>>, es)
  BY ExplicitStepGoes
<1>2. PICK g : IsFold(g, S, step, <<>>, es) /\ Folded(S, step, <<>>, es) = g[Len(es)]
  <2>. HIDE DEF step, S
  <2>. QED  BY <1>1, FoldedIsFold
<1>3. ASSUME NEW a \in S, NEW e \in E PROVE step[<<a, e>>] = Step(a, e)
  BY Zenon DEF ExplicitStep
<1>. HIDE DEF step, Step, S
<1>4. ASSUME NEW i \in 1 .. Len(es) PROVE g[i] = Step(g[i - 1], es[i])
  <2>1. i - 1 \in 0 .. Len(es) /\ es[i] \in E
    OBVIOUS
  <2>2. g[i - 1] \in S
    BY <1>2, <2>1 DEF IsFold
  <2>3. g[i] = step[<<g[i - 1], es[i]>>]
    BY <1>2 DEF IsFold
  <2>. QED  BY <2>1, <2>2, <2>3, <1>3
<1>5. Fold(g)
  BY <1>2, <1>4 DEF IsFold
<1>6. ASSUME NEW h, Fold(h) PROVE h = g
  <2>1. h[0] = g[0] /\ \A i \in 1 .. Len(es) : h[i - 1] = g[i - 1] => h[i] = g[i]
    BY <1>5, <1>6
  <2>2. Len(es) \in Nat
    OBVIOUS
  <2>3. \A i \in 0 .. Len(es) : h[i] = g[i]
    BY <2>1, <2>2, FoldsAgree, Zenon
  <2>. QED  BY <2>3, <1>5, <1>6
<1>7. Explicit(es) = (CHOOSE h : Fold(h))[Len(es)]
  BY DEF Explicit, Through, Step
<1>8. (CHOOSE h : Fold(h)) = g
  <2>. HIDE DEF Fold
  <2>. QED  BY <1>5, <1>6
<1>. QED  BY <1>2, <1>7, <1>8 DEF step, S

\* It adds nothing but executions of listening.
LEMMA ExplicitEventsType ==
  ASSUME NEW E, Executed(LISTEN, FALSE) \in E, NEW steps \in Seq(E)
  PROVE  ExplicitEvents(steps) \in Seq(E)
<1>1. Goes(Seq(E), E, ExplicitStep(E), <<>>, steps)
  BY ExplicitStepGoes
<1>2. Explicit(steps) = Folded(Seq(E), ExplicitStep(E), <<>>, steps)
  BY ExplicitFolded
<1>3. Explicit(steps) \in Seq(E)
  <2>. DEFINE none == <<>>
             S == Seq(E)
  <2>. HIDE DEF none, S
  <2>1. Goes(S, E, ExplicitStep(E), none, steps)
    BY <1>1 DEF none, S
  <2>2. Folded(S, ExplicitStep(E), none, steps) \in S
    BY <2>1, FoldedType
  <2>. QED  BY <1>2, <2>2 DEF none, S
<1>4. ExplicitEvents(steps) = AddActionListen(Explicit(steps))
  BY DEF ExplicitEvents, Explicit, ExplicitAfter, Through
<1>. QED  BY <1>3, <1>4, AddActionListenType

\* Of the events of a tracker that is trained with, none are undone.
\* A tracker to train with.
Trains(t) == \E E : Proper(E) /\ t \in Seq(E)

LEMMA TrainsApplied ==
  ASSUME NEW E, Proper(E), NEW t \in Seq(E)
  PROVE  AppliedEvents(t) \in Seq(E)
<1>1. Kept(E) = E
  BY DEF Kept, Proper, Replaying
<1>. QED  BY <1>1, AppliedType DEF AppliedEvents

\* Those of stories and of rules are, and there are finitely many.
LEMMA StoriesTrain ==
  ASSUME NEW steps, AreSteps(steps)
  PROVE  Trains(ExplicitEvents(steps))
<1>. DEFINE listen == Executed(LISTEN, FALSE)
           E == ToSet(steps) \union {listen}
<1>1. listen.type = "action" /\ listen.hide = FALSE /\ listen.name # NoName
  BY PoliciesAssumption DEF Executed, ActionNames
<1>2. Proper(E)
  BY <1>1, StepsProper DEF Proper
<1>3. steps \in Seq(E)
  <2>1. steps \in Seq(ToSet(steps)) /\ ToSet(steps) \subseteq E
    BY StepsProper
  <2>. HIDE DEF E
  <2>. QED  BY <2>1, SeqInLarger
<1>4. ExplicitEvents(steps) \in Seq(E)
  <2>1. Executed(LISTEN, FALSE) \in E
    OBVIOUS
  <2>. HIDE DEF E
  <2>. QED  BY <1>3, <2>1, ExplicitEventsType
<1>. HIDE DEF E
<1>. QED  BY <1>2, <1>4 DEF Trains

LEMMA ExplicitlyParts ==
  ASSUME NEW E, Proper(E), NEW e \in E
  PROVE  /\ Explicitly(e).type = e.type
         /\ e.type \in {"slot", "action"} => Explicitly(e).name = e.name
         /\ e.type = "action" => Explicitly(e) = e
BY DEF Explicitly, Is, Proper

LEMMA RulesTrain ==
  ASSUME NEW r, AreSteps(r.conditions), AreSteps(r.steps)
  PROVE  Trains(RuleEvents(r))
<1>. DEFINE listen == Executed(LISTEN, FALSE)
           open == Executed(SNIPPET, FALSE)
           one == <<open>>
           none == <<>>
           Open(here) == IF here THEN one ELSE none
           E == ToSet(r.conditions) \union ToSet(r.steps) \union {open}
           F == {Explicitly(e) : e \in E} \union {listen}
           a == r.conditions \o Open(~r.starts)
           b == a \o r.steps
           steps == b \o Open(~r.waits)
           told == [i \in DOMAIN steps |-> Explicitly(steps[i])]
<1>1. /\ listen.type = "action" /\ listen.hide = FALSE /\ listen.name # NoName
      /\ open.type = "action" /\ open.hide = FALSE /\ open.name # NoName
  BY PoliciesAssumption DEF Executed, ActionNames, SNIPPET, NoName
<1>2. Proper(E)
  BY <1>1, StepsProper DEF Proper
<1>3. Proper(F)
  <2>. HIDE DEF E
  <2>1. \A e \in E : Explicitly(e).type = e.type /\ (e.type \in {"slot", "action"} => Explicitly(e).name = e.name)
                     /\ (e.type = "action" => Explicitly(e) = e)
    BY <1>2, ExplicitlyParts
  <2>. HIDE DEF listen
  <2>. QED  BY <1>1, <1>2, <2>1 DEF Proper
<1>4. steps \in Seq(E)
  <2>1. r.conditions \in Seq(E) /\ r.steps \in Seq(E) /\ one \in Seq(E) /\ none \in Seq(E)
    <3>1. r.conditions \in Seq(ToSet(r.conditions)) /\ r.steps \in Seq(ToSet(r.steps))
      BY StepsProper
    <3>2. r.conditions \in Seq(E) /\ r.steps \in Seq(E)
      <4>1. ToSet(r.conditions) \subseteq E /\ ToSet(r.steps) \subseteq E
        OBVIOUS
      <4>. HIDE DEF E
      <4>. QED  BY <3>1, <4>1, SeqInLarger
    <3>3. open \in E
      OBVIOUS
    <3>. HIDE DEF E, open
    <3>. QED  BY <3>2, <3>3
  <2>. HIDE DEF E, one, none
  <2>2. \A here : Open(here) \in Seq(E)
    BY <2>1
  <2>. HIDE DEF Open
  <2>3. a \in Seq(E)
    BY <2>1, <2>2, ConcatParts
  <2>. HIDE DEF a
  <2>4. b \in Seq(E)
    BY <2>1, <2>3, ConcatParts
  <2>. HIDE DEF b
  <2>. QED  BY <2>2, <2>4, ConcatParts
<1>5. RuleEvents(r) = ExplicitEvents(told)
  BY DEF RuleEvents
<1>6. told \in Seq(F)
  <2>1. \A e \in E : Explicitly(e) \in F
    OBVIOUS
  <2>. HIDE DEF E, F, steps
  <2>. QED  BY <1>4, <2>1
<1>7. ExplicitEvents(told) \in Seq(F)
  <2>1. Executed(LISTEN, FALSE) \in F
    OBVIOUS
  <2>. HIDE DEF F, told
  <2>. QED  BY <1>6, <2>1, ExplicitEventsType
<1>. HIDE DEF F, told
<1>. QED  BY <1>3, <1>5, <1>7 DEF Trains

LEMMA TrackersTrain ==
  ASSUME NEW p \in Projects
  PROVE  /\ IsFiniteSet(RuleTrackers(p)) /\ \A t \in RuleTrackers(p) : Trains(t)
         /\ StoryTrackers(p) \in Seq(ToSet(StoryTrackers(p)))
         /\ IsFiniteSet(ToSet(StoryTrackers(p))) /\ \A t \in ToSet(StoryTrackers(p)) : Trains(t)
<1>1. /\ IsFiniteSet(p.rules) /\ \A r \in p.rules : AreSteps(r.conditions) /\ AreSteps(r.steps)
      /\ p.stories \in Seq(ToSet(p.stories)) /\ \A story \in ToSet(p.stories) : AreSteps(story)
  BY ProjectsAssumption
<1>2. \A t \in RuleTrackers(p) : Trains(t)
  BY <1>1, RulesTrain DEF RuleTrackers
<1>3. IsFiniteSet(RuleTrackers(p))
  <2>. DEFINE f == [r \in p.rules |-> RuleEvents(r)]
  <2>1. IsFiniteSet(DOMAIN f)
    BY <1>1
  <2>2. RuleTrackers(p) = {f[x] : x \in DOMAIN f}
    BY DEF RuleTrackers
  <2>. HIDE DEF f
  <2>. QED  BY <2>1, <2>2, FiniteImage
<1>. DEFINE s == StoryTrackers(p)
           n == Len(p.stories)
<1>4. n \in Nat /\ DOMAIN p.stories = 1 .. n /\ DOMAIN s = 1 .. n
      /\ \A i \in 1 .. n : s[i] = ExplicitEvents(p.stories[i]) /\ AreSteps(p.stories[i])
  <2>1. n \in Nat /\ DOMAIN p.stories = 1 .. n
    BY <1>1
  <2>2. \A i \in 1 .. n : p.stories[i] \in ToSet(p.stories)
    BY <2>1 DEF ToSet
  <2>. QED  BY <1>1, <2>1, <2>2 DEF StoryTrackers
<1>5. s = [i \in 1 .. n |-> s[i]]
  BY <1>4 DEF StoryTrackers
<1>. HIDE DEF s, n
<1>6. ToSet(s) = {s[i] : i \in 1 .. n}
  BY <1>4 DEF ToSet
<1>7. s \in Seq(ToSet(s))
  BY <1>4, <1>5, <1>6
<1>8. IsFiniteSet(ToSet(s))
  <2>1. IsFiniteSet(DOMAIN s)
    BY <1>4, FS_Interval
  <2>2. ToSet(s) = {s[x] : x \in DOMAIN s}
    BY DEF ToSet
  <2>. QED  BY <2>1, <2>2, FiniteImage
<1>9. \A t \in ToSet(s) : Trains(t)
  BY <1>4, <1>6, StoriesTrain
<1>. QED  BY <1>2, <1>3, <1>7, <1>8, <1>9 DEF s

-----------------------------------------------------------------------------
(* Examples.                                                                *)

\* Finitely many trackers give finitely many examples.
LEMMA ExamplesFinite ==
  ASSUME NEW t, Trains(t), NEW n
  PROVE  IsFiniteSet(Examples(t, n))
<1>. DEFINE applied == AppliedEvents(t)
           states == StatesForTrackerHistory(applied)
           Before(i) == Cardinality({j \in 1 .. i : applied[j].type = "action"})
           X(i) == [states |-> Slice(SubSeq(states, 1, Before(i)), n), action |-> applied[i].name]
           D == {j \in DOMAIN applied : Predictable(applied, j)}
           f == [i \in D |-> X(i)]
<1>1. IsFiniteSet(D)
  <2>1. PICK E : Proper(E) /\ t \in Seq(E)
    BY DEF Trains
  <2>2. applied \in Seq(E)
    BY <2>1, TrainsApplied
  <2>. HIDE DEF applied
  <2>3. Len(applied) \in Nat /\ DOMAIN applied = 1 .. Len(applied)
    BY <2>2
  <2>4. IsFiniteSet(1 .. Len(applied))
    BY <2>3, FS_Interval
  <2>. QED  BY <2>3, <2>4, FS_Subset
<1>2. Examples(t, n) = {X(i) : i \in D}
  BY Zenon DEF Examples
<1>. HIDE DEF X, D
<1>3. Examples(t, n) = {f[x] : x \in DOMAIN f}
  BY <1>2
<1>4. IsFiniteSet(DOMAIN f)
  BY <1>1
<1>. HIDE DEF f
<1>. QED  BY <1>3, <1>4, FiniteImage

LEMMA ExamplesOfFinite ==
  ASSUME NEW trackers, IsFiniteSet(trackers), \A t \in trackers : Trains(t), NEW n
  PROVE  IsFiniteSet(ExamplesOf(trackers, n))
<1>. DEFINE f == [t \in trackers |-> Examples(t, n)]
           S == {Examples(t, n) : t \in trackers}
<1>1. IsFiniteSet(S)
  <2>1. IsFiniteSet(DOMAIN f) /\ S = {f[x] : x \in DOMAIN f}
    OBVIOUS
  <2>. HIDE DEF f, S
  <2>. QED  BY <2>1, FiniteImage
<1>2. \A s \in S : IsFiniteSet(s)
  BY ExamplesFinite
<1>3. ExamplesOf(trackers, n) = UNION S
  BY DEF ExamplesOf
<1>. HIDE DEF S
<1>. QED  BY <1>1, <1>2, <1>3, FiniteUnion

\* An example has the states before some action of a tracker, and that action.
LEMMA ExampleParts ==
  ASSUME NEW trackers, \A t \in trackers : Trains(t), NEW x \in ExamplesOf(trackers, 0)
  PROVE  \E V : x.states \in Seq([Features -> V]) /\ Len(x.states) > 0
<1>1. PICK t \in trackers : x \in Examples(t, 0)
  BY DEF ExamplesOf
<1>. DEFINE applied == AppliedEvents(t)
           states == StatesForTrackerHistory(applied)
           Before(i) == Cardinality({j \in 1 .. i : applied[j].type = "action"})
           X(i) == [states |-> Slice(SubSeq(states, 1, Before(i)), 0), action |-> applied[i].name]
           D == {j \in DOMAIN applied : Predictable(applied, j)}
<1>2. PICK i \in D : x = X(i)
  <2>1. Examples(t, 0) = {X(i) : i \in D}
    BY Zenon DEF Examples
  <2>. HIDE DEF X, D
  <2>. QED  BY <1>1, <2>1
<1>3. PICK E : Proper(E) /\ t \in Seq(E)
  BY DEF Trains
<1>4. applied \in Seq(E)
  BY <1>3, TrainsApplied
<1>5. x.states = SubSeq(states, 1, Before(i))
  BY <1>2 DEF Slice
<1>6. i \in 1 .. Len(applied) /\ Acts(applied, i)
  BY <1>2, <1>4 DEF Predictable, Acts
<1>. DEFINE pre == SubSeq(applied, 1, i - 1)
<1>. HIDE DEF applied
<1>7. x.states = StatesForTrackerHistory(pre)
  BY <1>3, <1>4, <1>5, <1>6, ExampleBefore
<1>8. pre \in Seq(E)
  BY <1>4, <1>6, PrefixByPrefix
<1>. HIDE DEF pre
<1>9. x.states \in Seq([Features -> Values(E)]) /\ Len(x.states) > 0
  <2>1. /\ StatesForTrackerHistory(pre) \in Seq([Features -> Values(E)])
        /\ Len(StatesForTrackerHistory(pre)) = Len(Befores(pre).prior) + 1
        /\ Len(Befores(pre).prior) \in Nat
    BY <1>3, <1>8, StatesParts
  <2>. QED  BY <1>7, <2>1
<1>. QED  BY <1>9

\* The example that an action of a tracker makes.
LEMMA ExampleMade ==
  ASSUME NEW E, Proper(E), NEW t \in Seq(E), NEW k \in DOMAIN AppliedEvents(t), Predictable(AppliedEvents(t), k)
  PROVE  [states |-> StatesForTrackerHistory(SubSeq(AppliedEvents(t), 1, k - 1)),
          action |-> AppliedEvents(t)[k].name] \in Examples(t, 0)
<1>. DEFINE applied == AppliedEvents(t)
           states == StatesForTrackerHistory(applied)
           Before(i) == Cardinality({j \in 1 .. i : applied[j].type = "action"})
           X(i) == [states |-> Slice(SubSeq(states, 1, Before(i)), 0), action |-> applied[i].name]
           D == {j \in DOMAIN applied : Predictable(applied, j)}
<1>1. Examples(t, 0) = {X(i) : i \in D}
  BY Zenon DEF Examples
<1>2. k \in D
  OBVIOUS
<1>3. X(k) \in Examples(t, 0)
  <2>. HIDE DEF X, D
  <2>. QED  BY <1>1, <1>2
<1>4. applied \in Seq(E)
  BY TrainsApplied
<1>5. k \in 1 .. Len(applied) /\ Acts(applied, k)
  BY <1>2, <1>4 DEF Predictable, Acts
<1>6. SubSeq(states, 1, Before(k)) = StatesForTrackerHistory(SubSeq(applied, 1, k - 1))
  <2>. HIDE DEF applied
  <2>. QED  BY <1>4, <1>5, ExampleBefore
<1>7. X(k) = [states |-> StatesForTrackerHistory(SubSeq(applied, 1, k - 1)), action |-> applied[k].name]
  <2>. HIDE DEF states
  <2>. QED  BY <1>6 DEF Slice
<1>. QED  BY <1>3, <1>7

-----------------------------------------------------------------------------
(* Keys, and what they are looked up for.                                   *)

\* A key has the last of the states, and something but for a "..." at their end.
LEMMA FeatureKeyParts ==
  ASSUME NEW V, NEW s \in Seq(V), Len(s) > 0
  PROVE  LET key == FeatureKey(s)
         IN  /\ key \in Seq(V) /\ Len(key) =< Len(s)
             /\ \A i \in 0 .. Len(key) - 1 : key[Len(key) - i] = s[Len(s) - i]
             /\ Last(s)[PREVIOUS_ACTION] # SNIPPET => Len(key) > 0
<1>. DEFINE n == Len(s)
           I == {i \in 1 .. n : s[i][PREVIOUS_ACTION] = SNIPPET}
           m == IF I # {} THEN Max(I) ELSE 0
           key == SubSeq(s, m + 1, n)
<1>1. n \in Nat /\ I \in SUBSET (1 .. n)
  OBVIOUS
<1>2. m \in 0 .. n /\ (m > 0 => m \in I)
  <2>. HIDE DEF I, n
  <2>. QED  BY <1>1, LastIndex
<1>3. FeatureKey(s) = key
  BY DEF FeatureKey, SelectLastInSeq
<1>4. Last(s) = s[n]
  BY DEF Last
<1>5. Last(s)[PREVIOUS_ACTION] # SNIPPET => m < n
  BY <1>1, <1>2, <1>4
<1>. HIDE DEF m
<1>6. /\ key \in Seq(V) /\ Len(key) = n - m
      /\ \A j \in 1 .. n - m : key[j] = s[m + j]
  BY <1>1, <1>2
<1>. HIDE DEF key, I
<1>7. \A i \in 0 .. Len(key) - 1 : key[Len(key) - i] = s[n - i]
  <2>. TAKE i \in 0 .. Len(key) - 1
  <2>1. (n - m) - i \in 1 .. n - m /\ m + ((n - m) - i) = n - i
    BY <1>1, <1>2, <1>6
  <2>2. key[(n - m) - i] = s[m + ((n - m) - i)]
    BY <1>6, <2>1
  <2>. QED  BY <1>6, <2>1, <2>2
<1>8. Len(key) =< n /\ (Last(s)[PREVIOUS_ACTION] # SNIPPET => Len(key) > 0)
  BY <1>1, <1>2, <1>5, <1>6
<1>. QED  BY <1>3, <1>6, <1>7, <1>8

\* What is looked up was taught by an example.
LEMMA LookupFromStatesParts ==
  ASSUME NEW X
  PROVE  /\ \A key \in DOMAIN LookupFromStates(X) :
              key # <<>> /\ \E x \in X : x.states = key /\ x.action = LookupFromStates(X)[key]
         /\ IsFiniteSet(X) => IsFiniteSet(DOMAIN LookupFromStates(X))
<1>. DEFINE Taught(key) == {x.action : x \in {y \in X : y.states = key}}
           S == {x.states : x \in X}
           keys == {key \in S \ {<<>>} : Cardinality(Taught(key)) = 1}
<1>1. LookupFromStates(X) = [key \in keys |-> CHOOSE action \in Taught(key) : TRUE]
  BY DEF LookupFromStates
<1>2. ASSUME NEW key \in keys
      PROVE  key # <<>> /\ \E x \in X : x.states = key /\ x.action = LookupFromStates(X)[key]
  <2>1. Taught(key) # {}
    <3>1. Cardinality(Taught(key)) = 1
      OBVIOUS
    <3>2. Cardinality({}) = 0
      BY FS_EmptySet
    <3>. HIDE DEF Taught
    <3>3. ASSUME Taught(key) = {} PROVE Cardinality(Taught(key)) = 0
      BY <3>2, <3>3, Zenon
    <3>4. 0 # 1
      OBVIOUS
    <3>. QED  BY <3>1, <3>3, <3>4, Zenon
  <2>2. LookupFromStates(X)[key] = CHOOSE action \in Taught(key) : TRUE
    <3>. HIDE DEF keys, Taught
    <3>. QED  BY <1>1
  <2>3. LookupFromStates(X)[key] \in Taught(key)
    <3>. HIDE DEF Taught
    <3>. QED  BY <2>1, <2>2
  <2>. QED  BY <2>3
<1>3. ASSUME IsFiniteSet(X) PROVE IsFiniteSet(keys)
  <2>. DEFINE f == [x \in X |-> x.states]
  <2>1. IsFiniteSet(DOMAIN f) /\ S = {f[x] : x \in DOMAIN f}
    BY <1>3
  <2>2. IsFiniteSet(S)
    <3>. HIDE DEF f, S
    <3>. QED  BY <2>1, FiniteImage
  <2>3. keys \in SUBSET S
    OBVIOUS
  <2>. HIDE DEF keys, S
  <2>. QED  BY <2>2, <2>3, FS_Subset
<1>. HIDE DEF keys
<1>4. DOMAIN LookupFromStates(X) = keys
  BY <1>1
<1>. QED  BY <1>2, <1>3, <1>4

\* A rule that is looked up is one that an example taught.
LEMMA RuleTaught ==
  ASSUME NEW p \in Projects
  PROVE  LET rules == LookupFromTrackers(p).rules
         IN  /\ IsFiniteSet(DOMAIN rules)
             /\ \A key \in DOMAIN rules :
                  key # <<>> /\ \E x \in ExamplesOf(RuleTrackers(p), 0) :
                                   FeatureKey(x.states) = key /\ x.action = rules[key]
<1>. DEFINE Ex == ExamplesOf(RuleTrackers(p), 0)
           Cut(x) == [x EXCEPT !.states = FeatureKey(@)]
           X == {Cut(x) : x \in Ex}
           all == LookupFromStates(X)
           rules == [key \in {k \in DOMAIN all : all[k] # SNIPPET} |-> all[key]]
<1>1. LookupFromTrackers(p).rules = rules
  BY DEF LookupFromTrackers
<1>2. IsFiniteSet(X)
  <2>1. IsFiniteSet(Ex)
    BY TrackersTrain, ExamplesOfFinite
  <2>. DEFINE f == [x \in Ex |-> Cut(x)]
  <2>2. IsFiniteSet(DOMAIN f) /\ X = {f[x] : x \in DOMAIN f}
    <3>. HIDE DEF Ex, Cut
    <3>. QED  BY <2>1
  <2>. HIDE DEF f, X
  <2>. QED  BY <2>2, FiniteImage
<1>3. \A x \in Ex : Cut(x).states = FeatureKey(x.states) /\ Cut(x).action = x.action
  <2>. TAKE x \in Ex
  <2>1. \E s, a : x = [states |-> s, action |-> a]
    <3>1. PICK t \in RuleTrackers(p) : x \in Examples(t, 0)
      BY DEF ExamplesOf
    <3>. QED  BY <3>1 DEF Examples
  <2>2. PICK s, a : x = [states |-> s, action |-> a]
    BY <2>1
  <2>. QED  BY <2>2
<1>. HIDE DEF X
<1>4. DOMAIN rules \in SUBSET DOMAIN all /\ \A key \in DOMAIN rules : rules[key] = all[key]
  OBVIOUS
<1>. HIDE DEF rules
<1>5. IsFiniteSet(DOMAIN rules)
  <2>1. IsFiniteSet(DOMAIN all)
    BY <1>2, LookupFromStatesParts
  <2>. HIDE DEF all
  <2>. QED  BY <1>4, <2>1, FS_Subset
<1>6. ASSUME NEW key \in DOMAIN rules
      PROVE  key # <<>> /\ \E x \in Ex : FeatureKey(x.states) = key /\ x.action = rules[key]
  <2>1. key \in DOMAIN all /\ rules[key] = all[key]
    BY <1>4
  <2>2. key # <<>> /\ \E y \in X : y.states = key /\ y.action = all[key]
    BY <2>1, LookupFromStatesParts
  <2>3. PICK y \in X : y.states = key /\ y.action = all[key]
    BY <2>2
  <2>4. PICK x \in Ex : y = Cut(x)
    BY DEF X
  <2>5. FeatureKey(x.states) = key /\ x.action = all[key]
    <3>. HIDE DEF Cut, all, Ex
    <3>. QED  BY <1>3, <2>3, <2>4
  <2>. QED  BY <2>1, <2>2, <2>5
<1>. QED  BY <1>1, <1>5, <1>6

-----------------------------------------------------------------------------
(* Which keys apply.                                                        *)

\* A rule for a bot that listens was taught by an example of one.
LEMMA ApplicableListening ==
  ASSUME NEW V, NEW states \in Seq([Features -> V]), Len(states) > 0,
         Last(states)[PREVIOUS_ACTION] = LISTEN,
         NEW key, NEW W, key \in Seq(W), Len(key) > 0, Applicable(key, states)
  PROVE  Last(key)[PREVIOUS_ACTION] = LISTEN
<1>. DEFINE rule == key[Len(key) - 0]
           state == states[Len(states) - 0]
<1>1. rule = Last(key) /\ state = Last(states) /\ Len(key) \in Nat /\ Len(states) \in Nat
  BY DEF Last
<1>2. IF NoName \in {rule[PREVIOUS_ACTION], state[PREVIOUS_ACTION]}
        THEN rule[PREVIOUS_ACTION] = state[PREVIOUS_ACTION] ELSE MatchesState(rule, state)
  <2>1. 0 \in 0 .. Len(states) - 1 /\ ~(0 >= Len(key))
    BY <1>1
  <2>. QED  BY <2>1 DEF Applicable
<1>. HIDE DEF rule, state
<1>3. LISTEN # NoName /\ Set(LISTEN) /\ state[PREVIOUS_ACTION] = LISTEN
  BY <1>1 DEF Set, LISTEN, NoName, SHOULD_NOT_BE_SET
<1>4. CASE rule[PREVIOUS_ACTION] = NoName
  BY <1>2, <1>3, <1>4
<1>5. CASE rule[PREVIOUS_ACTION] # NoName
  <2>1. MatchesState(rule, state) /\ PREVIOUS_ACTION \in Features
    BY <1>2, <1>3, <1>5 DEF Features
  <2>2. \/ rule[PREVIOUS_ACTION] = NoName
        \/ rule[PREVIOUS_ACTION] = SHOULD_NOT_BE_SET /\ ~Set(state[PREVIOUS_ACTION])
        \/ state[PREVIOUS_ACTION] = rule[PREVIOUS_ACTION]
    BY <2>1 DEF MatchesState
  <2>3. CASE rule[PREVIOUS_ACTION] = SHOULD_NOT_BE_SET
    <3>1. ~Set(state[PREVIOUS_ACTION]) \/ state[PREVIOUS_ACTION] = rule[PREVIOUS_ACTION]
      BY <1>5, <2>2, Zenon
    <3>2. state[PREVIOUS_ACTION] = LISTEN /\ LISTEN \notin {NoName, SHOULD_NOT_BE_SET}
      BY <1>3, Zenon DEF Set
    <3>. QED  BY <2>3, <3>1, <3>2, Zenon DEF Set
  <2>4. CASE rule[PREVIOUS_ACTION] # SHOULD_NOT_BE_SET
    <3>1. rule[PREVIOUS_ACTION] = LISTEN
      BY <1>3, <1>5, <2>2, <2>4
    <3>. QED  BY <1>1, <3>1, Zenon
  <2>. QED  BY <2>3, <2>4
<1>. QED  BY <1>4, <1>5

\* A rule matches a state that has what the rule has, if anything.
LEMMA MatchesNothing ==
  ASSUME NEW a, NEW b, a = NoName
  PROVE  (CASE a = NoName -> TRUE [] a = SHOULD_NOT_BE_SET -> ~Set(b) [] OTHER -> b = a)
BY DEF NoName, SHOULD_NOT_BE_SET

LEMMA MatchesSame ==
  ASSUME NEW a, NEW b, a = b
  PROVE  (CASE a = NoName -> TRUE [] a = SHOULD_NOT_BE_SET -> ~Set(b) [] OTHER -> b = a)
BY DEF Set

LEMMA MatchesIfSame ==
  ASSUME NEW rule, NEW state, \A f \in Features : rule[f] = NoName \/ rule[f] = state[f]
  PROVE  MatchesState(rule, state)
<1>. DEFINE Fits(a, b) == CASE a = NoName -> TRUE [] a = SHOULD_NOT_BE_SET -> ~Set(b) [] OTHER -> b = a
<1>3. \A a, b : a = NoName \/ a = b => Fits(a, b)
  BY MatchesNothing, MatchesSame, Zenon
<1>4. MatchesState(rule, state) <=> \A f \in Features : Fits(rule[f], state[f])
  BY Zenon DEF MatchesState
<1>. HIDE DEF Fits
<1>. QED  BY <1>3, <1>4, Zenon

\* What is asked whether a form goes on applies to the states it is made of.
LEMMA UnhappyKeyApplies ==
  ASSUME NEW V, NEW states \in Seq([Features -> V]), Len(states) > 0,
         Last(states)[PREVIOUS_ACTION] = LISTEN
  PROVE  LET key == FeatureKey(UnhappyKey(states))
         IN  key # <<>> /\ Applicable(key, states)
<1>. DEFINE n == Len(states)
           last == states[n]
           before == states[n - 1]
           Did(s) == [f \in Features |-> IF f = PREVIOUS_ACTION THEN s[f] ELSE NoName]
           one == <<last>>
           two == <<Did(before), last>>
           u == UnhappyKey(states)
           key == FeatureKey(u)
           W == [Features -> V \union {NoName}]
<1>1. n \in Nat /\ n > 0 /\ Last(states) = last /\ last \in W /\ last[PREVIOUS_ACTION] = LISTEN
  BY DEF Last
<1>2. LISTEN # NoName /\ LISTEN # SNIPPET
  BY DEF LISTEN, NoName, SNIPPET
<1>3. u = IF n = 1 \/ before[PREVIOUS_ACTION] = NoName THEN one ELSE two
  BY DEF UnhappyKey
<1>4. n # 1 => before \in [Features -> V] /\ Did(before) \in W
  <2>. SUFFICES ASSUME n # 1 PROVE before \in [Features -> V] /\ Did(before) \in W
    OBVIOUS
  <2>1. n - 1 \in 1 .. n
    <3>1. n \in Nat /\ n > 0
      BY <1>1
    <3>. HIDE DEF n
    <3>. QED  BY <3>1
  <2>2. before \in [Features -> V]
    BY <2>1
  <2>. HIDE DEF before
  <2>3. \A f \in Features : (IF f = PREVIOUS_ACTION THEN before[f] ELSE NoName) \in V \union {NoName}
    BY <2>2
  <2>. QED  BY <2>2, <2>3
<1>5. /\ u \in Seq(W) /\ Len(u) \in {1, 2} /\ u[Len(u)] = last
      /\ Len(u) = 2 => n > 1 /\ before[PREVIOUS_ACTION] # NoName /\ u[1] = Did(before)
  <2>1. CASE n = 1 \/ before[PREVIOUS_ACTION] = NoName
    <3>1. u = one
      BY <1>3, <2>1
    <3>2. one \in Seq(W) /\ Len(one) = 1 /\ one[1] = last
      <4>. HIDE DEF last, W
      <4>. QED  BY <1>1
    <3>. HIDE DEF one, u
    <3>. QED  BY <3>1, <3>2
  <2>2. CASE ~(n = 1 \/ before[PREVIOUS_ACTION] = NoName)
    <3>1. u = two /\ n > 1
      <4>1. u = two
        <5>. HIDE DEF u, one, two, before, n
        <5>. QED  BY <1>3, <2>2
      <4>2. n > 1
        <5>. HIDE DEF n
        <5>. QED  BY <1>1, <2>2
      <4>. QED  BY <4>1, <4>2
    <3>2. two \in Seq(W) /\ Len(two) = 2 /\ two[1] = Did(before) /\ two[2] = last
      <4>1. Did(before) \in W
        BY <1>4, <2>2
      <4>. HIDE DEF last, W, Did
      <4>. QED  BY <1>1, <4>1
    <3>. HIDE DEF two, u
    <3>. QED  BY <2>2, <3>1, <3>2
  <2>. QED  BY <2>1, <2>2
<1>. HIDE DEF u, W, last, before
<1>6. /\ key \in Seq(W) /\ Len(key) =< Len(u) /\ Len(key) > 0
      /\ \A i \in 0 .. Len(key) - 1 : key[Len(key) - i] = u[Len(u) - i]
  <2>1. Last(u) = last /\ Last(u)[PREVIOUS_ACTION] # SNIPPET /\ Len(u) > 0
    <3>1. Len(u) > 0 /\ Last(u) = u[Len(u)]
      <4>1. Last(u) = u[Len(u)]
        BY Zenon DEF Last
      <4>2. 1 > 0 /\ 2 > 0
        OBVIOUS
      <4>3. Len(u) = 1 \/ Len(u) = 2
        BY <1>5
      <4>. QED  BY <4>1, <4>2, <4>3, Zenon
    <3>. QED  BY <1>1, <1>2, <1>5, <3>1
  <2>. QED  BY <1>5, <2>1, FeatureKeyParts
<1>. HIDE DEF key
<1>7. ASSUME NEW i \in 0 .. n - 1, ~(i >= Len(key))
      PROVE  LET rule == key[Len(key) - i]
                 state == states[n - i]
             IN  IF NoName \in {rule[PREVIOUS_ACTION], state[PREVIOUS_ACTION]}
                   THEN rule[PREVIOUS_ACTION] = state[PREVIOUS_ACTION]
                   ELSE MatchesState(rule, state)
  <2>1. i \in {0, 1} /\ i \in 0 .. Len(key) - 1 /\ key[Len(key) - i] = u[Len(u) - i] /\ (i = 1 => Len(u) = 2)
    BY <1>1, <1>5, <1>6, <1>7
  <2>2. CASE i = 0
    <3>1. key[Len(key) - i] = last /\ states[n - i] = last
      BY <1>1, <1>5, <2>1, <2>2 DEF last
    <3>. QED  BY <3>1, MatchesIfSame
  <2>3. CASE i = 1
    <3>1. key[Len(key) - i] = Did(before) /\ states[n - i] = before /\ before[PREVIOUS_ACTION] # NoName
      <4>1. Len(u) = 2 /\ u[1] = Did(before) /\ before[PREVIOUS_ACTION] # NoName
        <5>. HIDE DEF Did
        <5>. QED  BY <1>5, <2>1, <2>3
      <4>2. Len(u) - i = 1
        BY <2>3, <4>1
      <4>3. key[Len(key) - i] = u[1]
        BY <2>1, <4>2
      <4>4. states[n - i] = before
        BY <2>3 DEF before
      <4>. HIDE DEF Did
      <4>. QED  BY <4>1, <4>3, <4>4
    <3>2. Did(before)[PREVIOUS_ACTION] = before[PREVIOUS_ACTION]
      BY DEF Features
    <3>3. MatchesState(Did(before), before)
      <4>1. \A f \in Features : Did(before)[f] = IF f = PREVIOUS_ACTION THEN before[f] ELSE NoName
        OBVIOUS
      <4>. DEFINE d == Did(before)
      <4>. HIDE DEF d
      <4>2. \A f \in Features : d[f] = NoName \/ d[f] = before[f]
        BY <4>1 DEF d
      <4>3. MatchesState(d, before)
        BY <4>2, MatchesIfSame
      <4>. QED  BY <4>3 DEF d
    <3>. HIDE DEF Did
    <3>. QED  BY <3>1, <3>2, <3>3
  <2>. QED  BY <2>1, <2>2, <2>3
<1>8. Applicable(key, states)
  BY <1>7 DEF Applicable
<1>9. key # <<>>
  BY <1>6
<1>. QED  BY <1>8, <1>9 DEF key, u

-----------------------------------------------------------------------------
(* Trying the rules on stories and rules only takes rules away.             *)

\* Some of the rules are left, and they are as they were.
RulesWithin(rules, old) == DOMAIN rules \subseteq DOMAIN old /\ \A key \in DOMAIN rules : rules[key] = old[key]
HasRules(r, old) == /\ "lookup" \in DOMAIN r /\ "rules" \in DOMAIN r.lookup
                    /\ RulesWithin(r.lookup.rules, old)

LEMMA HasRulesOtherwise ==
  ASSUME NEW r, NEW old, HasRules(r, old), NEW v
  PROVE  /\ HasRules([r EXCEPT !.t = v], old) /\ HasRules([r EXCEPT !.unpredictable = v], old)
         /\ HasRules([r EXCEPT !.collected = v], old) /\ HasRules([r EXCEPT !.used = v], old)
         /\ HasRules([r EXCEPT !.contradicts = v], old)
BY DEF HasRules

\* _check_prediction deletes a rule at most.
LEMMA CheckPredictionRules ==
  ASSUME NEW run, NEW old, HasRules(run, old), NEW p, NEW gold, NEW isRule, NEW sources
  PROVE  HasRules(CheckPrediction(run, p, gold, isRule, sources), old)
<1>. DEFINE rules == run.lookup.rules
           left == [key \in DOMAIN rules \ {p.source.key} |-> rules[key]]
           differs == p.action \notin {NoName, gold}
           deletes == differs /\ ShouldDelete(run.lookup.rules, p, isRule)
           used == IF ~isRule /\ p.action = gold THEN {p.source} ELSE {}
           con == differs /\ ~deletes /\ \E action \in ActionNames : action # gold /\ <<p.source, action>> \in sources
           new == IF deletes THEN left ELSE rules
           r1 == [run EXCEPT !.used = run.used \union used]
           r2 == [r1 EXCEPT !.lookup.rules = new]
           r3 == [r2 EXCEPT !.contradicts = run.contradicts \/ con]
<1>1. RulesWithin(new, old)
  BY DEF HasRules, RulesWithin
<1>2. HasRules(r1, old)
  BY HasRulesOtherwise
<1>3. \E u, c : CheckPrediction(run, p, gold, isRule, sources)
        = [run EXCEPT !.used = u, !.lookup.rules = new, !.contradicts = c]
  BY DEF CheckPrediction
<1>. HIDE DEF new
<1>4. PICK u, c : CheckPrediction(run, p, gold, isRule, sources)
        = [run EXCEPT !.used = u, !.lookup.rules = new, !.contradicts = c]
  BY <1>3
<1>5. HasRules([run EXCEPT !.used = u, !.lookup.rules = new, !.contradicts = c], old)
  BY <1>1 DEF HasRules
<1>. QED  BY <1>4, <1>5

\* _run_prediction_on_trackers, event by event.
RunStep(r, e, isRule, sources, order) ==
  LET Checked(q, p) == [CheckPrediction(q, p.by, e.name, isRule, sources)
                          EXCEPT !.collected = @ \union {Collected(p.by, e.name)}, !.t = p.t]
      Predicting ==
        IF e.type # "action" THEN r
        ELSE IF r.unpredictable \/ e.name = SNIPPET THEN [r EXCEPT !.unpredictable = e.name = SNIPPET]
        ELSE Checked(r, PredictedActionName(r.lookup, r.t, e.name, isRule, order))
  IN  [Predicting EXCEPT !.t = UpdateDialogue(@, e)]

LEMMA RunStepRules ==
  ASSUME NEW r, NEW old, HasRules(r, old), NEW e, NEW isRule, NEW sources, NEW order
  PROVE  HasRules(RunStep(r, e, isRule, sources, order), old)
<1>. DEFINE p == PredictedActionName(r.lookup, r.t, e.name, isRule, order)
           c == CheckPrediction(r, p.by, e.name, isRule, sources)
           d == [c EXCEPT !.collected = @ \union {Collected(p.by, e.name)}, !.t = p.t]
           f == [r EXCEPT !.unpredictable = e.name = SNIPPET]
           q == IF e.type # "action" THEN r ELSE IF r.unpredictable \/ e.name = SNIPPET THEN f ELSE d
<1>1. HasRules(c, old)
  BY CheckPredictionRules
<1>2. HasRules(d, old)
  <2>. HIDE DEF c, p
  <2>. QED  BY <1>1 DEF HasRules
<1>3. HasRules(f, old)
  BY HasRulesOtherwise
<1>4. HasRules(q, old)
  <2>. HIDE DEF d, f
  <2>. QED  BY <1>2, <1>3
<1>5. RunStep(r, e, isRule, sources, order) = [q EXCEPT !.t = UpdateDialogue(@, e)]
  BY Zenon DEF RunStep
<1>. HIDE DEF q
<1>6. HasRules([q EXCEPT !.t = UpdateDialogue(@, e)], old)
  BY <1>4 DEF HasRules
<1>. QED  BY <1>5, <1>6

\* By induction on the events, and on the trackers: these runs are not of a set,
\* hence functions, that Lemmas could go through.
LEMMA RunPredictionRules ==
  ASSUME NEW run, NEW old, HasRules(run, old), NEW tracker, Trains(tracker), NEW isRule, NEW sources, NEW order
  PROVE  HasRules(RunPrediction(run, tracker, isRule, sources, order), old)
<1>. DEFINE es == AppliedEvents(tracker)
<1>0. Len(es) \in Nat
  <2>1. PICK E : Proper(E) /\ tracker \in Seq(E)
    BY DEF Trains
  <2>2. es \in Seq(E)
    BY <2>1, TrainsApplied
  <2>. HIDE DEF es
  <2>. QED  BY <2>2
<1>. DEFINE Step(a, e) == RunStep(a, e, isRule, sources, order)
           base == [run EXCEPT !.t = [events |-> <<>>, state |-> Fresh], !.unpredictable = TRUE]
           Fold(h, n) == h = [i \in 0 .. n |-> IF i = 0 THEN base ELSE Step(h[i - 1], es[i])]
           Folds == {n \in 0 .. Len(es) : \E h : Fold(h, n)}
<1>1. HasRules(base, old)
  BY DEF HasRules
<1>2. ASSUME NEW r, HasRules(r, old), NEW i \in 1 .. Len(es) PROVE HasRules(Step(r, es[i]), old)
  BY <1>2, RunStepRules
<1>3. RunPrediction(run, tracker, isRule, sources, order) = (CHOOSE h : Fold(h, Len(es)))[Len(es)]
  BY Zenon DEF RunPrediction, RunStep, Through
<1>. HIDE DEF Step, base, es
<1>4. 0 \in Folds
  <2>1. Fold([i \in 0 .. 0 |-> base], 0)
    OBVIOUS
  <2>2. 0 \in 0 .. Len(es)
    BY <1>0
  <2>. HIDE DEF Fold
  <2>. QED  BY <2>1, <2>2
<1>5. ASSUME NEW n \in 1 .. Len(es), n - 1 \in Folds PROVE n \in Folds
  <2>1. PICK g : Fold(g, n - 1)
    BY <1>5
  <2>. DEFINE h == [i \in 0 .. n |-> IF i = n THEN Step(g[n - 1], es[n]) ELSE g[i]]
  <2>2. ASSUME NEW i \in 0 .. n PROVE h[i] = IF i = 0 THEN base ELSE Step(h[i - 1], es[i])
    <3>1. CASE i = n
      <4>1. h[i] = Step(g[n - 1], es[n]) /\ n # 0 /\ n - 1 \in 0 .. n /\ n - 1 # n
        BY <3>1
      <4>2. h[n - 1] = g[n - 1]
        BY <4>1
      <4>. HIDE DEF h
      <4>. QED  BY <3>1, <4>1, <4>2
    <3>2. CASE i # n
      <4>1. i \in 0 .. n - 1 /\ h[i] = g[i] /\ (i # 0 => i - 1 \in 0 .. n /\ i - 1 # n)
        BY <3>2
      <4>2. i # 0 => h[i - 1] = g[i - 1]
        BY <4>1
      <4>3. g[i] = IF i = 0 THEN base ELSE Step(g[i - 1], es[i])
        <5>. HIDE DEF h
        <5>. QED  BY <2>1, <4>1
      <4>. HIDE DEF h
      <4>. QED  BY <4>1, <4>2, <4>3
    <3>. QED  BY <3>1, <3>2
  <2>3. Fold(h, n)
    <3>1. h = [i \in 0 .. n |-> h[i]]
      OBVIOUS
    <3>. HIDE DEF h
    <3>. QED  BY <2>2, <3>1
  <2>4. n \in 0 .. Len(es)
    BY <1>0
  <2>. HIDE DEF Fold, h
  <2>. QED  BY <2>3, <2>4
<1>6. PICK h : h = (CHOOSE g : Fold(g, Len(es))) /\ Fold(h, Len(es))
  <2>1. \A n \in 0 .. Len(es) : n \in Folds
    <3>. HIDE DEF Folds
    <3>. QED  BY <1>0, <1>4, <1>5, InductionUpTo
  <2>2. Len(es) \in Folds
    <3>. HIDE DEF Folds
    <3>. QED  BY <1>0, <2>1
  <2>. HIDE DEF Fold
  <2>. QED  BY <2>2
<1>. DEFINE Going == {i \in 0 .. Len(es) : HasRules(h[i], old)}
<1>7. 0 \in Going
  <2>1. h[0] = base /\ 0 \in 0 .. Len(es)
    BY <1>0, <1>6
  <2>. QED  BY <1>1, <2>1, Zenon
<1>8. ASSUME NEW i \in 1 .. Len(es), i - 1 \in Going PROVE i \in Going
  <2>1. i \in 0 .. Len(es) /\ i # 0
    BY <1>0
  <2>1a. h[i] = Step(h[i - 1], es[i])
    BY <1>6, <2>1
  <2>2. HasRules(h[i - 1], old)
    BY <1>8
  <2>3. HasRules(Step(h[i - 1], es[i]), old)
    BY <1>2, <2>2, Zenon
  <2>. QED  BY <2>1, <2>1a, <2>3, Zenon
<1>9. HasRules(h[Len(es)], old)
  <2>1. \A n \in 0 .. Len(es) : n \in Going
    <3>. HIDE DEF Going
    <3>. QED  BY <1>0, <1>7, <1>8, InductionUpTo
  <2>2. Len(es) \in 0 .. Len(es)
    BY <1>0
  <2>3. Len(es) \in Going
    <3>. HIDE DEF Going
    <3>. QED  BY <2>1, <2>2
  <2>. QED  BY <2>3, Zenon
<1>. HIDE DEF Fold
<1>. QED  BY <1>3, <1>6, <1>9

LEMMA RunsOverRules ==
  ASSUME NEW lookup, "rules" \in DOMAIN lookup, NEW es, Len(es) \in Nat,
         \A i \in 1 .. Len(es) : Trains(es[i].events), NEW sources, NEW order
  PROVE  HasRules(RunPredictions(es, lookup, sources, order), lookup.rules)
<1>. DEFINE old == lookup.rules
<1>. DEFINE Step(a, e) == RunPrediction(a, e.events, e.isRule, sources, order)
           base == [t |-> [events |-> <<>>, state |-> Fresh], unpredictable |-> TRUE, lookup |-> lookup,
                    collected |-> {}, used |-> {}, contradicts |-> FALSE]
           Fold(h, n) == h = [i \in 0 .. n |-> IF i = 0 THEN base ELSE Step(h[i - 1], es[i])]
           Folds == {n \in 0 .. Len(es) : \E h : Fold(h, n)}
<1>1. HasRules(base, old)
  BY DEF HasRules, RulesWithin
<1>2. ASSUME NEW r, HasRules(r, old), NEW i \in 1 .. Len(es) PROVE HasRules(Step(r, es[i]), old)
  BY <1>2, RunPredictionRules
<1>3. RunPredictions(es, lookup, sources, order) = (CHOOSE h : Fold(h, Len(es)))[Len(es)]
  BY Zenon DEF RunPredictions, Through
<1>. HIDE DEF Step, base, old
<1>0. Len(es) \in Nat
  OBVIOUS
<1>4. 0 \in Folds
  <2>1. Fold([i \in 0 .. 0 |-> base], 0)
    OBVIOUS
  <2>2. 0 \in 0 .. Len(es)
    BY <1>0
  <2>. HIDE DEF Fold
  <2>. QED  BY <2>1, <2>2
<1>5. ASSUME NEW n \in 1 .. Len(es), n - 1 \in Folds PROVE n \in Folds
  <2>1. PICK g : Fold(g, n - 1)
    BY <1>5
  <2>. DEFINE h == [i \in 0 .. n |-> IF i = n THEN Step(g[n - 1], es[n]) ELSE g[i]]
  <2>2. ASSUME NEW i \in 0 .. n PROVE h[i] = IF i = 0 THEN base ELSE Step(h[i - 1], es[i])
    <3>1. CASE i = n
      <4>1. h[i] = Step(g[n - 1], es[n]) /\ n # 0 /\ n - 1 \in 0 .. n /\ n - 1 # n
        BY <3>1
      <4>2. h[n - 1] = g[n - 1]
        BY <4>1
      <4>. HIDE DEF h
      <4>. QED  BY <3>1, <4>1, <4>2
    <3>2. CASE i # n
      <4>1. i \in 0 .. n - 1 /\ h[i] = g[i] /\ (i # 0 => i - 1 \in 0 .. n /\ i - 1 # n)
        BY <3>2
      <4>2. i # 0 => h[i - 1] = g[i - 1]
        BY <4>1
      <4>3. g[i] = IF i = 0 THEN base ELSE Step(g[i - 1], es[i])
        <5>. HIDE DEF h
        <5>. QED  BY <2>1, <4>1
      <4>. HIDE DEF h
      <4>. QED  BY <4>1, <4>2, <4>3
    <3>. QED  BY <3>1, <3>2
  <2>3. Fold(h, n)
    <3>1. h = [i \in 0 .. n |-> h[i]]
      OBVIOUS
    <3>. HIDE DEF h
    <3>. QED  BY <2>2, <3>1
  <2>4. n \in 0 .. Len(es)
    BY <1>0
  <2>. HIDE DEF Fold, h
  <2>. QED  BY <2>3, <2>4
<1>6. PICK h : h = (CHOOSE g : Fold(g, Len(es))) /\ Fold(h, Len(es))
  <2>1. \A n \in 0 .. Len(es) : n \in Folds
    <3>. HIDE DEF Folds
    <3>. QED  BY <1>0, <1>4, <1>5, InductionUpTo
  <2>2. Len(es) \in Folds
    <3>. HIDE DEF Folds
    <3>. QED  BY <1>0, <2>1
  <2>. HIDE DEF Fold
  <2>. QED  BY <2>2
<1>. DEFINE Going == {i \in 0 .. Len(es) : HasRules(h[i], old)}
<1>7. 0 \in Going
  <2>1. h[0] = base /\ 0 \in 0 .. Len(es)
    BY <1>0, <1>6
  <2>. QED  BY <1>1, <2>1, Zenon
<1>8. ASSUME NEW i \in 1 .. Len(es), i - 1 \in Going PROVE i \in Going
  <2>1. i \in 0 .. Len(es) /\ i # 0
    BY <1>0
  <2>1a. h[i] = Step(h[i - 1], es[i])
    BY <1>6, <2>1
  <2>2. HasRules(h[i - 1], old)
    BY <1>8
  <2>3. HasRules(Step(h[i - 1], es[i]), old)
    BY <1>2, <2>2, Zenon
  <2>. QED  BY <2>1, <2>1a, <2>3, Zenon
<1>9. HasRules(h[Len(es)], old)
  <2>1. \A n \in 0 .. Len(es) : n \in Going
    <3>. HIDE DEF Going
    <3>. QED  BY <1>0, <1>7, <1>8, InductionUpTo
  <2>2. Len(es) \in 0 .. Len(es)
    BY <1>0
  <2>3. Len(es) \in Going
    <3>. HIDE DEF Going
    <3>. QED  BY <2>1, <2>2
  <2>. QED  BY <2>3, Zenon
<1>. HIDE DEF Fold
<1>. QED  BY <1>3, <1>6, <1>9 DEF old

\* The trackers, each with whether it is a rule.
Tried(S) == {x \in {[events |-> t, isRule |-> isRule] : t \in S, isRule \in BOOLEAN} : Trains(x.events)}

\* _analyze_rules leaves some of the rules.
LEMMA AnalyzeRulesWithin ==
  ASSUME NEW p \in Projects, NEW lookup, "rules" \in DOMAIN lookup, NEW order
  PROVE  RulesWithin(AnalyzeRules(p, lookup, order).rules, lookup.rules)
<1>. DEFINE ToldAs(trackers, isRule) == [i \in DOMAIN trackers |-> [events |-> trackers[i], isRule |-> isRule]]
           rules == ToldAs(SetToSeq(RuleTrackers(p)), TRUE)
           stories == ToldAs(StoryTrackers(p), FALSE)
           all == stories \o rules
           sources == RunPredictions(rules, lookup, {}, order).collected
           end == RunPredictions(all, lookup, sources, order)
<1>1. AnalyzeRules(p, lookup, order).rules = end.lookup.rules
  <2>1. AnalyzeRules(p, lookup, order)
          = [rules |-> end.lookup.rules, contradicts |-> end.contradicts,
             notInStories |-> NotInStories(sources, end.used)]
    BY Zenon DEF AnalyzeRules
  <2>. HIDE DEF end, sources
  <2>. QED  BY <2>1
<1>3. ASSUME NEW S, \A t \in S : Trains(t), NEW s \in Seq(S), NEW isRule \in BOOLEAN
      PROVE  ToldAs(s, isRule) \in Seq(Tried(S))
  <2>. DEFINE X == Tried(S)
  <2>1. ASSUME NEW i \in DOMAIN s PROVE [events |-> s[i], isRule |-> isRule] \in X
    <3>1. s[i] \in S /\ Trains(s[i])
      BY <1>3
    <3>2. [events |-> s[i], isRule |-> isRule].events = s[i]
      OBVIOUS
    <3>3. [events |-> s[i], isRule |-> isRule] \in {[events |-> t, isRule |-> r] : t \in S, r \in BOOLEAN}
      <4>. HIDE DEF ToldAs
      <4>. QED  BY <3>1
    <3>. QED  BY <3>1, <3>2, <3>3 DEF Tried
  <2>2. DOMAIN s = 1 .. Len(s) /\ Len(s) \in Nat
    BY <1>3
  <2>3. ASSUME NEW n \in Nat, NEW r, r = [i \in 1 .. n |-> r[i]], \A i \in 1 .. n : r[i] \in X PROVE r \in Seq(X)
    <3>. HIDE DEF X
    <3>1. r \in [1 .. n -> X]
      BY <2>3
    <3>. QED  BY <3>1
  <2>4. ToldAs(s, isRule) = [i \in 1 .. Len(s) |-> ToldAs(s, isRule)[i]]
    BY <2>2
  <2>5. \A i \in 1 .. Len(s) : ToldAs(s, isRule)[i] \in X
    BY <2>1, <2>2, Zenon
  <2>. HIDE DEF X, ToldAs
  <2>6. ToldAs(s, isRule) \in Seq(X)
    BY <2>2, <2>3, <2>4, <2>5
  <2>. QED  BY <2>6 DEF X
<1>4. SetToSeq(RuleTrackers(p)) \in Seq(RuleTrackers(p)) /\ \A t \in RuleTrackers(p) : Trains(t)
  BY TrackersTrain, SequenceOf
<1>5. StoryTrackers(p) \in Seq(ToSet(StoryTrackers(p))) /\ \A t \in ToSet(StoryTrackers(p)) : Trains(t)
  BY TrackersTrain
<1>6. /\ rules \in Seq(Tried(RuleTrackers(p)))
      /\ stories \in Seq(Tried(ToSet(StoryTrackers(p))))
  <2>. HIDE DEF ToldAs
  <2>. QED  BY <1>3, <1>4, <1>5
<1>. DEFINE A == Tried(RuleTrackers(p))
           B == Tried(ToSet(StoryTrackers(p)))
<1>7. \A x \in A \union B : Trains(x.events)
  BY DEF Tried
<1>. HIDE DEF rules, stories
<1>8. Len(all) \in Nat /\ \A i \in 1 .. Len(all) : all[i] \in A \union B
  <2>. HIDE DEF A, B
  <2>1. rules \in Seq(A) /\ stories \in Seq(B)
    BY <1>6 DEF A, B
  <2>. QED  BY <2>1
<1>. HIDE DEF all, sources, A, B
<1>9. \A i \in 1 .. Len(all) : Trains(all[i].events)
  BY <1>7, <1>8
<1>10. HasRules(end, lookup.rules)
  BY <1>8, <1>9, RunsOverRules
<1>. HIDE DEF end
<1>. QED  BY <1>1, <1>10 DEF HasRules

-----------------------------------------------------------------------------
(* A loop that a story goes on with.                                        *)

\* A loop that an example goes on with, listening, is looked up as interrupted.
LEMMA UnhappyTold ==
  ASSUME NEW X, NEW x \in X, NEW key, key = FeatureKey(UnhappyKey(x.states)), key # <<>>,
         Set(Last(x.states)[ACTIVE_LOOP]), Last(x.states)[PREVIOUS_ACTION] = LISTEN,
         x.action = Last(x.states)[ACTIVE_LOOP]
  PROVE  key \in DOMAIN LoopUnhappyLookup(X) /\ LoopUnhappyLookup(X)[key] = LOOP_WAS_INTERRUPTED
<1>. DEFINE Key(y) == FeatureKey(UnhappyKey(y.states))
           In(y, listening, resumes) ==
             LET s == Last(y.states)
             IN  /\ Set(s[ACTIVE_LOOP])
                 /\ (s[PREVIOUS_ACTION] = LISTEN) = listening
                 /\ (y.action = s[ACTIVE_LOOP]) = resumes
           Keys(listening, resumes) ==
             {Key(y) : y \in {z \in X : In(z, listening, resumes)}} \ {<<>>}
           told == Keys(TRUE, TRUE)
           other == Keys(FALSE, FALSE)
<1>1. LoopUnhappyLookup(X)
        = [k \in told \union other |-> IF k \in told THEN LOOP_WAS_INTERRUPTED ELSE DO_NOT_PREDICT_LOOP_ACTION]
  BY Zenon DEF LoopUnhappyLookup
<1>2. In(x, TRUE, TRUE)
  OBVIOUS
<1>3. key \in told
  <2>. HIDE DEF In
  <2>1. Key(x) \in {Key(y) : y \in {z \in X : In(z, TRUE, TRUE)}}
    BY <1>2, Zenon
  <2>. HIDE DEF Key
  <2>2. key = Key(x)
    BY DEF Key
  <2>. QED  BY <2>1, <2>2
<1>. HIDE DEF told, other
<1>. QED  BY <1>1, <1>3

\* The best of finitely many keys is one of them, if there are any.
LEMMA BestParts ==
  ASSUME NEW keys, IsFiniteSet(keys), NEW order
  PROVE  Best(keys, order) = <<>> \/ Best(keys, order) \in keys
<1>. DEFINE best == BestKeys(keys)
           s == SetToSeq(best)
<1>1. best \in SUBSET keys
  BY DEF BestKeys
<1>. HIDE DEF best
<1>2. IsFiniteSet(best)
  BY <1>1, FS_Subset
<1>3. s \in Seq(best)
  BY <1>2, SequenceOf
<1>4. Best(keys, order) = IF s = <<>> THEN <<>> ELSE IF order = "forwards" THEN Head(s) ELSE Last(s)
  BY Zenon DEF Best, best
<1>. HIDE DEF s
<1>5. s # <<>> => Head(s) \in best /\ Last(s) \in best
  BY <1>3 DEF Last
<1>. QED  BY <1>1, <1>4, <1>5

\* The rules answer what is said while there is no form: none of them only waits.
RulesAnswer ==
  \A p \in Projects : \A x \in ExamplesOf(RuleTrackers(p), 0) :
    Last(x.states)[PREVIOUS_ACTION] = LISTEN /\ ~Set(Last(x.states)[ACTIVE_LOOP]) => x.action # LISTEN

\* Hence none that applies says to listen, whatever form is active.
LEMMA NoGeneralListen ==
  ASSUME RulesAnswer, NEW p \in Projects, NEW rules, RulesWithin(rules, LookupFromTrackers(p).rules),
         NEW V, NEW states \in Seq([Features -> V]), Len(states) > 0,
         Last(states)[PREVIOUS_ACTION] = LISTEN,
         NEW best \in DOMAIN rules, Applicable(best, states)
  PROVE  best # <<>> /\ ~(rules[best] = LISTEN /\ ~Set(Last(best)[ACTIVE_LOOP]))
<1>. DEFINE all == LookupFromTrackers(p).rules
<1>1. best \in DOMAIN all /\ rules[best] = all[best]
  BY DEF RulesWithin
<1>2. best # <<>> /\ \E x \in ExamplesOf(RuleTrackers(p), 0) : FeatureKey(x.states) = best /\ x.action = all[best]
  <2>. HIDE DEF all
  <2>. QED  BY <1>1, RuleTaught DEF all
<1>3. PICK x \in ExamplesOf(RuleTrackers(p), 0) : FeatureKey(x.states) = best /\ x.action = all[best]
  BY <1>2
<1>4. PICK W : x.states \in Seq([Features -> W]) /\ Len(x.states) > 0
  <2>1. \A t \in RuleTrackers(p) : Trains(t)
    BY TrackersTrain
  <2>2. \E W : x.states \in Seq([Features -> W]) /\ Len(x.states) > 0
    BY <2>1, ExampleParts
  <2>. QED  BY <2>2
<1>5. /\ best \in Seq([Features -> W]) /\ Len(best) =< Len(x.states)
      /\ \A i \in 0 .. Len(best) - 1 : best[Len(best) - i] = x.states[Len(x.states) - i]
  BY <1>3, <1>4, FeatureKeyParts
<1>6. Len(best) \in Nat /\ Len(best) > 0 /\ Len(x.states) \in Nat
  BY <1>2, <1>4, <1>5
<1>7. Last(best) = Last(x.states)
  <2>1. 0 \in 0 .. Len(best) - 1
    BY <1>6
  <2>2. best[Len(best) - 0] = x.states[Len(x.states) - 0]
    BY <1>5, <2>1, Zenon
  <2>3. Len(best) - 0 = Len(best) /\ Len(x.states) - 0 = Len(x.states)
    BY <1>6
  <2>. QED  BY <2>2, <2>3, Zenon DEF Last
<1>8. Last(best)[PREVIOUS_ACTION] = LISTEN
  BY <1>5, <1>6, ApplicableListening
<1>9. ~(x.action = LISTEN /\ ~Set(Last(x.states)[ACTIVE_LOOP]))
  BY <1>7, <1>8 DEF RulesAnswer
<1>. QED  BY <1>1, <1>2, <1>3, <1>7, <1>9, Zenon

\* Whether a prediction is one of a loop that was interrupted.
Tells(p) == "interrupted" \in DOMAIN p
LEMMA ChangedTells ==
  ASSUME NEW p, Tells(p), NEW v
  PROVE  /\ [p EXCEPT !.action = v].interrupted = p.interrupted
         /\ [p EXCEPT !.confidence = v].interrupted = p.interrupted
         /\ [p EXCEPT !.hide = v].interrupted = p.interrupted
         /\ [p EXCEPT !.interrupted = v].interrupted = v
         /\ Tells([p EXCEPT !.action = v]) /\ Tells([p EXCEPT !.confidence = v])
         /\ Tells([p EXCEPT !.hide = v]) /\ Tells([p EXCEPT !.interrupted = v])
BY DEF Tells

LEMMA PredictedTells == \A action, source : Tells(Predicted(action, source))
BY DEF Tells, Predicted

\* Then the form that was interrupted is not resumed as if it were not.
LEMMA FindInterrupted ==
  ASSUME NEW lookup, NEW t, NEW order, NEW states,
         states = StatesForTrackerHistory(AppliedEvents(t.events)),
         ActiveLoopName(t.state) # NoName,
         NEW best, best = Best(PossibleKeys(lookup.rules, states), order),
         best = <<>> \/ ~(lookup.rules[best] = LISTEN /\ ~Set(Last(best)[ACTIVE_LOOP])),
         NEW key \in PossibleKeys(lookup.unhappy, states), lookup.unhappy[key] = LOOP_WAS_INTERRUPTED
  PROVE  LET p == FindActionFromRules(lookup, t, order) IN Tells(p) /\ p.interrupted = TRUE
<1>. DEFINE loop == ActiveLoopName(t.state)
           default == IF lookup.fallback THEN FALLBACK ELSE LISTEN
           conditions == {lookup.unhappy[k] : k \in PossibleKeys(lookup.unhappy, states)}
           found == IF best = <<>> THEN NoName ELSE lookup.rules[best]
           generalListen == /\ loop # NoName /\ found = LISTEN
                            /\ ~Set(Last(best)[ACTIVE_LOOP])
           goesOn == generalListen /\ DO_NOT_PREDICT_LOOP_ACTION \notin conditions
           action == IF goesOn THEN loop ELSE IF generalListen THEN NoName ELSE found
           interrupted == loop # NoName /\ ~goesOn /\ LOOP_WAS_INTERRUPTED \in conditions
           p == Predicted(IF action = NoName THEN default ELSE action,
                          FromRule(IF best # <<>> THEN best ELSE FeatureKey(states)))
           c == IF action # NoName THEN p.confidence ELSE IF lookup.fallback THEN Threshold ELSE None
<1>1. FindActionFromRules(lookup, t, order) = [p EXCEPT !.confidence = c, !.interrupted = interrupted]
  BY Zenon DEF FindActionFromRules
<1>2. ~generalListen
  BY DEF LISTEN, NoName
<1>3. LOOP_WAS_INTERRUPTED \in conditions
  <2>1. lookup.unhappy[key] \in conditions
    BY Zenon
  <2>. HIDE DEF conditions
  <2>. QED  BY <2>1
<1>. HIDE DEF conditions
<1>4. interrupted = TRUE
  BY <1>2, <1>3
<1>5. Tells(p)
  BY PredictedTells
<1>. HIDE DEF p, c, interrupted
<1>6. Tells([p EXCEPT !.confidence = c, !.interrupted = interrupted])
      /\ [p EXCEPT !.confidence = c, !.interrupted = interrupted].interrupted = interrupted
  BY <1>5 DEF Tells
<1>. QED  BY <1>1, <1>4, <1>6

\* What the ensemble makes of a prediction keeps that.
LEMMA PredictionInterrupted ==
  ASSUME NEW t, t.state.followup = NoName,
         Tells(RulePredict(model.lookup, t, hash)), RulePredict(model.lookup, t, hash).interrupted = TRUE
  PROVE  Prediction(t).interrupted = TRUE
<1>. DEFINE r == RulePredict(model.lookup, t, hash)
           marked == [r EXCEPT !.hide = r.source \in model.notInStories]
           rule == Vetoed(marked, t)
           m == MemoPredict(model, t)
           memo == Vetoed(m, t)
<1>1. Prediction(t) = Combined(rule, memo)
  BY Zenon DEF Prediction
<1>2. ASSUME NEW p, Tells(p) PROVE Tells(Vetoed(p, t)) /\ Vetoed(p, t).interrupted = p.interrupted
  <2>1. \/ Vetoed(p, t) = p
        \/ Vetoed(p, t) = [p EXCEPT !.action = LISTEN, !.confidence = None]
    BY Zenon DEF Vetoed
  <2>2. Tells([p EXCEPT !.action = LISTEN, !.confidence = None])
        /\ [p EXCEPT !.action = LISTEN, !.confidence = None].interrupted = p.interrupted
    BY <1>2 DEF Tells
  <2>. QED  BY <1>2, <2>1, <2>2, Zenon
<1>3. Tells(m)
  <2>1. \A a : Tells([Predicted(a, FromRule(<<>>)) EXCEPT !.confidence = None])
    <3>. TAKE a
    <3>. QED  BY PredictedTells, ChangedTells
  <2>2. \/ \E a : m = Predicted(a, FromRule(<<>>))
        \/ m = [Predicted(LISTEN, FromRule(<<>>)) EXCEPT !.confidence = None]
    BY Zenon DEF MemoPredict
  <2>. HIDE DEF m
  <2>. QED  BY <2>1, <2>2, PredictedTells, Zenon
<1>4. Tells(marked) /\ marked.interrupted = TRUE
  <2>1. Tells(r) /\ r.interrupted = TRUE
    OBVIOUS
  <2>. HIDE DEF r
  <2>2. \A v : Tells([r EXCEPT !.hide = v]) /\ [r EXCEPT !.hide = v].interrupted = r.interrupted
    BY <2>1, ChangedTells
  <2>. QED  BY <2>1, <2>2, Zenon
<1>. HIDE DEF m, marked
<1>5. Tells(rule) /\ rule.interrupted = TRUE /\ Tells(memo)
  BY <1>2, <1>3, <1>4, Zenon
<1>. HIDE DEF rule, memo
<1>6. Combined(rule, memo) = [memo EXCEPT !.interrupted = rule.interrupted] \/ Combined(rule, memo) = rule
  BY Zenon DEF Combined
<1>7. [memo EXCEPT !.interrupted = rule.interrupted].interrupted = rule.interrupted
  BY <1>5, ChangedTells
<1>. QED  BY <1>1, <1>5, <1>6, <1>7, Zenon

\* What the policies look up is what they learned, but for deleted rules.
Learned(lookup, p) ==
  /\ {"rules", "unhappy"} \subseteq DOMAIN lookup
  /\ RulesWithin(lookup.rules, LookupFromTrackers(p).rules)
  /\ lookup.unhappy = LookupFromTrackers(p).unhappy

\* The invariant, of the training.
RInv == project \in Projects /\ (stage # "training" => Learned(model.lookup, project))

LEMMA RInvHolds == Spec => []RInv
<1>1. Init => RInv
  BY DEF Init, RInv
<1>2. RInv /\ [Next]_vars => RInv'
  <2>. SUFFICES ASSUME RInv, [Next]_vars PROVE RInv'
    OBVIOUS
  <2>1. CASE Train
    <3>1. Learned(LookupFromTrackers(project), project)
      <4>1. {"rules", "unhappy"} \subseteq DOMAIN LookupFromTrackers(project)
        BY DEF LookupFromTrackers
      <4>. QED  BY <4>1 DEF Learned, RulesWithin
    <3>2. model'.lookup = LookupFromTrackers(project)
      BY <2>1 DEF Train
    <3>. QED  BY <2>1, <3>1, <3>2 DEF Train, RInv
  <2>2. CASE Analyze
    <3>. DEFINE analysis == AnalyzeRules(project, model.lookup, hash)
    <3>1. Learned(model.lookup, project) /\ project \in Projects
      BY <2>2 DEF Analyze, RInv
    <3>2. RulesWithin(analysis.rules, model.lookup.rules)
      BY <3>1, AnalyzeRulesWithin DEF Learned
    <3>3. model'.lookup = [model.lookup EXCEPT !.rules = analysis.rules]
      <4>1. model' = [lookup |-> [model.lookup EXCEPT !.rules = analysis.rules],
                      memo |-> model.memo, notInStories |-> analysis.notInStories]
        BY <2>2, Zenon DEF Analyze
      <4>. HIDE DEF analysis
      <4>. QED  BY <4>1
    <3>. HIDE DEF analysis
    <3>4. Learned([model.lookup EXCEPT !.rules = analysis.rules], project)
      BY <3>1, <3>2 DEF Learned, RulesWithin
    <3>. QED  BY <2>2, <3>1, <3>3, <3>4 DEF Analyze, RInv
  <2>3. CASE Load
    BY <2>3 DEF Load, RInv
  <2>4. CASE RunAction
    BY <2>4 DEF RunAction, Acting, RInv
  <2>5. ASSUME NEW intent \in Intents, Say(intent) PROVE RInv'
    BY <2>5 DEF Say, RInv
  <2>6. CASE UNCHANGED vars
    BY <2>6 DEF vars, RInv
  <2>. QED  BY <2>1, <2>2, <2>3, <2>4, <2>5, <2>6 DEF Next
<1>. QED  BY <1>1, <1>2, PTL DEF Spec

\* No story has a user say what an action of its own answers.
NoStorySaysDefaults ==
  \A p \in Projects : \A story \in ToSet(p.stories) : \A e \in ToSet(story) :
    e.type = "user" => e.name \notin DOMAIN DefaultActions

\* A story, as the policies are trained with it.
LEMMA ToldParts ==
  ASSUME NoStorySaysDefaults, NEW p \in Projects, NEW t \in ToSet(StoryTrackers(p))
  PROVE  \E E : /\ Proper(E) /\ t \in Seq(E)
                /\ \A e \in E : e.type = "user" => e.name \notin DOMAIN DefaultActions
<1>1. PICK i \in DOMAIN p.stories : t = ExplicitEvents(p.stories[i])
  BY Zenon DEF StoryTrackers, ToSet
<1>. DEFINE story == p.stories[i]
           E == ToSet(story) \union {Executed(LISTEN, FALSE)}
<1>2. story \in ToSet(p.stories) /\ AreSteps(story)
  <2>1. story \in ToSet(p.stories)
    BY <1>1 DEF ToSet
  <2>. HIDE DEF story
  <2>. QED  BY <2>1, ProjectsAssumption
<1>. HIDE DEF story
<1>3. Proper(ToSet(story)) /\ story \in Seq(ToSet(story))
  BY <1>2, StepsProper
<1>4. Executed(LISTEN, FALSE).type = "action" /\ Executed(LISTEN, FALSE).name # NoName
      /\ Executed(LISTEN, FALSE).hide \in BOOLEAN
  BY DEF Executed, LISTEN, NoName
<1>5. Proper(E)
  BY <1>3, <1>4 DEF Proper
<1>6. story \in Seq(E)
  BY <1>3, SeqInLarger
<1>7. \A e \in E : e.type = "user" => e.name \notin DOMAIN DefaultActions
  BY <1>2, <1>4 DEF NoStorySaysDefaults
<1>8. t \in Seq(E)
  <2>1. Executed(LISTEN, FALSE) \in E
    OBVIOUS
  <2>. HIDE DEF E
  <2>2. ExplicitEvents(story) \in Seq(E)
    BY <1>6, <2>1, ExplicitEventsType
  <2>. QED  BY <1>1, <2>2 DEF story
<1>. HIDE DEF E
<1>. QED  BY <1>5, <1>7, <1>8

\* The latest action is that of the last execution.
LEMMA ReplayedAction ==
  ASSUME NEW E, Proper(E)
  PROVE  \A es \in Seq(E) : Replayed(es).latest_action # NoName =>
           \E l \in 1 .. Len(es) : LastAct(es, l, Len(es)) /\ es[l].name = Replayed(es).latest_action
<1>. DEFINE Acted(es) == \E l \in 1 .. Len(es) : LastAct(es, l, Len(es)) /\ es[l].name = Replayed(es).latest_action
           P == {es \in Seq(E) : Replayed(es).latest_action # NoName => Acted(es)}
<1>1. <<>> \in P
  BY ReplayedEmpty, FreshState
<1>2. ASSUME NEW es \in Seq(E), NEW e \in E, es \in P PROVE Append(es, e) \in P
  <2>. DEFINE s == Append(es, e)
             n == Len(es)
  <2>1. s \in Seq(E) /\ Len(s) = n + 1 /\ n \in Nat /\ s[n + 1] = e /\ \A i \in 1 .. n : s[i] = es[i]
    BY Appended
  <2>2. Replayed(s).latest_action = IF e.type = "action" THEN e.name ELSE Replayed(es).latest_action
    BY ReplayedNext DEF NextState
  <2>. HIDE DEF s
  <2>3. CASE e.type = "action"
    <3>1. n + 1 \in 1 .. Len(s) /\ LastAct(s, n + 1, Len(s)) /\ s[n + 1].name = Replayed(s).latest_action
      BY <2>1, <2>2, <2>3 DEF LastAct, Acts, NoActs
    <3>2. Acted(s)
      BY <3>1
    <3>. QED  BY <2>1, <3>2 DEF s
  <2>4. CASE e.type # "action"
    <3>1. ASSUME Acted(es) PROVE Acted(s)
      <4>1. PICK l \in 1 .. n : LastAct(es, l, n) /\ es[l].name = Replayed(es).latest_action
        BY <3>1
      <4>2. l \in 1 .. Len(s) /\ LastAct(s, l, Len(s)) /\ s[l].name = Replayed(s).latest_action
        <5>1. ASSUME NEW k \in l + 1 .. Len(s) PROVE ~Acts(s, k)
          <6>1. CASE k = n + 1
            BY <2>1, <2>4, <6>1 DEF Acts
          <6>2. CASE k # n + 1
            BY <2>1, <4>1, <6>2 DEF Acts, LastAct, NoActs
          <6>. QED  BY <6>1, <6>2
        <5>. QED  BY <2>1, <2>2, <2>4, <4>1, <5>1 DEF LastAct, Acts, NoActs
      <4>. QED  BY <4>2
    <3>2. Replayed(es).latest_action # NoName => Acted(es)
      BY <1>2
    <3>. QED  BY <2>1, <2>2, <2>4, <3>1, <3>2 DEF s
  <2>. QED  BY <2>3, <2>4
<1>3. \A es \in Seq(E) : es \in P
  <2>. HIDE DEF P
  <2>. QED  BY <1>1, <1>2, InductionOverSequences
<1>. QED  BY <1>3

\* A form that a story goes on with right after an answer to something else is
\* told so: the example that the story makes of it is one of an interrupted
\* loop, and no rule says otherwise.
LEMMA InterruptedFormIsTold ==
  ASSUME RulesAnswer, NoStorySaysDefaults, NEW p \in Projects, NEW t, NEW order,
         InTurn(t), FormsWereActive(t.events), NEW lookup, Learned(lookup, p),
         NEW story \in {AppliedEvents(u) : u \in ToSet(StoryTrackers(p))}, NEW k \in DOMAIN story,
         Predictable(story, k), AsStory(t.events) = SubSeq(story, 1, k - 1),
         story[k].name = ActiveLoopName(t.state), t.state.latest_action = LISTEN, t.state.rejected
  PROVE  LET r == RulePredict(lookup, t, order) IN Tells(r) /\ r.interrupted = TRUE
<1>. DEFINE es == AppliedEvents(t.events)
           states == StatesForTrackerHistory(es)
           key == FeatureKey(UnhappyKey(states))
           best == Best(PossibleKeys(lookup.rules, states), order)
           loop == ActiveLoopName(t.state)
<1>1. es = Spoken(t.events) /\ es \in Seq(Talk) /\ Agrees(t.state, es) /\ Answered(es) /\ t \in Dialogues
  <2>1. t.events \in Seq(AllTalk) /\ t \in Dialogues
    BY DEF InTurn, Faithful, Dialogues
  <2>2. es = Spoken(t.events)
    BY <2>1, AppliedEventsSpoken
  <2>3. Spoken(t.events) \in Seq(Talk)
    BY <2>1, AppliedType, TalkKept DEF Spoken
  <2>. HIDE DEF es
  <2>. QED  BY <2>1, <2>2, <2>3 DEF InTurn, Faithful
<1>2. PICK tracker \in ToSet(StoryTrackers(p)) : story = AppliedEvents(tracker)
  OBVIOUS
<1>3. PICK E : /\ Proper(E) /\ tracker \in Seq(E)
               /\ \A e \in E : e.type = "user" => e.name \notin DOMAIN DefaultActions
  BY ToldParts
<1>4. story \in Seq(E) /\ k \in 1 .. Len(story) /\ story[k] \in E
  BY <1>2, <1>3, TrainsApplied
<1>. HIDE DEF es
<1>5. Retold(es) = SubSeq(story, 1, k - 1)
  BY AsStoryRetold DEF es
<1>6. Retold(es) \in Seq(Talk) /\ StatesForTrackerHistory(Retold(es)) = states
  BY <1>1, RetoldStates
<1>7. /\ loop # NoName /\ Set(t.state.loop) /\ loop = t.state.loop
      /\ story[k].name = t.state.loop
  <2>1. story[k].type = "action"
    BY DEF Predictable
  <2>2. story[k].name # NoName
    BY <1>3, <1>4, <2>1 DEF Proper
  <2>. QED  BY <2>2 DEF ActiveLoopName
<1>8. /\ states \in Seq([Features -> Values(Talk)]) /\ Len(states) > 0
      /\ Last(states) = ActiveState(Replayed(es))
  <2>1. Proper(Talk)
    BY TalkKept
  <2>2. /\ StatesForTrackerHistory(es) \in Seq([Features -> Values(Talk)])
        /\ Len(StatesForTrackerHistory(es)) = Len(Befores(es).prior) + 1
        /\ Len(Befores(es).prior) \in Nat
        /\ Last(StatesForTrackerHistory(es)) = ActiveState(Replayed(es))
    BY <1>1, <2>1, StatesParts
  <2>. QED  BY <2>2
<1>9. Last(states)[PREVIOUS_ACTION] = LISTEN /\ Last(states)[ACTIVE_LOOP] = t.state.loop
  <2>1. Replayed(es).latest_action = LISTEN /\ Replayed(es).loop = t.state.loop
    BY <1>1 DEF Agrees
  <2>2. ACTIVE_LOOP \in Features /\ PREVIOUS_ACTION \in Features
    BY DEF Features
  <2>. HIDE DEF states
  <2>. QED  BY <1>8, <2>1, <2>2 DEF ActiveState, ACTIVE_LOOP, PREVIOUS_ACTION, USER
<1>. HIDE DEF states
<1>10. key # <<>> /\ Applicable(key, states)
  BY <1>8, <1>9, UnhappyKeyApplies
<1>11. key \in PossibleKeys(lookup.unhappy, states) /\ lookup.unhappy[key] = LOOP_WAS_INTERRUPTED
  <2>. DEFINE x == [states |-> states, action |-> story[k].name]
             X == ExamplesOf(RuleTrackers(p), 0) \union ExamplesOf(ToSet(StoryTrackers(p)), 0)
  <2>1. x \in Examples(tracker, 0)
    <3>1. [states |-> StatesForTrackerHistory(SubSeq(story, 1, k - 1)), action |-> story[k].name] \in Examples(tracker, 0)
      BY <1>2, <1>3, ExampleMade
    <3>. QED  BY <1>5, <1>6, <3>1
  <2>2. x \in X
    <3>. HIDE DEF x
    <3>. QED  BY <2>1 DEF ExamplesOf
  <2>3. x.states = states /\ x.action = story[k].name
    OBVIOUS
  <2>. HIDE DEF x, X, key
  <2>4. key = FeatureKey(UnhappyKey(x.states))
    BY <2>3 DEF key
  <2>5. key \in DOMAIN LoopUnhappyLookup(X) /\ LoopUnhappyLookup(X)[key] = LOOP_WAS_INTERRUPTED
    BY <1>7, <1>9, <1>10, <2>2, <2>3, <2>4, UnhappyTold
  <2>6. LookupFromTrackers(p).unhappy = LoopUnhappyLookup(X)
    BY DEF LookupFromTrackers, X
  <2>. QED  BY <1>10, <2>5, <2>6 DEF Learned, PossibleKeys
<1>. HIDE DEF key
<1>12. best = <<>> \/ ~(lookup.rules[best] = LISTEN /\ ~Set(Last(best)[ACTIVE_LOOP]))
  <2>. DEFINE keys == PossibleKeys(lookup.rules, states)
  <2>1. IsFiniteSet(keys)
    <3>1. keys \in SUBSET DOMAIN LookupFromTrackers(p).rules
      BY DEF PossibleKeys, Learned, RulesWithin
    <3>2. IsFiniteSet(DOMAIN LookupFromTrackers(p).rules)
      BY RuleTaught
    <3>. HIDE DEF keys
    <3>. QED  BY <3>1, <3>2, FS_Subset
  <2>2. best = <<>> \/ best \in keys
    <3>. HIDE DEF keys
    <3>. QED  BY <2>1, BestParts DEF keys
  <2>3. CASE best \in keys
    <3>1. best \in DOMAIN lookup.rules /\ Applicable(best, states)
      BY <2>3 DEF PossibleKeys
    <3>2. RulesWithin(lookup.rules, LookupFromTrackers(p).rules)
      BY DEF Learned
    <3>. HIDE DEF best
    <3>. QED  BY <1>8, <1>9, <3>1, <3>2, NoGeneralListen
  <2>. QED  BY <2>2, <2>3
<1>13. LET f == FindActionFromRules(lookup, t, order) IN Tells(f) /\ f.interrupted = TRUE
  <2>1. states = StatesForTrackerHistory(AppliedEvents(t.events))
    BY DEF states, es
  <2>. HIDE DEF best
  <2>. QED  BY <1>7, <1>11, <1>12, <2>1, FindInterrupted DEF best
<1>14. t.state.latest_message.name \notin DOMAIN DefaultActions
  <2>1. Replayed(es).latest_action = LISTEN /\ LISTEN # NoName
    BY <1>1 DEF Agrees, LISTEN, NoName
  <2>2. PICK l \in 1 .. Len(es) : LastAct(es, l, Len(es)) /\ es[l].name = LISTEN
    BY <1>1, <2>1, TalkKept, ReplayedAction
  <2>3. PICK u \in l + 1 .. Len(es) : Says(es, u)
    BY <1>1, <2>2 DEF Answered
  <2>4. u \in 1 .. Len(es) /\ Pending(es, Len(es))
    BY <1>1, <2>2, <2>3 DEF Pending, LastAct, NoActs
  <2>5. t.state.latest_message = Replayed(es).latest_message
    BY <1>1, <2>4 DEF Agrees
  <2>6. PICK v \in 1 .. Len(es) : Says(es, v) /\ Replayed(es).latest_message = es[v]
    BY <1>1, <2>3, <2>4, TalkKept, ReplayedMessage
  <2>7. PICK i \in 1 .. Len(Retold(es)) : Retold(es)[i] = es[v]
    BY <1>1, <2>6, RetoldMessages
  <2>8. Retold(es)[i] \in E
    <3>1. SubSeq(story, 1, k - 1) \in Seq(E)
      BY <1>4, PrefixByPrefix
    <3>2. Retold(es) \in Seq(E)
      BY <1>5, <3>1
    <3>. QED  BY <3>2
  <2>9. es[v].name \notin DOMAIN DefaultActions
    BY <1>3, <2>6, <2>7, <2>8 DEF Says
  <2>. QED  BY <2>5, <2>6, <2>9
<1>15. RulePredict(lookup, t, order) = FindActionFromRules(lookup, t, order)
  <2>1. ~(t.state.latest_action = LISTEN /\ t.state.latest_message.name \in DOMAIN DefaultActions)
    BY <1>14
  <2>2. ~(ActiveLoopName(t.state) # NoName /\ ~t.state.rejected)
    OBVIOUS
  <2>. QED  BY <2>1, <2>2, Zenon DEF RulePredict
<1>. QED  BY <1>13, <1>15

\* A form that a story goes on with right after an answer to something else is
\* told that it was interrupted, and does not validate that answer
\* (_find_action_from_rules), if rules answer and stories leave the default
\* actions to their intents.
THEOREM ResumesUnvalidatedHolds ==
  ASSUME RulesAnswer, NoStorySaysDefaults
  PROVE  Spec => []ResumesUnvalidated
<1>1. PInv /\ RInv => ResumesUnvalidated
  <2>. SUFFICES ASSUME PInv, RInv, Acting, NEW story \in Told, NEW k \in DOMAIN story, At(story, k),
                       story[k].name = ActiveLoopName(dialogue.state),
                       dialogue.state.latest_action = LISTEN, dialogue.state.rejected
                PROVE  Prediction(dialogue).interrupted
    BY Zenon DEF ResumesUnvalidated
  <2>1. InTurn(dialogue) /\ FormsWereActive(dialogue.events)
    BY DEF PInv, Acting, Waiting, Sound, Listening
  <2>2. project \in Projects /\ Learned(model.lookup, project)
    BY DEF RInv, Acting
  <2>3. LET r == RulePredict(model.lookup, dialogue, hash) IN Tells(r) /\ r.interrupted = TRUE
    <3>1. /\ story \in {AppliedEvents(u) : u \in ToSet(StoryTrackers(project))}
          /\ Predictable(story, k) /\ AsStory(dialogue.events) = SubSeq(story, 1, k - 1)
      BY Zenon DEF Told, At
    <3>. QED  BY <2>1, <2>2, <3>1, InterruptedFormIsTold
  <2>4. dialogue.state.followup = NoName
    <3>1. Agrees(dialogue.state, Spoken(dialogue.events))
      BY <2>1 DEF InTurn, Faithful
    <3>. QED  BY <3>1 DEF Agrees, LISTEN, NoName
  <2>5. Prediction(dialogue).interrupted = TRUE
    BY <2>3, <2>4, PredictionInterrupted
  <2>. QED  BY <2>5
<1>. QED  BY <1>1, PInvHolds, RInvHolds, PTL

=============================================================================

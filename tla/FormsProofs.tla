---------------------------- MODULE FormsProofs ----------------------------
(***************************************************************************)
(* What filling forms guarantees for every set of slots, forms and          *)
(* mappings, whatever custom actions and policies do, proved with TLAPS.    *)
(***************************************************************************)
EXTENDS Forms, Lemmas

-----------------------------------------------------------------------------
(* Trackers and the events that update them.                                *)

Names == Forms \union {NoName}
Listening == Forms \union {LISTEN, OTHER_ACTION}

\* The trackers of a dialogue, but for the bound on the executions.
AnyTracker ==
  {t \in [slots : [Slots \union {REQUESTED_SLOT} -> Values \union Slots],
          said : SUBSET (Slots \union {REQUESTED_SLOT}),
          loop : Names, rejected : BOOLEAN, latest : Listening, vetoed : Names,
          executed : Nat] :
     /\ \A s \in Slots : t.slots[s] \in Values
     /\ Requested(t) \in Slots \union {NoName}
     /\ t.rejected => t.loop # NoName}

SlotEvents == {SlotSet(s, v) : s \in Slots, v \in Values}
RequestEvents == {SlotSet(REQUESTED_SLOT, v) : v \in Slots \union {NoName}}
LoopEvents == {ActiveLoop(n) : n \in Names}
ActionEvents == {ActionExecuted(a) : a \in Listening}
RejectionEvents == {ActionExecutionRejected(f) : f \in Forms}
FormEvents == SlotEvents \union RequestEvents \union LoopEvents \union ActionEvents \union RejectionEvents

\* What each event does.
Filled(t, s, v) == [t EXCEPT !.slots = [@ EXCEPT ![s] = v], !.said = @ \union {s}]

LEMMA ApplySlot == \A t, s, v : ApplyTo(t, SlotSet(s, v)) = Filled(t, s, v)
BY DEF ApplyTo, SlotSet, Filled

LEMMA ApplyLoop == \A t, n : ApplyTo(t, ActiveLoop(n)) = [t EXCEPT !.loop = n, !.rejected = FALSE]
BY DEF ApplyTo, ActiveLoop, Event, ChangeLoopTo

LEMMA ApplyAction ==
  \A t, a : ApplyTo(t, ActionExecuted(a)) =
              [t EXCEPT !.latest = a, !.vetoed = NoName, !.rejected = @ /\ t.loop # a,
                        !.executed = IF a = LISTEN THEN 0 ELSE @ + 1]
BY DEF ApplyTo, ActionExecuted, Event

LEMMA ApplyRejection ==
  \A t, f : ApplyTo(t, ActionExecutionRejected(f)) =
              [t EXCEPT !.rejected = @ \/ t.loop = f, !.vetoed = f]
BY DEF ApplyTo, ActionExecutionRejected, Event, RejectAction

\* The same, part by part.
LEMMA AfterSlot ==
  ASSUME NEW t \in AnyTracker, NEW s, NEW v
  PROVE  LET u == ApplyTo(t, SlotSet(s, v))
         IN  /\ \A q \in Slots \union {REQUESTED_SLOT} : u.slots[q] = IF q = s THEN v ELSE t.slots[q]
             /\ u.said = t.said \union {s}
             /\ u.loop = t.loop /\ u.rejected = t.rejected
             /\ u.latest = t.latest /\ u.vetoed = t.vetoed /\ u.executed = t.executed
<1>. DEFINE slots == [t.slots EXCEPT ![s] = v]
            said == t.said \union {s}
            u == [t EXCEPT !.slots = slots, !.said = said]
<1>1. ApplyTo(t, SlotSet(s, v)) = u
  BY ApplySlot DEF Filled
<1>2. \A q \in Slots \union {REQUESTED_SLOT} : slots[q] = IF q = s THEN v ELSE t.slots[q]
  <2>1. t.slots \in [Slots \union {REQUESTED_SLOT} -> Values \union Slots]
    BY DEF AnyTracker
  <2>. QED  BY <2>1
<1>. HIDE DEF slots, said
<1>3. /\ u.slots = slots /\ u.said = said
      /\ u.loop = t.loop /\ u.rejected = t.rejected
      /\ u.latest = t.latest /\ u.vetoed = t.vetoed /\ u.executed = t.executed
  BY DEF AnyTracker
<1>. HIDE DEF u
<1>. QED  BY <1>1, <1>2, <1>3 DEF said

LEMMA AfterLoop ==
  ASSUME NEW t \in AnyTracker, NEW n
  PROVE  LET u == ApplyTo(t, ActiveLoop(n))
         IN  /\ u.slots = t.slots /\ u.said = t.said
             /\ u.loop = n /\ u.rejected = FALSE
             /\ u.latest = t.latest /\ u.vetoed = t.vetoed /\ u.executed = t.executed
<1>. DEFINE u == [t EXCEPT !.loop = n, !.rejected = FALSE]
<1>1. ApplyTo(t, ActiveLoop(n)) = u
  BY ApplyLoop
<1>2. /\ u.slots = t.slots /\ u.said = t.said
      /\ u.loop = n /\ u.rejected = FALSE
      /\ u.latest = t.latest /\ u.vetoed = t.vetoed /\ u.executed = t.executed
  BY DEF AnyTracker
<1>. HIDE DEF u
<1>. QED  BY <1>1, <1>2

LEMMA AfterAction ==
  ASSUME NEW t \in AnyTracker, NEW a
  PROVE  LET u == ApplyTo(t, ActionExecuted(a))
         IN  /\ u.slots = t.slots /\ u.said = t.said
             /\ u.loop = t.loop /\ (u.rejected <=> t.rejected /\ t.loop # a)
             /\ u.latest = a /\ u.vetoed = NoName
             /\ u.executed = IF a = LISTEN THEN 0 ELSE t.executed + 1
<1>. DEFINE rejected == t.rejected /\ t.loop # a
            executed == IF a = LISTEN THEN 0 ELSE t.executed + 1
            u == [t EXCEPT !.latest = a, !.vetoed = NoName, !.rejected = rejected, !.executed = executed]
<1>1. ApplyTo(t, ActionExecuted(a)) = u
  BY ApplyAction
<1>. HIDE DEF rejected, executed
<1>2. /\ u.slots = t.slots /\ u.said = t.said
      /\ u.loop = t.loop /\ u.rejected = rejected
      /\ u.latest = a /\ u.vetoed = NoName /\ u.executed = executed
  BY DEF AnyTracker
<1>. HIDE DEF u
<1>. QED  BY <1>1, <1>2 DEF rejected, executed

LEMMA AfterRejection ==
  ASSUME NEW t \in AnyTracker, NEW f
  PROVE  LET u == ApplyTo(t, ActionExecutionRejected(f))
         IN  /\ u.slots = t.slots /\ u.said = t.said
             /\ u.loop = t.loop /\ (u.rejected <=> t.rejected \/ t.loop = f)
             /\ u.latest = t.latest /\ u.vetoed = f /\ u.executed = t.executed
<1>. DEFINE rejected == t.rejected \/ t.loop = f
            u == [t EXCEPT !.rejected = rejected, !.vetoed = f]
<1>1. ApplyTo(t, ActionExecutionRejected(f)) = u
  BY ApplyRejection
<1>. HIDE DEF rejected
<1>2. /\ u.slots = t.slots /\ u.said = t.said
      /\ u.loop = t.loop /\ u.rejected = rejected
      /\ u.latest = t.latest /\ u.vetoed = f /\ u.executed = t.executed
  BY DEF AnyTracker
<1>. HIDE DEF u
<1>. QED  BY <1>1, <1>2 DEF rejected

LEMMA ApplyType ==
  ASSUME NEW t \in AnyTracker, NEW e \in FormEvents
  PROVE  ApplyTo(t, e) \in AnyTracker
<1>1. ASSUME NEW s \in Slots, NEW v \in Values PROVE Filled(t, s, v) \in AnyTracker
  BY FormsAssumption, <1>1 DEF AnyTracker, Filled, Requested
<1>2. ASSUME NEW v \in Slots \union {NoName} PROVE Filled(t, REQUESTED_SLOT, v) \in AnyTracker
  BY FormsAssumption, <1>2 DEF AnyTracker, Filled, Requested, Values, Unset
<1>3. ASSUME NEW n \in Names PROVE ApplyTo(t, ActiveLoop(n)) \in AnyTracker
  <2>1. ApplyTo(t, ActiveLoop(n)) = [t EXCEPT !.loop = n, !.rejected = FALSE]
    BY ApplyLoop
  <2>2. [t EXCEPT !.loop = n, !.rejected = FALSE] \in AnyTracker
    BY <1>3 DEF AnyTracker, Requested
  <2>. QED  BY <2>1, <2>2
<1>4. ASSUME NEW a \in Listening PROVE ApplyTo(t, ActionExecuted(a)) \in AnyTracker
  <2>. DEFINE rejected == t.rejected /\ t.loop # a
              executed == IF a = LISTEN THEN 0 ELSE t.executed + 1
              u == [t EXCEPT !.latest = a, !.vetoed = NoName, !.rejected = rejected, !.executed = executed]
  <2>1. ApplyTo(t, ActionExecuted(a)) = u
    BY ApplyAction
  <2>2. rejected \in BOOLEAN /\ (rejected => t.loop # NoName) /\ executed \in Nat
    BY DEF AnyTracker
  <2>. HIDE DEF rejected, executed
  <2>3. u \in AnyTracker
    BY <1>4, <2>2 DEF AnyTracker, Requested, Names
  <2>. QED  BY <2>1, <2>3
<1>5. ASSUME NEW f \in Forms PROVE ApplyTo(t, ActionExecutionRejected(f)) \in AnyTracker
  <2>. DEFINE rejected == t.rejected \/ t.loop = f
              u == [t EXCEPT !.rejected = rejected, !.vetoed = f]
  <2>1. ApplyTo(t, ActionExecutionRejected(f)) = u
    BY ApplyRejection
  <2>2. rejected \in BOOLEAN /\ (rejected => t.loop # NoName)
    BY FormsAssumption DEF AnyTracker
  <2>. HIDE DEF rejected
  <2>3. u \in AnyTracker
    BY <2>2 DEF AnyTracker, Requested, Names
  <2>. QED  BY <2>1, <2>3
<1>. QED  BY <1>1, <1>2, <1>3, <1>4, <1>5, ApplySlot
          DEF FormEvents, SlotEvents, RequestEvents, LoopEvents, ActionEvents, RejectionEvents

\* Trackers that applying some events does not leave.
Keeps(P, E) == \A t \in P, e \in E : ApplyTo(t, e) \in P
ApplyStep(P, E) == [p \in P \X E |-> ApplyTo(p[1], p[2])]

\* UpdateWith goes through the events.
LEMMA UpdateFolded ==
  ASSUME NEW P, NEW E, Keeps(P, E), NEW t \in P, NEW es \in Seq(E)
  PROVE  UpdateWith(t, es) = Folded(P, ApplyStep(P, E), t, es)
<1>. DEFINE Fold(h) == h = [i \in 0 .. Len(es) |-> IF i = 0 THEN t ELSE ApplyTo(h[i - 1], es[i])]
           step == ApplyStep(P, E)
<1>1. Goes(P, E, step, t, es)
  BY DEF Goes, ApplyStep, Keeps
<1>2. PICK g : IsFold(g, P, step, t, es) /\ Folded(P, step, t, es) = g[Len(es)]
  <2>. HIDE DEF step
  <2>. QED  BY <1>1, FoldedIsFold
<1>3. ASSUME NEW a \in P, NEW e \in E PROVE step[<<a, e>>] = ApplyTo(a, e)
  BY DEF ApplyStep
<1>. HIDE DEF step
<1>4. ASSUME NEW i \in 1 .. Len(es) PROVE g[i] = ApplyTo(g[i - 1], es[i])
  <2>1. i - 1 \in 0 .. Len(es) /\ es[i] \in E
    OBVIOUS
  <2>2. g[i - 1] \in P
    BY <1>2, <2>1 DEF IsFold
  <2>3. g[i] = step[<<g[i - 1], es[i]>>]
    BY <1>2 DEF IsFold
  <2>. QED  BY <2>1, <2>2, <2>3, <1>3
<1>5. Fold(g)
  BY <1>2, <1>4 DEF IsFold
<1>6. ASSUME NEW h, Fold(h) PROVE h = g
  <2>1. h[0] = g[0] /\ \A i \in 1 .. Len(es) : h[i - 1] = g[i - 1] => h[i] = g[i]
    BY <1>5, <1>6
  <2>2. Len(es) \in Nat
    OBVIOUS
  <2>3. \A i \in 0 .. Len(es) : h[i] = g[i]
    BY <2>1, <2>2, FoldsAgree
  <2>. QED  BY <2>3, <1>5, <1>6
<1>7. UpdateWith(t, es) = (CHOOSE h : Fold(h))[Len(es)]
  BY DEF UpdateWith, Through
<1>8. (CHOOSE h : Fold(h)) = g
  <2>. HIDE DEF Fold
  <2>. QED  BY <1>5, <1>6
<1>. QED  BY <1>2, <1>7, <1>8 DEF step

LEMMA UpdateEmpty == \A t : UpdateWith(t, <<>>) = t
<1>. TAKE t
<1>1. Keeps({t}, {}) /\ <<>> \in Seq({}) /\ t \in {t}
  BY DEF Keeps
<1>2. Goes({t}, {}, ApplyStep({t}, {}), t, <<>>)
  BY <1>1 DEF Goes, ApplyStep
<1>. QED  BY <1>1, <1>2, UpdateFolded, FoldedEmpty

\* What single events keep, many keep.
LEMMA UpdateStays ==
  ASSUME NEW P, NEW E, Keeps(P, E), NEW t \in P, NEW es \in Seq(E)
  PROVE  UpdateWith(t, es) \in P
<1>1. Goes(P, E, ApplyStep(P, E), t, es)
  BY DEF Goes, ApplyStep, Keeps
<1>. QED  BY <1>1, UpdateFolded, FoldedType

LEMMA UpdateAppend ==
  ASSUME NEW P, NEW E, Keeps(P, E), NEW t \in P, NEW es \in Seq(E), NEW e \in E
  PROVE  UpdateWith(t, Append(es, e)) = ApplyTo(UpdateWith(t, es), e)
<1>1. Goes(P, E, ApplyStep(P, E), t, es) /\ Append(es, e) \in Seq(E)
  BY DEF Goes, ApplyStep, Keeps
<1>2. /\ UpdateWith(t, es) = Folded(P, ApplyStep(P, E), t, es)
      /\ UpdateWith(t, Append(es, e)) = Folded(P, ApplyStep(P, E), t, Append(es, e))
  BY <1>1, UpdateFolded
<1>3. UpdateWith(t, Append(es, e)) = ApplyStep(P, E)[<<UpdateWith(t, es), e>>]
  BY <1>1, <1>2, FoldedAppend
<1>. QED  BY <1>3, UpdateStays DEF ApplyStep

LEMMA UpdateTyped ==
  ASSUME NEW t \in AnyTracker, NEW es \in Seq(FormEvents)
  PROVE  UpdateWith(t, es) \in AnyTracker
<1>1. Keeps(AnyTracker, FormEvents)
  BY ApplyType DEF Keeps
<1>. QED  BY <1>1, UpdateStays

LEMMA UpdateMore ==
  ASSUME NEW t \in AnyTracker, NEW es \in Seq(FormEvents), NEW e \in FormEvents
  PROVE  UpdateWith(t, Append(es, e)) = ApplyTo(UpdateWith(t, es), e)
<1>1. Keeps(AnyTracker, FormEvents)
  BY ApplyType DEF Keeps
<1>. QED  BY <1>1, UpdateAppend

LEMMA UpdateOne ==
  ASSUME NEW t \in AnyTracker, NEW e \in FormEvents
  PROVE  UpdateWith(t, <<e>>) = ApplyTo(t, e)
<1>2. <<>> \in Seq(FormEvents) /\ Append(<<>>, e) = <<e>>
  BY AppendToOne
<1>3. UpdateWith(t, Append(<<>>, e)) = ApplyTo(UpdateWith(t, <<>>), e)
  <2>. DEFINE none == <<>>
  <2>1. none \in Seq(FormEvents)
    OBVIOUS
  <2>. HIDE DEF none
  <2>2. UpdateWith(t, Append(none, e)) = ApplyTo(UpdateWith(t, none), e)
    BY <2>1, UpdateMore
  <2>. QED  BY <2>2 DEF none
<1>. QED  BY <1>2, <1>3, UpdateEmpty

\* Of two lists of events, the second is applied to what the first left.
LEMMA UpdateConcat ==
  ASSUME NEW t \in AnyTracker, NEW a \in Seq(FormEvents), NEW b \in Seq(FormEvents)
  PROVE  UpdateWith(t, a \o b) = UpdateWith(UpdateWith(t, a), b)
<1>. DEFINE u == UpdateWith(t, a)
            P == {s \in Seq(FormEvents) : UpdateWith(t, a \o s) = UpdateWith(u, s)}
<1>2. u \in AnyTracker
  BY UpdateTyped
<1>3. <<>> \in P
  <2>1. a \o <<>> = a /\ <<>> \in Seq(FormEvents)
    OBVIOUS
  <2>. QED  BY <2>1, UpdateEmpty
<1>4. ASSUME NEW s \in Seq(FormEvents), NEW e \in FormEvents, s \in P PROVE Append(s, e) \in P
  <2>1. a \o Append(s, e) = Append(a \o s, e) /\ a \o s \in Seq(FormEvents) /\ Append(s, e) \in Seq(FormEvents)
    BY ConcatAppend
  <2>2. UpdateWith(t, Append(a \o s, e)) = ApplyTo(UpdateWith(t, a \o s), e)
    BY <2>1, UpdateMore
  <2>3. UpdateWith(u, Append(s, e)) = ApplyTo(UpdateWith(u, s), e)
    BY <1>2, UpdateMore
  <2>. QED  BY <1>4, <2>1, <2>2, <2>3
<1>5. b \in P
  <2>. HIDE DEF P
  <2>. QED  BY <1>3, <1>4, InductionOverSequences
<1>. QED  BY <1>5

-----------------------------------------------------------------------------
(* Setting slots.                                                          *)

\* The tracker with the slots of a function from slots to values set.
FilledAll(t, values) ==
  [t EXCEPT !.slots = [s \in Slots \union {REQUESTED_SLOT} |->
                         IF s \in DOMAIN values THEN values[s] ELSE t.slots[s]],
            !.said = @ \union DOMAIN values]

\* SetAll sets each slot of the function, and nothing else.
LEMMA SetAllEvents ==
  ASSUME NEW D \in SUBSET Slots, NEW values \in [D -> Values]
  PROVE  /\ SetAll(values) \in Seq({SlotSet(s, values[s]) : s \in D})
         /\ \A s \in D : \E i \in DOMAIN SetAll(values) : SetAll(values)[i] = SlotSet(s, values[s])
         /\ SetAll(values) \in Seq(SlotEvents) /\ SetAll(values) \in Seq(FormEvents)
         /\ D = {} => SetAll(values) = <<>>
<1>. DEFINE slots == SetToSeq(D)
            E == {SlotSet(s, values[s]) : s \in D}
            all == [i \in 1 .. Len(slots) |-> SlotSet(slots[i], values[slots[i]])]
<1>1. slots \in Seq(D) /\ \A s \in D : \E i \in DOMAIN slots : slots[i] = s
  <2>1. IsFiniteSet(D)
    BY FormsAssumption, FS_Subset
  <2>. QED  BY <2>1, SequenceOf
<1>. HIDE DEF slots
<1>2. all \in Seq(E) /\ DOMAIN all = DOMAIN slots /\ \A i \in DOMAIN slots : all[i] = SlotSet(slots[i], values[slots[i]])
  BY <1>1
<1>3. SetAll(values) = all
  BY DEF SetAll, slots
<1>4. E \subseteq SlotEvents /\ SlotEvents \subseteq FormEvents
  BY DEF SlotEvents, FormEvents
<1>5. all \in Seq(SlotEvents) /\ all \in Seq(FormEvents)
  <2>. HIDE DEF all, E
  <2>. QED  BY <1>2, <1>4
<1>6. D = {} => all = <<>>
  <2>. HIDE DEF all
  <2>. QED  BY <1>2
<1>. QED  BY <1>1, <1>2, <1>3, <1>5, <1>6

LEMMA UpdateSetAll ==
  ASSUME NEW t \in AnyTracker, NEW D \in SUBSET Slots, NEW values \in [D -> Values]
  PROVE  UpdateWith(t, SetAll(values)) = FilledAll(t, values)
<1>. DEFINE E == {SlotSet(s, values[s]) : s \in D}
            Set(es) == {es[i].name : i \in DOMAIN es}
            So(es) == FilledAll(t, [s \in Set(es) |-> values[s]])
            P == {es \in Seq(E) : UpdateWith(t, es) = So(es)}
<1>1. Keeps(AnyTracker, FormEvents) /\ E \subseteq FormEvents /\ \A e \in E : e.name \in D /\ e = SlotSet(e.name, values[e.name])
  BY ApplyType DEF Keeps, FormEvents, SlotEvents, SlotSet
<1>2. <<>> \in P
  <2>1. Set(<<>>) = {}
    OBVIOUS
  <2>2. So(<<>>) = t
    BY <2>1 DEF FilledAll, AnyTracker
  <2>3. <<>> \in Seq(E)
    OBVIOUS
  <2>. HIDE DEF So, E
  <2>. QED  BY <2>2, <2>3, UpdateEmpty
<1>3. ASSUME NEW es \in Seq(E), NEW e \in E, es \in P PROVE Append(es, e) \in P
  <2>1. es \in Seq(FormEvents) /\ e \in FormEvents /\ Append(es, e) \in Seq(E)
    <3>. HIDE DEF E
    <3>. QED  BY <1>1
  <2>2. UpdateWith(t, Append(es, e)) = ApplyTo(UpdateWith(t, es), e)
    BY <1>1, <2>1, UpdateAppend
  <2>3. ApplyTo(So(es), e) = Filled(So(es), e.name, values[e.name])
    BY <1>1, ApplySlot
  <2>4. Set(Append(es, e)) = Set(es) \union {e.name}
    <3>. HIDE DEF E
    <3>1. Len(Append(es, e)) = Len(es) + 1 /\ Append(es, e)[Len(es) + 1] = e /\ \A i \in 1 .. Len(es) : Append(es, e)[i] = es[i]
      OBVIOUS
    <3>2. DOMAIN Append(es, e) = 1 .. Len(es) + 1 /\ DOMAIN es = 1 .. Len(es) /\ Len(es) \in Nat
      OBVIOUS
    <3>. QED  BY <3>1, <3>2
  <2>5. Set(es) \subseteq D /\ e.name \in D
    BY <1>1
  <2>6. Filled(So(es), e.name, values[e.name]) = So(Append(es, e))
    <3>. DEFINE S == Set(es)
    <3>1. So(Append(es, e)) = FilledAll(t, [s \in S \union {e.name} |-> values[s]])
      BY <2>4
    <3>2. So(es) = FilledAll(t, [s \in S |-> values[s]]) /\ S \subseteq D
      BY <2>5
    <3>. HIDE DEF S, So
    <3>3. Filled(FilledAll(t, [s \in S |-> values[s]]), e.name, values[e.name])
            = FilledAll(t, [s \in S \union {e.name} |-> values[s]])
      BY <3>2, <2>5 DEF Filled, FilledAll, AnyTracker
    <3>. QED  BY <3>1, <3>2, <3>3
  <2>. QED  BY <1>3, <2>1, <2>2, <2>3, <2>6
<1>4. SetAll(values) \in P
  <2>1. SetAll(values) \in Seq(E)
    BY SetAllEvents
  <2>. HIDE DEF P, E
  <2>. QED  BY <1>2, <1>3, <2>1, InductionOverSequences
<1>5. Set(SetAll(values)) = D
  <2>1. SetAll(values) \in Seq(E) /\ \A s \in D : \E i \in DOMAIN SetAll(values) : SetAll(values)[i] = SlotSet(s, values[s])
    BY SetAllEvents
  <2>2. \A i \in DOMAIN SetAll(values) : SetAll(values)[i] \in E
    <3>. HIDE DEF E
    <3>. QED  BY <2>1
  <2>3. \A s : SlotSet(s, values[s]).name = s
    BY DEF SlotSet
  <2>. QED  BY <1>1, <2>1, <2>2, <2>3
<1>6. [s \in D |-> values[s]] = values
  OBVIOUS
<1>. QED  BY <1>4, <1>5, <1>6

-----------------------------------------------------------------------------
(* What a form does before it asks for the next slot: it may activate, set  *)
(* slots, close with one other event, and set slots it extracted.           *)

RunEvents(form) ==
  SlotEvents \union RequestEvents
    \union {ActiveLoop(form), ActiveLoop(NoName), ActionExecutionRejected(form)}

Closings(form) ==
  {<<>>, <<ActionExecutionRejected(form)>>}
    \union {<<SlotSet(REQUESTED_SLOT, s)>> : s \in RequiredOf(form)}
    \union IF form \in Stopping
             THEN {<<SlotSet(REQUESTED_SLOT, NoName)>>, <<ActiveLoop(NoName)>>} ELSE {}

SomeValues == UNION {[D -> Values] : D \in SUBSET Slots}

LEMMA RunEventsTyped ==
  ASSUME NEW form \in Forms
  PROVE  /\ RunEvents(form) \subseteq FormEvents
         /\ RequiredOf(form) \subseteq Slots
         /\ \A c \in Closings(form) : c \in Seq(RunEvents(form)) /\ (c = <<>> \/ \E e \in RunEvents(form) : c = <<e>>)
<1>1. RunEvents(form) \subseteq FormEvents
  BY DEF RunEvents, FormEvents, LoopEvents, RejectionEvents, Names
<1>2. RequiredOf(form) \subseteq Slots
  <2>1. Required[form] \in Seq(Slots)
    BY FormsAssumption
  <2>. QED  BY <2>1 DEF RequiredOf, ToSet
<1>3. \A s \in RequiredOf(form) \union {NoName} : SlotSet(REQUESTED_SLOT, s) \in RunEvents(form)
  BY <1>2 DEF RunEvents, RequestEvents
<1>4. ActiveLoop(NoName) \in RunEvents(form) /\ ActionExecutionRejected(form) \in RunEvents(form)
  BY DEF RunEvents
<1>5. ASSUME NEW c \in Closings(form) PROVE c = <<>> \/ \E e \in RunEvents(form) : c = <<e>>
  BY <1>3, <1>4 DEF Closings
<1>6. ASSUME NEW e \in RunEvents(form) PROVE <<e>> \in Seq(RunEvents(form))
  <2>. DEFINE E == RunEvents(form)
  <2>. HIDE DEF E
  <2>1. e \in E
    BY <1>6 DEF E
  <2>2. <<e>> \in Seq(E)
    BY <2>1
  <2>. QED  BY <2>2 DEF E
<1>7. <<>> \in Seq(RunEvents(form))
  OBVIOUS
<1>. QED  BY <1>1, <1>2, <1>5, <1>6, <1>7

\* Where the elements of two lists put together come from.
LEMMA ConcatAt ==
  ASSUME NEW E, NEW s \in Seq(E), NEW t \in Seq(E)
  PROVE  /\ DOMAIN (s \o t) = 1 .. Len(s) + Len(t) /\ Len(s) \in Nat /\ Len(t) \in Nat
         /\ \A i \in 1 .. Len(s) + Len(t) :
              \/ i \in 1 .. Len(s) /\ (s \o t)[i] = s[i]
              \/ i - Len(s) \in 1 .. Len(t) /\ (s \o t)[i] = t[i - Len(s)]
<1>. DEFINE both == s \o t
<1>1. /\ both \in Seq(E) /\ Len(both) = Len(s) + Len(t) /\ Len(s) \in Nat /\ Len(t) \in Nat
      /\ \A i \in 1 .. Len(s) : both[i] = s[i]
      /\ \A i \in 1 .. Len(t) : both[Len(s) + i] = t[i]
  BY ConcatParts
<1>. HIDE DEF both
<1>2. DOMAIN both = 1 .. Len(s) + Len(t)
  BY <1>1
<1>3. ASSUME NEW i \in 1 .. Len(s) + Len(t), ~(i \in 1 .. Len(s))
      PROVE  i - Len(s) \in 1 .. Len(t) /\ both[i] = t[i - Len(s)]
  <2>1. i - Len(s) \in 1 .. Len(t) /\ i = Len(s) + (i - Len(s))
    BY <1>1, <1>3
  <2>. QED  BY <1>1, <2>1
<1>. QED  BY <1>1, <1>2, <1>3 DEF both

\* The function that sets nothing.
Nothing == [s \in {} |-> Unset]

LEMMA NothingSet == Nothing \in [{} -> Values] /\ DOMAIN Nothing = {} /\ SetAll(Nothing) = <<>>
<1>1. Nothing \in [{} -> Values] /\ {} \in SUBSET Slots /\ DOMAIN Nothing = {}
  BY DEF Nothing
<1>. QED  BY <1>1, SetAllEvents

\* A form that activates starts with the event of it.
Start(form, active) == IF active THEN <<>> ELSE <<ActiveLoop(form)>>

Body(form, active, v, c, w) == (Start(form, active) \o SetAll(v)) \o (c \o SetAll(w))

\* The position of the closing event.
Place(form, active, v) == Len(Start(form, active)) + Len(SetAll(v)) + 1

LEMMA BodyEvents ==
  ASSUME NEW form \in Forms, NEW active \in BOOLEAN, NEW v \in SomeValues, NEW w \in SomeValues,
         NEW c \in Closings(form)
  PROVE  LET body == Body(form, active, v, c, w)
             k == Place(form, active, v)
         IN  /\ body \in Seq(RunEvents(form)) /\ k \in Nat \ {0}
             /\ Start(form, active) \o SetAll(v) \in Seq(RunEvents(form))
             /\ c \o SetAll(w) \in Seq(RunEvents(form))
             /\ \A i \in DOMAIN body :
                  \/ ~active /\ i = 1 /\ body[i] = ActiveLoop(form)
                  \/ body[i] \in SlotEvents
                  \/ i = k /\ c = <<body[i]>>
             /\ c # <<>> => k \in DOMAIN body /\ c = <<body[k]>>
             /\ ~active => k > 1 /\ 1 \in DOMAIN body /\ body[1] = ActiveLoop(form)
             /\ \A s \in DOMAIN v : \E i \in DOMAIN body : body[i] = SlotSet(s, v[s])
             /\ \A s \in DOMAIN w : \E i \in DOMAIN body : body[i] = SlotSet(s, w[s])
<1>. DEFINE E == RunEvents(form)
            pre == Start(form, active)
            sv == SetAll(v)
            sw == SetAll(w)
            a == pre \o sv
            b == c \o sw
            body == a \o b
            k == Place(form, active, v)
<1>1. sv \in Seq(SlotEvents) /\ sw \in Seq(SlotEvents) /\ SlotEvents \subseteq E
  BY SetAllEvents DEF SomeValues, RunEvents
<1>2. c \in Seq(E) /\ (c = <<>> \/ \E e \in E : c = <<e>>)
  BY RunEventsTyped
<1>3. pre \in Seq(E) /\ Len(pre) = (IF active THEN 0 ELSE 1) /\ (~active => pre[1] = ActiveLoop(form))
  <2>1. ActiveLoop(form) \in E
    BY DEF RunEvents
  <2>. HIDE DEF E
  <2>2. <<>> \in Seq(E) /\ <<ActiveLoop(form)>> \in Seq(E) /\ Len(<<>>) = 0 /\ Len(<<ActiveLoop(form)>>) = 1
    BY <2>1
  <2>. QED  BY <2>2 DEF Start
<1>4. sv \in Seq(E) /\ sw \in Seq(E)
  <2>. HIDE DEF E, sv, sw
  <2>. QED  BY <1>1
<1>5. k = Len(pre) + Len(sv) + 1
  BY DEF Place
<1>. HIDE DEF E, pre, sv, sw, k
<1>6. /\ a \in Seq(E) /\ Len(a) = Len(pre) + Len(sv) /\ Len(pre) \in Nat /\ Len(sv) \in Nat
      /\ \A i \in 1 .. Len(pre) : a[i] = pre[i]
      /\ \A i \in 1 .. Len(sv) : a[Len(pre) + i] = sv[i]
  <2>1. pre \in Seq(E) /\ sv \in Seq(E)
    BY <1>3, <1>4
  <2>. QED  BY <2>1, ConcatParts
<1>7. /\ b \in Seq(E) /\ Len(b) = Len(c) + Len(sw) /\ Len(c) \in Nat /\ Len(sw) \in Nat
      /\ \A i \in 1 .. Len(c) : b[i] = c[i]
      /\ \A i \in 1 .. Len(sw) : b[Len(c) + i] = sw[i]
  <2>1. c \in Seq(E) /\ sw \in Seq(E)
    BY <1>2, <1>4
  <2>. QED  BY <2>1, ConcatParts
<1>8. \A i \in 1 .. Len(pre) + Len(sv) : (i \in 1 .. Len(pre) /\ a[i] = pre[i]) \/ a[i] \in SlotEvents
  <2>0. pre \in Seq(E) /\ sv \in Seq(E)
    BY <1>3, <1>4
  <2>1. \A i \in 1 .. Len(pre) + Len(sv) :
          \/ i \in 1 .. Len(pre) /\ a[i] = pre[i]
          \/ i - Len(pre) \in 1 .. Len(sv) /\ a[i] = sv[i - Len(pre)]
    BY <2>0, ConcatAt
  <2>2. \A j \in 1 .. Len(sv) : sv[j] \in SlotEvents
    BY <1>1
  <2>. QED  BY <2>1, <2>2
<1>9. \A i \in 1 .. Len(c) + Len(sw) : (i \in 1 .. Len(c) /\ b[i] = c[i]) \/ b[i] \in SlotEvents
  <2>0. c \in Seq(E) /\ sw \in Seq(E)
    BY <1>2, <1>4
  <2>1. \A i \in 1 .. Len(c) + Len(sw) :
          \/ i \in 1 .. Len(c) /\ b[i] = c[i]
          \/ i - Len(c) \in 1 .. Len(sw) /\ b[i] = sw[i - Len(c)]
    BY <2>0, ConcatAt
  <2>2. \A j \in 1 .. Len(sw) : sw[j] \in SlotEvents
    BY <1>1
  <2>. QED  BY <2>1, <2>2
<1>10. (c = <<>> /\ Len(c) = 0) \/ (Len(c) = 1 /\ c = <<c[1]>>)
  BY <1>2
<1>. HIDE DEF a, b
<1>11. /\ body \in Seq(E) /\ Len(body) = Len(a) + Len(b) /\ Len(a) \in Nat /\ Len(b) \in Nat
       /\ \A i \in 1 .. Len(a) : body[i] = a[i]
       /\ \A i \in 1 .. Len(b) : body[Len(a) + i] = b[i]
  <2>1. a \in Seq(E) /\ b \in Seq(E)
    BY <1>6, <1>7
  <2>. QED  BY <2>1, ConcatParts
<1>12. /\ DOMAIN body = 1 .. Len(a) + Len(b)
       /\ \A i \in 1 .. Len(a) + Len(b) :
            \/ i \in 1 .. Len(a) /\ body[i] = a[i]
            \/ i - Len(a) \in 1 .. Len(b) /\ body[i] = b[i - Len(a)]
  <2>1. a \in Seq(E) /\ b \in Seq(E)
    BY <1>6, <1>7
  <2>. QED  BY <2>1, ConcatAt
<1>. HIDE DEF body
<1>13. ASSUME NEW i \in DOMAIN body
       PROVE  \/ ~active /\ i = 1 /\ body[i] = ActiveLoop(form)
              \/ body[i] \in SlotEvents
              \/ i = k /\ c = <<body[i]>>
  <2>1. CASE i \in 1 .. Len(a) /\ body[i] = a[i]
    <3>1. (i \in 1 .. Len(pre) /\ a[i] = pre[i]) \/ a[i] \in SlotEvents
      BY <1>6, <1>8, <2>1
    <3>2. i \in 1 .. Len(pre) => ~active /\ i = 1
      BY <1>3
    <3>. QED  BY <1>3, <2>1, <3>1, <3>2
  <2>2. CASE i - Len(a) \in 1 .. Len(b) /\ body[i] = b[i - Len(a)]
    <3>. DEFINE j == i - Len(a)
    <3>1. (j \in 1 .. Len(c) /\ b[j] = c[j]) \/ b[j] \in SlotEvents
      BY <1>7, <1>9, <2>2
    <3>2. ASSUME j \in 1 .. Len(c) PROVE i = k /\ c = <<c[j]>>
      <4>1. i \in Nat /\ j = 1
        <5>1. Len(c) = 0 \/ Len(c) = 1
          BY <1>10
        <5>2. j = 1
          <6>. DEFINE n == Len(c)
          <6>1. (n = 0 \/ n = 1) /\ j \in 1 .. n
            BY <3>2, <5>1
          <6>. HIDE DEF j, n
          <6>. QED  BY <6>1
        <5>3. i \in 1 .. Len(a) + Len(b) /\ Len(a) + Len(b) \in Nat
          BY <1>11, <1>12
        <5>. QED  BY <5>2, <5>3
      <4>2. i = k
        BY <1>5, <1>6, <4>1
      <4>. QED  BY <1>10, <3>2, <4>1, <4>2
    <3>. QED  BY <2>2, <3>1, <3>2
  <2>. QED  BY <1>12, <2>1, <2>2
<1>14. k \in Nat \ {0}
  BY <1>5, <1>6
<1>15. ASSUME c # <<>> PROVE k \in DOMAIN body /\ c = <<body[k]>>
  <2>1. 1 \in 1 .. Len(b) /\ k = Len(a) + 1 /\ b[1] = c[1]
    BY <1>5, <1>6, <1>7, <1>10, <1>15
  <2>2. k \in DOMAIN body /\ body[k] = b[1]
    BY <1>11, <1>12, <2>1
  <2>. QED  BY <1>10, <1>15, <2>1, <2>2
<1>16. ASSUME ~active PROVE k > 1 /\ 1 \in DOMAIN body /\ body[1] = ActiveLoop(form)
  <2>1. Len(pre) = 1 /\ pre[1] = ActiveLoop(form)
    BY <1>3, <1>16
  <2>2. k > 1 /\ 1 \in 1 .. Len(a) /\ 1 \in 1 .. Len(pre)
    BY <1>5, <1>6, <2>1
  <2>3. body[1] = a[1] /\ a[1] = pre[1]
    BY <1>6, <1>11, <2>2
  <2>. QED  BY <1>11, <1>12, <2>1, <2>2, <2>3
<1>17. ASSUME NEW s \in DOMAIN v PROVE \E i \in DOMAIN body : body[i] = SlotSet(s, v[s])
  <2>1. PICK j \in DOMAIN sv : sv[j] = SlotSet(s, v[s])
    <3>1. DOMAIN v \in SUBSET Slots /\ v \in [DOMAIN v -> Values]
      BY DEF SomeValues
    <3>. QED  BY <3>1, SetAllEvents DEF sv
  <2>2. j \in 1 .. Len(sv)
    BY <1>4, <2>1
  <2>3. a[Len(pre) + j] = sv[j] /\ Len(pre) + j \in 1 .. Len(a)
    BY <1>6, <2>2
  <2>. QED  BY <1>11, <1>12, <2>1, <2>3
<1>18. ASSUME NEW s \in DOMAIN w PROVE \E i \in DOMAIN body : body[i] = SlotSet(s, w[s])
  <2>1. PICK j \in DOMAIN sw : sw[j] = SlotSet(s, w[s])
    <3>1. DOMAIN w \in SUBSET Slots /\ w \in [DOMAIN w -> Values]
      BY DEF SomeValues
    <3>. QED  BY <3>1, SetAllEvents DEF sw
  <2>2. j \in 1 .. Len(sw)
    BY <1>4, <2>1
  <2>. DEFINE i == Len(c) + j
  <2>3. b[i] = sw[j] /\ i \in 1 .. Len(b)
    BY <1>7, <2>2
  <2>. HIDE DEF i
  <2>4. body[Len(a) + i] = b[i] /\ Len(a) + i \in DOMAIN body
    BY <1>11, <1>12, <2>3
  <2>. QED  BY <2>1, <2>3, <2>4
<1>. QED  BY <1>6, <1>7, <1>11, <1>13, <1>14, <1>15, <1>16, <1>17, <1>18
          DEF Body, body, a, b, pre, sv, sw, k, E

\* What the events of a form's run say of its course.
LEMMA BodyIs ==
  ASSUME NEW form \in Forms, NEW active \in BOOLEAN, NEW v \in SomeValues, NEW w \in SomeValues,
         NEW c \in Closings(form)
  PROVE  LET body == Body(form, active, v, c, w)
         IN  /\ Rejects(body) <=> c = <<ActionExecutionRejected(form)>>
             /\ \A s : c = <<SlotSet(REQUESTED_SLOT, s)>> =>
                  /\ Requests(body) = {Place(form, active, v)}
                  /\ body[Place(form, active, v)].value = s
             /\ Requests(body) # {} => \E s : c = <<SlotSet(REQUESTED_SLOT, s)>>
             /\ IsDone(body) <=> c \in {<<SlotSet(REQUESTED_SLOT, NoName)>>, <<ActiveLoop(NoName)>>}
             /\ \A i \in LoopChanges(body) :
                  body[i] = ActiveLoop(form) \/ c = <<ActiveLoop(NoName)>>
             /\ LoopChanges(body) = DOMAIN body /\ ~IsDone(body) =>
                  c = <<>> /\ DOMAIN v = {} /\ DOMAIN w = {}
<1>. DEFINE body == Body(form, active, v, c, w)
            k == Place(form, active, v)
<1>1. /\ body \in Seq(RunEvents(form)) /\ k \in Nat \ {0}
      /\ \A i \in DOMAIN body :
           \/ ~active /\ i = 1 /\ body[i] = ActiveLoop(form)
           \/ body[i] \in SlotEvents
           \/ i = k /\ c = <<body[i]>>
      /\ c # <<>> => k \in DOMAIN body /\ c = <<body[k]>>
      /\ ~active => k > 1 /\ 1 \in DOMAIN body /\ body[1] = ActiveLoop(form)
      /\ \A s \in DOMAIN v : \E i \in DOMAIN body : body[i] = SlotSet(s, v[s])
      /\ \A s \in DOMAIN w : \E i \in DOMAIN body : body[i] = SlotSet(s, w[s])
  BY BodyEvents
<1>. HIDE DEF body, k
<1>2. \A e \in SlotEvents : e.type = "slot" /\ e.name # REQUESTED_SLOT
  BY FormsAssumption DEF SlotEvents, SlotSet
<1>3. ActiveLoop(form).type = "active_loop" /\ ActiveLoop(form).name = form /\ form # NoName
  BY FormsAssumption DEF ActiveLoop, Event
<1>4. \A e, f : <<e>> = <<f>> => e = f
  OBVIOUS
<1>5. \/ c = <<>> \/ c = <<ActionExecutionRejected(form)>> \/ c = <<ActiveLoop(NoName)>>
      \/ \E s : c = <<SlotSet(REQUESTED_SLOT, s)>>
  BY DEF Closings
<1>6. /\ ActionExecutionRejected(form).type = "rejected"
      /\ ActiveLoop(NoName).type = "active_loop" /\ ActiveLoop(NoName).name = NoName
      /\ \A s : /\ SlotSet(REQUESTED_SLOT, s).type = "slot" /\ SlotSet(REQUESTED_SLOT, s).name = REQUESTED_SLOT
                /\ SlotSet(REQUESTED_SLOT, s).value = s
  BY DEF ActionExecutionRejected, ActiveLoop, Event, SlotSet
<1>7. Rejects(body) <=> c = <<ActionExecutionRejected(form)>>
  <2>1. ASSUME NEW i \in DOMAIN body, body[i].type = "rejected" PROVE c = <<ActionExecutionRejected(form)>>
    <3>1. c = <<body[i]>>
      BY <1>1, <1>2, <1>3, <2>1
    <3>2. body[i] = ActionExecutionRejected(form) \/ body[i] = ActiveLoop(NoName) \/ \E s : body[i] = SlotSet(REQUESTED_SLOT, s)
      BY <1>4, <1>5, <3>1
    <3>. QED  BY <1>6, <2>1, <3>1, <3>2
  <2>2. ASSUME c = <<ActionExecutionRejected(form)>> PROVE \E i \in DOMAIN body : body[i].type = "rejected"
    <3>1. c # <<>>
      BY <2>2
    <3>2. k \in DOMAIN body /\ body[k] = ActionExecutionRejected(form)
      BY <1>1, <1>4, <2>2, <3>1
    <3>. QED  BY <1>6, <3>2
  <2>. QED  BY <2>1, <2>2 DEF Rejects
<1>8. ASSUME NEW i \in Requests(body) PROVE i = k /\ c = <<body[i]>> /\ c = <<SlotSet(REQUESTED_SLOT, body[i].value)>>
  <2>1. i \in DOMAIN body /\ body[i].type = "slot" /\ body[i].name = REQUESTED_SLOT
    BY DEF Requests, Is
  <2>2. i = k /\ c = <<body[i]>>
    BY <1>1, <1>2, <1>3, <2>1
  <2>3. body[i] = ActionExecutionRejected(form) \/ body[i] = ActiveLoop(NoName) \/ \E s : body[i] = SlotSet(REQUESTED_SLOT, s)
    BY <1>4, <1>5, <2>2
  <2>. QED  BY <1>6, <2>1, <2>2, <2>3
<1>9. ASSUME NEW s, c = <<SlotSet(REQUESTED_SLOT, s)>> PROVE Requests(body) = {k} /\ body[k].value = s
  <2>1. c # <<>>
    BY <1>9
  <2>2. k \in DOMAIN body /\ body[k] = SlotSet(REQUESTED_SLOT, s)
    BY <1>1, <1>4, <1>9, <2>1
  <2>3. k \in Requests(body)
    BY <1>6, <2>2 DEF Requests, Is
  <2>. QED  BY <1>6, <1>8, <2>2, <2>3
<1>10. ASSUME NEW i \in LoopChanges(body)
       PROVE  /\ \/ ~active /\ i = 1 /\ body[i] = ActiveLoop(form)
                 \/ i = k /\ body[i] = ActiveLoop(NoName) /\ c = <<ActiveLoop(NoName)>>
              /\ i \in DOMAIN body
  <2>1. i \in DOMAIN body /\ body[i].type = "active_loop"
    BY DEF LoopChanges
  <2>2. ASSUME i = k, c = <<body[i]>> PROVE body[i] = ActiveLoop(NoName)
    <3>1. body[i] = ActionExecutionRejected(form) \/ body[i] = ActiveLoop(NoName) \/ \E s : body[i] = SlotSet(REQUESTED_SLOT, s)
      BY <1>4, <1>5, <2>2
    <3>. QED  BY <1>6, <2>1, <3>1
  <2>. QED  BY <1>1, <1>2, <2>1, <2>2
<1>11. IsDone(body) <=> c \in {<<SlotSet(REQUESTED_SLOT, NoName)>>, <<ActiveLoop(NoName)>>}
  <2>0. /\ <<ActionExecutionRejected(form)>> # <<SlotSet(REQUESTED_SLOT, NoName)>>
        /\ <<ActionExecutionRejected(form)>> # <<ActiveLoop(NoName)>>
    BY <1>4, <1>6
  <2>1. ASSUME c = <<SlotSet(REQUESTED_SLOT, NoName)>> PROVE IsDone(body)
    <3>1. Requests(body) = {k} /\ body[k].value = NoName
      BY <1>9, <2>1
    <3>2. Max(Requests(body)) = k
      <4>1. {k} \in SUBSET Nat /\ {k} # {} /\ k \in Nat /\ \A n \in {k} : n =< k
        BY <1>1
      <4>. QED  BY <3>1, <4>1, MaxGreatest
    <3>. QED  BY <1>7, <2>0, <2>1, <3>1, <3>2 DEF IsDone
  <2>2. ASSUME c = <<ActiveLoop(NoName)>> PROVE IsDone(body)
    <3>1. k \in DOMAIN body /\ body[k] = ActiveLoop(NoName)
      <4>1. c # <<>>
        BY <2>2
      <4>. QED  BY <1>1, <1>4, <2>2, <4>1
    <3>2. k \in LoopChanges(body)
      BY <1>6, <3>1 DEF LoopChanges
    <3>3. \A i \in LoopChanges(body) : i \in Nat /\ i =< k
      BY <1>1, <1>10
    <3>4. Max(LoopChanges(body)) = k
      <4>1. LoopChanges(body) \in SUBSET Nat /\ LoopChanges(body) # {}
        BY <3>2, <3>3
      <4>2. Max(LoopChanges(body)) \in LoopChanges(body) /\ k =< Max(LoopChanges(body))
        BY <1>1, <3>2, <3>3, <4>1, MaxGreatest
      <4>. QED  BY <1>1, <3>3, <4>2
    <3>. QED  BY <1>6, <1>7, <2>0, <2>2, <3>1, <3>2, <3>4 DEF IsDone
  <2>3. ASSUME Requests(body) # {}, body[Max(Requests(body))].value = NoName
        PROVE  c = <<SlotSet(REQUESTED_SLOT, NoName)>>
    <3>1. PICK i : i \in Requests(body)
      BY <2>3
    <3>2. Requests(body) = {k}
      BY <1>8, <1>9, <3>1
    <3>3. Max({k}) = k
      <4>1. {k} \in SUBSET Nat /\ {k} # {} /\ k \in Nat /\ \A n \in {k} : n =< k
        BY <1>1
      <4>. QED  BY <4>1, MaxGreatest
    <3>. QED  BY <1>8, <2>3, <3>2, <3>3
  <2>4. ASSUME LoopChanges(body) # {}, body[Max(LoopChanges(body))].name = NoName
        PROVE  c = <<ActiveLoop(NoName)>>
    <3>1. \A i \in LoopChanges(body) : i \in Nat /\ i =< k
      BY <1>1, <1>10
    <3>2. Max(LoopChanges(body)) \in LoopChanges(body)
      <4>1. LoopChanges(body) \in SUBSET Nat
        BY <3>1
      <4>. QED  BY <1>1, <2>4, <3>1, <4>1, MaxGreatest
    <3>. QED  BY <1>3, <1>10, <2>4, <3>2
  <2>. QED  BY <2>1, <2>2, <2>3, <2>4 DEF IsDone
<1>12. ASSUME LoopChanges(body) = DOMAIN body, ~IsDone(body) PROVE c = <<>> /\ DOMAIN v = {} /\ DOMAIN w = {}
  <2>1. c = <<>>
    <3>1. SUFFICES ASSUME c # <<>> PROVE FALSE
      OBVIOUS
    <3>2. k \in LoopChanges(body)
      BY <1>1, <1>12, <3>1
    <3>. QED  BY <1>1, <1>10, <1>11, <1>12, <3>2
  <2>2. \A s \in DOMAIN v \union DOMAIN w, i \in DOMAIN body : body[i] # SlotSet(s, v[s]) /\ body[i] # SlotSet(s, w[s])
    <3>1. \A i \in DOMAIN body : body[i].type = "active_loop"
      BY <1>12 DEF LoopChanges
    <3>. QED  BY <3>1 DEF SlotSet
  <2>. QED  BY <1>1, <2>1, <2>2
<1>13. ASSUME NEW i \in LoopChanges(body) PROVE body[i] = ActiveLoop(form) \/ c = <<ActiveLoop(NoName)>>
  BY <1>10
<1>14. Requests(body) # {} => \E s : c = <<SlotSet(REQUESTED_SLOT, s)>>
  BY <1>8
<1>. QED  BY <1>7, <1>9, <1>11, <1>12, <1>13, <1>14 DEF body, k

\* What a form's run leaves of a slot it may have set twice.
FinalValue(t, v, w, s) ==
  IF s \in DOMAIN w THEN w[s] ELSE IF s \in DOMAIN v THEN v[s] ELSE t.slots[s]

LEMMA FilledType ==
  ASSUME NEW t \in AnyTracker, NEW v \in SomeValues
  PROVE  /\ UpdateWith(t, SetAll(v)) = FilledAll(t, v)
         /\ SetAll(v) \in Seq(FormEvents)
         /\ FilledAll(t, v) \in AnyTracker
<1>1. DOMAIN v \in SUBSET Slots /\ v \in [DOMAIN v -> Values]
  BY DEF SomeValues
<1>2. UpdateWith(t, SetAll(v)) = FilledAll(t, v) /\ SetAll(v) \in Seq(FormEvents)
  BY <1>1, UpdateSetAll, SetAllEvents
<1>. QED  BY <1>2, UpdateTyped

\* The events of a run leave the action and the count of executions alone.
LEMMA RunKeepsTurn ==
  ASSUME NEW form \in Forms, NEW t \in AnyTracker, NEW es \in Seq(RunEvents(form))
  PROVE  /\ UpdateWith(t, es) \in AnyTracker
         /\ UpdateWith(t, es).latest = t.latest /\ UpdateWith(t, es).executed = t.executed
<1>. DEFINE P == {u \in AnyTracker : u.latest = t.latest /\ u.executed = t.executed}
<1>1. ASSUME NEW u \in P, NEW e \in RunEvents(form) PROVE ApplyTo(u, e) \in P
  <2>1. ApplyTo(u, e) \in AnyTracker
    BY RunEventsTyped, ApplyType
  <2>2. e \in SlotEvents \union RequestEvents \/ e \in {ActiveLoop(form), ActiveLoop(NoName)}
          \/ e = ActionExecutionRejected(form)
    BY DEF RunEvents
  <2>3. ASSUME e \in SlotEvents \union RequestEvents PROVE ApplyTo(u, e).latest = u.latest /\ ApplyTo(u, e).executed = u.executed
    <3>1. PICK s, x : e = SlotSet(s, x)
      BY <2>3 DEF SlotEvents, RequestEvents
    <3>2. u \in AnyTracker
      OBVIOUS
    <3>. HIDE DEF P
    <3>3. /\ ApplyTo(u, SlotSet(s, x)).latest = u.latest
          /\ ApplyTo(u, SlotSet(s, x)).executed = u.executed
      BY <3>2, AfterSlot
    <3>. QED  BY <3>1, <3>3
  <2>4. ASSUME e \in {ActiveLoop(form), ActiveLoop(NoName)} PROVE ApplyTo(u, e).latest = u.latest /\ ApplyTo(u, e).executed = u.executed
    <3>1. PICK n : e = ActiveLoop(n)
      BY <2>4
    <3>. QED  BY <3>1, AfterLoop
  <2>5. ASSUME e = ActionExecutionRejected(form) PROVE ApplyTo(u, e).latest = u.latest /\ ApplyTo(u, e).executed = u.executed
    BY <2>5, AfterRejection
  <2>. QED  BY <2>1, <2>2, <2>3, <2>4, <2>5
<1>2. UpdateWith(t, es) \in P
  <2>1. Keeps(P, RunEvents(form)) /\ t \in P
    BY <1>1 DEF Keeps
  <2>. HIDE DEF P
  <2>. QED  BY <2>1, UpdateStays
<1>. QED  BY <1>2

LEMMA RunUpdates ==
  ASSUME NEW form \in Forms, NEW t \in AnyTracker, NEW es \in Seq(RunEvents(form)),
         NEW e \in RunEvents(form)
  PROVE  /\ UpdateWith(t, Append(es, e)) = ApplyTo(UpdateWith(t, es), e)
         /\ Append(es, e) \in Seq(RunEvents(form))
<1>1. RunEvents(form) \subseteq FormEvents
  BY RunEventsTyped
<1>2. Append(es, e) \in Seq(RunEvents(form)) /\ es \in Seq(FormEvents) /\ e \in FormEvents
  <2>. DEFINE E == RunEvents(form)
  <2>. HIDE DEF E
  <2>1. es \in Seq(E) /\ e \in E /\ E \subseteq FormEvents
    BY <1>1 DEF E
  <2>2. Append(es, e) \in Seq(E) /\ es \in Seq(FormEvents) /\ e \in FormEvents
    BY <2>1
  <2>. QED  BY <2>2 DEF E
<1>. QED  BY <1>2, UpdateMore

LEMMA BodyUpdates ==
  ASSUME NEW form \in Forms, NEW t \in AnyTracker, NEW v \in SomeValues, NEW w \in SomeValues,
         NEW c \in Closings(form)
  PROVE  LET u == UpdateWith(t, Body(form, t.loop = form, v, c, w))
         IN  /\ u \in AnyTracker
             /\ \A s \in Slots : u.slots[s] = FinalValue(t, v, w, s)
             /\ u.loop = IF c = <<ActiveLoop(NoName)>> THEN NoName ELSE form
             /\ c = <<ActionExecutionRejected(form)>> => u.rejected
             /\ \A s : c = <<SlotSet(REQUESTED_SLOT, s)>> => Requested(u) = s
<1>. DEFINE active == (t.loop = form)
            pre == Start(form, active)
            t1 == UpdateWith(t, pre)
            t2 == FilledAll(t1, v)
            t3 == UpdateWith(t2, c)
            u == FilledAll(t3, w)
<1>1. pre \in Seq(FormEvents) /\ c \in Seq(FormEvents) /\ RunEvents(form) \subseteq FormEvents
  <2>1. c \in Seq(RunEvents(form)) /\ RunEvents(form) \subseteq FormEvents
    BY RunEventsTyped
  <2>2. ActiveLoop(form) \in FormEvents
    BY DEF FormEvents, LoopEvents, Names
  <2>3. <<ActiveLoop(form)>> \in Seq(FormEvents) /\ <<>> \in Seq(FormEvents) /\ c \in Seq(FormEvents)
    <3>. DEFINE E == RunEvents(form)
    <3>1. E \subseteq FormEvents /\ c \in Seq(E)
      BY <2>1
    <3>. HIDE DEF E
    <3>. QED  BY <2>2, <3>1
  <2>. QED  BY <2>1, <2>3 DEF Start
<1>2. /\ t1 \in AnyTracker /\ t1.loop = form
      /\ \A s \in Slots : t1.slots[s] = t.slots[s]
  <2>1. CASE active
    BY <2>1, UpdateEmpty DEF Start
  <2>2. CASE ~active
    <3>1. ActiveLoop(form) \in FormEvents
      BY DEF FormEvents, LoopEvents, Names
    <3>2. t1 = ApplyTo(t, ActiveLoop(form))
      BY <2>2, <3>1, UpdateOne DEF Start
    <3>3. t1 \in AnyTracker
      BY <3>1, <3>2, ApplyType
    <3>. HIDE DEF t1
    <3>. QED  BY <3>2, <3>3, AfterLoop
  <2>. QED  BY <2>1, <2>2
<1>3. /\ t2 \in AnyTracker /\ t2 = UpdateWith(t1, SetAll(v)) /\ SetAll(v) \in Seq(FormEvents)
      /\ SetAll(w) \in Seq(FormEvents)
  BY <1>2, FilledType
<1>4. t2.loop = form /\ \A s \in Slots : t2.slots[s] = IF s \in DOMAIN v THEN v[s] ELSE t.slots[s]
  BY <1>2 DEF FilledAll, AnyTracker
<1>5. /\ t3 \in AnyTracker
      /\ \A s \in Slots : t3.slots[s] = t2.slots[s]
      /\ t3.loop = IF c = <<ActiveLoop(NoName)>> THEN NoName ELSE form
      /\ c = <<ActionExecutionRejected(form)>> => t3.rejected
      /\ \A s : c = <<SlotSet(REQUESTED_SLOT, s)>> => Requested(t3) = s
  <2>1. t3 \in AnyTracker
    BY <1>1, <1>3, UpdateTyped
  <2>2. \A e, f : <<e>> = <<f>> => e = f
    OBVIOUS
  <2>3. \A e \in RunEvents(form) : c = <<e>> => t3 = ApplyTo(t2, e)
    BY <1>1, <1>3, UpdateOne
  <2>4. CASE c = <<>>
    <3>1. t3 = t2
      BY <2>4, UpdateEmpty
    <3>2. \A e : c # <<e>>
      BY <2>4
    <3>. QED  BY <1>4, <2>1, <3>1, <3>2
  <2>5. CASE c = <<ActionExecutionRejected(form)>>
    <3>1. t3 = ApplyTo(t2, ActionExecutionRejected(form))
      BY <2>3, <2>5 DEF RunEvents
    <3>2. c # <<ActiveLoop(NoName)>> /\ \A s : c # <<SlotSet(REQUESTED_SLOT, s)>>
      BY <2>2, <2>5 DEF ActiveLoop, ActionExecutionRejected, Event, SlotSet
    <3>3. t3.slots = t2.slots /\ t3.loop = form /\ t3.rejected
      <4>. HIDE DEF t2, t3
      <4>. QED  BY <1>3, <1>4, <3>1, AfterRejection
    <3>. HIDE DEF t2, t3
    <3>. QED  BY <2>1, <2>5, <3>2, <3>3
  <2>6. CASE c = <<ActiveLoop(NoName)>>
    <3>1. t3 = ApplyTo(t2, ActiveLoop(NoName))
      BY <2>3, <2>6 DEF RunEvents
    <3>2. c # <<ActionExecutionRejected(form)>> /\ \A s : c # <<SlotSet(REQUESTED_SLOT, s)>>
      BY <2>2, <2>6 DEF ActiveLoop, ActionExecutionRejected, Event, SlotSet
    <3>3. t3.slots = t2.slots /\ t3.loop = NoName
      <4>. HIDE DEF t2, t3
      <4>. QED  BY <1>3, <3>1, AfterLoop
    <3>. HIDE DEF t2, t3
    <3>. QED  BY <2>1, <2>6, <3>2, <3>3
  <2>7. ASSUME NEW s, c = <<SlotSet(REQUESTED_SLOT, s)>>
        PROVE  /\ \A q \in Slots : t3.slots[q] = t2.slots[q]
               /\ t3.loop = IF c = <<ActiveLoop(NoName)>> THEN NoName ELSE form
               /\ c = <<ActionExecutionRejected(form)>> => t3.rejected
               /\ \A q : c = <<SlotSet(REQUESTED_SLOT, q)>> => Requested(t3) = q
    <3>1. SlotSet(REQUESTED_SLOT, s) \in RunEvents(form)
      <4>1. c \in Seq(RunEvents(form)) /\ \E e \in RunEvents(form) : c = <<e>>
        BY <2>7, RunEventsTyped
      <4>. QED  BY <2>2, <2>7, <4>1
    <3>2. t3 = ApplyTo(t2, SlotSet(REQUESTED_SLOT, s))
      BY <2>3, <2>7, <3>1
    <3>3. c # <<ActionExecutionRejected(form)>> /\ c # <<ActiveLoop(NoName)>>
      BY <2>2, <2>7 DEF ActiveLoop, ActionExecutionRejected, Event, SlotSet
    <3>4. \A q : c = <<SlotSet(REQUESTED_SLOT, q)>> => q = s
      BY <2>2, <2>7 DEF SlotSet
    <3>5. REQUESTED_SLOT \notin Slots
      BY FormsAssumption
    <3>6. /\ \A q \in Slots \union {REQUESTED_SLOT} :
               t3.slots[q] = IF q = REQUESTED_SLOT THEN s ELSE t2.slots[q]
          /\ t3.loop = form
      <4>1. t2.loop = form /\ t2 \in AnyTracker
        BY <1>3, <1>4
      <4>. HIDE DEF t2, t3
      <4>. QED  BY <4>1, <3>2, AfterSlot
    <3>. HIDE DEF t2, t3
    <3>. QED  BY <3>3, <3>4, <3>5, <3>6 DEF Requested
  <2>. QED  BY <2>1, <2>4, <2>5, <2>6, <2>7 DEF Closings
<1>6. u \in AnyTracker /\ u = UpdateWith(t3, SetAll(w))
  BY <1>5, FilledType
<1>7. /\ \A s \in Slots : u.slots[s] = FinalValue(t, v, w, s)
      /\ u.loop = t3.loop /\ u.rejected = t3.rejected /\ Requested(u) = Requested(t3)
  <2>1. DOMAIN w \subseteq Slots /\ REQUESTED_SLOT \notin Slots
    BY FormsAssumption DEF SomeValues
  <2>. HIDE DEF t3, t2, t1, pre
  <2>. QED  BY <1>4, <1>5, <2>1 DEF FilledAll, AnyTracker, FinalValue, Requested
<1>8. UpdateWith(t, Body(form, active, v, c, w)) = u
  <2>1. /\ pre \o SetAll(v) \in Seq(FormEvents) /\ c \o SetAll(w) \in Seq(FormEvents)
    BY <1>1, <1>3
  <2>2. UpdateWith(t, (pre \o SetAll(v)) \o (c \o SetAll(w)))
          = UpdateWith(UpdateWith(t, pre \o SetAll(v)), c \o SetAll(w))
    BY <2>1, UpdateConcat
  <2>3. UpdateWith(t, pre \o SetAll(v)) = t2
    BY <1>1, <1>3, UpdateConcat
  <2>4. UpdateWith(t2, c \o SetAll(w)) = u
    BY <1>1, <1>3, <1>6, UpdateConcat
  <2>. QED  BY <2>2, <2>3, <2>4 DEF Body
<1>. QED  BY <1>5, <1>6, <1>7, <1>8

-----------------------------------------------------------------------------
(* What validations, activations and runs consist of.                       *)

\* A request is for a required slot that is left empty.
RequestsEmpty(form, t, v, c, w) ==
  \A s : c = <<SlotSet(REQUESTED_SLOT, s)>> /\ s # NoName =>
    s \in RequiredOf(form) /\ FinalValue(t, v, w, s) = Unset

\* Each required slot that is filled has been judged.
Judged(form, t, v, w) == \A s \in RequiredOf(form) : FinalValue(t, v, w, s) # "raw"

LEMMA SomeValuesMember == \A D \in SUBSET Slots : \A v \in [D -> Values] : v \in SomeValues /\ DOMAIN v = D
BY DEF SomeValues

LEMMA ValidationParts ==
  ASSUME NEW form \in Forms, NEW t \in AnyTracker, NEW D \in SUBSET Slots,
         NEW events \in Validations(form, t, D)
  PROVE  \E v \in SomeValues, c \in Closings(form) :
           /\ events = SetAll(v) \o c
           /\ form \in Validating => DOMAIN v = D /\ \A s \in D : v[s] \in {"valid", Unset}
           /\ form \notin Validating => v = Nothing /\ c = <<>>
           /\ RequestsEmpty(form, t, v, c, Nothing)
<1>0. Nothing \in SomeValues /\ SetAll(Nothing) = <<>> /\ DOMAIN Nothing = {}
  BY NothingSet, SomeValuesMember
<1>1. CASE form \notin Validating
  <2>1. events = <<>>
    BY <1>1 DEF Validations
  <2>2. <<>> \in Closings(form) /\ <<>> \o <<>> = <<>> /\ \A e : <<>> # <<e>>
    BY DEF Closings
  <2>. QED  BY <1>0, <1>1, <2>1, <2>2 DEF RequestsEmpty
<1>2. CASE form \in Validating
  <2>. DEFINE Left(values) == [s \in Slots |-> IF s \in D THEN values[s] ELSE t.slots[s]]
              Closing(values) ==
                {<<>>, <<ActionExecutionRejected(form)>>}
                  \union {<<SlotSet(REQUESTED_SLOT, s)>> : s \in Missing(form, Left(values))}
                  \union IF form \in Stopping
                           THEN {<<SlotSet(REQUESTED_SLOT, NoName)>>, <<ActiveLoop(NoName)>>} ELSE {}
  <2>0. PICK v \in [D -> {"valid", Unset}] : \E c \in Closing(v) : events = SetAll(v) \o c
    BY <1>2 DEF Validations
  <2>1. PICK c \in Closing(v) : events = SetAll(v) \o c
    BY <2>0
  <2>2. v \in SomeValues /\ DOMAIN v = D
    BY SomeValuesMember DEF Values
  <2>3. c \in Closings(form)
    BY DEF Closings, Missing
  <2>4. RequestsEmpty(form, t, v, c, Nothing)
    <3>1. SUFFICES ASSUME NEW s, c = <<SlotSet(REQUESTED_SLOT, s)>>, s # NoName
                   PROVE  s \in RequiredOf(form) /\ FinalValue(t, v, Nothing, s) = Unset
      BY DEF RequestsEmpty
    <3>2. \A e, f : <<e>> = <<f>> => e = f
      OBVIOUS
    <3>3. s \in Missing(form, Left(v))
      <4>1. /\ SlotSet(REQUESTED_SLOT, s) # ActionExecutionRejected(form)
            /\ SlotSet(REQUESTED_SLOT, s) # ActiveLoop(NoName)
            /\ \A q : SlotSet(REQUESTED_SLOT, s) = SlotSet(REQUESTED_SLOT, q) => s = q
            /\ c # <<>>
        BY <3>1 DEF SlotSet, ActionExecutionRejected, ActiveLoop, Event
      <4>2. \E q \in Missing(form, Left(v)) : c = <<SlotSet(REQUESTED_SLOT, q)>>
        <5>. HIDE DEF Left
        <5>. QED  BY <3>1, <3>2, <4>1
      <4>. QED  BY <3>1, <3>2, <4>1, <4>2
    <3>4. s \in RequiredOf(form) /\ Left(v)[s] = Unset /\ s \in Slots
      BY <3>3, RunEventsTyped DEF Missing
    <3>. QED  BY <1>0, <2>2, <3>4 DEF FinalValue
  <2>. QED  BY <1>2, <2>1, <2>2, <2>3, <2>4
<1>. QED  BY <1>1, <1>2

LEMMA ExtractionType ==
  ASSUME NEW t, NEW message \in SUBSET Mappings, NEW found \in Extractions(t, message)
  PROVE  found \in SomeValues /\ DOMAIN found \subseteq Slots
<1>1. PICK D : D = {m.slot : m \in {n \in message : Matches(t, n)}} /\ found \in [D -> {"raw", Unset}]
  BY DEF Extractions
<1>2. D \subseteq Slots
  BY <1>1, FormsAssumption
<1>3. found \in [D -> Values]
  BY <1>1 DEF Values
<1>. QED  BY <1>2, <1>3, SomeValuesMember

LEMMA PartsTyped ==
  ASSUME NEW form \in Forms, NEW v \in SomeValues, NEW c \in Closings(form)
  PROVE  /\ <<ActiveLoop(form)>> \in Seq(RunEvents(form))
         /\ SetAll(v) \in Seq(RunEvents(form)) /\ c \in Seq(RunEvents(form))
         /\ <<>> \in Closings(form) /\ Nothing \in SomeValues /\ SetAll(Nothing) = <<>>
<1>. DEFINE E == RunEvents(form)
<1>1. ActiveLoop(form) \in E /\ SlotEvents \subseteq E
  BY DEF RunEvents
<1>2. c \in Seq(E)
  BY RunEventsTyped
<1>3. SetAll(v) \in Seq(SlotEvents)
  BY SetAllEvents DEF SomeValues
<1>4. <<>> \in Closings(form) /\ Nothing \in SomeValues /\ SetAll(Nothing) = <<>>
  BY NothingSet, SomeValuesMember DEF Closings
<1>. HIDE DEF E
<1>5. <<ActiveLoop(form)>> \in Seq(E) /\ SetAll(v) \in Seq(E)
  BY <1>1, <1>3
<1>. QED  BY <1>2, <1>4, <1>5 DEF E

LEMMA BodyForms ==
  ASSUME NEW form \in Forms, NEW v \in SomeValues, NEW w \in SomeValues, NEW c \in Closings(form)
  PROVE  /\ <<ActiveLoop(form)>> \o ((SetAll(v) \o c) \o SetAll(w)) = Body(form, FALSE, v, c, w)
         /\ <<ActiveLoop(form)>> \o SetAll(v) = Body(form, FALSE, v, <<>>, Nothing)
         /\ <<ActiveLoop(form)>> \o (SetAll(v) \o c) = Body(form, FALSE, v, c, Nothing)
         /\ SetAll(v) \o c = Body(form, TRUE, v, c, Nothing)
         /\ <<ActiveLoop(form)>> = Body(form, FALSE, Nothing, <<>>, Nothing)
         /\ <<>> = Body(form, TRUE, Nothing, <<>>, Nothing)
<1>. DEFINE E == RunEvents(form)
            pre == <<ActiveLoop(form)>>
            sv == SetAll(v)
            sw == SetAll(w)
<1>1. pre \in Seq(E) /\ sv \in Seq(E) /\ sw \in Seq(E) /\ c \in Seq(E) /\ SetAll(Nothing) = <<>>
  BY PartsTyped
<1>. HIDE DEF E, pre, sv, sw
<1>2. ASSUME NEW a \in Seq(E), NEW b \in Seq(E), NEW d \in Seq(E)
      PROVE  /\ a \o b \in Seq(E)
             /\ (a \o b) \o d = a \o (b \o d)
             /\ a \o <<>> = a /\ <<>> \o a = a
  <2>1. a \o b \in Seq(E)
    BY ConcatProperties
  <2>2. (a \o b) \o d = a \o (b \o d)
    BY ConcatAssociative
  <2>3. a \o <<>> = a /\ <<>> \o a = a
    BY ConcatEmptySeq
  <2>. QED  BY <2>1, <2>2, <2>3
<1>3. pre \o ((sv \o c) \o sw) = (pre \o sv) \o (c \o sw)
  <2>1. (sv \o c) \o sw = sv \o (c \o sw) /\ c \o sw \in Seq(E)
    BY <1>1, <1>2
  <2>. DEFINE rest == c \o sw
  <2>2. rest \in Seq(E)
    BY <2>1
  <2>. HIDE DEF rest
  <2>3. (pre \o sv) \o rest = pre \o (sv \o rest)
    BY <1>1, <1>2, <2>2
  <2>. QED  BY <2>1, <2>3 DEF rest
<1>4. <<>> \o <<>> = <<>>
  OBVIOUS
<1>5. pre \o sv = (pre \o sv) \o (<<>> \o <<>>)
  <2>1. pre \o sv \in Seq(E)
    BY <1>1, <1>2
  <2>. QED  BY <1>1, <1>2, <1>4, <2>1
<1>6. pre \o (sv \o c) = (pre \o sv) \o (c \o <<>>)
  BY <1>1, <1>2
<1>7. sv \o c = (<<>> \o sv) \o (c \o <<>>)
  BY <1>1, <1>2
<1>8. pre = (pre \o <<>>) \o (<<>> \o <<>>)
  BY <1>1, <1>2, <1>4
<1>. QED  BY <1>1, <1>3, <1>4, <1>5, <1>6, <1>7, <1>8 DEF Body, Start, pre, sv, sw

\* The slots that a validation sets.
LEMMA SlotsOf ==
  ASSUME NEW form \in Forms, NEW v \in SomeValues, NEW c \in Closings(form)
  PROVE  LET events == SetAll(v) \o c
         IN  \A s \in Slots : (\E i \in DOMAIN events : Is(events[i], "slot", s)) <=> s \in DOMAIN v
<1>. DEFINE E == RunEvents(form)
            sv == SetAll(v)
            events == sv \o c
<1>1. sv \in Seq(E) /\ c \in Seq(E)
  BY PartsTyped
<1>2. DOMAIN v \in SUBSET Slots /\ v \in [DOMAIN v -> Values]
  BY DEF SomeValues
<1>3. /\ sv \in Seq({SlotSet(s, v[s]) : s \in DOMAIN v})
      /\ \A s \in DOMAIN v : \E i \in DOMAIN sv : sv[i] = SlotSet(s, v[s])
  BY <1>2, SetAllEvents
<1>. HIDE DEF E, sv
<1>4. \A i \in 1 .. Len(sv) : \E s \in DOMAIN v : sv[i] = SlotSet(s, v[s])
  <2>. DEFINE S == {SlotSet(s, v[s]) : s \in DOMAIN v}
  <2>1. \A i \in 1 .. Len(sv) : sv[i] \in S
    <3>1. sv \in Seq(S)
      BY <1>3
    <3>. HIDE DEF S
    <3>. QED  BY <3>1
  <2>. QED  BY <2>1
<1>5. \A i \in 1 .. Len(c), s \in Slots : ~Is(c[i], "slot", s)
  <2>1. SUFFICES ASSUME NEW i \in 1 .. Len(c), NEW s \in Slots, Is(c[i], "slot", s) PROVE FALSE
    OBVIOUS
  <2>2. c[i].type = "slot" /\ c[i].name # REQUESTED_SLOT
    BY <2>1, FormsAssumption DEF Is
  <2>3. \/ c = <<>> \/ c = <<ActionExecutionRejected(form)>> \/ c = <<ActiveLoop(NoName)>>
        \/ \E q : c = <<SlotSet(REQUESTED_SLOT, q)>>
    BY DEF Closings
  <2>4. \A e : c = <<e>> => c[i] = e
    BY <2>1
  <2>5. c # <<>>
    BY <2>1
  <2>6. \/ c[i] = ActionExecutionRejected(form) \/ c[i] = ActiveLoop(NoName)
        \/ \E q : c[i] = SlotSet(REQUESTED_SLOT, q)
    BY <2>3, <2>4, <2>5
  <2>7. /\ ActionExecutionRejected(form).type # "slot" /\ ActiveLoop(NoName).type # "slot"
        /\ \A q : SlotSet(REQUESTED_SLOT, q).name = REQUESTED_SLOT
    BY DEF ActionExecutionRejected, ActiveLoop, Event, SlotSet
  <2>. QED  BY <2>2, <2>6, <2>7
<1>6. /\ Len(sv) \in Nat /\ Len(c) \in Nat /\ DOMAIN events = 1 .. Len(sv) + Len(c)
      /\ \A i \in 1 .. Len(sv) + Len(c) :
           \/ i \in 1 .. Len(sv) /\ events[i] = sv[i]
           \/ i - Len(sv) \in 1 .. Len(c) /\ events[i] = c[i - Len(sv)]
  BY <1>1, ConcatAt
<1>7. \A i \in 1 .. Len(sv) : events[i] = sv[i]
  BY <1>1, ConcatParts
<1>. HIDE DEF events
<1>8. ASSUME NEW s \in Slots, NEW i \in DOMAIN events, Is(events[i], "slot", s) PROVE s \in DOMAIN v
  <2>1. \A q : SlotSet(q, v[q]).name = q
    BY DEF SlotSet
  <2>2. CASE i \in 1 .. Len(sv) /\ events[i] = sv[i]
    BY <1>4, <1>8, <2>1, <2>2 DEF Is
  <2>3. CASE i - Len(sv) \in 1 .. Len(c) /\ events[i] = c[i - Len(sv)]
    BY <1>5, <1>8, <2>3
  <2>. QED  BY <1>6, <2>2, <2>3
<1>9. ASSUME NEW s \in DOMAIN v PROVE \E i \in DOMAIN events : Is(events[i], "slot", s)
  <2>1. PICK i \in DOMAIN sv : sv[i] = SlotSet(s, v[s])
    BY <1>3
  <2>2. i \in 1 .. Len(sv)
    BY <1>1, <2>1
  <2>3. i \in DOMAIN events /\ events[i] = SlotSet(s, v[s])
    BY <1>6, <1>7, <2>1, <2>2
  <2>. QED  BY <2>3 DEF Is, SlotSet
<1>. QED  BY <1>8, <1>9 DEF events, sv

LEMMA ActivationParts ==
  ASSUME NEW form \in Forms, NEW t \in AnyTracker, NEW message \in SUBSET Mappings,
         NEW a \in Activations(form, t, message)
  PROVE  \E v \in SomeValues, w \in SomeValues, c \in Closings(form) :
           /\ a = Body(form, FALSE, v, c, w)
           /\ RequestsEmpty(form, t, v, c, w)
           /\ form \in Validating => Judged(form, t, v, w)
<1>. DEFINE active == ApplyTo(t, ActiveLoop(form))
            Filled1(found) == UpdateWith(active, SetAll(found))
            Prefilled(found) == RequiredOf(form) \ Missing(form, Filled1(found).slots)
            Rest(found, events) ==
              [s \in {s \in DOMAIN found : \A i \in DOMAIN events : ~Is(events[i], "slot", s)}
                 |-> found[s]]
<1>1. PICK found \in Extractions(active, message) :
        \/ Prefilled(found) = {} /\ a = <<ActiveLoop(form)>> \o SetAll(found)
        \/ \E events \in Validations(form, Filled1(found), Prefilled(found)) :
             a = <<ActiveLoop(form)>> \o (events \o SetAll(Rest(found, events)))
  BY DEF Activations
<1>2. found \in SomeValues /\ DOMAIN found \subseteq Slots
  BY ExtractionType
<1>3. active \in AnyTracker /\ active.slots = t.slots
  <2>1. ActiveLoop(form) \in FormEvents
    BY DEF FormEvents, LoopEvents, Names
  <2>. QED  BY <2>1, ApplyType, AfterLoop
<1>. DEFINE filled == Filled1(found)
            D == Prefilled(found)
<1>4. filled \in AnyTracker /\ \A s \in Slots : filled.slots[s] = IF s \in DOMAIN found THEN found[s] ELSE t.slots[s]
  <2>1. filled = FilledAll(active, found) /\ filled \in AnyTracker
    BY <1>2, <1>3, FilledType
  <2>. HIDE DEF filled, active
  <2>2. \A s \in Slots : FilledAll(active, found).slots[s] = IF s \in DOMAIN found THEN found[s] ELSE active.slots[s]
    BY <1>3 DEF FilledAll, AnyTracker
  <2>. QED  BY <1>3, <2>1, <2>2
<1>5. /\ D \in SUBSET Slots /\ RequiredOf(form) \subseteq Slots
      /\ \A s \in RequiredOf(form) \ D : filled.slots[s] = Unset
  BY RunEventsTyped DEF Missing
<1>6. CASE D = {} /\ a = <<ActiveLoop(form)>> \o SetAll(found)
  <2>1. a = Body(form, FALSE, found, <<>>, Nothing) /\ <<>> \in Closings(form) /\ Nothing \in SomeValues /\ DOMAIN Nothing = {}
    <3>1. <<>> \in Closings(form)
      BY DEF Closings
    <3>2. Nothing \in SomeValues /\ DOMAIN Nothing = {}
      BY NothingSet, SomeValuesMember
    <3>3. a = Body(form, FALSE, found, <<>>, Nothing)
      BY <1>2, <1>6, <3>1, <3>2, BodyForms
    <3>. QED  BY <3>1, <3>2, <3>3
  <2>2. \A s \in RequiredOf(form) : FinalValue(t, found, Nothing, s) = Unset
    <3>. HIDE DEF filled, D
    <3>. QED  BY <1>4, <1>5, <1>6, <2>1 DEF FinalValue
  <2>3. Unset # "raw"
    BY DEF Unset, NoName
  <2>4. RequestsEmpty(form, t, found, <<>>, Nothing) /\ Judged(form, t, found, Nothing)
    <3>1. \A e : <<>> # <<e>>
      OBVIOUS
    <3>. QED  BY <2>2, <2>3, <3>1 DEF RequestsEmpty, Judged
  <2>. QED  BY <1>2, <2>1, <2>4
<1>7. ASSUME NEW events \in Validations(form, filled, D),
             a = <<ActiveLoop(form)>> \o (events \o SetAll(Rest(found, events)))
      PROVE  \E v \in SomeValues, w \in SomeValues, c \in Closings(form) :
               /\ a = Body(form, FALSE, v, c, w)
               /\ RequestsEmpty(form, t, v, c, w)
               /\ form \in Validating => Judged(form, t, v, w)
  <2>. HIDE DEF filled, D, active
  <2>1. PICK v \in SomeValues, c \in Closings(form) :
           /\ events = SetAll(v) \o c
           /\ form \in Validating => DOMAIN v = D /\ \A s \in D : v[s] \in {"valid", Unset}
           /\ form \notin Validating => v = Nothing /\ c = <<>>
           /\ RequestsEmpty(form, filled, v, c, Nothing)
    BY <1>4, <1>5, ValidationParts
  <2>. DEFINE w == Rest(found, events)
              W == {s \in DOMAIN found : \A i \in DOMAIN events : ~Is(events[i], "slot", s)}
  <2>2. w \in SomeValues /\ DOMAIN w = W /\ \A s \in W : w[s] = found[s]
    <3>1. W \in SUBSET Slots
      BY <1>2
    <3>2. w \in [W -> Values]
      BY <1>2 DEF SomeValues
    <3>. QED  BY <3>1, <3>2, SomeValuesMember
  <2>3. a = Body(form, FALSE, v, c, w)
    <3>. HIDE DEF w
    <3>. QED  BY <1>7, <2>1, <2>2, BodyForms DEF w
  <2>4. \A s \in Slots : (\E i \in DOMAIN events : Is(events[i], "slot", s)) <=> s \in DOMAIN v
    BY <2>1, SlotsOf
  <2>5. \A s \in Slots : FinalValue(t, v, w, s) = FinalValue(filled, v, Nothing, s)
    <3>. HIDE DEF w
    <3>. QED  BY <1>4, <2>2, <2>4, NothingSet DEF FinalValue
  <2>6. RequestsEmpty(form, t, v, c, w)
    BY <1>5, <2>1, <2>5 DEF RequestsEmpty
  <2>7. form \in Validating => Judged(form, t, v, w)
    <3>1. Unset # "raw" /\ "valid" # "raw"
      BY DEF Unset, NoName
    <3>. QED  BY <1>5, <2>1, <2>5, <3>1, NothingSet DEF Judged, FinalValue
  <2>. QED  BY <2>1, <2>2, <2>3, <2>6, <2>7
<1>. QED  BY <1>1, <1>6, <1>7

-----------------------------------------------------------------------------
(* How a run goes on and ends.                                              *)

LEMMA NextSlotMissing ==
  ASSUME NEW form \in Forms, NEW slots
  PROVE  \/ NextSlot(form, slots) = NoName /\ Missing(form, slots) = {}
         \/ NextSlot(form, slots) \in Missing(form, slots) /\ NextSlot(form, slots) # NoName
<1>. DEFINE open == {i \in DOMAIN Required[form] : slots[Required[form][i]] = Unset}
<1>1. Required[form] \in Seq(Slots) /\ NoName \notin Slots
  BY FormsAssumption
<1>2. CASE open = {}
  BY <1>2 DEF NextSlot, Missing, RequiredOf, ToSet
<1>3. CASE open # {}
  <2>1. open \in SUBSET Nat
    BY <1>1
  <2>2. Min(open) \in open
    <3>. HIDE DEF open
    <3>. QED  BY <1>3, <2>1, MinLeast
  <2>3. NextSlot(form, slots) = Required[form][Min(open)]
    BY <1>3 DEF NextSlot
  <2>4. Required[form][Min(open)] \in Slots
    <3>. DEFINE i == Min(open)
    <3>1. i \in DOMAIN Required[form]
      BY <2>2
    <3>. HIDE DEF i
    <3>2. Required[form][i] \in Slots
      BY <1>1, <3>1
    <3>. QED  BY <3>2 DEF i
  <2>. QED  BY <1>1, <2>2, <2>3, <2>4 DEF Missing, RequiredOf, ToSet
<1>. QED  BY <1>2, <1>3

\* A request at the end of the events is the one that counts.
LEMMA RequestLast ==
  ASSUME NEW E, NEW es \in Seq(E), NEW s, SlotSet(REQUESTED_SLOT, s) \in E
  PROVE  LET all == Append(es, SlotSet(REQUESTED_SLOT, s))
         IN  /\ Rejects(all) <=> Rejects(es)
             /\ IsDone(all) <=>
                  /\ ~Rejects(es)
                  /\ \/ s = NoName
                     \/ LoopChanges(es) # {} /\ es[Max(LoopChanges(es))].name = NoName
<1>. DEFINE e == SlotSet(REQUESTED_SLOT, s)
            n == Len(es)
            all == Append(es, e)
<1>1. /\ all \in Seq(E) /\ Len(all) = n + 1 /\ n \in Nat /\ all[n + 1] = e
      /\ \A i \in 1 .. n : all[i] = es[i]
  BY Appended
<1>2. e.type = "slot" /\ e.name = REQUESTED_SLOT /\ e.value = s
  BY DEF SlotSet
<1>. HIDE DEF e, all, n
<1>3. DOMAIN all = 1 .. n + 1 /\ DOMAIN es = 1 .. n
  BY <1>1 DEF n
<1>4. Rejects(all) <=> Rejects(es)
  BY <1>1, <1>2, <1>3 DEF Rejects
<1>5. n + 1 \in Requests(all) /\ Requests(all) \subseteq 1 .. n + 1
  BY <1>1, <1>2, <1>3 DEF Requests, Is
<1>6. Max(Requests(all)) = n + 1
  <2>1. Requests(all) \in SUBSET Nat /\ Requests(all) # {} /\ n + 1 \in Nat /\ \A i \in Requests(all) : i =< n + 1
    BY <1>1, <1>5
  <2>2. Max(Requests(all)) \in Requests(all) /\ n + 1 =< Max(Requests(all))
    BY <1>5, <2>1, MaxGreatest
  <2>. QED  BY <2>1, <2>2
<1>7. LoopChanges(all) = LoopChanges(es)
  BY <1>1, <1>2, <1>3 DEF LoopChanges
<1>8. LoopChanges(es) # {} => all[Max(LoopChanges(es))] = es[Max(LoopChanges(es))]
  <2>1. LoopChanges(es) \in SUBSET Nat /\ LoopChanges(es) \subseteq 1 .. n /\ \A i \in LoopChanges(es) : i =< n
    BY <1>1, <1>3 DEF LoopChanges
  <2>2. LoopChanges(es) # {} => Max(LoopChanges(es)) \in LoopChanges(es)
    BY <1>1, <2>1, MaxGreatest
  <2>. QED  BY <1>1, <2>1, <2>2
<1>9. IsDone(all) <=>
        /\ ~Rejects(es)
        /\ \/ s = NoName
           \/ LoopChanges(es) # {} /\ es[Max(LoopChanges(es))].name = NoName
  BY <1>1, <1>2, <1>4, <1>5, <1>6, <1>7, <1>8 DEF IsDone
<1>. QED  BY <1>4, <1>9 DEF all, e

LEMMA RequestParts ==
  ASSUME NEW form \in Forms, NEW t, NEW active \in BOOLEAN, NEW v \in SomeValues, NEW w \in SomeValues,
         NEW c \in Closings(form)
  PROVE  LET body == Body(form, active, v, c, w)
             req == RequestNextSlot(form, t, body)
         IN  /\ IsDone(body) => req = <<SlotSet(REQUESTED_SLOT, NoName)>>
             /\ ~IsDone(body) /\ Requests(body) # {} => req = <<>>
             /\ ~IsDone(body) /\ Requests(body) = {} =>
                  req = <<SlotSet(REQUESTED_SLOT, NextSlot(form, UpdateWith(t, body).slots))>>
<1>. DEFINE body == Body(form, active, v, c, w)
            k == Place(form, active, v)
<1>1. SUFFICES ASSUME ~IsDone(body), Requests(body) # {} PROVE body[Min(Requests(body))].value # NoName
  BY DEF RequestNextSlot
<1>2. PICK s : c = <<SlotSet(REQUESTED_SLOT, s)>>
  BY <1>1, BodyIs
<1>3. Requests(body) = {k} /\ body[k].value = s /\ s # NoName
  BY <1>1, <1>2, BodyIs
<1>4. k \in Nat
  BY BodyEvents
<1>5. Min({k}) = k
  <2>. HIDE DEF k
  <2>1. {k} \in SUBSET Nat /\ {k} # {}
    BY <1>4
  <2>. QED  BY <2>1, MinLeast
<1>. HIDE DEF k, body
<1>. QED  BY <1>3, <1>5

\* Only some forms end before they are complete.
LEMMA EarlyStops ==
  ASSUME NEW form \in Forms,
         NEW c \in Closings(form), c \in {<<SlotSet(REQUESTED_SLOT, NoName)>>, <<ActiveLoop(NoName)>>}
  PROVE  form \in Stopping
<1>1. \A e, f : <<e>> = <<f>> => e = f
  OBVIOUS
<1>2. NoName \notin RequiredOf(form)
  BY FormsAssumption, RunEventsTyped
<1>3. /\ <<>> # <<SlotSet(REQUESTED_SLOT, NoName)>> /\ <<>> # <<ActiveLoop(NoName)>>
      /\ \A s : SlotSet(REQUESTED_SLOT, s) # ActiveLoop(NoName)
      /\ \A s : SlotSet(REQUESTED_SLOT, s) = SlotSet(REQUESTED_SLOT, NoName) => s = NoName
      /\ ActionExecutionRejected(form) # SlotSet(REQUESTED_SLOT, NoName)
      /\ ActionExecutionRejected(form) # ActiveLoop(NoName)
  BY DEF SlotSet, ActiveLoop, ActionExecutionRejected, Event
<1>. QED  BY <1>1, <1>2, <1>3 DEF Closings

\* What the form has been offered: all of it when it activates, otherwise what
\* the last message said.
Offered(form, t, interrupted) ==
  \/ t.loop # form
  \/ \A s \in RequiredOf(form) : t.slots[s] = "raw" => t.latest = LISTEN /\ ~interrupted /\ s \in t.said

\* The events of a run that does not raise, up to the next request.
Parts(form, t, interrupted, v, c, w) ==
  /\ RequestsEmpty(form, t, v, c, w)
  /\ form \in Validating /\ Offered(form, t, interrupted) => Judged(form, t, v, w)

\* A run that raises waited for an answer, and nothing was said that counts.
Unanswered(form, t, interrupted) ==
  t.loop = form /\ NeedsValidation(t, interrupted) /\ t.said \intersect RequiredOf(form) = {}

LEMMA ValidateParts ==
  ASSUME NEW form \in Forms, NEW t \in AnyTracker, NEW interrupted \in BOOLEAN,
         NEW x \in ValidateIfRequired(form, t, interrupted),
         t.loop = form \/ \A s \in RequiredOf(form) : form \in Validating => t.slots[s] # "raw"
  PROVE  /\ x = [raises |-> x.raises, events |-> x.events] /\ x.raises \in BOOLEAN
         /\ x.raises => Unanswered(form, t, interrupted)
         /\ \E v \in SomeValues, c \in Closings(form) :
              x.events = SetAll(v) \o c /\ Parts(form, t, interrupted, v, c, Nothing)
<1>. DEFINE toFill == SlotToFill(form, t)
            D == IF NeedsValidation(t, interrupted)
                   THEN t.said \intersect (RequiredOf(form) \union {toFill}) ELSE {}
<1>1. /\ D \in SUBSET Slots /\ RequiredOf(form) \subseteq Slots
      /\ NeedsValidation(t, interrupted) => t.said \intersect RequiredOf(form) \subseteq D
  <2>1. toFill \in Slots \union {NoName} /\ t.said \subseteq Slots \union {REQUESTED_SLOT}
    BY DEF SlotToFill, AnyTracker
  <2>2. NoName \notin Slots /\ NoName # REQUESTED_SLOT /\ RequiredOf(form) \subseteq Slots
    BY FormsAssumption, RunEventsTyped DEF NoName, REQUESTED_SLOT
  <2>. HIDE DEF toFill
  <2>. QED  BY <2>1, <2>2
<1>2. /\ x = [raises |-> x.raises, events |-> x.events] /\ x.raises \in BOOLEAN
      /\ x.events \in Validations(form, t, D)
      /\ x.raises => NeedsValidation(t, interrupted) /\ D = {} /\ toFill # NoName
  <2>1. CASE ~NeedsValidation(t, interrupted)
    <3>1. D = {}
      BY <2>1
    <3>2. PICK events \in Validations(form, t, {}) : x = [raises |-> FALSE, events |-> events]
      BY <2>1 DEF ValidateIfRequired
    <3>. QED  BY <2>1, <3>1, <3>2
  <2>2. CASE NeedsValidation(t, interrupted)
    <3>. DEFINE said == t.said \intersect (RequiredOf(form) \union {toFill})
                Raises(events) ==
                  /\ toFill # NoName
                  /\ said = {}
                  /\ \A i \in DOMAIN events : events[i].type = "slot" => events[i].name = REQUESTED_SLOT
                  /\ ~Rejects(events)
    <3>1. D = said
      BY <2>2
    <3>2. PICK events \in Validations(form, t, said) : x = [raises |-> Raises(events), events |-> events]
      BY <2>2 DEF ValidateIfRequired, Validate
    <3>3. Raises(events) \in BOOLEAN /\ (Raises(events) => said = {} /\ toFill # NoName)
      OBVIOUS
    <3>. HIDE DEF Raises, said, D, toFill
    <3>4. x.raises = Raises(events) /\ x.events = events
      BY <3>2
    <3>. QED  BY <2>2, <3>1, <3>2, <3>3, <3>4
  <2>. QED  BY <2>1, <2>2
<1>3. x.raises => Unanswered(form, t, interrupted)
  <2>1. toFill # NoName => t.loop = form
    BY DEF SlotToFill
  <2>. QED  BY <1>1, <1>2, <2>1 DEF Unanswered
<1>. HIDE DEF D
<1>4. PICK v \in SomeValues, c \in Closings(form) :
        /\ x.events = SetAll(v) \o c
        /\ form \in Validating => DOMAIN v = D /\ \A s \in D : v[s] \in {"valid", Unset}
        /\ form \notin Validating => v = Nothing /\ c = <<>>
        /\ RequestsEmpty(form, t, v, c, Nothing)
  BY <1>1, <1>2, ValidationParts
<1>5. ASSUME form \in Validating, Offered(form, t, interrupted) PROVE Judged(form, t, v, Nothing)
  <2>1. SUFFICES ASSUME NEW s \in RequiredOf(form) PROVE FinalValue(t, v, Nothing, s) # "raw"
    BY DEF Judged
  <2>2. "valid" # "raw" /\ Unset # "raw" /\ DOMAIN Nothing = {}
    BY NothingSet DEF Unset, NoName
  <2>3. CASE s \in D
    BY <1>4, <1>5, <2>2, <2>3 DEF FinalValue
  <2>4. CASE s \notin D
    <3>1. t.slots[s] # "raw"
      <4>1. SUFFICES ASSUME t.slots[s] = "raw" PROVE FALSE
        OBVIOUS
      <4>2. t.loop = form /\ t.latest = LISTEN /\ ~interrupted /\ s \in t.said
        BY <1>5, <4>1 DEF Offered
      <4>3. NeedsValidation(t, interrupted)
        BY <4>2 DEF NeedsValidation
      <4>. QED  BY <1>1, <2>1, <2>4, <4>2, <4>3
    <3>. QED  BY <1>4, <1>5, <2>2, <2>4, <3>1 DEF FinalValue
  <2>. QED  BY <2>3, <2>4
<1>. QED  BY <1>2, <1>3, <1>4, <1>5 DEF Parts

Ran(form, t, interrupted, events) ==
  \E v \in SomeValues, w \in SomeValues, c \in Closings(form) :
    LET body == Body(form, t.loop = form, v, c, w)
    IN  /\ Parts(form, t, interrupted, v, c, w)
        /\ \/ events = body /\ (Rejects(body) \/ IsDone(body))
           \/ events = body \o RequestNextSlot(form, t, body)

\* What comes before it.
LEMMA BodyAfter ==
  ASSUME NEW form \in Forms, NEW active \in BOOLEAN, NEW v \in SomeValues, NEW c \in Closings(form),
         NEW req, req = <<>> \/ \E e \in RunEvents(form) : req = <<e>>
  PROVE  LET events == SetAll(v) \o c
             soFar == Start(form, active)
         IN  /\ soFar \o events = Body(form, active, v, c, Nothing)
             /\ soFar \o (events \o req) = Body(form, active, v, c, Nothing) \o req
             /\ Rejects(events) <=> Rejects(Body(form, active, v, c, Nothing))
<1>. DEFINE E == RunEvents(form)
            events == SetAll(v) \o c
            soFar == Start(form, active)
            body == Body(form, active, v, c, Nothing)
<1>1. Nothing \in SomeValues
  BY NothingSet, SomeValuesMember
<1>2. soFar \o events = body
  <2>1. CASE active
    <3>1. events \in Seq(E)
      <4>1. SetAll(v) \in Seq(E) /\ c \in Seq(E)
        BY PartsTyped
      <4>. HIDE DEF E
      <4>. QED  BY <4>1, ConcatProperties
    <3>2. <<>> \o events = events
      <4>. HIDE DEF E, events
      <4>. QED  BY <3>1, ConcatEmptySeq
    <3>. QED  BY <1>1, <2>1, <3>2, BodyForms DEF Start
  <2>2. CASE ~active
    BY <1>1, <2>2, BodyForms DEF Start
  <2>. QED  BY <2>1, <2>2
<1>3. Rejects(events) <=> Rejects(body)
  <2>1. events = Body(form, TRUE, v, c, Nothing)
    BY <1>1, BodyForms
  <2>. HIDE DEF events, body
  <2>2. \A b \in BOOLEAN :
          Rejects(Body(form, b, v, c, Nothing)) <=> c = <<ActionExecutionRejected(form)>>
    BY <1>1, BodyIs
  <2>. QED  BY <2>1, <2>2 DEF body
<1>4. soFar \o (events \o req) = (soFar \o events) \o req
  <2>1. soFar \in Seq(E) /\ SetAll(v) \in Seq(E) /\ c \in Seq(E)
    BY PartsTyped DEF Start
  <2>2. events \in Seq(E)
    <3>. HIDE DEF E
    <3>. QED  BY <2>1, ConcatProperties
  <2>3. req \in Seq(E)
    <3>1. CASE req = <<>>
      BY <3>1
    <3>2. ASSUME NEW e \in RunEvents(form), req = <<e>> PROVE req \in Seq(E)
      <4>1. e \in E
        OBVIOUS
      <4>. HIDE DEF E
      <4>2. <<e>> \in Seq(E)
        BY <4>1
      <4>. QED  BY <3>2, <4>2
    <3>. QED  BY <3>1, <3>2
  <2>. HIDE DEF E, soFar, events
  <2>4. ASSUME NEW a \in Seq(E), NEW b \in Seq(E), NEW d \in Seq(E) PROVE (a \o b) \o d = a \o (b \o d)
    BY ConcatAssociative
  <2>. QED  BY <2>1, <2>2, <2>3, <2>4
<1>. QED  BY <1>2, <1>3, <1>4

LEMMA RequestTyped ==
  ASSUME NEW form \in Forms, NEW t, NEW active \in BOOLEAN, NEW v \in SomeValues, NEW w \in SomeValues,
         NEW c \in Closings(form)
  PROVE  LET req == RequestNextSlot(form, t, Body(form, active, v, c, w))
         IN  req = <<>> \/ \E e \in RunEvents(form) : req = <<e>>
<1>. DEFINE body == Body(form, active, v, c, w)
            next == NextSlot(form, UpdateWith(t, body).slots)
<1>1. next \in Slots \union {NoName}
  <2>1. RequiredOf(form) \subseteq Slots
    BY RunEventsTyped
  <2>2. next = NoName \/ next \in Missing(form, UpdateWith(t, body).slots)
    BY NextSlotMissing
  <2>. HIDE DEF next
  <2>. QED  BY <2>1, <2>2 DEF Missing
<1>2. SlotSet(REQUESTED_SLOT, next) \in RunEvents(form) /\ SlotSet(REQUESTED_SLOT, NoName) \in RunEvents(form)
  <2>. HIDE DEF next
  <2>. QED  BY <1>1 DEF RunEvents, RequestEvents
<1>3. \/ RequestNextSlot(form, t, body) = <<SlotSet(REQUESTED_SLOT, NoName)>>
      \/ RequestNextSlot(form, t, body) = <<>>
      \/ RequestNextSlot(form, t, body) = <<SlotSet(REQUESTED_SLOT, next)>>
  BY RequestParts
<1>. QED  BY <1>2, <1>3

LEMMA DoParts ==
  ASSUME NEW form \in Forms, NEW t \in AnyTracker, NEW interrupted \in BOOLEAN,
         NEW message \in SUBSET Mappings, NEW soFar,
         soFar \in IF t.loop = form THEN {<<>>} ELSE Activations(form, t, message),
         ~IsDone(soFar), NEW d \in Do(form, t, interrupted, soFar)
  PROVE  /\ d = [raises |-> d.raises, events |-> d.events] /\ d.raises \in BOOLEAN
         /\ d.raises => Unanswered(form, t, interrupted)
         /\ ~d.raises => Ran(form, t, interrupted, d.events)
<1>. DEFINE active == (t.loop = form)
            validated == IF LoopChanges(soFar) = DOMAIN soFar
                           THEN ValidateIfRequired(form, t, interrupted)
                           ELSE {[raises |-> FALSE, events |-> <<>>]}
            Req(events) == RequestNextSlot(form, t, soFar \o events)
            Goes1(x) == IF x.raises \/ Rejects(x.events) THEN x
                        ELSE [x EXCEPT !.events = @ \o Req(@)]
<1>1. PICK x \in validated : d = [Goes1(x) EXCEPT !.events = soFar \o @]
  BY DEF Do
<1>2. CASE LoopChanges(soFar) = DOMAIN soFar
  <2>1. /\ soFar = Start(form, active)
        /\ active \/ \A s \in RequiredOf(form) : form \in Validating => t.slots[s] # "raw"
    <3>1. CASE active
      BY <3>1 DEF Start
    <3>2. CASE ~active
      <4>1. PICK v \in SomeValues, w \in SomeValues, c \in Closings(form) :
               /\ soFar = Body(form, FALSE, v, c, w)
               /\ form \in Validating => Judged(form, t, v, w)
        BY <3>2, ActivationParts
      <4>2. c = <<>> /\ DOMAIN v = {} /\ DOMAIN w = {}
        BY <1>2, <4>1, BodyIs
      <4>3. v = Nothing /\ w = Nothing
        BY <4>2 DEF SomeValues, Nothing
      <4>4. soFar = <<ActiveLoop(form)>>
        BY <4>1, <4>2, <4>3, BodyForms
      <4>5. \A s : FinalValue(t, v, w, s) = t.slots[s]
        BY <4>2 DEF FinalValue
      <4>. QED  BY <3>2, <4>1, <4>4, <4>5 DEF Start, Judged
    <3>. QED  BY <3>1, <3>2
  <2>2. x \in ValidateIfRequired(form, t, interrupted)
    BY <1>2
  <2>3. /\ x = [raises |-> x.raises, events |-> x.events] /\ x.raises \in BOOLEAN
        /\ x.raises => Unanswered(form, t, interrupted)
        /\ \E v \in SomeValues, c \in Closings(form) :
             x.events = SetAll(v) \o c /\ Parts(form, t, interrupted, v, c, Nothing)
    BY <2>1, <2>2, ValidateParts
  <2>4. PICK v \in SomeValues, c \in Closings(form) :
          x.events = SetAll(v) \o c /\ Parts(form, t, interrupted, v, c, Nothing)
    BY <2>3
  <2>. DEFINE body == Body(form, active, v, c, Nothing)
              req == RequestNextSlot(form, t, body)
  <2>5. Nothing \in SomeValues /\ (req = <<>> \/ \E e \in RunEvents(form) : req = <<e>>)
    <3>1. Nothing \in SomeValues /\ active \in BOOLEAN
      BY NothingSet, SomeValuesMember
    <3>. HIDE DEF active
    <3>. QED  BY <3>1, RequestTyped
  <2>6. /\ soFar \o x.events = body
        /\ soFar \o (x.events \o req) = body \o req
        /\ Rejects(x.events) <=> Rejects(body)
    <3>1. active \in BOOLEAN
      OBVIOUS
    <3>. DEFINE events == SetAll(v) \o c
    <3>. HIDE DEF req, active, validated
    <3>2. /\ Start(form, active) \o events = body
          /\ Start(form, active) \o (events \o req) = body \o req
          /\ Rejects(events) <=> Rejects(body)
      <4>1. ASSUME NEW b \in BOOLEAN, NEW q, q = <<>> \/ \E e \in RunEvents(form) : q = <<e>>
            PROVE  /\ Start(form, b) \o (SetAll(v) \o c) = Body(form, b, v, c, Nothing)
                   /\ Start(form, b) \o ((SetAll(v) \o c) \o q) = Body(form, b, v, c, Nothing) \o q
                   /\ Rejects(SetAll(v) \o c) <=> Rejects(Body(form, b, v, c, Nothing))
        <5>1. Start(form, b) \o (SetAll(v) \o c) = Body(form, b, v, c, Nothing)
          BY <4>1, BodyAfter
        <5>2. Start(form, b) \o ((SetAll(v) \o c) \o q) = Body(form, b, v, c, Nothing) \o q
          BY <4>1, BodyAfter
        <5>3. Rejects(SetAll(v) \o c) <=> Rejects(Body(form, b, v, c, Nothing))
          BY <4>1, BodyAfter
        <5>. QED  BY <5>1, <5>2, <5>3
      <4>. QED  BY <2>5, <3>1, <4>1
    <3>. HIDE DEF body
    <3>. QED  BY <2>1, <2>4, <3>2
  <2>. HIDE DEF body
  <2>7. Req(x.events) = req
    BY <2>6
  <2>. HIDE DEF req, Req
  <2>8. CASE x.raises \/ Rejects(x.events)
    <3>1. d.raises = x.raises /\ d.events = body /\ d = [raises |-> d.raises, events |-> d.events]
      BY <1>1, <2>3, <2>6, <2>8
    <3>2. ~d.raises => Rejects(body)
      BY <2>6, <2>8, <3>1
    <3>. QED  BY <2>3, <2>4, <2>5, <3>1, <3>2 DEF Ran, body
  <2>9. CASE ~(x.raises \/ Rejects(x.events))
    <3>1. d.raises = FALSE /\ d.events = body \o req /\ d = [raises |-> d.raises, events |-> d.events]
      BY <1>1, <2>3, <2>6, <2>7, <2>9
    <3>. QED  BY <2>4, <2>5, <3>1 DEF Ran, body, req
  <2>. QED  BY <2>8, <2>9
<1>3. CASE LoopChanges(soFar) # DOMAIN soFar
  <2>1. ~active
    <3>1. SUFFICES ASSUME active PROVE FALSE
      OBVIOUS
    <3>2. soFar = <<>>
      BY <3>1
    <3>3. DOMAIN <<>> = {}
      OBVIOUS
    <3>. QED  BY <1>3, <3>2, <3>3 DEF LoopChanges
  <2>2. PICK v \in SomeValues, w \in SomeValues, c \in Closings(form) :
           /\ soFar = Body(form, FALSE, v, c, w)
           /\ RequestsEmpty(form, t, v, c, w)
           /\ form \in Validating => Judged(form, t, v, w)
    BY <2>1, ActivationParts
  <2>3. soFar \in Seq(RunEvents(form))
    BY <2>2, BodyEvents
  <2>4. x = [raises |-> FALSE, events |-> <<>>]
    BY <1>3
  <2>5. ~Rejects(<<>>)
    BY DEF Rejects
  <2>6. soFar \o <<>> = soFar
    <3>. DEFINE E == RunEvents(form)
    <3>. HIDE DEF E
    <3>. QED  BY <2>3, ConcatEmptySeq DEF E
  <2>. DEFINE req == RequestNextSlot(form, t, soFar)
  <2>7. <<>> \o req = req
    <3>1. req = <<>> \/ \E e : req = <<e>>
      <4>1. \A b \in BOOLEAN :
              LET q == RequestNextSlot(form, t, Body(form, b, v, c, w))
              IN  q = <<>> \/ \E e \in RunEvents(form) : q = <<e>>
        BY RequestTyped
      <4>. QED  BY <2>2, <4>1
    <3>. HIDE DEF req
    <3>. QED  BY <3>1
  <2>8. Req(<<>>) = req
    BY <2>6
  <2>. HIDE DEF req, Req
  <2>9. d.raises = FALSE /\ d.events = soFar \o req /\ d = [raises |-> d.raises, events |-> d.events]
    BY <1>1, <2>4, <2>5, <2>7, <2>8
  <2>. QED  BY <2>1, <2>2, <2>9 DEF Ran, Parts, req
<1>. QED  BY <1>2, <1>3

LEMMA RunParts ==
  ASSUME NEW form \in Forms, NEW t \in AnyTracker, NEW interrupted \in BOOLEAN,
         NEW message \in SUBSET Mappings, NEW r \in Runs(form, t, interrupted, message)
  PROVE  /\ r.raises \in BOOLEAN
         /\ r.raises => Unanswered(form, t, interrupted)
         /\ ~r.raises =>
              \E events : /\ Ran(form, t, interrupted, events)
                          /\ r.events = IF IsDone(events) THEN Append(events, ActiveLoop(NoName)) ELSE events
<1>. DEFINE starts == IF t.loop = form THEN {<<>>} ELSE Activations(form, t, message)
            Done1(soFar) == IF IsDone(soFar) THEN {[raises |-> FALSE, events |-> soFar]}
                            ELSE Do(form, t, interrupted, soFar)
            Closed1(q) == IF IsDone(q.events) THEN [q EXCEPT !.events = Append(@, ActiveLoop(NoName))] ELSE q
<1>1. PICK soFar \in starts : \E d \in Done1(soFar) : r = Closed1(d)
  BY DEF Runs
<1>2. PICK d \in Done1(soFar) : r = Closed1(d)
  BY <1>1
<1>3. soFar \in starts /\ d \in Done1(soFar)
  OBVIOUS
<1>4. /\ d = [raises |-> d.raises, events |-> d.events] /\ d.raises \in BOOLEAN
      /\ d.raises => Unanswered(form, t, interrupted)
      /\ ~d.raises => Ran(form, t, interrupted, d.events)
  <2>1. CASE ~IsDone(soFar)
    <3>1. d \in Do(form, t, interrupted, soFar)
      BY <2>1
    <3>2. soFar \in starts
      OBVIOUS
    <3>. HIDE DEF Done1
    <3>. QED  BY <2>1, <3>1, <3>2, DoParts
  <2>2. CASE IsDone(soFar)
    <3>1. d = [raises |-> FALSE, events |-> soFar]
      BY <2>2
    <3>2. t.loop # form
      <4>1. Requests(<<>>) = {} /\ LoopChanges(<<>>) = {}
        BY DEF Requests, LoopChanges
      <4>2. ~IsDone(<<>>)
        BY <4>1 DEF IsDone
      <4>. QED  BY <2>2, <4>2
    <3>3. PICK v \in SomeValues, w \in SomeValues, c \in Closings(form) :
             /\ soFar = Body(form, FALSE, v, c, w)
             /\ RequestsEmpty(form, t, v, c, w)
             /\ form \in Validating => Judged(form, t, v, w)
      BY <3>2, ActivationParts
    <3>4. Parts(form, t, interrupted, v, c, w)
      BY <3>3 DEF Parts
    <3>5. soFar = Body(form, t.loop = form, v, c, w)
      BY <3>2, <3>3
    <3>6. Ran(form, t, interrupted, soFar)
      BY <2>2, <3>4, <3>5 DEF Ran
    <3>. QED  BY <3>1, <3>6
  <2>. QED  BY <2>1, <2>2
<1>. HIDE DEF Done1
<1>5. r.raises = d.raises /\ r.events = IF IsDone(d.events) THEN Append(d.events, ActiveLoop(NoName)) ELSE d.events
  BY <1>2, <1>4
<1>. QED  BY <1>4, <1>5

\* What a run that does not raise leaves of the tracker.
Leaves(form, u, events) ==
  /\ events \in Seq(RunEvents(form))
  /\ Rejects(events) => u.loop = form /\ u.rejected
  /\ ~Rejects(events) =>
       \/ u.loop = form /\ Requested(u) \in Missing(form, u.slots)
       \/ u.loop = NoName /\ (form \in Stopping \/ Missing(form, u.slots) = {})

\* Its last events set the slot requested, and close the loop.
LEMMA LastEvents ==
  ASSUME NEW form \in Forms, NEW t \in AnyTracker, NEW es \in Seq(RunEvents(form)),
         NEW s \in Slots \union {NoName}
  PROVE  LET u == UpdateWith(t, es)
             asked == Append(es, SlotSet(REQUESTED_SLOT, s))
             a == UpdateWith(t, asked)
             closed == Append(es, ActiveLoop(NoName))
             l == UpdateWith(t, closed)
         IN  /\ asked \in Seq(RunEvents(form)) /\ closed \in Seq(RunEvents(form))
             /\ a.loop = u.loop /\ a.rejected = u.rejected /\ Requested(a) = s
             /\ \A q \in Slots : a.slots[q] = u.slots[q]
             /\ l.loop = NoName
             /\ \A q \in Slots : l.slots[q] = u.slots[q]
             /\ Rejects(closed) <=> Rejects(es)
             /\ es \o <<SlotSet(REQUESTED_SLOT, s)>> = asked
<1>. DEFINE E == RunEvents(form)
            u == UpdateWith(t, es)
            e == SlotSet(REQUESTED_SLOT, s)
            f == ActiveLoop(NoName)
<1>1. e \in E /\ f \in E
  BY DEF RunEvents, RequestEvents
<1>2. u \in AnyTracker
  BY RunKeepsTurn
<1>3. /\ UpdateWith(t, Append(es, e)) = ApplyTo(u, e) /\ Append(es, e) \in Seq(E)
      /\ UpdateWith(t, Append(es, f)) = ApplyTo(u, f) /\ Append(es, f) \in Seq(E)
  <2>. HIDE DEF e, f
  <2>. QED  BY <1>1, RunUpdates
<1>. HIDE DEF u
<1>4. REQUESTED_SLOT \notin Slots
  BY FormsAssumption
<1>5. /\ ApplyTo(u, e).loop = u.loop /\ ApplyTo(u, e).rejected = u.rejected
      /\ \A q \in Slots \union {REQUESTED_SLOT} :
           ApplyTo(u, e).slots[q] = IF q = REQUESTED_SLOT THEN s ELSE u.slots[q]
  BY <1>2, AfterSlot
<1>6. ApplyTo(u, f).loop = NoName /\ ApplyTo(u, f).slots = u.slots
  BY <1>2, AfterLoop
<1>7. Rejects(Append(es, f)) <=> Rejects(es)
  <2>1. f.type # "rejected"
    BY DEF ActiveLoop, Event
  <2>. HIDE DEF f, E
  <2>2. /\ Append(es, f) \in Seq(E) /\ Len(Append(es, f)) = Len(es) + 1 /\ Len(es) \in Nat /\ Append(es, f)[Len(es) + 1] = f
        /\ \A i \in 1 .. Len(es) : Append(es, f)[i] = es[i]
    <3>1. es \in Seq(E) /\ f \in E
      BY <1>1 DEF E
    <3>. QED  BY <3>1, Appended
  <2>3. DOMAIN Append(es, f) = 1 .. Len(es) + 1 /\ DOMAIN es = 1 .. Len(es)
    BY <2>2 DEF E
  <2>. QED  BY <2>1, <2>2, <2>3 DEF Rejects
<1>8. es \o <<e>> = Append(es, e)
  <2>. HIDE DEF E, e
  <2>1. es \in Seq(E) /\ e \in E
    BY <1>1 DEF E
  <2>. QED  BY <2>1, AppendIsConcat
<1>. QED  BY <1>3, <1>4, <1>5, <1>6, <1>7, <1>8 DEF u, Requested

LEMMA RunLeaves ==
  ASSUME NEW form \in Forms, NEW t \in AnyTracker, NEW t0 \in AnyTracker,
         t0.slots = t.slots, t0.loop = t.loop, NEW interrupted \in BOOLEAN,
         NEW message \in SUBSET Mappings, NEW r \in Runs(form, t, interrupted, message), ~r.raises
  PROVE  LET u == UpdateWith(t0, r.events)
         IN  /\ Leaves(form, u, r.events)
             /\ form \in Validating /\ Offered(form, t, interrupted) =>
                  \A s \in RequiredOf(form) : u.slots[s] # "raw"
<1>1. PICK events : /\ Ran(form, t, interrupted, events)
                    /\ r.events = IF IsDone(events) THEN Append(events, ActiveLoop(NoName)) ELSE events
  BY RunParts
<1>2. PICK v \in SomeValues, w \in SomeValues, c \in Closings(form) :
        LET body == Body(form, t.loop = form, v, c, w)
        IN  /\ Parts(form, t, interrupted, v, c, w)
            /\ \/ events = body /\ (Rejects(body) \/ IsDone(body))
               \/ events = body \o RequestNextSlot(form, t, body)
  BY <1>1 DEF Ran
<1>. DEFINE active == (t.loop = form)
            body == Body(form, active, v, c, w)
            ub == UpdateWith(t, body)
            u0 == UpdateWith(t0, body)
            y == NextSlot(form, ub.slots)
            u == UpdateWith(t0, r.events)
            Kept1(x) == \A s \in Slots : x.slots[s] = FinalValue(t, v, w, s)
            Early == c \in {<<SlotSet(REQUESTED_SLOT, NoName)>>, <<ActiveLoop(NoName)>>}
<1>3. active \in BOOLEAN
  OBVIOUS
<1>4. /\ ub \in AnyTracker /\ Kept1(ub)
      /\ u0 \in AnyTracker /\ Kept1(u0)
      /\ u0.loop = IF c = <<ActiveLoop(NoName)>> THEN NoName ELSE form
      /\ c = <<ActionExecutionRejected(form)>> => u0.rejected
      /\ \A s : c = <<SlotSet(REQUESTED_SLOT, s)>> => Requested(u0) = s
  <2>1. ub \in AnyTracker /\ Kept1(ub)
    BY BodyUpdates
  <2>2. body = Body(form, t0.loop = form, v, c, w)
    OBVIOUS
  <2>3. \A s : FinalValue(t0, v, w, s) = FinalValue(t, v, w, s)
    BY DEF FinalValue
  <2>4. LET x == UpdateWith(t0, Body(form, t0.loop = form, v, c, w))
        IN  /\ x \in AnyTracker
            /\ \A s \in Slots : x.slots[s] = FinalValue(t0, v, w, s)
            /\ x.loop = IF c = <<ActiveLoop(NoName)>> THEN NoName ELSE form
            /\ c = <<ActionExecutionRejected(form)>> => x.rejected
            /\ \A s : c = <<SlotSet(REQUESTED_SLOT, s)>> => Requested(x) = s
    BY BodyUpdates
  <2>. QED  BY <2>1, <2>2, <2>3, <2>4
<1>. HIDE DEF active
<1>5. /\ body \in Seq(RunEvents(form))
      /\ Rejects(body) <=> c = <<ActionExecutionRejected(form)>>
      /\ \A s : c = <<SlotSet(REQUESTED_SLOT, s)>> => Requests(body) # {}
      /\ Requests(body) # {} => \E s : c = <<SlotSet(REQUESTED_SLOT, s)>>
      /\ IsDone(body) <=> Early
  <2>1. body \in Seq(RunEvents(form))
    BY <1>3, BodyEvents
  <2>2. Rejects(body) <=> c = <<ActionExecutionRejected(form)>>
    BY <1>3, BodyIs
  <2>3. IsDone(body) <=> Early
    BY <1>3, BodyIs
  <2>4. \A s : c = <<SlotSet(REQUESTED_SLOT, s)>> => Requests(body) = {Place(form, active, v)}
    BY <1>3, BodyIs
  <2>5. Requests(body) # {} => \E s : c = <<SlotSet(REQUESTED_SLOT, s)>>
    BY <1>3, BodyIs
  <2>. QED  BY <2>1, <2>2, <2>3, <2>4, <2>5
<1>6. /\ IsDone(body) => RequestNextSlot(form, t, body) = <<SlotSet(REQUESTED_SLOT, NoName)>>
      /\ ~IsDone(body) /\ Requests(body) # {} => RequestNextSlot(form, t, body) = <<>>
      /\ ~IsDone(body) /\ Requests(body) = {} =>
           RequestNextSlot(form, t, body) = <<SlotSet(REQUESTED_SLOT, y)>>
  <2>1. IsDone(body) => RequestNextSlot(form, t, body) = <<SlotSet(REQUESTED_SLOT, NoName)>>
    BY <1>3, RequestParts
  <2>2. ~IsDone(body) /\ Requests(body) # {} => RequestNextSlot(form, t, body) = <<>>
    BY <1>3, RequestParts
  <2>3. ~IsDone(body) /\ Requests(body) = {} =>
          RequestNextSlot(form, t, body) = <<SlotSet(REQUESTED_SLOT, y)>>
    BY <1>3, RequestParts
  <2>. QED  BY <2>1, <2>2, <2>3
<1>7. /\ Parts(form, t, interrupted, v, c, w)
      /\ \/ events = body /\ (Rejects(body) \/ IsDone(body))
         \/ events = body \o RequestNextSlot(form, t, body)
  BY <1>2 DEF active
<1>8. /\ \/ y = NoName /\ Missing(form, ub.slots) = {}
         \/ y \in Missing(form, ub.slots) /\ y # NoName
      /\ RequiredOf(form) \subseteq Slots /\ y \in Slots \union {NoName}
  <2>1. \/ y = NoName /\ Missing(form, ub.slots) = {}
        \/ y \in Missing(form, ub.slots) /\ y # NoName
    BY NextSlotMissing
  <2>2. RequiredOf(form) \subseteq Slots
    BY RunEventsTyped
  <2>. HIDE DEF y
  <2>. QED  BY <2>1, <2>2 DEF Missing
<1>. HIDE DEF body, y, ub
<1>. DEFINE After(s) == Append(body, SlotSet(REQUESTED_SLOT, s))
            a(s) == UpdateWith(t0, After(s))
<1>9. ASSUME NEW s \in Slots \union {NoName}
      PROVE  /\ After(s) \in Seq(RunEvents(form))
             /\ a(s).loop = u0.loop /\ a(s).rejected = u0.rejected /\ Requested(a(s)) = s
             /\ Kept1(a(s))
             /\ body \o <<SlotSet(REQUESTED_SLOT, s)>> = After(s)
             /\ Rejects(After(s)) <=> Rejects(body)
             /\ IsDone(After(s)) <=>
                  /\ ~Rejects(body)
                  /\ \/ s = NoName
                     \/ LoopChanges(body) # {} /\ body[Max(LoopChanges(body))].name = NoName
  <2>1. /\ After(s) \in Seq(RunEvents(form))
        /\ a(s).loop = u0.loop /\ a(s).rejected = u0.rejected /\ Requested(a(s)) = s
        /\ \A q \in Slots : a(s).slots[q] = u0.slots[q]
        /\ body \o <<SlotSet(REQUESTED_SLOT, s)>> = After(s)
    BY <1>5, LastEvents
  <2>2. SlotSet(REQUESTED_SLOT, s) \in RunEvents(form)
    BY DEF RunEvents, RequestEvents
  <2>3. Rejects(After(s)) <=> Rejects(body)
    BY <1>5, <2>2, RequestLast
  <2>4. IsDone(After(s)) <=>
                  /\ ~Rejects(body)
                  /\ \/ s = NoName
                     \/ LoopChanges(body) # {} /\ body[Max(LoopChanges(body))].name = NoName
    BY <1>5, <2>2, RequestLast
  <2>. HIDE DEF a, After, u0
  <2>. QED  BY <1>4, <2>1, <2>3, <2>4
<1>10. ASSUME NEW es \in Seq(RunEvents(form)), Kept1(UpdateWith(t0, es)), ~Rejects(es)
       PROVE  LET closed == Append(es, ActiveLoop(NoName))
                  l == UpdateWith(t0, closed)
              IN  /\ closed \in Seq(RunEvents(form)) /\ l.loop = NoName /\ Kept1(l)
                  /\ ~Rejects(closed)
  <2>. DEFINE closed == Append(es, ActiveLoop(NoName))
              l == UpdateWith(t0, closed)
  <2>1. NoName \in Slots \union {NoName}
    OBVIOUS
  <2>2. /\ closed \in Seq(RunEvents(form)) /\ l.loop = NoName
        /\ \A q \in Slots : l.slots[q] = UpdateWith(t0, es).slots[q]
    BY <2>1, LastEvents
  <2>3. Rejects(closed) <=> Rejects(es)
    BY <2>1, LastEvents
  <2>. HIDE DEF closed, l
  <2>4. Kept1(l)
    BY <1>10, <2>2
  <2>. QED  BY <1>10, <2>2, <2>3, <2>4 DEF closed, l
<1>. DEFINE Good == Leaves(form, u, r.events) /\ Kept1(u)
<1>11. ASSUME IsDone(body) PROVE Good
  <2>1. form \in Stopping
    BY <1>5, <1>11, EarlyStops
  <2>2. ~Rejects(body)
    BY <1>11 DEF IsDone
  <2>3. /\ events \in Seq(RunEvents(form)) /\ IsDone(events) /\ ~Rejects(events)
        /\ Kept1(UpdateWith(t0, events))
    <3>1. CASE events = body
      BY <1>4, <1>5, <1>11, <2>2, <3>1
    <3>2. CASE events = body \o RequestNextSlot(form, t, body)
      <4>1. NoName \in Slots \union {NoName}
        OBVIOUS
      <4>2. events = After(NoName)
        BY <1>6, <1>9, <1>11, <3>2, <4>1
      <4>. HIDE DEF After
      <4>. QED  BY <1>9, <2>2, <4>1, <4>2
    <3>. QED  BY <1>7, <3>1, <3>2
  <2>4. r.events = Append(events, ActiveLoop(NoName))
    BY <1>1, <2>3
  <2>5. r.events \in Seq(RunEvents(form)) /\ u.loop = NoName /\ Kept1(u) /\ ~Rejects(r.events)
    BY <1>10, <2>3, <2>4
  <2>. HIDE DEF u
  <2>. QED  BY <2>1, <2>5 DEF Leaves
<1>12. ASSUME ~IsDone(body), Rejects(body) PROVE Good
  <2>1. c = <<ActionExecutionRejected(form)>>
    BY <1>5, <1>12
  <2>2. c # <<ActiveLoop(NoName)>> /\ \A s : c # <<SlotSet(REQUESTED_SLOT, s)>>
    <3>1. \A e, f : <<e>> = <<f>> => e = f
      OBVIOUS
    <3>2. /\ ActionExecutionRejected(form) # ActiveLoop(NoName)
          /\ \A s : ActionExecutionRejected(form) # SlotSet(REQUESTED_SLOT, s)
      BY DEF ActionExecutionRejected, ActiveLoop, Event, SlotSet
    <3>. QED  BY <2>1, <3>1, <3>2
  <2>3. u0.loop = form /\ u0.rejected
    BY <1>4, <2>1, <2>2
  <2>4. events = body \/ events = After(y)
    BY <1>5, <1>6, <1>7, <1>8, <1>9, <1>12, <2>2
  <2>5. CASE events = body
    <3>1. r.events = body
      BY <1>1, <1>12, <2>5
    <3>. HIDE DEF u0
    <3>. QED  BY <1>4, <1>5, <1>12, <2>3, <3>1 DEF Leaves, u0
  <2>6. CASE events = After(y)
    <3>1. ~IsDone(events) /\ Rejects(events)
      BY <1>8, <1>9, <1>12, <2>6
    <3>2. r.events = After(y)
      BY <1>1, <2>6, <3>1
    <3>3. After(y) \in Seq(RunEvents(form)) /\ a(y).loop = form /\ a(y).rejected /\ Kept1(a(y)) /\ Rejects(After(y))
      BY <1>8, <1>9, <1>12, <2>3
    <3>. HIDE DEF After
    <3>. QED  BY <3>2, <3>3 DEF Leaves
  <2>. QED  BY <2>4, <2>5, <2>6
<1>13. ASSUME ~IsDone(body), ~Rejects(body), Requests(body) # {} PROVE Good
  <2>1. PICK s : c = <<SlotSet(REQUESTED_SLOT, s)>>
    BY <1>5, <1>13
  <2>2. s # NoName /\ c # <<ActiveLoop(NoName)>>
    <3>1. \A e, f : <<e>> = <<f>> => e = f
      OBVIOUS
    <3>2. SlotSet(REQUESTED_SLOT, s) # ActiveLoop(NoName)
      BY DEF ActiveLoop, Event, SlotSet
    <3>. QED  BY <1>5, <1>13, <2>1, <3>1, <3>2
  <2>3. u0.loop = form /\ Requested(u0) = s
    BY <1>4, <2>1, <2>2
  <2>4. s \in RequiredOf(form) /\ FinalValue(t, v, w, s) = Unset
    BY <1>7, <2>1, <2>2 DEF Parts, RequestsEmpty
  <2>5. events = body
    <3>1. body \o <<>> = body
      <4>. DEFINE E == RunEvents(form)
      <4>1. body \in Seq(E)
        BY <1>5
      <4>. HIDE DEF E
      <4>. QED  BY <4>1, ConcatEmptySeq
    <3>. QED  BY <1>6, <1>7, <1>13, <3>1
  <2>6. r.events = body
    BY <1>1, <1>13, <2>5
  <2>7. Requested(u0) \in Missing(form, u0.slots)
    <3>1. u0.slots[s] = Unset
      BY <1>4, <1>8, <2>4
    <3>. HIDE DEF u0
    <3>. QED  BY <2>3, <2>4, <3>1 DEF Missing
  <2>. HIDE DEF u0
  <2>. QED  BY <1>4, <1>5, <1>13, <2>3, <2>6, <2>7 DEF Leaves, u0
<1>14. ASSUME ~IsDone(body), ~Rejects(body), Requests(body) = {} PROVE Good
  <2>1. events = After(y)
    BY <1>5, <1>6, <1>7, <1>8, <1>9, <1>14
  <2>2. ~(LoopChanges(body) # {} /\ body[Max(LoopChanges(body))].name = NoName)
    BY <1>14 DEF IsDone
  <2>3. /\ After(y) \in Seq(RunEvents(form)) /\ Kept1(a(y)) /\ ~Rejects(After(y))
        /\ a(y).loop = u0.loop /\ Requested(a(y)) = y
        /\ IsDone(After(y)) <=> y = NoName
    BY <1>8, <1>9, <1>14, <2>2
  <2>4. u0.loop = form
    <3>1. c # <<ActiveLoop(NoName)>>
      BY <1>5, <1>14
    <3>. QED  BY <1>4, <3>1
  <2>. HIDE DEF After, u0
  <2>5. \A x : Kept1(x) => Missing(form, x.slots) = Missing(form, ub.slots)
    BY <1>4, <1>8 DEF Missing
  <2>6. CASE y = NoName
    <3>1. r.events = Append(After(y), ActiveLoop(NoName))
      BY <1>1, <2>1, <2>3, <2>6
    <3>2. r.events \in Seq(RunEvents(form)) /\ u.loop = NoName /\ Kept1(u) /\ ~Rejects(r.events)
      BY <1>10, <2>3, <3>1
    <3>3. Missing(form, u.slots) = {}
      BY <1>8, <2>5, <2>6, <3>2
    <3>. HIDE DEF u
    <3>. QED  BY <3>2, <3>3 DEF Leaves
  <2>7. CASE y # NoName
    <3>1. r.events = After(y)
      BY <1>1, <2>1, <2>3, <2>7
    <3>2. Requested(a(y)) \in Missing(form, a(y).slots)
      BY <1>8, <2>3, <2>5, <2>7
    <3>. QED  BY <2>3, <2>4, <3>1, <3>2 DEF Leaves
  <2>. QED  BY <2>6, <2>7
<1>15. Good
  BY <1>11, <1>12, <1>13, <1>14
<1>16. form \in Validating /\ Offered(form, t, interrupted) => \A s \in RequiredOf(form) : u.slots[s] # "raw"
  <2>. HIDE DEF u
  <2>. QED  BY <1>7, <1>8, <1>15 DEF Parts, Judged
<1>. QED  BY <1>15, <1>16

-----------------------------------------------------------------------------
(* The inductive invariant.                                                 *)

Quiet == {"interrupted", "other"}

\* Between turns the bot listens, unless a turn was cut short or never began.
WaitsClean ==
  ~turn /\ missed \subseteq Quiet => tracker.latest = LISTEN /\ tracker.vetoed = NoName

\* What a form's custom action has not judged yet, it is about to be offered.
OffersAll ==
  tracker.loop \in Validating /\ missed = {} =>
    \A s \in RequiredOf(tracker.loop) : tracker.slots[s] = "raw" =>
      turn /\ tracker.latest = LISTEN /\ tracker.vetoed # tracker.loop /\ s \in tracker.said

\* The form that ran last has asked for a slot that is empty, up to the next
\* message.
Asks ==
  tracker.loop # NoName /\ ~tracker.rejected /\ missed \subseteq Quiet =>
    (tracker.latest = tracker.loop \/ ~turn =>
      Requested(tracker) \in Missing(tracker.loop, tracker.slots))

IInv == TypeOK /\ WaitsClean /\ OffersAll /\ Asks

LEMMA TypedTracker ==
  ASSUME TypeOK
  PROVE  /\ tracker \in AnyTracker /\ tracker.executed \in 0 .. MaxPredictions
         /\ MaxPredictions \in Nat
BY FormsAssumption DEF TypeOK, FormTracker, AnyTracker, Names, Listening

\* The tracker's part of the type invariant, after a step.
LEMMA TypedAfter ==
  ASSUME tracker' \in AnyTracker, tracker'.executed \in 0 .. MaxPredictions
  PROVE  /\ (tracker \in FormTracker)'
         /\ (\A s \in Slots : tracker.slots[s] \in Values)'
         /\ (Requested(tracker) \in Slots \union {NoName})'
         /\ (tracker.rejected => tracker.loop # NoName)'
BY DEF FormTracker, AnyTracker, Names, Listening, Requested

\* An action that is executed, and what it did.
LEMMA Executed ==
  ASSUME TypeOK, NEW action \in Listening, NEW form \in Forms, NEW events \in Seq(RunEvents(form)),
         ~Rejects(events), Act(action, events)
  PROVE  LET t0 == ApplyTo(tracker, ActionExecuted(action))
         IN  /\ t0 \in AnyTracker /\ tracker' = UpdateWith(t0, events)
             /\ tracker' \in AnyTracker /\ tracker'.latest = action
             /\ tracker'.executed = IF action = LISTEN THEN 0 ELSE tracker.executed + 1
             /\ t0.slots = tracker.slots /\ t0.loop = tracker.loop /\ t0.vetoed = NoName
             /\ t0.said = tracker.said
             /\ t0.rejected <=> tracker.rejected /\ tracker.loop # action
<1>. DEFINE e == ActionExecuted(action)
            t0 == ApplyTo(tracker, e)
<1>1. tracker \in AnyTracker
  BY TypedTracker
<1>2. e \in FormEvents
  BY DEF FormEvents, ActionEvents
<1>3. t0 \in AnyTracker
  BY <1>1, <1>2, ApplyType
<1>4. /\ t0.slots = tracker.slots /\ t0.loop = tracker.loop /\ t0.vetoed = NoName
      /\ t0.said = tracker.said /\ t0.latest = action
      /\ t0.rejected <=> tracker.rejected /\ tracker.loop # action
      /\ t0.executed = IF action = LISTEN THEN 0 ELSE tracker.executed + 1
  BY <1>1, AfterAction
<1>5. tracker' = UpdateWith(tracker, <<e>> \o events)
  BY DEF Act
<1>. HIDE DEF e, t0
<1>6. <<e>> \in Seq(FormEvents) /\ events \in Seq(FormEvents)
  <2>1. RunEvents(form) \subseteq FormEvents
    BY RunEventsTyped
  <2>. DEFINE E == RunEvents(form)
  <2>2. E \subseteq FormEvents /\ events \in Seq(E)
    BY <2>1
  <2>. HIDE DEF E
  <2>. QED  BY <1>2, <2>2
<1>7. UpdateWith(tracker, <<e>> \o events) = UpdateWith(UpdateWith(tracker, <<e>>), events)
  BY <1>1, <1>6, UpdateConcat
<1>8. UpdateWith(tracker, <<e>>) = t0
  BY <1>1, <1>2, UpdateOne DEF t0
<1>9. tracker' = UpdateWith(t0, events)
  BY <1>5, <1>7, <1>8
<1>10. tracker' \in AnyTracker /\ tracker'.latest = t0.latest /\ tracker'.executed = t0.executed
  BY <1>3, <1>9, RunKeepsTurn
<1>. QED  BY <1>3, <1>4, <1>9, <1>10 DEF t0, e

LEMMA InitIInv == Init => IInv
<1>. SUFFICES ASSUME Init PROVE IInv
  OBVIOUS
<1>1. REQUESTED_SLOT \notin Slots /\ MaxPredictions \in Nat /\ MaxMessages \in Nat
  BY FormsAssumption
<1>2. tracker.slots = [s \in Slots \union {REQUESTED_SLOT} |-> Unset] /\ tracker.loop = NoName
      /\ tracker.rejected = FALSE /\ tracker.latest = LISTEN /\ tracker.vetoed = NoName /\ tracker.executed = 0
  BY DEF Init
<1>3. tracker \in FormTracker
  BY <1>1 DEF Init, FormTracker, Values, Unset
<1>4. /\ \A s \in Slots : tracker.slots[s] \in Values
      /\ Requested(tracker) \in Slots \union {NoName}
  BY <1>2 DEF Values, Requested, Unset
<1>5. NoName \notin Validating
  BY FormsAssumption
<1>6. TypeOK
  <2>1. /\ heard \subseteq Mappings /\ turn = FALSE /\ paused = FALSE
        /\ messages \in 0 .. MaxMessages /\ missed \subseteq Causes
    BY <1>1 DEF Init
  <2>. QED  BY <1>2, <1>3, <1>4, <2>1 DEF TypeOK
<1>. QED  BY <1>2, <1>5, <1>6 DEF Init, IInv, WaitsClean, OffersAll, Asks

-----------------------------------------------------------------------------
(* Each action keeps the invariant.                                         *)

\* What a message leaves: what it said is set, and nothing was executed.
LEMMA MessageParts ==
  ASSUME IInv, NEW message \in SUBSET Mappings, HandleMessage(message)
  PROVE  \E found \in SomeValues :
           /\ tracker' \in AnyTracker
           /\ \A s \in Slots : tracker'.slots[s] = IF s \in DOMAIN found THEN found[s] ELSE tracker.slots[s]
           /\ tracker'.said = DOMAIN found /\ tracker'.loop = tracker.loop
           /\ tracker'.latest = tracker.latest /\ tracker'.vetoed = tracker.vetoed
           /\ tracker'.executed = tracker.executed
<1>1. tracker \in AnyTracker /\ tracker.executed \in 0 .. MaxPredictions /\ TypeOK
  BY TypedTracker DEF IInv
<1>. DEFINE t == [tracker EXCEPT !.said = {}]
<1>2. PICK found \in Extractions(tracker, message) : tracker' = UpdateWith(t, SetAll(found))
  BY DEF HandleMessage
<1>3. found \in SomeValues /\ DOMAIN found \subseteq Slots
  BY ExtractionType
<1>4. /\ t \in AnyTracker /\ t.slots = tracker.slots /\ t.said = {} /\ t.loop = tracker.loop
      /\ t.rejected = tracker.rejected /\ t.latest = tracker.latest /\ t.vetoed = tracker.vetoed
      /\ t.executed = tracker.executed
  BY <1>1 DEF AnyTracker, Requested
<1>. HIDE DEF t
<1>5. tracker' = FilledAll(t, found) /\ tracker' \in AnyTracker
  BY <1>2, <1>3, <1>4, FilledType
<1>6. /\ \A s \in Slots : tracker'.slots[s] = IF s \in DOMAIN found THEN found[s] ELSE tracker.slots[s]
      /\ tracker'.said = DOMAIN found /\ tracker'.loop = tracker.loop
      /\ tracker'.latest = tracker.latest /\ tracker'.vetoed = tracker.vetoed
      /\ tracker'.executed = tracker.executed
  BY <1>4, <1>5 DEF FilledAll, AnyTracker
<1>. QED  BY <1>3, <1>5, <1>6

LEMMA MessageIInv ==
  ASSUME IInv, NEW message \in SUBSET Mappings, HandleMessage(message)
  PROVE  IInv'
<1>1. tracker \in AnyTracker /\ tracker.executed \in 0 .. MaxPredictions /\ TypeOK
  BY TypedTracker DEF IInv
<1>2. PICK found \in SomeValues :
           /\ tracker' \in AnyTracker
           /\ \A s \in Slots : tracker'.slots[s] = IF s \in DOMAIN found THEN found[s] ELSE tracker.slots[s]
           /\ tracker'.said = DOMAIN found /\ tracker'.loop = tracker.loop
           /\ tracker'.latest = tracker.latest /\ tracker'.vetoed = tracker.vetoed
           /\ tracker'.executed = tracker.executed
  BY MessageParts
<1>5. tracker' \in AnyTracker
  BY <1>2
<1>6. /\ \A s \in Slots : tracker'.slots[s] = IF s \in DOMAIN found THEN found[s] ELSE tracker.slots[s]
      /\ tracker'.said = DOMAIN found /\ tracker'.loop = tracker.loop
      /\ tracker'.latest = tracker.latest /\ tracker'.vetoed = tracker.vetoed
      /\ tracker'.executed = tracker.executed
  BY <1>2
<1>7. /\ messages < MaxMessages /\ messages' = messages + 1 /\ ~turn
      /\ heard' = message /\ turn' = ~paused /\ paused' = paused
      /\ missed' = missed \union IF paused THEN {"paused"} ELSE {}
  BY DEF HandleMessage
<1>8. TypeOK'
  <2>1. tracker'.executed \in 0 .. MaxPredictions
    BY <1>1, <1>6
  <2>2. heard' \subseteq Mappings /\ messages' \in 0 .. MaxMessages
    BY <1>1, <1>7, FormsAssumption DEF TypeOK
  <2>3. turn' \in BOOLEAN /\ paused' \in BOOLEAN /\ (turn' => ~paused') /\ missed' \subseteq Causes
    BY <1>1, <1>7 DEF TypeOK, Causes
  <2>. QED  BY <1>5, <2>1, <2>2, <2>3, TypedAfter DEF TypeOK
<1>9. missed' \subseteq Quiet => turn' /\ missed' = missed
  <2>1. "paused" \notin Quiet
    BY DEF Quiet
  <2>2. paused \in BOOLEAN
    BY <1>1 DEF TypeOK
  <2>. QED  BY <1>7, <2>1, <2>2
<1>10. WaitsClean'
  BY <1>9 DEF WaitsClean
<1>11. OffersAll'
  <2>1. SUFFICES ASSUME tracker'.loop \in Validating, missed' = {},
                        NEW s \in RequiredOf(tracker'.loop), tracker'.slots[s] = "raw"
                 PROVE  turn' /\ tracker'.latest = LISTEN /\ tracker'.vetoed # tracker'.loop /\ s \in tracker'.said
    BY DEF OffersAll
  <2>2. turn' /\ missed = {} /\ ~turn
    BY <1>7, <1>9, <2>1
  <2>3. tracker.latest = LISTEN /\ tracker.vetoed = NoName
    BY <2>2 DEF IInv, WaitsClean
  <2>4. tracker'.loop \in Forms /\ tracker'.loop # NoName /\ s \in Slots
    BY <2>1, FormsAssumption, RunEventsTyped
  <2>5. s \in DOMAIN found
    <3>1. SUFFICES ASSUME s \notin DOMAIN found PROVE FALSE
      OBVIOUS
    <3>2. tracker.slots[s] = "raw"
      BY <1>6, <2>1, <2>4, <3>1
    <3>. QED  BY <1>6, <2>1, <2>2, <3>2 DEF IInv, OffersAll
  <2>. QED  BY <1>6, <2>2, <2>3, <2>4, <2>5
<1>12. Asks'
  <2>1. SUFFICES ASSUME tracker'.loop # NoName, missed' \subseteq Quiet,
                        tracker'.latest = tracker'.loop \/ ~turn'
                 PROVE  FALSE
    BY DEF Asks
  <2>2. turn' /\ missed \subseteq Quiet /\ ~turn
    BY <1>7, <1>9, <2>1
  <2>3. tracker'.latest = LISTEN
    BY <1>6, <2>2 DEF IInv, WaitsClean
  <2>4. LISTEN \notin Forms /\ tracker'.loop \in Forms
    BY <1>5, <2>1, FormsAssumption DEF AnyTracker, Names
  <2>. QED  BY <2>1, <2>2, <2>3, <2>4
<1>. QED  BY <1>8, <1>10, <1>11, <1>12 DEF IInv

\* What a form's run leads to.
Rejected(form) ==
  /\ tracker'.executed = tracker.executed
  /\ tracker'.loop = form /\ tracker'.rejected

RanOn(form) ==
  /\ tracker'.executed = tracker.executed + 1 /\ tracker'.latest = form
  /\ \/ tracker'.loop = form /\ Requested(tracker') \in Missing(form, tracker'.slots)
     \/ tracker'.loop = NoName /\ (form \in Stopping \/ Missing(form, tracker'.slots) = {})

LEMMA RunFormLeads ==
  ASSUME IInv, NEW form \in Forms, RunForm(form)
  PROVE  /\ tracker' \in AnyTracker /\ turn /\ tracker.executed < MaxPredictions
         /\ Rejected(form) \/ RanOn(form)
         /\ missed' = {} \/ (tracker.loop = form /\ missed' \in {missed, missed \union {"interrupted"}})
         /\ form \in Validating /\ missed' = {} =>
              \A s \in RequiredOf(form) : tracker'.slots[s] # "raw"
         /\ UNCHANGED <<heard, turn, paused, messages>>
<1>1. tracker \in AnyTracker /\ tracker.executed \in 0 .. MaxPredictions /\ MaxPredictions \in Nat
  BY TypedTracker DEF IInv
<1>2. PICK interrupted \in {FALSE, tracker.rejected /\ tracker.latest = LISTEN} :
        \E r \in Runs(form, tracker, interrupted, heard) :
          /\ IF r.raises THEN tracker' = ApplyTo(tracker, ActionExecutionRejected(form))
             ELSE Act(form, r.events)
          /\ missed' = IF tracker.loop # form THEN {}
                       ELSE missed \union IF interrupted THEN {"interrupted"} ELSE {}
  BY DEF RunForm
<1>3. PICK r \in Runs(form, tracker, interrupted, heard) :
          /\ IF r.raises THEN tracker' = ApplyTo(tracker, ActionExecutionRejected(form))
             ELSE Act(form, r.events)
          /\ missed' = IF tracker.loop # form THEN {}
                       ELSE missed \union IF interrupted THEN {"interrupted"} ELSE {}
  BY <1>2
<1>4. turn /\ tracker.executed < MaxPredictions /\ UNCHANGED <<heard, turn, paused, messages>>
  BY DEF RunForm, Predicts
<1>5. interrupted \in BOOLEAN /\ heard \in SUBSET Mappings
  BY <1>1 DEF IInv, TypeOK, AnyTracker
<1>6. r \in Runs(form, tracker, interrupted, heard)
  OBVIOUS
<1>7. /\ r.raises \in BOOLEAN
      /\ r.raises => Unanswered(form, tracker, interrupted)
  BY <1>1, <1>5, <1>6, RunParts
<1>8. missed' = {} \/ (tracker.loop = form /\ missed' \in {missed, missed \union {"interrupted"}})
  BY <1>3, <1>5
<1>9. form \in Validating /\ missed' = {} => Offered(form, tracker, interrupted)
  <2>1. SUFFICES ASSUME form \in Validating, missed' = {}, tracker.loop = form,
                        NEW s \in RequiredOf(form), tracker.slots[s] = "raw"
                 PROVE  tracker.latest = LISTEN /\ ~interrupted /\ s \in tracker.said
    BY DEF Offered
  <2>2. missed = {} /\ ~interrupted
    BY <1>3, <1>5, <2>1
  <2>. QED  BY <2>1, <2>2 DEF IInv, OffersAll
<1>10. CASE r.raises
  <2>1. Unanswered(form, tracker, interrupted) /\ tracker' = ApplyTo(tracker, ActionExecutionRejected(form))
    BY <1>3, <1>7, <1>10
  <2>2. ActionExecutionRejected(form) \in FormEvents
    BY DEF FormEvents, RejectionEvents
  <2>3. /\ tracker' \in AnyTracker
        /\ tracker'.slots = tracker.slots /\ tracker'.loop = tracker.loop
        /\ tracker'.rejected <=> tracker.rejected \/ tracker.loop = form
        /\ tracker'.executed = tracker.executed
    BY <1>1, <2>1, <2>2, ApplyType, AfterRejection
  <2>4. Rejected(form)
    BY <2>1, <2>3 DEF Rejected, Unanswered
  <2>5. ASSUME form \in Validating, missed' = {}, NEW s \in RequiredOf(form) PROVE tracker'.slots[s] # "raw"
    <3>1. tracker.loop = form /\ s \notin tracker.said
      BY <2>1 DEF Unanswered
    <3>. QED  BY <1>9, <2>3, <2>5, <3>1 DEF Offered
  <2>. QED  BY <1>4, <1>8, <2>3, <2>4, <2>5
<1>11. CASE ~r.raises /\ Rejects(r.events)
  <2>. DEFINE u == UpdateWith(tracker, r.events)
  <2>1. tracker' = u
    BY <1>3, <1>11 DEF Act
  <2>2. /\ Leaves(form, u, r.events)
        /\ form \in Validating /\ Offered(form, tracker, interrupted) =>
             \A s \in RequiredOf(form) : u.slots[s] # "raw"
    BY <1>1, <1>5, <1>6, <1>11, RunLeaves
  <2>3. u \in AnyTracker /\ u.executed = tracker.executed
    BY <1>1, <2>2, RunKeepsTurn DEF Leaves
  <2>. HIDE DEF u
  <2>4. Rejected(form)
    BY <1>11, <2>1, <2>2, <2>3 DEF Leaves, Rejected
  <2>. QED  BY <1>4, <1>8, <1>9, <2>1, <2>2, <2>3, <2>4
<1>12. CASE ~r.raises /\ ~Rejects(r.events)
  <2>. DEFINE t0 == ApplyTo(tracker, ActionExecuted(form))
              u == UpdateWith(t0, r.events)
  <2>1. form \in Listening /\ form # LISTEN
    BY FormsAssumption DEF Listening
  <2>2. t0 \in AnyTracker /\ t0.slots = tracker.slots /\ t0.loop = tracker.loop
    <3>1. ActionExecuted(form) \in FormEvents
      BY <2>1 DEF FormEvents, ActionEvents
    <3>. QED  BY <1>1, <3>1, ApplyType, AfterAction
  <2>3. /\ Leaves(form, u, r.events)
        /\ form \in Validating /\ Offered(form, tracker, interrupted) =>
             \A s \in RequiredOf(form) : u.slots[s] # "raw"
    <3>. HIDE DEF t0
    <3>. QED  BY <1>1, <1>5, <1>6, <1>12, <2>2, RunLeaves
  <2>4. Act(form, r.events) /\ r.events \in Seq(RunEvents(form)) /\ TypeOK
    BY <1>3, <1>12, <2>3 DEF Leaves, IInv
  <2>5. /\ tracker' = u /\ tracker' \in AnyTracker /\ tracker'.latest = form
        /\ tracker'.executed = tracker.executed + 1
    BY <1>12, <2>1, <2>4, Executed
  <2>. HIDE DEF u
  <2>6. RanOn(form)
    BY <1>12, <2>3, <2>5 DEF Leaves, RanOn
  <2>. QED  BY <1>4, <1>8, <1>9, <2>3, <2>5, <2>6
<1>. QED  BY <1>7, <1>10, <1>11, <1>12

LEMMA RunFormIInv ==
  ASSUME IInv, NEW form \in Forms, RunForm(form)
  PROVE  IInv'
<1>1. /\ tracker' \in AnyTracker /\ turn /\ tracker.executed < MaxPredictions
      /\ Rejected(form) \/ RanOn(form)
      /\ missed' = {} \/ (tracker.loop = form /\ missed' \in {missed, missed \union {"interrupted"}})
      /\ form \in Validating /\ missed' = {} =>
           \A s \in RequiredOf(form) : tracker'.slots[s] # "raw"
      /\ UNCHANGED <<heard, turn, paused, messages>>
  BY RunFormLeads
<1>2. TypeOK /\ tracker.executed \in 0 .. MaxPredictions /\ MaxPredictions \in Nat
  BY TypedTracker DEF IInv
<1>3. form # NoName
  BY FormsAssumption
<1>4. TypeOK'
  <2>1. tracker'.executed \in 0 .. MaxPredictions
    BY <1>1, <1>2 DEF Rejected, RanOn
  <2>2. missed' \subseteq Causes
    BY <1>1, <1>2 DEF TypeOK, Causes
  <2>. QED  BY <1>1, <1>2, <2>1, <2>2, TypedAfter DEF TypeOK
<1>5. WaitsClean'
  BY <1>1 DEF WaitsClean
<1>6. OffersAll'
  <2>1. NoName \notin Validating
    BY FormsAssumption
  <2>2. tracker'.loop \in {form, NoName}
    BY <1>1 DEF Rejected, RanOn
  <2>. QED  BY <1>1, <2>1, <2>2 DEF OffersAll
<1>7. Asks'
  BY <1>1, <1>3 DEF Asks, Rejected, RanOn
<1>. QED  BY <1>4, <1>5, <1>6, <1>7 DEF IInv

\* An action that does nothing to the slots or the loop.
LEMMA Alone ==
  ASSUME TypeOK, NEW action \in Listening, Act(action, <<>>)
  PROVE  /\ tracker' = ApplyTo(tracker, ActionExecuted(action))
         /\ tracker' \in AnyTracker /\ tracker'.latest = action /\ tracker'.vetoed = NoName
         /\ tracker'.executed = IF action = LISTEN THEN 0 ELSE tracker.executed + 1
         /\ tracker'.slots = tracker.slots /\ tracker'.loop = tracker.loop
         /\ tracker'.rejected <=> tracker.rejected /\ tracker.loop # action
<1>. DEFINE e == ActionExecuted(action)
            none == <<>>
<1>1. tracker \in AnyTracker
  BY TypedTracker
<1>2. e \in FormEvents
  BY DEF FormEvents, ActionEvents
<1>3. ~Rejects(none)
  BY DEF Rejects
<1>4. tracker' = UpdateWith(tracker, <<e>> \o none)
  BY <1>3 DEF Act
<1>5. <<e>> \o none = <<e>>
  <2>1. <<e>> \in Seq({e})
    OBVIOUS
  <2>. QED  BY <2>1
<1>6. UpdateWith(tracker, <<e>>) = ApplyTo(tracker, e)
  <2>. HIDE DEF e
  <2>. QED  BY <1>1, <1>2, UpdateOne
<1>7. tracker' = ApplyTo(tracker, e)
  BY <1>4, <1>5, <1>6
<1>. QED  BY <1>1, <1>2, <1>7, ApplyType, AfterAction

LEMMA FormFailsIInv ==
  ASSUME IInv, NEW form \in Forms, FormFails(form)
  PROVE  IInv'
<1>1. TypeOK /\ tracker.executed \in 0 .. MaxPredictions /\ MaxPredictions \in Nat
  BY TypedTracker DEF IInv
<1>2. /\ turn /\ tracker.executed < MaxPredictions /\ Act(form, <<>>)
      /\ missed' = missed \union {"failed"}
      /\ UNCHANGED <<heard, turn, paused, messages>>
  BY DEF FormFails, Predicts
<1>3. form \in Listening /\ form # LISTEN
  BY FormsAssumption DEF Listening
<1>4. tracker' \in AnyTracker /\ tracker'.executed = tracker.executed + 1
  BY <1>1, <1>2, <1>3, Alone
<1>5. TypeOK'
  <2>1. tracker'.executed \in 0 .. MaxPredictions
    BY <1>1, <1>2, <1>4
  <2>2. missed' \subseteq Causes
    BY <1>1, <1>2 DEF TypeOK, Causes
  <2>. QED  BY <1>1, <1>2, <1>4, <2>1, <2>2, TypedAfter DEF TypeOK
<1>6. ~(missed' \subseteq Quiet) /\ missed' # {}
  BY <1>2 DEF Quiet
<1>. QED  BY <1>5, <1>6 DEF IInv, WaitsClean, OffersAll, Asks

\* A form that is not offered a message it waits for has missed it.
LEMMA NotOverlooked ==
  ASSUME IInv, NEW action \in {LISTEN, OTHER_ACTION}, missed = {}, ~Overlooked(action),
         tracker.loop \in Validating, NEW s \in RequiredOf(tracker.loop)
  PROVE  tracker.slots[s] # "raw"
<1>1. tracker.loop \notin {NoName, action}
  BY FormsAssumption
<1>. QED  BY <1>1 DEF IInv, OffersAll, Overlooked

LEMMA OtherParts ==
  ASSUME TypeOK, NEW events \in OtherResults, Act(OTHER_ACTION, events)
  PROVE  /\ tracker' \in AnyTracker /\ tracker'.latest = OTHER_ACTION
         /\ tracker'.executed = tracker.executed + 1
         /\ events = <<>> => tracker'.slots = tracker.slots /\ tracker'.loop = tracker.loop
<1>. DEFINE a == ActionExecuted(OTHER_ACTION)
            t0 == ApplyTo(tracker, a)
<1>1. tracker \in AnyTracker
  BY TypedTracker
<1>2. OTHER_ACTION \in Listening /\ OTHER_ACTION # LISTEN
  BY DEF Listening, OTHER_ACTION, LISTEN
<1>3. a \in FormEvents
  BY <1>2 DEF FormEvents, ActionEvents
<1>4. t0 \in AnyTracker /\ t0.latest = OTHER_ACTION /\ t0.executed = tracker.executed + 1
  BY <1>1, <1>2, <1>3, ApplyType, AfterAction
<1>5. CASE events = <<>>
  BY <1>2, <1>5, Alone
<1>6. ASSUME NEW e \in SlotEvents \union RequestEvents \union LoopEvents, NEW t \in AnyTracker
      PROVE  /\ e \in FormEvents /\ e.type # "rejected"
             /\ ApplyTo(t, e) \in AnyTracker
             /\ ApplyTo(t, e).latest = t.latest /\ ApplyTo(t, e).executed = t.executed
  <2>1. e \in FormEvents
    BY DEF FormEvents
  <2>2. e.type # "rejected"
    BY DEF SlotEvents, RequestEvents, LoopEvents, SlotSet, ActiveLoop, Event
  <2>3. ApplyTo(t, e).latest = t.latest /\ ApplyTo(t, e).executed = t.executed
    <3>1. ASSUME NEW q, NEW v, e = SlotSet(q, v)
          PROVE  ApplyTo(t, e).latest = t.latest /\ ApplyTo(t, e).executed = t.executed
      BY <3>1, AfterSlot
    <3>2. ASSUME NEW n, e = ActiveLoop(n)
          PROVE  ApplyTo(t, e).latest = t.latest /\ ApplyTo(t, e).executed = t.executed
      BY <3>2, AfterLoop
    <3>. QED  BY <3>1, <3>2 DEF SlotEvents, RequestEvents, LoopEvents
  <2>. QED  BY <2>1, <2>2, <2>3, ApplyType
<1>. HIDE DEF a, t0
<1>7. UpdateWith(tracker, <<a>>) = t0
  BY <1>1, <1>3, UpdateOne DEF t0
<1>8. ASSUME NEW es \in Seq(FormEvents), ~Rejects(es), Act(OTHER_ACTION, es)
      PROVE  tracker' = UpdateWith(t0, es)
  <2>1. tracker' = UpdateWith(tracker, <<a>> \o es)
    BY <1>8 DEF Act, a
  <2>2. <<a>> \in Seq(FormEvents)
    BY <1>3
  <2>3. UpdateWith(tracker, <<a>> \o es) = UpdateWith(UpdateWith(tracker, <<a>>), es)
    BY <1>1, <2>2, UpdateConcat
  <2>. QED  BY <1>7, <2>1, <2>3
<1>9. CASE events = Deactivation
  <2>. DEFINE e == ActiveLoop(NoName)
              f == SlotSet(REQUESTED_SLOT, NoName)
              t1 == ApplyTo(t0, e)
  <2>1. e \in LoopEvents /\ f \in RequestEvents
    BY DEF LoopEvents, RequestEvents, Names
  <2>. HIDE DEF e, f
  <2>2. /\ e \in FormEvents /\ e.type # "rejected" /\ t1 \in AnyTracker
        /\ t1.latest = t0.latest /\ t1.executed = t0.executed
    BY <1>4, <1>6, <2>1
  <2>. HIDE DEF t1
  <2>3. /\ f \in FormEvents /\ f.type # "rejected" /\ ApplyTo(t1, f) \in AnyTracker
        /\ ApplyTo(t1, f).latest = t1.latest /\ ApplyTo(t1, f).executed = t1.executed
    BY <1>6, <2>1, <2>2
  <2>4. events = <<e, f>> /\ events \in Seq(FormEvents) /\ ~Rejects(events)
    <3>1. events = <<e, f>>
      BY <1>9 DEF Deactivation, e, f
    <3>2. <<e, f>> \in Seq(FormEvents)
      BY <2>2, <2>3
    <3>3. ~Rejects(<<e, f>>)
      BY <2>2, <2>3 DEF Rejects
    <3>. QED  BY <3>1, <3>2, <3>3
  <2>5. tracker' = UpdateWith(t0, <<e, f>>)
    BY <1>8, <2>4
  <2>6. <<e, f>> = Append(<<e>>, f) /\ <<e>> \in Seq(FormEvents)
    BY <2>2
  <2>7. UpdateWith(t0, Append(<<e>>, f)) = ApplyTo(UpdateWith(t0, <<e>>), f)
    BY <1>4, <2>3, <2>6, UpdateMore
  <2>8. UpdateWith(t0, <<e>>) = t1
    BY <1>4, <2>2, UpdateOne DEF t1
  <2>9. events # <<>>
    BY <2>4
  <2>. QED  BY <1>4, <2>2, <2>3, <2>5, <2>6, <2>7, <2>8, <2>9
<1>10. ASSUME NEW s \in Slots, events = <<SlotSet(s, "raw")>>
       PROVE  /\ tracker' \in AnyTracker /\ tracker'.latest = OTHER_ACTION
              /\ tracker'.executed = tracker.executed + 1 /\ events # <<>>
  <2>. DEFINE e == SlotSet(s, "raw")
  <2>1. e \in SlotEvents
    BY DEF SlotEvents, Values
  <2>. HIDE DEF e
  <2>2. /\ e \in FormEvents /\ e.type # "rejected" /\ ApplyTo(t0, e) \in AnyTracker
        /\ ApplyTo(t0, e).latest = t0.latest /\ ApplyTo(t0, e).executed = t0.executed
    BY <1>4, <1>6, <2>1
  <2>3. events = <<e>> /\ events \in Seq(FormEvents) /\ ~Rejects(events)
    <3>1. events = <<e>>
      BY <1>10 DEF e
    <3>2. <<e>> \in Seq(FormEvents)
      BY <2>2
    <3>3. ~Rejects(<<e>>)
      BY <2>2 DEF Rejects
    <3>. QED  BY <3>1, <3>2, <3>3
  <2>4. tracker' = UpdateWith(t0, <<e>>)
    BY <1>8, <2>3
  <2>5. UpdateWith(t0, <<e>>) = ApplyTo(t0, e)
    BY <1>4, <2>2, UpdateOne
  <2>6. events # <<>>
    BY <2>3
  <2>. QED  BY <1>4, <2>2, <2>4, <2>5, <2>6
<1>. QED  BY <1>5, <1>9, <1>10, <1>4 DEF OtherResults, Deactivation

LEMMA OtherIInv ==
  ASSUME IInv, NEW events \in OtherResults, RunOther(events)
  PROVE  IInv'
<1>1. TypeOK /\ tracker.executed \in 0 .. MaxPredictions /\ MaxPredictions \in Nat
  BY TypedTracker DEF IInv
<1>2. /\ turn /\ tracker.executed < MaxPredictions /\ Act(OTHER_ACTION, events)
      /\ missed' = missed \union IF events # <<>> \/ Overlooked(OTHER_ACTION) THEN {"other"} ELSE {}
      /\ UNCHANGED <<heard, turn, paused, messages>>
  BY DEF RunOther, Predicts
<1>3. /\ tracker' \in AnyTracker /\ tracker'.latest = OTHER_ACTION
      /\ tracker'.executed = tracker.executed + 1
      /\ events = <<>> => tracker'.slots = tracker.slots /\ tracker'.loop = tracker.loop
  BY <1>1, <1>2, OtherParts
<1>4. TypeOK'
  <2>1. tracker'.executed \in 0 .. MaxPredictions
    BY <1>1, <1>2, <1>3
  <2>2. missed' \subseteq Causes
    BY <1>1, <1>2 DEF TypeOK, Causes
  <2>. QED  BY <1>1, <1>2, <1>3, <2>1, <2>2, TypedAfter DEF TypeOK
<1>5. WaitsClean'
  BY <1>2 DEF WaitsClean
<1>6. OffersAll'
  <2>1. SUFFICES ASSUME tracker'.loop \in Validating, missed' = {}, NEW s \in RequiredOf(tracker'.loop)
                 PROVE  tracker'.slots[s] # "raw"
    BY DEF OffersAll
  <2>2. missed = {} /\ events = <<>> /\ ~Overlooked(OTHER_ACTION)
    BY <1>2, <2>1
  <2>3. tracker.loop \in Validating /\ s \in RequiredOf(tracker.loop) /\ tracker'.slots = tracker.slots
    BY <1>3, <2>1, <2>2
  <2>. QED  BY <2>2, <2>3, NotOverlooked
<1>7. Asks'
  <2>1. OTHER_ACTION \notin Names
    BY FormsAssumption DEF Names, OTHER_ACTION, NoName
  <2>2. tracker'.loop # tracker'.latest
    BY <1>3, <2>1 DEF AnyTracker
  <2>. QED  BY <1>2, <2>2 DEF Asks
<1>. QED  BY <1>4, <1>5, <1>6, <1>7 DEF IInv

LEMMA ListenIInv ==
  ASSUME IInv, Listen
  PROVE  IInv'
<1>1. TypeOK /\ tracker \in AnyTracker /\ MaxPredictions \in Nat
  BY TypedTracker DEF IInv
<1>2. /\ turn /\ Act(LISTEN, <<>>) /\ turn' = FALSE /\ Predicted(LISTEN)
      /\ missed' = missed \union IF Overlooked(LISTEN) THEN {"other"} ELSE {}
      /\ UNCHANGED <<heard, paused, messages>>
  BY DEF Listen, Predicts
<1>3. LISTEN \in Listening
  BY DEF Listening
<1>4. /\ tracker' \in AnyTracker /\ tracker'.latest = LISTEN /\ tracker'.vetoed = NoName
      /\ tracker'.executed = 0
      /\ tracker'.slots = tracker.slots /\ tracker'.loop = tracker.loop
      /\ tracker'.rejected <=> tracker.rejected /\ tracker.loop # LISTEN
  BY <1>1, <1>2, <1>3, Alone
<1>5. TypeOK'
  <2>1. tracker'.executed \in 0 .. MaxPredictions
    BY <1>1, <1>4
  <2>2. missed' \subseteq Causes
    BY <1>1, <1>2 DEF TypeOK, Causes
  <2>. QED  BY <1>1, <1>2, <1>4, <2>1, <2>2, TypedAfter DEF TypeOK
<1>6. WaitsClean'
  BY <1>4 DEF WaitsClean
<1>7. OffersAll'
  <2>1. SUFFICES ASSUME tracker'.loop \in Validating, missed' = {}, NEW s \in RequiredOf(tracker'.loop)
                 PROVE  tracker'.slots[s] # "raw"
    BY DEF OffersAll
  <2>2. missed = {} /\ ~Overlooked(LISTEN)
    BY <1>2, <2>1
  <2>3. tracker.loop \in Validating /\ s \in RequiredOf(tracker.loop) /\ tracker'.slots = tracker.slots
    BY <1>4, <2>1
  <2>. QED  BY <2>2, <2>3, NotOverlooked
<1>8. Asks'
  <2>1. SUFFICES ASSUME tracker'.loop # NoName, ~tracker'.rejected, missed' \subseteq Quiet
                 PROVE  Requested(tracker') \in Missing(tracker'.loop, tracker'.slots)
    BY DEF Asks
  <2>2. tracker.loop # NoName /\ tracker.loop # LISTEN
    BY <1>1, <1>4, <2>1, FormsAssumption DEF AnyTracker, Names
  <2>3. ~tracker.rejected /\ missed \subseteq Quiet
    BY <1>2, <1>4, <2>1, <2>2
  <2>4. tracker.latest = tracker.loop
    BY <1>2, <2>2, <2>3 DEF Predicted, HappyPath
  <2>5. Requested(tracker) \in Missing(tracker.loop, tracker.slots)
    BY <2>2, <2>3, <2>4 DEF IInv, Asks
  <2>. QED  BY <1>4, <2>5 DEF Requested
<1>. QED  BY <1>5, <1>6, <1>7, <1>8 DEF IInv

LEMMA StepIInv == IInv /\ [Next]_vars => IInv'
<1>. SUFFICES ASSUME IInv, [Next]_vars PROVE IInv'
  OBVIOUS
<1>1. ASSUME NEW message \in SUBSET Mappings, HandleMessage(message) PROVE IInv'
  BY <1>1, MessageIInv
<1>2. ASSUME NEW form \in Forms, RunForm(form) PROVE IInv'
  BY <1>2, RunFormIInv
<1>3. ASSUME NEW form \in Forms, FormFails(form) PROVE IInv'
  BY <1>3, FormFailsIInv
<1>4. ASSUME NEW events \in OtherResults, RunOther(events) PROVE IInv'
  BY <1>4, OtherIInv
<1>5. CASE Listen
  BY <1>5, ListenIInv
<1>6. CASE Trip
  <2>1. turn' = FALSE /\ missed' = missed \union {"tripped"} /\ UNCHANGED <<tracker, heard, paused, messages>>
    BY <1>6 DEF Trip
  <2>2. ~(missed' \subseteq Quiet) /\ missed' # {}
    BY <2>1 DEF Quiet
  <2>3. TypeOK'
    BY <2>1 DEF IInv, TypeOK, Causes, Requested
  <2>. QED  BY <2>2, <2>3 DEF IInv, WaitsClean, OffersAll, Asks
<1>7. CASE Takeover
  <2>1. ~turn /\ paused' = ~paused /\ UNCHANGED <<tracker, heard, turn, messages, missed>>
    BY <1>7 DEF Takeover
  <2>2. TypeOK'
    BY <2>1 DEF IInv, TypeOK, Requested
  <2>. QED  BY <2>1, <2>2 DEF IInv, WaitsClean, OffersAll, Asks, Requested
<1>8. CASE UNCHANGED vars
  BY <1>8 DEF vars, IInv, TypeOK, WaitsClean, OffersAll, Asks, Requested
<1>. QED  BY <1>1, <1>2, <1>3, <1>4, <1>5, <1>6, <1>7, <1>8 DEF Next

LEMMA AlwaysIInv == Spec => []IInv
BY InitIInv, StepIInv, PTL DEF Spec

-----------------------------------------------------------------------------
(* What holds of every dialogue.                                            *)

\* The tracker stays one of a form's dialogue: requested_slot names a slot or
\* nothing, every other slot holds a value, and no turn makes more predictions
\* than the circuit breaker allows.
THEOREM FormsTypeOK == Spec => []TypeOK
<1>1. IInv => TypeOK
  BY DEF IInv
<1>. QED  BY <1>1, AlwaysIInv, PTL

\* The bot that listens while a form is active waits for a required slot of
\* this form that is empty, however many forms it switched between, unless a
\* message or a failed run got in between.
THEOREM AlwaysAsksForMissing == Spec => []AsksForMissing
<1>1. IInv => AsksForMissing
  BY DEF IInv, Asks, AsksForMissing, Quiet
<1>. QED  BY <1>1, AlwaysIInv, PTL

\* Nothing but a form's own run ends it by its name.
LEMMA EndsByRun ==
  ASSUME IInv, Next, NEW form \in Forms, Ends(form)
  PROVE  RunForm(form) /\ RanOn(form)
<1>1. TypeOK /\ tracker.executed \in Nat
  BY TypedTracker DEF IInv
<1>2. form \notin {NoName, LISTEN, OTHER_ACTION}
  BY FormsAssumption
<1>3. /\ tracker'.latest = form /\ tracker'.loop = NoName
      /\ tracker'.executed = tracker.executed + 1
      /\ tracker.loop = form \/ missed' = {}
  BY DEF Ends
<1>4. tracker'.executed # tracker.executed
  BY <1>1, <1>3
<1>5. ASSUME NEW message \in SUBSET Mappings, HandleMessage(message) PROVE FALSE
  BY <1>4, <1>5, MessageParts
<1>6. ASSUME NEW g \in Forms, RunForm(g) PROVE RunForm(form) /\ RanOn(form)
  <2>1. Rejected(g) \/ RanOn(g)
    BY <1>6, RunFormLeads
  <2>2. RanOn(g) /\ g = form
    BY <1>3, <1>4, <2>1 DEF Rejected, RanOn
  <2>. QED  BY <1>6, <2>2
<1>7. ASSUME NEW g \in Forms, FormFails(g) PROVE FALSE
  <2>1. Act(g, <<>>) /\ missed' # {} /\ g \in Listening
    BY <1>7 DEF FormFails, Listening
  <2>2. tracker'.loop = tracker.loop
    BY <1>1, <2>1, Alone
  <2>. QED  BY <1>2, <1>3, <2>1, <2>2
<1>8. ASSUME NEW events \in OtherResults, RunOther(events) PROVE FALSE
  <2>1. Act(OTHER_ACTION, events)
    BY <1>8 DEF RunOther
  <2>2. tracker'.latest = OTHER_ACTION
    BY <1>1, <2>1, OtherParts
  <2>. QED  BY <1>2, <1>3, <2>2
<1>9. CASE Listen
  <2>1. Act(LISTEN, <<>>) /\ LISTEN \in Listening
    BY <1>9 DEF Listen, Listening
  <2>2. tracker'.latest = LISTEN
    BY <1>1, <2>1, Alone
  <2>. QED  BY <1>2, <1>3, <2>2
<1>10. CASE Trip \/ Takeover
  BY <1>4, <1>10 DEF Trip, Takeover
<1>. QED  BY <1>5, <1>6, <1>7, <1>8, <1>9, <1>10 DEF Next

\* A form whose custom action does not end it early ends with every required
\* slot filled, for any domain and any custom actions and policies.
THEOREM SubmitsCompleteAlways == Spec => SubmitsComplete
<1>1. ASSUME IInv, [Next]_vars
      PROVE  [\A form \in Forms \ Stopping : Ends(form) => Missing(form, tracker'.slots) = {}]_vars
  <2>1. SUFFICES ASSUME Next, NEW form \in Forms \ Stopping, Ends(form)
                 PROVE  Missing(form, tracker'.slots) = {}
    BY <1>1
  <2>2. RanOn(form) /\ tracker'.loop = NoName /\ form # NoName
    BY <1>1, <2>1, EndsByRun, FormsAssumption DEF Ends
  <2>. QED  BY <2>1, <2>2 DEF RanOn
<1>. QED  BY <1>1, AlwaysIInv, PTL DEF Spec, SubmitsComplete

\* A form that was offered each message first, and none of whose runs failed,
\* ends with slots its custom action has accepted.
THEOREM SubmitsValidatedAlways == Spec => SubmitsValidated
<1>1. ASSUME IInv, [Next]_vars
      PROVE  [\A form \in Validating \ Stopping : Ends(form) /\ missed' = {} =>
                \A s \in RequiredOf(form) : tracker'.slots[s] = "valid"]_vars
  <2>1. SUFFICES ASSUME Next, NEW form \in Validating \ Stopping, Ends(form), missed' = {},
                        NEW s \in RequiredOf(form)
                 PROVE  tracker'.slots[s] = "valid"
    BY <1>1
  <2>2. form \in Forms /\ form # NoName /\ tracker'.loop = NoName
    BY <2>1, FormsAssumption DEF Ends
  <2>3. RunForm(form) /\ RanOn(form)
    BY <1>1, <2>1, <2>2, EndsByRun
  <2>4. Missing(form, tracker'.slots) = {}
    BY <2>1, <2>2, <2>3 DEF RanOn
  <2>5. tracker'.slots[s] # "raw" /\ tracker' \in AnyTracker
    BY <1>1, <2>1, <2>2, <2>3, RunFormLeads
  <2>6. s \in Slots
    BY <2>1, <2>2, RunEventsTyped
  <2>7. tracker'.slots[s] \in Values /\ tracker'.slots[s] # Unset
    BY <2>4, <2>5, <2>6 DEF AnyTracker, Missing
  <2>. QED  BY <2>5, <2>7 DEF Values
<1>. QED  BY <1>1, AlwaysIInv, PTL DEF Spec, SubmitsValidated

=============================================================================

------------------------------ MODULE Markers ------------------------------
(***************************************************************************)
(* The evaluation of markers (rasa/core/evaluation/marker_base.py and       *)
(* marker.py): where in the stored conversations do the conditions apply    *)
(* that were configured?  Markers are objects that follow the events one    *)
(* after the other, and the same objects go through session after session   *)
(* and conversation after conversation.                                     *)
(*                                                                         *)
(* A configuration lists its markers in the order of flatten, parts first,  *)
(* and gives for each its tag, the markers it is made of and the name of    *)
(* the action, intent or slot it is about.  The OrMarker that joins the     *)
(* configured ones is left out: what it finds is not used.                  *)
(***************************************************************************)
EXTENDS Naturals, FiniteSets, Sequences

CONSTANTS
  Names,             \* of the markers
  Configs,           \* the configurations
  Events,            \* the events of the conversations
  MaxLength,         \* a bound on the events of a conversation
  MaxConversations   \* a bound on the conversations

Conditions == {"action", "intent", "slot_was_set"}
Operators == {"and", "or", "not", "seq", "at_least_once"}
ACTION_SESSION_START == "action_session_start"

\* MarkerRegistry.negated_tag_to_tag
NegatedTags ==
  [tag \in {"not_action", "not_intent", "slot_was_not_set", "never", "at_least_one_not"} |->
     CASE tag = "not_action" -> "action"
       [] tag = "not_intent" -> "intent"
       [] tag = "slot_was_not_set" -> "slot_was_set"
       [] tag = "never" -> "at_least_once"
       [] tag = "at_least_one_not" -> "and"]

Tags == Conditions \union Operators \union DOMAIN NegatedTags

\* What from_config builds: the parts of a marker come before it, each once,
\* and an operator has at least one.
ASSUME ConfigsAssumption ==
  \A c \in Configs :
    /\ c.order \in Seq(Names) /\ c.order # <<>>
    /\ \A i, k \in DOMAIN c.order : c.order[i] = c.order[k] => i = k
    /\ c.configured \subseteq {c.order[i] : i \in DOMAIN c.order}
    /\ c.tag \in [Names -> Tags]
    /\ c.parts \in [Names -> Seq(Names)]
    /\ \A i \in DOMAIN c.order :
         /\ c.tag[c.order[i]] \in Operators \union {"never", "at_least_one_not"} => c.parts[c.order[i]] # <<>>
         /\ \A n \in DOMAIN c.parts[c.order[i]] :
              \E k \in 1 .. i - 1 : c.order[k] = c.parts[c.order[i]][n]
ASSUME EventsAssumption == \A e \in Events : e.filled \in BOOLEAN
ASSUME MarkersBoundsAssumption == MaxLength \in Nat /\ MaxConversations \in Nat

VARIABLES
  config,         \* the configuration; it never changes
  events,         \* the conversation that is evaluated
  session,        \* which of its sessions
  at,             \* the event of the session that is tracked
  cursor,         \* the marker that tracks it
  history,        \* per marker, whether it applied at the events so far
  progress,       \* per marker, the progress of a sequence
  results,        \* per session, the relevant events of the markers
  carried,        \* history: the sessions that began half way through a sequence
  conversations   \* conversations so far, see MaxConversations

vars == <<config, events, session, at, cursor, history, progress, results,
          carried, conversations>>

Markers == {config.order[i] : i \in DOMAIN config.order}

-----------------------------------------------------------------------------
(* Marker.from_config                                                       *)

\* get_non_negated_tag
NonNegatedTag(tag) == IF tag \in DOMAIN NegatedTags THEN NegatedTags[tag] ELSE tag

\* from_tag_and_sub_config
FromTag(tag) == [tag |-> NonNegatedTag(tag), negated |-> NonNegatedTag(tag) # tag]

\* from_config hands the tag on without its negation.
FromConfig(tag) == FromTag(NonNegatedTag(tag))

Marker(m) == FromConfig(config.tag[m])

-----------------------------------------------------------------------------
(* The sessions of a conversation.                                          *)

IsSessionStart(e) == e.type = "action" /\ ACTION_SESSION_START \in e.names
Starts == {i \in DOMAIN events : IsSessionStart(events[i])}

\* Mistaken _split_sessions: a session also before the first session start.
FirstPositions_All == Starts \union {1}

\* _split_sessions, as the positions of their first events: what comes before
\* the first session start is dropped, unless there is none.
FirstPositions == IF Starts = {} THEN {1} ELSE Starts

\* The first position of the n-th session, and the one after its last.
StartOf(n) ==
  CHOOSE i \in FirstPositions : Cardinality({k \in FirstPositions : k =< i}) = n
EndOf(n) ==
  IF n = Cardinality(FirstPositions) THEN Len(events) + 1 ELSE StartOf(n + 1)
SessionEvents(n) == SubSeq(events, StartOf(n), EndOf(n) - 1)

-----------------------------------------------------------------------------
(* A marker and an event.                                                   *)

LastFound(m) == history[m] # <<>> /\ history[m][Len(history[m])]

\* What the marker found last, without its negation.
Before(m) == history[m] # <<>> /\ (history[m][Len(history[m])] # Marker(m).negated)

\* What a sequence waits for.
Awaited(m) == config.parts[m][progress[m] + 1]

\* _non_negated_version_applies_at, whose parts have tracked the event.
AppliesAt(m, e) ==
  LET tag == Marker(m).tag
      parts == config.parts[m]
  IN  CASE tag = "and" -> \A i \in DOMAIN parts : LastFound(parts[i])
        [] tag = "or" -> \E i \in DOMAIN parts : LastFound(parts[i])
        [] tag = "not" -> ~LastFound(parts[1])
        [] tag = "at_least_once" -> Before(m) \/ LastFound(parts[1])
        [] tag = "seq" -> LastFound(Awaited(m)) /\ progress[m] + 1 = Len(parts)
        [] tag = "action" -> e.type = "action" /\ config.text[m] \in e.names
        [] tag = "intent" -> e.type = "user" /\ config.text[m] \in e.names
        [] tag = "slot_was_set" ->
             IF e.type = "slot" /\ config.text[m] \in e.names THEN e.filled ELSE Before(m)

\* Mistaken: a sequence is not begun again.
Progressed_On(m) ==
  IF Marker(m).tag = "seq" /\ LastFound(Awaited(m)) THEN progress[m] + 1 ELSE progress[m]

\* The progress of a sequence.
Progressed(m) ==
  IF ~(Marker(m).tag = "seq" /\ LastFound(Awaited(m))) THEN progress[m]
  ELSE IF progress[m] + 1 = Len(config.parts[m]) THEN 0
  ELSE progress[m] + 1

Positions(m) == {i \in DOMAIN history[m] : history[m][i]}

\* relevant_events
RelevantEvents(m) ==
  IF Marker(m).tag = "at_least_once"
    THEN {i \in Positions(m) : \A k \in Positions(m) : i =< k}
    ELSE Positions(m)

\* EventMetaData of the i-th event of the session, counted from 0.
MetaData(i) ==
  [idx |-> StartOf(session) + i - 2,
   preceding_user_turns |->
     Cardinality({k \in 1 .. i - 1 : SessionEvents(session)[k].type = "user"})]

-----------------------------------------------------------------------------
(* evaluate_trackers                                                        *)

Idle == session = 0

Init ==
  /\ config \in Configs
  /\ events = <<>>
  /\ session = 0 /\ at = 0 /\ cursor = 0
  /\ history = [m \in Names |-> <<>>]
  /\ progress = [m \in Names |-> 0]
  /\ results = <<>>
  /\ carried = {}
  /\ conversations = 0

\* Mistaken reset: keeps the histories of the parts.
Cleared_Own == [m \in Names |-> IF m \in config.configured THEN <<>> ELSE history[m]]

\* reset: clears the history of the marker and of its parts, but for the
\* progress of a sequence.
Cleared == [m \in Names |-> <<>>]

Begin(n) ==
  /\ session' = n
  /\ at' = 1 /\ cursor' = 1
  /\ history' = Cleared
  /\ UNCHANGED progress
  /\ carried' = (IF n = 1 THEN {} ELSE carried)
                  \union (IF \E m \in Markers : progress[m] # 0 THEN {n} ELSE {})

\* evaluate_events: the next conversation, and its first session.
Evaluate(conversation) ==
  /\ Idle
  /\ conversations < MaxConversations
  /\ conversations' = conversations + 1
  /\ events' = conversation
  /\ results' = <<>>
  /\ Begin(1)
  /\ UNCHANGED config

Tracking == ~Idle /\ at =< EndOf(session) - StartOf(session)

\* track: one marker after the other, the parts of each before itself.
Track ==
  /\ Tracking
  /\ LET m == config.order[cursor]
         e == events[StartOf(session) + at - 1]
     IN  /\ history' = [history EXCEPT ![m] = Append(@, AppliesAt(m, e) # Marker(m).negated)]
         /\ progress' = [progress EXCEPT ![m] = Progressed(m)]
  /\ IF cursor = Len(config.order)
       THEN cursor' = 1 /\ at' = at + 1
       ELSE cursor' = cursor + 1 /\ UNCHANGED at
  /\ UNCHANGED <<config, events, session, results, carried, conversations>>

Extracted == [m \in config.configured |-> {MetaData(i) : i \in RelevantEvents(m)}]

\* The session is over: what the configured markers found is kept, and the
\* next session is begun.
Extract ==
  /\ ~Idle /\ ~Tracking
  /\ results' = Append(results, Extracted)
  /\ IF session < Cardinality(FirstPositions)
       THEN Begin(session + 1)
       ELSE /\ session' = 0
            /\ UNCHANGED <<at, cursor, history, progress, carried>>
  /\ UNCHANGED <<config, events, conversations>>

Conversations == UNION {[1 .. n -> Events] : n \in 0 .. MaxLength}

Next ==
  \/ \E conversation \in Conversations : Evaluate(conversation)
  \/ Track
  \/ Extract

Spec == Init /\ [][Next]_vars

-----------------------------------------------------------------------------
(* What the markers stand for: the meaning of the tags they were configured  *)
(* with, the negated ones included.                                         *)

Configured(m) == FromTag(config.tag[m])

\* The positions of the n-th session of the conversation.
Session(n) ==
  {p \in DOMAIN events : Starts = {} \/ Cardinality({k \in Starts : k =< p}) = n}

\* The sequence of the sets of positions has been gone through, one position
\* after another, between two positions.
GoneThrough(sets, from, to) ==
  \E way \in [DOMAIN sets -> from .. to] :
    /\ \A i \in DOMAIN sets : way[i] \in sets[i]
    /\ \A i, k \in DOMAIN sets : i < k => way[i] < way[k]

\* Where a sequence applies: each time it has been gone through once more.
Ends(sets, positions) ==
  LET ends[p \in 0 .. Len(events)] ==
        IF p = 0 THEN 0
        ELSE IF p \in positions /\ GoneThrough(sets, ends[p - 1] + 1, p) THEN p
        ELSE ends[p - 1]
  IN  ends
SequencePositions(sets, positions) == {p \in positions : Ends(sets, positions)[p] = p}

Named(m, type, positions) ==
  {p \in positions : events[p].type = type /\ config.text[m] \in events[p].names}

\* The slot was filled when it was last set.
Filled(m, p, positions) ==
  LET set == Named(m, "slot", positions)
  IN  \E q \in set : q =< p /\ events[q].filled /\ \A k \in set : k =< q \/ k > p

\* Where the non-negated version of a marker applies, from where its parts
\* apply.
PlainlyApplies(m, sets, positions) ==
  LET tag == Configured(m).tag
  IN  CASE tag = "action" -> Named(m, "action", positions)
        [] tag = "intent" -> Named(m, "user", positions)
        [] tag = "slot_was_set" -> {p \in positions : Filled(m, p, positions)}
        [] tag = "and" -> {p \in positions : \A i \in DOMAIN sets : p \in sets[i]}
        [] tag = "or" -> {p \in positions : \E i \in DOMAIN sets : p \in sets[i]}
        [] tag = "not" -> positions \ sets[1]
        [] tag = "at_least_once" -> {p \in positions : \E q \in sets[1] : q =< p}
        [] tag = "seq" -> SequencePositions(sets, positions)

\* marker_base.py:170 "a negated marker applies if and only if the non-negated
\* marker does not apply".
Applies(m, sets, positions) ==
  IF Configured(m).negated THEN positions \ PlainlyApplies(m, sets, positions)
  ELSE PlainlyApplies(m, sets, positions)

IndexOf(m) == CHOOSE k \in DOMAIN config.order : config.order[k] = m

\* The positions of a session where each marker applies, from the events of
\* this session alone.
Meaning(positions) ==
  LET where[k \in DOMAIN config.order] ==
        LET m == config.order[k]
        IN  Applies(m, [i \in DOMAIN config.parts[m] |-> where[IndexOf(config.parts[m][i])]], positions)
  IN  [m \in Markers |-> where[IndexOf(m)]]

\* What should be found in a session: of an occurrence its first event.
Due(n) ==
  LET positions == Session(n)
      meaning == Meaning(positions)
      Reported(m) == {p \in meaning[m] :
        Configured(m).tag = "at_least_once" => \A q \in meaning[m] : p =< q}
      Users(p) == {q \in positions : q < p /\ events[q].type = "user"}
  IN  [m \in config.configured |->
         {[idx |-> p - 1, preceding_user_turns |-> Cardinality(Users(p))] : p \in Reported(m)}]

\* The type invariant; a sequence never waits beyond its last part.
TypeOK ==
  /\ config \in Configs
  /\ events \in Seq(Events)
  /\ session \in Nat /\ at \in Nat
  /\ ~Idle => cursor \in DOMAIN config.order
  /\ history \in [Names -> Seq(BOOLEAN)]
  /\ progress \in [Names -> Nat]
  /\ \A m \in Markers : progress[m] # 0 => progress[m] < Len(config.parts[m])
  /\ conversations \in 0 .. MaxConversations

\* marker_base.py:731 "All sub-markers will be updated before the compound
\* marker itself is updated": what a marker looks up of its parts is what they
\* found at the event it tracks, in any session and conversation.
PartsTrackFirst ==
  ~Idle => LET m == config.order[cursor]
           IN  /\ Len(history[m]) + 1 = at
               /\ \A i \in DOMAIN config.parts[m] : Len(history[config.parts[m][i]]) = at

WithoutNegation == \A m \in Markers : config.tag[m] \notin DOMAIN NegatedTags

\* marker_base.py:144 "We evaluate markers separately against every session":
\* what is found in a session is what the markers stand for on the events of
\* this session alone, but for the sessions that a sequence has begun half way
\* through, and for configurations with a negated tag, see NegatedTagsApply;
\* and whatever is configured no session is left out.
EvaluatedAsDefined ==
  /\ WithoutNegation => \A n \in DOMAIN results \ carried : results[n] = Due(n)
  /\ Idle /\ conversations > 0 =>
       Len(results) = IF Starts = {} THEN 1 ELSE Cardinality(Starts)

\* marker_base.py:170 "a negated marker applies if and only if the non-negated
\* marker does not apply": so what is found with a negated tag is where its
\* non-negated version does not apply.
NegatedTagsApply ==
  ~WithoutNegation => \A n \in DOMAIN results \ carried : results[n] = Due(n)

=============================================================================

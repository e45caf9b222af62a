---------------------------- MODULE TrackerStore ----------------------------
(***************************************************************************)
(* The tracker store of one conversation (rasa/core/tracker_store.py): a    *)
(* primary store in a FailSafeTrackerStore, whose fallback is an            *)
(* InMemoryTrackerStore, and the event broker both publish to.              *)
(*                                                                         *)
(* The requests for the conversation come one after the other: each fetches *)
(* the tracker, logs events on it and saves it, or replaces it.  A save     *)
(* publishes the events that are new, then writes.  Any call of the primary *)
(* store may fail, a write also after it took effect, and the process may   *)
(* die between two calls, which takes the fallback along.                   *)
(*                                                                         *)
(* Stores are of two kinds.  Those that append (SQL, MongoDB) hold the      *)
(* events of all sessions, return those of the latest, and add what a       *)
(* tracker has beyond their number.  The others (in-memory, Redis,          *)
(* DynamoDB) hold the whole tracker they were last given.                   *)
(***************************************************************************)
EXTENDS Integers, SequencesExt

CONSTANTS
  Kinds,        \* of the primary store: "appending", "whole"
  MaxRequests,  \* bound on the requests for the conversation
  MaxFaults     \* bound on the failing calls

ASSUME KindsAssumption == Kinds \subseteq {"appending", "whole"}
ASSUME BoundsAssumption == MaxRequests \in Nat /\ MaxFaults \in Nat

VARIABLES
  kind,       \* of the primary store; it never changes
  primary,    \* the conversation's events in the primary store
  known,      \* the primary store has a record of the conversation
  fallback,   \* the events in the fallback store
  published,  \* what the broker was given, in order
  pc,         \* where the request is
  tracker,    \* the events of the request's tracker
  goal,       \* history: the events to be stored once the request is answered
  kept,       \* history: what the last answered request left to be stored
  replaced,   \* history: a client has put a tracker
  requests,   \* the requests so far, see MaxRequests
  logged,     \* the events created so far; numbers them
  faults      \* the failed calls so far, see MaxFaults

vars == <<kind, primary, known, fallback, published, pc, tracker, goal, kept,
          replaced, requests, logged, faults>>

Appends == kind = "appending"

\* "failed": the save of the primary store has raised.
PCs == {"idle", "fetched", "logged", "streamed", "failed"}

\* An event: its number, and whether it is a SessionStarted.
Events == [id : Nat, starts : BOOLEAN]

\* The next n events, without a session start; and those of a new session,
\* ActionExecuted(action_session_start), SessionStarted and a message.
Plain(n) == [i \in 1 .. n |-> [id |-> logged + i, starts |-> FALSE]]
NewSession == [i \in 1 .. 3 |-> [id |-> logged + i, starts |-> i = 2]]

-----------------------------------------------------------------------------
(* What the primary store returns and stores.                               *)

\* _events_since_last_session_start, _event_query
SinceLastSession(events) ==
  LET i == SelectLastInSeq(events, LAMBDA e : e.starts)
  IN  IF i = 0 THEN events ELSE SubSeq(events, i, Len(events))

\* retrieve
Retrieved == IF Appends THEN SinceLastSession(primary) ELSE primary

\* retrieve does not return None.
Found == IF Appends THEN primary # <<>> ELSE known

\* The events of a tracker beyond the first n.
Beyond(n, events) == SubSeq(events, n + 1, Len(events))

\* Mistaken _additional_events: counts the events of all sessions.
Stored_CountsAll(events) ==
  IF Appends THEN primary \o Beyond(Len(primary), events) ELSE events

\* Mistaken save: adds the tracker to what is stored.
Stored_AddsAll(events) == primary \o events

\* What a save of these events makes of the primary store.
Stored(events) ==
  IF Appends THEN primary \o Beyond(Len(Retrieved), events) ELSE events

-----------------------------------------------------------------------------
Init ==
  /\ kind \in Kinds
  /\ primary = <<>>
  /\ known = FALSE
  /\ fallback = <<>>
  /\ published = <<>>
  /\ pc = "idle"
  /\ tracker = <<>>
  /\ goal = <<>>
  /\ kept = <<>>
  /\ replaced = FALSE
  /\ requests = 0
  /\ logged = 0
  /\ faults = 0

Fails == faults < MaxFaults /\ faults' = faults + 1

Begin ==
  /\ pc = "idle"
  /\ requests < MaxRequests
  /\ requests' = requests + 1

BeginFetch ==
  /\ Begin
  /\ UNCHANGED <<kind, published, goal, kept, replaced, logged>>

\* get_or_create_tracker: the conversation is found.
Fetch ==
  /\ BeginFetch
  /\ Found
  /\ tracker' = Retrieved
  /\ pc' = "fetched"
  /\ UNCHANGED <<primary, known, fallback, faults>>

\* FailSafeTrackerStore.retrieve makes a failure None.
Missing == \/ ~Found /\ UNCHANGED faults
           \/ Fails

\* create_tracker: an empty tracker is saved.  With nothing to publish, its
\* stream_events shows only in that it may fail.
Create ==
  /\ BeginFetch
  /\ Missing
  /\ primary' = Stored(<<>>)
  /\ known' = TRUE
  /\ tracker' = <<>>
  /\ pc' = "fetched"
  /\ UNCHANGED fallback

\* The same for a store that is down: both retrieve and save fail.
CreateInFallback ==
  /\ BeginFetch
  /\ \/ ~Found /\ faults < MaxFaults /\ faults' = faults + 1
     \/ faults + 1 < MaxFaults /\ faults' = faults + 2
  /\ \/ UNCHANGED <<primary, known>>
     \/ primary' = Stored(<<>>) /\ known' = TRUE
  /\ fallback' = <<>>
  /\ tracker' = <<>>
  /\ pc' = "fetched"

\* The request's events; an empty tracker starts a session.
LogEvents ==
  /\ pc = "fetched"
  /\ \E new \in {NewSession} \union IF tracker = <<>> THEN {} ELSE {Plain(n) : n \in 1 .. 2} :
       /\ tracker' = tracker \o new
       /\ goal' = kept \o new
       /\ logged' = logged + Len(new)
  /\ pc' = "logged"
  /\ UNCHANGED <<kind, primary, known, fallback, published, kept, replaced, requests, faults>>

\* PUT tracker/events: a tracker made from the request, not from the store.
ReplaceEvents ==
  /\ Begin
  /\ \E new \in {NewSession, Plain(1)} : /\ tracker' = new
                                         /\ goal' = new
                                         /\ logged' = logged + Len(new)
  /\ replaced' = TRUE
  /\ pc' = "logged"
  /\ UNCHANGED <<kind, primary, known, fallback, published, kept, faults>>

\* Mistaken stream_events: publishes the whole tracker.
Stream_All ==
  /\ pc = "logged"
  /\ published' = published \o tracker
  /\ pc' = "streamed"
  /\ UNCHANGED <<kind, primary, known, fallback, tracker, goal, kept, replaced, requests, logged, faults>>

\* Mistaken save: stream_events is not called.
Stream_Not ==
  /\ pc = "logged"
  /\ pc' = "streamed"
  /\ UNCHANGED <<kind, primary, known, fallback, published, tracker, goal, kept, replaced, requests, logged, faults>>

\* What stream_events publishes, one by one, of the primary store and of the
\* fallback; it may be cut off on the way.
NewEvents == Beyond(Len(Retrieved), tracker)
NewToFallback == Beyond(Len(fallback), tracker)

PublishSome(events) ==
  \E n \in 0 .. Len(events) : published' = published \o SubSeq(events, 1, n)

\* save of the primary store: stream_events.
Stream ==
  /\ pc = "logged"
  /\ published' = published \o NewEvents
  /\ pc' = "streamed"
  /\ UNCHANGED <<kind, primary, known, fallback, tracker, goal, kept, replaced, requests, logged, faults>>

Answer ==
  /\ pc' = "idle"
  /\ tracker' = <<>>
  /\ kept' = goal
  /\ UNCHANGED <<kind, goal, replaced, requests, logged>>

\* save of the primary store: the write.
Write ==
  /\ pc = "streamed"
  /\ primary' = Stored(tracker)
  /\ known' = TRUE
  /\ Answer
  /\ UNCHANGED <<fallback, published, faults>>

\* Mistaken FailSafeTrackerStore.save: does not catch what the save raises.
SaveFails_Raises ==
  /\ pc \in {"logged", "streamed"}
  /\ Fails
  /\ pc' = "raised"
  /\ UNCHANGED <<kind, primary, known, fallback, published, tracker, goal, kept, replaced, requests, logged>>

\* The save raises: stream_events does, before or between the events, or the
\* write, which may have taken effect.
SaveFails ==
  /\ \/ pc = "logged" /\ PublishSome(NewEvents) /\ UNCHANGED <<primary, known>>
     \/ pc = "streamed" /\ UNCHANGED <<primary, known, published>>
     \/ pc = "streamed" /\ primary' = Stored(tracker) /\ known' = TRUE /\ UNCHANGED published
  /\ Fails
  /\ pc' = "failed"
  /\ UNCHANGED <<kind, fallback, tracker, goal, kept, replaced, requests, logged>>

\* FailSafeTrackerStore.save: the fallback's save publishes and writes.
SaveToFallback ==
  /\ pc = "failed"
  /\ published' = published \o NewToFallback
  /\ fallback' = tracker
  /\ Answer
  /\ UNCHANGED <<primary, known, faults>>

\* The process dies, perhaps while it publishes; the request was not answered.
Crash ==
  /\ pc # "idle" \/ fallback # <<>>
  /\ \/ UNCHANGED published
     \/ pc = "logged" /\ PublishSome(NewEvents)
     \/ pc = "failed" /\ PublishSome(NewToFallback)
  /\ pc' = "idle"
  /\ tracker' = <<>>
  /\ fallback' = <<>>
  /\ goal' = kept
  /\ UNCHANGED <<kind, primary, known, kept, replaced, requests, logged, faults>>

Next ==
  \/ Fetch
  \/ Create
  \/ CreateInFallback
  \/ LogEvents
  \/ ReplaceEvents
  \/ Stream
  \/ Write
  \/ SaveFails
  \/ SaveToFallback
  \/ Crash

Spec == Init /\ [][Next]_vars

-----------------------------------------------------------------------------
\* The type invariant.
TypeOK ==
  /\ kind \in Kinds
  /\ {primary, fallback, published, tracker, goal, kept} \subseteq Seq(Events)
  /\ known \in BOOLEAN
  /\ pc \in PCs
  /\ replaced \in BOOLEAN
  /\ requests \in 0 .. MaxRequests
  /\ logged \in Nat
  /\ faults \in 0 .. MaxFaults

\* While no call fails, the primary store holds after every request exactly
\* the history the answered requests made, whatever sessions they started
\* and whichever requests a crash cut off.  Stores that append take a tracker
\* a client puts for a continuation of the stored one, which it is not.
StoredExactly ==
  faults = 0 /\ pc = "idle" /\ ~(Appends /\ replaced) => primary = kept

InOrder(events) ==
  \A i, j \in 1 .. Len(events) : i < j => events[i].id < events[j].id

\* Whatever fails, the primary store holds no event twice and none before an
\* earlier one.
StoredOnceInOrder == InOrder(primary)

\* What is in the primary store has been published.  A store that holds
\* whole trackers needs the proviso: a tracker that does not go back to the
\* stored one, because a client put it or because both the read and the write
\* of the empty tracker failed, has its events counted against the stored.
PublishedFirst ==
  Appends \/ (~replaced /\ faults < 2) => ToSet(primary) \subseteq ToSet(published)

\* While no call fails, the broker gets every event at most once, in order.
PublishedOnceInOrder == faults = 0 => InOrder(published)

-----------------------------------------------------------------------------
(* What the code's own words promise, and the code does not keep.           *)

\* processor.py:343 "Creates an empty tracker in case it's a new
\* conversation": fetching a tracker leaves the stored history alone.
HistoryKept ==
  [][pc = "idle" /\ pc' = "fetched" => IsPrefix(primary, primary')]_vars

=============================================================================

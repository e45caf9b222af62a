------------------------- MODULE ConversationAccess -------------------------
(***************************************************************************)
(* Requests at work on the trackers of their conversations: the lock store  *)
(* of LockStore, and under it the read-modify-write of every handler        *)
(* (rasa/server.py, rasa/core/agent.py, rasa/core/processor.py): fetch the  *)
(* tracker, change the copy across many awaits, save the copy.              *)
(*                                                                         *)
(* Messages, events, executed actions and triggered intents enter the lock  *)
(* store, and so does PUT tracker/events, which saves without a fetch.      *)
(* POST predict does not: it fetches and saves without a lock.              *)
(*                                                                         *)
(* A tracker is the sequence of the clients whose events it holds.  The     *)
(* tracker store is one that works (see TrackerStore for the failures).     *)
(***************************************************************************)
EXTENDS LockStore, SequencesExt

CONSTANT Predictions  \* the POST predict requests

ASSUME PredictionsAssumption == Predictions \cap Requests = {}

VARIABLES
  appends,     \* whether the tracker store appends what a tracker has beyond it
  dialogue,    \* dialogue[c]: the tracker of c in the tracker store
  work,        \* what each client has done: "nothing", "fetched" or "saved"
  tracker,     \* the copy of a client that has fetched
  about,       \* the conversation of each prediction
  raced,       \* history: the clients whose copies a save overtook that was not
               \* under the lock, or that were not themselves
  disordered   \* history: the conversations that were ever overdue

accessVars == <<vars, appends, dialogue, work, tracker, about, raced, disordered>>

Clients == Requests \union Predictions

Of(q) == IF q \in Requests THEN conv[q] ELSE about[q]

-----------------------------------------------------------------------------
AccessInit ==
  /\ Init
  /\ appends \in BOOLEAN
  /\ dialogue = [c \in Conversations |-> <<>>]
  /\ work = [q \in Clients |-> "nothing"]
  /\ tracker = [q \in Clients |-> <<>>]
  /\ about \in [Predictions -> Conversations]
  /\ raced = {}
  /\ disordered = {}

\* The store's retrieve, in get_tracker.
Read(q) ==
  /\ work[q] = "nothing"
  /\ work' = [work EXCEPT ![q] = "fetched"]
  /\ tracker' = [tracker EXCEPT ![q] = dialogue[Of(q)]]
  /\ UNCHANGED <<vars, appends, dialogue, about, raced, disordered>>

\* Mistaken save of a store that appends: does not count what is stored.
Stored_All(stored, t) == IF appends THEN stored \o t ELSE t

\* What a save of t makes of the stored tracker.
Stored(stored, t) ==
  IF appends THEN stored \o SubSeq(t, Len(stored) + 1, Len(t)) ELSE t

\* The clients that hold a copy while q saves, where one of the two is not
\* under the lock.
Overtaken(q) ==
  {s \in Clients \ {q} : /\ work[s] = "fetched"
                         /\ Of(s) = Of(q)
                         /\ {s, q} \cap Predictions # {}}

\* The store's save.
Write(q, t) ==
  /\ work' = [work EXCEPT ![q] = "saved"]
  /\ tracker' = [tracker EXCEPT ![q] = <<>>]
  /\ dialogue' = [dialogue EXCEPT ![Of(q)] = Stored(@, t)]
  /\ raced' = (raced \union Overtaken(q)) \ {q}
  /\ UNCHANGED <<vars, appends, about, disordered>>

\* Mistaken handle_message: fetches the tracker before it has the lock.
Fetch_BeforeLock(r) == pc[r] \in {"waiting", "serving"} /\ Read(r)

\* A handler under the lock.  One that raises leaves without saving.
Fetch(r) == pc[r] = "serving" /\ Read(r)
SaveUnderLock(r) ==
  /\ pc[r] = "serving" /\ work[r] = "fetched"
  /\ Write(r, Append(tracker[r], r))

\* PUT tracker/events: saves a tracker made from the request.
Replace(r) ==
  /\ pc[r] = "serving" /\ work[r] = "nothing"
  /\ Write(r, <<r>>)

\* predict_next_for_sender_id: starts a session if need be, which logs
\* events, and saves.
FetchForPrediction(p) == Read(p)
SavePrediction(p) ==
  /\ work[p] = "fetched"
  /\ Write(p, tracker[p]) \/ Write(p, Append(tracker[p], p))

\* A step of the lock store.
Lock ==
  /\ Next
  /\ disordered' = disordered \union {c \in Conversations : overdue'[c]}
  /\ UNCHANGED <<appends, dialogue, work, tracker, about, raced>>

AccessNext ==
  \/ Lock
  \/ \E r \in Requests : Fetch(r) \/ SaveUnderLock(r) \/ Replace(r)
  \/ \E p \in Predictions : FetchForPrediction(p) \/ SavePrediction(p)

AccessSpec == AccessInit /\ [][AccessNext]_accessVars

-----------------------------------------------------------------------------
\* The type invariant of the work under the lock.
AccessTypeOK ==
  /\ appends \in BOOLEAN
  /\ dialogue \in [Conversations -> Seq(Clients)]
  /\ work \in [Clients -> {"nothing", "fetched", "saved"}]
  /\ tracker \in [Clients -> Seq(Clients)]
  /\ about \in [Predictions -> Conversations]
  /\ raced \subseteq Clients
  /\ disordered \subseteq Conversations

\* Until a request outlives its ticket, a request under the lock works on the
\* tracker that is stored: its copy never goes stale across the awaits of its
\* handler, but for a prediction that saves meanwhile.
FreshTracker ==
  \A r \in Requests :
    /\ pc[r] = "serving"
    /\ work[r] = "fetched"
    /\ ~overdue[conv[r]]
    /\ r \notin raced
    => tracker[r] = dialogue[conv[r]]

\* A client that fetched the tracker saves what is stored and its own events,
\* nothing less and nothing else, unless a ticket of its conversation was
\* outlived, or a save without the lock came in between.  PUT tracker/events
\* makes no such promise: it fetches nothing, and what it puts replaces the
\* tracker in a store that holds whole trackers.
NothingLost ==
  [][\A q \in Clients :
       /\ work[q] = "fetched" /\ work'[q] = "saved"
       /\ ~overdue[Of(q)]
       /\ q \notin raced
       => \/ dialogue' = [dialogue EXCEPT ![Of(q)] = Append(@, q)]
          \/ q \in Predictions /\ dialogue' = dialogue]_accessVars

\* Whoever predicts, replaces or overwrites, a stored tracker holds the events
\* of a client once; and unless a ticket of the conversation was ever
\* outlived, those of the requests stand in the order of their arrival.
StoredInOrder ==
  \A c \in Conversations :
    \A i, j \in DOMAIN dialogue[c] :
      i < j => LET q == dialogue[c][i]
                   r == dialogue[c][j]
               IN  /\ q # r
                   /\ c \notin disordered /\ {q, r} \subseteq Requests => r \notin ahead[q]

=============================================================================

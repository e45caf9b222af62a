------------------------------ MODULE LockStore ------------------------------
(***************************************************************************)
(* The lock store of one server process: LockStore.lock() and the          *)
(* InMemoryLockStore behind it (rasa/core/lock_store.py).                  *)
(*                                                                         *)
(* Every message, event append, action execution and intent trigger of a   *)
(* conversation runs as                                                    *)
(*     async with lock_store.lock(conversation_id): <work>                 *)
(* in a coroutine of its own, a "request" here.  All requests share one    *)
(* event loop, so that a step of the model is what runs between two        *)
(* awaits: lock() issues a ticket and tries it once before it first        *)
(* sleeps; after a sleep it prunes the lock and tries again; on the way    *)
(* out (work done, work failed, or task cancelled) cleanup() runs whole.   *)
(*                                                                         *)
(* Time is counted in ticks.  A sleep of wait_time_in_seconds ends at any  *)
(* later point: the event loop promises no more than that.                 *)
(***************************************************************************)
EXTENDS TicketLock

CONSTANTS
  Conversations,  \* conversation ids
  Requests,       \* the coroutines that enter lock(), each once
  Lifetime,       \* lock_lifetime, in ticks
  MaxTime         \* bound on the clock

ASSUME LifetimeAssumption == Lifetime \in Nat
ASSUME MaxTimeAssumption == MaxTime \in Nat

VARIABLES
  now,       \* time.time(), in ticks
  lockIds,   \* the keys of conversation_locks
  tickets,   \* tickets[c] is conversation_locks[c].tickets ({} without a lock)
  pc,        \* where each request is
  conv,      \* the conversation each request entered
  ticket,    \* the ticket issued to each request; lock() holds its number
  ahead,     \* history: the requests active in conv[r] when r entered
  overdue    \* history: see Tick

store == <<lockIds, tickets>>
vars == <<now, lockIds, tickets, pc, conv, ticket, ahead, overdue>>

\* "new" has not called lock(); "waiting" is inside _acquire_lock; "serving"
\* is inside the async with; the other four have left lock().
PCs == {"new", "waiting", "serving", "served", "refused", "cancelled"}

\* The requests between issue_ticket and cleanup.
Active(c) == {r \in Requests : conv[r] = c /\ pc[r] \in {"waiting", "serving"}}

Serving(c) == {r \in Active(c) : pc[r] = "serving"}

-----------------------------------------------------------------------------
Init ==
  /\ now = 0
  /\ lockIds = {}
  /\ tickets = [c \in Conversations |-> {}]
  /\ pc = [r \in Requests |-> "new"]
  /\ conv \in [Requests -> Conversations]
  /\ ticket = [r \in Requests |-> [number |-> 0, expires |-> 0]]
  /\ ahead = [r \in Requests |-> {}]
  /\ overdue = [c \in Conversations |-> FALSE]

\* lock(): issue_ticket, then the first round of _acquire_lock.
Enter(r) ==
  LET c == conv[r]
      new == NewTicket(tickets[c], now, Lifetime)
      queue == IssueTicket(tickets[c], now, Lifetime)
  IN  /\ pc[r] = "new"
      /\ lockIds' = lockIds \union {c}
      /\ tickets' = [tickets EXCEPT ![c] = queue]
      /\ ticket' = [ticket EXCEPT ![r] = new]
      /\ pc' = [pc EXCEPT ![r] = IF IsLocked(queue, new.number, now)
                                   THEN "waiting" ELSE "serving"]
      /\ ahead' = [ahead EXCEPT ![r] = Active(c)]
      /\ UNCHANGED <<now, conv, overdue>>

\* A round of _acquire_lock after a sleep: update_lock, get_lock, is_locked.
TryAgain(r) ==
  LET c == conv[r]
  IN  /\ pc[r] = "waiting"
      /\ c \in lockIds
      /\ tickets' = [tickets EXCEPT ![c] = Unexpired(tickets[c], now)]
      /\ pc' = [pc EXCEPT ![r] = IF IsLocked(tickets[c], ticket[r].number, now)
                                   THEN "waiting" ELSE "serving"]
      /\ UNCHANGED <<now, lockIds, conv, ticket, ahead, overdue>>

\* Mistaken cleanup: never deletes the lock.
Cleanup_KeepsLock(c, number) ==
  /\ tickets' = [tickets EXCEPT ![c] = RemoveTicketFor(@, number, now)]
  /\ UNCHANGED lockIds

\* cleanup: finish_serving removes the ticket with the request's number,
\* then the lock is deleted unless is_someone_waiting.
Cleanup(c, number) ==
  LET left == RemoveTicketFor(tickets[c], number, now)
  IN  /\ tickets' = [tickets EXCEPT ![c] = left]
      /\ lockIds' = IF left = {} THEN lockIds \ {c} ELSE lockIds

\* The request r leaves lock() with the given outcome.  Once nobody is active
\* in the conversation its history of overdue tickets is forgotten.
Exit(r, outcome) ==
  /\ Cleanup(conv[r], ticket[r].number)
  /\ pc' = [pc EXCEPT ![r] = outcome]
  /\ overdue' = [overdue EXCEPT ![conv[r]] = @ /\ Active(conv[r]) # {r}]
  /\ UNCHANGED <<now, conv, ticket, ahead>>

\* get_lock returns None after a sleep: LockError, and the finally clause.
Refused(r) == /\ pc[r] = "waiting"
              /\ conv[r] \notin lockIds
              /\ Exit(r, "refused")

\* The work under the lock returns or raises.
Leave(r) == pc[r] = "serving" /\ Exit(r, "served")

\* The task is cancelled in its sleep (the client disconnects, the server
\* gives up on the request): CancelledError reaches the finally clause.
Cancel(r) == pc[r] = "waiting" /\ Exit(r, "cancelled")

\* Time passes.  overdue[c] records that a request active in c outlived its
\* ticket: from then on the lock no longer knows who is inside.
Tick ==
  /\ now < MaxTime
  /\ now' = now + 1
  /\ overdue' = [c \in Conversations |->
                   overdue[c] \/ \E r \in Active(c) : HasExpired(ticket[r], now + 1)]
  /\ UNCHANGED <<lockIds, tickets, pc, conv, ticket, ahead>>

Next ==
  \/ Tick
  \/ \E r \in Requests :
       \/ Enter(r)
       \/ TryAgain(r)
       \/ Refused(r)
       \/ Leave(r)
       \/ Cancel(r)

\* A sleeping coroutine is woken again and again, and the work under a lock
\* ends: an action call gives up after DEFAULT_REQUEST_TIMEOUT.  Nobody has to
\* arrive, to cancel, or to let time pass.
Fairness == \A r \in Requests : /\ WF_vars(TryAgain(r))
                                /\ WF_vars(Refused(r))
                                /\ WF_vars(Leave(r))

Spec == Init /\ [][Next]_vars

FairSpec == Spec /\ Fairness

-----------------------------------------------------------------------------
\* The type invariant.
TypeOK ==
  /\ now \in Nat
  /\ lockIds \subseteq Conversations
  /\ tickets \in [Conversations -> SUBSET Ticket]
  /\ pc \in [Requests -> PCs]
  /\ conv \in [Requests -> Conversations]
  /\ ticket \in [Requests -> Ticket]
  /\ ahead \in [Requests -> SUBSET Requests]
  /\ overdue \in [Conversations -> BOOLEAN]

\* No lock is leaked, whatever expires and whoever is cancelled: a ticket in
\* a queue belongs to a request still inside lock() for that conversation,
\* and the store keeps no lock of a conversation nobody is active in.
NothingLeaks ==
  \A c \in Conversations :
    /\ \A t \in tickets[c] : \E r \in Active(c) : ticket[r] = t
    /\ c \in lockIds => Active(c) # {}

\* Until a request outlives its ticket, the work on a conversation is
\* exclusive and first come, first served: a request that is being served
\* never has anybody who came before it still waiting or still serving.
NoOvertaking ==
  \A c \in Conversations :
    ~overdue[c] => \A r \in Serving(c) : ahead[r] \cap Active(c) = {}

\* Mutual exclusion under the same proviso.
ServedAlone ==
  \A c \in Conversations :
    ~overdue[c] => \A r, s \in Serving(c) : r = s

\* Until a request outlives its ticket, no waiting request is turned away
\* with a LockError: cleanup never deletes a lock somebody waits for.
RefusedOnlyOverdue ==
  [][\A r \in Requests :
       pc[r] # "refused" /\ pc'[r] = "refused" => overdue[conv[r]]]_vars

\* A waiting request is served, refused or cancelled, or some request of its
\* conversation outlives its ticket.
WaiterSettles ==
  \A r \in Requests :
    (pc[r] = "waiting") ~> (pc[r] # "waiting" \/ overdue[conv[r]])

\* The lock store implements the abstract first-come, first-served access to a
\* conversation: tickets, expiry, pruning and the deletion of locks show only
\* as the disorder that an overdue request causes.
Access == INSTANCE FifoAccess
  WITH stage <- pc,
       before <- [r \in Requests |-> ahead[r] \cap Active(conv[r])],
       disordered <- overdue

ImplementsFifoAccess == Access!Spec

=============================================================================

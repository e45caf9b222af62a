--------------------------- MODULE RedisLockStore ---------------------------
(***************************************************************************)
(* LockStore.lock() over the RedisLockStore (rasa/core/lock_store.py), as   *)
(* several worker processes run it on one conversation.                     *)
(*                                                                         *)
(* The lock is a JSON value under one Redis key.  get_lock is a GET that    *)
(* makes a private copy, save_lock a SET of a changed copy, delete_lock a   *)
(* DEL: issue_ticket, update_lock, finish_serving and cleanup are           *)
(* read-modify-write sequences with no transaction around them.  The Redis  *)
(* client blocks, so that requests of one worker interleave only where      *)
(* lock() awaits; requests of different workers interleave between any two  *)
(* commands.  A step is the code from one command up to the next.           *)
(***************************************************************************)
EXTENDS TicketLock

CONSTANTS
  Requests,     \* the coroutines that enter lock(conversation_id), each once
  Workers,      \* the worker processes
  Lifetime,     \* lock_lifetime, in ticks
  MaxTime,      \* bound on the clock
  MaxFailures   \* bound on the commands that raise and the workers that die

ASSUME LifetimeAssumption == Lifetime \in Nat
ASSUME MaxTimeAssumption == MaxTime \in Nat
ASSUME MaxFailuresAssumption == MaxFailures \in Nat

VARIABLES
  now,       \* time.time(), in ticks, the same for all workers
  exists,    \* whether the key of the conversation is set
  stored,    \* the tickets in its value ({} without a key)
  worker,    \* the process each request runs in
  pc,        \* the command each request is about to issue
  copy,      \* the tickets of the request's last GET
  ticket,    \* the ticket issued to each request
  failures,  \* commands that raised, workers that died
  ahead,     \* history: the requests that held tickets when r's was issued
  overdue,   \* history: some request outlived its ticket
  torn       \* history: a write came between a GET and the write it led to

redis == <<exists, stored>>
history == <<ahead, overdue, torn>>
redisVars == <<now, redis, worker, pc, copy, ticket, failures, history>>

\* Between two commands of one synchronous stretch: nothing else runs in the
\* worker.  "issue", "prune", "remove" and "delete" hold what they have read.
Writing == {"issue", "prune", "remove", "delete"}
InStretch == Writing \union {"try", "raise", "check"}
PCs == InStretch \union {"new", "waiting", "serving", "left", "dead"}

CanRun(r) == \A s \in Requests \ {r} : worker[s] = worker[r] => pc[s] \notin InStretch

Busy == {r \in Requests : pc[r] \notin {"new", "left", "dead"}}

\* The requests that hold a ticket, up to the end of their cleanup.
Holders == {r \in Requests : pc[r] \in {"try", "prune", "waiting", "serving", "raise", "remove"}}

Serving == {r \in Requests : pc[r] = "serving"}

-----------------------------------------------------------------------------
RedisInit ==
  /\ now = 0
  /\ exists = FALSE
  /\ stored = {}
  /\ worker \in [Requests -> Workers]
  /\ pc = [r \in Requests |-> "new"]
  /\ copy = [r \in Requests |-> {}]
  /\ ticket = [r \in Requests |-> [number |-> 0, expires |-> 0]]
  /\ failures = 0
  /\ ahead = [r \in Requests |-> {}]
  /\ overdue = FALSE
  /\ torn = FALSE

Goto(r, p) == pc' = [pc EXCEPT ![r] = p]

\* The last busy request leaves: an overdue ticket no longer matters, and a
\* torn write no longer if the lock is gone as well.
LastLeaves(r, p) == p \in {"left", "dead"} /\ Busy = {r}

\* GET: the request takes a copy (get_lock returns None without a key) and
\* goes on to p, where only a write still needs the copy.
Get(r, p) ==
  /\ Goto(r, p)
  /\ copy' = [copy EXCEPT ![r] = IF p \in Writing THEN stored ELSE {}]
  /\ overdue' = (overdue /\ ~LastLeaves(r, p))
  /\ UNCHANGED <<now, redis, worker, ticket, failures, ahead, torn>>

\* SET or DEL, as key and value say; it tears every read that is still to be
\* followed by a write.
Write(r, p, key, value) ==
  /\ Goto(r, p)
  /\ exists' = key
  /\ stored' = value
  /\ torn' = /\ ~(LastLeaves(r, p) /\ ~key)
             /\ torn \/ \E s \in Requests \ {r} : pc[s] \in Writing
  /\ overdue' = (overdue /\ ~LastLeaves(r, p))
  /\ copy' = [copy EXCEPT ![r] = {}]
  /\ UNCHANGED <<now, worker>>

\* What remains of a command's sequence when the client raises: issue_ticket
\* comes before the try statement; an exception of _acquire_lock leads to the
\* finally clause; an exception inside cleanup leaves the request.  A request
\* that sleeps is in _acquire_lock when it wakes, and in cleanup if it was
\* cancelled.
AfterError(p) ==
  (IF p \in {"waiting", "try", "prune"} THEN {"raise"} ELSE {})
    \union (IF p \notin {"try", "prune"} THEN {"left"} ELSE {})

\* issue_ticket, get_or_create_lock: GET.
Arrive(r) == pc[r] = "new" /\ CanRun(r) /\ Get(r, "issue")

\* issue_ticket, save_lock: SET.
Issue(r, p) ==
  /\ pc[r] = "issue"
  /\ Write(r, p, TRUE, IssueTicket(copy[r], now, Lifetime))
  /\ ticket' = [ticket EXCEPT ![r] = NewTicket(copy[r], now, Lifetime)]
  /\ ahead' = [ahead EXCEPT ![r] = Holders]

\* _acquire_lock, get_lock: GET, and what is_locked says of it.
Try(r) ==
  /\ pc[r] = "try"
  /\ Get(r, CASE ~exists -> "raise"
              [] exists /\ ~IsLocked(stored, ticket[r].number, now) -> "serving"
              [] OTHER -> "waiting")

\* The sleep ends; update_lock, get_lock: GET.
Wake(r) ==
  /\ pc[r] = "waiting"
  /\ CanRun(r)
  /\ Get(r, IF exists THEN "prune" ELSE "try")

\* update_lock, save_lock: SET.
Prune(r, p) ==
  /\ pc[r] = "prune"
  /\ Write(r, p, TRUE, Unexpired(copy[r], now))
  /\ UNCHANGED <<ticket, ahead>>

\* finish_serving, get_lock: GET, when the work is done, when the task is
\* cancelled in its sleep, or when _acquire_lock has raised.
Finish(r) ==
  /\ pc[r] \in {"serving", "waiting", "raise"}
  /\ CanRun(r)
  /\ Get(r, IF exists THEN "remove" ELSE "check")

\* finish_serving, save_lock: SET.
FinishServing(r, p) ==
  /\ pc[r] = "remove"
  /\ Write(r, p, TRUE, RemoveTicketFor(copy[r], ticket[r].number, now))
  /\ UNCHANGED <<ticket, ahead>>

\* Mistaken cleanup: goes on to delete_lock whoever is waiting.
Check_AlwaysDeletes(r) == pc[r] = "check" /\ Get(r, "delete")

\* is_someone_waiting: GET.
Check(r) == pc[r] = "check" /\ Get(r, IF stored = {} THEN "delete" ELSE "left")

\* delete_lock: DEL.
Delete(r) ==
  /\ pc[r] = "delete"
  /\ Write(r, "left", FALSE, {})
  /\ UNCHANGED <<ticket, ahead>>

Writes(r) == /\ \/ Issue(r, "try") \/ Prune(r, "try")
                \/ FinishServing(r, "check") \/ Delete(r)
             /\ UNCHANGED failures

\* A command raises before Redis executed it: no connection.
CommandFails(r) ==
  /\ pc[r] \notin {"new", "left", "dead"}
  /\ CanRun(r)
  /\ failures < MaxFailures
  /\ failures' = failures + 1
  /\ \E p \in AfterError(pc[r]) :
       /\ Goto(r, p)
       /\ overdue' = (overdue /\ ~LastLeaves(r, p))
  /\ copy' = [copy EXCEPT ![r] = {}]
  /\ UNCHANGED <<now, redis, worker, ticket, ahead, torn>>

\* A SET or DEL is executed, but its reply is lost: socket_timeout.
ReplyLost(r) ==
  /\ failures < MaxFailures
  /\ failures' = failures + 1
  /\ Issue(r, "left") \/ Prune(r, "raise") \/ FinishServing(r, "left") \/ Delete(r)

\* A worker process dies with all its requests; it is restarted, and new
\* requests reach it.
Crash(w) ==
  /\ failures < MaxFailures
  /\ failures' = failures + 1
  /\ \E r \in Busy : worker[r] = w
  /\ LET lost == {r \in Busy : worker[r] = w}
     IN  /\ pc' = [r \in Requests |-> IF r \in lost THEN "dead" ELSE pc[r]]
         /\ copy' = [r \in Requests |-> IF r \in lost THEN {} ELSE copy[r]]
  /\ overdue' = (overdue /\ \E r \in Busy : worker[r] # w)
  /\ UNCHANGED <<now, redis, worker, ticket, ahead, torn>>

Tick ==
  /\ now < MaxTime
  /\ now' = now + 1
  /\ overdue' = (overdue \/ \E r \in Holders : HasExpired(ticket[r], now + 1))
  /\ UNCHANGED <<redis, worker, pc, copy, ticket, failures, ahead, torn>>

RedisNext ==
  \/ Tick
  \/ \E w \in Workers : Crash(w)
  \/ \E r \in Requests :
       \/ Arrive(r)
       \/ Try(r)
       \/ Wake(r)
       \/ Finish(r)
       \/ Check(r)
       \/ Writes(r)
       \/ CommandFails(r)
       \/ ReplyLost(r)

RedisSpec == RedisInit /\ [][RedisNext]_redisVars

-----------------------------------------------------------------------------
\* The type invariant.
RedisTypeOK ==
  /\ now \in Nat
  /\ exists \in BOOLEAN
  /\ stored \subseteq Ticket
  /\ worker \in [Requests -> Workers]
  /\ pc \in [Requests -> PCs]
  /\ copy \in [Requests -> SUBSET Ticket]
  /\ ticket \in [Requests -> Ticket]
  /\ failures \in 0 .. MaxFailures
  /\ ahead \in [Requests -> SUBSET Requests]
  /\ overdue \in BOOLEAN
  /\ torn \in BOOLEAN

\* As long as no read-modify-write was torn by another worker's write and no
\* request has outlived its ticket, the lock excludes across processes, in the
\* order of the tickets, whatever commands failed and whichever workers died.
ExclusiveUnlessTorn ==
  ~torn /\ ~overdue =>
    \A r \in Serving : Serving = {r} /\ ahead[r] \cap Holders = {}

\* A ticket is in the queue without a request only where something failed, or
\* a write was torn: lock() itself leaves no ticket behind.
OrphansHaveCause ==
  failures = 0 /\ ~torn =>
    \A t \in stored : ~HasExpired(t, now) => \E r \in Holders : ticket[r] = t

=============================================================================

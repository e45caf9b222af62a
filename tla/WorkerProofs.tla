---------------------------- MODULE WorkerProofs ----------------------------
(***************************************************************************)
(* What does not run in a single process under a single lock: the locks     *)
(* that worker processes share in Redis, and the reminders of the agents    *)
(* that a server goes through.  For every set of requests and workers,      *)
(* whatever commands fail and whichever workers die; and for any            *)
(* conversations and results of actions, and any number of messages,        *)
(* reminders and agents.                                                   *)
(*                                                                         *)
(* RedisLockStore.  As long as no write is torn, a copy that is still to be *)
(* written back is what is stored, so that a read-modify-write acts like a  *)
(* single step.  What is left is the argument for one process: unless a     *)
(* ticket was outlived, the queue holds the tickets of all holders in the   *)
(* order of their numbers, and whoever is served has the first of it.  The  *)
(* tickets of requests that failed stay in the queue and do no harm to it.  *)
(*                                                                         *)
(* Reminders.  Reminders and messages that take their locks from one        *)
(* store never work on a conversation at once (Exclusion); they do until a   *)
(* reminder runs under locks of a processor's own, and all of them do until  *)
(* an agent whose locks are in memory is replaced (OneStore).  So what is    *)
(* saved continues what was stored when the turn began (Current), a message  *)
(* that is done stays in the log of its conversation (MessagesKept), and     *)
(* only reminders with greater numbers come after it there (Logged).  A      *)
(* reminder nothing came between finds its own event where the turn that     *)
(* scheduled it left it (NoneDropped), unless one that has its name took its *)
(* place on the scheduler (TakenByNamesakes).                                *)
(***************************************************************************)
EXTENDS RedisLockStore, Reminders, Lemmas

-----------------------------------------------------------------------------
(* RedisLockStore: the inductive invariant.                                *)

RedisTyped == RedisTypeOK /\ IsDeque(stored) /\ \A r \in Requests : IsDeque(copy[r])

\* Without a key there are no tickets.
KeyHoldsTickets == ~exists => stored = {}

\* What a request is going to write back is what is stored.
ReadsLast == ~torn => \A r \in Requests : pc[r] \in Writing => copy[r] = stored

\* Only a queue that was empty is deleted.
DeletesEmpty == \A r \in Requests : pc[r] = "delete" => copy[r] = {}

\* Only requests that have a ticket are ahead of somebody.
AheadIssued == \A r \in Requests : \A s \in ahead[r] : pc[s] \notin {"new", "issue"}

\* Every holder is in the queue, its ticket unexpired.
Queued == \A r \in Holders : ticket[r] \in stored /\ ~HasExpired(ticket[r], now)

\* The tickets of the holders are numbered in the order they were issued.
Numbered ==
  \A r, s \in Holders :
    /\ s \in ahead[r] => ticket[s].number < ticket[r].number
    /\ r # s => s \in ahead[r] \/ r \in ahead[s]

\* Whoever is served holds the first ticket.
HeadServed ==
  \A r \in Serving : \A t \in Unexpired(stored, now) : ticket[r].number =< t.number

InOrder == Queued /\ Numbered /\ HeadServed

IInv ==
  /\ RedisTyped
  /\ KeyHoldsTickets
  /\ ReadsLast
  /\ DeletesEmpty
  /\ AheadIssued
  /\ OrphansHaveCause
  /\ ~torn /\ ~overdue => InOrder

LEMMA InitIInv == RedisInit => IInv
<1>. SUFFICES ASSUME RedisInit PROVE IInv
  OBVIOUS
<1>1. RedisTypeOK
  <2>1. pc \in [Requests -> PCs]
    BY DEF RedisInit, PCs
  <2>2. ticket \in [Requests -> Ticket]
    BY DEF RedisInit, Ticket
  <2>3. failures \in 0 .. MaxFailures
    BY MaxFailuresAssumption DEF RedisInit
  <2>. QED  BY <2>1, <2>2, <2>3 DEF RedisInit, RedisTypeOK
<1>2. IsDeque({})
  BY DEF IsDeque
<1>3. Holders = {} /\ Serving = {}
  BY DEF RedisInit, Holders, Serving
<1>. QED  BY <1>1, <1>2, <1>3
          DEF RedisInit, IInv, RedisTyped, KeyHoldsTickets, ReadsLast, DeletesEmpty, AheadIssued,
              OrphansHaveCause, InOrder, Queued, Numbered, HeadServed, Writing

-----------------------------------------------------------------------------
(* Steps that leave the lock alone.                                        *)

\* When the last request has left, there is no holder.
LEMMA LastHolder ==
  ASSUME NEW r \in Requests, NEW p, pc \in [Requests -> PCs],
         pc' = [pc EXCEPT ![r] = p], LastLeaves(r, p)
  PROVE  Holders' = {} /\ \A s \in Requests : pc'[s] \in {"new", "left", "dead"}
BY DEF LastLeaves, Busy, Holders

LEMMA NoHolders == ASSUME Holders = {} PROVE InOrder
BY DEF InOrder, Queued, Numbered, HeadServed, Serving, Holders

\* What a step must not do if it neither writes nor lets time pass: become a
\* holder, or be served with another ticket in front.
LEMMA QuietIInv ==
  ASSUME IInv, RedisTypeOK', UNCHANGED <<now, redis, ticket, ahead, torn>>,
         failures' = 0 => failures = 0,
         \A r \in Requests : IsDeque(copy'[r]),
         Holders' \subseteq Holders,
         \A r \in Holders : r \in Holders' \/ failures' # 0 \/ ~exists,
         ~overdue' => ~overdue \/ Holders' = {},
         \A r \in Requests :
           /\ pc'[r] \in Writing => copy'[r] = stored \/ (pc[r] \in Writing /\ copy'[r] = copy[r])
           /\ pc'[r] = "delete" => copy'[r] = {}
           /\ pc'[r] \in {"new", "issue"} => pc[r] \in {"new", "issue"}
           /\ pc'[r] = "serving" /\ pc[r] # "serving" /\ InOrder =>
                \A t \in Unexpired(stored, now) : ticket[r].number =< t.number
  PROVE  IInv'
<1>. USE DEF redis
<1>1. RedisTyped'
  BY DEF IInv, RedisTyped
<1>2. KeyHoldsTickets' /\ ReadsLast' /\ DeletesEmpty' /\ AheadIssued'
  <2>1. KeyHoldsTickets'
    BY DEF IInv, KeyHoldsTickets
  <2>2. ReadsLast'
    BY DEF IInv, ReadsLast
  <2>3. DeletesEmpty'
    BY DEF DeletesEmpty
  <2>4. AheadIssued'
    BY DEF IInv, AheadIssued, RedisTyped, RedisTypeOK
  <2>. QED  BY <2>1, <2>2, <2>3, <2>4
<1>3. OrphansHaveCause'
  BY DEF IInv, OrphansHaveCause, KeyHoldsTickets
<1>4. ASSUME ~torn', ~overdue'
      PROVE  InOrder'
  <2>1. CASE Holders' = {}
    BY <2>1 DEF InOrder, Queued, Numbered, HeadServed, Serving, Holders
  <2>2. CASE ~overdue
    <3>1. InOrder
      BY <1>4, <2>2 DEF IInv
    <3>2. Queued' /\ Numbered'
      BY <3>1 DEF InOrder, Queued, Numbered
    <3>3. HeadServed'
      BY <3>1 DEF InOrder, HeadServed, Serving
    <3>. QED  BY <3>2, <3>3 DEF InOrder
  <2>. QED  BY <1>4, <2>1, <2>2
<1>. QED  BY <1>1, <1>2, <1>3, <1>4 DEF IInv

LEMMA TickIInv == ASSUME IInv, Tick PROVE IInv'
<1>1. /\ now' = now + 1 /\ now \in Nat
      /\ UNCHANGED <<redis, worker, pc, copy, ticket, failures, ahead, torn>>
  BY DEF Tick, IInv, RedisTyped, RedisTypeOK
<1>. USE DEF redis
<1>2. Holders' = Holders /\ Serving' = Serving
  BY <1>1 DEF Holders, Serving
<1>3. RedisTyped'
  BY <1>1 DEF Tick, IInv, RedisTyped, RedisTypeOK
<1>4. KeyHoldsTickets' /\ ReadsLast' /\ DeletesEmpty' /\ AheadIssued'
  BY <1>1 DEF IInv, KeyHoldsTickets, ReadsLast, DeletesEmpty, AheadIssued
<1>5. \A t \in Ticket : HasExpired(t, now) => HasExpired(t, now + 1)
  BY <1>1 DEF HasExpired, Ticket
<1>6. OrphansHaveCause'
  BY <1>1, <1>2, <1>5 DEF IInv, OrphansHaveCause, RedisTyped, RedisTypeOK
<1>7. ASSUME ~torn', ~overdue' PROVE InOrder'
  <2>1. InOrder /\ \A r \in Holders : ~HasExpired(ticket[r], now')
    <3>1. ~overdue /\ ~ \E r \in Holders : HasExpired(ticket[r], now + 1)
      BY <1>7 DEF Tick
    <3>. QED  BY <3>1, <1>1, <1>7 DEF IInv
  <2>2. Queued' /\ Numbered'
    BY <1>1, <1>2, <2>1 DEF InOrder, Queued, Numbered
  <2>3. Unexpired(stored, now') \subseteq Unexpired(stored, now)
    BY <1>1, <1>5 DEF Unexpired, IInv, RedisTyped, RedisTypeOK
  <2>4. HeadServed'
    BY <1>1, <1>2, <2>1, <2>3 DEF InOrder, HeadServed
  <2>. QED  BY <2>2, <2>4 DEF InOrder
<1>. QED  BY <1>3, <1>4, <1>6, <1>7 DEF IInv

\* A GET, whatever its command.
LEMMA GetIInv ==
  ASSUME IInv, NEW r \in Requests, NEW p \in PCs \ {"new"}, Get(r, p),
         p = "issue" => pc[r] = "new",
         p = "delete" => stored = {},
         r \in Holders => p \notin {"check", "delete", "left", "issue", "dead"} \/ ~exists,
         r \notin Holders => p \in {"issue", "check", "delete", "left"},
         p = "serving" /\ InOrder =>
           \A t \in Unexpired(stored, now) : ticket[r].number =< t.number
  PROVE  IInv'
<1>1. /\ pc' = [pc EXCEPT ![r] = p] /\ pc \in [Requests -> PCs]
      /\ copy' = [copy EXCEPT ![r] = IF p \in Writing THEN stored ELSE {}]
      /\ copy \in [Requests -> SUBSET Ticket]
      /\ overdue' = (overdue /\ ~LastLeaves(r, p))
      /\ UNCHANGED <<now, redis, worker, ticket, failures, ahead, torn>>
  BY DEF Get, Goto, IInv, RedisTyped, RedisTypeOK
<1>2. RedisTypeOK'
  BY <1>1 DEF IInv, RedisTyped, RedisTypeOK, redis
<1>3. \A s \in Requests : IsDeque(copy'[s])
  <2>1. IsDeque({}) /\ IsDeque(stored)
    BY DEF IsDeque, IInv, RedisTyped
  <2>. QED  BY <1>1, <2>1 DEF IInv, RedisTyped
<1>4. /\ Holders' \subseteq Holders
      /\ \A s \in Holders : s \in Holders' \/ ~exists
  BY <1>1 DEF Holders, PCs, InStretch, Writing
<1>5. ~overdue' => ~overdue \/ Holders' = {}
  BY <1>1, LastHolder
<1>6. \A s \in Requests :
        /\ pc'[s] \in Writing => copy'[s] = stored \/ (pc[s] \in Writing /\ copy'[s] = copy[s])
        /\ pc'[s] = "delete" => copy'[s] = {}
        /\ pc'[s] \in {"new", "issue"} => pc[s] \in {"new", "issue"}
        /\ pc'[s] = "serving" /\ pc[s] # "serving" /\ InOrder =>
             \A t \in Unexpired(stored, now) : ticket[s].number =< t.number
  <2>. SUFFICES ASSUME NEW s \in Requests
                PROVE  /\ pc'[s] \in Writing => copy'[s] = stored \/ (pc[s] \in Writing /\ copy'[s] = copy[s])
                       /\ pc'[s] = "delete" => copy'[s] = {}
                       /\ pc'[s] \in {"new", "issue"} => pc[s] \in {"new", "issue"}
                       /\ pc'[s] = "serving" /\ pc[s] # "serving" /\ InOrder =>
                            \A t \in Unexpired(stored, now) : ticket[s].number =< t.number
    OBVIOUS
  <2>1. CASE s = r
    BY <2>1, <1>1 DEF Writing
  <2>2. CASE s # r
    BY <2>2, <1>1 DEF IInv, DeletesEmpty, Writing
  <2>. QED  BY <2>1, <2>2
<1>. QED  BY <1>1, <1>2, <1>3, <1>4, <1>5, <1>6, QuietIInv

LEMMA TryIInv == ASSUME IInv, NEW r \in Requests, Try(r) PROVE IInv'
<1>. DEFINE p == CASE ~exists -> "raise"
                   [] exists /\ ~IsLocked(stored, ticket[r].number, now) -> "serving"
                   [] OTHER -> "waiting"
<1>1. Get(r, p) /\ p \in {"raise", "serving", "waiting"} /\ r \in Holders
  BY DEF Try, Holders
<1>2. p = "serving" => NowServing(stored, now) = ticket[r].number
  BY DEF IsLocked
<1>. HIDE DEF p
<1>3. ASSUME p = "serving", InOrder, NEW t \in Unexpired(stored, now)
      PROVE  ticket[r].number =< t.number
  <2>1. IsDeque(stored) /\ now \in Nat
    BY DEF IInv, RedisTyped, RedisTypeOK
  <2>. QED  BY <1>2, <1>3, <2>1, NowServingLeast
<1>4. p \in PCs \ {"new"}
  BY <1>1 DEF PCs, InStretch
<1>. QED  BY <1>1, <1>3, <1>4, GetIInv

LEMMA ReadIInv ==
  ASSUME IInv, NEW r \in Requests,
         Arrive(r) \/ Wake(r) \/ Finish(r) \/ Check(r)
  PROVE  IInv'
<1>. USE DEF PCs, InStretch, Writing
<1>1. CASE Arrive(r)
  BY <1>1, GetIInv DEF Arrive, Holders
<1>2. CASE Wake(r)
  BY <1>2, GetIInv DEF Wake, Holders
<1>3. CASE Finish(r)
  BY <1>3, GetIInv DEF Finish, Holders
<1>4. CASE Check(r)
  BY <1>4, GetIInv DEF Check, Holders
<1>. QED  BY <1>1, <1>2, <1>3, <1>4

LEMMA CommandFailsIInv == ASSUME IInv, NEW r \in Requests, CommandFails(r) PROVE IInv'
<1>0. PICK p \in AfterError(pc[r]) :
        Goto(r, p) /\ overdue' = (overdue /\ ~LastLeaves(r, p))
  BY DEF CommandFails
<1>1. /\ pc' = [pc EXCEPT ![r] = p] /\ pc \in [Requests -> PCs]
      /\ copy' = [copy EXCEPT ![r] = {}] /\ copy \in [Requests -> SUBSET Ticket]
      /\ overdue' = (overdue /\ ~LastLeaves(r, p))
      /\ pc[r] \notin {"new", "left", "dead"}
      /\ UNCHANGED <<now, redis, worker, ticket, ahead, torn>>
  BY <1>0 DEF CommandFails, Goto, IInv, RedisTyped, RedisTypeOK
<1>2. p \in {"raise", "left"} /\ (p = "raise" => r \in Holders)
  BY <1>0 DEF AfterError, Holders, CommandFails
<1>3. failures' \in 0 .. MaxFailures /\ failures' # 0
  BY MaxFailuresAssumption DEF CommandFails, IInv, RedisTyped, RedisTypeOK
<1>4. RedisTypeOK'
  BY <1>1, <1>2, <1>3 DEF IInv, RedisTyped, RedisTypeOK, PCs, InStretch, redis
<1>5. \A s \in Requests : IsDeque(copy'[s])
  <2>1. IsDeque({})
    BY DEF IsDeque
  <2>. QED  BY <1>1, <2>1 DEF IInv, RedisTyped
<1>6. Holders' \subseteq Holders
  BY <1>1, <1>2 DEF Holders
<1>7. ~overdue' => ~overdue \/ Holders' = {}
  BY <1>1, LastHolder
<1>8. \A s \in Requests :
        /\ pc'[s] \in Writing => copy'[s] = stored \/ (pc[s] \in Writing /\ copy'[s] = copy[s])
        /\ pc'[s] = "delete" => copy'[s] = {}
        /\ pc'[s] \in {"new", "issue"} => pc[s] \in {"new", "issue"}
        /\ pc'[s] = "serving" => pc[s] = "serving"
  BY <1>1, <1>2 DEF IInv, DeletesEmpty, Writing
<1>. QED  BY <1>1, <1>3, <1>4, <1>5, <1>6, <1>7, <1>8, QuietIInv

LEMMA CrashIInv == ASSUME IInv, NEW w \in Workers, Crash(w) PROVE IInv'
<1>. DEFINE lost == {r \in Busy : worker[r] = w}
<1>1. /\ pc' = [r \in Requests |-> IF r \in lost THEN "dead" ELSE pc[r]]
      /\ copy' = [r \in Requests |-> IF r \in lost THEN {} ELSE copy[r]]
      /\ pc \in [Requests -> PCs] /\ copy \in [Requests -> SUBSET Ticket]
      /\ overdue' = (overdue /\ \E r \in Busy : worker[r] # w)
      /\ UNCHANGED <<now, redis, worker, ticket, ahead, torn>>
  BY DEF Crash, IInv, RedisTyped, RedisTypeOK
<1>2. failures' \in 0 .. MaxFailures /\ failures' # 0
  BY MaxFailuresAssumption DEF Crash, IInv, RedisTyped, RedisTypeOK
<1>3. ~overdue' => ~overdue \/ Holders' = {}
  BY <1>1 DEF Busy, Holders
<1>. HIDE DEF lost
<1>4. RedisTypeOK'
  BY <1>1, <1>2 DEF IInv, RedisTyped, RedisTypeOK, PCs, redis
<1>5. \A s \in Requests : IsDeque(copy'[s])
  <2>1. IsDeque({})
    BY DEF IsDeque
  <2>. QED  BY <1>1, <2>1 DEF IInv, RedisTyped
<1>6. Holders' \subseteq Holders
  BY <1>1 DEF Holders
<1>7. \A s \in Requests :
        /\ pc'[s] \in Writing => copy'[s] = stored \/ (pc[s] \in Writing /\ copy'[s] = copy[s])
        /\ pc'[s] = "delete" => copy'[s] = {}
        /\ pc'[s] \in {"new", "issue"} => pc[s] \in {"new", "issue"}
        /\ pc'[s] = "serving" => pc[s] = "serving"
  BY <1>1 DEF IInv, DeletesEmpty, Writing
<1>. QED  BY <1>1, <1>2, <1>3, <1>4, <1>5, <1>6, <1>7, QuietIInv

-----------------------------------------------------------------------------
(* Writes.                                                                 *)

\* What a write of a key leaves as it is; that it tore nothing means that it
\* wrote back what was stored, and that nobody else is about to write.
LEMMA WriteOfKey ==
  ASSUME IInv, NEW r \in Requests, NEW p \in PCs \ Writing, NEW value,
         pc[r] \in Writing, Write(r, p, TRUE, value), IsDeque(value),
         p \notin {"new", "issue"},
         ticket' \in [Requests -> Ticket], ahead' \in [Requests -> SUBSET Requests],
         failures' \in 0 .. MaxFailures
  PROVE  /\ RedisTyped' /\ KeyHoldsTickets' /\ ReadsLast' /\ DeletesEmpty'
         /\ stored' = value /\ now' = now /\ now \in Nat
         /\ pc' = [pc EXCEPT ![r] = p] /\ pc \in [Requests -> PCs]
         /\ ~torn' => ~torn /\ copy[r] = stored
         /\ ~overdue' => ~overdue \/ Holders' = {}
<1>. USE DEF Writing
<1>1. /\ stored' = value /\ exists' = TRUE /\ UNCHANGED <<now, worker>>
      /\ pc' = [pc EXCEPT ![r] = p] /\ pc \in [Requests -> PCs]
      /\ copy' = [copy EXCEPT ![r] = {}] /\ copy \in [Requests -> SUBSET Ticket]
      /\ torn' = (torn \/ \E s \in Requests \ {r} : pc[s] \in Writing)
      /\ overdue' = (overdue /\ ~LastLeaves(r, p))
      /\ now \in Nat /\ worker \in [Requests -> Workers]
  BY DEF Write, Goto, IInv, RedisTyped, RedisTypeOK
<1>2. ~torn' => ~torn /\ copy[r] = stored
  BY <1>1 DEF IInv, ReadsLast
<1>3. ~torn' => \A s \in Requests : pc'[s] \notin Writing
  BY <1>1
<1>4. RedisTyped'
  <2>1. overdue' \in BOOLEAN /\ torn' \in BOOLEAN
    BY <1>1 DEF IInv, RedisTyped, RedisTypeOK
  <2>2. IsDeque({}) /\ value \in SUBSET Ticket
    BY DEF IsDeque
  <2>3. RedisTypeOK'
    BY <1>1, <2>1, <2>2 DEF RedisTypeOK
  <2>. QED  BY <1>1, <2>2, <2>3 DEF IInv, RedisTyped
<1>5. KeyHoldsTickets' /\ ReadsLast' /\ DeletesEmpty'
  BY <1>1, <1>3 DEF KeyHoldsTickets, ReadsLast, DeletesEmpty, IInv
<1>6. ~overdue' => ~overdue \/ Holders' = {}
  BY <1>1, LastHolder
<1>. QED  BY <1>1, <1>2, <1>4, <1>5, <1>6

LEMMA IssueIInv ==
  ASSUME IInv, NEW r \in Requests, NEW p \in {"try", "left"}, Issue(r, p),
         failures' \in 0 .. MaxFailures, failures' = 0 => failures = 0 /\ p = "try"
  PROVE  IInv'
<1>. DEFINE q == copy[r]
            new == NewTicket(q, now, Lifetime)
            live == Unexpired(q, now)
            queue == IssueTicket(q, now, Lifetime)
<1>1. /\ now \in Nat /\ IsDeque(q) /\ pc[r] = "issue" /\ Write(r, p, TRUE, queue)
      /\ ticket' = [ticket EXCEPT ![r] = new] /\ ticket \in [Requests -> Ticket]
      /\ ahead' = [ahead EXCEPT ![r] = Holders] /\ ahead \in [Requests -> SUBSET Requests]
  BY DEF Issue, IInv, RedisTyped, RedisTypeOK
<1>2. /\ new \in Ticket /\ ~HasExpired(new, now) /\ IsDeque(queue)
      /\ \A t \in live : t.number < new.number
  BY <1>1, LifetimeAssumption, IssueTicketAppends
<1>3. queue = live \union {new} /\ live \subseteq q
  BY DEF IssueTicket, Unexpired
<1>4. \A t : t \in live <=> t \in q /\ ~HasExpired(t, now)
  BY DEF Unexpired
<1>. HIDE DEF q, new, live, queue
<1>5. p \in PCs \ Writing /\ r \notin Holders /\ Holders \subseteq Requests
  BY <1>1 DEF PCs, InStretch, Writing, Holders
<1>6. ticket' \in [Requests -> Ticket] /\ ahead' \in [Requests -> SUBSET Requests]
  BY <1>1, <1>2, <1>5
<1>7. /\ RedisTyped' /\ KeyHoldsTickets' /\ ReadsLast' /\ DeletesEmpty'
      /\ stored' = queue /\ now' = now
      /\ pc' = [pc EXCEPT ![r] = p] /\ pc \in [Requests -> PCs]
      /\ ~torn' => ~torn /\ q = stored
      /\ ~overdue' => ~overdue \/ Holders' = {}
  <2>1. p \notin {"new", "issue"} /\ pc[r] \in Writing
    BY <1>1 DEF Writing
  <2>. QED  BY <1>1, <1>2, <1>5, <1>6, <2>1, WriteOfKey DEF q
<1>8. /\ Holders' = Holders \union (IF p = "try" THEN {r} ELSE {})
      /\ Serving' = Serving
  BY <1>1, <1>7 DEF Holders, Serving
<1>9. /\ ticket'[r] = new /\ ahead'[r] = Holders
      /\ \A s \in Holders : s # r /\ ticket'[s] = ticket[s] /\ ahead'[s] = ahead[s]
                            /\ r \notin ahead[s] /\ ticket[s] \in Ticket
  BY <1>1, <1>5 DEF IInv, AheadIssued
<1>10. AheadIssued'
  <2>1. \A s \in Holders : pc[s] \notin {"new", "issue"}
    BY DEF Holders
  <2>2. \A s \in Requests : pc'[s] \in {"new", "issue"} => pc[s] \in {"new", "issue"}
    BY <1>1, <1>7
  <2>. QED  BY <1>1, <1>5, <2>1, <2>2 DEF IInv, AheadIssued
<1>11. OrphansHaveCause'
  <2>. SUFFICES ASSUME failures' = 0, ~torn', NEW t \in queue, ~HasExpired(t, now)
                PROVE  \E s \in Holders' : ticket'[s] = t
    BY <1>7 DEF OrphansHaveCause
  <2>1. CASE t = new
    BY <2>1, <1>8, <1>9
  <2>2. CASE t \in live
    <3>1. PICK s \in Holders : ticket[s] = t
      BY <2>2, <1>3, <1>7 DEF IInv, OrphansHaveCause
    <3>. QED  BY <3>1, <1>8, <1>9
  <2>. QED  BY <2>1, <2>2, <1>3
<1>12. ASSUME ~torn', ~overdue', Holders' # {}
       PROVE  InOrder'
  <2>1. InOrder /\ q = stored
    BY <1>7, <1>12 DEF IInv
  <2>2. \A s \in Holders : /\ ticket[s] \in live
                           /\ ~HasExpired(ticket[s], now)
                           /\ ticket[s].number < new.number
    BY <2>1, <1>2, <1>4 DEF InOrder, Queued
  <2>3. Queued'
    BY <2>2, <1>2, <1>3, <1>7, <1>8, <1>9 DEF Queued
  <2>4. Numbered'
    <3>1. \A s, t \in Holders :
            /\ t \in ahead'[s] => ticket'[t].number < ticket'[s].number
            /\ s # t => t \in ahead'[s] \/ s \in ahead'[t]
      BY <2>1, <1>9 DEF InOrder, Numbered
    <3>2. \A s \in Holders : /\ s \in ahead'[r] /\ ticket'[s].number < ticket'[r].number
                             /\ r \notin ahead'[s]
      BY <2>2, <1>9
    <3>3. r \notin ahead'[r]
      BY <1>5, <1>9
    <3>. QED  BY <3>1, <3>2, <3>3, <1>8 DEF Numbered
  <2>5. HeadServed'
    <3>. SUFFICES ASSUME NEW s \in Serving, NEW t \in queue, ~HasExpired(t, now)
                  PROVE  ticket'[s].number =< t.number
      BY <1>7, <1>8 DEF HeadServed, Unexpired
    <3>1. s \in Holders
      BY DEF Serving, Holders
    <3>2. CASE t = new
      <4>1. ticket[s].number \in Nat /\ new.number \in Nat
        BY <3>1, <1>2, <1>9 DEF Ticket
      <4>. QED  BY <3>1, <3>2, <4>1, <2>2, <1>9
    <3>3. CASE t \in live
      <4>1. t \in Unexpired(stored, now)
        BY <3>3, <2>1, <1>4 DEF Unexpired
      <4>. QED  BY <3>1, <4>1, <2>1, <1>9 DEF InOrder, HeadServed
    <3>. QED  BY <3>2, <3>3, <1>3
  <2>. QED  BY <2>3, <2>4, <2>5 DEF InOrder
<1>13. Holders' = {} => InOrder'
  BY NoHolders DEF InOrder, Queued, Numbered, HeadServed, Serving, Holders
<1>. QED  BY <1>7, <1>10, <1>11, <1>12, <1>13 DEF IInv

\* update_lock and finish_serving write back a part of what they read.
LEMMA PruneIInv ==
  ASSUME IInv, NEW r \in Requests, NEW p \in {"try", "raise"}, Prune(r, p),
         failures' \in 0 .. MaxFailures, failures' = 0 => failures = 0
  PROVE  IInv'
<1>. DEFINE q == copy[r]
            live == Unexpired(q, now)
<1>1. /\ IsDeque(q) /\ pc[r] = "prune" /\ Write(r, p, TRUE, live)
      /\ UNCHANGED <<ticket, ahead>>
      /\ ticket \in [Requests -> Ticket] /\ ahead \in [Requests -> SUBSET Requests]
  BY DEF Prune, IInv, RedisTyped, RedisTypeOK
<1>2. \A t : t \in live <=> t \in q /\ ~HasExpired(t, now)
  BY DEF Unexpired
<1>3. IsDeque(live)
  BY <1>1, <1>2, SubDeque
<1>. HIDE DEF q, live
<1>4. /\ RedisTyped' /\ KeyHoldsTickets' /\ ReadsLast' /\ DeletesEmpty'
      /\ stored' = live /\ now' = now
      /\ pc' = [pc EXCEPT ![r] = p] /\ pc \in [Requests -> PCs]
      /\ ~torn' => ~torn /\ q = stored
      /\ ~overdue' => ~overdue \/ Holders' = {}
  <2>1. p \in PCs \ Writing /\ p \notin {"new", "issue"} /\ pc[r] \in Writing
    BY <1>1 DEF PCs, InStretch, Writing
  <2>. QED  BY <1>1, <1>3, <2>1, WriteOfKey DEF q
<1>5. Holders' = Holders /\ Serving' = Serving /\ r \in Holders
  BY <1>1, <1>4 DEF Holders, Serving
<1>6. AheadIssued'
  BY <1>1, <1>4 DEF IInv, AheadIssued
<1>7. OrphansHaveCause'
  BY <1>1, <1>2, <1>4, <1>5 DEF IInv, OrphansHaveCause
<1>8. ASSUME ~torn', ~overdue' PROVE InOrder'
  <2>1. InOrder /\ q = stored
    BY <1>4, <1>5, <1>8 DEF IInv
  <2>2. Queued' /\ Numbered'
    BY <2>1, <1>1, <1>2, <1>4, <1>5 DEF InOrder, Queued, Numbered
  <2>3. HeadServed'
    BY <2>1, <1>1, <1>2, <1>4, <1>5 DEF InOrder, HeadServed, Unexpired
  <2>. QED  BY <2>2, <2>3 DEF InOrder
<1>. QED  BY <1>4, <1>6, <1>7, <1>8 DEF IInv

LEMMA FinishServingIInv ==
  ASSUME IInv, NEW r \in Requests, NEW p \in {"check", "left"}, FinishServing(r, p),
         failures' \in 0 .. MaxFailures, failures' = 0 => failures = 0
  PROVE  IInv'
<1>. DEFINE q == copy[r]
            rest == RemoveTicketFor(q, ticket[r].number, now)
<1>1. /\ IsDeque(q) /\ pc[r] = "remove" /\ Write(r, p, TRUE, rest)
      /\ UNCHANGED <<ticket, ahead>>
      /\ ticket \in [Requests -> Ticket] /\ ahead \in [Requests -> SUBSET Requests]
  BY DEF FinishServing, IInv, RedisTyped, RedisTypeOK
<1>2. \A t : t \in rest <=> t \in q /\ ~HasExpired(t, now) /\ t.number # ticket[r].number
  BY DEF RemoveTicketFor, Unexpired
<1>3. IsDeque(rest)
  BY <1>1, <1>2, SubDeque
<1>. HIDE DEF q, rest
<1>4. /\ RedisTyped' /\ KeyHoldsTickets' /\ ReadsLast' /\ DeletesEmpty'
      /\ stored' = rest /\ now' = now
      /\ pc' = [pc EXCEPT ![r] = p] /\ pc \in [Requests -> PCs]
      /\ ~torn' => ~torn /\ q = stored
      /\ ~overdue' => ~overdue \/ Holders' = {}
  <2>1. p \in PCs \ Writing /\ p \notin {"new", "issue"} /\ pc[r] \in Writing
    BY <1>1 DEF PCs, InStretch, Writing
  <2>. QED  BY <1>1, <1>3, <2>1, WriteOfKey DEF q
<1>5. Holders' = Holders \ {r} /\ Serving' = Serving /\ r \in Holders /\ Serving \subseteq Holders'
  BY <1>1, <1>4 DEF Holders, Serving
<1>6. AheadIssued'
  BY <1>1, <1>4 DEF IInv, AheadIssued
<1>7. OrphansHaveCause'
  BY <1>1, <1>2, <1>4, <1>5 DEF IInv, OrphansHaveCause
<1>8. ASSUME ~torn', ~overdue', Holders' # {} PROVE InOrder'
  <2>1. InOrder /\ q = stored
    BY <1>4, <1>8 DEF IInv
  <2>2. \A s \in Holders' : ticket[s].number # ticket[r].number
    <3>. SUFFICES ASSUME NEW s \in Holders' PROVE ticket[s].number # ticket[r].number
      OBVIOUS
    <3>1. \/ ticket[s].number < ticket[r].number
          \/ ticket[r].number < ticket[s].number
      BY <2>1, <1>5 DEF InOrder, Numbered
    <3>2. ticket[s].number \in Nat /\ ticket[r].number \in Nat
      BY <1>1, <1>5 DEF Holders, Ticket
    <3>. QED  BY <3>1, <3>2
  <2>3. Queued'
    BY <2>1, <2>2, <1>1, <1>2, <1>4, <1>5 DEF InOrder, Queued
  <2>4. Numbered'
    BY <2>1, <1>1, <1>5 DEF InOrder, Numbered
  <2>5. HeadServed'
    BY <2>1, <1>1, <1>2, <1>4, <1>5 DEF InOrder, HeadServed, Unexpired
  <2>. QED  BY <2>3, <2>4, <2>5 DEF InOrder
<1>9. Holders' = {} => InOrder'
  BY DEF InOrder, Queued, Numbered, HeadServed, Serving, Holders
<1>. QED  BY <1>4, <1>6, <1>7, <1>8, <1>9 DEF IInv

\* delete_lock leaves nothing behind, and found nothing there.
LEMMA DeleteIInv ==
  ASSUME IInv, NEW r \in Requests, Delete(r),
         failures' \in 0 .. MaxFailures, failures' = 0 => failures = 0
  PROVE  IInv'
<1>1. /\ pc[r] = "delete" /\ pc \in [Requests -> PCs] /\ now \in Nat
      /\ pc' = [pc EXCEPT ![r] = "left"] /\ exists' = FALSE /\ stored' = {}
      /\ copy' = [copy EXCEPT ![r] = {}] /\ copy \in [Requests -> SUBSET Ticket]
      /\ torn' = (/\ ~(LastLeaves(r, "left") /\ TRUE)
                  /\ torn \/ \E s \in Requests \ {r} : pc[s] \in Writing)
      /\ overdue' = (overdue /\ ~LastLeaves(r, "left"))
      /\ UNCHANGED <<now, worker, ticket, ahead>>
  BY DEF Delete, Write, Goto, IInv, RedisTyped, RedisTypeOK
<1>2. RedisTyped'
  <2>1. overdue' \in BOOLEAN /\ torn' \in BOOLEAN /\ IsDeque({})
    BY <1>1 DEF IsDeque, IInv, RedisTyped, RedisTypeOK
  <2>2. RedisTypeOK'
    BY <1>1, <2>1 DEF IInv, RedisTyped, RedisTypeOK, PCs
  <2>. QED  BY <1>1, <2>1, <2>2 DEF IInv, RedisTyped
<1>3. LastLeaves(r, "left") => Holders' = {} /\ \A s \in Requests : pc'[s] \notin Writing
  BY <1>1, LastHolder DEF Writing
<1>4. ReadsLast'
  <2>. SUFFICES ASSUME ~torn' PROVE \A s \in Requests : pc'[s] \notin Writing
    BY DEF ReadsLast
  <2>. QED  BY <1>1, <1>3 DEF Writing
<1>5. KeyHoldsTickets' /\ DeletesEmpty' /\ AheadIssued' /\ OrphansHaveCause'
  BY <1>1 DEF IInv, KeyHoldsTickets, DeletesEmpty, AheadIssued, OrphansHaveCause
<1>6. ASSUME ~torn', ~overdue' PROVE Holders' = {}
  <2>1. CASE ~LastLeaves(r, "left")
    <3>1. InOrder /\ stored = {}
      BY <1>1, <1>6, <2>1 DEF IInv, ReadsLast, DeletesEmpty, Writing
    <3>. QED  BY <3>1, <1>1 DEF InOrder, Queued, Holders
  <2>. QED  BY <2>1, <1>3
<1>7. Holders' = {} => InOrder'
  BY DEF InOrder, Queued, Numbered, HeadServed, Serving, Holders
<1>. QED  BY <1>2, <1>4, <1>5, <1>6, <1>7 DEF IInv

-----------------------------------------------------------------------------
(* The theorems.                                                           *)

LEMMA NextIInv == IInv /\ [RedisNext]_redisVars => IInv'
<1>. SUFFICES ASSUME IInv, [RedisNext]_redisVars PROVE IInv'
  OBVIOUS
<1>. failures \in 0 .. MaxFailures /\ MaxFailures \in Nat
  BY MaxFailuresAssumption DEF IInv, RedisTyped, RedisTypeOK
<1>1. CASE Tick
  BY <1>1, TickIInv
<1>2. ASSUME NEW w \in Workers, Crash(w) PROVE IInv'
  BY <1>2, CrashIInv
<1>3. ASSUME NEW r \in Requests, Arrive(r) \/ Try(r) \/ Wake(r) \/ Finish(r) \/ Check(r)
      PROVE  IInv'
  BY <1>3, TryIInv, ReadIInv
<1>4. ASSUME NEW r \in Requests, Writes(r) PROVE IInv'
  BY <1>4, IssueIInv, PruneIInv, FinishServingIInv, DeleteIInv DEF Writes
<1>5. ASSUME NEW r \in Requests, CommandFails(r) PROVE IInv'
  BY <1>5, CommandFailsIInv
<1>6. ASSUME NEW r \in Requests, ReplyLost(r) PROVE IInv'
  <2>1. failures' \in 0 .. MaxFailures /\ failures' # 0
    BY <1>6 DEF ReplyLost
  <2>. QED  BY <1>6, <2>1, IssueIInv, PruneIInv, FinishServingIInv, DeleteIInv DEF ReplyLost
<1>7. CASE UNCHANGED redisVars
  BY <1>7 DEF redisVars, redis, history, IInv, RedisTyped, RedisTypeOK, KeyHoldsTickets, ReadsLast, DeletesEmpty,
              AheadIssued, OrphansHaveCause, InOrder, Queued, Numbered, HeadServed, Holders, Serving
<1>. QED  BY <1>1, <1>2, <1>3, <1>4, <1>5, <1>6, <1>7 DEF RedisNext

LEMMA Invariance == RedisSpec => []IInv
BY InitIInv, NextIInv, PTL DEF RedisSpec

\* The type invariant, for any number of requests, workers and failures.
THEOREM RedisTypeCorrect == RedisSpec => []RedisTypeOK
<1>1. IInv => RedisTypeOK
  BY DEF IInv, RedisTyped
<1>. QED  BY <1>1, Invariance, PTL

\* Locks in Redis exclude and keep the order of the tickets, across workers,
\* as long as no read-modify-write was torn and no ticket was outlived: a
\* command that fails, a reply that is lost or a worker that dies does not
\* let two requests in.
THEOREM ExclusiveUnlessTornAlways == RedisSpec => []ExclusiveUnlessTorn
<1>1. IInv => ExclusiveUnlessTorn
  <2>. SUFFICES ASSUME IInv, ~torn, ~overdue, NEW r \in Serving
                PROVE  Serving = {r} /\ ahead[r] \cap Holders = {}
    BY DEF ExclusiveUnlessTorn
  <2>1. InOrder /\ Serving \subseteq Holders /\ Holders \subseteq Requests
        /\ ticket \in [Requests -> Ticket]
    BY DEF IInv, RedisTyped, RedisTypeOK, Serving, Holders
  <2>2. \A s \in Holders : ticket[s] \in Unexpired(stored, now) /\ ticket[s].number \in Nat
    BY <2>1 DEF InOrder, Queued, Unexpired, Ticket
  <2>3. \A s \in Serving, t \in Holders : ticket[s].number =< ticket[t].number
    BY <2>1, <2>2 DEF InOrder, HeadServed
  <2>4. \A s \in Serving, t \in Holders : t \notin ahead[s]
    BY <2>1, <2>2, <2>3 DEF InOrder, Numbered
  <2>5. \A s \in Serving : s = r
    BY <2>1, <2>4 DEF InOrder, Numbered
  <2>. QED  BY <2>4, <2>5
<1>. QED  BY <1>1, Invariance, PTL

\* Without a failure and a torn write no ticket stays behind that blocks the
\* conversation, also if tickets are outlived.
THEOREM OrphansHaveCauseAlways == RedisSpec => []OrphansHaveCause
<1>1. IInv => OrphansHaveCause
  BY DEF IInv
<1>. QED  BY <1>1, Invariance, PTL

-----------------------------------------------------------------------------
(* Reminders: the inductive invariant.                                     *)

Typed ==
  /\ TypeOK
  /\ Len(agents) \in 1 .. MaxAgents
  /\ \A n \in TaskNumbers : tasks[n].agent \in 1 .. Len(agents)

\* Nobody else works on the conversation of a task under the same lock store.
Exclusion ==
  \A m, n \in Working :
    tasks[m].conversation = tasks[n].conversation /\ LockStoreOf(m) = LockStoreOf(n) => m = n

\* Until an agent whose locks are in memory is replaced, no two turns work on
\* a conversation at once.
WorkAlone ==
  OneLockStore =>
    \A m, n \in Working : tasks[m].conversation = tasks[n].conversation => m = n

OneStore ==
  OneLockStore => /\ \A a \in 1 .. Len(agents) : agents[a] = 1
                  /\ \A n \in TaskNumbers : tasks[n].locks = 1

\* A reminder that is logged after a message has a task that came after it.
LoggedLater(those, es, c) ==
  \A p \in 1 .. Len(es) : es[p].type = "user" =>
    /\ es[p].time =< Len(those)
    /\ \A q \in p .. Len(es) : es[q].type = "reminder" =>
         \E k \in 1 .. Len(those) : /\ k > es[p].time /\ those[k].type = "reminder"
                                  /\ those[k].name = es[q].name
                                  /\ those[k].conversation = c

Logged ==
  /\ \A s \in 1 .. MaxAgents, c \in Conversations : LoggedLater(tasks, trackers[s][c], c)
  /\ \A n \in TaskNumbers : LoggedLater(tasks, tasks[n].events, tasks[n].conversation)

Said(m, es) == \E p \in 1 .. Len(es) : es[p].type = "user" /\ es[p].time = m

RestartedSince(m, es) ==
  \E p, r \in 1 .. Len(es) : /\ es[p].type = "user" /\ es[p].time = m
                             /\ p < r /\ es[r].type = "restart"

MessageKept(m) ==
  /\ m \in Working => Said(m, tasks[m].events)
  /\ OneLockStore /\ tasks[m].phase \in {"done", "restarted"} => Said(m, Events(m))
  /\ OneLockStore /\ tasks[m].phase = "restarted" => RestartedSince(m, Events(m))

MessagesKept == \A m \in Of("message") : MessageKept(m)

Begins(s, t) == Len(s) =< Len(t) /\ \A i \in 1 .. Len(s) : t[i] = s[i]

\* What a turn is to save continues what is stored.
Current ==
  \A n \in Working : ~OwnLocks(tasks[n].conversation) => Begins(Events(n), tasks[n].events)

\* handle_reminder would not find the reminder outdated.
Valid(es, name) == ~HasMessageAfter(es, name) /\ StillValid(es, name)

\* Neither outdated nor cancelled, but from a conversation whose id its own
\* begins with.
Spared(n) ==
  tasks[n].phase # "outdated" /\ (tasks[n].phase = "cancelled" => Overreached(n))

Undropped(n) ==
  /\ Spared(n)
  /\ tasks[n].phase \in {"scheduled", "waiting"} =>
       \/ \E t \in Working : /\ tasks[t].phase = "acted"
                             /\ tasks[t].conversation = tasks[n].conversation
                             /\ TrackerStoreOf(t) = TrackerStoreOf(n)
                             /\ Valid(tasks[t].events, tasks[n].name)
       \/ /\ Valid(Events(n), tasks[n].name)
          /\ \A t \in Working : tasks[t].conversation # tasks[n].conversation

NoneDropped == OneLockStore => \A n \in Of("reminder") \ disturbed : Undropped(n)

\* Jobs that others took the place of.
TakenByNamesakes ==
  \A n \in Of("reminder") :
    /\ tasks[n].phase = "replaced" => NamesakeAfter(n)
    /\ tasks[n].phase = "skipped" => NamesakeStarted(n)

-----------------------------------------------------------------------------
(* The events of a conversation.                                            *)

LEMMA MessageEvents ==
  ASSUME NEW n \in Nat
  PROVE  \A e \in {UserUttered(GREET, n), External(n)} :
           e \in EventSet /\ e.type = "user" /\ e.time = n
BY IntentsAssumption DEF UserUttered, External, Event, EventSet

LEMMA SessionEvents ==
  \A e \in {SessionStarted, ActionExecuted(LISTEN)} :
    e \in EventSet /\ e.type \notin {"user", "reminder", "restart"}
BY NamesAssumption DEF SessionStarted, ActionExecuted, Event, EventSet

LEMMA ResultEvents ==
  ASSUME NEW result \in Results
  PROVE  /\ result \in Seq(EventSet)
         /\ \A i \in 1 .. Len(result) :
              result[i].type \in {"reminder", "cancel_reminder", "restart", "rewind"}
<1>. DEFINE R == [type : {"reminder", "cancel_reminder", "restart", "rewind"},
                  name : STRING, time : {0}]
<1>1. result \in Seq(R)
  BY ResultsAssumption
<1>2. \A e \in R : e \in EventSet /\ e.type \in {"reminder", "cancel_reminder", "restart", "rewind"}
  BY DEF EventSet
<1>. HIDE DEF R
<1>3. \A i \in 1 .. Len(result) : result[i] \in R
  BY <1>1
<1>4. result \in [1 .. Len(result) -> EventSet] /\ Len(result) \in Nat
  BY <1>1, <1>2
<1>5. result \in Seq(EventSet)
  BY <1>4, SeqDef
<1>. QED  BY <1>2, <1>3, <1>5

\* There are no forms here.
LEMMA NoLoops ==
  ASSUME NEW es \in Seq(EventSet)
  PROVE  LoopNames(es) = {}
<1>1. \A e \in ToSet(es) : e \in EventSet
  BY DEF ToSet
<1>2. \A e \in ToSet(es) : e.type # "active_loop"
  BY <1>1 DEF EventSet
<1>. QED  BY <1>2 DEF LoopNames

\* The events after the last restart or session start.
Recent(es) ==
  {es[i] : i \in {j \in 1 .. Len(es) : \A k \in j .. Len(es) : es[k].type \notin Resetting}}

LEMMA AppliedRecent ==
  ASSUME NEW E, NEW es \in Seq(E), NEW loops
  PROVE  AppliedIn(loops, es) \in Seq(Recent(es))
<1>. DEFINE P == {s \in Seq(E) : AppliedIn(loops, s) \in Seq(Recent(s))}
<1>1. <<>> \in P
  <2>1. <<>> \in Seq(Recent(<<>>)) /\ <<>> \in Seq(E)
    OBVIOUS
  <2>2. AppliedIn(loops, <<>>) \in Seq(Recent(<<>>))
    BY <2>1, AppliedEmpty
  <2>. QED  BY <2>1, <2>2
<1>2. ASSUME NEW s \in Seq(E), NEW e \in E, s \in P PROVE Append(s, e) \in P
  <2>. DEFINE all == Append(s, e)
             done == AppliedIn(loops, s)
             old == Recent(s)
             new == Recent(all)
  <2>1. AppliedIn(loops, all) = AfterEvent(loops, done, e) /\ done \in Seq(old)
    BY <1>2, AppliedAppend
  <2>2. /\ all \in Seq(E) /\ Len(all) = Len(s) + 1 /\ Len(s) \in Nat /\ all[Len(s) + 1] = e
        /\ \A i \in 1 .. Len(s) : all[i] = s[i]
    BY Appended
  <2>. HIDE DEF all, done
  <2>3. CASE e.type \in Resetting
    <3>1. AfterEvent(loops, done, e) = <<>>
      BY <2>3 DEF AfterEvent, Resetting
    <3>2. <<>> \in Seq(new)
      OBVIOUS
    <3>. QED  BY <2>1, <2>2, <3>1, <3>2 DEF all
  <2>4. CASE e.type \notin Resetting
    <3>1. e \in new
      <4>1. Len(s) + 1 \in 1 .. Len(all) /\ \A k \in Len(s) + 1 .. Len(all) : k = Len(s) + 1
        BY <2>2
      <4>. QED  BY <2>2, <2>4, <4>1 DEF Recent
    <3>2. old \subseteq new
      <4>. SUFFICES ASSUME NEW i \in 1 .. Len(s), \A k \in i .. Len(s) : s[k].type \notin Resetting
                    PROVE  s[i] \in new
        BY DEF Recent
      <4>1. i \in 1 .. Len(all) /\ all[i] = s[i]
        BY <2>2
      <4>2. ASSUME NEW k \in i .. Len(all) PROVE all[k].type \notin Resetting
        <5>1. CASE k \in i .. Len(s)
          <6>1. k \in 1 .. Len(s)
            BY <2>2, <5>1
          <6>. QED  BY <2>2, <4>2, <5>1, <6>1
        <5>2. CASE k = Len(s) + 1
          BY <2>2, <2>4, <5>2
        <5>. QED  BY <2>2, <5>1, <5>2
      <4>. QED  BY <4>1, <4>2 DEF Recent
    <3>. HIDE DEF old, new
    <3>3. done \in Seq(new)
      BY <2>1, <3>2
    <3>4. AfterEvent(loops, done, e) \in Seq(new)
      BY <3>1, <3>3, AfterEventType
    <3>. QED  BY <2>1, <2>2, <3>4 DEF all, new
  <2>. QED  BY <2>3, <2>4
<1>3. es \in P
  <2>. HIDE DEF P
  <2>. QED  BY <1>1, <1>2, InductionOverSequences
<1>. QED  BY <1>3

\* Reminders and their cancellations are added to the applied events.
LEMMA AppliedReminders ==
  ASSUME NEW es \in Seq(EventSet), NEW result \in Seq(EventSet),
         \A i \in 1 .. Len(result) : result[i].type \in {"reminder", "cancel_reminder"}
  PROVE  AppliedEvents(es \o result) = AppliedEvents(es) \o result
<1>. DEFINE P == {s \in Seq(EventSet) :
                    (\A i \in 1 .. Len(s) : s[i].type \in {"reminder", "cancel_reminder"})
                      => AppliedEvents(es \o s) = AppliedEvents(es) \o s}
<1>1. <<>> \in P
  <2>1. AppliedEvents(es) \in Seq(Kept(EventSet))
    BY AppliedType DEF AppliedEvents
  <2>. DEFINE applied == AppliedEvents(es)
  <2>. HIDE DEF applied
  <2>2. es \o <<>> = es /\ applied \o <<>> = applied /\ <<>> \in Seq(EventSet)
    BY <2>1 DEF applied
  <2>3. AppliedEvents(es \o <<>>) = AppliedEvents(es) \o <<>>
    BY <2>2 DEF applied
  <2>. QED  BY <2>2, <2>3
<1>2. ASSUME NEW s \in Seq(EventSet), NEW e \in EventSet, s \in P PROVE Append(s, e) \in P
  <2>. DEFINE all == Append(s, e)
             applied == AppliedEvents(es)
  <2>. SUFFICES ASSUME \A i \in 1 .. Len(all) : all[i].type \in {"reminder", "cancel_reminder"}
                PROVE  AppliedEvents(es \o all) = applied \o all
    BY Appended
  <2>1. e.type \in {"reminder", "cancel_reminder"} /\ \A i \in 1 .. Len(s) : s[i].type \in {"reminder", "cancel_reminder"}
    <3>1. /\ Len(all) = Len(s) + 1 /\ Len(s) \in Nat /\ all[Len(s) + 1] = e
          /\ \A i \in 1 .. Len(s) : all[i] = s[i]
      BY Appended
    <3>. QED  BY <3>1
  <2>2. AppliedEvents(es \o s) = applied \o s
    BY <1>2, <2>1
  <2>3. es \o all = Append(es \o s, e) /\ es \o s \in Seq(EventSet) /\ es \o all \in Seq(EventSet)
    BY ConcatAppend, ConcatProperties
  <2>4. LoopNames(es \o s) = {} /\ LoopNames(es \o all) = {}
    BY <2>3, NoLoops
  <2>5. AppliedEvents(es \o all) = AfterEvent({}, AppliedEvents(es \o s), e)
    BY <2>3, <2>4, AppliedAppend DEF AppliedEvents
  <2>6. AppliedEvents(es \o all) = Append(applied \o s, e)
    BY <2>1, <2>2, <2>5 DEF AfterEvent
  <2>7. applied \in Seq(EventSet)
    <3>1. applied \in Seq(Kept(EventSet)) /\ Kept(EventSet) \subseteq EventSet
      BY AppliedType DEF AppliedEvents, Kept
    <3>. HIDE DEF applied
    <3>. QED  BY <3>1
  <2>. HIDE DEF applied
  <2>8. applied \o all = Append(applied \o s, e)
    BY <2>7, ConcatAppend
  <2>. QED  BY <2>6, <2>8
<1>3. result \in P
  <2>. HIDE DEF P
  <2>. QED  BY <1>1, <1>2, InductionOverSequences
<1>. QED  BY <1>3

\* Where _has_message_after_reminder stops looking back.
LEMMA LooksBack ==
  ASSUME NEW E, NEW es \in Seq(E), NEW name
  PROVE  \E last \in 0 .. Len(es) :
           /\ HasMessageAfter(es, name) <=> last = 0 \/ es[last].type = "user"
           /\ last > 0 => \/ es[last].type = "user"
                          \/ es[last].type = "reminder" /\ es[last].name = name
           /\ \A i \in last + 1 .. Len(es) :
                ~(es[i].type = "user" \/ (es[i].type = "reminder" /\ es[i].name = name))
<1>. DEFINE Stops(e) == e.type = "user" \/ (e.type = "reminder" /\ e.name = name)
            I == {i \in 1 .. Len(es) : Stops(es[i])}
            last == IF I # {} THEN Max(I) ELSE 0
<1>1. HasMessageAfter(es, name) <=> last = 0 \/ es[last].type = "user"
  BY DEF HasMessageAfter, SelectLastInSeq
<1>2. I \in SUBSET (1 .. Len(es)) /\ Len(es) \in Nat
  OBVIOUS
<1>3. last \in 0 .. Len(es) /\ (last > 0 => last \in I) /\ \A i \in I : i =< last
  <2>. HIDE DEF I
  <2>. QED  BY <1>2, LastIndex
<1>. HIDE DEF last
<1>4. ASSUME NEW i \in last + 1 .. Len(es) PROVE ~Stops(es[i])
  <2>1. i \in 1 .. Len(es) /\ i \notin I
    <3>. HIDE DEF I
    <3>. QED  BY <1>2, <1>3
  <2>. QED  BY <2>1
<1>. QED  BY <1>1, <1>3, <1>4

\* A reminder is outdated by a message it is not logged after ...
LEMMA MessageOutdates ==
  ASSUME NEW E, NEW es \in Seq(E), NEW name, NEW p \in 1 .. Len(es), es[p].type = "user",
         \A q \in p .. Len(es) : ~(es[q].type = "reminder" /\ es[q].name = name)
  PROVE  HasMessageAfter(es, name)
<1>1. PICK last \in 0 .. Len(es) :
        /\ HasMessageAfter(es, name) <=> last = 0 \/ es[last].type = "user"
        /\ last > 0 => \/ es[last].type = "user"
                       \/ es[last].type = "reminder" /\ es[last].name = name
        /\ \A i \in last + 1 .. Len(es) :
             ~(es[i].type = "user" \/ (es[i].type = "reminder" /\ es[i].name = name))
  BY LooksBack
<1>2. Len(es) \in Nat
  OBVIOUS
<1>3. ~(last < p)
  BY <1>1, <1>2
<1>4. last \in p .. Len(es)
  BY <1>2, <1>3
<1>. QED  BY <1>1, <1>4

\* ... and by a restart it is not logged after.
LEMMA RestartOutdates ==
  ASSUME NEW E, NEW es \in Seq(E), NEW name, NEW r \in 1 .. Len(es), es[r].type = "restart",
         \A q \in r .. Len(es) : ~(es[q].type = "reminder" /\ es[q].name = name)
  PROVE  ~StillValid(es, name)
<1>. SUFFICES ASSUME NEW e \in ToSet(AppliedEvents(es)), e.type = "reminder", e.name = name
              PROVE  FALSE
  BY DEF StillValid
<1>1. AppliedEvents(es) \in Seq(Recent(es))
  BY AppliedRecent DEF AppliedEvents
<1>2. e \in Recent(es)
  <2>. DEFINE applied == AppliedEvents(es)
  <2>. HIDE DEF applied
  <2>. QED  BY <1>1 DEF ToSet, applied
<1>3. PICK i \in 1 .. Len(es) : e = es[i] /\ \A k \in i .. Len(es) : es[k].type \notin Resetting
  BY <1>2 DEF Recent
<1>4. Len(es) \in Nat
  OBVIOUS
<1>5. ~(i =< r)
  <2>. SUFFICES ASSUME i =< r PROVE FALSE
    OBVIOUS
  <2>1. r \in i .. Len(es)
    BY <1>4
  <2>. QED  BY <1>3, <2>1 DEF Resetting
<1>6. i \in r .. Len(es)
  BY <1>4, <1>5
<1>. QED  BY <1>3, <1>6

\* No message outdates a reminder that is logged after all messages.
LEMMA ReminderLast ==
  ASSUME NEW E, NEW es \in Seq(E), NEW name, NEW p \in 1 .. Len(es),
         es[p].type = "reminder", es[p].name = name,
         \A q \in p .. Len(es) : es[q].type # "user"
  PROVE  ~HasMessageAfter(es, name)
<1>1. PICK last \in 0 .. Len(es) :
        /\ HasMessageAfter(es, name) <=> last = 0 \/ es[last].type = "user"
        /\ last > 0 => \/ es[last].type = "user"
                       \/ es[last].type = "reminder" /\ es[last].name = name
        /\ \A i \in last + 1 .. Len(es) :
             ~(es[i].type = "user" \/ (es[i].type = "reminder" /\ es[i].name = name))
  BY LooksBack
<1>2. Len(es) \in Nat
  OBVIOUS
<1>3. ~(last < p)
  BY <1>1, <1>2
<1>4. last \in p .. Len(es)
  BY <1>2, <1>3
<1>. QED  BY <1>1, <1>4

\* Right after it is logged a reminder is valid.
LEMMA LoggedValid ==
  ASSUME NEW es \in Seq(EventSet), NEW result \in Seq(EventSet),
         \A i \in 1 .. Len(result) : result[i].type \in {"reminder", "cancel_reminder"},
         NEW i \in 1 .. Len(result), result[i].type = "reminder"
  PROVE  Valid(es \o result, result[i].name)
<1>. DEFINE all == es \o result
            name == result[i].name
            n == Len(es)
<1>1. /\ all \in Seq(EventSet) /\ Len(all) = n + Len(result) /\ n \in Nat /\ Len(result) \in Nat
      /\ \A j \in 1 .. Len(result) : all[n + j] = result[j]
  BY ConcatProperties
<1>2. StillValid(all, name)
  <2>1. AppliedEvents(all) = AppliedEvents(es) \o result
    BY AppliedReminders
  <2>2. AppliedEvents(es) \in Seq(EventSet)
    <3>1. AppliedEvents(es) \in Seq(Kept(EventSet)) /\ Kept(EventSet) \subseteq EventSet
      BY AppliedType DEF AppliedEvents, Kept
    <3>. DEFINE applied == AppliedEvents(es)
    <3>. HIDE DEF applied
    <3>2. applied \in Seq(EventSet)
      BY <3>1 DEF applied
    <3>. QED  BY <3>2 DEF applied
  <2>3. result[i] \in ToSet(AppliedEvents(es) \o result)
    <3>. DEFINE applied == AppliedEvents(es)
               both == applied \o result
    <3>1. /\ both \in Seq(EventSet) /\ Len(applied) + i \in 1 .. Len(both)
          /\ both[Len(applied) + i] = result[i]
      <4>. HIDE DEF applied
      <4>. QED  BY <2>2, ConcatProperties DEF applied
    <3>. HIDE DEF both
    <3>2. result[i] \in ToSet(both)
      BY <3>1 DEF ToSet
    <3>. QED  BY <3>2 DEF both
  <2>. QED  BY <2>1, <2>3 DEF StillValid
<1>3. ~HasMessageAfter(all, name)
  <2>1. n + i \in 1 .. Len(all) /\ all[n + i].type = "reminder" /\ all[n + i].name = name
    BY <1>1
  <2>2. ASSUME NEW k \in n + i .. Len(all) PROVE all[k].type # "user"
    <3>1. k - n \in 1 .. Len(result) /\ k = n + (k - n)
      BY <1>1
    <3>2. all[k] = result[k - n]
      BY <1>1, <3>1
    <3>. QED  BY <3>1, <3>2
  <2>. HIDE DEF all, name
  <2>. QED  BY <1>1, <2>1, <2>2, ReminderLast
<1>. QED  BY <1>2, <1>3 DEF Valid

-----------------------------------------------------------------------------
(* What the steps do to the tasks.                                          *)

\* The tasks there are go on.
Continues ==
  /\ shared' = shared
  /\ tasks' \in Seq(TaskSet) /\ Len(tasks') >= Len(tasks)
  /\ \A m \in TaskNumbers : /\ tasks'[m].type = tasks[m].type
                            /\ tasks'[m].conversation = tasks[m].conversation
                            /\ tasks'[m].name = tasks[m].name
                            /\ tasks'[m].agent = tasks[m].agent

Only(n) ==
  /\ Continues /\ Len(tasks') = Len(tasks)
  /\ \A m \in TaskNumbers \ {n} : tasks'[m] = tasks[m]

LEMMA TaskTyped ==
  ASSUME Typed
  PROVE  /\ Len(tasks) \in Nat /\ DOMAIN tasks = TaskNumbers
         /\ \A n \in TaskNumbers : tasks[n] \in TaskSet
BY DEF Typed, TypeOK, TaskNumbers

\* The task is the same, at another phase.
Same(t, u) ==
  /\ u.type = t.type /\ u.conversation = t.conversation /\ u.name = t.name
  /\ u.agent = t.agent /\ u.kill = t.kill

LEMMA TaskMoves ==
  ASSUME NEW t \in TaskSet, NEW phase \in Phases
  PROVE  LET u == [t EXCEPT !.phase = phase]
         IN  /\ u \in TaskSet /\ Same(t, u) /\ u.phase = phase
             /\ u.locks = t.locks /\ u.events = t.events
BY DEF TaskSet, Same

LEMMA TaskWorks ==
  ASSUME NEW t \in TaskSet, NEW phase \in Phases, NEW es \in Seq(EventSet)
  PROVE  LET u == [t EXCEPT !.phase = phase, !.events = es]
         IN  /\ u \in TaskSet /\ Same(t, u) /\ u.phase = phase
             /\ u.locks = t.locks /\ u.events = es
BY DEF TaskSet, Same

LEMMA TaskChanged ==
  ASSUME Typed, NEW n \in TaskNumbers, NEW t \in TaskSet, Same(tasks[n], t),
         tasks' = [tasks EXCEPT ![n] = t], shared' = shared
  PROVE  Only(n) /\ tasks'[n] = t
<1>1. /\ Len(tasks) \in Nat /\ DOMAIN tasks = TaskNumbers /\ TaskNumbers = 1 .. Len(tasks)
      /\ \A m \in TaskNumbers : tasks[m] \in TaskSet
  BY TaskTyped DEF TaskNumbers
<1>2. tasks'[n] = t /\ \A m \in TaskNumbers \ {n} : tasks'[m] = tasks[m]
  BY <1>1
<1>3. tasks' \in [1 .. Len(tasks) -> TaskSet]
  BY <1>1
<1>4. tasks' \in Seq(TaskSet) /\ Len(tasks') = Len(tasks)
  BY <1>1, <1>3, SeqDef
<1>. QED  BY <1>1, <1>2, <1>4 DEF Only, Continues, Same

\* What a task finds in the tracker store.
LEMMA EventsTyped ==
  ASSUME Typed, NEW n \in TaskNumbers
  PROVE  /\ Events(n) \in Seq(EventSet)
         /\ TrackerStoreOf(n) \in 1 .. MaxAgents /\ tasks[n].conversation \in Conversations
<1>1. tasks[n] \in TaskSet
  BY TaskTyped
<1>2. tasks[n].agent \in 1 .. MaxAgents /\ tasks[n].conversation \in Conversations
  BY <1>1 DEF TaskSet
<1>3. TrackerStoreOf(n) \in 1 .. MaxAgents
  BY <1>2, BoundsAssumption DEF TrackerStoreOf
<1>. QED  BY <1>2, <1>3 DEF Typed, TypeOK, Events

LEMMA FetchedCases ==
  ASSUME Typed, NEW n \in TaskNumbers, NEW es \in Fetched(n)
  PROVE  /\ es \in Seq(EventSet)
         /\ \E log \in Seq(EventSet) :
              /\ es = Events(n) \o log
              /\ es # Events(n) \/ log = <<>>
              /\ \A i \in 1 .. Len(log) : log[i].type \notin {"user", "reminder", "restart"}
<1>1. Events(n) \in Seq(EventSet)
  BY EventsTyped
<1>. DEFINE old == Events(n)
            log == <<SessionStarted, ActionExecuted(LISTEN)>>
<1>2. es = old \/ es = old \o log
  BY DEF Fetched
<1>3. /\ log \in Seq(EventSet) /\ Len(log) = 2
      /\ \A i \in 1 .. Len(log) : log[i].type \notin {"user", "reminder", "restart"}
  BY SessionEvents
<1>4. /\ old \o <<>> = old /\ old \o log \in Seq(EventSet)
      /\ Len(old \o log) = Len(old) + Len(log) /\ Len(old) \in Nat
  <2>1. old \in Seq(EventSet)
    BY <1>1
  <2>2. old \o <<>> = old
    <3>. HIDE DEF old
    <3>. QED  BY <2>1
  <2>3. log \in Seq(EventSet)
    BY <1>3
  <2>. HIDE DEF old, log
  <2>. QED  BY <2>1, <2>2, <2>3, ConcatProperties
<1>5. CASE es = old
  <2>. DEFINE none == <<>>
  <2>1. none \in Seq(EventSet) /\ Len(none) = 0 /\ old \o none = old
    BY <1>4
  <2>. HIDE DEF none, old
  <2>2. es \in Seq(EventSet) /\ es = old \o none /\ \A i \in 1 .. Len(none) : FALSE
    BY <1>1, <1>5, <2>1 DEF old
  <2>. QED  BY <2>1, <2>2 DEF old, none
<1>6. CASE es = old \o log
  <2>1. es # old /\ es \in Seq(EventSet)
    BY <1>3, <1>4, <1>6
  <2>. HIDE DEF log
  <2>. QED  BY <1>3, <1>6, <2>1
<1>. QED  BY <1>2, <1>5, <1>6

\* The steps of one task, but for Act.
LEMMA FireDoes ==
  ASSUME Typed, NEW n \in TaskNumbers, Fire(n)
  PROVE  /\ Only(n) /\ n \in Scheduled /\ tasks'[n].phase \in {"waiting", "skipped"}
         /\ tasks'[n].locks = tasks[n].locks /\ tasks'[n].events = tasks[n].events
         /\ UNCHANGED <<agents, trackers, disturbed>>
<1>1. PICK phase \in {"waiting", "skipped"} : tasks' = [tasks EXCEPT ![n].phase = phase]
  BY DEF Fire
<1>. DEFINE t == [tasks[n] EXCEPT !.phase = phase]
<1>2. DOMAIN tasks = TaskNumbers /\ tasks[n] \in TaskSet /\ phase \in Phases
  BY TaskTyped DEF Phases
<1>3. /\ t \in TaskSet /\ Same(tasks[n], t) /\ t.phase = phase
      /\ t.locks = tasks[n].locks /\ t.events = tasks[n].events
  BY <1>2, TaskMoves
<1>4. tasks' = [tasks EXCEPT ![n] = t]
  BY <1>1, <1>2
<1>. HIDE DEF t
<1>5. shared' = shared /\ UNCHANGED <<agents, trackers, disturbed>> /\ n \in Scheduled
  BY DEF Fire
<1>6. Only(n) /\ tasks'[n] = t
  BY <1>3, <1>4, <1>5, TaskChanged
<1>. QED  BY <1>3, <1>5, <1>6

LEMMA StartMessageDoes ==
  ASSUME Typed, NEW n \in TaskNumbers, StartMessage(n)
  PROVE  /\ Only(n) /\ tasks[n].phase = "waiting" /\ tasks[n].type = "message" /\ Free(n)
         /\ tasks'[n].phase = "working" /\ tasks'[n].locks = agents[tasks[n].agent]
         /\ \E es \in Fetched(n) : tasks'[n].events = Append(es, UserUttered(GREET, n))
         /\ UNCHANGED <<agents, trackers>> /\ disturbed' = disturbed \union Disturbs(n, FALSE)
<1>1. PICK es \in Fetched(n) :
        tasks' = [tasks EXCEPT ![n].phase = "working", ![n].locks = agents[tasks[n].agent],
                               ![n].events = Append(es, UserUttered(GREET, n))]
  BY DEF StartMessage
<1>. DEFINE log == Append(es, UserUttered(GREET, n))
            locks == agents[tasks[n].agent]
            t == [tasks[n] EXCEPT !.phase = "working", !.locks = locks, !.events = log]
<1>2. DOMAIN tasks = TaskNumbers /\ tasks[n] \in TaskSet /\ n \in Nat
  BY TaskTyped DEF TaskNumbers
<1>3. log \in Seq(EventSet)
  <2>1. es \in Seq(EventSet)
    BY FetchedCases
  <2>2. UserUttered(GREET, n) \in EventSet
    BY <1>2, MessageEvents
  <2>. QED  BY <2>1, <2>2
<1>4. "working" \in Phases /\ locks \in 1 .. MaxAgents
  <2>1. tasks[n].agent \in 1 .. Len(agents)
    BY DEF Typed
  <2>. DEFINE A == 1 .. MaxAgents
  <2>2. agents \in Seq(A)
    BY DEF Typed, TypeOK
  <2>. HIDE DEF A
  <2>3. \A a \in 1 .. Len(agents) : agents[a] \in A
    BY <2>2
  <2>. QED  BY <2>1, <2>3 DEF Phases, A
<1>5. tasks' = [tasks EXCEPT ![n] = t]
  BY <1>1, <1>2
<1>. HIDE DEF log, locks
<1>6. t \in TaskSet /\ Same(tasks[n], t) /\ t.phase = "working" /\ t.locks = locks /\ t.events = log
  BY <1>2, <1>3, <1>4 DEF TaskSet, Same
<1>. HIDE DEF t
<1>7. /\ shared' = shared /\ UNCHANGED <<agents, trackers>> /\ Free(n)
      /\ disturbed' = disturbed \union Disturbs(n, FALSE)
      /\ tasks[n].phase = "waiting" /\ tasks[n].type = "message"
  BY DEF StartMessage, Of
<1>8. Only(n) /\ tasks'[n] = t
  BY <1>5, <1>6, <1>7, TaskChanged
<1>. QED  BY <1>6, <1>7, <1>8 DEF log, locks

LEMMA StartReminderDoes ==
  ASSUME Typed, NEW n \in TaskNumbers, StartReminder(n)
  PROVE  /\ Only(n) /\ tasks[n].phase = "waiting" /\ tasks[n].type = "reminder" /\ Free(n)
         /\ tasks'[n].locks = tasks[n].locks
         /\ \E es \in Fetched(n) :
              /\ IF Outdated(tasks[n], es)
                   THEN tasks'[n].phase = "outdated" /\ tasks'[n].events = tasks[n].events
                   ELSE /\ tasks'[n].phase = "working"
                        /\ tasks'[n].events = Append(es, External(n))
              /\ disturbed' = disturbed \union Disturbs(n, es # Events(n))
         /\ UNCHANGED <<agents, trackers>>
<1>1. PICK es \in Fetched(n) :
        /\ tasks' = IF Outdated(tasks[n], es)
                      THEN [tasks EXCEPT ![n].phase = "outdated"]
                      ELSE [tasks EXCEPT ![n].phase = "working",
                                         ![n].events = Append(es, External(n))]
        /\ disturbed' = disturbed \union Disturbs(n, es # Events(n))
  BY DEF StartReminder
<1>. DEFINE log == Append(es, External(n))
            dropped == [tasks[n] EXCEPT !.phase = "outdated"]
            working == [tasks[n] EXCEPT !.phase = "working", !.events = log]
<1>2. DOMAIN tasks = TaskNumbers /\ tasks[n] \in TaskSet /\ n \in Nat
  BY TaskTyped DEF TaskNumbers
<1>3. log \in Seq(EventSet)
  <2>1. es \in Seq(EventSet)
    BY FetchedCases
  <2>2. External(n) \in EventSet
    BY <1>2, MessageEvents
  <2>. QED  BY <2>1, <2>2
<1>4. "working" \in Phases /\ "outdated" \in Phases
  BY DEF Phases
<1>5. tasks' = [tasks EXCEPT ![n] = IF Outdated(tasks[n], es) THEN dropped ELSE working]
  BY <1>1, <1>2
<1>. HIDE DEF log
<1>6. /\ dropped \in TaskSet /\ Same(tasks[n], dropped) /\ dropped.phase = "outdated"
      /\ dropped.locks = tasks[n].locks /\ dropped.events = tasks[n].events
  BY <1>2, <1>4, TaskMoves
<1>7. /\ working \in TaskSet /\ Same(tasks[n], working) /\ working.phase = "working"
      /\ working.locks = tasks[n].locks /\ working.events = log
  BY <1>2, <1>3, <1>4, TaskWorks
<1>. HIDE DEF dropped, working
<1>8. /\ shared' = shared /\ UNCHANGED <<agents, trackers>> /\ Free(n)
      /\ tasks[n].phase = "waiting" /\ tasks[n].type = "reminder"
  BY DEF StartReminder, Of
<1>9. CASE Outdated(tasks[n], es)
  <2>1. Only(n) /\ tasks'[n] = dropped
    BY <1>5, <1>6, <1>8, <1>9, TaskChanged
  <2>. QED  BY <1>1, <1>6, <1>8, <1>9, <2>1
<1>10. CASE ~Outdated(tasks[n], es)
  <2>1. Only(n) /\ tasks'[n] = working
    BY <1>5, <1>7, <1>8, <1>10, TaskChanged
  <2>. QED  BY <1>1, <1>7, <1>8, <1>10, <2>1 DEF log
<1>. QED  BY <1>9, <1>10

\* A turn that is saved or fails.
Over(n, phase) ==
  /\ Only(n) /\ n \in Working /\ tasks'[n].phase = phase
  /\ tasks'[n].events = <<>> /\ tasks'[n].locks = tasks[n].locks /\ agents' = agents

LEMMA TurnOver ==
  ASSUME Typed, NEW n \in Working, NEW phase \in Phases, shared' = shared, agents' = agents,
         tasks' = [tasks EXCEPT ![n].phase = phase, ![n].events = <<>>]
  PROVE  Over(n, phase)
<1>. DEFINE none == <<>>
            t == [tasks[n] EXCEPT !.phase = phase, !.events = none]
<1>1. DOMAIN tasks = TaskNumbers /\ tasks[n] \in TaskSet /\ n \in TaskNumbers
  BY TaskTyped DEF Working
<1>2. none \in Seq(EventSet)
  OBVIOUS
<1>3. tasks' = [tasks EXCEPT ![n] = t]
  BY <1>1
<1>. HIDE DEF none
<1>4. t \in TaskSet /\ Same(tasks[n], t) /\ t.phase = phase /\ t.locks = tasks[n].locks /\ t.events = none
  BY <1>1, <1>2 DEF TaskSet, Same
<1>. HIDE DEF t
<1>5. Only(n) /\ tasks'[n] = t
  BY <1>1, <1>3, <1>4, TaskChanged
<1>. QED  BY <1>4, <1>5 DEF Over, none

LEMMA SaveDoes ==
  ASSUME Typed, NEW n \in TaskNumbers, Save(n)
  PROVE  /\ tasks[n].phase = "acted"
         /\ Over(n, IF Last(tasks[n].events) = Restarted THEN "restarted" ELSE "done")
         /\ trackers' = [trackers EXCEPT ![TrackerStoreOf(n)][tasks[n].conversation] = tasks[n].events]
         /\ disturbed' = disturbed
<1>. DEFINE over == IF Last(tasks[n].events) = Restarted THEN "restarted" ELSE "done"
<1>1. over \in Phases
  BY DEF Phases
<1>2. /\ tasks' = [tasks EXCEPT ![n].phase = over, ![n].events = <<>>]
      /\ trackers' = [trackers EXCEPT ![TrackerStoreOf(n)][tasks[n].conversation] = tasks[n].events]
      /\ shared' = shared /\ agents' = agents /\ disturbed' = disturbed /\ tasks[n].phase = "acted"
  BY DEF Save
<1>. HIDE DEF over
<1>3. Over(n, over)
  BY <1>1, <1>2, TurnOver DEF Working
<1>. QED  BY <1>2, <1>3 DEF over

LEMMA FailDoes ==
  ASSUME Typed, NEW n \in TaskNumbers, Fail(n)
  PROVE  /\ Over(n, "failed") /\ trackers' = trackers
         /\ disturbed' = disturbed \union
              {m \in Of("reminder") : tasks[m].conversation = tasks[n].conversation}
<1>1. "failed" \in Phases
  BY DEF Phases
<1>2. /\ tasks' = [tasks EXCEPT ![n].phase = "failed", ![n].events = <<>>]
      /\ shared' = shared /\ agents' = agents /\ trackers' = trackers /\ n \in Working
      /\ disturbed' = disturbed \union
              {m \in Of("reminder") : tasks[m].conversation = tasks[n].conversation}
  BY DEF Fail
<1>. QED  BY <1>1, <1>2, TurnOver

LEMMA ReceiveDoes ==
  ASSUME Typed, NEW c \in Conversations, Receive(c)
  PROVE  /\ Continues /\ Len(tasks') = Len(tasks) + 1
         /\ \A m \in TaskNumbers : tasks'[m] = tasks[m]
         /\ tasks'[Len(tasks) + 1] = Task("message", c, NoName, FALSE, Len(agents), 1, "waiting")
         /\ UNCHANGED <<agents, trackers, disturbed>>
<1>. DEFINE t == Task("message", c, NoName, FALSE, Len(agents), 1, "waiting")
<1>1. tasks' = Append(tasks, t) /\ shared' = shared /\ UNCHANGED <<agents, trackers, disturbed>>
  BY DEF Receive
<1>2. Len(agents) \in 1 .. MaxAgents /\ <<>> \in Seq(EventSet) /\ MaxAgents \in Nat \ {0}
  BY BoundsAssumption DEF Typed
<1>3. t \in TaskSet
  BY <1>2, NamesAssumption DEF Task, TaskSet, Phases
<1>. HIDE DEF t
<1>4. /\ tasks' \in Seq(TaskSet) /\ Len(tasks') = Len(tasks) + 1 /\ Len(tasks) \in Nat
      /\ \A m \in 1 .. Len(tasks) : tasks'[m] = tasks[m]
      /\ tasks'[Len(tasks) + 1] = t
  BY <1>1, <1>3, Appended DEF Typed, TypeOK
<1>5. Len(tasks') >= Len(tasks)
  BY <1>4
<1>. QED  BY <1>1, <1>4, <1>5 DEF Continues, TaskNumbers, t

-----------------------------------------------------------------------------
(* What an action does to the reminders.                                    *)

LEMMA ScheduledMembers ==
  ASSUME NEW result \in Results
  PROVE  /\ ScheduledIn(result) \in Seq(EventSet)
         /\ \A e : (\E i \in 1 .. Len(ScheduledIn(result)) : ScheduledIn(result)[i] = e)
                     <=> e.type = "reminder" /\ \E i \in 1 .. Len(result) : result[i] = e
<1>. DEFINE types == {e.type : e \in ToSet(result)} \ {"reminder"}
            new == Without(types, result)
<1>1. result \in Seq(EventSet)
  BY ResultEvents
<1>2. ASSUME NEW e, \E i \in 1 .. Len(result) : result[i] = e
      PROVE  e.type \notin types <=> e.type = "reminder"
  <2>1. e \in ToSet(result)
    BY <1>2 DEF ToSet
  <2>. QED  BY <2>1
<1>. HIDE DEF types
<1>3. /\ new \in Seq(EventSet)
      /\ \A e : (\E i \in 1 .. Len(new) : new[i] = e)
                  <=> e.type \notin types /\ \E i \in 1 .. Len(result) : result[i] = e
  <2>1. new \in Seq(EventSet)
    BY <1>1, WithoutType
  <2>2. \A e : (\E i \in 1 .. Len(Without(types, result)) : Without(types, result)[i] = e)
                <=> e.type \notin types /\ \E i \in 1 .. Len(result) : result[i] = e
    BY <1>1, WithoutMembers
  <2>. QED  BY <2>1, <2>2
<1>. QED  BY <1>2, <1>3 DEF ScheduledIn, types

\* The task goes on, or is taken off the scheduler.
Moved(t, u) ==
  /\ u \in TaskSet /\ Same(t, u) /\ u.locks = t.locks /\ u.events = t.events

LEMMA CancelDoes ==
  ASSUME NEW those \in Seq(TaskSet), NEW n, NEW result
  PROVE  LET after == Cancel(n, those, result)
         IN  /\ after \in Seq(TaskSet) /\ Len(after) = Len(those)
             /\ \A m \in 1 .. Len(those) :
                  /\ Moved(those[m], after[m])
                  /\ \/ after[m].phase = those[m].phase
                     \/ /\ those[m].phase = "scheduled" /\ after[m].phase = "cancelled"
                        /\ \E e \in CancelledIn(result) : e.name \in {All, those[m].name}
                        /\ IsPrefix(tasks[n].conversation, those[m].conversation)
<1>. DEFINE after == Cancel(n, those, result)
            Goes1(m) == \E e \in CancelledIn(result) : Cancels(e, tasks[n].conversation, those[m])
            off(m) == [those[m] EXCEPT !.phase = "cancelled"]
<1>1. Len(those) \in Nat /\ \A m \in 1 .. Len(those) : those[m] \in TaskSet
  OBVIOUS
<1>2. ASSUME NEW m \in 1 .. Len(those) PROVE Moved(those[m], those[m])
  BY <1>1 DEF Moved, Same
<1>3. ASSUME NEW m \in 1 .. Len(those) PROVE Moved(those[m], off(m)) /\ off(m).phase = "cancelled"
  <2>1. those[m] \in TaskSet /\ "cancelled" \in Phases
    BY <1>1 DEF Phases
  <2>. QED  BY <2>1, TaskMoves DEF Moved
<1>4. ASSUME NEW m \in 1 .. Len(those), Goes1(m)
      PROVE  /\ \E e \in CancelledIn(result) : e.name \in {All, those[m].name}
             /\ IsPrefix(tasks[n].conversation, those[m].conversation)
  BY <1>4 DEF Cancels
<1>5. after = [m \in 1 .. Len(those) |->
                 IF those[m].phase = "scheduled" /\ Goes1(m) THEN off(m) ELSE those[m]]
  BY DEF Cancel
<1>. HIDE DEF after, Goes1, off
<1>6. ASSUME NEW m \in 1 .. Len(those)
      PROVE  /\ Moved(those[m], after[m])
             /\ \/ after[m].phase = those[m].phase
                \/ /\ those[m].phase = "scheduled" /\ after[m].phase = "cancelled"
                   /\ \E e \in CancelledIn(result) : e.name \in {All, those[m].name}
                   /\ IsPrefix(tasks[n].conversation, those[m].conversation)
  <2>1. CASE those[m].phase = "scheduled" /\ Goes1(m)
    BY <1>3, <1>4, <1>5, <2>1
  <2>2. CASE ~(those[m].phase = "scheduled" /\ Goes1(m))
    BY <1>2, <1>5, <2>2
  <2>. QED  BY <2>1, <2>2
<1>7. after \in [1 .. Len(those) -> TaskSet]
  <2>1. \A m \in 1 .. Len(those) : after[m] \in TaskSet
    BY <1>6 DEF Moved
  <2>2. DOMAIN after = 1 .. Len(those) /\ after = [m \in 1 .. Len(those) |-> after[m]]
    BY <1>5
  <2>. QED  BY <2>1, <2>2
<1>8. after \in Seq(TaskSet) /\ Len(after) = Len(those)
  BY <1>1, <1>7, SeqDef
<1>. QED  BY <1>6, <1>8 DEF after

LEMMA NewTaskTyped ==
  ASSUME Typed, NEW n \in TaskNumbers, NEW new \in Seq(EventSet), NEW i \in 1 .. Len(new),
         NEW kill \in BOOLEAN
  PROVE  LET t == NewTask(n, new, i, kill)
         IN  /\ t \in TaskSet /\ t.type = "reminder" /\ t.name = new[i].name
             /\ t.conversation = tasks[n].conversation /\ t.agent = tasks[n].agent
             /\ t.locks = tasks[n].locks /\ t.events = <<>>
             /\ t.phase = IF \E j \in i + 1 .. Len(new) : new[j].name = new[i].name
                            THEN "replaced" ELSE "scheduled"
<1>. DEFINE phase == IF \E j \in i + 1 .. Len(new) : new[j].name = new[i].name
                       THEN "replaced" ELSE "scheduled"
            none == <<>>
<1>1. phase \in Phases /\ none \in Seq(EventSet)
  BY DEF Phases
<1>2. tasks[n] \in TaskSet /\ new[i] \in EventSet
  BY TaskTyped
<1>3. /\ tasks[n].conversation \in Conversations /\ tasks[n].agent \in 1 .. MaxAgents
      /\ tasks[n].locks \in 1 .. MaxAgents /\ new[i].name \in STRING
  BY <1>2 DEF TaskSet, EventSet
<1>4. NewTask(n, new, i, kill) =
        [type |-> "reminder", conversation |-> tasks[n].conversation, name |-> new[i].name,
         kill |-> kill, agent |-> tasks[n].agent, locks |-> tasks[n].locks, phase |-> phase,
         events |-> none]
  BY DEF NewTask, Task
<1>. HIDE DEF phase, none
<1>. QED  BY <1>1, <1>3, <1>4 DEF TaskSet, phase, none

LEMMA ScheduleDoes ==
  ASSUME Typed, NEW n \in TaskNumbers, NEW result \in Results, NEW kill \in BOOLEAN,
         NEW those \in Seq(TaskSet), Len(those) = Len(tasks)
  PROVE  LET after == Schedule(n, those, result, kill)
             new == ScheduledIn(result)
         IN  /\ after \in Seq(TaskSet) /\ Len(after) = Len(tasks) + Len(new) /\ Len(new) \in Nat
             /\ \A m \in TaskNumbers :
                  /\ Moved(those[m], after[m])
                  /\ after[m].phase = IF m \in Replaced(result) THEN "replaced" ELSE those[m].phase
             /\ \A i \in 1 .. Len(new) : after[Len(tasks) + i] = NewTask(n, new, i, kill)
<1>. DEFINE after == Schedule(n, those, result, kill)
            new == ScheduledIn(result)
            off(m) == [those[m] EXCEPT !.phase = "replaced"]
            old == [m \in TaskNumbers |-> IF m \in Replaced(result) THEN off(m) ELSE those[m]]
            more == [i \in 1 .. Len(new) |-> NewTask(n, new, i, kill)]
<1>1. TaskNumbers = 1 .. Len(tasks) /\ Len(tasks) \in Nat
      /\ \A m \in TaskNumbers : those[m] \in TaskSet
  BY TaskTyped DEF TaskNumbers
<1>2. new \in Seq(EventSet)
  BY ScheduledMembers
<1>3. \A m \in TaskNumbers : Moved(those[m], those[m])
  BY <1>1 DEF Moved, Same
<1>4. ASSUME NEW m \in TaskNumbers PROVE Moved(those[m], off(m)) /\ off(m).phase = "replaced"
  <2>1. those[m] \in TaskSet /\ "replaced" \in Phases
    BY <1>1 DEF Phases
  <2>. QED  BY <2>1, TaskMoves DEF Moved
<1>5. after = old \o more
  BY DEF Schedule
<1>. HIDE DEF new, off
<1>6. ASSUME NEW m \in TaskNumbers
      PROVE  /\ Moved(those[m], old[m])
             /\ old[m].phase = IF m \in Replaced(result) THEN "replaced" ELSE those[m].phase
  BY <1>3, <1>4
<1>7. old \in Seq(TaskSet) /\ Len(old) = Len(tasks)
  <2>1. \A m \in TaskNumbers : old[m] \in TaskSet
    BY <1>6 DEF Moved
  <2>2. DOMAIN old = TaskNumbers /\ old = [m \in TaskNumbers |-> old[m]]
    OBVIOUS
  <2>. HIDE DEF old
  <2>3. old \in [1 .. Len(tasks) -> TaskSet]
    BY <1>1, <2>1, <2>2
  <2>. QED  BY <1>1, <2>3, SeqDef
<1>8. more \in Seq(TaskSet) /\ Len(more) = Len(new) /\ Len(new) \in Nat
  <2>1. \A i \in 1 .. Len(new) : NewTask(n, new, i, kill) \in TaskSet
    BY <1>2, NewTaskTyped
  <2>2. more \in [1 .. Len(new) -> TaskSet] /\ Len(new) \in Nat
    BY <1>2, <2>1
  <2>. HIDE DEF more
  <2>. QED  BY <2>2, SeqDef
<1>9. \A i \in 1 .. Len(new) : more[i] = NewTask(n, new, i, kill)
  OBVIOUS
<1>. HIDE DEF old, more
<1>10. /\ after \in Seq(TaskSet) /\ Len(after) = Len(tasks) + Len(new)
       /\ \A m \in 1 .. Len(tasks) : after[m] = old[m]
       /\ \A i \in 1 .. Len(new) : after[Len(tasks) + i] = more[i]
  <2>1. /\ old \o more \in Seq(TaskSet) /\ Len(old \o more) = Len(old) + Len(more)
        /\ \A m \in 1 .. Len(old) : (old \o more)[m] = old[m]
        /\ \A i \in 1 .. Len(more) : (old \o more)[Len(old) + i] = more[i]
    <3>1. old \in Seq(TaskSet) /\ more \in Seq(TaskSet)
      BY <1>7, <1>8
    <3>. QED  BY <3>1, ConcatParts
  <2>. HIDE DEF after
  <2>2. Len(old) = Len(tasks) /\ Len(more) = Len(new)
    BY <1>7, <1>8
  <2>. QED  BY <1>5, <2>1, <2>2
<1>. HIDE DEF after
<1>. QED  BY <1>1, <1>6, <1>8, <1>9, <1>10 DEF after, new

Remains(result) == \A i \in 1 .. Len(result) : result[i].type \in {"reminder", "cancel_reminder"}

CancelledFor(m) == m \in disturbed \/ Overreached(m)

\* The steps of the other tasks when task n acts: their reminders may go.
Leaves(m) ==
  /\ tasks'[m].locks = tasks[m].locks /\ tasks'[m].events = tasks[m].events
  /\ \/ tasks'[m].phase = tasks[m].phase
     \/ tasks[m].phase = "scheduled" /\ tasks'[m].phase = "replaced" /\ NamesakeAfter(m)'
     \/ tasks[m].phase = "scheduled" /\ tasks'[m].phase = "cancelled" /\ CancelledFor(m)'

\* The reminders task n adds: one at least for each name its result schedules.
NewTasks == TaskNumbers' \ TaskNumbers

Adds(n, k, result) ==
  /\ tasks'[k].type = "reminder" /\ tasks'[k].conversation = tasks[n].conversation
  /\ tasks'[k].agent = tasks[n].agent /\ tasks'[k].locks = tasks[n].locks
  /\ tasks'[k].events = <<>>
  /\ tasks'[k].phase \in {"scheduled", "replaced", "cancelled"}
  /\ tasks'[k].phase = "replaced" => NamesakeAfter(k)'
  /\ tasks'[k].phase = "cancelled" => CancelledFor(k)'
  /\ \E i \in 1 .. Len(result) : result[i].type = "reminder" /\ result[i].name = tasks'[k].name

Acts(n, result) ==
  /\ tasks'[n].phase = "acted" /\ tasks'[n].locks = tasks[n].locks
  /\ tasks'[n].events = tasks[n].events \o result
  /\ \A m \in TaskNumbers \ {n} : Leaves(m)
  /\ \A k \in NewTasks : Adds(n, k, result)
  /\ \A i \in 1 .. Len(result) : result[i].type = "reminder" =>
       \E k \in NewTasks : tasks'[k].name = result[i].name
  /\ \A k \in TaskNumbers' \ disturbed' :
       tasks'[k].conversation = tasks[n].conversation => Remains(result)
  /\ \A m, k \in Scheduled' : tasks'[m].name = tasks'[k].name => m = k
  /\ disturbed \subseteq disturbed' /\ disturbed' \subseteq TaskNumbers'

LEMMA ActDoes ==
  ASSUME Typed, NEW n \in TaskNumbers, Act(n)
  PROVE  /\ Continues /\ tasks[n].phase = "working" /\ UNCHANGED <<agents, trackers>>
         /\ \E result \in Results : Acts(n, result)
<1>1. PICK result \in Results, kill \in BOOLEAN :
        LET logged == [tasks EXCEPT ![n].phase = "acted", ![n].events = @ \o result]
            scheduled == Schedule(n, logged, result, kill)
        IN  /\ tasks' = Cancel(n, scheduled, result)
            /\ disturbed' = disturbed \union Touched(n, scheduled, result)
  BY DEF Act
<1>2. tasks[n].phase = "working" /\ UNCHANGED <<shared, agents, trackers>>
  BY DEF Act
<1>. DEFINE log == tasks[n].events \o result
            t == [tasks[n] EXCEPT !.phase = "acted", !.events = log]
            logged == [tasks EXCEPT ![n] = t]
            scheduled == Schedule(n, logged, result, kill)
            new == ScheduledIn(result)
            types == {e.type : e \in ToSet(result)}
            N == Len(tasks)
<1>3. /\ TaskNumbers = 1 .. N /\ N \in Nat /\ DOMAIN tasks = TaskNumbers
      /\ \A m \in TaskNumbers : tasks[m] \in TaskSet
  BY TaskTyped DEF TaskNumbers
<1>4. tasks[n] \in TaskSet /\ result \in Seq(EventSet)
  BY <1>3, ResultEvents
<1>5. log \in Seq(EventSet)
  <2>1. tasks[n].events \in Seq(EventSet)
    BY <1>4 DEF TaskSet
  <2>. DEFINE es == tasks[n].events
  <2>2. es \in Seq(EventSet)
    BY <2>1
  <2>. HIDE DEF es
  <2>3. es \o result \in Seq(EventSet)
    BY <1>4, <2>2, ConcatParts
  <2>. QED  BY <2>3 DEF es
<1>6. /\ tasks' = Cancel(n, scheduled, result)
      /\ disturbed' = disturbed \union Touched(n, scheduled, result)
  <2>1. logged = [tasks EXCEPT ![n].phase = "acted", ![n].events = @ \o result]
    BY <1>3
  <2>. HIDE DEF logged
  <2>. QED  BY <1>1, <2>1
<1>. HIDE DEF log
<1>7. /\ t \in TaskSet /\ Same(tasks[n], t) /\ t.phase = "acted" /\ t.locks = tasks[n].locks
      /\ t.events = log
  <2>1. "acted" \in Phases
    BY DEF Phases
  <2>. QED  BY <1>4, <1>5, <2>1 DEF TaskSet, Same
<1>. HIDE DEF t
<1>8. /\ logged \in Seq(TaskSet) /\ Len(logged) = N
      /\ logged[n] = t /\ \A m \in TaskNumbers \ {n} : logged[m] = tasks[m]
  <2>1. logged[n] = t /\ \A m \in TaskNumbers \ {n} : logged[m] = tasks[m]
    BY <1>3
  <2>2. logged \in [1 .. N -> TaskSet]
    BY <1>3, <1>7
  <2>. HIDE DEF logged
  <2>3. logged \in Seq(TaskSet) /\ Len(logged) = N
    BY <1>3, <2>2, SeqDef
  <2>. QED  BY <2>1, <2>3
<1>. HIDE DEF logged
<1>9. /\ scheduled \in Seq(TaskSet) /\ Len(scheduled) = N + Len(new) /\ Len(new) \in Nat
      /\ \A m \in TaskNumbers :
           /\ Moved(logged[m], scheduled[m])
           /\ scheduled[m].phase = IF m \in Replaced(result) THEN "replaced" ELSE logged[m].phase
      /\ \A i \in 1 .. Len(new) : scheduled[N + i] = NewTask(n, new, i, kill)
  BY <1>8, ScheduleDoes
<1>. HIDE DEF scheduled
<1>10. /\ tasks' \in Seq(TaskSet) /\ Len(tasks') = Len(scheduled)
       /\ \A m \in 1 .. Len(scheduled) :
            /\ Moved(scheduled[m], tasks'[m])
            /\ \/ tasks'[m].phase = scheduled[m].phase
               \/ /\ scheduled[m].phase = "scheduled" /\ tasks'[m].phase = "cancelled"
                  /\ \E e \in CancelledIn(result) : e.name \in {All, scheduled[m].name}
                  /\ IsPrefix(tasks[n].conversation, scheduled[m].conversation)
  BY <1>6, <1>9, CancelDoes
<1>11. TaskNumbers' = 1 .. Len(scheduled) /\ TaskNumbers \subseteq TaskNumbers'
  BY <1>3, <1>9, <1>10 DEF TaskNumbers
<1>12. n \notin Replaced(result)
  BY <1>2 DEF Replaced, Scheduled, Of
<1>13. /\ tasks'[n].phase = "acted" /\ tasks'[n].locks = tasks[n].locks
       /\ tasks'[n].events = log
  <2>1. Moved(logged[n], scheduled[n]) /\ Moved(scheduled[n], tasks'[n]) /\ logged[n] = t
    BY <1>8, <1>9, <1>10, <1>11
  <2>2. scheduled[n].phase = "acted"
    BY <1>7, <1>8, <1>9, <1>12
  <2>3. tasks'[n].phase = "acted"
    BY <1>10, <1>11, <2>2
  <2>. QED  BY <1>7, <2>1, <2>3 DEF Moved
<1>14. Continues
  <2>1. ASSUME NEW m \in TaskNumbers PROVE Same(tasks[m], tasks'[m])
    <3>1. Moved(logged[m], scheduled[m]) /\ Moved(scheduled[m], tasks'[m])
      BY <1>9, <1>10, <1>11
    <3>2. Same(tasks[m], logged[m])
      BY <1>7, <1>8 DEF Same
    <3>. QED  BY <3>1, <3>2 DEF Moved, Same
  <2>2. Len(tasks') >= Len(tasks)
    BY <1>3, <1>9, <1>10
  <2>. QED  BY <1>2, <1>10, <2>1, <2>2 DEF Continues, Same
<1>15. ASSUME NEW k \in TaskNumbers', tasks'[k].phase = "cancelled", scheduled[k].phase # "cancelled"
       PROVE  CancelledFor(k)'
  <2>1. /\ \E e \in CancelledIn(result) : e.name \in {All, scheduled[k].name}
        /\ IsPrefix(tasks[n].conversation, scheduled[k].conversation)
    BY <1>10, <1>11, <1>15
  <2>2. CASE scheduled[k].conversation = tasks[n].conversation
    <3>1. k \in Touched(n, scheduled, result)
      BY <1>11, <2>1, <2>2 DEF Touched
    <3>. QED  BY <1>6, <3>1 DEF CancelledFor
  <2>3. CASE scheduled[k].conversation # tasks[n].conversation
    <3>1. /\ tasks'[k].conversation = scheduled[k].conversation
          /\ tasks'[n].conversation = tasks[n].conversation /\ n \in TaskNumbers'
      BY <1>10, <1>11, <1>14 DEF Moved, Same, Continues
    <3>. QED  BY <1>13, <2>1, <2>3, <3>1 DEF Overreached, CancelledFor
  <2>. QED  BY <2>2, <2>3
<1>16. new \in Seq(EventSet) /\ \A i \in 1 .. Len(new) : NewTask(n, new, i, kill).name = new[i].name
  <2>1. new \in Seq(EventSet)
    BY ScheduledMembers
  <2>. HIDE DEF new
  <2>. QED  BY <2>1, NewTaskTyped
<1>17. \A e : (\E i \in 1 .. Len(new) : new[i] = e)
               <=> e.type = "reminder" /\ \E i \in 1 .. Len(result) : result[i] = e
  BY ScheduledMembers
<1>. HIDE DEF new
<1>18. ASSUME NEW i \in 1 .. Len(new)
       PROVE  LET k == N + i
                  new_ == NewTask(n, new, i, kill)
              IN  /\ k \in NewTasks /\ scheduled[k] = new_ /\ new_ \in TaskSet
                  /\ Moved(new_, tasks'[k]) /\ tasks'[k].name = new[i].name
  <2>1. N + i \in 1 .. Len(scheduled) /\ N + i \notin TaskNumbers
    BY <1>3, <1>9
  <2>2. scheduled[N + i] = NewTask(n, new, i, kill) /\ NewTask(n, new, i, kill) \in TaskSet
    BY <1>9, <1>16, NewTaskTyped
  <2>3. Moved(scheduled[N + i], tasks'[N + i])
    BY <1>10, <2>1
  <2>. QED  BY <1>11, <1>16, <2>1, <2>2, <2>3 DEF NewTasks, Moved, Same
<1>19. ASSUME NEW k \in NewTasks PROVE \E i \in 1 .. Len(new) : k = N + i
  <2>1. k \in 1 .. N + Len(new) /\ ~(k \in 1 .. N)
    BY <1>3, <1>9, <1>11 DEF NewTasks
  <2>2. k - N \in 1 .. Len(new) /\ k = N + (k - N)
    BY <1>3, <1>9, <2>1
  <2>. QED  BY <2>2
<1>20. ASSUME NEW m \in Replaced(result) PROVE NamesakeAfter(m)'
  <2>1. m \in TaskNumbers /\ \E i \in 1 .. Len(new) : tasks[m].name = new[i].name
    <3>1. m \in TaskNumbers /\ tasks[m].name \in {e.name : e \in ToSet(new)}
      BY DEF Replaced, Scheduled, Of, new
    <3>. QED  BY <3>1 DEF ToSet
  <2>2. PICK i \in 1 .. Len(new) : tasks[m].name = new[i].name
    BY <2>1
  <2>3. N + i \in NewTasks /\ tasks'[N + i].name = tasks'[m].name /\ tasks'[N + i].type = "reminder"
    <3>1. NewTask(n, new, i, kill).type = "reminder"
      BY <1>16, NewTaskTyped
    <3>. QED  BY <1>14, <1>18, <2>1, <2>2, <3>1 DEF Continues, Moved, Same
  <2>4. N + i > m /\ N + i \in TaskNumbers'
    BY <1>3, <1>9, <2>1, <2>3 DEF NewTasks
  <2>. QED  BY <2>3, <2>4 DEF NamesakeAfter, Of
<1>21. ASSUME NEW m \in TaskNumbers \ {n} PROVE Leaves(m)
  <2>1. /\ logged[m] = tasks[m] /\ Moved(tasks[m], scheduled[m]) /\ Moved(scheduled[m], tasks'[m])
        /\ m \in TaskNumbers'
    BY <1>8, <1>9, <1>10, <1>11
  <2>2. m \in Replaced(result) => tasks[m].phase = "scheduled"
    BY DEF Replaced, Scheduled
  <2>3. scheduled[m].phase = IF m \in Replaced(result) THEN "replaced" ELSE tasks[m].phase
    BY <1>9, <2>1
  <2>4. \/ tasks'[m].phase = scheduled[m].phase
        \/ scheduled[m].phase = "scheduled" /\ tasks'[m].phase = "cancelled"
    BY <1>10, <1>11, <2>1
  <2>5. CASE tasks'[m].phase = scheduled[m].phase
    <3>1. m \in Replaced(result) => NamesakeAfter(m)'
      BY <1>20
    <3>. QED  BY <2>1, <2>2, <2>3, <2>5, <3>1 DEF Leaves, Moved
  <2>6. CASE scheduled[m].phase = "scheduled" /\ tasks'[m].phase = "cancelled"
    <3>1. CancelledFor(m)'
      BY <1>15, <2>1, <2>6
    <3>2. tasks[m].phase = "scheduled"
      BY <2>2, <2>3, <2>6
    <3>. QED  BY <2>1, <2>6, <3>1, <3>2 DEF Leaves, Moved
  <2>. QED  BY <2>4, <2>5, <2>6
<1>22. ASSUME NEW k \in NewTasks PROVE Adds(n, k, result)
  <2>1. PICK i \in 1 .. Len(new) : k = N + i
    BY <1>19
  <2>. DEFINE u == NewTask(n, new, i, kill)
  <2>2. scheduled[k] = u /\ Moved(u, tasks'[k]) /\ tasks'[k].name = new[i].name
    BY <1>18, <2>1
  <2>3. /\ u.type = "reminder" /\ u.conversation = tasks[n].conversation
        /\ u.agent = tasks[n].agent /\ u.locks = tasks[n].locks /\ u.events = <<>>
        /\ u.phase \in {"scheduled", "replaced"}
    BY <1>16, NewTaskTyped
  <2>. HIDE DEF u
  <2>4. /\ tasks'[k].type = "reminder" /\ tasks'[k].conversation = tasks[n].conversation
        /\ tasks'[k].agent = tasks[n].agent /\ tasks'[k].locks = tasks[n].locks
        /\ tasks'[k].events = <<>>
    BY <2>2, <2>3 DEF Moved, Same
  <2>5. k \in TaskNumbers'
    BY DEF NewTasks
  <2>6. /\ tasks'[k].phase \in {"scheduled", "replaced", "cancelled"}
        /\ tasks'[k].phase = "cancelled" => CancelledFor(k)'
    <3>1. tasks'[k].phase = scheduled[k].phase \/ tasks'[k].phase = "cancelled"
      BY <1>10, <1>11, <2>5
    <3>2. tasks'[k].phase = "cancelled" => CancelledFor(k)'
      BY <1>15, <2>2, <2>3, <2>5
    <3>. QED  BY <2>2, <2>3, <3>1, <3>2
  <2>7. \E j \in 1 .. Len(result) : result[j].type = "reminder" /\ result[j].name = tasks'[k].name
    BY <1>17, <2>2
  <2>8. tasks'[k].phase = "replaced" => NamesakeAfter(k)'
    <3>. SUFFICES ASSUME tasks'[k].phase = "replaced" PROVE NamesakeAfter(k)'
      OBVIOUS
    <3>1. scheduled[k].phase = "replaced"
      BY <1>10, <1>11, <2>5
    <3>2. PICK j \in i + 1 .. Len(new) : new[j].name = new[i].name
      <4>1. NewTask(n, new, i, kill).phase = IF \E j \in i + 1 .. Len(new) : new[j].name = new[i].name
                                               THEN "replaced" ELSE "scheduled"
        BY <1>16, NewTaskTyped
      <4>. QED  BY <2>2, <3>1, <4>1 DEF u
    <3>3. j \in 1 .. Len(new) /\ N + j > k
      BY <1>3, <1>9, <2>1
    <3>4. /\ N + j \in TaskNumbers' /\ tasks'[N + j].name = tasks'[k].name
          /\ tasks'[N + j].type = "reminder"
      <4>1. NewTask(n, new, j, kill).type = "reminder"
        BY <1>16, <3>3, NewTaskTyped
      <4>. QED  BY <1>18, <2>2, <3>2, <3>3, <4>1 DEF NewTasks, Moved, Same
    <3>. QED  BY <3>3, <3>4 DEF NamesakeAfter, Of
  <2>. QED  BY <2>4, <2>6, <2>7, <2>8 DEF Adds
<1>23. ASSUME NEW i \in 1 .. Len(result), result[i].type = "reminder"
       PROVE  \E k \in NewTasks : tasks'[k].name = result[i].name
  <2>1. PICK j \in 1 .. Len(new) : new[j] = result[i]
    BY <1>17, <1>23
  <2>. QED  BY <1>18, <2>1
<1>24. ASSUME NEW k \in TaskNumbers' \ disturbed', tasks'[k].conversation = tasks[n].conversation
       PROVE  Remains(result)
  <2>1. scheduled[k].conversation = tasks[n].conversation /\ k \in 1 .. Len(scheduled)
    BY <1>10, <1>11, <1>24 DEF Moved, Same
  <2>2. k \notin Touched(n, scheduled, result)
    BY <1>6
  <2>4. types \cap {"restart", "rewind"} = {}
    BY <2>1, <2>2 DEF Touched
  <2>5. ASSUME NEW i \in 1 .. Len(result) PROVE result[i].type \in {"reminder", "cancel_reminder"}
    <3>1. result[i].type \in types
      BY DEF ToSet
    <3>2. result[i].type \in {"reminder", "cancel_reminder", "restart", "rewind"}
      BY ResultEvents
    <3>. QED  BY <2>4, <3>1, <3>2
  <2>. QED  BY <2>5 DEF Remains
<1>25. ASSUME NEW m \in Scheduled', NEW k \in Scheduled', tasks'[m].name = tasks'[k].name PROVE m = k
  <2>1. ASSUME NEW j \in Scheduled'
        PROVE  /\ j \in TaskNumbers => j \in Scheduled /\ j \notin Replaced(result)
               /\ j \in TaskNumbers => tasks'[j].name = tasks[j].name
               /\ j \notin TaskNumbers => \E i \in 1 .. Len(new) :
                    /\ j = N + i /\ tasks'[j].name = new[i].name
                    /\ ~\E l \in i + 1 .. Len(new) : new[l].name = new[i].name
    <3>1. j \in TaskNumbers' /\ tasks'[j].phase = "scheduled" /\ tasks'[j].type = "reminder"
      BY DEF Scheduled, Of
    <3>2. scheduled[j].phase = "scheduled"
      BY <1>10, <1>11, <3>1
    <3>3. CASE j \in TaskNumbers
      <4>1. j # n
        BY <1>13, <3>1
      <4>2. logged[j] = tasks[j] /\ Same(tasks[j], tasks'[j])
        BY <1>8, <1>14, <3>3, <4>1, <1>9, <1>10, <1>11 DEF Moved, Same
      <4>3. j \notin Replaced(result) /\ tasks[j].phase = "scheduled"
        BY <1>9, <3>2, <3>3, <4>2
      <4>. QED  BY <3>1, <3>3, <4>2, <4>3 DEF Scheduled, Of, Same
    <3>4. CASE j \notin TaskNumbers
      <4>1. PICK i \in 1 .. Len(new) : j = N + i
        BY <1>19, <3>1, <3>4 DEF NewTasks
      <4>2. scheduled[j] = NewTask(n, new, i, kill) /\ tasks'[j].name = new[i].name
        BY <1>18, <4>1
      <4>3. ~\E l \in i + 1 .. Len(new) : new[l].name = new[i].name
        <5>1. NewTask(n, new, i, kill).phase =
                IF \E l \in i + 1 .. Len(new) : new[l].name = new[i].name
                  THEN "replaced" ELSE "scheduled"
          BY <1>16, NewTaskTyped
        <5>. QED  BY <3>2, <4>2, <5>1
      <4>. QED  BY <3>4, <4>1, <4>2, <4>3
    <3>. QED  BY <3>3, <3>4
  <2>2. ASSUME NEW a \in Scheduled', NEW b \in Scheduled', a \in TaskNumbers, b \notin TaskNumbers,
               tasks'[a].name = tasks'[b].name
        PROVE  FALSE
    <3>1. PICK i \in 1 .. Len(new) : tasks'[b].name = new[i].name
      BY <2>1, <2>2
    <3>2. tasks[a].name \in {e.name : e \in ToSet(new)} /\ a \in Scheduled /\ a \notin Replaced(result)
      <4>1. new[i] \in ToSet(new)
        BY DEF ToSet
      <4>. QED  BY <2>1, <2>2, <3>1, <4>1
    <3>. QED  BY <3>2 DEF Replaced, new
  <2>3. CASE m \in TaskNumbers /\ k \in TaskNumbers
    BY <1>25, <2>1, <2>3 DEF Typed, TypeOK
  <2>4. CASE m \notin TaskNumbers /\ k \notin TaskNumbers
    <3>1. PICK i \in 1 .. Len(new) : /\ m = N + i /\ tasks'[m].name = new[i].name
                                     /\ ~\E l \in i + 1 .. Len(new) : new[l].name = new[i].name
      BY <2>1, <2>4
    <3>2. PICK j \in 1 .. Len(new) : /\ k = N + j /\ tasks'[k].name = new[j].name
                                     /\ ~\E l \in j + 1 .. Len(new) : new[l].name = new[j].name
      BY <2>1, <2>4
    <3>3. i \notin j + 1 .. Len(new) /\ j \notin i + 1 .. Len(new)
      BY <1>25, <3>1, <3>2
    <3>4. i = j
      BY <1>9, <3>3
    <3>. QED  BY <3>1, <3>2, <3>4
  <2>. QED  BY <1>25, <2>2, <2>3, <2>4
<1>26. disturbed \subseteq disturbed' /\ disturbed' \subseteq TaskNumbers'
  <2>1. disturbed \subseteq TaskNumbers
    BY DEF Typed, TypeOK
  <2>. QED  BY <1>6, <1>11, <2>1 DEF Touched
<1>27. Acts(n, result)
  BY <1>13, <1>21, <1>22, <1>23, <1>24, <1>25, <1>26 DEF Acts, log
<1>. QED  BY <1>2, <1>14, <1>27

-----------------------------------------------------------------------------
(* Types.                                                                   *)

LEMMA AgentsDo ==
  ASSUME Typed, ReplaceAgent \/ PullModel
  PROVE  /\ agents' \in Seq(1 .. MaxAgents) /\ Len(agents') \in Len(agents) .. MaxAgents
         /\ UNCHANGED <<shared, tasks, trackers, disturbed>>
         /\ OneLockStore' => \A a \in 1 .. Len(agents') : agents'[a] \in {1} \union {agents[b] : b \in 1 .. Len(agents)}
<1>. DEFINE A == 1 .. MaxAgents
            old == Len(agents)
<1>1. agents \in Seq(A) /\ old \in 1 .. MaxAgents /\ MaxAgents \in Nat \ {0} /\ 1 \in A
  BY BoundsAssumption DEF Typed, TypeOK
<1>2. UNCHANGED <<shared, tasks, trackers, disturbed>>
  BY DEF ReplaceAgent, PullModel
<1>3. CASE ReplaceAgent
  <2>1. PICK s \in A : /\ agents' = Append(agents, s) /\ old < MaxAgents
                       /\ "locks" \in shared => s = 1
    <3>1. old < MaxAgents /\ agents' = Append(agents, IF "locks" \in shared THEN 1 ELSE old + 1)
      BY <1>3 DEF ReplaceAgent
    <3>2. old + 1 \in A
      BY <1>1, <3>1
    <3>. HIDE DEF A, old
    <3>. QED  BY <1>1, <3>1, <3>2
  <2>. HIDE DEF A
  <2>2. /\ agents' \in Seq(A) /\ Len(agents') = old + 1 /\ agents'[old + 1] = s
        /\ \A a \in 1 .. old : agents'[a] = agents[a]
    BY <1>1, <2>1, Appended
  <2>3. Len(agents') \in Len(agents) .. MaxAgents /\ Len(agents') # 1
    BY <1>1, <2>1, <2>2
  <2>4. OneLockStore' => s = 1
    BY <1>2, <2>1, <2>3 DEF OneLockStore
  <2>5. \A a \in 1 .. Len(agents') : a = old + 1 \/ a \in 1 .. old
    BY <1>1, <2>2
  <2>6. OneLockStore' => \A a \in 1 .. Len(agents') :
                           agents'[a] \in {1} \union {agents[b] : b \in 1 .. Len(agents)}
    <3>. SUFFICES ASSUME s = 1, NEW a \in 1 .. Len(agents')
                  PROVE  agents'[a] \in {1} \union {agents[b] : b \in 1 .. Len(agents)}
      BY <2>4
    <3>. QED  BY <2>2, <2>5
  <2>. QED  BY <1>2, <2>2, <2>3, <2>6 DEF A
<1>4. CASE PullModel
  <2>1. agents' = [agents EXCEPT ![old] = 1]
    BY <1>4 DEF PullModel
  <2>. HIDE DEF A
  <2>2. /\ agents' \in Seq(A) /\ Len(agents') = old
        /\ \A a \in 1 .. old : agents'[a] = IF a = old THEN 1 ELSE agents[a]
    BY <1>1, <2>1
  <2>3. Len(agents') \in Len(agents) .. MaxAgents
    BY <1>1, <2>2
  <2>. QED  BY <1>2, <2>2, <2>3 DEF A
<1>. QED  BY <1>3, <1>4

LEMMA TypedInit == ASSUME Init PROVE Typed
<1>. DEFINE A == 1 .. MaxAgents
            none == <<>>
<1>1. 1 \in A /\ MaxAgents \in Nat
  BY BoundsAssumption
<1>2. /\ shared \subseteq {"locks", "trackers"} /\ agents = <<1>> /\ tasks = none /\ disturbed = {}
      /\ trackers = [s \in A |-> [c \in Conversations |-> none]]
  BY DEF Init
<1>3. none \in Seq(EventSet) /\ none \in Seq(TaskSet) /\ Len(none) = 0
  OBVIOUS
<1>4. agents \in Seq(A) /\ Len(agents) = 1
  <2>. HIDE DEF A
  <2>. QED  BY <1>1, <1>2
<1>5. TaskNumbers = {}
  BY <1>2, <1>3 DEF TaskNumbers
<1>6. Scheduled = {}
  BY <1>5 DEF Scheduled, Of
<1>7. trackers \in [A -> [Conversations -> Seq(EventSet)]]
  <2>. HIDE DEF A, none
  <2>. QED  BY <1>2, <1>3
<1>. HIDE DEF none
<1>8. tasks \in Seq(TaskSet)
  BY <1>2, <1>3
<1>9. TypeOK
  BY <1>2, <1>4, <1>6, <1>7, <1>8 DEF TypeOK
<1>. QED  BY <1>1, <1>4, <1>5, <1>9 DEF Typed

LEMMA TypedKept ==
  ASSUME Typed, Continues,
         agents' \in Seq(1 .. MaxAgents), Len(agents') \in Len(agents) .. MaxAgents,
         trackers' \in [1 .. MaxAgents -> [Conversations -> Seq(EventSet)]],
         disturbed' \subseteq TaskNumbers',
         \A k \in NewTasks : tasks'[k].agent \in 1 .. Len(agents'),
         \A m, k \in Scheduled' : tasks'[m].name = tasks'[k].name => m = k
  PROVE  Typed'
<1>1. TypeOK'
  BY DEF Typed, TypeOK, Continues
<1>2. ASSUME NEW k \in TaskNumbers' PROVE tasks'[k].agent \in 1 .. Len(agents')
  <2>1. CASE k \in TaskNumbers
    <3>1. tasks[k].agent \in 1 .. Len(agents) /\ tasks'[k].agent = tasks[k].agent
      BY <2>1 DEF Typed, Continues
    <3>. QED  BY <3>1 DEF Typed
  <2>. QED  BY <2>1 DEF NewTasks
<1>3. Len(agents') \in 1 .. MaxAgents
  BY BoundsAssumption DEF Typed
<1>. QED  BY <1>1, <1>2, <1>3 DEF Typed

LEMMA OnlyTyped ==
  ASSUME Typed, NEW n \in TaskNumbers, Only(n), tasks'[n].phase # "scheduled",
         agents' = agents, disturbed' \subseteq TaskNumbers,
         trackers' \in [1 .. MaxAgents -> [Conversations -> Seq(EventSet)]]
  PROVE  Typed'
<1>1. TaskNumbers' = TaskNumbers /\ NewTasks = {}
  BY DEF Only, TaskNumbers, NewTasks
<1>2. ASSUME NEW m \in Scheduled' PROVE m \in Scheduled /\ tasks'[m].name = tasks[m].name
  <2>1. m \in TaskNumbers /\ tasks'[m].type = "reminder" /\ tasks'[m].phase = "scheduled"
    BY <1>1 DEF Scheduled, Of
  <2>2. m # n /\ tasks'[m] = tasks[m]
    BY <2>1 DEF Only
  <2>. QED  BY <2>1, <2>2 DEF Scheduled, Of
<1>3. \A m, k \in Scheduled' : tasks'[m].name = tasks'[k].name => m = k
  BY <1>2 DEF Typed, TypeOK
<1>4. agents' \in Seq(1 .. MaxAgents) /\ Len(agents') \in Len(agents) .. MaxAgents
  BY DEF Typed, TypeOK
<1>. QED  BY <1>1, <1>3, <1>4, TypedKept DEF Only

LEMMA DisturbsTyped ==
  ASSUME Typed, NEW n \in TaskNumbers, NEW expired \in BOOLEAN
  PROVE  disturbed \union Disturbs(n, expired) \subseteq TaskNumbers
BY DEF Typed, TypeOK, Disturbs, Of

LEMMA SavedTyped ==
  ASSUME Typed, NEW n \in TaskNumbers,
         trackers' = [trackers EXCEPT ![TrackerStoreOf(n)][tasks[n].conversation] = tasks[n].events]
  PROVE  /\ trackers' \in [1 .. MaxAgents -> [Conversations -> Seq(EventSet)]]
         /\ \A s \in 1 .. MaxAgents, c \in Conversations :
              trackers'[s][c] = IF s = TrackerStoreOf(n) /\ c = tasks[n].conversation
                                  THEN tasks[n].events ELSE trackers[s][c]
<1>. DEFINE A == 1 .. MaxAgents
            S == Seq(EventSet)
            s0 == TrackerStoreOf(n)
            c0 == tasks[n].conversation
            es == tasks[n].events
<1>1. s0 \in A /\ c0 \in Conversations
  BY EventsTyped
<1>2. es \in S
  <2>1. tasks[n] \in TaskSet
    BY TaskTyped
  <2>. QED  BY <2>1 DEF TaskSet
<1>3. trackers \in [A -> [Conversations -> S]]
  BY DEF Typed, TypeOK
<1>. HIDE DEF A, S, s0, c0, es
<1>4. trackers' = [trackers EXCEPT ![s0][c0] = es]
  BY DEF s0, c0, es
<1>5. /\ trackers' \in [A -> [Conversations -> S]]
      /\ \A s \in A, c \in Conversations :
           trackers'[s][c] = IF s = s0 /\ c = c0 THEN es ELSE trackers[s][c]
  <2>. DEFINE f == [trackers[s0] EXCEPT ![c0] = es]
  <2>1. trackers[s0] \in [Conversations -> S] /\ trackers' = [trackers EXCEPT ![s0] = f]
    BY <1>1, <1>3, <1>4
  <2>2. f \in [Conversations -> S] /\ \A c \in Conversations : f[c] = IF c = c0 THEN es ELSE trackers[s0][c]
    BY <1>1, <1>2, <2>1
  <2>. HIDE DEF f
  <2>3. /\ trackers' \in [A -> [Conversations -> S]]
        /\ \A s \in A : trackers'[s] = IF s = s0 THEN f ELSE trackers[s]
    BY <1>1, <1>3, <2>1, <2>2
  <2>. QED  BY <2>2, <2>3
<1>. QED  BY <1>5 DEF A, S, s0, c0, es

LEMMA TypedNext == ASSUME Typed, [Next]_vars PROVE Typed'
<1>1. /\ agents \in Seq(1 .. MaxAgents) /\ Len(agents) \in 1 .. MaxAgents
      /\ trackers \in [1 .. MaxAgents -> [Conversations -> Seq(EventSet)]]
      /\ disturbed \subseteq TaskNumbers
      /\ \A m, k \in Scheduled : tasks[m].name = tasks[k].name => m = k
  BY DEF Typed, TypeOK
<1>2. Len(agents) \in Len(agents) .. MaxAgents
  BY <1>1
<1>3. CASE UNCHANGED vars
  <2>1. UNCHANGED <<shared, agents, tasks, trackers, disturbed, TaskNumbers, Scheduled>>
    BY <1>3 DEF vars, TaskNumbers, Scheduled, Of
  <2>. QED  BY <2>1 DEF Typed, TypeOK
<1>4. ASSUME NEW c \in Conversations, Receive(c) PROVE Typed'
  <2>1. /\ Continues /\ Len(tasks') = Len(tasks) + 1 /\ \A m \in TaskNumbers : tasks'[m] = tasks[m]
        /\ tasks'[Len(tasks) + 1] = Task("message", c, NoName, FALSE, Len(agents), 1, "waiting")
        /\ UNCHANGED <<agents, trackers, disturbed>>
    BY <1>4, ReceiveDoes
  <2>2. /\ TaskNumbers \subseteq TaskNumbers' /\ NewTasks = {Len(tasks) + 1}
    <3>1. Len(tasks) \in Nat
      BY TaskTyped
    <3>. QED  BY <2>1, <3>1 DEF TaskNumbers, NewTasks
  <2>3. /\ tasks'[Len(tasks) + 1].agent = Len(agents) /\ tasks'[Len(tasks) + 1].type = "message"
    BY <2>1 DEF Task
  <2>4. ASSUME NEW m \in Scheduled' PROVE m \in Scheduled /\ tasks'[m] = tasks[m]
    <3>1. m \in TaskNumbers' /\ m # Len(tasks) + 1 /\ tasks'[m].phase = "scheduled" /\ tasks'[m].type = "reminder"
      BY <2>3 DEF Scheduled, Of
    <3>2. m \in TaskNumbers
      BY <2>2, <3>1 DEF NewTasks
    <3>. QED  BY <2>1, <3>1, <3>2 DEF Scheduled, Of
  <2>5. \A m, k \in Scheduled' : tasks'[m].name = tasks'[k].name => m = k
    BY <1>1, <2>4
  <2>6. \A k \in NewTasks : tasks'[k].agent \in 1 .. Len(agents')
    <3>1. \A k \in NewTasks : tasks'[k].agent = Len(agents)
      BY <2>2, <2>3
    <3>2. Len(agents) \in 1 .. Len(agents') /\ agents' = agents
      BY <1>1, <2>1
    <3>. QED  BY <3>1, <3>2
  <2>. QED  BY <1>1, <1>2, <2>1, <2>2, <2>5, <2>6, TypedKept
<1>5. ASSUME NEW n \in TaskNumbers, Fire(n) PROVE Typed'
  <2>1. /\ Only(n) /\ tasks'[n].phase # "scheduled" /\ UNCHANGED <<agents, trackers, disturbed>>
    BY <1>5, FireDoes
  <2>. QED  BY <1>1, <2>1, OnlyTyped
<1>6. ASSUME NEW n \in TaskNumbers, StartMessage(n) PROVE Typed'
  <2>1. /\ Only(n) /\ tasks'[n].phase = "working" /\ UNCHANGED <<agents, trackers>>
        /\ disturbed' = disturbed \union Disturbs(n, FALSE)
    BY <1>6, StartMessageDoes
  <2>2. disturbed' \subseteq TaskNumbers
    BY <2>1, DisturbsTyped
  <2>. QED  BY <1>1, <2>1, <2>2, OnlyTyped
<1>7. ASSUME NEW n \in TaskNumbers, StartReminder(n) PROVE Typed'
  <2>1. PICK es \in Fetched(n) :
          /\ tasks'[n].phase \in {"working", "outdated"}
          /\ disturbed' = disturbed \union Disturbs(n, es # Events(n))
    BY <1>7, StartReminderDoes
  <2>2. Only(n) /\ UNCHANGED <<agents, trackers>>
    BY <1>7, StartReminderDoes
  <2>3. disturbed' \subseteq TaskNumbers
    <3>1. (es # Events(n)) \in BOOLEAN
      OBVIOUS
    <3>. QED  BY <2>1, <3>1, DisturbsTyped
  <2>. QED  BY <1>1, <2>1, <2>2, <2>3, OnlyTyped
<1>8. ASSUME NEW n \in TaskNumbers, Act(n) PROVE Typed'
  <2>1. Continues /\ UNCHANGED <<agents, trackers>>
    BY <1>8, ActDoes
  <2>2. PICK result \in Results : Acts(n, result)
    BY <1>8, ActDoes
  <2>3. \A k \in NewTasks : tasks'[k].agent \in 1 .. Len(agents')
    <3>1. tasks[n].agent \in 1 .. Len(agents)
      BY DEF Typed
    <3>2. \A k \in NewTasks : Adds(n, k, result)
      BY <2>2 DEF Acts
    <3>3. \A k \in NewTasks : tasks'[k].agent = tasks[n].agent
      BY <3>2 DEF Adds
    <3>4. agents' = agents
      BY <2>1
    <3>. QED  BY <3>1, <3>3, <3>4
  <2>. QED  BY <1>1, <1>2, <2>1, <2>2, <2>3, TypedKept DEF Acts
<1>9. ASSUME NEW n \in TaskNumbers, Save(n) PROVE Typed'
  <2>1. /\ Over(n, IF Last(tasks[n].events) = Restarted THEN "restarted" ELSE "done")
        /\ disturbed' = disturbed
        /\ trackers' = [trackers EXCEPT ![TrackerStoreOf(n)][tasks[n].conversation] = tasks[n].events]
    BY <1>9, SaveDoes
  <2>2. trackers' \in [1 .. MaxAgents -> [Conversations -> Seq(EventSet)]]
    BY <2>1, SavedTyped
  <2>3. Only(n) /\ tasks'[n].phase # "scheduled" /\ agents' = agents
    BY <2>1 DEF Over
  <2>. QED  BY <1>1, <2>1, <2>2, <2>3, OnlyTyped
<1>10. ASSUME NEW n \in TaskNumbers, Fail(n) PROVE Typed'
  <2>1. /\ Over(n, "failed") /\ trackers' = trackers
        /\ disturbed' = disturbed \union
             {m \in Of("reminder") : tasks[m].conversation = tasks[n].conversation}
    BY <1>10, FailDoes
  <2>2. disturbed' \subseteq TaskNumbers
    BY <1>1, <2>1 DEF Of
  <2>3. Only(n) /\ tasks'[n].phase # "scheduled" /\ agents' = agents
    BY <2>1 DEF Over
  <2>. QED  BY <1>1, <2>1, <2>2, <2>3, OnlyTyped
<1>11. ASSUME ReplaceAgent \/ PullModel PROVE Typed'
  <2>1. /\ agents' \in Seq(1 .. MaxAgents) /\ Len(agents') \in Len(agents) .. MaxAgents
        /\ UNCHANGED <<shared, tasks, trackers, disturbed>>
    BY <1>11, AgentsDo
  <2>2. TaskNumbers' = TaskNumbers /\ Scheduled' = Scheduled /\ NewTasks = {}
    BY <2>1 DEF TaskNumbers, Scheduled, Of, NewTasks
  <2>3. Continues
    BY <2>1 DEF Continues, Typed, TypeOK
  <2>. QED  BY <1>1, <2>1, <2>2, <2>3, TypedKept
<1>. QED  BY <1>3, <1>4, <1>5, <1>6, <1>7, <1>8, <1>9, <1>10, <1>11 DEF Next, Proceed

\* The scheduler has one job of an id, and every task is what it should be.
THEOREM TypeCorrect == Spec => []TypeOK
<1>1. Init => Typed
  BY TypedInit
<1>2. Typed /\ [Next]_vars => Typed'
  BY TypedNext
<1>3. Typed => TypeOK
  BY DEF Typed
<1>. QED  BY <1>1, <1>2, <1>3, PTL DEF Spec

-----------------------------------------------------------------------------
(* Reminders and messages work alone.                                       *)

\* What every step leaves alone: locks are taken before a task works, from
\* the same store at any time.
Steady ==
  /\ Continues /\ Len(agents') >= Len(agents)
  /\ \A m \in TaskNumbers : tasks[m].type = "reminder" => tasks'[m].locks = tasks[m].locks
  /\ \A m \in Working' : \/ m \in Working
                         \/ m \in TaskNumbers /\ Free(m) /\ Working' \subseteq Working \union {m}
  /\ OneLockStore' /\ OneStore => \A a \in 1 .. Len(agents') : agents'[a] = 1
  /\ OneLockStore' /\ OneStore => \A k \in TaskNumbers' : tasks'[k].locks = 1

LEMMA OneLockStoreKept ==
  ASSUME Typed, Steady, OneLockStore'
  PROVE  OneLockStore
<1>1. Len(agents) \in 1 .. MaxAgents /\ Len(agents') >= Len(agents) /\ shared' = shared
  BY DEF Typed, Steady, Continues
<1>2. MaxAgents \in Nat
  BY BoundsAssumption
<1>3. Len(agents') = 1 => Len(agents) = 1
  BY <1>1, <1>2
<1>. QED  BY <1>1, <1>3 DEF OneLockStore

LEMMA OnlySteady ==
  ASSUME Typed, NEW n \in TaskNumbers, Only(n), agents' = agents,
         tasks'[n].locks \in {tasks[n].locks} \union {agents[a] : a \in 1 .. Len(agents)},
         tasks[n].type = "reminder" => tasks'[n].locks = tasks[n].locks,
         n \in Working' => n \in Working \/ Free(n)
  PROVE  Steady
<1>1. /\ Continues /\ TaskNumbers' = TaskNumbers /\ \A m \in TaskNumbers \ {n} : tasks'[m] = tasks[m]
  BY DEF Only, TaskNumbers
<1>2. Working' \subseteq Working \union {n}
  BY <1>1 DEF Working
<1>3. Len(agents') >= Len(agents)
  BY BoundsAssumption DEF Typed
<1>4. ASSUME OneLockStore', OneStore
      PROVE  /\ \A a \in 1 .. Len(agents') : agents'[a] = 1
             /\ \A k \in TaskNumbers' : tasks'[k].locks = 1
  <2>1. OneLockStore
    BY <1>1, <1>4 DEF OneLockStore, Continues
  <2>2. /\ \A a \in 1 .. Len(agents) : agents[a] = 1
        /\ \A k \in TaskNumbers : tasks[k].locks = 1
    BY <1>4, <2>1 DEF OneStore
  <2>. QED  BY <1>1, <2>2
<1>. QED  BY <1>1, <1>2, <1>3, <1>4 DEF Steady

LEMMA NextSteady == ASSUME Typed, [Next]_vars PROVE Steady
<1>1. Len(agents) \in 1 .. MaxAgents /\ Len(agents) >= Len(agents) /\ Len(tasks) \in Nat
      /\ \A m \in TaskNumbers : tasks[m].agent \in 1 .. Len(agents)
  BY BoundsAssumption DEF Typed, TypeOK
<1>2. ASSUME UNCHANGED <<shared, tasks>>, Len(agents') >= Len(agents),
             OneLockStore' => \A a \in 1 .. Len(agents') :
                                agents'[a] \in {1} \union {agents[b] : b \in 1 .. Len(agents)}
      PROVE  Steady
  <2>1. Continues /\ TaskNumbers' = TaskNumbers /\ Working' = Working
    BY <1>1, <1>2 DEF Continues, TaskNumbers, Working, Typed, TypeOK
  <2>2. OneLockStore' => OneLockStore
    BY <1>1, <1>2, BoundsAssumption DEF OneLockStore
  <2>3. OneLockStore' /\ OneStore => /\ \A a \in 1 .. Len(agents') : agents'[a] = 1
                                    /\ \A k \in TaskNumbers' : tasks'[k].locks = 1
    BY <1>2, <2>1, <2>2 DEF OneStore
  <2>. QED  BY <1>2, <2>1, <2>3 DEF Steady
<1>3. CASE UNCHANGED vars
  BY <1>1, <1>2, <1>3 DEF vars
<1>4. ASSUME NEW c \in Conversations, Receive(c) PROVE Steady
  <2>1. /\ Continues /\ Len(tasks') = Len(tasks) + 1 /\ \A m \in TaskNumbers : tasks'[m] = tasks[m]
        /\ tasks'[Len(tasks) + 1] = Task("message", c, NoName, FALSE, Len(agents), 1, "waiting")
        /\ agents' = agents
    BY <1>4, ReceiveDoes
  <2>2. tasks'[Len(tasks) + 1].locks = 1 /\ tasks'[Len(tasks) + 1].phase = "waiting"
    BY <2>1 DEF Task
  <2>3. TaskNumbers' = TaskNumbers \union {Len(tasks) + 1}
    BY <1>1, <2>1 DEF TaskNumbers
  <2>4. Working' \subseteq Working
    BY <2>1, <2>2, <2>3 DEF Working
  <2>5. OneLockStore' => OneLockStore
    BY <2>1 DEF OneLockStore, Continues
  <2>6. OneLockStore' /\ OneStore => /\ \A a \in 1 .. Len(agents') : agents'[a] = 1
                                    /\ \A k \in TaskNumbers' : tasks'[k].locks = 1
    BY <2>1, <2>2, <2>3, <2>5 DEF OneStore
  <2>. QED  BY <1>1, <2>1, <2>4, <2>6 DEF Steady
<1>5. ASSUME NEW n \in TaskNumbers, Fire(n) PROVE Steady
  <2>1. /\ Only(n) /\ tasks'[n].phase \in {"waiting", "skipped"} /\ tasks'[n].locks = tasks[n].locks
        /\ agents' = agents
    BY <1>5, FireDoes
  <2>. QED  BY <2>1, OnlySteady DEF Working
<1>6. ASSUME NEW n \in TaskNumbers, StartMessage(n) PROVE Steady
  <2>1. /\ Only(n) /\ tasks[n].type = "message" /\ tasks'[n].locks = agents[tasks[n].agent]
        /\ agents' = agents /\ Free(n)
    BY <1>6, StartMessageDoes
  <2>2. tasks'[n].locks \in {agents[a] : a \in 1 .. Len(agents)}
    BY <1>1, <2>1
  <2>. QED  BY <2>1, <2>2, OnlySteady
<1>7. ASSUME NEW n \in TaskNumbers, StartReminder(n) PROVE Steady
  <2>1. Only(n) /\ tasks'[n].locks = tasks[n].locks /\ agents' = agents /\ Free(n)
    BY <1>7, StartReminderDoes
  <2>. QED  BY <2>1, OnlySteady
<1>8. ASSUME NEW n \in TaskNumbers, Act(n) PROVE Steady
  <2>1. Continues /\ agents' = agents /\ tasks[n].phase = "working"
    BY <1>8, ActDoes
  <2>2. PICK result \in Results : Acts(n, result)
    BY <1>8, ActDoes
  <2>3. /\ tasks'[n].locks = tasks[n].locks /\ \A m \in TaskNumbers \ {n} : Leaves(m)
        /\ \A k \in NewTasks : Adds(n, k, result)
    BY <2>2 DEF Acts
  <2>4. \A m \in TaskNumbers : tasks'[m].locks = tasks[m].locks
    BY <2>3 DEF Leaves
  <2>5. \A k \in NewTasks : /\ tasks'[k].locks = tasks[n].locks
                            /\ tasks'[k].phase \notin {"working", "acted"}
    BY <2>3 DEF Adds
  <2>6. \A k \in TaskNumbers' : k \in TaskNumbers \/ k \in NewTasks
    BY DEF NewTasks
  <2>7. ASSUME NEW m \in Working' PROVE m \in Working
    <3>1. m \in TaskNumbers /\ tasks'[m].phase \in {"working", "acted"}
      BY <2>5, <2>6 DEF Working
    <3>. QED  BY <2>1, <2>3, <3>1 DEF Leaves, Working
  <2>8. OneLockStore' => OneLockStore
    BY <2>1 DEF OneLockStore, Continues
  <2>9. OneLockStore' /\ OneStore => /\ \A a \in 1 .. Len(agents') : agents'[a] = 1
                                    /\ \A k \in TaskNumbers' : tasks'[k].locks = 1
    BY <2>1, <2>4, <2>5, <2>6, <2>8 DEF OneStore
  <2>. QED  BY <1>1, <2>1, <2>4, <2>7, <2>9 DEF Steady
<1>9. ASSUME NEW n \in TaskNumbers, NEW phase, Over(n, phase) PROVE Steady
  <2>1. Only(n) /\ tasks'[n].locks = tasks[n].locks /\ agents' = agents /\ n \in Working
    BY <1>9 DEF Over
  <2>. QED  BY <2>1, OnlySteady
<1>10. ASSUME NEW n \in TaskNumbers, Save(n) \/ Fail(n) PROVE Steady
  BY <1>9, <1>10, SaveDoes, FailDoes
<1>11. ASSUME ReplaceAgent \/ PullModel PROVE Steady
  <2>1. Len(agents') >= Len(agents)
    BY <1>1, <1>11, AgentsDo
  <2>. QED  BY <1>2, <1>11, <2>1, AgentsDo
<1>. QED  BY <1>3, <1>4, <1>5, <1>6, <1>7, <1>8, <1>10, <1>11 DEF Next, Proceed

LEMMA ExclusionKept ==
  ASSUME Typed, Steady, Exclusion
  PROVE  Exclusion'
<1>1. \A m \in TaskNumbers : /\ tasks'[m].conversation = tasks[m].conversation
                              /\ LockStoreOf(m)' = LockStoreOf(m)
  <2>1. \A m \in TaskNumbers : /\ tasks'[m].conversation = tasks[m].conversation
                                /\ tasks'[m].type = tasks[m].type
    BY DEF Steady, Continues
  <2>2. ASSUME NEW m \in TaskNumbers
        PROVE  tasks[m].type \in {"message", "reminder"} /\ (tasks[m].type = "reminder" => tasks'[m].locks = tasks[m].locks)
    <3>1. tasks[m] \in TaskSet
      BY TaskTyped
    <3>. QED  BY <3>1 DEF Steady, TaskSet
  <2>. QED  BY <2>1, <2>2 DEF LockStoreOf
<1>2. Working' \subseteq TaskNumbers /\ Working \subseteq TaskNumbers
  BY DEF Steady, Working
<1>3. ASSUME NEW m \in Working', NEW k \in Working', m \notin Working, m # k,
             tasks[m].conversation = tasks[k].conversation, LockStoreOf(m) = LockStoreOf(k)
      PROVE  FALSE
  <2>1. Free(m) /\ k \in Working
    BY <1>3 DEF Steady
  <2>. QED  BY <1>3, <2>1 DEF Free
<1>4. ASSUME NEW m \in Working', NEW k \in Working',
             tasks'[m].conversation = tasks'[k].conversation, LockStoreOf(m)' = LockStoreOf(k)'
      PROVE  m = k
  <2>1. tasks[m].conversation = tasks[k].conversation /\ LockStoreOf(m) = LockStoreOf(k)
    BY <1>1, <1>2, <1>4
  <2>. QED  BY <1>3, <2>1 DEF Exclusion
<1>. QED  BY <1>4 DEF Exclusion

LEMMA AloneNow ==
  ASSUME Typed, OneStore, Exclusion
  PROVE  WorkAlone
<1>. SUFFICES ASSUME OneLockStore, NEW m \in Working, NEW n \in Working,
                     tasks[m].conversation = tasks[n].conversation
              PROVE  m = n
  BY DEF WorkAlone
<1>1. LockStoreOf(m) = 1 /\ LockStoreOf(n) = 1
  BY DEF OneStore, LockStoreOf, Working
<1>. QED  BY <1>1 DEF Exclusion

LEMMA AloneInit == ASSUME Init PROVE OneStore /\ Exclusion
<1>1. Typed /\ tasks = <<>> /\ agents = <<1>>
  BY TypedInit DEF Init
<1>2. TaskNumbers = {} /\ Len(agents) = 1 /\ agents[1] = 1
  BY <1>1 DEF TaskNumbers
<1>. QED  BY <1>2 DEF OneStore, Exclusion, Working

LEMMA AloneNext ==
  ASSUME Typed, OneStore, Exclusion, [Next]_vars
  PROVE  OneStore' /\ Exclusion'
<1>1. Steady
  BY NextSteady
<1>. QED  BY <1>1, ExclusionKept DEF Steady, OneStore

LEMMA AloneUnlessOwn ==
  ASSUME Typed, Exclusion, NEW m \in Working, NEW n \in Working,
         tasks[m].conversation = tasks[n].conversation, ~OwnLocks(tasks[n].conversation)
  PROVE  m = n
<1>1. ASSUME NEW k \in Working, tasks[k].conversation = tasks[n].conversation
      PROVE  LockStoreOf(k) = 1
  <2>1. k \in TaskNumbers /\ tasks[k].phase \in {"working", "acted"} /\ tasks[k] \in TaskSet
    BY TaskTyped DEF Working
  <2>2. tasks[k].type = "reminder" => tasks[k].locks = 1
    BY <1>1, <2>1 DEF OwnLocks, Of
  <2>. QED  BY <2>1, <2>2 DEF LockStoreOf, TaskSet
<1>. QED  BY <1>1 DEF Exclusion

\* How far a task has come: its phases in some order are never left.
Ran == {"working", "acted", "done", "restarted", "failed"}
Past == Ran \ {"working"}
Begun == Ran \union {"waiting", "outdated"}

Onward ==
  \A m \in TaskNumbers :
    /\ tasks[m].phase \in Ran => tasks'[m].phase \in Ran
    /\ tasks[m].phase \in Past => tasks'[m].phase \in Past
    /\ tasks[m].phase \in Begun => tasks'[m].phase \in Begun

LEMMA OnlyOnward ==
  ASSUME NEW n \in TaskNumbers, Only(n),
         /\ tasks[n].phase \in Ran => tasks'[n].phase \in Ran
         /\ tasks[n].phase \in Past => tasks'[n].phase \in Past
         /\ tasks[n].phase \in Begun => tasks'[n].phase \in Begun
  PROVE  Onward
BY DEF Only, Onward

LEMMA NextOnward == ASSUME Typed, [Next]_vars PROVE Onward
<1>1. CASE UNCHANGED tasks
  BY <1>1 DEF Onward
<1>2. ASSUME NEW c \in Conversations, Receive(c) PROVE Onward
  BY <1>2, ReceiveDoes DEF Onward
<1>3. ASSUME NEW n \in TaskNumbers, Fire(n) PROVE Onward
  <2>1. Only(n) /\ tasks[n].phase = "scheduled"
    BY <1>3, FireDoes DEF Scheduled
  <2>. QED  BY <2>1, OnlyOnward DEF Ran, Past, Begun
<1>4. ASSUME NEW n \in TaskNumbers, StartMessage(n) PROVE Onward
  <2>1. Only(n) /\ tasks[n].phase = "waiting" /\ tasks'[n].phase = "working"
    BY <1>4, StartMessageDoes
  <2>. QED  BY <2>1, OnlyOnward DEF Ran, Past, Begun
<1>5. ASSUME NEW n \in TaskNumbers, StartReminder(n) PROVE Onward
  <2>1. Only(n) /\ tasks[n].phase = "waiting" /\ tasks'[n].phase \in {"outdated", "working"}
    BY <1>5, StartReminderDoes
  <2>. QED  BY <2>1, OnlyOnward DEF Ran, Past, Begun
<1>6. ASSUME NEW n \in TaskNumbers, Act(n) PROVE Onward
  <2>1. PICK result \in Results : Acts(n, result)
    BY <1>6, ActDoes
  <2>2. /\ tasks'[n].phase = "acted" /\ tasks[n].phase = "working"
        /\ \A m \in TaskNumbers \ {n} : tasks'[m].phase = tasks[m].phase \/ tasks[m].phase = "scheduled"
    BY <1>6, <2>1, ActDoes DEF Acts, Leaves
  <2>. QED  BY <2>2 DEF Onward, Ran, Past, Begun
<1>7. ASSUME NEW n \in TaskNumbers, Save(n) \/ Fail(n) PROVE Onward
  <2>1. Only(n) /\ tasks'[n].phase \in {"done", "restarted", "failed"}
    BY <1>7, SaveDoes, FailDoes DEF Over
  <2>. QED  BY <2>1, OnlyOnward DEF Ran, Past, Begun
<1>8. ASSUME ReplaceAgent \/ PullModel PROVE Onward
  BY <1>1, <1>8, AgentsDo
<1>. QED  BY <1>1, <1>2, <1>3, <1>4, <1>5, <1>6, <1>7, <1>8 DEF Next, Proceed, vars

LEMMA OwnLocksKept ==
  ASSUME Typed, Steady, Onward, NEW k \in TaskNumbers, OwnLocks(tasks[k].conversation)
  PROVE  OwnLocks(tasks[k].conversation)'
<1>1. PICK m \in Of("reminder") : /\ tasks[m].conversation = tasks[k].conversation
                                  /\ tasks[m].locks # 1
                                  /\ tasks[m].phase \in Ran
  BY DEF OwnLocks, Ran
<1>2. m \in TaskNumbers /\ tasks[m].type = "reminder" /\ m \in TaskNumbers'
  <2>1. m \in TaskNumbers /\ tasks[m].type = "reminder"
    BY DEF Of
  <2>. QED  BY <2>1, TaskTyped DEF Steady, Continues, TaskNumbers
<1>3. /\ tasks'[m].conversation = tasks'[k].conversation /\ tasks'[m].locks # 1 /\ tasks'[m].type = "reminder"
      /\ tasks'[m].phase \in Ran
  BY <1>1, <1>2 DEF Steady, Continues, Onward
<1>. QED  BY <1>2, <1>3 DEF OwnLocks, Of, Ran

LEMMA OwnLocksOne == ASSUME Typed, OneStore, OneLockStore, NEW c PROVE ~OwnLocks(c)
BY DEF OneStore, OwnLocks, Of

-----------------------------------------------------------------------------
(* What is logged after a message.                                          *)

LEMMA LoggedEmpty == \A those, c : LoggedLater(those, <<>>, c)
BY DEF LoggedLater

LEMMA LoggedGrows ==
  ASSUME Typed, Continues, NEW es \in Seq(EventSet), NEW c, LoggedLater(tasks, es, c)
  PROVE  LoggedLater(tasks', es, c)
<1>1. /\ Len(tasks) \in Nat /\ Len(tasks') \in Nat /\ Len(tasks') >= Len(tasks)
      /\ \A k \in 1 .. Len(tasks) : /\ tasks'[k].type = tasks[k].type
                                    /\ tasks'[k].name = tasks[k].name
                                    /\ tasks'[k].conversation = tasks[k].conversation
  BY TaskTyped DEF Continues, TaskNumbers
<1>2. \A k \in 1 .. Len(tasks) : k \in 1 .. Len(tasks')
  BY <1>1
<1>. SUFFICES ASSUME NEW p \in 1 .. Len(es), es[p].type = "user"
              PROVE  /\ es[p].time =< Len(tasks')
                     /\ \A q \in p .. Len(es) : es[q].type = "reminder" =>
                          \E k \in 1 .. Len(tasks') :
                            /\ k > es[p].time /\ tasks'[k].type = "reminder"
                            /\ tasks'[k].name = es[q].name /\ tasks'[k].conversation = c
  BY DEF LoggedLater
<1>3. es[p].time \in Nat
  <2>1. es[p] \in EventSet
    OBVIOUS
  <2>. QED  BY <2>1 DEF EventSet
<1>4. es[p].time =< Len(tasks')
  <2>1. es[p].time =< Len(tasks)
    BY DEF LoggedLater
  <2>. QED  BY <1>1, <1>3, <2>1
<1>5. ASSUME NEW q \in p .. Len(es), es[q].type = "reminder"
      PROVE  \E k \in 1 .. Len(tasks') :
                  /\ k > es[p].time /\ tasks'[k].type = "reminder"
                  /\ tasks'[k].name = es[q].name /\ tasks'[k].conversation = c
  <2>1. PICK k \in 1 .. Len(tasks) : /\ k > es[p].time /\ tasks[k].type = "reminder"
                                     /\ tasks[k].name = es[q].name /\ tasks[k].conversation = c
    BY <1>5 DEF LoggedLater
  <2>. QED  BY <1>1, <1>2, <2>1
<1>. QED  BY <1>4, <1>5

LEMMA LoggedConcat ==
  ASSUME NEW those \in Seq(TaskSet), NEW es \in Seq(EventSet), NEW log \in Seq(EventSet), NEW c,
         LoggedLater(those, es, c), NEW top \in 0 .. Len(those),
         \A p \in 1 .. Len(es) : es[p].type = "user" => es[p].time =< top,
         \A i \in 1 .. Len(log) : log[i].type # "user",
         \A i \in 1 .. Len(log) : log[i].type = "reminder" =>
           \E k \in 1 .. Len(those) : /\ k > top /\ those[k].type = "reminder"
                                    /\ those[k].name = log[i].name /\ those[k].conversation = c
  PROVE  LoggedLater(those, es \o log, c)
<1>. DEFINE all == es \o log
            N == Len(es)
<1>1. /\ all \in Seq(EventSet) /\ Len(all) = N + Len(log) /\ N \in Nat /\ Len(log) \in Nat
      /\ \A i \in 1 .. N : all[i] = es[i]
      /\ \A i \in 1 .. Len(log) : all[N + i] = log[i]
  BY ConcatParts
<1>. HIDE DEF all
<1>2. ASSUME NEW q \in 1 .. Len(all) PROVE q \in 1 .. N \/ (q - N \in 1 .. Len(log) /\ all[q] = log[q - N])
  <2>1. q \notin 1 .. N => q - N \in 1 .. Len(log) /\ q = N + (q - N)
    BY <1>1
  <2>. QED  BY <1>1, <2>1
<1>. SUFFICES ASSUME NEW p \in 1 .. Len(all), all[p].type = "user"
              PROVE  /\ all[p].time =< Len(those)
                     /\ \A q \in p .. Len(all) : all[q].type = "reminder" =>
                          \E k \in 1 .. Len(those) :
                            /\ k > all[p].time /\ those[k].type = "reminder"
                            /\ those[k].name = all[q].name /\ those[k].conversation = c
  BY DEF LoggedLater, all
<1>3. p \in 1 .. N /\ all[p] = es[p]
  BY <1>1, <1>2
<1>4. es[p].time \in Nat /\ es[p].time =< top /\ top \in Nat
  <2>1. es[p] \in EventSet
    BY <1>3
  <2>. QED  BY <1>3, <2>1 DEF EventSet
<1>5. all[p].time =< Len(those)
  BY <1>3, <1>4 DEF LoggedLater
<1>6. ASSUME NEW q \in p .. Len(all), all[q].type = "reminder"
      PROVE  \E k \in 1 .. Len(those) :
                  /\ k > all[p].time /\ those[k].type = "reminder"
                  /\ those[k].name = all[q].name /\ those[k].conversation = c
  <2>1. q \in 1 .. Len(all)
    BY <1>1
  <2>2. CASE q \in 1 .. N
    <3>1. q \in p .. N /\ all[q] = es[q]
      BY <1>1, <1>3, <2>2
    <3>. QED  BY <1>3, <1>6, <3>1 DEF LoggedLater
  <2>3. CASE q - N \in 1 .. Len(log) /\ all[q] = log[q - N]
    <3>1. PICK k \in 1 .. Len(those) : /\ k > top /\ those[k].type = "reminder"
                                     /\ those[k].name = all[q].name /\ those[k].conversation = c
      BY <1>6, <2>3
    <3>2. k > all[p].time
      BY <1>3, <1>4, <3>1
    <3>. QED  BY <3>1, <3>2
  <2>. QED  BY <1>2, <2>1, <2>2, <2>3
<1>. QED  BY <1>5, <1>6

LEMMA LoggedAppend ==
  ASSUME NEW those, NEW es \in Seq(EventSet), NEW e \in EventSet, NEW c,
         LoggedLater(those, es, c), e.type = "user", e.time =< Len(those)
  PROVE  LoggedLater(those, Append(es, e), c)
<1>. DEFINE all == Append(es, e)
            N == Len(es)
<1>1. /\ Len(all) = N + 1 /\ N \in Nat /\ all[N + 1] = e
      /\ \A i \in 1 .. N : all[i] = es[i]
  BY Appended
<1>. HIDE DEF all
<1>. SUFFICES ASSUME NEW p \in 1 .. Len(all), all[p].type = "user"
              PROVE  /\ all[p].time =< Len(those)
                     /\ \A q \in p .. Len(all) : all[q].type = "reminder" =>
                          \E k \in 1 .. Len(those) :
                            /\ k > all[p].time /\ those[k].type = "reminder"
                            /\ those[k].name = all[q].name /\ those[k].conversation = c
  BY DEF LoggedLater, all
<1>2. p \in 1 .. N \/ p = N + 1
  BY <1>1
<1>3. all[p].time =< Len(those)
  BY <1>1, <1>2 DEF LoggedLater
<1>4. ASSUME NEW q \in p .. Len(all), all[q].type = "reminder"
      PROVE  \E k \in 1 .. Len(those) :
                  /\ k > all[p].time /\ those[k].type = "reminder"
                  /\ those[k].name = all[q].name /\ those[k].conversation = c
  <2>1. q # N + 1
    BY <1>1, <1>4
  <2>2. p \in 1 .. N /\ q \in p .. N /\ all[p] = es[p] /\ all[q] = es[q]
    BY <1>1, <2>1
  <2>. QED  BY <1>4, <2>2 DEF LoggedLater
<1>. QED  BY <1>3, <1>4

\* The log of a task that starts to work.
LEMMA LoggedFetched ==
  ASSUME Typed, Logged, NEW n \in TaskNumbers, NEW es \in Fetched(n),
         NEW e \in EventSet, e.type = "user", e.time = n
  PROVE  LoggedLater(tasks, Append(es, e), tasks[n].conversation)
<1>1. /\ Events(n) \in Seq(EventSet) /\ TrackerStoreOf(n) \in 1 .. MaxAgents
      /\ tasks[n].conversation \in Conversations
  BY EventsTyped
<1>. DEFINE c == tasks[n].conversation
            old == Events(n)
            N == Len(tasks)
<1>2. LoggedLater(tasks, old, c)
  BY <1>1 DEF Logged, Events
<1>3. PICK log \in Seq(EventSet) :
        /\ es = old \o log
        /\ \A i \in 1 .. Len(log) : log[i].type \notin {"user", "reminder", "restart"}
  BY FetchedCases
<1>4. /\ tasks \in Seq(TaskSet) /\ N \in 0 .. Len(tasks) /\ n =< Len(tasks)
      /\ \A p \in 1 .. Len(old) : old[p].type = "user" => old[p].time =< N
  BY <1>2 DEF Typed, TypeOK, LoggedLater, TaskNumbers
<1>5. es \in Seq(EventSet)
  BY FetchedCases
<1>. HIDE DEF c, old, N
<1>6. LoggedLater(tasks, es, c)
  BY <1>1, <1>2, <1>3, <1>4, LoggedConcat DEF old
<1>. QED  BY <1>4, <1>5, <1>6, LoggedAppend DEF c

LEMMA LoggedInit == ASSUME Init PROVE Logged
<1>1. TaskNumbers = {}
  BY DEF Init, TaskNumbers
<1>2. \A s \in 1 .. MaxAgents, c \in Conversations : trackers[s][c] = <<>>
  BY DEF Init
<1>. QED  BY <1>1, <1>2, LoggedEmpty DEF Logged

LEMMA LoggedKept ==
  ASSUME Typed, Logged, Continues, trackers' = trackers,
         \A k \in TaskNumbers' :
           \/ k \in TaskNumbers /\ tasks'[k].events = tasks[k].events
           \/ LoggedLater(tasks', tasks'[k].events, tasks'[k].conversation)
  PROVE  Logged'
<1>1. ASSUME NEW s \in 1 .. MaxAgents, NEW c \in Conversations
      PROVE  LoggedLater(tasks', trackers'[s][c], c)
  <2>1. trackers[s][c] \in Seq(EventSet) /\ LoggedLater(tasks, trackers[s][c], c)
    BY DEF Typed, TypeOK, Logged
  <2>. QED  BY <2>1, LoggedGrows
<1>2. ASSUME NEW k \in TaskNumbers', k \in TaskNumbers, tasks'[k].events = tasks[k].events
      PROVE  LoggedLater(tasks', tasks'[k].events, tasks'[k].conversation)
  <2>1. tasks[k].events \in Seq(EventSet)
    <3>1. tasks[k] \in TaskSet
      BY <1>2, TaskTyped
    <3>. QED  BY <3>1 DEF TaskSet
  <2>2. LoggedLater(tasks, tasks[k].events, tasks[k].conversation)
    BY <1>2 DEF Logged
  <2>3. tasks'[k].conversation = tasks[k].conversation
    BY <1>2 DEF Continues
  <2>. QED  BY <1>2, <2>1, <2>2, <2>3, LoggedGrows
<1>. QED  BY <1>1, <1>2 DEF Logged

LEMMA LoggedNext == ASSUME Typed, Logged, [Next]_vars PROVE Logged'
<1>1. CASE UNCHANGED vars
  BY <1>1 DEF vars, Logged, TaskNumbers
<1>2. ASSUME NEW c \in Conversations, Receive(c) PROVE Logged'
  <2>1. /\ Continues /\ Len(tasks') = Len(tasks) + 1 /\ \A m \in TaskNumbers : tasks'[m] = tasks[m]
        /\ tasks'[Len(tasks) + 1] = Task("message", c, NoName, FALSE, Len(agents), 1, "waiting")
        /\ trackers' = trackers
    BY <1>2, ReceiveDoes
  <2>2. tasks'[Len(tasks) + 1].events = <<>>
    BY <2>1 DEF Task
  <2>3. TaskNumbers' = TaskNumbers \union {Len(tasks) + 1}
    BY <2>1, TaskTyped DEF TaskNumbers
  <2>. QED  BY <2>1, <2>2, <2>3, LoggedEmpty, LoggedKept
<1>3. ASSUME NEW n \in TaskNumbers, Only(n), trackers' = trackers,
             \/ tasks'[n].events = tasks[n].events
             \/ LoggedLater(tasks', tasks'[n].events, tasks[n].conversation)
      PROVE  Logged'
  <2>1. /\ Continues /\ TaskNumbers' = TaskNumbers /\ \A m \in TaskNumbers \ {n} : tasks'[m] = tasks[m]
        /\ tasks'[n].conversation = tasks[n].conversation
    BY <1>3 DEF Only, Continues, TaskNumbers
  <2>. QED  BY <1>3, <2>1, LoggedKept
<1>4. ASSUME NEW n \in TaskNumbers, Fire(n) PROVE Logged'
  BY <1>3, <1>4, FireDoes
<1>5. ASSUME NEW n \in TaskNumbers, Only(n), trackers' = trackers,
             NEW es \in Fetched(n), NEW e \in EventSet, e.type = "user", e.time = n,
             tasks'[n].events = Append(es, e)
      PROVE  Logged'
  <2>1. LoggedLater(tasks, Append(es, e), tasks[n].conversation)
    BY <1>5, LoggedFetched
  <2>2. Append(es, e) \in Seq(EventSet)
    BY FetchedCases
  <2>3. Continues
    BY <1>5 DEF Only
  <2>4. LoggedLater(tasks', Append(es, e), tasks[n].conversation)
    BY <2>1, <2>2, <2>3, LoggedGrows
  <2>. QED  BY <1>3, <1>5, <2>4
<1>6. ASSUME NEW n \in TaskNumbers, StartMessage(n) PROVE Logged'
  <2>1. Only(n) /\ trackers' = trackers
    BY <1>6, StartMessageDoes
  <2>2. PICK es \in Fetched(n) : tasks'[n].events = Append(es, UserUttered(GREET, n))
    BY <1>6, StartMessageDoes
  <2>3. /\ UserUttered(GREET, n) \in EventSet /\ UserUttered(GREET, n).type = "user"
        /\ UserUttered(GREET, n).time = n
    BY MessageEvents DEF TaskNumbers
  <2>. QED  BY <1>5, <2>1, <2>2, <2>3
<1>7. ASSUME NEW n \in TaskNumbers, StartReminder(n) PROVE Logged'
  <2>1. Only(n) /\ trackers' = trackers
    BY <1>7, StartReminderDoes
  <2>2. PICK es \in Fetched(n) : \/ tasks'[n].events = tasks[n].events
                                 \/ tasks'[n].events = Append(es, External(n))
    BY <1>7, StartReminderDoes
  <2>3. External(n) \in EventSet /\ External(n).type = "user" /\ External(n).time = n
    BY MessageEvents DEF TaskNumbers
  <2>. QED  BY <1>3, <1>5, <2>1, <2>2, <2>3
<1>8. ASSUME NEW n \in TaskNumbers, Act(n) PROVE Logged'
  <2>1. Continues /\ trackers' = trackers
    BY <1>8, ActDoes
  <2>2. PICK result \in Results : Acts(n, result)
    BY <1>8, ActDoes
  <2>3. /\ tasks'[n].events = tasks[n].events \o result
        /\ \A m \in TaskNumbers \ {n} : tasks'[m].events = tasks[m].events
        /\ \A k \in NewTasks : Adds(n, k, result)
        /\ \A i \in 1 .. Len(result) : result[i].type = "reminder" =>
             \E k \in NewTasks : tasks'[k].name = result[i].name
    BY <2>2 DEF Acts, Leaves
  <2>4. \A k \in NewTasks : /\ tasks'[k].type = "reminder" /\ tasks'[k].events = <<>>
                            /\ tasks'[k].conversation = tasks[n].conversation
    BY <2>3 DEF Adds
  <2>. DEFINE es == tasks[n].events
             c == tasks[n].conversation
             top == Len(tasks)
  <2>5. tasks[n] \in TaskSet /\ tasks'[n].conversation = c
    BY <2>1, TaskTyped DEF Continues
  <2>6. /\ es \in Seq(EventSet) /\ result \in Seq(EventSet) /\ tasks' \in Seq(TaskSet)
        /\ \A i \in 1 .. Len(result) : result[i].type # "user"
    BY <2>1, <2>5, ResultEvents DEF TaskSet, Continues
  <2>7. top \in 0 .. Len(tasks') /\ \A p \in 1 .. Len(es) : es[p].type = "user" => es[p].time =< top
    <3>1. Len(tasks) \in Nat /\ Len(tasks') \in Nat /\ Len(tasks') >= Len(tasks)
      BY <2>1, TaskTyped DEF Continues
    <3>. QED  BY <3>1 DEF Logged, LoggedLater
  <2>8. \A k \in NewTasks : k \in 1 .. Len(tasks') /\ k > top
    BY TaskTyped DEF NewTasks, TaskNumbers
  <2>9. LoggedLater(tasks', es, c)
    <3>1. LoggedLater(tasks, es, c)
      BY DEF Logged
    <3>. QED  BY <2>1, <2>6, <3>1, LoggedGrows
  <2>10. \A i \in 1 .. Len(result) : result[i].type = "reminder" =>
           \E k \in 1 .. Len(tasks') : /\ k > top /\ tasks'[k].type = "reminder"
                                       /\ tasks'[k].name = result[i].name /\ tasks'[k].conversation = c
    BY <2>3, <2>4, <2>8
  <2>. HIDE DEF es, c, top
  <2>11. LoggedLater(tasks', es \o result, c)
    BY <2>6, <2>7, <2>9, <2>10, LoggedConcat
  <2>12. ASSUME NEW k \in TaskNumbers'
         PROVE  \/ k \in TaskNumbers /\ tasks'[k].events = tasks[k].events
                \/ LoggedLater(tasks', tasks'[k].events, tasks'[k].conversation)
    <3>1. CASE k = n
      BY <2>3, <2>5, <2>11, <3>1 DEF es, c
    <3>2. CASE k \in TaskNumbers \ {n}
      BY <2>3, <3>2
    <3>3. CASE k \in NewTasks
      BY <2>4, <3>3, LoggedEmpty
    <3>. QED  BY <3>1, <3>2, <3>3 DEF NewTasks
  <2>. QED  BY <2>1, <2>12, LoggedKept
<1>9. ASSUME NEW n \in TaskNumbers, Save(n) PROVE Logged'
  <2>1. \E phase : Over(n, phase)
    BY <1>9, SaveDoes
  <2>2. /\ Continues /\ TaskNumbers' = TaskNumbers
        /\ \A k \in TaskNumbers : tasks'[k].events \in {<<>>, tasks[k].events}
    BY <2>1 DEF Over, Only, TaskNumbers
  <2>3. ASSUME NEW k \in TaskNumbers
        PROVE  /\ LoggedLater(tasks', tasks[k].events, tasks[k].conversation)
               /\ tasks'[k].conversation = tasks[k].conversation
    <3>1. tasks[k] \in TaskSet
      BY TaskTyped
    <3>2. tasks[k].events \in Seq(EventSet)
      BY <3>1 DEF TaskSet
    <3>3. LoggedLater(tasks, tasks[k].events, tasks[k].conversation)
      BY DEF Logged
    <3>. QED  BY <2>2, <3>2, <3>3, LoggedGrows DEF Continues
  <2>4. ASSUME NEW s \in 1 .. MaxAgents, NEW c \in Conversations
        PROVE  LoggedLater(tasks', trackers'[s][c], c)
    <3>1. trackers'[s][c] = IF s = TrackerStoreOf(n) /\ c = tasks[n].conversation
                              THEN tasks[n].events ELSE trackers[s][c]
      BY <1>9, SaveDoes, SavedTyped
    <3>2. trackers[s][c] \in Seq(EventSet) /\ LoggedLater(tasks, trackers[s][c], c)
      BY DEF Typed, TypeOK, Logged
    <3>3. LoggedLater(tasks', trackers[s][c], c)
      BY <2>2, <3>2, LoggedGrows
    <3>. QED  BY <2>3, <3>1, <3>3
  <2>5. ASSUME NEW k \in TaskNumbers' PROVE LoggedLater(tasks', tasks'[k].events, tasks'[k].conversation)
    BY <2>2, <2>3, LoggedEmpty
  <2>. QED  BY <2>4, <2>5 DEF Logged
<1>10. ASSUME NEW n \in TaskNumbers, Fail(n) PROVE Logged'
  <2>1. Only(n) /\ tasks'[n].events = <<>> /\ trackers' = trackers
    BY <1>10, FailDoes DEF Over
  <2>. QED  BY <1>3, <2>1, LoggedEmpty
<1>11. ASSUME ReplaceAgent \/ PullModel PROVE Logged'
  <2>1. UNCHANGED <<tasks, trackers>>
    BY <1>11, AgentsDo
  <2>. QED  BY <2>1 DEF Logged, TaskNumbers
<1>. QED  BY <1>1, <1>2, <1>4, <1>6, <1>7, <1>8, <1>9, <1>10, <1>11 DEF Next, Proceed

-----------------------------------------------------------------------------
(* What is saved continues what was stored.                                 *)

LEMMA BeginsMore ==
  ASSUME NEW s \in Seq(EventSet), NEW t \in Seq(EventSet), Begins(s, t)
  PROVE  /\ \A u \in Seq(EventSet) : Begins(s, t \o u)
         /\ \A e \in EventSet : Begins(s, Append(t, e))
<1>1. Len(s) \in Nat /\ Len(t) \in Nat /\ Len(s) =< Len(t)
  BY DEF Begins
<1>2. ASSUME NEW w \in Seq(EventSet), Len(w) >= Len(t), \A i \in 1 .. Len(t) : w[i] = t[i]
      PROVE  Begins(s, w)
  <2>1. \A i \in 1 .. Len(s) : i \in 1 .. Len(t)
    BY <1>1
  <2>. QED  BY <1>1, <1>2, <2>1 DEF Begins
<1>3. ASSUME NEW u \in Seq(EventSet) PROVE Begins(s, t \o u)
  <2>1. /\ t \o u \in Seq(EventSet) /\ Len(t \o u) >= Len(t)
        /\ \A i \in 1 .. Len(t) : (t \o u)[i] = t[i]
    BY ConcatParts
  <2>. QED  BY <1>2, <2>1
<1>4. ASSUME NEW e \in EventSet PROVE Begins(s, Append(t, e))
  <2>1. /\ Append(t, e) \in Seq(EventSet) /\ Len(Append(t, e)) >= Len(t)
        /\ \A i \in 1 .. Len(t) : Append(t, e)[i] = t[i]
    BY Appended
  <2>. QED  BY <1>2, <2>1
<1>. QED  BY <1>3, <1>4

LEMMA BeginsSelf == \A es \in Seq(EventSet) : Begins(es, es)
BY DEF Begins

LEMMA BeginsPrefix ==
  ASSUME NEW s \in Seq(EventSet), NEW t \in Seq(EventSet), Begins(s, t)
  PROVE  IsPrefix(s, t)
<1>1. Len(s) \in Nat /\ Len(t) \in Nat /\ Len(s) =< Len(t) /\ \A i \in 1 .. Len(s) : t[i] = s[i]
  BY DEF Begins
<1>2. SubSeq(s, 1, Len(s)) = [i \in 1 .. Len(s) |-> s[i]] /\ SubSeq(t, 1, Len(s)) = [i \in 1 .. Len(s) |-> t[i]]
  BY <1>1
<1>3. SubSeq(s, 1, Len(s)) = SubSeq(t, 1, Len(s))
  BY <1>1, <1>2
<1>. QED  BY <1>1, <1>3 DEF IsPrefix

LEMMA FetchedBegins ==
  ASSUME Typed, NEW n \in TaskNumbers, NEW es \in Fetched(n), NEW e \in EventSet
  PROVE  Begins(Events(n), Append(es, e))
<1>1. Events(n) \in Seq(EventSet)
  BY EventsTyped
<1>2. PICK log \in Seq(EventSet) : es = Events(n) \o log
  BY FetchedCases
<1>3. es \in Seq(EventSet)
  BY FetchedCases
<1>. DEFINE old == Events(n)
<1>. HIDE DEF old
<1>4. Begins(old, es)
  BY <1>1, <1>2, BeginsSelf, BeginsMore DEF old
<1>. QED  BY <1>1, <1>3, <1>4, BeginsMore DEF old

\* What a task would find in the tracker store after a step.
LEMMA EventsKept ==
  ASSUME Continues, trackers' = trackers, NEW n \in TaskNumbers
  PROVE  Events(n)' = Events(n)
BY DEF Continues, Events, TrackerStoreOf

LEMMA StoreKept ==
  ASSUME Continues, NEW n \in TaskNumbers
  PROVE  TrackerStoreOf(n)' = TrackerStoreOf(n)
BY DEF Continues, TrackerStoreOf

LEMMA EventsSaved ==
  ASSUME Typed, NEW n \in TaskNumbers, Save(n), NEW k \in TaskNumbers
  PROVE  Events(k)' = IF /\ TrackerStoreOf(k) = TrackerStoreOf(n)
                         /\ tasks[k].conversation = tasks[n].conversation
                        THEN tasks[n].events ELSE Events(k)
<1>1. Continues
  BY SaveDoes DEF Over, Only
<1>2. /\ TrackerStoreOf(k)' = TrackerStoreOf(k)
      /\ tasks'[k].conversation = tasks[k].conversation
  BY <1>1, StoreKept DEF Continues
<1>3. TrackerStoreOf(k) \in 1 .. MaxAgents /\ tasks[k].conversation \in Conversations
  BY EventsTyped
<1>4. \A s \in 1 .. MaxAgents, c \in Conversations :
        trackers'[s][c] = IF s = TrackerStoreOf(n) /\ c = tasks[n].conversation
                            THEN tasks[n].events ELSE trackers[s][c]
  BY SaveDoes, SavedTyped
<1>. QED  BY <1>2, <1>3, <1>4 DEF Events

LEMMA CurrentKept ==
  ASSUME Typed, Steady, Onward, Current,
         \A k \in Working' :
           k \in TaskNumbers /\ (\/ k \in Working /\ Events(k)' = Events(k) /\ tasks'[k].events = tasks[k].events
                                 \/ Begins(Events(k)', tasks'[k].events))
  PROVE  Current'
<1>. SUFFICES ASSUME NEW k \in Working', ~OwnLocks(tasks[k].conversation)'
              PROVE  Begins(Events(k)', tasks'[k].events)
  BY DEF Current
<1>1. k \in TaskNumbers
  OBVIOUS
<1>2. ~OwnLocks(tasks[k].conversation)
  BY <1>1, OwnLocksKept
<1>. QED  BY <1>1, <1>2 DEF Current

LEMMA OnlyCurrent ==
  ASSUME Typed, Steady, Onward, Current, NEW n \in TaskNumbers, Only(n), trackers' = trackers,
         n \in Working' => Begins(Events(n), tasks'[n].events)
  PROVE  Current'
<1>1. /\ Continues /\ TaskNumbers' = TaskNumbers /\ \A m \in TaskNumbers \ {n} : tasks'[m] = tasks[m]
  BY DEF Only, TaskNumbers
<1>2. ASSUME NEW k \in Working'
      PROVE  k \in TaskNumbers /\ (\/ k \in Working /\ Events(k)' = Events(k) /\ tasks'[k].events = tasks[k].events
                                   \/ Begins(Events(k)', tasks'[k].events))
  <2>1. k \in TaskNumbers
    BY <1>1 DEF Working
  <2>2. Events(k)' = Events(k)
    BY <1>1, <2>1, EventsKept
  <2>. QED  BY <1>1, <2>1, <2>2 DEF Working
<1>. QED  BY <1>2, CurrentKept

LEMMA CurrentNext ==
  ASSUME Typed, OneStore, Exclusion, Current, [Next]_vars
  PROVE  Current'
<1>1. Steady /\ Onward
  BY NextSteady, NextOnward
<1>2. ASSUME UNCHANGED <<shared, tasks, trackers>> PROVE Current'
  <2>1. \A n \in Working' : n \in Working /\ Events(n)' = Events(n) /\ n \in TaskNumbers
    BY <1>2 DEF Events, TrackerStoreOf, Working, TaskNumbers
  <2>. QED  BY <1>1, <1>2, <2>1, CurrentKept
<1>3. CASE UNCHANGED vars
  BY <1>2, <1>3 DEF vars
<1>4. ASSUME NEW c \in Conversations, Receive(c) PROVE Current'
  <2>1. /\ Continues /\ Len(tasks') = Len(tasks) + 1 /\ \A m \in TaskNumbers : tasks'[m] = tasks[m]
        /\ tasks'[Len(tasks) + 1] = Task("message", c, NoName, FALSE, Len(agents), 1, "waiting")
        /\ trackers' = trackers
    BY <1>4, ReceiveDoes
  <2>2. tasks'[Len(tasks) + 1].phase = "waiting"
    BY <2>1 DEF Task
  <2>3. TaskNumbers' = TaskNumbers \union {Len(tasks) + 1}
    BY <2>1, TaskTyped DEF TaskNumbers
  <2>4. \A k \in Working' : k \in TaskNumbers /\ k \in Working /\ tasks'[k].events = tasks[k].events
    BY <2>1, <2>2, <2>3 DEF Working
  <2>. QED  BY <1>1, <2>1, <2>4, EventsKept, CurrentKept
<1>5. ASSUME NEW n \in TaskNumbers, Fire(n) PROVE Current'
  <2>1. Only(n) /\ trackers' = trackers /\ n \notin Working'
    BY <1>5, FireDoes DEF Working
  <2>. QED  BY <1>1, <2>1, OnlyCurrent
<1>6. ASSUME NEW n \in TaskNumbers, StartMessage(n) PROVE Current'
  <2>1. Only(n) /\ trackers' = trackers
    BY <1>6, StartMessageDoes
  <2>2. PICK es \in Fetched(n) : tasks'[n].events = Append(es, UserUttered(GREET, n))
    BY <1>6, StartMessageDoes
  <2>3. UserUttered(GREET, n) \in EventSet
    BY MessageEvents DEF TaskNumbers
  <2>. QED  BY <1>1, <2>1, <2>2, <2>3, FetchedBegins, OnlyCurrent
<1>7. ASSUME NEW n \in TaskNumbers, StartReminder(n) PROVE Current'
  <2>1. Only(n) /\ trackers' = trackers
    BY <1>7, StartReminderDoes
  <2>2. PICK es \in Fetched(n) : \/ tasks'[n].phase = "outdated"
                                 \/ tasks'[n].events = Append(es, External(n))
    BY <1>7, StartReminderDoes
  <2>3. External(n) \in EventSet
    BY MessageEvents DEF TaskNumbers
  <2>4. n \in Working' => Begins(Events(n), tasks'[n].events)
    BY <2>2, <2>3, FetchedBegins DEF Working
  <2>. QED  BY <1>1, <2>1, <2>4, OnlyCurrent
<1>8. ASSUME NEW n \in TaskNumbers, Act(n) PROVE Current'
  <2>1. Continues /\ trackers' = trackers /\ tasks[n].phase = "working"
    BY <1>8, ActDoes
  <2>2. PICK result \in Results : Acts(n, result)
    BY <1>8, ActDoes
  <2>3. /\ tasks'[n].events = tasks[n].events \o result
        /\ \A m \in TaskNumbers \ {n} : Leaves(m)
        /\ \A k \in NewTasks : Adds(n, k, result)
    BY <2>2 DEF Acts
  <2>4. ASSUME NEW k \in Working'
        PROVE  k \in TaskNumbers /\ k \in Working /\ (k # n => tasks'[k].events = tasks[k].events)
    <3>1. k \notin NewTasks
      BY <2>3 DEF Adds, Working
    <3>2. k \in TaskNumbers /\ tasks'[k].phase \in {"working", "acted"}
      BY <3>1 DEF NewTasks, Working
    <3>. QED  BY <2>1, <2>3, <3>2 DEF Leaves, Working
  <2>5. ~OwnLocks(tasks[n].conversation) => Begins(Events(n), tasks'[n].events)
    <3>1. tasks[n] \in TaskSet /\ result \in Seq(EventSet) /\ Events(n) \in Seq(EventSet)
      BY TaskTyped, ResultEvents, EventsTyped
    <3>. DEFINE es == tasks[n].events
               old == Events(n)
    <3>2. es \in Seq(EventSet)
      BY <3>1 DEF TaskSet
    <3>3. ~OwnLocks(tasks[n].conversation) => Begins(old, es)
      BY <2>1 DEF Current, Working
    <3>. HIDE DEF es, old
    <3>4. ~OwnLocks(tasks[n].conversation) => Begins(old, es \o result)
      BY <3>1, <3>2, <3>3, BeginsMore DEF old
    <3>. QED  BY <2>3, <3>4 DEF es, old
  <2>6. \A k \in TaskNumbers : Events(k)' = Events(k)
    BY <2>1, EventsKept
  <2>7. ASSUME NEW k \in Working', ~OwnLocks(tasks[k].conversation)'
        PROVE  Begins(Events(k)', tasks'[k].events)
    <3>1. ~OwnLocks(tasks[k].conversation)
      BY <1>1, <2>4, <2>7, OwnLocksKept
    <3>. QED  BY <2>4, <2>5, <2>6, <2>7, <3>1 DEF Current
  <2>. QED  BY <2>7 DEF Current
<1>9. ASSUME NEW n \in TaskNumbers, Save(n) PROVE Current'
  <2>1. \E phase : Over(n, phase)
    BY <1>9, SaveDoes
  <2>2. /\ TaskNumbers' = TaskNumbers /\ \A m \in TaskNumbers \ {n} : tasks'[m] = tasks[m]
        /\ n \in Working
    BY <2>1 DEF Over, Only, TaskNumbers
  <2>3. n \notin Working'
    <3>1. tasks'[n].phase \in {"done", "restarted"}
      BY <1>9, SaveDoes DEF Over
    <3>. QED  BY <3>1 DEF Working
  <2>4. ASSUME NEW k \in Working' PROVE k \in TaskNumbers \ {n} /\ k \in Working
    BY <2>2, <2>3 DEF Working
  <2>5. ASSUME NEW k \in Working', ~OwnLocks(tasks[k].conversation)'
        PROVE  Begins(Events(k)', tasks'[k].events)
    <3>1. ~OwnLocks(tasks[k].conversation)
      BY <1>1, <2>2, <2>4, <2>5, OwnLocksKept
    <3>2. tasks[k].conversation # tasks[n].conversation
      BY <2>2, <2>4, <3>1, AloneUnlessOwn
    <3>3. Events(k)' = Events(k)
      BY <1>9, <2>4, <3>2, EventsSaved
    <3>. QED  BY <2>2, <2>4, <3>1, <3>3 DEF Current
  <2>. QED  BY <2>5 DEF Current
<1>10. ASSUME NEW n \in TaskNumbers, Fail(n) PROVE Current'
  <2>1. Only(n) /\ trackers' = trackers /\ n \notin Working'
    BY <1>10, FailDoes DEF Over, Working
  <2>. QED  BY <1>1, <2>1, OnlyCurrent
<1>11. ASSUME ReplaceAgent \/ PullModel PROVE Current'
  BY <1>2, <1>11, AgentsDo
<1>. QED  BY <1>3, <1>4, <1>5, <1>6, <1>7, <1>8, <1>9, <1>10, <1>11 DEF Next, Proceed

\* Only a turn that is saved is done, or restarted the conversation.
LEMMA Saves ==
  ASSUME Typed, [Next]_vars, NEW n \in TaskNumbers,
         tasks[n].phase = "acted", tasks'[n].phase \in {"done", "restarted"}
  PROVE  Save(n)
<1>1. tasks' # tasks
  OBVIOUS
<1>2. ASSUME NEW c \in Conversations, Receive(c) PROVE FALSE
  BY <1>2, ReceiveDoes
<1>3. ASSUME NEW k \in TaskNumbers, Only(k) PROVE k = n
  BY <1>3 DEF Only
<1>4. ASSUME NEW k \in TaskNumbers, Fire(k) \/ StartMessage(k) \/ StartReminder(k) PROVE FALSE
  <2>1. Only(k) /\ tasks[k].phase \in {"scheduled", "waiting"}
    BY <1>4, FireDoes, StartMessageDoes, StartReminderDoes DEF Scheduled
  <2>. QED  BY <1>3, <2>1
<1>5. ASSUME NEW k \in TaskNumbers, Act(k) PROVE FALSE
  <2>1. PICK result \in Results : Acts(k, result)
    BY <1>5, ActDoes
  <2>2. tasks'[k].phase = "acted" /\ \A m \in TaskNumbers \ {k} : Leaves(m)
    BY <2>1 DEF Acts
  <2>. QED  BY <2>2 DEF Leaves
<1>6. ASSUME NEW k \in TaskNumbers, Save(k) PROVE k = n
  BY <1>3, <1>6, SaveDoes DEF Over
<1>7. ASSUME NEW k \in TaskNumbers, Fail(k) PROVE FALSE
  <2>1. Only(k) /\ tasks'[k].phase = "failed"
    BY <1>7, FailDoes DEF Over
  <2>. QED  BY <1>3, <2>1
<1>8. ~ReplaceAgent /\ ~PullModel
  BY <1>1 DEF ReplaceAgent, PullModel
<1>. QED  BY <1>1, <1>2, <1>4, <1>5, <1>6, <1>7, <1>8 DEF Next, Proceed, vars

\* Unless a reminder of the conversation ran under locks of a processor's own,
\* no turn that is saved overwrites what another saved.
THEOREM TurnsKeptAlways == Spec => TurnsKept
<1>. DEFINE Inv == Typed /\ OneStore /\ Exclusion /\ Current
<1>1. Init => Inv
  <2>1. Init => Current
    BY DEF Init, Current, Working, TaskNumbers
  <2>. QED  BY <2>1, TypedInit, AloneInit
<1>2. Inv /\ [Next]_vars => Inv'
  BY TypedNext, AloneNext, CurrentNext
<1>3. Inv /\ [Next]_vars =>
        [\A n \in TaskNumbers :
           /\ tasks[n].phase = "acted" /\ tasks'[n].phase \in {"done", "restarted"}
           /\ ~OwnLocks(tasks[n].conversation)
           => IsPrefix(Events(n), tasks[n].events)]_vars
  <2>. SUFFICES ASSUME Inv, [Next]_vars, NEW n \in TaskNumbers,
                       tasks[n].phase = "acted", tasks'[n].phase \in {"done", "restarted"},
                       ~OwnLocks(tasks[n].conversation)
                PROVE  IsPrefix(Events(n), tasks[n].events)
    OBVIOUS
  <2>1. Begins(Events(n), tasks[n].events)
    BY DEF Current, Working
  <2>2. Events(n) \in Seq(EventSet) /\ tasks[n].events \in Seq(EventSet)
    <3>1. tasks[n] \in TaskSet
      BY TaskTyped
    <3>. QED  BY <3>1, EventsTyped DEF TaskSet
  <2>. QED  BY <2>1, <2>2, BeginsPrefix
<1>. QED  BY <1>1, <1>2, <1>3, PTL DEF Spec, TurnsKept

-----------------------------------------------------------------------------
(* A message stays in the log of its conversation.                          *)

LEMMA SaidStays ==
  ASSUME NEW s \in Seq(EventSet), NEW t \in Seq(EventSet), Begins(s, t), NEW m
  PROVE  /\ Said(m, s) => Said(m, t)
         /\ RestartedSince(m, s) => RestartedSince(m, t)
<1>1. \A i \in 1 .. Len(s) : i \in 1 .. Len(t) /\ t[i] = s[i]
  BY DEF Begins
<1>2. Said(m, s) => Said(m, t)
  BY <1>1 DEF Said
<1>3. RestartedSince(m, s) => RestartedSince(m, t)
  BY <1>1 DEF RestartedSince
<1>. QED  BY <1>2, <1>3

LEMMA SaidLast ==
  ASSUME NEW es \in Seq(EventSet), NEW e \in EventSet, e.type = "user"
  PROVE  Said(e.time, Append(es, e))
<1>1. /\ Len(Append(es, e)) = Len(es) + 1 /\ Len(es) \in Nat /\ Append(es, e)[Len(es) + 1] = e
  BY Appended
<1>2. Len(es) + 1 \in 1 .. Len(Append(es, e))
  BY <1>1
<1>. QED  BY <1>1, <1>2 DEF Said

LEMMA MessageFrame ==
  ASSUME Typed, Steady, NEW m \in Of("message"), MessageKept(m),
         m \in Working' => Said(m, tasks'[m].events),
         OneLockStore' /\ tasks'[m].phase \in {"done", "restarted"} =>
           /\ tasks'[m].phase = tasks[m].phase
           /\ Begins(Events(m), Events(m)') /\ Events(m)' \in Seq(EventSet)
  PROVE  MessageKept(m)'
<1>1. OneLockStore' => OneLockStore
  BY OneLockStoreKept
<1>2. Events(m) \in Seq(EventSet)
  BY EventsTyped DEF Of
<1>3. ASSUME OneLockStore', tasks'[m].phase \in {"done", "restarted"} PROVE Said(m, Events(m)')
  <2>1. Said(m, Events(m)) /\ Begins(Events(m), Events(m)') /\ Events(m)' \in Seq(EventSet)
    BY <1>1, <1>3 DEF MessageKept
  <2>. QED  BY <1>2, <2>1, SaidStays
<1>4. ASSUME OneLockStore', tasks'[m].phase = "restarted" PROVE RestartedSince(m, Events(m)')
  <2>1. RestartedSince(m, Events(m)) /\ Begins(Events(m), Events(m)') /\ Events(m)' \in Seq(EventSet)
    BY <1>1, <1>4 DEF MessageKept
  <2>. QED  BY <1>2, <2>1, SaidStays
<1>. QED  BY <1>3, <1>4 DEF MessageKept

LEMMA OnlyMessages ==
  ASSUME Typed, Steady, MessagesKept, NEW n \in TaskNumbers, Only(n), trackers' = trackers,
         tasks[n].type = "message" =>
           /\ n \in Working' => Said(n, tasks'[n].events)
           /\ tasks'[n].phase \notin {"done", "restarted"}
  PROVE  MessagesKept'
<1>1. /\ Continues /\ TaskNumbers' = TaskNumbers /\ \A m \in TaskNumbers \ {n} : tasks'[m] = tasks[m]
  BY DEF Only, TaskNumbers
<1>. SUFFICES ASSUME NEW m \in Of("message")' PROVE MessageKept(m)'
  BY DEF MessagesKept
<1>2. m \in Of("message") /\ m \in TaskNumbers /\ tasks[m].type = "message"
  BY <1>1 DEF Of, Continues
<1>3. MessageKept(m)
  BY <1>2 DEF MessagesKept
<1>4. Events(m)' = Events(m) /\ Events(m) \in Seq(EventSet)
  BY <1>1, <1>2, EventsKept, EventsTyped
<1>5. Begins(Events(m), Events(m)')
  BY <1>4, BeginsSelf
<1>6. CASE m = n
  BY <1>2, <1>3, <1>6, MessageFrame
<1>7. CASE m # n
  <2>1. m \in Working' => Said(m, tasks'[m].events)
    BY <1>1, <1>2, <1>3, <1>7 DEF MessageKept, Working
  <2>2. tasks'[m].phase = tasks[m].phase
    BY <1>1, <1>2, <1>7
  <2>. QED  BY <1>2, <1>3, <1>4, <1>5, <2>1, <2>2, MessageFrame
<1>. QED  BY <1>6, <1>7

LEMMA MessagesInit == ASSUME Init PROVE MessagesKept
<1>1. Len(tasks) = 0
  BY DEF Init
<1>. QED  BY <1>1 DEF MessagesKept, Of, TaskNumbers

LEMMA MessagesNext ==
  ASSUME Typed, OneStore, Exclusion, Current, MessagesKept, [Next]_vars
  PROVE  MessagesKept'
<1>1. Steady /\ WorkAlone
  BY NextSteady, AloneNow
<1>2. ASSUME NEW m \in Of("message"), trackers' = trackers,
             tasks'[m].phase = tasks[m].phase, tasks'[m].events = tasks[m].events
      PROVE  MessageKept(m)'
  <2>1. m \in TaskNumbers /\ MessageKept(m) /\ Continues
    BY <1>1 DEF Of, MessagesKept, Steady
  <2>2. Events(m)' = Events(m) /\ Events(m) \in Seq(EventSet)
    BY <1>2, <2>1, EventsKept, EventsTyped
  <2>3. Begins(Events(m), Events(m)')
    BY <2>2, BeginsSelf
  <2>4. m \in Working' => Said(m, tasks'[m].events)
    BY <1>2, <2>1 DEF MessageKept, Working
  <2>. QED  BY <1>1, <1>2, <2>1, <2>2, <2>3, <2>4, MessageFrame
<1>3. ASSUME UNCHANGED <<tasks, trackers>> PROVE MessagesKept'
  <2>1. Of("message")' = Of("message")
    BY <1>3 DEF Of, TaskNumbers
  <2>. QED  BY <1>2, <1>3, <2>1 DEF MessagesKept
<1>4. CASE UNCHANGED vars
  BY <1>3, <1>4 DEF vars
<1>5. ASSUME NEW c \in Conversations, Receive(c) PROVE MessagesKept'
  <2>1. /\ Continues /\ Len(tasks') = Len(tasks) + 1 /\ \A m \in TaskNumbers : tasks'[m] = tasks[m]
        /\ tasks'[Len(tasks) + 1] = Task("message", c, NoName, FALSE, Len(agents), 1, "waiting")
        /\ trackers' = trackers
    BY <1>5, ReceiveDoes
  <2>2. tasks'[Len(tasks) + 1].phase = "waiting"
    BY <2>1 DEF Task
  <2>3. TaskNumbers' = TaskNumbers \union {Len(tasks) + 1}
    BY <2>1, TaskTyped DEF TaskNumbers
  <2>4. ASSUME NEW m \in Of("message")' PROVE MessageKept(m)'
    <3>1. CASE m = Len(tasks) + 1
      BY <2>2, <3>1 DEF MessageKept, Working
    <3>2. CASE m \in TaskNumbers
      <4>1. m \in Of("message")
        BY <2>1, <3>2 DEF Of
      <4>. QED  BY <1>2, <2>1, <3>2, <4>1
    <3>. QED  BY <2>3, <3>1, <3>2 DEF Of
  <2>. QED  BY <2>4 DEF MessagesKept
<1>6. ASSUME NEW n \in TaskNumbers, Fire(n) PROVE MessagesKept'
  <2>1. Only(n) /\ trackers' = trackers /\ tasks[n].type = "reminder"
    BY <1>6, FireDoes DEF Scheduled, Of
  <2>. QED  BY <1>1, <2>1, OnlyMessages
<1>7. ASSUME NEW n \in TaskNumbers, StartMessage(n) PROVE MessagesKept'
  <2>1. Only(n) /\ trackers' = trackers /\ tasks'[n].phase = "working"
    BY <1>7, StartMessageDoes
  <2>2. PICK es \in Fetched(n) : tasks'[n].events = Append(es, UserUttered(GREET, n))
    BY <1>7, StartMessageDoes
  <2>3. /\ UserUttered(GREET, n) \in EventSet /\ UserUttered(GREET, n).type = "user"
        /\ UserUttered(GREET, n).time = n
    BY MessageEvents DEF TaskNumbers
  <2>4. es \in Seq(EventSet)
    BY FetchedCases
  <2>. DEFINE e == UserUttered(GREET, n)
  <2>. HIDE DEF e
  <2>5. Said(e.time, Append(es, e))
    BY <2>3, <2>4, SaidLast DEF e
  <2>6. Said(n, tasks'[n].events)
    BY <2>2, <2>3, <2>5 DEF e
  <2>. QED  BY <1>1, <2>1, <2>6, OnlyMessages
<1>8. ASSUME NEW n \in TaskNumbers, StartReminder(n) PROVE MessagesKept'
  <2>1. Only(n) /\ trackers' = trackers /\ tasks[n].type = "reminder"
    BY <1>8, StartReminderDoes
  <2>. QED  BY <1>1, <2>1, OnlyMessages
<1>9. ASSUME NEW n \in TaskNumbers, Act(n) PROVE MessagesKept'
  <2>1. Continues /\ trackers' = trackers /\ tasks[n].phase = "working"
    BY <1>9, ActDoes
  <2>2. PICK result \in Results : Acts(n, result)
    BY <1>9, ActDoes
  <2>3. /\ tasks'[n].events = tasks[n].events \o result /\ tasks'[n].phase = "acted"
        /\ \A m \in TaskNumbers \ {n} : Leaves(m)
        /\ \A k \in NewTasks : Adds(n, k, result)
    BY <2>2 DEF Acts
  <2>4. ASSUME NEW m \in Of("message")' PROVE m \in Of("message") /\ m \in TaskNumbers
    <3>1. m \in TaskNumbers' /\ tasks'[m].type = "message"
      BY DEF Of
    <3>2. m \in TaskNumbers
      BY <2>3, <3>1 DEF Adds, NewTasks
    <3>. QED  BY <2>1, <3>1, <3>2 DEF Of, Continues
  <2>5. ASSUME n \in Of("message") PROVE MessageKept(n)'
    <3>1. MessageKept(n) /\ n \in Working
      BY <2>1, <2>5 DEF MessagesKept, Working
    <3>2. tasks[n] \in TaskSet /\ result \in Seq(EventSet)
      BY TaskTyped, ResultEvents
    <3>. DEFINE es == tasks[n].events
    <3>3. es \in Seq(EventSet) /\ Said(n, es)
      BY <3>1, <3>2 DEF TaskSet, MessageKept
    <3>. HIDE DEF es
    <3>4. Begins(es, es \o result) /\ es \o result \in Seq(EventSet)
      BY <3>2, <3>3, BeginsSelf, BeginsMore, ConcatParts
    <3>5. Said(n, es \o result)
      BY <3>3, <3>4, SaidStays
    <3>6. Said(n, tasks'[n].events) /\ tasks'[n].phase \notin {"done", "restarted"}
      BY <2>3, <3>5 DEF es
    <3>. QED  BY <1>1, <2>5, <3>1, <3>6, MessageFrame
  <2>6. ASSUME NEW m \in Of("message"), m # n PROVE MessageKept(m)'
    <3>1. Leaves(m) /\ m \in TaskNumbers /\ MessageKept(m)
      BY <2>3, <2>6 DEF Of, MessagesKept
    <3>2. CASE tasks'[m].phase = tasks[m].phase
      BY <1>2, <2>1, <3>1, <3>2 DEF Leaves
    <3>3. CASE tasks'[m].phase \in {"replaced", "cancelled"}
      BY <3>3 DEF MessageKept, Working
    <3>. QED  BY <3>1, <3>2, <3>3 DEF Leaves
  <2>. QED  BY <2>4, <2>5, <2>6 DEF MessagesKept
<1>10. ASSUME NEW n \in TaskNumbers, Save(n) PROVE MessagesKept'
  <2>. DEFINE es == tasks[n].events
  <2>1. /\ Over(n, IF Last(es) = Restarted THEN "restarted" ELSE "done")
        /\ n \in Working
    BY <1>10, SaveDoes DEF Over
  <2>2. /\ TaskNumbers' = TaskNumbers /\ \A m \in TaskNumbers \ {n} : tasks'[m] = tasks[m]
        /\ Continues /\ n \notin Working'
        /\ tasks'[n].phase = IF Last(es) = Restarted THEN "restarted" ELSE "done"
    BY <2>1 DEF Over, Only, TaskNumbers, Working
  <2>3. es \in Seq(EventSet)
    <3>1. tasks[n] \in TaskSet
      BY TaskTyped
    <3>. QED  BY <3>1 DEF TaskSet
  <2>4. ASSUME n \in Of("message") PROVE MessageKept(n)'
    <3>1. Said(n, es)
      BY <2>1, <2>4 DEF MessagesKept, MessageKept
    <3>2. Events(n)' = es
      BY <1>10, EventsSaved
    <3>3. ASSUME tasks'[n].phase = "restarted" PROVE RestartedSince(n, es)
      <4>1. es[Len(es)].type = "restart"
        BY <2>2, <3>3 DEF Last, Restarted, Event
      <4>2. PICK p \in 1 .. Len(es) : es[p].type = "user" /\ es[p].time = n
        BY <3>1 DEF Said
      <4>3. p # Len(es) /\ Len(es) \in Nat
        BY <2>3, <4>1, <4>2
      <4>4. Len(es) \in 1 .. Len(es) /\ p < Len(es)
        BY <4>3
      <4>. QED  BY <4>1, <4>2, <4>4 DEF RestartedSince
    <3>. QED  BY <2>2, <3>1, <3>2, <3>3 DEF MessageKept
  <2>5. ASSUME NEW m \in Of("message"), m # n PROVE MessageKept(m)'
    <3>1. m \in TaskNumbers /\ MessageKept(m) /\ tasks'[m] = tasks[m]
      BY <2>2, <2>5 DEF Of, MessagesKept
    <3>2. Events(m) \in Seq(EventSet)
      BY <3>1, EventsTyped
    <3>3. OneLockStore' => Begins(Events(m), Events(m)') /\ Events(m)' \in Seq(EventSet)
      <4>1. CASE /\ TrackerStoreOf(m) = TrackerStoreOf(n)
                 /\ tasks[m].conversation = tasks[n].conversation
        <5>1. Events(m)' = es /\ Events(m) = Events(n)
          BY <1>10, <3>1, <4>1, EventsSaved DEF Events
        <5>2. OneLockStore' => Begins(Events(n), es)
          BY <1>1, <2>1, OneLockStoreKept, OwnLocksOne DEF Current
        <5>. QED  BY <2>3, <5>1, <5>2
      <4>2. CASE ~(/\ TrackerStoreOf(m) = TrackerStoreOf(n)
                   /\ tasks[m].conversation = tasks[n].conversation)
        <5>1. Events(m)' = Events(m)
          BY <1>10, <3>1, <4>2, EventsSaved
        <5>. QED  BY <3>2, <5>1, BeginsSelf
      <4>. QED  BY <4>1, <4>2
    <3>4. m \in Working' => Said(m, tasks'[m].events)
      BY <3>1 DEF MessageKept, Working
    <3>. QED  BY <1>1, <3>1, <3>3, <3>4, MessageFrame
  <2>6. \A m \in Of("message")' : m \in Of("message")
    BY <2>2 DEF Of, Continues
  <2>. QED  BY <2>4, <2>5, <2>6 DEF MessagesKept
<1>11. ASSUME NEW n \in TaskNumbers, Fail(n) PROVE MessagesKept'
  <2>1. Only(n) /\ trackers' = trackers /\ tasks'[n].phase = "failed"
    BY <1>11, FailDoes DEF Over
  <2>2. n \notin Working'
    BY <2>1 DEF Working
  <2>. QED  BY <1>1, <2>1, <2>2, OnlyMessages
<1>12. ASSUME ReplaceAgent \/ PullModel PROVE MessagesKept'
  BY <1>3, <1>12, AgentsDo
<1>. QED  BY <1>4, <1>5, <1>6, <1>7, <1>8, <1>9, <1>10, <1>11, <1>12 DEF Next, Proceed

-----------------------------------------------------------------------------
(* Reminders that come too late.                                            *)

\* In the log a task starts with, a reminder that follows a message has a task
\* that came after the message.
LEMMA FollowingSupersedes ==
  ASSUME Typed, Logged, NEW n \in Of("reminder"), ~Superseded(n), NEW es \in Fetched(n),
         NEW p \in 1 .. Len(Events(n)), Events(n)[p].type = "user", Events(n)[p].time > n
  PROVE  /\ p \in 1 .. Len(es) /\ es[p] = Events(n)[p]
         /\ \A r \in 1 .. Len(Events(n)) : r \in 1 .. Len(es) /\ es[r] = Events(n)[r]
         /\ \A q \in p .. Len(es) : ~(es[q].type = "reminder" /\ es[q].name = tasks[n].name)
<1>. DEFINE old == Events(n)
            c == tasks[n].conversation
<1>1. old \in Seq(EventSet) /\ TrackerStoreOf(n) \in 1 .. MaxAgents /\ c \in Conversations /\ n \in TaskNumbers
  BY EventsTyped DEF Of
<1>2. PICK log \in Seq(EventSet) :
        /\ es = old \o log
        /\ \A i \in 1 .. Len(log) : log[i].type \notin {"user", "reminder", "restart"}
  BY <1>1, FetchedCases
<1>3. LoggedLater(tasks, old, c)
  BY <1>1 DEF Logged, Events
<1>4. p \in 1 .. Len(old) /\ old[p].type = "user" /\ old[p].time > n
  OBVIOUS
<1>. HIDE DEF old, c
<1>5. /\ Len(es) = Len(old) + Len(log) /\ Len(old) \in Nat /\ Len(log) \in Nat
      /\ \A i \in 1 .. Len(old) : es[i] = old[i]
      /\ \A i \in 1 .. Len(log) : es[Len(old) + i] = log[i]
  BY <1>1, <1>2, ConcatParts
<1>6. \A r \in 1 .. Len(old) : r \in 1 .. Len(es) /\ es[r] = old[r]
  BY <1>5
<1>7. ASSUME NEW q \in p .. Len(es), es[q].type = "reminder", es[q].name = tasks[n].name
      PROVE  FALSE
  <2>1. q \in 1 .. Len(old)
    <3>. SUFFICES ASSUME q \notin 1 .. Len(old) PROVE FALSE
      OBVIOUS
    <3>1. q - Len(old) \in 1 .. Len(log) /\ q = Len(old) + (q - Len(old))
      BY <1>4, <1>5
    <3>2. es[q] = log[q - Len(old)]
      BY <1>5, <3>1
    <3>. QED  BY <1>2, <1>7, <3>1, <3>2
  <2>2. q \in p .. Len(old) /\ old[q].type = "reminder" /\ old[q].name = tasks[n].name
    BY <1>4, <1>6, <1>7, <2>1
  <2>3. PICK k \in 1 .. Len(tasks) : /\ k > old[p].time /\ tasks[k].type = "reminder"
                                    /\ tasks[k].name = tasks[n].name /\ tasks[k].conversation = c
    BY <1>3, <1>4, <2>2 DEF LoggedLater
  <2>4. k > n
    <3>1. old[p] \in EventSet
      BY <1>1, <1>4
    <3>2. old[p].time \in Nat /\ n \in Nat /\ k \in Nat
      BY <1>1, <3>1 DEF EventSet, TaskNumbers
    <3>. QED  BY <1>4, <2>3, <3>2
  <2>. QED  BY <2>3, <2>4 DEF Superseded, Of, TaskNumbers, c
<1>. QED  BY <1>4, <1>6, <1>7 DEF old

LEMMA LateIsOutdated ==
  ASSUME Typed, OneLockStore, Logged, MessagesKept, NEW n \in Of("reminder"), ~Superseded(n),
         NEW es \in Fetched(n), NEW m \in Of("message"), m > n,
         tasks[m].conversation = tasks[n].conversation, TrackerStoreOf(m) = TrackerStoreOf(n),
         tasks[m].phase \in {"restarted"} \union IF tasks[n].kill THEN {"done"} ELSE {}
  PROVE  Outdated(tasks[n], es)
<1>1. Events(m) = Events(n) /\ MessageKept(m)
  BY DEF Events, MessagesKept
<1>2. es \in Seq(EventSet)
  BY FetchedCases DEF Of
<1>3. CASE tasks[m].phase = "restarted"
  <2>1. PICK p, r \in 1 .. Len(Events(n)) : /\ Events(n)[p].type = "user" /\ Events(n)[p].time = m
                                           /\ p < r /\ Events(n)[r].type = "restart"
    BY <1>1, <1>3 DEF MessageKept, RestartedSince
  <2>2. /\ r \in 1 .. Len(es) /\ es[r] = Events(n)[r]
        /\ \A q \in p .. Len(es) : ~(es[q].type = "reminder" /\ es[q].name = tasks[n].name)
    BY <2>1, FollowingSupersedes
  <2>3. \A q \in r .. Len(es) : q \in p .. Len(es)
    BY <2>1
  <2>4. ~StillValid(es, tasks[n].name)
    BY <1>2, <2>1, <2>2, <2>3, RestartOutdates
  <2>. QED  BY <2>4 DEF Outdated
<1>4. CASE tasks[n].kill /\ tasks[m].phase = "done"
  <2>1. PICK p \in 1 .. Len(Events(n)) : Events(n)[p].type = "user" /\ Events(n)[p].time = m
    BY <1>1, <1>4 DEF MessageKept, Said
  <2>2. /\ p \in 1 .. Len(es) /\ es[p] = Events(n)[p]
        /\ \A q \in p .. Len(es) : ~(es[q].type = "reminder" /\ es[q].name = tasks[n].name)
    BY <2>1, FollowingSupersedes
  <2>3. HasMessageAfter(es, tasks[n].name)
    BY <1>2, <2>1, <2>2, MessageOutdates
  <2>. QED  BY <1>4, <2>3 DEF Outdated
<1>. QED  BY <1>3, <1>4

\* Only handle_reminder makes a reminder that waits work.
LEMMA Triggers ==
  ASSUME Typed, [Next]_vars, NEW n \in Of("reminder"),
         tasks[n].phase = "waiting", tasks'[n].phase = "working"
  PROVE  StartReminder(n)
<1>1. n \in TaskNumbers /\ tasks[n].type = "reminder"
  BY DEF Of
<1>2. tasks' # tasks
  OBVIOUS
<1>3. ASSUME NEW c \in Conversations, Receive(c) PROVE FALSE
  BY <1>1, <1>3, ReceiveDoes
<1>4. ASSUME NEW k \in TaskNumbers, Only(k) PROVE k = n
  BY <1>1, <1>4 DEF Only
<1>5. ASSUME NEW k \in TaskNumbers, Fire(k) PROVE FALSE
  <2>1. Only(k) /\ tasks'[k].phase \in {"waiting", "skipped"}
    BY <1>5, FireDoes
  <2>. QED  BY <1>4, <2>1
<1>6. ASSUME NEW k \in TaskNumbers, StartMessage(k) PROVE FALSE
  <2>1. Only(k) /\ tasks[k].type = "message"
    BY <1>6, StartMessageDoes
  <2>. QED  BY <1>1, <1>4, <2>1
<1>7. ASSUME NEW k \in TaskNumbers, StartReminder(k) PROVE k = n
  BY <1>4, <1>7, StartReminderDoes
<1>8. ASSUME NEW k \in TaskNumbers, Act(k) PROVE FALSE
  <2>1. PICK result \in Results : Acts(k, result)
    BY <1>8, ActDoes
  <2>2. tasks'[k].phase = "acted" /\ \A m \in TaskNumbers \ {k} : Leaves(m)
    BY <2>1 DEF Acts
  <2>. QED  BY <1>1, <2>2 DEF Leaves
<1>9. ASSUME NEW k \in TaskNumbers, Save(k) PROVE FALSE
  <2>1. Only(k) /\ tasks'[k].phase \in {"restarted", "done"}
    BY <1>9, SaveDoes DEF Over
  <2>. QED  BY <1>4, <2>1
<1>10. ASSUME NEW k \in TaskNumbers, Fail(k) PROVE FALSE
  <2>1. Only(k) /\ tasks'[k].phase = "failed"
    BY <1>10, FailDoes DEF Over
  <2>. QED  BY <1>4, <2>1
<1>11. ~ReplaceAgent /\ ~PullModel
  BY <1>2 DEF ReplaceAgent, PullModel
<1>. QED  BY <1>2, <1>3, <1>5, <1>6, <1>7, <1>8, <1>9, <1>10, <1>11 DEF Next, Proceed, vars

LEMMA InTime ==
  ASSUME Typed, Logged, MessagesKept, [Next]_vars, NEW n \in Of("reminder"),
         OneLockStore, ~Superseded(n), tasks[n].phase = "waiting", tasks'[n].phase = "working"
  PROVE  ~\E m \in Of("message") :
            /\ m > n
            /\ tasks[m].conversation = tasks[n].conversation
            /\ TrackerStoreOf(m) = TrackerStoreOf(n)
            /\ tasks[m].phase \in {"restarted"} \union IF tasks[n].kill THEN {"done"} ELSE {}
<1>1. StartReminder(n) /\ n \in TaskNumbers
  BY Triggers DEF Of
<1>2. PICK es \in Fetched(n) : ~Outdated(tasks[n], es)
  BY <1>1, StartReminderDoes
<1>. QED  BY <1>2, LateIsOutdated

\* A reminder that waited for its conversation does not trigger after a message
\* that came later was handled there, unless a later reminder has its name.
THEOREM TriggeredInTimeAlways == Spec => TriggeredInTime
<1>. DEFINE Inv == Typed /\ OneStore /\ Exclusion /\ Current /\ Logged /\ MessagesKept
<1>1. Init => Inv
  <2>1. Init => Current
    BY DEF Init, Current, Working, TaskNumbers
  <2>. QED  BY <2>1, TypedInit, AloneInit, LoggedInit, MessagesInit
<1>2. Inv /\ [Next]_vars => Inv'
  BY TypedNext, AloneNext, CurrentNext, LoggedNext, MessagesNext
<1>3. Inv /\ [Next]_vars =>
        [\A n \in Of("reminder") :
           /\ OneLockStore /\ ~Superseded(n)
           /\ tasks[n].phase = "waiting" /\ tasks'[n].phase = "working"
           => ~\E m \in Of("message") :
                /\ m > n
                /\ tasks[m].conversation = tasks[n].conversation
                /\ TrackerStoreOf(m) = TrackerStoreOf(n)
                /\ tasks[m].phase \in {"restarted"} \union IF tasks[n].kill THEN {"done"} ELSE {}]_vars
  BY InTime
<1>. QED  BY <1>1, <1>2, <1>3, PTL DEF Spec, TriggeredInTime

-----------------------------------------------------------------------------
(* Reminders nothing came between.                                          *)

\* The turns of a conversation, and what the store has of it, stay as they are.
Untouched(k) ==
  /\ Events(k)' = Events(k)
  /\ \A t \in Working : tasks[t].conversation = tasks[k].conversation =>
       t \in Working' /\ tasks'[t].phase = tasks[t].phase /\ tasks'[t].events = tasks[t].events
  /\ \A t \in Working' : tasks'[t].conversation = tasks[k].conversation =>
       t \in Working /\ tasks[t].conversation = tasks[k].conversation

LEMMA OverreachedKept ==
  ASSUME Typed, Continues, Onward, NEW k \in TaskNumbers, Overreached(k)
  PROVE  Overreached(k)'
<1>1. PICK m \in TaskNumbers : /\ tasks[m].conversation # tasks[k].conversation
                              /\ IsPrefix(tasks[m].conversation, tasks[k].conversation)
                              /\ tasks[m].phase \in Past
  BY DEF Overreached, Past, Ran
<1>2. /\ tasks'[m].conversation = tasks[m].conversation
      /\ tasks'[k].conversation = tasks[k].conversation /\ tasks'[m].phase \in Past
  BY <1>1 DEF Continues, Onward
<1>3. m \in TaskNumbers'
  BY TaskTyped DEF Continues, TaskNumbers
<1>. QED  BY <1>1, <1>2, <1>3 DEF Overreached, Past, Ran

LEMMA SparedKept ==
  ASSUME Typed, Continues, Onward, NEW k \in TaskNumbers, Spared(k),
         \/ tasks'[k].phase = tasks[k].phase
         \/ tasks'[k].phase \notin {"outdated", "cancelled"}
  PROVE  Spared(k)'
BY OverreachedKept DEF Spared

LEMMA UndroppedKept ==
  ASSUME Continues, NEW k \in TaskNumbers, Undropped(k),
         Spared(k)',
         tasks'[k].phase \in {"scheduled", "waiting"} =>
           tasks[k].phase \in {"scheduled", "waiting"} /\ Untouched(k)
  PROVE  Undropped(k)'
<1>. SUFFICES ASSUME tasks'[k].phase \in {"scheduled", "waiting"}
              PROVE
       \/ \E t \in Working' : /\ tasks'[t].phase = "acted"
                              /\ tasks'[t].conversation = tasks'[k].conversation
                              /\ TrackerStoreOf(t)' = TrackerStoreOf(k)'
                              /\ Valid(tasks'[t].events, tasks'[k].name)
       \/ /\ Valid(Events(k)', tasks'[k].name)
          /\ \A t \in Working' : tasks'[t].conversation # tasks'[k].conversation
  BY DEF Undropped
<1>1. Untouched(k) /\ tasks[k].phase \in {"scheduled", "waiting"}
  OBVIOUS
<1>2. tasks'[k].conversation = tasks[k].conversation /\ tasks'[k].name = tasks[k].name
  BY DEF Continues
<1>3. CASE \E t \in Working : /\ tasks[t].phase = "acted"
                             /\ tasks[t].conversation = tasks[k].conversation
                             /\ TrackerStoreOf(t) = TrackerStoreOf(k)
                             /\ Valid(tasks[t].events, tasks[k].name)
  <2>1. PICK t \in Working : /\ tasks[t].phase = "acted"
                             /\ tasks[t].conversation = tasks[k].conversation
                             /\ TrackerStoreOf(t) = TrackerStoreOf(k)
                             /\ Valid(tasks[t].events, tasks[k].name)
    BY <1>3
  <2>2. t \in TaskNumbers /\ tasks'[t].conversation = tasks[t].conversation
    BY DEF Continues, Working
  <2>3. t \in Working' /\ tasks'[t].phase = "acted" /\ tasks'[t].events = tasks[t].events
    BY <1>1, <2>1 DEF Untouched
  <2>4. TrackerStoreOf(t)' = TrackerStoreOf(k)'
    BY <2>1, <2>2, StoreKept
  <2>. QED  BY <1>2, <2>1, <2>2, <2>3, <2>4
<1>4. CASE /\ Valid(Events(k), tasks[k].name)
           /\ \A t \in Working : tasks[t].conversation # tasks[k].conversation
  BY <1>1, <1>2, <1>4 DEF Untouched
<1>. QED  BY <1>1, <1>3, <1>4 DEF Undropped

\* A step of one task leaves the other conversations alone.
LEMMA UntouchedElsewhere ==
  ASSUME NEW n \in TaskNumbers, Only(n), NEW k \in TaskNumbers, Events(k)' = Events(k),
         tasks[n].conversation = tasks[k].conversation => n \notin Working /\ n \notin Working'
  PROVE  Untouched(k)
<1>1. /\ TaskNumbers' = TaskNumbers /\ \A m \in TaskNumbers \ {n} : tasks'[m] = tasks[m]
      /\ tasks'[n].conversation = tasks[n].conversation
  BY DEF Only, Continues, TaskNumbers
<1>2. ASSUME NEW t \in TaskNumbers, tasks[t].conversation = tasks[k].conversation \/ tasks'[t].conversation = tasks[k].conversation,
             t \in Working \/ t \in Working'
      PROVE  tasks'[t] = tasks[t] /\ t \in Working /\ t \in Working'
  <2>1. t # n
    BY <1>1, <1>2
  <2>. QED  BY <1>1, <1>2, <2>1 DEF Working
<1>3. \A t \in Working : t \in TaskNumbers
  BY DEF Working
<1>4. \A t \in Working' : t \in TaskNumbers
  BY <1>1 DEF Working
<1>. QED  BY <1>2, <1>3, <1>4 DEF Untouched

\* A reminder of the conversation is either disturbed, or waits for nobody.
LEMMA NoneDroppedKept ==
  ASSUME Typed, Steady, NoneDropped, disturbed \subseteq disturbed',
         \A k \in Of("reminder")' \ disturbed' :
           OneLockStore' => IF k \in TaskNumbers
             THEN Undropped(k) => Undropped(k)' ELSE Undropped(k)'
  PROVE  NoneDropped'
<1>1. OneLockStore' => OneLockStore
  BY OneLockStoreKept
<1>2. \A k \in Of("reminder")' : k \in TaskNumbers => k \in Of("reminder")
  BY DEF Of, Steady, Continues
<1>. QED  BY <1>1, <1>2 DEF NoneDropped

\* A step of one task that other reminders of its conversation do not survive
\* undisturbed.
LEMMA OnlyUndropped ==
  ASSUME Typed, Steady, Onward, NoneDropped, NEW n \in TaskNumbers, Only(n), trackers' = trackers,
         disturbed \subseteq disturbed',
         \/ n \notin Working /\ n \notin Working'
         \/ \A k \in Of("reminder") \ {n} :
              tasks[k].conversation = tasks[n].conversation => k \in disturbed',
         OneLockStore /\ n \in Of("reminder") \ disturbed' /\ Undropped(n) => Undropped(n)'
  PROVE  NoneDropped'
<1>1. /\ TaskNumbers' = TaskNumbers /\ \A m \in TaskNumbers \ {n} : tasks'[m] = tasks[m]
      /\ Continues
  BY DEF Only, TaskNumbers
<1>2. ASSUME NEW k \in Of("reminder")' \ disturbed', k # n, Undropped(k)
      PROVE  Undropped(k)'
  <2>1. k \in TaskNumbers /\ k \in Of("reminder") /\ tasks'[k] = tasks[k]
    BY <1>1, <1>2 DEF Of, Continues
  <2>2. Events(k)' = Events(k)
    BY <1>1, <2>1, EventsKept
  <2>3. Untouched(k)
    BY <1>2, <2>1, <2>2, UntouchedElsewhere
  <2>4. Spared(k)'
    BY <1>1, <1>2, <2>1, SparedKept DEF Undropped
  <2>. QED  BY <1>1, <1>2, <2>1, <2>3, <2>4, UndroppedKept
<1>3. OneLockStore' => OneLockStore
  BY OneLockStoreKept
<1>4. n \in Of("reminder")' => n \in Of("reminder")
  BY <1>1 DEF Of, Continues
<1>5. \A k \in Of("reminder")' : k \in TaskNumbers
  BY <1>1 DEF Of
<1>. QED  BY <1>2, <1>3, <1>4, <1>5, NoneDroppedKept

LEMMA DroppedInit == ASSUME Init PROVE NoneDropped
<1>1. Len(tasks) = 0
  BY DEF Init
<1>. QED  BY <1>1 DEF NoneDropped, Of, TaskNumbers

\* A reminder that starts where nothing came between is still valid.
LEMMA StartsUndropped ==
  ASSUME Typed, OneStore, Exclusion, OneLockStore, NEW n \in Of("reminder"), n \notin disturbed',
         Undropped(n), StartReminder(n)
  PROVE  tasks'[n].phase = "working"
<1>1. n \in TaskNumbers /\ tasks[n].phase = "waiting" /\ Free(n)
  BY StartReminderDoes DEF Of
<1>2. PICK es \in Fetched(n) :
        /\ IF Outdated(tasks[n], es) THEN tasks'[n].phase = "outdated" ELSE tasks'[n].phase = "working"
        /\ disturbed' = disturbed \union Disturbs(n, es # Events(n))
  BY <1>1, StartReminderDoes
<1>3. es = Events(n)
  <2>1. n \notin Disturbs(n, es # Events(n))
    BY <1>2
  <2>. QED  BY <2>1 DEF Disturbs
<1>4. ASSUME NEW t \in Working, tasks[t].conversation = tasks[n].conversation PROVE FALSE
  <2>1. LockStoreOf(t) = 1 /\ LockStoreOf(n) = 1
    BY <1>1 DEF OneStore, LockStoreOf, Working
  <2>. QED  BY <1>1, <1>4, <2>1 DEF Free
<1>5. Valid(Events(n), tasks[n].name)
  BY <1>1, <1>4 DEF Undropped
<1>6. ~Outdated(tasks[n], es)
  BY <1>3, <1>5 DEF Valid, Outdated
<1>. QED  BY <1>2, <1>6

LEMMA ActUndropped ==
  ASSUME Typed, OneStore, Exclusion, NoneDropped, NEW n \in TaskNumbers, Act(n)
  PROVE  NoneDropped'
<1>1. Continues /\ trackers' = trackers /\ tasks[n].phase = "working"
  BY ActDoes
<1>2. PICK result \in Results : Acts(n, result)
  BY ActDoes
<1>3. /\ tasks'[n].events = tasks[n].events \o result /\ tasks'[n].phase = "acted"
      /\ \A m \in TaskNumbers \ {n} : Leaves(m)
      /\ \A k \in NewTasks : Adds(n, k, result)
      /\ disturbed \subseteq disturbed'
      /\ \A k \in TaskNumbers' \ disturbed' :
           tasks'[k].conversation = tasks[n].conversation => Remains(result)
  BY <1>2 DEF Acts
<1>4. n \in Working /\ n \in Working'
  <2>1. n \in TaskNumbers'
    BY <1>1, TaskTyped DEF Continues, TaskNumbers
  <2>. QED  BY <1>1, <1>3, <2>1 DEF Working
<1>5. tasks'[n].conversation = tasks[n].conversation /\ tasks'[n].agent = tasks[n].agent
  BY <1>1 DEF Continues
<1>6. Steady /\ Onward /\ WorkAlone
  <2>1. [Next]_vars
    BY DEF Next, Proceed
  <2>. QED  BY <2>1, NextSteady, NextOnward, AloneNow
<1>7. ASSUME NEW k \in Of("reminder")' \ disturbed', k \notin TaskNumbers
      PROVE  Undropped(k)'
  <2>1. k \in NewTasks /\ k \in TaskNumbers'
    BY <1>7 DEF Of, NewTasks
  <2>2. /\ tasks'[k].conversation = tasks[n].conversation /\ tasks'[k].agent = tasks[n].agent
        /\ Spared(k)'
    BY <1>3, <1>7, <2>1 DEF Adds, CancelledFor, Spared
  <2>3. PICK i \in 1 .. Len(result) : result[i].type = "reminder" /\ result[i].name = tasks'[k].name
    BY <1>3, <2>1 DEF Adds
  <2>4. \A j \in 1 .. Len(result) : result[j].type \in {"reminder", "cancel_reminder"}
    BY <1>3, <1>7, <2>1, <2>2 DEF Remains
  <2>5. Valid(tasks'[n].events, tasks'[k].name)
    <3>. DEFINE es == tasks[n].events
    <3>1. tasks[n] \in TaskSet /\ result \in Seq(EventSet)
      BY TaskTyped, ResultEvents
    <3>2. es \in Seq(EventSet)
      BY <3>1 DEF TaskSet
    <3>. HIDE DEF es
    <3>3. Valid(es \o result, result[i].name)
      BY <2>3, <2>4, <3>1, <3>2, LoggedValid
    <3>. QED  BY <1>3, <2>3, <3>3 DEF es
  <2>6. TrackerStoreOf(n)' = TrackerStoreOf(k)'
    BY <1>5, <2>2 DEF TrackerStoreOf
  <2>. QED  BY <1>3, <1>4, <1>5, <2>2, <2>5, <2>6 DEF Undropped
<1>8. ASSUME NEW k \in Of("reminder")' \ disturbed', k \in TaskNumbers, Undropped(k), OneLockStore'
      PROVE  Undropped(k)'
  <2>1. OneLockStore
    BY <1>6, <1>8, OneLockStoreKept
  <2>2. Spared(k)'
    <3>1. CASE k = n
      BY <1>3, <3>1 DEF Spared
    <3>2. CASE k # n /\ tasks'[k].phase = "cancelled" /\ tasks[k].phase # "cancelled"
      <4>1. CancelledFor(k)'
        BY <1>3, <1>8, <3>2 DEF Leaves
      <4>. QED  BY <1>8, <3>2, <4>1 DEF CancelledFor, Spared
    <3>3. CASE k # n /\ ~(tasks'[k].phase = "cancelled" /\ tasks[k].phase # "cancelled")
      <4>1. tasks'[k].phase = tasks[k].phase \/ tasks'[k].phase \notin {"outdated", "cancelled"}
        BY <1>3, <1>8, <3>3 DEF Leaves
      <4>. QED  BY <1>1, <1>6, <1>8, <4>1, SparedKept DEF Undropped
    <3>. QED  BY <3>1, <3>2, <3>3
  <2>3. ASSUME tasks'[k].phase \in {"scheduled", "waiting"}
        PROVE  tasks[k].phase \in {"scheduled", "waiting"} /\ Untouched(k)
    <3>1. k # n
      BY <1>3, <2>3
    <3>2. tasks[k].phase = tasks'[k].phase
      BY <1>3, <1>8, <2>3, <3>1 DEF Leaves
    <3>3. tasks[k].conversation # tasks[n].conversation
      <4>. SUFFICES ASSUME tasks[k].conversation = tasks[n].conversation PROVE FALSE
        OBVIOUS
      <4>1. \E t \in Working : tasks[t].phase = "acted" /\ tasks[t].conversation = tasks[k].conversation
        BY <1>4, <1>8, <2>3, <3>2 DEF Undropped
      <4>. QED  BY <1>1, <1>4, <1>6, <2>1, <4>1 DEF WorkAlone
    <3>4. Events(k)' = Events(k)
      BY <1>1, <1>8, EventsKept
    <3>5. ASSUME NEW t \in Working, tasks[t].conversation = tasks[k].conversation
          PROVE  t \in Working' /\ tasks'[t].phase = tasks[t].phase /\ tasks'[t].events = tasks[t].events
      <4>1. t \in TaskNumbers \ {n} /\ tasks[t].phase \in {"working", "acted"}
        BY <3>3, <3>5 DEF Working
      <4>2. tasks'[t].phase = tasks[t].phase /\ tasks'[t].events = tasks[t].events
        BY <1>3, <4>1 DEF Leaves
      <4>3. t \in TaskNumbers'
        BY <1>1, <4>1, TaskTyped DEF Continues, TaskNumbers
      <4>. QED  BY <4>1, <4>2, <4>3 DEF Working
    <3>6. ASSUME NEW t \in Working', tasks'[t].conversation = tasks[k].conversation
          PROVE  t \in Working /\ tasks[t].conversation = tasks[k].conversation
      <4>1. t \notin NewTasks
        BY <1>3 DEF Adds, Working
      <4>2. t \in TaskNumbers
        BY <4>1 DEF NewTasks, Working
      <4>3. tasks'[t].conversation = tasks[t].conversation /\ t # n
        BY <1>1, <3>3, <3>6, <4>2 DEF Continues
      <4>4. tasks[t].phase = tasks'[t].phase
        BY <1>3, <4>2, <4>3 DEF Leaves, Working
      <4>. QED  BY <3>6, <4>2, <4>3, <4>4 DEF Working
    <3>. QED  BY <2>3, <3>2, <3>4, <3>5, <3>6 DEF Untouched
  <2>. QED  BY <1>1, <1>8, <2>2, <2>3, UndroppedKept
<1>. QED  BY <1>3, <1>6, <1>7, <1>8, NoneDroppedKept

LEMMA SaveUndropped ==
  ASSUME Typed, OneStore, Exclusion, NoneDropped, NEW n \in TaskNumbers, Save(n)
  PROVE  NoneDropped'
<1>. DEFINE es == tasks[n].events
<1>1. /\ Over(n, IF Last(es) = Restarted THEN "restarted" ELSE "done")
      /\ tasks[n].phase = "acted" /\ disturbed' = disturbed
  BY SaveDoes
<1>. HIDE DEF es
<1>2. /\ TaskNumbers' = TaskNumbers /\ \A m \in TaskNumbers \ {n} : tasks'[m] = tasks[m]
      /\ Continues /\ Only(n) /\ n \in Working /\ n \notin Working'
      /\ tasks'[n].phase \in {"restarted", "done"}
  BY <1>1 DEF Over, Only, TaskNumbers, Working
<1>3. Steady /\ Onward /\ WorkAlone
  <2>1. [Next]_vars
    BY DEF Next, Proceed
  <2>. QED  BY <2>1, NextSteady, NextOnward, AloneNow
<1>4. \A k \in TaskNumbers :
        Events(k)' = IF /\ TrackerStoreOf(k) = TrackerStoreOf(n)
                        /\ tasks[k].conversation = tasks[n].conversation
                       THEN es ELSE Events(k)
  BY EventsSaved DEF es
<1>5. ASSUME NEW k \in TaskNumbers, Undropped(k), OneLockStore'
      PROVE  Undropped(k)'
  <2>1. OneLockStore
    BY <1>3, <1>5, OneLockStoreKept
  <2>2. CASE k = n
    BY <1>2, <2>2 DEF Undropped, Spared
  <2>3. CASE k # n /\ tasks[k].conversation # tasks[n].conversation
    <3>1. tasks'[k] = tasks[k] /\ Events(k)' = Events(k)
      BY <1>2, <1>4, <2>3
    <3>2. Untouched(k)
      BY <1>2, <2>3, <3>1, UntouchedElsewhere
    <3>3. Spared(k)'
      BY <1>2, <1>3, <1>5, <3>1, SparedKept DEF Undropped
    <3>. QED  BY <1>2, <1>5, <3>1, <3>2, <3>3, UndroppedKept
  <2>4. CASE k # n /\ tasks[k].conversation = tasks[n].conversation
    <3>1. tasks'[k] = tasks[k] /\ Spared(k)'
      BY <1>2, <1>3, <1>5, <2>4, SparedKept DEF Undropped
    <3>2. ASSUME tasks[k].phase \in {"scheduled", "waiting"}
          PROVE  /\ Valid(Events(k)', tasks'[k].name)
                 /\ \A t \in Working' : tasks'[t].conversation # tasks'[k].conversation
      <4>1. PICK t \in Working : /\ tasks[t].phase = "acted"
                                 /\ tasks[t].conversation = tasks[k].conversation
                                 /\ TrackerStoreOf(t) = TrackerStoreOf(k)
                                 /\ Valid(tasks[t].events, tasks[k].name)
        BY <1>2, <1>5, <2>4, <3>2 DEF Undropped
      <4>2. t = n
        BY <1>2, <1>3, <2>1, <2>4, <4>1 DEF WorkAlone
      <4>3. Valid(Events(k)', tasks'[k].name)
        BY <1>4, <2>4, <3>1, <4>1, <4>2 DEF es
      <4>4. ASSUME NEW u \in Working', tasks'[u].conversation = tasks'[k].conversation PROVE FALSE
        <5>1. u \in TaskNumbers \ {n} /\ tasks'[u] = tasks[u]
          BY <1>2 DEF Working
        <5>2. u \in Working /\ tasks[u].conversation = tasks[n].conversation
          BY <2>4, <3>1, <4>4, <5>1 DEF Working
        <5>. QED  BY <1>2, <1>3, <2>1, <5>1, <5>2 DEF WorkAlone
      <4>. QED  BY <4>3, <4>4
    <3>. QED  BY <3>1, <3>2 DEF Undropped
  <2>. QED  BY <2>2, <2>3, <2>4
<1>6. \A k \in Of("reminder")' : k \in TaskNumbers
  BY <1>2 DEF Of
<1>. QED  BY <1>1, <1>3, <1>5, <1>6, NoneDroppedKept

LEMMA DroppedNext ==
  ASSUME Typed, OneStore, Exclusion, NoneDropped, [Next]_vars
  PROVE  NoneDropped'
<1>1. Steady /\ Onward
  BY NextSteady, NextOnward
<1>2. ASSUME UNCHANGED <<shared, tasks, trackers, disturbed>> PROVE NoneDropped'
  <2>1. \A k : Undropped(k) => Undropped(k)'
    BY <1>2 DEF Undropped, Spared, Overreached, Valid, Events, TrackerStoreOf, Working, TaskNumbers
  <2>2. \A k \in Of("reminder")' : k \in TaskNumbers
    BY <1>2 DEF Of, TaskNumbers
  <2>. QED  BY <1>1, <1>2, <2>1, <2>2, NoneDroppedKept
<1>3. CASE UNCHANGED vars
  BY <1>2, <1>3 DEF vars
<1>4. ASSUME NEW c \in Conversations, Receive(c) PROVE NoneDropped'
  <2>1. /\ Continues /\ Len(tasks') = Len(tasks) + 1 /\ \A m \in TaskNumbers : tasks'[m] = tasks[m]
        /\ tasks'[Len(tasks) + 1] = Task("message", c, NoName, FALSE, Len(agents), 1, "waiting")
        /\ trackers' = trackers /\ disturbed' = disturbed
    BY <1>4, ReceiveDoes
  <2>2. tasks'[Len(tasks) + 1].phase = "waiting" /\ tasks'[Len(tasks) + 1].type = "message"
    BY <2>1 DEF Task
  <2>3. TaskNumbers' = TaskNumbers \union {Len(tasks) + 1}
    BY <2>1, TaskTyped DEF TaskNumbers
  <2>4. Working' = Working
    BY <2>1, <2>2, <2>3 DEF Working
  <2>5. \A k \in Of("reminder")' : k \in TaskNumbers
    BY <2>2, <2>3 DEF Of
  <2>6. ASSUME NEW k \in TaskNumbers, Undropped(k) PROVE Undropped(k)'
    <3>1. Events(k)' = Events(k) /\ tasks'[k] = tasks[k]
      BY <2>1, EventsKept
    <3>2. \A t \in Working : t \in TaskNumbers /\ tasks'[t] = tasks[t]
      BY <2>1 DEF Working
    <3>3. Untouched(k)
      BY <2>4, <3>1, <3>2 DEF Untouched
    <3>4. Spared(k)'
      BY <1>1, <2>1, <2>6, <3>1, SparedKept DEF Undropped
    <3>. QED  BY <2>1, <2>6, <3>1, <3>3, <3>4, UndroppedKept
  <2>. QED  BY <1>1, <2>1, <2>5, <2>6, NoneDroppedKept
<1>5. ASSUME NEW n \in TaskNumbers, Fire(n) PROVE NoneDropped'
  <2>1. /\ Only(n) /\ n \in Scheduled /\ tasks'[n].phase \in {"waiting", "skipped"}
        /\ trackers' = trackers /\ disturbed' = disturbed
    BY <1>5, FireDoes
  <2>2. n \notin Working /\ n \notin Working' /\ tasks[n].phase = "scheduled"
    BY <2>1 DEF Scheduled, Working
  <2>3. Undropped(n) => Undropped(n)'
    <3>1. Events(n)' = Events(n) /\ Continues
      BY <2>1, EventsKept DEF Only
    <3>2. Untouched(n)
      BY <2>1, <2>2, <3>1, UntouchedElsewhere
    <3>3. Undropped(n) => Spared(n)'
      BY <1>1, <2>1, <3>1, SparedKept DEF Undropped
    <3>. QED  BY <2>1, <2>2, <3>1, <3>2, <3>3, UndroppedKept
  <2>. QED  BY <1>1, <2>1, <2>2, <2>3, OnlyUndropped
<1>6. ASSUME NEW n \in TaskNumbers, StartMessage(n) PROVE NoneDropped'
  <2>1. /\ Only(n) /\ trackers' = trackers /\ tasks[n].type = "message"
        /\ disturbed' = disturbed \union Disturbs(n, FALSE)
    BY <1>6, StartMessageDoes
  <2>2. \A k \in Of("reminder") \ {n} :
          tasks[k].conversation = tasks[n].conversation => k \in disturbed'
    BY <2>1 DEF Disturbs
  <2>3. n \notin Of("reminder")
    BY <2>1 DEF Of
  <2>. QED  BY <1>1, <2>1, <2>2, <2>3, OnlyUndropped
<1>7. ASSUME NEW n \in TaskNumbers, StartReminder(n) PROVE NoneDropped'
  <2>1. /\ Only(n) /\ trackers' = trackers /\ tasks[n].type = "reminder"
        /\ \E expired : disturbed' = disturbed \union Disturbs(n, expired)
    BY <1>7, StartReminderDoes
  <2>2. /\ disturbed \subseteq disturbed'
        /\ \A k \in Of("reminder") \ {n} :
             tasks[k].conversation = tasks[n].conversation => k \in disturbed'
    BY <2>1 DEF Disturbs
  <2>3. OneLockStore /\ n \in Of("reminder") \ disturbed' /\ Undropped(n) => Undropped(n)'
    <3>1. OneLockStore /\ n \in Of("reminder") \ disturbed' /\ Undropped(n) => tasks'[n].phase = "working"
      BY <1>7, StartsUndropped
    <3>. QED  BY <3>1 DEF Undropped, Spared
  <2>. QED  BY <1>1, <2>1, <2>2, <2>3, OnlyUndropped
<1>8. ASSUME NEW n \in TaskNumbers, Act(n) PROVE NoneDropped'
  BY <1>8, ActUndropped
<1>9. ASSUME NEW n \in TaskNumbers, Save(n) PROVE NoneDropped'
  BY <1>9, SaveUndropped
<1>10. ASSUME NEW n \in TaskNumbers, Fail(n) PROVE NoneDropped'
  <2>1. /\ Only(n) /\ trackers' = trackers
        /\ disturbed' = disturbed \union
             {m \in Of("reminder") : tasks[m].conversation = tasks[n].conversation}
    BY <1>10, FailDoes DEF Over
  <2>2. \A k \in Of("reminder") :
          tasks[k].conversation = tasks[n].conversation => k \in disturbed'
    BY <2>1
  <2>. QED  BY <1>1, <2>1, <2>2, OnlyUndropped
<1>11. ASSUME ReplaceAgent \/ PullModel PROVE NoneDropped'
  BY <1>2, <1>11, AgentsDo
<1>. QED  BY <1>3, <1>4, <1>5, <1>6, <1>7, <1>8, <1>9, <1>10, <1>11 DEF Next, Proceed

LEMMA NamesakeAfterKept ==
  ASSUME Typed, Continues, NEW k \in TaskNumbers, NamesakeAfter(k)
  PROVE  NamesakeAfter(k)'
<1>1. \A m \in Of("reminder") : m \in TaskNumbers /\ m \in Of("reminder")'
  BY TaskTyped DEF Continues, Of, TaskNumbers
<1>. QED  BY <1>1 DEF NamesakeAfter, Continues

LEMMA NamesakeStartedKept ==
  ASSUME Typed, Continues, Onward, NEW k \in TaskNumbers, NamesakeStarted(k)
  PROVE  NamesakeStarted(k)'
<1>1. PICK m \in Of("reminder") \ {k} : /\ tasks[m].name = tasks[k].name
                                        /\ tasks[m].phase \notin {"scheduled", "cancelled", "replaced", "skipped"}
  BY DEF NamesakeStarted
<1>2. m \in TaskNumbers /\ m \in Of("reminder")'
  BY TaskTyped DEF Continues, Of, TaskNumbers
<1>3. tasks[m].phase \in Begun
  <2>1. tasks[m].phase \in Phases
    BY <1>2, TaskTyped DEF TaskSet
  <2>. QED  BY <1>1, <2>1 DEF Phases, Begun, Ran
<1>4. tasks'[m].phase \in Begun /\ tasks'[m].name = tasks'[k].name
  BY <1>1, <1>2, <1>3 DEF Continues, Onward
<1>. QED  BY <1>2, <1>4 DEF NamesakeStarted, Begun, Ran

\* Only a step that takes a job of the scheduler brings in its namesake.
LEMMA TakenKept ==
  ASSUME Typed, Continues, Onward, TakenByNamesakes, Len(tasks') = Len(tasks),
         \A k \in TaskNumbers :
           /\ tasks'[k].phase = "replaced" => tasks[k].phase = "replaced" \/ NamesakeAfter(k)'
           /\ tasks'[k].phase = "skipped" => tasks[k].phase = "skipped" \/ NamesakeStarted(k)'
  PROVE  TakenByNamesakes'
<1>1. \A k \in Of("reminder")' : k \in TaskNumbers /\ k \in Of("reminder")
  BY DEF Continues, Of, TaskNumbers
<1>. QED  BY <1>1, NamesakeAfterKept, NamesakeStartedKept DEF TakenByNamesakes

LEMMA TakenNext ==
  ASSUME Typed, TakenByNamesakes, [Next]_vars
  PROVE  TakenByNamesakes'
<1>1. Onward
  BY NextOnward
<1>2. CASE UNCHANGED tasks
  BY <1>2 DEF TakenByNamesakes, NamesakeAfter, NamesakeStarted, Of, TaskNumbers
<1>3. ASSUME NEW c \in Conversations, Receive(c) PROVE TakenByNamesakes'
  <2>1. /\ Continues /\ Len(tasks') = Len(tasks) + 1 /\ \A m \in TaskNumbers : tasks'[m] = tasks[m]
        /\ tasks'[Len(tasks) + 1].type = "message"
    <3>1. tasks'[Len(tasks) + 1] = Task("message", c, NoName, FALSE, Len(agents), 1, "waiting")
      BY <1>3, ReceiveDoes
    <3>2. tasks'[Len(tasks) + 1].type = "message"
      BY <3>1 DEF Task
    <3>. QED  BY <1>3, <3>2, ReceiveDoes
  <2>2. \A k \in Of("reminder")' : k \in TaskNumbers /\ k \in Of("reminder") /\ tasks'[k] = tasks[k]
    <3>1. TaskNumbers' = TaskNumbers \union {Len(tasks) + 1}
      BY <2>1, TaskTyped DEF TaskNumbers
    <3>. QED  BY <2>1, <3>1 DEF Of
  <2>. QED  BY <1>1, <2>1, <2>2, NamesakeAfterKept, NamesakeStartedKept DEF TakenByNamesakes
<1>4. ASSUME NEW n \in TaskNumbers, Only(n), tasks'[n].phase \notin {"replaced", "skipped"}
      PROVE  TakenByNamesakes'
  BY <1>1, <1>4, TakenKept DEF Only
<1>5. ASSUME NEW n \in TaskNumbers, Fire(n) PROVE TakenByNamesakes'
  <2>1. Only(n) /\ tasks'[n].phase \in {"waiting", "skipped"}
    BY <1>5, FireDoes
  <2>2. tasks'[n].phase = "skipped" => NamesakeStarted(n)
    <3>1. tasks'[n].phase = IF \E m \in Of("reminder") \ {n} :
                                 /\ tasks[m].name = tasks[n].name
                                 /\ tasks[m].phase \in {"waiting", "working", "acted"}
                              THEN "skipped" ELSE "waiting"
      BY <1>5, TaskTyped DEF Fire
    <3>. QED  BY <3>1 DEF NamesakeStarted
  <2>3. tasks'[n].phase = "skipped" => NamesakeStarted(n)'
    BY <1>1, <2>1, <2>2, NamesakeStartedKept DEF Only
  <2>. QED  BY <1>1, <2>1, <2>3, TakenKept DEF Only
<1>6. ASSUME NEW n \in TaskNumbers, StartMessage(n) \/ StartReminder(n) PROVE TakenByNamesakes'
  <2>1. Only(n) /\ tasks'[n].phase \in {"working", "outdated"}
    BY <1>6, StartMessageDoes, StartReminderDoes
  <2>. QED  BY <1>4, <2>1
<1>7. ASSUME NEW n \in TaskNumbers, Act(n) PROVE TakenByNamesakes'
  <2>1. Continues /\ \E result \in Results : Acts(n, result)
    BY <1>7, ActDoes
  <2>2. PICK result \in Results : Acts(n, result)
    BY <2>1
  <2>3. ASSUME NEW k \in TaskNumbers
        PROVE  /\ tasks'[k].phase = "replaced" => tasks[k].phase = "replaced" \/ NamesakeAfter(k)'
               /\ tasks'[k].phase = "skipped" => tasks[k].phase = "skipped"
    BY <2>2 DEF Acts, Leaves
  <2>4. ASSUME NEW k \in NewTasks
        PROVE  /\ tasks'[k].phase = "replaced" => NamesakeAfter(k)'
               /\ tasks'[k].phase # "skipped"
    BY <2>2 DEF Acts, Adds
  <2>5. \A k \in Of("reminder")' : (k \in TaskNumbers /\ k \in Of("reminder")) \/ k \in NewTasks
    BY <2>1 DEF Of, NewTasks, Continues
  <2>. QED  BY <1>1, <2>1, <2>3, <2>4, <2>5, NamesakeAfterKept, NamesakeStartedKept DEF TakenByNamesakes
<1>8. ASSUME NEW n \in TaskNumbers, Save(n) \/ Fail(n) PROVE TakenByNamesakes'
  <2>1. Only(n) /\ tasks'[n].phase \in {"done", "restarted", "failed"}
    BY <1>8, SaveDoes, FailDoes DEF Over
  <2>. QED  BY <1>4, <2>1
<1>9. ASSUME ReplaceAgent \/ PullModel PROVE TakenByNamesakes'
  BY <1>2, <1>9, AgentsDo
<1>. QED  BY <1>2, <1>3, <1>5, <1>6, <1>7, <1>8, <1>9 DEF Next, Proceed, vars

\* While there is one store of locks, each reminder that is lost was outdated or
\* cancelled by its own conversation, cancelled by one whose id its own begins
\* with, or gave way to a namesake.
THEOREM DroppedForACauseAlways == Spec => []DroppedForACause
<1>. DEFINE Inv == Typed /\ OneStore /\ Exclusion /\ NoneDropped /\ TakenByNamesakes
<1>1. Init => Inv
  <2>1. Init => TakenByNamesakes
    BY DEF Init, TakenByNamesakes, Of, TaskNumbers
  <2>. QED  BY <2>1, TypedInit, AloneInit, DroppedInit
<1>2. Inv /\ [Next]_vars => Inv'
  BY TypedNext, AloneNext, DroppedNext, TakenNext
<1>3. Inv => DroppedForACause
  <2>. SUFFICES ASSUME Inv, OneLockStore, NEW n \in Of("reminder")
                PROVE  /\ tasks[n].phase = "outdated" => n \in disturbed
                       /\ tasks[n].phase = "cancelled" => n \in disturbed \/ Overreached(n)
                       /\ tasks[n].phase = "replaced" => NamesakeAfter(n)
                       /\ tasks[n].phase = "skipped" => NamesakeStarted(n)
    BY Zenon DEF DroppedForACause
  <2>1. n \in disturbed \/ Spared(n)
    BY DEF NoneDropped, Undropped
  <2>. QED  BY <2>1 DEF Spared, TakenByNamesakes
<1>. QED  BY <1>1, <1>2, <1>3, PTL DEF Spec

=============================================================================

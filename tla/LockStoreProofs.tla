-------------------------- MODULE LockStoreProofs --------------------------
(***************************************************************************)
(* What LockStore guarantees, and what it gives the handlers under it       *)
(* (ConversationAccess), for every set of requests and conversations and   *)
(* every lifetime, proved with TLAPS.                                      *)
(*                                                                         *)
(* The argument.  While no active request has outlived its ticket, the     *)
(* queue of a conversation holds exactly the tickets of its active         *)
(* requests, numbered in the order they came, and whoever is served holds  *)
(* the first of them.  Expiry breaks that; what survives it is only that a *)
(* queue never holds a ticket of somebody who left, so that the queue is   *)
(* in order again once everybody has left.                                 *)
(*                                                                         *)
(* The handlers' steps leave the lock store's state alone, so that all of   *)
(* this still holds with them (Composition).  A request reads the tracker   *)
(* only once it is served; from then on, as long as no ticket is overdue,   *)
(* it is served alone, and nobody else saves under the lock.  Predictions    *)
(* save without it: the copies they overtake are marked (raced).            *)
(*                                                                         *)
(* The order of what is stored: whoever saves under the lock came after all  *)
(* that saved under it before (SavedLast), so that what it appends comes     *)
(* last in order (Arranged), and so it does in the copies (Ordered).         *)
(***************************************************************************)
EXTENDS ConversationAccess, Lemmas

-----------------------------------------------------------------------------
(* The inductive invariant.                                                *)

Typed == TypeOK /\ \A c \in Conversations : IsDeque(tickets[c])

\* A conversation without a lock has no tickets.
LockHoldsTickets == \A c \in Conversations : c \notin lockIds => tickets[c] = {}

\* Only requests that have entered are ahead of somebody.
AheadEntered == \A r \in Requests : \A s \in ahead[r] : pc[s] # "new"

\* Every active request is in the queue of c, its ticket unexpired.
Queued(c) ==
  \A r \in Active(c) : ticket[r] \in tickets[c] /\ ~HasExpired(ticket[r], now)

\* The tickets of c are numbered in the order of arrival.
Numbered(c) ==
  \A r, s \in Active(c) :
    /\ s \in ahead[r] => ticket[s].number < ticket[r].number
    /\ r # s => s \in ahead[r] \/ r \in ahead[s]

\* A request being served holds the first ticket.
HeadServed(c) ==
  \A r \in Serving(c) : \A t \in tickets[c] : ticket[r].number =< t.number

InOrder(c) == Queued(c) /\ Numbered(c) /\ HeadServed(c)

IInv ==
  /\ Typed
  /\ NothingLeaks
  /\ LockHoldsTickets
  /\ AheadEntered
  /\ \A c \in Conversations : ~overdue[c] => InOrder(c)

LEMMA InitIInv == Init => IInv
<1>. SUFFICES ASSUME Init PROVE IInv
  OBVIOUS
<1>1. Typed
  <2>1. TypeOK
    BY DEF Init, TypeOK, PCs, Ticket
  <2>2. IsDeque({})
    BY DEF IsDeque
  <2>. QED  BY <2>1, <2>2 DEF Init, Typed
<1>2. \A c \in Conversations : Active(c) = {}
  BY DEF Init, Active
<1>3. \A c \in Conversations : InOrder(c)
  BY <1>2 DEF InOrder, Queued, Numbered, HeadServed, Serving
<1>. QED  BY <1>1, <1>3 DEF Init, IInv, NothingLeaks, LockHoldsTickets, AheadEntered

-----------------------------------------------------------------------------
(* While tickets are in time, nothing in the queue has expired.            *)

LEMMA NothingExpired ==
  ASSUME IInv, NEW c \in Conversations, ~overdue[c]
  PROVE  Unexpired(tickets[c], now) = tickets[c]
BY DEF IInv, NothingLeaks, InOrder, Queued, Unexpired

-----------------------------------------------------------------------------
(* One lemma per action.                                                   *)

LEMMA EnterIInv ==
  ASSUME IInv, NEW r \in Requests, Enter(r)
  PROVE  IInv'
<1>. DEFINE c == conv[r]
            new == NewTicket(tickets[c], now, Lifetime)
            live == Unexpired(tickets[c], now)
            queue == IssueTicket(tickets[c], now, Lifetime)
<1>. USE LifetimeAssumption
<1>1. /\ TypeOK /\ c \in Conversations /\ now \in Nat
      /\ \A d \in Conversations : IsDeque(tickets[d])
  BY DEF IInv, Typed, TypeOK
<1>2. /\ new \in Ticket /\ ~HasExpired(new, now) /\ IsDeque(queue)
      /\ \A t \in live : t.number < new.number
  BY <1>1, IssueTicketAppends
<1>3. queue = live \union {new} /\ live \subseteq tickets[c]
  BY DEF IssueTicket, Unexpired
<1>4. /\ pc[r] = "new"
      /\ lockIds' = lockIds \union {c}
      /\ tickets' = [tickets EXCEPT ![c] = queue]
      /\ ticket' = [ticket EXCEPT ![r] = new]
      /\ ahead' = [ahead EXCEPT ![r] = Active(c)]
      /\ UNCHANGED <<now, conv, overdue>>
  BY DEF Enter
<1>5. /\ pc' = [pc EXCEPT ![r] = IF IsLocked(queue, new.number, now)
                                   THEN "waiting" ELSE "serving"]
      /\ pc'[r] \in {"waiting", "serving"}
      /\ pc'[r] = "serving" => NowServing(queue, now) = new.number
  BY <1>1 DEF Enter, IsLocked, TypeOK
<1>. HIDE DEF c, new, live, queue
<1>6. \A d \in Conversations :
        Active(d)' = IF d = c THEN Active(c) \union {r} ELSE Active(d)
  BY <1>1, <1>4, <1>5 DEF Active, TypeOK, c
<1>7. r \notin Active(c)
  BY <1>4 DEF Active
<1>8. Typed'
  <2>1. TypeOK'
    BY <1>1, <1>2, <1>4, <1>5 DEF TypeOK, PCs, IsDeque, Active
  <2>. QED  BY <1>1, <1>2, <1>4, <2>1 DEF Typed, TypeOK
<1>9. NothingLeaks'
  <2>. SUFFICES ASSUME NEW d \in Conversations
                PROVE  /\ \A t \in tickets'[d] : \E s \in Active(d)' : ticket'[s] = t
                       /\ d \in lockIds' => Active(d)' # {}
    BY DEF NothingLeaks
  <2>1. CASE d = c
    <3>1. \A t \in tickets[c] : \E s \in Active(c) : ticket[s] = t
      BY <1>1 DEF IInv, NothingLeaks
    <3>2. \A s \in Active(c) : ticket'[s] = ticket[s]
      BY <1>4, <1>7, <1>1 DEF TypeOK, Active
    <3>3. ticket'[r] = new
      BY <1>4, <1>1 DEF TypeOK
    <3>. QED  BY <2>1, <3>1, <3>2, <3>3, <1>1, <1>3, <1>4, <1>6 DEF TypeOK
  <2>2. CASE d # c
    BY <2>2, <1>1, <1>4, <1>6 DEF IInv, NothingLeaks, TypeOK, Active, c
  <2>. QED  BY <2>1, <2>2
<1>10. LockHoldsTickets'
  BY <1>1, <1>4 DEF IInv, LockHoldsTickets, TypeOK
<1>11. AheadEntered'
  BY <1>1, <1>4, <1>5 DEF IInv, AheadEntered, TypeOK, Active
<1>12. ASSUME NEW d \in Conversations, ~overdue'[d]
       PROVE  InOrder(d)'
  <2>1. ~overdue[d] /\ InOrder(d)
    BY <1>12, <1>4 DEF IInv
  <2>2. CASE d # c
    <3>1. Active(d)' = Active(d) /\ tickets'[d] = tickets[d]
      BY <2>2, <1>1, <1>4, <1>6 DEF TypeOK
    <3>2. \A s \in Active(d) :
            ticket'[s] = ticket[s] /\ ahead'[s] = ahead[s] /\ pc'[s] = pc[s]
      BY <2>2, <1>1, <1>4, <1>5 DEF TypeOK, Active, c
    <3>. QED  BY <2>1, <3>1, <3>2, <1>4
               DEF InOrder, Queued, Numbered, HeadServed, Serving
  <2>3. CASE d = c
    <3>1. live = tickets[c] /\ tickets'[c] = tickets[c] \union {new}
      BY <2>1, <2>3, <1>1, <1>3, <1>4, NothingExpired DEF live, TypeOK
    <3>2. ticket'[r] = new /\ ahead'[r] = Active(c)
      BY <1>1, <1>4 DEF TypeOK
    <3>3. \A s \in Active(c) : /\ s # r
                               /\ ticket'[s] = ticket[s]
                               /\ ahead'[s] = ahead[s]
                               /\ pc'[s] = pc[s]
                               /\ r \notin ahead[s]
      BY <1>1, <1>4, <1>5, <1>7 DEF TypeOK, Active, IInv, AheadEntered
    <3>4. \A s \in Active(c) : /\ ticket[s] \in tickets[c]
                               /\ ~HasExpired(ticket[s], now)
                               /\ ticket[s].number < new.number
      BY <2>1, <2>3, <3>1, <1>2 DEF InOrder, Queued
    <3>5. Queued(d)'
      BY <2>3, <1>2, <1>4, <1>6, <3>1, <3>2, <3>3, <3>4 DEF Queued
    <3>6. Numbered(d)'
      <4>1. Numbered(c)
        BY <2>1, <2>3 DEF InOrder
      <4>2. Active(d)' = Active(c) \union {r}
        BY <2>3, <1>1, <1>6
      <4>3. \A s, t \in Active(c) :
              /\ t \in ahead'[s] => ticket'[t].number < ticket'[s].number
              /\ s # t => t \in ahead'[s] \/ s \in ahead'[t]
        BY <4>1, <3>3 DEF Numbered
      <4>4. \A s \in Active(c) :
              /\ s \in ahead'[r] /\ ticket'[s].number < ticket'[r].number
              /\ r \notin ahead'[s]
        BY <3>2, <3>3, <3>4
      <4>5. r \notin ahead'[r]
        BY <3>2, <1>7
      <4>. QED  BY <4>2, <4>3, <4>4, <4>5 DEF Numbered
    <3>7. HeadServed(d)'
      <4>. SUFFICES ASSUME NEW s \in Serving(d)', NEW t \in tickets'[d]
                    PROVE  ticket'[s].number =< t.number
        BY DEF HeadServed
      <4>1. CASE s = r
        <5>1. NowServing(queue, now) = new.number
          BY <4>1, <1>5 DEF Serving
        <5>2. tickets'[c] = queue /\ Unexpired(queue, now) = queue
          <6>1. tickets'[c] = queue
            BY <1>1, <1>4 DEF TypeOK
          <6>2. \A u \in live : ~HasExpired(u, now)
            BY DEF live, Unexpired
          <6>. QED  BY <6>1, <6>2, <1>2, <1>3 DEF Unexpired
        <5>3. \A u \in queue : NowServing(queue, now) =< u.number
          BY <5>2, <1>1, <1>2, <1>3, NowServingLeast
        <5>. QED  BY <4>1, <5>1, <5>2, <5>3, <3>2, <2>3
      <4>2. CASE s # r
        <5>1. s \in Active(c) /\ s \in Serving(c)
          BY <4>2, <2>3, <1>1, <1>6, <3>3 DEF Serving
        <5>2. CASE t = new
          <6>1. ticket[s].number \in Nat /\ new.number \in Nat
            BY <5>1, <1>1, <1>2 DEF Active, TypeOK, Ticket
          <6>. QED  BY <5>1, <5>2, <6>1, <3>3, <3>4
        <5>3. CASE t \in tickets[c]
          BY <5>1, <5>3, <2>1, <2>3, <3>3 DEF InOrder, HeadServed
        <5>. QED  BY <5>2, <5>3, <3>1, <2>3
      <4>. QED  BY <4>1, <4>2
    <3>. QED  BY <3>5, <3>6, <3>7 DEF InOrder
  <2>. QED  BY <2>2, <2>3
<1>. QED  BY <1>8, <1>9, <1>10, <1>11, <1>12 DEF IInv

LEMMA TryAgainIInv ==
  ASSUME IInv, NEW r \in Requests, TryAgain(r)
  PROVE  IInv'
<1>. DEFINE c == conv[r]
<1>1. TypeOK /\ c \in Conversations /\ \A d \in Conversations : IsDeque(tickets[d])
  BY DEF IInv, Typed, TypeOK
<1>2. /\ pc[r] = "waiting" /\ pc'[r] \in {"waiting", "serving"}
      /\ pc'[r] = "serving" => NowServing(tickets[c], now) = ticket[r].number
      /\ \A s \in Requests : s # r => pc'[s] = pc[s]
      /\ pc' \in [Requests -> PCs]
  BY <1>1 DEF TryAgain, IsLocked, TypeOK, PCs
<1>3. /\ c \in lockIds
      /\ tickets' = [tickets EXCEPT ![c] = Unexpired(tickets[c], now)]
      /\ UNCHANGED <<now, lockIds, conv, ticket, ahead, overdue>>
  BY DEF TryAgain
<1>. HIDE DEF c
<1>4. \A d \in Conversations : Active(d)' = Active(d)
  BY <1>2, <1>3 DEF Active
<1>5. \A d \in Conversations : tickets'[d] \subseteq tickets[d]
  BY <1>1, <1>3 DEF TypeOK, Unexpired
<1>6. Typed'
  BY <1>1, <1>2, <1>3, <1>5, SubDeque DEF Typed, TypeOK, IsDeque, Unexpired
<1>7. NothingLeaks'
  BY <1>3, <1>4, <1>5 DEF IInv, NothingLeaks
<1>8. LockHoldsTickets'
  BY <1>3, <1>5 DEF IInv, LockHoldsTickets
<1>9. AheadEntered'
  BY <1>1, <1>2, <1>3 DEF IInv, AheadEntered, TypeOK
<1>10. ASSUME NEW d \in Conversations, ~overdue'[d]
       PROVE  InOrder(d)'
  <2>1. ~overdue[d] /\ InOrder(d)
    BY <1>10, <1>3 DEF IInv
  <2>2. tickets'[d] = tickets[d]
    BY <2>1, <1>1, <1>3, NothingExpired DEF TypeOK
  <2>3. Queued(d)' /\ Numbered(d)'
    BY <2>1, <2>2, <1>3, <1>4 DEF InOrder, Queued, Numbered
  <2>4. HeadServed(d)'
    <3>. SUFFICES ASSUME NEW s \in Serving(d)', NEW t \in tickets[d]
                  PROVE  ticket[s].number =< t.number
      BY <2>2, <1>3 DEF HeadServed
    <3>1. CASE s \in Serving(d)
      BY <3>1, <2>1 DEF InOrder, HeadServed
    <3>2. CASE s \notin Serving(d)
      <4>1. s = r /\ d = c /\ pc'[r] = "serving"
        BY <3>2, <1>2, <1>3, <1>4 DEF Serving, Active, c
      <4>2. Unexpired(tickets[c], now) = tickets[c] /\ now \in Nat
        BY <4>1, <2>1, <1>1, NothingExpired DEF TypeOK
      <4>3. NowServing(tickets[c], now) =< t.number
        BY <4>1, <4>2, <1>1, NowServingLeast
      <4>. QED  BY <4>1, <4>3, <1>2
    <3>. QED  BY <3>1, <3>2
  <2>. QED  BY <2>3, <2>4 DEF InOrder
<1>. QED  BY <1>6, <1>7, <1>8, <1>9, <1>10 DEF IInv

LEMMA ExitIInv ==
  ASSUME IInv, NEW r \in Requests, pc[r] \in {"waiting", "serving"},
         NEW outcome \in {"served", "refused", "cancelled"}, Exit(r, outcome)
  PROVE  IInv'
<1>. DEFINE c == conv[r]
            left == RemoveTicketFor(tickets[c], ticket[r].number, now)
<1>1. TypeOK /\ c \in Conversations /\ \A d \in Conversations : IsDeque(tickets[d])
  BY DEF IInv, Typed, TypeOK
<1>2. /\ tickets' = [tickets EXCEPT ![c] = left]
      /\ lockIds' = IF left = {} THEN lockIds \ {c} ELSE lockIds
      /\ pc' = [pc EXCEPT ![r] = outcome]
      /\ overdue' = [overdue EXCEPT ![c] = overdue[c] /\ Active(c) # {r}]
      /\ UNCHANGED <<now, conv, ticket, ahead>>
  BY DEF Exit, Cleanup
<1>3. /\ left \subseteq tickets[c]
      /\ \A t \in left : t.number # ticket[r].number
      /\ \A t \in tickets[c] :
           ~HasExpired(t, now) /\ t.number # ticket[r].number => t \in left
  BY DEF RemoveTicketFor, Unexpired
<1>. HIDE DEF c, left
<1>4. \A d \in Conversations :
        Active(d)' = IF d = c THEN Active(c) \ {r} ELSE Active(d)
  BY <1>1, <1>2 DEF Active, TypeOK, c
<1>5. \A d \in Conversations : /\ tickets'[d] \subseteq tickets[d]
                               /\ d # c => tickets'[d] = tickets[d]
                               /\ d = c => tickets'[d] = left
  BY <1>1, <1>2, <1>3 DEF TypeOK
<1>6. Typed'
  <2>1. \A d \in Conversations : IsDeque(tickets'[d])
    BY <1>1, <1>5, SubDeque
  <2>2. overdue' \in [Conversations -> BOOLEAN]
    BY <1>1, <1>2 DEF TypeOK
  <2>3. TypeOK'
    BY <1>1, <1>2, <1>3, <2>2 DEF TypeOK, PCs
  <2>. QED  BY <1>1, <1>2, <2>1, <2>3 DEF Typed, TypeOK
<1>7. \A d \in Conversations : \A t \in tickets'[d] :
        \E s \in Active(d)' : ticket'[s] = t
  <2>. SUFFICES ASSUME NEW d \in Conversations, NEW t \in tickets'[d]
                PROVE  \E s \in Active(d)' : ticket'[s] = t
    OBVIOUS
  <2>1. PICK s \in Active(d) : ticket[s] = t
    BY <1>5 DEF IInv, NothingLeaks
  <2>2. d = c => s # r
    BY <2>1, <1>3, <1>5
  <2>. QED  BY <2>1, <2>2, <1>2, <1>4
<1>8. NothingLeaks'
  <2>1. ASSUME NEW d \in Conversations, d \in lockIds'
        PROVE  Active(d)' # {}
    <3>1. CASE d = c
      <4>1. left # {}
        BY <3>1, <2>1, <1>2
      <4>. QED  BY <3>1, <4>1, <1>5, <1>7
    <3>2. CASE d # c
      BY <3>2, <2>1, <1>2, <1>4 DEF IInv, NothingLeaks
    <3>. QED  BY <3>1, <3>2
  <2>. QED  BY <1>7, <2>1 DEF NothingLeaks
<1>9. LockHoldsTickets'
  BY <1>2, <1>5 DEF IInv, LockHoldsTickets
<1>10. AheadEntered'
  BY <1>1, <1>2 DEF IInv, AheadEntered, TypeOK
<1>11. ASSUME NEW d \in Conversations, ~overdue'[d]
       PROVE  InOrder(d)'
  <2>1. CASE overdue[d]
    <3>1. Active(d)' = {}
      BY <2>1, <1>1, <1>2, <1>4, <1>11 DEF TypeOK
    <3>. QED  BY <3>1 DEF InOrder, Queued, Numbered, HeadServed, Serving
  <2>2. CASE ~overdue[d]
    <3>1. InOrder(d)
      BY <2>2 DEF IInv
    <3>2. Active(d)' \subseteq Active(d) /\ r \notin Active(d)'
      BY <1>1, <1>4 DEF Active, c
    <3>3. Numbered(d)'
      BY <3>1, <3>2, <1>2 DEF InOrder, Numbered
    <3>4. Queued(d)'
      <4>. SUFFICES ASSUME NEW s \in Active(d)'
                    PROVE  ticket[s] \in tickets'[d] /\ ~HasExpired(ticket[s], now)
        BY <1>2 DEF Queued
      <4>1. s \in Active(d) /\ s # r
        BY <3>2
      <4>2. ticket[s] \in tickets[d] /\ ~HasExpired(ticket[s], now)
        BY <4>1, <3>1 DEF InOrder, Queued
      <4>3. CASE d # c
        BY <4>2, <4>3, <1>5
      <4>4. CASE d = c
        <5>1. r \in Active(c)
          BY DEF Active, c
        <5>2. /\ ticket[s].number < ticket[r].number
                 \/ ticket[r].number < ticket[s].number
              /\ ticket[s].number \in Nat /\ ticket[r].number \in Nat
          BY <4>1, <4>4, <5>1, <3>1, <1>1
             DEF InOrder, Numbered, Active, TypeOK, Ticket
        <5>3. ticket[s].number # ticket[r].number
          BY <5>2
        <5>. QED  BY <4>2, <4>4, <5>3, <1>3, <1>5
      <4>. QED  BY <4>3, <4>4
    <3>5. HeadServed(d)'
      <4>1. Serving(d)' \subseteq Serving(d)
        BY <3>2, <1>1, <1>2 DEF Serving, Active, TypeOK
      <4>. QED  BY <4>1, <3>1, <1>2, <1>5 DEF InOrder, HeadServed
    <3>. QED  BY <3>3, <3>4, <3>5 DEF InOrder
  <2>. QED  BY <2>1, <2>2
<1>. QED  BY <1>6, <1>8, <1>9, <1>10, <1>11 DEF IInv

LEMMA TickIInv ==
  ASSUME IInv, Tick
  PROVE  IInv'
<1>1. /\ TypeOK
      /\ now' = now + 1
      /\ overdue' = [c \in Conversations |->
           overdue[c] \/ \E r \in Active(c) : HasExpired(ticket[r], now + 1)]
      /\ UNCHANGED <<lockIds, tickets, pc, conv, ticket, ahead>>
  BY DEF Tick, IInv, Typed
<1>2. \A c : Active(c)' = Active(c) /\ Serving(c)' = Serving(c)
  BY <1>1 DEF Active, Serving
<1>3. Typed'
  <2>1. overdue' \in [Conversations -> BOOLEAN]
    BY <1>1 DEF TypeOK
  <2>2. now' \in Nat
    BY <1>1 DEF TypeOK
  <2>. QED  BY <1>1, <2>1, <2>2 DEF IInv, Typed, TypeOK
<1>4. NothingLeaks' /\ LockHoldsTickets' /\ AheadEntered'
  BY <1>1, <1>2 DEF IInv, NothingLeaks, LockHoldsTickets, AheadEntered
<1>5. ASSUME NEW c \in Conversations, ~overdue'[c]
      PROVE  InOrder(c)'
  <2>1. ~overdue[c] /\ \A r \in Active(c) : ~HasExpired(ticket[r], now')
    BY <1>5, <1>1
  <2>2. InOrder(c)
    BY <2>1 DEF IInv
  <2>. QED  BY <2>1, <2>2, <1>1, <1>2
             DEF InOrder, Queued, Numbered, HeadServed
<1>. QED  BY <1>3, <1>4, <1>5 DEF IInv

LEMMA NextIInv == IInv /\ [Next]_vars => IInv'
<1>. SUFFICES ASSUME IInv, [Next]_vars PROVE IInv'
  OBVIOUS
<1>1. CASE Tick
  BY <1>1, TickIInv
<1>2. ASSUME NEW r \in Requests, Enter(r) PROVE IInv'
  BY <1>2, EnterIInv
<1>3. ASSUME NEW r \in Requests, TryAgain(r) PROVE IInv'
  BY <1>3, TryAgainIInv
<1>4. ASSUME NEW r \in Requests, Refused(r) PROVE IInv'
  BY <1>4, ExitIInv DEF Refused
<1>5. ASSUME NEW r \in Requests, Leave(r) PROVE IInv'
  BY <1>5, ExitIInv DEF Leave
<1>6. ASSUME NEW r \in Requests, Cancel(r) PROVE IInv'
  BY <1>6, ExitIInv DEF Cancel
<1>7. CASE UNCHANGED vars
  BY <1>7 DEF vars, IInv, Typed, TypeOK, NothingLeaks, LockHoldsTickets,
              AheadEntered, InOrder, Queued, Numbered, HeadServed, Serving, Active
<1>. QED  BY <1>1, <1>2, <1>3, <1>4, <1>5, <1>6, <1>7 DEF Next

\* The inductive invariant holds throughout.
THEOREM Invariance == Spec => []IInv
<1>. QED  BY InitIInv, NextIInv, PTL DEF Spec

-----------------------------------------------------------------------------
(* What follows from it.                                                   *)

\* Every variable keeps its type; in particular ticket numbers, which the
\* code derives from last_issued and its -1, are natural numbers.
THEOREM TypeCorrect == Spec => []TypeOK
<1>1. IInv => TypeOK
  BY DEF IInv, Typed
<1>. QED  BY <1>1, Invariance, PTL

\* lock_store.py's cleanup leaves no ticket of a request that has left and no
\* lock of a conversation without active requests, even after expiries.
THEOREM NothingLeaksAlways == Spec => []NothingLeaks
<1>1. IInv => NothingLeaks
  BY DEF IInv
<1>. QED  BY <1>1, Invariance, PTL

\* First come, first served while no active request is overdue.
THEOREM NoOvertakingAlways == Spec => []NoOvertaking
<1>1. IInv => NoOvertaking
  <2>. SUFFICES ASSUME IInv, NEW c \in Conversations, ~overdue[c],
                       NEW r \in Serving(c), NEW s \in ahead[r] \cap Active(c)
                PROVE  FALSE
    BY DEF NoOvertaking
  <2>1. InOrder(c) /\ TypeOK /\ r \in Active(c)
    BY DEF IInv, Typed, Serving
  <2>2. ticket[s].number < ticket[r].number
    BY <2>1 DEF InOrder, Numbered
  <2>3. ticket[r].number =< ticket[s].number
    BY <2>1 DEF InOrder, Queued, HeadServed
  <2>4. ticket[r].number \in Nat /\ ticket[s].number \in Nat
    BY <2>1 DEF TypeOK, Active, Ticket
  <2>. QED  BY <2>2, <2>3, <2>4
<1>. QED  BY <1>1, Invariance, PTL

\* Mutual exclusion while no active request is overdue.
THEOREM ServedAloneAlways == Spec => []ServedAlone
<1>1. IInv => ServedAlone
  <2>. SUFFICES ASSUME IInv, NEW c \in Conversations, ~overdue[c],
                       NEW r \in Serving(c), NEW s \in Serving(c), r # s
                PROVE  FALSE
    BY DEF ServedAlone
  <2>1. InOrder(c) /\ TypeOK /\ r \in Active(c) /\ s \in Active(c)
    BY DEF IInv, Typed, Serving
  <2>2. \/ ticket[s].number < ticket[r].number
        \/ ticket[r].number < ticket[s].number
    BY <2>1 DEF InOrder, Numbered
  <2>3. /\ ticket[r].number =< ticket[s].number
        /\ ticket[s].number =< ticket[r].number
    BY <2>1 DEF InOrder, Queued, HeadServed
  <2>4. ticket[r].number \in Nat /\ ticket[s].number \in Nat
    BY <2>1 DEF TypeOK, Active, Ticket
  <2>. QED  BY <2>2, <2>3, <2>4
<1>. QED  BY <1>1, Invariance, PTL

\* LockError only reaches a request of a conversation in which some request
\* outlived its ticket: cleanup does not delete a lock that is waited for.
THEOREM RefusedOnlyOverdueAlways == Spec => RefusedOnlyOverdue
<1>. DEFINE Step == \A r \in Requests :
       pc[r] # "refused" /\ pc'[r] = "refused" => overdue[conv[r]]
<1>1. IInv /\ [Next]_vars => Step
  <2>. SUFFICES ASSUME IInv, [Next]_vars, NEW r \in Requests,
                       pc[r] # "refused", pc'[r] = "refused"
                PROVE  overdue[conv[r]]
    OBVIOUS
  <2>1. TypeOK
    BY DEF IInv, Typed
  <2>2. Refused(r)
    <3>1. ~ Tick /\ ~ UNCHANGED vars
      BY DEF Tick, vars
    <3>2. PICK s \in Requests : \/ Enter(s) \/ TryAgain(s) \/ Refused(s)
                                \/ Leave(s) \/ Cancel(s)
      BY <3>1 DEF Next
    <3>3. CASE Enter(s) \/ TryAgain(s)
      BY <3>3, <2>1 DEF Enter, TryAgain, TypeOK
    <3>4. CASE Leave(s) \/ Cancel(s)
      BY <3>4, <2>1 DEF Leave, Cancel, Exit, TypeOK
    <3>5. CASE Refused(s)
      BY <3>5, <2>1 DEF Refused, Exit, TypeOK
    <3>. QED  BY <3>2, <3>3, <3>4, <3>5
  <2>3. conv[r] \in Conversations /\ r \in Active(conv[r])
        /\ tickets[conv[r]] = {}
    BY <2>1, <2>2 DEF Refused, TypeOK, Active, IInv, LockHoldsTickets
  <2>. QED  BY <2>3 DEF IInv, InOrder, Queued
<1>2. IInv /\ [Next]_vars => [Step]_vars
  BY <1>1
<1>. QED  BY <1>2, Invariance, PTL DEF Spec, RefusedOnlyOverdue

-----------------------------------------------------------------------------
(* LockStore implements FifoAccess.  The tickets disappear under the        *)
(* refinement; the inductive invariant supplies what they stand for:        *)
(* whoever is let in has nobody before it, and whoever is refused found an  *)
(* empty queue, unless somebody overstayed.                                 *)

Before == [r \in Requests |-> ahead[r] \cap Active(conv[r])]

\* Everybody in a conversation is in Access!Inside, and nobody else.
LEMMA InsideActive ==
  ASSUME NEW c
  PROVE  Access!Inside(c) = Active(c)
BY DEF Access!Inside, Active

LEMMA InitAccess == Init => Access!Init
BY DEF Init, Access!Init, Active

\* A request that is served in a conversation in order has nobody before it.
ServedFirst ==
  \A r \in Requests : pc[r] = "serving" /\ ~overdue[conv[r]] => Before[r] = {}

LEMMA ServedComesFirst == IInv => ServedFirst
<1>. SUFFICES ASSUME IInv, NEW r \in Requests,
                     pc[r] = "serving", ~overdue[conv[r]]
              PROVE  Before[r] = {}
  BY DEF ServedFirst
<1>1. TypeOK /\ conv[r] \in Conversations /\ InOrder(conv[r])
  BY DEF IInv, Typed, TypeOK
<1>2. r \in Serving(conv[r]) /\ r \in Active(conv[r])
  BY DEF Serving, Active
<1>. SUFFICES ASSUME NEW s \in ahead[r] \cap Active(conv[r]) PROVE FALSE
  BY DEF Before
<1>3. ticket[s].number < ticket[r].number
  BY <1>1, <1>2 DEF InOrder, Numbered
<1>4. ticket[r].number =< ticket[s].number
  BY <1>1, <1>2 DEF InOrder, Queued, HeadServed
<1>5. ticket[r].number \in Nat /\ ticket[s].number \in Nat
  BY <1>1 DEF TypeOK, Active, Ticket
<1>. QED  BY <1>3, <1>4, <1>5

-----------------------------------------------------------------------------
(* One lemma per action.                                                   *)

LEMMA EnterAccess ==
  ASSUME IInv, IInv', NEW r \in Requests, Enter(r)
  PROVE  Access!Enter(r)
<1>. DEFINE p == pc'[r]
<1>1. /\ TypeOK /\ pc[r] = "new" /\ r \notin Active(conv[r])
      /\ ahead' = [ahead EXCEPT ![r] = Active(conv[r])]
      /\ UNCHANGED <<conv, overdue>>
  BY DEF Enter, IInv, Typed, Active
<1>2. pc' = [pc EXCEPT ![r] = p] /\ p \in {"waiting", "serving"}
  BY <1>1 DEF Enter, TypeOK
<1>3. \A s \in Requests :
        Before'[s] = IF s = r THEN Active(conv[r]) ELSE Before[s]
  <2>. SUFFICES ASSUME NEW s \in Requests
                PROVE  Before'[s] = IF s = r THEN Active(conv[r]) ELSE Before[s]
    OBVIOUS
  <2>1. \A c : Active(c)' = IF c = conv[r] THEN Active(c) \union {r} ELSE Active(c)
    BY <1>1, <1>2 DEF Active, TypeOK
  <2>2. s # r => r \notin ahead[s]
    BY <1>1 DEF IInv, AheadEntered
  <2>3. ahead'[s] = IF s = r THEN Active(conv[r]) ELSE ahead[s]
    BY <1>1 DEF TypeOK
  <2>. QED  BY <1>1, <2>1, <2>2, <2>3 DEF Before
<1>4. Before' = [Before EXCEPT ![r] = Active(conv[r])]
  BY <1>3 DEF Before
<1>5. p = "serving" => Active(conv[r]) = {} \/ overdue[conv[r]]
  <2>. SUFFICES ASSUME p = "serving", ~overdue[conv[r]] PROVE Active(conv[r]) = {}
    OBVIOUS
  <2>1. Before'[r] = {}
    <3>1. ServedFirst'
      BY ServedComesFirst, PTL
    <3>. QED  BY <1>1, <3>1 DEF ServedFirst
  <2>. QED  BY <2>1, <1>3
<1>. HIDE DEF p
<1>. QED  BY <1>1, <1>2, <1>4, <1>5, InsideActive DEF Access!Enter, Before

LEMMA TryAgainAccess ==
  ASSUME IInv, IInv', NEW r \in Requests, TryAgain(r)
  PROVE  Access!Admit(r) \/ UNCHANGED Access!vars
<1>1. TypeOK /\ pc[r] = "waiting" /\ UNCHANGED <<conv, ahead, overdue>>
  BY DEF TryAgain, IInv, Typed
<1>2. \/ pc' = pc
      \/ pc' = [pc EXCEPT ![r] = "serving"]
  BY <1>1 DEF TryAgain, TypeOK
<1>3. UNCHANGED Before
  BY <1>1, <1>2 DEF Before, Active, TypeOK
<1>4. CASE pc' = pc
  BY <1>1, <1>3, <1>4 DEF Access!vars, Before
<1>5. CASE pc' = [pc EXCEPT ![r] = "serving"]
  <2>1. pc'[r] = "serving"
    BY <1>1, <1>5 DEF TypeOK
  <2>2. ~overdue[conv[r]] => Before[r] = {}
    <3>1. ServedFirst'
      BY ServedComesFirst, PTL
    <3>. QED  BY <2>1, <3>1, <1>1, <1>3 DEF ServedFirst
  <2>. QED  BY <1>1, <1>3, <1>5, <2>2 DEF Access!Admit, Before
<1>. QED  BY <1>2, <1>4, <1>5

LEMMA ExitAccess ==
  ASSUME IInv, NEW r \in Requests, NEW outcome \in Access!Outcomes,
         pc[r] = (IF outcome = "served" THEN "serving" ELSE "waiting"),
         outcome = "refused" => overdue[conv[r]],
         Exit(r, outcome)
  PROVE  Access!Exit(r, outcome)
<1>1. /\ TypeOK
      /\ pc' = [pc EXCEPT ![r] = outcome]
      /\ overdue' = [overdue EXCEPT ![conv[r]] = @ /\ Active(conv[r]) # {r}]
      /\ UNCHANGED <<conv, ahead>>
  BY DEF Exit, IInv, Typed
<1>2. \A c : Active(c)' = Active(c) \ {r}
  BY <1>1 DEF Active, TypeOK, Access!Outcomes
<1>3. Before' = [s \in Requests |-> Before[s] \ {r}]
  BY <1>1, <1>2 DEF Before
<1>. QED  BY <1>1, <1>3, InsideActive DEF Access!Exit, Before

LEMMA TickAccess ==
  ASSUME IInv, Tick
  PROVE  Access!Overstay
<1>1. UNCHANGED <<pc, conv, ahead>> /\ UNCHANGED Before
  BY DEF Tick, Before, Active
<1>. DEFINE late == {c \in Conversations :
                       \E r \in Active(c) : HasExpired(ticket[r], now + 1)}
<1>2. late \in SUBSET {c \in Conversations : Access!Inside(c) # {}}
  BY InsideActive
<1>3. overdue' = [c \in Conversations |-> overdue[c] \/ c \in late]
  BY DEF Tick
<1>. HIDE DEF late
<1>. QED  BY <1>1, <1>2, <1>3 DEF Access!Overstay, Before

LEMMA NextAccess == IInv /\ IInv' /\ [Next]_vars => [Access!Next]_(Access!vars)
<1>. SUFFICES ASSUME IInv, IInv', [Next]_vars PROVE [Access!Next]_(Access!vars)
  OBVIOUS
<1>1. CASE Tick
  BY <1>1, TickAccess DEF Access!Next
<1>2. ASSUME NEW r \in Requests, Enter(r) PROVE Access!Next
  BY <1>2, EnterAccess DEF Access!Next
<1>3. ASSUME NEW r \in Requests, TryAgain(r) PROVE [Access!Next]_(Access!vars)
  BY <1>3, TryAgainAccess DEF Access!Next
<1>4. ASSUME NEW r \in Requests, Refused(r) PROVE Access!Next
  <2>1. overdue[conv[r]]
    <3>1. TypeOK /\ conv[r] \in Conversations /\ r \in Active(conv[r])
      BY <1>4 DEF Refused, IInv, Typed, TypeOK, Active
    <3>2. tickets[conv[r]] = {}
      BY <1>4, <3>1 DEF Refused, IInv, LockHoldsTickets
    <3>. QED  BY <3>1, <3>2 DEF IInv, InOrder, Queued
  <2>2. "refused" \in Access!Outcomes
    BY DEF Access!Outcomes
  <2>3. Access!Exit(r, "refused")
    BY <1>4, <2>1, <2>2, ExitAccess DEF Refused
  <2>. QED  BY <2>2, <2>3 DEF Access!Next
<1>5. ASSUME NEW r \in Requests, Leave(r) PROVE Access!Next
  <2>1. "served" \in Access!Outcomes
    BY DEF Access!Outcomes
  <2>2. Access!Exit(r, "served")
    BY <1>5, <2>1, ExitAccess DEF Leave
  <2>. QED  BY <2>1, <2>2 DEF Access!Next
<1>6. ASSUME NEW r \in Requests, Cancel(r) PROVE Access!Next
  <2>1. "cancelled" \in Access!Outcomes
    BY DEF Access!Outcomes
  <2>2. Access!Exit(r, "cancelled")
    BY <1>6, <2>1, ExitAccess DEF Cancel
  <2>. QED  BY <2>1, <2>2 DEF Access!Next
<1>7. CASE UNCHANGED vars
  BY <1>7 DEF vars, Access!vars, Active
<1>. QED  BY <1>1, <1>2, <1>3, <1>4, <1>5, <1>6, <1>7 DEF Next

\* LockStore.lock() gives first-come, first-served access to a conversation
\* until a request stays inside longer than its ticket is valid.
THEOREM Refinement == Spec => ImplementsFifoAccess
<1>. QED  BY InitAccess, NextAccess, Invariance, PTL
          DEF Spec, ImplementsFifoAccess, Access!Spec

-----------------------------------------------------------------------------
(* The handlers under the lock.                                            *)

\* The lock store, together with the handlers, behaves as on its own: a step
\* of a handler is no step of the lock store.
THEOREM Composition == AccessSpec => Spec
<1>1. AccessInit => Init
  BY DEF AccessInit
<1>2. [AccessNext]_accessVars => [Next]_vars
  BY DEF AccessNext, accessVars, Lock, Fetch, SaveUnderLock, Replace, Read, Write,
         FetchForPrediction, SavePrediction
<1>. QED  BY <1>1, <1>2, PTL DEF AccessSpec, Spec

\* What the handlers rely on.
Locking == TypeOK /\ ServedAlone /\ NoOvertaking /\ AheadEntered

\* Requests are served alone here as well, until one is overdue.
LEMMA LockInvariants == AccessSpec => []Locking
<1>1. IInv => AheadEntered
  BY DEF IInv
<1>. QED  BY <1>1, Composition, Invariance, TypeCorrect, ServedAloneAlways,
             NoOvertakingAlways, PTL DEF Locking

\* What a step of the lock store does to one request, as far as it matters
\* here: nobody goes back to waiting, the history of overdue tickets is
\* forgotten only when the last request leaves, and who was ahead is settled
\* when one enters.
LEMMA LockStep ==
  ASSUME TypeOK, Next, NEW r \in Requests
  PROVE  /\ conv' = conv
         /\ pc'[r] \in {"new", "waiting"} => pc[r] \in {"new", "waiting"}
         /\ pc'[r] = "serving" => pc[r] \in {"new", "waiting", "serving"}
         /\ pc'[r] = "serving" /\ ~overdue'[conv[r]] /\ pc[r] = "serving"
              => ~overdue[conv[r]]
         /\ pc[r] # "new" => ahead'[r] = ahead[r]
<1>1. CASE Tick
  BY <1>1 DEF Tick, TypeOK
<1>2. ASSUME NEW s \in Requests, Enter(s) \/ TryAgain(s)
      PROVE  /\ conv' = conv /\ overdue' = overdue
             /\ pc[s] \in {"new", "waiting"}
             /\ \E v \in {"waiting", "serving"} : pc' = [pc EXCEPT ![s] = v]
             /\ pc[r] # "new" => ahead'[r] = ahead[r]
  BY <1>2 DEF Enter, TryAgain, TypeOK
<1>3. ASSUME NEW s \in Requests, Refused(s) \/ Leave(s) \/ Cancel(s)
      PROVE  /\ conv' = conv /\ ahead' = ahead
             /\ pc[s] \in {"waiting", "serving"}
             /\ \E v \in {"refused", "served", "cancelled"} : pc' = [pc EXCEPT ![s] = v]
             /\ overdue' = [overdue EXCEPT ![conv[s]] = @ /\ Active(conv[s]) # {s}]
  BY <1>3 DEF Refused, Leave, Cancel, Exit
<1>4. ASSUME NEW s \in Requests, Enter(s) \/ TryAgain(s)
      PROVE  /\ conv' = conv
             /\ pc'[r] \in {"new", "waiting"} => pc[r] \in {"new", "waiting"}
             /\ pc'[r] = "serving" => pc[r] \in {"new", "waiting", "serving"}
             /\ pc'[r] = "serving" /\ ~overdue'[conv[r]] /\ pc[r] = "serving"
                  => ~overdue[conv[r]]
  BY <1>4, <1>2 DEF TypeOK
<1>5. ASSUME NEW s \in Requests, Refused(s) \/ Leave(s) \/ Cancel(s)
      PROVE  /\ conv' = conv
             /\ pc'[r] \in {"new", "waiting"} => pc[r] \in {"new", "waiting"}
             /\ pc'[r] = "serving" => pc[r] \in {"new", "waiting", "serving"}
             /\ pc'[r] = "serving" /\ ~overdue'[conv[r]] /\ pc[r] = "serving"
                  => ~overdue[conv[r]]
  <2>1. PICK v \in {"refused", "served", "cancelled"} : pc' = [pc EXCEPT ![s] = v]
    BY <1>5, <1>3
  <2>2. pc'[r] = "serving" => r # s /\ pc[r] = "serving"
    BY <2>1 DEF TypeOK
  <2>3. ASSUME pc'[r] = "serving", overdue[conv[r]] PROVE overdue'[conv[r]]
    <3>1. r \in Active(conv[r])
      BY <2>2, <2>3 DEF Active
    <3>2. conv[r] \in Conversations /\ conv[s] \in Conversations
      BY DEF TypeOK
    <3>3. conv[r] = conv[s] => Active(conv[s]) # {s}
      BY <3>1, <2>2, <2>3
    <3>. QED  BY <1>5, <1>3, <2>3, <3>2, <3>3 DEF TypeOK
  <2>4. conv' = conv /\ (pc'[r] \in {"new", "waiting"} => pc[r] \in {"new", "waiting"})
    BY <1>5, <1>3, <2>1 DEF TypeOK
  <2>. QED  BY <2>2, <2>3, <2>4
<1>. QED  BY <1>1, <1>2, <1>3, <1>4, <1>5 DEF Next, Tick

-----------------------------------------------------------------------------
(* Types.                                                                  *)

LEMMA StoredSeq ==
  ASSUME NEW S, NEW s \in Seq(S), NEW t \in Seq(S)
  PROVE  Stored(s, t) \in Seq(S)
<1>1. CASE appends
  <2>1. SubSeq(t, Len(s) + 1, Len(t)) \in Seq(S)
    OBVIOUS
  <2>. QED  BY <1>1, <2>1 DEF Stored
<1>2. CASE ~appends
  BY <1>2 DEF Stored
<1>. QED  BY <1>1, <1>2

LEMMA WriteType ==
  ASSUME AccessTypeOK, TypeOK, NEW q \in Clients, NEW t \in Seq(Clients), Write(q, t)
  PROVE  AccessTypeOK'
<1>1. Of(q) \in Conversations
  BY DEF Of, AccessTypeOK, TypeOK, Clients
<1>2. Stored(dialogue[Of(q)], t) \in Seq(Clients)
  BY <1>1, StoredSeq DEF AccessTypeOK
<1>3. raced' \subseteq Clients
  BY DEF Write, Overtaken, AccessTypeOK
<1>4. tracker' \in [Clients -> Seq(Clients)]
  BY DEF Write, AccessTypeOK
<1>. QED  BY <1>1, <1>2, <1>3, <1>4 DEF Write, AccessTypeOK

\* The saves of the handlers, as one.
LEMMA Writes ==
  ASSUME AccessTypeOK, NEW q \in Clients,
         \/ q \in Requests /\ (SaveUnderLock(q) \/ Replace(q))
         \/ q \in Predictions /\ SavePrediction(q)
  PROVE  \E t \in {<<q>>, tracker[q], Append(tracker[q], q)} :
           t \in Seq(Clients) /\ Write(q, t)
<1>1. /\ tracker[q] \in Seq(Clients) /\ <<q>> \in Seq(Clients)
      /\ Append(tracker[q], q) \in Seq(Clients)
  BY DEF AccessTypeOK
<1>. QED  BY <1>1 DEF SaveUnderLock, Replace, SavePrediction

LEMMA NextType == AccessTypeOK /\ TypeOK /\ [AccessNext]_accessVars => AccessTypeOK'
<1>. SUFFICES ASSUME AccessTypeOK, TypeOK, [AccessNext]_accessVars
              PROVE  AccessTypeOK'
  OBVIOUS
<1>1. CASE Lock
  BY <1>1 DEF Lock, AccessTypeOK
<1>2. ASSUME NEW q \in Clients, Read(q) PROVE AccessTypeOK'
  <2>1. Of(q) \in Conversations
    BY DEF Of, AccessTypeOK, TypeOK, Clients
  <2>. QED  BY <1>2, <2>1 DEF Read, AccessTypeOK
<1>3. ASSUME NEW q \in Clients,
             \/ q \in Requests /\ (SaveUnderLock(q) \/ Replace(q))
             \/ q \in Predictions /\ SavePrediction(q)
      PROVE  AccessTypeOK'
  BY <1>3, Writes, WriteType
<1>4. CASE UNCHANGED accessVars
  BY <1>4 DEF accessVars, AccessTypeOK
<1>5. \A q \in Requests \union Predictions : q \in Clients
  BY DEF Clients
<1>. QED  BY <1>1, <1>2, <1>3, <1>4, <1>5 DEF AccessNext, Fetch, FetchForPrediction

\* The stored trackers and the copies keep their types.
THEOREM AccessTypeCorrect == AccessSpec => []AccessTypeOK
<1>1. AccessInit => AccessTypeOK
  BY DEF AccessInit, AccessTypeOK
<1>. QED  BY <1>1, NextType, LockInvariants, PTL DEF AccessSpec, Locking

-----------------------------------------------------------------------------
(* Fresh copies.                                                           *)

\* Nobody works on a tracker before being served.
WorksWhenServed ==
  \A r \in Requests : pc[r] \in {"new", "waiting"} => work[r] = "nothing"

\* The copy of a prediction that nothing overtook.
FreshPredictions ==
  \A p \in Predictions :
    work[p] = "fetched" /\ p \notin raced => tracker[p] = dialogue[about[p]]

Fresh == WorksWhenServed /\ FreshTracker /\ FreshPredictions

LEMMA LockFresh ==
  ASSUME TypeOK, Fresh, Lock
  PROVE  Fresh'
<1>1. WorksWhenServed'
  BY LockStep DEF Lock, Fresh, WorksWhenServed
<1>2. FreshTracker'
  <2>. SUFFICES ASSUME NEW r \in Requests, pc'[r] = "serving",
                       work[r] = "fetched", ~overdue'[conv[r]], r \notin raced
                PROVE  tracker[r] = dialogue[conv[r]]
    BY LockStep DEF Lock, FreshTracker
  <2>1. pc[r] = "serving"
    BY LockStep DEF Lock, Fresh, WorksWhenServed
  <2>2. ~overdue[conv[r]]
    BY <2>1, LockStep DEF Lock
  <2>. QED  BY <2>1, <2>2 DEF Fresh, FreshTracker
<1>3. FreshPredictions'
  BY DEF Lock, Fresh, FreshPredictions
<1>. QED  BY <1>1, <1>2, <1>3 DEF Fresh

\* A client that fetches has what is stored.
LEMMA ReadFresh ==
  ASSUME AccessTypeOK, Fresh, NEW q \in Clients, Read(q),
         q \in Requests => pc[q] = "serving"
  PROVE  Fresh'
<1>1. /\ UNCHANGED <<pc, conv, overdue, about, raced, dialogue>>
      /\ \A s \in Clients \ {q} : work'[s] = work[s] /\ tracker'[s] = tracker[s]
      /\ tracker'[q] = dialogue[Of(q)]
  BY DEF Read, vars, AccessTypeOK
<1>2. Requests \subseteq Clients /\ Predictions \subseteq Clients
  BY DEF Clients
<1>3. WorksWhenServed'
  BY <1>1, <1>2 DEF Fresh, WorksWhenServed
<1>4. FreshTracker'
  <2>. SUFFICES ASSUME NEW r \in Requests, pc[r] = "serving",
                       work'[r] = "fetched", ~overdue[conv[r]], r \notin raced
                PROVE  tracker'[r] = dialogue[conv[r]]
    BY <1>1 DEF FreshTracker
  <2>1. CASE r = q
    BY <1>1, <2>1 DEF Of
  <2>2. CASE r # q
    BY <1>1, <1>2, <2>2 DEF Fresh, FreshTracker
  <2>. QED  BY <2>1, <2>2
<1>5. FreshPredictions'
  <2>. SUFFICES ASSUME NEW p \in Predictions, work'[p] = "fetched", p \notin raced
                PROVE  tracker'[p] = dialogue[about[p]]
    BY <1>1 DEF FreshPredictions
  <2>1. CASE p = q
    BY <1>1, <2>1, PredictionsAssumption DEF Of
  <2>2. CASE p # q
    BY <1>1, <1>2, <2>2 DEF Fresh, FreshPredictions
  <2>. QED  BY <2>1, <2>2
<1>. QED  BY <1>3, <1>4, <1>5 DEF Fresh

\* A save touches the tracker of its conversation.  Another request that is
\* served there is overdue; other copies of it are raced, if a prediction is
\* involved.
LEMMA WriteFresh ==
  ASSUME TypeOK, ServedAlone, AccessTypeOK, Fresh, NEW q \in Clients, NEW t, Write(q, t),
         q \in Requests => pc[q] = "serving"
  PROVE  Fresh'
<1>1. /\ UNCHANGED <<pc, conv, overdue, about>>
      /\ \A s \in Clients \ {q} : work'[s] = work[s] /\ tracker'[s] = tracker[s]
      /\ work'[q] = "saved"
      /\ \A c \in Conversations \ {Of(q)} : dialogue'[c] = dialogue[c]
      /\ \A s \in Clients \ {q} : s \notin raced' => s \notin raced /\ s \notin Overtaken(q)
  BY DEF Write, vars, AccessTypeOK
<1>2. Requests \subseteq Clients /\ Predictions \subseteq Clients
  BY DEF Clients
<1>3. WorksWhenServed'
  <2>. SUFFICES ASSUME NEW r \in Requests, pc[r] \in {"new", "waiting"}
                PROVE  work'[r] = "nothing"
    BY <1>1 DEF WorksWhenServed
  <2>. QED  BY <1>1, <1>2 DEF Fresh, WorksWhenServed
<1>4. FreshTracker'
  <2>. SUFFICES ASSUME NEW r \in Requests, pc[r] = "serving",
                       work'[r] = "fetched", ~overdue[conv[r]], r \notin raced'
                PROVE  tracker'[r] = dialogue'[conv[r]]
    BY <1>1 DEF FreshTracker
  <2>1. r # q /\ r \in Clients \ {q} /\ work[r] = "fetched" /\ r \notin raced
        /\ tracker'[r] = tracker[r]
    BY <1>1, <1>2
  <2>2. Of(q) # conv[r]
    <3>1. CASE q \in Requests
      <4>1. conv[r] \in Conversations /\ conv[q] \in Conversations
        BY <3>1 DEF TypeOK
      <4>2. ASSUME conv[q] = conv[r] PROVE FALSE
        BY <2>1, <3>1, <4>1, <4>2 DEF ServedAlone, Serving, Active
      <4>. QED  BY <3>1, <4>2 DEF Of
    <3>2. CASE q \in Predictions
      <4>1. Of(r) = conv[r]
        BY DEF Of
      <4>. QED  BY <1>1, <2>1, <3>2, <4>1 DEF Overtaken
    <3>. QED  BY <3>1, <3>2 DEF Clients
  <2>3. conv[r] \in Conversations
    BY DEF TypeOK
  <2>. QED  BY <1>1, <2>1, <2>2, <2>3 DEF Fresh, FreshTracker
<1>5. FreshPredictions'
  <2>. SUFFICES ASSUME NEW p \in Predictions, work'[p] = "fetched", p \notin raced'
                PROVE  tracker'[p] = dialogue'[about[p]]
    BY <1>1 DEF FreshPredictions
  <2>1. p \in Clients \ {q} /\ work[p] = "fetched" /\ p \notin raced
        /\ tracker'[p] = tracker[p] /\ p \notin Overtaken(q)
    BY <1>1, <1>2
  <2>2. Of(p) = about[p] /\ about[p] \in Conversations
    BY PredictionsAssumption DEF Of, AccessTypeOK
  <2>3. Of(q) # about[p]
    BY <2>1, <2>2 DEF Overtaken
  <2>. QED  BY <1>1, <2>1, <2>2, <2>3 DEF Fresh, FreshPredictions
<1>. QED  BY <1>3, <1>4, <1>5 DEF Fresh

LEMMA NextFresh ==
  Locking /\ AccessTypeOK /\ Fresh /\ [AccessNext]_accessVars => Fresh'
<1>. SUFFICES ASSUME Locking, AccessTypeOK, Fresh, [AccessNext]_accessVars
              PROVE  Fresh'
  OBVIOUS
<1>1. TypeOK /\ ServedAlone
  BY DEF Locking
<1>2. CASE UNCHANGED accessVars
  BY <1>2 DEF accessVars, vars, Fresh, WorksWhenServed, FreshTracker, FreshPredictions
<1>3. \A q \in Requests \union Predictions : q \in Clients
  BY DEF Clients
<1>4. ASSUME NEW r \in Requests, Fetch(r) PROVE Fresh'
  BY <1>3, <1>4, ReadFresh DEF Fetch
<1>5. ASSUME NEW p \in Predictions, FetchForPrediction(p) PROVE Fresh'
  BY <1>3, <1>5, ReadFresh, PredictionsAssumption DEF FetchForPrediction
<1>6. ASSUME NEW q \in Clients,
             \/ q \in Requests /\ (SaveUnderLock(q) \/ Replace(q))
             \/ q \in Predictions /\ SavePrediction(q)
      PROVE  Fresh'
  <2>1. PICK t : Write(q, t)
    BY <1>6, Writes
  <2>2. q \in Requests => pc[q] = "serving"
    BY <1>6, PredictionsAssumption DEF SaveUnderLock, Replace
  <2>. QED  BY <1>1, <2>1, <2>2, WriteFresh
<1>. QED  BY <1>1, <1>2, <1>3, <1>4, <1>5, <1>6, LockFresh DEF AccessNext

LEMMA FreshAlways == AccessSpec => []Fresh
<1>1. AccessInit => Fresh
  BY DEF AccessInit, Init, Fresh, WorksWhenServed, FreshTracker, FreshPredictions, Clients
<1>. QED  BY <1>1, NextFresh, LockInvariants, AccessTypeCorrect, PTL DEF AccessSpec

\* Under the lock and in time, no handler works on a stale tracker, unless a
\* prediction saves meanwhile: the copy of a request equals what is stored.
THEOREM FreshTrackerAlways == AccessSpec => []FreshTracker
<1>1. Fresh => FreshTracker
  BY DEF Fresh
<1>. QED  BY <1>1, FreshAlways, PTL

-----------------------------------------------------------------------------
(* What the saves do.                                                      *)

\* A store that appends adds the last event of a tracker one longer than what
\* is stored, and nothing of one that is no longer.
LEMMA StoredAppends ==
  ASSUME NEW S, NEW s \in Seq(S), NEW t \in Seq(S), appends, Len(t) =< Len(s) + 1
  PROVE  Stored(s, t) = IF Len(t) = Len(s) + 1 THEN Append(s, t[Len(t)]) ELSE s
<1>. DEFINE n == Len(s)
            rest == SubSeq(t, n + 1, Len(t))
<1>1. n \in Nat /\ Len(t) \in Nat
  OBVIOUS
<1>2. Stored(s, t) = s \o rest
  BY DEF Stored
<1>3. CASE Len(t) = n + 1
  <2>1. \A i \in n + 1 .. Len(t) : t[i] \in S
    BY <1>1, ElementOfSeq
  <2>2. rest \in Seq(S) /\ Len(rest) = 1 /\ rest[1] = t[n + 1]
    BY <1>1, <1>3, <2>1, SubSeqProperties
  <2>. HIDE DEF rest
  <2>3. rest = <<t[n + 1]>>
    BY <2>2, SeqEqual
  <2>4. t[n + 1] \in S
    BY <1>1, <1>3, <2>1
  <2>5. s \o <<t[n + 1]>> = Append(s, t[n + 1])
    BY <2>4, AppendIsConcat
  <2>. QED  BY <1>2, <1>3, <2>3, <2>5
<1>4. CASE Len(t) # n + 1
  <2>1. rest = << >>
    BY <1>1, <1>4, SubSeqEmpty
  <2>. QED  BY <1>2, <1>4, <2>1, ConcatEmptySeq
<1>. QED  BY <1>3, <1>4

\* Saving what was fetched and one event appends the event, in both kinds of
\* stores.
LEMMA StoredExtends ==
  ASSUME NEW S, NEW s \in Seq(S), NEW e \in S, AccessTypeOK
  PROVE  Stored(s, Append(s, e)) = Append(s, e) /\ Stored(s, s) = s
<1>. DEFINE t == Append(s, e)
<1>1. t \in Seq(S) /\ Len(t) = Len(s) + 1 /\ t[Len(t)] = e /\ Len(s) \in Nat
  OBVIOUS
<1>. HIDE DEF t
<1>2. CASE appends
  <2>1. Stored(s, t) = Append(s, e)
    BY <1>1, <1>2, StoredAppends
  <2>2. Stored(s, s) = s
    BY <1>1, <1>2, StoredAppends
  <2>. QED  BY <2>1, <2>2 DEF t
<1>3. CASE ~appends
  BY <1>3 DEF Stored, t
<1>. QED  BY <1>2, <1>3

\* No save of a tracker that was fetched loses or changes what another one
\* stored, until a ticket of the conversation is outlived or a save without
\* the lock comes in between.
THEOREM NothingLostAlways == AccessSpec => NothingLost
<1>. DEFINE Step == \A q \in Clients :
       /\ work[q] = "fetched" /\ work'[q] = "saved"
       /\ ~overdue[Of(q)]
       /\ q \notin raced
       => \/ dialogue' = [dialogue EXCEPT ![Of(q)] = Append(@, q)]
          \/ q \in Predictions /\ dialogue' = dialogue
<1>1. TypeOK /\ AccessTypeOK /\ Fresh /\ [AccessNext]_accessVars => Step
  <2>. SUFFICES ASSUME TypeOK, AccessTypeOK, Fresh, [AccessNext]_accessVars,
                       NEW q \in Clients, work[q] = "fetched", work'[q] = "saved",
                       ~overdue[Of(q)], q \notin raced
                PROVE  \/ dialogue' = [dialogue EXCEPT ![Of(q)] = Append(@, q)]
                       \/ q \in Predictions /\ dialogue' = dialogue
    OBVIOUS
  <2>1. ASSUME NEW s \in Clients, Read(s) PROVE FALSE
    BY <2>1 DEF Read, AccessTypeOK
  <2>2. ASSUME NEW s \in Clients, NEW t, Write(s, t) PROVE s = q
    BY <2>2 DEF Write, AccessTypeOK
  <2>3. \A s \in Requests \union Predictions : s \in Clients
    BY DEF Clients
  <2>4. \/ q \in Requests /\ SaveUnderLock(q)
        \/ q \in Predictions /\ SavePrediction(q)
    <3>1. ~Lock /\ ~UNCHANGED accessVars
      BY DEF Lock, accessVars
    <3>2. ASSUME NEW r \in Requests, Fetch(r) \/ Replace(r) PROVE FALSE
      BY <2>1, <2>2, <2>3, <3>2 DEF Fetch, Replace
    <3>3. ASSUME NEW p \in Predictions, FetchForPrediction(p) PROVE FALSE
      BY <2>1, <2>3, <3>3 DEF FetchForPrediction
    <3>4. ASSUME NEW r \in Requests, SaveUnderLock(r) PROVE r = q
      BY <2>2, <2>3, <3>4 DEF SaveUnderLock
    <3>5. ASSUME NEW p \in Predictions, SavePrediction(p) PROVE p = q
      BY <2>2, <2>3, <3>5 DEF SavePrediction
    <3>. QED  BY <3>1, <3>2, <3>3, <3>4, <3>5 DEF AccessNext
  <2>5. Of(q) \in Conversations /\ dialogue[Of(q)] \in Seq(Clients)
    BY DEF Of, AccessTypeOK, TypeOK, Clients
  <2>6. tracker[q] = dialogue[Of(q)]
    <3>1. CASE q \in Requests /\ SaveUnderLock(q)
      BY <3>1 DEF Fresh, FreshTracker, SaveUnderLock, Of
    <3>2. CASE q \in Predictions /\ SavePrediction(q)
      BY <3>2, PredictionsAssumption DEF Fresh, FreshPredictions, Of
    <3>. QED  BY <2>4, <3>1, <3>2
  <2>7. /\ Stored(dialogue[Of(q)], Append(tracker[q], q)) = Append(dialogue[Of(q)], q)
        /\ Stored(dialogue[Of(q)], tracker[q]) = dialogue[Of(q)]
    BY <2>5, <2>6, StoredExtends
  <2>8. CASE Write(q, Append(tracker[q], q))
    BY <2>7, <2>8 DEF Write
  <2>9. CASE Write(q, tracker[q]) /\ q \in Predictions
    BY <2>5, <2>7, <2>9 DEF Write, AccessTypeOK
  <2>. QED  BY <2>4, <2>8, <2>9 DEF SaveUnderLock, SavePrediction
<1>. QED  BY <1>1, LockInvariants, AccessTypeCorrect, FreshAlways, PTL
          DEF AccessSpec, NothingLost, Locking

-----------------------------------------------------------------------------
(* What is stored, and in which order.                                     *)

\* The elements of s stand in an order that R allows.
Arranged(s, R) ==
  \A i \in 1 .. Len(s) : \A j \in 1 .. Len(s) : i < j => <<s[i], s[j]>> \in R

LEMMA ArrangedWider ==
  ASSUME NEW S, NEW T, NEW R, NEW Q, NEW s \in Seq(S), Arranged(s, R), S \subseteq T,
         \A d \in S : \A e \in S : <<d, e>> \in R => <<d, e>> \in Q
  PROVE  s \in Seq(T) /\ Arranged(s, Q)
<1>1. /\ Len(s) \in Nat /\ \A i \in 1 .. Len(s) : s[i] \in S
      /\ s \in [1 .. Len(s) -> S]
  BY LenProperties, ElementOfSeq
<1>2. s \in [1 .. Len(s) -> T]
  BY <1>1
<1>3. s \in Seq(T)
  BY <1>1, <1>2, IsASeq
<1>4. Arranged(s, Q)
  BY <1>1 DEF Arranged
<1>. QED  BY <1>3, <1>4

LEMMA ArrangedAppend ==
  ASSUME NEW S, NEW R, NEW s \in Seq(S), Arranged(s, R), NEW e,
         \A d \in S : <<d, e>> \in R
  PROVE  /\ Append(s, e) \in Seq(S \union {e})
         /\ Arranged(Append(s, e), R)
<1>. DEFINE t == Append(s, e)
<1>1. s \in Seq(S \union {e}) /\ Len(s) \in Nat /\ \A i \in 1 .. Len(s) : s[i] \in S
  <2>1. s \in [1 .. Len(s) -> S] /\ Len(s) \in Nat
    BY LenProperties
  <2>2. s \in [1 .. Len(s) -> S \union {e}]
    BY <2>1
  <2>. QED  BY <2>1, <2>2, IsASeq, ElementOfSeq
<1>2. /\ t \in Seq(S \union {e}) /\ Len(t) = Len(s) + 1
      /\ \A i \in 1 .. Len(s) : t[i] = s[i]
      /\ t[Len(s) + 1] = e
  BY <1>1, AppendProperties
<1>. HIDE DEF t
<1>3. ASSUME NEW i \in 1 .. Len(t), NEW j \in 1 .. Len(t), i < j
      PROVE  <<t[i], t[j]>> \in R
  <2>1. i \in 1 .. Len(s)
    BY <1>1, <1>2, <1>3
  <2>2. CASE j \in 1 .. Len(s)
    BY <1>2, <1>3, <2>1, <2>2 DEF Arranged
  <2>3. CASE j = Len(s) + 1
    BY <1>1, <1>2, <2>1, <2>3
  <2>. QED  BY <1>1, <1>2, <2>2, <2>3
<1>. QED  BY <1>2, <1>3 DEF Arranged, t

\* The clients whose events are stored in c, and which may be before which.
Done(c) == {q \in Clients : work[q] = "saved" /\ Of(q) = c}

MayPrecede(c) ==
  {p \in Clients \X Clients :
     /\ p[1] # p[2]
     /\ c \notin disordered /\ {p[1], p[2]} \subseteq Requests => p[2] \notin ahead[p[1]]}

\* A tracker of c is in order.
Sound(s, c) == s \in Seq(Done(c)) /\ Arranged(s, MayPrecede(c))

\* Nobody who came before a request that has saved is still to save.
SavedLast ==
  \A r \in Requests :
    work[r] = "saved" /\ conv[r] \notin disordered => ahead[r] \cap Active(conv[r]) = {}

DisorderKept == \A c \in Conversations : overdue[c] => c \in disordered

\* A copy is never ahead of a store that appends.
CopiesBehind ==
  appends => \A q \in Clients :
    work[q] = "fetched" => Len(tracker[q]) =< Len(dialogue[Of(q)])

Ordered ==
  /\ SavedLast /\ DisorderKept /\ CopiesBehind
  /\ \A c \in Conversations : Sound(dialogue[c], c)
  /\ \A q \in Clients : Sound(tracker[q], Of(q))

LEMMA EmptySound == ASSUME NEW c PROVE Sound(<< >>, c)
<1>1. << >> \in Seq(Done(c)) /\ Len(<< >>) = 0
  BY EmptySeq
<1>. QED  BY <1>1 DEF Sound, Arranged

LEMMA InitOrdered == AccessInit => Ordered
<1>. SUFFICES ASSUME AccessInit PROVE Ordered
  OBVIOUS
<1>1. \A q \in Clients : work[q] = "nothing" /\ tracker[q] = << >>
  BY DEF AccessInit
<1>2. Requests \subseteq Clients
  BY DEF Clients
<1>3. SavedLast /\ DisorderKept /\ CopiesBehind
  BY <1>1, <1>2 DEF AccessInit, Init, SavedLast, DisorderKept, CopiesBehind
<1>4. \A c \in Conversations : dialogue[c] = << >>
  BY DEF AccessInit
<1>. QED  BY <1>1, <1>3, <1>4, EmptySound DEF Ordered

\* A step of the lock store changes nothing for those that have saved.
LEMMA LockOrdered ==
  ASSUME Locking, AccessTypeOK, WorksWhenServed, Ordered, Lock
  PROVE  Ordered'
<1>1. /\ TypeOK /\ AheadEntered /\ Next /\ conv' = conv
      /\ UNCHANGED <<appends, dialogue, work, tracker, about>>
      /\ disordered \subseteq disordered'
      /\ \A c \in Conversations : overdue'[c] => c \in disordered'
  BY LockStep DEF Lock, Locking, Next, Tick, Enter, TryAgain, Refused, Leave, Cancel, Exit
<1>2. \A q \in Clients : Of(q)' = Of(q)
  BY <1>1 DEF Of
<1>3. ASSUME NEW r \in Requests, work[r] = "saved"
      PROVE  pc[r] # "new" /\ ahead'[r] = ahead[r]
  <2>1. pc[r] # "new"
    BY <1>3 DEF WorksWhenServed
  <2>. QED  BY <1>1, <2>1, LockStep
<1>4. SavedLast'
  <2>. SUFFICES ASSUME NEW r \in Requests, work[r] = "saved", conv[r] \notin disordered',
                       NEW s \in ahead[r], s \in Active(conv[r])'
                PROVE  FALSE
    BY <1>1, <1>3 DEF SavedLast
  <2>1. s \in Requests /\ pc[s] # "new"
    BY <1>1 DEF AheadEntered, TypeOK
  <2>2. conv[s] = conv[r] /\ pc'[s] \in {"waiting", "serving"}
    BY <1>1 DEF Active
  <2>3. pc[s] \in {"waiting", "serving"}
    BY <1>1, <2>1, <2>2, LockStep
  <2>4. s \in Active(conv[r])
    BY <2>1, <2>2, <2>3 DEF Active
  <2>. QED  BY <1>1, <2>4 DEF Ordered, SavedLast
<1>5. DisorderKept' /\ CopiesBehind'
  BY <1>1, <1>2 DEF Ordered, DisorderKept, CopiesBehind
<1>6. \A c : Done(c)' = Done(c)
  BY <1>1, <1>2 DEF Done
<1>7. \A c : \A d \in Done(c) : \A e \in Done(c) :
        <<d, e>> \in MayPrecede(c) => <<d, e>> \in MayPrecede(c)'
  BY <1>1, <1>3 DEF MayPrecede, Done
<1>8. ASSUME NEW c, NEW s, Sound(s, c)
      PROVE  s \in Seq(Done(c)') /\ Arranged(s, MayPrecede(c)')
  <2>1. s \in Seq(Done(c)) /\ Arranged(s, MayPrecede(c))
    BY <1>8 DEF Sound
  <2>. QED  BY <1>6, <1>7, <2>1, ArrangedWider
<1>9. \A c \in Conversations : Sound(dialogue[c], c)'
  BY <1>1, <1>8 DEF Ordered, Sound
<1>10. \A q \in Clients : Sound(tracker[q], Of(q))'
  BY <1>1, <1>2, <1>8 DEF Ordered, Sound
<1>. QED  BY <1>4, <1>5, <1>9, <1>10 DEF Ordered

\* A client that fetches copies what is in order.
LEMMA ReadOrdered ==
  ASSUME TypeOK, AccessTypeOK, Ordered, NEW q \in Clients, Read(q)
  PROVE  Ordered'
<1>1. /\ UNCHANGED <<pc, conv, overdue, ahead, appends, dialogue, about, disordered>>
      /\ work[q] = "nothing" /\ work'[q] = "fetched"
      /\ \A s \in Clients \ {q} : work'[s] = work[s] /\ tracker'[s] = tracker[s]
      /\ tracker'[q] = dialogue[Of(q)]
  BY DEF Read, vars, AccessTypeOK
<1>2. Requests \subseteq Clients /\ \A s \in Clients : Of(s)' = Of(s)
  BY <1>1 DEF Of, Clients
<1>3. Of(q) \in Conversations
  BY DEF Of, AccessTypeOK, TypeOK, Clients
<1>4. \A c : Done(c)' = Done(c) /\ MayPrecede(c)' = MayPrecede(c)
  BY <1>1, <1>2 DEF Done, MayPrecede
<1>5. SavedLast'
  BY <1>1, <1>2 DEF Ordered, SavedLast, Active
<1>6. DisorderKept'
  BY <1>1 DEF Ordered, DisorderKept
<1>7. CopiesBehind'
  <2>1. Len(dialogue[Of(q)]) \in Nat
    BY <1>3, LenProperties DEF AccessTypeOK
  <2>. QED  BY <1>1, <1>2, <2>1 DEF Ordered, CopiesBehind
<1>8. \A c \in Conversations : Sound(dialogue[c], c)'
  BY <1>1, <1>4 DEF Ordered, Sound
<1>9. \A s \in Clients : Sound(tracker[s], Of(s))'
  <2> TAKE s \in Clients
  <2>1. CASE s = q
    BY <1>1, <1>2, <1>3, <1>4, <2>1 DEF Ordered, Sound
  <2>2. CASE s # q
    BY <1>1, <1>2, <1>4, <2>2 DEF Ordered, Sound
  <2>. QED  BY <2>1, <2>2
<1>. QED  BY <1>5, <1>6, <1>7, <1>8, <1>9 DEF Ordered

\* A save leaves what was stored, appends the client to it, or makes of it the
\* client's copy or nothing but the client.
LEMMA StoredCases ==
  ASSUME TypeOK, AccessTypeOK, Ordered, NEW q \in Clients,
         NEW t \in {<<q>>, tracker[q], Append(tracker[q], q)},
         work[q] = "fetched" \/ t = <<q>>
  PROVE  Stored(dialogue[Of(q)], t) \in
           {dialogue[Of(q)], Append(dialogue[Of(q)], q),
            Append(<< >>, q), tracker[q], Append(tracker[q], q)}
<1>. DEFINE s == dialogue[Of(q)]
<1>1. Of(q) \in Conversations
  BY DEF Of, AccessTypeOK, TypeOK, Clients
<1>2. s \in Seq(Clients) /\ Len(s) \in Nat /\ tracker[q] \in Seq(Clients) /\ Len(tracker[q]) \in Nat
  BY <1>1, LenProperties DEF AccessTypeOK
<1>3. Append(<< >>, q) = <<q>>
  OBVIOUS
<1>4. CASE ~appends
  BY <1>3, <1>4 DEF Stored
<1>5. CASE appends
  <2>1. t \in Seq(Clients) /\ Len(t) =< Len(s) + 1
        /\ (Len(t) = Len(s) + 1 => t[Len(t)] = q)
    <3>1. CASE t = <<q>>
      BY <1>2, <3>1
    <3>2. CASE t # <<q>>
      <4>1. Len(tracker[q]) =< Len(s)
        BY <1>5, <3>2 DEF Ordered, CopiesBehind
      <4>2. CASE t = tracker[q]
        BY <1>2, <4>1, <4>2
      <4>3. CASE t = Append(tracker[q], q)
        BY <1>2, <4>1, <4>3, AppendProperties
      <4>. QED  BY <3>2, <4>2, <4>3
    <3>. QED  BY <3>1, <3>2
  <2>. HIDE DEF s
  <2>2. Stored(s, t) = IF Len(t) = Len(s) + 1 THEN Append(s, t[Len(t)]) ELSE s
    BY <1>2, <1>5, <2>1, StoredAppends
  <2>. QED  BY <2>1, <2>2 DEF s
<1>. QED  BY <1>4, <1>5

LEMMA WriteOrdered ==
  ASSUME Locking, AccessTypeOK, Ordered, NEW q \in Clients,
         NEW t \in {<<q>>, tracker[q], Append(tracker[q], q)}, Write(q, t),
         work[q] # "saved", work[q] = "fetched" \/ t = <<q>>,
         q \in Requests => pc[q] = "serving"
  PROVE  Ordered'
<1>0. TypeOK /\ NoOvertaking
  BY DEF Locking
<1>1. /\ UNCHANGED <<pc, conv, overdue, ahead, appends, about, disordered>>
      /\ work'[q] = "saved"
      /\ \A s \in Clients \ {q} : work'[s] = work[s] /\ tracker'[s] = tracker[s]
      /\ tracker'[q] = << >>
      /\ dialogue' = [dialogue EXCEPT ![Of(q)] = Stored(@, t)]
  BY DEF Write, vars, AccessTypeOK
<1>2. /\ Requests \subseteq Clients /\ \A s \in Clients : Of(s)' = Of(s)
      /\ \A r \in Requests : Of(r) = conv[r]
  BY <1>1 DEF Of, Clients
<1>3. PICK o \in Conversations : o = Of(q)
  BY <1>0 DEF Of, AccessTypeOK, TypeOK, Clients
<1>4. q \in Requests => q \in Active(conv[q]) /\ q \in Serving(conv[q]) /\ conv[q] \in Conversations
  BY <1>0 DEF Active, Serving, TypeOK
<1>5. SavedLast'
  <2>. SUFFICES ASSUME NEW r \in Requests, work'[r] = "saved", conv[r] \notin disordered
                PROVE  ahead[r] \cap Active(conv[r]) = {}
    BY <1>1 DEF SavedLast, Active
  <2>1. CASE r = q
    <3>1. ~overdue[conv[q]]
      BY <1>4, <2>1 DEF Ordered, DisorderKept
    <3>. QED  BY <1>0, <1>4, <2>1, <3>1 DEF NoOvertaking
  <2>2. CASE r # q
    BY <1>1, <1>2, <2>2 DEF Ordered, SavedLast
  <2>. QED  BY <2>1, <2>2
<1>6. DisorderKept'
  BY <1>1 DEF Ordered, DisorderKept
<1>7. \A c : MayPrecede(c)' = MayPrecede(c)
  BY <1>1 DEF MayPrecede
<1>8. \A c : Done(c)' = IF c = o THEN Done(c) \union {q} ELSE Done(c)
  BY <1>1, <1>2, <1>3 DEF Done
<1>9. \A d \in Done(o) : <<d, q>> \in MayPrecede(o)
  <2>. SUFFICES ASSUME NEW d \in Done(o), d \in Requests, q \in Requests,
                       o \notin disordered
                PROVE  q \notin ahead[d]
    BY <1>3 DEF MayPrecede, Done
  <2>1. work[d] = "saved" /\ conv[d] = o /\ conv[q] = o
    BY <1>2, <1>3 DEF Done
  <2>. QED  BY <1>4, <2>1 DEF Ordered, SavedLast
<1>. DEFINE Fine(s, c) == s \in Seq(Done(c)') /\ Arranged(s, MayPrecede(c)')
<1>10. \A c, s : Sound(s, c) => Fine(s, c)
  <2> TAKE c, s
  <2>. HAVE Sound(s, c)
  <2>1. s \in Seq(Done(c)) /\ Arranged(s, MayPrecede(c))
    BY DEF Sound
  <2>2. Done(c) \subseteq Done(c)'
    BY <1>8
  <2>. QED  BY <1>7, <2>1, <2>2, ArrangedWider
<1>11. \A s : Sound(s, o) => Fine(Append(s, q), o)
  <2> TAKE s
  <2>. HAVE Sound(s, o)
  <2>1. s \in Seq(Done(o)) /\ Arranged(s, MayPrecede(o))
    BY DEF Sound
  <2>2. /\ Append(s, q) \in Seq(Done(o) \union {q})
        /\ Arranged(Append(s, q), MayPrecede(o))
    BY <1>9, <2>1, ArrangedAppend
  <2>3. Done(o)' = Done(o) \union {q} /\ MayPrecede(o)' = MayPrecede(o)
    BY <1>7, <1>8
  <2>. QED  BY <2>2, <2>3
<1>. HIDE DEF Fine
<1>12. dialogue'[o] \in
         {dialogue[o], Append(dialogue[o], q),
          Append(<< >>, q), tracker[q], Append(tracker[q], q)}
  <2>1. dialogue'[o] = Stored(dialogue[o], t)
    BY <1>1, <1>3 DEF AccessTypeOK
  <2>. QED  BY <1>0, <1>3, <2>1, StoredCases
<1>13. Sound(dialogue[o], o) /\ Sound(<< >>, o) /\ Sound(tracker[q], o)
  BY <1>3, EmptySound DEF Ordered
<1>14. Fine(dialogue'[o], o)
  <2>1. CASE dialogue'[o] = dialogue[o]
    BY <1>10, <1>13, <2>1
  <2>2. CASE dialogue'[o] = Append(dialogue[o], q)
    BY <1>11, <1>13, <2>2
  <2>3. CASE dialogue'[o] = Append(<< >>, q)
    BY <1>11, <1>13, <2>3
  <2>4. CASE dialogue'[o] = tracker[q]
    BY <1>10, <1>13, <2>4
  <2>5. CASE dialogue'[o] = Append(tracker[q], q)
    BY <1>11, <1>13, <2>5
  <2>. QED  BY <1>12, <2>1, <2>2, <2>3, <2>4, <2>5
<1>15. \A c \in Conversations : Fine(dialogue'[c], c)
  <2> TAKE c \in Conversations
  <2>1. CASE c = o
    BY <1>14, <2>1
  <2>2. CASE c # o
    <3>1. dialogue'[c] = dialogue[c]
      BY <1>1, <1>3, <2>2 DEF AccessTypeOK
    <3>2. Sound(dialogue[c], c)
      BY DEF Ordered
    <3>. QED  BY <1>10, <3>1, <3>2
  <2>. QED  BY <2>1, <2>2
<1>16. ASSUME NEW s \in Clients, NEW c, c = Of(s) PROVE Fine(tracker'[s], c)
  <2>1. CASE s = q
    <3>1. Fine(<< >>, c)
      BY <1>10, EmptySound
    <3>. QED  BY <1>1, <2>1, <3>1
  <2>2. CASE s # q
    <3>1. tracker'[s] = tracker[s] /\ Sound(tracker[s], c)
      BY <1>1, <1>16, <2>2 DEF Ordered
    <3>. QED  BY <1>10, <3>1
  <2>. QED  BY <2>1, <2>2
<1>17. CopiesBehind'
  <2>. SUFFICES ASSUME appends, NEW s \in Clients, work'[s] = "fetched"
                PROVE  Len(tracker'[s]) =< Len(dialogue'[Of(s)])
    BY <1>1, <1>2 DEF CopiesBehind
  <2>1. s # q /\ work[s] = "fetched" /\ tracker'[s] = tracker[s]
    BY <1>1
  <2>2. Len(tracker[s]) =< Len(dialogue[Of(s)])
    BY <2>1 DEF Ordered, CopiesBehind
  <2>3. CASE Of(s) # o
    <3>1. Of(s) \in Conversations
      BY <1>0 DEF Of, AccessTypeOK, TypeOK, Clients
    <3>2. dialogue'[Of(s)] = dialogue[Of(s)]
      BY <1>1, <1>3, <2>3, <3>1 DEF AccessTypeOK
    <3>. QED  BY <2>1, <2>2, <3>2
  <2>4. CASE Of(s) = o
    <3>. DEFINE d == dialogue[o]  e == SubSeq(t, Len(d) + 1, Len(t))
    <3>1. d \in Seq(Clients) /\ Len(d) \in Nat
      BY <1>3, LenProperties DEF AccessTypeOK
    <3>2. t \in Seq(Clients) /\ Len(t) \in Nat
      <4>1. tracker[q] \in Seq(Clients) /\ <<q>> \in Seq(Clients)
        BY DEF AccessTypeOK
      <4>2. t \in Seq(Clients)
        BY <4>1, AppendProperties
      <4>. QED  BY <4>2, LenProperties
    <3>3. dialogue'[o] = d \o e
      BY <1>1, <1>3 DEF AccessTypeOK, Stored
    <3>. HIDE DEF d
    <3>4. e \in Seq(Clients)
      BY <3>1, <3>2
    <3>. HIDE DEF e
    <3>5. Len(d \o e) = Len(d) + Len(e) /\ Len(e) \in Nat
      BY <3>1, <3>4, ConcatProperties, LenProperties
    <3>6. Len(tracker[s]) \in Nat
      BY LenProperties DEF AccessTypeOK
    <3>7. Len(tracker[s]) =< Len(d)
      BY <2>2, <2>4 DEF d
    <3>8. Len(tracker[s]) =< Len(d \o e)
      BY <3>1, <3>5, <3>6, <3>7
    <3>. QED  BY <2>1, <2>4, <3>3, <3>8
  <2>. QED  BY <2>3, <2>4
<1>18. \A c \in Conversations : Sound(dialogue[c], c)'
  BY <1>15 DEF Sound, Fine
<1>19. \A s \in Clients : Sound(tracker[s], Of(s))'
  BY <1>2, <1>16 DEF Sound, Fine
<1>. QED  BY <1>5, <1>6, <1>17, <1>18, <1>19 DEF Ordered

LEMMA NextOrdered ==
  Locking /\ AccessTypeOK /\ Fresh /\ Ordered /\ [AccessNext]_accessVars => Ordered'
<1>. SUFFICES ASSUME Locking, AccessTypeOK, Fresh, Ordered, [AccessNext]_accessVars
              PROVE  Ordered'
  OBVIOUS
<1>1. TypeOK /\ WorksWhenServed
  BY DEF Locking, Fresh
<1>2. CASE UNCHANGED accessVars
  <2>1. \A q : Of(q)' = Of(q)
    BY <1>2 DEF accessVars, vars, Of
  <2>2. \A c : Done(c)' = Done(c) /\ MayPrecede(c)' = MayPrecede(c)
    BY <1>2, <2>1 DEF accessVars, vars, Done, MayPrecede
  <2>3. SavedLast' /\ DisorderKept' /\ CopiesBehind'
    BY <1>2, <2>1 DEF accessVars, vars, Ordered, SavedLast, DisorderKept, CopiesBehind, Active
  <2>4. dialogue' = dialogue /\ tracker' = tracker
    BY <1>2 DEF accessVars
  <2>. QED  BY <2>1, <2>2, <2>3, <2>4 DEF Ordered, Sound
<1>3. \A q \in Requests \union Predictions : q \in Clients
  BY DEF Clients
<1>4. CASE Lock
  BY <1>1, <1>4, LockOrdered
<1>5. ASSUME NEW q \in Clients, Read(q) PROVE Ordered'
  BY <1>1, <1>5, ReadOrdered
<1>6. ASSUME NEW r \in Requests, SaveUnderLock(r) PROVE Ordered'
  BY <1>3, <1>6, WriteOrdered DEF SaveUnderLock
<1>7. ASSUME NEW r \in Requests, Replace(r) PROVE Ordered'
  BY <1>3, <1>7, WriteOrdered DEF Replace
<1>8. ASSUME NEW p \in Predictions, SavePrediction(p) PROVE Ordered'
  BY <1>3, <1>8, WriteOrdered, PredictionsAssumption DEF SavePrediction
<1>. QED  BY <1>2, <1>3, <1>4, <1>5, <1>6, <1>7, <1>8 DEF AccessNext, Fetch, FetchForPrediction

\* rasa_values.yml:121 "processed in the right order": whoever predicts and
\* whatever is replaced or overwritten, a stored tracker holds what a client
\* saved once; and unless a ticket of the conversation was ever outlived, what
\* the requests saved stands in the order they came in.
THEOREM StoredInOrderAlways == AccessSpec => []StoredInOrder
<1>1. Ordered /\ AccessTypeOK => StoredInOrder
  <2>. SUFFICES ASSUME Ordered, AccessTypeOK, NEW c \in Conversations,
                       NEW i \in DOMAIN dialogue[c], NEW j \in DOMAIN dialogue[c], i < j
                PROVE  /\ dialogue[c][i] # dialogue[c][j]
                       /\ c \notin disordered /\ {dialogue[c][i], dialogue[c][j]} \subseteq Requests
                            => dialogue[c][j] \notin ahead[dialogue[c][i]]
    BY DEF StoredInOrder
  <2>1. DOMAIN dialogue[c] = 1 .. Len(dialogue[c])
    BY LenProperties DEF AccessTypeOK
  <2>2. <<dialogue[c][i], dialogue[c][j]>> \in MayPrecede(c)
    BY <2>1 DEF Ordered, Sound, Arranged
  <2>. QED  BY <2>2 DEF MayPrecede
<1>. QED  BY <1>1, InitOrdered, NextOrdered, FreshAlways, LockInvariants, AccessTypeCorrect, PTL
          DEF AccessSpec

=============================================================================

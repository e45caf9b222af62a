----------------------------- MODULE TicketLock -----------------------------
(***************************************************************************)
(* The ticket lock of one conversation (rasa/core/lock.py).                *)
(*                                                                         *)
(* TicketLock.tickets is a deque to which issue_ticket appends a ticket    *)
(* whose number is one above that of the last element.  Numbers therefore  *)
(* increase strictly along the deque, whatever is removed from it, and the *)
(* deque is represented by the SET of its tickets: its first element is    *)
(* the one with the least number, its last the one with the greatest.      *)
(*                                                                         *)
(* Every operator takes the tickets of a lock and the time time.time()     *)
(* returns, in ticks.  In the code each property and method first calls    *)
(* remove_expired_tickets; here each operator starts from Unexpired.       *)
(***************************************************************************)
EXTENDS Integers, FiniteSetsExt

\* Index of the latest issued ticket if no ticket exists.
NO_TICKET_ISSUED == -1

Ticket == [number : Nat, expires : Nat]

HasExpired(t, time) == time > t.expires

\* remove_expired_tickets
Unexpired(tickets, time) == {t \in tickets : ~HasExpired(t, time)}

Numbers(tickets) == {t.number : t \in tickets}

\* The number of the deque's last element, once the expired tickets are gone.
LastIssued(tickets, time) ==
  LET live == Unexpired(tickets, time)
  IN  IF live = {} THEN NO_TICKET_ISSUED ELSE Max(Numbers(live))

\* The number of the deque's first element.  An empty deque serves number 0.
NowServing(tickets, time) ==
  LET live == Unexpired(tickets, time)
  IN  IF live = {} THEN 0 ELSE Min(Numbers(live))

\* Mistaken is_locked: lets in every number that is not below now_serving.
IsLocked_Order(tickets, number, time) == NowServing(tickets, time) > number

IsLocked(tickets, number, time) == NowServing(tickets, time) # number

\* Mistaken issue_ticket: the number of the last ticket, not the one after it.
NewTicket_SameNumber(tickets, time, lifetime) ==
  [number |-> LastIssued(tickets, time), expires |-> time + lifetime]

\* The ticket issue_ticket appends, and the deque it leaves behind.
NewTicket(tickets, time, lifetime) ==
  [number |-> LastIssued(tickets, time) + 1, expires |-> time + lifetime]

IssueTicket(tickets, time, lifetime) ==
  Unexpired(tickets, time) \union {NewTicket(tickets, time, lifetime)}

\* Mistaken remove_ticket_for: only prunes the expired tickets.
RemoveTicketFor_OnlyPrunes(tickets, number, time) == Unexpired(tickets, time)

RemoveTicketFor(tickets, number, time) ==
  {t \in Unexpired(tickets, time) : t.number # number}

=============================================================================

----------------------------- MODULE FifoAccess -----------------------------
(***************************************************************************)
(* What the lock store promises the handlers of a conversation, without     *)
(* tickets, clock or lock objects: a request enters at any time and is let  *)
(* in when everybody who came before it has left.                           *)
(*                                                                         *)
(* The promise of a conversation is suspended (disordered) when a request   *)
(* stays inside longer than its ticket is valid, and is good again once     *)
(* everybody has left: rasa/core/lock_store.py gives no guarantee beyond    *)
(* lock_lifetime.                                                           *)
(***************************************************************************)
CONSTANTS Conversations, Requests

VARIABLES
  stage,       \* where each request is
  conv,        \* the conversation each request is for
  before,      \* those who came before it and are still inside
  disordered   \* the conversations whose order is suspended

vars == <<stage, conv, before, disordered>>

Outcomes == {"served", "refused", "cancelled"}

Inside(c) == {r \in Requests : conv[r] = c /\ stage[r] \in {"waiting", "serving"}}

Init ==
  /\ stage = [r \in Requests |-> "new"]
  /\ conv \in [Requests -> Conversations]
  /\ before = [r \in Requests |-> {}]
  /\ disordered = [c \in Conversations |-> FALSE]

Enter(r) ==
  /\ stage[r] = "new"
  /\ before' = [before EXCEPT ![r] = Inside(conv[r])]
  /\ \/ stage' = [stage EXCEPT ![r] = "waiting"]
     \/ /\ Inside(conv[r]) = {} \/ disordered[conv[r]]
        /\ stage' = [stage EXCEPT ![r] = "serving"]
  /\ UNCHANGED <<conv, disordered>>

Admit(r) ==
  /\ stage[r] = "waiting"
  /\ before[r] = {} \/ disordered[conv[r]]
  /\ stage' = [stage EXCEPT ![r] = "serving"]
  /\ UNCHANGED <<conv, before, disordered>>

\* A request leaves after its work, or before it because it is cancelled, or
\* refused, which only happens in a disordered conversation.
Exit(r, outcome) ==
  /\ stage[r] = IF outcome = "served" THEN "serving" ELSE "waiting"
  /\ outcome = "refused" => disordered[conv[r]]
  /\ stage' = [stage EXCEPT ![r] = outcome]
  /\ before' = [s \in Requests |-> before[s] \ {r}]
  /\ disordered' = [disordered EXCEPT ![conv[r]] = @ /\ Inside(conv[r]) # {r}]
  /\ UNCHANGED conv

\* Somebody stays too long.
Overstay ==
  /\ \E late \in SUBSET {c \in Conversations : Inside(c) # {}} :
       disordered' = [c \in Conversations |-> disordered[c] \/ c \in late]
  /\ UNCHANGED <<stage, conv, before>>

Next ==
  \/ Overstay
  \/ \E r \in Requests :
       \/ Enter(r)
       \/ Admit(r)
       \/ \E outcome \in Outcomes : Exit(r, outcome)

Spec == Init /\ [][Next]_vars

=============================================================================

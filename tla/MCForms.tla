------------------------------ MODULE MCForms ------------------------------
(* Forms for TLC: two forms that share a slot; the slots are filled by an   *)
(* entity at any time, by an answer to one form, and by an answer to either. *)
EXTENDS Forms

MCSlots == {"seats", "name"}
MCForms == {"book", "order"}
MCRequired == [form \in MCForms |-> IF form = "book" THEN <<"seats", "name">> ELSE <<"name">>]
MCMappings ==
  {[slot |-> "seats", loop |-> NoName, requested |-> FALSE],
   [slot |-> "name", loop |-> "book", requested |-> TRUE],
   [slot |-> "name", loop |-> "order", requested |-> TRUE]}

=============================================================================

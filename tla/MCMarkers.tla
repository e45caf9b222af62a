----------------------------- MODULE MCMarkers -----------------------------
(* Markers for TLC: conditions, each operator, and operators on operators.  *)
EXTENDS Markers

MCNames == {"a", "i", "s", "op", "top"}
MCEvents ==
  {[type |-> "action", names |-> {ACTION_SESSION_START}, filled |-> FALSE],
   [type |-> "action", names |-> {"utter"}, filled |-> FALSE],
   [type |-> "user", names |-> {"faq", "faq/hours"}, filled |-> FALSE],
   [type |-> "slot", names |-> {"name"}, filled |-> TRUE],
   [type |-> "slot", names |-> {"name"}, filled |-> FALSE]}

Texts == [m \in MCNames |-> CASE m = "a" -> "utter" [] m = "i" -> "faq" [] OTHER -> "name"]
Of(order, tags, parts, configured) ==
  [order |-> order, tag |-> tags, text |-> Texts, configured |-> configured,
   parts |-> [m \in MCNames |-> CASE m = "op" -> parts[1] [] m = "top" -> parts[2] [] OTHER -> <<>>]]
Tagged(op, top, slot) ==
  [m \in MCNames |->
     CASE m = "a" -> "action" [] m = "i" -> "intent" [] m = "s" -> slot
       [] m = "op" -> op [] m = "top" -> top]

\* Two markers are configured: an operator on an operator, and a condition.
Config(op, top, slot) ==
  Of(<<"a", "i", "op", "s", "top">>, Tagged(op, top, slot),
     <<IF op \in {"not", "at_least_once", "never"} THEN <<"i">> ELSE <<"a", "i">>,
       IF top \in {"not", "at_least_once", "never"} THEN <<"op">> ELSE <<"s", "op">> >>,
     {"s", "top"})
MCConfigs ==
  {Config(o[1], o[2], "slot_was_set") :
     o \in {<<"and", "or">>, <<"and", "seq">>, <<"not", "at_least_once">>, <<"not", "seq">>,
            <<"seq", "or">>, <<"seq", "seq">>, <<"seq", "at_least_once">>, <<"at_least_once", "not">>}}

\* One with negated tags.
MCNegatedConfigs == {Config("never", "and", "slot_was_not_set")}

=============================================================================

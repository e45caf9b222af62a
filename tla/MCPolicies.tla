----------------------------- MODULE MCPolicies -----------------------------
(* Policies for TLC: a form, two slots, a handful of intents and actions, and  *)
(* training data in which rules and stories meet in different ways.         *)
EXTENDS Policies

SomeIntents == {"greet", "faq", "book", "back"}
OneForm == {"form"}
TwoSlots == {"slot", "flag"}
BackIntent == [i \in {"back"} |-> "action_back"]

ActionResults ==
  [a \in {LISTEN, "utter_greet", "utter_faq", "utter_done"} |-> {<<>>}]
    @@ [a \in {"action_set"} |-> {<<SlotSet("slot", "on"), SlotSet("flag", "on")>>}]
    @@ [a \in {FALLBACK} |-> {<<UserUtteranceReverted>>}]
    @@ [a \in {"action_back"} |-> {<<UserUtteranceReverted, UserUtteranceReverted>>}]

Lengths ==
  [n \in {LISTEN, "utter_greet", "action_back"} |-> 13]
    @@ [n \in {"utter_faq", "utter_done", "action_set", "active_loop"} |-> 11]
    @@ [n \in {FALLBACK, SHOULD_NOT_BE_SET, SNIPPET, "prev_action"} |-> 20]
    @@ [n \in {"form", "slot", "flag", "on", "user"} \union SomeIntents |-> 4]

User(intent) == UserUttered(intent, 0)
Does(action) == Executed(action, FALSE)
Starts == <<Does("form"), ActiveLoop("form")>>
Ends == <<Does("form"), ActiveLoop(NoName)>>
Sets == <<Does("action_set"), SlotSet("slot", "on"), SlotSet("flag", "on")>>
Booking == <<User("book")>> \o Starts

\* Rules: a question answered at any time, or without waiting after it; a form
\* that is begun, and one that ends; a greeting while a slot is not set, and
\* while it is; what the first question leads to; what comes after an answer.
Answers(waits) == Rule(<<>>, FALSE, <<User("faq"), Does("utter_faq")>>, waits)
Begins1 == Rule(<<>>, FALSE, Booking, TRUE)
Submits == Rule(<<ActiveLoop("form")>>, FALSE, Ends \o <<Does("utter_done")>>, TRUE)
Greets(slot, value, action) ==
  Rule(<<SlotSet(slot, value)>>, FALSE, <<User("greet"), Does(action)>>, TRUE)
Opens == Rule(<<>>, TRUE, <<User("faq")>> \o Sets, TRUE)
After(conditions, steps) == Rule(conditions, FALSE, <<Does("utter_faq")>> \o steps, TRUE)

\* Stories.
Greeting == <<User("greet"), Does("utter_greet")>>
Asked == <<User("faq"), Does("utter_faq")>>
\* A form interrupted by a question, with and without a word in between.
Resumed == Booking \o Asked \o Ends \o <<Does("utter_done")>>
Listened == Booking \o Asked \o <<User("greet")>> \o Ends \o <<Does("utter_done")>>

Data(rules, stories, maxHistory, fallback, augmented) ==
  [rules |-> rules, stories |-> stories, maxHistory |-> maxHistory,
   fallback |-> fallback, augmented |-> augmented]

SomeProjects == {
  Data({Answers(TRUE), Begins1, Submits}, <<Greeting \o Greeting>>, 0, TRUE, FALSE),
  Data({Answers(TRUE), Begins1}, <<Greeting \o Sets>>, 2, TRUE, FALSE),
  Data({Begins1, Submits}, <<Resumed, Greeting>>, 0, TRUE, FALSE),
  Data({Begins1, Submits, Answers(TRUE)}, <<Listened, Greeting>>, 0, TRUE, TRUE),
  Data({Answers(FALSE)}, <<Asked \o <<Does("utter_greet")>>, Greeting \o Booking>>, 2, FALSE, TRUE),
  \* A greeting differs with the slots, and with both set two rules are for it.
  Data({Greets("slot", NoName, "utter_greet"), Greets("slot", "on", "utter_done"), Opens},
       <<<<User("book")>> \o Sets \o <<User("greet"), Does("utter_done")>>>>, 0, TRUE, FALSE),
  Data({Greets("slot", "on", "utter_done"), Greets("flag", "on", "utter_greet")},
       <<<<User("book")>> \o Sets \o <<User("greet"), Does("utter_done")>>>>, 0, TRUE, FALSE),
  \* A rule gives way to a story, and one that does not.
  Data({After(<<>>, <<>>), After(<<SlotSet("slot", "on")>>, <<Does("utter_greet")>>)},
       <<Asked \o <<Does("utter_done")>>, Greeting>>, 0, TRUE, FALSE),
  Data({Answers(TRUE)}, <<Asked \o <<Does("utter_done")>>>>, 0, TRUE, FALSE) }

=============================================================================

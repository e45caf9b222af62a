------------------------- MODULE MCMessageProcessor -------------------------
(* MessageProcessor for TLC: the assistants.                                *)
EXTENDS MessageProcessor

Plain ==
  [custom |-> {}, forms |-> {}, builtin |-> {}, returned |-> {}, rejecting |-> {},
   expiry |-> 0, customSessionStart |-> FALSE, maxPredictions |-> 2,
   maxTime |-> 0, maxRequests |-> 2, maxEvents |-> 99]

\* Sessions that expire, an action server that may start none, and posted
\* events that pause the conversation or start a session.
Sessions ==
  [Plain EXCEPT !.builtin = {RESTART}, !.expiry = 1, !.customSessionStart = TRUE,
                !.maxPredictions = 1, !.maxTime = 3, !.maxRequests = 3,
                !.returned = {<<ConversationPaused>>,
                              <<ActionExecuted(SESSION_START), SessionStarted,
                                ActionExecuted(LISTEN)>>}]

\* Whatever undoes, rewinds, restarts, pauses or rejects.
Reverting ==
  [Plain EXCEPT !.custom = {"action_a"}, !.rejecting = {"action_a"},
                !.builtin = {BACK, FALLBACK, RESTART}, !.maxEvents = 7,
                !.returned = {<<ActionReverted>>, <<UserUtteranceReverted>>,
                              <<ConversationPaused>>, <<ConversationResumed>>}]

\* A form, and follow-up actions, known, unknown and pending in a pause.
Filling ==
  [Plain EXCEPT !.custom = {"action_a"}, !.forms = {"form"}, !.builtin = {FALLBACK},
                !.maxEvents = 12,
                !.returned = {<<FollowupAction("action_a")>>, <<FollowupAction("unknown")>>,
                              <<FollowupAction("action_a"), ConversationPaused>>}]

\* Actions that reject in turns.
Rejectors ==
  [Plain EXCEPT !.custom = {"action_a", "action_b"}, !.rejecting = {"action_a", "action_b"},
                !.maxRequests = 1, !.maxEvents = 8]

AllAssistants == {Sessions, Reverting, Filling, Rejectors}

=============================================================================

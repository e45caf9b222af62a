---------------------------- MODULE MCReminders ----------------------------
(* Reminders for TLC: two conversations, the id of one beginning the        *)
(* other's.                                                                 *)
EXTENDS Reminders

TwoConversations == {<<1>>, <<1, 2>>}

\* Scheduling, cancelling by name, rescheduling, undoing and restarting.
TurnResults ==
  {<<>>, <<ReminderScheduled("r")>>, <<ReminderCancelled(All)>>,
   <<ReminderCancelled("r"), ReminderScheduled("r")>>,
   <<ReminderScheduled("r"), ReminderScheduled("r")>>,
   <<UserUtteranceReverted>>, <<Restarted>>}

=============================================================================

------------------------------ MODULE Reminders ------------------------------
(***************************************************************************)
(* Reminders (rasa/core/processor.py, rasa/core/jobs.py): an action returns *)
(* ReminderScheduled, a job of the scheduler fires later, waits for the     *)
(* lock of the conversation and, unless it is outdated by then, triggers an *)
(* intent as if the user had sent it.  Messages are handled meanwhile, and  *)
(* the agent may be replaced (PUT /model) or pull a new model.              *)
(*                                                                         *)
(* When a job is due is left open, and so is when a session expires.  The   *)
(* locks are taken to work (LockStore); it matters here which store of      *)
(* locks, and which store of trackers, a job and a message use.             *)
(***************************************************************************)
EXTENDS Tracker

CONSTANTS
  Conversations,   \* sender ids, as sequences: one may begin another
  Results,         \* the event lists the action of a turn may return
  MaxMessages, MaxReminders, MaxAgents   \* bounds

ASSUME BoundsAssumption == {MaxMessages, MaxReminders} \subseteq Nat /\ MaxAgents \in Nat \ {0}

ASSUME ConversationsAssumption == \A c \in Conversations : c \in Seq(ToSet(c))

\* Of the events of an action, those that schedule, cancel or drop reminders.
ASSUME ResultsAssumption ==
  Results \subseteq Seq([type : {"reminder", "cancel_reminder", "restart", "rewind"},
                        name : STRING, time : {0}])

VARIABLES
  shared,     \* which stores, "locks" or "trackers", are outside the process
  agents,     \* per agent so far, the lock store of its processor
  tasks,      \* messages and reminders, in the order they came up
  trackers,   \* the events of each conversation, per tracker store
  disturbed   \* history: the reminders something came between

vars == <<shared, agents, tasks, trackers, disturbed>>

-----------------------------------------------------------------------------
(* Events: a reminder has a name, and a message its number in tasks.        *)

GREET == "greet"
EXTERNAL == "EXTERNAL"

\* What the provers do not know of literals.
ASSUME IntentsAssumption == {GREET, EXTERNAL} \subseteq STRING

ReminderScheduled(name) == Event("reminder", name, 0)
ReminderCancelled(name) == Event("cancel_reminder", name, 0)
All == NoName
External(n) == UserUttered(EXTERNAL, n)

\* _has_message_after_reminder: looks back for a reminder of the name.
HasMessageAfter(events, name) ==
  LET last == SelectLastInSeq(events, LAMBDA e : e.type = "user" \/ (e.type = "reminder" /\ e.name = name))
  IN  last = 0 \/ events[last].type = "user"

\* _is_reminder_still_valid
StillValid(events, name) ==
  \E e \in ToSet(AppliedEvents(events)) : e.type = "reminder" /\ e.name = name

\* Mistaken handle_reminder: only looks for messages.
Outdated_MessagesOnly(task, events) == task.kill /\ HasMessageAfter(events, task.name)

\* handle_reminder
Outdated(task, events) ==
  \/ task.kill /\ HasMessageAfter(events, task.name)
  \/ ~StillValid(events, task.name)

-----------------------------------------------------------------------------
(* Tasks: a message, or a reminder from the time it is scheduled.           *)

Task(type, conversation, name, kill, agent, locks, phase) ==
  [type |-> type, conversation |-> conversation, name |-> name, kill |-> kill,
   agent |-> agent, locks |-> locks, phase |-> phase, events |-> <<>>]

TaskNumbers == 1 .. Len(tasks)
Of(type) == {n \in TaskNumbers : tasks[n].type = type}
Scheduled == {n \in Of("reminder") : tasks[n].phase = "scheduled"}
Working == {n \in TaskNumbers : tasks[n].phase \in {"working", "acted"}}

\* Mistaken lock: a message is handled under the lock of the processor.
LockStoreOf_Processor(n) == tasks[n].locks

\* The lock store a task takes its lock from: a message from the agent, whose
\* store is handed on to its successors, a reminder from its processor.
LockStoreOf(n) == IF tasks[n].type = "message" THEN 1 ELSE tasks[n].locks

TrackerStoreOf(n) == IF "trackers" \in shared THEN 1 ELSE tasks[n].agent

Events(n) == trackers[TrackerStoreOf(n)][tasks[n].conversation]

\* lock_store.lock
Free(n) ==
  \A m \in Working :
    tasks[m].conversation = tasks[n].conversation => LockStoreOf(m) # LockStoreOf(n)

Init ==
  /\ shared \in SUBSET {"locks", "trackers"}
  /\ agents = <<1>>
  /\ tasks = <<>>
  /\ trackers = [s \in 1 .. MaxAgents |-> [c \in Conversations |-> <<>>]]
  /\ disturbed = {}

\* Agent.handle_message
Receive(conversation) ==
  /\ Cardinality(Of("message")) < MaxMessages
  /\ tasks' = Append(tasks, Task("message", conversation, NoName, FALSE, Len(agents), 1, "waiting"))
  /\ UNCHANGED <<shared, agents, trackers, disturbed>>

\* The scheduler starts a job, and forgets it; it drops a job whose namesake
\* it started still runs (max_instances).
Fire(n) ==
  /\ n \in Scheduled
  /\ LET running == \E m \in Of("reminder") \ {n} :
           tasks[m].name = tasks[n].name /\ tasks[m].phase \in {"waiting", "working", "acted"}
     IN  tasks' = [tasks EXCEPT ![n].phase = IF running THEN "skipped" ELSE "waiting"]
  /\ UNCHANGED <<shared, agents, trackers, disturbed>>

\* _update_tracker_session: a session starts in an empty tracker and after
\* the last one expired.
Fetched(n) ==
  LET events == Events(n)
      started == events \o <<SessionStarted, ActionExecuted(LISTEN)>>
      applied == AppliedEvents(events)
  IN  IF applied = <<>> THEN {started}
      ELSE IF LastOf("user", applied) > 0 THEN {events, started} ELSE {events}

\* What begins or ends in a conversation disturbs its reminders.
Disturbs(n, expired) ==
  {m \in Of("reminder") \ {n} : tasks[m].conversation = tasks[n].conversation}
    \union IF expired THEN {n} ELSE {}

\* handle_message, under the lock
StartMessage(n) ==
  /\ n \in Of("message") /\ tasks[n].phase = "waiting" /\ Free(n)
  /\ \E events \in Fetched(n) :
       tasks' = [tasks EXCEPT ![n].phase = "working",
                              ![n].locks = agents[tasks[n].agent],
                              ![n].events = Append(events, UserUttered(GREET, n))]
  /\ disturbed' = disturbed \union Disturbs(n, FALSE)
  /\ UNCHANGED <<shared, agents, trackers>>

\* handle_reminder, under the lock
StartReminder(n) ==
  /\ n \in Of("reminder") /\ tasks[n].phase = "waiting" /\ Free(n)
  /\ \E events \in Fetched(n) :
       /\ tasks' = IF Outdated(tasks[n], events)
                     THEN [tasks EXCEPT ![n].phase = "outdated"]
                     ELSE [tasks EXCEPT ![n].phase = "working",
                                        ![n].events = Append(events, External(n))]
       /\ disturbed' = disturbed \union Disturbs(n, events # Events(n))
  /\ UNCHANGED <<shared, agents, trackers>>

-----------------------------------------------------------------------------
(* The side effects of the events an action returned: what is scheduled     *)
(* first, then what is cancelled, whatever their order in the list.         *)

ScheduledIn(result) == Without({e.type : e \in ToSet(result)} \ {"reminder"}, result)
CancelledIn(result) == {e \in ToSet(result) : e.type = "cancel_reminder"}

\* Mistaken add_job: without replace_existing.
Replaced_None(result) == {}

\* add_job with replace_existing: the scheduler keeps one job of an id, and the
\* id is the name of the reminder.
Replaced(result) ==
  {m \in Scheduled : tasks[m].name \in {e.name : e \in ToSet(ScheduledIn(result))}}

\* The task of a reminder that task n schedules; the list may replace it itself.
NewTask(n, new, i, kill) ==
  Task("reminder", tasks[n].conversation, new[i].name, kill, tasks[n].agent, tasks[n].locks,
       IF \E j \in i + 1 .. Len(new) : new[j].name = new[i].name THEN "replaced" ELSE "scheduled")

\* _schedule_reminders
Schedule(n, now, result, kill) ==
  [m \in TaskNumbers |->
     IF m \in Replaced(result) THEN [now[m] EXCEPT !.phase = "replaced"] ELSE now[m]]
  \o [i \in 1 .. Len(ScheduledIn(result)) |-> NewTask(n, ScheduledIn(result), i, kill)]

\* Mistaken cancels_job_with_name: forgets the conversation.
Cancels_Everywhere(e, by, task) == e.name \in {All, task.name}

\* cancels_job_with_name: the name of the job need only begin with the id of
\* the conversation.
Cancels(e, by, task) == e.name \in {All, task.name} /\ IsPrefix(by, task.conversation)

\* _cancel_reminders
Cancel(n, now, result) ==
  [m \in 1 .. Len(now) |->
     IF /\ now[m].phase = "scheduled"
        /\ \E e \in CancelledIn(result) : Cancels(e, tasks[n].conversation, now[m])
       THEN [now[m] EXCEPT !.phase = "cancelled"] ELSE now[m]]

\* The reminders of a turn's conversation its events touch: all of them if they
\* revert or restart, and those they cancel.
Touched(n, now, result) ==
  LET types == {e.type : e \in ToSet(result)}
  IN  {m \in 1 .. Len(now) :
         /\ now[m].conversation = tasks[n].conversation
         /\ \/ types \cap {"restart", "rewind"} # {}
            \/ \E e \in CancelledIn(result) : e.name \in {All, now[m].name}}

\* _run_action: logs the events, then execute_side_effects.
Act(n) ==
  /\ tasks[n].phase = "working"
  /\ \E result \in Results, kill \in BOOLEAN :
       LET logged == [tasks EXCEPT ![n].phase = "acted", ![n].events = @ \o result]
           scheduled == Schedule(n, logged, result, kill)
       IN  /\ Len(ScheduledIn(result)) \in 0 .. MaxReminders - Cardinality(Of("reminder"))
           /\ kill => ScheduledIn(result) # <<>>
           /\ tasks' = Cancel(n, scheduled, result)
           /\ disturbed' = disturbed \union Touched(n, scheduled, result)
  /\ UNCHANGED <<shared, agents, trackers>>

\* save_tracker, and the lock is released.
Save(n) ==
  /\ tasks[n].phase = "acted"
  /\ trackers' = [trackers EXCEPT ![TrackerStoreOf(n)][tasks[n].conversation] = tasks[n].events]
  /\ tasks' = [tasks EXCEPT ![n].phase = IF Last(tasks[n].events) = Restarted THEN "restarted" ELSE "done",
                           ![n].events = <<>>]
  /\ UNCHANGED <<shared, agents, disturbed>>

\* Something outside an action raises: the turn is not saved.
Fail(n) ==
  /\ n \in Working
  /\ tasks' = [tasks EXCEPT ![n].phase = "failed", ![n].events = <<>>]
  /\ disturbed' = disturbed \union
       {m \in Of("reminder") : tasks[m].conversation = tasks[n].conversation}
  /\ UNCHANGED <<shared, agents, trackers>>

\* PUT /model: the new processor was made with the stores of its own agent;
\* only then is the agent given the lock store of the old one.
ReplaceAgent ==
  /\ Len(agents) < MaxAgents
  /\ agents' = Append(agents, IF "locks" \in shared THEN 1 ELSE Len(agents) + 1)
  /\ UNCHANGED <<shared, tasks, trackers, disturbed>>

\* load_model of an agent that pulls its model: a new processor, with the
\* stores the agent has by now.
PullModel ==
  /\ agents' = [agents EXCEPT ![Len(agents)] = 1]
  /\ agents' # agents
  /\ UNCHANGED <<shared, tasks, trackers, disturbed>>

Proceed(n) == Fire(n) \/ StartMessage(n) \/ StartReminder(n) \/ Act(n) \/ Save(n)

Next ==
  \/ \E conversation \in Conversations : Receive(conversation)
  \/ \E n \in TaskNumbers : Proceed(n) \/ Fail(n)
  \/ ReplaceAgent
  \/ PullModel

Spec == Init /\ [][Next]_vars

-----------------------------------------------------------------------------
EventSet == [type : {"user", "action", "session_started", "reminder", "cancel_reminder",
                     "restart", "rewind"},
             name : STRING, time : Nat]
Phases == {"scheduled", "waiting", "working", "acted", "done", "restarted", "failed",
           "outdated", "cancelled", "replaced", "skipped"}
TaskSet == [type : {"message", "reminder"}, conversation : Conversations, name : STRING,
            kill : BOOLEAN, agent : 1 .. MaxAgents, locks : 1 .. MaxAgents, phase : Phases,
            events : Seq(EventSet)]

\* The type invariant: the scheduler has one job of an id.
TypeOK ==
  /\ shared \subseteq {"locks", "trackers"}
  /\ agents \in Seq(1 .. MaxAgents)
  /\ tasks \in Seq(TaskSet)
  /\ trackers \in [1 .. MaxAgents -> [Conversations -> Seq(EventSet)]]
  /\ disturbed \subseteq TaskNumbers
  /\ \A m, n \in Scheduled : tasks[m].name = tasks[n].name => m = n

\* Whether every processor still takes its locks from the store of the agents.
OneLockStore == "locks" \in shared \/ Len(agents) = 1

\* Whether a reminder of the conversation ran under locks of a processor's own:
\* the agent was replaced (PUT /model), and its locks are in memory.
OwnLocks(conversation) ==
  \E m \in Of("reminder") :
    /\ tasks[m].conversation = conversation /\ tasks[m].locks # 1
    /\ tasks[m].phase \in {"working", "acted", "done", "restarted", "failed"}

\* Messages, reminders and their successors run concurrently, under agents that
\* come and go: a turn that is saved continues what is stored, so that no turn
\* overwrites what another saved.  The code does not keep this once a reminder of
\* the conversation ran under locks of a processor's own.
TurnsKept ==
  [][\A n \in TaskNumbers :
       /\ tasks[n].phase = "acted" /\ tasks'[n].phase \in {"done", "restarted"}
       /\ ~OwnLocks(tasks[n].conversation)
       => IsPrefix(Events(n), tasks[n].events)]_vars

\* A reminder of the same name was scheduled later in the conversation.
Superseded(n) ==
  \E m \in Of("reminder") : /\ m > n
                            /\ tasks[m].name = tasks[n].name
                            /\ tasks[m].conversation = tasks[n].conversation

\* Although a job may wait for the lock while other turns of its conversation
\* run, a reminder does not trigger once a message that came after it was
\* handled, or restarted the conversation, unless a later reminder has its name.
TriggeredInTime ==
  [][\A n \in Of("reminder") :
       /\ OneLockStore /\ ~Superseded(n)
       /\ tasks[n].phase = "waiting" /\ tasks'[n].phase = "working"
       => ~\E m \in Of("message") :
            /\ m > n
            /\ tasks[m].conversation = tasks[n].conversation
            /\ TrackerStoreOf(m) = TrackerStoreOf(n)
            /\ tasks[m].phase \in {"restarted"} \union IF tasks[n].kill THEN {"done"} ELSE {}]_vars

\* Whether a conversation whose id the reminder's begins with took an action,
\* which may cancel reminders.
Overreached(n) ==
  \E m \in TaskNumbers :
    /\ tasks[m].conversation # tasks[n].conversation
    /\ IsPrefix(tasks[m].conversation, tasks[n].conversation)
    /\ tasks[m].phase \in {"acted", "done", "restarted", "failed"}

\* Namesakes, of whatever conversation: the id of a job is the name alone.
NamesakeAfter(n) == \E m \in Of("reminder") : m > n /\ tasks[m].name = tasks[n].name
NamesakeStarted(n) ==
  \E m \in Of("reminder") \ {n} :
    /\ tasks[m].name = tasks[n].name
    /\ tasks[m].phase \notin {"scheduled", "cancelled", "replaced", "skipped"}

\* A reminder is lost in four ways, and each has one of these causes.  Its job
\* finds it outdated: another turn of its conversation began, was undone,
\* restarted or failed, it was cancelled there by its name or with all, or its
\* session ended.  Its job is cancelled: in its conversation, or (as the code
\* compares the ids of jobs) in one whose id its own begins with.  Its job is
\* replaced: a later reminder has its name, in any conversation.  Its job is
\* skipped: another with its name was started, in any conversation.  (With a
\* second lock store its job may also come before the turn that scheduled it is
\* saved.)
DroppedForACause ==
  OneLockStore =>
    \A n \in Of("reminder") :
      /\ tasks[n].phase = "outdated" => n \in disturbed
      /\ tasks[n].phase = "cancelled" => n \in disturbed \/ Overreached(n)
      /\ tasks[n].phase = "replaced" => NamesakeAfter(n)
      /\ tasks[n].phase = "skipped" => NamesakeStarted(n)

=============================================================================

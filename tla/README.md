# Verification of the Rasa server in this repository

The repository is a set of tutorials around Rasa. Its one large program is the
Rasa 3.4 dialogue server it carries under `src/examples/4_unpack_rasa/rasa`;
paths below are relative to that directory. This project holds TLA+ models of
the parts of the program that keep state and decide what happens next, TLC
configurations that check them on small instances, and proofs about them
checked by TLAPS.

Contents: [the system](#the-system), [the modules](#the-modules),
[the runs](#the-runs), [the proofs](#the-proofs),
[what the code does not keep](#what-the-code-does-not-keep),
[what is not modelled](#what-is-not-modelled), [the plan](#the-plan).

## The system

A server process is one Sanic event loop. A message arrives over an input
channel or the HTTP API; the handler takes the lock of the conversation,
fetches its tracker, lets the processor predict and run actions until the bot
listens again, saves the tracker, and the save publishes the new events. The
models the policies predict with come out of a training run beforehand.

    channel / HTTP API ──> Agent ──> LockStore.lock(conversation)
                             ^          │
            scheduler ───────┘          v
           (reminders)        MessageProcessor (a turn)
                              │        │          │
                  TrackerStore <──┘    policies   actions, forms,
                  │       │               ^       action server
             database   EventBroker       │
                             rules, stories ──> graph trainer ──> cache
     markers <── stored conversations

### Components

| component | state | operations | promises worth checking |
|---|---|---|---|
| ticket lock, `core/lock.py` | a deque of tickets: number, expiry | issue, is_locked, remove ticket, prune expired | numbers grow; the first ticket is the one served |
| lock store, `core/lock_store.py` | a lock per conversation, in memory | `lock()`: issue, poll, serve, clean up | one request at a time, first come first served, nobody waits for ever, no lock is leaked |
| Redis lock store, `core/lock_store.py` | the same, as JSON under a Redis key | the same in GET, SET and DEL commands of several workers | the same across processes |
| tracker and events, `shared/core/` | a list of events and the state they lead to | `update`, `applied_events`, replay, restoring | the state rebuilt from the events is the state that was kept |
| message processor, `core/processor.py` | the tracker of a running turn | a turn, session start, the prediction loop, execute, predict, append | turns end; a paused bot is silent; sessions are not cut off |
| tracker stores, `core/tracker_store.py` | the events of all conversations | retrieve, stream, save, each of which may fail | no event lost, stored twice or stored unpublished |
| endpoints and agent, `server.py`, `core/agent.py` | none of their own | read-modify-write of a tracker under the lock | no update is lost |
| reminders, `core/jobs.py`, `core/processor.py` | scheduled jobs | schedule, cancel, fire | one job per reminder; an outdated one does nothing; a job works under the lock |
| model replacement and pulling, `core/agent.py`, `server.py` | the current agent and processor | PUT /model, pull, unload | a running turn keeps what it started with |
| event brokers, `core/brokers/` | a connection, events that wait | publish, reconnect, retry | every event is published, once and in order |
| actions and forms, `core/actions/` | slots, the requested slot, the active form | extract, validate, request, submit | a form ends when its slots are filled and validated |
| policies and ensemble, `core/policies/` | lookups learned from rules and stories | train, check, predict, combine | training data that contradict each other are refused; what agrees with them is followed |
| dialogue states, `shared/core/domain.py`, `core/featurizers/` | none of their own | states of a tracker, training examples | what only rules do is not seen by other policies |
| graph engine, `engine/` | a training cache, running trainings | fingerprint, prune, run, cache | the model is the one a full training would give |
| markers, `core/evaluation/` | what each marker tracked | evaluate sessions of conversations | a marker is found where its configured tag applies |
| command line, `__main__.py` | the subcommand | train, evaluate markers | one command does the work of no other |
| NLU, importers, channels | | | see [below](#what-is-not-modelled) |

### What is hard

* **Interleaving.** A handler awaits many times between fetching and saving.
  Only the ticket lock keeps two handlers of one conversation apart, and
  `POST predict` does not take it.
* **Outlived tickets.** A ticket lives 60 s (`core/constants.py:25`), an action
  may take 300 s (`core/constants.py:21`). No property of the locks can be
  stated without saying what holds once a request outlives its ticket.
* **Several processes.** The Redis lock is read, changed and written back in
  separate commands without a transaction. Training and serving go through the
  same sets in different orders. Trainings that overlap share one cache.
* **Failure.** A Redis command, a tracker store call or an action may raise,
  possibly after it took effect; a process may die at any point; a broker loses
  its connection with events on the way.
* **Work that outlives its cause.** A reminder fires long after it was scheduled,
  while the message that should cancel it is handled, and on an agent that was
  replaced.
* **Replay.** The state of a tracker is kept incrementally while a turn runs and
  rebuilt by replay at every fetch, and by every revert.
* **Counting.** The circuit breaker, the session expiry and the appending stores
  all count or search through lists of events from which reverts, forms and
  session starts take some away.
* **State that survives.** The requested slot survives a change of forms, the
  progress of a marker a session, a cached result the data it was made of.

The hazards are listed line by line in `PROJECT.json`, with the properties that
would catch each of them going wrong.

## The modules

    TicketLock ──> LockStore ──> ConversationAccess
        │              └── implements ──> FifoAccess
        └────────> RedisLockStore

    Tracker ──> MessageProcessor          PikaEventBroker ──┐
        ├─────> Reminders                                   ├──> EventBrokers
        ├─────> Forms                     KafkaEventBroker ─┘
        └─────> DialogueStates ──> Policies

    TrackerStore                          IncrementalTraining ──┐
                                                                ├──> OfflineCommands
                                          Markers ──────────────┘

`LockStoreProofs` (also for `ConversationAccess`), `WorkerProofs` (for
`RedisLockStore` and `Reminders`), `MessageProcessorProofs`, `PersistenceProofs`
(for `TrackerStore` and `EventBrokers`), `FormsProofs`, `OfflineProofs` (for
`Markers` and `IncrementalTraining`) and `PoliciesProofs` hold the theorems; `Lemmas` has what they
need of numbers, sequences, tickets, and of the events and the state of a tracker. Modules named `MC...`
only add what TLC needs: symmetry sets, and the lists of events, the graphs and
the training data of an instance. Definitions with an underscore in their name,
such as `Cleanup_KeepsLock`, are mistaken versions of the definition that
follows them. No specification uses them: substituted for it, each makes a
property fail, which shows that the property depends on that piece of code.

### TicketLock

`core/lock.py` as operators on a queue of tickets: `IssueTicket`, `IsLocked`,
`RemoveTicketFor`, `Unexpired`. The deque is a set of tickets, since its order
is that of their numbers (`IssueTicketAppends`, proved): the left end is the
least number and the right end the greatest. Issuing and looking at a lock prune
the expired tickets first, as the code does.

### LockStore

One process: requests are coroutines on one event loop, so that a step is what
runs between two awaits.

| action | code |
|---|---|
| `Enter` | `lock()` up to its first sleep: `issue_ticket` and a first look at the lock |
| `TryAgain` | a round of `_acquire_lock` after a sleep |
| `Refused` | the lock is gone after a sleep: `LockError`, and the finally clause |
| `Leave` | the work under the lock returns or raises; `cleanup` |
| `Cancel` | the task is cancelled while it sleeps; `cleanup` |
| `Tick` | the clock |

Two variables are history. `ahead[r]` is who was active when `r` entered, which
states the order of arrival without tickets. `overdue[c]` is set when a request
active in `c` outlives its ticket, and reset when all have left. The properties
hold under `~overdue[c]`; `RefusedOnlyOverdue` and `NothingLeaks` say what the
code still keeps beyond that.

### FifoAccess

The abstract specification: a request enters at any time and is let in when all
who came before it have left. No tickets, clock or lock objects. The promise is
suspended while a conversation is `disordered`. `LockStore` implements it with
`before = ahead ∩ Active(conv)` and `disordered = overdue`.

### RedisLockStore

The same `lock()` in several worker processes on one conversation, one Redis
command per step. The client blocks, so requests of one worker interleave only
where `lock()` awaits, and those of different workers between any two commands.
A command may raise before it takes effect (`CommandFails`) or after
(`ReplyLost`), and a worker may die (`Crash`). `torn` is history: some write came
between another worker's GET and the write it led to.

### ConversationAccess

Composes the lock store with what its users do under the lock: `Fetch` a copy
of the tracker, `SaveUnderLock` the copy with the request's events. `Replace` is
`PUT tracker/events`, which takes the lock and saves a tracker made from the
request, without a fetch (`server.py:807`). `Lock` is any step of `LockStore`.
`POST predict` fetches and saves without the lock. A tracker is the sequence of
the clients whose events it holds, the store is one that works. `appends`, chosen
at the start, is its kind: one that writes the whole tracker, or one that appends
what the tracker has beyond the stored one.

`raced` is history: the clients whose copy a save overtook where one of the two is
a prediction. `disordered` is history too: the conversations that were ever
overdue.

### Tracker

`DialogueStateTracker` and the events that steer a dialogue: user messages,
executions, rejections, loops, follow-ups, session starts, restarts, the two
reverts, pause and resume. `Update` is `update()`: it appends the event and
applies it, by replaying the applied events if it is a revert. `AppliedEvents` is
the code's undoing of reverted turns and of repeated executions of a form.
`RecreateFromDialogue` and `FromEvents` are the two ways in which stores restore
a tracker.

### MessageProcessor

A conversation whose lock is held; a turn is a sequence of steps.

| action | code |
|---|---|
| `HandleMessage` | `handle_message`, `trigger_external_user_uttered`: fetch, session, log the message |
| `RunAction` | a round of `_run_prediction_loop`: predict, run, log the events or the rejection |
| `Trip` | the circuit breaker, and the save |
| `Finish` | the loop is over, and the save |
| `Abort` | the process dies or something outside an action raises |
| `ExecuteAction`, `AddMessage`, `PredictNext`, `AppendEvents` | the endpoints that change a tracker without a prediction loop |
| `Tick` | the clock |

The policies may choose any action but one just rejected; a custom action
returns any of the event lists in `Returned`; a form activates itself, goes on,
ends or rejects. `POST tracker/events` gives a new conversation its session first,
unless the events bring one (`BeginWithSessionStart`). `began` is history: where
the turn's message is.

### TrackerStore

One conversation, the primary store inside `FailSafeTrackerStore`, its
in-memory fallback and the broker. A request is `Fetch`, `Create` or
`CreateInFallback`, then `LogEvents`, `Stream`, `Write`; `ReplaceEvents` is
`PUT tracker/events`, which does not fetch. `SaveFails` is a save that raises,
possibly after the write took effect, `SaveToFallback` what follows, `Crash` the
death of the process. Events are published one by one: a save that fails and a
crash may leave some of them published (`PublishSome`). The kind of the primary store is chosen at the start:
`appending` (SQL, MongoDB) or `whole` (in memory, Redis, DynamoDB). `goal` and
`kept` are history: what ought to be stored.

### Reminders

`core/jobs.py` and the part of the processor that schedules, cancels and handles
reminders, beside messages and agents that come and go. A task is a message or a
reminder, from the time it came up; `trackers` holds the events of each
conversation, per tracker store.

| action | code |
|---|---|
| `Receive` | a message arrives: `Agent.handle_message` |
| `Fire` | the scheduler starts a job, and skips it while the job of its name still runs |
| `StartMessage`, `StartReminder` | the lock is taken and the tracker fetched; `handle_reminder` drops an outdated reminder |
| `Act` | `_run_action`: logs the events, then schedules all reminders and cancels |
| `Save`, `Fail` | the turn is saved, or raises |
| `ReplaceAgent` | `PUT /model`: a new agent with the old lock store and a processor with its own |
| `PullModel` | `_update_model_from_server` |

When a job is due is left open: the model lets it fire at any time. An id of a
conversation is a sequence, since `cancels_job_with_name` compares beginnings.
The locks are taken to work, as `LockStore` shows; what matters is which store of
locks a task uses. `disturbed` is history: the reminders something of their own
conversation came between.

### PikaEventBroker, KafkaEventBroker, EventBrokers

`EventBrokers` is `EventBroker.create`: it chooses the broker by the type in the
endpoint configuration and composes the two that have a protocol. The libraries
(`aio_pika`, `confluent_kafka`) are external, and modelled as far as the brokers
rely on them; the head of each module says how far that is.

| action | code |
|---|---|
| `Pika!Publish` | `publish`: creates a task |
| `Pika!Begin`, `Confirm`, `Raise` | `_publish` up to its await, its return, its exception: the event is queued |
| `Pika!Arrive`, `Disconnect` | the exchange receives a frame; the connection breaks |
| `Pika!Reconnect` | the callback `_publish_unpublished_messages` |
| `Kafka!FirstPublish`, `Publish` | `publish` with and without a producer |
| `Kafka!Produce`, `RetryConnected`, `Reconnect` | a round of its retries: given to the producer, refused by a full buffer, or with a new producer |
| `Kafka!Deliver`, `TimeOut`, `Fail`, `Recover` | the producer delivers, perhaps more than once and in any order, or gives an event up; the cluster goes and comes back |

The thread that is to serve delivery reports does nothing unless there is a
producer (`core/brokers/kafka.py:257`), and is started before there is one
(`core/brokers/kafka.py:92`). It ends at once, so that the buffer of the producer
never empties. Since the configuration asks for no idempotent producer
(`core/brokers/kafka.py:158`) and messages have no key unless they are partitioned
by sender (`core/brokers/kafka.py:213`), the topic is a set: how often and in which
order an event arrives is the producer's affair. `given` is history: what the
producers were given.

### Forms

`core/actions/forms.py` over `loops.py`, with the extraction of slots by mappings
and the part of the rule policy and the ensemble that keeps a form going.

| action | code |
|---|---|
| `HandleMessage` | `handle_message`: the mappings of the message fill slots |
| `RunForm` | `LoopAction.run`: activate, validate, ask for the next slot, deactivate or reject |
| `FormFails` | the form's custom action raises; the run is logged all the same |
| `RunOther`, `Listen` | another action is predicted: it may fill a slot or deactivate the form |
| `Trip` | the circuit breaker |
| `Takeover` | a human pauses the bot |

A message is the set of mappings whose intent and entities it has; a slot holds
nothing, what a mapping found (`raw`) or what a validation accepted (`valid`).
`missed` is history: why the form may not have been offered a message.

### IncrementalTraining

`engine/training/graph_trainer.py`, its hooks and components, and
`engine/caching.py`. A training is a sequence of `Start`, `Fingerprint` (the run
with fingerprints alone), `Prune`, `Run`, `Store` for each node and `Package`; it
may `Die`, or overlap with another one on the same cache. The content of an
output is the record of how it came about: the node, its configuration or data,
the contents that went in and, if the component differs from run to run, the
training that ran it. A fingerprint is the content, for a `Resource` together
with the run that made it (`engine/storage/resource.py` gives each its own), so that
equal fingerprints mean equal histories; `made_of` carries all contents an output
goes back to, and is what the properties look at. `causes` is history. In the key of
a result (`Key`) the node stands for the class of its component: of two nodes with
the same class, configuration and inputs, which the model does not have, the code takes
one for the other (`engine/training/fingerprinting.py:45`).

### Markers

`core/evaluation/marker_base.py` and `marker.py`: `Evaluate` begins a
conversation (`evaluate_trackers`, `_split_sessions`), `Track` is the tracking of
an event by one marker, parts first, `Extract` collects what a session gave and
goes on to the next. A configuration gives the markers in the order of
`flatten`, each with its tag as configured; `NonNegatedTag` and `Marker` are what
`from_config` makes of them. `Meaning` is the reference: where a marker applies,
by the meaning of the tag it was configured with, negated or not (`Applies`), over
the events of one session.

### OfflineCommands

`main` of `__main__.py` hands over to one subcommand: `command` is which, `RunTraining`
any step of `IncrementalTraining`, `RunMarkers` any step of `Markers`.

### DialogueStates

What policies see of a tracker: `StatesForTrackerHistory` and
`StatesWithoutRuleTurns` are `Domain.states_for_tracker_history` without and with
`ignore_rule_only_turns`; `Examples` are the featurizers' training examples. A
state is a function of the features it has.

### Policies

The training of the `RulePolicy`, with the analysis that refuses contradicting
data, and of the memoization policies; their predictions; the ensemble.

| action | code |
|---|---|
| `Train` | `MemoizationPolicy.train`, and `RulePolicy.train` up to its lookups, on the examples of a project |
| `Analyze` | the rest of `RulePolicy.train`: `_analyze_rules` |
| `Load` | the server's process loads the model |
| `Say` | a message is logged |
| `RunAction` | a round of the prediction loop with the prediction of the ensemble |

A set of strings is iterated in an order that differs from process to process,
and the code takes the first of the rules that are equally long: `hash` is that
order, chosen once for the training and once for the server. The properties have
three provisos: the rules that apply are not tied, the state is one the memoization
policy was trained on, and an active form is asked before anything else.

## The runs

Deadlock checking is off except in `forms`: each of the other systems may stop
when its bounded supply of requests, events or trainings is used up.

| run | question | bounds | distinct states |
|---|---|---|---|
| `lock_store` | Until a ticket is outlived, is the lock exclusive and in order, does it keep to `FifoAccess`, does every waiter settle? Are locks always cleaned up? | 2 conversations, 3 requests, `Lifetime` 1, `MaxTime` 4 | 90,568 |
| `redis_locks` | Is exclusion across workers lost only through an outlived ticket or a torn write, and do tickets stay behind only for a cause? | 2 workers, 3 requests, `Lifetime` 1, `MaxTime` 3, 1 failure | 1,229,275 |
| `turns` | Does a session start only after silence, does a replay restore what was left, is a paused bot silent, do turns keep the limit and end? | four assistants: sessions that expire, an overridden session start, and a pause (3 requests); everything that reverts, rejects, pauses or restarts (2 requests, turns of 7 events); a form, a fallback and follow-ups, also pending in a pause (2 requests, 2 predictions); two actions that reject (1 request) | 239,264 |
| `tracker_store` | Is the history stored once, in order, and published first? | both kinds, 4 requests, 2 faults, any number of crashes | 8,170,635 |
| `store_read_error` | *violated*: does fetching leave the history alone? | whole trackers, 1 fault | 199 |
| `access_locked` | Does a copy never go stale, is no update lost, is every client stored once and the requests in order of arrival? | 2 conversations, 3 requests, 1 prediction, both kinds of store, `MaxTime` 3 | 2,128,376 |
| `reminders` | Does no turn overwrite another, do reminders trigger in time, and has each that is lost its cause? | 2 conversations, one id beginning the other; 2 messages, 2 reminders, 2 agents | 2,315,354 |
| `brokers` | What becomes of every event, in which order, and when is the Kafka producer full? | 4 events, 2 failures, 3 retries, a buffer of 2 | 1,927,022 |
| `forms` | Does a form end complete and validated, and ask for what is missing? | 2 forms that share a slot, 3 messages, 3 predictions | 318,479 |
| `offline` | Is the model one a full training could give? Does the cache keep its limit, leak or train again without a cause? Do the parts of a marker track first, and is what is found what the tags mean? | a graph of 4 nodes of which 2 are trained and give a `Resource`, 3 versions of data and configurations, 3 trainings, a cache of 3 results, 1 fault; 8 pairs of operators, one over the other, conversations of up to 4 events, 2 in a row | 708,815 |
| `negated_markers` | *violated*: is a negated tag found where its non-negated version does not apply? | one configuration with `never` and `slot_was_not_set`, one conversation of up to 3 events | 803 |
| `policies` | Is a story followed, an interrupted form told so, and what rules do unseen? | 9 projects of rules and stories, both orders of sets in either process, 4 messages, 18 events | 40,644 |

### Why the bounds are enough to be of interest

* Three requests are the least with which a request can be overtaken *and* a
  third be served on the number of a late leaver. Two conversations show that
  histories and locks are kept apart. With `Lifetime` 1 and `MaxTime` 4 tickets
  expire while held, while waiting, and again after the lock was deleted and the
  numbers started over. What is proved (below) holds without these bounds.
* `redis_locks` needs one failure: an orphaned ticket and a worker that died
  are each one. Two workers give every interleaving of two sequences of commands;
  the third request shares a worker with another, which exercises `CanRun`.
* `maxPredictions` 1 or 2 instead of 10 (`core/processor.py:72`), so that the breaker
  trips in a few steps. Two requests let the second turn start from whatever a
  first left behind. `maxEvents` is counted from the turn's message; in the
  assistants with a form and with two rejecting actions no turn that does not revert
  reaches it before `TurnEnds` has named the cause, or `TurnEnds` would fail. The
  fourth assistant has the two actions that reject in turn for ever.
* Four requests on a tracker store give a session, its continuation, another
  session and a last request that reveals what the earlier ones did; two faults
  let both the fetch and the save of one request fail.
* Two reminders and two messages let a reminder of the same name replace another,
  and a message come before, between and after them; the second agent is the one
  whose processor has locks of its own.
* Four events fill a buffer of two and leave two to be dropped; two failures let
  the connection break again while what the first left is published.
* Three messages start a form, interrupt it or switch to the other, and come back;
  with three predictions a form can be run, reject and run again in one turn.
* Three trainings are one to fill the cache, one with something changed, and one
  that may find results of either, or two that overlap after a first. A training
  fills two of the three places, so that one with both parts changed evicts.
* Four events of a conversation hold a session start in the middle of what a sequence waits for; a
  second conversation meets what the first left in the markers.
* The projects were picked out of a sweep over pairs of twelve rules and pairs of
  fifteen stories, each for a way in which rules and stories meet; the sweep itself, with
  two messages, found nothing else.
* The bounds only appear as conjuncts such as `now < MaxTime`, `requests <
  MaxRequests`, `faults < MaxFaults`, `handed < MaxEvents`, `messages <
  MaxMessages`, and in `RunAction` of the turn and of the policies.

Symmetry is used in runs of invariants and action properties only, over requests,
workers, predictions and conversations, none of which is named by a definition.

### What the properties say

* `NoOvertaking` (and `ServedAlone` and `RefusedOnlyOverdue`, which are proved) is
  what handlers rely on. `NothingLeaks` holds without any proviso: a ticket in a
  queue always belongs to a request inside, and a lock without requests is
  deleted, whatever expired and whoever was cancelled.
* `WaiterSettles` is the liveness of the lock, with its proviso: see
  [the endless wait](#what-the-code-does-not-keep).
* `ExclusiveUnlessTorn` reduces exclusion and order across processes to the absence of
  torn writes; `OrphansHaveCause` says that the code itself leaves no ticket
  behind that blocks a conversation.
* `FreshTracker`, `NothingLost`, `StoredInOrder` are what the locks are for. A save
  of `POST predict`, which has no lock, may overtake a copy: the first two except
  exactly the copies so overtaken (`raced`), and not all conversations with a
  prediction. `NothingLost` speaks of those who fetched: what `PUT tracker/events`
  puts replaces the tracker in a whole store. `StoredInOrder` has no such
  exceptions: that a client is stored once depends on the store's count of what it
  has, and that requests stand in order of arrival on the lock.
* `NoRunawayTurn` counts the executions since the message independently of the
  code's own count, which searches the tracker for the last `action_listen`.
  `TurnEnds` is its liveness, but for turns that escape the count: they revert, or
  two rejections come in a row, as they do in one of the instances.
* `RestoredAsLeft` and `LoopSurvives` relate the state kept during a turn to the
  one the next turn rebuilds. The pending follow-up action is left out: a
  prediction uses it up without an event.
* `PausedBotIsSilent` compares a whole turn with the state it started from: of a
  paused conversation it logs no action but `action_session_start`, unless the
  message restarts the conversation, or a new session, which ends the pause, began
  before it after the silence that expires one.
* `SilenceBeforeNewSession` measures the silence over the stored events, not over
  the applied ones as the code does.
* `StoredExactly`, `StoredOnceInOrder`, `PublishedFirst` and `PublishedOnceInOrder`
  compare the database and the broker with an independent history of the answered
  requests. A tracker a client puts needs the provisos in `StoredExactly` and
  `PublishedFirst`; two failing calls do so in the latter.
* `TurnsKept` compares what a turn saves with what is stored at that moment: it
  must go on from there, whatever other turns ran since its fetch, and whichever
  agents came and went. It excepts the conversations in which a reminder ran under
  locks of its processor's own, where the code loses turns. `TriggeredInTime` looks
  at the moment a job that waited for the lock gets it. `DroppedForACause` gives
  each of the four ways to lose a reminder its own causes; that a namesake or a
  cancellation of *another* conversation is among them is what the code does.
* `NothingForgotten` accounts for every event handed to a broker; `PikaQueuedOnce`
  and `PikaInOrder` say that the Pika broker itself does not repeat or reorder, and what
  a failure may do to the order; `KafkaGivenOnceInOrder` that `publish` gives each
  event to one producer, once and in order, whatever it retries and however often
  the producer is replaced. What the producer makes of it is not the broker's.
  `KafkaDropsOnceFull` states the full buffer exactly.
* `SubmitsComplete`, `SubmitsValidated` and `AsksForMissing` hold across switches
  between forms, interruptions and slots filled beforehand; `missed` names the
  ways in which a form is not offered a message.
* `AsIfTrainedInFull` compares what each part of the model was made of, back to the
  data, with a training without a cache, in which every node is run once;
  `RetrainsForACause` is the other half: the cache is used when it can be.
* `EvaluatedAsDefined` compares the markers that follow the events, keeping state,
  with the meaning of their tags over whole sessions; `PartsTrackFirst` is what they
  rely on. `NegatedTagsApply` says the same of negated tags, and is violated.
* `KeepsToStories` joins training and serving: what the analysis let pass is
  followed when a conversation goes like a story. `ResumesUnvalidated` follows a
  mark through training, lookup and prediction. `RuleTurnsUnseen` compares what
  policies see of a conversation with what they see of it when the turns that only
  rules know are taken out.

### Fairness

Only two runs state fairness.

* `LockStore`: weak fairness of `TryAgain`, `Refused` and `Leave` of every
  request. `asyncio.sleep` ends and the event loop wakes the coroutine
  (`core/lock_store.py:137`); work under a lock ends, because calls of the action
  server give up after `DEFAULT_REQUEST_TIMEOUT` (`core/constants.py:21`) and the
  circuit breaker ends the prediction loop. Entering, cancelling and the clock
  are not fair.
* `MessageProcessor`: weak fairness of `Loop`, a step of the prediction loop or
  its end, for the same reason. It does not make the policies choose any
  particular action.

No other run promises that something happens: a reminder's job may never fire, a
connection never be restored, a training never go on.

## The proofs

TLAPS proves, for every value of the constants that the assumptions admit:

| theorem | module | what |
|---|---|---|
| `TypeCorrect`, `NothingLeaksAlways`, `NoOvertakingAlways`, `ServedAloneAlways`, `RefusedOnlyOverdueAlways` | `LockStoreProofs` | the safety properties of the lock store |
| `Refinement` | `LockStoreProofs` | `Spec => Access!Spec`: the lock store implements first-in-first-out access |
| `Composition` | `LockStoreProofs` | the composed system of `ConversationAccess` is a behaviour of `LockStore` |
| `AccessTypeCorrect`, `FreshTrackerAlways`, `NothingLostAlways`, `StoredInOrderAlways` | `LockStoreProofs` | the properties of `access_locked` |
| `RedisTypeCorrect`, `ExclusiveUnlessTornAlways`, `OrphansHaveCauseAlways` | `WorkerProofs` | the properties of `redis_locks` |
| `TypeCorrect`, `ActiveFormSurvives`, `DialogueSurvives`, `PauseIsKept`, `TurnsAreBounded`, `SessionsLast` | `MessageProcessorProofs` | the safety properties of `turns` |
| `TypeCorrect`, `StoresExactly`, `StoresOnceInOrder`, `PublishesFirst`, `PublishesOnceInOrder` | `PersistenceProofs` | the properties of `tracker_store` |
| `TypeCorrect`, `TurnsKeptAlways`, `TriggeredInTimeAlways`, `DroppedForACauseAlways` | `WorkerProofs` | the properties of `reminders` |
| `BrokerTypeCorrect`, `NothingForgottenAlways`, `PikaQueuedOnceAlways`, `PikaInOrderAlways`, `KafkaGivenOnceInOrderAlways`, `KafkaDropsOnceFullAlways` | `PersistenceProofs` | the properties of `brokers` |
| `FormsTypeOK`, `AlwaysAsksForMissing`, `SubmitsCompleteAlways`, `SubmitsValidatedAlways` | `FormsProofs` | the properties of `forms` |
| `RuleTurnsUnseenHolds`, `ResumesUnvalidatedHolds` | `PoliciesProofs` | `RuleTurnsUnseen` and `ResumesUnvalidated` of `policies` |
| `MarkersTypeOK`, `PartsFirst`, `FoundAsDefined` | `OfflineProofs` | the properties of `offline` about markers: parts track first, and what is found is what the tags mean, for all configurations without negated tags |
| `TrainingTypeCorrect`, `ModelsAsIfTrainedInFull`, `CacheKeepsToItsSize`, `LeaksHaveTheirCause`, `TrainsOnlyForACause` | `OfflineProofs` | the properties of `offline` about training |

They assume what the modules assume of their constants: `LifetimeAssumption`
and `MaxTimeAssumption` (natural numbers), `PredictionsAssumption` (a prediction
is not a request under the lock), `KindsAssumption`,
`AssistantsAssumption` (the assistants are records of names, limits and lists of
events, and no action or form takes the name of a default action),
`NamesAssumption` and `IntentsAssumption` (names are strings, which the provers
do not know of a literal), `ConversationsAssumption` and `ResultsAssumption` (of
names and of lists of events), the bounds (`BoundsAssumption`,
`BrokersAssumption`, `MarkersBoundsAssumption`), `FormsAssumption` (a domain has
finitely many slots, a form requires slots of the domain, and no slot or form takes
a reserved name), `PoliciesAssumption`, `ReturnedAssumption` and `SlotsAssumption`
(to listen is an action but no form, and returns nothing; other actions return lists
that set slots of the domain and revert messages; no action, slot or form takes a reserved
name), `ProjectsAssumption` (training data are finitely many rules and a list of stories, of the
steps a file can have), `ConfigsAssumption` (the
parts of a marker come before it, as `flatten` gives them), `EventsAssumption` (a
slot is filled or not) and `GraphAssumption` (the nodes of a graph are listed once,
parents first; what is persisted, unless it is data, can be cached; a `Resource`
can be cached and is made by a node that is trained; the cache is not disabled). Three theorems have
hypotheses of their own, which the instances of `turns` and `policies` satisfy, but for
the first assistant and the first hypothesis: events posted to it begin a session with an execution.

* `TurnsAreBounded` supposes `NoExecutionReturned`. An action server may report
  any event, also executions of actions (`core/actions/action.py:781`); the
  processor appends them after it has counted, so that no bound could hold.
* `SessionsLast` supposes `NoMessageReturned`. A message in an answer of the action
  server or in `POST tracker/events` carries a time of its own, which
  `_has_session_expired` would take for the user's.
* `ResumesUnvalidatedHolds` supposes `RulesAnswer` and `NoStorySaysDefaults`. A rule that
  only waits after a message, and names no form, applies during a form as well: then
  `_find_action_from_rules` lets the form go on as if nothing had interrupted it
  (`core/policies/rule_policy.py:1053`). And an intent with an action of its own
  (`DEFAULT_ACTION_MAPPINGS`) gets that action whatever a story says.

**Induction over data.** The induction theorems of the library take a predicate as
a parameter, which the provers cannot instantiate. `Lemmas` states them with a set
in its place: `InductionUpTo` (a set that holds 0 and with every number below n the
next holds all up to n) and `InductionOverSequences` (a set that holds the empty
sequence and is closed under `Append` holds all sequences). `FoldsAgree` and
`FoldedIsFold` carry this to the recursive functions the modules fold
sequences with. With them `Lemmas` proves how `AppliedEvents`, the replay and
`UpdateWithEvents` go on when an event is appended (`AppliedAppend`,
`PlayedAppend`, `UpdatesAppend`), which is what every proof about a turn uses.

**The locks.** `NoOvertaking` is not inductive: who is let in next follows from
the numbers in the queue, not from who is active. The invariant `IInv` adds,
for a conversation without an outlived ticket, that every active request's ticket
is in the queue and unexpired (`Queued`), that the numbers follow the order of
arrival (`Numbered`), and that whoever is served holds the least (`HeadServed`).
Expiry breaks all three. What must survive it is that the queue holds no ticket
of a request that left (`NothingLeaks`): then the queue is empty when the last
request leaves, and the next ones start in order. `LockHoldsTickets` and
`AheadEntered` tie the lock's existence and the history to the rest. One lemma
per action shows that it keeps `IInv`; `Lemmas` has what they need of
the queue: that a finite set of tickets has a least and a greatest number, and
that an issued ticket is the greatest.

**The refinement.** Every action of `LockStore` maps to one of `FifoAccess` or to
a stutter (`NextAccess`). `IInv` supplies what the abstract guards ask for: a
request let in has nobody before it, one that is refused was overdue.

**The composition.** A handler's step leaves the lock store's variables alone, so
that all theorems about locks carry over. Whatever is saved went
through `Write`. `FreshTracker` is inductive together with `WorksWhenServed` and
`FreshPredictions` (the same of predictions nothing overtook): another request can
save, or replace, only while served, which `ServedAlone` excludes, and a prediction
that saves puts the copies it overtakes among the `raced`. `NothingLost` follows, since
what a fresh copy adds is all that either kind of store changes (`StoredExtends`). For
`StoredInOrder` every stored tracker and every copy is `Sound`: it holds clients that
have saved, each once, and none behind a request that came after it. An appending store
puts only the end of a copy behind what it has, which needs that no copy is longer
(`CopiesBehind`); a whole store takes the copy as it is. That nobody who came before a
request that has saved is still to save (`SavedLast`) is `NoOvertaking` at the moment of
the save, and survives as long as the conversation was never `disordered`.

**The Redis locks.** A request works on a copy of the lock that others may have
overwritten in the meantime. `ReadsLast` says that, as long as no write was torn, a copy
still to be written back is what is stored, so that reading, changing and writing act
like one step. Then the argument is that of one process, unless a ticket was
outlived: `Queued`, `Numbered` and `HeadServed` of `InOrder`, with `DeletesEmpty` and
`AheadIssued` for the deletion and the history. What failed requests leave in the queue
only makes others wait.

**The turn.** The state of a tracker is kept event by event while a turn runs and is
replayed from its applied events when it is fetched or reverted. `Sound` says what the
two have in common at any time: the active form, whatever was undone, and without forms
all but the pending follow-up action. `TypedTurn` is the type invariant with a tracker
that is `Sound`; it gives `LoopSurvives` and `RestoredAsLeft`. `PausedBotIsSilent` speaks
of a whole turn, so it needs what the turn has done so far: `BeganInTurn` (its message
comes after what is stored) and `Silenced` (a turn of a paused conversation that neither
restarts it nor begins a session after a silence is still paused and has logged no
action but the start of a session).
`NoRunawayTurn` compares the executions since the message with the breaker's count, which
goes back through the events to the last `action_listen` or session start: `Counted` says
that a turn that goes on has logged neither since its message, so that the count misses
none of its executions. `InOrder` says that no message was logged before an earlier one
and none is from the future; with it the message the session expiry looks at, the last
applied one, is the user's latest.

**The tracker store.** Every event has a number, and the invariant speaks of
numbers alone: what a store or a tracker holds is `Numbered`, increasing and not
beyond the last one given out. `AddsLater` says that the events the running
request added are later than all that is stored, which makes an append keep the
order; `Continues` that what an appending store is given beyond the stored
session is just what was added, which is where the count of `core/tracker_store.py:1199`
comes in; `StreamedFirst` and `PublishesLater` say the same of the broker between
`Stream` and `Write`; `SavesGoal` ties the tracker to the history of the answered
requests while nothing failed.

**The reminders.** A task works under the lock of its conversation in one store of
locks, alone (`Exclusion`). Two tasks of a conversation can only use different stores if
one of them is a reminder under its processor's own (`OwnLocks`); otherwise what a turn is to
save continues what is stored (`Current`), which is `TurnsKept`. As long as there is one lock
store (`OneStore`), that gives the other two. `TriggeredInTime` follows from two facts about
the log of a conversation: that a message once handled, and a restart after it, stay in it
(`MessagesKept`), and that every reminder logged after a message belongs to a task that
came later (`Logged`). The event of an earlier reminder nobody superseded is thus found
before the message, if at all, which makes it outdated. `DroppedForACause` is the
converse: a reminder nothing of its conversation came between still finds its own event
where the turn that scheduled it left it (`NoneDropped`), and is cancelled only by a
conversation that overreaches (`Spared`). For the ones that others took the place of
(`TakenByNamesakes`) it is enough that a task only goes on (`Onward`): what was started
once stays started. `ActDoes` sums up what scheduling and cancelling leave of the tasks,
so that each invariant has one case per action and not one per way an action may end.

**The brokers.** `KafkaInv` has what the producers were given in order and behind nothing that is
still to be published (`KafkaOrder`), says that a producer is done only with what arrived
or was given up (`KafkaSettled`), and counts what the buffer has taken as long as nothing
failed (`KafkaFills`), for `KafkaDropsOnceFull`. `PikaInv` says where an event can be: in one of the ready
tasks, the waiting ones or the queue, and if it arrived while its task waits, at
the exchange (`PikaArrived`); `PikaDown` bounds the number of connections. For the
order at the exchange, `PikaOrder` follows an event that never failed: while its task has
not begun, nothing newer has begun, was queued or has arrived (`ReadyInOrder`); while
its frame is on the connection, nothing newer is ahead of it there or has arrived
(`SentInOrder`); and once it has arrived, it is there once and nothing newer is before
it (`ReceivedInOrder`). That a connection is never used again is what makes the second
survive a reconnection. The list operators of the community modules are used through
lemmas about the sets of their elements (`ConcatOnce`, `TailOnce`, `RemoveTask`).

**The forms.** What a form's run returns is a list of events that its custom action
and the extraction of slots make up freely, and one event overrules another. `BodyIs`
and `BodyUpdates` say what such a list comes to: which slots it sets last, whether it
rejects, requests or ends. `RunParts` follows `LoopAction.run` through activation,
validation and the request for the next slot, and `RunLeaves` sums up what a run leaves
behind: the form goes on and asks for a slot that is empty, or is over with none empty,
unless the custom action ended it. Two invariants connect the runs. `Asks` keeps the
request until the next message. `OffersAll` says that a value nobody has validated
yet is one of the last message, and that this form is the next to run; a policy that
chooses something else makes `missed` say so. For this the bot must have listened, and
no veto be left, when a message comes: `WaitsClean`. `EndsByRun` then leaves a run of the form as the only step that ends it.

**The markers.** `InStep`: the markers before the cursor have tracked one event
more than those after it. `ConfigsAssumption` makes all parts come before.
`FoundAsDefined` sets a definition over whole sessions against objects that look at
one event after the other. Its invariant, `Meant`, says of a session that was begun
afresh that each marker has found so far what it stands for, and that the progress of
a sequence is how far it can be gone through since its last end, and no further
(`SeqAt`). Four lemmas carry it: `SessionBounds` (the positions where n sessions have
begun are those from the n-th start to the next, by counting up the positions),
`MeaningUnfolds` (the recursive definition exists and satisfies its equation, by
induction up to the number of markers), `EndsUnfold` with `SequenceSteps` (of the ways
through a sequence, three cases at each position), and `FindsWhatIsMeant` (one marker
and one event, tag by tag). `ExtractsWhatIsDue` then counts the turns before a position
by a bijection, and `ResultsDue` keeps what was extracted.

**The training.** All outputs ever made are a set that only grows (`Universe`): in it
the content of an output says what it was made of, and what it was made of are the
contents of its node's lineage, each once (`LineageUnfolds`). Entries, prints and
values are taken from it (`Typed`), and an entry was made from what its key names. `JobOK` says what a training holds
besides: a node that is needed has all its parents needed or restored (`Ready`), what the
fingerprint run found of a node was made of what it found of the parents
(`Prints`), what was restored or run was made of what the training has of them
(`Values`), and what was found and restored goes together, as long as every hit could
be restored (`Fits`). That gives `AsIfTrainedInFull`: of a random component, the
training holds one run.

`CacheWithinLimit` needs only that trainings which do not overlap run one at a time,
and that what `MadeRoom` leaves free is free until the result is moved in (`Room`).
`LeaksHaveCause` is about the entry a result may overwrite. In a cache nothing has
disturbed, a training whose node has an entry for what goes in has found it: what its
fingerprint run looked up was entered with what it knows of the parents (`Knows`);
so the node is run again only if there was no result to restore (`Unstored`), and a node
that was not found is entered under a key that no entry has, because
an entry with that key would go with what the training already knew (`Suits`), or would
be made of a result of this very training, which is only entered later
(`MarksBefore`, `Unmarked`). `RetrainsForACause` is an action property, from an invariant about such a
cache (`CalmInv`): every result that can be stored is stored; what an entry was made of
is entered too (`Complete`); and whatever a training has found or made of a node, and
entered, is entered with what it has of the parents (`CalmJob`). So once a training is
done, all its model consists of is entered, parents first (`Settled`), and every later
training of the same version follows these lines (`Following`): its fingerprint run
finds each entry, every target is restored, and nothing is left to run. Adding entries
disturbs neither, and an entry taken away is one of the named causes.

**The policies.** `RuleTurnsUnseen` compares two foldings of a conversation: of all
its applied events, and of those that are left without the turns of rules. The proof
goes through both side by side. `Alike` says what they have in common up to an event:
the slots, the states seen so far, and how the features that
`states_for_tracker_history` carries over (the last action that was not hidden, the
message a story answered) relate to the state of the shorter conversation. One lemma per
kind of event keeps `Alike` (`AlikeAfterMessage`, `AlikeAfterAction`,
`AlikeAfterHiddenAction`, `AlikeAfterOther`). They need that a message only comes after
a listening, and that a listening is answered by a message before anything else is done
(`Turns`). That this holds of every conversation is the second part: the invariant
`PInv` says of the dialogue that its applied events are such turns, that forms among them
have been active (so that they are the events a replay keeps, `AppliedEventsSpoken`), and that
the state agrees with their replay as far as it matters (`Agrees`): the slots, the loop and
the latest action always, the latest message only while it is unanswered, for a form that
goes on takes messages off the applied events (`FormGoesOn`) which the state still has. Nothing
is assumed of what is predicted, but that the follow-up action of a tracker without actions, to
listen, comes first.

`ResumesUnvalidated` joins training and serving. A conversation and the story it goes
like differ in rejections and hiding marks, but lead to the same states
(`RetoldStates`, from `RetoldAlike`); those are the states of an example
(`ExampleBefore`, `ExampleMade`), because the states before an action do not depend on what follows
(`PriorBegins`). The state of the tracker agrees with the last of them by `PInv`. So
`LookupFromTrackers` has the mark of an interrupted loop under the key of these states
(`UnhappyTold`), and the key applies to them (`UnhappyKeyApplies`, from what a key is made
of: `FeatureKeyParts`). What could still have the form go on as if it had been asked is a rule that says
to listen. The invariant `RInv` says that the rules of a model are some of those it learned:
`_analyze_rules` runs on all trackers, and step by step only takes rules away
(`CheckPredictionRules`, `RunPredictionRules`, `AnalyzeRulesWithin`). Each was
taught by an example (`RuleTaught`, `LookupFromStatesParts`), of which there are finitely many
(`ExamplesOfFinite`), so that the best that applies is one of them (`BestParts`) and does not say to listen
(`NoGeneralListen`). The ensemble hands the mark on, whichever policy it prefers
(`PredictionInterrupted`).

**Only model-checked.** `WaiterSettles` and `TurnEnds`, because liveness under
fairness and `ENABLED` are out of the prover's reach; and `KeepsToStories`, which says
that the contradictions `_analyze_rules` looks for are all there are. That `_analyze_rules` only
takes rules away is proved; what its runs find, each with the rules that those before it
have left, and which of several rules as long is taken, is checked for the training
data of the instance.

## What the code does not keep

Two runs end in a counterexample. Each states what a comment of the repository says.

* **A failed read erases a history** (`store_read_error`,
  `core/tracker_store.py:1268`). The error becomes `None`, `None` becomes a new
  conversation, and its empty tracker is saved over the stored one in a store of
  whole trackers.
* **Negation lost** (`negated_markers`, `core/evaluation/marker_base.py:564`):
  `from_config` hands a tag on in its positive form, from which
  `from_tag_and_sub_config` reads off that there is no negation: a marker under a
  negated tag is evaluated as if it were not negated, although such a marker
  "applies if and only if the non-negated marker does not apply"
  (`core/evaluation/marker_base.py:170`).

The others follow from the models, as provisos of properties that are checked, as
behaviours TLC found when a proviso was left out, or were met while modelling.

### Locks and access

* *The endless wait* (`core/lock_store.py:119`): a request whose ticket expired
  while others hold tickets keeps polling with a number that is no longer in the
  queue and smaller than all of it; it is neither served nor refused until the
  lock is deleted, which a steady arrival of requests can put off for ever. This
  is why `WaiterSettles` has its proviso.
* *Two valid tickets, two at work* (`core/lock_store.py:185`): a request outlives
  its ticket; another one enters, prunes the expired ticket, is served, leaves
  and, as nobody is waiting in the queue, deletes the lock although the first is
  still at work. New requests start at number 0, the number of the first
  request's ticket. When that one leaves, its clean-up removes the ticket of
  whoever now holds number 0, and the next request is let in beside it.
* *Two workers, one number* (`core/lock_store.py:81`): two workers that GET the
  lock before either has SET it issue the same number and both serve it.
  `core/utils.py:282` allows several workers for this store.
* *A prediction undoes a message* (`server.py:987`): `POST predict` saves without
  the lock. `raced` names the copies it overtakes.

### Turns

* *A session expires under a talking user* (`core/processor.py:952`): answers to a
  running form are taken off the applied events, so the last message the code
  finds is the one that started the form.
* *Forms and replay*: with forms, `RestoredAsLeft` does not hold, although the
  comment at `shared/core/trackers.py:604` makes no exception of them. The events a form
  undoes (`shared/core/trackers.py:577`) take messages along, so that a replay
  finds an earlier latest message and action than the running turn had. The active
  form itself survives (`LoopSurvives`).
* *The breaker stays open* (`core/processor.py:735`): a turn it ended leaves no
  `action_listen`, so that the next message trips it before any prediction, until a
  session starts or the conversation restarts.
* *Rejections are not counted* (`core/processor.py:877`): two actions that reject
  in turn can be predicted for ever, as the fourth assistant of `turns` does;
  `TurnEnds` excepts two rejections in a row.
* *What a form may miss* (`core/processor.py:147`, `core/processor.py:885`): messages to a paused bot
  fill slots and are not validated; the run of a form that raised is logged as if
  it had validated; after the breaker ended a turn the latest action is not
  `action_listen`, so that the form does not validate what comes next.
* *The requested slot of another form* (`core/actions/action.py:1064`): it is
  still set while the first message to a new form is extracted; and of several
  `requested_slot` events of a validation one place takes the first, another the
  last (`core/actions/forms.py:442` and `core/actions/forms.py:678`).

### Stores and brokers

* *The fallback store is written, never read* (`core/tracker_store.py:1267`).
* *PUT tracker/events* "will override an existing tracker" (`server.py:822`). It
  does so in a store of whole trackers, but an appending store (`core/tracker_store.py:1193`) takes the new
  tracker for a continuation: it writes only the events beyond the number it holds.
* *Order by timestamp* (`core/tracker_store.py:1143`): SQL finds the latest session and
  orders its events by the time of the server that wrote them.
* *Twice or out of order in Kafka* (`core/brokers/kafka.py:158`,
  `core/brokers/kafka.py:213`): without idempotence or a key the producer may repeat
  an event whose acknowledgement it missed, and partitions keep no order.
* *A full Kafka buffer* (`core/brokers/kafka.py:257`): see `KafkaDropsOnceFull`.

### Reminders

* *A job that waits for the lock* runs besides a later one of its name, although
  names are documented as unique (`core/processor.py:839`, `shared/core/events.py:1126`).
* *Cancelled by a prefix* (`shared/core/events.py:1283`): a conversation whose id
  begins with that of another loses its reminders to it.
* *Schedule, then cancel* (`core/processor.py:802`): an action that cancels all
  reminders and schedules a new one has the new one cancelled.
* *Replaced by a namesake* (`core/processor.py:839`): the id of a job is the name of
  the reminder alone, so that a conversation replaces the reminder of another, or
  has it skipped while its own runs (`max_instances` of the scheduler).
* *PUT /model* (`core/processor.py:504`, `server.py:1363`) leaves scheduled jobs on the
  stores of the old processor, and gives the new processor locks of its own: a
  reminder and a message may then work on one conversation at once, and the later
  save overwrites the other. `TurnsKept` excepts such conversations.
* The jobs are kept in memory only (`core/jobs.py`): a restart forgets them, while the
  trackers go on holding their `ReminderScheduled` events.

### Training, policies, markers

* *Parts that do not fit*: with components that differ from run to run, a hit whose
  result cannot be restored any more is run anew, and what was trained on its former
  output is still restored.
* *An overwritten entry* (`engine/caching.py:298`): an entry is dropped by its own last
  use, not by that of what it was made of. If the entry of a node that gives the same
  from run to run is dropped while that of its child stays, the parent is run again, gives
  what it gave before, and the child, which the fingerprint run could not look up, is run
  again too: its new entry takes the place of the old one, whose result stays on
  disk. `Parted` says when it may happen.
* *Ties between rules* (`core/policies/rule_policy.py:1038`): of rules equally long
  the first of a set is taken. A comment nearby expects one to be a subset of the
  other; two rules on different slots are not.
* *Deleted while checked* (`core/policies/rule_policy.py:582`): a rule that gives way
  to a story is deleted in the middle of the check, whose outcome then depends on the
  order of the trackers.
* *A listening that is hidden* (`shared/core/domain.py:1355`): a turn a story leads and
  a rule ends leaves the old action beside the new message in what policies see.
* *Sequences go on* (`core/evaluation/marker.py:91`): the progress of a sequence is not
  reset, neither between sessions nor between conversations, although sessions are
  evaluated "separately" (`core/evaluation/marker_base.py:144`). `carried` sets such
  sessions apart in `EvaluatedAsDefined`.

## What is not modelled

* **In the modelled components**: in the trackers, entities, bot utterances,
  featurization marks and `LoopInterrupted`; in the processor, parsing and bot
  output; in the tracker stores, the connections, schemas, `keys`, `exists`,
  full-history retrieval, and the SQL query's ordering by timestamp (a session is
  ordered by position, as in MongoDB); in the lock stores, their creation from
  endpoint configurations; in the server, authentication, validation, and the
  training and evaluation endpoints; in the brokers, `close`, the set-up of
  exchanges, security protocols, and the brokers that write to a file or a database
  within `publish`; of the reminders, time zones and the pickling of jobs; of the
  actions, responses, the request to the action server and the two-stage fallback; of the policies, texts in place of intents, checkpoints and the
  augmentation of stories; of the engine, the validation of graphs and the loading
  of packages; of the markers, their statistics.
* **The action server, the policies' choice in a turn**: `MessageProcessor` takes
  what policies choose and what custom actions return from finite sets, and
  `TrackerStore` takes the broker as a log that accepts every event; `Policies` and
  `EventBrokers` look into them on their own.
* **NLU and the learned policies**: numeric code without protocol state.
* **Channels**: adapters that turn a messenger's request into
  `Agent.handle_message`.
* **The other commands, importers, validators, conversion, evaluation, export**:
  sequential passes over files and stored trackers.

## The plan

Done: the locks with their proofs, the Redis locks, the access of the handlers
with its proofs, the tracker, the turn, the tracker stores with their proofs,
reminders and the replacement of agents, the event brokers with their proofs, forms with
theirs, the training cache, markers, the rule and memoization policies. What would come next:

1. **Redis locks with one worker implement `LockStore`**, hence `FifoAccess`: a
   refinement checked by TLC, then proved; it would join `redis_locks`' run.
2. **The turn over the store and a broker**: `MessageProcessor` composed with
   `TrackerStore` and `EventBrokers`, so that failures and crashes meet sessions
   and replays, with `PublishedFirst` weakened to what remains.
3. **Forms in the turn**: `Forms` and `Policies` in place of the open choices of
   `MessageProcessor`.
4. **Proofs**: the lookups and the ensemble of `Policies`.

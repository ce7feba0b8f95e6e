# TLA+ verification of mfke-ai-agent

This directory holds formal models of the Telegram bot in `src/` (python-telegram-bot in front
of the Holmes tool-calling engine, MongoDB behind it), the TLC configurations that check them and
proofs checked by TLAPS. Paths below are relative to the repository; "the bot" is `src/bot/`.

    tlc -workers 2 -config TopicDispatch.cfg MCTopicDispatch     check a model
    tlapm TopicDispatch_proofs.tla                               check its proofs

`PROJECT.json` lists the runs, the mutants that show each property can fail, the source lines every
definition stands for, the hazards and the findings.

## 1. The system

One process, one asyncio event loop, updates handled concurrently (`concurrent_updates(True)`).
pymongo is synchronous, so a call of the services that only touches MongoDB is one step of the loop;
a task can lose control only where it awaits Telegram, a thread, a contended lock, a future, a
subprocess or a sleep. Holmes runs in a pool of 20 threads and its tools with it; copies of uploads
and the refresh of the facts run in threads as well, and there every call and every critical section
is a step. State is of four kinds: dictionaries in memory, mostly keyed by `(chat_id, topic_id)`,
documents in MongoDB, files, and messages in Telegram.

| Component | State it keeps | Operations | What is hard |
|---|---|---|---|
| Topic dispatcher (`handlers/message_handler.py`) | `_topic_batches`, `_topic_locks`, timers, flush tasks | accept a message or a file, fire a timer, flush, run a turn, `/stop` | a fired timer only creates a task; a dispatching batch stays in the registry; flushes queue on a lock |
| Tool approval (`services/holmes_service.py`, `handlers/privilege_handler.py`) | `_pending_approvals`, futures, request messages | ask, send, tap, time out, resume | tap, failing send and timeout race for one future; two taps; a wait nobody ends |
| Conversation history (`services/conversation_service.py`, `models/conversation.py`) | one document per topic, a copy per turn | load, append, save, `/clear`, `/claude`, topic creation | read-modify-write over minutes, some of it outside the topic's lock |
| Consolidator (`services/consolidator_service.py`) | idle timers, per-topic locks, semaphore, checkpoint | schedule, fire, run, backfill, stop | stray timers, stale checkpoint, a timed-out LLM call that goes on in its thread, restart between writes |
| Distilled fact store (`services/distilled_fact_store.py`) | `distilled_facts`, `distilled_runs`, injectable cache, refresh event | retire, add, record_run, refresh, inject, backfill | three writes of a run, two queries of a refresh, swallowed failures, lost pokes |
| Permissions (`services/permission_service.py`, `models/`) | `users`, `permission_requests` | `/grant`, approve, deny, expire, `/revoke` | late and double decisions, two writes of an approval, admins who make admins |
| Admin gate, loop guard (`tools/`) | captured loop; a window of successes per tool | admin lookup from a thread; block repeated calls | waiting on the loop from the loop; check and record apart, the calls of a round in parallel, one window for all topics |
| Process life cycle (`main.py`) | time of the last update, restart counter, wedge hits | start, check, restart polling, exit, stop | restarts that do not help, `stop()` running twice, a signal that ends nothing |
| Cluster probe (`services/cluster_probe_service.py`) | id of the last status message, in memory and MongoDB | probe, send, delete old, persist | cancellation or crash between any two of them |
| File sender (`utils/file_sender.py`, `tools/send_file_tool.py`) | the outbox directory | stash an upload, prune, resolve, send | every file operation races with every other, pruning takes many; a thread waits for the loop |
| Subprocess commands (`handlers/command_handler.py`) | tempfiles, mode of the kubeconfig directory | `/shell`, `/kshell`, `/reconcile` | 120 s limits, cancellation, several at once, crash |
| Kubeconfig encryption (`utils/kubeconfig_crypto.py`) | the files of the directory | migrate, decrypt, clean up | write, rename, overwrite and unlink are steps of their own, and one `except` serves them all |
| Rendering and delivery (`utils/rich_message.py`) | the placeholder message | split, send, edit, fall back | calls that fail though they took effect; three fallbacks |
| Message intake (`handlers/message_handler.py`) | `_processed_messages`, `_recent_topic_creation` | recognise duplicates, create a topic | keys without the chat, record before await |
| Rate limit (`utils/decorators.py`) | times of recent calls | admit or refuse | a sliding window |
| Engine calls, memory, knowledge base, vision, extraction, configuration, scripts | little or none | conversions and I/O | not concurrent |

Who calls whom: the dispatcher runs a turn, which loads the conversation, asks Holmes (which may call
tools through the gate and the guard, and ask for approvals), saves the conversation, delivers the
answer and arms the consolidator's timer; the consolidator reads the conversation and writes facts,
which the next turn's prompt injects from the cache; permissions decide whether a turn streams and
whether its tools need approval; the callback handler serves both kinds of buttons; the life cycle
starts the probe and stops it, and its exit is the crash or the stop that every other model knows.

What makes each component correct is stated in section 3, property by property.

## 2. Modules

| Module | Models | Run | Proved in |
|---|---|---|---|
| `TopicService` | the promise to one topic, abstractly | a property of `TopicDispatch` | |
| `TopicDispatch` | the dispatcher of one topic | `dispatch`, `twice` | `TopicDispatch_proofs` |
| `ApprovalService` | the promise about calls that need approval, abstractly | a property of `ToolApproval` | |
| `ToolApproval` | approvals of all turns in progress | `approval` | `ToolApproval_proofs` |
| `DistillerService` | the promise of the background distiller, abstractly | a property of `Consolidator` | |
| `Consolidator` | consolidator and the writes of its store | `consolidator` | `Consolidator_proofs` |
| `FactCache` | fact store, refresh thread and readers | `facts` | `Services_proofs` |
| `ConversationTurns` | the history of one topic, its turns and its creation | `turns` | `ConversationTurns_proofs` |
| `PermissionWorkflow` | permissions and their requests | `permissions` | `AdminCommands_proofs` |
| `ToolCalls` | wrappers, admin gate and loop guard of the tools | `tools` | `ToolCalls_proofs` |
| `ClusterProbe` | the probe task; no specification of its own | | |
| `BotProcess` | the life of the process, composed with `ClusterProbe` | `process` | `Services_proofs` |
| `Outbox` | uploads, `chat_send_file`, `/sendfile` | `outbox` | `Outgoing_proofs` |
| `KubeCommands` | `/shell`, `/kshell`, `/reconcile` and the encrypted kubeconfigs | `kube` | `AdminCommands_proofs` |
| `Delivery` | splitting, sending and editing of one answer | `delivery` | `Outgoing_proofs` |

Three proof modules are about two specifications each, which have nothing to do with each other; that
is why the names of `FactCache`, `PermissionWorkflow` and `Delivery` have a prefix (`CacheSpec`,
`PermissionSpec`, `DeliverySpec`).

An `MC...` module gives the constants of a module their values for TLC. An action is the code one
task or thread runs between two points where it can lose control. Operators named `Wrong...` are
mutants: plausible bugs, one for each checked property, that make it fail.

### TopicDispatch

All dictionaries are keyed by topic, so one topic is modelled. `registry` is `_topic_batches[key]`; a
batch is named by its first message and carries its texts, whether its timer is armed, and the
dispatch whose `cancel_event` it holds. `flushTasks` counts tasks created by fired timers that have
not run. `dispatches` are the flushes past their early return, with their snapshot of texts;
`holder` and `waiters` are the topic's `asyncio.Lock`. Actions: `EnqueueAndArm`, `EnqueueAtCap`,
`EnqueueFile` (the three ends of `_enqueue_for_batch`), `TimerFires` and `FlushTaskRuns` (the
callback and the task), `AcquireLock`, `StartTurn`, `Apologise`, `EndTurn` (`_flush_batch`
between its awaits), `StopDispatch`, `StopPending` (`/stop`). The age cap is a nondeterministic choice
for a batch that is already pending.

`TopicService` promises: one turn at a time, in order of arrival, nothing dropped except by `/stop`,
nothing dropped is answered. It allows a turn to be *repeated*, because the code does repeat turns
(finding `twice`). The refinement mapping lets a turn begin when `send_chat_action` has returned.

### ToolApproval

The table is shared by all turns, so several turns are modelled: streaming ones (cut by `wait_for`
after 240 s) and regular ones (no limit). An approval is a record: its turn, its future, whether
`send_message` is still under way, its message, and the verdicts its tappers were told. Telegram may
show a message and report a failure all the same. `ApprovalRequired`, `AskAnotherCall` and `Resume`
are the approval loop between its awaits, `Timeout` the cancellation with the `finally` clause, `Tap`
the callback. `/stop` has no action: it sets `cancel_event`, which only a running Holmes looks at, and
a running Holmes may end its turn at any time (`EndTurn`).

`ApprovalService` promises: a call is answered once, a round's approved calls are executed together,
once, when every call of the round has its answer, and a turn that is over executes nothing. It has no
table, no futures and no messages. `RoundOf` maps a turn that asks to its decisions and the call it
waits for; a timeout in the middle of a round is `Close`, which drops the round's answers.

### Consolidator and FactCache

Two views of one write. `Consolidator` has the tasks: of a conversation only its length matters.
`timer` is the timer in `_timers`; `strays` are timers armed but no longer in it, because `_fire` pops
whatever timer is there; `due` are fire tasks that have not started. A run holds its topic's lock from
`FireBeginsRun` to its end; the early returns of `_fire` and `_consolidate` are the `FireFinds...`
actions. `count` and `saved` are the checkpoint in memory and in MongoDB; a failed read gives 0. The
call of the LLM runs in a thread that cannot be cancelled: a run that times out (`CallTimesOut`) gives
slot and lock back and leaves its call behind (`abandoned`) until that returns. `seen` and `lapse` are
history: what the last finished run of a topic has seen, and whether its checkpoint is lost. What
follows the LLM's answer is synchronous: `RunRecorded` and `RunNotRecorded`, with `retire` succeeding
or not and any subset of the facts inserted. `Restart` may come at any point, `RestartMidWrites`
between the writes of a run.

`DistillerService` promises: one run per topic, for a window that has grown since the topic's mark, at
most `MaxConcurrent` runs that wait for a call of the LLM (that a call given up ends is not promised:
`EndpointBounded`); the mark moves only with a call answered in time; a topic's facts
change only by a run of its own or a crash of it. Timers, fire tasks, locks and the semaphore are gone:
the bound is one on a set. The mark is the checkpoint the idle guard would use
(`Marks`), and what can put it back is explicit: a restart, and a read from MongoDB that fails.

`FactCache` has the threads. There the same writes are one step per call to MongoDB (`Retire`, `Add`,
`RecordRun`), because the refresh thread and a Holmes thread that finds the cache empty read by two
queries in between (`ReadRuns`, `ReadFacts`) and then replace or seed the cache (`Publish`, `Seed`).
`poked` is `_refresh_event`. A fact is the number of its insertion. Vectors are external: which texts
are similar is a relation (not transitive), which vectors exist is `embedded`, and the embedding
service may fail for some texts; `Dedup` is the result of the greedy pass of `_dedup_facts_by_cosine`
from the newest to the oldest, given by the equation it solves: a fact is kept unless it is close to a
newer one that is kept.

### ConversationTurns

One topic's document (with its `_id`, which decides how a copy is saved), and the turns that load,
extend and save it: batches inside the topic's lock, `/claude` and the turn of the mention that
created the topic outside of it. A mention in the general chat creates the topic (`Mention`,
`TopicCreated`); when the welcome message fails, the topic exists without its turn (`NoTurnInTopic`).
A message is a turn and a role; tool and system messages follow the assistant's and are left out.
`lost`, `disturbed` and `broken` are history variables; `broken` are the turns that were saved without
an answer, because they raised or were stopped before there was one.

### PermissionWorkflow

`perms[u]` is the permission set of u's document, `requests` the collection in order of creation.
`Grant` is `/grant` with all its refusals, `Approve`, `ApproveTooLate` and `Deny` are the two ways
of deciding (button and command share the service's code), `ApproveCutShort` is the first of the two
writes without the second. `revoke_request` and `cleanup_expired_requests` have no caller.

### ToolCalls

A turn starts on the loop (`StartTurn`, with the admin lookup of `chat()`, which blocks the loop until
`StartTimesOut`). The engine then runs the tool calls of a round in parallel, on threads of its own
(`Workers`, each serving the turn `Owner` gives it): `Invoke` starts a call on any free thread of a turn,
and `EndTurn` lets calls under way go on. The lookup of the gate hops to the loop (`LoopLooksUp`) and its
thread waits at most 1.5 s (`GateDecides`). The guard checks and records in two critical sections
(`GuardDecides`, `ToolReturns`) around the tool; `recent[x]` is the window of the wrapper of tool x, which
all threads share. Which wrappers a tool has follows from how `initialize()` walks the toolsets: tools put
into `tools_by_name` afterwards have none. `at` and `told` are kept per turn; `pos`, `call`, `answer` and
the history variable `cleared` per thread.

### BotProcess and ClusterProbe

`main` is where `main()` is suspended, `stop[c]` where the `stop()` called by the signal handler or by
`finally` is; `polling` is `updater.running`, `deaf` a connection that hears nothing, `idle` the time
since the last update in units of the five-minute check. `Check` and `RestartPolling` are the
watchdog with its two tiers, `CertificateError` and `PoolError` are `FatalPollingDetector`, `Boot` the
container's restart. The probe's task is suspended in one of its awaits (`task`); `prev` and `stored`
are the id in memory and in MongoDB, `flying` a message that is in the chat before its send has
returned. `BotProcess` starts the task in `Start`, cancels it in `StopProbe` and loses it in `Dies`.

### Outbox

`disk` maps paths to the time of their last change and to the uploads they consist of. An upload
chooses its name (`StashBegins`), opens the target, which empties it (`OpenTarget`), and copies
(`Copied`) or fails half-way and leaves what it has written (`CopyFails`). A call lists the directory
(`Call`), then prunes it file by file: it looks at the age of one (`LookAtNext`), removes what is by then
under that name (`Unlink`), and in the end looks for anything left and removes the directory
(`LookForMore`, `RemoveDirectory`); each is a step, with those of other calls and uploads in between. Then
it resolves (`Resolve`), uploads on the loop (`Upload`, `Answered`) or gives up (`GivesUp`: failing
request, 180 s, end of the loop). The sender is unregistered by `Stop`.

### KubeCommands

`plain` and `enc` are the two forms of each file, `open` the directory's mode, `temps` the decrypted
tempfiles, `at[j]` how far the task of a command is. The loop is busy during a migration, but the operator
and a crash are not bound by that, so every file operation is a step: `StartMigration` lists the directory,
`ReadNext` reads a file, `WriteAside` writes the temporary one, `Rename` moves it, `Overwrite` and `Unlink`
shred the plaintext. Each may fail, which for all of them means `NextPlease`: `encrypt_file` reports any
exception and the next file follows. A temporary file left by a failed write has no suffix `.enc` and is a
file to encrypt for the next migration (`Tmp`); the temporary file of such a file is left out. `Store`, the
operator bringing a file, may come between any two operations. The history variables are `latest`, the
content brought last; `spoilt`, the kubeconfigs whose shredding failed or was cut off at its end, or which
were brought while the older one was being encrypted; and `excused`, a directory left open by a crash or a
failing `chmod`. `Stop` cancels the tasks, whose `finally` clauses run; `Crash` does not let them.

### Delivery

One answer, a sequence of characters of three kinds: text, newline, tag. Which chunks
`_split_html` makes is a recursive function of the positions (`Split`); a chunk that
`edit_or_send_rich` hands over already converted is converted again, which makes its tags longer
(`Reconverted`). The actions are the calls to Telegram that return or raise, each with its fallback;
`TakesEffect` is Telegram carrying out the call that is awaited, whatever it reports.

## 3. What the runs show

| Run | Instance | States | Properties |
|---|---|---|---|
| `dispatch` | 4 messages, cap 3 | 25 thousand | `TurnsInOrder`, `NothingLost`, `ArrivalOrder`, `ImplementsService`, `EveryMessageSettles` |
| `approval` | 1 streaming and 1 regular turn, 2 approvals, rounds of up to 2 | 31 thousand | `ExecutedWasApproved`, `TableIsWhatIsAwaited`, `WaitIsAnswerable`, `ImplementsApproval`, `TurnEnds` |
| `consolidator` | 2 topics, 1 slot, window of 2, 3 messages, 2 restarts | 378 thousand | `SlotsAccountedFor`, `OneRunPerTopic`, `RunsHaveNews`, `TornRunIsRedone`, `ImplementsDistiller`, `RunsEnd` |
| `facts` | 2 topics, 2 runs, 3 facts, 1 reader | 824 thousand | `CachedRunsAreWhole`, `CatchesUp` |
| `turns` | 2 batches, 1 `/claude`, 1 mention, `/clear` | 583 thousand | `ClearedStaysCleared`, `BatchesDoNotOverwrite`, `HistoryIsWholeTurns` |
| `permissions` | 3 users, 2 permissions, 3 requests | 81 thousand | `HeldByConsent`, `PendingMeansLacking`, `AdminsComeFromAdmins`, `DecisionIsFinal` |
| `tools` | an admin with one call and another user with two in parallel, 2 turns, a window of 4 with threshold 3 | 325 thousand | `MutationsByAdmins`, `OvershootIsBounded`, `CallsEnd` |
| `process` | restart after 2 checks, exit after 4, 3 wedge hits, 3 messages | 429 thousand | `OrphansHaveACause`, `SilenceIsCured`, `StoppedProcessEnds` |
| `outbox` | 2 uploads of one name, the tool and `/sendfile`, 2 ticks, 2 tries each | 1.2 million | `KeptApart`, `VanishesByOthers`, `CallsEnd` |
| `kube` | 1 `/shell`, 1 `/kshell`, 2 `/reconcile`, 1 kubeconfig, brought twice, 1 stop or crash | 2.5 million | `KubeconfigsSurvive`, `TempfilesAreOwned`, `LockedBetween`, `CommandsEnd` |
| `delivery` | every answer of up to 6 characters, limit 3 | 626 thousand | `ShownOnce`, `ShownWhole` |
| `twice` | 3 messages, cap 3 | ends in the violation | `DispatchedOnce` |

What they say, component by component. *Dispatcher*: turns never overlap and begin in order of arrival;
a message is pending, dropped by `/stop` or part of a dispatch, and it settles. *Approval*: a call is
executed only if the first tap on its open request was Approve, and once; the table is exactly what is
awaited; a wait always has a message that can answer it. *Consolidator*: one run per topic, no slot
leaked, no run without news unless the last run's checkpoint could not be recorded before a restart or
could not be read, a run torn by a restart is done again, nobody else's facts are touched. *Facts*: the
snapshot holds whole recorded runs, minus near duplicates of newer facts that it holds, and it catches
up with the store. *History*: cleared messages do not come back, batches do not overwrite each other; an
answer directly follows its question, and only a turn that raised or was stopped leaves a question
without one. *Permissions*: held by consent; admins descend from configured admins; decisions are final.
*Tools*: a mutating command runs only for somebody who was an admin during the call; the guard's
threshold is overshot by at most one call for each other call in parallel, of the same round or of
another turn. *Process*: a probe message nobody will delete is one that an individual failure happened
to; a deaf connection is cured; a stopped process ends. *Outbox*: an upload shares its file only with
one that ran at the same time or was named in the same second; a file that was found vanishes only by
another call's pruning. *Commands*: the kubeconfig brought last survives in one form or the other, but
for the exceptions in `spoilt`; a tempfile has an owner; the directory is locked between commands; a
command ends, whatever fails in it. *Delivery*: nothing is shown twice unless Telegram carried out what
it reported as failed, and nothing but newlines is missing.

Bounds, and why they are enough. *dispatch*: with four messages and a cap of three a batch can fill up,
be flushed by age or by a file, be dispatched twice, be overwritten by a successor and by the
successor's successor, and three dispatches can queue on the lock. *approval*: two approvals are two
calls of one round, two rounds of one turn, or one call of each of two turns. *consolidator*: three
messages exceed the window of two; two topics compete for one slot; two restarts allow a restart during
the recovery from a restart; `/clear` may come anywhere. *facts*: two runs are a run and its successor
in one topic, or one run of each of two topics with a text in common; three facts are a chain of similar
texts whose ends are not similar. *turns*: every pair of callers can overlap, with a third turn before
or after, and `/clear` is unbounded. *permissions*: three requests are a chain of two admins and one
more decision. *tools*: threshold and window are one below the code's 4 and 5; two turns run in
parallel, one of them with two calls of a round, and calls, grants and revocations are unbounded;
`MaxTurns` only bounds the lookups at the start of a turn. *process*: two checks and four keep the order
of the tiers (the code's are 6 and 18) with a further restart between them; three messages are a
previous one, its successor and one more. *outbox*: an upload is old or new when the other one arrives,
which is at the same moment, in the same second or later; a file becomes stale at the second tick, two
calls prune at once, and a call that failed is made again. *kube*: two `/reconcile` overlap on the
directory, one more command decrypts, the kubeconfig is renewed at any moment, and the crash falls
between any two steps, those of a migration included; what a failed write leaves is a second file to
encrypt. *delivery*: six characters are two cuts at a limit of three, with every arrangement of newlines
and tags at them. The bounds stand in the guards (`MaxMessages`, `MaxAsks`, `MaxPosts`, `MaxRestarts`,
`MaxRuns`, `MaxFacts`, `MaxRequests`, `MaxTurns`, `MaxTime`, `MaxTries`, `MaxStores`, `MaxCrashes`);
when they are used up the systems stop, hence `CHECK_DEADLOCK FALSE` in all runs.

Fairness. *dispatch*: the loop runs every ready task and armed timer, Telegram calls return or raise,
and a turn ends, which `ToolApproval` shows to be an assumption for regular turns. *approval*
(`AnsweredSpec`): as before, Holmes returns from its calls, a request's send ends, and somebody taps the
buttons they can see. *consolidator*: an LLM call returns or is given up after
`consolidator_llm_timeout_seconds`, and a run is not passed over for ever by the semaphore, whose
waiters are a queue (strong fairness). *facts* (`TimedSpec`): the refresh thread goes on, a poke wakes
it, its interval ends. *tools*: every wait has its 1.5 s and every tool its own limit. *process*
(`LiveSpec`): the main coroutine and both `stop()` go on, the container restarts what has exited;
updates, signals, failures and the probe owe nothing. *outbox*, *kube*: every wait has its limit (180 s,
120 s), and a migration goes on to its end. Runs without temporal properties use no fairness.

### Where code and documentation disagree

Run `twice` is expected to end in a violation: `_flush_batch` says it clears the pending state, and does
not, so a flush task that starts after a cap or a file has flushed the same batch dispatches it again.

The other disagreements are stated in the modules as formulas that no run checks. Each becomes a
counterexample when it is put into the configuration of its module's run in place of the properties.

| Formula | What the code does instead |
|---|---|
| `NothingToStopIsTrue` (`TopicDispatch`) | `/stop` says "Nothing to stop." while a turn is running whose registry entry was replaced by a later batch that an earlier `/stop` discarded |
| `ToldApprovedIsTrue` (`ToolApproval`) | whoever taps Approve is told that the AI continues, even after the turn has timed out or another person's Deny |
| `WaitEndsUnanswered` (`ToolApproval`, with `FairSpec`) | the five-minute default to deny is on a path no handler uses; a regular turn waits for ever and keeps the topic's lock |
| `SkipsOnlyWithoutNews` (`Consolidator`) | the idle guard compares lengths capped at `consolidator_max_turns`; a topic beyond it is never distilled again |
| `EndpointBounded` (`Consolidator`) | the semaphore is said to bound how many topics hit the model endpoint at once; a call that timed out goes on in its thread after its slot was given back |
| `FailedRecordKeepsFacts` (`Consolidator`) | a failed `record_run` does not keep the previous facts: they are already deleted |
| `PokeIsPrompt` (`FactCache`, with `PokedSpec`) | the refresh thread clears its event after its pass: a poke during the pass is lost until the interval ends |
| `ClaudeTurnsStay` (`ConversationTurns`) | `/claude` works on the history without the topic's lock; its turn can be dropped |
| `PlansAreExempt` (`ToolCalls`, with `TodoWrite` among the tools) | the loop guard skips `todo_write`, but the tool's name is `TodoWrite` |
| `SignalEndsProcess` (`BotProcess`) | `stop()` ends no process; a signal during start-up leaves one that polls with its services stopped |
| `KeepsBoth` (`Outbox`) | two uploads of one name in the same second, or at the same time, overwrite each other |
| `FailedFilesStay` (`KubeCommands`) | files that fail to encrypt are said to be left as they are; one whose `unlink` fails has been overwritten by then, and the next migration encrypts the random bytes over the good copy |

Smaller observations made while modelling:

- Dispatcher and history. A mention whose welcome message fails is told "Failed to create conversation
  topic", although the topic exists and its message stays unanswered. Users can write in a new topic
  before its first turn begins. An upload with `/addmemory` is handled by two handler groups
  (`main.py` 353-370).
- Tools. The admin lookup of `chat()` blocks the loop it waits for and always times out after 1.5 s,
  so an admin by database is announced to the engine as no admin. The guard refuses the fourth
  identical call, not the fifth; a parameterless tool with three successes in its window is refused
  until other calls push them out, and there are none. It wraps neither `search_memory` nor
  `chat_send_file`. `_last_investigation_tasks` is shared by all topics. A turn cut by
  the 240 s limit leaves its Holmes thread running: twenty of them, and no turn gets a thread.
- Process. Polling is restarted at every check between 30 and 90 minutes, where the comment speaks of
  two restarts. A cancelled probe leaves its kubectl processes to their own time limit.
- Outbox. The tool may report an error for a file that was delivered: it asks for its size afterwards.
  Two calls that prune at once may remove a fresh upload: one has found the old file of that name too
  old, the other removes it, the upload takes the name, and the first removes it (`Unlink`). A copy that
  fails half-way stays in the outbox under its name.
- Commands. `/reconcile` answers "No shoot matched" also when the annotation failed; errors of the
  lookup are dropped; a failing `mkstemp` leaves the acknowledgement at "Running". Nothing removes
  tempfiles or the open mode of the directory after a crash, and root reads it at mode 000 anyway, which
  is why the first of two `/reconcile` to lock it does the other no harm. A crash between overwriting
  and removing a plaintext loses the kubeconfig at the next migration; so does a file that the operator
  brings while the older one of that name is being encrypted: it is shredded in its place.
- Delivery. `send_rich_message` swallows every failure, so that `_notify_delivery_failure` and the
  fallback of `/claude` are never reached. The chunks of a streamed answer after the first are
  converted twice and show their tags. An answer that converts to nothing deletes the placeholder.
- Consolidator. `TornRunIsRedone` leaves out a run that only took place because its checkpoint could
  not be read: if such a run is torn by a second restart, the stored checkpoint, readable again, lets
  nobody redo it.
- Permissions. `HeldByConsent` says nothing of users an operator edits into the database by hand.

## 4. What is proved

The theorems hold for every value of the constants; TLC has checked each formula on the instances above
first; the type invariants, and `AnswerIsFinal`, which `ImplementsApproval` implies, are proved
without being in a run. Each proof assumes only the named assumption of its module
(`ConstantsAssumption`; also `KindAssumption`, `ProcessAssumption`, `ProbeAssumption`,
`PermissionAssumption`, `DeliveryAssumption`). Every safety property, every action property and all
three refinements of the passing runs are proved.

`TopicDispatch_proofs` (`MaxMessages` a natural number, `BatchMax` a positive one). The properties are
not inductive: `NothingLost` needs to know which batch the finally clause may remove, `TurnsInOrder`
how the lock's queue relates to the dispatches. `IInv` adds

- `LockState`: dispatches pass the lock in index order, so the queue is exactly the tail of the
  dispatches, and everyone before it is done except the holder;
- `BatchState`: an armed timer belongs to a pending batch; a dispatching batch has the texts of the
  dispatch it points to; a batch contains the message it is named by;
- `RegistryIsNewest`: every dispatch is of the registered batch or has older messages only.

One lemma per group of actions shows that `IInv` is preserved, with `Flush`, which three actions
share, treated once; `Invariance` then gives `TypeCorrect`, `SerialTurns`, `NoMessageLost`,
`PendingScheduled`, `KeepsArrivalOrder` and `StopIsLive`. `Implementation` uses `IInv` to show that
every step is a step of `TopicService` or leaves its variables alone.

`ToolApproval_proofs` (`Streaming` a set of turns, a round has at least one call).
`ExecutedWasApproved` says nothing of the answers on their way to Holmes and `WaitIsAnswerable` nothing
of the taps so far, so `IInv` adds

- `RoundState`: an asking turn waits for an approval of its own, every other turn for nothing, and the
  decisions of a round are taken. Two turns never wait for the same approval because an approval knows
  its turn: this is why removing one turn's entry leaves the others';
- `AskState`: an unanswered approval is in the table, untapped, and being sent or showing its buttons;
  an approved one was first tapped so;
- `HandedState`: what was handed to Holmes is approved (and stays so).

Three lemmas carry the steps: `AskNextPreserves` for a new request, `LeavesRoundPreserves` for a turn
that resumes, ends or times out, `OneAskChanges` for the message, its send and its taps.

`ApprovalImplemented` is the refinement. `IInv` bounds what a turn waits for, not what its round
consists of, so `RoundIsFresh` is carried along: a call in a turn's round is that turn's and was not
executed yet. It is needed for "once": handing over a round takes out of it what it executes, and a
new call has a number nobody has seen. Both ways to ask are a `Request` (`AsksMap`), resuming is an
`Execute` (`ResumeMaps`), the end and the timeout a `Close` (`EndsMap`), and whatever happens to one
request an `Answer` or nothing (`OneAskMaps`).

`Consolidator_proofs` (window, slots and bounds are natural numbers, at least one slot).
`RunsHaveNews` speaks of what the last finished run has seen, the guard compares with a checkpoint:
`GuardState` says that a run's window exceeds the checkpoint, which rests on `OneRunPerTopic`, as no
checkpoint moves while a run of its topic is in flight, and `CheckpointState` that the checkpoint is that
run's window unless it was lost (`lapse`).
`TornRunIsRedone` does not survive a restart by itself, which forgets the checkpoint in memory;
`TornState` adds that the one in MongoDB lets the run pass as well, and this holds for a newly torn
run because its size exceeded a checkpoint at least as large (`Redoable`). `SlotState` needs
`OneRunPerTopic` too: a run that takes a slot is not counted yet. Steps that leave runs, torn topics
or slots alone are gathered by `RunsLeft`, `TornLeft` and `SlotsLeft`.

`DistillerImplemented` is the refinement, from the same `IInv`: `OneRunPerTopic` makes a run known by
its topic and size (`TagsDiffer`), so that removing it removes one element of the abstract set;
`SlotState` turns a free slot into room for one more waiting run (`TakeSlotMaps`); and a fire that loads the
checkpoint leaves the mark alone or misreads it (`CheckpointRead`). Timers, and fires that find a run
or no conversation, change nothing the abstract specification sees.

`ConversationTurns_proofs` (every turn has a kind, at most one is the turn of a mention in the general
chat). `BatchesDoNotOverwrite` says nothing of the copies that turns still hold, so `IInv` adds

- `DocState`: the document is a sequence of whole turns; what it holds, and what was cleared, comes
  from turns that ended, and nothing is both;
- `CopyState`: a copy holds whole turns, and of its own turn nothing before the question is appended,
  then the question as its last message. A copy whose document was deleted finds nothing to update;
- `AnswerState`: the questions in the document have their answers, but for those of broken turns, and so
  have those in a copy, but for its own turn's;
- `OneBatch`: two batches are never in their turn together (the topic's lock);
- `UpToDate`: the copy of an undisturbed batch has everything that is stored.

`AdminCommands_proofs`, permissions. The conjunction of `PermissionTypeOK`, `HeldByConsent`,
`PendingMeansLacking` and `AdminsComeFromAdmins` is inductive as it stands: `HeldByConsent` and
`AdminsComeFromAdmins` because an approved request never changes, `PendingMeansLacking` because
approving one request leaves no other for the same permission. `FinalDecisions` is an action property
and needs the types only.

`AdminCommands_proofs`, kubeconfigs (the commands are three disjoint sets, no temporary file has a
kubeconfig's name). `TempfilesAreOwned` and `LockedBetween` are inductive with the types.
`KubeconfigsSurvive` is not: the shredding needs the encrypted file to hold what it takes away. `FileState`
says where the content brought last is at each operation of an encryption: in the plaintext until that is
overwritten, in what was read and, from the rename on, in the encrypted file. There is one lemma per file
operation (`ReadNextFiles` ... `UnlinkFiles`), and `EncryptStepKeeps` for the rest of the state.

`ToolCalls_proofs` (the turns and threads are finite, the threshold is at least 2, every thread has an
owner). `MutationsByAdmins` says nothing of a call that still waits: `Cleared` adds that an answer "yes" and
a mutating command on its way through the guard come from a moment at which the user was an admin.
`OvershootIsBounded` is inductive with the types: a call the guard lets through finds at most all other
threads executing the same. Its proof counts the places of a parameter in a window: appending adds one at
most, dropping the oldest adds none.

`Services_proofs`, process and probe (`RestartAfter < ExitAfter`, as in `main.py`). `OrphansHaveACause`
says nothing of the id the running probe remembers, but a probe that is stopped leaves its message to
whoever finds the stored id. `ProbeInv` adds `PrevIsStored`: the two ids are the same message, or
something failed for the remembered one; and `DeleteState`: a deletion is under way only with both a
new and a previous message. `ProcessInv` adds the bounds of the watchdog's counters.

`Services_proofs`, facts (any topics, texts, threads and any relation of similarity).
`CachedRunsAreWhole` speaks of the cache only. `CacheInv` adds

- `ThreadState`: the runs a thread has read are recorded, and what it has computed consists of whole
  runs, so that what is published or seeded does, however old it is;
- `WriterState`: the run being written is not recorded, has all its facts in the store so far, and is
  no topic's latest: what is added to it belongs to no run a thread can have read;
- `JournalState`: the facts of one run are in the store together or not at all, so that the second
  query finds all of a run or nothing.

`DedupChosen` is the lemma about the data: the greedy choice exists (`ChoiceExists`, by induction from
the newest fact downwards), a fact is left out only for a newer similar one that is kept, and no two
similar facts with vectors are kept.

`Outgoing_proofs`, files (the files kept at the start have different names). `KeptApart` speaks of the
end of an upload, but what it forbids happens at its beginning: two uploads on one path have met
(`Apart`), because the path of a kept one exists (`FileExists`) and is not chosen as free; only a
meeting upload empties a file (`StillThere`). `VanishesByOthers` needs that a file found is there
until another call removes it (`Found`).

`Outgoing_proofs`, delivery (answers of any length, a limit of at least 2). `ShownOnce` and
`ShownWhole` count what the topic shows; `DeliveryInv` says what is still to be sent:

- `OnceState`: a position in a chunk that is ahead has been shown at most `lies` times, any other once
  more. A chunk whose call has taken effect is not ahead until the call is reported as failed, which
  is a lie;
- `WholeState`: a position that is not a newline, not shown and not given up is in a chunk of `todo`;
- `TodoState`: no position is in two chunks, and chunks are within the limit;
- `CallState`: what each call is made with; until the placeholder is edited or deleted nothing has been
  sent.

They rest on three facts about the data, each for every input: `SplitGood` (the chunks of any text hold
each character but newlines once), `ReconvertedHolds` (converting a chunk again neither loses nor
repeats a character) and `Resplit` (both for all chunks of an edit). `Split` is a recursive function
and `FlattenSeq` hides one, so that even their existence is an induction (`SplitSteps`,
`FlattenSteps`). The library's induction theorem takes an operator, which the provers cannot
instantiate; `SetInduction` states it for a set, and follows from the well-foundedness of `<`. A proof
by induction defines the set of numbers that satisfy the claim and hides its definition before it
cites `SetInduction`.

Only model-checked: the liveness properties `EveryMessageSettles`, `TurnEnds`, `RunsEnd`, `CatchesUp`,
`CallsEnd`, `CommandsEnd`, `SilenceIsCured`, `StoppedProcessEnds` (TLAPS has no rules for `ENABLED`
here, so liveness under fairness is out of reach).

## 5. Not modelled

- Holmes, Telegram, MongoDB, kubectl, AES-GCM, the embedding service: external, modelled by what they
  may do.
- Engine calls (`holmes_service.py` around the engine): prompts, conversion of messages, formatting of
  events. Data transformation; the control around it is in `ToolApproval` and `ToolCalls`.
- Rate limit and the table of duplicates (30 s): check and record are one step of the loop and depend
  on the clock alone, so there is nothing to interleave. Duplicates are recognised
  without the chat: a message of another chat with the same id is taken for one.
- `/ping` and the status entry it reads: it is no image of the topic's lock, as a turn drops it before it
  saves and replies, and `/claude` writes and drops it without the lock. Nothing else reads it.
- The conversion of markdown to HTML, beyond tags and newlines; the splitting and retrying functions
  of `telegram_helpers.py`, which no handler reaches.
- Memory and knowledge base: one document per call, ranking by floating point.
- Vision, file extraction, configuration, the health endpoint's text: reading and formatting.
- The classification of mutating commands by regular expressions: text matching, a constant of
  `ToolCalls`.
- Path policy and size limits of the outbox: one condition of `Resolve`.
- Scripts (`src/scripts/`): run once, by hand, alone.

## 6. Plan

The order was: most important behaviour first. The dispatcher, approval, history, consolidator and
permissions came first, with the abstract `TopicService`, later `ApprovalService` and
`DistillerService`; then fact cache, tools, life cycle with
probe, outbox, commands with kubeconfigs, delivery; then the proofs. What is left:

1. A composition of dispatcher, approval and conversation for one topic: a turn that waits for an
   approval holds up the topic, `/clear` and `/claude` do not.
2. An abstract specification of the injected facts (the last recorded runs) for `FactCache` to
   implement. One of the outbox (a set of kept uploads) would need all exceptions of `KeptApart`.
3. The duplicate table and the rate limit with a clock, if they ever gain an await between check and
   record.

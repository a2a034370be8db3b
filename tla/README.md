# OpenPawlet in TLA+

This directory holds the formal models of OpenPawlet, the personal-agent server under
`src/src/openpawlet` and `src/src/console`: TLA+ modules translated from the Python source,
configurations that check them with TLC, and proofs checked with TLAPS. It covers the parts of the
runtime in which concurrency, cancellation and crashes decide whether messages are answered,
sessions stay intact, text is shown and jobs run. What is left out is named in section 12.

    tlc -workers 2 -config SessionDispatch_turns.cfg MCSessionDispatch
    tlapm TurnPersistence_proofs.tla

## 1. The system

OpenPawlet is one asyncio process: channels (Telegram, Slack, a websocket, ...) and an agent loop
joined by an in-process message bus, with a FastAPI console in the same event loop. Everything
interleaves at `await`, and only there. Shell commands, model requests and sends are awaits of
seconds to minutes, so the state read before one may be stale after it; a task can be cancelled at
any of them; and the process can die.

| Part (openpawlet/) | State it keeps | Operations | Correct when | Here |
|---|---|---|---|---|
| Inbound dispatch: `agent/loop.py` run, _dispatch; `command/builtin.py` | bus queue, `_active_tasks`, `_pending_queues`, session locks, gate | publish, route or start a task, turn, inject, re-publish leftovers, /stop, /new | one turn per session; no message lost or taken twice; /stop leaves nothing; all is resolved | SessionDispatch |
| One turn: `agent/loop.py` _process_message, `agent/runner.py` | session rows and metadata, runner messages, `save_skip`, checkpoint | early save, requests, tool calls, drains, questions, save, repair, /new | what was taken in is saved once; no result without its call; turns end | TurnPersistence |
| Cron: `cron/service.py` | jobs in memory, `jobs.json`, `action.jsonl`, timer task, `_running`, `_timer_active` | start, stop, add, remove, enable, update, run, tick; another process's calls | acknowledged jobs stay, due jobs run, one-shots run once, runs are recorded | CronService |
| Bus events: `bus/queue.py` | subscriptions, direct mailbox, request waiters | publish, subscribe, request with retries, reply, ack; a member's event loop | a request gets its own reply or a timeout; a direct event is delivered or kept | EventBus, RequestReply |
| Session store: `session/manager.py` | cache, JSONL files, `_disk_anchored` | get_or_create, save, invalidate, delete, flush | what the file held stays or is archived; a deleted session stays deleted | SessionStore |
| Compaction: `agent/autocompact.py`, Consolidator in `agent/memory.py` | `_archiving`, summaries, `last_consolidated` | archive when idle, consolidate by tokens | no row lost or hidden that was not summarised, none summarised twice | SessionStore |
| Memory: `agent/memory.py` | `history.jsonl`, two cursor files | append, compact, Dream | Dream passes no entry over and comes to each | MemoryHistory |
| Subagents: `agent/subagent.py` | running tasks, statuses | spawn, announce, cancel | a result reaches the turn that waits for it; /stop leaves none running | Subagents |
| Outbound: `channels/manager.py` | outbound queue, the dispatcher's `pending`, the adapters' stream buffers | coalesce deltas, send, edit, split, retry | text is shown once, in order and completely | OutboundDispatch |
| Providers: `providers/base.py`, `failover.py` | key index, failover chain | request, retry, switch | bounded calls; every usable instance asked; requests end | ProviderFailover |
| Runtime: `runtime/embedded.py`, `agent_manager.py` | loops and tasks per agent, fingerprints, last signatures | start, stop, reconcile, start_main, stop_main | one loop per agent, as the files say; nothing outlives stop() | RuntimeLifecycle |
| Heartbeat, console, provider adapters, tools, CLI | – | – | – | see section 12 |

How they interact: channels and cron call `publish_inbound` or, for cron, the heartbeat and the
console, `process_direct`, which runs a turn without the dispatcher (no session lock and no pending
queue). The dispatcher gives each turn a pending queue, and the runner drains it between requests;
a subagent's result comes back as an inbound message. A turn writes the session through the session
manager, and starts consolidation in the background when it ends. Cron awaits a whole turn inside
its timer task. The console calls the same objects from its request handlers, or a second
`CronService` on the same files when no runtime is live.

The hard behaviours, each listed at its line under `hazards` in `PROJECT.json`: cancellation
between any two steps, several tasks of one session, queues at their limit, reloads that replace
objects somebody holds, crashes between two writes, and boundaries (`save_skip`) computed from
lengths that other code changes.

## 2. SessionDispatch

State and actions follow `agent/loop.py`. A task is named by the message it was created for
(`task`, `cancelled`, `queue`); `pendingQueues`, `lockOwner`, `lockWaiters`, `gateWaiters` and
`activeTasks` are the loop's tables; `loop` says where `run()` is. An action is what runs between
two real yields:

- `Consume`: `run()` takes the head of the bus and routes it to a pending queue, starts a task, or
  handles /stop (always) and /new (when a turn is registered) itself, in which case it awaits every
  task it has cancelled (`CommandDone`).
- `DispatchStart`, `LockAcquire`, `GateAcquire`, `Inject`, `TurnDone`,
  `CancelledError`: `_dispatch()`, whose `finally` (`Unregister`) pops whatever queue is registered
  for the session and publishes its messages again, in the same step in which the task ends.

`EagerConsume` selects what `asyncio.wait_for` does on a non-empty queue: up to Python 3.11 it
yields, from 3.12 on it does not, so that `run()` can take several messages before the tasks of the
first exist. The project requires at least 3.11, so both are in use; the model treats the two
values as two builds.

| Run | Instance | Shows |
|---|---|---|
| `dispatch_turns` | 2 messages and /stop, /new in one chat, 1 in another; gate 1; queues that do not fill; 3.11 | a message is in one place (`HeldOnce`) and is never lost; the registered queue is the turn's own; /stop is complete; every message is resolved |

Overflowing queues and 3.12 are in the run of Subagents below.

*Bounds.* Two messages of a chat give an owner and a follow-up, the two commands every cancellation
of them. The second chat is there for the gate, which with one place makes tasks wait for both locks.

*Fairness.* Weak fairness of each task's steps, of `Consume` and of `CommandDone`: the event loop
runs every ready coroutine, and a turn ends because each request, tool call and wait in it has a
timeout. Nothing is assumed about channels (`Publish`) or about `Inject`.

*Disagreements found* (each with a configuration of its own that TLC refutes). (1)
`SessionDispatch_lost.cfg`, `NoMessageLost`: a message that overflows a pending queue starts a task,
which replaces the registration of the turn under way; the first of the two to end pops the other's
queue, and what the first turn's queue still held is never published again, although the comment in
the `finally` says leftovers are "processed as fresh inbound messages rather than silently lost".
(2) `SessionDispatch_unified.cfg`, `StopIsComplete`: with a unified session the tasks are filed
under the unified key and /stop looks them up under the chat's own key, so it stops nothing. (3)
`SessionBusyDuringTurn`, with the constants of `SessionDispatch_lost.cfg`: after such an overflow
`is_session_busy()` is false during a turn, which its docstring excludes and on which the idle
compaction relies.

### Subagents

`Subagents` extends SessionDispatch with `agent/subagent.py`. A subagent is named by the message that
carries its result; `agent` and `parent` are its task and the turn that spawned it, `doomed` the
cancellations under way. A running turn may `Spawn`; `Report` publishes the result as an inbound
message whose session key is the one the spawn tool was given (`SpawnKey`), after which it is a
message like any other: injected, or dispatched on its own. A drain that finds nothing while
subagents of the session run waits (`WaitForResult`) for a message (`Drain`) or 300 s
(`WaitTimedOut`). /stop and /new are answered in two steps: the turns are cancelled and awaited, then
the subagents that run at that moment (`CancelBySession`). The console cancels one (`CancelTask`). A
cancelled subagent announces nothing.

| Run | Instance | Shows |
|---|---|---|
| `subagents_results` | 2 messages, 2 results, /stop, /new; queue of 1; no gate; 3.12 | one turn per session, although queues overflow and several tasks compete for one table entry; a turn that waits has something to wait for (`WaitIsUseful`); when /stop is answered no subagent of the session runs (`StopLeavesNoSubagent`) |

*Bounds.* The overflow needs an owner, one message that fills its queue and one that overflows it:
two messages and two results of a session and a capacity of 1 (20 in the code) give every order of
these. Every subagent can be spawned by any turn of the session and end at any time.

`WaitIsUseful` sets two cases aside, in which the turn waits out the 300 s: the console cancels the
subagent; and another task of the session has replaced the registration, so that the result goes to
the queue of a task that waits for the lock the waiting turn holds. The second is against "routed to
the correct pending queue (mid-turn injection) instead of being dispatched as a competing independent
task" (`subagent.py:767-770`); `ResultReachesWaiter` in place of `WaitIsUseful` shows it.

*Disagreement found.* `Subagents_threads.cfg`, `ResultComesHome`: `_set_tool_context` gives the spawn
tool `channel:chat_id`, against its comment "Compute the effective session key ... so that subagent
results route to the correct pending queue" (`loop.py:830-831`). A message of a Slack thread, a
Telegram topic or a Feishu group has a session key of its own, so the result of a subagent spawned
there goes to the session of the whole chat, its turn does not wait for it, and /stop in the thread
does not find it (`StopLeavesNoSubagent` fails with the same constants). In a unified session a result
that is dispatched on its own is processed in the session of its chat (`loop.py:1552`), not in the
unified one (`MCUnified`).

## 3. TurnPersistence

One session, and the turns that run in it, one at a time (SessionDispatch shows that they are).
`rows`, `pendingUser` and `checkpoint` are the session and its metadata, in memory and on disk: the
code saves before each await that follows a change, and the comment at the head of the module says
so. `msgs`, `skip`, `iter`, `cycles` are the runner's local variables. A row is its role, the
messages whose text it carries, and, for the rows of a request with tool calls, the step that wrote
it: enough to tell a lost, a doubled and an orphaned row.

- `BeginTurn` repairs an interrupted turn (`_restore_runtime_checkpoint`,
  `_restore_pending_user_turn`) and consolidates; `Prepare` saves the prompt early, or turns it into
  the result of an open question.
- `ToolCalls`, `ToolsDone`, `ToolFails`, `DrainAfterTools`, `Answer`, `NoAnswer`, `Retry`, `Close`
  are the runner's loop, each with its drain of follow-ups and its checkpoint; `SaveTurn` is
  `_save_turn` and the end of the turn.
- `Interrupt` (cancelled or failed), `Crash` and `New` (in a turn of its own, or handled by `run()`
  in the middle of one) can happen at every step.

`Ops` names what an instance performs. The two passing instances are the two ways a turn is run,
and they are apart because of finding (C) below, which makes the properties fail as soon as failing
requests and a pending queue meet.

| Run | Instance | Shows |
|---|---|---|
| `turn_channel` | 2 prompts, a subagent's result, /new; follow-ups at each drain; questions, /stop, crashes | prompts and follow-ups are saved once (`HeldMessagesSaved`), no orphan result, no step twice, prompts alternate |
| `turn_direct` | 2 prompts, /new; no pending queue; failing and blank requests, retries, fatal tools, the iteration limit | prompts stay saved (`PromptsSaved`) and every turn ends (`TurnEnds`) |

*Bounds.* Three iterations (200 in the code) allow two steps with tool calls and an answer, hence a
checkpoint that overlaps the session, one that replaces another, and a question after a step; two
cycles (5) of two injections (3) reach the limit of each. In `turn_channel` the iterations are a
bound of the model, not an event: without `"maxIterations"` a turn may not begin its fourth
request; every turn can still end, since each request may be answered.

*Fairness.* Weak fairness of the steps of a turn as a whole, for the reason given above. It does
not favour answers: a turn that calls tools for ever is stopped by the iteration limit, and that is
what `TurnEnds` is about.

*Disagreements found.* (B) `TurnPersistence_boundary.cfg`, `NoOrphanResult`: `save_skip` counts the
early-saved prompt as one row, but `build_messages` merges it into the last row of the history when
that is a user row, as it is after a follow-up drained behind the iteration limit; the first row of
the new turn is then never saved, and if it holds tool calls their results are orphans, at which
`get_history()` cuts off all that came before. (G) `TurnPersistence_fresh.cfg`, `NewIsFresh`:
`Session.clear()` keeps the metadata, so /new in the middle of a turn leaves the cancelled turn's
checkpoint, and the next message restores it into the new conversation. (C)
`TurnPersistence_merged.cfg`, `HeldMessagesSaved`: a follow-up drained after a failed first request
is merged into the prompt's row, which is saved already, so the follow-up never reaches the session.

## 4. CronService

`mem`, `disk` and `log` are the store in memory, `jobs.json` and `action.jsonl`; `tick` holds the
timer tasks, of which `timer` is the current one; `manual` is the `run_job()` call under way;
`attached` says of which jobs a running execution still holds the object that is in the store, for
only those will show what it records. `other` is a second instance that is not running (the
console's fallback): it loads, changes its own copy and appends, with other steps in between. API
calls are synchronous, so each is one action, including the merge of the log, the save and the
re-arming of the timer, which cancels a tick that is awaiting a job.

| Run | Instance | Shows |
|---|---|---|
| `cron_api` | 4 jobs of all kinds, all calls but run_job and stop, crashes anywhere, one inside the merge included | acknowledged additions and removals survive restarts (`EditsKept`); finished runs are recorded whatever polls or changes happen meanwhile; the timer always covers the next job; one-shots run once |
| `cron_shared` | run_job, remove, stop; additions, updates and removals by the other instance; slow cancellation | a due job runs although its timer is cancelled again and again |

*Bounds.* `MaxNow` (3) covers a repeating job's second period, a one-shot's instant and what comes
after it; two timer tasks are a tick and its successor, `MaxCalls` (4 or 5) allows a change before,
during and after a job. `Finished` is the stutter at the bounds, so deadlock is checked everywhere.

*Fairness.* Weak fairness of each timer task and of `run_job()`'s end. API calls and the clock are
not fair: `DueJobRuns` begins when the job is due.

A crash between the truncation of the action log and the save of the merged store loses what the log
alone held; `added` and `removed` set that aside, since no document promises more of the log.

*Disagreements found.* `CronService_rerun.cfg`, `OneShotOnce`: `run_job()` arms the timer even when
it refuses a disabled job. If a tick is executing, that cancels it without a save: a one-shot it had
already finished is due again at the next load, and runs a second time. `CronService_runstate.cfg`,
`RunningAsRequested`: `run_job` saves `_running` before the await and restores it after, so a
`stop()` in between is undone, against the comment "without disturbing the service's running state".
`CronService_reload.cfg`, `RunsRecorded`: `list_jobs()` while `run_job()` runs replaces the jobs, and
the run is not recorded. `RunsRecorded` is in `cron_api` only, because three more ways lead to the
same loss: a whole job written by another instance's "update" that was read before the run; a
cancelled tick that is slow to end and clears `_timer_active` under its successor; and `stop()` while
a tick has several jobs to run.

## 5. EventBus and RequestReply

`EventBus` is the part of `bus/queue.py` through which agents talk to each other. `open` and `queue`
are the subscriptions and what each has not consumed, `mailbox` the direct events nobody has
acknowledged, `waiters` the futures of `request_event`, `request` the state of each call of
`send_to_agent_wait_reply` and the attempt it is at. `member` is where the event loop of a member
is (`agent/team_serve.py`): starting, replaying its mailbox, in the turn of one event, or blocked in
a call of its own; a member blocked in a call does not serve what it is asked. The gateway agent
listens with `subscribe_event`, in the background (`Install`, `Pump`) or inside a turn (`AwaitInline`).
The bus's locks are never held over an await, so a publication, a subscription, a listing and an
acknowledgement are one step each.

`Expire` and `TimedOut` are apart because they are in the code: the timer cancels the future, and
the caller removes the entry when it runs again; a reply in between is swallowed.

`RequestReply` is the abstract specification of a request: published up to `1 + MaxRetries` times,
successful only with an answer to itself, given up only when all attempts are used, and ended at
last. `ImplementsRequestReply` states that EventBus implements it, liveness included, under the
mapping in EventBus (`status` from the state of the call, `asked` from its attempt).

| Run | Instance | Shows |
|---|---|---|
| `events_requests` | two members that ask each other and receive a direct message; or the gateway asks a member and listens in one of two ways; one retry, one reply per request | the refinement; a handled event is in no queue or mailbox any more (`HandledOnce`); a listening member's mailbox gets nothing new; two members that wait for each other are both served at last (`QueuedEventsServed`) |

*Bounds.* One retry has all the states of several; one start of each loop is enough for a turn that
is cancelled in the replay and for one that fails. *Fairness*: timers, callers whose wait is over,
and turns that are not blocked in a call.

*Disagreement found.* `EventBus_leak.cfg`, `OfflineMailIsKept`: a loop cancelled in a replayed turn
leaves its subscription open (`team_serve.py:90` is outside the `try` that closes it), and what is
sent to the agent afterwards goes into a queue that nobody reads instead of its mailbox.

## 6. SessionStore

One session as an object with a file. `store` holds the objects of this process, which of them is
cached, and the file; each activity (a turn of the dispatcher, a `process_direct` turn, a
consolidation, the archive of /new, a compaction) keeps the object it began with over its awaits.
`turn` and `task` say where each activity is, and `lock` is the consolidator's lock with its waiters
in order. A row counts as one token, an answer is one row, a summary is a Boolean, the archive and
the save of the cursor are one step because no await is between them. `history` is what reached
`history.jsonl`, `evicted` what a trim moved to the transcript, `said` all the file ever held.

| Run | Instance | Shows |
|---|---|---|
| `session_rows` | turns that consolidate before and after, cancelled, restarted and shut down; two turns at once; a heartbeat's turn with its trim; /new; deletion and creation by the console; and compactions while nothing else is at work | no row leaves the file unless it was archived, trimmed or deleted (`RowsKept`); the cursor never passes a row that was not archived; no row is archived twice; deleted rows do not come back; a prompt begins with a user's row; a waiting turn goes on |

*Bounds.* Eight rows are four turns of one prompt and one answer, which a budget of three rows makes
consolidate twice; two background tasks at a time; each rare operation once. The plans keep apart
what each question needs. `quiet` is an assumption on the environment: a compaction begins only when
nothing is at work, and nothing begins until it has ended. Without it the properties fail, as the
first of the following shows. *Fairness*: a model call returns or times out.

*Disagreements found.* `SessionStore_compact.cfg`, `RowsKept`: `AutoCompact._archive` chooses the rows
to keep before it awaits the summary, and assigns them afterwards; a turn that runs meanwhile loses
what it saved. With `Plans <- MCNewPlans` in its place, `HiddenRowsAreArchived`: a consolidation that was awaiting its
summary when /new emptied the session saves its cursor on top of the empty session.
`SessionStore_delete.cfg`, `DeletedStaysDeleted`: so does one of a session that was deleted in the
console, which brings the file back.

## 7. MemoryHistory

`history.jsonl`, `.cursor`, `.dream_cursor` and the legacy `HISTORY.md` are the files; `run` holds the
Dream runs under way: the cron job's and that of /dream, which exclude each other in no way. File
operations are synchronous, so only a crash comes between two of them: `CrashInAppend`,
`CrashInFinish` and `CrashInMigration` are the crashes inside one, and the file being overwritten is
left empty.

| Run | Instance | Shows |
|---|---|---|
| `memory_dream` | up to 5 entries, batches of 2, a history of 3, two overlapping runs, an upgrade or a new installation, 2 crashes anywhere but between an entry and its number | an entry Dream has not read is in the file above Dream's cursor (`NothingPassedOver`), and every entry is dreamt about at last (`EveryEntryDreamt`) |

*Assumption.* No more than `MaxHistory` (1000) entries wait for Dream (`Backlog`): compaction keeps the
newest entries whether Dream has read the others or not. *Fairness*: the cron job comes again and
again, a restart follows a crash, and the analysis, which may fail, succeeds at last (strong fairness).

*Disagreements found.* `MemoryHistory_crash.cfg`, `NothingPassedOver`: after a crash between an entry
and `.cursor` the next entry has the same number, and Dream's cursor may already be there.
`MemoryHistory_upgrade.cfg`, `LegacyNotReplayed`: a crash inside the migration leaves the archive
without a Dream cursor, so Dream replays it, which the comment in the migration excludes. Not checked:
phase 1 of Dream does not look at `finish_reason`, so an error's text is used as the analysis.

## 8. OutboundDispatch

The dispatcher (`Take` with its coalescing, `Attempt` with its retries) and the stream code of five
adapters, whose buffers are `buf`. Text is a sequence of parts, each published once; `shown` is what
the service was told to show. A call to the service may fail, and a call that fails is assumed to show
nothing; the edit interval is nondeterministic: any edit that is not the last may be skipped.

| Run | Instance | Shows |
|---|---|---|
| `outbound_streams` | five adapters (Telegram, Discord, Matrix, Feishu, WebSocket), each with a turn of two segments, two chats that stream at once, two topics of one chat, and an answer generated faster than it is sent; bubbles of 2 parts; 3 attempts, 2 failing calls | while no call fails text is shown once and in order (`ShownOnce`); it is shown completely, on Discord although calls that raise fail and for a stream on Feishu through one failing call, but for the losses below (`ShownComplete`) |

`spoiled` names the streams that met one of the known losses, which `ShownComplete` sets aside:

- the text that coalescing has merged into a stream's end is not read by Telegram, Discord, Matrix
  and Feishu, nor shown by the WebSocket channel when its chunk size is 0, and the reply itself is not sent because it was streamed.
  `OutboundDispatch_merged.cfg` (`StreamedRepliesDelivered`) shows it, against the comment "Main reply
  was already delivered via send_delta";
- a first bubble over the limit is refused by Telegram and Discord at every attempt, and with it the
  streamed answer;
- `base.py:121-122` asks adapters to key their buffers by `_stream_id`; Telegram, Discord and Matrix
  key them by chat, so a stream that interrupts another takes over its buffer;
- Telegram refuses a last edit that changes nothing as "not modified", upon which the handler drops the
  buffer without sending the chunks that follow (`telegram.py:695-702`). No call need have failed: the last
  preview can have been the first chunk, later ones throttled (`:769`). `TelegramEnd` takes this path
  whenever the bubble shows that chunk with its markup, and may take it when a preview shows it, as the text may have no markup;
- Discord looks a channel up before it sends, and one that is not found is logged and not raised
  (`discord.py:180-186`, `:411-414`, `:504-508`, `:523-527`), so the manager does not retry
  (`Unresolved`), against `base.py:106-107`, which asks adapters to raise. `Unsent` counts it where text can go missing: a plain message, a delta whose stream has
  no bubble yet, an end with chunks behind the first. A later delta of the stream may still show the text.

`None` in `spoiled` stands for the plain messages, which have no stream.

The conditions on `faults` set aside three more, which need a failing call: Telegram and Discord append
a delta's text before the call, so a retry appends it twice; Matrix and the WebSocket channel drop their
buffer before they send the end, so a retry has nothing to send; on Telegram a retried end loses the
extra chunks. And Feishu logs the failures of its calls (`_send_message_sync`, `_stream_update_text_sync`)
without raising, against `base.py:106-107` ("Implementations should raise on delivery failure so the
channel manager can apply any retry policy in one place"): the manager does not retry, and one failing
call loses a message that is not streamed.

## 9. ProviderFailover

One request of one agent, from `chat_with_retry` down to the calls of the instances: `attempt`,
`lastError`, `same`, `plain` and `images` are locals of `_run_with_retry`, `chain` and `pos` of
`_dispatch`, `rotation` the index of the key rotation. A call ends with an answer, one of four kinds of
errors the triggers tell apart, an error that is no trigger, or an exception. Delays have no length.
The configuration is fixed.

| Run | Instance | Shows |
|---|---|---|
| `provider_requests` | a chain of three with an instance that cannot serve in the middle, and two instances that fail over to each other; both retry modes; all outcomes with two texts | calls are bounded (`CallsBounded`); an error that should fail over is returned only when all usable instances of the chain were asked (`WholeChainAsked`); a request ends unless its errors change for ever (`EndsUnlessErrorsChange`) |

*Bounds.* `Retries`, `MaxHops` are the code's; `SameLimit` is 4 (10 in the code), above `Retries` as there.
*Fairness*: calls return, delays end.

*Disagreements found.* `ProviderFailover_keys.cfg`, `KeyRotates`: the rotation assigns
`inner.api_key`, which the OpenAI-compatible, Anthropic and Azure clients read at construction only, so the key
that failed is used again, against `failover.py:5-7`. `AlternativesTried` (with `Setups <- MCListSetups`
in that configuration): only the first of `failover_instance_ids` is followed, which
`instances.py:179-180` calls an "ordered chain of *other* instance ids to try". Also, without a
configuration: the comments at `failover.py:9-11` and `:70-72` say
that an instance has been retried before the switch, but `_dispatch` calls it once; and a retry or a
switch after streamed deltas streams the answer again behind the partial one.

## 10. RuntimeLifecycle

`room`, `enabled`, `version` with their two signatures are the files; `teamTask`, `soloTask`,
`soloLoop`, `soloFp` and `teamLoops` the tables of the runtime, `dying` the cancelled tasks that have
not ended; `pass` is a reconcile pass with what it has read so far, `stop` where `stop()` is, `main`,
`running` and `waiting` the tasks of the main agent and a `stop_main()` that waits. A pass cancels the
tasks of agents that left, awaits them one by one (`VictimStopped`), then starts the missing ones; in
between the files change and `stop()` may begin.

| Run | Instance | Shows |
|---|---|---|
| `runtime_agents` | two agents, one team, two edits, two calls of start_main or stop_main, passes over the team that fail | between passes no agent has two loops (`OneLoopAtRest`); nothing outlives `stop()` (`NothingRunsAfterStop`); when the files rest the runtime is as they say (`CatchesUp`) |

*Bounds.* Two edits are one that a pass reads and one in the middle of it; two agents let one leave while
the other is being stopped. *Assumptions*: a profile does not get back an older content, each edit gives
its file a new modification time, closing an MCP connection does not fail, and no loop ends by itself.
*Fairness*: the reconciler comes every two seconds, a cancelled task ends.

*Disagreements found.* `RuntimeLifecycle_build.cfg`, `CatchesUp`: a standalone loop that cannot be built is
logged and the signature recorded, so it is not tried again, against "so a transient failure does not
freeze us in stale state". The same property with `Reverts = TRUE`, two
edits and `BuildFails = {}` there: fingerprints are read before the awaits of the pass and loops built
from the profiles after them; a profile that changes in between and changes back keeps the loop of the
middle. `RuntimeLifecycle_rooms.cfg`, `ServesItsRoom`: a member bound
to another room keeps its old session. `RuntimeLifecycle_main.cfg`, `OneMainLoop`: start and stop look at
the main agent's first task only; stop, start, stop, start leaves two `run()` loops.

## 11. What is proved

Every theorem holds for all values of the constants under the module's `ConstantsAssumption`
(`ProviderAssumption` in ProviderFailover; OutboundDispatch has `PlansAssumption` besides), which
TLC evaluates in every run and which gives the constants their types and no more: limits are numbers,
at least 1 where the code uses them as capacities; agents and instances are finite sets; the names of
the gateway's two ways of listening are not members; a provider may answer; HISTORY.md holds no more
entries than the model writes; `None` and `Empty` are no message, instance or number. Hypotheses
beyond that are those of the theorem, named below with their reason. Each inductive invariant was
checked by TLC on the run of its module before it was proved.

`Subagents_proofs`, which begins with the dispatcher by itself:

- `TypeCorrect`: `TypeOK` is inductive by itself; the lemmas give the types of the queue helpers.
- `OneTurn`: `OneTurnPerSession`, for any number of sessions, tasks, cancellations and either
  behaviour of `wait_for`. The property alone is not inductive (`LockAcquire` might let a second
  task in), so the invariant `LockInv` adds that a task past the lock, at the gate or in its turn,
  is the owner of its session's lock. `ReleaseLock` releases for the owner only, which is what the
  cancellation of a waiter needs.
- `MessagesHeldOnce`: `HeldOnce`, also when queues overflow. `HeldInv` says it without counting:
  queues are free of repetitions and disjoint, and who is queued is neither a live task nor the
  command in hand.
- `StopCompletes`: `StopIsComplete` for sessions that are not unified (the disagreement (2) of
  section 2 is the other case). `ActiveInv`: a live task is in `_active_tasks` of its session,
  unless a /new or the command in hand has taken it out to wait for it.
- `TurnsOwnTheirQueues` and `NothingIsLost`: `TurnOwnsPendingQueue` and `NoMessageLost`, on Python
  3.11 (`~EagerConsume`) and as long as no pending queue overflows (`[][NoOverflow]_vars`): beyond
  these the disagreement (1) of section 2 refutes them. `SingleInv`: a session has one live task, which
  is the owner of the registered queue. `FewMessagesKept` gives the two without the condition on
  behaviours when there are no more messages than a queue holds, as in the run: a queue holds
  different messages (`HeldInv`), none of which is the one being consumed, so it is not full.

Then the dispatcher with subagents: `SubagentsImplementDispatch` shows that the loop with subagents implements the one
without, for each step on subagents alone is a stutter and each action taken over does what it did; so
every safety property carries over, `OneTurnWithSubagents` among them. Two properties are about the
subagents themselves:

- `WaitsAreUseful`: `WaitIsUseful`, for all constants. `WaitInv`: for a waiting turn that is not
  cancelled a subagent of its session runs or something for the session is on the bus, or one of the
  two exceptions explains the wait. It rests on
  `ResultInv` (a result is sent by its own subagent, once, under the key its parent gave it).
- `StopReachesSubagents`: `StopLeavesNoSubagent`, for sessions that are not unified and messages whose
  key is that of their chat (no threads: section 2 shows that it fails with them). `StopReapInv`:
  while /stop is being answered, it has claimed every running subagent that a turn of the session
  spawned; the turns that might spawn another have ended by then (`ReapInv`).

`TurnPersistence_proofs`:

- `TypeCorrect` and `PromptsStaySaved`: what began a turn is never lost once the session has taken
  it in, with any number of messages, iterations and injections, for every set of `Ops`, with or
  without a pending queue; findings B, C and G do not touch it. The invariant `TurnInv` adds what
  `SaveTurn` relies on: while a turn runs, its message is saved already, or it is in the first row
  behind `skip`. That row survives because every helper of the runner only adds (`Grown`: the rows
  of before stay at their places with their texts or more), which has one lemma per helper;
  `RestoredGrown` says the same of the repair, for which `MaxExists` (a non-empty set of numbers up
  to n has a greatest element, from the well-foundedness of strict inclusion on finite sets) gives
  the `CHOOSE` in `Overlap` and `LastAsked` their values.
- `MessagesStaySaved` (`HeldMessagesSaved`), `ResultsHaveCalls` (`NoOrphanResult`), `StepsSavedOnce`
  (`StepsOnce`) and `PromptsStayApart` (`PromptsAlternate`), under `EveryPromptAnswered`: without a
  pending queue for every set of `Ops`, with one for all but `"noAnswer"` and `"maxIterations"`, which
  findings B and C need. Questions, /stop, crashes, /new during a turn, retries and fatal
  tools are covered. `Sound` says of a sequence of rows what the four properties say, and that it has
  nothing of the messages no turn has taken (`Outside`), which is why a new text or step is new there.
  `HeldInv` says it of the session and of the runner's messages, and that the session's rows are the first
  `skip` of these (`Extends`), so that `SaveTurn` leaves exactly what the runner held. A checkpoint is
  `Restorable`: one step, with results for some of its calls, of which the session has no row; so its
  overlap with the session is empty (`NoOverlap`) and the repair appends all of it. `SoundAppend` says
  when a row may follow; `Open`, that only results have followed the step whose tools run.

`CronService_proofs`: any set of jobs, schedules and timer tasks, and any sets `Ops` of operations that the
hypotheses of a theorem allow. All of them allow additions, removals, changes, polls, registrations, starts, crashes and
one inside the merge, so they cover the run. `MergedIs` says what the log leaves of the store (by an
induction over its lines, `ReplayIs`): the jobs whose last line is a "put", and those of the file that no line names.

- `EditsKeptServing` and `EditsNotLost`: `EditsKept`. `EditsInv` relates the sets of jobs in memory, in the file and in the
  log (`Kept`): what was removed is not in the file unless a line deletes it, what was added is in the file or put by a line,
  and while a tick pins the store no line puts a job that is in memory. Updates of other instances are excluded (they
  read, and append later: a job removed in between comes back). A service that was stopped in the middle of a job
  is the second exclusion: `EditsKeptServing` does without `stop`, `EditsNotLost` asks that such a service puts no job
  that is in its memory until the job has ended (`EditAtRest`). Otherwise: stop while a job runs, enable a job
  (a line of the log), start before the tick has ended (the pinned store is saved, the log not consumed), remove the
  job: the line that is left brings it back.
- `TimerCoversServing` and `TimerCovers`: `TimerCoversNextJob`. `TickInv`: a running service has a timer, which no one
  has cancelled, and no other task sleeps. `CoverInv`: it wakes in time for the jobs in memory and in the file, and the log
  has nothing to put while the service runs. A poll that merges what another instance added does not arm the timer, so that job waits
  for `max_sleep_ms` at worst: these additions are excluded here, and in no other theorem. `QuietAtRest` is
  the counterpart of `EditAtRest`.
- `OneShotsOnce`: `OneShotOnce`, when a cancelled job ends before anything else runs (`~SlowCancel`), without run_job
  and without updates by other instances; stop is allowed. `OneTickInv`: one task executes, it pins the store, and it
  holds the object of every job it has still to run, so that what it records is not lost. `ShotInv`: a one-shot that was run
  is disabled or has no time left wherever it may be loaded from, and its time is past, so that enabling it computes none.
- `EveryRunRecorded`: `RunsRecorded`, with the hypotheses of the last and without stop (section 4 names the ways the code loses
  a record, stop among them), for system jobs that do not delete themselves (the one that is registered, Dream, repeats: `embedded.py`).
  `RunsInv`: the pinned memory, the lines of the log and, unless an execution has still to be saved, the file count
  every run that ended. A job without a record has not run or is gone for good, for an id is not used again and a
  registered job is never removed.

`EventBus_proofs`: any number of members, requests, retries and direct messages.

- `NothingHandledTwice` and `NoMailWhileListening`: `DeliveryInv` follows an event to a member through
  the places where it can be (`At`): it is in the mailbox or the queue only if it was published
  (`PublishedInv`), in at most one of the three places but for the copy that the replay knows of
  (`PlaceInv`, `ReplayInv`), and in none once it was handled (`HandledInv`).
- `ImplementsRequestReplySafety`: every step is a step of RequestReply or a stutter under the mapping
  of the run, by `CallInv`: the attempts of a call are counted, and one that is answered has an answer
  to itself. Its liveness part stays with TLC.

`MemoryHistory_proofs`: `EveryEntryWaits` is `NothingPassedOver` for any number of overlapping runs,
sizes and crashes, none of them between an entry and its number (`"append" \notin Faults`; the crash
there is the disagreement of section 7). `HistoryInv`: numbers count the entries, so the file is the end
of all that was written and `.cursor` is right or lost. `ReadInv`: what was dreamt is a prefix, each
run's batch starts within or right behind it, neither `.dream_cursor` nor compaction is past it. That the
unprocessed entries are the end of the file (`UnprocessedIs`) is an induction over the file.

`SessionStore_proofs`: all safety properties of section 6, for the behaviours whose plan is `Steady`: /new,
compactions and the console act at rest (`quiet`), a trim has one lane to itself, and the process does not crash
while a task of /new has rows. The disagreements of section 6 refute the properties for most of what that
excludes. Lanes run side by side, any number of rows, budgets, rounds and tasks. `StoreInv`:

- `Good` says in one predicate what the file, the archive and the cursor have to do with each other: rows are numbered
  upwards, exactly those before the cursor are in the archive, the first behind it begins a turn. One lemma says
  for each way to change the rows that it stays so (`GoodAppend`, `GoodArchive`, `GoodTrim`, `GoodCompact`, ...).
- `StoreOK`: the cached object has the rows of the file. So an activity that kept its object over an await may
  save it, as long as it is the cached one: `TurnInv` and `TaskInv` say that it is.
- `ChunkInv`: the chunk that awaits its summary begins at the cursor. It is the lock that keeps it so (`LockInv`:
  one consolidation at a time is past it, the head of the queue), and that a trim finds no such chunk (`TrimInv`).
- `TaskInv`: a task of /new or a compaction is alone, and what it is to write fits what the file holds.

`DeletedRowsStayDeleted` is proved for the plans `OneTurn` too, where the deletion comes while a turn holds the session's
object, at any of its awaits, and /new, trims, cancellations, shutdowns and crashes come when they like.
`OneInv`: the turn's object is the cached one, or it was on disk and its file is gone (`Held`), so that the
save of the turn is dropped (`manager.py:433`); and rows are numbered upwards, so the rows of the turns after it are
none of the deleted ones (`Undeleted`). The plan has one lane, does not let the console create the session, and
its budget is over the number of rows. Each is needed: a second lane or the console writes the file anew,
and the first turn's save then passes `manager.py:433`; a consolidation writes the file back
(`SessionStore_delete.cfg`). The other properties of such plans stay with TLC.

The theorems are `RowsStayKept` (`RowsKept`), `CursorFollowsArchive` (`HiddenRowsAreArchived`), `RowsArchivedOnce`
(`ArchivedOnce`), `DeletedRowsStayDeleted` (`DeletedStaysDeleted`), `PromptsBeginWithTurns` (`CutsBetweenTurns`) and
`TypeCorrect`.

`OutboundDispatch_proofs`: `TypeCorrect` and `ShownOnceHolds` (`ShownOnce`), for every plan of messages whose parts
are published once and in order (`PlansAssumption`: a part is the name of a place in what the agents write, and
they publish no empty delta), every size of bubbles and chunks, and every interleaving of streams. The property
speaks of what is shown only; its invariant `Inv` relates it to what is on the way:

- `QueuesInv` and `CurrentInv`: the message put back, the queue and what is still to be published are in order,
  and the message being sent, merged or not, comes before them. `CoalescedIs` shows that merging keeps it so:
  the merged text rises, and nothing is dropped behind the message that is put back.
- `ShownInv`, while no call has failed or for Matrix: `Settled`. The bubbles are apart and rising; each buffer
  has parts of its own, shown in the bubble it edits or nowhere; two buffers share neither text nor bubble;
  frames of a WebSocket stream come before the text that waits; and all of it lies below what is on the way.
  The text of a first bubble that Telegram or Discord refuses is set aside (`Stuck`), since later messages of
  its chat may take it over.

`SendOnceHandles` says what an attempt of each adapter leaves, one lemma per handler. They rest on lemmas about the
operators: `ChunksAre` (the chunks of a text are its pieces, in order and none empty, by properties of integer
division), `CallsRedraw` (what an edit and the messages after it show) and `FramesFollow` (an induction over the frames).

`ShownCompleteHolds` (`ShownComplete`) assumes `ClosedPlans`: every delta of a plan is followed by the end of its
stream. The runner calls `on_stream_end` after each answer of the model (`runner.py:319`, and `loop.py:1168` for the
text the loop adds); only a turn that is cancelled midway ends none, and its text may rightly stay in a buffer. TLC
evaluates the hypothesis on the plans of the run (`ClosedPlansAssumption`). The invariant `DueInv` adds to `Inv`:

- `AliveInv`, as long as no more calls failed than the property allows (`Alive`): each buffer holds what its bubble
  shows, and two buffers share no bubble (`Followed`); why a buffer has no bubble (`BubbledInv`), why a message is
  tried again (`AttemptsInv`), and that what is in a buffer waits for the end of its stream (`EndsInv`).
- `ClosedInv`: a delta that waits or is being sent is followed by its end, merged or not.
- `OwedInv`: a published text whose stream is not spoiled is in the bubbles, in its buffer, in the messages that wait or
  in the one being sent (`Due`). When all is handled only the bubbles are left.

`SendOnceCompletes` says of each adapter what an attempt leaves out, again one lemma per handler: a refused first
bubble and what it takes along, the chunks behind Telegram's unchanged last edit, the channel Discord does not
find, the lost edits of a stream on Feishu, the frames of a WebSocket stream.

`Runtime_proofs` holds the proofs of RuntimeLifecycle and, after them, of ProviderFailover, which shares no state
with it. RuntimeLifecycle: any number of agents, rooms, edits and console calls.

- `OneLoopPerAgent`: `OneLoopAtRest` alone says nothing during a pass. `SoloInv`: in the standalone part
  of one, whatever a member of a team still has of a standalone loop is on the list of victims.
- `StopIsFinal`: `NothingRunsAfterStop`. `StopInv` says at each stage of `stop()` what has ended for good
  by then: the reconciler, the team's tasks, the standalone ones, the main agent's.

ProviderFailover (whose specification is `RequestSpec`, as both are in scope there): `FailoverChainProperties` (the chain starts with the primary instance,
repeats none and is bounded, for every workspace, circles included) is an induction over the length
of the chain. `NoneLeftOut` (`WholeChainAsked`) rests on `AskedInv`: what was asked are exactly the
usable instances up to the current one. `BoundedCalls` (`CallsBounded`) rests on `CallsInv`: the calls so
far are those of the rounds before, one per usable instance, and one for each instance asked in this one.

*Induction.* The library's induction theorems are out of the provers' reach, but well-foundedness is
not: `SetInduction` (in four modules) derives induction for a set from the order of the natural numbers,
and recursive functions (`ChainOf`, `UnprocessedOf`, `Replay`) are unfolded after showing that their equations
have a solution.

*Only model-checked*: all liveness properties (the prover has no rules for fairness here);
SessionStore's plans that are not steady (but for `DeletedStaysDeleted` beside one turn); and `DueJobRuns`' instance with slow cancellation and run_job.

Each property of a passing run has a mutant: a fault in one definition, written beside it ("Fault:
..."), under which the run must fail. They are plausible slips: a lock released by a cancelled
waiter, leftovers not re-published, a prompt saved late, a checkpoint not cleared, a save forgotten
in an API call.

*Proofs to come*: the other properties of SessionStore's roomy plans.
*Models to come*: SessionDispatch composed
with SessionStore through `is_session_busy`; the swap of a runtime in `console/server/lifespan.py`, over
CronService.

## 12. What is not modelled

- In the modelled parts: the text of messages, prompts and results; token budgets and the trimming of
  rows; transcripts; hooks and tracing. In TurnPersistence the wait of a drain for a running subagent (at
  most 300 s) is a drain that happens later. Two `process_direct` turns of one session at the same time, which the code
  does not exclude, are not in TurnPersistence. SessionStore leaves out the answers to questions, tool
  rows, the "(nothing)" summaries, the legacy path and the repair of corrupt files; EventBus topic
  targets and agents that are not members; OutboundDispatch media, and the adapters of Slack,
  WeChat and the rest; RuntimeLifecycle the construction of the services and the primary agent's
  task in a team.
- Inputs the models leave out: a message with a `session_key_override` in a unified session, which keeps its own key
  (`loop.py:1009`; `EffectiveKey` gives every message the unified one); an error without a text, whose count of identical
  errors stays 0 so that a persistent request has no limit (`base.py:778-783`; ProviderFailover's errors have texts);
  `_channel_delivery` rows (SessionStore, TurnPersistence); in SessionStore, a session that is created again while
  a turn holds the object of the deleted one (`manager.py:433`); in OutboundDispatch, Discord and Telegram before they are
  connected, when they log the message and return, and text whose markup the service refuses.
- Subagents: what one does, its profile, transcript and status rows, and those the agent manager starts
  without a session.
- Provider adapters, tools, the bridge, and the inbound side of the channels: protocol clients and
  I/O, whose counterparts are specified elsewhere.
- Console server: its handlers act on the objects above, and where they do (sessions, cron, the main
  agent) the modules have their calls; the rest is CRUD on configuration files. The console's web
  client, the CLI, configuration, logging and utilities are sequential or pure I/O.
- Heartbeat: one loop that awaits its own tick; its turn is a `process_direct` turn.

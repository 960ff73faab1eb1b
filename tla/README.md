# A verification project for nuro

nuro is an agent orchestrator: a daemon (`neuromancerd`) in which a root agent,
System0, answers the user's turns and delegates tasks to sub-agents, a terminal
client, and libraries for agents, skills, secrets, memory, triggers, MCP and A2a.
This directory holds TLA+ modules of the daemon's core and of the parts around it, the
TLC configurations that check them, and theorems that TLAPS checks.

    tlc -workers 2 -config TaskManagerQueue.cfg MCTaskManager    one run
    tlapm TaskManagerProofs.tla                                 one module's proofs

`PROJECT.json` lists the runs, the source lines behind every definition, a mutant for
every property, the hazards and the theorems.

## 1. Inventory

Paths are under `src/`; `D/` stands for `neuromancerd/src/orchestrator/`.

### The daemon's core

| component | state | operations | who else touches it |
|---|---|---|---|
| task manager `D/state/task_manager.rs` | one async mutex: tasks, heap and `queued_ids`, waiters, last heartbeats, circuit breakers, `accepting_new_tasks` | `enqueue_direct`, `await_task_result`, `transition`, `cancel`, `wait_for_next_task`, `mark_heartbeat`, `suspend_non_terminal_for_shutdown`, `bootstrap_from_store` | called by the three loops below, by delegation and by agent assistance |
| task store `D/state/task_store.rs` | SQLite tables of tasks, transitions, checkpoints | one statement per call | only the task manager; every call is an await outside the manager's mutex |
| task worker, watchdog, graceful shutdown `D/runtime/builder.rs`, `D/runtime/mod.rs` | the worker's clone of a task; `stale_since`; the list to suspend | one tokio task each | the only callers of most transitions |
| System0 turns and delegation `D/actions/runtime_actions.rs`, `D/runtime/turn_worker.rs`, `D/state/mod.rs`, `D/state/run_tracker.rs` | the broker's mutex: runs, active runs, threads, delegations by turn, output queue | `turn`, `process_turn`, `delegate_to_agent`, `run_delegated_task`, `ingest_subagent_report`, `pull_outputs` | turn channel, report channel, task queue |
| proposals and self-improvement `D/actions/*adaptive*`, `D/proposals/`, `D/security/`, `D/adaptation/canary.rs` | under the same broker mutex: proposals, `SelfImprovementState`, audit log, trigger of the current turn | `propose_*`, `authorize_proposal`, `apply_authorized_proposal`, `modify_skill` | the turn worker sets the trigger |
| agent turn loop and sessions `neuromancer-agent/` | iteration count, recovery counters, the session's messages | `execute_turn`, reports | report channel; shares an Arc of the session store |
| agent assistance `D/skills/broker.rs` | none of its own | `request_agent_assistance`: enqueue a child, await it | runs inside an agent's turn, in the task worker |
| thread journal `D/tracing/` | JSONL files, a sequence cache, two index files | append, snapshot, read, resurrect | System0's turns, sub-agent turns, reports |
| daemon lifecycle `neuromancerd/src/main.rs`, `config.rs`, `shutdown.rs` | configuration behind an RwLock, two watch channels | start, reload, stop | calls `graceful_shutdown` under a timeout of its own; the commands of `neuroctl` signal it |
| remediation, analytics, tool dispatch, RPC | none, or counters | pure decisions, tables, translation | the report worker, System0 |

### Beside the core

| component | state | what is hard |
|---|---|---|
| MCP pool `neuromancer-mcp/` | an RwLock around the entries; a child process per server, its pipes under two mutexes | requests share a pipe; late answers; a server that dies or restarts |
| A2A `neuromancer-a2a/` | tasks and subscribers behind RwLocks | a report racing with a cancellation; events told after the lock |
| secrets `neuromancer-secrets/` | SQLite rows, an Aho-Corasick scanner behind an RwLock | the scanner's rebuild from a stale list |
| skills `neuromancer-skills/` | registry, child processes | a script's pipes after its timeout |
| triggers `neuromancer-triggers/` | rate limiter, cron jobs | windows at their boundary; not wired into the daemon yet |
| memory `neuromancer-memory-simple/` | SQLite rows | pages and deletions of two statements each; tags filtered after the page; not wired into the daemon yet |
| daemon control `neuromancer-cli/src/daemon.rs` | the pid file, the processes | slow boots, zombies, forced stops, restarts |
| chat `neuromancer-cli/src/chat/` | threads, timelines, the request in flight | keys pressed while a request is in flight; threads that come and go |
| core types `neuromancer-core/` | data | none |

### How the core interacts

A turn comes in by RPC, waits in the turn channel, and is run by the turn worker, which
calls System0's model. A `delegate_to_agent` call enqueues a task (row, then heap) and
records a run. The task worker, **the only one**, pops the task, moves it through
queued, dispatched and running by `transition`, runs the agent's turn, records the run,
ends the task and publishes an output. Meanwhile the agent sends reports into a bounded
channel that another loop ingests into the same tables; the watchdog cancels tasks
without heartbeat; the shutdown suspends what is unfinished. `transition` changes the
map under the lock, and the row, the event, the checkpoint, the breaker and the waiters
each after a further await, with an early return on every error. After a crash only
SQLite is left, and `bootstrap_from_store` rebuilds the map and the heap.

### What makes each part correct

- Task manager: nothing accepted is lost in a crash; every waiter is answered; an end is
  final; rows and map agree; no unfinished task is forgotten by the queue, the worker or
  recovery; one task per idempotency key.
- Delegation: a run that is over stays over although reports come late; an output says
  how its task ended, is there once, and is always published; the client is told its own
  turn's delegations; queue status and task agree.
- Proposals: what is in force was authorized as the settings demand and is in the audit
  log, whatever was re-authorized, re-applied or rolled back since; no proposal that was
  rolled back is in force; agents name known skills though they were verified some calls ago.
- Agent turn: what the model is sent is well formed; the budget is exact; every end is told
  once, last, and after the session is saved.
- Threads: sequence numbers grow over torn lines and restarts; no message is journalled
  twice or skipped; the journal's reports and remediations agree with what memory says.
- Assistance: a task shows that it waits only while it does; every request ends, and every
  child that was queued runs.
- Daemons: one at a time, the one the pid file names, unless the file failed; work that is open is run by whichever
  daemon serves, however the last one ended.
- Chat: the user is shown as waiting in the thread of the request in flight and nowhere else.
- MCP: an answer goes to the request it is for; every operation returns, unless the server
  stops reading.
- A2A: a stream misses nothing, and agrees with the record.
- Secrets: between calls the scanner looks for exactly what the table holds.
- Triggers: the limits are neither exceeded nor applied too early.
- Scripts: a call returns whatever its script does, where the code can see to it.
- Memory: a reader that follows the pages is given all there was.

## 2. Modules

| module | models | proofs |
|---|---|---|
| `CircuitBreaker` | `CircuitBreakerState`: failures in the window, open or not | used by both |
| `TaskContract` | abstract: what the task manager promises to callers | |
| `TaskManager` | task manager, store, worker, watchdog, shutdown, crash, recovery | `TaskManagerProofs` |
| `Delegation` | a turn, its delegations, runs, reports, outputs | `DelegationProofs` |
| `Proposals` | proposals and self-improvement | `ProposalsProofs` |
| `AgentTurn` | the loop of an agent: budget, recovery, truncation, session, reports | `AgentProofs` |
| `Positions` | a part of a sequence, by its positions; used by `AgentTurn` and `Threads` | |
| `Threads` | one thread: journal file, sequence cache, session, broker's entry, reports | `ThreadsProofs` |
| `Assistance` | `request_agent_assistance` on the one worker | `ServicesProofs` |
| `DaemonControl` | `neuroctl daemon`, the pid file, the life of the daemons, one task's row | `EntryProofs` |
| `Chat` | the chat's panes, timelines and the request in flight | `EntryProofs` |
| `Mcp` | the pool's lock and one child-process server over its pipes | `ServicesProofs` |
| `A2a` | task records, handlers, subscribers, reports | `EntryProofs` |
| `Secrets` | the broker's calls, the rows, the scanner's rebuild | `PartsProofs` |
| `Triggers` | rate limiter, message filters, cron jobs, the channel | `EntryProofs` |
| `Scripts` | the call of a skill and its script's pipes | `ServicesProofs` |
| `Memory` | the store's statements and a reader of pages | `PartsProofs` |
| `Parts` | `AgentTurn`, `Threads`, `Chat`, `DaemonControl`, `A2a`, `Secrets`, `Triggers`, `Memory` side by side | `PartsProofs` |
| `Waits` | `Assistance`, `Mcp`, `Scripts` side by side, with fairness | `ServicesProofs` |
| `MCTaskManager`, `MCDelegation`, `MCProposals`, `MCParts`, `MCWaits` | the constants for TLC | |

### TaskManager

`mem`, `queue`, `accepting`, `waiters`, `beat` and `breaker` are the fields of
`TaskManagerState`; `store` and `checkpoints` are the rows; `enq`, `pc`, `call` and `apc`
say where a call or a loop stands between two awaits. One critical section, or one store
call, is one action:

- `enqueue_direct` is `EnqueueCheck`, `EnqueueLookup`, `EnqueuePersist`, `EnqueueInsert`:
  the lock is not held between them, and any store call may fail (`EnqueueStoreError`).
- `transition` is the operator `Transition` (the critical section, used by all loops)
  followed by `WriteRow`, `WriteLog` and `Settle`, or `TransitionStoreError` at one of the
  first two. `expected_from` is compared with a label, so *suspended*, which is
  `Running{..}` in the code, counts as running.
- `await_task_result` is `Await` (register), `AwaitResolves` (map, then row),
  `AwaitReceives`, `AwaitTimesOut`. A sender whose receiver is gone stays registered.
- The worker's steps are `WorkerPop`, `WorkerChecksBreaker`, `WorkerDispatches`,
  `WorkerStarts`, `WorkerExecutes`, `WorkerEndsTurn`, and `WorkerHasNoRuntime`; it acts on
  the clone it popped (`job`), and where it enters that sequence depends on the clone.
- `WatchdogHandles` has the first strike (cancel, whatever the state) and the later one.
  The later one never finds a task to fail: the first has ended it (`StrikesAreEnds`). It is
  in the model because it is in the code.
- `Crash` clears everything but the rows. `Recover` takes one task of the list
  `bootstrap_from_store` makes, in any order, and a crash may come between two of them.

Abstracted: a task's text and result, the clock (any running task with a heartbeat may be
silent for long enough; any number of failures may have left the breaker's window), the
row and its event as one transaction each, and execution contexts, which `Delegation` has.
A store call that fails is one that changed nothing. `record_transition` and
`save_checkpoint` are one step: the event row has no reader.

### TaskContract

Rows go from unfinished to ended and never back; a waiter is sent an end only when that
end is in the row, or is told that nobody knows. `TaskManager!Contract` instantiates it
with `row <- store` and `sent <- inbox`. The refinement is checked and proved for the worker alone.
With the other loops it does not hold, for two reasons. Rows may be written in the wrong
order (`TaskManagerRows`), which takes an end back. And the watchdog may cancel a task
that has completed meanwhile (`cancel` expects no state), which puts one end in the place of
another. `LooseSpec` allows the second and not the first: a row goes from unfinished to
ended and never back, but its end may be replaced (`Amend`), and a waiter may be told the one
that was replaced (`TellEnd`). That is what all three loops implement while no two of them
have a row of one task still to write (`WritesApart`), which is what the lock would give if
it were held until the row is written.

### Delegation

Composes the turn worker, `delegate_to_agent`, the task worker's run of the task, the
agent's reports and the report worker over the broker's tables. `enqueue_direct` and
`transition` appear by their effect on one task, since `TaskManager` has their
interleavings. The report channel and the output queue have their capacities as constants.
`late` is a history variable: the runs that `delegate_to_agent` wrote as queued when the
worker was already through with them, which the code does and the properties exclude by
name. `TurnFails` leaves `asked` as `process_turn` does. The agent's model and tools are
left out: a turn sends reports, and ends in one of the ways `execute_turn` can.

### Proposals

A tool call holds the broker's mutex from its gate to its result, so each call is one
action; what interleaves is the calls. A proposal is a record of what verification, audit
and guard said when it was made. `Verified`, `Risk` and `Created` are
`verify_proposal`, `audit_proposal` and `create_proposal`; a patch is abstracted to the
skills it names and four flaws that those functions tell apart. `improvement` says which
proposal set what is in force. The settings are chosen in `Init`: all eight are checked.
A rollback is one action that leaves `improvement` as it was: the mutation and the
assignment of the snapshot are in one critical section without an await, so that nobody sees
the state between them. What can go wrong is what the snapshot does not cover: it is
taken before *this* application, and nothing keeps a proposal that is in force from being
authorized and applied again (`RolledBackLeavesNothing`).

### AgentTurn

`mode` says which of `execute` (a task with its own conversation, truncated before each
request) and `execute_turn` (a session's) is running; `apc` where its loop is.
`OutOfBudget`, `Ask`, `ModelErrs`, `RetriesExhausted`, `Recover`, `ModelCallsTools`,
`RunTool`, `ToolsDone`, `ModelAnswers` and `SaveTurn` are the branches of the loop.
`send_report` waits for room in the channel: reports go to `outbox`, and no other step is
taken until `SendReport` has emptied it. A message is its kind, the calls it is about and an
estimate of its tokens; `Truncated` is `SlidingWindow`; what is left of the conversation is
given by its positions (`At`), in the order they had. Neither end of `execute` by a model
error sends a report or changes the state of its task; only tests and the public interface
use `execute`.

### Threads

One thread and everybody who writes it: the delegated run it is made for, admin turns
(`subagent_turn`), `thread_resurrect`, the report worker. `file` is the journal as its
readers see it, with its last line's end: a write that fails or a crash leaves a piece
(`Torn`) or a line without its newline, and the next line is glued to it. `CurrentSeq` is
the cache or the largest number that can be read.

`delegate_to_agent` is `CreateThread` and its `Appends`, `Enqueues` (or `IsRefused`), and
`InsertThread`, which writes the entry with a count of 0, the run and its context into the
broker's tables. The worker does not wait for that: `RunBegins` and everything after it may
come before `InsertThread`, and so may the reports. A run is then without context, so that
its reports reach no journal (`HasContext`); and a run that is over by then has its count
written over. An open breaker, or an end the task got meanwhile, is `RunIsDropped`.

A turn is `TurnReads`, `Talks`, `Saves`, `Collects`, one `Appends` for each line, `Records`;
nothing is locked across them. A turn reports progress and failed tools on the way
(`Asides`), then that it is stuck or has completed; an error, and being stuck, is reported
as failed after the save. What it reports before the save is sent in one step, as only the
order can be told. `RemedyLines` is `recommend()`: all reports but progress and completed
ask for a remediation, if the run has a context.

`disturbed` is a history variable: two turns overlapped, a write went wrong, or the worker
was through with the run when its thread was put in the table, since the session was built.
The code is known to journal twice or skip messages then (`persisted_message_count: 0`,
`D/actions/runtime_actions.rs:198`, is written over what the run counted, and the next turn
journals the whole session again), and `JournalMirrorsSession` is about the rest: failed
runs whose messages a later turn journals, an instruction that could not be written,
resurrections, and a thread put in the table in the middle of its run. `ReportsReachJournal`
has no such condition: it is about every order of the insertion, the turns and the reports.

Left out: the report worker's copy of each report in System0's thread, pieces of lines in
the index, failed writes of the lines that mark a change of state (`MarkAppended`). `Project`
and `WithoutMessages` filter by positions.

### Assistance

Callers are tasks, which occupy the worker (`busy`) while they wait, and admin turns, which
do not. `Ask` marks the task as waiting, `EnqueueChild` or `ChildRefused` is `enqueue_direct`,
`ChildAnswers` and `WaitElapses` are the two ends of `await_task_result`, `Resumes` puts the
state back. `TaskManager`'s table is reduced to a state for each task. A caller sends no
report while it waits, up to 300 s, and the watchdog cancels a silent task after two
heartbeat intervals of 30 s: `WatchdogCancels` may come anywhere.

### DaemonControl

An invocation of `neuroctl` goes through `cpc`; a daemon is *booting* (up to the end of
`System0Runtime::new`, which recovers the store), *ready* (before the bind), *serving*,
*draining* or *exited*. A command never waits for its child: a daemon that exits stays alive
to `kill -0` until the command ends (`IsAlive`). The health call goes to the address,
and any daemon there answers (`IsHealthy`). `Suspends` and `CutsShort` are the two
timeouts of the shutdown: that of `graceful_shutdown` (30 s, then the suspension) and that
of `main.rs` around it (30 s, begun earlier), so that either may win. Pids are not reused.
The reading, checking and removing of the pid file is one step, and no command is given
after two have overlapped: the properties speak of commands one after the other.

Every use of the file may fail. `remove_pid_file` ends the command (`Removes`); a file that
cannot be read is, to `start`, no file, and the daemon it names is lost sight of
(`ChecksPidFile`); and `write_pid_file(...)?` (`neuromancer-cli/src/daemon.rs:122`) ends
`start` after the spawn, with a daemon nobody names (`FailsToWrite`). `lost` is a history
variable of those daemons. The code does nothing about them: the next `start` boots a
second daemon, which takes the store's tasks, also those the first is running, before its
bind fails. The properties therefore set the lost ones apart, and say that the others are one.

### Chat

`Send`, `Open`, `SelectMain`, `SetFilter` and the others are keys; `Answered` is everything
`app.rs` does between the answer of the request in flight and the next key. The chat
puts the message and a placeholder in the timeline before it knows whether the request
can be sent; the loop refuses a second one, and the placeholder stays (`early`). `q` quits,
typing included, and is no step.

### Mcp

`holders` and `lockQueue` are tokio's fair RwLock, held for a whole operation; `writer` and
`reader` are the mutexes of the child's input and output. `send_request` is `Requests`,
`LocksStdin`, `WritesLine` (or `PipeBreaks`), `LocksStdout`, `ReadsLine` and `TimesOut`, whose
30 s are around the wait for the output's mutex and for the line, and not around the write;
`send_notification` is the first three. The server is external: it answers late, in any
order or never, asks with numbers of its own, stops reading (`ServerStalls`, for good), and
dies. Two calls read in turn and drop each other's lines, which loses an answer and never
swaps one. A write to a server that reads no more waits for ever, under the mutex and the
pool's lock: `OperationsReturn` leaves that out by name (`stalled`), and nothing else.

### A2a

A handler takes the locks one after the other (`AfterLookup` lists its steps). A report
sets the record whatever it says and tells the subscribers afterwards; a cancellation
looks, then sets, then tells. `reported` and `cancelled` are history variables. When the
other end of the task channel is dropped (`OrchestratorLeaves`) a submission fails, and the
handler answers with an error, its stream dropped and its task left as it was (`SubmitFails`).

### Secrets

A call writes its row and rebuilds the scanner: `ReadsRows`, the external command of the
entries in Proton Pass, `Swaps`. No lock spans these. `unsettled` is a history variable: the
last rebuild overlapped another call, or one failed since.

### Triggers, Scripts, Memory

`Triggers`: a stamp of the limiter is kept as its age in ticks, `Window` to a minute, and
its number among those of the tick, so that the deque of a user is a set of stamps; `passed`
is a history of what was let through, each with the numbers of its two stamps.
`allowed_users_only` rejects every direct message, as the code does. Nothing in the daemon
starts a `TriggerManager`; what takes events from the channel is external.

`Scripts`: resolving the name, the documents, the guard, then the process. The input is
written before the timeout begins and before anybody reads the output; after the exit the
readers are joined without a timeout. The script and its descendants are external and may
do anything. A call whose input cannot be written leaves the script running.

`Memory`: the table is the set of the stored ids with the `created_at` of each (`created`), by
which a query orders its rows: a page is the rows whose place among them is in the page.
`Counts` and `Fetches` are the two statements of `query`, `LooksToDelete` and `Deletes` those
of `delete`. Expired items are returned until `gc`. The reader is external.

### Composition

`Delegation` composes the turns, the worker and the reports; `Parts` and `Waits` put
modules side by side that share no state: a step of the whole is a step of one of them. For
TLC, each behaviour in `MCParts` and `MCWaits` is of one part (`part`) while the others stand
at their start, so that their states add up and do not multiply, and every property of one is
checked as it would be alone. That nothing is lost by it, as they share no
variable, is proved in two lemmas (`PartsArePlacedSideBySide`, `WaitsArePlacedSideBySide`).

## 3. Runs

`CHECK_DEADLOCK FALSE` is in every configuration because all these systems may rest: all
tasks handled and the daemon idle, the shutdown done, every turn answered, every proposal
made. No state constraint is used; every bound is a guard or the size of a set.

| run | instance | distinct states | what it shows |
|---|---|---|---|
| `TaskManagerQueue` | 2 tasks with one key and two priorities, worker, 1 waiter, 1 crash, 1 store error | 117 000 | types; what was accepted has a row; map and rows agree; recovery forgets no row; the contract is implemented |
| `TaskManagerLoops` | 1 task, worker, watchdog, shutdown, 1 waiter, 1 crash, 1 store error | 562 000 | waiters are served; no task is stranded; an end is final in the map, and undone in the table only by a row that is written late |
| `TaskManagerLive` | 2 tasks, worker, 1 waiter, 1 crash, fairness | 30 000 | every persisted task ends; every waiter is answered |
| `Delegation` | 2 turns, 2 delegations, output and report queues of 1, breaker that opens at 1, watchdog | 287 000 | runs, outputs and answers are consistent; every turn's output is published |
| `Proposals` | 2 proposals (symmetric), 3 skills, 2 agents, 17 changes, 8 settings | 183 000 | what is in force is approved, audited, uses known skills and was not rolled back |
| `TaskManagerKeys` | 2 tasks with one key | violation | see below |
| `TaskManagerRows` | 1 task, worker and watchdog | violation | see below |
| `TaskManagerWatchdog` | 1 task, worker and watchdog | violation | see below |
| `DelegationRuns` | 1 turn, 2 delegations, no watchdog | violation | see below |
| `Parts` | eight parts, see below | 1 101 000 | types; turns; journals; chat; daemons; A2A; secrets; triggers; memory |
| `Waits` | three parts under fairness, see below | 161 000 | types; every wait ends, and with its own answer |
| `AssistanceAnswer` | a task and an admin turn that ask, waits that never elapse | violation | see below |

Why the bounds are enough for what is asked. One store error and one crash in any place
reach every early return and every point of restart; a second task gives the pop an order
to get wrong and a key to share. One task suffices for the three loops because every
transition is about one task, and the loops share nothing else but the queue. Two turns and
two runs let a report, an output or an answer be given to the wrong one, and queues of one
place are full as soon as they are used. Two proposals suffice for one to be in force while
the other is re-authorized, re-applied or rolled back; the proofs cover any number.

The instances of `Parts` and `Waits`:

| part | instance | why it is enough |
|---|---|---|
| agent turn | 3 iterations, 1 retry, 1 call each, a window of 2 messages, a channel of 1, 2 executions | the budget is reached after retries; a truncated conversation has calls on both sides of the cut; a session outlives a failed turn |
| threads | 1 delegated run, 1 admin turn, 1 mishap (crash, failed write, or report before a turn's end), 1 resurrection; writes of all lines but marks may fail (`Fallible`); a mishap while at most one turn, report or unplaced thread is on the way (`BusyMishaps`, `OnTheWay`), a resurrection while none is (`BusyRevivals`), and turns that overlap as long as there was no mishap (`BusyTurns`) | one piece of a line anywhere in the file, before or after a restart; a session built from it; a report before and after the thread is placed; runs that overlap are disturbed in any case. A mark is torn as any line is |
| chat | System0 and one thread, one message | a message and the opening of a thread interleave; a thread comes and goes |
| daemons | 3 commands, 3 processes, 1 task, 1 daemon lost sight of (`MaxLost`) | start, restart and stop in any order with a daemon dead, slow, draining or lost |
| A2A | 1 task, 3 requests, a channel of 1, 2 reports | a stream, a cancellation and a report on each side of it; a submission on each side of the channel's end |
| secrets | 2 secrets, one of them in Proton Pass, 2 callers, 2 calls and the opening, 1 failed read | two rebuilds overlap; the next call repairs |
| triggers | 2 users, 2 routed channels, limits 2 and 1, a window of 2 ticks, a channel of 1 event | a limit of each kind is reached without the other; stamps on both sides of the window |
| memory | 3 items in 2 partitions, pages of 1 | an empty page in the middle; items put and deleted between pages |
| assistance | a task that asks, an admin turn that asks a peer that asks again; 1 refusal, 1 cancellation | callers on and off the worker, nested, with the child queued behind its caller |
| MCP | 2 clients, 3 operations, 1 request of the server | a late answer, a restart and another client's request in between; a write that stalls with the other client behind each of the locks |
| scripts | 2 skills and 3 names, pipes of 2, inputs up to 3, 2 calls | inputs that fit the pipe and that do not; a call after one that left its script |

Commands, requests and pids are numbered in the order they come, which loses nothing since
they are alike.

### Disagreements between documentation and code

Each is a run that must end in a violation. For the first four a theorem says that the cause
the run shows is the only one.

- `TaskManagerKeys`, `KeysAreUnique`: two concurrent enqueues with one idempotency key are
  both accepted: both look before either inserts. `KeysAreUniqueApart`: without that overlap,
  and without the race of the next item, keys are unique. That race matters because a row
  that is written late brings its task back after a crash, when another may have its key.
- `TaskManagerRows`, `RowsAgree`: rows are written after the lock is released, so the
  worker and the watchdog can leave the older state in the table. `RowsAgreeApart`: without
  two such writes of one task at once the property holds; and `EndIsFinal` says that an end
  is undone in the table in no other way.
- `TaskManagerWatchdog`, `NoTurnOfAnEndedTask`: the watchdog's cancellation does not reach
  the agent; the turn goes on and occupies the only worker. `TurnsAreOnlyCancelled`: a turn
  outlives its task in no other way.
- `DelegationRuns`, `RunEndsWithTask`: the worker fails a task whose breaker has opened
  and does not tell the run, which stays queued for ever. `RunsEndWhileClosed`: while no
  breaker is open every run ends with its task.
- `AssistanceAnswer`, `ResultIsInline`: a task that asks a peer keeps the only worker, for
  which the child waits. The run lets waits last for ever, to show that the cycle is of the
  design and not of a short timeout; with the timeout the caller is told of it
  (`RequestsEnd`) and the child runs afterwards, for nobody.

## 4. Fairness

tokio polls every spawned task and every future that is ready, so the loops and the rest
of a call that has begun are weakly fair: the three later steps of `enqueue_direct`, the
three of `transition`, `WorkerNext`, the watchdog's list, recovery, and a waiter's receipt.
`WF(WorkerNext)` includes `WorkerEndsTurn`, and `Delegation` has `WF(AgentReturns ...)`:
**an agent turn is assumed to return.** The code bounds its iterations; that each model
call and tool call returns is the assumption. Not fair: callers (they need not enqueue,
await, pull), timeouts (so `EveryWaiterIsAnswered` does not lean on them), the watchdog's
scan, crashes and errors. `TaskManagerLive` has no store errors: `NoTaskStranded` says what
one of them does, the worker drops the task until the next restart.

`AssistFairness`: the worker takes what is queued, a call that has begun goes on, a timeout
that may elapse does, and a turn that is working ends. `McpFairness`: each client's next
step and its timeout; nothing of the server, so that a write it does not read is no step
that is ready, and `OperationsReturn` has the condition `[]<>~stalled`. `ScriptsFairness`: the runner's steps, the
readers and the timeout; nothing of the script or its descendants, hence the condition
that no descendant holds the pipes and that the input fits. `MCWaits` conjoins the three:
a part that stands at its start has none of these steps enabled.

## 5. Proofs

Each theorem is of the module's own specification, without fairness, for every value of the
constants that the module's assumption admits: any tasks, callers, agents, messages and
capacities, and any bound on crashes, errors and calls. Most invariants checked by a run are
not inductive; the strengthening is named below, with the reason it is needed. Two things
shaped how modules are written: the provers cannot unfold a fold or `SelectSeq`, so that
lists which are filtered are filtered by positions (`Positions`), and tables whose order
matters only through a number are sets. Where a proof needs induction it argues from the
least counterexample (`LeastOf` in `ThreadsProofs`), as the induction theorems of the
library cannot be instantiated.

### TaskManagerProofs

Assuming `ConstantsAssumption` and `ThresholdAssumption`, for any set of loops:

- `TypeCorrect`: `Spec => []TypeOK`, which includes that a thread in a call, a waiter and a
  merged enqueue have the task they talk about.
- `Safe`: `Spec => [](TypeOK /\ IInv)` with `IInv == EnqueueInv /\ MergeInv /\ CallInv /\
  ListedUnfinished /\ WaiterInv`, and from it `AcceptedTasksAreDurable`, `WaitersAreServed`,
  `NoRowIsForgotten`.
- `TasksAreNotStranded`, with `HandInv`; `AnswersAreFinal`, with `SenderInv`.
- `EndsAreFinal`, with `EndFirst` for its second half.
- `RowsAgreeApart` and `LoopsImplementLooseContract`, with `ApartInv`, for behaviours in which
  `WritesApart` holds.
- `KeysAreUniqueApart`, with `KeyInv`, for behaviours in which `EnqueuesApart` holds as well.
- `StrikesAreEnds`, with `StrikeInv`, and on it `TurnsAreOnlyCancelled` and
  `TurnsEndFirstUnwatched`, with `TurnInv`.
- `RowsAgreeAlone` and `WorkerImplementsContract`, with `AloneInv`, under `WorkerAlone`;
  `AloneIsApart`: `WritesApart` holds of these.

Why `IInv` is needed: `AcceptedIsDurable` speaks of accepted tasks, and is inductive only
with what holds at each earlier place of the enqueue (`EnqueueInv`) and of the store the
merge looked at (`MergeInv`). `EveryWaiterIsServed` needs that an idle thread holds no
sender and that a transition moves a task that is in the map (`CallInv`), and that no waiter
survives a crash (`WaiterInv`). `EndIsFinal` needs that the shutdown's list was unfinished
(`ListedUnfinished`): its expected label is then no end. The argument has one lemma for all
loops: `TransitionMoves` says what any use of `Transition` does to the map, each loop's
lemma says that its steps are such moves or nothing (`LoopStep`), and `SafeLoop` shows once
that a `LoopStep` keeps `IInv`.

`HandInv` says where the worker's task is: in the state the worker expects at the place it
has reached (`Held`), or put to rest by another loop, and never at the same time in the
queue. That holds until a store call fails, which is where `NoTaskStranded` ends too: the
worker then drops the task. `SenderInv` says that a caller's sender is in the map or in one
call, never in both, and that nobody who has one was told anything.

What the rows promise is stated thrice, by what is assumed of the loops.

With nothing assumed: `EndIsFinal`. No loop takes a task out of an end in the map, and an end
leaves the table only by the row a loop had still to write, of a transition it made before the
task ended (`WrittenLate`). The invariant is `EndFirst`: a task whose row has an end has an end
in the map too, so that no transition that begins then moves it to anything unfinished.

With `WritesApart`, for any loops: `RowsAgree`, and the looser contract. It is a hypothesis
on behaviours, `Spec /\ []WritesApart => ...`, and says exactly what the race of
`TaskManagerRows` violates: the theorems show that this race is the *only* way to a stale row.
The hypothesis is not empty: TLC explores the three loops with `WritesApart'` conjoined to
`Next` and finds cancellations that overtake the worker, suspensions, crashes and errors
among them; it also finds the strict contract violated there, which is why the loose one is
stated. `ApartInv` says that a row is what the map says, or is still to be written by the one
call that will write just that (`Unwritten`), or a store call has failed.

With `WorkerAlone` (`Threads \subseteq {"worker"}`), a hypothesis of the theorems and not of
the module: the strict contract. `AloneInv` relates the row, the map and the place of the
worker between its three writes. With a second loop the conclusion is false: the worker and
the shutdown leave the older row as the worker and the watchdog do (a task suspended before
the worker pops it, whose suspension is written last).

`KeysAreUniqueApart` has two hypotheses, and TLC finds the property violated without either.
`KeyInv` speaks of the map and the table together (`Open`), as recovery makes one of the other:
of tasks with one key one is open, and none while another, past its look at the table, has its
row still to write. `NoTurnOfAnEndedTask` speaks of the turn only; `TurnInv` adds the places
from which the worker goes on to a turn without another look at the task, the call of
`transition` in which it does among them. That the shutdown and a second strike are harmless
there is the part `StrikeInv` and `HandInv` give.

Both refinements are proved step by step: each action of `TaskManager` is an action of
`TaskContract` or leaves rows and answers alone.

### ProposalsProofs

Assuming `ProposalsAssumption`, for any proposals, skills, agents and changes: `Invariance`
(`Spec => []IInv`) and from it `TypeCorrect`, `OnlyApprovedInForce`, `AllInForceAudited`,
`ManagedAgentsUseKnownSkills`, `RolledBackIsNotInForce`. `IInv` says that every kept proposal
is `Sound`: authorized only as the settings demand, and, if it passed verification, naming
skills that are *still* known. That is what a later application relies on, since it does not
verify again. It is inductive because known skills and agents only grow (a rollback restores
the snapshot of its own call). For the same reason (`StaysApplicable`) the change of a
proposal in force is `Applicable` still, so that applying it again promotes it again:
that is what `RolledBackLeavesNothing` needs.

### DelegationProofs

Assuming `DelegationAssumption` and `ThresholdAssumption`: `TypeCorrect`, `RunsStayOver`,
`OutputsAreTrue`, `AnswersAreOwn`, from `IInv == Types /\ TurnInv /\ AnswersListOwn /\
TaskInv /\ OutInv /\ RunInv`.

- That a run stays over rests on `LastReportEnds`: a report that ends nothing is followed in
  the channel by one that ends the run, or the turn that will send that one is still under
  way. `QuietRunsAreFinal` itself is not inductive, as it says nothing of runs with reports
  under way; `RunInv` speaks of every run whose final record the worker has made.
- `OutInv` needs that no task is taken twice (`TaskInv`: queued once, and nothing taken is
  queued), so that a published task never moves again.
- `AnswersListOwn` needs that what `delegations_by_turn` holds for the turn under way is
  exactly what that turn recorded, and that no later turn has anything yet (`TurnInv`).
- `OnlyUnbegunRunsAreForgotten`, by `BegunInv`: a run that nothing is under way for outlasts
  its task only if the open breaker failed the task without a turn. The property of
  `DelegationRuns` with that exception holds always (`ForgottenRuns`), and as it stands as long
  as the breaker is closed: `RunsEndWhileClosed`, by `Spec /\ []~breaker.open => ...`.
- `TasksAreNotLeftBehind`, the safety part of `EveryTurnIsPublished`: a queued task is in the
  queue, and a running one is in the worker's hands, with its end still to be written.

### ThreadsProofs

Assuming `ThreadsAssumption`. Four results, each with an invariant of its own over
`ThreadTypes`:

- `SequencesGrow` and `ThreadsTypeCorrect`, by `SeqInv`: the numbers that can be read are
  below the cache, or below the line without its newline, and all of them stay within
  `Ahead`, the lines that can be read and two for each mishap. Two, because a line may be
  lost with its number and the line glued to it with another.
- `ReportsAreJournalled`, for a life without faults and crashes, by `ReportInv`: three parts
  that say where each report is on its way. `WorkerInv`: the report worker is idle, and memory,
  journal and remediations agree; or it is at the report line of one report (`BeingTold`), or
  at its remediation line (`Remedying`). `UnplacedInv`: the only report that finds no thread is
  the failure that follows a stuck run, which took the context of the run with it.
  `ChannelInv`: what a turn has in the channel is in an order in which a turn may report
  (`Precedes`) and follows what was taken before; the last report of a turn whose context is
  set finds it (`Known`). What is reported before `delegate_to_agent` has set the
  context finds none, and is what the property leaves out.
- `JournalsMirrorSessions`, by `MirrorInv`. The property speaks of threads at rest;
  `InPlace` says what holds at each place of a turn: the journal mirrors the session as far
  as the turn's snapshot counts (`Mirrors`), before the save with the conversation the turn
  still holds, and while it journals with the messages it has still to append
  (`Journalling`). It is kept by each step because at most one turn is under way (`OneTurn`)
  until two overlap, and then the property is silent (`disturbed`). The worker may be
  through the run's places before the run is in the table, so that they speak of the
  session the run has, whether the table shows it or not (`Untabled`, `SessionOf`). That a later
  turn journals exactly what a failed one left is `MirrorsCollected`; that a session built from
  the journal is mirrored by it is `MirrorsRevived`. Both rest on lemmas of how parts by
  position behave under concatenation (`AtConcat`) and on `Project` being such a part.

`Written` was found to be ill-formed on the way: the guards of its `CASE` overlapped for a
glued line, and TLC had taken the first. They are disjoint now.

### AgentProofs

Assuming `AgentTurnAssumption`: `EveryCallHasItsResult`, `BudgetsAreExact`, `EndsAreTold`
and `AgentTypeCorrect`, by `AgentIInv == AgentTypes /\ PlaceInv /\ BudgetInv /\ RetryInv /\
EndInv /\ TalkInv`.

- `CallsAnswered` speaks of the moment the model is asked; `TalkInv` of every moment, with
  the calls that are still to be run as if their results were there (`AnsweredSoFar`, `Asked`).
  Truncation keeps `AnsweredSoFar` because it cuts from the front: calls that stay keep the
  results after them. It may leave results whose calls went, so that `Asked`, like that half
  of the property, is about `execute_turn`, which does not truncate.
- `RetryInv` and `EndInv` are about the reports sent and those still to be sent, in order
  (`AllReports`), which is what makes "once" and "last" inductive whatever the capacity of
  the channel.

### ServicesProofs

- `Assistance` (`AssistanceAssumption`): `WaitingTasksAsk`, by `AssistIInv`, the property
  with types that add that the queue holds tasks: whoever leaves `waiting` for another place
  has moved its task on in the same step.
- `Mcp` (`McpAssumption`): `AnswersGoToTheirRequests`, by `McpIInv == McpTypes /\ GotInv /\
  LockInv /\ WorkInv`. What a client has got bears the number of its request (`GotInv`).
  That nobody is in a request of a stopped server needs that a writer is alone inside the
  lock (`LockInv`) and that who is inside with requests left has seen a server that runs
  (`WorkInv`). `NoOperationIsForgotten`, by `QueueInv`, is the safety part of
  `OperationsReturn`: who waits for the lock is in its queue, whose first may enter or waits
  for a holder that has a step of its own to take, unless the writer among the holders is
  held up by a server that reads no more (`StalledInv`: then there is one). A holder that
  waits for a mutex waits for another holder, which is what the theorem follows.
- `Scripts` (`ScriptsAssumption`), by `ScriptIInv == ScriptsTypeOK /\ ProcessInv`:
  `FittingInputsAreWritten`, the safety part of `ScriptsReturn` (the writer of an input that
  fits never stands before a full pipe, since what is in the pipe and what is left fit it
  together), and `OnlyGuardedScriptsRun`.
- `Waits`: `WaitsArePlacedSideBySide` (`WaitsSpec => AssistSpec /\ McpSpec /\ ScriptsSpec`,
  with their fairness, a lemma), and from it `WaitsTypesCorrect` and `WaitsAreSafe`. What a part does
  under its fairness, TLC's liveness results included, it does beside the others.

### EntryProofs

- `DaemonControl` (`DaemonAssumption`), for any number of commands, processes and crashes:
  `OneDaemon` and `WorkIsTakenUp`, by `DaemonIInv == DaemonTypes /\ Alternating /\ OneInv /\
  WorkInv`. Both speak of the time before two commands overlap (`Alternating`). `OneInv`: every
  living process but those a failed write of the pid file left unnamed (`lost`) is `Followed`,
  that is, the file names it or the command under way has just started it. `WorkInv` says what
  the two need of the row of the task as long as `lost` is empty.
- `Chat` (`ChatAssumption`), for any threads and messages: `RequestsAreShown`, by `ChatIInv
  == ChatTypes /\ PaneInv /\ FlightInv`. `FlightInv` adds to the property where the
  placeholder is in the timeline, and that the thread of the request in flight is still
  listed, so that the answer finds it.
- `A2a` (`A2aAssumption`), for any clients, tasks and reports: `StreamsMissNothing`, by
  `A2aIInv == A2aTypes /\ RecordInv /\ TakenInv /\ SubscribedInv /\ HeardInv`. The property
  speaks of handlers that are through and of moments without a report half told; `HeardInv`
  of every moment. It is inductive because nobody reports on a task that was not submitted
  (`TakenInv`), and a stream subscribes before it submits (`SubscribedInv`).
- `Triggers` (`TriggersAssumption`), for any users, channels, limits and windows:
  `MessageLimitsHold`, by `TriggerIInv == TriggerTypes /\ StampInv /\ VerdictInv /\
  TaskInv`. The property compares what was let through with the limits; `StampInv` gives
  each message of the window one stamp of its user and one of its channel (`Fits`), so that
  they are as many. `TaskInv` bounds chat tasks by the limit and the room of the channel,
  whose events have not been counted yet.

### PartsProofs

- `Secrets` (`SecretsAssumption`): `ScannerIsInStep`, by `SecretsIInv == SecretsTypes /\
  AloneInv /\ PairsInv /\ SyncInv`. `SyncInv` says that the scanner is in step unless
  somebody is about to rebuild it; the swap keeps it because what a call that ran alone has
  read is what is there (`PairsInv`), which in turn holds because nobody else is in a call
  (`AloneInv`). Nothing is assumed of rebuilds that overlapped: the next call that runs
  alone repairs whatever they left.
- `Memory` (`MemoryAssumption`): `WalksMissNothing`, by `MemoryIInv == MemoryTypes /\
  WalkInv`. What matched when the walk began is found or has its place beyond the offset;
  that places below the offset do not shift is what the condition `~moved` is for, and that
  a new item is placed after those already there follows from its `created_at`.
- `Parts`, the composition of the eight: by the lemma `PartsArePlacedSideBySide` and the
  theorems of each part `PartsTypesCorrect` and `PartsAreSafe` (`PartsSafety`, all thirteen
  safety properties that `Parts` is run for), in every interleaving. `PartsProofs` extends the
  proof modules of the parts.

Each component also has the theorem that its own type invariant holds (`AssistTypeCorrect`,
`McpTypeCorrect` and so on).

### Only model-checked

- Liveness under fairness is out of the prover's reach: `EveryTaskEnds`,
  `EveryWaiterIsAnswered`, `EveryTurnIsPublished`, `RequestsEnd`, `OperationsReturn`,
  `ScriptsReturn`. What each rests on is proved where it is a safety property:
  `NoTaskStranded`, `EveryWaiterIsServed`, `TasksAreNotLeftBehind`, `WaitingIsAsking`,
  `NoOperationIsForgotten`, `FittingInputsAreWritten`.
- That the disagreements above can happen: a violation is a behaviour, and TLC shows it.

## 6. Plan

What is left, in this order.

1. `Policies`: remediation, report analytics, redaction and the path policy as operators
   against reference definitions over bounded inputs.
2. The skill registry with its directories, and the installation of a home directory.
3. HTTP servers in `Mcp`; event queries of the thread journal; several delegated runs on one
   thread.

## 7. Not modelled, and why

- Prompt text, tool tables and model clients (`prompt.rs`, `tools.rs`, `tool_id.rs`,
  `llm_clients.rs`, `mock_llm.rs`, `bootstrap.rs`) keep no state. A model is an external
  choice of tool calls, an answer or an error.
- The admin RPC server: each method is one call of the runtime, and those with a protocol
  are actions (`ClientAsks`, `OutputsPulled`, the proposals' calls).
- Encryption, the keychain and the Proton Pass command are external; a read of them succeeds
  or fails.
- The chat's rendering, wrapping, scrolling and rows; the command line's parsing, the
  installation and provider keys: no protocol, no state that outlives a call.
- `main.rs` reloads a configuration that nobody reads afterwards, and the reload channel has
  no listener: there is nothing a model could relate it to.
- Reuse of pids by the system: `DaemonControl` gives each process its own, so it does not
  speak of a pid file that names a stranger.
- MCP servers over HTTP, and event query filters of the thread journal: see the plan.
- Core types (`neuromancer-core/`): data, modelled where they are used.
- The cron jobs' `_idempotency_key` is computed and not used by the code; two events of one
  firing would not be merged, and `Triggers` merges none.

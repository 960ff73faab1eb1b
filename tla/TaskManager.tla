----------------------------- MODULE TaskManager -----------------------------
(***************************************************************************)
(* The task manager of neuromancerd and the three loops that drive it: the *)
(* task worker, the watchdog and the graceful shutdown.                    *)
(*                                                                         *)
(* TaskManagerState lives under one async mutex; every critical section is *)
(* one action here, and every await between two of them (a store call, the *)
(* receipt of a result, the run of an agent turn) is a step boundary.      *)
(* The SQLite store survives a crash, everything else does not.            *)
(***************************************************************************)
EXTENDS Naturals, FiniteSets, CircuitBreaker

CONSTANTS
  Tasks,          \* task ids: the Task values callers hand to enqueue_direct
  Agents,         \* agents that tasks are assigned to
  AgentOf,        \* [Tasks -> Agents], Task::assigned_agent
  KeyOf,          \* [Tasks -> keys], Task::idempotency_key, NoKey for None
  NoKey,
  Priority,       \* [Tasks -> Nat], Task::priority
  Awaiters,       \* callers of await_task_result
  Threads,        \* which of AllThreads run
  MaxCrashes,     \* bound: crashes of the daemon
  MaxStoreErrors, \* bound: store calls that fail
  NoTask

AllThreads == {"worker", "watchdog", "shutdown"}

ASSUME ConstantsAssumption ==
  /\ IsFiniteSet(Tasks)
  /\ AgentOf \in [Tasks -> Agents]
  /\ Priority \in [Tasks -> Nat]
  /\ NoTask \notin Tasks
  /\ Threads \subseteq AllThreads
  /\ MaxCrashes \in Nat
  /\ MaxStoreErrors \in Nat

\* "running" stands for every Running{..} execution state but the one the
\* shutdown writes, Suspended with reason "daemon shutdown".
Pending  == {"queued", "dispatched", "running", "suspended"}
Terminal == {"completed", "failed", "cancelled"}
States   == Pending \cup Terminal \cup {"absent"}

\* task_state_label: what `expected_from` is compared with.
Label(s) == IF s = "suspended" THEN "running" ELSE s

AnyLabel == Pending \cup Terminal

VARIABLES
  mem,         \* TaskManagerState::tasks, "absent" for a task not in the map
  queue,       \* the ids in the heap, and in queued_ids
  accepting,   \* accepting_new_tasks
  waiters,     \* senders registered for each task
  beat,        \* the tasks that have a last_heartbeat
  breaker,     \* circuit_breakers: failures in the window, is_open
  store,       \* the state in each task's row of the tasks table
  checkpoints, \* tasks with a row in task_checkpoints
  created,     \* Task::created_at as a rank, 0 before the task is built
  enq,         \* how far the enqueue_direct of each task is
  alias,       \* the existing task a deduplicated enqueue returned
  pc,          \* where each thread is
  call,        \* the transition each thread is in the middle of
  job,         \* the worker's clone of the task it popped
  stale,       \* the watchdog's candidates that are still to be handled
  strikes,     \* the watchdog's stale_since
  toSuspend,   \* the shutdown's candidates, with the label they had
  apc,         \* where each awaiter is
  target,      \* the task it awaits
  inbox,       \* its oneshot channel
  got,         \* the answer it returned
  up,          \* FALSE while bootstrap_from_store runs
  crashes, errors

memVars   == <<mem, queue, accepting, waiters, beat, breaker>>
storeVars == <<store, checkpoints>>
enqVars   == <<created, enq, alias>>
loopVars  == <<job, stale, strikes, toSuspend>>
awaitVars == <<apc, target, inbox, got>>
bounds    == <<crashes, errors>>
vars == <<memVars, storeVars, enqVars, pc, call, loopVars, awaitVars, up, bounds>>

Idle == [stage |-> "idle", task |-> NoTask, to |-> "absent", save |-> FALSE,
         woken |-> {}, onOk |-> "idle", onErr |-> "idle"]

NoJob == [task |-> NoTask, seen |-> "absent"]

Init ==
  /\ mem = [t \in Tasks |-> "absent"]
  /\ queue = {}
  /\ accepting = TRUE
  /\ waiters = [t \in Tasks |-> {}]
  /\ beat = {}
  /\ breaker = [a \in Agents |-> Closed]
  /\ store = [t \in Tasks |-> "absent"]
  /\ checkpoints = {}
  /\ created = [t \in Tasks |-> 0]
  /\ enq = [t \in Tasks |-> "new"]
  /\ alias = [t \in Tasks |-> NoTask]
  /\ pc = [th \in AllThreads |-> "idle"]
  /\ call = [th \in AllThreads |-> Idle]
  /\ job = NoJob
  /\ stale = {}
  /\ strikes = {}
  /\ toSuspend = {}
  /\ apc = [a \in Awaiters |-> "new"]
  /\ target = [a \in Awaiters |-> NoTask]
  /\ inbox = [a \in Awaiters |-> "none"]
  /\ got = [a \in Awaiters |-> "none"]
  /\ up = TRUE
  /\ crashes = 0
  /\ errors = 0

-----------------------------------------------------------------------------
(* enqueue_direct: a check under the lock, a look in the store, the row,   *)
(* and only then the insertion under the lock again.                       *)

EnqueueStep(t, from, to) == up /\ enq[t] = from /\ enq' = [enq EXCEPT ![t] = to]

\* A non-terminal task of the in-memory map with t's idempotency key.
SameKeyInMemory(t) ==
  {u \in Tasks : KeyOf[t] # NoKey /\ KeyOf[u] = KeyOf[t] /\ mem[u] \in Pending}

\* What find_non_terminal_by_idempotency selects, before LIMIT 1.
SameKeyInStore(t) ==
  {u \in Tasks : KeyOf[t] # NoKey /\ KeyOf[u] = KeyOf[t] /\ store[u] \in Pending}

MayEnter(t) == accepting /\ SameKeyInMemory(t) = {} /\ ~breaker[AgentOf[t]].open

\* Task::new, then the first critical section.
EnqueueCheck(t) ==
  /\ created' = [created EXCEPT
                   ![t] = 1 + Cardinality({u \in Tasks : created[u] # 0})]
  /\ \/ /\ MayEnter(t)
        /\ EnqueueStep(t, "new", IF KeyOf[t] = NoKey THEN "persist" ELSE "lookup")
        /\ UNCHANGED alias
     \/ /\ accepting
        /\ \E u \in SameKeyInMemory(t) : alias' = [alias EXCEPT ![t] = u]
        /\ EnqueueStep(t, "new", "merged")
     \/ /\ ~accepting \/ (SameKeyInMemory(t) = {} /\ breaker[AgentOf[t]].open)
        /\ EnqueueStep(t, "new", "rejected")
        /\ UNCHANGED alias
  /\ UNCHANGED <<memVars, storeVars, pc, call, loopVars, awaitVars, up, bounds>>

\* ORDER BY created_at ASC LIMIT 1.
EnqueueLookup(t) ==
  /\ LET same == SameKeyInStore(t)
     IN  \/ /\ same = {}
            /\ EnqueueStep(t, "lookup", "persist")
            /\ UNCHANGED alias
         \/ /\ \E u \in same : /\ \A v \in same : created[u] <= created[v]
                               /\ alias' = [alias EXCEPT ![t] = u]
            /\ EnqueueStep(t, "lookup", "merged")
  /\ UNCHANGED <<memVars, storeVars, created, pc, call, loopVars, awaitVars, up, bounds>>

\* Mutant of EnqueuePersist: no upsert_task.
EnqueuePersistSkips(t) ==
  /\ EnqueueStep(t, "persist", "insert")
  /\ UNCHANGED <<memVars, storeVars, created, alias, pc, call, loopVars, awaitVars, up, bounds>>

EnqueuePersist(t) ==
  /\ EnqueueStep(t, "persist", "insert")
  /\ store' = [store EXCEPT ![t] = "queued"]
  /\ UNCHANGED <<memVars, checkpoints, created, alias, pc, call, loopVars, awaitVars,
                 up, bounds>>

\* The store call behind EnqueueLookup or EnqueuePersist fails.
EnqueueStoreError(t) ==
  /\ errors < MaxStoreErrors
  /\ errors' = errors + 1
  /\ EnqueueStep(t, "lookup", "rejected") \/ EnqueueStep(t, "persist", "rejected")
  /\ UNCHANGED <<memVars, storeVars, created, alias, pc, call, loopVars, awaitVars, up,
                 crashes>>

EnqueueInsert(t) ==
  /\ EnqueueStep(t, "insert", "accepted")
  /\ mem' = [mem EXCEPT ![t] = "queued"]
  /\ queue' = queue \cup {t}
  /\ UNCHANGED <<accepting, waiters, beat, breaker, storeVars, created, alias, pc, call,
                 loopVars, awaitVars, up, bounds>>

-----------------------------------------------------------------------------
(* transition: the state changes under the lock; then the row, the event   *)
(* and checkpoint, and last the breaker and the waiters, each after an     *)
(* await. A store error returns early: what follows it is not done.        *)

\* Mutants of Taken: all at any transition, none at a cancellation, none at a failure.
TakenAlways(t, to) == waiters[t]
TakenUnlessCancelled(t, to) == IF to \in Terminal \ {"cancelled"} THEN waiters[t] ELSE {}
TakenOnSuccess(t, to) == IF to = "completed" THEN waiters[t] ELSE {}

\* The senders a transition takes: those of a task that ends.
Taken(t, to) == IF to \in Terminal THEN waiters[t] ELSE {}

\* Thread th calls transition(t, expected, to, ..) and goes on at onOk when it
\* returns Ok and at onErr when it returns Err.
Transition(th, t, expected, to, save, onOk, onErr) ==
  \/ /\ mem[t] # "absent"
     /\ Label(mem[t]) \in expected
     /\ mem' = [mem EXCEPT ![t] = to]
     /\ beat' = IF Label(to) = "running" THEN beat \cup {t} ELSE beat \ {t}
     /\ waiters' = [waiters EXCEPT ![t] = @ \ Taken(t, to)]
     /\ call' = [call EXCEPT ![th] =
                   [stage |-> "row", task |-> t, to |-> to, save |-> save,
                    woken |-> Taken(t, to),
                    onOk |-> onOk, onErr |-> onErr]]
     /\ pc' = [pc EXCEPT ![th] = "calling"]
  \/ /\ mem[t] = "absent" \/ Label(mem[t]) \notin expected
     /\ pc' = [pc EXCEPT ![th] = onErr]
     /\ UNCHANGED <<mem, beat, waiters, call>>

TransitionOnly == UNCHANGED <<queue, accepting, breaker, storeVars, enqVars, awaitVars,
                              up, bounds>>

\* Mutant of WriteRow: no upsert_task.
WriteRowSkips(th) ==
  /\ up /\ call[th].stage = "row"
  /\ call' = [call EXCEPT ![th].stage = "log"]
  /\ UNCHANGED <<memVars, storeVars, enqVars, pc, loopVars, awaitVars, up, bounds>>

\* store.upsert_task with the clone taken under the lock.
WriteRow(th) ==
  /\ up /\ call[th].stage = "row"
  /\ store' = [store EXCEPT ![call[th].task] = call[th].to]
  /\ call' = [call EXCEPT ![th].stage = "log"]
  /\ UNCHANGED <<memVars, checkpoints, enqVars, pc, loopVars, awaitVars, up, bounds>>

\* store.record_transition and store.save_checkpoint.
WriteLog(th) ==
  /\ up /\ call[th].stage = "log"
  /\ checkpoints' = IF call[th].save THEN checkpoints \cup {call[th].task} ELSE checkpoints
  /\ call' = [call EXCEPT ![th].stage = "settle"]
  /\ UNCHANGED <<memVars, store, enqVars, pc, loopVars, awaitVars, up, bounds>>

\* Receivers that no longer listen (they timed out) ignore what is sent.
Send(who, what) ==
  [a \in Awaiters |-> IF a \in who /\ apc[a] \in {"resolve", "wait"} THEN what ELSE inbox[a]]

\* One of the store calls fails: `?` drops the senders that were taken.
TransitionStoreError(th) ==
  /\ up /\ call[th].stage \in {"row", "log"}
  /\ errors < MaxStoreErrors
  /\ errors' = errors + 1
  /\ inbox' = Send(call[th].woken, "closed")
  /\ pc' = [pc EXCEPT ![th] = call[th].onErr]
  /\ call' = [call EXCEPT ![th] = Idle]
  /\ UNCHANGED <<memVars, storeVars, enqVars, loopVars, apc, target, got, up, crashes>>

Settle(th) ==
  LET c  == call[th]
      ag == AgentOf[c.task]
  IN  /\ up /\ c.stage = "settle"
      /\ \/ /\ c.to = "failed"
            /\ \E b \in RecordFailure(breaker[ag]) : breaker' = [breaker EXCEPT ![ag] = b]
         \/ /\ c.to = "completed"
            /\ breaker' = [breaker EXCEPT ![ag] = Closed]
         \/ /\ c.to \notin {"failed", "completed"}
            /\ UNCHANGED breaker
      /\ inbox' = Send(c.woken, c.to)
      /\ pc' = [pc EXCEPT ![th] = c.onOk]
      /\ call' = [call EXCEPT ![th] = Idle]
      /\ UNCHANGED <<mem, queue, accepting, waiters, beat, storeVars, enqVars, loopVars,
                     apc, target, got, up, bounds>>

InCall == \E th \in Threads : \/ WriteRow(th) \/ WriteLog(th)
                              \/ TransitionStoreError(th) \/ Settle(th)

-----------------------------------------------------------------------------
(* The task worker: one loop, one task at a time.                          *)

Worker(at) == "worker" \in Threads /\ up /\ pc["worker"] = at

\* QueueItem's order: the higher priority, then the older creation.
Before(t, u) ==
  \/ Priority[t] > Priority[u]
  \/ Priority[t] = Priority[u] /\ created[t] <= created[u]

WorkerPop ==
  /\ Worker("idle")
  /\ \E t \in queue :
       /\ \A u \in queue : Before(t, u)
       /\ queue' = queue \ {t}
       /\ job' = [task |-> t, seen |-> mem[t]]
  /\ pc' = [pc EXCEPT !["worker"] = "breaker"]
  /\ UNCHANGED <<mem, accepting, waiters, beat, breaker, storeVars, enqVars, call, stale,
                 strikes, toSuspend, awaitVars, up, bounds>>

\* wait_for_next_task returns None and the loop ends.
WorkerStops ==
  /\ Worker("idle")
  /\ ~accepting /\ queue = {}
  /\ pc' = [pc EXCEPT !["worker"] = "stopped"]
  /\ UNCHANGED <<memVars, storeVars, enqVars, call, loopVars, awaitVars, up, bounds>>

\* Mutants of NextAfter: a recovered dispatched task, or running one, is dropped.
NextAfterDropsDispatched(seen) ==
  CASE seen = "queued" -> "dispatch" [] Label(seen) = "running" -> "execute" [] OTHER -> "idle"
NextAfterDropsRunning(seen) ==
  CASE seen = "queued" -> "dispatch" [] seen = "dispatched" -> "start" [] OTHER -> "idle"

\* Where a popped task goes on, by the state of the clone.
NextAfter(seen) ==
  CASE seen = "queued"      -> "dispatch"
    [] seen = "dispatched"  -> "start"
    [] Label(seen) = "running" -> "execute"
    [] OTHER -> "idle"

WorkerChecksBreaker ==
  /\ Worker("breaker")
  /\ \/ /\ breaker[AgentOf[job.task]].open
        /\ Transition("worker", job.task, {Label(job.seen)}, "failed", FALSE, "idle", "idle")
     \/ /\ ~breaker[AgentOf[job.task]].open
        /\ pc' = [pc EXCEPT !["worker"] = NextAfter(job.seen)]
        /\ UNCHANGED <<mem, beat, waiters, call>>
  /\ TransitionOnly /\ UNCHANGED loopVars

WorkerDispatches ==
  /\ Worker("dispatch")
  /\ Transition("worker", job.task, {"queued"}, "dispatched", FALSE, "start", "idle")
  /\ TransitionOnly /\ UNCHANGED loopVars

\* Mutant of WorkerStarts: no expected state.
WorkerStartsAnyway ==
  /\ Worker("start")
  /\ Transition("worker", job.task, AnyLabel, "running", FALSE, "execute", "idle")
  /\ TransitionOnly /\ UNCHANGED loopVars

WorkerStarts ==
  /\ Worker("start")
  /\ Transition("worker", job.task, {"dispatched"}, "running", FALSE, "execute", "idle")
  /\ TransitionOnly /\ UNCHANGED loopVars

\* run_delegated_task: the error of this transition is only logged.
WorkerExecutes ==
  /\ Worker("execute")
  /\ Transition("worker", job.task, {"running"}, "running", FALSE, "turn", "turn")
  /\ TransitionOnly /\ UNCHANGED loopVars

\* execute_queued_task finds no runtime for the agent.
WorkerHasNoRuntime ==
  /\ Worker("execute")
  /\ Transition("worker", job.task, {"running"}, "failed", FALSE, "idle", "idle")
  /\ TransitionOnly /\ UNCHANGED loopVars

\* The agent turn returns, with an output or an error.
WorkerEndsTurn ==
  /\ Worker("turn")
  /\ \E outcome \in {"completed", "failed"} :
       Transition("worker", job.task, {"running"}, outcome, FALSE, "idle", "idle")
  /\ TransitionOnly /\ UNCHANGED loopVars

WorkerNext == \/ WorkerPop \/ WorkerStops \/ WorkerChecksBreaker \/ WorkerDispatches
              \/ WorkerStarts \/ WorkerExecutes \/ WorkerHasNoRuntime \/ WorkerEndsTurn

-----------------------------------------------------------------------------
(* The watchdog: every tick it lists the running tasks whose heartbeat is  *)
(* older than twice the interval, then handles the list one by one.        *)

Watchdog(at) == "watchdog" \in Threads /\ up /\ pc["watchdog"] = at

\* A report of the running agent refreshes last_heartbeat.
MarkHeartbeat(t) ==
  /\ up /\ Label(mem[t]) = "running" /\ t \notin beat
  /\ beat' = beat \cup {t}
  /\ UNCHANGED <<mem, queue, accepting, waiters, breaker, storeVars, enqVars, pc, call,
                 loopVars, awaitVars, up, bounds>>

\* Any running task with a heartbeat may have been silent for long enough.
WatchdogScans ==
  /\ Watchdog("idle")
  /\ \E silent \in SUBSET {t \in beat : Label(mem[t]) = "running"} :
       /\ silent # {}
       /\ stale' = silent
       /\ strikes' = strikes \cap silent
  /\ pc' = [pc EXCEPT !["watchdog"] = "handle"]
  /\ UNCHANGED <<memVars, storeVars, enqVars, call, job, toSuspend, awaitVars, up, bounds>>

\* First strike: cancel, with no expectation on the state. A later one: force the
\* task to fail, or wait on if watchdog_timeout has not passed yet.
WatchdogHandles ==
  /\ Watchdog("handle")
  /\ \E t \in stale :
       /\ stale' = stale \ {t}
       /\ IF t \notin strikes
          THEN /\ strikes' = strikes \cup {t}
               /\ Transition("watchdog", t, AnyLabel, "cancelled", FALSE, "handle", "handle")
          ELSE \/ /\ strikes' = strikes \ {t}
                  /\ Transition("watchdog", t, {"running"}, "failed", FALSE, "handle", "handle")
               \/ UNCHANGED <<strikes, mem, beat, waiters, pc, call>>
  /\ TransitionOnly /\ UNCHANGED <<job, toSuspend>>

WatchdogRests ==
  /\ Watchdog("handle") /\ stale = {}
  /\ pc' = [pc EXCEPT !["watchdog"] = "idle"]
  /\ UNCHANGED <<memVars, storeVars, enqVars, call, loopVars, awaitVars, up, bounds>>

WatchdogNext == WatchdogScans \/ WatchdogHandles \/ WatchdogRests

-----------------------------------------------------------------------------
(* graceful_shutdown and suspend_non_terminal_for_shutdown.                *)

Shutdown(at) == "shutdown" \in Threads /\ up /\ pc["shutdown"] = at

StopAccepting ==
  /\ Shutdown("idle")
  /\ accepting' = FALSE
  /\ pc' = [pc EXCEPT !["shutdown"] = "drain"]
  /\ UNCHANGED <<mem, queue, waiters, beat, breaker, storeVars, enqVars, call, loopVars,
                 awaitVars, up, bounds>>

\* Nothing queued or running any more: graceful_shutdown returns.
Drained ==
  /\ Shutdown("drain")
  /\ \A t \in Tasks : mem[t] \notin Pending
  /\ pc' = [pc EXCEPT !["shutdown"] = "down"]
  /\ UNCHANGED <<memVars, storeVars, enqVars, call, loopVars, awaitVars, up, bounds>>

\* The grace period ends: take the list of the unfinished tasks.
GraceEnds ==
  /\ Shutdown("drain")
  /\ \E t \in Tasks : mem[t] \in Pending
  /\ toSuspend' = {<<t, Label(mem[t])>> : t \in {u \in Tasks : mem[u] \in Pending}}
  /\ pc' = [pc EXCEPT !["shutdown"] = "suspend"]
  /\ UNCHANGED <<memVars, storeVars, enqVars, call, job, stale, strikes, awaitVars, up, bounds>>

\* A task that moved on since the list was taken is skipped; a store error
\* ends the whole suspension.
Suspend ==
  /\ Shutdown("suspend")
  /\ \E c \in toSuspend :
       /\ toSuspend' = toSuspend \ {c}
       /\ \/ /\ Label(mem[c[1]]) = c[2]
             /\ Transition("shutdown", c[1], {c[2]}, "suspended", TRUE, "suspend", "down")
          \/ /\ Label(mem[c[1]]) # c[2]
             /\ UNCHANGED <<mem, beat, waiters, pc, call>>
  /\ TransitionOnly /\ UNCHANGED <<job, stale, strikes>>

SuspendEnds ==
  /\ Shutdown("suspend") /\ toSuspend = {}
  /\ pc' = [pc EXCEPT !["shutdown"] = "down"]
  /\ UNCHANGED <<memVars, storeVars, enqVars, call, loopVars, awaitVars, up, bounds>>

ShutdownNext == StopAccepting \/ Drained \/ GraceEnds \/ Suspend \/ SuspendEnds

-----------------------------------------------------------------------------
(* await_task_result, by a caller that holds an id enqueue_direct returned. *)

Await(a) ==
  /\ up /\ apc[a] = "new"
  /\ \E t \in {u \in Tasks : enq[u] = "accepted"} \cup {alias[u] : u \in {v \in Tasks : enq[v] = "merged"}} :
       /\ target' = [target EXCEPT ![a] = t]
       /\ \/ /\ mem[t] \in Terminal
             /\ apc' = [apc EXCEPT ![a] = "done"]
             /\ got' = [got EXCEPT ![a] = mem[t]]
             /\ UNCHANGED waiters
          \/ /\ mem[t] \notin Terminal
             /\ apc' = [apc EXCEPT ![a] = "resolve"]
             /\ waiters' = [waiters EXCEPT ![t] = @ \cup {a}]
             /\ UNCHANGED got
  /\ UNCHANGED <<mem, queue, accepting, beat, breaker, storeVars, enqVars, pc, call,
                 loopVars, inbox, up, bounds>>

\* resolve_terminal_result: the map first, then the row.
AwaitResolves(a) ==
  LET t == target[a]
      s == IF mem[t] \in Terminal THEN mem[t] ELSE store[t]
  IN  /\ up /\ apc[a] = "resolve"
      /\ \/ /\ s \in Terminal
            /\ apc' = [apc EXCEPT ![a] = "done"]
            /\ got' = [got EXCEPT ![a] = s]
         \/ /\ s \notin Terminal
            /\ apc' = [apc EXCEPT ![a] = "wait"]
            /\ UNCHANGED got
      /\ UNCHANGED <<memVars, storeVars, enqVars, pc, call, loopVars, target, inbox, up, bounds>>

AwaitReceives(a) ==
  /\ up /\ apc[a] = "wait" /\ inbox[a] # "none"
  /\ apc' = [apc EXCEPT ![a] = "done"]
  /\ got' = [got EXCEPT ![a] = inbox[a]]
  /\ UNCHANGED <<memVars, storeVars, enqVars, pc, call, loopVars, target, inbox, up, bounds>>

\* The timeout elapses; the sender stays registered.
AwaitTimesOut(a) ==
  /\ up /\ apc[a] = "wait" /\ inbox[a] = "none"
  /\ apc' = [apc EXCEPT ![a] = "done"]
  /\ got' = [got EXCEPT ![a] = "timeout"]
  /\ UNCHANGED <<memVars, storeVars, enqVars, pc, call, loopVars, target, inbox, up, bounds>>

-----------------------------------------------------------------------------
(* A crash, or the end of the process, and the next start.                 *)

Crash ==
  /\ crashes < MaxCrashes
  /\ crashes' = crashes + 1
  /\ up' = FALSE
  /\ mem' = [t \in Tasks |-> "absent"]
  /\ queue' = {}
  /\ accepting' = TRUE
  /\ waiters' = [t \in Tasks |-> {}]
  /\ beat' = {}
  /\ breaker' = [a \in Agents |-> Closed]
  /\ enq' = [t \in Tasks |-> IF enq[t] \in {"lookup", "persist", "insert"}
                             THEN "lost" ELSE enq[t]]
  /\ pc' = [th \in AllThreads |-> "idle"]
  /\ call' = [th \in AllThreads |-> Idle]
  /\ job' = NoJob
  /\ stale' = {} /\ strikes' = {} /\ toSuspend' = {}
  /\ apc' = [a \in Awaiters |-> IF apc[a] \in {"resolve", "wait"} THEN "gone" ELSE apc[a]]
  /\ UNCHANGED <<storeVars, created, alias, target, inbox, got, errors>>

\* Mutant of Unrecovered: only what was queued.
UnrecoveredQueued == {t \in Tasks : store[t] = "queued" /\ mem[t] = "absent"}

Unrecovered == {t \in Tasks : store[t] \in Pending /\ mem[t] = "absent"}

\* Mutant of Recover: the row keeps what it said.
RecoverAsQueued(t) ==
  /\ ~up /\ t \in Unrecovered
  /\ mem' = [mem EXCEPT ![t] = "queued"]
  /\ queue' = queue \cup {t}
  /\ UNCHANGED <<accepting, waiters, beat, breaker, storeVars, enqVars, pc, call, loopVars,
                 awaitVars, up, bounds>>

\* One task of the list bootstrap_from_store makes. A checkpoint that cannot
\* be read counts as missing.
Recover(t) ==
  /\ ~up /\ t \in Unrecovered
  /\ \/ /\ store[t] # "suspended"
        /\ mem' = [mem EXCEPT ![t] = store[t]]
        /\ queue' = queue \cup {t}
        /\ UNCHANGED <<store, errors>>
     \/ /\ store[t] = "suspended" /\ t \in checkpoints
        /\ mem' = [mem EXCEPT ![t] = "queued"]
        /\ store' = [store EXCEPT ![t] = "queued"]
        /\ queue' = queue \cup {t}
        /\ UNCHANGED errors
     \/ /\ store[t] = "suspended"
        /\ \/ t \notin checkpoints /\ UNCHANGED errors
           \/ t \in checkpoints /\ errors < MaxStoreErrors /\ errors' = errors + 1
        /\ mem' = [mem EXCEPT ![t] = "failed"]
        /\ store' = [store EXCEPT ![t] = "failed"]
        /\ UNCHANGED queue
  /\ UNCHANGED <<accepting, waiters, beat, breaker, checkpoints, enqVars, pc, call, loopVars,
                 awaitVars, up, crashes>>

Recovered ==
  /\ ~up /\ Unrecovered = {}
  /\ up' = TRUE
  /\ UNCHANGED <<memVars, storeVars, enqVars, pc, call, loopVars, awaitVars, bounds>>

-----------------------------------------------------------------------------

EnqueueNext(t) == \/ EnqueueCheck(t) \/ EnqueueLookup(t) \/ EnqueuePersist(t)
                  \/ EnqueueStoreError(t) \/ EnqueueInsert(t)

AwaitNext(a) == Await(a) \/ AwaitResolves(a) \/ AwaitReceives(a) \/ AwaitTimesOut(a)

Next ==
  \/ \E t \in Tasks : EnqueueNext(t) \/ MarkHeartbeat(t) \/ Recover(t)
  \/ InCall
  \/ WorkerNext
  \/ WatchdogNext
  \/ ShutdownNext
  \/ \E a \in Awaiters : AwaitNext(a)
  \/ Crash
  \/ Recovered

Spec == Init /\ [][Next]_vars
-----------------------------------------------------------------------------
(* Fairness: tokio polls every spawned loop and every pending call. Callers *)
(* need not call, timeouts need not elapse and nothing has to crash. That   *)
(* WorkerEndsTurn is fair says that an agent turn returns.                  *)

Fairness ==
  /\ \A t \in Tasks : WF_vars(EnqueueLookup(t) \/ EnqueuePersist(t) \/ EnqueueInsert(t))
  /\ \A t \in Tasks : WF_vars(Recover(t))
  /\ WF_vars(Recovered)
  /\ \A th \in AllThreads : WF_vars(th \in Threads /\ (WriteRow(th) \/ WriteLog(th) \/ Settle(th)))
  /\ WF_vars(WorkerNext)
  /\ WF_vars(WatchdogHandles \/ WatchdogRests)
  /\ \A a \in Awaiters : WF_vars(AwaitResolves(a) \/ AwaitReceives(a))

FairSpec == Spec /\ Fairness

-----------------------------------------------------------------------------

CallStages == {"idle", "row", "log", "settle"}
Places == {"idle", "calling", "breaker", "dispatch", "start", "execute", "turn", "stopped",
           "handle", "drain", "suspend", "down"}
Calls == [stage : CallStages, task : Tasks \cup {NoTask}, to : States, save : BOOLEAN,
          woken : SUBSET Awaiters, onOk : Places, onErr : Places]
EnqueuePlaces == {"new", "lookup", "persist", "insert", "accepted", "merged", "rejected",
                  "lost"}
Answers == {"none", "closed", "timeout"} \cup Terminal

MemType ==
  /\ mem \in [Tasks -> States]
  /\ queue \subseteq Tasks
  /\ accepting \in BOOLEAN
  /\ waiters \in [Tasks -> SUBSET Awaiters]
  /\ beat \subseteq Tasks
  /\ breaker \in [Agents -> Breakers]

StoreType == store \in [Tasks -> States] /\ checkpoints \subseteq Tasks

EnqueueType ==
  /\ created \in [Tasks -> Nat]
  /\ enq \in [Tasks -> EnqueuePlaces]
  /\ alias \in [Tasks -> Tasks \cup {NoTask}]

ThreadType ==
  /\ pc \in [AllThreads -> Places]
  /\ call \in [AllThreads -> Calls]
  /\ job \in [task : Tasks \cup {NoTask}, seen : States]
  /\ stale \subseteq Tasks
  /\ strikes \subseteq Tasks
  /\ toSuspend \subseteq Tasks \X AnyLabel

AwaitType ==
  /\ apc \in [Awaiters -> {"new", "resolve", "wait", "done", "gone"}]
  /\ target \in [Awaiters -> Tasks \cup {NoTask}]
  /\ inbox \in [Awaiters -> Answers]
  /\ got \in [Awaiters -> Answers]

BoundType == crashes \in 0 .. MaxCrashes /\ errors \in 0 .. MaxStoreErrors /\ up \in BOOLEAN

\* The types of the variables, and what the types of the code guarantee: who is in
\* a call, past a pop, merged or waiting has the task it talks about.
TypeOK ==
  /\ MemType /\ StoreType /\ EnqueueType /\ ThreadType /\ AwaitType /\ BoundType
  /\ \A th \in AllThreads :
       call[th].stage # "idle" =>
         /\ pc[th] = "calling" /\ call[th].task \in Tasks /\ call[th].to # "absent"
         /\ call[th].woken # {} => call[th].to \in Terminal
  /\ pc["worker"] \notin {"idle", "stopped"} => job.task \in Tasks
  /\ \A t \in Tasks : enq[t] = "merged" => alias[t] \in Tasks
  /\ \A a \in Awaiters : apc[a] # "new" => target[a] \in Tasks

\* A caller that waits in await_task_result will be answered: its sender is
\* registered and the task can still end, or a transition that ended the task
\* holds the sender. No order of registration, transition and timeout loses it.
EveryWaiterIsServed ==
  \A a \in Awaiters :
    apc[a] \in {"resolve", "wait"} /\ inbox[a] = "none" =>
      \/ a \in waiters[target[a]] /\ mem[target[a]] \notin Terminal
      \/ \E th \in AllThreads : call[th].task = target[a] /\ a \in call[th].woken

\* What a caller was told is accepted, what a deduplicated enqueue points at, and
\* every task of the in-memory map has a row: a crash cannot lose it.
AcceptedIsDurable ==
  \A t \in Tasks :
    /\ enq[t] = "accepted" \/ mem[t] # "absent" => store[t] # "absent"
    /\ enq[t] = "merged" => alias[t] # t /\ KeyOf[alias[t]] = KeyOf[t]
                            /\ store[alias[t]] # "absent"

\* The daemon that is up knows every unfinished row, whatever it crashed in the
\* middle of, but for those an enqueue_direct is about to insert.
NoRowForgotten ==
  up => \A t \in Tasks : store[t] \in Pending => mem[t] # "absent" \/ enq[t] = "insert"

WorkedOn(t) == job.task = t /\ pc["worker"] \notin {"idle", "stopped"}

\* Every unfinished task, but those the shutdown suspended, is in the queue or in
\* the worker's hands. A store error can strand one (transition returns early, the
\* worker drops the task), so the bound on errors is part of the statement.
NoTaskStranded ==
  up /\ errors = 0 =>
    \A t \in Tasks : mem[t] \in {"queued", "dispatched", "running"} =>
                       t \in queue \/ WorkedOn(t)

\* With the worker alone the task manager keeps the contract: rows only go forward,
\* through crashes and re-runs, and the end a waiter is sent is in the row already.
Contract == INSTANCE TaskContract
  WITH row <- store, sent <- inbox, Unfinished <- Pending, Ended <- Terminal,
       Absent <- "absent", Nothing <- "none", Unknown <- "closed"

ImplementsContract == Contract!Spec

\* Between transitions the row of a task says what the map says.
RowsAgree ==
  up /\ errors = 0 /\ (\A th \in AllThreads : call[th].stage = "idle") =>
    \A t \in Tasks : mem[t] # "absent" => store[t] = mem[t]

\* No two loops have a row of the same task still to write: what the lock would give
\* if it were held until the row is written.
WritesApart ==
  \A th, x \in AllThreads :
    th # x /\ call[th].stage = "row" /\ call[x].stage = "row" => call[th].task # call[x].task

\* With all loops, and rows written apart, the looser contract: an end is never taken
\* back, but a loop that acts on what it saw before may put its own end in the place.
ImplementsLooseContract == Contract!LooseSpec

\* Two unfinished tasks never have the same idempotency key.
KeysAreUnique ==
  \A t, u \in Tasks :
    t # u /\ KeyOf[t] # NoKey /\ KeyOf[t] = KeyOf[u] =>
      ~(mem[t] \in Pending /\ mem[u] \in Pending)

\* No two enqueues with one key are between the first look at the map and the insertion:
\* what one lock around enqueue_direct would give.
EnqueuesApart ==
  \A t, u \in Tasks :
    t # u /\ KeyOf[t] # NoKey /\ KeyOf[t] = KeyOf[u] =>
      ~({enq[t], enq[u]} \subseteq {"lookup", "persist", "insert"})

\* While the agent's turn runs, the task has not been given an end.
NoTurnOfAnEndedTask ==
  pc["worker"] = "turn" => mem[job.task] \notin Terminal

\* A loop writes the row of task t now, of a transition it made before the task ended.
WrittenLate(t) ==
  /\ mem[t] \in Terminal
  /\ \E th \in AllThreads :
       /\ call[th].stage = "row" /\ call[th].task = t
       /\ call[th].to \in Pending /\ store'[t] = call[th].to

\* While the daemon runs a task that ended never becomes unfinished again, though
\* three loops move tasks from what they saw some steps ago; and a row that says a task
\* ended is made to say otherwise by one thing only, a row written late.
EndIsFinal ==
  [][/\ up => \A t \in Tasks : mem[t] \in Terminal /\ up' => mem'[t] \in Terminal
     /\ \A t \in Tasks : store[t] \in Terminal /\ store'[t] \notin Terminal => WrittenLate(t)]_vars

(* The inductive invariant behind AcceptedIsDurable, EveryWaiterIsServed and *)
(* EndIsFinal.                                                               *)

\* Where a task is known, by how far its enqueue_direct went.
EnqueueInv ==
  \A t \in Tasks :
    /\ enq[t] \notin {"accepted", "lost"} => mem[t] = "absent"
    /\ enq[t] \notin {"insert", "accepted", "lost"} => store[t] = "absent"
    /\ enq[t] \in {"insert", "accepted"} \/ mem[t] # "absent" => store[t] # "absent"
    /\ ~up => enq[t] \notin {"lookup", "persist", "insert"}

MergeInv ==
  \A t \in Tasks : enq[t] = "merged" => /\ alias[t] # t /\ KeyOf[alias[t]] = KeyOf[t]
                                        /\ store[alias[t]] # "absent"

\* A thread is in a call or not; what it moves is in the map.
CallInv ==
  \A th \in AllThreads :
    /\ call[th].stage = "idle" => call[th].woken = {}
    /\ call[th].stage # "idle" => mem[call[th].task] # "absent"

\* What the shutdown has listed was unfinished.
ListedUnfinished == \A c \in toSuspend : c[2] \in {"queued", "dispatched", "running"}

WaiterInv ==
  /\ EveryWaiterIsServed
  /\ ~up => \A a \in Awaiters : apc[a] \notin {"resolve", "wait"}

IInv == EnqueueInv /\ MergeInv /\ CallInv /\ ListedUnfinished /\ WaiterInv

\* A task in the tasks table is carried to its end, across crashes.
EveryTaskEnds == \A t \in Tasks : store[t] \in Pending ~> store[t] \in Terminal

\* A caller that awaits a task gets an answer although timeouts are not fair.
EveryWaiterIsAnswered ==
  \A a \in Awaiters : apc[a] \in {"resolve", "wait"} ~> apc[a] \in {"done", "gone"}

=============================================================================

------------------------------ MODULE Delegation ------------------------------
(***************************************************************************)
(* A delegation from the System0 turn that asks for it to the output the    *)
(* user pulls: the turn worker, delegate_to_agent, the task worker's run of *)
(* the task, the reports the agent sends meanwhile and the report worker.   *)
(*                                                                          *)
(* The broker's tables (runs, threads, active runs, delegations, outputs)   *)
(* are under one async mutex: an action is one of its critical sections.    *)
(* The task manager appears by what its calls do to one task; the thread of *)
(* a delegation has the state of its run and is not told apart from it.     *)
(***************************************************************************)
EXTENDS Naturals, Sequences, SequencesExt, FiniteSets, CircuitBreaker

CONSTANTS
  Turns,        \* requests of orchestrator.turn, numbered as they come
  Runs,         \* delegations (a task, its run and its thread), numbered likewise
  OutputCap,    \* OUTPUT_QUEUE_MAX_ITEMS
  ReportCap,    \* the capacity of the report channel
  MaxReports,   \* bound: reports before the last ones of a turn, in all
  MayCancel,    \* whether the watchdog may cancel a running task
  None

ASSUME DelegationAssumption ==
  /\ Turns \subseteq Nat /\ IsFiniteSet(Turns)
  /\ Runs \subseteq Nat /\ IsFiniteSet(Runs)
  /\ OutputCap \in Nat \ {0} /\ ReportCap \in Nat \ {0}
  /\ MaxReports \in Nat
  /\ MayCancel \in BOOLEAN
  /\ None \notin Turns \cup Runs

Final == {"completed", "failed"}
Ended == Final \cup {"cancelled"}

VARIABLES
  client,    \* the caller of turn(): new, waiting, answered, gone with an error
  turnQueue, \* the turn channel
  current,   \* the turn process_turn is in
  asked,     \* delegations_by_turn
  answer,    \* delegated_tasks of the result a client got
  dpc,       \* how far the delegate_to_agent call of each run is
  by,        \* the turn that made it
  task,      \* the state of each task
  heap,      \* the task queue
  breaker,   \* the circuit breaker of the agent
  wpc, wrun, \* where the task worker is, and with which run
  outcome,   \* how the agent's turn ended
  run,       \* runs_index, "none" for a run not in it
  active,    \* active_runs_by_run_id
  reports,   \* the report channel
  sent,      \* how many reports agents sent before their last ones
  outputs,   \* pending_output_queue
  pulled,    \* the outputs clients pulled, in order
  begun,     \* runs whose turn began
  late       \* runs recorded by delegate_to_agent after their turn ended

turnVars   == <<client, turnQueue, current, asked, answer>>
callVars   == <<dpc, by>>
taskVars   == <<task, heap, breaker>>
workerVars == <<wpc, wrun, outcome, sent, begun>>
runVars    == <<run, active, late>>
outVars    == <<outputs, pulled>>
vars == <<turnVars, callVars, taskVars, workerVars, runVars, reports, outVars>>

Init ==
  /\ client = [k \in Turns |-> "new"] /\ turnQueue = <<>> /\ current = None
  /\ asked = [k \in Turns |-> {}] /\ answer = [k \in Turns |-> {}]
  /\ dpc = [r \in Runs |-> "new"] /\ by = [r \in Runs |-> None]
  /\ task = [r \in Runs |-> "none"] /\ heap = <<>> /\ breaker = Closed
  /\ wpc = "idle" /\ wrun = None /\ outcome = "none" /\ sent = 0 /\ begun = {}
  /\ run = [r \in Runs |-> "none"] /\ active = {} /\ late = {}
  /\ reports = <<>> /\ outputs = <<>> /\ pulled = <<>>

-----------------------------------------------------------------------------
(* turn() and the turn worker, which takes one request after the other.    *)

ClientAsks(k) ==
  /\ client[k] = "new" /\ \A j \in Turns : j < k => client[j] # "new"
  /\ client' = [client EXCEPT ![k] = "waiting"]
  /\ turnQueue' = Append(turnQueue, k)
  /\ UNCHANGED <<current, asked, answer, callVars, taskVars, workerVars, runVars, reports, outVars>>

\* TURN_TIMEOUT elapses for the caller. The request stays queued, or the turn goes on.
ClientGivesUp(k) ==
  /\ client[k] = "waiting"
  /\ client' = [client EXCEPT ![k] = "gone"]
  /\ UNCHANGED <<turnQueue, current, asked, answer, callVars, taskVars, workerVars, runVars,
                 reports, outVars>>

\* set_turn_context.
TurnBegins ==
  /\ current = None /\ turnQueue # <<>>
  /\ current' = Head(turnQueue)
  /\ turnQueue' = Tail(turnQueue)
  /\ asked' = [asked EXCEPT ![Head(turnQueue)] = {}]
  /\ UNCHANGED <<client, answer, callVars, taskVars, workerVars, runVars, reports, outVars>>

InDelegate == \E r \in Runs : dpc[r] \in {"enqueue", "record"}

\* Mutant of Delegated: the delegations of every turn.
DelegatedByAny(k) == UNION {asked[j] : j \in Turns}

\* What take_delegations returns.
Delegated(k) == asked[k]

\* process_turn returns Ok: the delegations of the turn go to who still waits.
TurnEnds ==
  /\ current # None /\ ~InDelegate
  /\ IF client[current] = "waiting"
     THEN /\ client' = [client EXCEPT ![current] = "answered"]
          /\ answer' = [answer EXCEPT ![current] = Delegated(current)]
     ELSE UNCHANGED <<client, answer>>
  /\ asked' = [asked EXCEPT ![current] = {}]
  /\ current' = None
  /\ UNCHANGED <<turnQueue, callVars, taskVars, workerVars, runVars, reports, outVars>>

\* process_turn returns Err: nobody takes the delegations.
TurnFails ==
  /\ current # None /\ ~InDelegate
  /\ client' = [client EXCEPT ![current] = IF @ = "waiting" THEN "gone" ELSE @]
  /\ current' = None
  /\ UNCHANGED <<turnQueue, asked, answer, callVars, taskVars, workerVars, runVars, reports, outVars>>

-----------------------------------------------------------------------------
(* delegate_to_agent: the lock is released for enqueue_direct and taken     *)
(* again to record the run.                                                *)

Delegate(r) ==
  /\ current # None /\ ~InDelegate
  /\ dpc[r] = "new" /\ \A q \in Runs : q < r => dpc[q] # "new"
  /\ dpc' = [dpc EXCEPT ![r] = "enqueue"]
  /\ by' = [by EXCEPT ![r] = current]
  /\ UNCHANGED <<turnVars, taskVars, workerVars, runVars, reports, outVars>>

\* enqueue_direct, which an open breaker rejects.
DelegateEnqueues(r) ==
  /\ dpc[r] = "enqueue"
  /\ \/ /\ ~breaker.open
        /\ dpc' = [dpc EXCEPT ![r] = "record"]
        /\ task' = [task EXCEPT ![r] = "queued"]
        /\ heap' = Append(heap, r)
     \/ /\ breaker.open
        /\ dpc' = [dpc EXCEPT ![r] = "refused"]
        /\ UNCHANGED <<task, heap>>
  /\ UNCHANGED <<turnVars, by, breaker, workerVars, runVars, reports, outVars>>

\* Whatever the task worker did meanwhile, the run is "queued" and active.
DelegateRecords(r) ==
  /\ dpc[r] = "record"
  /\ dpc' = [dpc EXCEPT ![r] = "recorded"]
  /\ run' = [run EXCEPT ![r] = "queued"]
  /\ active' = active \cup {r}
  /\ late' = IF r \in begun /\ ~(wrun = r /\ wpc \in {"turn", "lost", "record"})
             THEN late \cup {r} ELSE late
  /\ asked' = [asked EXCEPT ![by[r]] = @ \cup {r}]
  /\ UNCHANGED <<client, turnQueue, current, answer, by, taskVars, workerVars, reports, outVars>>

-----------------------------------------------------------------------------
(* The task worker, and the agent whose turn it runs.                      *)

Takes(r) == wpc = "idle" /\ heap # <<>> /\ r = Head(heap) /\ heap' = Tail(heap)

\* An open breaker ends the task, and the run is not told.
WorkerBlocks(r) ==
  /\ Takes(r) /\ breaker.open
  /\ task' = [task EXCEPT ![r] = "failed"]
  /\ breaker' \in RecordFailure(breaker)
  /\ UNCHANGED <<turnVars, callVars, workerVars, runVars, reports, outVars>>

\* Dispatched and Running in the task manager; then the run, if it is recorded.
WorkerBegins(r) ==
  /\ Takes(r) /\ ~breaker.open
  /\ task' = [task EXCEPT ![r] = "running"]
  /\ run' = [run EXCEPT ![r] = IF @ = "none" THEN @ ELSE "running"]
  /\ begun' = begun \cup {r}
  /\ wpc' = "turn" /\ wrun' = r
  /\ UNCHANGED <<turnVars, callVars, breaker, outcome, sent, active, late, reports, outVars>>

\* send().await waits for room in the channel.
Report(kind) ==
  Len(reports) < ReportCap /\ reports' = Append(reports, [run |-> wrun, kind |-> kind])

\* A progress report, or a tool failure that may be retried.
AgentReports ==
  /\ wpc = "turn" /\ sent < MaxReports
  /\ Report("progress")
  /\ sent' = sent + 1
  /\ UNCHANGED <<turnVars, callVars, taskVars, wpc, wrun, outcome, begun, runVars, outVars>>

\* The iterations are used up (stuck), or the recovery from bad tool calls is
\* (toolFailed): the turn is lost, the last report still to be sent.
AgentIsLost ==
  /\ wpc = "turn"
  /\ \E kind \in {"stuck", "toolFailed"} : Report(kind)
  /\ wpc' = "lost"
  /\ UNCHANGED <<turnVars, callVars, taskVars, wrun, outcome, sent, begun, runVars, outVars>>

\* Mutant of AgentReturns: an Err without a last report, as in AgentRuntime::execute.
AgentReturnsSilently ==
  /\ wpc \in {"turn", "lost"}
  /\ \/ wpc = "turn" /\ outcome' = "completed" /\ Report("completed")
     \/ outcome' = "failed" /\ UNCHANGED reports
  /\ wpc' = "record"
  /\ UNCHANGED <<turnVars, callVars, taskVars, wrun, sent, begun, runVars, outVars>>

\* execute_turn_with_task_id sends one last report whatever it returns.
AgentReturns ==
  /\ wpc \in {"turn", "lost"}
  /\ \E result \in Final :
       /\ wpc = "lost" => result = "failed"
       /\ Report(result)
       /\ outcome' = result
  /\ wpc' = "record"
  /\ UNCHANGED <<turnVars, callVars, taskVars, wrun, sent, begun, runVars, outVars>>

\* Mutant of WorkerRecords: the output leaves before the task ends.
WorkerRecordsAndPublishes ==
  /\ wpc = "record"
  /\ run' = [run EXCEPT ![wrun] = outcome]
  /\ active' = active \ {wrun}
  /\ outputs' = Append(outputs, [run |-> wrun, state |-> outcome])
  /\ wpc' = "end"
  /\ UNCHANGED <<turnVars, callVars, taskVars, wrun, outcome, sent, begun, late, reports, pulled>>

\* The final state of the run, inserted if delegate_to_agent has not yet.
WorkerRecords ==
  /\ wpc = "record"
  /\ run' = [run EXCEPT ![wrun] = outcome]
  /\ active' = active \ {wrun}
  /\ wpc' = "end"
  /\ UNCHANGED <<turnVars, callVars, taskVars, wrun, outcome, sent, begun, late, reports, outVars>>

\* transition from running; a task that was cancelled stays so, and is only logged.
WorkerEndsTask ==
  /\ wpc = "end"
  /\ IF task[wrun] = "running"
     THEN /\ task' = [task EXCEPT ![wrun] = outcome]
          /\ IF outcome = "failed" THEN breaker' \in RecordFailure(breaker)
                                   ELSE breaker' = Closed
     ELSE UNCHANGED <<task, breaker>>
  /\ wpc' = "publish"
  /\ UNCHANGED <<turnVars, callVars, heap, wrun, outcome, sent, begun, runVars, reports, outVars>>

\* Mutants of Pushed: no cap, and at the cap the new output is dropped.
PushedWithoutCap(item) == Append(outputs, item)
PushedIfRoom(item) == IF Len(outputs) >= OutputCap THEN outputs ELSE Append(outputs, item)

\* RunTracker::push_output: at the cap the oldest output is dropped.
Pushed(item) == Append(IF Len(outputs) >= OutputCap THEN Tail(outputs) ELSE outputs, item)

WorkerPublishes ==
  /\ wpc = "publish"
  /\ outputs' = Pushed([run |-> wrun, state |-> outcome])
  /\ wpc' = "idle" /\ wrun' = None /\ outcome' = "none"
  /\ UNCHANGED <<turnVars, callVars, taskVars, sent, begun, runVars, reports, pulled>>

WorkerNext == \/ \E r \in Runs : WorkerBlocks(r) \/ WorkerBegins(r)
              \/ AgentReports \/ AgentIsLost
              \/ AgentReturns \/ WorkerRecords \/ WorkerEndsTask \/ WorkerPublishes

\* The watchdog cancels a task whose heartbeat is stale; its turn goes on.
WatchdogCancels(r) ==
  /\ MayCancel /\ task[r] = "running"
  /\ task' = [task EXCEPT ![r] = "cancelled"]
  /\ UNCHANGED <<turnVars, callVars, heap, breaker, workerVars, runVars, reports, outVars>>

-----------------------------------------------------------------------------
(* The report worker: ingest_subagent_report.                              *)

\* apply_report_to_run_locked.
AfterReport(kind) == CASE kind = "progress" -> "running"
                       [] kind = "completed" -> "completed"
                       [] OTHER -> "failed"

\* A run that is not in the index is left alone; reports that end a run make it
\* inactive, a tool failure does not.
ReportIngested ==
  /\ reports # <<>>
  /\ LET r    == Head(reports).run
         kind == Head(reports).kind
     IN  /\ run' = [run EXCEPT ![r] = IF @ = "none" THEN @ ELSE AfterReport(kind)]
         /\ active' = IF kind \in {"completed", "failed", "stuck"} THEN active \ {r} ELSE active
  /\ reports' = Tail(reports)
  /\ UNCHANGED <<turnVars, callVars, taskVars, workerVars, late, outVars>>

\* orchestrator.outputs.pull.
OutputsPulled ==
  /\ outputs # <<>>
  /\ \E n \in 1 .. Len(outputs) :
       /\ pulled' = pulled \o SubSeq(outputs, 1, n)
       /\ outputs' = SubSeq(outputs, n + 1, Len(outputs))
  /\ UNCHANGED <<turnVars, callVars, taskVars, workerVars, runVars, reports>>

-----------------------------------------------------------------------------

TurnNext == \/ \E k \in Turns : ClientAsks(k) \/ ClientGivesUp(k)
            \/ TurnBegins \/ TurnEnds \/ TurnFails

DelegateNext(r) == Delegate(r) \/ DelegateEnqueues(r) \/ DelegateRecords(r)

Next == \/ TurnNext
        \/ \E r \in Runs : DelegateNext(r) \/ WatchdogCancels(r)
        \/ WorkerNext
        \/ ReportIngested
        \/ OutputsPulled

Spec == Init /\ [][Next]_vars

\* A run the task worker has begun goes on, agents return and the report worker is
\* polled. Nothing else has to happen: System0 may hang, clients may never pull.
Fairness ==
  /\ WF_vars(AgentReturns \/ WorkerRecords \/ WorkerEndsTask \/ WorkerPublishes)
  /\ WF_vars(ReportIngested)

FairSpec == Spec /\ Fairness
-----------------------------------------------------------------------------

Items == [run : Runs, state : Final]
RunStates == {"none", "queued", "running"} \cup Final

TypeOK ==
  /\ client \in [Turns -> {"new", "waiting", "answered", "gone"}]
  /\ turnQueue \in Seq(Turns) /\ current \in Turns \cup {None}
  /\ asked \in [Turns -> SUBSET Runs] /\ answer \in [Turns -> SUBSET Runs]
  /\ dpc \in [Runs -> {"new", "enqueue", "record", "recorded", "refused"}]
  /\ by \in [Runs -> Turns \cup {None}]
  /\ task \in [Runs -> {"none", "queued", "running"} \cup Ended]
  /\ heap \in Seq(Runs) /\ breaker \in Breakers
  /\ wpc \in {"idle", "turn", "lost", "record", "end", "publish"}
  /\ wrun \in Runs \cup {None} /\ (wpc = "idle" <=> wrun = None)
  /\ outcome \in Final \cup {"none"} /\ sent \in 0 .. MaxReports /\ begun \subseteq Runs
  /\ run \in [Runs -> RunStates] /\ active \subseteq Runs /\ late \subseteq Runs
  /\ reports \in Seq([run : Runs, kind : {"progress", "stuck", "toolFailed"} \cup Final])
  /\ outputs \in Seq(Items) /\ Len(outputs) <= OutputCap /\ pulled \in Seq(Items)

\* Nothing more will happen to the record of run r.
Quiet(r) == dpc[r] = "recorded" /\ wrun # r /\ \A i \in 1 .. Len(reports) : reports[i].run # r

\* A run that is over stays over, whatever reports come in after its final record:
\* when nothing is under way for it, it is completed or failed and not active. The
\* exceptions are a task the open breaker ended, and a run that delegate_to_agent
\* recorded when the turn was over already.
QuietRunsAreFinal ==
  \A r \in Runs :
    Quiet(r) /\ r \in begun \ late => run[r] \in Final /\ r \notin active

\* Who pulls an output finds its task ended, and ended as the output says, unless
\* the watchdog had cancelled it; and no output is delivered twice.
OutputFollowsEnd ==
  LET all == pulled \o outputs
  IN  /\ \A item \in Range(all) : task[item.run] \in {item.state, "cancelled"}
      /\ \A i, j \in DOMAIN all : all[i].run = all[j].run => i = j

\* A client is told the delegations its own turn made, all of them and no other.
AnswersListOwn ==
  \A k \in Turns :
    client[k] = "answered" => answer[k] = {r \in Runs : by[r] = k /\ dpc[r] = "recorded"}

Published == {item.run : item \in Range(pulled) \cup Range(outputs)}

\* A turn the worker is in leads to an output a client can pull, even if the turn is
\* lost, the task cancelled or the caller gone.
EveryTurnIsPublished == \A r \in Runs : wrun = r ~> r \in Published

\* What queue_status says of a run agrees with the end of its task, when nothing is
\* under way for either.
RunEndsWithTask ==
  \A r \in Runs : Quiet(r) /\ r \notin late /\ task[r] \in Ended => run[r] \in Final
===============================================================================

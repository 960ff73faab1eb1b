------------------------------ MODULE Assistance ------------------------------
(***************************************************************************)
(* request_agent_assistance: an agent asks a peer, which runs as a child    *)
(* task of the one task worker, and waits for its result inside the tool    *)
(* call. Callers are tasks, which occupy the worker while they wait, and    *)
(* turns asked over the admin interface, which are not in the task table.   *)
(*                                                                          *)
(* The task table is TaskManager's, reduced to its states: all tasks have   *)
(* the same priority, so the heap is a queue. A waiting task is Running with *)
(* the execution state WaitingForInput.                                     *)
(***************************************************************************)
EXTENDS Naturals, Sequences, FiniteSets

CONSTANTS
  Roots,      \* tasks that System0 delegates
  AdminTurns, \* turns asked over the admin interface
  ChildOf,    \* [callers -> child tasks]
  Elapses,    \* bound: whether the timeouts of the waits ever elapse
  MaxRefusals,\* bound: enqueue_direct refusing a child
  MaxCancels, \* bound: cancellations by the watchdog
  NoCaller

Children == {ChildOf[c] : c \in DOMAIN ChildOf}
AllTasks == Roots \cup Children
Callers  == AllTasks \cup AdminTurns
Askers   == DOMAIN ChildOf

ASSUME AssistanceAssumption ==
  /\ Askers \subseteq Callers /\ NoCaller \notin Callers
  /\ Cardinality(Children) = Cardinality(Askers) /\ Children \cap Roots = {}
  /\ Elapses \in BOOLEAN /\ {MaxRefusals, MaxCancels} \subseteq Nat

VARIABLES
  tState,    \* the state of each task in the table
  taskQueue, \* the tasks waiting for the worker
  busy,      \* the task whose turn occupies the worker
  place,     \* where each caller is: idle, working, asking, awaiting, resuming, over
  answer,    \* what its request came to
  refusals, cancels

assistVars == <<tState, taskQueue, busy, place, answer, refusals, cancels>>

Ended == {"completed", "failed", "cancelled"}
IsRunning(t) == t \in AllTasks /\ tState[t] \in {"running", "waiting"}

AssistInit ==
  /\ tState = [t \in AllTasks |-> "absent"] /\ taskQueue = <<>> /\ busy = NoCaller
  /\ place = [c \in Callers |-> "idle"] /\ answer = [c \in Callers |-> "none"]
  /\ refusals = 0 /\ cancels = 0

\* transition(expected "running"): an error, for a task that is over or unknown, is logged.
Moves(c, state) == tState' = IF IsRunning(c) THEN [tState EXCEPT ![c] = state] ELSE tState
Goes(c, to) == place' = [place EXCEPT ![c] = to]

SubmitRoot(r) ==
  /\ tState[r] = "absent"
  /\ tState' = [tState EXCEPT ![r] = "queued"]
  /\ taskQueue' = Append(taskQueue, r)
  /\ UNCHANGED <<busy, place, answer, refusals, cancels>>

AdminTurnBegins(u) ==
  /\ place[u] = "idle"
  /\ Goes(u, "working")
  /\ UNCHANGED <<tState, taskQueue, busy, answer, refusals, cancels>>

WorkerIsFree == busy = NoCaller

\* spawn_task_worker takes the next task when the turn of the last has returned.
WorkerTakes ==
  /\ WorkerIsFree /\ taskQueue # <<>>
  /\ LET t == Head(taskQueue)
     IN  busy' = t /\ Goes(t, "working") /\ tState' = [tState EXCEPT ![t] = "running"]
  /\ taskQueue' = Tail(taskQueue)
  /\ UNCHANGED <<answer, refusals, cancels>>

\* The target is not among allowed_peer_agents: the call is denied.
AskDenied(c) ==
  /\ place[c] = "working" /\ answer[c] = "none"
  /\ answer' = [answer EXCEPT ![c] = "denied"]
  /\ UNCHANGED <<tState, taskQueue, busy, place, refusals, cancels>>

Ask(c) ==
  /\ place[c] = "working" /\ answer[c] = "none"
  /\ Moves(c, "waiting")
  /\ Goes(c, "asking")
  /\ UNCHANGED <<taskQueue, busy, answer, refusals, cancels>>

EnqueueChild(c) ==
  /\ place[c] = "asking"
  /\ tState' = [tState EXCEPT ![ChildOf[c]] = "queued"]
  /\ taskQueue' = Append(taskQueue, ChildOf[c])
  /\ Goes(c, "awaiting")
  /\ UNCHANGED <<busy, answer, refusals, cancels>>

\* An open breaker, a store error or a shutdown: `?` leaves the caller's task waiting.
ChildRefused(c) ==
  /\ place[c] = "asking" /\ refusals < MaxRefusals
  /\ refusals' = refusals + 1
  /\ answer' = [answer EXCEPT ![c] = "refused"]
  /\ Goes(c, "working")
  /\ UNCHANGED <<tState, taskQueue, busy, cancels>>

\* await_task_result: the end of the child is told to the caller.
ChildAnswers(c) ==
  /\ place[c] = "awaiting" /\ tState[ChildOf[c]] \in Ended
  /\ answer' = [answer EXCEPT
                  ![c] = IF tState[ChildOf[c]] = "completed" THEN "output" ELSE "error"]
  /\ Goes(c, "resuming")
  /\ UNCHANGED <<tState, taskQueue, busy, refusals, cancels>>

\* Mutant of MayElapse: the timeout is for turns outside the worker.
MayElapseOutside(c) == Elapses /\ busy # c

MayElapse(c) == Elapses

\* timeout_secs pass: the child stays where it is.
WaitElapses(c) ==
  /\ place[c] = "awaiting" /\ MayElapse(c)
  /\ answer' = [answer EXCEPT ![c] = "timeout"]
  /\ Goes(c, "resuming")
  /\ UNCHANGED <<tState, taskQueue, busy, refusals, cancels>>

\* Mutant of Resumes: the state of the caller is not put back.
ResumesWaiting(c) ==
  /\ place[c] = "resuming"
  /\ Goes(c, "working")
  /\ UNCHANGED <<tState, taskQueue, busy, answer, refusals, cancels>>

\* The caller is put back to Thinking before the result is looked at.
Resumes(c) ==
  /\ place[c] = "resuming"
  /\ Moves(c, "running")
  /\ Goes(c, "working")
  /\ UNCHANGED <<taskQueue, busy, answer, refusals, cancels>>

\* A caller that waits sends no report: after two heartbeat intervals (60 s, where the wait
\* may take 300 s) the watchdog cancels its task, and the turn goes on.
WatchdogCancels(t) ==
  /\ cancels < MaxCancels /\ IsRunning(t)
  /\ cancels' = cancels + 1
  /\ tState' = [tState EXCEPT ![t] = "cancelled"]
  /\ UNCHANGED <<taskQueue, busy, place, answer, refusals>>

TurnEnds(c, how) ==
  /\ place[c] = "working"
  /\ Goes(c, "over")
  /\ Moves(c, how)
  /\ busy' = IF busy = c THEN NoCaller ELSE busy
  /\ UNCHANGED <<taskQueue, answer, refusals, cancels>>

Answering(c) == ChildAnswers(c) \/ WaitElapses(c)
Ending(c) == \E how \in {"completed", "failed"} : TurnEnds(c, how)

AssistNext ==
  \/ \E r \in Roots : SubmitRoot(r)
  \/ \E u \in AdminTurns : AdminTurnBegins(u)
  \/ WorkerTakes
  \/ \E c \in Askers : \/ AskDenied(c) \/ Ask(c) \/ EnqueueChild(c) \/ ChildRefused(c)
                       \/ Answering(c) \/ Resumes(c)
  \/ \E t \in AllTasks : WatchdogCancels(t)
  \/ \E c \in Callers : Ending(c)

\* tokio runs what is ready, an agent's turn ends (its budget is finite and the calls of the
\* model time out), and a timeout that may elapse does.
AssistFairness ==
  /\ WF_assistVars(WorkerTakes)
  /\ \A c \in Askers : /\ WF_assistVars(EnqueueChild(c) \/ ChildRefused(c))
                       /\ WF_assistVars(Answering(c))
                       /\ WF_assistVars(Resumes(c))
  /\ \A c \in Callers : WF_assistVars(Ending(c))

AssistSpec == AssistInit /\ [][AssistNext]_assistVars /\ AssistFairness

-----------------------------------------------------------------------------
AssistTypeOK ==
  /\ tState \in [AllTasks -> {"absent", "queued", "running", "waiting"} \cup Ended]
  /\ busy \in AllTasks \cup {NoCaller}
  /\ place \in [Callers -> {"idle", "working", "asking", "awaiting", "resuming", "over"}]
  /\ answer \in [Callers -> {"none", "denied", "refused", "output", "error", "timeout"}]
  /\ refusals \in 0..MaxRefusals /\ cancels \in 0..MaxCancels

\* A task shows WaitingForInput only while its request is under way, whatever the end of
\* the wait, the cancellations and the children of children; but a refused child leaves
\* its caller waiting until the turn ends (the early return of enqueue_direct's error).
WaitingIsAsking ==
  \A t \in AllTasks : tState[t] = "waiting" =>
    place[t] \in {"asking", "awaiting", "resuming"} \/ answer[t] = "refused"

\* Every request ends, by the timeout if by nothing else, and every child that was queued
\* is run to an end, even when its caller has long given up.
RequestsEnd ==
  /\ \A c \in Askers : (place[c] = "awaiting") ~> (place[c] = "over")
  /\ \A t \in Children : (tState[t] = "queued") ~> (tState[t] \in Ended)

\* What the design promises: an agent that asks a peer receives its result inline.
ResultIsInline ==
  \A c \in Askers : (place[c] = "awaiting") ~> (answer[c] \in {"output", "error"})
==============================================================================

--------------------------- MODULE DelegationProofs ---------------------------
(* Theorems about Delegation, for any turns, runs, capacities and settings.     *)
EXTENDS Delegation, TLAPS

Kinds == {"progress", "stuck", "toolFailed"} \cup Final
Reports == [run : Runs, kind : Kinds]

Types ==
  /\ TypeOK
  /\ wpc \in {"record", "end", "publish"} => outcome \in Final

\* The turns: one that is queued or under way has no answer yet, delegations are of
\* the turn under way, and of no turn that has not begun.
TurnInv ==
  /\ \A i \in DOMAIN turnQueue :
       /\ client[turnQueue[i]] \in {"waiting", "gone"} /\ turnQueue[i] # current
       /\ \A j \in DOMAIN turnQueue : turnQueue[i] = turnQueue[j] => i = j
       /\ \A r \in Runs : by[r] # turnQueue[i]
  /\ \A k \in Turns : client[k] = "new" => \A r \in Runs : by[r] # k
  /\ current # None =>
       /\ client[current] \in {"waiting", "gone"}
       /\ asked[current] = {r \in Runs : by[r] = current /\ dpc[r] = "recorded"}
  /\ \A r \in Runs : dpc[r] \in {"enqueue", "record"} => current # None /\ by[r] = current

\* A task is queued once, and what has been taken is neither queued nor new.
TaskInv ==
  /\ \A r \in Runs : dpc[r] \in {"new", "enqueue"} => task[r] = "none"
  /\ \A i \in DOMAIN heap :
       /\ task[heap[i]] = "queued"
       /\ \A j \in DOMAIN heap : heap[i] = heap[j] => i = j
  /\ wpc \in {"turn", "lost", "record", "end"} => task[wrun] \in {"running", "cancelled"}
  /\ wpc = "publish" => task[wrun] \in {outcome, "cancelled"}

\* Outputs say how their tasks ended, each run has one, and the run the worker is in has
\* none yet.
Told(items) ==
  \A i \in DOMAIN items :
    /\ task[items[i].run] \in {items[i].state, "cancelled"}
    /\ items[i].run # wrun
    /\ \A j \in DOMAIN items : items[i].run = items[j].run => i = j

OutInv ==
  /\ Told(pulled) /\ Told(outputs)
  /\ \A i \in DOMAIN pulled, j \in DOMAIN outputs : pulled[i].run # outputs[j].run

\* After a report that ends nothing, another is to come while its turn goes on, or is
\* in the channel already.
LastReportEnds ==
  \A i \in DOMAIN reports :
    \/ reports[i].kind \in Final
    \/ \E j \in DOMAIN reports : j > i /\ reports[j].run = reports[i].run /\ reports[j].kind \in Final
    \/ wpc \in {"turn", "lost"} /\ wrun = reports[i].run

\* The runs whose final record the worker has made.
Recorded(r) ==
  dpc[r] = "recorded" /\ r \in begun \ late /\ ~(wrun = r /\ wpc \in {"turn", "lost", "record"})

Unreported(r) == \A i \in DOMAIN reports : reports[i].run # r

RunInv ==
  /\ LastReportEnds
  /\ \A r \in Runs : dpc[r] = "recorded" => run[r] # "none"
  /\ \A r \in Runs : Recorded(r) /\ Unreported(r) => run[r] \in Final /\ r \notin active

IInv == Types /\ TurnInv /\ AnswersListOwn /\ TaskInv /\ OutInv /\ RunInv

-----------------------------------------------------------------------------
\* The invariant holds at the start.
LEMMA InitOK == Init => IInv
<1> SUFFICES ASSUME Init PROVE IInv
  OBVIOUS
<1> USE DEF Init
<1>1. Closed \in Breakers
  BY ThresholdAssumption DEF Closed, Breakers
<1>2. Types
  BY <1>1, DelegationAssumption DEF Types, TypeOK, RunStates
<1>3. TurnInv /\ AnswersListOwn
  BY DelegationAssumption DEF TurnInv, AnswersListOwn
<1>4. TaskInv
  BY DEF TaskInv
<1>5. OutInv
  BY DEF OutInv, Told
<1>6. RunInv
  BY DEF RunInv, LastReportEnds, Recorded
<1> QED BY <1>2, <1>3, <1>4, <1>5, <1>6 DEF IInv

-----------------------------------------------------------------------------
(* The turns and their delegations.                                        *)

\* The steps that touch neither.
TurnsIdle == WorkerNext \/ (\E r \in Runs : WatchdogCancels(r)) \/ ReportIngested \/ OutputsPulled
             \/ UNCHANGED vars

\* Every step keeps what is known of the turns and their clients.
LEMMA TurnsOK ==
  ASSUME IInv, [Next]_vars
  PROVE  TurnInv' /\ AnswersListOwn'
<1> USE DEF IInv, TurnInv, AnswersListOwn
<1>0. /\ client \in [Turns -> {"new", "waiting", "answered", "gone"}]
      /\ turnQueue \in Seq(Turns) /\ current \in Turns \cup {None}
      /\ asked \in [Turns -> SUBSET Runs] /\ answer \in [Turns -> SUBSET Runs]
      /\ dpc \in [Runs -> {"new", "enqueue", "record", "recorded", "refused"}]
      /\ by \in [Runs -> Turns \cup {None}] /\ None \notin Turns
  BY DelegationAssumption DEF Types, TypeOK
<1>1. ASSUME NEW k \in Turns, ClientAsks(k) PROVE TurnInv' /\ AnswersListOwn'
  <2> USE <1>0, <1>1 DEF ClientAsks, callVars
  <2>1. /\ client[k] = "new" /\ client' = [client EXCEPT ![k] = "waiting"]
        /\ turnQueue' = Append(turnQueue, k)
        /\ UNCHANGED <<current, asked, answer, dpc, by>>
    OBVIOUS
  <2>2. AnswersListOwn'
    BY <2>1
  <2>3. \A i \in DOMAIN turnQueue : turnQueue[i] # k /\ turnQueue[i] \in Turns
    OBVIOUS
  <2>4. TurnInv'
    BY <2>1, <2>3
  <2> QED BY <2>2, <2>4
<1>2. ASSUME NEW k \in Turns, ClientGivesUp(k) PROVE TurnInv' /\ AnswersListOwn'
  BY <1>0, <1>2 DEF ClientGivesUp, callVars
<1>3. CASE TurnBegins
  <2> USE <1>0, <1>3 DEF TurnBegins, callVars
  <2>1. /\ current = None /\ turnQueue # <<>> /\ current' = turnQueue[1]
        /\ turnQueue' = Tail(turnQueue) /\ asked' = [asked EXCEPT ![turnQueue[1]] = {}]
        /\ UNCHANGED <<client, answer, dpc, by>>
    OBVIOUS
  <2>2. turnQueue[1] \in Turns /\ 1 \in DOMAIN turnQueue
    BY <2>1
  <2>3. \A i \in DOMAIN turnQueue' : i + 1 \in DOMAIN turnQueue /\ turnQueue'[i] = turnQueue[i + 1]
    BY <2>1
  <2>4. AnswersListOwn'
    BY <2>1
  <2>5. \A i \in DOMAIN turnQueue' :
          /\ client[turnQueue'[i]] \in {"waiting", "gone"} /\ turnQueue'[i] # current'
          /\ \A j \in DOMAIN turnQueue' : turnQueue'[i] = turnQueue'[j] => i = j
          /\ \A r \in Runs : by[r] # turnQueue'[i]
    <3> TAKE i \in DOMAIN turnQueue'
    <3>1. i \in Nat /\ i + 1 # 1
      BY <2>1
    <3>2. turnQueue'[i] # current'
      BY <2>1, <2>2, <2>3, <3>1
    <3>3. \A j \in DOMAIN turnQueue' : turnQueue'[i] = turnQueue'[j] => i = j
      BY <2>1, <2>3
    <3> QED BY <2>3, <3>2, <3>3
  <2>6. TurnInv'
    BY <2>1, <2>2, <2>5
  <2> QED BY <2>4, <2>6
<1>4. CASE TurnEnds
  <2> USE <1>0, <1>4 DEF TurnEnds, callVars, Delegated, InDelegate
  <2>1. /\ current \in Turns /\ current' = None /\ UNCHANGED <<turnQueue, dpc, by>>
        /\ client' = [client EXCEPT ![current] = IF @ = "waiting" THEN "answered" ELSE @]
        /\ answer' = [answer EXCEPT ![current] = IF client[current] = "waiting"
                                                 THEN asked[current] ELSE @]
        /\ asked' = [asked EXCEPT ![current] = {}]
        /\ \A r \in Runs : dpc[r] \notin {"enqueue", "record"}
    OBVIOUS
  <2> QED BY <2>1
<1>5. CASE TurnFails
  BY <1>0, <1>5 DEF TurnFails, callVars, InDelegate
<1>6. ASSUME NEW r \in Runs, Delegate(r) PROVE TurnInv' /\ AnswersListOwn'
  BY <1>0, <1>6 DEF Delegate, turnVars, InDelegate
<1>7. ASSUME NEW r \in Runs, DelegateEnqueues(r) PROVE TurnInv' /\ AnswersListOwn'
  BY <1>0, <1>7 DEF DelegateEnqueues, turnVars
<1>8. ASSUME NEW r \in Runs, DelegateRecords(r) PROVE TurnInv' /\ AnswersListOwn'
  BY <1>0, <1>8 DEF DelegateRecords
<1>9. CASE TurnsIdle
  <2>1. UNCHANGED <<turnVars, callVars>>
    BY <1>9 DEF TurnsIdle, WorkerNext, WorkerBlocks, WorkerBegins, AgentReports, AgentIsLost,
                AgentReturns, WorkerRecords, WorkerEndsTask, WorkerPublishes, WatchdogCancels,
                ReportIngested, OutputsPulled, vars
  <2> QED BY <2>1 DEF turnVars, callVars
<1> QED BY <1>1, <1>2, <1>3, <1>4, <1>5, <1>6, <1>7, <1>8, <1>9
           DEF Next, TurnNext, DelegateNext, TurnsIdle

-----------------------------------------------------------------------------
(* Typing.                                                                 *)

\* A failure leaves a breaker a breaker, and a closed breaker is one.
LEMMA BreakerOK ==
  ASSUME NEW b \in Breakers
  PROVE  RecordFailure(b) \subseteq Breakers /\ Closed \in Breakers
<1>1. ASSUME NEW k \in 0 .. (IF b.recent < Threshold THEN b.recent ELSE Threshold - 1)
      PROVE  [recent |-> k + 1, open |-> b.open \/ k + 1 >= Threshold] \in Breakers
  BY ThresholdAssumption DEF Breakers
<1>2. Closed \in Breakers
  BY ThresholdAssumption DEF Closed, Breakers
<1> QED BY <1>1, <1>2 DEF RecordFailure

\* What a queue is after something was appended.
LEMMA AppendFacts ==
  ASSUME NEW S, NEW s \in Seq(S), NEW x \in S, NEW t, t = Append(s, x)
  PROVE  /\ t \in Seq(S)
         /\ \A i \in DOMAIN t : \/ i \in DOMAIN s /\ t[i] = s[i]
                                \/ i = Len(s) + 1 /\ i \notin DOMAIN s /\ t[i] = x
<1>1. t \in Seq(S) /\ Len(t) = Len(s) + 1 /\ t[Len(s) + 1] = x
  OBVIOUS
<1>2. \A i \in 1 .. Len(s) : t[i] = s[i]
  OBVIOUS
<1>3. DOMAIN t = 1 .. Len(s) + 1 /\ DOMAIN s = 1 .. Len(s) /\ Len(s) \in Nat
  BY <1>1
<1>4. ASSUME NEW n \in Nat, NEW i \in 1 .. n + 1
      PROVE  i \in 1 .. n \/ (i = n + 1 /\ i \notin 1 .. n)
  OBVIOUS
<1>5. \A i \in DOMAIN t : \/ i \in DOMAIN s /\ t[i] = s[i]
                          \/ i = Len(s) + 1 /\ i \notin DOMAIN s /\ t[i] = x
  <2> TAKE i \in DOMAIN t
  <2>1. i \in 1 .. Len(s) \/ (i = Len(s) + 1 /\ i \notin 1 .. Len(s))
    BY <1>3, <1>4
  <2> QED BY <1>1, <1>2, <1>3, <2>1, Zenon
<1> QED BY <1>1, <1>5, Zenon

\* A report of the run the worker is in.
LEMMA ReportType ==
  ASSUME TypeOK, wpc # "idle", NEW kind \in Kinds, Report(kind)
  PROVE  /\ reports' = Append(reports, [run |-> wrun, kind |-> kind])
         /\ reports' \in Seq(Reports) /\ wrun \in Runs
  BY DEF TypeOK, Report, Reports, Kinds

\* Every step keeps the types of the queues, runs and outputs.
LEMMA TypesOK ==
  ASSUME IInv, [Next]_vars
  PROVE  Types'
<1> USE DEF IInv, Types, TypeOK
<1>t. \A r \in Runs : r # None
  BY DelegationAssumption
<1>0. CASE UNCHANGED vars
  BY <1>0 DEF vars, turnVars, callVars, taskVars, workerVars, runVars, outVars
<1> USE DEF turnVars, callVars, taskVars, workerVars, runVars, outVars
<1>1. CASE TurnNext
  <2>0. ASSUME NEW k \in Turns, ClientAsks(k) PROVE Types'
    <3>1. turnQueue' \in Seq(Turns)
      BY <2>0 DEF ClientAsks
    <3>2. client' \in [Turns -> {"new", "waiting", "answered", "gone"}]
      BY <2>0 DEF ClientAsks
    <3> QED BY <2>0, <3>1, <3>2 DEF ClientAsks
  <2>1. ASSUME NEW k \in Turns, ClientGivesUp(k) PROVE Types'
    BY <2>1 DEF ClientGivesUp
  <2>2. CASE TurnBegins
    BY <2>2 DEF TurnBegins
  <2>3. CASE TurnEnds
    BY <2>3 DEF TurnEnds, Delegated
  <2>4. CASE TurnFails
    BY <2>4 DEF TurnFails
  <2> QED BY <1>1, <2>0, <2>1, <2>2, <2>3, <2>4 DEF TurnNext
<1>2. ASSUME NEW r \in Runs, DelegateNext(r) PROVE Types'
  <2>1. CASE Delegate(r)
    BY <2>1 DEF Delegate
  <2>2. CASE DelegateEnqueues(r)
    <3>0. heap \in Seq(Runs) /\ heap' \in {heap, Append(heap, r)}
      BY <2>2 DEF DelegateEnqueues
    <3>1. heap' \in Seq(Runs)
      <4> HIDE DEF IInv, Types, TypeOK
      <4>1. Append(heap, r) \in Seq(Runs)
        BY <3>0, <1>2, AppendFacts
      <4> QED BY <3>0, <4>1
    <3>2. task' \in [Runs -> {"none", "queued", "running"} \cup Ended]
      BY <2>2 DEF DelegateEnqueues
    <3> QED BY <2>2, <3>1, <3>2 DEF DelegateEnqueues
  <2>3. CASE DelegateRecords(r)
    <3>1. by[r] \in Turns
      BY <2>3 DEF DelegateRecords, TurnInv
    <3>2. asked' \in [Turns -> SUBSET Runs]
      BY <2>3, <3>1 DEF DelegateRecords
    <3>3. run' \in [Runs -> RunStates]
      BY <2>3 DEF DelegateRecords, RunStates
    <3>4. late' \subseteq Runs
      BY <2>3 DEF DelegateRecords
    <3> QED BY <2>3, <3>2, <3>3, <3>4 DEF DelegateRecords
  <2> QED BY <1>2, <2>1, <2>2, <2>3 DEF DelegateNext
<1>3. ASSUME NEW r \in Runs, WatchdogCancels(r) PROVE Types'
  BY <1>3 DEF WatchdogCancels, Ended
<1>4. ASSUME NEW r \in Runs, WorkerBlocks(r) PROVE Types'
  <2>1. breaker' \in Breakers
    BY <1>4, BreakerOK DEF WorkerBlocks
  <2> QED BY <1>4, <2>1 DEF WorkerBlocks, Takes, Ended, Final
<1>5. ASSUME NEW r \in Runs, WorkerBegins(r) PROVE Types'
  <2>1. run' \in [Runs -> RunStates]
    BY <1>5 DEF WorkerBegins, RunStates
  <2>2. heap' \in Seq(Runs)
    BY <1>5 DEF WorkerBegins, Takes
  <2> QED BY <1>5, <1>t, <2>1, <2>2 DEF WorkerBegins
<1>6. CASE AgentReports
  <2>1. reports' \in Seq(Reports)
    BY <1>6, ReportType DEF AgentReports, Kinds
  <2>2. sent' \in 0 .. MaxReports
    BY <1>6, DelegationAssumption DEF AgentReports
  <2> QED BY <1>6, <2>1, <2>2 DEF AgentReports, Reports, Kinds
<1>7. CASE AgentIsLost
  <2>1. reports' \in Seq(Reports)
    BY <1>7, ReportType DEF AgentIsLost, Kinds
  <2> QED BY <1>7, <2>1 DEF AgentIsLost, Reports, Kinds
<1>8. CASE AgentReturns
  <2>1. reports' \in Seq(Reports) /\ outcome' \in Final
    BY <1>8, ReportType DEF AgentReturns, Kinds
  <2> QED BY <1>8, <2>1 DEF AgentReturns, Reports, Kinds
<1>9. CASE WorkerRecords
  <2>1. run' \in [Runs -> RunStates]
    BY <1>9 DEF WorkerRecords, RunStates
  <2> QED BY <1>9, <2>1 DEF WorkerRecords
<1>10. CASE WorkerEndsTask
  <2>1. breaker' \in Breakers
    BY <1>10, BreakerOK DEF WorkerEndsTask
  <2>2. task' \in [Runs -> {"none", "queued", "running"} \cup Ended]
    BY <1>10 DEF WorkerEndsTask, Ended
  <2> QED BY <1>10, <2>1, <2>2 DEF WorkerEndsTask
<1>11. CASE WorkerPublishes
  <2>1. [run |-> wrun, state |-> outcome] \in Items
    BY <1>11 DEF WorkerPublishes, Items
  <2>2. outputs' \in Seq(Items) /\ Len(outputs') <= OutputCap
    BY <1>11, <2>1, DelegationAssumption DEF WorkerPublishes, Pushed
  <2> QED BY <1>11, <2>2 DEF WorkerPublishes
<1>12. CASE ReportIngested
  <2>0. reports \in Seq(Reports) /\ reports # <<>> /\ reports' = Tail(reports)
    BY <1>12 DEF ReportIngested, Reports, Kinds
  <2>1. Head(reports).run \in Runs /\ Head(reports).kind \in Kinds /\ reports' \in Seq(Reports)
    <3>1. Head(reports) \in Reports /\ reports' \in Seq(Reports)
      BY <2>0
    <3> QED BY <3>1 DEF Reports
  <2>2. AfterReport(Head(reports).kind) \in RunStates
    BY <2>1 DEF AfterReport, RunStates, Final
  <2>3. run' \in [Runs -> RunStates] /\ active' \subseteq Runs
    BY <1>12, <2>1, <2>2 DEF ReportIngested
  <2> QED BY <1>12, <2>1, <2>3 DEF ReportIngested, Reports, Kinds
<1>13. CASE OutputsPulled
  <2>1. PICK n \in 1 .. Len(outputs) :
          /\ pulled' = pulled \o SubSeq(outputs, 1, n)
          /\ outputs' = SubSeq(outputs, n + 1, Len(outputs))
    BY <1>13 DEF OutputsPulled
  <2>2. SubSeq(outputs, 1, n) \in Seq(Items)
    BY <2>1
  <2>3. outputs' \in Seq(Items) /\ Len(outputs') <= Len(outputs)
    BY <2>1
  <2>4. pulled' \in Seq(Items)
    BY <2>1, <2>2
  <2>5. Len(outputs') <= OutputCap
    BY <2>3, DelegationAssumption
  <2> QED BY <1>13, <2>3, <2>4, <2>5 DEF OutputsPulled
<1> QED BY <1>0, <1>1, <1>2, <1>3, <1>4, <1>5, <1>6, <1>7, <1>8, <1>9, <1>10, <1>11, <1>12, <1>13
           DEF Next, WorkerNext

-----------------------------------------------------------------------------
(* The tasks.                                                              *)

\* Every step keeps what is known of the tasks and their worker.
LEMMA TasksOK ==
  ASSUME IInv, [Next]_vars
  PROVE  TaskInv'
<1> USE DEF TaskInv
<1>0. /\ dpc \in [Runs -> {"new", "enqueue", "record", "recorded", "refused"}]
      /\ task \in [Runs -> {"none", "queued", "running"} \cup Ended] /\ heap \in Seq(Runs)
      /\ wrun \in Runs \cup {None} /\ (wpc = "idle" <=> wrun = None) /\ TaskInv
      /\ wpc \in {"idle", "turn", "lost", "record", "end", "publish"} /\ outcome \in Final \cup {"none"}
      /\ wpc \in {"record", "end", "publish"} => outcome \in Final
  BY DEF IInv, Types, TypeOK
<1>1. ASSUME NEW r \in Runs, Delegate(r) PROVE TaskInv'
  BY <1>0, <1>1 DEF Delegate, taskVars, workerVars
<1>2. ASSUME NEW r \in Runs, DelegateEnqueues(r) PROVE TaskInv'
  <2>1. \A i \in DOMAIN heap : heap[i] \in Runs /\ heap[i] # r
    BY <1>0, <1>2 DEF DelegateEnqueues
  <2>2. /\ task[r] = "none" /\ dpc[r] = "enqueue" /\ UNCHANGED <<wpc, wrun, outcome>>
        /\ \/ /\ dpc' = [dpc EXCEPT ![r] = "record"] /\ task' = [task EXCEPT ![r] = "queued"]
              /\ heap' = Append(heap, r)
           \/ dpc' = [dpc EXCEPT ![r] = "refused"] /\ UNCHANGED <<task, heap>>
    BY <1>0, <1>2 DEF DelegateEnqueues, workerVars
  <2>3. \A i \in DOMAIN heap' :
          /\ task'[heap'[i]] = "queued"
          /\ \A j \in DOMAIN heap' : heap'[i] = heap'[j] => i = j
    <3>1. CASE heap' = heap /\ task' = task
      BY <1>0, <3>1
    <3>2. CASE heap' = Append(heap, r) /\ task' = [task EXCEPT ![r] = "queued"]
      <4>1. \A i \in DOMAIN heap' :
              \/ i \in DOMAIN heap /\ heap'[i] = heap[i]
              \/ i = Len(heap) + 1 /\ i \notin DOMAIN heap /\ heap'[i] = r
        <5>1. heap \in Seq(Runs) /\ r \in Runs
          BY <1>0, <1>2
        <5> QED BY <5>1, <3>2, AppendFacts
      <4>2. \A i \in DOMAIN heap' : task'[heap'[i]] = "queued"
        BY <1>0, <2>1, <3>2, <4>1
      <4>3. \A i, j \in DOMAIN heap' : heap'[i] = heap'[j] => i = j
        BY <1>0, <2>1, <4>1
      <4> QED BY <4>2, <4>3
    <3> QED BY <2>2, <3>1, <3>2
  <2>4. wrun \in Runs => task'[wrun] = task[wrun] \/ (wrun = r /\ task[wrun] = "none")
    BY <1>0, <2>2
  <2>5. \A q \in Runs : dpc'[q] \in {"new", "enqueue"} => task'[q] = "none"
    BY <1>0, <2>2
  <2> QED BY <1>0, <2>2, <2>3, <2>4, <2>5 DEF Final
<1>3. ASSUME NEW r \in Runs, DelegateRecords(r) PROVE TaskInv'
  BY <1>0, <1>3 DEF DelegateRecords, taskVars, workerVars
<1>4. ASSUME NEW r \in Runs, WorkerBlocks(r) \/ WorkerBegins(r) PROVE TaskInv'
  <2>1. /\ wpc = "idle" /\ heap # <<>> /\ r = heap[1] /\ heap' = Tail(heap) /\ task[r] = "queued"
        /\ task' = [task EXCEPT ![r] = IF wpc' = "idle" THEN "failed" ELSE "running"]
        /\ wpc' = "idle" \/ (wpc' = "turn" /\ wrun' = r)
        /\ UNCHANGED dpc
    BY <1>0, <1>4 DEF WorkerBlocks, WorkerBegins, Takes, callVars, workerVars
  <2>2. \A i \in DOMAIN heap' : /\ i + 1 \in DOMAIN heap /\ heap'[i] = heap[i + 1]
                                /\ heap'[i] # r /\ heap'[i] \in Runs
    BY <1>0, <2>1
  <2>3. \A i \in DOMAIN heap' :
          /\ task'[heap'[i]] = "queued"
          /\ \A j \in DOMAIN heap' : heap'[i] = heap'[j] => i = j
    BY <1>0, <2>1, <2>2
  <2> QED BY <1>0, <2>1, <2>3
<1>5. CASE AgentReports
  BY <1>0, <1>5 DEF AgentReports, taskVars, callVars
<1>6. CASE AgentIsLost \/ AgentReturns
  BY <1>0, <1>6 DEF AgentIsLost, AgentReturns, taskVars, callVars
<1>7. CASE WorkerRecords
  BY <1>0, <1>7 DEF WorkerRecords, taskVars, callVars
<1>8. CASE WorkerEndsTask
  <2>1. wrun \in Runs /\ task[wrun] \in {"running", "cancelled"} /\ wpc' = "publish"
        /\ UNCHANGED <<heap, wrun, outcome, dpc>>
        /\ task' = [task EXCEPT ![wrun] = IF @ = "running" THEN outcome ELSE @]
    BY <1>0, <1>8 DEF WorkerEndsTask, callVars
  <2> QED BY <1>0, <2>1
<1>9. CASE WorkerPublishes
  BY <1>0, <1>9 DEF WorkerPublishes, taskVars, callVars
<1>10. ASSUME NEW r \in Runs, WatchdogCancels(r) PROVE TaskInv'
  BY <1>0, <1>10 DEF WatchdogCancels, callVars, workerVars, Final
<1>11. CASE TurnNext \/ ReportIngested \/ OutputsPulled \/ UNCHANGED vars
  <2>1. UNCHANGED <<callVars, taskVars, workerVars>>
    BY <1>11 DEF TurnNext, ClientAsks, ClientGivesUp, TurnBegins, TurnEnds, TurnFails, ReportIngested,
                 OutputsPulled, vars
  <2> QED BY <1>0, <2>1 DEF callVars, taskVars, workerVars
<1> QED BY <1>1, <1>2, <1>3, <1>4, <1>5, <1>6, <1>7, <1>8, <1>9, <1>10, <1>11
           DEF Next, DelegateNext, WorkerNext

-----------------------------------------------------------------------------
(* The outputs.                                                            *)

\* What Head and Tail give.
LEMMA TailFacts ==
  ASSUME NEW S, NEW s \in Seq(S), s # <<>>
  PROVE  /\ Tail(s) \in Seq(S)
         /\ \A i \in DOMAIN Tail(s) : i + 1 \in DOMAIN s /\ Tail(s)[i] = s[i + 1]
  OBVIOUS

\* What \o gives.
LEMMA ConcatFacts ==
  ASSUME NEW S, NEW s \in Seq(S), NEW t \in Seq(S)
  PROVE  \A i \in DOMAIN (s \o t) :
           \/ i \in DOMAIN s /\ (s \o t)[i] = s[i]
           \/ i - Len(s) \in DOMAIN t /\ (s \o t)[i] = t[i - Len(s)]
  OBVIOUS

\* What SubSeq gives.
LEMMA SubSeqFacts ==
  ASSUME NEW S, NEW s \in Seq(S), NEW m \in 1 .. Len(s) + 1, NEW n \in 0 .. Len(s)
  PROVE  /\ SubSeq(s, m, n) \in Seq(S)
         /\ \A i \in DOMAIN SubSeq(s, m, n) :
              /\ i \in Nat /\ i + m - 1 \in DOMAIN s /\ i + m - 1 \in m .. n
              /\ SubSeq(s, m, n)[i] = s[i + m - 1]
  OBVIOUS

\* Outputs of an ended run do not change when the task of another does.
LEMMA ToldStays ==
  ASSUME NEW items \in Seq(Items), Told(items),
         task \in [Runs -> {"none", "queued", "running"} \cup Ended],
         NEW r \in Runs, task[r] \notin Ended \/ r = wrun, NEW s,
         task' = [task EXCEPT ![r] = s],
         wrun' = wrun \/ (wrun' = r /\ task[r] \notin Ended)
  PROVE  \A i \in DOMAIN items :
           /\ task'[items[i].run] \in {items[i].state, "cancelled"}
           /\ items[i].run # wrun'
<1> TAKE i \in DOMAIN items
<1>1. items[i] \in Items
  OBVIOUS
<1>2. items[i].run \in Runs /\ items[i].state \in Final
  BY <1>1 DEF Items
<1>3. task[items[i].run] \in Ended
  BY <1>2 DEF Told, Ended
<1>4. items[i].run # r
  BY <1>3 DEF Told
<1> QED BY <1>2, <1>4 DEF Told

\* Every step keeps what is known of the outputs, pulled and pending.
LEMMA OutputsOK ==
  ASSUME IInv, [Next]_vars
  PROVE  OutInv'
<1>0. /\ task \in [Runs -> {"none", "queued", "running"} \cup Ended] /\ heap \in Seq(Runs)
      /\ wrun \in Runs \cup {None} /\ (wpc = "idle" <=> wrun = None) /\ None \notin Runs
      /\ wpc \in {"record", "end", "publish"} => outcome \in Final
      /\ pulled \in Seq(Items) /\ outputs \in Seq(Items)
      /\ OutInv
  BY DelegationAssumption DEF IInv, Types, TypeOK
\* The task of a run that is not over changes, or that of the worker's run.
<1>a. ASSUME NEW r \in Runs, task[r] \notin Ended \/ r = wrun, NEW s,
             task' = [task EXCEPT ![r] = s],
             wrun' = wrun \/ (wrun' = r /\ task[r] \notin Ended), UNCHANGED <<pulled, outputs>>
      PROVE  OutInv'
  <2>1. \A i \in DOMAIN pulled : /\ task'[pulled[i].run] \in {pulled[i].state, "cancelled"}
                                 /\ pulled[i].run # wrun'
    BY <1>0, <1>a, ToldStays DEF OutInv
  <2>2. \A i \in DOMAIN outputs : /\ task'[outputs[i].run] \in {outputs[i].state, "cancelled"}
                                  /\ outputs[i].run # wrun'
    BY <1>0, <1>a, ToldStays DEF OutInv
  <2> QED BY <1>0, <1>a, <2>1, <2>2 DEF OutInv, Told
<1>b. ASSUME UNCHANGED <<task, wrun, pulled, outputs>> PROVE OutInv'
  BY <1>0, <1>b DEF OutInv, Told
<1>1. ASSUME NEW r \in Runs, DelegateEnqueues(r) PROVE OutInv'
  <2>1. task[r] \notin Ended
    BY <1>1 DEF IInv, TaskInv, DelegateEnqueues, Ended, Final
  <2>2. /\ UNCHANGED <<wrun, pulled, outputs>>
        /\ task' = [task EXCEPT ![r] = "queued"] \/ task' = task
    BY <1>1 DEF DelegateEnqueues, workerVars, outVars
  <2> QED BY <1>a, <1>b, <2>1, <2>2
<1>2. ASSUME NEW r \in Runs, WorkerBlocks(r) \/ WorkerBegins(r) PROVE OutInv'
  <2>1. task[r] \notin Ended
    BY <1>0, <1>2 DEF IInv, TaskInv, WorkerBlocks, WorkerBegins, Takes, Ended, Final
  <2>2. /\ UNCHANGED <<pulled, outputs>> /\ wrun' \in {wrun, r}
        /\ task' = [task EXCEPT ![r] = "failed"] \/ task' = [task EXCEPT ![r] = "running"]
    BY <1>2 DEF WorkerBlocks, WorkerBegins, workerVars, outVars
  <2> QED BY <1>a, <2>1, <2>2
<1>3. ASSUME NEW r \in Runs, WatchdogCancels(r) PROVE OutInv'
  <2>1. task[r] \notin Ended
    BY <1>3 DEF WatchdogCancels, Ended, Final
  <2>2. UNCHANGED <<wrun, pulled, outputs>> /\ task' = [task EXCEPT ![r] = "cancelled"]
    BY <1>3 DEF WatchdogCancels, workerVars, outVars
  <2> QED BY <1>a, <2>1, <2>2
<1>4. CASE WorkerEndsTask
  <2>1. wrun \in Runs
    BY <1>0, <1>4 DEF WorkerEndsTask
  <2>2. /\ UNCHANGED <<wrun, pulled, outputs>>
        /\ task' = [task EXCEPT ![wrun] = outcome] \/ task' = task
    BY <1>4 DEF WorkerEndsTask, outVars
  <2> QED BY <1>a, <1>b, <2>1, <2>2
<1>5. CASE WorkerPublishes
  <2> DEFINE x   == [run |-> wrun, state |-> outcome]
             o   == IF Len(outputs) >= OutputCap THEN Tail(outputs) ELSE outputs
  <2>1. /\ wrun \in Runs /\ outcome \in Final /\ wrun' = None /\ UNCHANGED <<task, pulled>>
        /\ task[wrun] \in {outcome, "cancelled"} /\ outputs' = Append(o, x)
    BY <1>0, <1>5 DEF WorkerPublishes, taskVars, IInv, TaskInv, Pushed
  <2>2. x \in Items /\ x.run = wrun /\ x.state = outcome
    BY <2>1 DEF Items
  <2>3. /\ o \in Seq(Items)
        /\ \E d \in {0, 1} : \A i \in DOMAIN o : i + d \in DOMAIN outputs /\ o[i] = outputs[i + d]
    <3>1. CASE Len(outputs) >= OutputCap
      <4>1. outputs # <<>>
        BY <1>0, <3>1, DelegationAssumption
      <4> QED BY <1>0, <3>1, <4>1, TailFacts
    <3>2. CASE ~(Len(outputs) >= OutputCap)
      <4>1. \A i \in DOMAIN outputs : i + 0 = i
        BY <1>0
      <4> QED BY <1>0, <3>2, <4>1
    <3> QED BY <3>1, <3>2
  <2> HIDE DEF x, o
  <2>4. PICK d \in {0, 1} : \A i \in DOMAIN o : i + d \in DOMAIN outputs /\ o[i] = outputs[i + d]
    BY <2>3
  <2>5. \A i \in DOMAIN o :
          /\ task[o[i].run] \in {o[i].state, "cancelled"}
          /\ o[i].run # wrun
          /\ \A j \in DOMAIN o : o[i].run = o[j].run => i = j
          /\ \A j \in DOMAIN pulled : pulled[j].run # o[i].run
    <3>1. ASSUME NEW i \in DOMAIN o, NEW j \in DOMAIN o, o[i].run = o[j].run PROVE i = j
      <4>1. i + d = j + d
        BY <1>0, <2>4, <3>1 DEF OutInv, Told
      <4>2. i \in Nat /\ j \in Nat
        BY <2>3
      <4> QED BY <4>1, <4>2
    <3> QED BY <1>0, <2>4, <3>1 DEF OutInv, Told
  <2>6. \A i \in DOMAIN outputs' : \/ i \in DOMAIN o /\ outputs'[i] = o[i]
                                   \/ i = Len(o) + 1 /\ i \notin DOMAIN o /\ outputs'[i] = x
    BY <2>1, <2>2, <2>3, AppendFacts
  <2>7. \A i \in DOMAIN pulled :
          pulled[i].run # wrun /\ pulled[i].run # None /\ task[pulled[i].run] \in {pulled[i].state, "cancelled"}
    <3>1. \A i \in DOMAIN pulled : pulled[i] \in Items
      BY <1>0
    <3> QED BY <1>0, <3>1 DEF OutInv, Told, Items
  <2>8. \A i \in DOMAIN o : o[i].run # None
    <3>1. \A i \in DOMAIN o : o[i] \in Items
      BY <2>3
    <3> QED BY <1>0, <3>1 DEF Items
  <2>9. Told(outputs)'
    BY <1>0, <2>1, <2>2, <2>5, <2>6, <2>8 DEF Told
  <2>10. Told(pulled)'
    BY <1>0, <2>1, <2>7 DEF Told, OutInv
  <2>11. \A i \in DOMAIN pulled', j \in DOMAIN outputs' : pulled'[i].run # outputs'[j].run
    BY <2>1, <2>2, <2>5, <2>6, <2>7
  <2> QED BY <2>9, <2>10, <2>11 DEF OutInv
<1>6. CASE OutputsPulled
  <2>1. PICK n \in 1 .. Len(outputs) :
          /\ pulled' = pulled \o SubSeq(outputs, 1, n)
          /\ outputs' = SubSeq(outputs, n + 1, Len(outputs))
    BY <1>6 DEF OutputsPulled
  <2>2. UNCHANGED <<task, wrun>>
    BY <1>6 DEF OutputsPulled, taskVars, workerVars
  <2> DEFINE a == SubSeq(outputs, 1, n)
  <2>3. /\ a \in Seq(Items)
        /\ \A i \in DOMAIN a : i \in DOMAIN outputs /\ i \in 1 .. n /\ a[i] = outputs[i]
    <3>1. 1 \in 1 .. Len(outputs) + 1 /\ n \in 0 .. Len(outputs)
      BY <1>0
    <3>2. /\ a \in Seq(Items)
          /\ \A i \in DOMAIN a : /\ i \in Nat /\ i + 1 - 1 \in DOMAIN outputs /\ i + 1 - 1 \in 1 .. n
                                 /\ a[i] = outputs[i + 1 - 1]
      BY <1>0, <3>1, SubSeqFacts
    <3> HIDE DEF a
    <3>3. \A i \in DOMAIN a : i + 1 - 1 = i
      BY <3>2
    <3> QED BY <3>2, <3>3
  <2>4. \A i \in DOMAIN outputs' :
          i \in Nat /\ i + n \in DOMAIN outputs /\ i + n > n /\ outputs'[i] = outputs[i + n]
    <3>1. n + 1 \in 1 .. Len(outputs) + 1 /\ Len(outputs) \in 0 .. Len(outputs)
      BY <1>0
    <3>2. \A i \in DOMAIN outputs' :
            /\ i \in Nat /\ i + (n + 1) - 1 \in DOMAIN outputs /\ i + (n + 1) - 1 \in n + 1 .. Len(outputs)
            /\ outputs'[i] = outputs[i + (n + 1) - 1]
      BY <1>0, <2>1, <3>1, SubSeqFacts
    <3>3. \A i \in DOMAIN outputs' : i + (n + 1) - 1 = i + n /\ i + n > n
      BY <3>2
    <3> QED BY <3>2, <3>3
  <2> HIDE DEF a
  <2>5. \A i \in DOMAIN pulled' : \/ i \in DOMAIN pulled /\ pulled'[i] = pulled[i]
                                  \/ /\ i - Len(pulled) \in DOMAIN a
                                     /\ pulled'[i] = a[i - Len(pulled)]
    <3>1. pulled' = pulled \o a
      BY <2>1 DEF a
    <3> QED BY <1>0, <2>3, <3>1, ConcatFacts
  <2>6. Told(pulled)'
    <3>1. ASSUME NEW i \in DOMAIN pulled'
          PROVE  task[pulled'[i].run] \in {pulled'[i].state, "cancelled"} /\ pulled'[i].run # wrun
      BY <1>0, <2>3, <2>5 DEF OutInv, Told
    <3>2. ASSUME NEW i \in DOMAIN pulled', NEW j \in DOMAIN pulled', pulled'[i].run = pulled'[j].run
          PROVE  i = j
      <4>1. i \in Int /\ j \in Int /\ Len(pulled) \in Int
        <5>1. pulled' \in Seq(Items)
          BY <1>0, <2>1, <2>3 DEF a
        <5> QED BY <1>0, <5>1
      <4>2. CASE i \in DOMAIN pulled /\ pulled'[i] = pulled[i]
        BY <1>0, <2>3, <2>5, <3>2, <4>2 DEF OutInv, Told
      <4>3. CASE i - Len(pulled) \in DOMAIN a /\ pulled'[i] = a[i - Len(pulled)]
        <5>1. CASE j \in DOMAIN pulled /\ pulled'[j] = pulled[j]
          BY <1>0, <2>3, <3>2, <4>3, <5>1 DEF OutInv
        <5>2. CASE j - Len(pulled) \in DOMAIN a /\ pulled'[j] = a[j - Len(pulled)]
          <6>1. i - Len(pulled) = j - Len(pulled)
            BY <1>0, <2>3, <3>2, <4>3, <5>2 DEF OutInv, Told
          <6> QED BY <4>1, <6>1
        <5> QED BY <2>5, <5>1, <5>2
      <4> QED BY <2>5, <4>2, <4>3
    <3> QED BY <2>2, <3>1, <3>2 DEF Told
  <2>7. Told(outputs)'
    BY <1>0, <2>2, <2>4 DEF OutInv, Told
  <2>8. ASSUME NEW i \in DOMAIN pulled', NEW j \in DOMAIN outputs' PROVE pulled'[i].run # outputs'[j].run
    <3>1. CASE i \in DOMAIN pulled /\ pulled'[i] = pulled[i]
      BY <1>0, <2>4, <3>1 DEF OutInv
    <3>2. CASE i - Len(pulled) \in DOMAIN a /\ pulled'[i] = a[i - Len(pulled)]
      <4>1. j + n # i - Len(pulled)
        BY <2>3, <2>4, <3>2
      <4> QED BY <1>0, <2>3, <2>4, <3>2, <4>1 DEF OutInv, Told
    <3> QED BY <2>5, <3>1, <3>2
  <2> QED BY <2>6, <2>7, <2>8 DEF OutInv
<1>7. CASE TurnNext \/ (\E r \in Runs : Delegate(r) \/ DelegateRecords(r)) \/ AgentReports \/ AgentIsLost
           \/ AgentReturns \/ WorkerRecords \/ ReportIngested \/ UNCHANGED vars
  <2>1. UNCHANGED <<task, wrun, pulled, outputs>>
    BY <1>7 DEF TurnNext, ClientAsks, ClientGivesUp, TurnBegins, TurnEnds, TurnFails, Delegate,
                DelegateRecords, AgentReports, AgentIsLost, AgentReturns, WorkerRecords, ReportIngested,
                vars, taskVars, workerVars, outVars
  <2> QED BY <1>b, <2>1
<1> QED BY <1>1, <1>2, <1>3, <1>4, <1>5, <1>6, <1>7 DEF Next, DelegateNext, WorkerNext

-----------------------------------------------------------------------------
(* The records of the runs.                                                *)

\* A report is sent by the run the worker is in.
LEMMA SentReports ==
  ASSUME IInv, wpc \in {"turn", "lost"}, NEW kind \in Kinds, Report(kind)
  PROVE  /\ \A i \in DOMAIN reports : i \in DOMAIN reports' /\ reports'[i] = reports[i]
         /\ \A i \in DOMAIN reports' :
              \/ i \in DOMAIN reports /\ reports'[i] = reports[i]
              \/ i = Len(reports) + 1 /\ i \notin DOMAIN reports
                 /\ reports'[i].run = wrun /\ reports'[i].kind = kind
         /\ Len(reports) + 1 \in DOMAIN reports'
         /\ \A i \in DOMAIN reports : Len(reports) + 1 > i
         /\ wrun \in Runs /\ reports \in Seq(Reports)
<1> DEFINE x == [run |-> wrun, kind |-> kind]
<1>1. /\ reports \in Seq(Reports) /\ wrun \in Runs /\ reports' = Append(reports, x)
  BY ReportType DEF IInv, Types, TypeOK, Reports, Kinds
<1>2. x \in Reports /\ x.run = wrun /\ x.kind = kind
  BY <1>1 DEF Reports
<1> HIDE DEF x
<1>3. \A i \in DOMAIN reports' : \/ i \in DOMAIN reports /\ reports'[i] = reports[i]
                                 \/ i = Len(reports) + 1 /\ i \notin DOMAIN reports /\ reports'[i] = x
  BY <1>1, <1>2, AppendFacts
<1>4. Len(reports) + 1 \in DOMAIN reports' /\ \A i \in DOMAIN reports : Len(reports) + 1 > i
  BY <1>1, <1>2
<1>5. \A i \in DOMAIN reports : i \in DOMAIN reports' /\ reports'[i] = reports[i]
  BY <1>1, <1>2
<1> QED BY <1>1, <1>2, <1>3, <1>4, <1>5

\* Every step keeps what is known of the runs and the reports about them.
LEMMA RunsOK ==
  ASSUME IInv, [Next]_vars
  PROVE  RunInv'
<1>0. /\ dpc \in [Runs -> {"new", "enqueue", "record", "recorded", "refused"}]
      /\ wpc \in {"idle", "turn", "lost", "record", "end", "publish"}
      /\ wrun \in Runs \cup {None} /\ (wpc = "idle" <=> wrun = None) /\ None \notin Runs
      /\ wpc \in {"record", "end", "publish"} => outcome \in Final
      /\ run \in [Runs -> RunStates] /\ active \subseteq Runs /\ late \subseteq Runs
      /\ begun \subseteq Runs /\ reports \in Seq(Reports)
      /\ LastReportEnds
      /\ \A r \in Runs : dpc[r] = "recorded" => run[r] # "none"
      /\ \A r \in Runs : Recorded(r) /\ Unreported(r) => run[r] \in Final /\ r \notin active
  BY DelegationAssumption DEF IInv, Types, TypeOK, RunInv, Reports, Kinds
\* The report channel is left alone, and the worker does not leave a turn.
<1>a. ASSUME UNCHANGED reports, wpc \in {"turn", "lost"} => wpc' \in {"turn", "lost"} /\ wrun' = wrun
      PROVE  LastReportEnds'
  BY <1>0, <1>a DEF LastReportEnds
<1>1. ASSUME NEW r \in Runs, Delegate(r) \/ DelegateEnqueues(r) PROVE RunInv'
  <2>1. /\ UNCHANGED <<wpc, wrun, begun, run, active, late, reports>>
        /\ \A q \in Runs : dpc'[q] = "recorded" <=> dpc[q] = "recorded"
    BY <1>0, <1>1 DEF Delegate, DelegateEnqueues, workerVars, runVars
  <2> QED BY <1>0, <1>a, <2>1 DEF RunInv, Recorded, Unreported
<1>2. ASSUME NEW r \in Runs, DelegateRecords(r) PROVE RunInv'
  <2>1. /\ UNCHANGED <<wpc, wrun, begun, reports>>
        /\ dpc' = [dpc EXCEPT ![r] = "recorded"] /\ run' = [run EXCEPT ![r] = "queued"]
        /\ active' = active \cup {r}
        /\ late' = IF r \in begun /\ ~(wrun = r /\ wpc \in {"turn", "lost", "record"})
                   THEN late \cup {r} ELSE late
    BY <1>2 DEF DelegateRecords, workerVars
  <2>2. \A q \in Runs : Recorded(q)' => Recorded(q) /\ q # r
    BY <1>0, <2>1 DEF Recorded
  <2> QED BY <1>0, <1>a, <2>1, <2>2 DEF RunInv, Unreported
<1>3. ASSUME NEW r \in Runs, WorkerBegins(r) PROVE RunInv'
  <2>1. /\ UNCHANGED <<dpc, reports, active, late>> /\ wpc = "idle" /\ wpc' = "turn" /\ wrun' = r
        /\ run' = [run EXCEPT ![r] = IF @ = "none" THEN @ ELSE "running"] /\ begun' = begun \cup {r}
    BY <1>3 DEF WorkerBegins, Takes, callVars
  <2>2. \A q \in Runs : Recorded(q)' => Recorded(q) /\ q # r
    BY <1>0, <2>1 DEF Recorded
  <2> QED BY <1>0, <1>a, <2>1, <2>2 DEF RunInv, Unreported
\* A report of a run whose turn is not over.
<1>b. ASSUME NEW kind \in Kinds, wpc \in {"turn", "lost"}, Report(kind),
             wpc' \in {"turn", "lost"} \/ (wpc' = "record" /\ kind \in Final),
             UNCHANGED <<wrun, dpc, begun, run, active, late>>
      PROVE  RunInv'
  <2>1. LastReportEnds'
    <3>1. ASSUME NEW i \in DOMAIN reports', reports'[i].kind \notin Final,
                 wpc' = "record" \/ wrun' # reports'[i].run
          PROVE  \E j \in DOMAIN reports' :
                   j > i /\ reports'[j].run = reports'[i].run /\ reports'[j].kind \in Final
      <4>1. i \in DOMAIN reports /\ reports'[i] = reports[i]
        BY <1>b, <3>1, SentReports
      <4>2. CASE wrun = reports[i].run
        <5>1. wpc' = "record" /\ kind \in Final
          BY <1>b, <3>1, <4>1, <4>2
        <5>2. Len(reports) + 1 \in DOMAIN reports' /\ Len(reports) + 1 > i
          BY <1>b, <4>1, SentReports
        <5>3. Len(reports) + 1 \notin DOMAIN reports
          BY <1>0
        <5>4. reports'[Len(reports) + 1].run = wrun /\ reports'[Len(reports) + 1].kind = kind
          BY <1>b, <5>2, <5>3, SentReports
        <5> QED BY <4>1, <4>2, <5>1, <5>2, <5>4
      <4>3. CASE wrun # reports[i].run
        <5>1. PICK j \in DOMAIN reports :
                j > i /\ reports[j].run = reports[i].run /\ reports[j].kind \in Final
          BY <1>0, <3>1, <4>1, <4>3 DEF LastReportEnds
        <5>2. j \in DOMAIN reports' /\ reports'[j] = reports[j]
          BY <1>b, SentReports
        <5> QED BY <4>1, <5>1, <5>2
      <4> QED BY <4>2, <4>3
    <3> QED BY <1>b, <3>1 DEF LastReportEnds
  <2>2. ASSUME NEW q \in Runs, Recorded(q)', Unreported(q)' PROVE Recorded(q) /\ Unreported(q)
    <3>1. Recorded(q)
      BY <1>b, <2>2 DEF Recorded
    <3>2. Unreported(q)
      BY <1>b, <2>2, SentReports DEF Unreported
    <3> QED BY <3>1, <3>2
  <2> QED BY <1>0, <1>b, <2>1, <2>2 DEF RunInv
<1>4. CASE AgentReports
  BY <1>4, <1>b DEF AgentReports, Kinds, callVars, runVars
<1>5. CASE AgentIsLost
  BY <1>5, <1>b DEF AgentIsLost, Kinds, callVars, runVars
<1>6. CASE AgentReturns
  BY <1>6, <1>b DEF AgentReturns, Kinds, callVars, runVars
<1>7. CASE WorkerRecords
  <2>1. /\ UNCHANGED <<dpc, reports, wrun, begun, late>> /\ wpc = "record" /\ wpc' = "end" /\ wrun \in Runs
        /\ run' = [run EXCEPT ![wrun] = outcome] /\ active' = active \ {wrun} /\ outcome \in Final
    BY <1>0, <1>7 DEF WorkerRecords, callVars
  <2>2. \A q \in Runs : Recorded(q)' => Recorded(q) \/ q = wrun
    BY <1>0, <2>1 DEF Recorded
  <2> QED BY <1>0, <1>a, <2>1, <2>2 DEF RunInv, Unreported, Final
<1>8. CASE WorkerEndsTask \/ WorkerPublishes
  <2>1. /\ UNCHANGED <<dpc, reports, begun, late, run, active>> /\ wpc \in {"end", "publish"}
        /\ wpc' \in {"publish", "idle"}
    BY <1>8 DEF WorkerEndsTask, WorkerPublishes, callVars, runVars
  <2>2. \A q \in Runs : Recorded(q)' => Recorded(q)
    BY <1>0, <2>1 DEF Recorded
  <2> QED BY <1>0, <1>a, <2>1, <2>2 DEF RunInv, Unreported
<1>9. CASE ReportIngested
  <2> DEFINE h == Head(reports)
  <2>1. h \in Reports /\ h = reports[1] /\ 1 \in DOMAIN reports
    BY <1>0, <1>9 DEF ReportIngested
  <2>2. h.run \in Runs /\ h.kind \in Kinds
    BY <2>1 DEF Reports
  <2> HIDE DEF h
  <2>3. /\ UNCHANGED <<dpc, wpc, wrun, begun, late>>
        /\ run' = [run EXCEPT ![h.run] = IF @ = "none" THEN @ ELSE AfterReport(h.kind)]
        /\ active' = IF h.kind \in {"completed", "failed", "stuck"} THEN active \ {h.run} ELSE active
        /\ reports # <<>> /\ reports' = Tail(reports)
    BY <1>9 DEF ReportIngested, callVars, workerVars, h
  <2>4. \A i \in DOMAIN reports' : i + 1 \in DOMAIN reports /\ reports'[i] = reports[i + 1]
    BY <1>0, <2>3, TailFacts, Zenon
  <2>5. \A i \in DOMAIN reports : i # 1 => i - 1 \in DOMAIN reports' /\ reports'[i - 1] = reports[i]
    BY <1>0, <2>3
  <2>6. LastReportEnds'
    <3>1. ASSUME NEW i \in DOMAIN reports', reports'[i].kind \notin Final,
                 ~(wpc \in {"turn", "lost"} /\ wrun = reports'[i].run)
          PROVE  \E j \in DOMAIN reports' :
                   j > i /\ reports'[j].run = reports'[i].run /\ reports'[j].kind \in Final
      <4>1. PICK j \in DOMAIN reports :
              j > i + 1 /\ reports[j].run = reports[i + 1].run /\ reports[j].kind \in Final
        BY <1>0, <2>4, <3>1 DEF LastReportEnds
      <4>2. i \in Nat /\ i # 0 /\ j \in Nat
        <5>1. reports' \in Seq(Reports)
          BY <1>0, <2>3
        <5> QED BY <1>0, <5>1
      <4>3. j # 1 /\ j - 1 > i
        BY <4>1, <4>2
      <4> QED BY <2>4, <2>5, <4>1, <4>3
    <3> QED BY <2>3, <3>1 DEF LastReportEnds
  <2>7. \A r \in Runs : dpc'[r] = "recorded" => run'[r] # "none"
    BY <1>0, <2>2, <2>3 DEF AfterReport, Final
  <2>8. ASSUME NEW q \in Runs, Recorded(q)', Unreported(q)' PROVE run'[q] \in Final /\ q \notin active'
    <3>1. Recorded(q)
      BY <2>3, <2>8 DEF Recorded
    <3>2. CASE h.run # q
      <4>1. Unreported(q)
        BY <2>1, <2>5, <2>8, <3>2 DEF Unreported
      <4> QED BY <1>0, <2>2, <2>3, <3>1, <3>2, <4>1
    <3>3. CASE h.run = q
      <4>1. h.kind \in Final
        <5>1. SUFFICES ASSUME h.kind \notin Final PROVE FALSE
          OBVIOUS
        <5>2. ~(wpc \in {"turn", "lost"} /\ wrun = q)
          BY <3>1 DEF Recorded
        <5>3. PICK j \in DOMAIN reports : j > 1 /\ reports[j].run = q
          BY <1>0, <2>1, <3>3, <5>1, <5>2 DEF LastReportEnds
        <5>4. j # 1
          BY <1>0, <5>3
        <5> QED BY <2>5, <2>8, <5>3, <5>4 DEF Unreported
      <4>2. run[q] # "none"
        BY <1>0, <3>1 DEF Recorded
      <4>3. AfterReport(h.kind) \in Final
        BY <4>1 DEF AfterReport, Final
      <4> QED BY <1>0, <2>3, <3>3, <4>1, <4>2, <4>3 DEF Final
    <3> QED BY <3>2, <3>3
  <2> QED BY <2>6, <2>7, <2>8 DEF RunInv
<1>10. CASE TurnNext \/ (\E r \in Runs : WorkerBlocks(r) \/ WatchdogCancels(r)) \/ OutputsPulled \/ UNCHANGED vars
  <2>1. UNCHANGED <<dpc, wpc, wrun, begun, run, active, late, reports>>
    BY <1>10 DEF TurnNext, ClientAsks, ClientGivesUp, TurnBegins, TurnEnds, TurnFails, WorkerBlocks,
                 WatchdogCancels, OutputsPulled, vars, callVars, workerVars, runVars
  <2> QED BY <1>0, <1>a, <2>1 DEF RunInv, Recorded, Unreported
<1> QED BY <1>1, <1>2, <1>3, <1>4, <1>5, <1>6, <1>7, <1>8, <1>9, <1>10 DEF Next, DelegateNext, WorkerNext

-----------------------------------------------------------------------------

\* The invariant holds in every execution.
THEOREM Invariance == Spec => []IInv
<1>1. ASSUME IInv, [Next]_vars PROVE IInv'
  BY <1>1, TypesOK, TurnsOK, TasksOK, OutputsOK, RunsOK DEF IInv
<1> QED BY <1>1, InitOK, PTL DEF Spec

\* The variables of the delegation model hold values of their types.
THEOREM TypeCorrect == Spec => []TypeOK
<1>1. IInv => TypeOK
  BY DEF IInv, Types
<1> QED BY <1>1, Invariance, PTL

\* The delegations a client is told are those of its own turn, whatever turns came before
\* it and whichever of them failed or lost their client.
THEOREM AnswersAreOwn == Spec => []AnswersListOwn
<1>1. IInv => AnswersListOwn
  BY DEF IInv
<1> QED BY <1>1, Invariance, PTL

\* Reports that come in late never reopen a run: for any number of runs, reports and
\* channel capacity, and whenever delegate_to_agent records the run.
THEOREM RunsStayOver == Spec => []QuietRunsAreFinal
<1>1. IInv => QuietRunsAreFinal
  <2> SUFFICES ASSUME IInv, NEW r \in Runs, Quiet(r), r \in begun \ late
               PROVE  run[r] \in Final /\ r \notin active
    BY DEF QuietRunsAreFinal
  <2>1. reports \in Seq(Reports)
    BY DEF IInv, Types, TypeOK, Reports, Kinds
  <2>2. Unreported(r)
    BY <2>1 DEF Quiet, Unreported
  <2>3. Recorded(r)
    BY DEF Quiet, Recorded
  <2> QED BY <2>2, <2>3 DEF IInv, RunInv
<1> QED BY <1>1, Invariance, PTL

\* Every output, pulled or pending, says how its task ended, and no run has two: for any
\* capacity of the queue, order of pulls and cancellations.
THEOREM OutputsAreTrue == Spec => []OutputFollowsEnd
<1>1. IInv => OutputFollowsEnd
  <2> SUFFICES ASSUME IInv PROVE OutputFollowsEnd
    OBVIOUS
  <2> DEFINE all == pulled \o outputs
  <2>1. /\ pulled \in Seq(Items) /\ outputs \in Seq(Items) /\ OutInv
    BY DEF IInv, Types, TypeOK
  <2>2. all \in Seq(Items)
    BY <2>1
  <2>3. \A i \in DOMAIN all : \/ i \in DOMAIN pulled /\ all[i] = pulled[i]
                              \/ /\ i - Len(pulled) \in DOMAIN outputs
                                 /\ all[i] = outputs[i - Len(pulled)]
    BY <2>1, ConcatFacts
  <2> HIDE DEF all
  <2>4. \A i \in DOMAIN all : task[all[i].run] \in {all[i].state, "cancelled"}
    BY <2>1, <2>3 DEF OutInv, Told
  <2>5. ASSUME NEW i \in DOMAIN all, NEW j \in DOMAIN all, all[i].run = all[j].run PROVE i = j
    <3>1. i \in Nat /\ j \in Nat /\ Len(pulled) \in Nat
      BY <2>1, <2>2
    <3>2. CASE i \in DOMAIN pulled /\ all[i] = pulled[i]
      BY <2>1, <2>3, <2>5, <3>2 DEF OutInv, Told
    <3>3. CASE i - Len(pulled) \in DOMAIN outputs /\ all[i] = outputs[i - Len(pulled)]
      <4>1. CASE j \in DOMAIN pulled /\ all[j] = pulled[j]
        BY <2>1, <2>5, <3>3, <4>1 DEF OutInv
      <4>2. CASE j - Len(pulled) \in DOMAIN outputs /\ all[j] = outputs[j - Len(pulled)]
        <5>1. i - Len(pulled) = j - Len(pulled)
          BY <2>1, <2>5, <3>3, <4>2 DEF OutInv, Told
        <5> QED BY <3>1, <5>1
      <4> QED BY <2>3, <4>1, <4>2
    <3> QED BY <2>3, <3>2, <3>3
  <2>6. \A item \in Range(all) : task[item.run] \in {item.state, "cancelled"}
    BY <2>4 DEF Range
  <2> QED BY <2>5, <2>6 DEF OutputFollowsEnd, all
<1> QED BY <1>1, Invariance, PTL
-----------------------------------------------------------------------------
(* What queue_status says of the run of an ended task: the open breaker is   *)
(* the only cause of the runs that never end.                               *)

\* A task runs only in a turn, and without one it ends only as failed.
BegunInv ==
  /\ wrun # None => wrun \in begun
  /\ \A r \in Runs : task[r] = "running" => r \in begun
  /\ \A r \in Runs : task[r] \in Ended => r \in begun \/ task[r] = "failed"

\* An ended task had its turn.
EndedBegun == \A r \in Runs : task[r] \in Ended => r \in begun

\* Every step keeps what is known of the begun turns; and unless the breaker is open it
\* ends no task without one.
LEMMA BegunOK ==
  ASSUME IInv, BegunInv, [Next]_vars
  PROVE  BegunInv' /\ (EndedBegun /\ ~breaker.open => EndedBegun')
<1> USE DEF BegunInv, EndedBegun
<1>0. /\ task \in [Runs -> {"none", "queued", "running"} \cup Ended] /\ wrun \in Runs \cup {None}
      /\ (wpc = "idle" <=> wrun = None) /\ None \notin Runs
      /\ wpc \in {"record", "end", "publish"} => outcome \in Final
  BY DelegationAssumption DEF IInv, Types, TypeOK
<1>1. ASSUME NEW r \in Runs, DelegateEnqueues(r) PROVE BegunInv' /\ (EndedBegun => EndedBegun')
  <2>1. task' \in {task, [task EXCEPT ![r] = "queued"]} /\ UNCHANGED <<wrun, begun>>
    BY <1>1 DEF DelegateEnqueues, workerVars
  <2> QED BY <1>0, <2>1 DEF Ended, Final
<1>2. ASSUME NEW r \in Runs, WatchdogCancels(r) PROVE BegunInv' /\ (EndedBegun => EndedBegun')
  BY <1>0, <1>2 DEF WatchdogCancels, workerVars
<1>3. ASSUME NEW r \in Runs, WorkerBlocks(r) PROVE BegunInv' /\ breaker.open
  BY <1>0, <1>3 DEF WorkerBlocks, workerVars
<1>4. ASSUME NEW r \in Runs, WorkerBegins(r) PROVE BegunInv' /\ (EndedBegun => EndedBegun')
  BY <1>0, <1>4 DEF WorkerBegins, Ended, Final
<1>5. CASE WorkerEndsTask
  <2>1. wrun \in Runs /\ wrun \in begun /\ UNCHANGED <<wrun, begun>>
        /\ task' \in {task, [task EXCEPT ![wrun] = outcome]} /\ outcome \in Final
    BY <1>0, <1>5 DEF WorkerEndsTask
  <2> QED BY <1>0, <2>1 DEF Final
<1>6. CASE WorkerPublishes
  BY <1>0, <1>6 DEF WorkerPublishes, taskVars
<1>7. CASE TurnNext \/ (\E r \in Runs : Delegate(r) \/ DelegateRecords(r)) \/ AgentReports \/ AgentIsLost
           \/ AgentReturns \/ WorkerRecords \/ ReportIngested \/ OutputsPulled \/ UNCHANGED vars
  <2>1. UNCHANGED <<task, wrun, begun>>
    BY <1>7 DEF TurnNext, ClientAsks, ClientGivesUp, TurnBegins, TurnEnds, TurnFails, Delegate,
                DelegateRecords, AgentReports, AgentIsLost, AgentReturns, WorkerRecords, ReportIngested,
                OutputsPulled, vars, taskVars, workerVars
  <2> QED BY <2>1
<1> QED BY <1>1, <1>2, <1>3, <1>4, <1>5, <1>6, <1>7 DEF Next, DelegateNext, WorkerNext

\* The begun turns are as above in every execution.
LEMMA Begun == Spec => []BegunInv
<1>1. Init => BegunInv
  BY DEF Init, BegunInv, Ended, Final
<1>2. IInv /\ BegunInv /\ [Next]_vars => BegunInv'
  BY BegunOK
<1> QED BY <1>1, <1>2, Invariance, PTL DEF Spec

\* A run whose task has ended and for which nothing is under way is over, but for one whose
\* task never had a turn: an open breaker failed it, and queue_status is never told.
ForgottenRuns ==
  \A r \in Runs : Quiet(r) /\ r \notin late /\ task[r] \in Ended
                    => run[r] \in Final \/ (r \notin begun /\ task[r] = "failed")

\* That is the only way a run outlasts its task: cancellations, lost turns, reports in any
\* order and clients that give up leave no run behind.
THEOREM OnlyUnbegunRunsAreForgotten == Spec => []ForgottenRuns
<1>1. QuietRunsAreFinal /\ BegunInv => ForgottenRuns
  BY DEF QuietRunsAreFinal, BegunInv, ForgottenRuns
<1> QED BY <1>1, RunsStayOver, Begun, PTL

\* While the breaker stays closed the run ends with its task, as queue_status has it.
THEOREM RunsEndWhileClosed == Spec /\ []~breaker.open => []RunEndsWithTask
<1>1. Init => EndedBegun
  BY DEF Init, EndedBegun, Ended, Final
<1>2. IInv /\ BegunInv /\ EndedBegun /\ ~breaker.open /\ [Next]_vars => EndedBegun'
  BY BegunOK
<1>3. QuietRunsAreFinal /\ EndedBegun => RunEndsWithTask
  BY DEF QuietRunsAreFinal, EndedBegun, RunEndsWithTask
<1> QED BY <1>1, <1>2, <1>3, Invariance, Begun, RunsStayOver, PTL DEF Spec
-----------------------------------------------------------------------------
(* The safety part of EveryTurnIsPublished.                                 *)

\* A queued task waits in the queue, and a running one is in the worker's hands, which has
\* its end still to write.
NoTaskLeftBehind ==
  \A r \in Runs :
    /\ task[r] = "queued" => \E i \in DOMAIN heap : heap[i] = r
    /\ task[r] = "running" => wrun = r /\ wpc \in {"turn", "lost", "record", "end"}

\* Every step keeps the tasks in somebody's hands.
LEMMA LeftBehindOK ==
  ASSUME IInv, NoTaskLeftBehind, [Next]_vars
  PROVE  NoTaskLeftBehind'
<1> USE DEF NoTaskLeftBehind
<1>0. /\ task \in [Runs -> {"none", "queued", "running"} \cup Ended] /\ heap \in Seq(Runs)
      /\ wpc \in {"idle", "turn", "lost", "record", "end", "publish"}
      /\ (wpc = "idle" <=> wrun = None) /\ None \notin Runs /\ wrun \in Runs \cup {None}
      /\ wpc \in {"record", "end", "publish"} => outcome \in Final
  BY DelegationAssumption DEF IInv, Types, TypeOK
<1>1. ASSUME NEW r \in Runs, DelegateEnqueues(r) PROVE NoTaskLeftBehind'
  <2>1. CASE task' = task /\ heap' = heap
    BY <1>1, <2>1 DEF DelegateEnqueues, workerVars
  <2>2. CASE task' = [task EXCEPT ![r] = "queued"] /\ heap' = Append(heap, r)
    <3>1. /\ \A i \in DOMAIN heap : i \in DOMAIN heap' /\ heap'[i] = heap[i]
          /\ Len(heap) + 1 \in DOMAIN heap' /\ heap'[Len(heap) + 1] = r
      BY <1>0, <2>2
    <3>2. UNCHANGED <<wrun, wpc>>
      BY <1>1 DEF DelegateEnqueues, workerVars
    <3> QED BY <1>0, <2>2, <3>1, <3>2
  <2> QED BY <1>1, <2>1, <2>2 DEF DelegateEnqueues
<1>2. ASSUME NEW r \in Runs, WorkerBlocks(r) \/ WorkerBegins(r) PROVE NoTaskLeftBehind'
  <2>1. heap # <<>> /\ r = heap[1] /\ heap' = Tail(heap) /\ wpc = "idle"
    BY <1>2 DEF WorkerBlocks, WorkerBegins, Takes
  <2>2. \A i \in DOMAIN heap : i # 1 => i - 1 \in DOMAIN heap' /\ heap'[i - 1] = heap[i]
    BY <1>0, <2>1
  <2>3. ASSUME NEW q \in Runs, q # r, \E i \in DOMAIN heap : heap[i] = q
        PROVE  \E i \in DOMAIN heap' : heap'[i] = q
    BY <2>1, <2>2, <2>3
  <2>4. \/ task' = [task EXCEPT ![r] = "failed"] /\ UNCHANGED <<wrun, wpc>>
        \/ task' = [task EXCEPT ![r] = "running"] /\ wrun' = r /\ wpc' = "turn"
    BY <1>2 DEF WorkerBlocks, WorkerBegins, workerVars
  <2>5. \A q \in Runs : task[q] # "running"
    BY <1>0, <2>1
  <2> QED BY <1>0, <2>3, <2>4, <2>5
<1>3. CASE WorkerEndsTask
  <2>1. /\ UNCHANGED <<heap, wrun>> /\ wpc' = "publish" /\ wrun \in Runs /\ outcome \in Final
        /\ task' = IF task[wrun] = "running" THEN [task EXCEPT ![wrun] = outcome] ELSE task
    BY <1>0, <1>3 DEF WorkerEndsTask
  <2> QED BY <1>0, <2>1 DEF Final
<1>4. CASE AgentReports \/ AgentIsLost \/ AgentReturns \/ WorkerRecords \/ WorkerPublishes
  <2>1. /\ UNCHANGED <<task, heap>>
        /\ wpc # "publish" => wrun' = wrun /\ wpc' \in {"turn", "lost", "record", "end"}
    BY <1>4 DEF AgentReports, AgentIsLost, AgentReturns, WorkerRecords, WorkerPublishes, taskVars
  <2> QED BY <1>0, <2>1
<1>5. ASSUME NEW r \in Runs, WatchdogCancels(r) PROVE NoTaskLeftBehind'
  BY <1>0, <1>5 DEF WatchdogCancels, workerVars
<1>6. CASE TurnNext \/ (\E r \in Runs : Delegate(r) \/ DelegateRecords(r)) \/ ReportIngested
           \/ OutputsPulled \/ UNCHANGED vars
  <2>1. UNCHANGED <<task, heap, wrun, wpc>>
    BY <1>6 DEF TurnNext, ClientAsks, ClientGivesUp, TurnBegins, TurnEnds, TurnFails, Delegate,
                DelegateRecords, ReportIngested, OutputsPulled, vars, taskVars, workerVars
  <2> QED BY <2>1
<1> QED BY <1>1, <1>2, <1>3, <1>4, <1>5, <1>6 DEF Next, DelegateNext, WorkerNext

\* No task is queued where the worker does not look, or running with nobody to end it: for
\* any lost turns, cancellations and blocked tasks.
THEOREM TasksAreNotLeftBehind == Spec => []NoTaskLeftBehind
<1>1. Init => NoTaskLeftBehind
  BY DEF Init, NoTaskLeftBehind
<1>2. IInv /\ NoTaskLeftBehind /\ [Next]_vars => NoTaskLeftBehind'
  BY LeftBehindOK
<1> QED BY <1>1, <1>2, Invariance, PTL DEF Spec
===============================================================================

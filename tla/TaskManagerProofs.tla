-------------------------- MODULE TaskManagerProofs --------------------------
(* Theorems about TaskManager, for every set of tasks, agents and callers. *)
EXTENDS TaskManager, FiniteSetTheorems, TLAPS

-----------------------------------------------------------------------------
(* Typing.                                                                 *)

\* What a call of transition() does to the variables it touches.
LEMMA TransitionType ==
  ASSUME TypeOK, NEW th \in AllThreads, NEW t \in Tasks, NEW expected,
         NEW to \in AnyLabel, NEW save \in BOOLEAN,
         NEW onOk \in Places, NEW onErr \in Places, pc[th] # "calling",
         Transition(th, t, expected, to, save, onOk, onErr)
  PROVE  /\ mem' \in [Tasks -> States]
         /\ beat' \subseteq Tasks
         /\ waiters' \in [Tasks -> SUBSET Awaiters]
         /\ call' \in [AllThreads -> Calls]
         /\ pc' \in [AllThreads -> Places]
         /\ \A x \in AllThreads :
              call'[x].stage # "idle" =>
                /\ pc'[x] = "calling" /\ call'[x].task \in Tasks /\ call'[x].to # "absent"
                /\ call'[x].woken # {} => call'[x].to \in Terminal
<1>1. to \in States /\ to # "absent" /\ "calling" \in Places
  BY DEF AnyLabel, States, Pending, Terminal, Places
<1>2. DEFINE c == [stage |-> "row", task |-> t, to |-> to, save |-> save,
                   woken |-> Taken(t, to),
                   onOk |-> onOk, onErr |-> onErr]
<1>3. c \in Calls
  BY <1>1 DEF Taken, TypeOK, MemType, Calls, CallStages
<1>4. CASE mem[t] # "absent" /\ Label(mem[t]) \in expected
  <2>1. /\ mem' = [mem EXCEPT ![t] = to]
        /\ beat' = IF Label(to) = "running" THEN beat \cup {t} ELSE beat \ {t}
        /\ waiters' = [waiters EXCEPT ![t] = @ \ Taken(t, to)]
        /\ call' = [call EXCEPT ![th] = c]
        /\ pc' = [pc EXCEPT ![th] = "calling"]
    BY <1>4 DEF Transition
  <2>2. mem' \in [Tasks -> States] /\ beat' \subseteq Tasks
    BY <2>1, <1>1 DEF TypeOK, MemType
  <2>3. waiters' \in [Tasks -> SUBSET Awaiters]
    BY <2>1 DEF TypeOK, MemType
  <2>4. call' \in [AllThreads -> Calls] /\ pc' \in [AllThreads -> Places]
    BY <2>1, <1>1, <1>3 DEF TypeOK, ThreadType
  <2>5. \A x \in AllThreads :
          call'[x].stage # "idle" =>
            /\ pc'[x] = "calling" /\ call'[x].task \in Tasks /\ call'[x].to # "absent"
            /\ call'[x].woken # {} => call'[x].to \in Terminal
    BY <2>1, <1>1 DEF Taken, TypeOK, ThreadType
  <2> QED
    BY <2>2, <2>3, <2>4, <2>5
<1>5. CASE ~(mem[t] # "absent" /\ Label(mem[t]) \in expected)
  <2>1. pc' = [pc EXCEPT ![th] = onErr] /\ UNCHANGED <<mem, beat, waiters, call>>
    BY <1>5 DEF Transition
  <2> QED
    BY <2>1 DEF TypeOK, MemType, ThreadType
<1> QED
  BY <1>4, <1>5

\* The daemon starts well typed, with an empty store.
LEMMA InitType == ASSUME ConstantsAssumption, Init PROVE TypeOK
<1>1. Idle \in Calls /\ NoJob \in [task : Tasks \cup {NoTask}, seen : States]
  BY DEF Idle, NoJob, Calls, CallStages, Places, States
<1>2. MemType
  BY ThresholdAssumption DEF Init, MemType, States, Closed, Breakers, ThresholdAssumption
<1>3. StoreType /\ EnqueueType
  BY DEF Init, StoreType, EnqueueType, States, EnqueuePlaces
<1>4. ThreadType
  BY <1>1 DEF Init, ThreadType, Places
<1>5. AwaitType /\ BoundType
  BY DEF Init, AwaitType, BoundType, Answers, ConstantsAssumption
<1> QED
  BY <1>2, <1>3, <1>4, <1>5 DEF Init, TypeOK, Idle, AllThreads

\* The first critical section of enqueue_direct keeps the types.
LEMMA EnqueueCheckType ==
  ASSUME TypeOK, NEW t \in Tasks, EnqueueCheck(t) PROVE TypeOK'
<1>1. Cardinality({u \in Tasks : created[u] # 0}) \in Nat
  <2>1. IsFiniteSet({u \in Tasks : created[u] # 0})
    BY ConstantsAssumption, FS_Subset DEF ConstantsAssumption
  <2> QED
    BY <2>1, FS_CardinalityType
<1> QED
  BY <1>1
     DEF EnqueueCheck, EnqueueStep, SameKeyInMemory, TypeOK, MemType, StoreType, EnqueueType, ThreadType,
         AwaitType, BoundType, EnqueuePlaces, memVars, storeVars, loopVars, awaitVars, bounds

\* The store calls and the insertion of enqueue_direct keep them.
LEMMA EnqueueRestType ==
  ASSUME TypeOK, NEW t \in Tasks,
         EnqueueLookup(t) \/ EnqueuePersist(t) \/ EnqueueStoreError(t) \/ EnqueueInsert(t)
  PROVE  TypeOK'
<1>1. CASE EnqueueLookup(t)
  BY <1>1
     DEF EnqueueLookup, EnqueueStep, SameKeyInStore, TypeOK, MemType, StoreType, EnqueueType,
         ThreadType, AwaitType, BoundType, EnqueuePlaces, memVars, storeVars, loopVars,
         awaitVars, bounds
<1>2. CASE EnqueuePersist(t)
  BY <1>2
     DEF EnqueuePersist, EnqueueStep, TypeOK, MemType, StoreType, EnqueueType, ThreadType,
         AwaitType, BoundType, EnqueuePlaces, States, Pending, memVars, loopVars, awaitVars,
         bounds
<1>3. CASE EnqueueStoreError(t)
  <2>1. BoundType'
    BY <1>3, ConstantsAssumption
       DEF EnqueueStoreError, TypeOK, BoundType, ConstantsAssumption
  <2>2. EnqueueType' /\ enq'[t] # "merged" /\ \A u \in Tasks \ {t} : enq'[u] = enq[u]
    BY <1>3 DEF EnqueueStoreError, EnqueueStep, TypeOK, EnqueueType, EnqueuePlaces
  <2> QED
    BY <1>3, <2>1, <2>2
       DEF EnqueueStoreError, TypeOK, MemType, StoreType, ThreadType, AwaitType, memVars,
           storeVars, loopVars, awaitVars
<1>4. CASE EnqueueInsert(t)
  BY <1>4
     DEF EnqueueInsert, EnqueueStep, TypeOK, MemType, StoreType, EnqueueType, ThreadType,
         AwaitType, BoundType, EnqueuePlaces, States, Pending, storeVars, loopVars,
         awaitVars, bounds
<1> QED
  BY <1>1, <1>2, <1>3, <1>4

\* What a transition sends to its waiters is an answer.
LEMMA SendType ==
  ASSUME AwaitType, NEW who, NEW what, who # {} => what \in Answers
  PROVE  Send(who, what) \in [Awaiters -> Answers]
BY DEF Send, AwaitType

\* record_failure returns a breaker, whatever has left its window.
LEMMA RecordFailureType ==
  ASSUME NEW b \in Breakers PROVE RecordFailure(b) \subseteq Breakers
<1>1. b.recent \in 0 .. Threshold /\ b.open \in BOOLEAN /\ Threshold \in Nat \ {0}
  BY ThresholdAssumption DEF Breakers, ThresholdAssumption
<1>2. \A j \in 0 .. (IF b.recent < Threshold THEN b.recent ELSE Threshold - 1) :
        j + 1 \in 0 .. Threshold
  BY <1>1
<1>3. \A j \in 0 .. (IF b.recent < Threshold THEN b.recent ELSE Threshold - 1) :
        [recent |-> j + 1, open |-> b.open \/ j + 1 >= Threshold] \in Breakers
  BY <1>1, <1>2 DEF Breakers
<1> QED
  BY <1>3 DEF RecordFailure

\* The steps of a thread inside transition() keep the types.
LEMMA InCallType ==
  ASSUME TypeOK, NEW th \in Threads, Threads \subseteq AllThreads,
         WriteRow(th) \/ WriteLog(th) \/ TransitionStoreError(th) \/ Settle(th)
  PROVE  TypeOK'
<1> th \in AllThreads
  OBVIOUS
<1>0. /\ call[th] \in Calls /\ Idle \in Calls /\ Idle.stage = "idle"
      /\ call[th].onOk \in Places /\ call[th].onErr \in Places
  BY DEF TypeOK, ThreadType, Calls, CallStages, Idle, Places, States
<1>1. CASE WriteRow(th)
  <2>1. call[th].task \in Tasks /\ call[th].to \in States
    BY <1>1, <1>0 DEF WriteRow, TypeOK, Calls
  <2>2. call' \in [AllThreads -> Calls]
    BY <1>1, <1>0 DEF WriteRow, TypeOK, ThreadType, Calls, CallStages
  <2> QED
    BY <1>1, <2>1, <2>2
       DEF WriteRow, TypeOK, MemType, StoreType, EnqueueType, ThreadType, AwaitType, BoundType,
           memVars, enqVars, loopVars, awaitVars, bounds
<1>2. CASE WriteLog(th)
  <2>1. call[th].task \in Tasks
    BY <1>2, <1>0 DEF WriteLog, TypeOK
  <2>2. call' \in [AllThreads -> Calls]
    BY <1>2, <1>0 DEF WriteLog, TypeOK, ThreadType, Calls, CallStages
  <2> QED
    BY <1>2, <2>1, <2>2
       DEF WriteLog, TypeOK, MemType, StoreType, EnqueueType, ThreadType, AwaitType, BoundType,
           memVars, enqVars, loopVars, awaitVars, bounds
<1>3. CASE TransitionStoreError(th)
  <2>1. inbox' \in [Awaiters -> Answers]
    BY <1>3, SendType DEF TransitionStoreError, TypeOK, Answers
  <2>2. call' \in [AllThreads -> Calls] /\ pc' \in [AllThreads -> Places]
    BY <1>3, <1>0 DEF TransitionStoreError, TypeOK, ThreadType
  <2>3. th = "worker" => job.task \in Tasks
    BY <1>3 DEF TransitionStoreError, TypeOK, AllThreads
  <2>4. BoundType'
    BY <1>3, ConstantsAssumption DEF TransitionStoreError, TypeOK, BoundType, ConstantsAssumption
  <2> QED
    BY <1>0, <1>3, <2>1, <2>2, <2>3, <2>4
       DEF TransitionStoreError, TypeOK, MemType, StoreType, EnqueueType, ThreadType, AwaitType,
           AllThreads, memVars, storeVars, enqVars, loopVars
<1>4. CASE Settle(th)
  <2>1. AgentOf[call[th].task] \in Agents /\ call[th].to \in States
    BY <1>4, <1>0, ConstantsAssumption DEF Settle, TypeOK, Calls, ConstantsAssumption
  <2>2. inbox' \in [Awaiters -> Answers]
    <3>1. call[th].woken # {} => call[th].to \in Answers
      BY <1>4 DEF Settle, TypeOK, Answers
    <3> QED
      BY <1>4, <3>1, SendType DEF Settle, TypeOK
  <2>3. breaker' \in [Agents -> Breakers]
    <3> DEFINE ag == AgentOf[call[th].task]
    <3>1. breaker[ag] \in Breakers /\ ag \in Agents
      BY <2>1 DEF TypeOK, MemType, Breakers
    <3>2. Closed \in Breakers
      BY ThresholdAssumption DEF Closed, Breakers, ThresholdAssumption
    <3>3. breaker \in [Agents -> Breakers]
      BY DEF TypeOK, MemType
    <3>4. \/ \E b \in RecordFailure(breaker[ag]) : breaker' = [breaker EXCEPT ![ag] = b]
          \/ breaker' = [breaker EXCEPT ![ag] = Closed]
          \/ breaker' = breaker
      BY <1>4 DEF Settle
    <3>5. RecordFailure(breaker[ag]) \subseteq Breakers
      BY <3>1, RecordFailureType
    <3> QED
      BY <3>1, <3>2, <3>3, <3>4, <3>5
  <2>4. call' \in [AllThreads -> Calls] /\ pc' \in [AllThreads -> Places]
    BY <1>4, <1>0 DEF Settle, TypeOK, ThreadType
  <2>5. th = "worker" => job.task \in Tasks
    BY <1>4 DEF Settle, TypeOK, AllThreads
  <2> QED
    BY <1>0, <1>4, <2>2, <2>3, <2>4, <2>5
       DEF Settle, TypeOK, MemType, StoreType, EnqueueType, ThreadType, AwaitType, BoundType,
           AllThreads, storeVars, enqVars, loopVars, bounds
<1> QED
  BY <1>1, <1>2, <1>3, <1>4

\* A loop calls transition() and keeps its own variables typed.
LEMMA LoopCallType ==
  ASSUME TypeOK, NEW th \in AllThreads, NEW t \in Tasks, NEW expected,
         NEW to \in AnyLabel, NEW save \in BOOLEAN,
         NEW onOk \in Places, NEW onErr \in Places, pc[th] # "calling",
         Transition(th, t, expected, to, save, onOk, onErr), TransitionOnly,
         job' = job, th = "worker" => job.task \in Tasks,
         stale' \subseteq Tasks, strikes' \subseteq Tasks,
         toSuspend' \subseteq Tasks \X AnyLabel
  PROVE  TypeOK'
<1>1. /\ mem' \in [Tasks -> States]
      /\ beat' \subseteq Tasks
      /\ waiters' \in [Tasks -> SUBSET Awaiters]
      /\ call' \in [AllThreads -> Calls]
      /\ pc' \in [AllThreads -> Places]
      /\ \A x \in AllThreads :
           call'[x].stage # "idle" =>
             /\ pc'[x] = "calling" /\ call'[x].task \in Tasks /\ call'[x].to # "absent"
             /\ call'[x].woken # {} => call'[x].to \in Terminal
  BY TransitionType
<1>2. pc' = [pc EXCEPT ![th] = pc'[th]]
  BY DEF Transition, TypeOK, ThreadType
<1>3. pc'["worker"] \notin {"idle", "stopped"} => job'.task \in Tasks
  BY <1>2 DEF TypeOK, ThreadType, AllThreads
<1>4. MemType' /\ ThreadType'
  BY <1>1 DEF TypeOK, MemType, ThreadType, TransitionOnly
<1>5. StoreType' /\ EnqueueType' /\ AwaitType' /\ BoundType'
  BY DEF TypeOK, StoreType, EnqueueType, AwaitType, BoundType, TransitionOnly, storeVars,
         enqVars, awaitVars, bounds
<1> QED
  BY <1>1, <1>3, <1>4, <1>5 DEF TypeOK, TransitionOnly, enqVars, awaitVars

\* The task worker keeps the types.
LEMMA WorkerType == ASSUME TypeOK, WorkerNext PROVE TypeOK'
<1> USE DEF TypeOK
<1>1. CASE WorkerPop
  <2>1. PICK t \in queue : /\ queue' = queue \ {t}
                           /\ job' = [task |-> t, seen |-> mem[t]]
    BY <1>1 DEF WorkerPop
  <2>2. /\ t \in Tasks /\ job'.task \in Tasks
        /\ job' \in [task : Tasks \cup {NoTask}, seen : States]
    BY <2>1 DEF MemType
  <2>3. pc' \in [AllThreads -> Places]
    BY <1>1 DEF WorkerPop, ThreadType, Places
  <2> QED
    BY <1>1, <2>1, <2>2, <2>3
       DEF WorkerPop, Worker, MemType, StoreType, EnqueueType, ThreadType, AwaitType, BoundType,
           AllThreads, storeVars, enqVars, awaitVars, bounds
<1>2. CASE WorkerStops
  BY <1>2
     DEF WorkerStops, Worker, MemType, StoreType, EnqueueType, ThreadType, AwaitType, BoundType,
         AllThreads, Places, memVars, storeVars, enqVars, loopVars, awaitVars, bounds
<1> DEFINE Places0 == {"idle", "start", "execute", "turn"}
<1>3. /\ "worker" \in AllThreads /\ Places0 \subseteq Places
      /\ {"failed", "dispatched", "running", "completed"} \subseteq AnyLabel
  BY DEF AllThreads, Places, AnyLabel, Pending, Terminal
<1>4. ASSUME UNCHANGED loopVars
      PROVE  /\ job' = job /\ stale' \subseteq Tasks /\ strikes' \subseteq Tasks
             /\ toSuspend' \subseteq Tasks \X AnyLabel
  BY <1>4 DEF loopVars, ThreadType
<1>5. CASE WorkerChecksBreaker
  <2>1. job.task \in Tasks /\ pc["worker"] = "breaker" /\ "worker" \in AllThreads
    BY <1>5, <1>3 DEF WorkerChecksBreaker, Worker
  <2>2. CASE Transition("worker", job.task, {Label(job.seen)}, "failed", FALSE, "idle", "idle")
    BY <1>5, <2>1, <2>2, <1>3, <1>4, LoopCallType DEF WorkerChecksBreaker
  <2>3. CASE /\ pc' = [pc EXCEPT !["worker"] = NextAfter(job.seen)]
             /\ UNCHANGED <<mem, beat, waiters, call>>
    <3>1. NextAfter(job.seen) \in Places /\ NextAfter(job.seen) # "calling"
      BY DEF NextAfter, Places
    <3> QED
      BY <1>5, <2>1, <2>3, <3>1
         DEF WorkerChecksBreaker, TransitionOnly, MemType, StoreType, EnqueueType, ThreadType,
             AwaitType, BoundType, storeVars, enqVars, loopVars, awaitVars, bounds
  <2> QED
    BY <1>5, <2>2, <2>3 DEF WorkerChecksBreaker
<1>6. CASE WorkerDispatches
  <2>1. job.task \in Tasks /\ pc["worker"] = "dispatch"
    BY <1>6 DEF WorkerDispatches, Worker
  <2> QED
    BY <1>6, <2>1, <1>3, <1>4, LoopCallType DEF WorkerDispatches
<1>7. CASE WorkerStarts
  <2>1. job.task \in Tasks /\ pc["worker"] = "start"
    BY <1>7 DEF WorkerStarts, Worker
  <2> QED
    BY <1>7, <2>1, <1>3, <1>4, LoopCallType DEF WorkerStarts
<1>8. CASE WorkerExecutes
  <2>1. job.task \in Tasks /\ pc["worker"] = "execute"
    BY <1>8 DEF WorkerExecutes, Worker
  <2> QED
    BY <1>8, <2>1, <1>3, <1>4, LoopCallType DEF WorkerExecutes
<1>9. CASE WorkerHasNoRuntime
  <2>1. job.task \in Tasks /\ pc["worker"] = "execute"
    BY <1>9 DEF WorkerHasNoRuntime, Worker
  <2> QED
    BY <1>9, <2>1, <1>3, <1>4, LoopCallType DEF WorkerHasNoRuntime
<1>10. CASE WorkerEndsTurn
  <2>1. job.task \in Tasks /\ pc["worker"] = "turn"
    BY <1>10 DEF WorkerEndsTurn, Worker
  <2>2. PICK outcome \in {"completed", "failed"} :
          Transition("worker", job.task, {"running"}, outcome, FALSE, "idle", "idle")
    BY <1>10 DEF WorkerEndsTurn
  <2>3. outcome \in AnyLabel
    BY <1>3
  <2> QED
    BY <1>10, <2>1, <2>2, <2>3, <1>3, <1>4, LoopCallType DEF WorkerEndsTurn
<1> QED
  BY <1>1, <1>2, <1>5, <1>6, <1>7, <1>8, <1>9, <1>10 DEF WorkerNext

\* The heartbeats and the watchdog keep the types.
LEMMA WatchdogType ==
  ASSUME TypeOK, WatchdogNext \/ \E t \in Tasks : MarkHeartbeat(t) PROVE TypeOK'
<1> USE DEF TypeOK
<1>1. CASE WatchdogScans
  BY <1>1
     DEF WatchdogScans, Watchdog, MemType, StoreType, EnqueueType, ThreadType, AwaitType,
         BoundType, AllThreads, Places, memVars, storeVars, enqVars, awaitVars, bounds
<1>2. CASE WatchdogHandles
  <2>1. PICK t \in stale :
          /\ stale' = stale \ {t}
          /\ IF t \notin strikes
             THEN /\ strikes' = strikes \cup {t}
                  /\ Transition("watchdog", t, AnyLabel, "cancelled", FALSE, "handle", "handle")
             ELSE \/ /\ strikes' = strikes \ {t}
                     /\ Transition("watchdog", t, {"running"}, "failed", FALSE, "handle", "handle")
                  \/ UNCHANGED <<strikes, mem, beat, waiters, pc, call>>
    BY <1>2 DEF WatchdogHandles
  <2>2. /\ t \in Tasks /\ pc["watchdog"] = "handle" /\ TransitionOnly
        /\ job' = job /\ stale' \subseteq Tasks /\ strikes' \subseteq Tasks
        /\ toSuspend' \subseteq Tasks \X AnyLabel
    BY <1>2, <2>1 DEF WatchdogHandles, Watchdog, ThreadType
  <2>3. /\ "watchdog" \in AllThreads /\ "handle" \in Places
        /\ "cancelled" \in AnyLabel /\ "failed" \in AnyLabel /\ "watchdog" # "worker"
    BY DEF AllThreads, Places, AnyLabel, Terminal
  <2>4. CASE UNCHANGED <<strikes, mem, beat, waiters, pc, call>>
    BY <2>2, <2>4
       DEF TransitionOnly, MemType, StoreType, EnqueueType, ThreadType, AwaitType, BoundType,
           storeVars, enqVars, awaitVars, bounds
  <2> QED
    BY <2>1, <2>2, <2>3, <2>4, LoopCallType
<1>3. CASE WatchdogRests
  BY <1>3
     DEF WatchdogRests, Watchdog, MemType, StoreType, EnqueueType, ThreadType, AwaitType,
         BoundType, AllThreads, Places, memVars, storeVars, enqVars, loopVars, awaitVars, bounds
<1>4. CASE \E t \in Tasks : MarkHeartbeat(t)
  BY <1>4
     DEF MarkHeartbeat, MemType, StoreType, EnqueueType, ThreadType, AwaitType,
         BoundType, storeVars, enqVars, loopVars, awaitVars, bounds
<1> QED
  BY <1>1, <1>2, <1>3, <1>4 DEF WatchdogNext

\* graceful_shutdown and the suspension keep the types.
LEMMA ShutdownType == ASSUME TypeOK, ShutdownNext PROVE TypeOK'
<1> USE DEF TypeOK
<1>1. CASE StopAccepting \/ Drained \/ SuspendEnds
  <2>1. /\ pc' \in [AllThreads -> Places] /\ pc'["worker"] = pc["worker"]
        /\ pc["shutdown"] # "calling" /\ \A x \in AllThreads \ {"shutdown"} : pc'[x] = pc[x]
    BY <1>1
       DEF StopAccepting, Drained, SuspendEnds, Shutdown, ThreadType, AllThreads, Places
  <2>2. /\ UNCHANGED <<mem, queue, waiters, beat, breaker, storeVars, enqVars, call, loopVars,
                       awaitVars, up, bounds>>
        /\ accepting' \in BOOLEAN
    BY <1>1 DEF StopAccepting, Drained, SuspendEnds, MemType, memVars
  <2> QED
    BY <2>1, <2>2
       DEF MemType, StoreType, EnqueueType, ThreadType, AwaitType, BoundType, storeVars,
           enqVars, loopVars, awaitVars, bounds
<1>2. CASE GraceEnds
  <2>1. \A t \in Tasks : mem[t] \in Pending => Label(mem[t]) \in AnyLabel
    BY DEF Label, AnyLabel, Pending
  <2>2. toSuspend' \subseteq Tasks \X AnyLabel
    BY <1>2, <2>1 DEF GraceEnds
  <2> QED
    BY <1>2, <2>2
       DEF GraceEnds, Shutdown, MemType, StoreType, EnqueueType, ThreadType, AwaitType,
           BoundType, AllThreads, Places, memVars, storeVars, enqVars, awaitVars, bounds
<1>3. CASE Suspend
  <2>1. PICK c \in toSuspend :
          /\ toSuspend' = toSuspend \ {c}
          /\ \/ /\ Label(mem[c[1]]) = c[2]
                /\ Transition("shutdown", c[1], {c[2]}, "suspended", TRUE, "suspend", "down")
             \/ /\ Label(mem[c[1]]) # c[2]
                /\ UNCHANGED <<mem, beat, waiters, pc, call>>
    BY <1>3 DEF Suspend
  <2>2. /\ c[1] \in Tasks /\ pc["shutdown"] = "suspend" /\ TransitionOnly
        /\ job' = job /\ stale' \subseteq Tasks /\ strikes' \subseteq Tasks
        /\ toSuspend' \subseteq Tasks \X AnyLabel
    BY <1>3, <2>1 DEF Suspend, Shutdown, ThreadType
  <2>3. /\ "shutdown" \in AllThreads /\ "suspend" \in Places /\ "down" \in Places
        /\ "suspended" \in AnyLabel /\ "shutdown" # "worker"
    BY DEF AllThreads, Places, AnyLabel, Pending
  <2>4. CASE Transition("shutdown", c[1], {c[2]}, "suspended", TRUE, "suspend", "down")
    BY <2>2, <2>3, <2>4, LoopCallType
  <2>5. CASE UNCHANGED <<mem, beat, waiters, pc, call>>
    BY <2>2, <2>5
       DEF TransitionOnly, MemType, StoreType, EnqueueType, ThreadType, AwaitType, BoundType,
           storeVars, enqVars, awaitVars, bounds
  <2> QED
    BY <2>1, <2>4, <2>5
<1> QED
  BY <1>1, <1>2, <1>3 DEF ShutdownNext

\* await_task_result keeps the types.
LEMMA AwaitNextType == ASSUME TypeOK, NEW a \in Awaiters, AwaitNext(a) PROVE TypeOK'
<1> USE DEF TypeOK
<1>1. CASE Await(a)
  <2>1. PICK t \in {u \in Tasks : enq[u] = "accepted"}
                     \cup {alias[u] : u \in {v \in Tasks : enq[v] = "merged"}} :
          /\ target' = [target EXCEPT ![a] = t]
          /\ \/ /\ mem[t] \in Terminal
                /\ apc' = [apc EXCEPT ![a] = "done"]
                /\ got' = [got EXCEPT ![a] = mem[t]]
                /\ UNCHANGED waiters
             \/ /\ apc' = [apc EXCEPT ![a] = "resolve"]
                /\ waiters' = [waiters EXCEPT ![t] = @ \cup {a}]
                /\ UNCHANGED got
    BY <1>1 DEF Await
  <2>2. t \in Tasks
    OBVIOUS
  <2>3. AwaitType' /\ \A x \in Awaiters : apc'[x] # "new" => target'[x] \in Tasks
    BY <1>1, <2>1, <2>2 DEF Await, AwaitType, Answers
  <2>4. waiters' \in [Tasks -> SUBSET Awaiters]
    BY <2>1, <2>2 DEF MemType
  <2> QED
    BY <1>1, <2>3, <2>4
       DEF Await, MemType, StoreType, EnqueueType, ThreadType, BoundType, storeVars, enqVars,
           loopVars, bounds
<1>2. CASE AwaitResolves(a)
  <2>1. AwaitType' /\ \A x \in Awaiters : apc'[x] # "new" => target'[x] \in Tasks
    BY <1>2 DEF AwaitResolves, AwaitType, Answers
  <2> QED
    BY <1>2, <2>1
       DEF AwaitResolves, MemType, StoreType, EnqueueType, ThreadType, BoundType, memVars,
           storeVars, enqVars, loopVars, bounds
<1>3. CASE AwaitReceives(a) \/ AwaitTimesOut(a)
  <2>1. AwaitType' /\ \A x \in Awaiters : apc'[x] # "new" => target'[x] \in Tasks
    BY <1>3 DEF AwaitReceives, AwaitTimesOut, AwaitType, Answers
  <2> QED
    BY <1>3, <2>1
       DEF AwaitReceives, AwaitTimesOut, MemType, StoreType, EnqueueType, ThreadType, BoundType,
           memVars, storeVars, enqVars, loopVars, bounds
<1> QED
  BY <1>1, <1>2, <1>3 DEF AwaitNext

\* A crash and bootstrap_from_store keep the types.
LEMMA RestartType ==
  ASSUME TypeOK, Crash \/ Recovered \/ \E t \in Tasks : Recover(t) PROVE TypeOK'
<1> USE DEF TypeOK
<1>1. CASE Crash
  <2>1. Idle \in Calls /\ NoJob \in [task : Tasks \cup {NoTask}, seen : States]
    BY DEF Idle, NoJob, Calls, CallStages, Places, States
  <2>2. MemType'
    BY <1>1, ThresholdAssumption DEF Crash, MemType, States, Closed, Breakers, ThresholdAssumption
  <2>3. ThreadType'
    BY <1>1, <2>1 DEF Crash, ThreadType, Places
  <2>4. EnqueueType' /\ AwaitType' /\ StoreType'
    BY <1>1 DEF Crash, EnqueueType, EnqueuePlaces, AwaitType, StoreType, storeVars
  <2>5. BoundType'
    <3>1. crashes < MaxCrashes /\ crashes' = crashes + 1 /\ errors' = errors
      BY <1>1 DEF Crash
    <3>2. up' \in BOOLEAN
      BY <1>1 DEF Crash
    <3>3. MaxCrashes \in Nat /\ crashes \in 0 .. MaxCrashes /\ errors \in 0 .. MaxStoreErrors
      BY ConstantsAssumption DEF BoundType, ConstantsAssumption
    <3>4. crashes' \in 0 .. MaxCrashes
      BY <3>1, <3>3
    <3> QED
      BY <3>1, <3>2, <3>3, <3>4 DEF BoundType
  <2>6. /\ pc'["worker"] = "idle" /\ \A x \in AllThreads : call'[x].stage = "idle"
        /\ \A t \in Tasks : enq'[t] = "merged" => enq[t] = "merged"
        /\ \A a \in Awaiters : apc'[a] # "new" => apc[a] # "new"
        /\ UNCHANGED <<alias, target>>
    BY <1>1 DEF Crash, EnqueueType, AwaitType, Idle, AllThreads
  <2> QED
    BY <2>2, <2>3, <2>4, <2>5, <2>6
<1>2. CASE Recovered
  BY <1>2
     DEF Recovered, MemType, StoreType, EnqueueType, ThreadType, AwaitType,
         BoundType, memVars, storeVars, enqVars, loopVars, awaitVars, bounds
<1>3. CASE \E t \in Tasks : Recover(t)
  <2>1. PICK t \in Tasks : Recover(t)
    BY <1>3
  <2>2. MemType' /\ StoreType'
    BY <2>1 DEF Recover, MemType, StoreType, States, Pending, Terminal
  <2>3. BoundType'
    BY <2>1, ConstantsAssumption DEF Recover, BoundType, ConstantsAssumption
  <2> QED
    BY <2>1, <2>2, <2>3
       DEF Recover, EnqueueType, ThreadType, AwaitType, enqVars, loopVars, awaitVars
<1> QED
  BY <1>1, <1>2, <1>3

\* Every step of the task manager keeps the types.
LEMMA StepType == TypeOK /\ [Next]_vars => TypeOK'
<1> SUFFICES ASSUME TypeOK, [Next]_vars PROVE TypeOK'
  OBVIOUS
<1>1. CASE \E t \in Tasks : EnqueueNext(t)
  BY <1>1, EnqueueCheckType, EnqueueRestType DEF EnqueueNext
<1>2. CASE \E t \in Tasks : MarkHeartbeat(t)
  BY <1>2, WatchdogType
<1>3. CASE \E t \in Tasks : Recover(t)
  BY <1>3, RestartType
<1>4. CASE InCall
  BY <1>4, InCallType, ConstantsAssumption DEF InCall, ConstantsAssumption
<1>5. CASE WorkerNext
  BY <1>5, WorkerType
<1>6. CASE WatchdogNext
  BY <1>6, WatchdogType
<1>7. CASE ShutdownNext
  BY <1>7, ShutdownType
<1>8. CASE \E a \in Awaiters : AwaitNext(a)
  BY <1>8, AwaitNextType
<1>9. CASE Crash \/ Recovered
  BY <1>9, RestartType
<1>10. CASE UNCHANGED vars
  BY <1>10
     DEF TypeOK, MemType, StoreType, EnqueueType, ThreadType, AwaitType, BoundType, vars,
         memVars, storeVars, enqVars, loopVars, awaitVars, bounds
<1> QED
  BY <1>1, <1>2, <1>3, <1>4, <1>5, <1>6, <1>7, <1>8, <1>9, <1>10 DEF Next

\* Every reachable state of the task manager is well typed, whatever the tasks,
\* the callers and the loops that run.
THEOREM TypeCorrect == Spec => []TypeOK
<1>1. Init => TypeOK
  BY InitType, ConstantsAssumption
<1> QED
  BY <1>1, StepType, PTL DEF Spec

-----------------------------------------------------------------------------
(* Safety.                                                                 *)

\* The critical section of transition(), seen from outside: thread th moves task
\* t to a state, takes the waiters when that is an end, and is in a call.
Moves(th, t, to) ==
  /\ call[th].stage = "idle"
  /\ mem[t] # "absent" /\ to # "absent"
  /\ mem[t] \in Terminal => to \in Terminal
  /\ mem' = [mem EXCEPT ![t] = to]
  /\ waiters' = [waiters EXCEPT ![t] = @ \ Taken(t, to)]
  /\ call'[th].stage = "row" /\ call'[th].task = t
  /\ call'[th].to = to /\ call'[th].woken = Taken(t, to)
  /\ \A x \in AllThreads \ {th} : call'[x] = call[x]

Quiet == UNCHANGED <<mem, waiters, call>>

\* Every use of transition() by a loop is a move or has no effect, given that it
\* never takes a task out of an end.
LEMMA TransitionMoves ==
  ASSUME TypeOK, NEW th \in AllThreads, NEW t \in Tasks, NEW expected \in SUBSET AnyLabel,
         NEW to \in AnyLabel, NEW save \in BOOLEAN,
         NEW onOk \in Places, NEW onErr \in Places, pc[th] # "calling",
         expected \cap Terminal # {} => to \in Terminal,
         Transition(th, t, expected, to, save, onOk, onErr)
  PROVE  Quiet \/ Moves(th, t, to)
<1>1. CASE mem[t] # "absent" /\ Label(mem[t]) \in expected
  <2>1. mem[t] \in Terminal => to \in Terminal
    BY <1>1 DEF Label, Terminal
  <2>2. call[th].stage = "idle" /\ to # "absent"
    BY DEF TypeOK, AnyLabel, Pending, Terminal
  <2> DEFINE c == [stage |-> "row", task |-> t, to |-> to, save |-> save,
                   woken |-> Taken(t, to),
                   onOk |-> onOk, onErr |-> onErr]
  <2>3. /\ mem' = [mem EXCEPT ![t] = to]
        /\ waiters' = [waiters EXCEPT ![t] = @ \ Taken(t, to)]
        /\ call' = [call EXCEPT ![th] = c]
    BY <1>1 DEF Transition
  <2>4. call'[th] = c /\ \A x \in AllThreads \ {th} : call'[x] = call[x]
    BY <2>3 DEF TypeOK, ThreadType
  <2> QED
    BY <1>1, <2>1, <2>2, <2>3, <2>4 DEF Moves
<1>2. CASE ~(mem[t] # "absent" /\ Label(mem[t]) \in expected)
  BY <1>2 DEF Transition, Quiet
<1> QED
  BY <1>1, <1>2

LoopStep == Quiet \/ \E th \in AllThreads, t \in Tasks, to \in AnyLabel : Moves(th, t, to)

LoopFrame == UNCHANGED <<enqVars, storeVars, awaitVars, up>>

\* What a step of the task worker does to the map: a move by transition(), or nothing.
LEMMA WorkerSteps ==
  ASSUME TypeOK, WorkerNext PROVE LoopStep /\ LoopFrame /\ toSuspend' = toSuspend
<1> USE DEF TransitionOnly, LoopFrame, loopVars
<1>1. /\ "worker" \in AllThreads /\ {"idle", "start", "execute", "turn"} \subseteq Places
      /\ {"queued", "dispatched", "running", "failed", "completed"} \subseteq AnyLabel
      /\ {"failed", "completed"} \subseteq Terminal
      /\ {"queued", "dispatched", "running"} \cap Terminal = {}
  BY DEF AllThreads, Places, AnyLabel, Pending, Terminal
<1>2. CASE WorkerPop \/ WorkerStops
  BY <1>2 DEF WorkerPop, WorkerStops, LoopStep, Quiet, memVars
<1>3. CASE WorkerChecksBreaker
  <2>1. job.task \in Tasks /\ pc["worker"] = "breaker"
    BY <1>3 DEF WorkerChecksBreaker, Worker, TypeOK
  <2>2. CASE Transition("worker", job.task, {Label(job.seen)}, "failed", FALSE, "idle", "idle")
    <3>1. job.seen # "absent" => {Label(job.seen)} \in SUBSET AnyLabel
      BY DEF TypeOK, ThreadType, Label, AnyLabel, States, Pending, Terminal
    <3>2. CASE job.seen # "absent"
      BY <1>3, <2>1, <2>2, <3>1, <3>2, <1>1, TransitionMoves DEF WorkerChecksBreaker, LoopStep
    <3>3. CASE job.seen = "absent"
      <4>1. Label(mem[job.task]) \in {Label(job.seen)} => mem[job.task] = "absent"
        BY <3>3 DEF Label
      <4> QED
        BY <1>3, <4>1, <2>2 DEF WorkerChecksBreaker, Transition, LoopStep, Quiet
    <3> QED
      BY <3>2, <3>3
  <2> QED
    BY <1>3, <2>2 DEF WorkerChecksBreaker, LoopStep, Quiet
<1>4. CASE WorkerDispatches
  <2>1. job.task \in Tasks /\ pc["worker"] = "dispatch"
    BY <1>4 DEF WorkerDispatches, Worker, TypeOK
  <2>2. /\ {"queued"} \in SUBSET AnyLabel /\ "dispatched" \in AnyLabel
        /\ {"queued"} \cap Terminal = {}
    BY <1>1 DEF Terminal
  <2>3. Quiet \/ Moves("worker", job.task, "dispatched")
    BY <1>4, <2>1, <2>2, <1>1, TransitionMoves DEF WorkerDispatches
  <2> QED
    BY <1>4, <2>1, <2>2, <2>3, <1>1 DEF WorkerDispatches, LoopStep
<1>5. CASE WorkerStarts
  <2>1. job.task \in Tasks /\ pc["worker"] = "start"
    BY <1>5 DEF WorkerStarts, Worker, TypeOK
  <2>2. /\ {"dispatched"} \in SUBSET AnyLabel /\ "running" \in AnyLabel
        /\ {"dispatched"} \cap Terminal = {}
    BY <1>1 DEF Terminal
  <2>3. Quiet \/ Moves("worker", job.task, "running")
    BY <1>5, <2>1, <2>2, <1>1, TransitionMoves DEF WorkerStarts
  <2> QED
    BY <1>5, <2>1, <2>2, <2>3, <1>1 DEF WorkerStarts, LoopStep
<1>6. CASE WorkerExecutes
  <2>1. job.task \in Tasks /\ pc["worker"] = "execute"
    BY <1>6 DEF WorkerExecutes, Worker, TypeOK
  <2>2. /\ {"running"} \in SUBSET AnyLabel /\ "running" \in AnyLabel
        /\ {"running"} \cap Terminal = {}
    BY <1>1 DEF Terminal
  <2>3. Quiet \/ Moves("worker", job.task, "running")
    BY <1>6, <2>1, <2>2, <1>1, TransitionMoves DEF WorkerExecutes
  <2> QED
    BY <1>6, <2>1, <2>2, <2>3, <1>1 DEF WorkerExecutes, LoopStep
<1>7. CASE WorkerHasNoRuntime
  <2>1. job.task \in Tasks /\ pc["worker"] = "execute"
    BY <1>7 DEF WorkerHasNoRuntime, Worker, TypeOK
  <2> QED
    BY <1>7, <2>1, <1>1, TransitionMoves DEF WorkerHasNoRuntime, LoopStep
<1>8. CASE WorkerEndsTurn
  <2>1. job.task \in Tasks /\ pc["worker"] = "turn"
    BY <1>8 DEF WorkerEndsTurn, Worker, TypeOK
  <2>2. PICK outcome \in {"completed", "failed"} :
          Transition("worker", job.task, {"running"}, outcome, FALSE, "idle", "idle")
    BY <1>8 DEF WorkerEndsTurn
  <2>3. outcome \in AnyLabel /\ {"running"} \in SUBSET AnyLabel
    BY <1>1
  <2>4. Quiet \/ Moves("worker", job.task, outcome)
    BY <2>1, <2>2, <2>3, <1>1, TransitionMoves
  <2> QED
    BY <1>8, <2>1, <2>3, <2>4, <1>1 DEF WorkerEndsTurn, LoopStep
<1> QED
  BY <1>2, <1>3, <1>4, <1>5, <1>6, <1>7, <1>8 DEF WorkerNext

\* The same of the watchdog.
LEMMA WatchdogSteps ==
  ASSUME TypeOK, WatchdogNext \/ \E t \in Tasks : MarkHeartbeat(t)
  PROVE  LoopStep /\ LoopFrame /\ toSuspend' = toSuspend
<1>1. CASE WatchdogScans \/ WatchdogRests \/ \E t \in Tasks : MarkHeartbeat(t)
  BY <1>1 DEF WatchdogScans, WatchdogRests, MarkHeartbeat, LoopStep, LoopFrame, Quiet, memVars,
              loopVars
<1>2. CASE WatchdogHandles
  <2>1. PICK t \in stale :
          IF t \notin strikes
          THEN /\ strikes' = strikes \cup {t}
               /\ Transition("watchdog", t, AnyLabel, "cancelled", FALSE, "handle", "handle")
          ELSE \/ /\ strikes' = strikes \ {t}
                  /\ Transition("watchdog", t, {"running"}, "failed", FALSE, "handle", "handle")
               \/ UNCHANGED <<strikes, mem, beat, waiters, pc, call>>
    BY <1>2 DEF WatchdogHandles
  <2>2. /\ t \in Tasks /\ pc["watchdog"] = "handle"
        /\ "watchdog" \in AllThreads /\ "handle" \in Places
        /\ "cancelled" \in AnyLabel /\ "failed" \in AnyLabel /\ "running" \in AnyLabel
        /\ "cancelled" \in Terminal /\ "failed" \in Terminal
    BY <1>2 DEF WatchdogHandles, Watchdog, TypeOK, ThreadType, AllThreads, Places, AnyLabel,
                Pending, Terminal
  <2>3. CASE UNCHANGED <<strikes, mem, beat, waiters, pc, call>>
    BY <1>2, <2>3 DEF WatchdogHandles, LoopStep, LoopFrame, Quiet, TransitionOnly
  <2> QED
    BY <1>2, <2>1, <2>2, <2>3, TransitionMoves
       DEF WatchdogHandles, LoopStep, LoopFrame, TransitionOnly
<1> QED
  BY <1>1, <1>2 DEF WatchdogNext

\* The same of the shutdown; what it lists was unfinished.
LEMMA ShutdownSteps ==
  ASSUME TypeOK, ListedUnfinished, ShutdownNext
  PROVE  LoopStep /\ LoopFrame /\ ListedUnfinished'
<1>1. CASE StopAccepting \/ Drained \/ SuspendEnds
  BY <1>1 DEF StopAccepting, Drained, SuspendEnds, LoopStep, LoopFrame, Quiet, ListedUnfinished,
              memVars, loopVars
<1>2. CASE GraceEnds
  <2>1. \A t \in Tasks : mem[t] \in Pending => Label(mem[t]) \in {"queued", "dispatched", "running"}
    BY DEF Label, Pending
  <2> QED
    BY <1>2, <2>1 DEF GraceEnds, LoopStep, LoopFrame, Quiet, ListedUnfinished, memVars
<1>3. CASE Suspend
  <2>1. PICK c \in toSuspend :
          /\ toSuspend' = toSuspend \ {c}
          /\ \/ Transition("shutdown", c[1], {c[2]}, "suspended", TRUE, "suspend", "down")
             \/ UNCHANGED <<mem, beat, waiters, pc, call>>
    BY <1>3 DEF Suspend
  <2>2. /\ c[1] \in Tasks /\ pc["shutdown"] = "suspend" /\ TransitionOnly
        /\ {c[2]} \in SUBSET AnyLabel /\ {c[2]} \cap Terminal = {}
        /\ "shutdown" \in AllThreads /\ "suspend" \in Places /\ "down" \in Places
        /\ "suspended" \in AnyLabel
    BY <1>3, <2>1 DEF Suspend, Shutdown, TypeOK, ThreadType, ListedUnfinished, AllThreads, Places,
                      AnyLabel, Pending, Terminal
  <2>3. ListedUnfinished' /\ LoopFrame
    BY <2>1, <2>2 DEF ListedUnfinished, LoopFrame, TransitionOnly
  <2>4. CASE Transition("shutdown", c[1], {c[2]}, "suspended", TRUE, "suspend", "down")
    BY <2>2, <2>3, <2>4, TransitionMoves DEF LoopStep
  <2>5. CASE UNCHANGED <<mem, beat, waiters, pc, call>>
    BY <2>3, <2>5 DEF LoopStep, Quiet
  <2> QED
    BY <2>1, <2>4, <2>5
<1> QED
  BY <1>1, <1>2, <1>3 DEF ShutdownNext

\* The steps of the loops keep the invariant.
LEMMA SafeLoop ==
  ASSUME TypeOK, IInv, LoopStep, LoopFrame, ListedUnfinished' PROVE IInv'
<1>1. CASE Quiet
  BY <1>1
     DEF IInv, EnqueueInv, MergeInv, CallInv, WaiterInv, EveryWaiterIsServed, Quiet, LoopFrame,
         enqVars, storeVars, awaitVars
<1>2. ASSUME NEW th \in AllThreads, NEW t \in Tasks, NEW to \in AnyLabel, Moves(th, t, to)
      PROVE  IInv'
  <2>1. /\ mem[t] # "absent" /\ to # "absent" /\ mem' = [mem EXCEPT ![t] = to]
        /\ call[th].stage = "idle" /\ call'[th].stage = "row" /\ call'[th].task = t
        /\ call'[th].woken = Taken(t, to)
        /\ \A x \in AllThreads \ {th} : call'[x] = call[x]
        /\ waiters' = [waiters EXCEPT ![t] = @ \ Taken(t, to)]
    BY <1>2 DEF Moves
  <2>2. \A u \in Tasks : mem'[u] = IF u = t THEN to ELSE mem[u]
    BY <2>1 DEF TypeOK, MemType
  <2>3. EnqueueInv' /\ MergeInv'
    BY <2>1, <2>2 DEF IInv, EnqueueInv, MergeInv, LoopFrame, enqVars, storeVars
  <2>4. CallInv'
    BY <2>1, <2>2 DEF TypeOK, IInv, CallInv
  <2>5. EveryWaiterIsServed'
    <3> SUFFICES ASSUME NEW a \in Awaiters, apc[a] \in {"resolve", "wait"}, inbox[a] = "none"
                 PROVE  \/ a \in waiters'[target[a]] /\ mem'[target[a]] \notin Terminal
                        \/ \E x \in AllThreads : call'[x].task = target[a] /\ a \in call'[x].woken
      BY DEF EveryWaiterIsServed, LoopFrame, awaitVars
    <3>1. target[a] \in Tasks
      BY DEF TypeOK
    <3>2. CASE \E x \in AllThreads : call[x].task = target[a] /\ a \in call[x].woken
      BY <2>1, <3>2 DEF IInv, CallInv
    <3>3. CASE a \in waiters[target[a]] /\ mem[target[a]] \notin Terminal
      <4>1. CASE to \in Terminal /\ target[a] = t
        BY <2>1, <3>3, <4>1 DEF Taken
      <4>2. CASE ~(to \in Terminal /\ target[a] = t)
        BY <2>1, <2>2, <3>1, <3>3, <4>2 DEF Taken, TypeOK, MemType
      <4> QED
        BY <4>1, <4>2
    <3> QED
      BY <3>2, <3>3 DEF IInv, WaiterInv, EveryWaiterIsServed
  <2>6. WaiterInv'
    BY <2>5 DEF IInv, WaiterInv, LoopFrame, awaitVars
  <2> QED
    BY <2>3, <2>4, <2>6 DEF IInv
<1> QED
  BY <1>1, <1>2 DEF LoopStep

\* The steps of enqueue_direct keep it.
LEMMA SafeEnqueue ==
  ASSUME TypeOK, IInv, NEW t \in Tasks, EnqueueNext(t) PROVE IInv'
<1>1. /\ call' = call /\ toSuspend' = toSuspend /\ waiters' = waiters
      /\ UNCHANGED <<apc, target, inbox>> /\ up' = up /\ up = TRUE
  BY DEF EnqueueNext, EnqueueCheck, EnqueueLookup, EnqueuePersist, EnqueueStoreError,
         EnqueueInsert, EnqueueStep, TypeOK, BoundType, memVars, storeVars, loopVars, awaitVars,
         bounds
<1>2. \A u \in Tasks : mem'[u] = mem[u] \/ (u = t /\ enq[t] = "insert" /\ mem'[t] = "queued")
  BY DEF EnqueueNext, EnqueueCheck, EnqueueLookup, EnqueuePersist, EnqueueStoreError,
         EnqueueInsert, EnqueueStep, TypeOK, MemType, memVars
<1>3. CallInv' /\ ListedUnfinished'
  BY <1>1, <1>2 DEF TypeOK, IInv, CallInv, ListedUnfinished
<1>4. WaiterInv'
  <2>1. \A a \in Awaiters : apc[a] \in {"resolve", "wait"} => target[a] \in Tasks
    BY DEF TypeOK
  <2>2. \A u \in Tasks : mem[u] \notin Terminal => mem'[u] \notin Terminal
    BY <1>2 DEF Terminal
  <2> QED
    BY <1>1, <2>1, <2>2 DEF IInv, WaiterInv, EveryWaiterIsServed
<1>5. EnqueueInv' /\ MergeInv'
  <2>1. CASE EnqueueCheck(t)
    BY <2>1
       DEF EnqueueCheck, EnqueueStep, SameKeyInMemory, IInv, EnqueueInv, MergeInv, TypeOK,
           EnqueueType, Pending, memVars, storeVars
  <2>2. CASE EnqueueLookup(t)
    BY <2>2
       DEF EnqueueLookup, EnqueueStep, SameKeyInStore, IInv, EnqueueInv, MergeInv, TypeOK,
           EnqueueType, Pending, memVars, storeVars
  <2>3. CASE EnqueuePersist(t)
    BY <2>3
       DEF EnqueuePersist, EnqueueStep, IInv, EnqueueInv, MergeInv, TypeOK, EnqueueType,
           StoreType, memVars
  <2>4. CASE EnqueueStoreError(t)
    BY <2>4
       DEF EnqueueStoreError, EnqueueStep, IInv, EnqueueInv, MergeInv, TypeOK, EnqueueType,
           memVars, storeVars
  <2>5. CASE EnqueueInsert(t)
    BY <2>5
       DEF EnqueueInsert, EnqueueStep, IInv, EnqueueInv, MergeInv, TypeOK, EnqueueType, MemType,
           storeVars
  <2> QED
    BY <2>1, <2>2, <2>3, <2>4, <2>5 DEF EnqueueNext
<1> QED
  BY <1>3, <1>4, <1>5 DEF IInv

\* What Send does: who still listens and was named has an answer.
LEMMA SendAnswers ==
  ASSUME NEW who, NEW what, inbox' = Send(who, what), NEW a \in Awaiters
  PROVE  /\ a \notin who => inbox'[a] = inbox[a]
         /\ a \in who /\ apc[a] \in {"resolve", "wait"} => inbox'[a] = what
BY DEF Send

\* The steps of a thread inside transition() keep it.
LEMMA SafeCall ==
  ASSUME TypeOK, IInv, NEW th \in AllThreads,
         WriteRow(th) \/ WriteLog(th) \/ TransitionStoreError(th) \/ Settle(th)
  PROVE  IInv'
<1>1. /\ UNCHANGED <<mem, waiters, toSuspend, apc, target, up>> /\ up = TRUE
      /\ UNCHANGED enqVars
  BY DEF WriteRow, WriteLog, TransitionStoreError, Settle, TypeOK, BoundType, memVars, storeVars,
         loopVars, awaitVars, enqVars
<1>2. \A u \in Tasks : store'[u] = store[u] \/ (store'[u] # "absent" /\ mem[u] # "absent")
  BY DEF WriteRow, WriteLog, TransitionStoreError, Settle, TypeOK, StoreType, IInv, CallInv,
         storeVars
<1>3. EnqueueInv' /\ MergeInv' /\ ListedUnfinished'
  BY <1>1, <1>2 DEF IInv, EnqueueInv, MergeInv, ListedUnfinished, TypeOK, enqVars
<1>4. CASE WriteRow(th) \/ WriteLog(th)
  <2>1. /\ inbox' = inbox /\ call[th].stage # "idle" /\ call'[th].stage # "idle"
        /\ \A x \in AllThreads : /\ call'[x].task = call[x].task
                                 /\ call'[x].woken = call[x].woken
                                 /\ x # th => call'[x].stage = call[x].stage
    BY <1>4 DEF WriteRow, WriteLog, awaitVars, TypeOK, ThreadType, Calls
  <2> QED
    BY <1>1, <1>3, <2>1 DEF IInv, CallInv, WaiterInv, EveryWaiterIsServed
<1>5. CASE TransitionStoreError(th) \/ Settle(th)
  <2>1. PICK what : /\ inbox' = Send(call[th].woken, what)
                    /\ what = "closed" \/ what = call[th].to
                    /\ call[th].stage # "idle"
                    /\ call' = [call EXCEPT ![th] = Idle]
    BY <1>5 DEF TransitionStoreError, Settle
  <2>2. call[th].woken # {} => what # "none"
    BY <2>1 DEF TypeOK, Terminal
  <2>3. /\ call'[th].stage = "idle" /\ call'[th].woken = {}
        /\ \A x \in AllThreads \ {th} : call'[x] = call[x]
    BY <2>1 DEF TypeOK, ThreadType, Idle
  <2>4. CallInv'
    BY <1>1, <2>3 DEF IInv, CallInv
  <2>5. WaiterInv'
    <3> SUFFICES ASSUME NEW a \in Awaiters, apc[a] \in {"resolve", "wait"}, inbox'[a] = "none"
                 PROVE  \/ a \in waiters[target[a]] /\ mem[target[a]] \notin Terminal
                        \/ \E x \in AllThreads : call'[x].task = target[a] /\ a \in call'[x].woken
      BY <1>1 DEF WaiterInv, EveryWaiterIsServed
    <3>1. a \notin call[th].woken /\ inbox[a] = "none"
      BY <2>1, <2>2, SendAnswers
    <3> QED
      BY <2>3, <3>1 DEF IInv, WaiterInv, EveryWaiterIsServed
  <2> QED
    BY <1>3, <2>4, <2>5 DEF IInv
<1> QED
  BY <1>4, <1>5

\* The steps of await_task_result keep it.
LEMMA SafeAwait == ASSUME TypeOK, IInv, NEW a \in Awaiters, AwaitNext(a) PROVE IInv'
<1>1. /\ UNCHANGED <<mem, call, toSuspend, inbox, up>> /\ up = TRUE
      /\ UNCHANGED <<enqVars, storeVars>>
  BY DEF AwaitNext, Await, AwaitResolves, AwaitReceives, AwaitTimesOut, TypeOK, BoundType,
         memVars, loopVars
<1>2. EnqueueInv' /\ MergeInv' /\ CallInv' /\ ListedUnfinished'
  BY <1>1 DEF IInv, EnqueueInv, MergeInv, CallInv, ListedUnfinished, enqVars, storeVars
<1>3. CASE Await(a)
  <2>1. PICK t \in {u \in Tasks : enq[u] = "accepted"}
                     \cup {alias[u] : u \in {v \in Tasks : enq[v] = "merged"}} :
          /\ target' = [target EXCEPT ![a] = t]
          /\ \/ apc' = [apc EXCEPT ![a] = "done"] /\ UNCHANGED waiters
             \/ /\ mem[t] \notin Terminal
                /\ apc' = [apc EXCEPT ![a] = "resolve"]
                /\ waiters' = [waiters EXCEPT ![t] = @ \cup {a}]
    BY <1>3 DEF Await
  <2>2. t \in Tasks
    BY DEF TypeOK
  <2>3. \A x \in Awaiters \ {a} : apc'[x] = apc[x] /\ target'[x] = target[x]
    BY <2>1 DEF TypeOK, AwaitType
  <2>4. \A u \in Tasks : waiters[u] \subseteq waiters'[u]
    BY <2>1, <2>2 DEF TypeOK, MemType
  <2>5. apc'[a] \in {"resolve", "wait"} => /\ a \in waiters'[target'[a]]
                                           /\ mem'[target'[a]] \notin Terminal
    BY <1>1, <2>1, <2>2 DEF TypeOK, AwaitType, MemType
  <2>6. \A x \in Awaiters : apc[x] \in {"resolve", "wait"} => target[x] \in Tasks
    BY DEF TypeOK
  <2> QED
    BY <1>1, <1>2, <2>3, <2>4, <2>5, <2>6 DEF IInv, WaiterInv, EveryWaiterIsServed
<1>4. CASE AwaitResolves(a) \/ AwaitReceives(a) \/ AwaitTimesOut(a)
  <2>1. /\ UNCHANGED <<waiters, target>>
        /\ \A x \in Awaiters : apc'[x] \in {"resolve", "wait"} => apc[x] \in {"resolve", "wait"}
    BY <1>4 DEF AwaitResolves, AwaitReceives, AwaitTimesOut, memVars, TypeOK, AwaitType
  <2> QED
    BY <1>1, <1>2, <2>1 DEF IInv, WaiterInv, EveryWaiterIsServed
<1> QED
  BY <1>3, <1>4 DEF AwaitNext

\* A crash and the recovery keep it.
LEMMA SafeRestart ==
  ASSUME TypeOK, IInv, Crash \/ Recovered \/ \E t \in Tasks : Recover(t) PROVE IInv'
<1>1. CASE Crash
  <2>1. EnqueueInv' /\ MergeInv'
    BY <1>1 DEF Crash, IInv, EnqueueInv, MergeInv, TypeOK, EnqueueType, storeVars
  <2>2. CallInv' /\ ListedUnfinished'
    BY <1>1 DEF Crash, CallInv, ListedUnfinished, Idle
  <2>3. WaiterInv'
    BY <1>1 DEF Crash, WaiterInv, EveryWaiterIsServed, TypeOK, AwaitType
  <2> QED
    BY <2>1, <2>2, <2>3 DEF IInv
<1>2. CASE Recovered
  BY <1>2
     DEF Recovered, IInv, EnqueueInv, MergeInv, CallInv, ListedUnfinished, WaiterInv,
         EveryWaiterIsServed, memVars, storeVars, enqVars, loopVars, awaitVars
<1>3. CASE \E t \in Tasks : Recover(t)
  <2>1. PICK t \in Tasks : Recover(t)
    BY <1>3
  <2>2. /\ up = FALSE /\ up' = FALSE /\ store[t] # "absent"
        /\ UNCHANGED <<waiters, call, toSuspend, apc, target, inbox>> /\ UNCHANGED enqVars
        /\ \A u \in Tasks \ {t} : mem'[u] = mem[u] /\ store'[u] = store[u]
        /\ mem'[t] # "absent" /\ store'[t] # "absent"
    BY <2>1 DEF Recover, Unrecovered, Pending, TypeOK, BoundType, MemType, StoreType, loopVars,
                awaitVars
  <2>3. EnqueueInv' /\ MergeInv'
    BY <2>2 DEF IInv, EnqueueInv, MergeInv, enqVars, TypeOK
  <2>4. CallInv' /\ ListedUnfinished'
    BY <2>2 DEF IInv, CallInv, ListedUnfinished, TypeOK
  <2>5. WaiterInv'
    BY <2>2 DEF IInv, WaiterInv, EveryWaiterIsServed
  <2> QED
    BY <2>3, <2>4, <2>5 DEF IInv
<1> QED
  BY <1>1, <1>2, <1>3

\* The inductive invariant holds at the start.
LEMMA SafeInit == Init => IInv
BY DEF Init, IInv, EnqueueInv, MergeInv, CallInv, ListedUnfinished, WaiterInv,
       EveryWaiterIsServed, Idle

\* Every step keeps the inductive invariant.
LEMMA SafeStep == TypeOK /\ IInv /\ [Next]_vars => IInv'
<1> SUFFICES ASSUME TypeOK, IInv, [Next]_vars PROVE IInv'
  OBVIOUS
<1>1. CASE \E t \in Tasks : EnqueueNext(t)
  BY <1>1, SafeEnqueue
<1>2. CASE WorkerNext
  <2>1. LoopStep /\ LoopFrame /\ toSuspend' = toSuspend
    BY <1>2, WorkerSteps
  <2> QED
    BY <2>1, SafeLoop DEF IInv, ListedUnfinished
<1>3. CASE WatchdogNext \/ \E t \in Tasks : MarkHeartbeat(t)
  <2>1. LoopStep /\ LoopFrame /\ toSuspend' = toSuspend
    BY <1>3, WatchdogSteps
  <2> QED
    BY <2>1, SafeLoop DEF IInv, ListedUnfinished
<1>4. CASE ShutdownNext
  <2>1. LoopStep /\ LoopFrame /\ ListedUnfinished'
    BY <1>4, ShutdownSteps DEF IInv
  <2> QED
    BY <2>1, SafeLoop
<1>5. CASE InCall
  BY <1>5, SafeCall, ConstantsAssumption DEF InCall, ConstantsAssumption
<1>6. CASE \E a \in Awaiters : AwaitNext(a)
  BY <1>6, SafeAwait
<1>7. CASE Crash \/ Recovered \/ \E t \in Tasks : Recover(t)
  BY <1>7, SafeRestart
<1>8. CASE UNCHANGED vars
  BY <1>8
     DEF IInv, EnqueueInv, MergeInv, CallInv, ListedUnfinished, WaiterInv, EveryWaiterIsServed,
         vars, memVars, storeVars, enqVars, loopVars, awaitVars
<1> QED
  BY <1>1, <1>2, <1>3, <1>4, <1>5, <1>6, <1>7, <1>8 DEF Next

\* The inductive invariant: how far an enqueue_direct went tells where its task is
\* known, a thread in transition() moves a known task, and a registered caller can
\* still be answered.
THEOREM Safe == Spec => [](TypeOK /\ IInv)
<1>1. Init => TypeOK /\ IInv
  BY InitType, SafeInit, ConstantsAssumption
<1>2. TypeOK /\ IInv /\ [Next]_vars => TypeOK' /\ IInv'
  BY StepType, SafeStep
<1> QED
  BY <1>1, <1>2, PTL DEF Spec

\* A task enqueue_direct returned, or that a duplicate was merged into, is in the
\* tasks table: no crash at any point loses it.
THEOREM AcceptedTasksAreDurable == Spec => []AcceptedIsDurable
<1>1. IInv => AcceptedIsDurable
  BY DEF IInv, EnqueueInv, MergeInv, AcceptedIsDurable
<1> QED
  BY <1>1, Safe, PTL

\* No interleaving of await_task_result, transition, its store errors, crashes and
\* the three loops leaves a caller registered with nobody to answer it.
THEOREM WaitersAreServed == Spec => []EveryWaiterIsServed
<1>1. IInv => EveryWaiterIsServed
  BY DEF IInv, WaiterInv
<1> QED
  BY <1>1, Safe, PTL

\* The worker, the watchdog and the shutdown act on what they saw some steps ago;
\* still none of them takes a task out of completed, failed or cancelled.
LEMMA MapEndsStay ==
  ASSUME TypeOK, IInv, [Next]_vars, up, up', NEW e \in Tasks, mem[e] \in Terminal
  PROVE  mem'[e] \in Terminal
<1>1. CASE \E t \in Tasks : EnqueueNext(t)
  <2>1. PICK t \in Tasks : EnqueueNext(t)
    BY <1>1
  <2>2. \A u \in Tasks : mem'[u] = mem[u] \/ (u = t /\ enq[t] = "insert")
    BY <2>1
       DEF EnqueueNext, EnqueueCheck, EnqueueLookup, EnqueuePersist, EnqueueStoreError,
           EnqueueInsert, EnqueueStep, TypeOK, MemType, memVars
  <2> QED
    BY <2>2 DEF IInv, EnqueueInv, Terminal
<1>2. CASE LoopStep
  BY <1>2 DEF LoopStep, Quiet, Moves, TypeOK, MemType
<1>3. CASE WorkerNext \/ WatchdogNext \/ ShutdownNext \/ \E t \in Tasks : MarkHeartbeat(t)
  BY <1>2, <1>3, WorkerSteps, WatchdogSteps, ShutdownSteps DEF IInv
<1>4. CASE InCall \/ \E a \in Awaiters : AwaitNext(a)
  BY <1>4 DEF InCall, WriteRow, WriteLog, TransitionStoreError, Settle, AwaitNext, Await,
              AwaitResolves, AwaitReceives, AwaitTimesOut, memVars
<1>5. CASE Crash \/ Recovered \/ \E t \in Tasks : Recover(t)
  BY <1>5 DEF Crash, Recovered, Recover
<1>6. CASE UNCHANGED vars
  BY <1>6 DEF vars, memVars
<1> QED
  BY <1>1, <1>3, <1>4, <1>5, <1>6 DEF Next

-----------------------------------------------------------------------------
(* No row is forgotten.                                                    *)

\* Every step keeps NoRowForgotten: a row appears only for a task that is about to
\* be inserted, or that the map has; recovery ends when no row is left out.
LEMMA ForgottenStep ==
  TypeOK /\ IInv /\ NoRowForgotten /\ [Next]_vars => NoRowForgotten'
<1> SUFFICES ASSUME TypeOK, IInv, NoRowForgotten, [Next]_vars, up' = TRUE,
                    NEW u \in Tasks, store'[u] \in Pending
             PROVE  mem'[u] # "absent" \/ enq'[u] = "insert"
  BY DEF NoRowForgotten, TypeOK, BoundType
<1>1. "absent" \notin Pending /\ "queued" # "absent"
  BY DEF Pending
<1>2. CASE \E t \in Tasks : EnqueueNext(t)
  <2>1. PICK t \in Tasks : EnqueueNext(t)
    BY <1>2
  <2>2. up = TRUE
    BY <2>1 DEF EnqueueNext, EnqueueCheck, EnqueueLookup, EnqueuePersist, EnqueueStoreError,
                EnqueueInsert, EnqueueStep, TypeOK, BoundType
  <2>3. CASE EnqueuePersist(t)
    BY <2>2, <2>3 DEF EnqueuePersist, EnqueueStep, NoRowForgotten, TypeOK, EnqueueType, StoreType,
                      memVars
  <2>4. CASE EnqueueInsert(t)
    BY <2>2, <2>4 DEF EnqueueInsert, EnqueueStep, NoRowForgotten, TypeOK, EnqueueType, MemType,
                      storeVars
  <2>5. CASE EnqueueCheck(t) \/ EnqueueLookup(t) \/ EnqueueStoreError(t)
    <3>1. /\ store' = store /\ mem' = mem /\ enq[t] # "insert"
          /\ \A x \in Tasks \ {t} : enq'[x] = enq[x]
      BY <2>5 DEF EnqueueCheck, EnqueueLookup, EnqueueStoreError, EnqueueStep, TypeOK, EnqueueType,
                  memVars, storeVars
    <3> QED
      BY <2>2, <3>1 DEF NoRowForgotten
  <2> QED
    BY <2>1, <2>3, <2>4, <2>5 DEF EnqueueNext
<1>3. CASE LoopStep /\ LoopFrame
  <2>1. store' = store /\ enq' = enq /\ up = TRUE /\ (mem[u] # "absent" => mem'[u] # "absent")
    BY <1>3 DEF LoopStep, LoopFrame, Quiet, Moves, TypeOK, MemType, BoundType, enqVars, storeVars
  <2> QED
    BY <2>1 DEF NoRowForgotten
<1>4. CASE WorkerNext \/ WatchdogNext \/ ShutdownNext \/ \E t \in Tasks : MarkHeartbeat(t)
  BY <1>3, <1>4, WorkerSteps, WatchdogSteps, ShutdownSteps DEF IInv
<1>5. CASE InCall
  <2>1. PICK th \in Threads : WriteRow(th) \/ WriteLog(th) \/ TransitionStoreError(th) \/ Settle(th)
    BY <1>5 DEF InCall
  <2>2. th \in AllThreads
    BY ConstantsAssumption DEF ConstantsAssumption
  <2>3. mem' = mem /\ enq' = enq /\ up = TRUE
    BY <2>1 DEF WriteRow, WriteLog, TransitionStoreError, Settle, TypeOK, BoundType, memVars,
                enqVars
  <2>4. store'[u] = store[u] \/ mem[u] # "absent"
    BY <2>1, <2>2 DEF WriteRow, WriteLog, TransitionStoreError, Settle, TypeOK, StoreType, IInv,
                      CallInv, storeVars
  <2> QED
    BY <2>3, <2>4 DEF NoRowForgotten
<1>6. CASE \E a \in Awaiters : AwaitNext(a)
  <2>1. mem' = mem /\ enq' = enq /\ store' = store /\ up = TRUE
    BY <1>6 DEF AwaitNext, Await, AwaitResolves, AwaitReceives, AwaitTimesOut, TypeOK, BoundType,
                memVars, enqVars, storeVars
  <2> QED
    BY <2>1 DEF NoRowForgotten
<1>7. CASE Crash \/ \E t \in Tasks : Recover(t)
  BY <1>7 DEF Crash, Recover, TypeOK, BoundType
<1>8. CASE Recovered
  BY <1>8 DEF Recovered, Unrecovered, memVars, storeVars
<1>9. CASE UNCHANGED vars
  BY <1>9 DEF NoRowForgotten, vars, memVars, storeVars, enqVars
<1> QED
  BY <1>2, <1>4, <1>5, <1>6, <1>7, <1>8, <1>9 DEF Next

\* The daemon that is up has every unfinished row of the tasks table in its map,
\* whatever it crashed in the middle of, but for those an enqueue_direct is about
\* to insert: no crash, recovery or failed store call leaves a task only in the
\* table.
THEOREM NoRowIsForgotten == Spec => []NoRowForgotten
<1>1. Init => NoRowForgotten
  BY DEF Init, NoRowForgotten, Pending
<1> QED
  BY <1>1, Safe, ForgottenStep, PTL DEF Spec

-----------------------------------------------------------------------------
(* No task is stranded.                                                    *)

\* What the watchdog and the shutdown leave a task in.
Resting == Terminal \cup {"suspended"}

WorkerAt(places) == pc["worker"] \in places

Between == {"idle", "stopped"}

\* The worker's clone is of a known task that left the queue, in and out of a call.
WorkerInv ==
  /\ WorkerAt({"calling", "breaker", "dispatch", "start", "execute", "turn"} \cup Between)
  /\ WorkerAt({"calling"}) => /\ call["worker"].stage # "idle"
                              /\ call["worker"].task = job.task
                              /\ call["worker"].onOk \in {"idle", "start", "execute", "turn"}
                              /\ call["worker"].onErr \in {"idle", "turn"}
  /\ ~WorkerAt(Between) => mem[job.task] # "absent" /\ job.task \notin queue
  /\ \A t \in queue : mem[t] # "absent"

\* The task in the worker's hands is in the state the worker expects there, unless
\* another loop put it to rest.
Held ==
  \/ mem[job.task] \in Resting
  \/ WorkerAt({"breaker"}) /\ mem[job.task] = job.seen
  \/ WorkerAt({"dispatch"}) /\ mem[job.task] = "queued"
  \/ WorkerAt({"start"}) /\ mem[job.task] = "dispatched"
  \/ WorkerAt({"execute", "turn"}) /\ mem[job.task] = "running"
  \/ /\ WorkerAt({"calling"}) /\ mem[job.task] = call["worker"].to
     /\ \/ call["worker"].to = "dispatched" /\ call["worker"].onOk = "start"
        \/ call["worker"].to = "running" /\ call["worker"].onOk \in {"execute", "turn"}

KeptInv ==
  errors = 0 =>
    /\ \A t \in Tasks : mem[t] \in Pending \ {"suspended"} => t \in queue \/ WorkedOn(t)
    /\ ~WorkerAt(Between) => Held

HandInv == WorkerInv /\ KeptInv

\* What the steps that are not the worker's do to what the worker holds.
Aside ==
  /\ job' = job /\ pc'["worker"] = pc["worker"] /\ call'["worker"] = call["worker"]
  /\ errors' \in Nat /\ (errors' = 0 => errors = 0)
  /\ \A t \in Tasks : \/ mem'[t] = mem[t]
                      \/ mem[t] # "absent" /\ mem'[t] \in Resting
                      \/ mem[t] = "absent" /\ mem'[t] \in Resting
                      \/ mem[t] = "absent" /\ mem'[t] # "absent" /\ t \in queue'
  /\ \A t \in queue : t \in queue'
  /\ \A t \in queue' : t \in queue \/ (mem[t] = "absent" /\ mem'[t] # "absent")

\* A step aside of the worker keeps the invariant: it takes nothing out of the worker's
\* hands or out of the queue, and can only put a task to rest.
LEMMA AsideKeeps == ASSUME TypeOK, HandInv, Aside PROVE HandInv'
<1>1. "absent" \notin Resting /\ Resting \cap (Pending \ {"suspended"}) = {}
  BY DEF Resting, Terminal, Pending
<1>2. queue \subseteq Tasks
  BY DEF TypeOK, MemType
<1>3. ~WorkerAt(Between) => job.task \in Tasks
  BY DEF TypeOK, WorkerAt, Between
<1>4. \A p : WorkerAt(p)' <=> WorkerAt(p)
  BY DEF Aside, WorkerAt
<1>5. ~WorkerAt(Between) => /\ mem[job.task] # "absent" /\ job.task \notin queue
                            /\ mem'[job.task] = mem[job.task] \/ mem'[job.task] \in Resting
                            /\ mem'[job.task] # "absent" /\ job.task \notin queue'
  BY <1>1, <1>3 DEF HandInv, WorkerInv, Aside
<1>6. \A t \in queue' : mem'[t] # "absent"
  BY <1>1, <1>2 DEF HandInv, WorkerInv, Aside
<1>7. WorkerInv'
  BY <1>4, <1>5, <1>6 DEF HandInv, WorkerInv, Aside, WorkerAt
<1>8. ASSUME errors' = 0, ~WorkerAt(Between) PROVE Held'
  BY <1>4, <1>5, <1>8 DEF HandInv, KeptInv, Held, Aside, WorkerAt
<1>9. ASSUME errors' = 0, NEW t \in Tasks, mem'[t] \in Pending \ {"suspended"}
      PROVE  t \in queue' \/ WorkedOn(t)'
  BY <1>1, <1>9 DEF HandInv, KeptInv, Aside, WorkedOn
<1>10. KeptInv'
  BY <1>4, <1>8, <1>9 DEF KeptInv, WorkerAt
<1> QED
  BY <1>7, <1>10 DEF HandInv

\* The watchdog only cancels and fails tasks.
LEMMA WatchdogAside ==
  ASSUME TypeOK, WatchdogNext \/ \E t \in Tasks : MarkHeartbeat(t) PROVE Aside
<1>0. errors \in Nat /\ pc \in [AllThreads -> Places] /\ call \in [AllThreads -> Calls]
      /\ mem \in [Tasks -> States] /\ "worker" \in AllThreads
  BY ConstantsAssumption
     DEF TypeOK, BoundType, ThreadType, MemType, ConstantsAssumption, AllThreads
<1>1. CASE WatchdogScans \/ WatchdogRests \/ \E t \in Tasks : MarkHeartbeat(t)
  BY <1>0, <1>1 DEF WatchdogScans, WatchdogRests, MarkHeartbeat, Aside, memVars, loopVars, bounds
<1>2. CASE WatchdogHandles
  <2>1. PICK t \in stale, to \in {"cancelled", "failed"}, e \in SUBSET AnyLabel :
            \/ Transition("watchdog", t, e, to, FALSE, "handle", "handle")
            \/ UNCHANGED <<mem, beat, waiters, pc, call>>
    <3>1. AnyLabel \in SUBSET AnyLabel /\ {"running"} \in SUBSET AnyLabel
      BY DEF AnyLabel, Pending
    <3> QED
      BY <1>2, <3>1 DEF WatchdogHandles
  <2>2. /\ \A x \in Tasks : mem'[x] = mem[x] \/ (mem[x] # "absent" /\ mem'[x] = to)
        /\ pc'["worker"] = pc["worker"] /\ call'["worker"] = call["worker"]
    BY <1>0, <2>1 DEF Transition
  <2>3. to \in Resting
    BY DEF Resting, Terminal
  <2> QED
    BY <1>0, <1>2, <2>2, <2>3 DEF WatchdogHandles, TransitionOnly, Aside, bounds
<1> QED
  BY <1>1, <1>2 DEF WatchdogNext

\* The shutdown only suspends tasks.
LEMMA ShutdownAside == ASSUME TypeOK, ShutdownNext PROVE Aside
<1>0. errors \in Nat /\ pc \in [AllThreads -> Places] /\ call \in [AllThreads -> Calls]
      /\ mem \in [Tasks -> States] /\ "worker" \in AllThreads
  BY ConstantsAssumption
     DEF TypeOK, BoundType, ThreadType, MemType, ConstantsAssumption, AllThreads
<1>1. CASE StopAccepting \/ Drained \/ GraceEnds \/ SuspendEnds
  BY <1>0, <1>1 DEF StopAccepting, Drained, GraceEnds, SuspendEnds, Aside, memVars, loopVars, bounds
<1>2. CASE Suspend
  <2>1. PICK c \in toSuspend :
            \/ Transition("shutdown", c[1], {c[2]}, "suspended", TRUE, "suspend", "down")
            \/ UNCHANGED <<mem, beat, waiters, pc, call>>
    BY <1>2 DEF Suspend
  <2>2. /\ \A x \in Tasks : mem'[x] = mem[x] \/ (mem[x] # "absent" /\ mem'[x] = "suspended")
        /\ pc'["worker"] = pc["worker"] /\ call'["worker"] = call["worker"]
    BY <1>0, <2>1 DEF Transition
  <2> QED
    BY <1>0, <1>2, <2>2 DEF Suspend, TransitionOnly, Aside, bounds, Resting
<1> QED
  BY <1>1, <1>2 DEF ShutdownNext

\* enqueue_direct puts a task the map did not have in the map and the queue at once.
LEMMA EnqueueAside ==
  ASSUME TypeOK, IInv, HandInv, NEW t \in Tasks, EnqueueNext(t) PROVE Aside
<1>0. errors \in Nat /\ mem \in [Tasks -> States]
  BY ConstantsAssumption DEF TypeOK, BoundType, MemType, ConstantsAssumption
<1>1. CASE EnqueueInsert(t)
  <2>1. mem[t] = "absent"
    BY <1>1 DEF EnqueueInsert, EnqueueStep, IInv, EnqueueInv
  <2> QED
    BY <1>0, <1>1, <2>1 DEF EnqueueInsert, Aside, loopVars, bounds
<1>2. CASE EnqueueCheck(t) \/ EnqueueLookup(t) \/ EnqueuePersist(t) \/ EnqueueStoreError(t)
  BY <1>0, <1>2 DEF EnqueueCheck, EnqueueLookup, EnqueuePersist, EnqueueStoreError, Aside, memVars,
                loopVars, bounds
<1> QED
  BY <1>1, <1>2 DEF EnqueueNext

\* await_task_result does not touch tasks.
LEMMA AwaitAside == ASSUME TypeOK, NEW a \in Awaiters, AwaitNext(a) PROVE Aside
<1>0. errors \in Nat
  BY ConstantsAssumption DEF TypeOK, BoundType, ConstantsAssumption
<1> QED
  BY <1>0 DEF AwaitNext, Await, AwaitResolves, AwaitReceives, AwaitTimesOut, Aside, memVars,
              loopVars, bounds

\* The calls of the other loops, and of the worker, keep the invariant.
LEMMA HandInCall ==
  ASSUME TypeOK, HandInv, NEW th \in AllThreads,
         WriteRow(th) \/ WriteLog(th) \/ TransitionStoreError(th) \/ Settle(th)
  PROVE  HandInv'
<1>0. errors \in Nat /\ pc \in [AllThreads -> Places] /\ call \in [AllThreads -> Calls]
      /\ mem \in [Tasks -> States] /\ "worker" \in AllThreads
  BY ConstantsAssumption DEF TypeOK, BoundType, ThreadType, MemType, ConstantsAssumption, AllThreads
<1>1. /\ mem' = mem /\ queue' = queue /\ job' = job
  BY DEF WriteRow, WriteLog, TransitionStoreError, Settle, memVars, loopVars
<1>2. errors' \in Nat /\ (errors' = 0 => errors = 0)
  BY <1>0 DEF WriteRow, WriteLog, TransitionStoreError, Settle, bounds
<1>3. CASE th # "worker"
  <2>1. pc'["worker"] = pc["worker"] /\ call'["worker"] = call["worker"]
    BY <1>0, <1>3 DEF WriteRow, WriteLog, TransitionStoreError, Settle
  <2> QED
    BY <1>1, <1>2, <2>1, AsideKeeps DEF Aside
<1>4. CASE th = "worker" /\ (WriteRow(th) \/ WriteLog(th))
  <2>1. /\ pc'["worker"] = pc["worker"] /\ errors' = errors
        /\ call'["worker"].stage # "idle" /\ call'["worker"].task = call["worker"].task
        /\ call'["worker"].to = call["worker"].to
        /\ call'["worker"].onOk = call["worker"].onOk
        /\ call'["worker"].onErr = call["worker"].onErr
    BY <1>0, <1>4 DEF WriteRow, WriteLog, bounds, Calls
  <2> QED
    BY <1>1, <2>1 DEF HandInv, WorkerInv, KeptInv, Held, WorkerAt, WorkedOn, Between
<1>5. CASE th = "worker" /\ TransitionStoreError(th)
  <2>1. pc["worker"] = "calling" /\ pc'["worker"] = call["worker"].onErr /\ errors' # 0
    BY <1>0, <1>5 DEF TransitionStoreError, TypeOK
  <2> QED
    BY <1>1, <2>1 DEF HandInv, WorkerInv, KeptInv, WorkerAt, Between
<1>6. CASE th = "worker" /\ Settle(th)
  <2>1. pc["worker"] = "calling" /\ pc'["worker"] = call["worker"].onOk /\ errors' = errors
    BY <1>0, <1>6 DEF Settle, TypeOK, bounds
  <2>2. WorkerInv'
    BY <1>1, <2>1 DEF HandInv, WorkerInv, WorkerAt, Between
  <2>3. ASSUME errors = 0 PROVE Held
    BY <2>1, <2>3 DEF HandInv, KeptInv, WorkerAt, Between
  <2>4. ASSUME errors' = 0, ~WorkerAt(Between)' PROVE Held'
    BY <1>1, <2>1, <2>3, <2>4 DEF Held, HandInv, WorkerInv, WorkerAt, Between
  <2>5. ASSUME errors' = 0, NEW t \in Tasks, mem'[t] \in Pending \ {"suspended"}
        PROVE  t \in queue' \/ WorkedOn(t)'
    <3>1. t \in queue \/ t = job.task
      BY <1>1, <2>1, <2>5 DEF HandInv, KeptInv, WorkedOn
    <3>2. CASE t = job.task
      BY <1>1, <2>1, <2>3, <2>5, <3>2 DEF Held, WorkedOn, WorkerAt, Resting, Pending, Terminal
    <3> QED
      BY <1>1, <3>1, <3>2
  <2> QED
    BY <2>2, <2>4, <2>5 DEF HandInv, KeptInv
<1> QED
  BY <1>3, <1>4, <1>5, <1>6

\* A call of transition() by the worker for the task it holds: it moves the task and
\* is in the call, or the task was not in the state it expected.
LEMMA WorkerCalls ==
  ASSUME TypeOK, NEW expected, NEW to \in AnyLabel, NEW onOk \in Places, NEW onErr \in Places,
         pc["worker"] \notin {"calling", "idle", "stopped"},
         Transition("worker", job.task, expected, to, FALSE, onOk, onErr)
  PROVE  \/ /\ mem' = [mem EXCEPT ![job.task] = to]
            /\ pc'["worker"] = "calling" /\ call'["worker"].stage = "row"
            /\ call'["worker"].task = job.task /\ call'["worker"].to = to
            /\ call'["worker"].onOk = onOk /\ call'["worker"].onErr = onErr
         \/ mem' = mem /\ pc'["worker"] = onErr
            /\ (mem[job.task] = "absent" \/ Label(mem[job.task]) \notin expected)
<1>0. job.task \in Tasks /\ pc \in [AllThreads -> Places] /\ call \in [AllThreads -> Calls]
      /\ "worker" \in AllThreads
  BY DEF TypeOK, ThreadType, AllThreads
<1> QED
  BY <1>0 DEF Transition

\* Such a call keeps the invariant, whatever its continuation, when the worker goes
\* on rightly after it and gives the task up only if it is at rest.
LEMMA WorkerCallKeeps ==
  ASSUME TypeOK, HandInv, NEW expected, NEW to \in AnyLabel,
         NEW onOk \in {"idle", "start", "execute", "turn"}, NEW onErr \in {"idle", "turn"},
         pc["worker"] \notin {"calling", "idle", "stopped"},
         Transition("worker", job.task, expected, to, FALSE, onOk, onErr),
         queue' = queue, job' = job, errors' = errors,
         \/ to \in Terminal
         \/ to = "dispatched" /\ onOk = "start"
         \/ to = "running" /\ onOk \in {"execute", "turn"},
         errors = 0 /\ mem[job.task] \notin Resting => Label(mem[job.task]) \in expected
  PROVE  HandInv'
<1>0. /\ job.task \in Tasks /\ mem \in [Tasks -> States] /\ to # "absent"
      /\ onOk \in Places /\ onErr \in Places
      /\ Resting \cap (Pending \ {"suspended"}) = {} /\ Terminal \subseteq Resting
  BY DEF TypeOK, MemType, AnyLabel, Places, Pending, Terminal, Resting
<1>1. mem[job.task] # "absent" /\ job.task \notin queue
  BY DEF HandInv, WorkerInv, WorkerAt, Between
<1>2. CASE /\ mem' = [mem EXCEPT ![job.task] = to]
           /\ pc'["worker"] = "calling" /\ call'["worker"].stage = "row"
           /\ call'["worker"].task = job.task /\ call'["worker"].to = to
           /\ call'["worker"].onOk = onOk /\ call'["worker"].onErr = onErr
  <2>1. \A t \in Tasks : mem'[t] = IF t = job.task THEN to ELSE mem[t]
    BY <1>0, <1>2
  <2>2. WorkerInv'
    <3>1. \A t \in queue : t \in Tasks
      BY DEF TypeOK, MemType
    <3> QED
      BY <1>0, <1>1, <1>2, <2>1, <3>1 DEF HandInv, WorkerInv, WorkerAt, Between
  <2>3. Held'
    BY <1>0, <1>2, <2>1 DEF Held, WorkerAt
  <2>4. ASSUME errors = 0, NEW t \in Tasks, mem'[t] \in Pending \ {"suspended"}
        PROVE  t \in queue' \/ WorkedOn(t)'
    <3>1. CASE t = job.task
      BY <1>2, <3>1 DEF WorkedOn
    <3>2. CASE t # job.task
      BY <2>1, <2>4, <3>2 DEF HandInv, KeptInv, WorkedOn
    <3> QED
      BY <3>1, <3>2
  <2> QED
    BY <2>2, <2>3, <2>4 DEF HandInv, KeptInv
<1>3. CASE /\ mem' = mem /\ pc'["worker"] = onErr
           /\ mem[job.task] = "absent" \/ Label(mem[job.task]) \notin expected
  <2>1. errors = 0 => mem[job.task] \in Resting
    BY <1>1, <1>3
  <2>2. WorkerInv'
    BY <1>1, <1>3 DEF HandInv, WorkerInv, WorkerAt, Between
  <2>3. errors = 0 => Held'
    BY <1>3, <2>1 DEF Held
  <2>4. ASSUME errors = 0, NEW t \in Tasks, mem'[t] \in Pending \ {"suspended"}
        PROVE  t \in queue'
    BY <1>0, <1>3, <2>1, <2>4 DEF HandInv, KeptInv, WorkedOn
  <2> QED
    BY <2>2, <2>3, <2>4 DEF HandInv, KeptInv
<1> QED
  BY <1>0, <1>2, <1>3, WorkerCalls

\* The worker keeps the invariant.
LEMMA HandWorker == ASSUME TypeOK, HandInv, WorkerNext PROVE HandInv'
<1>0. /\ pc \in [AllThreads -> Places] /\ "worker" \in AllThreads /\ mem \in [Tasks -> States]
      /\ queue \subseteq Tasks
      /\ {"failed", "completed"} \subseteq Terminal
      /\ {"failed", "completed", "running", "dispatched"} \subseteq AnyLabel
  BY DEF TypeOK, ThreadType, MemType, AllThreads, AnyLabel, Pending, Terminal
<1>1. ASSUME TransitionOnly, UNCHANGED loopVars
      PROVE  queue' = queue /\ job' = job /\ errors' = errors
  BY <1>1 DEF TransitionOnly, loopVars, bounds
<1>2. CASE WorkerPop
  <2>1. PICK t \in queue : /\ queue' = queue \ {t}
                           /\ job' = [task |-> t, seen |-> mem[t]]
    BY <1>2 DEF WorkerPop
  <2>2. /\ pc["worker"] = "idle" /\ pc'["worker"] = "breaker" /\ mem' = mem /\ errors' = errors
        /\ job'.task = t /\ job'.seen = mem[t]
    BY <1>0, <1>2, <2>1 DEF WorkerPop, Worker, bounds
  <2>3. WorkerInv'
    BY <2>1, <2>2 DEF HandInv, WorkerInv, WorkerAt, Between
  <2>4. KeptInv'
    BY <2>1, <2>2 DEF HandInv, KeptInv, Held, WorkedOn, WorkerAt, Between
  <2> QED
    BY <2>3, <2>4 DEF HandInv
<1>3. CASE WorkerStops
  <2>1. /\ pc["worker"] = "idle" /\ pc'["worker"] = "stopped"
        /\ mem' = mem /\ errors' = errors /\ queue' = queue /\ job' = job
    BY <1>0, <1>3 DEF WorkerStops, Worker, memVars, loopVars, bounds
  <2> QED
    BY <2>1 DEF HandInv, WorkerInv, KeptInv, WorkedOn, WorkerAt, Between
<1>4. ASSUME pc["worker"] \notin Between, errors = 0 PROVE Held
  BY <1>4 DEF HandInv, KeptInv, WorkerAt
<1>5. CASE WorkerChecksBreaker
  <2>1. pc["worker"] = "breaker" /\ job.task \in Tasks /\ mem[job.task] # "absent"
    BY <1>5 DEF WorkerChecksBreaker, Worker, TypeOK, HandInv, WorkerInv, WorkerAt, Between
  <2>2. errors = 0 => mem[job.task] \in Resting \/ mem[job.task] = job.seen
    BY <1>4, <2>1 DEF Held, WorkerAt, Between
  <2>3. CASE Transition("worker", job.task, {Label(job.seen)}, "failed", FALSE, "idle", "idle")
    BY <1>0, <1>1, <1>5, <2>1, <2>2, <2>3, WorkerCallKeeps DEF WorkerChecksBreaker
  <2>4. CASE /\ pc' = [pc EXCEPT !["worker"] = NextAfter(job.seen)]
             /\ UNCHANGED <<mem, beat, waiters, call>>
    <3>1. /\ pc'["worker"] = NextAfter(job.seen) /\ mem' = mem
          /\ queue' = queue /\ job' = job /\ errors' = errors
      BY <1>0, <1>1, <1>5, <2>4 DEF WorkerChecksBreaker
    <3>2. NextAfter(job.seen) \in {"dispatch", "start", "execute", "idle"}
      BY DEF NextAfter
    <3>3. WorkerInv'
      BY <2>1, <3>1, <3>2 DEF HandInv, WorkerInv, WorkerAt, Between
    <3>4. mem[job.task] \in {"queued", "dispatched", "running"} \cup Resting
      BY <1>0, <2>1 DEF States, Pending, Resting
    <3>5. ASSUME errors = 0, mem[job.task] = job.seen, mem[job.task] \notin Resting
          PROVE  \/ mem[job.task] = "queued" /\ NextAfter(job.seen) = "dispatch"
                 \/ mem[job.task] = "dispatched" /\ NextAfter(job.seen) = "start"
                 \/ mem[job.task] = "running" /\ NextAfter(job.seen) = "execute"
      BY <3>4, <3>5 DEF NextAfter, Label
    <3>6. errors = 0 => Held'
      BY <2>2, <3>1, <3>5 DEF Held, WorkerAt
    <3>7. ASSUME errors = 0, NEW t \in Tasks, mem'[t] \in Pending \ {"suspended"}
          PROVE  t \in queue' \/ WorkedOn(t)'
      <4>1. t \in queue \/ t = job.task
        BY <3>1, <3>7 DEF HandInv, KeptInv, WorkedOn
      <4>2. mem[t] \notin Resting
        BY <3>1, <3>7 DEF Resting, Pending, Terminal
      <4> QED
        BY <2>2, <3>1, <3>5, <3>7, <4>1, <4>2 DEF WorkedOn
    <3> QED
      BY <3>1, <3>3, <3>6, <3>7 DEF HandInv, KeptInv
  <2> QED
    BY <1>5, <2>3, <2>4 DEF WorkerChecksBreaker
<1>6. CASE WorkerDispatches
  <2>1. pc["worker"] = "dispatch"
    BY <1>6 DEF WorkerDispatches, Worker
  <2>2. errors = 0 /\ mem[job.task] \notin Resting => Label(mem[job.task]) \in {"queued"}
    BY <1>4, <2>1 DEF Held, WorkerAt, Between, Label
  <2> QED
    BY <1>0, <1>1, <1>6, <2>1, <2>2, WorkerCallKeeps DEF WorkerDispatches
<1>7. CASE WorkerStarts
  <2>1. pc["worker"] = "start"
    BY <1>7 DEF WorkerStarts, Worker
  <2>2. errors = 0 /\ mem[job.task] \notin Resting => Label(mem[job.task]) \in {"dispatched"}
    BY <1>4, <2>1 DEF Held, WorkerAt, Between, Label
  <2> QED
    BY <1>0, <1>1, <1>7, <2>1, <2>2, WorkerCallKeeps DEF WorkerStarts
<1>8. ASSUME pc["worker"] \in {"execute", "turn"}
      PROVE  errors = 0 /\ mem[job.task] \notin Resting => Label(mem[job.task]) \in {"running"}
  BY <1>4, <1>8 DEF Held, WorkerAt, Between, Label
<1>9. CASE WorkerExecutes
  <2>1. pc["worker"] = "execute"
    BY <1>9 DEF WorkerExecutes, Worker
  <2> QED
    BY <1>0, <1>1, <1>8, <1>9, <2>1, WorkerCallKeeps DEF WorkerExecutes
<1>10. CASE WorkerHasNoRuntime
  <2>1. pc["worker"] = "execute"
    BY <1>10 DEF WorkerHasNoRuntime, Worker
  <2> QED
    BY <1>0, <1>1, <1>8, <1>10, <2>1, WorkerCallKeeps DEF WorkerHasNoRuntime
<1>11. CASE WorkerEndsTurn
  <2>1. pc["worker"] = "turn"
    BY <1>11 DEF WorkerEndsTurn, Worker
  <2>2. PICK outcome \in {"completed", "failed"} :
          Transition("worker", job.task, {"running"}, outcome, FALSE, "idle", "idle")
    BY <1>11 DEF WorkerEndsTurn
  <2>3. outcome \in AnyLabel /\ outcome \in Terminal
    BY <1>0
  <2> QED
    BY <1>1, <1>8, <1>11, <2>1, <2>2, <2>3, WorkerCallKeeps DEF WorkerEndsTurn
<1> QED
  BY <1>2, <1>3, <1>5, <1>6, <1>7, <1>9, <1>10, <1>11 DEF WorkerNext

\* So do a crash and the recovery.
LEMMA HandRestart ==
  ASSUME TypeOK, HandInv, Crash \/ Recovered \/ \E t \in Tasks : Recover(t) PROVE HandInv'
<1>0. errors \in Nat /\ mem \in [Tasks -> States]
  BY ConstantsAssumption DEF TypeOK, BoundType, MemType, ConstantsAssumption
<1>1. CASE Crash
  <2>1. /\ pc'["worker"] = "idle" /\ queue' = {}
        /\ \A t \in Tasks : mem'[t] \notin Pending
    BY <1>1 DEF Crash, AllThreads, Pending
  <2> QED
    BY <2>1 DEF HandInv, WorkerInv, KeptInv, WorkerAt, Between
<1>2. CASE Recovered
  BY <1>0, <1>2, AsideKeeps DEF Recovered, Aside, memVars, loopVars, bounds
<1>3. CASE \E t \in Tasks : Recover(t)
  <2>1. PICK t \in Tasks : Recover(t)
    BY <1>3
  <2>2. /\ mem[t] = "absent" /\ \A u \in Tasks \ {t} : mem'[u] = mem[u]
        /\ errors' \in Nat /\ (errors' = 0 => errors = 0)
    BY <1>0, <2>1 DEF Recover, Unrecovered, bounds
  <2>3. \/ queue' = queue \cup {t} /\ mem'[t] # "absent"
        \/ queue' = queue /\ mem'[t] \in Resting
    BY <1>0, <2>1 DEF Recover, Unrecovered, Pending, Resting, Terminal
  <2>4. job' = job /\ pc' = pc /\ call' = call
    BY <2>1 DEF Recover, loopVars
  <2>5. Aside
    BY <2>2, <2>3, <2>4 DEF Aside
  <2> QED
    BY <2>5, AsideKeeps
<1> QED
  BY <1>1, <1>2, <1>3

\* Every step keeps the invariant.
LEMMA HandStep == TypeOK /\ IInv /\ HandInv /\ [Next]_vars => HandInv'
<1> SUFFICES ASSUME TypeOK, IInv, HandInv, [Next]_vars PROVE HandInv'
  OBVIOUS
<1>1. CASE \E t \in Tasks : EnqueueNext(t)
  BY <1>1, EnqueueAside, AsideKeeps
<1>2. CASE WorkerNext
  BY <1>2, HandWorker
<1>3. CASE WatchdogNext \/ \E t \in Tasks : MarkHeartbeat(t)
  BY <1>3, WatchdogAside, AsideKeeps
<1>4. CASE ShutdownNext
  BY <1>4, ShutdownAside, AsideKeeps
<1>5. CASE InCall
  BY <1>5, HandInCall, ConstantsAssumption DEF InCall, ConstantsAssumption
<1>6. CASE \E a \in Awaiters : AwaitNext(a)
  BY <1>6, AwaitAside, AsideKeeps
<1>7. CASE Crash \/ Recovered \/ \E t \in Tasks : Recover(t)
  BY <1>7, HandRestart
<1>8. CASE UNCHANGED vars
  <2>1. errors \in Nat
    BY ConstantsAssumption DEF TypeOK, BoundType, ConstantsAssumption
  <2>2. Aside
    BY <1>8, <2>1 DEF Aside, vars, memVars, loopVars, bounds
  <2> QED
    BY <2>2, AsideKeeps
<1> QED
  BY <1>1, <1>2, <1>3, <1>4, <1>5, <1>6, <1>7, <1>8 DEF Next

\* The daemon starts with an idle worker and an empty queue.
LEMMA HandInit == Init => HandInv
BY DEF Init, HandInv, WorkerInv, KeptInv, WorkerAt, Between, AllThreads, Pending

\* As long as no store call has failed, every unfinished task that the shutdown did
\* not suspend is in the queue or in the worker's hands, whatever the three loops
\* and the crashes do between two of the worker's steps.
THEOREM TasksAreNotStranded == Spec => []NoTaskStranded
<1>1. Init => HandInv
  BY HandInit
<1>2. HandInv => NoTaskStranded
  BY DEF HandInv, KeptInv, NoTaskStranded, Pending
<1> QED
  BY <1>1, <1>2, Safe, HandStep, PTL DEF Spec

-----------------------------------------------------------------------------
(* Who is told.                                                            *)

\* A caller is registered once, for the task it awaits, and not told anything
\* before: its sender is in the map or in one call, never in both.
SenderInv ==
  /\ \A t \in Tasks : \A a \in waiters[t] :
       apc[a] # "new" /\ target[a] = t /\ inbox[a] = "none"
  /\ \A th \in AllThreads : \A a \in call[th].woken :
       /\ apc[a] # "new" /\ inbox[a] = "none"
       /\ \A t \in Tasks : a \notin waiters[t]
       /\ \A x \in AllThreads \ {th} : a \notin call[x].woken
  /\ \A a \in Awaiters : apc[a] = "new" => inbox[a] = "none"

\* Steps that leave senders and channels alone keep SenderInv.
LEMMA SenderStill ==
  ASSUME SenderInv, UNCHANGED <<waiters, target, inbox>>,
         \A a \in Awaiters : apc'[a] = "new" <=> apc[a] = "new",
         \A t \in Tasks : waiters[t] \subseteq Awaiters,
         \A th \in AllThreads : call[th].woken \subseteq Awaiters,
         \A th \in AllThreads : call'[th].woken = call[th].woken
  PROVE  SenderInv'
<1>1. ASSUME NEW t \in Tasks, NEW a \in waiters'[t]
      PROVE  apc'[a] # "new" /\ target'[a] = t /\ inbox'[a] = "none"
  BY <1>1 DEF SenderInv
<1>2. ASSUME NEW th \in AllThreads, NEW a \in call'[th].woken
      PROVE  /\ apc'[a] # "new" /\ inbox'[a] = "none"
             /\ \A t \in Tasks : a \notin waiters'[t]
             /\ \A x \in AllThreads \ {th} : a \notin call'[x].woken
  <2>1. a \in call[th].woken /\ a \in Awaiters
    BY <1>2
  <2>2. /\ apc[a] # "new" /\ inbox[a] = "none"
        /\ \A t \in Tasks : a \notin waiters[t]
        /\ \A x \in AllThreads \ {th} : a \notin call[x].woken
    BY <2>1 DEF SenderInv
  <2> QED
    BY <2>1, <2>2
<1>3. \A a \in Awaiters : apc'[a] = "new" => inbox'[a] = "none"
  BY DEF SenderInv
<1> QED
  BY <1>1, <1>2, <1>3 DEF SenderInv

\* A loop that ends a task moves all its senders from the map into one call.
LEMMA SenderLoop == ASSUME TypeOK, IInv, SenderInv, LoopStep, LoopFrame PROVE SenderInv'
<1>0. /\ \A t \in Tasks : waiters[t] \subseteq Awaiters
      /\ \A th \in AllThreads : call[th].woken \subseteq Awaiters
  BY DEF TypeOK, MemType, ThreadType, Calls
<1>1. CASE Quiet
  BY <1>0, <1>1, SenderStill DEF Quiet, LoopFrame, awaitVars
<1>2. ASSUME NEW th \in AllThreads, NEW t \in Tasks, NEW to \in AnyLabel, Moves(th, t, to)
      PROVE  SenderInv'
  <2>1. /\ waiters' = [waiters EXCEPT ![t] = @ \ Taken(t, to)]
        /\ call'[th].woken = Taken(t, to) /\ Taken(t, to) \subseteq waiters[t]
        /\ \A x \in AllThreads \ {th} : call'[x] = call[x]
        /\ apc' = apc /\ target' = target /\ inbox' = inbox
    BY <1>2 DEF Moves, Taken, LoopFrame, awaitVars
  <2>2. \A u \in Tasks : /\ waiters'[u] \subseteq waiters[u]
                         /\ \A a \in Taken(t, to) : a \notin waiters'[u]
    <3>1. waiters \in [Tasks -> SUBSET Awaiters]
      BY DEF TypeOK, MemType
    <3> QED
      BY <2>1, <3>1 DEF SenderInv
  <2>3. ASSUME NEW u \in Tasks, NEW a \in waiters'[u]
        PROVE  apc'[a] # "new" /\ target'[a] = u /\ inbox'[a] = "none"
    BY <2>1, <2>2, <2>3 DEF SenderInv
  <2>4. ASSUME NEW x \in AllThreads, NEW a \in call'[x].woken
        PROVE  /\ apc'[a] # "new" /\ inbox'[a] = "none"
               /\ \A u \in Tasks : a \notin waiters'[u]
               /\ \A y \in AllThreads \ {x} : a \notin call'[y].woken
    <3>1. CASE x = th
      <4>1. a \in waiters[t] /\ apc[a] # "new" /\ inbox[a] = "none"
        BY <2>1, <2>4, <3>1 DEF SenderInv
      <4>2. \A y \in AllThreads : a \notin call[y].woken
        BY <4>1 DEF SenderInv
      <4> QED
        BY <2>1, <2>2, <2>4, <3>1, <4>1, <4>2
    <3>2. CASE x # th
      <4>1. a \in call[x].woken
        BY <2>1, <2>4, <3>2
      <4>2. /\ apc[a] # "new" /\ inbox[a] = "none"
            /\ \A u \in Tasks : a \notin waiters[u]
            /\ \A y \in AllThreads \ {x} : a \notin call[y].woken
        BY <4>1 DEF SenderInv
      <4> QED
        BY <2>1, <2>2, <4>2
    <3> QED
      BY <3>1, <3>2
  <2>5. \A a \in Awaiters : apc'[a] = "new" => inbox'[a] = "none"
    BY <2>1 DEF SenderInv
  <2> QED
    BY <2>3, <2>4, <2>5 DEF SenderInv
<1> QED
  BY <1>1, <1>2 DEF LoopStep

\* A call that returns drops the senders it told.
LEMMA SenderCall ==
  ASSUME TypeOK, SenderInv, NEW th \in AllThreads,
         WriteRow(th) \/ WriteLog(th) \/ TransitionStoreError(th) \/ Settle(th)
  PROVE  SenderInv'
<1>0. /\ \A t \in Tasks : waiters[t] \subseteq Awaiters
      /\ \A x \in AllThreads : call[x].woken \subseteq Awaiters
      /\ call \in [AllThreads -> Calls]
  BY DEF TypeOK, MemType, ThreadType, Calls
<1>1. waiters' = waiters /\ apc' = apc /\ target' = target
  BY DEF WriteRow, WriteLog, TransitionStoreError, Settle, memVars, awaitVars
<1>2. CASE WriteRow(th) \/ WriteLog(th)
  <2>1. inbox' = inbox /\ \A x \in AllThreads : call'[x].woken = call[x].woken
    BY <1>0, <1>2 DEF WriteRow, WriteLog, awaitVars, Calls
  <2> QED
    BY <1>0, <1>1, <2>1, SenderStill
<1>3. CASE TransitionStoreError(th) \/ Settle(th)
  <2>1. /\ call' = [call EXCEPT ![th] = Idle]
        /\ \A a \in Awaiters : a \notin call[th].woken => inbox'[a] = inbox[a]
    BY <1>3, SendAnswers DEF TransitionStoreError, Settle
  <2>2. /\ call'[th].woken = {}
        /\ \A x \in AllThreads \ {th} : call'[x] = call[x]
    BY <1>0, <2>1 DEF Idle
  <2>3. ASSUME NEW u \in Tasks, NEW a \in waiters'[u]
        PROVE  apc'[a] # "new" /\ target'[a] = u /\ inbox'[a] = "none"
    <3>1. a \in Awaiters /\ a \in waiters[u]
      BY <1>0, <1>1, <2>3
    <3>2. a \notin call[th].woken
      BY <3>1 DEF SenderInv
    <3> QED
      BY <1>1, <2>1, <3>1, <3>2 DEF SenderInv
  <2>4. ASSUME NEW x \in AllThreads, NEW a \in call'[x].woken
        PROVE  /\ apc'[a] # "new" /\ inbox'[a] = "none"
               /\ \A u \in Tasks : a \notin waiters'[u]
               /\ \A y \in AllThreads \ {x} : a \notin call'[y].woken
    <3>1. x # th /\ a \in call[x].woken /\ a \in Awaiters
      BY <1>0, <2>2, <2>4
    <3>2. /\ apc[a] # "new" /\ inbox[a] = "none" /\ a \notin call[th].woken
          /\ \A u \in Tasks : a \notin waiters[u]
          /\ \A y \in AllThreads \ {x} : a \notin call[y].woken
      BY <3>1 DEF SenderInv
    <3> QED
      BY <1>1, <2>1, <2>2, <3>1, <3>2
  <2>5. ASSUME NEW a \in Awaiters, apc'[a] = "new" PROVE inbox'[a] = "none"
    <3>1. a \notin call[th].woken
      BY <1>1, <2>5 DEF SenderInv
    <3> QED
      BY <1>1, <2>1, <2>5, <3>1 DEF SenderInv
  <2> QED
    BY <2>3, <2>4, <2>5 DEF SenderInv
<1> QED
  BY <1>2, <1>3

\* A caller registers once, before anybody can tell it anything.
LEMMA SenderAwait == ASSUME TypeOK, SenderInv, NEW a \in Awaiters, AwaitNext(a) PROVE SenderInv'
<1>0. /\ \A t \in Tasks : waiters[t] \subseteq Awaiters
      /\ \A x \in AllThreads : call[x].woken \subseteq Awaiters
      /\ apc \in [Awaiters -> {"new", "resolve", "wait", "done", "gone"}]
      /\ target \in [Awaiters -> Tasks \cup {NoTask}]
      /\ waiters \in [Tasks -> SUBSET Awaiters]
  BY DEF TypeOK, MemType, ThreadType, Calls, AwaitType
<1>1. call' = call /\ inbox' = inbox
  BY DEF AwaitNext, Await, AwaitResolves, AwaitReceives, AwaitTimesOut
<1>2. CASE Await(a)
  <2>1. PICK t \in {u \in Tasks : enq[u] = "accepted"}
                     \cup {alias[u] : u \in {v \in Tasks : enq[v] = "merged"}} :
          /\ target' = [target EXCEPT ![a] = t]
          /\ \/ apc' = [apc EXCEPT ![a] = "done"] /\ waiters' = waiters
             \/ apc' = [apc EXCEPT ![a] = "resolve"] /\ waiters' = [waiters EXCEPT ![t] = @ \cup {a}]
    BY <1>2 DEF Await
  <2>2. /\ apc[a] = "new" /\ apc'[a] # "new" /\ target'[a] = t /\ t \in Tasks
        /\ \A x \in Awaiters \ {a} : apc'[x] = apc[x] /\ target'[x] = target[x]
        /\ \A u \in Tasks : \A x \in waiters'[u] : x \in waiters[u] \/ (x = a /\ u = t)
    BY <1>0, <1>2, <2>1 DEF Await, TypeOK
  <2>3. /\ inbox[a] = "none" /\ \A u \in Tasks : a \notin waiters[u]
        /\ \A th \in AllThreads : a \notin call[th].woken
    BY <2>2 DEF SenderInv
  <2>4. ASSUME NEW u \in Tasks, NEW x \in waiters'[u]
        PROVE  apc'[x] # "new" /\ target'[x] = u /\ inbox'[x] = "none"
    <3>1. CASE x = a
      BY <1>1, <2>2, <2>3, <2>4, <3>1
    <3>2. CASE x # a
      BY <1>0, <1>1, <2>2, <2>4, <3>2 DEF SenderInv
    <3> QED
      BY <3>1, <3>2
  <2>5. ASSUME NEW th \in AllThreads, NEW x \in call'[th].woken
        PROVE  /\ apc'[x] # "new" /\ inbox'[x] = "none"
               /\ \A u \in Tasks : x \notin waiters'[u]
               /\ \A y \in AllThreads \ {th} : x \notin call'[y].woken
    <3>1. x # a /\ x \in Awaiters /\ x \in call[th].woken
      BY <1>0, <1>1, <2>3, <2>5
    <3> QED
      BY <1>1, <2>2, <3>1 DEF SenderInv
  <2>6. \A x \in Awaiters : apc'[x] = "new" => inbox'[x] = "none"
    BY <1>1, <2>2 DEF SenderInv
  <2> QED
    BY <2>4, <2>5, <2>6 DEF SenderInv
<1>3. CASE AwaitResolves(a) \/ AwaitReceives(a) \/ AwaitTimesOut(a)
  <2>1. /\ waiters' = waiters /\ target' = target
        /\ \A x \in Awaiters : apc'[x] = "new" <=> apc[x] = "new"
    BY <1>0, <1>3 DEF AwaitResolves, AwaitReceives, AwaitTimesOut, memVars
  <2> QED
    BY <1>0, <1>1, <2>1, SenderStill
<1> QED
  BY <1>2, <1>3 DEF AwaitNext

\* Every step keeps SenderInv.
LEMMA SenderStep == TypeOK /\ IInv /\ SenderInv /\ [Next]_vars => SenderInv'
<1> SUFFICES ASSUME TypeOK, IInv, SenderInv, [Next]_vars PROVE SenderInv'
  OBVIOUS
<1>0. /\ \A t \in Tasks : waiters[t] \subseteq Awaiters
      /\ \A x \in AllThreads : call[x].woken \subseteq Awaiters
  BY DEF TypeOK, MemType, ThreadType, Calls
<1>1. CASE (\E t \in Tasks : EnqueueNext(t) \/ Recover(t)) \/ Recovered \/ UNCHANGED vars
  <2>1. UNCHANGED <<waiters, target, inbox, apc, call>>
    BY <1>1 DEF EnqueueNext, EnqueueCheck, EnqueueLookup, EnqueuePersist, EnqueueStoreError,
                EnqueueInsert, Recover, Recovered, vars, memVars, awaitVars
  <2> QED
    BY <1>0, <2>1, SenderStill
<1>2. CASE WorkerNext \/ WatchdogNext \/ ShutdownNext \/ \E t \in Tasks : MarkHeartbeat(t)
  BY <1>2, SenderLoop, WorkerSteps, WatchdogSteps, ShutdownSteps DEF IInv
<1>3. CASE InCall
  BY <1>3, SenderCall, ConstantsAssumption DEF InCall, ConstantsAssumption
<1>4. CASE \E a \in Awaiters : AwaitNext(a)
  BY <1>4, SenderAwait
<1>5. CASE Crash
  <2>1. /\ \A t \in Tasks : waiters'[t] = {}
        /\ \A th \in AllThreads : call'[th].woken = {}
        /\ \A a \in Awaiters : apc'[a] = "new" => apc[a] = "new"
        /\ inbox' = inbox
    BY <1>5 DEF Crash, Idle, TypeOK, AwaitType
  <2> QED
    BY <2>1 DEF SenderInv
<1> QED
  BY <1>1, <1>2, <1>3, <1>4, <1>5 DEF Next

\* Nobody is registered at the start.
LEMMA SenderInit == Init => SenderInv
BY DEF Init, SenderInv, Idle

\* What a caller of await_task_result was sent is never replaced by another answer,
\* whatever loops end its task and whichever store calls fail.
THEOREM AnswersAreFinal ==
  Spec => [][\A a \in Awaiters : inbox[a] # "none" => inbox'[a] = inbox[a]]_vars
<1> DEFINE Once == \A a \in Awaiters : inbox[a] # "none" => inbox'[a] = inbox[a]
<1>1. TypeOK /\ IInv /\ SenderInv /\ [Next]_vars => [Once]_vars
  <2> SUFFICES ASSUME TypeOK, IInv, SenderInv, [Next]_vars PROVE Once
    OBVIOUS
  <2>1. CASE InCall
    <3>1. PICK th \in AllThreads :
            WriteRow(th) \/ WriteLog(th) \/ TransitionStoreError(th) \/ Settle(th)
      BY <2>1, ConstantsAssumption DEF InCall, ConstantsAssumption
    <3>2. inbox' = inbox \/ \E what : inbox' = Send(call[th].woken, what)
      BY <3>1 DEF WriteRow, WriteLog, TransitionStoreError, Settle, awaitVars
    <3>3. \A a \in call[th].woken : inbox[a] = "none"
      BY DEF SenderInv
    <3> QED
      BY <3>2, <3>3, SendAnswers
  <2>2. CASE WorkerNext \/ WatchdogNext \/ ShutdownNext \/ \E t \in Tasks : MarkHeartbeat(t)
    BY <2>2, WorkerSteps, WatchdogSteps, ShutdownSteps DEF IInv, LoopFrame, awaitVars
  <2>3. CASE \/ \E t \in Tasks : EnqueueNext(t) \/ Recover(t)
             \/ \E a \in Awaiters : AwaitNext(a)
             \/ Crash \/ Recovered \/ UNCHANGED vars
    BY <2>3 DEF EnqueueNext, EnqueueCheck, EnqueueLookup, EnqueuePersist, EnqueueStoreError,
                EnqueueInsert, Recover, AwaitNext, Await, AwaitResolves, AwaitReceives,
                AwaitTimesOut, Crash, Recovered, vars, awaitVars
  <2> QED
    BY <2>1, <2>2, <2>3 DEF Next
<1>2. []TypeOK /\ []IInv /\ []SenderInv /\ [][Next]_vars => [][Once]_vars
  BY <1>1, PTL
<1> QED
  BY <1>2, Safe, SenderInit, SenderStep, PTL DEF Spec


-----------------------------------------------------------------------------
(* The worker alone: rows, and the contract.                               *)

WorkerAlone == Threads \subseteq {"worker"}

\* Where the worker is says what the map has for its task.
PlaceInv ==
  /\ pc["worker"] = "breaker" => mem[job.task] = job.seen /\ job.seen \in Pending
  /\ pc["worker"] = "dispatch" => mem[job.task] = "queued"
  /\ pc["worker"] = "start" => mem[job.task] = "dispatched"
  /\ pc["worker"] \in {"execute", "turn"} => mem[job.task] = "running"
  /\ pc["worker"] = "calling" =>
       /\ mem[job.task] = call["worker"].to
       /\ call["worker"].onOk = "start" => call["worker"].to = "dispatched"
       /\ call["worker"].onOk \in {"execute", "turn"} \/ call["worker"].onErr = "turn"
            => call["worker"].to = "running"

\* What the rows say, before and after the worker writes them.
RowInv ==
  /\ \A t \in Tasks : /\ mem[t] # "suspended" /\ store[t] # "suspended"
                      /\ mem[t] \in Pending => store[t] \in Pending
                      /\ enq[t] = "insert" => store[t] = "queued"
  /\ \A t \in queue : mem[t] \in Pending
  /\ \A th \in AllThreads : call[th].stage # "idle" => th = "worker" /\ pc["worker"] = "calling"
  /\ call["worker"].stage = "row" => store[job.task] \in Pending
  /\ call["worker"].stage \in {"log", "settle"} => store[job.task] = call["worker"].to

\* Only a store error leaves a row behind the map.
FreshInv ==
  errors = 0 => \A t \in Tasks : mem[t] # "absent" =>
                  store[t] = mem[t] \/ (call["worker"].stage = "row" /\ job.task = t)

AloneInv == PlaceInv /\ RowInv /\ FreshInv

\* A call of transition() by the worker for the task it holds keeps it.
LEMMA AloneWorkerCall ==
  ASSUME TypeOK, HandInv, AloneInv, NEW expected, NEW to \in AnyLabel,
         NEW onOk \in {"idle", "start", "execute", "turn"}, NEW onErr \in {"idle", "turn"},
         pc["worker"] \notin {"calling", "idle", "stopped"},
         Transition("worker", job.task, expected, to, FALSE, onOk, onErr),
         queue' = queue, job' = job, errors' = errors, store' = store, enq' = enq,
         to # "suspended", mem[job.task] \in Pending, Label(mem[job.task]) \in expected,
         onOk = "start" => to = "dispatched",
         onOk \in {"execute", "turn"} \/ onErr = "turn" => to = "running"
  PROVE  AloneInv'
<1>0. /\ job.task \in Tasks /\ mem \in [Tasks -> States] /\ onOk \in Places /\ onErr \in Places
      /\ mem[job.task] # "absent" /\ "worker" \in AllThreads /\ queue \subseteq Tasks
      /\ job.task \notin queue
  BY DEF TypeOK, MemType, Places, AllThreads, HandInv, WorkerInv, WorkerAt, Between
<1>1. /\ mem' = [mem EXCEPT ![job.task] = to]
      /\ pc'["worker"] = "calling" /\ call'["worker"].stage = "row"
      /\ call'["worker"].task = job.task /\ call'["worker"].to = to
      /\ call'["worker"].onOk = onOk /\ call'["worker"].onErr = onErr
  BY <1>0, WorkerCalls
<1>2. \A x \in AllThreads \ {"worker"} : call'[x] = call[x]
  BY <1>0 DEF Transition, TypeOK, ThreadType
<1>3. \A t \in Tasks : mem'[t] = IF t = job.task THEN to ELSE mem[t]
  BY <1>0, <1>1
<1>4. PlaceInv'
  BY <1>0, <1>1, <1>3 DEF PlaceInv
<1>5. call["worker"].stage = "idle"
  BY <1>0 DEF AloneInv, RowInv
<1>6. RowInv'
  BY <1>0, <1>1, <1>2, <1>3 DEF AloneInv, RowInv
<1>7. FreshInv'
  BY <1>0, <1>1, <1>3, <1>5 DEF AloneInv, FreshInv
<1> QED
  BY <1>4, <1>6, <1>7 DEF AloneInv

\* The worker keeps it.
LEMMA AloneWorker == ASSUME TypeOK, HandInv, AloneInv, WorkerNext PROVE AloneInv'
<1>0. /\ pc \in [AllThreads -> Places] /\ "worker" \in AllThreads /\ mem \in [Tasks -> States]
      /\ queue \subseteq Tasks
      /\ {"failed", "completed", "running", "dispatched"} \subseteq AnyLabel
      /\ {"queued", "running", "dispatched"} \subseteq Pending
  BY DEF TypeOK, ThreadType, MemType, AllThreads, AnyLabel, Pending, Terminal
<1>1. ASSUME TransitionOnly, UNCHANGED loopVars
      PROVE  queue' = queue /\ job' = job /\ errors' = errors /\ store' = store /\ enq' = enq
  BY <1>1 DEF TransitionOnly, loopVars, bounds, storeVars, enqVars
<1>2. CASE WorkerPop
  <2>1. PICK t \in queue : /\ queue' = queue \ {t}
                           /\ job' = [task |-> t, seen |-> mem[t]]
    BY <1>2 DEF WorkerPop
  <2>2. /\ pc["worker"] = "idle" /\ pc'["worker"] = "breaker" /\ mem' = mem /\ errors' = errors
        /\ job'.task = t /\ job'.seen = mem[t] /\ store' = store /\ enq' = enq /\ call' = call
        /\ mem[t] \in Pending
    BY <1>0, <1>2, <2>1 DEF WorkerPop, Worker, bounds, storeVars, enqVars, AloneInv, RowInv
  <2>3. call["worker"].stage = "idle"
    BY <1>0, <2>2 DEF AloneInv, RowInv
  <2>4. PlaceInv'
    BY <2>2 DEF PlaceInv
  <2>5. RowInv'
    BY <2>1, <2>2, <2>3 DEF AloneInv, RowInv
  <2>6. FreshInv'
    BY <2>2, <2>3 DEF AloneInv, FreshInv
  <2> QED
    BY <2>4, <2>5, <2>6 DEF AloneInv
<1>3. CASE WorkerStops
  <2>1. /\ pc["worker"] = "idle" /\ pc'["worker"] = "stopped" /\ mem' = mem /\ errors' = errors
        /\ queue' = queue /\ job' = job /\ store' = store /\ enq' = enq /\ call' = call
    BY <1>0, <1>3 DEF WorkerStops, Worker, memVars, loopVars, bounds, storeVars, enqVars
  <2> QED
    BY <2>1 DEF AloneInv, PlaceInv, RowInv, FreshInv
<1>4. CASE WorkerChecksBreaker
  <2>1. pc["worker"] = "breaker" /\ mem[job.task] = job.seen /\ job.seen \in Pending
    BY <1>4 DEF WorkerChecksBreaker, Worker, AloneInv, PlaceInv
  <2>2. CASE Transition("worker", job.task, {Label(job.seen)}, "failed", FALSE, "idle", "idle")
    BY <1>0, <1>1, <1>4, <2>1, <2>2, AloneWorkerCall DEF WorkerChecksBreaker
  <2>3. CASE /\ pc' = [pc EXCEPT !["worker"] = NextAfter(job.seen)]
             /\ UNCHANGED <<mem, beat, waiters, call>>
    <3>1. /\ pc'["worker"] = NextAfter(job.seen) /\ mem' = mem /\ call' = call
          /\ queue' = queue /\ job' = job /\ errors' = errors /\ store' = store /\ enq' = enq
      BY <1>0, <1>1, <1>4, <2>3 DEF WorkerChecksBreaker
    <3>2. job.task \in Tasks
      BY <2>1 DEF TypeOK
    <3>3. job.seen \in {"queued", "dispatched", "running"}
      BY <2>1, <3>2 DEF AloneInv, RowInv, Pending
    <3>4. PlaceInv'
      BY <2>1, <3>1, <3>3 DEF PlaceInv, NextAfter, Label
    <3>5. call["worker"].stage = "idle"
      BY <1>0, <2>1 DEF AloneInv, RowInv
    <3>6. RowInv' /\ FreshInv'
      BY <2>1, <3>1, <3>5 DEF AloneInv, RowInv, FreshInv
    <3> QED
      BY <3>4, <3>6 DEF AloneInv
  <2> QED
    BY <1>4, <2>2, <2>3 DEF WorkerChecksBreaker
<1>5. CASE WorkerDispatches
  <2>1. pc["worker"] = "dispatch" /\ mem[job.task] = "queued"
    BY <1>5 DEF WorkerDispatches, Worker, AloneInv, PlaceInv
  <2>2. Label(mem[job.task]) \in {"queued"}
    BY <2>1 DEF Label
  <2> QED
    BY <1>0, <1>1, <1>5, <2>1, <2>2, AloneWorkerCall DEF WorkerDispatches
<1>6. CASE WorkerStarts
  <2>1. pc["worker"] = "start" /\ mem[job.task] = "dispatched"
    BY <1>6 DEF WorkerStarts, Worker, AloneInv, PlaceInv
  <2>2. Label(mem[job.task]) \in {"dispatched"}
    BY <2>1 DEF Label
  <2> QED
    BY <1>0, <1>1, <1>6, <2>1, <2>2, AloneWorkerCall DEF WorkerStarts
<1>7. ASSUME pc["worker"] \in {"execute", "turn"}
      PROVE  mem[job.task] = "running" /\ Label(mem[job.task]) \in {"running"}
  BY <1>7 DEF AloneInv, PlaceInv, Label
<1>8. CASE WorkerExecutes
  <2>1. pc["worker"] = "execute"
    BY <1>8 DEF WorkerExecutes, Worker
  <2> QED
    BY <1>0, <1>1, <1>7, <1>8, <2>1, AloneWorkerCall DEF WorkerExecutes
<1>9. CASE WorkerHasNoRuntime
  <2>1. pc["worker"] = "execute"
    BY <1>9 DEF WorkerHasNoRuntime, Worker
  <2> QED
    BY <1>0, <1>1, <1>7, <1>9, <2>1, AloneWorkerCall DEF WorkerHasNoRuntime
<1>10. CASE WorkerEndsTurn
  <2>1. pc["worker"] = "turn"
    BY <1>10 DEF WorkerEndsTurn, Worker
  <2>2. PICK outcome \in {"completed", "failed"} :
          Transition("worker", job.task, {"running"}, outcome, FALSE, "idle", "idle")
    BY <1>10 DEF WorkerEndsTurn
  <2>3. outcome \in AnyLabel /\ outcome # "suspended"
    BY <1>0
  <2> QED
    BY <1>0, <1>1, <1>7, <1>10, <2>1, <2>2, <2>3, AloneWorkerCall DEF WorkerEndsTurn
<1> QED
  BY <1>2, <1>3, <1>4, <1>5, <1>6, <1>8, <1>9, <1>10 DEF WorkerNext

\* Its steps inside transition() keep it.
LEMMA AloneInCall ==
  ASSUME TypeOK, IInv, HandInv, AloneInv, NEW th \in AllThreads,
         WriteRow(th) \/ WriteLog(th) \/ TransitionStoreError(th) \/ Settle(th)
  PROVE  AloneInv'
<1>0. /\ pc \in [AllThreads -> Places] /\ call \in [AllThreads -> Calls]
      /\ store \in [Tasks -> States] /\ errors \in Nat /\ "worker" \in AllThreads
  BY ConstantsAssumption
     DEF TypeOK, ThreadType, StoreType, BoundType, ConstantsAssumption, AllThreads
<1>1. /\ th = "worker" /\ pc["worker"] = "calling" /\ call["worker"].task = job.task
      /\ job.task \in Tasks /\ mem[job.task] = call["worker"].to /\ mem[job.task] # "absent"
  BY DEF WriteRow, WriteLog, TransitionStoreError, Settle, TypeOK, AloneInv, RowInv, PlaceInv,
         HandInv, WorkerInv, WorkerAt, Between
<1>2. mem' = mem /\ queue' = queue /\ job' = job /\ enq' = enq
  BY DEF WriteRow, WriteLog, TransitionStoreError, Settle, memVars, loopVars, enqVars
<1>3. CASE WriteRow(th)
  <2>1. /\ call["worker"].stage = "row" /\ call'["worker"].stage = "log" /\ pc' = pc
        /\ call'["worker"].to = call["worker"].to /\ call'["worker"].onOk = call["worker"].onOk
        /\ call'["worker"].onErr = call["worker"].onErr /\ errors' = errors
        /\ \A x \in AllThreads \ {"worker"} : call'[x] = call[x]
        /\ store' = [store EXCEPT ![job.task] = mem[job.task]]
    BY <1>0, <1>1, <1>3 DEF WriteRow, Calls, bounds
  <2>2. \A t \in Tasks : store'[t] = IF t = job.task THEN mem[t] ELSE store[t]
    BY <1>0, <1>1, <2>1
  <2>3. PlaceInv'
    BY <1>2, <2>1 DEF AloneInv, PlaceInv
  <2>4. enq[job.task] # "insert"
    BY <1>1 DEF AloneInv, RowInv, TypeOK, IInv, EnqueueInv
  <2>5. RowInv'
    BY <1>1, <1>2, <2>1, <2>2, <2>4 DEF AloneInv, RowInv
  <2>6. FreshInv'
    BY <1>2, <2>1, <2>2 DEF AloneInv, FreshInv
  <2> QED
    BY <2>3, <2>5, <2>6 DEF AloneInv
<1>4. CASE WriteLog(th)
  <2>1. /\ call["worker"].stage = "log" /\ call'["worker"].stage = "settle" /\ pc' = pc
        /\ call'["worker"].to = call["worker"].to /\ call'["worker"].onOk = call["worker"].onOk
        /\ call'["worker"].onErr = call["worker"].onErr /\ errors' = errors
        /\ \A x \in AllThreads \ {"worker"} : call'[x] = call[x]
        /\ store' = store
    BY <1>0, <1>1, <1>4 DEF WriteLog, Calls, bounds
  <2> QED
    BY <1>1, <1>2, <2>1 DEF AloneInv, PlaceInv, RowInv, FreshInv
<1>5. CASE TransitionStoreError(th)
  <2>1. /\ call'["worker"].stage = "idle" /\ store' = store /\ errors' # 0
        /\ pc'["worker"] = call["worker"].onErr
        /\ \A x \in AllThreads \ {"worker"} : call'[x] = call[x]
    BY <1>0, <1>1, <1>5 DEF TransitionStoreError, Idle, storeVars
  <2>2. call["worker"].onErr \in {"idle", "turn"}
    BY <1>1 DEF HandInv, WorkerInv, WorkerAt
  <2>3. PlaceInv'
    BY <1>1, <1>2, <2>1, <2>2 DEF AloneInv, PlaceInv
  <2> QED
    BY <1>1, <1>2, <2>1, <2>3 DEF AloneInv, RowInv, FreshInv
<1>6. CASE Settle(th)
  <2>1. /\ call["worker"].stage = "settle"
        /\ call'["worker"].stage = "idle" /\ store' = store /\ errors' = errors
        /\ pc'["worker"] = call["worker"].onOk
        /\ \A x \in AllThreads \ {"worker"} : call'[x] = call[x]
    BY <1>0, <1>1, <1>6 DEF Settle, Idle, storeVars, bounds
  <2>2. call["worker"].onOk \in {"idle", "start", "execute", "turn"}
    BY <1>1 DEF HandInv, WorkerInv, WorkerAt
  <2>3. PlaceInv'
    BY <1>1, <1>2, <2>1, <2>2 DEF AloneInv, PlaceInv
  <2> QED
    BY <1>1, <1>2, <2>1, <2>3 DEF AloneInv, RowInv, FreshInv
<1> QED
  BY <1>3, <1>4, <1>5, <1>6

\* What touches only tasks the map does not have yet.
LEMMA AloneFresh ==
  ASSUME TypeOK, HandInv, AloneInv, NEW t \in Tasks, mem[t] = "absent",
         \A u \in Tasks \ {t} : mem'[u] = mem[u] /\ store'[u] = store[u] /\ enq'[u] = enq[u],
         job' = job, pc' = pc, call' = call,
         errors' \in Nat, errors' = 0 => errors = 0,
         queue' \in {queue, queue \cup {t}}, queue' = queue \/ mem'[t] \in Pending,
         mem'[t] # "suspended", store'[t] # "suspended",
         mem'[t] = "absent" \/ mem'[t] = store'[t],
         enq'[t] = "insert" => store'[t] = "queued"
  PROVE  AloneInv'
<1>0. queue \subseteq Tasks /\ "worker" \in AllThreads /\ "absent" \notin Pending
  BY DEF TypeOK, MemType, AllThreads, Pending
<1>1. /\ pc["worker"] \notin {"idle", "stopped"} => job.task \in Tasks \ {t}
      /\ call["worker"].stage # "idle" => job.task \in Tasks \ {t}
  BY <1>0 DEF TypeOK, HandInv, WorkerInv, WorkerAt, Between, AloneInv, RowInv
<1>2. PlaceInv'
  BY <1>1 DEF AloneInv, PlaceInv
<1>3. RowInv'
  BY <1>0, <1>1 DEF AloneInv, RowInv
<1>4. FreshInv'
  BY <1>1 DEF AloneInv, FreshInv
<1> QED
  BY <1>2, <1>3, <1>4 DEF AloneInv

\* enqueue_direct writes the row before the map has the task, and with the same state.
LEMMA AloneEnqueue ==
  ASSUME TypeOK, IInv, HandInv, AloneInv, NEW t \in Tasks, EnqueueNext(t) PROVE AloneInv'
<1>0. /\ errors \in Nat /\ mem \in [Tasks -> States] /\ store \in [Tasks -> States]
      /\ enq \in [Tasks -> EnqueuePlaces]
  BY ConstantsAssumption DEF TypeOK, BoundType, MemType, StoreType, EnqueueType, ConstantsAssumption
<1>1. /\ mem[t] = "absent" /\ job' = job /\ pc' = pc /\ call' = call
      /\ errors' \in Nat /\ (errors' = 0 => errors = 0)
      /\ \A u \in Tasks \ {t} : mem'[u] = mem[u] /\ store'[u] = store[u] /\ enq'[u] = enq[u]
  BY <1>0 DEF EnqueueNext, EnqueueCheck, EnqueueLookup, EnqueuePersist, EnqueueStoreError,
              EnqueueInsert, EnqueueStep, IInv, EnqueueInv, memVars, storeVars, loopVars, bounds
<1>2. CASE EnqueueInsert(t)
  <2>1. /\ store'[t] = "queued" /\ mem'[t] = "queued" /\ queue' = queue \cup {t}
        /\ enq'[t] = "accepted"
    BY <1>0, <1>2 DEF EnqueueInsert, EnqueueStep, AloneInv, RowInv, storeVars
  <2> QED
    BY <1>1, <2>1, AloneFresh DEF Pending
<1>3. CASE EnqueueCheck(t) \/ EnqueueLookup(t) \/ EnqueuePersist(t) \/ EnqueueStoreError(t)
  <2>1. /\ mem'[t] = "absent" /\ queue' = queue
        /\ store'[t] # "suspended" /\ (enq'[t] = "insert" => store'[t] = "queued")
    BY <1>0, <1>1, <1>3
       DEF EnqueueCheck, EnqueueLookup, EnqueuePersist, EnqueueStoreError, EnqueueStep, memVars,
           storeVars, AloneInv, RowInv
  <2> QED
    BY <1>1, <2>1, AloneFresh
<1> QED
  BY <1>2, <1>3 DEF EnqueueNext

\* A crash empties the map; recovery takes each state from its row.
LEMMA AloneRestart ==
  ASSUME TypeOK, IInv, HandInv, AloneInv, Crash \/ \E t \in Tasks : Recover(t)
  PROVE  AloneInv'
<1>1. CASE Crash
  <2>1. /\ pc'["worker"] = "idle" /\ queue' = {} /\ store' = store
        /\ \A x \in AllThreads : call'[x].stage = "idle"
        /\ \A t \in Tasks : mem'[t] = "absent" /\ enq'[t] # "insert"
    BY <1>1 DEF Crash, AllThreads, Idle, storeVars, TypeOK, EnqueueType
  <2>2. "worker" \in AllThreads /\ "absent" \notin Pending
    BY DEF AllThreads, Pending
  <2> QED
    BY <2>1, <2>2 DEF AloneInv, PlaceInv, RowInv, FreshInv
<1>2. CASE \E t \in Tasks : Recover(t)
  <2>1. PICK t \in Tasks : Recover(t)
    BY <1>2
  <2>2. store[t] \in Pending /\ store[t] # "suspended" /\ mem[t] = "absent" /\ errors \in Nat
        /\ enq[t] # "insert" /\ mem \in [Tasks -> States]
    BY <2>1, ConstantsAssumption
       DEF Recover, Unrecovered, AloneInv, RowInv, TypeOK, BoundType, MemType, ConstantsAssumption,
           IInv, EnqueueInv
  <2>3. /\ mem' = [mem EXCEPT ![t] = store[t]] /\ queue' = queue \cup {t} /\ store' = store
        /\ errors' = errors /\ job' = job /\ pc' = pc /\ call' = call /\ enq' = enq
    BY <2>1, <2>2 DEF Recover, loopVars, enqVars
  <2> QED
    BY <2>2, <2>3, AloneFresh
<1> QED
  BY <1>1, <1>2

\* Every step keeps it, when the worker is the only loop.
LEMMA AloneStep ==
  ASSUME WorkerAlone PROVE TypeOK /\ IInv /\ HandInv /\ AloneInv /\ [Next]_vars => AloneInv'
<1> SUFFICES ASSUME TypeOK, IInv, HandInv, AloneInv, [Next]_vars PROVE AloneInv'
  OBVIOUS
<1>1. CASE \E t \in Tasks : EnqueueNext(t)
  BY <1>1, AloneEnqueue
<1>2. CASE WorkerNext
  BY <1>2, AloneWorker
<1>3. CASE WatchdogNext \/ ShutdownNext
  BY <1>3 DEF WorkerAlone, WatchdogNext, WatchdogScans, WatchdogHandles, WatchdogRests, Watchdog,
              ShutdownNext, StopAccepting, Drained, GraceEnds, Suspend, SuspendEnds, Shutdown
<1>4. CASE InCall
  BY <1>4, AloneInCall, ConstantsAssumption DEF InCall, ConstantsAssumption
<1>5. CASE Crash \/ \E t \in Tasks : Recover(t)
  BY <1>5, AloneRestart
<1>6. CASE \/ \E t \in Tasks : MarkHeartbeat(t)
           \/ \E a \in Awaiters : AwaitNext(a)
           \/ Recovered \/ UNCHANGED vars
  <2>1. UNCHANGED <<mem, queue, store, enq, job, pc, call, errors>>
    BY <1>6 DEF MarkHeartbeat, AwaitNext, Await, AwaitResolves, AwaitReceives, AwaitTimesOut,
                Recovered, vars, memVars, storeVars, enqVars, loopVars, bounds
  <2> QED
    BY <2>1 DEF AloneInv, PlaceInv, RowInv, FreshInv
<1> QED
  BY <1>1, <1>2, <1>3, <1>4, <1>5, <1>6 DEF Next

\* The invariant of the worker alone holds at the start.
LEMMA AloneInit == Init => AloneInv
BY DEF Init, AloneInv, PlaceInv, RowInv, FreshInv, AllThreads, Idle, Pending

\* When the worker is the only loop that runs, every row says what the map says
\* whenever no transition is in progress and no store call has failed, through
\* crashes and recovery; two loops break it (the run TaskManagerRows).
THEOREM RowsAgreeAlone == ASSUME WorkerAlone PROVE Spec => []RowsAgree
<1>1. Init => HandInv /\ AloneInv
  BY HandInit, AloneInit
<1>2. AloneInv => RowsAgree
  BY DEF AloneInv, FreshInv, RowsAgree, AllThreads
<1> QED
  BY <1>1, <1>2, Safe, HandStep, AloneStep, PTL DEF Spec

\* A step that leaves every row and every channel alone, or writes one row of a task
\* that is not ended, is a step of the contract.
LEMMA ContractRow ==
  ASSUME TypeOK, NEW t \in Tasks, NEW s \in States, inbox' = inbox,
         store' = [store EXCEPT ![t] = s],
         \/ store[t] = s
         \/ store[t] = "absent" /\ s \in Pending
         \/ store[t] \in Pending /\ s \in Pending \cup Terminal
  PROVE  [Contract!Next]_<<store, inbox>>
<1>1. CASE store[t] = s
  BY <1>1 DEF TypeOK, StoreType
<1>2. CASE store[t] = "absent" /\ s \in Pending
  BY <1>2 DEF Contract!Next, Contract!Submit
<1>3. CASE store[t] \in Pending /\ s \in Pending \cup Terminal
  BY <1>3 DEF Contract!Next, Contract!Proceed
<1> QED
  BY <1>1, <1>2, <1>3

\* Answering callers who were not told anything before is a step of the contract.
LEMMA ContractTell ==
  ASSUME TypeOK, NEW who \in SUBSET Awaiters, NEW what, inbox' = Send(who, what), store' = store,
         \A a \in who : inbox[a] = "none",
         \/ who = {} \/ what = "closed"
         \/ \E t \in Tasks : store[t] \in Terminal /\ what = store[t]
  PROVE  [Contract!Next]_<<store, inbox>>
<1> DEFINE told == {a \in who : apc[a] \in {"resolve", "wait"}}
<1>1. /\ told \in SUBSET Contract!Waiting
      /\ inbox' = [a \in Awaiters |-> IF a \in told THEN what ELSE inbox[a]]
  BY DEF Send, Contract!Waiting
<1>2. CASE who = {}
  <2>1. inbox' = [a \in Awaiters |-> inbox[a]]
    BY <1>2 DEF Send
  <2>2. inbox' = inbox
    BY <2>1 DEF TypeOK, AwaitType
  <2> QED
    BY <2>2
<1>3. CASE what = "closed"
  <2>1. Contract!GiveUp(told)
    BY <1>1, <1>3 DEF Contract!GiveUp
  <2> QED
    BY <1>1, <2>1 DEF Contract!Next
<1>4. CASE \E t \in Tasks : store[t] \in Terminal /\ what = store[t]
  <2>1. PICK t \in Tasks : store[t] \in Terminal /\ what = store[t]
    BY <1>4
  <2>2. Contract!Tell(told, t)
    BY <1>1, <2>1 DEF Contract!Tell
  <2> QED
    BY <1>1, <2>2 DEF Contract!Next
<1> QED
  BY <1>2, <1>3, <1>4

\* The steps inside transition() are steps of the contract.
LEMMA ContractCall ==
  ASSUME TypeOK, HandInv, SenderInv, AloneInv, NEW th \in AllThreads,
         WriteRow(th) \/ WriteLog(th) \/ TransitionStoreError(th) \/ Settle(th)
  PROVE  [Contract!Next]_<<store, inbox>>
<1>0. /\ call[th] \in Calls /\ call[th].woken \in SUBSET Awaiters
      /\ \A a \in call[th].woken : inbox[a] = "none"
  BY DEF TypeOK, ThreadType, Calls, SenderInv
<1>1. /\ th = "worker" /\ call["worker"].task = job.task /\ job.task \in Tasks
      /\ call[th].to # "absent" /\ call[th].to \in States
      /\ call[th].woken # {} => call[th].to \in Terminal
  BY <1>0 DEF WriteRow, WriteLog, TransitionStoreError, Settle, TypeOK, AloneInv, RowInv, HandInv,
              WorkerInv, WorkerAt, Calls
<1>2. CASE WriteRow(th)
  <2>1. /\ store' = [store EXCEPT ![job.task] = call[th].to] /\ inbox' = inbox
        /\ store[job.task] \in Pending
    BY <1>1, <1>2 DEF WriteRow, awaitVars, AloneInv, RowInv
  <2> QED
    BY <1>1, <2>1, ContractRow DEF States
<1>3. CASE WriteLog(th)
  BY <1>3 DEF WriteLog, awaitVars
<1>4. CASE TransitionStoreError(th)
  BY <1>0, <1>4, ContractTell DEF TransitionStoreError, storeVars
<1>5. CASE Settle(th)
  <2>1. /\ store[job.task] = call[th].to /\ store' = store
        /\ inbox' = Send(call[th].woken, call[th].to)
    BY <1>1, <1>5 DEF Settle, AloneInv, RowInv, storeVars
  <2>2. \/ call[th].woken = {}
        \/ \E t \in Tasks : store[t] \in Terminal /\ call[th].to = store[t]
    BY <1>1, <2>1
  <2> QED
    BY <1>0, <2>1, <2>2, ContractTell
<1> QED
  BY <1>2, <1>3, <1>4, <1>5

\* Every step of the task manager is a step of the contract or leaves it alone.
LEMMA ContractStep ==
  ASSUME WorkerAlone
  PROVE  TypeOK /\ IInv /\ HandInv /\ SenderInv /\ AloneInv /\ [Next]_vars
           => [Contract!Next]_<<store, inbox>>
<1> SUFFICES ASSUME TypeOK, IInv, HandInv, SenderInv, AloneInv, [Next]_vars
             PROVE  [Contract!Next]_<<store, inbox>>
  OBVIOUS
<1>1. CASE \E t \in Tasks : EnqueuePersist(t)
  <2>1. PICK t \in Tasks : EnqueuePersist(t)
    BY <1>1
  <2>2. /\ store[t] = "absent" /\ store' = [store EXCEPT ![t] = "queued"] /\ inbox' = inbox
        /\ "queued" \in Pending /\ "queued" \in States
    BY <2>1 DEF EnqueuePersist, EnqueueStep, IInv, EnqueueInv, awaitVars, Pending, States
  <2> QED
    BY <2>2, ContractRow
<1>2. CASE \E t \in Tasks : Recover(t)
  <2>1. PICK t \in Tasks : Recover(t)
    BY <1>2
  <2> QED
    BY <2>1 DEF Recover, Unrecovered, awaitVars, AloneInv, RowInv
<1>3. CASE InCall
  BY <1>3, ContractCall, ConstantsAssumption DEF InCall, ConstantsAssumption
<1>4. CASE WorkerNext \/ WatchdogNext \/ ShutdownNext \/ \E t \in Tasks : MarkHeartbeat(t)
  <2>1. LoopFrame
    BY <1>4, WorkerSteps, WatchdogSteps, ShutdownSteps DEF IInv
  <2> QED
    BY <2>1 DEF LoopFrame, storeVars, awaitVars
<1>5. CASE \/ \E t \in Tasks : \/ EnqueueCheck(t) \/ EnqueueLookup(t)
                               \/ EnqueueStoreError(t) \/ EnqueueInsert(t)
           \/ \E a \in Awaiters : AwaitNext(a)
           \/ Crash \/ Recovered \/ UNCHANGED vars
  BY <1>5 DEF EnqueueCheck, EnqueueLookup, EnqueueStoreError, EnqueueInsert, AwaitNext, Await,
              AwaitResolves, AwaitReceives, AwaitTimesOut, Crash, Recovered, vars, storeVars,
              awaitVars
<1> QED
  BY <1>1, <1>2, <1>3, <1>4, <1>5 DEF Next, EnqueueNext

\* With the worker as the only loop the task manager implements TaskContract for its
\* callers: a row goes from unfinished to ended and never back, through crashes,
\* failed store calls and re-runs, and the end a waiter is sent is in the row already.
THEOREM WorkerImplementsContract == ASSUME WorkerAlone PROVE Spec => ImplementsContract
<1>1. Init => HandInv /\ SenderInv /\ AloneInv
  BY HandInit, SenderInit, AloneInit
<1>2. Init => Contract!Init
  BY DEF Init, Contract!Init
<1> QED
  BY <1>1, <1>2, Safe, HandStep, SenderStep, AloneStep, ContractStep, PTL
     DEF Spec, ImplementsContract, Contract!Spec
-----------------------------------------------------------------------------
(* All three loops: when a row may be wrong, and what rows promise then.   *)

\* An end is in the map before it is in the row, and in the map while a call writes it.
EndFirst ==
  /\ \A t \in Tasks : /\ store[t] \in Terminal /\ mem[t] # "absent" => mem[t] \in Terminal
                      /\ enq[t] = "insert" => store[t] = "queued"
  /\ \A th \in AllThreads : call[th].stage # "idle" /\ call[th].to \in Terminal =>
                              mem[call[th].task] \in Terminal

\* The tasks whose row some loop has still to write.
Unwritten(t) == \E th \in AllThreads : call[th].stage = "row" /\ call[th].task = t

\* While rows are written apart: what a loop has still to write is what the map says,
\* an end that was written is in the row, and a row no call is about agrees with the
\* map until a store call fails.
ApartInv ==
  /\ \A th \in AllThreads :
       /\ call[th].stage = "row" => mem[call[th].task] = call[th].to
       /\ call[th].stage \in {"log", "settle"} /\ call[th].to \in Terminal =>
            store[call[th].task] \in Terminal
  /\ errors = 0 => \A t \in Tasks : mem[t] # "absent" => store[t] = mem[t] \/ Unwritten(t)

\* What the loops do, seen by both invariants.
LEMMA EndFirstLoop ==
  ASSUME TypeOK, IInv, EndFirst, LoopStep, LoopFrame PROVE EndFirst'
<1>0. store' = store /\ enq' = enq /\ mem \in [Tasks -> States]
  BY DEF LoopFrame, storeVars, enqVars, TypeOK, MemType
<1>1. CASE Quiet
  BY <1>0, <1>1 DEF EndFirst, Quiet
<1>2. ASSUME NEW th \in AllThreads, NEW t \in Tasks, NEW to \in AnyLabel, Moves(th, t, to)
      PROVE  EndFirst'
  <2>1. /\ mem[t] # "absent" /\ (mem[t] \in Terminal => to \in Terminal)
        /\ call'[th].task = t /\ call'[th].to = to
        /\ \A x \in AllThreads \ {th} : call'[x] = call[x]
    BY <1>2 DEF Moves
  <2>2. \A u \in Tasks : mem'[u] = IF u = t THEN to ELSE mem[u]
    BY <1>0, <1>2 DEF Moves
  <2>3. \A x \in AllThreads : call[x].stage # "idle" => call[x].task \in Tasks
    BY DEF TypeOK
  <2> QED
    BY <1>0, <2>1, <2>2, <2>3 DEF EndFirst
<1> QED
  BY <1>1, <1>2 DEF LoopStep

\* The steps inside transition().
LEMMA EndFirstCall ==
  ASSUME TypeOK, IInv, EndFirst, NEW th \in AllThreads,
         WriteRow(th) \/ WriteLog(th) \/ TransitionStoreError(th) \/ Settle(th)
  PROVE  EndFirst'
<1>0. /\ call \in [AllThreads -> Calls] /\ store \in [Tasks -> States]
      /\ mem' = mem /\ enq' = enq
      /\ call[th].stage # "idle" /\ call[th].task \in Tasks /\ mem[call[th].task] # "absent"
  BY DEF TypeOK, ThreadType, StoreType, IInv, CallInv, WriteRow, WriteLog, TransitionStoreError,
         Settle, memVars, enqVars
<1>1. \A x \in AllThreads : \/ call'[x].stage = "idle"
                            \/ /\ call[x].stage # "idle" /\ call'[x].task = call[x].task
                               /\ call'[x].to = call[x].to
  BY <1>0 DEF WriteRow, WriteLog, TransitionStoreError, Settle, Calls, Idle
<1>2. \A t \in Tasks : \/ store'[t] = store[t]
                       \/ t = call[th].task /\ store'[t] = call[th].to
  BY <1>0 DEF WriteRow, WriteLog, TransitionStoreError, Settle, storeVars
<1>3. \A t \in Tasks : enq[t] = "insert" => mem[t] = "absent"
  BY DEF IInv, EnqueueInv
<1> QED
  BY <1>0, <1>1, <1>2, <1>3 DEF EndFirst

\* Every step keeps that ends come first.
LEMMA EndFirstStep == TypeOK /\ IInv /\ EndFirst /\ [Next]_vars => EndFirst'
<1> SUFFICES ASSUME TypeOK, IInv, EndFirst, [Next]_vars PROVE EndFirst'
  OBVIOUS
<1>0. /\ mem \in [Tasks -> States] /\ store \in [Tasks -> States]
      /\ enq \in [Tasks -> EnqueuePlaces] /\ call \in [AllThreads -> Calls]
  BY DEF TypeOK, MemType, StoreType, EnqueueType, ThreadType
<1>1. CASE \E t \in Tasks : EnqueueNext(t)
  <2>1. PICK t \in Tasks : EnqueueNext(t)
    BY <1>1
  <2>2. /\ mem[t] = "absent" /\ call' = call
        /\ \A u \in Tasks \ {t} : mem'[u] = mem[u] /\ store'[u] = store[u] /\ enq'[u] = enq[u]
    BY <1>0, <2>1 DEF EnqueueNext, EnqueueCheck, EnqueueLookup, EnqueuePersist, EnqueueStoreError,
              EnqueueInsert, EnqueueStep, IInv, EnqueueInv, memVars, storeVars
  <2>3. /\ mem'[t] # "absent" => store'[t] = "queued"
        /\ enq'[t] = "insert" => store'[t] = "queued"
    BY <1>0, <2>1, <2>2 DEF EnqueueNext, EnqueueCheck, EnqueueLookup, EnqueuePersist,
         EnqueueStoreError, EnqueueInsert, EnqueueStep, EndFirst, memVars, storeVars
  <2>4. \A th \in AllThreads : call[th].stage # "idle" =>
          call[th].task \in Tasks /\ mem[call[th].task] # "absent"
    BY DEF TypeOK, IInv, CallInv
  <2>5. "queued" \notin Terminal
    BY DEF Terminal
  <2> QED
    BY <2>2, <2>3, <2>4, <2>5 DEF EndFirst
<1>2. CASE WorkerNext \/ WatchdogNext \/ ShutdownNext \/ \E t \in Tasks : MarkHeartbeat(t)
  <2>1. LoopStep /\ LoopFrame
    BY <1>2, WorkerSteps, WatchdogSteps, ShutdownSteps DEF IInv
  <2> QED
    BY <2>1, EndFirstLoop
<1>3. CASE InCall
  BY <1>3, EndFirstCall, ConstantsAssumption DEF InCall, ConstantsAssumption
<1>4. CASE Crash
  <2>1. /\ \A t \in Tasks : mem'[t] = "absent" /\ enq'[t] # "insert"
        /\ \A th \in AllThreads : call'[th].stage = "idle"
    BY <1>0, <1>4 DEF Crash, Idle
  <2> QED
    BY <2>1 DEF EndFirst
<1>5. CASE \E t \in Tasks : Recover(t)
  <2>1. PICK t \in Tasks : Recover(t)
    BY <1>5
  <2>2. /\ mem[t] = "absent" /\ mem'[t] = store'[t] /\ call' = call /\ enq' = enq
        /\ enq[t] # "insert"
        /\ \A u \in Tasks \ {t} : mem'[u] = mem[u] /\ store'[u] = store[u]
    BY <1>0, <2>1 DEF Recover, Unrecovered, enqVars, IInv, EnqueueInv
  <2>3. \A th \in AllThreads : call[th].stage # "idle" =>
          call[th].task \in Tasks /\ mem[call[th].task] # "absent"
    BY DEF TypeOK, IInv, CallInv
  <2> QED
    BY <2>2, <2>3 DEF EndFirst
<1>6. CASE Recovered \/ UNCHANGED vars \/ \E a \in Awaiters : AwaitNext(a)
  <2>1. UNCHANGED <<mem, store, enq, call>>
    BY <1>6 DEF AwaitNext, Await, AwaitResolves, AwaitReceives, AwaitTimesOut, Recovered, vars,
                memVars, storeVars, enqVars
  <2> QED
    BY <2>1 DEF EndFirst
<1> QED
  BY <1>1, <1>2, <1>3, <1>4, <1>5, <1>6 DEF Next

\* Ends come first at the start.
LEMMA EndFirstInit == Init => EndFirst
BY DEF Init, EndFirst, Idle, Terminal

\* A step that makes an ended row say something else than an end is the late write of
\* a row by a loop whose transition was made before the end.
LEMMA UndoneStep ==
  ASSUME TypeOK, IInv, EndFirst, Next, NEW t \in Tasks, store[t] \in Terminal,
         store'[t] \notin Terminal
  PROVE  /\ mem[t] \in Terminal
         /\ \E th \in AllThreads :
              /\ call[th].stage = "row" /\ call[th].task = t
              /\ call[th].to \in Pending /\ store'[t] = call[th].to
<1>0. /\ store \in [Tasks -> States] /\ "absent" \notin Terminal
      /\ Pending \cap Terminal = {} /\ \A s \in States : s \in Pending \/ s \in Terminal \/ s = "absent"
  BY DEF TypeOK, StoreType, Pending, Terminal, States
<1>1. CASE \E th \in AllThreads : WriteRow(th)
  <2>1. PICK th \in AllThreads : WriteRow(th)
    BY <1>1
  <2>2. /\ call[th].stage = "row" /\ call[th].task \in Tasks /\ mem[call[th].task] # "absent"
        /\ call[th].to \in States /\ call[th].to # "absent"
        /\ store' = [store EXCEPT ![call[th].task] = call[th].to]
    BY <2>1 DEF WriteRow, TypeOK, ThreadType, Calls, IInv, CallInv
  <2>3. call[th].task = t /\ store'[t] = call[th].to
    BY <1>0, <2>2
  <2> QED
    BY <1>0, <2>2, <2>3 DEF EndFirst
<1>2. CASE \E u \in Tasks : EnqueuePersist(u) \/ Recover(u)
  BY <1>0, <1>2 DEF EnqueuePersist, EnqueueStep, Recover, Unrecovered, IInv, EnqueueInv
<1>3. CASE WorkerNext \/ WatchdogNext \/ ShutdownNext \/ \E u \in Tasks : MarkHeartbeat(u)
  <2>1. LoopFrame
    BY <1>3, WorkerSteps, WatchdogSteps, ShutdownSteps DEF IInv
  <2> QED
    BY <2>1 DEF LoopFrame, storeVars
<1>4. CASE \/ \E u \in Tasks : \/ EnqueueCheck(u) \/ EnqueueLookup(u)
                               \/ EnqueueStoreError(u) \/ EnqueueInsert(u)
           \/ \E th \in AllThreads : WriteLog(th) \/ TransitionStoreError(th) \/ Settle(th)
           \/ \E a \in Awaiters : AwaitNext(a)
           \/ Crash \/ Recovered
  BY <1>4 DEF EnqueueCheck, EnqueueLookup, EnqueueStoreError, EnqueueInsert, WriteLog,
              TransitionStoreError, Settle, AwaitNext, Await, AwaitResolves, AwaitReceives,
              AwaitTimesOut, Crash, Recovered, storeVars
<1>5. Threads \subseteq AllThreads
  BY ConstantsAssumption DEF ConstantsAssumption
<1> QED
  BY <1>1, <1>2, <1>3, <1>4, <1>5 DEF Next, EnqueueNext, InCall

\* The invariant of ends that come first, for any loops.
THEOREM EndsComeFirst == Spec => []EndFirst
BY EndFirstInit, EndFirstStep, Safe, PTL DEF Spec

\* Whatever loops run, crash and fail: no loop takes a task out of an end, and an end in
\* the tasks table is undone only by a loop that writes late the row of a transition it
\* made before the task ended.
THEOREM EndsAreFinal == Spec => EndIsFinal
<1> DEFINE Final ==
             /\ up => \A t \in Tasks : mem[t] \in Terminal /\ up' => mem'[t] \in Terminal
             /\ \A t \in Tasks :
                  store[t] \in Terminal /\ store'[t] \notin Terminal => WrittenLate(t)
<1>1. TypeOK /\ IInv /\ EndFirst /\ [Next]_vars => [Final]_vars
  <2> SUFFICES ASSUME TypeOK, IInv, EndFirst, Next PROVE Final
    OBVIOUS
  <2>1. up => \A t \in Tasks : mem[t] \in Terminal /\ up' => mem'[t] \in Terminal
    BY MapEndsStay
  <2> QED
    BY <2>1, UndoneStep DEF WrittenLate
<1>2. []TypeOK /\ []IInv /\ []EndFirst /\ [][Next]_vars => [][Final]_vars
  BY <1>1, PTL
<1> QED
  BY <1>2, Safe, EndsComeFirst, PTL DEF Spec, EndIsFinal

\* While rows are written apart, the loops keep the invariant.
LEMMA ApartLoop ==
  ASSUME TypeOK, IInv, EndFirst, ApartInv, WritesApart', LoopStep, LoopFrame,
         errors' = errors
  PROVE  ApartInv'
<1>0. store' = store /\ mem \in [Tasks -> States]
  BY DEF LoopFrame, storeVars, TypeOK, MemType
<1>1. CASE Quiet
  BY <1>0, <1>1 DEF ApartInv, Unwritten, Quiet
<1>2. ASSUME NEW th \in AllThreads, NEW t \in Tasks, NEW to \in AnyLabel, Moves(th, t, to)
      PROVE  ApartInv'
  <2>1. /\ mem[t] # "absent" /\ (mem[t] \in Terminal => to \in Terminal)
        /\ call[th].stage = "idle"
        /\ call'[th].task = t /\ call'[th].to = to /\ call'[th].stage = "row"
        /\ \A x \in AllThreads \ {th} : call'[x] = call[x]
    BY <1>2 DEF Moves
  <2>2. \A u \in Tasks : mem'[u] = IF u = t THEN to ELSE mem[u]
    BY <1>0, <1>2 DEF Moves
  <2>3. \A x \in AllThreads \ {th} : call[x].stage = "row" => call[x].task # t
    BY <2>1 DEF WritesApart
  <2>4. \A x \in AllThreads : call[x].stage # "idle" => call[x].task \in Tasks
    BY DEF TypeOK
  <2>5. \A x \in AllThreads : call'[x].stage = "row" => mem'[call'[x].task] = call'[x].to
    BY <2>1, <2>2, <2>3, <2>4 DEF ApartInv
  <2>6. \A x \in AllThreads : call'[x].stage \in {"log", "settle"} /\ call'[x].to \in Terminal =>
          store'[call'[x].task] \in Terminal
    BY <1>0, <2>1 DEF ApartInv
  <2>7. \A u \in Tasks \ {t} : Unwritten(u) => Unwritten(u)'
    BY <2>1 DEF Unwritten
  <2>8. Unwritten(t)'
    BY <2>1 DEF Unwritten
  <2>9. errors' = 0 => \A u \in Tasks : mem'[u] # "absent" => store'[u] = mem'[u] \/ Unwritten(u)'
    BY <1>0, <2>2, <2>7, <2>8 DEF ApartInv
  <2> QED
    BY <2>5, <2>6, <2>9 DEF ApartInv
<1> QED
  BY <1>1, <1>2 DEF LoopStep

\* So do the steps inside transition().
LEMMA ApartCall ==
  ASSUME TypeOK, IInv, EndFirst, ApartInv, WritesApart, NEW th \in AllThreads,
         WriteRow(th) \/ WriteLog(th) \/ TransitionStoreError(th) \/ Settle(th)
  PROVE  ApartInv'
<1>0. /\ call \in [AllThreads -> Calls] /\ store \in [Tasks -> States] /\ errors \in Nat
      /\ mem' = mem
      /\ call[th].stage # "idle" /\ call[th].task \in Tasks
      /\ \A x \in AllThreads : call[x].stage # "idle" => call[x].task \in Tasks
  BY ConstantsAssumption
     DEF TypeOK, ThreadType, StoreType, BoundType, ConstantsAssumption, WriteRow, WriteLog,
         TransitionStoreError, Settle, memVars
<1>1. CASE WriteRow(th)
  <2>1. /\ call[th].stage = "row" /\ call'[th].stage = "log" /\ errors' = errors
        /\ call'[th].task = call[th].task /\ call'[th].to = call[th].to
        /\ \A x \in AllThreads \ {th} : call'[x] = call[x]
    BY <1>0, <1>1 DEF WriteRow, Calls, bounds
  <2>2. \A t \in Tasks : store'[t] = IF t = call[th].task THEN call[th].to ELSE store[t]
    BY <1>0, <1>1 DEF WriteRow
  <2>3. mem[call[th].task] = call[th].to
    BY <2>1 DEF ApartInv
  <2>4. \A x \in AllThreads : call'[x].stage = "row" => mem'[call'[x].task] = call'[x].to
    BY <1>0, <2>1 DEF ApartInv
  <2>5. \A x \in AllThreads : call[x].stage # "idle" /\ call[x].to \in Terminal =>
          mem[call[x].task] \in Terminal
    BY DEF EndFirst
  <2>6. \A x \in AllThreads : call'[x].stage \in {"log", "settle"} /\ call'[x].to \in Terminal =>
          store'[call'[x].task] \in Terminal
    BY <1>0, <2>1, <2>2, <2>3, <2>5 DEF ApartInv
  <2>7. \A u \in Tasks \ {call[th].task} : Unwritten(u) => Unwritten(u)'
    BY <2>1 DEF Unwritten
  <2>8. errors' = 0 => \A u \in Tasks : mem'[u] # "absent" => store'[u] = mem'[u] \/ Unwritten(u)'
    BY <1>0, <2>1, <2>2, <2>3, <2>7 DEF ApartInv
  <2> QED
    BY <2>4, <2>6, <2>8 DEF ApartInv
<1>2. CASE WriteLog(th) \/ Settle(th)
  <2>1. /\ call[th].stage \in {"log", "settle"} /\ errors' = errors /\ store' = store
        /\ \/ call'[th].stage = "idle"
           \/ /\ call[th].stage = "log" /\ call'[th].stage = "settle"
              /\ call'[th].task = call[th].task /\ call'[th].to = call[th].to
        /\ \A x \in AllThreads \ {th} : call'[x] = call[x]
    BY <1>0, <1>2 DEF WriteLog, Settle, Calls, Idle, bounds, storeVars
  <2>2. \A u \in Tasks : Unwritten(u) => Unwritten(u)'
    BY <2>1 DEF Unwritten
  <2> QED
    BY <1>0, <2>1, <2>2 DEF ApartInv
<1>3. CASE TransitionStoreError(th)
  <2>1. /\ errors' # 0 /\ store' = store /\ call'[th].stage = "idle"
        /\ \A x \in AllThreads \ {th} : call'[x] = call[x]
    BY <1>0, <1>3 DEF TransitionStoreError, Idle, storeVars
  <2> QED
    BY <1>0, <2>1 DEF ApartInv
<1> QED
  BY <1>1, <1>2, <1>3

\* What concerns a task that the map does not have, of which no loop holds a call.
LEMMA ApartFresh ==
  ASSUME TypeOK, IInv, EndFirst, ApartInv, NEW t \in Tasks, mem[t] = "absent", call' = call,
         \A u \in Tasks \ {t} : mem'[u] = mem[u] /\ store'[u] = store[u],
         errors' = 0 => errors = 0,
         mem'[t] = "absent" \/ mem'[t] = store'[t]
  PROVE  ApartInv'
<1>1. \A th \in AllThreads : call[th].stage # "idle" => call[th].task \in Tasks \ {t}
  BY DEF TypeOK, IInv, CallInv
<1>2. \A u \in Tasks : Unwritten(u)' = Unwritten(u)
  BY DEF Unwritten
<1>3. \A th \in AllThreads :
        /\ call'[th].stage = "row" => mem'[call'[th].task] = call'[th].to
        /\ call'[th].stage \in {"log", "settle"} /\ call'[th].to \in Terminal =>
             store'[call'[th].task] \in Terminal
  BY <1>1 DEF ApartInv
<1>4. errors' = 0 => \A u \in Tasks : mem'[u] # "absent" => store'[u] = mem'[u] \/ Unwritten(u)'
  BY <1>2 DEF ApartInv
<1> QED
  BY <1>3, <1>4 DEF ApartInv

\* While rows are written apart, every step keeps the invariant.
LEMMA ApartStep ==
  TypeOK /\ IInv /\ EndFirst /\ ApartInv /\ WritesApart /\ WritesApart' /\ [Next]_vars => ApartInv'
<1> SUFFICES ASSUME TypeOK, IInv, EndFirst, ApartInv, WritesApart, WritesApart', [Next]_vars
             PROVE  ApartInv'
  OBVIOUS
<1>0. /\ mem \in [Tasks -> States] /\ store \in [Tasks -> States] /\ errors \in Nat
      /\ call \in [AllThreads -> Calls]
  BY ConstantsAssumption
     DEF TypeOK, MemType, StoreType, BoundType, ThreadType, ConstantsAssumption
<1>1. CASE \E t \in Tasks : EnqueueNext(t)
  <2>1. PICK t \in Tasks : EnqueueNext(t)
    BY <1>1
  <2>2. /\ mem[t] = "absent" /\ call' = call /\ (errors' = 0 => errors = 0)
        /\ \A u \in Tasks \ {t} : mem'[u] = mem[u] /\ store'[u] = store[u]
    BY <1>0, <2>1 DEF EnqueueNext, EnqueueCheck, EnqueueLookup, EnqueuePersist, EnqueueStoreError,
              EnqueueInsert, EnqueueStep, IInv, EnqueueInv, memVars, storeVars, bounds
  <2>3. mem'[t] = "absent" \/ mem'[t] = store'[t]
    BY <1>0, <2>1, <2>2 DEF EnqueueNext, EnqueueCheck, EnqueueLookup, EnqueuePersist,
         EnqueueStoreError, EnqueueInsert, EnqueueStep, EndFirst, memVars, storeVars
  <2> QED
    BY <2>2, <2>3, ApartFresh
<1>2. CASE WorkerNext \/ WatchdogNext \/ ShutdownNext \/ \E t \in Tasks : MarkHeartbeat(t)
  <2>1. LoopStep /\ LoopFrame
    BY <1>2, WorkerSteps, WatchdogSteps, ShutdownSteps DEF IInv
  <2>2. errors' = errors
    BY <1>2
       DEF WorkerNext, WorkerPop, WorkerStops, WorkerChecksBreaker, WorkerDispatches,
           WorkerStarts, WorkerExecutes, WorkerHasNoRuntime, WorkerEndsTurn, WatchdogNext,
           WatchdogScans, WatchdogHandles, WatchdogRests, ShutdownNext, StopAccepting, Drained,
           GraceEnds, Suspend, SuspendEnds, MarkHeartbeat, TransitionOnly, bounds
  <2> QED
    BY <2>1, <2>2, ApartLoop
<1>3. CASE InCall
  BY <1>3, ApartCall, ConstantsAssumption DEF InCall, ConstantsAssumption
<1>4. CASE Crash
  <2>1. /\ \A t \in Tasks : mem'[t] = "absent"
        /\ \A th \in AllThreads : call'[th].stage = "idle"
    BY <1>4 DEF Crash, Idle
  <2> QED
    BY <2>1 DEF ApartInv
<1>5. CASE \E t \in Tasks : Recover(t)
  <2>1. PICK t \in Tasks : Recover(t)
    BY <1>5
  <2>2. /\ mem[t] = "absent" /\ mem'[t] = store'[t] /\ call' = call
        /\ (errors' = 0 => errors = 0)
        /\ \A u \in Tasks \ {t} : mem'[u] = mem[u] /\ store'[u] = store[u]
    BY <1>0, <2>1 DEF Recover, Unrecovered
  <2> QED
    BY <2>2, ApartFresh
<1>6. CASE Recovered \/ UNCHANGED vars \/ \E a \in Awaiters : AwaitNext(a)
  <2>1. UNCHANGED <<mem, store, call, errors>>
    BY <1>6 DEF AwaitNext, Await, AwaitResolves, AwaitReceives, AwaitTimesOut, Recovered, vars,
                memVars, storeVars, bounds
  <2>2. \A u \in Tasks : Unwritten(u)' = Unwritten(u)
    BY <2>1 DEF Unwritten
  <2> QED
    BY <2>1, <2>2 DEF ApartInv
<1> QED
  BY <1>1, <1>2, <1>3, <1>4, <1>5, <1>6 DEF Next

\* The invariant of rows that are written apart holds at the start.
LEMMA ApartInit == Init => ApartInv
BY DEF Init, ApartInv, Idle

\* With the worker alone they always are.
THEOREM AloneIsApart == ASSUME WorkerAlone PROVE Spec => []WritesApart
<1>1. AloneInv => WritesApart
  BY DEF AloneInv, RowInv, WritesApart
<1> QED
  BY <1>1, Safe, HandInit, HandStep, AloneInit, AloneStep, PTL DEF Spec

\* For any loops: as long as no two have a row of one task still to write, every row
\* says what the map says whenever no transition is in progress and no store call has
\* failed. RowsAgree fails for no other reason.
THEOREM RowsAgreeApart == Spec /\ []WritesApart => []RowsAgree
<1>1. ApartInv => RowsAgree
  <2> SUFFICES ASSUME ApartInv, errors = 0, \A th \in AllThreads : call[th].stage = "idle",
                      NEW t \in Tasks, mem[t] # "absent"
               PROVE  store[t] = mem[t]
    BY DEF RowsAgree
  <2>1. ~Unwritten(t)
    BY DEF Unwritten
  <2> QED
    BY <2>1 DEF ApartInv
<1> QED
  BY <1>1, Safe, EndsComeFirst, ApartInit, ApartStep, PTL DEF Spec

\* A step that leaves what callers were sent alone and writes at most one row.
LEMMA LooseRow ==
  ASSUME TypeOK, NEW t \in Tasks, NEW s \in States, inbox' = inbox,
         store' = [store EXCEPT ![t] = s],
         \/ store[t] = "absent" /\ s \in Pending
         \/ store[t] \in Pending /\ s \in Pending \cup Terminal
         \/ store[t] \in Terminal /\ s \in Terminal
  PROVE  [Contract!LooseNext]_<<store, inbox>>
<1>1. CASE store[t] = "absent" /\ s \in Pending
  BY <1>1 DEF Contract!LooseNext, Contract!Submit
<1>2. CASE store[t] \in Pending /\ s \in Pending \cup Terminal
  BY <1>2 DEF Contract!LooseNext, Contract!Proceed
<1>3. CASE store[t] \in Terminal /\ s \in Terminal
  BY <1>3 DEF Contract!LooseNext, Contract!Amend
<1> QED
  BY <1>1, <1>2, <1>3

\* Callers who were not told anything before are told an end of a task whose row has
\* one, or that there is no answer.
LEMMA LooseTell ==
  ASSUME TypeOK, NEW who \in SUBSET Awaiters, NEW what, inbox' = Send(who, what), store' = store,
         \A a \in who : inbox[a] = "none",
         \/ who = {} \/ what = "closed"
         \/ what \in Terminal /\ \E t \in Tasks : store[t] \in Terminal
  PROVE  [Contract!LooseNext]_<<store, inbox>>
<1> DEFINE told == {a \in who : apc[a] \in {"resolve", "wait"}}
<1>1. /\ told \in SUBSET Contract!Waiting
      /\ inbox' = [a \in Awaiters |-> IF a \in told THEN what ELSE inbox[a]]
  BY DEF Send, Contract!Waiting
<1>2. CASE who = {}
  <2>1. inbox' = [a \in Awaiters |-> inbox[a]]
    BY <1>2 DEF Send
  <2>2. inbox' = inbox
    BY <2>1 DEF TypeOK, AwaitType
  <2> QED
    BY <2>2
<1>3. CASE what = "closed"
  <2>1. Contract!GiveUp(told)
    BY <1>1, <1>3 DEF Contract!GiveUp
  <2> QED
    BY <1>1, <2>1 DEF Contract!LooseNext
<1>4. CASE what \in Terminal /\ \E t \in Tasks : store[t] \in Terminal
  <2>1. PICK t \in Tasks : store[t] \in Terminal
    BY <1>4
  <2>2. Contract!TellEnd(told, t)
    BY <1>1, <1>4, <2>1 DEF Contract!TellEnd
  <2> QED
    BY <1>1, <2>2 DEF Contract!LooseNext
<1> QED
  BY <1>2, <1>3, <1>4

\* Every step, while rows are written apart, is one of the looser contract.
LEMMA LooseStep ==
  TypeOK /\ IInv /\ EndFirst /\ SenderInv /\ ApartInv /\ [Next]_vars
    => [Contract!LooseNext]_<<store, inbox>>
<1> SUFFICES ASSUME TypeOK, IInv, EndFirst, SenderInv, ApartInv, [Next]_vars
             PROVE  [Contract!LooseNext]_<<store, inbox>>
  OBVIOUS
<1>0. \A s \in States : s \in Pending \/ s \in Terminal \/ s = "absent"
  BY DEF States
<1>1. CASE \E t \in Tasks : EnqueuePersist(t)
  <2>1. PICK t \in Tasks : EnqueuePersist(t)
    BY <1>1
  <2>2. /\ store[t] = "absent" /\ store' = [store EXCEPT ![t] = "queued"] /\ inbox' = inbox
        /\ "queued" \in Pending /\ "queued" \in States
    BY <2>1 DEF EnqueuePersist, EnqueueStep, IInv, EnqueueInv, awaitVars, Pending, States
  <2> QED
    BY <2>2, LooseRow
<1>2. CASE \E t \in Tasks : Recover(t)
  <2>1. PICK t \in Tasks : Recover(t)
    BY <1>2
  <2>2. /\ store[t] \in Pending /\ inbox' = inbox
        /\ \/ store' = store
           \/ store' = [store EXCEPT ![t] = "queued"]
           \/ store' = [store EXCEPT ![t] = "failed"]
    BY <2>1 DEF Recover, Unrecovered, awaitVars
  <2>3. /\ "queued" \in Pending /\ "failed" \in Terminal
        /\ "queued" \in States /\ "failed" \in States
    BY DEF Pending, Terminal, States
  <2>4. CASE store' = store
    BY <2>2, <2>4
  <2>5. CASE store' = [store EXCEPT ![t] = "queued"]
    BY <2>2, <2>3, <2>5, LooseRow
  <2>6. CASE store' = [store EXCEPT ![t] = "failed"]
    BY <2>2, <2>3, <2>6, LooseRow
  <2> QED
    BY <2>2, <2>4, <2>5, <2>6
<1>3. CASE InCall
  <2>1. PICK th \in AllThreads :
          WriteRow(th) \/ WriteLog(th) \/ TransitionStoreError(th) \/ Settle(th)
    BY <1>3, ConstantsAssumption DEF InCall, ConstantsAssumption
  <2>2. /\ call[th] \in Calls /\ call[th].woken \in SUBSET Awaiters
        /\ \A a \in call[th].woken : inbox[a] = "none"
    BY DEF TypeOK, ThreadType, Calls, SenderInv
  <2>3. /\ call[th].stage # "idle" /\ call[th].task \in Tasks /\ call[th].to \in States
        /\ call[th].to # "absent" /\ mem[call[th].task] # "absent"
        /\ call[th].woken # {} => call[th].to \in Terminal
    BY <2>1, <2>2 DEF WriteRow, WriteLog, TransitionStoreError, Settle, TypeOK, Calls, IInv,
                      CallInv
  <2>4. CASE WriteRow(th)
    <3>1. /\ store' = [store EXCEPT ![call[th].task] = call[th].to] /\ inbox' = inbox
          /\ call[th].stage = "row"
      BY <2>4 DEF WriteRow, awaitVars
    <3>2. store[call[th].task] \in Terminal => call[th].to \in Terminal
      BY <2>3, <3>1 DEF EndFirst, ApartInv
    <3>3. store[call[th].task] # "absent"
      BY <2>3 DEF IInv, EnqueueInv
    <3>4. store[call[th].task] \in States
      BY <2>3 DEF TypeOK, StoreType
    <3> QED
      BY <1>0, <2>3, <3>1, <3>2, <3>3, <3>4, LooseRow
  <2>5. CASE WriteLog(th)
    BY <2>5 DEF WriteLog, awaitVars
  <2>6. CASE TransitionStoreError(th)
    BY <2>2, <2>6, LooseTell DEF TransitionStoreError, storeVars
  <2>7. CASE Settle(th)
    <3>1. /\ call[th].stage = "settle" /\ store' = store
          /\ inbox' = Send(call[th].woken, call[th].to)
      BY <2>7 DEF Settle, storeVars
    <3>2. call[th].woken # {} => call[th].to \in Terminal /\ store[call[th].task] \in Terminal
      BY <2>3, <3>1 DEF ApartInv
    <3> QED
      BY <2>2, <2>3, <3>1, <3>2, LooseTell
  <2> QED
    BY <2>1, <2>4, <2>5, <2>6, <2>7
<1>4. CASE WorkerNext \/ WatchdogNext \/ ShutdownNext \/ \E t \in Tasks : MarkHeartbeat(t)
  <2>1. LoopFrame
    BY <1>4, WorkerSteps, WatchdogSteps, ShutdownSteps DEF IInv
  <2> QED
    BY <2>1 DEF LoopFrame, storeVars, awaitVars
<1>5. CASE \/ \E t \in Tasks : \/ EnqueueCheck(t) \/ EnqueueLookup(t)
                               \/ EnqueueStoreError(t) \/ EnqueueInsert(t)
           \/ \E a \in Awaiters : AwaitNext(a)
           \/ Crash \/ Recovered \/ UNCHANGED vars
  BY <1>5 DEF EnqueueCheck, EnqueueLookup, EnqueueStoreError, EnqueueInsert, AwaitNext, Await,
              AwaitResolves, AwaitReceives, AwaitTimesOut, Crash, Recovered, vars, storeVars,
              awaitVars
<1> QED
  BY <1>1, <1>2, <1>3, <1>4, <1>5 DEF Next, EnqueueNext

\* For any loops, crashes and failed store calls: as long as no two loops have a row of
\* one task still to write, an end is never taken back, whoever is sent an end is sent
\* it after the row has one, and every step is one of the looser contract or a stutter.
THEOREM LoopsImplementLooseContract == Spec /\ []WritesApart => ImplementsLooseContract
<1>1. Init => Contract!Init
  BY DEF Init, Contract!Init
<1> QED
  BY <1>1, Safe, EndsComeFirst, ApartInit, ApartStep, SenderInit, SenderStep, LooseStep, PTL
     DEF Spec, ImplementsLooseContract, Contract!LooseSpec
-----------------------------------------------------------------------------
(* What a key that is not unique needs.                                    *)

\* Two tasks callers gave one key.
Alike(t, u) == t # u /\ KeyOf[t] # NoKey /\ KeyOf[t] = KeyOf[u]

\* Unfinished for the map or for the table.
Open(t) == mem[t] \in Pending \/ store[t] \in Pending

\* Of tasks with one key one is open, none while another is about to get its row, and
\* none in the map while another has still to look at the table.
KeyInv ==
  \A t, u \in Tasks : Alike(t, u) =>
    /\ ~(Open(t) /\ Open(u))
    /\ enq[u] = "persist" => ~Open(t)
    /\ enq[u] = "lookup" => mem[t] \notin Pending

\* What makes no task open and brings no enqueue further keeps the invariant.
LEMMA KeyStill ==
  ASSUME KeyInv,
         \A t \in Tasks : mem'[t] \in Pending =>
           \/ mem[t] \in Pending
           \/ store[t] \in Pending /\ \A u \in Tasks : Alike(t, u) => enq[u] # "lookup",
         \A t \in Tasks : store'[t] \in Pending => Open(t),
         \A t \in Tasks : enq'[t] \in {"lookup", "persist"} => enq'[t] = enq[t]
  PROVE  KeyInv'
<1>1. \A t, u \in Tasks : Alike(t, u)' <=> Alike(t, u)
  BY DEF Alike
<1>2. \A t \in Tasks : Open(t)' => Open(t)
  BY DEF Open
<1> QED
  BY <1>1, <1>2 DEF KeyInv, Open

\* The steps of enqueue_direct, when no other with the key is under way.
LEMMA KeyEnqueue ==
  ASSUME TypeOK, IInv, EndFirst, KeyInv, EnqueuesApart, NEW t \in Tasks, EnqueueNext(t)
  PROVE  KeyInv'
<1>0. /\ mem \in [Tasks -> States] /\ store \in [Tasks -> States]
      /\ enq \in [Tasks -> EnqueuePlaces] /\ "queued" \in Pending
  BY DEF TypeOK, MemType, StoreType, EnqueueType, Pending
<1>1. \A v, u \in Tasks : (Alike(v, u)' <=> Alike(v, u)) /\ (Alike(v, u) <=> Alike(u, v))
  BY DEF Alike
<1>2. \A u \in Tasks \ {t} : enq'[u] = enq[u] /\ mem'[u] = mem[u] /\ store'[u] = store[u]
  BY <1>0 DEF EnqueueNext, EnqueueCheck, EnqueueLookup, EnqueuePersist, EnqueueStoreError,
              EnqueueInsert, EnqueueStep, memVars, storeVars
<1>3. CASE EnqueueCheck(t)
  <2>1. mem' = mem /\ store' = store
    BY <1>3 DEF EnqueueCheck, memVars, storeVars
  <2>2. enq'[t] = "persist" => KeyOf[t] = NoKey
    BY <1>0, <1>3 DEF EnqueueCheck, EnqueueStep
  <2>3. enq'[t] = "lookup" => SameKeyInMemory(t) = {} /\ KeyOf[t] # NoKey
    BY <1>0, <1>3 DEF EnqueueCheck, EnqueueStep, MayEnter
  <2>4. enq'[t] = "lookup" => \A u \in Tasks : Alike(u, t) => mem[u] \notin Pending
    BY <2>3 DEF SameKeyInMemory, Alike
  <2>5. enq'[t] = "persist" => \A u \in Tasks : ~Alike(u, t)
    BY <2>2 DEF Alike
  <2> QED
    BY <1>1, <1>2, <2>1, <2>4, <2>5 DEF KeyInv, Open
<1>4. CASE EnqueueLookup(t)
  <2>1. mem' = mem /\ store' = store /\ enq[t] = "lookup" /\ enq'[t] # "lookup"
    BY <1>0, <1>4 DEF EnqueueLookup, EnqueueStep, memVars, storeVars
  <2>2. enq'[t] = "persist" => SameKeyInStore(t) = {}
    BY <1>0, <1>4 DEF EnqueueLookup, EnqueueStep
  <2>3. enq'[t] = "persist" => \A u \in Tasks : Alike(u, t) => ~Open(u)
    BY <2>1, <2>2 DEF SameKeyInStore, Alike, KeyInv, Open
  <2> QED
    BY <1>1, <1>2, <2>1, <2>3 DEF KeyInv, Open
<1>5. CASE EnqueuePersist(t)
  <2>1. mem' = mem /\ enq[t] = "persist" /\ enq'[t] = "insert"
    BY <1>0, <1>5 DEF EnqueuePersist, EnqueueStep, memVars
  <2>2. \A u \in Tasks : Alike(u, t) => ~Open(u) /\ enq[u] \notin {"lookup", "persist"}
    BY <2>1 DEF KeyInv, EnqueuesApart, Alike
  <2> QED
    BY <1>1, <1>2, <2>1, <2>2 DEF KeyInv, Open
<1>6. CASE EnqueueStoreError(t)
  <2>1. mem' = mem /\ store' = store /\ enq'[t] = "rejected"
    BY <1>0, <1>6 DEF EnqueueStoreError, EnqueueStep, memVars, storeVars
  <2> QED
    BY <1>2, <2>1, KeyStill DEF Open
<1>7. CASE EnqueueInsert(t)
  <2>1. store' = store /\ enq[t] = "insert" /\ enq'[t] = "accepted"
    BY <1>0, <1>7 DEF EnqueueInsert, EnqueueStep, storeVars
  <2>2. store[t] \in Pending
    BY <1>0, <2>1 DEF EndFirst
  <2>3. \A u \in Tasks : Alike(t, u) => enq[u] # "lookup"
    BY <2>1 DEF EnqueuesApart, Alike
  <2> QED
    BY <1>2, <2>1, <2>2, <2>3, KeyStill DEF Open
<1> QED
  BY <1>3, <1>4, <1>5, <1>6, <1>7 DEF EnqueueNext

\* Every step keeps the invariant when enqueues with one key do not overlap and rows are
\* written apart.
LEMMA KeyStep ==
  TypeOK /\ IInv /\ EndFirst /\ ApartInv /\ EnqueuesApart /\ KeyInv /\ [Next]_vars => KeyInv'
<1> SUFFICES ASSUME TypeOK, IInv, EndFirst, ApartInv, EnqueuesApart, KeyInv, [Next]_vars
             PROVE  KeyInv'
  OBVIOUS
<1>0. /\ mem \in [Tasks -> States] /\ store \in [Tasks -> States]
      /\ enq \in [Tasks -> EnqueuePlaces] /\ call \in [AllThreads -> Calls]
      /\ "absent" \notin Pending /\ Pending \cap Terminal = {}
      /\ \A s \in States : s \in Pending \/ s \in Terminal \/ s = "absent"
  BY DEF TypeOK, MemType, StoreType, EnqueueType, ThreadType, Pending, Terminal, States
<1>1. CASE \E t \in Tasks : EnqueueNext(t)
  BY <1>1, KeyEnqueue
<1>2. CASE WorkerNext \/ WatchdogNext \/ ShutdownNext \/ \E t \in Tasks : MarkHeartbeat(t)
  <2>1. LoopStep /\ LoopFrame
    BY <1>2, WorkerSteps, WatchdogSteps, ShutdownSteps DEF IInv
  <2>2. store' = store /\ enq' = enq
    BY <2>1 DEF LoopFrame, storeVars, enqVars
  <2>3. \A t \in Tasks : mem'[t] \in Pending => mem[t] \in Pending
    BY <1>0, <2>1 DEF LoopStep, Quiet, Moves
  <2> QED
    BY <2>2, <2>3, KeyStill DEF Open
<1>3. CASE InCall
  <2>1. PICK th \in AllThreads :
          WriteRow(th) \/ WriteLog(th) \/ TransitionStoreError(th) \/ Settle(th)
    BY <1>3, ConstantsAssumption DEF InCall, ConstantsAssumption
  <2>2. mem' = mem /\ enq' = enq
    BY <2>1 DEF WriteRow, WriteLog, TransitionStoreError, Settle, memVars, enqVars
  <2>3. CASE WriteRow(th)
    <3>1. /\ mem[call[th].task] = call[th].to /\ call[th].task \in Tasks
          /\ store' = [store EXCEPT ![call[th].task] = call[th].to]
      BY <2>3 DEF WriteRow, ApartInv, TypeOK
    <3>2. \A t \in Tasks : store'[t] \in Pending => Open(t)
      BY <1>0, <3>1 DEF Open
    <3> QED
      BY <2>2, <3>2, KeyStill
  <2>4. CASE WriteLog(th) \/ TransitionStoreError(th) \/ Settle(th)
    <3>1. store' = store
      BY <2>4 DEF WriteLog, TransitionStoreError, Settle, storeVars
    <3> QED
      BY <2>2, <3>1, KeyStill DEF Open
  <2> QED
    BY <2>1, <2>3, <2>4
<1>4. CASE Crash
  <2>1. /\ \A t \in Tasks : mem'[t] \notin Pending /\ enq'[t] \notin {"lookup", "persist"}
        /\ store' = store
    BY <1>0, <1>4 DEF Crash, storeVars
  <2> QED
    BY <2>1, KeyStill DEF Open
<1>5. CASE \E t \in Tasks : Recover(t)
  <2>1. PICK t \in Tasks : Recover(t)
    BY <1>5
  <2>2. /\ enq' = enq /\ store[t] \in Pending /\ \A u \in Tasks : enq[u] # "lookup"
        /\ \A u \in Tasks \ {t} : mem'[u] = mem[u] /\ store'[u] = store[u]
    BY <1>0, <2>1 DEF Recover, Unrecovered, enqVars, IInv, EnqueueInv
  <2> QED
    BY <2>2, KeyStill DEF Open
<1>6. CASE Recovered \/ UNCHANGED vars \/ \E a \in Awaiters : AwaitNext(a)
  <2>1. UNCHANGED <<mem, store, enq>>
    BY <1>6 DEF AwaitNext, Await, AwaitResolves, AwaitReceives, AwaitTimesOut, Recovered, vars,
                memVars, storeVars, enqVars
  <2> QED
    BY <2>1, KeyStill DEF Open
<1> QED
  BY <1>1, <1>2, <1>3, <1>4, <1>5, <1>6 DEF Next

\* For any loops, crashes and failed store calls: as long as no two enqueues with one key
\* overlap and no two loops have a row of one task still to write, no two unfinished tasks
\* have one key. KeysAreUnique fails for no other reason; the second is one because a row
\* that is written late brings its task back after a crash.
THEOREM KeysAreUniqueApart == Spec /\ []WritesApart /\ []EnqueuesApart => []KeysAreUnique
<1>1. Init => KeyInv
  BY DEF Init, KeyInv, Open, Pending
<1>2. KeyInv => KeysAreUnique
  BY DEF KeyInv, KeysAreUnique, Alike, Open
<1> QED
  BY <1>1, <1>2, Safe, EndsComeFirst, ApartInit, ApartStep, KeyStep, PTL DEF Spec

-----------------------------------------------------------------------------
(* What ends the task of a turn that goes on.                              *)

\* What the watchdog has listed is in the map, and what it has struck once is over.
StrikeInv ==
  /\ \A t \in stale : mem[t] # "absent"
  /\ \A t \in strikes : mem[t] \in Terminal

\* The task in the worker's hands has no end, or the watchdog's.
Spared ==
  mem[job.task] \in Terminal => mem[job.task] = "cancelled" /\ "watchdog" \in Threads

\* Wherever the worker is in a turn, or on the way to one without another look.
TurnInv ==
  /\ WorkerAt({"execute", "turn"}) => Spared
  /\ WorkerAt({"breaker"}) /\ Label(job.seen) = "running" => Spared
  /\ WorkerAt({"calling"}) /\ {call["worker"].onOk, call["worker"].onErr} \cap {"execute", "turn"} # {}
       => Spared

\* Loops leave in the map what is there, and what is over.
LEMMA StrikeStill ==
  ASSUME TypeOK, StrikeInv, stale' \subseteq stale, strikes' \subseteq strikes,
         \A t \in Tasks : /\ mem[t] # "absent" => mem'[t] # "absent"
                          /\ mem[t] \in Terminal => mem'[t] \in Terminal
  PROVE  StrikeInv'
<1>1. stale \subseteq Tasks /\ strikes \subseteq Tasks
  BY DEF TypeOK, ThreadType
<1> QED
  BY <1>1 DEF StrikeInv

\* The map keeps its tasks, and their ends, in every step but a crash.
LEMMA MapKeeps ==
  ASSUME TypeOK, IInv, Next, ~Crash, NEW t \in Tasks
  PROVE  /\ mem[t] # "absent" => mem'[t] # "absent"
         /\ mem[t] \in Terminal => mem'[t] \in Terminal
<1>0. mem \in [Tasks -> States] /\ "absent" \notin Terminal
  BY DEF TypeOK, MemType, Terminal
<1>1. CASE \E u \in Tasks : EnqueueNext(u)
  <2>1. PICK u \in Tasks : EnqueueNext(u)
    BY <1>1
  <2>2. mem[u] = "absent" /\ \A v \in Tasks \ {u} : mem'[v] = mem[v]
    BY <1>0, <2>1 DEF EnqueueNext, EnqueueCheck, EnqueueLookup, EnqueuePersist, EnqueueStoreError,
              EnqueueInsert, EnqueueStep, IInv, EnqueueInv, memVars
  <2> QED
    BY <1>0, <2>2
<1>2. CASE WorkerNext \/ WatchdogNext \/ ShutdownNext \/ \E u \in Tasks : MarkHeartbeat(u)
  <2>1. LoopStep
    BY <1>2, WorkerSteps, WatchdogSteps, ShutdownSteps DEF IInv
  <2> QED
    BY <1>0, <2>1 DEF LoopStep, Quiet, Moves
<1>3. CASE \E u \in Tasks : Recover(u)
  BY <1>0, <1>3 DEF Recover, Unrecovered
<1>4. CASE InCall \/ Recovered \/ \E a \in Awaiters : AwaitNext(a)
  BY <1>4 DEF InCall, WriteRow, WriteLog, TransitionStoreError, Settle, AwaitNext, Await,
              AwaitResolves, AwaitReceives, AwaitTimesOut, Recovered, memVars
<1> QED
  BY <1>1, <1>2, <1>3, <1>4 DEF Next

\* Every step keeps the invariant of the watchdog's lists.
LEMMA StrikeStep == TypeOK /\ IInv /\ StrikeInv /\ [Next]_vars => StrikeInv'
<1> SUFFICES ASSUME TypeOK, IInv, StrikeInv, [Next]_vars PROVE StrikeInv'
  OBVIOUS
<1>0. mem \in [Tasks -> States] /\ stale \subseteq Tasks /\ strikes \subseteq Tasks
  BY DEF TypeOK, MemType, ThreadType
<1>1. CASE Crash
  BY <1>1 DEF Crash, StrikeInv
<1>2. CASE WatchdogScans
  <2>1. /\ mem' = mem /\ strikes' \subseteq strikes
        /\ \A t \in stale' : t \in Tasks /\ Label(mem[t]) = "running"
    <3>1. beat \subseteq Tasks
      BY DEF TypeOK, MemType
    <3> QED
      BY <1>2, <3>1 DEF WatchdogScans, memVars
  <2> QED
    BY <2>1 DEF StrikeInv, Label
<1>3. CASE WatchdogHandles
  <2>1. PICK t \in stale :
          /\ stale' = stale \ {t}
          /\ IF t \notin strikes
             THEN /\ strikes' = strikes \cup {t}
                  /\ Transition("watchdog", t, AnyLabel, "cancelled", FALSE, "handle", "handle")
             ELSE strikes' \subseteq strikes
    BY <1>3 DEF WatchdogHandles
  <2>2. \A u \in Tasks : /\ mem[u] # "absent" => mem'[u] # "absent"
                         /\ mem[u] \in Terminal => mem'[u] \in Terminal
    <3>1. Next /\ ~Crash
      BY <1>3 DEF Next, WatchdogNext, WatchdogHandles, Watchdog, Crash, TransitionOnly
    <3> QED
      BY <3>1, MapKeeps
  <2>3. CASE t \in strikes
    BY <2>1, <2>2, <2>3, StrikeStill
  <2>4. CASE t \notin strikes
    <3>1. mem[t] # "absent" /\ mem[t] \in States /\ t \in Tasks
      BY <1>0 DEF StrikeInv
    <3>2. Label(mem[t]) \in AnyLabel
      BY <3>1 DEF Label, AnyLabel, States, Pending, Terminal
    <3>3. mem' = [mem EXCEPT ![t] = "cancelled"]
      BY <2>1, <2>4, <3>1, <3>2 DEF Transition
    <3>4. mem'[t] \in Terminal
      BY <1>0, <3>1, <3>3 DEF Terminal
    <3> QED
      BY <1>0, <2>1, <2>2, <2>4, <3>4 DEF StrikeInv
  <2> QED
    BY <2>3, <2>4
<1>4. CASE Next /\ ~Crash /\ UNCHANGED <<stale, strikes>>
  BY <1>4, MapKeeps, StrikeStill
<1>5. CASE UNCHANGED vars
  BY <1>5 DEF StrikeInv, vars, memVars, loopVars
<1>6. CASE Next /\ ~Crash /\ ~WatchdogScans /\ ~WatchdogHandles
  <2>1. UNCHANGED <<stale, strikes>>
    BY <1>6
       DEF Next, EnqueueNext, EnqueueCheck, EnqueueLookup, EnqueuePersist, EnqueueStoreError,
           EnqueueInsert, MarkHeartbeat, Recover, InCall, WriteRow, WriteLog,
           TransitionStoreError, Settle, WorkerNext, WorkerPop, WorkerStops,
           WorkerChecksBreaker, WorkerDispatches, WorkerStarts, WorkerExecutes,
           WorkerHasNoRuntime, WorkerEndsTurn, WatchdogNext, WatchdogRests, ShutdownNext,
           StopAccepting, Drained, GraceEnds, Suspend, SuspendEnds, AwaitNext, Await,
           AwaitResolves, AwaitReceives, AwaitTimesOut, Recovered, loopVars
  <2> QED
    BY <1>4, <1>6, <2>1
<1> QED
  BY <1>1, <1>2, <1>3, <1>5, <1>6

\* Whoever leaves the worker where it is and gives its task no end but the watchdog's.
LEMMA TurnStill ==
  ASSUME TurnInv, job' = job, pc'["worker"] = pc["worker"],
         WorkerAt({"calling"}) => /\ call'["worker"].onOk = call["worker"].onOk
                                  /\ call'["worker"].onErr = call["worker"].onErr,
         ~WorkerAt(Between) => \/ mem'[job.task] = mem[job.task]
                               \/ mem'[job.task] \notin Terminal
                               \/ mem'[job.task] = "cancelled" /\ "watchdog" \in Threads
  PROVE  TurnInv'
<1>1. \A p : WorkerAt(p)' <=> WorkerAt(p)
  BY DEF WorkerAt
<1>2. ~WorkerAt(Between) /\ Spared => Spared'
  BY DEF Spared
<1>3. (WorkerAt({"execute", "turn"}) \/ WorkerAt({"breaker"}) \/ WorkerAt({"calling"})) =>
        ~WorkerAt(Between)
  BY DEF WorkerAt, Between
<1> QED
  BY <1>1, <1>2, <1>3 DEF TurnInv

\* The other loops: the watchdog's later strike finds the task ended.
LEMMA TurnAside ==
  ASSUME TypeOK, HandInv, StrikeInv, TurnInv,
         WatchdogNext \/ ShutdownNext \/ \E t \in Tasks : MarkHeartbeat(t)
  PROVE  TurnInv'
<1>0. /\ pc \in [AllThreads -> Places] /\ call \in [AllThreads -> Calls]
      /\ mem \in [Tasks -> States]
      /\ "worker" \in AllThreads /\ "watchdog" # "worker" /\ "shutdown" # "worker"
      /\ ~WorkerAt(Between) => job.task \in Tasks
  BY DEF TypeOK, ThreadType, MemType, AllThreads, WorkerAt, Between
<1>1. CASE WatchdogScans \/ WatchdogRests \/ \E t \in Tasks : MarkHeartbeat(t)
  <2>1. /\ mem' = mem /\ job' = job /\ pc'["worker"] = pc["worker"] /\ call' = call
    BY <1>0, <1>1 DEF WatchdogScans, WatchdogRests, MarkHeartbeat, memVars, loopVars
  <2> QED
    BY <2>1, TurnStill
<1>2. CASE WatchdogHandles
  <2>1. PICK t \in stale :
          IF t \notin strikes
          THEN Transition("watchdog", t, AnyLabel, "cancelled", FALSE, "handle", "handle")
          ELSE \/ Transition("watchdog", t, {"running"}, "failed", FALSE, "handle", "handle")
               \/ UNCHANGED <<strikes, mem, beat, waiters, pc, call>>
    BY <1>2 DEF WatchdogHandles
  <2>2. "watchdog" \in Threads /\ t \in Tasks /\ job' = job
    BY <1>2 DEF WatchdogHandles, Watchdog, TypeOK, ThreadType
  <2>3. pc'["worker"] = pc["worker"] /\ call'["worker"] = call["worker"]
    BY <1>0, <2>1 DEF Transition
  <2>4. t \in strikes => Label(mem[t]) # "running"
    BY DEF StrikeInv, Label, Terminal
  <2>5. mem' = mem \/ mem' = [mem EXCEPT ![t] = "cancelled"]
    BY <2>1, <2>4 DEF Transition
  <2> QED
    BY <1>0, <2>2, <2>3, <2>5, TurnStill
<1>3. CASE ShutdownNext
  <2>1. /\ job' = job /\ pc'["worker"] = pc["worker"] /\ call'["worker"] = call["worker"]
        /\ \A t \in Tasks : mem'[t] = mem[t] \/ mem'[t] = "suspended"
    BY <1>0, <1>3 DEF ShutdownNext, StopAccepting, Drained, GraceEnds, Suspend, SuspendEnds,
                      Transition, memVars, loopVars
  <2> QED
    BY <1>0, <2>1, TurnStill DEF Terminal
<1> QED
  BY <1>1, <1>2, <1>3 DEF WatchdogNext

\* The steps inside transition().
LEMMA TurnInCall ==
  ASSUME TypeOK, HandInv, TurnInv, NEW th \in AllThreads,
         WriteRow(th) \/ WriteLog(th) \/ TransitionStoreError(th) \/ Settle(th)
  PROVE  TurnInv'
<1>0. /\ pc \in [AllThreads -> Places] /\ call \in [AllThreads -> Calls]
      /\ "worker" \in AllThreads
  BY DEF TypeOK, ThreadType, AllThreads
<1>1. mem' = mem /\ job' = job
  BY DEF WriteRow, WriteLog, TransitionStoreError, Settle, memVars, loopVars
<1>2. CASE th # "worker" \/ WriteRow(th) \/ WriteLog(th)
  <2>1. /\ pc'["worker"] = pc["worker"]
        /\ call'["worker"].onOk = call["worker"].onOk /\ call'["worker"].onErr = call["worker"].onErr
    BY <1>0, <1>2 DEF WriteRow, WriteLog, TransitionStoreError, Settle, Calls
  <2> QED
    BY <1>1, <2>1, TurnStill
<1>3. CASE th = "worker" /\ (TransitionStoreError(th) \/ Settle(th))
  <2>1. pc["worker"] = "calling"
    BY <1>0, <1>3 DEF TransitionStoreError, Settle, TypeOK
  <2>2. pc'["worker"] \in {call["worker"].onOk, call["worker"].onErr}
    BY <1>0, <1>3 DEF TransitionStoreError, Settle
  <2>3. pc'["worker"] \notin {"calling", "breaker"}
    BY <2>1, <2>2 DEF HandInv, WorkerInv, WorkerAt
  <2>4. WorkerAt({"execute", "turn"})' => Spared
    BY <2>1, <2>2 DEF TurnInv, WorkerAt
  <2>5. Spared' <=> Spared
    BY <1>1 DEF Spared
  <2> QED
    BY <2>3, <2>4, <2>5 DEF TurnInv, WorkerAt
<1> QED
  BY <1>2, <1>3

\* A call of transition() by the worker that leads into a turn moves the task to running,
\* or has one behind it.
LEMMA TurnCall ==
  ASSUME TypeOK, TurnInv, NEW expected, NEW to \in AnyLabel, NEW onOk \in Places,
         NEW onErr \in Places,
         pc["worker"] \notin {"calling", "idle", "stopped"},
         Transition("worker", job.task, expected, to, FALSE, onOk, onErr), job' = job,
         {onOk, onErr} \cap {"execute", "turn"} # {} => to = "running",
         onErr \in {"execute", "turn"} => Spared, onErr \notin {"breaker", "calling"}
  PROVE  TurnInv'
<1>0. mem \in [Tasks -> States] /\ job.task \in Tasks /\ "running" \notin Terminal
  BY DEF TypeOK, MemType, Terminal
<1>1. CASE /\ mem' = [mem EXCEPT ![job.task] = to]
           /\ pc'["worker"] = "calling"
           /\ call'["worker"].onOk = onOk /\ call'["worker"].onErr = onErr
  <2>1. {onOk, onErr} \cap {"execute", "turn"} # {} => mem'[job.task] = "running"
    BY <1>0, <1>1
  <2>2. {onOk, onErr} \cap {"execute", "turn"} # {} => Spared'
    BY <1>0, <2>1 DEF Spared
  <2> QED
    BY <1>1, <2>2 DEF TurnInv, WorkerAt
<1>2. CASE mem' = mem /\ pc'["worker"] = onErr
  <2>1. Spared' <=> Spared
    BY <1>2 DEF Spared
  <2> QED
    BY <1>2, <2>1 DEF TurnInv, WorkerAt
<1> QED
  BY <1>1, <1>2, WorkerCalls

\* The worker.
LEMMA TurnWorker == ASSUME TypeOK, TurnInv, WorkerNext PROVE TurnInv'
<1>0. /\ pc \in [AllThreads -> Places] /\ "worker" \in AllThreads
      /\ {"idle", "start", "execute", "turn"} \subseteq Places
      /\ {"failed", "completed", "running", "dispatched"} \subseteq AnyLabel
  BY DEF TypeOK, ThreadType, AllThreads, AnyLabel, Pending, Terminal, Places
<1>1. CASE WorkerPop
  <2>1. /\ pc'["worker"] = "breaker" /\ mem' = mem /\ job'.seen = mem[job'.task]
    BY <1>0, <1>1 DEF WorkerPop
  <2>2. Label(job'.seen) = "running" => mem'[job'.task] \notin Terminal
    BY <2>1 DEF Label, Terminal
  <2> QED
    BY <2>1, <2>2 DEF TurnInv, WorkerAt, Spared
<1>2. CASE WorkerStops
  <2>1. pc'["worker"] = "stopped"
    BY <1>0, <1>2 DEF WorkerStops
  <2> QED
    BY <2>1 DEF TurnInv, WorkerAt
<1>3. CASE WorkerChecksBreaker
  <2>1. pc["worker"] = "breaker" /\ job' = job
    BY <1>3 DEF WorkerChecksBreaker, Worker, loopVars
  <2>2. CASE Transition("worker", job.task, {Label(job.seen)}, "failed", FALSE, "idle", "idle")
    BY <1>0, <2>1, <2>2, TurnCall
  <2>3. CASE mem' = mem /\ pc' = [pc EXCEPT !["worker"] = NextAfter(job.seen)]
    <3>1. /\ pc'["worker"] \in {"dispatch", "start", "execute", "idle"}
          /\ pc'["worker"] = "execute" => Label(job.seen) = "running"
      BY <1>0, <2>3 DEF NextAfter
    <3>2. Spared' <=> Spared
      BY <2>1, <2>3 DEF Spared
    <3> QED
      BY <2>1, <3>1, <3>2 DEF TurnInv, WorkerAt
  <2> QED
    BY <1>3, <2>2, <2>3 DEF WorkerChecksBreaker
<1>4. CASE WorkerDispatches
  <2>1. pc["worker"] = "dispatch" /\ job' = job
    BY <1>4 DEF WorkerDispatches, Worker, loopVars
  <2> QED
    BY <1>0, <1>4, <2>1, TurnCall DEF WorkerDispatches
<1>5. CASE WorkerStarts
  <2>1. pc["worker"] = "start" /\ job' = job
    BY <1>5 DEF WorkerStarts, Worker, loopVars
  <2> QED
    BY <1>0, <1>5, <2>1, TurnCall DEF WorkerStarts
<1>6. CASE WorkerExecutes
  <2>1. pc["worker"] = "execute" /\ job' = job /\ Spared
    BY <1>6 DEF WorkerExecutes, Worker, loopVars, TurnInv, WorkerAt
  <2> QED
    BY <1>0, <1>6, <2>1, TurnCall DEF WorkerExecutes
<1>7. CASE WorkerHasNoRuntime
  <2>1. pc["worker"] = "execute" /\ job' = job
    BY <1>7 DEF WorkerHasNoRuntime, Worker, loopVars
  <2> QED
    BY <1>0, <1>7, <2>1, TurnCall DEF WorkerHasNoRuntime
<1>8. CASE WorkerEndsTurn
  <2>1. pc["worker"] = "turn" /\ job' = job
    BY <1>8 DEF WorkerEndsTurn, Worker, loopVars
  <2>2. PICK outcome \in {"completed", "failed"} :
          Transition("worker", job.task, {"running"}, outcome, FALSE, "idle", "idle")
    BY <1>8 DEF WorkerEndsTurn
  <2>3. outcome \in AnyLabel
    BY <1>0
  <2> QED
    BY <1>0, <2>1, <2>2, <2>3, TurnCall
<1> QED
  BY <1>1, <1>2, <1>3, <1>4, <1>5, <1>6, <1>7, <1>8 DEF WorkerNext

\* Every step keeps the invariant of turns.
LEMMA TurnStep ==
  TypeOK /\ IInv /\ HandInv /\ StrikeInv /\ TurnInv /\ [Next]_vars => TurnInv'
<1> SUFFICES ASSUME TypeOK, IInv, HandInv, StrikeInv, TurnInv, [Next]_vars PROVE TurnInv'
  OBVIOUS
<1>0. /\ mem \in [Tasks -> States]
      /\ ~WorkerAt(Between) => job.task \in Tasks /\ mem[job.task] # "absent"
  BY DEF TypeOK, MemType, HandInv, WorkerInv, WorkerAt, Between
<1>1. CASE WorkerNext
  BY <1>1, TurnWorker
<1>2. CASE WatchdogNext \/ ShutdownNext \/ \E t \in Tasks : MarkHeartbeat(t)
  BY <1>2, TurnAside
<1>3. CASE InCall
  BY <1>3, TurnInCall, ConstantsAssumption DEF InCall, ConstantsAssumption
<1>4. CASE Crash
  <2>1. pc'["worker"] = "idle"
    BY <1>4 DEF Crash, AllThreads
  <2> QED
    BY <2>1 DEF TurnInv, WorkerAt
<1>5. CASE \E t \in Tasks : EnqueueNext(t) \/ Recover(t)
  <2>1. PICK t \in Tasks : EnqueueNext(t) \/ Recover(t)
    BY <1>5
  <2>2. /\ mem[t] = "absent" /\ \A u \in Tasks \ {t} : mem'[u] = mem[u]
        /\ job' = job /\ pc' = pc /\ call' = call
    BY <1>0, <2>1
       DEF EnqueueNext, EnqueueCheck, EnqueueLookup, EnqueuePersist, EnqueueStoreError,
           EnqueueInsert, EnqueueStep, Recover, Unrecovered, IInv, EnqueueInv, memVars, loopVars
  <2> QED
    BY <1>0, <2>2, TurnStill
<1>6. CASE Recovered \/ UNCHANGED vars \/ \E a \in Awaiters : AwaitNext(a)
  <2>1. UNCHANGED <<mem, job, pc, call>>
    BY <1>6 DEF AwaitNext, Await, AwaitResolves, AwaitReceives, AwaitTimesOut, Recovered, vars,
                memVars, loopVars
  <2> QED
    BY <2>1, TurnStill
<1> QED
  BY <1>1, <1>2, <1>3, <1>4, <1>5, <1>6 DEF Next

\* The watchdog strikes a task once: whatever it has struck has ended, so that the
\* forced failure that a second strike would be finds nothing running.
THEOREM StrikesAreEnds == Spec => [](\A t \in strikes : mem[t] \in Terminal)
<1>1. Init => StrikeInv
  BY DEF Init, StrikeInv
<1>2. StrikeInv => \A t \in strikes : mem[t] \in Terminal
  BY DEF StrikeInv
<1> QED
  BY <1>1, <1>2, Safe, StrikeStep, PTL DEF Spec

\* While the agent's turn runs, whatever store calls fail and whichever loops run, its
\* task was given no end but the watchdog's cancellation.
THEOREM TurnsAreOnlyCancelled == Spec => [](pc["worker"] = "turn" => Spared)
<1>1. Init => HandInv /\ StrikeInv /\ TurnInv
  BY HandInit DEF Init, StrikeInv, TurnInv, WorkerAt, AllThreads
<1>2. TurnInv => (pc["worker"] = "turn" => Spared)
  BY DEF TurnInv, WorkerAt
<1> QED
  BY <1>1, <1>2, Safe, HandStep, StrikeStep, TurnStep, PTL DEF Spec

\* Without the watchdog no turn outlives its task: NoTurnOfAnEndedTask fails for no
\* other reason.
THEOREM TurnsEndFirstUnwatched ==
  ASSUME "watchdog" \notin Threads PROVE Spec => []NoTurnOfAnEndedTask
<1>1. (pc["worker"] = "turn" => Spared) => NoTurnOfAnEndedTask
  BY DEF Spared, NoTurnOfAnEndedTask
<1> QED
  BY <1>1, TurnsAreOnlyCancelled, PTL
=============================================================================

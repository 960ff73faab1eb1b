------------------------------ MODULE ServicesProofs ------------------------------
(***************************************************************************)
(* Proofs about the services an agent's turn waits for: Assistance, for any *)
(* tasks, admin turns, requests and bounds; Mcp, for any clients and        *)
(* numbers of operations; Scripts, for any skills, names, inputs and pipes; *)
(* and the three side by side.                                              *)
(***************************************************************************)
EXTENDS Waits, FiniteSetTheorems, TLAPS

-----------------------------------------------------------------------------
(* Assistance.                                                              *)

\* A request is made from a caller, and what it asks for is a task.
AssistTypes ==
  /\ AssistTypeOK
  /\ taskQueue \in Seq(AllTasks)

AssistIInv == AssistTypes /\ WaitingIsAsking

\* Who asks for assistance, and the task that is asked, are callers.
LEMMA Roles ==
  /\ Askers \subseteq Callers /\ AllTasks \subseteq Callers
  /\ \A c \in Askers : ChildOf[c] \in AllTasks
  BY AssistanceAssumption DEF Callers, AllTasks, Children, Askers

\* The invariant holds at the start.
LEMMA AssistInitOK == AssistInit => AssistIInv
  BY AssistanceAssumption DEF AssistInit, AssistIInv, AssistTypes, AssistTypeOK, WaitingIsAsking

\* The states transition() leaves are states.
LEMMA MovesType ==
  ASSUME AssistTypeOK, NEW c, NEW s \in {"running", "waiting"} \cup Ended, Moves(c, s)
  PROVE  /\ tState' \in [AllTasks -> {"absent", "queued", "running", "waiting"} \cup Ended]
         /\ \A t \in AllTasks : t # c => tState'[t] = tState[t]
         /\ c \in AllTasks => \/ tState'[c] = s
                              \/ tState'[c] = tState[c] /\ tState[c] # "waiting"
<1>1. CASE IsRunning(c)
  BY <1>1 DEF AssistTypeOK, Moves, IsRunning
<1>2. CASE ~IsRunning(c)
  BY <1>2 DEF AssistTypeOK, Moves, IsRunning
<1> QED BY <1>1, <1>2

\* Every step of a caller, the worker or the watchdog keeps the invariant.
LEMMA AssistStepOK ==
  ASSUME AssistIInv, [AssistNext]_assistVars
  PROVE  AssistIInv'
<1> USE Roles DEF AssistIInv, AssistTypes
<1>1. CASE UNCHANGED assistVars
  BY <1>1 DEF assistVars, AssistTypeOK, WaitingIsAsking
<1>2. ASSUME NEW r \in Roots, SubmitRoot(r) PROVE AssistIInv'
  BY <1>2 DEF SubmitRoot, AssistTypeOK, WaitingIsAsking, AllTasks
<1>3. ASSUME NEW u \in AdminTurns, AdminTurnBegins(u) PROVE AssistIInv'
  BY <1>3 DEF AdminTurnBegins, Goes, AssistTypeOK, WaitingIsAsking, Callers
<1>4. CASE WorkerTakes
  <2> DEFINE t == Head(taskQueue)
  <2>1. t \in AllTasks /\ Tail(taskQueue) \in Seq(AllTasks)
    BY <1>4 DEF WorkerTakes
  <2> QED BY <1>4, <2>1 DEF WorkerTakes, Goes, AssistTypeOK, WaitingIsAsking
<1>5. ASSUME NEW c \in Askers, AskDenied(c) PROVE AssistIInv'
  BY <1>5 DEF AskDenied, AssistTypeOK, WaitingIsAsking
<1>6. ASSUME NEW c \in Askers, Ask(c) PROVE AssistIInv'
  <2> USE <1>6 DEF Ask
  <2>1. AssistTypeOK'
    BY MovesType DEF AssistTypeOK, Goes
  <2> QED BY <2>1, MovesType DEF AssistTypeOK, Goes, WaitingIsAsking
<1>7. ASSUME NEW c \in Askers, EnqueueChild(c) PROVE AssistIInv'
  BY <1>7 DEF EnqueueChild, Goes, AssistTypeOK, WaitingIsAsking
<1>8. ASSUME NEW c \in Askers, ChildRefused(c) PROVE AssistIInv'
  BY <1>8, AssistanceAssumption DEF ChildRefused, Goes, AssistTypeOK, WaitingIsAsking
<1>9. ASSUME NEW c \in Askers, Answering(c) PROVE AssistIInv'
  BY <1>9 DEF Answering, ChildAnswers, WaitElapses, Goes, AssistTypeOK, WaitingIsAsking
<1>10. ASSUME NEW c \in Askers, Resumes(c) PROVE AssistIInv'
  <2> USE <1>10 DEF Resumes
  <2>1. AssistTypeOK'
    BY MovesType DEF AssistTypeOK, Goes
  <2> QED BY <2>1, MovesType DEF AssistTypeOK, Goes, WaitingIsAsking
<1>11. ASSUME NEW t \in AllTasks, WatchdogCancels(t) PROVE AssistIInv'
  BY <1>11, AssistanceAssumption DEF WatchdogCancels, AssistTypeOK, WaitingIsAsking, Ended
<1>12. ASSUME NEW c \in Callers, Ending(c) PROVE AssistIInv'
  <2>1. PICK how \in {"completed", "failed"} : TurnEnds(c, how)
    BY <1>12 DEF Ending
  <2>2. how \in Ended
    BY DEF Ended
  <2>3. AssistTypeOK'
    BY <2>1, <2>2, MovesType DEF TurnEnds, AssistTypeOK, Goes
  <2> QED BY <2>1, <2>2, <2>3, MovesType DEF TurnEnds, AssistTypeOK, Goes, WaitingIsAsking, Ended
<1> QED
  BY <1>1, <1>2, <1>3, <1>4, <1>5, <1>6, <1>7, <1>8, <1>9, <1>10, <1>11, <1>12 DEF AssistNext

\* The invariant holds in every execution.
LEMMA AssistInvariance == AssistSpec => []AssistIInv
<1>1. AssistIInv /\ [AssistNext]_assistVars => AssistIInv'
  BY AssistStepOK
<1> QED BY <1>1, AssistInitOK, PTL DEF AssistSpec

\* A task shows WaitingForInput only while its request is under way, or after a refusal:
\* for any tasks and requests, nested to any depth, and any refusals and cancellations.
THEOREM WaitingTasksAsk == AssistSpec => []WaitingIsAsking
  BY AssistInvariance, PTL DEF AssistIInv

\* The variables of the assistance model hold values of their types.
THEOREM AssistTypeCorrect == AssistSpec => []AssistTypeOK
<1>1. AssistIInv => AssistTypeOK
  BY DEF AssistIInv, AssistTypes
<1> QED BY <1>1, AssistInvariance, PTL

-----------------------------------------------------------------------------
(* The MCP client pool.                                                     *)

Lines == Nat \X {"answer", "ask"}
Steps == {"initialize", "notify", "list", "call"}
Gots == Nat \X {"none", "answer", "ask", "error", "sent"}
Inside == {"ready", "sending", "writing", "waiting", "reading", "answered", "returning"}

McpTypes ==
  /\ McpTypeOK
  /\ nextId \in Nat /\ asked \subseteq Nat /\ stdout \in Seq(Lines)
  /\ steps \in [Clients -> Seq(Steps)]
  /\ reqId \in [Clients -> Nat] /\ got \in [Clients -> Gots]
  /\ \A c \in Clients : mpc[c] # "idle" => op[c] \in Operations

\* An answer is there between the end of a request and the next step, and is its own.
GotInv ==
  \A c \in Clients :
    /\ mpc[c] # "answered" => got[c] = NoAnswer
    /\ got[c][2] \in {"answer", "ask"} => got[c][1] = reqId[c]

\* The lock: who is inside holds it, and a writer holds it alone.
LockInv ==
  /\ \A c \in Clients : c \in holders <=> mpc[c] \in Inside
  /\ \A c, d \in holders : c # d => ~Writes(op[c])

\* Who has requests to make works on a server that runs, or is starting it.
WorkInv ==
  \A c \in holders :
    /\ InRequest(c) => steps[c] # <<>>
    /\ op[c] # "start" /\ steps[c] # <<>> => handle
    /\ op[c] = "stop" => steps[c] = <<>>

McpIInv == McpTypes /\ GotInv /\ LockInv /\ WorkInv

\* What a client may have been given.
LEMMA GotTypes == NoAnswer \in Gots /\ <<0, "error">> \in Gots /\ <<0, "sent">> \in Gots /\ Lines \subseteq Gots
  BY DEF NoAnswer, Gots, Lines

\* The invariant holds at the start.
LEMMA McpInitOK == McpInit => McpIInv
<1> SUFFICES ASSUME McpInit PROVE McpIInv
  OBVIOUS
<1> USE DEF McpInit
<1>1. McpTypeOK
  BY DEF McpTypeOK
<1>2. McpTypes
  BY <1>1, GotTypes DEF McpTypes
<1>3. GotInv /\ LockInv /\ WorkInv
  BY DEF GotInv, LockInv, WorkInv, Inside, NoAnswer
<1> QED BY <1>2, <1>3 DEF McpIInv

\* What an operation finds to do.
LEMMA TodoFacts ==
  ASSUME NEW o \in Operations
  PROVE  /\ Todo(o) \in Seq(Steps)
         /\ o # "start" /\ Todo(o) # <<>> => handle
         /\ o = "stop" => Todo(o) = <<>>
<1>1. /\ <<>> \in Seq(Steps) /\ <<"initialize", "notify", "list">> \in Seq(Steps)
      /\ <<"list">> \in Seq(Steps) /\ <<"call">> \in Seq(Steps)
  BY DEF Steps
<1>2. CASE o = "start"
  BY <1>1, <1>2 DEF Todo, RequestsOf
<1>3. CASE o = "refresh"
  BY <1>1, <1>3 DEF Todo, RequestsOf
<1>4. CASE o = "call"
  BY <1>1, <1>4 DEF Todo, RequestsOf
<1>5. CASE o = "stop"
  BY <1>5 DEF Todo, RequestsOf
<1> QED BY <1>2, <1>3, <1>4, <1>5 DEF Operations

\* A client inside stays inside, and all else of the lock and the pool stays as it was.
LEMMA InsideOK ==
  ASSUME McpIInv, NEW c \in Clients, mpc[c] \in Inside,
         NEW to \in Inside, mpc' = [mpc EXCEPT ![c] = to],
         UNCHANGED <<holders, op>>
  PROVE  LockInv'
  BY DEF McpIInv, McpTypes, McpTypeOK, LockInv

\* A request that fails.
LEMMA FailsOK ==
  ASSUME McpIInv, NEW c \in Clients, mpc[c] \in {"writing", "waiting", "reading"}, Fails(c)
  PROVE  McpIInv'
<1> USE DEF Fails
<1>1. LockInv'
  BY InsideOK DEF Inside
<1>2. McpTypes'
  BY GotTypes DEF McpIInv, McpTypes, McpTypeOK
<1>3. GotInv'
  BY DEF McpIInv, McpTypes, McpTypeOK, GotInv
<1>4. WorkInv'
  BY DEF McpIInv, McpTypes, McpTypeOK, WorkInv, InRequest
<1> QED BY <1>1, <1>2, <1>3, <1>4 DEF McpIInv

\* Every step of a client, the server or the pipe keeps the invariant.
LEMMA McpStepOK ==
  ASSUME McpIInv, [McpNext]_mcpVars
  PROVE  McpIInv'
<1> USE DEF McpIInv
<1>1. CASE UNCHANGED mcpVars
  BY <1>1 DEF mcpVars, pipeVars, McpTypes, McpTypeOK, GotInv, LockInv, WorkInv, InRequest
<1>2. ASSUME NEW c \in Clients, NEW o \in Operations, Calls(c, o) PROVE McpIInv'
  <2> USE <1>2 DEF Calls, At, pipeVars
  <2>1. McpTypes'
    BY DEF McpTypes, McpTypeOK
  <2>2. LockInv' /\ GotInv'
    BY DEF LockInv, GotInv, McpTypes, McpTypeOK, Inside
  <2>3. WorkInv'
    BY DEF WorkInv, LockInv, McpTypes, McpTypeOK, InRequest, Inside
  <2> QED BY <2>1, <2>2, <2>3
<1>3. ASSUME NEW c \in Clients, Enters(c) PROVE McpIInv'
  <2> USE <1>3 DEF Enters
  <2>1. mpc[c] = "locking" /\ c \notin holders
    BY DEF LockInv, Inside
  <2>2. op[c] \in Operations
    BY <2>1 DEF McpTypes
  <2>3. McpTypes'
    <3>1. steps' \in [Clients -> Seq(Steps)]
      BY <2>2, TodoFacts DEF McpTypes
    <3>2. /\ nextId' \in Nat /\ asked' \subseteq Nat /\ stdout' \in Seq(Lines)
          /\ child' \in {"none", "up", "dead"}
          /\ reader' \in {d \in Clients : mpc[d] = "reading"} \cup {Nobody}
          /\ writer' \in {d \in Clients : mpc[d] = "writing"} \cup {Nobody} /\ stalled' \in BOOLEAN
      <4>1. CASE op[c] = "start" /\ ~handle
        <5>1. /\ child' = "up" /\ nextId' = 1 /\ asked' = {} /\ stdout' = <<>>
              /\ writer' = Nobody /\ reader' = Nobody /\ stalled' = FALSE
          BY <4>1
        <5>2. <<>> \in Seq(Lines) /\ 1 \in Nat
          OBVIOUS
        <5> HIDE <1>3
        <5> QED BY <5>1, <5>2
      <4>2. CASE ~(op[c] = "start" /\ ~handle)
        BY <4>2 DEF McpTypes, McpTypeOK, pipeVars
      <4> QED BY <4>1, <4>2
    <3> QED BY <2>1, <3>1, <3>2 DEF McpTypes, McpTypeOK
  <2>4. LockInv'
    BY <2>1 DEF LockInv, McpTypes, McpTypeOK, Inside
  <2>5. GotInv'
    BY <2>1 DEF GotInv, McpTypes, McpTypeOK
  <2>6. WorkInv'
    BY <2>1, <2>2, TodoFacts DEF WorkInv, LockInv, McpTypes, McpTypeOK, InRequest
  <2> QED BY <2>3, <2>4, <2>5, <2>6
<1>4. ASSUME NEW c \in Clients, Stops(c) PROVE McpIInv'
  <2> USE <1>4 DEF Stops, At
  <2>1. c \in holders /\ \A d \in holders : d = c
    BY DEF LockInv, Inside, Writes
  <2>2. McpTypes'
    BY DEF McpTypes, McpTypeOK
  <2>3. LockInv'
    BY InsideOK DEF Inside
  <2>4. GotInv'
    BY DEF GotInv, McpTypes, McpTypeOK
  <2>5. WorkInv'
    BY <2>1 DEF WorkInv, McpTypes, McpTypeOK, InRequest
  <2> QED BY <2>2, <2>3, <2>4, <2>5
<1>5. ASSUME NEW c \in Clients, Requests(c) PROVE McpIInv'
  <2> USE <1>5 DEF Requests, At
  <2>1. McpTypes'
    <3>1. mpc' = [mpc EXCEPT ![c] = "sending"] /\ mpc[c] = "ready"
      OBVIOUS
    <3>2. McpTypeOK'
      BY <3>1 DEF McpTypes, McpTypeOK
    <3>3. nextId' \in Nat /\ reqId' \in [Clients -> Nat]
      <4>1. nextId \in Nat /\ reqId \in [Clients -> Nat]
        BY DEF McpTypes
      <4>2. \/ UNCHANGED <<nextId, reqId>>
            \/ nextId' = nextId + 1 /\ reqId' = [reqId EXCEPT ![c] = nextId]
        OBVIOUS
      <4> HIDE <1>5
      <4> QED BY <4>1, <4>2
    <3>4. \A d \in Clients : mpc'[d] # "idle" => op'[d] \in Operations
      BY <3>1 DEF McpTypes, McpTypeOK
    <3> QED BY <3>2, <3>3, <3>4 DEF McpTypes
  <2>2. LockInv'
    BY InsideOK DEF Inside
  <2>3. GotInv'
    BY DEF GotInv, McpTypes, McpTypeOK, NoAnswer
  <2>4. WorkInv'
    BY DEF WorkInv, McpTypes, McpTypeOK, InRequest
  <2> QED BY <2>1, <2>2, <2>3, <2>4
<1>14. ASSUME NEW c \in Clients, LocksStdin(c) PROVE McpIInv'
  <2> USE <1>14 DEF LocksStdin, At
  <2>1. McpTypes'
    BY DEF McpTypes, McpTypeOK
  <2>2. LockInv'
    BY InsideOK DEF Inside
  <2>3. GotInv' /\ WorkInv'
    BY DEF GotInv, WorkInv, McpTypes, McpTypeOK, InRequest
  <2> QED BY <2>1, <2>2, <2>3
<1>15. ASSUME NEW c \in Clients, WritesLine(c) PROVE McpIInv'
  <2> USE <1>15 DEF WritesLine
  <2>1. c \in holders /\ got[c] = NoAnswer /\ mpc[c] = "writing"
    BY DEF LockInv, GotInv, Inside
  <2>2. PICK to \in {"waiting", "answered"}, what \in {NoAnswer, <<0, "sent">>} :
          /\ mpc' = [mpc EXCEPT ![c] = to] /\ got' = [got EXCEPT ![c] = what]
          /\ to # "answered" => what = NoAnswer
          /\ asked' \subseteq asked \cup {reqId[c]}
    <3>1. got = [got EXCEPT ![c] = NoAnswer]
      BY <2>1 DEF McpTypes
    <3> QED BY <3>1
  <2>3. writer' = Nobody /\ UNCHANGED <<handle, tools, child, nextId, stdout, reader, stalled, lockQueue,
                                       holders, op, steps, reqId, ops, asks>>
    OBVIOUS
  <2> HIDE <1>15
  <2>4. McpTypes'
    <3>1. McpTypeOK'
      BY <2>1, <2>2, <2>3 DEF McpTypes, McpTypeOK
    <3>2. asked' \subseteq Nat /\ got' \in [Clients -> Gots]
      BY <2>2, GotTypes DEF McpTypes
    <3>3. \A d \in Clients : mpc'[d] # "idle" => op'[d] \in Operations
      BY <2>1, <2>2, <2>3 DEF McpTypes, McpTypeOK
    <3> QED BY <2>3, <3>1, <3>2, <3>3 DEF McpTypes
  <2>5. LockInv'
    BY <2>1, <2>2, <2>3, InsideOK DEF Inside
  <2>6. GotInv'
    BY <2>1, <2>2, <2>3 DEF GotInv, McpTypes, McpTypeOK, NoAnswer
  <2>7. WorkInv'
    BY <2>1, <2>2, <2>3 DEF WorkInv, McpTypes, McpTypeOK, InRequest
  <2> QED BY <2>4, <2>5, <2>6, <2>7
<1>16. ASSUME NEW c \in Clients, PipeBreaks(c) PROVE McpIInv'
  BY <1>16, FailsOK DEF PipeBreaks
<1>6. ASSUME NEW c \in Clients, LocksStdout(c) PROVE McpIInv'
  <2> USE <1>6 DEF LocksStdout, At
  <2>1. McpTypes'
    BY DEF McpTypes, McpTypeOK
  <2>2. LockInv'
    BY InsideOK DEF Inside
  <2>3. GotInv' /\ WorkInv'
    BY DEF GotInv, WorkInv, McpTypes, McpTypeOK, InRequest
  <2> QED BY <2>1, <2>2, <2>3
<1>7. ASSUME NEW c \in Clients, ReadsLine(c) PROVE McpIInv'
  <2> USE <1>7 DEF ReadsLine
  <2>1. Head(stdout) \in Lines /\ Tail(stdout) \in Seq(Lines)
    BY DEF McpTypes
  <2>2. CASE Matches(Head(stdout), reqId[c])
    <3>1. McpTypes'
      BY <2>1, <2>2, GotTypes DEF McpTypes, McpTypeOK
    <3>2. LockInv'
      BY <2>2, InsideOK DEF Inside
    <3>3. GotInv'
      BY <2>2 DEF GotInv, McpTypes, McpTypeOK, Matches
    <3>4. WorkInv'
      BY <2>2 DEF WorkInv, McpTypes, McpTypeOK, InRequest
    <3> QED BY <3>1, <3>2, <3>3, <3>4
  <2>3. CASE ~Matches(Head(stdout), reqId[c])
    BY <2>1, <2>3 DEF McpTypes, McpTypeOK, GotInv, LockInv, WorkInv, InRequest
  <2> QED BY <2>2, <2>3
<1>8. ASSUME NEW c \in Clients, ReadsEnd(c) \/ TimesOut(c) PROVE McpIInv'
  BY <1>8, FailsOK DEF ReadsEnd, TimesOut
<1>9. ASSUME NEW c \in Clients, Proceeds(c) PROVE McpIInv'
  <2> USE <1>9 DEF Proceeds
  <2>1. c \in holders /\ steps[c] # <<>>
    BY DEF LockInv, WorkInv, InRequest, Inside
  <2>2. Tail(steps[c]) \in Seq(Steps)
    BY <2>1 DEF McpTypes
  <2>3. PICK to \in {"ready", "returning"}, rest \in {Tail(steps[c]), <<>>} :
          /\ mpc' = [mpc EXCEPT ![c] = to] /\ steps' = [steps EXCEPT ![c] = rest]
          /\ op[c] # "start" => rest = <<>>
    OBVIOUS
  <2>4. handle => handle'
    OBVIOUS
  <2>5. handle' \in BOOLEAN /\ tools' \in BOOLEAN
    BY DEF McpTypes, McpTypeOK
  <2>6. McpTypes'
    <3>1. McpTypeOK'
      BY <2>3, <2>5 DEF McpTypes, McpTypeOK, pipeVars
    <3>2. steps' \in [Clients -> Seq(Steps)]
      <4>1. rest \in Seq(Steps)
        <5>1. <<>> \in Seq(Steps)
          OBVIOUS
        <5>2. rest = Tail(steps[c]) \/ rest = <<>>
          BY <2>3
        <5> HIDE DEF Proceeds
        <5> QED BY <2>2, <5>1, <5>2, Zenon
      <4> QED BY <2>3, <4>1 DEF McpTypes
    <3>3. got' \in [Clients -> Gots] /\ reqId' \in [Clients -> Nat]
      BY GotTypes DEF McpTypes
    <3>4. \A d \in Clients : mpc'[d] # "idle" => op'[d] \in Operations
      BY <2>3 DEF McpTypes, McpTypeOK
    <3> QED BY <3>1, <3>2, <3>3, <3>4 DEF McpTypes, pipeVars
  <2>7. LockInv'
    BY <2>3, InsideOK DEF Inside
  <2>8. GotInv'
    BY <2>3 DEF GotInv, McpTypes, McpTypeOK, NoAnswer
  <2>9. WorkInv'
    BY <2>3, <2>4 DEF WorkInv, McpTypes, McpTypeOK, InRequest
  <2> QED BY <2>6, <2>7, <2>8, <2>9
<1>10. ASSUME NEW c \in Clients, HasNothingToDo(c) PROVE McpIInv'
  <2> USE <1>10 DEF HasNothingToDo, At, pipeVars
  <2>1. LockInv'
    BY InsideOK DEF Inside
  <2> QED BY <2>1 DEF McpTypes, McpTypeOK, GotInv, WorkInv, InRequest
<1>11. ASSUME NEW c \in Clients, Returns(c) PROVE McpIInv'
  <2> USE <1>11 DEF Returns, At, pipeVars
  <2>1. McpTypes'
    BY DEF McpTypes, McpTypeOK
  <2>2. LockInv' /\ GotInv'
    BY DEF LockInv, GotInv, McpTypes, McpTypeOK, Inside
  <2>3. WorkInv'
    BY DEF WorkInv, LockInv, McpTypes, McpTypeOK, InRequest, Inside
  <2> QED BY <2>1, <2>2, <2>3
<1>12. ASSUME NEW id \in 1..(MaxOps + 1), ServerAnswers(id) \/ ServerAsks(id) PROVE McpIInv'
  <2>1. id \in Nat
    BY McpAssumption
  <2>2. PICK line \in Lines : ServerSays(line) /\ asked' \subseteq asked
    BY <1>12, <2>1 DEF ServerAnswers, ServerAsks, Lines
  <2>3. stdout' \in Seq(Lines)
    BY <2>2 DEF ServerSays, McpTypes
  <2>4. McpTypes'
    BY <2>2, <2>3 DEF ServerSays, McpTypes, McpTypeOK
  <2> QED BY <2>2, <2>4 DEF ServerSays, GotInv, LockInv, WorkInv, InRequest
<1>13. CASE ServerDies \/ ServerStalls
  BY <1>13 DEF ServerDies, ServerStalls, McpTypes, McpTypeOK, GotInv, LockInv, WorkInv, InRequest
<1> QED
  BY <1>1, <1>2, <1>3, <1>4, <1>5, <1>6, <1>7, <1>8, <1>9, <1>10, <1>11, <1>12, <1>13,
     <1>14, <1>15, <1>16 DEF McpNext, Works

\* The invariant holds in every execution.
LEMMA McpInvariance == McpSpec => []McpIInv
<1>1. McpIInv /\ [McpNext]_mcpVars => McpIInv'
  BY McpStepOK
<1> QED BY <1>1, McpInitOK, PTL DEF McpSpec

\* No client is given the answer to the request of another or to an earlier one of its own,
\* and none is in a request while the server is stopped: for any clients and operations.
THEOREM AnswersGoToTheirRequests == McpSpec => []AnswersAreOwn
<1>1. McpIInv => AnswersAreOwn
  BY DEF McpIInv, GotInv, LockInv, WorkInv, AnswersAreOwn, InRequest, Inside
<1> QED BY <1>1, McpInvariance, PTL

\* The variables of the pool and its server hold values of their types.
THEOREM McpTypeCorrect == McpSpec => []McpTypeOK
<1>1. McpIInv => McpTypeOK
  BY DEF McpIInv, McpTypes
<1> QED BY <1>1, McpInvariance, PTL

\* Who waits for the lock is in its queue, once, and nobody else is.
QueueInv ==
  /\ lockQueue \in Seq(Clients)
  /\ \A i, j \in DOMAIN lockQueue : lockQueue[i] = lockQueue[j] => i = j
  /\ \A c \in Clients : mpc[c] = "locking" <=> \E i \in DOMAIN lockQueue : lockQueue[i] = c

\* Who is at no end of the queue keeps its place in it.
LEMMA QueueStill ==
  ASSUME QueueInv, UNCHANGED lockQueue,
         \A c \in Clients : mpc'[c] = "locking" <=> mpc[c] = "locking"
  PROVE  QueueInv'
  BY DEF QueueInv

\* Every step keeps the queue of the lock.
LEMMA QueueOK ==
  ASSUME McpIInv, QueueInv, [McpNext]_mcpVars
  PROVE  QueueInv'
<1>0. mpc \in [Clients -> {"idle", "locking"} \cup Inside]
  BY DEF McpIInv, McpTypes, McpTypeOK, Inside
<1>1. ASSUME NEW c \in Clients, NEW o \in Operations, Calls(c, o) PROVE QueueInv'
  <2>1. mpc[c] = "idle" /\ mpc' = [mpc EXCEPT ![c] = "locking"] /\ lockQueue' = Append(lockQueue, c)
    BY <1>1 DEF Calls, At
  <2>2. lockQueue \in Seq(Clients) /\ \A i \in DOMAIN lockQueue : lockQueue[i] # c
    BY <2>1 DEF QueueInv
  <2>3. /\ lockQueue' \in Seq(Clients) /\ DOMAIN lockQueue' = DOMAIN lockQueue \cup {Len(lockQueue) + 1}
        /\ Len(lockQueue) + 1 \notin DOMAIN lockQueue /\ lockQueue'[Len(lockQueue) + 1] = c
        /\ \A i \in DOMAIN lockQueue : lockQueue'[i] = lockQueue[i]
    BY <2>1, <2>2
  <2>4. \A i, j \in DOMAIN lockQueue' : lockQueue'[i] = lockQueue'[j] => i = j
    BY <2>2, <2>3 DEF QueueInv
  <2>5. \A d \in Clients : mpc'[d] = "locking" <=> \E i \in DOMAIN lockQueue' : lockQueue'[i] = d
    BY <1>0, <2>1, <2>3 DEF QueueInv
  <2> QED BY <2>3, <2>4, <2>5 DEF QueueInv
<1>2. ASSUME NEW c \in Clients, Enters(c) PROVE QueueInv'
  <2>1. /\ mpc[c] = "locking" /\ mpc' = [mpc EXCEPT ![c] = "ready"]
        /\ c = Head(lockQueue) /\ lockQueue' = Tail(lockQueue)
    BY <1>2 DEF Enters
  <2>2. lockQueue \in Seq(Clients) /\ lockQueue # <<>>
    BY <2>1 DEF QueueInv
  <2>3. /\ lockQueue' \in Seq(Clients) /\ c = lockQueue[1] /\ 1 \in DOMAIN lockQueue
        /\ \A i \in DOMAIN lockQueue' : /\ i \in Nat /\ i + 1 # 1 /\ i + 1 \in DOMAIN lockQueue
                                        /\ lockQueue'[i] = lockQueue[i + 1]
    BY <2>1, <2>2
  <2>4. \A i \in DOMAIN lockQueue \ {1} : i - 1 \in DOMAIN lockQueue' /\ lockQueue'[i - 1] = lockQueue[i]
    BY <2>1, <2>2
  <2>5. \A i, j \in DOMAIN lockQueue' : lockQueue'[i] = lockQueue'[j] => i = j
    <3> TAKE i, j \in DOMAIN lockQueue'
    <3>1. lockQueue'[i] = lockQueue'[j] => i + 1 = j + 1
      BY <2>3 DEF QueueInv
    <3> QED BY <2>3, <3>1
  <2>6. \A i \in DOMAIN lockQueue' : lockQueue'[i] # c
    BY <2>3 DEF QueueInv
  <2>7. ASSUME NEW d \in Clients, d # c
        PROVE  (\E i \in DOMAIN lockQueue : lockQueue[i] = d) <=> \E i \in DOMAIN lockQueue' : lockQueue'[i] = d
    BY <2>3, <2>4, <2>7
  <2>8. \A d \in Clients : mpc'[d] = "locking" <=> \E i \in DOMAIN lockQueue' : lockQueue'[i] = d
    BY <1>0, <2>1, <2>6, <2>7 DEF QueueInv
  <2> QED BY <2>3, <2>5, <2>8 DEF QueueInv
<1>3. ASSUME NEW c \in Clients,
             Stops(c) \/ Requests(c) \/ LocksStdin(c) \/ WritesLine(c) \/ PipeBreaks(c)
             \/ LocksStdout(c) \/ ReadsLine(c) \/ ReadsEnd(c) \/ TimesOut(c) \/ Proceeds(c) \/ HasNothingToDo(c) \/ Returns(c)
      PROVE  QueueInv'
  <2>1. lockQueue' = lockQueue /\ mpc[c] \in Inside
    BY <1>3 DEF Stops, Requests, LocksStdin, WritesLine, PipeBreaks, LocksStdout, ReadsLine, ReadsEnd,
                TimesOut, Fails, Proceeds, HasNothingToDo, Returns, At, Inside
  <2>2. mpc' = mpc \/ \E to \in {"idle"} \cup Inside : mpc' = [mpc EXCEPT ![c] = to]
    BY <1>3 DEF Stops, Requests, LocksStdin, WritesLine, PipeBreaks, LocksStdout, ReadsLine, ReadsEnd,
                TimesOut, Fails, Proceeds, HasNothingToDo, Returns, At, Inside
  <2> QED BY <1>0, <2>1, <2>2, QueueStill DEF Inside
<1>4. CASE (\E id \in 1..(MaxOps + 1) : ServerAnswers(id) \/ ServerAsks(id)) \/ ServerDies
           \/ ServerStalls \/ UNCHANGED mcpVars
  <2>1. UNCHANGED <<lockQueue, mpc>>
    BY <1>4 DEF ServerAnswers, ServerAsks, ServerSays, ServerDies, ServerStalls, mcpVars
  <2> QED BY <2>1, QueueStill
<1> QED BY <1>1, <1>2, <1>3, <1>4 DEF McpNext, Works

\* The lock is free for client c: Enters(c) but for the place of c.
MayEnter(c) == holders = {} \/ ~(Writes(op[c]) \/ \E h \in holders : Writes(op[h]))

\* A holder that waits for nobody: the guards of its steps, a request that may time out and
\* the lock of the input, free, included.
HasStep(c) ==
  \/ mpc[c] \in {"ready", "waiting", "reading", "answered", "returning"}
  \/ mpc[c] = "sending" /\ writer = Nobody
  \/ mpc[c] = "writing" /\ ~stalled

\* Who waits for the lock is in its queue, whose first may enter, or waits for a holder that
\* moves; unless a holder stands before the full pipe of a server that lives.
LockIsHandedOn ==
  \A c \in Clients : mpc[c] = "locking" =>
    /\ \E i \in DOMAIN lockQueue : lockQueue[i] = c
    /\ mpc[Head(lockQueue)] = "locking"
    /\ \/ MayEnter(Head(lockQueue))
       \/ \E h \in holders : HasStep(h)
       \/ stalled /\ child = "up" /\ \E h \in holders : mpc[h] = "writing"

\* A server that stalls is alive and some holder writes to it.
StalledInv == stalled => child = "up" /\ \E c \in Clients : mpc[c] = "writing" /\ c \in holders

\* Every step keeps it: a stalled server lets nobody write, and whoever writes holds the
\* pool's lock, so that nobody kills the server.
LEMMA StalledOK ==
  ASSUME McpIInv, StalledInv, [McpNext]_mcpVars
  PROVE  StalledInv'
<1> SUFFICES ASSUME stalled' PROVE StalledInv'
  BY DEF StalledInv
<1>1. CASE ~stalled
  <2>1. ServerStalls
    BY <1>1 DEF McpNext, Works, mcpVars, pipeVars, Calls, Enters, Stops, Requests, LocksStdin, WritesLine,
       PipeBreaks, LocksStdout, ReadsLine, ReadsEnd, TimesOut, Fails, Proceeds, HasNothingToDo, Returns,
       ServerAnswers, ServerAsks, ServerSays, ServerDies
  <2>2. writer \in Clients /\ mpc[writer] = "writing" /\ writer \in holders /\ child = "up"
    BY <2>1 DEF ServerStalls, McpIInv, McpTypes, McpTypeOK, LockInv, Inside
  <2> QED BY <2>1, <2>2 DEF ServerStalls, StalledInv
<1>2. CASE stalled
  <2>1. PICK w \in Clients : mpc[w] = "writing" /\ w \in holders /\ child = "up"
    BY <1>2 DEF StalledInv
  <2>2. mpc'[w] = "writing" /\ w \in holders'
    <3>1. \A c \in Clients : Enters(c) \/ Stops(c) \/ Returns(c) \/ WritesLine(c) \/ PipeBreaks(c) =>
            c # w /\ ~WritesLine(c) /\ ~PipeBreaks(c)
      BY <1>2, <2>1 DEF Enters, Stops, Returns, At, WritesLine, PipeBreaks
    <3> QED
      BY <1>2, <2>1, <3>1 DEF McpNext, Works, mcpVars, pipeVars, Calls, Enters, Stops, Requests, LocksStdin,
         LocksStdout, ReadsLine, ReadsEnd, TimesOut, Fails, Proceeds, HasNothingToDo, Returns, At,
         ServerAnswers, ServerAsks, ServerSays, ServerDies, ServerStalls, McpIInv, McpTypes, McpTypeOK
  <2>3. child' = "up"
    <3>1. \A c \in Clients : ~Stops(c)
      BY <2>1 DEF Stops, At, Writes, McpIInv, LockInv, Inside
    <3> QED
      BY <1>2, <2>1, <3>1 DEF McpNext, Works, mcpVars, pipeVars, Calls, Enters, Requests, LocksStdin, WritesLine,
         PipeBreaks, LocksStdout, ReadsLine, ReadsEnd, TimesOut, Fails, Proceeds, HasNothingToDo, Returns,
         ServerAnswers, ServerAsks, ServerSays, ServerDies, ServerStalls
  <2> QED BY <2>2, <2>3 DEF StalledInv
<1> QED BY <1>1, <1>2

\* The safety part of OperationsReturn: no operation waits for a lock that nobody releases,
\* as long as a server that has stopped reading holds up no write, for any clients and
\* operations.
THEOREM NoOperationIsForgotten == McpSpec => []LockIsHandedOn
<1>1. McpInit => QueueInv /\ StalledInv
  BY DEF McpInit, QueueInv, StalledInv
<1>2. McpIInv /\ QueueInv /\ StalledInv /\ [McpNext]_mcpVars => QueueInv' /\ StalledInv'
  BY QueueOK, StalledOK
<1>3. McpIInv /\ QueueInv /\ StalledInv => LockIsHandedOn
  <2> SUFFICES ASSUME McpIInv, QueueInv, StalledInv, NEW c \in Clients, mpc[c] = "locking"
               PROVE  /\ \E i \in DOMAIN lockQueue : lockQueue[i] = c
                      /\ mpc[Head(lockQueue)] = "locking"
                      /\ \/ MayEnter(Head(lockQueue))
                         \/ \E h \in holders : HasStep(h)
                         \/ stalled /\ child = "up" /\ \E h \in holders : mpc[h] = "writing"
    BY DEF LockIsHandedOn
  <2>1. \E i \in DOMAIN lockQueue : lockQueue[i] = c
    BY DEF QueueInv
  <2>2. 1 \in DOMAIN lockQueue /\ Head(lockQueue) = lockQueue[1] /\ lockQueue[1] \in Clients
    BY <2>1 DEF QueueInv
  <2>3. mpc[Head(lockQueue)] = "locking"
    BY <2>2 DEF QueueInv
  <2>4. ASSUME NEW h \in holders, ~stalled PROVE \E g \in holders : HasStep(g)
    <3>1. mpc[h] \in Inside
      BY DEF McpIInv, McpTypes, McpTypeOK, LockInv
    <3>2. writer # Nobody => writer \in holders /\ mpc[writer] = "writing"
      BY DEF McpIInv, McpTypes, McpTypeOK, LockInv, Inside
    <3> QED BY <2>4, <3>1, <3>2 DEF HasStep, Inside
  <2>5. stalled => child = "up" /\ \E h \in holders : mpc[h] = "writing"
    BY DEF StalledInv
  <2> QED BY <2>1, <2>3, <2>4, <2>5 DEF MayEnter
<1> QED BY <1>1, <1>2, <1>3, McpInvariance, PTL DEF McpSpec

-----------------------------------------------------------------------------
(* Scripts.                                                                 *)

ScriptsSpec == ScriptsInit /\ [][ScriptsNext]_scriptVars

\* How far the call and its process have come, and of which skill it is. The rest of an
\* input that fits has room in the pipe.
ProcessInv ==
  /\ step = "writing" /\ fits => stdin + payload <= PipeRoom
  /\ step \in {"idle", "documents", "spawning"} => proc = "none" /\ stdin = 0
  /\ step \in {"writing", "waiting"} => proc # "none"
  /\ step = "joining" => proc = "exited"
  /\ step \notin {"idle", "over"} \/ proc # "none" => skill \in AllowedTools \cap Tools
  /\ step \notin {"idle", "documents", "over"} => skill \in ScriptSkills \ UnsafeSkills
  /\ step = "over" /\ proc = "running" => outcome = "failed" /\ payload > 0

ScriptIInv == ScriptsTypeOK /\ ProcessInv

\* The input of a call is written without waiting for the script, or is larger than the
\* pipe: what ScriptsReturn presumes of the runner's steps.
InputNeverWaits == step = "writing" /\ fits /\ payload > 0 => ~listens \/ stdin < PipeRoom

\* The script that runs is of a skill the agent may use and the guard lets through, and a
\* call that returned leaves one running only if its input could not be written.
ScriptsAreGuarded ==
  /\ proc # "none" => skill \in AllowedTools \cap Tools
  /\ step \in {"writing", "waiting", "joining"} => skill \in ScriptSkills \ UnsafeSkills
  /\ step = "over" /\ proc = "running" => outcome = "failed" /\ payload > 0

\* The invariant holds before the first call.
LEMMA ScriptInit == ScriptsInit => ScriptIInv
<1> SUFFICES ASSUME ScriptsInit PROVE ScriptsTypeOK /\ ProcessInv
  BY DEF ScriptIInv
<1>1. PipeRoom \in Nat /\ MaxPayload \in Nat
  BY ScriptsAssumption
<1>2. 0 \in 0..MaxPayload /\ {0} \subseteq 0..PipeRoom /\ {FALSE} \subseteq BOOLEAN
  BY <1>1
<1>3. ScriptsTypeOK
  BY <1>2 DEF ScriptsInit, ScriptsTypeOK
<1>4. ProcessInv
  BY DEF ScriptsInit, ProcessInv
<1> QED
  BY <1>3, <1>4

\* A name is resolved to a skill the agent may use, or to none.
LEMMA ResolvedIsUsable ==
  ASSUME NEW name
  PROVE  Resolved(name) \in (AllowedTools \cap Tools) \cup {"none"}
BY DEF Resolved, Usable

\* What the runner does keeps the invariant.
LEMMA RunnerStep ==
  ASSUME ScriptIInv, RunnerSteps \/ ScriptTimesOut \/ \E name \in Names : CallTool(name)
  PROVE  ScriptIInv'
<1> USE ScriptsAssumption DEF ScriptIInv, ScriptsTypeOK, ProcessInv, EndsCall, Tools
<1>1. ASSUME NEW name \in Names, CallTool(name) PROVE ScriptIInv'
  <2>1. skill' \in (AllowedTools \cap Tools) \cup {"none"}
    BY <1>1, ResolvedIsUsable DEF CallTool
  <2>2. /\ skill' # "none" => step' = "documents" /\ outcome' = "none"
        /\ skill' = "none" => step' = "over" /\ outcome' = "not_found"
        /\ payload' = 0 /\ stdin' = 0 /\ stdoutPipe' = 0
        /\ proc' = "none" /\ listens' = FALSE /\ heirs' = FALSE /\ fits' = FALSE
    BY <1>1 DEF CallTool
  <2>3. ScriptsTypeOK'
    <3>1. PipeRoom \in Nat /\ MaxPayload \in Nat /\ skill' \in Tools \cup {"none"}
      BY <2>1
    <3>2. /\ skill' \in Tools \cup {"none"} /\ payload' \in 0..MaxPayload
          /\ {stdin', stdoutPipe'} \subseteq 0..PipeRoom
      BY <2>2, <3>1
    <3>3. (outcome' # "none") = (step' = "over")
      BY <2>2
    <3> QED
      BY <2>2, <3>2, <3>3
  <2>4. ProcessInv'
    BY <2>1, <2>2
  <2> QED
    BY <2>3, <2>4
<1>2. CASE ReadsDocuments
  BY <1>2 DEF ReadsDocuments, processVars
<1>3. CASE Spawns
  <2>1. /\ step = "spawning" /\ proc = "none"
        /\ UNCHANGED <<skill, stdin, stdoutPipe, heirs, calls>>
    BY <1>3 DEF Spawns
  <2>2. CASE EndsCall("failed") /\ UNCHANGED <<payload, proc, listens, fits>>
    BY <2>1, <2>2
  <2>3. ASSUME NEW size \in 1..MaxPayload, payload' = size, fits' = (size <= PipeRoom),
               step' = "writing", proc' = "running", listens' = TRUE, UNCHANGED outcome
        PROVE  ScriptIInv'
    <3>1. size \in 0..MaxPayload /\ fits' \in BOOLEAN
      BY <2>3
    <3>2. ScriptsTypeOK'
      BY <2>1, <2>3, <3>1
    <3>3. fits' => stdin' + payload' <= PipeRoom
      <4>1. stdin' = 0 /\ size \in Int
        BY <2>1, <2>3
      <4>2. fits' => size <= PipeRoom
        BY Zenon, <2>3
      <4> QED
        BY <2>3, <4>1, <4>2
    <3>4. skill' \in AllowedTools \cap Tools /\ skill' \in ScriptSkills \ UnsafeSkills
      BY <2>1
    <3>5. ProcessInv'
      BY <2>3, <3>3, <3>4
    <3> QED
      BY <3>2, <3>5
  <2> QED
    BY <1>3, <2>2, <2>3 DEF Spawns
<1>4. CASE WritesInput
  BY <1>4 DEF WritesInput
<1>5. CASE ClosesStdin
  BY <1>5 DEF ClosesStdin, processVars
<1>6. CASE WaitEnds
  BY <1>6 DEF WaitEnds, processVars
<1>7. CASE Joins
  BY <1>7 DEF Joins, processVars
<1>8. CASE ScriptTimesOut
  BY <1>8 DEF ScriptTimesOut
<1> QED
  BY <1>1, <1>2, <1>3, <1>4, <1>5, <1>6, <1>7, <1>8 DEF RunnerSteps

\* What the script, its descendants and the readers do keeps the invariant.
LEMMA ScriptStep ==
  ASSUME ScriptIInv,
         ReaderReads \/ ScriptReads \/ ScriptWrites \/ ScriptCloses \/ ScriptExits \/ HeirsEnd
  PROVE  ScriptIInv'
<1> USE ScriptsAssumption DEF ScriptIInv, ScriptsTypeOK, ProcessInv
<1>1. CASE ReaderReads
  BY <1>1 DEF ReaderReads
<1>2. CASE ScriptReads
  BY <1>2 DEF ScriptReads
<1>3. CASE ScriptWrites
  BY <1>3 DEF ScriptWrites
<1>4. CASE ScriptCloses
  BY <1>4 DEF ScriptCloses
<1>5. CASE ScriptExits
  BY <1>5 DEF ScriptExits
<1>6. CASE HeirsEnd
  BY <1>6 DEF HeirsEnd
<1> QED
  BY <1>1, <1>2, <1>3, <1>4, <1>5, <1>6

\* The invariant holds in every execution.
LEMMA ScriptInvariance == ScriptsSpec => []ScriptIInv
<1>1. ScriptIInv /\ [ScriptsNext]_scriptVars => ScriptIInv'
  <2> SUFFICES ASSUME ScriptIInv, [ScriptsNext]_scriptVars PROVE ScriptIInv'
    OBVIOUS
  <2>1. CASE UNCHANGED scriptVars
    BY <2>1 DEF ScriptIInv, ScriptsTypeOK, ProcessInv, scriptVars
  <2> QED
    BY <2>1, RunnerStep, ScriptStep DEF ScriptsNext, RunnerSteps
<1> QED
  BY <1>1, ScriptInit, PTL DEF ScriptsSpec

\* An input that fits the pipe is written without waiting for the script to read, for any
\* pipe, input and script: the call gets as far as its timeout.
THEOREM FittingInputsAreWritten == ScriptsSpec => []InputNeverWaits
<1>1. ScriptIInv => InputNeverWaits
  BY ScriptsAssumption DEF ScriptIInv, ScriptsTypeOK, ProcessInv, InputNeverWaits
<1> QED
  BY <1>1, ScriptInvariance, PTL

\* Whatever name the model asks for, the script that runs is of a skill the agent may use
\* and the guard lets through; no call leaves a script running but one whose input could
\* not be written.
THEOREM OnlyGuardedScriptsRun == ScriptsSpec => []ScriptsAreGuarded
<1>1. ScriptIInv => ScriptsAreGuarded
  BY DEF ScriptIInv, ScriptsTypeOK, ProcessInv, ScriptsAreGuarded
<1> QED
  BY <1>1, ScriptInvariance, PTL

\* The variables of the script model hold values of their types.
THEOREM ScriptsTypeCorrect == ScriptsSpec => []ScriptsTypeOK
<1>1. ScriptIInv => ScriptsTypeOK
  BY DEF ScriptIInv
<1> QED
  BY <1>1, ScriptInvariance, PTL

-----------------------------------------------------------------------------
(* The three side by side.                                                  *)

\* Every fair execution of the three, in whatever order they take their steps, is a
\* fair execution of each: what is shown of one holds of it beside the others.
LEMMA WaitsArePlacedSideBySide == WaitsSpec => AssistSpec /\ McpSpec /\ ScriptsSpec
<1>1. WaitsInit => AssistInit /\ McpInit /\ ScriptsInit
  BY DEF WaitsInit
<1>2. [WaitsNext]_waitsVars => [AssistNext]_assistVars
  BY DEF WaitsNext, AssistOnly, McpOnly, ScriptsOnly, waitsVars
<1>3. [WaitsNext]_waitsVars => [McpNext]_mcpVars
  BY DEF WaitsNext, AssistOnly, McpOnly, ScriptsOnly, waitsVars
<1>4. [WaitsNext]_waitsVars => [ScriptsNext]_scriptVars
  BY DEF WaitsNext, AssistOnly, McpOnly, ScriptsOnly, waitsVars
<1> QED
  BY <1>1, <1>2, <1>3, <1>4, PTL
     DEF WaitsSpec, WaitsFairness, AssistSpec, McpSpec, ScriptsSpec

\* Side by side, the variables of the three hold values of their types.
THEOREM WaitsTypesCorrect == WaitsSpec => []WaitsTypesOK
BY WaitsArePlacedSideBySide, AssistTypeCorrect, McpTypeCorrect, ScriptsTypeCorrect, PTL
   DEF WaitsTypesOK

\* Side by side, waiting tasks ask, answers go to their requests, and no script that
\* runs is one the guard or the agent's skills forbid.
THEOREM WaitsAreSafe == WaitsSpec => [](WaitingIsAsking /\ AnswersAreOwn /\ ScriptsAreGuarded)
BY WaitsArePlacedSideBySide, WaitingTasksAsk, AnswersGoToTheirRequests, OnlyGuardedScriptsRun, PTL
=============================================================================

------------------------------ MODULE AgentTurn ------------------------------
(***************************************************************************)
(* AgentRuntime: the loop that asks the model, runs the tools it calls for  *)
(* and stops at an answer, an error or the end of the iteration budget.     *)
(* `execute` runs a task with a conversation of its own, which it truncates *)
(* before each request; `execute_turn` continues the conversation of a      *)
(* session and saves it when it ends.                                       *)
(*                                                                          *)
(* Reports go through a bounded channel and the sender waits for room: they *)
(* are queued in `outbox`, and nothing else happens until it is empty.      *)
(***************************************************************************)
EXTENDS Integers, Sequences, SequencesExt, FiniteSets, Positions

CONSTANTS
  MaxIterations,  \* config.max_iterations
  RetryLimit,     \* tool_call_retry_limit
  ProgressEvery,  \* a progress report each so many iterations (5 in the code)
  KeepLast,       \* the sliding window of truncation (50 in the code)
  TokenBudget,    \* the token budget of `execute`
  LargeResult,    \* bound: tokens of a large tool result
  ChannelCap,     \* capacity of the report channel (256 in the code)
  MaxCalls,       \* bound: tool calls of one response
  MaxRuns         \* bound: executions on one runtime

ASSUME AgentTurnAssumption ==
  /\ MaxIterations \in Nat /\ RetryLimit \in Nat
  /\ {ProgressEvery, KeepLast, TokenBudget, LargeResult, ChannelCap, MaxCalls, MaxRuns}
       \subseteq Nat \ {0}

VARIABLES
  mode,       \* "execute" or "turn"
  apc,        \* idle, think, ask, act, save, over
  iteration, recoveries,
  asks,       \* requests made to the model in this execution
  todo,       \* tool calls of the last response not executed yet
  conv,       \* the conversation of this execution
  session,    \* the saved conversation; empty before load_or_create
  nextCall,   \* fresh identifiers of tool calls
  outbox, channel,
  told,       \* reports of this execution, in the order they were sent
  taskState,  \* task.state
  outcome,    \* none, answer, error, budget, exhausted
  runsBegun

agentVars == <<mode, apc, iteration, recoveries, asks, todo, conv, session, nextCall,
               outbox, channel, told, taskState, outcome, runsBegun>>

-----------------------------------------------------------------------------
(* Messages, with the estimate of their tokens.                             *)

Message(kind, calls, tokens) == [kind |-> kind, calls |-> calls, tokens |-> tokens]
SystemPrompt == Message("system", {}, 1)
UserText     == Message("user", {}, 1)
ReplyText    == Message("reply", {}, 1)
CallsOf(ids) == Message("calls", ids, 2 * Cardinality(ids))
ResultOf(id, tokens) == Message("result", {id}, tokens)

TokensUsed(c) == FoldSeq(LAMBDA m, n : m.tokens + n, 0, c)
IsSystem(m) == m.kind = "system"

\* SlidingWindow: the system messages and the last KeepLast of the others.
Truncated(c) ==
  IF TokensUsed(c) <= TokenBudget THEN c
  ELSE LET others == {k \in DOMAIN c : ~IsSystem(c[k])}
           last   == {k \in others : Cardinality({j \in others : j >= k}) <= KeepLast}
       IN  At(c, DOMAIN c \ others) \o At(c, last)

Report(type, eligible) == [type |-> type, eligible |-> eligible]
PlainReport(type) == Report(type, FALSE)

-----------------------------------------------------------------------------
AgentInit ==
  /\ mode = "turn" /\ apc = "idle" /\ iteration = 0 /\ recoveries = 0 /\ asks = 0
  /\ todo = <<>> /\ conv = <<>> /\ session = <<>> /\ nextCall = 1
  /\ outbox = <<>> /\ channel = <<>> /\ told = <<>>
  /\ taskState = "none" /\ outcome = "none" /\ runsBegun = 0

Quiet == outbox = <<>>

Begins(m) ==
  /\ apc \in {"idle", "over"} /\ Quiet /\ runsBegun < MaxRuns
  /\ runsBegun' = runsBegun + 1
  /\ mode' = m /\ apc' = "think" /\ iteration' = 0 /\ recoveries' = 0 /\ asks' = 0
  /\ told' = <<>> /\ taskState' = "running" /\ outcome' = "none"
  /\ UNCHANGED <<todo, nextCall, outbox, channel>>

BeginExecute ==
  /\ Begins("execute")
  /\ conv' = <<SystemPrompt, UserText>>
  /\ UNCHANGED session

\* load_or_create puts the new session in the store before the message is added.
BeginTurn ==
  /\ Begins("turn")
  /\ session' = IF session = <<>> THEN <<SystemPrompt>> ELSE session
  /\ conv' = Append(session', UserText)

\* Mutant of BudgetSpent: the last iteration of the budget is not used.
BudgetSpentEarly(i) == i >= MaxIterations

BudgetSpent(i) == i > MaxIterations

\* Mutant of FailedReports: an execution that ran out of budget says it is stuck, no more.
NoFailedReport(m) == <<>>

\* The end of `execute` without budget; the end of a turn with an error comes after the save.
FailedReports(m) == IF m = "execute" THEN <<PlainReport("failed")>> ELSE <<>>

OutOfBudget ==
  /\ apc = "think" /\ Quiet /\ BudgetSpent(iteration + 1)
  /\ iteration' = iteration + 1
  /\ outcome' = "budget"
  /\ outbox' = <<PlainReport("stuck")>> \o FailedReports(mode)
  /\ apc' = IF mode = "turn" THEN "save" ELSE "over"
  /\ taskState' = IF mode = "turn" THEN taskState ELSE "failed"
  /\ UNCHANGED <<mode, recoveries, asks, todo, conv, session, nextCall, channel, told, runsBegun>>

Ask ==
  /\ apc = "think" /\ Quiet /\ ~BudgetSpent(iteration + 1)
  /\ iteration' = iteration + 1
  /\ asks' = asks + 1
  /\ conv' = IF mode = "execute" THEN Truncated(conv) ELSE conv
  /\ apc' = "ask"
  /\ UNCHANGED <<mode, recoveries, todo, session, nextCall, outbox, channel, told, taskState,
                 outcome, runsBegun>>

\* An error of the model that is no bad tool call, or one too many of those.
ModelFails(why) ==
  /\ apc = "ask"
  /\ outcome' = why
  /\ apc' = IF mode = "turn" THEN "save" ELSE "over"
  /\ UNCHANGED <<mode, iteration, recoveries, asks, todo, conv, session, nextCall, outbox,
                 channel, told, taskState, runsBegun>>

ModelErrs == ModelFails("error")
RetriesExhausted == recoveries >= RetryLimit /\ ModelFails("exhausted")

\* Mutant of RecoveryMessages: only the call is put in the conversation.
RecoveryCallOnly(id) == <<CallsOf({id})>>

RecoveryMessages(id) == <<CallsOf({id}), ResultOf(id, 1)>>

\* try_recover_invalid_tool_call: a call nobody made and its failed result. Its id is the
\* number of the retry (a negative number here), so that a later turn may use it again.
Recover ==
  /\ apc = "ask" /\ recoveries < RetryLimit
  /\ recoveries' = recoveries + 1
  /\ conv' = conv \o RecoveryMessages(-recoveries')
  /\ outbox' = <<Report("bad_call", recoveries' < RetryLimit)>>
  /\ apc' = "think"
  /\ UNCHANGED <<mode, iteration, asks, todo, session, nextCall, channel, told, taskState, outcome,
                 runsBegun>>

Progress == IF iteration % ProgressEvery = 0 THEN <<PlainReport("progress")>> ELSE <<>>

ModelCallsTools(n) ==
  /\ apc = "ask"
  /\ LET ids == nextCall .. nextCall + n - 1
     IN  /\ conv' = Append(conv, CallsOf(ids))
         /\ todo' = [k \in 1..n |-> nextCall + k - 1]
  /\ nextCall' = nextCall + n
  /\ outbox' = Progress
  /\ apc' = "act"
  /\ UNCHANGED <<mode, iteration, recoveries, asks, session, channel, told, taskState, outcome,
                 runsBegun>>

\* execute_tool_call: an error of the broker becomes a result.
RunTool(tokens, failed) ==
  /\ apc = "act" /\ Quiet /\ todo # <<>>
  /\ todo' = Tail(todo)
  /\ conv' = Append(conv, ResultOf(Head(todo), tokens))
  /\ outbox' = IF failed THEN <<Report("tool_failure", TRUE)>> ELSE <<>>
  /\ UNCHANGED <<mode, apc, iteration, recoveries, asks, session, nextCall, channel, told,
                 taskState, outcome, runsBegun>>

ToolsDone ==
  /\ apc = "act" /\ Quiet /\ todo = <<>>
  /\ apc' = "think"
  /\ UNCHANGED <<mode, iteration, recoveries, asks, todo, conv, session, nextCall, outbox,
                 channel, told, taskState, outcome, runsBegun>>

ModelAnswers ==
  /\ apc = "ask"
  /\ outcome' = "answer"
  /\ conv' = IF mode = "turn" THEN Append(conv, ReplyText) ELSE conv
  /\ outbox' = Append(Progress, PlainReport("completed"))
  /\ apc' = IF mode = "turn" THEN "save" ELSE "over"
  /\ taskState' = "completed"
  /\ UNCHANGED <<mode, iteration, recoveries, asks, todo, session, nextCall, channel, told, runsBegun>>

\* save_conversation, whatever the outcome; then the report of an error.
SaveTurn ==
  /\ apc = "save" /\ Quiet
  /\ session' = conv
  /\ outbox' = IF outcome = "answer" THEN <<>> ELSE <<PlainReport("failed")>>
  /\ taskState' = IF outcome = "answer" THEN taskState ELSE "failed"
  /\ apc' = "over"
  /\ UNCHANGED <<mode, iteration, recoveries, asks, todo, conv, nextCall, channel, told, outcome,
                 runsBegun>>

\* Mutant of HasRoom: an unbounded channel.
HasRoomAlways == TRUE

HasRoom == Len(channel) < ChannelCap

\* The turn goes on when all its reports are sent.
SendReport ==
  /\ outbox # <<>> /\ HasRoom
  /\ channel' = Append(channel, Head(outbox))
  /\ told' = Append(told, Head(outbox))
  /\ outbox' = Tail(outbox)
  /\ UNCHANGED <<mode, apc, iteration, recoveries, asks, todo, conv, session, nextCall, taskState,
                 outcome, runsBegun>>

\* The report worker takes the next report.
ReceiveReport ==
  /\ channel # <<>>
  /\ channel' = Tail(channel)
  /\ UNCHANGED <<mode, apc, iteration, recoveries, asks, todo, conv, session, nextCall, outbox,
                 told, taskState, outcome, runsBegun>>

Loop ==
  \/ OutOfBudget \/ Ask
  \/ ModelErrs \/ RetriesExhausted \/ Recover
  \/ \E n \in 1..MaxCalls : ModelCallsTools(n)
  \/ \E tokens \in {1, LargeResult}, failed \in BOOLEAN : RunTool(tokens, failed)
  \/ ToolsDone \/ ModelAnswers \/ SaveTurn \/ SendReport

AgentNext == BeginExecute \/ BeginTurn \/ Loop \/ ReceiveReport

-----------------------------------------------------------------------------
MessageOK(m) ==
  /\ m.kind \in {"system", "user", "reply", "calls", "result"}
  /\ m.calls \subseteq (-RetryLimit)..(nextCall - 1) /\ m.tokens \in Nat

AgentTypeOK ==
  /\ mode \in {"execute", "turn"}
  /\ apc \in {"idle", "think", "ask", "act", "save", "over"}
  /\ {iteration, asks} \subseteq 0..(MaxIterations + 1) /\ recoveries \in 0..RetryLimit
  /\ \A c \in {conv, session} : \A k \in DOMAIN c : MessageOK(c[k])
  /\ Len(channel) <= ChannelCap /\ runsBegun \in 0..MaxRuns

ResultsWithin(c, id, from, to) ==
  {r \in DOMAIN c : r \in from..to /\ c[r].kind = "result" /\ c[r].calls = {id}}

\* Right after its calls come their results, one for each.
EveryCallAnswered(c) ==
  \A k \in DOMAIN c : c[k].kind = "calls" =>
    \A id \in c[k].calls :
      Cardinality(ResultsWithin(c, id, k + 1, k + Cardinality(c[k].calls))) = 1

EveryResultAsked(c) ==
  \A r \in DOMAIN c : c[r].kind = "result" =>
    \E k \in 1..(r - 1) : /\ c[k].kind = "calls" /\ c[r].calls \subseteq c[k].calls
                          /\ r <= k + Cardinality(c[k].calls)

\* What the model is sent is well formed: each call it made is followed by its result,
\* and in a turn, whose session outlives errors and spent budgets, no result is without
\* its call either. Truncation (execute only) may cut a call and leave its result.
CallsAnswered ==
  /\ apc = "ask" => /\ EveryCallAnswered(conv)
                    /\ (mode = "turn" => EveryResultAsked(conv))
  /\ EveryCallAnswered(session) /\ EveryResultAsked(session)

Retries == {k \in DOMAIN told : told[k].type = "bad_call"}

\* An execution that gives up for lack of budget made exactly as many requests as the
\* budget allows, retries of bad tool calls included; one that gives up retrying made
\* RetryLimit retries, and the last report of a retry, alone, said there would be no more.
BudgetIsExact ==
  /\ asks <= MaxIterations
  /\ outcome = "budget" => asks = MaxIterations
  /\ outcome = "exhausted" =>
       /\ Cardinality(Retries) = RetryLimit
       /\ \A k \in Retries : told[k].eligible <=> \E j \in Retries : j > k

FinalReports == {k \in DOMAIN told : told[k].type \in {"completed", "failed"}}

\* A turn that is over has told its end once, after every other report; and unless it
\* was answered its conversation had been saved when it told so. `execute` is silent
\* about an error of the model, whose task stays "running": its only silent end.
EndIsTold ==
  LET over == apc = "over" /\ Quiet
      silent == mode = "execute" /\ outcome \in {"error", "exhausted"}
  IN  /\ over /\ ~silent =>
           /\ FinalReports = {Len(told)}
           /\ (Last(told).type = "completed") = (outcome = "answer")
           /\ taskState = Last(told).type
      /\ over /\ silent => FinalReports = {} /\ taskState = "running"
      /\ mode = "turn" /\ FinalReports # {} /\ Last(told).type = "failed" => session = conv
==============================================================================

------------------------------ MODULE AgentProofs ------------------------------
(***************************************************************************)
(* Proofs about AgentTurn, for any budgets, limits, capacities and numbers  *)
(* of executions.                                                           *)
(***************************************************************************)
EXTENDS AgentTurn, FiniteSetTheorems, TLAPS

AgentSpec == AgentInit /\ [][AgentNext]_agentVars

Msg == [kind : {"system", "user", "reply", "calls", "result"}, calls : SUBSET Int, tokens : Nat]
Rep == [type : {"stuck", "failed", "bad_call", "progress", "tool_failure", "completed"},
        eligible : BOOLEAN]

AgentTypes ==
  /\ mode \in {"execute", "turn"}
  /\ apc \in {"idle", "think", "ask", "act", "save", "over"}
  /\ {iteration, asks} \subseteq 0..(MaxIterations + 1) /\ recoveries \in 0..RetryLimit
  /\ Len(channel) <= ChannelCap /\ runsBegun \in 0..MaxRuns
  /\ conv \in Seq(Msg) /\ session \in Seq(Msg)
  /\ todo \in Seq(Nat) /\ nextCall \in Nat \ {0}
  /\ outbox \in Seq(Rep) /\ told \in Seq(Rep) /\ channel \in Seq(Rep)
  /\ taskState \in {"none", "running", "completed", "failed"}
  /\ outcome \in {"none", "answer", "error", "budget", "exhausted"}

PlaceInv ==
  /\ apc \in {"idle", "think", "ask", "act"} => outcome = "none"
  /\ apc \in {"think", "ask", "act"} => taskState = "running" /\ iteration = asks
  /\ apc = "save" => mode = "turn"
  /\ apc # "act" => todo = <<>>
  /\ apc = "ask" => outbox = <<>>
  /\ apc = "idle" => told = <<>> /\ outbox = <<>>
  /\ apc \in {"save", "over"} => outcome # "none"

BudgetInv ==
  /\ apc \in {"think", "ask", "act"} => iteration <= MaxIterations
  /\ asks <= MaxIterations
  /\ outcome = "budget" => asks = MaxIterations
  /\ outcome = "exhausted" => recoveries = RetryLimit

\* The calls of a conversation have been given out.
Given(c, next) == \A k \in DOMAIN c : c[k].calls \subseteq (-RetryLimit)..(next - 1)

\* What a turn has said and what it still has to say.
AllReports == told \o outbox

RetriesOf(s) == {k \in DOMAIN s : s[k].type = "bad_call"}

\* As many retries are reported as were made, and the report that there will be no more,
\* alone, is the last.
RetryInv ==
  /\ Cardinality(RetriesOf(AllReports)) = recoveries
  /\ \A k \in RetriesOf(AllReports) :
       ~AllReports[k].eligible <=>
          recoveries = RetryLimit /\ \A j \in RetriesOf(AllReports) : j <= k
  /\ apc # "think" => RetriesOf(outbox) = {}

FinalsOf(s) == {k \in DOMAIN s : s[k].type \in {"completed", "failed"}}
Untold == mode = "execute" /\ outcome \in {"error", "exhausted"}

\* The last report, and no other, tells the end, and the task is in the state it tells.
EndToldAs(state) ==
  /\ FinalsOf(AllReports) = {Len(AllReports)}
  /\ AllReports[Len(AllReports)].type = state
  /\ taskState = state

EndInv ==
  /\ apc \in {"idle", "think", "ask", "act"} => FinalsOf(AllReports) = {}
  /\ apc = "save" => IF outcome = "answer" THEN EndToldAs("completed")
                     ELSE FinalsOf(AllReports) = {} /\ taskState = "running"
  /\ apc = "over" => IF Untold THEN FinalsOf(AllReports) = {} /\ taskState = "running"
                     ELSE EndToldAs(IF outcome = "answer" THEN "completed" ELSE "failed")
  /\ apc = "over" /\ mode = "turn" => session = conv

\* The calls at k are answered right after it, or are the last and still to be answered.
Block(c, pending, k) ==
  \E f \in Int, n \in Nat \ {0} :
    /\ c[k].calls = f..(f + n - 1)
    /\ k + n <= Len(c) + Len(pending)
    /\ \A j \in 1..n : IF k + j <= Len(c)
                       THEN c[k + j].kind = "result" /\ c[k + j].calls = {f + j - 1}
                       ELSE pending[k + j - Len(c)] = f + j - 1
AnsweredSoFar(c, pending) == \A k \in DOMAIN c : c[k].kind = "calls" => Block(c, pending, k)

\* The calls at k are those that a result at r, for ids, is of.
Covers(c, k, r, ids) ==
  /\ c[k].kind = "calls" /\ ids \subseteq c[k].calls /\ r <= k + Cardinality(c[k].calls)
Asked(c, pending) ==
  /\ \A r \in DOMAIN c : c[r].kind = "result" => \E k \in 1..(r - 1) : Covers(c, k, r, c[r].calls)
  /\ \A i \in DOMAIN pending : \E k \in DOMAIN c : Covers(c, k, Len(c) + i, {pending[i]})

\* The first message, and no other, is the system's.
Headed(c) == \A k \in DOMAIN c : c[k].kind = "system" <=> k = 1

TalkInv ==
  /\ AnsweredSoFar(conv, todo) /\ Headed(conv) /\ Given(conv, nextCall)
  /\ mode = "turn" => Asked(conv, todo)
  /\ AnsweredSoFar(session, <<>>) /\ Asked(session, <<>>) /\ Headed(session)
  /\ Given(session, nextCall)
  /\ apc # "idle" => conv # <<>>
  /\ \A i \in DOMAIN todo : todo[i] \in 1..(nextCall - 1)

AgentIInv == AgentTypes /\ PlaceInv /\ BudgetInv /\ RetryInv /\ EndInv /\ TalkInv

-----------------------------------------------------------------------------
(* Sequences.                                                               *)

\* What Append gives.
LEMMA AppendFacts ==
  ASSUME NEW S, NEW s \in Seq(S), NEW e \in S
  PROVE  /\ Append(s, e) \in Seq(S) /\ Len(Append(s, e)) = Len(s) + 1
         /\ DOMAIN Append(s, e) = 1..(Len(s) + 1) /\ DOMAIN s = 1..Len(s)
         /\ \A k \in DOMAIN s : Append(s, e)[k] = s[k]
         /\ Append(s, e)[Len(s) + 1] = e
  OBVIOUS

\* What \o gives.
LEMMA ConcatFacts ==
  ASSUME NEW S, NEW s \in Seq(S), NEW t \in Seq(S)
  PROVE  /\ s \o t \in Seq(S) /\ Len(s \o t) = Len(s) + Len(t)
         /\ DOMAIN (s \o t) = 1..(Len(s) + Len(t))
         /\ DOMAIN s = 1..Len(s) /\ DOMAIN t = 1..Len(t)
         /\ \A k \in DOMAIN s : (s \o t)[k] = s[k]
         /\ \A k \in DOMAIN t : (s \o t)[Len(s) + k] = t[k]
         /\ \A k \in (Len(s) + 1)..(Len(s) + Len(t)) : (s \o t)[k] = t[k - Len(s)]
  OBVIOUS

\* What \o gives when the first sequence is of one message.
LEMMA PrefixedFacts ==
  ASSUME NEW e \in Msg, NEW t \in Seq(Msg)
  PROVE  /\ <<e>> \o t \in Seq(Msg) /\ Len(<<e>> \o t) = 1 + Len(t) /\ (<<e>> \o t)[1] = e
         /\ \A k \in 2..(1 + Len(t)) : k - 1 \in DOMAIN t /\ (<<e>> \o t)[k] = t[k - 1]
<1>1. <<e>> \o t \in Seq(Msg) /\ Len(<<e>> \o t) = 1 + Len(t)
  OBVIOUS
<1>2. (<<e>> \o t)[1] = e
  OBVIOUS
<1>3. \A k \in 2..(1 + Len(t)) : k - 1 \in DOMAIN t /\ (<<e>> \o t)[k] = t[k - 1]
  OBVIOUS
<1> QED
  BY <1>1, <1>2, <1>3

\* What Tail and Head give.
LEMMA TailFacts ==
  ASSUME NEW S, NEW s \in Seq(S), s # <<>>
  PROVE  /\ Head(s) \in S /\ Tail(s) \in Seq(S) /\ Len(Tail(s)) = Len(s) - 1 /\ Len(s) > 0
         /\ Head(s) = s[1]
         /\ \A k \in DOMAIN Tail(s) : k + 1 \in DOMAIN s /\ Tail(s)[k] = s[k + 1]
  OBVIOUS

\* Moving the first of t to the end of s moves nothing in the two together.
LEMMA ShiftFacts ==
  ASSUME NEW S, NEW s \in Seq(S), NEW t \in Seq(S), t # <<>>
  PROVE  Append(s, Head(t)) \o Tail(t) = s \o t
<1>1. Append(s, Head(t)) \in Seq(S) /\ Tail(t) \in Seq(S) /\ s \o t \in Seq(S)
  OBVIOUS
<1>2. Len(Append(s, Head(t)) \o Tail(t)) = Len(s \o t)
  BY <1>1
<1>3. \A k \in 1..Len(s \o t) : (Append(s, Head(t)) \o Tail(t))[k] = (s \o t)[k]
  OBVIOUS
<1> QED
  BY <1>1, <1>2, <1>3

\* What the messages at a set of positions are.
LEMMA AtFacts ==
  ASSUME NEW c \in Seq(Msg), NEW m \in Nat \ {0}, NEW n \in Nat, n <= Len(c)
  PROVE  /\ At(c, m..n) \in Seq(Msg)
         /\ Len(At(c, m..n)) = IF m > n THEN 0 ELSE n - m + 1
         /\ \A k \in DOMAIN At(c, m..n) : m + k - 1 \in m..n /\ At(c, m..n)[k] = c[m + k - 1]
<1> DEFINE size == IF m > n THEN 0 ELSE n - m + 1
           Nth(k) == CHOOSE j \in m..n : Cardinality({i \in m..n : i <= j}) = k
<1>1. Cardinality(m..n) = size
  BY FS_Interval
<1>2. ASSUME NEW k \in 1..size PROVE Nth(k) = m + k - 1
  <2>1. \A j \in m..n : {i \in m..n : i <= j} = m..j
    OBVIOUS
  <2>2. ASSUME NEW j \in m..n PROVE Cardinality({i \in m..n : i <= j}) = j - m + 1
    <3>1. Cardinality(m..j) = j - m + 1
      BY FS_Interval
    <3> QED
      BY <2>1, <3>1
  <2>3. \A j \in m..n : Cardinality({i \in m..n : i <= j}) = k <=> j = m + k - 1
    BY <2>2
  <2>4. m + k - 1 \in m..n
    BY <1>2
  <2> QED
    BY <2>3, <2>4
<1>3. At(c, m..n) = [k \in 1..size |-> c[Nth(k)]]
  BY <1>1 DEF At
<1> HIDE DEF Nth
<1>4. \A k \in 1..size : m + k - 1 \in m..n /\ At(c, m..n)[k] = c[m + k - 1]
  BY <1>2, <1>3
<1>5. \A k \in 1..size : c[m + k - 1] \in Msg
  BY <1>4
<1>6. At(c, m..n) = [k \in 1..size |-> c[m + k - 1]]
  BY <1>2, <1>3
<1> QED
  BY <1>4, <1>5, <1>6

-----------------------------------------------------------------------------
(* Types, places and the budget.                                            *)

\* The messages and reports of the actions.
LEMMA MessageTypes ==
  /\ SystemPrompt \in Msg /\ UserText \in Msg /\ ReplyText \in Msg
  /\ \A a, b \in Int : CallsOf(a..b) \in Msg
  /\ \A i \in Int : CallsOf({i}) \in Msg
  /\ \A i \in Int, tokens \in Nat : ResultOf(i, tokens) \in Msg
  /\ Progress \in Seq(Rep) /\ Len(Progress) <= 1 /\ \A k \in DOMAIN Progress : Progress[k].type = "progress"
<1>1. ASSUME NEW a \in Int, NEW b \in Int PROVE Cardinality(a..b) \in Nat
  <2>1. Cardinality(a..b) = IF a > b THEN 0 ELSE b - a + 1
    BY FS_Interval
  <2> QED
    BY <2>1
<1>2. \A i \in Int : Cardinality({i}) = 1
  BY FS_Singleton
<1>3. /\ SystemPrompt \in Msg /\ UserText \in Msg /\ ReplyText \in Msg
      /\ \A i \in Int, tokens \in Nat : ResultOf(i, tokens) \in Msg
  BY DEF SystemPrompt, UserText, ReplyText, ResultOf, Message, Msg
<1>4. ASSUME NEW a \in Int, NEW b \in Int PROVE CallsOf(a..b) \in Msg
  <2>1. Cardinality(a..b) \in Nat /\ a..b \in SUBSET Int
    BY <1>1
  <2>2. 2 * Cardinality(a..b) \in Nat
    BY <2>1
  <2> QED
    BY <2>1, <2>2 DEF CallsOf, Message, Msg
<1>5. \A i \in Int : CallsOf({i}) \in Msg
  BY <1>2 DEF CallsOf, Message, Msg
<1>6. /\ Progress \in Seq(Rep) /\ Len(Progress) <= 1
      /\ \A k \in DOMAIN Progress : Progress[k].type = "progress"
  <2>1. PICK r \in Rep : r.type = "progress" /\ (Progress = <<>> \/ Progress = <<r>>)
    <3>1. PlainReport("progress") \in Rep /\ PlainReport("progress").type = "progress"
      BY DEF Rep, PlainReport, Report
    <3> QED
      BY <3>1 DEF Progress
  <2>2. CASE Progress = <<>>
    BY <2>2
  <2>3. CASE Progress = <<r>>
    BY <2>1, <2>3
  <2> QED
    BY <2>1, <2>2, <2>3
<1> QED
  BY <1>3, <1>4, <1>5, <1>6

\* Truncation gives a conversation.
LEMMA TruncatedType ==
  ASSUME NEW c \in Seq(Msg), c # <<>>, Headed(c)
  PROVE  /\ Truncated(c) \in Seq(Msg)
         /\ \/ Truncated(c) = c
            \/ \E m \in 2..Len(c) + 1 :
                 /\ Len(Truncated(c)) = Len(c) - m + 2
                 /\ Truncated(c)[1] = c[1]
                 /\ \A k \in 2..Len(Truncated(c)) :
                      m + k - 2 \in m..Len(c) /\ Truncated(c)[k] = c[m + k - 2]
<1> DEFINE others == {k \in DOMAIN c : ~IsSystem(c[k])}
           last == {k \in others : Cardinality({j \in others : j >= k}) <= KeepLast}
<1>1. CASE TokensUsed(c) <= TokenBudget
  BY <1>1 DEF Truncated
<1>2. CASE ~(TokensUsed(c) <= TokenBudget)
  <2>1. Truncated(c) = At(c, DOMAIN c \ others) \o At(c, last)
    BY <1>2 DEF Truncated
  <2>2. Len(c) \in Nat /\ Len(c) >= 1 /\ DOMAIN c = 1..Len(c)
    OBVIOUS
  <2>3. others = 2..Len(c) /\ DOMAIN c \ others = 1..1
    BY <2>2 DEF IsSystem, Headed
  <2> HIDE DEF others
  <2>4. ASSUME NEW k \in 2..Len(c) PROVE Cardinality({j \in others : j >= k}) = Len(c) - k + 1
    <3>1. {j \in others : j >= k} = k..Len(c)
      BY <2>3
    <3>2. Cardinality(k..Len(c)) = Len(c) - k + 1
      BY <2>2, FS_Interval
    <3> QED
      BY <3>1, <3>2
  <2>5. last = {k \in 2..Len(c) : Len(c) - k + 1 <= KeepLast}
    BY <2>3, <2>4
  <2> HIDE DEF last
  <2>6. KeepLast \in Nat \ {0}
    BY AgentTurnAssumption DEF AgentTurnAssumption
  <2>7. PICK m \in 2..Len(c) + 1 : last = m..Len(c)
    <3>1. CASE KeepLast >= Len(c) - 1
      <4>1. last = 2..Len(c)
        BY <3>1, <2>2, <2>5, <2>6
      <4> QED
        BY <4>1, <2>2
    <3>2. CASE KeepLast < Len(c) - 1
      <4>1. last = (Len(c) - KeepLast + 1)..Len(c)
        <5>1. \A k : k \in last <=> k \in 2..Len(c) /\ Len(c) - k + 1 <= KeepLast
          BY <2>5
        <5>2. \A k \in Int : k \in 2..Len(c) /\ Len(c) - k + 1 <= KeepLast
                               <=> k \in (Len(c) - KeepLast + 1)..Len(c)
          BY <3>2, <2>2, <2>6
        <5>3. \A k : k \in last => k \in Int
          BY <5>1
        <5>4. \A k : k \in (Len(c) - KeepLast + 1)..Len(c) => k \in Int
          OBVIOUS
        <5> QED
          BY <5>1, <5>2, <5>3, <5>4
      <4>2. Len(c) - KeepLast + 1 \in 2..Len(c) + 1
        BY <3>2, <2>2, <2>6
      <4> QED
        BY <4>1, <4>2
    <3> QED
      BY <3>1, <3>2, <2>2, <2>6
  <2>8. At(c, 1..1) = <<c[1]>> /\ c[1] \in Msg
    <3>1. 1 \in Nat \ {0} /\ 1 \in Nat /\ 1 <= Len(c)
      BY <2>2
    <3>2. /\ At(c, 1..1) \in Seq(Msg)
          /\ Len(At(c, 1..1)) = IF 1 > 1 THEN 0 ELSE 1 - 1 + 1
          /\ \A k \in DOMAIN At(c, 1..1) : At(c, 1..1)[k] = c[1 + k - 1]
      BY <3>1, AtFacts
    <3>3. Len(At(c, 1..1)) = 1 /\ At(c, 1..1)[1] = c[1]
      BY <3>2
    <3> QED
      BY <2>2, <3>2, <3>3
  <2>9. /\ At(c, m..Len(c)) \in Seq(Msg) /\ Len(At(c, m..Len(c))) = Len(c) - m + 1
        /\ \A k \in DOMAIN At(c, m..Len(c)) :
             m + k - 1 \in m..Len(c) /\ At(c, m..Len(c))[k] = c[m + k - 1]
    <3>1. m \in Nat \ {0} /\ Len(c) \in Nat /\ Len(c) <= Len(c)
      BY <2>2
    <3>2. /\ At(c, m..Len(c)) \in Seq(Msg)
          /\ Len(At(c, m..Len(c))) = IF m > Len(c) THEN 0 ELSE Len(c) - m + 1
          /\ \A k \in DOMAIN At(c, m..Len(c)) :
               m + k - 1 \in m..Len(c) /\ At(c, m..Len(c))[k] = c[m + k - 1]
      BY <3>1, AtFacts
    <3>3. m <= Len(c) + 1
      BY <2>2
    <3>4. Len(At(c, m..Len(c))) = Len(c) - m + 1
      <4>1. CASE m > Len(c)
        BY <3>1, <3>2, <3>3, <4>1
      <4>2. CASE ~(m > Len(c))
        BY <3>1, <3>2, <4>2
      <4> QED
        BY <4>1, <4>2
    <3> QED
      BY <3>2, <3>4
  <2>10. Truncated(c) = At(c, 1..1) \o At(c, m..Len(c))
    BY <2>1, <2>3, <2>7
  <2> DEFINE rest == At(c, m..Len(c))
  <2>11. /\ Truncated(c) \in Seq(Msg) /\ Len(Truncated(c)) = Len(c) - m + 2
         /\ Truncated(c)[1] = c[1]
         /\ \A k \in 2..Len(Truncated(c)) : k - 1 \in DOMAIN rest /\ Truncated(c)[k] = rest[k - 1]
    <3>1. Truncated(c) = <<c[1]>> \o rest /\ rest \in Seq(Msg) /\ Len(rest) = Len(c) - m + 1
      BY <2>8, <2>9, <2>10
    <3> HIDE DEF rest
    <3>2. /\ <<c[1]>> \o rest \in Seq(Msg) /\ Len(<<c[1]>> \o rest) = 1 + Len(rest)
          /\ (<<c[1]>> \o rest)[1] = c[1]
          /\ \A k \in 2..(1 + Len(rest)) :
               k - 1 \in DOMAIN rest /\ (<<c[1]>> \o rest)[k] = rest[k - 1]
      BY <2>8, <3>1, PrefixedFacts
    <3>3. 1 + Len(rest) = Len(c) - m + 2
      BY <2>2, <3>1
    <3> QED
      BY <3>1, <3>2, <3>3
  <2> HIDE DEF rest
  <2>12. \A k \in 2..Len(Truncated(c)) :
           m + k - 2 \in m..Len(c) /\ Truncated(c)[k] = c[m + k - 2]
    <3> TAKE k \in 2..Len(Truncated(c))
    <3>1. k - 1 \in DOMAIN rest /\ Truncated(c)[k] = rest[k - 1]
      BY <2>11
    <3>2. m + (k - 1) - 1 \in m..Len(c) /\ rest[k - 1] = c[m + (k - 1) - 1]
      BY <2>9, <3>1 DEF rest
    <3>3. m + (k - 1) - 1 = m + k - 2
      BY <2>2
    <3> QED
      BY <3>1, <3>2, <3>3
  <2> QED
    BY <2>11, <2>12
<1> QED
  BY <1>1, <1>2

\* The steps keep the types, the places and the budget.
LEMMA TypesStep ==
  ASSUME AgentIInv, [AgentNext]_agentVars
  PROVE  AgentTypes' /\ PlaceInv' /\ BudgetInv'
<1> USE DEF AgentIInv
<1>0. /\ MaxIterations \in Nat /\ RetryLimit \in Nat /\ LargeResult \in Nat /\ MaxCalls \in Nat
      /\ ChannelCap \in Nat /\ MaxRuns \in Nat
  BY AgentTurnAssumption DEF AgentTurnAssumption
<1>1. CASE UNCHANGED agentVars
  BY <1>1 DEF agentVars, AgentTypes, PlaceInv, BudgetInv
<1>2. CASE BeginExecute
  <2>1. <<SystemPrompt, UserText>> \in Seq(Msg)
    BY MessageTypes
  <2>2. AgentTypes'
    BY <1>0, <1>2, <2>1 DEF BeginExecute, Begins, Quiet, AgentTypes
  <2> QED
    BY <1>0, <1>2, <2>2 DEF BeginExecute, Begins, Quiet, PlaceInv, BudgetInv, AgentTypes
<1>3. CASE BeginTurn
  <2>1. session' \in Seq(Msg) /\ conv' \in Seq(Msg)
    BY <1>3, MessageTypes DEF BeginTurn, AgentTypes
  <2>2. AgentTypes'
    BY <1>0, <1>3, <2>1 DEF BeginTurn, Begins, Quiet, AgentTypes
  <2> QED
    BY <1>0, <1>3, <2>2 DEF BeginTurn, Begins, Quiet, PlaceInv, BudgetInv, AgentTypes
<1>4. CASE OutOfBudget
  <2>1. outbox' \in Seq(Rep)
    <3>1. PlainReport("stuck") \in Rep /\ PlainReport("failed") \in Rep
      BY DEF PlainReport, Report, Rep
    <3>2. FailedReports(mode) \in Seq(Rep)
      BY <3>1 DEF FailedReports
    <3> QED
      BY <1>4, <3>1, <3>2 DEF OutOfBudget
  <2>2. AgentTypes'
    BY <1>0, <1>4, <2>1 DEF OutOfBudget, AgentTypes, PlaceInv, BudgetInv
  <2> QED
    <3>1. iteration \in Nat /\ iteration <= MaxIterations /\ iteration + 1 > MaxIterations
          /\ iteration = asks
      BY <1>0, <1>4 DEF OutOfBudget, BudgetSpent, AgentTypes, PlaceInv, BudgetInv
    <3>2. asks = MaxIterations
      BY <1>0, <3>1
    <3>3. PlaceInv'
      BY <1>4 DEF OutOfBudget, Quiet, AgentTypes, PlaceInv
    <3>4. apc' \in {"save", "over"} /\ outcome' = "budget" /\ asks' = asks
      BY <1>4 DEF OutOfBudget
    <3>5. BudgetInv'
      BY <1>0, <3>2, <3>4 DEF BudgetInv
    <3> QED
      BY <2>2, <3>3, <3>5
<1>5. CASE Ask
  <2>1. conv' \in Seq(Msg)
    BY <1>5, TruncatedType DEF Ask, AgentTypes, TalkInv
  <2>2. AgentTypes'
    BY <1>0, <1>5, <2>1 DEF Ask, BudgetSpent, AgentTypes, PlaceInv
  <2> QED
    <3>1. iteration \in Nat /\ iteration + 1 <= MaxIterations /\ iteration = asks
      BY <1>0, <1>5 DEF Ask, BudgetSpent, AgentTypes, PlaceInv
    <3>2. PlaceInv'
      BY <1>5 DEF Ask, Quiet, AgentTypes, PlaceInv
    <3>3. iteration' = iteration + 1 /\ asks' = iteration' /\ outcome' = "none"
      BY <1>5, <3>1 DEF Ask, PlaceInv
    <3>4. BudgetInv'
      BY <1>0, <3>1, <3>3 DEF BudgetInv
    <3> QED
      BY <2>2, <3>2, <3>4
<1>6. CASE ModelErrs \/ RetriesExhausted
  <2>1. AgentTypes'
    BY <1>6 DEF ModelErrs, RetriesExhausted, ModelFails, AgentTypes
  <2>2. /\ apc = "ask" /\ apc' = (IF mode = "turn" THEN "save" ELSE "over")
        /\ UNCHANGED <<mode, iteration, recoveries, asks, todo, outbox, told, taskState>>
        /\ outcome' \in {"error", "exhausted"}
        /\ outcome' = "exhausted" => recoveries >= RetryLimit
    <3>1. CASE ModelErrs
      BY <3>1 DEF ModelErrs, ModelFails
    <3>2. CASE RetriesExhausted
      BY <3>2 DEF RetriesExhausted, ModelFails
    <3> QED
      BY <1>6, <3>1, <3>2
  <2>3. PlaceInv'
    BY <2>2 DEF PlaceInv
  <2>4. recoveries >= RetryLimit => recoveries = RetryLimit
    BY <1>0 DEF AgentTypes
  <2>5. BudgetInv'
    BY <2>2, <2>4 DEF BudgetInv
  <2> QED
    BY <2>1, <2>3, <2>5
<1>7. CASE Recover
  <2>1. conv' \in Seq(Msg) /\ outbox' \in Seq(Rep) /\ recoveries' \in 0..RetryLimit
    <3>1. recoveries' \in 0..RetryLimit /\ -recoveries' \in Int
      BY <1>0, <1>7 DEF Recover, AgentTypes
    <3>2. RecoveryMessages(-recoveries') \in Seq(Msg)
      BY <3>1, MessageTypes DEF RecoveryMessages
    <3>3. Report("bad_call", recoveries' < RetryLimit) \in Rep
      BY DEF Report, Rep
    <3> QED
      BY <1>7, <3>1, <3>2, <3>3 DEF Recover, AgentTypes
  <2>2. AgentTypes'
    BY <1>7, <2>1 DEF Recover, AgentTypes
  <2> QED
    BY <1>0, <1>7, <2>2 DEF Recover, AgentTypes, PlaceInv, BudgetInv
<1>8. ASSUME NEW n \in 1..MaxCalls, ModelCallsTools(n) PROVE AgentTypes' /\ PlaceInv' /\ BudgetInv'
  <2>1. CallsOf(nextCall..(nextCall + n - 1)) \in Msg
    BY <1>0, MessageTypes DEF AgentTypes
  <2>2. conv' \in Seq(Msg)
    BY <1>8, <2>1 DEF ModelCallsTools, AgentTypes
  <2>3. todo' \in Seq(Nat) /\ nextCall' \in Nat \ {0}
    BY <1>0, <1>8 DEF ModelCallsTools, AgentTypes
  <2>4. outbox' \in Seq(Rep)
    BY <1>8, MessageTypes DEF ModelCallsTools
  <2>5. AgentTypes'
    BY <1>8, <2>2, <2>3, <2>4 DEF ModelCallsTools, AgentTypes
  <2> QED
    BY <1>8, <2>5 DEF ModelCallsTools, AgentTypes, PlaceInv, BudgetInv
<1>9. ASSUME NEW tokens \in {1, LargeResult}, NEW failed \in BOOLEAN, RunTool(tokens, failed)
      PROVE  AgentTypes' /\ PlaceInv' /\ BudgetInv'
  <2>1. tokens \in Nat
    BY <1>0
  <2>2. Head(todo) \in Nat /\ Tail(todo) \in Seq(Nat)
    BY <1>9, TailFacts DEF RunTool, AgentTypes
  <2>3. ResultOf(Head(todo), tokens) \in Msg
    BY <2>1, <2>2, MessageTypes
  <2>4. conv' \in Seq(Msg) /\ todo' \in Seq(Nat)
    BY <1>9, <2>2, <2>3 DEF RunTool, AgentTypes
  <2>5. outbox' \in Seq(Rep)
    <3> DEFINE r == Report("tool_failure", TRUE)
    <3>1. r \in Rep
      BY DEF Report, Rep
    <3>2. outbox' = <<r>> \/ outbox' = <<>>
      BY <1>9 DEF RunTool
    <3> HIDE DEF r
    <3>3. <<r>> \in Seq(Rep) /\ <<>> \in Seq(Rep)
      BY <3>1
    <3> QED
      BY <3>2, <3>3
  <2>6. AgentTypes'
    BY <1>9, <2>4, <2>5 DEF RunTool, AgentTypes
  <2> QED
    BY <1>9, <2>6 DEF RunTool, AgentTypes, PlaceInv, BudgetInv
<1>10. CASE ToolsDone
  BY <1>10 DEF ToolsDone, AgentTypes, PlaceInv, BudgetInv
<1>11. CASE ModelAnswers
  <2>1. outbox' \in Seq(Rep)
    <3>1. PlainReport("completed") \in Rep
      BY DEF PlainReport, Report, Rep
    <3> QED
      BY <1>11, <3>1, MessageTypes DEF ModelAnswers
  <2>2. conv' \in Seq(Msg)
    BY <1>11, MessageTypes DEF ModelAnswers, AgentTypes
  <2>3. AgentTypes'
    BY <1>11, <2>1, <2>2 DEF ModelAnswers, AgentTypes
  <2> QED
    BY <1>11, <2>3 DEF ModelAnswers, AgentTypes, PlaceInv, BudgetInv
<1>12. CASE SaveTurn
  <2>1. outbox' \in Seq(Rep)
    <3>1. PlainReport("failed") \in Rep
      BY DEF PlainReport, Report, Rep
    <3> QED
      BY <1>12, <3>1 DEF SaveTurn
  <2>2. AgentTypes'
    BY <1>12, <2>1 DEF SaveTurn, AgentTypes
  <2> QED
    BY <1>12, <2>2 DEF SaveTurn, AgentTypes, PlaceInv, BudgetInv
<1>13. CASE SendReport
  <2>1. Head(outbox) \in Rep /\ Tail(outbox) \in Seq(Rep)
    BY <1>13, TailFacts DEF SendReport, AgentTypes
  <2>2. channel' \in Seq(Rep) /\ told' \in Seq(Rep) /\ outbox' \in Seq(Rep)
    BY <1>13, <2>1 DEF SendReport, AgentTypes
  <2>3. Len(channel') <= ChannelCap
    BY <1>0, <1>13, <2>1, AppendFacts DEF SendReport, HasRoom, AgentTypes
  <2>4. AgentTypes'
    BY <1>13, <2>2, <2>3 DEF SendReport, AgentTypes
  <2> QED
    BY <1>13, <2>4 DEF SendReport, AgentTypes, PlaceInv, BudgetInv
<1>14. CASE ReceiveReport
  <2>1. channel' \in Seq(Rep) /\ Len(channel') <= ChannelCap
    BY <1>0, <1>14, TailFacts DEF ReceiveReport, AgentTypes
  <2>2. AgentTypes'
    BY <1>14, <2>1 DEF ReceiveReport, AgentTypes
  <2> QED
    BY <1>14, <2>2 DEF ReceiveReport, AgentTypes, PlaceInv, BudgetInv
<1> QED
  BY <1>1, <1>2, <1>3, <1>4, <1>5, <1>6, <1>7, <1>8, <1>9, <1>10, <1>11, <1>12, <1>13, <1>14
     DEF AgentNext, Loop

-----------------------------------------------------------------------------
(* The reports.                                                             *)

\* What reports added to a sequence of reports change in its retries and its ends.
LEMMA ReportsAdded ==
  ASSUME NEW s \in Seq(Rep), NEW t \in Seq(Rep)
  PROVE  /\ RetriesOf(t) = {} => /\ RetriesOf(s \o t) = RetriesOf(s)
                                 /\ \A k \in RetriesOf(s) : (s \o t)[k] = s[k]
         /\ FinalsOf(t) = {} => FinalsOf(s \o t) = FinalsOf(s)
<1> DEFINE st == s \o t
<1>1. /\ st \in Seq(Rep) /\ Len(st) = Len(s) + Len(t) /\ Len(s) \in Nat /\ Len(t) \in Nat
      /\ DOMAIN st = 1..(Len(s) + Len(t)) /\ DOMAIN s = 1..Len(s) /\ DOMAIN t = 1..Len(t)
      /\ \A k \in DOMAIN s : st[k] = s[k]
      /\ \A k \in (Len(s) + 1)..(Len(s) + Len(t)) : st[k] = t[k - Len(s)]
  BY ConcatFacts
<1> HIDE DEF st
<1>2. \A k \in DOMAIN st : k \in DOMAIN s \/ (k - Len(s) \in DOMAIN t /\ st[k] = t[k - Len(s)])
  BY <1>1
<1>3. \A k \in DOMAIN s : k \in DOMAIN st
  BY <1>1
<1>4. ASSUME RetriesOf(t) = {}
      PROVE  RetriesOf(st) = RetriesOf(s) /\ \A k \in RetriesOf(s) : st[k] = s[k]
  BY <1>1, <1>2, <1>3, <1>4 DEF RetriesOf
<1>5. ASSUME FinalsOf(t) = {} PROVE FinalsOf(st) = FinalsOf(s)
  BY <1>1, <1>2, <1>3, <1>5 DEF FinalsOf
<1> QED
  BY <1>4, <1>5 DEF st

\* What one more report at the end changes.
LEMMA ReportAppended ==
  ASSUME NEW s \in Seq(Rep), NEW r \in Rep
  PROVE  /\ RetriesOf(s \o <<r>>)
              = RetriesOf(s) \cup (IF r.type = "bad_call" THEN {Len(s) + 1} ELSE {})
         /\ FinalsOf(s \o <<r>>)
              = FinalsOf(s) \cup (IF r.type \in {"completed", "failed"} THEN {Len(s) + 1} ELSE {})
         /\ Len(s \o <<r>>) = Len(s) + 1 /\ (s \o <<r>>)[Len(s) + 1] = r
         /\ \A k \in 1..Len(s) : (s \o <<r>>)[k] = s[k]
         /\ Len(s) \in Nat /\ DOMAIN s = 1..Len(s) /\ s \o <<r>> \in Seq(Rep)
<1> DEFINE st == s \o <<r>>
<1>1. /\ st \in Seq(Rep) /\ Len(st) = Len(s) + 1 /\ Len(s) \in Nat
      /\ DOMAIN s = 1..Len(s) /\ DOMAIN st = 1..(Len(s) + 1)
      /\ \A k \in 1..Len(s) : st[k] = s[k]
  OBVIOUS
<1>2. st[Len(s) + 1] = r
  OBVIOUS
<1> HIDE DEF st
<1>3. RetriesOf(st) = RetriesOf(s) \cup (IF r.type = "bad_call" THEN {Len(s) + 1} ELSE {})
  BY <1>1, <1>2 DEF RetriesOf
<1>4. FinalsOf(st)
        = FinalsOf(s) \cup (IF r.type \in {"completed", "failed"} THEN {Len(s) + 1} ELSE {})
  BY <1>1, <1>2 DEF FinalsOf
<1> QED
  BY <1>1, <1>2, <1>3, <1>4 DEF st

\* What a turn without reports under way says is added to what it has said.
LEMMA QuietReports ==
  ASSUME AgentTypes, outbox = <<>>, told' = told
  PROVE  AllReports = told /\ AllReports' = AllReports \o outbox'
  BY DEF AgentTypes, AllReports

\* A retry is reported once.
LEMMA RetryStep ==
  ASSUME AgentIInv, [AgentNext]_agentVars
  PROVE  RetryInv'
<1> USE DEF AgentIInv
<1> DEFINE Counted == /\ Cardinality(RetriesOf(AllReports)) = recoveries
                      /\ \A k \in RetriesOf(AllReports) :
                           ~AllReports[k].eligible <=>
                              recoveries = RetryLimit /\ \A j \in RetriesOf(AllReports) : j <= k
<1>0. /\ AgentTypes' /\ AllReports \in Seq(Rep) /\ outbox \in Seq(Rep) /\ told \in Seq(Rep)
      /\ RetryLimit \in Nat
  <2>1. AgentTypes'
    BY TypesStep
  <2> QED
    BY <2>1, AgentTurnAssumption DEF AgentTypes, AllReports, AgentTurnAssumption
<1>1. ASSUME outbox = <<>>, told' = told, recoveries' = recoveries, RetriesOf(outbox') = {}
      PROVE  RetryInv'
  <2>1. AllReports' = AllReports \o outbox' /\ outbox' \in Seq(Rep)
    BY <1>0, <1>1, QuietReports DEF AgentTypes
  <2>2. /\ RetriesOf(AllReports') = RetriesOf(AllReports)
        /\ \A k \in RetriesOf(AllReports) : AllReports'[k] = AllReports[k]
    BY <1>0, <1>1, <2>1, ReportsAdded
  <2> QED
    BY <1>1, <2>2 DEF RetryInv
<1>2. ASSUME AllReports' = AllReports, recoveries' = recoveries,
             apc' # "think" => RetriesOf(outbox') = {}
      PROVE  RetryInv'
  BY <1>2 DEF RetryInv
<1>3. RetriesOf(<<>>) = {} /\ Cardinality({}) = 0
  BY FS_EmptySet DEF RetriesOf
<1>4. CASE BeginExecute \/ BeginTurn
  <2>1. AllReports' = <<>> /\ recoveries' = 0 /\ outbox' = <<>>
    BY <1>4 DEF BeginExecute, BeginTurn, Begins, Quiet, AllReports
  <2> QED
    BY <1>3, <2>1 DEF RetryInv, RetriesOf
<1>5. CASE OutOfBudget
  <2>1. outbox = <<>> /\ told' = told /\ recoveries' = recoveries
    BY <1>5 DEF OutOfBudget, Quiet
  <2>2. \A r : r \in DOMAIN outbox' => outbox'[r].type \in {"stuck", "failed"}
    BY <1>5 DEF OutOfBudget, FailedReports, PlainReport, Report
  <2> QED
    BY <1>1, <2>1, <2>2 DEF RetriesOf
<1>6. CASE Ask \/ ModelErrs \/ RetriesExhausted \/ ToolsDone
  <2>1. outbox = <<>> /\ told' = told /\ recoveries' = recoveries /\ outbox' = outbox
    BY <1>6 DEF Ask, ModelErrs, RetriesExhausted, ModelFails, ToolsDone, Quiet, PlaceInv
  <2> QED
    BY <1>1, <1>3, <2>1
<1>7. CASE Recover
  <2> DEFINE r == Report("bad_call", recoveries' < RetryLimit)
             n == Len(AllReports)
  <2>1. /\ outbox = <<>> /\ told' = told /\ recoveries' = recoveries + 1 /\ outbox' = <<r>>
        /\ recoveries \in Nat /\ recoveries < RetryLimit /\ apc' = "think"
    BY <1>7 DEF Recover, PlaceInv, AgentTypes
  <2>2. r \in Rep /\ r.type = "bad_call" /\ r.eligible = (recoveries + 1 < RetryLimit)
    BY <2>1 DEF Report, Rep
  <2>3. AllReports' = AllReports \o <<r>>
    BY <2>1, QuietReports
  <2> HIDE DEF r
  <2>4. /\ RetriesOf(AllReports') = RetriesOf(AllReports) \cup {n + 1}
        /\ AllReports'[n + 1] = r /\ n \in Nat /\ DOMAIN AllReports = 1..n
        /\ \A k \in 1..n : AllReports'[k] = AllReports[k]
    BY <1>0, <2>2, <2>3, ReportAppended
  <2>5. RetriesOf(AllReports) \subseteq 1..n
    BY <2>4 DEF RetriesOf
  <2> HIDE DEF n
  <2>6. Cardinality(RetriesOf(AllReports')) = recoveries'
    <3>1. IsFiniteSet(RetriesOf(AllReports)) /\ n + 1 \notin RetriesOf(AllReports)
      <4>1. IsFiniteSet(1..n)
        BY <2>4, FS_Interval
      <4> QED
        BY <2>4, <2>5, <4>1, FS_Subset
    <3>2. Cardinality(RetriesOf(AllReports) \cup {n + 1}) = Cardinality(RetriesOf(AllReports)) + 1
      BY <3>1, FS_AddElement
    <3> QED
      BY <2>1, <2>4, <3>2 DEF RetryInv
  <2>7. \A k \in RetriesOf(AllReports) : AllReports[k].eligible /\ k <= n
    BY <2>1, <2>4, <2>5, <1>0 DEF RetryInv
  <2>8. ASSUME NEW k \in RetriesOf(AllReports')
        PROVE  ~AllReports'[k].eligible <=>
                 recoveries' = RetryLimit /\ \A j \in RetriesOf(AllReports') : j <= k
    <3>1. CASE k = n + 1
      <4>1. recoveries' \in Nat /\ recoveries' <= RetryLimit /\ recoveries' = recoveries + 1
        BY <1>0, <2>1 DEF AgentTypes
      <4>2. ~(recoveries' < RetryLimit) <=> recoveries' = RetryLimit
        BY <1>0, <4>1
      <4>3. \A j \in RetriesOf(AllReports') : j <= k
        BY <2>4, <2>5, <3>1
      <4>4. AllReports'[k].eligible = (recoveries' < RetryLimit)
        BY <2>2, <2>4, <3>1, <4>1
      <4> QED
        BY <4>2, <4>3, <4>4
    <3>2. CASE k \in RetriesOf(AllReports)
      <4>1. AllReports'[k].eligible /\ k \in 1..n
        BY <2>4, <2>5, <2>7, <3>2
      <4>2. ~(n + 1 <= k) /\ n + 1 \in RetriesOf(AllReports')
        BY <2>4, <4>1
      <4> QED
        BY <4>1, <4>2
    <3> QED
      BY <2>4, <3>1, <3>2
  <2> QED
    BY <2>1, <2>6, <2>8 DEF RetryInv
<1>8. ASSUME NEW n \in 1..MaxCalls, ModelCallsTools(n) PROVE RetryInv'
  <2>1. outbox = <<>> /\ told' = told /\ recoveries' = recoveries /\ outbox' = Progress
    BY <1>8 DEF ModelCallsTools, PlaceInv
  <2>2. RetriesOf(Progress) = {}
    BY MessageTypes DEF RetriesOf
  <2> QED
    BY <1>1, <2>1, <2>2
<1>9. ASSUME NEW tokens \in {1, LargeResult}, NEW failed \in BOOLEAN, RunTool(tokens, failed)
      PROVE  RetryInv'
  <2>1. outbox = <<>> /\ told' = told /\ recoveries' = recoveries
    BY <1>9 DEF RunTool, Quiet
  <2>2. \A r \in DOMAIN outbox' : outbox'[r].type = "tool_failure"
    BY <1>9 DEF RunTool, Report
  <2> QED
    BY <1>1, <2>1, <2>2 DEF RetriesOf
<1>10. CASE ModelAnswers
  <2>1. outbox = <<>> /\ told' = told /\ recoveries' = recoveries
    BY <1>10 DEF ModelAnswers, PlaceInv
  <2>2. \A r \in DOMAIN outbox' : outbox'[r].type \in {"progress", "completed"}
    <3>1. /\ PlainReport("completed") \in Rep /\ PlainReport("completed").type = "completed"
          /\ outbox' = Append(Progress, PlainReport("completed"))
      BY <1>10 DEF ModelAnswers, PlainReport, Report, Rep
    <3> QED
      BY <3>1, MessageTypes, AppendFacts
  <2> QED
    BY <1>1, <2>1, <2>2 DEF RetriesOf
<1>11. CASE SaveTurn
  <2>1. outbox = <<>> /\ told' = told /\ recoveries' = recoveries
    BY <1>11 DEF SaveTurn, Quiet
  <2>2. \A r \in DOMAIN outbox' : outbox'[r].type = "failed"
    BY <1>11 DEF SaveTurn, PlainReport, Report
  <2> QED
    BY <1>1, <2>1, <2>2 DEF RetriesOf
<1>12. CASE SendReport
  <2>1. /\ told' = Append(told, Head(outbox)) /\ outbox' = Tail(outbox) /\ outbox # <<>>
        /\ recoveries' = recoveries /\ apc' = apc
    BY <1>12 DEF SendReport
  <2>2. AllReports' = AllReports
    BY <1>0, <2>1, ShiftFacts DEF AllReports
  <2>3. RetriesOf(outbox) = {} => RetriesOf(outbox') = {}
    BY <1>0, <2>1, TailFacts DEF RetriesOf
  <2> QED
    BY <1>2, <2>1, <2>2, <2>3 DEF RetryInv
<1>13. CASE ReceiveReport \/ UNCHANGED agentVars
  <2>1. UNCHANGED <<told, outbox, recoveries, apc>>
    BY <1>13 DEF ReceiveReport, agentVars
  <2>2. AllReports' = AllReports
    BY <2>1 DEF AllReports
  <2> QED
    BY <1>2, <2>1, <2>2 DEF RetryInv
<1> QED
  BY <1>4, <1>5, <1>6, <1>7, <1>8, <1>9, <1>10, <1>11, <1>12, <1>13 DEF AgentNext, Loop

\* What is said last, after nothing that tells an end, is the only thing that does.
LEMMA EndTold ==
  ASSUME AgentTypes, FinalsOf(AllReports) = {}, NEW t \in Seq(Rep), FinalsOf(t) = {},
         NEW r \in Rep, r.type \in {"completed", "failed"},
         AllReports' = AllReports \o (t \o <<r>>), taskState' = r.type
  PROVE  EndToldAs(r.type)'
<1> DEFINE st == AllReports \o t
<1>0. AllReports \in Seq(Rep)
  BY DEF AllReports, AgentTypes
<1>1. st \in Seq(Rep) /\ FinalsOf(st) = {}
  <2>1. FinalsOf(st) = FinalsOf(AllReports)
    BY <1>0, ReportsAdded
  <2> QED
    BY <1>0, <2>1
<1>2. AllReports' = st \o <<r>>
  BY <1>0
<1> HIDE DEF st
<1>3. /\ FinalsOf(st \o <<r>>) = FinalsOf(st) \cup {Len(st) + 1}
      /\ Len(st \o <<r>>) = Len(st) + 1 /\ (st \o <<r>>)[Len(st) + 1] = r
  BY <1>1, ReportAppended
<1> QED
  BY <1>1, <1>2, <1>3 DEF EndToldAs

\* The end is told once, and as it was.
LEMMA EndStep ==
  ASSUME AgentIInv, [AgentNext]_agentVars
  PROVE  EndInv'
<1> USE DEF AgentIInv
<1>0. /\ AgentTypes' /\ AllReports \in Seq(Rep) /\ outbox \in Seq(Rep) /\ told \in Seq(Rep)
  <2>1. AgentTypes'
    BY TypesStep
  <2> QED
    BY <2>1 DEF AgentTypes, AllReports
<1>1. ASSUME outbox = <<>>, told' = told, FinalsOf(outbox') = {}
      PROVE  FinalsOf(AllReports') = FinalsOf(AllReports)
  <2>1. AllReports' = AllReports \o outbox' /\ outbox' \in Seq(Rep)
    BY <1>0, <1>1, QuietReports DEF AgentTypes
  <2> QED
    BY <1>0, <1>1, <2>1, ReportsAdded
<1>2. FinalsOf(<<>>) = {} /\ FinalsOf(Progress) = {}
  BY MessageTypes DEF FinalsOf
<1>3. CASE BeginExecute \/ BeginTurn
  <2>1. AllReports' = <<>> /\ apc' = "think"
    BY <1>3 DEF BeginExecute, BeginTurn, Begins, Quiet, AllReports
  <2> QED
    BY <1>2, <2>1 DEF EndInv, FinalsOf
<1>4. CASE OutOfBudget
  <2> DEFINE stuck == PlainReport("stuck")
             failed == PlainReport("failed")
  <2>1. stuck \in Rep /\ stuck.type = "stuck" /\ failed \in Rep /\ failed.type = "failed"
    BY DEF PlainReport, Report, Rep
  <2>2. outbox' = IF mode = "execute" THEN <<stuck>> \o <<failed>> ELSE <<stuck>> \o <<>>
    BY <1>4 DEF OutOfBudget, FailedReports
  <2> HIDE DEF stuck, failed
  <2>3. /\ outbox = <<>> /\ told' = told /\ outcome' = "budget" /\ mode' = mode
        /\ apc = "think" /\ mode \in {"execute", "turn"}
        /\ taskState = "running" /\ FinalsOf(AllReports) = {}
        /\ apc' = (IF mode = "turn" THEN "save" ELSE "over")
        /\ taskState' = IF mode = "turn" THEN taskState ELSE "failed"
    BY <1>4 DEF OutOfBudget, Quiet, AgentTypes, PlaceInv, EndInv
  <2>4. <<stuck>> \in Seq(Rep) /\ FinalsOf(<<stuck>>) = {}
    BY <2>1 DEF FinalsOf
  <2>5. CASE mode = "execute"
    <3>1. AllReports' = AllReports \o (<<stuck>> \o <<failed>>)
      BY <2>2, <2>3, <2>5, QuietReports
    <3>2. EndToldAs(failed.type)'
      BY <2>1, <2>3, <2>4, <2>5, <3>1, EndTold
    <3> QED
      BY <2>1, <2>3, <2>5, <3>2 DEF EndInv, Untold
  <2>6. CASE mode = "turn"
    <3>1. outbox' = <<stuck>>
      BY <2>1, <2>2, <2>6
    <3>2. FinalsOf(AllReports') = {}
      BY <1>1, <2>3, <2>4, <3>1
    <3> QED
      BY <2>3, <2>6, <3>2 DEF EndInv
  <2> QED
    BY <2>3, <2>5, <2>6
<1>5. CASE Ask \/ ToolsDone
  <2>1. /\ outbox = <<>> /\ told' = told /\ outbox' = outbox
        /\ apc \in {"think", "act"} /\ apc' \in {"ask", "think"}
    BY <1>5 DEF Ask, ToolsDone, Quiet
  <2> QED
    BY <1>1, <1>2, <2>1 DEF EndInv
<1>6. CASE ModelErrs \/ RetriesExhausted
  <2>1. /\ outbox = <<>> /\ told' = told /\ outbox' = outbox /\ apc = "ask"
        /\ outcome' \in {"error", "exhausted"} /\ mode' = mode /\ mode \in {"execute", "turn"}
        /\ apc' = (IF mode = "turn" THEN "save" ELSE "over")
        /\ taskState' = taskState /\ taskState = "running"
    BY <1>6 DEF ModelErrs, RetriesExhausted, ModelFails, PlaceInv, AgentTypes
  <2>2. FinalsOf(AllReports') = {}
    BY <1>1, <1>2, <2>1 DEF EndInv
  <2> QED
    BY <2>1, <2>2 DEF EndInv, Untold
<1>7. CASE Recover
  <2>1. outbox = <<>> /\ told' = told /\ apc = "ask" /\ apc' = "think"
    BY <1>7 DEF Recover, PlaceInv
  <2>2. FinalsOf(outbox') = {}
    BY <1>7 DEF Recover, Report, FinalsOf
  <2> QED
    BY <1>1, <2>1, <2>2 DEF EndInv
<1>8. ASSUME NEW n \in 1..MaxCalls, ModelCallsTools(n) PROVE EndInv'
  <2>1. outbox = <<>> /\ told' = told /\ apc = "ask" /\ apc' = "act" /\ outbox' = Progress
    BY <1>8 DEF ModelCallsTools, PlaceInv
  <2> QED
    BY <1>1, <1>2, <2>1 DEF EndInv
<1>9. ASSUME NEW tokens \in {1, LargeResult}, NEW failed \in BOOLEAN, RunTool(tokens, failed)
      PROVE  EndInv'
  <2>1. outbox = <<>> /\ told' = told /\ apc = "act" /\ apc' = "act"
    BY <1>9 DEF RunTool, Quiet
  <2>2. \A r \in DOMAIN outbox' : outbox'[r].type = "tool_failure"
    BY <1>9 DEF RunTool, Report
  <2> QED
    BY <1>1, <2>1, <2>2 DEF EndInv, FinalsOf
<1>10. CASE ModelAnswers
  <2> DEFINE r == PlainReport("completed")
  <2>1. r \in Rep /\ r.type = "completed"
    BY DEF PlainReport, Report, Rep
  <2>2. /\ outbox = <<>> /\ told' = told /\ outcome' = "answer" /\ mode' = mode
        /\ apc = "ask" /\ FinalsOf(AllReports) = {}
        /\ apc' = (IF mode = "turn" THEN "save" ELSE "over")
        /\ taskState' = "completed" /\ outbox' = Append(Progress, r)
    BY <1>10 DEF ModelAnswers, PlaceInv, EndInv
  <2> HIDE DEF r
  <2>3. Append(Progress, r) = Progress \o <<r>>
    BY <2>1, MessageTypes
  <2>4. AllReports' = AllReports \o (Progress \o <<r>>)
    BY <2>2, <2>3, QuietReports
  <2>5. EndToldAs("completed")'
    BY <1>2, <2>1, <2>2, <2>4, MessageTypes, EndTold
  <2> QED
    BY <2>2, <2>5 DEF EndInv, Untold
<1>11. CASE SaveTurn
  <2> DEFINE r == PlainReport("failed")
  <2>1. r \in Rep /\ r.type = "failed"
    BY DEF PlainReport, Report, Rep
  <2>2. /\ outbox = <<>> /\ told' = told /\ outcome' = outcome /\ mode' = mode /\ mode = "turn"
        /\ apc = "save" /\ apc' = "over" /\ session' = conv /\ conv' = conv
        /\ outbox' = (IF outcome = "answer" THEN <<>> ELSE <<r>>)
        /\ taskState' = IF outcome = "answer" THEN taskState ELSE "failed"
    BY <1>11 DEF SaveTurn, Quiet, PlaceInv
  <2> HIDE DEF r
  <2>3. CASE outcome = "answer"
    <3>1. AllReports' = AllReports
      BY <2>2, <2>3 DEF AllReports
    <3>2. EndToldAs("completed")'
      BY <2>2, <2>3, <3>1 DEF EndInv, EndToldAs
    <3> QED
      BY <2>2, <2>3, <3>2 DEF EndInv, Untold
  <2>4. CASE outcome # "answer"
    <3>1. FinalsOf(AllReports) = {}
      BY <2>2, <2>4 DEF EndInv
    <3>2. AllReports' = AllReports \o <<r>>
      BY <2>2, <2>4, QuietReports
    <3>3. AllReports' = AllReports \o (<<>> \o <<r>>)
      BY <2>1, <3>2
    <3>4. EndToldAs("failed")'
      <4>1. <<>> \in Seq(Rep) /\ FinalsOf(<<>>) = {} /\ taskState' = r.type
        BY <1>2, <2>1, <2>2, <2>4
      <4>2. EndToldAs(r.type)'
        BY <2>1, <3>1, <3>3, <4>1, EndTold
      <4> QED
        BY <2>1, <4>2
    <3> QED
      BY <2>2, <2>4, <3>4 DEF EndInv, Untold
  <2> QED
    BY <2>3, <2>4
<1>12. CASE SendReport \/ ReceiveReport \/ UNCHANGED agentVars
  <2>1. UNCHANGED <<apc, mode, outcome, taskState, session, conv>>
    BY <1>12 DEF SendReport, ReceiveReport, agentVars
  <2>2. AllReports' = AllReports
    <3>1. CASE SendReport
      BY <1>0, <3>1, ShiftFacts DEF SendReport, AllReports
    <3>2. CASE ReceiveReport \/ UNCHANGED agentVars
      BY <3>2 DEF ReceiveReport, agentVars, AllReports
    <3> QED
      BY <1>12, <3>1, <3>2
  <2> QED
    BY <2>1, <2>2 DEF EndInv, EndToldAs, Untold
<1> QED
  BY <1>3, <1>4, <1>5, <1>6, <1>7, <1>8, <1>9, <1>10, <1>11, <1>12 DEF AgentNext, Loop

-----------------------------------------------------------------------------
(* The conversation.                                                        *)

\* Two messages are added one after the other.
LEMMA PairAdded ==
  ASSUME NEW c \in Seq(Msg), NEW a \in Msg, NEW b \in Msg
  PROVE  Append(c, a) \in Seq(Msg) /\ c \o <<a, b>> = Append(Append(c, a), b)
<1>1. Append(c, a) \in Seq(Msg) /\ <<a, b>> \in Seq(Msg)
  OBVIOUS
<1>2. c \o <<a, b>> \in Seq(Msg) /\ Append(Append(c, a), b) \in Seq(Msg)
  BY <1>1
<1>3. Len(c \o <<a, b>>) = Len(c) + 2 /\ Len(Append(Append(c, a), b)) = Len(c) + 2
  BY <1>1
<1>4. \A k \in 1..(Len(c) + 2) : (c \o <<a, b>>)[k] = Append(Append(c, a), b)[k]
  BY <1>1
<1> QED
  BY <1>2, <1>3, <1>4

\* A message that is neither calls nor a result.
LEMMA PlainAdded ==
  ASSUME NEW c \in Seq(Msg), AnsweredSoFar(c, <<>>), NEW m \in Msg, m.kind \notin {"calls", "result"}
  PROVE  /\ AnsweredSoFar(Append(c, m), <<>>)
         /\ Asked(c, <<>>) => Asked(Append(c, m), <<>>)
<1> DEFINE d == Append(c, m)
<1>1. /\ d \in Seq(Msg) /\ Len(d) = Len(c) + 1 /\ Len(c) \in Nat
      /\ DOMAIN d = 1..(Len(c) + 1) /\ DOMAIN c = 1..Len(c)
      /\ \A k \in DOMAIN c : d[k] = c[k]
      /\ d[Len(c) + 1] = m
  BY AppendFacts
<1> HIDE DEF d
<1>2. AnsweredSoFar(d, <<>>)
  <2> SUFFICES ASSUME NEW k \in DOMAIN d, d[k].kind = "calls" PROVE Block(d, <<>>, k)
    BY DEF AnsweredSoFar
  <2>1. k \in DOMAIN c /\ d[k] = c[k]
    BY <1>1
  <2>2. PICK f \in Int, n \in Nat \ {0} :
          /\ c[k].calls = f..(f + n - 1)
          /\ k + n <= Len(c) + 0
          /\ \A j \in 1..n : IF k + j <= Len(c)
                             THEN c[k + j].kind = "result" /\ c[k + j].calls = {f + j - 1}
                             ELSE <<>>[k + j - Len(c)] = f + j - 1
    BY <2>1 DEF AnsweredSoFar, Block
  <2>3. \A j \in 1..n : /\ k + j <= Len(c) /\ k + j \in DOMAIN c
                        /\ c[k + j].kind = "result" /\ c[k + j].calls = {f + j - 1}
    BY <1>1, <2>1, <2>2
  <2>4. \A j \in 1..n : k + j <= Len(d) /\ d[k + j].kind = "result" /\ d[k + j].calls = {f + j - 1}
    BY <1>1, <2>1, <2>3
  <2>5. d[k].calls = f..(f + n - 1) /\ k + n <= Len(d) + 0
    BY <1>1, <2>1, <2>2
  <2> QED
    BY <2>4, <2>5 DEF Block
<1>3. ASSUME Asked(c, <<>>) PROVE Asked(d, <<>>)
  <2>1. ASSUME NEW r \in DOMAIN d, d[r].kind = "result"
        PROVE  \E k \in 1..(r - 1) : Covers(d, k, r, d[r].calls)
    <3>1. r \in DOMAIN c /\ d[r] = c[r]
      BY <1>1, <2>1
    <3>2. PICK k \in 1..(r - 1) : Covers(c, k, r, c[r].calls)
      BY <1>3, <2>1, <3>1 DEF Asked
    <3>3. d[k] = c[k]
      BY <1>1, <3>1
    <3> QED
      BY <3>1, <3>2, <3>3 DEF Covers
  <2> QED
    BY <2>1 DEF Asked
<1> QED
  BY <1>2, <1>3 DEF d

\* Calls, all of them still to be answered.
LEMMA CallsAdded ==
  ASSUME NEW c \in Seq(Msg), AnsweredSoFar(c, <<>>), NEW f \in Int, NEW n \in Nat \ {0},
         NEW m \in Msg, m.kind = "calls", m.calls = f..(f + n - 1),
         NEW pending, pending = [k \in 1..n |-> f + k - 1]
  PROVE  /\ AnsweredSoFar(Append(c, m), pending)
         /\ Asked(c, <<>>) => Asked(Append(c, m), pending)
<1> DEFINE d == Append(c, m)
<1>1. /\ d \in Seq(Msg) /\ Len(d) = Len(c) + 1 /\ Len(c) \in Nat
      /\ DOMAIN d = 1..(Len(c) + 1) /\ DOMAIN c = 1..Len(c)
      /\ \A k \in DOMAIN c : d[k] = c[k]
      /\ d[Len(c) + 1] = m
  BY AppendFacts
<1>2. Len(pending) = n /\ DOMAIN pending = 1..n /\ pending \in Seq(Int)
  OBVIOUS
<1> HIDE DEF d
<1>3. AnsweredSoFar(d, pending)
  <2> SUFFICES ASSUME NEW k \in DOMAIN d, d[k].kind = "calls" PROVE Block(d, pending, k)
    BY DEF AnsweredSoFar
  <2>1. CASE k = Len(c) + 1
    <3>1. d[k].calls = f..(f + n - 1) /\ k + n <= Len(d) + Len(pending)
      BY <1>1, <1>2, <2>1
    <3>2. \A j \in 1..n : ~(k + j <= Len(d)) /\ pending[k + j - Len(d)] = f + j - 1
      BY <1>1, <1>2, <2>1
    <3> QED
      BY <3>1, <3>2 DEF Block
  <2>2. CASE k \in DOMAIN c
    <3>1. d[k] = c[k]
      BY <1>1, <2>2
    <3>2. PICK g \in Int, l \in Nat \ {0} :
            /\ c[k].calls = g..(g + l - 1)
            /\ k + l <= Len(c) + 0
            /\ \A j \in 1..l : IF k + j <= Len(c)
                               THEN c[k + j].kind = "result" /\ c[k + j].calls = {g + j - 1}
                               ELSE <<>>[k + j - Len(c)] = g + j - 1
      BY <2>2, <3>1 DEF AnsweredSoFar, Block
    <3>3. \A j \in 1..l : /\ k + j <= Len(c) /\ k + j \in DOMAIN c
                          /\ c[k + j].kind = "result" /\ c[k + j].calls = {g + j - 1}
      <4> TAKE j \in 1..l
      <4>1. k + j <= Len(c) /\ k + j \in DOMAIN c
        BY <1>1, <2>2, <3>2
      <4> QED
        BY <3>2, <4>1
    <3>4. \A j \in 1..l : /\ k + j <= Len(d)
                          /\ d[k + j].kind = "result" /\ d[k + j].calls = {g + j - 1}
      <4> TAKE j \in 1..l
      <4>1. k + j \in DOMAIN c /\ c[k + j].kind = "result" /\ c[k + j].calls = {g + j - 1}
        BY <3>3
      <4>2. d[k + j] = c[k + j] /\ k + j <= Len(d)
        BY <1>1, <4>1
      <4> QED
        BY <4>1, <4>2
    <3>5. d[k].calls = g..(g + l - 1) /\ k + l <= Len(d) + Len(pending)
      BY <1>1, <1>2, <2>2, <3>1, <3>2
    <3> QED
      BY <3>4, <3>5 DEF Block
  <2> QED
    BY <1>1, <2>1, <2>2
<1>4. ASSUME Asked(c, <<>>) PROVE Asked(d, pending)
  <2>1. ASSUME NEW r \in DOMAIN d, d[r].kind = "result"
        PROVE  \E k \in 1..(r - 1) : Covers(d, k, r, d[r].calls)
    <3>1. r \in DOMAIN c /\ d[r] = c[r]
      BY <1>1, <2>1
    <3>2. PICK k \in 1..(r - 1) : Covers(c, k, r, c[r].calls)
      BY <1>4, <2>1, <3>1 DEF Asked
    <3>3. d[k] = c[k]
      BY <1>1, <3>1
    <3> QED
      BY <3>1, <3>2, <3>3 DEF Covers
  <2>2. ASSUME NEW i \in DOMAIN pending
        PROVE  \E k \in DOMAIN d : Covers(d, k, Len(d) + i, {pending[i]})
    <3>1. Cardinality(m.calls) = n
      BY FS_Interval
    <3>2. i \in 1..n /\ pending[i] \in m.calls
      BY <1>2
    <3>3. Len(c) + 1 \in DOMAIN d /\ Len(d) + i <= Len(c) + 1 + n
      BY <1>1, <3>2
    <3> QED
      BY <1>1, <3>1, <3>2, <3>3 DEF Covers
  <2> QED
    BY <2>1, <2>2 DEF Asked
<1> QED
  BY <1>3, <1>4 DEF d

\* The result of the first call that is still to be answered.
LEMMA ResultAdded ==
  ASSUME NEW c \in Seq(Msg), NEW pending \in Seq(Int), pending # <<>>, AnsweredSoFar(c, pending),
         NEW m \in Msg, m.kind = "result", m.calls = {Head(pending)}
  PROVE  /\ AnsweredSoFar(Append(c, m), Tail(pending))
         /\ Asked(c, pending) => Asked(Append(c, m), Tail(pending))
<1> DEFINE d == Append(c, m)
           rest == Tail(pending)
<1>1. /\ d \in Seq(Msg) /\ Len(d) = Len(c) + 1 /\ Len(c) \in Nat
      /\ DOMAIN d = 1..(Len(c) + 1) /\ DOMAIN c = 1..Len(c)
      /\ \A k \in DOMAIN c : d[k] = c[k]
      /\ d[Len(c) + 1] = m
  BY AppendFacts
<1>2. /\ rest \in Seq(Int) /\ Len(rest) = Len(pending) - 1 /\ Len(pending) \in Nat
      /\ Len(pending) > 0 /\ DOMAIN pending = 1..Len(pending) /\ DOMAIN rest = 1..Len(rest)
      /\ Head(pending) = pending[1]
      /\ \A k \in DOMAIN rest : k + 1 \in DOMAIN pending /\ rest[k] = pending[k + 1]
  BY TailFacts
<1> HIDE DEF d, rest
<1>3. AnsweredSoFar(d, rest)
  <2> SUFFICES ASSUME NEW k \in DOMAIN d, d[k].kind = "calls" PROVE Block(d, rest, k)
    BY DEF AnsweredSoFar
  <2>1. k \in DOMAIN c /\ d[k] = c[k]
    BY <1>1
  <2>2. PICK f \in Int, n \in Nat \ {0} :
          /\ c[k].calls = f..(f + n - 1)
          /\ k + n <= Len(c) + Len(pending)
          /\ \A j \in 1..n : IF k + j <= Len(c)
                             THEN c[k + j].kind = "result" /\ c[k + j].calls = {f + j - 1}
                             ELSE pending[k + j - Len(c)] = f + j - 1
    BY <2>1 DEF AnsweredSoFar, Block
  <2>3. d[k].calls = f..(f + n - 1) /\ k + n <= Len(d) + Len(rest)
    BY <1>1, <1>2, <2>1, <2>2
  <2>4. ASSUME NEW j \in 1..n
        PROVE  IF k + j <= Len(d)
               THEN d[k + j].kind = "result" /\ d[k + j].calls = {f + j - 1}
               ELSE rest[k + j - Len(d)] = f + j - 1
    <3>1. CASE k + j <= Len(c)
      <4>1. k + j \in DOMAIN c /\ k + j <= Len(d)
        BY <1>1, <2>1, <3>1
      <4>2. c[k + j].kind = "result" /\ c[k + j].calls = {f + j - 1}
        BY <2>2, <3>1
      <4> QED
        BY <1>1, <4>1, <4>2
    <3>2. CASE k + j = Len(c) + 1
      <4>1. ~(k + j <= Len(c)) /\ k + j - Len(c) = 1 /\ k + j <= Len(d)
        BY <1>1, <2>1, <3>2
      <4>2. pending[1] = f + j - 1
        BY <2>2, <4>1
      <4> QED
        BY <1>1, <1>2, <3>2, <4>1, <4>2
    <3>3. CASE k + j > Len(c) + 1
      <4>1. ~(k + j <= Len(c)) /\ ~(k + j <= Len(d))
        BY <1>1, <2>1, <3>3
      <4>2. pending[k + j - Len(c)] = f + j - 1
        BY <2>2, <4>1
      <4>3. k + j - Len(d) \in DOMAIN rest /\ k + j - Len(d) + 1 = k + j - Len(c)
        <5>1. k \in Nat /\ j \in Nat /\ n \in Nat /\ j <= n
          BY <1>1, <2>1
        <5>2. k + j <= Len(c) + Len(pending)
          BY <1>1, <1>2, <2>2, <5>1
        <5>3. k + j - Len(d) >= 1 /\ k + j - Len(d) <= Len(rest)
          BY <1>1, <1>2, <3>3, <5>1, <5>2
        <5>4. k + j - Len(d) \in Int /\ Len(rest) \in Nat
          BY <1>1, <1>2, <5>1
        <5> QED
          BY <1>1, <1>2, <5>1, <5>3, <5>4
      <4>4. rest[k + j - Len(d)] = pending[k + j - Len(c)]
        BY <1>2, <4>3
      <4> QED
        BY <4>1, <4>2, <4>4
    <3> QED
      BY <1>1, <2>1, <3>1, <3>2, <3>3
  <2> QED
    BY <2>3, <2>4 DEF Block
<1>4. ASSUME Asked(c, pending) PROVE Asked(d, rest)
  <2>1. ASSUME NEW r \in DOMAIN d, d[r].kind = "result"
        PROVE  \E k \in 1..(r - 1) : Covers(d, k, r, d[r].calls)
    <3>1. CASE r \in DOMAIN c
      <4>1. PICK k \in 1..(r - 1) : Covers(c, k, r, c[r].calls)
        BY <1>1, <1>4, <2>1, <3>1 DEF Asked
      <4>2. d[k] = c[k] /\ d[r] = c[r]
        BY <1>1, <3>1
      <4> QED
        BY <4>1, <4>2 DEF Covers
    <3>2. CASE r = Len(c) + 1
      <4>1. 1 \in DOMAIN pending
        BY <1>2
      <4>2. PICK k \in DOMAIN c : Covers(c, k, Len(c) + 1, {pending[1]})
        BY <1>4, <4>1 DEF Asked
      <4>3. k \in 1..(r - 1) /\ d[k] = c[k] /\ d[r].calls = {pending[1]}
        BY <1>1, <1>2, <3>2
      <4> QED
        BY <3>2, <4>2, <4>3 DEF Covers
    <3> QED
      BY <1>1, <3>1, <3>2
  <2>2. ASSUME NEW i \in DOMAIN rest
        PROVE  \E k \in DOMAIN d : Covers(d, k, Len(d) + i, {rest[i]})
    <3>1. i + 1 \in DOMAIN pending /\ rest[i] = pending[i + 1]
      BY <1>2
    <3>2. PICK k \in DOMAIN c : Covers(c, k, Len(c) + (i + 1), {pending[i + 1]})
      BY <1>4, <3>1 DEF Asked
    <3>3. k \in DOMAIN d /\ d[k] = c[k] /\ Len(d) + i = Len(c) + (i + 1)
      <4>1. i \in Int
        BY <1>2
      <4>2. Len(d) + i = Len(c) + (i + 1)
        BY <1>1, <4>1
      <4>3. k \in DOMAIN d /\ d[k] = c[k]
        BY <1>1, <3>2
      <4> QED
        BY <4>2, <4>3
    <3> QED
      BY <3>1, <3>2, <3>3 DEF Covers
  <2> QED
    BY <2>1, <2>2 DEF Asked
<1> QED
  BY <1>3, <1>4 DEF d, rest

\* A message that is not the system's, after others.
LEMMA HeadedAdded ==
  ASSUME NEW c \in Seq(Msg), c # <<>>, Headed(c), NEW m \in Msg, m.kind # "system"
  PROVE  Headed(Append(c, m)) /\ Append(c, m) # <<>>
  BY AppendFacts DEF Headed

\* A message whose calls have been given out.
LEMMA GivenAdded ==
  ASSUME NEW c \in Seq(Msg), NEW next, Given(c, next), NEW m \in Msg,
         m.calls \subseteq (-RetryLimit)..(next - 1)
  PROVE  Given(Append(c, m), next)
  BY AppendFacts DEF Given

\* Truncation leaves no calls without their results.
LEMMA TruncatedKeeps ==
  ASSUME NEW c \in Seq(Msg), c # <<>>, Headed(c), AnsweredSoFar(c, <<>>), NEW next, Given(c, next)
  PROVE  /\ Truncated(c) # <<>> /\ Headed(Truncated(c)) /\ AnsweredSoFar(Truncated(c), <<>>)
         /\ Given(Truncated(c), next)
<1> DEFINE d == Truncated(c)
<1>1. d \in Seq(Msg)
  BY TruncatedType
<1>2. CASE d = c
  BY <1>2
<1>3. CASE d # c
  <2>1. PICK m \in 2..Len(c) + 1 :
          /\ Len(d) = Len(c) - m + 2
          /\ d[1] = c[1]
          /\ \A k \in 2..Len(d) : m + k - 2 \in m..Len(c) /\ d[k] = c[m + k - 2]
    BY <1>3, TruncatedType
  <2> HIDE DEF d
  <2>2. /\ Len(c) \in Nat /\ Len(c) >= 1 /\ DOMAIN c = 1..Len(c) /\ m \in Nat /\ m >= 2
        /\ Len(d) \in Nat /\ Len(d) >= 1 /\ DOMAIN d = 1..Len(d)
    BY <1>1, <2>1
  <2>3. \A k \in DOMAIN d :
          (k = 1 /\ d[k] = c[1]) \/ (k # 1 /\ m + k - 2 \in 2..Len(c) /\ d[k] = c[m + k - 2])
    <3> TAKE k \in DOMAIN d
    <3>1. CASE k = 1
      BY <2>1, <3>1
    <3>2. CASE k # 1
      <4>1. k \in 2..Len(d)
        BY <2>2, <3>2
      <4>2. m + k - 2 \in m..Len(c) /\ d[k] = c[m + k - 2]
        BY <2>1, <4>1
      <4>3. m + k - 2 \in 2..Len(c)
        BY <2>2, <4>1, <4>2
      <4> QED
        BY <3>2, <4>2, <4>3
    <3> QED
      BY <3>1, <3>2
  <2>4. d # <<>> /\ Headed(d)
    <3>1. \A k \in DOMAIN d : d[k].kind = "system" <=> k = 1
      <4> TAKE k \in DOMAIN d
      <4>1. CASE k = 1
        BY <2>2, <2>3, <4>1 DEF Headed
      <4>2. CASE k # 1
        <5>1. m + k - 2 \in DOMAIN c /\ m + k - 2 # 1 /\ d[k] = c[m + k - 2]
          BY <2>2, <2>3, <4>2
        <5> QED
          BY <4>2, <5>1 DEF Headed
      <4> QED
        BY <4>1, <4>2
    <3> QED
      BY <2>2, <3>1 DEF Headed
  <2>5. Given(d, next)
    BY <2>2, <2>3 DEF Given
  <2>6. ASSUME NEW k \in DOMAIN d, d[k].kind = "calls" PROVE Block(d, <<>>, k)
    <3> DEFINE i == m + k - 2
    <3>1. k # 1 /\ i \in DOMAIN c /\ d[k] = c[i] /\ k \in 2..Len(d)
      BY <2>2, <2>3, <2>6 DEF Headed
    <3>2. PICK f \in Int, n \in Nat \ {0} :
            /\ c[i].calls = f..(f + n - 1)
            /\ i + n <= Len(c) + 0
            /\ \A j \in 1..n : IF i + j <= Len(c)
                               THEN c[i + j].kind = "result" /\ c[i + j].calls = {f + j - 1}
                               ELSE <<>>[i + j - Len(c)] = f + j - 1
      BY <2>6, <3>1 DEF AnsweredSoFar, Block
    <3>3. k + n <= Len(d) + 0
      <4>1. i + n <= Len(c) + 0
        BY <3>2
      <4>2. Len(d) = Len(c) - m + 2 /\ k \in Nat /\ n \in Nat
        BY <2>1, <2>2, <3>1
      <4> QED
        BY <2>2, <4>1, <4>2
    <3>4. ASSUME NEW j \in 1..n
          PROVE  k + j <= Len(d) /\ d[k + j].kind = "result" /\ d[k + j].calls = {f + j - 1}
      <4>1. k \in Nat /\ j \in Nat /\ n \in Nat /\ j <= n /\ j >= 1
        BY <2>2
      <4>2. k + j <= Len(d) /\ k + j \in 2..Len(d) /\ i + j <= Len(c)
        <5>1. k + j <= k + n /\ i + j <= i + n /\ k + j >= 2 /\ i \in Nat
          <6>1. i \in Nat
            BY <2>2, <3>1
          <6>2. k >= 2
            BY <3>1
          <6> HIDE DEF i
          <6> QED
            BY <4>1, <6>1, <6>2
        <5>2. k + j <= Len(d)
          BY <2>2, <3>3, <4>1, <5>1
        <5>3. i + j <= Len(c)
          <6>1. i + n <= Len(c)
            BY <2>2, <3>2
          <6> HIDE DEF i
          <6> QED
            BY <2>2, <4>1, <5>1, <6>1
        <5> QED
          BY <2>2, <4>1, <5>1, <5>2, <5>3
      <4>3. m + (k + j) - 2 = i + j
        BY <2>2, <4>1
      <4>4. d[k + j] = c[i + j]
        BY <2>1, <4>2, <4>3
      <4> QED
        BY <3>2, <4>2, <4>4
    <3> QED
      BY <3>1, <3>2, <3>3, <3>4 DEF Block
  <2> QED
    BY <2>4, <2>5, <2>6 DEF AnsweredSoFar, d
<1> QED
  BY <1>2, <1>3

\* The conversation of a turn and that of its session stay well formed.
LEMMA TalkStep ==
  ASSUME AgentIInv, [AgentNext]_agentVars
  PROVE  TalkInv'
<1> USE DEF AgentIInv
<1>0. /\ conv \in Seq(Msg) /\ session \in Seq(Msg) /\ todo \in Seq(Nat) /\ nextCall \in Nat \ {0}
      /\ mode \in {"execute", "turn"} /\ recoveries \in 0..RetryLimit
      /\ RetryLimit \in Nat /\ LargeResult \in Nat /\ MaxCalls \in Nat
  BY AgentTurnAssumption DEF AgentTypes, AgentTurnAssumption
<1>1. ASSUME UNCHANGED <<conv, session, todo, nextCall, mode>>, apc = "idle" => apc' = "idle"
      PROVE  TalkInv'
  BY <1>1 DEF TalkInv
<1>2. CASE UNCHANGED agentVars \/ OutOfBudget \/ ModelErrs \/ RetriesExhausted \/ ToolsDone
           \/ SendReport \/ ReceiveReport
  <2>1. UNCHANGED <<conv, session, todo, nextCall, mode>> /\ (apc = "idle" => apc' = "idle")
    BY <1>2 DEF agentVars, OutOfBudget, ModelErrs, RetriesExhausted, ModelFails, ToolsDone,
                SendReport, ReceiveReport
  <2> QED
    BY <1>1, <2>1
<1>3. CASE BeginExecute
  <2>1. /\ todo' = todo /\ todo = <<>> /\ session' = session /\ nextCall' = nextCall
        /\ mode' = "execute" /\ conv' = <<SystemPrompt, UserText>>
    BY <1>3 DEF BeginExecute, Begins, PlaceInv
  <2>2. AnsweredSoFar(conv', <<>>) /\ Headed(conv') /\ Given(conv', nextCall) /\ conv' # <<>>
    BY <2>1 DEF AnsweredSoFar, Headed, Given, SystemPrompt, UserText, Message
  <2> QED
    BY <2>1, <2>2 DEF TalkInv
<1>4. CASE BeginTurn
  <2>1. /\ todo' = todo /\ todo = <<>> /\ nextCall' = nextCall /\ mode' = "turn"
        /\ session' = (IF session = <<>> THEN <<SystemPrompt>> ELSE session)
        /\ conv' = Append(session', UserText)
    BY <1>4 DEF BeginTurn, Begins, PlaceInv
  <2>2. /\ session' \in Seq(Msg) /\ session' # <<>>
        /\ AnsweredSoFar(session', <<>>) /\ Asked(session', <<>>) /\ Headed(session')
        /\ Given(session', nextCall)
    <3>1. CASE session = <<>>
      <4>1. session' = <<SystemPrompt>> /\ SystemPrompt \in Msg
        BY <2>1, <3>1, MessageTypes
      <4>2. SystemPrompt.kind = "system" /\ SystemPrompt.calls = {}
        BY DEF SystemPrompt, Message
      <4> QED
        BY <4>1, <4>2 DEF AnsweredSoFar, Asked, Headed, Given
    <3>2. CASE session # <<>>
      BY <1>0, <2>1, <3>2 DEF TalkInv
    <3> QED
      BY <3>1, <3>2
  <2>3. UserText \in Msg /\ UserText.kind = "user" /\ UserText.calls = {}
    BY MessageTypes DEF UserText, Message
  <2>4. AnsweredSoFar(conv', <<>>) /\ Asked(conv', <<>>)
    BY <2>1, <2>2, <2>3, PlainAdded
  <2>5. Headed(conv') /\ conv' # <<>>
    BY <2>1, <2>2, <2>3, HeadedAdded
  <2>6. Given(conv', nextCall)
    BY <2>1, <2>2, <2>3, GivenAdded
  <2> QED
    BY <2>1, <2>2, <2>4, <2>5, <2>6 DEF TalkInv
<1>5. CASE Ask
  <2>1. /\ todo' = todo /\ todo = <<>> /\ session' = session /\ nextCall' = nextCall /\ mode' = mode
        /\ apc = "think" /\ conv' = IF mode = "execute" THEN Truncated(conv) ELSE conv
    BY <1>5 DEF Ask, PlaceInv
  <2>2. CASE mode = "execute"
    <3>1. /\ conv' # <<>> /\ Headed(conv') /\ AnsweredSoFar(conv', <<>>) /\ Given(conv', nextCall)
      BY <1>0, <2>1, <2>2, TruncatedKeeps DEF TalkInv
    <3> QED
      BY <2>1, <2>2, <3>1 DEF TalkInv
  <2>3. CASE mode # "execute"
    BY <2>1, <2>3 DEF TalkInv
  <2> QED
    BY <2>2, <2>3
<1>6. CASE Recover
  <2> DEFINE f == -recoveries'
             called == Append(conv, CallsOf({f}))
  <2>1. /\ todo' = todo /\ todo = <<>> /\ session' = session /\ nextCall' = nextCall /\ mode' = mode
        /\ apc = "ask" /\ recoveries' \in Nat /\ recoveries' <= RetryLimit
        /\ conv' = conv \o <<CallsOf({f}), ResultOf(f, 1)>>
    BY <1>0, <1>6 DEF Recover, RecoveryMessages, PlaceInv
  <2>2. /\ f \in Int /\ {f} \subseteq (-RetryLimit)..(nextCall - 1) /\ {f} = f..(f + 1 - 1)
    <3>1. f \in Int /\ f <= 0 /\ f >= -RetryLimit
      <4>1. recoveries' \in Nat /\ recoveries' <= RetryLimit /\ RetryLimit \in Nat
        BY <1>0, <2>1
      <4>2. \A a, b \in Nat : a <= b => -a \in Int /\ -a <= 0 /\ -a >= -b
        OBVIOUS
      <4> QED
        BY <4>1, <4>2
    <3> HIDE DEF f
    <3>2. f \in (-RetryLimit)..(nextCall - 1)
      BY <1>0, <3>1
    <3>3. f + 1 - 1 = f /\ \A i : i \in f..f <=> i = f
      BY <3>1
    <3> QED
      BY <3>1, <3>2, <3>3
  <2> HIDE DEF f
  <2>3. /\ CallsOf({f}) \in Msg /\ CallsOf({f}).kind = "calls" /\ CallsOf({f}).calls = {f}
        /\ ResultOf(f, 1) \in Msg /\ ResultOf(f, 1).kind = "result" /\ ResultOf(f, 1).calls = {f}
    BY <2>2, MessageTypes DEF CallsOf, ResultOf, Message
  <2>4. called \in Seq(Msg) /\ conv' = Append(called, ResultOf(f, 1))
    BY <1>0, <2>1, <2>3, PairAdded
  <2>5. /\ AnsweredSoFar(conv, <<>>) /\ Headed(conv) /\ Given(conv, nextCall) /\ conv # <<>>
        /\ mode = "turn" => Asked(conv, <<>>)
    BY <2>1 DEF TalkInv
  <2>6. [k \in 1..1 |-> f + k - 1] = <<f>>
    BY <2>2
  <2>7. AnsweredSoFar(called, <<f>>) /\ (mode = "turn" => Asked(called, <<f>>))
    <3>1. 1 \in Nat \ {0}
      OBVIOUS
    <3>2. /\ f \in Int /\ CallsOf({f}) \in Msg /\ CallsOf({f}).kind = "calls"
          /\ CallsOf({f}).calls = f..(f + 1 - 1) /\ <<f>> = [k \in 1..1 |-> f + k - 1]
      BY <2>2, <2>3, <2>6
    <3>3. /\ AnsweredSoFar(called, <<f>>)
          /\ Asked(conv, <<>>) => Asked(called, <<f>>)
      BY <1>0, <2>5, <3>1, <3>2, CallsAdded
    <3> QED
      BY <2>5, <3>3
  <2>8. Headed(called) /\ called # <<>> /\ Given(called, nextCall)
    BY <1>0, <2>2, <2>3, <2>5, HeadedAdded, GivenAdded
  <2> HIDE DEF called
  <2>9. <<f>> \in Seq(Int) /\ <<f>> # <<>> /\ Head(<<f>>) = f /\ Tail(<<f>>) = <<>>
    BY <2>2
  <2>10. AnsweredSoFar(conv', <<>>) /\ (mode = "turn" => Asked(conv', <<>>))
    BY <2>3, <2>4, <2>7, <2>9, ResultAdded
  <2>11. Headed(conv') /\ conv' # <<>> /\ Given(conv', nextCall)
    BY <2>2, <2>3, <2>4, <2>8, HeadedAdded, GivenAdded
  <2> QED
    BY <2>1, <2>10, <2>11 DEF TalkInv
<1>7. ASSUME NEW n \in 1..MaxCalls, ModelCallsTools(n) PROVE TalkInv'
  <2> DEFINE ids == nextCall..(nextCall + n - 1)
             m == CallsOf(ids)
  <2>1. /\ todo = <<>> /\ session' = session /\ nextCall' = nextCall + n /\ mode' = mode
        /\ apc = "ask" /\ conv' = Append(conv, m)
        /\ todo' = [k \in 1..n |-> nextCall + k - 1]
    BY <1>7 DEF ModelCallsTools, PlaceInv
  <2>2. n \in Nat \ {0} /\ nextCall \in Int
    BY <1>0
  <2>3. m \in Msg /\ m.kind = "calls" /\ m.calls = ids
    BY <1>0, <2>2, MessageTypes DEF CallsOf, Message
  <2>4. ids \subseteq (-RetryLimit)..(nextCall' - 1)
    BY <1>0, <2>1, <2>2
  <2> HIDE DEF m
  <2>5. /\ AnsweredSoFar(conv, <<>>) /\ Headed(conv) /\ Given(conv, nextCall) /\ conv # <<>>
        /\ mode = "turn" => Asked(conv, <<>>)
    BY <2>1 DEF TalkInv
  <2>6. AnsweredSoFar(conv', todo') /\ (mode = "turn" => Asked(conv', todo'))
    BY <1>0, <2>1, <2>2, <2>3, <2>5, CallsAdded
  <2>7. \A c : Given(c, nextCall) => Given(c, nextCall')
    BY <1>0, <2>1, <2>2 DEF Given
  <2>8. Given(conv', nextCall')
    BY <1>0, <2>1, <2>3, <2>4, <2>5, <2>7, GivenAdded
  <2>9. Headed(conv') /\ conv' # <<>>
    BY <1>0, <2>1, <2>3, <2>5, HeadedAdded
  <2>10. \A i \in DOMAIN todo' : todo'[i] \in 1..(nextCall' - 1)
    BY <1>0, <2>1, <2>2
  <2> QED
    BY <2>1, <2>6, <2>7, <2>8, <2>9, <2>10 DEF TalkInv
<1>8. ASSUME NEW tokens \in {1, LargeResult}, NEW failed \in BOOLEAN, RunTool(tokens, failed)
      PROVE  TalkInv'
  <2> DEFINE m == ResultOf(Head(todo), tokens)
  <2>1. /\ todo # <<>> /\ session' = session /\ nextCall' = nextCall /\ mode' = mode
        /\ apc = "act" /\ apc' = "act" /\ conv' = Append(conv, m) /\ todo' = Tail(todo)
    BY <1>8 DEF RunTool
  <2>2. tokens \in Nat /\ Head(todo) \in Nat /\ todo \in Seq(Int)
    BY <1>0, <2>1
  <2>3. m \in Msg /\ m.kind = "result" /\ m.calls = {Head(todo)}
    BY <2>2, MessageTypes DEF ResultOf, Message
  <2> HIDE DEF m
  <2>4. AnsweredSoFar(conv', todo') /\ (mode = "turn" => Asked(conv', todo'))
    BY <1>0, <2>1, <2>2, <2>3, ResultAdded DEF TalkInv
  <2>5. Headed(conv') /\ conv' # <<>>
    BY <1>0, <2>1, <2>3, HeadedAdded DEF TalkInv
  <2>6. /\ Head(todo) \in 1..(nextCall - 1)
        /\ \A i \in DOMAIN todo' : todo'[i] \in 1..(nextCall - 1)
    <3>1. \A i \in DOMAIN todo : todo[i] \in 1..(nextCall - 1)
      BY DEF TalkInv
    <3>2. 1 \in DOMAIN todo /\ Head(todo) = todo[1]
      BY <1>0, <2>1, TailFacts
    <3>3. \A i \in DOMAIN Tail(todo) : i + 1 \in DOMAIN todo /\ Tail(todo)[i] = todo[i + 1]
      BY <1>0, <2>1, TailFacts
    <3> QED
      BY <2>1, <3>1, <3>2, <3>3
  <2>7. {Head(todo)} \subseteq (-RetryLimit)..(nextCall - 1)
    BY <1>0, <2>6
  <2>8. Given(conv', nextCall)
    BY <1>0, <2>1, <2>3, <2>7, GivenAdded DEF TalkInv
  <2> QED
    BY <2>1, <2>4, <2>5, <2>6, <2>8 DEF TalkInv
<1>9. CASE ModelAnswers
  <2>1. /\ todo' = todo /\ todo = <<>> /\ session' = session /\ nextCall' = nextCall /\ mode' = mode
        /\ apc = "ask" /\ conv' = IF mode = "turn" THEN Append(conv, ReplyText) ELSE conv
    BY <1>9 DEF ModelAnswers, PlaceInv
  <2>2. ReplyText \in Msg /\ ReplyText.kind = "reply" /\ ReplyText.calls = {}
    BY MessageTypes DEF ReplyText, Message
  <2>3. CASE mode = "turn"
    <3>1. AnsweredSoFar(conv', <<>>) /\ Asked(conv', <<>>)
      BY <1>0, <2>1, <2>2, <2>3, PlainAdded DEF TalkInv
    <3>2. Headed(conv') /\ conv' # <<>>
      BY <1>0, <2>1, <2>2, <2>3, HeadedAdded DEF TalkInv
    <3>3. Given(conv', nextCall)
      BY <1>0, <2>1, <2>2, <2>3, GivenAdded DEF TalkInv
    <3> QED
      BY <2>1, <3>1, <3>2, <3>3 DEF TalkInv
  <2>4. CASE mode # "turn"
    BY <2>1, <2>4 DEF TalkInv
  <2> QED
    BY <2>3, <2>4
<1>10. CASE SaveTurn
  <2>1. /\ todo' = todo /\ todo = <<>> /\ session' = conv /\ nextCall' = nextCall /\ mode' = mode
        /\ apc = "save" /\ conv' = conv /\ mode = "turn"
    BY <1>10 DEF SaveTurn, PlaceInv
  <2> QED
    BY <2>1 DEF TalkInv
<1> QED
  BY <1>2, <1>3, <1>4, <1>5, <1>6, <1>7, <1>8, <1>9, <1>10 DEF AgentNext, Loop

-----------------------------------------------------------------------------
(* The invariant.                                                           *)

\* The invariant holds before the first turn.
LEMMA AgentInitOK == AgentInit => AgentIInv
<1> SUFFICES ASSUME AgentInit PROVE AgentIInv
  OBVIOUS
<1>0. /\ MaxIterations \in Nat /\ RetryLimit \in Nat /\ MaxRuns \in Nat /\ ChannelCap \in Nat
  BY AgentTurnAssumption DEF AgentTurnAssumption
<1>1. AgentTypes
  BY <1>0 DEF AgentInit, AgentTypes
<1>2. PlaceInv /\ BudgetInv
  BY <1>0 DEF AgentInit, PlaceInv, BudgetInv
<1>3. AllReports = <<>>
  BY DEF AgentInit, AllReports
<1>4. RetryInv
  <2>1. RetriesOf(AllReports) = {} /\ RetriesOf(outbox) = {}
    BY <1>3 DEF RetriesOf, AgentInit
  <2>2. Cardinality({}) = 0
    BY FS_EmptySet
  <2> QED
    BY <2>1, <2>2 DEF RetryInv, AgentInit
<1>5. EndInv
  <2>1. FinalsOf(AllReports) = {}
    BY <1>3 DEF FinalsOf
  <2> QED
    BY <2>1 DEF EndInv, AgentInit
<1>6. TalkInv
  BY DEF AgentInit, TalkInv, AnsweredSoFar, Asked, Headed, Given
<1> QED
  BY <1>1, <1>2, <1>4, <1>5, <1>6 DEF AgentIInv

\* The invariant holds of every execution.
THEOREM AgentInvariance == AgentSpec => []AgentIInv
<1>1. AgentIInv /\ [AgentNext]_agentVars => AgentIInv'
  <2> SUFFICES ASSUME AgentIInv, [AgentNext]_agentVars PROVE AgentIInv'
    OBVIOUS
  <2> QED
    BY TypesStep, RetryStep, EndStep, TalkStep DEF AgentIInv
<1> QED
  BY AgentInitOK, <1>1, PTL DEF AgentSpec

\* The calls of a block with nothing to be answered have one result each, right after it.
LEMMA BlockAnswered ==
  ASSUME NEW c \in Seq(Msg), AnsweredSoFar(c, <<>>)
  PROVE  EveryCallAnswered(c)
<1> SUFFICES ASSUME NEW k \in DOMAIN c, c[k].kind = "calls", NEW id \in c[k].calls
             PROVE  Cardinality(ResultsWithin(c, id, k + 1, k + Cardinality(c[k].calls))) = 1
  BY DEF EveryCallAnswered
<1>1. PICK f \in Int, n \in Nat \ {0} :
        /\ c[k].calls = f..(f + n - 1)
        /\ k + n <= Len(c) + 0
        /\ \A j \in 1..n : IF k + j <= Len(c)
                           THEN c[k + j].kind = "result" /\ c[k + j].calls = {f + j - 1}
                           ELSE <<>>[k + j - Len(c)] = f + j - 1
  BY DEF AnsweredSoFar, Block
<1>2. k \in 1..Len(c) /\ Len(c) \in Nat /\ k + n <= Len(c)
  BY <1>1
<1>3. \A j \in 1..n : /\ k + j \in DOMAIN c
                      /\ c[k + j].kind = "result" /\ c[k + j].calls = {f + j - 1}
  BY <1>1, <1>2
<1>4. Cardinality(c[k].calls) = n
  <2>1. Cardinality(f..(f + n - 1)) = n
    BY FS_Interval
  <2> QED
    BY <1>1, <2>1
<1>5. PICK i \in 1..n : id = f + i - 1
  <2>1. id \in f..(f + n - 1)
    BY <1>1
  <2>2. id - f + 1 \in 1..n /\ id = f + (id - f + 1) - 1
    BY <2>1
  <2> QED
    BY <2>2
<1>6. ResultsWithin(c, id, k + 1, k + n) = {k + i}
  <2>1. /\ k + i \in DOMAIN c /\ k + i \in (k + 1)..(k + n)
        /\ c[k + i].kind = "result" /\ c[k + i].calls = {id}
    BY <1>2, <1>3, <1>5
  <2>2. ASSUME NEW q \in DOMAIN c, q \in (k + 1)..(k + n), c[q].calls = {id} PROVE q = k + i
    <3>1. PICK j \in 1..n : q = k + j
      <4>1. q - k \in 1..n /\ k + (q - k) = q
        BY <1>2, <2>2
      <4> QED
        BY <4>1
    <3>2. f + j - 1 = f + i - 1
      BY <1>3, <1>5, <2>2, <3>1
    <3>3. j = i
      BY <3>2
    <3> QED
      BY <3>1, <3>3
  <2> QED
    BY <2>1, <2>2 DEF ResultsWithin
<1> QED
  BY <1>4, <1>6, FS_Singleton

\* The conversation the model is sent, and that of every session, has one result for each
\* call right after it; in a turn no result is without its call.
THEOREM EveryCallHasItsResult == AgentSpec => []CallsAnswered
<1>1. AgentIInv => CallsAnswered
  <2> SUFFICES ASSUME AgentIInv PROVE CallsAnswered
    OBVIOUS
  <2>1. /\ conv \in Seq(Msg) /\ session \in Seq(Msg)
        /\ AnsweredSoFar(conv, todo) /\ AnsweredSoFar(session, <<>>) /\ Asked(session, <<>>)
        /\ mode = "turn" => Asked(conv, todo)
        /\ apc = "ask" => todo = <<>>
    BY DEF AgentIInv, AgentTypes, PlaceInv, TalkInv
  <2>2. EveryCallAnswered(session) /\ (apc = "ask" => EveryCallAnswered(conv))
    BY <2>1, BlockAnswered
  <2>3. EveryResultAsked(session) /\ (mode = "turn" => EveryResultAsked(conv))
    BY <2>1 DEF Asked, Covers, EveryResultAsked
  <2> QED
    BY <2>2, <2>3 DEF CallsAnswered
<1> QED
  BY AgentInvariance, <1>1, PTL

\* The budget and the retries of an execution are exact.
THEOREM BudgetsAreExact == AgentSpec => []BudgetIsExact
<1>1. AgentIInv => BudgetIsExact
  <2> SUFFICES ASSUME AgentIInv PROVE BudgetIsExact
    OBVIOUS
  <2>1. told \in Seq(Rep) /\ outbox \in Seq(Rep) /\ RetryLimit \in Nat
    BY AgentTurnAssumption DEF AgentIInv, AgentTypes, AgentTurnAssumption
  <2>2. ASSUME outcome = "exhausted"
        PROVE  /\ Cardinality(Retries) = RetryLimit
               /\ \A k \in Retries : told[k].eligible <=> \E j \in Retries : j > k
    <3>1. RetriesOf(outbox) = {} /\ recoveries = RetryLimit
      BY <2>2 DEF AgentIInv, PlaceInv, RetryInv, BudgetInv
    <3>2. DOMAIN told = 1..Len(told) /\ Len(told) \in Nat
      BY <2>1
    <3>3. RetriesOf(AllReports) = Retries /\ \A k \in Retries : AllReports[k] = told[k]
      <4>1. /\ DOMAIN AllReports = 1..(Len(told) + Len(outbox))
            /\ DOMAIN outbox = 1..Len(outbox) /\ Len(outbox) \in Nat
            /\ \A k \in DOMAIN told : AllReports[k] = told[k]
            /\ \A k \in (Len(told) + 1)..(Len(told) + Len(outbox)) :
                 AllReports[k] = outbox[k - Len(told)]
        BY <2>1, ConcatFacts DEF AllReports
      <4>2. ASSUME NEW k \in RetriesOf(AllReports) PROVE k \in DOMAIN told
        <5>1. CASE k \in (Len(told) + 1)..(Len(told) + Len(outbox))
          <6>1. k - Len(told) \in DOMAIN outbox
            BY <3>2, <4>1, <5>1
          <6>2. outbox[k - Len(told)].type = "bad_call"
            BY <4>1, <5>1 DEF RetriesOf
          <6> QED
            BY <3>1, <6>1, <6>2 DEF RetriesOf
        <5> QED
          BY <3>2, <4>1, <5>1 DEF RetriesOf
      <4>3. DOMAIN told \subseteq DOMAIN AllReports
        BY <3>2, <4>1
      <4> QED
        BY <4>1, <4>2, <4>3 DEF RetriesOf, Retries
    <3>4. Cardinality(Retries) = RetryLimit
      BY <3>1, <3>3 DEF AgentIInv, RetryInv
    <3>5. \A k \in Retries : ~told[k].eligible <=> \A j \in Retries : j <= k
      BY <3>1, <3>3 DEF AgentIInv, RetryInv
    <3>6. \A k \in Retries, j \in Retries : ~(j <= k) <=> j > k
      BY <3>2 DEF Retries
    <3> QED
      BY <3>4, <3>5, <3>6
  <2> QED
    BY <2>2 DEF AgentIInv, BudgetInv, BudgetIsExact
<1> QED
  BY AgentInvariance, <1>1, PTL

\* A turn that is over has told its end, once and last, after its conversation was saved.
THEOREM EndsAreTold == AgentSpec => []EndIsTold
<1>1. AgentIInv => EndIsTold
  <2> SUFFICES ASSUME AgentIInv PROVE EndIsTold
    OBVIOUS
  <2>1. told \in Seq(Rep) /\ outbox \in Seq(Rep)
    BY DEF AgentIInv, AgentTypes
  <2>2. EndInv
    BY DEF AgentIInv
  <2>3. FinalReports = FinalsOf(told) /\ \A s : Last(s) = s[Len(s)]
    BY DEF FinalReports, FinalsOf, Last
  <2>4. ASSUME apc = "over", Quiet
        PROVE  /\ ~Untold => /\ FinalReports = {Len(told)}
                             /\ (Last(told).type = "completed") = (outcome = "answer")
                             /\ taskState = Last(told).type
               /\ Untold => FinalReports = {} /\ taskState = "running"
    <3>1. AllReports = told
      BY <2>1, <2>4 DEF AllReports, Quiet
    <3> QED
      BY <2>2, <2>3, <2>4, <3>1 DEF EndInv, EndToldAs
  <2>5. ASSUME mode = "turn", FinalReports # {}, Last(told).type = "failed"
        PROVE  session = conv
    <3>1. \A k \in DOMAIN told : k \in DOMAIN AllReports /\ AllReports[k] = told[k]
      BY <2>1, ConcatFacts DEF AllReports
    <3>2. FinalsOf(AllReports) # {}
      BY <2>5, <3>1 DEF FinalReports, FinalsOf
    <3>3. CASE apc = "over"
      BY <2>2, <2>5, <3>3 DEF EndInv
    <3>4. CASE apc = "save"
      <4>1. EndToldAs("completed") /\ outcome = "answer"
        BY <2>2, <3>2, <3>4 DEF EndInv
      <4>2. Len(told) \in DOMAIN told
        <5>1. PICK k \in DOMAIN told : TRUE
          BY <2>5 DEF FinalReports
        <5> QED
          BY <2>1, <5>1
      <4>3. told[Len(told)].type = "failed" /\ AllReports[Len(told)].type = "failed"
        BY <2>3, <2>5, <3>1, <4>2
      <4>4. Len(told) \in FinalsOf(AllReports)
        BY <3>1, <4>2, <4>3 DEF FinalsOf
      <4>5. Len(told) = Len(AllReports)
        BY <4>1, <4>4 DEF EndToldAs
      <4> QED
        BY <4>1, <4>3, <4>5 DEF EndToldAs
    <3>5. CASE apc \in {"idle", "think", "ask", "act"}
      BY <2>2, <3>2, <3>5 DEF EndInv
    <3> QED
      BY <3>3, <3>4, <3>5 DEF AgentIInv, AgentTypes
  <2> QED
    BY <2>4, <2>5 DEF EndIsTold, Untold
<1> QED
  BY AgentInvariance, <1>1, PTL

\* Every variable of the loop keeps its type.
THEOREM AgentTypeCorrect == AgentSpec => []AgentTypeOK
<1>1. AgentIInv => AgentTypeOK
  <2> SUFFICES ASSUME AgentIInv PROVE AgentTypeOK
    OBVIOUS
  <2>1. \A c \in {conv, session} : \A k \in DOMAIN c : MessageOK(c[k])
    <3>1. \A c \in Seq(Msg) : Given(c, nextCall) => \A k \in DOMAIN c : MessageOK(c[k])
      <4> TAKE c \in Seq(Msg)
      <4> SUFFICES ASSUME Given(c, nextCall), NEW k \in DOMAIN c PROVE MessageOK(c[k])
        OBVIOUS
      <4>1. c[k] \in Msg /\ c[k].calls \subseteq (-RetryLimit)..(nextCall - 1)
        BY DEF Given
      <4> QED
        BY <4>1 DEF Msg, MessageOK
    <3> QED
      BY <3>1 DEF AgentIInv, AgentTypes, TalkInv
  <2> QED
    BY <2>1 DEF AgentIInv, AgentTypes, AgentTypeOK
<1> QED
  BY AgentInvariance, <1>1, PTL
==============================================================================

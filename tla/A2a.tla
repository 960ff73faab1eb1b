--------------------------------- MODULE A2a ---------------------------------
(***************************************************************************)
(* The A2A layer: task records, the handlers that create, follow and cancel *)
(* tasks, the channel to the orchestrator, and the reports that come back.  *)
(* Each handler takes the locks one after the other, never across a step.   *)
(*                                                                          *)
(* The orchestrator's side is external: it takes requests in order and      *)
(* reports on any task it has taken, one report at a time; it may stop      *)
(* listening, and a submission then fails. A stream is the client that      *)
(* reads it, and reads at once: lag is left out.                            *)
(***************************************************************************)
EXTENDS Naturals, Sequences, FiniteSets

CONSTANTS
  HttpClients,  \* one request each, numbered in the order they are handled
  A2aIds,       \* ids of new tasks
  ChannelRoom,  \* capacity of the channel to the orchestrator
  MaxReports    \* bound: reports

ASSUME A2aAssumption == HttpClients \subseteq Nat /\ {ChannelRoom, MaxReports} \subseteq Nat

VARIABLES
  record,      \* the status of each record, "absent" without one
  subscribers, \* the streams of each task
  submitted,   \* the channel
  listening,   \* its other end is open
  refused,     \* the clients whose submission failed
  taken,       \* tasks the orchestrator has heard of
  notifying,   \* the report between its update of the record and its event, or NoReport
  reports,
  what, about, hsteps,\* of each client: the handler, the task, the steps left
  heard,       \* the last status told to each stream
  reported,    \* history: the status of the last report on each task
  cancelled    \* history: the tasks whose status a cancellation set after that

a2aVars == <<record, subscribers, submitted, taken, notifying, reports, what, about, hsteps, heard,
             reported, cancelled, listening, refused>>

NoReport == <<0, "none">>
Ends == {"completed", "failed"}

A2aReports == {"progress", "input_required", "tool_failure_eligible", "tool_failure", "stuck",
                "policy_denied", "completed", "failed"}

\* map_report_to_a2a.
StatusOf(type) ==
  CASE type \in {"progress", "tool_failure_eligible"} -> "working"
    [] type \in {"input_required", "policy_denied"} -> "input_required"
    [] type = "completed" -> "completed"
    [] type \in {"failed", "stuck", "tool_failure"} -> "failed"

A2aInit ==
  /\ record = [i \in A2aIds |-> "absent"] /\ subscribers = [i \in A2aIds |-> {}]
  /\ submitted = <<>> /\ taken = {} /\ notifying = NoReport /\ reports = 0
  /\ what = [c \in HttpClients |-> "none"] /\ about = [c \in HttpClients |-> 0]
  /\ hsteps = [c \in HttpClients |-> <<>>] /\ heard = [c \in HttpClients |-> "none"]
  /\ reported = [i \in A2aIds |-> "none"] /\ cancelled = {}
  /\ listening = TRUE /\ refused = {}

Handles(c, kind, i) ==
  /\ what[c] = "none" /\ \A d \in HttpClients : d < c => what[d] # "none"
  /\ what' = [what EXCEPT ![c] = kind] /\ about' = [about EXCEPT ![c] = i]
WillDo(c, steps) == hsteps' = [hsteps EXCEPT ![c] = steps]
Does(c, step) ==
  /\ hsteps[c] # <<>> /\ Head(hsteps[c]) = step
  /\ WillDo(c, Tail(hsteps[c]))

\* Mutant of AfterLookup: the stream is opened once the request is submitted.
SubmitsFirst(kind) ==
  CASE kind = "send" -> <<"submit">> [] kind = "stream" -> <<"submit", "subscribe">>
    [] kind = "subscribe" -> <<"subscribe">> [] kind = "cancel" -> <<"set", "notify">>

\* What a handler does when it has its task, one lock or channel at a time.
AfterLookup(kind) ==
  CASE kind = "send" -> <<"submit">> [] kind = "stream" -> <<"subscribe", "submit">>
    [] kind = "subscribe" -> <<"subscribe">> [] kind = "cancel" -> <<"set", "notify">>

CreateTask(c, kind, i) ==
  /\ kind \in {"send", "stream"} /\ record[i] = "absent"
  /\ Handles(c, kind, i) /\ WillDo(c, AfterLookup(kind))
  /\ record' = [record EXCEPT ![i] = "working"]
  /\ UNCHANGED <<subscribers, submitted, taken, notifying, reports, heard, reported, cancelled,
                 listening, refused>>

\* get_task, and for a cancellation the look at the end; CONFLICT answers at once.
FindTask(c, kind, i) ==
  /\ record[i] # "absent"
  /\ Handles(c, kind, i)
  /\ WillDo(c, IF kind = "cancel" /\ record[i] \in Ends THEN <<>> ELSE AfterLookup(kind))
  /\ UNCHANGED <<record, subscribers, submitted, taken, notifying, reports, heard, reported,
                 cancelled, listening, refused>>

Subscribe(c) ==
  /\ Does(c, "subscribe")
  /\ subscribers' = [subscribers EXCEPT ![about[c]] = @ \cup {c}]
  /\ UNCHANGED <<record, submitted, taken, notifying, reports, what, about, heard, reported,
                 cancelled, listening, refused>>

Submit(c) ==
  /\ listening /\ Len(submitted) < ChannelRoom
  /\ Does(c, "submit")
  /\ submitted' = Append(submitted, about[c])
  /\ UNCHANGED <<record, subscribers, taken, notifying, reports, what, about, heard, reported,
                 cancelled, listening, refused>>

\* The answer is an error: the task stays, the stream that was opened is dropped.
SubmitFails(c) ==
  /\ ~listening
  /\ Does(c, "submit")
  /\ refused' = refused \cup {c}
  /\ subscribers' = [subscribers EXCEPT ![about[c]] = @ \ {c}]
  /\ UNCHANGED <<record, submitted, taken, notifying, reports, what, about, heard, reported,
                 cancelled, listening>>

\* set_task_status, with no second look.
CancelSets(c) ==
  /\ Does(c, "set")
  /\ record' = [record EXCEPT ![about[c]] = "failed"]
  /\ cancelled' = cancelled \cup {about[c]}
  /\ UNCHANGED <<subscribers, submitted, taken, notifying, reports, what, about, heard, reported,
                 listening, refused>>

Tell(i, status) == heard' = [c \in HttpClients |-> IF c \in subscribers[i] THEN status ELSE heard[c]]

\* notify_done: the subscribers stay, and may hear of the task again.
CancelNotifies(c) ==
  /\ Does(c, "notify")
  /\ Tell(about[c], "done")
  /\ UNCHANGED <<record, subscribers, submitted, taken, notifying, reports, what, about, reported,
                 cancelled, listening, refused>>

OrchestratorTakes ==
  /\ submitted # <<>>
  /\ taken' = taken \cup {Head(submitted)}
  /\ submitted' = Tail(submitted)
  /\ UNCHANGED <<record, subscribers, notifying, reports, what, about, hsteps, heard, reported,
                 cancelled, listening, refused>>

\* What the channel holds goes with it.
OrchestratorLeaves ==
  /\ listening /\ listening' = FALSE
  /\ submitted' = <<>>
  /\ UNCHANGED <<record, subscribers, taken, notifying, reports, what, about, hsteps, heard,
                 reported, cancelled, refused>>

\* update_from_report: the record under its lock, whatever its status, then the event.
ReportUpdates(i, type) ==
  /\ i \in taken /\ notifying = NoReport /\ reports < MaxReports
  /\ reports' = reports + 1
  /\ record' = [record EXCEPT ![i] = StatusOf(type)]
  /\ notifying' = <<i, StatusOf(type)>>
  /\ reported' = [reported EXCEPT ![i] = StatusOf(type)]
  /\ cancelled' = cancelled \ {i}
  /\ UNCHANGED <<subscribers, submitted, taken, what, about, hsteps, heard, listening, refused>>

ReportNotifies ==
  /\ notifying # NoReport
  /\ Tell(notifying[1], notifying[2])
  /\ notifying' = NoReport
  /\ UNCHANGED <<record, subscribers, submitted, taken, reports, what, about, hsteps, reported,
                 cancelled, listening, refused>>

A2aNext ==
  \/ \E c \in HttpClients :
       \/ \E i \in A2aIds : \/ \E kind \in {"send", "stream"} : CreateTask(c, kind, i)
                            \/ \E kind \in {"send", "stream", "subscribe", "cancel"} :
                                 FindTask(c, kind, i)
       \/ Subscribe(c) \/ Submit(c) \/ SubmitFails(c) \/ CancelSets(c) \/ CancelNotifies(c)
  \/ OrchestratorTakes \/ OrchestratorLeaves \/ ReportNotifies
  \/ \E i \in A2aIds, type \in A2aReports : ReportUpdates(i, type)

A2aSpec == A2aInit /\ [][A2aNext]_a2aVars
-----------------------------------------------------------------------------
Statuses == {"working", "input_required"} \cup Ends

A2aTypeOK ==
  /\ record \in [A2aIds -> Statuses \cup {"absent"}]
  /\ heard \in [HttpClients -> Statuses \cup {"none", "done"}]
  /\ reported \in [A2aIds -> Statuses \cup {"none"}]
  /\ \A c \in HttpClients : hsteps[c] # <<>> => what[c] # "none"
  /\ listening \in BOOLEAN /\ refused \subseteq HttpClients

\* The stream of a client that created and submitted its task misses nothing: between reports,
\* what it heard last is the last report's status or the word of a cancellation, and it is
\* what the record says unless a cancellation set the record since. Cancelled tasks come back
\* to life when a report follows: streams hear of that too.
StreamsMirrorRecords ==
  \A c \in HttpClients, i \in A2aIds :
    /\ hsteps[c] = <<>> /\ what[c] = "stream" /\ about[c] = i /\ c \notin refused
    /\ notifying = NoReport
    /\ \A d \in HttpClients : d # c /\ about[d] = i => what[d] \notin {"send", "stream"}
    => /\ heard[c] \in {reported[i], "done"}
       /\ reported[i] # "none" /\ i \notin cancelled => record[i] = reported[i]
       /\ heard[c] = "done" => \E d \in HttpClients : what[d] = "cancel" /\ about[d] = i
==============================================================================

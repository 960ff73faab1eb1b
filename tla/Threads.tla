------------------------------- MODULE Threads -------------------------------
(***************************************************************************)
(* One sub-agent thread: its journal on disk, its session and its entry in  *)
(* the broker's table in memory, and the processes that write them: the     *)
(* delegated run the thread is created for, turns asked over the admin      *)
(* interface (subagent_turn), resurrection and the report worker.           *)
(*                                                                          *)
(* The journal's lock makes an append atomic, and nothing makes a turn so.  *)
(* A write that fails, or a crash, may leave a piece of a line: the next    *)
(* line written is glued to it, and readers skip what they cannot parse.    *)
(* The delegated run is put in the task queue before its thread is put in   *)
(* the table: the worker may have begun it, or ended it, by then.           *)
(* What is left out: pieces of lines in the index of threads, the copy of   *)
(* each report in System0's own thread, and failed writes of the lines that *)
(* mark a change of state, which an action appends together. Reports are    *)
(* sent together where nothing but their order can be told.                 *)
(***************************************************************************)
EXTENDS Naturals, Sequences, SequencesExt, FiniteSets, FiniteSetsExt, Positions

CONSTANTS
  Run,        \* the delegated run of the thread
  Turns,      \* turns asked over the admin interface, which are runs too
  MaxMishaps, \* bound: appends that fail, crashes and asides of turns, together
  MaxRevivals,\* bound: resurrections
  BusyMishaps, BusyRevivals, \* bounds: what is on the way when one of those happens
  BusyTurns,  \* bound: turns under way when another begins, after a mishap
  Fallible,   \* bound: types of the lines whose append may fail
  Reporter,   \* the report worker
  Nobody

ASSUME ThreadsAssumption ==
  /\ Run \notin Turns /\ IsFiniteSet(Turns) /\ {Nobody, Reporter} \cap (Turns \cup {Run}) = {}
  /\ {MaxMishaps, MaxRevivals} \subseteq Nat
  /\ {BusyMishaps, BusyRevivals, BusyTurns} \subseteq Nat

Actors  == Turns \cup {Run}
Writers == Actors \cup {Reporter}

VARIABLES
  file,      \* what the thread's file shows: see EmptyFile
  seqCache,  \* seq_cache of the thread; 0: no entry
  indexed,   \* the index has a line of the thread
  entry,     \* the thread's SubAgentThreadState, or NoEntry
  untabled,   \* the session of a delegated run not yet in the tables; 0: none
  sessions,  \* the conversations of the session store
  tpc, snap, talk, fate, todoLines, \* of each actor: place, what it read of the entry,
             \* conversation, outcome of its turn and lines it has still to append
  inbox,     \* the report channel
  lastReport,\* last_report_by_run, and whether its run's thread was known
  activeRuns, indexedRuns, \* the runs of active_runs_by_run_id and of runs_index
  faults, crashes, revivals, \* appends that failed, crashes, resurrections
  asides,    \* reports of turns before the one of how they end
  disturbed  \* history: turns overlapped or a write went wrong since the session was built

actorVars  == <<tpc, snap, talk, fate, todoLines>>
reportVars == <<inbox, lastReport, activeRuns, indexedRuns>>
fileVars   == <<file, seqCache, indexed>>
boundVars  == <<faults, crashes, revivals, asides>>
threadVars == <<fileVars, entry, untabled, sessions, actorVars, reportVars, boundVars, disturbed>>

\* Of an entry: its session and persisted_message_count. The state it shows is left out.
NoEntry == [session |-> 0, persisted |-> 0]

-----------------------------------------------------------------------------
(* The file. Of its readable lines only the sequence numbers, the messages, *)
(* the reports and the remediations are kept, each in their order.          *)

Line(type, data) == [type |-> type, data |-> data]
Mark == Line("mark", Nobody)            \* thread_created, run_state_changed, error, ...
IndexLine == Line("snapshot", Nobody)   \* goes to the index, not to the thread's file

NoTail == Line("ended", Nobody)
Torn   == Line("torn", Nobody)

\* `tail`: the last line when it has no newline: Torn, or a line complete but for it.
EmptyFile == [seqs |-> <<>>, messages |-> <<>>, reports |-> <<>>, remedies |-> <<>>,
              tail |-> NoTail]

Shows(f, line, seq) ==
  LET Adds(s, type) == IF line.type = type THEN Append(s, line.data) ELSE s
  IN  [f EXCEPT !.seqs = Append(@, seq),
                !.messages = Adds(@, "message"),
                !.reports  = Adds(@, "report"),
                !.remedies = Adds(@, "remedy")]

Ended(f) == f.tail \in {NoTail, Torn}

\* read_thread_events_from_path: what parses, a last line without newline included.
Read(f) == IF Ended(f) THEN f ELSE Shows(f, f.tail.data, f.tail.seq)

\* Mutant of CurrentSeq: the cache only, which a restart empties.
CurrentSeqOfCache(f, cached) == cached

\* current_seq_for_locked: the cache, or the largest number in what can be parsed.
CurrentSeq(f, cached) == IF cached # 0 THEN cached ELSE Max({0} \cup Range(Read(f).seqs))

Outcomes == {"ok", "nothing", "torn", "unended"}

\* append_jsonl_line: open, the JSON text, the newline. What follows a piece of a line, or
\* a line without newline, is glued to it, and neither can be read any more.
Written(f, line, seq, how) ==
  LET glued == f.tail # NoTail
  IN  CASE how = "nothing" -> f
        [] how = "ok" /\ ~glued -> Shows(f, line, seq)
        [] how = "ok" /\ glued -> [f EXCEPT !.tail = NoTail]
        [] how = "unended" /\ ~glued ->
             [f EXCEPT !.tail = [type |-> "unended", data |-> line, seq |-> seq]]
        [] how = "torn" \/ (how = "unended" /\ glued) -> [f EXCEPT !.tail = Torn]

Files == [file |-> file, cache |-> seqCache, indexed |-> indexed]

\* append_event and append_index_snapshot, both under the journal's lock. The cache is
\* moved only by an append that returned Ok.
Put(files, line, how) ==
  IF line = IndexLine THEN [files EXCEPT !.indexed = @ \/ how = "ok"]
  ELSE LET seq == CurrentSeq(files.file, files.cache) + 1
       IN  [files EXCEPT !.file  = Written(@, line, seq, how),
                         !.cache = IF how = "ok" THEN seq ELSE @]

FilesBecome(files) ==
  file' = files.file /\ seqCache' = files.cache /\ indexed' = files.indexed

Appended(line) == FilesBecome(Put(Files, line, "ok"))

\* A line is lost to the thread's file, or glued to a piece of another.
Disturbs(line, how) == line # IndexLine /\ (how # "ok" \/ file.tail # NoTail)

-----------------------------------------------------------------------------
(* Conversations and what the journal keeps of them.                        *)

Said(who, part) == [who |-> who, part |-> part]
SystemText == Said(Nobody, "system")

\* conversation_to_thread_messages: texts, and the results whose call is in the conversation.
Kept(c, k) ==
  \/ c[k].part \in {"user", "reply"}
  \/ c[k].part = "result" /\ \E j \in 1..(k - 1) : c[j] = Said(c[k].who, "call")
Project(c) == At(c, {k \in DOMAIN c : Kept(c, k)})

\* Mutant of Delta: everything the session has said.
DeltaAll(messages, persisted) == messages

\* The messages the journal is thought not to have.
Delta(messages, persisted) == SubSeq(messages, persisted + 1, Len(messages))

IsMessage(l) == l.type = "message"
MessageLine(m) == Line("message", m)
WithoutMessages(todo) == At(todo, {k \in DOMAIN todo : ~IsMessage(todo[k])})

\* reconstruct_subagent_conversation: results come back, their calls do not.
Reconstructed(f) == f.messages

\* load_latest_thread_summaries: the index, or else what the thread's own events say.
HasSummary == indexed \/ Read(file).seqs # <<>>

-----------------------------------------------------------------------------
(* Reports. input_required and policy_denied are sent by no turn.           *)

Asides == {"progress", "tool_failure"}
ReportTypes == Asides \cup {"stuck", "completed", "failed"}

\* After these the run is active no more.
Closing == {"stuck", "completed", "failed", "policy_denied"}

\* How a turn's loop ends: out of budget, with an answer or with an error.
Endings == {"stuck", "completed", "error"}

ReportOf(p, type) == <<p, type>>
NotReported == [type |-> "none", placed |-> FALSE]

\* The thread of a run is looked up in one table, then in the other.
HasContext(p) == p \in activeRuns \cup indexedRuns

\* Mutant of RemedyLines: an answer asks for one too.
RemedyAlways(report) == <<Line("remedy", report)>>

CallForHelp == {"tool_failure", "stuck", "policy_denied", "input_required", "failed"}

\* recommend(): all but progress and an answer are worth a remediation.
RemedyLines(report) == IF report[2] \in CallForHelp THEN <<Line("remedy", report)>> ELSE <<>>

\* What the journal gets of a report: the report, and the remediation if there is one.
ReportLines(report) == <<Line("report", report)>> \o RemedyLines(report)

-----------------------------------------------------------------------------
ThreadsInit ==
  /\ file = EmptyFile /\ seqCache = 0 /\ indexed = FALSE
  /\ entry = NoEntry /\ untabled = 0 /\ sessions = <<>>
  /\ tpc = [p \in Actors |-> "new"] /\ snap = [p \in Actors |-> NoEntry]
  /\ talk = [p \in Actors |-> <<>>] /\ fate = [p \in Actors |-> "none"]
  /\ todoLines = [p \in Writers |-> <<>>]
  /\ inbox = <<>> /\ lastReport = [p \in Actors |-> NotReported]
  /\ activeRuns = {} /\ indexedRuns = {}
  /\ faults = 0 /\ crashes = 0 /\ revivals = 0 /\ asides = 0 /\ disturbed = FALSE

\* An actor is between reading the thread's entry and writing it back.
InTurn(p) == tpc[p] \notin {"new", "done", "gone"}
InTurns == Cardinality({p \in Actors : InTurn(p)})

\* Turns, reports, the one in the report worker's hands included, and a thread not yet in the
\* table, for the bounds.
OnTheWay ==
  InTurns + Len(inbox) + (IF untabled = 0 THEN 0 ELSE 1)
    + (IF todoLines[Reporter] = <<>> THEN 0 ELSE 1)

Goes(p, place) == tpc' = [tpc EXCEPT ![p] = place]
Forgets(p) ==
  /\ snap' = [snap EXCEPT ![p] = NoEntry] /\ talk' = [talk EXCEPT ![p] = <<>>]
  /\ fate' = [fate EXCEPT ![p] = "none"]
WillAppend(p, todo) == todoLines' = [todoLines EXCEPT ![p] = todo]

\* journal_snapshot_and_state: the index, then the event.
MarkAppended == FilesBecome(Put(Put(Files, IndexLine, "ok"), Mark, "ok"))
Marks == MarkAppended /\ disturbed' = (disturbed \/ Disturbs(Mark, "ok"))

\* delegate_to_agent: the thread is journalled, its task queued, then the tables written.
CreateThread ==
  /\ tpc[Run] = "new"
  /\ Goes(Run, "creating")
  /\ WillAppend(Run, <<IndexLine, Mark, MessageLine(Said(Run, "user"))>>)
  /\ snap' = [snap EXCEPT ![Run].persisted = 1]
  /\ UNCHANGED <<fileVars, entry, untabled, sessions, talk, fate, reportVars, boundVars, disturbed>>

\* enqueue_direct, which may refuse.
Enqueues ==
  /\ tpc[Run] = "creating" /\ todoLines[Run] = <<>>
  /\ Goes(Run, "queued")
  /\ sessions' = Append(sessions, <<>>)
  /\ snap' = [snap EXCEPT ![Run].session = Len(sessions')]
  /\ untabled' = Len(sessions')
  /\ UNCHANGED <<fileVars, entry, talk, fate, todoLines, reportVars, boundVars, disturbed>>

IsRefused ==
  /\ tpc[Run] = "creating" /\ todoLines[Run] = <<>>
  /\ Goes(Run, "gone") /\ Forgets(Run)
  /\ UNCHANGED <<fileVars, entry, untabled, sessions, todoLines, reportVars, boundVars, disturbed>>

\* The thread, with a count of 0, and the run, whatever the worker has made of it since. The
\* count of a run already over is lost.
InsertThread ==
  /\ untabled # 0
  /\ entry' = [session |-> untabled, persisted |-> 0]
  /\ untabled' = 0
  /\ activeRuns' = activeRuns \cup {Run} /\ indexedRuns' = indexedRuns \cup {Run}
  /\ disturbed' = (disturbed \/ ~InTurn(Run))
  /\ UNCHANGED <<fileVars, sessions, actorVars, inbox, lastReport, boundVars>>

\* run_delegated_task, in the task worker.
RunBegins ==
  /\ tpc[Run] = "queued"
  /\ Goes(Run, "starting")
  /\ Marks
  /\ UNCHANGED <<entry, untabled, sessions, snap, talk, fate, todoLines, reportVars, boundVars>>

\* The worker finds the breaker open or the task ended: the instruction stays in the journal
\* alone.
RunIsDropped ==
  /\ tpc[Run] = "queued"
  /\ Goes(Run, "gone") /\ Forgets(Run)
  /\ disturbed' = TRUE
  /\ UNCHANGED <<fileVars, entry, untabled, sessions, todoLines, reportVars, boundVars>>

\* subagent_turn reads the entry, and keeps what it read to the end.
TurnReads(t) ==
  /\ tpc[t] = "new"
  /\ faults + crashes + asides > 0 => InTurns <= BusyTurns
  /\ IF entry = NoEntry THEN Goes(t, "gone") /\ UNCHANGED <<snap, activeRuns, disturbed>>
     ELSE /\ Goes(t, "starting")
          /\ snap' = [snap EXCEPT ![t] = entry]
          /\ activeRuns' = activeRuns \cup {t}
          /\ disturbed' = (disturbed \/ (InTurns > 0))
  /\ UNCHANGED <<fileVars, entry, untabled, sessions, talk, fate, todoLines, inbox, lastReport,
                 indexedRuns, boundVars>>

\* What a turn reports before the save: asides, then that it is stuck or has an answer. An
\* error is reported after the save only.
Reported(p, before, end) ==
  LET types == before \o IF end = "error" THEN <<>> ELSE <<end>>
  IN  [k \in DOMAIN types |-> ReportOf(p, types[k])]

\* execute_turn: the session is loaded, or created, and the agent talks, a tool used on the
\* way, until it answers or fails: nothing of it is seen by others before the save, but
\* the session created and the reports.
Talks(p, before, end) ==
  /\ tpc[p] = "starting"
  /\ before # <<>> =>
       faults + crashes + asides + Len(before) <= MaxMishaps /\ InTurns + Len(inbox) <= BusyMishaps
  /\ Goes(p, "saving")
  /\ LET saved == sessions[snap[p].session]
         kept  == IF saved = <<>> THEN <<SystemText>> ELSE saved
         turn  == <<Said(p, "user"), Said(p, "call"), Said(p, "result")>>
         said  == IF end = "completed" THEN <<Said(p, "reply")>> ELSE <<>>
     IN  /\ sessions' = [sessions EXCEPT ![snap[p].session] = kept]
         /\ talk' = [talk EXCEPT ![p] = kept \o turn \o said]
  /\ fate' = [fate EXCEPT ![p] = IF end = "completed" THEN "completed" ELSE "failed"]
  /\ inbox' = inbox \o Reported(p, before, end)
  /\ asides' = asides + Len(before)
  /\ UNCHANGED <<fileVars, entry, untabled, snap, todoLines, lastReport, activeRuns, indexedRuns,
                 faults, crashes, revivals, disturbed>>

\* save_conversation overwrites; a failure is reported after it.
Saves(p) ==
  /\ tpc[p] = "saving"
  /\ Goes(p, "collecting")
  /\ sessions' = [sessions EXCEPT ![snap[p].session] = talk[p]]
  /\ talk' = [talk EXCEPT ![p] = <<>>]
  /\ inbox' = IF fate[p] = "failed" THEN Append(inbox, ReportOf(p, "failed")) ELSE inbox
  /\ UNCHANGED <<fileVars, entry, untabled, snap, fate, todoLines, lastReport, activeRuns, indexedRuns,
                 boundVars, disturbed>>

ErrorLines(p) == IF fate[p] = "failed" THEN <<Mark>> ELSE <<>>

\* process_delegation_result and the like of it in subagent_turn: what the session has
\* now is compared with the count read at the start. A failed delegated run leaves its
\* messages to a later turn.
Collects(p) ==
  /\ tpc[p] = "collecting"
  /\ Goes(p, "journalling")
  /\ LET messages == Project(sessions[snap[p].session])
         skipped  == p = Run /\ fate[p] = "failed"
         delta    == IF skipped THEN <<>> ELSE Delta(messages, snap[p].persisted)
     IN  /\ WillAppend(p, [k \in DOMAIN delta |-> MessageLine(delta[k])] \o ErrorLines(p))
         /\ snap' = [snap EXCEPT ![p] = [session |-> 0,
                                       persisted |-> IF skipped THEN @.persisted ELSE Len(messages)]]
  /\ UNCHANGED <<fileVars, entry, untabled, sessions, talk, fate, reportVars, boundVars, disturbed>>

\* record_subagent_turn_result, or the end of run_delegated_task.
Records(p) ==
  /\ tpc[p] = "journalling" /\ todoLines[p] = <<>>
  /\ Goes(p, "done")
  /\ entry' = IF entry = NoEntry THEN entry
              ELSE [entry EXCEPT !.persisted = snap[p].persisted]
  /\ indexedRuns' = indexedRuns \cup {p}
  /\ activeRuns' = IF p = Run THEN activeRuns \ {p} ELSE activeRuns
  /\ Marks
  /\ Forgets(p)
  /\ UNCHANGED <<untabled, sessions, todoLines, inbox, lastReport, boundVars>>

\* One append of an actor, or of the report worker.
Appends(p) ==
  /\ todoLines[p] # <<>>
  /\ Appended(Head(todoLines[p]))
  /\ WillAppend(p, Tail(todoLines[p]))
  /\ disturbed' = (disturbed \/ Disturbs(Head(todoLines[p]), "ok"))
  /\ UNCHANGED <<entry, untabled, sessions, tpc, snap, talk, fate, reportVars, boundVars>>

\* An append fails. A turn gives up, and so does the report worker, on one report (`?`).
\* The delegated run goes on: without the rest of its messages, and with the count of its
\* instruction at 0 if that is what failed.
AppendFails(p, how) ==
  /\ faults + crashes + asides < MaxMishaps /\ OnTheWay <= BusyMishaps
  /\ todoLines[p] # <<>> /\ Head(todoLines[p]).type \in Fallible /\ how # "ok"
  /\ faults' = faults + 1
  /\ LET line == Head(todoLines[p])
         rest == Tail(todoLines[p])
         instruction == p = Run /\ tpc[p] = "creating" /\ IsMessage(line)
     IN  /\ FilesBecome(Put(Files, line, how))
         /\ IF p = Run
            THEN /\ WillAppend(p, IF IsMessage(line) THEN WithoutMessages(rest) ELSE rest)
                 /\ snap' = IF instruction THEN [snap EXCEPT ![p].persisted = 0] ELSE snap
                 /\ UNCHANGED <<tpc, talk, fate>>
            ELSE /\ WillAppend(p, <<>>)
                 /\ IF p = Reporter THEN UNCHANGED <<tpc, snap, talk, fate>>
                    ELSE Goes(p, "gone") /\ Forgets(p)
         /\ disturbed' = (disturbed \/ (Disturbs(line, how) /\ ~(instruction /\ how = "nothing")))
  /\ UNCHANGED <<entry, untabled, sessions, reportVars, crashes, revivals, asides>>

\* thread_resurrect: a new session out of the journal, for a thread alive or not.
Resurrect ==
  /\ revivals < MaxRevivals /\ OnTheWay <= BusyRevivals /\ HasSummary
  /\ revivals' = revivals + 1
  /\ LET revived == Reconstructed(Read(file))
     IN  /\ sessions' = Append(sessions, revived)
         /\ entry' = [session |-> Len(sessions'), persisted |-> Len(Project(revived))]
  /\ MarkAppended
  /\ disturbed' = ((InTurns > 0) \/ Disturbs(Mark, "ok"))
  /\ UNCHANGED <<untabled, actorVars, reportVars, faults, crashes, asides>>

\* ingest_subagent_report: the tables under the lock, then the journal, if the run's thread is
\* known.
Ingests ==
  /\ inbox # <<>> /\ todoLines[Reporter] = <<>>
  /\ inbox' = Tail(inbox)
  /\ LET report == Head(inbox)
         p == report[1]
         type == report[2]
     IN  /\ lastReport' = [lastReport EXCEPT ![p] = [type |-> type, placed |-> HasContext(p)]]
         /\ activeRuns' = IF type \in Closing THEN activeRuns \ {p} ELSE activeRuns
         /\ WillAppend(Reporter, IF HasContext(p) THEN ReportLines(report) ELSE <<>>)
  /\ UNCHANGED <<fileVars, entry, untabled, sessions, tpc, snap, talk, fate, indexedRuns, boundVars,
                 disturbed>>

\* The daemon dies, perhaps in the middle of an append: memory is gone.
CrashesIn(todo, how) ==
  /\ faults + crashes + asides < MaxMishaps /\ OnTheWay <= BusyMishaps
  /\ crashes' = crashes + 1
  /\ how # "ok" /\ (todo = <<>> => how = "nothing")
  /\ LET files == IF todo = <<>> THEN Files ELSE Put(Files, Head(todo), how)
     IN  FilesBecome([files EXCEPT !.cache = 0])
  /\ entry' = NoEntry /\ untabled' = 0
  /\ sessions' = [s \in DOMAIN sessions |-> <<>>]
  /\ tpc' = [p \in Actors |-> IF tpc[p] = "new" THEN "new" ELSE "gone"]
  /\ snap' = [p \in Actors |-> NoEntry] /\ fate' = [p \in Actors |-> "none"]
  /\ talk' = [p \in Actors |-> <<>>] /\ todoLines' = [p \in Writers |-> <<>>]
  /\ inbox' = <<>> /\ lastReport' = [p \in Actors |-> NotReported]
  /\ activeRuns' = {} /\ indexedRuns' = {}
  /\ disturbed' = TRUE
  /\ UNCHANGED <<faults, revivals, asides>>

Crash == \E how \in Outcomes :
  CrashesIn(<<>>, how) \/ \E p \in Writers : CrashesIn(todoLines[p], how)

ThreadsNext ==
  \/ CreateThread \/ Enqueues \/ IsRefused \/ InsertThread \/ RunBegins \/ RunIsDropped
  \/ \E t \in Turns : TurnReads(t)
  \/ \E p \in Actors :
       \/ Saves(p) \/ Collects(p) \/ Records(p)
       \/ \E before \in BoundedSeq(Asides, MaxMishaps), end \in Endings : Talks(p, before, end)
  \/ \E p \in Writers : Appends(p) \/ \E how \in Outcomes : AppendFails(p, how)
  \/ Resurrect \/ Ingests \/ Crash

ThreadsSpec == ThreadsInit /\ [][ThreadsNext]_threadVars

-----------------------------------------------------------------------------
Places == {"new", "creating", "queued", "starting", "saving", "collecting",
           "journalling", "done", "gone"}

ThreadsTypeOK ==
  /\ indexed \in BOOLEAN /\ seqCache \in 0..Len(file.seqs) + 2 * MaxMishaps
  /\ tpc \in [Actors -> Places] /\ fate \in [Actors -> {"none", "completed", "failed"}]
  /\ entry.session \in 0..Len(sessions) /\ entry.persisted \in Nat
  /\ lastReport \in [Actors -> [type : ReportTypes \cup {"none"}, placed : BOOLEAN]]
  /\ untabled \in 0..Len(sessions) /\ activeRuns \cup indexedRuns \subseteq Actors
  /\ disturbed \in BOOLEAN

\* Sequence numbers that can be read grow along the file, across torn lines, glued lines,
\* failed writes and restarts: no two events ever show the same number.
SeqsGrow ==
  LET seqs == Read(file).seqs
  IN  \A j, k \in DOMAIN seqs : j < k => seqs[j] < seqs[k]

JournalledMessages == Read(file).messages
OnlyTexts(ms) == At(ms, {k \in DOMAIN ms : ms[k].part # "result"})

\* While no turn is on the way, none overlapped another and no write went wrong since the
\* session was built, the journal holds exactly the part of the session the entry counts
\* as persisted: nothing is journalled twice and nothing is skipped, over failed runs
\* (journalled by a later turn), failed instruction writes and resurrections. Not so, and
\* counted as disturbed, for a run the worker ended before its thread was in the table,
\* whose count is then written over, and for one the worker dropped.
JournalMirrorsSession ==
  entry # NoEntry /\ ~disturbed /\ InTurns = 0 =>
    OnlyTexts(JournalledMessages)
      = OnlyTexts(SubSeq(Project(sessions[entry.session]), 1, entry.persisted))

\* The last report the journal has of a run.
LastJournalled(p, type) ==
  LET reports == Read(file).reports
  IN  \E k \in DOMAIN reports : /\ reports[k] = ReportOf(p, type)
                                /\ \A j \in DOMAIN reports : reports[j][1] = p => j <= k

CallsForHelp(reports) == At(reports, {k \in DOMAIN reports : reports[k][2] \in CallForHelp})

\* While no write went wrong and the report worker is idle, what memory says of a run last
\* (run_diagnose) is what its journal says last, if the run's thread was known then, and the
\* remediations of the journal are those of its reports that call for one, in their order:
\* over turns that overlap and reports that come before the tables are written. A turn
\* asked over the admin interface has one report that may find no thread: the failure that
\* follows being stuck, which has closed the run; the journal goes on saying stuck.
ReportsReachJournal ==
  faults + crashes = 0 /\ todoLines[Reporter] = <<>> =>
    /\ \A p \in Actors : lastReport[p].placed => LastJournalled(p, lastReport[p].type)
    /\ Read(file).remedies = CallsForHelp(Read(file).reports)
    /\ \A t \in Turns : lastReport[t].type # "none" /\ ~lastReport[t].placed =>
         lastReport[t].type = "failed" /\ LastJournalled(t, "stuck")
==============================================================================

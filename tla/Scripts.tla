------------------------------- MODULE Scripts -------------------------------
(***************************************************************************)
(* SkillToolBroker::call_tool with run_skill_script: a turn calls a skill,  *)
(* by its name or an alias, and waits for its script. The script, and what  *)
(* it starts, are external: it reads its input or does not, writes, closes  *)
(* its input, exits, and may leave descendants that hold its pipes. The     *)
(* pipes hold PipeRoom pieces each.                                         *)
(***************************************************************************)
EXTENDS Naturals, Sequences, SequencesExt

CONSTANTS
  AllowedSkills,  \* of the agent, in the order of its configuration
  Underscored,    \* [skill -> its name with underscores]
  AllowedTools,   \* AgentContext::allowed_tools
  Names,          \* tool names the model asks for
  ScriptSkills,   \* skills with a script; the rest only have documents
  UnsafeSkills,   \* skills that require a sandbox
  PipeRoom, MaxPayload,
  MaxScriptCalls  \* bound: calls

ASSUME ScriptsAssumption ==
  /\ DOMAIN Underscored = Range(AllowedSkills)
  /\ PipeRoom \in Nat \ {0} /\ {MaxPayload, MaxScriptCalls} \subseteq Nat

VARIABLES
  step,     \* where the call is
  skill,    \* the skill it has resolved
  payload,  \* pieces of its input not written yet
  stdin, stdoutPipe, \* pieces in the pipes
  proc,     \* the script: "none", "running" or "exited"
  listens,  \* it has its end of stdin open
  heirs,    \* its descendants hold stdout or stderr
  outcome, calls,
  fits      \* history: the whole input fits the pipe

scriptVars == <<step, skill, payload, stdin, stdoutPipe, proc, listens, heirs, outcome, calls, fits>>
processVars == <<stdin, stdoutPipe, proc, listens, heirs>>

ScriptsInit ==
  /\ step = "idle" /\ skill = "none" /\ payload = 0 /\ stdin = 0 /\ stdoutPipe = 0
  /\ proc = "none" /\ listens = FALSE /\ heirs = FALSE
  /\ outcome = "none" /\ calls = 0 /\ fits = FALSE

\* build_skill_tool_aliases: of the skills an alias stands for the first, and no alias
\* hides a skill.
AliasOf ==
  [a \in {Underscored[s] : s \in Range(AllowedSkills)} \ Range(AllowedSkills) |->
     SelectSeq(AllowedSkills, LAMBDA s : Underscored[s] = a)[1]]

\* The broker has a tool for every skill of the agent.
Tools == Range(AllowedSkills)

\* resolve_tool_id
Usable(name) == name \in AllowedTools \cap Tools
Resolved(name) ==
  IF Usable(name) THEN name
  ELSE IF name \in DOMAIN AliasOf /\ Usable(AliasOf[name]) THEN AliasOf[name] ELSE "none"

EndsCall(result) == step' = "over" /\ outcome' = result

\* call_tool, up to the documents of the skill.
CallTool(name) ==
  /\ step \in {"idle", "over"} /\ calls < MaxScriptCalls /\ calls' = calls + 1
  /\ skill' = Resolved(name)
  /\ IF skill' = "none" THEN EndsCall("not_found") ELSE step' = "documents" /\ outcome' = "none"
  /\ payload' = 0 /\ stdin' = 0 /\ stdoutPipe' = 0
  /\ proc' = "none" /\ listens' = FALSE /\ heirs' = FALSE /\ fits' = FALSE

\* A document is missing, outside the root or not a table; or they are read, and there is
\* no script, or the guard or the path of the script stops it.
ReadsDocuments ==
  /\ step = "documents"
  /\ \/ EndsCall("failed")
     \/ skill \notin ScriptSkills /\ EndsCall("ok")
     \/ skill \in ScriptSkills \ UnsafeSkills /\ step' = "spawning" /\ UNCHANGED outcome
  /\ UNCHANGED <<skill, payload, processVars, calls, fits>>

\* python3 cannot be started, or it can, for a payload of some size.
Spawns ==
  /\ step = "spawning"
  /\ \/ EndsCall("failed") /\ UNCHANGED <<payload, proc, listens, fits>>
     \/ /\ step' = "writing" /\ proc' = "running" /\ listens' = TRUE
        /\ \E size \in 1..MaxPayload : payload' = size /\ fits' = (size <= PipeRoom)
        /\ UNCHANGED outcome
  /\ UNCHANGED <<skill, stdin, stdoutPipe, heirs, calls>>

\* stdin.write_all, which has no timeout: it goes on as the pipe has room, and fails once
\* nobody can read it. The script is then left to itself.
WritesInput ==
  /\ step = "writing" /\ payload > 0
  /\ IF ~listens THEN EndsCall("failed") /\ UNCHANGED <<payload, stdin>>
     ELSE /\ stdin < PipeRoom
          /\ stdin' = stdin + 1 /\ payload' = payload - 1
          /\ UNCHANGED <<step, outcome>>
  /\ UNCHANGED <<skill, stdoutPipe, proc, listens, heirs, calls, fits>>

\* All is written: stdin is closed, the two readers start and the timeout begins.
ClosesStdin ==
  /\ step = "writing" /\ payload = 0 /\ step' = "waiting"
  /\ UNCHANGED <<skill, payload, processVars, outcome, calls, fits>>

\* A reader empties the pipe, as long as the call goes on and after it has returned.
ReaderReads ==
  /\ step \in {"waiting", "joining", "over"} /\ stdoutPipe > 0 /\ stdoutPipe' = 0
  /\ outcome # "failed"
  /\ UNCHANGED <<step, skill, payload, stdin, proc, listens, heirs, outcome, calls, fits>>

WaitEnds ==
  /\ step = "waiting" /\ proc = "exited" /\ step' = "joining"
  /\ UNCHANGED <<skill, payload, processVars, outcome, calls, fits>>

\* Mutant of ScriptTimesOut: the timeout is around the readers, of a script that has exited.
TimesOutJoining ==
  /\ step = "joining" /\ EndsCall("timeout")
  /\ UNCHANGED <<skill, payload, processVars, calls, fits>>

\* The timeout: the script, not its descendants, is killed, and nobody joins the readers.
ScriptTimesOut ==
  /\ step = "waiting" /\ EndsCall("timeout")
  /\ proc' = "exited" /\ listens' = FALSE
  /\ UNCHANGED <<skill, payload, stdin, stdoutPipe, heirs, calls, fits>>

\* Both readers have met the end of their pipes, for which no timeout is set. The status,
\* the encoding or the JSON may be bad.
Joins ==
  /\ step = "joining" /\ stdoutPipe = 0 /\ ~heirs
  /\ \E result \in {"ok", "failed"} : EndsCall(result)
  /\ UNCHANGED <<skill, payload, processVars, calls, fits>>

\* External: the script reads a piece, writes one, closes its input, or exits, perhaps with
\* descendants; those end.
ScriptReads ==
  /\ proc = "running" /\ listens /\ stdin > 0 /\ stdin' = stdin - 1
  /\ UNCHANGED <<step, skill, payload, stdoutPipe, proc, listens, heirs, outcome, calls, fits>>
ScriptWrites ==
  /\ proc = "running" /\ stdoutPipe < PipeRoom /\ stdoutPipe' = stdoutPipe + 1
  /\ UNCHANGED <<step, skill, payload, stdin, proc, listens, heirs, outcome, calls, fits>>
ScriptCloses ==
  /\ proc = "running" /\ listens /\ listens' = FALSE
  /\ UNCHANGED <<step, skill, payload, stdin, stdoutPipe, proc, heirs, outcome, calls, fits>>
ScriptExits ==
  /\ proc = "running" /\ proc' = "exited" /\ listens' = FALSE /\ heirs' \in BOOLEAN
  /\ UNCHANGED <<step, skill, payload, stdin, stdoutPipe, outcome, calls, fits>>
HeirsEnd ==
  /\ heirs /\ heirs' = FALSE
  /\ UNCHANGED <<step, skill, payload, stdin, stdoutPipe, proc, listens, outcome, calls, fits>>

RunnerSteps == ReadsDocuments \/ Spawns \/ WritesInput \/ ClosesStdin \/ WaitEnds \/ Joins

ScriptsNext ==
  \/ \E name \in Names : CallTool(name)
  \/ ReadsDocuments \/ Spawns \/ WritesInput \/ ClosesStdin \/ WaitEnds \/ Joins
  \/ ScriptTimesOut \/ ReaderReads
  \/ ScriptReads \/ ScriptWrites \/ ScriptCloses \/ ScriptExits \/ HeirsEnd

\* The runtime runs what is ready and timeouts elapse. Nothing is assumed of the script.
ScriptsFairness ==
  /\ WF_scriptVars(RunnerSteps) /\ WF_scriptVars(ScriptTimesOut) /\ WF_scriptVars(ReaderReads)

-----------------------------------------------------------------------------
ScriptsTypeOK ==
  /\ step \in {"idle", "documents", "spawning", "writing", "waiting", "joining", "over"}
  /\ skill \in Range(AllowedSkills) \cup {"none"}
  /\ payload \in 0..MaxPayload /\ {stdin, stdoutPipe} \subseteq 0..PipeRoom
  /\ proc \in {"none", "running", "exited"} /\ {listens, heirs, fits} \subseteq BOOLEAN
  /\ outcome \in {"none", "not_found", "ok", "failed", "timeout"} /\ (outcome # "none") = (step = "over")

\* A call whose input fits the pipe gets past writing it whatever the script does, and one
\* whose script runs returns, by the timeout if by nothing else, once no descendant of the
\* script holds its pipes. A larger input waits for a script that reads it, for write_all
\* comes before the timeout: hence the condition that it fits.
ScriptsReturn ==
  /\ (step = "writing" /\ fits) ~> (step \in {"waiting", "over"})
  /\ (step = "waiting") ~> (step \in {"joining", "over"})
  /\ (step = "joining" /\ ~heirs) ~> (step = "over")
==============================================================================

---------------------------- MODULE DaemonControl ----------------------------
(***************************************************************************)
(* `neuroctl daemon start | stop | restart` and the daemon's own life, with *)
(* the three things they share: the pid file, the address of the admin      *)
(* interface and the rows of the task store (here the row of one task).     *)
(*                                                                          *)
(* A command starts the daemon as its child and never waits for it: a       *)
(* daemon that exits is a zombie, alive to `kill -0`, as long as the        *)
(* command that started it runs. Pids are not reused, and a killed process  *)
(* is gone at once. Reading, checking and removing the pid file is one      *)
(* step: the properties speak of commands that do not overlap. The file may *)
(* be impossible to read, write or remove; `kill` itself always runs.       *)
(***************************************************************************)
EXTENDS Naturals, FiniteSets

CONSTANTS
  Commands,  \* invocations of neuroctl, one command each, numbered in their order
  MaxPid,    \* bound: daemon processes
  MaxLost    \* bound: daemons whose pid cannot be written or read

ASSUME DaemonAssumption ==
  Commands \subseteq Nat \ {0} /\ MaxPid \in Nat \ {0} /\ MaxLost \in Nat

Pids == 1..MaxPid
NoPid == 0

VARIABLES
  command, cpc, cpid, \* of each invocation: what was asked, place, the pid it works on
  pidFile,            \* the pid in the file; NoPid: no file
  proc, parent,       \* of each pid: its state, the command that started it
  row,                \* the row of the task
  runs,               \* the daemons that run the task
  lost,               \* history: daemons whose pid could not be written, or not be read
  overlapped          \* history: two commands were under way at once

controlVars == <<command, cpc, cpid, pidFile>>
daemonVars  == <<proc, parent, row, runs>>
pastVars    == <<lost, overlapped>>
lifeVars    == <<controlVars, daemonVars, pastVars>>

Living == {"booting", "ready", "serving", "draining"}
Over(c) == cpc[c] \in {"idle", "done"}
IsAlive(p) == proc[p] \in Living \/ (proc[p] = "exited" /\ ~Over(parent[p]))
OpenRows == {"running", "suspended"}

DaemonInit ==
  /\ command = [c \in Commands |-> "none"] /\ cpc = [c \in Commands |-> "idle"]
  /\ cpid = [c \in Commands |-> NoPid] /\ pidFile = NoPid
  /\ proc = [p \in Pids |-> "none"] /\ parent = [p \in Pids |-> 0]
  /\ row = "none" /\ runs = {} /\ lost = {} /\ overlapped = FALSE

-----------------------------------------------------------------------------
(* The commands.                                                            *)

Steps(c, from, to) == cpc[c] = from /\ cpc' = [cpc EXCEPT ![c] = to]

LosesSightOf(p) == lost' = lost \cup {p} /\ Cardinality(lost') <= MaxLost

\* remove_pid_file, whose error ends the command.
Removes(c, from, to) ==
  \/ Steps(c, from, to) /\ pidFile' = NoPid
  \/ pidFile # NoPid /\ Steps(c, from, "done") /\ UNCHANGED pidFile

\* restart_daemon looks at the status first. Bound: no command after two have overlapped.
Invoke(c, what) ==
  /\ ~overlapped
  /\ \A d \in Commands : d < c => cpc[d] # "idle"
  /\ Steps(c, "idle", CASE what = "start" -> "configuring" [] what = "stop" -> "reading"
                        [] what = "restart" -> "status")
  /\ command' = [command EXCEPT ![c] = what]
  /\ overlapped' = (overlapped \/ \E d \in Commands : ~Over(d))
  /\ UNCHANGED <<cpid, pidFile, daemonVars, lost>>

\* A file that cannot be read is a daemon that does not run.
LooksAtStatus(c) ==
  /\ \/ Steps(c, "status", IF pidFile # NoPid /\ IsAlive(pidFile) THEN "reading" ELSE "configuring")
     \/ Steps(c, "status", "configuring")
  /\ UNCHANGED <<command, cpid, pidFile, daemonVars, pastVars>>

\* The configuration, the provider's keys; and later the binary.
Refuses(c) ==
  /\ Steps(c, "configuring", "done")
  /\ UNCHANGED <<command, cpid, pidFile, daemonVars, pastVars>>
Configures(c) ==
  /\ Steps(c, "configuring", "checking")
  /\ UNCHANGED <<command, cpid, pidFile, daemonVars, pastVars>>

\* Mutant of MustNotStart: the file is enough, whoever it names.
StartsAnyway == FALSE

MustNotStart == pidFile # NoPid /\ IsAlive(pidFile)

\* A file that cannot be read stops nothing: the daemon it names is lost sight of.
ChecksPidFile(c) ==
  /\ \/ /\ MustNotStart /\ Steps(c, "checking", "done")
        /\ UNCHANGED <<pidFile, lost>>
     \/ ~MustNotStart /\ Removes(c, "checking", "spawning") /\ UNCHANGED lost
     \/ /\ pidFile # NoPid /\ Steps(c, "checking", "spawning")
        /\ LosesSightOf(pidFile) /\ UNCHANGED pidFile
  /\ UNCHANGED <<command, cpid, daemonVars, overlapped>>

Spawns(c, p) ==
  /\ proc[p] = "none" /\ \A q \in Pids : proc[q] = "none" => p <= q
  /\ Steps(c, "spawning", "writing")
  /\ cpid' = [cpid EXCEPT ![c] = p]
  /\ proc' = [proc EXCEPT ![p] = "booting"] /\ parent' = [parent EXCEPT ![p] = c]
  /\ UNCHANGED <<command, pidFile, row, runs, pastVars>>

WritesPidFile(c) ==
  /\ Steps(c, "writing", "waiting")
  /\ pidFile' = cpid[c]
  /\ UNCHANGED <<command, cpid, daemonVars, pastVars>>

\* The daemon has been spawned already and lives on; the file is as it was or truncated.
FailsToWrite(c) ==
  /\ Steps(c, "writing", "done")
  /\ pidFile' \in {pidFile, NoPid}
  /\ LosesSightOf(cpid[c])
  /\ UNCHANGED <<command, cpid, daemonVars, overlapped>>

\* The health RPC goes to the address: whichever daemon serves there answers.
IsHealthy(c) ==
  /\ \E p \in Pids : proc[p] = "serving"
  /\ Steps(c, "waiting", "done")
  /\ UNCHANGED <<command, cpid, pidFile, daemonVars, pastVars>>

\* The readiness timeout. The branch that removes the file when the child has exited, here
\* and in the loop before, finds the zombie alive.
GivesUpWaiting(c) ==
  /\ Steps(c, "waiting", "done")
  /\ pidFile' = IF IsAlive(cpid[c]) THEN pidFile ELSE NoPid
  /\ UNCHANGED <<command, cpid, daemonVars, pastVars>>

\* stop_daemon. A command that only stops is done; a restart goes on.
Stopped(c) == IF command[c] = "restart" THEN "configuring" ELSE "done"

ReadsPidFile(c) ==
  /\ \/ /\ pidFile # NoPid /\ IsAlive(pidFile) /\ Steps(c, "reading", "signalling")
        /\ cpid' = [cpid EXCEPT ![c] = pidFile] /\ UNCHANGED pidFile
     \/ /\ ~(pidFile # NoPid /\ IsAlive(pidFile)) /\ Removes(c, "reading", "done")
        /\ UNCHANGED cpid
     \/ Steps(c, "reading", "done") /\ UNCHANGED <<cpid, pidFile>>
  /\ UNCHANGED <<command, daemonVars, pastVars>>

\* SIGTERM: the listener of a daemon that serves starts the shutdown; before that the signal
\* kills, after that the listener is gone and it is ignored.
Signalled(state) ==
  CASE state \in {"booting", "ready"} -> "exited" [] state = "serving" -> "draining"
    [] OTHER -> state

\* Signalling a process that is gone is an error, which leaves the file.
Terminates(c) ==
  LET p == cpid[c]
  IN  /\ Steps(c, "signalling", IF IsAlive(p) THEN "grace" ELSE "done")
      /\ proc' = [proc EXCEPT ![p] = Signalled(@)]
      /\ runs' = IF proc'[p] = "exited" THEN runs \ {p} ELSE runs
      /\ UNCHANGED <<command, cpid, pidFile, parent, row, pastVars>>

SeesItGone(c) ==
  /\ cpc[c] = "grace" /\ ~IsAlive(cpid[c]) /\ Removes(c, "grace", Stopped(c))
  /\ UNCHANGED <<command, cpid, daemonVars, pastVars>>

Kills(c) ==
  LET p == cpid[c]
  IN  /\ Steps(c, "grace", IF IsAlive(p) THEN "killed" ELSE "done")
      /\ proc' = [proc EXCEPT ![p] = "exited"] /\ runs' = runs \ {p}
      /\ UNCHANGED <<command, cpid, pidFile, parent, row, pastVars>>

\* The file is removed, whether the process is gone or (a zombie) not.
EndsStop(c) ==
  /\ Removes(c, "killed", Stopped(c))
  /\ UNCHANGED <<command, cpid, daemonVars, pastVars>>

-----------------------------------------------------------------------------
(* The daemon.                                                              *)

Becomes(p, from, to) == proc[p] = from /\ proc' = [proc EXCEPT ![p] = to]

\* Mutant of Recovers: only what a shutdown suspended is taken up.
RecoversSuspended == row = "suspended"

\* bootstrap_from_store takes up every unfinished row, whoever wrote it.
Recovers == row \in OpenRows

\* System0Runtime::new: the task is requeued and the worker may run it, before the bind.
Boots(p) ==
  /\ Becomes(p, "booting", "ready")
  /\ row' = IF Recovers THEN "running" ELSE row
  /\ runs' = IF Recovers THEN runs \cup {p} ELSE runs
  /\ UNCHANGED <<controlVars, parent, pastVars>>

BootFails(p) ==
  /\ Becomes(p, "booting", "exited")
  /\ UNCHANGED <<controlVars, parent, row, runs, pastVars>>

\* A listener that drains has given the address up.
Binds(p) ==
  LET free == \A q \in Pids : proc[q] # "serving"
  IN  /\ Becomes(p, "ready", IF free THEN "serving" ELSE "exited")
      /\ runs' = IF free THEN runs ELSE runs \ {p}
      /\ UNCHANGED <<controlVars, parent, row, pastVars>>

Accepts(p) ==
  /\ proc[p] = "serving" /\ row = "none"
  /\ row' = "running" /\ runs' = runs \cup {p}
  /\ UNCHANGED <<controlVars, proc, parent, pastVars>>

Finishes(p) ==
  /\ p \in runs
  /\ row' = "ended" /\ runs' = runs \ {p}
  /\ UNCHANGED <<controlVars, proc, parent, pastVars>>

Exits(p) == Becomes(p, "draining", "exited") /\ runs' = runs \ {p}

Drains(p) == p \notin runs /\ Exits(p) /\ UNCHANGED <<controlVars, parent, row, pastVars>>

\* The 30 s of graceful_shutdown elapse, and the task is suspended.
Suspends(p) ==
  /\ p \in runs /\ Exits(p)
  /\ row' = "suspended"
  /\ UNCHANGED <<controlVars, parent, pastVars>>

\* The 30 s around it elapse first, which began earlier.
CutsShort(p) == p \in runs /\ Exits(p) /\ UNCHANGED <<controlVars, parent, row, pastVars>>

Crashes(p) ==
  /\ proc[p] \in Living
  /\ proc' = [proc EXCEPT ![p] = "exited"] /\ runs' = runs \ {p}
  /\ UNCHANGED <<controlVars, parent, row, pastVars>>

Runs(c) ==
  \/ LooksAtStatus(c) \/ Refuses(c) \/ Configures(c) \/ ChecksPidFile(c)
  \/ \E p \in Pids : Spawns(c, p)
  \/ WritesPidFile(c) \/ FailsToWrite(c) \/ IsHealthy(c) \/ GivesUpWaiting(c)
  \/ ReadsPidFile(c) \/ Terminates(c) \/ SeesItGone(c) \/ Kills(c) \/ EndsStop(c)
Lives(p) ==
  \/ Boots(p) \/ BootFails(p) \/ Binds(p) \/ Accepts(p) \/ Finishes(p)
  \/ Drains(p) \/ Suspends(p) \/ CutsShort(p) \/ Crashes(p)

DaemonNext ==
  \/ \E c \in Commands : Runs(c) \/ \E what \in {"start", "stop", "restart"} : Invoke(c, what)
  \/ \E p \in Pids : Lives(p)

DaemonSpec == DaemonInit /\ [][DaemonNext]_lifeVars

-----------------------------------------------------------------------------
DaemonTypeOK ==
  /\ pidFile \in Pids \cup {NoPid} /\ cpid \in [Commands -> Pids \cup {NoPid}]
  /\ proc \in [Pids -> Living \cup {"none", "exited"}] /\ parent \in [Pids -> Commands \cup {0}]
  /\ row \in OpenRows \cup {"none", "ended"} /\ overlapped \in BOOLEAN
  /\ runs \subseteq {p \in Pids : proc[p] \in Living} /\ lost \subseteq Pids

\* Commands given one after the other keep one daemon, through slow boots, exits during the
\* wait, forced stops, restarts, crashes and files that cannot be removed. It is the one the
\* pid file names between commands, and no two daemons run the task, although a daemon takes
\* the store's tasks before it knows that the address is free. The daemons a failed write or
\* read of the file has lost sight of are set apart: the next start adds another to each.
OneDaemonAtATime ==
  ~overlapped =>
    /\ Cardinality({p \in Pids \ lost : proc[p] \in Living}) <= 1
    /\ Cardinality(runs \ lost) <= 1
    /\ (\A c \in Commands : Over(c)) => \A p \in Pids \ lost : proc[p] \in Living => pidFile = p

\* Work survives the daemons: the one that serves runs the task the store holds open,
\* whether the last one suspended it, was cut short before it could, was killed or crashed;
\* as long as no daemon is lost sight of.
WorkSurvivesDaemons ==
  \A p \in Pids :
    proc[p] = "serving" /\ row \in OpenRows /\ ~overlapped /\ lost = {} => p \in runs
==============================================================================

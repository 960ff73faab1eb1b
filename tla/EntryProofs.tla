------------------------------ MODULE EntryProofs ------------------------------
(***************************************************************************)
(* Proofs about the ways in from outside: DaemonControl, for any commands   *)
(* and any number of processes; Chat, for any threads and messages; A2a,    *)
(* for any clients, tasks, reports and room in the channel; and Triggers,   *)
(* for any users, channels, limits, window, jobs and room.                  *)
(***************************************************************************)
EXTENDS DaemonControl, Chat, A2a, Triggers, FiniteSetTheorems, TLAPS

-----------------------------------------------------------------------------
(* Commands and daemons.                                                    *)

CommandPlaces == {"idle", "status", "configuring", "checking", "spawning", "writing", "waiting",
           "reading", "signalling", "grace", "killed", "done"}

DaemonTypes ==
  /\ DaemonTypeOK
  /\ command \in [Commands -> {"none", "start", "stop", "restart"}]
  /\ cpc \in [Commands -> CommandPlaces]
  /\ \A p \in runs : proc[p] # "booting"
  /\ \A c \in Commands : cpc[c] \in {"writing", "signalling", "grace"} => cpid[c] \in Pids

\* One command at a time.
Alternating ==
  ~overlapped => \A c, d \in Commands : c # d => Over(c) \/ Over(d)

\* A daemon that lives and is not lost sight of is the one the pid file names, or the one its
\* command has started and not written yet; none lives where a command is about to start one
\* or has killed it.
Followed(p) ==
  /\ (\A c \in Commands : cpc[c] # "writing") => pidFile = p
  /\ \A c \in Commands :
       /\ cpc[c] \in {"writing", "waiting", "signalling", "grace"} => cpid[c] = p
       /\ cpc[c] \notin {"spawning", "killed"}

OneInv == ~overlapped => \A p \in Pids \ lost : proc[p] \in Living => Followed(p)

\* As long as none is lost sight of, a daemon that has booted runs the task the store holds
\* open.
WorkInv ==
  ~overlapped /\ lost = {} =>
    \A p \in Pids : proc[p] \in {"ready", "serving"} /\ row \in OpenRows => p \in runs

DaemonIInv == DaemonTypes /\ Alternating /\ OneInv /\ WorkInv

-----------------------------------------------------------------------------
\* The invariant holds before any command.
LEMMA DaemonInitOK == DaemonInit => DaemonIInv
<1> SUFFICES ASSUME DaemonInit PROVE DaemonIInv
  OBVIOUS
<1>1. DaemonTypes
  BY DaemonAssumption DEF DaemonInit, DaemonTypes, DaemonTypeOK, CommandPlaces, Living, OpenRows
<1>2. Alternating
  BY DEF DaemonInit, Alternating, Over
<1>3. OneInv /\ WorkInv
  BY DEF DaemonInit, OneInv, WorkInv, Living
<1> QED
  BY <1>1, <1>2, <1>3 DEF DaemonIInv

\* Two daemons that live, neither lost sight of, are one.
LEMMA Unique ==
  ASSUME DaemonIInv, ~overlapped, NEW p \in Pids \ lost, NEW q \in Pids \ lost, proc[p] \in Living, proc[q] \in Living
  PROVE  p = q
  BY DEF DaemonIInv, OneInv, Followed

\* While a command is under way the others are over.
LEMMA OthersAreOver ==
  ASSUME DaemonIInv, ~overlapped, NEW c \in Commands, ~Over(c)
  PROVE  \A d \in Commands : d # c => cpc[d] \in {"idle", "done"}
  BY DEF DaemonIInv, Alternating, Over

\* A step of a command that touches no daemon: what it must keep of the invariant.
LEMMA CommandOK ==
  ASSUME DaemonIInv, NEW c \in Commands, ~Over(c), UNCHANGED <<command, daemonVars, overlapped>>,
         lost \subseteq lost', lost' \subseteq Pids, NEW to \in CommandPlaces, cpc' = [cpc EXCEPT ![c] = to],
         pidFile' \in Pids \cup {NoPid}, cpid' \in [Commands -> Pids \cup {NoPid}],
         \A d \in Commands : d # c => cpid'[d] = cpid[d],
         to \in {"writing", "signalling", "grace"} => cpid'[c] \in Pids,
         ~overlapped => \A p \in Pids \ lost' : proc[p] \in Living =>
           /\ to # "writing" => pidFile' = p
           /\ to \in {"writing", "waiting", "signalling", "grace"} => cpid'[c] = p
           /\ to \notin {"spawning", "killed"}
  PROVE  DaemonIInv'
<1> USE DEF daemonVars
<1>1. DaemonTypes'
  BY DEF DaemonIInv, DaemonTypes, DaemonTypeOK
<1>2. Alternating'
  BY OthersAreOver DEF DaemonIInv, DaemonTypes, Alternating, Over
<1>3. OneInv'
  BY OthersAreOver DEF DaemonIInv, DaemonTypes, OneInv, Followed
<1>4. WorkInv'
  BY DEF DaemonIInv, WorkInv
<1> QED BY <1>1, <1>2, <1>3, <1>4 DEF DaemonIInv

\* What is known of a daemon that lives, where the command c is.
LEMMA KnownAt ==
  ASSUME DaemonIInv, ~overlapped, NEW c \in Commands, ~Over(c), NEW p \in Pids \ lost, proc[p] \in Living
  PROVE  /\ cpc[c] # "writing" => pidFile = p
         /\ cpc[c] \in {"writing", "waiting", "signalling", "grace"} => cpid[c] = p
         /\ cpc[c] \notin {"spawning", "killed"}
         /\ IsAlive(p)
  BY OthersAreOver DEF DaemonIInv, OneInv, Followed, IsAlive

\* A step of a command that may end the process p, and ends or signals nothing else.
LEMMA SignalOK ==
  ASSUME DaemonIInv, NEW c \in Commands, cpc[c] = "grace" \/ cpc[c] = "signalling",
         NEW to \in {"grace", "killed", "done"}, cpc' = [cpc EXCEPT ![c] = to],
         UNCHANGED <<command, cpid, pidFile, parent, row, pastVars>>,
         NEW state \in Living \cup {"none", "exited"}, proc' = [proc EXCEPT ![cpid[c]] = state],
         state \in Living => proc[cpid[c]] \in Living \ {"booting", "ready"} /\ state = "draining",
         runs' = IF state = "exited" THEN runs \ {cpid[c]} ELSE runs,
         state = "none" => cpid[c] \notin runs,
         to = "killed" => state = "exited"
  PROVE  DaemonIInv'
<1> USE DEF pastVars
<1> DEFINE p == cpid[c]
<1>1. DaemonTypes'
  BY DEF DaemonIInv, DaemonTypes, DaemonTypeOK, Living, CommandPlaces
<1>2. Alternating'
  BY OthersAreOver DEF DaemonIInv, DaemonTypes, Alternating, Over
<1>3. \A q \in Pids : proc'[q] \in Living => proc[q] \in Living
  BY DEF DaemonIInv, DaemonTypes, DaemonTypeOK
<1>4. OneInv'
  <2> SUFFICES ASSUME ~overlapped, NEW q \in Pids \ lost, proc'[q] \in Living
               PROVE  Followed(q)'
    BY DEF OneInv
  <2>1. proc[q] \in Living /\ Followed(q) /\ cpid[c] = q
    BY <1>3 DEF DaemonIInv, OneInv, Followed
  <2>2. state \in Living
    BY <2>1 DEF DaemonIInv, DaemonTypes, DaemonTypeOK
  <2>3. to # "killed"
    BY <2>2 DEF Living
  <2>4. pidFile = q
    BY <2>1, KnownAt DEF Over
  <2> QED BY <2>1, <2>3, <2>4 DEF Followed, DaemonIInv, DaemonTypes
<1>5. WorkInv'
  <2> SUFFICES ASSUME ~overlapped, lost = {}, NEW q \in Pids, proc'[q] \in {"ready", "serving"},
                      row \in OpenRows
               PROVE  q \in runs'
    BY DEF WorkInv
  <2>1. q # p
    BY DEF DaemonIInv, DaemonTypes, DaemonTypeOK, Living
  <2> QED BY <2>1 DEF DaemonIInv, WorkInv, DaemonTypes, DaemonTypeOK
<1> QED BY <1>1, <1>2, <1>4, <1>5 DEF DaemonIInv

\* Every step of a command keeps the invariant.
LEMMA CommandStepOK ==
  ASSUME DaemonIInv, NEW c \in Commands, Runs(c)
  PROVE  DaemonIInv'
<1> USE DEF Steps, Over, pastVars
<1>0. pidFile \in Pids \cup {NoPid} /\ cpid \in [Commands -> Pids \cup {NoPid}] /\ lost \subseteq Pids
  BY DEF DaemonIInv, DaemonTypes, DaemonTypeOK
<1>1. CASE LooksAtStatus(c)
  <2>1. PICK to \in {"reading", "configuring"} : cpc' = [cpc EXCEPT ![c] = to]
    BY <1>1 DEF LooksAtStatus
  <2> QED BY <1>0, <1>1, <2>1, CommandOK, KnownAt DEF LooksAtStatus, CommandPlaces
<1>2. CASE Refuses(c) \/ Configures(c)
  BY <1>0, <1>2, CommandOK, KnownAt DEF Refuses, Configures, CommandPlaces
<1>3. CASE ChecksPidFile(c)
  <2>0. cpc[c] = "checking" /\ UNCHANGED <<command, cpid, daemonVars, overlapped>>
    BY <1>3 DEF ChecksPidFile, Removes
  <2>1. CASE cpc' = [cpc EXCEPT ![c] = "done"] /\ UNCHANGED <<pidFile, lost>>
    BY <1>0, <2>0, <2>1, CommandOK, KnownAt DEF CommandPlaces
  <2>2. CASE cpc' = [cpc EXCEPT ![c] = "spawning"] /\ ~MustNotStart /\ pidFile' = NoPid /\ UNCHANGED lost
    <3>1. ~overlapped => \A p \in Pids \ lost : proc[p] \notin Living
      BY <2>0, <2>2, KnownAt DEF MustNotStart, Pids, NoPid
    <3> QED BY <1>0, <2>0, <2>2, <3>1, CommandOK DEF CommandPlaces
  <2>3. CASE /\ cpc' = [cpc EXCEPT ![c] = "spawning"] /\ pidFile # NoPid
             /\ lost' = lost \cup {pidFile} /\ UNCHANGED pidFile
    <3>1. ~overlapped => \A p \in Pids \ lost' : proc[p] \notin Living
      BY <2>0, <2>3, KnownAt
    <3> QED BY <1>0, <2>0, <2>3, <3>1, CommandOK DEF CommandPlaces
  <2> QED BY <1>3, <2>1, <2>2, <2>3 DEF ChecksPidFile, Removes, LosesSightOf
<1>4. ASSUME NEW p \in Pids, Spawns(c, p) PROVE DaemonIInv'
  <2> USE <1>4 DEF Spawns
  <2>1. DaemonTypes'
    BY DEF DaemonIInv, DaemonTypes, DaemonTypeOK, Living, CommandPlaces
  <2>2. Alternating'
    BY OthersAreOver DEF DaemonIInv, DaemonTypes, Alternating
  <2>3. \A q \in Pids : q # p => proc'[q] = proc[q]
    BY DEF DaemonIInv, DaemonTypes, DaemonTypeOK
  <2>4. OneInv'
    <3> SUFFICES ASSUME ~overlapped, NEW q \in Pids \ lost, proc'[q] \in Living PROVE Followed(q)'
      BY DEF OneInv
    <3>1. q = p
      BY <2>3, KnownAt
    <3> QED BY <3>1, OthersAreOver DEF Followed, DaemonIInv, DaemonTypes, DaemonTypeOK
  <2>5. WorkInv'
    BY <2>3 DEF DaemonIInv, DaemonTypes, DaemonTypeOK, WorkInv
  <2> QED BY <2>1, <2>2, <2>4, <2>5 DEF DaemonIInv
<1>5. CASE WritesPidFile(c)
  BY <1>0, <1>5, CommandOK, KnownAt DEF WritesPidFile, CommandPlaces
<1>f. CASE FailsToWrite(c)
  <2>1. /\ cpc[c] = "writing" /\ cpc' = [cpc EXCEPT ![c] = "done"] /\ pidFile' \in {pidFile, NoPid}
        /\ lost' = lost \cup {cpid[c]} /\ UNCHANGED <<command, cpid, daemonVars, overlapped>>
    BY <1>f DEF FailsToWrite, LosesSightOf
  <2>2. ~overlapped => \A p \in Pids \ lost' : proc[p] \notin Living
    BY <2>1, KnownAt
  <2>3. cpid[c] \in Pids
    BY <2>1 DEF DaemonIInv, DaemonTypes
  <2> QED BY <1>0, <2>1, <2>2, <2>3, CommandOK DEF CommandPlaces
<1>6. CASE IsHealthy(c)
  BY <1>0, <1>6, CommandOK, KnownAt DEF IsHealthy, CommandPlaces
<1>7. CASE GivesUpWaiting(c)
  <2>1. cpc' = [cpc EXCEPT ![c] = "done"] /\ UNCHANGED cpid /\ pidFile' \in {pidFile, NoPid}
    BY <1>7 DEF GivesUpWaiting
  <2>2. ~overlapped => \A p \in Pids \ lost : proc[p] \in Living => pidFile' = p
    BY <1>7, KnownAt DEF GivesUpWaiting
  <2> QED BY <1>0, <1>7, <2>1, <2>2, CommandOK DEF GivesUpWaiting, CommandPlaces
<1>8. CASE ReadsPidFile(c)
  <2>0. cpc[c] = "reading" /\ UNCHANGED <<command, daemonVars, pastVars>>
    BY <1>8 DEF ReadsPidFile, Removes
  <2>1. CASE /\ pidFile # NoPid /\ cpc' = [cpc EXCEPT ![c] = "signalling"]
             /\ cpid' = [cpid EXCEPT ![c] = pidFile] /\ UNCHANGED pidFile
    <3>1. /\ cpid' \in [Commands -> Pids \cup {NoPid}] /\ cpid'[c] = pidFile /\ pidFile \in Pids
          /\ \A d \in Commands : d # c => cpid'[d] = cpid[d]
      BY <1>0, <2>1
    <3> QED BY <1>0, <2>0, <2>1, <3>1, CommandOK, KnownAt DEF CommandPlaces
  <2>2. CASE cpc' = [cpc EXCEPT ![c] = "done"] /\ UNCHANGED <<cpid, pidFile>>
    BY <1>0, <2>0, <2>2, CommandOK, KnownAt DEF CommandPlaces
  <2>3. CASE /\ ~(pidFile # NoPid /\ IsAlive(pidFile)) /\ cpc' = [cpc EXCEPT ![c] = "done"]
             /\ pidFile' = NoPid /\ UNCHANGED cpid
    <3>1. ~overlapped => \A p \in Pids \ lost : proc[p] \notin Living
      BY <2>0, <2>3, KnownAt DEF Pids, NoPid
    <3> QED BY <1>0, <2>0, <2>3, <3>1, CommandOK DEF CommandPlaces
  <2> QED BY <1>8, <2>1, <2>2, <2>3 DEF ReadsPidFile, Removes
<1>9. CASE Terminates(c)
  <2> DEFINE p == cpid[c]
  <2> USE <1>9 DEF Terminates
  <2>1. p \in Pids /\ proc[p] \in Living \cup {"none", "exited"}
    BY DEF DaemonIInv, DaemonTypes, DaemonTypeOK
  <2>2. Signalled(proc[p]) \in Living \cup {"none", "exited"}
    BY <2>1 DEF Signalled, Living
  <2>3. Signalled(proc[p]) \in Living =>
          proc[p] \in Living \ {"booting", "ready"} /\ Signalled(proc[p]) = "draining"
    BY <2>1 DEF Signalled, Living
  <2>4. Signalled(proc[p]) = "none" => p \notin runs
    BY <2>1 DEF Signalled, Living, DaemonIInv, DaemonTypes, DaemonTypeOK
  <2>5. proc'[p] = Signalled(proc[p]) /\ proc' = [proc EXCEPT ![p] = Signalled(proc[p])]
    BY <2>1 DEF DaemonIInv, DaemonTypes, DaemonTypeOK
  <2> QED BY <2>2, <2>3, <2>4, <2>5, SignalOK
<1>10. CASE SeesItGone(c)
  <2>1. PICK to \in {"configuring", "done"} : cpc' = [cpc EXCEPT ![c] = to]
    BY <1>10 DEF SeesItGone, Removes, Stopped
  <2>2. ~overlapped => \A p \in Pids \ lost : proc[p] \notin Living
    BY <1>10, KnownAt DEF SeesItGone
  <2>3. pidFile' \in {pidFile, NoPid} /\ UNCHANGED <<command, cpid, daemonVars, pastVars>>
    BY <1>10 DEF SeesItGone, Removes
  <2> QED BY <1>0, <1>10, <2>1, <2>2, <2>3, CommandOK DEF SeesItGone, CommandPlaces
<1>11. CASE Kills(c)
  <2>1. PICK to \in {"killed", "done"} : cpc' = [cpc EXCEPT ![c] = to]
    BY <1>11 DEF Kills
  <2>2. "exited" \notin Living
    BY DEF Living
  <2>3. /\ cpc[c] = "grace" /\ proc' = [proc EXCEPT ![cpid[c]] = "exited"]
        /\ runs' = runs \ {cpid[c]}
        /\ UNCHANGED <<command, cpid, pidFile, parent, row, pastVars>>
    BY <1>11 DEF Kills
  <2> QED BY <2>1, <2>2, <2>3, SignalOK
<1>12. CASE EndsStop(c)
  <2>1. PICK to \in {"configuring", "done"} : cpc' = [cpc EXCEPT ![c] = to]
    BY <1>12 DEF EndsStop, Removes, Stopped
  <2>2. /\ cpc[c] = "killed" /\ pidFile' \in {pidFile, NoPid}
        /\ UNCHANGED <<command, cpid, daemonVars, pastVars>>
    BY <1>12 DEF EndsStop, Removes
  <2>3. ~overlapped => \A p \in Pids \ lost : proc[p] \notin Living
    BY <2>2, KnownAt
  <2> QED BY <1>0, <2>1, <2>2, <2>3, CommandOK DEF CommandPlaces
<1> QED
  BY <1>1, <1>2, <1>3, <1>4, <1>5, <1>6, <1>7, <1>8, <1>9, <1>10, <1>11, <1>12, <1>f DEF Runs

-----------------------------------------------------------------------------
\* A command that is given keeps the invariant.
LEMMA InvokeOK ==
  ASSUME DaemonIInv, NEW c \in Commands, NEW how \in {"start", "stop", "restart"}, Invoke(c, how)
  PROVE  DaemonIInv'
<1> USE DEF Invoke, Steps, pastVars
<1>1. PICK to \in {"configuring", "reading", "status"} : cpc' = [cpc EXCEPT ![c] = to]
  OBVIOUS
<1> HIDE DEF Steps
<1>2. DaemonTypes'
  BY <1>1 DEF DaemonIInv, DaemonTypes, DaemonTypeOK, CommandPlaces, daemonVars
<1>3. Alternating'
  BY <1>1 DEF DaemonIInv, DaemonTypes, Alternating, Over
<1>4. OneInv'
  <2>1. cpc[c] = "idle" /\ (overlapped' = (overlapped \/ \E d \in Commands : ~Over(d)))
    BY DEF Steps
  <2> SUFFICES ASSUME ~overlapped, \A d \in Commands : Over(d),
                      NEW p \in Pids \ lost, proc[p] \in Living
               PROVE  Followed(p)'
    BY <2>1 DEF OneInv, daemonVars
  <2>2. Followed(p)
    BY DEF DaemonIInv, OneInv
  <2> QED BY <1>1, <2>1, <2>2 DEF DaemonIInv, DaemonTypes, Followed, Over
<1>5. WorkInv'
  BY DEF DaemonIInv, WorkInv, daemonVars
<1> QED BY <1>2, <1>3, <1>4, <1>5 DEF DaemonIInv

\* A daemon's step, which changes no file and no other daemon and starts none.
LEMMA LifeOK ==
  ASSUME DaemonIInv, NEW p \in Pids, proc[p] \in Living, UNCHANGED <<controlVars, parent, pastVars>>,
         NEW state \in (Living \ {"booting"}) \cup {"exited"}, proc' = [proc EXCEPT ![p] = state],
         row' \in OpenRows \cup {"none", "ended"},
         runs' \subseteq runs \cup {p}, runs \ {p} \subseteq runs',
         state = "exited" => p \notin runs',
         ~overlapped /\ lost = {} /\ state \in {"ready", "serving"} /\ row' \in OpenRows => p \in runs'
  PROVE  DaemonIInv'
<1> USE DEF controlVars, pastVars
<1>1. DaemonTypes'
  BY DEF DaemonIInv, DaemonTypes, DaemonTypeOK, Living
<1>2. Alternating'
  BY DEF DaemonIInv, Alternating, Over
<1>3. \A q \in Pids : proc'[q] \in Living => proc[q] \in Living
  BY DEF DaemonIInv, DaemonTypes, DaemonTypeOK
<1>4. OneInv'
  BY <1>3 DEF DaemonIInv, OneInv, Followed
<1>5. WorkInv'
  <2> SUFFICES ASSUME ~overlapped, lost = {}, NEW q \in Pids, proc'[q] \in {"ready", "serving"},
                      row' \in OpenRows
               PROVE  q \in runs'
    BY DEF WorkInv
  <2>1. proc[q] \in Living
    BY <1>3 DEF Living
  <2>2. q = p
    BY <2>1, Unique
  <2> QED BY <2>2 DEF DaemonIInv, DaemonTypes, DaemonTypeOK
<1> QED BY <1>1, <1>2, <1>4, <1>5 DEF DaemonIInv

\* Every step of a daemon, crashes included, keeps the invariant.
LEMMA LifeStepOK ==
  ASSUME DaemonIInv, NEW p \in Pids, Lives(p)
  PROVE  DaemonIInv'
<1> USE DEF Becomes, pastVars
<1>0. /\ row \in OpenRows \cup {"none", "ended"} /\ runs \subseteq {q \in Pids : proc[q] \in Living}
      /\ proc \in [Pids -> Living \cup {"none", "exited"}]
      /\ proc[p] = "booting" => p \notin runs
  BY DEF DaemonIInv, DaemonTypes, DaemonTypeOK
<1>1. CASE Boots(p)
  BY <1>0, <1>1, LifeOK DEF Boots, Recovers, Living, OpenRows
<1>2. CASE BootFails(p)
  BY <1>0, <1>2, LifeOK DEF BootFails, Living
<1>3. CASE Binds(p)
  <2>1. proc[p] = "ready" /\ UNCHANGED <<controlVars, parent, row, pastVars>>
    BY <1>3 DEF Binds
  <2>2. CASE \A q \in Pids : proc[q] # "serving"
    <3>1. proc' = [proc EXCEPT ![p] = "serving"] /\ runs' = runs
      BY <1>3, <2>2 DEF Binds
    <3> QED BY <1>0, <2>1, <3>1, LifeOK DEF Living, DaemonIInv, WorkInv
  <2>3. CASE ~(\A q \in Pids : proc[q] # "serving")
    <3>1. proc' = [proc EXCEPT ![p] = "exited"] /\ runs' = runs \ {p}
      BY <1>3, <2>3 DEF Binds
    <3> QED BY <1>0, <2>1, <3>1, LifeOK DEF Living
  <2> QED BY <2>2, <2>3
<1>4. CASE Accepts(p)
  <2>1. proc[p] = "serving" /\ proc' = [proc EXCEPT ![p] = "serving"]
    BY <1>0, <1>4 DEF Accepts
  <2> QED BY <1>0, <1>4, <2>1, LifeOK DEF Accepts, Living, OpenRows
<1>5. CASE Finishes(p)
  <2>1. proc[p] \in Living \ {"booting"} /\ proc' = [proc EXCEPT ![p] = proc[p]]
    BY <1>0, <1>5 DEF Finishes
  <2>2. "exited" \notin Living /\ "ended" \notin OpenRows
    BY DEF Living, OpenRows
  <2> QED BY <1>0, <1>5, <2>1, <2>2, LifeOK DEF Finishes
<1>6. CASE Drains(p) \/ CutsShort(p) \/ Suspends(p)
  <2>1. row' \in OpenRows \cup {"none", "ended"}
    BY <1>0, <1>6 DEF Drains, CutsShort, Suspends, OpenRows
  <2> QED BY <1>0, <1>6, <2>1, LifeOK DEF Drains, CutsShort, Suspends, Exits, Living
<1>7. CASE Crashes(p)
  BY <1>0, <1>7, LifeOK DEF Crashes, Living
<1> QED BY <1>1, <1>2, <1>3, <1>4, <1>5, <1>6, <1>7 DEF Lives

\* The invariant holds in every execution.
LEMMA DaemonInvariance == DaemonSpec => []DaemonIInv
<1>1. DaemonIInv /\ [DaemonNext]_lifeVars => DaemonIInv'
  <2> SUFFICES ASSUME DaemonIInv, [DaemonNext]_lifeVars PROVE DaemonIInv'
    OBVIOUS
  <2>1. CASE UNCHANGED lifeVars
    BY <2>1 DEF lifeVars, controlVars, daemonVars, pastVars, DaemonIInv, DaemonTypes, DaemonTypeOK, Alternating, OneInv,
                WorkInv, Followed, Over
  <2>2. CASE DaemonNext
    BY <2>2, CommandStepOK, InvokeOK, LifeStepOK DEF DaemonNext
  <2> QED BY <2>1, <2>2
<1> QED BY <1>1, DaemonInitOK, PTL DEF DaemonSpec

\* Commands given one after the other keep one daemon, named by the pid file between them,
\* and one at most runs the task, apart from the daemons that a failed write or read of the
\* file has lost sight of: for any number of commands, processes and failures.
THEOREM OneDaemon == DaemonSpec => []OneDaemonAtATime
<1>1. ASSUME NEW S, \A p, q \in S : p = q
      PROVE  IsFiniteSet(S) /\ Cardinality(S) <= 1
  <2>1. CASE S = {}
    BY <2>1, FS_EmptySet
  <2>2. CASE S # {}
    <3>1. PICK x \in S : TRUE
      BY <2>2
    <3>2. S = {x}
      BY <1>1, <3>1
    <3>3. IsFiniteSet({x}) /\ Cardinality({x}) = 1
      BY FS_Singleton, Zenon
    <3> QED BY <3>2, <3>3
  <2> QED BY <2>1, <2>2
<1>2. DaemonIInv => OneDaemonAtATime
  <2> SUFFICES ASSUME DaemonIInv, ~overlapped PROVE OneDaemonAtATime
    BY DEF OneDaemonAtATime
  <2>1. \A p, q \in {r \in Pids \ lost : proc[r] \in Living} : p = q
    BY Unique
  <2>2. \A p, q \in runs \ lost : p = q
    BY Unique DEF DaemonIInv, DaemonTypes, DaemonTypeOK
  <2>3. (\A c \in Commands : Over(c)) => \A p \in Pids \ lost : proc[p] \in Living => pidFile = p
    BY DEF DaemonIInv, OneInv, Followed, Over
  <2> QED BY <1>1, <2>1, <2>2, <2>3 DEF OneDaemonAtATime
<1> QED BY <1>2, DaemonInvariance, PTL

\* The daemon that serves runs the task the store holds open, however the last one ended, as
\* long as none is lost sight of.
THEOREM WorkIsTakenUp == DaemonSpec => []WorkSurvivesDaemons
<1>1. DaemonIInv => WorkSurvivesDaemons
  BY DEF DaemonIInv, WorkInv, WorkSurvivesDaemons
<1> QED BY <1>1, DaemonInvariance, PTL

\* The variables of the model of the daemons hold values of their types.
THEOREM DaemonTypeCorrect == DaemonSpec => []DaemonTypeOK
<1>1. DaemonIInv => DaemonTypeOK
  BY DEF DaemonIInv, DaemonTypes
<1> QED BY <1>1, DaemonInvariance, PTL

-----------------------------------------------------------------------------
(* The chat: what is shown while a request is in flight.                    *)

ChatSpec == ChatInit /\ [][ChatNext]_chatVars

Item == {"text", "link", "note", "user", "thinking", "error"}

ThinkingIn(line) == {k \in DOMAIN line : line[k] = "thinking"}

ChatTypes ==
  /\ listed \in Listings /\ active \in ChatThreads /\ sidebar \in ChatThreads
  /\ items \in [ChatThreads -> Seq(Item)]
  /\ placeholder \in [ChatThreads -> Nat]
  /\ pending.kind \in {"none", "turn", "open"} /\ pending = Request(pending.kind, pending.thread)
  /\ pendingThread \in ChatThreads \cup {NoThread}
  /\ hidden \in BOOLEAN /\ navigating \in BOOLEAN /\ early \in BOOLEAN
  /\ focus \in {"sidebar", "main", "input"}

\* What is shown can be acted on.
PaneInv ==
  /\ Contains(listed, active) /\ Contains(listed, sidebar)
  /\ focus = "sidebar" => ~hidden
  /\ navigating => focus = "main"

\* A turn in flight, unless another message was sent meanwhile: the daemon lists its thread,
\* an answer is put there, and the placeholder waits there and nowhere else.
FlightInv ==
  ~early =>
    /\ IF pending.kind = "turn"
       THEN /\ pending.thread \in ChatThreads /\ pendingThread = pending.thread
            /\ Contains(listed, pending.thread)
       ELSE pendingThread = NoThread
    /\ \A t \in ChatThreads :
         Thinking(t) = IF pending = Request("turn", t) THEN {placeholder[t]} ELSE {}

ChatIInv == ChatTypes /\ PaneInv /\ FlightInv

\* What the daemon lists is a sequence of threads, System0's first.
LEMMA ListingsAreThreads ==
  ASSUME NEW list \in Listings
  PROVE  /\ list \in Seq(ChatThreads) /\ Contains(list, System0)
<1>1. PICK S \in SUBSET SubThreads : \E s \in SetToSeqs(S) : list = <<System0>> \o s
  BY DEF Listings
<1>2. PICK s \in SetToSeqs(S) : list = <<System0>> \o s
  BY <1>1
<1>3. Cardinality(S) \in Nat
  BY ChatAssumption, FS_Subset, FS_CardinalityType DEF ChatAssumption
<1>4. s \in [1..Cardinality(S) -> S]
  BY DEF SetToSeqs
<1>5. s \in Seq(ChatThreads)
  BY <1>3, <1>4 DEF ChatThreads
<1>6. System0 \in ChatThreads
  BY DEF ChatThreads
<1>7. list \in Seq(ChatThreads) /\ Len(list) >= 1 /\ Len(list) \in Nat /\ list[1] = System0
  BY <1>2, <1>5, <1>6
<1>8. 1 \in 1..Len(list)
  BY <1>7
<1> QED
  BY <1>7, <1>8 DEF Contains

\* A thread that is shown and no longer listed makes way to one that is.
LEMMA PanesSynced ==
  ASSUME NEW list \in Listings, ChatTypes, SyncPanes(list)
  PROVE  /\ active' \in ChatThreads /\ sidebar' \in ChatThreads
         /\ Contains(list, active') /\ Contains(list, sidebar')
<1>1. Contains(list, System0) /\ System0 \in ChatThreads
  BY ListingsAreThreads DEF ChatThreads
<1> QED
  BY <1>1 DEF SyncPanes, KeptOr, ChatTypes

\* Only items of the kinds below are shown, and refreshing the threads adds no placeholder.
LEMMA TimelinesSynced ==
  ASSUME NEW list, NEW saved, ChatTypes, NEW t \in ChatThreads
  PROVE  /\ Synced(list, saved) \in [ChatThreads -> Seq(Item)]
         /\ ~Contains(list, t) => Synced(list, saved)[t] = <<>>
         /\ Thinking(t) = {} =>
              ThinkingIn(Synced(list, saved)[t]) = {}
<1>1. items \in [ChatThreads -> Seq(Item)]
  BY DEF ChatTypes
<1>2. /\ <<"note">> \in Seq(Item) /\ <<>> \in Seq(Item)
      /\ \A k \in DOMAIN <<"note">> : <<"note">>[k] # "thinking"
  BY DEF Item
<1>3. Synced(list, saved) \in [ChatThreads -> Seq(Item)]
  BY <1>1, <1>2 DEF Synced
<1>4. Synced(list, saved)[t] \in {<<>>, <<"note">>, items[t]}
  BY DEF Synced
<1>5. ~Contains(list, t) => Synced(list, saved)[t] = <<>>
  BY DEF Synced
<1>6. \A k \in DOMAIN <<>> : FALSE
  OBVIOUS
<1>7. Thinking(t) = {} => \A k \in DOMAIN items[t] : items[t][k] # "thinking"
  BY DEF Thinking
<1> QED
  BY <1>2, <1>3, <1>4, <1>5, <1>6, <1>7 DEF ThinkingIn

\* Taking the only placeholder of a timeline away, and telling an error instead.
LEMMA PlaceholderTaken ==
  ASSUME NEW line \in Seq(Item), NEW k \in DOMAIN line,
         \A j \in DOMAIN line : line[j] = "thinking" => j = k
  PROVE  /\ Append(WithoutPlaceholder(line, k), "error") \in Seq(Item)
         /\ \A j \in DOMAIN Append(WithoutPlaceholder(line, k), "error") :
              Append(WithoutPlaceholder(line, k), "error")[j] # "thinking"
<1> DEFINE n == Len(line)
           before == SubSeq(line, 1, k - 1)
           after == SubSeq(line, k + 1, n)
           rest == before \o after
<1>1. n \in Nat /\ k \in 1..n /\ DOMAIN line = 1..n
  OBVIOUS
<1>2. /\ before \in Seq(Item) /\ Len(before) = k - 1
      /\ \A j \in 1..(k - 1) : before[j] = line[j]
  BY <1>1
<1>3. /\ after \in Seq(Item) /\ Len(after) = n - k
      /\ \A j \in 1..(n - k) : after[j] = line[k + j]
  BY <1>1
<1>4. \A j \in 1..Len(before) : before[j] # "thinking"
  BY <1>1, <1>2
<1>5. \A j \in 1..Len(after) : after[j] # "thinking"
  BY <1>1, <1>3
<1>6. WithoutPlaceholder(line, k) = rest
  BY <1>1 DEF WithoutPlaceholder, RemoveAt
<1> HIDE DEF before, after
<1>7. rest \in Seq(Item) /\ \A j \in 1..Len(rest) : rest[j] # "thinking"
  BY <1>2, <1>3, <1>4, <1>5
<1> HIDE DEF rest
<1>8. "error" \in Item
  BY DEF Item
<1> QED
  BY <1>6, <1>7, <1>8

\* Every way the chat starts.
LEMMA ChatInitOK == ChatInit => ChatIInv
<1> SUFFICES ASSUME ChatInit PROVE ChatIInv
  OBVIOUS
<1>1. listed \in Seq(ChatThreads) /\ Contains(listed, System0) /\ System0 \in ChatThreads
  BY ListingsAreThreads DEF ChatInit, ChatThreads
<1>2. \A t \in ChatThreads : items[t] \in {<<>>, <<"note">>}
  BY DEF ChatInit
<1>3. items \in [ChatThreads -> Seq(Item)]
  <2>1. <<>> \in Seq(Item) /\ <<"note">> \in Seq(Item)
    BY DEF Item
  <2> QED
    BY <2>1 DEF ChatInit
<1>4. \A t \in ChatThreads : Thinking(t) = {}
  BY <1>2 DEF Thinking
<1>5. ChatTypes
  BY <1>1, <1>3 DEF ChatInit, ChatTypes, NoRequest, Request
<1>6. PaneInv
  BY <1>1 DEF ChatInit, PaneInv
<1>7. FlightInv
  BY <1>4 DEF ChatInit, FlightInv, NoRequest, Request
<1> QED
  BY <1>5, <1>6, <1>7 DEF ChatIInv

\* The keys that send nothing.
Keys ==
  \/ Escape \/ NavigationInput \/ CycleFocus(NextPane) \/ CycleFocus(PrevPane) \/ ToggleSidebar
  \/ \E k \in 1..(2 * MaxSends + 2) : SelectMain(k) \/ SelectSidebar(k)
  \/ \E f \in {"all", "delegates"} : SetFilter(f)

\* They leave the request and what the threads show alone.
LEMMA KeysStep == ChatIInv /\ Keys => ChatIInv'
<1> SUFFICES ASSUME ChatIInv, Keys PROVE ChatIInv'
  OBVIOUS
<1>0. ChatTypes /\ PaneInv /\ FlightInv
  BY DEF ChatIInv
<1>1. UNCHANGED <<listed, readOnly, items, active, pending, pendingThread, placeholder, sends, early>>
  BY DEF Keys, Escape, NavigationInput, CycleFocus, ToggleSidebar, SelectMain, SelectSidebar,
         SetFilter, pendingVars
<1>2. FlightInv'
  BY <1>0, <1>1 DEF FlightInv, Thinking
<1>3. ASSUME sidebar' = sidebar, hidden' \in BOOLEAN, navigating' \in BOOLEAN,
             focus' \in {"sidebar", "main", "input"}, focus' = "sidebar" => ~hidden',
             navigating' => focus' = "main"
      PROVE  ChatIInv'
  BY <1>0, <1>1, <1>2, <1>3 DEF ChatIInv, ChatTypes, PaneInv, Contains
<1>4. /\ hidden \in BOOLEAN /\ navigating \in BOOLEAN /\ focus \in {"sidebar", "main", "input"}
      /\ (focus = "sidebar" => ~hidden) /\ (navigating => focus = "main")
  BY <1>0 DEF ChatTypes, PaneInv
<1>5. CASE Escape
  BY <1>3, <1>4, <1>5 DEF Escape
<1>6. CASE NavigationInput
  BY <1>3, <1>4, <1>6 DEF NavigationInput
<1>7. CASE CycleFocus(NextPane)
  BY <1>3, <1>4, <1>7 DEF CycleFocus, NextPane, Skipping
<1>8. CASE CycleFocus(PrevPane)
  BY <1>3, <1>4, <1>8 DEF CycleFocus, PrevPane, Skipping
<1>9. CASE ToggleSidebar
  <2>1. hidden' \in BOOLEAN /\ UNCHANGED <<sidebar, navigating>>
    BY <1>9 DEF ToggleSidebar
  <2>2. focus' = IF hidden' /\ focus = "sidebar" THEN "main" ELSE focus
    BY <1>9 DEF ToggleSidebar
  <2>3. focus' \in {"sidebar", "main", "input"}
    BY <1>4, <2>2
  <2>4. focus' = "sidebar" => ~hidden'
    BY <2>2
  <2>5. navigating' \in BOOLEAN /\ (navigating' => focus' = "main")
    <3>1. navigating' = navigating
      BY <2>1
    <3>2. ASSUME navigating PROVE focus' = "main"
      <4>1. focus = "main"
        BY <1>4, <3>2
      <4> QED
        BY <2>2, <4>1
    <3> QED
      BY <1>4, <3>1, <3>2
  <2>6. sidebar' = sidebar
    BY <2>1
  <2> QED
    BY <1>3, <2>1, <2>3, <2>4, <2>5, <2>6
<1>10. ASSUME NEW k, SelectMain(k) PROVE ChatIInv'
  BY <1>3, <1>4, <1>10 DEF SelectMain
<1>11. ASSUME NEW f, SetFilter(f) PROVE ChatIInv'
  BY <1>3, <1>4, <1>11 DEF SetFilter
<1>12. ASSUME NEW k, SelectSidebar(k) PROVE ChatIInv'
  <2>1. /\ k \in DOMAIN listed /\ sidebar' = listed[k]
        /\ UNCHANGED <<hidden, navigating, focus>>
    BY <1>12 DEF SelectSidebar
  <2>2. listed \in Seq(ChatThreads)
    BY <1>0, ListingsAreThreads DEF ChatTypes
  <2>3. sidebar' \in ChatThreads /\ Contains(listed, sidebar')
    BY <2>1, <2>2 DEF Contains
  <2>4. Contains(listed', sidebar') /\ Contains(listed', active')
    BY <1>0, <1>1, <2>3 DEF PaneInv
  <2> QED
    BY <1>0, <1>1, <1>2, <1>4, <2>1, <2>3, <2>4 DEF ChatIInv, ChatTypes, PaneInv
<1> QED
  BY <1>5, <1>6, <1>7, <1>8, <1>9, <1>10, <1>11, <1>12 DEF Keys

\* A message is sent: with nothing in flight its placeholder is the only one.
LEMMA SendStep == ChatIInv /\ Send => ChatIInv'
<1> SUFFICES ASSUME ChatIInv, Send PROVE ChatIInv'
  OBVIOUS
<1>0. ChatTypes /\ PaneInv /\ FlightInv
  BY DEF ChatIInv
<1>1. /\ items' = [items EXCEPT ![active] = @ \o <<"user", "thinking">>]
      /\ placeholder' = [placeholder EXCEPT ![active] = Len(items'[active])]
      /\ pendingThread' = active /\ Submits(Request("turn", active))
      /\ early' = (early \/ pending # NoRequest)
      /\ UNCHANGED <<listed, active, sidebar, focus, navigating, hidden>>
  BY DEF Send
<1>2. /\ items \in [ChatThreads -> Seq(Item)] /\ active \in ChatThreads
      /\ placeholder \in [ChatThreads -> Nat]
  BY <1>0 DEF ChatTypes
<1> DEFINE line == items[active]
           n == Len(items[active])
           longer == items[active] \o <<"user", "thinking">>
<1>3. line \in Seq(Item) /\ n \in Nat /\ DOMAIN line = 1..n
  BY <1>2
<1>4. /\ longer \in Seq(Item) /\ Len(longer) = n + 2 /\ DOMAIN longer = 1..(n + 2)
      /\ \A k \in 1..n : longer[k] = line[k]
      /\ longer[n + 1] = "user" /\ longer[n + 2] = "thinking"
  BY <1>3 DEF Item
<1> HIDE DEF longer
<1>5. items' = [items EXCEPT ![active] = longer]
  BY <1>1 DEF longer
<1>6. items' \in [ChatThreads -> Seq(Item)] /\ items'[active] = longer
  BY <1>2, <1>4, <1>5
<1>7. placeholder' \in [ChatThreads -> Nat] /\ placeholder'[active] = n + 2
  BY <1>1, <1>2, <1>3, <1>4, <1>6
<1>8. ChatTypes'
  BY <1>0, <1>1, <1>6, <1>7 DEF ChatTypes, Submits, Request
<1>9. PaneInv'
  BY <1>0, <1>1 DEF PaneInv
<1>10. FlightInv'
  <2> SUFFICES ASSUME ~early' PROVE FlightInv'
    BY DEF FlightInv
  <2>1. ~early /\ pending = NoRequest /\ pending' = Request("turn", active)
    BY <1>1 DEF Submits
  <2>2. \A t \in ChatThreads : Thinking(t) = {}
    BY <1>0, <2>1 DEF FlightInv, NoRequest, Request
  <2>3. Thinking(active)' = {n + 2}
    <3>1. \A k \in 1..n : line[k] # "thinking"
      BY <1>2, <1>3, <2>2 DEF Thinking
    <3>2. \A k \in 1..(n + 2) : longer[k] = "thinking" <=> k = n + 2
      <4> TAKE k \in 1..(n + 2)
      <4>1. k \in 1..n \/ k = n + 1 \/ k = n + 2
        BY <1>3
      <4>2. n + 1 # n + 2 /\ \A j \in 1..n : j # n + 2
        BY <1>3
      <4> QED
        BY <1>4, <3>1, <4>1, <4>2
    <3>3. n + 2 \in 1..(n + 2)
      BY <1>3
    <3>4. {k \in DOMAIN longer : longer[k] = "thinking"} = {n + 2}
      BY <1>4, <3>2, <3>3
    <3>5. Thinking(active)' = {k \in DOMAIN items'[active'] : items'[active'][k] = "thinking"}
      BY DEF Thinking
    <3> QED
      BY <1>1, <1>6, <3>4, <3>5
  <2>4. ASSUME NEW t \in ChatThreads, t # active PROVE Thinking(t)' = {}
    <3>1. items'[t] = items[t]
      BY <1>2, <1>5, <2>4
    <3> QED
      BY <2>2, <3>1 DEF Thinking
  <2>5. \A t \in ChatThreads : pending' = Request("turn", t) <=> t = active
    BY <2>1 DEF Request
  <2>6. pending'.kind = "turn" /\ pending'.thread = active
    BY <2>1 DEF Request
  <2>7. Contains(listed', active)
    BY <1>0, <1>1 DEF PaneInv
  <2>8. \A t \in ChatThreads :
          Thinking(t)' = IF pending' = Request("turn", t) THEN {placeholder'[t]} ELSE {}
    BY <1>1, <1>7, <2>3, <2>4, <2>5
  <2> QED
    BY <1>1, <1>2, <2>6, <2>7, <2>8 DEF FlightInv, Request
<1> QED
  BY <1>8, <1>9, <1>10 DEF ChatIInv

\* A thread that is listed is opened: nothing shown changes until the daemon answers.
LEMMA OpenStep ==
  ASSUME ChatIInv, NEW t \in ChatThreads, Contains(listed, t), Open(t)
  PROVE  ChatIInv'
<1>0. ChatTypes /\ PaneInv /\ FlightInv
  BY DEF ChatIInv
<1>1. /\ active' = t /\ sidebar' = t /\ focus' = "main" /\ Submits(Request("open", t))
      /\ UNCHANGED <<listed, items, navigating, hidden, pendingThread, placeholder, early>>
  BY DEF Open
<1>2. ChatTypes'
  BY <1>0, <1>1 DEF ChatTypes, Submits, Request
<1>3. PaneInv'
  BY <1>0, <1>1 DEF PaneInv
<1>4. CASE pending = NoRequest
  <2>1. pending' = Request("open", t)
    BY <1>1, <1>4 DEF Submits
  <2>2. pending.kind # "turn" /\ pending'.kind # "turn"
    BY <1>4, <2>1 DEF NoRequest, Request
  <2>3. \A u : pending # Request("turn", u) /\ pending' # Request("turn", u)
    BY <2>2 DEF Request
  <2>4. \A u \in ChatThreads : Thinking(u)' = Thinking(u)
    BY <1>1 DEF Thinking
  <2>5. FlightInv'
    BY <1>0, <1>1, <2>2, <2>3, <2>4 DEF FlightInv
  <2> QED
    BY <1>2, <1>3, <2>5 DEF ChatIInv
<1>5. CASE pending # NoRequest
  <2>1. pending' = pending
    BY <1>1, <1>5 DEF Submits
  <2>2. FlightInv'
    BY <1>0, <1>1, <2>1 DEF FlightInv, Thinking
  <2> QED
    BY <1>2, <1>3, <2>2 DEF ChatIInv
<1> QED
  BY <1>4, <1>5

\* A thread's timeline is as the daemon has it.
LEMMA ThreadLoaded ==
  ASSUME NEW list \in Listings, NEW saved, NEW timeline \in Timelines, ChatTypes, FlightInv,
         NEW t, Loads(t, list, Synced(list, saved), timeline)
  PROVE  /\ items' \in [ChatThreads -> Seq(Item)] /\ placeholder' \in [ChatThreads -> Nat]
         /\ pendingThread' = NoThread
         /\ \A u \in ChatThreads : Thinking(u) = {} \/ u = t => Thinking(u)' = {}
<1> DEFINE its == Synced(list, saved)
<1>1. /\ its \in [ChatThreads -> Seq(Item)]
      /\ \A u \in ChatThreads : ~Contains(list, u) => its[u] = <<>>
      /\ \A u \in ChatThreads : Thinking(u) = {} => ThinkingIn(its[u]) = {}
  <2>1. System0 \in ChatThreads
    BY DEF ChatThreads
  <2> QED
    BY <2>1, TimelinesSynced
<1>2. /\ items' = IF Contains(list, t) THEN [its EXCEPT ![t] = timeline] ELSE its
      /\ pendingThread' = NoThread /\ placeholder' = [placeholder EXCEPT ![t] = 0]
  BY DEF Loads
<1> HIDE DEF its
<1>3. timeline \in Seq(Item) /\ \A k \in DOMAIN timeline : timeline[k] # "thinking"
  <2>1. /\ <<"text">> \in Seq(Item) /\ <<"text", "link">> \in Seq(Item)
        /\ \A k \in DOMAIN <<"text">> : <<"text">>[k] # "thinking"
        /\ \A k \in DOMAIN <<"text", "link">> : <<"text", "link">>[k] # "thinking"
    BY DEF Item
  <2> QED
    BY <2>1 DEF Timelines
<1>4. items' \in [ChatThreads -> Seq(Item)]
  BY <1>1, <1>2, <1>3
<1>5. placeholder' \in [ChatThreads -> Nat]
  BY <1>2 DEF ChatTypes
<1>6. ASSUME NEW u \in ChatThreads, Thinking(u) = {} \/ u = t PROVE Thinking(u)' = {}
  <2>1. CASE u = t /\ Contains(list, t)
    <3>1. items'[u] = timeline
      BY <1>1, <1>2, <2>1
    <3> QED
      BY <1>3, <3>1 DEF Thinking
  <2>2. CASE u = t /\ ~Contains(list, t)
    <3>1. items'[u] = <<>>
      BY <1>1, <1>2, <2>2
    <3> QED
      BY <3>1 DEF Thinking
  <2>3. CASE u # t
    <3>1. items'[u] = its[u] /\ Thinking(u) = {}
      BY <1>1, <1>2, <1>6, <2>3
    <3>2. Thinking(u)' = ThinkingIn(items'[u])
      BY DEF Thinking, ThinkingIn
    <3> QED
      BY <1>1, <3>1, <3>2
  <2> QED
    BY <2>1, <2>2, <2>3
<1> QED
  BY <1>2, <1>4, <1>5, <1>6

\* A request has failed, and the threads may have been refreshed: the placeholder of the turn
\* in flight is gone, with its thread or for an error.
LEMMA RequestFailed ==
  ASSUME ChatTypes, FlightInv, NEW list, NEW its, Fails(list, its),
         its \in [ChatThreads -> Seq(Item)],
         \A u \in ChatThreads :
           Thinking(u) = {} => ThinkingIn(its[u]) = {},
         \A u \in ChatThreads : IF Contains(list, u) THEN its[u] = items[u] \/ items[u] = <<>>
                                ELSE its[u] = <<>> \/ list = listed
  PROVE  /\ items' \in [ChatThreads -> Seq(Item)] /\ placeholder' \in [ChatThreads -> Nat]
         /\ pendingThread' = NoThread
         /\ ~early => \A u \in ChatThreads : Thinking(u)' = {}
<1> DEFINE t == pendingThread
<1>1. t \in ChatThreads \cup {NoThread} /\ placeholder \in [ChatThreads -> Nat] /\ NoThread \notin ChatThreads
  BY ChatAssumption DEF ChatTypes, ChatAssumption
<1>2. pendingThread' = NoThread
  BY DEF Fails
<1>3. \A u \in ChatThreads : Thinking(u)' = ThinkingIn(items'[u])
  BY DEF Thinking, ThinkingIn
<1>4. CASE t # NoThread /\ Contains(list, t)
  <2> DEFINE line == its[t]
             told == Append(WithoutPlaceholder(line, placeholder[t]), "error")
  <2>1. items' = [its EXCEPT ![t] = told] /\ placeholder' = [placeholder EXCEPT ![t] = 0]
    BY <1>4 DEF Fails
  <2>2. t \in ChatThreads /\ line \in Seq(Item) /\ placeholder[t] \in Nat
    BY <1>1, <1>4
  <2>3. told \in Seq(Item)
    <3>1. CASE placeholder[t] \in DOMAIN line
      <4> DEFINE n == Len(line)
                 k == placeholder[t]
                 rest == SubSeq(line, 1, k - 1) \o SubSeq(line, k + 1, n)
      <4>1. n \in Nat /\ k \in 1..n
        BY <2>2, <3>1
      <4>2. rest \in Seq(Item)
        BY <2>2, <4>1
      <4>3. WithoutPlaceholder(line, k) = rest
        BY <3>1 DEF WithoutPlaceholder, RemoveAt
      <4> HIDE DEF rest
      <4> QED
        BY <4>2, <4>3 DEF Item
    <3>2. CASE placeholder[t] \notin DOMAIN line
      BY <2>2, <3>2 DEF WithoutPlaceholder, Item
    <3> QED
      BY <3>1, <3>2
  <2> HIDE DEF told
  <2>4. items' \in [ChatThreads -> Seq(Item)] /\ placeholder' \in [ChatThreads -> Nat]
    BY <1>1, <2>1, <2>3
  <2>5. ASSUME ~early, NEW u \in ChatThreads PROVE Thinking(u)' = {}
    <3>1. pending.kind = "turn" /\ pending.thread = t
      BY <1>1, <1>4, <2>5 DEF FlightInv
    <3>2. pending = Request("turn", t)
      BY <3>1 DEF ChatTypes
    <3>3. Thinking(t) = {placeholder[t]}
      BY <2>2, <2>5, <3>2 DEF FlightInv
    <3>4. CASE u = t
      <4>1. line = items[t]
        <5>1. items[t] # <<>>
          <6>1. placeholder[t] \in DOMAIN items[t]
            BY <3>3 DEF Thinking
          <6>2. \A k \in DOMAIN <<>> : FALSE
            OBVIOUS
          <6> QED
            BY <6>1, <6>2
        <5> QED
          BY <1>4, <2>2, <5>1
      <4>2. placeholder[t] \in DOMAIN line
        BY <3>3, <4>1 DEF Thinking
      <4>3. \A j \in DOMAIN line : line[j] = "thinking" => j = placeholder[t]
        BY <3>3, <4>1 DEF Thinking
      <4>4. \A j \in DOMAIN told : told[j] # "thinking"
        BY <2>2, <4>2, <4>3, PlaceholderTaken DEF told
      <4>5. items'[u] = told
        BY <2>1, <2>2, <3>4
      <4> QED
        BY <1>3, <4>4, <4>5 DEF ThinkingIn
    <3>5. CASE u # t
      <4>1. Thinking(u) = {}
        BY <2>5, <3>2, <3>5 DEF FlightInv, Request
      <4>2. items'[u] = its[u]
        BY <2>1, <3>5
      <4> QED
        BY <1>3, <4>1, <4>2
    <3> QED
      BY <3>4, <3>5
  <2> QED
    BY <1>2, <2>4, <2>5
<1>5. CASE ~(t # NoThread /\ Contains(list, t))
  <2>1. items' = its /\ placeholder' = placeholder
    BY <1>5 DEF Fails
  <2>2. ASSUME ~early, NEW u \in ChatThreads PROVE Thinking(u)' = {}
    <3>1. CASE Thinking(u) = {}
      BY <1>3, <2>1, <3>1
    <3>2. CASE Thinking(u) # {}
      <4>1. pending = Request("turn", u)
        BY <2>2, <3>2 DEF FlightInv
      <4>2. t = u /\ Contains(listed, u)
        BY <2>2, <4>1 DEF FlightInv, Request
      <4>3. ~Contains(list, u) /\ list # listed
        BY <1>1, <1>5, <4>2
      <4>4. its[u] = <<>>
        BY <4>3
      <4> QED
        BY <1>3, <2>1, <4>4 DEF ThinkingIn
    <3> QED
      BY <3>1, <3>2
  <2> QED
    BY <1>1, <1>2, <2>1, <2>2
<1> QED
  BY <1>4, <1>5

\* The answer to the request in flight, whatever it is.
LEMMA AnsweredStep == ChatIInv /\ Answered => ChatIInv'
<1> SUFFICES ASSUME ChatIInv, Answered PROVE ChatIInv'
  OBVIOUS
<1>0. ChatTypes /\ PaneInv /\ FlightInv
  BY DEF ChatIInv
<1>1. /\ items \in [ChatThreads -> Seq(Item)] /\ placeholder \in [ChatThreads -> Nat]
      /\ listed \in Listings /\ active \in ChatThreads /\ sidebar \in ChatThreads
      /\ focus \in {"sidebar", "main", "input"} /\ System0 \in ChatThreads
      /\ pending = Request(pending.kind, pending.thread)
  BY <1>0 DEF ChatTypes, ChatThreads
<1>s. ASSUME Settles("turn") \/ Settles("open"),
             listed' \in Listings, active' \in ChatThreads, sidebar' \in ChatThreads,
             Contains(listed', active'), Contains(listed', sidebar'),
             focus' \in {focus, "main"},
             items' \in [ChatThreads -> Seq(Item)], placeholder' \in [ChatThreads -> Nat],
             pendingThread' \in ChatThreads \cup {NoThread},
             ~early => pendingThread' = NoThread /\ \A t \in ChatThreads : Thinking(t)' = {}
      PROVE  ChatIInv'
  <2>1. pending' = NoRequest /\ UNCHANGED <<navigating, hidden, early>>
    BY <1>s DEF Settles
  <2>2. ChatTypes'
    <3>1. /\ pending'.kind \in {"none", "turn", "open"}
          /\ pending' = Request(pending'.kind, pending'.thread)
      BY <2>1 DEF NoRequest, Request
    <3> QED
      BY <1>0, <1>1, <1>s, <2>1, <3>1 DEF ChatTypes
  <2>3. PaneInv'
    BY <1>0, <1>s, <2>1 DEF PaneInv
  <2>4. FlightInv'
    BY <1>s, <2>1 DEF FlightInv, NoRequest, Request
  <2> QED
    BY <2>2, <2>3, <2>4 DEF ChatIInv
<1>t. ~early /\ pending.kind = "turn" =>
        /\ pendingThread = pending.thread /\ pending.thread \in ChatThreads
        /\ Contains(listed, pending.thread)
        /\ \A t \in ChatThreads : t # pending.thread => Thinking(t) = {}
  BY <1>0 DEF FlightInv, Request
<1>o. ~early /\ pending.kind = "open" =>
        pendingThread = NoThread /\ \A t \in ChatThreads : Thinking(t) = {}
  BY <1>0 DEF FlightInv, Request
<1>2. CASE RequestFails
  <2>1. /\ Settles("turn") \/ Settles("open")
        /\ UNCHANGED <<listed, active, sidebar, focus>> /\ Fails(listed, items)
    BY <1>2 DEF RequestFails, NoRefresh
  <2>2. /\ \A u \in ChatThreads :
             Thinking(u) = {} => ThinkingIn(items[u]) = {}
        /\ \A u \in ChatThreads : IF Contains(listed, u) THEN items[u] = items[u] \/ items[u] = <<>>
                                  ELSE items[u] = <<>> \/ listed = listed
    BY DEF Thinking, ThinkingIn
  <2>3. /\ items' \in [ChatThreads -> Seq(Item)] /\ placeholder' \in [ChatThreads -> Nat]
        /\ pendingThread' = NoThread
        /\ ~early => \A u \in ChatThreads : Thinking(u)' = {}
    BY <1>0, <1>1, <2>1, <2>2, RequestFailed
  <2>4. Contains(listed', active') /\ Contains(listed', sidebar')
    BY <1>0, <2>1 DEF PaneInv
  <2> QED
    BY <1>1, <1>s, <2>1, <2>3, <2>4
<1>3. CASE OpenFails
  <2>1. Settles("open") /\ UNCHANGED <<focus, pendingThread, placeholder>> /\ pending.kind = "open"
    BY <1>3 DEF OpenFails, Settles
  <2>2. pendingThread' \in ChatThreads \cup {NoThread}
    BY <1>0, <2>1 DEF ChatTypes
  <2>3. CASE NoRefresh /\ UNCHANGED items
    <3>1. UNCHANGED <<listed, active, sidebar, items>>
      BY <2>3 DEF NoRefresh
    <3>2. Contains(listed', active') /\ Contains(listed', sidebar')
      BY <1>0, <3>1 DEF PaneInv
    <3>3. ~early => pendingThread' = NoThread /\ \A t \in ChatThreads : Thinking(t)' = {}
      BY <1>o, <2>1, <3>1 DEF Thinking
    <3> QED
      BY <1>1, <1>s, <2>1, <2>2, <3>1, <3>2, <3>3
  <2>4. ASSUME NEW list \in Listings, NEW saved,
               Refreshes(list, saved), SyncPanes(list), items' = Synced(list, saved)
        PROVE  ChatIInv'
    <3>1. listed' = list
      BY <2>4 DEF Refreshes
    <3>2. /\ active' \in ChatThreads /\ sidebar' \in ChatThreads
          /\ Contains(listed', active') /\ Contains(listed', sidebar')
      BY <1>0, <2>4, <3>1, PanesSynced
    <3>3. /\ items' \in [ChatThreads -> Seq(Item)]
          /\ \A t \in ChatThreads :
               Thinking(t) = {} => ThinkingIn(items'[t]) = {}
      BY <1>0, <2>4, <1>1, TimelinesSynced
    <3>4. ~early => pendingThread' = NoThread /\ \A t \in ChatThreads : Thinking(t)' = {}
      BY <1>o, <2>1, <3>3 DEF Thinking, ThinkingIn
    <3> QED
      BY <1>1, <1>s, <2>1, <2>2, <3>1, <3>2, <3>3, <3>4
  <2> QED
    BY <1>3, <2>3, <2>4 DEF OpenFails
<1>4. ASSUME NEW list \in Listings, NEW saved, LoadFails(list, saved) PROVE ChatIInv'
  <2> DEFINE its == Synced(list, saved)
  <2>1. /\ Settles("turn") /\ UNCHANGED focus /\ SyncPanes(list) /\ listed' = list
        /\ Fails(list, its)
    BY <1>4 DEF LoadFails, Refreshes
  <2>2. /\ active' \in ChatThreads /\ sidebar' \in ChatThreads
        /\ Contains(listed', active') /\ Contains(listed', sidebar')
    BY <1>0, <2>1, PanesSynced
  <2>3. /\ its \in [ChatThreads -> Seq(Item)]
        /\ \A t \in ChatThreads : ~Contains(list, t) => its[t] = <<>>
        /\ \A t \in ChatThreads :
             Thinking(t) = {} => ThinkingIn(its[t]) = {}
    BY <1>0, <1>1, TimelinesSynced
  <2>4. \A t \in ChatThreads : Contains(list, t) => its[t] = items[t] \/ items[t] = <<>>
    BY DEF Synced
  <2> HIDE DEF its
  <2>5. /\ items' \in [ChatThreads -> Seq(Item)] /\ placeholder' \in [ChatThreads -> Nat]
        /\ pendingThread' = NoThread
        /\ ~early => \A t \in ChatThreads : Thinking(t)' = {}
    BY <1>0, <2>1, <2>3, <2>4, RequestFailed
  <2> QED
    BY <1>1, <1>s, <2>1, <2>2, <2>5
<1>5. ASSUME NEW list \in Listings, NEW saved, NEW timeline \in Timelines,
             TurnAnswered(list, saved, timeline)
      PROVE  ChatIInv'
  <2>1. /\ Settles("turn") /\ UNCHANGED focus /\ SyncPanes(list) /\ listed' = list
        /\ Loads(pending.thread, list, Synced(list, saved), timeline) /\ pending.kind = "turn"
    BY <1>5 DEF TurnAnswered, Refreshes, Settles
  <2>2. /\ active' \in ChatThreads /\ sidebar' \in ChatThreads
        /\ Contains(listed', active') /\ Contains(listed', sidebar')
    BY <1>0, <2>1, PanesSynced
  <2>3. /\ items' \in [ChatThreads -> Seq(Item)] /\ placeholder' \in [ChatThreads -> Nat]
        /\ pendingThread' = NoThread
        /\ \A u \in ChatThreads : Thinking(u) = {} \/ u = pending.thread => Thinking(u)' = {}
    BY <1>0, <2>1, ThreadLoaded
  <2>4. ~early => \A t \in ChatThreads : Thinking(t)' = {}
    BY <1>t, <2>1, <2>3
  <2> QED
    BY <1>1, <1>s, <2>1, <2>2, <2>3, <2>4
<1>6. ASSUME NEW list \in Listings, NEW saved, NEW timeline \in Timelines,
             ThreadOpened(list, saved, timeline)
      PROVE  ChatIInv'
  <2>1. /\ Settles("open") /\ listed' = list /\ pending.kind = "open"
        /\ Loads(pending.thread, list, Synced(list, saved), timeline)
        /\ IF Contains(list, pending.thread)
           THEN active' = pending.thread /\ sidebar' = pending.thread /\ focus' = "main"
           ELSE SyncPanes(list) /\ UNCHANGED focus
    BY <1>6 DEF ThreadOpened, Refreshes, Settles
  <2>2. /\ active' \in ChatThreads /\ sidebar' \in ChatThreads /\ focus' \in {focus, "main"}
        /\ Contains(listed', active') /\ Contains(listed', sidebar')
    <3>1. CASE Contains(list, pending.thread)
      <4>1. pending.thread \in ChatThreads
        BY <3>1, ListingsAreThreads DEF Contains
      <4> QED
        BY <2>1, <3>1, <4>1
    <3>2. CASE ~Contains(list, pending.thread)
      BY <1>0, <2>1, <3>2, PanesSynced
    <3> QED
      BY <3>1, <3>2
  <2>3. /\ items' \in [ChatThreads -> Seq(Item)] /\ placeholder' \in [ChatThreads -> Nat]
        /\ pendingThread' = NoThread
        /\ \A u \in ChatThreads : Thinking(u) = {} \/ u = pending.thread => Thinking(u)' = {}
    BY <1>0, <2>1, ThreadLoaded
  <2>4. ~early => \A t \in ChatThreads : Thinking(t)' = {}
    BY <1>o, <2>1, <2>3
  <2> QED
    BY <1>1, <1>s, <2>1, <2>2, <2>3, <2>4
<1> QED
  BY <1>2, <1>3, <1>4, <1>5, <1>6 DEF Answered

\* The invariant holds whatever is typed, and however the daemon's threads come and go.
THEOREM ChatInvariance == ChatSpec => []ChatIInv
<1>1. ChatIInv /\ [ChatNext]_chatVars => ChatIInv'
  <2> SUFFICES ASSUME ChatIInv, [ChatNext]_chatVars PROVE ChatIInv'
    OBVIOUS
  <2>1. CASE UNCHANGED chatVars
    BY <2>1 DEF chatVars, paneVars, pendingVars, ChatIInv, ChatTypes, PaneInv, FlightInv, Thinking
  <2>2. CASE Keys
    BY <2>2, KeysStep
  <2>3. CASE Send
    BY <2>3, SendStep
  <2>4. CASE OpenFromSidebar
    <3>1. Open(sidebar) /\ sidebar \in ChatThreads /\ Contains(listed, sidebar)
      BY <2>4 DEF OpenFromSidebar, ChatIInv, ChatTypes, PaneInv
    <3> QED
      BY <3>1, OpenStep
  <2>5. ASSUME NEW t \in SubThreads, OpenLink(t) PROVE ChatIInv'
    <3>1. Open(t) /\ t \in ChatThreads /\ Contains(listed, t)
      BY <2>5 DEF OpenLink, ChatThreads
    <3> QED
      BY <3>1, OpenStep
  <2>6. CASE Answered
    BY <2>6, AnsweredStep
  <2> QED
    BY <2>1, <2>2, <2>3, <2>4, <2>5, <2>6 DEF ChatNext, Keys
<1> QED
  BY <1>1, ChatInitOK, PTL DEF ChatSpec

\* A placeholder is shown where the turn in flight will be answered and nowhere else, unless
\* a message was sent meanwhile; the thread shown is listed and the pane in focus is there.
THEOREM RequestsAreShown == ChatSpec => []ChatShowsRequests
<1>1. ChatIInv => ChatShowsRequests
  BY DEF ChatIInv, PaneInv, FlightInv, ChatShowsRequests
<1> QED
  BY <1>1, ChatInvariance, PTL

\* The variables of the chat keep their types.
THEOREM ChatTypeCorrect == ChatSpec => []ChatTypeOK
<1>1. ChatIInv => ChatTypeOK
  BY DEF ChatIInv, ChatTypes, ChatTypeOK, Item
<1> QED
  BY <1>1, ChatInvariance, PTL
-----------------------------------------------------------------------------
(* A2A tasks and their streams.                                             *)

HandlerKinds == {"send", "stream", "subscribe", "cancel"}
Creates(c) == what[c] \in {"send", "stream"}

\* What a handler may have left to do.
StepsOf(kind) ==
  CASE kind = "none" -> {<<>>}
    [] kind = "send" -> {<<"submit">>, <<>>}
    [] kind = "stream" -> {<<"subscribe", "submit">>, <<"submit">>, <<>>}
    [] kind = "subscribe" -> {<<"subscribe">>, <<>>}
    [] kind = "cancel" -> {<<"set", "notify">>, <<"notify">>, <<>>}

A2aTypes ==
  /\ A2aTypeOK
  /\ what \in [HttpClients -> HandlerKinds \cup {"none"}]
  /\ DOMAIN about = HttpClients /\ about = [c \in HttpClients |-> about[c]]
  /\ DOMAIN hsteps = HttpClients /\ hsteps = [c \in HttpClients |-> hsteps[c]]
  /\ \A c \in HttpClients :
       hsteps[c] \in StepsOf(what[c]) /\ (what[c] # "none" => about[c] \in A2aIds)
  /\ subscribers \in [A2aIds -> SUBSET HttpClients]
  /\ submitted \in Seq(A2aIds) /\ taken \subseteq A2aIds
  /\ notifying = NoReport \/ notifying \in A2aIds \X Statuses

\* The records: who handles a task finds its record, some client has made it, and a report
\* set it unless a cancellation did since.
RecordInv ==
  /\ \A c \in HttpClients : what[c] # "none" => record[about[c]] # "absent"
  /\ \A i \in A2aIds : record[i] # "absent" => \E c \in HttpClients : Creates(c) /\ about[c] = i
  /\ \A i \in A2aIds : reported[i] # "none" /\ i \notin cancelled => record[i] = reported[i]

\* The orchestrator knows what a handler has submitted, and reports on nothing else.
TakenInv ==
  /\ \A i \in taken : \E c \in HttpClients : Creates(c) /\ about[c] = i /\ hsteps[c] = <<>>
  /\ \A k \in DOMAIN submitted :
       \E c \in HttpClients : Creates(c) /\ about[c] = submitted[k] /\ hsteps[c] = <<>>
  /\ \A i \in A2aIds : reported[i] # "none" => i \in taken
  /\ notifying # NoReport => notifying[2] = reported[notifying[1]]

\* The streams: one is told of its task only, from its subscription on.
Subscribed(c) == what[c] = "stream" /\ c \notin refused /\ hsteps[c] # <<"subscribe", "submit">>

SubscribedInv ==
  /\ \A i \in A2aIds : \A c \in subscribers[i] :
       /\ what[c] # "none" /\ about[c] = i
       /\ hsteps[c] # <<"subscribe", "submit">>
  /\ \A c \in HttpClients : Subscribed(c) => c \in subscribers[about[c]]
  /\ \A c \in HttpClients :
       /\ what[c] = "none" \/ hsteps[c] = <<"subscribe", "submit">> => heard[c] = "none"
       /\ heard[c] = "done" => \E d \in HttpClients : what[d] = "cancel" /\ about[d] = about[c]

\* Nobody but c has created its task.
Alone(c) ==
  /\ what[c] = "stream" /\ c \notin refused
  /\ \A d \in HttpClients : d # c /\ about[d] = about[c] => ~Creates(d)

HeardInv ==
  \A c \in HttpClients :
    Alone(c) => \/ heard[c] \in {reported[about[c]], "done"}
                \/ notifying # NoReport /\ notifying[1] = about[c]

A2aIInv == A2aTypes /\ RecordInv /\ TakenInv /\ SubscribedInv /\ HeardInv

\* The invariant holds at the start.
LEMMA A2aInitOK == A2aInit => A2aIInv
<1> SUFFICES ASSUME A2aInit PROVE A2aIInv
  OBVIOUS
<1> USE DEF A2aInit
<1>1. A2aTypes
  BY DEF A2aTypes, A2aTypeOK, StepsOf
<1>2. RecordInv /\ TakenInv /\ SubscribedInv /\ HeardInv
  BY DEF RecordInv, TakenInv, SubscribedInv, HeardInv, Subscribed, Alone
<1> QED BY <1>1, <1>2 DEF A2aIInv

\* The sequences of steps are told apart by their lengths and heads.
LEMMA StepFacts ==
  /\ <<"submit">> # <<>> /\ <<"subscribe">> # <<>> /\ <<"notify">> # <<>>
  /\ <<"subscribe", "submit">> # <<>> /\ <<"set", "notify">> # <<>>
  /\ <<"subscribe", "submit">> # <<"submit">> /\ <<"subscribe", "submit">> # <<"subscribe">>
  /\ <<"subscribe", "submit">> # <<"notify">> /\ <<"subscribe", "submit">> # <<"set", "notify">>
  /\ Head(<<"submit">>) = "submit" /\ Tail(<<"submit">>) = <<>>
  /\ Head(<<"subscribe">>) = "subscribe" /\ Tail(<<"subscribe">>) = <<>>
  /\ Head(<<"notify">>) = "notify" /\ Tail(<<"notify">>) = <<>>
  /\ Head(<<"set", "notify">>) = "set" /\ Tail(<<"set", "notify">>) = <<"notify">>
  /\ Head(<<"subscribe", "submit">>) = "subscribe" /\ Tail(<<"subscribe", "submit">>) = <<"submit">>
  OBVIOUS

\* A step of a handler: whose it is and what is left.
LEMMA DoesFacts ==
  ASSUME A2aTypes, NEW c \in HttpClients, NEW step \in {"subscribe", "submit", "set", "notify"},
         Does(c, step), UNCHANGED what
  PROVE  /\ hsteps' = [hsteps EXCEPT ![c] = Tail(hsteps[c])]
         /\ hsteps[c] # <<>> /\ what[c] # "none" /\ about[c] \in A2aIds
         /\ hsteps'[c] \in StepsOf(what[c]) /\ hsteps'[c] # <<"subscribe", "submit">>
         /\ step = "submit" => Creates(c) /\ hsteps[c] = <<"submit">> /\ hsteps'[c] = <<>>
         /\ step = "subscribe" => hsteps[c] \in {<<"subscribe", "submit">>, <<"subscribe">>}
         /\ step \in {"set", "notify"} => what[c] = "cancel"
         /\ \A d \in HttpClients : d # c => hsteps'[d] = hsteps[d]
<1>1. /\ hsteps' = [hsteps EXCEPT ![c] = Tail(hsteps[c])] /\ hsteps[c] # <<>> /\ Head(hsteps[c]) = step
      /\ hsteps[c] \in StepsOf(what[c]) /\ what[c] \in HandlerKinds \cup {"none"}
      /\ DOMAIN hsteps = HttpClients
  BY DEF Does, WillDo, A2aTypes
<1>2. hsteps'[c] = Tail(hsteps[c]) /\ \A d \in HttpClients : d # c => hsteps'[d] = hsteps[d]
  BY <1>1
<1>3. what[c] # "none" /\ about[c] \in A2aIds
  BY <1>1 DEF StepsOf, A2aTypes
<1>4. CASE what[c] = "send"
  BY <1>1, <1>2, <1>3, <1>4, StepFacts DEF StepsOf, Creates
<1>5. CASE what[c] = "stream"
  BY <1>1, <1>2, <1>3, <1>5, StepFacts DEF StepsOf, Creates
<1>6. CASE what[c] = "subscribe"
  BY <1>1, <1>2, <1>3, <1>6, StepFacts DEF StepsOf, Creates
<1>7. CASE what[c] = "cancel"
  BY <1>1, <1>2, <1>3, <1>7, StepFacts DEF StepsOf, Creates
<1> QED BY <1>1, <1>3, <1>4, <1>5, <1>6, <1>7 DEF HandlerKinds

\* What AfterLookup gives a handler to do is what StepsOf says.
LEMMA LookupFacts ==
  ASSUME NEW kind \in HandlerKinds
  PROVE  /\ AfterLookup(kind) \in StepsOf(kind) /\ <<>> \in StepsOf(kind)
         /\ kind \in {"send", "stream"} => AfterLookup(kind) # <<>>
         /\ kind # "stream" => AfterLookup(kind) # <<"subscribe", "submit">>
         /\ kind = "stream" => AfterLookup(kind) = <<"subscribe", "submit">>
<1>1. CASE kind = "send"
  BY <1>1, StepFacts DEF AfterLookup, StepsOf
<1>2. CASE kind = "stream"
  BY <1>2, StepFacts DEF AfterLookup, StepsOf
<1>3. CASE kind = "subscribe"
  BY <1>3, StepFacts DEF AfterLookup, StepsOf
<1>4. CASE kind = "cancel"
  BY <1>4, StepFacts DEF AfterLookup, StepsOf
<1> QED BY <1>1, <1>2, <1>3, <1>4 DEF HandlerKinds

\* A new handler: the creator of a record that was not there, or one who found a record.
LEMMA HandlesOK ==
  ASSUME A2aIInv, NEW c \in HttpClients, NEW kind \in HandlerKinds, NEW i \in A2aIds, NEW steps,
         Handles(c, kind, i), WillDo(c, steps),
         steps = AfterLookup(kind) \/ (kind = "cancel" /\ steps = <<>>),
         \/ /\ kind \in {"send", "stream"} /\ record[i] = "absent"
            /\ record' = [record EXCEPT ![i] = "working"]
         \/ record[i] # "absent" /\ UNCHANGED record,
         UNCHANGED <<subscribers, submitted, taken, notifying, reports, heard, reported, cancelled, listening, refused>>
  PROVE  A2aIInv'
<1> USE DEF A2aIInv
<1>1. /\ what[c] = "none" /\ what' = [what EXCEPT ![c] = kind] /\ about' = [about EXCEPT ![c] = i]
      /\ hsteps' = [hsteps EXCEPT ![c] = steps]
  BY DEF Handles, WillDo
<1>2. /\ steps \in StepsOf(kind) /\ (kind \in {"send", "stream"} => steps # <<>>)
      /\ kind # "stream" => steps # <<"subscribe", "submit">>
      /\ kind = "stream" => steps = <<"subscribe", "submit">>
  BY LookupFacts, StepFacts
<1>t. /\ what \in [HttpClients -> HandlerKinds \cup {"none"}] /\ DOMAIN about = HttpClients /\ DOMAIN hsteps = HttpClients
      /\ record \in [A2aIds -> Statuses \cup {"absent"}]
      /\ \A d \in HttpClients : what[d] # "none" => about[d] \in A2aIds
      /\ subscribers \in [A2aIds -> SUBSET HttpClients]
  BY DEF A2aTypes, A2aTypeOK
<1>3. /\ what'[c] = kind /\ about'[c] = i /\ hsteps'[c] = steps
      /\ \A d \in HttpClients : d # c => what'[d] = what[d] /\ about'[d] = about[d] /\ hsteps'[d] = hsteps[d]
  BY <1>1, <1>t
<1>4. /\ record' \in [A2aIds -> Statuses \cup {"absent"}] /\ record'[i] # "absent"
      /\ \A j \in A2aIds : j # i => record'[j] = record[j]
      /\ \A j \in A2aIds : record[j] # "absent" => record'[j] = record[j]
  BY <1>t DEF Statuses
<1>5. A2aTypes'
  <2>1. A2aTypeOK'
    BY <1>3, <1>4 DEF A2aTypes, A2aTypeOK, HandlerKinds
  <2>2. /\ what' \in [HttpClients -> HandlerKinds \cup {"none"}]
        /\ DOMAIN about' = HttpClients /\ about' = [d \in HttpClients |-> about'[d]]
        /\ DOMAIN hsteps' = HttpClients /\ hsteps' = [d \in HttpClients |-> hsteps'[d]]
    BY <1>1, <1>t DEF A2aTypes
  <2>3. ASSUME NEW d \in HttpClients
        PROVE  hsteps'[d] \in StepsOf(what'[d]) /\ (what'[d] # "none" => about'[d] \in A2aIds)
    BY <1>2, <1>3 DEF A2aTypes
  <2> QED BY <2>1, <2>2, <2>3 DEF A2aTypes
<1>6. RecordInv'
  <2>1. \A d \in HttpClients : what'[d] # "none" => record'[about'[d]] # "absent"
    BY <1>3, <1>4, <1>t DEF RecordInv
  <2>2. ASSUME NEW j \in A2aIds, record'[j] # "absent"
        PROVE  \E d \in HttpClients : Creates(d)' /\ about'[d] = j
    <3>1. CASE record[j] # "absent"
      <4>1. PICK d \in HttpClients : Creates(d) /\ about[d] = j
        BY <3>1 DEF RecordInv
      <4>2. d # c
        BY <1>1, <4>1 DEF Creates
      <4> QED BY <1>3, <4>1, <4>2 DEF Creates
    <3>2. CASE record[j] = "absent"
      <4>1. j = i /\ kind \in {"send", "stream"}
        BY <1>4, <2>2, <3>2
      <4> QED BY <1>3, <4>1 DEF Creates
    <3> QED BY <3>1, <3>2
  <2>3. \A j \in A2aIds : reported[j] # "none" => record[j] # "absent"
    <3> SUFFICES ASSUME NEW j \in A2aIds, reported[j] # "none" PROVE record[j] # "absent"
      OBVIOUS
    <3>1. PICK d \in HttpClients : Creates(d) /\ about[d] = j
      BY DEF TakenInv
    <3> QED BY <3>1 DEF RecordInv, Creates
  <2>4. \A j \in A2aIds : reported'[j] # "none" /\ j \notin cancelled' => record'[j] = reported'[j]
    BY <1>4, <2>3 DEF RecordInv
  <2> QED BY <2>1, <2>2, <2>4 DEF RecordInv
\* Others who have created a task are still there.
<1>7. \A d \in HttpClients : Creates(d) => Creates(d)' /\ about'[d] = about[d] /\ hsteps'[d] = hsteps[d]
  BY <1>1, <1>3 DEF Creates
<1>8. TakenInv'
  BY <1>7 DEF TakenInv
<1>9. SubscribedInv'
  <2>1. \A j \in A2aIds : c \notin subscribers[j]
    BY <1>1 DEF SubscribedInv
  <2>2. \A j \in A2aIds : \A d \in subscribers[j] : d \in HttpClients /\ d # c
    BY <1>t, <2>1
  <2>3. ~Subscribed(c)' /\ heard[c] = "none"
    BY <1>1, <1>2, <1>3 DEF Subscribed, SubscribedInv
  <2>4. \A d \in HttpClients : what[d] = "cancel" => what'[d] = "cancel" /\ about'[d] = about[d]
    BY <1>1, <1>3
  <2>5. \A j \in A2aIds : \A d \in subscribers'[j] :
          what'[d] # "none" /\ about'[d] = j /\ hsteps'[d] # <<"subscribe", "submit">>
    BY <1>3, <2>2 DEF SubscribedInv
  <2>6. \A d \in HttpClients : Subscribed(d)' => d \in subscribers'[about'[d]]
    BY <1>3, <2>3 DEF SubscribedInv, Subscribed
  <2>7. \A d \in HttpClients :
          /\ what'[d] = "none" \/ hsteps'[d] = <<"subscribe", "submit">> => heard'[d] = "none"
          /\ heard'[d] = "done" => \E e \in HttpClients : what'[e] = "cancel" /\ about'[e] = about'[d]
    BY <1>3, <2>3, <2>4 DEF SubscribedInv
  <2> QED BY <2>5, <2>6, <2>7 DEF SubscribedInv
<1>10. HeardInv'
  <2> SUFFICES ASSUME NEW d \in HttpClients, Alone(d)'
               PROVE  \/ heard[d] \in {reported[about'[d]], "done"}
                      \/ notifying # NoReport /\ notifying[1] = about'[d]
    BY DEF HeardInv
  <2>1. CASE d = c
    <3>1. record[i] = "absent"
      <4> SUFFICES ASSUME record[i] # "absent" PROVE FALSE
        OBVIOUS
      <4>1. PICK e \in HttpClients : Creates(e) /\ about[e] = i
        BY DEF RecordInv
      <4>2. e # c /\ Creates(e)' /\ about'[e] = i
        BY <1>1, <1>7, <4>1 DEF Creates
      <4> QED BY <1>3, <2>1, <4>2 DEF Alone
    <3>2. reported[i] = "none"
      <4> SUFFICES ASSUME reported[i] # "none" PROVE FALSE
        OBVIOUS
      <4>1. PICK e \in HttpClients : Creates(e) /\ about[e] = i
        BY DEF TakenInv
      <4> QED BY <3>1, <4>1 DEF RecordInv, Creates
    <3>3. heard[c] = "none"
      BY <1>1 DEF SubscribedInv
    <3> QED BY <1>3, <2>1, <3>2, <3>3
  <2>2. CASE d # c
    <3>1. Alone(d)
      <4>1. what[d] = "stream" /\ about'[d] = about[d]
        BY <1>3, <2>2 DEF Alone
      <4>2. ASSUME NEW e \in HttpClients, e # d, about[e] = about[d] PROVE ~Creates(e)
        BY <1>7, <4>1, <4>2 DEF Alone
      <4> QED BY <4>1, <4>2 DEF Alone
    <3> QED BY <1>3, <2>2, <3>1 DEF HeardInv
  <2> QED BY <2>1, <2>2
<1> QED BY <1>5, <1>6, <1>8, <1>9, <1>10

\* Every step of a handler, an update or a client keeps the invariant.
LEMMA A2aStepOK ==
  ASSUME A2aIInv, [A2aNext]_a2aVars
  PROVE  A2aIInv'
<1> USE DEF A2aIInv
<1>t. /\ what \in [HttpClients -> HandlerKinds \cup {"none"}] /\ DOMAIN about = HttpClients /\ DOMAIN hsteps = HttpClients
      /\ record \in [A2aIds -> Statuses \cup {"absent"}]
      /\ heard \in [HttpClients -> Statuses \cup {"none", "done"}]
      /\ reported \in [A2aIds -> Statuses \cup {"none"}]
      /\ \A d \in HttpClients : hsteps[d] \in StepsOf(what[d]) /\ (what[d] # "none" => about[d] \in A2aIds)
      /\ \A d \in HttpClients : hsteps[d] # <<>> => what[d] # "none"
      /\ subscribers \in [A2aIds -> SUBSET HttpClients] /\ submitted \in Seq(A2aIds) /\ taken \subseteq A2aIds
      /\ notifying = NoReport \/ notifying \in A2aIds \X Statuses
  BY DEF A2aTypes, A2aTypeOK
<1>0. CASE UNCHANGED a2aVars
  <2> USE <1>0 DEF a2aVars
  <2>1. A2aTypes'
    BY DEF A2aTypes, A2aTypeOK
  <2>2. RecordInv' /\ TakenInv'
    BY DEF RecordInv, TakenInv, Creates
  <2>3. SubscribedInv' /\ HeardInv'
    BY DEF SubscribedInv, HeardInv, Creates, Subscribed, Alone
  <2> QED BY <2>1, <2>2, <2>3
<1>1. ASSUME NEW c \in HttpClients, NEW i \in A2aIds, NEW kind \in {"send", "stream"}, CreateTask(c, kind, i)
      PROVE  A2aIInv'
  BY <1>1, HandlesOK DEF CreateTask, HandlerKinds
<1>2. ASSUME NEW c \in HttpClients, NEW i \in A2aIds, NEW kind \in HandlerKinds, FindTask(c, kind, i) PROVE A2aIInv'
  <2>1. CASE kind = "cancel" /\ record[i] \in Ends
    BY <1>2, <2>1, HandlesOK DEF FindTask
  <2>2. CASE ~(kind = "cancel" /\ record[i] \in Ends)
    BY <1>2, <2>2, HandlesOK DEF FindTask
  <2> QED BY <2>1, <2>2
\* A step of a handler: the parts it has in common with the others.
<1>s. ASSUME NEW c \in HttpClients, NEW step \in {"subscribe", "submit", "set", "notify"}, Does(c, step),
             UNCHANGED <<what, about, refused>>
      PROVE  /\ \A d \in HttpClients : hsteps'[d] \in StepsOf(what'[d]) /\ (hsteps'[d] # <<>> => what'[d] # "none")
             /\ DOMAIN hsteps' = HttpClients /\ hsteps' = [d \in HttpClients |-> hsteps'[d]]
             /\ \A d \in HttpClients : hsteps[d] = <<>> => hsteps'[d] = <<>>
             /\ \A d \in HttpClients : hsteps'[d] = <<"subscribe", "submit">> => hsteps[d] = hsteps'[d] /\ d # c
             /\ \A d \in HttpClients : d # c => hsteps'[d] = hsteps[d]
             /\ about[c] \in A2aIds /\ what[c] # "none"
             /\ \A d \in HttpClients : (Creates(d) <=> Creates(d)') /\ (Alone(d) <=> Alone(d)')
  <2>1. /\ hsteps' = [hsteps EXCEPT ![c] = Tail(hsteps[c])]
        /\ hsteps[c] # <<>> /\ what[c] # "none" /\ about[c] \in A2aIds
        /\ hsteps'[c] \in StepsOf(what[c]) /\ hsteps'[c] # <<"subscribe", "submit">>
        /\ \A d \in HttpClients : d # c => hsteps'[d] = hsteps[d]
    BY <1>s, DoesFacts
  <2>2. \A d \in HttpClients : (Creates(d) <=> Creates(d)') /\ (Alone(d) <=> Alone(d)')
    BY <1>s DEF Creates, Alone
  <2> QED BY <1>s, <1>t, <2>1, <2>2
<1>3. ASSUME NEW c \in HttpClients, Subscribe(c) PROVE A2aIInv'
  <2> USE DEF Subscribe
  <2>1. /\ Does(c, "subscribe") /\ subscribers' = [subscribers EXCEPT ![about[c]] = @ \cup {c}]
        /\ UNCHANGED <<record, submitted, taken, notifying, reports, what, about, heard, reported, cancelled, listening, refused>>
    BY <1>3
  <2>2. A2aTypes'
    BY <1>3, <1>s, <1>t, <2>1 DEF A2aTypes, A2aTypeOK
  <2>3. RecordInv' /\ TakenInv' /\ HeardInv'
    BY <1>3, <1>s, <1>t, <2>1 DEF RecordInv, TakenInv, HeardInv
  <2>4. SubscribedInv'
    <3>1. \A j \in A2aIds : \A d \in subscribers'[j] :
            d \in HttpClients /\ (d \in subscribers[j] \/ (d = c /\ j = about[c]))
      BY <1>s, <1>t, <2>1
    <3>2. \A j \in A2aIds : subscribers[j] \subseteq subscribers'[j]
      BY <1>t, <2>1
    <3>3. c \in subscribers'[about[c]]
      BY <1>s, <1>t, <2>1
    <3>4. \A j \in A2aIds : \A d \in subscribers'[j] :
            what'[d] # "none" /\ about'[d] = j /\ hsteps'[d] # <<"subscribe", "submit">>
      BY <1>s, <2>1, <3>1 DEF SubscribedInv
    <3>5. ASSUME NEW d \in HttpClients, Subscribed(d)' PROVE d \in subscribers'[about'[d]]
      <4>1. CASE d = c
        BY <2>1, <3>3, <4>1
      <4>2. CASE d # c
        BY <1>s, <1>t, <2>1, <3>2, <3>5, <4>2 DEF SubscribedInv, Subscribed
      <4> QED BY <4>1, <4>2
    <3>6. \A d \in HttpClients :
            /\ what'[d] = "none" \/ hsteps'[d] = <<"subscribe", "submit">> => heard'[d] = "none"
            /\ heard'[d] = "done" => \E e \in HttpClients : what'[e] = "cancel" /\ about'[e] = about'[d]
      BY <1>s, <2>1 DEF SubscribedInv
    <3> QED BY <3>4, <3>5, <3>6 DEF SubscribedInv
  <2> QED BY <2>2, <2>3, <2>4
\* A step that leaves the streams' subscriptions and what they heard.
<1>u. ASSUME NEW c \in HttpClients, NEW step \in {"submit", "set"}, Does(c, step),
             UNCHANGED <<what, about, subscribers, heard, refused>>
      PROVE  SubscribedInv'
  <2>1. /\ \A d \in HttpClients : hsteps'[d] = <<"subscribe", "submit">> => hsteps[d] = hsteps'[d]
        /\ \A d \in HttpClients : d # c => hsteps'[d] = hsteps[d]
        /\ hsteps[c] # <<"subscribe", "submit">> \/ what[c] # "stream"
    BY <1>u, <1>s, DoesFacts, StepFacts
  <2>2. \A d \in HttpClients : Subscribed(d)' => Subscribed(d)
    BY <1>u, <2>1 DEF Subscribed
  <2>3. \A j \in A2aIds : \A d \in subscribers[j] : d \in HttpClients
    BY <1>t
  <2> QED BY <1>u, <2>1, <2>2, <2>3 DEF SubscribedInv
<1>4. ASSUME NEW c \in HttpClients, Submit(c) PROVE A2aIInv'
  <2>1. /\ Does(c, "submit") /\ submitted' = Append(submitted, about[c])
        /\ UNCHANGED <<record, subscribers, taken, notifying, reports, what, about, heard, reported, cancelled, listening, refused>>
    BY <1>4 DEF Submit
  <2>2. Creates(c) /\ hsteps'[c] = <<>>
    BY <2>1, DoesFacts
  <2>3. A2aTypes'
    <3>1. submitted' \in Seq(A2aIds)
      BY <1>s, <1>t, <2>1
    <3> QED BY <1>s, <1>t, <2>1, <3>1 DEF A2aTypes, A2aTypeOK
  <2>4. RecordInv' /\ HeardInv'
    BY <1>s, <2>1 DEF RecordInv, HeardInv
  <2>5. TakenInv'
    <3>1. \A k \in DOMAIN submitted' : submitted'[k] = about[c] \/ (k \in DOMAIN submitted /\ submitted'[k] = submitted[k])
      BY <1>s, <1>t, <2>1
    <3>2. \A d \in HttpClients : Creates(d) /\ hsteps[d] = <<>> => Creates(d)' /\ hsteps'[d] = <<>> /\ about'[d] = about[d]
      BY <1>s, <2>1
    <3>3. Creates(c)' /\ about'[c] = about[c]
      BY <1>s, <2>1, <2>2
    <3>4. \A k \in DOMAIN submitted' :
            \E d \in HttpClients : Creates(d)' /\ about'[d] = submitted'[k] /\ hsteps'[d] = <<>>
      BY <2>2, <3>1, <3>2, <3>3 DEF TakenInv
    <3>5. \A i \in taken' : \E d \in HttpClients : Creates(d)' /\ about'[d] = i /\ hsteps'[d] = <<>>
      BY <2>1, <3>2 DEF TakenInv
    <3> QED BY <2>1, <3>4, <3>5 DEF TakenInv
  <2> QED BY <1>u, <2>1, <2>3, <2>4, <2>5
\* A submission that fails: the client is refused and loses its stream.
<1>f. ASSUME NEW c \in HttpClients, SubmitFails(c) PROVE A2aIInv'
  <2>1. /\ Does(c, "submit") /\ refused' = refused \cup {c}
        /\ subscribers' = [subscribers EXCEPT ![about[c]] = @ \ {c}]
        /\ UNCHANGED <<record, submitted, taken, notifying, reports, what, about, heard, reported,
                       cancelled, listening>>
    BY <1>f DEF SubmitFails
  <2>2. /\ hsteps' = [hsteps EXCEPT ![c] = Tail(hsteps[c])] /\ about[c] \in A2aIds
        /\ hsteps'[c] \in StepsOf(what[c]) /\ hsteps'[c] = <<>>
        /\ \A d \in HttpClients : d # c => hsteps'[d] = hsteps[d]
    BY <2>1, DoesFacts
  <2>3. \A d \in HttpClients : (Creates(d) <=> Creates(d)') /\ (Alone(d)' => Alone(d))
    BY <2>1 DEF Creates, Alone
  <2>4. \A j \in A2aIds : subscribers'[j] \subseteq subscribers[j] /\ subscribers'[j] \in SUBSET HttpClients
    BY <1>t, <2>1
  <2>5. A2aTypes'
    <3>1. A2aTypeOK' /\ subscribers' \in [A2aIds -> SUBSET HttpClients]
      BY <1>t, <2>1, <2>2 DEF A2aTypes, A2aTypeOK
    <3>2. DOMAIN hsteps' = HttpClients /\ hsteps' = [d \in HttpClients |-> hsteps'[d]]
      BY <1>t, <2>2
    <3>3. \A d \in HttpClients : hsteps'[d] \in StepsOf(what'[d])
      BY <1>t, <2>1, <2>2
    <3> QED BY <1>t, <2>1, <3>1, <3>2, <3>3 DEF A2aTypes
  <2>6. RecordInv'
    BY <2>1, <2>3 DEF RecordInv
  <2>7. TakenInv'
    <3>1. \A d \in HttpClients : Creates(d) /\ hsteps[d] = <<>> => Creates(d)' /\ hsteps'[d] = <<>>
      BY <2>2, <2>3
    <3> QED BY <2>1, <3>1 DEF TakenInv
  <2>8. SubscribedInv'
    <3>1. <<>> # <<"subscribe", "submit">>
      BY StepFacts
    <3>2. \A j \in A2aIds : \A d \in subscribers'[j] :
            what'[d] # "none" /\ about'[d] = j /\ hsteps'[d] # <<"subscribe", "submit">>
      BY <1>t, <2>1, <2>2, <2>4, <3>1 DEF SubscribedInv
    <3>3. ASSUME NEW d \in HttpClients, Subscribed(d)' PROVE d \in subscribers'[about'[d]]
      <4>1. d # c /\ Subscribed(d)
        BY <2>1, <2>2, <3>3 DEF Subscribed
      <4>2. d \in subscribers[about[d]] /\ about[d] \in A2aIds
        BY <1>t, <4>1 DEF SubscribedInv, Subscribed
      <4> QED BY <1>t, <2>1, <4>1, <4>2
    <3>4. \A d \in HttpClients :
            /\ what'[d] = "none" \/ hsteps'[d] = <<"subscribe", "submit">> => heard'[d] = "none"
            /\ heard'[d] = "done" => \E e \in HttpClients : what'[e] = "cancel" /\ about'[e] = about'[d]
      BY <2>1, <2>2, <3>1 DEF SubscribedInv
    <3> QED BY <3>2, <3>3, <3>4 DEF SubscribedInv
  <2>9. HeardInv'
    BY <2>1, <2>3 DEF HeardInv
  <2> QED BY <2>5, <2>6, <2>7, <2>8, <2>9
<1>5. ASSUME NEW c \in HttpClients, CancelSets(c) PROVE A2aIInv'
  <2>1. /\ Does(c, "set") /\ record' = [record EXCEPT ![about[c]] = "failed"]
        /\ cancelled' = cancelled \cup {about[c]}
        /\ UNCHANGED <<subscribers, submitted, taken, notifying, reports, what, about, heard, reported, listening, refused>>
    BY <1>5 DEF CancelSets
  <2>2. record' \in [A2aIds -> Statuses \cup {"absent"}]
    BY <1>t, <2>1 DEF Statuses, Ends
  <2>3. A2aTypes'
    BY <1>s, <1>t, <2>1, <2>2 DEF A2aTypes, A2aTypeOK
  <2>4. RecordInv'
    <3>1. record[about[c]] # "absent"
      BY <1>s, <2>1 DEF RecordInv
    <3>2. \A i \in A2aIds : record'[i] = "absent" <=> record[i] = "absent"
      BY <1>s, <1>t, <2>1, <3>1
    <3>3. \A i \in A2aIds : i \notin cancelled' => i \notin cancelled /\ record'[i] = record[i]
      BY <1>s, <1>t, <2>1
    <3> QED BY <1>s, <1>t, <2>1, <3>2, <3>3 DEF RecordInv
  <2>5. TakenInv' /\ HeardInv'
    BY <1>s, <2>1 DEF TakenInv, HeardInv
  <2> QED BY <1>u, <2>1, <2>3, <2>4, <2>5
\* Who is told of a task: its subscribers, and nobody else.
<1>h. ASSUME NEW i \in A2aIds, NEW status \in Statuses \cup {"done"}, Tell(i, status)
      PROVE  /\ heard' \in [HttpClients -> Statuses \cup {"none", "done"}]
             /\ \A d \in HttpClients : d \in subscribers[i] => heard'[d] = status
             /\ \A d \in HttpClients : d \notin subscribers[i] => heard'[d] = heard[d]
             /\ \A d \in HttpClients : d \in subscribers[i] =>
                  what[d] # "none" /\ about[d] = i /\ hsteps[d] # <<"subscribe", "submit">>
  BY <1>h, <1>t DEF Tell, SubscribedInv
<1>6. ASSUME NEW c \in HttpClients, CancelNotifies(c) PROVE A2aIInv'
  <2>1. /\ Does(c, "notify") /\ Tell(about[c], "done")
        /\ UNCHANGED <<record, subscribers, submitted, taken, notifying, reports, what, about, reported, cancelled, listening, refused>>
    BY <1>6 DEF CancelNotifies
  <2>2. /\ what[c] = "cancel" /\ about[c] \in A2aIds
        /\ \A d \in HttpClients : hsteps'[d] = <<"subscribe", "submit">> => hsteps[d] = hsteps'[d]
        /\ \A d \in HttpClients : d # c => hsteps'[d] = hsteps[d]
    BY <1>s, <2>1, DoesFacts
  <2>3. A2aTypes'
    BY <1>s, <1>t, <1>h, <2>1, <2>2 DEF A2aTypes, A2aTypeOK
  <2>4. RecordInv' /\ TakenInv'
    BY <1>s, <2>1 DEF RecordInv, TakenInv
  <2>5. SubscribedInv'
    <3>1. \A d \in HttpClients : Subscribed(d)' => Subscribed(d)
      BY <2>1, <2>2 DEF Subscribed
    <3>2. \A j \in A2aIds : \A d \in subscribers[j] : d \in HttpClients
      BY <1>t
    <3>3. \A d \in HttpClients :
            heard'[d] = "done" => \E e \in HttpClients : what'[e] = "cancel" /\ about'[e] = about'[d]
      BY <1>h, <2>1, <2>2 DEF SubscribedInv
    <3>4. \A d \in HttpClients :
            what'[d] = "none" \/ hsteps'[d] = <<"subscribe", "submit">> => heard'[d] = "none"
      BY <1>h, <2>1, <2>2 DEF SubscribedInv
    <3>5. \A j \in A2aIds : \A d \in subscribers'[j] :
            what'[d] # "none" /\ about'[d] = j /\ hsteps'[d] # <<"subscribe", "submit">>
      BY <2>1, <2>2, <3>2 DEF SubscribedInv
    <3> QED BY <2>1, <3>1, <3>3, <3>4, <3>5 DEF SubscribedInv
  <2>6. HeardInv'
    BY <1>s, <1>h, <2>1, <2>2 DEF HeardInv
  <2> QED BY <2>3, <2>4, <2>5, <2>6
<1>7. CASE OrchestratorTakes
  <2>1. /\ submitted # <<>> /\ taken' = taken \cup {submitted[1]} /\ submitted' = Tail(submitted)
        /\ UNCHANGED <<record, subscribers, notifying, reports, what, about, hsteps, heard, reported, cancelled, listening, refused>>
    BY <1>7 DEF OrchestratorTakes
  <2>2. /\ submitted' \in Seq(A2aIds) /\ submitted[1] \in A2aIds /\ 1 \in DOMAIN submitted
        /\ \A k \in DOMAIN submitted' : k + 1 \in DOMAIN submitted /\ submitted'[k] = submitted[k + 1]
    BY <1>t, <2>1
  <2>3. A2aTypes'
    BY <1>t, <2>1, <2>2 DEF A2aTypes, A2aTypeOK
  <2>4. \A d \in HttpClients : (Creates(d) <=> Creates(d)') /\ (Alone(d) <=> Alone(d)') /\ (Subscribed(d) <=> Subscribed(d)')
    BY <2>1 DEF Creates, Alone, Subscribed
  <2>5. TakenInv'
    <3>1. \A i \in taken' : \E d \in HttpClients : Creates(d)' /\ about'[d] = i /\ hsteps'[d] = <<>>
      BY <2>1, <2>2, <2>4 DEF TakenInv
    <3>2. \A k \in DOMAIN submitted' :
            \E d \in HttpClients : Creates(d)' /\ about'[d] = submitted'[k] /\ hsteps'[d] = <<>>
      BY <2>1, <2>2, <2>4 DEF TakenInv
    <3> QED BY <2>1, <3>1, <3>2 DEF TakenInv
  <2>6. RecordInv' /\ SubscribedInv' /\ HeardInv'
    BY <2>1, <2>4 DEF RecordInv, SubscribedInv, HeardInv
  <2> QED BY <2>3, <2>5, <2>6
<1>l. CASE OrchestratorLeaves
  <2>1. /\ listening' = FALSE /\ submitted' = <<>>
        /\ UNCHANGED <<record, subscribers, taken, notifying, reports, what, about, hsteps, heard,
                       reported, cancelled, refused>>
    BY <1>l DEF OrchestratorLeaves
  <2>2. submitted' \in Seq(A2aIds) /\ DOMAIN submitted' = {}
    BY <2>1
  <2>3. A2aTypes'
    BY <1>t, <2>1, <2>2 DEF A2aTypes, A2aTypeOK
  <2>4. \A d \in HttpClients : (Creates(d) <=> Creates(d)') /\ (Alone(d) <=> Alone(d)') /\ (Subscribed(d) <=> Subscribed(d)')
    BY <2>1 DEF Creates, Alone, Subscribed
  <2>5. TakenInv'
    BY <2>1, <2>2, <2>4 DEF TakenInv
  <2>6. RecordInv' /\ SubscribedInv' /\ HeardInv'
    BY <2>1, <2>4 DEF RecordInv, SubscribedInv, HeardInv
  <2> QED BY <2>3, <2>5, <2>6
<1>8. ASSUME NEW i \in A2aIds, NEW type \in A2aReports, ReportUpdates(i, type) PROVE A2aIInv'
  <2> DEFINE s == StatusOf(type)
  <2>1. s \in Statuses /\ s # "none"
    BY DEF StatusOf, A2aReports, Statuses, Ends
  <2> HIDE DEF s
  <2>2. /\ i \in taken /\ notifying = NoReport /\ record' = [record EXCEPT ![i] = s] /\ notifying' = <<i, s>>
        /\ reported' = [reported EXCEPT ![i] = s] /\ cancelled' = cancelled \ {i}
        /\ UNCHANGED <<subscribers, submitted, taken, what, about, hsteps, heard, listening, refused>>
    BY <1>8 DEF ReportUpdates, s
  <2>3. /\ record' \in [A2aIds -> Statuses \cup {"absent"}] /\ reported' \in [A2aIds -> Statuses \cup {"none"}]
        /\ notifying' \in A2aIds \X Statuses /\ notifying'[1] = i /\ notifying'[2] = s
        /\ record'[i] = s /\ reported'[i] = s
        /\ \A j \in A2aIds : j # i => record'[j] = record[j] /\ reported'[j] = reported[j]
    BY <1>t, <2>1, <2>2
  <2>4. A2aTypes'
    BY <1>t, <2>2, <2>3 DEF A2aTypes, A2aTypeOK
  <2>5. \A d \in HttpClients : (Creates(d) <=> Creates(d)') /\ (Alone(d) <=> Alone(d)') /\ (Subscribed(d) <=> Subscribed(d)')
    BY <2>2 DEF Creates, Alone, Subscribed
  <2>6. RecordInv'
    <3>1. PICK d \in HttpClients : Creates(d) /\ about[d] = i
      BY <2>2 DEF TakenInv
    <3>2. s # "absent"
      BY <2>1 DEF Statuses, Ends
    <3>3. \A e \in HttpClients : what'[e] # "none" => record'[about'[e]] # "absent"
      BY <1>t, <2>2, <2>3, <3>2 DEF RecordInv
    <3>4. \A j \in A2aIds : record'[j] # "absent" => \E e \in HttpClients : Creates(e)' /\ about'[e] = j
      BY <2>2, <2>3, <2>5, <3>1 DEF RecordInv
    <3>5. \A j \in A2aIds : reported'[j] # "none" /\ j \notin cancelled' => record'[j] = reported'[j]
      BY <2>2, <2>3 DEF RecordInv
    <3> QED BY <3>3, <3>4, <3>5 DEF RecordInv
  <2>7. TakenInv'
    BY <2>2, <2>3, <2>5 DEF TakenInv
  <2>8. SubscribedInv'
    BY <2>2, <2>5 DEF SubscribedInv
  <2>9. HeardInv'
    <3> SUFFICES ASSUME NEW d \in HttpClients, Alone(d)
                 PROVE  \/ heard[d] \in {reported'[about[d]], "done"}
                        \/ notifying' # NoReport /\ notifying'[1] = about[d]
      BY <2>2, <2>5 DEF HeardInv
    <3>1. about[d] \in A2aIds
      BY <1>t DEF Alone
    <3>2. notifying' # NoReport
      BY <2>1, <2>2 DEF NoReport
    <3> QED BY <2>2, <2>3, <3>1, <3>2 DEF HeardInv
  <2> QED BY <2>4, <2>6, <2>7, <2>8, <2>9
<1>9. CASE ReportNotifies
  <2> DEFINE i == notifying[1]
             s == notifying[2]
  <2>1. /\ notifying # NoReport /\ i \in A2aIds /\ s \in Statuses /\ Tell(i, s) /\ notifying' = NoReport
        /\ s = reported[i]
        /\ UNCHANGED <<record, subscribers, submitted, taken, reports, what, about, hsteps, reported, cancelled, listening, refused>>
    BY <1>9, <1>t DEF ReportNotifies, TakenInv
  <2> HIDE DEF i, s
  <2>2. \A d \in HttpClients : (Creates(d) <=> Creates(d)') /\ (Alone(d) <=> Alone(d)') /\ (Subscribed(d) <=> Subscribed(d)')
    BY <2>1 DEF Creates, Alone, Subscribed
  <2>3. A2aTypes'
    BY <1>t, <1>h, <2>1 DEF A2aTypes, A2aTypeOK
  <2>4. RecordInv' /\ TakenInv'
    BY <2>1, <2>2 DEF RecordInv, TakenInv
  <2>5. SubscribedInv'
    <3>1. s # "done"
      BY <2>1 DEF Statuses, Ends
    <3>2. \A d \in HttpClients :
            /\ what'[d] = "none" \/ hsteps'[d] = <<"subscribe", "submit">> => heard'[d] = "none"
            /\ heard'[d] = "done" => heard[d] = "done"
      BY <1>h, <2>1, <3>1 DEF SubscribedInv
    <3> QED BY <2>1, <2>2, <3>2 DEF SubscribedInv
  <2>6. HeardInv'
    <3> SUFFICES ASSUME NEW d \in HttpClients, Alone(d) PROVE heard'[d] \in {reported[about[d]], "done"}
      BY <2>1, <2>2 DEF HeardInv
    <3>1. what[d] = "stream" /\ about[d] \in A2aIds /\ d \notin refused
      BY <1>t DEF Alone
    <3>2. CASE about[d] # i
      <4>1. d \notin subscribers[i]
        BY <1>h, <2>1, <3>2
      <4> QED BY <1>h, <2>1, <3>2, <4>1 DEF HeardInv, i
    <3>3. CASE about[d] = i
      <4>1. i \in taken
        BY <2>1 DEF TakenInv, Statuses, Ends
      <4>2. PICK e \in HttpClients : Creates(e) /\ about[e] = i /\ hsteps[e] = <<>>
        BY <4>1 DEF TakenInv
      <4>3. e = d
        BY <3>3, <4>2 DEF Alone
      <4>4. d \in subscribers[i]
        BY <3>1, <3>3, <4>2, <4>3, StepFacts DEF SubscribedInv, Subscribed
      <4> QED BY <1>h, <2>1, <3>3, <4>4
    <3> QED BY <3>2, <3>3
  <2> QED BY <2>3, <2>4, <2>5, <2>6
<1> QED BY <1>0, <1>1, <1>2, <1>3, <1>4, <1>5, <1>6, <1>7, <1>8, <1>9, <1>f, <1>l DEF A2aNext, HandlerKinds

-----------------------------------------------------------------------------

\* The invariant holds in every execution.
THEOREM A2aInvariance == A2aSpec => []A2aIInv
<1> QED BY A2aInitOK, A2aStepOK, PTL DEF A2aSpec

\* The stream of a client that alone created its task misses no report, and the record is
\* what the last report said unless a cancellation set it since: for any clients, tasks and
\* reports, and any order of their steps.
THEOREM StreamsMissNothing == A2aSpec => []StreamsMirrorRecords
<1>1. A2aIInv => StreamsMirrorRecords
  BY DEF A2aIInv, StreamsMirrorRecords, HeardInv, SubscribedInv, RecordInv, Alone, Creates
<1> QED BY <1>1, A2aInvariance, PTL

\* The variables of the A2A model hold values of their types.
THEOREM A2aTypeCorrect == A2aSpec => []A2aTypeOK
<1>1. A2aIInv => A2aTypeOK
  BY DEF A2aIInv, A2aTypes
<1> QED BY <1>1, A2aInvariance, PTL

-----------------------------------------------------------------------------
(* Triggers: the limits of messages and tasks.                              *)

TriggersSpec == TriggersInit /\ [][TriggersNext]_triggerVars

PassedSet == [user : Users, ofUser : Nat \ {0}, channel : Channels, ofChannel : Nat \ {0}, age : Nat]

TriggerTypes ==
  /\ perUser \in [Users -> SUBSET Stamps] /\ perChannel \in [Channels -> SUBSET Stamps]
  /\ passed \subseteq PassedSet /\ \A p \in passed : Recent(p.age)
  /\ activeTasks \in Nat /\ scheduler \in {"none", "running", "shut"}
  /\ firing \subseteq EnabledJobs
  /\ events \in Seq({"chat"} \cup EnabledJobs) /\ Len(events) <= TriggerRoom
  /\ verdict.result \in {"none", "concurrent", "user", "channel", "allowed"}
  /\ verdict.result # "none" => verdict.user \in Users /\ verdict.channel \in Channels

\* The stamps of one user or channel: within the limit, and those of this tick are numbered.
StampsOK(stamps, limit) ==
  /\ IsFiniteSet(stamps) /\ Cardinality(stamps) <= limit
  /\ \A s \in stamps : s.age = 0 => s.nth <= Cardinality({t \in stamps : t.age = 0})

\* f gives each message that was let through within the window a stamp of its own.
Fits(f, stamps) ==
  /\ \A p \in DOMAIN f : f[p] \in stamps
  /\ \A p, q \in DOMAIN f : f[p] = f[q] => p = q
  /\ \A s \in stamps : \E p \in DOMAIN f : f[p] = s

UserStamps(u) == [p \in PassedOfUser(u) |-> [age |-> p.age, nth |-> p.ofUser]]
ChannelStamps(c) == [p \in PassedInChannel(c) |-> [age |-> p.age, nth |-> p.ofChannel]]

StampInv ==
  /\ \A u \in Users : StampsOK(perUser[u], PerUser) /\ Fits(UserStamps(u), Retained(perUser[u]))
  /\ \A c \in Channels :
       StampsOK(perChannel[c], PerChannel) /\ Fits(ChannelStamps(c), Retained(perChannel[c]))

\* A message was refused because the window of its user or channel was full, and is.
VerdictInv ==
  /\ verdict.result = "user" => Cardinality(Retained(perUser[verdict.user])) = PerUser
  /\ verdict.result = "channel" => Cardinality(Retained(perChannel[verdict.channel])) = PerChannel

TaskInv == MaxConcurrent > 0 => activeTasks + Cardinality(Chats) < MaxConcurrent + TriggerRoom

TriggerIInv == TriggerTypes /\ StampInv /\ VerdictInv /\ TaskInv

\* As many messages have passed as there are stamps within the window.
LEMMA FitsCount ==
  ASSUME NEW f, NEW stamps, Fits(f, stamps), IsFiniteSet(stamps)
  PROVE  Cardinality(DOMAIN f) = Cardinality(stamps)
<1> DEFINE g == [p \in DOMAIN f |-> f[p]]
<1>1. g \in [DOMAIN f -> stamps]
  BY DEF Fits
<1>2. g \in Injection(DOMAIN f, stamps) /\ g \in Surjection(DOMAIN f, stamps)
  BY <1>1 DEF Fits, Injection, IsInjective, Surjection
<1> HIDE DEF g
<1> QED
  BY <1>2, FS_Injection

\* Old stamps go.
LEMMA StampsRetained ==
  ASSUME NEW stamps \in SUBSET Stamps, NEW limit \in Nat, StampsOK(stamps, limit)
  PROVE  /\ Retained(stamps) \in SUBSET Stamps /\ StampsOK(Retained(stamps), limit)
         /\ Retained(Retained(stamps)) = Retained(stamps)
         /\ IsFiniteSet(Retained(stamps)) /\ Cardinality(Retained(stamps)) \in Nat
         /\ Cardinality(Retained(stamps)) <= limit
<1>1. Retained(stamps) \in SUBSET stamps /\ Retained(Retained(stamps)) = Retained(stamps)
  BY DEF Retained
<1>2. /\ IsFiniteSet(Retained(stamps)) /\ Cardinality(stamps) \in Nat
      /\ Cardinality(Retained(stamps)) \in Nat
      /\ Cardinality(Retained(stamps)) <= Cardinality(stamps)
  BY <1>1, FS_Subset, FS_CardinalityType DEF StampsOK
<1>3. Cardinality(Retained(stamps)) <= limit
  BY <1>2 DEF StampsOK
<1>4. {t \in Retained(stamps) : t.age = 0} = {t \in stamps : t.age = 0}
  BY TriggersAssumption DEF TriggersAssumption, Retained, Recent
<1>5. StampsOK(Retained(stamps), limit)
  BY <1>1, <1>2, <1>3, <1>4 DEF StampsOK
<1> QED
  BY <1>1, <1>2, <1>3, <1>5

\* A stamp of this tick is added.
LEMMA StampAdded ==
  ASSUME NEW stamps \in SUBSET Stamps, NEW limit \in Nat, StampsOK(stamps, limit),
         Cardinality(Retained(stamps)) < limit,
         NEW more, more = Retained(stamps) \cup {Now(stamps)}
  PROVE  /\ Now(stamps) \in Stamps /\ Now(stamps) \notin stamps /\ Now(stamps).age = 0
         /\ more \in SUBSET Stamps /\ StampsOK(more, limit) /\ Retained(more) = more
<1> DEFINE zero == {t \in stamps : t.age = 0}
           now == Now(stamps)
<1>1. IsFiniteSet(zero) /\ Cardinality(zero) \in Nat
  <2>1. zero \in SUBSET stamps /\ IsFiniteSet(stamps)
    BY DEF StampsOK
  <2> HIDE DEF zero
  <2> QED
    BY <2>1, FS_Subset, FS_CardinalityType
<1>2. Window \in Nat \ {0}
  BY TriggersAssumption DEF TriggersAssumption
<1>3. now = [age |-> 0, nth |-> Cardinality(zero) + 1]
  BY DEF Now
<1>4. now \in Stamps /\ now.age = 0 /\ now.nth = Cardinality(zero) + 1
  BY <1>1, <1>2, <1>3 DEF Stamps
<1> HIDE DEF now
<1>5. now \notin stamps
  BY <1>1, <1>4 DEF StampsOK
<1>6. /\ Retained(stamps) \in SUBSET Stamps /\ IsFiniteSet(Retained(stamps))
      /\ Cardinality(Retained(stamps)) \in Nat /\ Retained(Retained(stamps)) = Retained(stamps)
  BY StampsRetained
<1>7. more = Retained(stamps) \cup {now}
  BY DEF now
<1>8. IsFiniteSet(more) /\ Cardinality(more) <= limit
  <2>1. now \notin Retained(stamps)
    BY <1>5 DEF Retained
  <2>2. Cardinality(more) = Cardinality(Retained(stamps)) + 1 /\ IsFiniteSet(more)
    BY <1>6, <1>7, <2>1, FS_AddElement
  <2> QED
    BY <1>6, <2>2
<1>9. Retained(more) = more
  BY <1>2, <1>4, <1>6, <1>7 DEF Retained, Recent
<1>10. StampsOK(more, limit)
  <2>1. {t \in more : t.age = 0} = zero \cup {now}
    BY <1>2, <1>4, <1>7 DEF Retained, Recent
  <2> HIDE DEF zero
  <2>2. now \notin zero
    BY <1>5 DEF zero
  <2>3. Cardinality({t \in more : t.age = 0}) = Cardinality(zero) + 1
    BY <1>1, <2>1, <2>2, FS_AddElement
  <2>4. ASSUME NEW s \in more, s.age = 0 PROVE s.nth <= Cardinality(zero) + 1
    <3>1. CASE s = now
      BY <1>1, <1>4, <3>1
    <3>2. CASE s # now
      <4>1. s \in stamps
        BY <1>7, <3>2 DEF Retained
      <4>2. s.nth <= Cardinality(zero) /\ s.nth \in Nat
        BY <2>4, <4>1 DEF StampsOK, zero, Stamps
      <4> QED
        BY <1>1, <4>2
    <3> QED
      BY <3>1, <3>2
  <2> QED
    BY <1>8, <2>3, <2>4 DEF StampsOK
<1> QED
  BY <1>4, <1>5, <1>6, <1>7, <1>9, <1>10 DEF now

Older(stamps) == {Aged(s) : s \in stamps}

\* A tick makes every stamp older.
LEMMA StampsAged ==
  ASSUME NEW stamps \in SUBSET Stamps, NEW limit \in Nat, StampsOK(stamps, limit)
  PROVE  /\ Older(stamps) \in SUBSET Stamps /\ StampsOK(Older(stamps), limit)
         /\ \A s \in Older(stamps) : Recent(s.age) =>
              \E t \in Retained(stamps) : s = [age |-> t.age + 1, nth |-> t.nth]
         /\ \A t \in Retained(stamps) : Recent(t.age + 1) =>
              [age |-> t.age + 1, nth |-> t.nth] \in Retained(Older(stamps))
<1> DEFINE older == Older(stamps)
<1>1. Window \in Nat \ {0}
  BY TriggersAssumption DEF TriggersAssumption
<1>2. ASSUME NEW s \in Stamps
      PROVE  /\ Aged(s) \in Stamps /\ Aged(s).age # 0
             /\ Recent(s.age) => Aged(s) = [age |-> s.age + 1, nth |-> s.nth]
             /\ ~Recent(s.age) => ~Recent(Aged(s).age)
  <2>1. /\ s = [age |-> s.age, nth |-> s.nth] /\ s.age \in Nat /\ s.age <= Window
        /\ s.nth \in Nat \ {0}
    BY <1>1 DEF Stamps
  <2>2. CASE s.age < Window
    <3>1. Aged(s) = [age |-> s.age + 1, nth |-> s.nth]
      BY <2>1, <2>2 DEF Aged
    <3> QED
      BY <1>1, <2>1, <2>2, <3>1 DEF Recent, Stamps
  <2>3. CASE ~(s.age < Window)
    <3>1. Aged(s) = [age |-> s.age, nth |-> s.nth] /\ s.age = Window
      BY <1>1, <2>1, <2>3 DEF Aged
    <3> QED
      BY <1>1, <2>1, <2>3, <3>1 DEF Recent, Stamps
  <2> QED
    BY <2>2, <2>3
<1>3. older \in SUBSET Stamps /\ \A s \in older : s.age # 0
  BY <1>2 DEF Older
<1>4. IsFiniteSet(older) /\ Cardinality(older) <= limit
  <2> DEFINE f == [s \in stamps |-> Aged(s)]
  <2>1. f \in Surjection(stamps, older)
    BY DEF Surjection, Older
  <2> HIDE DEF f
  <2>2. /\ IsFiniteSet(older) /\ Cardinality(older) <= Cardinality(stamps)
        /\ Cardinality(older) \in Nat /\ Cardinality(stamps) \in Nat
    BY <2>1, FS_Surjection, FS_CardinalityType DEF StampsOK
  <2> QED
    BY <2>2 DEF StampsOK
<1>5. StampsOK(older, limit)
  BY <1>3, <1>4 DEF StampsOK
<1>6. ASSUME NEW s \in older, Recent(s.age)
      PROVE  \E t \in Retained(stamps) : s = [age |-> t.age + 1, nth |-> t.nth]
  BY <1>2, <1>6 DEF Retained, Older
<1>7. ASSUME NEW t \in Retained(stamps), Recent(t.age + 1)
      PROVE  [age |-> t.age + 1, nth |-> t.nth] \in Retained(older)
  BY <1>2, <1>7 DEF Retained, Older
<1> QED
  BY <1>3, <1>5, <1>6, <1>7

\* One more message, one more stamp.
LEMMA FitsAdded ==
  ASSUME NEW f, NEW stamps, Fits(f, stamps), NEW p, p \notin DOMAIN f, NEW s, s \notin stamps,
         NEW g, DOMAIN g = DOMAIN f \cup {p}, g[p] = s, \A q \in DOMAIN f : g[q] = f[q]
  PROVE  Fits(g, stamps \cup {s})
BY DEF Fits

\* The messages that stay within the window when time goes on keep their stamps.
LEMMA FitsAged ==
  ASSUME NEW stamps \in SUBSET Stamps, NEW limit \in Nat, StampsOK(stamps, limit),
         NEW f, NEW g, Fits(f, Retained(stamps)),
         DOMAIN f \subseteq PassedSet, \A p \in DOMAIN f : Recent(p.age) /\ f[p].age = p.age,
         DOMAIN g = {Aged(p) : p \in {q \in DOMAIN f : Recent(q.age + 1)}},
         \A p \in DOMAIN f : Recent(p.age + 1) =>
           g[Aged(p)] = [age |-> f[p].age + 1, nth |-> f[p].nth]
  PROVE  Fits(g, Retained(Older(stamps)))
<1> DEFINE older == Older(stamps)
<1>1. /\ \A s \in older : Recent(s.age) =>
           \E t \in Retained(stamps) : s = [age |-> t.age + 1, nth |-> t.nth]
      /\ \A t \in Retained(stamps) : Recent(t.age + 1) =>
           [age |-> t.age + 1, nth |-> t.nth] \in Retained(older)
  BY StampsAged
<1> HIDE DEF older
<1>2. ASSUME NEW x \in DOMAIN g
      PROVE  \E p \in DOMAIN f : /\ Recent(p.age + 1) /\ x = Aged(p)
                                 /\ g[x] = [age |-> f[p].age + 1, nth |-> f[p].nth]
                                 /\ f[p] \in Retained(stamps) /\ f[p].age = p.age
  BY DEF Fits
<1>3. ASSUME NEW x \in DOMAIN g PROVE g[x] \in Retained(older)
  BY <1>1, <1>2
<1>4. ASSUME NEW x \in DOMAIN g, NEW y \in DOMAIN g, g[x] = g[y] PROVE x = y
  <2>1. PICK p \in DOMAIN f : /\ x = Aged(p) /\ f[p] \in Retained(stamps)
                              /\ g[x] = [age |-> f[p].age + 1, nth |-> f[p].nth]
    BY <1>2
  <2>2. PICK q \in DOMAIN f : /\ y = Aged(q) /\ f[q] \in Retained(stamps)
                              /\ g[y] = [age |-> f[q].age + 1, nth |-> f[q].nth]
    BY <1>2
  <2>3. f[p] \in Stamps /\ f[q] \in Stamps
    BY <2>1, <2>2 DEF Retained
  <2>4. f[p].age + 1 = f[q].age + 1 /\ f[p].nth = f[q].nth
    BY <1>4, <2>1, <2>2
  <2>5. f[p].age \in Nat /\ f[q].age \in Nat
    BY <2>3, TriggersAssumption DEF Stamps, TriggersAssumption
  <2>6. f[p].age = f[q].age
    BY <2>4, <2>5
  <2>7. f[p] = f[q]
    BY <2>3, <2>4, <2>6 DEF Stamps
  <2> QED
    BY <2>1, <2>2, <2>7 DEF Fits
<1>5. ASSUME NEW s \in Retained(older) PROVE \E x \in DOMAIN g : g[x] = s
  <2>1. s \in older /\ Recent(s.age)
    BY DEF Retained
  <2>2. PICK t \in Retained(stamps) : s = [age |-> t.age + 1, nth |-> t.nth]
    BY <1>1, <2>1
  <2>3. PICK p \in DOMAIN f : f[p] = t
    BY DEF Fits
  <2>4. Recent(p.age + 1)
    BY <2>1, <2>2, <2>3
  <2> QED
    BY <2>2, <2>3, <2>4
<1> QED
  BY <1>3, <1>4, <1>5 DEF Fits, older

\* Nothing has passed when the manager starts.
LEMMA TriggersInitOK == TriggersInit => TriggerIInv
<1> SUFFICES ASSUME TriggersInit PROVE TriggerIInv
  OBVIOUS
<1> USE TriggersAssumption DEF TriggersAssumption
<1>1. TriggerTypes
  BY DEF TriggersInit, TriggerTypes, NoVerdict
<1>2. IsFiniteSet({}) /\ Cardinality({}) = 0
  BY FS_EmptySet
<1>3. StampInv
  <2>1. StampsOK({}, PerUser) /\ StampsOK({}, PerChannel)
    BY <1>2 DEF StampsOK
  <2>2. Retained({}) = {}
    BY DEF Retained
  <2>3. \A u \in Users : DOMAIN UserStamps(u) = {}
    BY DEF TriggersInit, UserStamps, PassedOfUser
  <2>4. \A c \in Channels : DOMAIN ChannelStamps(c) = {}
    BY DEF TriggersInit, ChannelStamps, PassedInChannel
  <2>5. ASSUME NEW f, DOMAIN f = {} PROVE Fits(f, {})
    BY <2>5 DEF Fits
  <2>6. \A u \in Users : perUser[u] = {}
    BY DEF TriggersInit
  <2>7. \A c \in Channels : perChannel[c] = {}
    BY DEF TriggersInit
  <2> QED
    BY <2>1, <2>2, <2>3, <2>4, <2>5, <2>6, <2>7 DEF StampInv
<1>4. VerdictInv
  BY DEF TriggersInit, NoVerdict, VerdictInv
<1>5. TaskInv
  <2>1. Chats = {}
    BY DEF TriggersInit, Chats
  <2> QED
    BY <1>2, <2>1 DEF TriggersInit, TaskInv
<1> QED
  BY <1>1, <1>3, <1>4, <1>5 DEF TriggerIInv

\* What a message that is checked finds, and leaves.
LEMMA CheckedMessage ==
  ASSUME TriggerIInv, NEW m \in Messages, ProcessMessage(m)
  PROVE  LET result == CheckOf(m) u == m.user c == m.channel IN
         /\ u \in Users /\ c \in Channels
         /\ result \in {"concurrent", "user", "channel", "allowed"}
         /\ verdict' = [result |-> result, user |-> u, channel |-> c]
         /\ perUser' = [perUser EXCEPT ![u] =
              IF result = "concurrent" THEN @
              ELSE IF result = "allowed" THEN Retained(@) \cup {Now(@)} ELSE Retained(@)]
         /\ perChannel' = [perChannel EXCEPT ![c] =
              IF result \in {"concurrent", "user"} THEN @
              ELSE IF result = "allowed" THEN Retained(@) \cup {Now(@)} ELSE Retained(@)]
         /\ result # "allowed" => events' = events /\ passed' = passed
         /\ result = "user" => Cardinality(Retained(perUser[u])) = PerUser
         /\ result = "channel" => Cardinality(Retained(perChannel[c])) = PerChannel
         /\ result = "allowed" =>
              /\ Cardinality(Retained(perUser[u])) < PerUser
              /\ Cardinality(Retained(perChannel[c])) < PerChannel
              /\ activeTasks < MaxConcurrent
              /\ events' = Append(events, "chat")
              /\ passed' = passed \cup {[user |-> u, ofUser |-> Now(perUser[u]).nth, channel |-> c,
                                         ofChannel |-> Now(perChannel[c]).nth, age |-> 0]}
<1>1. m.user \in Users /\ m.channel \in Channels
  BY DEF Messages
<1>2. /\ Cardinality(Retained(perUser[m.user])) \in Nat
      /\ Cardinality(Retained(perUser[m.user])) <= PerUser
      /\ Cardinality(Retained(perChannel[m.channel])) \in Nat
      /\ Cardinality(Retained(perChannel[m.channel])) <= PerChannel
  BY <1>1, StampsRetained, TriggersAssumption
     DEF TriggersAssumption, TriggerIInv, TriggerTypes, StampInv
<1>3. {PerUser, PerChannel, MaxConcurrent} \subseteq Nat /\ activeTasks \in Nat
  BY TriggersAssumption DEF TriggersAssumption, TriggerIInv, TriggerTypes
<1>4. CheckOf(m) \in {"concurrent", "user", "channel", "allowed"}
  BY DEF CheckOf
<1>5. CheckOf(m) = "user" => Cardinality(Retained(perUser[m.user])) = PerUser
  BY <1>2, <1>3 DEF CheckOf
<1>6. CheckOf(m) = "channel" => Cardinality(Retained(perChannel[m.channel])) = PerChannel
  BY <1>2, <1>3 DEF CheckOf
<1>7. CheckOf(m) = "allowed" =>
        /\ Cardinality(Retained(perUser[m.user])) < PerUser
        /\ Cardinality(Retained(perChannel[m.channel])) < PerChannel
        /\ activeTasks < MaxConcurrent
  BY <1>2, <1>3 DEF CheckOf
<1> DEFINE result == CheckOf(m)
<1>8. /\ verdict' = [result |-> result, user |-> m.user, channel |-> m.channel]
      /\ Charged(m, result)
      /\ result # "allowed" => events' = events /\ passed' = passed
      /\ result = "allowed" =>
           /\ events' = Append(events, "chat")
           /\ passed' = passed \cup {[user |-> m.user, ofUser |-> Now(perUser[m.user]).nth,
                                      channel |-> m.channel,
                                      ofChannel |-> Now(perChannel[m.channel]).nth, age |-> 0]}
  BY DEF ProcessMessage
<1> HIDE DEF result
<1>9. /\ perUser' = [perUser EXCEPT ![m.user] =
           IF result = "concurrent" THEN @
           ELSE IF result = "allowed" THEN Retained(@) \cup {Now(@)} ELSE Retained(@)]
      /\ perChannel' = [perChannel EXCEPT ![m.channel] =
           IF result \in {"concurrent", "user"} THEN @
           ELSE IF result = "allowed" THEN Retained(@) \cup {Now(@)} ELSE Retained(@)]
  BY <1>8 DEF Charged
<1> QED
  BY <1>1, <1>4, <1>5, <1>6, <1>7, <1>8, <1>9 DEF result

\* Types: a message that passes is stamped within its window.
LEMMA TriggerTypesStep == TriggerIInv /\ [TriggersNext]_triggerVars => TriggerTypes'
<1> SUFFICES ASSUME TriggerIInv, [TriggersNext]_triggerVars PROVE TriggerTypes'
  OBVIOUS
<1>0. TriggerTypes /\ StampInv
  BY DEF TriggerIInv
<1>n. /\ {PerUser, PerChannel, MaxConcurrent} \subseteq Nat /\ Window \in Nat \ {0}
      /\ TriggerRoom \in Nat \ {0}
  BY TriggersAssumption DEF TriggersAssumption
<1>1. CASE UNCHANGED triggerVars
  BY <1>0, <1>1 DEF triggerVars, TriggerTypes, Recent
<1>2. ASSUME NEW m \in Messages, ProcessMessage(m) PROVE TriggerTypes'
  <2> DEFINE u == m.user
             c == m.channel
             result == CheckOf(m)
  <2>1. /\ u \in Users /\ c \in Channels
        /\ result \in {"concurrent", "user", "channel", "allowed"}
        /\ verdict' = [result |-> result, user |-> u, channel |-> c]
        /\ result # "allowed" => events' = events /\ passed' = passed
        /\ result = "allowed" =>
              /\ Cardinality(Retained(perUser[u])) < PerUser
              /\ Cardinality(Retained(perChannel[c])) < PerChannel
              /\ events' = Append(events, "chat")
              /\ passed' = passed \cup {[user |-> u, ofUser |-> Now(perUser[u]).nth, channel |-> c,
                                         ofChannel |-> Now(perChannel[c]).nth, age |-> 0]}
    BY <1>2, CheckedMessage
  <2>2. /\ perUser' = [perUser EXCEPT ![u] =
              IF result = "concurrent" THEN @
              ELSE IF result = "allowed" THEN Retained(@) \cup {Now(@)} ELSE Retained(@)]
        /\ perChannel' = [perChannel EXCEPT ![c] =
              IF result \in {"concurrent", "user"} THEN @
              ELSE IF result = "allowed" THEN Retained(@) \cup {Now(@)} ELSE Retained(@)]
    BY <1>2, CheckedMessage
  <2>3. /\ UNCHANGED <<activeTasks, scheduler, firing>> /\ Len(events) < TriggerRoom
    BY <1>2 DEF ProcessMessage
  <2> HIDE DEF result, u, c
  <2>4. /\ perUser[u] \in SUBSET Stamps /\ perChannel[c] \in SUBSET Stamps
        /\ StampsOK(perUser[u], PerUser) /\ StampsOK(perChannel[c], PerChannel)
    BY <1>0, <2>1 DEF TriggerTypes, StampInv
  <2>5. Retained(perUser[u]) \in SUBSET Stamps /\ Retained(perChannel[c]) \in SUBSET Stamps
    BY <2>4 DEF Retained
  <2>6. result = "allowed" => Now(perUser[u]) \in Stamps /\ Now(perChannel[c]) \in Stamps
    <3>1. ASSUME result = "allowed" PROVE Now(perUser[u]) \in Stamps
      <4>1. /\ perUser[u] \in SUBSET Stamps /\ StampsOK(perUser[u], PerUser) /\ PerUser \in Nat
            /\ Cardinality(Retained(perUser[u])) < PerUser
        BY <1>n, <2>1, <2>4, <3>1
      <4> QED
        BY <4>1, StampAdded
    <3>2. ASSUME result = "allowed" PROVE Now(perChannel[c]) \in Stamps
      <4>1. /\ perChannel[c] \in SUBSET Stamps /\ StampsOK(perChannel[c], PerChannel) /\ PerChannel \in Nat
            /\ Cardinality(Retained(perChannel[c])) < PerChannel
        BY <1>n, <2>1, <2>4, <3>2
      <4> QED
        BY <4>1, StampAdded
    <3> QED
      BY <3>1, <3>2
  <2>7. perUser' \in [Users -> SUBSET Stamps] /\ perChannel' \in [Channels -> SUBSET Stamps]
    <3>1. perUser' \in [Users -> SUBSET Stamps]
      BY <1>0, <2>1, <2>2, <2>4, <2>5, <2>6 DEF TriggerTypes
    <3>2. perChannel' \in [Channels -> SUBSET Stamps]
      BY <1>0, <2>1, <2>2, <2>4, <2>5, <2>6 DEF TriggerTypes
    <3> QED
      BY <3>1, <3>2
  <2>8. passed' \subseteq PassedSet /\ \A p \in passed' : Recent(p.age)
    <3>1. CASE result # "allowed"
      BY <1>0, <2>1, <3>1 DEF TriggerTypes, Recent
    <3>2. CASE result = "allowed"
      <4>1. Now(perUser[u]).nth \in Nat \ {0} /\ Now(perChannel[c]).nth \in Nat \ {0}
        BY <2>6, <3>2 DEF Stamps
      <4> DEFINE new == [user |-> u, ofUser |-> Now(perUser[u]).nth, channel |-> c,
                         ofChannel |-> Now(perChannel[c]).nth, age |-> 0]
      <4>2. new \in PassedSet /\ Recent(new.age)
        BY <1>n, <2>1, <4>1 DEF PassedSet, Recent
      <4>3. passed' = passed \cup {new}
        BY <2>1, <3>2
      <4> HIDE DEF new
      <4> QED
        BY <1>0, <4>2, <4>3 DEF TriggerTypes, Recent
    <3> QED
      BY <3>1, <3>2
  <2>9. events' \in Seq({"chat"} \cup EnabledJobs) /\ Len(events') <= TriggerRoom
    BY <1>0, <1>n, <2>1, <2>3 DEF TriggerTypes
  <2> QED
    BY <1>0, <2>1, <2>3, <2>7, <2>8, <2>9 DEF TriggerTypes
<1>3. CASE Tick
  <2>1. ASSUME NEW s, s.age \in Nat PROVE s.age < Window => s.age + 1 <= Window
    BY <1>n, <2>1
  <2>2. \A u \in Users : Older(perUser[u]) \in SUBSET Stamps
    BY <1>0, <1>n, StampsAged DEF TriggerTypes, StampInv
  <2>3. \A c \in Channels : Older(perChannel[c]) \in SUBSET Stamps
    BY <1>0, <1>n, StampsAged DEF TriggerTypes, StampInv
  <2>4. /\ perUser' = [u \in Users |-> Older(perUser[u])]
        /\ perChannel' = [c \in Channels |-> Older(perChannel[c])]
    BY <1>3 DEF Tick, Older
  <2>5. perUser' \in [Users -> SUBSET Stamps] /\ perChannel' \in [Channels -> SUBSET Stamps]
    BY <2>2, <2>3, <2>4
  <2>6. passed' \subseteq PassedSet /\ \A p \in passed' : Recent(p.age)
    <3>1. ASSUME NEW p \in passed, Recent(p.age + 1)
          PROVE  Aged(p) \in PassedSet /\ Recent(Aged(p).age)
      <4>1. p \in PassedSet /\ Recent(p.age)
        BY <1>0 DEF TriggerTypes
      <4>2. Aged(p) = [p EXCEPT !.age = p.age + 1]
        BY <4>1 DEF Aged, Recent
      <4> QED
        BY <3>1, <4>1, <4>2 DEF PassedSet
    <3>2. passed' = {Aged(p) : p \in {q \in passed : Recent(q.age + 1)}}
      BY <1>3 DEF Tick
    <3> QED
      BY <3>1, <3>2
  <2>7. UNCHANGED <<activeTasks, scheduler, firing, events>> /\ verdict' = [result |-> "none"]
    BY <1>3 DEF Tick, NoVerdict
  <2> QED
    BY <1>0, <2>5, <2>6, <2>7 DEF TriggerTypes
<1>4. CASE StartCron
  BY <1>0, <1>4 DEF StartCron, TriggerTypes, Recent
<1>5. ASSUME NEW j \in EnabledJobs, Fires(j) PROVE TriggerTypes'
  BY <1>0, <1>5 DEF Fires, TriggerTypes, Recent
<1>6. ASSUME NEW j \in EnabledJobs, SendsFire(j) PROVE TriggerTypes'
  <2>1. events' \in Seq({"chat"} \cup EnabledJobs) /\ Len(events') <= TriggerRoom
    BY <1>0, <1>n, <1>6 DEF SendsFire, TriggerTypes
  <2> QED
    BY <1>0, <1>6, <2>1 DEF SendsFire, TriggerTypes, Recent
<1>7. CASE ShutCron
  BY <1>0, <1>7 DEF ShutCron, TriggerTypes, Recent
<1>8. CASE TaskStarts
  <2>1. events' \in Seq({"chat"} \cup EnabledJobs) /\ Len(events') <= TriggerRoom
    BY <1>0, <1>n, <1>8 DEF TaskStarts, TriggerTypes
  <2>2. activeTasks' \in Nat
    BY <1>0, <1>8 DEF TaskStarts, TriggerTypes
  <2> QED
    BY <1>0, <1>8, <2>1, <2>2 DEF TaskStarts, TriggerTypes, Recent
<1>9. CASE TaskFinishes
  BY <1>0, <1>9 DEF TaskFinishes, TriggerTypes, Recent
<1> QED
  BY <1>1, <1>2, <1>3, <1>4, <1>5, <1>6, <1>7, <1>8, <1>9 DEF TriggersNext

\* The stamps are those of the messages that have passed: a message that is refused adds
\* none, and time takes a message and its stamps out of the window together.
LEMMA StampStep == TriggerIInv /\ [TriggersNext]_triggerVars => StampInv'
<1> SUFFICES ASSUME TriggerIInv, [TriggersNext]_triggerVars PROVE StampInv'
  OBVIOUS
<1>0. TriggerTypes /\ StampInv
  BY DEF TriggerIInv
<1>n. {PerUser, PerChannel} \subseteq Nat /\ Window \in Nat \ {0}
  BY TriggersAssumption DEF TriggersAssumption
<1>u. \A u \in Users : UserStamps(u) = [p \in PassedOfUser(u) |-> [age |-> p.age, nth |-> p.ofUser]]
  BY DEF UserStamps
<1>c. \A c \in Channels :
        ChannelStamps(c) = [p \in PassedInChannel(c) |-> [age |-> p.age, nth |-> p.ofChannel]]
  BY DEF ChannelStamps
<1>1. ASSUME UNCHANGED <<perUser, perChannel, passed>> PROVE StampInv'
  <2>1. \A u \in Users : UserStamps(u)' = UserStamps(u)
    BY <1>1 DEF UserStamps, PassedOfUser
  <2>2. \A c \in Channels : ChannelStamps(c)' = ChannelStamps(c)
    BY <1>1 DEF ChannelStamps, PassedInChannel
  <2> QED
    BY <1>0, <1>1, <2>1, <2>2 DEF StampInv, StampsOK, Fits, Retained
<1>2. ASSUME NEW m \in Messages, ProcessMessage(m) PROVE StampInv'
  <2> DEFINE u == m.user
             c == m.channel
             result == CheckOf(m)
             new == [user |-> u, ofUser |-> Now(perUser[u]).nth, channel |-> c,
                     ofChannel |-> Now(perChannel[c]).nth, age |-> 0]
  <2>1. /\ u \in Users /\ c \in Channels
        /\ result \in {"concurrent", "user", "channel", "allowed"}
        /\ result # "allowed" => passed' = passed
        /\ result = "allowed" =>
              /\ Cardinality(Retained(perUser[u])) < PerUser
              /\ Cardinality(Retained(perChannel[c])) < PerChannel
              /\ passed' = passed \cup {new}
    BY <1>2, CheckedMessage
  <2>2. /\ perUser' = [perUser EXCEPT ![u] =
              IF result = "concurrent" THEN @
              ELSE IF result = "allowed" THEN Retained(@) \cup {Now(@)} ELSE Retained(@)]
        /\ perChannel' = [perChannel EXCEPT ![c] =
              IF result \in {"concurrent", "user"} THEN @
              ELSE IF result = "allowed" THEN Retained(@) \cup {Now(@)} ELSE Retained(@)]
    BY <1>2, CheckedMessage
  <2>d. /\ new.user = u /\ new.channel = c /\ new.age = 0 /\ new.ofUser = Now(perUser[u]).nth
        /\ new.ofChannel = Now(perChannel[c]).nth
    OBVIOUS
  <2> HIDE DEF result, u, c, new
  <2>3. perUser \in [Users -> SUBSET Stamps] /\ perChannel \in [Channels -> SUBSET Stamps]
    BY <1>0 DEF TriggerTypes
  <2>4. /\ perUser[u] \in SUBSET Stamps /\ StampsOK(perUser[u], PerUser)
        /\ perChannel[c] \in SUBSET Stamps /\ StampsOK(perChannel[c], PerChannel)
    BY <1>0, <2>1, <2>3 DEF StampInv
  <2>5. /\ StampsOK(Retained(perUser[u]), PerUser)
        /\ Retained(Retained(perUser[u])) = Retained(perUser[u])
    BY <1>n, <2>4, StampsRetained
  <2>6. /\ StampsOK(Retained(perChannel[c]), PerChannel)
        /\ Retained(Retained(perChannel[c])) = Retained(perChannel[c])
    BY <1>n, <2>4, StampsRetained
  <2>7. CASE result # "allowed"
    <3>1. passed' = passed
      BY <2>1, <2>7
    <3>2. ASSUME NEW v \in Users
          PROVE  StampsOK(perUser'[v], PerUser) /\ Retained(perUser'[v]) = Retained(perUser[v])
      BY <1>0, <2>1, <2>2, <2>3, <2>5, <2>7 DEF StampInv
    <3>3. ASSUME NEW d \in Channels
          PROVE  /\ StampsOK(perChannel'[d], PerChannel)
                 /\ Retained(perChannel'[d]) = Retained(perChannel[d])
      BY <1>0, <2>1, <2>2, <2>3, <2>6, <2>7 DEF StampInv
    <3>4. ASSUME NEW v \in Users
          PROVE  (StampsOK(perUser[v], PerUser) /\ Fits(UserStamps(v), Retained(perUser[v])))'
      <4>1. UserStamps(v)' = UserStamps(v)
        BY <3>1 DEF UserStamps, PassedOfUser
      <4>2. Fits(UserStamps(v), Retained(perUser[v]))
        BY <1>0 DEF StampInv
      <4>3. Fits(UserStamps(v)', Retained(perUser'[v]))
        BY <3>2, <4>1, <4>2
      <4> QED
        BY <3>2, <4>3
    <3>5. ASSUME NEW d \in Channels
          PROVE  (StampsOK(perChannel[d], PerChannel)
                  /\ Fits(ChannelStamps(d), Retained(perChannel[d])))'
      <4>1. ChannelStamps(d)' = ChannelStamps(d)
        BY <3>1 DEF ChannelStamps, PassedInChannel
      <4>2. Fits(ChannelStamps(d), Retained(perChannel[d]))
        BY <1>0 DEF StampInv
      <4>3. Fits(ChannelStamps(d)', Retained(perChannel'[d]))
        BY <3>3, <4>1, <4>2
      <4> QED
        BY <3>3, <4>3
    <3> QED
      BY <3>4, <3>5 DEF StampInv
  <2>8. CASE result = "allowed"
    <3> DEFINE nowU == Now(perUser[u])
               nowC == Now(perChannel[c])
               moreU == Retained(perUser[u]) \cup {nowU}
               moreC == Retained(perChannel[c]) \cup {nowC}
    <3>1. /\ nowU \in Stamps /\ nowU \notin perUser[u] /\ nowU.age = 0
          /\ StampsOK(moreU, PerUser) /\ Retained(moreU) = moreU
      BY <1>n, <2>1, <2>4, <2>8, StampAdded
    <3>2. /\ nowC \in Stamps /\ nowC \notin perChannel[c] /\ nowC.age = 0
          /\ StampsOK(moreC, PerChannel) /\ Retained(moreC) = moreC
      BY <1>n, <2>1, <2>4, <2>8, StampAdded
    <3>3. /\ passed' = passed \cup {new}
          /\ perUser' = [perUser EXCEPT ![u] = moreU]
          /\ perChannel' = [perChannel EXCEPT ![c] = moreC]
      BY <2>1, <2>2, <2>8
    <3>4. nowU = [age |-> 0, nth |-> new.ofUser] /\ nowC = [age |-> 0, nth |-> new.ofChannel]
      BY <2>d, <3>1, <3>2 DEF Stamps
    <3> HIDE DEF nowU, nowC
    <3>5. new \notin passed
      <4> SUFFICES ASSUME new \in passed PROVE FALSE
        OBVIOUS
      <4>1. new \in DOMAIN UserStamps(u) /\ UserStamps(u)[new] = nowU
        BY <2>d, <3>4 DEF UserStamps, PassedOfUser
      <4>2. UserStamps(u)[new] \in Retained(perUser[u])
        BY <1>0, <2>1, <4>1 DEF StampInv, Fits
      <4> QED
        BY <3>1, <4>1, <4>2 DEF Retained
    <3>6. ASSUME NEW v \in Users
          PROVE  (StampsOK(perUser[v], PerUser) /\ Fits(UserStamps(v), Retained(perUser[v])))'
      <4>1. Fits(UserStamps(v), Retained(perUser[v])) /\ StampsOK(perUser[v], PerUser)
        BY <1>0 DEF StampInv
      <4>2. CASE v # u
        <5>1. perUser'[v] = perUser[v]
          BY <2>1, <2>3, <3>3, <4>2
        <5>2. PassedOfUser(v)' = PassedOfUser(v)
          BY <2>d, <3>3, <4>2 DEF PassedOfUser
        <5>3. UserStamps(v)' = UserStamps(v)
          BY <5>2 DEF UserStamps
        <5> QED
          BY <4>1, <5>1, <5>3
      <4>3. CASE v = u
        <5>1. perUser'[v] = moreU
          BY <2>1, <2>3, <3>3, <4>3
        <5>2. PassedOfUser(v)' = PassedOfUser(v) \cup {new} /\ new \notin PassedOfUser(v)
          BY <2>d, <3>3, <3>5, <4>3 DEF PassedOfUser
        <5>3. /\ DOMAIN UserStamps(v)' = DOMAIN UserStamps(v) \cup {new}
              /\ new \notin DOMAIN UserStamps(v)
              /\ UserStamps(v)'[new] = nowU
              /\ \A q \in DOMAIN UserStamps(v) : UserStamps(v)'[q] = UserStamps(v)[q]
          BY <2>d, <3>4, <5>2 DEF UserStamps
        <5>4. nowU \notin Retained(perUser[v])
          BY <3>1, <4>3 DEF Retained
        <5> DEFINE f == UserStamps(v)
                   g == UserStamps(v)'
        <5> HIDE DEF f, g
        <5>5. Fits(g, Retained(perUser[v]) \cup {nowU})
          <6>1. Fits(f, Retained(perUser[v])) /\ new \notin DOMAIN f
                /\ DOMAIN g = DOMAIN f \cup {new} /\ g[new] = nowU
                /\ \A q \in DOMAIN f : g[q] = f[q]
            BY <4>1, <5>3 DEF f, g
          <6> QED
            BY <5>4, <6>1, FitsAdded
        <5>6. Fits(UserStamps(v)', Retained(perUser'[v]))
          BY <3>1, <4>3, <5>1, <5>5 DEF g
        <5> QED
          BY <3>1, <5>1, <5>6
      <4> QED
        BY <4>2, <4>3
    <3>7. ASSUME NEW d \in Channels
          PROVE  (StampsOK(perChannel[d], PerChannel)
                  /\ Fits(ChannelStamps(d), Retained(perChannel[d])))'
      <4>1. Fits(ChannelStamps(d), Retained(perChannel[d])) /\ StampsOK(perChannel[d], PerChannel)
        BY <1>0 DEF StampInv
      <4>2. CASE d # c
        <5>1. perChannel'[d] = perChannel[d]
          BY <2>1, <2>3, <3>3, <4>2
        <5>2. PassedInChannel(d)' = PassedInChannel(d)
          BY <2>d, <3>3, <4>2 DEF PassedInChannel
        <5>3. ChannelStamps(d)' = ChannelStamps(d)
          BY <5>2 DEF ChannelStamps
        <5> QED
          BY <4>1, <5>1, <5>3
      <4>3. CASE d = c
        <5>1. perChannel'[d] = moreC
          BY <2>1, <2>3, <3>3, <4>3
        <5>2. PassedInChannel(d)' = PassedInChannel(d) \cup {new} /\ new \notin PassedInChannel(d)
          BY <2>d, <3>3, <3>5, <4>3 DEF PassedInChannel
        <5>3. /\ DOMAIN ChannelStamps(d)' = DOMAIN ChannelStamps(d) \cup {new}
              /\ new \notin DOMAIN ChannelStamps(d)
              /\ ChannelStamps(d)'[new] = nowC
              /\ \A q \in DOMAIN ChannelStamps(d) : ChannelStamps(d)'[q] = ChannelStamps(d)[q]
          BY <2>d, <3>4, <5>2 DEF ChannelStamps
        <5>4. nowC \notin Retained(perChannel[d])
          BY <3>2, <4>3 DEF Retained
        <5> DEFINE f == ChannelStamps(d)
                   g == ChannelStamps(d)'
        <5> HIDE DEF f, g
        <5>5. Fits(g, Retained(perChannel[d]) \cup {nowC})
          <6>1. Fits(f, Retained(perChannel[d])) /\ new \notin DOMAIN f
                /\ DOMAIN g = DOMAIN f \cup {new} /\ g[new] = nowC
                /\ \A q \in DOMAIN f : g[q] = f[q]
            BY <4>1, <5>3 DEF f, g
          <6> QED
            BY <5>4, <6>1, FitsAdded
        <5>6. Fits(ChannelStamps(d)', Retained(perChannel'[d]))
          BY <3>2, <4>3, <5>1, <5>5 DEF g
        <5> QED
          BY <3>2, <5>1, <5>6
      <4> QED
        BY <4>2, <4>3
    <3> QED
      BY <3>6, <3>7 DEF StampInv
  <2> QED
    BY <2>7, <2>8
<1>3. CASE Tick
  <2>1. /\ perUser' = [u \in Users |-> Older(perUser[u])]
        /\ perChannel' = [c \in Channels |-> Older(perChannel[c])]
        /\ passed' = {Aged(p) : p \in {q \in passed : Recent(q.age + 1)}}
    BY <1>3 DEF Tick, Older
  <2>2. passed \subseteq PassedSet /\ \A p \in passed : Recent(p.age)
    BY <1>0 DEF TriggerTypes
  <2>3. ASSUME NEW p \in passed
        PROVE  /\ Aged(p).user = p.user /\ Aged(p).channel = p.channel /\ Aged(p).age = p.age + 1
               /\ Aged(p).ofUser = p.ofUser /\ Aged(p).ofChannel = p.ofChannel
    <3>1. p \in PassedSet /\ Recent(p.age)
      BY <2>2
    <3>2. Aged(p) = [p EXCEPT !.age = p.age + 1]
      BY <3>1 DEF Aged, Recent
    <3> QED
      BY <3>1, <3>2 DEF PassedSet
  <2>4. ASSUME NEW v \in Users
        PROVE  (StampsOK(perUser[v], PerUser) /\ Fits(UserStamps(v), Retained(perUser[v])))'
    <3>1. /\ Fits(UserStamps(v), Retained(perUser[v])) /\ StampsOK(perUser[v], PerUser)
          /\ perUser[v] \in SUBSET Stamps
      BY <1>0 DEF StampInv, TriggerTypes
    <3>2. perUser'[v] = Older(perUser[v]) /\ StampsOK(perUser'[v], PerUser)
      BY <1>n, <2>1, <3>1, StampsAged
    <3> DEFINE f == UserStamps(v)
               g == UserStamps(v)'
    <3>3. DOMAIN f = PassedOfUser(v) /\ \A p \in DOMAIN f : f[p] = [age |-> p.age, nth |-> p.ofUser]
      BY DEF UserStamps
    <3>4. /\ DOMAIN g = PassedOfUser(v)'
          /\ \A p \in DOMAIN g : g[p] = [age |-> p.age, nth |-> p.ofUser]
      BY DEF UserStamps
    <3>5. PassedOfUser(v)' = {Aged(p) : p \in {q \in PassedOfUser(v) : Recent(q.age + 1)}}
      BY <2>1, <2>3 DEF PassedOfUser
    <3>6. Fits(f, Retained(perUser[v]))
      BY <3>1
    <3> HIDE DEF f, g
    <3>7. DOMAIN f \subseteq PassedSet /\ \A p \in DOMAIN f : Recent(p.age) /\ f[p].age = p.age
      <4>1. DOMAIN f \subseteq passed
        BY <3>3 DEF PassedOfUser
      <4>2. \A p \in DOMAIN f : f[p].age = p.age
        BY <3>3
      <4> QED
        BY <2>2, <4>1, <4>2
    <3>8. DOMAIN g = {Aged(p) : p \in {q \in DOMAIN f : Recent(q.age + 1)}}
      BY <3>3, <3>4, <3>5
    <3>9. \A p \in DOMAIN f : Recent(p.age + 1) =>
            g[Aged(p)] = [age |-> f[p].age + 1, nth |-> f[p].nth]
      <4> TAKE p \in DOMAIN f
      <4>1. p \in passed
        BY <3>3 DEF PassedOfUser
      <4>2. f[p] = [age |-> p.age, nth |-> p.ofUser]
        BY <3>3
      <4> QED
        BY <2>3, <3>4, <3>8, <4>1, <4>2
    <3>10. Fits(g, Retained(Older(perUser[v])))
      BY <1>n, <3>1, <3>6, <3>7, <3>8, <3>9, FitsAged
    <3> QED
      BY <3>2, <3>10 DEF g
  <2>5. ASSUME NEW d \in Channels
        PROVE  (StampsOK(perChannel[d], PerChannel)
                /\ Fits(ChannelStamps(d), Retained(perChannel[d])))'
    <3>1. /\ Fits(ChannelStamps(d), Retained(perChannel[d])) /\ StampsOK(perChannel[d], PerChannel)
          /\ perChannel[d] \in SUBSET Stamps
      BY <1>0 DEF StampInv, TriggerTypes
    <3>2. perChannel'[d] = Older(perChannel[d]) /\ StampsOK(perChannel'[d], PerChannel)
      BY <1>n, <2>1, <3>1, StampsAged
    <3> DEFINE f == ChannelStamps(d)
               g == ChannelStamps(d)'
    <3>3. /\ DOMAIN f = PassedInChannel(d)
          /\ \A p \in DOMAIN f : f[p] = [age |-> p.age, nth |-> p.ofChannel]
      BY DEF ChannelStamps
    <3>4. /\ DOMAIN g = PassedInChannel(d)'
          /\ \A p \in DOMAIN g : g[p] = [age |-> p.age, nth |-> p.ofChannel]
      BY DEF ChannelStamps
    <3>5. PassedInChannel(d)' = {Aged(p) : p \in {q \in PassedInChannel(d) : Recent(q.age + 1)}}
      BY <2>1, <2>3 DEF PassedInChannel
    <3>6. Fits(f, Retained(perChannel[d]))
      BY <3>1
    <3> HIDE DEF f, g
    <3>7. DOMAIN f \subseteq PassedSet /\ \A p \in DOMAIN f : Recent(p.age) /\ f[p].age = p.age
      <4>1. DOMAIN f \subseteq passed
        BY <3>3 DEF PassedInChannel
      <4>2. \A p \in DOMAIN f : f[p].age = p.age
        BY <3>3
      <4> QED
        BY <2>2, <4>1, <4>2
    <3>8. DOMAIN g = {Aged(p) : p \in {q \in DOMAIN f : Recent(q.age + 1)}}
      BY <3>3, <3>4, <3>5
    <3>9. \A p \in DOMAIN f : Recent(p.age + 1) =>
            g[Aged(p)] = [age |-> f[p].age + 1, nth |-> f[p].nth]
      <4> TAKE p \in DOMAIN f
      <4>1. p \in passed
        BY <3>3 DEF PassedInChannel
      <4>2. f[p] = [age |-> p.age, nth |-> p.ofChannel]
        BY <3>3
      <4> QED
        BY <2>3, <3>4, <3>8, <4>1, <4>2
    <3>10. Fits(g, Retained(Older(perChannel[d])))
      BY <1>n, <3>1, <3>6, <3>7, <3>8, <3>9, FitsAged
    <3> QED
      BY <3>2, <3>10 DEF g
  <2> QED
    BY <2>4, <2>5 DEF StampInv
<1>4. CASE StartCron \/ ShutCron \/ TaskStarts \/ TaskFinishes
  BY <1>1, <1>4 DEF StartCron, ShutCron, TaskStarts, TaskFinishes
<1>5. ASSUME NEW j \in EnabledJobs, Fires(j) \/ SendsFire(j) PROVE StampInv'
  BY <1>1, <1>5 DEF Fires, SendsFire
<1>6. CASE UNCHANGED triggerVars
  BY <1>1, <1>6 DEF triggerVars
<1> QED
  BY <1>2, <1>3, <1>4, <1>5, <1>6 DEF TriggersNext

\* A refusal for a full window is shown until time goes on, and the window stays full.
LEMMA VerdictStep == TriggerIInv /\ [TriggersNext]_triggerVars => VerdictInv'
<1> SUFFICES ASSUME TriggerIInv, [TriggersNext]_triggerVars PROVE VerdictInv'
  OBVIOUS
<1>0. TriggerTypes /\ StampInv /\ VerdictInv
  BY DEF TriggerIInv
<1>n. {PerUser, PerChannel} \subseteq Nat
  BY TriggersAssumption DEF TriggersAssumption
<1>1. ASSUME UNCHANGED <<perUser, perChannel, verdict>> PROVE VerdictInv'
  BY <1>0, <1>1 DEF VerdictInv, Retained
<1>2. ASSUME NEW m \in Messages, ProcessMessage(m) PROVE VerdictInv'
  <2> DEFINE u == m.user
             c == m.channel
             result == CheckOf(m)
  <2>1. /\ u \in Users /\ c \in Channels
        /\ verdict' = [result |-> result, user |-> u, channel |-> c]
        /\ result = "user" => Cardinality(Retained(perUser[u])) = PerUser
        /\ result = "channel" => Cardinality(Retained(perChannel[c])) = PerChannel
    BY <1>2, CheckedMessage
  <2>2. /\ perUser' = [perUser EXCEPT ![u] =
              IF result = "concurrent" THEN @
              ELSE IF result = "allowed" THEN Retained(@) \cup {Now(@)} ELSE Retained(@)]
        /\ perChannel' = [perChannel EXCEPT ![c] =
              IF result \in {"concurrent", "user"} THEN @
              ELSE IF result = "allowed" THEN Retained(@) \cup {Now(@)} ELSE Retained(@)]
    BY <1>2, CheckedMessage
  <2> HIDE DEF result, u, c
  <2>3. perUser \in [Users -> SUBSET Stamps] /\ perChannel \in [Channels -> SUBSET Stamps]
    BY <1>0 DEF TriggerTypes
  <2>4. /\ Retained(Retained(perUser[u])) = Retained(perUser[u])
        /\ Retained(Retained(perChannel[c])) = Retained(perChannel[c])
    BY DEF Retained
  <2>5. ASSUME result = "user" PROVE Cardinality(Retained(perUser'[u])) = PerUser
    BY <2>1, <2>2, <2>3, <2>4, <2>5
  <2>6. ASSUME result = "channel" PROVE Cardinality(Retained(perChannel'[c])) = PerChannel
    BY <2>1, <2>2, <2>3, <2>4, <2>6
  <2>7. /\ verdict'.result = "user" => Cardinality(Retained(perUser'[verdict'.user])) = PerUser
        /\ verdict'.result = "channel" =>
             Cardinality(Retained(perChannel'[verdict'.channel])) = PerChannel
    BY <2>1, <2>5, <2>6
  <2> QED
    BY <2>7 DEF VerdictInv
<1>3. CASE Tick
  BY <1>3 DEF Tick, NoVerdict, VerdictInv
<1>4. CASE StartCron \/ ShutCron \/ TaskStarts \/ TaskFinishes
  BY <1>1, <1>4 DEF StartCron, ShutCron, TaskStarts, TaskFinishes
<1>5. ASSUME NEW j \in EnabledJobs, Fires(j) \/ SendsFire(j) PROVE VerdictInv'
  BY <1>1, <1>5 DEF Fires, SendsFire
<1>6. CASE UNCHANGED triggerVars
  BY <1>1, <1>6 DEF triggerVars
<1> QED
  BY <1>2, <1>3, <1>4, <1>5, <1>6 DEF TriggersNext

\* The chat messages in the channel, and their number.
LEMMA ChatsInChannel ==
  ASSUME TriggerIInv
  PROVE  /\ Len(events) \in Nat /\ DOMAIN events = 1..Len(events)
         /\ IsFiniteSet(Chats) /\ Cardinality(Chats) \in Nat /\ Cardinality(Chats) <= Len(events)
<1>1. Len(events) \in Nat /\ DOMAIN events = 1..Len(events)
  BY DEF TriggerIInv, TriggerTypes
<1>2. IsFiniteSet(1..Len(events)) /\ Cardinality(1..Len(events)) = Len(events)
  <2> DEFINE n == Len(events)
  <2>1. n \in Int /\ 1 \in Int /\ n - 1 + 1 = n /\ (1 > n => n = 0)
    BY <1>1
  <2>2. IsFiniteSet(1..n) /\ Cardinality(1..n) = IF 1 > n THEN 0 ELSE n - 1 + 1
    BY <2>1, FS_Interval
  <2> QED
    BY <2>1, <2>2
<1>3. Chats \in SUBSET (1..Len(events))
  BY <1>1 DEF Chats
<1> DEFINE places == 1..Len(events)
           chats == Chats
<1> HIDE DEF places, chats
<1>4. /\ IsFiniteSet(chats) /\ Cardinality(chats) \in Nat
      /\ Cardinality(chats) <= Cardinality(places)
  <2>1. IsFiniteSet(places) /\ chats \in SUBSET places
    BY <1>2, <1>3 DEF places, chats
  <2> QED
    BY <2>1, FS_Subset, FS_CardinalityType
<1> QED
  BY <1>1, <1>2, <1>4 DEF places, chats

\* Tasks: an event takes its task's place in the channel until the task starts.
LEMMA TaskStep == TriggerIInv /\ [TriggersNext]_triggerVars => TaskInv'
<1> SUFFICES ASSUME TriggerIInv, [TriggersNext]_triggerVars PROVE TaskInv'
  OBVIOUS
<1>0. TriggerTypes /\ TaskInv
  BY DEF TriggerIInv
<1>n. /\ MaxConcurrent \in Nat /\ TriggerRoom \in Nat \ {0} /\ "chat" \notin EnabledJobs
      /\ activeTasks \in Nat
  BY <1>0, TriggersAssumption DEF TriggersAssumption, TriggerTypes
<1>l. /\ Len(events) \in Nat /\ DOMAIN events = 1..Len(events)
      /\ IsFiniteSet(Chats) /\ Cardinality(Chats) \in Nat /\ Cardinality(Chats) <= Len(events)
  BY ChatsInChannel
<1>s. events \in Seq({"chat"} \cup EnabledJobs)
  BY <1>0 DEF TriggerTypes
<1>1. ASSUME UNCHANGED <<activeTasks, events>> PROVE TaskInv'
  BY <1>0, <1>1 DEF TaskInv, Chats
<1>2. ASSUME NEW m \in Messages, ProcessMessage(m) PROVE TaskInv'
  <2>1. CASE events' = events
    BY <1>1, <1>2, <2>1 DEF ProcessMessage
  <2>2. CASE events' # events
    <3>1. events' = Append(events, "chat") /\ activeTasks < MaxConcurrent
      BY <1>2, <2>2, CheckedMessage
    <3>2. Len(events) < TriggerRoom /\ activeTasks' = activeTasks
      BY <1>2 DEF ProcessMessage
    <3>3. Chats' = Chats \cup {Len(events) + 1}
      BY <1>l, <1>s, <3>1 DEF Chats
    <3>4. Len(events) + 1 \notin Chats
      BY <1>l DEF Chats
    <3>5. Cardinality(Chats') = Cardinality(Chats) + 1
      BY <1>l, <3>3, <3>4, FS_AddElement
    <3> HIDE DEF Chats
    <3> QED
      BY <1>n, <1>l, <3>1, <3>2, <3>5 DEF TaskInv
  <2> QED
    BY <2>1, <2>2
<1>3. CASE TaskStarts
  <2>1. /\ events # <<>> /\ events' = Tail(events)
        /\ activeTasks' = IF Head(events) = "chat" THEN activeTasks + 1 ELSE activeTasks
    BY <1>3 DEF TaskStarts
  <2>2. Len(events') = Len(events) - 1 /\ \A k \in 1..Len(events') : events'[k] = events[k + 1]
    BY <1>s, <2>1
  <2>3. DOMAIN events' = 1..Len(events')
    BY <1>s, <2>1
  <2> DEFINE rest == Chats \ {1}
             f == [k \in rest |-> k - 1]
  <2>4. f \in Surjection(rest, Chats')
    <3>1. ASSUME NEW k \in rest PROVE k - 1 \in Chats'
      <4>1. k \in 1..Len(events) /\ k # 1 /\ events[k] = "chat"
        BY <1>l DEF Chats
      <4>2. k - 1 \in 1..Len(events') /\ k - 1 + 1 = k
        BY <1>l, <2>2, <4>1
      <4> QED
        BY <2>2, <2>3, <4>1, <4>2 DEF Chats
    <3>2. ASSUME NEW k \in Chats' PROVE \E n \in rest : n - 1 = k
      <4>1. k \in 1..Len(events') /\ events'[k] = "chat"
        BY <2>3 DEF Chats
      <4>2. PICK n \in 1..Len(events) : n = k + 1
        BY <1>l, <2>2, <4>1
      <4>3. n # 1 /\ n - 1 = k /\ events[n] = "chat"
        BY <2>2, <4>1, <4>2
      <4> QED
        BY <1>l, <4>2, <4>3 DEF Chats
    <3> HIDE DEF rest
    <3>3. f \in [rest -> Chats']
      BY <3>1
    <3>a. \A n \in rest : f[n] = n - 1
      OBVIOUS
    <3> HIDE DEF f
    <3>4. \A k \in Chats' : \E n \in rest : f[n] = k
      <4> TAKE k \in Chats'
      <4>1. PICK n \in rest : n - 1 = k
        BY <3>2
      <4> QED
        BY <3>a, <4>1
    <3> QED
      BY <3>3, <3>4 DEF Surjection
  <2> HIDE DEF f
  <2>5. /\ IsFiniteSet(rest) /\ Cardinality(rest) \in Nat
        /\ Cardinality(rest) = IF 1 \in Chats THEN Cardinality(Chats) - 1 ELSE Cardinality(Chats)
    BY <1>l, FS_RemoveElement, FS_Subset, FS_CardinalityType
  <2> HIDE DEF rest
  <2>6. /\ IsFiniteSet(Chats') /\ Cardinality(Chats') \in Nat
        /\ Cardinality(Chats') <= Cardinality(rest)
    BY <2>4, <2>5, FS_Surjection, FS_CardinalityType
  <2>7. Head(events) = "chat" <=> 1 \in Chats
    BY <1>l, <1>s, <2>1 DEF Chats
  <2>8. activeTasks' + Cardinality(Chats') <= activeTasks + Cardinality(Chats)
        /\ activeTasks' \in Nat
    BY <1>n, <1>l, <2>1, <2>5, <2>6, <2>7
  <2> QED
    BY <1>0, <1>n, <1>l, <2>6, <2>8 DEF TaskInv
<1>4. CASE TaskFinishes
  <2>1. activeTasks' = activeTasks - 1 /\ Chats' = Chats
    BY <1>4 DEF TaskFinishes, Chats
  <2> QED
    BY <1>0, <1>n, <1>l, <2>1 DEF TaskInv
<1>5. ASSUME NEW j \in EnabledJobs, SendsFire(j) PROVE TaskInv'
  <2>1. events' = Append(events, j) /\ activeTasks' = activeTasks /\ j # "chat"
    BY <1>n, <1>5 DEF SendsFire
  <2>2. Chats' = Chats
    BY <1>l, <1>s, <2>1 DEF Chats
  <2> QED
    BY <1>0, <2>1, <2>2 DEF TaskInv
<1>6. ASSUME NEW j \in EnabledJobs, Fires(j) PROVE TaskInv'
  BY <1>1, <1>6 DEF Fires
<1>7. CASE StartCron \/ ShutCron \/ Tick
  BY <1>1, <1>7 DEF StartCron, ShutCron, Tick
<1>8. CASE UNCHANGED triggerVars
  BY <1>1, <1>8 DEF triggerVars
<1> QED
  BY <1>2, <1>3, <1>4, <1>5, <1>6, <1>7, <1>8 DEF TriggersNext

\* The invariant holds in every state the limiter, the scheduler and the channel reach.
THEOREM TriggerInvariance == TriggersSpec => []TriggerIInv
<1>1. TriggerIInv /\ [TriggersNext]_triggerVars => TriggerIInv'
  BY TriggerTypesStep, StampStep, VerdictStep, TaskStep DEF TriggerIInv
<1> QED
  BY <1>1, TriggersInitOK, PTL DEF TriggersSpec

\* No user and no channel gets more messages through in a minute than its limit, one that
\* is refused was refused at the limit, and chat tasks exceed theirs by less than the room
\* of the channel.
THEOREM MessageLimitsHold == TriggersSpec => []LimitsAreExact
<1>1. TriggerIInv => LimitsAreExact
  <2> SUFFICES ASSUME TriggerIInv PROVE LimitsAreExact
    OBVIOUS
  <2>n. PerUser \in Nat /\ PerChannel \in Nat
    BY TriggersAssumption DEF TriggersAssumption
  <2>1. ASSUME NEW u \in Users
        PROVE  /\ Cardinality(PassedOfUser(u)) = Cardinality(Retained(perUser[u]))
               /\ Cardinality(PassedOfUser(u)) <= PerUser
    <3>1. /\ perUser[u] \in SUBSET Stamps /\ StampsOK(perUser[u], PerUser)
          /\ Fits(UserStamps(u), Retained(perUser[u]))
      BY DEF TriggerIInv, TriggerTypes, StampInv
    <3>2. /\ IsFiniteSet(Retained(perUser[u]))
          /\ Cardinality(Retained(perUser[u])) <= PerUser
      BY <2>n, <3>1, StampsRetained
    <3>3. Cardinality(DOMAIN UserStamps(u)) = Cardinality(Retained(perUser[u]))
      BY <3>1, <3>2, FitsCount
    <3>4. DOMAIN UserStamps(u) = PassedOfUser(u)
      BY DEF UserStamps
    <3> QED
      BY <3>2, <3>3, <3>4
  <2>2. ASSUME NEW c \in Channels
        PROVE  /\ Cardinality(PassedInChannel(c)) = Cardinality(Retained(perChannel[c]))
               /\ Cardinality(PassedInChannel(c)) <= PerChannel
    <3>1. /\ perChannel[c] \in SUBSET Stamps /\ StampsOK(perChannel[c], PerChannel)
          /\ Fits(ChannelStamps(c), Retained(perChannel[c]))
      BY DEF TriggerIInv, TriggerTypes, StampInv
    <3>2. /\ IsFiniteSet(Retained(perChannel[c]))
          /\ Cardinality(Retained(perChannel[c])) <= PerChannel
      BY <2>n, <3>1, StampsRetained
    <3>3. Cardinality(DOMAIN ChannelStamps(c)) = Cardinality(Retained(perChannel[c]))
      BY <3>1, <3>2, FitsCount
    <3>4. DOMAIN ChannelStamps(c) = PassedInChannel(c)
      BY DEF ChannelStamps
    <3> QED
      BY <3>2, <3>3, <3>4
  <2>3. verdict.result \in {"user", "channel"} =>
          verdict.user \in Users /\ verdict.channel \in Channels
    BY DEF TriggerIInv, TriggerTypes
  <2>4. verdict.result = "user" => Cardinality(PassedOfUser(verdict.user)) = PerUser
    BY <2>1, <2>3 DEF TriggerIInv, VerdictInv
  <2>5. verdict.result = "channel" => Cardinality(PassedInChannel(verdict.channel)) = PerChannel
    BY <2>2, <2>3 DEF TriggerIInv, VerdictInv
  <2> QED
    BY <2>1, <2>2, <2>4, <2>5 DEF LimitsAreExact, TriggerIInv, TaskInv
<1> QED
  BY <1>1, TriggerInvariance, PTL

\* The variables of the triggers keep their types, the stamps of a user or channel never
\* outnumber its limit, and the channel never holds more than its room.
THEOREM TriggersTypeCorrect == TriggersSpec => []TriggersTypeOK
<1>1. TriggerIInv => TriggersTypeOK
  BY DEF TriggerIInv, TriggerTypes, StampInv, StampsOK, TriggersTypeOK
<1> QED
  BY <1>1, TriggerInvariance, PTL
=============================================================================

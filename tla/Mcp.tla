--------------------------------- MODULE Mcp ---------------------------------
(***************************************************************************)
(* The pool of MCP clients with one child-process server: the lock around   *)
(* the pool, held for a whole operation, and the JSON-RPC transport over    *)
(* the pipes of the child, whose answers come in any order, late or never.  *)
(*                                                                          *)
(* The server is external: it answers requests, sends requests of its own   *)
(* with its own numbers, stays silent, stops reading or dies. Once it has   *)
(* stopped and the pipe is full, a line is written only when it dies.       *)
(***************************************************************************)
EXTENDS Naturals, Sequences, SequencesExt, FiniteSets

CONSTANTS
  Clients,   \* tasks that use the pool
  MaxOps,    \* bound: operations on the pool
  MaxAsks,   \* bound: requests the server makes
  Nobody

ASSUME McpAssumption ==
  /\ IsFiniteSet(Clients) /\ Nobody \notin Clients /\ {MaxOps, MaxAsks} \subseteq Nat

VARIABLES
  handle,    \* PoolEntry::handle is set
  tools,     \* PoolEntry::cached_tools is not empty
  child,     \* the process behind the pipes: none, up or dead
  nextId,    \* StdioMcpServer::next_id
  asked,     \* requests in the server's hands, with their numbers
  stdout,    \* lines the server has written: <<number, "answer" or "ask">>
  writer, reader, \* who holds the lock of stdin and of stdout
  stalled,   \* a line waits for room in the pipe of a server that reads no more
  lockQueue, \* who waits for the pool's lock, in order
  holders,   \* who holds it
  op, mpc, steps, reqId, \* of each client: operation, place, requests left, number
  got,       \* what its last request came to
  ops, asks

pipeVars == <<child, nextId, asked, stdout, writer, reader, stalled>>
mcpVars == <<handle, tools, pipeVars, lockQueue, holders, op, mpc, steps, reqId, got, ops, asks>>

\* The operations that take the pool's lock to write.
Writes(o) == o \in {"start", "refresh", "stop"}

\* The requests an operation makes, one after the other. `start` begins with a handshake,
\* which ends in a notification.
RequestsOf(o) ==
  CASE o = "start" -> <<"initialize", "notify", "list">>
    [] o = "refresh" -> <<"list">> [] o = "call" -> <<"call">> [] o = "stop" -> <<>>

\* "call" is call_tool and health_check, whose ping is a request like another.
Operations == {"start", "stop", "refresh", "call"}

NoAnswer == <<0, "none">>

McpInit ==
  /\ handle = FALSE /\ tools = FALSE
  /\ child = "none" /\ nextId = 1 /\ asked = {} /\ stdout = <<>>
  /\ writer = Nobody /\ reader = Nobody /\ stalled = FALSE
  /\ lockQueue = <<>> /\ holders = {}
  /\ op = [c \in Clients |-> "none"] /\ mpc = [c \in Clients |-> "idle"]
  /\ steps = [c \in Clients |-> <<>>] /\ reqId = [c \in Clients |-> 0]
  /\ got = [c \in Clients |-> NoAnswer] /\ ops = 0 /\ asks = 0

At(c, from, to) == mpc[c] = from /\ mpc' = [mpc EXCEPT ![c] = to]

Calls(c, o) ==
  /\ ops < MaxOps /\ ops' = ops + 1
  /\ At(c, "idle", "locking")
  /\ op' = [op EXCEPT ![c] = o]
  /\ lockQueue' = Append(lockQueue, c)
  /\ UNCHANGED <<handle, tools, pipeVars, holders, steps, reqId, got, asks>>

\* What an operation finds to do: nothing when the server runs already, or does not run.
Todo(o) ==
  CASE o = "start" -> IF handle THEN <<>> ELSE RequestsOf(o)
    [] OTHER -> IF handle THEN RequestsOf(o) ELSE <<>>

\* tokio's RwLock is fair: first come, first served, readers together.
Enters(c) ==
  /\ mpc[c] = "locking" /\ c = Head(lockQueue)
  /\ holders = {} \/ ~(Writes(op[c]) \/ \E h \in holders : Writes(op[h]))
  /\ mpc' = [mpc EXCEPT ![c] = "ready"]
  /\ lockQueue' = Tail(lockQueue)
  /\ holders' = holders \cup {c}
  /\ steps' = [steps EXCEPT ![c] = Todo(op[c])]
  /\ IF op[c] = "start" /\ ~handle
     THEN /\ child' = "up" /\ nextId' = 1 /\ asked' = {} /\ stdout' = <<>>
          /\ writer' = Nobody /\ reader' = Nobody /\ stalled' = FALSE
     ELSE UNCHANGED pipeVars
  /\ UNCHANGED <<handle, tools, op, reqId, got, ops, asks>>

\* stop_server and shutdown_all: the child is killed under the lock.
Stops(c) ==
  /\ At(c, "ready", "returning") /\ op[c] = "stop"
  /\ child' = IF handle THEN "dead" ELSE child
  /\ handle' = FALSE /\ tools' = FALSE
  /\ UNCHANGED <<nextId, asked, stdout, writer, reader, stalled, lockQueue, holders, op, steps,
                 reqId, got, ops, asks>>

\* send_request takes a number, send_notification none; then both wait for the input.
Requests(c) ==
  /\ At(c, "ready", "sending") /\ steps[c] # <<>>
  /\ \/ Head(steps[c]) = "notify" /\ UNCHANGED <<nextId, reqId>>
     \/ /\ Head(steps[c]) # "notify"
        /\ nextId' = nextId + 1 /\ reqId' = [reqId EXCEPT ![c] = nextId]
  /\ UNCHANGED <<handle, tools, child, asked, stdout, writer, reader, stalled, lockQueue,
                 holders, op, steps, got, ops, asks>>

LocksStdin(c) ==
  /\ At(c, "sending", "writing") /\ writer = Nobody
  /\ writer' = c
  /\ UNCHANGED <<handle, tools, child, nextId, asked, stdout, reader, stalled, lockQueue,
                 holders, op, steps, reqId, got, ops, asks>>

\* The line is written and flushed, without a timeout and with both locks held. A
\* notification is done then.
WritesLine(c) ==
  /\ mpc[c] = "writing" /\ child = "up" /\ ~stalled
  /\ writer' = Nobody
  /\ IF Head(steps[c]) = "notify"
     THEN /\ mpc' = [mpc EXCEPT ![c] = "answered"] /\ got' = [got EXCEPT ![c] = <<0, "sent">>]
          /\ UNCHANGED asked
     ELSE /\ mpc' = [mpc EXCEPT ![c] = "waiting"] /\ asked' = asked \cup {reqId[c]}
          /\ UNCHANGED got
  /\ UNCHANGED <<handle, tools, child, nextId, stdout, reader, stalled, lockQueue, holders, op,
                 steps, reqId, ops, asks>>

LocksStdout(c) ==
  /\ At(c, "waiting", "reading") /\ reader = Nobody
  /\ reader' = c
  /\ UNCHANGED <<handle, tools, child, nextId, asked, stdout, writer, stalled, lockQueue,
                 holders, op, steps, reqId, got, ops, asks>>

\* Mutant of Matches: the first line that parses is taken.
MatchesAny(line, id) == TRUE

\* A request of the server parses as a response, without result, and is taken for one when
\* its number is the expected one.
Matches(line, id) == line[1] = id

\* read_response: lines for others are read and lost.
ReadsLine(c) ==
  /\ mpc[c] = "reading" /\ stdout # <<>>
  /\ stdout' = Tail(stdout)
  /\ IF Matches(Head(stdout), reqId[c])
     THEN /\ got' = [got EXCEPT ![c] = Head(stdout)]
          /\ mpc' = [mpc EXCEPT ![c] = "answered"] /\ reader' = Nobody
     ELSE UNCHANGED <<got, mpc, reader>>
  /\ UNCHANGED <<handle, tools, child, nextId, asked, writer, stalled, lockQueue, holders, op,
                 steps, reqId, ops, asks>>

\* Mutant of Fails: the lock on the output is kept.
FailsLocked(c) ==
  /\ mpc' = [mpc EXCEPT ![c] = "answered"]
  /\ got' = [got EXCEPT ![c] = <<0, "error">>]
  /\ writer' = IF writer = c THEN Nobody ELSE writer
  /\ UNCHANGED <<handle, tools, child, nextId, asked, stdout, reader, stalled, lockQueue,
                 holders, op, steps, reqId, ops, asks>>

Fails(c) ==
  /\ mpc' = [mpc EXCEPT ![c] = "answered"]
  /\ got' = [got EXCEPT ![c] = <<0, "error">>]
  /\ writer' = IF writer = c THEN Nobody ELSE writer
  /\ reader' = IF reader = c THEN Nobody ELSE reader
  /\ UNCHANGED <<handle, tools, child, nextId, asked, stdout, stalled, lockQueue, holders, op,
                 steps, reqId, ops, asks>>

\* A dead child's pipe refuses the line.
PipeBreaks(c) == mpc[c] = "writing" /\ child = "dead" /\ Fails(c)

\* "server closed stdout".
ReadsEnd(c) == mpc[c] = "reading" /\ child = "dead" /\ stdout = <<>> /\ Fails(c)

\* Mutant of TimesOut: the line is read without the timeout.
TimesOutWaiting(c) == mpc[c] = "waiting" /\ Fails(c)

\* The 30 s are around the wait for the lock and for the line.
TimesOut(c) == mpc[c] \in {"waiting", "reading"} /\ Fails(c)

\* The request returns. start goes on to list the tools, which may fail, but not past a
\* failed handshake or notification: the child is left to itself, the pool has no handle.
Proceeds(c) ==
  LET ok    == got[c][2] # "error"
      start == op[c] = "start"
      step  == Head(steps[c])
  IN  /\ mpc[c] = "answered"
      /\ IF start /\ ok /\ step \in {"initialize", "notify"}
         THEN mpc' = [mpc EXCEPT ![c] = "ready"] /\ steps' = [steps EXCEPT ![c] = Tail(@)]
         ELSE mpc' = [mpc EXCEPT ![c] = "returning"] /\ steps' = [steps EXCEPT ![c] = <<>>]
      /\ handle' = (handle \/ (start /\ step = "list"))
      /\ tools' = IF step = "list" /\ (ok \/ start) THEN got[c][2] = "answer" ELSE tools
      /\ reqId' = [reqId EXCEPT ![c] = 0] /\ got' = [got EXCEPT ![c] = NoAnswer]
      /\ UNCHANGED <<pipeVars, lockQueue, holders, op, ops, asks>>

HasNothingToDo(c) ==
  /\ At(c, "ready", "returning") /\ steps[c] = <<>> /\ op[c] # "stop"
  /\ UNCHANGED <<handle, tools, pipeVars, lockQueue, holders, op, steps, reqId, got, ops, asks>>

\* The operation returns and the lock is released.
Returns(c) ==
  /\ At(c, "returning", "idle")
  /\ holders' = holders \ {c}
  /\ op' = [op EXCEPT ![c] = "none"]
  /\ UNCHANGED <<handle, tools, pipeVars, lockQueue, steps, reqId, got, ops, asks>>

\* The server.
ServerSays(line) ==
  /\ child = "up"
  /\ stdout' = Append(stdout, line)
  /\ UNCHANGED <<handle, tools, child, nextId, writer, reader, stalled, lockQueue, holders, op,
                 mpc, steps, reqId, got, ops>>
ServerAnswers(id) ==
  id \in asked /\ asked' = asked \ {id} /\ ServerSays(<<id, "answer">>) /\ UNCHANGED asks
ServerAsks(id) ==
  asks < MaxAsks /\ id <= nextId /\ asks' = asks + 1 /\ ServerSays(<<id, "ask">>) /\ UNCHANGED asked
ServerDies ==
  /\ child = "up" /\ child' = "dead" /\ stalled' = FALSE
  /\ UNCHANGED <<handle, tools, nextId, asked, stdout, writer, reader, lockQueue, holders, op,
                 mpc, steps, reqId, got, ops, asks>>

\* For good: a server that reads again later is one that was slow. It shows at a write.
ServerStalls ==
  /\ child = "up" /\ writer # Nobody /\ ~stalled /\ stalled' = TRUE
  /\ UNCHANGED <<handle, tools, child, nextId, asked, stdout, writer, reader, lockQueue,
                 holders, op, mpc, steps, reqId, got, ops, asks>>

Works(c) == \/ Enters(c) \/ Stops(c) \/ Requests(c) \/ LocksStdin(c) \/ WritesLine(c)
            \/ PipeBreaks(c) \/ LocksStdout(c) \/ ReadsLine(c) \/ ReadsEnd(c)
            \/ Proceeds(c) \/ HasNothingToDo(c) \/ Returns(c)

McpNext ==
  \/ \E c \in Clients : (\E o \in Operations : Calls(c, o)) \/ Works(c) \/ TimesOut(c)
  \/ \E id \in 1..(MaxOps + 1) : ServerAnswers(id) \/ ServerAsks(id)
  \/ ServerDies \/ ServerStalls

\* The runtime runs what is ready, and timeouts elapse. Nothing is assumed of the server.
McpFairness == \A c \in Clients : WF_mcpVars(Works(c)) /\ WF_mcpVars(TimesOut(c))

McpSpec == McpInit /\ [][McpNext]_mcpVars /\ McpFairness

-----------------------------------------------------------------------------
InRequest(c) == mpc[c] \in {"sending", "writing", "waiting", "reading", "answered"}

McpTypeOK ==
  /\ handle \in BOOLEAN /\ tools \in BOOLEAN /\ child \in {"none", "up", "dead"}
  /\ stalled \in BOOLEAN /\ writer \in {c \in Clients : mpc[c] = "writing"} \cup {Nobody}
  /\ reader \in {c \in Clients : mpc[c] = "reading"} \cup {Nobody} /\ holders \subseteq Clients
  /\ op \in [Clients -> Operations \cup {"none"}]
  /\ mpc \in [Clients -> {"idle", "locking", "ready", "sending", "writing", "waiting", "reading",
                       "answered", "returning"}]

\* No client is given the answer to the request of another, or to one of its own that timed
\* out, over readers that drop each other's lines, late answers and restarts of the server;
\* and nobody is in the middle of a request while the server is stopped under it.
AnswersAreOwn ==
  \A c \in Clients :
    /\ got[c][2] \in {"answer", "ask"} => got[c][1] = reqId[c]
    /\ InRequest(c) /\ op[c] # "start" => handle

\* Every operation on the pool returns, whether the server answers, stays silent or dies: all
\* but the writes have a timeout. A server that stops reading holds up the write, and with
\* it every operation that needs a lock the writer has, `stop` too, for as long as it lives.
OperationsReturn ==
  []<>~stalled => \A c \in Clients : (mpc[c] = "locking") ~> (mpc[c] = "idle")
==============================================================================

------------------------------- MODULE Triggers -------------------------------
(***************************************************************************)
(* TriggerManager, its cron scheduler and its Discord trigger with the      *)
(* sliding-window RateLimiter. Both deliver events into one bounded         *)
(* channel. The gateway that hands messages over, sends what                *)
(* process_message returns and then takes the next message, and the         *)
(* receiver that starts and finishes tasks are external: the daemon does    *)
(* not start a TriggerManager yet.                                          *)
(*                                                                          *)
(* Time goes in ticks, Window of them to a minute. A timestamp is kept as   *)
(* its age, with its place among those of the same tick; beyond Window all  *)
(* ages are alike.                                                          *)
(***************************************************************************)
EXTENDS Naturals, Sequences, FiniteSets

CONSTANTS
  Users, Guilds, AllowedGuilds, \* AllowedGuilds = {}: any guild
  Activation,     \* of each routed channel: "all", "mention", "prefix" or "reply"
  Channels,
  DmPolicy,       \* "open", "allowed_users_only" or "disabled"
  NoGuild,        \* what a direct message comes from
  PerUser, PerChannel, MaxConcurrent, Window,
  EnabledJobs,    \* cron jobs that are enabled
  TriggerRoom     \* capacity of the channel

ASSUME TriggersAssumption ==
  /\ AllowedGuilds \subseteq Guilds /\ NoGuild \notin Guilds
  /\ DOMAIN Activation \subseteq Channels
  /\ {PerUser, PerChannel, MaxConcurrent} \subseteq Nat
  /\ Window \in Nat \ {0} /\ TriggerRoom \in Nat \ {0} /\ "chat" \notin EnabledJobs

VARIABLES
  perUser, perChannel, \* RateLimiter: the stamps of what was let through
  activeTasks,     \* RateLimiter::active_tasks
  scheduler,  \* CronTrigger::scheduler: "none", "running" or "shut"
  firing,     \* jobs that wait for room in the channel
  events,     \* the channel: "chat", or the job
  verdict,    \* history: of the last message, until the next tick
  passed      \* history: the messages let through within the window

triggerVars == <<perUser, perChannel, activeTasks, scheduler, firing, events, verdict, passed>>

NoVerdict == [result |-> "none"]

TriggersInit ==
  /\ perUser = [u \in Users |-> {}] /\ perChannel = [c \in Channels |-> {}] /\ activeTasks = 0
  /\ scheduler = "none" /\ firing = {} /\ events = <<>>
  /\ verdict = NoVerdict /\ passed = {}

Recent(age) == age < Window
Retained(stamps) == {s \in stamps : Recent(s.age)}
Now(stamps) == [age |-> 0, nth |-> Cardinality({s \in stamps : s.age = 0}) + 1]
Aged(s) == [s EXCEPT !.age = IF @ < Window THEN @ + 1 ELSE @]

Messages == [user : Users, guild : Guilds \cup {NoGuild}, channel : Channels, marked : BOOLEAN]

\* A server's message from an allowed guild, or a direct message under an open policy;
\* allowed_users_only still rejects them all.
Admitted(m) ==
  \/ m.guild # NoGuild /\ (AllowedGuilds = {} \/ m.guild \in AllowedGuilds)
  \/ m.guild = NoGuild /\ DmPolicy = "open"

\* The channel has a route, and the message the mention or the prefix the route asks for.
\* Replies are not told from other messages and activate nothing.
Activated(m) ==
  /\ m.channel \in DOMAIN Activation
  /\ \/ Activation[m.channel] = "all"
     \/ Activation[m.channel] \in {"mention", "prefix"} /\ m.marked

\* Mutant of Charged: the user is charged before the channel is looked at.
ChargedAtOnce(m, result) ==
  /\ perUser' = [perUser EXCEPT ![m.user] =
                   IF result = "concurrent" THEN @
                   ELSE IF result = "user" THEN Retained(@) ELSE Retained(@) \cup {Now(@)}]
  /\ perChannel' = [perChannel EXCEPT ![m.channel] =
                      IF result \in {"concurrent", "user"} THEN @
                      ELSE IF result = "channel" THEN Retained(@) ELSE Retained(@) \cup {Now(@)}]

\* The stamps RateLimiter::check leaves: old ones go as far as it looks, and only a
\* message that is allowed adds one, to both.
Charged(m, result) ==
  LET Kept(stamps, unless) ==
        IF result \in unless THEN stamps
        ELSE IF result = "allowed" THEN Retained(stamps) \cup {Now(stamps)} ELSE Retained(stamps)
  IN  /\ perUser' = [perUser EXCEPT ![m.user] = Kept(@, {"concurrent"})]
      /\ perChannel' = [perChannel EXCEPT ![m.channel] = Kept(@, {"concurrent", "user"})]

\* RateLimiter::check: tasks first, then the user, then the channel.
CheckOf(m) ==
  IF activeTasks >= MaxConcurrent THEN "concurrent"
  ELSE IF Cardinality(Retained(perUser[m.user])) >= PerUser THEN "user"
  ELSE IF Cardinality(Retained(perChannel[m.channel])) >= PerChannel THEN "channel"
  ELSE "allowed"

\* process_message, and the gateway's send of what it returns: there is room for it.
\* Bound: messages the filters drop, which change nothing, are no step.
ProcessMessage(m) ==
  /\ Admitted(m) /\ Activated(m) /\ Len(events) < TriggerRoom
  /\ LET result == CheckOf(m)
     IN  /\ Charged(m, result)
         /\ verdict' = [result |-> result, user |-> m.user, channel |-> m.channel]
         /\ IF result = "allowed"
            THEN /\ events' = Append(events, "chat")
                 /\ passed' = passed \cup {[user |-> m.user, ofUser |-> Now(perUser[m.user]).nth,
                                             channel |-> m.channel,
                                             ofChannel |-> Now(perChannel[m.channel]).nth,
                                             age |-> 0]}
            ELSE UNCHANGED <<events, passed>>
  /\ UNCHANGED <<activeTasks, scheduler, firing>>

Tick ==
  /\ perUser' = [u \in Users |-> {Aged(s) : s \in perUser[u]}]
  /\ perChannel' = [c \in Channels |-> {Aged(s) : s \in perChannel[c]}]
  /\ passed' = {Aged(p) : p \in {q \in passed : Recent(q.age + 1)}}
  /\ verdict' = NoVerdict
  /\ UNCHANGED <<activeTasks, scheduler, firing, events>>

\* CronTrigger::start: every enabled job is built and added before the scheduler starts;
\* one that cannot be (a bad schedule) leaves none running, which is no step here.
StartCron ==
  /\ scheduler = "none" /\ scheduler' = "running"
  /\ UNCHANGED <<perUser, perChannel, activeTasks, firing, events, verdict, passed>>

\* A job is due and its instruction renders; one that does not render sends nothing.
\* Bound: it is not due again while its last event waits for room.
Fires(j) ==
  /\ scheduler = "running" /\ j \in EnabledJobs \ firing
  /\ firing' = firing \cup {j}
  /\ UNCHANGED <<perUser, perChannel, activeTasks, scheduler, events, verdict, passed>>

\* Its send: the idempotency key it has rendered goes nowhere.
SendsFire(j) ==
  /\ j \in firing /\ Len(events) < TriggerRoom
  /\ firing' = firing \ {j} /\ events' = Append(events, j)
  /\ UNCHANGED <<perUser, perChannel, activeTasks, scheduler, verdict, passed>>

\* TriggerManager::shutdown: the scheduler goes; what is sending may still arrive.
ShutCron ==
  /\ scheduler = "running" /\ scheduler' = "shut"
  /\ UNCHANGED <<perUser, perChannel, activeTasks, firing, events, verdict, passed>>

\* The receiver takes an event and tells the limiter of a chat task that starts.
TaskStarts ==
  /\ events # <<>> /\ events' = Tail(events)
  /\ activeTasks' = IF Head(events) = "chat" THEN activeTasks + 1 ELSE activeTasks
  /\ UNCHANGED <<perUser, perChannel, scheduler, firing, verdict, passed>>

TaskFinishes ==
  /\ activeTasks > 0 /\ activeTasks' = activeTasks - 1
  /\ UNCHANGED <<perUser, perChannel, scheduler, firing, events, verdict, passed>>

TriggersNext ==
  \/ \E m \in Messages : ProcessMessage(m)
  \/ \E j \in EnabledJobs : Fires(j) \/ SendsFire(j)
  \/ Tick \/ StartCron \/ ShutCron \/ TaskStarts \/ TaskFinishes

-----------------------------------------------------------------------------
Chats == {k \in DOMAIN events : events[k] = "chat"}

Stamps == [age : 0..Window, nth : Nat \ {0}]

TriggersTypeOK ==
  /\ \A u \in Users : perUser[u] \subseteq Stamps /\ Cardinality(perUser[u]) <= PerUser
  /\ \A c \in Channels : perChannel[c] \subseteq Stamps /\ Cardinality(perChannel[c]) <= PerChannel
  /\ activeTasks \in Nat /\ scheduler \in {"none", "running", "shut"}
  /\ firing \subseteq EnabledJobs /\ Len(events) <= TriggerRoom

PassedOfUser(u) == {p \in passed : p.user = u}
PassedInChannel(c) == {p \in passed : p.channel = c}

\* No minute holds more messages of a user or a channel than its limit; and a message is
\* refused only when its own limit is really reached, so that one the channel refused does
\* not count against its user. Tasks may exceed their limit by what was let through and
\* has not started, for the limiter hears of a task only then: never by more than that.
LimitsAreExact ==
  /\ \A u \in Users : Cardinality(PassedOfUser(u)) <= PerUser
  /\ \A c \in Channels : Cardinality(PassedInChannel(c)) <= PerChannel
  /\ verdict.result = "user" => Cardinality(PassedOfUser(verdict.user)) = PerUser
  /\ verdict.result = "channel" => Cardinality(PassedInChannel(verdict.channel)) = PerChannel
  /\ MaxConcurrent > 0 => activeTasks + Cardinality(Chats) < MaxConcurrent + TriggerRoom
==============================================================================

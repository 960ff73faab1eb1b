------------------------------- MODULE MCParts -------------------------------
(***************************************************************************)
(* Constants of Parts for TLC. Each behaviour is of one part, the others    *)
(* standing at their start: the states add up and do not multiply.          *)
(***************************************************************************)
EXTENDS Parts

CONSTANTS general, help, m1, m2, m3, home, work, tag

\* Channels with a route: one takes every message, the other those that mention the bot.
Routes == (general :> "all") @@ (help :> "mention")

\* Items to remember, some in a partition the reader may not use.
ItemPartitions == (m1 :> home) @@ (m2 :> home) @@ (m3 :> work)
ItemTags == (m1 :> {tag}) @@ (m2 :> {}) @@ (m3 :> {tag})

VARIABLE part

Init ==
  /\ PartsInit
  /\ part \in {"agent", "threads", "chat", "daemon", "a2a", "secrets", "triggers", "memory"}
  /\ part # "chat" => listed = <<System0>>

Next ==
  /\ UNCHANGED part
  /\ \/ part = "agent" /\ AgentOnly
     \/ part = "threads" /\ ThreadsOnly
     \/ part = "chat" /\ ChatOnly
     \/ part = "daemon" /\ DaemonOnly
     \/ part = "a2a" /\ A2aOnly
     \/ part = "secrets" /\ SecretsOnly
     \/ part = "triggers" /\ TriggersOnly
     \/ part = "memory" /\ MemoryOnly

Spec == Init /\ [][Next]_<<part, partsVars>>
==============================================================================

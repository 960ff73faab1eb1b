-------------------------------- MODULE Parts --------------------------------
(***************************************************************************)
(* The parts around the task manager, side by side. They share no state in *)
(* these models; a step of the whole is a step of one of them.             *)
(***************************************************************************)
EXTENDS AgentTurn, Threads, Chat, DaemonControl, A2a, Secrets, Triggers, Memory

partsVars ==
  <<agentVars, threadVars, chatVars, lifeVars, a2aVars, secretVars, triggerVars, memoryVars>>

PartsInit ==
  /\ AgentInit /\ ThreadsInit /\ ChatInit /\ DaemonInit /\ A2aInit /\ SecretsInit
  /\ TriggersInit /\ MemoryInit

AgentOnly ==
  /\ AgentNext
  /\ UNCHANGED <<threadVars, chatVars, lifeVars, a2aVars, secretVars, triggerVars, memoryVars>>
ThreadsOnly ==
  /\ ThreadsNext
  /\ UNCHANGED <<agentVars, chatVars, lifeVars, a2aVars, secretVars, triggerVars, memoryVars>>
ChatOnly ==
  /\ ChatNext
  /\ UNCHANGED <<agentVars, threadVars, lifeVars, a2aVars, secretVars, triggerVars, memoryVars>>
DaemonOnly ==
  /\ DaemonNext
  /\ UNCHANGED <<agentVars, threadVars, chatVars, a2aVars, secretVars, triggerVars, memoryVars>>
A2aOnly ==
  /\ A2aNext
  /\ UNCHANGED <<agentVars, threadVars, chatVars, lifeVars, secretVars, triggerVars, memoryVars>>
SecretsOnly ==
  /\ SecretsNext
  /\ UNCHANGED <<agentVars, threadVars, chatVars, lifeVars, a2aVars, triggerVars, memoryVars>>
TriggersOnly ==
  /\ TriggersNext
  /\ UNCHANGED <<agentVars, threadVars, chatVars, lifeVars, a2aVars, secretVars, memoryVars>>
MemoryOnly ==
  /\ MemoryNext
  /\ UNCHANGED <<agentVars, threadVars, chatVars, lifeVars, a2aVars, secretVars, triggerVars>>

PartsNext == \/ AgentOnly \/ ThreadsOnly \/ ChatOnly \/ DaemonOnly \/ A2aOnly
             \/ SecretsOnly \/ TriggersOnly \/ MemoryOnly

PartsSpec == PartsInit /\ [][PartsNext]_partsVars

\* The variables of the eight parts hold values of their types.
PartsTypesOK ==
  /\ AgentTypeOK /\ ThreadsTypeOK /\ ChatTypeOK /\ DaemonTypeOK /\ A2aTypeOK /\ SecretsTypeOK
  /\ TriggersTypeOK /\ MemoryTypeOK
==============================================================================

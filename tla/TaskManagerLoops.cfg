SPECIFICATION Spec
CONSTANTS
  t1 = t1
  t2 = t2
  agent = agent
  k = k
  Tasks = {t1}
  Agents = {agent}
  AgentOf <- OneAgent
  KeyOf <- NoKeys
  NoKey = NoKey
  Priority <- SameRank
  Awaiters = {a1}
  Threads = {"worker", "watchdog", "shutdown"}
  Threshold = 2
  MaxCrashes = 1
  MaxStoreErrors = 1
  NoTask = NoTask
CHECK_DEADLOCK FALSE
INVARIANT EveryWaiterIsServed
INVARIANT NoTaskStranded
PROPERTY EndIsFinal

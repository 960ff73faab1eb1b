SPECIFICATION Spec
CONSTANTS
  t1 = t1
  t2 = t2
  agent = agent
  k = k
  Tasks = {t1, t2}
  Agents = {agent}
  AgentOf <- OneAgent
  KeyOf <- SameKey
  NoKey = NoKey
  Priority <- SameRank
  Awaiters = {}
  Threads = {"worker"}
  Threshold = 2
  MaxCrashes = 0
  MaxStoreErrors = 0
  NoTask = NoTask
CHECK_DEADLOCK FALSE
INVARIANT KeysAreUnique

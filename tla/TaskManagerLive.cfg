SPECIFICATION FairSpec
CONSTANTS
  t1 = t1
  t2 = t2
  agent = agent
  k = k
  Tasks = {t1, t2}
  Agents = {agent}
  AgentOf <- OneAgent
  KeyOf <- NoKeys
  NoKey = NoKey
  Priority <- SameRank
  Awaiters = {a1}
  Threads = {"worker"}
  Threshold = 2
  MaxCrashes = 1
  MaxStoreErrors = 0
  NoTask = NoTask
CHECK_DEADLOCK FALSE
PROPERTY EveryTaskEnds
PROPERTY EveryWaiterIsAnswered

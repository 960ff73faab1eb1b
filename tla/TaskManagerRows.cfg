SPECIFICATION Spec
CONSTANTS
  t1 = t1
  t2 = t2
  agent = agent
  k = k
  Tasks = {t1}
  Agents = {agent}
  AgentOf <- OneAgent
  KeyOf <- NoKeys
  NoKey = NoKey
  Priority <- SameRank
  Awaiters = {}
  Threads = {"worker", "watchdog"}
  Threshold = 2
  MaxCrashes = 0
  MaxStoreErrors = 0
  NoTask = NoTask
CHECK_DEADLOCK FALSE
INVARIANT RowsAgree

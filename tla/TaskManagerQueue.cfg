SPECIFICATION Spec
CONSTANTS
  t1 = t1
  t2 = t2
  agent = agent
  k = k
  Tasks = {t1, t2}
  Agents = {agent}
  AgentOf <- OneAgent
  KeyOf <- SameKey
  NoKey = NoKey
  Priority <- FirstHigh
  Awaiters = {a1}
  Threads = {"worker"}
  Threshold = 2
  MaxCrashes = 1
  MaxStoreErrors = 1
  NoTask = NoTask
CHECK_DEADLOCK FALSE
INVARIANT TypeOK
INVARIANT RowsAgree
INVARIANT AcceptedIsDurable
INVARIANT NoRowForgotten
PROPERTY ImplementsContract

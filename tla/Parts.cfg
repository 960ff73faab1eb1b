SPECIFICATION Spec
CONSTANTS
  MaxIterations = 3
  RetryLimit = 1
  ProgressEvery = 2
  KeepLast = 2
  TokenBudget = 8
  LargeResult = 6
  ChannelCap = 1
  MaxCalls = 1
  MaxRuns = 2
  Run = run
  Turns = {u}
  Fallible = {"snapshot", "message", "report", "remedy"}
  MaxMishaps = 1
  MaxRevivals = 1
  BusyMishaps = 1
  BusyRevivals = 0
  BusyTurns = 0
  Reporter = reporter
  Nobody = nobody
  System0 = system0
  SubThreads = {thread}
  MaxSends = 1
  Commands = {1, 2, 3}
  MaxPid = 3
  MaxLost = 1
  HttpClients = {1, 2, 3}
  A2aIds = {i}
  ChannelRoom = 1
  MaxReports = 2
  SecretIds = {s, p}
  Configured = {p}
  PassIds = {p}
  SecretClients = {client1, client2}
  Agents = {ag}
  MaxSecretOps = 2
  MaxDbErrors = 1
  general = general
  help = help
  Users = {alice, bob}
  Guilds = {guild1, guild2}
  AllowedGuilds = {guild1}
  Channels = {general, help}
  Activation <- Routes
  DmPolicy = "disabled"
  NoGuild = NoGuild
  PerUser = 2
  PerChannel = 1
  MaxConcurrent = 2
  Window = 2
  EnabledJobs = {job}
  TriggerRoom = 1
  m1 = m1
  m2 = m2
  m3 = m3
  home = home
  work = work
  tag = tag
  MemoryIds = {m1, m2, m3}
  Partitions = {home, work}
  Tags = {tag}
  PartitionOf <- ItemPartitions
  TagsOf <- ItemTags
  Expiring = {m2}
  AllowedPartitions = {home}
  PageLimit = 1
CHECK_DEADLOCK FALSE
INVARIANT PartsTypesOK
INVARIANT CallsAnswered
INVARIANT BudgetIsExact
INVARIANT EndIsTold
INVARIANT SeqsGrow
INVARIANT JournalMirrorsSession
INVARIANT ReportsReachJournal
INVARIANT ChatShowsRequests
INVARIANT OneDaemonAtATime
INVARIANT WorkSurvivesDaemons
INVARIANT StreamsMirrorRecords
INVARIANT ScannerFollowsStore
INVARIANT LimitsAreExact
INVARIANT WalksAreComplete

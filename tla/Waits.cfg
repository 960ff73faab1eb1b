SPECIFICATION Spec
CONSTANTS
  r = r
  u = u
  c1 = c1
  c2 = c2
  c3 = c3
  Roots = {r}
  AdminTurns = {u}
  ChildOf <- HelpersAsk
  Elapses = TRUE
  MaxRefusals = 1
  MaxCancels = 1
  NoCaller = NoCaller
  Clients = {a, b}
  MaxOps = 3
  MaxAsks = 1
  Nobody = nobody
  pay = pay
  payAlias = payAlias
  notes = notes
  AllowedSkills <- PayAndNotes
  Underscored <- Underscores
  AllowedTools = {pay, notes}
  Names = {pay, payAlias, notes, unknown}
  ScriptSkills = {pay}
  UnsafeSkills = {}
  PipeRoom = 2
  MaxPayload = 3
  MaxScriptCalls = 2
CHECK_DEADLOCK FALSE
INVARIANT WaitsTypesOK
INVARIANT WaitingIsAsking
INVARIANT AnswersAreOwn
PROPERTY RequestsEnd
PROPERTY OperationsReturn
PROPERTY ScriptsReturn

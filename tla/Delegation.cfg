SPECIFICATION FairSpec
CONSTANTS
  Turns = {1, 2}
  Runs = {1, 2}
  OutputCap = 1
  ReportCap = 1
  MaxReports = 1
  MayCancel = TRUE
  Threshold = 1
  None = None
CHECK_DEADLOCK FALSE
INVARIANT TypeOK
INVARIANT QuietRunsAreFinal
INVARIANT OutputFollowsEnd
INVARIANT AnswersListOwn
PROPERTY EveryTurnIsPublished

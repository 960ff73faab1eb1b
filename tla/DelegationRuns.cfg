SPECIFICATION Spec
CONSTANTS
  Turns = {1}
  Runs = {1, 2}
  OutputCap = 1
  ReportCap = 1
  MaxReports = 0
  MayCancel = FALSE
  Threshold = 1
  None = None
CHECK_DEADLOCK FALSE
INVARIANT RunEndsWithTask

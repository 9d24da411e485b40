SPECIFICATION WindowSpec
CONSTANTS
  None = None
  MaxSeconds = 72
  WalkRange = 1
  LastDay = 10
  DefaultTransfer = 2
  DayLength <- MCDayLength
  Archives <- MCArchives
  Queries <- MCQueries
INVARIANTS WindowTypeOK CompiledIsPublishable ForbiddenStaysForbidden NothingRunsOutsideCoverage NothingMissed StayOnIsTheNextRun ForbiddenStaysSeparate WiderKeepsContinuations
CHECK_DEADLOCK FALSE

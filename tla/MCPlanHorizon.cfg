SPECIFICATION CommandsSpec
CONSTANTS
  None = None
  MaxSeconds = 72
  WalkRange = 1
  LastDay = 10
  DefaultTransfer = 2
  DayLength <- MCDayLength
  Archives <- PlanArchives
  Queries <- MCNone
  Starts = {}
  NextHours = 2
  MatchSlack = 0
  Labels <- BoardLabels
  Feeds <- BoardFeeds
  Departures <- BoardDepartures
  Limits = {0, 1}
  Window = 3
  Skew = 1
  Requests <- PlanRequests
  Horizons <- MCHorizons
  Radius = 1
  Far = 1000
  MaxRide = 12
INVARIANT JourneyIsBest
CHECK_DEADLOCK FALSE

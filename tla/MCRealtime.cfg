SPECIFICATION RealtimeSpec
CONSTANTS
  None = None
  Window = 3
  Skew = 1
  Callers = {c1, c2, c3}
  Feeds = {f1}
  Messages = {m1}
  Burst = 2
  Refill = 2
  LastTick = 3
  RouteTypes <- MCRouteTypes
  FeedTypes <- MCFeedTypes
  Units = {"a", "b"}
  Queried = "a"
  Descriptors <- MCDescriptors
  Positions <- MCPositions
  Now = 10
INVARIANTS SharedFetch Throttled BestObservation AbsenceIsProven
PROPERTIES EveryCallerReturns
CHECK_DEADLOCK FALSE

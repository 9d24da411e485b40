SPECIFICATION FairSpec
CONSTANTS
  Callers = {c1, c2, c3}
  NoOne = NoOne
  Interval = 2
  Stale = 2
  MaxCrashes = 1
INVARIANT ThrottleTypeOK
PROPERTIES
  PacedByTheTimestamp
  DeadLockIsBroken

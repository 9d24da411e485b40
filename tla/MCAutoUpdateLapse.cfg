SPECIFICATION FairSpec
CONSTANTS
  Checkers = {c1}
  Workers = {w1, w2}
  NoOne = NoOne
  MaxFaults = 1
  MaxVersion = 2
  MaxFailures = 1
  Throttle = 2
  BackoffInitial = 1
  BackoffMax = 2
  NoTag = NoTag
PROPERTY ConvergesAfterLapse

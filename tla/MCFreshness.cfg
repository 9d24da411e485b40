SPECIFICATION FreshnessSpec
CONSTANTS
  Checkers = {c1, c2}
  MaxVersion = 2
  MaxFailures = 2
  Throttle = 2
  BackoffInitial = 1
  BackoffMax = 2
  NoTag = NoTag
SYMMETRY CommandSymmetry
INVARIANTS
  FreshnessTypeOK
  RowIsHonest
PROPERTY CurrentWasSeen

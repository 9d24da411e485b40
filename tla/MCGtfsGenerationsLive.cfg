SPECIFICATION FairSpec
CONSTANTS
  Procs = {p1, p2}
  Readers = {r1}
  Gens = {g1, g2}
  NoProc = NoProc
  NoGen = NoGen
PROPERTY LeaseIsReleased
CHECK_DEADLOCK FALSE

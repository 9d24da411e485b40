SPECIFICATION Spec
CONSTANTS
  Procs = {p1, p2}
  Readers = {r1}
  Gens = {g1, g2, g3}
  NoProc = NoProc
  NoGen = NoGen
SYMMETRY Symmetry
INVARIANTS
  TypeOK
  PointerIsSolid
  ReaderNeverMisses
  ReportMatchesPointer
  IngestsOwnDownload
  FailedUpdateLeavesNothing
PROPERTY PointerSpec
CHECK_DEADLOCK FALSE

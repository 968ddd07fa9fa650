SPECIFICATION Spec
CONSTANTS
  Threads = {t1, t2}
  NPages = 2
  RefLimit = 4
  MarkerVisible = FALSE
  MaxBuilders = 2
  CountLimit = 3
  BuilderMayFail = FALSE
  AppendMayFail = FALSE
  LockMayFail = TRUE
SYMMETRY Symmetry
INVARIANTS ReadersSeeLog NothingLeaked PurgMemInv
PROPERTIES StableWhileReading InsideNotReclaimed UsesPageTable KeepsContract

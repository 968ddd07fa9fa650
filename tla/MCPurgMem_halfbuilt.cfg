SPECIFICATION Spec
CONSTANTS
  Threads = {t1}
  NPages = 1
  RefLimit = 3
  MarkerVisible = FALSE
  MaxBuilders = 2
  CountLimit = 3
  BuilderMayFail = TRUE
  AppendMayFail = FALSE
  LockMayFail = FALSE
SYMMETRY Symmetry
INVARIANT ReadersSeeLog

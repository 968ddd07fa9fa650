SPECIFICATION Spec
CONSTANTS
  Threads = {t1}
  NPages = 1
  RefLimit = 3
  MarkerVisible = TRUE
  MaxBuilders = 1
  CountLimit = 2
  BuilderMayFail = FALSE
  AppendMayFail = FALSE
  LockMayFail = FALSE
SYMMETRY Symmetry
PROPERTY InsideNotReclaimed

SPECIFICATION Spec
CONSTANTS
  Threads = {t1, t2}
  NPages = 1
  RefLimit = 4
  MarkerVisible = FALSE
  MaxBuilders = 1
  CountLimit = 2
  BuilderMayFail = FALSE
  AppendMayFail = FALSE
  LockMayFail = FALSE
SYMMETRY Symmetry
INVARIANT NoSpuriousFailure

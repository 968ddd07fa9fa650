SPECIFICATION LiveSpec
CONSTANTS
  Threads = {t1, t2}
  NPages = 1
  RefLimit = 4
  MarkerVisible = FALSE
  MaxBuilders = 2
  CountLimit = 3
  BuilderMayFail = TRUE
  AppendMayFail = TRUE
  LockMayFail = FALSE
  MaxCalls = 3
PROPERTY CallsReturn
CHECK_DEADLOCK FALSE

SPECIFICATION FairSpec
CONSTANTS
  Threads = {t1, t2, t3}
  Backends = {"uxpt", "ashmem"}
  Support = {TRUE, FALSE}
  Descriptors = {0, 3}
  RefLimit = 6
  CountLimit = 8
  MaxBuilders = 2
  MaxBuilds = 3
  BuilderMayFail = TRUE
  TableMayFail = TRUE
  Invalidates = TRUE
  Resizes = TRUE
INVARIANTS CxxReadersSeeLog PinsBalanced CxxInv
PROPERTIES CxxInsideNotReclaimed CxxCallsReturn

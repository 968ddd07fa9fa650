SPECIFICATION ObjSpec
CONSTANTS
  ReleaseMayFail = TRUE
  Node = {n1, n2, n3, n4}
  NULL = NULL
INVARIANTS NoBadFree LeakOnlyIfReleaseFailed RetryFindsRest LifeInv ChainIsLog OwnedOnce ChainInv
PROPERTIES BuildsInOrder WalksEnd

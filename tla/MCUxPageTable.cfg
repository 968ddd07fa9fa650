SPECIFICATION UptSpec
CONSTANTS
  Threads = {t1, t2, t3}
  NPages = 2
  RefLimit = 5
  MarkerVisible = FALSE
SYMMETRY Symmetry
INVARIANTS PinAccounting PresentIsResident PinInv
PROPERTY PinnedNotReclaimed

SPECIFICATION DescSpec
CONSTANTS
  MaxFd = 2
  MaxRegions = 2
  Sizes = {1, 2}
  HeapThreads = {t1, t2}
  Buffers = {1}
INVARIANTS NoForeignClose TraceMatches FdBacksData UnmapsWhole NothingOutlives DescInv
SYMMETRY ThreadSymmetry

SPECIFICATION AddrSpec
CONSTANTS
  PAGE_SIZE = 4
  UXPTE_SIZE = 2
  WordSpace = 24
INVARIANTS AddrInv TouchesOwnWords CoversRange CallersInRange
PROPERTY OpsEnd

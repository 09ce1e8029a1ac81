\* The cache, every sequence of calls and of failing allocations.
CONSTANTS
  MYFFT_MAX_LOGN = 3
  Pow2 <- MCPow2
  Address <- MCAddress
  NULL = NULL
SPECIFICATION Spec
INVARIANTS TypeOK NoFault Ownership Accounting PreparedDelivers ComesBack
PROPERTIES ReadyStays ImplementsCache

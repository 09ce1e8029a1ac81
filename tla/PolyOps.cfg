\* Every legal call from every size up to 16 coefficients, and every two calls
\* in a row from the sizes 2 and 4.
CONSTANTS
  P = 31
  LogMax = 4
  Pow2 <- MCPow2
  Circle <- MCCircle
  Bufs = {1, 2, 3, 4}
  Constants = {3}
  Contents <- MCContents
  MaxCalls <- MCMaxCalls
SPECIFICATION Spec
INVARIANT TypeOK
PROPERTY ImplementsRingOps
CHECK_DEADLOCK FALSE

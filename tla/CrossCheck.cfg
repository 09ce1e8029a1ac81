\* T11: both multiplications, every size up to N = 16, every pair of monomials.
CONSTANTS
  P = 31
  LogMax = 4
  Pow2 <- MCPow2
  Circle <- MCCircle
  Operands <- MCOperands
SPECIFICATION CrossSpec
INVARIANTS TypeOK InBounds ForwardInv FFTLayout InverseInv MyInv ResultsAgree
PROPERTY BothImplementPolyMul
CHECK_DEADLOCK FALSE

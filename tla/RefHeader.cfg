\* The slot layout the header comment of fft.c states.
CONSTANTS
  P = 31
  LogMax = 4
  Pow2 <- MCPow2
  Circle <- MCCircle
  Operands <- MCOperands
SPECIFICATION Spec
INVARIANT HeaderLayout
CHECK_DEADLOCK FALSE

\* What myfft.h says of the automatic my_fft_init.
CONSTANTS
  MYFFT_MAX_LOGN = 3
  Pow2 <- MCPow2
  Address <- MCAddress
  NULL = NULL
SPECIFICATION Spec
INVARIANT AutomaticInit

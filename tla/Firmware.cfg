\* Start-up, heap, console and verdict of the firmware; the bounds are MCFirmware's.
CONSTANTS
  MB = 4
  EB = 5
  W = 16
  NormSteps <- MCNormSteps
  Coefficients <- MCCoefficients
  MARGIN_CAP = 6
  N = 2
CONSTANTS
  HSE_TIMEOUT_VALUE = 3
  PLL_TIMEOUT_VALUE = 2
  CLOCKSWITCH_TIMEOUT_VALUE = 4
  TickBits = 3
CONSTANTS
  Report <- MCReport
  BUFSIZ = 3
  MaxResets = 2
  MaxReports = 2
  NoByte = NoByte
CONSTANTS
  LENGTH_RAM = 131072
  Min_Stack_Size = 1024
  MinHeapSizes = {512, 16384, 32768}
  Ends <- MCEnds
  MYFFT_MAX_LOGN = 10
  Pow2 <- MCPow2
  Header = 8
  OtherSizes = {64, 1024}
  MaxOthers = 2
SPECIFICATION FirmwareSpec
INVARIANTS PartsTypeOK VerdictSound StartSound HeapSound Output
PROPERTIES ImplementsConsole GoesOn

\* Mantissas of 5 bits, exponents of 5, words of 16.
CONSTANTS
  MB = 4
  EB = 5
  W = 16
  NormSteps <- MCNormSteps
  Operands <- MCOperands
  Integers64 <- MCIntegers
  Scales <- MCScales
SPECIFICATION Spec
INVARIANTS CorrectlyRounded BuildsAgree
CHECK_DEADLOCK FALSE

\* What app.c says of myfft_prepare.
CONSTANTS
  MaxLogn = 3
  Repeats = 3
  KatLogn <- MCKatLogn
  SummaryLogn = 3
  Cost <- MCCost
  BuildCost = 7
  FailCost = 1
  NoTime = 99
SPECIFICATION Spec
INVARIANT NoTimedMalloc

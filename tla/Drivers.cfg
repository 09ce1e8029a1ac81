\* The drivers, with tables prepared and with tables that are not.
CONSTANTS
  MaxLogn = 3
  Repeats = 3
  KatLogn <- MCKatLogn
  SummaryLogn = 3
  Cost <- MCCost
  BuildCost = 7
  FailCost = 1
  NoTime = 99
SPECIFICATION Spec
INVARIANTS TypeOK OperandsRight Figures PreparedRuns Vouched

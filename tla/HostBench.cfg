CONSTANTS
  MAX_LOGN = 2
  MIN_BATCH = 10
  BATCHES = 3
  REPS_CAP = 8
  CopyCost = 1
  CallCost <- MCCallCost
  SchoolbookCost = 20
  Delays <- MCDelays
  MaxInterruptions = 3
SPECIFICATION Spec
INVARIANTS OperandsRestored Measured
PROPERTY Ends

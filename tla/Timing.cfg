\* The cycle counter, SysTick and the code that measures with them.
CONSTANTS
  CounterSize = 31
  TickSize = 6
  Period = 7
  HandlerCost = 2
  Repeats = 2
  MaxWork = 16
  Delay = 2
SPECIFICATION Spec
INVARIANTS TypeOK Exact DelayBounds TicksKept
PROPERTY ReportRepeats

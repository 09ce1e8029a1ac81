\* What app.c says of the clock check.
CONSTANTS
  CounterSize = 31
  TickSize = 6
  Period = 7
  HandlerCost = 2
  Repeats = 2
  MaxWork = 16
  Delay = 2
SPECIFICATION Spec
INVARIANT ClockRecovered

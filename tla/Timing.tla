------------------------------- MODULE Timing -------------------------------
(***************************************************************************)
(* Time on the target: the cycle counter CYCCNT, the SysTick interrupt     *)
(* that drives the HAL's clock, PRIMASK, and the program that measures     *)
(* with them (cyc_overhead, time_busy, the clock check of report(), the    *)
(* timed regions of the drivers, HAL_Delay).                               *)
(*                                                                         *)
(* A step takes one cycle, or any number of cycles where the code it       *)
(* stands for may take that long.  An interrupt that is pending and not    *)
(* masked is taken before the next instruction.  Only one can be pending:  *)
(* SysTick has no queue.                                                   *)
(***************************************************************************)
EXTENDS Integers

CONSTANTS
  CounterSize,  \* CYCCNT wraps; 2^32
  TickSize,     \* uwTick wraps; 2^32
  Period,       \* cycles from one SysTick to the next; 24000
  HandlerCost,  \* cycles of SysTick_Handler, with entry and exit
  Repeats,      \* rounds of cyc_overhead; 64
  MaxWork,      \* the longest code that is measured, in cycles
  Delay         \* the ticks HAL_Delay is asked for; 100 and 5000

(* A handler costs less than a period, by more than one instruction: after *)
(* the last tick HAL_Delay waits for, its loop ends before the next one.   *)
ASSUME TimingAssumption ==
  /\ Period \in Nat /\ HandlerCost \in 1 .. Period - 2
  /\ Repeats \in Nat \ {0} /\ MaxWork \in Nat \ {0} /\ Delay \in Nat \ {0}
  /\ CounterSize \in Nat /\ MaxWork + 1 < CounterSize
  /\ (Delay + 2) * Period < CounterSize
  /\ TickSize \in Nat /\ Delay + 2 < TickSize

VARIABLES
  CYCCNT,
  countdown,    \* cycles until SysTick fires
  pending,      \* SysTick is pending
  primask,      \* interrupts are masked
  uwTick,
  pc, region,   \* where the program is
  k,            \* repetitions done
  prim, t0,     \* locals of the timed region
  best,         \* local of cyc_overhead, then overhead of report()
  net,          \* what a region measured, as reported
  tickstart,    \* local of HAL_Delay
  elapsed,      \* cycles that really went by since t0 was read
  work,         \* cycles of the measured code alone
  lost          \* ticks that fired and were not counted, in this region

hardware == <<CYCCNT, countdown, pending, primask>>
measured == <<prim, t0, net, elapsed, work>>
vars == <<hardware, uwTick, pc, region, k, measured, best, tickstart, lost>>

(* The regions in the order of report() and of the drivers that follow.    *)
Regions == {"overhead", "busy", "clock", "driver", "pause"}

Masked == {"overhead", "busy", "driver"}

Following(r) ==
  CASE r = "overhead" -> "busy"   [] r = "busy" -> "clock"
    [] r = "clock" -> "driver"    [] r = "driver" -> "pause"
    [] r = "pause" -> "overhead"

Start(r) == IF r \in Masked THEN "cyc_lock" ELSE "t0"

Init ==
  /\ CYCCNT = 0 /\ countdown \in 1 .. Period /\ pending = FALSE
  /\ primask = FALSE /\ uwTick \in 0 .. TickSize - 1
  /\ region = "overhead" /\ pc = Start("overhead") /\ k = 0
  /\ prim = FALSE /\ t0 = 0 /\ best = CounterSize - 1 /\ net = 0
  /\ tickstart = 0 /\ elapsed = 0 /\ work = 0 /\ lost = 0

-----------------------------------------------------------------------------
(* What the model adds to the code's state to measure it stops counting    *)
(* where CYCCNT has wrapped once; no region of the code gets that far.     *)
Capped(x) == IF x > CounterSize THEN CounterSize ELSE x

(* c cycles go by: the counter counts, SysTick fires as often as it does.  *)
Fires(c) == IF c < countdown THEN 0 ELSE 1 + (c - countdown) \div Period

Pass(c, wasPending, lostBefore) ==
  /\ CYCCNT' = (CYCCNT + c) % CounterSize
  /\ countdown' = ((countdown - c - 1) % Period) + 1
  /\ pending' = (wasPending \/ Fires(c) > 0)
  /\ lost' = LET unseen == Fires(c) + (IF wasPending THEN 1 ELSE 0)
             IN  Capped(lostBefore + (IF unseen > 1 THEN unseen - 1 ELSE 0))

(* Between the instants at which t0 and t1 are read.                       *)
Measuring == pc \in {"work", "HAL_Delay", "wait", "t1"}

(* SysTick_Handler: HAL_IncTick.                                           *)
SysTickHandler ==
  /\ pending /\ ~primask
  /\ Pass(HandlerCost, FALSE, lost)
  /\ uwTick' = (uwTick + 1) % TickSize
  /\ elapsed' = IF Measuring THEN Capped(elapsed + HandlerCost) ELSE elapsed
  /\ UNCHANGED <<primask, pc, region, k, prim, t0, net, work, best, tickstart>>

(* An instruction is executed: no interrupt gets in first.                 *)
Runs(at) == pc = at /\ ~(pending /\ ~primask) /\ UNCHANGED uwTick

Instruction(at, c) == Runs(at) /\ Pass(c, pending, lost)

-----------------------------------------------------------------------------
(* Faulty variants: PRIMASK is read when it is set already; interrupts are *)
(* not disabled.                                                           *)
LockSwapped ==
  /\ Instruction("cyc_lock", 1)
  /\ prim' = TRUE /\ primask' = TRUE
  /\ pc' = "t0"
  /\ UNCHANGED <<region, k, t0, net, elapsed, work, best, tickstart>>

LockUnmasked ==
  /\ Instruction("cyc_lock", 1)
  /\ prim' = primask /\ primask' = primask
  /\ pc' = "t0"
  /\ UNCHANGED <<region, k, t0, net, elapsed, work, best, tickstart>>

cyc_lock ==
  /\ Instruction("cyc_lock", 1)
  /\ prim' = primask /\ primask' = TRUE
  /\ pc' = "t0"
  /\ UNCHANGED <<region, k, t0, net, elapsed, work, best, tickstart>>

(* t0 = cyc_read(): the value is that of the cycle in which it is read.    *)
ReadT0 ==
  /\ Instruction("t0", 1)
  /\ t0' = CYCCNT /\ elapsed' = 1
  /\ pc' = CASE region = "overhead" -> "t1"
             [] region \in {"busy", "driver"} -> "work"
             [] OTHER -> "HAL_Delay"
  /\ UNCHANGED <<primask, region, k, prim, net, work, best, tickstart>>

(* busy(n), or the transforms a driver measures.                           *)
Work ==
  \E c \in 1 .. MaxWork :
    /\ Instruction("work", c)
    /\ work' = c /\ elapsed' = Capped(elapsed + c)
    /\ pc' = "t1"
    /\ UNCHANGED <<primask, region, k, prim, t0, net, best, tickstart>>

HAL_Delay ==
  /\ Instruction("HAL_Delay", 1)
  /\ tickstart' = uwTick /\ elapsed' = Capped(elapsed + 1)
  /\ pc' = "wait"
  /\ UNCHANGED <<primask, region, k, prim, t0, net, work, best>>

(* Faulty variant: no tick is added to guarantee the minimum wait.         *)
waitUnguarded == Delay

wait == Delay + 1      \* wait += uwTickFreq

HAL_DelayLoop ==
  /\ Instruction("wait", 1)
  /\ elapsed' = Capped(elapsed + 1)
  /\ pc' = IF (uwTick - tickstart) % TickSize < wait THEN "wait" ELSE "t1"
  /\ UNCHANGED <<primask, region, k, prim, t0, net, work, best, tickstart>>

(* Faulty variants: a wider, signed subtraction; one that takes a smaller  *)
(* t1 for no time at all.                                                  *)
DifferenceSigned(x, y) == x - y
DifferenceSaturated(x, y) == IF x >= y THEN x - y ELSE 0

Difference(x, y) == (x - y) % CounterSize    \* uint32_t

(* t1 = cyc_read(), and what the code makes of t1 - t0: the minimum in     *)
(* cyc_overhead, the net time in time_busy, the difference elsewhere.      *)
ReadT1 ==
  LET d == Difference(CYCCNT, t0)
  IN  /\ Instruction("t1", 1)
      /\ net' = IF region # "busy" THEN d ELSE IF d > best THEN d - best ELSE 0
      /\ best' = IF region = "overhead" /\ d < best THEN d ELSE best
      /\ pc' = IF region \in Masked THEN "cyc_unlock" ELSE "done"
      /\ UNCHANGED <<primask, region, k, prim, t0, elapsed, work, tickstart>>

(* Faulty variant: the mask is left as it is.                              *)
UnlockForgotten ==
  /\ Instruction("cyc_unlock", 1)
  /\ primask' = primask
  /\ pc' = "done"
  /\ UNCHANGED <<region, k, measured, best, tickstart>>

cyc_unlock ==
  /\ Instruction("cyc_unlock", 1)
  /\ primask' = prim
  /\ pc' = "done"
  /\ UNCHANGED <<region, k, measured, best, tickstart>>

(* Everything between two regions (printing, filling buffers), unmasked.   *)
Continue ==
  \E c \in 1 .. Period :
    /\ Runs("done") /\ Pass(c, pending, 0)
    /\ IF region = "overhead" /\ k + 1 < Repeats
       THEN k' = k + 1 /\ region' = region
       ELSE k' = 0 /\ region' = Following(region)
    /\ pc' = Start(region')
    /\ best' = IF region' = "overhead" /\ k' = 0 THEN CounterSize - 1 ELSE best
    /\ prim' = FALSE /\ t0' = 0 /\ net' = 0 /\ tickstart' = 0
    /\ elapsed' = 0 /\ work' = 0
    /\ UNCHANGED primask

Program == cyc_lock \/ ReadT0 \/ Work \/ HAL_Delay \/ HAL_DelayLoop \/ ReadT1
           \/ cyc_unlock \/ Continue

Next == SysTickHandler \/ Program

Spec == Init /\ [][Next]_vars /\ WF_vars(Next)

-----------------------------------------------------------------------------
TypeOK ==
  /\ CYCCNT \in 0 .. CounterSize - 1 /\ countdown \in 1 .. Period
  /\ pending \in BOOLEAN /\ primask \in BOOLEAN /\ prim \in BOOLEAN
  /\ uwTick \in 0 .. TickSize - 1 /\ tickstart \in 0 .. TickSize - 1
  /\ pc \in {"cyc_lock", "t0", "work", "HAL_Delay", "wait", "t1", "cyc_unlock",
             "done"}
  /\ region \in Regions /\ k \in 0 .. Repeats - 1
  /\ t0 \in 0 .. CounterSize - 1 /\ best \in 0 .. CounterSize - 1
  /\ net \in 0 .. CounterSize - 1
  /\ elapsed \in 0 .. CounterSize /\ lost \in 0 .. CounterSize
  /\ work \in 0 .. MaxWork

(***************************************************************************)
(* What the report and the drivers print for a region is right wherever    *)
(* the counter wrapped: the cycles that went by, for the clock check and   *)
(* the drivers; the cycles of the measured code alone, without the cost of *)
(* measuring and without a tick, for time_busy.                            *)
(***************************************************************************)
Exact ==
  pc = "done" =>
    /\ region \in {"clock", "driver", "pause"} => net = elapsed
    /\ region = "busy" => net = work
    /\ region = "driver" => net = work + best

(***************************************************************************)
(* HAL_Delay waits for its whole ticks at least, and for one tick and the  *)
(* time of a handler more at most, wherever uwTick wraps.                  *)
(***************************************************************************)
LoopCost == 2    \* reading t0, and the last turn of the loop

DelayBounds ==
  pc = "done" /\ region \in {"clock", "pause"} =>
    /\ elapsed >= Delay * Period
    /\ elapsed <= (Delay + 1) * Period + HandlerCost + LoopCost

(***************************************************************************)
(* The HAL's clock loses a tick only to a masked region that lasts, with   *)
(* the instructions around it, longer than a period; it then lags behind   *)
(* by at most the time of that region.                                     *)
(***************************************************************************)
LockCost == 2    \* disabling interrupts, enabling them

TicksKept ==
  /\ region \notin Masked => lost = 0
  /\ pc = "done" => lost * Period <= elapsed + LockCost

(***************************************************************************)
(* The report is repeated for ever: no region leaves interrupts masked, in *)
(* which case HAL_Delay, which they drive, would never return.             *)
(***************************************************************************)
ReportRepeats == []<>(region = "clock" /\ pc = "done")

(***************************************************************************)
(* app.c on the clock check: measuring HAL_Delay(100) and dividing by the  *)
(* elapsed 0.1 s recovers the core clock; that is, the measured cycles are *)
(* those of Delay ticks, up to the handlers and the loop.                  *)
(***************************************************************************)
ClockRecovered ==
  pc = "done" /\ region = "clock" =>
    net <= Delay * Period + HandlerCost + LoopCost

=============================================================================

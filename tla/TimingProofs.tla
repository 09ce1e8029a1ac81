---------------------------- MODULE TimingProofs ----------------------------
(***************************************************************************)
(* The properties of Timing for any width of the two counters, any period, *)
(* any cost of the handler and any length of the measured code.            *)
(*                                                                         *)
(* The inductive invariant follows a region instruction by instruction:    *)
(* CYCCNT is always t0 and the cycles since, whether it wrapped or not;    *)
(* the ticks that were counted, or are pending, or were lost, are as many  *)
(* as the periods that began since the region did.                         *)
(***************************************************************************)
EXTENDS Timing, TLAPS

Pend == IF pending THEN 1 ELSE 0

PlaceInv ==
  /\ pc \in {"cyc_lock", "cyc_unlock"} => region \in Masked
  /\ pc = "work" => region \in {"busy", "driver"}
  /\ pc \in {"HAL_Delay", "wait"} => region \notin Masked

MaskInv ==
  /\ primask <=> region \in Masked /\ pc \in {"t0", "work", "t1", "cyc_unlock"}
  /\ prim = FALSE

BestInv ==
  best = IF region = "overhead" /\ k = 0 /\ pc \in {"cyc_lock", "t0", "t1"}
         THEN CounterSize - 1 ELSE 1

(***************************************************************************)
(* What went by since t0 was read, what the counter shows of it, and what  *)
(* is reported.                                                            *)
(***************************************************************************)
ElapsedInv ==
  /\ pc \in {"cyc_lock", "t0"} => elapsed = 0
  /\ pc \in {"cyc_lock", "t0", "work"} => work = 0
  /\ region = "overhead" => work = 0
  /\ pc = "work" => elapsed = 1
  /\ region \in Masked /\ pc \in {"t1", "cyc_unlock", "done"} =>
       elapsed = 1 + work

CounterInv == Measuring => CYCCNT = (t0 + elapsed) % CounterSize

NetInv ==
  pc \in {"cyc_unlock", "done"} =>
    net = IF region = "busy" THEN work ELSE elapsed

(***************************************************************************)
(* Ticks in a masked region: those lost and the one that is pending fit    *)
(* into the time since interrupts were disabled.                           *)
(***************************************************************************)
LostInv ==
  /\ region \notin Masked \/ pc = "cyc_lock" => lost = 0
  /\ region \in Masked /\ pc \in {"t0", "work", "t1", "cyc_unlock"} =>
       /\ lost > 0 => pending
       /\ (lost + Pend) * Period <=
            elapsed + countdown + (IF pc = "cyc_unlock" THEN 1 ELSE 0)
  /\ pc = "done" => lost * Period <= elapsed + 2

(***************************************************************************)
(* Ticks while HAL_Delay waits: those counted since tickstart, with the    *)
(* one that is pending, tell how much time went by up to the next one.     *)
(***************************************************************************)
Counted == (uwTick - tickstart) % TickSize

Upcoming == Counted + Pend

DelayInv ==
  region \notin Masked =>
    /\ Measuring => elapsed >= 1 /\ (pending => countdown = Period)
    /\ pc = "HAL_Delay" => elapsed + countdown <= 1 + Period
    /\ pc \in {"wait", "t1"} =>
         /\ Upcoming <= Delay + 1
         /\ elapsed + countdown <= 1 + (Upcoming + 1) * Period
         /\ 1 + Upcoming * Period <= elapsed + countdown
    /\ pc = "wait" /\ Counted = Delay + 1 => countdown = Period - HandlerCost
    /\ pc = "t1" => /\ Counted = Delay + 1
                    /\ countdown = Period - HandlerCost - 1
    /\ pc = "done" => /\ elapsed >= Delay * Period
                      /\ elapsed <= (Delay + 1) * Period + HandlerCost + 2

IInv ==
  /\ TypeOK /\ PlaceInv /\ MaskInv /\ BestInv
  /\ ElapsedInv /\ CounterInv /\ NetInv /\ LostInv /\ DelayInv

-----------------------------------------------------------------------------
(* The sizes, and what follows from the assumption about them.             *)
LEMMA Sizes ==
  /\ CounterSize \in Nat /\ Period \in Nat /\ HandlerCost \in Nat
  /\ TickSize \in Nat /\ Delay \in Nat \ {0} /\ Repeats \in Nat \ {0}
  /\ MaxWork \in Nat \ {0}
  /\ 1 <= HandlerCost /\ HandlerCost + 2 <= Period
  /\ MaxWork + 1 < CounterSize /\ Delay + 2 < TickSize
  /\ (Delay + 2) * Period \in Nat /\ (Delay + 2) * Period < CounterSize
<1>1. /\ CounterSize \in Nat /\ Period \in Nat /\ HandlerCost \in Nat
      /\ TickSize \in Nat /\ Delay \in Nat \ {0} /\ Repeats \in Nat \ {0}
      /\ MaxWork \in Nat \ {0}
      /\ 1 <= HandlerCost /\ HandlerCost + 2 <= Period
      /\ MaxWork + 1 < CounterSize /\ Delay + 2 < TickSize
  BY TimingAssumption
<1>2. (Delay + 2) * Period < CounterSize
  BY TimingAssumption
<1>3. \A m, n \in Nat : m * n \in Nat
  OBVIOUS
<1>4. Delay + 2 \in Nat
  BY <1>1
<1> QED
  BY <1>1, <1>2, <1>3, <1>4

LEMMA Monotone ==
  ASSUME NEW a \in Nat, NEW b \in Nat, NEW n \in Nat, a <= b
  PROVE  a * n <= b * n
<1>1. PICK d \in Nat : b = a + d
  <2>1. b - a \in Nat /\ b = a + (b - a)
    OBVIOUS
  <2> QED
    BY <2>1
<1>2. b * n = a * n + d * n /\ d * n \in Nat /\ a * n \in Nat
  BY <1>1
<1> QED
  BY <1>2

LEMMA OneMore == ASSUME NEW a \in Nat, NEW n \in Nat
                 PROVE  (a + 1) * n = a * n + n /\ a * n \in Nat
OBVIOUS

(***************************************************************************)
(* Arithmetic of a counter that wraps: the remainder of what it counted    *)
(* can be counted on, and a difference of two readings is the cycles in    *)
(* between when they are fewer than the counter's size.                    *)
(***************************************************************************)
LEMMA CountedOn ==
  ASSUME NEW n \in Nat \ {0}, NEW x \in 0 .. n - 1, NEW e \in Nat, NEW c \in Nat,
         e + c < n
  PROVE  (((x + e) % n) + c) % n = (x + (e + c)) % n
<1>1. x + e \in Int /\ 0 <= x + e /\ x + e < 2 * n
  OBVIOUS
<1>2. CASE x + e < n
  <2>1. (x + e) % n = x + e
    BY <1>1, <1>2
  <2> QED
    BY <2>1
<1>3. CASE x + e >= n
  <2>1. (x + e) % n = x + e - n
    BY <1>1, <1>3
  <2>2. x + (e + c) < 2 * n /\ n <= x + (e + c) /\ x + (e + c) \in Int
    BY <1>3
  <2>3. (x + (e + c)) % n = x + (e + c) - n
    BY <2>2
  <2>4. x + e - n + c \in Int /\ 0 <= x + e - n + c /\ x + e - n + c < n
    BY <1>3
  <2>5. (x + e - n + c) % n = x + e - n + c
    BY <2>4
  <2> QED
    BY <2>1, <2>3, <2>5
<1> QED
  BY <1>1, <1>2, <1>3

LEMMA Differences ==
  ASSUME NEW n \in Nat \ {0}, NEW x \in 0 .. n - 1, NEW e \in 0 .. n - 1
  PROVE  (((x + e) % n) - x) % n = e
<1>1. x + e \in Int /\ 0 <= x + e /\ x + e < 2 * n
  OBVIOUS
<1>2. CASE x + e < n
  <2>1. (x + e) % n = x + e
    BY <1>1, <1>2
  <2>2. x + e - x = e
    OBVIOUS
  <2> QED
    BY <2>1, <2>2
<1>3. CASE x + e >= n
  <2>1. (x + e) % n = x + e - n
    BY <1>1, <1>3
  <2>2. x + e - n - x = e - n /\ e - n \in Int /\ -n <= e - n /\ e - n < 0
    BY <1>3
  <2>3. (e - n) % n = e
    BY <2>2
  <2> QED
    BY <2>1, <2>2, <2>3
<1> QED
  BY <1>1, <1>2, <1>3

(***************************************************************************)
(* What one more tick does to the number of ticks counted since tickstart, *)
(* wherever uwTick wraps.                                                  *)
(***************************************************************************)
LEMMA TickCounted ==
  ASSUME NEW n \in Nat \ {0}, NEW x \in 0 .. n - 1, NEW s \in 0 .. n - 1,
         (x - s) % n < n - 1
  PROVE  (((x + 1) % n) - s) % n = ((x - s) % n) + 1
<1>1. x - s \in Int /\ -n <= x - s /\ x - s < n
  OBVIOUS
<1>2. CASE x + 1 < n
  <2>1. (x + 1) % n = x + 1
    BY <1>2
  <2>2. CASE x - s >= 0
    <3>1. (x - s) % n = x - s
      BY <1>1, <2>2
    <3>2. x + 1 - s \in Int /\ 0 <= x + 1 - s /\ x + 1 - s < n
      BY <2>2, <3>1
    <3>3. (x + 1 - s) % n = x + 1 - s
      BY <3>2
    <3> QED
      BY <2>1, <3>1, <3>3
  <2>3. CASE x - s < 0
    <3>1. (x - s) % n = x - s + n
      BY <1>1, <2>3
    <3>2. x + 1 - s \in Int /\ -n <= x + 1 - s /\ x + 1 - s < 0
      BY <2>3, <3>1
    <3>3. (x + 1 - s) % n = x + 1 - s + n
      BY <3>2
    <3> QED
      BY <2>1, <3>1, <3>3
  <2> QED
    BY <1>1, <2>2, <2>3
<1>3. CASE x + 1 = n
  <2>1. (x + 1) % n = 0
    BY <1>3
  <2>2. (x - s) % n = x - s
    BY <1>1, <1>3
  <2>3. s # 0
    BY <2>2, <1>3
  <2>4. 0 - s \in Int /\ -n <= 0 - s /\ 0 - s < 0
    BY <2>3
  <2>5. (0 - s) % n = 0 - s + n
    BY <2>4
  <2> QED
    BY <2>1, <2>2, <2>5, <1>3
<1> QED
  BY <1>2, <1>3

(***************************************************************************)
(* c cycles: how many ticks fire, and how long it is to the next one.  In  *)
(* a period at most one fires, and only one that finds another one pending *)
(* is lost.                                                                *)
(***************************************************************************)
LEMMA FiresFacts ==
  ASSUME TypeOK, NEW c \in Nat
  PROVE  /\ Fires(c) \in Nat
         /\ ((countdown - c - 1) % Period) + 1 =
              countdown - c + Fires(c) * Period
         /\ ((countdown - c - 1) % Period) + 1 \in 1 .. Period
         /\ c <= Period => Fires(c) = IF c < countdown THEN 0 ELSE 1
<1> DEFINE n == Period
           x == countdown - c - 1
<1>1. n \in Nat \ {0} /\ countdown \in 1 .. n
  BY Sizes DEF TypeOK
<1>2. x \in Int
  BY <1>1
<1>3. x % n \in 0 .. n - 1
  BY <1>1, <1>2
<1>4. CASE c < countdown
  <2>1. 0 <= x /\ x < n
    BY <1>1, <1>4
  <2>2. x % n = x
    BY <1>1, <1>2, <2>1
  <2>3. Fires(c) = 0
    BY <1>4 DEF Fires
  <2> QED
    BY <1>1, <1>3, <2>2, <2>3
<1>5. CASE c >= countdown
  <2> DEFINE y == c - countdown
             q == y \div n
             r == y % n
  <2>1. y \in Nat /\ Fires(c) = 1 + q
    BY <1>1, <1>5 DEF Fires
  <2>2. q \in Nat /\ r \in 0 .. n - 1 /\ y = n * q + r
    BY <1>1, <2>1
  <2>3. x = n * (-q - 1) + (n - 1 - r)
    BY <1>1, <2>1, <2>2
  <2>4. x % n = n - 1 - r
    <3>1. n - 1 - r \in 0 .. n - 1 /\ -q - 1 \in Int
      BY <1>1, <2>2
    <3>2. \A a \in Nat \ {0}, d \in Int : \A e \in 0 .. a - 1 :
            (a * d + e) % a = e
      OBVIOUS
    <3> QED
      BY <1>1, <2>3, <3>1, <3>2
  <2>5. Fires(c) * n = n + n * q
    BY <1>1, <2>1, <2>2
  <2>6. c <= n => q = 0
    BY <1>1, <2>1
  <2> QED
    BY <1>1, <1>3, <1>5, <2>1, <2>2, <2>4, <2>5, <2>6
<1> QED
  BY <1>1, <1>4, <1>5

LEMMA CappedFacts ==
  ASSUME NEW x \in Nat
  PROVE  /\ Capped(x) \in 0 .. CounterSize /\ Capped(x) <= x
         /\ x <= CounterSize => Capped(x) = x
BY Sizes DEF Capped

LEMMA PassFacts ==
  ASSUME TypeOK, NEW c \in Nat, NEW w \in BOOLEAN, NEW l \in 0 .. CounterSize,
         Pass(c, w, l)
  PROVE  /\ CYCCNT' = (CYCCNT + c) % CounterSize /\ CYCCNT' \in 0 .. CounterSize - 1
         /\ countdown' = countdown - c + Fires(c) * Period
         /\ countdown' \in 1 .. Period
         /\ pending' \in BOOLEAN /\ (pending' <=> w \/ Fires(c) > 0)
         /\ lost' \in 0 .. CounterSize
         /\ lost' > l => w \/ Fires(c) > 1
         /\ lost' + (IF pending' THEN 1 ELSE 0) <=
              l + Fires(c) + (IF w THEN 1 ELSE 0)
<1>1. CounterSize \in Nat \ {0} /\ CYCCNT + c \in Int /\ Fires(c) \in Nat
  BY Sizes, FiresFacts DEF TypeOK
<1>2. CYCCNT' = (CYCCNT + c) % CounterSize /\ CYCCNT' \in 0 .. CounterSize - 1
  BY <1>1 DEF Pass
<1>3. /\ countdown' = countdown - c + Fires(c) * Period
      /\ countdown' \in 1 .. Period
  BY FiresFacts DEF Pass
<1>4. pending' \in BOOLEAN /\ (pending' <=> w \/ Fires(c) > 0)
  BY Zenon DEF Pass
<1> DEFINE unseen == Fires(c) + (IF w THEN 1 ELSE 0)
           more == l + (IF unseen > 1 THEN unseen - 1 ELSE 0)
<1>5. lost' = Capped(more)
  BY DEF Pass
<1>6. more \in Nat
  BY <1>1
<1>7. lost' \in 0 .. CounterSize /\ lost' <= more
  BY <1>5, <1>6, CappedFacts
<1> HIDE DEF more
<1>8. more > l => w \/ Fires(c) > 1
  BY <1>1 DEF more
<1>9. more + (IF w \/ Fires(c) > 0 THEN 1 ELSE 0) <=
        l + Fires(c) + (IF w THEN 1 ELSE 0)
  BY <1>1 DEF more
<1>10. lost' > l => w \/ Fires(c) > 1
  BY <1>6, <1>7, <1>8
<1>11. (IF pending' THEN 1 ELSE 0) = (IF w \/ Fires(c) > 0 THEN 1 ELSE 0)
  BY <1>4
<1>12. lost' + (IF pending' THEN 1 ELSE 0) <=
         l + Fires(c) + (IF w THEN 1 ELSE 0)
  BY <1>1, <1>6, <1>7, <1>9, <1>11
<1> QED
  BY <1>2, <1>3, <1>4, <1>7, <1>10, <1>12

(* A step of at most a period that finds no tick pending, or a handler.    *)
LEMMA ShortPass ==
  ASSUME TypeOK, NEW c \in 1 .. Period, NEW l \in 0 .. CounterSize,
         Pass(c, FALSE, l)
  PROVE  /\ lost' = l
         /\ c < countdown => ~pending' /\ countdown' = countdown - c
         /\ c >= countdown => pending' /\ countdown' = countdown - c + Period
<1>1. c \in Nat /\ c <= Period /\ Period \in Nat
  BY Sizes
<1>2. Fires(c) = IF c < countdown THEN 0 ELSE 1
  BY <1>1, FiresFacts
<1>3. lost' = Capped(l + 0)
  BY <1>2 DEF Pass
<1>4. lost' = l
  BY <1>3, CappedFacts
<1>5. pending' <=> Fires(c) > 0
  BY Zenon DEF Pass
<1>6. countdown' = countdown - c + Fires(c) * Period
  BY <1>1, FiresFacts DEF Pass
<1>7. countdown \in Nat
  BY <1>1 DEF TypeOK
<1> QED
  BY <1>1, <1>2, <1>4, <1>5, <1>6, <1>7

(***************************************************************************)
(* What the two kinds of region keep through a step: the bound on the lost *)
(* ticks, for any c cycles while interrupts are masked; room in CYCCNT, as *)
(* long as no more than Delay + 1 ticks are counted or pending.            *)
(***************************************************************************)
LEMMA MaskedStep ==
  ASSUME TypeOK, NEW c \in Nat, NEW z \in Nat, Pass(c, pending, lost),
         lost > 0 => pending, (lost + Pend) * Period <= z + countdown
  PROVE  /\ lost' > 0 => pending'
         /\ (lost' + Pend') * Period <= z + c + countdown'
<1>1. /\ Period \in Nat /\ countdown \in Nat /\ lost \in 0 .. CounterSize
      /\ lost \in Nat /\ pending \in BOOLEAN
  BY Sizes DEF TypeOK
<1>2. PICK F \in Nat : F = Fires(c)
  BY FiresFacts
<1>3. /\ countdown' = countdown - c + F * Period /\ countdown' \in 1 .. Period
      /\ pending' \in BOOLEAN /\ (pending' <=> pending \/ F > 0)
      /\ lost' \in 0 .. CounterSize
      /\ lost' > lost => pending \/ F > 1
      /\ lost' + Pend' <= lost + F + Pend
  BY <1>1, <1>2, PassFacts DEF Pend
<1>4. Pend \in Nat /\ Pend' \in Nat
  BY DEF Pend
<1>5. lost' \in Nat
  BY <1>3, Sizes
<1>6. (lost' + Pend') * Period <= ((lost + Pend) + F) * Period
  <2>1. lost \in Nat /\ Pend \in Nat /\ F \in Nat
    BY <1>1, <1>2, <1>4
  <2>2. lost' + Pend' \in Nat /\ (lost + Pend) + F \in Nat
    <3>1. \A a, b \in Nat : a + b \in Nat
      OBVIOUS
    <3> QED
      BY ONLY <1>4, <1>5, <2>1, <3>1, Zenon
  <2>3. lost' + Pend' <= (lost + Pend) + F
    BY <1>1, <1>2, <1>3, <1>4, <1>5
  <2> QED
    BY <1>1, <2>3, <2>2, Monotone
<1>7. ((lost + Pend) + F) * Period = (lost + Pend) * Period + F * Period
  BY <1>1, <1>2, <1>4
<1>8. /\ (lost' + Pend') * Period \in Int /\ F * Period \in Int
      /\ (lost + Pend) * Period \in Int
  BY <1>1, <1>2, <1>4, <1>5
<1>9. (lost' + Pend') * Period <= z + c + countdown'
  BY <1>1, <1>3, <1>6, <1>7, <1>8
<1>10. lost' > 0 => pending'
  BY <1>1, <1>2, <1>3, <1>5
<1> QED
  BY <1>9, <1>10

LEMMA Room ==
  ASSUME NEW e \in Nat, NEW d \in Nat \ {0}, NEW u \in 0 .. Delay + 1,
         e + d <= 1 + (u + 1) * Period
  PROVE  e < CounterSize
<1>1. (u + 1) * Period <= (Delay + 2) * Period
  BY Sizes, Monotone
<1>2. (u + 1) * Period \in Int
  BY Sizes
<1> QED
  BY <1>1, <1>2, Sizes

LEMMA UpcomingType == ASSUME TypeOK
                      PROVE  Counted \in 0 .. TickSize - 1 /\ Upcoming \in Nat
BY Sizes DEF TypeOK, Counted, Upcoming, Pend

(* The parts of the invariant about the hardware alone.                    *)
HardwareType ==
  /\ CYCCNT \in 0 .. CounterSize - 1 /\ countdown \in 1 .. Period
  /\ pending \in BOOLEAN /\ lost \in 0 .. CounterSize

LEMMA HardwareTyped ==
  ASSUME TypeOK, NEW c \in Nat, NEW w \in BOOLEAN, NEW l \in 0 .. CounterSize,
         Pass(c, w, l)
  PROVE  HardwareType'
BY PassFacts DEF HardwareType

ProgramType ==
  /\ primask \in BOOLEAN /\ prim \in BOOLEAN
  /\ uwTick \in 0 .. TickSize - 1 /\ tickstart \in 0 .. TickSize - 1
  /\ pc \in {"cyc_lock", "t0", "work", "HAL_Delay", "wait", "t1", "cyc_unlock",
             "done"}
  /\ region \in Regions /\ k \in 0 .. Repeats - 1
  /\ t0 \in 0 .. CounterSize - 1 /\ best \in 0 .. CounterSize - 1
  /\ net \in 0 .. CounterSize - 1
  /\ elapsed \in 0 .. CounterSize /\ work \in 0 .. MaxWork

LEMMA TypeParts == TypeOK <=> HardwareType /\ ProgramType
BY DEF TypeOK, HardwareType, ProgramType

-----------------------------------------------------------------------------
(* The initial states.                                                     *)
LEMMA InitInv == Init => IInv
<1> SUFFICES ASSUME Init
             PROVE  IInv
  OBVIOUS
<1>1. TypeOK
  <2>1. pc = "cyc_lock" /\ region = "overhead"
    BY DEF Init, Start, Masked
  <2>2. /\ 0 \in 0 .. CounterSize - 1 /\ CounterSize - 1 \in 0 .. CounterSize - 1
        /\ 0 \in 0 .. CounterSize /\ 0 \in 0 .. TickSize - 1
        /\ 0 \in 0 .. Repeats - 1 /\ 0 \in 0 .. MaxWork
    BY Sizes
  <2> QED
    BY <2>1, <2>2 DEF Init, TypeOK, Regions
<1>2. PlaceInv /\ MaskInv /\ BestInv
  BY DEF Init, PlaceInv, MaskInv, BestInv, Start, Masked
<1>3. ElapsedInv /\ CounterInv /\ NetInv /\ DelayInv
  BY DEF Init, ElapsedInv, CounterInv, NetInv, DelayInv, Start, Masked, Measuring
<1>4. LostInv
  BY DEF Init, LostInv, Start, Masked
<1> QED
  BY <1>1, <1>2, <1>3, <1>4 DEF IInv

-----------------------------------------------------------------------------
(* A handler.  It runs only where interrupts are not masked: outside the   *)
(* masked regions, before and after their code, or while HAL_Delay waits.  *)
LEMMA HandlerKeeps == ASSUME IInv, SysTickHandler
                      PROVE  IInv'
<1> USE DEF IInv
<1>1. /\ pending /\ ~primask /\ Pass(HandlerCost, FALSE, lost)
      /\ uwTick' = (uwTick + 1) % TickSize
      /\ elapsed' = IF Measuring THEN Capped(elapsed + HandlerCost) ELSE elapsed
      /\ primask' = primask /\ pc' = pc /\ region' = region /\ k' = k
      /\ prim' = prim /\ t0' = t0 /\ net' = net /\ work' = work /\ best' = best
      /\ tickstart' = tickstart
  BY DEF SysTickHandler
<1>2. /\ HandlerCost \in 1 .. Period /\ HandlerCost \in Nat
      /\ elapsed \in Nat /\ lost \in 0 .. CounterSize
      /\ countdown \in 1 .. Period /\ Period \in Nat
  BY Sizes DEF TypeOK
<1>3. /\ lost' = lost
      /\ HandlerCost < countdown =>
           ~pending' /\ countdown' = countdown - HandlerCost
      /\ CYCCNT' = (CYCCNT + HandlerCost) % CounterSize
  <2>1. /\ lost' = lost
        /\ HandlerCost < countdown =>
             ~pending' /\ countdown' = countdown - HandlerCost
    BY <1>1, <1>2, ShortPass
  <2> QED
    BY <1>1, <2>1 DEF Pass
<1>4. Measuring => pc \in {"HAL_Delay", "wait"} /\ region \notin Masked
  <2>1. region \in Masked => pc \notin {"t0", "work", "t1", "cyc_unlock"}
    BY <1>1 DEF MaskInv
  <2>2. pc \in {"HAL_Delay", "wait"} => region \notin Masked
    BY DEF PlaceInv
  <2>3. pc = "work" => region \in Masked
    BY DEF PlaceInv, Masked
  <2>4. pc = "t1" /\ region \notin Masked => ~pending
    <3> SUFFICES ASSUME pc = "t1", region \notin Masked
                 PROVE  ~pending
      OBVIOUS
    <3>1. Counted = Delay + 1 /\ Upcoming <= Delay + 1
      BY DEF DelayInv
    <3> QED
      BY <3>1, Sizes DEF Upcoming, Pend
  <2> QED
    BY <1>1, <2>1, <2>2, <2>3, <2>4 DEF Measuring
<1>5. Measuring => /\ countdown = Period /\ ~pending'
                   /\ countdown' = Period - HandlerCost
                   /\ elapsed >= 1
  <2> SUFFICES ASSUME Measuring
               PROVE  /\ countdown = Period /\ ~pending'
                      /\ countdown' = Period - HandlerCost
                      /\ elapsed >= 1
    OBVIOUS
  <2>1. countdown = Period /\ elapsed >= 1
    BY <1>1, <1>4 DEF DelayInv
  <2> QED
    BY <1>2, <1>3, <2>1, Sizes
<1>6. pc = "wait" => /\ Counted < Delay + 1 /\ Counted' = Counted + 1
                     /\ Upcoming' = Upcoming
                     /\ elapsed + countdown <= 1 + (Upcoming + 1) * Period
                     /\ 1 + Upcoming * Period <= elapsed + countdown
                     /\ Upcoming \in 0 .. Delay + 1
  <2> SUFFICES ASSUME pc = "wait"
               PROVE  /\ Counted < Delay + 1 /\ Counted' = Counted + 1
                      /\ Upcoming' = Upcoming
                      /\ elapsed + countdown <= 1 + (Upcoming + 1) * Period
                      /\ 1 + Upcoming * Period <= elapsed + countdown
                      /\ Upcoming \in 0 .. Delay + 1
    OBVIOUS
  <2>1. region \notin Masked /\ Measuring
    BY <1>4 DEF Measuring
  <2>2. /\ Upcoming <= Delay + 1
        /\ elapsed + countdown <= 1 + (Upcoming + 1) * Period
        /\ 1 + Upcoming * Period <= elapsed + countdown
    BY <2>1 DEF DelayInv
  <2>3. Counted \in 0 .. TickSize - 1 /\ Upcoming \in Nat /\ Upcoming = Counted + 1
    BY <1>1, UpcomingType DEF Upcoming, Pend
  <2>4. Counted < Delay + 1 /\ Counted < TickSize - 1
    BY <2>2, <2>3, Sizes
  <2>5. /\ TickSize \in Nat \ {0} /\ uwTick \in 0 .. TickSize - 1
        /\ tickstart \in 0 .. TickSize - 1
    BY Sizes DEF TypeOK
  <2>6. (((uwTick + 1) % TickSize) - tickstart) % TickSize = Counted + 1
    BY <2>4, <2>5, TickCounted DEF Counted
  <2>7. Counted' = Counted + 1
    BY <1>1, <2>6 DEF Counted
  <2>8. Upcoming' = Upcoming
    BY <1>5, <2>1, <2>3, <2>7 DEF Upcoming, Pend
  <2> QED
    BY <2>2, <2>3, <2>4, <2>7, <2>8, Sizes
<1>7. Measuring => /\ elapsed + HandlerCost < CounterSize
                   /\ elapsed' = elapsed + HandlerCost
  <2> SUFFICES ASSUME Measuring
               PROVE  elapsed + HandlerCost < CounterSize
    <3>1. elapsed + HandlerCost \in Nat
      BY <1>2
    <3> QED
      BY <1>1, <3>1, CappedFacts, Sizes
  <2>1. PICK u \in 0 .. Delay + 1 : elapsed + countdown <= 1 + (u + 1) * Period
    <3>1. CASE pc = "HAL_Delay"
      <4>1. elapsed + countdown <= 1 + Period
        BY <1>4, <3>1 DEF DelayInv
      <4>2. (0 + 1) * Period = Period /\ 0 \in 0 .. Delay + 1
        BY Sizes
      <4> QED
        BY <4>1, <4>2
    <3>2. CASE pc = "wait"
      BY <1>6, <3>2
    <3> QED
      BY <1>4, <3>1, <3>2
  <2>2. /\ (elapsed + HandlerCost) + (Period - HandlerCost) = elapsed + countdown
        /\ Period - HandlerCost \in Nat \ {0} /\ elapsed + HandlerCost \in Nat
    BY <1>2, <1>5, Sizes
  <2>3. (elapsed + HandlerCost) + (Period - HandlerCost) <= 1 + (u + 1) * Period
    BY <2>1, <2>2
  <2> QED
    BY <2>2, <2>3, Room
<1>8. TypeOK'
  <2>1. HardwareType'
    BY <1>1, <1>2, HardwareTyped
  <2>2. uwTick' \in 0 .. TickSize - 1
    BY <1>1, Sizes DEF TypeOK
  <2>3. elapsed' \in 0 .. CounterSize
    BY <1>1, <1>2, <1>7, Sizes DEF TypeOK
  <2>4. ProgramType'
    BY <1>1, <2>2, <2>3, TypeParts DEF ProgramType
  <2> QED
    BY <2>1, <2>4 DEF TypeOK, HardwareType, ProgramType
<1>9. PlaceInv' /\ MaskInv' /\ BestInv'
  BY <1>1, Zenon DEF PlaceInv, MaskInv, BestInv
<1>10. ElapsedInv'
  <2>1. CASE ~Measuring
    BY <1>1, <2>1, Zenon DEF ElapsedInv, Measuring
  <2>2. CASE Measuring
    BY <1>1, <1>4, <2>2, Zenon DEF ElapsedInv
  <2> QED
    BY <2>1, <2>2
<1>11. CounterInv'
  <2> SUFFICES ASSUME Measuring
               PROVE  CYCCNT' = (t0 + (elapsed + HandlerCost)) % CounterSize
    BY <1>1, <1>7, Zenon DEF CounterInv, Measuring
  <2>1. CYCCNT = (t0 + elapsed) % CounterSize
    BY DEF CounterInv
  <2>2. t0 \in 0 .. CounterSize - 1 /\ CounterSize \in Nat \ {0}
    BY Sizes DEF TypeOK
  <2> QED
    BY <1>2, <1>3, <1>7, <2>1, <2>2, CountedOn
<1>12. NetInv'
  BY <1>1, Zenon DEF NetInv, Measuring
<1>13. LostInv'
  <2>1. region \in Masked /\ pc \in {"t0", "work", "t1", "cyc_unlock"} => FALSE
    BY <1>1 DEF MaskInv
  <2>2. pc = "done" => elapsed' = elapsed
    BY <1>1 DEF Measuring
  <2> QED
    BY <1>1, <1>3, <2>1, <2>2, Zenon DEF LostInv
<1>14. DelayInv'
  <2> SUFFICES ASSUME region \notin Masked
               PROVE  DelayInv'
    BY <1>1, Zenon DEF DelayInv
  <2>1. Measuring' <=> Measuring
    BY <1>1, Zenon DEF Measuring
  <2>2. Measuring' => elapsed' >= 1 /\ (pending' => countdown' = Period)
    BY <1>2, <1>5, <1>7, <2>1
  <2>3. pc' = "HAL_Delay" => elapsed' + countdown' <= 1 + Period
    BY <1>1, <1>2, <1>5, <1>7, Sizes DEF DelayInv, Measuring
  <2>4. pc' \in {"wait", "t1"} => pc = "wait" /\ Measuring
    BY <1>1, <1>4 DEF Measuring
  <2>5. pc = "wait" => elapsed' + countdown' = elapsed + countdown
    BY <1>2, <1>5, <1>7, <2>4, Sizes DEF Measuring
  <2>6. pc' \in {"wait", "t1"} =>
          /\ Upcoming' <= Delay + 1
          /\ elapsed' + countdown' <= 1 + (Upcoming' + 1) * Period
          /\ 1 + Upcoming' * Period <= elapsed' + countdown'
    BY <1>6, <2>4, <2>5, Sizes
  <2>7. pc' = "wait" => countdown' = Period - HandlerCost
    BY <1>5, <2>4
  <2>8. pc' # "t1"
    BY <1>1, <2>4
  <2>9. pc' = "done" => /\ elapsed' >= Delay * Period
                        /\ elapsed' <= (Delay + 1) * Period + HandlerCost + 2
    BY <1>1 DEF DelayInv, Measuring
  <2> QED
    BY <2>2, <2>3, <2>6, <2>7, <2>8, <2>9, Zenon DEF DelayInv
<1> QED
  BY <1>8, <1>9, <1>10, <1>11, <1>12, <1>13, <1>14

-----------------------------------------------------------------------------
(* An instruction where interrupts are not masked: none is pending, and at *)
(* most one becomes so.                                                    *)
LEMMA UnmaskedCycle ==
  ASSUME TypeOK, ~primask, NEW at, Instruction(at, 1)
  PROVE  /\ pc = at /\ uwTick' = uwTick /\ ~pending /\ lost' = lost
         /\ CYCCNT' = (CYCCNT + 1) % CounterSize /\ HardwareType'
         /\ countdown > 1 => ~pending' /\ countdown' = countdown - 1
         /\ countdown = 1 => pending' /\ countdown' = Period
<1>1. pc = at /\ uwTick' = uwTick /\ ~pending /\ Pass(1, pending, lost)
  BY DEF Instruction, Runs
<1>2. pending = FALSE
  BY <1>1, Zenon DEF TypeOK
<1>3. Pass(1, FALSE, lost)
  BY <1>1, <1>2, Zenon
<1>4. /\ 1 \in 1 .. Period /\ 1 \in Nat /\ lost \in 0 .. CounterSize
      /\ countdown \in 1 .. Period /\ Period \in Nat
  BY Sizes DEF TypeOK
<1>5. /\ lost' = lost
      /\ 1 < countdown => ~pending' /\ countdown' = countdown - 1
      /\ 1 >= countdown => pending' /\ countdown' = countdown - 1 + Period
  BY <1>3, <1>4, ShortPass
<1>6. HardwareType'
  BY <1>3, <1>4, HardwareTyped
<1>7. CYCCNT' = (CYCCNT + 1) % CounterSize
  BY <1>3 DEF Pass
<1> QED
  BY <1>1, <1>4, <1>5, <1>6, <1>7

LEMMA CycLockKeeps == ASSUME IInv, cyc_lock
                      PROVE  IInv'
<1> USE DEF IInv
<1>1. /\ Instruction("cyc_lock", 1) /\ prim' = primask /\ primask' = TRUE
      /\ pc' = "t0" /\ pc = "cyc_lock"
      /\ region' = region /\ k' = k /\ t0' = t0 /\ net' = net
      /\ elapsed' = elapsed /\ work' = work /\ best' = best
      /\ tickstart' = tickstart
  BY DEF cyc_lock, Instruction, Runs
<1>2. region \in Masked /\ primask = FALSE
  BY <1>1, Zenon DEF PlaceInv, MaskInv, TypeOK
<1>3. /\ uwTick' = uwTick /\ ~pending /\ lost' = lost /\ HardwareType'
      /\ countdown > 1 => ~pending' /\ countdown' = countdown - 1
      /\ countdown = 1 => pending' /\ countdown' = Period
  BY <1>1, <1>2, UnmaskedCycle
<1>4. elapsed = 0 /\ work = 0 /\ lost = 0
  BY <1>1, <1>2 DEF ElapsedInv, LostInv
<1>5. TypeOK'
  <2>1. ProgramType'
    BY <1>1, <1>2, <1>3, TypeParts, Zenon DEF ProgramType
  <2> QED
    BY <1>3, <2>1 DEF TypeOK, HardwareType, ProgramType
<1>6. PlaceInv' /\ MaskInv'
  BY <1>1, <1>2 DEF PlaceInv, MaskInv
<1>7. BestInv'
  BY <1>1 DEF BestInv
<1>8. ElapsedInv'
  BY <1>1, <1>4 DEF ElapsedInv
<1>9. CounterInv' /\ NetInv'
  BY <1>1 DEF CounterInv, NetInv, Measuring
<1>10. LostInv'
  <2>1. Pend' <= countdown' /\ Pend' * Period <= countdown'
    <3>1. CASE countdown > 1
      <4>1. Pend' = 0 /\ countdown' \in Nat
        BY <1>3, <3>1, Sizes DEF Pend, HardwareType
      <4> QED
        BY <4>1, Sizes
    <3>2. CASE countdown = 1
      <4>1. Pend' = 1 /\ countdown' = Period
        BY <1>3, <3>2 DEF Pend
      <4> QED
        BY <4>1, Sizes
    <3> QED
      BY <3>1, <3>2, Sizes DEF TypeOK
  <2>2. Pend' \in Nat /\ lost' = 0 /\ elapsed' = 0
    BY <1>1, <1>3, <1>4 DEF Pend
  <2>3. (lost' + Pend') * Period <= elapsed' + countdown'
    <3>1. countdown' \in Nat
      BY <1>3, Sizes DEF HardwareType
    <3>2. \A n \in Nat : 0 + n = n
      OBVIOUS
    <3>3. lost' + Pend' = Pend'
      BY <2>2, <3>2, Zenon
    <3>4. elapsed' + countdown' = countdown'
      BY <2>2, <3>1, <3>2, Zenon
    <3> QED
      BY <2>1, <3>3, <3>4
  <2>4. pc' = "t0" /\ region' \in Masked
    BY <1>1, <1>2
  <2>5. elapsed' + countdown' + 0 = elapsed' + countdown'
    BY <2>2, <1>5, Sizes DEF TypeOK
  <2> QED
    BY <2>2, <2>3, <2>4, <2>5 DEF LostInv
<1>11. DelayInv'
  BY <1>1, <1>2 DEF DelayInv
<1> QED
  BY <1>5, <1>6, <1>7, <1>8, <1>9, <1>10, <1>11

LEMMA ReadT0Keeps == ASSUME IInv, ReadT0
                     PROVE  IInv'
<1> USE DEF IInv
<1>1. /\ Instruction("t0", 1) /\ t0' = CYCCNT /\ elapsed' = 1 /\ pc = "t0"
      /\ uwTick' = uwTick /\ Pass(1, pending, lost)
      /\ primask' = primask /\ region' = region /\ k' = k /\ prim' = prim
      /\ net' = net /\ work' = work /\ best' = best /\ tickstart' = tickstart
  BY DEF ReadT0, Instruction, Runs
<1>2. /\ region = "overhead" => pc' = "t1"
      /\ region \in {"busy", "driver"} => pc' = "work"
      /\ region \notin Masked => pc' = "HAL_Delay"
  BY DEF ReadT0, Masked
<1>3. /\ pending \in BOOLEAN /\ lost \in 0 .. CounterSize /\ 1 \in Nat
      /\ countdown \in 1 .. Period /\ Period \in Nat /\ lost \in Nat
      /\ CYCCNT \in 0 .. CounterSize - 1 /\ region \in Regions
  BY Sizes DEF TypeOK
<1>4. elapsed = 0 /\ work = 0
  BY <1>1 DEF ElapsedInv
<1>5. region \in Masked \/ region \notin Masked
  OBVIOUS
<1>6. /\ pc' \in {"work", "HAL_Delay", "t1"}
      /\ region \in Masked => pc' \in {"work", "t1"}
  BY <1>2, <1>3 DEF Masked, Regions
<1>7. TypeOK'
  <2>1. HardwareType'
    BY <1>1, <1>3, HardwareTyped
  <2>2. 1 \in 0 .. CounterSize /\ CYCCNT \in 0 .. CounterSize - 1
    BY <1>3, Sizes
  <2>3. ProgramType'
    BY <1>1, <1>6, <2>2, TypeParts DEF ProgramType
  <2> QED
    BY <2>1, <2>3 DEF TypeOK, HardwareType, ProgramType
<1>8. PlaceInv'
  BY <1>1, <1>2, <1>6 DEF PlaceInv, Masked
<1>9. MaskInv'
  <2>1. primask <=> region \in Masked
    BY <1>1, Zenon DEF MaskInv
  <2>2. region \in Masked => pc' \in {"t0", "work", "t1", "cyc_unlock"}
    BY <1>6
  <2> QED
    BY <1>1, <2>1, <2>2, Zenon DEF MaskInv
<1>10. BestInv'
  BY <1>1, <1>2 DEF BestInv
<1>11. ElapsedInv'
  BY <1>1, <1>4, <1>6 DEF ElapsedInv
<1>12. CounterInv'
  <2>1. CYCCNT' = (CYCCNT + 1) % CounterSize
    BY <1>1 DEF Pass
  <2> QED
    BY <1>1, <2>1 DEF CounterInv
<1>13. NetInv'
  BY <1>6 DEF NetInv
<1>14. LostInv'
  <2>1. CASE region \in Masked
    <3>1. (lost > 0 => pending) /\ (lost + Pend) * Period <= 0 + countdown
      <4>1. /\ lost > 0 => pending
            /\ (lost + Pend) * Period <= elapsed + countdown + 0
        BY <1>1, <2>1 DEF LostInv
      <4>2. elapsed + countdown + 0 = 0 + countdown
        BY <1>3, <1>4
      <4> QED
        BY <4>1, <4>2
    <3>2. 0 \in Nat
      OBVIOUS
    <3>3. (lost' > 0 => pending') /\ (lost' + Pend') * Period <= 0 + 1 + countdown'
      BY <1>1, <1>3, <3>1, <3>2, MaskedStep
    <3>4. 0 + 1 + countdown' = elapsed' + countdown' + 0
      BY <1>1, <1>7, Sizes DEF TypeOK
    <3> QED
      BY <1>1, <1>6, <2>1, <3>3, <3>4 DEF LostInv
  <2>2. CASE region \notin Masked
    <3>1. ~primask /\ lost = 0
      BY <2>2, Zenon DEF MaskInv, LostInv
    <3>2. lost' = 0
      BY <1>1, <3>1, UnmaskedCycle
    <3> QED
      BY <1>1, <1>6, <2>2, <3>2 DEF LostInv
  <2> QED
    BY <2>1, <2>2
<1>15. DelayInv'
  <2> SUFFICES ASSUME region \notin Masked
               PROVE  DelayInv'
    BY <1>1, Zenon DEF DelayInv
  <2>1. ~primask
    BY Zenon DEF MaskInv
  <2>2. /\ countdown > 1 => ~pending' /\ countdown' = countdown - 1
        /\ countdown = 1 => pending' /\ countdown' = Period
    BY <1>1, <2>1, UnmaskedCycle
  <2>3. pc' = "HAL_Delay"
    BY <1>2
  <2>4. pending' => countdown' = Period
    BY <1>3, <2>2
  <2>5. elapsed' >= 1 /\ elapsed' + countdown' <= 1 + Period
    <3>1. countdown' \in 1 .. Period
      BY <1>7 DEF TypeOK
    <3>2. \A n \in 1 .. Period : 1 >= 1 /\ 1 + n <= 1 + Period
      BY Sizes
    <3> QED
      BY <1>1, <3>1, <3>2, Zenon
  <2> QED
    BY <2>3, <2>4, <2>5 DEF DelayInv
<1> QED
  BY <1>7, <1>8, <1>9, <1>10, <1>11, <1>12, <1>13, <1>14, <1>15

LEMMA WorkKeeps == ASSUME IInv, Work
                   PROVE  IInv'
<1>1. PICK c \in 1 .. MaxWork :
        /\ Instruction("work", c) /\ work' = c /\ elapsed' = Capped(elapsed + c)
        /\ pc' = "t1" /\ primask' = primask /\ region' = region /\ k' = k
        /\ prim' = prim /\ t0' = t0 /\ net' = net /\ best' = best
        /\ tickstart' = tickstart
  BY DEF Work
<1>2. pc = "work" /\ uwTick' = uwTick /\ Pass(c, pending, lost)
  BY <1>1 DEF Instruction, Runs
<1>3. /\ TypeOK /\ PlaceInv /\ MaskInv /\ BestInv
      /\ ElapsedInv /\ CounterInv /\ NetInv /\ LostInv /\ DelayInv
  BY DEF IInv
<1>4. region \in {"busy", "driver"} /\ region \in Masked /\ elapsed = 1
  BY <1>2, <1>3 DEF PlaceInv, ElapsedInv, Masked
<1>5. /\ c \in Nat /\ 1 \in Nat /\ 1 + c \in Nat /\ 1 + c < CounterSize
      /\ elapsed' = 1 + c /\ c \in 0 .. MaxWork /\ 1 + c \in 0 .. CounterSize
  <2>1. c \in Nat /\ 1 + c \in Nat /\ 1 + c < CounterSize /\ c \in 0 .. MaxWork
    BY Sizes
  <2>2. Capped(1 + c) = 1 + c
    BY <2>1, Sizes DEF Capped
  <2>3. 1 + c \in 0 .. CounterSize /\ 1 \in Nat
    BY <2>1, Sizes
  <2>4. elapsed' = 1 + c
    BY <1>1, <1>4, <2>2, Zenon
  <2> QED
    BY <2>1, <2>3, <2>4
<1>6. /\ pending \in BOOLEAN /\ lost \in 0 .. CounterSize
  BY <1>3 DEF TypeOK
<1>7. TypeOK'
  <2>1. HardwareType'
    BY <1>2, <1>3, <1>5, <1>6, HardwareTyped
  <2>2. ProgramType'
    BY <1>1, <1>2, <1>3, <1>5, TypeParts, Zenon DEF ProgramType
  <2> QED
    BY <2>1, <2>2 DEF TypeOK, HardwareType, ProgramType
<1>8. PlaceInv'
  BY <1>1 DEF PlaceInv
<1>9. MaskInv'
  <2>1. primask /\ prim = FALSE
    BY <1>2, <1>3, <1>4, Zenon DEF MaskInv
  <2> QED
    BY <1>1, <1>4, <2>1, Zenon DEF MaskInv
<1>10. BestInv'
  BY <1>1, <1>2, <1>3, <1>4 DEF BestInv
<1>11. ElapsedInv'
  BY <1>1, <1>4, <1>5 DEF ElapsedInv
<1>12. CounterInv'
  <2>1. CYCCNT = (t0 + 1) % CounterSize /\ CYCCNT' = (CYCCNT + c) % CounterSize
    BY <1>2, <1>3, <1>4 DEF CounterInv, Measuring, Pass
  <2>2. t0 \in 0 .. CounterSize - 1 /\ CounterSize \in Nat \ {0}
    BY <1>3, Sizes DEF TypeOK
  <2>3. CYCCNT' = (t0 + (1 + c)) % CounterSize
    BY <1>5, <2>1, <2>2, CountedOn
  <2> QED
    BY <1>1, <1>5, <2>3, Zenon DEF CounterInv
<1>13. NetInv' /\ DelayInv'
  BY <1>1, <1>4 DEF NetInv, DelayInv
<1>14. LostInv'
  <2>1. (lost > 0 => pending) /\ (lost + Pend) * Period <= 1 + countdown
    <3>1. /\ lost > 0 => pending
          /\ (lost + Pend) * Period <= elapsed + countdown + 0
      BY <1>2, <1>3, <1>4 DEF LostInv
    <3>2. 1 + countdown + 0 = 1 + countdown
      BY <1>3, Sizes DEF TypeOK
    <3> QED
      BY <1>4, <3>1, <3>2
  <2>2. (lost' > 0 => pending') /\ (lost' + Pend') * Period <= 1 + c + countdown'
    BY <1>2, <1>3, <1>5, <2>1, MaskedStep
  <2>3. elapsed' + countdown' + 0 = 1 + c + countdown'
    <3>1. \A n \in 1 .. Period : (1 + c) + n + 0 = 1 + c + n
      BY <1>5, Sizes
    <3>2. countdown' \in 1 .. Period
      BY <1>7 DEF TypeOK
    <3> QED
      BY <1>5, <3>1, <3>2, Zenon
  <2> QED
    BY <1>1, <1>4, <2>2, <2>3 DEF LostInv
<1> QED
  BY <1>7, <1>8, <1>9, <1>10, <1>11, <1>12, <1>13, <1>14 DEF IInv

(***************************************************************************)
(* The two instructions of HAL_Delay.  The time up to the next tick moves  *)
(* on by a period exactly when a tick fires.                               *)
(***************************************************************************)
LEMMA DelayKeeps == ASSUME IInv, HAL_Delay
                    PROVE  IInv'
<1>1. /\ Instruction("HAL_Delay", 1) /\ tickstart' = uwTick
      /\ elapsed' = Capped(elapsed + 1) /\ pc' = "wait" /\ pc = "HAL_Delay"
      /\ primask' = primask /\ region' = region /\ k' = k /\ prim' = prim
      /\ t0' = t0 /\ net' = net /\ work' = work /\ best' = best
  BY DEF HAL_Delay, Instruction, Runs
<1>2. /\ TypeOK /\ PlaceInv /\ MaskInv /\ BestInv
      /\ ElapsedInv /\ CounterInv /\ NetInv /\ LostInv /\ DelayInv
  BY DEF IInv
<1>3. region \notin Masked /\ ~primask
  BY <1>1, <1>2, Zenon DEF PlaceInv, MaskInv
<1>4. /\ uwTick' = uwTick /\ ~pending /\ lost' = lost
      /\ CYCCNT' = (CYCCNT + 1) % CounterSize /\ HardwareType'
      /\ countdown > 1 => ~pending' /\ countdown' = countdown - 1
      /\ countdown = 1 => pending' /\ countdown' = Period
  BY <1>1, <1>2, <1>3, UnmaskedCycle
<1>5. elapsed >= 1 /\ elapsed + countdown <= 1 + Period
  BY <1>1, <1>2, <1>3 DEF DelayInv, Measuring
<1>6. /\ elapsed \in Nat /\ countdown \in 1 .. Period /\ Period \in Nat
      /\ elapsed + 1 \in Nat
  BY <1>2, Sizes DEF TypeOK
<1>7. elapsed + 1 < CounterSize
  <2>1. 2 * Period <= (Delay + 2) * Period
    BY Sizes, Monotone
  <2> QED
    BY <1>5, <1>6, <2>1, Sizes
<1>8. elapsed' = elapsed + 1
  BY <1>1, <1>6, <1>7, CappedFacts, Sizes
<1>9. TypeOK'
  <2>1. elapsed' \in 0 .. CounterSize
    BY <1>6, <1>7, <1>8, Sizes
  <2>2. ProgramType'
    BY <1>1, <1>2, <1>4, <2>1, TypeParts DEF ProgramType
  <2> QED
    BY <1>4, <2>2 DEF TypeOK, HardwareType, ProgramType
<1>10. PlaceInv' /\ BestInv' /\ NetInv'
  BY <1>1, <1>2, <1>3 DEF PlaceInv, BestInv, NetInv, Masked
<1>11. MaskInv'
  BY <1>1, <1>2, <1>3, Zenon DEF MaskInv
<1>12. ElapsedInv'
  BY <1>1, <1>3 DEF ElapsedInv, Masked
<1>13. CounterInv'
  <2>1. CYCCNT = (t0 + elapsed) % CounterSize
    BY <1>1, <1>2 DEF CounterInv, Measuring
  <2>2. t0 \in 0 .. CounterSize - 1 /\ CounterSize \in Nat \ {0} /\ 1 \in Nat
    BY <1>2, Sizes DEF TypeOK
  <2>3. CYCCNT' = (t0 + (elapsed + 1)) % CounterSize
    BY <1>4, <1>6, <1>7, <2>1, <2>2, CountedOn
  <2> QED
    BY <1>1, <1>8, <2>3, Zenon DEF CounterInv
<1>14. LostInv'
  BY <1>1, <1>2, <1>3, <1>4 DEF LostInv
<1>15. DelayInv'
  <2>1. Counted' = 0
    <3>1. \A x \in 0 .. TickSize - 1 : (x - x) % TickSize = 0
      BY Sizes
    <3>2. uwTick \in 0 .. TickSize - 1
      BY <1>2 DEF TypeOK
    <3> QED
      BY <1>1, <1>4, <3>1, <3>2, Zenon DEF Counted
  <2>2. 0 # Delay + 1
    BY Sizes
  <2>3. CASE countdown > 1
    <3>1. Upcoming' = 0
      BY <1>4, <2>1, <2>3 DEF Upcoming, Pend
    <3>2. /\ (elapsed + 1) + (countdown - 1) = elapsed + countdown
          /\ elapsed + 1 >= 1 /\ 0 <= Delay + 1
          /\ (0 + 1) * Period = Period /\ 0 * Period = 0
          /\ 1 + 0 <= elapsed + countdown
      BY <1>5, <1>6, Sizes
    <3>3. elapsed' + countdown' = elapsed + countdown /\ elapsed' >= 1
      BY <1>4, <1>8, <2>3, <3>2
    <3> QED
      BY <1>1, <1>4, <1>5, <2>1, <2>2, <2>3, <3>1, <3>2, <3>3 DEF DelayInv
  <2>4. CASE countdown = 1
    <3>1. Upcoming' = 1
      BY <1>4, <2>1, <2>4 DEF Upcoming, Pend
    <3>2. /\ elapsed + 1 >= 1 /\ 1 <= Delay + 1
          /\ (1 + 1) * Period = 2 * Period /\ 1 * Period = Period
          /\ (elapsed + 1) + Period <= 1 + 2 * Period
          /\ 1 + Period <= (elapsed + 1) + Period
      BY <1>5, <1>6, <2>4, Sizes
    <3>3. elapsed' + countdown' = (elapsed + 1) + Period /\ elapsed' >= 1
      BY <1>4, <1>8, <2>4, <3>2
    <3>4. pending' /\ countdown' = Period
      BY <1>4, <2>4
    <3> QED
      BY <1>1, <2>1, <2>2, <3>1, <3>2, <3>3, <3>4 DEF DelayInv
  <2> QED
    BY <1>6, <2>3, <2>4
<1> QED
  BY <1>9, <1>10, <1>11, <1>12, <1>13, <1>14, <1>15 DEF IInv

LEMMA DelayLoopKeeps == ASSUME IInv, HAL_DelayLoop
                        PROVE  IInv'
<1>1. /\ Instruction("wait", 1) /\ elapsed' = Capped(elapsed + 1) /\ pc = "wait"
      /\ pc' = IF Counted < Delay + 1 THEN "wait" ELSE "t1"
      /\ primask' = primask /\ region' = region /\ k' = k /\ prim' = prim
      /\ t0' = t0 /\ net' = net /\ work' = work /\ best' = best
      /\ tickstart' = tickstart
  BY DEF HAL_DelayLoop, Instruction, Runs, Counted, wait
<1>2. /\ TypeOK /\ PlaceInv /\ MaskInv /\ BestInv
      /\ ElapsedInv /\ CounterInv /\ NetInv /\ LostInv /\ DelayInv
  BY DEF IInv
<1>3. region \notin Masked /\ ~primask
  BY <1>1, <1>2, Zenon DEF PlaceInv, MaskInv
<1>4. /\ uwTick' = uwTick /\ ~pending /\ lost' = lost
      /\ CYCCNT' = (CYCCNT + 1) % CounterSize /\ HardwareType'
      /\ countdown > 1 => ~pending' /\ countdown' = countdown - 1
      /\ countdown = 1 => pending' /\ countdown' = Period
  BY <1>1, <1>2, <1>3, UnmaskedCycle
<1>5. /\ elapsed >= 1 /\ Upcoming <= Delay + 1
      /\ elapsed + countdown <= 1 + (Upcoming + 1) * Period
      /\ 1 + Upcoming * Period <= elapsed + countdown
      /\ Counted = Delay + 1 => countdown = Period - HandlerCost
  BY <1>1, <1>2, <1>3 DEF DelayInv, Measuring
<1>6. /\ elapsed \in Nat /\ countdown \in 1 .. Period /\ Period \in Nat
      /\ elapsed + 1 \in Nat /\ Counted \in Nat /\ Upcoming \in Nat
  BY <1>2, UpcomingType, Sizes DEF TypeOK
<1>7. Counted' = Counted /\ Upcoming = Counted
  <2>1. Counted + 0 = Counted
    BY <1>6
  <2> QED
    BY <1>1, <1>4, <2>1 DEF Counted, Upcoming, Pend
(* The tick HAL_Delay waits for has been counted, and its handler is over: *)
(* the next one is at least two cycles ahead.                              *)
<1>8. countdown = 1 => Counted < Delay + 1
  BY <1>5, <1>6, <1>7, Sizes
<1>9. /\ countdown > 1 => Upcoming' = Upcoming
      /\ countdown = 1 => Upcoming' = Upcoming + 1
  BY <1>4, <1>6, <1>7 DEF Upcoming, Pend
<1>10. Upcoming' \in 0 .. Delay + 1
  BY <1>5, <1>6, <1>7, <1>8, <1>9, Sizes
<1>11. /\ (elapsed + 1) + countdown' <= 1 + (Upcoming' + 1) * Period
       /\ 1 + Upcoming' * Period <= (elapsed + 1) + countdown'
  <2>1. CASE countdown > 1
    <3>1. (elapsed + 1) + countdown' = elapsed + countdown
      BY <1>4, <1>6, <2>1
    <3> QED
      BY <1>5, <1>9, <2>1, <3>1
  <2>2. CASE countdown = 1
    <3> DEFINE U == Upcoming
               UP == U * Period
    <3>1. /\ (U + 1) * Period = UP + Period
          /\ ((U + 1) + 1) * Period = UP + Period + Period /\ UP \in Int
      BY <1>6
    <3>2. elapsed + 1 <= 1 + (UP + Period) /\ 1 + UP <= elapsed + 1
      BY <1>5, <2>2, <3>1
    <3> HIDE DEF UP
    <3>3. /\ (elapsed + 1) + Period <= 1 + (UP + Period + Period)
          /\ 1 + (UP + Period) <= (elapsed + 1) + Period
      BY <1>6, <3>1, <3>2
    <3>4. Upcoming' = U + 1 /\ countdown' = Period
      BY <1>4, <1>9, <2>2
    <3> QED
      BY <3>1, <3>3, <3>4
  <2> QED
    BY <1>6, <2>1, <2>2
<1>12. elapsed + 1 < CounterSize
  <2>1. countdown' \in Nat \ {0}
    BY <1>4, Sizes DEF HardwareType
  <2> QED
    BY <1>6, <1>10, <1>11, <2>1, Room
<1>13. elapsed' = elapsed + 1
  BY <1>1, <1>6, <1>12, CappedFacts, Sizes
<1>14. TypeOK'
  <2>1. elapsed' \in 0 .. CounterSize
    BY <1>6, <1>12, <1>13, Sizes
  <2>2. ProgramType'
    BY <1>1, <1>2, <1>4, <2>1, TypeParts DEF ProgramType
  <2> QED
    BY <1>4, <2>2 DEF TypeOK, HardwareType, ProgramType
<1>15. PlaceInv' /\ BestInv' /\ NetInv'
  BY <1>1, <1>2, <1>3 DEF PlaceInv, BestInv, NetInv, Masked
<1>16. MaskInv'
  BY <1>1, <1>2, <1>3, Zenon DEF MaskInv
<1>17. ElapsedInv'
  BY <1>1, <1>3 DEF ElapsedInv, Masked
<1>18. CounterInv'
  <2>1. CYCCNT = (t0 + elapsed) % CounterSize
    BY <1>1, <1>2 DEF CounterInv, Measuring
  <2>2. t0 \in 0 .. CounterSize - 1 /\ CounterSize \in Nat \ {0} /\ 1 \in Nat
    BY <1>2, Sizes DEF TypeOK
  <2>3. CYCCNT' = (t0 + (elapsed + 1)) % CounterSize
    BY <1>4, <1>6, <1>12, <2>1, <2>2, CountedOn
  <2> QED
    BY <1>1, <1>13, <2>3, Zenon DEF CounterInv
<1>19. LostInv'
  BY <1>1, <1>2, <1>3, <1>4 DEF LostInv
<1>20. DelayInv'
  <2>1. elapsed' >= 1 /\ (pending' => countdown' = Period)
    BY <1>4, <1>5, <1>6, <1>13
  <2>2. pc' = "wait" => Counted' # Delay + 1
    BY <1>1, <1>6, <1>7, Sizes
  <2>3. pc' = "t1" => /\ Counted' = Delay + 1
                      /\ countdown' = Period - HandlerCost - 1
    <3> SUFFICES ASSUME pc' = "t1"
                 PROVE  /\ Counted = Delay + 1
                        /\ countdown' = Period - HandlerCost - 1
      BY <1>7
    <3>1. Counted = Delay + 1
      BY <1>1, <1>5, <1>6, <1>7, Sizes
    <3>2. countdown = Period - HandlerCost /\ countdown > 1
      BY <1>5, <3>1, Sizes
    <3>3. countdown' = countdown - 1
      BY <1>4, <3>2
    <3> QED
      BY <3>1, <3>2, <3>3
  <2>4. pc' \in {"wait", "t1"}
    BY <1>1
  <2>5. Upcoming' <= Delay + 1
    BY <1>10, Sizes
  <2>6. /\ elapsed' + countdown' <= 1 + (Upcoming' + 1) * Period
        /\ 1 + Upcoming' * Period <= elapsed' + countdown'
    BY <1>11, <1>13
  <2> QED
    BY <2>1, <2>2, <2>3, <2>4, <2>5, <2>6 DEF DelayInv
<1> QED
  BY <1>14, <1>15, <1>16, <1>17, <1>18, <1>19, <1>20 DEF IInv

(***************************************************************************)
(* Reading t1.  The difference of the readings is the time that went by:   *)
(* it is shorter than the counter's range in every region.                 *)
(***************************************************************************)
LEMMA ReadT1Keeps == ASSUME IInv, ReadT1
                     PROVE  IInv'
<1> DEFINE d == Difference(CYCCNT, t0)
<1>1. /\ Instruction("t1", 1) /\ pc = "t1"
      /\ uwTick' = uwTick /\ Pass(1, pending, lost)
      /\ net' = IF region # "busy" THEN d ELSE IF d > best THEN d - best ELSE 0
      /\ best' = IF region = "overhead" /\ d < best THEN d ELSE best
      /\ pc' = IF region \in Masked THEN "cyc_unlock" ELSE "done"
      /\ primask' = primask /\ region' = region /\ k' = k /\ prim' = prim
      /\ t0' = t0 /\ elapsed' = elapsed /\ work' = work
      /\ tickstart' = tickstart
  BY DEF ReadT1, Instruction, Runs
<1> HIDE DEF d
<1>2. /\ TypeOK /\ PlaceInv /\ MaskInv /\ BestInv
      /\ ElapsedInv /\ CounterInv /\ NetInv /\ LostInv /\ DelayInv
  BY DEF IInv
<1>3. /\ pending \in BOOLEAN /\ lost \in 0 .. CounterSize /\ 1 \in Nat
      /\ countdown \in 1 .. Period /\ Period \in Nat
      /\ elapsed \in Nat /\ work \in 0 .. MaxWork /\ work \in Nat
      /\ t0 \in 0 .. CounterSize - 1 /\ CounterSize \in Nat \ {0}
  BY <1>2, Sizes DEF TypeOK
<1>4. region \in Masked =>
        /\ elapsed = 1 + work /\ (region = "overhead" => elapsed = 1)
  <2>1. region = "overhead" => work = 0
    BY <1>2 DEF ElapsedInv
  <2>2. region \in Masked => elapsed = 1 + work
    BY <1>1, <1>2 DEF ElapsedInv
  <2>3. 1 + 0 = 1
    OBVIOUS
  <2> QED
    BY <2>1, <2>2, <2>3, Zenon DEF Masked
<1>5. region \notin Masked =>
        /\ elapsed >= Delay * Period
        /\ elapsed <= (Delay + 1) * Period + HandlerCost + 2
        /\ elapsed < CounterSize
  <2> SUFFICES ASSUME region \notin Masked
               PROVE  /\ elapsed >= Delay * Period
                      /\ elapsed <= (Delay + 1) * Period + HandlerCost + 2
                      /\ elapsed < CounterSize
    OBVIOUS
  <2>1. /\ Upcoming <= Delay + 1 /\ Counted = Delay + 1
        /\ countdown = Period - HandlerCost - 1
        /\ elapsed + countdown <= 1 + (Upcoming + 1) * Period
        /\ 1 + Upcoming * Period <= elapsed + countdown
    BY <1>1, <1>2 DEF DelayInv
  <2>2. Upcoming = Delay + 1
    BY <2>1, Sizes DEF Upcoming, Pend
  <2> DEFINE DP == Delay * Period
  <2>3. /\ (Delay + 1) * Period = DP + Period /\ DP \in Int
        /\ ((Delay + 1) + 1) * Period = DP + Period + Period
        /\ (Delay + 2) * Period = DP + Period + Period
    BY Sizes
  <2> HIDE DEF DP
  <2>4. /\ elapsed + (Period - HandlerCost - 1) <= 1 + (DP + Period + Period)
        /\ 1 + (DP + Period) <= elapsed + (Period - HandlerCost - 1)
    BY <2>1, <2>2, <2>3
  <2>5. /\ elapsed <= DP + Period + HandlerCost + 2 /\ DP <= elapsed
        /\ elapsed < CounterSize
    BY <1>3, <2>3, <2>4, Sizes
  <2>6. DP = Delay * Period
    BY DEF DP
  <2> QED
    BY <2>3, <2>5, <2>6
<1>6. elapsed \in 0 .. CounterSize - 1
  <2>1. region \in Masked => elapsed < CounterSize
    BY <1>3, <1>4, Sizes
  <2> QED
    BY <1>3, <1>5, <2>1, Sizes
<1>7. d = elapsed
  <2>1. CYCCNT = (t0 + elapsed) % CounterSize
    BY <1>1, <1>2 DEF CounterInv, Measuring
  <2> QED
    BY <1>3, <1>6, <2>1, Differences DEF d, Difference
<1>8. best' = 1
  <2>1. region # "overhead" => best = 1
    BY <1>2 DEF BestInv
  <2>2. region = "overhead" => elapsed = 1 /\ best \in {1, CounterSize - 1}
    BY <1>2, <1>4 DEF BestInv, Masked
  <2>3. region = "overhead" /\ best = CounterSize - 1 => elapsed < best
    BY <2>2, Sizes
  <2>4. region # "overhead" => best' = 1
    BY <1>1, <2>1, Zenon
  <2>5. region = "overhead" => best' = 1
    BY <1>1, <1>7, <2>2, <2>3, Zenon
  <2> QED
    BY <2>4, <2>5
<1>9. net' = IF region = "busy" THEN work ELSE elapsed
  <2>1. region = "busy" => best = 1 /\ elapsed = 1 + work
    BY <1>2, <1>4 DEF BestInv, Masked
  <2>2. \A w \in Nat : (IF 1 + w > 1 THEN (1 + w) - 1 ELSE 0) = w
    OBVIOUS
  <2>3. region = "busy" => (IF d > best THEN d - best ELSE 0) = work
    BY <1>3, <1>7, <2>1, <2>2
  <2> QED
    BY <1>1, <1>7, <2>3, Zenon
<1>10. TypeOK'
  <2>1. HardwareType'
    BY <1>1, <1>2, <1>3, HardwareTyped
  <2>2. net' \in 0 .. CounterSize - 1 /\ best' \in 0 .. CounterSize - 1
    BY <1>3, <1>6, <1>8, <1>9, Sizes
  <2>3. pc' \in {"cyc_unlock", "done"}
    BY <1>1
  <2>4. ProgramType'
    BY <1>1, <1>2, <2>2, <2>3, TypeParts DEF ProgramType
  <2> QED
    BY <2>1, <2>4 DEF TypeOK, HardwareType, ProgramType
<1>11. PlaceInv'
  BY <1>1, <1>2 DEF PlaceInv
<1>12. MaskInv'
  <2>1. primask <=> region \in Masked
    BY <1>1, <1>2, Zenon DEF MaskInv
  <2>2. pc' \in {"t0", "work", "t1", "cyc_unlock"} <=> region \in Masked
    BY <1>1
  <2> QED
    BY <1>1, <1>2, <2>1, <2>2, Zenon DEF MaskInv
<1>13. BestInv'
  BY <1>1, <1>8 DEF BestInv
<1>14. ElapsedInv'
  BY <1>1, <1>2 DEF ElapsedInv
<1>15. CounterInv' /\ NetInv'
  BY <1>1, <1>9 DEF CounterInv, NetInv, Measuring
<1>16. LostInv'
  <2>1. CASE region \in Masked
    <3>1. (lost > 0 => pending) /\ (lost + Pend) * Period <= elapsed + countdown
      <4>1. /\ lost > 0 => pending
            /\ (lost + Pend) * Period <= elapsed + countdown + 0
        BY <1>1, <1>2, <2>1 DEF LostInv
      <4>2. elapsed + countdown + 0 = elapsed + countdown
        BY <1>3
      <4> QED
        BY <4>1, <4>2
    <3>2. (lost' > 0 => pending')
          /\ (lost' + Pend') * Period <= elapsed + 1 + countdown'
      BY <1>1, <1>2, <1>3, <3>1, MaskedStep
    <3>3. elapsed' + countdown' + 1 = elapsed + 1 + countdown'
      <4>1. \A m \in Nat, n \in 1 .. Period : m + n + 1 = m + 1 + n
        BY <1>3
      <4>2. countdown' \in 1 .. Period
        BY <1>10 DEF TypeOK
      <4> QED
        BY <1>1, <1>3, <4>1, <4>2, Zenon
    <3>4. pc' = "cyc_unlock"
      BY <1>1, <2>1
    <3> QED
      BY <1>1, <2>1, <3>2, <3>3, <3>4 DEF LostInv
  <2>2. CASE region \notin Masked
    <3>1. ~primask /\ lost = 0
      BY <1>2, <2>2, Zenon DEF MaskInv, LostInv
    <3>2. lost' = 0
      BY <1>1, <1>2, <3>1, UnmaskedCycle
    <3>3. 0 * Period <= elapsed + 2
      BY <1>3
    <3> QED
      BY <1>1, <2>2, <3>2, <3>3 DEF LostInv
  <2> QED
    BY <2>1, <2>2
<1>17. DelayInv'
  BY <1>1, <1>5 DEF DelayInv, Measuring
<1> QED
  BY <1>10, <1>11, <1>12, <1>13, <1>14, <1>15, <1>16, <1>17 DEF IInv

LEMMA CycUnlockKeeps == ASSUME IInv, cyc_unlock
                        PROVE  IInv'
<1>1. /\ pc = "cyc_unlock" /\ uwTick' = uwTick /\ Pass(1, pending, lost)
      /\ primask' = prim /\ pc' = "done" /\ region' = region /\ k' = k
      /\ prim' = prim /\ t0' = t0 /\ net' = net /\ elapsed' = elapsed
      /\ work' = work /\ best' = best /\ tickstart' = tickstart
  BY DEF cyc_unlock, Instruction, Runs, measured
<1>2. /\ TypeOK /\ PlaceInv /\ MaskInv /\ BestInv
      /\ ElapsedInv /\ CounterInv /\ NetInv /\ LostInv /\ DelayInv
  BY DEF IInv
<1>3. /\ pending \in BOOLEAN /\ lost \in 0 .. CounterSize /\ 1 \in Nat
      /\ countdown \in 1 .. Period /\ Period \in Nat
      /\ elapsed \in Nat /\ elapsed + 1 \in Nat
  BY <1>2, Sizes DEF TypeOK
<1>4. region \in Masked
  BY <1>1, <1>2 DEF PlaceInv
<1>5. HardwareType'
  BY <1>1, <1>2, <1>3, HardwareTyped
<1>6. TypeOK'
  <2>1. ProgramType'
    BY <1>1, <1>2, TypeParts DEF ProgramType
  <2> QED
    BY <1>5, <2>1 DEF TypeOK, HardwareType, ProgramType
<1>7. PlaceInv' /\ BestInv' /\ DelayInv'
  BY <1>1, <1>2, <1>4 DEF PlaceInv, BestInv, DelayInv
<1>8. MaskInv'
  BY <1>1, <1>2, Zenon DEF MaskInv
<1>9. ElapsedInv' /\ CounterInv' /\ NetInv'
  BY <1>1, <1>2, <1>4 DEF ElapsedInv, CounterInv, NetInv, Measuring
<1>10. LostInv'
  <2>1. (lost > 0 => pending)
        /\ (lost + Pend) * Period <= (elapsed + 1) + countdown
    <3>1. /\ lost > 0 => pending
          /\ (lost + Pend) * Period <= elapsed + countdown + 1
      BY <1>1, <1>2, <1>4 DEF LostInv
    <3>2. elapsed + countdown + 1 = (elapsed + 1) + countdown
      BY <1>3
    <3> QED
      BY <3>1, <3>2
  <2>2. (lost' > 0 => pending')
        /\ (lost' + Pend') * Period <= (elapsed + 1) + 1 + countdown'
    BY <1>1, <1>2, <1>3, <2>1, MaskedStep
  <2>3. \A l, e \in Nat, c \in 1 .. Period :
          (l + 1) * Period <= (e + 1) + 1 + c => l * Period <= e + 2
    <3>1. \A l \in Nat : (l + 1) * Period = l * Period + Period
                         /\ l * Period \in Nat
      BY <1>3
    <3> QED
      BY <1>3, <3>1
  <2>4. lost' \in Nat /\ countdown' \in 1 .. Period
    BY <1>5, Sizes DEF HardwareType
  <2>5. lost' * Period <= elapsed + 2
    <3>1. CASE lost' = 0
      <4>1. 0 * Period <= elapsed + 2
        BY <1>3
      <4> QED
        BY <3>1, <4>1
    <3>2. CASE lost' > 0
      <4>1. Pend' = 1
        BY <2>2, <3>2 DEF Pend
      <4> QED
        BY <1>3, <2>2, <2>3, <2>4, <4>1
    <3> QED
      BY <2>4, <3>1, <3>2
  <2> QED
    BY <1>1, <1>4, <2>5 DEF LostInv
<1> QED
  BY <1>6, <1>7, <1>8, <1>9, <1>10 DEF IInv

(***************************************************************************)
(* Between two regions interrupts are not masked, so no tick is pending    *)
(* when the program goes on, and none is lost.                             *)
(***************************************************************************)
LEMMA FollowingFacts ==
  \A r \in Regions : /\ Following(r) \in Regions
                     /\ Following(r) = "overhead" => r = "pause"
BY DEF Following, Regions

LEMMA ContinueKeeps == ASSUME IInv, Continue
                       PROVE  IInv'
<1>1. PICK c \in 1 .. Period :
        /\ Runs("done") /\ Pass(c, pending, 0)
        /\ IF region = "overhead" /\ k + 1 < Repeats
           THEN k' = k + 1 /\ region' = region
           ELSE k' = 0 /\ region' = Following(region)
        /\ pc' = Start(region')
        /\ best' = IF region' = "overhead" /\ k' = 0 THEN CounterSize - 1 ELSE best
        /\ prim' = FALSE /\ t0' = 0 /\ net' = 0 /\ tickstart' = 0
        /\ elapsed' = 0 /\ work' = 0 /\ primask' = primask
  BY DEF Continue
<1>2. /\ TypeOK /\ PlaceInv /\ MaskInv /\ BestInv
      /\ ElapsedInv /\ CounterInv /\ NetInv /\ LostInv /\ DelayInv
  BY DEF IInv
<1>3. pc = "done" /\ uwTick' = uwTick /\ ~(pending /\ ~primask)
  BY <1>1 DEF Runs
<1>4. primask = FALSE /\ pending = FALSE
  BY <1>2, <1>3, Zenon DEF MaskInv, TypeOK
<1>5. /\ c \in Nat /\ 0 \in 0 .. CounterSize /\ 0 \in 0 .. CounterSize - 1
      /\ 0 \in 0 .. TickSize - 1 /\ 0 \in 0 .. MaxWork /\ 0 \in 0 .. Repeats - 1
      /\ CounterSize - 1 \in 0 .. CounterSize - 1 /\ FALSE \in BOOLEAN
  BY Sizes
<1>6. Pass(c, FALSE, 0)
  BY <1>1, <1>4
<1>7. HardwareType' /\ lost' = 0
  BY <1>2, <1>5, <1>6, HardwareTyped, ShortPass
<1>8. k' \in 0 .. Repeats - 1 /\ region' \in Regions
  <2>1. CASE region = "overhead" /\ k + 1 < Repeats
    <3>1. k + 1 \in 0 .. Repeats - 1
      BY <1>2, <2>1, Sizes DEF TypeOK
    <3> QED
      BY <1>1, <1>2, <2>1, <3>1 DEF TypeOK
  <2>2. CASE ~(region = "overhead" /\ k + 1 < Repeats)
    BY <1>1, <1>2, <1>5, <2>2, FollowingFacts DEF TypeOK
  <2> QED
    BY <2>1, <2>2
<1>9. /\ pc' \in {"cyc_lock", "t0"}
      /\ pc' = "cyc_lock" <=> region' \in Masked
  BY <1>1 DEF Start
<1>10. best' = IF region' = "overhead" /\ k' = 0 THEN CounterSize - 1 ELSE 1
  BY <1>1, <1>2, <1>3 DEF BestInv
<1>11. TypeOK'
  <2>1. best' \in 0 .. CounterSize - 1
    BY <1>5, <1>10, Sizes
  <2>2. pc' \in {"cyc_lock", "t0", "work", "HAL_Delay", "wait", "t1",
                 "cyc_unlock", "done"}
    BY <1>9
  <2>3. primask' \in BOOLEAN /\ prim' \in BOOLEAN
    BY <1>1, <1>4, Zenon
  <2>4. uwTick' \in 0 .. TickSize - 1
    BY <1>2, <1>3 DEF TypeOK
  <2>5. ProgramType'
    BY <1>1, <1>5, <1>8, <2>1, <2>2, <2>3, <2>4, Zenon DEF ProgramType
  <2> QED
    BY <1>7, <2>5 DEF TypeOK, HardwareType, ProgramType
<1>12. PlaceInv'
  BY <1>9 DEF PlaceInv
<1>13. MaskInv'
  <2>1. ~(region' \in Masked /\ pc' \in {"t0", "work", "t1", "cyc_unlock"})
    BY <1>9
  <2> QED
    BY <1>1, <1>4, <2>1, Zenon DEF MaskInv
<1>14. BestInv'
  BY <1>9, <1>10 DEF BestInv
<1>15. ElapsedInv'
  BY <1>1, <1>9 DEF ElapsedInv
<1>16. CounterInv' /\ NetInv' /\ DelayInv'
  BY <1>9 DEF CounterInv, NetInv, DelayInv, Measuring
<1>17. LostInv'
  BY <1>7, <1>9 DEF LostInv
<1> QED
  BY <1>11, <1>12, <1>13, <1>14, <1>15, <1>16, <1>17 DEF IInv

-----------------------------------------------------------------------------
LEMMA StutterKeeps == ASSUME IInv, UNCHANGED vars
                      PROVE  IInv'
<1>1. /\ CYCCNT' = CYCCNT /\ countdown' = countdown /\ pending' = pending
      /\ primask' = primask /\ uwTick' = uwTick /\ pc' = pc /\ region' = region
      /\ k' = k /\ prim' = prim /\ t0' = t0 /\ net' = net /\ elapsed' = elapsed
      /\ work' = work /\ best' = best /\ tickstart' = tickstart /\ lost' = lost
  BY DEF vars, hardware, measured
<1>2. Pend' = Pend /\ (Measuring <=> Measuring')
  BY <1>1, Zenon DEF Pend, Measuring
<1>3. Counted' = Counted /\ Upcoming' = Upcoming
  BY <1>1, <1>2, Zenon DEF Counted, Upcoming
<1>4. TypeOK' /\ PlaceInv' /\ MaskInv' /\ BestInv'
  BY <1>1, Zenon DEF IInv, TypeOK, PlaceInv, MaskInv, BestInv
<1>5. ElapsedInv' /\ CounterInv' /\ NetInv'
  BY <1>1, <1>2, Zenon DEF IInv, ElapsedInv, CounterInv, NetInv
<1>6. LostInv'
  BY <1>1, <1>2, Zenon DEF IInv, LostInv
<1>7. DelayInv'
  BY <1>1, <1>2, <1>3, Zenon DEF IInv, DelayInv
<1> QED
  BY <1>4, <1>5, <1>6, <1>7 DEF IInv

LEMMA NextInv == IInv /\ [Next]_vars => IInv'
BY HandlerKeeps, CycLockKeeps, ReadT0Keeps, WorkKeeps, DelayKeeps,
   DelayLoopKeeps, ReadT1Keeps, CycUnlockKeeps, ContinueKeeps, StutterKeeps, Zenon
   DEF Next, Program

LEMMA Invariant == Spec => []IInv
BY InitInv, NextInv, PTL DEF Spec

(***************************************************************************)
(* Every counter and every local stays in its range, for any sizes.        *)
(***************************************************************************)
THEOREM TypeCorrect == Spec => []TypeOK
<1>1. IInv => TypeOK
  BY DEF IInv
<1> QED
  BY <1>1, Invariant, PTL

(***************************************************************************)
(* cyc_read, time_busy and the drivers' regions: what is printed is the    *)
(* time that went by, or the time of the measured code alone, wherever     *)
(* CYCCNT wraps and whatever SysTick does meanwhile.                       *)
(***************************************************************************)
THEOREM MeasuredIsExact == Spec => []Exact
<1>1. IInv => Exact
  <2> SUFFICES ASSUME IInv, pc = "done"
               PROVE  /\ region \in {"clock", "driver", "pause"} => net = elapsed
                      /\ region = "busy" => net = work
                      /\ region = "driver" => net = work + best
    BY DEF Exact
  <2>1. net = IF region = "busy" THEN work ELSE elapsed
    BY DEF IInv, NetInv
  <2>2. region = "driver" => elapsed = 1 + work /\ best = 1
    BY DEF IInv, ElapsedInv, BestInv, Masked
  <2>3. work \in Nat
    BY Sizes DEF IInv, TypeOK
  <2> QED
    BY <2>1, <2>2, <2>3
<1> QED
  BY <1>1, Invariant, PTL

(***************************************************************************)
(* HAL_Delay waits for all of its ticks and for at most one more period,   *)
(* a handler and its own loop, wherever uwTick wraps while it waits.       *)
(***************************************************************************)
THEOREM DelaysAreBounded == Spec => []DelayBounds
<1>1. IInv => DelayBounds
  BY DEF IInv, DelayInv, DelayBounds, LoopCost, Masked
<1> QED
  BY <1>1, Invariant, PTL

(***************************************************************************)
(* uwTick loses a tick only while interrupts are masked, and no more time  *)
(* than the masked region took.                                            *)
(***************************************************************************)
THEOREM TicksAreKept == Spec => []TicksKept
<1>1. IInv => TicksKept
  BY DEF IInv, LostInv, TicksKept, LockCost
<1> QED
  BY <1>1, Invariant, PTL

=============================================================================

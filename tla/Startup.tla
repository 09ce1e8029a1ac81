------------------------------- MODULE Startup -------------------------------
(***************************************************************************)
(* From reset to app_main: HAL_Init, SystemClock_Config with the HAL's     *)
(* waits for the oscillator, the PLL and the switch, each limited by ticks *)
(* of a SysTick that itself runs on the clock being configured, and the    *)
(* USART whose divider is computed from that clock.  The hardware answers  *)
(* at any time or never; main goes to Error_Handler when a wait gives up.  *)
(*                                                                         *)
(* Frequencies are in MHz.  Time passes in thirds of a millisecond, during *)
(* which a clock of f MHz makes f/8 units of SysTick.                      *)
(***************************************************************************)
EXTENDS Integers

CONSTANTS
  HSE_TIMEOUT_VALUE, PLL_TIMEOUT_VALUE, CLOCKSWITCH_TIMEOUT_VALUE,  \* ms
  W              \* the width of uwTick, in bits

HSI_VALUE == 16
HSE_VALUE == 8
MS == 3          \* a millisecond, in units of time

(* SystemClock_Config: PLLM, PLLN, PLLP and the APB1 divider.              *)
PLLM == 4
PLLN == 72
PLLP == 6
APB1CLKDivider == 2

(* The waits, in order: for the flag that says a step has taken effect.    *)
Waits == {"HSE", "PLL off", "PLL", "switch"}

Limit == [w \in Waits |-> CASE w = "HSE"    -> HSE_TIMEOUT_VALUE
                            [] w = "switch" -> CLOCKSWITCH_TIMEOUT_VALUE
                            [] OTHER        -> PLL_TIMEOUT_VALUE]

LongestWait == MS * (HSE_TIMEOUT_VALUE + PLL_TIMEOUT_VALUE + CLOCKSWITCH_TIMEOUT_VALUE)

StartupAssumption ==
  /\ \A w \in Waits : Limit[w] \in Nat \ {0}
  /\ W \in Nat /\ \A w \in Waits : Limit[w] + 1 < 2 ^ W

VARIABLES
  pc,
  read,              \* a wait has read its flag, and reads the clock next
  tickstart,
  SystemCoreClock,   \* what the software takes the HCLK for
  HSEON, HSERDY, PLLON, PLLRDY, SW, SWS,   \* RCC
  PPRE1,             \* RCC: the divider of PCLK1
  LOAD, VAL,         \* SysTick: period (0: it does not run) and what is left
  uwTick,
  BRR,               \* USART2: the divider of the baud rate, 0 after reset
  polled,            \* the processor has looked since time last passed
  waited,            \* ghost: the time since the wait began
  answered,          \* ghost: the time after which the flag came, or -1
  gaveUp             \* ghost: the wait that was given up, or "none"

rcc == <<HSEON, HSERDY, PLLON, PLLRDY, SW, SWS, PPRE1>>
systick == <<LOAD, VAL, uwTick>>
ghosts == <<polled, waited, answered>>
vars == <<pc, read, tickstart, SystemCoreClock, rcc, systick, BRR, ghosts, gaveUp>>

Never == 0 - 1

Init ==
  /\ pc = "HAL_Init" /\ read = FALSE /\ tickstart = 0
  /\ SystemCoreClock = HSI_VALUE
  /\ HSEON = FALSE /\ HSERDY = FALSE /\ PLLON = FALSE /\ PLLRDY = FALSE
  /\ SW = "HSI" /\ SWS = "HSI" /\ PPRE1 = 1
  /\ LOAD = 0 /\ VAL = 0 /\ uwTick = 0 /\ BRR = 0
  /\ polled = TRUE /\ waited = 0 /\ answered = Never /\ gaveUp = "none"

(* HAL_RCC_GetSysClockFreq, and what the clock really is.                  *)
HAL_RCC_GetSysClockFreq ==
  IF SWS = "PLL" THEN ((HSE_VALUE * PLLN) \div PLLM) \div PLLP ELSE HSI_VALUE

HCLK == HAL_RCC_GetSysClockFreq

HAL_RCC_GetPCLK1Freq == SystemCoreClock \div PPRE1

(* HAL_InitTick for a core clock: one tick per millisecond.                *)
HAL_InitTick(clock) == LOAD' = MS * (clock \div 8) /\ VAL' = MS * (clock \div 8)

(* A wait begins: what is asked for is to happen, the tick is noted.       *)
Begin(w) ==
  /\ pc' = w /\ read' = FALSE /\ tickstart' = uwTick
  /\ polled' = TRUE /\ waited' = 0 /\ answered' = Never /\ UNCHANGED gaveUp

GoOn(to) == pc' = to /\ UNCHANGED <<read, tickstart, ghosts, gaveUp>>

-----------------------------------------------------------------------------
(* Faulty variant: the tick is left to start with the clocks.              *)
InitWithoutTick ==
  /\ pc = "HAL_Init" /\ GoOn("HSE on")
  /\ UNCHANGED <<SystemCoreClock, rcc, systick, BRR>>

InitHAL ==
  /\ pc = "HAL_Init" /\ GoOn("HSE on")
  /\ HAL_InitTick(SystemCoreClock)
  /\ UNCHANGED <<SystemCoreClock, rcc, uwTick, BRR>>

HSEOn ==
  /\ pc = "HSE on"
  /\ HSEON' = TRUE /\ Begin("HSE")
  /\ UNCHANGED <<SystemCoreClock, HSERDY, PLLON, PLLRDY, SW, SWS, PPRE1, systick, BRR>>

PLLOff ==
  /\ pc = "PLL disable"
  /\ PLLON' = FALSE /\ Begin("PLL off")
  /\ UNCHANGED <<SystemCoreClock, HSEON, HSERDY, PLLRDY, SW, SWS, PPRE1, systick, BRR>>

PLLOn ==
  /\ pc = "PLL enable"
  /\ PLLON' = TRUE /\ Begin("PLL")
  /\ UNCHANGED <<SystemCoreClock, HSEON, HSERDY, PLLRDY, SW, SWS, PPRE1, systick, BRR>>

(* HAL_RCC_ClockConfig: the slowest APB clock while the source changes.    *)
ClockConfig ==
  /\ pc = "HAL_RCC_ClockConfig"
  /\ PPRE1' = 16
  /\ IF PLLRDY THEN SW' = "PLL" /\ Begin("switch")
               ELSE SW' = SW /\ GoOn("Error_Handler")
  /\ UNCHANGED <<SystemCoreClock, HSEON, HSERDY, PLLON, PLLRDY, SWS, systick, BRR>>

(* Faulty variant: the tick keeps the period of the clock before.          *)
ClockConfigEndsNoTick ==
  /\ pc = "prescalers"
  /\ PPRE1' = APB1CLKDivider
  /\ SystemCoreClock' = HAL_RCC_GetSysClockFreq
  /\ GoOn("UART")
  /\ UNCHANGED <<HSEON, HSERDY, PLLON, PLLRDY, SW, SWS, systick, BRR>>

ClockConfigEnds ==
  /\ pc = "prescalers"
  /\ PPRE1' = APB1CLKDivider
  /\ SystemCoreClock' = HAL_RCC_GetSysClockFreq
  /\ HAL_InitTick(HAL_RCC_GetSysClockFreq)
  /\ GoOn("UART")
  /\ UNCHANGED <<HSEON, HSERDY, PLLON, PLLRDY, SW, SWS, uwTick, BRR>>

(* UART_BRR_SAMPLING16(pclk, 115200), with pclk in MHz.                    *)
BaudRate == 115200

UART_BRR_SAMPLING16(pclk) ==
  LET div  == (pclk * 1000000 * 25) \div (4 * BaudRate)
      mant == div \div 100
      fraq == ((div - mant * 100) * 16 + 50) \div 100
  IN  mant * 16 + fraq

MX_USART2_UART_Init ==
  /\ pc = "UART" /\ GoOn("app_main")
  /\ BRR' = UART_BRR_SAMPLING16(HAL_RCC_GetPCLK1Freq)
  /\ UNCHANGED <<SystemCoreClock, rcc, systick>>

-----------------------------------------------------------------------------
(* A wait: while the flag is not as it should be, look whether more ticks  *)
(* than the limit have gone by.  The flag and the clock are read one after *)
(* the other.                                                              *)
Ready(w) == CASE w = "HSE"     -> HSERDY
              [] w = "PLL off" -> ~PLLRDY
              [] w = "PLL"     -> PLLRDY
              [] w = "switch"  -> SWS = SW

Then(w) == CASE w = "HSE"     -> "PLL disable"
             [] w = "PLL off" -> "PLL enable"
             [] w = "PLL"     -> "HAL_RCC_ClockConfig"
             [] w = "switch"  -> "prescalers"

Elapsed == (uwTick - tickstart) % 2 ^ W

ReadFlag ==
  /\ pc \in Waits /\ ~read
  /\ IF Ready(pc) THEN pc' = Then(pc) /\ read' = read
                  ELSE pc' = pc /\ read' = TRUE
  /\ UNCHANGED <<tickstart, SystemCoreClock, rcc, systick, BRR, ghosts, gaveUp>>

(* Faulty variant: as many ticks as the limit are enough.                  *)
ReadClockInclusive ==
  /\ pc \in Waits /\ read
  /\ IF Elapsed >= Limit[pc]
     THEN pc' = "Error_Handler" /\ gaveUp' = pc
     ELSE pc' = pc /\ gaveUp' = gaveUp
  /\ polled' = TRUE /\ read' = FALSE
  /\ UNCHANGED <<tickstart, SystemCoreClock, rcc, systick, BRR, waited, answered>>

ReadClock ==
  /\ pc \in Waits /\ read
  /\ IF Elapsed > Limit[pc]
     THEN pc' = "Error_Handler" /\ gaveUp' = pc
     ELSE pc' = pc /\ gaveUp' = gaveUp
  /\ polled' = TRUE /\ read' = FALSE
  /\ UNCHANGED <<tickstart, SystemCoreClock, rcc, systick, BRR, waited, answered>>

-----------------------------------------------------------------------------
(* The hardware: each answer may come at any time after it was asked for.  *)
Answer(w) == answered' = IF pc = w THEN waited ELSE answered

HSEStarts ==
  /\ HSEON /\ ~HSERDY /\ HSERDY' = TRUE /\ Answer("HSE")
  /\ UNCHANGED <<pc, read, tickstart, SystemCoreClock, HSEON, PLLON, PLLRDY, SW,
                 SWS, PPRE1, systick, BRR, polled, waited, gaveUp>>

PLLLocks ==
  /\ PLLON /\ HSERDY /\ ~PLLRDY /\ PLLRDY' = TRUE /\ Answer("PLL")
  /\ UNCHANGED <<pc, read, tickstart, SystemCoreClock, HSEON, HSERDY, PLLON, SW,
                 SWS, PPRE1, systick, BRR, polled, waited, gaveUp>>

ClockSwitches ==
  /\ SW # SWS /\ PLLRDY /\ SWS' = SW /\ Answer("switch")
  /\ UNCHANGED <<pc, read, tickstart, SystemCoreClock, HSEON, HSERDY, PLLON,
                 PLLRDY, SW, PPRE1, systick, BRR, polled, waited, gaveUp>>

(* HAL_IncTick; faulty variant: a counter that is wider than its readers.  *)
IncTickWide == uwTick + 1
IncTick == (uwTick + 1) % 2 ^ W

(* A third of a millisecond passes; a wait goes round at least once in it. *)
(* Error_Handler masks the interrupt.                                      *)
Time ==
  /\ pc \in Waits => polled
  /\ LET left == VAL - HCLK \div 8
     IN  IF LOAD = 0 THEN UNCHANGED <<VAL, uwTick>>
         ELSE IF left > 0 THEN VAL' = left /\ UNCHANGED uwTick
         ELSE VAL' = left + LOAD
              /\ uwTick' = IF pc = "Error_Handler" THEN uwTick ELSE IncTick
  /\ polled' = FALSE
  /\ waited' = IF pc \in Waits /\ waited < LongestWait THEN waited + 1 ELSE waited
  /\ UNCHANGED <<pc, read, tickstart, SystemCoreClock, rcc, LOAD, BRR, answered, gaveUp>>

Processor == InitHAL \/ HSEOn \/ PLLOff \/ PLLOn \/ ClockConfig \/ ClockConfigEnds
             \/ MX_USART2_UART_Init \/ ReadFlag \/ ReadClock

Hardware == HSEStarts \/ PLLLocks \/ ClockSwitches

Next == Processor \/ Hardware \/ Time

Spec == Init /\ [][Next]_vars /\ WF_vars(Processor) /\ WF_vars(Time)

-----------------------------------------------------------------------------
TypeOK ==
  /\ pc \in Waits \cup {Then(w) : w \in Waits} \cup
       {"HAL_Init", "HSE on", "UART", "app_main", "Error_Handler"}
  /\ {read, HSEON, HSERDY, PLLON, PLLRDY, polled} \subseteq BOOLEAN
  /\ {SW, SWS} \subseteq {"HSI", "PLL"} /\ PPRE1 \in {1, 2, 16}
  /\ {tickstart, uwTick} \subseteq 0 .. 2 ^ W - 1
  /\ {SystemCoreClock, LOAD, VAL, BRR, waited} \subseteq Nat
  /\ VAL <= LOAD /\ answered \in Nat \cup {Never}
  /\ gaveUp \in Waits \cup {"none"}

(***************************************************************************)
(* When app_main is reached, the clock is the one the report expects and   *)
(* everything derived from it agrees, whatever was computed while another  *)
(* clock ran: SystemCoreClock, the millisecond of HAL_Delay, and a baud    *)
(* rate within 2 percent of the nominal one.                               *)
(***************************************************************************)
ClocksAgree ==
  pc = "app_main" =>
    /\ HCLK = 24 /\ SystemCoreClock = HCLK
    /\ LOAD = MS * (HCLK \div 8)
    /\ LET pclk == (HCLK \div PPRE1) * 1000000
       IN  /\ 100 * (pclk \div BRR) <= 102 * BaudRate
           /\ 100 * (pclk \div BRR) >= 98 * BaudRate

(***************************************************************************)
(* A wait that is given up was given its time: the HAL's milliseconds are  *)
(* milliseconds although the clock of its tick is being changed.  It is    *)
(* given up at most one tick, and one round of the loop, after its limit;  *)
(* and no answer is refused that came a round before the limit.            *)
(***************************************************************************)
GivenUpInTime ==
  /\ gaveUp # "none" =>
       /\ waited \in MS * Limit[gaveUp] .. MS * (Limit[gaveUp] + 1) + 1
       /\ answered = Never \/ answered >= MS * Limit[gaveUp] - 1
  /\ pc \in Waits => waited <= MS * (Limit[pc] + 1) + 1

(***************************************************************************)
(* The start ends: with the program, or in Error_Handler, even if a part   *)
(* of the hardware never answers.  No wait is for ever.                    *)
(***************************************************************************)
StartEnds == <>(pc \in {"app_main", "Error_Handler"})

=============================================================================

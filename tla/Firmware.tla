------------------------------ MODULE Firmware ------------------------------
(***************************************************************************)
(* Four parts of the firmware that share no state, side by side: its start *)
(* (Startup), its heap (Heap), its console (Console) and the verdict of a  *)
(* verification (Verdict).  A behaviour is one of the part chosen at its   *)
(* beginning, the others stay as they are; so what holds of all these      *)
(* behaviours is what holds of each part by itself.                        *)
(***************************************************************************)
EXTENDS Verdict

CONSTANTS
  HSE_TIMEOUT_VALUE, PLL_TIMEOUT_VALUE, CLOCKSWITCH_TIMEOUT_VALUE,
  TickBits,                                             \* Startup: W
  Report, BUFSIZ, MaxResets, MaxReports, NoByte,        \* Console
  LENGTH_RAM, Min_Stack_Size, MinHeapSizes, Ends,       \* Heap
  MYFFT_MAX_LOGN, Pow2, Header, OtherSizes, MaxOthers

VARIABLES
  part,
  startpc, read, tickstart, SystemCoreClock, HSEON, HSERDY, PLLON, PLLRDY, SW,
  SWS, PPRE1, LOAD, VAL, uwTick, BRR, polled, waited, answered, gaveUp,
  conpc, k, buffered, kept, ptr, gState, DR, shift, wire, returned, resets, reports,
  _end, _Min_Heap_Size, heap_end, live, ready, phase, logn, next

S == INSTANCE Startup WITH pc <- startpc, W <- TickBits
C == INSTANCE Console WITH pc <- conpc, NULL <- NoByte
H == INSTANCE Heap

ASSUME FirmwareAssumption ==
  S!StartupAssumption /\ C!ConsoleAssumption /\ H!HeapAssumption

startvars == <<startpc, read, tickstart, SystemCoreClock, HSEON, HSERDY, PLLON,
               PLLRDY, SW, SWS, PPRE1, LOAD, VAL, uwTick, BRR, polled, waited,
               answered, gaveUp>>
convars == <<conpc, k, buffered, kept, ptr, gState, DR, shift, wire, returned,
             resets, reports>>
heapvars == <<_end, _Min_Heap_Size, heap_end, live, ready, phase, logn, next>>
allvars == <<part, vars, startvars, convars, heapvars>>

-----------------------------------------------------------------------------
FirmwareInit ==
  /\ part \in {"verdict", "start", "console", "heap"}
  /\ Init /\ S!Init /\ C!Init /\ H!Init
  /\ part # "heap" => /\ \A e \in Ends : _end <= e
                      /\ \A m \in MinHeapSizes : _Min_Heap_Size <= m

JudgeStep ==
  part = "verdict" /\ Next /\ UNCHANGED <<part, startvars, convars, heapvars>>

InStart(A) == part = "start" /\ A /\ UNCHANGED <<part, vars, convars, heapvars>>

InConsole(A) == part = "console" /\ A /\ UNCHANGED <<part, vars, startvars, heapvars>>

HeapStep == part = "heap" /\ H!Next /\ UNCHANGED <<part, vars, startvars, convars>>

(* Every coefficient has been judged: the verdict stands.                  *)
Judged == part = "verdict" /\ u = N /\ UNCHANGED allvars

FirmwareNext == JudgeStep \/ Judged \/ InStart(S!Next) \/ InConsole(C!Next) \/ HeapStep

(* The fairness of Startup and of Console.                                 *)
FirmwareSpec ==
  /\ FirmwareInit /\ [][FirmwareNext]_allvars
  /\ WF_allvars(InStart(S!Processor)) /\ WF_allvars(InStart(S!Time))
  /\ WF_allvars(InConsole(C!Program))
  /\ WF_allvars(InConsole(C!Load)) /\ WF_allvars(InConsole(C!Shift))

-----------------------------------------------------------------------------
(* The types of all parts.                                                 *)
PartsTypeOK == TypeOK /\ S!TypeOK /\ C!TypeOK /\ H!TypeOK

(***************************************************************************)
(* Verdict: a passing case with its margin bounds every deviation from the *)
(* known answers on both sides; the two reference builds judge the same    *)
(* coefficients alike; what build 3 rounds differently shows in its margin.*)
(***************************************************************************)
VerdictSound == MarginVouches /\ ReferencesAgree /\ MarginShows

(***************************************************************************)
(* Start-up: whatever was computed while another clock ran, in app_main    *)
(* SystemCoreClock, the tick and the baud rate agree with the clock; and a *)
(* wait that is given up was given its time, on a tick whose own clock is  *)
(* being changed, and refused nothing that came in time.                   *)
(***************************************************************************)
StartSound == S!ClocksAgree /\ S!GivenUpInTime

(***************************************************************************)
(* Heap: static data, blocks and stack keep apart, whatever was refused; a *)
(* request is refused only when what is in use and what is asked for do    *)
(* not fit together below the stack's reservation; and 0x8000 bytes,       *)
(* reserved or merely left over, are enough for every table.               *)
(***************************************************************************)
HeapSound == H!Apart /\ H!RefusedForLack /\ H!ReservedHeapSuffices

(***************************************************************************)
(* Console: the host reads what was printed, no byte lost, repeated or out *)
(* of order, and all of it once printf has returned, whenever the board is *)
(* reset.                                                                  *)
(***************************************************************************)
Output == C!Output

(* Console: at most one byte is on its way, and a reset costs no other.    *)
ImplementsConsole == C!ImplementsConsole

(* The start ends, even if a part of the hardware never answers; and no    *)
(* printf hangs, although its waits have no limit.                         *)
GoesOn ==
  /\ part = "start" => S!StartEnds
  /\ part = "console" => C!PrintingGoesOn

=============================================================================

------------------------------- MODULE Console -------------------------------
(***************************************************************************)
(* The console of the firmware, from printf to the wire: newlib's stdout,  *)
(* _write (syscalls.c), __io_putchar (console.c), HAL_UART_Transmit and    *)
(* the transmitter of USART2, which works at its own pace.  The program    *)
(* prints its report for ever; the board may be reset at any time.         *)
(***************************************************************************)
EXTENDS Integers, Sequences, SequencesExt

CONSTANTS
  Report,       \* what the program prints: a sequence of printf outputs
  BUFSIZ,       \* bytes a buffered stdout keeps back
  MaxResets,    \* bound: resets of the board
  MaxReports,   \* bound: reports printed after a reset
  NULL

Byte == UNION {ToSet(Report[j]) : j \in DOMAIN Report}

ConsoleAssumption ==
  /\ Report \in Seq(Seq(Byte)) \ {<<>>} /\ \A j \in DOMAIN Report : Report[j] # <<>>
  /\ BUFSIZ \in Nat \ {0}
  /\ {MaxResets, MaxReports} \subseteq Nat
  /\ NULL \notin Byte

VARIABLES
  pc,          \* where the program is
  k,           \* the printf it executes next, or is in
  buffered,    \* stdout keeps bytes back
  kept,        \* the bytes it keeps
  ptr,         \* _write: the bytes it has still to hand over
  gState,      \* huart2: "READY" or "BUSY_TX"
  DR, shift,   \* USART2: the data register and the shift register
  wire,        \* the bytes on the wire
  returned,    \* ghost: what the host should have, but for the printf under way
  resets, reports

stdio == <<buffered, kept>>
usart == <<DR, shift, wire>>
bounds == <<resets, reports>>
vars == <<pc, k, stdio, ptr, gState, usart, returned, bounds>>

Init ==
  /\ pc = "console_init" /\ k = 1
  /\ buffered = TRUE /\ kept = <<>> /\ ptr = <<>>
  /\ gState = "READY"                \* as MX_USART2_UART_Init leaves it
  /\ DR = NULL /\ shift = NULL /\ wire = <<>>
  /\ returned = <<>> /\ resets = 0 /\ reports = 0

-----------------------------------------------------------------------------
(* Faulty variant: stdout stays as it is.                                  *)
ConsoleInitNothing ==
  /\ pc = "console_init"
  /\ pc' = "printf"
  /\ UNCHANGED <<k, stdio, ptr, gState, usart, returned, bounds>>

(* setvbuf(stdout, NULL, _IONBF, 0).                                       *)
ConsoleInit ==
  /\ pc = "console_init"
  /\ buffered' = FALSE
  /\ pc' = "printf"
  /\ UNCHANGED <<k, kept, ptr, gState, usart, returned, bounds>>

(* printf hands its output to _write, or keeps it while there is room.     *)
Printf ==
  LET all == kept \o Report[k]
  IN  /\ pc = "printf" /\ reports < MaxReports
      /\ IF buffered /\ Len(all) < BUFSIZ
         THEN kept' = all /\ pc' = "printf returns" /\ ptr' = ptr
         ELSE kept' = <<>> /\ pc' = "_write" /\ ptr' = all
      /\ UNCHANGED <<k, buffered, gState, usart, returned, bounds>>

PrintfReturns ==
  /\ pc = "printf returns"
  /\ returned' = returned \o Report[k]
  /\ k' = (k % Len(Report)) + 1
  /\ reports' = reports + (IF k = Len(Report) THEN 1 ELSE 0)
  /\ pc' = "printf"
  /\ UNCHANGED <<stdio, ptr, gState, usart, resets>>

-----------------------------------------------------------------------------
(* The flags of USART2.                                                    *)
TXE == DR = NULL
TC == DR = NULL /\ shift = NULL

(* _write: the next byte goes to __io_putchar, or the call returns len.    *)
(* HAL_UART_Transmit refuses it, unnoticed, unless the UART is ready.  The *)
(* timeout is HAL_MAX_DELAY, so that a wait looks at its flag and never at *)
(* the clock.                                                              *)
WriteByte ==
  /\ pc = "_write" /\ ptr # <<>>
  /\ IF gState = "READY"
     THEN /\ gState' = "BUSY_TX" /\ pc' = "wait TXE"
          /\ ptr' = ptr
     ELSE ptr' = Tail(ptr) /\ UNCHANGED <<pc, gState>>
  /\ UNCHANGED <<k, stdio, usart, returned, bounds>>

WriteReturns ==
  /\ pc = "_write" /\ ptr = <<>>
  /\ pc' = "printf returns"
  /\ UNCHANGED <<k, stdio, ptr, gState, usart, returned, bounds>>

(* The end of HAL_UART_Transmit: nobody looks at its result.               *)
TransmitReturns == pc' = "_write" /\ ptr' = Tail(ptr)

(* Faulty variant: the wait is for the other value of the flag.            *)
WriteDRInverted ==
  /\ pc = "wait TXE" /\ ~TXE
  /\ DR' = Head(ptr) /\ pc' = "wait TC"
  /\ UNCHANGED <<k, stdio, ptr, gState, shift, wire, returned, bounds>>

WriteDR ==
  /\ pc = "wait TXE" /\ TXE
  /\ DR' = Head(ptr) /\ pc' = "wait TC"
  /\ UNCHANGED <<k, stdio, ptr, gState, shift, wire, returned, bounds>>

(* Faulty variants: only the data register is waited for; the handle stays *)
(* busy.                                                                   *)
CompleteEarly ==
  /\ pc = "wait TC" /\ TXE
  /\ gState' = "READY"
  /\ TransmitReturns
  /\ UNCHANGED <<k, stdio, usart, returned, bounds>>

CompleteBusy ==
  /\ pc = "wait TC" /\ TC
  /\ TransmitReturns
  /\ UNCHANGED <<k, stdio, gState, usart, returned, bounds>>

Complete ==
  /\ pc = "wait TC" /\ TC
  /\ gState' = "READY"
  /\ TransmitReturns
  /\ UNCHANGED <<k, stdio, usart, returned, bounds>>

-----------------------------------------------------------------------------
(* The transmitter.                                                        *)
Load ==
  /\ DR # NULL /\ shift = NULL
  /\ shift' = DR /\ DR' = NULL
  /\ UNCHANGED <<pc, k, stdio, ptr, gState, wire, returned, bounds>>

Shift ==
  /\ shift # NULL
  /\ wire' = Append(wire, shift) /\ shift' = NULL
  /\ UNCHANGED <<pc, k, stdio, ptr, gState, DR, returned, bounds>>

(* The board is reset; only what is on the wire survives.                  *)
Reset ==
  /\ resets < MaxResets
  /\ resets' = resets + 1 /\ reports' = 0
  /\ pc' = "console_init" /\ k' = 1
  /\ buffered' = TRUE /\ kept' = <<>> /\ ptr' = <<>>
  /\ gState' = "READY"
  /\ DR' = NULL /\ shift' = NULL
  /\ returned' = wire
  /\ UNCHANGED wire

Program == ConsoleInit \/ Printf \/ PrintfReturns \/ WriteByte \/ WriteReturns
           \/ WriteDR \/ Complete

(* The bound on the reports is reached: the program goes on, unobserved.   *)
ObservedEnough == pc = "printf" /\ reports = MaxReports /\ UNCHANGED vars

Next == Program \/ Load \/ Shift \/ Reset \/ ObservedEnough

Spec == Init /\ [][Next]_vars /\ WF_vars(Program) /\ WF_vars(Load) /\ WF_vars(Shift)

-----------------------------------------------------------------------------
TypeOK ==
  /\ pc \in {"console_init", "printf", "_write", "wait TXE", "wait TC",
             "printf returns"}
  /\ k \in DOMAIN Report
  /\ buffered \in BOOLEAN /\ kept \in Seq(Byte) /\ ptr \in Seq(Byte)
  /\ gState = IF pc \in {"wait TXE", "wait TC"} THEN "BUSY_TX" ELSE "READY"
  /\ {DR, shift} \subseteq Byte \cup {NULL}
  /\ wire \in Seq(Byte) /\ returned \in Seq(Byte)
  /\ resets \in 0 .. MaxResets /\ reports \in 0 .. MaxReports

(***************************************************************************)
(* What the host reads is the program's output, no byte lost, repeated or  *)
(* out of order: when a printf has returned its bytes are on the wire, and *)
(* a reset takes back none of them.  Nothing on the way, a library buffer, *)
(* _write, the driver or the two registers, holds back or drops a byte     *)
(* although every result on the way is ignored.                            *)
(***************************************************************************)
Output ==
  /\ IsPrefix(returned, wire)
  /\ IsPrefix(wire, returned \o Report[k])
  /\ pc = "printf" => wire = returned

(***************************************************************************)
(* The console takes a byte only when the one before has left: at most one *)
(* is on its way, which is all a reset can cost, and it does leave.        *)
(***************************************************************************)
Promise == INSTANCE ConsoleSpec WITH
  pending <- IF DR # NULL THEN DR ELSE shift

ImplementsConsole == Promise!Spec

(***************************************************************************)
(* No printf hangs: with no limit on its waits the driver relies on the    *)
(* transmitter alone, and gets on at its pace.                             *)
(***************************************************************************)
PrintingGoesOn == pc # "printf" ~> pc = "printf"

=============================================================================

--------------------------- MODULE FirmwareProofs ---------------------------
(***************************************************************************)
(* Theorems about the parts of the firmware, for any report, any number of *)
(* resets, any limits of the waits and any memory: what the host reads is  *)
(* what was printed, the console keeps its promise, the waits of the start *)
(* are given up in time, the clocks agree at its end, and static data,     *)
(* heap and stack keep apart, with memory refused for lack of it only.     *)
(***************************************************************************)
EXTENDS Firmware, SequenceTheorems, FiniteSetTheorems, WellFoundedInduction, TLAPS

(* The assumptions on the constants, part by part.                         *)
LEMMA PartsAssumption ==
  S!StartupAssumption /\ C!ConsoleAssumption /\ H!HeapAssumption
  BY FirmwareAssumption

-----------------------------------------------------------------------------
(***************************************************************************)
(* Sequences: what has been put on the wire and what is still to come.     *)
(***************************************************************************)

(* A sequence and what is appended to it.                                  *)
LEMMA PrefixOfConcat ==
  ASSUME NEW A, NEW s \in Seq(A), NEW t \in Seq(A)
  PROVE  IsPrefix(s, s \o t)
<1>1. s \o t \in Seq(A) /\ Len(s \o t) = Len(s) + Len(t)
  BY ConcatProperties
<1>2. Len(s) \in Nat /\ Len(t) \in Nat
  BY LenProperties
<1>3. SubSeq(s \o t, 1, Len(s)) = s
  BY SubSeqOfConcat1, <1>2
<1>4. SubSeq(s, 1, Len(s)) = s
  BY SubSeqFull
<1> QED
  BY <1>1, <1>2, <1>3, <1>4 DEF IsPrefix

LEMMA PrefixOfItself ==
  ASSUME NEW A, NEW s \in Seq(A)
  PROVE  IsPrefix(s, s)
BY LenProperties DEF IsPrefix

(* A prefix stays one when something is appended to the longer sequence.   *)
LEMMA PrefixKept ==
  ASSUME NEW A, NEW s \in Seq(A), NEW t \in Seq(A), NEW e \in A, IsPrefix(s, t)
  PROVE  IsPrefix(s, Append(t, e))
<1>1. /\ Append(t, e) \in Seq(A) /\ Len(Append(t, e)) = Len(t) + 1
      /\ \A i \in 1 .. Len(t) : Append(t, e)[i] = t[i]
  OBVIOUS
<1>2. Len(s) \in Nat /\ Len(t) \in Nat /\ Len(s) <= Len(t)
  BY LenProperties DEF IsPrefix
<1>3. SubSeq(Append(t, e), 1, Len(s)) = SubSeq(t, 1, Len(s))
  BY <1>1, <1>2
<1> QED
  BY <1>1, <1>2, <1>3 DEF IsPrefix

(* The next element moves from what is to come to what is there.           *)
LEMMA Moved ==
  ASSUME NEW A, NEW s \in Seq(A), NEW t \in Seq(A), t # <<>>
  PROVE  /\ Head(t) \in A /\ Tail(t) \in Seq(A)
         /\ Append(s, Head(t)) \o Tail(t) = s \o t
<1>1. Head(t) \in A /\ Tail(t) \in Seq(A)
  OBVIOUS
<1>2. Append(s, Head(t)) = s \o <<Head(t)>>
  BY <1>1, AppendIsConcat
<1>3. t = <<Head(t)>> \o Tail(t)
  OBVIOUS
<1>4. (s \o <<Head(t)>>) \o Tail(t) = s \o (<<Head(t)>> \o Tail(t))
  BY <1>1, ConcatAssociative
<1> QED
  BY <1>1, <1>2, <1>3, <1>4

-----------------------------------------------------------------------------
(***************************************************************************)
(* The console.  Its invariant says how far the bytes of the printf under  *)
(* way have come: those on the wire and those _write has still to hand     *)
(* over are together what has been printed, and only while the driver      *)
(* waits for the transmitter is a byte in one of its registers, at most    *)
(* one, and that the first of those.                                       *)
(***************************************************************************)
InTransmit == conpc \in {"wait TXE", "wait TC"}

(* The library keeps nothing back once stdout is unbuffered; and a printf  *)
(* is under way only below the bound on the reports.                       *)
StdioInv ==
  /\ conpc \notin {"console_init", "printf"} => reports < MaxReports
  /\ kept = <<>>
  /\ conpc # "console_init" => buffered = FALSE
  /\ conpc = "console_init" => wire = returned

(* What _write has still to hand over.                                     *)
PtrInv ==
  /\ InTransmit => ptr # <<>>
  /\ ~InTransmit /\ conpc # "_write" => ptr = <<>>

(* The registers: empty, or the byte being transmitted in one of them.     *)
RegistersInv ==
  /\ DR = NoByte \/ shift = NoByte
  /\ conpc # "wait TC" => DR = NoByte /\ shift = NoByte
  /\ conpc = "wait TC" => DR \in {NoByte, Head(ptr)} /\ shift \in {NoByte, Head(ptr)}

Delivered == conpc = "wait TC" /\ DR = NoByte /\ shift = NoByte

(* The bytes that are not on the wire yet.                                 *)
ToCome == IF Delivered THEN Tail(ptr) ELSE ptr

WireInv ==
  /\ IsPrefix(returned, wire)
  /\ conpc = "printf" => wire = returned
  /\ conpc \notin {"console_init", "printf"} => wire \o ToCome = returned \o Report[k]

ConsoleInv == C!TypeOK /\ StdioInv /\ PtrInv /\ RegistersInv /\ WireInv

LEMMA ReportType ==
  /\ \A j \in 1 .. Len(Report) : Report[j] \in Seq(C!Byte)
  /\ DOMAIN Report = 1 .. Len(Report) /\ Len(Report) \in Nat \ {0}
  /\ BUFSIZ \in Nat \ {0} /\ MaxResets \in Nat /\ MaxReports \in Nat
  /\ NoByte \notin C!Byte
<1>1. C!ConsoleAssumption
  BY PartsAssumption
<1>2. Report \in Seq(Seq(C!Byte)) /\ Report # <<>>
  BY <1>1 DEF C!ConsoleAssumption
<1> QED
  BY <1>1, <1>2 DEF C!ConsoleAssumption

LEMMA ConsoleInit == C!Init => ConsoleInv
<1> SUFFICES ASSUME C!Init PROVE ConsoleInv
  OBVIOUS
<1> USE DEF C!Init
<1>1. C!TypeOK
  BY ReportType DEF C!TypeOK
<1>2. StdioInv /\ PtrInv /\ RegistersInv
  BY DEF StdioInv, PtrInv, RegistersInv, InTransmit
<1>3. IsPrefix(returned, wire)
  BY DEF IsPrefix
<1> QED
  BY <1>1, <1>2, <1>3 DEF ConsoleInv, WireInv

(* What the invariant says of the state a step starts from.                *)
LEMMA ConsoleState ==
  ASSUME ConsoleInv
  PROVE  /\ k \in 1 .. Len(Report) /\ Report[k] \in Seq(C!Byte)
         /\ ptr \in Seq(C!Byte) /\ wire \in Seq(C!Byte) /\ returned \in Seq(C!Byte)
         /\ kept = <<>> /\ IsPrefix(returned, wire)
         /\ resets \in 0 .. MaxResets /\ reports \in 0 .. MaxReports
BY ReportType DEF ConsoleInv, C!TypeOK, StdioInv, WireInv

LEMMA ConsoleUnchanged == ConsoleInv /\ UNCHANGED convars => ConsoleInv'
<1> SUFFICES ASSUME ConsoleInv, UNCHANGED convars PROVE ConsoleInv'
  OBVIOUS
<1> USE DEF convars
<1>1. C!TypeOK'
  BY DEF ConsoleInv, C!TypeOK
<1>2. StdioInv' /\ PtrInv' /\ RegistersInv'
  BY DEF ConsoleInv, StdioInv, PtrInv, RegistersInv, InTransmit
<1>3. WireInv'
  BY DEF ConsoleInv, WireInv, ToCome, Delivered
<1> QED
  BY <1>1, <1>2, <1>3 DEF ConsoleInv

(* The next printf of a report, and the reports counted.                   *)
LEMMA CountFacts ==
  /\ \A n \in Nat \ {0} : \A i \in 1 .. n : (i % n) + 1 \in 1 .. n
  /\ \A n \in Nat : \A r \in 0 .. n : r < n =>
       \A b \in BOOLEAN : r + (IF b THEN 1 ELSE 0) \in 0 .. n
  OBVIOUS

(* printf: from the library to _write and back.                            *)
LEMMA ConsolePrintf ==
  ConsoleInv /\ (C!ConsoleInit \/ C!Printf \/ C!PrintfReturns) => ConsoleInv'
<1> SUFFICES ASSUME ConsoleInv, C!ConsoleInit \/ C!Printf \/ C!PrintfReturns
             PROVE  ConsoleInv'
  OBVIOUS
<1> USE DEF C!stdio, C!usart, C!bounds
<1>s. /\ k \in 1 .. Len(Report) /\ Report[k] \in Seq(C!Byte)
      /\ ptr \in Seq(C!Byte) /\ wire \in Seq(C!Byte) /\ returned \in Seq(C!Byte)
      /\ kept = <<>> /\ IsPrefix(returned, wire)
      /\ resets \in 0 .. MaxResets /\ reports \in 0 .. MaxReports
  BY ConsoleState
<1>n. /\ \A n \in Nat \ {0} : \A i \in 1 .. n : (i % n) + 1 \in 1 .. n
      /\ \A n \in Nat : \A r \in 0 .. n : r < n =>
           \A b \in BOOLEAN : r + (IF b THEN 1 ELSE 0) \in 0 .. n
  BY Zenon, CountFacts
<1>1. CASE C!ConsoleInit
  <2> USE <1>1 DEF C!ConsoleInit
  <2>1. C!TypeOK'
    BY DEF ConsoleInv, C!TypeOK
  <2>2. StdioInv' /\ PtrInv' /\ RegistersInv'
    BY DEF ConsoleInv, StdioInv, PtrInv, RegistersInv, InTransmit
  <2>3. WireInv'
    BY <1>s DEF ConsoleInv, WireInv, StdioInv
  <2> QED
    BY <2>1, <2>2, <2>3 DEF ConsoleInv
<1>2. CASE C!Printf
  <2> USE <1>2 DEF C!Printf
  <2>1. conpc = "printf" /\ buffered = FALSE /\ DR = NoByte /\ shift = NoByte /\ wire = returned
    BY DEF ConsoleInv, StdioInv, RegistersInv, WireInv
  <2>2. kept \o Report[k] = Report[k]
    BY <1>s, ConcatEmptySeq
  <2>3. /\ kept' = <<>> /\ conpc' = "_write" /\ ptr' = Report[k]
        /\ UNCHANGED <<k, buffered, gState, DR, shift, wire, returned, resets, reports>>
    BY <2>1, <2>2
  <2>4. C!TypeOK'
    BY <1>s, <2>1, <2>3, ReportType DEF ConsoleInv, C!TypeOK
  <2>5. StdioInv' /\ PtrInv' /\ RegistersInv'
    BY <1>s, <2>1, <2>3 DEF StdioInv, PtrInv, RegistersInv, InTransmit
  <2>6. WireInv'
    BY <1>s, <2>1, <2>3 DEF WireInv, ToCome, Delivered
  <2> QED
    BY <2>4, <2>5, <2>6 DEF ConsoleInv
<1>3. CASE C!PrintfReturns
  <2> USE <1>3 DEF C!PrintfReturns
  <2>1. conpc = "printf returns" /\ ptr = <<>> /\ DR = NoByte /\ shift = NoByte
        /\ buffered = FALSE /\ conpc' = "printf" /\ reports < MaxReports
    BY DEF ConsoleInv, StdioInv, RegistersInv, PtrInv, InTransmit
  <2>2. wire = returned \o Report[k]
    <3>1. wire \o ptr = returned \o Report[k]
      BY <2>1 DEF ConsoleInv, WireInv, ToCome, Delivered
    <3> QED
      BY <3>1, <2>1, <1>s, ConcatEmptySeq
  <2>3. /\ returned' = wire /\ wire' = wire
        /\ UNCHANGED <<buffered, kept, ptr, gState, DR, shift, resets>>
    BY <2>2
  <2>4. k' \in 1 .. Len(Report)
    BY <1>s, <1>n, ReportType, Zenon
  <2>5. reports' \in 0 .. MaxReports
    BY <1>s, <1>n, <2>1, ReportType, Zenon
  <2>6. C!TypeOK'
    BY <1>s, <2>1, <2>3, <2>4, <2>5, ReportType DEF ConsoleInv, C!TypeOK
  <2>7. StdioInv' /\ PtrInv' /\ RegistersInv'
    BY <1>s, <2>1, <2>3 DEF StdioInv, PtrInv, RegistersInv, InTransmit
  <2>8. IsPrefix(wire, wire)
    BY <1>s, PrefixOfItself, Zenon
  <2>9. WireInv'
    BY <2>1, <2>3, <2>8 DEF WireInv
  <2> QED
    BY <2>6, <2>7, <2>9 DEF ConsoleInv
<1> QED
  BY <1>1, <1>2, <1>3

(* _write and HAL_UART_Transmit.                                           *)
LEMMA ConsoleWrite ==
  ConsoleInv /\ (C!WriteByte \/ C!WriteReturns \/ C!WriteDR \/ C!Complete) => ConsoleInv'
<1> SUFFICES ASSUME ConsoleInv, C!WriteByte \/ C!WriteReturns \/ C!WriteDR \/ C!Complete
             PROVE  ConsoleInv'
  OBVIOUS
<1> USE DEF C!stdio, C!usart, C!bounds
<1>s. /\ k \in 1 .. Len(Report) /\ Report[k] \in Seq(C!Byte)
      /\ ptr \in Seq(C!Byte) /\ wire \in Seq(C!Byte) /\ returned \in Seq(C!Byte)
      /\ kept = <<>> /\ IsPrefix(returned, wire)
      /\ resets \in 0 .. MaxResets /\ reports \in 0 .. MaxReports
  BY ConsoleState
<1>t. ptr # <<>> => Head(ptr) \in C!Byte /\ Tail(ptr) \in Seq(C!Byte) /\ Head(ptr) # NoByte
  BY <1>s, Moved, ReportType
<1>1. CASE C!WriteByte
  <2> USE <1>1 DEF C!WriteByte
  <2>1. conpc = "_write" /\ gState = "READY" /\ ptr # <<>> /\ DR = NoByte /\ shift = NoByte
    BY DEF ConsoleInv, C!TypeOK, RegistersInv
  <2>2. /\ conpc' = "wait TXE" /\ gState' = "BUSY_TX"
        /\ UNCHANGED <<k, buffered, kept, ptr, DR, shift, wire, returned, resets, reports>>
    BY <2>1
  <2>3. C!TypeOK'
    BY <1>s, <2>1, <2>2 DEF ConsoleInv, C!TypeOK
  <2>4. StdioInv' /\ PtrInv' /\ RegistersInv'
    BY <1>s, <2>1, <2>2 DEF ConsoleInv, StdioInv, PtrInv, RegistersInv, InTransmit
  <2>5. wire \o ptr = returned \o Report[k]
    BY <2>1 DEF ConsoleInv, WireInv, ToCome, Delivered
  <2>6. WireInv'
    BY <1>s, <2>2, <2>5 DEF WireInv, ToCome, Delivered
  <2> QED
    BY <2>3, <2>4, <2>6 DEF ConsoleInv
<1>2. CASE C!WriteReturns
  <2> USE <1>2 DEF C!WriteReturns
  <2>1. conpc = "_write" /\ DR = NoByte /\ shift = NoByte
    BY DEF ConsoleInv, RegistersInv
  <2>2. C!TypeOK'
    BY <1>s, <2>1 DEF ConsoleInv, C!TypeOK
  <2>3. StdioInv' /\ PtrInv' /\ RegistersInv'
    BY <1>s, <2>1 DEF ConsoleInv, StdioInv, PtrInv, RegistersInv, InTransmit
  <2>4. wire \o ptr = returned \o Report[k]
    BY <2>1 DEF ConsoleInv, WireInv, ToCome, Delivered
  <2>5. WireInv'
    BY <1>s, <2>4 DEF WireInv, ToCome, Delivered
  <2> QED
    BY <2>2, <2>3, <2>5 DEF ConsoleInv
<1>3. CASE C!WriteDR
  <2> USE <1>3 DEF C!WriteDR
  <2>1. conpc = "wait TXE" /\ ptr # <<>> /\ DR = NoByte /\ shift = NoByte
    BY DEF ConsoleInv, RegistersInv, PtrInv, InTransmit
  <2>2. C!TypeOK'
    BY <1>s, <1>t, <2>1 DEF ConsoleInv, C!TypeOK
  <2>3. StdioInv' /\ PtrInv' /\ RegistersInv'
    BY <1>s, <2>1 DEF ConsoleInv, StdioInv, PtrInv, RegistersInv, InTransmit
  <2>4. wire \o ptr = returned \o Report[k]
    BY <2>1 DEF ConsoleInv, WireInv, ToCome, Delivered
  <2>5. ~Delivered'
    BY <1>t, <2>1 DEF Delivered
  <2>6. WireInv'
    BY <1>s, <2>4, <2>5 DEF WireInv, ToCome
  <2> QED
    BY <2>2, <2>3, <2>6 DEF ConsoleInv
<1>4. CASE C!Complete
  <2> USE <1>4 DEF C!Complete, C!TransmitReturns, C!TC
  <2>1. conpc = "wait TC" /\ ptr # <<>> /\ DR = NoByte /\ shift = NoByte
    BY DEF ConsoleInv, PtrInv, InTransmit
  <2>2. C!TypeOK'
    BY <1>s, <1>t, <2>1 DEF ConsoleInv, C!TypeOK
  <2>3. StdioInv' /\ PtrInv' /\ RegistersInv'
    BY <1>s, <2>1 DEF ConsoleInv, StdioInv, PtrInv, RegistersInv, InTransmit
  <2>4. wire \o Tail(ptr) = returned \o Report[k]
    BY <2>1 DEF ConsoleInv, WireInv, ToCome, Delivered
  <2>5. WireInv'
    BY <1>s, <2>4 DEF WireInv, ToCome, Delivered
  <2> QED
    BY <2>2, <2>3, <2>5 DEF ConsoleInv
<1> QED
  BY <1>1, <1>2, <1>3, <1>4

(* The transmitter, and a reset.                                           *)
LEMMA ConsoleHardware ==
  ConsoleInv /\ (C!Load \/ C!Shift \/ C!Reset) => ConsoleInv'
<1> SUFFICES ASSUME ConsoleInv, C!Load \/ C!Shift \/ C!Reset
             PROVE  ConsoleInv'
  OBVIOUS
<1> USE DEF C!stdio, C!usart, C!bounds
<1>s. /\ k \in 1 .. Len(Report) /\ Report[k] \in Seq(C!Byte)
      /\ ptr \in Seq(C!Byte) /\ wire \in Seq(C!Byte) /\ returned \in Seq(C!Byte)
      /\ kept = <<>> /\ IsPrefix(returned, wire)
      /\ resets \in 0 .. MaxResets /\ reports \in 0 .. MaxReports
  BY ConsoleState
<1>t. ptr # <<>> => Head(ptr) \in C!Byte /\ Tail(ptr) \in Seq(C!Byte) /\ Head(ptr) # NoByte
  BY <1>s, Moved, ReportType
<1>1. CASE C!Load
  <2> USE <1>1 DEF C!Load
  <2>1. conpc = "wait TC" /\ ptr # <<>> /\ DR = Head(ptr) /\ shift = NoByte
    BY DEF ConsoleInv, RegistersInv, PtrInv, InTransmit
  <2>2. C!TypeOK'
    BY <1>s, <2>1 DEF ConsoleInv, C!TypeOK
  <2>3. StdioInv' /\ PtrInv' /\ RegistersInv'
    BY <1>s, <2>1 DEF ConsoleInv, StdioInv, PtrInv, RegistersInv, InTransmit
  <2>4. wire \o ptr = returned \o Report[k]
    BY <2>1 DEF ConsoleInv, WireInv, ToCome, Delivered
  <2>5. ~Delivered'
    BY <1>t, <2>1 DEF Delivered
  <2>6. WireInv'
    BY <1>s, <2>1, <2>4, <2>5 DEF WireInv, ToCome
  <2> QED
    BY <2>2, <2>3, <2>6 DEF ConsoleInv
<1>2. CASE C!Shift
  <2>0. /\ shift # NoByte /\ wire' = Append(wire, shift) /\ shift' = NoByte
        /\ UNCHANGED <<conpc, k, buffered, kept, ptr, gState, DR, returned, resets, reports>>
    BY <1>2 DEF C!Shift
  <2>1. conpc = "wait TC" /\ ptr # <<>> /\ DR = NoByte /\ shift = Head(ptr)
    BY <2>0 DEF ConsoleInv, RegistersInv, PtrInv, InTransmit
  <2>a. wire' = Append(wire, Head(ptr)) /\ wire' \in Seq(C!Byte)
    <3>1. wire' = Append(wire, Head(ptr)) /\ wire \in Seq(C!Byte) /\ Head(ptr) \in C!Byte
      BY <2>0, <1>s, <1>t, <2>1, Zenon
    <3> QED
      BY <3>1, AppendProperties, Zenon
  <2>2. C!TypeOK'
    BY <2>0, <1>s, <2>1, <2>a DEF ConsoleInv, C!TypeOK
  <2>3. StdioInv' /\ PtrInv' /\ RegistersInv'
    BY <2>0, <1>s, <2>1 DEF ConsoleInv, StdioInv, PtrInv, RegistersInv, InTransmit
  <2>4. wire \o ptr = returned \o Report[k]
    BY <2>0, <2>1 DEF ConsoleInv, WireInv, ToCome, Delivered
  <2>5. wire' = Append(wire, Head(ptr)) /\ wire' \o Tail(ptr) = wire \o ptr
    BY <2>0, <1>s, <2>1, Moved
  <2>6. IsPrefix(returned, wire')
    BY <2>0, <1>s, <1>t, <2>1, <2>5, PrefixKept
  <2>7. Delivered' /\ ToCome' = Tail(ptr)
    BY <2>0, <2>1 DEF Delivered, ToCome
  <2>8. WireInv'
    BY <2>0, <2>1, <2>4, <2>5, <2>6, <2>7 DEF WireInv
  <2> QED
    BY <2>2, <2>3, <2>8 DEF ConsoleInv
<1>3. CASE C!Reset
  <2> USE <1>3 DEF C!Reset
  <2>1. C!TypeOK'
    BY <1>s, ReportType DEF C!TypeOK
  <2>2. StdioInv' /\ PtrInv' /\ RegistersInv'
    BY DEF StdioInv, PtrInv, RegistersInv, InTransmit
  <2>3. IsPrefix(wire, wire)
    BY <1>s, PrefixOfItself, Zenon
  <2>4. WireInv'
    BY <2>3 DEF WireInv
  <2> QED
    BY <2>1, <2>2, <2>4 DEF ConsoleInv
<1> QED
  BY <1>1, <1>2, <1>3

(* The invariant says what the console's Output does.                      *)
LEMMA ConsoleOutput == ConsoleInv => C!Output
<1> SUFFICES ASSUME ConsoleInv PROVE C!Output
  OBVIOUS
<1>s. /\ Report[k] \in Seq(C!Byte)
      /\ ptr \in Seq(C!Byte) /\ wire \in Seq(C!Byte) /\ returned \in Seq(C!Byte)
  BY ConsoleState, Zenon
<1>1. IsPrefix(returned, wire) /\ (conpc = "printf" => wire = returned)
  BY DEF ConsoleInv, WireInv
<1>2. IsPrefix(wire, returned \o Report[k])
  <2>1. CASE conpc \in {"console_init", "printf"}
    <3>1. wire = returned
      BY <2>1 DEF ConsoleInv, WireInv, StdioInv
    <3> QED
      BY <3>1, <1>s, PrefixOfConcat, Zenon
  <2>2. CASE conpc \notin {"console_init", "printf"}
    <3>1. wire \o ToCome = returned \o Report[k]
      BY <2>2 DEF ConsoleInv, WireInv
    <3>2. ToCome \in Seq(C!Byte)
      <4>1. Delivered => ptr # <<>>
        BY DEF Delivered, ConsoleInv, PtrInv, InTransmit
      <4> QED
        BY <4>1, <1>s, Moved DEF ToCome
    <3>3. IsPrefix(wire, wire \o ToCome)
      BY <3>2, <1>s, PrefixOfConcat, Zenon
    <3> QED
      BY <3>1, <3>3
  <2> QED
    BY <2>1, <2>2
<1> QED
  BY <1>1, <1>2 DEF C!Output, C!IsPrefix, IsPrefix

(* The byte on its way, as ConsoleSpec sees the registers.                 *)
LEMMA ConsoleRefines ==
  ConsoleInv /\ [C!Next]_convars =>
    [C!Promise!Next]_<<IF DR # NoByte THEN DR ELSE shift, wire>>
<1> DEFINE pending == IF DR # NoByte THEN DR ELSE shift
<1> SUFFICES ASSUME ConsoleInv, [C!Next]_convars
             PROVE  C!Promise!Next \/ UNCHANGED <<pending, wire>>
  OBVIOUS
<1>s. /\ ptr \in Seq(C!Byte)
      /\ ptr # <<>> => Head(ptr) \in C!Byte
      /\ NoByte \notin C!Byte
  BY ConsoleState, Moved, ReportType
<1>1. ASSUME C!ConsoleInit \/ C!Printf \/ C!PrintfReturns \/ C!WriteByte
             \/ C!WriteReturns \/ C!Complete
      PROVE  UNCHANGED <<pending, wire>>
  <2>1. UNCHANGED <<DR, shift, wire>>
    BY <1>1 DEF C!ConsoleInit, C!Printf, C!PrintfReturns, C!WriteByte, C!WriteReturns,
                C!Complete, C!usart
  <2> QED
    BY <2>1
<1>2. CASE C!WriteDR
  <2>1. ptr # <<>> /\ DR = NoByte /\ shift = NoByte
    BY <1>2 DEF C!WriteDR, ConsoleInv, RegistersInv, PtrInv, InTransmit
  <2>2. C!Promise!Put(Head(ptr))
    BY <1>2, <1>s, <2>1 DEF C!WriteDR, C!Promise!Put
  <2> QED
    BY <2>1, <2>2, <1>s DEF C!Promise!Next
<1>3. CASE C!Load
  BY <1>3 DEF C!Load
<1>4. CASE C!Shift
  <2>1. DR = NoByte
    BY <1>4 DEF C!Shift, ConsoleInv, RegistersInv
  <2>2. C!Promise!Deliver
    BY <1>4, <2>1 DEF C!Shift, C!Promise!Deliver
  <2> QED
    BY <2>2 DEF C!Promise!Next
<1>5. CASE C!Reset
  <2>1. pending' = NoByte /\ wire' = wire
    BY <1>5 DEF C!Reset
  <2>2. CASE pending = NoByte
    BY <2>1, <2>2
  <2>3. CASE pending # NoByte
    BY <2>1, <2>3 DEF C!Promise!Next, C!Promise!Reset
  <2> QED
    BY <2>2, <2>3
<1>6. CASE UNCHANGED convars
  BY <1>6 DEF convars
<1>7. CASE C!ObservedEnough
  BY <1>7 DEF C!ObservedEnough, C!vars, C!usart
<1> QED
  BY <1>1, <1>2, <1>3, <1>4, <1>5, <1>6, <1>7 DEF C!Next, C!Program

LEMMA ConsoleStep == ConsoleInv /\ [C!Next]_convars => ConsoleInv'
<1> SUFFICES ASSUME ConsoleInv, [C!Next]_convars PROVE ConsoleInv'
  OBVIOUS
<1>1. CASE C!ObservedEnough
  <2>1. UNCHANGED convars
    BY <1>1 DEF C!ObservedEnough, C!vars, C!stdio, C!usart, C!bounds, convars
  <2> QED
    BY <2>1, ConsoleUnchanged
<1> QED
  BY <1>1, ConsoleUnchanged, ConsolePrintf, ConsoleWrite, ConsoleHardware
  DEF C!Next, C!Program

(* A step of the firmware is one of a part, and leaves the others alone.   *)
LEMMA PartSteps ==
  [FirmwareNext]_allvars =>
    /\ [Next]_vars /\ [S!Next]_startvars /\ [C!Next]_convars /\ [H!Next]_heapvars
BY DEF FirmwareNext, JudgeStep, InStart, InConsole, HeapStep, Judged, allvars

LEMMA PartInits == FirmwareInit => Init /\ S!Init /\ C!Init /\ H!Init
BY DEF FirmwareInit

(***************************************************************************)
(* __io_putchar, _write, HAL_UART_Transmit and the transmitter: what the   *)
(* host reads is what was printed, no byte lost, repeated or out of order, *)
(* and all of it once printf has returned; for any report, and wherever    *)
(* the board is reset.                                                     *)
(***************************************************************************)
THEOREM OutputIsKept == FirmwareSpec => []Output
<1>1. FirmwareInit => ConsoleInv
  BY PartInits, ConsoleInit
<1>2. ConsoleInv /\ [FirmwareNext]_allvars => ConsoleInv'
  BY PartSteps, ConsoleStep
<1>3. ConsoleInv => Output
  BY ConsoleOutput DEF Output
<1> QED
  BY <1>1, <1>2, <1>3, PTL DEF FirmwareSpec

(***************************************************************************)
(* The console of the firmware keeps the promise of ConsoleSpec: a byte is *)
(* taken only when the last has been delivered, and a reset loses the one  *)
(* on its way and no other.  (That the byte does leave is checked by TLC.) *)
(***************************************************************************)
THEOREM OneByteOnItsWay == FirmwareSpec => C!Promise!Safety
<1>1. FirmwareInit => ConsoleInv
  BY PartInits, ConsoleInit
<1>2. ConsoleInv /\ [FirmwareNext]_allvars => ConsoleInv'
  BY PartSteps, ConsoleStep
<1>3. FirmwareInit => C!Promise!Init
  BY PartInits DEF C!Init, C!Promise!Init
<1>4. ConsoleInv /\ [FirmwareNext]_allvars =>
        [C!Promise!Next]_<<IF DR # NoByte THEN DR ELSE shift, wire>>
  BY PartSteps, ConsoleRefines
<1> QED
  BY <1>1, <1>2, <1>3, <1>4, PTL DEF FirmwareSpec, C!Promise!Safety

-----------------------------------------------------------------------------
(***************************************************************************)
(* The start.  Its invariant relates three clocks: the time a wait has     *)
(* lasted, the ticks it has counted, and what is left of the running tick. *)
(* While the core runs at 16 MHz a tick takes three units of time and the  *)
(* sum is kept; when the clock has switched to 24 MHz, a unit takes half   *)
(* as much again from SysTick, but the wait sees the switch after two      *)
(* units at most.                                                          *)
(***************************************************************************)
TickSize == 2 ^ TickBits

(* S!Elapsed, what a wait compares with its limit.                         *)
TicksWaited == (uwTick - tickstart) % TickSize

(* The clock that is selected, and the one that runs.                      *)
ClockInv ==
  /\ SW \in {"HSI", "PLL"} /\ SWS \in {"HSI", SW}
  /\ startpc \notin {"switch", "prescalers", "UART", "app_main", "Error_Handler"} =>
       SW = "HSI"
  /\ startpc = "switch" => SW = "PLL"
  /\ startpc \in {"prescalers", "UART", "app_main"} => SWS = "PLL"

(* SysTick.                                                                *)
TickInv ==
  /\ startpc = "HAL_Init" => LOAD = 0 /\ VAL = 0
  /\ startpc \in {"UART", "app_main"} => LOAD = 9
  /\ startpc \notin {"HAL_Init", "UART", "app_main"} => LOAD = 6
  /\ startpc # "HAL_Init" => VAL \in 1 .. LOAD
  /\ startpc # "HAL_Init" /\ SWS = "HSI" => VAL \in {2, 4, 6}

(* What is computed from the clock.                                        *)
DerivedInv ==
  /\ SystemCoreClock = IF startpc \in {"UART", "app_main"} THEN 24 ELSE 16
  /\ PPRE1 \in {1, 2, 16} /\ BRR \in Nat
  /\ startpc \in {"UART", "app_main"} => PPRE1 = 2
  /\ startpc = "app_main" => BRR = 104

(* The units of time a wait has lasted since the clock switched.           *)
SinceSwitch == IF startpc = "switch" /\ answered # S!Never THEN waited - answered ELSE 0

(* A wait: its time, its ticks, and how long its answer can go unnoticed.  *)
TimesInv ==
  startpc \in S!Waits =>
    /\ TicksWaited <= S!Limit[startpc] + 1
    /\ polled => TicksWaited <= S!Limit[startpc]
    /\ TicksWaited = S!Limit[startpc] + 1 => VAL >= 4
    /\ \E v \in {2, 4, 6} : 2 * waited + VAL + SinceSwitch = 6 * TicksWaited + v

AnswerInv ==
  startpc \in S!Waits =>
    IF answered = S!Never THEN startpc = "switch" => SWS = "HSI"
    ELSE /\ \/ startpc = "HSE" /\ HSERDY
            \/ startpc = "PLL" /\ PLLRDY
            \/ startpc = "switch" /\ SWS = "PLL"
         /\ answered <= waited /\ waited <= answered + 2
         /\ read => waited <= answered + 1
         /\ read /\ polled => waited = answered
         /\ polled => waited <= answered + 1

GaveUpInv ==
  gaveUp # "none" =>
    /\ startpc = "Error_Handler"
    /\ waited \in 3 * S!Limit[gaveUp] .. 3 * (S!Limit[gaveUp] + 1) + 1
    /\ answered = S!Never \/ answered >= 3 * S!Limit[gaveUp] - 1

StartType ==
  /\ startpc \in S!Waits \cup
       {"HAL_Init", "HSE on", "PLL disable", "PLL enable", "HAL_RCC_ClockConfig",
        "prescalers", "UART", "app_main", "Error_Handler"}
  /\ read \in BOOLEAN /\ HSEON \in BOOLEAN /\ HSERDY \in BOOLEAN
  /\ PLLON \in BOOLEAN /\ PLLRDY \in BOOLEAN /\ polled \in BOOLEAN
  /\ uwTick \in 0 .. TickSize - 1 /\ tickstart \in 0 .. TickSize - 1
  /\ waited \in Nat /\ answered \in Nat \cup {S!Never}
  /\ gaveUp \in S!Waits \cup {"none"}

StartInv ==
  /\ StartType /\ ClockInv /\ TickInv /\ DerivedInv
  /\ TimesInv /\ AnswerInv /\ GaveUpInv

(* What the invariant says where the start is, as far as clocks go.        *)
LEMMA StartConstants ==
  /\ TickSize \in Nat \ {0}
  /\ \A w \in S!Waits : /\ S!Limit[w] \in Nat \ {0} /\ S!Limit[w] + 1 < TickSize
                        /\ 3 * S!Limit[w] + 6 <= S!LongestWait
  /\ S!LongestWait \in Nat
  /\ S!Never = -1 /\ S!MS = 3
<1>1. /\ S!Limit["HSE"] = HSE_TIMEOUT_VALUE
      /\ S!Limit["PLL off"] = PLL_TIMEOUT_VALUE
      /\ S!Limit["PLL"] = PLL_TIMEOUT_VALUE
      /\ S!Limit["switch"] = CLOCKSWITCH_TIMEOUT_VALUE
  BY DEF S!Limit, S!Waits
<1>2. TickBits \in Nat /\ \A w \in S!Waits : S!Limit[w] \in Nat \ {0} /\ S!Limit[w] + 1 < 2 ^ TickBits
  BY PartsAssumption DEF S!StartupAssumption
<1>3. /\ HSE_TIMEOUT_VALUE \in Nat \ {0} /\ PLL_TIMEOUT_VALUE \in Nat \ {0}
      /\ CLOCKSWITCH_TIMEOUT_VALUE \in Nat \ {0}
  BY <1>1, <1>2, Zenon DEF S!Waits
<1>4. \A w \in Nat : \A l \in Nat : l + 1 < 2 ^ w => 2 ^ w \in Nat \ {0}
  OBVIOUS
<1>5. TickSize \in Nat \ {0}
  BY <1>2, <1>4, Zenon DEF TickSize, S!Waits
<1>6. \A w \in S!Waits : S!Limit[w] \in {HSE_TIMEOUT_VALUE, PLL_TIMEOUT_VALUE, CLOCKSWITCH_TIMEOUT_VALUE}
  BY <1>1, Zenon DEF S!Waits
<1>7. /\ S!LongestWait =
           3 * (HSE_TIMEOUT_VALUE + PLL_TIMEOUT_VALUE + CLOCKSWITCH_TIMEOUT_VALUE)
      /\ S!Never = -1 /\ S!MS = 3
  BY DEF S!LongestWait, S!MS, S!Never
<1>8. \A l \in {HSE_TIMEOUT_VALUE, PLL_TIMEOUT_VALUE, CLOCKSWITCH_TIMEOUT_VALUE} :
        3 * l + 6 <= S!LongestWait
  BY <1>3, <1>7
<1>9. S!LongestWait \in Nat
  BY <1>3, <1>7
<1> QED
  BY <1>2, <1>5, <1>6, <1>7, <1>8, <1>9, Zenon DEF TickSize

LEMMA ClockValues ==
  /\ S!HCLK = IF SWS = "PLL" THEN 24 ELSE 16
  /\ S!HAL_RCC_GetSysClockFreq = IF SWS = "PLL" THEN 24 ELSE 16
  /\ 16 \div 8 = 2 /\ 24 \div 8 = 3
  /\ 24 \div 2 = 12 /\ S!UART_BRR_SAMPLING16(12) = 104
<1>1. (((8 * 72) \div 4) \div 6) = 24
  OBVIOUS
<1>2. S!UART_BRR_SAMPLING16(12) = 104
  <2>1. (12 * 1000000 * 25) \div (4 * 115200) = 651
    OBVIOUS
  <2>2. 651 \div 100 = 6 /\ ((651 - 6 * 100) * 16 + 50) \div 100 = 8 /\ 6 * 16 + 8 = 104
    OBVIOUS
  <2> QED
    BY <2>1, <2>2 DEF S!UART_BRR_SAMPLING16, S!BaudRate
<1> QED
  BY <1>1, <1>2 DEF S!HCLK, S!HAL_RCC_GetSysClockFreq, S!HSE_VALUE, S!HSI_VALUE,
                    S!PLLN, S!PLLM, S!PLLP

LEMMA WaitTables ==
  /\ S!Then("HSE") = "PLL disable" /\ S!Then("PLL off") = "PLL enable"
  /\ S!Then("PLL") = "HAL_RCC_ClockConfig" /\ S!Then("switch") = "prescalers"
  /\ S!Ready("HSE") <=> HSERDY
  /\ S!Ready("PLL") <=> PLLRDY
  /\ S!Ready("switch") <=> (SWS = SW)
BY DEF S!Then, S!Ready

LEMMA StartInit == S!Init => StartInv
<1> SUFFICES ASSUME S!Init PROVE StartInv
  OBVIOUS
<1>0. 0 \in 0 .. TickSize - 1
  BY StartConstants
<1> USE DEF S!Init
<1>1. StartType
  BY <1>0 DEF StartType
<1>2. ClockInv /\ TickInv /\ DerivedInv
  BY DEF ClockInv, TickInv, DerivedInv, S!HSI_VALUE
<1>3. TimesInv /\ AnswerInv /\ GaveUpInv
  BY DEF TimesInv, AnswerInv, GaveUpInv, S!Waits
<1> QED
  BY <1>1, <1>2, <1>3 DEF StartInv

LEMMA StartUnchanged == StartInv /\ UNCHANGED startvars => StartInv'
<1> SUFFICES ASSUME StartInv, UNCHANGED startvars PROVE StartInv'
  OBVIOUS
<1> USE DEF startvars
<1>a. StartType'
  BY ZenonT(60) DEF StartInv, StartType
<1>c. ClockInv'
  BY DEF StartInv, ClockInv
<1>b. TickInv' /\ DerivedInv'
  BY DEF StartInv, TickInv, DerivedInv
<1>2. TimesInv' /\ AnswerInv' /\ GaveUpInv'
  BY Zenon DEF StartInv, TimesInv, AnswerInv, GaveUpInv, TicksWaited, SinceSwitch
<1> QED
  BY <1>a, <1>b, <1>c, <1>2 DEF StartInv

(* A wait begins: no time has passed and no tick been counted.             *)
LEMMA WaitBegins ==
  ASSUME StartInv, startpc # "Error_Handler", NEW w \in S!Waits, S!Begin(w),
         UNCHANGED <<VAL, uwTick, SWS>>, SWS = "HSI", VAL \in {2, 4, 6}
  PROVE  TimesInv' /\ AnswerInv' /\ GaveUpInv'
<1>1. /\ startpc' = w /\ read' = FALSE /\ tickstart' = uwTick /\ polled' = TRUE
      /\ waited' = 0 /\ answered' = S!Never /\ gaveUp' = gaveUp
  BY DEF S!Begin
<1>2. uwTick \in 0 .. TickSize - 1 /\ TickSize \in Nat \ {0}
  BY StartConstants DEF StartInv, StartType
<1>3. TicksWaited' = 0
  <2>1. \A n \in Nat \ {0} : \A x \in 0 .. n - 1 : (x - x) % n = 0
    OBVIOUS
  <2>2. (uwTick - uwTick) % TickSize = 0
    BY <1>2, <2>1, Zenon
  <2> QED
    BY <1>1, <2>2 DEF TicksWaited, TickSize
<1>4. S!Limit[w] \in Nat \ {0}
  BY StartConstants
<1>5. SinceSwitch' = 0
  BY <1>1 DEF SinceSwitch, S!Never
<1>6. TimesInv'
  <2>1. \E v \in {2, 4, 6} : 2 * waited' + VAL' + SinceSwitch' = 6 * TicksWaited' + v
    BY <1>1, <1>3, <1>5
  <2>2. TicksWaited' <= S!Limit[w] + 1 /\ TicksWaited' <= S!Limit[w] /\ TicksWaited' # S!Limit[w] + 1
    BY <1>3, <1>4
  <2> QED
    BY <1>1, <2>1, <2>2, Zenon DEF TimesInv
<1>7. AnswerInv'
  BY <1>1 DEF AnswerInv, S!Never
<1>8. GaveUpInv'
  <2>1. gaveUp' = "none"
    BY <1>1 DEF StartInv, GaveUpInv
  <2> QED
    BY <2>1 DEF GaveUpInv
<1> QED
  BY <1>6, <1>7, <1>8

(* The program goes on without a wait.                                     *)
LEMMA WithoutWait ==
  ASSUME StartInv, startpc # "Error_Handler", startpc' \notin S!Waits, UNCHANGED gaveUp
  PROVE  TimesInv' /\ AnswerInv' /\ GaveUpInv'
<1>1. gaveUp' = "none"
  BY DEF StartInv, GaveUpInv
<1>2. startpc' \notin S!Waits'
  BY Zenon
<1> QED
  BY <1>1, <1>2, Zenon DEF TimesInv, AnswerInv, GaveUpInv

(* The steps of the processor between the waits.                           *)
LEMMA StartBegins ==
  StartInv /\ (S!HSEOn \/ S!PLLOff \/ S!PLLOn) => StartInv'
<1> SUFFICES ASSUME StartInv, S!HSEOn \/ S!PLLOff \/ S!PLLOn PROVE StartInv'
  OBVIOUS
<1>1. PICK w \in S!Waits :
        /\ S!Begin(w)
        /\ \/ startpc = "HSE on" /\ w = "HSE"
           \/ startpc = "PLL disable" /\ w = "PLL off"
           \/ startpc = "PLL enable" /\ w = "PLL"
        /\ HSEON' \in BOOLEAN /\ PLLON' \in BOOLEAN
        /\ UNCHANGED <<SystemCoreClock, HSERDY, PLLRDY, SW, SWS, PPRE1, LOAD, VAL, uwTick, BRR>>
  BY DEF S!HSEOn, S!PLLOff, S!PLLOn, S!Waits, S!systick, StartInv, StartType
<1>2. SW = "HSI" /\ SWS = "HSI" /\ VAL \in {2, 4, 6} /\ LOAD = 6 /\ VAL \in 1 .. LOAD
  BY <1>1 DEF StartInv, ClockInv, TickInv
<1>3. /\ startpc' = w /\ read' = FALSE /\ tickstart' = uwTick /\ polled' = TRUE
      /\ waited' = 0 /\ answered' = S!Never /\ gaveUp' = gaveUp
  BY <1>1 DEF S!Begin
<1>4. StartType'
  BY <1>1, <1>3, Zenon DEF StartInv, StartType
<1>5. ClockInv' /\ TickInv' /\ DerivedInv'
  BY <1>1, <1>2, <1>3 DEF StartInv, ClockInv, TickInv, DerivedInv
<1>6. TimesInv' /\ AnswerInv' /\ GaveUpInv'
  BY <1>1, <1>2, WaitBegins
<1> QED
  BY <1>4, <1>5, <1>6 DEF StartInv

LEMMA StartClockConfig == StartInv /\ S!ClockConfig => StartInv'
<1> SUFFICES ASSUME StartInv, S!ClockConfig PROVE StartInv'
  OBVIOUS
<1>1. /\ startpc = "HAL_RCC_ClockConfig" /\ PPRE1' = 16
      /\ UNCHANGED <<SystemCoreClock, HSEON, HSERDY, PLLON, PLLRDY, SWS, LOAD, VAL, uwTick, BRR>>
  BY DEF S!ClockConfig, S!systick
<1>2. SW = "HSI" /\ SWS = "HSI" /\ VAL \in {2, 4, 6} /\ LOAD = 6 /\ VAL \in 1 .. LOAD
  BY <1>1 DEF StartInv, ClockInv, TickInv
<1>3. CASE SW' = "PLL" /\ S!Begin("switch")
  <2>1. /\ startpc' = "switch" /\ read' = FALSE /\ tickstart' = uwTick /\ polled' = TRUE
        /\ waited' = 0 /\ answered' = S!Never /\ gaveUp' = gaveUp
    BY <1>3 DEF S!Begin
  <2>2. StartType'
    BY <1>1, <2>1 DEF StartInv, StartType, S!Waits
  <2>3. ClockInv' /\ TickInv' /\ DerivedInv'
    BY <1>1, <1>2, <1>3, <2>1 DEF StartInv, ClockInv, TickInv, DerivedInv
  <2>4. TimesInv' /\ AnswerInv' /\ GaveUpInv'
    BY <1>1, <1>2, <1>3, WaitBegins DEF S!Waits
  <2> QED
    BY <2>2, <2>3, <2>4 DEF StartInv
<1>4. CASE SW' = SW /\ S!GoOn("Error_Handler")
  <2>1. /\ startpc' = "Error_Handler"
        /\ UNCHANGED <<read, tickstart, polled, waited, answered, gaveUp>>
    BY <1>4 DEF S!GoOn, S!ghosts
  <2>2. StartType'
    BY <1>1, <2>1, Zenon DEF StartInv, StartType
  <2>3. ClockInv' /\ TickInv' /\ DerivedInv'
    BY <1>1, <1>2, <1>4, <2>1 DEF StartInv, ClockInv, TickInv, DerivedInv
  <2>4. TimesInv' /\ AnswerInv' /\ GaveUpInv'
    BY <1>1, <2>1, WithoutWait DEF S!Waits
  <2> QED
    BY <2>2, <2>3, <2>4 DEF StartInv
<1> QED
  BY <1>3, <1>4 DEF S!ClockConfig

LEMMA StartGoesOn ==
  StartInv /\ (S!InitHAL \/ S!ClockConfigEnds \/ S!MX_USART2_UART_Init) => StartInv'
<1> SUFFICES ASSUME StartInv, S!InitHAL \/ S!ClockConfigEnds \/ S!MX_USART2_UART_Init
             PROVE  StartInv'
  OBVIOUS
<1>1. /\ startpc \in {"HAL_Init", "prescalers", "UART"}
      /\ startpc' \in {"HSE on", "UART", "app_main"}
      /\ UNCHANGED <<HSEON, HSERDY, PLLON, PLLRDY, SW, SWS, uwTick,
                     read, tickstart, polled, waited, answered, gaveUp>>
  BY DEF S!InitHAL, S!ClockConfigEnds, S!MX_USART2_UART_Init, S!GoOn, S!ghosts,
         S!rcc, S!systick
<1>2. StartType'
  BY <1>1, Zenon DEF StartInv, StartType
<1>3. TimesInv' /\ AnswerInv' /\ GaveUpInv'
  BY <1>1, WithoutWait DEF S!Waits
<1>4. CASE S!InitHAL
  <2>1. SystemCoreClock = 16 /\ startpc = "HAL_Init"
    BY <1>4 DEF S!InitHAL, StartInv, DerivedInv
  <2>2. /\ startpc' = "HSE on" /\ LOAD' = 6 /\ VAL' = 6
        /\ UNCHANGED <<SystemCoreClock, PPRE1, BRR>>
    <3>1. 3 * (16 \div 8) = 6
      OBVIOUS
    <3> QED
      BY <1>4, <2>1, <3>1 DEF S!InitHAL, S!HAL_InitTick, S!GoOn, S!rcc, S!MS
  <2>3. ClockInv'
    BY <1>1, <2>1, <2>2 DEF StartInv, ClockInv
  <2>4. TickInv'
    <3>1. 6 \in 1 .. 6 /\ 6 \in {2, 4, 6}
      OBVIOUS
    <3> QED
      BY <2>2, <3>1, Zenon DEF TickInv
  <2>5. DerivedInv'
    BY <2>1, <2>2 DEF StartInv, DerivedInv
  <2> QED
    BY <1>2, <1>3, <2>3, <2>4, <2>5 DEF StartInv
<1>5. CASE S!ClockConfigEnds
  <2>1. SWS = "PLL" /\ SW = "PLL" /\ startpc = "prescalers"
    BY <1>5 DEF S!ClockConfigEnds, StartInv, ClockInv
  <2>2. /\ startpc' = "UART" /\ LOAD' = 9 /\ VAL' = 9 /\ PPRE1' = 2
        /\ SystemCoreClock' = 24 /\ BRR' = BRR
    BY <1>5, <2>1, ClockValues, StartConstants
    DEF S!ClockConfigEnds, S!HAL_InitTick, S!GoOn, S!APB1CLKDivider
  <2>3. ClockInv' /\ TickInv' /\ DerivedInv'
    BY <1>1, <2>1, <2>2 DEF StartInv, ClockInv, TickInv, DerivedInv
  <2> QED
    BY <1>2, <1>3, <2>3 DEF StartInv
<1>6. CASE S!MX_USART2_UART_Init
  <2>1. SWS = "PLL" /\ SW = "PLL" /\ startpc = "UART" /\ SystemCoreClock = 24 /\ PPRE1 = 2
    BY <1>6 DEF S!MX_USART2_UART_Init, StartInv, ClockInv, DerivedInv
  <2>2. /\ startpc' = "app_main" /\ BRR' = 104
        /\ UNCHANGED <<SystemCoreClock, PPRE1, LOAD, VAL>>
    BY <1>6, <2>1, ClockValues
    DEF S!MX_USART2_UART_Init, S!HAL_RCC_GetPCLK1Freq, S!GoOn, S!rcc, S!systick
  <2>3. ClockInv' /\ TickInv' /\ DerivedInv'
    BY <1>1, <2>1, <2>2 DEF StartInv, ClockInv, TickInv, DerivedInv
  <2> QED
    BY <1>2, <1>3, <2>3 DEF StartInv
<1> QED
  BY <1>4, <1>5, <1>6

(* A wait looks at its flag.                                               *)
LEMMA StartReadFlag == StartInv /\ S!ReadFlag => StartInv'
<1> SUFFICES ASSUME StartInv, S!ReadFlag PROVE StartInv'
  OBVIOUS
<1>1. /\ startpc \in S!Waits /\ read = FALSE
      /\ UNCHANGED <<tickstart, SystemCoreClock, HSEON, HSERDY, PLLON, PLLRDY, SW, SWS,
                     PPRE1, LOAD, VAL, uwTick, BRR, polled, waited, answered, gaveUp>>
  BY DEF S!ReadFlag, S!rcc, S!systick, S!ghosts, StartInv, StartType
<1>2. \/ S!Ready(startpc) /\ startpc' = S!Then(startpc) /\ read' = read
      \/ ~S!Ready(startpc) /\ startpc' = startpc /\ read' = TRUE
  BY DEF S!ReadFlag
<1>3. CASE S!Ready(startpc) /\ startpc' = S!Then(startpc) /\ read' = read
  <2>1. \/ startpc = "HSE" /\ startpc' = "PLL disable"
        \/ startpc = "PLL off" /\ startpc' = "PLL enable"
        \/ startpc = "PLL" /\ startpc' = "HAL_RCC_ClockConfig"
        \/ startpc = "switch" /\ startpc' = "prescalers" /\ SWS = SW
    BY <1>1, <1>3, WaitTables DEF S!Waits
  <2>2. StartType'
    BY <1>1, <1>3, <2>1, Zenon DEF StartInv, StartType
  <2>3. ClockInv' /\ TickInv' /\ DerivedInv'
    BY <1>1, <2>1 DEF StartInv, ClockInv, TickInv, DerivedInv
  <2>4. TimesInv' /\ AnswerInv' /\ GaveUpInv'
    BY <1>1, <2>1, WithoutWait DEF S!Waits
  <2> QED
    BY <2>2, <2>3, <2>4 DEF StartInv
<1>4. CASE ~S!Ready(startpc) /\ startpc' = startpc /\ read' = TRUE
  <2>1. StartType'
    BY <1>1, <1>4, Zenon DEF StartInv, StartType
  <2>2. ClockInv' /\ TickInv' /\ DerivedInv'
    BY <1>1, <1>4 DEF StartInv, ClockInv, TickInv, DerivedInv
  <2>3. answered = S!Never
    BY <1>1, <1>4, WaitTables DEF StartInv, AnswerInv, ClockInv
  <2>4. AnswerInv'
    BY <1>1, <1>4, <2>3, Zenon DEF StartInv, AnswerInv
  <2>5. TimesInv' /\ GaveUpInv'
    BY <1>1, <1>4, Zenon DEF StartInv, TimesInv, GaveUpInv, TicksWaited, SinceSwitch
  <2> QED
    BY <2>1, <2>2, <2>4, <2>5 DEF StartInv
<1> QED
  BY <1>2, <1>3, <1>4

LEMMA RemainderType ==
  \A n \in Nat \ {0} : \A x, y \in 0 .. n - 1 : (x - y) % n \in Nat
OBVIOUS

LEMMA StartState ==
  ASSUME StartInv
  PROVE  /\ uwTick \in 0 .. TickSize - 1 /\ tickstart \in 0 .. TickSize - 1
         /\ TickSize \in Nat \ {0} /\ TicksWaited \in Nat
         /\ waited \in Nat /\ answered \in Nat \cup {-1}
<1>1. TickSize \in Nat \ {0} /\ S!Never = -1
  BY StartConstants, Zenon
<1>2. /\ uwTick \in 0 .. TickSize - 1 /\ tickstart \in 0 .. TickSize - 1
      /\ waited \in Nat /\ answered \in Nat \cup {-1}
  BY <1>1, Zenon DEF StartInv, StartType
<1>3. TicksWaited \in Nat
  BY <1>1, <1>2, RemainderType, Zenon DEF TicksWaited
<1> QED
  BY <1>1, <1>2, <1>3, Zenon

(* How long a wait has lasted when its ticks have been counted.            *)
LEMMA TimeOfTicks ==
  ASSUME StartInv, startpc \in S!Waits
  PROVE  /\ waited \in Nat /\ waited <= 3 * (S!Limit[startpc] + 1) + 1
         /\ TicksWaited <= S!Limit[startpc] => waited <= 3 * S!Limit[startpc] + 2
         /\ TicksWaited > S!Limit[startpc] /\ read =>
              /\ waited >= 3 * S!Limit[startpc] + 1
              /\ answered = S!Never \/ answered >= 3 * S!Limit[startpc]
<1> PICK l \in Nat : l = S!Limit[startpc]
  BY StartConstants
<1> PICK e \in Nat : e = TicksWaited
  BY StartState, Zenon
<1>1. PICK v \in {2, 4, 6} : 2 * waited + VAL + SinceSwitch = 6 * e + v
  BY DEF StartInv, TimesInv
<1>2. e <= l + 1 /\ (e = l + 1 => VAL >= 4)
  BY DEF StartInv, TimesInv
<1>3. waited \in Nat /\ VAL \in 1 .. 6 /\ answered \in Nat \cup {-1}
  BY StartConstants DEF StartInv, StartType, TickInv, S!Waits
<1>4. SinceSwitch \in Nat /\ (read => SinceSwitch <= 1)
  BY <1>3, StartConstants DEF StartInv, AnswerInv, SinceSwitch
<1>5. read => answered = S!Never \/ waited <= answered + 1
  BY DEF StartInv, AnswerInv
<1>6. /\ waited <= 3 * (l + 1) + 1
      /\ e <= l => waited <= 3 * l + 2
      /\ e > l /\ read => waited >= 3 * l + 1
  BY <1>1, <1>2, <1>3, <1>4
<1>7. e > l /\ read => answered = S!Never \/ answered >= 3 * l
  BY <1>3, <1>5, <1>6, StartConstants
<1> QED
  BY <1>3, <1>6, <1>7

(* A wait looks at the clock: it goes on, or has had its time.             *)
LEMMA StartReadClock == StartInv /\ S!ReadClock => StartInv'
<1> SUFFICES ASSUME StartInv, S!ReadClock PROVE StartInv'
  OBVIOUS
<1>1. /\ startpc \in S!Waits /\ read = TRUE /\ polled' = TRUE /\ read' = FALSE
      /\ UNCHANGED <<tickstart, SystemCoreClock, HSEON, HSERDY, PLLON, PLLRDY, SW, SWS,
                     PPRE1, LOAD, VAL, uwTick, BRR, waited, answered>>
  BY DEF S!ReadClock, S!rcc, S!systick, StartInv, StartType
<1>2. \/ TicksWaited > S!Limit[startpc] /\ startpc' = "Error_Handler" /\ gaveUp' = startpc
      \/ ~(TicksWaited > S!Limit[startpc]) /\ startpc' = startpc /\ gaveUp' = gaveUp
  BY DEF S!ReadClock, S!Elapsed, TicksWaited, TickSize
<1>3. TicksWaited \in Nat /\ S!Limit[startpc] \in Nat \ {0}
  BY <1>1, StartState, StartConstants, Zenon
<1>4. CASE TicksWaited > S!Limit[startpc] /\ startpc' = "Error_Handler" /\ gaveUp' = startpc
  <2>1. StartType'
    BY <1>1, <1>4, Zenon DEF StartInv, StartType
  <2>2. ClockInv' /\ TickInv' /\ DerivedInv'
    BY <1>1, <1>4 DEF StartInv, ClockInv, TickInv, DerivedInv, S!Waits
  <2>3. TimesInv' /\ AnswerInv'
    BY <1>4 DEF TimesInv, AnswerInv, S!Waits
  <2>4. PICK l \in Nat \ {0} : l = S!Limit[startpc]
    BY <1>3
  <2>5. /\ waited \in Nat /\ waited <= 3 * (l + 1) + 1 /\ waited >= 3 * l + 1
        /\ answered = S!Never \/ answered >= 3 * l
    BY <1>1, <1>4, <2>4, TimeOfTicks, Zenon
  <2>6. waited \in 3 * l .. 3 * (l + 1) + 1
    BY <2>5
  <2>7. answered = S!Never \/ answered >= 3 * l - 1
    BY <2>5, StartState
  <2>8. GaveUpInv'
    BY <1>1, <1>4, <2>4, <2>6, <2>7, Zenon DEF GaveUpInv
  <2> QED
    BY <2>1, <2>2, <2>3, <2>8 DEF StartInv
<1>5. CASE ~(TicksWaited > S!Limit[startpc]) /\ startpc' = startpc /\ gaveUp' = gaveUp
  <2>1. StartType'
    BY <1>1, <1>5, Zenon DEF StartInv, StartType
  <2>2. ClockInv' /\ TickInv' /\ DerivedInv'
    BY <1>1, <1>5 DEF StartInv, ClockInv, TickInv, DerivedInv
  <2>3. TicksWaited <= S!Limit[startpc]
    BY <1>3, <1>5
  <2>4. TicksWaited' = TicksWaited /\ SinceSwitch' = SinceSwitch /\ VAL' = VAL /\ waited' = waited
    BY <1>1, <1>5, Zenon DEF TicksWaited, SinceSwitch
  <2>5. TimesInv'
    BY <1>1, <1>5, <2>3, <2>4, Zenon DEF StartInv, TimesInv
  <2>6. read /\ answered # S!Never => waited <= answered + 1
    BY <1>1, Zenon DEF StartInv, AnswerInv
  <2>7. AnswerInv'
    BY <1>1, <1>5, <2>6, Zenon DEF StartInv, AnswerInv
  <2>8. GaveUpInv'
    BY <1>1, <1>5, Zenon DEF StartInv, GaveUpInv
  <2> QED
    BY <2>1, <2>2, <2>5, <2>7, <2>8 DEF StartInv
<1> QED
  BY <1>2, <1>4, <1>5

(* The hardware answers; only a wait for this answer takes note of it.     *)
LEMMA AnswerComes ==
  ASSUME StartInv, NEW w \in {"HSE", "PLL", "switch"}, S!Answer(w),
         UNCHANGED <<startpc, read, tickstart, LOAD, VAL, uwTick, polled, waited, gaveUp>>,
         startpc = w => answered = S!Never,
         (HSERDY => HSERDY') /\ (PLLRDY => PLLRDY'),
         w = "HSE" => HSERDY', w = "PLL" => PLLRDY',
         startpc = "switch" /\ w # "switch" => SWS' = SWS,
         startpc = "switch" /\ w = "switch" => SWS' = "PLL"
  PROVE  TimesInv' /\ AnswerInv' /\ GaveUpInv' /\ answered' \in Nat \cup {S!Never}
<1>s. waited \in Nat /\ answered \in Nat \cup {-1} /\ S!Never = -1
  BY StartState, StartConstants
<1>1. CASE startpc = w
  <2>1. answered = S!Never /\ answered' = waited /\ answered' # S!Never
    BY <1>1, <1>s DEF S!Answer
  <2>2. SinceSwitch = 0 /\ SinceSwitch' = 0
    BY <1>s, <2>1 DEF SinceSwitch
  <2>3. TimesInv'
    BY <2>2, Zenon DEF StartInv, TimesInv, TicksWaited
  <2>4. AnswerInv'
    <3>1. waited <= waited /\ waited <= waited + 1 /\ waited <= waited + 2
      BY <1>s
    <3>2. \/ startpc = "HSE" /\ HSERDY'
          \/ startpc = "PLL" /\ PLLRDY'
          \/ startpc = "switch" /\ SWS' = "PLL"
      BY <1>1
    <3> QED
      BY <2>1, <3>1, <3>2, Zenon DEF AnswerInv
  <2>5. GaveUpInv'
    <3>1. gaveUp' = "none"
      BY <1>1 DEF StartInv, GaveUpInv
    <3> QED
      BY <3>1, Zenon DEF GaveUpInv
  <2> QED
    BY <1>s, <2>1, <2>3, <2>4, <2>5, Zenon
<1>2. CASE startpc # w
  <2>1. answered' = answered
    BY <1>2 DEF S!Answer
  <2>2. TimesInv' /\ GaveUpInv'
    BY <2>1, Zenon DEF StartInv, TimesInv, GaveUpInv, TicksWaited, SinceSwitch
  <2>3. AnswerInv'
    BY <1>2, <2>1, Zenon DEF StartInv, AnswerInv
  <2> QED
    BY <1>s, <2>1, <2>2, <2>3, Zenon
<1> QED
  BY <1>1, <1>2

LEMMA StartHardware == StartInv /\ S!Hardware => StartInv'
<1> SUFFICES ASSUME StartInv, S!Hardware PROVE StartInv'
  OBVIOUS
<1>t. HSERDY \in BOOLEAN /\ PLLRDY \in BOOLEAN
  BY DEF StartInv, StartType
<1>1. CASE S!HSEStarts
  <2>1. /\ HSERDY = FALSE /\ HSERDY' = TRUE /\ S!Answer("HSE")
        /\ UNCHANGED <<startpc, read, tickstart, SystemCoreClock, HSEON, PLLON, PLLRDY, SW,
                       SWS, PPRE1, LOAD, VAL, uwTick, BRR, polled, waited, gaveUp>>
    BY <1>1, <1>t DEF S!HSEStarts, S!systick
  <2>2. startpc = "HSE" => answered = S!Never
    BY <2>1 DEF StartInv, AnswerInv, S!Waits
  <2>3. TimesInv' /\ AnswerInv' /\ GaveUpInv' /\ answered' \in Nat \cup {S!Never}
    BY <2>1, <2>2, AnswerComes
  <2>4. StartType'
    BY <2>1, <2>3, Zenon DEF StartInv, StartType
  <2>5. ClockInv' /\ TickInv' /\ DerivedInv'
    BY <2>1 DEF StartInv, ClockInv, TickInv, DerivedInv
  <2> QED
    BY <2>3, <2>4, <2>5 DEF StartInv
<1>2. CASE S!PLLLocks
  <2>1. /\ PLLRDY = FALSE /\ PLLRDY' = TRUE /\ S!Answer("PLL")
        /\ UNCHANGED <<startpc, read, tickstart, SystemCoreClock, HSEON, HSERDY, PLLON, SW,
                       SWS, PPRE1, LOAD, VAL, uwTick, BRR, polled, waited, gaveUp>>
    BY <1>2, <1>t DEF S!PLLLocks, S!systick
  <2>2. startpc = "PLL" => answered = S!Never
    BY <2>1 DEF StartInv, AnswerInv, S!Waits
  <2>3. TimesInv' /\ AnswerInv' /\ GaveUpInv' /\ answered' \in Nat \cup {S!Never}
    BY <2>1, <2>2, AnswerComes
  <2>4. StartType'
    BY <2>1, <2>3, Zenon DEF StartInv, StartType
  <2>5. ClockInv' /\ TickInv' /\ DerivedInv'
    BY <2>1 DEF StartInv, ClockInv, TickInv, DerivedInv
  <2> QED
    BY <2>3, <2>4, <2>5 DEF StartInv
<1>3. CASE S!ClockSwitches
  <2>1. /\ SW # SWS /\ SWS' = SW /\ S!Answer("switch")
        /\ UNCHANGED <<startpc, read, tickstart, SystemCoreClock, HSEON, HSERDY, PLLON,
                       PLLRDY, SW, PPRE1, LOAD, VAL, uwTick, BRR, polled, waited, gaveUp>>
    BY <1>3 DEF S!ClockSwitches, S!systick
  <2>2. SW = "PLL" /\ SWS = "HSI" /\ startpc \in {"switch", "Error_Handler"}
    BY <2>1 DEF StartInv, StartType, ClockInv, S!Waits
  <2>3. startpc = "switch" => answered = S!Never
    BY <2>2 DEF StartInv, AnswerInv, S!Waits
  <2>4. TimesInv' /\ AnswerInv' /\ GaveUpInv' /\ answered' \in Nat \cup {S!Never}
    BY <2>1, <2>2, <2>3, AnswerComes
  <2>5. StartType'
    BY <2>1, <2>4, Zenon DEF StartInv, StartType
  <2>6. ClockInv' /\ TickInv' /\ DerivedInv'
    BY <2>1, <2>2 DEF StartInv, ClockInv, TickInv, DerivedInv
  <2> QED
    BY <2>4, <2>5, <2>6 DEF StartInv
<1> QED
  BY <1>1, <1>2, <1>3 DEF S!Hardware

(* One more tick, wherever the counter wraps.                              *)
LEMMA OneMoreTick ==
  ASSUME NEW n \in Nat \ {0}, NEW t \in 0 .. n - 1, NEW s \in 0 .. n - 1
  PROVE  /\ (t + 1) % n \in 0 .. n - 1
         /\ ((t - s) % n) + 1 < n => (((t + 1) % n) - s) % n = ((t - s) % n) + 1
<1>1. \A x \in 0 .. n - 1 : x % n = x
  OBVIOUS
<1>2. \A x \in -n .. -1 : x % n = x + n
  OBVIOUS
<1>3. n % n = 0
  OBVIOUS
<1>4. (t + 1) % n = IF t + 1 = n THEN 0 ELSE t + 1
  BY <1>1, <1>3
<1>5. (t - s) % n = IF t >= s THEN t - s ELSE t - s + n
  <2>1. t - s \in 0 .. n - 1 \/ t - s \in -n .. -1
    OBVIOUS
  <2> QED
    BY <1>1, <1>2, <2>1
<1>6. CASE t + 1 = n
  <2>1. (t + 1) % n = 0 /\ (t - s) % n = n - 1 - s
    BY <1>4, <1>5, <1>6
  <2>2. s # 0 => (0 - s) % n = n - s
    BY <1>2
  <2> QED
    BY <1>4, <2>1, <2>2
<1>7. CASE t + 1 # n /\ t >= s
  <2>1. t + 1 - s \in 0 .. n - 1
    BY <1>7
  <2> QED
    BY <1>1, <1>4, <1>5, <1>7, <2>1
<1>8. CASE t + 1 # n /\ t < s
  <2>1. (t - s) % n = t - s + n /\ (t + 1) % n = t + 1
    BY <1>4, <1>5, <1>8
  <2>2. CASE t + 1 - s \in -n .. -1
    BY <1>2, <2>1, <2>2
  <2>3. CASE t + 1 = s
    BY <2>1, <2>3
  <2> QED
    BY <1>8, <2>2, <2>3
<1> QED
  BY <1>6, <1>7, <1>8

(* What a unit of time takes from SysTick.                                 *)
UnitOfTime == IF SWS = "PLL" THEN 3 ELSE 2

LEMMA TimePasses ==
  ASSUME StartInv, S!Time
  PROVE  /\ startpc \in S!Waits => polled
         /\ \/ /\ LOAD = 0 \/ VAL - UnitOfTime > 0
               /\ VAL' = (IF LOAD = 0 THEN VAL ELSE VAL - UnitOfTime) /\ uwTick' = uwTick
            \/ /\ LOAD # 0 /\ VAL - UnitOfTime <= 0 /\ VAL' = VAL - UnitOfTime + LOAD
               /\ uwTick' = IF startpc = "Error_Handler" THEN uwTick ELSE (uwTick + 1) % TickSize
         /\ polled' = FALSE
         /\ waited' = IF startpc \in S!Waits /\ waited < S!LongestWait THEN waited + 1
                      ELSE waited
         /\ UNCHANGED <<startpc, read, tickstart, SystemCoreClock, HSEON, HSERDY, PLLON, PLLRDY,
                        SW, SWS, PPRE1, LOAD, BRR, answered, gaveUp>>
<1>1. S!HCLK \div 8 = UnitOfTime
  BY ClockValues DEF UnitOfTime
<1>2. VAL \in Nat /\ UnitOfTime \in Nat
  BY DEF StartInv, TickInv, UnitOfTime
<1> QED
  BY <1>1, <1>2 DEF S!Time, S!IncTick, S!rcc, TickSize

LEMMA StartTime == StartInv /\ S!Time => StartInv'
<1> SUFFICES ASSUME StartInv, S!Time PROVE StartInv'
  OBVIOUS
<1>1. /\ startpc \in S!Waits => polled
      /\ \/ /\ LOAD = 0 \/ VAL - UnitOfTime > 0
            /\ VAL' = (IF LOAD = 0 THEN VAL ELSE VAL - UnitOfTime) /\ uwTick' = uwTick
         \/ /\ LOAD # 0 /\ VAL - UnitOfTime <= 0 /\ VAL' = VAL - UnitOfTime + LOAD
            /\ uwTick' = IF startpc = "Error_Handler" THEN uwTick ELSE (uwTick + 1) % TickSize
      /\ polled' = FALSE
      /\ waited' = IF startpc \in S!Waits /\ waited < S!LongestWait THEN waited + 1
                   ELSE waited
      /\ UNCHANGED <<startpc, read, tickstart, SystemCoreClock, HSEON, HSERDY, PLLON, PLLRDY,
                     SW, SWS, PPRE1, LOAD, BRR, answered, gaveUp>>
  BY TimePasses, Zenon
<1>s. /\ uwTick \in 0 .. TickSize - 1 /\ tickstart \in 0 .. TickSize - 1
      /\ TickSize \in Nat \ {0} /\ TicksWaited \in Nat
      /\ waited \in Nat /\ answered \in Nat \cup {-1} /\ S!Never = -1
  BY StartState, StartConstants, Zenon
<1>2. uwTick' \in 0 .. TickSize - 1 /\ waited' \in Nat
  <2>1. (uwTick + 1) % TickSize \in 0 .. TickSize - 1
    BY <1>s, OneMoreTick, Zenon
  <2>2. waited + 1 \in Nat
    BY <1>s
  <2> QED
    BY <1>1, <1>s, <2>1, <2>2, Zenon
<1>3. StartType'
  BY <1>1, <1>2, Zenon DEF StartInv, StartType
<1>4. ClockInv' /\ DerivedInv'
  BY <1>1 DEF StartInv, ClockInv, DerivedInv
<1>5. TickInv'
  <2>1. CASE startpc = "HAL_Init"
    BY <1>1, <2>1 DEF StartInv, TickInv
  <2>2. CASE startpc # "HAL_Init"
    <3>1. LOAD \in {6, 9} /\ VAL \in 1 .. LOAD /\ LOAD # 0
      BY <2>2 DEF StartInv, TickInv
    <3>2. VAL' \in 1 .. LOAD
      BY <1>1, <3>1 DEF UnitOfTime
    <3>3. SWS = "HSI" => VAL' \in {2, 4, 6}
      <4> HAVE SWS = "HSI"
      <4>1. VAL \in {2, 4, 6} /\ LOAD = 6 /\ UnitOfTime = 2
        BY <2>2 DEF StartInv, StartType, TickInv, ClockInv, UnitOfTime, S!Waits
      <4> QED
        BY <1>1, <4>1
    <3> QED
      BY <1>1, <2>2, <3>2, <3>3 DEF StartInv, TickInv
  <2> QED
    BY <2>1, <2>2
<1>6. CASE startpc \notin S!Waits
  <2>1. startpc' \notin S!Waits /\ waited' = waited
    BY <1>1, <1>6, Zenon
  <2>2. TimesInv' /\ AnswerInv'
    BY <2>1, Zenon DEF TimesInv, AnswerInv
  <2>3. GaveUpInv'
    BY <1>1, <2>1, Zenon DEF StartInv, GaveUpInv
  <2> QED
    BY <1>3, <1>4, <1>5, <2>2, <2>3 DEF StartInv
<1>7. CASE startpc \in S!Waits
  <2>1. polled /\ LOAD = 6 /\ VAL \in 1 .. 6 /\ startpc # "Error_Handler"
    BY <1>1, <1>7 DEF StartInv, TickInv, S!Waits
  <2>2. PICK l \in Nat \ {0} : l = S!Limit[startpc]
    BY <1>7, StartConstants
  <2>3. l + 1 < TickSize /\ 3 * l + 6 <= S!LongestWait /\ S!LongestWait \in Nat
    BY <1>7, <2>2, StartConstants, Zenon
  <2>4. PICK e \in Nat : e = TicksWaited
    BY <1>s
  <2>5. e <= l /\ waited <= 3 * l + 2
    <3>1. e <= l
      BY <1>7, <2>1, <2>2, <2>4, Zenon DEF StartInv, TimesInv
    <3> QED
      BY <1>7, <2>2, <2>4, <3>1, TimeOfTicks, Zenon
  <2>6. waited' = waited + 1
    BY <1>1, <1>7, <1>s, <2>3, <2>5
  <2>7. PICK v \in {2, 4, 6} : 2 * waited + VAL + SinceSwitch = 6 * e + v
    BY <1>7, <2>4 DEF StartInv, TimesInv
  <2>8. /\ SinceSwitch \in Nat /\ SinceSwitch' \in Nat
        /\ SinceSwitch' + 2 = SinceSwitch + UnitOfTime
    <3>1. CASE startpc = "switch" /\ answered # S!Never
      <4>1. SWS = "PLL" /\ answered <= waited
        BY <3>1 DEF StartInv, AnswerInv, S!Waits
      <4> QED
        BY <1>1, <1>s, <2>6, <3>1, <4>1 DEF SinceSwitch, UnitOfTime
    <3>2. CASE ~(startpc = "switch" /\ answered # S!Never)
      <4>1. SWS = "HSI"
        BY <1>7, <3>2 DEF StartInv, AnswerInv, ClockInv, S!Waits
      <4> QED
        BY <1>1, <3>2, <4>1 DEF SinceSwitch, UnitOfTime
    <3> QED
      BY <3>1, <3>2
  <2>9. \/ VAL' = VAL - UnitOfTime /\ TicksWaited' = e
        \/ VAL' = VAL - UnitOfTime + 6 /\ TicksWaited' = e + 1 /\ VAL - UnitOfTime <= 0
    <3>1. CASE VAL' = VAL - UnitOfTime /\ uwTick' = uwTick
      BY <1>1, <2>4, <3>1 DEF TicksWaited, TickSize
    <3>2. CASE VAL' = VAL - UnitOfTime + 6 /\ uwTick' = (uwTick + 1) % TickSize
               /\ VAL - UnitOfTime <= 0
      <4>1. (uwTick - tickstart) % TickSize = e
        BY <2>4 DEF TicksWaited
      <4>2. e + 1 < TickSize
        BY <1>s, <2>3, <2>5
      <4>3. (((uwTick + 1) % TickSize) - tickstart) % TickSize = e + 1
        BY <1>s, <4>1, <4>2, OneMoreTick, Zenon
      <4>4. TicksWaited' = e + 1
        BY <1>1, <3>2, <4>3, Zenon DEF TicksWaited
      <4> QED
        BY <3>2, <4>4
    <3>3. LOAD = 6 /\ LOAD # 0 /\ startpc # "Error_Handler"
      BY <2>1
    <3> QED
      BY <1>1, <3>1, <3>2, <3>3, Zenon
  <2>10. 2 * waited' + VAL' + SinceSwitch' = 6 * TicksWaited' + v
    <3>1. PICK w \in Nat : w = waited
      BY <1>s
    <3>2. PICK x \in 1 .. 6 : x = VAL
      BY <2>1
    <3>3. PICK d \in {2, 3} : d = UnitOfTime
      BY DEF UnitOfTime
    <3>4. PICK s \in Nat : s = SinceSwitch
      BY <2>8
    <3>5. PICK t \in Nat : t = SinceSwitch'
      BY <2>8
    <3>6. 2 * w + x + s = 6 * e + v /\ t + 2 = s + d
      BY <2>7, <2>8, <3>1, <3>2, <3>3, <3>4, <3>5, Zenon
    <3>7. /\ 2 * (w + 1) + (x - d) + t = 6 * e + v
          /\ 2 * (w + 1) + (x - d + 6) + t = 6 * (e + 1) + v
      BY <3>6
    <3> QED
      BY <2>6, <2>9, <3>1, <3>2, <3>3, <3>4, <3>5, <3>7, Zenon
  <2>11. TicksWaited' <= l + 1 /\ (TicksWaited' = l + 1 => VAL' >= 4)
    BY <2>1, <2>5, <2>9 DEF UnitOfTime
  <2>12. TimesInv'
    BY <1>1, <2>2, <2>10, <2>11, Zenon DEF TimesInv
  <2>13. AnswerInv'
    <3>1. CASE answered = S!Never
      BY <1>1, <1>7, <3>1, Zenon DEF StartInv, AnswerInv
    <3>2. CASE answered # S!Never
      <4>1. /\ answered <= waited /\ waited <= answered + 1 /\ (read => waited = answered)
            /\ \/ startpc = "HSE" /\ HSERDY
               \/ startpc = "PLL" /\ PLLRDY
               \/ startpc = "switch" /\ SWS = "PLL"
        BY <1>7, <2>1, <3>2, Zenon DEF StartInv, AnswerInv
      <4>2. answered <= waited' /\ waited' <= answered + 2 /\ (read => waited' <= answered + 1)
        BY <1>s, <2>6, <3>2, <4>1
      <4> QED
        BY <1>1, <1>7, <3>2, <4>1, <4>2, Zenon DEF AnswerInv
    <3> QED
      BY <3>1, <3>2
  <2>14. GaveUpInv'
    <3>1. gaveUp' = "none"
      BY <1>1, <2>1 DEF StartInv, GaveUpInv
    <3> QED
      BY <3>1, Zenon DEF GaveUpInv
  <2> QED
    BY <1>3, <1>4, <1>5, <2>12, <2>13, <2>14 DEF StartInv
<1> QED
  BY <1>6, <1>7

LEMMA StartStep == StartInv /\ [S!Next]_startvars => StartInv'
BY StartUnchanged, StartBegins, StartClockConfig, StartGoesOn, StartReadFlag,
   StartReadClock, StartHardware, StartTime, Zenon DEF S!Next, S!Processor

(* The invariant says that clocks agree, and that waits are given up in    *)
(* time.                                                                   *)
LEMMA StartIsSound == StartInv => StartSound
<1> SUFFICES ASSUME StartInv PROVE S!ClocksAgree /\ S!GivenUpInTime
  BY DEF StartSound
<1>1. S!ClocksAgree
  <2> SUFFICES ASSUME startpc = "app_main" PROVE S!ClocksAgree
    BY DEF S!ClocksAgree
  <2>1. SWS = "PLL" /\ SystemCoreClock = 24 /\ LOAD = 9 /\ PPRE1 = 2 /\ BRR = 104
    BY DEF StartInv, ClockInv, TickInv, DerivedInv
  <2>2. S!HCLK = 24 /\ S!HCLK \div PPRE1 = 12 /\ S!MS * (S!HCLK \div 8) = 9
    <3>1. 24 \div 2 = 12 /\ 3 * (24 \div 8) = 9
      OBVIOUS
    <3>2. S!HCLK = 24
      BY <2>1, ClockValues
    <3> QED
      BY <2>1, <3>1, <3>2 DEF S!MS
  <2>3. /\ 100 * ((12 * 1000000) \div 104) <= 102 * 115200
        /\ 100 * ((12 * 1000000) \div 104) >= 98 * 115200
    <3>1. (12 * 1000000) \div 104 = 115384
      OBVIOUS
    <3> QED
      BY <3>1
  <2> QED
    BY <2>1, <2>2, <2>3 DEF S!ClocksAgree, S!BaudRate
<1>2. S!GivenUpInTime
  <2>1. S!MS = 3
    BY DEF S!MS
  <2>2. startpc \in S!Waits => waited <= 3 * (S!Limit[startpc] + 1) + 1
    BY TimeOfTicks, Zenon
  <2> QED
    BY <2>1, <2>2, Zenon DEF StartInv, GaveUpInv, S!GivenUpInTime
<1> QED
  BY <1>1, <1>2

LEMMA StartTypes == StartInv => S!TypeOK
<1> SUFFICES ASSUME StartInv PROVE S!TypeOK
  OBVIOUS
<1>1. startpc \in S!Waits \cup {S!Then(w) : w \in S!Waits} \cup
        {"HAL_Init", "HSE on", "UART", "app_main", "Error_Handler"}
  <2>1. {"PLL disable", "PLL enable", "HAL_RCC_ClockConfig", "prescalers"}
          \subseteq {S!Then(w) : w \in S!Waits}
    BY WaitTables DEF S!Waits
  <2> QED
    BY <2>1 DEF StartInv, StartType
<1>2. {read, HSEON, HSERDY, PLLON, PLLRDY, polled} \subseteq BOOLEAN
  BY Zenon DEF StartInv, StartType
<1>3. {SW, SWS} \subseteq {"HSI", "PLL"} /\ PPRE1 \in {1, 2, 16}
  BY DEF StartInv, ClockInv, DerivedInv
<1>4. {tickstart, uwTick} \subseteq 0 .. 2 ^ TickBits - 1
  BY Zenon DEF StartInv, StartType, TickSize
<1>5. VAL \in Nat /\ LOAD \in Nat /\ VAL <= LOAD
  <2>1. CASE startpc = "HAL_Init"
    BY <2>1 DEF StartInv, TickInv
  <2>2. CASE startpc # "HAL_Init"
    BY <2>2 DEF StartInv, TickInv
  <2> QED
    BY <2>1, <2>2
<1>6. SystemCoreClock \in Nat /\ BRR \in Nat /\ waited \in Nat
  BY DEF StartInv, DerivedInv, StartType
<1>7. answered \in Nat \cup {S!Never} /\ gaveUp \in S!Waits \cup {"none"}
  BY Zenon DEF StartInv, StartType
<1> QED
  BY <1>1, <1>2, <1>3, <1>4, <1>5, <1>6, <1>7, Zenon DEF S!TypeOK

(***************************************************************************)
(* SystemClock_Config and the waits of the HAL: whatever was computed      *)
(* while another clock ran, SystemCoreClock, the tick and the baud rate    *)
(* agree in app_main; and a wait is given up when its limit is over, at    *)
(* most a tick and a turn of the loop later, and refuses no answer that    *)
(* came in time, for any limits and any width of uwTick that holds them,   *)
(* whenever the hardware answers or if it never does.                      *)
(***************************************************************************)
THEOREM StartIsSafe == FirmwareSpec => []StartSound
<1>1. FirmwareInit => StartInv
  BY PartInits, StartInit
<1>2. StartInv /\ [FirmwareNext]_allvars => StartInv'
  BY PartSteps, StartStep
<1> QED
  BY <1>1, <1>2, StartIsSound, PTL DEF FirmwareSpec

-----------------------------------------------------------------------------
(***************************************************************************)
(* Sums over finite sets, as MapThenSumSet of the community modules takes  *)
(* them: a recursive function over the subsets, which removes an element   *)
(* that it chooses.  That the order makes no difference is SumRemove.      *)
(***************************************************************************)
(* Every non-empty set of naturals has a least element.                    *)
LEMMA LeastOf ==
  ASSUME NEW A \in SUBSET Nat, A # {}
  PROVE  \E x \in A : \A y \in A : x <= y
<1>1. PICK x \in A : \A y \in A : ~ (<<y, x>> \in OpToRel(<, Nat))
  BY NatLessThanWellFounded, WFMin, Zenon
<1>2. \A y \in A : y < x => <<y, x>> \in OpToRel(<, Nat)
  BY DEF OpToRel
<1>3. \A y \in A : ~ (y < x)
  BY <1>1, <1>2, Zenon
<1>4. \A y \in A : y \in Nat /\ x \in Nat
  OBVIOUS
<1>5. \A y \in A : x <= y
  BY <1>3, <1>4, SMT
<1> QED
  BY <1>5

(* Induction, for a claim given as the set of the numbers it holds of.     *)
LEMMA CountInduction ==
  ASSUME NEW T, 0 \in T, \A n \in Nat : n \in T => n + 1 \in T
  PROVE  Nat \subseteq T
<1> DEFINE Bad == Nat \ T
<1> SUFFICES ASSUME Bad # {} PROVE FALSE
  OBVIOUS
<1>1. Bad \in SUBSET Nat
  OBVIOUS
<1>2. PICK x \in Bad : \A y \in Bad : x <= y
  <2> HIDE DEF Bad
  <2> QED  BY <1>1, LeastOf, Zenon
<1>3. x \in Nat /\ x # 0 /\ x \notin T
  OBVIOUS
<1>4. x - 1 \in Nat /\ x - 1 \in T
  BY <1>2, <1>3
<1>5. (x - 1) + 1 \in T
  BY <1>4
<1> QED
  BY <1>3, <1>5

Chosen(s) == CHOOSE x \in s : TRUE

Sum(f, A) == MapThenSumSet(LAMBDA x : f[x], A)

(* g is the recursive function over the subsets of A that Sum applies.     *)
Adds(f, A, g) ==
  g = [s \in SUBSET A |->
         IF s = {} THEN 0 ELSE f[Chosen(s)] + g[s \ {Chosen(s)}]]

(* The element that is taken next.                                         *)
LEMMA ChosenFacts ==
  ASSUME NEW s, IsFiniteSet(s), s # {}
  PROVE  /\ Chosen(s) \in s
         /\ IsFiniteSet(s \ {Chosen(s)})
         /\ Cardinality(s) \in Nat /\ Cardinality(s \ {Chosen(s)}) \in Nat
         /\ Cardinality(s) = Cardinality(s \ {Chosen(s)}) + 1
<1>1. Chosen(s) \in s
  BY DEF Chosen
<1>2. IsFiniteSet(s \ {Chosen(s)}) /\ Cardinality(s \ {Chosen(s)}) = Cardinality(s) - 1
  BY <1>1, FS_RemoveElement
<1>3. Cardinality(s) \in Nat /\ Cardinality(s \ {Chosen(s)}) \in Nat
  BY <1>2, FS_CardinalityType
<1> QED
  BY <1>1, <1>2, <1>3

LEMMA AddsExists ==
  ASSUME NEW A, NEW f, IsFiniteSet(A)
  PROVE  \E g : Adds(f, A, g)
<1> DEFINE Small(n) == {s \in SUBSET A : Cardinality(s) <= n}
           Eq(n, g) == g = [s \in Small(n) |->
                              IF s = {} THEN 0
                              ELSE f[Chosen(s)] + g[s \ {Chosen(s)}]]
           T == {n \in Nat : \E g : Eq(n, g)}
<1>1. \A s \in SUBSET A : IsFiniteSet(s) /\ Cardinality(s) \in Nat
  BY FS_Subset, FS_CardinalityType
<1>2. 0 \in T
  <2>1. \A s \in Small(0) : s = {}
    BY <1>1, FS_EmptySet
  <2>2. Eq(0, [s \in Small(0) |-> 0])
    BY <2>1
  <2> QED
    BY <2>2
<1>3. ASSUME NEW n \in Nat, n \in T PROVE n + 1 \in T
  <2>0. PICK g : Eq(n, g)
    BY <1>3
  <2> DEFINE h == [s \in Small(n + 1) |->
                     IF s = {} THEN 0 ELSE f[Chosen(s)] + g[s \ {Chosen(s)}]]
  <2>1. ASSUME NEW s \in Small(n + 1), s # {}
        PROVE  s \ {Chosen(s)} \in Small(n)
    BY <2>1, <1>1, ChosenFacts
  <2>2. \A s \in Small(n) : s \in Small(n + 1)
    BY <1>1
  <2>3. \A s \in Small(n) : h[s] = g[s]
    <3> SUFFICES ASSUME NEW s \in Small(n) PROVE h[s] = g[s]
      OBVIOUS
    <3>1. g[s] = IF s = {} THEN 0 ELSE f[Chosen(s)] + g[s \ {Chosen(s)}]
      <4> HIDE DEF Small
      <4> QED  BY <2>0, Zenon
    <3>2. h[s] = IF s = {} THEN 0 ELSE f[Chosen(s)] + g[s \ {Chosen(s)}]
      <4>1. s \in Small(n + 1)
        BY <2>2
      <4> HIDE DEF Small
      <4> QED  BY <4>1, Zenon
    <3> QED
      BY <3>1, <3>2
  <2>4. h = [s \in Small(n + 1) |->
               IF s = {} THEN 0 ELSE f[Chosen(s)] + h[s \ {Chosen(s)}]]
    <3>1. \A s \in Small(n + 1) :
            s # {} => h[s \ {Chosen(s)}] = g[s \ {Chosen(s)}]
      BY <2>1, <2>3
    <3> HIDE DEF Small
    <3> QED  BY <3>1
  <2>5. Eq(n + 1, h)
    BY <2>4
  <2> HIDE DEF h, Eq
  <2> QED
    BY <2>5
<1>4. Cardinality(A) \in T
  <2> HIDE DEF T
  <2>1. Nat \subseteq T
    BY <1>2, <1>3, CountInduction
  <2> QED
    BY <2>1, <1>1
<1>5. Small(Cardinality(A)) = SUBSET A
  BY FS_Subset
<1>6. PICK g : Eq(Cardinality(A), g)
  BY <1>4
<1> QED
  BY <1>5, <1>6, Zenon DEF Adds

LEMMA AddsUnique ==
  ASSUME NEW A, NEW U, NEW f, NEW h, NEW g, NEW e,
         Adds(f, A, g), Adds(h, U, e),
         NEW V, IsFiniteSet(V), V \subseteq A, V \subseteq U,
         \A x \in V : f[x] = h[x]
  PROVE  g[V] = e[V]
<1> DEFINE T == {n \in Nat : \A s \in SUBSET V : Cardinality(s) = n => g[s] = e[s]}
<1>1. \A s \in SUBSET V : IsFiniteSet(s) /\ Cardinality(s) \in Nat
  BY FS_Subset, FS_CardinalityType
<1>2. \A s \in SUBSET V :
        /\ g[s] = IF s = {} THEN 0 ELSE f[Chosen(s)] + g[s \ {Chosen(s)}]
        /\ e[s] = IF s = {} THEN 0 ELSE h[Chosen(s)] + e[s \ {Chosen(s)}]
  <2> TAKE s \in SUBSET V
  <2>1. s \in SUBSET A /\ s \in SUBSET U
    OBVIOUS
  <2> QED
    BY <2>1, Zenon DEF Adds
<1>3. 0 \in T
  <2>1. \A s \in SUBSET V : Cardinality(s) = 0 => s = {}
    BY <1>1, FS_EmptySet
  <2> QED
    BY <1>2, <2>1
<1>4. \A n \in Nat : n \in T => n + 1 \in T
  <2> SUFFICES ASSUME NEW n \in Nat, n \in T,
                      NEW s \in SUBSET V, Cardinality(s) = n + 1
               PROVE  g[s] = e[s]
    OBVIOUS
  <2>1. s # {}
    <3>1. Cardinality({}) = 0
      BY FS_EmptySet
    <3>2. n + 1 # 0
      OBVIOUS
    <3> HIDE DEF T
    <3> QED
      BY <3>1, <3>2
  <2>2. Chosen(s) \in s /\ Cardinality(s \ {Chosen(s)}) = n
    BY <2>1, <1>1, ChosenFacts
  <2>3. g[s \ {Chosen(s)}] = e[s \ {Chosen(s)}]
    BY <2>2
  <2> QED
    BY <1>2, <2>1, <2>2, <2>3
<1>5. Cardinality(V) \in T
  <2> HIDE DEF T
  <2>1. Nat \subseteq T
    BY <1>3, <1>4, CountInduction
  <2> QED
    BY <2>1, <1>1
<1> QED
  BY <1>5

LEMMA SumIs ==
  ASSUME NEW A, NEW f, IsFiniteSet(A)
  PROVE  \E g : Adds(f, A, g) /\ Sum(f, A) = g[A]
<1> DEFINE g == CHOOSE g : Adds(f, A, g)
<1>1. Adds(f, A, g)
  BY AddsExists
<1>2. Sum(f, A) = g[A]
  BY DEF Sum, MapThenSumSet, MapThenFoldSet, Adds, Chosen
<1> QED
  BY <1>1, <1>2

LEMMA SumEqual ==
  ASSUME NEW A, NEW f, NEW h, IsFiniteSet(A), \A x \in A : f[x] = h[x]
  PROVE  Sum(f, A) = Sum(h, A)
<1>1. PICK g : Adds(f, A, g) /\ Sum(f, A) = g[A]
  BY SumIs
<1>2. PICK e : Adds(h, A, e) /\ Sum(h, A) = e[A]
  BY SumIs
<1> QED
  BY <1>1, <1>2, AddsUnique

LEMMA SumChosen ==
  ASSUME NEW A, NEW f, IsFiniteSet(A)
  PROVE  Sum(f, A) = IF A = {} THEN 0
                     ELSE f[Chosen(A)] + Sum(f, A \ {Chosen(A)})
<1>1. PICK g : Adds(f, A, g) /\ Sum(f, A) = g[A]
  BY SumIs
<1>2. g[A] = IF A = {} THEN 0 ELSE f[Chosen(A)] + g[A \ {Chosen(A)}]
  BY <1>1, Zenon DEF Adds
<1>3. CASE A # {}
  <2>1. IsFiniteSet(A \ {Chosen(A)})
    BY <1>3, ChosenFacts
  <2>2. PICK e : Adds(f, A \ {Chosen(A)}, e)
                 /\ Sum(f, A \ {Chosen(A)}) = e[A \ {Chosen(A)}]
    BY <2>1, SumIs
  <2>3. g[A \ {Chosen(A)}] = e[A \ {Chosen(A)}]
    BY <1>1, <2>1, <2>2, AddsUnique
  <2> QED
    BY <1>1, <1>2, <1>3, <2>2, <2>3
<1>4. CASE A = {}
  BY <1>1, <1>2, <1>4
<1> QED
  BY <1>3, <1>4

LEMMA SumType ==
  ASSUME NEW A, NEW f, IsFiniteSet(A), \A x \in A : f[x] \in Int
  PROVE  \A s \in SUBSET A : Sum(f, s) \in Int
<1> DEFINE T == {n \in Nat : \A s \in SUBSET A :
                    Cardinality(s) = n => Sum(f, s) \in Int}
<1>1. \A s \in SUBSET A : IsFiniteSet(s) /\ Cardinality(s) \in Nat
  BY FS_Subset, FS_CardinalityType
<1>2. Sum(f, {}) = 0
  BY SumChosen, FS_EmptySet
<1>3. 0 \in T
  <2>1. \A s \in SUBSET A : Cardinality(s) = 0 => s = {}
    BY <1>1, FS_EmptySet
  <2>2. \A s \in SUBSET A : Cardinality(s) = 0 => Sum(f, s) \in Int
    BY <1>2, <2>1
  <2> QED
    BY <2>2
<1>4. ASSUME NEW n \in Nat, n \in T PROVE n + 1 \in T
  <2>1. ASSUME NEW s \in SUBSET A, Cardinality(s) = n + 1
        PROVE  Sum(f, s) \in Int
    <3>1. s # {}
      <4>1. Cardinality({}) = 0 /\ n + 1 # 0
        BY FS_EmptySet
      <4> HIDE DEF T
      <4> QED
        BY <4>1, <2>1
    <3>2. Chosen(s) \in s /\ Cardinality(s \ {Chosen(s)}) = n
      BY <2>1, <3>1, <1>1, ChosenFacts
    <3>3. Sum(f, s \ {Chosen(s)}) \in Int
      BY <3>2, <1>4
    <3>4. Sum(f, s) = f[Chosen(s)] + Sum(f, s \ {Chosen(s)})
      BY <1>1, <3>1, SumChosen
    <3> QED
      BY <3>2, <3>3, <3>4
  <2> QED
    BY <2>1
<1>5. Nat \subseteq T
  <2> HIDE DEF T
  <2> QED  BY <1>3, <1>4, CountInduction
<1> QED
  BY <1>1, <1>5

LEMMA SumRemove ==
  ASSUME NEW A, NEW f, IsFiniteSet(A), \A x \in A : f[x] \in Int
  PROVE  /\ Sum(f, A) \in Int
         /\ Sum(f, {}) = 0
         /\ \A x \in A : Sum(f, A) = f[x] + Sum(f, A \ {x})
<1> DEFINE Good(s) == /\ Sum(f, s) \in Int
                      /\ \A x \in s : Sum(f, s) = f[x] + Sum(f, s \ {x})
           T == {n \in Nat : \A s \in SUBSET A : Cardinality(s) = n => Good(s)}
<1>1. \A s \in SUBSET A : IsFiniteSet(s) /\ Cardinality(s) \in Nat
  BY FS_Subset, FS_CardinalityType
<1>6. \A s \in SUBSET A : Sum(f, s) \in Int
  BY SumType
<1>2. Sum(f, {}) = 0
  BY SumChosen, FS_EmptySet
<1>3. 0 \in T
  <2>1. \A s \in SUBSET A : Cardinality(s) = 0 => s = {}
    BY <1>1, FS_EmptySet
  <2>2. Good({})
    BY <1>2
  <2>3. \A s \in SUBSET A : Cardinality(s) = 0 => Good(s)
    <3> HIDE DEF Good
    <3> QED  BY <2>1, <2>2
  <2> HIDE DEF Good
  <2> QED
    BY <2>3
<1>4. ASSUME NEW n \in Nat, n \in T PROVE n + 1 \in T
  <2> SUFFICES ASSUME NEW s \in SUBSET A, Cardinality(s) = n + 1
               PROVE  Good(s)
    <3> HIDE DEF Good
    <3> QED  OBVIOUS
  <2> DEFINE c == Chosen(s)
  <2>1. s # {} /\ IsFiniteSet(s)
    <3>1. Cardinality({}) = 0 /\ n + 1 # 0
      BY FS_EmptySet
    <3> HIDE DEF T, Good
    <3> QED
      BY <3>1, <1>1
  <2>2. c \in s
    BY <2>1, ChosenFacts
  <2>3. ASSUME NEW x \in s
        PROVE  s \ {x} \in SUBSET A /\ Cardinality(s \ {x}) = n
    <3>1. Cardinality(s \ {x}) = Cardinality(s) - 1
      <4> HIDE DEF T, Good, c
      <4> QED  BY <2>1, <2>3, FS_RemoveElement
    <3> QED
      BY <3>1
  <2>4. \A x \in s : Good(s \ {x})
    BY <2>3, <1>4
  <2>5. Sum(f, s) = f[c] + Sum(f, s \ {c})
    BY <2>1, SumChosen
  <2>6. f[c] \in Int /\ Sum(f, s \ {c}) \in Int
    BY <2>2, <2>4
  <2>7. ASSUME NEW x \in s, x # c
        PROVE  Sum(f, s) = f[x] + Sum(f, s \ {x})
    <3>1. Sum(f, s \ {c}) = f[x] + Sum(f, (s \ {c}) \ {x})
      BY <2>2, <2>4, <2>7
    <3>2. Sum(f, s \ {x}) = f[c] + Sum(f, (s \ {x}) \ {c})
      BY <2>2, <2>4, <2>7
    <3>3. (s \ {c}) \ {x} = (s \ {x}) \ {c}
      OBVIOUS
    <3>4. f[x] \in Int /\ Sum(f, (s \ {c}) \ {x}) \in Int
      BY <1>6
    <3>5. Sum(f, s \ {x}) = f[c] + Sum(f, (s \ {c}) \ {x})
      BY <3>2, <3>3
    <3>6. Sum(f, s) = f[c] + (f[x] + Sum(f, (s \ {c}) \ {x}))
      BY <2>5, <3>1
    <3> HIDE DEF c, Good, T
    <3> QED
      BY <2>6, <3>4, <3>5, <3>6
  <2>8. Sum(f, s) \in Int
    BY <1>6
  <2>9. \A x \in s : Sum(f, s) = f[x] + Sum(f, s \ {x})
    <3> HIDE DEF c, Good, T
    <3> QED  BY <2>5, <2>7
  <2> QED
    BY <2>8, <2>9
<1>5. Cardinality(A) \in T
  <2> HIDE DEF T
  <2>1. Nat \subseteq T
    BY <1>3, <1>4, CountInduction
  <2> QED
    BY <2>1, <1>1
<1> QED
  BY <1>2, <1>5

LEMMA EmptySum ==
  ASSUME NEW f
  PROVE  Sum(f, {}) = 0
BY SumChosen, FS_EmptySet

(* One element more.                                                       *)
LEMMA SumAdd ==
  ASSUME NEW A, NEW f, IsFiniteSet(A), NEW x, x \notin A,
         \A y \in A \cup {x} : f[y] \in Int
  PROVE  Sum(f, A \cup {x}) = f[x] + Sum(f, A)
<1> DEFINE U == A \cup {x}
<1>1. IsFiniteSet(U)
  BY FS_AddElement
<1>2. x \in U /\ U \ {x} = A
  OBVIOUS
<1>3. \A y \in U : f[y] \in Int
  OBVIOUS
<1> HIDE DEF U
<1>4. Sum(f, U) = f[x] + Sum(f, U \ {x})
  BY <1>1, <1>2, <1>3, SumRemove
<1> QED
  BY <1>2, <1>4 DEF U

(* More elements, none of them negative, do not make a sum less.           *)
LEMMA SumMore ==
  ASSUME NEW A, NEW f, IsFiniteSet(A), \A x \in A : f[x] \in Nat
  PROVE  \A V \in SUBSET A : \A X \in SUBSET V :
           /\ Sum(f, V) \in Nat /\ Sum(f, X) \in Nat
           /\ Sum(f, X) <= Sum(f, V)
<1> DEFINE Good(V) == /\ Sum(f, V) \in Nat
                      /\ \A X \in SUBSET V : Sum(f, X) \in Nat /\ Sum(f, X) <= Sum(f, V)
           T == {n \in Nat : \A V \in SUBSET A : Cardinality(V) = n => Good(V)}
<1>1. \A s \in SUBSET A : IsFiniteSet(s) /\ Cardinality(s) \in Nat
  BY FS_Subset, FS_CardinalityType
<1>2. Sum(f, {}) = 0
  BY EmptySum
<1>3. 0 \in T
  <2>1. \A s \in SUBSET A : Cardinality(s) = 0 => s = {}
    BY <1>1, FS_EmptySet
  <2>2. Good({})
    BY <1>2
  <2> HIDE DEF Good
  <2> QED
    BY <2>1, <2>2
<1>4. ASSUME NEW n \in Nat, n \in T PROVE n + 1 \in T
  <2> SUFFICES ASSUME NEW V \in SUBSET A, Cardinality(V) = n + 1
               PROVE  Good(V)
    <3> HIDE DEF Good
    <3> QED  OBVIOUS
  <2>1. V # {}
    <3>1. Cardinality({}) = 0 /\ n + 1 # 0
      BY FS_EmptySet
    <3> HIDE DEF T, Good
    <3> QED  BY <3>1
  <2>2. ASSUME NEW x \in V
        PROVE  /\ Good(V \ {x}) /\ f[x] \in Nat
               /\ Sum(f, V) = f[x] + Sum(f, V \ {x})
    <3>1. IsFiniteSet(V) /\ \A y \in V : f[y] \in Int
      BY <1>1
    <3>2. Cardinality(V \ {x}) = n
      <4>1. Cardinality(V \ {x}) = Cardinality(V) - 1
        <5> HIDE DEF T, Good
        <5> QED  BY <3>1, FS_RemoveElement
      <4> HIDE DEF T, Good
      <4> QED  BY <4>1
    <3>3. Good(V \ {x})
      <4>1. V \ {x} \in SUBSET A
        OBVIOUS
      <4>2. \A U \in SUBSET A : Cardinality(U) = n => Good(U)
        <5> HIDE DEF Good
        <5> QED  BY <1>4
      <4> HIDE DEF Good, T
      <4> QED  BY <3>2, <4>1, <4>2, Zenon
    <3>4. Sum(f, V) = f[x] + Sum(f, V \ {x})
      BY <3>1, SumRemove
    <3> HIDE DEF Good
    <3> QED
      BY <3>3, <3>4
  <2>3. Sum(f, V) \in Nat
    <3>1. PICK x \in V : TRUE
      BY <2>1
    <3>2. Good(V \ {x}) /\ f[x] \in Nat /\ Sum(f, V) = f[x] + Sum(f, V \ {x})
      <4> HIDE DEF Good, T
      <4> QED  BY <2>2
    <3>3. Sum(f, V \ {x}) \in Nat
      BY <3>2
    <3> HIDE DEF Good, T
    <3> QED
      BY <3>2, <3>3
  <2>4. ASSUME NEW X \in SUBSET V
        PROVE  Sum(f, X) \in Nat /\ Sum(f, X) <= Sum(f, V)
    <3>1. CASE X = V
      <4>1. Sum(f, X) = Sum(f, V)
        BY <3>1
      <4> QED
        BY <2>3, <4>1
    <3>2. CASE X # V
      <4>1. PICK x \in V : x \notin X
        BY <3>2
      <4>2. X \in SUBSET (V \ {x})
        BY <4>1
      <4>3. Good(V \ {x}) /\ f[x] \in Nat /\ Sum(f, V) = f[x] + Sum(f, V \ {x})
        <5> HIDE DEF Good, T
        <5> QED  BY <2>2
      <4>4. /\ Sum(f, V \ {x}) \in Nat /\ Sum(f, X) \in Nat
            /\ Sum(f, X) <= Sum(f, V \ {x})
        BY <4>2, <4>3
      <4> HIDE DEF Good, T
      <4> QED
        BY <4>3, <4>4
    <3> QED
      BY <3>1, <3>2
  <2> HIDE DEF T
  <2> QED
    BY <2>3, <2>4
<1>5. Nat \subseteq T
  <2> HIDE DEF T
  <2> QED  BY <1>3, <1>4, CountInduction
<1> HIDE DEF Good
<1>6. \A V \in SUBSET A : Good(V)
  BY <1>1, <1>5
<1> QED
  BY <1>6 DEF Good

(* The sum of at most K elements each of which fits K times into B.        *)
LEMMA SumFits ==
  ASSUME NEW A, NEW f, IsFiniteSet(A), NEW B \in Nat, NEW K \in Nat,
         Cardinality(A) <= K,
         \A x \in A : f[x] \in Nat /\ K * f[x] <= B
  PROVE  Sum(f, A) <= B
<1> DEFINE T == {n \in Nat : \A s \in SUBSET A :
                   Cardinality(s) = n => Sum(f, s) \in Nat /\ K * Sum(f, s) <= n * B}
<1>1. \A s \in SUBSET A : IsFiniteSet(s) /\ Cardinality(s) \in Nat
  BY FS_Subset, FS_CardinalityType
<1>2. Sum(f, {}) = 0
  BY EmptySum
<1>3. 0 \in T
  <2>1. \A s \in SUBSET A : Cardinality(s) = 0 => s = {}
    BY <1>1, FS_EmptySet
  <2> QED
    BY <1>2, <2>1
<1>4. ASSUME NEW n \in Nat, n \in T PROVE n + 1 \in T
  <2> SUFFICES ASSUME NEW s \in SUBSET A, Cardinality(s) = n + 1
               PROVE  Sum(f, s) \in Nat /\ K * Sum(f, s) <= (n + 1) * B
    OBVIOUS
  <2>1. s # {}
    <3>1. Cardinality({}) = 0 /\ n + 1 # 0
      BY FS_EmptySet
    <3> HIDE DEF T
    <3> QED  BY <3>1
  <2>2. PICK x \in s : TRUE
    BY <2>1
  <2>3. Cardinality(s \ {x}) = n
    <3>1. IsFiniteSet(s)
      BY <1>1
    <3>2. Cardinality(s \ {x}) = Cardinality(s) - 1
      <4> HIDE DEF T
      <4> QED  BY <3>1, FS_RemoveElement
    <3> HIDE DEF T
    <3> QED  BY <3>2
  <2>4. Sum(f, s) = f[x] + Sum(f, s \ {x})
    <3>1. IsFiniteSet(s) /\ \A y \in s : f[y] \in Int
      BY <1>1
    <3> HIDE DEF T
    <3> QED  BY <3>1, SumRemove
  <2>5. Sum(f, s \ {x}) \in Nat /\ K * Sum(f, s \ {x}) <= n * B
    BY <2>3, <1>4
  <2>6. f[x] \in Nat /\ K * f[x] <= B
    OBVIOUS
  <2> HIDE DEF T
  <2>7. \A a, b \in Nat : K * (a + b) = K * a + K * b
    OBVIOUS
  <2>8. (n + 1) * B = n * B + B
    OBVIOUS
  <2>9. K * Sum(f, s) = K * f[x] + K * Sum(f, s \ {x})
    BY <2>4, <2>5, <2>6, <2>7
  <2>10. Sum(f, s) \in Nat
    BY <2>4, <2>5, <2>6
  <2> QED
    BY <2>5, <2>6, <2>8, <2>9, <2>10
<1>5. Cardinality(A) \in T
  <2> HIDE DEF T
  <2>1. Nat \subseteq T
    BY <1>3, <1>4, CountInduction
  <2> QED
    BY <2>1, <1>1
<1>6. Sum(f, A) \in Nat /\ K * Sum(f, A) <= Cardinality(A) * B /\ Cardinality(A) \in Nat
  BY <1>5
<1> HIDE DEF T
<1>7. CASE K = 0
  <2>1. A = {}
    BY <1>6, <1>7, FS_EmptySet
  <2> QED
    BY <2>1, <1>2
<1>8. CASE K # 0
  <2>1. Cardinality(A) * B <= K * B
    BY <1>6
  <2>2. K * Sum(f, A) <= K * B
    <3>1. K * Sum(f, A) \in Nat /\ Cardinality(A) * B \in Nat /\ K * B \in Nat
      BY <1>6
    <3> QED  BY <2>1, <1>6, <3>1
  <2>3. \A a \in Nat : K * a <= K * B => a <= B
    BY <1>8
  <2> QED
    BY <2>2, <2>3, <1>6
<1> QED
  BY <1>7, <1>8

-----------------------------------------------------------------------------
(***************************************************************************)
(* The heap.  Which tables are ready is a matter of owners: the size       *)
(* my_fft_init works on is not ready yet, so neither what it takes nor     *)
(* what it gives back belongs to a table that is.                          *)
(***************************************************************************)
ImageInv ==
  /\ _end \in Nat /\ _Min_Heap_Size \in Nat
  /\ H!Links /\ _end \in Ends /\ _Min_Heap_Size \in MinHeapSizes

SbrkInv ==
  /\ heap_end \in Nat \cup {H!NULL}
  /\ _end <= H!HeapEnd /\ H!HeapEnd <= H!max_heap

BlocksInv ==
  /\ \A p \in live : /\ p.at \in Nat /\ p.size \in Nat
                     /\ p.owner \in H!Logn \cup {0}
                     /\ _end <= p.at /\ p.at + p.size <= H!HeapEnd
  /\ \A p, q \in live : p = q \/ p.at + p.size <= q.at \/ q.at + q.size <= p.at

PhaseInv ==
  /\ ready \subseteq H!Logn /\ logn \in H!Logn /\ next \in 0 .. 5
  /\ phase \in {"prepare", "run"}
  /\ next # 0 => logn \notin ready
  /\ phase = "prepare" => ready = 1 .. logn - 1

TablesInv == \A l \in ready : H!Cardinality(H!Own(l)) = 4

HeapInv == ImageInv /\ SbrkInv /\ BlocksInv /\ PhaseInv /\ TablesInv

LEMMA HeapConstants ==
  /\ LENGTH_RAM \in Nat /\ Min_Stack_Size \in Nat /\ Header \in Nat
  /\ MYFFT_MAX_LOGN \in Nat /\ MYFFT_MAX_LOGN >= 1
  /\ MinHeapSizes \subseteq Nat /\ Ends \subseteq Nat /\ OtherSizes \subseteq Nat
  /\ Pow2 \in [H!Logn -> Nat]
  /\ H!Logn \subseteq Nat /\ 0 \notin H!Logn
BY PartsAssumption DEF H!HeapAssumption, H!Logn

LEMMA HeapEndType == HeapInv => H!HeapEnd \in Nat
BY DEF HeapInv, ImageInv, SbrkInv, H!HeapEnd

LEMMA BlockSizeType ==
  ASSUME NEW bytes \in Nat
  PROVE  H!BlockSize(bytes) \in Nat
BY HeapConstants DEF H!BlockSize

LEMMA AllocatedType ==
  ASSUME NEW i, NEW l \in H!Logn
  PROVE  H!Allocated(i, l) * H!SizeofDouble \in Nat
<1>1. Pow2[l] \in Nat
  BY HeapConstants
<1>2. H!Allocated(i, l) \in Nat
  BY <1>1 DEF H!Allocated, H!Max1
<1> QED
  BY <1>2 DEF H!SizeofDouble

(* Where a block may begin without touching another.                       *)
Clear(a, size) ==
  \A p \in live : p.at + p.size <= a \/ a + size <= p.at

LEMMA FirstGap ==
  ASSUME HeapInv, NEW size \in Nat, H!Gaps(size) # {}
  PROVE  LET a == H!Min(H!Gaps(size))
         IN  a \in Nat /\ _end <= a /\ a + size <= H!HeapEnd /\ Clear(a, size)
<1>1. \A s \in H!Starts : s \in Nat /\ _end <= s
  BY DEF HeapInv, ImageInv, BlocksInv, H!Starts
<1>2. H!Gaps(size) \in SUBSET Nat
  BY <1>1 DEF H!Gaps
<1>3. \E x \in H!Gaps(size) : \A y \in H!Gaps(size) : x <= y
  BY <1>2, LeastOf
<1>4. H!Min(H!Gaps(size)) \in H!Gaps(size)
  BY <1>3, Zenon DEF H!Min
<1> QED
  BY <1>1, <1>4 DEF H!Gaps, Clear

(* malloc gives nothing, or a block that touches no other.                 *)
LEMMA MallocGives ==
  ASSUME HeapInv, NEW bytes \in Nat, NEW owner, H!Malloc(bytes, owner), UNCHANGED _end
  PROVE  /\ heap_end' \in Nat \cup {H!NULL}
         /\ H!HeapEnd <= H!HeapEnd' /\ H!HeapEnd' <= H!max_heap
         /\ \/ live' = live
            \/ \E a \in Nat, size \in Nat :
                 /\ live' = live \cup {[at |-> a, size |-> size, owner |-> owner]}
                 /\ _end <= a /\ a + size <= H!HeapEnd' /\ Clear(a, size)
<1> DEFINE size == H!BlockSize(bytes)
<1>1. size \in Nat
  BY BlockSizeType
<1>2. H!HeapEnd \in Nat /\ H!HeapEnd <= H!max_heap
  BY HeapEndType DEF HeapInv, SbrkInv
<1>3. CASE H!Gaps(size) # {}
  <2> DEFINE a == H!Min(H!Gaps(size))
  <2>1. /\ live' = live \cup {[at |-> a, size |-> size, owner |-> owner]}
        /\ heap_end' = heap_end
    BY <1>3, Zenon DEF H!Malloc
  <2>2. H!HeapEnd' = H!HeapEnd
    BY <2>1 DEF H!HeapEnd
  <2>3. a \in Nat /\ _end <= a /\ a + size <= H!HeapEnd /\ Clear(a, size)
    BY <1>1, <1>3, FirstGap, Zenon
  <2>4. heap_end' \in Nat \cup {H!NULL}
    BY <2>1 DEF HeapInv, SbrkInv
  <2> HIDE DEF a, size
  <2> QED
    BY <1>1, <1>2, <2>1, <2>2, <2>3, <2>4
<1>4. CASE H!Gaps(size) = {} /\ H!_sbrkRefuses(size)
  <2>1. live' = live /\ heap_end' = H!HeapEnd
    BY <1>4, Zenon DEF H!Malloc
  <2>2. H!HeapEnd' = H!HeapEnd
    BY <2>1, <1>2 DEF H!HeapEnd, H!NULL
  <2> QED
    BY <1>2, <2>1, <2>2
<1>5. CASE H!Gaps(size) = {} /\ ~ H!_sbrkRefuses(size)
  <2>1. /\ live' = live \cup {[at |-> H!HeapEnd, size |-> size, owner |-> owner]}
        /\ heap_end' = H!HeapEnd + size
    BY <1>5, Zenon DEF H!Malloc
  <2>2. heap_end' \in Nat /\ H!HeapEnd' = H!HeapEnd + size
    BY <1>1, <1>2, <2>1 DEF H!HeapEnd, H!NULL
  <2>3. H!HeapEnd + size <= H!max_heap
    BY <1>1, <1>2, <1>5, HeapConstants DEF H!_sbrkRefuses, H!max_heap, H!_estack
  <2>4. Clear(H!HeapEnd, size)
    BY DEF HeapInv, BlocksInv, Clear
  <2>5. _end <= H!HeapEnd
    BY DEF HeapInv, SbrkInv
  <2> HIDE DEF size
  <2> QED
    BY <1>1, <1>2, <2>1, <2>2, <2>3, <2>4, <2>5
<1> QED
  BY <1>3, <1>4, <1>5

(* What malloc leaves: it adds a block that belongs to no table that is    *)
(* ready.                                                                  *)
LEMMA MallocKeeps ==
  ASSUME HeapInv, NEW bytes \in Nat, NEW owner \in H!Logn \cup {0}, owner \notin ready,
         H!Malloc(bytes, owner), UNCHANGED <<_end, ready>>
  PROVE  SbrkInv' /\ BlocksInv' /\ TablesInv'
<1>1. /\ heap_end' \in Nat \cup {H!NULL}
      /\ H!HeapEnd <= H!HeapEnd' /\ H!HeapEnd' <= H!max_heap
      /\ \/ live' = live
         \/ \E a \in Nat, size \in Nat :
              /\ live' = live \cup {[at |-> a, size |-> size, owner |-> owner]}
              /\ _end <= a /\ a + size <= H!HeapEnd' /\ Clear(a, size)
  BY MallocGives, Zenon
<1>2. H!HeapEnd \in Nat /\ _end \in Nat /\ _end <= H!HeapEnd /\ H!HeapEnd' \in Nat
  BY <1>1, HeapEndType DEF HeapInv, SbrkInv, ImageInv, H!HeapEnd
<1>3. SbrkInv'
  BY <1>1, <1>2, HeapConstants DEF SbrkInv, H!max_heap, H!_estack
<1>4. \A p \in live : p.at + p.size <= H!HeapEnd'
  BY <1>1, <1>2 DEF HeapInv, BlocksInv
<1>5. CASE live' = live
  <2>1. BlocksInv'
    BY <1>4, <1>5 DEF HeapInv, BlocksInv
  <2>2. TablesInv'
    BY <1>5 DEF HeapInv, TablesInv, H!Own
  <2> QED
    BY <1>3, <2>1, <2>2
<1>6. CASE live' # live
  <2>1. PICK a \in Nat, size \in Nat :
           /\ live' = live \cup {[at |-> a, size |-> size, owner |-> owner]}
           /\ _end <= a /\ a + size <= H!HeapEnd' /\ Clear(a, size)
    BY <1>1, <1>6, Zenon
  <2> DEFINE new == [at |-> a, size |-> size, owner |-> owner]
  <2>2. new.at = a /\ new.size = size /\ new.owner = owner
    OBVIOUS
  <2>3. \A p \in live' : p \in live \/ p = new
    BY <2>1
  <2> HIDE DEF new
  <2>4. \A p \in live' : /\ p.at \in Nat /\ p.size \in Nat
                         /\ p.owner \in H!Logn \cup {0}
                         /\ _end <= p.at /\ p.at + p.size <= H!HeapEnd'
    BY <1>4, <2>1, <2>2, <2>3 DEF HeapInv, BlocksInv
  <2>5. \A p, q \in live' : p = q \/ p.at + p.size <= q.at \/ q.at + q.size <= p.at
    BY <2>1, <2>2, <2>3 DEF HeapInv, BlocksInv, Clear
  <2>6. BlocksInv'
    BY <2>4, <2>5 DEF BlocksInv
  <2>7. \A l \in ready : H!Own(l)' = H!Own(l)
    BY <2>1, <2>2 DEF H!Own, new
  <2>8. TablesInv'
    BY <2>7 DEF HeapInv, TablesInv
  <2> QED
    BY <1>3, <2>6, <2>8
<1> QED
  BY <1>5, <1>6

LEMMA HeapInit == H!Init => HeapInv
<1> SUFFICES ASSUME H!Init PROVE HeapInv
  OBVIOUS
<1> USE DEF H!Init
<1>1. ImageInv
  BY HeapConstants DEF ImageInv
<1>2. H!HeapEnd = _end
  BY DEF H!HeapEnd
<1>3. SbrkInv
  BY <1>1, <1>2, HeapConstants
  DEF SbrkInv, ImageInv, H!Links, H!max_heap, H!_estack
<1>4. BlocksInv /\ TablesInv
  BY DEF BlocksInv, TablesInv
<1>5. PhaseInv
  BY HeapConstants DEF PhaseInv, H!Logn
<1> QED
  BY <1>1, <1>3, <1>4, <1>5 DEF HeapInv

LEMMA HeapUnchanged == HeapInv /\ UNCHANGED heapvars => HeapInv'
<1> SUFFICES ASSUME HeapInv, UNCHANGED heapvars PROVE HeapInv'
  OBVIOUS
<1> USE DEF heapvars, HeapInv
<1>1. H!HeapEnd' = H!HeapEnd
  BY DEF H!HeapEnd
<1>2. ImageInv' /\ SbrkInv'
  BY <1>1 DEF ImageInv, SbrkInv, H!Links, H!max_heap
<1>3. BlocksInv' /\ PhaseInv'
  BY <1>1 DEF BlocksInv, PhaseInv
<1>4. TablesInv'
  BY DEF TablesInv, H!Own
<1> QED
  BY <1>2, <1>3, <1>4

(* What every step keeps: the image, once it is linked.                    *)
LEMMA ImageKept == ImageInv /\ UNCHANGED <<_end, _Min_Heap_Size>> => ImageInv'
BY DEF ImageInv, H!Links

LEMMA HeapStepKeeps == HeapInv /\ [H!Next]_heapvars => HeapInv'
<1> SUFFICES ASSUME HeapInv, H!Next PROVE HeapInv'
  BY HeapUnchanged
<1>1. ASSUME NEW l \in H!Logn, H!CallInit(l) PROVE HeapInv'
  <2>1. /\ next = 0 /\ l \notin ready /\ (phase = "prepare" => l = logn)
        /\ logn' = l /\ next' = 1
        /\ UNCHANGED <<_end, _Min_Heap_Size, heap_end, live, ready, phase>>
    BY <1>1, Zenon DEF H!CallInit, H!image
  <2>2. H!HeapEnd' = H!HeapEnd
    BY <2>1 DEF H!HeapEnd
  <2>3. ImageInv' /\ SbrkInv'
    BY <2>1, <2>2, ImageKept DEF HeapInv, SbrkInv, H!max_heap
  <2>4. BlocksInv'
    BY <2>1, <2>2 DEF HeapInv, BlocksInv
  <2>5. TablesInv'
    BY <2>1 DEF HeapInv, TablesInv, H!Own
  <2>6. PhaseInv'
    BY <2>1 DEF HeapInv, PhaseInv
  <2> QED
    BY <2>3, <2>4, <2>5, <2>6 DEF HeapInv
<1>2. CASE H!InitMalloc
  <2>1. /\ next \in 1 .. 4 /\ next' = next + 1
        /\ H!Malloc(H!Allocated(next, logn) * H!SizeofDouble, logn)
        /\ UNCHANGED <<_end, _Min_Heap_Size, ready, phase, logn>>
    BY <1>2, Zenon DEF H!InitMalloc, H!image
  <2>2. logn \in H!Logn /\ logn \notin ready
    BY <2>1 DEF HeapInv, PhaseInv
  <2>3. H!Allocated(next, logn) * H!SizeofDouble \in Nat
    BY <2>2, AllocatedType
  <2>4. SbrkInv' /\ BlocksInv' /\ TablesInv'
    BY <2>1, <2>2, <2>3, MallocKeeps, Zenon
  <2>5. PhaseInv'
    BY <2>1 DEF HeapInv, PhaseInv
  <2> QED
    BY <2>1, <2>4, <2>5, ImageKept DEF HeapInv
<1>3. CASE H!InitFail
  <2>1. /\ next = 5 /\ live' = live \ H!Own(logn) /\ phase' = "run" /\ next' = 0
        /\ UNCHANGED <<_end, _Min_Heap_Size, heap_end, ready, logn>>
    BY <1>3, Zenon DEF H!InitFail, H!image
  <2>2. H!HeapEnd' = H!HeapEnd
    BY <2>1 DEF H!HeapEnd
  <2>3. ImageInv' /\ SbrkInv'
    BY <2>1, <2>2, ImageKept DEF HeapInv, SbrkInv, H!max_heap
  <2>4. BlocksInv'
    BY <2>1, <2>2 DEF HeapInv, BlocksInv
  <2>5. logn \notin ready
    BY <2>1 DEF HeapInv, PhaseInv
  <2>6. \A l \in ready : H!Own(l)' = H!Own(l)
    BY <2>1, <2>5 DEF H!Own
  <2>7. TablesInv'
    BY <2>1, <2>6 DEF HeapInv, TablesInv
  <2>8. PhaseInv'
    BY <2>1 DEF HeapInv, PhaseInv
  <2> QED
    BY <2>3, <2>4, <2>7, <2>8 DEF HeapInv
<1>4. CASE H!InitSucceed
  <2>1. /\ next = 5 /\ H!Cardinality(H!Own(logn)) = 4 /\ next' = 0
        /\ ready' = ready \cup {logn}
        /\ IF phase = "prepare" /\ logn < MYFFT_MAX_LOGN
           THEN logn' = logn + 1 /\ phase' = phase
           ELSE logn' = logn /\ phase' = "run"
        /\ UNCHANGED <<_end, _Min_Heap_Size, heap_end, live>>
    BY <1>4, Zenon DEF H!InitSucceed, H!image
  <2>2. H!HeapEnd' = H!HeapEnd
    BY <2>1 DEF H!HeapEnd
  <2>3. ImageInv' /\ SbrkInv'
    BY <2>1, <2>2, ImageKept DEF HeapInv, SbrkInv, H!max_heap
  <2>4. BlocksInv'
    BY <2>1, <2>2 DEF HeapInv, BlocksInv
  <2>5. TablesInv'
    BY <2>1 DEF HeapInv, TablesInv, H!Own
  <2>6. PhaseInv'
    BY <2>1, HeapConstants DEF HeapInv, PhaseInv, H!Logn
  <2> QED
    BY <2>3, <2>4, <2>5, <2>6 DEF HeapInv
<1>5. CASE H!Other
  <2>1. /\ next = 0
        /\ UNCHANGED <<_end, _Min_Heap_Size, ready, phase, logn, next>>
    BY <1>5, Zenon DEF H!Other, H!image
  <2>2. PICK bytes \in OtherSizes : H!Malloc(bytes, 0)
    BY <1>5, Zenon DEF H!Other
  <2>3. bytes \in Nat /\ 0 \notin ready
    BY HeapConstants DEF HeapInv, PhaseInv
  <2>4. SbrkInv' /\ BlocksInv' /\ TablesInv'
    BY <2>1, <2>2, <2>3, MallocKeeps, Zenon
  <2>5. PhaseInv'
    BY <2>1 DEF HeapInv, PhaseInv
  <2> QED
    BY <2>1, <2>4, <2>5, ImageKept DEF HeapInv
<1>6. CASE H!AllReady
  BY <1>6, HeapUnchanged DEF H!AllReady, H!vars, heapvars
<1> QED
  BY <1>1, <1>2, <1>3, <1>4, <1>5, <1>6, Zenon DEF H!Next

LEMMA HeapIsApart == HeapInv => H!Apart
BY DEF HeapInv, SbrkInv, BlocksInv, TablesInv, H!Apart, H!max_heap

LEMMA HeapTypes == HeapInv => H!TypeOK
<1> SUFFICES ASSUME HeapInv PROVE H!TypeOK
  OBVIOUS
<1>1. ASSUME phase = "prepare" PROVE ready = 1 .. H!Cardinality(ready)
  <2>1. ready = 1 .. logn - 1 /\ logn \in Nat /\ logn >= 1
    BY <1>1, HeapConstants DEF HeapInv, PhaseInv, H!Logn
  <2>2. Cardinality(1 .. logn - 1) = logn - 1
    BY <2>1, FS_Interval
  <2>3. H!Cardinality(ready) = Cardinality(ready)
    BY DEF H!Cardinality, Cardinality
  <2> QED
    BY <2>1, <2>2, <2>3
<1>2. \A blk \in live : blk.at \in Nat /\ blk.size \in Nat /\ blk.owner \in H!Logn \cup {0}
  BY DEF HeapInv, BlocksInv
<1> QED
  BY <1>1, <1>2, Zenon DEF HeapInv, ImageInv, SbrkInv, PhaseInv, H!TypeOK

(***************************************************************************)
(* _sbrk, malloc and my_fft_init: static data, heap and stack keep apart,  *)
(* and a table that is ready keeps its four blocks, for any RAM, image,    *)
(* sizes of tables and of the C library's blocks, and whatever was refused *)
(* or given back on the way.                                               *)
(***************************************************************************)
THEOREM HeapKeepsApart == FirmwareSpec => []H!Apart
<1>1. FirmwareInit => HeapInv
  BY PartInits, HeapInit
<1>2. HeapInv /\ [FirmwareNext]_allvars => HeapInv'
  BY PartSteps, HeapStepKeeps
<1> QED
  BY <1>1, <1>2, HeapIsApart, PTL DEF FirmwareSpec

-----------------------------------------------------------------------------
(* The heap's sums of the specification, in these terms.                   *)
SizeOfTable == [l \in H!Logn |-> H!TableSize(l)]

LEMMA TablesAsSum ==
  ASSUME NEW R \in SUBSET H!Logn
  PROVE  H!MapThenSumSet(H!TableSize, R) = Sum(SizeOfTable, R)
<1> DEFINE Plain(g) == g = [s \in SUBSET R |->
                              IF s = {} THEN 0
                              ELSE H!TableSize(Chosen(s)) + g[s \ {Chosen(s)}]]
           g == CHOOSE g : Plain(g)
<1>1. IsFiniteSet(R)
  <2>1. IsFiniteSet(H!Logn)
    BY HeapConstants, FS_Interval DEF H!Logn
  <2> QED
    BY <2>1, FS_Subset
<1>2. \A s \in SUBSET R : s # {} => SizeOfTable[Chosen(s)] = H!TableSize(Chosen(s))
  BY DEF Chosen, SizeOfTable
<1>3. \A e : Adds(SizeOfTable, R, e) <=> Plain(e)
  BY <1>2 DEF Adds
<1>4. \E e : Plain(e)
  <2>1. PICK e : Adds(SizeOfTable, R, e)
    BY <1>1, AddsExists
  <2> HIDE DEF Plain
  <2> QED  BY <2>1, <1>3
<1>5. Adds(SizeOfTable, R, g)
  <2>1. Plain(g)
    <3> HIDE DEF Plain
    <3> QED  BY <1>4
  <2> HIDE DEF Plain, g
  <2> QED  BY <1>3, <2>1
<1>6. H!MapThenSumSet(H!TableSize, R) = g[R]
  BY DEF H!MapThenSumSet, H!MapThenFoldSet, Chosen
<1> HIDE DEF g
<1>7. PICK e : Adds(SizeOfTable, R, e) /\ Sum(SizeOfTable, R) = e[R]
  BY <1>1, SumIs
<1>8. g[R] = e[R]
  BY <1>1, <1>5, <1>7, AddsUnique
<1> QED
  BY <1>6, <1>7, <1>8

(* The bytes of a set of blocks.                                           *)
BytesOf(B) == Sum([blk \in B |-> blk.size], B)

LEMMA BytesAsSum ==
  ASSUME NEW B, IsFiniteSet(B)
  PROVE  H!MapThenSumSet(LAMBDA blk : blk.size, B) = BytesOf(B)
<1> DEFINE f == [blk \in B |-> blk.size]
           Plain(g) == g = [s \in SUBSET B |->
                              IF s = {} THEN 0
                              ELSE Chosen(s).size + g[s \ {Chosen(s)}]]
           g == CHOOSE g : Plain(g)
<1>2. \A s \in SUBSET B : s # {} => f[Chosen(s)] = Chosen(s).size
  BY DEF Chosen
<1>3. \A e : Adds(f, B, e) <=> Plain(e)
  <2> HIDE DEF f
  <2> QED  BY <1>2 DEF Adds
<1>4. \E e : Plain(e)
  <2>1. PICK e : Adds(f, B, e)
    <3> HIDE DEF f
    <3> QED  BY AddsExists
  <2> HIDE DEF f, Plain
  <2> QED  BY <2>1, <1>3
<1>5. Adds(f, B, g)
  <2>1. Plain(g)
    <3> HIDE DEF Plain
    <3> QED  BY <1>4
  <2> HIDE DEF f, Plain, g
  <2> QED  BY <1>3, <2>1
<1>6. H!MapThenSumSet(LAMBDA blk : blk.size, B) = g[B]
  BY DEF H!MapThenSumSet, H!MapThenFoldSet, Chosen
<1> HIDE DEF f, g
<1>7. PICK e : Adds(f, B, e) /\ Sum(f, B) = e[B]
  BY SumIs
<1>8. g[B] = e[B]
  BY <1>5, <1>7, AddsUnique
<1> QED
  BY <1>6, <1>7, <1>8 DEF f, BytesOf

(* The bytes my_fft_init asks for in its i-th malloc, with the header.     *)
Piece(i, l) == H!BlockSize(H!Allocated(i, l) * H!SizeofDouble)

LEMMA PieceType ==
  ASSUME NEW i, NEW l \in H!Logn
  PROVE  Piece(i, l) \in Nat
BY AllocatedType, BlockSizeType DEF Piece

LEMMA TableSizeIs ==
  ASSUME NEW l \in H!Logn
  PROVE  H!TableSize(l) = Piece(1, l) + Piece(2, l) + Piece(3, l) + Piece(4, l)
<1> DEFINE f == [i \in 1 .. 4 |-> Piece(i, l)]
           Plain(g) == g = [s \in SUBSET (1 .. 4) |->
                              IF s = {} THEN 0
                              ELSE Piece(Chosen(s), l) + g[s \ {Chosen(s)}]]
           g == CHOOSE g : Plain(g)
<1> DEFINE T1 == {} \cup {1}
           T2 == T1 \cup {2}
           T3 == T2 \cup {3}
           T4 == T3 \cup {4}
<1>0. IsFiniteSet(T1) /\ IsFiniteSet(T2) /\ IsFiniteSet(T3) /\ IsFiniteSet(T4)
  <2>1. IsFiniteSet({})
    BY FS_EmptySet
  <2>2. IsFiniteSet(T1)
    BY <2>1, FS_AddElement
  <2> HIDE DEF T1
  <2>3. IsFiniteSet(T2)
    BY <2>2, FS_AddElement
  <2> HIDE DEF T2
  <2>4. IsFiniteSet(T3)
    BY <2>3, FS_AddElement
  <2> HIDE DEF T3
  <2>5. IsFiniteSet(T4)
    BY <2>4, FS_AddElement
  <2> QED
    BY <2>2, <2>3, <2>4, <2>5
<1>1. 1 .. 4 = T4 /\ IsFiniteSet(1 .. 4)
  <2>1. 1 .. 4 = T4
    OBVIOUS
  <2> QED
    BY <1>0, <2>1
<1>2. \A s \in SUBSET (1 .. 4) : s # {} => f[Chosen(s)] = Piece(Chosen(s), l)
  BY DEF Chosen
<1>3. \A e : Adds(f, 1 .. 4, e) <=> Plain(e)
  <2> HIDE DEF f
  <2> QED  BY <1>2 DEF Adds
<1>4. \E e : Plain(e)
  <2>1. PICK e : Adds(f, 1 .. 4, e)
    <3> HIDE DEF f
    <3> QED  BY <1>1, AddsExists
  <2> HIDE DEF f, Plain
  <2> QED  BY <2>1, <1>3
<1>5. Adds(f, 1 .. 4, g)
  <2>1. Plain(g)
    <3> HIDE DEF Plain
    <3> QED  BY <1>4
  <2> HIDE DEF f, Plain, g
  <2> QED  BY <1>3, <2>1
<1>6. H!TableSize(l) = g[1 .. 4]
  BY DEF H!TableSize, H!MapThenSumSet, H!MapThenFoldSet, Chosen, Piece
<1>7. H!TableSize(l) = Sum(f, 1 .. 4)
  <2> HIDE DEF f, g
  <2>1. PICK e : Adds(f, 1 .. 4, e) /\ Sum(f, 1 .. 4) = e[1 .. 4]
    BY <1>1, SumIs
  <2>2. g[1 .. 4] = e[1 .. 4]
    BY <1>1, <1>5, <2>1, AddsUnique
  <2> QED
    BY <1>6, <2>1, <2>2
<1>8. \A i \in 1 .. 4 : f[i] = Piece(i, l) /\ f[i] \in Int
  BY PieceType
<1> HIDE DEF f
<1>9. Sum(f, {}) = 0
  BY EmptySum
<1>10. Sum(f, T1) = f[1] + Sum(f, {})
  <2>1. 1 \notin {} /\ \A y \in T1 : f[y] \in Int
    BY <1>8
  <2>2. IsFiniteSet({})
    BY FS_EmptySet
  <2> QED  BY <2>1, <2>2, SumAdd
<1>11. Sum(f, T2) = f[2] + Sum(f, T1)
  <2>1. 2 \notin T1 /\ \A y \in T2 : f[y] \in Int
    BY <1>8
  <2> HIDE DEF T1
  <2> QED  BY <1>0, <2>1, SumAdd
<1>12. Sum(f, T3) = f[3] + Sum(f, T2)
  <2>1. 3 \notin T2 /\ \A y \in T3 : f[y] \in Int
    BY <1>8
  <2> HIDE DEF T2
  <2> QED  BY <1>0, <2>1, SumAdd
<1>13. Sum(f, T4) = f[4] + Sum(f, T3)
  <2>1. 4 \notin T3 /\ \A y \in T4 : f[y] \in Int
    BY <1>8
  <2> HIDE DEF T3
  <2> QED  BY <1>0, <2>1, SumAdd
<1> HIDE DEF T1, T2, T3, T4
<1>14. /\ f[1] = Piece(1, l) /\ f[2] = Piece(2, l)
       /\ f[3] = Piece(3, l) /\ f[4] = Piece(4, l)
  BY <1>8
<1>15. /\ Piece(1, l) \in Nat /\ Piece(2, l) \in Nat
       /\ Piece(3, l) \in Nat /\ Piece(4, l) \in Nat
  BY PieceType
<1>16. Sum(f, T4) = H!TableSize(l)
  BY <1>1, <1>7
<1> QED
  BY <1>9, <1>10, <1>11, <1>12, <1>13, <1>14, <1>15, <1>16

(* A larger size asks for as much at least.                                *)
LEMMA LargerTable ==
  ASSUME NEW l \in H!Logn, NEW m \in H!Logn, l <= m
  PROVE  /\ H!TableSize(l) \in Nat /\ H!TableSize(m) \in Nat
         /\ H!TableSize(l) <= H!TableSize(m)
<1>1. Pow2[l] \in Nat /\ Pow2[m] \in Nat /\ Pow2[l] <= Pow2[m]
  BY PartsAssumption, HeapConstants DEF H!HeapAssumption
<1>2. ASSUME NEW i \in 1 .. 4 PROVE Piece(i, l) <= Piece(i, m)
  <2>1. /\ H!Allocated(i, l) \in Nat /\ H!Allocated(i, m) \in Nat
        /\ H!Allocated(i, l) <= H!Allocated(i, m)
    BY <1>1 DEF H!Allocated, H!Max1
  <2>2. ASSUME NEW a \in Nat, NEW b \in Nat, a <= b
        PROVE  H!BlockSize(a * 8) <= H!BlockSize(b * 8)
    BY <2>2, HeapConstants DEF H!BlockSize
  <2> QED
    BY <2>1, <2>2 DEF Piece, H!SizeofDouble
<1>3. \A i \in 1 .. 4 : Piece(i, l) \in Nat /\ Piece(i, m) \in Nat
  BY PieceType
<1>4. /\ Piece(1, l) <= Piece(1, m) /\ Piece(2, l) <= Piece(2, m)
      /\ Piece(3, l) <= Piece(3, m) /\ Piece(4, l) <= Piece(4, m)
  BY <1>2
<1> QED
  BY <1>3, <1>4, TableSizeIs

LEMMA PieceNotEmpty ==
  ASSUME NEW i \in 1 .. 4, NEW l \in H!Logn
  PROVE  Piece(i, l) > 0
<1>1. Pow2[l] \in Nat /\ Pow2[l] >= 2
  BY PartsAssumption, HeapConstants DEF H!HeapAssumption
<1>2. H!Allocated(i, l) \in Nat /\ H!Allocated(i, l) >= 1
  BY <1>1 DEF H!Allocated, H!Max1
<1> QED
  BY <1>2, HeapConstants DEF Piece, H!BlockSize, H!SizeofDouble


-----------------------------------------------------------------------------
(***************************************************************************)
(* Why memory is refused.  Until an allocation is refused nothing has been *)
(* given back, and the blocks fill the heap without a gap (PackInv); from  *)
(* the first refusal on the size it happened to, and with it every size    *)
(* that is not ready, lacks room (LackInv), since what is ready and what   *)
(* the C library holds only grows.                                         *)
(***************************************************************************)
Others == BytesOf(H!Own(0))

Used == _end + Sum(SizeOfTable, ready) + Others

(* The bytes of the first n - 1 arrays.                                    *)
Asked(l, n) ==
  (IF n > 1 THEN Piece(1, l) ELSE 0) + (IF n > 2 THEN Piece(2, l) ELSE 0)
    + (IF n > 3 THEN Piece(3, l) ELSE 0) + (IF n > 4 THEN Piece(4, l) ELSE 0)

(* How many arrays my_fft_init has asked for.                              *)
Requests == IF next = 0 THEN 0 ELSE next - 1

Granted == H!Cardinality(H!Own(logn))

Covered ==
  \A a \in Nat : _end <= a /\ a < H!HeapEnd =>
    \E p \in live : p.at <= a /\ a < p.at + p.size

PackInv ==
  phase = "prepare" =>
    \/ /\ Covered
       /\ H!HeapEnd = Used + Asked(logn, next)
       /\ Granted = Requests
    \/ /\ Used + Asked(logn, next) > H!max_heap
       /\ Granted < Requests

LackInv ==
  phase = "run" =>
    \A l \in H!Logn \ ready : Used + H!TableSize(l) > H!max_heap

OwnersInv ==
  /\ IsFiniteSet(live)
  /\ \A p \in live : p.owner \in {0} \cup ready \/ (next # 0 /\ p.owner = logn)
  /\ H!Cardinality(H!Own(0)) <= MaxOthers
  /\ \A p \in H!Own(0) : \E bytes \in OtherSizes : p.size = H!BlockSize(bytes)

RoomInv == PackInv /\ LackInv /\ OwnersInv

LEMMA CardinalityIs == \A s : H!Cardinality(s) = Cardinality(s)
BY DEF H!Cardinality, Cardinality

LEMMA OwnFinite ==
  ASSUME OwnersInv, NEW l
  PROVE  /\ IsFiniteSet(H!Own(l)) /\ H!Cardinality(H!Own(l)) \in Nat
<1>1. H!Own(l) \in SUBSET live
  BY DEF H!Own
<1>2. IsFiniteSet(H!Own(l))
  BY <1>1, FS_Subset DEF OwnersInv
<1> QED
  BY <1>2, FS_CardinalityType, CardinalityIs

(* One block more.                                                         *)
LEMMA BytesAdd ==
  ASSUME NEW B, IsFiniteSet(B), \A p \in B : p.size \in Nat,
         NEW x, x \notin B, x.size \in Nat
  PROVE  /\ BytesOf(B \cup {x}) = x.size + BytesOf(B)
         /\ BytesOf(B) \in Nat
<1> DEFINE f == [p \in B \cup {x} |-> p.size]
           g == [p \in B |-> p.size]
<1>1. \A p \in B \cup {x} : f[p] = p.size /\ f[p] \in Nat /\ f[p] \in Int
  OBVIOUS
<1>2. \A p \in B : f[p] = g[p]
  OBVIOUS
<1>3. f[x] = x.size
  OBVIOUS
<1> HIDE DEF f, g
<1>4. Sum(f, B \cup {x}) = f[x] + Sum(f, B)
  BY <1>1, SumAdd
<1>5. Sum(f, B) = Sum(g, B)
  BY <1>2, SumEqual
<1>6. Sum(f, B) \in Nat
  BY <1>1, SumMore
<1> QED
  BY <1>3, <1>4, <1>5, <1>6 DEF BytesOf, f, g

LEMMA BytesType ==
  ASSUME NEW B, IsFiniteSet(B), \A p \in B : p.size \in Nat
  PROVE  BytesOf(B) \in Nat
<1> DEFINE g == [p \in B |-> p.size]
<1>1. \A p \in B : g[p] \in Nat
  OBVIOUS
<1> HIDE DEF g
<1>2. Sum(g, B) \in Nat
  BY <1>1, SumMore
<1> QED
  BY <1>2 DEF BytesOf, g

(* The parts of Used are numbers, and a table that gets ready adds to it.  *)
LEMMA UsedType ==
  ASSUME HeapInv, OwnersInv
  PROVE  /\ Others \in Nat /\ Used \in Nat
         /\ \A R \in SUBSET H!Logn : Sum(SizeOfTable, R) \in Nat
         /\ \A R \in SUBSET H!Logn : \A l \in H!Logn \ R :
              /\ H!TableSize(l) \in Nat
              /\ Sum(SizeOfTable, R \cup {l}) = H!TableSize(l) + Sum(SizeOfTable, R)
         /\ \A R \in SUBSET H!Logn : Sum(SizeOfTable, R) <= Sum(SizeOfTable, H!Logn)
<1>1. IsFiniteSet(H!Logn) /\ \A l \in H!Logn : SizeOfTable[l] = H!TableSize(l)
  BY HeapConstants, FS_Interval DEF H!Logn, SizeOfTable
<1>2. \A l \in H!Logn : H!TableSize(l) \in Nat /\ l <= l
  BY LargerTable, HeapConstants
<1>3. \A l \in H!Logn : SizeOfTable[l] \in Nat /\ SizeOfTable[l] \in Int
  BY <1>1, <1>2
<1>4. \A R \in SUBSET H!Logn :
        Sum(SizeOfTable, R) \in Nat /\ Sum(SizeOfTable, R) <= Sum(SizeOfTable, H!Logn)
  BY <1>1, <1>3, SumMore
<1>5. ASSUME NEW R \in SUBSET H!Logn, NEW l \in H!Logn \ R
      PROVE  Sum(SizeOfTable, R \cup {l}) = H!TableSize(l) + Sum(SizeOfTable, R)
  <2>1. IsFiniteSet(R) /\ \A y \in R \cup {l} : SizeOfTable[y] \in Int
    BY <1>1, <1>3, FS_Subset
  <2> QED
    BY <1>1, <2>1, SumAdd
<1>6. Others \in Nat
  <2>1. IsFiniteSet(H!Own(0)) /\ \A p \in H!Own(0) : p.size \in Nat
    BY OwnFinite DEF HeapInv, BlocksInv, H!Own
  <2> QED
    BY <2>1, BytesType DEF Others
<1>7. Used \in Nat
  BY <1>4, <1>6 DEF HeapInv, ImageInv, PhaseInv, Used
<1> QED
  BY <1>2, <1>4, <1>5, <1>6, <1>7

(* The next malloc of a heap without a gap.                                *)
LEMMA MallocPacks ==
  ASSUME HeapInv, Covered, NEW bytes \in Nat, H!BlockSize(bytes) > 0, NEW owner,
         H!Malloc(bytes, owner), UNCHANGED _end
  PROVE  /\ Covered'
         /\ \/ /\ live' = live /\ H!HeapEnd' = H!HeapEnd
               /\ H!HeapEnd + H!BlockSize(bytes) > H!max_heap
            \/ /\ H!HeapEnd' = H!HeapEnd + H!BlockSize(bytes)
               /\ \E new : /\ live' = live \cup {new} /\ new \notin live
                           /\ new.size = H!BlockSize(bytes) /\ new.owner = owner
<1> DEFINE size == H!BlockSize(bytes)
<1>1. size \in Nat /\ size > 0 /\ H!HeapEnd \in Nat
  BY BlockSizeType, HeapEndType
<1>2. H!Gaps(size) = {}
  <2> SUFFICES ASSUME NEW s \in H!Gaps(size) PROVE FALSE
    OBVIOUS
  <2>1. /\ s \in H!Starts /\ s + size <= H!HeapEnd
        /\ \A blk \in live : blk.at + blk.size <= s \/ s + size <= blk.at
    BY DEF H!Gaps
  <2>2. s \in Nat /\ _end <= s /\ _end \in Nat
    BY <2>1 DEF HeapInv, ImageInv, BlocksInv, H!Starts
  <2> HIDE DEF size
  <2>3. s < H!HeapEnd
    BY <1>1, <2>1, <2>2
  <2>4. PICK p \in live : p.at <= s /\ s < p.at + p.size
    BY <2>2, <2>3 DEF Covered
  <2>5. p.at \in Nat /\ p.size \in Nat
    BY DEF HeapInv, BlocksInv
  <2> QED
    BY <1>1, <2>1, <2>2, <2>4, <2>5
<1>3. CASE H!_sbrkRefuses(size)
  <2>1. live' = live /\ heap_end' = H!HeapEnd
    BY <1>2, <1>3, Zenon DEF H!Malloc
  <2>2. H!HeapEnd' = H!HeapEnd
    BY <2>1, <1>1 DEF H!HeapEnd, H!NULL
  <2>3. Covered'
    BY <2>1, <2>2 DEF Covered
  <2>4. H!HeapEnd + size > H!max_heap
    BY <1>3 DEF H!_sbrkRefuses
  <2> QED
    BY <2>1, <2>2, <2>3, <2>4
<1>4. CASE ~ H!_sbrkRefuses(size)
  <2> DEFINE new == [at |-> H!HeapEnd, size |-> size, owner |-> owner]
  <2>1. live' = live \cup {new} /\ heap_end' = H!HeapEnd + size
    BY <1>2, <1>4, Zenon DEF H!Malloc
  <2>2. new.at = H!HeapEnd /\ new.size = size /\ new.owner = owner
    OBVIOUS
  <2> HIDE DEF new, size
  <2>3. H!HeapEnd' = H!HeapEnd + size
    BY <1>1, <2>1 DEF H!HeapEnd, H!NULL
  <2>4. \A p \in live : p.at + p.size <= H!HeapEnd
    BY DEF HeapInv, BlocksInv
  <2>5. new \notin live
    BY <1>1, <2>2, <2>4
  <2>6. ASSUME NEW a \in Nat, _end <= a, a < H!HeapEnd'
        PROVE  \E p \in live' : p.at <= a /\ a < p.at + p.size
    <3>1. CASE a < H!HeapEnd
      BY <2>1, <2>6, <3>1 DEF Covered
    <3>2. CASE ~ (a < H!HeapEnd)
      <4>1. new.at <= a /\ a < new.at + new.size
        BY <1>1, <2>2, <2>3, <2>6, <3>2
      <4> QED
        BY <2>1, <4>1
    <3> QED
      BY <3>1, <3>2
  <2>7. Covered'
    BY <2>6 DEF Covered
  <2>8. \E b : /\ live' = live \cup {b} /\ b \notin live
               /\ b.size = size /\ b.owner = owner
    BY <2>1, <2>2, <2>5
  <2> QED
    BY <2>3, <2>7, <2>8 DEF size
<1> QED
  BY <1>3, <1>4

(* A block without bytes is always there.                                  *)
LEMMA MallocOfNothing ==
  ASSUME HeapInv, NEW bytes \in Nat, H!BlockSize(bytes) = 0, NEW owner,
         H!Malloc(bytes, owner)
  PROVE  heap_end' = heap_end
<1>1. _end \in H!Gaps(0)
  BY HeapEndType DEF H!Gaps, H!Starts, HeapInv, ImageInv, BlocksInv, SbrkInv
<1>2. H!Gaps(H!BlockSize(bytes)) # {}
  BY <1>1
<1> QED
  BY <1>2, Zenon DEF H!Malloc

(* Whatever malloc does, it is at most one block more.                     *)
LEMMA MallocAdds ==
  ASSUME HeapInv, NEW bytes \in Nat, NEW owner, H!Malloc(bytes, owner)
  PROVE  \/ live' = live
         \/ \E new : /\ live' = live \cup {new}
                     /\ new.size = H!BlockSize(bytes) /\ new.owner = owner
<1> DEFINE new(a) == [at |-> a, size |-> H!BlockSize(bytes), owner |-> owner]
<1>1. live' = live \/ \E a : live' = live \cup {new(a)}
  BY Zenon DEF H!Malloc
<1>2. \A a : new(a).size = H!BlockSize(bytes) /\ new(a).owner = owner
  OBVIOUS
<1> HIDE DEF new
<1> QED
  BY <1>1, <1>2

(* What a block more adds to its owner, and to nobody else.                *)
OwnIn(B, o) == {p \in B : p.owner = o}

LEMMA OwnNow == \A o : H!Own(o) = OwnIn(live, o)
BY DEF H!Own, OwnIn

LEMMA OwnNext ==
  /\ Granted = H!Cardinality(OwnIn(live, logn))
  /\ Granted' = H!Cardinality(OwnIn(live', logn'))
  /\ Others = BytesOf(OwnIn(live, 0)) /\ Others' = BytesOf(OwnIn(live', 0))
  /\ H!Own(0) = OwnIn(live, 0) /\ H!Own(0)' = OwnIn(live', 0)
BY DEF Granted, Others, H!Own, OwnIn

LEMMA OneBlockMore ==
  ASSUME HeapInv, OwnersInv, NEW new, new.size \in Nat, NEW more,
         more = live \cup {new}, NEW o
  PROVE  /\ IsFiniteSet(more)
         /\ new.owner # o => OwnIn(more, o) = OwnIn(live, o)
         /\ new \in live => OwnIn(more, o) = OwnIn(live, o)
         /\ H!Cardinality(OwnIn(live, o)) \in Nat
         /\ H!Cardinality(OwnIn(more, o)) \in Nat
         /\ H!Cardinality(OwnIn(more, o)) <= H!Cardinality(OwnIn(live, o)) + 1
         /\ new.owner = o => OwnIn(more, o) = OwnIn(live, o) \cup {new}
         /\ new.owner = o /\ new \notin live =>
              /\ H!Cardinality(OwnIn(more, o)) = H!Cardinality(OwnIn(live, o)) + 1
              /\ BytesOf(OwnIn(more, o)) = new.size + BytesOf(OwnIn(live, o))
<1>1. IsFiniteSet(more)
  BY FS_AddElement DEF OwnersInv
<1>2. /\ new.owner # o => OwnIn(more, o) = OwnIn(live, o)
      /\ new.owner = o => OwnIn(more, o) = OwnIn(live, o) \cup {new}
      /\ new \in live => OwnIn(more, o) = OwnIn(live, o)
      /\ new \notin live => new \notin OwnIn(live, o)
  BY DEF OwnIn
<1>3. IsFiniteSet(OwnIn(live, o)) /\ H!Cardinality(OwnIn(live, o)) \in Nat
  BY OwnFinite, OwnNow
<1>4. \A p \in OwnIn(live, o) : p.size \in Nat
  BY DEF HeapInv, BlocksInv, OwnIn
<1>5. ASSUME new.owner = o, new \notin live
      PROVE  /\ H!Cardinality(OwnIn(more, o)) = H!Cardinality(OwnIn(live, o)) + 1
             /\ BytesOf(OwnIn(more, o)) = new.size + BytesOf(OwnIn(live, o))
  <2>1. BytesOf(OwnIn(live, o) \cup {new}) = new.size + BytesOf(OwnIn(live, o))
    BY <1>2, <1>3, <1>4, <1>5, BytesAdd
  <2>2. Cardinality(OwnIn(live, o) \cup {new}) = Cardinality(OwnIn(live, o)) + 1
    BY <1>2, <1>3, <1>5, FS_AddElement
  <2> QED
    BY <1>2, <1>5, <2>1, <2>2, CardinalityIs
<1>6. /\ H!Cardinality(OwnIn(more, o)) \in Nat
      /\ H!Cardinality(OwnIn(more, o)) <= H!Cardinality(OwnIn(live, o)) + 1
  BY <1>2, <1>3, <1>5
<1> QED
  BY <1>1, <1>2, <1>3, <1>5, <1>6

LEMMA AskedMore ==
  ASSUME NEW l \in H!Logn, NEW n \in 1 .. 4
  PROVE  /\ Asked(l, n) \in Nat /\ Asked(l, n + 1) \in Nat
         /\ Asked(l, n + 1) = Asked(l, n) + Piece(n, l)
         /\ Piece(n, l) \in Nat
<1>1. /\ Piece(1, l) \in Nat /\ Piece(2, l) \in Nat
      /\ Piece(3, l) \in Nat /\ Piece(4, l) \in Nat
  BY PieceType
<1>2. n = 1 \/ n = 2 \/ n = 3 \/ n = 4
  OBVIOUS
<1> QED
  BY <1>1, <1>2 DEF Asked

LEMMA AskedAll ==
  ASSUME NEW l \in H!Logn
  PROVE  /\ Asked(l, 0) = 0 /\ Asked(l, 1) = 0
         /\ Asked(l, 5) = H!TableSize(l)
<1>1. /\ Piece(1, l) \in Nat /\ Piece(2, l) \in Nat
      /\ Piece(3, l) \in Nat /\ Piece(4, l) \in Nat
  BY PieceType
<1> QED
  BY <1>1, TableSizeIs DEF Asked

LEMMA RoomInit == H!Init => RoomInv
<1> SUFFICES ASSUME H!Init PROVE RoomInv
  OBVIOUS
<1>0. /\ live = {} /\ ready = {} /\ next = 0 /\ logn = 1 /\ phase = "prepare"
      /\ heap_end = H!NULL /\ _end \in Nat
  BY HeapConstants DEF H!Init
<1>1. \A l : H!Own(l) = {}
  BY <1>0 DEF H!Own
<1>2. \A l : H!Cardinality(H!Own(l)) = 0
  BY <1>1, CardinalityIs, FS_EmptySet
<1>3. OwnersInv
  BY <1>0, <1>1, <1>2, FS_EmptySet, PartsAssumption DEF OwnersInv, H!HeapAssumption
<1>4. H!HeapEnd = _end
  BY <1>0 DEF H!HeapEnd
<1>5. Used = _end
  <2>1. Sum(SizeOfTable, ready) = 0
    BY <1>0, EmptySum
  <2>2. Others = 0
    BY <1>1, EmptySum DEF Others, BytesOf
  <2> QED
    BY <1>0, <2>1, <2>2 DEF Used
<1>6. PackInv
  <2>1. Asked(logn, next) = 0
    BY <1>0 DEF Asked
  <2>2. Covered
    BY <1>0, <1>4 DEF Covered
  <2>3. Granted = Requests
    BY <1>0, <1>2 DEF Granted, Requests
  <2> QED
    BY <1>0, <1>4, <1>5, <2>1, <2>2, <2>3 DEF PackInv
<1>7. LackInv
  BY <1>0 DEF LackInv
<1> QED
  BY <1>3, <1>6, <1>7 DEF RoomInv

(* What a step leaves of it that keeps the blocks and the tables.          *)
LEMMA UsedKept ==
  ASSUME UNCHANGED <<_end, live, ready>>
  PROVE  Used' = Used /\ Others' = Others
BY DEF Used, Others, H!Own

LEMMA RoomUnchanged == RoomInv /\ UNCHANGED heapvars => RoomInv'
<1> SUFFICES ASSUME RoomInv, UNCHANGED heapvars PROVE RoomInv'
  OBVIOUS
<1> USE DEF heapvars
<1>1. Used' = Used /\ H!HeapEnd' = H!HeapEnd /\ H!max_heap' = H!max_heap
  BY UsedKept DEF H!HeapEnd, H!max_heap
<1>2. Granted' = Granted /\ Requests' = Requests /\ Covered' = Covered
      /\ Asked(logn, next)' = Asked(logn, next)
  BY <1>1 DEF Granted, Requests, Covered, H!Own, Asked
<1>3. PackInv'
  BY <1>1, <1>2 DEF RoomInv, PackInv
<1>4. LackInv'
  BY <1>1 DEF RoomInv, LackInv
<1>5. OwnersInv'
  BY DEF RoomInv, OwnersInv, H!Own
<1> QED
  BY <1>3, <1>4, <1>5 DEF RoomInv

LEMMA RoomCallInit ==
  ASSUME HeapInv, RoomInv, NEW l \in H!Logn, H!CallInit(l)
  PROVE  RoomInv'
<1>1. /\ next = 0 /\ l \notin ready /\ (phase = "prepare" => l = logn)
      /\ logn' = l /\ next' = 1
      /\ UNCHANGED <<_end, _Min_Heap_Size, heap_end, live, ready, phase>>
  BY Zenon DEF H!CallInit, H!image
<1>2. Used' = Used /\ H!HeapEnd' = H!HeapEnd
  BY <1>1, UsedKept DEF H!HeapEnd
<1>3. \A o : H!Own(o)' = H!Own(o)
  BY <1>1 DEF H!Own
<1>4. PackInv'
  <2> SUFFICES ASSUME phase = "prepare" PROVE PackInv'
    BY <1>1 DEF PackInv
  <2>1. logn' = logn /\ logn \in H!Logn
    BY <1>1 DEF HeapInv, PhaseInv
  <2>2. Granted' = Granted /\ Granted \in Nat
    BY <1>1, <2>1, <1>3, OwnFinite DEF Granted, RoomInv
  <2>3. Requests = 0 /\ Requests' = 0
    BY <1>1 DEF Requests
  <2>4. Asked(logn, next) = 0 /\ Asked(logn, next)' = 0
    BY <1>1, <2>1, AskedAll
  <2>5. Covered /\ H!HeapEnd = Used + Asked(logn, next) /\ Granted = Requests
    BY <2>2, <2>3 DEF RoomInv, PackInv
  <2>6. Covered'
    BY <1>1, <1>2, <2>5 DEF Covered
  <2> QED
    BY <1>2, <2>2, <2>3, <2>4, <2>5, <2>6 DEF PackInv
<1>5. LackInv'
  BY <1>1, <1>2 DEF RoomInv, LackInv, H!max_heap
<1>6. OwnersInv'
  BY <1>1, <1>3 DEF RoomInv, OwnersInv
<1> QED
  BY <1>4, <1>5, <1>6 DEF RoomInv

LEMMA RoomInitMalloc ==
  ASSUME HeapInv, RoomInv, H!InitMalloc
  PROVE  RoomInv'
<1>1. /\ next \in 1 .. 4 /\ next' = next + 1
      /\ H!Malloc(H!Allocated(next, logn) * H!SizeofDouble, logn)
      /\ UNCHANGED <<_end, _Min_Heap_Size, ready, phase, logn>>
  BY Zenon DEF H!InitMalloc, H!image
<1> DEFINE bytes == H!Allocated(next, logn) * H!SizeofDouble
<1>2. /\ logn \in H!Logn /\ logn # 0 /\ logn \notin ready
      /\ bytes \in Nat /\ H!BlockSize(bytes) = Piece(next, logn)
      /\ Piece(next, logn) \in Nat /\ Piece(next, logn) > 0
  <2>1. logn \in H!Logn /\ logn \notin ready
    BY <1>1 DEF HeapInv, PhaseInv
  <2> QED
    BY <1>1, <2>1, HeapConstants, AllocatedType, PieceType, PieceNotEmpty DEF Piece
<1> HIDE DEF bytes
<1>3. OwnersInv
  BY DEF RoomInv
<1>4. \/ live' = live
      \/ \E new : /\ live' = live \cup {new}
                  /\ new.size = H!BlockSize(bytes) /\ new.owner = logn
  BY <1>1, <1>2, MallocAdds DEF bytes
<1>5. /\ OwnIn(live', 0) = OwnIn(live, 0)
      /\ IsFiniteSet(live')
      /\ H!Cardinality(OwnIn(live', logn)) <= H!Cardinality(OwnIn(live, logn)) + 1
      /\ H!Cardinality(OwnIn(live, logn)) \in Nat
      /\ H!Cardinality(OwnIn(live', logn)) \in Nat
      /\ \A p \in live' : p \in live \/ p.owner = logn
  <2>1. CASE live' = live
    <3>1. H!Cardinality(OwnIn(live, logn)) \in Nat
      BY <1>3, OwnFinite, OwnNow
    <3>2. IsFiniteSet(live)
      BY <1>3 DEF OwnersInv
    <3> QED
      BY <2>1, <3>1, <3>2
  <2>2. CASE live' # live
    <3>1. PICK new : /\ live' = live \cup {new}
                     /\ new.size = H!BlockSize(bytes) /\ new.owner = logn
      BY <1>4, <2>2
    <3>2. new.size \in Nat /\ new.owner # 0
      BY <1>2, <3>1
    <3>3. \A o : /\ IsFiniteSet(live')
                 /\ new.owner # o => OwnIn(live', o) = OwnIn(live, o)
                 /\ H!Cardinality(OwnIn(live, o)) \in Nat
                 /\ H!Cardinality(OwnIn(live', o)) \in Nat
                 /\ H!Cardinality(OwnIn(live', o)) <= H!Cardinality(OwnIn(live, o)) + 1
      BY <1>3, <3>1, <3>2, OneBlockMore
    <3>4. \A p \in live' : p \in live \/ p.owner = logn
      BY <3>1
    <3> QED
      BY <3>2, <3>3, <3>4
  <2> QED
    BY <2>1, <2>2
<1>14. /\ Granted \in Nat /\ Granted' \in Nat /\ Granted' <= Granted + 1
       /\ H!Own(0)' = H!Own(0) /\ Others' = Others
  <2>1. logn' = logn
    BY <1>1
  <2> QED
    BY <2>1, <1>5, OwnNext
<1>6. Used' = Used
  BY <1>1, <1>14 DEF Used
<1>7. /\ Asked(logn, next) \in Nat
      /\ Asked(logn, next)' = Asked(logn, next) + Piece(next, logn)
  BY <1>1, <1>2, AskedMore DEF Asked
<1>8. Requests \in Nat /\ Requests' = Requests + 1
  BY <1>1 DEF Requests
<1>9. Used \in Nat
  BY <1>3, UsedType
<1>10. H!max_heap' = H!max_heap /\ H!max_heap \in Int
  BY HeapConstants DEF H!max_heap, H!_estack
<1>11. PackInv'
  <2> SUFFICES ASSUME phase = "prepare" PROVE PackInv'
    BY <1>1 DEF PackInv
  <2>1. CASE Used + Asked(logn, next) > H!max_heap /\ Granted < Requests
    <3>1. Used' + Asked(logn, next)' > H!max_heap
      BY <1>2, <1>6, <1>7, <1>9, <1>10, <2>1
    <3>2. Granted' < Requests'
      BY <1>14, <1>8, <2>1
    <3> QED
      BY <1>10, <3>1, <3>2 DEF PackInv
  <2>2. CASE Covered /\ H!HeapEnd = Used + Asked(logn, next) /\ Granted = Requests
    <3>1. /\ Covered'
          /\ \/ /\ live' = live /\ H!HeapEnd' = H!HeapEnd
                /\ H!HeapEnd + H!BlockSize(bytes) > H!max_heap
             \/ /\ H!HeapEnd' = H!HeapEnd + H!BlockSize(bytes)
                /\ \E new : /\ live' = live \cup {new} /\ new \notin live
                            /\ new.size = H!BlockSize(bytes) /\ new.owner = logn
      BY <1>1, <1>2, <2>2, MallocPacks DEF bytes
    <3>2. CASE live' = live /\ H!HeapEnd + H!BlockSize(bytes) > H!max_heap
      <4>1. Granted' = Granted
        BY <1>1, <3>2, OwnNext
      <4>2. Used' + Asked(logn, next)' > H!max_heap
        BY <1>2, <1>6, <1>7, <1>9, <1>10, <2>2, <3>2
      <4>3. Granted' < Requests'
        BY <1>14, <1>8, <2>2, <4>1
      <4> QED
        BY <1>10, <4>2, <4>3 DEF PackInv
    <3>3. CASE /\ H!HeapEnd' = H!HeapEnd + H!BlockSize(bytes)
               /\ \E new : /\ live' = live \cup {new} /\ new \notin live
                           /\ new.size = H!BlockSize(bytes) /\ new.owner = logn
      <4>1. PICK new : /\ live' = live \cup {new} /\ new \notin live
                       /\ new.size = H!BlockSize(bytes) /\ new.owner = logn
        BY <3>3
      <4>2. H!Cardinality(OwnIn(live', logn)) = H!Cardinality(OwnIn(live, logn)) + 1
        BY <1>2, <1>3, <4>1, OneBlockMore
      <4>3. Granted' = Granted + 1
        <5>1. logn' = logn
          BY <1>1
        <5> QED
          BY <4>2, <5>1, OwnNext
      <4>4. H!HeapEnd' = Used' + Asked(logn, next)'
        BY <1>2, <1>6, <1>7, <1>9, <2>2, <3>3
      <4>5. Granted' = Requests'
        BY <1>8, <2>2, <4>3
      <4> QED
        BY <3>1, <4>4, <4>5 DEF PackInv
    <3> QED
      BY <3>1, <3>2, <3>3
  <2> QED
    BY <2>1, <2>2 DEF RoomInv, PackInv
<1>12. LackInv'
  BY <1>1, <1>6, <1>10 DEF RoomInv, LackInv
<1>13. OwnersInv'
  BY <1>1, <1>3, <1>5, <1>14 DEF OwnersInv
<1> QED
  BY <1>11, <1>12, <1>13 DEF RoomInv

LEMMA RoomInitFail ==
  ASSUME HeapInv, RoomInv, H!InitFail
  PROVE  RoomInv'
<1>1. /\ next = 5 /\ live' = live \ H!Own(logn) /\ phase' = "run" /\ next' = 0
      /\ H!Cardinality(H!Own(logn)) < 4
      /\ UNCHANGED <<_end, _Min_Heap_Size, heap_end, ready, logn>>
  BY Zenon DEF H!InitFail, H!image
<1>2. OwnersInv
  BY DEF RoomInv
<1>3. logn \in H!Logn /\ logn # 0 /\ logn \notin ready
  BY <1>1, HeapConstants DEF HeapInv, PhaseInv
<1>4. H!Own(0)' = H!Own(0)
  <2>1. 0 # logn
    BY <1>3
  <2> QED
    BY <1>1, <2>1 DEF H!Own
<1>5. Used' = Used /\ Used \in Nat
  BY <1>1, <1>2, <1>4, UsedType DEF Used, Others
<1>6. H!max_heap' = H!max_heap /\ H!max_heap \in Int
  BY HeapConstants DEF H!max_heap, H!_estack
<1>7. OwnersInv'
  <2>1. IsFiniteSet(live')
    BY <1>1, <1>2, FS_Subset DEF OwnersInv
  <2>2. \A p \in live' : p.owner \in {0} \cup ready
    BY <1>1, <1>2 DEF OwnersInv, H!Own
  <2> QED
    BY <1>1, <1>2, <1>4, <2>1, <2>2 DEF OwnersInv
<1>8. LackInv'
  <2> SUFFICES ASSUME NEW l \in H!Logn \ ready
               PROVE  Used + H!TableSize(l) > H!max_heap
    BY <1>1, <1>5, <1>6 DEF LackInv
  <2>1. CASE phase = "run"
    BY <2>1 DEF RoomInv, LackInv
  <2>2. CASE phase = "prepare"
    <3>1. Requests = 4 /\ Granted < 4 /\ Granted \in Nat
      BY <1>1, <1>2, OwnFinite DEF Requests, Granted
    <3>2. Used + Asked(logn, next) > H!max_heap
      BY <2>2, <3>1 DEF RoomInv, PackInv
    <3>3. Asked(logn, next) = H!TableSize(logn)
      BY <1>1, <1>3, AskedAll
    <3>4. logn <= l
      BY <2>2, HeapConstants DEF HeapInv, PhaseInv, H!Logn
    <3>5. /\ H!TableSize(logn) \in Nat /\ H!TableSize(l) \in Nat
          /\ H!TableSize(logn) <= H!TableSize(l)
      BY <1>3, <3>4, LargerTable
    <3> QED
      BY <1>5, <1>6, <3>2, <3>3, <3>5
  <2> QED
    BY <2>1, <2>2 DEF HeapInv, PhaseInv
<1>9. PackInv'
  BY <1>1 DEF PackInv
<1> QED
  BY <1>7, <1>8, <1>9 DEF RoomInv

LEMMA RoomInitSucceed ==
  ASSUME HeapInv, RoomInv, H!InitSucceed
  PROVE  RoomInv'
<1>1. /\ next = 5 /\ H!Cardinality(H!Own(logn)) = 4 /\ next' = 0
      /\ ready' = ready \cup {logn}
      /\ IF phase = "prepare" /\ logn < MYFFT_MAX_LOGN
         THEN logn' = logn + 1 /\ phase' = phase
         ELSE logn' = logn /\ phase' = "run"
      /\ UNCHANGED <<_end, _Min_Heap_Size, heap_end, live>>
  BY Zenon DEF H!InitSucceed, H!image
<1>2. OwnersInv /\ PackInv /\ LackInv
  BY DEF RoomInv
<1>3. logn \in H!Logn /\ logn # 0 /\ logn \notin ready /\ ready \in SUBSET H!Logn
  BY <1>1, HeapConstants DEF HeapInv, PhaseInv
<1>4. H!HeapEnd' = H!HeapEnd /\ H!Own(0)' = H!Own(0) /\ Others' = Others
  BY <1>1 DEF H!HeapEnd, H!Own, Others
<1>5. H!max_heap' = H!max_heap /\ H!max_heap \in Int
  BY HeapConstants DEF H!max_heap, H!_estack
<1>6. /\ Used \in Nat /\ H!TableSize(logn) \in Nat
      /\ Used' = Used + H!TableSize(logn)
  <2>1. /\ Sum(SizeOfTable, ready) \in Nat /\ Others \in Nat /\ Used \in Nat
        /\ H!TableSize(logn) \in Nat
        /\ Sum(SizeOfTable, ready \cup {logn}) = H!TableSize(logn) + Sum(SizeOfTable, ready)
    BY <1>2, <1>3, UsedType
  <2>2. Used' = _end + Sum(SizeOfTable, ready \cup {logn}) + Others
    BY <1>1, <1>4 DEF Used, SizeOfTable
  <2>3. _end \in Nat
    BY DEF HeapInv, ImageInv
  <2> QED
    BY <2>1, <2>2, <2>3 DEF Used
<1>7. \A p \in live : p.owner \in {0} \cup ready \cup {logn}
  BY <1>2 DEF OwnersInv
<1>8. OwnersInv'
  BY <1>1, <1>2, <1>4, <1>7 DEF OwnersInv
<1>9. LackInv'
  <2> SUFFICES ASSUME phase' = "run", NEW l \in H!Logn \ ready'
               PROVE  Used' + H!TableSize(l) > H!max_heap
    BY <1>5 DEF LackInv
  <2>1. phase = "run"
    <3>1. CASE phase = "prepare"
      <4>1. logn = MYFFT_MAX_LOGN /\ ready' = 1 .. MYFFT_MAX_LOGN
        BY <1>1, <3>1, HeapConstants DEF HeapInv, PhaseInv, H!Logn
      <4> QED
        BY <4>1 DEF H!Logn
    <3> QED
      BY <3>1 DEF HeapInv, PhaseInv
  <2>2. Used + H!TableSize(l) > H!max_heap
    BY <1>1, <1>2, <2>1 DEF LackInv
  <2>3. H!TableSize(l) \in Nat
    BY LargerTable, HeapConstants
  <2> QED
    BY <1>5, <1>6, <2>2, <2>3
<1>10. PackInv'
  <2> SUFFICES ASSUME phase' = "prepare" PROVE PackInv'
    BY DEF PackInv
  <2>1. phase = "prepare" /\ logn' = logn + 1 /\ ready = 1 .. logn - 1
    BY <1>1 DEF HeapInv, PhaseInv
  <2>2. Requests = 4 /\ Granted = 4
    BY <1>1 DEF Requests, Granted
  <2>3. Covered /\ H!HeapEnd = Used + Asked(logn, next)
    BY <1>2, <2>1, <2>2 DEF PackInv
  <2>4. Asked(logn, next) = H!TableSize(logn) /\ Asked(logn, next)' = 0
    <3>1. Asked(logn, 5) = H!TableSize(logn)
      BY <1>3, AskedAll
    <3> QED
      BY <1>1, <3>1 DEF Asked
  <2>5. Covered'
    BY <1>1, <1>4, <2>3 DEF Covered
  <2>6. H!HeapEnd' = Used' + Asked(logn, next)'
    BY <1>4, <1>6, <2>3, <2>4
  <2>7. Granted' = 0
    <3>1. logn + 1 \notin {0} \cup ready \cup {logn}
      BY <1>3, <2>1, HeapConstants
    <3>2. OwnIn(live', logn') = {}
      BY <1>1, <1>7, <2>1, <3>1 DEF OwnIn
    <3> QED
      BY <3>2, OwnNext, CardinalityIs, FS_EmptySet
  <2>8. Requests' = 0
    BY <1>1 DEF Requests
  <2> QED
    BY <2>5, <2>6, <2>7, <2>8 DEF PackInv
<1> QED
  BY <1>8, <1>9, <1>10 DEF RoomInv

LEMMA RoomOther ==
  ASSUME HeapInv, RoomInv, H!Other
  PROVE  RoomInv'
<1>1. /\ next = 0 /\ H!Cardinality(H!Own(0)) < MaxOthers
      /\ UNCHANGED <<_end, _Min_Heap_Size, ready, phase, logn, next>>
  BY Zenon DEF H!Other, H!image
<1>2. PICK bytes \in OtherSizes : H!Malloc(bytes, 0)
  BY Zenon DEF H!Other
<1>3. bytes \in Nat /\ H!BlockSize(bytes) \in Nat
  BY HeapConstants, BlockSizeType
<1>4. OwnersInv /\ PackInv /\ LackInv
  BY DEF RoomInv
<1>5. logn \in H!Logn /\ logn # 0
  BY HeapConstants DEF HeapInv, PhaseInv
<1>6. H!max_heap' = H!max_heap /\ H!max_heap \in Int
  BY HeapConstants DEF H!max_heap, H!_estack
<1>7. /\ Used \in Nat /\ Others \in Nat /\ Sum(SizeOfTable, ready) \in Nat
      /\ ready \in SUBSET H!Logn /\ _end \in Nat
  BY <1>4, UsedType DEF HeapInv, PhaseInv, ImageInv
<1>8. Used' = _end + Sum(SizeOfTable, ready) + Others'
  BY <1>1 DEF Used, SizeOfTable
<1>9. MaxOthers \in Nat
  BY PartsAssumption DEF H!HeapAssumption
<1>10. /\ IsFiniteSet(live')
       /\ H!Cardinality(OwnIn(live', 0)) <= MaxOthers
       /\ Granted' = Granted /\ Granted \in Nat
       /\ \A p \in live' : p \in live \/ (p.owner = 0 /\ p.size = H!BlockSize(bytes))
       /\ live' = live \/ (live' # live /\ Others' = H!BlockSize(bytes) + Others)
  <2>0. H!Cardinality(OwnIn(live, 0)) \in Nat /\ H!Cardinality(OwnIn(live, logn)) \in Nat
    BY <1>4, OwnFinite, OwnNow
  <2>1. CASE live' = live
    <3>1. IsFiniteSet(live)
      BY <1>4 DEF OwnersInv
    <3>2. H!Cardinality(OwnIn(live, 0)) <= MaxOthers
      BY <1>4, OwnNow DEF OwnersInv
    <3> QED
      BY <1>1, <2>0, <2>1, <3>1, <3>2, OwnNext
  <2>2. CASE live' # live
    <3>1. PICK new : /\ live' = live \cup {new}
                     /\ new.size = H!BlockSize(bytes) /\ new.owner = 0
      BY <1>2, <1>3, <2>2, MallocAdds
    <3>2. new.size \in Nat /\ new \notin live /\ new.owner # logn
      BY <1>3, <1>5, <2>2, <3>1
    <3>3. /\ IsFiniteSet(live')
          /\ H!Cardinality(OwnIn(live', 0)) = H!Cardinality(OwnIn(live, 0)) + 1
          /\ BytesOf(OwnIn(live', 0)) = new.size + BytesOf(OwnIn(live, 0))
          /\ OwnIn(live', logn) = OwnIn(live, logn)
      BY <1>4, <3>1, <3>2, OneBlockMore
    <3>4. H!Cardinality(OwnIn(live, 0)) < MaxOthers
      BY <1>1, OwnNow
    <3>5. \A p \in live' : p \in live \/ (p.owner = 0 /\ p.size = H!BlockSize(bytes))
      BY <3>1
    <3>6. Granted' = Granted /\ Granted \in Nat
      BY <1>1, <2>0, <3>3, OwnNext
    <3> QED
      BY <1>9, <2>0, <2>2, <3>1, <3>3, <3>4, <3>5, <3>6, OwnNext
  <2> QED
    BY <2>1, <2>2
<1>11. Others' \in Nat /\ Others' >= Others /\ Used' \in Nat /\ Used' >= Used
  <2>1. CASE live' = live
    <3>1. Others' = Others
      BY <2>1, OwnNext
    <3> QED
      BY <1>7, <1>8, <3>1 DEF Used
  <2>2. CASE live' # live
    <3>1. Others' = H!BlockSize(bytes) + Others
      BY <1>10, <2>2
    <3> QED
      BY <1>3, <1>7, <1>8, <3>1 DEF Used
  <2> QED
    BY <2>1, <2>2
<1>12. OwnersInv'
  <2>1. \A p \in H!Own(0)' : \E b \in OtherSizes : p.size = H!BlockSize(b)
    <3>1. \A p \in OwnIn(live', 0) : \E b \in OtherSizes : p.size = H!BlockSize(b)
      BY <1>4, <1>10, OwnNow DEF OwnersInv, OwnIn
    <3> QED
      BY <3>1, OwnNext
  <2>2. H!Cardinality(H!Own(0))' <= MaxOthers
    BY <1>10 DEF H!Own, OwnIn
  <2>3. \A p \in live' : p.owner \in {0} \cup ready
    BY <1>1, <1>4, <1>10 DEF OwnersInv
  <2> QED
    BY <1>1, <1>10, <2>1, <2>2, <2>3 DEF OwnersInv
<1>13. LackInv'
  <2> SUFFICES ASSUME phase = "run", NEW l \in H!Logn \ ready
               PROVE  Used' + H!TableSize(l) > H!max_heap
    BY <1>1, <1>6 DEF LackInv
  <2>1. Used + H!TableSize(l) > H!max_heap
    BY <1>4 DEF LackInv
  <2>2. H!TableSize(l) \in Nat
    BY LargerTable, HeapConstants
  <2> QED
    BY <1>6, <1>7, <1>11, <2>1, <2>2
<1>14. PackInv'
  <2> SUFFICES ASSUME phase = "prepare" PROVE PackInv'
    BY <1>1 DEF PackInv
  <2>1. Requests = 0 /\ Requests' = 0
    BY <1>1 DEF Requests
  <2>2. Asked(logn, next) = 0 /\ Asked(logn, next)' = 0
    BY <1>1, <1>5, AskedAll
  <2>3. Covered /\ H!HeapEnd = Used
    BY <1>4, <1>7, <1>10, <2>1, <2>2 DEF PackInv
  <2>4. Granted' = Requests'
    BY <1>4, <1>10, <2>1 DEF PackInv
  <2>5. CASE H!BlockSize(bytes) > 0
    <3>1. /\ Covered'
          /\ \/ live' = live /\ H!HeapEnd' = H!HeapEnd
             \/ /\ H!HeapEnd' = H!HeapEnd + H!BlockSize(bytes)
                /\ \E new : live' = live \cup {new} /\ new \notin live
      BY <1>1, <1>2, <1>3, <2>3, <2>5, MallocPacks
    <3>2. H!HeapEnd' = Used'
      <4>1. CASE live' = live /\ H!HeapEnd' = H!HeapEnd
        <5>1. Others' = Others
          BY <4>1, OwnNext
        <5> QED
          BY <1>8, <2>3, <4>1, <5>1 DEF Used
      <4>2. CASE /\ H!HeapEnd' = H!HeapEnd + H!BlockSize(bytes)
                 /\ \E new : live' = live \cup {new} /\ new \notin live
        <5>1. live' # live
          BY <4>2
        <5>2. Others' = H!BlockSize(bytes) + Others
          BY <1>10, <5>1
        <5> QED
          BY <1>3, <1>7, <1>8, <2>3, <4>2, <5>2 DEF Used
      <4> QED
        BY <3>1, <4>1, <4>2
    <3>3. \A n \in Nat : n + 0 = n
      OBVIOUS
    <3>4. H!HeapEnd' = Used' + Asked(logn, next)'
      BY <1>11, <2>2, <3>2, <3>3, Zenon
    <3> QED
      BY <2>4, <3>1, <3>4 DEF PackInv
  <2>6. CASE ~ (H!BlockSize(bytes) > 0)
    <3>1. H!BlockSize(bytes) = 0
      BY <1>3, <2>6
    <3>2. heap_end' = heap_end
      BY <1>2, <1>3, <3>1, MallocOfNothing
    <3>3. H!HeapEnd' = H!HeapEnd
      BY <1>1, <3>2 DEF H!HeapEnd
    <3>4. Others' = Others
      BY <1>7, <1>10, <3>1, OwnNext
    <3>5. Used' = Used
      BY <1>8, <3>4 DEF Used
    <3>6. \A p \in live : p \in live'
      BY <1>2, <1>3, MallocAdds
    <3>7. Covered'
      BY <1>1, <2>3, <3>3, <3>6 DEF Covered
    <3> QED
      BY <1>7, <2>2, <2>3, <2>4, <3>3, <3>5, <3>7 DEF PackInv
  <2> QED
    BY <2>5, <2>6
<1> QED
  BY <1>12, <1>13, <1>14 DEF RoomInv

LEMMA RoomStep == HeapInv /\ RoomInv /\ [H!Next]_heapvars => RoomInv'
<1>1. ASSUME HeapInv, RoomInv, UNCHANGED heapvars PROVE RoomInv'
  BY <1>1, RoomUnchanged
<1>2. ASSUME HeapInv, RoomInv, H!AllReady PROVE RoomInv'
  BY <1>2, RoomUnchanged DEF H!AllReady, H!vars, heapvars
<1> QED
  BY <1>1, <1>2, RoomCallInit, RoomInitMalloc, RoomInitFail, RoomInitSucceed, RoomOther
  DEF H!Next

(* my_fft_init that fails lacks room.                                      *)
LEMMA RefusedForLackHolds == HeapInv /\ RoomInv => H!RefusedForLack
<1> SUFFICES ASSUME HeapInv, RoomInv, next = 5, H!Cardinality(H!Own(logn)) < 4
             PROVE  _end + H!MapThenSumSet(H!TableSize, ready \cup {logn})
                      + H!MapThenSumSet(LAMBDA blk : blk.size, H!Own(0)) > H!max_heap
  BY DEF H!RefusedForLack
<1>1. OwnersInv /\ PackInv /\ LackInv
  BY DEF RoomInv
<1>2. /\ logn \in H!Logn /\ logn \notin ready /\ ready \in SUBSET H!Logn
      /\ ready \cup {logn} \in SUBSET H!Logn /\ _end \in Nat
  BY DEF HeapInv, PhaseInv, ImageInv
<1>3. H!MapThenSumSet(H!TableSize, ready \cup {logn}) = Sum(SizeOfTable, ready \cup {logn})
  BY <1>2, TablesAsSum
<1>4. H!MapThenSumSet(LAMBDA blk : blk.size, H!Own(0)) = Others
  BY <1>1, OwnFinite, BytesAsSum DEF Others
<1>5. /\ Others \in Nat /\ Sum(SizeOfTable, ready) \in Nat /\ H!TableSize(logn) \in Nat
      /\ Sum(SizeOfTable, ready \cup {logn}) = H!TableSize(logn) + Sum(SizeOfTable, ready)
  BY <1>1, <1>2, UsedType
<1>6. Used + H!TableSize(logn) > H!max_heap
  <2>1. CASE phase = "run"
    BY <1>1, <1>2, <2>1 DEF LackInv
  <2>2. CASE phase = "prepare"
    <3>1. Requests = 4 /\ Granted < 4 /\ Granted \in Nat
      BY <1>1, OwnFinite DEF Requests, Granted
    <3>2. Used + Asked(logn, next) > H!max_heap
      BY <1>1, <2>2, <3>1 DEF PackInv
    <3>3. Asked(logn, next) = H!TableSize(logn)
      BY <1>2, AskedAll
    <3> QED
      BY <3>2, <3>3
  <2> QED
    BY <2>1, <2>2 DEF HeapInv, PhaseInv
<1>7. H!max_heap \in Int
  BY HeapConstants DEF H!max_heap, H!_estack
<1>8. _end + Sum(SizeOfTable, ready \cup {logn}) + Others > H!max_heap
  BY <1>2, <1>5, <1>6, <1>7 DEF Used
<1> QED
  BY <1>3, <1>4, <1>8

(* A size that is not ready at the end would need more than there is.      *)
LEMMA ReserveHolds ==
  ASSUME H!TablesFit
  PROVE  HeapInv /\ RoomInv => H!ReservedHeapSuffices
<1> SUFFICES ASSUME HeapInv, RoomInv, H!max_heap - _end >= H!Reserved, phase = "run",
                    NEW l \in H!Logn \ ready
             PROVE  FALSE
  BY DEF H!ReservedHeapSuffices, HeapInv, PhaseInv
<1>1. OwnersInv /\ LackInv
  BY DEF RoomInv
<1>2. /\ ready \in SUBSET H!Logn /\ ready \cup {l} \in SUBSET H!Logn /\ _end \in Nat
  BY DEF HeapInv, PhaseInv, ImageInv
<1>3. MaxOthers \in Nat
  BY PartsAssumption DEF H!HeapAssumption
<1> DEFINE all == Sum(SizeOfTable, H!Logn)
<1>4. /\ Others \in Nat /\ Sum(SizeOfTable, ready) \in Nat /\ H!TableSize(l) \in Nat
      /\ Sum(SizeOfTable, ready \cup {l}) = H!TableSize(l) + Sum(SizeOfTable, ready)
      /\ Sum(SizeOfTable, ready \cup {l}) <= all
      /\ all \in Nat
  BY <1>1, <1>2, UsedType
<1>5. H!MapThenSumSet(H!TableSize, H!Logn) = all
  BY TablesAsSum
<1>6. /\ all <= H!Reserved
      /\ \A b \in OtherSizes : MaxOthers * H!BlockSize(b) <= H!Reserved - all
      /\ H!Reserved \in Nat
  <2>1. \A bytes \in {0} \cup {H!BlockSize(b) : b \in OtherSizes} :
          all + MaxOthers * bytes <= H!Reserved
    BY <1>5 DEF H!TablesFit
  <2>2. H!Reserved \in Nat
    BY DEF H!Reserved
  <2>3. all + MaxOthers * 0 <= H!Reserved
    BY <2>1
  <2>4. \A b \in OtherSizes : all + MaxOthers * H!BlockSize(b) <= H!Reserved
    BY <2>1
  <2>5. \A b \in OtherSizes : MaxOthers * H!BlockSize(b) \in Nat
    BY <1>3, HeapConstants, BlockSizeType
  <2> HIDE DEF all
  <2> QED
    BY <1>3, <1>4, <2>2, <2>3, <2>4, <2>5
<1>7. Others <= H!Reserved - all
  <2> DEFINE f == [blk \in H!Own(0) |-> blk.size]
             B == H!Reserved - all
  <2>1. IsFiniteSet(H!Own(0)) /\ Cardinality(H!Own(0)) <= MaxOthers
    BY <1>1, OwnFinite, CardinalityIs DEF OwnersInv
  <2>2. \A p \in H!Own(0) : f[p] \in Nat /\ MaxOthers * f[p] <= B
    <3>1. \A p \in H!Own(0) : p.size \in Nat /\ \E b \in OtherSizes : p.size = H!BlockSize(b)
      BY <1>1 DEF OwnersInv, HeapInv, BlocksInv, H!Own
    <3> HIDE DEF B
    <3>2. \A b \in OtherSizes : MaxOthers * H!BlockSize(b) <= B
      BY <1>6 DEF B
    <3> QED
      BY <3>1, <3>2
  <2>3. B \in Nat
    BY <1>4, <1>6
  <2> HIDE DEF f, B
  <2>4. Sum(f, H!Own(0)) <= B
    BY <1>3, <2>1, <2>2, <2>3, SumFits
  <2> QED
    BY <2>4 DEF f, B, Others, BytesOf
<1>8. Used + H!TableSize(l) > H!max_heap
  BY <1>1 DEF LackInv
<1>9. H!max_heap \in Int
  BY HeapConstants DEF H!max_heap, H!_estack
<1> HIDE DEF all
<1> QED
  BY <1>2, <1>4, <1>6, <1>7, <1>8, <1>9 DEF Used

(***************************************************************************)
(* The whole of HeapSound: static data, heap and stack keep apart, my_fft_ *)
(* init fails only when the tables and the C library's blocks do not fit   *)
(* together, and 0x8000 bytes above _end are enough for every table, if    *)
(* all of them and these blocks add up to no more (TablesFit).             *)
(***************************************************************************)
THEOREM HeapIsSound ==
  ASSUME H!TablesFit
  PROVE  FirmwareSpec => []HeapSound
<1>1. FirmwareInit => HeapInv /\ RoomInv
  BY PartInits, HeapInit, RoomInit
<1>2. HeapInv /\ RoomInv /\ [FirmwareNext]_allvars => HeapInv' /\ RoomInv'
  BY PartSteps, HeapStepKeeps, RoomStep
<1>3. HeapInv /\ RoomInv => HeapSound
  BY HeapIsApart, RefusedForLackHolds, ReserveHolds DEF HeapSound
<1> QED
  BY <1>1, <1>2, <1>3, PTL DEF FirmwareSpec

-----------------------------------------------------------------------------
(***************************************************************************)
(* The verdict's types: a build counts at most one wrong coefficient per   *)
(* turn of the loop, and a margin stays below the cap, since the doublings *)
(* stop there.                                                             *)
(***************************************************************************)
VerdictInv ==
  /\ u \in 0 .. N
  /\ bad \in [Builds -> 0 .. u]
  /\ margin \in [Builds -> 0 .. MARGIN_CAP]
  /\ odd \in BOOLEAN

(* The loop that doubles: where it stops, if it does before the cap.       *)
LEMMA FirstReached ==
  ASSUME NEW A \in SUBSET (0 .. MARGIN_CAP)
  PROVE  (IF A = {} THEN MARGIN_CAP ELSE CHOOSE k_1 \in A : \A j \in A : k_1 <= j)
           \in 0 .. MARGIN_CAP
<1>1. MARGIN_CAP \in Nat
  BY VerdictAssumption
<1>2. CASE A # {}
  <2>1. \E x \in A : \A y \in A : x <= y
    BY <1>1, <1>2, LeastOf
  <2>2. (CHOOSE k_1 \in A : \A j \in A : k_1 <= j) \in A
    BY <2>1, Zenon
  <2> QED
    BY <1>2, <2>2
<1> QED
  BY <1>1, <1>2

LEMMA MarginType ==
  ASSUME NEW b, NEW c, NEW got
  PROVE  margin_bits(b, c, got) \in 0 .. MARGIN_CAP
<1>1. CASE b = "emu"
  BY <1>1, FirstReached, Zenon DEF margin_bits, Doublings
<1>2. CASE b # "emu"
  BY <1>2, FirstReached, Zenon DEF margin_bits, Doublings
<1> QED
  BY <1>1, <1>2

LEMMA VerdictInit == Init => VerdictInv
<1> SUFFICES ASSUME Init PROVE VerdictInv
  OBVIOUS
<1>1. u \in 0 .. N /\ 0 \in 0 .. u /\ MARGIN_CAP \in 0 .. MARGIN_CAP
  BY VerdictAssumption DEF Init
<1>2. bad \in [Builds -> 0 .. u]
  BY <1>1, Zenon DEF Init
<1>3. margin \in [Builds -> 0 .. MARGIN_CAP]
  BY <1>1, Zenon DEF Init
<1>4. odd \in BOOLEAN
  BY Zenon DEF Init
<1> QED
  BY <1>1, <1>2, <1>3, <1>4, Zenon DEF VerdictInv

LEMMA VerdictStep == VerdictInv /\ [Next]_vars => VerdictInv'
<1> SUFFICES ASSUME VerdictInv, [Next]_vars PROVE VerdictInv'
  OBVIOUS
<1> USE DEF VerdictInv
<1>1. CASE UNCHANGED vars
  BY <1>1 DEF vars
<1>2. ASSUME NEW c, NEW want, Judge(c, want) PROVE VerdictInv'
  <2>1. u' \in 0 .. N /\ u' = u + 1
    BY <1>2, VerdictAssumption DEF Judge
  <2>2. ASSUME NEW b \in Builds
        PROVE  bad[b] + (IF Got(b, c) # want THEN 1 ELSE 0) \in 0 .. u'
    <3>1. bad[b] \in 0 .. u
      OBVIOUS
    <3> QED
      BY <2>1, <3>1
  <2>3. bad' = [b \in Builds |-> bad[b] + (IF Got(b, c) # want THEN 1 ELSE 0)]
    BY <1>2 DEF Judge
  <2>4. bad' \in [Builds -> 0 .. u']
    BY <2>2, <2>3, Zenon
  <2>5. ASSUME NEW b \in Builds
        PROVE  Smaller(margin[b], margin_bits(b, c, Got(b, c))) \in 0 .. MARGIN_CAP
    <3>1. margin[b] \in 0 .. MARGIN_CAP
      OBVIOUS
    <3>2. margin_bits(b, c, Got(b, c)) \in 0 .. MARGIN_CAP
      BY MarginType
    <3> QED
      BY <3>1, <3>2, Zenon DEF Smaller
  <2>6. margin' = [b \in Builds |-> Smaller(margin[b], margin_bits(b, c, Got(b, c)))]
    BY <1>2, Zenon DEF Judge
  <2>7. margin' \in [Builds -> 0 .. MARGIN_CAP]
    BY <2>5, <2>6, Zenon
  <2>8. odd' \in BOOLEAN
    BY <1>2, Zenon DEF Judge
  <2> QED
    BY <2>1, <2>4, <2>7, <2>8
<1> QED
  BY <1>1, <1>2, Zenon DEF Next

LEMMA VerdictTypes == VerdictInv => TypeOK
<1> SUFFICES ASSUME VerdictInv PROVE TypeOK
  OBVIOUS
<1>1. u \in 0 .. N /\ 0 .. u \subseteq 0 .. N
  BY VerdictAssumption DEF VerdictInv
<1>2. \A b \in Builds : bad[b] \in 0 .. N
  BY <1>1, Zenon DEF VerdictInv
<1>3. bad \in [Builds -> 0 .. N]
  BY <1>2, Zenon DEF VerdictInv
<1> QED
  BY <1>1, <1>3, Zenon DEF VerdictInv, TypeOK

(***************************************************************************)
(* The state of every part of the firmware stays of its type: the counts   *)
(* and margins of a verdict, the registers and clocks of the start, the    *)
(* driver and the wire of the console, the blocks and tables of the heap.  *)
(***************************************************************************)
THEOREM PartsAreTyped == FirmwareSpec => []PartsTypeOK
<1> DEFINE AllInv == VerdictInv /\ StartInv /\ ConsoleInv /\ HeapInv
<1>1. FirmwareInit => AllInv
  BY PartInits, VerdictInit, StartInit, ConsoleInit, HeapInit
<1>2. AllInv /\ [FirmwareNext]_allvars => AllInv'
  BY PartSteps, VerdictStep, StartStep, ConsoleStep, HeapStepKeeps
<1>3. AllInv => PartsTypeOK
  BY VerdictTypes, StartTypes, HeapTypes DEF ConsoleInv, PartsTypeOK
<1> QED
  BY <1>1, <1>2, <1>3, PTL DEF FirmwareSpec

=============================================================================

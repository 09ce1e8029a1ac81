---------------------------- MODULE MCFirmware -----------------------------
(***************************************************************************)
(* Firmware for TLC.                                                       *)
(*                                                                         *)
(* Verdict: two coefficients, zeros, small values, those around 1/2, 1 and *)
(* 2, and integers that leave no bit for a fraction.                       *)
(*                                                                         *)
(* Startup: limits of three, two and four milliseconds, a tick counter     *)
(* that wraps after eight, and may do so in any wait.                      *)
(*                                                                         *)
(* Console: a report of two printf outputs, one of which fits into a       *)
(* stdout buffer, printed twice after a start and after each of two        *)
(* resets; the bytes differ, so that a loss or a change of order is seen.  *)
(*                                                                         *)
(* Heap: the numbers of the linker script, RAM of 128 KB, images whose     *)
(* static data end at 36 KB (about that of the firmware, 32 KB of which    *)
(* are the benchmark's buffers) or where the image just links with a heap  *)
(* of 0x8000, 0x4000, 0x1000 or 0x200.                                     *)
(***************************************************************************)
EXTENDS Firmware

MCNormSteps == <<8, 4, 2, 1>>

MCCoefficients ==
  {z \in Encodings : Exp(z) \in {0, 7, 10, 13, 14, 15, 16, 19}}

MCReport == <<<<"a", "b", "c">>, <<"d">>>>

MCPow2 == [l \in 1 .. MYFFT_MAX_LOGN |-> 2 ^ l]

Available == {32768, 16384, 4096, 512}

MCEnds == {36864} \cup {LENGTH_RAM - Min_Stack_Size - a : a \in Available}

(* The heap's 0x8000 hold every table, with the sizes and blocks above.    *)
ASSUME H!TablesFit

=============================================================================

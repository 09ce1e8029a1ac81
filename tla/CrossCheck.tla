----------------------------- MODULE CrossCheck -----------------------------
(***************************************************************************)
(* T11 of test_myfft.c: the same operands are multiplied by myfft.c and by *)
(* the reference, and what the two leave is compared, in the FFT domain    *)
(* slot by slot and after the inverse transform coefficient by             *)
(* coefficient.  The reference is RefMul, on the arrays ref and ref2 of    *)
(* the test (out and fb there); myfft.c is MyMul, on mine and mine2 (mine  *)
(* and tmp there).                                                         *)
(***************************************************************************)
EXTENDS RefMul, MyMul

myOwn == <<mine, tmp, myArr, myPc, myCounters>>
refOwn == <<out, fb, arr, pc, counters>>

CrossInit == Init /\ MyInit

(* The calls of myfft.c come first, forward as well as inverse.            *)
MineTurn ==
  \/ pc = "convert" /\ myPc # "my_poly_mul_fft"
  \/ pc = "poly_mul_fft" /\ myPc # "done"

Mine == MineTurn /\ MyNext /\ UNCHANGED refOwn

Reference == ~MineTurn /\ Next /\ UNCHANGED myOwn

CrossNext == Mine \/ Reference

CrossSpec == CrossInit /\ [][CrossNext]_<<vars, myOwn>>
                       /\ WF_<<vars, myOwn>>(CrossNext)

-----------------------------------------------------------------------------
(***************************************************************************)
(* The invariants of MyMul, for the calls of myfft.c: no butterfly leaves  *)
(* its array or the table it strides through, and within a stage every     *)
(* slot holds what its block stands for, before or after its butterfly,    *)
(* forward the twisted coefficient of the operand, backward its size times *)
(* that of the product.                                                    *)
(***************************************************************************)
MyInv == MyTypeOK /\ MyInBounds /\ MyForwardInv /\ MyFFTLayout /\ MyInverseInv

(* Each of the two implements the multiplication modulo X^N + 1.           *)
BothImplementPolyMul == ImplementsPolyMul /\ MyImplementsPolyMul

(***************************************************************************)
(* What T11 compares: every slot after the forward transforms, every       *)
(* coefficient of the product; and the second slot array of each, which    *)
(* the pointwise product must leave alone.                                 *)
(***************************************************************************)
ResultsAgree ==
  /\ pc = "poly_mul_fft" /\ myPc = "my_poly_mul_fft" => out = mine /\ fb = tmp
  /\ pc = "done" => out = mine /\ fb = tmp

=============================================================================

------------------------------ MODULE PolyMul -------------------------------
(***************************************************************************)
(* What a multiplication of two polynomials promises, whatever the way it  *)
(* is computed: the operands are given, and at some point the output array *)
(* holds their product modulo X^N + 1, once and for all.  fft_mul of the   *)
(* harness over fft.c (RefMul) and my_poly_mul (MyMul) implement it.       *)
(***************************************************************************)
EXTENDS Negacyclic

CONSTANT NoResult    \* the output has not been delivered

VARIABLES
  logn,     \* the size of the operands
  a, b,     \* the operands
  result    \* the output array, or NoResult

vars == <<logn, a, b, result>>

Init ==
  /\ logn \in 1 .. LogMax
  /\ a \in Poly(logn)
  /\ b \in Poly(logn)
  /\ result = NoResult

Multiply ==
  /\ result = NoResult
  /\ result' = SchoolbookMul(a, b, logn)
  /\ UNCHANGED <<logn, a, b>>

(* What is delivered is the product; and it is delivered.                  *)
Safety == Init /\ [][Multiply]_vars

Spec == Safety /\ WF_vars(Multiply)

=============================================================================

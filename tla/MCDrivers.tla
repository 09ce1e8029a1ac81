----------------------------- MODULE MCDrivers ------------------------------
(***************************************************************************)
(* Drivers for TLC: three sizes, of which the smallest has no case and the *)
(* largest, the one that is summed up, has two, as in kat.c.  An operation *)
(* on operands of the wrong domain, and a transform that fails, take less  *)
(* time than the right one, so that a minimum does not hide them.          *)
(***************************************************************************)
EXTENDS Drivers

MCKatLogn == <<2, 3, 3>>

MCCost ==
  [x \in Operations \X Values |->
    CASE x = <<"FFT", "a">> -> 9 [] x = <<"FFT", "b">> -> 8
      [] x = <<"iFFT", "A">> -> 11 [] x = <<"iFFT", "AB">> -> 12
      [] x = <<"poly_mul_fft", "A">> -> 4 [] x = <<"memcpy", "a">> -> 3
      [] OTHER -> 2]

=============================================================================

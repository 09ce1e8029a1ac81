---------------------------- MODULE ExactComplex ----------------------------
(***************************************************************************)
(* The complex numbers both transforms compute with, without rounding.     *)
(*                                                                         *)
(* A binary64 value is replaced by a residue modulo a prime P with         *)
(* P % 4 = 3.  Then -1 has no square root modulo P, so a pair <<re, im>>    *)
(* with the four operations of complex arithmetic is a field, conjugation  *)
(* is a field automorphism, and the elements of norm 1 form a cyclic group *)
(* of order P + 1: the counterpart of the unit circle.  When P + 1 is a     *)
(* multiple of 2N that circle has an element of order 2N, which plays      *)
(* exp(i*pi/N).  Everything the code relies on other than rounding holds   *)
(* here exactly: w^N = -1, conj(w) = 1/w, and 2 has an inverse.             *)
(***************************************************************************)
EXTENDS Integers, Sequences

CONSTANTS
  P,        \* the prime; a coefficient is a residue 0..P-1
  LogMax,   \* plays the 10 of the source: the tables serve logn <= LogMax
  Pow2,     \* Pow2[l] is (size_t)1 << l
  Circle    \* Circle[k] plays exp(i*pi*k/2^LogMax), as <<re, im>>

Residue == 0 .. P-1

ASSUME PAssumption ==
  /\ P \in Nat /\ P > 2 /\ P % 4 = 3
  /\ \A d \in 2 .. P-1 : P % d # 0

ASSUME Pow2Assumption ==
  /\ LogMax \in Nat \ {0}
  /\ Pow2 \in [0 .. LogMax -> Nat]
  /\ Pow2[0] = 1
  /\ \A l \in 1 .. LogMax : Pow2[l] = 2 * Pow2[l - 1]

-----------------------------------------------------------------------------
(* The FPC_ macros of fft.c; myfft.c spells the same formulas out inline.  *)

FPC_ADD(x, y) == <<(x[1] + y[1]) % P, (x[2] + y[2]) % P>>

FPC_SUB(x, y) == <<(x[1] - y[1]) % P, (x[2] - y[2]) % P>>

FPC_MUL(x, y) == <<(x[1] * y[1] - x[2] * y[2]) % P,
                   (x[1] * y[2] + x[2] * y[1]) % P>>

(* Conjugation: fpr_neg of the imaginary part, or "-t->w_im[..]".          *)
Conj(x) == <<x[1], (-x[2]) % P>>

(* The inverse of a real number other than 0.                              *)
fpr_inv ==
  [r \in 1 .. P-1 |-> CHOOSE q \in 1 .. P-1 : (q * r) % P = 1]

fpr_half(r) == (r * ((P + 1) \div 2)) % P

Norm2(x) == (x[1] * x[1] + x[2] * x[2]) % P

(* As P % 4 = 3, -1 is no square, so only Zero has the norm 0.             *)
ASSUME NormAssumption ==
  \A x, y \in Residue : Norm2(<<x, y>>) = 0 => x = 0 /\ y = 0

(* x/y, y # 0: y is conjugated and scaled by the inverse of its norm.      *)
FPC_DIV(x, y) ==
  LET m == fpr_inv[Norm2(y)]
  IN  FPC_MUL(x, <<(y[1] * m) % P, (-y[2] * m) % P>>)

(* Product of a complex number by a real one.                              *)
Scale(r, x) == <<(r * x[1]) % P, (r * x[2]) % P>>

Zero == <<0, 0>>
One  == <<1, 0>>

(* The complex number in slot j of an array of 2*hn reals.                 *)
At(f, hn, j) == <<f[j], f[j + hn]>>

ASSUME CircleAssumption ==
  /\ Circle \in [0 .. 2 * Pow2[LogMax] - 1 -> Residue \X Residue]
  /\ Circle[0] = One
  /\ \A k \in 1 .. 2 * Pow2[LogMax] - 1 :
       Circle[k] = FPC_MUL(Circle[k - 1], Circle[1])
  /\ FPC_MUL(Circle[1], Conj(Circle[1])) = One
  /\ Circle[Pow2[LogMax - 1]] = <<0, 1>>           \* exp(i*pi/2) = i

(* exp(i*pi*k/2^LogMax) for every natural k.                               *)
Exp(k) == Circle[k % (2 * Pow2[LogMax])]

-----------------------------------------------------------------------------
(* Bit reversal of x over l bits.                                          *)
Rev(x, l) ==
  LET bit(i) == (x \div Pow2[i]) % 2
      acc[i \in 0 .. l] == IF i = 0 THEN 0 ELSE 2 * acc[i - 1] + bit(i - 1)
  IN  acc[l]

(***************************************************************************)
(* fpr_gm_tab: GM[k] = exp(i*pi*rev(k)/2^LogMax), rev over LogMax bits.    *)
(* Entry 0 is stored as 0 and never used.  One table serves every logn.    *)
(***************************************************************************)
fpr_gm_tab ==
  [k \in 0 .. Pow2[LogMax] - 1 |-> IF k = 0 THEN Zero ELSE Exp(Rev(k, LogMax))]

(* fpr_p2_tab[l] = 2/2^l; the inverse of 2 modulo P is (P+1)/2.            *)
fpr_p2_tab ==
  LET p2[l \in 0 .. LogMax] ==
        IF l = 0 THEN 2 ELSE (p2[l - 1] * ((P + 1) \div 2)) % P
  IN  p2

(* cos_sin_pi of myfft.c: exp(i*pi*k/d), d a power of two up to 2^LogMax.  *)
cos_sin_pi(k, d) == Exp(k * (Pow2[LogMax] \div d))

(***************************************************************************)
(* The tables of my_fft_init, per logn: tw[v] = exp(i*pi*v/n), v < n/2,    *)
(* and w[m] = exp(2*i*pi*m/(n/2)), m < n/4.                                *)
(***************************************************************************)
tabs ==
  [l \in 1 .. LogMax |->
     LET n  == Pow2[l]
         hn == n \div 2
     IN  [tw |-> [v \in 0 .. hn - 1 |-> cos_sin_pi(v, n)],
          w  |-> [m \in 0 .. hn \div 2 - 1 |-> cos_sin_pi(2 * m, hn)]]]

=============================================================================

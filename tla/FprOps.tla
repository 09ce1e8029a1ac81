------------------------------- MODULE FprOps -------------------------------
(***************************************************************************)
(* The floating-point functions of fpr.c and fpr.h: binary64 emulated with *)
(* integers (FALCON_FPEMU) and the conversions and the comparison of the   *)
(* build on the C double (FALCON_FPNATIVE).  The format's sizes are        *)
(* parameters; the numbers 9, 55, 60, 1076, 1085, 2100 and so on of the    *)
(* source follow from MB = 52, EB = 11 and words of W = 64 bits.           *)
(*                                                                         *)
(* A conditional on a mask is an IF; "m |= (m & mask) + mask; m >>= c" is  *)
(* ShiftSticky.                                                            *)
(***************************************************************************)
EXTENDS FloatFormat, SequencesExt

CONSTANTS
  W,           \* bits of a word
  NormSteps    \* <<W/2, W/4, .., 1>>

ASSUME WordAssumption ==
  /\ MB % 2 = 0 /\ W >= MB + 8
  /\ FoldLeft(LAMBDA a, b : a + b, 0, NormSteps) = W - 1

-----------------------------------------------------------------------------
SetLow(m, b) == IF b /\ m % 2 = 0 THEN m + 1 ELSE m

(* Right shift by c; the lowest bit is set if a bit was lost.              *)
ShiftSticky(m, c) == SetLow(m \div 2^c, m % 2^c # 0)

(* The low three bits with which a value is rounded up: 0xC8.              *)
RoundsUp(f) == IF f \in {3, 6, 7} THEN 1 ELSE 0

(* (-1)^s * m * 2^e with 2^(MB+2) <= m < 2^(MB+3) or m = 0.  The top bit   *)
(* of m adds 1 to the exponent field.                                      *)
FPR(s, e, m) ==
  LET biased == e + Bias + MB + 1
      kept == IF biased < 0 THEN 0 ELSE m
  IN  s * SignBit + kept \div 4
      + (IF kept \div 2^(MB + 2) = 0 THEN 0 ELSE biased) * Implicit
      + RoundsUp(kept % 8)

(* m shifted left until its top bit is set, in steps of halving size.      *)
FPR_NORM64(m, e) ==
  LET step(v, k) == IF v[1] \div 2^(W - k) = 0 THEN <<v[1] * 2^k, v[2]>>
                    ELSE <<v[1], v[2] + k>>
      done[i \in 0 .. Len(NormSteps)] ==
        IF i = 0 THEN <<m, e - (W - 1)>> ELSE step(done[i - 1], NormSteps[i])
  IN  done[Len(NormSteps)]

Dropped == W - (MB + 3)

fpr_scaled(i, sc) ==
  LET s == IF i < 0 THEN 1 ELSE 0
      v == FPR_NORM64(Abs(i), Dropped + sc)
  IN  IF i = 0 THEN FPR(s, 0, 0)
      ELSE FPR(s, v[2], ShiftSticky(v[1], Dropped))

fpr_of(i) == fpr_scaled(i, 0)

-----------------------------------------------------------------------------
(* The mantissa with its implicit bit, scaled up by three bits.            *)
Extended(z) == 8 * (Mant(z) + (IF Exp(z) = 0 THEN 0 ELSE Implicit))

(* Faulty variant: the bits shifted out of the smaller operand are lost.   *)
AlignedBlunt(hi, lo) ==
  LET cc == Exp(hi) - Exp(lo)
  IN  IF cc >= W - 4 THEN 0 ELSE Extended(lo) \div 2^(cc % W)

(* The mantissa of lo at the scale of hi.                                  *)
Aligned(hi, lo) ==
  LET cc == Exp(hi) - Exp(lo)
  IN  IF cc >= W - 4 THEN 0 ELSE ShiftSticky(Extended(lo), cc % W)

fpr_add(a, b) ==
  LET swap == \/ Magnitude(a) < Magnitude(b)
              \/ Magnitude(a) = Magnitude(b) /\ Sign(a) = 1
      hi == IF swap THEN b ELSE a
      lo == IF swap THEN a ELSE b
      sum == IF Sign(hi) = Sign(lo) THEN Extended(hi) + Aligned(hi, lo)
             ELSE Extended(hi) - Aligned(hi, lo)
      v == FPR_NORM64(sum, Exp(hi) - (Bias + MB + 3))
  IN  FPR(Sign(hi), v[2] + Dropped, ShiftSticky(v[1], Dropped))

fpr_neg(a) == (a + SignBit) % (2 * SignBit)

fpr_sub(a, b) == fpr_add(a, fpr_neg(b))

(* Faulty variant: zero is treated like any other operand.                 *)
fpr_halfOfZero(a) == (a - Implicit) % (2 * SignBit)

fpr_half(a) ==
  LET t == (a - Implicit) % (2 * SignBit)
  IN  IF Exp(t) = MaxExp THEN 0 ELSE t

fpr_double(a) == IF Exp(a) = 0 THEN a ELSE a + Implicit

-----------------------------------------------------------------------------
FullMant(z) == Implicit + Mant(z)

Xor(s, t) == (s + t) % 2

(* The lower halves have L bits, so that z0 and z1 are all that is shifted *)
(* out of the product.                                                     *)
L == (MB - 2) \div 2

(* Faulty variant: the carry from z1 into z2 is lost.                      *)
ProductHighNoCarry(xu, yu) ==
  LET lim == 2^L
      x0 == xu % lim  x1 == xu \div lim
      y0 == yu % lim  y1 == yu \div lim
      z0 == (x0 * y0) % lim
      z1 == (x0 * y0) \div lim + ((x0 * y1) % lim) + ((x1 * y0) % lim)
      z2 == (x0 * y1) \div lim + (x1 * y0) \div lim
  IN  SetLow(x1 * y1 + z2, z0 # 0 \/ z1 % lim # 0)

(* xu * yu / 2^(2*L), sticky, from products of halves.                     *)
ProductHigh(xu, yu) ==
  LET lim == 2^L
      x0 == xu % lim  x1 == xu \div lim
      y0 == yu % lim  y1 == yu \div lim
      z0 == (x0 * y0) % lim
      z1 == (x0 * y0) \div lim + ((x0 * y1) % lim) + ((x1 * y0) % lim)
      z2 == (x0 * y1) \div lim + (x1 * y0) \div lim + z1 \div lim
  IN  SetLow(x1 * y1 + z2, z0 # 0 \/ z1 % lim # 0)

(* One bit less if the value has MB + 4 bits; w says whether it had.       *)
Narrowed(m) ==
  LET w == m \div 2^(MB + 3)
  IN  <<IF w = 1 THEN ShiftSticky(m, 1) ELSE m, w>>

fpr_mul(a, b) ==
  LET v == Narrowed(ProductHigh(FullMant(a), FullMant(b)))
      e == Exp(a) + Exp(b) - 2 * (Bias + MB) + 2 * L + v[2]
      zero == Exp(a) = 0 \/ Exp(b) = 0
  IN  FPR(Xor(Sign(a), Sign(b)), e, IF zero THEN 0 ELSE v[1])

fpr_sqr(a) == fpr_mul(a, a)

(* Bit by bit: MB + 3 bits of xu / yu, and one for the remainder.          *)
Quotient(xu, yu) ==
  LET bits[i \in 0 .. MB + 3] ==
        IF i = 0 THEN <<xu, 0>>
        ELSE LET v == bits[i - 1]
             IN  IF v[1] >= yu THEN <<2 * (v[1] - yu), 2 * (v[2] + 1)>>
                 ELSE <<2 * v[1], 2 * v[2]>>
      last == bits[MB + 3]
  IN  SetLow(last[2], last[1] # 0)

fpr_div(a, b) ==
  LET v == Narrowed(Quotient(FullMant(a), FullMant(b)))
      e == Exp(a) - Exp(b) - (MB + 3) + v[2]
  IN  IF Exp(a) = 0 THEN FPR(0, 0, 0)
      ELSE FPR(Xor(Sign(a), Sign(b)), e, v[1])

One == Bias * Implicit

fpr_inv(a) == fpr_div(One, a)

(* Bit by bit: MB + 2 bits of the root, and one for what remains.          *)
Root(xu) ==
  LET bits[i \in 0 .. MB + 2] ==
        IF i = 0 THEN [xu |-> xu, q |-> 0, s |-> 0, r |-> 2^(MB + 1)]
        ELSE LET v == bits[i - 1]
                 t == v.s + v.r
             IN  IF v.xu >= t
                 THEN [xu |-> 2 * (v.xu - t), q |-> v.q + v.r,
                       s |-> v.s + 2 * v.r, r |-> v.r \div 2]
                 ELSE [v EXCEPT !.xu = 2 * @, !.r = @ \div 2]
      last == bits[MB + 2]
  IN  SetLow(2 * last.q, last.xu # 0)

fpr_sqrt(a) ==
  LET e == Exp(a) - Bias
      xu == IF e % 2 = 1 THEN 2 * FullMant(a) ELSE FullMant(a)
  IN  FPR(0, e \div 2 - (MB + 2), IF Exp(a) = 0 THEN 0 ELSE Root(2 * xu))

-----------------------------------------------------------------------------
(* The mantissa at the top of a word but one bit, and the right shift that *)
(* leaves the integer part.                                                *)
TopMant(a) == FullMant(a) * 2^(W - 2 - MB)

IntShift(a) == Bias + W - 2 - Exp(a)

Signed(s, m) == IF s = 1 THEN -m ELSE m

(* f is the lowest kept bit, the highest lost one and whether another lost *)
(* one is set.                                                             *)
fpr_rint(a) ==
  LET m == IF IntShift(a) >= W THEN 0 ELSE TopMant(a)
      e == IntShift(a) % W
      d == (m * 2^(W - 1 - e)) % 2^W
  IN  Signed(Sign(a), m \div 2^e + RoundsUp(ShiftSticky(d, W - 3)))

(* Arithmetic shift of the signed mantissa.                                *)
fpr_floor(a) ==
  IF IntShift(a) >= W THEN -Sign(a)
  ELSE Signed(Sign(a), TopMant(a)) \div 2^IntShift(a)

fpr_trunc(a) ==
  Signed(Sign(a),
         IF IntShift(a) >= W THEN 0 ELSE TopMant(a) \div 2^IntShift(a))

(* Faulty variant: the order is not reversed for negative operands.        *)
fpr_ltSigned(a, b) ==
  LET int(z) == IF Sign(z) = 1 THEN z - 2 * SignBit ELSE z
  IN  int(a) < int(b)

(* Encodings compared as signed integers.                                  *)
fpr_lt(a, b) ==
  LET int(z) == IF Sign(z) = 1 THEN z - 2 * SignBit ELSE z
  IN  IF Sign(a) = 1 /\ Sign(b) = 1 THEN int(a) > int(b) ELSE int(a) < int(b)

-----------------------------------------------------------------------------
(* The double of the native build: IEEE-754 addition, and the conversion   *)
(* to int64_t.                                                             *)
native_add(a, b) == NearestTo(ExactSum(Number(a), Number(b)))

cast(a) == Truncated(Number(a))

TwoToMB == (Bias + MB) * Implicit         \* 4503599627370496.0

(* Faulty variant: the sign of a is taken from tx, which is 0 for a > -1.  *)
native_rintByTx(a) ==
  LET tx == cast(a)
      rp == cast(native_add(a, TwoToMB)) - Implicit
      rn == cast(native_add(a, fpr_neg(TwoToMB))) + Implicit
  IN  IF tx \div Implicit \notin {0, -1} THEN tx
      ELSE IF tx < 0 THEN rn ELSE rp

(* rp is exact for a >= 0 and rn for a < 0, below 2^MB; both are for small *)
(* a.  The upper bits of tx tell whether a is below.                       *)
native_rint(a) ==
  LET sx == cast(native_add(a, fpr_neg(One)))
      tx == cast(a)
      rp == cast(native_add(a, TwoToMB)) - Implicit
      rn == cast(native_add(a, fpr_neg(TwoToMB))) + Implicit
  IN  IF tx \div Implicit \notin {0, -1} THEN tx
      ELSE IF sx < 0 THEN rn ELSE rp

native_floor(a) ==
  cast(a) - (IF Below(Number(a), <<cast(a), 0>>) THEN 1 ELSE 0)

native_lt(a, b) == Below(Number(a), Number(b))

=============================================================================

---------------------------- MODULE FloatFormat -----------------------------
(***************************************************************************)
(* The floating-point format of fpr.h with its sizes as parameters, and    *)
(* what IEEE-754 asks of an operation: the exact result, rounded to the    *)
(* nearest encoding, to the one with an even mantissa in a tie.  fpr.h     *)
(* needs of the special encodings only the zeros; a result below the       *)
(* smallest normal number counts as zero.                                  *)
(*                                                                         *)
(* An encoding is the integer the program holds in its word.               *)
(***************************************************************************)
EXTENDS Integers, Sequences

CONSTANTS
  MB,      \* bits of the mantissa that are stored: 52 in the source
  EB       \* bits of the exponent: 11 in the source

ASSUME FormatAssumption ==
  MB \in Nat \ {0} /\ EB \in Nat \ {0, 1}

Bias == 2^(EB - 1) - 1          \* 1023
SignBit == 2^(EB + MB)          \* (uint64_t)1 << 63
Implicit == 2^MB                \* (uint64_t)1 << 52, the bit not stored
MaxExp == 2^EB - 1              \* 0x7FF

Sign(x) == x \div SignBit
Magnitude(x) == x % SignBit
Exp(x) == Magnitude(x) \div Implicit
Mant(x) == x % Implicit

PlusZero == 0
MinusZero == SignBit
IsZero(x) == Magnitude(x) = 0

Encoded(s, e, m) == s * SignBit + e * Implicit + m

(* Zeros and finite normal numbers.                                        *)
Encodings ==
  {x \in 0 .. 2 * SignBit - 1 : IsZero(x) \/ Exp(x) \in 1 .. MaxExp - 1}

-----------------------------------------------------------------------------
(* A number is v * 2^k, as <<v, k>> with v an integer.                     *)
SigNumber(s, v, k) == <<IF s = 1 THEN -v ELSE v, k>>

Number(x) ==
  IF IsZero(x) THEN <<0, 0>>
  ELSE SigNumber(Sign(x), Implicit + Mant(x), Exp(x) - Bias - MB)

Abs(v) == IF v < 0 THEN -v ELSE v

(* a and b at the smaller of their two scales.                             *)
Align(a, b) ==
  LET k == IF a[2] < b[2] THEN a[2] ELSE b[2]
  IN  <<a[1] * 2^(a[2] - k), b[1] * 2^(b[2] - k), k>>

ExactSum(a, b) == LET t == Align(a, b) IN <<t[1] + t[2], t[3]>>

Product(a, b) == <<a[1] * b[1], a[2] + b[2]>>

Below(a, b) == LET t == Align(a, b) IN t[1] < t[2]

SameNumber(x, y) ==
  x = y \/ (IsZero(x) /\ IsZero(y))

(* 2^(b-1) <= n < 2^b *)
BitLength(n) == CHOOSE b \in 0 .. 31 : n < 2^b /\ (b = 0 \/ n >= 2^(b - 1))

(***************************************************************************)
(* The encoding nearest to (n/m) * 2^k with sign s; n, m natural, m > 0.   *)
(* The quotient n / (m * 2^d) has MB + 1 bits before the point; what is    *)
(* after the point decides.  A carry out of the mantissa goes into the     *)
(* exponent.                                                               *)
(***************************************************************************)
NearestQuotient(s, n, m, k) ==
  LET num(d) == IF d < 0 THEN n * 2^(-d) ELSE n
      den(d) == IF d > 0 THEN m * 2^d ELSE m
      low == BitLength(n) - BitLength(m) - MB - 1
      d == IF num(low) \div den(low) >= 2 * Implicit THEN low + 1
           ELSE IF num(low) \div den(low) >= Implicit THEN low ELSE low - 1
      q == num(d) \div den(d)
      r == num(d) % den(d)
      up == IF 2 * r > den(d) \/ (2 * r = den(d) /\ q % 2 = 1) THEN 1 ELSE 0
      e == k + d + MB + Bias
  IN  IF n = 0 \/ e < 1 THEN s * SignBit
      ELSE Encoded(s, e, q - Implicit + up)

Nearest(s, a) == NearestQuotient(s, Abs(a[1]), 1, a[2])

(* With the sign of the number; a zero that is not a number's sign is +0.  *)
NearestTo(a) == Nearest(IF a[1] < 0 THEN 1 ELSE 0, a)

-----------------------------------------------------------------------------
(* Integers next to a number; (int64_t) of a double is Truncated.          *)
Floor(a) == IF a[2] >= 0 THEN a[1] * 2^a[2] ELSE a[1] \div 2^(-a[2])

Truncated(a) == IF a[1] < 0 THEN -Floor(<<-a[1], a[2]>>) ELSE Floor(a)

HalfToEven(a) ==
  LET f == Floor(a)
      twice == ExactSum(<<2 * a[1], a[2]>>, <<-2 * f, 0>>)  \* 2 * (a - f)
  IN  IF Below(<<1, 0>>, twice) \/ (~Below(twice, <<1, 0>>) /\ f % 2 = 1)
      THEN f + 1 ELSE f

HalfAwayFromZero(a) ==
  LET h == Floor(ExactSum(<<Abs(a[1]), a[2]>>, <<1, -1>>))
  IN  IF a[1] < 0 THEN -h ELSE h

=============================================================================

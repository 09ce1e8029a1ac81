-------------------------------- MODULE Fpr ---------------------------------
(***************************************************************************)
(* Calls of the floating-point functions, each compared with the exact     *)
(* result.  The functions have no state, so a behaviour is one call.       *)
(***************************************************************************)
EXTENDS FprOps

CONSTANTS
  Operands,    \* encodings that operations with two operands are given
  Integers64,  \* int64_t values that are converted
  Scales       \* second arguments of fpr_scaled

ASSUME FprAssumption ==
  /\ Operands \subseteq Encodings
  /\ \A i \in Integers64 : Abs(i) < 2^(W - 1)

VARIABLES
  op,     \* the last operation
  x, y,   \* its operands
  emu,    \* its result in the emulation
  nat     \* its result in the native build, where fpr.h has code for it

vars == <<op, x, y, emu, nat>>

-----------------------------------------------------------------------------
None == "none"

Init ==
  /\ op = None /\ x \in Encodings
  /\ y = PlusZero /\ emu = None /\ nat = None

Result(name, b, e, n) ==
  /\ op' = name /\ y' = b /\ emu' = e /\ nat' = n
  /\ UNCHANGED x

(* The caller answers for operands whose result leaves the format above.   *)
Fits(e) == e < MaxExp - 1

Add(b) == Result("fpr_add", b, fpr_add(x, b), None)
Sub(b) == Result("fpr_sub", b, fpr_sub(x, b), None)
Mul(b) == /\ Fits(Exp(x) + Exp(b) - Bias)
          /\ Result("fpr_mul", b, fpr_mul(x, b), None)
Div(b) == /\ ~IsZero(b) /\ Fits(Exp(x) - Exp(b) + Bias)
          /\ Result("fpr_div", b, fpr_div(x, b), None)
Lt(b)  == Result("fpr_lt", b, fpr_lt(x, b), native_lt(x, b))

Neg == Result("fpr_neg", x, fpr_neg(x), None)

(* A half below the smallest normal number is the caller's error as well.  *)
Halve == /\ Exp(x) # 1
         /\ Result("fpr_half", x, fpr_half(x), None)
Double == /\ Fits(Exp(x))
          /\ Result("fpr_double", x, fpr_double(x), None)
Sqr == /\ Fits(2 * Exp(x) - Bias)
       /\ Result("fpr_sqr", x, fpr_sqr(x), None)
Inv == /\ ~IsZero(x) /\ Fits(2 * Bias - Exp(x))
       /\ Result("fpr_inv", x, fpr_inv(x), None)
Sqrt == /\ Sign(x) = 0
        /\ Result("fpr_sqrt", x, fpr_sqrt(x), None)

(* The value has to fit into int64_t.                                      *)
FitsInteger == IntShift(x) >= 0

Rint  == FitsInteger /\ Result("fpr_rint", x, fpr_rint(x), native_rint(x))
FloorOf == FitsInteger /\ Result("fpr_floor", x, fpr_floor(x), native_floor(x))
Trunc == FitsInteger /\ Result("fpr_trunc", x, fpr_trunc(x), cast(x))

(* x and y are the integer and its scale here.                             *)
Scaled(i, sc) ==
  /\ x = PlusZero
  /\ op' = "fpr_scaled" /\ x' = i /\ y' = sc
  /\ emu' = fpr_scaled(i, sc) /\ nat' = None

Next ==
  /\ op = None
  /\ \/ /\ x \in Operands
        /\ \E b \in Operands : Add(b) \/ Sub(b) \/ Mul(b) \/ Div(b) \/ Lt(b)
     \/ Neg \/ Halve \/ Double \/ Sqr \/ Inv \/ Sqrt
     \/ Rint \/ FloorOf \/ Trunc
     \/ \E i \in Integers64, sc \in Scales : Scaled(i, sc)

Spec == Init /\ [][Next]_vars

-----------------------------------------------------------------------------
Rounding ==
  {"fpr_add", "fpr_sub", "fpr_mul", "fpr_div", "fpr_neg", "fpr_half",
   "fpr_double", "fpr_sqr", "fpr_inv", "fpr_sqrt", "fpr_scaled"}

(* A result is a zero or a normal number again, an integer or a truth      *)
(* value.                                                                  *)
TypeOK ==
  /\ op = "fpr_scaled" \/ x \in Encodings
  /\ op \in Rounding => emu \in Encodings /\ nat = None
  /\ op \in {"fpr_rint", "fpr_floor", "fpr_trunc"} => {emu, nat} \subseteq Int
  /\ op = "fpr_lt" => {emu, nat} \subseteq BOOLEAN

(* The nearest encoding to a, a zero with sign s.                          *)
RoundedAs(s, a) == IF a[1] = 0 THEN s * SignBit ELSE NearestTo(a)

Negated(a) == <<-a[1], a[2]>>

(* z is the nearest to the root of a: a is between the squares of the      *)
(* midpoints around z.                                                     *)
NearestRoot(z, a) ==
  LET v == Number(z)
      square(w) == <<w * w, 2 * (v[2] - 1)>>
  IN  IF a[1] = 0 THEN IsZero(z)
      ELSE /\ Below(square(2 * v[1] - 1), a)
           /\ Below(a, square(2 * v[1] + 1))

(***************************************************************************)
(* Every operation gives the exact result, rounded to the nearest, ties to *)
(* even, with the sign a double would have; a quotient or root that is     *)
(* zero, or half of one, is +0 instead.                                    *)
(***************************************************************************)
CorrectlyRounded ==
  LET a == Number(x)
      b == Number(y)
      sx == Sign(x)
      sy == Sign(y)
      quotient(m, n) ==
        NearestQuotient(Xor(IF m[1] < 0 THEN 1 ELSE 0, IF n[1] < 0 THEN 1 ELSE 0),
                        Abs(m[1]), Abs(n[1]), m[2] - n[2])
  IN  CASE op = "fpr_add" -> emu = RoundedAs(sx * sy, ExactSum(a, b))
        [] op = "fpr_sub" -> emu = RoundedAs(sx * (1 - sy), ExactSum(a, Negated(b)))
        [] op = "fpr_mul" -> emu = RoundedAs(Xor(sx, sy), Product(a, b))
        [] op = "fpr_sqr" -> emu = RoundedAs(0, Product(a, a))
        [] op = "fpr_neg" -> emu = RoundedAs(1 - sx, Negated(a))
        [] op = "fpr_double" -> emu = RoundedAs(sx, <<a[1], a[2] + 1>>)
        [] op = "fpr_half" -> emu = RoundedAs(0, <<a[1], a[2] - 1>>)
        [] op = "fpr_div" -> IF a[1] = 0 THEN emu = PlusZero
                             ELSE emu = quotient(a, b)
        [] op = "fpr_inv" -> emu = quotient(<<1, 0>>, a)
        [] op = "fpr_sqrt" -> Sign(emu) = 0 /\ NearestRoot(emu, a)
        [] op = "fpr_scaled" -> emu = RoundedAs(0, <<x, y>>)
        [] OTHER -> TRUE

(***************************************************************************)
(* Both builds round to integers as they should, a zero of either sign     *)
(* included, but for the floor of -0 in the emulation, which is -1.        *)
(***************************************************************************)
IntegersAgree ==
  LET a == Number(x)
  IN  /\ op = "fpr_rint" => emu = HalfToEven(a) /\ nat = HalfToEven(a)
      /\ op = "fpr_trunc" => emu = Truncated(a) /\ nat = Truncated(a)
      /\ op = "fpr_floor" => nat = Floor(a)
                             /\ (x # MinusZero => emu = Floor(a))

(* Both builds compare alike, unless -0 is compared to +0.                 *)
ComparisonsAgree ==
  op = "fpr_lt" => (emu = nat \/ (x = MinusZero /\ y = PlusZero))

(* A program gives the same integers and takes the same branches in both   *)
(* builds, but for floors and comparisons of -0.                           *)
BuildsAgree == IntegersAgree /\ ComparisonsAgree

=============================================================================

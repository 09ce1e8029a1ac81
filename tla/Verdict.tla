------------------------------ MODULE Verdict -------------------------------
(***************************************************************************)
(* How a driver of the verification judges a product: every coefficient is *)
(* rounded and compared with the known answer, and the deviations become   *)
(* the margin column.  The three builds do it with the emulated binary64,  *)
(* with double through fpr.h, and with double and a rounding of their own. *)
(* They are given the same coefficients here, to compare their verdicts.   *)
(***************************************************************************)
EXTENDS FprOps, FiniteSets

CONSTANTS
  Coefficients,   \* what an inverse transform may leave: encodings
  MARGIN_CAP,
  N               \* bound of the model: coefficients of a product

ASSUME VerdictAssumption ==
  /\ Coefficients \subseteq Encodings
  /\ MARGIN_CAP \in Nat \ {0} /\ N \in Nat

VARIABLES
  u,        \* the loop's counter
  bad, margin,   \* the verdict of each build so far
  worst,    \* not in the code: the largest distance from a known answer
  odd       \* not in the code: the builds have rounded differently

vars == <<u, bad, margin, worst, odd>>

Builds == {"emu", "native", "myfft"}

-----------------------------------------------------------------------------
native_sub(a, b) == native_add(a, fpr_neg(b))

(* Faulty variant: half of 2.                                              *)
HalfOfTwo == Bias * Implicit

Half == (Bias - 1) * Implicit      \* 0.5

(* (double)i, exact for every integer that is rounded to here.             *)
double_of(i) == NearestTo(<<i, 0>>)

(* Half away from zero.                                                    *)
round_int(c) ==
  cast(native_add(c, IF Sign(c) = 1 /\ ~IsZero(c) THEN fpr_neg(Half) ELSE Half))

Got(b, c) ==
  CASE b = "emu" -> fpr_rint(c)
    [] b = "native" -> native_rint(c)
    [] b = "myfft" -> round_int(c)

(* fpr_double, or d *= 2.0, as long as d < 0.5.                            *)
Doublings(d, lt(_, _)) ==
  LET twice[k \in 0 .. MARGIN_CAP] ==
        IF k = 0 THEN d ELSE fpr_double(twice[k - 1])
      reached == {k \in 0 .. MARGIN_CAP : ~lt(twice[k], Half)}
  IN  IF reached = {} THEN MARGIN_CAP
      ELSE CHOOSE k \in reached : \A j \in reached : k <= j

absval(c) == IF fpr_lt(c, fpr_of(0)) THEN fpr_neg(c) ELSE c

(* Faulty variant: a deviation in double keeps its sign.                   *)
margin_bitsSigned(b, c, got) ==
  IF b = "emu"
  THEN Doublings(absval(fpr_sub(c, fpr_of(got))), fpr_lt)
  ELSE Doublings(native_sub(c, double_of(got)), native_lt)

margin_bits(b, c, got) ==
  IF b = "emu"
  THEN Doublings(absval(fpr_sub(c, fpr_of(got))), fpr_lt)
  ELSE Doublings(Magnitude(native_sub(c, double_of(got))), native_lt)

Smaller(i, j) == IF i < j THEN i ELSE j

Larger(a, b) == IF Below(a, b) THEN b ELSE a

Distance(c, want) ==
  LET d == ExactSum(Number(c), <<-want, 0>>)
  IN  <<Abs(d[1]), d[2]>>

-----------------------------------------------------------------------------
(* Faulty variant: the margin starts from a sentinel.                      *)
InitSentinel ==
  /\ u = 0
  /\ bad = [b \in Builds |-> 0]
  /\ margin = [b \in Builds |-> MARGIN_CAP + 1]
  /\ worst = <<0, 0>> /\ odd = FALSE

Init ==
  /\ u = 0
  /\ bad = [b \in Builds |-> 0]
  /\ margin = [b \in Builds |-> MARGIN_CAP]
  /\ worst = <<0, 0>> /\ odd = FALSE

Judge(c, want) ==
  /\ u < N /\ u' = u + 1
  /\ bad' = [b \in Builds |-> bad[b] + (IF Got(b, c) # want THEN 1 ELSE 0)]
  /\ margin' = [b \in Builds |->
                  Smaller(margin[b], margin_bits(b, c, Got(b, c)))]
  /\ worst' = Larger(worst, Distance(c, want))
  /\ odd' = (odd \/ Got("myfft", c) # Got("native", c))

(* The known answer is one of the integers around the coefficient.         *)
Next ==
  \E c \in Coefficients, i \in {0, 1} : Judge(c, Floor(Number(c)) + i)

Spec == Init /\ [][Next]_vars

-----------------------------------------------------------------------------
TypeOK ==
  /\ u \in 0 .. N
  /\ bad \in [Builds -> 0 .. N]
  /\ margin \in [Builds -> 0 .. MARGIN_CAP]
  /\ odd \in BOOLEAN

HalfNumber == <<1, -1>>

Times(a, k) == <<a[1], a[2] + k>>

(***************************************************************************)
(* verify.c: the margin says "how many times the worst observed deviation  *)
(* could be doubled before reaching the 0.5 rounding cliff".  So a passing *)
(* case with margin m shows that every coefficient is nearer than 2^-m to  *)
(* the known answer, and is nearer by no factor of 2 more than it says.    *)
(***************************************************************************)
MarginVouches ==
  \A b \in Builds :
    bad[b] = 0 /\ margin[b] > 0 =>
      /\ Below(Times(worst, margin[b] - 1), HalfNumber)
      /\ margin[b] < MARGIN_CAP => ~Below(Times(worst, margin[b]), HalfNumber)

(* Builds 1 and 2 reach the same verdict on the same numbers, although the *)
(* emulation treats -0 as less than 0.                                     *)
ReferencesAgree ==
  bad["emu"] = bad["native"] /\ margin["emu"] = margin["native"]

(* myfft_drv.c: a coefficient that build 3 rounds differently is one "the  *)
(* margin column would show": its margin is 0, and otherwise its verdict   *)
(* is that of build 2.                                                     *)
MarginShows ==
  IF odd THEN margin["myfft"] = 0
  ELSE bad["myfft"] = bad["native"] /\ margin["myfft"] = margin["native"]

=============================================================================

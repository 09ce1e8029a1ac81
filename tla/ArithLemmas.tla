---------------------------- MODULE ArithLemmas -----------------------------
(***************************************************************************)
(* What the proofs of the multiplications share: facts about ExactComplex  *)
(* and Negacyclic, for every P, LogMax, Pow2 and Circle as assumed there.  *)
(* In order: induction and powers of two; the field of the numbers; the    *)
(* circle; recursion and bit reversal; polynomials by Horner's rule; the   *)
(* product of schoolbook_mul; the blocks of a transform's stages; what one *)
(* stage of FFT and of iFFT does to an array.                              *)
(*                                                                         *)
(* Induction over numbers goes through LeastElement: the least counter-    *)
(* example of a claim is examined, and turns out not to be one.  A claim   *)
(* about a recursive function, which is a CHOOSE, starts by showing that   *)
(* a function with that recursion exists (Recursion) and is the only one   *)
(* (RecursionUnique).                                                      *)
(***************************************************************************)
EXTENDS Negacyclic, WellFoundedInduction, TLAPS

(* Every non-empty set of naturals has a least element.                    *)
LEMMA LeastElement ==
  ASSUME NEW S \in SUBSET Nat, S # {}
  PROVE  \E x \in S : \A y \in S : x <= y
<1>1. PICK x \in S : \A y \in S : ~ (<<y, x>> \in OpToRel(<, Nat))
  BY NatLessThanWellFounded, WFMin, Zenon
<1>2. \A y \in S : y < x => <<y, x>> \in OpToRel(<, Nat)
  BY DEF OpToRel
<1>3. \A y \in S : ~ (y < x)
  BY <1>1, <1>2, Zenon
<1>4. \A y \in S : y \in Nat /\ x \in Nat
  OBVIOUS
<1>5. \A y \in S : x <= y
  BY <1>3, <1>4, SMT
<1> QED
  BY <1>5

(* Induction, for a claim given as the set of the numbers it holds of.     *)
LEMMA SetInduction ==
  ASSUME NEW T, 0 \in T, \A k \in Nat : k \in T => k + 1 \in T
  PROVE  Nat \subseteq T
<1> DEFINE Bad == Nat \ T
<1> SUFFICES ASSUME Bad # {} PROVE FALSE
  OBVIOUS
<1>1. Bad \in SUBSET Nat
  OBVIOUS
<1>2. PICK x \in Bad : \A y \in Bad : x <= y
  <2> HIDE DEF Bad
  <2> QED  BY <1>1, LeastElement, Zenon
<1>3. x \in Nat /\ x # 0 /\ x \notin T
  OBVIOUS
<1>4. x - 1 \in Nat /\ x - 1 \in T
  BY <1>2, <1>3
<1>5. (x - 1) + 1 \in T
  BY <1>4
<1> QED
  BY <1>3, <1>5

(* Powers of two are positive and grow.                                    *)
LEMMA Pow2Facts ==
  /\ \A l \in 0 .. LogMax : Pow2[l] \in Nat /\ Pow2[l] >= 1
  /\ \A l \in 1 .. LogMax : Pow2[l] = 2 * Pow2[l - 1]
  /\ \A k, l \in 0 .. LogMax : k <= l => Pow2[k] <= Pow2[l]
<1> DEFINE Pos == {l \in Nat : l \in 0 .. LogMax => Pow2[l] >= 1}
<1>1. 0 \in Pos
  BY Pow2Assumption
<1>2. \A k \in Nat : k \in Pos => k + 1 \in Pos
  <2> SUFFICES ASSUME NEW k \in Nat, k \in Pos, k + 1 \in 0 .. LogMax
               PROVE  Pow2[k + 1] >= 1
    OBVIOUS
  <2>1. k \in 0 .. LogMax /\ k + 1 \in 1 .. LogMax
    BY Pow2Assumption
  <2>2. Pow2[k] >= 1 /\ Pow2[k] \in Nat
    BY <2>1, Pow2Assumption
  <2>3. Pow2[k + 1] = 2 * Pow2[(k + 1) - 1] /\ (k + 1) - 1 = k
    BY <2>1, Pow2Assumption
  <2> QED
    BY <2>2, <2>3
<1>3. \A l \in 0 .. LogMax : Pow2[l] >= 1
  <2>1. Nat \subseteq Pos
    <3> HIDE DEF Pos
    <3> QED  BY <1>1, <1>2, SetInduction
  <2> QED
    BY <2>1, Pow2Assumption
<1>4. ASSUME NEW k \in 0 .. LogMax
      PROVE  \A l \in 0 .. LogMax : k <= l => Pow2[k] <= Pow2[l]
  <2> DEFINE Grow == {d \in Nat : k + d \in 0 .. LogMax => Pow2[k] <= Pow2[k + d]}
  <2>1. 0 \in Grow
    BY Pow2Assumption
  <2>2. \A d \in Nat : d \in Grow => d + 1 \in Grow
    <3> SUFFICES ASSUME NEW d \in Nat, d \in Grow, k + (d + 1) \in 0 .. LogMax
                 PROVE  Pow2[k] <= Pow2[k + (d + 1)]
      OBVIOUS
    <3>1. k + d \in 0 .. LogMax /\ k + (d + 1) \in 1 .. LogMax
      BY Pow2Assumption
    <3>2. /\ Pow2[k] <= Pow2[k + d]
          /\ Pow2[k + d] \in Nat /\ Pow2[k] \in Nat
      BY <3>1, Pow2Assumption
    <3>3. /\ Pow2[k + (d + 1)] = 2 * Pow2[(k + (d + 1)) - 1]
          /\ (k + (d + 1)) - 1 = k + d
      BY <3>1, Pow2Assumption
    <3> QED
      BY <3>2, <3>3
  <2>3. Nat \subseteq Grow
    <3> HIDE DEF Grow
    <3> QED  BY <2>1, <2>2, SetInduction
  <2> QED
    <3> SUFFICES ASSUME NEW l \in 0 .. LogMax, k <= l
                 PROVE  Pow2[k] <= Pow2[l]
      OBVIOUS
    <3>1. l - k \in Nat /\ k + (l - k) = l
      BY Pow2Assumption
    <3>2. l - k \in Grow
      BY <2>3, <3>1
    <3> QED
      BY <3>1, <3>2
<1> QED
  BY <1>3, <1>4, Pow2Assumption

-----------------------------------------------------------------------------
(***************************************************************************)
(* The field of the numbers.                                               *)
(***************************************************************************)

(* The complex numbers: pairs of residues.                                 *)
Complex == Residue \X Residue

(* The FPC_ operations yield residues whatever the integers they are given. *)
LEMMA FPCType ==
  ASSUME NEW x \in Int \X Int, NEW y \in Int \X Int, NEW r \in Int
  PROVE  /\ FPC_ADD(x, y) \in Complex
         /\ FPC_SUB(x, y) \in Complex
         /\ FPC_MUL(x, y) \in Complex
         /\ Conj(x) \in Int \X Int
         /\ r % P \in Residue
<1>1. P \in Nat /\ P > 2
  BY PAssumption
<1>2. \A i \in Int : i % P \in Residue
  BY <1>1 DEF Residue
<1>3. x[1] \in Int /\ x[2] \in Int /\ y[1] \in Int /\ y[2] \in Int
  OBVIOUS
<1>4. Residue \subseteq Int
  BY <1>1 DEF Residue
<1>5. FPC_ADD(x, y) \in Complex
  <2>1. x[1] + y[1] \in Int /\ x[2] + y[2] \in Int
    BY <1>3
  <2> QED
    BY <2>1, <1>2 DEF FPC_ADD, Complex
<1>6. FPC_SUB(x, y) \in Complex
  <2>1. x[1] - y[1] \in Int /\ x[2] - y[2] \in Int
    BY <1>3
  <2> QED
    BY <2>1, <1>2 DEF FPC_SUB, Complex
<1>7. FPC_MUL(x, y) \in Complex
  <2>1. /\ x[1] * y[1] - x[2] * y[2] \in Int
        /\ x[1] * y[2] + x[2] * y[1] \in Int
    BY <1>3
  <2> QED
    BY <2>1, <1>2 DEF FPC_MUL, Complex
<1>8. Conj(x) \in Int \X Int
  <2>1. -x[2] \in Int
    BY <1>3
  <2>2. (-x[2]) % P \in Int
    BY <2>1, <1>2, <1>4
  <2> QED
    BY <2>2, <1>3 DEF Conj
<1> QED
  BY <1>2, <1>5, <1>6, <1>7, <1>8

(* A complex number is a pair of integers; 0 and 1 are complex numbers.    *)
LEMMA ComplexFacts ==
  /\ Complex \subseteq Int \X Int
  /\ Zero \in Complex /\ One \in Complex
BY PAssumption DEF Complex, Residue, Zero, One

(* exp(i*pi*k/2^LogMax) is a complex number.                               *)
LEMMA ExpType ==
  ASSUME NEW k \in Nat
  PROVE  Exp(k) \in Complex
<1>1. Pow2[LogMax] \in Nat /\ Pow2[LogMax] >= 1
  BY Pow2Facts, Pow2Assumption
<1>2. k % (2 * Pow2[LogMax]) \in 0 .. 2 * Pow2[LogMax] - 1
  BY <1>1
<1> QED
  BY <1>2, CircleAssumption DEF Exp, Complex

(* P is a positive natural.                                                *)
LEMMA PFacts == P \in Nat /\ P > 0
BY PAssumption

(* Division with remainder, for every integer.                             *)
LEMMA DivMod ==
  ASSUME NEW a \in Int, NEW d \in Nat, d > 0
  PROVE  /\ a \div d \in Int /\ a % d \in 0 .. d - 1
         /\ a = d * (a \div d) + (a % d)
OBVIOUS
(* Quotient and remainder are determined by what they give together.       *)
LEMMA DivModUnique ==
  ASSUME NEW q \in Int, NEW d \in Nat, NEW r \in 0 .. d - 1
  PROVE  (q * d + r) \div d = q /\ (q * d + r) % d = r
<1> DEFINE a == q * d + r
           k == a \div d
<1>0. d > 0 /\ a \in Int OBVIOUS
<1>1. k \in Int /\ a % d \in 0 .. d - 1 /\ a = d * k + (a % d)
  BY <1>0, DivMod
<1>2. ~ (k < q)
  <2> SUFFICES ASSUME k < q PROVE FALSE OBVIOUS
  <2>1. k + 1 <= q BY <1>1
  <2>2. (k + 1) * d <= q * d BY <2>1, <1>1
  <2>3. (k + 1) * d = d * k + d BY <1>1
  <2> HIDE DEF k
  <2> QED BY <1>1, <2>2, <2>3
<1>3. ~ (q < k)
  <2> SUFFICES ASSUME q < k PROVE FALSE OBVIOUS
  <2>1. q + 1 <= k BY <1>1
  <2>2. (q + 1) * d <= k * d BY <2>1, <1>1
  <2>3. (q + 1) * d = q * d + d /\ k * d = d * k BY <1>1
  <2> HIDE DEF k
  <2> QED BY <1>1, <2>2, <2>3
<1>4. k = q BY <1>1, <1>2, <1>3
<1>5. d * q = q * d OBVIOUS
<1> HIDE DEF k
<1> QED BY <1>1, <1>4, <1>5 DEF k

(* Integers that differ by a multiple of P have the same residue.          *)
LEMMA ModEq ==
  ASSUME NEW a \in Int, NEW b \in Int, NEW q \in Int, a = b + q * P
  PROVE  a % P = b % P
<1> DEFINE k == b \div P
           r == b % P
<1>1. k \in Int /\ r \in 0 .. P - 1 /\ b = P * k + r
  BY PFacts, DivMod
<1>2. a = (k + q) * P + r
  <2> HIDE DEF k, r
  <2> QED BY <1>1, PFacts
<1>3. k + q \in Int BY <1>1
<1>4. ((k + q) * P + r) % P = r
  <2> HIDE DEF k, r
  <2> QED  BY <1>1, <1>3, PFacts, DivModUnique
<1> QED  BY <1>2, <1>4

(* A residue differs from its integer by a multiple of P.                  *)
LEMMA ModIs ==
  ASSUME NEW a \in Int
  PROVE  \E q \in Int : a % P = a + q * P
<1>1. a \div P \in Int /\ a % P \in 0 .. P - 1 /\ a = P * (a \div P) + (a % P)
  BY PFacts, DivMod
<1> DEFINE k == a \div P r == a % P
<1> HIDE DEF k, r
<1>2. r = a + (-k) * P BY <1>1, PFacts DEF k, r
<1> QED BY <1>1, <1>2 DEF k, r

(* Multiples of P vanish.                                                  *)
LEMMA Shifted ==
  ASSUME NEW a \in Int, NEW q \in Int
  PROVE  (a + q * P) % P = a % P
<1>1. a + q * P \in Int
  BY PFacts
<1> QED
  BY <1>1, ModEq


(* Residues may be taken before or after sums of products.                 *)
LEMMA ModLinear ==
  ASSUME NEW a \in Int, NEW b \in Int, NEW e \in Int, NEW f \in Int
  PROVE  /\ ((a % P) * e + (b % P) * f) % P = (a * e + b * f) % P
         /\ ((a % P) * e - (b % P) * f) % P = (a * e - b * f) % P
         /\ ((a % P) + (b % P)) % P = (a + b) % P
         /\ ((a % P) - (b % P)) % P = (a - b) % P
         /\ (a % P) % P = a % P
<1>1. PICK q \in Int : a % P = a + q * P
  BY ModIs
<1>2. PICK r \in Int : b % P = b + r * P
  BY ModIs
<1>0. P \in Int
  BY PFacts
<1>3. /\ (a + q * P) * e + (b + r * P) * f = (a * e + b * f) + (q * e + r * f) * P
      /\ (a + q * P) * e - (b + r * P) * f = (a * e - b * f) + (q * e - r * f) * P
      /\ (a + q * P) + (b + r * P) = (a + b) + (q + r) * P
      /\ (a + q * P) - (b + r * P) = (a - b) + (q - r) * P
  BY <1>0
<1>4. /\ a * e + b * f \in Int /\ q * e + r * f \in Int
      /\ a * e - b * f \in Int /\ q * e - r * f \in Int
      /\ a + b \in Int /\ q + r \in Int
      /\ a - b \in Int /\ q - r \in Int
  OBVIOUS
<1>5. /\ ((a * e + b * f) + (q * e + r * f) * P) % P = (a * e + b * f) % P
      /\ ((a * e - b * f) + (q * e - r * f) * P) % P = (a * e - b * f) % P
      /\ ((a + b) + (q + r) * P) % P = (a + b) % P
      /\ ((a - b) + (q - r) * P) % P = (a - b) % P
      /\ (a + q * P) % P = a % P
  BY <1>4, Shifted
<1>6. ((a % P) * e + (b % P) * f) % P = (a * e + b * f) % P
  BY <1>1, <1>2, <1>3, <1>5, Zenon
<1>7. ((a % P) * e - (b % P) * f) % P = (a * e - b * f) % P
  BY <1>1, <1>2, <1>3, <1>5, Zenon
<1>8. ((a % P) + (b % P)) % P = (a + b) % P
  BY <1>1, <1>2, <1>3, <1>5, Zenon
<1>9. ((a % P) - (b % P)) % P = (a - b) % P
  BY <1>1, <1>2, <1>3, <1>5, Zenon
<1>10. (a % P) % P = a % P
  BY <1>1, <1>5, Zenon
<1> QED
  BY <1>6, <1>7, <1>8, <1>9, <1>10

(* The same for sums and differences.                                      *)
LEMMA ModSums ==
  ASSUME NEW a \in Int, NEW b \in Int
  PROVE  /\ ((a % P) + (b % P)) % P = (a + b) % P
         /\ ((a % P) - (b % P)) % P = (a - b) % P
BY ModLinear

(* The same where only one of the terms is a residue.                      *)
LEMMA ModTerms ==
  ASSUME NEW a \in Int, NEW b \in Int, NEW e \in Int, NEW f \in Int
  PROVE  /\ ((a % P) + b) % P = (a + b) % P
         /\ (b + (a % P)) % P = (b + a) % P
         /\ ((a % P) - b) % P = (a - b) % P
         /\ (b - (a % P)) % P = (b - a) % P
         /\ (-(a % P)) % P = (-a) % P
         /\ (e * (a % P) + f * (b % P)) % P = (e * a + f * b) % P
         /\ (e * (a % P) - f * (b % P)) % P = (e * a - f * b) % P
         /\ (e * (a % P)) % P = (e * a) % P
         /\ ((a % P) * e) % P = (a * e) % P
<1>1. PICK q \in Int : a % P = a + q * P
  BY ModIs
<1>2. PICK r \in Int : b % P = b + r * P
  BY ModIs
<1>0. P \in Int
  BY PFacts
<1>3. /\ (a + q * P) + b = (a + b) + q * P
      /\ b + (a + q * P) = (b + a) + q * P
      /\ (a + q * P) - b = (a - b) + q * P
      /\ b - (a + q * P) = (b - a) + (-q) * P
      /\ -(a + q * P) = (-a) + (-q) * P
      /\ e * (a + q * P) + f * (b + r * P) = (e * a + f * b) + (q * e + r * f) * P
      /\ e * (a + q * P) - f * (b + r * P) = (e * a - f * b) + (q * e - r * f) * P
      /\ e * (a + q * P) = e * a + (q * e) * P
      /\ (a + q * P) * e = a * e + (q * e) * P
  BY <1>0
<1>4. /\ a + b \in Int /\ b + a \in Int /\ a - b \in Int /\ b - a \in Int /\ -a \in Int
      /\ e * a + f * b \in Int /\ e * a - f * b \in Int /\ e * a \in Int /\ a * e \in Int
      /\ q * e + r * f \in Int /\ q * e - r * f \in Int /\ q * e \in Int /\ -q \in Int
  OBVIOUS
<1>5. /\ ((a + b) + q * P) % P = (a + b) % P
      /\ ((b + a) + q * P) % P = (b + a) % P
      /\ ((a - b) + q * P) % P = (a - b) % P
      /\ ((b - a) + (-q) * P) % P = (b - a) % P
      /\ ((-a) + (-q) * P) % P = (-a) % P
      /\ ((e * a + f * b) + (q * e + r * f) * P) % P = (e * a + f * b) % P
      /\ ((e * a - f * b) + (q * e - r * f) * P) % P = (e * a - f * b) % P
      /\ (e * a + (q * e) * P) % P = (e * a) % P
      /\ (a * e + (q * e) * P) % P = (a * e) % P
  BY <1>4, Shifted
<1>6. /\ ((a % P) + b) % P = (a + b) % P
      /\ (b + (a % P)) % P = (b + a) % P
      /\ ((a % P) - b) % P = (a - b) % P
      /\ (b - (a % P)) % P = (b - a) % P
  BY <1>1, <1>3, <1>5, Zenon
<1>7. (-(a % P)) % P = (-a) % P
  BY <1>1, <1>3, <1>5, Zenon
<1>8. (e * (a % P) + f * (b % P)) % P = (e * a + f * b) % P
  BY <1>1, <1>2, <1>3, <1>5, Zenon
<1>9. (e * (a % P) - f * (b % P)) % P = (e * a - f * b) % P
  BY <1>1, <1>2, <1>3, <1>5, Zenon
<1>10. (e * (a % P)) % P = (e * a) % P
  BY <1>1, <1>3, <1>5, Zenon
<1>11. ((a % P) * e) % P = (a * e) % P
  BY <1>1, <1>3, <1>5, Zenon
<1> QED
  BY <1>6, <1>7, <1>8, <1>9, <1>10, <1>11

(* The pairs of integers, which the FPC_ operations take.                  *)
Pair == Int \X Int

(* The negative of a number.                                               *)
Neg(x) == FPC_SUB(Zero, x)

(* A pair is its two parts.                                                *)
LEMMA Parts ==
  ASSUME NEW x \in Pair
  PROVE  /\ x[1] \in Int /\ x[2] \in Int /\ x = <<x[1], x[2]>>
BY DEF Pair

(* The FPC_ operations yield complex numbers.                              *)
LEMMA Closed ==
  /\ \A x, y \in Pair : /\ FPC_ADD(x, y) \in Complex /\ FPC_ADD(x, y) \in Pair
                        /\ FPC_SUB(x, y) \in Complex /\ FPC_SUB(x, y) \in Pair
                        /\ FPC_MUL(x, y) \in Complex /\ FPC_MUL(x, y) \in Pair
  /\ \A x \in Pair : Neg(x) \in Complex /\ Neg(x) \in Pair
  /\ \A x \in Complex : x \in Pair
  /\ Zero \in Complex /\ One \in Complex /\ Zero \in Pair /\ One \in Pair
<1>1. /\ \A x \in Complex : x \in Pair
      /\ Zero \in Complex /\ One \in Complex /\ Zero \in Pair /\ One \in Pair
  BY ComplexFacts DEF Pair
<1>2. \A x, y \in Pair : /\ FPC_ADD(x, y) \in Complex
                         /\ FPC_SUB(x, y) \in Complex
                         /\ FPC_MUL(x, y) \in Complex
  BY FPCType DEF Pair
<1> QED
  BY <1>1, <1>2 DEF Neg

(* Addition is commutative.                                                *)
LEMMA AddComm ==
  ASSUME NEW x \in Pair, NEW y \in Pair
  PROVE  FPC_ADD(x, y) = FPC_ADD(y, x)
BY Parts DEF FPC_ADD

(* Multiplication is commutative.                                          *)
LEMMA MulComm ==
  ASSUME NEW x \in Pair, NEW y \in Pair
  PROVE  FPC_MUL(x, y) = FPC_MUL(y, x)
<1>1. /\ x[1] * y[1] - x[2] * y[2] = y[1] * x[1] - y[2] * x[2]
      /\ x[1] * y[2] + x[2] * y[1] = y[1] * x[2] + y[2] * x[1]
  BY Parts
<1> QED
  BY <1>1 DEF FPC_MUL

(* Addition is associative.                                                *)
LEMMA AddAssoc ==
  ASSUME NEW x \in Pair, NEW y \in Pair, NEW z \in Pair
  PROVE  FPC_ADD(FPC_ADD(x, y), z) = FPC_ADD(x, FPC_ADD(y, z))
<1> DEFINE a == x[1] b == x[2] c == y[1] d == y[2] e == z[1] f == z[2]
<1>1. a \in Int /\ b \in Int /\ c \in Int /\ d \in Int /\ e \in Int /\ f \in Int
  BY Parts
<1> HIDE DEF a, b, c, d, e, f
<1>2. /\ a + c \in Int /\ b + d \in Int /\ c + e \in Int /\ d + f \in Int
      /\ (a + c) + e = a + (c + e) /\ (b + d) + f = b + (d + f)
  BY <1>1
<1>3. /\ (((a + c) % P) + e) % P = ((a + c) + e) % P
      /\ (((b + d) % P) + f) % P = ((b + d) + f) % P
      /\ (a + ((c + e) % P)) % P = (a + (c + e)) % P
      /\ (b + ((d + f) % P)) % P = (b + (d + f)) % P
  BY <1>1, <1>2, ModTerms
<1> QED
  BY <1>2, <1>3 DEF FPC_ADD, a, b, c, d, e, f

(* Multiplication is associative.                                          *)
LEMMA MulAssoc ==
  ASSUME NEW x \in Pair, NEW y \in Pair, NEW z \in Pair
  PROVE  FPC_MUL(FPC_MUL(x, y), z) = FPC_MUL(x, FPC_MUL(y, z))
<1> DEFINE a == x[1] b == x[2] c == y[1] d == y[2] e == z[1] f == z[2]
<1>1. a \in Int /\ b \in Int /\ c \in Int /\ d \in Int /\ e \in Int /\ f \in Int
  BY Parts
<1> HIDE DEF a, b, c, d, e, f
<1>2. a * c - b * d \in Int /\ a * d + b * c \in Int /\ c * e - d * f \in Int /\ c * f + d * e \in Int
  BY <1>1
<1>3. /\ (((a * c - b * d) % P) * e - ((a * d + b * c) % P) * f) % P = ((a * c - b * d) * e - (a * d + b * c) * f) % P
      /\ (((a * c - b * d) % P) * f + ((a * d + b * c) % P) * e) % P = ((a * c - b * d) * f + (a * d + b * c) * e) % P
  BY <1>1, <1>2, ModLinear
<1>4. /\ (a * ((c * e - d * f) % P) - b * ((c * f + d * e) % P)) % P = (a * (c * e - d * f) - b * (c * f + d * e)) % P
      /\ (a * ((c * f + d * e) % P) + b * ((c * e - d * f) % P)) % P = (a * (c * f + d * e) + b * (c * e - d * f)) % P
  BY <1>1, <1>2, ModTerms
<1>5. /\ (a * c - b * d) * e - (a * d + b * c) * f = a * (c * e - d * f) - b * (c * f + d * e)
      /\ (a * c - b * d) * f + (a * d + b * c) * e = a * (c * f + d * e) + b * (c * e - d * f)
  BY <1>1
<1> QED
  BY <1>3, <1>4, <1>5 DEF FPC_MUL, a, b, c, d, e, f

(* Multiplication distributes over addition and subtraction.               *)
LEMMA Distribute ==
  ASSUME NEW x \in Pair, NEW y \in Pair, NEW z \in Pair
  PROVE  /\ FPC_MUL(x, FPC_ADD(y, z)) = FPC_ADD(FPC_MUL(x, y), FPC_MUL(x, z))
         /\ FPC_MUL(x, FPC_SUB(y, z)) = FPC_SUB(FPC_MUL(x, y), FPC_MUL(x, z))
<1> DEFINE a == x[1] b == x[2] c == y[1] d == y[2] e == z[1] f == z[2]
<1>1. a \in Int /\ b \in Int /\ c \in Int /\ d \in Int /\ e \in Int /\ f \in Int
  BY Parts
<1> HIDE DEF a, b, c, d, e, f
<1>2. /\ c + e \in Int /\ d + f \in Int /\ c - e \in Int /\ d - f \in Int
      /\ a * c - b * d \in Int /\ a * d + b * c \in Int
      /\ a * e - b * f \in Int /\ a * f + b * e \in Int
  BY <1>1
<1>3. /\ (a * ((c + e) % P) - b * ((d + f) % P)) % P = (a * (c + e) - b * (d + f)) % P
      /\ (a * ((d + f) % P) + b * ((c + e) % P)) % P = (a * (d + f) + b * (c + e)) % P
      /\ (a * ((c - e) % P) - b * ((d - f) % P)) % P = (a * (c - e) - b * (d - f)) % P
      /\ (a * ((d - f) % P) + b * ((c - e) % P)) % P = (a * (d - f) + b * (c - e)) % P
  BY <1>1, <1>2, ModTerms
<1>4. /\ a * (c + e) - b * (d + f) = (a * c - b * d) + (a * e - b * f)
      /\ a * (d + f) + b * (c + e) = (a * d + b * c) + (a * f + b * e)
      /\ a * (c - e) - b * (d - f) = (a * c - b * d) - (a * e - b * f)
      /\ a * (d - f) + b * (c - e) = (a * d + b * c) - (a * f + b * e)
  BY <1>1
<1>5. /\ (((a * c - b * d) % P) + ((a * e - b * f) % P)) % P = ((a * c - b * d) + (a * e - b * f)) % P
      /\ (((a * d + b * c) % P) + ((a * f + b * e) % P)) % P = ((a * d + b * c) + (a * f + b * e)) % P
      /\ (((a * c - b * d) % P) - ((a * e - b * f) % P)) % P = ((a * c - b * d) - (a * e - b * f)) % P
      /\ (((a * d + b * c) % P) - ((a * f + b * e) % P)) % P = ((a * d + b * c) - (a * f + b * e)) % P
  BY <1>2, ModSums
<1>6. FPC_MUL(x, FPC_ADD(y, z)) = FPC_ADD(FPC_MUL(x, y), FPC_MUL(x, z))
  BY <1>3, <1>4, <1>5 DEF FPC_ADD, FPC_MUL, a, b, c, d, e, f
<1>7. FPC_MUL(x, FPC_SUB(y, z)) = FPC_SUB(FPC_MUL(x, y), FPC_MUL(x, z))
  BY <1>3, <1>4, <1>5 DEF FPC_SUB, FPC_MUL, a, b, c, d, e, f
<1> QED
  BY <1>6, <1>7

(* Subtraction is the addition of the negation.                            *)
LEMMA Negation ==
  ASSUME NEW x \in Pair, NEW y \in Pair
  PROVE  /\ FPC_SUB(x, y) = FPC_ADD(x, Neg(y))
         /\ FPC_MUL(Neg(x), y) = Neg(FPC_MUL(x, y))
         /\ FPC_ADD(x, Neg(x)) = Zero
<1> DEFINE a == x[1] b == x[2] c == y[1] d == y[2]
<1>1. a \in Int /\ b \in Int /\ c \in Int /\ d \in Int
  BY Parts
<1> HIDE DEF a, b, c, d
<1>2. /\ 0 - a \in Int /\ 0 - b \in Int /\ 0 - c \in Int /\ 0 - d \in Int
      /\ a * c - b * d \in Int /\ a * d + b * c \in Int
  BY <1>1
<1>3. /\ (a + ((0 - c) % P)) % P = (a + (0 - c)) % P
      /\ (b + ((0 - d) % P)) % P = (b + (0 - d)) % P
      /\ (a + ((0 - a) % P)) % P = (a + (0 - a)) % P
      /\ (b + ((0 - b) % P)) % P = (b + (0 - b)) % P
      /\ (((0 - a) % P) * c - ((0 - b) % P) * d) % P = ((0 - a) * c - (0 - b) * d) % P
      /\ (((0 - a) % P) * d + ((0 - b) % P) * c) % P = ((0 - a) * d + (0 - b) * c) % P
      /\ (0 - ((a * c - b * d) % P)) % P = (0 - (a * c - b * d)) % P
      /\ (0 - ((a * d + b * c) % P)) % P = (0 - (a * d + b * c)) % P
  BY <1>1, <1>2, ModTerms, ModLinear
<1>4. /\ a + (0 - c) = a - c /\ b + (0 - d) = b - d
      /\ a + (0 - a) = 0 /\ b + (0 - b) = 0
      /\ (0 - a) * c - (0 - b) * d = 0 - (a * c - b * d)
      /\ (0 - a) * d + (0 - b) * c = 0 - (a * d + b * c)
      /\ 0 % P = 0
  BY <1>1, PFacts
<1>5. FPC_SUB(x, y) = FPC_ADD(x, Neg(y))
  BY <1>3, <1>4 DEF FPC_SUB, FPC_ADD, Neg, Zero, a, b, c, d
<1>6. FPC_MUL(Neg(x), y) = Neg(FPC_MUL(x, y))
  BY <1>3, <1>4 DEF FPC_SUB, FPC_MUL, Neg, Zero, a, b, c, d
<1>7. FPC_ADD(x, Neg(x)) = Zero
  BY <1>3, <1>4 DEF FPC_SUB, FPC_ADD, Neg, Zero, a, b, c, d
<1> QED
  BY <1>5, <1>6, <1>7

(* 0 and 1 are neutral; 0 absorbs.                                         *)
LEMMA Units ==
  ASSUME NEW x \in Complex
  PROVE  /\ FPC_ADD(Zero, x) = x /\ FPC_ADD(x, Zero) = x
         /\ FPC_MUL(One, x) = x /\ FPC_MUL(x, One) = x
         /\ FPC_MUL(Zero, x) = Zero /\ FPC_MUL(x, Zero) = Zero
<1>1. x[1] \in 0 .. P - 1 /\ x[2] \in 0 .. P - 1 /\ x = <<x[1], x[2]>>
  BY DEF Complex, Residue
<1>2. x[1] % P = x[1] /\ x[2] % P = x[2] /\ 0 % P = 0
  BY <1>1, PFacts
<1>3. FPC_ADD(Zero, x) = x /\ FPC_ADD(x, Zero) = x
  <2>1. 0 + x[1] = x[1] /\ 0 + x[2] = x[2] /\ x[1] + 0 = x[1] /\ x[2] + 0 = x[2]
    BY <1>1
  <2>2. /\ FPC_ADD(Zero, x) = <<x[1] % P, x[2] % P>>
        /\ FPC_ADD(x, Zero) = <<x[1] % P, x[2] % P>>
    BY <2>1 DEF FPC_ADD, Zero
  <2> QED
    BY <1>1, <1>2, <2>2
<1>4. FPC_MUL(One, x) = x /\ FPC_MUL(x, One) = x
  <2>1. /\ 1 * x[1] - 0 * x[2] = x[1] /\ 1 * x[2] + 0 * x[1] = x[2]
        /\ x[1] * 1 - x[2] * 0 = x[1] /\ x[1] * 0 + x[2] * 1 = x[2]
    BY <1>1
  <2> QED
    BY <1>1, <1>2, <2>1 DEF FPC_MUL, One
<1>5. FPC_MUL(Zero, x) = Zero /\ FPC_MUL(x, Zero) = Zero
  <2>1. /\ 0 * x[1] - 0 * x[2] = 0 /\ 0 * x[2] + 0 * x[1] = 0
        /\ x[1] * 0 - x[2] * 0 = 0 /\ x[1] * 0 + x[2] * 0 = 0
    BY <1>1
  <2> QED
    BY <1>1, <1>2, <2>1 DEF FPC_MUL, Zero
<1> QED
  BY <1>3, <1>4, <1>5

(* Scale is the product by a real number.                                  *)
LEMMA ScaleIsMul ==
  ASSUME NEW r \in Int, NEW x \in Pair
  PROVE  Scale(r, x) = FPC_MUL(<<r, 0>>, x)
<1>1. r * x[1] - 0 * x[2] = r * x[1] /\ r * x[2] + 0 * x[1] = r * x[2]
  BY Parts
<1> QED
  BY <1>1 DEF Scale, FPC_MUL

(* Two steps of Horner's rule at s are one step at s*s of the even and one *)
(* of the odd coefficients: e and o are the sums so far, p and q the       *)
(* coefficients that come next.                                            *)
LEMMA HornerStep ==
  ASSUME NEW e \in Pair, NEW o \in Pair, NEW s \in Pair, NEW p \in Pair, NEW q \in Pair
  PROVE  FPC_ADD(FPC_MUL(FPC_ADD(FPC_MUL(FPC_ADD(e, FPC_MUL(s, o)), s), p), s), q)
           = FPC_ADD(FPC_ADD(FPC_MUL(e, FPC_MUL(s, s)), q),
                     FPC_MUL(s, FPC_ADD(FPC_MUL(o, FPC_MUL(s, s)), p)))
<1> DEFINE so == FPC_MUL(s, o)
           ss == FPC_MUL(s, s)
           es == FPC_MUL(e, s)
           oss == FPC_MUL(o, ss)
           ess == FPC_MUL(e, ss)
           op == FPC_ADD(oss, p)
           sop == FPC_MUL(s, op)
<1>0. so \in Pair /\ ss \in Pair /\ es \in Pair /\ oss \in Pair /\ ess \in Pair /\ op \in Pair /\ sop \in Pair
  BY Closed
<1>1. FPC_MUL(FPC_ADD(e, so), s) = FPC_ADD(es, oss)
  <2>1. FPC_MUL(FPC_ADD(e, so), s) = FPC_MUL(s, FPC_ADD(e, so))
    BY <1>0, Closed, MulComm
  <2>2. FPC_MUL(s, FPC_ADD(e, so)) = FPC_ADD(FPC_MUL(s, e), FPC_MUL(s, so))
    BY <1>0, Distribute
  <2>3. FPC_MUL(s, e) = es
    BY MulComm
  <2>4. FPC_MUL(s, so) = FPC_MUL(ss, o)
    BY MulAssoc
  <2>5. FPC_MUL(ss, o) = oss
    BY <1>0, MulComm
  <2> QED
    BY <2>1, <2>2, <2>3, <2>4, <2>5
<1>2. FPC_ADD(FPC_ADD(es, oss), p) = FPC_ADD(es, op)
  BY <1>0, AddAssoc
<1>3. FPC_MUL(FPC_ADD(es, op), s) = FPC_ADD(ess, sop)
  <2>1. FPC_MUL(FPC_ADD(es, op), s) = FPC_MUL(s, FPC_ADD(es, op))
    BY <1>0, Closed, MulComm
  <2>2. FPC_MUL(s, FPC_ADD(es, op)) = FPC_ADD(FPC_MUL(s, es), sop)
    BY <1>0, Distribute
  <2>3. FPC_MUL(s, es) = FPC_MUL(es, s)
    BY <1>0, MulComm
  <2>4. FPC_MUL(es, s) = ess
    BY MulAssoc
  <2> QED
    BY <2>1, <2>2, <2>3, <2>4
<1>4. FPC_ADD(FPC_ADD(ess, sop), q) = FPC_ADD(FPC_ADD(ess, q), sop)
  <2>1. FPC_ADD(FPC_ADD(ess, sop), q) = FPC_ADD(ess, FPC_ADD(sop, q))
    BY <1>0, AddAssoc
  <2>2. FPC_ADD(sop, q) = FPC_ADD(q, sop)
    BY <1>0, AddComm
  <2>3. FPC_ADD(ess, FPC_ADD(q, sop)) = FPC_ADD(FPC_ADD(ess, q), sop)
    BY <1>0, AddAssoc
  <2> QED
    BY <2>1, <2>2, <2>3
<1> HIDE DEF so, ss, es, oss, ess, op, sop
<1>5. FPC_ADD(FPC_MUL(FPC_ADD(FPC_MUL(FPC_ADD(e, so), s), p), s), q) = FPC_ADD(FPC_ADD(ess, q), sop)
  BY <1>1, <1>2, <1>3, <1>4
<1> QED
  BY <1>5 DEF so, ss, es, oss, ess, op, sop

(* Negation undoes itself.                                                 *)
LEMMA NegNeg ==
  ASSUME NEW x \in Complex
  PROVE  Neg(Neg(x)) = x
<1> DEFINE a == x[1] b == x[2]
<1>1. a \in 0 .. P - 1 /\ b \in 0 .. P - 1 /\ x = <<a, b>>
  BY DEF Complex, Residue
<1> HIDE DEF a, b
<1>2. 0 - a \in Int /\ 0 - b \in Int /\ 0 - (0 - a) = a /\ 0 - (0 - b) = b /\ a % P = a /\ b % P = b
  BY <1>1, PFacts
<1>3. (0 - ((0 - a) % P)) % P = a /\ (0 - ((0 - b) % P)) % P = b
  <2>1. /\ (0 - ((0 - a) % P)) % P = (0 - (0 - a)) % P
        /\ (0 - ((0 - b) % P)) % P = (0 - (0 - b)) % P
    <3>1. 0 \in Int
      OBVIOUS
    <3> QED
      BY <1>2, <3>1, ModTerms
  <2> QED
    BY <1>2, <2>1
<1> QED
  BY <1>1, <1>3 DEF Neg, FPC_SUB, Zero

(* Negation and products.                                                  *)
LEMMA MulNeg ==
  ASSUME NEW x \in Pair, NEW y \in Pair
  PROVE  /\ FPC_MUL(x, Neg(y)) = Neg(FPC_MUL(x, y))
         /\ FPC_MUL(Neg(x), Neg(y)) = FPC_MUL(x, y)
<1>1. FPC_MUL(x, Neg(y)) = Neg(FPC_MUL(x, y))
  <2>1. FPC_MUL(x, Neg(y)) = FPC_MUL(Neg(y), x)
    BY Closed, MulComm
  <2>2. FPC_MUL(Neg(y), x) = Neg(FPC_MUL(y, x))
    BY Negation
  <2> QED
    BY <2>1, <2>2, MulComm
<1>2. FPC_MUL(Neg(x), Neg(y)) = Neg(FPC_MUL(x, Neg(y)))
  BY Negation, Closed
<1> QED
  BY <1>1, <1>2, NegNeg, Closed

(* The four factors of a product may be regrouped.                         *)
LEMMA MulSwap ==
  ASSUME NEW a \in Pair, NEW b \in Pair, NEW c \in Pair, NEW d \in Pair
  PROVE  FPC_MUL(FPC_MUL(a, b), FPC_MUL(c, d)) = FPC_MUL(FPC_MUL(a, c), FPC_MUL(b, d))
<1>1. FPC_MUL(FPC_MUL(a, b), FPC_MUL(c, d)) = FPC_MUL(a, FPC_MUL(b, FPC_MUL(c, d)))
  BY MulAssoc, Closed
<1>2. FPC_MUL(b, FPC_MUL(c, d)) = FPC_MUL(FPC_MUL(b, c), d)
  BY MulAssoc
<1>3. FPC_MUL(b, c) = FPC_MUL(c, b)
  BY MulComm
<1>4. FPC_MUL(FPC_MUL(c, b), d) = FPC_MUL(c, FPC_MUL(b, d))
  BY MulAssoc
<1>5. FPC_MUL(a, FPC_MUL(c, FPC_MUL(b, d))) = FPC_MUL(FPC_MUL(a, c), FPC_MUL(b, d))
  BY MulAssoc, Closed
<1> QED
  BY <1>1, <1>2, <1>3, <1>4, <1>5

(* Conjugation is multiplicative.                                          *)
LEMMA ConjMul ==
  ASSUME NEW x \in Complex, NEW y \in Complex
  PROVE  /\ Conj(x) \in Complex
         /\ Conj(FPC_MUL(x, y)) = FPC_MUL(Conj(x), Conj(y))
<1> DEFINE a == x[1] b == x[2] c == y[1] d == y[2]
<1>1. /\ a \in Int /\ b \in Int /\ c \in Int /\ d \in Int
      /\ a \in Residue
  BY PFacts DEF Complex, Residue
<1> HIDE DEF a, b, c, d
<1>2. PICK q \in Int : (-b) % P = (-b) + q * P
  BY <1>1, ModIs
<1>3. PICK r \in Int : (-d) % P = (-d) + r * P
  BY <1>1, ModIs
<1> DEFINE bb == (-b) % P dd == (-d) % P
<1>4. bb \in Int /\ dd \in Int /\ -b \in Int /\ -d \in Int
  BY <1>1, FPCType, Closed, PFacts
<1>5. (a * c - bb * dd) % P = (a * c - b * d) % P
  <2>1. P \in Int BY PFacts
  <2>2. a * c - ((-b) + q * P) * ((-d) + r * P) = (a * c - b * d) + (q * d + b * r - q * r * P) * P
    BY <1>1, <2>1
  <2>3. q * d + b * r - q * r * P \in Int /\ a * c - b * d \in Int
    BY <1>1, <2>1
  <2>4. ((a * c - b * d) + (q * d + b * r - q * r * P) * P) % P = (a * c - b * d) % P
    BY <2>3, Shifted
  <2> QED
    BY <1>2, <1>3, <2>2, <2>4
<1>6. (a * dd + bb * c) % P = (-((a * d + b * c) % P)) % P
  <2>1. a * d + b * c \in Int
    BY <1>1
  <2>2. (-((a * d + b * c) % P)) % P = (-(a * d + b * c)) % P
    BY <2>1, ModTerms, 0 \in Int
  <2>3. (a * dd + bb * c) % P = (a * (-d) + (-b) * c) % P
    <3>1. P \in Int BY PFacts
    <3>2. a * ((-d) + r * P) + ((-b) + q * P) * c = (a * (-d) + (-b) * c) + (a * r + q * c) * P
      BY <1>1, <3>1
    <3>3. a * r + q * c \in Int /\ a * (-d) + (-b) * c \in Int
      BY <1>1
    <3>4. ((a * (-d) + (-b) * c) + (a * r + q * c) * P) % P = (a * (-d) + (-b) * c) % P
      BY <3>3, Shifted
    <3> QED
      BY <1>2, <1>3, <3>2, <3>4
  <2>4. a * (-d) + (-b) * c = -(a * d + b * c)
    BY <1>1
  <2> QED
    BY <2>2, <2>3, <2>4
<1>7. Conj(FPC_MUL(x, y)) = FPC_MUL(Conj(x), Conj(y))
  BY <1>5, <1>6 DEF Conj, FPC_MUL, a, b, c, d
<1>8. Conj(x) \in Complex
  <2>1. bb \in Residue
    BY <1>4, PFacts DEF Residue
  <2> QED
    BY <1>1, <2>1 DEF Conj, Complex, a, b
<1> QED
  BY <1>7, <1>8

-----------------------------------------------------------------------------
(***************************************************************************)
(* The circle: exp(i*x) is periodic, multiplicative and of norm 1.         *)
(***************************************************************************)

(* The circle has 2^(LogMax+1) points.                                     *)
Order == 2 * Pow2[LogMax]

(* What the assumptions say of the circle, with its size as a power of 2.  *)
LEMMA CircleFacts ==
  /\ Pow2[LogMax - 1] \in Nat /\ Pow2[LogMax - 1] >= 1
  /\ Pow2[LogMax] = 2 * Pow2[LogMax - 1] /\ Pow2[LogMax] \in Nat
  /\ Order = 4 * Pow2[LogMax - 1] /\ Order \in Nat
  /\ \A k \in 0 .. Order - 1 : Circle[k] \in Complex /\ Circle[k] \in Pair
  /\ Circle[0] = One /\ Circle[Pow2[LogMax - 1]] = <<0, 1>>
  /\ FPC_MUL(Circle[1], Conj(Circle[1])) = One
  /\ \A k \in 1 .. Order - 1 : Circle[k] = FPC_MUL(Circle[k - 1], Circle[1])
<1>1. LogMax \in 1 .. LogMax /\ LogMax - 1 \in 0 .. LogMax
  BY Pow2Assumption
<1>2. /\ Pow2[LogMax - 1] \in Nat /\ Pow2[LogMax - 1] >= 1
      /\ Pow2[LogMax] = 2 * Pow2[LogMax - 1]
  BY <1>1, Pow2Facts
<1>3. Order = 4 * Pow2[LogMax - 1] /\ Order \in Nat
  BY <1>2 DEF Order
<1>4. \A k \in 0 .. Order - 1 : Circle[k] \in Complex /\ Circle[k] \in Pair
  BY <1>3, CircleAssumption, Closed DEF Complex, Order
<1> QED
  BY <1>2, <1>3, <1>4, CircleAssumption DEF Order

(* The points of the circle are the powers of the first.                   *)
LEMMA CircleAdd ==
  ASSUME NEW a \in Nat
  PROVE  \A b \in Nat : a + b <= Order - 1 =>
           Circle[a + b] = FPC_MUL(Circle[a], Circle[b])
<1> DEFINE T == {b \in Nat : a + b <= Order - 1 =>
                   Circle[a + b] = FPC_MUL(Circle[a], Circle[b])}
<1>1. 0 \in T
  <2> SUFFICES ASSUME a + 0 <= Order - 1
               PROVE  Circle[a + 0] = FPC_MUL(Circle[a], Circle[0])
    OBVIOUS
  <2>1. a \in 0 .. Order - 1 /\ a + 0 = a
    BY CircleFacts
  <2> QED
    BY <2>1, CircleFacts, Units
<1>2. \A b \in Nat : b \in T => b + 1 \in T
  <2> SUFFICES ASSUME NEW b \in Nat, b \in T
               PROVE  a + (b + 1) <= Order - 1 =>
                        Circle[a + (b + 1)] = FPC_MUL(Circle[a], Circle[b + 1])
    <3>1. Order \in Nat
      BY CircleFacts
    <3> QED
      BY <3>1
  <2> HAVE a + (b + 1) <= Order - 1
  <2>1. /\ a + b <= Order - 1 /\ a + (b + 1) \in 1 .. Order - 1 /\ (a + (b + 1)) - 1 = a + b
        /\ b + 1 \in 1 .. Order - 1 /\ (b + 1) - 1 = b
        /\ a \in 0 .. Order - 1 /\ b \in 0 .. Order - 1 /\ 1 \in 0 .. Order - 1
    BY CircleFacts
  <2>2. Circle[a + b] = FPC_MUL(Circle[a], Circle[b])
    BY <2>1
  <2>3. Circle[a + (b + 1)] = FPC_MUL(Circle[a + b], Circle[1])
    BY <2>1, CircleFacts
  <2>4. Circle[b + 1] = FPC_MUL(Circle[b], Circle[1])
    BY <2>1, CircleFacts
  <2>5. Circle[a] \in Pair /\ Circle[b] \in Pair /\ Circle[1] \in Pair
    BY <2>1, CircleFacts
  <2> QED
    BY <2>2, <2>3, <2>4, <2>5, MulAssoc
<1> HIDE DEF T
<1>3. Nat \subseteq T
  BY <1>1, <1>2, SetInduction
<1> QED
  BY <1>3 DEF T

(* Once round the circle.                                                  *)
LEMMA CircleCloses ==
  /\ Circle[Pow2[LogMax]] = Neg(One)
  /\ FPC_MUL(Circle[Order - 1], Circle[1]) = One
<1> DEFINE h == Pow2[LogMax - 1]
           i == <<0, 1>>
<1>1. h \in Nat /\ h >= 1 /\ Order = 4 * h /\ Pow2[LogMax] = h + h /\ Circle[h] = i
  BY CircleFacts
<1> HIDE DEF h
<1>2. i \in Pair /\ FPC_MUL(i, i) = Neg(One) /\ Neg(One) \in Pair
  <2>1. i \in Pair
    BY DEF Pair
  <2>2. 0 * 0 - 1 * 1 = 0 - 1 /\ 0 * 1 + 1 * 0 = 0 - 0
    OBVIOUS
  <2>3. FPC_MUL(i, i) = Neg(One)
    BY <2>2 DEF FPC_MUL, Neg, FPC_SUB, Zero, One
  <2> QED
    BY <2>1, <2>3, Closed
<1>3. Circle[h + h] = Neg(One)
  BY <1>1, <1>2, CircleAdd
<1>4. Circle[(h + h) + h] = FPC_MUL(Neg(One), i)
  <2>1. h + h \in Nat /\ (h + h) + h <= Order - 1
    BY <1>1
  <2>2. Circle[(h + h) + h] = FPC_MUL(Circle[h + h], Circle[h])
    BY <1>1, <2>1, CircleAdd
  <2> QED
    BY <1>1, <1>3, <2>2
<1>5. Circle[Order - 1] = FPC_MUL(FPC_MUL(Neg(One), i), Circle[h - 1])
  <2>1. h - 1 \in Nat /\ (h + h) + h \in Nat /\ ((h + h) + h) + (h - 1) = Order - 1
    BY <1>1
  <2> QED
    BY <1>4, <2>1, CircleAdd, CircleFacts
<1>6. FPC_MUL(Circle[h - 1], Circle[1]) = i
  <2>1. h \in 1 .. Order - 1
    BY <1>1
  <2> QED
    BY <1>1, <2>1, CircleFacts
<1>7. Circle[h - 1] \in Pair /\ Circle[1] \in Pair
  <2>1. h - 1 \in 0 .. Order - 1 /\ 1 \in 0 .. Order - 1
    BY <1>1
  <2> QED
    BY <2>1, CircleFacts
<1>8. FPC_MUL(Circle[Order - 1], Circle[1]) = FPC_MUL(FPC_MUL(Neg(One), i), i)
  <2>1. FPC_MUL(Neg(One), i) \in Pair
    BY <1>2, Closed
  <2>2. FPC_MUL(FPC_MUL(FPC_MUL(Neg(One), i), Circle[h - 1]), Circle[1]) =
          FPC_MUL(FPC_MUL(Neg(One), i), FPC_MUL(Circle[h - 1], Circle[1]))
    BY <1>7, <2>1, MulAssoc
  <2> QED
    BY <1>5, <1>6, <2>2
<1>9. FPC_MUL(FPC_MUL(Neg(One), i), i) = FPC_MUL(Neg(One), Neg(One))
  BY <1>2, MulAssoc
<1>10. FPC_MUL(Neg(One), Neg(One)) = One
  BY Closed, MulNeg, Units
<1> QED
  BY <1>1, <1>3, <1>8, <1>9, <1>10

(* One point further.                                                      *)
LEMMA ExpSucc ==
  ASSUME NEW k \in Nat
  PROVE  Exp(k + 1) = FPC_MUL(Exp(k), Exp(1))
<1> DEFINE q == k \div Order
           r == k % Order
<1>1. Order \in Nat /\ Order >= 4
  BY CircleFacts
<1>2. q \in Int /\ r \in 0 .. Order - 1 /\ k = Order * q + r
  BY <1>1, DivMod
<1> HIDE DEF q
<1>3. Exp(k) = Circle[r] /\ Exp(k + 1) = Circle[(k + 1) % Order]
  BY DEF Exp, Order
<1>4. Exp(1) = Circle[1]
  <2>1. (0 * Order + 1) % Order = 1
    BY <1>1, DivModUnique, 1 \in 0 .. Order - 1
  <2> QED
    BY <1>1, <2>1 DEF Exp, Order
<1> HIDE DEF r
<1>5. CASE r + 1 <= Order - 1
  <2>1. k + 1 = q * Order + (r + 1) /\ r + 1 \in 1 .. Order - 1 /\ (r + 1) - 1 = r
    BY <1>1, <1>2, <1>5
  <2>2. (k + 1) % Order = r + 1
    BY <1>1, <1>2, <2>1, DivModUnique
  <2> QED
    BY <1>3, <1>4, <2>1, <2>2, CircleFacts
<1>6. CASE r = Order - 1
  <2>1. k + 1 = (q + 1) * Order + 0 /\ q + 1 \in Int
    BY <1>1, <1>2, <1>6
  <2>2. (k + 1) % Order = 0
    BY <1>1, <2>1, DivModUnique
  <2> QED
    BY <1>3, <1>4, <1>6, <2>2, CircleCloses, CircleFacts
<1> QED
  BY <1>1, <1>2, <1>5, <1>6

(* exp(0) = 1, exp(i*pi/2) = i, exp(i*pi) = -1.                            *)
LEMMA ExpSpecial ==
  /\ Exp(0) = One /\ Exp(Pow2[LogMax - 1]) = <<0, 1>> /\ Exp(Pow2[LogMax]) = Neg(One)
  /\ \A k \in Nat : Exp(k) \in Complex /\ Exp(k) \in Pair
<1>1. Order \in Nat /\ Order >= 4
  BY CircleFacts
<1>2. \A k \in 0 .. Order - 1 : Exp(k) = Circle[k]
  <2> TAKE k \in 0 .. Order - 1
  <2>1. k % Order = k
    BY <1>1
  <2> QED
    BY <2>1 DEF Exp, Order
<1>3. 0 \in 0 .. Order - 1 /\ Pow2[LogMax - 1] \in 0 .. Order - 1 /\ Pow2[LogMax] \in 0 .. Order - 1
  BY CircleFacts
<1> QED
  BY <1>2, <1>3, CircleFacts, CircleCloses, ExpType, Closed

(* exp(i*x) exp(i*y) = exp(i*(x + y))                                      *)
LEMMA ExpAdd ==
  ASSUME NEW a \in Nat
  PROVE  \A b \in Nat : Exp(a + b) = FPC_MUL(Exp(a), Exp(b))
<1> DEFINE T == {b \in Nat : Exp(a + b) = FPC_MUL(Exp(a), Exp(b))}
<1>1. 0 \in T
  <2>1. a + 0 = a
    OBVIOUS
  <2> QED
    BY <2>1, ExpSpecial, Units
<1>2. \A b \in Nat : b \in T => b + 1 \in T
  <2> SUFFICES ASSUME NEW b \in Nat, b \in T
               PROVE  Exp(a + (b + 1)) = FPC_MUL(Exp(a), Exp(b + 1))
    OBVIOUS
  <2>1. a + (b + 1) = (a + b) + 1 /\ a + b \in Nat
    OBVIOUS
  <2>2. Exp(a + (b + 1)) = FPC_MUL(FPC_MUL(Exp(a), Exp(b)), Exp(1))
    BY <2>1, ExpSucc
  <2>3. Exp(b + 1) = FPC_MUL(Exp(b), Exp(1))
    BY ExpSucc
  <2> QED
    BY <2>2, <2>3, ExpSpecial, MulAssoc
<1> HIDE DEF T
<1>3. Nat \subseteq T
  BY <1>1, <1>2, SetInduction
<1> QED
  BY <1>3 DEF T

(* Half a turn changes the sign.                                           *)
LEMMA ExpOpposite ==
  ASSUME NEW k \in Nat
  PROVE  Exp(k + Pow2[LogMax]) = Neg(Exp(k))
<1>1. Exp(k + Pow2[LogMax]) = FPC_MUL(Exp(k), Neg(One))
  BY ExpAdd, ExpSpecial, CircleFacts
<1> QED
  BY <1>1, ExpSpecial, MulNeg, Units, Closed

(* exp(i*x) has norm 1.                                                    *)
LEMMA ExpNorm ==
  \A k \in Nat : FPC_MUL(Exp(k), Conj(Exp(k))) = One
<1> DEFINE T == {k \in Nat : FPC_MUL(Exp(k), Conj(Exp(k))) = One}
<1>1. 0 \in T
  <2>1. Conj(One) = One
    <3>1. (-0) % P = 0
      BY PFacts
    <3> QED
      BY <3>1 DEF Conj, One
  <2> QED
    BY <2>1, ExpSpecial, Units
<1>2. \A k \in Nat : k \in T => k + 1 \in T
  <2> SUFFICES ASSUME NEW k \in Nat, k \in T
               PROVE  FPC_MUL(Exp(k + 1), Conj(Exp(k + 1))) = One
    OBVIOUS
  <2>0. /\ Exp(k) \in Complex /\ Exp(1) \in Complex /\ Conj(Exp(k)) \in Pair /\ Conj(Exp(1)) \in Pair
        /\ Exp(k) \in Pair /\ Exp(1) \in Pair
    BY ExpSpecial, ConjMul, Closed
  <2>1. Exp(k + 1) = FPC_MUL(Exp(k), Exp(1))
    BY ExpSucc
  <2>2. Conj(Exp(k + 1)) = FPC_MUL(Conj(Exp(k)), Conj(Exp(1)))
    BY <2>0, <2>1, ConjMul
  <2>3. FPC_MUL(Exp(k + 1), Conj(Exp(k + 1))) =
          FPC_MUL(FPC_MUL(Exp(k), Conj(Exp(k))), FPC_MUL(Exp(1), Conj(Exp(1))))
    BY <2>0, <2>1, <2>2, MulSwap
  <2>4. FPC_MUL(Exp(1), Conj(Exp(1))) = One
    <3>1. 1 % Order = 1
      BY CircleFacts
    <3> QED
      BY <3>1, CircleFacts DEF Exp, Order
  <2> QED
    BY <2>3, <2>4, Units, Closed
<1> HIDE DEF T
<1>3. Nat \subseteq T
  BY <1>1, <1>2, SetInduction
<1> QED
  BY <1>3 DEF T

-----------------------------------------------------------------------------
(***************************************************************************)
(* Recursion, bits and bit reversal.                                       *)
(***************************************************************************)

(* A recursion over the numbers up to N defines a function.                *)
Start(base, N, step, V) == base \in V /\ step \in [1 .. N -> [V -> V]]

(* Such a function exists, by extending one on 0..k to one on 0..k+1.      *)
LEMMA Recursion ==
  ASSUME NEW N \in Nat, NEW V, NEW base, NEW step, Start(base, N, step, V)
  PROVE  \E f \in [0 .. N -> V] :
           f[0] = base /\ \A k \in 1 .. N : f[k] = step[k][f[k - 1]]
<1> USE DEF Start
<1> DEFINE Is(f, m) == /\ f \in [0 .. m -> V] /\ f[0] = base
                       /\ \A k \in 1 .. m : f[k] = step[k][f[k - 1]]
           T == {m \in Nat : m <= N => \E f : Is(f, m)}
<1>1. 0 \in T
  <2> DEFINE f == [k \in 0 .. 0 |-> base]
  <2>1. Is(f, 0)
    OBVIOUS
  <2> HIDE DEF f, Is
  <2> QED
    BY <2>1
<1>2. \A m \in Nat : m \in T => m + 1 \in T
  <2> SUFFICES ASSUME NEW m \in Nat, m \in T
               PROVE  m + 1 <= N => \E f : Is(f, m + 1)
    <3> HIDE DEF Is
    <3> QED
      OBVIOUS
  <2> HAVE m + 1 <= N
  <2>1. PICK f : Is(f, m)
    <3> HIDE DEF Is
    <3> QED
      OBVIOUS
  <2> DEFINE v == step[m + 1][f[m]]
             g == [k \in 0 .. m + 1 |-> IF k = m + 1 THEN v ELSE f[k]]
  <2>2. v \in V
    <3>1. m + 1 \in 1 .. N /\ m \in 0 .. m
      OBVIOUS
    <3>2. f[m] \in V
      BY <2>1, <3>1
    <3> QED
      BY <3>1, <3>2
  <2> HIDE DEF v
  <2>3. g \in [0 .. m + 1 -> V] /\ g[0] = base
    BY <2>1, <2>2
  <2>4. ASSUME NEW k \in 1 .. m + 1
        PROVE  g[k] = step[k][g[k - 1]]
    <3>1. CASE k = m + 1
      <4>1. g[k] = v /\ g[k - 1] = f[m]
        BY <3>1
      <4> QED
        BY <3>1, <4>1 DEF v
    <3>2. CASE k \in 1 .. m
      <4>1. g[k] = f[k] /\ g[k - 1] = f[k - 1]
        BY <3>2
      <4> QED
        BY <2>1, <3>2, <4>1
    <3> QED
      BY <3>1, <3>2
  <2> HIDE DEF g
  <2>5. Is(g, m + 1)
    BY <2>3, <2>4
  <2> HIDE DEF Is
  <2> QED
    BY <2>5
<1>3. \E f : Is(f, N)
  <2>1. Nat \subseteq T
    <3> HIDE DEF T
    <3> QED
      BY <1>1, <1>2, SetInduction
  <2> HIDE DEF Is
  <2> QED
    BY <2>1
<1> QED
  BY <1>3

(* Two functions with the same recursion agree.                            *)
SameSteps(f, g, M) ==
  f[0] = g[0] /\ \A k \in 1 .. M : f[k - 1] = g[k - 1] => f[k] = g[k]

(* Functions with the same recursion are equal, by induction.              *)
LEMMA RecursionUnique ==
  ASSUME NEW M \in Nat, NEW f, NEW g, SameSteps(f, g, M)
  PROVE  \A k \in 0 .. M : f[k] = g[k]
<1> USE DEF SameSteps
<1> DEFINE T == {k \in Nat : k <= M => f[k] = g[k]}
<1>1. 0 \in T
  OBVIOUS
<1>2. \A k \in Nat : k \in T => k + 1 \in T
  <2> SUFFICES ASSUME NEW k \in Nat, k \in T
               PROVE  k + 1 <= M => f[k + 1] = g[k + 1]
    OBVIOUS
  <2> HAVE k + 1 <= M
  <2>1. k + 1 \in 1 .. M /\ (k + 1) - 1 = k /\ f[k] = g[k]
    OBVIOUS
  <2> QED
    BY <2>1
<1>3. Nat \subseteq T
  <2> HIDE DEF T
  <2> QED
    BY <1>1, <1>2, SetInduction
<1> QED
  BY <1>3

(* Bit i of x.                                                             *)
Bit(x, i) == (x \div Pow2[i]) % 2

(* A bit is 0 or 1.                                                        *)
LEMMA BitType ==
  ASSUME NEW x \in Nat, NEW i \in 0 .. LogMax
  PROVE  Bit(x, i) \in {0, 1} /\ Bit(x, i) \in Nat
<1>1. Pow2[i] \in Nat /\ Pow2[i] > 0
  BY Pow2Facts
<1>2. x \div Pow2[i] \in Int
  BY <1>1, DivMod
<1>3. (x \div Pow2[i]) % 2 \in 0 .. 1
  BY <1>2
<1> QED
  BY <1>3 DEF Bit

(* Rev accumulates the bits of x, from the lowest.                         *)
LEMMA RevRecursion ==
  ASSUME NEW x \in Nat, NEW l \in 0 .. LogMax
  PROVE  \E acc \in [0 .. l -> Nat] :
           /\ acc[0] = 0 /\ \A i \in 1 .. l : acc[i] = 2 * acc[i - 1] + Bit(x, i - 1)
           /\ Rev(x, l) = acc[l]
<1> DEFINE step == [i \in 1 .. l |-> [v \in Nat |-> 2 * v + Bit(x, i - 1)]]
           Body(f, i) == IF i = 0 THEN 0 ELSE 2 * f[i - 1] + Bit(x, i - 1)
           Is(f) == f = [i \in 0 .. l |-> Body(f, i)]
           acc == CHOOSE f : Is(f)
<1>0. l \in Nat /\ l <= LogMax /\ LogMax \in Nat
  BY Pow2Assumption
<1>1. \A i \in 1 .. l : Bit(x, i - 1) \in Nat
  BY <1>0, BitType
<1>2. step \in [1 .. l -> [Nat -> Nat]]
  BY <1>1
<1>3. PICK f \in [0 .. l -> Nat] : f[0] = 0 /\ \A i \in 1 .. l : f[i] = step[i][f[i - 1]]
  <2> DEFINE V == Nat
  <2>1. Start(0, l, step, V)
    BY <1>2 DEF Start
  <2> HIDE DEF step, V
  <2>2. \E f \in [0 .. l -> V] : f[0] = 0 /\ \A i \in 1 .. l : f[i] = step[i][f[i - 1]]
    BY <1>0, <2>1, Recursion
  <2> QED
    BY <2>2 DEF V
<1>4. \A i \in 1 .. l : f[i] = 2 * f[i - 1] + Bit(x, i - 1)
  <2> TAKE i \in 1 .. l
  <2>1. f[i - 1] \in Nat
    BY <1>0, <1>3
  <2> QED
    BY <1>3, <2>1
<1>5. Is(f)
  <2>1. \A i \in 0 .. l : f[i] = Body(f, i)
    BY <1>0, <1>3, <1>4
  <2> HIDE DEF Body
  <2> QED
    BY <1>3, <2>1
<1>6. Is(acc)
  <2> HIDE DEF Is
  <2> QED
    BY <1>5
<1>7. Rev(x, l) = acc[l]
  BY DEF Rev, Bit
<1> HIDE DEF acc
<1>8. /\ acc[0] = 0 /\ \A i \in 1 .. l : acc[i] = 2 * acc[i - 1] + Bit(x, i - 1)
      /\ acc = [i \in 0 .. l |-> acc[i]]
  BY <1>0, <1>6, SMTT(30)
<1>9. \A i \in 0 .. l : acc[i] = f[i]
  <2>1. acc[0] = f[0]
    BY <1>3, <1>8
  <2>2. \A i \in 1 .. l : acc[i - 1] = f[i - 1] => acc[i] = f[i]
    BY <1>4, <1>8
  <2> QED
    <3>1. SameSteps(acc, f, l)
      BY <2>1, <2>2 DEF SameSteps
    <3> QED
      BY <1>0, <3>1, RecursionUnique
<1>10. acc \in [0 .. l -> Nat]
  BY <1>3, <1>8, <1>9
<1> QED
  BY <1>7, <1>8, <1>10

(* Bit reversal yields a natural.                                          *)
LEMMA RevType ==
  ASSUME NEW x \in Nat, NEW l \in 0 .. LogMax
  PROVE  Rev(x, l) \in Nat
<1>1. l \in 0 .. l
  BY Pow2Assumption
<1>2. PICK acc \in [0 .. l -> Nat] : Rev(x, l) = acc[l]
  BY RevRecursion, Zenon
<1> QED
  BY <1>1, <1>2

(* The table of twiddles of the reference holds complex numbers.           *)
LEMMA GMType ==
  fpr_gm_tab \in [0 .. Pow2[LogMax] - 1 -> Complex]
<1>1. LogMax \in 0 .. LogMax /\ Pow2[LogMax] \in Nat
  BY Pow2Facts, Pow2Assumption
<1>2. \A k \in 0 .. Pow2[LogMax] - 1 : Exp(Rev(k, LogMax)) \in Complex
  <2> TAKE k \in 0 .. Pow2[LogMax] - 1
  <2>1. k \in Nat
    BY <1>1
  <2>2. Rev(k, LogMax) \in Nat
    BY <2>1, <1>1, RevType
  <2> QED
    BY <2>2, ExpType
<1> QED
  BY <1>2, ComplexFacts DEF fpr_gm_tab

(* Reversing no bits.                                                      *)
LEMMA RevZero ==
  ASSUME NEW x \in Nat
  PROVE  Rev(x, 0) = 0
<1>1. 0 \in 0 .. LogMax
  BY Pow2Assumption
<1> QED
  BY <1>1, RevRecursion

(* Reversing one bit more: it comes in at the low end.                     *)
LEMMA RevStep ==
  ASSUME NEW x \in Nat, NEW l \in 1 .. LogMax
  PROVE  Rev(x, l) = 2 * Rev(x, l - 1) + Bit(x, l - 1)
<1>0. l \in 0 .. LogMax /\ l - 1 \in 0 .. LogMax /\ l - 1 \in Nat /\ LogMax \in Nat
  BY Pow2Assumption
<1>1. PICK f \in [0 .. l -> Nat] :
           /\ f[0] = 0 /\ \A i \in 1 .. l : f[i] = 2 * f[i - 1] + Bit(x, i - 1)
           /\ Rev(x, l) = f[l]
  BY <1>0, RevRecursion
<1>2. PICK g \in [0 .. l - 1 -> Nat] :
           /\ g[0] = 0 /\ \A i \in 1 .. l - 1 : g[i] = 2 * g[i - 1] + Bit(x, i - 1)
           /\ Rev(x, l - 1) = g[l - 1]
  BY <1>0, RevRecursion
<1>3. \A i \in 1 .. l - 1 : f[i] = 2 * f[i - 1] + Bit(x, i - 1)
  BY <1>0, <1>1
<1>4. \A i \in 0 .. l - 1 : f[i] = g[i]
  <2>1. f[0] = g[0]
    BY <1>1, <1>2
  <2>2. \A i \in 1 .. l - 1 : f[i - 1] = g[i - 1] => f[i] = g[i]
    BY <1>2, <1>3
  <2> QED
    <3>1. SameSteps(f, g, l - 1)
      BY <2>1, <2>2 DEF SameSteps
    <3> QED
      BY <1>0, <3>1, RecursionUnique
<1>5. l \in 1 .. l /\ l - 1 \in 0 .. l - 1
  BY <1>0
<1> QED
  BY <1>1, <1>2, <1>4, <1>5

(* 2^(v + w) = 2^v * 2^w                                                   *)
LEMMA Pow2Add ==
  ASSUME NEW v \in Nat
  PROVE  \A w \in Nat : v + w <= LogMax => Pow2[v + w] = Pow2[v] * Pow2[w]
<1>0. LogMax \in Nat /\ Pow2[0] = 1
  BY Pow2Assumption
<1> DEFINE T == {w \in Nat : v + w <= LogMax => Pow2[v + w] = Pow2[v] * Pow2[w]}
<1>1. 0 \in T
  <2> SUFFICES v + 0 <= LogMax => Pow2[v + 0] = Pow2[v] * Pow2[0]
    BY <1>0
  <2> HAVE v + 0 <= LogMax
  <2>1. Pow2[v] \in Nat
    BY <1>0, Pow2Facts
  <2> QED
    BY <1>0, <2>1
<1>2. \A w \in Nat : w \in T => w + 1 \in T
  <2> SUFFICES ASSUME NEW w \in Nat, w \in T
               PROVE  v + (w + 1) <= LogMax => Pow2[v + (w + 1)] = Pow2[v] * Pow2[w + 1]
    BY <1>0
  <2> HAVE v + (w + 1) <= LogMax
  <2>1. Pow2[v + w] = Pow2[v] * Pow2[w]
    BY <1>0
  <2>2. v \in 0 .. LogMax /\ w \in 0 .. LogMax /\ v + w \in 0 .. LogMax
        /\ v + (w + 1) \in 1 .. LogMax /\ (v + (w + 1)) - 1 = v + w
        /\ w + 1 \in 1 .. LogMax /\ (w + 1) - 1 = w
    BY <1>0
  <2>3. Pow2[v] \in Nat /\ Pow2[w] \in Nat /\ Pow2[w + 1] = 2 * Pow2[w]
        /\ Pow2[v + (w + 1)] = 2 * Pow2[v + w]
    BY <2>2, Pow2Facts
  <2>4. 2 * (Pow2[v] * Pow2[w]) = Pow2[v] * (2 * Pow2[w])
    BY <2>3
  <2> QED
    BY <2>1, <2>3, <2>4
<1>3. Nat \subseteq T
  <2> HIDE DEF T
  <2> QED
    BY <1>1, <1>2, SetInduction
<1> QED
  BY <1>3

(* The low bits of A*2^w + B, B < 2^w, are those of B.                     *)
LEMMA BitLow ==
  ASSUME NEW w \in 0 .. LogMax, NEW k \in Nat, k < w, NEW A \in Nat, NEW B \in Nat
  PROVE  Bit(A * Pow2[w] + B, k) = Bit(B, k)
<1> DEFINE d == Pow2[k]
           c == Pow2[w - k - 1]
           q == B \div d
           r == B % d
<1>0. w \in Nat /\ w <= LogMax /\ LogMax \in Nat
  BY Pow2Assumption
<1>1. k \in 0 .. LogMax /\ w - k \in 1 .. LogMax /\ w - k - 1 \in 0 .. LogMax /\ (w - k) - 1 = w - k - 1
      /\ w - k \in Nat /\ k + (w - k) = w
  BY <1>0
<1>2. d \in Nat /\ d > 0 /\ c \in Nat /\ Pow2[w - k] = 2 * c /\ Pow2[w] = d * Pow2[w - k]
  BY <1>0, <1>1, Pow2Facts, Pow2Add
<1>3. q \in Int /\ r \in 0 .. d - 1 /\ B = d * q + r
  BY <1>2, DivMod
<1>4. Bit(B, k) = q % 2
  BY DEF Bit
<1> HIDE DEF d, c, q, r
<1>5. A * Pow2[w] + B = (2 * (A * c) + q) * d + r
  <2>1. A * (d * (2 * c)) = (2 * (A * c)) * d
    BY <1>2
  <2>2. (2 * (A * c) + q) * d = (2 * (A * c)) * d + d * q
    BY <1>2, <1>3
  <2>3. A * (d * (2 * c)) \in Int /\ d * q \in Int
    BY <1>2, <1>3
  <2> QED
    BY <1>2, <1>3, <2>1, <2>2, <2>3
<1>6. 2 * (A * c) + q \in Int /\ A * c \in Int
  BY <1>2, <1>3
<1>7. ((2 * (A * c) + q) * d + r) \div d = 2 * (A * c) + q
  BY <1>2, <1>3, <1>6, DivModUnique
<1>8. (2 * (A * c) + q) % 2 = q % 2
  BY <1>3, <1>6
<1> QED
  BY <1>4, <1>5, <1>7, <1>8 DEF Bit, d

(* The high bits are those of A.                                           *)
LEMMA BitHigh ==
  ASSUME NEW w \in Nat, NEW k \in Nat, w + k <= LogMax, NEW A \in Nat, NEW B \in 0 .. Pow2[w] - 1
  PROVE  Bit(A * Pow2[w] + B, w + k) = Bit(A, k)
<1> DEFINE d == Pow2[k]
           c == Pow2[w]
           q == A \div d
           r == A % d
<1>0. w \in 0 .. LogMax /\ k \in 0 .. LogMax /\ w + k \in 0 .. LogMax
  BY Pow2Assumption
<1>1. d \in Nat /\ d > 0 /\ c \in Nat /\ c > 0 /\ Pow2[w + k] = c * d /\ B \in 0 .. c - 1
  <2>1. Pow2[w + k] = c * d
    BY Pow2Add
  <2>2. d \in Nat /\ d >= 1 /\ c \in Nat /\ c >= 1
    BY <1>0, Pow2Facts
  <2> QED
    BY <2>1, <2>2
<1>2. q \in Int /\ r \in 0 .. d - 1 /\ A = d * q + r
  <2>1. A \in Int /\ d \in Nat /\ d > 0
    BY <1>1
  <2> HIDE DEF d
  <2> QED
    BY <2>1, DivMod
<1>3. Bit(A, k) = q % 2
  BY DEF Bit
<1> HIDE DEF d, c, q, r
<1>4. A * c + B = q * (c * d) + (r * c + B)
  <2>1. (d * q + r) * c = q * (c * d) + r * c
    BY <1>1, <1>2
  <2>2. q * (c * d) \in Int /\ r * c \in Int /\ B \in Int
    BY <1>1, <1>2
  <2> QED
    BY <1>2, <2>1, <2>2
<1>5. r * c + B \in 0 .. c * d - 1
  <2>1. r + 1 <= d /\ (r + 1) * c = r * c + c
    BY <1>1, <1>2
  <2>2. (r + 1) * c <= d * c /\ d * c = c * d
    BY <1>1, <1>2, <2>1
  <2>3. r * c \in Nat /\ c * d \in Nat
    BY <1>1, <1>2
  <2> QED
    BY <1>1, <2>1, <2>2, <2>3
<1>6. (q * (c * d) + (r * c + B)) \div (c * d) = q
  <2>1. c * d \in Nat
    BY <1>1
  <2> QED
    BY <1>2, <1>5, <2>1, DivModUnique
<1> QED
  BY <1>1, <1>3, <1>4, <1>6 DEF Bit, c

(* Reversing a number written in two parts.                                *)
LEMMA RevConcat ==
  ASSUME NEW w \in Nat, NEW A \in Nat, NEW B \in 0 .. Pow2[w] - 1, w <= LogMax
  PROVE  \A v \in Nat : w + v <= LogMax =>
           Rev(A * Pow2[w] + B, w + v) = Rev(B, w) * Pow2[v] + Rev(A, v)
<1> DEFINE x == A * Pow2[w] + B
<1>0. LogMax \in Nat /\ Pow2[0] = 1 /\ w \in 0 .. LogMax /\ Pow2[w] \in Nat /\ B \in Nat
  BY Pow2Assumption
<1>1. x \in Nat
  BY <1>0
<1> HIDE DEF x
<1>2. Rev(x, w) = Rev(B, w)
  <2> DEFINE T == {k \in Nat : k <= w => Rev(x, k) = Rev(B, k)}
  <2>1. 0 \in T
    BY <1>0, <1>1, RevZero
  <2>2. \A k \in Nat : k \in T => k + 1 \in T
    <3> SUFFICES ASSUME NEW k \in Nat, k \in T
                 PROVE  k + 1 <= w => Rev(x, k + 1) = Rev(B, k + 1)
      OBVIOUS
    <3> HAVE k + 1 <= w
    <3>1. k + 1 \in 1 .. LogMax /\ (k + 1) - 1 = k /\ k < w /\ k <= w
      BY <1>0
    <3>2. Rev(x, k + 1) = 2 * Rev(x, k) + Bit(x, k)
      BY <1>1, <3>1, RevStep
    <3>3. Rev(B, k + 1) = 2 * Rev(B, k) + Bit(B, k)
      BY <1>0, <3>1, RevStep
    <3>4. Bit(x, k) = Bit(B, k)
      BY <1>0, <3>1, BitLow DEF x
    <3>5. Rev(x, k) = Rev(B, k)
      BY <3>1
    <3> QED
      BY <3>2, <3>3, <3>4, <3>5
  <2>3. Nat \subseteq T
    <3> HIDE DEF T
    <3> QED
      BY <2>1, <2>2, SetInduction
  <2> QED
    BY <1>0, <2>3
<1> DEFINE T == {v \in Nat : w + v <= LogMax => Rev(x, w + v) = Rev(B, w) * Pow2[v] + Rev(A, v)}
<1>3. 0 \in T
  <2>1. w + 0 = w /\ Rev(B, w) \in Nat /\ Rev(A, 0) = 0
    BY <1>0, RevType, RevZero
  <2> QED
    BY <1>0, <1>2, <2>1
<1>4. \A v \in Nat : v \in T => v + 1 \in T
  <2> SUFFICES ASSUME NEW v \in Nat, v \in T
               PROVE  w + (v + 1) <= LogMax => Rev(x, w + (v + 1)) = Rev(B, w) * Pow2[v + 1] + Rev(A, v + 1)
    BY <1>0
  <2> HAVE w + (v + 1) <= LogMax
  <2>1. /\ w + (v + 1) \in 1 .. LogMax /\ (w + (v + 1)) - 1 = w + v /\ w + v <= LogMax
        /\ v + 1 \in 1 .. LogMax /\ (v + 1) - 1 = v /\ v \in 0 .. LogMax /\ w + v \in 0 .. LogMax
        /\ w + v \in Nat
    BY <1>0
  <2>2. Rev(x, w + (v + 1)) = 2 * Rev(x, w + v) + Bit(x, w + v)
    BY <1>1, <2>1, RevStep
  <2>3. Rev(A, v + 1) = 2 * Rev(A, v) + Bit(A, v)
    BY <2>1, RevStep
  <2>4. Bit(x, w + v) = Bit(A, v)
    BY <2>1, BitHigh DEF x
  <2>5. Rev(x, w + v) = Rev(B, w) * Pow2[v] + Rev(A, v)
    BY <1>0, <2>1
  <2>6. Pow2[v + 1] = 2 * Pow2[v] /\ Pow2[v] \in Nat
    BY <2>1, Pow2Facts
  <2>7. Rev(B, w) \in Nat /\ Rev(A, v) \in Nat /\ Bit(A, v) \in Nat
    BY <1>0, <2>1, RevType, BitType
  <2>8. Rev(B, w) * (2 * Pow2[v]) = 2 * (Rev(B, w) * Pow2[v]) /\ Rev(B, w) * Pow2[v] \in Nat
    BY <2>6, <2>7
  <2> QED
    BY <2>2, <2>3, <2>4, <2>5, <2>6, <2>7, <2>8
<1>5. Nat \subseteq T
  <2> HIDE DEF T
  <2> QED
    BY <1>3, <1>4, SetInduction
<1> QED
  BY <1>0, <1>5 DEF x

(* 0 reversed is 0.                                                        *)
LEMMA RevOfZero ==
  ASSUME NEW l \in 0 .. LogMax
  PROVE  Rev(0, l) = 0
<1>0. LogMax \in Nat
  BY Pow2Assumption
<1> DEFINE T == {k \in Nat : k <= LogMax => Rev(0, k) = 0}
<1>1. 0 \in T
  BY RevZero
<1>2. \A k \in Nat : k \in T => k + 1 \in T
  <2> SUFFICES ASSUME NEW k \in Nat, k \in T
               PROVE  k + 1 <= LogMax => Rev(0, k + 1) = 0
    BY <1>0
  <2> HAVE k + 1 <= LogMax
  <2>1. k + 1 \in 1 .. LogMax /\ (k + 1) - 1 = k /\ k \in 0 .. LogMax /\ k <= LogMax
    BY <1>0
  <2>2. Rev(0, k + 1) = 2 * Rev(0, k) + Bit(0, k)
    BY <2>1, RevStep
  <2>3. Bit(0, k) = 0
    <3>1. Pow2[k] \in Nat /\ Pow2[k] > 0
      BY <2>1, Pow2Facts
    <3>2. (0 * Pow2[k] + 0) \div Pow2[k] = 0 /\ 0 * Pow2[k] + 0 = 0
      BY <3>1, DivModUnique
    <3> QED
      BY <3>2 DEF Bit
  <2>4. Rev(0, k) = 0
    BY <1>0, <2>1
  <2> QED
    BY <2>2, <2>3, <2>4
<1>3. Nat \subseteq T
  <2> HIDE DEF T
  <2> QED
    BY <1>1, <1>2, SetInduction
<1> QED
  BY <1>0, <1>3

(* 1 reversed, as one bit, is 1.                                           *)
LEMMA RevOfOne ==
  Rev(1, 1) = 1
<1>1. 1 \in 1 .. LogMax /\ 1 - 1 = 0 /\ Pow2[0] = 1
  BY Pow2Assumption
<1>2. Rev(1, 1) = 2 * Rev(1, 0) + Bit(1, 0)
  BY <1>1, RevStep
<1>3. Bit(1, 0) = 1
  <2>1. 1 \div 1 = 1
    OBVIOUS
  <2> QED
    BY <1>1, <2>1 DEF Bit
<1>4. Rev(1, 0) = 0
  BY RevZero
<1> QED
  BY <1>2, <1>3, <1>4

-----------------------------------------------------------------------------
(***************************************************************************)
(* Polynomials by Horner's rule.                                           *)
(***************************************************************************)

(* The coefficients Horner reads are integers.                             *)
Reads(f, d, size, terms) == \A k \in 0 .. terms - 1 : f[d + k * size] \in Int

(* A sum by Horner's rule, as the function its recursion defines.          *)
HornerSums(sum, f, d, size, terms, c) ==
  /\ sum \in [0 .. terms -> Complex]
  /\ sum[0] = Zero
  /\ \A k \in 1 .. terms :
       sum[k] = FPC_ADD(FPC_MUL(sum[k - 1], c), <<f[d + (terms - k) * size], 0>>)

(* The recursive function in Horner has its recursion.                     *)
LEMMA HornerRecursion ==
  ASSUME NEW f, NEW d \in Nat, NEW size \in Nat, NEW terms \in Nat, NEW c \in Pair,
         Reads(f, d, size, terms)
  PROVE  \E sum : /\ HornerSums(sum, f, d, size, terms, c)
                  /\ Horner(f, d, size, terms, c) = sum[terms]
<1> DEFINE coef(k) == <<f[d + (terms - k) * size], 0>>
           next(v, k) == FPC_ADD(FPC_MUL(v, c), coef(k))
           step == [k \in 1 .. terms |-> [v \in Complex |-> next(v, k)]]
           Body(g, k) == IF k = 0 THEN Zero ELSE next(g[k - 1], k)
           Is(g) == g = [k \in 0 .. terms |-> Body(g, k)]
           sum == CHOOSE g : Is(g)
<1>1. \A k \in 1 .. terms : coef(k) \in Pair
  <2> TAKE k \in 1 .. terms
  <2>1. terms - k \in 0 .. terms - 1
    OBVIOUS
  <2>2. f[d + (terms - k) * size] \in Int
    BY <2>1, Zenon DEF Reads
  <2> QED
    BY <2>2 DEF Pair
<1>2. \A k \in 1 .. terms : \A v \in Complex : next(v, k) \in Complex
  <2> TAKE k \in 1 .. terms
  <2> TAKE v \in Complex
  <2>1. v \in Pair /\ coef(k) \in Pair
    BY <1>1, Closed
  <2> HIDE DEF coef
  <2> QED
    BY <2>1, Closed
<1>3. step \in [1 .. terms -> [Complex -> Complex]]
  <2> HIDE DEF next
  <2> QED
    BY <1>2
<1>4. PICK g \in [0 .. terms -> Complex] :
         g[0] = Zero /\ \A k \in 1 .. terms : g[k] = step[k][g[k - 1]]
  <2>1. Start(Zero, terms, step, Complex)
    BY <1>3, Closed DEF Start
  <2> HIDE DEF step
  <2> QED
    BY <2>1, Recursion
<1>5. \A k \in 1 .. terms : g[k] = next(g[k - 1], k)
  <2> TAKE k \in 1 .. terms
  <2>1. g[k - 1] \in Complex
    BY <1>4
  <2> HIDE DEF next
  <2> QED
    BY <1>4, <2>1
<1>6. Is(g)
  <2> HIDE DEF next
  <2>1. \A k \in 0 .. terms : g[k] = Body(g, k)
    BY <1>4, <1>5
  <2> HIDE DEF Body
  <2> QED
    BY <1>4, <2>1
<1>7. Is(sum)
  <2> HIDE DEF Is
  <2> QED
    BY <1>6
<1>8. Horner(f, d, size, terms, c) = sum[terms]
  BY DEF Horner
<1> HIDE DEF sum
<1>9. /\ sum[0] = Zero
      /\ \A k \in 1 .. terms : sum[k] = next(sum[k - 1], k)
      /\ sum = [k \in 0 .. terms |-> sum[k]]
  <2>1. \A k \in 0 .. terms : sum[k] = Body(sum, k)
    <3> HIDE DEF Body
    <3> QED
      BY <1>7
  <2>2. sum = [k \in 0 .. terms |-> sum[k]]
    <3> HIDE DEF Body
    <3> QED
      BY <1>7
  <2>3. sum[0] = Zero
    <3>1. 0 \in 0 .. terms
      OBVIOUS
    <3>2. sum[0] = Body(sum, 0)
      BY <2>1, <3>1
    <3> HIDE DEF next
    <3> QED
      BY <3>2
  <2>4. ASSUME NEW k \in 1 .. terms
        PROVE  sum[k] = next(sum[k - 1], k)
    <3>1. k \in 0 .. terms /\ k # 0
      OBVIOUS
    <3>2. sum[k] = Body(sum, k)
      BY <2>1, <3>1
    <3> HIDE DEF next
    <3> QED
      BY <3>1, <3>2
  <2> HIDE DEF next, Body
  <2> QED
    BY <2>2, <2>3, <2>4
<1>10. \A k \in 0 .. terms : sum[k] = g[k]
  <2>1. SameSteps(sum, g, terms)
    <3> HIDE DEF next
    <3> QED
      BY <1>4, <1>5, <1>9 DEF SameSteps
  <2> QED
    BY <2>1, RecursionUnique
<1>11. sum \in [0 .. terms -> Complex]
  BY <1>4, <1>9, <1>10
<1>12. HornerSums(sum, f, d, size, terms, c)
  BY <1>9, <1>11 DEF HornerSums
<1> QED
  BY <1>8, <1>12

(* The sum is a complex number.                                            *)
LEMMA HornerType ==
  ASSUME NEW f, NEW d \in Nat, NEW size \in Nat, NEW terms \in Nat, NEW c \in Pair,
         Reads(f, d, size, terms)
  PROVE  /\ Horner(f, d, size, terms, c) \in Complex
         /\ Horner(f, d, size, terms, c) \in Pair
<1>1. PICK sum : /\ HornerSums(sum, f, d, size, terms, c)
                 /\ Horner(f, d, size, terms, c) = sum[terms]
  BY HornerRecursion
<1>2. Horner(f, d, size, terms, c) \in Complex
  BY <1>1 DEF HornerSums
<1> QED
  BY <1>2, Closed

(* The sum of no terms.                                                    *)
LEMMA HornerZero ==
  ASSUME NEW f, NEW d \in Nat, NEW size \in Nat, NEW c \in Pair
  PROVE  Horner(f, d, size, 0, c) = Zero
<1>1. Reads(f, d, size, 0)
  BY DEF Reads
<1>2. PICK sum : /\ HornerSums(sum, f, d, size, 0, c)
                 /\ Horner(f, d, size, 0, c) = sum[0]
  BY <1>1, HornerRecursion
<1> QED
  BY <1>2 DEF HornerSums

(* Sums with the same coefficients are the same, wherever they are kept.   *)
Alike(f, d, size, g, e, width, terms) ==
  \A k \in 0 .. terms - 1 : f[d + k * size] % P = g[e + k * width] % P
(* They are compared as residues, term by term.                            *)
LEMMA HornerSame ==
  ASSUME NEW f, NEW d \in Nat, NEW size \in Nat, NEW terms \in Nat, NEW c \in Pair,
         NEW g, NEW e \in Nat, NEW width \in Nat,
         Reads(f, d, size, terms), Reads(g, e, width, terms),
         Alike(f, d, size, g, e, width, terms)
  PROVE  Horner(f, d, size, terms, c) = Horner(g, e, width, terms, c)
<1>1. PICK sum : /\ HornerSums(sum, f, d, size, terms, c)
                 /\ Horner(f, d, size, terms, c) = sum[terms]
  BY HornerRecursion
<1>2. PICK other : /\ HornerSums(other, g, e, width, terms, c)
                   /\ Horner(g, e, width, terms, c) = other[terms]
  BY HornerRecursion
<1>3. ASSUME NEW k \in 1 .. terms, sum[k - 1] = other[k - 1]
      PROVE  sum[k] = other[k]
  <2> DEFINE v == f[d + (terms - k) * size]
             w == g[e + (terms - k) * width]
             z == FPC_MUL(sum[k - 1], c)
  <2>1. terms - k \in 0 .. terms - 1
    OBVIOUS
  <2>2. v \in Int /\ w \in Int /\ v % P = w % P
    BY <2>1, Zenon DEF Reads, Alike
  <2>3. z \in Pair /\ sum[k] = FPC_ADD(z, <<v, 0>>) /\ other[k] = FPC_ADD(z, <<w, 0>>)
    <3>1. sum[k - 1] \in Complex
      BY <1>1 DEF HornerSums
    <3>2. z \in Pair
      BY <3>1, Closed
    <3> QED
      BY <1>1, <1>2, <1>3, <3>2 DEF HornerSums
  <2> HIDE DEF v, w, z
  <2>4. z[1] \in Int
    BY <2>3, Parts
  <2>5. (z[1] + v) % P = (z[1] + w) % P
    <3>1. (z[1] + (v % P)) % P = (z[1] + v) % P /\ (z[1] + (w % P)) % P = (z[1] + w) % P
      BY <2>2, <2>4, ModTerms, 0 \in Int
    <3> QED
      BY <2>2, <3>1
  <2> QED
    BY <2>3, <2>5 DEF FPC_ADD
<1>4. SameSteps(sum, other, terms)
  BY <1>1, <1>2, <1>3 DEF SameSteps, HornerSums
<1> QED
  BY <1>1, <1>2, <1>4, RecursionUnique

(* The lowest coefficient apart: f(X) = f[d] + X * (the rest).             *)
LEMMA HornerLow ==
  ASSUME NEW f, NEW d \in Nat, NEW size \in Nat, NEW terms \in Nat, NEW c \in Pair,
         Reads(f, d, size, terms + 1)
  PROVE  /\ Horner(f, d, size, terms + 1, c) =
              FPC_ADD(FPC_MUL(Horner(f, d + size, size, terms, c), c), <<f[d], 0>>)
         /\ Reads(f, d + size, size, terms) /\ f[d] \in Int
<1>0. f[d] \in Int /\ d + size \in Nat
  <2>1. 0 \in 0 .. (terms + 1) - 1 /\ d + 0 * size = d /\ d + size \in Nat
    OBVIOUS
  <2>2. f[d + 0 * size] \in Int
    BY <2>1, Zenon DEF Reads
  <2> QED
    BY <2>1, <2>2, Zenon
<1>1. \A k \in 0 .. terms - 1 : (d + size) + k * size = d + (k + 1) * size
  OBVIOUS
<1>2. Reads(f, d + size, size, terms)
  <2> SUFFICES ASSUME NEW k \in 0 .. terms - 1
               PROVE  f[(d + size) + k * size] \in Int
    BY DEF Reads
  <2>1. k + 1 \in 0 .. (terms + 1) - 1
    OBVIOUS
  <2>2. f[d + (k + 1) * size] \in Int
    BY <2>1 DEF Reads
  <2> QED
    BY <1>1, <2>2
<1>3. PICK sum : /\ HornerSums(sum, f, d, size, terms + 1, c)
                 /\ Horner(f, d, size, terms + 1, c) = sum[terms + 1]
  <2>1. terms + 1 \in Nat
    OBVIOUS
  <2> QED
    BY <2>1, HornerRecursion
<1>4. PICK rest : /\ HornerSums(rest, f, d + size, size, terms, c)
                  /\ Horner(f, d + size, size, terms, c) = rest[terms]
  BY <1>0, <1>2, HornerRecursion
<1>5. ASSUME NEW k \in 1 .. terms, sum[k - 1] = rest[k - 1]
      PROVE  sum[k] = rest[k]
  <2>1. k \in 1 .. terms + 1
    OBVIOUS
  <2>2. d + ((terms + 1) - k) * size = (d + size) + (terms - k) * size
    OBVIOUS
  <2>3. sum[k] = FPC_ADD(FPC_MUL(sum[k - 1], c), <<f[d + ((terms + 1) - k) * size], 0>>)
    BY <1>3, <2>1 DEF HornerSums
  <2>4. rest[k] = FPC_ADD(FPC_MUL(rest[k - 1], c), <<f[(d + size) + (terms - k) * size], 0>>)
    BY <1>4 DEF HornerSums
  <2> QED
    BY <1>5, <2>2, <2>3, <2>4, Zenon
<1>6. sum[terms] = rest[terms]
  <2>1. SameSteps(sum, rest, terms)
    BY <1>3, <1>4, <1>5 DEF SameSteps, HornerSums
  <2> QED
    BY <2>1, RecursionUnique
<1>7. sum[terms + 1] = FPC_ADD(FPC_MUL(sum[terms], c), <<f[d], 0>>)
  <2>1. terms + 1 \in 1 .. terms + 1 /\ (terms + 1) - 1 = terms
        /\ d + ((terms + 1) - (terms + 1)) * size = d
    OBVIOUS
  <2>2. sum[terms + 1] = FPC_ADD(FPC_MUL(sum[(terms + 1) - 1], c),
                                 <<f[d + ((terms + 1) - (terms + 1)) * size], 0>>)
    BY <1>3, <2>1 DEF HornerSums
  <2> QED
    BY <2>1, <2>2, Zenon
<1> QED
  BY <1>0, <1>2, <1>3, <1>4, <1>6, <1>7

(* The even and the odd coefficients are read with twice the stride.       *)
LEMMA ReadsHalves ==
  ASSUME NEW f, NEW d \in Nat, NEW size \in Nat, NEW terms \in Nat,
         Reads(f, d, size, 2 * terms)
  PROVE  Reads(f, d, 2 * size, terms) /\ Reads(f, d + size, 2 * size, terms)
<1>1. ASSUME NEW k \in 0 .. terms - 1
      PROVE  f[d + k * (2 * size)] \in Int /\ f[(d + size) + k * (2 * size)] \in Int
  <2>1. 2 * k \in 0 .. 2 * terms - 1 /\ 2 * k + 1 \in 0 .. 2 * terms - 1
    OBVIOUS
  <2>2. f[d + (2 * k) * size] \in Int /\ f[d + (2 * k + 1) * size] \in Int
    BY <2>1, Zenon DEF Reads
  <2>3. d + (2 * k) * size = d + k * (2 * size)
        /\ d + (2 * k + 1) * size = (d + size) + k * (2 * size)
    OBVIOUS
  <2> QED
    BY <2>2, <2>3, Zenon
<1> QED
  BY <1>1, Zenon DEF Reads

(***************************************************************************)
(* The even and the odd coefficients apart, f(X) = e(X^2) + X*o(X^2): what *)
(* one stage of a Fourier transform rests on.                              *)
(***************************************************************************)
LEMMA HornerSplit ==
  ASSUME NEW f, NEW size \in Nat, NEW s \in Pair
  PROVE  \A terms \in Nat : \A d \in Nat :
           Reads(f, d, size, 2 * terms) =>
             Horner(f, d, size, 2 * terms, s) =
               FPC_ADD(Horner(f, d, 2 * size, terms, FPC_MUL(s, s)),
                       FPC_MUL(s, Horner(f, d + size, 2 * size, terms, FPC_MUL(s, s))))
<1> DEFINE ss == FPC_MUL(s, s)
           Splits(terms, d) ==
             Reads(f, d, size, 2 * terms) =>
               Horner(f, d, size, 2 * terms, s) =
                 FPC_ADD(Horner(f, d, 2 * size, terms, ss),
                         FPC_MUL(s, Horner(f, d + size, 2 * size, terms, ss)))
           T == {terms \in Nat : \A d \in Nat : Splits(terms, d)}
<1>0. ss \in Pair /\ 2 * size \in Nat
  BY Closed
<1>1. 0 \in T
  <2> SUFFICES ASSUME NEW d \in Nat PROVE Splits(0, d)
    OBVIOUS
  <2> HIDE DEF ss
  <2>1. Horner(f, d, size, 2 * 0, s) = Zero
    <3>1. 2 * 0 = 0
      OBVIOUS
    <3> QED
      BY <3>1, HornerZero
  <2>2. Horner(f, d, 2 * size, 0, ss) = Zero /\ Horner(f, d + size, 2 * size, 0, ss) = Zero
    <3>1. d + size \in Nat
      OBVIOUS
    <3> QED
      BY <1>0, <3>1, HornerZero
  <2>3. FPC_MUL(s, Zero) = Zero /\ FPC_ADD(Zero, Zero) = Zero
    <3>1. FPC_MUL(s, Zero) = FPC_MUL(Zero, s)
      BY MulComm, Closed
    <3>2. FPC_MUL(Zero, s) = Zero
      <4>1. 0 * s[1] - 0 * s[2] = 0 /\ 0 * s[2] + 0 * s[1] = 0
        BY Parts
      <4>2. 0 % P = 0
        BY PFacts
      <4> QED
        BY <4>1, <4>2 DEF FPC_MUL, Zero
    <3> QED
      BY <3>1, <3>2, Units, Closed
  <2> QED
    BY <2>1, <2>2, <2>3
<1>2. \A terms \in Nat : terms \in T => terms + 1 \in T
  <2> SUFFICES ASSUME NEW terms \in Nat, \A d \in Nat : Splits(terms, d), NEW d \in Nat
               PROVE  Splits(terms + 1, d)
    <3> HIDE DEF Splits
    <3> QED
      OBVIOUS
  <2> SUFFICES ASSUME Reads(f, d, size, 2 * (terms + 1))
               PROVE  Horner(f, d, size, 2 * (terms + 1), s) =
                        FPC_ADD(Horner(f, d, 2 * size, terms + 1, ss),
                                FPC_MUL(s, Horner(f, d + size, 2 * size, terms + 1, ss)))
    OBVIOUS
  <2> DEFINE e == Horner(f, d + 2 * size, 2 * size, terms, ss)
             o == Horner(f, (d + size) + 2 * size, 2 * size, terms, ss)
             p == <<f[d + size], 0>>
             q == <<f[d], 0>>
  <2> HIDE DEF ss
  <2>1. /\ 2 * (terms + 1) = (2 * terms + 1) + 1 /\ 2 * terms + 1 \in Nat /\ 2 * terms \in Nat
        /\ d + size \in Nat /\ d + 2 * size \in Nat /\ (d + size) + size = d + 2 * size
        /\ terms + 1 \in Nat /\ (d + 2 * size) + size = (d + size) + 2 * size
        /\ (d + size) + 2 * size \in Nat
    OBVIOUS
  <2>2. /\ Horner(f, d, size, (2 * terms + 1) + 1, s) =
             FPC_ADD(FPC_MUL(Horner(f, d + size, size, 2 * terms + 1, s), s), q)
        /\ Reads(f, d + size, size, 2 * terms + 1) /\ f[d] \in Int
    <3>1. Reads(f, d, size, (2 * terms + 1) + 1)
      BY <2>1, Zenon
    <3> QED
      BY <2>1, <3>1, HornerLow
  <2>3. /\ Horner(f, d + size, size, 2 * terms + 1, s) =
             FPC_ADD(FPC_MUL(Horner(f, (d + size) + size, size, 2 * terms, s), s), p)
        /\ Reads(f, (d + size) + size, size, 2 * terms) /\ f[d + size] \in Int
    BY <2>1, <2>2, HornerLow
  <2>4. Horner(f, d + 2 * size, size, 2 * terms, s) = FPC_ADD(e, FPC_MUL(s, o))
    <3>1. Splits(terms, d + 2 * size)
      BY <2>1
    <3>2. Reads(f, d + 2 * size, size, 2 * terms)
      BY <2>1, <2>3, Zenon
    <3> QED
      BY <2>1, <3>1, <3>2, Zenon
  <2>5. /\ Reads(f, d, 2 * size, terms + 1) /\ Reads(f, d + size, 2 * size, terms + 1)
    BY <2>1, ReadsHalves
  <2>6. /\ Horner(f, d, 2 * size, terms + 1, ss) = FPC_ADD(FPC_MUL(e, ss), q)
        /\ Reads(f, d + 2 * size, 2 * size, terms)
    <3> DEFINE width == 2 * size
    <3>1. width \in Nat /\ Reads(f, d, width, terms + 1)
      BY <1>0, <2>5
    <3> HIDE DEF width, Splits, T
    <3>2. /\ Horner(f, d, width, terms + 1, ss) =
               FPC_ADD(FPC_MUL(Horner(f, d + width, width, terms, ss), ss), <<f[d], 0>>)
          /\ Reads(f, d + width, width, terms)
      BY <1>0, <3>1, HornerLow, ZenonT(60)
    <3> QED
      BY <3>2, Zenon DEF width
  <2>7. /\ Horner(f, d + size, 2 * size, terms + 1, ss) = FPC_ADD(FPC_MUL(o, ss), p)
        /\ Reads(f, (d + size) + 2 * size, 2 * size, terms)
    <3> DEFINE dd == d + size
    <3>1. dd \in Nat /\ Reads(f, dd, 2 * size, terms + 1)
      BY <2>1, <2>5
    <3> HIDE DEF dd
    <3>2. /\ Horner(f, dd, 2 * size, terms + 1, ss) =
               FPC_ADD(FPC_MUL(Horner(f, dd + 2 * size, 2 * size, terms, ss), ss), <<f[dd], 0>>)
          /\ Reads(f, dd + 2 * size, 2 * size, terms)
      <4> DEFINE width == 2 * size
      <4>1. width \in Nat /\ Reads(f, dd, width, terms + 1)
        BY <1>0, <3>1
      <4> HIDE DEF width, Splits, T
      <4> QED
        BY <1>0, <3>1, <4>1, HornerLow, ZenonT(60) DEF width
    <3> QED
      BY <3>2, Zenon DEF dd
  <2>8. e \in Pair /\ o \in Pair
    BY <1>0, <2>1, <2>6, <2>7, HornerType
  <2>9. p \in Pair /\ q \in Pair
    BY <2>2, <2>3 DEF Pair
  <2> HIDE DEF e, o, p, q
  <2>10. FPC_ADD(FPC_MUL(FPC_ADD(FPC_MUL(FPC_ADD(e, FPC_MUL(s, o)), s), p), s), q)
           = FPC_ADD(FPC_ADD(FPC_MUL(e, ss), q), FPC_MUL(s, FPC_ADD(FPC_MUL(o, ss), p)))
    BY <2>8, <2>9, HornerStep DEF ss
  <2> QED
    BY <2>1, <2>2, <2>3, <2>4, <2>6, <2>7, <2>10, Zenon
<1>3. Nat \subseteq T
  <2> HIDE DEF T
  <2> QED
    BY <1>1, <1>2, SetInduction
<1> QED
  BY <1>3

(* The highest coefficient apart.                                          *)
LEMMA HornerTop ==
  ASSUME NEW f, NEW w \in Nat
  PROVE  \A terms \in Nat : \A d \in Nat :
           Reads(f, d, 1, terms + 1) =>
             Horner(f, d, 1, terms + 1, Exp(w)) =
               FPC_ADD(Horner(f, d, 1, terms, Exp(w)),
                       FPC_MUL(Exp(terms * w), <<f[d + terms], 0>>))
<1> DEFINE x == Exp(w)
           Top(terms, d) ==
             Reads(f, d, 1, terms + 1) =>
             Horner(f, d, 1, terms + 1, x) =
               FPC_ADD(Horner(f, d, 1, terms, x),
                       FPC_MUL(Exp(terms * w), <<f[d + terms], 0>>))
           T == {terms \in Nat : \A d \in Nat : Top(terms, d)}
<1>0. x \in Pair /\ x \in Complex
  BY ExpSpecial
<1>1. 0 \in T
  <2> SUFFICES ASSUME NEW d \in Nat, Reads(f, d, 1, 0 + 1)
               PROVE  Horner(f, d, 1, 0 + 1, x) =
                        FPC_ADD(Horner(f, d, 1, 0, x), FPC_MUL(Exp(0 * w), <<f[d + 0], 0>>))
    OBVIOUS
  <2> HIDE DEF x
  <2> DEFINE q == <<f[d], 0>>
  <2>1. d + 1 \in Nat /\ 0 * w = 0 /\ d + 0 = d
    OBVIOUS
  <2>2. Horner(f, d, 1, 0 + 1, x) = FPC_ADD(FPC_MUL(Horner(f, d + 1, 1, 0, x), x), q)
        /\ f[d] \in Int
    BY <1>0, HornerLow, ZenonT(60)
  <2>3. Horner(f, d + 1, 1, 0, x) = Zero /\ Horner(f, d, 1, 0, x) = Zero
    BY <1>0, <2>1, HornerZero
  <2>4. q \in Pair
    BY <2>2 DEF Pair
  <2> HIDE DEF q
  <2>5. FPC_MUL(Zero, x) = Zero
    BY <1>0, Units
  <2>6. FPC_ADD(Zero, FPC_MUL(One, q)) = FPC_ADD(Zero, q)
    <3> DEFINE v == q[1] w2 == q[2]
    <3>1. v \in Int /\ w2 \in Int
      BY <2>4, Parts
    <3> HIDE DEF v, w2
    <3>2. /\ 1 * v - 0 * w2 = v /\ 1 * w2 + 0 * v = w2
      BY <3>1
    <3>3. /\ (0 + (v % P)) % P = (0 + v) % P
          /\ (0 + (w2 % P)) % P = (0 + w2) % P
      BY <3>1, ModTerms, 0 \in Int
    <3> QED
      BY <3>2, <3>3 DEF FPC_ADD, FPC_MUL, Zero, One, v, w2
  <2> QED
    BY <2>1, <2>2, <2>3, <2>5, <2>6, ExpSpecial DEF q
<1>2. \A terms \in Nat : terms \in T => terms + 1 \in T
  <2> SUFFICES ASSUME NEW terms \in Nat, \A d \in Nat : Top(terms, d), NEW d \in Nat
               PROVE  Top(terms + 1, d)
    <3> HIDE DEF Top
    <3> QED
      OBVIOUS
  <2> SUFFICES ASSUME Reads(f, d, 1, (terms + 1) + 1)
               PROVE  Horner(f, d, 1, (terms + 1) + 1, x) =
                        FPC_ADD(Horner(f, d, 1, terms + 1, x),
                                FPC_MUL(Exp((terms + 1) * w), <<f[d + (terms + 1)], 0>>))
    OBVIOUS
  <2> DEFINE h == Horner(f, d + 1, 1, terms, x)
             y == Exp(terms * w)
             p == <<f[d + (terms + 1)], 0>>
             q == <<f[d], 0>>
  <2> HIDE DEF x
  <2>1. /\ terms + 1 \in Nat /\ d + 1 \in Nat /\ (d + 1) + terms = d + (terms + 1)
        /\ terms * w \in Nat /\ (terms + 1) * w = terms * w + w
    OBVIOUS
  <2>2. /\ Horner(f, d, 1, (terms + 1) + 1, x) =
             FPC_ADD(FPC_MUL(Horner(f, d + 1, 1, terms + 1, x), x), q)
        /\ Reads(f, d + 1, 1, terms + 1) /\ f[d] \in Int
    BY <1>0, <2>1, HornerLow
  <2>3. Horner(f, d + 1, 1, terms + 1, x) = FPC_ADD(h, FPC_MUL(y, p))
    <3>1. Top(terms, d + 1)
      BY <2>1
    <3> QED
      BY <2>1, <2>2, <3>1, Zenon
  <2>4. Horner(f, d, 1, terms + 1, x) = FPC_ADD(FPC_MUL(h, x), q)
        /\ Reads(f, d + 1, 1, terms)
    <3>1. Reads(f, d, 1, terms + 1)
      <4>1. \A k \in 0 .. (terms + 1) - 1 : k \in 0 .. ((terms + 1) + 1) - 1
        OBVIOUS
      <4> QED
        BY <4>1, Zenon DEF Reads
    <3> QED
      BY <1>0, <3>1, HornerLow, ZenonT(60)
  <2>5. f[d + (terms + 1)] \in Int
    <3>1. terms + 1 \in 0 .. ((terms + 1) + 1) - 1 /\ d + (terms + 1) * 1 = d + (terms + 1)
      OBVIOUS
    <3>2. f[d + (terms + 1) * 1] \in Int
      BY <3>1, Zenon DEF Reads
    <3> QED
      BY <3>1, <3>2, Zenon
  <2>6. p \in Pair /\ q \in Pair /\ h \in Pair /\ y \in Pair
    <3>1. p \in Pair /\ q \in Pair
      BY <2>2, <2>5 DEF Pair
    <3>2. h \in Pair
      BY <1>0, <2>1, <2>4, HornerType
    <3>3. y \in Pair
      BY <2>1, ExpSpecial
    <3> QED
      BY <3>1, <3>2, <3>3
  <2>7. Exp((terms + 1) * w) = FPC_MUL(y, x)
    BY <2>1, ExpAdd DEF x
  <2> HIDE DEF h, y, p, q
  <2> DEFINE hx == FPC_MUL(h, x)
             yp == FPC_MUL(y, p)
             ypx == FPC_MUL(yp, x)
  <2>8. hx \in Pair /\ yp \in Pair /\ ypx \in Pair
    BY <1>0, <2>6, Closed
  <2>9. FPC_MUL(FPC_ADD(h, yp), x) = FPC_ADD(hx, ypx)
    <3>1. FPC_MUL(FPC_ADD(h, yp), x) = FPC_MUL(x, FPC_ADD(h, yp))
      BY <1>0, <2>6, <2>8, Closed, MulComm
    <3>2. FPC_MUL(x, FPC_ADD(h, yp)) = FPC_ADD(FPC_MUL(x, h), FPC_MUL(x, yp))
      BY <1>0, <2>6, <2>8, Distribute
    <3>3. FPC_MUL(x, h) = hx /\ FPC_MUL(x, yp) = ypx
      BY <1>0, <2>6, <2>8, MulComm
    <3> QED
      BY <3>1, <3>2, <3>3
  <2>10. ypx = FPC_MUL(FPC_MUL(y, x), p)
    <3>1. ypx = FPC_MUL(y, FPC_MUL(p, x))
      BY <1>0, <2>6, MulAssoc
    <3>2. FPC_MUL(p, x) = FPC_MUL(x, p)
      BY <1>0, <2>6, MulComm
    <3>3. FPC_MUL(y, FPC_MUL(x, p)) = FPC_MUL(FPC_MUL(y, x), p)
      BY <1>0, <2>6, MulAssoc
    <3> QED
      BY <3>1, <3>2, <3>3
  <2>11. FPC_ADD(FPC_ADD(hx, ypx), q) = FPC_ADD(FPC_ADD(hx, q), ypx)
    <3> HIDE DEF hx, ypx
    <3>1. FPC_ADD(FPC_ADD(hx, ypx), q) = FPC_ADD(hx, FPC_ADD(ypx, q))
      BY <2>6, <2>8, AddAssoc
    <3>2. FPC_ADD(ypx, q) = FPC_ADD(q, ypx)
      BY <2>6, <2>8, AddComm
    <3>3. FPC_ADD(hx, FPC_ADD(q, ypx)) = FPC_ADD(FPC_ADD(hx, q), ypx)
      BY <2>6, <2>8, AddAssoc
    <3> QED
      BY <3>1, <3>2, <3>3
  <2> QED
    BY <2>2, <2>3, <2>4, <2>7, <2>9, <2>10, <2>11, Zenon DEF p, q
<1>3. Nat \subseteq T
  <2> HIDE DEF T
  <2> QED
    BY <1>1, <1>2, SetInduction
<1> QED
  BY <1>3

(* A sum whose coefficients are all 0.                                     *)
LEMMA HornerNull ==
  ASSUME NEW f, NEW c \in Complex
  PROVE  \A terms \in Nat : \A d \in Nat :
           (\A k \in 0 .. terms - 1 : f[d + k] = 0) => Horner(f, d, 1, terms, c) = Zero
<1> DEFINE Null(terms, d) == \A k \in 0 .. terms - 1 : f[d + k] = 0
           Vanishes(terms, d) == Null(terms, d) => Horner(f, d, 1, terms, c) = Zero
           T == {terms \in Nat : \A d \in Nat : Vanishes(terms, d)}
<1>0. c \in Pair
  BY Closed
<1>1. 0 \in T
  <2>1. \A d \in Nat : Horner(f, d, 1, 0, c) = Zero
    BY <1>0, HornerZero
  <2> QED
    BY <2>1
<1>2. \A terms \in Nat : terms \in T => terms + 1 \in T
  <2> SUFFICES ASSUME NEW terms \in Nat, \A d \in Nat : Vanishes(terms, d), NEW d \in Nat
               PROVE  Vanishes(terms + 1, d)
    <3> HIDE DEF Vanishes
    <3> QED
      OBVIOUS
  <2> SUFFICES ASSUME Null(terms + 1, d)
               PROVE  Horner(f, d, 1, terms + 1, c) = Zero
    <3> HIDE DEF Null
    <3> QED
      OBVIOUS
  <2>1. \A k \in 0 .. (terms + 1) - 1 : f[d + k * 1] \in Int /\ f[d + k] = 0 /\ d + k * 1 = d + k
    OBVIOUS
  <2>2. Reads(f, d, 1, terms + 1)
    BY <2>1 DEF Reads
  <2>3. Horner(f, d, 1, terms + 1, c) = FPC_ADD(FPC_MUL(Horner(f, d + 1, 1, terms, c), c), <<f[d], 0>>)
    BY <1>0, <2>2, HornerLow
  <2>4. Horner(f, d + 1, 1, terms, c) = Zero
    <3>1. \A k \in 0 .. terms - 1 : k + 1 \in 0 .. (terms + 1) - 1 /\ (d + 1) + k = d + (k + 1)
      OBVIOUS
    <3>2. Null(terms, d + 1)
      BY <2>1, <3>1
    <3>3. Vanishes(terms, d + 1)
      OBVIOUS
    <3> QED
      BY <3>2, <3>3
  <2>5. f[d] = 0
    <3>1. 0 \in 0 .. (terms + 1) - 1 /\ d + 0 = d
      OBVIOUS
    <3> QED
      BY <2>1, <3>1
  <2>6. <<f[d], 0>> = Zero
    BY <2>5 DEF Zero
  <2> QED
    BY <2>3, <2>4, <2>6, Units, Closed
<1>3. Nat \subseteq T
  <2> HIDE DEF T
  <2> QED
    BY <1>1, <1>2, SetInduction
<1> QED
  BY <1>3

(* (F + R*G)*c + (f + R*g) = (F*c + f) + R*(G*c + g)                       *)
LEMMA LinearStep ==
  ASSUME NEW F \in Pair, NEW G \in Pair, NEW c \in Pair, NEW R \in Pair,
         NEW v \in Pair, NEW w \in Pair
  PROVE  FPC_ADD(FPC_MUL(FPC_ADD(F, FPC_MUL(R, G)), c), FPC_ADD(v, FPC_MUL(R, w)))
           = FPC_ADD(FPC_ADD(FPC_MUL(F, c), v), FPC_MUL(R, FPC_ADD(FPC_MUL(G, c), w)))
<1> DEFINE RG == FPC_MUL(R, G)
           Fc == FPC_MUL(F, c)
           Gc == FPC_MUL(G, c)
           RGc == FPC_MUL(R, Gc)
           Rw == FPC_MUL(R, w)
<1>1. RG \in Pair /\ Fc \in Pair /\ Gc \in Pair /\ RGc \in Pair /\ Rw \in Pair
  BY Closed
<1>2. FPC_MUL(FPC_ADD(F, RG), c) = FPC_ADD(Fc, RGc)
  <2>1. FPC_MUL(FPC_ADD(F, RG), c) = FPC_MUL(c, FPC_ADD(F, RG))
    BY <1>1, Closed, MulComm
  <2>2. FPC_MUL(c, FPC_ADD(F, RG)) = FPC_ADD(FPC_MUL(c, F), FPC_MUL(c, RG))
    BY <1>1, Distribute
  <2>3. FPC_MUL(c, F) = Fc
    BY MulComm
  <2>4. FPC_MUL(c, RG) = FPC_MUL(RG, c)
    BY <1>1, MulComm
  <2>5. FPC_MUL(RG, c) = RGc
    BY MulAssoc
  <2> QED
    BY <2>1, <2>2, <2>3, <2>4, <2>5
<1>3. FPC_MUL(R, FPC_ADD(Gc, w)) = FPC_ADD(RGc, Rw)
  BY <1>1, Distribute
<1> HIDE DEF RG, Fc, Gc, RGc, Rw
<1>4. FPC_ADD(FPC_ADD(Fc, RGc), FPC_ADD(v, Rw)) = FPC_ADD(FPC_ADD(Fc, v), FPC_ADD(RGc, Rw))
  <2>1. FPC_ADD(FPC_ADD(Fc, RGc), FPC_ADD(v, Rw)) = FPC_ADD(Fc, FPC_ADD(RGc, FPC_ADD(v, Rw)))
    BY <1>1, Closed, AddAssoc
  <2>2. FPC_ADD(RGc, FPC_ADD(v, Rw)) = FPC_ADD(FPC_ADD(RGc, v), Rw)
    BY <1>1, AddAssoc
  <2>3. FPC_ADD(RGc, v) = FPC_ADD(v, RGc)
    BY <1>1, AddComm
  <2>4. FPC_ADD(FPC_ADD(v, RGc), Rw) = FPC_ADD(v, FPC_ADD(RGc, Rw))
    BY <1>1, AddAssoc
  <2>5. FPC_ADD(Fc, FPC_ADD(v, FPC_ADD(RGc, Rw))) = FPC_ADD(FPC_ADD(Fc, v), FPC_ADD(RGc, Rw))
    BY <1>1, Closed, AddAssoc
  <2> QED
    BY <2>1, <2>2, <2>3, <2>4, <2>5
<1> QED
  BY <1>2, <1>3, <1>4 DEF RG, Fc, Gc, Rw

(* Horner's sum of f + r*g.                                                *)
Combines(h, f, g, r, d, terms) ==
  \A k \in 0 .. terms - 1 : /\ f[d + k] \in Int /\ g[d + k] \in Int
                            /\ h[d + k] = f[d + k] + r * g[d + k]

(* The coefficients of f + r*g are there if those of f and g are.          *)
LEMMA CombinesReads ==
  ASSUME NEW h, NEW f, NEW g, NEW r \in Int, NEW d \in Nat, NEW terms \in Nat,
         Combines(h, f, g, r, d, terms)
  PROVE  Reads(h, d, 1, terms) /\ Reads(f, d, 1, terms) /\ Reads(g, d, 1, terms)
<1>1. ASSUME NEW k \in 0 .. terms - 1
      PROVE  h[d + k * 1] \in Int /\ f[d + k * 1] \in Int /\ g[d + k * 1] \in Int
  <2>1. d + k * 1 = d + k
    OBVIOUS
  <2>2. f[d + k] \in Int /\ g[d + k] \in Int /\ h[d + k] = f[d + k] + r * g[d + k]
    BY Zenon DEF Combines
  <2>3. f[d + k] + r * g[d + k] \in Int
    BY <2>2
  <2> QED
    BY <2>1, <2>2, <2>3, Zenon
<1> QED
  BY <1>1, Zenon DEF Reads

(* It is the sum of f plus r times that of g.                              *)
LEMMA HornerLinear ==
  ASSUME NEW h, NEW f, NEW g, NEW r \in Int, NEW c \in Complex
  PROVE  \A terms \in Nat : \A d \in Nat :
           Combines(h, f, g, r, d, terms) =>
             Horner(h, d, 1, terms, c) =
               FPC_ADD(Horner(f, d, 1, terms, c),
                       FPC_MUL(<<r, 0>>, Horner(g, d, 1, terms, c)))
<1> DEFINE R == <<r, 0>>
           Linear(terms, d) ==
             Combines(h, f, g, r, d, terms) =>
               Horner(h, d, 1, terms, c) =
                 FPC_ADD(Horner(f, d, 1, terms, c), FPC_MUL(R, Horner(g, d, 1, terms, c)))
           T == {terms \in Nat : \A d \in Nat : Linear(terms, d)}
<1>0. c \in Pair /\ R \in Pair
  BY Closed DEF Pair
<1>1. 0 \in T
  <2> SUFFICES ASSUME NEW d \in Nat
               PROVE  Linear(0, d)
    <3> HIDE DEF Linear
    <3> QED
      OBVIOUS
  <2> HIDE DEF R
  <2>1. Horner(h, d, 1, 0, c) = Zero /\ Horner(f, d, 1, 0, c) = Zero /\ Horner(g, d, 1, 0, c) = Zero
    BY <1>0, HornerZero
  <2>2. FPC_MUL(R, Zero) = Zero
    <3>1. R[1] * 0 - R[2] * 0 = 0 /\ R[1] * 0 + R[2] * 0 = 0
      BY <1>0, Parts
    <3>2. 0 % P = 0
      BY PFacts
    <3> QED
      BY <3>1, <3>2 DEF FPC_MUL, Zero
  <2> QED
    BY <2>1, <2>2, Units, Closed
<1>2. \A terms \in Nat : terms \in T => terms + 1 \in T
  <2> SUFFICES ASSUME NEW terms \in Nat, \A d \in Nat : Linear(terms, d), NEW d \in Nat
               PROVE  Linear(terms + 1, d)
    <3> HIDE DEF Linear
    <3> QED
      OBVIOUS
  <2> SUFFICES ASSUME Combines(h, f, g, r, d, terms + 1)
               PROVE  Horner(h, d, 1, terms + 1, c) =
                        FPC_ADD(Horner(f, d, 1, terms + 1, c),
                                FPC_MUL(R, Horner(g, d, 1, terms + 1, c)))
    OBVIOUS
  <2> DEFINE F == Horner(f, d + 1, 1, terms, c)
             G == Horner(g, d + 1, 1, terms, c)
             v == <<f[d], 0>>
             w == <<g[d], 0>>
  <2>1. Reads(h, d, 1, terms + 1) /\ Reads(f, d, 1, terms + 1) /\ Reads(g, d, 1, terms + 1)
    <3> terms + 1 \in Nat
      OBVIOUS
    <3> QED
      BY CombinesReads
  <2>2. /\ Horner(h, d, 1, terms + 1, c) = FPC_ADD(FPC_MUL(Horner(h, d + 1, 1, terms, c), c), <<h[d], 0>>)
        /\ h[d] \in Int
    <3> HIDE DEF Linear, T, R
    <3> QED
      BY <1>0, <2>1, HornerLow
  <2>3. /\ Horner(f, d, 1, terms + 1, c) = FPC_ADD(FPC_MUL(F, c), v)
        /\ f[d] \in Int /\ Reads(f, d + 1, 1, terms)
    <3> HIDE DEF Linear, T, R
    <3> QED
      BY <1>0, <2>1, HornerLow
  <2>4. /\ Horner(g, d, 1, terms + 1, c) = FPC_ADD(FPC_MUL(G, c), w)
        /\ g[d] \in Int /\ Reads(g, d + 1, 1, terms)
    <3> HIDE DEF Linear, T, R
    <3> QED
      BY <1>0, <2>1, HornerLow
  <2>5. Horner(h, d + 1, 1, terms, c) = FPC_ADD(F, FPC_MUL(R, G))
    <3>1. \A k \in 0 .. terms - 1 : k + 1 \in 0 .. (terms + 1) - 1 /\ (d + 1) + k = d + (k + 1)
      OBVIOUS
    <3>2. Combines(h, f, g, r, d + 1, terms)
      <4> SUFFICES ASSUME NEW k \in 0 .. terms - 1
                   PROVE  /\ f[(d + 1) + k] \in Int /\ g[(d + 1) + k] \in Int
                          /\ h[(d + 1) + k] = f[(d + 1) + k] + r * g[(d + 1) + k]
        BY DEF Combines
      <4>1. k + 1 \in 0 .. (terms + 1) - 1 /\ (d + 1) + k = d + (k + 1)
        BY <3>1
      <4>2. /\ f[d + (k + 1)] \in Int /\ g[d + (k + 1)] \in Int
            /\ h[d + (k + 1)] = f[d + (k + 1)] + r * g[d + (k + 1)]
        BY <4>1, Zenon DEF Combines
      <4> QED
        BY <4>1, <4>2, Zenon
    <3>3. Linear(terms, d + 1)
      OBVIOUS
    <3> QED
      BY <3>2, <3>3
  <2>6. h[d] = f[d] + r * g[d]
    <3>1. 0 \in 0 .. (terms + 1) - 1 /\ d + 0 = d
      OBVIOUS
    <3>2. h[d + 0] = f[d + 0] + r * g[d + 0]
      BY <3>1, Zenon DEF Combines
    <3> QED
      BY <3>1, <3>2, Zenon
  <2>7. F \in Pair /\ G \in Pair /\ v \in Pair /\ w \in Pair
    <3>1. v \in Pair /\ w \in Pair
      BY <2>3, <2>4 DEF Pair
    <3>2. d + 1 \in Nat
      OBVIOUS
    <3> HIDE DEF Linear, T, R, v, w
    <3> QED
      BY <1>0, <2>3, <2>4, <3>1, <3>2, HornerType
  <2> DEFINE E == FPC_MUL(FPC_ADD(F, FPC_MUL(R, G)), c)
  <2>8. FPC_ADD(E, <<h[d], 0>>) = FPC_ADD(E, FPC_ADD(v, FPC_MUL(R, w)))
    <3>1. E \in Pair
      <4> HIDE DEF F, G, R
      <4> QED
        BY <1>0, <2>7, Closed
    <3> HIDE DEF E
    <3> DEFINE x == f[d] y == g[d]
    <3>2. x \in Int /\ y \in Int
      BY <2>3, <2>4
    <3>3. FPC_MUL(R, w) = <<(r * y) % P, 0>>
      <4>1. r * y - 0 * 0 = r * y /\ r * 0 + 0 * y = 0 /\ 0 % P = 0
        BY <3>2, PFacts
      <4> QED
        BY <4>1 DEF FPC_MUL
    <3>4. FPC_ADD(v, FPC_MUL(R, w)) = <<(x + r * y) % P, 0>>
      <4>1. r * y \in Int
        BY <3>2
      <4>2. (x + ((r * y) % P)) % P = (x + r * y) % P
        BY <3>2, <4>1, ModTerms, 0 \in Int
      <4>3. (0 + 0) % P = 0
        BY PFacts
      <4> QED
        BY <3>3, <4>2, <4>3 DEF FPC_ADD
    <3>5. (E[1] + ((x + r * y) % P)) % P = (E[1] + (x + r * y)) % P
      <4>1. E[1] \in Int /\ x + r * y \in Int
        BY <3>1, <3>2, Parts
      <4> HIDE DEF x, y
      <4> QED
        BY <4>1, ModTerms, 0 \in Int
    <3> QED
      BY <2>6, <3>4, <3>5 DEF FPC_ADD
  <2>9. FPC_ADD(E, FPC_ADD(v, FPC_MUL(R, w)))
           = FPC_ADD(FPC_ADD(FPC_MUL(F, c), v), FPC_MUL(R, FPC_ADD(FPC_MUL(G, c), w)))
    <3> HIDE DEF F, G, v, w, R
    <3> QED
      BY <1>0, <2>7, LinearStep
  <2> QED
    BY <2>2, <2>3, <2>4, <2>5, <2>8, <2>9, Zenon
<1>3. Nat \subseteq T
  <2> HIDE DEF T
  <2> QED
    BY <1>1, <1>2, SetInduction
<1> QED
  BY <1>3

-----------------------------------------------------------------------------
(***************************************************************************)
(* The product of two polynomials, as schoolbook_mul computes it.          *)
(***************************************************************************)

(* The coefficients of X^r times b, modulo X^N + 1: r slots up, the ones   *)
(* that come round with the other sign.                                    *)
Turned(b, l, r) ==
  [k \in 0 .. Pow2[l] - 1 |-> IF r <= k THEN b[k - r] ELSE -(b[Pow2[l] + k - r])]

(* The coefficients of a polynomial of size 2^l are there.                 *)
LEMMA PolyReads ==
  ASSUME NEW l \in 0 .. LogMax, NEW b \in Poly(l)
  PROVE  /\ \A k \in 0 .. Pow2[l] - 1 : b[k] \in Int
         /\ Pow2[l] \in Nat /\ Pow2[l] >= 1
         /\ \A terms \in 0 .. Pow2[l] : Reads(b, 0, 1, terms)
<1>1. \A k \in 0 .. Pow2[l] - 1 : b[k] \in Int
  BY PFacts DEF Poly, Residue
<1>2. Pow2[l] \in Nat /\ Pow2[l] >= 1
  BY Pow2Facts
<1>3. ASSUME NEW terms \in 0 .. Pow2[l]
      PROVE  Reads(b, 0, 1, terms)
  <2> DEFINE m == Pow2[l]
  <2> HIDE DEF m
  <2>0. m \in Nat /\ terms \in 0 .. m
    BY <1>2 DEF m
  <2>1. \A k \in 0 .. terms - 1 : k \in 0 .. m - 1 /\ 0 + k * 1 = k
    BY <2>0
  <2>2. \A k \in 0 .. terms - 1 : b[0 + k * 1] \in Int
    BY <1>1, <2>1, Zenon DEF m
  <2> QED
    BY <2>2 DEF Reads
<1> QED
  BY <1>1, <1>2, <1>3

(* So are those of X^r times it.                                           *)
LEMMA TurnedReads ==
  ASSUME NEW l \in 0 .. LogMax, NEW b \in Poly(l), NEW r \in 0 .. Pow2[l] - 1
  PROVE  /\ \A k \in 0 .. Pow2[l] - 1 : Turned(b, l, r)[k] \in Int
         /\ \A terms \in 0 .. Pow2[l] : Reads(Turned(b, l, r), 0, 1, terms)
<1> DEFINE m == Pow2[l]
<1>1. m \in Nat /\ \A k \in 0 .. m - 1 : b[k] \in Int
  BY PolyReads
<1> HIDE DEF m
<1>2. ASSUME NEW k \in 0 .. m - 1
      PROVE  Turned(b, l, r)[k] \in Int
  <2>0. r \in 0 .. m - 1
    BY DEF m
  <2>1. Turned(b, l, r)[k] = IF r <= k THEN b[k - r] ELSE -(b[m + k - r])
    BY DEF Turned, m
  <2>2. CASE r <= k
    <3>1. k - r \in 0 .. m - 1
      BY <1>1, <2>0, <2>2
    <3> QED
      BY <1>1, <2>1, <2>2, <3>1
  <2>3. CASE ~ (r <= k)
    <3>1. m + k - r \in 0 .. m - 1
      BY <1>1, <2>0, <2>3
    <3> QED
      BY <1>1, <2>1, <2>3, <3>1
  <2> QED
    BY <2>2, <2>3
<1>3. ASSUME NEW terms \in 0 .. m
      PROVE  Reads(Turned(b, l, r), 0, 1, terms)
  <2>1. \A k \in 0 .. terms - 1 : k \in 0 .. m - 1 /\ 0 + k * 1 = k
    BY <1>1
  <2>2. \A k \in 0 .. terms - 1 : Turned(b, l, r)[0 + k * 1] \in Int
    BY <1>2, <2>1, Zenon
  <2> QED
    BY <2>2 DEF Reads
<1> QED
  BY <1>2, <1>3 DEF m

(* Its value is x^r times that of b, at a root of X^N + 1.                 *)
LEMMA TurnedValue ==
  ASSUME NEW l \in 0 .. LogMax, NEW b \in Poly(l), NEW w \in Nat,
         Exp(Pow2[l] * w) = Neg(One)
  PROVE  \A r \in Nat : r <= Pow2[l] - 1 =>
           Horner(Turned(b, l, r), 0, 1, Pow2[l], Exp(w)) =
             FPC_MUL(Exp(r * w), Horner(b, 0, 1, Pow2[l], Exp(w)))
<1> DEFINE m == Pow2[l]
           x == Exp(w)
           B == Horner(b, 0, 1, m, x)
           Right(r) == Horner(Turned(b, l, r), 0, 1, m, x) = FPC_MUL(Exp(r * w), B)
           T == {r \in Nat : r <= m - 1 => Right(r)}
<1>0. x \in Pair /\ x \in Complex
  BY ExpSpecial
<1>1. /\ m \in Nat /\ m >= 1 /\ m - 1 \in Nat /\ (m - 1) + 1 = m
      /\ \A k \in 0 .. m - 1 : b[k] \in Int
      /\ Reads(b, 0, 1, m)
  <2>1. m \in Nat /\ m >= 1 /\ \A k \in 0 .. m - 1 : b[k] \in Int
    BY PolyReads
  <2>2. m \in 0 .. Pow2[l]
    BY <2>1
  <2>3. Reads(b, 0, 1, m)
    BY <2>2, PolyReads
  <2> QED
    BY <2>1, <2>3
<1>2. B \in Pair /\ B \in Complex
  BY <1>0, <1>1, HornerType
<1>3. 0 \in T
  <2> SUFFICES Right(0)
    BY <1>1
  <2> HIDE DEF m, x
  <2>1. \A k \in 0 .. m - 1 : Turned(b, l, 0)[k] = b[k]
    <3> TAKE k \in 0 .. m - 1
    <3>1. 0 <= k /\ k - 0 = k
      BY <1>1
    <3> QED
      BY <3>1 DEF Turned, m
  <2>2. Reads(Turned(b, l, 0), 0, 1, m)
    <3>1. 0 \in 0 .. Pow2[l] - 1 /\ m \in 0 .. Pow2[l]
      BY <1>1 DEF m
    <3> QED
      BY <3>1, TurnedReads
  <2>3. \A k \in 0 .. m - 1 : Turned(b, l, 0)[0 + k * 1] % P = b[0 + k * 1] % P
    <3> TAKE k \in 0 .. m - 1
    <3>1. 0 + k * 1 = k
      BY <1>1
    <3> QED
      BY <2>1, <3>1, Zenon
  <2>4. Horner(Turned(b, l, 0), 0, 1, m, x) = B
    <3>1. Alike(Turned(b, l, 0), 0, 1, b, 0, 1, m)
      BY <2>3 DEF Alike
    <3> QED
      BY <1>0, <1>1, <2>2, <3>1, HornerSame
  <2>5. 0 * w = 0
    OBVIOUS
  <2> HIDE DEF B
  <2>6. FPC_MUL(Exp(0 * w), B) = B
    BY <1>2, <2>5, ExpSpecial, Units
  <2> QED
    BY <2>4, <2>6
<1>4. \A r \in Nat : r \in T => r + 1 \in T
  <2> SUFFICES ASSUME NEW r \in Nat, r + 1 <= m - 1, Right(r)
               PROVE  Right(r + 1)
    <3> HIDE DEF Right
    <3>1. \A r \in Nat : r + 1 <= m - 1 => r <= m - 1
      BY <1>1
    <3> QED
      BY <3>1
  <2> DEFINE f == Turned(b, l, r)
             g == Turned(b, l, r + 1)
             H == Horner(f, 0, 1, m - 1, x)
             v == b[m - 1 - r]
             q == <<v, 0>>
             top == Exp((m - 1) * w)
  <2>0. /\ r \in 0 .. m - 1 /\ r + 1 \in 0 .. m - 1 /\ m - 1 - r \in 0 .. m - 1
        /\ m - 1 \in 0 .. m /\ m \in 0 .. m /\ m - 1 \in 0 .. m - 1 /\ 0 \in 0 .. m - 1
    BY <1>1
  <2>1. /\ Reads(f, 0, 1, m) /\ Reads(f, 0, 1, m - 1) /\ Reads(g, 0, 1, m)
    BY <2>0, TurnedReads
  <2>2. v \in Int /\ q \in Pair
    BY <1>1, <2>0 DEF Pair
  <2>3. f[m - 1] = v
    <3>1. r <= m - 1
      BY <2>0
    <3> QED
      BY <2>0, <3>1 DEF Turned
  <2>4. g[0] = -v
    <3>1. ~ (r + 1 <= 0) /\ m + 0 - (r + 1) = m - 1 - r
      BY <2>0, <1>1
    <3>2. g[0] = IF r + 1 <= 0 THEN b[0 - (r + 1)] ELSE -(b[m + 0 - (r + 1)])
      BY <2>0 DEF Turned
    <3> QED
      BY <3>1, <3>2, Zenon
  <2>5. ASSUME NEW k \in 0 .. (m - 1) - 1
        PROVE  g[(0 + 1) + k * 1] = f[0 + k * 1]
    <3>1. /\ k \in 0 .. m - 1 /\ k + 1 \in 0 .. m - 1
          /\ (0 + 1) + k * 1 = k + 1 /\ 0 + k * 1 = k
          /\ (r + 1 <= k + 1) <=> (r <= k)
          /\ (k + 1) - (r + 1) = k - r
          /\ m + (k + 1) - (r + 1) = m + k - r
      BY <1>1
    <3>2. g[k + 1] = IF r + 1 <= k + 1 THEN b[(k + 1) - (r + 1)] ELSE -(b[m + (k + 1) - (r + 1)])
      BY <3>1 DEF Turned
    <3>3. f[k] = IF r <= k THEN b[k - r] ELSE -(b[m + k - r])
      BY <3>1 DEF Turned
    <3> HIDE DEF f, g
    <3>4. g[k + 1] = f[k]
      <4>1. CASE r <= k
        <5>1. g[k + 1] = b[(k + 1) - (r + 1)] /\ f[k] = b[k - r]
          BY <3>1, <3>2, <3>3, <4>1, Zenon
        <5> QED
          BY <3>1, <5>1, Zenon
      <4>2. CASE ~ (r <= k)
        <5>1. g[k + 1] = -(b[m + (k + 1) - (r + 1)]) /\ f[k] = -(b[m + k - r])
          BY <3>1, <3>2, <3>3, <4>2, Zenon
        <5> QED
          BY <3>1, <5>1, Zenon
      <4> QED
        BY <4>1, <4>2
    <3> QED
      BY <3>1, <3>4, Zenon
  <2> HIDE DEF f, g, m, x, v
  <2>6. /\ Horner(g, 0, 1, (m - 1) + 1, x) = FPC_ADD(FPC_MUL(Horner(g, 0 + 1, 1, m - 1, x), x), <<g[0], 0>>)
        /\ Reads(g, 0 + 1, 1, m - 1)
    <3>1. Reads(g, 0, 1, (m - 1) + 1)
      BY <1>1, <2>1
    <3> QED
      BY <1>0, <1>1, <3>1, HornerLow, ZenonT(60)
  <2>7. Horner(g, 0 + 1, 1, m - 1, x) = H
    <3>1. Alike(g, 0 + 1, 1, f, 0, 1, m - 1)
      BY <2>5, Zenon DEF Alike
    <3>2. Reads(f, 0, 1, m - 1) /\ 0 + 1 \in Nat
      BY <2>1
    <3> HIDE DEF T, Right, B, H
    <3>3. Horner(g, 0 + 1, 1, m - 1, x) = Horner(f, 0, 1, m - 1, x)
      BY <1>0, <1>1, <2>6, <3>1, <3>2, HornerSame
    <3> QED
      BY <3>3 DEF H
  <2>8. Horner(f, 0, 1, (m - 1) + 1, x) = FPC_ADD(H, FPC_MUL(top, <<f[0 + (m - 1)], 0>>))
    <3>1. Reads(f, 0, 1, (m - 1) + 1)
      BY <1>1, <2>1
    <3> QED
      BY <1>1, <3>1, HornerTop DEF x
  <2>9. Horner(f, 0, 1, m, x) = FPC_ADD(H, FPC_MUL(top, q))
    <3>1. 0 + (m - 1) = m - 1
      BY <1>1
    <3> QED
      BY <1>1, <2>3, <2>8, <3>1, Zenon
  <2>10. H \in Pair /\ top \in Pair
    <3>1. (m - 1) * w \in Nat
      BY <1>1
    <3> QED
      BY <1>0, <1>1, <2>1, <3>1, HornerType, ExpSpecial
  <2>11. FPC_MUL(top, x) = Neg(One)
    <3>1. (m - 1) * w \in Nat /\ (m - 1) * w + w = m * w
      BY <1>1
    <3>2. Exp((m - 1) * w + w) = FPC_MUL(top, x)
      BY <3>1, ExpAdd DEF x
    <3> QED
      BY <3>1, <3>2 DEF m
  <2> HIDE DEF H, top, B
  <2> DEFINE Hx == FPC_MUL(H, x)
  <2>12. FPC_MUL(FPC_ADD(H, FPC_MUL(top, q)), x) = FPC_ADD(Hx, FPC_MUL(Neg(One), q))
    <3> DEFINE tq == FPC_MUL(top, q)
    <3>1. tq \in Pair
      BY <2>2, <2>10, Closed
    <3>2. FPC_MUL(FPC_ADD(H, tq), x) = FPC_MUL(x, FPC_ADD(H, tq))
      BY <1>0, <2>10, <3>1, Closed, MulComm
    <3>3. FPC_MUL(x, FPC_ADD(H, tq)) = FPC_ADD(FPC_MUL(x, H), FPC_MUL(x, tq))
      BY <1>0, <2>10, <3>1, Distribute
    <3>4. FPC_MUL(x, H) = Hx
      BY <1>0, <2>10, MulComm
    <3>5. FPC_MUL(x, tq) = FPC_MUL(FPC_MUL(x, top), q)
      BY <1>0, <2>2, <2>10, MulAssoc
    <3>6. FPC_MUL(x, top) = Neg(One)
      BY <1>0, <2>10, <2>11, MulComm
    <3> QED
      BY <3>2, <3>3, <3>4, <3>5, <3>6, Zenon
  <2>13. FPC_ADD(Hx, FPC_MUL(Neg(One), q)) = FPC_ADD(Hx, <<-v, 0>>)
    <3>1. Hx \in Pair /\ Hx[1] \in Int /\ Hx[2] \in Int
      BY <1>0, <2>10, Closed, Parts
    <3> HIDE DEF Hx
    <3>2. FPC_MUL(Neg(One), q) = Neg(FPC_MUL(One, q))
      BY <2>2, Negation, Closed
    <3>3. FPC_MUL(One, q) = <<v % P, 0>>
      <4>1. 1 * v - 0 * 0 = v /\ 1 * 0 + 0 * v = 0 /\ 0 % P = 0
        BY <2>2, PFacts
      <4> QED
        BY <4>1 DEF FPC_MUL, One
    <3>4. Neg(<<v % P, 0>>) = <<(-v) % P, 0>>
      <4>1. (0 - (v % P)) % P = (0 - v) % P /\ 0 - v = -v /\ (0 - 0) % P = 0
        BY <2>2, ModTerms, PFacts, 0 \in Int
      <4> QED
        BY <4>1 DEF Neg, FPC_SUB, Zero
    <3>5. (Hx[1] + ((-v) % P)) % P = (Hx[1] + (-v)) % P
      <4>1. -v \in Int
        BY <2>2
      <4> QED
        BY <3>1, <4>1, ModTerms, 0 \in Int
    <3> QED
      BY <3>2, <3>3, <3>4, <3>5 DEF FPC_ADD
  <2>14. Horner(g, 0, 1, m, x) = FPC_MUL(Horner(f, 0, 1, m, x), x)
    BY <1>1, <2>4, <2>6, <2>7, <2>9, <2>12, <2>13, Zenon
  <2>15. Horner(f, 0, 1, m, x) = FPC_MUL(Exp(r * w), B)
    BY DEF f
  <2>16. FPC_MUL(FPC_MUL(Exp(r * w), B), x) = FPC_MUL(Exp((r + 1) * w), B)
    <3>1. r * w \in Nat /\ (r + 1) * w = r * w + w
      OBVIOUS
    <3> DEFINE y == Exp(r * w)
    <3>2. y \in Pair
      BY <3>1, ExpSpecial
    <3>3. Exp((r + 1) * w) = FPC_MUL(y, x)
      BY <3>1, ExpAdd DEF x
    <3> HIDE DEF y
    <3>4. FPC_MUL(FPC_MUL(y, B), x) = FPC_MUL(y, FPC_MUL(B, x))
      BY <1>0, <1>2, <3>2, MulAssoc
    <3>5. FPC_MUL(B, x) = FPC_MUL(x, B)
      BY <1>0, <1>2, MulComm
    <3>6. FPC_MUL(y, FPC_MUL(x, B)) = FPC_MUL(FPC_MUL(y, x), B)
      BY <1>0, <1>2, <3>2, MulAssoc
    <3> QED
      BY <3>3, <3>4, <3>5, <3>6 DEF y
  <2> QED
    BY <2>14, <2>15, <2>16 DEF g
<1>5. Nat \subseteq T
  <2> HIDE DEF T
  <2> QED
    BY <1>3, <1>4, SetInduction
<1> QED
  BY <1>5

(* The sums schoolbook_mul accumulates for coefficient k.                  *)
Accumulates(sum, a, b, l, k) ==
  /\ sum \in [0 .. Pow2[l] -> Int]
  /\ sum[0] = 0
  /\ \A i \in 1 .. Pow2[l] : sum[i] = sum[i - 1] + a[i - 1] * Turned(b, l, i - 1)[k]

(* A coefficient of schoolbook_mul is such a sum.                          *)
LEMMA SchoolbookSum ==
  ASSUME NEW l \in 0 .. LogMax, NEW a \in Poly(l), NEW b \in Poly(l),
         NEW k \in 0 .. Pow2[l] - 1
  PROVE  \E sum : Accumulates(sum, a, b, l, k) /\ SchoolbookMul(a, b, l)[k] = sum[Pow2[l]] % P
<1> DEFINE m == Pow2[l]
           term(i) == IF i <= k THEN a[i] * b[k - i] ELSE -(a[i] * b[m + k - i])
           step == [i \in 1 .. m |-> [v \in Int |-> v + term(i - 1)]]
           Body(g, i) == IF i = 0 THEN 0 ELSE g[i - 1] + term(i - 1)
           Is(g) == g = [i \in 0 .. m |-> Body(g, i)]
           sum == CHOOSE g : Is(g)
<1>0. /\ m \in Nat /\ m >= 1 /\ \A i \in 0 .. m - 1 : a[i] \in Int
      /\ \A i \in 0 .. m - 1 : b[i] \in Int
  BY PolyReads
<1>1. SchoolbookMul(a, b, l)[k] = sum[m] % P
  BY DEF SchoolbookMul
<1> HIDE DEF m
<1>2. ASSUME NEW i \in 1 .. m
      PROVE  term(i - 1) = a[i - 1] * Turned(b, l, i - 1)[k] /\ term(i - 1) \in Int
  <2>0. i - 1 \in 0 .. m - 1 /\ k \in 0 .. m - 1
    BY <1>0 DEF m
  <2>1. a[i - 1] \in Int
    BY <1>0, <2>0
  <2>2. Turned(b, l, i - 1)[k] = IF i - 1 <= k THEN b[k - (i - 1)] ELSE -(b[m + k - (i - 1)])
    BY <2>0 DEF Turned, m
  <2>3. CASE i - 1 <= k
    <3>1. k - (i - 1) \in 0 .. m - 1
      BY <1>0, <2>0, <2>3
    <3> QED
      BY <1>0, <2>1, <2>2, <2>3, <3>1
  <2>4. CASE ~ (i - 1 <= k)
    <3>1. m + k - (i - 1) \in 0 .. m - 1
      BY <1>0, <2>0, <2>4
    <3> DEFINE x == a[i - 1] y == b[m + k - (i - 1)]
    <3>2. x \in Int /\ y \in Int
      BY <1>0, <2>1, <3>1
    <3>3. term(i - 1) = -(x * y) /\ Turned(b, l, i - 1)[k] = -y
      BY <2>2, <2>4
    <3> HIDE DEF term, y
    <3>4. -(x * y) = x * (-y) /\ -(x * y) \in Int
      <4> HIDE DEF x
      <4> QED
        BY <3>2
    <3> QED
      BY <3>3, <3>4
  <2> QED
    BY <2>3, <2>4
<1> HIDE DEF term
<1>3. step \in [1 .. m -> [Int -> Int]]
  <2>1. \A i \in 1 .. m : \A v \in Int : v + term(i - 1) \in Int
    BY <1>2
  <2> QED
    BY <2>1
<1>4. PICK g \in [0 .. m -> Int] : g[0] = 0 /\ \A i \in 1 .. m : g[i] = step[i][g[i - 1]]
  <2> DEFINE V == Int
  <2>1. Start(0, m, step, V)
    BY <1>3 DEF Start
  <2> HIDE DEF step, V
  <2>2. \E g \in [0 .. m -> V] : g[0] = 0 /\ \A i \in 1 .. m : g[i] = step[i][g[i - 1]]
    BY <1>0, <2>1, Recursion
  <2> QED
    BY <2>2 DEF V
<1>5. \A i \in 1 .. m : g[i] = g[i - 1] + term(i - 1)
  <2> TAKE i \in 1 .. m
  <2>1. g[i - 1] \in Int
    BY <1>0, <1>4
  <2> QED
    BY <1>4, <2>1
<1>6. Is(g)
  <2>1. \A i \in 0 .. m : g[i] = Body(g, i)
    BY <1>0, <1>4, <1>5
  <2> HIDE DEF Body
  <2> QED
    BY <1>4, <2>1
<1>7. Is(sum)
  <2> HIDE DEF Is
  <2> QED
    BY <1>6
<1> HIDE DEF sum
<1>8. \A i \in 0 .. m : sum[i] = Body(sum, i)
  <2> HIDE DEF Body
  <2> QED
    BY <1>7
<1>9. sum = [i \in 0 .. m |-> sum[i]]
  <2> HIDE DEF Body
  <2> QED
    BY <1>7
<1>10. sum[0] = 0
  <2>1. 0 \in 0 .. m
    BY <1>0
  <2>2. sum[0] = Body(sum, 0)
    BY <1>8, <2>1
  <2> QED
    BY <2>2
<1>11. \A i \in 1 .. m : sum[i] = sum[i - 1] + term(i - 1)
  <2> TAKE i \in 1 .. m
  <2>1. i \in 0 .. m /\ i # 0
    BY <1>0
  <2>2. sum[i] = Body(sum, i)
    BY <1>8, <2>1
  <2> QED
    BY <2>1, <2>2
<1>12. \A i \in 0 .. m : sum[i] = g[i]
  <2>1. SameSteps(sum, g, m)
    BY <1>4, <1>5, <1>10, <1>11 DEF SameSteps
  <2> QED
    BY <1>0, <2>1, RecursionUnique
<1>13. sum \in [0 .. m -> Int]
  BY <1>4, <1>9, <1>12
<1>14. \A i \in 1 .. m : sum[i] = sum[i - 1] + a[i - 1] * Turned(b, l, i - 1)[k]
  BY <1>2, <1>11
<1>15. Accumulates(sum, a, b, l, k)
  BY <1>10, <1>13, <1>14 DEF Accumulates, m
<1> QED
  BY <1>1, <1>15 DEF m

(* The product of two polynomials is one.                                  *)
LEMMA SchoolbookType ==
  ASSUME NEW l \in 0 .. LogMax, NEW a \in Poly(l), NEW b \in Poly(l)
  PROVE  SchoolbookMul(a, b, l) \in Poly(l)
<1> DEFINE c == SchoolbookMul(a, b, l)
           m == Pow2[l]
<1>1. m \in Nat
  BY PolyReads
<1>2. ASSUME NEW k \in 0 .. m - 1
      PROVE  c[k] \in Residue
  <2>1. PICK sum : Accumulates(sum, a, b, l, k) /\ c[k] = sum[m] % P
    BY SchoolbookSum
  <2>2. sum[m] \in Int
    BY <1>1, <2>1 DEF Accumulates
  <2>3. sum[m] % P \in 0 .. P - 1
    BY <2>2, PFacts
  <2> QED
    BY <2>1, <2>3 DEF Residue
<1>3. c = [k \in 0 .. m - 1 |-> c[k]]
  BY DEF SchoolbookMul
<1> HIDE DEF c
<1>4. c \in [0 .. m - 1 -> Residue]
  BY <1>2, <1>3
<1> QED
  BY <1>4 DEF Poly, c

(***************************************************************************)
(* schoolbook_mul at a root x of X^N + 1: the value of the product is the  *)
(* product of the values.  The sums over i < r, as polynomials, have the   *)
(* value of the first r terms of a times that of b.                        *)
(***************************************************************************)
LEMMA ProductValue ==
  ASSUME NEW l \in 0 .. LogMax, NEW a \in Poly(l), NEW b \in Poly(l), NEW w \in Nat,
         Exp(Pow2[l] * w) = Neg(One)
  PROVE  Horner(SchoolbookMul(a, b, l), 0, 1, Pow2[l], Exp(w)) =
           FPC_MUL(Horner(a, 0, 1, Pow2[l], Exp(w)), Horner(b, 0, 1, Pow2[l], Exp(w)))
<1> DEFINE m == Pow2[l]
           x == Exp(w)
           c == SchoolbookMul(a, b, l)
           S(k) == CHOOSE sum : Accumulates(sum, a, b, l, k) /\ c[k] = sum[m] % P
           Part(r) == [k \in 0 .. m - 1 |-> S(k)[r]]
           B == Horner(b, 0, 1, m, x)
           Right(r) == Horner(Part(r), 0, 1, m, x) = FPC_MUL(Horner(a, 0, 1, r, x), B)
           T == {r \in Nat : r <= m => Right(r)}
<1>0. x \in Pair /\ x \in Complex
  BY ExpSpecial
<1>1. /\ m \in Nat /\ m >= 1 /\ m \in 0 .. m
      /\ \A k \in 0 .. m - 1 : a[k] \in Int
      /\ \A r \in 0 .. m : Reads(a, 0, 1, r) /\ Reads(b, 0, 1, r)
  BY PolyReads
<1>2. B \in Pair /\ B \in Complex
  BY <1>0, <1>1, HornerType
<1>3. ASSUME NEW k \in 0 .. m - 1
      PROVE  Accumulates(S(k), a, b, l, k) /\ c[k] = S(k)[m] % P
  <2>1. \E sum : Accumulates(sum, a, b, l, k) /\ c[k] = sum[m] % P
    BY SchoolbookSum
  <2> QED
    BY <2>1
<1> HIDE DEF S, B
<1>4. ASSUME NEW k \in 0 .. m - 1, NEW r \in 0 .. m
      PROVE  Part(r)[k] = S(k)[r] /\ Part(r)[k] \in Int
  BY <1>3 DEF Accumulates
<1>5. ASSUME NEW k \in 0 .. m - 1
      PROVE  /\ Part(0)[k] = 0
             /\ \A r \in 1 .. m : Part(r)[k] = Part(r - 1)[k] + a[r - 1] * Turned(b, l, r - 1)[k]
  <2>1. S(k)[0] = 0 /\ \A r \in 1 .. m : S(k)[r] = S(k)[r - 1] + a[r - 1] * Turned(b, l, r - 1)[k]
    BY <1>3 DEF Accumulates
  <2>2. Part(0)[k] = S(k)[0] /\ \A r \in 1 .. m : Part(r)[k] = S(k)[r] /\ Part(r - 1)[k] = S(k)[r - 1]
    OBVIOUS
  <2> HIDE DEF Part
  <2> QED
    BY <2>1, <2>2
<1>6. ASSUME NEW k \in 0 .. m - 1
      PROVE  c[k] = Part(m)[k] % P
  BY <1>3
<1> HIDE DEF Part, m, x, c
<1>7. \A k \in 0 .. m - 1 : 0 + k = k /\ 0 + k * 1 = k
  BY <1>1
<1>8. 0 \in T
  <2> SUFFICES Right(0)
    BY <1>1
  <2>1. \A k \in 0 .. m - 1 : Part(0)[0 + k] = 0
    BY <1>5, <1>7, Zenon
  <2>2. Horner(Part(0), 0, 1, m, x) = Zero
    BY <1>0, <1>1, <2>1, HornerNull
  <2>3. Horner(a, 0, 1, 0, x) = Zero
    BY <1>0, HornerZero
  <2> QED
    BY <1>2, <2>2, <2>3, Units
<1>9. \A r \in Nat : r \in T => r + 1 \in T
  <2> SUFFICES ASSUME NEW r \in Nat, r + 1 <= m, Right(r)
               PROVE  Right(r + 1)
    <3> HIDE DEF Right
    <3>1. \A r \in Nat : r + 1 <= m => r <= m
      BY <1>1
    <3> QED
      BY <3>1
  <2> DEFINE A == Horner(a, 0, 1, r, x)
             q == <<a[r], 0>>
             y == Exp(r * w)
             g == Turned(b, l, r)
  <2>0. /\ r \in 0 .. m - 1 /\ r + 1 \in 1 .. m /\ (r + 1) - 1 = r /\ r \in 0 .. m /\ r + 1 \in 0 .. m
        /\ r <= m - 1 /\ 0 + r = r /\ r * w \in Nat
    BY <1>1
  <2>1. a[r] \in Int /\ q \in Pair
    BY <1>1, <2>0 DEF Pair
  <2>2. \A k \in 0 .. m - 1 : g[k] \in Int
    BY <2>0, TurnedReads DEF m
  <2>3. Combines(Part(r + 1), Part(r), g, a[r], 0, m)
    <3> SUFFICES ASSUME NEW k \in 0 .. m - 1
                 PROVE  /\ Part(r)[0 + k] \in Int /\ g[0 + k] \in Int
                        /\ Part(r + 1)[0 + k] = Part(r)[0 + k] + a[r] * g[0 + k]
      BY DEF Combines
    <3>1. Part(r)[k] \in Int
      BY <1>4, <2>0
    <3>2. Part(r + 1)[k] = Part((r + 1) - 1)[k] + a[(r + 1) - 1] * Turned(b, l, (r + 1) - 1)[k]
      BY <1>5, <2>0
    <3> QED
      BY <1>7, <2>0, <2>2, <3>1, <3>2, Zenon
  <2>4. Horner(Part(r + 1), 0, 1, m, x) =
          FPC_ADD(Horner(Part(r), 0, 1, m, x), FPC_MUL(q, Horner(g, 0, 1, m, x)))
    <3> DEFINE f == Part(r) h == Part(r + 1)
    <3>1. Combines(h, f, g, a[r], 0, m)
      BY <2>3
    <3> HIDE DEF f, g, h, T
    <3>2. Horner(h, 0, 1, m, x) = FPC_ADD(Horner(f, 0, 1, m, x), FPC_MUL(q, Horner(g, 0, 1, m, x)))
      BY <1>0, <1>1, <2>1, <3>1, HornerLinear
    <3> QED
      BY <3>2 DEF f, h
  <2>5. Horner(g, 0, 1, m, x) = FPC_MUL(y, B)
    BY <2>0, TurnedValue DEF m, x, B
  <2>6. Horner(a, 0, 1, r + 1, x) = FPC_ADD(A, FPC_MUL(y, q))
    <3>1. Reads(a, 0, 1, r + 1)
      BY <1>1, <2>0
    <3>2. Horner(a, 0, 1, r + 1, x) = FPC_ADD(A, FPC_MUL(y, <<a[0 + r], 0>>))
      BY <3>1, HornerTop DEF x
    <3> QED
      BY <2>0, <3>2, Zenon
  <2>7. A \in Pair /\ y \in Pair
    BY <1>0, <1>1, <2>0, HornerType, ExpSpecial
  <2> HIDE DEF A, q, y, g, T
  <2>8. FPC_MUL(q, FPC_MUL(y, B)) = FPC_MUL(FPC_MUL(y, q), B)
    <3>1. FPC_MUL(q, FPC_MUL(y, B)) = FPC_MUL(FPC_MUL(q, y), B)
      BY <1>2, <2>1, <2>7, MulAssoc
    <3> QED
      BY <2>1, <2>7, <3>1, MulComm
  <2>9. FPC_MUL(FPC_ADD(A, FPC_MUL(y, q)), B) = FPC_ADD(FPC_MUL(A, B), FPC_MUL(FPC_MUL(y, q), B))
    <3> DEFINE yq == FPC_MUL(y, q)
    <3>1. yq \in Pair
      BY <2>1, <2>7, Closed
    <3> HIDE DEF yq
    <3>2. FPC_MUL(FPC_ADD(A, yq), B) = FPC_MUL(B, FPC_ADD(A, yq))
      BY <1>2, <2>7, <3>1, Closed, MulComm
    <3>3. FPC_MUL(B, FPC_ADD(A, yq)) = FPC_ADD(FPC_MUL(B, A), FPC_MUL(B, yq))
      BY <1>2, <2>7, <3>1, Distribute
    <3>4. FPC_MUL(B, A) = FPC_MUL(A, B) /\ FPC_MUL(B, yq) = FPC_MUL(yq, B)
      BY <1>2, <2>7, <3>1, MulComm
    <3> QED
      BY <3>2, <3>3, <3>4 DEF yq
  <2>10. Horner(Part(r), 0, 1, m, x) = FPC_MUL(A, B)
    BY DEF A
  <2> QED
    BY <2>4, <2>5, <2>6, <2>8, <2>9, <2>10, Zenon
<1>10. Right(m)
  <2>1. Nat \subseteq T
    <3> HIDE DEF T
    <3> QED
      BY <1>8, <1>9, SetInduction
  <2> HIDE DEF Right
  <2> QED
    BY <1>1, <2>1
<1>11. Horner(c, 0, 1, m, x) = Horner(Part(m), 0, 1, m, x)
  <2>1. ASSUME NEW k \in 0 .. m - 1
        PROVE  c[k] % P = Part(m)[k] % P /\ c[k] \in Int /\ Part(m)[k] \in Int
    <3> DEFINE v == Part(m)[k]
    <3>1. v \in Int /\ c[k] = v % P
      BY <1>1, <1>4, <1>6
    <3> HIDE DEF v
    <3>2. (v % P) % P = v % P /\ v % P \in Int
      <4>1. v % P \in 0 .. P - 1
        BY <3>1, PFacts
      <4>2. \A i \in 0 .. P - 1 : i % P = i /\ i \in Int
        BY PFacts
      <4> QED
        BY <4>1, <4>2
    <3> QED
      BY <3>1, <3>2 DEF v
  <2>2. Alike(c, 0, 1, Part(m), 0, 1, m)
    BY <1>7, <2>1, Zenon DEF Alike
  <2>3. Reads(c, 0, 1, m) /\ Reads(Part(m), 0, 1, m)
    BY <1>7, <2>1, Zenon DEF Reads
  <2> DEFINE f == Part(m)
  <2> HIDE DEF f
  <2>4. Horner(c, 0, 1, m, x) = Horner(f, 0, 1, m, x)
    BY <1>0, <1>1, <2>2, <2>3, HornerSame DEF f
  <2> QED
    BY <2>4 DEF f
<1> QED
  BY <1>10, <1>11 DEF m, x, c, B

-----------------------------------------------------------------------------
(***************************************************************************)
(* The stages of the transforms, and their blocks.                         *)
(***************************************************************************)

(* Bit reversal of the numbers a stage and its blocks have.                *)
LEMMA RevBlocks ==
  ASSUME NEW v \in Nat, NEW i \in Nat
  PROVE  /\ v <= LogMax => Rev(i, v) \in Nat
         /\ v + 1 <= LogMax => /\ Rev(2 * i, v + 1) = Rev(i, v)
                               /\ Rev(2 * i + 1, v + 1) = Pow2[v] + Rev(i, v)
         /\ \A w \in Nat : w + v <= LogMax => Rev(i * Pow2[w], w + v) = Rev(i, v)
<1>0. LogMax \in Nat /\ LogMax >= 1 /\ Pow2[0] = 1
  BY Pow2Assumption
<1>1. ASSUME v <= LogMax
      PROVE  Rev(i, v) \in Nat
  <2>1. v \in 0 .. LogMax
    BY <1>0, <1>1
  <2> QED
    BY <2>1, RevType
<1>2. ASSUME v + 1 <= LogMax
      PROVE  /\ Rev(2 * i, v + 1) = Rev(i, v)
             /\ Rev(2 * i + 1, v + 1) = Pow2[v] + Rev(i, v)
  <2>0. v <= LogMax /\ v \in 0 .. LogMax /\ v + 1 = 1 + v /\ 1 + v <= LogMax
    BY <1>0, <1>2
  <2>1. Pow2[1] = 2 /\ Pow2[v] \in Nat
    <3>1. 1 \in 1 .. LogMax /\ 1 - 1 = 0
      BY <1>0
    <3> QED
      BY <1>0, <2>0, <3>1, Pow2Facts
  <2>2. Rev(i * Pow2[1] + 0, 1 + v) = Rev(0, 1) * Pow2[v] + Rev(i, v)
    <3>1. 0 \in 0 .. Pow2[1] - 1
      BY <2>1
    <3>2. 1 <= LogMax /\ 1 \in Nat
      BY <1>0
    <3> QED
      BY <2>0, <3>1, <3>2, RevConcat
  <2>3. Rev(i * Pow2[1] + 1, 1 + v) = Rev(1, 1) * Pow2[v] + Rev(i, v)
    <3>1. 1 \in 0 .. Pow2[1] - 1
      BY <2>1
    <3>2. 1 <= LogMax /\ 1 \in Nat
      BY <1>0
    <3> QED
      BY <2>0, <3>1, <3>2, RevConcat
  <2>4. Rev(0, 1) = 0 /\ Rev(1, 1) = 1
    <3>1. 1 \in 0 .. LogMax
      BY <1>0
    <3> QED
      BY <3>1, RevOfZero, RevOfOne
  <2>5. /\ i * Pow2[1] + 0 = 2 * i /\ i * Pow2[1] + 1 = 2 * i + 1
        /\ 0 * Pow2[v] + Rev(i, v) = Rev(i, v) /\ 1 * Pow2[v] + Rev(i, v) = Pow2[v] + Rev(i, v)
    BY <1>1, <2>0, <2>1
  <2> QED
    BY <2>0, <2>2, <2>3, <2>4, <2>5, Zenon
<1>3. ASSUME NEW w \in Nat, w + v <= LogMax
      PROVE  Rev(i * Pow2[w], w + v) = Rev(i, v)
  <2>0. w <= LogMax /\ w \in 0 .. LogMax /\ v \in 0 .. LogMax /\ v <= LogMax
    BY <1>0, <1>3
  <2>1. Pow2[w] \in Nat /\ 0 \in 0 .. Pow2[w] - 1 /\ Pow2[v] \in Nat
    BY <2>0, Pow2Facts
  <2>2. Rev(i * Pow2[w] + 0, w + v) = Rev(0, w) * Pow2[v] + Rev(i, v)
    BY <1>3, <2>0, <2>1, RevConcat
  <2>3. i * Pow2[w] + 0 = i * Pow2[w] /\ 0 * Pow2[v] + Rev(i, v) = Rev(i, v)
    BY <1>1, <2>0, <2>1
  <2> QED
    BY <2>0, <2>2, <2>3, RevOfZero, Zenon
<1> QED
  BY <1>1, <1>2, <1>3

(***************************************************************************)
(* Block i of stage v: the coefficients modulo X^size - exp(i*Angle), with *)
(* size = 2^(l-v), and the one of degree d of f.                           *)
(***************************************************************************)
Angle(v, i) == (2 * Rev(i, v) + 1) * Pow2[LogMax - v]

(* The coefficient of degree d of f modulo X^size - exp(i*Angle(v, i)).    *)
Block(f, l, v, i, d) == Horner(f, d, Pow2[l - v], Pow2[v], Exp(Angle(v, i)))

(* The angle of a block is a natural, and gives a complex number.          *)
LEMMA AngleFacts ==
  ASSUME NEW v \in Nat, v <= LogMax, NEW i \in Nat
  PROVE  Angle(v, i) \in Nat /\ Exp(Angle(v, i)) \in Pair /\ Exp(Angle(v, i)) \in Complex
<1>1. LogMax - v \in 0 .. LogMax
  BY Pow2Assumption
<1>2. Pow2[LogMax - v] \in Nat /\ Rev(i, v) \in Nat
  BY <1>1, Pow2Facts, RevBlocks
<1>3. Angle(v, i) \in Nat
  BY <1>2 DEF Angle
<1> QED
  BY <1>3, ExpSpecial

(* exp is periodic.                                                        *)
LEMMA ExpPeriod ==
  ASSUME NEW q \in Nat, NEW k \in Nat
  PROVE  Exp(q * Order + k) = Exp(k)
<1> DEFINE h == k \div Order
           r == k % Order
<1>1. Order \in Nat /\ Order > 0
  BY CircleFacts
<1>2. h \in Int /\ r \in 0 .. Order - 1 /\ k = Order * h + r
  BY <1>1, DivMod
<1> HIDE DEF h
<1>3. Exp(k) = Circle[r] /\ Exp(q * Order + k) = Circle[(q * Order + k) % Order]
  BY DEF Exp, Order
<1> HIDE DEF r
<1>4. q * Order + k = (q + h) * Order + r /\ q + h \in Int
  BY <1>1, <1>2
<1>5. ((q + h) * Order + r) % Order = r
  BY <1>1, <1>2, <1>4, DivModUnique
<1> QED
  BY <1>3, <1>4, <1>5, Zenon

(* The angles of the two halves of a block: half of the block's, one of    *)
(* them turned by pi.                                                      *)
LEMMA AngleHalves ==
  ASSUME NEW v \in Nat, v + 1 <= LogMax, NEW i \in Nat
  PROVE  /\ FPC_MUL(Exp(Angle(v + 1, 2 * i)), Exp(Angle(v + 1, 2 * i))) = Exp(Angle(v, i))
         /\ Exp(Angle(v + 1, 2 * i + 1)) = Neg(Exp(Angle(v + 1, 2 * i)))
<1> DEFINE p == Pow2[LogMax - (v + 1)]
           r == Rev(i, v)
           e == (2 * r + 1) * p
<1>0. /\ LogMax \in Nat /\ v <= LogMax /\ LogMax - v \in 1 .. LogMax
      /\ (LogMax - v) - 1 = LogMax - (v + 1) /\ LogMax - (v + 1) \in 0 .. LogMax
      /\ v \in 0 .. LogMax /\ LogMax - (v + 1) \in Nat /\ v + 1 \in 1 .. LogMax /\ (v + 1) - 1 = v
      /\ v + 1 \in Nat /\ (v + 1) + (LogMax - (v + 1)) = LogMax
  BY Pow2Assumption
<1>1. p \in Nat /\ Pow2[LogMax - v] = 2 * p /\ Pow2[v] \in Nat /\ Pow2[v + 1] = 2 * Pow2[v]
  <2>1. Pow2[LogMax - v] = 2 * Pow2[(LogMax - v) - 1]
    BY <1>0, Pow2Facts
  <2> QED
    BY <1>0, <2>1, Pow2Facts
<1>2. Pow2[v + 1] * p = Pow2[LogMax]
  <2>1. \A w \in Nat : (v + 1) + w <= LogMax => Pow2[(v + 1) + w] = Pow2[v + 1] * Pow2[w]
    BY <1>0, Pow2Add
  <2> DEFINE w == LogMax - (v + 1)
  <2>2. w \in Nat /\ (v + 1) + w = LogMax /\ (v + 1) + w <= LogMax
    BY <1>0
  <2> HIDE DEF w
  <2>3. Pow2[(v + 1) + w] = Pow2[v + 1] * Pow2[w]
    BY <2>1, <2>2
  <2> QED
    BY <2>2, <2>3 DEF w
<1>3. r \in Nat /\ Rev(2 * i, v + 1) = r /\ Rev(2 * i + 1, v + 1) = Pow2[v] + r
  <2>1. /\ v <= LogMax => Rev(i, v) \in Nat
        /\ v + 1 <= LogMax => /\ Rev(2 * i, v + 1) = Rev(i, v)
                              /\ Rev(2 * i + 1, v + 1) = Pow2[v] + Rev(i, v)
    BY RevBlocks
  <2> QED
    BY <1>0, <2>1
<1>4. Angle(v + 1, 2 * i) = e
  BY <1>3 DEF Angle
<1>5. Angle(v, i) = (2 * r + 1) * Pow2[LogMax - v]
  BY DEF Angle
<1>6. Angle(v + 1, 2 * i + 1) = (2 * (Pow2[v] + r) + 1) * p
  BY <1>3 DEF Angle
<1> HIDE DEF p, r
<1>7. e \in Nat /\ Angle(v, i) = e + e
  <2>1. (2 * r + 1) * (2 * p) = (2 * r + 1) * p + (2 * r + 1) * p
    BY <1>1, <1>3
  <2> QED
    BY <1>1, <1>3, <1>5, <2>1
<1>8. Angle(v + 1, 2 * i + 1) = e + Pow2[LogMax]
  <2> DEFINE h == Pow2[v]
  <2>1. h \in Nat /\ Pow2[LogMax] = (2 * h) * p
    BY <1>1, <1>2
  <2> HIDE DEF h
  <2>2. (2 * (h + r) + 1) * p = (2 * r + 1) * p + (2 * h) * p
    BY <1>1, <1>3, <2>1
  <2> QED
    BY <1>6, <2>1, <2>2 DEF h
<1> HIDE DEF e
<1> QED
  BY <1>4, <1>7, <1>8, ExpAdd, ExpOpposite

(* fpr_gm_tab at the entry FFT reads for block i of stage v.               *)
LEMMA TwiddleAngle ==
  ASSUME NEW v \in Nat, v + 1 <= LogMax, NEW i \in 0 .. Pow2[v] - 1
  PROVE  fpr_gm_tab[Pow2[v] + i] = Exp(Angle(v + 1, 2 * i))
<1> DEFINE q == LogMax - v
           p == Pow2[q - 1]
<1>0. /\ LogMax \in Nat /\ v <= LogMax /\ q \in 1 .. LogMax /\ v + q = LogMax /\ q \in Nat
      /\ q - 1 \in 0 .. LogMax /\ q - 1 \in Nat /\ v \in 0 .. LogMax /\ q - 1 = LogMax - (v + 1)
      /\ 1 + (q - 1) = q /\ 1 + (q - 1) <= LogMax /\ v + 1 \in 1 .. LogMax /\ (v + 1) - 1 = v
  BY Pow2Assumption
<1>1. /\ Pow2[v] \in Nat /\ Pow2[v] >= 1 /\ p \in Nat /\ Pow2[q] = 2 * p
      /\ Pow2[v + 1] = 2 * Pow2[v] /\ Pow2[v + 1] <= Pow2[LogMax] /\ Pow2[LogMax] \in Nat
  <2>1. v + 1 \in 0 .. LogMax /\ LogMax \in 0 .. LogMax
    BY <1>0
  <2> QED
    BY <1>0, <2>1, Pow2Facts
<1>2. i \in Nat /\ Pow2[v] + i \in 1 .. Pow2[LogMax] - 1 /\ 1 * Pow2[v] + i = Pow2[v] + i
      /\ Pow2[v] + i \in 0 .. Pow2[LogMax] - 1 /\ Pow2[v] + i # 0
  BY <1>1
<1>3. fpr_gm_tab[Pow2[v] + i] = Exp(Rev(Pow2[v] + i, LogMax))
  BY <1>2 DEF fpr_gm_tab
<1>4. Rev(1 * Pow2[v] + i, v + q) = Rev(i, v) * Pow2[q] + Rev(1, q)
  BY <1>0, RevConcat
<1>5. Rev(1, q) = p
  <2>1. Rev(0, q - 1) = 0 /\ Rev(1, 1) = 1
    BY <1>0, RevOfZero, RevOfOne
  <2>2. Rev(2 * 0 + 1, (q - 1) + 1) = Pow2[q - 1] + Rev(0, q - 1)
    <3>1. (q - 1) + 1 <= LogMax
      BY <1>0
    <3> QED
      BY <1>0, <3>1, RevBlocks
  <2>3. 2 * 0 + 1 = 1 /\ (q - 1) + 1 = q /\ p + 0 = p
    BY <1>0, <1>1
  <2> QED
    BY <2>1, <2>2, <2>3, Zenon
<1>6. Rev(i, v) \in Nat /\ Rev(2 * i, v + 1) = Rev(i, v)
  BY <1>0, <1>2, RevBlocks
<1>7. Angle(v + 1, 2 * i) = (2 * Rev(i, v) + 1) * p
  BY <1>0, <1>6, Zenon DEF Angle
<1> DEFINE r == Rev(i, v)
<1>8. Rev(Pow2[v] + i, LogMax) = r * Pow2[q] + p
  BY <1>0, <1>2, <1>4, <1>5, Zenon
<1> HIDE DEF p, r
<1>9. r * (2 * p) + p = (2 * r + 1) * p
  BY <1>1, <1>6 DEF r
<1> QED
  BY <1>1, <1>3, <1>7, <1>8, <1>9, Zenon DEF r

(* The sizes of the blocks of stage u of 2^l coefficients.                 *)
LEMMA BlockSizes ==
  ASSUME NEW l \in 0 .. LogMax, NEW u \in 0 .. l
  PROVE  /\ Pow2[l - u] \in Nat /\ Pow2[l - u] >= 1 /\ Pow2[u] \in Nat /\ Pow2[u] >= 1
         /\ Pow2[l] \in Nat /\ Pow2[l] = Pow2[u] * Pow2[l - u]
         /\ u \in Nat /\ l \in Nat /\ l - u \in Nat /\ u <= LogMax
         /\ Pow2[l] \div Pow2[l - u] = Pow2[u]
<1>0. /\ LogMax \in Nat /\ u \in Nat /\ l \in Nat /\ l - u \in Nat /\ l <= LogMax /\ u <= l
      /\ u \in 0 .. LogMax /\ l - u \in 0 .. LogMax /\ u <= LogMax
  BY Pow2Assumption
<1>1. /\ Pow2[l - u] \in Nat /\ Pow2[l - u] >= 1 /\ Pow2[u] \in Nat /\ Pow2[u] >= 1
      /\ Pow2[l] \in Nat
  BY <1>0, Pow2Facts
<1>2. Pow2[l] = Pow2[u] * Pow2[l - u]
  <2> DEFINE w == l - u
  <2>1. w \in Nat /\ u + w = l /\ u + w <= LogMax
    BY <1>0
  <2>2. \A v \in Nat : u + v <= LogMax => Pow2[u + v] = Pow2[u] * Pow2[v]
    BY <1>0, Pow2Add
  <2> HIDE DEF w
  <2>3. Pow2[u + w] = Pow2[u] * Pow2[w]
    BY <2>1, <2>2
  <2> QED
    BY <2>1, <2>3 DEF w
<1>3. Pow2[l] \div Pow2[l - u] = Pow2[u]
  <2> DEFINE q == Pow2[u]
             d == Pow2[l - u]
  <2>1. q \in Int /\ d \in Nat /\ d > 0 /\ 0 \in 0 .. d - 1 /\ Pow2[l] = q * d + 0
    BY <1>1, <1>2
  <2> HIDE DEF q, d
  <2>2. (q * d + 0) \div d = q
    BY <2>1, DivModUnique
  <2> QED
    BY <2>1, <2>2 DEF q, d
<1> QED
  BY <1>0, <1>1, <1>2, <1>3

(* The blocks are the remainders Negacyclic speaks of.                     *)
LEMMA BlockRemainder ==
  ASSUME NEW f, NEW l \in 0 .. LogMax, NEW u \in 0 .. l,
         NEW i \in Nat, NEW d \in 0 .. Pow2[l - u] - 1
  PROVE  Remainder(f, l, Pow2[l - u], i * Pow2[l - u] + d) = Block(f, l, u, i, d)
<1> DEFINE size == Pow2[l - u]
           s == i * size + d
<1>1. /\ size \in Nat /\ size >= 1 /\ u \in Nat /\ l \in Nat /\ l - u \in Nat /\ u <= LogMax
      /\ Pow2[l] \div size = Pow2[u]
  BY BlockSizes
<1>2. BlockStart(size, s) = i * size /\ s - i * size = d
  <2> HIDE DEF size
  <2>1. i \in Int /\ size > 0 /\ d \in 0 .. size - 1 /\ size \in Nat
    BY <1>1 DEF size
  <2>2. (i * size + d) \div size = i
    BY <2>1, DivModUnique
  <2> QED
    BY <2>1, <2>2 DEF BlockStart
<1>3. Rev(i * size, l) = Rev(i, u) /\ Rev(i, u) \in Nat
  <2> DEFINE w == l - u
  <2>1. w \in Nat /\ w + u = l /\ w + u <= LogMax
    BY <1>1, Pow2Assumption
  <2> HIDE DEF w
  <2>2. /\ \A v \in Nat : v + u <= LogMax => Rev(i * Pow2[v], v + u) = Rev(i, u)
        /\ u <= LogMax => Rev(i, u) \in Nat
    BY <1>1, RevBlocks
  <2>3. Rev(i * Pow2[w], w + u) = Rev(i, u)
    BY <2>1, <2>2
  <2> QED
    BY <1>1, <2>1, <2>2, <2>3 DEF w
<1>4. size * PointExponent(l, i * size) = Angle(u, i)
  <2> DEFINE w == l - u
             v == LogMax - l
             r == Rev(i, u)
  <2>1. /\ w \in Nat /\ v \in Nat /\ w + v = LogMax - u /\ w + v <= LogMax
        /\ w \in 0 .. LogMax /\ v \in 0 .. LogMax
    BY <1>1, Pow2Assumption
  <2> HIDE DEF w, v
  <2>2. Pow2[w + v] = Pow2[w] * Pow2[v]
    <3>1. \A k \in Nat : w + k <= LogMax => Pow2[w + k] = Pow2[w] * Pow2[k]
      BY <2>1, Pow2Add
    <3> QED
      BY <2>1, <3>1
  <2>3. Pow2[w] \in Nat /\ Pow2[v] \in Nat
    BY <2>1, Pow2Facts
  <2>4. size = Pow2[w] /\ PointExponent(l, i * size) = (2 * r + 1) * Pow2[v]
    BY <1>3 DEF PointExponent, RootExponent, w, v
  <2>5. Angle(u, i) = (2 * r + 1) * (Pow2[w] * Pow2[v])
    BY <2>1, <2>2 DEF Angle
  <2> HIDE DEF r
  <2>6. r \in Nat
    BY <1>3 DEF r
  <2>7. Pow2[w] * ((2 * r + 1) * Pow2[v]) = (2 * r + 1) * (Pow2[w] * Pow2[v])
    BY <2>3, <2>6
  <2> QED
    BY <2>4, <2>5, <2>7, Zenon
<1> QED
  BY <1>1, <1>2, <1>4, Zenon DEF Remainder, Block

(* The coefficients a block reads are there.                               *)
LEMMA BlockReads ==
  ASSUME NEW l \in 0 .. LogMax, NEW u \in 0 .. l, NEW f \in Poly(l),
         NEW d \in 0 .. Pow2[l - u] - 1
  PROVE  Reads(f, d, Pow2[l - u], Pow2[u])
<1> DEFINE size == Pow2[l - u]
           terms == Pow2[u]
           m == Pow2[l]
<1>1. size \in Nat /\ size >= 1 /\ terms \in Nat /\ m \in Nat /\ m = terms * size
  BY BlockSizes
<1>2. \A k \in 0 .. m - 1 : f[k] \in Int
  BY PolyReads
<1>3. d \in 0 .. size - 1
  OBVIOUS
<1> HIDE DEF size, terms, m
<1>4. ASSUME NEW k \in 0 .. terms - 1
      PROVE  f[d + k * size] \in Int
  <2>1. (k + 1) * size <= terms * size
    BY <1>1
  <2>2. (k + 1) * size = k * size + size /\ k * size \in Nat
    BY <1>1
  <2>3. d + k * size \in 0 .. m - 1
    BY <1>1, <1>3, <2>1, <2>2
  <2> QED
    BY <1>2, <2>3
<1>5. Reads(f, d, size, terms)
  BY <1>4 DEF Reads
<1> QED
  BY <1>5 DEF size, terms

(* The coefficients of a block are complex numbers.                        *)
LEMMA BlockType ==
  ASSUME NEW l \in 0 .. LogMax, NEW u \in 0 .. l, NEW f \in Poly(l), NEW i \in Nat,
         NEW d \in 0 .. Pow2[l - u] - 1
  PROVE  Block(f, l, u, i, d) \in Complex /\ Block(f, l, u, i, d) \in Pair
<1> DEFINE size == Pow2[l - u]
           terms == Pow2[u]
           c == Exp(Angle(u, i))
<1>1. size \in Nat /\ terms \in Nat /\ u \in Nat /\ u <= LogMax
  BY BlockSizes
<1>2. c \in Pair
  BY <1>1, AngleFacts
<1>3. Reads(f, d, size, terms) /\ d \in Nat
  BY <1>1, BlockReads
<1> HIDE DEF size, terms, c
<1>4. Horner(f, d, size, terms, c) \in Complex /\ Horner(f, d, size, terms, c) \in Pair
  BY <1>1, <1>2, <1>3, HornerType
<1> QED
  BY <1>4 DEF Block, size, terms, c

(***************************************************************************)
(* The butterfly: a block modulo X^(2h) - s^2 is, modulo X^h - s and       *)
(* X^h + s, the two halves of the next stage.                              *)
(***************************************************************************)
LEMMA BlockSplit ==
  ASSUME NEW l \in 0 .. LogMax, NEW u \in 0 .. l - 1, NEW f \in Poly(l),
         NEW i \in Nat, NEW d \in 0 .. Pow2[l - (u + 1)] - 1
  PROVE  LET s == Exp(Angle(u + 1, 2 * i))
             h == Pow2[l - (u + 1)]
             x == Block(f, l, u, i, d)
             y == Block(f, l, u, i, d + h)
         IN  /\ Block(f, l, u + 1, 2 * i, d) = FPC_ADD(x, FPC_MUL(s, y))
             /\ Block(f, l, u + 1, 2 * i + 1, d) = FPC_SUB(x, FPC_MUL(s, y))
             /\ s \in Pair /\ x \in Pair /\ y \in Pair
<1> DEFINE s == Exp(Angle(u + 1, 2 * i))
           h == Pow2[l - (u + 1)]
           terms == Pow2[u]
           c == Exp(Angle(u, i))
           x == Block(f, l, u, i, d)
           y == Block(f, l, u, i, d + h)
           uu == u + 1
<1>0. /\ u \in 0 .. l /\ u + 1 \in 0 .. l /\ u \in Nat /\ u + 1 \in Nat /\ u + 1 <= LogMax /\ u <= LogMax
      /\ u + 1 \in 1 .. LogMax /\ (u + 1) - 1 = u
      /\ l - u \in 1 .. LogMax /\ (l - u) - 1 = l - (u + 1) /\ l - (u + 1) \in 0 .. LogMax
      /\ 2 * i \in Nat /\ 2 * i + 1 \in Nat
  BY Pow2Assumption
<1>1. /\ h \in Nat /\ terms \in Nat /\ Pow2[l - u] = 2 * h /\ Pow2[u + 1] = 2 * terms
  <2>1. Pow2[l - u] = 2 * Pow2[(l - u) - 1] /\ Pow2[u + 1] = 2 * Pow2[(u + 1) - 1]
    BY <1>0, Pow2Facts
  <2>2. h \in Nat /\ terms \in Nat
    <3>1. u \in 0 .. LogMax
      BY <1>0
    <3> QED
      BY <1>0, <3>1, Pow2Facts
  <2> QED
    BY <1>0, <2>1, <2>2
<1>2. FPC_MUL(s, s) = c /\ Exp(Angle(u + 1, 2 * i + 1)) = Neg(s)
  BY <1>0, AngleHalves
<1>3. s \in Pair /\ s \in Complex
  BY <1>0, AngleFacts
<1>4. d \in 0 .. Pow2[l - u] - 1 /\ d + h \in 0 .. Pow2[l - u] - 1 /\ d \in Nat
  <2>1. d \in 0 .. h - 1
    OBVIOUS
  <2> HIDE DEF h
  <2> QED
    BY <1>1, <2>1
<1>5. x \in Pair /\ y \in Pair
  <2> DEFINE e == d + h
  <2>1. e \in 0 .. Pow2[l - u] - 1
    BY <1>4
  <2> HIDE DEF e
  <2>2. Block(f, l, u, i, e) \in Pair
    BY <1>0, <2>1, BlockType
  <2> QED
    BY <1>0, <1>4, <2>2, BlockType DEF e
<1>6. x = Horner(f, d, 2 * h, terms, c) /\ y = Horner(f, d + h, 2 * h, terms, c)
  BY <1>1 DEF Block
<1>7. /\ Block(f, l, u + 1, 2 * i, d) = Horner(f, d, h, 2 * terms, s)
      /\ Block(f, l, u + 1, 2 * i + 1, d) = Horner(f, d, h, 2 * terms, Neg(s))
  BY <1>1, <1>2 DEF Block
<1>8. Reads(f, d, h, 2 * terms)
  <2>1. Reads(f, d, Pow2[l - (u + 1)], Pow2[u + 1])
    <3>1. uu \in 0 .. l /\ d \in 0 .. Pow2[l - uu] - 1
      BY <1>0
    <3> HIDE DEF uu
    <3>2. Reads(f, d, Pow2[l - uu], Pow2[uu])
      BY <3>1, BlockReads
    <3> QED
      BY <3>2 DEF uu
  <2> QED
    BY <1>1, <2>1
<1> HIDE DEF h, terms, c, x, y, s
<1>9. ASSUME NEW z \in Pair, FPC_MUL(z, z) = c
      PROVE  Horner(f, d, h, 2 * terms, z) = FPC_ADD(x, FPC_MUL(z, y))
  <2>1. \A p \in Nat : \A e \in Nat :
          Reads(f, e, h, 2 * p) =>
            Horner(f, e, h, 2 * p, z) =
              FPC_ADD(Horner(f, e, 2 * h, p, FPC_MUL(z, z)),
                      FPC_MUL(z, Horner(f, e + h, 2 * h, p, FPC_MUL(z, z))))
    BY <1>1, HornerSplit
  <2>2. Horner(f, d, h, 2 * terms, z) =
          FPC_ADD(Horner(f, d, 2 * h, terms, c), FPC_MUL(z, Horner(f, d + h, 2 * h, terms, c)))
    BY <1>1, <1>4, <1>8, <1>9, <2>1
  <2> QED
    BY <1>6, <2>2
<1>10. Neg(s) \in Pair /\ FPC_MUL(Neg(s), Neg(s)) = c
  BY <1>2, <1>3, Closed, MulNeg
<1>11. FPC_ADD(x, FPC_MUL(Neg(s), y)) = FPC_SUB(x, FPC_MUL(s, y))
  <2>1. FPC_MUL(Neg(s), y) = Neg(FPC_MUL(s, y)) /\ FPC_MUL(s, y) \in Pair
    BY <1>3, <1>5, Negation, Closed
  <2>2. FPC_SUB(x, FPC_MUL(s, y)) = FPC_ADD(x, Neg(FPC_MUL(s, y)))
    BY <1>5, <2>1, Negation
  <2> QED
    BY <2>1, <2>2, Zenon
<1>12. Horner(f, d, h, 2 * terms, s) = FPC_ADD(x, FPC_MUL(s, y))
  BY <1>2, <1>3, <1>9
<1>13. Horner(f, d, h, 2 * terms, Neg(s)) = FPC_SUB(x, FPC_MUL(s, y))
  BY <1>9, <1>10, <1>11
<1> QED
  BY <1>3, <1>5, <1>7, <1>12, <1>13 DEF s, h, x, y

(* The first stage is a re-labelling: it leaves every slot as it is.       *)
LEMMA BlockFirst ==
  ASSUME NEW l \in 1 .. LogMax, NEW f \in Poly(l), NEW d \in 0 .. Pow2[l - 1] - 1
  PROVE  Block(f, l, 1, 0, d) = <<f[d], f[d + Pow2[l - 1]]>>
<1> DEFINE h == Pow2[l - (0 + 1)]
           s == Exp(Angle(0 + 1, 2 * 0))
           x == Block(f, l, 0, 0, d)
           y == Block(f, l, 0, 0, d + h)
<1>0. /\ l \in 0 .. LogMax /\ 0 \in 0 .. l - 1 /\ 0 \in 0 .. l /\ l - (0 + 1) = l - 1 /\ l - 0 = l
      /\ 0 + 1 = 1 /\ 2 * 0 = 0 /\ LogMax \in Nat /\ LogMax >= 1 /\ Pow2[0] = 1 /\ 1 \in Nat /\ 0 \in Nat
      /\ l - 1 \in 0 .. LogMax /\ LogMax - 1 \in 0 .. LogMax /\ 1 \in 0 .. LogMax
      /\ 1 <= LogMax /\ l \in Nat
  BY Pow2Assumption
<1>1. h \in Nat /\ Pow2[l] = 2 * h /\ h = Pow2[l - 1]
  BY <1>0, Pow2Facts
<1>2. d \in 0 .. h - 1 /\ d \in 0 .. Pow2[l] - 1 /\ d + h \in 0 .. Pow2[l] - 1 /\ d \in Nat
  <2>1. d \in 0 .. h - 1
    BY <1>1
  <2> HIDE DEF h
  <2> QED
    BY <1>1, <2>1
<1>3. Block(f, l, 1, 0, d) = FPC_ADD(x, FPC_MUL(s, y))
  <2>1. d \in 0 .. Pow2[l - (0 + 1)] - 1
    BY <1>2
  <2>2. Block(f, l, 0 + 1, 2 * 0, d) = FPC_ADD(x, FPC_MUL(s, y))
    BY <1>0, <2>1, BlockSplit
  <2> QED
    BY <1>0, <2>2, Zenon
<1>4. s = <<0, 1>>
  <2>1. Rev(0, 1) = 0
    BY <1>0, RevOfZero
  <2>2. Pow2[LogMax - 1] \in Nat
    BY <1>0, Pow2Facts
  <2>3. Angle(1, 0) = Pow2[LogMax - 1]
    BY <2>1, <2>2 DEF Angle
  <2> QED
    BY <1>0, <2>3, ExpSpecial, Zenon
<1>5. \A k \in 0 .. Pow2[l] - 1 : f[k] \in Residue
  BY DEF Poly
<1>6. ASSUME NEW e \in 0 .. Pow2[l] - 1
      PROVE  Block(f, l, 0, 0, e) = <<f[e], 0>>
  <2> DEFINE c == Exp(Angle(0, 0))
             size == Pow2[l]
  <2>1. c \in Pair
    BY <1>0, AngleFacts
  <2>2. Reads(f, e, size, 0 + 1) /\ size \in Nat /\ e \in Nat
    <3>1. e \in 0 .. Pow2[l - 0] - 1
      BY <1>0
    <3>2. Reads(f, e, Pow2[l - 0], Pow2[0])
      BY <1>0, <3>1, BlockReads
    <3> QED
      BY <1>0, <1>1, <3>2
  <2>3. Block(f, l, 0, 0, e) = Horner(f, e, size, 0 + 1, c)
    BY <1>0 DEF Block
  <2> HIDE DEF c, size
  <2>4. Horner(f, e, size, 0 + 1, c) =
          FPC_ADD(FPC_MUL(Horner(f, e + size, size, 0, c), c), <<f[e], 0>>)
    <3> DEFINE z == 0
    <3>1. z \in Nat /\ Reads(f, e, size, z + 1)
      BY <2>2
    <3> HIDE DEF z
    <3>2. Horner(f, e, size, z + 1, c) =
            FPC_ADD(FPC_MUL(Horner(f, e + size, size, z, c), c), <<f[e], 0>>)
      BY <2>1, <2>2, <3>1, HornerLow
    <3> QED
      BY <3>2 DEF z
  <2>5. Horner(f, e + size, size, 0, c) = Zero
    <3> DEFINE ee == e + size
    <3>1. ee \in Nat
      BY <2>2
    <3> HIDE DEF ee
    <3>2. Horner(f, ee, size, 0, c) = Zero
      BY <2>1, <2>2, <3>1, HornerZero
    <3> QED
      BY <3>2 DEF ee
  <2>6. <<f[e], 0>> \in Complex
    BY <1>5, PFacts DEF Complex, Residue
  <2>7. FPC_MUL(Zero, c) = Zero
    <3>1. FPC_MUL(Zero, c) = <<(0 * c[1] - 0 * c[2]) % P, (0 * c[2] + 0 * c[1]) % P>>
      BY DEF FPC_MUL, Zero
    <3>2. 0 * c[1] - 0 * c[2] = 0 /\ 0 * c[2] + 0 * c[1] = 0
      BY <2>1 DEF Pair
    <3>3. 0 % P = 0
      BY PFacts
    <3> QED
      BY <3>1, <3>2, <3>3, Zenon DEF Zero
  <2> QED
    BY <2>3, <2>4, <2>5, <2>6, <2>7, Units, Zenon
<1>7. x = <<f[d], 0>> /\ y = <<f[d + h], 0>>
  <2> HIDE DEF h
  <2> QED
    BY <1>2, <1>6
<1> DEFINE v == f[d]
           w == f[d + h]
<1>8. v \in Residue /\ w \in Residue /\ v \in Int /\ w \in Int
  <2> HIDE DEF h
  <2> QED
    BY <1>2, <1>5, PFacts DEF Residue
<1> HIDE DEF x, y, s, v, w
<1>9. FPC_ADD(<<v, 0>>, FPC_MUL(<<0, 1>>, <<w, 0>>)) = <<v, w>>
  <2>1. v % P = v /\ w % P = w /\ 0 % P = 0
    BY <1>8, PFacts DEF Residue
  <2>2. FPC_MUL(<<0, 1>>, <<w, 0>>) = <<(0 * w - 1 * 0) % P, (0 * 0 + 1 * w) % P>>
    BY DEF FPC_MUL
  <2>3. 0 * w - 1 * 0 = 0 /\ 0 * 0 + 1 * w = w /\ v + 0 = v /\ 0 + w = w
    BY <1>8
  <2>4. FPC_MUL(<<0, 1>>, <<w, 0>>) = <<0, w>>
    BY <2>1, <2>2, <2>3, Zenon
  <2>5. FPC_ADD(<<v, 0>>, <<0, w>>) = <<(v + 0) % P, (0 + w) % P>>
    BY DEF FPC_ADD
  <2> QED
    BY <2>1, <2>3, <2>4, <2>5, Zenon
<1> QED
  BY <1>1, <1>3, <1>4, <1>7, <1>9, Zenon DEF v, w

(* The blocks of the last stage are single values, at roots of X^N + 1.    *)
LEMMA BlockRoot ==
  ASSUME NEW l \in 0 .. LogMax, NEW i \in Nat
  PROVE  /\ Angle(l, i) \in Nat /\ Exp(Pow2[l] * Angle(l, i)) = Neg(One)
         /\ \A f : Block(f, l, l, i, 0) = Horner(f, 0, 1, Pow2[l], Exp(Angle(l, i)))
<1> DEFINE r == Rev(i, l)
           w == LogMax - l
<1>0. /\ l \in Nat /\ l <= LogMax /\ w \in Nat /\ l + w = LogMax /\ l + w <= LogMax
      /\ w \in 0 .. LogMax /\ LogMax \in 0 .. LogMax /\ l - l = 0 /\ Pow2[0] = 1
  BY Pow2Assumption
<1>1. r \in Nat /\ Angle(l, i) \in Nat
  BY <1>0, RevBlocks, AngleFacts
<1> HIDE DEF w
<1>2. Pow2[LogMax] = Pow2[l] * Pow2[w]
  <2>1. \A k \in Nat : l + k <= LogMax => Pow2[l + k] = Pow2[l] * Pow2[k]
    BY <1>0, Pow2Add
  <2> QED
    BY <1>0, <2>1
<1>3. Angle(l, i) = (2 * r + 1) * Pow2[w]
  BY DEF Angle, w
<1> HIDE DEF r
<1> DEFINE M == Pow2[LogMax]
<1>4. Pow2[l] \in Nat /\ Pow2[w] \in Nat /\ M \in Nat
  BY <1>0, Pow2Facts
<1>5. Pow2[l] * ((2 * r + 1) * Pow2[w]) = r * (2 * M) + M
  <2>1. Pow2[l] * ((2 * r + 1) * Pow2[w]) = (2 * r + 1) * (Pow2[l] * Pow2[w])
    BY <1>1, <1>4
  <2>2. Pow2[l] * Pow2[w] = M
    BY <1>2
  <2> HIDE DEF M
  <2>3. (2 * r + 1) * M = r * (2 * M) + M
    BY <1>1, <1>4
  <2> QED
    BY <2>1, <2>2, <2>3, Zenon
<1>6. Exp(r * Order + M) = Exp(M)
  <2> HIDE DEF M
  <2> QED
    BY <1>1, <1>4, ExpPeriod
<1>7. Exp(M) = Neg(One)
  BY ExpSpecial
<1>8. Exp(Pow2[l] * Angle(l, i)) = Neg(One)
  BY <1>3, <1>5, <1>6, <1>7, Zenon DEF Order
<1> QED
  BY <1>0, <1>1, <1>8 DEF Block

(* There, the product is the product of the values.                        *)
LEMMA BlockProduct ==
  ASSUME NEW l \in 0 .. LogMax, NEW f \in Poly(l), NEW g \in Poly(l), NEW i \in Nat
  PROVE  Block(SchoolbookMul(f, g, l), l, l, i, 0) =
           FPC_MUL(Block(f, l, l, i, 0), Block(g, l, l, i, 0))
<1> DEFINE w == Angle(l, i)
<1>1. w \in Nat /\ Exp(Pow2[l] * w) = Neg(One)
  BY BlockRoot
<1>2. \A h : Block(h, l, l, i, 0) = Horner(h, 0, 1, Pow2[l], Exp(w))
  BY BlockRoot
<1> HIDE DEF w
<1>3. Horner(SchoolbookMul(f, g, l), 0, 1, Pow2[l], Exp(w)) =
        FPC_MUL(Horner(f, 0, 1, Pow2[l], Exp(w)), Horner(g, 0, 1, Pow2[l], Exp(w)))
  BY <1>1, ProductValue
<1>4. /\ Block(SchoolbookMul(f, g, l), l, l, i, 0) =
           Horner(SchoolbookMul(f, g, l), 0, 1, Pow2[l], Exp(w))
      /\ Block(f, l, l, i, 0) = Horner(f, 0, 1, Pow2[l], Exp(w))
      /\ Block(g, l, l, i, 0) = Horner(g, 0, 1, Pow2[l], Exp(w))
  BY <1>2
<1> QED
  BY <1>3, <1>4

(***************************************************************************)
(* The inverse butterfly undoes the butterfly x + s*y, x - s*y, |s| = 1,   *)
(* and doubles.                                                            *)
(***************************************************************************)
LEMMA Undo ==
  ASSUME NEW r \in Nat, NEW x \in Pair, NEW y \in Complex, NEW s \in Complex,
         FPC_MUL(s, Conj(s)) = One
  PROVE  LET p == Scale(r, FPC_ADD(x, FPC_MUL(s, y)))
             q == Scale(r, FPC_SUB(x, FPC_MUL(s, y)))
         IN  /\ FPC_ADD(p, q) = Scale(2 * r, x)
             /\ FPC_MUL(FPC_SUB(p, q), Conj(s)) = Scale(2 * r, y)
<1> DEFINE z == FPC_MUL(s, y)
           p == Scale(r, FPC_ADD(x, z))
           q == Scale(r, FPC_SUB(x, z))
           cs == Conj(s)
<1>1. z \in Pair /\ cs \in Pair /\ y \in Pair /\ s \in Pair /\ One \in Pair
  BY Closed, ConjMul
<1>2. z = FPC_MUL(s, y) /\ FPC_MUL(s, cs) = One
  OBVIOUS
<1> HIDE DEF z, cs
<1>3. ASSUME NEW a \in Int, NEW b \in Int
      PROVE  /\ (((r * ((a + b) % P)) % P) + ((r * ((a - b) % P)) % P)) % P = ((2 * r) * a) % P
             /\ (((r * ((a + b) % P)) % P) - ((r * ((a - b) % P)) % P)) % P = ((2 * r) * b) % P
  <2> DEFINE u == (a + b) % P
             v == (a - b) % P
  <2>1. a + b \in Int /\ a - b \in Int /\ r \in Int
    OBVIOUS
  <2>2. u \in Int /\ v \in Int
    BY <2>1, PFacts
  <2>3. (r * u + r * v) % P = (r * (a + b) + r * (a - b)) % P
    BY <2>1, ModTerms
  <2>4. (r * u - r * v) % P = (r * (a + b) - r * (a - b)) % P
    BY <2>1, ModTerms
  <2> HIDE DEF u, v
  <2> DEFINE ru == r * u
             rv == r * v
  <2>5. ru \in Int /\ rv \in Int
    BY <2>2
  <2>6. /\ ((ru % P) + (rv % P)) % P = (ru + rv) % P
        /\ ((ru % P) - (rv % P)) % P = (ru - rv) % P
    <3> HIDE DEF ru, rv
    <3> QED
      BY <2>5, ModSums
  <2>7. r * (a + b) + r * (a - b) = (2 * r) * a /\ r * (a + b) - r * (a - b) = (2 * r) * b
    OBVIOUS
  <2>8. ((ru % P) + (rv % P)) % P = ((2 * r) * a) % P
    BY <2>3, <2>6, <2>7, Zenon
  <2>9. ((ru % P) - (rv % P)) % P = ((2 * r) * b) % P
    BY <2>4, <2>6, <2>7, Zenon
  <2> QED
    BY <2>8, <2>9 DEF u, v
<1>4. x[1] \in Int /\ x[2] \in Int /\ z[1] \in Int /\ z[2] \in Int
  BY <1>1, Parts
<1>5. /\ p = <<(r * ((x[1] + z[1]) % P)) % P, (r * ((x[2] + z[2]) % P)) % P>>
      /\ q = <<(r * ((x[1] - z[1]) % P)) % P, (r * ((x[2] - z[2]) % P)) % P>>
  BY DEF Scale, FPC_ADD, FPC_SUB
<1>6. /\ p[1] = (r * ((x[1] + z[1]) % P)) % P /\ p[2] = (r * ((x[2] + z[2]) % P)) % P
      /\ q[1] = (r * ((x[1] - z[1]) % P)) % P /\ q[2] = (r * ((x[2] - z[2]) % P)) % P
  BY <1>5
<1>7. /\ (p[1] + q[1]) % P = ((2 * r) * x[1]) % P /\ (p[1] - q[1]) % P = ((2 * r) * z[1]) % P
       /\ (p[2] + q[2]) % P = ((2 * r) * x[2]) % P /\ (p[2] - q[2]) % P = ((2 * r) * z[2]) % P
  <2> HIDE DEF p, q
  <2>1. /\ (p[1] + q[1]) % P = ((2 * r) * x[1]) % P /\ (p[1] - q[1]) % P = ((2 * r) * z[1]) % P
    BY <1>3, <1>4, <1>6
  <2>2. /\ (p[2] + q[2]) % P = ((2 * r) * x[2]) % P /\ (p[2] - q[2]) % P = ((2 * r) * z[2]) % P
    BY <1>3, <1>4, <1>6
  <2> QED
    BY <2>1, <2>2
<1>8. FPC_ADD(p, q) = Scale(2 * r, x)
  <2>1. FPC_ADD(p, q) = <<(p[1] + q[1]) % P, (p[2] + q[2]) % P>>
    BY DEF FPC_ADD
  <2> QED
    BY <1>7, <2>1, Zenon DEF Scale
<1>9. FPC_SUB(p, q) = Scale(2 * r, z)
  <2>1. FPC_SUB(p, q) = <<(p[1] - q[1]) % P, (p[2] - q[2]) % P>>
    BY DEF FPC_SUB
  <2> QED
    BY <1>7, <2>1, Zenon DEF Scale
<1>10. FPC_MUL(Scale(2 * r, z), cs) = Scale(2 * r, y)
  <2> DEFINE k == <<2 * r, 0>>
  <2>1. k \in Pair /\ 2 * r \in Int
    BY DEF Pair
  <2>2. Scale(2 * r, z) = FPC_MUL(k, z) /\ Scale(2 * r, y) = FPC_MUL(k, y)
    BY <1>1, <2>1, ScaleIsMul
  <2> HIDE DEF k
  <2>3. FPC_MUL(FPC_MUL(k, z), cs) = FPC_MUL(k, FPC_MUL(z, cs))
    BY <1>1, <2>1, MulAssoc
  <2>4. FPC_MUL(z, cs) = y
    <3>1. FPC_MUL(s, y) = FPC_MUL(y, s)
      BY <1>1, MulComm
    <3>2. FPC_MUL(FPC_MUL(y, s), cs) = FPC_MUL(y, FPC_MUL(s, cs))
      BY <1>1, MulAssoc
    <3>3. FPC_MUL(y, One) = y
      BY Units
    <3> QED
      BY <1>2, <3>1, <3>2, <3>3, Zenon
  <2> QED
    BY <2>2, <2>3, <2>4, Zenon
<1> QED
  BY <1>2, <1>8, <1>9, <1>10 DEF cs, z

(* 2 has an inverse modulo P, (P+1)/2, and fpr_p2_tab is built with it.    *)
LEMMA HalfInt ==
  (P + 1) \div 2 \in Int /\ 2 * ((P + 1) \div 2) = P + 1
BY PAssumption

(* Each entry of the table is half the one before.                         *)
LEMMA P2Recursion ==
  /\ \A l \in 0 .. LogMax : fpr_p2_tab[l] \in Int
  /\ fpr_p2_tab[0] = 2
  /\ \A l \in 1 .. LogMax :
       fpr_p2_tab[l] = (fpr_p2_tab[l - 1] * ((P + 1) \div 2)) % P
<1> DEFINE half == (P + 1) \div 2
           step == [k \in 1 .. LogMax |-> [v \in Int |-> (v * half) % P]]
           Body(g, k) == IF k = 0 THEN 2 ELSE (g[k - 1] * half) % P
           Is(g) == g = [k \in 0 .. LogMax |-> Body(g, k)]
           p2 == CHOOSE g : Is(g)
<1>0. LogMax \in Nat /\ half \in Int
  BY Pow2Assumption, HalfInt
<1>1. step \in [1 .. LogMax -> [Int -> Int]]
  <2> HIDE DEF half
  <2>1. \A v \in Int : v * half \in Int
    BY <1>0
  <2>2. \A v \in Int : (v * half) % P \in Int
    BY <2>1, PFacts
  <2> QED
    BY <2>2
<1>2. PICK f \in [0 .. LogMax -> Int] :
        f[0] = 2 /\ \A k \in 1 .. LogMax : f[k] = step[k][f[k - 1]]
  <2> DEFINE V == Int
  <2>1. Start(2, LogMax, step, V)
    BY <1>1 DEF Start
  <2> HIDE DEF step, V
  <2>2. \E f \in [0 .. LogMax -> V] :
          f[0] = 2 /\ \A k \in 1 .. LogMax : f[k] = step[k][f[k - 1]]
    BY <1>0, <2>1, Recursion
  <2> QED
    BY <2>2 DEF V
<1>3. \A k \in 1 .. LogMax : f[k - 1] \in Int /\ f[k] = (f[k - 1] * half) % P
  <2> TAKE k \in 1 .. LogMax
  <2>1. k - 1 \in 0 .. LogMax
    BY <1>0
  <2>2. f[k - 1] \in Int
    BY <1>2, <2>1
  <2>3. f[k] = step[k][f[k - 1]]
    BY <1>2
  <2> DEFINE x == f[k - 1]
  <2> HIDE DEF half, x
  <2>4. step[k][x] = (x * half) % P
    BY <2>2 DEF x
  <2> QED
    BY <2>2, <2>3, <2>4 DEF x
<1> HIDE DEF half
<1>4. Is(f)
  <2>1. ASSUME NEW k \in 0 .. LogMax
        PROVE  f[k] = Body(f, k)
    <3>1. CASE k = 0
      BY <1>2, <3>1
    <3>2. CASE k # 0
      <4>1. k \in 1 .. LogMax
        BY <1>0, <3>2
      <4> QED
        BY <1>3, <3>2, <4>1, Zenon
    <3> QED
      BY <3>1, <3>2
  <2> HIDE DEF Body
  <2> QED
    BY <1>2, <2>1
<1>5. Is(p2)
  <2> HIDE DEF Is
  <2> QED
    BY <1>4
<1>6. fpr_p2_tab = p2
  BY DEF fpr_p2_tab, half
<1> HIDE DEF p2
<1>7. /\ p2[0] = 2 /\ \A k \in 1 .. LogMax : p2[k] = (p2[k - 1] * half) % P
  <2>1. \A k \in 0 .. LogMax : p2[k] = Body(p2, k)
    <3> HIDE DEF Body
    <3> QED
      BY <1>5
  <2>2. 0 \in 0 .. LogMax /\ \A k \in 1 .. LogMax : k \in 0 .. LogMax /\ k # 0
    BY <1>0
  <2> QED
    BY <2>1, <2>2, Zenon
<1>8. \A k \in 0 .. LogMax : p2[k] = f[k]
  <2>1. SameSteps(p2, f, LogMax)
    BY <1>2, <1>3, <1>7 DEF SameSteps
  <2> QED
    BY <1>0, <2>1, RecursionUnique
<1>9. \A k \in 0 .. LogMax : p2[k] \in Int
  BY <1>2, <1>8
<1> QED
  BY <1>6, <1>7, <1>9 DEF half

(* The factor the inverse transform has gathered, 2^(l-1), is taken out by *)
(* the one multiplication by fpr_p2_tab[l].                                *)
LEMMA P2Inverse ==
  \A l \in 1 .. LogMax : (fpr_p2_tab[l] * Pow2[l - 1]) % P = 1
<1> DEFINE half == (P + 1) \div 2
           Good(l) == l + 1 <= LogMax => (fpr_p2_tab[l + 1] * Pow2[l]) % P = 1
           T == {l \in Nat : Good(l)}
<1>0. /\ LogMax \in Nat /\ LogMax >= 1 /\ Pow2[0] = 1 /\ half \in Int /\ 2 * half = P + 1
      /\ P \in Nat /\ P > 2
  BY Pow2Assumption, HalfInt, PAssumption
<1> HIDE DEF half
<1>1. 0 \in T
  <2> SUFFICES Good(0)
    OBVIOUS
  <2>1. 1 \in 1 .. LogMax /\ 1 - 1 = 0 /\ 0 + 1 = 1
    BY <1>0
  <2>2. fpr_p2_tab[1] = (2 * half) % P
    BY <2>1, P2Recursion DEF half
  <2>3. (P + 1) % P = 1
    <3>1. P + 1 = 1 * P + 1 /\ 1 \in 0 .. P - 1 /\ P > 0
      BY <1>0
    <3>2. (1 * P + 1) % P = 1
      BY <1>0, <3>1, DivModUnique
    <3> QED
      BY <3>1, <3>2
  <2>4. 1 % P = 1
    BY <1>0
  <2> QED
    BY <1>0, <2>1, <2>2, <2>3, <2>4
<1>2. \A l \in Nat : l \in T => l + 1 \in T
  <2> SUFFICES ASSUME NEW l \in Nat, Good(l)
               PROVE  Good(l + 1)
    <3> HIDE DEF Good
    <3> QED
      OBVIOUS
  <2> SUFFICES ASSUME (l + 1) + 1 <= LogMax
               PROVE  (fpr_p2_tab[(l + 1) + 1] * Pow2[l + 1]) % P = 1
    OBVIOUS
  <2>0. /\ l + 1 \in 1 .. LogMax /\ (l + 1) + 1 \in 1 .. LogMax /\ ((l + 1) + 1) - 1 = l + 1
        /\ (l + 1) - 1 = l /\ l \in 0 .. LogMax /\ l + 1 <= LogMax /\ l + 1 \in 0 .. LogMax
    BY <1>0
  <2> DEFINE v == fpr_p2_tab[l + 1]
             q == Pow2[l]
             w == v * half
  <2>1. v \in Int /\ fpr_p2_tab[(l + 1) + 1] = (v * half) % P
    BY <2>0, P2Recursion DEF half
  <2>2. q \in Nat /\ Pow2[l + 1] = 2 * q
    BY <2>0, Pow2Facts
  <2>3. (v * q) % P = 1
    BY <2>0
  <2> HIDE DEF v, q
  <2>4. w \in Int /\ 2 * q \in Int /\ v * q \in Int
    BY <1>0, <2>1, <2>2
  <2>5. ((w % P) * (2 * q)) % P = (w * (2 * q)) % P
    <3> HIDE DEF w
    <3> QED
      BY <2>4, ModTerms
  <2>6. w * (2 * q) = v * q + (v * q) * P
    <3>1. w * (2 * q) = (v * q) * (2 * half)
      BY <1>0, <2>1, <2>2
    <3>2. (v * q) * (P + 1) = v * q + (v * q) * P
      BY <1>0, <2>4
    <3> QED
      BY <1>0, <3>1, <3>2
  <2>7. (v * q + (v * q) * P) % P = (v * q) % P
    <3> DEFINE e == v * q
    <3> HIDE DEF e
    <3>1. e \in Int
      BY <2>4 DEF e
    <3>2. (e + e * P) % P = e % P
      BY <3>1, Shifted
    <3> QED
      BY <3>2 DEF e
  <2> QED
    BY <2>1, <2>2, <2>3, <2>5, <2>6, <2>7, Zenon DEF w
<1>3. Nat \subseteq T
  <2> HIDE DEF T
  <2> QED
    BY <1>1, <1>2, SetInduction
<1>4. ASSUME NEW l \in 1 .. LogMax
      PROVE  (fpr_p2_tab[l] * Pow2[l - 1]) % P = 1
  <2> DEFINE k == l - 1
  <2>1. k \in Nat /\ k + 1 = l /\ k + 1 <= LogMax
    BY <1>0
  <2>2. Good(k)
    BY <1>3, <2>1
  <2>3. (fpr_p2_tab[k + 1] * Pow2[k]) % P = 1
    BY <2>1, <2>2
  <2> QED
    BY <2>1, <2>3
<1> QED
  BY <1>4

(* A residue times 2^(l-1) times the entry is the residue.                 *)
LEMMA Unscale ==
  ASSUME NEW l \in 1 .. LogMax, NEW r \in Residue
  PROVE  (((Pow2[l - 1] * r) % P) * fpr_p2_tab[l]) % P = r
<1> DEFINE q == Pow2[l - 1]
           v == fpr_p2_tab[l]
           e == v * q
<1>1. q \in Int /\ v \in Int /\ e % P = 1 /\ r \in Int
  <2>1. l - 1 \in 0 .. LogMax /\ l \in 0 .. LogMax
    BY Pow2Assumption
  <2> QED
    BY <2>1, Pow2Facts, P2Recursion, P2Inverse, PFacts DEF Residue
<1> HIDE DEF q, v
<1>2. e \in Int /\ q * r \in Int
  BY <1>1
<1>3. (((q * r) % P) * v) % P = ((q * r) * v) % P
  BY <1>1, <1>2, ModTerms
<1>4. (q * r) * v = r * e
  BY <1>1
<1> HIDE DEF e
<1>5. (r * (e % P)) % P = (r * e) % P
  BY <1>1, <1>2, ModTerms
<1>6. r * 1 = r /\ r % P = r
  BY <1>1, PFacts DEF Residue
<1>7. (((q * r) % P) * v) % P = r
  BY <1>1, <1>3, <1>4, <1>5, <1>6
<1> QED
  BY <1>7 DEF q, v

-----------------------------------------------------------------------------
(***************************************************************************)
(* The array, in the middle of a stage.                                    *)
(***************************************************************************)

(***************************************************************************)
(* One butterfly, on remainders: slots p = 2*i*h + d and p + h of block i  *)
(* of stage w, h = 2^(l-w-1), and the twiddle at 2^w + i.                  *)
(***************************************************************************)
LEMMA ButterflyRemainders ==
  ASSUME NEW l \in 1 .. LogMax, NEW w \in 0 .. l - 1, NEW x \in Poly(l),
         NEW i \in 0 .. Pow2[w] - 1, NEW d \in 0 .. Pow2[l - (w + 1)] - 1
  PROVE  LET h == Pow2[l - (w + 1)]
             p == i * (2 * h) + d
             s == fpr_gm_tab[Pow2[w] + i]
             X == Remainder(x, l, 2 * h, p)
             Y == Remainder(x, l, 2 * h, p + h)
         IN  /\ X \in Complex /\ Y \in Complex /\ s \in Complex /\ FPC_MUL(s, Conj(s)) = One
             /\ Remainder(x, l, h, p) = FPC_ADD(X, FPC_MUL(s, Y))
             /\ Remainder(x, l, h, p + h) = FPC_SUB(X, FPC_MUL(s, Y))
             /\ FPC_MUL(s, Y) = FPC_MUL(Y, s)
<1> DEFINE h == Pow2[l - (w + 1)]
           p == i * (2 * h) + d
           s == fpr_gm_tab[Pow2[w] + i]
           X == Remainder(x, l, 2 * h, p)
           Y == Remainder(x, l, 2 * h, p + h)
           ww == w + 1
           e == Angle(w + 1, 2 * i)
<1>0. /\ l \in 0 .. LogMax /\ w \in 0 .. l /\ ww \in 0 .. l /\ ww = w + 1 /\ w \in Nat /\ w + 1 <= LogMax
      /\ w + 1 \in Nat /\ l - w \in 1 .. LogMax /\ (l - w) - 1 = l - (w + 1)
      /\ w \in 0 .. LogMax
  <2>1. LogMax \in Nat /\ l \in Nat /\ w \in Nat /\ 1 <= l /\ l <= LogMax /\ w <= l - 1
    BY Pow2Assumption
  <2> QED
    BY <2>1
<1>1. h \in Nat /\ Pow2[l - w] = 2 * h /\ Pow2[w] \in Nat
  <2>1. l - (w + 1) \in 0 .. LogMax
    BY <1>0, Pow2Assumption
  <2>2. Pow2[l - w] = 2 * Pow2[(l - w) - 1]
    BY <1>0, Pow2Facts
  <2>3. Pow2[w] \in Nat
    BY <1>0, Pow2Facts
  <2>4. h \in Nat
    BY <2>1, Pow2Facts
  <2> QED
    BY <1>0, <2>2, <2>3, <2>4
<1>2. i \in Nat /\ 2 * i \in Nat /\ 2 * i + 1 \in Nat /\ d \in 0 .. h - 1 /\ d \in Nat
  <2>1. d \in 0 .. h - 1
    OBVIOUS
  <2> HIDE DEF h
  <2>2. d \in Nat
    BY <1>1, <2>1
  <2>3. i \in Nat
    BY <1>1
  <2> QED
    BY <2>1, <2>2, <2>3
<1>3. d \in 0 .. Pow2[l - w] - 1 /\ d + h \in 0 .. Pow2[l - w] - 1 /\ d \in 0 .. Pow2[l - ww] - 1
      /\ h = Pow2[l - ww]
  <2> HIDE DEF h
  <2>1. d \in 0 .. 2 * h - 1 /\ d + h \in 0 .. 2 * h - 1
    BY <1>1, <1>2
  <2> QED
    BY <1>1, <2>1, <1>2 DEF h
<1>4. /\ i * (2 * h) + d = p /\ i * (2 * h) + (d + h) = p + h
      /\ (2 * i) * h + d = p /\ (2 * i + 1) * h + d = p + h
  <2> HIDE DEF h
  <2> QED
    BY <1>1, <1>2
<1> HIDE DEF ww, h, p
<1>5. X = Block(x, l, w, i, d)
  <2>1. Remainder(x, l, Pow2[l - w], i * Pow2[l - w] + d) = Block(x, l, w, i, d)
    BY <1>0, <1>2, <1>3, BlockRemainder
  <2> QED
    BY <1>1, <1>4, <2>1, Zenon
<1>6. Y = Block(x, l, w, i, d + h)
  <2> DEFINE dd == d + h
  <2>1. dd \in 0 .. Pow2[l - w] - 1
    BY <1>3
  <2> HIDE DEF dd
  <2>2. Remainder(x, l, Pow2[l - w], i * Pow2[l - w] + dd) = Block(x, l, w, i, dd)
    BY <1>0, <1>2, <2>1, BlockRemainder
  <2> QED
    BY <1>1, <1>4, <2>2, Zenon DEF dd
<1>7. Remainder(x, l, h, p) = Block(x, l, w + 1, 2 * i, d)
  <2> DEFINE k == 2 * i
  <2>1. k \in Nat
    BY <1>2
  <2> HIDE DEF k
  <2>2. Remainder(x, l, Pow2[l - ww], k * Pow2[l - ww] + d) = Block(x, l, ww, k, d)
    BY <1>0, <2>1, <1>3, BlockRemainder
  <2> QED
    BY <1>0, <1>3, <1>4, <2>2, Zenon DEF k
<1>8. Remainder(x, l, h, p + h) = Block(x, l, w + 1, 2 * i + 1, d)
  <2> DEFINE k == 2 * i + 1
  <2>1. k \in Nat
    BY <1>2
  <2> HIDE DEF k
  <2>2. Remainder(x, l, Pow2[l - ww], k * Pow2[l - ww] + d) = Block(x, l, ww, k, d)
    BY <1>0, <2>1, <1>3, BlockRemainder
  <2> QED
    BY <1>0, <1>3, <1>4, <2>2, Zenon DEF k
<1>9. s = Exp(e)
  BY <1>0, TwiddleAngle
<1>10. /\ Block(x, l, w + 1, 2 * i, d) = FPC_ADD(X, FPC_MUL(s, Y))
       /\ Block(x, l, w + 1, 2 * i + 1, d) = FPC_SUB(X, FPC_MUL(s, Y))
  <2>1. /\ Block(x, l, w + 1, 2 * i, d) =
             FPC_ADD(Block(x, l, w, i, d), FPC_MUL(Exp(e), Block(x, l, w, i, d + h)))
        /\ Block(x, l, w + 1, 2 * i + 1, d) =
             FPC_SUB(Block(x, l, w, i, d), FPC_MUL(Exp(e), Block(x, l, w, i, d + h)))
    <3>1. d \in 0 .. Pow2[l - (w + 1)] - 1
      OBVIOUS
    <3> QED
      BY <1>0, <1>2, <3>1, BlockSplit DEF h
  <2> HIDE DEF X, Y, s, e
  <2> QED
    BY <1>5, <1>6, <1>9, <2>1, Zenon
<1>11. s \in Complex /\ FPC_MUL(s, Conj(s)) = One
  <2>1. e \in Nat
    BY <1>0, <1>2, AngleFacts
  <2> HIDE DEF e, s
  <2> QED
    BY <1>9, <2>1, ExpSpecial, ExpNorm
<1>12. X \in Complex /\ Y \in Complex
  <2> DEFINE dd == d + h
  <2>1. dd \in 0 .. Pow2[l - w] - 1
    BY <1>3
  <2> HIDE DEF dd, X, Y
  <2>2. Block(x, l, w, i, dd) \in Complex /\ Block(x, l, w, i, d) \in Complex
    BY <1>0, <1>2, <1>3, <2>1, BlockType
  <2> QED
    BY <1>5, <1>6, <2>2, Zenon DEF dd
<1>13. FPC_MUL(s, Y) = FPC_MUL(Y, s)
  <2> HIDE DEF s, Y
  <2> QED
    BY <1>11, <1>12, Closed, MulComm
<1> QED
  BY <1>7, <1>8, <1>10, <1>11, <1>12, <1>13, Zenon DEF h, p

(***************************************************************************)
(* The array f while stage w + 1 is made from stage w: the slots in D      *)
(* hold coefficients of stage w + 1, the others of stage w.                *)
(***************************************************************************)
Forward(f, x, l, w, D) ==
  \A s \in 0 .. Pow2[l - 1] - 1 :
    At(f, Pow2[l - 1], s) =
      Remainder(x, l, IF s \in D THEN Pow2[l - (w + 1)] ELSE Pow2[l - w], s)

(* The other way: those in D are back at stage w, each times its size.     *)
Backward(f, x, l, w, D) ==
  \A s \in 0 .. Pow2[l - 1] - 1 :
    LET size == IF s \in D THEN Pow2[l - w] ELSE Pow2[l - (w + 1)]
    IN  At(f, Pow2[l - 1], s) = Scale(size, Remainder(x, l, size, s))

(* g is f but for the slots p and q, which hold y and z.                   *)
Stores(g, f, l, p, y, q, z) ==
  /\ At(g, Pow2[l - 1], p) = y /\ At(g, Pow2[l - 1], q) = z
  /\ \A s \in 0 .. Pow2[l - 1] - 1 :
       s # p /\ s # q => At(g, Pow2[l - 1], s) = At(f, Pow2[l - 1], s)

(* A butterfly of FFT adds its two slots to D.                             *)
LEMMA ForwardStep ==
  ASSUME NEW l \in 1 .. LogMax, NEW w \in 0 .. l - 1, NEW x \in Poly(l),
         NEW i \in 0 .. Pow2[w] - 1, NEW d \in 0 .. Pow2[l - (w + 1)] - 1,
         NEW f, NEW g, NEW D, NEW p \in 0 .. Pow2[l - 1] - 1, NEW q \in 0 .. Pow2[l - 1] - 1,
         p = i * (2 * Pow2[l - (w + 1)]) + d, q = p + Pow2[l - (w + 1)],
         Forward(f, x, l, w, D), p \notin D, q \notin D,
         LET s == fpr_gm_tab[Pow2[w] + i]
             X == At(f, Pow2[l - 1], p)
             Y == FPC_MUL(At(f, Pow2[l - 1], q), s)
         IN  Stores(g, f, l, p, FPC_ADD(X, Y), q, FPC_SUB(X, Y))
  PROVE  Forward(g, x, l, w, D \cup {p, q})
<1> DEFINE h == Pow2[l - (w + 1)]
           s == fpr_gm_tab[Pow2[w] + i]
           X == At(f, Pow2[l - 1], p)
           Y == At(f, Pow2[l - 1], q)
<1>1. Pow2[l - w] = 2 * h /\ h \in Nat /\ h >= 1
  <2>1. l - w \in 1 .. LogMax /\ (l - w) - 1 = l - (w + 1) /\ l - (w + 1) \in 0 .. LogMax
    BY Pow2Assumption
  <2> QED
    BY <2>1, Pow2Facts
<1>2. X = Remainder(x, l, 2 * h, p) /\ Y = Remainder(x, l, 2 * h, q)
  BY <1>1, Zenon DEF Forward
<1>3. /\ Remainder(x, l, h, p) = FPC_ADD(X, FPC_MUL(Y, s))
      /\ Remainder(x, l, h, q) = FPC_SUB(X, FPC_MUL(Y, s))
  <2> DEFINE pp == i * (2 * h) + d
  <2>1. pp = p /\ pp + h = q
    OBVIOUS
  <2>2. LET X1 == Remainder(x, l, 2 * h, pp)
            Y1 == Remainder(x, l, 2 * h, pp + h)
        IN  /\ Remainder(x, l, h, pp) = FPC_ADD(X1, FPC_MUL(s, Y1))
            /\ Remainder(x, l, h, pp + h) = FPC_SUB(X1, FPC_MUL(s, Y1))
            /\ FPC_MUL(s, Y1) = FPC_MUL(Y1, s)
    BY ButterflyRemainders
  <2> HIDE DEF pp, h, X, Y, s
  <2> QED
    BY <1>2, <2>1, <2>2
<1>4. /\ At(g, Pow2[l - 1], p) = FPC_ADD(X, FPC_MUL(Y, s))
      /\ At(g, Pow2[l - 1], q) = FPC_SUB(X, FPC_MUL(Y, s))
      /\ \A k \in 0 .. Pow2[l - 1] - 1 :
           k # p /\ k # q => At(g, Pow2[l - 1], k) = At(f, Pow2[l - 1], k)
  BY Zenon DEF Stores
<1> HIDE DEF X, Y, s
<1>5. ASSUME NEW k \in 0 .. Pow2[l - 1] - 1
      PROVE  At(g, Pow2[l - 1], k) =
               Remainder(x, l, IF k \in D \cup {p, q} THEN Pow2[l - (w + 1)] ELSE Pow2[l - w], k)
  <2>1. CASE k = p
    BY <1>3, <1>4, <2>1, Zenon
  <2>2. CASE k = q
    BY <1>3, <1>4, <2>2, Zenon
  <2>3. CASE k # p /\ k # q
    <3>1. k \in D <=> k \in D \cup {p, q}
      BY <2>3
    <3>2. At(f, Pow2[l - 1], k) =
            Remainder(x, l, IF k \in D THEN Pow2[l - (w + 1)] ELSE Pow2[l - w], k)
      BY DEF Forward
    <3> QED
      BY <1>4, <2>3, <3>1, <3>2, Zenon
  <2> QED
    BY <2>1, <2>2, <2>3
<1> QED
  BY <1>5, Zenon DEF Forward

(* A butterfly of iFFT adds its two slots to D.                            *)
LEMMA BackwardStep ==
  ASSUME NEW l \in 1 .. LogMax, NEW w \in 0 .. l - 1, NEW x \in Poly(l),
         NEW i \in 0 .. Pow2[w] - 1, NEW d \in 0 .. Pow2[l - (w + 1)] - 1,
         NEW f, NEW g, NEW D, NEW p \in 0 .. Pow2[l - 1] - 1, NEW q \in 0 .. Pow2[l - 1] - 1,
         p = i * (2 * Pow2[l - (w + 1)]) + d, q = p + Pow2[l - (w + 1)],
         Backward(f, x, l, w, D), p \notin D, q \notin D,
         LET s == Conj(fpr_gm_tab[Pow2[w] + i])
             X == At(f, Pow2[l - 1], p)
             Y == At(f, Pow2[l - 1], q)
         IN  Stores(g, f, l, p, FPC_ADD(X, Y), q, FPC_MUL(FPC_SUB(X, Y), s))
  PROVE  Backward(g, x, l, w, D \cup {p, q})
<1> DEFINE h == Pow2[l - (w + 1)]
           s == fpr_gm_tab[Pow2[w] + i]
           X == At(f, Pow2[l - 1], p)
           Y == At(f, Pow2[l - 1], q)
           U == Remainder(x, l, 2 * h, p)
           V == Remainder(x, l, 2 * h, q)
           T == FPC_MUL(s, V)
<1>1. Pow2[l - w] = 2 * h /\ h \in Nat /\ h >= 1
  <2>1. l - w \in 1 .. LogMax /\ (l - w) - 1 = l - (w + 1) /\ l - (w + 1) \in 0 .. LogMax
    BY Pow2Assumption
  <2> QED
    BY <2>1, Pow2Facts
<1>2. X = Scale(h, Remainder(x, l, h, p)) /\ Y = Scale(h, Remainder(x, l, h, q))
  BY Zenon DEF Backward
<1>3. /\ Remainder(x, l, h, p) = FPC_ADD(U, T)
      /\ Remainder(x, l, h, q) = FPC_SUB(U, T)
      /\ U \in Complex /\ V \in Complex /\ s \in Complex /\ FPC_MUL(s, Conj(s)) = One
  <2> DEFINE pp == i * (2 * h) + d
  <2>1. pp = p /\ pp + h = q
    OBVIOUS
  <2>2. LET X1 == Remainder(x, l, 2 * h, pp)
            Y1 == Remainder(x, l, 2 * h, pp + h)
        IN  /\ X1 \in Complex /\ Y1 \in Complex /\ s \in Complex /\ FPC_MUL(s, Conj(s)) = One
            /\ Remainder(x, l, h, pp) = FPC_ADD(X1, FPC_MUL(s, Y1))
            /\ Remainder(x, l, h, pp + h) = FPC_SUB(X1, FPC_MUL(s, Y1))
    BY ButterflyRemainders
  <2> HIDE DEF pp, h, s
  <2> QED
    BY <2>1, <2>2
<1>4. /\ At(g, Pow2[l - 1], p) = FPC_ADD(X, Y)
      /\ At(g, Pow2[l - 1], q) = FPC_MUL(FPC_SUB(X, Y), Conj(s))
      /\ \A k \in 0 .. Pow2[l - 1] - 1 :
           k # p /\ k # q => At(g, Pow2[l - 1], k) = At(f, Pow2[l - 1], k)
  BY Zenon DEF Stores
<1>5. /\ FPC_ADD(X, Y) = Scale(2 * h, U)
      /\ FPC_MUL(FPC_SUB(X, Y), Conj(s)) = Scale(2 * h, V)
  <2>1. X = Scale(h, FPC_ADD(U, FPC_MUL(s, V))) /\ Y = Scale(h, FPC_SUB(U, FPC_MUL(s, V)))
    BY <1>2, <1>3, Zenon
  <2>2. U \in Pair
    BY <1>3, Closed
  <2> HIDE DEF X, Y, s, U, V, T, h
  <2>3. /\ FPC_ADD(Scale(h, FPC_ADD(U, FPC_MUL(s, V))), Scale(h, FPC_SUB(U, FPC_MUL(s, V)))) =
             Scale(2 * h, U)
        /\ FPC_MUL(FPC_SUB(Scale(h, FPC_ADD(U, FPC_MUL(s, V))), Scale(h, FPC_SUB(U, FPC_MUL(s, V)))),
                   Conj(s)) = Scale(2 * h, V)
    BY <1>1, <1>3, <2>2, Undo
  <2> QED
    BY <2>1, <2>3, Zenon
<1>6. /\ At(g, Pow2[l - 1], p) = Scale(2 * h, Remainder(x, l, 2 * h, p))
      /\ At(g, Pow2[l - 1], q) = Scale(2 * h, Remainder(x, l, 2 * h, q))
  BY <1>4, <1>5, Zenon
<1> HIDE DEF X, Y, s, T, U, V
<1>7. ASSUME NEW k \in 0 .. Pow2[l - 1] - 1
      PROVE  LET size == IF k \in D \cup {p, q} THEN Pow2[l - w] ELSE Pow2[l - (w + 1)]
             IN  At(g, Pow2[l - 1], k) = Scale(size, Remainder(x, l, size, k))
  <2>1. CASE k = p
    BY <1>1, <1>6, <2>1, Zenon
  <2>2. CASE k = q
    BY <1>1, <1>6, <2>2, Zenon
  <2>3. CASE k # p /\ k # q
    <3>1. k \in D <=> k \in D \cup {p, q}
      BY <2>3
    <3>2. LET size == IF k \in D THEN Pow2[l - w] ELSE Pow2[l - (w + 1)]
          IN  At(f, Pow2[l - 1], k) = Scale(size, Remainder(x, l, size, k))
      BY DEF Backward
    <3> QED
      BY <1>4, <2>3, <3>1, <3>2, Zenon
  <2> QED
    BY <2>1, <2>2, <2>3
<1> QED
  BY <1>7, Zenon DEF Backward

(***************************************************************************)
(* The slots a stage has done: all before the block that begins at p, and  *)
(* in both its halves of h slots those before q.                           *)
(***************************************************************************)
Done(p, q, h) == {s \in Nat : s < q \/ (p + h <= s /\ s < q + h)}

(* In the terms of the loops: which slots are done, that the butterfly's   *)
(* own are not, and what the next butterfly or the end of the block makes  *)
(* of them.                                                                *)
LEMMA DoneSlots ==
  ASSUME NEW h \in Nat, h >= 1, NEW i \in Nat, NEW p \in Nat, p = i * (2 * h),
         NEW q \in Nat, p <= q, q < p + h
  PROVE  /\ \A s \in Nat : s \in Done(p, q, h) <=> (s < p \/ (s < p + 2 * h /\ s % h < q - p))
         /\ q \notin Done(p, q, h) /\ q + h \notin Done(p, q, h)
         /\ q + 1 < p + h => Done(p, q + 1, h) = Done(p, q, h) \cup {q, q + h}
         /\ ~ (q + 1 < p + h) =>
              Done(p, q, h) \cup {q, q + h} = {s \in Nat : s < p + 2 * h}
<1>1. ASSUME NEW s \in Nat
      PROVE  s \in Done(p, q, h) <=> (s < p \/ (s < p + 2 * h /\ s % h < q - p))
  <2>1. CASE s < p
    BY <2>1 DEF Done
  <2>2. CASE p <= s /\ s < p + h
    <3> DEFINE e == s - p
               k == 2 * i
    <3>1. e \in 0 .. h - 1 /\ k \in Int /\ p = k * h /\ s = p + e /\ h > 0
      BY <2>2
    <3> HIDE DEF e, k
    <3>2. (k * h + e) % h = e
      BY <3>1, DivModUnique
    <3>3. s % h = e
      BY <3>1, <3>2, Zenon
    <3> QED
      BY <2>2, <3>1, <3>3 DEF Done
  <2>3. CASE p + h <= s /\ s < p + 2 * h
    <3> DEFINE e == s - (p + h)
               k == 2 * i + 1
    <3>1. e \in 0 .. h - 1 /\ k \in Int /\ p + h = k * h /\ s = (p + h) + e /\ h > 0
      BY <2>3
    <3> HIDE DEF e, k
    <3>2. (k * h + e) % h = e
      BY <3>1, DivModUnique
    <3>3. s % h = e
      BY <3>1, <3>2, Zenon
    <3> QED
      BY <2>3, <3>1, <3>3 DEF Done
  <2>4. CASE p + 2 * h <= s
    BY <2>4 DEF Done
  <2> QED
    BY <2>1, <2>2, <2>3, <2>4
<1>2. q \notin Done(p, q, h) /\ q + h \notin Done(p, q, h)
  BY DEF Done
<1>3. ASSUME q + 1 < p + h
      PROVE  Done(p, q + 1, h) = Done(p, q, h) \cup {q, q + h}
  <2>1. \A s \in Nat : (s < q + 1 \/ (p + h <= s /\ s < (q + 1) + h)) <=>
                       (s < q \/ (p + h <= s /\ s < q + h) \/ s = q \/ s = q + h)
    OBVIOUS
  <2> QED
    BY <2>1 DEF Done
<1>4. ASSUME ~ (q + 1 < p + h)
      PROVE  Done(p, q, h) \cup {q, q + h} = {s \in Nat : s < p + 2 * h}
  <2>1. \A s \in Nat : s < p + 2 * h <=>
                       (s < q \/ (p + h <= s /\ s < q + h) \/ s = q \/ s = q + h)
    BY <1>4
  <2> QED
    BY <2>1 DEF Done
<1> QED
  BY <1>1, <1>2, <1>3, <1>4

(* At the beginning of a block, the slots before it.                       *)
LEMMA DoneStart ==
  ASSUME NEW h \in Nat, NEW p \in Nat
  PROVE  Done(p, p, h) = {s \in Nat : s < p}
BY DEF Done

(***************************************************************************)
(* From stage to stage: a conversion leaves the operand at stage 1; a      *)
(* stage that is done is the next one; at the last stage the pointwise     *)
(* product goes over to the product polynomial; the first stage of the     *)
(* product, scaled, is the product.                                        *)
(***************************************************************************)
LEMMA SlotSizes ==
  ASSUME NEW l \in 1 .. LogMax
  PROVE  /\ Pow2[l - 1] \in Nat /\ Pow2[l - 1] >= 1 /\ Pow2[l] = 2 * Pow2[l - 1]
         /\ l \in 0 .. LogMax /\ l \in 0 .. l /\ 1 \in 0 .. l /\ l \in Nat
         /\ l - l = 0 /\ Pow2[0] = 1 /\ (l - 1) + 1 = l
<1>1. /\ l - 1 \in 0 .. LogMax /\ l \in 0 .. LogMax /\ l \in 0 .. l /\ 1 \in 0 .. l
      /\ l - l = 0 /\ (l - 1) + 1 = l /\ l \in Nat
  BY Pow2Assumption
<1> QED
  BY <1>1, Pow2Facts, Pow2Assumption

(* At stage 1 a slot holds the operand's two coefficients as they are.     *)
LEMMA FirstStage ==
  ASSUME NEW l \in 1 .. LogMax, NEW x \in Poly(l), NEW s \in 0 .. Pow2[l - 1] - 1
  PROVE  Remainder(x, l, Pow2[l - 1], s) = At(x, Pow2[l - 1], s)
<1>1. Pow2[l - 1] \in Nat /\ s \in Nat /\ 1 \in 0 .. l /\ l \in 0 .. LogMax
  BY SlotSizes
<1>2. Remainder(x, l, Pow2[l - 1], 0 * Pow2[l - 1] + s) = Block(x, l, 1, 0, s)
  BY <1>1, BlockRemainder
<1>3. 0 * Pow2[l - 1] + s = s
  BY <1>1
<1>4. Block(x, l, 1, 0, s) = <<x[s], x[s + Pow2[l - 1]]>>
  BY BlockFirst
<1> QED
  BY <1>2, <1>3, <1>4, Zenon DEF At

(* So the converted operand is at stage 1.                                 *)
LEMMA ForwardBegins ==
  ASSUME NEW l \in 1 .. LogMax, NEW x \in Poly(l)
  PROVE  Forward(x, x, l, 1, {})
BY FirstStage DEF Forward

(* When all slots are done the array is at the next stage.                 *)
LEMMA ForwardGoesOn ==
  ASSUME NEW f, NEW x, NEW l, NEW w, NEW D, Forward(f, x, l, w, D),
         0 .. Pow2[l - 1] - 1 \subseteq D
  PROVE  Forward(f, x, l, w + 1, {})
BY DEF Forward

(* The same for iFFT.                                                      *)
LEMMA BackwardGoesOn ==
  ASSUME NEW f, NEW x, NEW l, NEW w \in Nat, NEW D, Backward(f, x, l, w, D),
         0 .. Pow2[l - 1] - 1 \subseteq D
  PROVE  Backward(f, x, l, w - 1, {})
<1>1. (w - 1) + 1 = w
  OBVIOUS
<1> QED
  BY <1>1 DEF Backward

(* At the last stage a slot holds a value.                                 *)
LEMMA LastStage ==
  ASSUME NEW l \in 1 .. LogMax, NEW x \in Poly(l), NEW s \in 0 .. Pow2[l - 1] - 1
  PROVE  /\ Remainder(x, l, 1, s) = Block(x, l, l, s, 0)
         /\ Remainder(x, l, 1, s) \in Complex
<1>1. /\ s \in Nat /\ l \in 0 .. l /\ l \in 0 .. LogMax /\ l - l = 0 /\ Pow2[0] = 1
      /\ 0 \in 0 .. Pow2[l - l] - 1
  <2>1. /\ l \in 0 .. l /\ l \in 0 .. LogMax /\ l - l = 0 /\ Pow2[0] = 1 /\ Pow2[l - 1] \in Nat
    BY SlotSizes
  <2> QED
    BY <2>1
<1>2. Remainder(x, l, Pow2[l - l], s * Pow2[l - l] + 0) = Block(x, l, l, s, 0)
  BY <1>1, BlockRemainder
<1>3. s * Pow2[l - l] + 0 = s /\ Pow2[l - l] = 1
  BY <1>1
<1>4. Block(x, l, l, s, 0) \in Complex
  BY <1>1, BlockType
<1> QED
  BY <1>2, <1>3, <1>4, Zenon

(* The product of two arrays at the last stage is the product's.           *)
LEMMA PointwiseProduct ==
  ASSUME NEW l \in 1 .. LogMax, NEW a \in Poly(l), NEW b \in Poly(l), NEW f, NEW g, NEW h,
         Forward(f, a, l, l, {}), Forward(g, b, l, l, {}),
         \A s \in 0 .. Pow2[l - 1] - 1 :
           At(h, Pow2[l - 1], s) = FPC_MUL(At(f, Pow2[l - 1], s), At(g, Pow2[l - 1], s))
  PROVE  Backward(h, SchoolbookMul(a, b, l), l, l - 1, {})
<1> DEFINE c == SchoolbookMul(a, b, l)
<1>0. l \in 0 .. LogMax /\ l - l = 0 /\ Pow2[0] = 1 /\ (l - 1) + 1 = l /\ Pow2[l - 1] \in Nat
  BY SlotSizes
<1>1. c \in Poly(l)
  BY <1>0, SchoolbookType
<1>2. ASSUME NEW s \in 0 .. Pow2[l - 1] - 1
      PROVE  At(h, Pow2[l - 1], s) = Scale(1, Remainder(c, l, 1, s))
  <2> DEFINE A == Block(a, l, l, s, 0)
             B == Block(b, l, l, s, 0)
             C == Block(c, l, l, s, 0)
  <2>1. At(f, Pow2[l - 1], s) = A /\ At(g, Pow2[l - 1], s) = B
    <3>1. At(f, Pow2[l - 1], s) = Remainder(a, l, 1, s)
      BY <1>0 DEF Forward
    <3>2. At(g, Pow2[l - 1], s) = Remainder(b, l, 1, s)
      BY <1>0 DEF Forward
    <3> QED
      BY <3>1, <3>2, LastStage
  <2>2. s \in Nat
    BY <1>0
  <2>3. C = FPC_MUL(A, B)
    BY <1>0, <2>2, BlockProduct
  <2>4. Remainder(c, l, 1, s) = C /\ C \in Complex
    <3> HIDE DEF c
    <3> QED
      BY <1>1, LastStage
  <2> HIDE DEF A, B, C, c
  <2>5. Scale(1, C) = C
    <3>1. C[1] \in Residue /\ C[2] \in Residue /\ C = <<C[1], C[2]>>
      BY <2>4 DEF Complex
    <3>2. (1 * C[1]) % P = C[1] /\ (1 * C[2]) % P = C[2]
      BY <3>1, PFacts DEF Residue
    <3> QED
      BY <3>1, <3>2, Zenon DEF Scale
  <2> QED
    BY <2>1, <2>3, <2>4, <2>5
<1> HIDE DEF c
<1>3. Backward(h, c, l, l - 1, {})
  BY <1>0, <1>2 DEF Backward
<1> QED
  BY <1>3 DEF c

(* The array at stage 1, scaled by fpr_p2_tab, is the polynomial.          *)
LEMMA FinalScaling ==
  ASSUME NEW l \in 1 .. LogMax, NEW x \in Poly(l), NEW f \in Poly(l),
         Backward(f, x, l, 0, {}), NEW v \in 0 .. Pow2[l] - 1
  PROVE  (f[v] * fpr_p2_tab[l]) % P = x[v]
<1> DEFINE h == Pow2[l - 1]
           s == IF v < h THEN v ELSE v - h
<1>0. h \in Nat /\ h >= 1 /\ Pow2[l] = 2 * h /\ l - (0 + 1) = l - 1
  BY SlotSizes
<1>1. v \in 0 .. 2 * h - 1
  BY <1>0
<1>2. \A k \in 0 .. h - 1 : /\ At(f, h, k) = Scale(h, Remainder(x, l, h, k))
                            /\ Remainder(x, l, h, k) = At(x, h, k)
  BY <1>0, FirstStage DEF Backward
<1>3. x[v] \in Residue
  BY DEF Poly
<1>4. (((h * x[v]) % P) * fpr_p2_tab[l]) % P = x[v]
  BY <1>3, Unscale
<1> HIDE DEF h
<1>5. s \in 0 .. h - 1 /\ (v = s \/ v = s + h)
  BY <1>0, <1>1
<1> HIDE DEF s
<1>6. At(f, h, s) = Scale(h, At(x, h, s))
  BY <1>2, <1>5
<1>7. f[s] = (h * x[s]) % P /\ f[s + h] = (h * x[s + h]) % P
  BY <1>6 DEF At, Scale
<1>8. f[v] = (h * x[v]) % P
  BY <1>5, <1>7
<1> QED
  BY <1>4, <1>8, Zenon

-----------------------------------------------------------------------------
(***************************************************************************)
(* The cyclic transform of myfft.c: the blocks of fft.c, each twisted by   *)
(* the powers of its own evaluation point.  What its butterflies, its      *)
(* first twist and its last untwist do to them.                            *)
(***************************************************************************)
(***************************************************************************)
(* Block i of stage v, twisted: the coefficient of degree d times x0^d,    *)
(* where x0 = exp(i*Point) is the evaluation point of its first slot.      *)
(***************************************************************************)
Point(l, v, i) == (2 * Rev(i, v) + 1) * Pow2[LogMax - l]

TwistedBlock(x, l, v, i, d) == FPC_MUL(Exp(d * Point(l, v, i)), Block(x, l, v, i, d))

(* The same by size and slot, as TwistedRemainder has it, for any l.       *)
Twist(x, l, size, s) ==
  FPC_MUL(Exp((s - BlockStart(size, s)) * PointExponent(l, BlockStart(size, s))),
          Remainder(x, l, size, s))

(* From the points of a stage to those of the next: the upper half of a    *)
(* block is turned.                                                        *)
LEMMA PointFacts ==
  ASSUME NEW l \in 1 .. LogMax, NEW v \in 0 .. l - 1, NEW i \in Nat
  PROVE  /\ Point(l, v, i) \in Nat
         /\ Point(l, v + 1, 2 * i) = Point(l, v, i)
         /\ Pow2[v + 1] * Pow2[LogMax - l] \in Nat
         /\ Point(l, v + 1, 2 * i + 1) = Point(l, v, i) + Pow2[v + 1] * Pow2[LogMax - l]
         /\ Pow2[l - (v + 1)] * Point(l, v, i) = Angle(v + 1, 2 * i)
<1> DEFINE r == Rev(i, v)
           q == Pow2[LogMax - l]
           h == Pow2[l - (v + 1)]
           z == Pow2[v]
<1>0. /\ v \in Nat /\ v + 1 <= LogMax /\ v <= LogMax /\ v + 1 \in 1 .. LogMax /\ (v + 1) - 1 = v
      /\ v \in 0 .. LogMax /\ LogMax - l \in 0 .. LogMax /\ l - (v + 1) \in 0 .. LogMax
      /\ l - (v + 1) \in Nat /\ LogMax - l \in Nat
      /\ (l - (v + 1)) + (LogMax - l) = LogMax - (v + 1)
      /\ (l - (v + 1)) + (LogMax - l) <= LogMax
  BY Pow2Assumption
<1>1. q \in Nat /\ h \in Nat /\ z \in Nat /\ Pow2[v + 1] = 2 * z
  <2>1. Pow2[v + 1] = 2 * Pow2[(v + 1) - 1]
    BY <1>0, Pow2Facts
  <2> QED
    BY <1>0, <2>1, Pow2Facts
<1>2. r \in Nat /\ Rev(2 * i, v + 1) = r /\ Rev(2 * i + 1, v + 1) = z + r
  <2>1. /\ v <= LogMax => Rev(i, v) \in Nat
        /\ v + 1 <= LogMax => /\ Rev(2 * i, v + 1) = Rev(i, v)
                              /\ Rev(2 * i + 1, v + 1) = Pow2[v] + Rev(i, v)
    BY <1>0, RevBlocks
  <2> QED
    BY <1>0, <2>1
<1>3. Pow2[LogMax - (v + 1)] = h * q
  <2> DEFINE x == l - (v + 1)
             y == LogMax - l
  <2>1. x \in Nat /\ y \in Nat /\ x + y = LogMax - (v + 1) /\ x + y <= LogMax
    BY <1>0
  <2> HIDE DEF x, y
  <2>2. \A k \in Nat : x + k <= LogMax => Pow2[x + k] = Pow2[x] * Pow2[k]
    BY <2>1, Pow2Add
  <2>3. Pow2[x + y] = Pow2[x] * Pow2[y]
    BY <2>1, <2>2
  <2> QED
    BY <2>1, <2>3 DEF x, y
<1>4. /\ Point(l, v, i) = (2 * r + 1) * q
      /\ Point(l, v + 1, 2 * i) = (2 * r + 1) * q
      /\ Point(l, v + 1, 2 * i + 1) = (2 * (z + r) + 1) * q
      /\ Angle(v + 1, 2 * i) = (2 * r + 1) * (h * q)
  BY <1>2, <1>3 DEF Point, Angle
<1> HIDE DEF r, q, h, z
<1>5. /\ (2 * r + 1) * q \in Nat /\ (2 * z) * q \in Nat
      /\ (2 * (z + r) + 1) * q = (2 * r + 1) * q + (2 * z) * q
      /\ h * ((2 * r + 1) * q) = (2 * r + 1) * (h * q)
  BY <1>1, <1>2
<1> QED
  BY <1>1, <1>4, <1>5, Zenon DEF h, q

(* The two ways to name a twisted coefficient.                             *)
LEMMA TwistBlock ==
  ASSUME NEW x, NEW l \in 0 .. LogMax, NEW v \in 0 .. l, NEW i \in Nat,
         NEW d \in 0 .. Pow2[l - v] - 1
  PROVE  Twist(x, l, Pow2[l - v], i * Pow2[l - v] + d) = TwistedBlock(x, l, v, i, d)
<1> DEFINE size == Pow2[l - v]
           s == i * size + d
<1>1. /\ size \in Nat /\ size >= 1 /\ v \in Nat /\ l \in Nat /\ l - v \in Nat /\ v <= LogMax
  BY BlockSizes
<1>2. BlockStart(size, s) = i * size /\ s - i * size = d
  <2> HIDE DEF size
  <2>1. i \in Int /\ size > 0 /\ d \in 0 .. size - 1 /\ size \in Nat
    BY <1>1 DEF size
  <2>2. (i * size + d) \div size = i
    BY <2>1, DivModUnique
  <2> QED
    BY <2>1, <2>2 DEF BlockStart
<1>3. Rev(i * size, l) = Rev(i, v)
  <2> DEFINE w == l - v
  <2>1. w \in Nat /\ w + v = l /\ w + v <= LogMax
    BY <1>1, Pow2Assumption
  <2> HIDE DEF w
  <2>2. \A u \in Nat : u + v <= LogMax => Rev(i * Pow2[u], u + v) = Rev(i, v)
    BY <1>1, RevBlocks
  <2>3. Rev(i * Pow2[w], w + v) = Rev(i, v)
    BY <2>1, <2>2
  <2> QED
    BY <2>1, <2>3 DEF w
<1>4. PointExponent(l, i * size) = Point(l, v, i)
  BY <1>3 DEF PointExponent, RootExponent, Point
<1>5. Remainder(x, l, size, s) = Block(x, l, v, i, d)
  BY BlockRemainder
<1> HIDE DEF size, s
<1>6. Twist(x, l, size, s) = TwistedBlock(x, l, v, i, d)
  BY <1>2, <1>4, <1>5, Zenon DEF Twist, TwistedBlock
<1> QED
  BY <1>6 DEF size, s

(***************************************************************************)
(* The butterfly of myfft.c, A' = A + B, B' = (A - B)*w: the halves of the *)
(* next stage, each twisted by its own point.                              *)
(***************************************************************************)
LEMMA TwistedSplit ==
  ASSUME NEW l \in 1 .. LogMax, NEW v \in 0 .. l - 1, NEW x \in Poly(l),
         NEW i \in Nat, NEW d \in 0 .. Pow2[l - (v + 1)] - 1
  PROVE  LET h == Pow2[l - (v + 1)]
             w == Exp(d * (Pow2[v + 1] * Pow2[LogMax - l]))
             X == TwistedBlock(x, l, v, i, d)
             Y == TwistedBlock(x, l, v, i, d + h)
         IN  /\ TwistedBlock(x, l, v + 1, 2 * i, d) = FPC_ADD(X, Y)
             /\ TwistedBlock(x, l, v + 1, 2 * i + 1, d) = FPC_MUL(FPC_SUB(X, Y), w)
             /\ X \in Complex /\ Y \in Complex /\ w \in Complex /\ FPC_MUL(w, Conj(w)) = One
<1> DEFINE h == Pow2[l - (v + 1)]
           g == Pow2[v + 1] * Pow2[LogMax - l]
           r == Point(l, v, i)
           w == Exp(d * g)
           e == Exp(d * r)
           s == Exp(Angle(v + 1, 2 * i))
           a == Block(x, l, v, i, d)
           b == Block(x, l, v, i, d + h)
           sb == FPC_MUL(s, b)
           X == TwistedBlock(x, l, v, i, d)
           Y == TwistedBlock(x, l, v, i, d + h)
<1>0. /\ l \in 0 .. LogMax /\ v \in 0 .. l /\ l - (v + 1) \in 0 .. LogMax
  BY Pow2Assumption
<1>1. h \in Nat /\ d \in Nat /\ d + h \in Nat
  BY <1>0, Pow2Facts
<1>2. /\ r \in Nat /\ g \in Nat /\ Point(l, v + 1, 2 * i) = r
      /\ Point(l, v + 1, 2 * i + 1) = r + g /\ h * r = Angle(v + 1, 2 * i)
  BY PointFacts
<1>3. /\ Block(x, l, v + 1, 2 * i, d) = FPC_ADD(a, sb)
      /\ Block(x, l, v + 1, 2 * i + 1, d) = FPC_SUB(a, sb)
      /\ s \in Pair /\ a \in Pair /\ b \in Pair
  BY <1>0, BlockSplit
<1> HIDE DEF h, g, r, a, b
<1>4. /\ d * g \in Nat /\ d * r \in Nat /\ h * r \in Nat
      /\ (d + h) * r = d * r + h * r /\ d * (r + g) = d * r + d * g
  BY <1>1, <1>2
<1>5. /\ Exp((d + h) * r) = FPC_MUL(e, s)
      /\ Exp(d * (r + g)) = FPC_MUL(e, w)
      /\ e \in Pair /\ w \in Pair /\ w \in Complex /\ FPC_MUL(w, Conj(w)) = One
  <2> DEFINE dr == d * r
             dg == d * g
             hr == h * r
  <2>1. dr \in Nat /\ dg \in Nat /\ hr \in Nat
    BY <1>4
  <2> HIDE DEF dr, dg, hr
  <2>2. Exp(dr + hr) = FPC_MUL(Exp(dr), Exp(hr)) /\ Exp(dr + dg) = FPC_MUL(Exp(dr), Exp(dg))
    BY <2>1, ExpAdd
  <2>3. /\ Exp(dr) \in Pair /\ Exp(dg) \in Pair /\ Exp(dg) \in Complex
        /\ FPC_MUL(Exp(dg), Conj(Exp(dg))) = One
    BY <2>1, ExpSpecial, ExpNorm
  <2> QED
    BY <1>2, <1>4, <2>2, <2>3, Zenon DEF dr, dg, hr
<1>6. X = FPC_MUL(e, a) /\ Y = FPC_MUL(FPC_MUL(e, s), b)
  BY <1>5, Zenon DEF TwistedBlock, r, a, b
<1>7. /\ TwistedBlock(x, l, v + 1, 2 * i, d) = FPC_MUL(e, FPC_ADD(a, sb))
      /\ TwistedBlock(x, l, v + 1, 2 * i + 1, d) = FPC_MUL(FPC_MUL(e, w), FPC_SUB(a, sb))
  BY <1>2, <1>3, <1>5, Zenon DEF TwistedBlock
<1> HIDE DEF e, w, s, sb
<1>8. sb = FPC_MUL(s, b) /\ sb \in Pair
  <2>1. sb = FPC_MUL(s, b)
    BY DEF sb
  <2> QED
    BY <1>3, <2>1, Closed
<1> HIDE DEF X, Y
<1>9. Y = FPC_MUL(e, sb)
  BY <1>3, <1>5, <1>6, <1>8, MulAssoc
<1>10. X \in Complex /\ Y \in Complex /\ X \in Pair /\ Y \in Pair
  BY <1>3, <1>5, <1>6, <1>8, <1>9, Closed
<1>11. FPC_MUL(e, FPC_ADD(a, sb)) = FPC_ADD(X, Y) /\ FPC_MUL(e, FPC_SUB(a, sb)) = FPC_SUB(X, Y)
  BY <1>3, <1>5, <1>6, <1>8, <1>9, Distribute
<1>12. FPC_MUL(FPC_MUL(e, w), FPC_SUB(a, sb)) = FPC_MUL(FPC_SUB(X, Y), w)
  <2> DEFINE z == FPC_SUB(a, sb)
  <2>1. z \in Pair
    BY <1>3, <1>8, Closed
  <2> HIDE DEF z
  <2>2. FPC_MUL(FPC_MUL(e, w), z) = FPC_MUL(FPC_MUL(w, e), z)
    BY <1>5, MulComm
  <2>3. FPC_MUL(FPC_MUL(w, e), z) = FPC_MUL(w, FPC_MUL(e, z))
    BY <1>5, <2>1, MulAssoc
  <2>4. FPC_MUL(e, z) = FPC_SUB(X, Y) /\ FPC_SUB(X, Y) \in Pair
    BY <1>10, <1>11, Closed DEF z
  <2>5. FPC_MUL(w, FPC_SUB(X, Y)) = FPC_MUL(FPC_SUB(X, Y), w)
    BY <1>5, <2>4, MulComm
  <2> QED
    BY <2>2, <2>3, <2>4, <2>5, Zenon DEF z
<1> QED
  BY <1>5, <1>7, <1>10, <1>11, <1>12, Zenon DEF w, X, Y, h, g

(* A butterfly of myfft.c, on the slots: p and p + h of block i of stage v. *)
LEMMA TwistedButterfly ==
  ASSUME NEW l \in 1 .. LogMax, NEW v \in 0 .. l - 1, NEW x \in Poly(l),
         NEW i \in Nat, NEW d \in 0 .. Pow2[l - (v + 1)] - 1
  PROVE  LET h == Pow2[l - (v + 1)]
             p == i * (2 * h) + d
             w == Exp(d * (Pow2[v + 1] * Pow2[LogMax - l]))
             X == Twist(x, l, 2 * h, p)
             Y == Twist(x, l, 2 * h, p + h)
         IN  /\ X \in Complex /\ Y \in Complex /\ w \in Complex /\ FPC_MUL(w, Conj(w)) = One
             /\ Twist(x, l, h, p) = FPC_ADD(X, Y)
             /\ Twist(x, l, h, p + h) = FPC_MUL(FPC_SUB(X, Y), w)
<1> DEFINE h == Pow2[l - (v + 1)]
           p == i * (2 * h) + d
           w == Exp(d * (Pow2[v + 1] * Pow2[LogMax - l]))
           X == Twist(x, l, 2 * h, p)
           Y == Twist(x, l, 2 * h, p + h)
           vv == v + 1
<1>0. /\ l \in 0 .. LogMax /\ v \in 0 .. l /\ vv \in 0 .. l /\ vv = v + 1
      /\ l - v \in 1 .. LogMax /\ (l - v) - 1 = l - (v + 1) /\ l - (v + 1) \in 0 .. LogMax
  BY Pow2Assumption
<1>1. h \in Nat /\ Pow2[l - v] = 2 * h
  <2>1. Pow2[l - v] = 2 * Pow2[(l - v) - 1]
    BY <1>0, Pow2Facts
  <2> QED
    BY <1>0, <2>1, Pow2Facts
<1>2. 2 * i \in Nat /\ 2 * i + 1 \in Nat /\ d \in 0 .. h - 1 /\ d \in Nat
  <2>1. d \in 0 .. h - 1
    OBVIOUS
  <2> HIDE DEF h
  <2> QED
    BY <1>1, <2>1
<1>3. d \in 0 .. Pow2[l - v] - 1 /\ d + h \in 0 .. Pow2[l - v] - 1 /\ d \in 0 .. Pow2[l - vv] - 1
      /\ h = Pow2[l - vv]
  <2> HIDE DEF h
  <2>1. d \in 0 .. 2 * h - 1 /\ d + h \in 0 .. 2 * h - 1
    BY <1>1, <1>2
  <2> QED
    BY <1>1, <2>1, <1>2 DEF h
<1>4. /\ i * (2 * h) + d = p /\ i * (2 * h) + (d + h) = p + h
      /\ (2 * i) * h + d = p /\ (2 * i + 1) * h + d = p + h
  <2> HIDE DEF h
  <2> QED
    BY <1>1, <1>2
<1>5. LET XX == TwistedBlock(x, l, v, i, d)
          YY == TwistedBlock(x, l, v, i, d + h)
      IN  /\ TwistedBlock(x, l, v + 1, 2 * i, d) = FPC_ADD(XX, YY)
          /\ TwistedBlock(x, l, v + 1, 2 * i + 1, d) = FPC_MUL(FPC_SUB(XX, YY), w)
          /\ XX \in Complex /\ YY \in Complex /\ w \in Complex /\ FPC_MUL(w, Conj(w)) = One
  BY TwistedSplit
<1> HIDE DEF vv, h, p
<1>6. X = TwistedBlock(x, l, v, i, d)
  <2>1. Twist(x, l, Pow2[l - v], i * Pow2[l - v] + d) = TwistedBlock(x, l, v, i, d)
    BY <1>0, <1>3, TwistBlock
  <2> QED
    BY <1>1, <1>4, <2>1, Zenon
<1>7. Y = TwistedBlock(x, l, v, i, d + h)
  <2> DEFINE dd == d + h
  <2>1. dd \in 0 .. Pow2[l - v] - 1
    BY <1>3
  <2> HIDE DEF dd
  <2>2. Twist(x, l, Pow2[l - v], i * Pow2[l - v] + dd) = TwistedBlock(x, l, v, i, dd)
    BY <1>0, <2>1, TwistBlock
  <2> QED
    BY <1>1, <1>4, <2>2, Zenon DEF dd
<1>8. Twist(x, l, h, p) = TwistedBlock(x, l, v + 1, 2 * i, d)
  <2> DEFINE k == 2 * i
  <2>1. k \in Nat
    BY <1>2
  <2> HIDE DEF k
  <2>2. Twist(x, l, Pow2[l - vv], k * Pow2[l - vv] + d) = TwistedBlock(x, l, vv, k, d)
    BY <1>0, <2>1, <1>3, TwistBlock
  <2> QED
    BY <1>0, <1>3, <1>4, <2>2, Zenon DEF k
<1>9. Twist(x, l, h, p + h) = TwistedBlock(x, l, v + 1, 2 * i + 1, d)
  <2> DEFINE k == 2 * i + 1
  <2>1. k \in Nat
    BY <1>2
  <2> HIDE DEF k
  <2>2. Twist(x, l, Pow2[l - vv], k * Pow2[l - vv] + d) = TwistedBlock(x, l, vv, k, d)
    BY <1>0, <2>1, <1>3, TwistBlock
  <2> QED
    BY <1>0, <1>3, <1>4, <2>2, Zenon DEF k
<1> HIDE DEF w, X, Y
<1> QED
  BY <1>5, <1>6, <1>7, <1>8, <1>9, Zenon DEF h, p, w, X, Y

(***************************************************************************)
(* The array f while my_FFT makes stage v + 1 from stage v: the slots in D *)
(* hold twisted coefficients of stage v + 1, the others of stage v.        *)
(***************************************************************************)
TwistedForward(f, x, l, v, D) ==
  \A s \in 0 .. Pow2[l - 1] - 1 :
    At(f, Pow2[l - 1], s) =
      Twist(x, l, IF s \in D THEN Pow2[l - (v + 1)] ELSE Pow2[l - v], s)

(* The other way: those in D are back at stage v, each times its size.     *)
TwistedBackward(f, x, l, v, D) ==
  \A s \in 0 .. Pow2[l - 1] - 1 :
    LET size == IF s \in D THEN Pow2[l - v] ELSE Pow2[l - (v + 1)]
    IN  At(f, Pow2[l - 1], s) = Scale(size, Twist(x, l, size, s))

(* A butterfly of my_FFT adds its two slots to D.                          *)
LEMMA TwistedForwardStep ==
  ASSUME NEW l \in 1 .. LogMax, NEW v \in 0 .. l - 1, NEW x \in Poly(l),
         NEW i \in Nat, NEW d \in 0 .. Pow2[l - (v + 1)] - 1,
         NEW f, NEW g, NEW D, NEW p \in 0 .. Pow2[l - 1] - 1, NEW q \in 0 .. Pow2[l - 1] - 1,
         p = i * (2 * Pow2[l - (v + 1)]) + d, q = p + Pow2[l - (v + 1)],
         TwistedForward(f, x, l, v, D), p \notin D, q \notin D,
         NEW w, w = Exp(d * (Pow2[v + 1] * Pow2[LogMax - l])),
         LET X == At(f, Pow2[l - 1], p)
             Y == At(f, Pow2[l - 1], q)
         IN  Stores(g, f, l, p, FPC_ADD(X, Y), q, FPC_MUL(FPC_SUB(X, Y), w))
  PROVE  TwistedForward(g, x, l, v, D \cup {p, q})
<1> DEFINE h == Pow2[l - (v + 1)]
           X == At(f, Pow2[l - 1], p)
           Y == At(f, Pow2[l - 1], q)
<1>1. Pow2[l - v] = 2 * h /\ h \in Nat /\ h >= 1
  <2>1. l - v \in 1 .. LogMax /\ (l - v) - 1 = l - (v + 1) /\ l - (v + 1) \in 0 .. LogMax
    BY Pow2Assumption
  <2> QED
    BY <2>1, Pow2Facts
<1>2. X = Twist(x, l, 2 * h, p) /\ Y = Twist(x, l, 2 * h, q)
  BY <1>1, Zenon DEF TwistedForward
<1>3. /\ Twist(x, l, h, p) = FPC_ADD(X, Y)
      /\ Twist(x, l, h, q) = FPC_MUL(FPC_SUB(X, Y), w)
  <2> DEFINE pp == i * (2 * h) + d
  <2>1. pp = p /\ pp + h = q
    OBVIOUS
  <2>2. LET X1 == Twist(x, l, 2 * h, pp)
            Y1 == Twist(x, l, 2 * h, pp + h)
        IN  /\ Twist(x, l, h, pp) = FPC_ADD(X1, Y1)
            /\ Twist(x, l, h, pp + h) = FPC_MUL(FPC_SUB(X1, Y1), w)
    BY TwistedButterfly
  <2> HIDE DEF pp, h, X, Y
  <2> QED
    BY <1>2, <2>1, <2>2
<1>4. /\ At(g, Pow2[l - 1], p) = FPC_ADD(X, Y)
      /\ At(g, Pow2[l - 1], q) = FPC_MUL(FPC_SUB(X, Y), w)
      /\ \A k \in 0 .. Pow2[l - 1] - 1 :
           k # p /\ k # q => At(g, Pow2[l - 1], k) = At(f, Pow2[l - 1], k)
  BY Zenon DEF Stores
<1> HIDE DEF X, Y
<1>5. ASSUME NEW k \in 0 .. Pow2[l - 1] - 1
      PROVE  At(g, Pow2[l - 1], k) =
               Twist(x, l, IF k \in D \cup {p, q} THEN Pow2[l - (v + 1)] ELSE Pow2[l - v], k)
  <2>1. CASE k = p
    BY <1>3, <1>4, <2>1, Zenon
  <2>2. CASE k = q
    BY <1>3, <1>4, <2>2, Zenon
  <2>3. CASE k # p /\ k # q
    <3>1. k \in D <=> k \in D \cup {p, q}
      BY <2>3
    <3>2. At(f, Pow2[l - 1], k) =
            Twist(x, l, IF k \in D THEN Pow2[l - (v + 1)] ELSE Pow2[l - v], k)
      BY DEF TwistedForward
    <3> QED
      BY <1>4, <2>3, <3>1, <3>2, Zenon
  <2> QED
    BY <2>1, <2>2, <2>3
<1> QED
  BY <1>5, Zenon DEF TwistedForward

(* A factor of norm 1 is taken out by its conjugate.                       *)
LEMMA TwistRemoved ==
  ASSUME NEW r \in Int, NEW z \in Complex, NEW w \in Complex, FPC_MUL(w, Conj(w)) = One
  PROVE  FPC_MUL(Scale(r, FPC_MUL(z, w)), Conj(w)) = Scale(r, z)
<1> DEFINE e == <<r, 0>>
           zw == FPC_MUL(z, w)
           cw == Conj(w)
<1>1. z \in Pair /\ w \in Pair /\ cw \in Pair /\ zw \in Pair /\ e \in Pair
  <2>1. z \in Pair /\ w \in Pair /\ cw \in Pair
    BY Closed, ConjMul
  <2>2. e \in Pair
    BY DEF Pair
  <2> QED
    BY <2>1, <2>2, Closed
<1>2. Scale(r, z) = FPC_MUL(e, z) /\ Scale(r, zw) = FPC_MUL(e, zw)
  BY <1>1, ScaleIsMul
<1>3. zw = FPC_MUL(z, w) /\ FPC_MUL(w, cw) = One
  OBVIOUS
<1> HIDE DEF e, zw, cw
<1>4. FPC_MUL(FPC_MUL(e, zw), cw) = FPC_MUL(e, FPC_MUL(zw, cw))
  BY <1>1, MulAssoc
<1>5. FPC_MUL(FPC_MUL(z, w), cw) = FPC_MUL(z, FPC_MUL(w, cw))
  BY <1>1, MulAssoc
<1>6. FPC_MUL(z, One) = z
  BY Units
<1> QED
  BY <1>2, <1>3, <1>4, <1>5, <1>6, Zenon DEF zw, cw

(* The butterfly of my_iFFT undoes X + Y, (X - Y)*w, |w| = 1, and doubles. *)
LEMMA TwistedUndo ==
  ASSUME NEW r \in Nat, NEW X \in Complex, NEW Y \in Complex, NEW w \in Complex,
         FPC_MUL(w, Conj(w)) = One
  PROVE  LET p == Scale(r, FPC_ADD(X, Y))
             q == Scale(r, FPC_MUL(FPC_SUB(X, Y), w))
             c == FPC_MUL(q, Conj(w))
         IN  FPC_ADD(p, c) = Scale(2 * r, X) /\ FPC_SUB(p, c) = Scale(2 * r, Y)
<1> DEFINE p == Scale(r, FPC_ADD(X, Y))
           z == FPC_SUB(X, Y)
           c == FPC_MUL(Scale(r, FPC_MUL(z, w)), Conj(w))
<1>1. X \in Pair /\ Y \in Pair /\ z \in Complex /\ z \in Pair /\ One \in Complex
  BY Closed
<1>2. c = Scale(r, z)
  <2> HIDE DEF z
  <2> QED
    BY <1>1, TwistRemoved
<1>3. Conj(One) = One /\ FPC_MUL(One, One) = One
  <2>1. (-0) % P = 0
    BY PFacts
  <2>2. Conj(One) = One
    BY <2>1 DEF Conj, One
  <2> QED
    BY <1>1, <2>2, Units
<1>4. FPC_MUL(One, Y) = Y
  BY Units
<1>5. LET p1 == Scale(r, FPC_ADD(X, FPC_MUL(One, Y)))
          q1 == Scale(r, FPC_SUB(X, FPC_MUL(One, Y)))
      IN  /\ FPC_ADD(p1, q1) = Scale(2 * r, X)
          /\ FPC_MUL(FPC_SUB(p1, q1), Conj(One)) = Scale(2 * r, Y)
  BY <1>1, <1>3, Undo
<1>6. /\ FPC_ADD(p, Scale(r, z)) = Scale(2 * r, X)
      /\ FPC_MUL(FPC_SUB(p, Scale(r, z)), One) = Scale(2 * r, Y)
  BY <1>3, <1>4, <1>5, Zenon
<1>7. FPC_MUL(FPC_SUB(p, Scale(r, z)), One) = FPC_SUB(p, Scale(r, z))
  <2> DEFINE p0 == FPC_ADD(X, Y)
             e == <<r, 0>>
  <2>1. p0 \in Pair /\ e \in Pair
    BY <1>1, Closed DEF Pair
  <2> HIDE DEF p0, z
  <2>2. Scale(r, p0) \in Pair /\ Scale(r, z) \in Pair
    BY <1>1, <2>1, ScaleIsMul, Closed
  <2>3. FPC_SUB(Scale(r, p0), Scale(r, z)) \in Complex
    BY <2>2, Closed
  <2>4. FPC_MUL(FPC_SUB(Scale(r, p0), Scale(r, z)), One) = FPC_SUB(Scale(r, p0), Scale(r, z))
    BY <2>3, Units
  <2> QED
    BY <2>4 DEF p0
<1> QED
  BY <1>2, <1>6, <1>7, Zenon

(* A butterfly of my_iFFT adds its two slots to D.                         *)
LEMMA TwistedBackwardStep ==
  ASSUME NEW l \in 1 .. LogMax, NEW v \in 0 .. l - 1, NEW x \in Poly(l),
         NEW i \in Nat, NEW d \in 0 .. Pow2[l - (v + 1)] - 1,
         NEW f, NEW g, NEW D, NEW p \in 0 .. Pow2[l - 1] - 1, NEW q \in 0 .. Pow2[l - 1] - 1,
         p = i * (2 * Pow2[l - (v + 1)]) + d, q = p + Pow2[l - (v + 1)],
         TwistedBackward(f, x, l, v, D), p \notin D, q \notin D,
         NEW w, w = Exp(d * (Pow2[v + 1] * Pow2[LogMax - l])),
         LET X == At(f, Pow2[l - 1], p)
             c == FPC_MUL(At(f, Pow2[l - 1], q), Conj(w))
         IN  Stores(g, f, l, p, FPC_ADD(X, c), q, FPC_SUB(X, c))
  PROVE  TwistedBackward(g, x, l, v, D \cup {p, q})
<1> DEFINE h == Pow2[l - (v + 1)]
           X == At(f, Pow2[l - 1], p)
           Y == At(f, Pow2[l - 1], q)
           c == FPC_MUL(Y, Conj(w))
           U == Twist(x, l, 2 * h, p)
           V == Twist(x, l, 2 * h, q)
<1>1. Pow2[l - v] = 2 * h /\ h \in Nat /\ h >= 1
  <2>1. l - v \in 1 .. LogMax /\ (l - v) - 1 = l - (v + 1) /\ l - (v + 1) \in 0 .. LogMax
    BY Pow2Assumption
  <2> QED
    BY <2>1, Pow2Facts
<1>2. X = Scale(h, Twist(x, l, h, p)) /\ Y = Scale(h, Twist(x, l, h, q))
  BY Zenon DEF TwistedBackward
<1>3. /\ Twist(x, l, h, p) = FPC_ADD(U, V)
      /\ Twist(x, l, h, q) = FPC_MUL(FPC_SUB(U, V), w)
      /\ U \in Complex /\ V \in Complex /\ w \in Complex /\ FPC_MUL(w, Conj(w)) = One
  <2> DEFINE pp == i * (2 * h) + d
  <2>1. pp = p /\ pp + h = q
    OBVIOUS
  <2>2. LET X1 == Twist(x, l, 2 * h, pp)
            Y1 == Twist(x, l, 2 * h, pp + h)
        IN  /\ X1 \in Complex /\ Y1 \in Complex /\ w \in Complex /\ FPC_MUL(w, Conj(w)) = One
            /\ Twist(x, l, h, pp) = FPC_ADD(X1, Y1)
            /\ Twist(x, l, h, pp + h) = FPC_MUL(FPC_SUB(X1, Y1), w)
    BY TwistedButterfly, ZenonT(60)
  <2> HIDE DEF pp, h
  <2> QED
    BY <2>1, <2>2
<1>4. /\ At(g, Pow2[l - 1], p) = FPC_ADD(X, c)
      /\ At(g, Pow2[l - 1], q) = FPC_SUB(X, c)
      /\ \A k \in 0 .. Pow2[l - 1] - 1 :
           k # p /\ k # q => At(g, Pow2[l - 1], k) = At(f, Pow2[l - 1], k)
  BY Zenon DEF Stores
<1>5. FPC_ADD(X, c) = Scale(2 * h, U) /\ FPC_SUB(X, c) = Scale(2 * h, V)
  <2>1. /\ X = Scale(h, FPC_ADD(U, V))
        /\ c = FPC_MUL(Scale(h, FPC_MUL(FPC_SUB(U, V), w)), Conj(w))
    BY <1>2, <1>3, Zenon
  <2> HIDE DEF X, Y, U, V, c, h
  <2>2. LET p1 == Scale(h, FPC_ADD(U, V))
            c1 == FPC_MUL(Scale(h, FPC_MUL(FPC_SUB(U, V), w)), Conj(w))
        IN  FPC_ADD(p1, c1) = Scale(2 * h, U) /\ FPC_SUB(p1, c1) = Scale(2 * h, V)
    BY <1>1, <1>3, TwistedUndo
  <2> QED
    BY <2>1, <2>2, Zenon
<1>6. /\ At(g, Pow2[l - 1], p) = Scale(2 * h, Twist(x, l, 2 * h, p))
      /\ At(g, Pow2[l - 1], q) = Scale(2 * h, Twist(x, l, 2 * h, q))
  BY <1>4, <1>5, Zenon
<1> HIDE DEF X, Y, c, U, V
<1>7. ASSUME NEW k \in 0 .. Pow2[l - 1] - 1
      PROVE  LET size == IF k \in D \cup {p, q} THEN Pow2[l - v] ELSE Pow2[l - (v + 1)]
             IN  At(g, Pow2[l - 1], k) = Scale(size, Twist(x, l, size, k))
  <2>1. CASE k = p
    BY <1>1, <1>6, <2>1, Zenon
  <2>2. CASE k = q
    BY <1>1, <1>6, <2>2, Zenon
  <2>3. CASE k # p /\ k # q
    <3>1. k \in D <=> k \in D \cup {p, q}
      BY <2>3
    <3>2. LET size == IF k \in D THEN Pow2[l - v] ELSE Pow2[l - (v + 1)]
          IN  At(f, Pow2[l - 1], k) = Scale(size, Twist(x, l, size, k))
      BY DEF TwistedBackward
    <3> QED
      BY <1>4, <2>3, <3>1, <3>2, Zenon
  <2> QED
    BY <2>1, <2>2, <2>3
<1> QED
  BY <1>7, Zenon DEF TwistedBackward

(* What the first twist multiplies by.                                     *)
Zeta(l, s) == Exp(s * Pow2[LogMax - l])

(* It is a point of the circle.                                            *)
LEMMA ZetaFacts ==
  ASSUME NEW l \in 1 .. LogMax, NEW s \in Nat
  PROVE  /\ Zeta(l, s) \in Complex /\ Zeta(l, s) \in Pair
         /\ FPC_MUL(Zeta(l, s), Conj(Zeta(l, s))) = One
<1> DEFINE k == s * Pow2[LogMax - l]
<1>1. k \in Nat
  <2>1. Pow2[LogMax - l] \in Nat
    BY Pow2Facts, Pow2Assumption
  <2> QED
    BY <2>1
<1> HIDE DEF k
<1>2. Exp(k) \in Complex /\ Exp(k) \in Pair /\ FPC_MUL(Exp(k), Conj(Exp(k))) = One
  BY <1>1, ExpSpecial, ExpNorm
<1> QED
  BY <1>2 DEF Zeta, k

(* Stage 1, twisted, is the operand times the powers of zeta.              *)
LEMMA TwistedFirst ==
  ASSUME NEW l \in 1 .. LogMax, NEW x \in Poly(l), NEW s \in 0 .. Pow2[l - 1] - 1
  PROVE  /\ Twist(x, l, Pow2[l - 1], s) = FPC_MUL(At(x, Pow2[l - 1], s), Zeta(l, s))
         /\ At(x, Pow2[l - 1], s) \in Complex
<1> DEFINE h == Pow2[l - 1]
           zero == 0
           A == At(x, h, s)
<1>0. h \in Nat /\ h >= 1 /\ Pow2[l] = 2 * h /\ l \in 0 .. LogMax /\ 1 \in 0 .. l /\ 1 \in 0 .. LogMax
  <2>1. /\ h \in Nat /\ h >= 1 /\ Pow2[l] = 2 * h /\ l \in 0 .. LogMax /\ 1 \in 0 .. l
    BY SlotSizes
  <2> QED
    BY <2>1, Pow2Assumption
<1>1. s \in Nat /\ zero \in Nat
  BY <1>0
<1>2. Point(l, 1, zero) = Pow2[LogMax - l]
  <2>1. Rev(zero, 1) = 0 /\ Pow2[LogMax - l] \in Nat
    <3>1. LogMax - l \in 0 .. LogMax
      BY Pow2Assumption
    <3> QED
      BY <1>0, <3>1, RevOfZero, Pow2Facts
  <2>2. (2 * 0 + 1) * Pow2[LogMax - l] = Pow2[LogMax - l]
    BY <2>1
  <2> QED
    BY <2>1, <2>2, Zenon DEF Point
<1>3. Block(x, l, 1, zero, s) = A
  BY BlockFirst DEF At
<1>4. zero * h + s = s
  BY <1>0, <1>1
<1>5. A \in Complex
  <2>1. s \in 0 .. 2 * h - 1 /\ s + h \in 0 .. 2 * h - 1
    <3>1. s \in 0 .. h - 1
      OBVIOUS
    <3> HIDE DEF h
    <3> QED
      BY <1>0, <3>1
  <2>2. x[s] \in Residue /\ x[s + h] \in Residue
    BY <1>0, <2>1 DEF Poly
  <2> QED
    BY <2>2 DEF At, Complex
<1> HIDE DEF zero
<1>6. Twist(x, l, h, zero * h + s) = TwistedBlock(x, l, 1, zero, s)
  BY <1>0, <1>1, TwistBlock
<1> HIDE DEF h
<1>7. Twist(x, l, h, s) = FPC_MUL(Exp(s * Pow2[LogMax - l]), A)
  BY <1>2, <1>3, <1>4, <1>6, Zenon DEF TwistedBlock
<1>8. FPC_MUL(Zeta(l, s), A) = FPC_MUL(A, Zeta(l, s))
  <2>1. Zeta(l, s) \in Pair
    BY <1>1, ZetaFacts
  <2> HIDE DEF A
  <2>2. A \in Pair
    BY <1>5, Closed
  <2> QED
    BY <2>1, <2>2, MulComm
<1> QED
  BY <1>5, <1>7, <1>8, Zenon DEF Zeta, h

(* So the twist of the whole array begins stage 1.                         *)
LEMMA TwistedBegins ==
  ASSUME NEW l \in 1 .. LogMax, NEW x \in Poly(l), NEW f,
         \A s \in 0 .. Pow2[l - 1] - 1 :
           At(f, Pow2[l - 1], s) = FPC_MUL(At(x, Pow2[l - 1], s), Zeta(l, s))
  PROVE  TwistedForward(f, x, l, 1, {})
BY TwistedFirst DEF TwistedForward

(* When all slots are done the array is at the next stage.                 *)
LEMMA TwistedForwardGoesOn ==
  ASSUME NEW f, NEW x, NEW l, NEW v, NEW D, TwistedForward(f, x, l, v, D),
         0 .. Pow2[l - 1] - 1 \subseteq D
  PROVE  TwistedForward(f, x, l, v + 1, {})
BY DEF TwistedForward

(* The same for my_iFFT.                                                   *)
LEMMA TwistedBackwardGoesOn ==
  ASSUME NEW f, NEW x, NEW l, NEW v \in Nat, NEW D, TwistedBackward(f, x, l, v, D),
         0 .. Pow2[l - 1] - 1 \subseteq D
  PROVE  TwistedBackward(f, x, l, v - 1, {})
<1>1. (v - 1) + 1 = v
  OBVIOUS
<1> QED
  BY <1>1 DEF TwistedBackward

(* At the last stage the twist is 1: the slots hold what those of fft.c do. *)
LEMMA TwistedLast ==
  ASSUME NEW l \in 1 .. LogMax, NEW x \in Poly(l), NEW s \in 0 .. Pow2[l - 1] - 1
  PROVE  Twist(x, l, 1, s) = Remainder(x, l, 1, s)
<1>1. /\ s \in Nat /\ l \in 0 .. l /\ l \in 0 .. LogMax /\ l - l = 0 /\ Pow2[0] = 1
      /\ 0 \in 0 .. Pow2[l - l] - 1
  <2>1. /\ l \in 0 .. l /\ l \in 0 .. LogMax /\ l - l = 0 /\ Pow2[0] = 1 /\ Pow2[l - 1] \in Nat
    BY SlotSizes
  <2> QED
    BY <2>1
<1>2. Twist(x, l, Pow2[l - l], s * Pow2[l - l] + 0) = TwistedBlock(x, l, l, s, 0)
  BY <1>1, TwistBlock
<1>3. s * Pow2[l - l] + 0 = s /\ Pow2[l - l] = 1
  BY <1>1
<1>4. Block(x, l, l, s, 0) \in Complex
  BY <1>1, BlockType
<1>5. 0 * Point(l, l, s) = 0
  <2>1. Point(l, l, s) \in Nat
    <3>1. Rev(s, l) \in Nat
      BY <1>1, RevType
    <3>2. Pow2[LogMax - l] \in Nat
      <4>1. LogMax - l \in 0 .. LogMax
        BY Pow2Assumption
      <4> QED
        BY <4>1, Pow2Facts
    <3> DEFINE r == Rev(s, l)
               q == Pow2[LogMax - l]
    <3> HIDE DEF r, q
    <3>3. (2 * r + 1) * q \in Nat
      <4>1. r \in Nat /\ q \in Nat
        BY <3>1, <3>2 DEF r, q
      <4> QED
        BY <4>1
    <3> QED
      BY <3>3 DEF Point, r, q
  <2> QED
    BY <2>1
<1>6. TwistedBlock(x, l, l, s, 0) = FPC_MUL(One, Block(x, l, l, s, 0))
  BY <1>5, ExpSpecial, Zenon DEF TwistedBlock
<1>7. FPC_MUL(One, Block(x, l, l, s, 0)) = Block(x, l, l, s, 0)
  BY <1>4, Units
<1> QED
  BY <1>2, <1>3, <1>6, <1>7, LastStage, Zenon

(* So the pointwise product is taken as in fft.c.                          *)
LEMMA TwistedEnds ==
  ASSUME NEW l \in 1 .. LogMax, NEW x \in Poly(l), NEW f
  PROVE  /\ TwistedForward(f, x, l, l, {}) => Forward(f, x, l, l, {})
         /\ Backward(f, x, l, l - 1, {}) => TwistedBackward(f, x, l, l - 1, {})
<1>1. l - l = 0 /\ Pow2[0] = 1 /\ (l - 1) + 1 = l
  BY SlotSizes
<1>2. \A s \in 0 .. Pow2[l - 1] - 1 : Twist(x, l, 1, s) = Remainder(x, l, 1, s)
  BY TwistedLast
<1>3. TwistedForward(f, x, l, l, {}) => Forward(f, x, l, l, {})
  BY <1>1, <1>2 DEF TwistedForward, Forward
<1>4. Backward(f, x, l, l - 1, {}) => TwistedBackward(f, x, l, l - 1, {})
  BY <1>1, <1>2 DEF TwistedBackward, Backward
<1> QED
  BY <1>3, <1>4

(* The array at stage 1, untwisted and scaled, is the polynomial.          *)
LEMMA TwistedScaling ==
  ASSUME NEW l \in 1 .. LogMax, NEW x \in Poly(l), NEW f, NEW g \in Poly(l),
         TwistedBackward(f, x, l, 0, {}),
         \A s \in 0 .. Pow2[l - 1] - 1 :
           At(g, Pow2[l - 1], s) =
             Scale(fpr_p2_tab[l], FPC_MUL(At(f, Pow2[l - 1], s), Conj(Zeta(l, s))))
  PROVE  g = x
<1> DEFINE h == Pow2[l - 1]
           p2 == fpr_p2_tab[l]
<1>0. h \in Nat /\ h >= 1 /\ Pow2[l] = 2 * h /\ l - (0 + 1) = l - 1
  BY SlotSizes
<1>1. p2 \in Int
  BY P2Recursion
<1>2. \A r \in Residue : (((h * r) % P) * p2) % P = r
  BY Unscale
<1>3. \A s \in 0 .. h - 1 : At(f, h, s) = Scale(h, Twist(x, l, h, s))
  BY <1>0 DEF TwistedBackward
<1>4. ASSUME NEW s \in 0 .. h - 1
      PROVE  At(g, h, s) = Scale(p2, Scale(h, At(x, h, s))) /\ At(x, h, s) \in Complex
  <2> DEFINE A == At(x, h, s)
             w == Zeta(l, s)
  <2>1. Twist(x, l, h, s) = FPC_MUL(A, w) /\ A \in Complex
    BY TwistedFirst
  <2>2. s \in Nat
    BY <1>0
  <2>3. w \in Complex /\ FPC_MUL(w, Conj(w)) = One
    BY <2>2, ZetaFacts
  <2>4. At(f, h, s) = Scale(h, FPC_MUL(A, w))
    BY <1>3, <2>1
  <2>5. At(g, h, s) = Scale(p2, FPC_MUL(At(f, h, s), Conj(w)))
    OBVIOUS
  <2> HIDE DEF A, w, h, p2
  <2>6. FPC_MUL(Scale(h, FPC_MUL(A, w)), Conj(w)) = Scale(h, A)
    BY <1>0, <2>1, <2>3, TwistRemoved
  <2> QED
    BY <2>1, <2>4, <2>5, <2>6, Zenon DEF A
<1> HIDE DEF h, p2
<1>5. ASSUME NEW s \in 0 .. h - 1
      PROVE  g[s] = x[s] /\ g[s + h] = x[s + h]
  <2>1. At(g, h, s) = Scale(p2, Scale(h, At(x, h, s))) /\ At(x, h, s) \in Complex
    BY <1>4
  <2>2. x[s] \in Residue /\ x[s + h] \in Residue
    BY <2>1 DEF At, Complex
  <2>3. g[s] = (p2 * ((h * x[s]) % P)) % P /\ g[s + h] = (p2 * ((h * x[s + h]) % P)) % P
    BY <2>1 DEF At, Scale
  <2>4. ASSUME NEW r \in Residue
        PROVE  (p2 * ((h * r) % P)) % P = r
    <3>1. h * r \in Int
      BY <1>0 DEF Residue
    <3>2. (h * r) % P \in Int
      BY <3>1, PFacts
    <3> DEFINE z == (h * r) % P
    <3>3. (z * p2) % P = r
      BY <1>2
    <3>4. z \in Int
      BY <3>2
    <3> HIDE DEF z
    <3>5. p2 * z = z * p2
      BY <1>1, <3>4
    <3>6. (p2 * z) % P = r
      BY <3>3, <3>5
    <3> QED
      BY <3>6 DEF z
  <2> QED
    BY <2>2, <2>3, <2>4
<1>6. \A v \in 0 .. 2 * h - 1 : g[v] = x[v]
  <2> TAKE v \in 0 .. 2 * h - 1
  <2>1. CASE v < h
    <3>1. v \in 0 .. h - 1
      BY <1>0, <2>1
    <3> QED
      BY <1>5, <3>1
  <2>2. CASE ~ (v < h)
    <3>1. v - h \in 0 .. h - 1 /\ (v - h) + h = v
      BY <1>0, <2>2
    <3>2. g[(v - h) + h] = x[(v - h) + h]
      BY <1>5, <3>1
    <3> QED
      BY <3>1, <3>2
  <2> QED
    BY <2>1, <2>2
<1> QED
  BY <1>0, <1>6 DEF Poly

=============================================================================

--------------------------- MODULE PolyOpsProofs ----------------------------
(***************************************************************************)
(* The polynomial operations of fft.c do what inner.h says, for buffers of *)
(* any contents, in every sequence of legal calls.  In order: sums; the    *)
(* real part of a product; the coefficients of a polynomial of twice the   *)
(* size, by which Interpolated is shown to invert the evaluation at the    *)
(* roots, by induction over the size; what an operation on slots does to   *)
(* the polynomial they stand for; the buffers; and, action by action, the  *)
(* implementation of RingOps.                                              *)
(***************************************************************************)
EXTENDS PolyOps, ArithLemmas

-----------------------------------------------------------------------------
(***************************************************************************)
(* Sums.                                                                   *)
(***************************************************************************)
(* t has the integers t[0 .. N-1].                                         *)
Terms(t, N) == \A k \in 0 .. N - 1 : t[k] \in Int

(* The sums of the first terms of t.                                       *)
Partial(sum, t, N) ==
  /\ sum \in [0 .. N -> Int] /\ sum[0] = 0
  /\ \A k \in 1 .. N : sum[k] = sum[k - 1] + t[k - 1]

(* Total is the last of them.                                              *)
LEMMA TotalIs ==
  ASSUME NEW N \in Nat, NEW t, Terms(t, N)
  PROVE  \E sum : Partial(sum, t, N) /\ Total(t, N) = sum[N]
<1> DEFINE step == [i \in 1 .. N |-> [v \in Int |-> v + t[i - 1]]]
           Body(g, i) == IF i = 0 THEN 0 ELSE g[i - 1] + t[i - 1]
           Is(g) == g = [i \in 0 .. N |-> Body(g, i)]
           sum == CHOOSE g : Is(g)
<1>1. Total(t, N) = sum[N]
  BY DEF Total
<1>2. \A i \in 1 .. N : t[i - 1] \in Int
  BY DEF Terms
<1>3. step \in [1 .. N -> [Int -> Int]]
  <2>1. \A i \in 1 .. N : \A v \in Int : v + t[i - 1] \in Int
    BY <1>2
  <2> QED
    BY <2>1
<1>4. PICK g \in [0 .. N -> Int] : g[0] = 0 /\ \A i \in 1 .. N : g[i] = step[i][g[i - 1]]
  <2> DEFINE V == Int
  <2>1. Start(0, N, step, V)
    BY <1>3 DEF Start
  <2> HIDE DEF step, V
  <2>2. \E g \in [0 .. N -> V] : g[0] = 0 /\ \A i \in 1 .. N : g[i] = step[i][g[i - 1]]
    BY <2>1, Recursion
  <2> QED
    BY <2>2 DEF V
<1>5. \A i \in 1 .. N : g[i] = g[i - 1] + t[i - 1]
  <2> TAKE i \in 1 .. N
  <2>1. g[i - 1] \in Int
    BY <1>4
  <2> QED
    BY <1>4, <2>1
<1>6. Is(g)
  <2>1. \A i \in 0 .. N : g[i] = Body(g, i)
    BY <1>4, <1>5
  <2> HIDE DEF Body
  <2> QED
    BY <1>4, <2>1
<1>7. Is(sum)
  <2> HIDE DEF Is
  <2> QED
    BY <1>6
<1> HIDE DEF sum
<1>8. \A i \in 0 .. N : sum[i] = Body(sum, i)
  <2> HIDE DEF Body
  <2> QED
    BY <1>7
<1>9. sum = [i \in 0 .. N |-> sum[i]]
  <2> HIDE DEF Body
  <2> QED
    BY <1>7
<1>10. sum[0] = 0
  BY <1>8
<1>11. \A i \in 1 .. N : sum[i] = sum[i - 1] + t[i - 1]
  BY <1>8
<1>12. \A i \in 0 .. N : sum[i] = g[i]
  <2>1. SameSteps(sum, g, N)
    BY <1>4, <1>5, <1>10, <1>11 DEF SameSteps
  <2> QED
    BY <2>1, RecursionUnique
<1>13. sum \in [0 .. N -> Int]
  BY <1>4, <1>9, <1>12
<1> QED
  BY <1>1, <1>10, <1>11, <1>13 DEF Partial

(* Total as a recursion over the number of terms.                          *)
LEMMA TotalStep ==
  ASSUME NEW N \in Nat, NEW t, Terms(t, N)
  PROVE  /\ Total(t, N) \in Int
         /\ N = 0 => Total(t, N) = 0
         /\ N > 0 => /\ Terms(t, N - 1) /\ t[N - 1] \in Int
                     /\ Total(t, N - 1) \in Int
                     /\ Total(t, N) = Total(t, N - 1) + t[N - 1]
<1>1. PICK sum : Partial(sum, t, N) /\ Total(t, N) = sum[N]
  BY TotalIs
<1>2. Total(t, N) \in Int /\ (N = 0 => Total(t, N) = 0)
  BY <1>1 DEF Partial
<1>3. ASSUME N > 0
      PROVE  /\ Terms(t, N - 1) /\ t[N - 1] \in Int
             /\ Total(t, N - 1) \in Int
             /\ Total(t, N) = Total(t, N - 1) + t[N - 1]
  <2>1. N - 1 \in Nat /\ Terms(t, N - 1) /\ t[N - 1] \in Int
    BY <1>3 DEF Terms
  <2>2. PICK g : Partial(g, t, N - 1) /\ Total(t, N - 1) = g[N - 1]
    BY <2>1, TotalIs
  <2>3. SameSteps(sum, g, N - 1)
    BY <1>1, <2>1, <2>2 DEF SameSteps, Partial
  <2>4. sum[N - 1] = g[N - 1] /\ g[N - 1] \in Int
    BY <2>1, <2>2, <2>3, RecursionUnique DEF Partial
  <2>5. sum[N] = sum[N - 1] + t[N - 1]
    BY <1>1, <1>3 DEF Partial
  <2> QED
    BY <1>1, <2>1, <2>2, <2>4, <2>5
<1> QED
  BY <1>2, <1>3

(* Congruence modulo P.                                                    *)
LEMMA Congruent ==
  ASSUME NEW a \in Int, NEW b \in Int, NEW x \in Int, NEW y \in Int,
         a % P = x % P, b % P = y % P
  PROVE  /\ (a + b) % P = (x + y) % P
         /\ (a - b) % P = (x - y) % P
         /\ (a * b) % P = (x * y) % P
<1>1. (a + b) % P = (x + y) % P /\ (a - b) % P = (x - y) % P
  <2>1. ((a % P) + (b % P)) % P = (a + b) % P /\ ((a % P) - (b % P)) % P = (a - b) % P
    BY ModSums
  <2>2. ((x % P) + (y % P)) % P = (x + y) % P /\ ((x % P) - (y % P)) % P = (x - y) % P
    BY ModSums
  <2> QED
    BY <2>1, <2>2, Zenon
<1>2. (a * b) % P = (x * y) % P
  <2>1. PICK q \in Int : a = x + q * P
    <3>1. PICK i \in Int : a % P = a + i * P
      BY ModIs
    <3>2. PICK j \in Int : x % P = x + j * P
      BY ModIs
    <3>3. a = x + (j - i) * P
      <4>1. a + i * P = x + j * P
        BY <3>1, <3>2
      <4>2. (j - i) * P = j * P - i * P /\ i * P \in Int /\ j * P \in Int
        BY PFacts
      <4> QED
        BY <4>1, <4>2
    <3> QED
      BY <3>3
  <2>2. PICK r \in Int : b = y + r * P
    <3>1. PICK i \in Int : b % P = b + i * P
      BY ModIs
    <3>2. PICK j \in Int : y % P = y + j * P
      BY ModIs
    <3>3. b = y + (j - i) * P
      <4>1. b + i * P = y + j * P
        BY <3>1, <3>2
      <4>2. (j - i) * P = j * P - i * P /\ i * P \in Int /\ j * P \in Int
        BY PFacts
      <4> QED
        BY <4>1, <4>2
    <3> QED
      BY <3>3
  <2>3. a * b = x * y + (q * b + x * r) * P
    <3>1. a * b = x * b + (q * P) * b
      BY <2>1, PFacts
    <3>2. x * b = x * y + x * (r * P)
      BY <2>2, PFacts
    <3>3. (q * P) * b = (q * b) * P /\ x * (r * P) = (x * r) * P
      BY PFacts
    <3>4. (q * b) * P + (x * r) * P = (q * b + x * r) * P
      BY PFacts
    <3>5. /\ x * y \in Int /\ x * b \in Int /\ (q * b) * P \in Int /\ (x * r) * P \in Int
      BY PFacts
    <3> QED
      BY <3>1, <3>2, <3>3, <3>4, <3>5
  <2>4. a * b \in Int /\ x * y \in Int /\ q * b + x * r \in Int
    OBVIOUS
  <2> QED
    BY <2>3, <2>4, ModEq
<1> QED
  BY <1>1, <1>2

(* A sum of combinations is the combination of the sums.                   *)
LEMMA TotalLinear ==
  ASSUME NEW N \in Nat, NEW t, NEW u, NEW v, NEW c \in Int, NEW e \in Int,
         Terms(t, N), Terms(u, N), Terms(v, N),
         \A k \in 0 .. N - 1 : t[k] % P = (c * u[k] + e * v[k]) % P
  PROVE  Total(t, N) % P = (c * Total(u, N) + e * Total(v, N)) % P
<1> DEFINE T == {m \in Nat : m <= N =>
                   Total(t, m) % P = (c * Total(u, m) + e * Total(v, m)) % P}
<1>0. \A m \in 0 .. N : Terms(t, m) /\ Terms(u, m) /\ Terms(v, m)
  BY DEF Terms
<1>1. 0 \in T
  <2>1. 0 \in 0 .. N
    OBVIOUS
  <2>2. Total(t, 0) = 0 /\ Total(u, 0) = 0 /\ Total(v, 0) = 0
    BY <1>0, <2>1, TotalStep
  <2>3. c * 0 + e * 0 = 0
    OBVIOUS
  <2> QED
    BY <2>2, <2>3
<1>2. ASSUME NEW m \in Nat, m \in T PROVE m + 1 \in T
  <2> SUFFICES ASSUME m + 1 <= N
               PROVE  Total(t, m + 1) % P = (c * Total(u, m + 1) + e * Total(v, m + 1)) % P
    OBVIOUS
  <2>0. m \in 0 .. N /\ m + 1 \in 0 .. N /\ m + 1 \in Nat /\ m + 1 > 0 /\ (m + 1) - 1 = m
        /\ m \in 0 .. N - 1
    OBVIOUS
  <2>1. /\ Total(t, m + 1) = Total(t, m) + t[m] /\ Total(t, m) \in Int /\ t[m] \in Int
        /\ Total(u, m + 1) = Total(u, m) + u[m] /\ Total(u, m) \in Int /\ u[m] \in Int
        /\ Total(v, m + 1) = Total(v, m) + v[m] /\ Total(v, m) \in Int /\ v[m] \in Int
    <3> HIDE DEF T
    <3> QED
      BY <1>0, <2>0, TotalStep
  <2>2. Total(t, m) % P = (c * Total(u, m) + e * Total(v, m)) % P
    BY <1>2, <2>0
  <2>3. t[m] % P = (c * u[m] + e * v[m]) % P
    BY <2>0
  <2> HIDE DEF T
  <2> DEFINE A == Total(t, m)  B == Total(u, m)  C == Total(v, m)
             a == t[m]  b == u[m]  d == v[m]
  <2>4. /\ A \in Int /\ B \in Int /\ C \in Int /\ a \in Int /\ b \in Int /\ d \in Int
        /\ A % P = (c * B + e * C) % P /\ a % P = (c * b + e * d) % P
    BY <2>1, <2>2, <2>3
  <2> HIDE DEF A, B, C, a, b, d
  <2>5. (A + a) % P = ((c * B + e * C) + (c * b + e * d)) % P
    <3>1. c * B + e * C \in Int /\ c * b + e * d \in Int
      BY <2>4
    <3> QED
      BY <2>4, <3>1, Congruent
  <2>6. (c * B + e * C) + (c * b + e * d) = c * (B + b) + e * (C + d)
    BY <2>4
  <2> QED
    BY <2>1, <2>5, <2>6, Zenon DEF A, B, C, a, b, d
<1>3. Nat \subseteq T
  <2> HIDE DEF T
  <2> QED
    BY <1>1, <1>2, SetInduction
<1> QED
  BY <1>3

(* A sum of twice as many terms, in pairs.                                 *)
LEMMA TotalPairs ==
  ASSUME NEW N \in Nat, NEW t, NEW u, NEW c \in Int,
         Terms(t, 2 * N), Terms(u, N),
         \A k \in 0 .. N - 1 : (t[2 * k] + t[2 * k + 1]) % P = (c * u[k]) % P
  PROVE  Total(t, 2 * N) % P = (c * Total(u, N)) % P
<1> DEFINE T == {m \in Nat : m <= N =>
                   Total(t, 2 * m) % P = (c * Total(u, m)) % P}
<1>0. \A m \in 0 .. N : Terms(t, 2 * m) /\ Terms(u, m)
  BY DEF Terms
<1>1. 0 \in T
  <2>1. 0 \in 0 .. N /\ 2 * 0 = 0
    OBVIOUS
  <2>2. Total(t, 0) = 0 /\ Total(u, 0) = 0
    BY <1>0, <2>1, TotalStep
  <2>3. c * 0 = 0
    OBVIOUS
  <2> QED
    BY <2>1, <2>2, <2>3
<1>2. ASSUME NEW m \in Nat, m \in T PROVE m + 1 \in T
  <2> SUFFICES ASSUME m + 1 <= N
               PROVE  Total(t, 2 * (m + 1)) % P = (c * Total(u, m + 1)) % P
    OBVIOUS
  <2>0. m \in 0 .. N /\ m + 1 \in 0 .. N /\ m + 1 \in Nat /\ m + 1 > 0 /\ (m + 1) - 1 = m
        /\ m \in 0 .. N - 1
    OBVIOUS
  <2>1. /\ Total(u, m + 1) = Total(u, m) + u[m] /\ Total(u, m) \in Int /\ u[m] \in Int
    <3> HIDE DEF T
    <3> QED
      BY <1>0, <2>0, TotalStep
  <2>2. /\ 2 * (m + 1) \in Nat /\ 2 * (m + 1) > 0 /\ 2 * (m + 1) - 1 = 2 * m + 1
        /\ 2 * m + 1 \in Nat /\ 2 * m + 1 > 0 /\ (2 * m + 1) - 1 = 2 * m
    OBVIOUS
  <2>3. /\ Total(t, 2 * (m + 1)) = Total(t, 2 * m + 1) + t[2 * m + 1]
        /\ Terms(t, 2 * m + 1) /\ t[2 * m + 1] \in Int
    <3>1. Terms(t, 2 * (m + 1))
      BY <1>0, <2>0
    <3> HIDE DEF T
    <3> QED
      BY <2>2, <3>1, TotalStep
  <2>4. /\ Total(t, 2 * m + 1) = Total(t, 2 * m) + t[2 * m]
        /\ Total(t, 2 * m) \in Int /\ t[2 * m] \in Int
    <3> HIDE DEF T
    <3> QED
      BY <2>2, <2>3, TotalStep
  <2>5. Total(t, 2 * m) % P = (c * Total(u, m)) % P
    BY <1>2, <2>0
  <2>6. (t[2 * m] + t[2 * m + 1]) % P = (c * u[m]) % P
    BY <2>0
  <2> HIDE DEF T
  <2> DEFINE A == Total(t, 2 * m)  B == Total(u, m)
             a == t[2 * m]  b == t[2 * m + 1]  d == u[m]
  <2>7. /\ A \in Int /\ B \in Int /\ a \in Int /\ b \in Int /\ d \in Int
        /\ A % P = (c * B) % P /\ (a + b) % P = (c * d) % P
    BY <2>1, <2>3, <2>4, <2>5, <2>6
  <2>8. Total(t, 2 * (m + 1)) = (A + a) + b /\ Total(u, m + 1) = B + d
    BY <2>1, <2>3, <2>4
  <2> HIDE DEF A, B, a, b, d
  <2>9. (A + (a + b)) % P = (c * B + c * d) % P
    <3>1. c * B \in Int /\ c * d \in Int /\ a + b \in Int
      BY <2>7
    <3> QED
      BY <2>7, <3>1, Congruent
  <2>10. A + (a + b) = (A + a) + b /\ c * B + c * d = c * (B + d)
    BY <2>7
  <2> QED
    BY <2>8, <2>9, <2>10, Zenon
<1>3. Nat \subseteq T
  <2> HIDE DEF T
  <2> QED
    BY <1>1, <1>2, SetInduction
<1> QED
  BY <1>3

-----------------------------------------------------------------------------
(***************************************************************************)
(* Dot(w, z) is the real part of conj(w)*z, not yet reduced.               *)
(***************************************************************************)
(* Conjugation undone.                                                     *)
LEMMA ConjConj ==
  ASSUME NEW x \in Complex
  PROVE  Conj(Conj(x)) = x /\ Conj(x) \in Complex /\ Conj(x) \in Pair
<1>1. Conj(x) \in Complex /\ Conj(x) \in Pair
  BY ConjMul, Closed
<1>2. x = <<x[1], x[2]>> /\ x[2] \in 0 .. P - 1 /\ x[2] \in Int
  BY PFacts DEF Complex, Residue
<1>3. (-((-x[2]) % P)) % P = x[2]
  <2> DEFINE b == x[2]
  <2>1. b \in Int /\ -b \in Int /\ -(-b) = b /\ b % P = b
    BY <1>2, PFacts
  <2> HIDE DEF b
  <2>2. (-((-b) % P)) % P = (-(-b)) % P
    BY <2>1, ModTerms, 0 \in Int
  <2> QED
    BY <2>1, <2>2 DEF b
<1>4. Conj(Conj(x)) = <<x[1], (-((-x[2]) % P)) % P>>
  BY DEF Conj
<1> QED
  BY <1>1, <1>2, <1>3, <1>4

LEMMA DotIs ==
  ASSUME NEW w \in Complex, NEW z \in Complex
  PROVE  /\ Dot(w, z) \in Int
         /\ Dot(w, z) % P = FPC_MUL(Conj(w), z)[1]
<1> DEFINE a == w[1] b == w[2] c == z[1] d == z[2]
<1>1. a \in Int /\ b \in Int /\ c \in Int /\ d \in Int
  BY Closed, Parts
<1>2. Dot(w, z) = a * c + b * d
  BY DEF Dot
<1>3. FPC_MUL(Conj(w), z)[1] = (a * c - ((-b) % P) * d) % P
  BY DEF FPC_MUL, Conj
<1> HIDE DEF a, b, c, d
<1>4. (c * a - d * ((-b) % P)) % P = (a * c + b * d) % P
  <2>1. PICK q \in Int : (-b) % P = -b + q * P
    BY <1>1, ModIs
  <2>2. c * a - d * (-b + q * P) = (a * c + b * d) + (-(d * q)) * P
    <3>1. d * (-b + q * P) = -(b * d) + (d * q) * P
      BY <1>1, PFacts
    <3>2. (-(d * q)) * P = -((d * q) * P) /\ c * a = a * c
      BY <1>1, PFacts
    <3>3. (d * q) * P \in Int /\ b * d \in Int /\ a * c \in Int
      BY <1>1, PFacts
    <3> QED
      BY <3>1, <3>2, <3>3
  <2>3. a * c + b * d \in Int /\ -(d * q) \in Int /\ c * a - d * (-b + q * P) \in Int
    BY <1>1, PFacts
  <2>4. (c * a - d * (-b + q * P)) % P = (a * c + b * d) % P
    BY <2>2, <2>3, ModEq
  <2> QED
    BY <2>1, <2>4
<1>5. c * a - d * ((-b) % P) = a * c - ((-b) % P) * d
  <2>1. (-b) % P \in Int
    BY <1>1, PFacts
  <2> QED
    BY <1>1, <2>1
<1>6. a * c + b * d \in Int
  BY <1>1
<1> QED
  BY <1>2, <1>3, <1>4, <1>5, <1>6

(* What Dot makes of products, sums and conjugates.                        *)
LEMMA DotRules ==
  ASSUME NEW w \in Complex, NEW v \in Complex, NEW x \in Complex, NEW y \in Complex,
         NEW r \in Int
  PROVE  /\ Dot(FPC_MUL(w, v), x) % P = Dot(w, FPC_MUL(Conj(v), x)) % P
         /\ Dot(w, FPC_ADD(x, y)) % P = (Dot(w, x) + Dot(w, y)) % P
         /\ Dot(w, FPC_SUB(x, y)) % P = (Dot(w, x) - Dot(w, y)) % P
         /\ Dot(Neg(w), x) % P = (-Dot(w, x)) % P
         /\ Dot(w, Scale(r, x)) % P = (r * Dot(w, x)) % P
         /\ Dot(Conj(w), x) % P = Dot(w, Conj(x)) % P
<1> DEFINE c == Conj(w)
<1>1. /\ c \in Complex /\ c \in Pair /\ Conj(v) \in Complex /\ Conj(v) \in Pair
      /\ Conj(x) \in Complex /\ Conj(x) \in Pair /\ Conj(c) = w
      /\ w \in Pair /\ v \in Pair /\ x \in Pair /\ y \in Pair
      /\ FPC_MUL(w, v) \in Complex /\ FPC_MUL(Conj(v), x) \in Complex
      /\ FPC_ADD(x, y) \in Complex /\ FPC_SUB(x, y) \in Complex
  BY ConjConj, Closed
<1>2. /\ Dot(w, x) \in Int /\ Dot(w, x) % P = FPC_MUL(c, x)[1]
      /\ Dot(w, y) \in Int /\ Dot(w, y) % P = FPC_MUL(c, y)[1]
  BY DotIs
<1>3. Dot(FPC_MUL(w, v), x) % P = Dot(w, FPC_MUL(Conj(v), x)) % P
  <2>1. Dot(FPC_MUL(w, v), x) % P = FPC_MUL(Conj(FPC_MUL(w, v)), x)[1]
    BY <1>1, DotIs
  <2>2. Dot(w, FPC_MUL(Conj(v), x)) % P = FPC_MUL(c, FPC_MUL(Conj(v), x))[1]
    BY <1>1, DotIs
  <2>3. Conj(FPC_MUL(w, v)) = FPC_MUL(c, Conj(v))
    BY ConjMul
  <2>4. FPC_MUL(FPC_MUL(c, Conj(v)), x) = FPC_MUL(c, FPC_MUL(Conj(v), x))
    BY <1>1, MulAssoc
  <2> QED
    BY <2>1, <2>2, <2>3, <2>4, Zenon
<1>4. Dot(w, FPC_ADD(x, y)) % P = (Dot(w, x) + Dot(w, y)) % P
  <2>1. Dot(w, FPC_ADD(x, y)) % P = FPC_MUL(c, FPC_ADD(x, y))[1]
    BY <1>1, DotIs
  <2>2. FPC_MUL(c, FPC_ADD(x, y)) = FPC_ADD(FPC_MUL(c, x), FPC_MUL(c, y))
    BY <1>1, Distribute
  <2>3. FPC_ADD(FPC_MUL(c, x), FPC_MUL(c, y))[1]
          = (FPC_MUL(c, x)[1] + FPC_MUL(c, y)[1]) % P
    BY DEF FPC_ADD
  <2>4. ((Dot(w, x) % P) + (Dot(w, y) % P)) % P = (Dot(w, x) + Dot(w, y)) % P
    BY <1>2, ModSums
  <2> QED
    BY <1>2, <2>1, <2>2, <2>3, <2>4, Zenon
<1>5. Dot(w, FPC_SUB(x, y)) % P = (Dot(w, x) - Dot(w, y)) % P
  <2>1. Dot(w, FPC_SUB(x, y)) % P = FPC_MUL(c, FPC_SUB(x, y))[1]
    BY <1>1, DotIs
  <2>2. FPC_MUL(c, FPC_SUB(x, y)) = FPC_SUB(FPC_MUL(c, x), FPC_MUL(c, y))
    BY <1>1, Distribute
  <2>3. FPC_SUB(FPC_MUL(c, x), FPC_MUL(c, y))[1]
          = (FPC_MUL(c, x)[1] - FPC_MUL(c, y)[1]) % P
    BY DEF FPC_SUB
  <2>4. ((Dot(w, x) % P) - (Dot(w, y) % P)) % P = (Dot(w, x) - Dot(w, y)) % P
    BY <1>2, ModSums
  <2> QED
    BY <1>2, <2>1, <2>2, <2>3, <2>4, Zenon
<1>6. Dot(w, Scale(r, x)) % P = (r * Dot(w, x)) % P
  <2> DEFINE a == w[1] b == w[2] p == x[1] q == x[2]
  <2>1. a \in Int /\ b \in Int /\ p \in Int /\ q \in Int
    BY <1>1, Parts
  <2>2. /\ Dot(w, Scale(r, x)) = a * ((r * p) % P) + b * ((r * q) % P)
        /\ Dot(w, x) = a * p + b * q
    BY DEF Dot, Scale
  <2> HIDE DEF a, b, p, q
  <2>3. r * p \in Int /\ r * q \in Int
    BY <2>1
  <2>4. (a * ((r * p) % P) + b * ((r * q) % P)) % P = (a * (r * p) + b * (r * q)) % P
    BY <2>1, <2>3, ModTerms
  <2>5. a * (r * p) + b * (r * q) = r * (a * p + b * q)
    BY <2>1
  <2> QED
    BY <2>2, <2>4, <2>5, Zenon
<1>7. Dot(Neg(w), x) % P = (-Dot(w, x)) % P
  <2> DEFINE a == w[1] b == w[2] p == x[1] q == x[2]
  <2>1. a \in Int /\ b \in Int /\ p \in Int /\ q \in Int
    BY <1>1, Parts
  <2>2. /\ Dot(Neg(w), x) = ((0 - a) % P) * p + ((0 - b) % P) * q
        /\ Dot(w, x) = a * p + b * q
    BY DEF Dot, Neg, FPC_SUB, Zero
  <2> HIDE DEF a, b, p, q
  <2>3. (((0 - a) % P) * p + ((0 - b) % P) * q) % P = ((0 - a) * p + (0 - b) * q) % P
    <3>1. 0 - a \in Int /\ 0 - b \in Int
      BY <2>1
    <3> QED
      BY <2>1, <3>1, ModLinear
  <2>4. (0 - a) * p + (0 - b) * q = -(a * p + b * q)
    BY <2>1
  <2> QED
    BY <2>2, <2>3, <2>4, Zenon
<1>8. Dot(Conj(w), x) % P = Dot(w, Conj(x)) % P
  <2> DEFINE a == w[1] b == w[2] p == x[1] q == x[2]
  <2>1. a \in Int /\ b \in Int /\ p \in Int /\ q \in Int
    BY <1>1, Parts
  <2>2. /\ Dot(Conj(w), x) = a * p + ((-b) % P) * q
        /\ Dot(w, Conj(x)) = a * p + b * ((-q) % P)
    BY DEF Dot, Conj
  <2> HIDE DEF a, b, p, q
  <2>3. /\ (a * p + ((-b) % P) * q) % P = (a * p + (-b) * q) % P
        /\ (a * p + b * ((-q) % P)) % P = (a * p + b * (-q)) % P
    <3>0. /\ -b \in Int /\ -q \in Int
      BY <2>1
    <3>1. \A i, j, k \in Int : /\ (i + (j % P) * k) % P = (i + j * k) % P
                               /\ (i + k * (j % P)) % P = (i + k * j) % P
      <4> SUFFICES ASSUME NEW i \in Int, NEW j \in Int, NEW k \in Int
                   PROVE  /\ (i + (j % P) * k) % P = (i + j * k) % P
                          /\ (i + k * (j % P)) % P = (i + k * j) % P
        OBVIOUS
      <4>1. PICK m \in Int : j % P = j + m * P
        BY ModIs
      <4>2. i + (j + m * P) * k = (i + j * k) + (m * k) * P
        BY PFacts
      <4>3. i + j * k \in Int /\ m * k \in Int /\ i + (j + m * P) * k \in Int
        BY PFacts
      <4>4. (i + (j + m * P) * k) % P = (i + j * k) % P
        BY <4>2, <4>3, ModEq
      <4>5. (j + m * P) * k = k * (j + m * P) /\ j * k = k * j
        BY PFacts
      <4> QED
        BY <4>1, <4>4, <4>5
    <3>2. a * p \in Int
      BY <2>1
    <3> QED
      BY <2>1, <3>0, <3>1, <3>2
  <2>4. (-b) * q = b * (-q)
    BY <2>1
  <2> QED
    BY <2>2, <2>3, <2>4, Zenon
<1> QED
  BY <1>3, <1>4, <1>5, <1>6, <1>7, <1>8

-----------------------------------------------------------------------------
(***************************************************************************)
(* Halves.                                                                 *)
(***************************************************************************)
H == <<(P + 1) \div 2, 0>>

LEMMA HalfFacts ==
  /\ H \in Pair /\ FPC_ADD(H, H) = One /\ (P + 1) \div 2 \in Int
  /\ \A x \in Pair : /\ Halved(x) = FPC_MUL(H, x) /\ Halved(x) = Scale((P + 1) \div 2, x)
                     /\ Halved(x) \in Complex /\ Halved(x) \in Pair
<1>1. H \in Pair /\ (P + 1) \div 2 \in Int /\ H[1] = (P + 1) \div 2 /\ H[2] = 0
  BY HalfInt DEF H, Pair
<1>2. FPC_ADD(H, H) = One
  <2>1. (P + 1) \div 2 + (P + 1) \div 2 = 1 + 1 * P
    BY HalfInt, PFacts
  <2>2. (1 + 1 * P) % P = 1 % P
    BY Shifted
  <2>3. 1 % P = 1 /\ (0 + 0) % P = 0
    BY PAssumption
  <2> QED
    BY <1>1, <2>1, <2>2, <2>3 DEF FPC_ADD, One
<1>3. ASSUME NEW x \in Pair
      PROVE  /\ Halved(x) = FPC_MUL(H, x) /\ Halved(x) = Scale((P + 1) \div 2, x)
             /\ Halved(x) \in Complex /\ Halved(x) \in Pair
  <2>1. Scale((P + 1) \div 2, x) = FPC_MUL(H, x)
    BY <1>1, ScaleIsMul DEF H
  <2>2. Halved(x) = Scale((P + 1) \div 2, x)
    <3>1. /\ x[1] * ((P + 1) \div 2) = ((P + 1) \div 2) * x[1]
          /\ x[2] * ((P + 1) \div 2) = ((P + 1) \div 2) * x[2]
      BY <1>1, Parts
    <3> QED
      BY <3>1 DEF Halved, fpr_half, Scale
  <2> QED
    BY <1>1, <2>1, <2>2, Closed
<1> QED
  BY <1>1, <1>2, <1>3

(* Sum and difference of a sum and a difference.                           *)
LEMMA SumDifference ==
  ASSUME NEW a \in Pair, NEW b \in Pair
  PROVE  /\ FPC_ADD(FPC_ADD(a, b), FPC_SUB(a, b)) = FPC_ADD(a, a)
         /\ FPC_SUB(FPC_ADD(a, b), FPC_SUB(a, b)) = FPC_ADD(b, b)
<1> DEFINE p == a[1] q == a[2] r == b[1] s == b[2]
<1>1. p \in Int /\ q \in Int /\ r \in Int /\ s \in Int
  BY Parts
<1> HIDE DEF p, q, r, s
<1>2. \A x, y \in Int : /\ (((x + y) % P) + ((x - y) % P)) % P = (x + x) % P
                        /\ (((x + y) % P) - ((x - y) % P)) % P = (y + y) % P
  <2> SUFFICES ASSUME NEW x \in Int, NEW y \in Int
               PROVE  /\ (((x + y) % P) + ((x - y) % P)) % P = (x + x) % P
                      /\ (((x + y) % P) - ((x - y) % P)) % P = (y + y) % P
    OBVIOUS
  <2>1. /\ x + y \in Int /\ x - y \in Int
        /\ (x + y) + (x - y) = x + x /\ (x + y) - (x - y) = y + y
    OBVIOUS
  <2>2. /\ (((x + y) % P) + ((x - y) % P)) % P = ((x + y) + (x - y)) % P
        /\ (((x + y) % P) - ((x - y) % P)) % P = ((x + y) - (x - y)) % P
    BY <2>1, ModSums
  <2> QED
    BY <2>1, <2>2
<1> QED
  BY <1>1, <1>2 DEF FPC_ADD, FPC_SUB, p, q, r, s

(* poly_merge_fft's slots 2u and 2u+1, of a and b, and what poly_split_fft *)
(* makes of them.                                                          *)
LEMMA SplitMerged ==
  ASSUME NEW a \in Complex, NEW b \in Complex, NEW w \in Complex,
         FPC_MUL(w, Conj(w)) = One
  PROVE  /\ Halved(FPC_ADD(FPC_ADD(a, FPC_MUL(b, w)), FPC_SUB(a, FPC_MUL(b, w)))) = a
         /\ Halved(FPC_MUL(FPC_SUB(FPC_ADD(a, FPC_MUL(b, w)), FPC_SUB(a, FPC_MUL(b, w))),
                           Conj(w))) = b
<1> DEFINE c == FPC_MUL(b, w)
           x == FPC_ADD(a, c)
           y == FPC_SUB(a, c)
           v == Conj(w)
<1>1. /\ a \in Pair /\ b \in Pair /\ c \in Pair /\ x \in Pair /\ y \in Pair
      /\ v \in Pair /\ w \in Pair /\ c \in Complex /\ H \in Pair
  BY Closed, ConjConj, HalfFacts
<1>2. FPC_MUL(c, v) = b
  <2>1. FPC_MUL(FPC_MUL(b, w), v) = FPC_MUL(b, FPC_MUL(w, v))
    BY <1>1, MulAssoc
  <2>2. FPC_MUL(b, One) = b
    BY Units
  <2> QED
    BY <2>1, <2>2
<1>3. FPC_ADD(x, y) = FPC_ADD(a, a) /\ FPC_SUB(x, y) = FPC_ADD(c, c)
  <2> HIDE DEF c
  <2> QED
    BY <1>1, SumDifference
<1> HIDE DEF c, x, y, v
<1>4. \A z \in Complex : Halved(FPC_ADD(z, z)) = z
  <2> TAKE z \in Complex
  <2>1. z \in Pair /\ FPC_ADD(z, z) \in Pair /\ FPC_ADD(H, H) = One
    BY Closed, HalfFacts
  <2>2. Halved(FPC_ADD(z, z)) = FPC_MUL(H, FPC_ADD(z, z))
    BY <2>1, HalfFacts
  <2>3. FPC_MUL(H, FPC_ADD(z, z)) = FPC_ADD(FPC_MUL(H, z), FPC_MUL(H, z))
    BY <1>1, <2>1, Distribute
  <2>4. FPC_MUL(z, FPC_ADD(H, H)) = FPC_ADD(FPC_MUL(z, H), FPC_MUL(z, H))
    BY <1>1, <2>1, Distribute
  <2>5. FPC_MUL(z, H) = FPC_MUL(H, z)
    BY <1>1, <2>1, MulComm
  <2>6. FPC_MUL(z, One) = z
    BY Units
  <2> QED
    BY <2>1, <2>2, <2>3, <2>4, <2>5, <2>6, Zenon
<1>5. Halved(FPC_ADD(x, y)) = a
  BY <1>3, <1>4
<1>6. Halved(FPC_MUL(FPC_SUB(x, y), v)) = b
  <2>1. FPC_MUL(v, FPC_ADD(c, c)) = FPC_ADD(FPC_MUL(v, c), FPC_MUL(v, c))
    BY <1>1, Distribute
  <2>2. FPC_MUL(v, c) = FPC_MUL(c, v)
    BY <1>1, MulComm
  <2>3. FPC_MUL(FPC_ADD(c, c), v) = FPC_MUL(v, FPC_ADD(c, c))
    BY <1>1, Closed, MulComm
  <2>4. FPC_MUL(FPC_SUB(x, y), v) = FPC_ADD(b, b)
    BY <1>2, <1>3, <2>1, <2>2, <2>3, Zenon
  <2> QED
    BY <1>4, <2>4
<1> QED
  BY <1>5, <1>6 DEF x, y, c, v

(* And the other way round.                                                *)
LEMMA MergeSplit ==
  ASSUME NEW x \in Complex, NEW y \in Complex, NEW w \in Complex,
         FPC_MUL(w, Conj(w)) = One
  PROVE  LET a == Halved(FPC_ADD(x, y))
             b == Halved(FPC_MUL(FPC_SUB(x, y), Conj(w)))
         IN  /\ FPC_ADD(a, FPC_MUL(b, w)) = x
             /\ FPC_SUB(a, FPC_MUL(b, w)) = y
<1> DEFINE v == Conj(w)
           a == Halved(FPC_ADD(x, y))
           b == Halved(FPC_MUL(FPC_SUB(x, y), v))
           p == FPC_MUL(H, x)
           q == FPC_MUL(H, y)
<1>1. /\ x \in Pair /\ y \in Pair /\ w \in Pair /\ v \in Pair /\ H \in Pair
      /\ FPC_ADD(x, y) \in Pair /\ FPC_SUB(x, y) \in Pair /\ FPC_SUB(x, y) \in Complex
      /\ FPC_MUL(FPC_SUB(x, y), v) \in Pair /\ p \in Pair /\ q \in Pair
      /\ FPC_MUL(w, v) = One
  BY Closed, ConjConj, HalfFacts
<1>2. a = FPC_ADD(p, q)
  <2>1. a = FPC_MUL(H, FPC_ADD(x, y))
    BY <1>1, HalfFacts
  <2>2. FPC_MUL(H, FPC_ADD(x, y)) = FPC_ADD(FPC_MUL(H, x), FPC_MUL(H, y))
    BY <1>1, Distribute
  <2> QED
    BY <2>1, <2>2
<1>3. FPC_MUL(b, w) = FPC_SUB(p, q)
  <2> DEFINE d == FPC_SUB(x, y)
  <2>0. d \in Pair /\ d \in Complex
    BY <1>1
  <2>1. b = FPC_MUL(H, FPC_MUL(d, v))
    BY <1>1, HalfFacts
  <2>2. FPC_MUL(H, d) = FPC_SUB(p, q)
    BY <1>1, Distribute
  <2> HIDE DEF d, b, p, q
  <2>3. FPC_MUL(FPC_MUL(H, FPC_MUL(d, v)), w) = FPC_MUL(H, FPC_MUL(FPC_MUL(d, v), w))
    BY <1>1, <2>0, Closed, MulAssoc
  <2>4. FPC_MUL(FPC_MUL(d, v), w) = FPC_MUL(d, FPC_MUL(v, w))
    BY <1>1, <2>0, MulAssoc
  <2>5. FPC_MUL(v, w) = One
    BY <1>1, MulComm
  <2>6. FPC_MUL(d, One) = d
    BY <2>0, Units
  <2> QED
    BY <2>1, <2>2, <2>3, <2>4, <2>5, <2>6, Zenon
<1>4. \A z \in Complex : FPC_ADD(FPC_MUL(H, z), FPC_MUL(H, z)) = z
  <2> TAKE z \in Complex
  <2>1. z \in Pair /\ FPC_ADD(H, H) = One
    BY Closed, HalfFacts
  <2>2. FPC_MUL(z, FPC_ADD(H, H)) = FPC_ADD(FPC_MUL(z, H), FPC_MUL(z, H))
    BY <1>1, <2>1, Distribute
  <2>3. FPC_MUL(z, H) = FPC_MUL(H, z)
    BY <1>1, <2>1, MulComm
  <2>4. FPC_MUL(z, One) = z
    BY Units
  <2> QED
    BY <2>1, <2>2, <2>3, <2>4, Zenon
<1>5. FPC_ADD(FPC_ADD(p, q), FPC_SUB(p, q)) = FPC_ADD(p, p)
      /\ FPC_SUB(FPC_ADD(p, q), FPC_SUB(p, q)) = FPC_ADD(q, q)
  <2> HIDE DEF p, q
  <2> QED
    BY <1>1, SumDifference
<1>6. FPC_ADD(p, p) = x /\ FPC_ADD(q, q) = y
  BY <1>4
<1> HIDE DEF a, b, p, q
<1>7. FPC_ADD(a, FPC_MUL(b, w)) = x /\ FPC_SUB(a, FPC_MUL(b, w)) = y
  BY <1>2, <1>3, <1>5, <1>6, Zenon
<1> QED
  BY <1>7 DEF a, b, v

-----------------------------------------------------------------------------
(***************************************************************************)
(* Sizes, roots and weights.                                               *)
(***************************************************************************)
LEMMA OpSizes ==
  ASSUME NEW l \in 1 .. LogMax
  PROVE  /\ n(l) = Pow2[l] /\ hn(l) = Pow2[l - 1] /\ n(l) = 2 * hn(l)
         /\ hn(l) \in Nat /\ hn(l) >= 1 /\ n(l) \in Nat
         /\ n(l - 1) = hn(l)
         /\ l \in Nat /\ l \in 0 .. LogMax /\ l - 1 \in 0 .. LogMax /\ l - 1 \in Nat
         /\ l >= 2 => l - 1 \in 1 .. LogMax /\ hn(l) = 2 * hn(l - 1) /\ n(l - 1) = hn(l)
         /\ l = 1 => hn(l) = 1 /\ n(l) = 2
<1>1. LogMax \in Nat /\ l \in Nat /\ l \in 0 .. LogMax /\ l - 1 \in 0 .. LogMax /\ l - 1 \in Nat
  BY Pow2Assumption
<1>2. Pow2[l - 1] \in Nat /\ Pow2[l - 1] >= 1 /\ Pow2[l] = 2 * Pow2[l - 1] /\ Pow2[0] = 1
  BY SlotSizes
<1>3. n(l) = Pow2[l] /\ hn(l) = Pow2[l] \div 2 /\ n(l - 1) = Pow2[l - 1]
  BY DEF n, hn
<1>4. Pow2[l] \div 2 = Pow2[l - 1]
  <2> DEFINE q == Pow2[l - 1]
  <2>1. q \in Int /\ Pow2[l] = q * 2 + 0
    BY <1>2
  <2> HIDE DEF q
  <2>2. (q * 2 + 0) \div 2 = q
    BY <2>1, DivModUnique, 2 \in Nat, 2 > 0, 0 \in 0 .. 1
  <2> QED
    BY <2>1, <2>2 DEF q
<1>5. ASSUME l >= 2
      PROVE  l - 1 \in 1 .. LogMax /\ hn(l - 1) = Pow2[l - 2] /\ Pow2[l - 1] = 2 * Pow2[l - 2]
  <2>1. l - 1 \in 1 .. LogMax /\ (l - 1) - 1 = l - 2
    BY <1>1, <1>5
  <2>2. Pow2[l - 1] = 2 * Pow2[l - 2] /\ Pow2[l - 2] \in Nat
    <3>1. Pow2[(l - 1) - 1] \in Nat /\ Pow2[l - 1] = 2 * Pow2[(l - 1) - 1]
      BY <2>1, SlotSizes
    <3> QED
      BY <2>1, <3>1
  <2>3. hn(l - 1) = Pow2[l - 1] \div 2
    BY DEF hn, n
  <2>4. Pow2[l - 1] \div 2 = Pow2[l - 2]
    <3> DEFINE q == Pow2[l - 2]
    <3>1. q \in Int /\ Pow2[l - 1] = q * 2 + 0
      BY <2>2
    <3> HIDE DEF q
    <3>2. (q * 2 + 0) \div 2 = q
      BY <3>1, DivModUnique, 2 \in Nat, 2 > 0, 0 \in 0 .. 1
    <3> QED
      BY <3>1, <3>2 DEF q
  <2> QED
    BY <2>1, <2>2, <2>3, <2>4
<1>6. ASSUME l = 1 PROVE hn(l) = 1 /\ n(l) = 2
  <2>1. l - 1 = 0
    BY <1>6
  <2>2. Pow2[l - 1] = 1
    BY <1>2, <2>1
  <2> QED
    BY <1>2, <1>3, <1>4, <2>2
<1>7. n(l) = Pow2[l] /\ hn(l) = Pow2[l - 1] /\ n(l - 1) = Pow2[l - 1]
  BY <1>3, <1>4
<1> QED
  BY <1>1, <1>2, <1>5, <1>6, <1>7

(* Powers of equal numbers are equal.                                      *)
LEMMA ExpPower ==
  ASSUME NEW a \in Nat, NEW b \in Nat, Exp(a) = Exp(b)
  PROVE  \A d \in Nat : Exp(d * a) = Exp(d * b)
<1> DEFINE T == {d \in Nat : Exp(d * a) = Exp(d * b)}
<1>1. 0 \in T
  <2>1. 0 * a = 0 /\ 0 * b = 0
    OBVIOUS
  <2> QED
    BY <2>1
<1>2. ASSUME NEW d \in Nat, d \in T PROVE d + 1 \in T
  <2>1. (d + 1) * a = d * a + a /\ (d + 1) * b = d * b + b /\ d * a \in Nat /\ d * b \in Nat
    OBVIOUS
  <2>2. Exp(d * a + a) = FPC_MUL(Exp(d * a), Exp(a)) /\ Exp(d * b + b) = FPC_MUL(Exp(d * b), Exp(b))
    BY <2>1, ExpAdd
  <2>3. Exp(d * a) = Exp(d * b)
    BY <1>2
  <2>4. Exp((d + 1) * a) = Exp((d + 1) * b)
    BY <2>1, <2>2, <2>3, Zenon
  <2> QED
    BY <2>4
<1>3. Nat \subseteq T
  <2> HIDE DEF T
  <2> QED
    BY <1>1, <1>2, SetInduction
<1> QED
  BY <1>3

(* The exponent of a root, and its powers.                                 *)
LEMMA WeightIs ==
  ASSUME NEW l \in 1 .. LogMax, NEW s \in 0 .. hn(l) - 1
  PROVE  /\ PointExponent(l, s) = Angle(l, s) /\ Angle(l, s) \in Nat
         /\ \A d \in Nat : /\ d * Angle(l, s) \in Nat
                           /\ Exp(d * Angle(l, s)) \in Complex
         /\ \A d \in 0 .. n(l) - 1 : Weight[l][s][d] = Exp(d * Angle(l, s))
<1>1. l \in Nat /\ l <= LogMax /\ s \in Nat
  BY OpSizes
<1>2. PointExponent(l, s) = Angle(l, s)
  BY DEF PointExponent, RootExponent, Angle
<1>3. Angle(l, s) \in Nat
  BY <1>1, AngleFacts
<1>4. \A d \in Nat : d * Angle(l, s) \in Nat /\ Exp(d * Angle(l, s)) \in Complex
  <2> TAKE d \in Nat
  <2>1. d * Angle(l, s) \in Nat
    BY <1>3
  <2> QED
    BY <2>1, ExpType
<1>5. \A d \in 0 .. n(l) - 1 : Weight[l][s][d] = Exp(d * PointExponent(l, s))
  BY DEF Weight, Places, Reals
<1> QED
  BY <1>2, <1>3, <1>4, <1>5

(* The weights of slots 2u and 2u+1 by that of slot u of half the size:    *)
(* w^2 is the root of that one, and slot 2u+1 has the root -w.             *)
LEMMA WeightHalves ==
  ASSUME NEW l \in 2 .. LogMax, NEW u \in 0 .. hn(l - 1) - 1, NEW d \in Nat
  PROVE  LET w == Exp(Angle(l, 2 * u))
             c == Exp(d * Angle(l - 1, u))
         IN  /\ w \in Complex /\ c \in Complex /\ FPC_MUL(w, Conj(w)) = One
             /\ Exp((2 * d) * Angle(l, 2 * u)) = c
             /\ Exp((2 * d) * Angle(l, 2 * u + 1)) = c
             /\ Exp((2 * d + 1) * Angle(l, 2 * u)) = FPC_MUL(c, w)
             /\ Exp((2 * d + 1) * Angle(l, 2 * u + 1)) = Neg(FPC_MUL(c, w))
<1> DEFINE A == Angle(l, 2 * u)
           B == Angle(l, 2 * u + 1)
           C == Angle(l - 1, u)
           w == Exp(A)
           c == Exp(d * C)
<1>1. /\ l - 1 \in Nat /\ (l - 1) + 1 = l /\ l <= LogMax /\ l - 1 <= LogMax /\ l \in Nat
      /\ u \in Nat /\ 2 * u \in Nat /\ 2 * u + 1 \in Nat
  <2>1. LogMax \in Nat /\ l \in 1 .. LogMax /\ l - 1 \in 1 .. LogMax
    BY Pow2Assumption
  <2>2. hn(l - 1) \in Nat
    BY <2>1, OpSizes
  <2> QED
    BY <2>1, <2>2
<1>2. A \in Nat /\ B \in Nat /\ C \in Nat
  BY <1>1, AngleFacts
<1>3. FPC_MUL(w, w) = Exp(C) /\ Exp(B) = Neg(w)
  <2>1. /\ FPC_MUL(Exp(Angle((l - 1) + 1, 2 * u)), Exp(Angle((l - 1) + 1, 2 * u))) = Exp(Angle(l - 1, u))
        /\ Exp(Angle((l - 1) + 1, 2 * u + 1)) = Neg(Exp(Angle((l - 1) + 1, 2 * u)))
    BY <1>1, AngleHalves
  <2> QED
    BY <1>1, <2>1
<1> HIDE DEF A, B, C
<1>4. /\ w \in Complex /\ w \in Pair /\ c \in Complex /\ c \in Pair
      /\ FPC_MUL(w, Conj(w)) = One /\ d * C \in Nat
  <2>1. d * C \in Nat
    BY <1>2
  <2> QED
    BY <1>2, <2>1, ExpType, ExpNorm, Closed
<1>5. Exp(A + A) = Exp(C) /\ Exp(B + B) = Exp(C)
  <2>1. Exp(A + A) = FPC_MUL(w, w) /\ Exp(B + B) = FPC_MUL(Exp(B), Exp(B))
    BY <1>2, ExpAdd
  <2>2. FPC_MUL(Neg(w), Neg(w)) = FPC_MUL(w, w)
    BY <1>4, MulNeg
  <2> QED
    BY <1>3, <2>1, <2>2, Zenon
<1>6. Exp(d * (A + A)) = c /\ Exp(d * (B + B)) = c
  <2>1. A + A \in Nat /\ B + B \in Nat
    BY <1>2
  <2> QED
    BY <1>2, <1>5, <2>1, ExpPower
<1>7. /\ (2 * d) * A = d * (A + A) /\ (2 * d) * B = d * (B + B)
      /\ (2 * d + 1) * A = d * (A + A) + A /\ (2 * d + 1) * B = d * (B + B) + B
      /\ d * (A + A) \in Nat /\ d * (B + B) \in Nat
  BY <1>2
<1>8. Exp(d * (A + A) + A) = FPC_MUL(c, w) /\ Exp(d * (B + B) + B) = FPC_MUL(c, Neg(w))
  <2>1. /\ Exp(d * (A + A) + A) = FPC_MUL(Exp(d * (A + A)), Exp(A))
        /\ Exp(d * (B + B) + B) = FPC_MUL(Exp(d * (B + B)), Exp(B))
    BY <1>2, <1>7, ExpAdd
  <2> QED
    BY <1>3, <1>6, <2>1, Zenon
<1>9. FPC_MUL(c, Neg(w)) = Neg(FPC_MUL(c, w))
  BY <1>4, MulNeg
<1> HIDE DEF w, c
<1>10. /\ Exp((2 * d) * A) = c /\ Exp((2 * d) * B) = c
       /\ Exp((2 * d + 1) * A) = FPC_MUL(c, w) /\ Exp((2 * d + 1) * B) = Neg(FPC_MUL(c, w))
  BY <1>6, <1>7, <1>8, <1>9, Zenon
<1> QED
  BY <1>4, <1>10 DEF w, c, A, B, C

-----------------------------------------------------------------------------
(***************************************************************************)
(* Interpolated.                                                           *)
(***************************************************************************)
(* What the slots of a polynomial of size l hold.                          *)
Vec(l) == [0 .. hn(l) - 1 -> Complex]

(* The terms of coefficient d.                                             *)
Projections(z, l, d) ==
  [s \in 0 .. hn(l) - 1 |-> Dot(Exp(d * Angle(l, s)), z[s])]

LEMMA InterpolatedIs ==
  ASSUME NEW l \in 1 .. LogMax, NEW z \in Vec(l)
  PROVE  /\ Interpolated(z, l) \in Poly(l)
         /\ \A d \in 0 .. n(l) - 1 :
              /\ Terms(Projections(z, l, d), hn(l))
              /\ \A s \in 0 .. hn(l) - 1 :
                   Projections(z, l, d)[s] = Dot(Exp(d * Angle(l, s)), z[s])
              /\ Total(Projections(z, l, d), hn(l)) \in Int
              /\ Interpolated(z, l)[d] =
                   (fpr_p2_tab[l] * Total(Projections(z, l, d), hn(l))) % P
<1>0. /\ hn(l) \in Nat /\ n(l) \in Nat /\ n(l) = Pow2[l] /\ l \in 0 .. LogMax
      /\ fpr_p2_tab[l] \in Int
  BY OpSizes, P2Recursion
<1>1. ASSUME NEW d \in 0 .. n(l) - 1
      PROVE  /\ Terms(Projections(z, l, d), hn(l))
             /\ \A s \in 0 .. hn(l) - 1 :
                  Projections(z, l, d)[s] = Dot(Exp(d * Angle(l, s)), z[s])
             /\ Total(Projections(z, l, d), hn(l)) \in Int
             /\ Interpolated(z, l)[d] =
                  (fpr_p2_tab[l] * Total(Projections(z, l, d), hn(l))) % P
  <2> DEFINE t == Projections(z, l, d)
  <2>0. d \in Nat
    BY <1>0
  <2>1. \A s \in 0 .. hn(l) - 1 : /\ t[s] = Dot(Exp(d * Angle(l, s)), z[s])
                                  /\ t[s] \in Int
    <3> TAKE s \in 0 .. hn(l) - 1
    <3>1. t[s] = Dot(Exp(d * Angle(l, s)), z[s])
      BY DEF Projections
    <3>2. z[s] \in Complex
      BY DEF Vec
    <3>3. Exp(d * Angle(l, s)) \in Complex
      BY <2>0, WeightIs
    <3> QED
      BY <3>1, <3>2, <3>3, DotIs
  <2>2. Terms(t, hn(l))
    BY <2>1 DEF Terms
  <2>3. Total(t, hn(l)) \in Int
    BY <1>0, <2>2, TotalStep
  <2>4. [s \in 0 .. hn(l) - 1 |-> Dot(Weight[l][s][d], z[s])] = t
    <3>1. \A s \in 0 .. hn(l) - 1 : Weight[l][s][d] = Exp(d * Angle(l, s))
      BY WeightIs
    <3> QED
      BY <3>1 DEF Projections
  <2>5. Interpolated(z, l)[d] = (fpr_p2_tab[l] * (Total(t, hn(l)) % P)) % P
    BY <2>4 DEF Interpolated, Places, Reals
  <2> HIDE DEF t
  <2>6. (fpr_p2_tab[l] * (Total(t, hn(l)) % P)) % P = (fpr_p2_tab[l] * Total(t, hn(l))) % P
    BY <1>0, <2>3, ModTerms
  <2> QED
    BY <2>1, <2>2, <2>3, <2>5, <2>6 DEF t
<1>2. Interpolated(z, l) \in Poly(l)
  <2> DEFINE f == Interpolated(z, l)
  <2>1. f = [d \in 0 .. n(l) - 1 |-> f[d]]
    BY DEF Interpolated, Places, Reals
  <2>2. \A d \in 0 .. n(l) - 1 : f[d] \in Residue
    <3> TAKE d \in 0 .. n(l) - 1
    <3> DEFINE T == Total(Projections(z, l, d), hn(l))
    <3>1. T \in Int /\ f[d] = (fpr_p2_tab[l] * T) % P
      BY <1>1
    <3> HIDE DEF T
    <3>2. fpr_p2_tab[l] * T \in Int
      BY <1>0, <3>1
    <3>3. (fpr_p2_tab[l] * T) % P \in Residue
      BY <3>2, PFacts DEF Residue
    <3> HIDE DEF f
    <3> QED
      BY <3>1, <3>3
  <2> HIDE DEF f
  <2>3. f \in [0 .. n(l) - 1 -> Residue]
    BY <2>1, <2>2
  <2> QED
    BY <1>0, <2>3 DEF Poly, f
<1> QED
  BY <1>1, <1>2

(* Twice a half, under Dot.                                                *)
LEMMA DotHalf ==
  ASSUME NEW c \in Complex, NEW x \in Complex
  PROVE  /\ Dot(c, Halved(x)) \in Int /\ Dot(c, x) \in Int
         /\ (2 * Dot(c, Halved(x))) % P = Dot(c, x) % P
<1> DEFINE h == (P + 1) \div 2
           D == Dot(c, x)
           E == Dot(c, Halved(x))
<1>1. x \in Pair /\ Halved(x) \in Complex /\ Halved(x) = Scale(h, x) /\ h \in Int
  BY Closed, HalfFacts
<1>2. D \in Int /\ E \in Int
  BY <1>1, DotIs
<1>3. E % P = (h * D) % P
  BY <1>1, DotRules
<1>4. 2 * h = P + 1
  BY HalfInt
<1> HIDE DEF D, E, h
<1>5. (2 * E) % P = (2 * (h * D)) % P
  BY <1>1, <1>2, <1>3, Congruent, h * D \in Int, 2 \in Int
<1>6. 2 * (h * D) = (P + 1) * D
  <2>1. 2 * (h * D) = (2 * h) * D
    BY <1>1, <1>2
  <2> QED
    BY <1>4, <2>1
<1>7. (P + 1) * D = D + D * P
  BY <1>2, PFacts
<1>8. (D + D * P) % P = D % P
  BY <1>2, Shifted
<1> QED
  BY <1>2, <1>5, <1>6, <1>7, <1>8, Zenon DEF D, E

(* The table of 2/N halves.                                                *)
LEMMA ScaleHalves ==
  ASSUME NEW l \in 1 .. LogMax, NEW T \in Int, NEW U \in Int, T % P = (2 * U) % P
  PROVE  (fpr_p2_tab[l] * T) % P = (fpr_p2_tab[l - 1] * U) % P
<1> DEFINE p == fpr_p2_tab[l]
           q == fpr_p2_tab[l - 1]
           h == (P + 1) \div 2
<1>1. p \in Int /\ q \in Int /\ p = (q * h) % P
  BY P2Recursion, OpSizes
<1>2. h \in Int /\ 2 * h = P + 1
  BY HalfInt
<1> HIDE DEF p, q, h
<1>3. (p * T) % P = (p * (2 * U)) % P
  BY <1>1, Congruent, 2 * U \in Int
<1>4. (p * (2 * U)) % P = ((q * h) * (2 * U)) % P
  <2> DEFINE a == q * h
             e == 2 * U
  <2>1. a \in Int /\ e \in Int /\ p = a % P
    BY <1>1, <1>2
  <2> HIDE DEF a, e
  <2>2. ((a % P) * e) % P = (a * e) % P
    BY <2>1, ModTerms, 0 \in Int
  <2> QED
    BY <2>1, <2>2 DEF a, e
<1>5. (q * h) * (2 * U) = q * U + (q * U) * P
  <2>1. (q * h) * (2 * U) = (q * U) * (2 * h)
    BY <1>1, <1>2
  <2>2. (q * U) * (P + 1) = q * U + (q * U) * P
    BY <1>1, PFacts
  <2> QED
    BY <1>2, <2>1, <2>2
<1>6. (q * U + (q * U) * P) % P = (q * U) % P
  BY <1>1, Shifted, q * U \in Int
<1> QED
  BY <1>3, <1>4, <1>5, <1>6, Zenon DEF p, q

(***************************************************************************)
(* The coefficients of even and of odd index: those of half the size, with *)
(* the slots that poly_split_fft computes.                                 *)
(***************************************************************************)
LEMMA InterpolatedHalves ==
  ASSUME NEW l \in 2 .. LogMax, NEW z \in Vec(l), NEW e \in Vec(l - 1), NEW o \in Vec(l - 1),
         \A u \in 0 .. hn(l - 1) - 1 :
           /\ e[u] = Halved(FPC_ADD(z[2 * u], z[2 * u + 1]))
           /\ o[u] = Halved(FPC_MUL(FPC_SUB(z[2 * u], z[2 * u + 1]),
                                    Conj(Exp(Angle(l, 2 * u)))))
  PROVE  \A d \in 0 .. hn(l) - 1 :
           /\ Interpolated(z, l)[2 * d] = Interpolated(e, l - 1)[d]
           /\ Interpolated(z, l)[2 * d + 1] = Interpolated(o, l - 1)[d]
<1> DEFINE M == hn(l - 1)
<1>0. /\ l \in 1 .. LogMax /\ l - 1 \in 1 .. LogMax /\ hn(l) = 2 * M /\ M \in Nat /\ M >= 1
      /\ n(l) = 2 * hn(l) /\ n(l - 1) = hn(l) /\ hn(l) \in Nat
  <2>1. LogMax \in Nat /\ l \in 1 .. LogMax /\ l - 1 \in 1 .. LogMax /\ l >= 2
    BY Pow2Assumption
  <2> QED
    BY <2>1, OpSizes
<1> HIDE DEF M
<1> TAKE d \in 0 .. hn(l) - 1
<1> DEFINE t0 == Projections(z, l, 2 * d)
           t1 == Projections(z, l, 2 * d + 1)
           u0 == Projections(e, l - 1, d)
           u1 == Projections(o, l - 1, d)
<1>1. /\ d \in Nat /\ 2 * d \in 0 .. n(l) - 1 /\ 2 * d + 1 \in 0 .. n(l) - 1
      /\ d \in 0 .. n(l - 1) - 1
  BY <1>0
<1>2. /\ Terms(t0, hn(l)) /\ Total(t0, hn(l)) \in Int
      /\ \A s \in 0 .. hn(l) - 1 : t0[s] = Dot(Exp((2 * d) * Angle(l, s)), z[s])
      /\ Interpolated(z, l)[2 * d] = (fpr_p2_tab[l] * Total(t0, hn(l))) % P
  BY <1>0, <1>1, InterpolatedIs
<1>3. /\ Terms(t1, hn(l)) /\ Total(t1, hn(l)) \in Int
      /\ \A s \in 0 .. hn(l) - 1 : t1[s] = Dot(Exp((2 * d + 1) * Angle(l, s)), z[s])
      /\ Interpolated(z, l)[2 * d + 1] = (fpr_p2_tab[l] * Total(t1, hn(l))) % P
  BY <1>0, <1>1, InterpolatedIs
<1>4. /\ Terms(u0, M) /\ Total(u0, M) \in Int
      /\ \A s \in 0 .. M - 1 : u0[s] = Dot(Exp(d * Angle(l - 1, s)), e[s])
      /\ Interpolated(e, l - 1)[d] = (fpr_p2_tab[l - 1] * Total(u0, M)) % P
  BY <1>0, <1>1, InterpolatedIs DEF M
<1>5. /\ Terms(u1, M) /\ Total(u1, M) \in Int
      /\ \A s \in 0 .. M - 1 : u1[s] = Dot(Exp(d * Angle(l - 1, s)), o[s])
      /\ Interpolated(o, l - 1)[d] = (fpr_p2_tab[l - 1] * Total(u1, M)) % P
  BY <1>0, <1>1, InterpolatedIs DEF M
<1> HIDE DEF t0, t1, u0, u1
<1>6. ASSUME NEW u \in 0 .. M - 1
      PROVE  /\ (t0[2 * u] + t0[2 * u + 1]) % P = (2 * u0[u]) % P
             /\ (t1[2 * u] + t1[2 * u + 1]) % P = (2 * u1[u]) % P
  <2> DEFINE w == Exp(Angle(l, 2 * u))
             c == Exp(d * Angle(l - 1, u))
             x == z[2 * u]
             y == z[2 * u + 1]
             cw == FPC_MUL(c, w)
  <2>0. /\ 2 * u \in 0 .. hn(l) - 1 /\ 2 * u + 1 \in 0 .. hn(l) - 1
        /\ u \in 0 .. hn(l - 1) - 1
    BY <1>0 DEF M
  <2>1. /\ w \in Complex /\ c \in Complex /\ FPC_MUL(w, Conj(w)) = One
        /\ Exp((2 * d) * Angle(l, 2 * u)) = c
        /\ Exp((2 * d) * Angle(l, 2 * u + 1)) = c
        /\ Exp((2 * d + 1) * Angle(l, 2 * u)) = cw
        /\ Exp((2 * d + 1) * Angle(l, 2 * u + 1)) = Neg(cw)
    BY <1>1, <2>0, WeightHalves
  <2>2. x \in Complex /\ y \in Complex
    BY <2>0 DEF Vec
  <2>3. /\ t0[2 * u] = Dot(c, x) /\ t0[2 * u + 1] = Dot(c, y)
        /\ t1[2 * u] = Dot(cw, x) /\ t1[2 * u + 1] = Dot(Neg(cw), y)
    BY <1>2, <1>3, <2>0, <2>1
  <2>4. /\ u0[u] = Dot(c, Halved(FPC_ADD(x, y)))
        /\ u1[u] = Dot(c, Halved(FPC_MUL(FPC_SUB(x, y), Conj(w))))
    BY <1>4, <1>5, <2>0
  <2> HIDE DEF w, c, x, y, cw
  <2>5. /\ x \in Pair /\ y \in Pair /\ w \in Pair /\ c \in Pair /\ cw \in Complex /\ cw \in Pair
        /\ Neg(cw) \in Complex /\ FPC_ADD(x, y) \in Complex /\ FPC_SUB(x, y) \in Complex
        /\ FPC_SUB(x, y) \in Pair /\ Conj(w) \in Complex /\ Conj(w) \in Pair
        /\ FPC_MUL(FPC_SUB(x, y), Conj(w)) \in Complex
    BY <2>1, <2>2, Closed, ConjConj DEF cw
  <2>6. (t0[2 * u] + t0[2 * u + 1]) % P = (2 * u0[u]) % P
    <3>1. Dot(c, FPC_ADD(x, y)) % P = (Dot(c, x) + Dot(c, y)) % P
      BY <2>1, <2>2, DotRules, 0 \in Int
    <3>2. (2 * Dot(c, Halved(FPC_ADD(x, y)))) % P = Dot(c, FPC_ADD(x, y)) % P
      BY <2>1, <2>5, DotHalf
    <3> QED
      BY <2>3, <2>4, <3>1, <3>2, Zenon
  <2>7. (t1[2 * u] + t1[2 * u + 1]) % P = (2 * u1[u]) % P
    <3> DEFINE r == FPC_SUB(x, y)
    <3>1. Dot(cw, r) % P = (Dot(cw, x) - Dot(cw, y)) % P
      BY <2>2, <2>5, DotRules, 0 \in Int
    <3>2. Dot(Neg(cw), y) % P = (-Dot(cw, y)) % P
      BY <2>2, <2>5, DotRules, 0 \in Int
    <3>3. Dot(cw, r) % P = Dot(c, FPC_MUL(Conj(w), r)) % P
      BY <2>1, <2>5, DotRules, 0 \in Int DEF cw
    <3>4. FPC_MUL(Conj(w), r) = FPC_MUL(r, Conj(w))
      BY <2>5, MulComm
    <3>5. (2 * Dot(c, Halved(FPC_MUL(r, Conj(w))))) % P = Dot(c, FPC_MUL(r, Conj(w))) % P
      BY <2>1, <2>5, DotHalf
    <3>6. Dot(cw, x) \in Int /\ Dot(cw, y) \in Int /\ Dot(Neg(cw), y) \in Int
      BY <2>2, <2>5, DotIs
    <3>7. (Dot(cw, x) + Dot(Neg(cw), y)) % P = (Dot(cw, x) - Dot(cw, y)) % P
      <4> DEFINE a == Dot(cw, x)  b == Dot(cw, y)  g == Dot(Neg(cw), y)
      <4>1. a \in Int /\ b \in Int /\ g \in Int /\ g % P = (-b) % P
        BY <3>2, <3>6
      <4> HIDE DEF a, b, g
      <4> DEFINE m == -b
      <4>2. m \in Int /\ a + m = a - b /\ g % P = m % P
        BY <4>1
      <4> HIDE DEF m
      <4>3. (a + g) % P = (a + m) % P
        <5>1. (a + (g % P)) % P = (a + g) % P
          BY <4>1, ModTerms, 0 \in Int
        <5>2. (a + (m % P)) % P = (a + m) % P
          BY <4>1, <4>2, ModTerms, 0 \in Int
        <5> QED
          BY <4>2, <5>1, <5>2
      <4> QED
        BY <4>2, <4>3, Zenon DEF a, b, g
    <3> QED
      BY <2>3, <2>4, <3>1, <3>3, <3>4, <3>5, <3>7, Zenon
  <2> QED
    BY <2>6, <2>7
<1>7. /\ Total(t0, 2 * M) % P = (2 * Total(u0, M)) % P
      /\ Total(t1, 2 * M) % P = (2 * Total(u1, M)) % P
  BY <1>0, <1>2, <1>3, <1>4, <1>5, <1>6, TotalPairs, 2 \in Int
<1>8. /\ (fpr_p2_tab[l] * Total(t0, hn(l))) % P = (fpr_p2_tab[l - 1] * Total(u0, M)) % P
      /\ (fpr_p2_tab[l] * Total(t1, hn(l))) % P = (fpr_p2_tab[l - 1] * Total(u1, M)) % P
  BY <1>0, <1>2, <1>3, <1>4, <1>5, <1>7, ScaleHalves
<1> QED
  BY <1>2, <1>3, <1>4, <1>5, <1>8

-----------------------------------------------------------------------------
(* The values of f in the slots.                                           *)
Values(f, l) == [s \in 0 .. hn(l) - 1 |-> Value(f, l, s)]

LEMMA ValueIs ==
  ASSUME NEW l \in 1 .. LogMax, NEW f \in Poly(l), NEW s \in 0 .. hn(l) - 1
  PROVE  /\ Value(f, l, s) = Horner(f, 0, 1, n(l), Exp(Angle(l, s)))
         /\ Value(f, l, s) \in Complex
         /\ Values(f, l)[s] = Value(f, l, s) /\ Values(f, l) \in Vec(l)
<1>1. \A t \in 0 .. hn(l) - 1 : /\ Value(f, l, t) = Horner(f, 0, 1, n(l), Exp(Angle(l, t)))
                                /\ Value(f, l, t) \in Complex
  <2> TAKE t \in 0 .. hn(l) - 1
  <2>1. t \in 0 .. Pow2[l - 1] - 1 /\ t \in Nat /\ l \in 0 .. LogMax /\ n(l) = Pow2[l]
    BY OpSizes
  <2>2. /\ Remainder(f, l, 1, t) = Block(f, l, l, t, 0)
        /\ Remainder(f, l, 1, t) \in Complex
    BY <2>1, LastStage
  <2>3. Block(f, l, l, t, 0) = Horner(f, 0, 1, Pow2[l], Exp(Angle(l, t)))
    BY <2>1, BlockRoot
  <2> QED
    BY <2>1, <2>2, <2>3, Zenon DEF Value
<1> QED
  BY <1>1, Zenon DEF Values, Vec

(* e and o are the coefficients of f of even and of odd index.             *)
Halves(e, o, f, l) ==
  \A d \in 0 .. hn(l) - 1 : e[d] = f[2 * d] /\ o[d] = f[2 * d + 1]

(***************************************************************************)
(* f = e(X^2) + X*o(X^2) at the two roots of opposite sign whose square is *)
(* a root of the half size.                                                *)
(***************************************************************************)
LEMMA ValueHalves ==
  ASSUME NEW l \in 2 .. LogMax, NEW f \in Poly(l), NEW e \in Poly(l - 1), NEW o \in Poly(l - 1),
         Halves(e, o, f, l), NEW u \in 0 .. hn(l - 1) - 1
  PROVE  LET w == Exp(Angle(l, 2 * u))
             c == FPC_MUL(Value(o, l - 1, u), w)
         IN  /\ Value(f, l, 2 * u) = FPC_ADD(Value(e, l - 1, u), c)
             /\ Value(f, l, 2 * u + 1) = FPC_SUB(Value(e, l - 1, u), c)
<1> DEFINE w == Exp(Angle(l, 2 * u))
           v == Exp(Angle(l - 1, u))
           M == hn(l)
           E == Value(e, l - 1, u)
           O == Value(o, l - 1, u)
<1>0. /\ l \in 1 .. LogMax /\ l - 1 \in 1 .. LogMax /\ l - 1 \in Nat /\ (l - 1) + 1 = l
      /\ M = 2 * hn(l - 1) /\ n(l) = 2 * M /\ n(l - 1) = M /\ M \in Nat /\ u \in Nat
      /\ 2 * u \in 0 .. M - 1 /\ 2 * u + 1 \in 0 .. M - 1 /\ (l - 1) + 1 <= LogMax
      /\ 2 * u \in Nat /\ 2 * u + 1 \in Nat /\ n(l - 1) = Pow2[l - 1] /\ n(l) = Pow2[l]
  <2>1. l \in 1 .. LogMax /\ l - 1 \in 1 .. LogMax /\ LogMax \in Nat
    BY Pow2Assumption
  <2>2. M = 2 * hn(l - 1) /\ n(l) = 2 * M /\ n(l - 1) = M /\ M \in Nat /\ hn(l - 1) \in Nat
        /\ n(l - 1) = Pow2[l - 1] /\ n(l) = Pow2[l]
    BY <2>1, OpSizes
  <2> HIDE DEF M
  <2> QED
    BY <2>1, <2>2
<1>1. w \in Complex /\ w \in Pair /\ v \in Complex /\ v \in Pair /\ Neg(w) \in Pair
  BY <1>0, WeightIs, Closed, BlockRoot, ExpSpecial
<1>2. /\ FPC_MUL(w, w) = v
      /\ Exp(Angle(l, 2 * u + 1)) = Neg(w)
  BY <1>0, AngleHalves
<1>3. /\ Value(f, l, 2 * u) = Horner(f, 0, 1, n(l), w)
      /\ Value(f, l, 2 * u + 1) = Horner(f, 0, 1, n(l), Neg(w))
      /\ E = Horner(e, 0, 1, M, v) /\ O = Horner(o, 0, 1, M, v)
      /\ E \in Complex /\ O \in Complex
  BY <1>0, <1>2, ValueIs
<1> HIDE DEF w, v, M, E, O
<1>4. \A s \in Pair : FPC_MUL(s, s) = v =>
        Horner(f, 0, 1, 2 * M, s) = FPC_ADD(E, FPC_MUL(s, O))
  <2> SUFFICES ASSUME NEW s \in Pair, FPC_MUL(s, s) = v
               PROVE  Horner(f, 0, 1, 2 * M, s) = FPC_ADD(E, FPC_MUL(s, O))
    OBVIOUS
  <2>0. /\ f \in [0 .. 2 * M - 1 -> Residue]
        /\ e \in [0 .. M - 1 -> Residue] /\ o \in [0 .. M - 1 -> Residue]
    <3>1. Poly(l) = [0 .. 2 * M - 1 -> Residue] /\ Poly(l - 1) = [0 .. M - 1 -> Residue]
      BY <1>0, Zenon DEF Poly
    <3> QED
      BY <3>1
  <2>00. Residue \subseteq Int
    BY PFacts DEF Residue
  <2>1. \A k \in 0 .. 2 * M - 1 : f[k] \in Int
    BY <2>0, <2>00
  <2>2. \A k \in 0 .. M - 1 : e[k] \in Int /\ o[k] \in Int
    BY <2>0, <2>00
  <2>3. /\ Reads(f, 0, 1, 2 * M) /\ Reads(f, 0, 2, M) /\ Reads(f, 1, 2, M)
        /\ Reads(e, 0, 1, M) /\ Reads(o, 0, 1, M)
    <3>1. Reads(f, 0, 1, 2 * M)
      <4>1. \A k \in 0 .. 2 * M - 1 : 0 + k * 1 = k
        OBVIOUS
      <4> QED
        BY <2>1, <4>1 DEF Reads
    <3>2. \A k \in 0 .. M - 1 : 0 + k * 1 = k
      OBVIOUS
    <3>3. \A k \in 0 .. M - 1 : /\ 0 + k * 2 \in 0 .. 2 * M - 1
                                /\ 1 + k * 2 \in 0 .. 2 * M - 1
      BY <1>0
    <3> QED
      BY <2>1, <2>2, <3>1, <3>2, <3>3 DEF Reads
  <2>4. Horner(f, 0, 1, 2 * M, s) =
          FPC_ADD(Horner(f, 0, 2, M, v), FPC_MUL(s, Horner(f, 1, 2, M, v)))
    <3>1. 1 \in Nat /\ 0 \in Nat /\ 2 * 1 = 2 /\ 0 + 1 = 1
      OBVIOUS
    <3>2. Horner(f, 0, 1, 2 * M, s) =
            FPC_ADD(Horner(f, 0, 2 * 1, M, FPC_MUL(s, s)),
                    FPC_MUL(s, Horner(f, 0 + 1, 2 * 1, M, FPC_MUL(s, s))))
      <4>1. \A terms \in Nat : \A d \in Nat :
              Reads(f, d, 1, 2 * terms) =>
                Horner(f, d, 1, 2 * terms, s) =
                  FPC_ADD(Horner(f, d, 2 * 1, terms, FPC_MUL(s, s)),
                          FPC_MUL(s, Horner(f, d + 1, 2 * 1, terms, FPC_MUL(s, s))))
        BY HornerSplit, 1 \in Nat
      <4> QED
        BY <1>0, <2>3, <3>1, <4>1, Zenon
    <3> QED
      BY <3>1, <3>2
  <2>5. Alike(f, 0, 2, e, 0, 1, M) /\ Alike(f, 1, 2, o, 0, 1, M)
    <3>1. \A k \in 0 .. M - 1 : 0 + k * 2 = 2 * k /\ 1 + k * 2 = 2 * k + 1 /\ 0 + k * 1 = k
      BY <1>0
    <3>2. \A k \in 0 .. M - 1 : e[k] = f[2 * k] /\ o[k] = f[2 * k + 1]
      BY DEF Halves, M
    <3> QED
      BY <3>1, <3>2 DEF Alike
  <2>6. Horner(f, 0, 2, M, v) = Horner(e, 0, 1, M, v)
    BY <1>0, <1>1, <2>3, <2>5, HornerSame, 0 \in Nat, 1 \in Nat, 2 \in Nat
  <2>7. Horner(f, 1, 2, M, v) = Horner(o, 0, 1, M, v)
    BY <1>0, <1>1, <2>3, <2>5, HornerSame, 0 \in Nat, 1 \in Nat, 2 \in Nat
  <2> QED
    BY <1>3, <2>4, <2>6, <2>7
<1>5. E \in Pair /\ O \in Pair
  BY <1>3, Closed
<1>6. Horner(f, 0, 1, 2 * M, w) = FPC_ADD(E, FPC_MUL(O, w))
  BY <1>1, <1>2, <1>4, <1>5, MulComm
<1>7. FPC_MUL(Neg(w), Neg(w)) = v /\ FPC_MUL(Neg(w), O) = Neg(FPC_MUL(O, w))
      /\ FPC_MUL(O, w) \in Pair
  BY <1>1, <1>2, <1>5, MulNeg, Negation, MulComm, Closed
<1>8. Horner(f, 0, 1, 2 * M, Neg(w)) = FPC_SUB(E, FPC_MUL(O, w))
  BY <1>1, <1>4, <1>5, <1>7, Negation
<1> QED
  BY <1>0, <1>3, <1>6, <1>8 DEF w, E, O

(* The smallest size: the root of the one slot is i.                       *)
LEMMA SmallestSize ==
  /\ 1 \in 1 .. LogMax /\ hn(1) = 1 /\ n(1) = 2
  /\ \A f \in Poly(1) : Value(f, 1, 0) = <<f[0], f[1]>>
  /\ \A z \in Vec(1) : Interpolated(z, 1) = [d \in 0 .. 1 |-> IF d = 0 THEN z[0][1] ELSE z[0][2]]
<1>0. /\ 1 \in 1 .. LogMax /\ hn(1) = 1 /\ n(1) = 2 /\ Pow2[0] = 1 /\ 1 - 1 = 0 /\ Pow2[1] = 2
      /\ 0 \in 0 .. hn(1) - 1
  <2>1. 1 \in 1 .. LogMax /\ Pow2[0] = 1
    BY Pow2Assumption
  <2> QED
    BY <2>1, OpSizes
<1>1. \A f \in Poly(1) : Value(f, 1, 0) = <<f[0], f[1]>>
  <2> TAKE f \in Poly(1)
  <2>1. 0 \in 0 .. Pow2[1 - 1] - 1
    BY <1>0
  <2>2. Remainder(f, 1, Pow2[1 - 1], 0) = At(f, Pow2[1 - 1], 0)
    BY <1>0, <2>1, FirstStage
  <2> QED
    BY <1>0, <2>2 DEF Value, At
<1>2. Angle(1, 0) = Pow2[LogMax - 1] /\ Pow2[LogMax - 1] \in Nat
  <2>1. Rev(0, 1) = 0
    BY <1>0, RevOfZero
  <2>2. Pow2[LogMax - 1] \in Nat
    BY CircleFacts
  <2> QED
    BY <2>1, <2>2 DEF Angle
<1>3. fpr_p2_tab[1] = 1
  <2>1. fpr_p2_tab[1] = (2 * ((P + 1) \div 2)) % P
    BY <1>0, P2Recursion
  <2>2. P \in Nat /\ P > 2 /\ (P + 1) % P = 1
    <3>1. P \in Nat /\ P > 2
      BY PAssumption
    <3>2. (1 + 1 * P) % P = 1 % P
      BY Shifted
    <3>3. 1 % P = 1
      BY <3>1
    <3> QED
      BY <3>1, <3>2, <3>3
  <2> QED
    BY <2>1, <2>2, HalfInt
<1>4. ASSUME NEW z \in Vec(1)
      PROVE  Interpolated(z, 1) = [d \in 0 .. 1 |-> IF d = 0 THEN z[0][1] ELSE z[0][2]]
  <2>1. z[0] \in Complex
    BY <1>0 DEF Vec
  <2>2. z[0] \in Pair /\ z[0][1] \in Residue /\ z[0][2] \in Residue
    BY <2>1, Closed DEF Complex
  <2>3. /\ Interpolated(z, 1) \in Poly(1)
        /\ \A d \in 0 .. n(1) - 1 :
             /\ Terms(Projections(z, 1, d), hn(1))
             /\ Projections(z, 1, d)[0] = Dot(Exp(d * Angle(1, 0)), z[0])
             /\ Interpolated(z, 1)[d] =
                  (fpr_p2_tab[1] * Total(Projections(z, 1, d), hn(1))) % P
    BY <1>0, InterpolatedIs
  <2>4. ASSUME NEW d \in 0 .. 1
        PROVE  Interpolated(z, 1)[d] = Dot(Exp(d * Angle(1, 0)), z[0]) % P
    <3> DEFINE t == Projections(z, 1, d)
    <3>1. Terms(t, 1) /\ t[0] = Dot(Exp(d * Angle(1, 0)), z[0])
          /\ Interpolated(z, 1)[d] = (1 * Total(t, 1)) % P
      BY <1>0, <1>3, <2>3
    <3> HIDE DEF t
    <3>2. Total(t, 1) = Total(t, 1 - 1) + t[1 - 1] /\ Terms(t, 1 - 1) /\ t[1 - 1] \in Int
          /\ Total(t, 1) \in Int
      BY <3>1, TotalStep, 1 \in Nat, 1 > 0
    <3>3. Total(t, 0) = 0
      BY <3>2, TotalStep, 0 \in Nat, 1 - 1 = 0
    <3> QED
      BY <3>1, <3>2, <3>3
  <2>5. \A d \in {0, 1} : d * Angle(1, 0) = IF d = 0 THEN 0 ELSE Pow2[LogMax - 1]
    BY <1>2
  <2>6. Dot(Exp(0 * Angle(1, 0)), z[0]) = z[0][1]
    <3>1. 0 * Angle(1, 0) = 0
      BY <1>2
    <3>2. Dot(One, z[0]) = z[0][1]
      BY <2>2, Parts DEF Dot, One
    <3> QED
      BY <3>1, <3>2, ExpSpecial
  <2>7. Dot(Exp(1 * Angle(1, 0)), z[0]) = z[0][2]
    <3>1. 1 * Angle(1, 0) = Pow2[LogMax - 1]
      BY <1>2
    <3>2. Dot(<<0, 1>>, z[0]) = z[0][2]
      BY <2>2, Parts DEF Dot
    <3> QED
      BY <3>1, <3>2, ExpSpecial
  <2>8. z[0][1] % P = z[0][1] /\ z[0][2] % P = z[0][2]
    BY <2>2, PFacts DEF Residue
  <2>9. Interpolated(z, 1) \in [0 .. 1 -> Residue]
    BY <1>0, <2>3 DEF Poly
  <2>10. Interpolated(z, 1)[0] = z[0][1] /\ Interpolated(z, 1)[1] = z[0][2]
    BY <2>4, <2>6, <2>7, <2>8
  <2> QED
    BY <2>9, <2>10
<1> QED
  BY <1>0, <1>1, <1>4

-----------------------------------------------------------------------------
(* What poly_split_fft puts into the slots of the two halves.              *)
EvenSlots(z, l) ==
  [u \in 0 .. hn(l - 1) - 1 |-> Halved(FPC_ADD(z[2 * u], z[2 * u + 1]))]
OddSlots(z, l) ==
  [u \in 0 .. hn(l - 1) - 1 |->
     Halved(FPC_MUL(FPC_SUB(z[2 * u], z[2 * u + 1]), Conj(Exp(Angle(l, 2 * u)))))]

LEMMA SlotPairs ==
  ASSUME NEW l \in 2 .. LogMax
  PROVE  /\ l \in 1 .. LogMax /\ l - 1 \in 1 .. LogMax
         /\ hn(l) = 2 * hn(l - 1) /\ n(l) = 2 * hn(l) /\ n(l - 1) = hn(l)
         /\ hn(l) \in Nat /\ hn(l - 1) \in Nat
         /\ \A u \in 0 .. hn(l - 1) - 1 :
              /\ u \in Nat /\ 2 * u \in 0 .. hn(l) - 1 /\ 2 * u + 1 \in 0 .. hn(l) - 1
         /\ \A s \in 0 .. hn(l) - 1 : \E u \in 0 .. hn(l - 1) - 1 : s = 2 * u \/ s = 2 * u + 1
         /\ \A k \in 0 .. n(l) - 1 : \E d \in 0 .. hn(l) - 1 : k = 2 * d \/ k = 2 * d + 1
<1>1. /\ l \in 1 .. LogMax /\ l - 1 \in 1 .. LogMax
  BY Pow2Assumption
<1>2. /\ hn(l) = 2 * hn(l - 1) /\ n(l) = 2 * hn(l) /\ n(l - 1) = hn(l)
      /\ hn(l) \in Nat /\ hn(l - 1) \in Nat
  BY <1>1, OpSizes
<1>3. \A M \in Nat : \A s \in 0 .. 2 * M - 1 : \E u \in 0 .. M - 1 : s = 2 * u \/ s = 2 * u + 1
  <2> TAKE M \in Nat
  <2> TAKE s \in 0 .. 2 * M - 1
  <2>1. s \div 2 \in 0 .. M - 1 /\ (s = 2 * (s \div 2) \/ s = 2 * (s \div 2) + 1)
    OBVIOUS
  <2> QED
    BY <2>1
<1> DEFINE M == hn(l - 1)  N == hn(l)
<1>4. \A u \in 0 .. M - 1 : u \in Nat /\ 2 * u \in 0 .. 2 * M - 1 /\ 2 * u + 1 \in 0 .. 2 * M - 1
  <2>1. M \in Nat
    BY <1>2
  <2> HIDE DEF M
  <2> QED
    BY <2>1
<1>5. /\ \A s \in 0 .. 2 * M - 1 : \E u \in 0 .. M - 1 : s = 2 * u \/ s = 2 * u + 1
      /\ \A k \in 0 .. 2 * N - 1 : \E d \in 0 .. N - 1 : k = 2 * d \/ k = 2 * d + 1
  BY <1>2, <1>3
<1> QED
  BY <1>1, <1>2, <1>4, <1>5, Zenon

LEMMA SplitSlots ==
  ASSUME NEW l \in 2 .. LogMax, NEW z \in Vec(l)
  PROVE  /\ EvenSlots(z, l) \in Vec(l - 1) /\ OddSlots(z, l) \in Vec(l - 1)
         /\ Halves(Interpolated(EvenSlots(z, l), l - 1), Interpolated(OddSlots(z, l), l - 1),
                   Interpolated(z, l), l)
         /\ \A u \in 0 .. hn(l - 1) - 1 :
              LET c == FPC_MUL(OddSlots(z, l)[u], Exp(Angle(l, 2 * u)))
              IN  /\ FPC_ADD(EvenSlots(z, l)[u], c) = z[2 * u]
                  /\ FPC_SUB(EvenSlots(z, l)[u], c) = z[2 * u + 1]
<1> DEFINE e == EvenSlots(z, l)
           o == OddSlots(z, l)
<1>1. ASSUME NEW u \in 0 .. hn(l - 1) - 1
      PROVE  /\ e[u] = Halved(FPC_ADD(z[2 * u], z[2 * u + 1]))
             /\ o[u] = Halved(FPC_MUL(FPC_SUB(z[2 * u], z[2 * u + 1]),
                                      Conj(Exp(Angle(l, 2 * u)))))
             /\ e[u] \in Complex /\ o[u] \in Complex
             /\ FPC_ADD(e[u], FPC_MUL(o[u], Exp(Angle(l, 2 * u)))) = z[2 * u]
             /\ FPC_SUB(e[u], FPC_MUL(o[u], Exp(Angle(l, 2 * u)))) = z[2 * u + 1]
  <2> DEFINE w == Exp(Angle(l, 2 * u))
             x == z[2 * u]
             y == z[2 * u + 1]
  <2>1. x \in Complex /\ y \in Complex /\ w \in Complex /\ FPC_MUL(w, Conj(w)) = One
    <3>1. x \in Complex /\ y \in Complex
      BY SlotPairs DEF Vec
    <3>2. w \in Complex /\ FPC_MUL(w, Conj(w)) = One
      BY WeightHalves, 0 \in Nat
    <3> QED
      BY <3>1, <3>2
  <2>2. /\ e[u] = Halved(FPC_ADD(x, y))
        /\ o[u] = Halved(FPC_MUL(FPC_SUB(x, y), Conj(w)))
    BY Zenon DEF EvenSlots, OddSlots
  <2> HIDE DEF w, x, y
  <2>3. e[u] \in Complex /\ o[u] \in Complex
    BY <2>1, <2>2, Closed, ConjConj, HalfFacts
  <2> DEFINE X == Halved(FPC_ADD(x, y))
             Y == Halved(FPC_MUL(FPC_SUB(x, y), Conj(w)))
  <2>4. FPC_ADD(X, FPC_MUL(Y, w)) = x /\ FPC_SUB(X, FPC_MUL(Y, w)) = y
    BY <2>1, MergeSplit, Zenon
  <2>5. /\ FPC_ADD(e[u], FPC_MUL(o[u], w)) = x
        /\ FPC_SUB(e[u], FPC_MUL(o[u], w)) = y
    BY <2>2, <2>4, Zenon
  <2> QED
    BY <2>2, <2>3, <2>5, Zenon DEF w, x, y
<1>2. e \in Vec(l - 1) /\ o \in Vec(l - 1)
  BY <1>1 DEF EvenSlots, OddSlots, Vec
<1>3. \A d \in 0 .. hn(l) - 1 :
        /\ Interpolated(z, l)[2 * d] = Interpolated(e, l - 1)[d]
        /\ Interpolated(z, l)[2 * d + 1] = Interpolated(o, l - 1)[d]
  BY <1>1, <1>2, InterpolatedHalves
<1> QED
  BY <1>1, <1>2, <1>3 DEF Halves

(***************************************************************************)
(* Interpolation and evaluation undo each other, by induction over the     *)
(* sizes: the butterfly of poly_merge_fft is the inverse of the one of     *)
(* poly_split_fft.                                                         *)
(***************************************************************************)
Inverts(l) ==
  /\ \A z \in Vec(l) : Values(Interpolated(z, l), l) = z
  /\ \A f \in Poly(l) : Interpolated(Values(f, l), l) = f

LEMMA InverseStep ==
  ASSUME NEW l \in 2 .. LogMax, Inverts(l - 1)
  PROVE  Inverts(l)
<1>0. l \in 1 .. LogMax /\ l - 1 \in 1 .. LogMax /\ n(l - 1) = hn(l) /\ n(l - 1) = Pow2[l - 1]
      /\ n(l) = Pow2[l]
  BY SlotPairs, OpSizes
<1>1. ASSUME NEW z \in Vec(l)
      PROVE  Values(Interpolated(z, l), l) = z
  <2> DEFINE e == EvenSlots(z, l)
             o == OddSlots(z, l)
             f == Interpolated(z, l)
             fe == Interpolated(e, l - 1)
             fo == Interpolated(o, l - 1)
  <2>1. e \in Vec(l - 1) /\ o \in Vec(l - 1) /\ Halves(fe, fo, f, l)
    BY SplitSlots
  <2>2. f \in Poly(l) /\ fe \in Poly(l - 1) /\ fo \in Poly(l - 1)
    BY <1>0, <2>1, InterpolatedIs
  <2>3. ASSUME NEW u \in 0 .. hn(l - 1) - 1
        PROVE  Value(f, l, 2 * u) = z[2 * u] /\ Value(f, l, 2 * u + 1) = z[2 * u + 1]
    <3>1. Value(fe, l - 1, u) = e[u] /\ Value(fo, l - 1, u) = o[u]
      <4>1. Values(fe, l - 1) = e /\ Values(fo, l - 1) = o
        BY <2>1, Zenon DEF Inverts
      <4>2. Values(fe, l - 1)[u] = Value(fe, l - 1, u) /\ Values(fo, l - 1)[u] = Value(fo, l - 1, u)
        BY <1>0, <2>2, ValueIs
      <4> QED
        BY <4>1, <4>2, Zenon
    <3>2. LET w == Exp(Angle(l, 2 * u))
              c == FPC_MUL(Value(fo, l - 1, u), w)
          IN  /\ Value(f, l, 2 * u) = FPC_ADD(Value(fe, l - 1, u), c)
              /\ Value(f, l, 2 * u + 1) = FPC_SUB(Value(fe, l - 1, u), c)
      <4> HIDE DEF f, fe, fo
      <4> QED
        BY <2>1, <2>2, ValueHalves
    <3>3. LET c == FPC_MUL(o[u], Exp(Angle(l, 2 * u)))
          IN  FPC_ADD(e[u], c) = z[2 * u] /\ FPC_SUB(e[u], c) = z[2 * u + 1]
      BY SplitSlots
    <3> HIDE DEF f, fe, fo, e, o
    <3> QED
      BY <3>1, <3>2, <3>3, Zenon
  <2> HIDE DEF f, fe, fo, e, o
  <2>4. \A s \in 0 .. hn(l) - 1 : Value(f, l, s) = z[s]
    <3> TAKE s \in 0 .. hn(l) - 1
    <3>1. PICK u \in 0 .. hn(l - 1) - 1 : s = 2 * u \/ s = 2 * u + 1
      BY SlotPairs
    <3> QED
      BY <2>3, <3>1
  <2>5. Values(f, l) = z
    <3>1. z = [s \in 0 .. hn(l) - 1 |-> z[s]]
      BY DEF Vec
    <3> QED
      BY <2>4, <3>1 DEF Values
  <2> QED
    BY <2>5 DEF f
<1>2. ASSUME NEW f \in Poly(l)
      PROVE  Interpolated(Values(f, l), l) = f
  <2> DEFINE z == Values(f, l)
             e == [d \in 0 .. hn(l) - 1 |-> f[2 * d]]
             o == [d \in 0 .. hn(l) - 1 |-> f[2 * d + 1]]
             g == Interpolated(z, l)
  <2>1. z \in Vec(l) /\ g \in Poly(l)
    <3>1. 0 \in 0 .. hn(l) - 1
      BY <1>0, OpSizes
    <3>2. z \in Vec(l)
      BY <1>0, <3>1, ValueIs
    <3> QED
      BY <1>0, <3>2, InterpolatedIs
  <2>2. e \in Poly(l - 1) /\ o \in Poly(l - 1) /\ Halves(e, o, f, l)
    <3>1. Poly(l) = [0 .. n(l) - 1 -> Residue] /\ Poly(l - 1) = [0 .. hn(l) - 1 -> Residue]
      BY <1>0, Zenon DEF Poly
    <3>2. \A d \in 0 .. hn(l) - 1 : 2 * d \in 0 .. n(l) - 1 /\ 2 * d + 1 \in 0 .. n(l) - 1
      BY SlotPairs
    <3> QED
      BY <3>1, <3>2 DEF Halves
  <2> HIDE DEF e, o
  <2>3. ASSUME NEW u \in 0 .. hn(l - 1) - 1
        PROVE  /\ Value(e, l - 1, u) = EvenSlots(z, l)[u]
               /\ Value(o, l - 1, u) = OddSlots(z, l)[u]
    <3> DEFINE w == Exp(Angle(l, 2 * u))
               E == Value(e, l - 1, u)
               O == Value(o, l - 1, u)
    <3>1. /\ Value(f, l, 2 * u) = FPC_ADD(E, FPC_MUL(O, w))
          /\ Value(f, l, 2 * u + 1) = FPC_SUB(E, FPC_MUL(O, w))
      BY <2>2, ValueHalves
    <3>2. z[2 * u] = Value(f, l, 2 * u) /\ z[2 * u + 1] = Value(f, l, 2 * u + 1)
      BY SlotPairs DEF Values
    <3>3. E \in Complex /\ O \in Complex /\ w \in Complex /\ FPC_MUL(w, Conj(w)) = One
      BY <1>0, <2>2, ValueIs, WeightHalves, 0 \in Nat
    <3>4. /\ EvenSlots(z, l)[u] = Halved(FPC_ADD(z[2 * u], z[2 * u + 1]))
          /\ OddSlots(z, l)[u] =
               Halved(FPC_MUL(FPC_SUB(z[2 * u], z[2 * u + 1]), Conj(w)))
      BY Zenon DEF EvenSlots, OddSlots
    <3> HIDE DEF w, E, O
    <3>5. /\ Halved(FPC_ADD(FPC_ADD(E, FPC_MUL(O, w)), FPC_SUB(E, FPC_MUL(O, w)))) = E
          /\ Halved(FPC_MUL(FPC_SUB(FPC_ADD(E, FPC_MUL(O, w)), FPC_SUB(E, FPC_MUL(O, w))),
                            Conj(w))) = O
      BY <3>3, SplitMerged
    <3> QED
      BY <3>1, <3>2, <3>4, <3>5, Zenon DEF E, O
  <2>4. Interpolated(EvenSlots(z, l), l - 1) = e /\ Interpolated(OddSlots(z, l), l - 1) = o
    <3>1. EvenSlots(z, l) = Values(e, l - 1) /\ OddSlots(z, l) = Values(o, l - 1)
      <4>1. /\ EvenSlots(z, l) = [u \in 0 .. hn(l - 1) - 1 |-> EvenSlots(z, l)[u]]
            /\ OddSlots(z, l) = [u \in 0 .. hn(l - 1) - 1 |-> OddSlots(z, l)[u]]
        BY <2>1, SplitSlots DEF Vec
      <4> QED
        BY <2>3, <4>1 DEF Values
    <3> QED
      BY <2>2, <3>1, Zenon DEF Inverts
  <2>5. Halves(e, o, g, l)
    BY <2>1, <2>4, SplitSlots
  <2> HIDE DEF z, g
  <2>6. \A k \in 0 .. n(l) - 1 : g[k] = f[k]
    <3> TAKE k \in 0 .. n(l) - 1
    <3>1. PICK d \in 0 .. hn(l) - 1 : k = 2 * d \/ k = 2 * d + 1
      BY SlotPairs
    <3> QED
      BY <2>2, <2>5, <3>1 DEF Halves
  <2>7. f \in [0 .. n(l) - 1 -> Residue] /\ g \in [0 .. n(l) - 1 -> Residue]
    BY <1>0, <2>1, Zenon DEF Poly
  <2>8. g = f
    <3>1. f = [k \in 0 .. n(l) - 1 |-> f[k]] /\ g = [k \in 0 .. n(l) - 1 |-> g[k]]
      BY <2>7
    <3> QED
      BY <2>6, <3>1
  <2> QED
    BY <2>8 DEF g, z
<1> QED
  BY <1>1, <1>2 DEF Inverts

LEMMA InterpolationInverts ==
  \A l \in 1 .. LogMax : Inverts(l)
<1> DEFINE T == {m \in Nat : m + 1 <= LogMax => Inverts(m + 1)}
<1>1. Inverts(1)
  <2>1. 0 \in 0 .. hn(1) - 1 /\ 0 .. hn(1) - 1 = {0} /\ 1 \in 1 .. LogMax /\ Pow2[1] = 2
    <3>1. 1 \in 1 .. LogMax /\ hn(1) = 1 /\ n(1) = 2
      BY SmallestSize
    <3> QED
      BY <3>1 DEF n
  <2>2. ASSUME NEW z \in Vec(1)
        PROVE  Values(Interpolated(z, 1), 1) = z
    <3> DEFINE f == Interpolated(z, 1)
    <3>1. f \in Poly(1) /\ f = [d \in 0 .. 1 |-> IF d = 0 THEN z[0][1] ELSE z[0][2]]
      BY <2>1, SmallestSize, InterpolatedIs
    <3>2. z[0] \in Complex /\ z = [s \in {0} |-> z[0]]
      BY <2>1 DEF Vec
    <3>3. z[0] = <<z[0][1], z[0][2]>>
      BY <3>2, Closed, Parts
    <3>4. f[0] = z[0][1] /\ f[1] = z[0][2]
      BY <3>1
    <3>5. Value(f, 1, 0) = z[0]
      BY <3>1, <3>3, <3>4, SmallestSize
    <3> HIDE DEF f
    <3>6. Values(f, 1) = [s \in {0} |-> Value(f, 1, s)]
      BY <2>1 DEF Values
    <3>7. Values(f, 1) = z
      BY <3>2, <3>5, <3>6
    <3> QED
      BY <3>7 DEF f
  <2>3. ASSUME NEW f \in Poly(1)
        PROVE  Interpolated(Values(f, 1), 1) = f
    <3>1. Values(f, 1) \in Vec(1) /\ Values(f, 1)[0] = Value(f, 1, 0)
      BY <2>1, ValueIs
    <3>2. Value(f, 1, 0) = <<f[0], f[1]>>
      BY SmallestSize
    <3>3. Interpolated(Values(f, 1), 1) =
            [d \in 0 .. 1 |-> IF d = 0 THEN Values(f, 1)[0][1] ELSE Values(f, 1)[0][2]]
      BY <3>1, SmallestSize
    <3>4. Interpolated(Values(f, 1), 1) = [d \in 0 .. 1 |-> IF d = 0 THEN f[0] ELSE f[1]]
      BY <3>1, <3>2, <3>3
    <3>5. f \in [0 .. 1 -> Residue]
      <4>1. Pow2[1] - 1 = 1
        BY <2>1
      <4> QED
        BY <4>1 DEF Poly
    <3> QED
      BY <3>4, <3>5
  <2> QED
    BY <2>2, <2>3 DEF Inverts
<1>2. 0 \in T
  BY <1>1
<1>3. ASSUME NEW k \in Nat, k \in T
      PROVE  k + 1 \in T
  <2>1. ASSUME (k + 1) + 1 <= LogMax
        PROVE  Inverts((k + 1) + 1)
    <3> DEFINE l == (k + 1) + 1
    <3>1. l \in 2 .. LogMax /\ l - 1 = k + 1 /\ k + 1 <= LogMax
      BY <2>1, Pow2Assumption
    <3>2. Inverts(l - 1)
      BY <1>3, <3>1
    <3> HIDE DEF l
    <3>3. Inverts(l)
      BY <3>1, <3>2, InverseStep
    <3> QED
      BY <3>3 DEF l
  <2> QED
    BY <2>1
<1>4. Nat \subseteq T
  <2> HIDE DEF T
  <2> QED
    BY <1>2, <1>3, SetInduction
<1>5. ASSUME NEW l \in 1 .. LogMax
      PROVE  Inverts(l)
  <2> DEFINE m == l - 1
  <2>1. m \in Nat /\ m + 1 = l /\ m + 1 <= LogMax
    BY Pow2Assumption
  <2>2. m \in T
    BY <1>4, <2>1
  <2> QED
    BY <2>1, <2>2
<1> QED
  BY <1>5

-----------------------------------------------------------------------------
(* The polynomial that slots stand for, and the only one with their values. *)
LEMMA InterpolatedValue ==
  ASSUME NEW l \in 1 .. LogMax, NEW z \in Vec(l)
  PROVE  /\ Interpolated(z, l) \in Poly(l)
         /\ \A s \in 0 .. hn(l) - 1 : Value(Interpolated(z, l), l, s) = z[s]
         /\ \A f \in Poly(l) : (\A s \in 0 .. hn(l) - 1 : Value(f, l, s) = z[s])
                                => Interpolated(z, l) = f
<1>1. Interpolated(z, l) \in Poly(l)
  BY InterpolatedIs
<1>2. Values(Interpolated(z, l), l) = z
  BY InterpolationInverts, Zenon DEF Inverts
<1>3. ASSUME NEW s \in 0 .. hn(l) - 1
      PROVE  Value(Interpolated(z, l), l, s) = z[s]
  <2>1. Values(Interpolated(z, l), l)[s] = Value(Interpolated(z, l), l, s)
    BY Zenon DEF Values
  <2> QED
    BY <1>2, <2>1
<1>4. ASSUME NEW f \in Poly(l), \A s \in 0 .. hn(l) - 1 : Value(f, l, s) = z[s]
      PROVE  Interpolated(z, l) = f
  <2>1. z = [s \in 0 .. hn(l) - 1 |-> z[s]]
    BY DEF Vec
  <2>2. Values(f, l) = z
    BY <1>4, <2>1 DEF Values
  <2> QED
    BY <2>2, InterpolationInverts, Zenon DEF Inverts
<1> QED
  BY <1>1, <1>3, <1>4, Zenon

(* Reals are added and multiplied by constants in either representation.   *)
LEMMA LinearSlots ==
  ASSUME NEW l \in 1 .. LogMax, NEW z \in Vec(l), NEW w \in Vec(l), NEW t \in Vec(l),
         NEW r \in Int,
         \A s \in 0 .. hn(l) - 1 : /\ t[s][1] = (z[s][1] + r * w[s][1]) % P
                                   /\ t[s][2] = (z[s][2] + r * w[s][2]) % P
  PROVE  Interpolated(t, l) =
           [d \in 0 .. n(l) - 1 |-> (Interpolated(z, l)[d] + r * Interpolated(w, l)[d]) % P]
<1> DEFINE f == Interpolated(z, l)
           g == Interpolated(w, l)
           h == [d \in 0 .. n(l) - 1 |-> f[d] + r * g[d]]
           k == [d \in 0 .. n(l) - 1 |-> (f[d] + r * g[d]) % P]
           N == n(l)
<1>0. /\ l \in 0 .. LogMax /\ N = Pow2[l] /\ N \in Nat
      /\ f \in Poly(l) /\ g \in Poly(l)
      /\ \A s \in 0 .. hn(l) - 1 : Value(f, l, s) = z[s] /\ Value(g, l, s) = w[s]
  BY OpSizes, InterpolatedValue
<1> HIDE DEF f, g
<1>1. \A d \in 0 .. N - 1 : /\ f[d] \in Int /\ g[d] \in Int /\ h[d] = f[d] + r * g[d]
                            /\ h[d] \in Int /\ k[d] = (f[d] + r * g[d]) % P
  <2>1. \A d \in 0 .. N - 1 : f[d] \in Int /\ g[d] \in Int
    BY <1>0, PolyReads
  <2> TAKE d \in 0 .. N - 1
  <2>2. r * g[d] \in Int
    BY <2>1
  <2> QED
    BY <2>1, <2>2
<1>2. k \in Poly(l)
  <2>1. \A d \in 0 .. N - 1 : k[d] \in Residue
    BY <1>1, PFacts DEF Residue
  <2>2. k \in [0 .. N - 1 -> Residue]
    BY <2>1
  <2> QED
    BY <1>0, <2>2, Zenon DEF Poly
<1> HIDE DEF h, k, N
<1>3. ASSUME NEW s \in 0 .. hn(l) - 1
      PROVE  Value(k, l, s) = t[s]
  <2> DEFINE x == Exp(Angle(l, s))
             R == <<r, 0>>
  <2>1. x \in Complex /\ x \in Pair
    <3>1. Angle(l, s) \in Nat
      BY WeightIs
    <3> QED
      BY <3>1, ExpSpecial
  <2>2. /\ Value(k, l, s) = Horner(k, 0, 1, N, x)
        /\ Value(f, l, s) = Horner(f, 0, 1, N, x)
        /\ Value(g, l, s) = Horner(g, 0, 1, N, x)
    BY <1>0, <1>2, ValueIs DEF N
  <2> HIDE DEF x
  <2>3. \A d \in 0 .. N - 1 : 0 + d = d /\ 0 + d * 1 = d
    OBVIOUS
  <2>4. Combines(h, f, g, r, 0, N)
    BY <1>1, <2>3 DEF Combines
  <2>5. Horner(h, 0, 1, N, x) =
          FPC_ADD(Horner(f, 0, 1, N, x), FPC_MUL(R, Horner(g, 0, 1, N, x)))
    <3>1. \A terms \in Nat : \A d \in Nat :
             Combines(h, f, g, r, d, terms) =>
               Horner(h, d, 1, terms, x) =
                 FPC_ADD(Horner(f, d, 1, terms, x),
                         FPC_MUL(<<r, 0>>, Horner(g, d, 1, terms, x)))
      BY <2>1, HornerLinear
    <3> QED
      BY <1>0, <2>4, <3>1
  <2>6. Reads(h, 0, 1, N) /\ Reads(k, 0, 1, N)
    BY <1>0, <1>1, <1>2, <2>3, CombinesReads, PolyReads, PFacts, ZenonT(60) DEF Reads
  <2>7. Alike(k, 0, 1, h, 0, 1, N)
    <3>1. \A d \in 0 .. N - 1 : k[d] % P = h[d] % P
      <4>1. \A a \in Int : (a % P) % P = a % P
        BY ModLinear, 0 \in Int
      <4>2. \A d \in 0 .. N - 1 : h[d] \in Int /\ k[d] = h[d] % P
        BY <1>1
      <4> QED
        BY <4>1, <4>2
    <3> QED
      BY <2>3, <3>1 DEF Alike
  <2>8. Horner(k, 0, 1, N, x) = Horner(h, 0, 1, N, x)
    BY <1>0, <2>1, <2>6, <2>7, HornerSame, 0 \in Nat, 1 \in Nat
  <2>9. Value(k, l, s) = FPC_ADD(z[s], FPC_MUL(R, w[s]))
    BY <1>0, <2>2, <2>5, <2>8, Zenon
  <2>10. z[s] \in Complex /\ w[s] \in Complex /\ t[s] \in Complex
    BY DEF Vec
  <2>11. /\ z[s][1] \in Int /\ z[s][2] \in Int /\ w[s][1] \in Int /\ w[s][2] \in Int
         /\ w[s] \in Pair /\ t[s] = <<t[s][1], t[s][2]>>
    BY <2>10, Closed, Parts
  <2>12. FPC_MUL(R, w[s]) = <<(r * w[s][1]) % P, (r * w[s][2]) % P>>
    BY <2>11, ScaleIsMul DEF Scale
  <2>13. \A a, b \in Int : (a + ((r * b) % P)) % P = (a + r * b) % P
    <3> TAKE a, b \in Int
    <3> DEFINE c == r * b
    <3>1. c \in Int
      OBVIOUS
    <3> HIDE DEF c
    <3>2. (a + (c % P)) % P = (a + c) % P
      BY <3>1, ModTerms, 0 \in Int
    <3> QED
      BY <3>2 DEF c
  <2>14. FPC_ADD(z[s], FPC_MUL(R, w[s])) = <<(z[s][1] + r * w[s][1]) % P,
                                            (z[s][2] + r * w[s][2]) % P>>
    <3> DEFINE y == FPC_MUL(R, w[s])
    <3>1. y[1] = (r * w[s][1]) % P /\ y[2] = (r * w[s][2]) % P
      BY <2>12
    <3>2. /\ (z[s][1] + ((r * w[s][1]) % P)) % P = (z[s][1] + r * w[s][1]) % P
          /\ (z[s][2] + ((r * w[s][2]) % P)) % P = (z[s][2] + r * w[s][2]) % P
      BY <2>11, <2>13, Zenon
    <3> HIDE DEF y
    <3>3. FPC_ADD(z[s], y) = <<(z[s][1] + r * w[s][1]) % P, (z[s][2] + r * w[s][2]) % P>>
      BY <3>1, <3>2, Zenon DEF FPC_ADD
    <3> QED
      BY <3>3 DEF y
  <2> QED
    BY <2>9, <2>11, <2>14
<1>4. Interpolated(t, l) = k
  BY <1>2, <1>3, InterpolatedValue
<1> QED
  BY <1>4 DEF k, f, g

(* The slots are multiplied: the polynomials are, modulo X^N + 1.          *)
LEMMA ProductSlots ==
  ASSUME NEW l \in 1 .. LogMax, NEW z \in Vec(l), NEW w \in Vec(l), NEW t \in Vec(l),
         \A s \in 0 .. hn(l) - 1 : t[s] = FPC_MUL(z[s], w[s])
  PROVE  Interpolated(t, l) = SchoolbookMul(Interpolated(z, l), Interpolated(w, l), l)
<1> DEFINE f == Interpolated(z, l)
           g == Interpolated(w, l)
           c == SchoolbookMul(f, g, l)
<1>0. /\ l \in 0 .. LogMax /\ f \in Poly(l) /\ g \in Poly(l)
      /\ \A s \in 0 .. hn(l) - 1 : Value(f, l, s) = z[s] /\ Value(g, l, s) = w[s]
  BY OpSizes, InterpolatedValue
<1> HIDE DEF f, g
<1>1. c \in Poly(l)
  BY <1>0, SchoolbookType
<1>2. ASSUME NEW s \in 0 .. hn(l) - 1
      PROVE  Value(c, l, s) = t[s]
  <2> DEFINE x == Exp(Angle(l, s))
  <2>1. /\ Value(c, l, s) = Horner(c, 0, 1, n(l), x)
        /\ Value(f, l, s) = Horner(f, 0, 1, n(l), x)
        /\ Value(g, l, s) = Horner(g, 0, 1, n(l), x)
    BY <1>0, <1>1, ValueIs
  <2>2. Angle(l, s) \in Nat /\ Exp(Pow2[l] * Angle(l, s)) = Neg(One) /\ n(l) = Pow2[l]
    BY <1>0, BlockRoot, OpSizes
  <2>3. Horner(c, 0, 1, Pow2[l], x) =
          FPC_MUL(Horner(f, 0, 1, Pow2[l], x), Horner(g, 0, 1, Pow2[l], x))
    BY <1>0, <2>2, ProductValue
  <2> HIDE DEF c, x
  <2> QED
    BY <1>0, <2>1, <2>2, <2>3
<1> HIDE DEF c
<1>3. Interpolated(t, l) = c
  BY <1>1, <1>2, InterpolatedValue
<1> QED
  BY <1>3 DEF c, f, g


(* Sums with multiples of the terms, scaled alike.                         *)
LEMMA ScaledTotals ==
  ASSUME NEW N \in Nat, NEW t, NEW u, NEW c \in Int, NEW p \in Int,
         Terms(t, N), Terms(u, N), \A k \in 0 .. N - 1 : t[k] % P = (c * u[k]) % P
  PROVE  (p * Total(t, N)) % P = (c * ((p * Total(u, N)) % P)) % P
<1> DEFINE T == Total(t, N)
           U == Total(u, N)
           cU == c * U
           pU == p * U
<1>0. T \in Int /\ U \in Int
  BY TotalStep
<1>1. T % P = cU % P
  <2>1. \A k \in 0 .. N - 1 : t[k] % P = (c * u[k] + 0 * u[k]) % P
    <3> TAKE k \in 0 .. N - 1
    <3>1. u[k] \in Int
      BY DEF Terms
    <3>2. c * u[k] + 0 * u[k] = c * u[k]
      BY <3>1
    <3> QED
      BY <3>2
  <2>2. T % P = (c * U + 0 * U) % P
    BY <2>1, TotalLinear, 0 \in Int
  <2>3. c * U + 0 * U = c * U
    BY <1>0
  <2> QED
    BY <2>2, <2>3
<1> HIDE DEF T, U
<1>2. cU \in Int /\ pU \in Int
  BY <1>0
<1>3. p * cU = c * pU
  BY <1>0
<1> HIDE DEF cU, pU
<1>4. (p * (T % P)) % P = (p * T) % P /\ (p * (cU % P)) % P = (p * cU) % P
      /\ (c * (pU % P)) % P = (c * pU) % P
  <2>1. \A q \in Int, e \in Int : (e * (q % P)) % P = (e * q) % P
    BY ModTerms, 0 \in Int
  <2> QED
    BY <1>0, <1>2, <2>1, Zenon
<1>5. (p * T) % P = (c * (pU % P)) % P
  BY <1>1, <1>3, <1>4
<1> QED
  BY <1>5 DEF T, U, pU

(* The slots are conjugated: X becomes 1/X.                                *)
LEMMA AdjointSlots ==
  ASSUME NEW l \in 1 .. LogMax, NEW z \in Vec(l), NEW t \in Vec(l),
         \A s \in 0 .. hn(l) - 1 : t[s] = Conj(z[s])
  PROVE  Interpolated(t, l) = Ring!Adjoint(Interpolated(z, l), l)
<1> DEFINE F == Interpolated(z, l)
           G == Interpolated(t, l)
           p == fpr_p2_tab[l]
           N == n(l)
           M == hn(l)
<1>0. /\ l \in 0 .. LogMax /\ N = Pow2[l] /\ N \in Nat /\ M \in Nat /\ p \in Int
  BY OpSizes, P2Recursion
<1>1. /\ F \in [0 .. N - 1 -> Residue] /\ G \in [0 .. N - 1 -> Residue]
  <2>1. F \in Poly(l) /\ G \in Poly(l)
    BY InterpolatedIs
  <2> QED
    BY <1>0, <2>1, Zenon DEF Poly
<1>2. \A d \in 0 .. N - 1 :
        /\ Terms(Projections(z, l, d), M) /\ Terms(Projections(t, l, d), M)
        /\ \A s \in 0 .. M - 1 :
             /\ Projections(z, l, d)[s] = Dot(Exp(d * Angle(l, s)), z[s])
             /\ Projections(t, l, d)[s] = Dot(Exp(d * Angle(l, s)), t[s])
        /\ F[d] = (p * Total(Projections(z, l, d), M)) % P
        /\ G[d] = (p * Total(Projections(t, l, d), M)) % P
  BY InterpolatedIs
<1> HIDE DEF F, G, p, N, M
<1>3. \A s \in 0 .. M - 1 : z[s] \in Complex /\ t[s] = Conj(z[s]) /\ Angle(l, s) \in Nat
  BY WeightIs DEF Vec, M
<1>4. 0 \in 0 .. N - 1 => G[0] = F[0]
  <2> HAVE 0 \in 0 .. N - 1
  <2> DEFINE zp == Projections(z, l, 0)
             tp == Projections(t, l, 0)
  <2>1. /\ Terms(zp, M) /\ Terms(tp, M)
        /\ F[0] = (p * Total(zp, M)) % P /\ G[0] = (p * Total(tp, M)) % P
    BY <1>2
  <2>2. ASSUME NEW s \in 0 .. M - 1
        PROVE  tp[s] % P = (1 * zp[s]) % P
    <3>1. /\ zp[s] = Dot(Exp(0 * Angle(l, s)), z[s])
          /\ tp[s] = Dot(Exp(0 * Angle(l, s)), t[s]) /\ zp[s] \in Int
      BY <1>2, <2>1, Zenon DEF Terms
    <3>2. Exp(0 * Angle(l, s)) = One
      BY <1>3, ExpSpecial
    <3>3. z[s] \in Complex /\ t[s] = Conj(z[s]) /\ One \in Complex
      BY <1>3, Closed
    <3>4. Dot(Conj(One), z[s]) % P = Dot(One, Conj(z[s])) % P
      BY <3>3, DotRules, 0 \in Int
    <3>5. Conj(One) = One
      BY PFacts DEF Conj, One
    <3>6. 1 * zp[s] = zp[s]
      BY <3>1
    <3> QED
      BY <3>1, <3>2, <3>3, <3>4, <3>5, <3>6, Zenon
  <2> HIDE DEF zp, tp
  <2>3. (p * Total(tp, M)) % P = (1 * ((p * Total(zp, M)) % P)) % P
    BY <1>0, <2>1, <2>2, ScaledTotals, 1 \in Int
  <2>4. F[0] \in Residue
    BY <1>1
  <2>5. (1 * F[0]) % P = F[0]
    BY <2>4, PFacts DEF Residue
  <2> QED
    BY <2>1, <2>3, <2>5, Zenon
<1>5. ASSUME NEW d \in 0 .. N - 1, d # 0
      PROVE  G[d] = (-F[N - d]) % P
  <2> DEFINE e == N - d
             zp == Projections(z, l, e)
             tp == Projections(t, l, d)
  <2>0. e \in 0 .. N - 1 /\ e \in Nat /\ d \in Nat /\ e + d = N
    BY <1>0, <1>5
  <2> HIDE DEF e
  <2>1. /\ Terms(zp, M) /\ Terms(tp, M)
        /\ F[e] = (p * Total(zp, M)) % P /\ G[d] = (p * Total(tp, M)) % P
    BY <1>2, <2>0
  <2>2. ASSUME NEW s \in 0 .. M - 1
        PROVE  tp[s] % P = ((-1) * zp[s]) % P
    <3> DEFINE A == Angle(l, s)
               x == Exp(d * A)
               y == Exp(e * A)
               v == z[s]
    <3>1. /\ zp[s] = Dot(y, v) /\ tp[s] = Dot(x, Conj(v)) /\ zp[s] \in Int
          /\ A \in Nat /\ v \in Complex
      BY <1>2, <1>3, <2>0, <2>1, Zenon DEF Terms
    <3>2. d * A \in Nat /\ e * A \in Nat /\ d * A + e * A = N * A
      <4> HIDE DEF A
      <4>1. d * A \in Nat /\ e * A \in Nat
        BY <2>0, <3>1
      <4>2. d * A + e * A = (e + d) * A
        BY <2>0, <3>1
      <4> QED
        BY <2>0, <4>1, <4>2
    <3>3. Exp(N * A) = Neg(One)
      <4>1. s \in Nat
        OBVIOUS
      <4> QED
        BY <1>0, <4>1, BlockRoot
    <3>4. FPC_MUL(x, y) = Neg(One) /\ FPC_MUL(y, Conj(y)) = One /\ x \in Complex /\ y \in Complex
      <4>1. Exp(d * A + e * A) = FPC_MUL(Exp(d * A), Exp(e * A))
        BY <3>2, ExpAdd
      <4>2. FPC_MUL(y, Conj(y)) = One /\ x \in Complex /\ y \in Complex
        BY <3>2, ExpNorm, ExpSpecial
      <4> QED
        BY <3>2, <3>3, <4>1, <4>2
    <3> HIDE DEF x, y, v, A, zp, tp
    <3>5. /\ Conj(y) \in Complex /\ Conj(y) \in Pair /\ x \in Pair /\ y \in Pair
          /\ One \in Pair /\ One \in Complex /\ Conj(v) \in Complex /\ Conj(Conj(v)) = v
      BY <3>1, <3>4, ConjConj, Closed
    <3>6. x = Neg(Conj(y))
      <4>1. FPC_MUL(x, FPC_MUL(y, Conj(y))) = x
        BY <3>4, <3>5, Units
      <4>2. FPC_MUL(FPC_MUL(x, y), Conj(y)) = FPC_MUL(x, FPC_MUL(y, Conj(y)))
        BY <3>5, MulAssoc
      <4>3. FPC_MUL(Neg(One), Conj(y)) = Neg(FPC_MUL(One, Conj(y)))
        BY <3>5, Negation
      <4>4. FPC_MUL(One, Conj(y)) = Conj(y)
        BY <3>5, Units
      <4> QED
        BY <3>4, <4>1, <4>2, <4>3, <4>4, Zenon
    <3>7. Dot(x, Conj(v)) % P = (-Dot(Conj(y), Conj(v))) % P
      BY <3>5, <3>6, DotRules, 0 \in Int
    <3>8. Dot(Conj(y), Conj(v)) % P = Dot(y, v) % P
      <4>1. Dot(Conj(y), Conj(v)) % P = Dot(y, Conj(Conj(v))) % P
        BY <3>4, <3>5, DotRules, 0 \in Int
      <4> QED
        BY <3>5, <4>1
    <3>9. Dot(Conj(y), Conj(v)) \in Int /\ Dot(y, v) \in Int
      BY <3>1, <3>4, <3>5, DotIs
    <3>10. \A a, b \in Int : a % P = b % P => (-a) % P = ((-1) * b) % P
      <4> TAKE a, b \in Int
      <4>1. (-(a % P)) % P = (-a) % P /\ (-(b % P)) % P = (-b) % P
        BY ModTerms, 0 \in Int
      <4>2. (-1) * b = -b
        OBVIOUS
      <4> QED
        BY <4>1, <4>2
    <3> QED
      BY <3>1, <3>7, <3>8, <3>9, <3>10
  <2> HIDE DEF zp, tp
  <2>3. (p * Total(tp, M)) % P = ((-1) * ((p * Total(zp, M)) % P)) % P
    BY <1>0, <2>1, <2>2, ScaledTotals, -1 \in Int
  <2>4. F[e] \in Residue
    BY <1>1, <2>0
  <2>5. ((-1) * F[e]) % P = (-F[e]) % P
    <3>1. (-1) * F[e] = -F[e]
      BY <2>4, PFacts DEF Residue
    <3> QED
      BY <3>1
  <2>6. G[d] = (-F[e]) % P
    BY <2>1, <2>3, <2>5, Zenon
  <2> QED
    BY <2>6 DEF e
<1>6. DOMAIN F = 0 .. N - 1 /\ G = [d \in 0 .. N - 1 |-> G[d]]
  BY <1>1
<1>7. G = Ring!Adjoint(F, l)
  <2>1. Ring!Adjoint(F, l) = [d \in 0 .. N - 1 |-> IF d = 0 THEN F[0] ELSE (-F[N - d]) % P]
    BY <1>0, <1>6 DEF Ring!Adjoint
  <2> QED
    BY <1>4, <1>5, <1>6, <2>1
<1> QED
  BY <1>7 DEF F, G

(* All slots 1: the polynomial 1.                                          *)
LEMMA OneSlots ==
  ASSUME NEW l \in 1 .. LogMax, NEW t \in Vec(l), \A s \in 0 .. hn(l) - 1 : t[s] = One
  PROVE  Interpolated(t, l) = Monomial(l, 0)
<1> DEFINE f == Monomial(l, 0)
           N == n(l)
<1>0. N = Pow2[l] /\ N \in Nat /\ N >= 1 /\ l \in 0 .. LogMax
  BY OpSizes
<1> HIDE DEF N
<1>1. f = [i \in 0 .. N - 1 |-> IF i = 0 THEN 1 ELSE 0]
  BY <1>0, Zenon DEF Monomial
<1>2. f \in Poly(l)
  <2>1. 0 \in Residue /\ 1 \in Residue
    BY PAssumption DEF Residue
  <2> QED
    BY <1>0, <1>1, <2>1 DEF Poly
<1> HIDE DEF f
<1>3. ASSUME NEW s \in 0 .. hn(l) - 1
      PROVE  Value(f, l, s) = t[s]
  <2> DEFINE x == Exp(Angle(l, s))
             m == N - 1
  <2>0. m \in Nat /\ m + 1 = N
    BY <1>0
  <2>1. x \in Complex /\ x \in Pair
    <3>1. Angle(l, s) \in Nat
      BY WeightIs
    <3> QED
      BY <3>1, ExpSpecial
  <2>2. Value(f, l, s) = Horner(f, 0, 1, N, x)
    BY <1>2, ValueIs DEF N
  <2>3. Reads(f, 0, 1, N)
    BY <1>0, <1>2, PolyReads
  <2> HIDE DEF x, m
  <2>4. Horner(f, 0, 1, m + 1, x) = FPC_ADD(FPC_MUL(Horner(f, 0 + 1, 1, m, x), x), <<f[0], 0>>)
    BY <2>0, <2>1, <2>3, HornerLow, 0 \in Nat, 1 \in Nat, ZenonT(60)
  <2>5. Horner(f, 1, 1, m, x) = Zero
    <3>1. \A k \in 0 .. m - 1 : f[1 + k] = 0
      BY <1>1, <2>0
    <3>2. \A terms \in Nat : \A d \in Nat :
            (\A k \in 0 .. terms - 1 : f[d + k] = 0) => Horner(f, d, 1, terms, x) = Zero
      BY <2>1, HornerNull
    <3> QED
      BY <2>0, <3>1, <3>2, 1 \in Nat
  <2>6. <<f[0], 0>> = One /\ 0 + 1 = 1
    BY <1>0, <1>1 DEF One
  <2>7. FPC_MUL(Zero, x) = Zero /\ FPC_ADD(Zero, One) = One
    BY <2>1, Units, Closed
  <2> QED
    BY <2>0, <2>2, <2>4, <2>5, <2>6, <2>7
<1>4. Interpolated(t, l) = f
  BY <1>2, <1>3, InterpolatedValue
<1> QED
  BY <1>4 DEF f

-----------------------------------------------------------------------------
(***************************************************************************)
(* Inverses: P is prime, so the least positive multiple of r modulo P      *)
(* divides P and is 1.                                                     *)
(***************************************************************************)
LEMMA InverseExists ==
  ASSUME NEW r \in 1 .. P - 1
  PROVE  \E q \in 1 .. P - 1 : (q * r) % P = 1
<1> DEFINE S == {x \in 1 .. P - 1 : \E q \in Int : (q * r) % P = x}
<1>0. P \in Nat /\ P > 2 /\ (\A d \in 2 .. P - 1 : P % d # 0) /\ r \in Nat
  BY PAssumption
<1>1. r \in S
  <2>1. 1 * r = r /\ r % P = r
    BY <1>0
  <2> QED
    BY <2>1, 1 \in Int
<1>2. PICK g \in S : \A y \in S : g <= y
  <2>1. S \in SUBSET Nat /\ S # {}
    <3>1. S \subseteq 1 .. P - 1
      OBVIOUS
    <3>2. 1 .. P - 1 \subseteq Nat
      BY <1>0
    <3> HIDE DEF S
    <3> QED
      BY <1>1, <3>1, <3>2
  <2> HIDE DEF S
  <2> QED
    BY <2>1, LeastElement
<1>3. PICK q \in Int : (q * r) % P = g
  BY <1>2
<1>4. g \in 1 .. P - 1 /\ g \in Nat /\ g > 0
  BY <1>0, <1>2
<1>5. P % g = 0
  <2> DEFINE k == P \div g
             m == P % g
             j == -(k * q)
             a == q * r
  <2>1. k \in Int /\ m \in 0 .. g - 1 /\ P = g * k + m
    BY <1>0, <1>4, DivMod
  <2>2. a \in Int /\ a % P = g
    BY <1>0, <1>3
  <2> HIDE DEF m, a
  <2>3. j \in Int /\ j * r = (-k) * a
    <3>1. (-(k * q)) * r = (-k) * (q * r) /\ -(k * q) \in Int
      <4> HIDE DEF k
      <4> QED
        BY <1>0, <2>1
    <3> QED
      BY <3>1 DEF a
  <2> HIDE DEF k, j
  <2>4. (j * r) % P = m
    <3>1. -k \in Int
      BY <2>1
    <3>2. ((-k) * (a % P)) % P = ((-k) * a) % P
      BY <2>2, <3>1, ModTerms, 0 \in Int, ZenonT(60)
    <3>3. (-k) * g = m + (-1) * P
      BY <1>4, <2>1
    <3>4. (m + (-1) * P) % P = m % P
      BY <2>1, Shifted, -1 \in Int
    <3>5. m % P = m
      BY <1>0, <1>4, <2>1
    <3> QED
      BY <2>2, <2>3, <3>2, <3>3, <3>4, <3>5, Zenon
  <2>5. m = 0
    <3> SUFFICES ASSUME m # 0 PROVE FALSE
      OBVIOUS
    <3>1. m \in 1 .. P - 1
      BY <1>0, <1>4, <2>1
    <3>2. m \in S
      BY <2>3, <2>4, <3>1
    <3>3. g <= m
      BY <1>2, <3>2
    <3> QED
      BY <1>4, <2>1, <3>3
  <2> QED
    BY <2>5 DEF m
<1>6. g = 1
  BY <1>0, <1>4, <1>5
<1> DEFINE h == q % P
<1>7. h \in 0 .. P - 1 /\ (h * r) % P = 1
  <2>1. h \in 0 .. P - 1
    BY <1>0
  <2>2. ((q % P) * r) % P = (q * r) % P
    <3>1. (r * (q % P)) % P = (r * q) % P
      BY <1>0, <1>3, ModTerms, 0 \in Int
    <3>2. r * (q % P) = (q % P) * r /\ r * q = q * r
      BY <1>0, <1>3, <2>1
    <3> QED
      BY <3>1, <3>2, Zenon
  <2> QED
    BY <1>3, <1>6, <2>1, <2>2
<1> HIDE DEF h
<1>8. h # 0
  <2> SUFFICES ASSUME h = 0 PROVE FALSE
    OBVIOUS
  <2>1. 0 * r = 0 /\ 0 % P = 0
    BY <1>0
  <2> QED
    BY <1>7, <2>1
<1>9. h \in 1 .. P - 1
  BY <1>0, <1>7, <1>8
<1> QED
  BY <1>7, <1>9

LEMMA InverseIs ==
  ASSUME NEW r \in 1 .. P - 1
  PROVE  /\ fpr_inv[r] \in 1 .. P - 1 /\ fpr_inv[r] \in Int /\ fpr_inv[r] \in Residue
         /\ (fpr_inv[r] * r) % P = 1
         /\ FPC_MUL(<<fpr_inv[r], 0>>, <<r, 0>>) = One
<1>1. fpr_inv[r] = CHOOSE q \in 1 .. P - 1 : (q * r) % P = 1
  BY DEF fpr_inv
<1> DEFINE q == fpr_inv[r]
<1>2. q \in 1 .. P - 1 /\ (q * r) % P = 1
  BY <1>1, InverseExists
<1>3. P \in Nat /\ P > 2 /\ r \in Int
  BY PAssumption
<1> HIDE DEF q
<1>4. q \in Int /\ q \in Residue
  BY <1>2, <1>3 DEF Residue
<1>5. FPC_MUL(<<q, 0>>, <<r, 0>>) = One
  <2>1. q * r - 0 * 0 = q * r /\ q * 0 + 0 * r = 0 /\ 0 % P = 0
    BY <1>3, <1>4
  <2> QED
    BY <1>2, <2>1 DEF FPC_MUL, One
<1> QED
  BY <1>2, <1>4, <1>5 DEF q

(* The norm, as a product.                                                 *)
LEMMA NormIs ==
  ASSUME NEW x \in Complex
  PROVE  /\ Norm2(x) \in Residue
         /\ FPC_MUL(x, Conj(x)) = <<Norm2(x), 0>>
         /\ x # Zero => Norm2(x) \in 1 .. P - 1
<1> DEFINE a == x[1]
           b == x[2]
           c == -b
<1>1. a \in Residue /\ b \in Residue /\ x = <<a, b>> /\ a \in Int /\ b \in Int
  BY PFacts DEF Complex, Residue
<1> HIDE DEF a, b
<1>2. c \in Int /\ a * a - b * c = a * a + b * b /\ a * c + b * a = 0
      /\ a * a \in Int /\ b * b \in Int
  BY <1>1
<1>3. Norm2(x) = (a * a + b * b) % P
  BY DEF Norm2, a, b
<1>4. Norm2(x) \in 0 .. P - 1
  <2>1. a * a + b * b \in Int
    BY <1>2
  <2> QED
    BY <1>3, <2>1, PFacts, DivMod
<1>5. FPC_MUL(x, Conj(x)) = <<Norm2(x), 0>>
  <2>1. FPC_MUL(x, Conj(x)) = <<(a * a - b * ((-b) % P)) % P, (a * ((-b) % P) + b * a) % P>>
    BY DEF FPC_MUL, Conj, a, b
  <2> HIDE DEF c
  <2>2. (b * (c % P)) % P = (b * c) % P /\ (a * (c % P)) % P = (a * c) % P
    BY <1>1, <1>2, ModTerms, 0 \in Int, ZenonT(60)
  <2>3. \A e, u, v \in Int : u % P = v % P => (e - u) % P = (e - v) % P /\ (u + e) % P = (v + e) % P
    <3> TAKE e, u, v \in Int
    <3>1. /\ (e - (u % P)) % P = (e - u) % P /\ (e - (v % P)) % P = (e - v) % P
          /\ ((u % P) + e) % P = (u + e) % P /\ ((v % P) + e) % P = (v + e) % P
      BY ModTerms, 0 \in Int
    <3> QED
      BY <3>1
  <2>30. /\ b * (c % P) \in Int /\ b * c \in Int /\ a * (c % P) \in Int /\ a * c \in Int
         /\ b * a \in Int /\ a * a \in Int
    <3>1. c % P \in Int
      BY <1>2, PFacts
    <3> QED
      BY <1>1, <1>2, <3>1
  <2>4. (a * a - b * (c % P)) % P = (a * a - b * c) % P
    BY <2>2, <2>3, <2>30, Zenon
  <2>5. (a * (c % P) + b * a) % P = (a * c + b * a) % P
    BY <2>2, <2>3, <2>30, Zenon
  <2>6. 0 % P = 0
    BY PFacts
  <2>7. c = -b
    BY DEF c
  <2> QED
    BY <1>2, <1>3, <2>1, <2>4, <2>5, <2>6, <2>7, Zenon
<1>6. x # Zero => Norm2(x) # 0
  <2> SUFFICES ASSUME Norm2(x) = 0 PROVE x = Zero
    OBVIOUS
  <2>1. a = 0 /\ b = 0
    BY <1>1, NormAssumption
  <2> QED
    BY <1>1, <2>1 DEF Zero
<1> QED
  BY <1>4, <1>5, <1>6 DEF Residue

(* The quotient, times the divisor, is the dividend.                       *)
LEMMA QuotientIs ==
  ASSUME NEW x \in Complex, NEW y \in Complex, y # Zero
  PROVE  /\ FPC_DIV(x, y) \in Complex
         /\ FPC_MUL(FPC_DIV(x, y), y) = x
<1> DEFINE N == Norm2(y)
           m == fpr_inv[N]
           w == <<(y[1] * m) % P, (-y[2] * m) % P>>
           R == <<m, 0>>
<1>1. N \in 1 .. P - 1 /\ FPC_MUL(y, Conj(y)) = <<N, 0>>
  BY NormIs
<1>2. m \in Int /\ FPC_MUL(R, <<N, 0>>) = One
  BY <1>1, InverseIs
<1>3. FPC_DIV(x, y) = FPC_MUL(x, w)
  BY DEF FPC_DIV
<1>4. /\ x \in Pair /\ y \in Pair /\ Conj(y) \in Complex /\ Conj(y) \in Pair
      /\ y[1] \in Int /\ y[2] \in Int
  BY ConjConj, Closed, Parts
<1> HIDE DEF N, m
<1>5. R \in Pair
  BY <1>2 DEF Pair
<1>6. w = FPC_MUL(R, Conj(y))
  <2>1. FPC_MUL(R, Conj(y)) = <<(m * y[1]) % P, (m * ((-y[2]) % P)) % P>>
    BY <1>2, <1>4, ScaleIsMul DEF Scale, Conj
  <2>2. m * y[1] = y[1] * m
    BY <1>2, <1>4
  <2>3. (m * ((-y[2]) % P)) % P = (-y[2] * m) % P
    <3> DEFINE c == -y[2]
    <3>1. c \in Int /\ m * c = -y[2] * m
      BY <1>2, <1>4
    <3> HIDE DEF c
    <3>2. (m * (c % P)) % P = (m * c) % P
      BY <1>2, <3>1, ModTerms, 0 \in Int
    <3> QED
      BY <3>1, <3>2 DEF c
  <2> QED
    BY <2>1, <2>2, <2>3, Zenon
<1> HIDE DEF w, R
<1>7. FPC_MUL(w, y) = One
  <2>1. FPC_MUL(w, y) = FPC_MUL(R, FPC_MUL(Conj(y), y))
    BY <1>4, <1>5, <1>6, MulAssoc
  <2>2. FPC_MUL(Conj(y), y) = <<N, 0>>
    BY <1>1, <1>4, MulComm
  <2> QED
    BY <1>2, <2>1, <2>2
<1>8. w \in Pair
  BY <1>4, <1>5, <1>6, Closed
<1>9. FPC_MUL(FPC_MUL(x, w), y) = FPC_MUL(x, FPC_MUL(w, y))
  BY <1>4, <1>8, MulAssoc
<1>10. FPC_MUL(x, One) = x
  BY Units
<1> QED
  BY <1>3, <1>4, <1>7, <1>8, <1>9, <1>10, Closed

-----------------------------------------------------------------------------
(***************************************************************************)
(* The operations of the ring, on slots.                                   *)
(***************************************************************************)
VMul(z, w) == [s \in DOMAIN z |-> FPC_MUL(z[s], w[s])]
VAdd(z, w) == [s \in DOMAIN z |-> FPC_ADD(z[s], w[s])]
VSub(z, w) == [s \in DOMAIN z |-> FPC_SUB(z[s], w[s])]
VConj(z) == [s \in DOMAIN z |-> Conj(z[s])]

(* RingOps multiplies as this module does.                                 *)
LEMMA SameRing ==
  ASSUME NEW f, NEW g, NEW l
  PROVE  Ring!SchoolbookMul(f, g, l) = SchoolbookMul(f, g, l)
BY DEF Ring!SchoolbookMul, SchoolbookMul

LEMMA VecSlots ==
  ASSUME NEW l \in 1 .. LogMax, NEW z \in Vec(l), NEW w \in Vec(l)
  PROVE  /\ DOMAIN z = 0 .. hn(l) - 1 /\ z = [s \in 0 .. hn(l) - 1 |-> z[s]]
         /\ \A s \in 0 .. hn(l) - 1 :
              /\ z[s] \in Complex /\ z[s] \in Pair /\ w[s] \in Complex /\ w[s] \in Pair
              /\ z[s][1] \in Residue /\ z[s][2] \in Residue /\ z[s] = <<z[s][1], z[s][2]>>
              /\ z[s][1] \in Int /\ z[s][2] \in Int /\ w[s][1] \in Int /\ w[s][2] \in Int
              /\ VMul(z, w)[s] = FPC_MUL(z[s], w[s]) /\ VMul(z, w)[s] \in Complex
              /\ VAdd(z, w)[s] = FPC_ADD(z[s], w[s]) /\ VAdd(z, w)[s] \in Complex
              /\ VSub(z, w)[s] = FPC_SUB(z[s], w[s]) /\ VSub(z, w)[s] \in Complex
              /\ VConj(z)[s] = Conj(z[s]) /\ VConj(z)[s] \in Complex
         /\ VMul(z, w) \in Vec(l) /\ VAdd(z, w) \in Vec(l) /\ VSub(z, w) \in Vec(l)
         /\ VConj(z) \in Vec(l)
<1>1. /\ DOMAIN z = 0 .. hn(l) - 1 /\ z = [s \in 0 .. hn(l) - 1 |-> z[s]]
      /\ \A s \in 0 .. hn(l) - 1 : z[s] \in Complex /\ w[s] \in Complex
  BY DEF Vec
<1>2. ASSUME NEW s \in 0 .. hn(l) - 1
      PROVE  /\ z[s] \in Complex /\ z[s] \in Pair /\ w[s] \in Complex /\ w[s] \in Pair
             /\ z[s][1] \in Residue /\ z[s][2] \in Residue /\ z[s] = <<z[s][1], z[s][2]>>
             /\ z[s][1] \in Int /\ z[s][2] \in Int /\ w[s][1] \in Int /\ w[s][2] \in Int
             /\ VMul(z, w)[s] = FPC_MUL(z[s], w[s]) /\ VMul(z, w)[s] \in Complex
             /\ VAdd(z, w)[s] = FPC_ADD(z[s], w[s]) /\ VAdd(z, w)[s] \in Complex
             /\ VSub(z, w)[s] = FPC_SUB(z[s], w[s]) /\ VSub(z, w)[s] \in Complex
             /\ VConj(z)[s] = Conj(z[s]) /\ VConj(z)[s] \in Complex
  <2>1. z[s] \in Complex /\ w[s] \in Complex
    BY <1>1
  <2>2. z[s] \in Pair /\ w[s] \in Pair
    BY <2>1, Closed
  <2>3. z[s][1] \in Residue /\ z[s][2] \in Residue
    BY <2>1 DEF Complex
  <2>4. /\ FPC_MUL(z[s], w[s]) \in Complex /\ FPC_ADD(z[s], w[s]) \in Complex
        /\ FPC_SUB(z[s], w[s]) \in Complex /\ Conj(z[s]) \in Complex
    BY <2>1, <2>2, Closed, ConjConj
  <2>5. /\ VMul(z, w)[s] = FPC_MUL(z[s], w[s]) /\ VAdd(z, w)[s] = FPC_ADD(z[s], w[s])
        /\ VSub(z, w)[s] = FPC_SUB(z[s], w[s]) /\ VConj(z)[s] = Conj(z[s])
    BY <1>1, Zenon DEF VMul, VAdd, VSub, VConj
  <2>6. /\ z[s][1] \in Int /\ z[s][2] \in Int /\ w[s][1] \in Int /\ w[s][2] \in Int
        /\ z[s] = <<z[s][1], z[s][2]>>
    BY <2>2, Parts
  <2> QED
    BY <2>1, <2>2, <2>3, <2>4, <2>5, <2>6, Zenon
<1>3. /\ VMul(z, w) \in Vec(l) /\ VAdd(z, w) \in Vec(l) /\ VSub(z, w) \in Vec(l)
      /\ VConj(z) \in Vec(l)
  <2>1. /\ VMul(z, w) = [s \in 0 .. hn(l) - 1 |-> VMul(z, w)[s]]
        /\ VAdd(z, w) = [s \in 0 .. hn(l) - 1 |-> VAdd(z, w)[s]]
        /\ VSub(z, w) = [s \in 0 .. hn(l) - 1 |-> VSub(z, w)[s]]
        /\ VConj(z) = [s \in 0 .. hn(l) - 1 |-> VConj(z)[s]]
    BY <1>1 DEF VMul, VAdd, VSub, VConj
  <2> QED
    BY <1>2, <2>1 DEF Vec
<1> QED
  BY <1>1, <1>2, <1>3, Zenon

LEMMA VecRing ==
  ASSUME NEW l \in 1 .. LogMax, NEW z \in Vec(l), NEW w \in Vec(l)
  PROVE  /\ Interpolated(VMul(z, w), l) =
              Ring!SchoolbookMul(Interpolated(z, l), Interpolated(w, l), l)
         /\ Interpolated(VAdd(z, w), l) = Ring!Plus(Interpolated(z, l), Interpolated(w, l))
         /\ Interpolated(VSub(z, w), l) = Ring!Minus(Interpolated(z, l), Interpolated(w, l))
         /\ Interpolated(VConj(z), l) = Ring!Adjoint(Interpolated(z, l), l)
<1> DEFINE f == Interpolated(z, l)
           g == Interpolated(w, l)
<1>0. /\ VMul(z, w) \in Vec(l) /\ VAdd(z, w) \in Vec(l) /\ VSub(z, w) \in Vec(l)
      /\ VConj(z) \in Vec(l)
  BY VecSlots
<1>1. \A s \in 0 .. hn(l) - 1 :
        /\ z[s][1] \in Int /\ z[s][2] \in Int /\ w[s][1] \in Int /\ w[s][2] \in Int
        /\ VMul(z, w)[s] = FPC_MUL(z[s], w[s]) /\ VAdd(z, w)[s] = FPC_ADD(z[s], w[s])
        /\ VSub(z, w)[s] = FPC_SUB(z[s], w[s]) /\ VConj(z)[s] = Conj(z[s])
  BY VecSlots, ZenonT(60)
<1>2. /\ DOMAIN f = 0 .. n(l) - 1 /\ \A d \in 0 .. n(l) - 1 : f[d] \in Int /\ g[d] \in Int
  <2>1. f \in Poly(l) /\ g \in Poly(l) /\ n(l) = Pow2[l] /\ Residue \subseteq Int
    BY InterpolatedIs, OpSizes, PFacts DEF Residue
  <2>2. f \in [0 .. n(l) - 1 -> Residue] /\ g \in [0 .. n(l) - 1 -> Residue]
    BY <2>1, Zenon DEF Poly
  <2> QED
    BY <2>1, <2>2
<1>3. Interpolated(VMul(z, w), l) = Ring!SchoolbookMul(f, g, l)
  BY <1>0, <1>1, ProductSlots, SameRing
<1>4. Interpolated(VConj(z), l) = Ring!Adjoint(f, l)
  BY <1>0, <1>1, AdjointSlots
<1>5. Interpolated(VAdd(z, w), l) = Ring!Plus(f, g)
  <2>1. \A s \in 0 .. hn(l) - 1 : /\ VAdd(z, w)[s][1] = (z[s][1] + 1 * w[s][1]) % P
                                  /\ VAdd(z, w)[s][2] = (z[s][2] + 1 * w[s][2]) % P
    BY <1>1 DEF FPC_ADD
  <2>2. Interpolated(VAdd(z, w), l) = [d \in 0 .. n(l) - 1 |-> (f[d] + 1 * g[d]) % P]
    <3>1. \A r \in Int :
            (\A s \in 0 .. hn(l) - 1 : /\ VAdd(z, w)[s][1] = (z[s][1] + r * w[s][1]) % P
                                       /\ VAdd(z, w)[s][2] = (z[s][2] + r * w[s][2]) % P)
            => Interpolated(VAdd(z, w), l) = [d \in 0 .. n(l) - 1 |-> (f[d] + r * g[d]) % P]
      BY <1>0, LinearSlots, ZenonT(60)
    <3>2. 1 \in Int
      OBVIOUS
    <3> QED
      BY <2>1, <3>1, <3>2, Zenon
  <2> HIDE DEF f, g
  <2>3. Ring!Plus(f, g) = [d \in 0 .. n(l) - 1 |-> (f[d] + g[d]) % P]
    BY <1>2 DEF Ring!Plus
  <2>4. \A d \in 0 .. n(l) - 1 : f[d] + 1 * g[d] = f[d] + g[d]
    BY <1>2
  <2> QED
    BY <2>2, <2>3, <2>4
<1>6. Interpolated(VSub(z, w), l) = Ring!Minus(f, g)
  <2>1. \A s \in 0 .. hn(l) - 1 : /\ VSub(z, w)[s][1] = (z[s][1] + (-1) * w[s][1]) % P
                                  /\ VSub(z, w)[s][2] = (z[s][2] + (-1) * w[s][2]) % P
    <3> TAKE s \in 0 .. hn(l) - 1
    <3>1. /\ z[s][1] + (-1) * w[s][1] = z[s][1] - w[s][1]
          /\ z[s][2] + (-1) * w[s][2] = z[s][2] - w[s][2]
      BY <1>1
    <3> QED
      BY <1>1, <3>1 DEF FPC_SUB
  <2>2. Interpolated(VSub(z, w), l) = [d \in 0 .. n(l) - 1 |-> (f[d] + (-1) * g[d]) % P]
    <3>1. \A r \in Int :
            (\A s \in 0 .. hn(l) - 1 : /\ VSub(z, w)[s][1] = (z[s][1] + r * w[s][1]) % P
                                       /\ VSub(z, w)[s][2] = (z[s][2] + r * w[s][2]) % P)
            => Interpolated(VSub(z, w), l) = [d \in 0 .. n(l) - 1 |-> (f[d] + r * g[d]) % P]
      BY <1>0, LinearSlots, ZenonT(60)
    <3>2. (-1) \in Int
      OBVIOUS
    <3> QED
      BY <2>1, <3>1, <3>2, Zenon
  <2> HIDE DEF f, g
  <2>3. Ring!Minus(f, g) = [d \in 0 .. n(l) - 1 |-> (f[d] - g[d]) % P]
    BY <1>2 DEF Ring!Minus
  <2>4. \A d \in 0 .. n(l) - 1 : f[d] + (-1) * g[d] = f[d] - g[d]
    BY <1>2
  <2> QED
    BY <2>2, <2>3, <2>4
<1> QED
  BY <1>3, <1>4, <1>5, <1>6, Zenon

(* Slots times a real constant.                                            *)
LEMMA VecMultiple ==
  ASSUME NEW l \in 1 .. LogMax, NEW z \in Vec(l), NEW t \in Vec(l), NEW c \in Int,
         \A s \in 0 .. hn(l) - 1 : /\ t[s][1] = (c * z[s][1]) % P
                                   /\ t[s][2] = (c * z[s][2]) % P
  PROVE  Interpolated(t, l) = Ring!Multiple(c, Interpolated(z, l))
<1> DEFINE f == Interpolated(z, l)
           e == c - 1
<1>1. e \in Int /\ \A x \in Int : x + e * x = c * x
  <2>1. ASSUME NEW x \in Int
        PROVE  x + e * x = c * x
    OBVIOUS
  <2> QED
    BY <2>1
<1> HIDE DEF e
<1>2. \A s \in 0 .. hn(l) - 1 : /\ t[s][1] = (z[s][1] + e * z[s][1]) % P
                                /\ t[s][2] = (z[s][2] + e * z[s][2]) % P
  <2>1. \A s \in 0 .. hn(l) - 1 : z[s][1] \in Int /\ z[s][2] \in Int
    BY VecSlots
  <2>2. \A s \in 0 .. hn(l) - 1 : /\ z[s][1] + e * z[s][1] = c * z[s][1]
                                  /\ z[s][2] + e * z[s][2] = c * z[s][2]
    BY <1>1, <2>1, Zenon
  <2> QED
    BY <2>2
<1>3. Interpolated(t, l) = [d \in 0 .. n(l) - 1 |-> (f[d] + e * f[d]) % P]
  BY <1>1, <1>2, LinearSlots
<1>4. /\ DOMAIN f = 0 .. n(l) - 1 /\ \A d \in 0 .. n(l) - 1 : f[d] \in Int
  <2>1. f \in Poly(l) /\ n(l) = Pow2[l] /\ Residue \subseteq Int
    BY InterpolatedIs, OpSizes, PFacts DEF Residue
  <2>2. f \in [0 .. n(l) - 1 -> Residue]
    BY <2>1, Zenon DEF Poly
  <2> QED
    BY <2>1, <2>2
<1> HIDE DEF f
<1>5. Ring!Multiple(c, f) = [d \in 0 .. n(l) - 1 |-> (c * f[d]) % P]
  BY <1>4 DEF Ring!Multiple
<1>6. \A d \in 0 .. n(l) - 1 : f[d] + e * f[d] = c * f[d]
  BY <1>1, <1>4
<1> QED
  BY <1>3, <1>5, <1>6 DEF f

-----------------------------------------------------------------------------
(***************************************************************************)
(* Memories.  SlotsIn and Seen are Slots and Represented, as operators on  *)
(* the memory m of a buffer, its size and its representation.              *)
(***************************************************************************)
SlotsIn(m, l, q) ==
  [s \in Places(l) |-> IF q = "half" THEN <<m[s], 0>> ELSE At(m, hn(l), s)]

Seen(m, l, q) ==
  IF q = "coef" \/ l = 0 THEN [d \in Reals(l) |-> m[d]]
  ELSE Interpolated(SlotsIn(m, l, q), l)

LEMMA RepresentedIs ==
  ASSUME NEW r
  PROVE  /\ Slots(r) = SlotsIn(buf[r], logn[r], rep[r])
         /\ Represented(r) = Seen(buf[r], logn[r], rep[r])
         /\ Represented(r)' = Seen(buf'[r], logn'[r], rep'[r])
<1>1. Slots(r) = SlotsIn(buf[r], logn[r], rep[r])
  BY Zenon DEF Slots, SlotsIn, Slot
<1>2. Slots(r)' = SlotsIn(buf'[r], logn'[r], rep'[r])
  BY Zenon DEF Slots, SlotsIn, Slot
<1>3. Represented(r) =
        IF rep[r] = "coef" \/ logn[r] = 0 THEN [d \in Reals(logn[r]) |-> buf[r][d]]
        ELSE Interpolated(Slots(r), logn[r])
  BY DEF Represented, Once
<1>4. Represented(r)' =
        IF rep'[r] = "coef" \/ logn'[r] = 0 THEN [d \in Reals(logn'[r]) |-> buf'[r][d]]
        ELSE Interpolated(Slots(r)', logn'[r])
  BY DEF Represented, Once
<1> QED
  BY <1>1, <1>2, <1>3, <1>4, Zenon DEF Seen

LEMMA MemorySizes ==
  ASSUME NEW l \in 0 .. LogMax
  PROVE  /\ n(l) = Pow2[l] /\ n(l) \in Nat /\ n(l) >= 1
         /\ Reals(l) = 0 .. n(l) - 1 /\ Reals(l) \subseteq 0 .. Pow2[LogMax] - 1
         /\ Poly(l) = [Reals(l) -> Residue]
<1>1. n(l) = Pow2[l] /\ LogMax \in 0 .. LogMax /\ l <= LogMax
  BY Pow2Assumption DEF n
<1>2. Pow2[l] \in Nat /\ Pow2[l] >= 1 /\ Pow2[l] <= Pow2[LogMax] /\ Pow2[LogMax] \in Nat
  BY <1>1, Pow2Facts
<1>3. Reals(l) = 0 .. n(l) - 1
  BY DEF Reals
<1>4. Poly(l) = [Reals(l) -> Residue]
  BY <1>1, <1>3, Zenon DEF Poly
<1> QED
  BY <1>1, <1>2, <1>3, <1>4

(* The slots of a memory, and their reals.                                 *)
LEMMA SlotsInIs ==
  ASSUME NEW m \in Array, NEW l \in 1 .. LogMax, NEW q
  PROVE  /\ SlotsIn(m, l, q) \in Vec(l)
         /\ Places(l) = 0 .. hn(l) - 1
         /\ \A s \in 0 .. hn(l) - 1 :
              /\ m[s] \in Residue /\ m[s + hn(l)] \in Residue
              /\ s \in 0 .. n(l) - 1 /\ s + hn(l) \in 0 .. n(l) - 1
              /\ q = "half" => SlotsIn(m, l, q)[s] = <<m[s], 0>>
              /\ q # "half" => SlotsIn(m, l, q)[s] = <<m[s], m[s + hn(l)]>>
              /\ q # "half" => SlotsIn(m, l, q)[s] = At(m, hn(l), s)
<1>0. /\ l \in 0 .. LogMax /\ n(l) = 2 * hn(l) /\ hn(l) \in Nat /\ 0 \in Residue
      /\ Reals(l) = 0 .. n(l) - 1 /\ Reals(l) \subseteq 0 .. Pow2[LogMax] - 1
  BY OpSizes, MemorySizes, PFacts DEF Residue
<1>1. Places(l) = 0 .. hn(l) - 1
  BY DEF Places
<1>2. \A s \in 0 .. hn(l) - 1 : s \in 0 .. n(l) - 1 /\ s + hn(l) \in 0 .. n(l) - 1
  BY <1>0
<1>3. \A s \in 0 .. hn(l) - 1 : m[s] \in Residue /\ m[s + hn(l)] \in Residue
  BY <1>0, <1>2 DEF Array
<1>4. SlotsIn(m, l, q) =
        [s \in 0 .. hn(l) - 1 |-> IF q = "half" THEN <<m[s], 0>> ELSE <<m[s], m[s + hn(l)]>>]
  BY <1>1, Zenon DEF SlotsIn, At
<1>5. SlotsIn(m, l, q) \in Vec(l)
  BY <1>0, <1>3, <1>4 DEF Vec, Complex
<1> QED
  BY <1>1, <1>2, <1>3, <1>4, <1>5 DEF At

LEMMA SeenIs ==
  ASSUME NEW m \in Array, NEW l \in 0 .. LogMax, NEW q
  PROVE  /\ Seen(m, l, q) \in Poly(l)
         /\ q = "coef" \/ l = 0 => Seen(m, l, q) = [d \in Reals(l) |-> m[d]]
         /\ q # "coef" /\ l # 0 => Seen(m, l, q) = Interpolated(SlotsIn(m, l, q), l)
<1>1. CASE q = "coef" \/ l = 0
  <2>1. Seen(m, l, q) = [d \in Reals(l) |-> m[d]]
    BY <1>1, Zenon DEF Seen
  <2>2. \A d \in Reals(l) : m[d] \in Residue
    BY MemorySizes DEF Array
  <2> QED
    BY <1>1, <2>1, <2>2, MemorySizes
<1>2. CASE ~ (q = "coef" \/ l = 0)
  <2>1. Seen(m, l, q) = Interpolated(SlotsIn(m, l, q), l)
    BY <1>2, Zenon DEF Seen
  <2>2. l \in 1 .. LogMax
    BY <1>2
  <2>3. Interpolated(SlotsIn(m, l, q), l) \in Poly(l)
    BY <2>2, SlotsInIs, InterpolatedIs
  <2> QED
    BY <1>2, <2>1, <2>3, Zenon
<1> QED
  BY <1>1, <1>2

(* What the two kinds of loops leave in memory.                            *)
LEMMA StoredIs ==
  ASSUME NEW m \in Array, NEW l \in 1 .. LogMax, NEW z \in Vec(l)
  PROVE  /\ Stored(m, l, z) \in Array
         /\ \A q : q # "half" => SlotsIn(Stored(m, l, z), l, q) = z
<1> DEFINE o == Stored(m, l, z)
           N == n(l)
           h == hn(l)
<1>0. /\ N = 2 * h /\ h \in Nat /\ Pow2[LogMax] \in Nat /\ DOMAIN m = 0 .. Pow2[LogMax] - 1
      /\ \A v \in 0 .. Pow2[LogMax] - 1 : m[v] \in Residue
      /\ l \in 0 .. LogMax
  BY OpSizes, CircleFacts DEF Array
<1>1. o = [v \in 0 .. Pow2[LogMax] - 1 |->
             IF v >= N THEN m[v] ELSE IF v < h THEN z[v][1] ELSE z[v - h][2]]
  BY <1>0, Zenon DEF Stored, Once
<1>2. /\ \A s \in 0 .. h - 1 : z[s][1] \in Residue /\ z[s][2] \in Residue
                               /\ z[s] = <<z[s][1], z[s][2]>>
      /\ z = [s \in 0 .. h - 1 |-> z[s]]
  BY DEF Vec, Complex
<1> HIDE DEF o, N, h
<1>3. o \in Array
  <2>1. ASSUME NEW v \in 0 .. Pow2[LogMax] - 1
        PROVE  (IF v >= N THEN m[v] ELSE IF v < h THEN z[v][1] ELSE z[v - h][2]) \in Residue
    <3>1. CASE v >= N
      BY <1>0, <3>1
    <3>2. CASE ~ (v >= N) /\ v < h
      <4>1. v \in 0 .. h - 1
        BY <1>0, <3>2
      <4> QED
        BY <1>2, <3>2, <4>1
    <3>3. CASE ~ (v >= N) /\ ~ (v < h)
      <4>1. v - h \in 0 .. h - 1
        BY <1>0, <3>3
      <4> QED
        BY <1>2, <3>3, <4>1
    <3> QED
      BY <3>1, <3>2, <3>3
  <2> QED
    BY <1>1, <2>1 DEF Array
<1>4. ASSUME NEW q, q # "half"
      PROVE  SlotsIn(o, l, q) = z
  <2>1. ASSUME NEW s \in 0 .. h - 1
        PROVE  SlotsIn(o, l, q)[s] = z[s]
    <3>1. SlotsIn(o, l, q)[s] = <<o[s], o[s + h]>> /\ s \in 0 .. N - 1 /\ s + h \in 0 .. N - 1
      BY <1>3, <1>4, SlotsInIs DEF h, N
    <3>2. N <= Pow2[LogMax]
      <4>1. 0 .. N - 1 \subseteq 0 .. Pow2[LogMax] - 1
        BY <1>0, MemorySizes DEF N
      <4> QED
        BY <1>0, <3>1, <4>1
    <3>3. /\ s \in 0 .. Pow2[LogMax] - 1 /\ s + h \in 0 .. Pow2[LogMax] - 1
          /\ ~ (s >= N) /\ s < h /\ ~ (s + h >= N) /\ ~ (s + h < h) /\ (s + h) - h = s
      BY <1>0, <3>1, <3>2
    <3>4. o[s] = z[s][1] /\ o[s + h] = z[s][2]
      BY <1>1, <3>3
    <3> QED
      BY <1>2, <3>1, <3>4
  <2>2. SlotsIn(o, l, q) \in Vec(l)
    BY <1>3, SlotsInIs
  <2>3. SlotsIn(o, l, q) = [s \in 0 .. h - 1 |-> SlotsIn(o, l, q)[s]]
    BY <2>2 DEF Vec, h
  <2> QED
    BY <1>2, <2>1, <2>3
<1> QED
  BY <1>3, <1>4 DEF o

LEMMA EachIs ==
  ASSUME NEW m \in Array, NEW l \in 0 .. LogMax, NEW c \in [Reals(l) -> Residue]
  PROVE  /\ Each(m, l, c) \in Array
         /\ \A v \in Reals(l) : Each(m, l, c)[v] = c[v]
<1>0. /\ DOMAIN m = 0 .. Pow2[LogMax] - 1 /\ \A v \in 0 .. Pow2[LogMax] - 1 : m[v] \in Residue
      /\ Pow2[LogMax] \in Nat
  BY CircleFacts DEF Array
<1>1. Each(m, l, c) = [v \in 0 .. Pow2[LogMax] - 1 |-> IF v < n(l) THEN c[v] ELSE m[v]]
  BY <1>0, Zenon DEF Each, Once
<1>2. /\ Reals(l) = 0 .. n(l) - 1 /\ Reals(l) \subseteq 0 .. Pow2[LogMax] - 1 /\ n(l) \in Nat
  BY MemorySizes
<1>3. \A v \in 0 .. Pow2[LogMax] - 1 : (IF v < n(l) THEN c[v] ELSE m[v]) \in Residue
  <2> TAKE v \in 0 .. Pow2[LogMax] - 1
  <2>1. v < n(l) => v \in Reals(l)
    BY <1>0, <1>2
  <2> QED
    BY <1>0, <2>1
<1>4. Each(m, l, c) \in Array
  BY <1>1, <1>3 DEF Array
<1>5. \A v \in Reals(l) : v < n(l) /\ v \in 0 .. Pow2[LogMax] - 1
  BY <1>2
<1> QED
  BY <1>1, <1>4, <1>5

-----------------------------------------------------------------------------
(***************************************************************************)
(* Steps.  Writes(ds): the buffers outside ds are left alone.              *)
(***************************************************************************)
Writes(ds) ==
  \A r \in Bufs \ ds : buf'[r] = buf[r] /\ logn'[r] = logn[r] /\ rep'[r] = rep[r]

(* What the step leaves in buffer r is a buffer.                           *)
Sound(r) ==
  /\ buf'[r] \in Array /\ logn'[r] \in 0 .. LogMax /\ rep'[r] \in Representations
  /\ rep'[r] = "half" => logn'[r] >= 1

LEMMA StepIs ==
  ASSUME TypeOK, NEW ds \in SUBSET Bufs, Writes(ds), \A r \in ds : Sound(r),
         NEW name, NEW args, Call(name, args),
         buf' = [r \in Bufs |-> buf'[r]], logn' = [r \in Bufs |-> logn'[r]],
         rep' = [r \in Bufs |-> rep'[r]]
  PROVE  /\ TypeOK' /\ Ring!Changes(ds)
         /\ call' = <<name, args>>
<1>1. \A r \in Bufs : Sound(r)
  <2> TAKE r \in Bufs
  <2>1. CASE r \in ds
    BY <2>1
  <2>2. CASE r \notin ds
    <3>1. buf'[r] = buf[r] /\ logn'[r] = logn[r] /\ rep'[r] = rep[r]
      BY <2>2, Zenon DEF Writes
    <3>2. /\ buf[r] \in Array /\ logn[r] \in 0 .. LogMax /\ rep[r] \in Representations
          /\ rep[r] = "half" => logn[r] >= 1
      BY DEF TypeOK
    <3> QED
      BY <3>1, <3>2, Zenon DEF Sound
  <2> QED
    BY <2>1, <2>2
<1>2. calls' \in Nat
  BY DEF Call, TypeOK
<1>3. /\ buf' \in [Bufs -> Array] /\ logn' \in [Bufs -> 0 .. LogMax]
      /\ rep' \in [Bufs -> Representations]
  <2>1. /\ \A r \in Bufs : buf'[r] \in Array
        /\ \A r \in Bufs : logn'[r] \in 0 .. LogMax
        /\ \A r \in Bufs : rep'[r] \in Representations
    BY <1>1, Zenon DEF Sound
  <2> QED
    BY <2>1
<1>4. TypeOK'
  BY <1>1, <1>2, <1>3, Zenon DEF TypeOK, Sound
<1>5. \A r \in Bufs \ ds : Represented(r)' = Represented(r) /\ logn'[r] = logn[r]
  <2> TAKE r \in Bufs \ ds
  <2>1. buf'[r] = buf[r] /\ logn'[r] = logn[r] /\ rep'[r] = rep[r]
    BY Zenon DEF Writes
  <2>2. /\ Represented(r) = Seen(buf[r], logn[r], rep[r])
        /\ Represented(r)' = Seen(buf'[r], logn'[r], rep'[r])
    BY RepresentedIs
  <2> QED
    BY <2>1, <2>2, Zenon
<1>6. Ring!Changes(ds)
  BY <1>5 DEF Ring!Changes
<1> QED
  BY <1>4, <1>6, Zenon DEF Call

(* A buffer in FFT representation.                                         *)
LEMMA Operand ==
  ASSUME TypeOK, NEW a \in Bufs, rep[a] = "fft", logn[a] >= 1
  PROVE  /\ logn[a] \in 1 .. LogMax /\ buf[a] \in Array
         /\ Slots(a) \in Vec(logn[a]) /\ Places(logn[a]) = 0 .. hn(logn[a]) - 1
         /\ Represented(a) = Interpolated(Slots(a), logn[a])
         /\ \A s \in 0 .. hn(logn[a]) - 1 : Slots(a)[s] = Slot(a, s) /\ Slot(a, s) \in Complex
<1>1. logn[a] \in 1 .. LogMax /\ buf[a] \in Array /\ logn[a] # 0 /\ logn[a] \in 0 .. LogMax
      /\ rep[a] # "half" /\ rep[a] # "coef"
  BY DEF TypeOK
<1>2. /\ Slots(a) = SlotsIn(buf[a], logn[a], rep[a])
      /\ Represented(a) = Seen(buf[a], logn[a], rep[a])
  BY RepresentedIs
<1>3. /\ SlotsIn(buf[a], logn[a], rep[a]) \in Vec(logn[a])
      /\ Places(logn[a]) = 0 .. hn(logn[a]) - 1
      /\ \A s \in 0 .. hn(logn[a]) - 1 :
           SlotsIn(buf[a], logn[a], rep[a])[s] = At(buf[a], hn(logn[a]), s)
  BY <1>1, SlotsInIs, Zenon
<1>4. Seen(buf[a], logn[a], rep[a]) = Interpolated(SlotsIn(buf[a], logn[a], rep[a]), logn[a])
  BY <1>1, SeenIs, Zenon
<1>5. \A s \in 0 .. hn(logn[a]) - 1 : Slots(a)[s] = Slot(a, s)
  BY <1>2, <1>3, Zenon DEF Slot
<1>6. Slots(a) \in Vec(logn[a])
  BY <1>2, <1>3, Zenon
<1>7. \A s \in 0 .. hn(logn[a]) - 1 : Slots(a)[s] \in Complex
  BY <1>6 DEF Vec
<1> QED
  BY <1>1, <1>2, <1>3, <1>4, <1>5, <1>6, <1>7, Zenon

(* A buffer that the step leaves in FFT representation, z in its slots.    *)
LEMMA Received ==
  ASSUME NEW m \in Array, NEW l \in 1 .. LogMax, NEW z \in Vec(l), NEW r \in Bufs,
         buf'[r] = Stored(m, l, z), logn'[r] = l, rep'[r] = "fft"
  PROVE  Sound(r) /\ Represented(r)' = Interpolated(z, l)
<1>1. /\ Stored(m, l, z) \in Array
      /\ \A q : q # "half" => SlotsIn(Stored(m, l, z), l, q) = z
  BY StoredIs
<1>2. l # 0 /\ l \in 0 .. LogMax
  OBVIOUS
<1>3. Represented(r)' = Seen(buf'[r], logn'[r], rep'[r])
  BY RepresentedIs
<1>4. Seen(Stored(m, l, z), l, "fft") = Interpolated(SlotsIn(Stored(m, l, z), l, "fft"), l)
  <2>1. "fft" # "coef"
    OBVIOUS
  <2> QED
    BY <1>1, <1>2, <2>1, SeenIs, Zenon
<1>5. SlotsIn(Stored(m, l, z), l, "fft") = z
  <2>1. "fft" # "half"
    OBVIOUS
  <2> QED
    BY <1>1, <2>1, Zenon
<1>6. "fft" \in Representations /\ "fft" # "half"
  BY DEF Representations
<1> QED
  BY <1>1, <1>2, <1>3, <1>4, <1>5, <1>6, Zenon DEF Sound

LEMMA UpdateIs ==
  ASSUME TypeOK, NEW a \in Bufs, rep[a] = "fft", logn[a] >= 1,
         NEW z \in Vec(logn[a]), Update(a, z), NEW name, NEW args, Call(name, args)
  PROVE  /\ TypeOK' /\ Ring!InPlace(a) /\ call' = <<name, args>>
         /\ Represented(a)' = Interpolated(z, logn[a])
<1>1. logn[a] \in 1 .. LogMax /\ buf[a] \in Array
  BY Operand
<1>2. /\ buf' = [r \in Bufs |-> buf'[r]] /\ logn' = [r \in Bufs |-> logn'[r]]
      /\ rep' = [r \in Bufs |-> rep'[r]]
      /\ buf'[a] = Stored(buf[a], logn[a], z) /\ logn'[a] = logn[a] /\ rep'[a] = "fft"
  BY DEF Update, TypeOK
<1>3. Writes({a})
  BY DEF Update, TypeOK, Writes
<1>4. Sound(a) /\ Represented(a)' = Interpolated(z, logn[a])
  BY <1>1, <1>2, Received
<1>5. {a} \in SUBSET Bufs /\ \A r \in {a} : Sound(r)
  BY <1>4
<1>6. TypeOK' /\ Ring!Changes({a}) /\ call' = <<name, args>>
  BY <1>2, <1>3, <1>5, StepIs
<1> QED
  BY <1>2, <1>4, <1>6, Zenon DEF Ring!InPlace

(* poly_mul_fft.                                                           *)
LEMMA StepMul ==
  ASSUME TypeOK, NEW a \in Bufs, NEW b \in Bufs, poly_mul_fft(a, b)
  PROVE  TypeOK' /\ Ring!Next
<1> DEFINE l == logn[a]
           z == [s \in Places(l) |-> FPC_MUL(Slot(a, s), Slot(b, s))]
<1>1. /\ rep[a] = "fft" /\ logn[a] >= 1 /\ rep[b] = "fft" /\ logn[b] >= 1 /\ logn[b] = l
      /\ Call("poly_mul_fft", <<a, b>>) /\ Update(a, z)
  BY DEF poly_mul_fft, FFTOperands, SameSize
<1>2. /\ l \in 1 .. LogMax /\ Slots(a) \in Vec(l) /\ Slots(b) \in Vec(l)
      /\ Places(l) = 0 .. hn(l) - 1
      /\ Represented(a) = Interpolated(Slots(a), l) /\ Represented(b) = Interpolated(Slots(b), l)
      /\ \A s \in 0 .. hn(l) - 1 : Slots(a)[s] = Slot(a, s) /\ Slots(b)[s] = Slot(b, s)
  BY <1>1, Operand
<1>3. z = VMul(Slots(a), Slots(b)) /\ z \in Vec(l)
  <2>1. DOMAIN Slots(a) = 0 .. hn(l) - 1
    BY <1>2, VecSlots
  <2>2. z = VMul(Slots(a), Slots(b))
    BY <1>2, <2>1 DEF VMul
  <2>3. VMul(Slots(a), Slots(b)) \in Vec(l)
    BY <1>2, VecSlots
  <2> QED
    BY <2>2, <2>3, Zenon
<1>4. TypeOK' /\ Ring!InPlace(a) /\ call' = <<"poly_mul_fft", <<a, b>>>>
      /\ Represented(a)' = Interpolated(z, l)
  BY <1>1, <1>3, UpdateIs
<1>5. Represented(a)' = Ring!SchoolbookMul(Represented(a), Represented(b), l)
  BY <1>2, <1>3, <1>4, VecRing
<1>6. Ring!Mul(a, b)
  BY <1>4, <1>5 DEF Ring!Mul, Ring!Calls
<1>7. Ring!arg(1) = a /\ Ring!arg(2) = b
  BY <1>4 DEF Ring!arg
<1> QED
  BY <1>4, <1>6, <1>7, Zenon DEF Ring!Next

(* Two buffers of one size in FFT representation.                          *)
LEMMA Operands ==
  ASSUME TypeOK, NEW a \in Bufs, NEW b \in Bufs, FFTOperands({a, b})
  PROVE  /\ rep[a] = "fft" /\ logn[a] >= 1 /\ rep[b] = "fft" /\ logn[b] = logn[a]
         /\ logn[a] \in 1 .. LogMax /\ buf[a] \in Array /\ buf[b] \in Array
         /\ Places(logn[a]) = 0 .. hn(logn[a]) - 1
         /\ Slots(a) \in Vec(logn[a]) /\ Slots(b) \in Vec(logn[a])
         /\ DOMAIN Slots(a) = 0 .. hn(logn[a]) - 1 /\ DOMAIN Slots(b) = 0 .. hn(logn[a]) - 1
         /\ Represented(a) = Interpolated(Slots(a), logn[a])
         /\ Represented(b) = Interpolated(Slots(b), logn[a])
         /\ \A s \in 0 .. hn(logn[a]) - 1 :
              /\ Slots(a)[s] = Slot(a, s) /\ Slot(a, s) \in Complex
              /\ Slots(b)[s] = Slot(b, s) /\ Slot(b, s) \in Complex
<1>1. rep[a] = "fft" /\ logn[a] >= 1 /\ rep[b] = "fft" /\ logn[b] >= 1 /\ logn[b] = logn[a]
  BY DEF FFTOperands, SameSize
<1>2. /\ logn[a] \in 1 .. LogMax /\ buf[a] \in Array
      /\ Slots(a) \in Vec(logn[a]) /\ Places(logn[a]) = 0 .. hn(logn[a]) - 1
      /\ Represented(a) = Interpolated(Slots(a), logn[a])
      /\ \A s \in 0 .. hn(logn[a]) - 1 : Slots(a)[s] = Slot(a, s) /\ Slot(a, s) \in Complex
  BY <1>1, Operand
<1>3. /\ buf[b] \in Array /\ Slots(b) \in Vec(logn[a])
      /\ Represented(b) = Interpolated(Slots(b), logn[a])
      /\ \A s \in 0 .. hn(logn[a]) - 1 : Slots(b)[s] = Slot(b, s) /\ Slot(b, s) \in Complex
  BY <1>1, Operand
<1>4. DOMAIN Slots(a) = 0 .. hn(logn[a]) - 1 /\ DOMAIN Slots(b) = 0 .. hn(logn[a]) - 1
  BY <1>2, <1>3 DEF Vec
<1> QED
  BY <1>1, <1>2, <1>3, <1>4, Zenon

(* poly_adj_fft.                                                           *)
LEMMA StepAdj ==
  ASSUME TypeOK, NEW a \in Bufs, poly_adj_fft(a)
  PROVE  TypeOK' /\ Ring!Next
<1> DEFINE l == logn[a]
           z == [s \in Places(l) |-> Conj(Slot(a, s))]
<1>1. FFTOperands({a, a}) /\ Call("poly_adj_fft", <<a>>) /\ Update(a, z)
  BY DEF poly_adj_fft
<1>2. /\ rep[a] = "fft" /\ l >= 1 /\ l \in 1 .. LogMax /\ Slots(a) \in Vec(l)
      /\ Places(l) = 0 .. hn(l) - 1 /\ DOMAIN Slots(a) = 0 .. hn(l) - 1
      /\ Represented(a) = Interpolated(Slots(a), l)
      /\ \A s \in 0 .. hn(l) - 1 : Slots(a)[s] = Slot(a, s)
  BY <1>1, Operands
<1>3. z = VConj(Slots(a)) /\ VConj(Slots(a)) \in Vec(l)
  <2>1. z = VConj(Slots(a))
    BY <1>2 DEF VConj
  <2>2. VConj(Slots(a)) \in Vec(l)
    BY <1>2, VecSlots
  <2> QED
    BY <2>1, <2>2, Zenon
<1>4. TypeOK' /\ Ring!InPlace(a) /\ call' = <<"poly_adj_fft", <<a>>>>
      /\ Represented(a)' = Interpolated(z, l)
  BY <1>1, <1>2, <1>3, UpdateIs
<1>5. Represented(a)' = Ring!Adjoint(Represented(a), l)
  BY <1>2, <1>3, <1>4, VecRing
<1>6. Ring!Adj(a)
  BY <1>4, <1>5 DEF Ring!Adj, Ring!Calls
<1>7. Ring!arg(1) = a
  BY <1>4 DEF Ring!arg
<1> QED
  BY <1>4, <1>6, <1>7, Zenon DEF Ring!Next

(* poly_muladj_fft.                                                        *)
LEMMA StepMulAdj ==
  ASSUME TypeOK, NEW a \in Bufs, NEW b \in Bufs, poly_muladj_fft(a, b)
  PROVE  TypeOK' /\ Ring!Next
<1> DEFINE l == logn[a]
           c == VConj(Slots(b))
           z == [s \in Places(l) |-> FPC_MUL(Slot(a, s), Conj(Slot(b, s)))]
<1>1. FFTOperands({a, b}) /\ Call("poly_muladj_fft", <<a, b>>) /\ Update(a, z)
  BY DEF poly_muladj_fft
<1>2. /\ rep[a] = "fft" /\ l >= 1 /\ l \in 1 .. LogMax
      /\ Slots(a) \in Vec(l) /\ Slots(b) \in Vec(l)
      /\ Places(l) = 0 .. hn(l) - 1 /\ DOMAIN Slots(a) = 0 .. hn(l) - 1
      /\ Represented(a) = Interpolated(Slots(a), l) /\ Represented(b) = Interpolated(Slots(b), l)
      /\ \A s \in 0 .. hn(l) - 1 : Slots(a)[s] = Slot(a, s) /\ Slots(b)[s] = Slot(b, s)
  BY <1>1, Operands
<1>3. c \in Vec(l) /\ \A s \in 0 .. hn(l) - 1 : c[s] = Conj(Slot(b, s))
  <2>1. /\ VConj(Slots(b)) \in Vec(l)
        /\ \A s \in 0 .. hn(l) - 1 : VConj(Slots(b))[s] = Conj(Slots(b)[s])
    BY <1>2, VecSlots, ZenonT(60)
  <2> QED
    BY <1>2, <2>1
<1>4. z = VMul(Slots(a), c) /\ VMul(Slots(a), c) \in Vec(l)
  <2> HIDE DEF c
  <2>1. z = VMul(Slots(a), c)
    BY <1>2, <1>3 DEF VMul
  <2>2. VMul(Slots(a), c) \in Vec(l)
    BY <1>2, <1>3, VecSlots
  <2> QED
    BY <2>1, <2>2, Zenon
<1>5. TypeOK' /\ Ring!InPlace(a) /\ call' = <<"poly_muladj_fft", <<a, b>>>>
      /\ Represented(a)' = Interpolated(z, l)
  BY <1>1, <1>2, <1>4, UpdateIs
<1>6. Interpolated(c, l) = Ring!Adjoint(Represented(b), l)
  BY <1>2, VecRing
<1>7. Represented(a)' = Ring!SchoolbookMul(Represented(a), Ring!Adjoint(Represented(b), l), l)
  <2> HIDE DEF c
  <2> QED
    BY <1>2, <1>3, <1>4, <1>5, <1>6, VecRing, ZenonT(60)
<1>8. Ring!MulAdj(a, b)
  BY <1>5, <1>7 DEF Ring!MulAdj, Ring!Calls
<1>9. Ring!arg(1) = a /\ Ring!arg(2) = b
  BY <1>5 DEF Ring!arg
<1> QED
  BY <1>5, <1>8, <1>9, Zenon DEF Ring!Next

(* poly_mulselfadj_fft: the norm of a number is its product with its       *)
(* conjugate.                                                              *)
LEMMA StepMulSelfAdj ==
  ASSUME TypeOK, NEW a \in Bufs, poly_mulselfadj_fft(a)
  PROVE  TypeOK' /\ Ring!Next
<1> DEFINE l == logn[a]
           c == VConj(Slots(a))
           z == [s \in Places(l) |-> <<Norm2(Slot(a, s)), 0>>]
<1>1. FFTOperands({a, a}) /\ Call("poly_mulselfadj_fft", <<a>>) /\ Update(a, z)
  BY DEF poly_mulselfadj_fft
<1>2. /\ rep[a] = "fft" /\ l >= 1 /\ l \in 1 .. LogMax /\ Slots(a) \in Vec(l)
      /\ Places(l) = 0 .. hn(l) - 1 /\ DOMAIN Slots(a) = 0 .. hn(l) - 1
      /\ Represented(a) = Interpolated(Slots(a), l)
      /\ \A s \in 0 .. hn(l) - 1 : Slots(a)[s] = Slot(a, s) /\ Slot(a, s) \in Complex
  BY <1>1, Operands
<1>3. c \in Vec(l) /\ \A s \in 0 .. hn(l) - 1 : c[s] = Conj(Slot(a, s))
  <2>1. /\ VConj(Slots(a)) \in Vec(l)
        /\ \A s \in 0 .. hn(l) - 1 : VConj(Slots(a))[s] = Conj(Slots(a)[s])
    BY <1>2, VecSlots, ZenonT(60)
  <2> QED
    BY <1>2, <2>1
<1>4. z = VMul(Slots(a), c) /\ VMul(Slots(a), c) \in Vec(l)
  <2> HIDE DEF c
  <2>1. \A s \in 0 .. hn(l) - 1 : FPC_MUL(Slot(a, s), Conj(Slot(a, s))) = <<Norm2(Slot(a, s)), 0>>
    BY <1>2, NormIs
  <2>2. z = VMul(Slots(a), c)
    BY <1>2, <1>3, <2>1 DEF VMul
  <2>3. VMul(Slots(a), c) \in Vec(l)
    BY <1>2, <1>3, VecSlots
  <2> QED
    BY <2>2, <2>3, Zenon
<1>5. TypeOK' /\ Ring!InPlace(a) /\ call' = <<"poly_mulselfadj_fft", <<a>>>>
      /\ Represented(a)' = Interpolated(z, l)
  BY <1>1, <1>2, <1>4, UpdateIs
<1>6. Interpolated(c, l) = Ring!Adjoint(Represented(a), l)
  BY <1>2, VecRing
<1>7. Represented(a)' = Ring!SchoolbookMul(Represented(a), Ring!Adjoint(Represented(a), l), l)
  <2> HIDE DEF c
  <2> QED
    BY <1>2, <1>3, <1>4, <1>5, <1>6, VecRing
<1>8. Ring!MulSelfAdj(a)
  BY <1>5, <1>7 DEF Ring!MulSelfAdj, Ring!Calls
<1>9. Ring!arg(1) = a
  BY <1>5 DEF Ring!arg
<1> QED
  BY <1>5, <1>8, <1>9, Zenon DEF Ring!Next

(* poly_div_fft.                                                           *)
LEMMA StepDiv ==
  ASSUME TypeOK, NEW a \in Bufs, NEW b \in Bufs, poly_div_fft(a, b)
  PROVE  TypeOK' /\ Ring!Next
<1> DEFINE l == logn[a]
           z == [s \in Places(l) |-> FPC_DIV(Slot(a, s), Slot(b, s))]
<1>1. /\ FFTOperands({a, b}) /\ Call("poly_div_fft", <<a, b>>) /\ Update(a, z)
      /\ \A s \in Places(logn[b]) : Slot(b, s) # Zero
  BY DEF poly_div_fft, Invertible
<1>2. /\ rep[a] = "fft" /\ l >= 1 /\ l \in 1 .. LogMax /\ logn[b] = l
      /\ Slots(a) \in Vec(l) /\ Slots(b) \in Vec(l)
      /\ Places(l) = 0 .. hn(l) - 1 /\ DOMAIN Slots(a) = 0 .. hn(l) - 1
      /\ Represented(a) = Interpolated(Slots(a), l) /\ Represented(b) = Interpolated(Slots(b), l)
      /\ \A s \in 0 .. hn(l) - 1 : /\ Slots(a)[s] = Slot(a, s) /\ Slots(b)[s] = Slot(b, s)
                                   /\ Slot(a, s) \in Complex /\ Slot(b, s) \in Complex
  BY <1>1, Operands
<1>3. \A s \in 0 .. hn(l) - 1 : /\ FPC_DIV(Slot(a, s), Slot(b, s)) \in Complex
                                /\ FPC_MUL(FPC_DIV(Slot(a, s), Slot(b, s)), Slot(b, s)) = Slot(a, s)
  <2> TAKE s \in 0 .. hn(l) - 1
  <2>1. Slot(a, s) \in Complex /\ Slot(b, s) \in Complex /\ Slot(b, s) # Zero
    BY <1>1, <1>2
  <2> QED
    BY <2>1, QuotientIs
<1>4. z \in Vec(l)
  BY <1>2, <1>3 DEF Vec
<1>5. VMul(z, Slots(b)) = Slots(a)
  <2>1. Slots(a) = [s \in 0 .. hn(l) - 1 |-> Slot(a, s)]
    BY <1>2 DEF Vec
  <2>2. VMul(z, Slots(b)) = [s \in 0 .. hn(l) - 1 |-> Slot(a, s)]
    BY <1>2, <1>3 DEF VMul
  <2> QED
    BY <2>1, <2>2, Zenon
<1>6. TypeOK' /\ Ring!InPlace(a) /\ call' = <<"poly_div_fft", <<a, b>>>>
      /\ Represented(a)' = Interpolated(z, l)
  BY <1>1, <1>2, <1>4, UpdateIs
<1>7. Ring!SchoolbookMul(Represented(a)', Represented(b), l) = Represented(a)
  <2> HIDE DEF z
  <2> QED
    BY <1>2, <1>4, <1>5, <1>6, VecRing
<1>8. Ring!Div(a, b)
  BY <1>6, <1>7 DEF Ring!Div, Ring!Calls
<1>9. Ring!arg(1) = a /\ Ring!arg(2) = b
  BY <1>6 DEF Ring!arg
<1> QED
  BY <1>6, <1>8, <1>9, Zenon DEF Ring!Next

(* A buffer with an autoadjoint polynomial.                                *)
LEMMA AutoadjointSlots ==
  ASSUME TypeOK, NEW b \in Bufs, logn[b] >= 1, Autoadjoint(b)
  PROVE  /\ logn[b] \in 1 .. LogMax /\ Slots(b) \in Vec(logn[b])
         /\ Represented(b) = Interpolated(Slots(b), logn[b])
         /\ \A s \in 0 .. hn(logn[b]) - 1 :
              /\ Slots(b)[s] = <<buf[b][s], 0>> /\ buf[b][s] \in Residue /\ buf[b][s] \in Int
              /\ Slots(b)[s] \in Complex
<1> DEFINE l == logn[b]
           m == buf[b]
<1>1. /\ l \in 1 .. LogMax /\ m \in Array /\ l # 0 /\ l \in 0 .. LogMax /\ rep[b] # "coef"
  BY DEF TypeOK, Autoadjoint
<1>2. /\ Slots(b) = SlotsIn(m, l, rep[b]) /\ Represented(b) = Seen(m, l, rep[b])
  BY RepresentedIs
<1>3. /\ SlotsIn(m, l, rep[b]) \in Vec(l) /\ Places(l) = 0 .. hn(l) - 1
      /\ \A s \in 0 .. hn(l) - 1 :
           /\ m[s] \in Residue
           /\ rep[b] = "half" => SlotsIn(m, l, rep[b])[s] = <<m[s], 0>>
           /\ rep[b] # "half" => SlotsIn(m, l, rep[b])[s] = <<m[s], m[s + hn(l)]>>
  BY <1>1, SlotsInIs
<1>4. Seen(m, l, rep[b]) = Interpolated(SlotsIn(m, l, rep[b]), l)
  BY <1>1, SeenIs, Zenon
<1>5. \A s \in 0 .. hn(l) - 1 : Slots(b)[s] = <<m[s], 0>>
  <2>1. CASE rep[b] = "half"
    BY <1>2, <1>3, <2>1
  <2>2. CASE rep[b] = "fft" /\ \A s \in Places(l) : Slot(b, s)[2] = 0
    <3>1. \A s \in 0 .. hn(l) - 1 : m[s + hn(l)] = 0
      BY <1>3, <2>2 DEF Slot, At
    <3> QED
      BY <1>2, <1>3, <2>2, <3>1
  <2> QED
    BY <2>1, <2>2 DEF Autoadjoint
<1>6. \A s \in 0 .. hn(l) - 1 : m[s] \in Int /\ Slots(b)[s] \in Complex
  <2>1. /\ \A x \in Residue : x \in Int
        /\ \A x \in Residue : <<x, 0>> \in Complex
    BY PFacts DEF Residue, Complex
  <2> QED
    BY <1>3, <1>5, <2>1, Zenon
<1> QED
  BY <1>1, <1>2, <1>3, <1>4, <1>5, <1>6, Zenon

(* poly_mul_autoadj_fft.                                                   *)
LEMMA StepMulAutoadj ==
  ASSUME TypeOK, NEW a \in Bufs, NEW b \in Bufs, poly_mul_autoadj_fft(a, b)
  PROVE  TypeOK' /\ Ring!Next
<1> DEFINE l == logn[a]
           z == [s \in Places(l) |-> Scale(buf[b][s], Slot(a, s))]
<1>1. /\ FFTOperands({a, a}) /\ Call("poly_mul_autoadj_fft", <<a, b>>) /\ Update(a, z)
      /\ Autoadjoint(b) /\ logn[b] = l
  BY DEF poly_mul_autoadj_fft
<1>2. /\ rep[a] = "fft" /\ l >= 1 /\ l \in 1 .. LogMax /\ Slots(a) \in Vec(l)
      /\ Places(l) = 0 .. hn(l) - 1 /\ DOMAIN Slots(a) = 0 .. hn(l) - 1
      /\ Represented(a) = Interpolated(Slots(a), l)
      /\ \A s \in 0 .. hn(l) - 1 : Slots(a)[s] = Slot(a, s) /\ Slot(a, s) \in Complex
  BY <1>1, Operands
<1>3. /\ Slots(b) \in Vec(l) /\ Represented(b) = Interpolated(Slots(b), l)
      /\ \A s \in 0 .. hn(l) - 1 : /\ Slots(b)[s] = <<buf[b][s], 0>> /\ buf[b][s] \in Int
                                   /\ Slots(b)[s] \in Complex
  BY <1>1, <1>2, AutoadjointSlots
<1>4. \A s \in 0 .. hn(l) - 1 : Scale(buf[b][s], Slot(a, s)) = FPC_MUL(Slots(a)[s], Slots(b)[s])
  <2> TAKE s \in 0 .. hn(l) - 1
  <2>1. /\ buf[b][s] \in Int /\ Slot(a, s) \in Pair /\ <<buf[b][s], 0>> \in Pair
        /\ Slots(a)[s] = Slot(a, s) /\ Slots(b)[s] = <<buf[b][s], 0>>
    BY <1>2, <1>3, Closed
  <2>2. Scale(buf[b][s], Slot(a, s)) = FPC_MUL(<<buf[b][s], 0>>, Slot(a, s))
    BY <2>1, ScaleIsMul
  <2>3. FPC_MUL(<<buf[b][s], 0>>, Slot(a, s)) = FPC_MUL(Slot(a, s), <<buf[b][s], 0>>)
    BY <2>1, MulComm
  <2> QED
    BY <2>1, <2>2, <2>3, Zenon
<1>5. z = VMul(Slots(a), Slots(b)) /\ z \in Vec(l)
  <2>1. z = VMul(Slots(a), Slots(b))
    BY <1>2, <1>4 DEF VMul
  <2>2. VMul(Slots(a), Slots(b)) \in Vec(l)
    BY <1>2, <1>3, VecSlots
  <2> QED
    BY <2>1, <2>2, Zenon
<1>6. TypeOK' /\ Ring!InPlace(a) /\ call' = <<"poly_mul_autoadj_fft", <<a, b>>>>
      /\ Represented(a)' = Interpolated(z, l)
  BY <1>1, <1>2, <1>5, UpdateIs
<1>7. Represented(a)' = Ring!SchoolbookMul(Represented(a), Represented(b), l)
  BY <1>2, <1>3, <1>5, <1>6, VecRing
<1>8. Ring!Mul(a, b)
  BY <1>6, <1>7 DEF Ring!Mul, Ring!Calls
<1>9. Ring!arg(1) = a /\ Ring!arg(2) = b
  BY <1>6 DEF Ring!arg
<1> QED
  BY <1>6, <1>8, <1>9, Zenon DEF Ring!Next

(* poly_div_autoadj_fft.                                                   *)
LEMMA StepDivAutoadj ==
  ASSUME TypeOK, NEW a \in Bufs, NEW b \in Bufs, poly_div_autoadj_fft(a, b)
  PROVE  TypeOK' /\ Ring!Next
<1> DEFINE l == logn[a]
           z == [s \in Places(l) |-> Scale(fpr_inv[buf[b][s]], Slot(a, s))]
<1>1. /\ FFTOperands({a, a}) /\ Call("poly_div_autoadj_fft", <<a, b>>) /\ Update(a, z)
      /\ Autoadjoint(b) /\ logn[b] = l /\ \A s \in Places(l) : buf[b][s] # 0
  BY DEF poly_div_autoadj_fft
<1>2. /\ rep[a] = "fft" /\ l >= 1 /\ l \in 1 .. LogMax /\ Slots(a) \in Vec(l)
      /\ Places(l) = 0 .. hn(l) - 1 /\ DOMAIN Slots(a) = 0 .. hn(l) - 1
      /\ Represented(a) = Interpolated(Slots(a), l)
      /\ \A s \in 0 .. hn(l) - 1 : Slots(a)[s] = Slot(a, s) /\ Slot(a, s) \in Complex
  BY <1>1, Operands
<1>3. /\ Slots(b) \in Vec(l) /\ Represented(b) = Interpolated(Slots(b), l)
      /\ \A s \in 0 .. hn(l) - 1 : /\ Slots(b)[s] = <<buf[b][s], 0>> /\ buf[b][s] \in Residue
  BY <1>1, <1>2, AutoadjointSlots
<1>4. \A s \in 0 .. hn(l) - 1 :
        /\ Scale(fpr_inv[buf[b][s]], Slot(a, s)) \in Complex
        /\ FPC_MUL(Scale(fpr_inv[buf[b][s]], Slot(a, s)), Slots(b)[s]) = Slots(a)[s]
  <2> TAKE s \in 0 .. hn(l) - 1
  <2> DEFINE r == buf[b][s]
             x == Slot(a, s)
             q == fpr_inv[buf[b][s]]
  <2>1. r \in 1 .. P - 1 /\ x \in Complex /\ x \in Pair /\ Slots(a)[s] = x /\ Slots(b)[s] = <<r, 0>>
    BY <1>1, <1>2, <1>3, Closed, PFacts DEF Residue
  <2>2. q \in Int /\ FPC_MUL(<<q, 0>>, <<r, 0>>) = One
    BY <2>1, InverseIs
  <2>3. <<q, 0>> \in Pair /\ <<r, 0>> \in Pair
    BY <2>1, <2>2 DEF Pair
  <2> HIDE DEF r, x, q
  <2>4. Scale(q, x) = FPC_MUL(<<q, 0>>, x) /\ FPC_MUL(<<q, 0>>, x) = FPC_MUL(x, <<q, 0>>)
    BY <2>1, <2>2, <2>3, ScaleIsMul, MulComm
  <2>5. FPC_MUL(FPC_MUL(x, <<q, 0>>), <<r, 0>>) = FPC_MUL(x, FPC_MUL(<<q, 0>>, <<r, 0>>))
    BY <2>1, <2>3, MulAssoc
  <2>6. FPC_MUL(x, One) = x
    BY <2>1, Units
  <2>7. FPC_MUL(x, <<q, 0>>) \in Complex
    BY <2>1, <2>3, Closed
  <2>8. Scale(q, x) \in Complex /\ FPC_MUL(Scale(q, x), Slots(b)[s]) = Slots(a)[s]
    BY <2>1, <2>2, <2>4, <2>5, <2>6, <2>7, Zenon
  <2> QED
    BY <2>8 DEF q, x
<1>5. z \in Vec(l)
  BY <1>2, <1>4 DEF Vec
<1>6. VMul(z, Slots(b)) = Slots(a)
  <2>1. Slots(a) = [s \in 0 .. hn(l) - 1 |-> Slots(a)[s]]
    BY <1>2 DEF Vec
  <2>2. VMul(z, Slots(b)) = [s \in 0 .. hn(l) - 1 |-> Slots(a)[s]]
    BY <1>2, <1>4 DEF VMul
  <2> QED
    BY <2>1, <2>2, Zenon
<1>7. TypeOK' /\ Ring!InPlace(a) /\ call' = <<"poly_div_autoadj_fft", <<a, b>>>>
      /\ Represented(a)' = Interpolated(z, l)
  BY <1>1, <1>2, <1>5, UpdateIs
<1>8. Ring!SchoolbookMul(Represented(a)', Represented(b), l) = Represented(a)
  <2> HIDE DEF z
  <2> QED
    BY <1>2, <1>3, <1>5, <1>6, <1>7, VecRing
<1>9. Ring!Div(a, b)
  BY <1>7, <1>8 DEF Ring!Div, Ring!Calls
<1>10. Ring!arg(1) = a /\ Ring!arg(2) = b
  BY <1>7 DEF Ring!arg
<1> QED
  BY <1>7, <1>9, <1>10, Zenon DEF Ring!Next

(* The buffers in ds receive polynomials.                                  *)
LEMMA ReceiveIs ==
  ASSUME TypeOK, NEW ds \in SUBSET Bufs, NEW l, Receive(ds, l),
         \A r \in Bufs \ ds : buf'[r] = buf[r]
  PROVE  /\ Writes(ds) /\ \A r \in ds : logn'[r] = l /\ rep'[r] = "fft"
         /\ logn' = [r \in Bufs |-> logn'[r]] /\ rep' = [r \in Bufs |-> rep'[r]]
<1>1. /\ logn' = [r \in Bufs |-> IF r \in ds THEN l ELSE logn[r]]
      /\ rep' = [r \in Bufs |-> IF r \in ds THEN "fft" ELSE rep[r]]
  BY DEF Receive
<1> QED
  BY <1>1 DEF Writes

(* Conjugates and products of slots.                                       *)
LEMMA VConjIs ==
  ASSUME NEW l \in 1 .. LogMax, NEW z \in Vec(l)
  PROVE  /\ VConj(z) \in Vec(l)
         /\ \A s \in 0 .. hn(l) - 1 : VConj(z)[s] = Conj(z[s])
BY VecSlots, ZenonT(60)

LEMMA VMulIs ==
  ASSUME NEW l \in 1 .. LogMax, NEW z \in Vec(l), NEW w \in Vec(l)
  PROVE  /\ VMul(z, w) \in Vec(l)
         /\ \A s \in 0 .. hn(l) - 1 : VMul(z, w)[s] = FPC_MUL(z[s], w[s])
BY VecSlots, ZenonT(60)

(* poly_add_muladj_fft.                                                    *)
LEMMA StepAddMulAdj ==
  ASSUME TypeOK, NEW d \in Bufs, NEW F \in Bufs, NEW G \in Bufs, NEW f \in Bufs, NEW g \in Bufs,
         poly_add_muladj_fft(d, F, G, f, g)
  PROVE  TypeOK' /\ Ring!Next
<1> DEFINE l == logn[F]
           x == VMul(Slots(F), VConj(Slots(f)))
           y == VMul(Slots(G), VConj(Slots(g)))
           z == [s \in Places(l) |-> FPC_ADD(FPC_MUL(Slot(F, s), Conj(Slot(f, s))),
                                             FPC_MUL(Slot(G, s), Conj(Slot(g, s))))]
<1>1. /\ FFTOperands({F, f}) /\ FFTOperands({G, g}) /\ logn[G] = l
      /\ Call("poly_add_muladj_fft", <<d, F, G, f, g>>)
      /\ buf' = [buf EXCEPT ![d] = Stored(@, l, z)] /\ Receive({d}, l)
  BY DEF poly_add_muladj_fft, FFTOperands, SameSize
<1>2. /\ l \in 1 .. LogMax /\ Slots(F) \in Vec(l) /\ Slots(f) \in Vec(l)
      /\ Places(l) = 0 .. hn(l) - 1
      /\ Represented(F) = Interpolated(Slots(F), l) /\ Represented(f) = Interpolated(Slots(f), l)
      /\ \A s \in 0 .. hn(l) - 1 : Slots(F)[s] = Slot(F, s) /\ Slots(f)[s] = Slot(f, s)
  BY <1>1, Operands
<1>3. /\ Slots(G) \in Vec(l) /\ Slots(g) \in Vec(l)
      /\ Represented(G) = Interpolated(Slots(G), l) /\ Represented(g) = Interpolated(Slots(g), l)
      /\ \A s \in 0 .. hn(l) - 1 : Slots(G)[s] = Slot(G, s) /\ Slots(g)[s] = Slot(g, s)
  BY <1>1, Operands
<1>4. /\ VConj(Slots(f)) \in Vec(l)
      /\ \A s \in 0 .. hn(l) - 1 : VConj(Slots(f))[s] = Conj(Slots(f)[s])
  BY <1>2, VConjIs
<1>5. /\ VConj(Slots(g)) \in Vec(l)
      /\ \A s \in 0 .. hn(l) - 1 : VConj(Slots(g))[s] = Conj(Slots(g)[s])
  BY <1>2, <1>3, VConjIs
<1>6. /\ x \in Vec(l)
      /\ \A s \in 0 .. hn(l) - 1 : x[s] = FPC_MUL(Slot(F, s), Conj(Slot(f, s)))
  <2>1. /\ x \in Vec(l)
        /\ \A s \in 0 .. hn(l) - 1 : x[s] = FPC_MUL(Slots(F)[s], VConj(Slots(f))[s])
    BY <1>2, <1>4, VMulIs
  <2> QED
    BY <1>2, <1>4, <2>1, Zenon
<1>7. /\ y \in Vec(l)
      /\ \A s \in 0 .. hn(l) - 1 : y[s] = FPC_MUL(Slot(G, s), Conj(Slot(g, s)))
  <2>1. /\ y \in Vec(l)
        /\ \A s \in 0 .. hn(l) - 1 : y[s] = FPC_MUL(Slots(G)[s], VConj(Slots(g))[s])
    BY <1>2, <1>3, <1>5, VMulIs
  <2> QED
    BY <1>3, <1>5, <2>1, Zenon
<1>8. /\ Interpolated(x, l) =
           Ring!SchoolbookMul(Represented(F), Ring!Adjoint(Represented(f), l), l)
      /\ Interpolated(y, l) =
           Ring!SchoolbookMul(Represented(G), Ring!Adjoint(Represented(g), l), l)
  <2>1. /\ Interpolated(VConj(Slots(f)), l) = Ring!Adjoint(Represented(f), l)
        /\ Interpolated(VConj(Slots(g)), l) = Ring!Adjoint(Represented(g), l)
    BY <1>2, <1>3, VecRing
  <2>2. /\ Interpolated(x, l) =
             Ring!SchoolbookMul(Interpolated(Slots(F), l), Interpolated(VConj(Slots(f)), l), l)
        /\ Interpolated(y, l) =
             Ring!SchoolbookMul(Interpolated(Slots(G), l), Interpolated(VConj(Slots(g)), l), l)
    BY <1>2, <1>3, <1>4, <1>5, VecRing
  <2> QED
    BY <1>2, <1>3, <2>1, <2>2, Zenon
<1> HIDE DEF x, y
<1>9. z = VAdd(x, y) /\ VAdd(x, y) \in Vec(l)
  <2>1. DOMAIN x = 0 .. hn(l) - 1 /\ VAdd(x, y) \in Vec(l)
    BY <1>2, <1>6, <1>7, VecSlots
  <2>2. z = VAdd(x, y)
    BY <1>2, <1>6, <1>7, <2>1 DEF VAdd
  <2> QED
    BY <2>1, <2>2, Zenon
<1> HIDE DEF z
<1>10. /\ buf'[d] = Stored(buf[d], l, z) /\ buf' = [r \in Bufs |-> buf'[r]] /\ buf[d] \in Array
       /\ \A r \in Bufs \ {d} : buf'[r] = buf[r]
  BY <1>1 DEF TypeOK
<1>11. /\ Writes({d}) /\ logn'[d] = l /\ rep'[d] = "fft"
       /\ logn' = [r \in Bufs |-> logn'[r]] /\ rep' = [r \in Bufs |-> rep'[r]]
  <2>1. {d} \in SUBSET Bufs /\ d \in {d}
    OBVIOUS
  <2> QED
    BY <1>1, <1>10, <2>1, ReceiveIs
<1>12. Sound(d) /\ Represented(d)' = Interpolated(z, l)
  BY <1>2, <1>9, <1>10, <1>11, Received
<1>13. /\ TypeOK' /\ Ring!Changes({d})
       /\ call' = <<"poly_add_muladj_fft", <<d, F, G, f, g>>>>
  <2>1. {d} \in SUBSET Bufs /\ \A r \in {d} : Sound(r)
    BY <1>12
  <2> QED
    BY <1>1, <1>10, <1>11, <2>1, StepIs
<1>14. Represented(d)' =
         Ring!Plus(Ring!SchoolbookMul(Represented(F), Ring!Adjoint(Represented(f), l), l),
                   Ring!SchoolbookMul(Represented(G), Ring!Adjoint(Represented(g), l), l))
  BY <1>2, <1>6, <1>7, <1>8, <1>9, <1>12, VecRing
<1>15. Ring!AddMulAdj(d, F, G, f, g)
  BY <1>11, <1>13, <1>14 DEF Ring!AddMulAdj, Ring!Calls
<1>16. /\ Ring!arg(1) = d /\ Ring!arg(2) = F /\ Ring!arg(3) = G /\ Ring!arg(4) = f
       /\ Ring!arg(5) = g
  BY <1>13 DEF Ring!arg
<1> QED
  BY <1>13, <1>15, <1>16, Zenon DEF Ring!Next

(* What is taken away is put back.                                         *)
LEMMA AddBack ==
  ASSUME NEW x \in Complex, NEW y \in Complex
  PROVE  FPC_ADD(y, FPC_SUB(x, y)) = x
<1>1. x \in Pair /\ y \in Pair /\ Neg(y) \in Pair
  BY Closed
<1>2. FPC_SUB(x, y) = FPC_ADD(Neg(y), x)
  BY <1>1, Negation, AddComm
<1>3. FPC_ADD(FPC_ADD(y, Neg(y)), x) = FPC_ADD(y, FPC_ADD(Neg(y), x))
  BY <1>1, AddAssoc
<1>4. FPC_ADD(y, Neg(y)) = Zero /\ FPC_ADD(Zero, x) = x
  BY <1>1, Negation, Units
<1> QED
  BY <1>2, <1>3, <1>4, Zenon

(* The decomposition, slot by slot: with mu = g01 / g00 and g00 real,      *)
(* conj(mu) * g00 = conj(g01).                                             *)
LEMMA LDLNumbers ==
  ASSUME NEW x \in Complex, NEW y \in Complex, NEW c \in Complex, x # Zero, x[2] = 0
  PROVE  LET mu == FPC_DIV(y, x)
         IN  /\ mu \in Complex /\ Conj(mu) \in Complex
             /\ FPC_MUL(mu, Conj(y)) \in Complex
             /\ FPC_SUB(c, FPC_MUL(mu, Conj(y))) \in Complex
             /\ FPC_MUL(Conj(mu), x) = Conj(y)
             /\ FPC_ADD(FPC_MUL(Conj(y), Conj(Conj(mu))), FPC_SUB(c, FPC_MUL(mu, Conj(y)))) = c
<1> DEFINE mu == FPC_DIV(y, x)
<1>1. mu \in Complex /\ FPC_MUL(mu, x) = y
  BY QuotientIs
<1> HIDE DEF mu
<1>2. Conj(x) = x
  <2>1. (-x[2]) % P = 0 /\ x = <<x[1], x[2]>>
    BY PFacts, Parts, Closed
  <2> QED
    BY <2>1 DEF Conj
<1>3. /\ Conj(mu) \in Complex /\ Conj(y) \in Complex /\ Conj(Conj(mu)) = mu
      /\ Conj(FPC_MUL(mu, x)) = FPC_MUL(Conj(mu), Conj(x))
  BY <1>1, ConjConj, ConjMul
<1>4. FPC_MUL(Conj(mu), x) = Conj(y)
  BY <1>1, <1>2, <1>3, Zenon
<1>5. /\ mu \in Pair /\ Conj(y) \in Pair /\ c \in Pair
      /\ FPC_MUL(mu, Conj(y)) \in Complex /\ FPC_MUL(mu, Conj(y)) \in Pair
  BY <1>1, <1>3, Closed
<1>6. FPC_SUB(c, FPC_MUL(mu, Conj(y))) \in Complex
  BY <1>5, Closed
<1>7. FPC_MUL(Conj(y), mu) = FPC_MUL(mu, Conj(y))
  BY <1>5, MulComm
<1>8. FPC_ADD(FPC_MUL(mu, Conj(y)), FPC_SUB(c, FPC_MUL(mu, Conj(y)))) = c
  BY <1>5, AddBack
<1> QED
  BY <1>1, <1>3, <1>4, <1>5, <1>6, <1>7, <1>8, Zenon DEF mu

LEMMA LDLSlots ==
  ASSUME TypeOK, NEW g00 \in Bufs, NEW g01 \in Bufs, NEW g11 \in Bufs,
         GramMatrix(g00, g01, g11)
  PROVE  LET l == logn[g00]
         IN  /\ l \in 1 .. LogMax /\ logn[g01] = l /\ logn[g11] = l
             /\ rep[g01] = "fft" /\ rep[g11] = "fft"
             /\ D11(g00, g01, g11) \in Vec(l) /\ L10(g00, g01) \in Vec(l)
             /\ Ring!IsLDL(l, Interpolated(L10(g00, g01), l),
                           Interpolated(D11(g00, g01, g11), l),
                           Represented(g00), Represented(g01), Represented(g11))
<1> DEFINE l == logn[g00]
           A == Slots(g00)
           B == Slots(g01)
           C == Slots(g11)
           D == D11(g00, g01, g11)
           L == L10(g00, g01)
<1>1. /\ FFTOperands({g00, g01}) /\ FFTOperands({g00, g11}) /\ rep[g01] = "fft"
      /\ rep[g11] = "fft" /\ logn[g01] = l /\ logn[g11] = l
      /\ rep[g00] = "fft" /\ logn[g00] >= 1
      /\ \A s \in Places(l) : Slot(g00, s)[2] = 0 /\ Slot(g00, s) # Zero
  BY DEF GramMatrix, FFTOperands, SameSize, Autoadjoint, Invertible
<1>2. /\ l \in 1 .. LogMax /\ A \in Vec(l) /\ B \in Vec(l) /\ Places(l) = 0 .. hn(l) - 1
      /\ Represented(g00) = Interpolated(A, l) /\ Represented(g01) = Interpolated(B, l)
      /\ DOMAIN A = 0 .. hn(l) - 1 /\ DOMAIN B = 0 .. hn(l) - 1
      /\ \A s \in 0 .. hn(l) - 1 : /\ A[s] = Slot(g00, s) /\ Slot(g00, s) \in Complex
                                   /\ B[s] = Slot(g01, s) /\ Slot(g01, s) \in Complex
  BY <1>1, Operands
<1>3. /\ C \in Vec(l) /\ Represented(g11) = Interpolated(C, l)
      /\ \A s \in 0 .. hn(l) - 1 : C[s] = Slot(g11, s) /\ Slot(g11, s) \in Complex
  BY <1>1, Operands
<1>4. \A s \in 0 .. hn(l) - 1 :
        LET mu == FPC_DIV(Slot(g01, s), Slot(g00, s))
            t == FPC_MUL(mu, Conj(Slot(g01, s)))
        IN  /\ Conj(mu) \in Complex /\ FPC_SUB(Slot(g11, s), t) \in Complex
            /\ FPC_MUL(Conj(mu), Slot(g00, s)) = Conj(Slot(g01, s))
            /\ FPC_ADD(FPC_MUL(Conj(Slot(g01, s)), Conj(Conj(mu))), FPC_SUB(Slot(g11, s), t))
                 = Slot(g11, s)
  <2> TAKE s \in 0 .. hn(l) - 1
  <2>1. /\ Slot(g00, s) \in Complex /\ Slot(g01, s) \in Complex /\ Slot(g11, s) \in Complex
        /\ Slot(g00, s) # Zero /\ Slot(g00, s)[2] = 0
    BY <1>1, <1>2, <1>3
  <2> QED
    BY <2>1, LDLNumbers
<1>5. /\ L = [s \in 0 .. hn(l) - 1 |-> Conj(FPC_DIV(Slot(g01, s), Slot(g00, s)))]
      /\ D = [s \in 0 .. hn(l) - 1 |->
                FPC_SUB(Slot(g11, s), FPC_MUL(FPC_DIV(Slot(g01, s), Slot(g00, s)),
                                              Conj(Slot(g01, s))))]
  BY <1>2, Zenon DEF L10, D11, Mu
<1>6. L \in Vec(l) /\ D \in Vec(l)
  BY <1>4, <1>5 DEF Vec
<1>7. /\ DOMAIN L = 0 .. hn(l) - 1
      /\ \A s \in 0 .. hn(l) - 1 :
           /\ FPC_MUL(L[s], Slot(g00, s)) = Conj(Slot(g01, s))
           /\ FPC_ADD(FPC_MUL(Conj(Slot(g01, s)), Conj(L[s])), D[s]) = Slot(g11, s)
  BY <1>4, <1>5
<1> HIDE DEF A, B, C, D, L
<1>8. VMul(L, A) = VConj(B) /\ VConj(B) \in Vec(l)
  <2>1. VMul(L, A) = [s \in 0 .. hn(l) - 1 |-> Conj(Slot(g01, s))]
    BY <1>2, <1>7 DEF VMul
  <2>2. VConj(B) = [s \in 0 .. hn(l) - 1 |-> Conj(Slot(g01, s))]
    BY <1>2 DEF VConj
  <2>3. VConj(B) \in Vec(l)
    BY <1>2, VecSlots
  <2> QED
    BY <2>1, <2>2, <2>3, Zenon
<1>9. /\ VConj(L) \in Vec(l) /\ VMul(VConj(B), VConj(L)) \in Vec(l)
      /\ DOMAIN VMul(VConj(B), VConj(L)) = 0 .. hn(l) - 1
      /\ \A s \in 0 .. hn(l) - 1 :
           VMul(VConj(B), VConj(L))[s] = FPC_MUL(Conj(Slot(g01, s)), Conj(L[s]))
  <2>1. /\ VConj(L) \in Vec(l)
        /\ \A s \in 0 .. hn(l) - 1 : VConj(L)[s] = Conj(L[s])
    BY <1>2, <1>6, VConjIs
  <2>2. \A s \in 0 .. hn(l) - 1 : VConj(B)[s] = Conj(Slot(g01, s))
    <3>1. \A s \in 0 .. hn(l) - 1 : VConj(B)[s] = Conj(B[s])
      BY <1>2, VConjIs
    <3> QED
      BY <1>2, <3>1, Zenon
  <2>3. /\ VMul(VConj(B), VConj(L)) \in Vec(l)
        /\ \A s \in 0 .. hn(l) - 1 :
             VMul(VConj(B), VConj(L))[s] = FPC_MUL(VConj(B)[s], VConj(L)[s])
    <3>1. l \in 1 .. LogMax /\ VConj(B) \in Vec(l) /\ VConj(L) \in Vec(l)
      BY <1>2, <1>8, <2>1
    <3> QED
      BY <3>1, VMulIs, Zenon
  <2>4. DOMAIN VMul(VConj(B), VConj(L)) = 0 .. hn(l) - 1
    BY <2>3 DEF Vec
  <2> QED
    BY <2>1, <2>2, <2>3, <2>4
<1>10. VAdd(VMul(VConj(B), VConj(L)), D) = C
  <2>1. C = [s \in 0 .. hn(l) - 1 |-> Slot(g11, s)]
    BY <1>3 DEF Vec
  <2>2. VAdd(VMul(VConj(B), VConj(L)), D) = [s \in 0 .. hn(l) - 1 |-> Slot(g11, s)]
    BY <1>7, <1>9 DEF VAdd
  <2> QED
    BY <2>1, <2>2, Zenon
<1>11. Ring!SchoolbookMul(Interpolated(L, l), Interpolated(A, l), l)
         = Ring!Adjoint(Interpolated(B, l), l)
  <2>1. Interpolated(VMul(L, A), l) =
          Ring!SchoolbookMul(Interpolated(L, l), Interpolated(A, l), l)
    BY <1>2, <1>6, VecRing
  <2>2. Interpolated(VConj(B), l) = Ring!Adjoint(Interpolated(B, l), l)
    BY <1>2, VecRing
  <2> QED
    BY <1>8, <2>1, <2>2, Zenon
<1>12. Ring!Plus(Ring!SchoolbookMul(Ring!Adjoint(Interpolated(B, l), l),
                                    Ring!Adjoint(Interpolated(L, l), l), l),
                 Interpolated(D, l)) = Interpolated(C, l)
  <2>1. /\ Interpolated(VConj(B), l) = Ring!Adjoint(Interpolated(B, l), l)
        /\ Interpolated(VConj(L), l) = Ring!Adjoint(Interpolated(L, l), l)
    BY <1>2, <1>6, VecRing
  <2>2. Interpolated(VMul(VConj(B), VConj(L)), l) =
          Ring!SchoolbookMul(Interpolated(VConj(B), l), Interpolated(VConj(L), l), l)
    BY <1>2, <1>8, <1>9, VecRing
  <2>3. Interpolated(VAdd(VMul(VConj(B), VConj(L)), D), l) =
          Ring!Plus(Interpolated(VMul(VConj(B), VConj(L)), l), Interpolated(D, l))
    BY <1>2, <1>6, <1>9, VecRing
  <2> QED
    BY <1>10, <2>1, <2>2, <2>3, Zenon
<1>13. Ring!IsLDL(l, Interpolated(L, l), Interpolated(D, l),
                  Represented(g00), Represented(g01), Represented(g11))
  BY <1>2, <1>3, <1>11, <1>12, Zenon DEF Ring!IsLDL
<1> QED
  BY <1>1, <1>2, <1>6, <1>13, Zenon DEF L, D

(* poly_LDL_fft.                                                           *)
LEMMA StepLDL ==
  ASSUME TypeOK, NEW g00 \in Bufs, NEW g01 \in Bufs, NEW g11 \in Bufs,
         poly_LDL_fft(g00, g01, g11)
  PROVE  TypeOK' /\ Ring!Next
<1> DEFINE l == logn[g00]
           D == D11(g00, g01, g11)
           L == L10(g00, g01)
<1>1. /\ Call("poly_LDL_fft", <<g00, g01, g11>>)
      /\ g01 # g11 /\ GramMatrix(g00, g01, g11)
      /\ buf' = [buf EXCEPT ![g01] = Stored(@, l, L), ![g11] = Stored(@, l, D)]
      /\ logn' = logn /\ rep' = rep
  BY DEF poly_LDL_fft
<1>2. /\ l \in 1 .. LogMax /\ logn[g01] = l /\ logn[g11] = l
      /\ rep[g01] = "fft" /\ rep[g11] = "fft"
      /\ D \in Vec(l) /\ L \in Vec(l)
      /\ Ring!IsLDL(l, Interpolated(L, l), Interpolated(D, l),
                    Represented(g00), Represented(g01), Represented(g11))
  BY <1>1, LDLSlots
<1> HIDE DEF l, D, L
<1>3. /\ buf'[g01] = Stored(buf[g01], l, L) /\ buf'[g11] = Stored(buf[g11], l, D)
      /\ buf[g01] \in Array /\ buf[g11] \in Array
      /\ buf' = [r \in Bufs |-> buf'[r]] /\ \A r \in Bufs \ {g01, g11} : buf'[r] = buf[r]
  BY <1>1 DEF TypeOK
<1>4. /\ Writes({g01, g11}) /\ logn' = [r \in Bufs |-> logn'[r]] /\ rep' = [r \in Bufs |-> rep'[r]]
      /\ logn'[g01] = l /\ logn'[g11] = l /\ rep'[g01] = "fft" /\ rep'[g11] = "fft"
  BY <1>1, <1>2, <1>3 DEF Writes, TypeOK
<1>5. /\ Sound(g01) /\ Represented(g01)' = Interpolated(L, l)
      /\ Sound(g11) /\ Represented(g11)' = Interpolated(D, l)
  BY <1>2, <1>3, <1>4, Received
<1>6. TypeOK' /\ Ring!Changes({g01, g11}) /\ call' = <<"poly_LDL_fft", <<g00, g01, g11>>>>
  <2>1. {g01, g11} \in SUBSET Bufs /\ \A r \in {g01, g11} : Sound(r)
    BY <1>5
  <2> QED
    BY <1>1, <1>3, <1>4, <2>1, StepIs
<1>7. Ring!IsLDL(l, Represented(g01)', Represented(g11)',
                 Represented(g00), Represented(g01), Represented(g11))
  BY <1>2, <1>5, Zenon
<1>8. Ring!LDL(g00, g01, g11)
  BY <1>4, <1>6, <1>7 DEF Ring!LDL, Ring!Calls, l
<1>9. Ring!arg(1) = g00 /\ Ring!arg(2) = g01 /\ Ring!arg(3) = g11
  BY <1>6 DEF Ring!arg
<1> QED
  BY <1>6, <1>8, <1>9, Zenon DEF Ring!Next

(* poly_LDLmv_fft.                                                         *)
LEMMA StepLDLmv ==
  ASSUME TypeOK, NEW d11 \in Bufs, NEW l10 \in Bufs, NEW g00 \in Bufs, NEW g01 \in Bufs,
         NEW g11 \in Bufs, poly_LDLmv_fft(d11, l10, g00, g01, g11)
  PROVE  TypeOK' /\ Ring!Next
<1> DEFINE l == logn[g00]
           D == D11(g00, g01, g11)
           L == L10(g00, g01)
<1>1. /\ Call("poly_LDLmv_fft", <<d11, l10, g00, g01, g11>>)
      /\ d11 # l10 /\ GramMatrix(g00, g01, g11)
      /\ buf' = [buf EXCEPT ![d11] = Stored(@, l, D), ![l10] = Stored(@, l, L)]
      /\ Receive({d11, l10}, l)
  BY DEF poly_LDLmv_fft
<1>2. /\ l \in 1 .. LogMax /\ D \in Vec(l) /\ L \in Vec(l)
      /\ Ring!IsLDL(l, Interpolated(L, l), Interpolated(D, l),
                    Represented(g00), Represented(g01), Represented(g11))
  BY <1>1, LDLSlots
<1> HIDE DEF l, D, L
<1>3. /\ buf'[l10] = Stored(buf[l10], l, L) /\ buf'[d11] = Stored(buf[d11], l, D)
      /\ buf[l10] \in Array /\ buf[d11] \in Array
      /\ buf' = [r \in Bufs |-> buf'[r]] /\ \A r \in Bufs \ {d11, l10} : buf'[r] = buf[r]
  BY <1>1 DEF TypeOK
<1>4. /\ Writes({d11, l10}) /\ logn' = [r \in Bufs |-> logn'[r]] /\ rep' = [r \in Bufs |-> rep'[r]]
      /\ logn'[l10] = l /\ logn'[d11] = l /\ rep'[l10] = "fft" /\ rep'[d11] = "fft"
  <2>1. {d11, l10} \in SUBSET Bufs /\ d11 \in {d11, l10} /\ l10 \in {d11, l10}
    OBVIOUS
  <2> QED
    BY <1>1, <1>3, <2>1, ReceiveIs, ZenonT(60)
<1>5. /\ Sound(l10) /\ Represented(l10)' = Interpolated(L, l)
      /\ Sound(d11) /\ Represented(d11)' = Interpolated(D, l)
  BY <1>2, <1>3, <1>4, Received
<1>6. /\ TypeOK' /\ Ring!Changes({d11, l10})
      /\ call' = <<"poly_LDLmv_fft", <<d11, l10, g00, g01, g11>>>>
  <2>1. {d11, l10} \in SUBSET Bufs /\ \A r \in {d11, l10} : Sound(r)
    BY <1>5
  <2> QED
    BY <1>1, <1>3, <1>4, <2>1, StepIs
<1>7. Ring!IsLDL(l, Represented(l10)', Represented(d11)',
                 Represented(g00), Represented(g01), Represented(g11))
  BY <1>2, <1>5, Zenon
<1>8. Ring!LDLmv(d11, l10, g00, g01, g11)
  BY <1>4, <1>6, <1>7 DEF Ring!LDLmv, Ring!Calls, l
<1>9. /\ Ring!arg(1) = d11 /\ Ring!arg(2) = l10 /\ Ring!arg(3) = g00 /\ Ring!arg(4) = g01
      /\ Ring!arg(5) = g11
  BY <1>6 DEF Ring!arg
<1> QED
  BY <1>6, <1>8, <1>9, Zenon DEF Ring!Next

(* poly_invnorm2_fft: each slot of the result times the sum of the norms   *)
(* is 1, although only half of the result is stored.                       *)
LEMMA StepInvNorm2 ==
  ASSUME TypeOK, NEW d \in Bufs, NEW a \in Bufs, NEW b \in Bufs, poly_invnorm2_fft(d, a, b)
  PROVE  TypeOK' /\ Ring!Next
<1> DEFINE l == logn[a]
           norm(s) == (Norm2(Slot(a, s)) + Norm2(Slot(b, s))) % P
           x == VMul(Slots(a), VConj(Slots(a)))
           y == VMul(Slots(b), VConj(Slots(b)))
           o == [v \in DOMAIN buf[d] |-> IF v < hn(l) THEN fpr_inv[norm(v)] ELSE buf[d][v]]
           t == SlotsIn(o, l, "half")
<1>1. /\ FFTOperands({a, b}) /\ Call("poly_invnorm2_fft", <<d, a, b>>)
      /\ \A s \in Places(l) : norm(s) # 0
      /\ buf' = [buf EXCEPT ![d] = o]
      /\ logn' = [logn EXCEPT ![d] = l] /\ rep' = [rep EXCEPT ![d] = "half"]
  BY DEF poly_invnorm2_fft
<1>2. /\ l \in 1 .. LogMax /\ Slots(a) \in Vec(l) /\ Slots(b) \in Vec(l)
      /\ Places(l) = 0 .. hn(l) - 1
      /\ Represented(a) = Interpolated(Slots(a), l) /\ Represented(b) = Interpolated(Slots(b), l)
      /\ \A s \in 0 .. hn(l) - 1 : /\ Slots(a)[s] = Slot(a, s) /\ Slots(b)[s] = Slot(b, s)
                                   /\ Slot(a, s) \in Complex /\ Slot(b, s) \in Complex
  BY <1>1, Operands
<1>3. /\ x \in Vec(l) /\ y \in Vec(l)
      /\ \A s \in 0 .. hn(l) - 1 : /\ x[s] = <<Norm2(Slot(a, s)), 0>>
                                   /\ y[s] = <<Norm2(Slot(b, s)), 0>>
  <2>1. /\ VConj(Slots(a)) \in Vec(l) /\ VConj(Slots(b)) \in Vec(l)
        /\ \A s \in 0 .. hn(l) - 1 : VConj(Slots(a))[s] = Conj(Slots(a)[s])
        /\ \A s \in 0 .. hn(l) - 1 : VConj(Slots(b))[s] = Conj(Slots(b)[s])
    BY <1>2, VConjIs
  <2>2. /\ x \in Vec(l) /\ y \in Vec(l)
        /\ \A s \in 0 .. hn(l) - 1 : x[s] = FPC_MUL(Slots(a)[s], VConj(Slots(a))[s])
        /\ \A s \in 0 .. hn(l) - 1 : y[s] = FPC_MUL(Slots(b)[s], VConj(Slots(b))[s])
    BY <1>2, <2>1, VMulIs
  <2>3. \A s \in 0 .. hn(l) - 1 :
          /\ FPC_MUL(Slot(a, s), Conj(Slot(a, s))) = <<Norm2(Slot(a, s)), 0>>
          /\ FPC_MUL(Slot(b, s), Conj(Slot(b, s))) = <<Norm2(Slot(b, s)), 0>>
    BY <1>2, NormIs
  <2> QED
    BY <1>2, <2>1, <2>2, <2>3, Zenon
<1>4. /\ Interpolated(x, l) =
           Ring!SchoolbookMul(Represented(a), Ring!Adjoint(Represented(a), l), l)
      /\ Interpolated(y, l) =
           Ring!SchoolbookMul(Represented(b), Ring!Adjoint(Represented(b), l), l)
  <2>1. /\ Interpolated(VConj(Slots(a)), l) = Ring!Adjoint(Represented(a), l)
        /\ Interpolated(VConj(Slots(b)), l) = Ring!Adjoint(Represented(b), l)
        /\ VConj(Slots(a)) \in Vec(l) /\ VConj(Slots(b)) \in Vec(l)
    BY <1>2, VecRing, VConjIs
  <2>2. /\ Interpolated(x, l) =
             Ring!SchoolbookMul(Interpolated(Slots(a), l), Interpolated(VConj(Slots(a)), l), l)
        /\ Interpolated(y, l) =
             Ring!SchoolbookMul(Interpolated(Slots(b), l), Interpolated(VConj(Slots(b)), l), l)
    BY <1>2, <2>1, VecRing
  <2> QED
    BY <1>2, <2>1, <2>2, Zenon
<1> HIDE DEF x, y
<1>5. /\ VAdd(x, y) \in Vec(l)
      /\ \A s \in 0 .. hn(l) - 1 : VAdd(x, y)[s] = <<norm(s), 0>>
  <2>1. /\ VAdd(x, y) \in Vec(l)
        /\ \A s \in 0 .. hn(l) - 1 : VAdd(x, y)[s] = FPC_ADD(x[s], y[s])
    BY <1>2, <1>3, VecSlots
  <2>2. (0 + 0) % P = 0
    BY PFacts
  <2> QED
    BY <1>3, <2>1, <2>2 DEF FPC_ADD
<1>6. \A s \in 0 .. hn(l) - 1 : norm(s) \in 1 .. P - 1
  <2> TAKE s \in 0 .. hn(l) - 1
  <2>1. Norm2(Slot(a, s)) \in Int /\ Norm2(Slot(b, s)) \in Int
    BY <1>2, NormIs, PFacts DEF Residue
  <2>2. norm(s) # 0
    BY <1>1, <1>2
  <2> QED
    BY <2>1, <2>2, PFacts
<1>7. buf[d] \in Array /\ DOMAIN buf[d] = 0 .. Pow2[LogMax] - 1 /\ Pow2[LogMax] \in Nat
      /\ hn(l) \in Nat
  BY <1>2, CircleFacts, OpSizes DEF TypeOK, Array
<1> HIDE DEF norm
<1>8. o \in Array
  <2>1. ASSUME NEW v \in 0 .. Pow2[LogMax] - 1
        PROVE  (IF v < hn(l) THEN fpr_inv[norm(v)] ELSE buf[d][v]) \in Residue
    <3>1. CASE v < hn(l)
      <4>1. v \in 0 .. hn(l) - 1
        BY <1>7, <3>1
      <4>2. norm(v) \in 1 .. P - 1
        BY <1>6, <4>1
      <4>3. fpr_inv[norm(v)] \in Residue
        BY <4>2, InverseIs
      <4> QED
        BY <3>1, <4>3
    <3>2. CASE ~ (v < hn(l))
      BY <1>7, <3>2 DEF Array
    <3> QED
      BY <3>1, <3>2
  <2> QED
    BY <1>7, <2>1 DEF Array
<1>9. \A s \in 0 .. hn(l) - 1 : o[s] = fpr_inv[norm(s)]
  <2> TAKE s \in 0 .. hn(l) - 1
  <2>1. s \in Reals(l) /\ Reals(l) \subseteq 0 .. Pow2[LogMax] - 1 /\ s < hn(l)
    <3>1. s \in 0 .. n(l) - 1
      BY <1>2, <1>8, SlotsInIs
    <3>2. l \in 0 .. LogMax
      BY <1>2
    <3> QED
      BY <1>7, <3>1, <3>2, MemorySizes
  <2> QED
    BY <1>7, <2>1
<1> HIDE DEF o
<1>10. t \in Vec(l) /\ \A s \in 0 .. hn(l) - 1 : t[s] = <<fpr_inv[norm(s)], 0>>
  BY <1>2, <1>8, <1>9, SlotsInIs
<1> HIDE DEF t
<1>11. /\ VMul(t, VAdd(x, y)) \in Vec(l)
       /\ \A s \in 0 .. hn(l) - 1 : VMul(t, VAdd(x, y))[s] = One
  <2>1. /\ VMul(t, VAdd(x, y)) \in Vec(l)
        /\ \A s \in 0 .. hn(l) - 1 : VMul(t, VAdd(x, y))[s] = FPC_MUL(t[s], VAdd(x, y)[s])
    BY <1>2, <1>5, <1>10, VMulIs
  <2>2. \A s \in 0 .. hn(l) - 1 : FPC_MUL(<<fpr_inv[norm(s)], 0>>, <<norm(s), 0>>) = One
    BY <1>6, InverseIs
  <2> QED
    BY <1>5, <1>10, <2>1, <2>2, Zenon
<1>12. Ring!SchoolbookMul(Interpolated(t, l), Ring!Plus(Interpolated(x, l), Interpolated(y, l)), l)
         = Monomial(l, 0)
  <2>1. Interpolated(VMul(t, VAdd(x, y)), l) = Monomial(l, 0)
    BY <1>2, <1>11, OneSlots
  <2>2. Interpolated(VAdd(x, y), l) = Ring!Plus(Interpolated(x, l), Interpolated(y, l))
    BY <1>2, <1>3, VecRing
  <2>3. Interpolated(VMul(t, VAdd(x, y)), l) =
          Ring!SchoolbookMul(Interpolated(t, l), Interpolated(VAdd(x, y), l), l)
    BY <1>2, <1>5, <1>10, VecRing
  <2> QED
    BY <2>1, <2>2, <2>3, Zenon
<1>13. /\ buf'[d] = o /\ logn'[d] = l /\ rep'[d] = "half" /\ Writes({d})
       /\ buf' = [r \in Bufs |-> buf'[r]] /\ logn' = [r \in Bufs |-> logn'[r]]
       /\ rep' = [r \in Bufs |-> rep'[r]]
  BY <1>1 DEF TypeOK, Writes
<1>14. Sound(d)
  BY <1>2, <1>8, <1>13 DEF Sound, Representations
<1>15. Represented(d)' = Interpolated(t, l)
  <2>1. Represented(d)' = Seen(o, l, "half")
    BY <1>13, RepresentedIs
  <2>2. l \in 0 .. LogMax /\ l # 0 /\ "half" # "coef"
    BY <1>2
  <2> QED
    BY <1>8, <2>1, <2>2, SeenIs, Zenon DEF t
<1>16. /\ TypeOK' /\ Ring!Changes({d}) /\ call' = <<"poly_invnorm2_fft", <<d, a, b>>>>
  <2>1. {d} \in SUBSET Bufs /\ \A r \in {d} : Sound(r)
    BY <1>14
  <2> QED
    BY <1>1, <1>13, <2>1, StepIs
<1>17. Ring!SchoolbookMul(
         Represented(d)',
         Ring!Plus(Ring!SchoolbookMul(Represented(a), Ring!Adjoint(Represented(a), l), l),
                   Ring!SchoolbookMul(Represented(b), Ring!Adjoint(Represented(b), l), l)),
         l) = Ring!Monomial(l, 0)
  BY <1>4, <1>12, <1>15, Zenon DEF Monomial, Ring!Monomial
<1>18. Ring!InvNorm2(d, a, b)
  BY <1>13, <1>16, <1>17 DEF Ring!InvNorm2, Ring!Calls
<1>19. Ring!arg(1) = d /\ Ring!arg(2) = a /\ Ring!arg(3) = b
  BY <1>16 DEF Ring!arg
<1> QED
  BY <1>16, <1>18, <1>19, Zenon DEF Ring!Next

(* FFT and iFFT leave every polynomial what it is.                         *)
LEMMA Transformed ==
  ASSUME NEW a \in Bufs, Ring!Changes({a}), logn'[a] = logn[a],
         Represented(a)' = Represented(a), call'[1] \in {"FFT", "iFFT"}
  PROVE  Ring!Next
<1>1. \A r \in Bufs \ {} : Represented(r)' = Represented(r) /\ logn'[r] = logn[r]
  <2> TAKE r \in Bufs \ {}
  <2>1. CASE r = a
    BY <2>1
  <2>2. CASE r # a
    <3>1. r \in Bufs \ {a} /\ r \in Bufs
      BY <2>2
    <3> QED
      BY <3>1 DEF Ring!Changes
  <2> QED
    BY <2>1, <2>2
<1>2. Ring!Changes({})
  BY <1>1 DEF Ring!Changes
<1>3. Ring!Transform
  BY <1>2 DEF Ring!Transform, Ring!Calls
<1> QED
  BY <1>3, Zenon DEF Ring!Next

LEMMA StepFFT ==
  ASSUME TypeOK, NEW a \in Bufs, FFT(a)
  PROVE  TypeOK' /\ Ring!Next
<1> DEFINE l == logn[a]
           f == Represented(a)
           z == [s \in Places(l) |-> Value(f, l, s)]
<1>1. /\ Call("FFT", <<a>>) /\ rep[a] = "coef" /\ l >= 1
      /\ rep' = [rep EXCEPT ![a] = "fft"] /\ buf' = [buf EXCEPT ![a] = Stored(@, l, z)]
      /\ logn' = logn
  BY DEF FFT
<1>2. l \in 1 .. LogMax /\ l \in 0 .. LogMax /\ buf[a] \in Array
  BY <1>1 DEF TypeOK
<1>3. f \in Poly(l)
  BY <1>2, SeenIs, RepresentedIs
<1> HIDE DEF f
<1>4. z = Values(f, l) /\ z \in Vec(l) /\ \A s \in 0 .. hn(l) - 1 : Value(f, l, s) = z[s]
  <2>1. Places(l) = 0 .. hn(l) - 1
    BY DEF Places
  <2>2. z = Values(f, l)
    BY <2>1, Zenon DEF Values
  <2>3. \A s \in 0 .. hn(l) - 1 : Value(f, l, s) \in Complex
    BY <1>2, <1>3, ValueIs
  <2>4. z \in Vec(l)
    BY <2>1, <2>3 DEF Vec
  <2> QED
    BY <2>1, <2>2, <2>4
<1> HIDE DEF z
<1>5. Interpolated(z, l) = f
  BY <1>2, <1>3, <1>4, InterpolatedValue
<1>6. /\ buf'[a] = Stored(buf[a], l, z) /\ logn'[a] = l /\ rep'[a] = "fft" /\ Writes({a})
      /\ buf' = [r \in Bufs |-> buf'[r]] /\ logn' = [r \in Bufs |-> logn'[r]]
      /\ rep' = [r \in Bufs |-> rep'[r]]
  BY <1>1 DEF TypeOK, Writes
<1>7. Sound(a) /\ Represented(a)' = Interpolated(z, l)
  BY <1>2, <1>4, <1>6, Received
<1>8. TypeOK' /\ Ring!Changes({a}) /\ call' = <<"FFT", <<a>>>>
  <2>1. {a} \in SUBSET Bufs /\ \A r \in {a} : Sound(r)
    BY <1>7
  <2>2. Writes({a}) /\ Call("FFT", <<a>>)
    BY <1>1, <1>6
  <2> QED
    BY <1>6, <2>1, <2>2, StepIs, Zenon
<1>9. Represented(a)' = Represented(a) /\ call'[1] \in {"FFT", "iFFT"}
  BY <1>5, <1>7, <1>8 DEF f
<1> QED
  BY <1>6, <1>8, <1>9, Transformed

(* A loop over the reals of a.                                             *)
LEMMA EachStep ==
  ASSUME TypeOK, NEW a \in Bufs, NEW c \in [Reals(logn[a]) -> Residue], NEW q,
         q \in {"coef", "fft"}, buf' = [buf EXCEPT ![a] = Each(@, logn[a], c)], logn' = logn,
         rep' = [rep EXCEPT ![a] = q],
         NEW name, NEW args, Call(name, args)
  PROVE  /\ TypeOK' /\ Ring!InPlace(a) /\ Ring!Changes({a}) /\ call' = <<name, args>>
         /\ buf'[a] \in Array /\ \A v \in Reals(logn[a]) : buf'[a][v] = c[v]
         /\ Represented(a)' = Seen(buf'[a], logn[a], q)
<1>1. logn[a] \in 0 .. LogMax /\ buf[a] \in Array
  BY DEF TypeOK
<1>2. /\ buf'[a] = Each(buf[a], logn[a], c) /\ logn'[a] = logn[a] /\ rep'[a] = q
      /\ buf' = [r \in Bufs |-> buf'[r]] /\ logn' = [r \in Bufs |-> logn'[r]]
      /\ rep' = [r \in Bufs |-> rep'[r]] /\ Writes({a})
  BY DEF TypeOK, Writes
<1>3. buf'[a] \in Array /\ \A v \in Reals(logn[a]) : buf'[a][v] = c[v]
  BY <1>1, <1>2, EachIs
<1>4. Sound(a)
  BY <1>1, <1>2, <1>3 DEF Sound, Representations
<1>5. TypeOK' /\ Ring!Changes({a}) /\ call' = <<name, args>>
  <2>1. {a} \in SUBSET Bufs /\ \A r \in {a} : Sound(r)
    BY <1>4
  <2> QED
    BY <1>2, <2>1, StepIs
<1>6. Represented(a)' = Seen(buf'[a], logn[a], q)
  BY <1>2, RepresentedIs
<1> QED
  BY <1>2, <1>3, <1>5, <1>6, Zenon DEF Ring!InPlace

LEMMA StepiFFT ==
  ASSUME TypeOK, NEW a \in Bufs, iFFT(a)
  PROVE  TypeOK' /\ Ring!Next
<1> DEFINE l == logn[a]
           f == Represented(a)
<1>1. /\ Call("iFFT", <<a>>) /\ rep' = [rep EXCEPT ![a] = "coef"]
      /\ buf' = [buf EXCEPT ![a] = Each(@, l, f)] /\ logn' = logn
  BY DEF iFFT
<1>2. l \in 0 .. LogMax /\ buf[a] \in Array
  BY DEF TypeOK
<1>3. f \in Poly(l) /\ Poly(l) = [Reals(l) -> Residue]
  BY <1>2, SeenIs, RepresentedIs, MemorySizes
<1> HIDE DEF f
<1>4. /\ TypeOK' /\ Ring!InPlace(a) /\ Ring!Changes({a}) /\ call' = <<"iFFT", <<a>>>>
      /\ buf'[a] \in Array /\ \A v \in Reals(l) : buf'[a][v] = f[v]
      /\ Represented(a)' = Seen(buf'[a], l, "coef")
  <2>1. "coef" \in {"coef", "fft"} /\ f \in [Reals(l) -> Residue]
    BY <1>3
  <2> QED
    BY <1>1, <2>1, EachStep
<1>5. Seen(buf'[a], l, "coef") = [d \in Reals(l) |-> buf'[a][d]]
  BY <1>2, <1>4, SeenIs
<1>6. f = [d \in Reals(l) |-> f[d]]
  BY <1>3
<1>7. Represented(a)' = f
  BY <1>4, <1>5, <1>6
<1>8. call'[1] \in {"FFT", "iFFT"} /\ logn'[a] = logn[a]
  BY <1>1, <1>4
<1> QED
  BY <1>4, <1>7, <1>8, Transformed DEF f

(* Sums, differences and multiples of reals are those of polynomials, in   *)
(* coefficients and in slots.                                              *)
LEMMA RealsAre ==
  ASSUME NEW m \in Array, NEW l \in 0 .. LogMax
  PROVE  /\ \A v \in Reals(l) : m[v] \in Residue /\ m[v] \in Int
         /\ Seen(m, l, "coef") = [d \in Reals(l) |-> m[d]]
         /\ l = 0 => Seen(m, l, "fft") = [d \in Reals(l) |-> m[d]]
         /\ l # 0 => /\ l \in 1 .. LogMax /\ SlotsIn(m, l, "fft") \in Vec(l)
                     /\ Seen(m, l, "fft") = Interpolated(SlotsIn(m, l, "fft"), l)
                     /\ DOMAIN SlotsIn(m, l, "fft") = 0 .. hn(l) - 1
                     /\ SlotsIn(m, l, "fft") = [s \in 0 .. hn(l) - 1 |-> <<m[s], m[s + hn(l)]>>]
                     /\ \A s \in 0 .. hn(l) - 1 :
                          /\ s \in Reals(l) /\ s + hn(l) \in Reals(l)
                          /\ SlotsIn(m, l, "fft")[s] = <<m[s], m[s + hn(l)]>>
<1>1. /\ Reals(l) = 0 .. n(l) - 1 /\ Reals(l) \subseteq 0 .. Pow2[LogMax] - 1
  BY MemorySizes
<1>2. \A v \in Reals(l) : m[v] \in Residue /\ m[v] \in Int
  BY <1>1, PFacts DEF Array, Residue
<1>3. /\ Seen(m, l, "coef") = [d \in Reals(l) |-> m[d]]
      /\ l = 0 => Seen(m, l, "fft") = [d \in Reals(l) |-> m[d]]
  BY SeenIs, Zenon
<1>4. ASSUME l # 0
      PROVE  /\ l \in 1 .. LogMax /\ SlotsIn(m, l, "fft") \in Vec(l)
             /\ Seen(m, l, "fft") = Interpolated(SlotsIn(m, l, "fft"), l)
             /\ DOMAIN SlotsIn(m, l, "fft") = 0 .. hn(l) - 1
             /\ SlotsIn(m, l, "fft") = [s \in 0 .. hn(l) - 1 |-> <<m[s], m[s + hn(l)]>>]
             /\ \A s \in 0 .. hn(l) - 1 :
                  /\ s \in Reals(l) /\ s + hn(l) \in Reals(l)
                  /\ SlotsIn(m, l, "fft")[s] = <<m[s], m[s + hn(l)]>>
  <2>1. l \in 1 .. LogMax /\ "fft" # "half" /\ "fft" # "coef"
    BY <1>4
  <2>2. /\ SlotsIn(m, l, "fft") \in Vec(l)
        /\ \A s \in 0 .. hn(l) - 1 :
             /\ s \in 0 .. n(l) - 1 /\ s + hn(l) \in 0 .. n(l) - 1
             /\ SlotsIn(m, l, "fft")[s] = <<m[s], m[s + hn(l)]>>
    BY <2>1, SlotsInIs
  <2>3. Seen(m, l, "fft") = Interpolated(SlotsIn(m, l, "fft"), l)
    BY <1>4, <2>1, SeenIs, Zenon
  <2>4. DOMAIN SlotsIn(m, l, "fft") = 0 .. hn(l) - 1
    BY <2>2 DEF Vec
  <2>5. SlotsIn(m, l, "fft") = [s \in 0 .. hn(l) - 1 |-> SlotsIn(m, l, "fft")[s]]
    BY <2>2 DEF Vec
  <2>6. SlotsIn(m, l, "fft") = [s \in 0 .. hn(l) - 1 |-> <<m[s], m[s + hn(l)]>>]
    BY <2>2, <2>5
  <2> QED
    BY <1>1, <2>1, <2>2, <2>3, <2>4, <2>6
<1> QED
  BY <1>2, <1>3, <1>4

LEMMA SumsOfReals ==
  ASSUME NEW m \in Array, NEW o \in Array, NEW k \in Array, NEW l \in 0 .. LogMax,
         NEW q \in {"coef", "fft"}
  PROVE  /\ (\A v \in Reals(l) : k[v] = (m[v] + o[v]) % P)
              => Seen(k, l, q) = Ring!Plus(Seen(m, l, q), Seen(o, l, q))
         /\ (\A v \in Reals(l) : k[v] = (m[v] - o[v]) % P)
              => Seen(k, l, q) = Ring!Minus(Seen(m, l, q), Seen(o, l, q))
<1>1. CASE q = "coef" \/ l = 0
  <2>1. /\ Seen(m, l, q) = [d \in Reals(l) |-> m[d]]
        /\ Seen(o, l, q) = [d \in Reals(l) |-> o[d]]
        /\ Seen(k, l, q) = [d \in Reals(l) |-> k[d]]
    BY <1>1, RealsAre
  <2> QED
    BY <2>1 DEF Ring!Plus, Ring!Minus
<1>2. CASE ~ (q = "coef" \/ l = 0)
  <2> DEFINE x == SlotsIn(m, l, q)
             y == SlotsIn(o, l, q)
             z == SlotsIn(k, l, q)
  <2>0. q = "fft" /\ l # 0
    BY <1>2
  <2>1. /\ l \in 1 .. LogMax /\ x \in Vec(l) /\ Seen(m, l, q) = Interpolated(x, l)
        /\ DOMAIN x = 0 .. hn(l) - 1
        /\ \A s \in 0 .. hn(l) - 1 : s \in Reals(l) /\ s + hn(l) \in Reals(l)
        /\ \A s \in 0 .. hn(l) - 1 : x[s] = <<m[s], m[s + hn(l)]>>
    BY <2>0, RealsAre
  <2>2. /\ y \in Vec(l) /\ Seen(o, l, q) = Interpolated(y, l)
        /\ \A s \in 0 .. hn(l) - 1 : y[s] = <<o[s], o[s + hn(l)]>>
    BY <2>0, RealsAre
  <2>3. /\ Seen(k, l, q) = Interpolated(z, l)
        /\ z = [s \in 0 .. hn(l) - 1 |-> <<k[s], k[s + hn(l)]>>]
    BY <2>0, RealsAre
  <2> HIDE DEF x, y, z
  <2>4. ASSUME \A v \in Reals(l) : k[v] = (m[v] + o[v]) % P
        PROVE  z = VAdd(x, y)
    BY <2>1, <2>2, <2>3, <2>4 DEF VAdd, FPC_ADD
  <2>5. ASSUME \A v \in Reals(l) : k[v] = (m[v] - o[v]) % P
        PROVE  z = VSub(x, y)
    BY <2>1, <2>2, <2>3, <2>5 DEF VSub, FPC_SUB
  <2>6. /\ Interpolated(VAdd(x, y), l) = Ring!Plus(Interpolated(x, l), Interpolated(y, l))
        /\ Interpolated(VSub(x, y), l) = Ring!Minus(Interpolated(x, l), Interpolated(y, l))
    BY <2>1, <2>2, VecRing
  <2> QED
    BY <2>1, <2>2, <2>3, <2>4, <2>5, <2>6, Zenon
<1> QED
  BY <1>1, <1>2

LEMMA MultiplesOfReals ==
  ASSUME NEW m \in Array, NEW k \in Array, NEW l \in 0 .. LogMax, NEW q \in {"coef", "fft"},
         NEW c \in Int, \A v \in Reals(l) : k[v] = (c * m[v]) % P
  PROVE  Seen(k, l, q) = Ring!Multiple(c, Seen(m, l, q))
<1>1. CASE q = "coef" \/ l = 0
  <2>1. /\ Seen(m, l, q) = [d \in Reals(l) |-> m[d]]
        /\ Seen(k, l, q) = [d \in Reals(l) |-> k[d]]
    BY <1>1, RealsAre
  <2> QED
    BY <2>1 DEF Ring!Multiple
<1>2. CASE ~ (q = "coef" \/ l = 0)
  <2> DEFINE x == SlotsIn(m, l, q)
             z == SlotsIn(k, l, q)
  <2>0. q = "fft" /\ l # 0
    BY <1>2
  <2>1. /\ l \in 1 .. LogMax /\ x \in Vec(l) /\ Seen(m, l, q) = Interpolated(x, l)
        /\ \A s \in 0 .. hn(l) - 1 : s \in Reals(l) /\ s + hn(l) \in Reals(l)
        /\ \A s \in 0 .. hn(l) - 1 : x[s] = <<m[s], m[s + hn(l)]>>
    BY <2>0, RealsAre
  <2>2. /\ z \in Vec(l) /\ Seen(k, l, q) = Interpolated(z, l)
        /\ \A s \in 0 .. hn(l) - 1 : z[s] = <<k[s], k[s + hn(l)]>>
    BY <2>0, RealsAre
  <2> HIDE DEF x, z
  <2>3. \A s \in 0 .. hn(l) - 1 : /\ z[s][1] = (c * x[s][1]) % P
                                  /\ z[s][2] = (c * x[s][2]) % P
    BY <2>1, <2>2
  <2>4. Interpolated(z, l) = Ring!Multiple(c, Interpolated(x, l))
    BY <2>1, <2>2, <2>3, VecMultiple
  <2> QED
    BY <2>1, <2>2, <2>4, Zenon
<1> QED
  BY <1>1, <1>2

(* The loop of an operation that keeps the representation.                 *)
LEMMA InPlaceLoop ==
  ASSUME TypeOK, NEW a \in Bufs, NEW c \in [Reals(logn[a]) -> Residue],
         rep[a] \in {"coef", "fft"}, buf' = [buf EXCEPT ![a] = Each(@, logn[a], c)],
         logn' = logn, rep' = rep, NEW name, NEW args, Call(name, args)
  PROVE  /\ TypeOK' /\ Ring!InPlace(a) /\ call' = <<name, args>>
         /\ buf'[a] \in Array /\ \A v \in Reals(logn[a]) : buf'[a][v] = c[v]
         /\ Represented(a)' = Seen(buf'[a], logn[a], rep[a])
<1>1. rep' = [rep EXCEPT ![a] = rep[a]]
  BY DEF TypeOK
<1> QED
  BY <1>1, EachStep

(* poly_add.                                                             *)
LEMMA StepAdd ==
  ASSUME TypeOK, NEW a \in Bufs, NEW b \in Bufs, poly_add(a, b)
  PROVE  TypeOK' /\ Ring!Next
<1> DEFINE l == logn[a]
           c == [v \in Reals(l) |-> (buf[a][v] + buf[b][v]) % P]
<1>1. /\ Call("poly_add", <<a, b>>) /\ logn[b] = l /\ rep[b] = rep[a]
      /\ rep[a] \in {"coef", "fft"} /\ buf' = [buf EXCEPT ![a] = Each(@, l, c)]
      /\ logn' = logn /\ rep' = rep
  BY DEF poly_add, Both
<1>2. l \in 0 .. LogMax /\ buf[a] \in Array /\ buf[b] \in Array
  BY DEF TypeOK
<1>3. c \in [Reals(l) -> Residue]
  <2>1. \A v \in Reals(l) : buf[a][v] + buf[b][v] \in Int
    BY <1>2, RealsAre
  <2>2. \A v \in Reals(l) : (buf[a][v] + buf[b][v]) % P \in Residue
    BY <2>1, DivMod, PFacts DEF Residue
  <2> QED
    BY <2>2
<1>4. \A v \in Reals(l) : c[v] = (buf[a][v] + buf[b][v]) % P
  OBVIOUS
<1> HIDE DEF c
<1>5. /\ TypeOK' /\ Ring!InPlace(a) /\ call' = <<"poly_add", <<a, b>>>>
      /\ buf'[a] \in Array /\ \A v \in Reals(l) : buf'[a][v] = c[v]
      /\ Represented(a)' = Seen(buf'[a], l, rep[a])
  BY <1>1, <1>3, InPlaceLoop
<1>6. /\ Represented(a) = Seen(buf[a], l, rep[a]) /\ Represented(b) = Seen(buf[b], l, rep[a])
  BY <1>1, RepresentedIs
<1>7. Represented(a)' = Ring!Plus(Represented(a), Represented(b))
  <2>1. \A v \in Reals(l) : buf'[a][v] = (buf[a][v] + buf[b][v]) % P
    BY <1>4, <1>5, Zenon
  <2>2. Seen(buf'[a], l, rep[a]) = Ring!Plus(Seen(buf[a], l, rep[a]), Seen(buf[b], l, rep[a]))
    BY <1>1, <1>2, <1>5, <2>1, SumsOfReals
  <2> QED
    BY <1>5, <1>6, <2>2, Zenon
<1>8. Ring!Add(a, b)
  BY <1>5, <1>7 DEF Ring!Add, Ring!Calls
<1>9. Ring!arg(1) = a /\ Ring!arg(2) = b
  BY <1>5 DEF Ring!arg
<1> QED
  BY <1>5, <1>8, <1>9, Zenon DEF Ring!Next

(* poly_sub.                                                             *)
LEMMA StepSub ==
  ASSUME TypeOK, NEW a \in Bufs, NEW b \in Bufs, poly_sub(a, b)
  PROVE  TypeOK' /\ Ring!Next
<1> DEFINE l == logn[a]
           c == [v \in Reals(l) |-> (buf[a][v] - buf[b][v]) % P]
<1>1. /\ Call("poly_sub", <<a, b>>) /\ logn[b] = l /\ rep[b] = rep[a]
      /\ rep[a] \in {"coef", "fft"} /\ buf' = [buf EXCEPT ![a] = Each(@, l, c)]
      /\ logn' = logn /\ rep' = rep
  BY DEF poly_sub, Both
<1>2. l \in 0 .. LogMax /\ buf[a] \in Array /\ buf[b] \in Array
  BY DEF TypeOK
<1>3. c \in [Reals(l) -> Residue]
  <2>1. \A v \in Reals(l) : buf[a][v] - buf[b][v] \in Int
    BY <1>2, RealsAre
  <2>2. \A v \in Reals(l) : (buf[a][v] - buf[b][v]) % P \in Residue
    BY <2>1, DivMod, PFacts DEF Residue
  <2> QED
    BY <2>2
<1>4. \A v \in Reals(l) : c[v] = (buf[a][v] - buf[b][v]) % P
  OBVIOUS
<1> HIDE DEF c
<1>5. /\ TypeOK' /\ Ring!InPlace(a) /\ call' = <<"poly_sub", <<a, b>>>>
      /\ buf'[a] \in Array /\ \A v \in Reals(l) : buf'[a][v] = c[v]
      /\ Represented(a)' = Seen(buf'[a], l, rep[a])
  BY <1>1, <1>3, InPlaceLoop
<1>6. /\ Represented(a) = Seen(buf[a], l, rep[a]) /\ Represented(b) = Seen(buf[b], l, rep[a])
  BY <1>1, RepresentedIs
<1>7. Represented(a)' = Ring!Minus(Represented(a), Represented(b))
  <2>1. \A v \in Reals(l) : buf'[a][v] = (buf[a][v] - buf[b][v]) % P
    BY <1>4, <1>5, Zenon
  <2>2. Seen(buf'[a], l, rep[a]) = Ring!Minus(Seen(buf[a], l, rep[a]), Seen(buf[b], l, rep[a]))
    BY <1>1, <1>2, <1>5, <2>1, SumsOfReals
  <2> QED
    BY <1>5, <1>6, <2>2, Zenon
<1>8. Ring!Sub(a, b)
  BY <1>5, <1>7 DEF Ring!Sub, Ring!Calls
<1>9. Ring!arg(1) = a /\ Ring!arg(2) = b
  BY <1>5 DEF Ring!arg
<1> QED
  BY <1>5, <1>8, <1>9, Zenon DEF Ring!Next

(* poly_neg.                                                             *)
LEMMA StepNeg ==
  ASSUME TypeOK, NEW a \in Bufs, poly_neg(a)
  PROVE  TypeOK' /\ Ring!Next
<1> DEFINE l == logn[a]
           c == [v \in Reals(l) |-> (-buf[a][v]) % P]
<1>0. (-1) \in Int
  BY PolyOpsAssumption, PFacts DEF Residue
<1>1. /\ Call("poly_neg", <<a>>)
      /\ rep[a] \in {"coef", "fft"} /\ buf' = [buf EXCEPT ![a] = Each(@, l, c)]
      /\ logn' = logn /\ rep' = rep
  BY DEF poly_neg
<1>2. l \in 0 .. LogMax /\ buf[a] \in Array
  BY DEF TypeOK
<1>3. \A v \in Reals(l) : (-buf[a][v]) \in Int /\ (-buf[a][v]) = (-1) * buf[a][v]
  <2>1. \A y \in Int : (-y) \in Int /\ (-y) = (-1) * y
    BY <1>0
  <2>2. \A v \in Reals(l) : buf[a][v] \in Int
    BY <1>2, RealsAre
  <2> QED
    BY <2>1, <2>2, Zenon
<1>4. c \in [Reals(l) -> Residue]
  <2>1. \A v \in Reals(l) : (-buf[a][v]) % P \in Residue
    BY <1>3, DivMod, PFacts DEF Residue
  <2> QED
    BY <2>1
<1>5. \A v \in Reals(l) : c[v] = (-buf[a][v]) % P
  OBVIOUS
<1> HIDE DEF c
<1>6. /\ TypeOK' /\ Ring!InPlace(a) /\ call' = <<"poly_neg", <<a>>>>
      /\ buf'[a] \in Array /\ \A v \in Reals(l) : buf'[a][v] = c[v]
      /\ Represented(a)' = Seen(buf'[a], l, rep[a])
  BY <1>1, <1>4, InPlaceLoop
<1>7. Represented(a) = Seen(buf[a], l, rep[a])
  BY RepresentedIs
<1>8. Represented(a)' = Ring!Multiple((-1), Represented(a))
  <2>1. \A v \in Reals(l) : buf'[a][v] = ((-1) * buf[a][v]) % P
    BY <1>3, <1>5, <1>6, Zenon
  <2>2. Seen(buf'[a], l, rep[a]) = Ring!Multiple((-1), Seen(buf[a], l, rep[a]))
    BY <1>0, <1>1, <1>2, <1>6, <2>1, MultiplesOfReals
  <2> QED
    BY <1>6, <1>7, <2>2, Zenon
<1>9. Ring!Neg(a)
  BY <1>6, <1>8 DEF Ring!Neg, Ring!Calls
<1>10. Ring!arg(1) = a
  BY <1>6 DEF Ring!arg
<1> QED
  BY <1>6, <1>9, <1>10, Zenon DEF Ring!Next

(* poly_mulconst.                                                        *)
LEMMA StepMulConst ==
  ASSUME TypeOK, NEW a \in Bufs, NEW x \in Constants, poly_mulconst(a, x)
  PROVE  TypeOK' /\ Ring!Next
<1> DEFINE l == logn[a]
           c == [v \in Reals(l) |-> (buf[a][v] * x) % P]
<1>0. x \in Int
  BY PolyOpsAssumption, PFacts DEF Residue
<1>1. /\ Call("poly_mulconst", <<a, x>>)
      /\ rep[a] \in {"coef", "fft"} /\ buf' = [buf EXCEPT ![a] = Each(@, l, c)]
      /\ logn' = logn /\ rep' = rep
  BY DEF poly_mulconst
<1>2. l \in 0 .. LogMax /\ buf[a] \in Array
  BY DEF TypeOK
<1>3. \A v \in Reals(l) : (buf[a][v] * x) \in Int /\ (buf[a][v] * x) = x * buf[a][v]
  <2>1. \A y \in Int : (y * x) \in Int /\ (y * x) = x * y
    BY <1>0
  <2>2. \A v \in Reals(l) : buf[a][v] \in Int
    BY <1>2, RealsAre
  <2> QED
    BY <2>1, <2>2, Zenon
<1>4. c \in [Reals(l) -> Residue]
  <2>1. \A v \in Reals(l) : (buf[a][v] * x) % P \in Residue
    BY <1>3, DivMod, PFacts DEF Residue
  <2> QED
    BY <2>1
<1>5. \A v \in Reals(l) : c[v] = (buf[a][v] * x) % P
  OBVIOUS
<1> HIDE DEF c
<1>6. /\ TypeOK' /\ Ring!InPlace(a) /\ call' = <<"poly_mulconst", <<a, x>>>>
      /\ buf'[a] \in Array /\ \A v \in Reals(l) : buf'[a][v] = c[v]
      /\ Represented(a)' = Seen(buf'[a], l, rep[a])
  BY <1>1, <1>4, InPlaceLoop
<1>7. Represented(a) = Seen(buf[a], l, rep[a])
  BY RepresentedIs
<1>8. Represented(a)' = Ring!Multiple(x, Represented(a))
  <2>1. \A v \in Reals(l) : buf'[a][v] = (x * buf[a][v]) % P
    BY <1>3, <1>5, <1>6, Zenon
  <2>2. Seen(buf'[a], l, rep[a]) = Ring!Multiple(x, Seen(buf[a], l, rep[a]))
    BY <1>0, <1>1, <1>2, <1>6, <2>1, MultiplesOfReals
  <2> QED
    BY <1>6, <1>7, <2>2, Zenon
<1>9. Ring!MulConst(a, x)
  BY <1>6, <1>8 DEF Ring!MulConst, Ring!Calls
<1>10. Ring!arg(1) = a /\ Ring!arg(2) = x
  BY <1>6 DEF Ring!arg
<1> QED
  BY <1>6, <1>9, <1>10, Zenon DEF Ring!Next

(* Halves of a polynomial, as RingOps writes them.                         *)
LEMMA HalfIs ==
  ASSUME NEW l \in 1 .. LogMax, NEW e \in Poly(l - 1), NEW o \in Poly(l - 1), NEW f,
         \A k \in 0 .. hn(l) - 1 : e[k] = f[2 * k] /\ o[k] = f[2 * k + 1]
  PROVE  e = Ring!Half(f, l, 0) /\ o = Ring!Half(f, l, 1)
<1>1. hn(l) = Pow2[l - 1]
  BY OpSizes
<1>2. /\ e = [k \in 0 .. Pow2[l - 1] - 1 |-> e[k]] /\ o = [k \in 0 .. Pow2[l - 1] - 1 |-> o[k]]
  BY DEF Poly
<1>3. \A k \in 0 .. Pow2[l - 1] - 1 : e[k] = f[2 * k + 0] /\ o[k] = f[2 * k + 1]
  BY <1>1
<1>4. /\ Ring!Half(f, l, 0) = [k \in 0 .. Pow2[l - 1] - 1 |-> f[2 * k + 0]]
      /\ Ring!Half(f, l, 1) = [k \in 0 .. Pow2[l - 1] - 1 |-> f[2 * k + 1]]
  BY Zenon DEF Ring!Half
<1> QED
  BY <1>2, <1>3, <1>4

(* The twiddle of slots 2u and 2u + 1.                                     *)
LEMMA SplitTwiddle ==
  ASSUME NEW l \in 2 .. LogMax
  PROVE  /\ qn(l) = hn(l - 1)
         /\ \A u \in 0 .. hn(l - 1) - 1 : fpr_gm_tab[u + hn(l)] = Exp(Angle(l, 2 * u))
<1>1. /\ l \in 1 .. LogMax /\ hn(l) = 2 * hn(l - 1) /\ hn(l - 1) \in Nat
      /\ l - 1 \in Nat /\ (l - 1) + 1 <= LogMax /\ (l - 1) + 1 = l
  BY SlotPairs
<1>2. hn(l) = Pow2[l - 1]
  BY <1>1, OpSizes
<1>3. qn(l) = hn(l - 1)
  BY <1>1 DEF qn
<1>4. ASSUME NEW u \in 0 .. hn(l - 1) - 1
      PROVE  fpr_gm_tab[u + hn(l)] = Exp(Angle(l, 2 * u))
  <2>1. u \in 0 .. Pow2[l - 1] - 1 /\ u + hn(l) = Pow2[l - 1] + u
    BY <1>1, <1>2
  <2>2. \A i \in 0 .. Pow2[l - 1] - 1 : fpr_gm_tab[Pow2[l - 1] + i] = Exp(Angle((l - 1) + 1, 2 * i))
    BY <1>1, TwiddleAngle
  <2> QED
    BY <1>1, <2>1, <2>2
<1> QED
  BY <1>3, <1>4

(* What a split leaves in f0 and f1, but for the smallest size.            *)
LEMMA SplitIs ==
  ASSUME TypeOK, NEW f \in Bufs, rep[f] = "fft", logn[f] >= 2
  PROVE  LET l == logn[f]
         IN  /\ l \in 2 .. LogMax /\ l - 1 \in 1 .. LogMax
             /\ SplitEven(f) \in Vec(l - 1) /\ SplitOdd(f) \in Vec(l - 1)
             /\ Interpolated(SplitEven(f), l - 1) = Ring!Half(Represented(f), l, 0)
             /\ Interpolated(SplitOdd(f), l - 1) = Ring!Half(Represented(f), l, 1)
<1> DEFINE l == logn[f]
           z == Slots(f)
           e == SplitEven(f)
           o == SplitOdd(f)
<1>1. l \in 2 .. LogMax /\ l \in 1 .. LogMax /\ logn[f] >= 1
  BY DEF TypeOK
<1>2. /\ z \in Vec(l) /\ Represented(f) = Interpolated(z, l)
      /\ \A s \in 0 .. hn(l) - 1 : z[s] = Slot(f, s)
  BY <1>1, Operand
<1>3. /\ qn(l) = hn(l - 1)
      /\ \A u \in 0 .. hn(l - 1) - 1 : fpr_gm_tab[u + hn(l)] = Exp(Angle(l, 2 * u))
  BY <1>1, SplitTwiddle
<1>4. /\ l - 1 \in 1 .. LogMax
      /\ \A u \in 0 .. hn(l - 1) - 1 : 2 * u \in 0 .. hn(l) - 1 /\ 2 * u + 1 \in 0 .. hn(l) - 1
  BY <1>1, SlotPairs
<1>5. \A u \in 0 .. hn(l - 1) - 1 : z[2 * u] = Slot(f, 2 * u) /\ z[2 * u + 1] = Slot(f, 2 * u + 1)
  BY <1>2, <1>4
<1>6. e = EvenSlots(z, l) /\ o = OddSlots(z, l)
  <2>1. e = [u \in 0 .. hn(l - 1) - 1 |-> Halved(FPC_ADD(Slot(f, 2 * u), Slot(f, 2 * u + 1)))]
    BY <1>3, Zenon DEF SplitEven
  <2>2. o = [u \in 0 .. hn(l - 1) - 1 |->
               Halved(FPC_MUL(FPC_SUB(Slot(f, 2 * u), Slot(f, 2 * u + 1)),
                              Conj(fpr_gm_tab[u + hn(l)])))]
    BY <1>3, Zenon DEF SplitOdd
  <2>3. EvenSlots(z, l) =
          [u \in 0 .. hn(l - 1) - 1 |-> Halved(FPC_ADD(z[2 * u], z[2 * u + 1]))]
    BY Zenon DEF EvenSlots
  <2>4. OddSlots(z, l) =
          [u \in 0 .. hn(l - 1) - 1 |-> Halved(FPC_MUL(FPC_SUB(z[2 * u], z[2 * u + 1]),
                                                       Conj(Exp(Angle(l, 2 * u)))))]
    BY Zenon DEF OddSlots
  <2> HIDE DEF e, o, z
  <2> QED
    BY <1>3, <1>5, <2>1, <2>2, <2>3, <2>4
<1> HIDE DEF e, o, z
<1>7. /\ e \in Vec(l - 1) /\ o \in Vec(l - 1)
      /\ Halves(Interpolated(e, l - 1), Interpolated(o, l - 1), Interpolated(z, l), l)
  BY <1>1, <1>2, <1>6, SplitSlots
<1>8. Interpolated(e, l - 1) \in Poly(l - 1) /\ Interpolated(o, l - 1) \in Poly(l - 1)
  BY <1>4, <1>7, InterpolatedIs
<1>9. /\ Interpolated(e, l - 1) = Ring!Half(Interpolated(z, l), l, 0)
      /\ Interpolated(o, l - 1) = Ring!Half(Interpolated(z, l), l, 1)
  BY <1>1, <1>7, <1>8, HalfIs DEF Halves
<1> QED
  BY <1>1, <1>2, <1>4, <1>7, <1>9, Zenon DEF e, o

(* A buffer of size 0: one real, whatever its representation.              *)
LEMMA SingleReal ==
  ASSUME NEW m \in Array, NEW q
  PROVE  /\ Seen(m, 0, q) = [d \in 0 .. 0 |-> m[0]] /\ m[0] \in Residue
         /\ 0 \in 0 .. LogMax /\ Pow2[0] = 1 /\ Poly(0) = [0 .. 0 -> Residue]
         /\ 0 \in DOMAIN m
<1>1. 0 \in 0 .. LogMax /\ Pow2[0] = 1
  BY Pow2Assumption
<1>2. n(0) = 1 /\ Reals(0) = 0 .. n(0) - 1 /\ Reals(0) \subseteq 0 .. Pow2[LogMax] - 1
      /\ Poly(0) = [Reals(0) -> Residue]
  BY <1>1, MemorySizes
<1>3. Reals(0) = 0 .. 0 /\ 0 \in Reals(0)
  BY <1>2
<1>4. Seen(m, 0, q) = [d \in Reals(0) |-> m[d]]
  BY <1>1, SeenIs, Zenon
<1>5. 0 \in DOMAIN m /\ m[0] \in Residue
  BY <1>2, <1>3 DEF Array
<1>6. \A d \in 0 .. 0 : d = 0
  OBVIOUS
<1>7. Seen(m, 0, q) = [d \in 0 .. 0 |-> m[0]]
  BY <1>3, <1>4, <1>6
<1> QED
  BY <1>1, <1>2, <1>3, <1>5, <1>7, Zenon

(* A buffer of size 1 in FFT representation: its one slot holds both       *)
(* coefficients.                                                           *)
LEMMA SingleSlot ==
  ASSUME NEW z \in Vec(1)
  PROVE  /\ Interpolated(z, 1) = [d \in 0 .. 1 |-> IF d = 0 THEN z[0][1] ELSE z[0][2]]
         /\ Ring!Half(Interpolated(z, 1), 1, 0) = [d \in 0 .. 0 |-> z[0][1]]
         /\ Ring!Half(Interpolated(z, 1), 1, 1) = [d \in 0 .. 0 |-> z[0][2]]
<1>1. Interpolated(z, 1) = [d \in 0 .. 1 |-> IF d = 0 THEN z[0][1] ELSE z[0][2]]
  BY SmallestSize
<1>2. Pow2[1 - 1] = 1
  BY Pow2Assumption
<1>3. \A g : /\ Ring!Half(g, 1, 0) = [k \in 0 .. 0 |-> g[2 * k + 0]]
             /\ Ring!Half(g, 1, 1) = [k \in 0 .. 0 |-> g[2 * k + 1]]
  BY <1>2 DEF Ring!Half
<1>4. \A k \in 0 .. 0 : 2 * k + 0 = 0 /\ 2 * k + 1 = 1
  OBVIOUS
<1>5. \A g : /\ Ring!Half(g, 1, 0) = [k \in 0 .. 0 |-> g[0]]
             /\ Ring!Half(g, 1, 1) = [k \in 0 .. 0 |-> g[1]]
  <2> TAKE g
  <2>1. \A k \in 0 .. 0 : g[2 * k + 0] = g[0] /\ g[2 * k + 1] = g[1]
    BY <1>4, Zenon
  <2>2. /\ [k \in 0 .. 0 |-> g[2 * k + 0]] = [k \in 0 .. 0 |-> g[0]]
        /\ [k \in 0 .. 0 |-> g[2 * k + 1]] = [k \in 0 .. 0 |-> g[1]]
    BY <2>1
  <2> QED
    BY <1>3, <2>2, Zenon
<1>6. Interpolated(z, 1)[0] = z[0][1] /\ Interpolated(z, 1)[1] = z[0][2]
  BY <1>1
<1>7. /\ Ring!Half(Interpolated(z, 1), 1, 0) = [k \in 0 .. 0 |-> Interpolated(z, 1)[0]]
      /\ Ring!Half(Interpolated(z, 1), 1, 1) = [k \in 0 .. 0 |-> Interpolated(z, 1)[1]]
  BY <1>5, Zenon
<1>8. /\ Ring!Half(Interpolated(z, 1), 1, 0) = [k \in 0 .. 0 |-> z[0][1]]
      /\ Ring!Half(Interpolated(z, 1), 1, 1) = [k \in 0 .. 0 |-> z[0][2]]
  BY <1>6, <1>7
<1> QED
  BY <1>1, <1>8

(* poly_split_fft.                                                         *)
LEMMA StepSplit ==
  ASSUME TypeOK, NEW f0 \in Bufs, NEW f1 \in Bufs, NEW f \in Bufs, poly_split_fft(f0, f1, f)
  PROVE  TypeOK' /\ Ring!Next
<1> DEFINE l == logn[f]
           e == SplitEven(f)
           o == SplitOdd(f)
<1>1. /\ Call("poly_split_fft", <<f0, f1, f>>) /\ f0 # f1 /\ rep[f] = "fft" /\ l >= 1
      /\ buf' = [buf EXCEPT ![f0] = SplitInto(@, l, buf[f][0], e),
                            ![f1] = SplitInto(@, l, buf[f][hn(l)], o)]
      /\ Receive({f0, f1}, l - 1)
  BY DEF poly_split_fft, FFTOperands
<1> HIDE DEF e, o
<1>2. l \in 1 .. LogMax /\ buf[f] \in Array /\ buf[f0] \in Array /\ buf[f1] \in Array
      /\ l - 1 \in 0 .. LogMax
  <2>1. l \in 0 .. LogMax /\ LogMax \in Nat /\ l >= 1
    BY <1>1, Pow2Assumption DEF TypeOK
  <2>2. buf[f] \in Array /\ buf[f0] \in Array /\ buf[f1] \in Array
    BY DEF TypeOK
  <2> QED
    BY <2>1, <2>2
<1>3. /\ buf'[f0] = SplitInto(buf[f0], l, buf[f][0], e)
      /\ buf'[f1] = SplitInto(buf[f1], l, buf[f][hn(l)], o)
      /\ buf' = [r \in Bufs |-> buf'[r]] /\ \A r \in Bufs \ {f0, f1} : buf'[r] = buf[r]
  BY <1>1 DEF TypeOK
<1>4. /\ Writes({f0, f1}) /\ logn' = [r \in Bufs |-> logn'[r]] /\ rep' = [r \in Bufs |-> rep'[r]]
      /\ logn'[f0] = l - 1 /\ logn'[f1] = l - 1 /\ rep'[f0] = "fft" /\ rep'[f1] = "fft"
  <2>1. {f0, f1} \in SUBSET Bufs /\ f0 \in {f0, f1} /\ f1 \in {f0, f1}
    OBVIOUS
  <2> QED
    BY <1>1, <1>3, <2>1, ReceiveIs, ZenonT(60)
<1>5. /\ Sound(f0) /\ Represented(f0)' = Ring!Half(Represented(f), l, 0)
      /\ Sound(f1) /\ Represented(f1)' = Ring!Half(Represented(f), l, 1)
  <2>1. CASE l = 1
    <3> DEFINE z == Slots(f)
    <3>1. /\ z \in Vec(1) /\ Represented(f) = Interpolated(z, 1)
          /\ \A s \in 0 .. hn(1) - 1 : z[s] = Slot(f, s)
      BY <1>1, <2>1, Operand
    <3>2. hn(1) = 1
      BY SmallestSize
    <3>3. z[0] = <<buf[f][0], buf[f][1]>>
      <4>1. z[0] = Slot(f, 0)
        BY <3>1, <3>2
      <4> QED
        BY <2>1, <3>2, <4>1 DEF Slot, At
    <3>4. buf[f][0] \in Residue /\ buf[f][1] \in Residue
      <4>1. 1 \in 1 .. LogMax /\ 0 \in 0 .. hn(1) - 1 /\ 0 + hn(1) = 1
        BY <3>2, SmallestSize
      <4>2. \A s \in 0 .. hn(1) - 1 : buf[f][s] \in Residue /\ buf[f][s + hn(1)] \in Residue
        BY <1>2, <4>1, SlotsInIs
      <4> QED
        BY <4>1, <4>2
    <3> HIDE DEF z
    <3>5. /\ buf'[f0] = [buf[f0] EXCEPT ![0] = buf[f][0]]
          /\ buf'[f1] = [buf[f1] EXCEPT ![0] = buf[f][1]]
      BY <1>3, <2>1, <3>2 DEF SplitInto
    <3>6. 0 \in DOMAIN buf[f0] /\ 0 \in DOMAIN buf[f1]
      BY <1>2, SingleReal
    <3>7. buf'[f0] \in Array /\ buf'[f0][0] = buf[f][0]
      BY <1>2, <3>4, <3>5, <3>6, ZenonT(60) DEF Array
    <3>8. buf'[f1] \in Array /\ buf'[f1][0] = buf[f][1]
      BY <1>2, <3>4, <3>5, <3>6, ZenonT(60) DEF Array
    <3>9. /\ Represented(f0)' = Seen(buf'[f0], 0, "fft")
          /\ Represented(f1)' = Seen(buf'[f1], 0, "fft")
      BY <1>4, <2>1, RepresentedIs
    <3>10. /\ Seen(buf'[f0], 0, "fft") = [d \in 0 .. 0 |-> buf[f][0]]
           /\ Seen(buf'[f1], 0, "fft") = [d \in 0 .. 0 |-> buf[f][1]]
      BY <3>7, <3>8, SingleReal
    <3>11. /\ Ring!Half(Represented(f), 1, 0) = [d \in 0 .. 0 |-> buf[f][0]]
           /\ Ring!Half(Represented(f), 1, 1) = [d \in 0 .. 0 |-> buf[f][1]]
      BY <3>1, <3>3, SingleSlot
    <3>12. Sound(f0) /\ Sound(f1)
      BY <1>2, <1>4, <3>7, <3>8 DEF Sound, Representations
    <3> QED
      BY <2>1, <3>9, <3>10, <3>11, <3>12, Zenon
  <2>2. CASE l # 1
    <3>1. /\ l - 1 \in 1 .. LogMax /\ e \in Vec(l - 1) /\ o \in Vec(l - 1)
          /\ Interpolated(e, l - 1) = Ring!Half(Represented(f), l, 0)
          /\ Interpolated(o, l - 1) = Ring!Half(Represented(f), l, 1)
      <4>1. logn[f] >= 2
        BY <1>2, <2>2
      <4> QED
        BY <1>1, <4>1, SplitIs DEF e, o
    <3>2. /\ buf'[f0] = Stored(buf[f0], l - 1, e) /\ buf'[f1] = Stored(buf[f1], l - 1, o)
      BY <1>3, <2>2, Zenon DEF SplitInto
    <3>3. /\ Sound(f0) /\ Represented(f0)' = Interpolated(e, l - 1)
          /\ Sound(f1) /\ Represented(f1)' = Interpolated(o, l - 1)
      BY <1>2, <1>4, <3>1, <3>2, Received
    <3> QED
      BY <3>1, <3>3, Zenon
  <2> QED
    BY <2>1, <2>2
<1>6. /\ TypeOK' /\ Ring!Changes({f0, f1}) /\ call' = <<"poly_split_fft", <<f0, f1, f>>>>
  <2>1. {f0, f1} \in SUBSET Bufs /\ \A r \in {f0, f1} : Sound(r)
    BY <1>5
  <2> QED
    BY <1>1, <1>3, <1>4, <2>1, StepIs
<1>7. Ring!Split(f0, f1, f)
  BY <1>4, <1>5, <1>6 DEF Ring!Split, Ring!Calls
<1>8. Ring!arg(1) = f0 /\ Ring!arg(2) = f1 /\ Ring!arg(3) = f
  BY <1>6 DEF Ring!arg
<1> QED
  BY <1>6, <1>7, <1>8, Zenon DEF Ring!Next

(* What a merge leaves in f splits into f0 and f1, but for the smallest    *)
(* size.                                                                   *)
LEMMA MergeIs ==
  ASSUME TypeOK, NEW f0 \in Bufs, NEW f1 \in Bufs, NEW l \in 2 .. LogMax,
         logn[f0] = l - 1, logn[f1] = l - 1, rep[f0] = "fft", rep[f1] = "fft",
         NEW z, z = [s \in Places(l) |-> Merged(f0, f1, l, s)]
  PROVE  /\ z \in Vec(l)
         /\ Represented(f0) = Ring!Half(Interpolated(z, l), l, 0)
         /\ Represented(f1) = Ring!Half(Interpolated(z, l), l, 1)
<1> DEFINE a == Slots(f0)
           b == Slots(f1)
           w(u) == Exp(Angle(l, 2 * u))
           x(u) == FPC_ADD(Slot(f0, u), FPC_MUL(Slot(f1, u), w(u)))
           y(u) == FPC_SUB(Slot(f0, u), FPC_MUL(Slot(f1, u), w(u)))
<1>1. /\ l \in 1 .. LogMax /\ l - 1 \in 1 .. LogMax /\ hn(l) = 2 * hn(l - 1)
      /\ hn(l) \in Nat /\ hn(l - 1) \in Nat
      /\ \A u \in 0 .. hn(l - 1) - 1 :
           u \in Nat /\ 2 * u \in 0 .. hn(l) - 1 /\ 2 * u + 1 \in 0 .. hn(l) - 1
      /\ \A s \in 0 .. hn(l) - 1 : \E u \in 0 .. hn(l - 1) - 1 : s = 2 * u \/ s = 2 * u + 1
  BY SlotPairs
<1>2. /\ a \in Vec(l - 1) /\ b \in Vec(l - 1)
      /\ Represented(f0) = Interpolated(a, l - 1) /\ Represented(f1) = Interpolated(b, l - 1)
      /\ \A u \in 0 .. hn(l - 1) - 1 : /\ a[u] = Slot(f0, u) /\ Slot(f0, u) \in Complex
                                       /\ b[u] = Slot(f1, u) /\ Slot(f1, u) \in Complex
  <2>1. logn[f0] >= 1 /\ logn[f1] >= 1
    BY <1>1
  <2> QED
    BY <2>1, Operand
<1>3. /\ qn(l) = hn(l - 1)
      /\ \A u \in 0 .. hn(l - 1) - 1 : fpr_gm_tab[u + hn(l)] = w(u)
  BY SplitTwiddle
<1>4. \A u \in 0 .. hn(l - 1) - 1 : w(u) \in Complex /\ FPC_MUL(w(u), Conj(w(u))) = One
  <2> TAKE u \in 0 .. hn(l - 1) - 1
  <2>1. 0 \in Nat
    OBVIOUS
  <2> QED
    BY <2>1, WeightHalves
<1>5. Places(l) = 0 .. hn(l) - 1
  BY DEF Places
<1>6. \A u \in 0 .. hn(l - 1) - 1 : z[2 * u] = x(u) /\ z[2 * u + 1] = y(u)
  <2> TAKE u \in 0 .. hn(l - 1) - 1
  <2>1. /\ (2 * u) \div 2 = u /\ (2 * u) % 2 = 0
        /\ (2 * u + 1) \div 2 = u /\ (2 * u + 1) % 2 = 1
    BY <1>1
  <2>2. Merged(f0, f1, l, 2 * u) = x(u)
    BY <1>3, <2>1 DEF Merged
  <2>3. Merged(f0, f1, l, 2 * u + 1) = y(u)
    BY <1>3, <2>1 DEF Merged
  <2> QED
    BY <1>1, <1>5, <2>2, <2>3
<1>7. \A u \in 0 .. hn(l - 1) - 1 :
        /\ x(u) \in Complex /\ y(u) \in Complex
        /\ Halved(FPC_ADD(x(u), y(u))) = Slot(f0, u)
        /\ Halved(FPC_MUL(FPC_SUB(x(u), y(u)), Conj(w(u)))) = Slot(f1, u)
  <2> TAKE u \in 0 .. hn(l - 1) - 1
  <2>1. /\ Slot(f0, u) \in Complex /\ Slot(f1, u) \in Complex /\ w(u) \in Complex
        /\ FPC_MUL(w(u), Conj(w(u))) = One
    BY <1>2, <1>4
  <2>2. /\ Halved(FPC_ADD(x(u), y(u))) = Slot(f0, u)
        /\ Halved(FPC_MUL(FPC_SUB(x(u), y(u)), Conj(w(u)))) = Slot(f1, u)
    BY <2>1, SplitMerged
  <2>3. x(u) \in Complex /\ y(u) \in Complex
    BY <2>1, Closed
  <2> QED
    BY <2>2, <2>3
<1> HIDE DEF w, x, y
<1>8. z \in Vec(l)
  <2>1. \A s \in 0 .. hn(l) - 1 : z[s] \in Complex
    <3> TAKE s \in 0 .. hn(l) - 1
    <3>1. PICK u \in 0 .. hn(l - 1) - 1 : s = 2 * u \/ s = 2 * u + 1
      BY <1>1
    <3> QED
      BY <1>6, <1>7, <3>1
  <2>2. z = [s \in 0 .. hn(l) - 1 |-> z[s]]
    BY <1>5
  <2> QED
    BY <2>1, <2>2 DEF Vec
<1>9. EvenSlots(z, l) = a /\ OddSlots(z, l) = b
  <2>1. EvenSlots(z, l) =
          [u \in 0 .. hn(l - 1) - 1 |-> Halved(FPC_ADD(z[2 * u], z[2 * u + 1]))]
    BY Zenon DEF EvenSlots
  <2>2. OddSlots(z, l) =
          [u \in 0 .. hn(l - 1) - 1 |-> Halved(FPC_MUL(FPC_SUB(z[2 * u], z[2 * u + 1]),
                                                       Conj(w(u))))]
    BY Zenon DEF OddSlots, w
  <2>3. /\ a = [u \in 0 .. hn(l - 1) - 1 |-> Slot(f0, u)]
        /\ b = [u \in 0 .. hn(l - 1) - 1 |-> Slot(f1, u)]
    BY <1>2 DEF Vec
  <2>4. \A u \in 0 .. hn(l - 1) - 1 :
          /\ Halved(FPC_ADD(z[2 * u], z[2 * u + 1])) = Slot(f0, u)
          /\ Halved(FPC_MUL(FPC_SUB(z[2 * u], z[2 * u + 1]), Conj(w(u)))) = Slot(f1, u)
    BY <1>6, <1>7, Zenon
  <2> HIDE DEF a, b
  <2>5. EvenSlots(z, l) = a
    BY <2>1, <2>3, <2>4
  <2>6. OddSlots(z, l) = b
    BY <2>2, <2>3, <2>4
  <2> QED
    BY <2>5, <2>6
<1> HIDE DEF a, b
<1>10. Halves(Interpolated(a, l - 1), Interpolated(b, l - 1), Interpolated(z, l), l)
  BY <1>8, <1>9, SplitSlots
<1>11. Interpolated(a, l - 1) \in Poly(l - 1) /\ Interpolated(b, l - 1) \in Poly(l - 1)
  BY <1>1, <1>2, InterpolatedIs
<1>12. /\ Interpolated(a, l - 1) = Ring!Half(Interpolated(z, l), l, 0)
       /\ Interpolated(b, l - 1) = Ring!Half(Interpolated(z, l), l, 1)
  BY <1>1, <1>10, <1>11, HalfIs DEF Halves
<1> QED
  BY <1>2, <1>8, <1>12, Zenon

(* poly_merge_fft.                                                         *)
LEMMA StepMerge ==
  ASSUME TypeOK, NEW f \in Bufs, NEW f0 \in Bufs, NEW f1 \in Bufs, poly_merge_fft(f, f0, f1)
  PROVE  TypeOK' /\ Ring!Next
<1> DEFINE l == logn[f0] + 1
           z == [s \in Places(l) |-> IF l = 1 THEN <<buf[f0][0], buf[f1][0]>>
                                     ELSE Merged(f0, f1, l, s)]
<1>1. /\ Call("poly_merge_fft", <<f, f0, f1>>) /\ l <= LogMax
      /\ logn[f0] = logn[f1] /\ rep[f0] = "fft" /\ rep[f1] = "fft"
      /\ buf' = [buf EXCEPT ![f] = Stored(@, l, z)] /\ Receive({f}, l)
  BY DEF poly_merge_fft, SameSize
<1>2. /\ l \in 1 .. LogMax /\ logn[f0] = l - 1 /\ logn[f1] = l - 1
      /\ buf[f0] \in Array /\ buf[f1] \in Array /\ buf[f] \in Array
  <2>1. logn[f0] \in 0 .. LogMax /\ LogMax \in Nat
    BY Pow2Assumption DEF TypeOK
  <2>2. buf[f0] \in Array /\ buf[f1] \in Array /\ buf[f] \in Array
    BY DEF TypeOK
  <2> HIDE DEF z
  <2> QED
    BY <1>1, <2>1, <2>2
<1>3. /\ z \in Vec(l)
      /\ Represented(f0) = Ring!Half(Interpolated(z, l), l, 0)
      /\ Represented(f1) = Ring!Half(Interpolated(z, l), l, 1)
  <2>1. CASE l = 1
    <3>1. z = [s \in Places(1) |-> <<buf[f0][0], buf[f1][0]>>] /\ Places(1) = 0 .. hn(1) - 1
          /\ hn(1) = 1
      BY <2>1, SmallestSize DEF Places
    <3>2. buf[f0][0] \in Residue /\ buf[f1][0] \in Residue
      BY <1>2, SingleReal
    <3>3. z \in Vec(1) /\ z[0] = <<buf[f0][0], buf[f1][0]>>
      BY <3>1, <3>2 DEF Vec, Complex
    <3>4. /\ Represented(f0) = Seen(buf[f0], 0, "fft")
          /\ Represented(f1) = Seen(buf[f1], 0, "fft")
      <4>1. logn[f0] = 0 /\ logn[f1] = 0
        BY <1>2, <2>1
      <4>2. /\ Represented(f0) = Seen(buf[f0], logn[f0], rep[f0])
            /\ Represented(f1) = Seen(buf[f1], logn[f1], rep[f1])
        BY RepresentedIs
      <4> QED
        BY <1>1, <4>1, <4>2, Zenon
    <3>5. /\ Seen(buf[f0], 0, "fft") = [d \in 0 .. 0 |-> buf[f0][0]]
          /\ Seen(buf[f1], 0, "fft") = [d \in 0 .. 0 |-> buf[f1][0]]
      BY <1>2, SingleReal
    <3> HIDE DEF z
    <3>6. /\ Ring!Half(Interpolated(z, 1), 1, 0) = [d \in 0 .. 0 |-> buf[f0][0]]
          /\ Ring!Half(Interpolated(z, 1), 1, 1) = [d \in 0 .. 0 |-> buf[f1][0]]
      BY <3>3, SingleSlot
    <3> QED
      BY <2>1, <3>3, <3>4, <3>5, <3>6, Zenon
  <2>2. CASE l # 1
    <3>1. l \in 2 .. LogMax
      BY <1>2, <2>2
    <3>2. z = [s \in Places(l) |-> Merged(f0, f1, l, s)]
      BY <2>2, Zenon
    <3> HIDE DEF z, l
    <3> QED
      BY <1>1, <1>2, <3>1, <3>2, MergeIs
  <2> QED
    BY <2>1, <2>2
<1> HIDE DEF z
<1>4. /\ buf'[f] = Stored(buf[f], l, z) /\ buf' = [r \in Bufs |-> buf'[r]]
      /\ \A r \in Bufs \ {f} : buf'[r] = buf[r]
  BY <1>1 DEF TypeOK
<1>5. /\ Writes({f}) /\ logn'[f] = l /\ rep'[f] = "fft"
      /\ logn' = [r \in Bufs |-> logn'[r]] /\ rep' = [r \in Bufs |-> rep'[r]]
  <2>1. {f} \in SUBSET Bufs /\ f \in {f}
    OBVIOUS
  <2> QED
    BY <1>1, <1>4, <2>1, ReceiveIs
<1>6. Sound(f) /\ Represented(f)' = Interpolated(z, l)
  BY <1>2, <1>3, <1>4, <1>5, Received
<1>7. TypeOK' /\ Ring!Changes({f}) /\ call' = <<"poly_merge_fft", <<f, f0, f1>>>>
  <2>1. {f} \in SUBSET Bufs /\ \A r \in {f} : Sound(r)
    BY <1>6
  <2>2. Call("poly_merge_fft", <<f, f0, f1>>)
    BY <1>1
  <2> QED
    BY <1>4, <1>5, <2>1, <2>2, StepIs, Zenon
<1>8. /\ Represented(f0) = Ring!Half(Represented(f)', logn[f0] + 1, 0)
      /\ Represented(f1) = Ring!Half(Represented(f)', logn[f0] + 1, 1)
  BY <1>3, <1>6, Zenon
<1>9. Ring!Merge(f, f0, f1)
  BY <1>5, <1>7, <1>8 DEF Ring!Merge, Ring!Calls
<1>10. Ring!arg(1) = f /\ Ring!arg(2) = f0 /\ Ring!arg(3) = f1
  BY <1>7 DEF Ring!arg
<1> QED
  BY <1>7, <1>9, <1>10, Zenon DEF Ring!Next

-----------------------------------------------------------------------------
(***************************************************************************)
(* The specification.                                                      *)
(***************************************************************************)
LEMMA InitIs ==
  ASSUME Init
  PROVE  TypeOK /\ Ring!Init
<1>1. PICK l \in 1 .. LogMax :
        /\ logn = [r \in Bufs |-> l]
        /\ buf = [r \in Bufs |->
                    Stored([v \in 0 .. Pow2[LogMax] - 1 |-> 0], l,
                           [s \in Places(l) |-> Value(Contents(l)[r], l, s)])]
        /\ calls = MaxCalls(l)
  BY DEF Init
<1>2. rep = [r \in Bufs |-> "fft"] /\ call = NoCall
  BY DEF Init
<1>3. /\ Contents(l) \in [Bufs -> Poly(l)] /\ MaxCalls(l) \in Nat
      /\ l \in 0 .. LogMax
  BY PolyOpsAssumption
<1> DEFINE m == [v \in 0 .. Pow2[LogMax] - 1 |-> 0]
           z(r) == [s \in Places(l) |-> Value(Contents(l)[r], l, s)]
<1>4. m \in Array
  <2>1. 0 \in Residue
    BY PFacts DEF Residue
  <2> QED
    BY <2>1 DEF Array
<1>5. \A r \in Bufs : z(r) \in Vec(l)
  <2> TAKE r \in Bufs
  <2>1. Contents(l)[r] \in Poly(l)
    BY <1>3
  <2>2. Places(l) = 0 .. hn(l) - 1
    BY DEF Places
  <2>3. \A s \in 0 .. hn(l) - 1 : Value(Contents(l)[r], l, s) \in Complex
    BY <2>1, ValueIs
  <2> QED
    BY <2>2, <2>3 DEF Vec
<1>6. buf = [r \in Bufs |-> Stored(m, l, z(r))]
  BY <1>1
<1> HIDE DEF m, z
<1>7. \A r \in Bufs : Stored(m, l, z(r)) \in Array
  BY <1>4, <1>5, StoredIs
<1>8. TypeOK
  <2>1. buf \in [Bufs -> Array]
    BY <1>6, <1>7
  <2>2. logn \in [Bufs -> 0 .. LogMax]
    BY <1>1, <1>3
  <2>3. rep \in [Bufs -> Representations] /\ \A r \in Bufs : rep[r] # "half"
    BY <1>2 DEF Representations
  <2> QED
    BY <1>1, <1>3, <2>1, <2>2, <2>3 DEF TypeOK
<1>9. \A r \in Bufs : Represented(r) \in Ring!Poly(logn[r])
  <2> TAKE r \in Bufs
  <2>1. buf[r] \in Array /\ logn[r] \in 0 .. LogMax
    BY <1>8 DEF TypeOK
  <2>2. Represented(r) \in Poly(logn[r])
    BY <2>1, SeenIs, RepresentedIs
  <2> QED
    BY <2>2, Zenon DEF Poly, Ring!Poly, Residue, Ring!Residue
<1>10. call = Ring!NoCall /\ logn \in [Bufs -> 0 .. LogMax]
  BY <1>2, <1>8 DEF NoCall, Ring!NoCall, TypeOK
<1> QED
  BY <1>8, <1>9, <1>10 DEF Ring!Init

(* Every call implements its operation on polynomials.                     *)
LEMMA NextIs ==
  ASSUME TypeOK, Next
  PROVE  TypeOK' /\ Ring!Next
<1>1. CASE \E a \in Bufs : FFT(a) \/ iFFT(a) \/ poly_neg(a) \/ poly_adj_fft(a)
                           \/ poly_mulselfadj_fft(a)
  BY <1>1, StepFFT, StepiFFT, StepNeg, StepAdj, StepMulSelfAdj, Zenon
<1>2. CASE \E a \in Bufs, x \in Constants : poly_mulconst(a, x)
  BY <1>2, StepMulConst, Zenon
<1>3. CASE \E a, b \in Bufs :
             \/ poly_add(a, b) \/ poly_sub(a, b)
             \/ poly_mul_fft(a, b) \/ poly_muladj_fft(a, b) \/ poly_div_fft(a, b)
             \/ poly_mul_autoadj_fft(a, b) \/ poly_div_autoadj_fft(a, b)
  BY <1>3, StepAdd, StepSub, StepMul, StepMulAdj, StepDiv, StepMulAutoadj, StepDivAutoadj, Zenon
<1>4. CASE \E x, y, z \in Bufs :
             \/ poly_invnorm2_fft(x, y, z) \/ poly_LDL_fft(x, y, z)
             \/ poly_split_fft(x, y, z) \/ poly_merge_fft(x, y, z)
  BY <1>4, StepInvNorm2, StepLDL, StepSplit, StepMerge, Zenon
<1>5. CASE \E d, e, x, y, z \in Bufs :
             \/ e # x /\ y # z /\ poly_add_muladj_fft(d, e, x, y, z)
             \/ poly_LDLmv_fft(d, e, x, y, z)
  BY <1>5, StepAddMulAdj, StepLDLmv, Zenon
<1> QED
  BY <1>1, <1>2, <1>3, <1>4, <1>5, Zenon DEF Next

LEMMA StutterIs ==
  ASSUME TypeOK, UNCHANGED vars
  PROVE  TypeOK' /\ UNCHANGED Ring!vars
<1>1. buf' = buf /\ logn' = logn /\ rep' = rep /\ call' = call /\ calls' = calls
  BY DEF vars
<1>2. TypeOK'
  BY <1>1, Zenon DEF TypeOK
<1>3. \A r \in Bufs : Represented(r)' = Represented(r)
  <2> TAKE r \in Bufs
  <2>1. /\ Represented(r) = Seen(buf[r], logn[r], rep[r])
        /\ Represented(r)' = Seen(buf'[r], logn'[r], rep'[r])
    BY RepresentedIs
  <2> QED
    BY <1>1, <2>1, Zenon
<1>4. UNCHANGED Ring!vars
  BY <1>1, <1>3 DEF Ring!vars
<1> QED
  BY <1>2, <1>4

(* Whatever the calls, in any order the contracts of inner.h allow, a      *)
(* buffer has a size the tables serve and holds numbers; a half-filled one *)
(* has slots.                                                              *)
THEOREM TypeCorrect == Spec => []TypeOK
<1>1. Init => TypeOK
  BY InitIs
<1>2. TypeOK /\ [Next]_vars => TypeOK'
  BY NextIs, StutterIs
<1> QED
  BY <1>1, <1>2, PTL DEF Spec

(* Every operation of fft.c does to the polynomials what inner.h says, for *)
(* all contents and sizes of the buffers, in every sequence of calls.      *)
THEOREM OperationsAreRight == Spec => ImplementsRingOps
<1>1. Init => Ring!Init
  BY InitIs
<1>2. TypeOK /\ [Next]_vars => [Ring!Next]_Ring!vars
  BY NextIs, StutterIs
<1> QED
  BY <1>1, <1>2, TypeCorrect, PTL DEF Spec, ImplementsRingOps, Ring!Spec

=============================================================================

-------------------------- MODULE CrossCheckProofs --------------------------
(***************************************************************************)
(* Theorems about RefMul, MyMul and CrossCheck, for every LogMax, every    *)
(* prime P and every set of operands.  First RefMul alone: the types of    *)
(* its state, that no butterfly of FFT or iFFT leaves the arrays or the    *)
(* twiddle table, what the arrays hold in the middle of every stage, and   *)
(* that the result is the product.  Then the same of MyMul.  At the end    *)
(* CrossCheck: the two transforms agree, and so do the products.           *)
(***************************************************************************)
EXTENDS CrossCheck, ArithLemmas

(***************************************************************************)
(* The loop counters.  With t*m = n and j1 = i1*t the bound i1 < hm of FFT *)
(* becomes j1 + t <= hn; in iFFT, whose loop is bounded by j1 < hn, the    *)
(* same two equations (m halves as t doubles) give i1 < hm.                *)
(***************************************************************************)
ForwardLoop ==
  /\ u \in 1 .. logn
  /\ m = Pow2[u] /\ t = Pow2[logn - u] /\ m * t = n
  /\ u < logn => i1 < hm /\ j1 = i1 * t /\ j1 <= j /\ j < j1 + ht

InverseLoop ==
  /\ u \in 1 .. logn
  /\ m = Pow2[u] /\ t = Pow2[logn - u] /\ m * t = n
  /\ u > 1 => j1 = i1 * dt /\ j1 < hn /\ j1 <= j /\ j < j1 + t

LoopInv ==
  /\ pc = "FFT" => ForwardLoop
  /\ pc = "iFFT" => InverseLoop

IInv == TypeOK /\ LoopInv

-----------------------------------------------------------------------------
(* What the sizes are: n is even, and hn = 2^(logn-1).                     *)
LEMMA Sizes ==
  ASSUME TypeOK
  PROVE  /\ n \in Nat /\ hn \in Nat /\ hn >= 1 /\ n = 2 * hn
         /\ hn = Pow2[logn - 1] /\ n = Pow2[logn]
         /\ n <= Pow2[LogMax]
         /\ Pow2[1] = 2
<1>1. /\ logn \in 1 .. LogMax /\ logn - 1 \in 0 .. LogMax
      /\ logn \in 0 .. LogMax /\ LogMax \in 0 .. LogMax
      /\ 1 \in 1 .. LogMax /\ 1 - 1 = 0
  BY Pow2Assumption DEF TypeOK
<1>2. /\ Pow2[logn] = 2 * Pow2[logn - 1]
      /\ Pow2[logn - 1] \in Nat /\ Pow2[logn - 1] >= 1
      /\ Pow2[logn] <= Pow2[LogMax]
      /\ Pow2[1] = 2 * Pow2[0]
  BY <1>1, Pow2Facts
<1> QED
  BY <1>2, Pow2Assumption DEF n, hn

(* Consecutive powers of two among the loop's sizes.                       *)
LEMMA Steps ==
  ASSUME TypeOK, NEW v \in 1 .. logn
  PROVE  /\ Pow2[v] \in Nat /\ Pow2[v] = 2 * Pow2[v - 1]
         /\ Pow2[v - 1] \in Nat /\ Pow2[v - 1] >= 1
         /\ Pow2[logn - v] \in Nat /\ Pow2[logn - v] >= 1
         /\ v < logn => Pow2[logn - v] = 2 * Pow2[logn - (v + 1)]
         /\ v < logn => Pow2[v + 1] = 2 * Pow2[v]
<1>0. /\ LogMax \in Nat /\ logn \in Nat /\ logn <= LogMax
      /\ v \in Nat /\ 1 <= v /\ v <= logn
  BY Pow2Assumption DEF TypeOK
<1>1. /\ v \in 1 .. LogMax /\ v - 1 \in 0 .. LogMax /\ v \in 0 .. LogMax
      /\ logn - v \in 0 .. LogMax
      /\ v < logn => /\ logn - v \in 1 .. LogMax
                     /\ (logn - v) - 1 = logn - (v + 1)
                     /\ v + 1 \in 1 .. LogMax /\ (v + 1) - 1 = v
  BY <1>0
<1>2. /\ Pow2[v] \in Nat /\ Pow2[v] = 2 * Pow2[v - 1]
      /\ Pow2[v - 1] \in Nat /\ Pow2[v - 1] >= 1
      /\ Pow2[logn - v] \in Nat /\ Pow2[logn - v] >= 1
  BY <1>1, Pow2Facts
<1>3. ASSUME v < logn
      PROVE  /\ Pow2[logn - v] = 2 * Pow2[logn - (v + 1)]
             /\ Pow2[v + 1] = 2 * Pow2[v]
  <2>1. /\ Pow2[logn - v] = 2 * Pow2[(logn - v) - 1]
        /\ Pow2[v + 1] = 2 * Pow2[(v + 1) - 1]
    BY <1>1, <1>3, Pow2Facts
  <2> QED
    BY <2>1, <1>1, <1>3
<1> QED
  BY <1>2, <1>3

(* The product of the counter by the block size stays under the array end. *)
LEMMA BlockBound ==
  ASSUME NEW p \in Nat, NEW q \in Nat, NEW i \in Nat, i < p
  PROVE  i * q + q <= p * q
<1>1. i + 1 <= p
  OBVIOUS
<1>2. (i + 1) * q <= p * q
  BY <1>1
<1>3. (i + 1) * q = i * q + q
  OBVIOUS
<1> QED
  BY <1>2, <1>3

(* Inside FFT's loops.                                                     *)
LEMMA ForwardBounds ==
  ASSUME TypeOK, ForwardLoop, u < logn
  PROVE  /\ ht \in Nat /\ hm \in Nat /\ ht >= 1 /\ hm >= 1
         /\ t = 2 * ht /\ m = 2 * hm /\ hm * t = hn
         /\ j1 + t <= hn /\ j + ht < hn /\ j < hn
         /\ m + i1 \in 1 .. Pow2[LogMax] - 1
<1>1. /\ u \in 1 .. logn /\ m = Pow2[u] /\ t = Pow2[logn - u] /\ m * t = n
      /\ i1 < hm /\ j1 = i1 * t /\ j1 <= j /\ j < j1 + ht
      /\ i1 \in Nat /\ j1 \in Nat /\ j \in Nat /\ t \in Nat /\ m \in Nat
  BY DEF ForwardLoop, TypeOK
<1>2. /\ m = 2 * Pow2[u - 1] /\ Pow2[u - 1] \in Nat /\ Pow2[u - 1] >= 1
      /\ t = 2 * Pow2[logn - (u + 1)] /\ t >= 1
  BY <1>1, Steps
<1>3. hm \in Nat /\ hm >= 1 /\ m = 2 * hm
  BY <1>2 DEF hm
<1>4. Pow2[logn - (u + 1)] \in Nat
  <2>1. u + 1 \in 1 .. logn
    BY <1>1 DEF TypeOK
  <2> QED
    BY <2>1, Steps
<1>5. ht \in Nat /\ ht >= 1 /\ t = 2 * ht
  BY <1>2, <1>4 DEF ht
<1>6. hm * t = hn
  <2>1. 2 * (hm * t) = 2 * hn
    <3>1. 2 * (hm * t) = (2 * hm) * t
      BY <1>3, <1>1
    <3> QED
      BY <3>1, <1>1, <1>3, Sizes
  <2>2. hm * t \in Nat
    BY <1>1, <1>3
  <2> QED
    BY <2>1, <2>2, Sizes
<1>7. j1 + t <= hn
  BY <1>1, <1>3, <1>6, BlockBound
<1>8. 2 * m <= n
  <2>1. 2 * m <= t * m
    BY <1>1, <1>5
  <2> QED
    BY <2>1, <1>1
<1>9. m + i1 < n /\ m + i1 >= 1
  BY <1>1, <1>3, <1>8
<1> QED
  <2>1. n <= Pow2[LogMax] /\ Pow2[LogMax] \in Nat /\ n \in Nat /\ hn \in Nat
    BY Sizes, Pow2Facts, Pow2Assumption
  <2> QED
    BY <1>1, <1>3, <1>5, <1>6, <1>7, <1>9, <2>1

(* Inside iFFT's loops.                                                    *)
LEMMA InverseBounds ==
  ASSUME TypeOK, InverseLoop, u > 1
  PROVE  /\ dt = 2 * t /\ dt \in Nat /\ t >= 1
         /\ hm \in Nat /\ hm >= 1 /\ m = 2 * hm
         /\ i1 < Pow2[u - 1] /\ hm * t = hn /\ hm = Pow2[u - 1]
         /\ j1 + dt <= hn /\ j + t < hn /\ j < hn
         /\ hm + i1 \in 1 .. Pow2[LogMax] - 1
<1>1. /\ u \in 1 .. logn /\ m = Pow2[u] /\ t = Pow2[logn - u] /\ m * t = n
      /\ j1 = i1 * dt /\ j1 < hn /\ j1 <= j /\ j < j1 + t
      /\ i1 \in Nat /\ j1 \in Nat /\ j \in Nat /\ t \in Nat /\ m \in Nat
  BY DEF InverseLoop, TypeOK
<1>2. /\ m = 2 * Pow2[u - 1] /\ Pow2[u - 1] \in Nat /\ Pow2[u - 1] >= 1
      /\ t >= 1
  BY <1>1, Steps
<1>3. hm \in Nat /\ hm >= 1 /\ m = 2 * hm /\ hm = Pow2[u - 1]
  BY <1>2 DEF hm
<1>4. dt = 2 * t /\ dt \in Nat
  BY <1>1 DEF dt
<1>5. hm * t = hn
  <2>1. 2 * (hm * t) = 2 * hn
    <3>1. 2 * (hm * t) = (2 * hm) * t
      BY <1>3, <1>1
    <3> QED
      BY <3>1, <1>1, <1>3, Sizes
  <2>2. hm * t \in Nat
    BY <1>1, <1>3
  <2> QED
    BY <2>1, <2>2, Sizes
(* hm = 2^(u-1) is even, so hn = (hm/2)*dt and j1 < hn gives i1 < hm/2.    *)
<1> DEFINE q == Pow2[u - 2]
<1>6. q \in Nat /\ q >= 1 /\ hm = 2 * q
  <2>1. u - 1 \in 1 .. logn /\ (u - 1) - 1 = u - 2
    BY <1>1 DEF TypeOK
  <2>2. /\ Pow2[u - 1] = 2 * Pow2[(u - 1) - 1]
        /\ Pow2[(u - 1) - 1] \in Nat /\ Pow2[(u - 1) - 1] >= 1
    BY <2>1, Steps
  <2> QED
    BY <2>1, <2>2, <1>3
<1> HIDE DEF q
<1>7. q * dt = hn
  <2>1. q * (2 * t) = (2 * q) * t
    BY <1>1, <1>6
  <2> QED
    BY <2>1, <1>4, <1>5, <1>6
<1>8. i1 < q
  <2> SUFFICES ASSUME q <= i1 PROVE FALSE
    BY <1>1, <1>6
  <2>1. q * dt <= i1 * dt
    BY <1>1, <1>4, <1>6
  <2> QED
    BY <2>1, <1>1, <1>7, Sizes
<1>9. j1 + dt <= hn
  BY <1>1, <1>4, <1>6, <1>7, <1>8, BlockBound
<1>10. 2 * hm <= n
  <2>1. m * 1 <= m * t
    BY <1>1, <1>2
  <2> QED
    BY <2>1, <1>1, <1>3
<1> QED
  <2>1. n <= Pow2[LogMax] /\ Pow2[LogMax] \in Nat /\ n \in Nat /\ hn \in Nat
    BY Sizes, Pow2Facts, Pow2Assumption
  <2> QED
    BY <1>1, <1>2, <1>3, <1>4, <1>5, <1>6, <1>8, <1>9, <1>10, <2>1

(* The bounds follow from the invariant.                                   *)
LEMMA IInvImpliesInBounds == IInv => InBounds
<1> SUFFICES ASSUME IInv PROVE InBounds
  OBVIOUS
<1>1. n \in Nat /\ hn \in Nat /\ n = 2 * hn
  BY Sizes DEF IInv
<1>2. CASE pc = "FFT" /\ u < logn
  <2>1. /\ ht \in Nat /\ ht >= 1 /\ j + ht < hn
        /\ m + i1 \in 1 .. Pow2[LogMax] - 1
    BY <1>2, ForwardBounds DEF IInv, LoopInv
  <2> QED
    BY <1>1, <1>2, <2>1 DEF InBounds, IInv, TypeOK
<1>3. CASE pc = "iFFT" /\ u > 1
  <2>1. j + t < hn /\ hm + i1 \in 1 .. Pow2[LogMax] - 1
    BY <1>3, InverseBounds DEF IInv, LoopInv
  <2> QED
    BY <1>1, <1>3, <2>1 DEF InBounds, IInv, TypeOK
<1> QED
  BY <1>2, <1>3 DEF InBounds

-----------------------------------------------------------------------------
(* The butterflies store complex numbers into the array they are given.    *)
LEMMA PolyFacts ==
  ASSUME NEW f \in Poly(logn), NEW s \in 0 .. hn-1, TypeOK
  PROVE  At(f, hn, s) \in Int \X Int
<1>1. s \in 0 .. n-1 /\ s + hn \in 0 .. n-1
  BY Sizes
<1>2. f[s] \in Residue /\ f[s + hn] \in Residue
  BY <1>1 DEF Poly, n
<1> QED
  BY <1>2, PAssumption DEF At, Residue

LEMMA Store2Type ==
  ASSUME TypeOK, NEW f \in Poly(logn), NEW v \in Complex, NEW w \in Complex,
         NEW p \in Nat, NEW q \in Nat, p < hn, q < hn
  PROVE  Store2(f, p, v, q, w) \in Poly(logn)
<1>1. v[1] \in Residue /\ v[2] \in Residue /\ w[1] \in Residue /\ w[2] \in Residue
  BY DEF Complex
<1> QED
  BY <1>1 DEF Store2, Poly

LEMMA ForwardButterflyType ==
  ASSUME TypeOK, ForwardLoop, u < logn, NEW f \in Poly(logn)
  PROVE  ForwardButterfly(f) \in Poly(logn)
<1> DEFINE s == fpr_gm_tab[m + i1]
           x == At(f, hn, j)
           z == At(f, hn, j + ht)
           y == FPC_MUL(z, s)
<1>1. /\ j \in Nat /\ j + ht \in Nat /\ j + ht < hn /\ j < hn /\ hn \in Nat
      /\ m + i1 \in 0 .. Pow2[LogMax] - 1
  BY ForwardBounds, Sizes DEF TypeOK
<1>2. s \in Int \X Int
  BY <1>1, GMType, ComplexFacts
<1>3. x \in Int \X Int /\ z \in Int \X Int
  BY <1>1, PolyFacts
<1>4. y \in Complex /\ y \in Int \X Int
  <2> HIDE DEF s, z
  <2> QED  BY <1>2, <1>3, FPCType, ComplexFacts
<1>5. FPC_ADD(x, y) \in Complex /\ FPC_SUB(x, y) \in Complex
  <2> HIDE DEF x, y
  <2> QED  BY <1>3, <1>4, FPCType
<1>6. Store2(f, j, FPC_ADD(x, y), j + ht, FPC_SUB(x, y)) \in Poly(logn)
  <2> HIDE DEF x, y
  <2> QED  BY <1>1, <1>5, Store2Type
<1> QED
  BY <1>6 DEF ForwardButterfly

LEMMA InverseButterflyType ==
  ASSUME TypeOK, InverseLoop, u > 1, NEW f \in Poly(logn)
  PROVE  InverseButterfly(f) \in Poly(logn)
<1> DEFINE g == fpr_gm_tab[hm + i1]
           s == Conj(g)
           x == At(f, hn, j)
           y == At(f, hn, j + t)
           d == FPC_SUB(x, y)
<1>1. /\ j \in Nat /\ j + t \in Nat /\ j + t < hn /\ j < hn /\ hn \in Nat
      /\ hm + i1 \in 0 .. Pow2[LogMax] - 1
  BY InverseBounds, Sizes DEF TypeOK
<1>2. g \in Int \X Int
  BY <1>1, GMType, ComplexFacts
<1>3. s \in Int \X Int
  <2> HIDE DEF g
  <2> QED  BY <1>2, FPCType
<1>4. x \in Int \X Int /\ y \in Int \X Int
  BY <1>1, PolyFacts
<1>5. FPC_ADD(x, y) \in Complex /\ d \in Complex /\ d \in Int \X Int
  <2> HIDE DEF x, y
  <2> QED  BY <1>4, FPCType, ComplexFacts
<1>6. FPC_MUL(d, s) \in Complex
  <2> HIDE DEF d, s
  <2> QED  BY <1>3, <1>5, FPCType
<1>7. Store2(f, j, FPC_ADD(x, y), j + t, FPC_MUL(d, s)) \in Poly(logn)
  <2> HIDE DEF x, y, d, s
  <2> QED  BY <1>1, <1>5, <1>6, Store2Type
<1> QED
  BY <1>7 DEF InverseButterfly

(* The pointwise product and the final scaling.                            *)
LEMMA PointwiseTypes ==
  ASSUME TypeOK
  PROVE  /\ poly_mul_fft(out, fb) \in Poly(logn)
         /\ [v \in 0 .. n-1 |-> (out[v] * fpr_p2_tab[logn]) % P] \in Poly(logn)
<1>1. ASSUME NEW v \in 0 .. n-1
      PROVE  LET z == FPC_MUL(At(out, hn, v % hn), At(fb, hn, v % hn))
             IN  (IF v < hn THEN z[1] ELSE z[2]) \in Residue
  <2> DEFINE x == At(out, hn, v % hn)
             y == At(fb, hn, v % hn)
  <2>1. v % hn \in 0 .. hn-1
    BY Sizes
  <2>2. x \in Int \X Int /\ y \in Int \X Int
    BY <2>1, PolyFacts DEF TypeOK
  <2>3. FPC_MUL(x, y) \in Complex
    <3> HIDE DEF x, y
    <3> QED  BY <2>2, FPCType
  <2>4. FPC_MUL(x, y)[1] \in Residue /\ FPC_MUL(x, y)[2] \in Residue
    BY <2>3 DEF Complex
  <2> QED
    BY <2>4
<1>2. poly_mul_fft(out, fb) \in Poly(logn)
  BY <1>1 DEF poly_mul_fft, Poly, n
<1>3. ASSUME NEW v \in 0 .. n-1
      PROVE  (out[v] * fpr_p2_tab[logn]) % P \in Residue
  <2>1. out[v] \in Int
    BY PAssumption DEF TypeOK, Poly, n, Residue
  <2>2. fpr_p2_tab[logn] \in Int
    BY P2Recursion DEF TypeOK
  <2>3. out[v] * fpr_p2_tab[logn] \in Int
    BY <2>1, <2>2
  <2> QED
    BY <2>3, PAssumption DEF Residue
<1> QED
  BY <1>2, <1>3 DEF Poly, n

-----------------------------------------------------------------------------
(* How the loops go on: a step of FFT's or iFFT's counters stays in, or    *)
(* leaves, the loops as the source writes them.                            *)
LEMMA ForwardNextKeeps ==
  ASSUME TypeOK, ForwardLoop, u < logn, ForwardNext, logn' = logn
  PROVE  /\ ForwardLoop'
         /\ u' \in Nat /\ m' \in Nat /\ t' \in Nat
         /\ i1' \in Nat /\ j1' \in Nat /\ j' \in Nat
<1>0. /\ logn \in Nat /\ u \in Nat /\ m \in Nat /\ t \in Nat
      /\ i1 \in Nat /\ j1 \in Nat /\ j \in Nat
  BY Pow2Assumption DEF TypeOK
<1>1. /\ u \in 1 .. logn /\ m = Pow2[u] /\ t = Pow2[logn - u] /\ m * t = n
      /\ i1 < hm /\ j1 = i1 * t /\ j1 <= j /\ j < j1 + ht
  BY DEF ForwardLoop
<1>7. m = Pow2[u] /\ t = Pow2[logn - u] /\ j1 <= j /\ j < j1 + ht
  BY <1>1
<1>2. ht \in Nat /\ ht >= 1 /\ hm \in Nat /\ t = 2 * ht
  BY ForwardBounds
<1>3. n' = n
  BY DEF n
<1>4. CASE /\ j + 1 < j1 + ht
           /\ j' = j + 1
           /\ UNCHANGED <<u, m, t, i1, j1>>
  <2>1. hm' = hm /\ ht' = ht
    BY <1>4 DEF hm, ht
  <2>2. j1' <= j' /\ j' < j1' + ht' /\ j' \in Nat
    BY <1>0, <1>2, <1>7, <1>4, <2>1
  <2>3. u' = u /\ m' = m /\ t' = t /\ i1' = i1 /\ j1' = j1
    BY <1>4
  <2> QED
    BY <1>0, <1>1, <1>3, <2>1, <2>2, <2>3, Zenon DEF ForwardLoop
<1>5. CASE /\ ~(j + 1 < j1 + ht) /\ i1 + 1 < hm
           /\ i1' = i1 + 1 /\ j1' = j1 + t /\ j' = j1 + t
           /\ UNCHANGED <<u, m, t>>
  <2>1. hm' = hm /\ ht' = ht
    BY <1>5 DEF hm, ht
  <2>2. u' = u /\ m' = m /\ t' = t /\ i1' = i1 + 1
    BY <1>5
  <2>3. j1' = i1' * t'
    <3>1. j1 + t = (i1 + 1) * t
      BY <1>0, <1>1
    <3> QED
      BY <1>5, <2>2, <3>1, Zenon
  <2>4. /\ i1' < hm' /\ j1' <= j' /\ j' < j1' + ht'
        /\ i1' \in Nat /\ j1' \in Nat /\ j' \in Nat
    <3>1. j1 + t \in Nat /\ j1 + t < (j1 + t) + ht /\ i1 + 1 \in Nat
      BY <1>0, <1>2
    <3> QED
      BY <1>5, <2>1, <3>1
  <2> QED
    BY <1>0, <1>1, <1>3, <2>2, <2>3, <2>4, Zenon DEF ForwardLoop
<1>6. CASE /\ ~(j + 1 < j1 + ht) /\ ~(i1 + 1 < hm)
           /\ u' = u + 1 /\ m' = m * 2 /\ t' = ht
           /\ i1' = 0 /\ j1' = 0 /\ j' = 0
  <2>1. u + 1 \in 1 .. logn
    BY <1>0, <1>1
  <2>2. /\ Pow2[u + 1] = 2 * Pow2[u]
        /\ Pow2[logn - u] = 2 * Pow2[logn - (u + 1)]
        /\ Pow2[logn - (u + 1)] \in Nat
    BY <1>1, <2>1, Steps
  <2>3. m' = Pow2[u'] /\ t' = Pow2[logn' - u']
    <3>1. m * 2 = Pow2[u + 1] /\ ht = Pow2[logn - (u + 1)]
      BY <1>0, <1>2, <1>7, <2>2
    <3> QED
      BY <1>6, <3>1
  <2>4. m' * t' = n'
    <3>1. (m * 2) * ht = m * (2 * ht)
      BY <1>0, <1>2
    <3> QED
      BY <1>1, <1>2, <1>3, <1>6, <3>1
  <2>5. u' < logn' => hm' >= 1 /\ hm' \in Nat /\ ht' >= 1 /\ ht' \in Nat
    <3> SUFFICES ASSUME u + 1 < logn
                 PROVE  hm' >= 1 /\ hm' \in Nat /\ ht' >= 1 /\ ht' \in Nat
      BY <1>6
    <3>1. hm' = m /\ m >= 1
      <4>1. m >= 1 /\ (m * 2) \div 2 = m
        BY <1>0, <1>1, Steps
      <4> QED
        BY <1>6, <4>1 DEF hm
    <3>2. (u + 1) + 1 \in 1 .. logn
      BY <1>0
    <3>3. /\ Pow2[logn - (u + 1)] = 2 * Pow2[logn - ((u + 1) + 1)]
          /\ Pow2[logn - ((u + 1) + 1)] \in Nat
          /\ Pow2[logn - (u + 1)] >= 1
      BY <2>1, <3>2, Steps
    <3>4. ht = 2 * Pow2[logn - ((u + 1) + 1)] /\ ht >= 1
      BY <1>0, <1>2, <1>7, <2>2, <3>3
    <3>5. ht' = ht \div 2
      BY <1>6 DEF ht
    <3> QED
      BY <1>0, <3>1, <3>3, <3>4, <3>5
  <2>6. u' < logn' => i1' < hm' /\ j1' = i1' * t' /\ j1' <= j' /\ j' < j1' + ht'
    <3>1. 0 * t' = 0
      BY <1>2, <1>6
    <3> QED
      BY <1>6, <2>5, <3>1
  <2>7. /\ u' \in 1 .. logn' /\ u' \in Nat /\ m' \in Nat /\ t' \in Nat
        /\ i1' \in Nat /\ j1' \in Nat /\ j' \in Nat
    BY <1>0, <1>2, <1>6, <2>1
  <2> QED
    BY <2>3, <2>4, <2>6, <2>7, Zenon DEF ForwardLoop
<1> QED
  BY <1>4, <1>5, <1>6 DEF ForwardNext

LEMMA InverseNextKeeps ==
  ASSUME TypeOK, InverseLoop, u > 1, InverseNext, logn' = logn
  PROVE  /\ InverseLoop'
         /\ u' \in Nat /\ m' \in Nat /\ t' \in Nat
         /\ i1' \in Nat /\ j1' \in Nat /\ j' \in Nat
<1>0. /\ logn \in Nat /\ u \in Nat /\ m \in Nat /\ t \in Nat
      /\ i1 \in Nat /\ j1 \in Nat /\ j \in Nat
  BY Pow2Assumption DEF TypeOK
<1>1. /\ u \in 1 .. logn /\ m = Pow2[u] /\ t = Pow2[logn - u] /\ m * t = n
      /\ j1 = i1 * dt /\ j1 < hn /\ j1 <= j /\ j < j1 + t
  BY DEF InverseLoop
<1>2. dt = 2 * t /\ dt \in Nat /\ t >= 1 /\ hm \in Nat /\ m = 2 * hm
  BY InverseBounds
<1>3. n' = n /\ hn' = hn /\ hn \in Nat /\ hn >= 1
  BY Sizes DEF n, hn
<1>4. CASE /\ j + 1 < j1 + t
           /\ j' = j + 1
           /\ UNCHANGED <<u, m, t, i1, j1>>
  <2>1. u' = u /\ m' = m /\ t' = t /\ i1' = i1 /\ j1' = j1 /\ dt' = dt
    BY <1>4 DEF dt
  <2>2. j1' <= j' /\ j' < j1' + t' /\ j' \in Nat
    BY <1>0, <1>1, <1>4, <2>1
  <2> QED
    BY <1>0, <1>1, <1>3, <2>1, <2>2, Zenon DEF InverseLoop
<1>5. CASE /\ ~(j + 1 < j1 + t) /\ j1 + dt < hn
           /\ i1' = i1 + 1 /\ j1' = j1 + dt /\ j' = j1 + dt
           /\ UNCHANGED <<u, m, t>>
  <2>1. u' = u /\ m' = m /\ t' = t /\ dt' = dt
    BY <1>5 DEF dt
  <2>2. j1' = i1' * dt'
    <3>1. j1 + dt = (i1 + 1) * dt
      BY <1>0, <1>1, <1>2
    <3> QED
      BY <1>5, <2>1, <3>1, Zenon
  <2>3. /\ j1' < hn' /\ j1' <= j' /\ j' < j1' + t'
        /\ i1' \in Nat /\ j1' \in Nat /\ j' \in Nat
    BY <1>0, <1>2, <1>3, <1>5, <2>1
  <2> QED
    BY <1>0, <1>1, <1>3, <2>1, <2>2, <2>3, Zenon DEF InverseLoop
<1>6. CASE /\ ~(j + 1 < j1 + t) /\ ~(j1 + dt < hn)
           /\ u' = u - 1 /\ m' = hm /\ t' = dt
           /\ i1' = 0 /\ j1' = 0 /\ j' = 0
  <2>1. u - 1 \in 1 .. logn /\ u - 1 < logn /\ (u - 1) + 1 = u
    BY <1>0, <1>1
  <2>2. Pow2[logn - (u - 1)] = 2 * Pow2[logn - ((u - 1) + 1)]
    BY <2>1, Steps
  <2>3. m' = Pow2[u'] /\ t' = Pow2[logn' - u']
    <3>1. hm = Pow2[u - 1] /\ dt = Pow2[logn - (u - 1)]
      BY <1>1, <1>2, <2>1, <2>2, InverseBounds
    <3> QED
      BY <1>6, <3>1
  <2>4. m' * t' = n'
    <3>1. hm * (2 * t) = (2 * hm) * t
      BY <1>0, <1>2
    <3> QED
      BY <1>1, <1>2, <1>3, <1>6, <3>1
  <2>5. j1' = i1' * dt' /\ j1' < hn' /\ j1' <= j' /\ j' < j1' + t'
    <3>1. dt' = 2 * dt
      BY <1>2, <1>6 DEF dt
    <3>2. 0 * dt' = 0
      BY <1>2, <3>1
    <3> QED
      BY <1>0, <1>2, <1>3, <1>6, <3>2
  <2>6. /\ u' \in 1 .. logn' /\ u' \in Nat /\ m' \in Nat /\ t' \in Nat
        /\ i1' \in Nat /\ j1' \in Nat /\ j' \in Nat
    BY <1>0, <1>2, <1>6, <2>1
  <2> QED
    BY <2>3, <2>4, <2>5, <2>6, Zenon DEF InverseLoop
<1> QED
  BY <1>4, <1>5, <1>6 DEF InverseNext

(* Entering the loops.                                                     *)
LEMMA EnterKeeps ==
  ASSUME TypeOK, logn' = logn
  PROVE  /\ \A x : EnterFFT(x) => ForwardLoop' /\ u' \in Nat /\ m' \in Nat
                     /\ t' \in Nat /\ i1' \in Nat /\ j1' \in Nat /\ j' \in Nat
         /\ EnterIFFT => InverseLoop' /\ u' \in Nat /\ m' \in Nat
                     /\ t' \in Nat /\ i1' \in Nat /\ j1' \in Nat /\ j' \in Nat
<1>1. /\ n \in Nat /\ hn \in Nat /\ hn >= 1 /\ n = 2 * hn
      /\ hn = Pow2[logn - 1] /\ n = Pow2[logn] /\ Pow2[1] = 2 /\ Pow2[0] = 1
      /\ n' = n /\ hn' = hn
      /\ logn \in Nat /\ logn >= 1
  BY Sizes, Pow2Assumption DEF n, hn, TypeOK
<1>2. ASSUME NEW x, EnterFFT(x)
      PROVE  /\ ForwardLoop'
             /\ u' \in Nat /\ m' \in Nat /\ t' \in Nat
             /\ i1' \in Nat /\ j1' \in Nat /\ j' \in Nat
  <2>1. /\ u' = 1 /\ m' = 2 /\ t' = hn /\ i1' = 0 /\ j1' = 0 /\ j' = 0
    BY <1>2 DEF EnterFFT
  <2>2. u' < logn' => hm' = 1 /\ ht' >= 1 /\ ht' \in Nat
    <3>1. hm' = 1
      BY <2>1 DEF hm
    <3> SUFFICES ASSUME 1 < logn PROVE ht' >= 1 /\ ht' \in Nat
      BY <2>1, <3>1
    <3>2. 1 \in 1 .. logn /\ 1 + 1 \in 1 .. logn
      BY <1>1
    <3>3. /\ Pow2[logn - 1] = 2 * Pow2[logn - (1 + 1)]
          /\ Pow2[logn - (1 + 1)] \in Nat /\ Pow2[logn - (1 + 1)] >= 1
      BY <3>2, Steps
    <3>4. ht' = t' \div 2
      BY DEF ht
    <3> QED
      BY <1>1, <2>1, <3>3, <3>4
  <2> QED
    BY <1>1, <2>1, <2>2 DEF ForwardLoop
<1>3. ASSUME EnterIFFT
      PROVE  /\ InverseLoop'
             /\ u' \in Nat /\ m' \in Nat /\ t' \in Nat
             /\ i1' \in Nat /\ j1' \in Nat /\ j' \in Nat
  <2>1. /\ u' = logn /\ m' = n /\ t' = 1 /\ i1' = 0 /\ j1' = 0 /\ j' = 0
    BY <1>3 DEF EnterIFFT
  <2>2. dt' = 2
    BY <2>1 DEF dt
  <2> QED
    BY <1>1, <2>1, <2>2 DEF InverseLoop
<1> QED
  BY <1>2, <1>3

-----------------------------------------------------------------------------
LEMMA InitIInv == Init => IInv
<1> SUFFICES ASSUME Init PROVE IInv
  OBVIOUS
<1>1. a \in Poly(logn) /\ b \in Poly(logn)
  BY OperandsAssumption DEF Init
<1> QED
  BY <1>1 DEF Init, IInv, TypeOK, LoopInv

LEMMA NextIInv == IInv /\ [Next]_vars => IInv'
<1> SUFFICES ASSUME IInv, [Next]_vars PROVE IInv'
  OBVIOUS
<1> USE DEF IInv
<1>1. CASE Convert
  <2>1. logn' = logn
    BY <1>1 DEF Convert
  <2>2. EnterFFT("out")
    BY <1>1 DEF Convert
  <2>3. /\ pc' = "FFT" /\ arr' = "out" /\ ForwardLoop'
        /\ u' \in Nat /\ m' \in Nat /\ t' \in Nat
        /\ i1' \in Nat /\ j1' \in Nat /\ j' \in Nat
    BY <2>1, <2>2, EnterKeeps DEF EnterFFT
  <2> QED
    BY <1>1, <2>1, <2>3 DEF Convert, TypeOK, LoopInv
<1>2. CASE FFTStep
  <2>1. /\ pc = "FFT" /\ u < logn /\ ForwardLoop /\ ForwardNext
        /\ logn' = logn /\ a' = a /\ b' = b /\ arr' = arr /\ pc' = pc
    BY <1>2 DEF FFTStep, LoopInv
  <2>2. out' \in Poly(logn) /\ fb' \in Poly(logn)
    BY <1>2, <2>1, ForwardButterflyType DEF FFTStep, TypeOK
  <2>3. /\ ForwardLoop'
        /\ u' \in Nat /\ m' \in Nat /\ t' \in Nat
        /\ i1' \in Nat /\ j1' \in Nat /\ j' \in Nat
    BY <2>1, ForwardNextKeeps
  <2> QED
    BY <2>1, <2>2, <2>3 DEF TypeOK, LoopInv
<1>3. CASE FFTReturn
  <2>1. /\ logn' = logn /\ a' = a /\ b' = b /\ out' = out /\ fb' = fb
    BY <1>3 DEF FFTReturn
  <2>2. CASE arr = "out" /\ EnterFFT("fb")
    <3>1. /\ pc' = "FFT" /\ arr' = "fb" /\ ForwardLoop'
          /\ u' \in Nat /\ m' \in Nat /\ t' \in Nat
          /\ i1' \in Nat /\ j1' \in Nat /\ j' \in Nat
      BY <2>1, <2>2, EnterKeeps DEF EnterFFT
    <3> QED
      BY <2>1, <3>1 DEF TypeOK, LoopInv
  <2>3. CASE arr = "fb" /\ pc' = "poly_mul_fft" /\ UNCHANGED <<arr, counters>>
    BY <2>1, <2>3 DEF TypeOK, LoopInv, counters
  <2> QED
    BY <1>3, <2>2, <2>3 DEF FFTReturn
<1>4. CASE PolyMulFFT
  <2>1. /\ logn' = logn /\ a' = a /\ b' = b /\ fb' = fb /\ EnterIFFT
        /\ out' = poly_mul_fft(out, fb)
    BY <1>4 DEF PolyMulFFT
  <2>2. /\ pc' = "iFFT" /\ arr' = "out" /\ InverseLoop'
        /\ u' \in Nat /\ m' \in Nat /\ t' \in Nat
        /\ i1' \in Nat /\ j1' \in Nat /\ j' \in Nat
    BY <2>1, EnterKeeps DEF EnterIFFT
  <2>3. out' \in Poly(logn)
    BY <2>1, PointwiseTypes
  <2> QED
    BY <2>1, <2>2, <2>3 DEF TypeOK, LoopInv
<1>5. CASE IFFTStep
  <2>1. /\ pc = "iFFT" /\ u > 1 /\ InverseLoop /\ InverseNext
        /\ logn' = logn /\ a' = a /\ b' = b /\ fb' = fb /\ arr' = arr /\ pc' = pc
    BY <1>5 DEF IFFTStep, LoopInv
  <2>2. out' \in Poly(logn)
    BY <1>5, <2>1, InverseButterflyType DEF IFFTStep, TypeOK
  <2>3. /\ InverseLoop'
        /\ u' \in Nat /\ m' \in Nat /\ t' \in Nat
        /\ i1' \in Nat /\ j1' \in Nat /\ j' \in Nat
    BY <2>1, InverseNextKeeps
  <2> QED
    BY <2>1, <2>2, <2>3 DEF TypeOK, LoopInv
<1>6. CASE IFFTScale
  <2>1. out' \in Poly(logn)
    BY <1>6, PointwiseTypes DEF IFFTScale
  <2> QED
    BY <1>6, <2>1 DEF IFFTScale, TypeOK, LoopInv, counters
<1>7. CASE UNCHANGED vars
  BY <1>7 DEF vars, counters, TypeOK, LoopInv, ForwardLoop, InverseLoop,
              n, hn, hm, ht, dt
<1> QED
  BY <1>1, <1>2, <1>3, <1>4, <1>5, <1>6, <1>7 DEF Next

(***************************************************************************)
(* The state of a multiplication by fft.c always has its types: the arrays *)
(* keep n residues each whatever the transforms store in them.             *)
(***************************************************************************)
THEOREM TypeCorrect == Spec => []TypeOK
<1>1. IInv => TypeOK
  BY DEF IInv
<1> QED
  BY <1>1, InitIInv, NextIInv, PTL DEF Spec

(***************************************************************************)
(* FFT and iFFT of fft.c never read or write outside the array of n reals  *)
(* or outside fpr_gm_tab, and never use its unused entry 0, for every      *)
(* logn the table serves.                                                  *)
(***************************************************************************)
THEOREM MemorySafety == Spec => []InBounds
BY InitIInv, NextIInv, IInvImpliesInBounds, PTL DEF Spec

-----------------------------------------------------------------------------
(***************************************************************************)
(* The values of the arrays.  While FFT or iFFT works on an array, the     *)
(* slots of the stage that are done are those before the current block and *)
(* the first of each of its halves; they hold coefficients of the next     *)
(* stage, the others of this one (Forward, Backward).  What is transformed *)
(* stays as it is while the other operand is, and what the second array    *)
(* is converted from is still there when its turn comes.                   *)
(***************************************************************************)
ForwardDone == IF u < logn THEN Done(j1, j, ht) ELSE {}

(* Those iFFT has done.                                                    *)
InverseDone == IF u > 1 THEN Done(j1, j, t) ELSE {}

(* f holds the values of x, as FFT leaves them.                            *)
Transformed(f, x) == Forward(f, x, logn, logn, {})

(* The strengthening of ForwardInv, FFTLayout and InverseInv that every    *)
(* step keeps, with what the multiplication leaves at the end.             *)
ValueInv ==
  /\ pc = "FFT" /\ arr = "out" => Forward(out, a, logn, u, ForwardDone) /\ fb = b
  /\ pc = "FFT" /\ arr = "fb" => Transformed(out, a) /\ Forward(fb, b, logn, u, ForwardDone)
  /\ pc = "poly_mul_fft" => Transformed(out, a) /\ Transformed(fb, b)
  /\ pc = "iFFT" => Backward(out, SchoolbookMul(a, b, logn), logn, u - 1, InverseDone)
  /\ pc = "done" => out = SchoolbookMul(a, b, logn)

(* Store2 changes the two slots it names, and no other.                    *)
LEMMA Store2Stores ==
  ASSUME TypeOK, NEW f \in Poly(logn), NEW v \in Complex, NEW w \in Complex,
         NEW p \in Nat, NEW q \in Nat, p < q, q < hn
  PROVE  Stores(Store2(f, p, v, q, w), f, logn, p, v, q, w)
<1> DEFINE g == Store2(f, p, v, q, w)
<1>0. hn \in Nat /\ n = 2 * hn /\ hn = Pow2[logn - 1] /\ n = Pow2[logn]
  BY Sizes
<1>1. v = <<v[1], v[2]>> /\ w = <<w[1], w[2]>>
  BY DEF Complex
<1>2. f \in [0 .. 2 * hn - 1 -> Residue]
  BY <1>0 DEF Poly
<1>3. /\ p \in 0 .. 2 * hn - 1 /\ p + hn \in 0 .. 2 * hn - 1
      /\ q \in 0 .. 2 * hn - 1 /\ q + hn \in 0 .. 2 * hn - 1
      /\ p # p + hn /\ p # q /\ p # q + hn /\ q # p + hn /\ q # q + hn /\ p + hn # q + hn
  BY <1>0
<1>4. /\ g[p] = v[1] /\ g[p + hn] = v[2] /\ g[q] = w[1] /\ g[q + hn] = w[2]
      /\ \A z \in 0 .. 2 * hn - 1 :
           z # p /\ z # p + hn /\ z # q /\ z # q + hn => g[z] = f[z]
  BY <1>2, <1>3 DEF Store2
<1> HIDE DEF g
<1>5. ASSUME NEW s \in 0 .. hn - 1, s # p, s # q
      PROVE  At(g, hn, s) = At(f, hn, s)
  <2>1. /\ s \in 0 .. 2 * hn - 1 /\ s + hn \in 0 .. 2 * hn - 1
        /\ s # p + hn /\ s # q + hn /\ s + hn # p /\ s + hn # q /\ s + hn # p + hn /\ s + hn # q + hn
    BY <1>0, <1>5
  <2>2. g[s] = f[s] /\ g[s + hn] = f[s + hn]
    BY <1>4, <1>5, <2>1
  <2> QED
    BY <2>2 DEF At
<1>6. At(g, hn, p) = v /\ At(g, hn, q) = w
  BY <1>1, <1>4 DEF At
<1> QED
  BY <1>0, <1>5, <1>6, Zenon DEF Stores, g

(* What the counters of FFT say of the butterfly about to be done.         *)
LEMMA ForwardPlace ==
  ASSUME TypeOK, ForwardLoop, u < logn
  PROVE  /\ logn \in 1 .. LogMax /\ u \in 0 .. logn - 1 /\ u \in Nat
         /\ ht = Pow2[logn - (u + 1)] /\ t = 2 * ht /\ ht \in Nat /\ ht >= 1
         /\ i1 \in 0 .. Pow2[u] - 1 /\ m = Pow2[u]
         /\ j - j1 \in 0 .. Pow2[logn - (u + 1)] - 1
         /\ j1 = i1 * (2 * ht) /\ j = i1 * (2 * ht) + (j - j1)
         /\ j1 <= j /\ j < j1 + ht /\ j1 + t <= hn
         /\ j \in 0 .. hn - 1 /\ j + ht \in 0 .. hn - 1 /\ hn = Pow2[logn - 1] /\ hn \in Nat
<1>0. /\ logn \in 1 .. LogMax /\ i1 \in Nat /\ j1 \in Nat /\ j \in Nat /\ LogMax \in Nat
  BY Pow2Assumption DEF TypeOK
<1>1. /\ u \in 1 .. logn /\ m = Pow2[u] /\ t = Pow2[logn - u]
      /\ i1 < hm /\ j1 = i1 * t /\ j1 <= j /\ j < j1 + ht
  BY DEF ForwardLoop
<1>2. /\ ht \in Nat /\ hm \in Nat /\ ht >= 1 /\ t = 2 * ht /\ m = 2 * hm
      /\ j1 + t <= hn /\ j + ht < hn /\ j < hn
  BY ForwardBounds
<1>3. Pow2[logn - u] = 2 * Pow2[logn - (u + 1)] /\ Pow2[logn - (u + 1)] \in Nat
  <2>1. u + 1 \in 1 .. logn
    BY <1>0, <1>1
  <2> QED
    BY <1>1, <2>1, Steps
<1>4. ht = Pow2[logn - (u + 1)]
  <2>1. 2 * ht = 2 * Pow2[logn - (u + 1)]
    BY <1>1, <1>2, <1>3, Zenon
  <2> QED
    BY <1>2, <1>3, <2>1
<1>5. u \in 0 .. logn - 1 /\ u \in Nat /\ logn \in Nat
  BY <1>0, <1>1
<1>6. i1 \in 0 .. Pow2[u] - 1
  BY <1>0, <1>1, <1>2
<1>7. j - j1 \in 0 .. ht - 1 /\ j = j1 + (j - j1)
  BY <1>0, <1>1, <1>2
<1>8. j \in 0 .. hn - 1 /\ j + ht \in 0 .. hn - 1 /\ hn = Pow2[logn - 1] /\ hn \in Nat
  BY <1>0, <1>2, Sizes
<1>9. j1 = i1 * (2 * ht)
  BY <1>1, <1>2, Zenon
<1> QED
  BY <1>0, <1>1, <1>2, <1>4, <1>5, <1>6, <1>7, <1>8, <1>9

(* A butterfly of FFT brings its two slots to the next stage.              *)
LEMMA ForwardButterflyValue ==
  ASSUME TypeOK, ForwardLoop, u < logn, NEW f \in Poly(logn), NEW x \in Poly(logn),
         Forward(f, x, logn, u, ForwardDone)
  PROVE  Forward(ForwardButterfly(f), x, logn, u, Done(j1, j, ht) \cup {j, j + ht})
<1> DEFINE g == ForwardButterfly(f)
           s == fpr_gm_tab[m + i1]
           X == At(f, hn, j)
           Z == At(f, hn, j + ht)
           Y == FPC_MUL(Z, s)
           d == j - j1
           D == Done(j1, j, ht)
           l == logn
           w == u
           i == i1
           p == j
           q == j + ht
<1>0. /\ l \in 1 .. LogMax /\ w \in 0 .. l - 1
      /\ ht = Pow2[l - (w + 1)] /\ ht \in Nat /\ ht >= 1
      /\ i \in 0 .. Pow2[w] - 1 /\ m = Pow2[w]
      /\ d \in 0 .. Pow2[l - (w + 1)] - 1
      /\ p = i * (2 * ht) + d
      /\ p \in 0 .. hn - 1 /\ q \in 0 .. hn - 1 /\ hn = Pow2[l - 1] /\ hn \in Nat
  BY ForwardPlace, Zenon
<1>1. D = ForwardDone
  BY DEF ForwardDone
<1>2. p \notin D /\ q \notin D
  <2>1. /\ j1 = i1 * (2 * ht) /\ i1 \in Nat /\ j1 \in Nat /\ j \in Nat /\ j1 <= j /\ j < j1 + ht
        /\ ht \in Nat /\ ht >= 1
    BY ForwardPlace DEF TypeOK
  <2>2. j \notin Done(j1, j, ht) /\ j + ht \notin Done(j1, j, ht)
    BY <2>1, DoneSlots
  <2> QED
    BY <2>2
<1>3. g = Store2(f, p, FPC_ADD(X, Y), q, FPC_SUB(X, Y))
  BY DEF ForwardButterfly
<1>4. FPC_ADD(X, Y) \in Complex /\ FPC_SUB(X, Y) \in Complex
  <2>1. m + i1 \in 0 .. Pow2[LogMax] - 1
    BY ForwardBounds, Pow2Facts, Pow2Assumption
  <2>2. s \in Pair
    BY <2>1, GMType, Closed
  <2>3. X \in Pair /\ Z \in Pair
    BY <1>0, PolyFacts DEF Pair
  <2> HIDE DEF s, X, Z
  <2>4. Y \in Pair
    BY <2>2, <2>3, Closed
  <2> HIDE DEF Y
  <2> QED
    BY <2>3, <2>4, Closed
<1>5. Stores(g, f, l, p, FPC_ADD(X, Y), q, FPC_SUB(X, Y))
  <2> DEFINE V == FPC_ADD(X, Y)
             W == FPC_SUB(X, Y)
  <2>1. V \in Complex /\ W \in Complex /\ p \in Nat /\ q \in Nat /\ p < q /\ q < hn
    BY <1>0, <1>4
  <2>2. g = Store2(f, p, V, q, W)
    BY <1>3
  <2> HIDE DEF V, W, g, p, q
  <2>3. Stores(Store2(f, p, V, q, W), f, logn, p, V, q, W)
    BY <2>1, Store2Stores
  <2> QED
    BY <2>2, <2>3 DEF V, W
<1>6. s = fpr_gm_tab[Pow2[w] + i] /\ X = At(f, Pow2[l - 1], p) /\ Z = At(f, Pow2[l - 1], q)
  BY <1>0, Zenon
<1>7. q = p + Pow2[l - (w + 1)] /\ p = i * (2 * Pow2[l - (w + 1)]) + d
  BY <1>0, Zenon
<1>8. Forward(f, x, l, w, D)
  BY <1>1
<1>9. p \in 0 .. Pow2[l - 1] - 1 /\ q \in 0 .. Pow2[l - 1] - 1 /\ x \in Poly(l)
  BY <1>0, Zenon
<1> HIDE DEF g, d, D, l, w, i, p, q
<1>10. LET ss == fpr_gm_tab[Pow2[w] + i]
           XX == At(f, Pow2[l - 1], p)
           YY == FPC_MUL(At(f, Pow2[l - 1], q), ss)
       IN  Stores(g, f, l, p, FPC_ADD(XX, YY), q, FPC_SUB(XX, YY))
  BY <1>5, <1>6, Zenon
<1>11. Forward(g, x, l, w, D \cup {p, q})
  BY <1>0, <1>2, <1>7, <1>8, <1>9, <1>10, ForwardStep
<1> QED
  BY <1>11 DEF g, D, l, w, p, q

(* What the counters of iFFT say of the butterfly about to be done.        *)
LEMMA InversePlace ==
  ASSUME TypeOK, InverseLoop, u > 1
  PROVE  /\ logn \in 1 .. LogMax /\ u - 1 \in 0 .. logn - 1 /\ u - 1 \in Nat
         /\ t = Pow2[logn - ((u - 1) + 1)] /\ dt = 2 * t /\ t \in Nat /\ t >= 1
         /\ i1 \in 0 .. Pow2[u - 1] - 1 /\ hm = Pow2[u - 1]
         /\ j - j1 \in 0 .. Pow2[logn - ((u - 1) + 1)] - 1
         /\ j1 = i1 * (2 * t) /\ j = i1 * (2 * t) + (j - j1)
         /\ j1 <= j /\ j < j1 + t /\ j1 + dt <= hn
         /\ j \in 0 .. hn - 1 /\ j + t \in 0 .. hn - 1 /\ hn = Pow2[logn - 1] /\ hn \in Nat
<1>0. /\ logn \in 1 .. LogMax /\ i1 \in Nat /\ j1 \in Nat /\ j \in Nat /\ LogMax \in Nat /\ t \in Nat
  BY Pow2Assumption DEF TypeOK
<1>1. /\ u \in 1 .. logn /\ t = Pow2[logn - u] /\ j1 = i1 * dt /\ j1 <= j /\ j < j1 + t
  BY DEF InverseLoop
<1>2. /\ dt = 2 * t /\ t >= 1 /\ i1 < Pow2[u - 1] /\ hm = Pow2[u - 1] /\ hm \in Nat
      /\ j1 + dt <= hn /\ j + t < hn /\ j < hn
  BY InverseBounds
<1>3. u - 1 \in 0 .. logn - 1 /\ u - 1 \in Nat /\ (u - 1) + 1 = u
  BY <1>0, <1>1
<1>4. i1 \in 0 .. Pow2[u - 1] - 1
  BY <1>0, <1>2
<1>5. j - j1 \in 0 .. t - 1 /\ j = j1 + (j - j1)
  BY <1>0, <1>1
<1>6. j \in 0 .. hn - 1 /\ j + t \in 0 .. hn - 1 /\ hn = Pow2[logn - 1] /\ hn \in Nat
  BY <1>0, <1>2, Sizes
<1>7. j1 = i1 * (2 * t)
  BY <1>1, <1>2, Zenon
<1> QED
  BY <1>0, <1>1, <1>2, <1>3, <1>4, <1>5, <1>6, <1>7

(* A butterfly of iFFT takes its two slots back a stage, and doubles.      *)
LEMMA InverseButterflyValue ==
  ASSUME TypeOK, InverseLoop, u > 1, NEW f \in Poly(logn), NEW x \in Poly(logn),
         Backward(f, x, logn, u - 1, InverseDone)
  PROVE  Backward(InverseButterfly(f), x, logn, u - 1, Done(j1, j, t) \cup {j, j + t})
<1> DEFINE g == InverseButterfly(f)
           s == Conj(fpr_gm_tab[hm + i1])
           X == At(f, hn, j)
           Y == At(f, hn, j + t)
           d == j - j1
           D == Done(j1, j, t)
           l == logn
           w == u - 1
           i == i1
           p == j
           q == j + t
<1>0. /\ l \in 1 .. LogMax /\ w \in 0 .. l - 1
      /\ t = Pow2[l - (w + 1)] /\ t \in Nat /\ t >= 1
      /\ i \in 0 .. Pow2[w] - 1 /\ hm = Pow2[w]
      /\ d \in 0 .. Pow2[l - (w + 1)] - 1
      /\ p = i * (2 * t) + d
      /\ p \in 0 .. hn - 1 /\ q \in 0 .. hn - 1 /\ hn = Pow2[l - 1] /\ hn \in Nat
  BY InversePlace, Zenon
<1>1. D = InverseDone
  BY DEF InverseDone
<1>2. p \notin D /\ q \notin D
  <2>1. /\ j1 = i1 * (2 * t) /\ i1 \in Nat /\ j1 \in Nat /\ j \in Nat /\ j1 <= j /\ j < j1 + t
        /\ t \in Nat /\ t >= 1
    BY InversePlace DEF TypeOK
  <2>2. j \notin Done(j1, j, t) /\ j + t \notin Done(j1, j, t)
    BY <2>1, DoneSlots
  <2> QED
    BY <2>2
<1>3. g = Store2(f, p, FPC_ADD(X, Y), q, FPC_MUL(FPC_SUB(X, Y), s))
  BY DEF InverseButterfly
<1>4. FPC_ADD(X, Y) \in Complex /\ FPC_MUL(FPC_SUB(X, Y), s) \in Complex
  <2> DEFINE gm == fpr_gm_tab[hm + i1]
             V == FPC_SUB(X, Y)
  <2>1. hm + i1 \in 0 .. Pow2[LogMax] - 1
    BY InverseBounds, Pow2Facts, Pow2Assumption
  <2>2. gm \in Complex
    BY <2>1, GMType
  <2>3. s \in Pair
    <3> HIDE DEF gm
    <3>1. Conj(gm) \in Complex
      BY <2>2, ConjMul
    <3>2. Conj(gm) \in Pair
      BY <3>1, Closed
    <3> QED
      BY <3>2 DEF gm
  <2>4. X \in Pair /\ Y \in Pair
    BY <1>0, PolyFacts DEF Pair
  <2> HIDE DEF s, X, Y
  <2>5. V \in Pair /\ FPC_ADD(X, Y) \in Complex
    BY <2>4, Closed
  <2> HIDE DEF V
  <2>6. FPC_MUL(V, s) \in Complex
    BY <2>3, <2>5, Closed
  <2> QED
    BY <2>5, <2>6 DEF V
<1>5. Stores(g, f, l, p, FPC_ADD(X, Y), q, FPC_MUL(FPC_SUB(X, Y), s))
  <2> DEFINE V == FPC_ADD(X, Y)
             W == FPC_MUL(FPC_SUB(X, Y), s)
  <2>1. V \in Complex /\ W \in Complex /\ p \in Nat /\ q \in Nat /\ p < q /\ q < hn
    BY <1>0, <1>4
  <2>2. g = Store2(f, p, V, q, W)
    BY <1>3
  <2> HIDE DEF V, W, g, p, q
  <2>3. Stores(Store2(f, p, V, q, W), f, logn, p, V, q, W)
    BY <2>1, Store2Stores
  <2> QED
    BY <2>2, <2>3 DEF V, W
<1>6. s = Conj(fpr_gm_tab[Pow2[w] + i]) /\ X = At(f, Pow2[l - 1], p) /\ Y = At(f, Pow2[l - 1], q)
  BY <1>0, Zenon
<1>7. q = p + Pow2[l - (w + 1)] /\ p = i * (2 * Pow2[l - (w + 1)]) + d
  BY <1>0, Zenon
<1>8. Backward(f, x, l, w, D)
  BY <1>1
<1>9. p \in 0 .. Pow2[l - 1] - 1 /\ q \in 0 .. Pow2[l - 1] - 1 /\ x \in Poly(l)
  BY <1>0, Zenon
<1> HIDE DEF g, d, D, l, w, i, p, q
<1>10. LET ss == Conj(fpr_gm_tab[Pow2[w] + i])
           XX == At(f, Pow2[l - 1], p)
           YY == At(f, Pow2[l - 1], q)
       IN  Stores(g, f, l, p, FPC_ADD(XX, YY), q, FPC_MUL(FPC_SUB(XX, YY), ss))
  BY <1>5, <1>6, Zenon
<1>11. Backward(g, x, l, w, D \cup {p, q})
  BY <1>0, <1>2, <1>7, <1>8, <1>9, <1>10, BackwardStep
<1> QED
  BY <1>11 DEF g, D, l, w, p, q

(* The loops of FFT do the slots of a stage one after the other, all of    *)
(* them, and then go on to the next stage.                                 *)
LEMMA ForwardMoves ==
  ASSUME TypeOK, ForwardLoop, u < logn, ForwardNext, logn' = logn, NEW g, NEW x,
         Forward(g, x, logn, u, Done(j1, j, ht) \cup {j, j + ht})
  PROVE  Forward(g, x, logn', u', ForwardDone')
<1> DEFINE D == Done(j1, j, ht) \cup {j, j + ht}
<1>0. /\ j1 = i1 * (2 * ht) /\ i1 \in Nat /\ j1 \in Nat /\ j \in Nat /\ j1 <= j /\ j < j1 + ht
      /\ ht \in Nat /\ ht >= 1 /\ t = 2 * ht /\ hn = Pow2[logn - 1] /\ hn \in Nat /\ j1 + t <= hn
      /\ u \in Nat /\ logn \in Nat
  BY ForwardPlace DEF TypeOK
<1>1. /\ j + 1 < j1 + ht => Done(j1, j + 1, ht) = D
      /\ ~ (j + 1 < j1 + ht) => D = {s \in Nat : s < j1 + 2 * ht}
  BY <1>0, DoneSlots
<1>2. CASE /\ j + 1 < j1 + ht
           /\ j' = j + 1
           /\ UNCHANGED <<u, m, t, i1, j1>>
  <2>1. ForwardDone' = D
    BY <1>1, <1>2 DEF ForwardDone, ht
  <2>2. u' = u
    BY <1>2
  <2> QED
    BY <2>1, <2>2
<1>3. CASE /\ ~(j + 1 < j1 + ht) /\ i1 + 1 < hm
           /\ i1' = i1 + 1 /\ j1' = j1 + t /\ j' = j1 + t
           /\ UNCHANGED <<u, m, t>>
  <2> DEFINE z == j1 + t
  <2>1. z \in Nat /\ z = j1 + 2 * ht
    BY <1>0
  <2>2. Done(z, z, ht) = {s \in Nat : s < z}
    <3> HIDE DEF z
    <3> QED
      BY <1>0, <2>1, DoneStart
  <2>3. Done(z, z, ht) = D
    BY <1>1, <1>3, <2>1, <2>2
  <2>4. ht' = ht /\ u' = u /\ j1' = z /\ j' = z
    BY <1>3 DEF ht
  <2>5. ForwardDone' = D
    BY <2>3, <2>4 DEF ForwardDone
  <2> QED
    BY <2>4, <2>5
<1>4. CASE /\ ~(j + 1 < j1 + ht) /\ ~(i1 + 1 < hm)
           /\ u' = u + 1 /\ m' = m * 2 /\ t' = ht
           /\ i1' = 0 /\ j1' = 0 /\ j' = 0
  <2>1. j1 + t = hn
    <3>1. i1 < hm /\ hm \in Nat /\ hm * t = hn
      BY ForwardBounds DEF ForwardLoop
    <3>2. i1 + 1 = hm
      BY <1>0, <1>4, <3>1
    <3>3. (i1 + 1) * t = i1 * t + t /\ j1 = i1 * t
      BY <1>0
    <3> QED
      BY <3>1, <3>2, <3>3
  <2>2. 0 .. Pow2[logn - 1] - 1 \subseteq D
    <3>1. D = {s \in Nat : s < hn}
      BY <1>0, <1>1, <1>4, <2>1
    <3>2. 0 .. hn - 1 \subseteq {s \in Nat : s < hn}
      BY <1>0
    <3> QED
      BY <1>0, <3>1, <3>2, Zenon
  <2>3. Forward(g, x, logn, u + 1, {})
    <3> HIDE DEF D
    <3>1. Forward(g, x, logn, u, D)
      BY DEF D
    <3> QED
      BY <2>2, <3>1, ForwardGoesOn
  <2>4. ForwardDone' = {}
    <3>1. ht' \in Nat
      BY <1>0, <1>4 DEF ht
    <3>2. Done(0, 0, ht') = {}
      BY <3>1 DEF Done
    <3> QED
      BY <1>4, <3>2, Zenon DEF ForwardDone
  <2> QED
    BY <1>4, <2>3, <2>4, Zenon
<1> QED
  BY <1>2, <1>3, <1>4 DEF ForwardNext

(* So do those of iFFT.                                                    *)
LEMMA InverseMoves ==
  ASSUME TypeOK, InverseLoop, u > 1, InverseNext, logn' = logn, NEW g, NEW x,
         Backward(g, x, logn, u - 1, Done(j1, j, t) \cup {j, j + t})
  PROVE  Backward(g, x, logn', u' - 1, InverseDone')
<1> DEFINE D == Done(j1, j, t) \cup {j, j + t}
<1>0. /\ j1 = i1 * (2 * t) /\ i1 \in Nat /\ j1 \in Nat /\ j \in Nat /\ j1 <= j /\ j < j1 + t
      /\ t \in Nat /\ t >= 1 /\ dt = 2 * t /\ hn = Pow2[logn - 1] /\ hn \in Nat /\ j1 + dt <= hn
      /\ u \in Nat /\ logn \in Nat /\ u - 1 \in Nat
  BY InversePlace DEF TypeOK
<1>1. /\ j + 1 < j1 + t => Done(j1, j + 1, t) = D
      /\ ~ (j + 1 < j1 + t) => D = {s \in Nat : s < j1 + 2 * t}
  <2>1. /\ j1 = i1 * (2 * t) /\ i1 \in Nat /\ j1 \in Nat /\ j \in Nat /\ j1 <= j /\ j < j1 + t
        /\ t \in Nat /\ t >= 1
    BY <1>0
  <2> QED
    BY <2>1, DoneSlots
<1>2. CASE /\ j + 1 < j1 + t
           /\ j' = j + 1
           /\ UNCHANGED <<u, m, t, i1, j1>>
  <2>1. InverseDone' = D
    BY <1>1, <1>2 DEF InverseDone
  <2>2. u' = u
    BY <1>2
  <2> QED
    BY <2>1, <2>2
<1>3. CASE /\ ~(j + 1 < j1 + t) /\ j1 + dt < hn
           /\ i1' = i1 + 1 /\ j1' = j1 + dt /\ j' = j1 + dt
           /\ UNCHANGED <<u, m, t>>
  <2> DEFINE z == j1 + dt
  <2>1. z \in Nat /\ z = j1 + 2 * t
    BY <1>0
  <2>2. Done(z, z, t) = {s \in Nat : s < z}
    <3> HIDE DEF z
    <3> QED
      BY <1>0, <2>1, DoneStart
  <2>3. Done(z, z, t) = D
    BY <1>1, <1>3, <2>1, <2>2
  <2>4. t' = t /\ u' = u /\ j1' = z /\ j' = z
    BY <1>3
  <2>5. InverseDone' = D
    BY <2>3, <2>4 DEF InverseDone
  <2> QED
    BY <2>4, <2>5
<1>4. CASE /\ ~(j + 1 < j1 + t) /\ ~(j1 + dt < hn)
           /\ u' = u - 1 /\ m' = hm /\ t' = dt
           /\ i1' = 0 /\ j1' = 0 /\ j' = 0
  <2>1. j1 + 2 * t = hn
    BY <1>0, <1>4
  <2>2. 0 .. Pow2[logn - 1] - 1 \subseteq D
    <3>1. D = {s \in Nat : s < hn}
      BY <1>1, <1>4, <2>1
    <3>2. 0 .. hn - 1 \subseteq {s \in Nat : s < hn}
      BY <1>0
    <3> QED
      BY <1>0, <3>1, <3>2, Zenon
  <2>3. Backward(g, x, logn, (u - 1) - 1, {})
    <3> DEFINE w == u - 1
    <3> HIDE DEF D, w
    <3>1. Backward(g, x, logn, w, D) /\ w \in Nat
      BY <1>0 DEF D, w
    <3>2. Backward(g, x, logn, w - 1, {})
      BY <2>2, <3>1, BackwardGoesOn
    <3> QED
      BY <3>2 DEF w
  <2>4. InverseDone' = {}
    <3>1. t' \in Nat
      BY <1>0, <1>4
    <3>2. Done(0, 0, t') = {}
      BY <3>1 DEF Done
    <3> QED
      BY <1>4, <3>2, Zenon DEF InverseDone
  <2> QED
    BY <1>4, <2>3, <2>4, Zenon
<1> QED
  BY <1>2, <1>3, <1>4 DEF InverseNext

(* Entering FFT on the array g with g = x.                                 *)
LEMMA EnterForward ==
  ASSUME TypeOK, logn' = logn, NEW y, EnterFFT(y), NEW x \in Poly(logn)
  PROVE  Forward(x, x, logn', u', ForwardDone')
<1>1. /\ u' = 1 /\ t' = hn /\ j1' = 0 /\ j' = 0 /\ hn \in Nat
  BY Sizes DEF EnterFFT
<1>2. ForwardDone' = {}
  <2>1. ht' \in Nat
    BY <1>1 DEF ht
  <2>2. Done(0, 0, ht') = {}
    BY <2>1 DEF Done
  <2> QED
    BY <1>1, <2>2, Zenon DEF ForwardDone
<1>3. Forward(x, x, logn, 1, {})
  BY ForwardBegins DEF TypeOK
<1> QED
  BY <1>1, <1>2, <1>3, Zenon

(* FFT returns when its loop has reached the last stage.                   *)
LEMMA ForwardEnds ==
  ASSUME TypeOK, ForwardLoop, ~ (u < logn), NEW f, NEW x,
         Forward(f, x, logn, u, ForwardDone)
  PROVE  Transformed(f, x)
<1>1. u = logn
  BY DEF ForwardLoop, TypeOK
<1> QED
  BY <1>1 DEF ForwardDone, Transformed

(* The pointwise product hands iFFT the transform of the product.          *)
LEMMA PointwiseValue ==
  ASSUME TypeOK, Transformed(out, a), Transformed(fb, b), logn' = logn, EnterIFFT
  PROVE  Backward(poly_mul_fft(out, fb), SchoolbookMul(a, b, logn), logn', u' - 1, InverseDone')
<1> DEFINE g == poly_mul_fft(out, fb)
<1>0. /\ u' = logn /\ t' = 1 /\ j1' = 0 /\ j' = 0
      /\ hn \in Nat /\ hn >= 1 /\ n = 2 * hn /\ hn = Pow2[logn - 1]
      /\ a \in Poly(logn) /\ b \in Poly(logn) /\ logn \in 1 .. LogMax
  BY Sizes DEF EnterIFFT, TypeOK
<1>1. InverseDone' = {}
  <2>1. Done(0, 0, 1) = {}
    BY DEF Done
  <2> QED
    BY <1>0, <2>1, Zenon DEF InverseDone
<1>2. ASSUME NEW s \in 0 .. hn - 1
      PROVE  At(g, hn, s) = FPC_MUL(At(out, hn, s), At(fb, hn, s))
  <2> DEFINE z == FPC_MUL(At(out, hn, s), At(fb, hn, s))
  <2>1. s % hn = s /\ (s + hn) % hn = s
    <3>1. s + hn = 1 * hn + s /\ s = 0 * hn + s /\ hn > 0
      BY <1>0
    <3>2. \A q \in Int : (q * hn + s) % hn = s
      BY <1>0, <3>1, DivModUnique
    <3> QED
      BY <3>1, <3>2
  <2>2. s \in 0 .. n - 1 /\ s + hn \in 0 .. n - 1 /\ s < hn /\ ~ (s + hn < hn)
    BY <1>0
  <2>3. g[s] = z[1] /\ g[s + hn] = z[2]
    BY <2>1, <2>2, Zenon DEF poly_mul_fft
  <2>4. z = <<z[1], z[2]>>
    BY DEF FPC_MUL
  <2> HIDE DEF g, z
  <2>5. At(g, hn, s) = z
    BY <2>3, <2>4, Zenon DEF At
  <2> QED
    BY <2>5 DEF z
<1> HIDE DEF g
<1>3. Backward(g, SchoolbookMul(a, b, logn), logn, logn - 1, {})
  <2>1. Forward(out, a, logn, logn, {}) /\ Forward(fb, b, logn, logn, {})
    BY DEF Transformed
  <2> DEFINE h == Pow2[logn - 1]
  <2>2. \A s \in 0 .. h - 1 : At(g, h, s) = FPC_MUL(At(out, h, s), At(fb, h, s))
    BY <1>0, <1>2
  <2> QED
    BY <1>0, <2>1, <2>2, PointwiseProduct
<1> QED
  BY <1>0, <1>1, <1>3, Zenon DEF g

(* The scaling at the end of iFFT leaves the product.                      *)
LEMMA ScalingValue ==
  ASSUME TypeOK, InverseLoop, ~ (u > 1),
         Backward(out, SchoolbookMul(a, b, logn), logn, u - 1, InverseDone)
  PROVE  [v \in 0 .. n - 1 |-> (out[v] * fpr_p2_tab[logn]) % P] = SchoolbookMul(a, b, logn)
<1> DEFINE c == SchoolbookMul(a, b, logn)
<1>1. u = 1 /\ u - 1 = 0 /\ logn \in 1 .. LogMax /\ logn \in 0 .. LogMax /\ n = Pow2[logn]
      /\ out \in Poly(logn)
  BY Sizes, Pow2Assumption DEF InverseLoop, TypeOK
<1>2. c \in Poly(logn)
  BY <1>1, SchoolbookType DEF TypeOK
<1> HIDE DEF c
<1>3. Backward(out, c, logn, 0, {})
  BY <1>1 DEF InverseDone, c
<1>4. \A v \in 0 .. Pow2[logn] - 1 : (out[v] * fpr_p2_tab[logn]) % P = c[v]
  BY <1>1, <1>2, <1>3, FinalScaling
<1>5. c = [v \in 0 .. Pow2[logn] - 1 |-> c[v]]
  BY <1>2 DEF Poly
<1>6. [v \in 0 .. n - 1 |-> (out[v] * fpr_p2_tab[logn]) % P] = c
  BY <1>1, <1>4, <1>5
<1> QED
  BY <1>6 DEF c

(* Nothing is claimed before the conversion.                               *)
LEMMA InitValueInv == Init => ValueInv
BY DEF Init, ValueInv

(* Every step keeps it.                                                    *)
LEMMA NextValueInv == IInv /\ ValueInv /\ [Next]_vars => ValueInv'
<1> SUFFICES ASSUME IInv, ValueInv, [Next]_vars PROVE ValueInv'
  OBVIOUS
<1>0. TypeOK /\ LoopInv /\ a \in Poly(logn) /\ b \in Poly(logn)
      /\ out \in Poly(logn) /\ fb \in Poly(logn)
  BY DEF IInv, TypeOK
<1>1. CASE Convert
  <2>1. /\ logn' = logn /\ a' = a /\ b' = b /\ out' = a /\ fb' = b
        /\ EnterFFT("out") /\ pc' = "FFT" /\ arr' = "out"
    BY <1>1 DEF Convert, EnterFFT
  <2>2. Forward(a, a, logn', u', ForwardDone')
    BY <1>0, <2>1, EnterForward
  <2> QED
    BY <2>1, <2>2 DEF ValueInv
<1>2. CASE FFTStep
  <2>1. /\ pc = "FFT" /\ u < logn /\ ForwardLoop /\ ForwardNext
        /\ logn' = logn /\ a' = a /\ b' = b /\ arr' = arr /\ pc' = pc
    BY <1>0, <1>2 DEF FFTStep, LoopInv
  <2>2. CASE arr = "out" /\ out' = ForwardButterfly(out) /\ fb' = fb
    <3>1. Forward(out, a, logn, u, ForwardDone) /\ fb = b
      BY <2>1, <2>2 DEF ValueInv
    <3>2. Forward(out', a, logn, u, Done(j1, j, ht) \cup {j, j + ht})
      BY <1>0, <2>1, <2>2, <3>1, ForwardButterflyValue
    <3>3. Forward(out', a, logn', u', ForwardDone')
      BY <1>0, <2>1, <3>2, ForwardMoves
    <3> QED
      BY <2>1, <2>2, <3>1, <3>3 DEF ValueInv
  <2>3. CASE arr = "fb" /\ fb' = ForwardButterfly(fb) /\ out' = out
    <3>1. Forward(fb, b, logn, u, ForwardDone) /\ Transformed(out, a)
      BY <2>1, <2>3 DEF ValueInv
    <3>2. Forward(fb', b, logn, u, Done(j1, j, ht) \cup {j, j + ht})
      BY <1>0, <2>1, <2>3, <3>1, ForwardButterflyValue
    <3>3. Forward(fb', b, logn', u', ForwardDone')
      BY <1>0, <2>1, <3>2, ForwardMoves
    <3>4. Transformed(out, a)'
      BY <2>1, <2>3, <3>1 DEF Transformed
    <3> QED
      BY <2>1, <2>3, <3>3, <3>4 DEF ValueInv
  <2> QED
    BY <1>2, <2>2, <2>3 DEF FFTStep
<1>3. CASE FFTReturn
  <2>1. /\ pc = "FFT" /\ ~ (u < logn) /\ ForwardLoop
        /\ logn' = logn /\ a' = a /\ b' = b /\ out' = out /\ fb' = fb
    BY <1>0, <1>3 DEF FFTReturn, LoopInv
  <2>2. CASE arr = "out" /\ EnterFFT("fb")
    <3>1. Forward(out, a, logn, u, ForwardDone) /\ fb = b
      BY <2>1, <2>2 DEF ValueInv
    <3>2. Transformed(out, a)
      BY <1>0, <2>1, <3>1, ForwardEnds
    <3>3. Forward(b, b, logn', u', ForwardDone')
      BY <1>0, <2>1, <2>2, EnterForward
    <3>4. pc' = "FFT" /\ arr' = "fb" /\ Transformed(out, a)'
      BY <2>1, <2>2, <3>2 DEF EnterFFT, Transformed
    <3> QED
      BY <2>1, <3>1, <3>3, <3>4 DEF ValueInv
  <2>3. CASE arr = "fb" /\ pc' = "poly_mul_fft" /\ UNCHANGED <<arr, counters>>
    <3>1. Forward(fb, b, logn, u, ForwardDone) /\ Transformed(out, a)
      BY <2>1, <2>3 DEF ValueInv
    <3>2. Transformed(fb, b)
      BY <1>0, <2>1, <3>1, ForwardEnds
    <3>3. Transformed(out, a)' /\ Transformed(fb, b)'
      BY <2>1, <3>1, <3>2 DEF Transformed
    <3> QED
      BY <2>3, <3>3 DEF ValueInv
  <2> QED
    BY <1>3, <2>2, <2>3 DEF FFTReturn
<1>4. CASE PolyMulFFT
  <2>1. /\ pc = "poly_mul_fft" /\ logn' = logn /\ a' = a /\ b' = b
        /\ out' = poly_mul_fft(out, fb) /\ EnterIFFT /\ pc' = "iFFT"
    BY <1>4 DEF PolyMulFFT, EnterIFFT
  <2>2. Transformed(out, a) /\ Transformed(fb, b)
    BY <2>1 DEF ValueInv
  <2>3. Backward(out', SchoolbookMul(a, b, logn), logn', u' - 1, InverseDone')
    BY <1>0, <2>1, <2>2, PointwiseValue
  <2> QED
    BY <2>1, <2>3 DEF ValueInv
<1>5. CASE IFFTStep
  <2> DEFINE c == SchoolbookMul(a, b, logn)
  <2>1. /\ pc = "iFFT" /\ u > 1 /\ InverseLoop /\ InverseNext
        /\ logn' = logn /\ a' = a /\ b' = b /\ pc' = pc
        /\ out' = InverseButterfly(out)
    BY <1>0, <1>5 DEF IFFTStep, LoopInv
  <2>2. c \in Poly(logn)
    <3>1. logn \in 0 .. LogMax
      BY <1>0, Pow2Assumption DEF TypeOK
    <3> QED
      BY <1>0, <3>1, SchoolbookType
  <2>3. Backward(out, c, logn, u - 1, InverseDone)
    BY <2>1 DEF ValueInv
  <2> HIDE DEF c
  <2>4. Backward(out', c, logn, u - 1, Done(j1, j, t) \cup {j, j + t})
    BY <1>0, <2>1, <2>2, <2>3, InverseButterflyValue
  <2>5. Backward(out', c, logn', u' - 1, InverseDone')
    BY <1>0, <2>1, <2>4, InverseMoves
  <2> QED
    BY <2>1, <2>5 DEF ValueInv, c
<1>6. CASE IFFTScale
  <2>1. /\ pc = "iFFT" /\ ~ (u > 1) /\ InverseLoop
        /\ logn' = logn /\ a' = a /\ b' = b /\ pc' = "done"
        /\ out' = [v \in 0 .. n-1 |-> (out[v] * fpr_p2_tab[logn]) % P]
    BY <1>0, <1>6 DEF IFFTScale, LoopInv
  <2>2. Backward(out, SchoolbookMul(a, b, logn), logn, u - 1, InverseDone)
    BY <2>1 DEF ValueInv
  <2>3. out' = SchoolbookMul(a, b, logn)
    BY <1>0, <2>1, <2>2, ScalingValue
  <2> QED
    BY <2>1, <2>3 DEF ValueInv
<1>7. CASE UNCHANGED vars
  BY <1>7 DEF vars, counters, ValueInv, ForwardDone, InverseDone, Transformed, ht
<1> QED
  BY <1>1, <1>2, <1>3, <1>4, <1>5, <1>6, <1>7 DEF Next

-----------------------------------------------------------------------------
(* In the words of ForwardHolds: what each slot holds.                     *)
LEMMA ForwardHolding ==
  ASSUME TypeOK, ForwardLoop, NEW f, NEW x, Forward(f, x, logn, u, ForwardDone)
  PROVE  ForwardHolds(f, x)
<1>0. hn = Pow2[logn - 1] /\ hn \in Nat /\ t = Pow2[logn - u]
  BY Sizes DEF ForwardLoop
<1> SUFFICES ASSUME NEW s \in 0 .. hn - 1
             PROVE  At(f, hn, s) =
                      Remainder(x, logn, IF u < logn /\ Touched(s, t, ht) THEN ht ELSE t, s)
  BY DEF ForwardHolds
<1>1. At(f, hn, s) =
        Remainder(x, logn, IF s \in ForwardDone THEN Pow2[logn - (u + 1)] ELSE t, s)
  BY <1>0 DEF Forward
<1>2. CASE u < logn
  <2>1. /\ j1 = i1 * (2 * ht) /\ i1 \in Nat /\ j1 \in Nat /\ j \in Nat /\ j1 <= j /\ j < j1 + ht
        /\ ht \in Nat /\ ht >= 1
    BY <1>2, ForwardPlace DEF TypeOK
  <2>2. ht = Pow2[logn - (u + 1)] /\ t = 2 * ht
    BY <1>2, ForwardPlace
  <2>3. s \in Nat
    BY <1>0
  <2>4. s \in Done(j1, j, ht) <=> (s < j1 \/ (s < j1 + 2 * ht /\ s % ht < j - j1))
    BY <2>1, <2>3, DoneSlots
  <2>5. s \in ForwardDone <=> Touched(s, t, ht)
    BY <1>2, <2>2, <2>4, Zenon DEF ForwardDone, Touched
  <2> QED
    BY <1>1, <1>2, <2>2, <2>5, Zenon
<1>3. CASE ~ (u < logn)
  BY <1>1, <1>3 DEF ForwardDone
<1> QED
  BY <1>2, <1>3

(* Slot s holds the value at its root.                                     *)
LEMMA TransformedLayout ==
  ASSUME TypeOK, NEW f, NEW x, Transformed(f, x)
  PROVE  Layout(f, x)
<1>1. hn = Pow2[logn - 1] /\ logn - logn = 0 /\ Pow2[0] = 1
  BY Sizes, Pow2Assumption DEF TypeOK
<1> QED
  BY <1>1 DEF Transformed, Forward, Layout, Value

(* The same for iFFT.                                                      *)
LEMMA InverseHolding ==
  ASSUME TypeOK, InverseLoop, NEW x, Backward(out, x, logn, u - 1, InverseDone)
  PROVE  \A s \in 0 .. hn-1 :
           LET size == IF u > 1 /\ Touched(s, dt, t) THEN dt ELSE t
           IN  At(out, hn, s) = Scale(size, Remainder(x, logn, size, s))
<1>0. hn = Pow2[logn - 1] /\ hn \in Nat /\ t = Pow2[logn - u] /\ (u - 1) + 1 = u
  BY Sizes DEF InverseLoop, TypeOK
<1> SUFFICES ASSUME NEW s \in 0 .. hn - 1
             PROVE  LET size == IF u > 1 /\ Touched(s, dt, t) THEN dt ELSE t
                    IN  At(out, hn, s) = Scale(size, Remainder(x, logn, size, s))
  BY Zenon
<1>1. LET size == IF s \in InverseDone THEN Pow2[logn - (u - 1)] ELSE t
      IN  At(out, hn, s) = Scale(size, Remainder(x, logn, size, s))
  BY <1>0 DEF Backward
<1>2. CASE u > 1
  <2>1. /\ j1 = i1 * (2 * t) /\ i1 \in Nat /\ j1 \in Nat /\ j \in Nat /\ j1 <= j /\ j < j1 + t
        /\ t \in Nat /\ t >= 1 /\ dt = 2 * t
    BY <1>2, InversePlace DEF TypeOK
  <2>2. dt = Pow2[logn - (u - 1)]
    <3>1. u - 1 \in 1 .. logn /\ u - 1 < logn /\ u \in 1 .. logn
      BY <1>2 DEF InverseLoop, TypeOK
    <3>2. Pow2[logn - (u - 1)] = 2 * Pow2[logn - ((u - 1) + 1)]
      BY <3>1, Steps
    <3> QED
      BY <1>0, <2>1, <3>2, Zenon
  <2>3. s \in Nat
    BY <1>0
  <2>4. s \in Done(j1, j, t) <=> (s < j1 \/ (s < j1 + 2 * t /\ s % t < j - j1))
    BY <2>1, <2>3, DoneSlots
  <2>5. s \in InverseDone <=> Touched(s, dt, t)
    BY <1>2, <2>1, <2>4, Zenon DEF InverseDone, Touched
  <2> QED
    BY <1>1, <1>2, <2>2, <2>5, Zenon
<1>3. CASE ~ (u > 1)
  BY <1>1, <1>3 DEF InverseDone
<1> QED
  BY <1>2, <1>3

(* What the run checks follows from the invariant.                         *)
LEMMA ValueInvImplies == IInv /\ ValueInv => ForwardInv /\ FFTLayout /\ InverseInv
<1> SUFFICES ASSUME IInv, ValueInv PROVE ForwardInv /\ FFTLayout /\ InverseInv
  OBVIOUS
<1>0. TypeOK /\ LoopInv
  BY DEF IInv
<1>1. ForwardInv
  <2>1. ASSUME pc = "FFT"
        PROVE  (arr = "out" => ForwardHolds(out, a)) /\ (arr = "fb" => ForwardHolds(fb, b))
    BY <1>0, <2>1, ForwardHolding DEF LoopInv, ValueInv
  <2> QED
    BY <2>1 DEF ForwardInv
<1>2. FFTLayout
  BY <1>0, TransformedLayout DEF FFTLayout, ValueInv
<1>3. InverseInv
  BY <1>0, InverseHolding DEF InverseInv, LoopInv, ValueInv
<1> QED
  BY <1>1, <1>2, <1>3

(***************************************************************************)
(* In the middle of any stage of FFT of fft.c every slot holds the         *)
(* coefficient its block stands for, modulo X^t - c before its butterfly   *)
(* and modulo X^ht - c' after it: table index, bounds and in-place update  *)
(* of the three loops agree, for every logn the table serves.              *)
(***************************************************************************)
THEOREM StageByStage == Spec => []ForwardInv
BY InitIInv, NextIInv, InitValueInv, NextValueInv, ValueInvImplies, PTL DEF Spec

(***************************************************************************)
(* FFT of fft.c leaves f(w_j), j = rev(s), in slot s, for every logn: the  *)
(* layout that poly_split_fft, poly_merge_fft and myfft.c rely on.         *)
(***************************************************************************)
THEOREM SlotLayout == Spec => []FFTLayout
BY InitIInv, NextIInv, InitValueInv, NextValueInv, ValueInvImplies, PTL DEF Spec

(***************************************************************************)
(* iFFT of fft.c undoes FFT stage by stage, for the product of the two     *)
(* operands that schoolbook_mul computes, up to the factor that the one    *)
(* scaling at the end removes.                                             *)
(***************************************************************************)
THEOREM InverseStages == Spec => []InverseInv
BY InitIInv, NextIInv, InitValueInv, NextValueInv, ValueInvImplies, PTL DEF Spec

-----------------------------------------------------------------------------
(* The initial states are states in which nothing has been delivered.      *)
LEMMA InitProduct == Init => Product!Init
<1> SUFFICES ASSUME Init PROVE Product!Init
  OBVIOUS
<1>1. a \in Poly(logn) /\ b \in Poly(logn)
  BY OperandsAssumption DEF Init
<1> QED
  BY <1>1 DEF Init, Product!Init, Product!Poly, Poly, Product!Residue, Residue

(* The final scaling delivers the product; no other step delivers.         *)
LEMMA NextProduct ==
  ASSUME IInv, ValueInv, ValueInv', [Next]_vars
  PROVE  [Product!Multiply]_Product!vars
<1>1. CASE pc = "done"
  <2>1. UNCHANGED vars
    BY <1>1 DEF Next, Convert, FFTStep, FFTReturn, PolyMulFFT, IFFTStep, IFFTScale
  <2> QED
    BY <2>1 DEF vars, Product!vars
<1>2. CASE pc # "done" /\ pc' = "done"
  <2>1. logn' = logn /\ a' = a /\ b' = b
    BY <1>2 DEF Next, Convert, FFTStep, FFTReturn, PolyMulFFT, IFFTStep, IFFTScale, vars
  <2>2. out' = SchoolbookMul(a, b, logn)
    BY <1>2, <2>1 DEF ValueInv
  <2>3. SchoolbookMul(a, b, logn) = Product!SchoolbookMul(a, b, logn)
    BY DEF SchoolbookMul, Product!SchoolbookMul
  <2> QED
    BY <1>2, <2>1, <2>2, <2>3 DEF Product!Multiply
<1>3. CASE pc # "done" /\ pc' # "done"
  <2>1. logn' = logn /\ a' = a /\ b' = b
    BY DEF Next, Convert, FFTStep, FFTReturn, PolyMulFFT, IFFTStep, IFFTScale, vars
  <2> QED
    BY <1>3, <2>1 DEF Product!vars
<1> QED
  BY <1>1, <1>2, <1>3

(***************************************************************************)
(* fft_mul over fft.c implements the multiplication modulo X^N + 1, for    *)
(* every logn the table serves: what it leaves is what schoolbook_mul of   *)
(* the tests computes, it is delivered in one step, and stays.             *)
(***************************************************************************)
THEOREM ComputesProduct == Spec => Product!Safety
<1>1. IInv /\ ValueInv /\ ValueInv' /\ [Next]_vars => [Product!Multiply]_Product!vars
  BY NextProduct
<1> QED
  BY <1>1, InitIInv, NextIInv, InitValueInv, NextValueInv, InitProduct, PTL
     DEF Spec, Product!Safety

-----------------------------------------------------------------------------
(***************************************************************************)
(* The from-scratch multiplication, MyMul, alone.                          *)
(*                                                                         *)
(* The loop counters.  len is a power of two, so it divides hn, and start  *)
(* is a multiple of len below hn: a block that begins in the array ends    *)
(* in it, and a stride of hn/len through w stays below hn/2 for k < len/2. *)
(***************************************************************************)
InBlock ==
  /\ k < half /\ start < hn
  /\ \E i \in Nat : start = i * len

DIFLoop ==
  \E e \in 0 .. logn - 1 : len = Pow2[e] /\ (e >= 1 => InBlock)

DITLoop ==
  \E e \in 1 .. logn : len = Pow2[e] /\ (e < logn => InBlock)

MyLoopInv ==
  /\ myPc = "dif" => DIFLoop
  /\ myPc = "dit" => DITLoop

MyIInv == MyTypeOK /\ MyLoopInv

-----------------------------------------------------------------------------
(* What the sizes are: n is even, and hn = 2^(logn-1).                     *)
LEMMA MySizes ==
  ASSUME MyTypeOK
  PROVE  /\ n \in Nat /\ hn \in Nat /\ hn >= 1 /\ n = 2 * hn
         /\ hn = Pow2[logn - 1] /\ n = Pow2[logn]
         /\ Pow2[1] = 2 /\ Pow2[0] = 1
<1>1. /\ logn \in 1 .. LogMax /\ logn - 1 \in 0 .. LogMax
      /\ 1 \in 1 .. LogMax /\ 1 - 1 = 0
  BY Pow2Assumption DEF MyTypeOK
<1>2. /\ Pow2[logn] = 2 * Pow2[logn - 1]
      /\ Pow2[logn - 1] \in Nat /\ Pow2[logn - 1] >= 1
      /\ Pow2[1] = 2 * Pow2[0]
  BY <1>1, Pow2Facts
<1> QED
  BY <1>2, Pow2Assumption DEF n, hn

(* A power of two is a product of smaller ones.                            *)
LEMMA Pow2Product ==
  ASSUME NEW l \in 0 .. LogMax, NEW e \in 0 .. l
  PROVE  Pow2[l] = Pow2[l - e] * Pow2[e]
<1> DEFINE Splits == {d \in Nat : d <= l => Pow2[l] = Pow2[l - d] * Pow2[d]}
<1>0. l \in Nat /\ l <= LogMax /\ LogMax \in Nat
  BY Pow2Assumption
<1>1. 0 \in Splits
  <2>1. Pow2[l] \in Nat /\ Pow2[0] = 1 /\ l - 0 = l
    BY <1>0, Pow2Assumption
  <2> QED
    BY <2>1
<1>2. \A d \in Nat : d \in Splits => d + 1 \in Splits
  <2> SUFFICES ASSUME NEW d \in Nat, d \in Splits, d + 1 <= l
               PROVE  Pow2[l] = Pow2[l - (d + 1)] * Pow2[d + 1]
    OBVIOUS
  <2>1. /\ l - d \in 1 .. LogMax /\ (l - d) - 1 = l - (d + 1)
        /\ d + 1 \in 1 .. LogMax /\ (d + 1) - 1 = d
        /\ l - (d + 1) \in 0 .. LogMax /\ d \in 0 .. LogMax
    BY <1>0
  <2>2. Pow2[l - d] = 2 * Pow2[l - (d + 1)] /\ Pow2[d + 1] = 2 * Pow2[d]
    <3>1. Pow2[l - d] = 2 * Pow2[(l - d) - 1] /\ Pow2[d + 1] = 2 * Pow2[(d + 1) - 1]
      BY <2>1, Pow2Facts
    <3> QED
      BY <2>1, <3>1
  <2>3. Pow2[l - (d + 1)] \in Nat /\ Pow2[d] \in Nat
    BY <2>1, Pow2Facts
  <2>4. Pow2[l] = Pow2[l - d] * Pow2[d]
    OBVIOUS
  <2>5. \A x, y \in Nat : (2 * x) * y = x * (2 * y)
    OBVIOUS
  <2> QED
    BY <2>2, <2>3, <2>4, <2>5
<1>3. e \in Nat /\ e <= l
  BY <1>0
<1>4. Nat \subseteq Splits
  <2> HIDE DEF Splits
  <2> QED  BY <1>1, <1>2, SetInduction
<1> QED
  BY <1>3, <1>4

(* Division by a factor.                                                   *)
LEMMA Quotient ==
  ASSUME NEW x \in Nat, NEW y \in Nat, y >= 1
  PROVE  (x * y) \div y = x
<1>1. 0 \in 0 .. y - 1 /\ x * y + 0 = x * y
  OBVIOUS
<1> QED
  BY <1>1, DivModUnique

(* A stage: its blocks tile the array, its stride tiles the table.         *)
LEMMA Stage ==
  ASSUME MyTypeOK, NEW e \in 1 .. logn - 1, len = Pow2[e]
  PROVE  /\ half = Pow2[e - 1] /\ half \in Nat /\ half >= 1 /\ len = 2 * half
         /\ step = Pow2[logn - 1 - e] /\ step \in Nat /\ step >= 1
         /\ hn = step * len
<1>0. logn \in Nat /\ logn <= LogMax /\ LogMax \in Nat /\ e \in Nat /\ 1 <= e /\ e <= logn - 1
  BY Pow2Assumption DEF MyTypeOK
<1>1. /\ e \in 1 .. LogMax /\ e - 1 \in 0 .. LogMax /\ logn - 1 \in 0 .. LogMax
      /\ e \in 0 .. logn - 1 /\ logn - 1 - e \in 0 .. LogMax
  BY <1>0
<1>2. /\ Pow2[e] = 2 * Pow2[e - 1] /\ Pow2[e - 1] \in Nat /\ Pow2[e - 1] >= 1
      /\ Pow2[logn - 1 - e] \in Nat /\ Pow2[logn - 1 - e] >= 1
  BY <1>1, Pow2Facts
<1>3. half = Pow2[e - 1] /\ len = 2 * half
  BY <1>2 DEF half
<1>4. hn = Pow2[logn - 1 - e] * len
  BY <1>1, Pow2Product, MySizes
<1>5. step = Pow2[logn - 1 - e]
  <2>1. len \in Nat /\ len >= 1
    BY <1>2
  <2> QED
    BY <1>2, <1>4, <2>1, Quotient DEF step
<1> QED
  BY <1>2, <1>3, <1>4, <1>5

(* Inside the loops of either transform.                                   *)
LEMMA BlockBounds ==
  ASSUME MyTypeOK, InBlock, NEW e \in 1 .. logn - 1, len = Pow2[e]
  PROVE  /\ half \in Nat /\ half >= 1 /\ len = 2 * half
         /\ start + len <= hn /\ start + k + half < hn
         /\ step \in Nat /\ k * step < hn \div 2 /\ k * step \in Nat
<1>1. /\ half \in Nat /\ half >= 1 /\ len = 2 * half
      /\ step \in Nat /\ step >= 1 /\ hn = step * len
  BY Stage
<1>2. PICK i \in Nat : start = i * len
  BY DEF InBlock
<1>3. k < half /\ start < hn /\ k \in Nat /\ start \in Nat /\ len \in Nat
  BY DEF InBlock, MyTypeOK
<1>4. i < step
  <2> SUFFICES ASSUME step <= i PROVE FALSE
    BY <1>1
  <2>1. step * len <= i * len
    BY <1>1, <1>3
  <2> QED
    BY <1>1, <1>2, <1>3, <2>1, MySizes
<1>5. start + len <= hn
  <2>1. (i + 1) * len <= step * len
    BY <1>1, <1>3, <1>4
  <2>2. (i + 1) * len = i * len + len
    BY <1>3
  <2> QED
    BY <1>1, <1>2, <2>1, <2>2
<1>6. k * step < hn \div 2 /\ k * step \in Nat
  <2>1. hn = 2 * (half * step)
    <3>1. step * (2 * half) = 2 * (half * step)
      BY <1>1
    <3> QED
      BY <1>1, <3>1
  <2>2. half * step \in Nat
    BY <1>1
  <2>3. hn \div 2 = half * step
    BY <2>1, <2>2
  <2>4. (k + 1) * step <= half * step
    BY <1>1, <1>3
  <2>5. (k + 1) * step = k * step + step /\ k * step \in Nat
    BY <1>1, <1>3
  <2> QED
    BY <1>1, <2>2, <2>3, <2>4, <2>5
<1> QED
  BY <1>1, <1>3, <1>5, <1>6, MySizes

(* Which stage a transform is in, when its loop's condition holds.         *)
LEMMA DIFStage ==
  ASSUME MyTypeOK, DIFLoop, len >= 2
  PROVE  \E e \in 1 .. logn - 1 : len = Pow2[e] /\ InBlock
<1>1. PICK e \in 0 .. logn - 1 : len = Pow2[e] /\ (e >= 1 => InBlock)
  BY DEF DIFLoop
<1>2. e # 0
  BY <1>1, MySizes
<1>3. e \in 1 .. logn - 1 /\ e >= 1
  BY <1>2 DEF MyTypeOK
<1> QED
  BY <1>1, <1>3

LEMMA DITStage ==
  ASSUME MyTypeOK, DITLoop, len <= hn
  PROVE  \E e \in 1 .. logn - 1 : len = Pow2[e] /\ InBlock
<1>1. PICK e \in 1 .. logn : len = Pow2[e] /\ (e < logn => InBlock)
  BY DEF DITLoop
<1>2. e # logn
  BY <1>1, MySizes
<1>3. e \in 1 .. logn - 1 /\ e < logn
  BY <1>2 DEF MyTypeOK
<1> QED
  BY <1>1, <1>3

LEMMA MyIInvImpliesInBounds == MyIInv => MyInBounds
<1> SUFFICES ASSUME MyIInv, (myPc = "dif" /\ len >= 2) \/ (myPc = "dit" /\ len <= hn)
             PROVE  /\ half >= 1 /\ start + k + half + hn < n
                    /\ k * step < hn \div 2
  BY DEF MyInBounds
<1>1. MyTypeOK
  BY DEF MyIInv
<1>2. PICK e \in 1 .. logn - 1 : len = Pow2[e] /\ InBlock
  BY DIFStage, DITStage DEF MyIInv, MyLoopInv
<1>3. /\ half \in Nat /\ half >= 1 /\ start + k + half < hn /\ k * step < hn \div 2
  BY <1>1, <1>2, BlockBounds
<1>4. n = 2 * hn /\ hn \in Nat /\ start \in Nat /\ k \in Nat
  BY <1>1, MySizes DEF MyTypeOK
<1> QED
  BY <1>3, <1>4

-----------------------------------------------------------------------------
(* What the loops store are polynomials: residues in every slot.           *)
LEMMA MyPolyFacts ==
  ASSUME NEW f \in Poly(logn), NEW s \in 0 .. hn-1, MyTypeOK
  PROVE  At(f, hn, s) \in Int \X Int
<1>1. s \in 0 .. n-1 /\ s + hn \in 0 .. n-1
  BY MySizes
<1>2. f[s] \in Residue /\ f[s + hn] \in Residue
  BY <1>1 DEF Poly, n
<1> QED
  BY <1>2, PAssumption DEF At, Residue

LEMMA MyStore2Type ==
  ASSUME MyTypeOK, NEW f \in Poly(logn), NEW v \in Complex, NEW z \in Complex,
         NEW p \in Nat, NEW q \in Nat, p < hn, q < hn
  PROVE  Store2(f, p, v, q, z) \in Poly(logn)
<1>1. v[1] \in Residue /\ v[2] \in Residue /\ z[1] \in Residue /\ z[2] \in Residue
  BY DEF Complex
<1> QED
  BY <1>1 DEF Store2, Poly

LEMMA SlotsType ==
  ASSUME MyTypeOK, NEW z \in [0 .. hn-1 -> Complex]
  PROVE  Slots(z) \in Poly(logn)
<1>1. ASSUME NEW x \in 0 .. n-1
      PROVE  (IF x < hn THEN z[x][1] ELSE z[x - hn][2]) \in Residue
  <2>1. CASE x < hn
    <3>1. x \in 0 .. hn-1
      BY <2>1, MySizes
    <3>2. z[x] \in Complex
      BY <3>1
    <3> QED
      BY <2>1, <3>2 DEF Complex
  <2>2. CASE ~(x < hn)
    <3>1. x - hn \in 0 .. hn-1
      BY <2>2, MySizes
    <3>2. z[x - hn] \in Complex
      BY <3>1
    <3> QED
      BY <2>2, <3>2 DEF Complex
  <2> QED
    BY <2>1, <2>2
<1> QED
  BY <1>1 DEF Slots, Poly, n

(* The quotient of two table sizes.                                        *)
LEMMA QuotientType ==
  ASSUME NEW x \in Nat, NEW y \in Nat, y >= 1
  PROVE  x \div y \in Nat
OBVIOUS

(* my_fft_init's tables hold points of the circle.                         *)
LEMMA TablesType ==
  ASSUME MyTypeOK
  PROVE  /\ \A v \in 0 .. hn-1 : tabs[logn].tw[v] \in Complex
         /\ \A v \in 0 .. hn \div 2 - 1 : tabs[logn].w[v] \in Complex
<1>1. Pow2[LogMax] \in Nat /\ logn \in 1 .. LogMax
  BY Pow2Facts, Pow2Assumption DEF MyTypeOK
<1>2. n \in Nat /\ n >= 1 /\ hn \in Nat /\ hn >= 1
  BY MySizes
<1>3. ASSUME NEW x \in Nat, NEW d \in Nat, d >= 1
      PROVE  cos_sin_pi(x, d) \in Complex
  <2>1. Pow2[LogMax] \div d \in Nat
    BY <1>1, <1>3, QuotientType
  <2>2. x * (Pow2[LogMax] \div d) \in Nat
    <3> DEFINE q == Pow2[LogMax] \div d
    <3>1. q \in Nat
      BY <2>1
    <3> HIDE DEF q
    <3>2. x * q \in Nat
      BY <3>1
    <3> QED
      BY <3>2 DEF q
  <2> QED
    BY <2>2, ExpType DEF cos_sin_pi
<1>4. tabs[logn] = [tw |-> [v \in 0 .. hn - 1 |-> cos_sin_pi(v, n)],
                    w  |-> [v \in 0 .. hn \div 2 - 1 |-> cos_sin_pi(2 * v, hn)]]
  BY <1>1 DEF tabs, n, hn
<1>5. \A v \in 0 .. hn-1 : tabs[logn].tw[v] = cos_sin_pi(v, n)
  BY <1>4
<1>6. \A v \in 0 .. hn \div 2 - 1 : tabs[logn].w[v] = cos_sin_pi(2 * v, hn)
  BY <1>4
<1> QED
  BY <1>2, <1>3, <1>5, <1>6

(* The twist, the pointwise product, the untwist with its scaling.         *)
LEMMA ScaleType ==
  ASSUME NEW r \in Int, NEW x \in Int \X Int
  PROVE  Scale(r, x) \in Complex
<1>1. x[1] \in Int /\ x[2] \in Int
  OBVIOUS
<1>2. r * x[1] \in Int /\ r * x[2] \in Int
  BY <1>1
<1>3. \A i \in Int : i % P \in Residue
  BY PAssumption DEF Residue
<1> QED
  BY <1>2, <1>3 DEF Scale, Complex

LEMMA WholeArrayTypes ==
  ASSUME MyTypeOK, NEW f \in Poly(logn), NEW g \in Poly(logn)
  PROVE  /\ Twisted(f) \in Poly(logn)
         /\ Slots([v \in 0 .. hn-1 |-> FPC_MUL(At(f, hn, v), At(g, hn, v))])
              \in Poly(logn)
         /\ Slots([v \in 0 .. hn-1 |->
               Scale(fpr_p2_tab[logn], FPC_MUL(At(f, hn, v), Conj(tabs[logn].tw[v])))])
              \in Poly(logn)
<1>1. ASSUME NEW v \in 0 .. hn-1
      PROVE  /\ FPC_MUL(At(f, hn, v), tabs[logn].tw[v]) \in Complex
             /\ FPC_MUL(At(f, hn, v), At(g, hn, v)) \in Complex
             /\ Scale(fpr_p2_tab[logn], FPC_MUL(At(f, hn, v), Conj(tabs[logn].tw[v])))
                  \in Complex
  <2> DEFINE x == At(f, hn, v)
             y == At(g, hn, v)
             w == tabs[logn].tw[v]
             r == fpr_p2_tab[logn]
  <2>1. x \in Int \X Int /\ y \in Int \X Int
    BY MyPolyFacts
  <2>2. w \in Int \X Int
    BY TablesType, ComplexFacts
  <2>3. r \in Int
    BY P2Recursion DEF MyTypeOK
  <2> HIDE DEF x, y, w, r
  <2>4. FPC_MUL(x, w) \in Complex /\ FPC_MUL(x, y) \in Complex /\ Conj(w) \in Int \X Int
    BY <2>1, <2>2, FPCType
  <2>5. FPC_MUL(x, Conj(w)) \in Complex
    BY <2>1, <2>4, FPCType
  <2>6. Scale(r, FPC_MUL(x, Conj(w))) \in Complex
    BY <2>3, <2>5, ScaleType, ComplexFacts
  <2> QED
    BY <2>4, <2>6 DEF x, y, w, r
<1>2. /\ [v \in 0 .. hn-1 |-> FPC_MUL(At(f, hn, v), tabs[logn].tw[v])]
           \in [0 .. hn-1 -> Complex]
      /\ [v \in 0 .. hn-1 |-> FPC_MUL(At(f, hn, v), At(g, hn, v))]
           \in [0 .. hn-1 -> Complex]
      /\ [v \in 0 .. hn-1 |->
            Scale(fpr_p2_tab[logn], FPC_MUL(At(f, hn, v), Conj(tabs[logn].tw[v])))]
           \in [0 .. hn-1 -> Complex]
  BY <1>1, Zenon
<1> QED
  BY <1>2, SlotsType, Zenon DEF Twisted

(* The butterflies.                                                        *)
LEMMA MyForwardButterflyType ==
  ASSUME MyTypeOK, DIFLoop, len >= 2, NEW f \in Poly(logn)
  PROVE  MyForwardButterfly(f) \in Poly(logn)
<1> DEFINE p == start + k
           q == p + half
           x == At(f, hn, p)
           y == At(f, hn, q)
           w == tabs[logn].w[k * step]
           d == FPC_SUB(x, y)
<1>1. PICK e \in 1 .. logn - 1 : len = Pow2[e] /\ InBlock
  BY DIFStage
<1>2. /\ half \in Nat /\ half >= 1 /\ start + k + half < hn
      /\ k * step \in Nat /\ k * step < hn \div 2
  BY <1>1, BlockBounds
<1>3. /\ p \in Nat /\ q \in Nat /\ p < hn /\ q < hn /\ hn \in Nat
  BY <1>2, MySizes DEF MyTypeOK
<1>4. k * step \in 0 .. hn \div 2 - 1
  <2> DEFINE ks == k * step
  <2>1. ks \in Nat /\ ks < hn \div 2
    BY <1>2
  <2> HIDE DEF ks
  <2>2. ks \in 0 .. hn \div 2 - 1
    BY <1>3, <2>1
  <2> QED
    BY <2>2 DEF ks
<1>5. w \in Int \X Int
  BY <1>4, TablesType, ComplexFacts
<1>6. x \in Int \X Int /\ y \in Int \X Int
  <2>1. p \in 0 .. hn-1 /\ q \in 0 .. hn-1
    BY <1>3
  <2> HIDE DEF p, q
  <2> QED
    BY <2>1, MyPolyFacts
<1>7. FPC_ADD(x, y) \in Complex /\ d \in Complex /\ d \in Int \X Int
  <2> HIDE DEF x, y
  <2> QED  BY <1>6, FPCType, ComplexFacts
<1>8. FPC_MUL(d, w) \in Complex
  <2> HIDE DEF d, w
  <2> QED  BY <1>5, <1>7, FPCType
<1>9. Store2(f, p, FPC_ADD(x, y), q, FPC_MUL(d, w)) \in Poly(logn)
  <2> HIDE DEF p, q, x, y, d, w
  <2> QED  BY <1>3, <1>7, <1>8, MyStore2Type
<1> QED
  BY <1>9, Zenon DEF MyForwardButterfly

LEMMA MyInverseButterflyType ==
  ASSUME MyTypeOK, DITLoop, len <= hn, NEW f \in Poly(logn)
  PROVE  MyInverseButterfly(f) \in Poly(logn)
<1> DEFINE p == start + k
           q == p + half
           x == At(f, hn, p)
           y == At(f, hn, q)
           w == tabs[logn].w[k * step]
           c == FPC_MUL(y, Conj(w))
<1>1. PICK e \in 1 .. logn - 1 : len = Pow2[e] /\ InBlock
  BY DITStage
<1>2. /\ half \in Nat /\ half >= 1 /\ start + k + half < hn
      /\ k * step \in Nat /\ k * step < hn \div 2
  BY <1>1, BlockBounds
<1>3. /\ p \in Nat /\ q \in Nat /\ p < hn /\ q < hn /\ hn \in Nat
  BY <1>2, MySizes DEF MyTypeOK
<1>4. k * step \in 0 .. hn \div 2 - 1
  <2> DEFINE ks == k * step
  <2>1. ks \in Nat /\ ks < hn \div 2
    BY <1>2
  <2> HIDE DEF ks
  <2>2. ks \in 0 .. hn \div 2 - 1
    BY <1>3, <2>1
  <2> QED
    BY <2>2 DEF ks
<1>5. w \in Int \X Int
  BY <1>4, TablesType, ComplexFacts
<1>6. x \in Int \X Int /\ y \in Int \X Int
  <2>1. p \in 0 .. hn-1 /\ q \in 0 .. hn-1
    BY <1>3
  <2> HIDE DEF p, q
  <2> QED
    BY <2>1, MyPolyFacts
<1>7. c \in Complex /\ c \in Int \X Int
  <2> HIDE DEF w, y
  <2>1. Conj(w) \in Int \X Int
    BY <1>5, <1>6, FPCType
  <2> QED
    BY <1>6, <2>1, FPCType, ComplexFacts
<1>8. FPC_ADD(x, c) \in Complex /\ FPC_SUB(x, c) \in Complex
  <2> HIDE DEF x, c
  <2> QED  BY <1>6, <1>7, FPCType
<1>9. Store2(f, p, FPC_ADD(x, c), q, FPC_SUB(x, c)) \in Poly(logn)
  <2> HIDE DEF p, q, x, c
  <2> QED  BY <1>3, <1>8, MyStore2Type
<1> QED
  BY <1>9, Zenon DEF MyInverseButterfly

-----------------------------------------------------------------------------
(* How the loops go on: within a stage, to its next block, or to the next  *)
(* stage, whose first block begins the array.                              *)
LEMMA NextPairKeeps ==
  ASSUME MyTypeOK, InBlock, NEW e \in 1 .. logn - 1, len = Pow2[e],
         NEW nextLen, NextPair(nextLen), logn' = logn
  PROVE  /\ start' \in Nat /\ k' \in Nat
         /\ \/ len' = len /\ InBlock'
            \/ len' = nextLen /\ start' = 0 /\ k' = 0
<1>1. /\ half \in Nat /\ half >= 1 /\ len = 2 * half /\ start + len <= hn
  BY BlockBounds
<1>2. /\ k < half /\ start < hn /\ k \in Nat /\ start \in Nat /\ len \in Nat
      /\ hn \in Nat /\ hn' = hn
  BY MySizes DEF InBlock, MyTypeOK, hn, n
<1>3. PICK i \in Nat : start = i * len
  BY DEF InBlock
<1>4. CASE k + 1 < half /\ k' = k + 1 /\ UNCHANGED <<len, start>>
  <2>1. half' = half
    BY <1>4 DEF half
  <2>2. k' < half' /\ start' < hn' /\ k' \in Nat
    BY <1>2, <1>4, <2>1
  <2>3. start' = i * len'
    BY <1>3, <1>4
  <2> QED
    BY <1>2, <1>4, <2>2, <2>3 DEF InBlock
<1>5. CASE start + len < hn /\ start' = start + len /\ k' = 0 /\ len' = len
  <2>1. half' = half
    BY <1>5 DEF half
  <2>2. k' < half' /\ start' < hn' /\ k' \in Nat /\ start' \in Nat
    BY <1>1, <1>2, <1>5, <2>1
  <2>3. start + len = (i + 1) * len
    BY <1>2, <1>3
  <2>4. start' = (i + 1) * len' /\ i + 1 \in Nat
    BY <1>5, <2>3
  <2> QED
    BY <1>5, <2>2, <2>4 DEF InBlock
<1>6. CASE len' = nextLen /\ start' = 0 /\ k' = 0
  BY <1>6
<1> QED
  BY <1>4, <1>5, <1>6 DEF NextPair

(* The first block of a stage.                                             *)
LEMMA FirstBlock ==
  ASSUME MyTypeOK, logn' = logn, NEW e \in 1 .. logn, len' = Pow2[e],
         start' = 0, k' = 0
  PROVE  InBlock'
<1>1. e \in 1 .. LogMax
  BY Pow2Assumption DEF MyTypeOK
<1>2. Pow2[e] = 2 * Pow2[e - 1] /\ Pow2[e - 1] \in Nat /\ Pow2[e - 1] >= 1
  <2>1. e - 1 \in 0 .. LogMax
    BY <1>1, Pow2Assumption
  <2> QED
    BY <1>1, <2>1, Pow2Facts
<1>3. half' >= 1 /\ half' \in Nat
  <2>1. half' = len' \div 2
    BY DEF half
  <2> QED
    BY <1>2, <2>1
<1>4. hn' = hn
  BY DEF hn, n
<1>5. 0 = 0 * len'
  BY <1>2
<1> QED
  BY <1>3, <1>4, <1>5, MySizes DEF InBlock

LEMMA DIFNextKeeps ==
  ASSUME MyTypeOK, DIFLoop, len >= 2, NextPair(len \div 2), logn' = logn
  PROVE  DIFLoop' /\ len' \in Nat /\ start' \in Nat /\ k' \in Nat
<1>1. PICK e \in 1 .. logn - 1 : len = Pow2[e] /\ InBlock
  BY DIFStage
<1>2. /\ start' \in Nat /\ k' \in Nat
      /\ \/ len' = len /\ InBlock'
         \/ len' = len \div 2 /\ start' = 0 /\ k' = 0
  BY <1>1, NextPairKeeps
<1>3. /\ len \div 2 = Pow2[e - 1] /\ len \div 2 \in Nat
  BY <1>1, Stage DEF half
<1>4. /\ e \in 0 .. logn - 1 /\ e - 1 \in 0 .. logn - 1
      /\ e - 1 >= 1 => e - 1 \in 1 .. logn
  BY DEF MyTypeOK
<1>5. CASE len' = len /\ InBlock'
  BY <1>1, <1>2, <1>4, <1>5 DEF DIFLoop, MyTypeOK
<1>6. CASE len' = len \div 2 /\ start' = 0 /\ k' = 0
  <2>1. len' = Pow2[e - 1]
    BY <1>3, <1>6
  <2>2. e - 1 >= 1 => InBlock'
    BY <1>4, <1>6, <2>1, FirstBlock
  <2>3. DIFLoop'
    BY <1>4, <2>1, <2>2 DEF DIFLoop
  <2> QED
    BY <1>2, <1>3, <1>6, <2>3
<1> QED
  BY <1>2, <1>5, <1>6

LEMMA DITNextKeeps ==
  ASSUME MyTypeOK, DITLoop, len <= hn, NextPair(len * 2), logn' = logn
  PROVE  DITLoop' /\ len' \in Nat /\ start' \in Nat /\ k' \in Nat
<1>1. PICK e \in 1 .. logn - 1 : len = Pow2[e] /\ InBlock
  BY DITStage
<1>2. /\ start' \in Nat /\ k' \in Nat
      /\ \/ len' = len /\ InBlock'
         \/ len' = len * 2 /\ start' = 0 /\ k' = 0
  BY <1>1, NextPairKeeps
<1>3. /\ e + 1 \in 1 .. logn /\ e \in 1 .. logn
  BY DEF MyTypeOK
<1>4. len * 2 = Pow2[e + 1] /\ len * 2 \in Nat
  <2>1. e + 1 \in 1 .. LogMax /\ (e + 1) - 1 = e
    BY <1>3, Pow2Assumption DEF MyTypeOK
  <2>2. Pow2[e + 1] = 2 * Pow2[(e + 1) - 1]
    BY <2>1, Pow2Facts
  <2> QED
    BY <1>1, <2>1, <2>2 DEF MyTypeOK
<1>5. CASE len' = len /\ InBlock'
  BY <1>1, <1>2, <1>3, <1>5 DEF DITLoop, MyTypeOK
<1>6. CASE len' = len * 2 /\ start' = 0 /\ k' = 0
  <2>1. len' = Pow2[e + 1]
    BY <1>4, <1>6
  <2>2. InBlock'
    BY <1>3, <1>6, <2>1, FirstBlock
  <2>3. DITLoop'
    BY <1>3, <2>1, <2>2 DEF DITLoop
  <2> QED
    BY <1>2, <1>4, <1>6, <2>3
<1> QED
  BY <1>2, <1>5, <1>6

-----------------------------------------------------------------------------
LEMMA MyInitIInv == MyInit => MyIInv
<1> SUFFICES ASSUME MyInit PROVE MyIInv
  OBVIOUS
<1>1. a \in Poly(logn) /\ b \in Poly(logn)
  BY OperandsAssumption DEF MyInit
<1> QED
  BY <1>1 DEF MyInit, MyIInv, MyTypeOK, MyLoopInv

LEMMA MyNextIInv == MyIInv /\ [MyNext]_myVars => MyIInv'
<1> SUFFICES ASSUME MyIInv, [MyNext]_myVars PROVE MyIInv'
  OBVIOUS
<1> USE DEF MyIInv
<1>1. CASE MyConvert
  BY <1>1 DEF MyConvert, myCounters, MyTypeOK, MyLoopInv
<1>2. CASE TwistStep
  <2>1. /\ logn' = logn /\ a' = a /\ b' = b /\ myArr' = myArr /\ myPc' = "dif"
        /\ len' = hn /\ start' = 0 /\ k' = 0
    BY <1>2 DEF TwistStep
  <2>2. mine' \in Poly(logn) /\ tmp' \in Poly(logn)
    BY <1>2, WholeArrayTypes DEF TwistStep, MyTypeOK
  <2>3. len' = Pow2[logn - 1] /\ logn - 1 \in 0 .. logn - 1 /\ len' \in Nat
    BY <2>1, MySizes DEF MyTypeOK
  <2>4. logn - 1 >= 1 => logn - 1 \in 1 .. logn
    BY DEF MyTypeOK
  <2>5. logn - 1 >= 1 => InBlock'
    BY <2>1, <2>3, <2>4, FirstBlock
  <2>6. DIFLoop'
    BY <2>1, <2>3, <2>5 DEF DIFLoop
  <2> QED
    BY <2>1, <2>2, <2>3, <2>6 DEF MyTypeOK, MyLoopInv
<1>3. CASE DIFStep
  <2>1. /\ myPc = "dif" /\ len >= 2 /\ DIFLoop /\ NextPair(len \div 2)
        /\ logn' = logn /\ a' = a /\ b' = b /\ myArr' = myArr /\ myPc' = myPc
    BY <1>3 DEF DIFStep, MyLoopInv
  <2>2. mine' \in Poly(logn) /\ tmp' \in Poly(logn)
    BY <1>3, <2>1, MyForwardButterflyType DEF DIFStep, MyTypeOK
  <2>3. DIFLoop' /\ len' \in Nat /\ start' \in Nat /\ k' \in Nat
    BY <2>1, DIFNextKeeps
  <2> QED
    BY <2>1, <2>2, <2>3 DEF MyTypeOK, MyLoopInv
<1>4. CASE DIFReturn
  BY <1>4 DEF DIFReturn, myCounters, MyTypeOK, MyLoopInv
<1>5. CASE MyPolyMulFFT
  <2>1. /\ logn' = logn /\ a' = a /\ b' = b /\ tmp' = tmp /\ myArr' = "out" /\ myPc' = "dit"
        /\ len' = 2 /\ start' = 0 /\ k' = 0
    BY <1>5 DEF MyPolyMulFFT
  <2>2. mine' \in Poly(logn)
    BY <1>5, WholeArrayTypes DEF MyPolyMulFFT, MyTypeOK
  <2>3. len' = Pow2[1] /\ 1 \in 1 .. logn
    BY <2>1, MySizes DEF MyTypeOK
  <2>4. InBlock'
    BY <2>1, <2>3, FirstBlock
  <2>5. DITLoop'
    BY <2>1, <2>3, <2>4 DEF DITLoop
  <2> QED
    BY <2>1, <2>2, <2>5 DEF MyTypeOK, MyLoopInv
<1>6. CASE DITStep
  <2>1. /\ myPc = "dit" /\ len <= hn /\ DITLoop /\ NextPair(len * 2)
        /\ logn' = logn /\ a' = a /\ b' = b /\ tmp' = tmp /\ myArr' = myArr /\ myPc' = myPc
    BY <1>6 DEF DITStep, MyLoopInv
  <2>2. mine' \in Poly(logn)
    BY <1>6, <2>1, MyInverseButterflyType DEF DITStep, MyTypeOK
  <2>3. DITLoop' /\ len' \in Nat /\ start' \in Nat /\ k' \in Nat
    BY <2>1, DITNextKeeps
  <2> QED
    BY <2>1, <2>2, <2>3 DEF MyTypeOK, MyLoopInv
<1>7. CASE Untwist
  <2>1. mine' \in Poly(logn)
    BY <1>7, WholeArrayTypes DEF Untwist, MyTypeOK
  <2> QED
    BY <1>7, <2>1 DEF Untwist, myCounters, MyTypeOK, MyLoopInv
<1>8. CASE UNCHANGED myVars
  BY <1>8 DEF myVars, myCounters, MyTypeOK, MyLoopInv, DIFLoop, DITLoop, InBlock,
              n, hn, half
<1> QED
  BY <1>1, <1>2, <1>3, <1>4, <1>5, <1>6, <1>7, <1>8 DEF MyNext

(***************************************************************************)
(* The state of a multiplication by myfft.c always has its types: the      *)
(* arrays keep n residues each whatever the transforms store in them.      *)
(***************************************************************************)
THEOREM MyTypeCorrect == MySpec => []MyTypeOK
<1>1. MyInit => MyIInv
  BY MyInitIInv
<1>2. MyIInv => MyTypeOK
  BY DEF MyIInv
<1> QED
  BY <1>1, <1>2, MyNextIInv, PTL DEF MySpec

(***************************************************************************)
(* my_FFT and my_iFFT never leave the array of n doubles, nor the hn/2     *)
(* entries of w they stride through, for every logn that is supported.     *)
(***************************************************************************)
THEOREM MyMemorySafety == MySpec => []MyInBounds
<1>1. MyInit => MyIInv
  BY MyInitIInv
<1> QED
  BY <1>1, MyNextIInv, MyIInvImpliesInBounds, PTL DEF MySpec

-----------------------------------------------------------------------------
(***************************************************************************)
(* The values of the arrays.  While my_FFT or my_iFFT works on an array,   *)
(* the slots of the stage that are done are those before the current block *)
(* and the first k of each of its halves; they hold twisted coefficients   *)
(* of the next stage, the others of this one (TwistedForward,              *)
(* TwistedBackward).  What is transformed stays as it is while the other   *)
(* operand is, and tmp keeps its conversion until its turn comes.          *)
(***************************************************************************)
(* The slots the stage has done, in my_FFT and in my_iFFT.                 *)
MyForwardDone == IF len >= 2 THEN Done(start, start + k, half) ELSE {}

MyInverseDone == IF len <= hn THEN Done(start, start + k, half) ELSE {}

(* my_FFT has begun with the coefficients of x and is at work on f.        *)
Transforming(f, x) ==
  \E v \in 1 .. logn : len = Pow2[logn - v] /\ TwistedForward(f, x, logn, v, MyForwardDone)

(* my_iFFT has begun with the values of x and is at work on f.             *)
Restoring(f, x) ==
  \E v \in 0 .. logn - 1 :
    len = Pow2[logn - v] /\ TwistedBackward(f, x, logn, v, MyInverseDone)

(* The strengthening of ForwardInv, FFTLayout and InverseInv that every    *)
(* step keeps, with what the multiplication leaves at the end.             *)
MyValueInv ==
  /\ myPc = "twist" /\ myArr = "out" => mine = a /\ tmp = b
  /\ myPc = "twist" /\ myArr = "tmp" => Transformed(mine, a) /\ tmp = b
  /\ myPc = "dif" /\ myArr = "out" => Transforming(mine, a) /\ tmp = b
  /\ myPc = "dif" /\ myArr = "tmp" => Transformed(mine, a) /\ Transforming(tmp, b)
  /\ myPc = "my_poly_mul_fft" => Transformed(mine, a) /\ Transformed(tmp, b)
  /\ myPc = "dit" => Restoring(mine, SchoolbookMul(a, b, logn))
  /\ myPc = "done" => mine = SchoolbookMul(a, b, logn)

(* Store2 changes the two slots it names, and no other.                    *)
LEMMA MyStore2Stores ==
  ASSUME MyTypeOK, NEW f \in Poly(logn), NEW v \in Complex, NEW w \in Complex,
         NEW p \in Nat, NEW q \in Nat, p < q, q < hn
  PROVE  Stores(Store2(f, p, v, q, w), f, logn, p, v, q, w)
<1> DEFINE g == Store2(f, p, v, q, w)
<1>0. hn \in Nat /\ n = 2 * hn /\ hn = Pow2[logn - 1] /\ n = Pow2[logn]
  BY MySizes
<1>1. v = <<v[1], v[2]>> /\ w = <<w[1], w[2]>>
  BY DEF Complex
<1>2. f \in [0 .. 2 * hn - 1 -> Residue]
  BY <1>0 DEF Poly
<1>3. /\ p \in 0 .. 2 * hn - 1 /\ p + hn \in 0 .. 2 * hn - 1
      /\ q \in 0 .. 2 * hn - 1 /\ q + hn \in 0 .. 2 * hn - 1
      /\ p # p + hn /\ p # q /\ p # q + hn /\ q # p + hn /\ q # q + hn /\ p + hn # q + hn
  BY <1>0
<1>4. /\ g[p] = v[1] /\ g[p + hn] = v[2] /\ g[q] = w[1] /\ g[q + hn] = w[2]
      /\ \A idx \in 0 .. 2 * hn - 1 :
           idx # p /\ idx # p + hn /\ idx # q /\ idx # q + hn => g[idx] = f[idx]
  BY <1>2, <1>3 DEF Store2
<1> HIDE DEF g
<1>5. ASSUME NEW s \in 0 .. hn - 1, s # p, s # q
      PROVE  At(g, hn, s) = At(f, hn, s)
  <2>1. /\ s \in 0 .. 2 * hn - 1 /\ s + hn \in 0 .. 2 * hn - 1
        /\ s # p + hn /\ s # q + hn /\ s + hn # p /\ s + hn # q /\ s + hn # p + hn /\ s + hn # q + hn
    BY <1>0, <1>5
  <2>2. g[s] = f[s] /\ g[s + hn] = f[s + hn]
    BY <1>4, <1>5, <2>1
  <2> QED
    BY <2>2 DEF At
<1>6. At(g, hn, p) = v /\ At(g, hn, q) = w
  BY <1>1, <1>4 DEF At
<1> QED
  BY <1>0, <1>5, <1>6, Zenon DEF Stores, g

(* Slots puts z[s] in slot s.                                              *)
LEMMA SlotsAt ==
  ASSUME MyTypeOK, NEW z \in [0 .. hn-1 -> Complex], NEW s \in 0 .. hn-1
  PROVE  At(Slots(z), hn, s) = z[s]
<1>0. n = 2 * hn /\ hn \in Nat /\ s \in Nat
  BY MySizes
<1>1. /\ s \in 0 .. n-1 /\ s + hn \in 0 .. n-1 /\ s < hn /\ ~ (s + hn < hn) /\ (s + hn) - hn = s
  BY <1>0
<1>2. Slots(z)[s] = z[s][1] /\ Slots(z)[s + hn] = z[s][2]
  BY <1>1 DEF Slots
<1>3. z[s] = <<z[s][1], z[s][2]>>
  BY DEF Complex
<1> QED
  BY <1>2, <1>3, Zenon DEF At

(* The table tw holds the powers of zeta.                                  *)
LEMMA TwistTable ==
  ASSUME MyTypeOK, NEW s \in 0 .. hn-1
  PROVE  tabs[logn].tw[s] = Zeta(logn, s)
<1>0. /\ logn \in 1 .. LogMax /\ LogMax \in 0 .. LogMax /\ logn \in 0 .. LogMax
      /\ LogMax - logn \in 0 .. LogMax
  BY Pow2Assumption DEF MyTypeOK
<1>1. Pow2[LogMax] = Pow2[LogMax - logn] * Pow2[logn]
  BY <1>0, Pow2Product
<1>2. Pow2[LogMax - logn] \in Nat /\ Pow2[logn] \in Nat /\ Pow2[logn] >= 1
  BY <1>0, Pow2Facts
<1>3. Pow2[LogMax] \div n = Pow2[LogMax - logn]
  BY <1>1, <1>2, Quotient, MySizes
<1>4. tabs[logn] = [tw |-> [v \in 0 .. hn - 1 |-> cos_sin_pi(v, n)],
                    w  |-> [v \in 0 .. hn \div 2 - 1 |-> cos_sin_pi(2 * v, hn)]]
  BY <1>0 DEF tabs, n, hn
<1>5. tabs[logn].tw[s] = cos_sin_pi(s, n)
  BY <1>4
<1> QED
  BY <1>3, <1>5, Zenon DEF cos_sin_pi, Zeta

(* The table w, read with the stride of a stage, holds its butterflies'    *)
(* twiddles.                                                               *)
LEMMA StrideTable ==
  ASSUME MyTypeOK, NEW v \in 1 .. logn - 1, len = Pow2[logn - v],
         k * step \in Nat, k * step < hn \div 2
  PROVE  tabs[logn].w[k * step] = Exp(k * (Pow2[v + 1] * Pow2[LogMax - logn]))
<1> DEFINE q == Pow2[LogMax - logn]
           r == Pow2[v - 1]
           idx == k * step
<1>0. /\ logn \in 1 .. LogMax /\ LogMax \in 0 .. LogMax /\ logn - 1 \in 0 .. LogMax
      /\ LogMax - logn \in 0 .. LogMax /\ LogMax - (logn - 1) \in 1 .. LogMax
      /\ (LogMax - (logn - 1)) - 1 = LogMax - logn
      /\ v + 1 \in 1 .. LogMax /\ (v + 1) - 1 = v /\ v \in 1 .. LogMax /\ v - 1 \in 0 .. LogMax
      /\ logn - v \in 1 .. logn - 1 /\ logn - 1 - (logn - v) = v - 1
      /\ v \in 0 .. LogMax /\ k \in Nat
  BY Pow2Assumption DEF MyTypeOK
<1>1. step = r
  <2>1. step = Pow2[logn - 1 - (logn - v)]
    BY <1>0, Stage
  <2> QED
    BY <1>0, <2>1
<1>2. q \in Nat /\ r \in Nat
  BY <1>0, Pow2Facts
<1>3. Pow2[LogMax] = (2 * q) * Pow2[logn - 1]
  <2>1. Pow2[LogMax] = Pow2[LogMax - (logn - 1)] * Pow2[logn - 1]
    BY <1>0, Pow2Product
  <2>2. Pow2[LogMax - (logn - 1)] = 2 * Pow2[(LogMax - (logn - 1)) - 1]
    BY <1>0, Pow2Facts
  <2> QED
    BY <1>0, <2>1, <2>2
<1>4. Pow2[LogMax] \div hn = 2 * q
  <2>1. Pow2[logn - 1] \in Nat /\ Pow2[logn - 1] >= 1 /\ hn = Pow2[logn - 1]
    BY MySizes
  <2>2. 2 * q \in Nat
    BY <1>2
  <2> HIDE DEF q
  <2> QED
    BY <1>3, <2>1, <2>2, Quotient
<1>5. Pow2[v + 1] = 2 * (2 * r)
  <2>1. Pow2[v + 1] = 2 * Pow2[(v + 1) - 1] /\ Pow2[v] = 2 * Pow2[v - 1]
    BY <1>0, Pow2Facts
  <2> QED
    BY <1>0, <2>1
<1>6. tabs[logn] = [tw |-> [ex \in 0 .. hn - 1 |-> cos_sin_pi(ex, n)],
                    w  |-> [ex \in 0 .. hn \div 2 - 1 |-> cos_sin_pi(2 * ex, hn)]]
  BY <1>0 DEF tabs, n, hn
<1>7. idx \in 0 .. hn \div 2 - 1
  <2>1. hn \in Nat /\ idx \in Nat /\ idx < hn \div 2
    BY MySizes
  <2> HIDE DEF idx
  <2> QED
    BY <2>1
<1>8. tabs[logn].w[idx] = cos_sin_pi(2 * idx, hn)
  <2> HIDE DEF idx
  <2> QED  BY <1>6, <1>7
<1>9. (2 * idx) * (2 * q) = k * ((2 * (2 * r)) * q)
  <2>1. idx = k * r
    BY <1>1
  <2> HIDE DEF q, r, idx
  <2> QED
    BY <1>0, <1>2, <2>1
<1> QED
  BY <1>4, <1>5, <1>8, <1>9, Zenon DEF cos_sin_pi

(* Where the counters stand inside a stage.                                *)
LEMMA Place ==
  ASSUME MyTypeOK, InBlock, NEW v \in 1 .. logn - 1, len = Pow2[logn - v]
  PROVE  /\ logn \in 1 .. LogMax /\ v \in 0 .. logn - 1 /\ v \in Nat
         /\ half = Pow2[logn - (v + 1)] /\ half \in Nat /\ half >= 1 /\ len = 2 * half
         /\ k \in 0 .. Pow2[logn - (v + 1)] - 1 /\ start \in Nat
         /\ \E i \in Nat : start = i * (2 * half)
         /\ start <= start + k /\ start + k < start + half /\ start + len <= hn
         /\ start + k \in 0 .. hn-1 /\ (start + k) + half \in 0 .. hn-1
         /\ hn = Pow2[logn - 1] /\ hn \in Nat
         /\ tabs[logn].w[k * step] = Exp(k * (Pow2[v + 1] * Pow2[LogMax - logn]))
<1>0. /\ logn \in 1 .. LogMax /\ logn - v \in 1 .. logn - 1
      /\ v \in 0 .. logn - 1 /\ v \in Nat
      /\ (logn - v) - 1 = logn - (v + 1)
  BY Pow2Assumption DEF MyTypeOK
<1>1. half = Pow2[(logn - v) - 1] /\ half \in Nat /\ half >= 1 /\ len = 2 * half
  BY <1>0, Stage
<1>2. /\ start + len <= hn /\ start + k + half < hn
      /\ k * step < hn \div 2 /\ k * step \in Nat
  BY <1>0, BlockBounds
<1>3. k < half /\ k \in Nat /\ start \in Nat
  BY DEF InBlock, MyTypeOK
<1>4. \E i \in Nat : start = i * (2 * half)
  BY <1>1, Zenon DEF InBlock
<1>5. hn = Pow2[logn - 1] /\ hn \in Nat
  BY MySizes
<1>6. half = Pow2[logn - (v + 1)]
  BY <1>0, <1>1, Zenon
<1>7. k \in 0 .. half - 1
  BY <1>1, <1>3
<1>8. /\ start + k \in 0 .. hn-1 /\ (start + k) + half \in 0 .. hn-1
      /\ start <= start + k /\ start + k < start + half
  BY <1>1, <1>2, <1>3, <1>5
<1>9. k \in 0 .. Pow2[logn - (v + 1)] - 1
  BY <1>6, <1>7
<1>10. tabs[logn].w[k * step] = Exp(k * (Pow2[v + 1] * Pow2[LogMax - logn]))
  BY <1>2, StrideTable
<1> QED
  BY <1>0, <1>1, <1>2, <1>3, <1>4, <1>5, <1>6, <1>8, <1>9, <1>10

(* The butterfly's own slots are not done.                                 *)
LEMMA OwnSlots ==
  ASSUME MyTypeOK, InBlock, NEW v \in 1 .. logn - 1, len = Pow2[logn - v]
  PROVE  /\ start + k \notin Done(start, start + k, half)
         /\ (start + k) + half \notin Done(start, start + k, half)
         /\ k + 1 < half =>
              Done(start, (start + k) + 1, half)
                = Done(start, start + k, half) \cup {start + k, (start + k) + half}
         /\ ~ (k + 1 < half) =>
              Done(start, start + k, half) \cup {start + k, (start + k) + half}
                = {s \in Nat : s < start + len}
         /\ \A s \in 0 .. hn-1 : s \in Done(start, start + k, half) <=> MyTouched(s)
<1>1. PICK i \in Nat : start = i * (2 * half)
  BY Place, Zenon
<1> DEFINE q == start + k
           h == half
           p == start
<1>2. /\ h \in Nat /\ h >= 1 /\ p \in Nat /\ q \in Nat /\ p <= q /\ q < p + h
      /\ len = 2 * h /\ k \in Nat /\ q - p = k /\ hn \in Nat /\ p = i * (2 * h)
  BY <1>1, Place DEF MyTypeOK
<1>3. q + 1 < p + h <=> k + 1 < half
  BY <1>2
<1>4. ASSUME NEW s \in Nat, ~ (s < p)
      PROVE  (s - p) % h = s % h
  <2>1. /\ s - p \in Int /\ (s - p) % h \in 0 .. h - 1 /\ s - p = h * ((s - p) \div h) + ((s - p) % h)
    BY <1>2, <1>4, DivMod
  <2> DEFINE lv == (s - p) \div h
             r == (s - p) % h
  <2>2. lv \in Int /\ r \in 0 .. h - 1 /\ s - p = h * lv + r
    BY <1>2, <2>1
  <2> HIDE DEF lv, r, h, p
  <2>3. s = (2 * i + lv) * h + r
    <3>1. s = (i * (2 * h) + h * lv) + r
      BY <1>2, <2>2
    <3>2. (2 * i + lv) * h = i * (2 * h) + h * lv
      BY <1>2, <2>2
    <3> QED
      BY <3>1, <3>2
  <2>4. 2 * i + lv \in Int
    BY <2>2
  <2> DEFINE z == 2 * i + lv
  <2> HIDE DEF z
  <2>5. (z * h + r) % h = r
    BY <1>2, <2>2, <2>4, DivModUnique DEF z
  <2>6. s % h = r
    BY <2>3, <2>5 DEF z
  <2> QED
    BY <2>6 DEF r
<1> HIDE DEF q, h, p
<1>5. /\ \A s \in Nat : s \in Done(p, q, h) <=> (s < p \/ (s < p + 2 * h /\ s % h < q - p))
      /\ q \notin Done(p, q, h) /\ q + h \notin Done(p, q, h)
      /\ q + 1 < p + h => Done(p, q + 1, h) = Done(p, q, h) \cup {q, q + h}
      /\ ~ (q + 1 < p + h) =>
           Done(p, q, h) \cup {q, q + h} = {s \in Nat : s < p + 2 * h}
  BY <1>2, DoneSlots
<1>6. ASSUME NEW s \in 0 .. hn-1
      PROVE  s \in Done(p, q, h) <=> MyTouched(s)
  <2>1. s \in Nat
    BY <1>2
  <2>2. ~ (s < p) => (s - p) % h = s % h
    BY <1>4, <2>1
  <2>3. s \in Done(p, q, h) <=> (s < p \/ (s < p + len /\ s % h < k))
    BY <1>2, <1>5, <2>1
  <2>4. MyTouched(s) <=> (s < p \/ (s < p + len /\ (s - p) % h < k))
    BY DEF MyTouched, p, h
  <2> QED
    BY <2>2, <2>3, <2>4, Zenon
<1>7. q \notin Done(p, q, h) /\ q + h \notin Done(p, q, h)
  BY <1>5
<1>8. k + 1 < half => Done(p, q + 1, h) = Done(p, q, h) \cup {q, q + h}
  BY <1>3, <1>5
<1>9. ~ (k + 1 < half) => Done(p, q, h) \cup {q, q + h} = {s \in Nat : s < p + len}
  BY <1>2, <1>3, <1>5
<1> QED
  BY <1>6, <1>7, <1>8, <1>9 DEF p, q, h

(* A butterfly of my_FFT brings its two slots to the next stage.           *)
LEMMA MyForwardButterflyValue ==
  ASSUME MyTypeOK, InBlock, NEW v \in 1 .. logn - 1, len = Pow2[logn - v],
         NEW f \in Poly(logn), NEW x \in Poly(logn), NEW D,
         TwistedForward(f, x, logn, v, D), D = Done(start, start + k, half)
  PROVE  TwistedForward(MyForwardButterfly(f), x, logn, v,
                        D \cup {start + k, (start + k) + half})
<1> DEFINE g == MyForwardButterfly(f)
           p == start + k
           q == p + half
           X == At(f, hn, p)
           Y == At(f, hn, q)
           w == tabs[logn].w[k * step]
           V == FPC_ADD(X, Y)
           W == FPC_MUL(FPC_SUB(X, Y), w)
           l == logn
           d == k
<1>0. /\ l \in 1 .. LogMax /\ v \in 0 .. l - 1 /\ v \in Nat
      /\ half = Pow2[l - (v + 1)] /\ half \in Nat /\ half >= 1
      /\ d \in 0 .. Pow2[l - (v + 1)] - 1
      /\ p \in 0 .. hn-1 /\ q \in 0 .. hn-1 /\ hn = Pow2[l - 1] /\ hn \in Nat
      /\ w = Exp(d * (Pow2[v + 1] * Pow2[LogMax - l]))
  BY Place, Zenon
<1>1. PICK i \in Nat : start = i * (2 * half)
  BY Place, Zenon
<1>2. p \notin D /\ q \notin D
  BY OwnSlots
<1>3. V \in Complex /\ W \in Complex
  <2>1. X \in Pair /\ Y \in Pair
    <3> HIDE DEF p, q
    <3> QED  BY <1>0, MyPolyFacts DEF Pair
  <2>2. w \in Pair
    <3>1. d * (Pow2[v + 1] * Pow2[LogMax - l]) \in Nat
      <4> DEFINE c == Pow2[v + 1] * Pow2[LogMax - l]
      <4>1. c \in Nat
        BY <1>0, PointFacts
      <4>2. d \in Nat
        BY DEF MyTypeOK
      <4> HIDE DEF c, d
      <4> QED
        BY <4>1, <4>2 DEF c
    <3> QED
      BY <1>0, <3>1, ExpSpecial
  <2> HIDE DEF X, Y, w
  <2>3. V \in Complex /\ FPC_SUB(X, Y) \in Pair
    BY <2>1, Closed
  <2> DEFINE U == FPC_SUB(X, Y)
  <2>4. U \in Pair
    BY <2>3
  <2> HIDE DEF U
  <2>5. FPC_MUL(U, w) \in Complex
    BY <2>2, <2>4, Closed
  <2> QED
    BY <2>3, <2>5 DEF U
<1>4. Stores(g, f, l, p, V, q, W)
  <2>1. p \in Nat /\ q \in Nat /\ p < q /\ q < hn
    BY <1>0
  <2>2. g = Store2(f, p, V, q, W)
    BY Zenon DEF MyForwardButterfly
  <2> HIDE DEF V, W, g, p, q
  <2>3. Stores(Store2(f, p, V, q, W), f, logn, p, V, q, W)
    BY <1>3, <2>1, MyStore2Stores
  <2> QED
    BY <2>2, <2>3
<1>5. p = i * (2 * Pow2[l - (v + 1)]) + d /\ q = p + Pow2[l - (v + 1)]
  BY <1>0, <1>1, Zenon
<1>6. p \in 0 .. Pow2[l - 1] - 1 /\ q \in 0 .. Pow2[l - 1] - 1 /\ x \in Poly(l)
      /\ TwistedForward(f, x, l, v, D)
  BY <1>0, Zenon
<1>7. X = At(f, Pow2[l - 1], p) /\ Y = At(f, Pow2[l - 1], q)
  BY <1>0, Zenon
<1> HIDE DEF g, p, q, w, l, d
<1>8. LET XX == At(f, Pow2[l - 1], p)
          YY == At(f, Pow2[l - 1], q)
      IN  Stores(g, f, l, p, FPC_ADD(XX, YY), q, FPC_MUL(FPC_SUB(XX, YY), w))
  BY <1>4, <1>7, Zenon
<1>9. TwistedForward(g, x, l, v, D \cup {p, q})
  BY <1>0, <1>2, <1>5, <1>6, <1>8, TwistedForwardStep
<1> QED
  BY <1>9 DEF g, p, q, l

(* A butterfly of my_iFFT takes its two slots back a stage, and doubles.   *)
LEMMA MyInverseButterflyValue ==
  ASSUME MyTypeOK, InBlock, NEW v \in 1 .. logn - 1, len = Pow2[logn - v],
         NEW f \in Poly(logn), NEW x \in Poly(logn), NEW D,
         TwistedBackward(f, x, logn, v, D), D = Done(start, start + k, half)
  PROVE  TwistedBackward(MyInverseButterfly(f), x, logn, v,
                         D \cup {start + k, (start + k) + half})
<1> DEFINE g == MyInverseButterfly(f)
           p == start + k
           q == p + half
           X == At(f, hn, p)
           Y == At(f, hn, q)
           w == tabs[logn].w[k * step]
           c == FPC_MUL(Y, Conj(w))
           V == FPC_ADD(X, c)
           W == FPC_SUB(X, c)
           l == logn
           d == k
<1>0. /\ l \in 1 .. LogMax /\ v \in 0 .. l - 1 /\ v \in Nat
      /\ half = Pow2[l - (v + 1)] /\ half \in Nat /\ half >= 1
      /\ d \in 0 .. Pow2[l - (v + 1)] - 1
      /\ p \in 0 .. hn-1 /\ q \in 0 .. hn-1 /\ hn = Pow2[l - 1] /\ hn \in Nat
      /\ w = Exp(d * (Pow2[v + 1] * Pow2[LogMax - l]))
  BY Place, Zenon
<1>1. PICK i \in Nat : start = i * (2 * half)
  BY Place, Zenon
<1>2. p \notin D /\ q \notin D
  BY OwnSlots
<1>3. V \in Complex /\ W \in Complex
  <2>1. X \in Pair /\ Y \in Pair
    <3> HIDE DEF p, q
    <3> QED  BY <1>0, MyPolyFacts DEF Pair
  <2>2. w \in Complex
    <3>1. d * (Pow2[v + 1] * Pow2[LogMax - l]) \in Nat
      <4> DEFINE ex == Pow2[v + 1] * Pow2[LogMax - l]
      <4>1. ex \in Nat
        BY <1>0, PointFacts
      <4>2. d \in Nat
        BY DEF MyTypeOK
      <4> HIDE DEF ex, d
      <4> QED
        BY <4>1, <4>2 DEF ex
    <3> QED
      BY <1>0, <3>1, ExpSpecial
  <2> HIDE DEF X, Y, w
  <2> DEFINE lv == Conj(w)
  <2>3. lv \in Complex
    BY <2>2, ConjMul
  <2>4. lv \in Pair
    <3> HIDE DEF lv
    <3> QED  BY <2>3, Closed
  <2> HIDE DEF lv
  <2>5. FPC_MUL(Y, lv) \in Pair
    BY <2>1, <2>4, Closed
  <2>6. c \in Pair
    BY <2>5 DEF lv
  <2> HIDE DEF c
  <2> QED
    BY <2>1, <2>6, Closed
<1>4. Stores(g, f, l, p, V, q, W)
  <2>1. p \in Nat /\ q \in Nat /\ p < q /\ q < hn
    BY <1>0
  <2>2. g = Store2(f, p, V, q, W)
    BY Zenon DEF MyInverseButterfly
  <2> HIDE DEF V, W, g, p, q
  <2>3. Stores(Store2(f, p, V, q, W), f, logn, p, V, q, W)
    BY <1>3, <2>1, MyStore2Stores
  <2> QED
    BY <2>2, <2>3
<1>5. p = i * (2 * Pow2[l - (v + 1)]) + d /\ q = p + Pow2[l - (v + 1)]
  BY <1>0, <1>1, Zenon
<1>6. p \in 0 .. Pow2[l - 1] - 1 /\ q \in 0 .. Pow2[l - 1] - 1 /\ x \in Poly(l)
      /\ TwistedBackward(f, x, l, v, D)
  BY <1>0, Zenon
<1>7. X = At(f, Pow2[l - 1], p) /\ Y = At(f, Pow2[l - 1], q)
  BY <1>0, Zenon
<1> HIDE DEF g, p, q, w, l, d
<1>8. LET XX == At(f, Pow2[l - 1], p)
          cc == FPC_MUL(At(f, Pow2[l - 1], q), Conj(w))
      IN  Stores(g, f, l, p, FPC_ADD(XX, cc), q, FPC_SUB(XX, cc))
  BY <1>4, <1>7, Zenon
<1>9. TwistedBackward(g, x, l, v, D \cup {p, q})
  BY <1>0, <1>2, <1>5, <1>6, <1>8, TwistedBackwardStep
<1> QED
  BY <1>9 DEF g, p, q, l

(* The loops of either transform do the slots of a stage one after the     *)
(* other, all of them, and then go on to the next stage.                   *)
LEMMA PairsMove ==
  ASSUME MyTypeOK, InBlock, NEW v \in 1 .. logn - 1, len = Pow2[logn - v],
         NEW nextLen, NextPair(nextLen), logn' = logn
  PROVE  LET D == Done(start, start + k, half) \cup {start + k, (start + k) + half}
         IN  \/ len' = len /\ Done(start', start' + k', half') = D
             \/ /\ len' = nextLen /\ start' = 0 /\ k' = 0
                /\ 0 .. Pow2[logn - 1] - 1 \subseteq D
<1> DEFINE D == Done(start, start + k, half) \cup {start + k, (start + k) + half}
<1>0. /\ half \in Nat /\ half >= 1 /\ len = 2 * half /\ start \in Nat /\ k \in Nat /\ k < half
      /\ start + len <= hn /\ hn = Pow2[logn - 1] /\ hn \in Nat
  BY Place DEF InBlock, MyTypeOK
<1>1. /\ k + 1 < half => Done(start, (start + k) + 1, half) = D
      /\ ~ (k + 1 < half) => D = {s \in Nat : s < start + len}
  BY OwnSlots
<1>2. CASE k + 1 < half /\ k' = k + 1 /\ UNCHANGED <<len, start>>
  <2>1. half' = half /\ start' + k' = (start + k) + 1 /\ start' = start /\ len' = len
    BY <1>0, <1>2 DEF half
  <2> HIDE DEF D
  <2> QED
    BY <1>1, <1>2, <2>1, Zenon DEF D
<1>3. CASE ~(k + 1 < half) /\ start + len < hn /\ start' = start + len /\ k' = 0 /\ len' = len
  <2> DEFINE z == start + len
  <2>1. half' = half /\ start' = z /\ start' + k' = z /\ z \in Nat
    BY <1>0, <1>3 DEF half
  <2>2. D = {s \in Nat : s < z}
    BY <1>1, <1>3
  <2> HIDE DEF D, z
  <2>3. Done(z, z, half) = D
    BY <1>0, <2>1, <2>2, DoneStart
  <2> QED
    BY <1>3, <2>1, <2>3, Zenon DEF D
<1>4. CASE ~(k + 1 < half) /\ ~(start + len < hn) /\ len' = nextLen /\ start' = 0 /\ k' = 0
  <2>1. start + len = hn
    BY <1>0, <1>4
  <2>2. D = {s \in Nat : s < hn}
    BY <1>1, <1>4, <2>1
  <2> HIDE DEF D
  <2>3. 0 .. hn - 1 \subseteq D
    BY <1>0, <2>2
  <2> QED
    BY <1>0, <1>4, <2>3, Zenon DEF D
<1> QED
  BY <1>2, <1>3, <1>4, Zenon DEF NextPair

(* A step of my_FFT's loops.                                               *)
LEMMA MyForwardMoves ==
  ASSUME MyTypeOK, DIFLoop, len >= 2, NextPair(len \div 2), logn' = logn,
         NEW f \in Poly(logn), NEW x \in Poly(logn), Transforming(f, x)
  PROVE  \E v \in 1 .. logn :
           len' = Pow2[logn - v] /\ TwistedForward(MyForwardButterfly(f), x, logn, v, MyForwardDone')
<1> DEFINE g == MyForwardButterfly(f)
           D == Done(start, start + k, half)
           E == D \cup {start + k, (start + k) + half}
<1>1. PICK v \in 1 .. logn : len = Pow2[logn - v] /\ TwistedForward(f, x, logn, v, MyForwardDone)
  BY DEF Transforming
<1>2. InBlock
  BY DIFStage
<1>3. v \in 1 .. logn - 1
  <2>1. v # logn
    <3>1. logn - logn = 0 /\ Pow2[0] = 1
      BY Pow2Assumption DEF MyTypeOK
    <3> QED
      BY <1>1, <3>1
  <2> QED
    BY <2>1 DEF MyTypeOK
<1>4. /\ half = Pow2[logn - (v + 1)] /\ half \in Nat /\ len = 2 * half /\ v \in Nat
  BY <1>1, <1>2, <1>3, Place
<1>5. TwistedForward(f, x, logn, v, D)
  BY <1>1 DEF MyForwardDone
<1>6. TwistedForward(g, x, logn, v, E)
  <2> HIDE DEF g
  <2> QED
    BY <1>1, <1>2, <1>3, <1>5, MyForwardButterflyValue DEF g
<1>7. \/ len' = len /\ Done(start', start' + k', half') = E
      \/ /\ len' = len \div 2 /\ start' = 0 /\ k' = 0
         /\ 0 .. Pow2[logn - 1] - 1 \subseteq E
  BY <1>1, <1>2, <1>3, PairsMove
<1> HIDE DEF g, D, E
<1>8. CASE len' = len /\ Done(start', start' + k', half') = E
  <2>1. MyForwardDone' = E
    BY <1>8 DEF MyForwardDone
  <2> QED
    BY <1>1, <1>6, <1>8, <2>1 DEF g
<1>9. CASE /\ len' = len \div 2 /\ start' = 0 /\ k' = 0
           /\ 0 .. Pow2[logn - 1] - 1 \subseteq E
  <2>1. TwistedForward(g, x, logn, v + 1, {})
    BY <1>6, <1>9, TwistedForwardGoesOn
  <2>2. len' = half
    BY <1>9 DEF half
  <2>3. MyForwardDone' = {}
    <3>1. half' \in Nat
      BY <1>4, <2>2 DEF half
    <3>2. Done(0, 0, half') = {}
      BY <3>1 DEF Done
    <3>3. start' + k' = 0
      BY <1>9
    <3> QED
      BY <1>9, <3>2, <3>3, Zenon DEF MyForwardDone
  <2>4. v + 1 \in 1 .. logn
    BY <1>3 DEF MyTypeOK
  <2>5. len' = Pow2[logn - (v + 1)] /\ TwistedForward(g, x, logn, v + 1, MyForwardDone')
    BY <1>4, <2>1, <2>2, <2>3, Zenon
  <2> QED
    BY <2>4, <2>5 DEF g
<1> QED
  BY <1>7, <1>8, <1>9

(* A step of my_iFFT's loops.                                              *)
LEMMA MyInverseMoves ==
  ASSUME MyTypeOK, DITLoop, len <= hn, NextPair(len * 2), logn' = logn,
         NEW f \in Poly(logn), NEW x \in Poly(logn), Restoring(f, x)
  PROVE  \E v \in 0 .. logn - 1 :
           len' = Pow2[logn - v] /\ TwistedBackward(MyInverseButterfly(f), x, logn, v, MyInverseDone')
<1> DEFINE g == MyInverseButterfly(f)
           D == Done(start, start + k, half)
           E == D \cup {start + k, (start + k) + half}
<1>1. PICK v \in 0 .. logn - 1 : len = Pow2[logn - v] /\ TwistedBackward(f, x, logn, v, MyInverseDone)
  BY DEF Restoring
<1>2. InBlock
  BY DITStage
<1>3. v \in 1 .. logn - 1
  <2>1. v # 0
    <3>1. Pow2[logn] = 2 * hn /\ hn \in Nat /\ hn >= 1 /\ logn - 0 = logn
      BY MySizes DEF MyTypeOK
    <3> QED
      BY <1>1, <3>1
  <2> QED
    BY <2>1 DEF MyTypeOK
<1>4. /\ half \in Nat /\ len = 2 * half /\ v \in Nat /\ logn \in 1 .. LogMax
      /\ hn' = hn
  BY <1>1, <1>2, <1>3, Place DEF hn, n
<1>5. TwistedBackward(f, x, logn, v, D)
  BY <1>1 DEF MyInverseDone
<1>6. TwistedBackward(g, x, logn, v, E)
  <2> HIDE DEF g
  <2> QED
    BY <1>1, <1>2, <1>3, <1>5, MyInverseButterflyValue DEF g
<1>7. \/ len' = len /\ Done(start', start' + k', half') = E
      \/ /\ len' = len * 2 /\ start' = 0 /\ k' = 0
         /\ 0 .. Pow2[logn - 1] - 1 \subseteq E
  BY <1>1, <1>2, <1>3, PairsMove
<1> HIDE DEF g, D, E
<1>8. CASE len' = len /\ Done(start', start' + k', half') = E
  <2>1. MyInverseDone' = E
    BY <1>4, <1>8 DEF MyInverseDone
  <2> QED
    BY <1>1, <1>6, <1>8, <2>1 DEF g
<1>9. CASE /\ len' = len * 2 /\ start' = 0 /\ k' = 0
           /\ 0 .. Pow2[logn - 1] - 1 \subseteq E
  <2>1. TwistedBackward(g, x, logn, v - 1, {})
    BY <1>4, <1>6, <1>9, TwistedBackwardGoesOn
  <2>2. MyInverseDone' = {}
    <3>1. half' \in Nat
      <4>1. half' = len' \div 2 /\ len' = 2 * len /\ len \in Nat
        BY <1>4, <1>9 DEF half
      <4> QED
        BY <4>1
    <3>2. Done(0, 0, half') = {}
      BY <3>1 DEF Done
    <3>3. start' + k' = 0
      BY <1>9
    <3> QED
      BY <1>9, <3>2, <3>3, Zenon DEF MyInverseDone
  <2>3. v - 1 \in 0 .. logn - 1
    BY <1>3 DEF MyTypeOK
  <2>4. len' = Pow2[logn - (v - 1)]
    <3>1. logn - (v - 1) \in 1 .. LogMax /\ (logn - (v - 1)) - 1 = logn - v
      BY <1>3, <1>4, Pow2Assumption
    <3>2. Pow2[logn - (v - 1)] = 2 * Pow2[logn - v]
      <4>1. Pow2[logn - (v - 1)] = 2 * Pow2[(logn - (v - 1)) - 1]
        BY <3>1, Pow2Facts
      <4> QED
        BY <3>1, <4>1
    <3>3. len \in Nat /\ len' = len * 2 /\ Pow2[logn - v] = len
      BY <1>1, <1>4, <1>9
    <3> QED
      BY <3>2, <3>3
  <2> QED
    BY <2>1, <2>2, <2>3, <2>4 DEF g
<1> QED
  BY <1>7, <1>8, <1>9

(* The twist of the operand x takes my_FFT's array to stage 1.             *)
LEMMA TwistValue ==
  ASSUME MyTypeOK, logn' = logn, NEW x \in Poly(logn), len' = hn, start' = 0, k' = 0
  PROVE  \E v \in 1 .. logn :
           len' = Pow2[logn - v] /\ TwistedForward(Twisted(x), x, logn, v, MyForwardDone')
<1> DEFINE g == Twisted(x)
           z == [v \in 0 .. hn-1 |-> FPC_MUL(At(x, hn, v), tabs[logn].tw[v])]
<1>0. hn \in Nat /\ hn = Pow2[logn - 1] /\ logn \in 1 .. LogMax /\ 1 \in 1 .. logn
  BY MySizes DEF MyTypeOK
<1>1. ASSUME NEW s \in 0 .. hn-1
      PROVE  /\ FPC_MUL(At(x, hn, s), tabs[logn].tw[s]) \in Complex
             /\ tabs[logn].tw[s] = Zeta(logn, s)
  <2> DEFINE X == At(x, hn, s)
             w == tabs[logn].tw[s]
  <2>1. X \in Pair
    BY MyPolyFacts DEF Pair
  <2>2. w = Zeta(logn, s)
    BY TwistTable
  <2>3. w \in Pair
    <3>1. s \in Nat
      BY <1>0
    <3> QED
      BY <1>0, <2>2, <3>1, ZetaFacts
  <2> HIDE DEF X, w
  <2>4. FPC_MUL(X, w) \in Complex
    BY <2>1, <2>3, Closed
  <2> QED
    BY <2>2, <2>4 DEF X, w
<1>2. z \in [0 .. hn-1 -> Complex]
  BY <1>1, Zenon
<1>3. g = Slots(z)
  BY Zenon DEF Twisted
<1>4. \A s \in 0 .. hn-1 : z[s] = FPC_MUL(At(x, hn, s), Zeta(logn, s))
  BY <1>1
<1> HIDE DEF g, z
<1>5. \A s \in 0 .. hn-1 : At(g, hn, s) = FPC_MUL(At(x, hn, s), Zeta(logn, s))
  BY <1>2, <1>3, <1>4, SlotsAt
<1>6. TwistedForward(g, x, logn, 1, {})
  BY <1>0, <1>5, TwistedBegins
<1>7. MyForwardDone' = {}
  <2>1. half' \in Nat
    <3>1. half' = hn \div 2
      BY DEF half
    <3> QED
      BY <1>0, <3>1
  <2>2. Done(0, 0, half') = {}
    BY <2>1 DEF Done
  <2>3. start' + k' = 0
    OBVIOUS
  <2> QED
    BY <2>2, <2>3, Zenon DEF MyForwardDone
<1>8. len' = Pow2[logn - 1] /\ TwistedForward(g, x, logn, 1, MyForwardDone')
  BY <1>0, <1>6, <1>7, Zenon
<1> QED
  BY <1>0, <1>8 DEF g

(* my_FFT returns when its blocks have one slot.                           *)
LEMMA MyForwardEnds ==
  ASSUME MyTypeOK, DIFLoop, ~ (len >= 2), NEW f, NEW x \in Poly(logn), Transforming(f, x)
  PROVE  Transformed(f, x)
<1>1. PICK v \in 1 .. logn : len = Pow2[logn - v] /\ TwistedForward(f, x, logn, v, MyForwardDone)
  BY DEF Transforming
<1>2. v = logn
  <2> SUFFICES ASSUME v # logn PROVE FALSE
    OBVIOUS
  <2>1. /\ logn - v \in 1 .. LogMax /\ (logn - v) - 1 \in 0 .. LogMax
    BY Pow2Assumption DEF MyTypeOK
  <2>2. Pow2[logn - v] = 2 * Pow2[(logn - v) - 1] /\ Pow2[(logn - v) - 1] \in Nat
        /\ Pow2[(logn - v) - 1] >= 1
    BY <2>1, Pow2Facts
  <2> QED
    BY <1>1, <2>2
<1>3. TwistedForward(f, x, logn, logn, {})
  BY <1>1, <1>2 DEF MyForwardDone
<1> QED
  BY <1>3, TwistedEnds DEF Transformed, MyTypeOK

(* The pointwise product hands my_iFFT the transform of the product.       *)
LEMMA MyPointwiseValue ==
  ASSUME MyTypeOK, Transformed(mine, a), Transformed(tmp, b), logn' = logn,
         len' = 2, start' = 0, k' = 0
  PROVE  \E v \in 0 .. logn - 1 :
           /\ len' = Pow2[logn - v]
           /\ TwistedBackward(Slots([s \in 0 .. hn-1 |-> FPC_MUL(At(mine, hn, s), At(tmp, hn, s))]),
                              SchoolbookMul(a, b, logn), logn, v, MyInverseDone')
<1> DEFINE z == [s \in 0 .. hn-1 |-> FPC_MUL(At(mine, hn, s), At(tmp, hn, s))]
           g == Slots(z)
           c == SchoolbookMul(a, b, logn)
           lv == logn - 1
<1>0. /\ hn \in Nat /\ hn = Pow2[logn - 1] /\ logn \in 1 .. LogMax /\ logn \in 0 .. LogMax
      /\ lv \in 0 .. logn - 1 /\ logn - lv = 1 /\ Pow2[1] = 2
      /\ a \in Poly(logn) /\ b \in Poly(logn) /\ mine \in Poly(logn) /\ tmp \in Poly(logn)
  BY MySizes, Pow2Assumption DEF MyTypeOK
<1>1. ASSUME NEW s \in 0 .. hn-1
      PROVE  FPC_MUL(At(mine, hn, s), At(tmp, hn, s)) \in Complex
  <2> DEFINE X == At(mine, hn, s)
             Y == At(tmp, hn, s)
  <2>1. X \in Pair /\ Y \in Pair
    BY <1>0, MyPolyFacts DEF Pair
  <2> HIDE DEF X, Y
  <2>2. FPC_MUL(X, Y) \in Complex
    BY <2>1, Closed
  <2> QED
    BY <2>2 DEF X, Y
<1>2. z \in [0 .. hn-1 -> Complex]
  BY <1>1, Zenon
<1>3. \A s \in 0 .. hn-1 : z[s] = FPC_MUL(At(mine, hn, s), At(tmp, hn, s))
  OBVIOUS
<1> HIDE DEF z
<1>4. \A s \in 0 .. hn-1 : At(g, hn, s) = FPC_MUL(At(mine, hn, s), At(tmp, hn, s))
  BY <1>2, <1>3, SlotsAt
<1>5. c \in Poly(logn)
  BY <1>0, SchoolbookType
<1>6. Forward(mine, a, logn, logn, {}) /\ Forward(tmp, b, logn, logn, {})
  BY DEF Transformed
<1> HIDE DEF g
<1>7. Backward(g, c, logn, logn - 1, {})
  <2> DEFINE h == Pow2[logn - 1]
  <2>1. \A s \in 0 .. h - 1 : At(g, h, s) = FPC_MUL(At(mine, h, s), At(tmp, h, s))
    BY <1>0, <1>4
  <2> QED
    BY <1>0, <1>6, <2>1, PointwiseProduct
<1> HIDE DEF c
<1>8. TwistedBackward(g, c, logn, lv, {})
  <2>1. logn \in 1 .. LogMax /\ c \in Poly(logn)
    BY <1>0, <1>5
  <2>2. Backward(g, c, logn, logn - 1, {}) => TwistedBackward(g, c, logn, logn - 1, {})
    BY <2>1, TwistedEnds, Zenon
  <2> QED
    BY <1>7, <2>2
<1>9. MyInverseDone' = {}
  <2>1. half' = 1
    BY DEF half
  <2>2. Done(0, 0, half') = {}
    BY <2>1 DEF Done
  <2>3. start' + k' = 0
    OBVIOUS
  <2> QED
    BY <2>2, <2>3, Zenon DEF MyInverseDone
<1>10. len' = Pow2[logn - lv] /\ TwistedBackward(g, c, logn, lv, MyInverseDone')
  BY <1>0, <1>8, <1>9, Zenon
<1> HIDE DEF lv
<1> QED
  BY <1>0, <1>10 DEF g, z, c

(* Untwisted and scaled, what my_iFFT has made is the polynomial.          *)
LEMMA UntwistValue ==
  ASSUME MyTypeOK, DITLoop, ~ (len <= hn), NEW x \in Poly(logn), Restoring(mine, x)
  PROVE  Slots([s \in 0 .. hn-1 |->
           Scale(fpr_p2_tab[logn], FPC_MUL(At(mine, hn, s), Conj(tabs[logn].tw[s])))]) = x
<1> DEFINE z == [s \in 0 .. hn-1 |->
                   Scale(fpr_p2_tab[logn], FPC_MUL(At(mine, hn, s), Conj(tabs[logn].tw[s])))]
           g == Slots(z)
<1>0. hn \in Nat /\ hn = Pow2[logn - 1] /\ logn \in 1 .. LogMax /\ mine \in Poly(logn)
  BY MySizes DEF MyTypeOK
<1>1. PICK v \in 0 .. logn - 1 : len = Pow2[logn - v] /\ TwistedBackward(mine, x, logn, v, MyInverseDone)
  BY DEF Restoring
<1>2. v = 0
  <2> SUFFICES ASSUME v # 0 PROVE FALSE
    OBVIOUS
  <2>1. logn - v \in 1 .. logn - 1
    BY DEF MyTypeOK
  <2>2. step \in Nat /\ step >= 1 /\ hn = step * len /\ len = 2 * half /\ half \in Nat
    BY <1>1, <2>1, Stage
  <2>3. step * len >= 1 * len
    BY <2>2
  <2> QED
    BY <1>0, <2>2, <2>3
<1>3. TwistedBackward(mine, x, logn, 0, {})
  BY <1>1, <1>2 DEF MyInverseDone
<1>4. g \in Poly(logn)
  BY <1>0, WholeArrayTypes
<1>5. \A s \in 0 .. hn-1 :
        z[s] = Scale(fpr_p2_tab[logn], FPC_MUL(At(mine, hn, s), Conj(Zeta(logn, s))))
  BY TwistTable
<1>6. z \in [0 .. hn-1 -> Complex]
  <2>1. ASSUME NEW s \in 0 .. hn-1
        PROVE  Scale(fpr_p2_tab[logn], FPC_MUL(At(mine, hn, s), Conj(tabs[logn].tw[s])))
                 \in Complex
    <3> DEFINE X == At(mine, hn, s)
               w == tabs[logn].tw[s]
               r == fpr_p2_tab[logn]
    <3>1. X \in Int \X Int
      BY <1>0, MyPolyFacts
    <3>2. w \in Int \X Int
      BY TablesType, ComplexFacts
    <3>3. r \in Int
      BY <1>0, P2Recursion
    <3> HIDE DEF X, w, r
    <3>4. Conj(w) \in Int \X Int
      BY <3>1, <3>2, FPCType
    <3>5. FPC_MUL(X, Conj(w)) \in Complex
      BY <3>1, <3>4, FPCType
    <3>6. Scale(r, FPC_MUL(X, Conj(w))) \in Complex
      BY <3>3, <3>5, ScaleType, ComplexFacts
    <3> QED
      BY <3>6 DEF X, w, r
  <2> QED
    BY <2>1, Zenon
<1> HIDE DEF z
<1>7. \A s \in 0 .. hn-1 :
        At(g, hn, s) = Scale(fpr_p2_tab[logn], FPC_MUL(At(mine, hn, s), Conj(Zeta(logn, s))))
  BY <1>5, <1>6, SlotsAt, Zenon
<1> HIDE DEF g
<1>8. g = x
  <2> DEFINE h == Pow2[logn - 1]
  <2>1. \A s \in 0 .. h - 1 :
          At(g, h, s) = Scale(fpr_p2_tab[logn], FPC_MUL(At(mine, h, s), Conj(Zeta(logn, s))))
    BY <1>0, <1>7
  <2> QED
    BY <1>0, <1>3, <1>4, <2>1, TwistedScaling
<1> QED
  BY <1>8 DEF g, z

(* Nothing is claimed before the conversion.                               *)
LEMMA MyInitValueInv == MyInit => MyValueInv
BY DEF MyInit, MyValueInv

(* Every step keeps it.                                                    *)
LEMMA MyNextValueInv == MyIInv /\ MyValueInv /\ [MyNext]_myVars => MyValueInv'
<1> SUFFICES ASSUME MyIInv, MyValueInv, [MyNext]_myVars PROVE MyValueInv'
  OBVIOUS
<1>0. MyTypeOK /\ MyLoopInv /\ a \in Poly(logn) /\ b \in Poly(logn)
      /\ mine \in Poly(logn) /\ tmp \in Poly(logn)
  BY DEF MyIInv, MyTypeOK
<1>1. CASE MyConvert
  BY <1>1 DEF MyConvert, MyValueInv
<1>2. CASE TwistStep
  <2>1. /\ myPc = "twist" /\ logn' = logn /\ a' = a /\ b' = b /\ myArr' = myArr /\ myPc' = "dif"
        /\ len' = hn /\ start' = 0 /\ k' = 0
    BY <1>2 DEF TwistStep
  <2>2. CASE myArr = "out" /\ mine' = Twisted(mine) /\ tmp' = tmp
    <3>1. mine = a /\ tmp = b
      BY <2>1, <2>2 DEF MyValueInv
    <3>2. Transforming(mine, a)'
      <4>1. \E v \in 1 .. logn :
              len' = Pow2[logn - v] /\ TwistedForward(Twisted(a), a, logn, v, MyForwardDone')
        BY <1>0, <2>1, TwistValue
      <4> QED
        BY <2>1, <2>2, <3>1, <4>1 DEF Transforming
    <3> QED
      BY <2>1, <2>2, <3>1, <3>2 DEF MyValueInv
  <2>3. CASE myArr = "tmp" /\ tmp' = Twisted(tmp) /\ mine' = mine
    <3>1. Transformed(mine, a) /\ tmp = b
      BY <2>1, <2>3 DEF MyValueInv
    <3>2. Transforming(tmp, b)'
      <4>1. \E v \in 1 .. logn :
              len' = Pow2[logn - v] /\ TwistedForward(Twisted(b), b, logn, v, MyForwardDone')
        BY <1>0, <2>1, TwistValue
      <4> QED
        BY <2>1, <2>3, <3>1, <4>1 DEF Transforming
    <3>3. Transformed(mine, a)'
      BY <2>1, <2>3, <3>1 DEF Transformed
    <3> QED
      BY <2>1, <2>3, <3>2, <3>3 DEF MyValueInv
  <2> QED
    BY <1>2, <2>2, <2>3 DEF TwistStep
<1>3. CASE DIFStep
  <2>1. /\ myPc = "dif" /\ len >= 2 /\ DIFLoop /\ NextPair(len \div 2)
        /\ logn' = logn /\ a' = a /\ b' = b /\ myArr' = myArr /\ myPc' = myPc
    BY <1>0, <1>3 DEF DIFStep, MyLoopInv
  <2>2. CASE myArr = "out" /\ mine' = MyForwardButterfly(mine) /\ tmp' = tmp
    <3>1. Transforming(mine, a) /\ tmp = b
      BY <2>1, <2>2 DEF MyValueInv
    <3>2. Transforming(mine, a)'
      <4>1. \E v \in 1 .. logn :
              len' = Pow2[logn - v]
                /\ TwistedForward(MyForwardButterfly(mine), a, logn, v, MyForwardDone')
        BY <1>0, <2>1, <3>1, MyForwardMoves
      <4> QED
        BY <2>1, <2>2, <4>1 DEF Transforming
    <3> QED
      BY <2>1, <2>2, <3>1, <3>2 DEF MyValueInv
  <2>3. CASE myArr = "tmp" /\ tmp' = MyForwardButterfly(tmp) /\ mine' = mine
    <3>1. Transforming(tmp, b) /\ Transformed(mine, a)
      BY <2>1, <2>3 DEF MyValueInv
    <3>2. Transforming(tmp, b)'
      <4>1. \E v \in 1 .. logn :
              len' = Pow2[logn - v]
                /\ TwistedForward(MyForwardButterfly(tmp), b, logn, v, MyForwardDone')
        BY <1>0, <2>1, <3>1, MyForwardMoves
      <4> QED
        BY <2>1, <2>3, <4>1 DEF Transforming
    <3>3. Transformed(mine, a)'
      BY <2>1, <2>3, <3>1 DEF Transformed
    <3> QED
      BY <2>1, <2>3, <3>2, <3>3 DEF MyValueInv
  <2> QED
    BY <1>3, <2>2, <2>3 DEF DIFStep
<1>4. CASE DIFReturn
  <2>1. /\ myPc = "dif" /\ ~ (len >= 2) /\ DIFLoop
        /\ logn' = logn /\ a' = a /\ b' = b /\ mine' = mine /\ tmp' = tmp
    BY <1>0, <1>4 DEF DIFReturn, MyLoopInv
  <2>2. CASE myArr = "out" /\ myArr' = "tmp" /\ myPc' = "twist"
    <3>1. Transforming(mine, a) /\ tmp = b
      BY <2>1, <2>2 DEF MyValueInv
    <3>2. Transformed(mine, a)
      BY <1>0, <2>1, <3>1, MyForwardEnds
    <3>3. Transformed(mine, a)'
      BY <2>1, <3>2 DEF Transformed
    <3> QED
      BY <2>1, <2>2, <3>1, <3>3 DEF MyValueInv
  <2>3. CASE myArr = "tmp" /\ myArr' = myArr /\ myPc' = "my_poly_mul_fft"
    <3>1. Transforming(tmp, b) /\ Transformed(mine, a)
      BY <2>1, <2>3 DEF MyValueInv
    <3>2. Transformed(tmp, b)
      BY <1>0, <2>1, <3>1, MyForwardEnds
    <3>3. Transformed(mine, a)' /\ Transformed(tmp, b)'
      BY <2>1, <3>1, <3>2 DEF Transformed
    <3> QED
      BY <2>3, <3>3 DEF MyValueInv
  <2> QED
    BY <1>4, <2>2, <2>3 DEF DIFReturn
<1>5. CASE MyPolyMulFFT
  <2> DEFINE g == Slots([s \in 0 .. hn-1 |-> FPC_MUL(At(mine, hn, s), At(tmp, hn, s))])
  <2>1. /\ myPc = "my_poly_mul_fft" /\ logn' = logn /\ a' = a /\ b' = b
        /\ mine' = g /\ myPc' = "dit" /\ len' = 2 /\ start' = 0 /\ k' = 0
    BY <1>5 DEF MyPolyMulFFT
  <2>2. Transformed(mine, a) /\ Transformed(tmp, b)
    BY <2>1 DEF MyValueInv
  <2>3. \E v \in 0 .. logn - 1 :
          /\ len' = Pow2[logn - v]
          /\ TwistedBackward(g, SchoolbookMul(a, b, logn), logn, v, MyInverseDone')
    BY <1>0, <2>1, <2>2, MyPointwiseValue
  <2> HIDE DEF g
  <2>4. Restoring(mine, SchoolbookMul(a, b, logn))'
    BY <2>1, <2>3 DEF Restoring
  <2> QED
    BY <2>1, <2>4 DEF MyValueInv
<1>6. CASE DITStep
  <2> DEFINE c == SchoolbookMul(a, b, logn)
             g == MyInverseButterfly(mine)
  <2>1. /\ myPc = "dit" /\ len <= hn /\ DITLoop /\ NextPair(len * 2)
        /\ logn' = logn /\ a' = a /\ b' = b /\ myPc' = myPc /\ mine' = g
    BY <1>0, <1>6 DEF DITStep, MyLoopInv
  <2>2. c \in Poly(logn)
    <3>1. logn \in 0 .. LogMax
      BY <1>0, Pow2Assumption DEF MyTypeOK
    <3> QED
      BY <1>0, <3>1, SchoolbookType
  <2>3. Restoring(mine, c)
    BY <2>1 DEF MyValueInv
  <2> HIDE DEF c
  <2>4. \E v \in 0 .. logn - 1 :
          len' = Pow2[logn - v] /\ TwistedBackward(g, c, logn, v, MyInverseDone')
    BY <1>0, <2>1, <2>2, <2>3, MyInverseMoves
  <2> HIDE DEF g
  <2>5. Restoring(mine, SchoolbookMul(a, b, logn))'
    BY <2>1, <2>4 DEF Restoring, c
  <2> QED
    BY <2>1, <2>5 DEF MyValueInv
<1>7. CASE Untwist
  <2> DEFINE c == SchoolbookMul(a, b, logn)
             g == Slots([s \in 0 .. hn-1 |->
                    Scale(fpr_p2_tab[logn], FPC_MUL(At(mine, hn, s), Conj(tabs[logn].tw[s])))])
  <2>1. /\ myPc = "dit" /\ ~ (len <= hn) /\ DITLoop
        /\ logn' = logn /\ a' = a /\ b' = b /\ myPc' = "done" /\ mine' = g
    BY <1>0, <1>7 DEF Untwist, MyLoopInv
  <2>2. c \in Poly(logn)
    <3>1. logn \in 0 .. LogMax
      BY <1>0, Pow2Assumption DEF MyTypeOK
    <3> QED
      BY <1>0, <3>1, SchoolbookType
  <2>3. Restoring(mine, c)
    BY <2>1 DEF MyValueInv
  <2> HIDE DEF c
  <2>4. g = c
    BY <1>0, <2>1, <2>2, <2>3, UntwistValue
  <2> HIDE DEF g
  <2> QED
    BY <2>1, <2>4 DEF MyValueInv, c
<1>8. CASE UNCHANGED myVars
  BY <1>8 DEF myVars, myCounters, MyValueInv, Transforming, Transformed, Restoring,
              MyForwardDone, MyInverseDone, half, hn, n
<1> QED
  BY <1>1, <1>2, <1>3, <1>4, <1>5, <1>6, <1>7, <1>8 DEF MyNext

-----------------------------------------------------------------------------
(* The twisted remainder of the run's properties is the lemmas'.           *)
LEMMA TwistedRemainderIsTwist ==
  ASSUME NEW x, NEW size, NEW s
  PROVE  TwistedRemainder(x, size, s) = Twist(x, logn, size, s)
BY DEF TwistedRemainder, Twist

(* In the words of ForwardHolds: what each slot holds.                     *)
LEMMA MyForwardHolding ==
  ASSUME MyTypeOK, DIFLoop, NEW f, NEW x, Transforming(f, x)
  PROVE  MyForwardHolds(f, x)
<1>0. hn = Pow2[logn - 1] /\ hn \in Nat
  BY MySizes
<1>1. PICK v \in 1 .. logn : len = Pow2[logn - v] /\ TwistedForward(f, x, logn, v, MyForwardDone)
  BY DEF Transforming
<1> SUFFICES ASSUME NEW s \in 0 .. hn - 1
             PROVE  At(f, hn, s) =
                      TwistedRemainder(x, IF len >= 2 /\ MyTouched(s) THEN half ELSE len, s)
  BY DEF MyForwardHolds
<1>2. At(f, hn, s) =
        Twist(x, logn, IF s \in MyForwardDone THEN Pow2[logn - (v + 1)] ELSE len, s)
  BY <1>0, <1>1 DEF TwistedForward
<1>3. CASE len >= 2
  <2>1. InBlock
    BY <1>3, DIFStage
  <2>2. v \in 1 .. logn - 1
    <3>1. v # logn
      <4>1. logn - logn = 0 /\ Pow2[0] = 1
        BY Pow2Assumption DEF MyTypeOK
      <4> QED
        BY <1>1, <1>3, <4>1
    <3> QED
      BY <3>1 DEF MyTypeOK
  <2>3. half = Pow2[logn - (v + 1)]
    BY <1>1, <2>1, <2>2, Place, Zenon
  <2>4. s \in MyForwardDone <=> MyTouched(s)
    BY <1>1, <1>3, <2>1, <2>2, OwnSlots DEF MyForwardDone
  <2> QED
    BY <1>2, <1>3, <2>3, <2>4, TwistedRemainderIsTwist, Zenon
<1>4. CASE ~ (len >= 2)
  BY <1>2, <1>4, TwistedRemainderIsTwist DEF MyForwardDone
<1> QED
  BY <1>3, <1>4

(* Slot s holds the value at its root.                                     *)
LEMMA MyTransformedLayout ==
  ASSUME MyTypeOK, NEW f, NEW x, Transformed(f, x)
  PROVE  Layout(f, x)
<1>1. hn = Pow2[logn - 1] /\ logn - logn = 0 /\ Pow2[0] = 1
  BY MySizes, Pow2Assumption DEF MyTypeOK
<1> QED
  BY <1>1 DEF Transformed, Forward, Layout, Value

(* The same for my_iFFT.                                                   *)
LEMMA MyInverseHolding ==
  ASSUME MyTypeOK, DITLoop, NEW x, Restoring(mine, x)
  PROVE  \A s \in 0 .. hn-1 :
           LET size == IF len <= hn /\ MyTouched(s) THEN len ELSE half
           IN  At(mine, hn, s) = Scale(size, TwistedRemainder(x, size, s))
<1>0. hn = Pow2[logn - 1] /\ hn \in Nat /\ Pow2[logn] = 2 * hn /\ hn >= 1
  BY MySizes
<1>1. PICK v \in 0 .. logn - 1 : len = Pow2[logn - v] /\ TwistedBackward(mine, x, logn, v, MyInverseDone)
  BY DEF Restoring
<1>2. half = Pow2[logn - (v + 1)]
  <2>1. /\ logn - v \in 1 .. LogMax /\ (logn - v) - 1 = logn - (v + 1)
        /\ (logn - v) - 1 \in 0 .. LogMax
    BY Pow2Assumption DEF MyTypeOK
  <2>2. Pow2[logn - v] = 2 * Pow2[(logn - v) - 1] /\ Pow2[(logn - v) - 1] \in Nat
    BY <2>1, Pow2Facts
  <2>3. half = Pow2[(logn - v) - 1]
    BY <1>1, <2>2 DEF half
  <2> QED
    BY <2>1, <2>3, Zenon
<1> SUFFICES ASSUME NEW s \in 0 .. hn - 1
             PROVE  LET size == IF len <= hn /\ MyTouched(s) THEN len ELSE half
                    IN  At(mine, hn, s) = Scale(size, TwistedRemainder(x, size, s))
  BY Zenon
<1>3. LET size == IF s \in MyInverseDone THEN len ELSE half
      IN  At(mine, hn, s) = Scale(size, Twist(x, logn, size, s))
  BY <1>0, <1>1, <1>2 DEF TwistedBackward
<1>4. CASE len <= hn
  <2>1. InBlock
    BY <1>4, DITStage
  <2>2. v \in 1 .. logn - 1
    <3>1. v # 0
      <4>1. logn - 0 = logn
        BY DEF MyTypeOK
      <4> QED
        BY <1>0, <1>1, <1>4, <4>1
    <3> QED
      BY <3>1 DEF MyTypeOK
  <2>3. s \in MyInverseDone <=> MyTouched(s)
    BY <1>1, <1>4, <2>1, <2>2, OwnSlots DEF MyInverseDone
  <2> QED
    BY <1>3, <1>4, <2>3, TwistedRemainderIsTwist, Zenon
<1>5. CASE ~ (len <= hn)
  BY <1>3, <1>5, TwistedRemainderIsTwist DEF MyInverseDone
<1> QED
  BY <1>4, <1>5

(* What the run checks follows from the invariant.                         *)
LEMMA MyValueInvImplies == MyIInv /\ MyValueInv => MyForwardInv /\ MyFFTLayout /\ MyInverseInv
<1> SUFFICES ASSUME MyIInv, MyValueInv PROVE MyForwardInv /\ MyFFTLayout /\ MyInverseInv
  OBVIOUS
<1>0. MyTypeOK /\ MyLoopInv
  BY DEF MyIInv
<1>1. MyForwardInv
  <2>1. ASSUME myPc = "dif"
        PROVE  (myArr = "out" => MyForwardHolds(mine, a)) /\ (myArr = "tmp" => MyForwardHolds(tmp, b))
    BY <1>0, <2>1, MyForwardHolding DEF MyLoopInv, MyValueInv
  <2> QED
    BY <2>1 DEF MyForwardInv
<1>2. MyFFTLayout
  BY <1>0, MyTransformedLayout DEF MyFFTLayout, MyValueInv
<1>3. MyInverseInv
  BY <1>0, MyInverseHolding DEF MyInverseInv, MyLoopInv, MyValueInv
<1> QED
  BY <1>1, <1>2, <1>3

(***************************************************************************)
(* In the middle of any stage of my_FFT every slot holds the twisted       *)
(* coefficient its block stands for, of the block before its butterfly or  *)
(* after it: the stride through the one table w, the block bounds and the  *)
(* in-place update agree, for every logn my_fft_init accepts.              *)
(***************************************************************************)
THEOREM MyStageByStage == MySpec => []MyForwardInv
<1>1. MyInit => MyIInv
  BY MyInitIInv
<1> QED
  BY <1>1, MyNextIInv, MyInitValueInv, MyNextValueInv, MyValueInvImplies, PTL DEF MySpec

(***************************************************************************)
(* my_FFT, twist, decimation in frequency and all, leaves f(w_j), j =      *)
(* rev(s), in slot s: the layout of FFT of fft.c, for every logn.          *)
(***************************************************************************)
THEOREM MySlotLayout == MySpec => []MyFFTLayout
<1>1. MyInit => MyIInv
  BY MyInitIInv
<1> QED
  BY <1>1, MyNextIInv, MyInitValueInv, MyNextValueInv, MyValueInvImplies, PTL DEF MySpec

(***************************************************************************)
(* my_iFFT undoes my_FFT stage by stage, for the product of the operands   *)
(* that schoolbook_mul computes, up to the size of the block, which the    *)
(* one scaling at the end removes.                                         *)
(***************************************************************************)
THEOREM MyInverseStages == MySpec => []MyInverseInv
<1>1. MyInit => MyIInv
  BY MyInitIInv
<1> QED
  BY <1>1, MyNextIInv, MyInitValueInv, MyNextValueInv, MyValueInvImplies, PTL DEF MySpec

-----------------------------------------------------------------------------

(* The initial states are states in which nothing has been delivered.      *)
LEMMA MyInitProduct == MyInit => MyProduct!Init
<1> SUFFICES ASSUME MyInit PROVE MyProduct!Init
  OBVIOUS
<1>1. a \in Poly(logn) /\ b \in Poly(logn)
  BY OperandsAssumption DEF MyInit
<1> QED
  BY <1>1 DEF MyInit, MyProduct!Init, MyProduct!Poly, Poly, MyProduct!Residue, Residue

(* The untwist delivers the product; no other step delivers.               *)
LEMMA MyNextProduct ==
  ASSUME MyIInv, MyValueInv, MyValueInv', [MyNext]_myVars
  PROVE  [MyProduct!Multiply]_MyProduct!vars
<1>1. CASE myPc = "done"
  <2>1. UNCHANGED myVars
    BY <1>1 DEF MyNext, MyConvert, TwistStep, DIFStep, DIFReturn, MyPolyMulFFT, DITStep, Untwist
  <2> QED
    BY <2>1 DEF myVars, MyProduct!vars
<1>2. CASE myPc # "done" /\ myPc' = "done"
  <2>1. logn' = logn /\ a' = a /\ b' = b
    BY <1>2 DEF MyNext, MyConvert, TwistStep, DIFStep, DIFReturn, MyPolyMulFFT, DITStep, Untwist, myVars
  <2>2. mine' = SchoolbookMul(a, b, logn)
    BY <1>2, <2>1 DEF MyValueInv
  <2>3. SchoolbookMul(a, b, logn) = MyProduct!SchoolbookMul(a, b, logn)
    BY DEF SchoolbookMul, MyProduct!SchoolbookMul
  <2> QED
    BY <1>2, <2>1, <2>2, <2>3 DEF MyProduct!Multiply
<1>3. CASE myPc # "done" /\ myPc' # "done"
  <2>1. logn' = logn /\ a' = a /\ b' = b
    BY DEF MyNext, MyConvert, TwistStep, DIFStep, DIFReturn, MyPolyMulFFT, DITStep, Untwist, myVars
  <2> QED
    BY <1>3, <2>1 DEF MyProduct!vars
<1> QED
  BY <1>1, <1>2, <1>3

(***************************************************************************)
(* my_poly_mul implements the multiplication modulo X^N + 1, for every     *)
(* logn my_fft_init accepts: what it leaves is what schoolbook_mul of the  *)
(* tests computes, it is delivered in one step, and stays.                 *)
(***************************************************************************)
THEOREM MyComputesProduct == MySpec => MyProduct!Safety
<1>1. MyInit => MyProduct!Init
  BY MyInitProduct
<1>2. MyInit => MyIInv
  BY MyInitIInv
<1>3. MyIInv /\ MyValueInv /\ MyValueInv' /\ [MyNext]_myVars => [MyProduct!Multiply]_MyProduct!vars
  BY MyNextProduct
<1> QED
  BY <1>1, <1>2, <1>3, MyNextIInv, MyInitValueInv, MyNextValueInv, PTL
     DEF MySpec, MyProduct!Safety

-----------------------------------------------------------------------------
(***************************************************************************)
(* T11: both multiplications, turn by turn.                                *)
(***************************************************************************)
(* No call changes the operands.                                           *)
LEMMA OperandsStay ==
  /\ Next => logn' = logn /\ a' = a /\ b' = b
  /\ MyNext => logn' = logn /\ a' = a /\ b' = b
<1>1. Next => logn' = logn /\ a' = a /\ b' = b
  BY DEF Next, Convert, FFTStep, FFTReturn, PolyMulFFT, IFFTStep, IFFTScale
<1>2. MyNext => logn' = logn /\ a' = a /\ b' = b
  BY DEF MyNext, MyConvert, TwistStep, DIFStep, DIFReturn,
         MyPolyMulFFT, DITStep, Untwist
<1> QED
  BY <1>1, <1>2

(***************************************************************************)
(* Each of the two takes its own steps while the other stands still, so    *)
(* the invariants of both are kept.  The second arrays stay what the       *)
(* pointwise products read, and the reference transforms back only after   *)
(* myfft.c is done.                                                        *)
(***************************************************************************)
SecondKept ==
  /\ pc \in {"iFFT", "done"} => Transformed(fb, b) /\ myPc = "done"
  /\ myPc \in {"dit", "done"} => Transformed(tmp, b)

(* The inductive invariant of CrossCheck.                                  *)
CrossInv ==
  /\ IInv /\ ValueInv
  /\ MyIInv /\ MyValueInv
  /\ SecondKept

(* It holds before the first call.                                         *)
LEMMA InitCrossInv == CrossInit => CrossInv
<1> SUFFICES ASSUME CrossInit PROVE CrossInv
  OBVIOUS
<1>1. Init /\ MyInit
  BY DEF CrossInit
<1>2. SecondKept
  BY <1>1 DEF Init, MyInit, SecondKept
<1> QED
  BY <1>1, <1>2, InitIInv, InitValueInv, MyInitIInv, MyInitValueInv DEF CrossInv

(* The second array of the reference, once it is transformed.              *)
LEMMA RefSecondKept ==
  ASSUME IInv, ValueInv, Next, SecondKept, ~ MineTurn, UNCHANGED myOwn
  PROVE  pc' \in {"iFFT", "done"} => Transformed(fb, b)' /\ myPc' = "done"
<1> SUFFICES ASSUME pc' \in {"iFFT", "done"}
             PROVE  Transformed(fb, b)' /\ myPc' = "done"
  OBVIOUS
<1>1. pc \in {"poly_mul_fft", "iFFT", "done"} /\ fb' = fb /\ logn' = logn /\ b' = b
  BY DEF Next, Convert, FFTStep, FFTReturn, PolyMulFFT, IFFTStep, IFFTScale,
         EnterFFT, EnterIFFT
<1>2. Transformed(fb, b) /\ myPc = "done"
  BY <1>1 DEF ValueInv, SecondKept, MineTurn
<1> QED
  BY <1>1, <1>2 DEF Transformed, myOwn

(* The second array of myfft.c.                                            *)
LEMMA MySecondKept ==
  ASSUME MyValueInv, MyNext, SecondKept
  PROVE  myPc' \in {"dit", "done"} => Transformed(tmp, b)'
<1> SUFFICES ASSUME myPc' \in {"dit", "done"}
             PROVE  Transformed(tmp, b)'
  OBVIOUS
<1>1. /\ myPc \in {"my_poly_mul_fft", "dit", "done"} /\ tmp' = tmp
      /\ logn' = logn /\ b' = b
  BY DEF MyNext, MyConvert, TwistStep, DIFStep, DIFReturn,
         MyPolyMulFFT, DITStep, Untwist
<1>2. Transformed(tmp, b)
  BY <1>1 DEF MyValueInv, SecondKept
<1> QED
  BY <1>1, <1>2 DEF Transformed

(* A step of either keeps the invariants of both.                          *)
LEMMA NextCrossInv == CrossInv /\ [CrossNext]_<<vars, myOwn>> => CrossInv'
<1> SUFFICES ASSUME CrossInv, [CrossNext]_<<vars, myOwn>> PROVE CrossInv'
  OBVIOUS
<1>0. IInv /\ ValueInv /\ MyIInv /\ MyValueInv /\ SecondKept
  BY DEF CrossInv
<1>1. CASE Mine
  <2>1. MineTurn /\ MyNext /\ UNCHANGED refOwn
    BY <1>1 DEF Mine
  <2>2. UNCHANGED vars
    BY <2>1, OperandsStay DEF vars, refOwn
  <2>3. IInv' /\ ValueInv'
    BY <1>0, <2>2, NextIInv, NextValueInv
  <2>4. MyIInv' /\ MyValueInv'
    BY <1>0, <2>1, MyNextIInv, MyNextValueInv
  <2>5. myPc' \in {"dit", "done"} => Transformed(tmp, b)'
    BY <1>0, <2>1, MySecondKept
  <2>6. pc' \in {"iFFT", "done"} => Transformed(fb, b)' /\ myPc' = "done"
    BY <2>1 DEF MineTurn, refOwn
  <2> QED
    BY <2>3, <2>4, <2>5, <2>6 DEF CrossInv, SecondKept
<1>2. CASE Reference
  <2>1. ~ MineTurn /\ Next /\ UNCHANGED myOwn
    BY <1>2 DEF Reference
  <2>2. UNCHANGED myVars
    BY <2>1, OperandsStay DEF myVars, myCounters, myOwn
  <2>3. IInv' /\ ValueInv'
    BY <1>0, <2>1, NextIInv, NextValueInv
  <2>4. MyIInv' /\ MyValueInv'
    BY <1>0, <2>2, MyNextIInv, MyNextValueInv
  <2>5. pc' \in {"iFFT", "done"} => Transformed(fb, b)' /\ myPc' = "done"
    BY <1>0, <2>1, RefSecondKept
  <2>6. myPc' \in {"dit", "done"} => Transformed(tmp, b)'
    <3>1. myPc' = myPc /\ tmp' = tmp /\ logn' = logn /\ b' = b
      BY <2>1, OperandsStay DEF myOwn
    <3> QED
      BY <1>0, <3>1 DEF SecondKept, Transformed
  <2> QED
    BY <2>3, <2>4, <2>5, <2>6 DEF CrossInv, SecondKept
<1>3. CASE UNCHANGED <<vars, myOwn>>
  <2>1. UNCHANGED vars /\ UNCHANGED myOwn
    BY <1>3
  <2>2. UNCHANGED myVars
    BY <2>1 DEF myVars, myCounters, vars, myOwn
  <2>3. IInv' /\ ValueInv'
    BY <1>0, <2>1, NextIInv, NextValueInv
  <2>4. MyIInv' /\ MyValueInv'
    BY <1>0, <2>2, MyNextIInv, MyNextValueInv
  <2>5. SecondKept'
    BY <1>0, <2>1 DEF SecondKept, Transformed, vars, myOwn
  <2> QED
    BY <2>3, <2>4, <2>5 DEF CrossInv
<1> QED
  BY <1>1, <1>2, <1>3 DEF CrossNext

(* What two transforms of the same polynomial leave is the same.           *)
LEMMA SameSlots ==
  ASSUME TypeOK, NEW f \in Poly(logn), NEW g \in Poly(logn), NEW x,
         Transformed(f, x), Transformed(g, x)
  PROVE  f = g
<1>0. hn \in Nat /\ n = 2 * hn /\ hn = Pow2[logn - 1] /\ n = Pow2[logn]
  BY Sizes
<1>2. \A s \in 0 .. hn - 1 : At(f, hn, s) = At(g, hn, s)
  BY <1>0 DEF Transformed, Forward
<1>3. \A s \in 0 .. hn - 1 : f[s] = g[s] /\ f[s + hn] = g[s + hn]
  BY <1>2 DEF At
<1>4. ASSUME NEW v \in 0 .. n - 1 PROVE f[v] = g[v]
  <2>1. CASE v < hn
    <3>1. v \in 0 .. hn - 1
      BY <1>0, <2>1
    <3> QED
      BY <1>3, <3>1
  <2>2. CASE ~ (v < hn)
    <3>1. v - hn \in 0 .. hn - 1 /\ (v - hn) + hn = v
      BY <1>0, <2>2
    <3>2. f[(v - hn) + hn] = g[(v - hn) + hn]
      BY <1>3, <3>1
    <3> QED
      BY <3>1, <3>2
  <2> QED
    BY <2>1, <2>2
<1> QED
  BY <1>0, <1>4, SMTT(30) DEF Poly

(* What the run checks follows from it.                                    *)
LEMMA CrossInvImplies == CrossInv => MyInv /\ ResultsAgree
<1> SUFFICES ASSUME CrossInv PROVE MyInv /\ ResultsAgree
  OBVIOUS
<1>0. IInv /\ ValueInv /\ MyIInv /\ MyValueInv /\ SecondKept /\ TypeOK /\ MyTypeOK
  BY DEF CrossInv, IInv, MyIInv
<1>1. MyInv
  BY <1>0, MyIInvImpliesInBounds, MyValueInvImplies DEF MyInv
<1>2. /\ out \in Poly(logn) /\ fb \in Poly(logn)
      /\ mine \in Poly(logn) /\ tmp \in Poly(logn)
  BY <1>0 DEF TypeOK, MyTypeOK
<1>3. ASSUME pc = "poly_mul_fft", myPc = "my_poly_mul_fft"
      PROVE  out = mine /\ fb = tmp
  <2>1. Transformed(out, a) /\ Transformed(fb, b)
    BY <1>0, <1>3 DEF ValueInv
  <2>2. Transformed(mine, a) /\ Transformed(tmp, b)
    BY <1>0, <1>3 DEF MyValueInv
  <2> QED
    BY <1>0, <1>2, <2>1, <2>2, SameSlots
<1>4. ASSUME pc = "done"
      PROVE  out = mine /\ fb = tmp
  <2>1. Transformed(fb, b) /\ myPc = "done" /\ Transformed(tmp, b)
    BY <1>0, <1>4 DEF SecondKept
  <2>2. out = SchoolbookMul(a, b, logn)
    BY <1>0, <1>4 DEF ValueInv
  <2>3. mine = SchoolbookMul(a, b, logn)
    BY <1>0, <2>1 DEF MyValueInv
  <2> QED
    BY <1>0, <1>2, <2>1, <2>2, <2>3, SameSlots
<1> QED
  BY <1>1, <1>3, <1>4 DEF ResultsAgree

(***************************************************************************)
(* The transforms of myfft.c keep their invariants when their calls and    *)
(* those of the reference alternate as in T11: types, bounds, and what     *)
(* every slot holds in the middle of every stage, both ways.               *)
(***************************************************************************)
THEOREM MineIsRight == CrossSpec => []MyInv
BY InitCrossInv, NextCrossInv, CrossInvImplies, PTL DEF CrossSpec

(***************************************************************************)
(* What T11 of test_myfft.c compares agrees, for every size and all        *)
(* operands: slot by slot between the transforms, and at the end the       *)
(* products, and the second arrays that no pointwise product may touch.    *)
(***************************************************************************)
THEOREM TheTwoAgree == CrossSpec => []ResultsAgree
BY InitCrossInv, NextCrossInv, CrossInvImplies, PTL DEF CrossSpec

(* A step of either is a step of its promise, or none.                     *)
LEMMA CrossProduct ==
  ASSUME CrossInv, CrossInv', [CrossNext]_<<vars, myOwn>>
  PROVE  /\ [Product!Multiply]_Product!vars
         /\ [MyProduct!Multiply]_MyProduct!vars
<1>1. IInv /\ ValueInv /\ MyIInv /\ MyValueInv /\ ValueInv' /\ MyValueInv'
  BY DEF CrossInv
<1>2. [Next]_vars
  <2>1. CASE Mine
    BY <2>1, OperandsStay DEF Mine, vars, refOwn
  <2>2. CASE Reference
    BY <2>2 DEF Reference
  <2>3. CASE UNCHANGED <<vars, myOwn>>
    BY <2>3
  <2> QED
    BY <2>1, <2>2, <2>3 DEF CrossNext
<1>3. [MyNext]_myVars
  <2>1. CASE Mine
    BY <2>1 DEF Mine
  <2>2. CASE Reference
    BY <2>2, OperandsStay DEF Reference, myVars, myCounters, myOwn
  <2>3. CASE UNCHANGED <<vars, myOwn>>
    BY <2>3 DEF vars, myVars, myCounters, myOwn
  <2> QED
    BY <2>1, <2>2, <2>3 DEF CrossNext
<1>4. [Product!Multiply]_Product!vars
  BY <1>1, <1>2, NextProduct
<1>5. [MyProduct!Multiply]_MyProduct!vars
  BY <1>1, <1>3, MyNextProduct
<1> QED
  BY <1>4, <1>5

(* Neither has delivered anything to begin with.                           *)
LEMMA CrossInitProduct == CrossInit => Product!Init /\ MyProduct!Init
<1> SUFFICES ASSUME CrossInit PROVE Product!Init /\ MyProduct!Init
  OBVIOUS
<1>1. Init /\ MyInit
  BY DEF CrossInit
<1> QED
  BY <1>1, InitProduct, MyInitProduct

(***************************************************************************)
(* Both multiplications implement the one modulo X^N + 1, side by side:    *)
(* each delivers the product of schoolbook_mul, in one step and for good.  *)
(***************************************************************************)
THEOREM BothComputeProduct == CrossSpec => Product!Safety /\ MyProduct!Safety
<1>1. CrossInit => Product!Init /\ MyProduct!Init
  BY CrossInitProduct
<1>2. CrossInv /\ CrossInv' /\ [CrossNext]_<<vars, myOwn>>
        => [Product!Multiply]_Product!vars /\ [MyProduct!Multiply]_MyProduct!vars
  BY CrossProduct
<1> QED
  BY <1>1, <1>2, InitCrossInv, NextCrossInv, PTL
     DEF CrossSpec, Product!Safety, MyProduct!Safety

=============================================================================

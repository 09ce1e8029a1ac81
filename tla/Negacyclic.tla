----------------------------- MODULE Negacyclic -----------------------------
(***************************************************************************)
(* What the transforms are supposed to compute: arithmetic of polynomials  *)
(* modulo X^N + 1, written from the mathematics and not from either        *)
(* implementation.  A polynomial is its coefficient array [0..N-1 ->       *)
(* Residue].  The oracle of the tests, schoolbook_mul, is among them.      *)
(***************************************************************************)
EXTENDS ExactComplex, FiniteSetsExt

Poly(l) == [0 .. Pow2[l] - 1 -> Residue]

(* X^k *)
Monomial(l, k) == [i \in 0 .. Pow2[l] - 1 |-> IF i = k THEN 1 ELSE 0]

(* schoolbook_mul: c[k] = sum_{i+j=k} a[i]b[j] - sum_{i+j=k+n} a[i]b[j].   *)
SchoolbookMul(a, b, l) ==
  LET n == Pow2[l]
      term(k, i) == IF i <= k THEN a[i] * b[k - i] ELSE -(a[i] * b[n + k - i])
  IN  [k \in 0 .. n-1 |->
         LET sum[i \in 0 .. n] == IF i = 0 THEN 0 ELSE sum[i - 1] + term(k, i - 1)
         IN  sum[n] % P]

(* The j-th root of X^N + 1 in the source's numbering, w_j = w^(2j+1) with *)
(* w = exp(i*pi/N), and the exponent that gives it as a value of Exp.      *)
RootExponent(l, j) == (2 * j + 1) * Pow2[LogMax - l]

RootW(l, j) == Exp(RootExponent(l, j))

(* The root that README.md ("The layout, as the code actually implements   *)
(* it") and T7 of the tests give for slot s: w_j, j = rev(s).              *)
PointExponent(l, s) == RootExponent(l, Rev(s, l))

(* The sum of f[d + k*size] * c^k over k < terms, by Horner's rule.        *)
Horner(f, d, size, terms, c) ==
  LET sum[k \in 0 .. terms] ==
        IF k = 0 THEN Zero
        ELSE FPC_ADD(FPC_MUL(sum[k - 1], c), <<f[d + (terms - k) * size], 0>>)
  IN  sum[terms]

(***************************************************************************)
(* f modulo X^size - c: the coefficient of degree s - first, where first *)
(* is the slot at which the block of size slots that holds slot s begins   *)
(* and c = x^size, x the root of slot first.  With size = N/2 it is f[s] + *)
(* i*f[s+N/2]; with size = 1 it is the value of f at the root of slot s.   *)
(***************************************************************************)
BlockStart(size, s) == (s \div size) * size

Remainder(f, l, size, s) ==
  LET first == BlockStart(size, s)
  IN  Horner(f, s - first, size, Pow2[l] \div size,
             Exp(size * PointExponent(l, first)))

(* The value of f at the root of slot s.                                   *)
Value(f, l, s) == Remainder(f, l, 1, s)

=============================================================================

----------------------------- MODULE MCPolyOps ------------------------------
(***************************************************************************)
(* PolyOps for TLC: two invertible polynomials and two autoadjoint ones,   *)
(* which make a Gram matrix with either of the others.                     *)
(***************************************************************************)
EXTENDS PolyOps, MCArith

f(l) == [k \in 0 .. Pow2[l] - 1 |-> (7 * k + 3) % P]
g(l) == [k \in 0 .. Pow2[l] - 1 |-> (k * k + 5 * k + 2) % P]

Norm(p, l) ==
  LET adj == [k \in DOMAIN p |-> IF k = 0 THEN p[0] ELSE (-p[Pow2[l] - k]) % P]
  IN  SchoolbookMul(p, adj, l)

MCContents(l) ==
  [r \in Bufs |-> CASE r = 1 -> f(l) [] r = 2 -> g(l)
                    [] r = 3 -> Norm(f(l), l) [] r = 4 -> Norm(g(l), l)]

(* Two calls in a row at the smaller sizes.                                *)
MCMaxCalls(l) == IF l <= 2 THEN 2 ELSE 1

=============================================================================

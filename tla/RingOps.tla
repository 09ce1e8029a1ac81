------------------------------ MODULE RingOps -------------------------------
(***************************************************************************)
(* What the polynomial operations of fft.c promise in inner.h, stated on   *)
(* the polynomials modulo X^N + 1 that the buffers stand for, whatever     *)
(* representation a buffer is in.  An operation is the step in which it    *)
(* becomes the last call; buffers it does not name as destinations keep    *)
(* the polynomials they hold.  Quotients are stated by the product that    *)
(* gives the dividend back.                                                *)
(***************************************************************************)
EXTENDS Negacyclic

CONSTANTS
  Bufs,        \* the caller's buffers
  Constants    \* the real constants the caller multiplies by

VARIABLES
  logn,        \* the size of the polynomial each buffer holds
  poly,        \* the polynomial each buffer holds
  call         \* the last call: <<its name, its arguments>>

vars == <<logn, poly, call>>

NoCall == <<"none", <<>>>>

Plus(f, g) == [k \in DOMAIN f |-> (f[k] + g[k]) % P]
Minus(f, g) == [k \in DOMAIN f |-> (f[k] - g[k]) % P]
Multiple(c, f) == [k \in DOMAIN f |-> (c * f[k]) % P]

(* f(1/X) modulo X^N + 1, where 1/X = -X^(N-1).                            *)
Adjoint(f, l) ==
  [k \in DOMAIN f |-> IF k = 0 THEN f[0] ELSE (-f[Pow2[l] - k]) % P]

(* f = f0(X^2) + X*f1(X^2): Half(f, 0) and Half(f, 1).                     *)
Half(f, l, odd) == [k \in 0 .. Pow2[l - 1] - 1 |-> f[2 * k + odd]]

Calls(names) == call'[1] \in names

(* Only the buffers in ds are written.                                     *)
Changes(ds) ==
  \A r \in Bufs \ ds : poly'[r] = poly[r] /\ logn'[r] = logn[r]

InPlace(a) == Changes({a}) /\ logn'[a] = logn[a]

-----------------------------------------------------------------------------
Init ==
  /\ call = NoCall
  /\ logn \in [Bufs -> 0 .. LogMax]
  /\ \A r \in Bufs : poly[r] \in Poly(logn[r])

(* FFT and iFFT change the representation and not the polynomial.          *)
Transform ==
  /\ Calls({"FFT", "iFFT"})
  /\ Changes({})

Add(a, b) ==
  /\ Calls({"poly_add"}) /\ InPlace(a)
  /\ poly'[a] = Plus(poly[a], poly[b])

Sub(a, b) ==
  /\ Calls({"poly_sub"}) /\ InPlace(a)
  /\ poly'[a] = Minus(poly[a], poly[b])

Neg(a) ==
  /\ Calls({"poly_neg"}) /\ InPlace(a)
  /\ poly'[a] = Multiple(-1, poly[a])

MulConst(a, x) ==
  /\ Calls({"poly_mulconst"}) /\ InPlace(a)
  /\ poly'[a] = Multiple(x, poly[a])

Adj(a) ==
  /\ Calls({"poly_adj_fft"}) /\ InPlace(a)
  /\ poly'[a] = Adjoint(poly[a], logn[a])

Mul(a, b) ==
  /\ Calls({"poly_mul_fft", "poly_mul_autoadj_fft"})
  /\ InPlace(a)
  /\ poly'[a] = SchoolbookMul(poly[a], poly[b], logn[a])

MulAdj(a, b) ==
  /\ Calls({"poly_muladj_fft"}) /\ InPlace(a)
  /\ poly'[a] = SchoolbookMul(poly[a], Adjoint(poly[b], logn[a]), logn[a])

MulSelfAdj(a) ==
  /\ Calls({"poly_mulselfadj_fft"}) /\ InPlace(a)
  /\ poly'[a] = SchoolbookMul(poly[a], Adjoint(poly[a], logn[a]), logn[a])

Div(a, b) ==
  /\ Calls({"poly_div_fft", "poly_div_autoadj_fft"})
  /\ InPlace(a)
  /\ SchoolbookMul(poly'[a], poly[b], logn[a]) = poly[a]

InvNorm2(d, a, b) ==
  LET l == logn[a]
      norm(f) == SchoolbookMul(f, Adjoint(f, l), l)
  IN  /\ Calls({"poly_invnorm2_fft"})
      /\ Changes({d}) /\ logn'[d] = l
      /\ SchoolbookMul(poly'[d], Plus(norm(poly[a]), norm(poly[b])), l)
           = Monomial(l, 0)

AddMulAdj(d, F, G, f, g) ==
  LET l == logn[F]
      mul(x, y) == SchoolbookMul(poly[x], Adjoint(poly[y], l), l)
  IN  /\ Calls({"poly_add_muladj_fft"})
      /\ Changes({d}) /\ logn'[d] = l
      /\ poly'[d] = Plus(mul(F, f), mul(G, g))

(* [[g00, g01], [adj(g01), g11]] = L * D * adj(L) with L = [[1,0],[l10,1]] *)
(* and D = [[g00,0],[0,d11]].                                              *)
IsLDL(l, l10, d11, g00, g01, g11) ==
  LET low == SchoolbookMul(l10, g00, l)
  IN  /\ low = Adjoint(g01, l)
      /\ Plus(SchoolbookMul(low, Adjoint(l10, l), l), d11) = g11

LDL(g00, g01, g11) ==
  /\ Calls({"poly_LDL_fft"})
  /\ Changes({g01, g11})
  /\ logn'[g01] = logn[g00] /\ logn'[g11] = logn[g00]
  /\ IsLDL(logn[g00], poly'[g01], poly'[g11], poly[g00], poly[g01], poly[g11])

LDLmv(d11, l10, g00, g01, g11) ==
  /\ Calls({"poly_LDLmv_fft"})
  /\ Changes({d11, l10})
  /\ logn'[d11] = logn[g00] /\ logn'[l10] = logn[g00]
  /\ IsLDL(logn[g00], poly'[l10], poly'[d11], poly[g00], poly[g01], poly[g11])

Split(f0, f1, f) ==
  /\ Calls({"poly_split_fft"})
  /\ Changes({f0, f1})
  /\ logn'[f0] = logn[f] - 1 /\ logn'[f1] = logn[f] - 1
  /\ poly'[f0] = Half(poly[f], logn[f], 0)
  /\ poly'[f1] = Half(poly[f], logn[f], 1)

Merge(f, f0, f1) ==
  /\ Calls({"poly_merge_fft"})
  /\ Changes({f}) /\ logn'[f] = logn[f0] + 1
  /\ poly[f0] = Half(poly'[f], logn[f0] + 1, 0)
  /\ poly[f1] = Half(poly'[f], logn[f0] + 1, 1)

(* The operands are those of the new call.                                 *)
arg(i) == call'[2][i]

Next ==
  \/ Transform
  \/ Neg(arg(1)) \/ Adj(arg(1)) \/ MulSelfAdj(arg(1))
  \/ MulConst(arg(1), arg(2))
  \/ Add(arg(1), arg(2)) \/ Sub(arg(1), arg(2)) \/ Mul(arg(1), arg(2))
  \/ MulAdj(arg(1), arg(2)) \/ Div(arg(1), arg(2))
  \/ InvNorm2(arg(1), arg(2), arg(3)) \/ LDL(arg(1), arg(2), arg(3))
  \/ Split(arg(1), arg(2), arg(3)) \/ Merge(arg(1), arg(2), arg(3))
  \/ AddMulAdj(arg(1), arg(2), arg(3), arg(4), arg(5))
  \/ LDLmv(arg(1), arg(2), arg(3), arg(4), arg(5))

Spec == Init /\ [][Next]_vars

=============================================================================

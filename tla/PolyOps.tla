------------------------------ MODULE PolyOps -------------------------------
(***************************************************************************)
(* The polynomial operations of fft.c, on buffers of reals, as any caller  *)
(* that keeps to the contracts of inner.h may combine them.  An action is  *)
(* one call; its guard is what inner.h asks of the caller.                 *)
(*                                                                         *)
(* The loops of these functions run over complex slots (poly_split_fft and *)
(* poly_merge_fft over pairs of them), and an iteration reads and writes   *)
(* its own slots only, so a loop is one assignment.  The AVX2 loops take   *)
(* several slots at a time and compute the same values.  FFT and iFFT are  *)
(* here the change of representation RefMul shows them to be.              *)
(***************************************************************************)
EXTENDS Negacyclic

CONSTANTS
  Bufs,          \* the caller's buffers, of 2^LogMax reals each
  Constants,     \* the real constants the caller multiplies by
  Contents(_),   \* what the buffers hold at first, given their size
  MaxCalls(_)    \* bound of the model: the calls in a row, given that size

ASSUME PolyOpsAssumption ==
  /\ Constants \subseteq Residue
  /\ \A l \in 1 .. LogMax :
       Contents(l) \in [Bufs -> Poly(l)] /\ MaxCalls(l) \in Nat

VARIABLES
  buf,    \* the arrays, as memory
  logn,   \* the size of the polynomial in a buffer
  rep,    \* how the buffer represents it
  call,   \* the last call
  calls   \* how many more there may be

vars == <<buf, logn, rep, call, calls>>

NoCall == <<"none", <<>>>>

(* Coefficients; FFT representation; the first half of the FFT             *)
(* representation of an autoadjoint polynomial, whose second half is zero  *)
(* and not stored.                                                         *)
Representations == {"coef", "fft", "half"}

(* The function f; for the comparison TLC computes it, once and not at     *)
(* each application.                                                       *)
Once(f) == IF f = f THEN f ELSE f

Array == [0 .. Pow2[LogMax] - 1 -> Residue]

n(l) == Pow2[l]
hn(l) == n(l) \div 2
qn(l) == hn(l) \div 2

(* The indices of a polynomial's reals and of its slots.                   *)
Reals(l) == 0 .. n(l) - 1
Places(l) == 0 .. hn(l) - 1

(* Slot s of buffer r.                                                     *)
Slot(r, s) == At(buf[r], hn(logn[r]), s)

(* The memory of a buffer after the complex numbers z are stored in its    *)
(* slots.                                                                  *)
Stored(old, l, z) ==
  Once([v \in DOMAIN old |->
          IF v >= n(l) THEN old[v]
          ELSE IF v < hn(l) THEN z[v][1] ELSE z[v - hn(l)][2]])

(* The first n(l) reals become those of c.                                 *)
Each(old, l, c) ==
  Once([v \in DOMAIN old |-> IF v < n(l) THEN c[v] ELSE old[v]])

Init ==
  /\ \E l \in 1 .. LogMax :
       /\ logn = [r \in Bufs |-> l]
       /\ buf = [r \in Bufs |->
                   Stored([v \in 0 .. Pow2[LogMax] - 1 |-> 0], l,
                          [s \in Places(l) |-> Value(Contents(l)[r], l, s)])]
       /\ calls = MaxCalls(l)
  /\ rep = [r \in Bufs |-> "fft"]
  /\ call = NoCall

Call(name, args) ==
  /\ calls > 0 /\ calls' = calls - 1
  /\ call' = <<name, args>>

(* inner.h: sizes agree, and what is in FFT representation has a size FFT  *)
(* serves.  That buffers do not overlap is that they are not the same.     *)
SameSize(rs) == \A r, s \in rs : logn[r] = logn[s]

FFTOperands(rs) ==
  /\ SameSize(rs)
  /\ \A r \in rs : rep[r] = "fft" /\ logn[r] >= 1

-----------------------------------------------------------------------------
(* The polynomial with the values z at the roots w_j, j = rev(s), of the   *)
(* slots: the inverse of the evaluation, of which one half is summed, the  *)
(* other being its conjugate.                                              *)
Weight ==
  [l \in 1 .. LogMax |->
    [s \in Places(l) |-> [d \in Reals(l) |-> Exp(d * PointExponent(l, s))]]]

(* The sum of t[0 .. terms-1].                                             *)
Total(t, terms) ==
  LET sum[k \in 0 .. terms] == IF k = 0 THEN 0 ELSE sum[k - 1] + t[k - 1]
  IN  sum[terms]

(* The real part of z times the conjugate of w.                            *)
Dot(w, z) == w[1] * z[1] + w[2] * z[2]

Interpolated(z, l) ==
  [d \in Reals(l) |->
     (fpr_p2_tab[l]
      * (Total([s \in Places(l) |-> Dot(Weight[l][s][d], z[s])], hn(l)) % P))
     % P]

(* The slots of buffer r, those of the first half of its representation    *)
(* among them.                                                             *)
Slots(r) ==
  [s \in Places(logn[r]) |->
     IF rep[r] = "half" THEN <<buf[r][s], 0>> ELSE Slot(r, s)]

(* The polynomial a buffer stands for.                                     *)
Represented(r) ==
  Once(IF rep[r] = "coef" \/ logn[r] = 0
       THEN [d \in Reals(logn[r]) |-> buf[r][d]]
       ELSE Interpolated(Slots(r), logn[r]))

-----------------------------------------------------------------------------
FFT(a) ==
  /\ Call("FFT", <<a>>)
  /\ rep[a] = "coef" /\ logn[a] >= 1
  /\ rep' = [rep EXCEPT ![a] = "fft"]
  /\ buf' = [buf EXCEPT ![a] =
               Stored(@, logn[a],
                      [s \in Places(logn[a]) |-> Value(Represented(a), logn[a], s)])]
  /\ UNCHANGED logn

iFFT(a) ==
  /\ Call("iFFT", <<a>>)
  /\ rep[a] = "fft" /\ logn[a] >= 1
  /\ rep' = [rep EXCEPT ![a] = "coef"]
  /\ buf' = [buf EXCEPT ![a] = Each(@, logn[a], Represented(a))]
  /\ UNCHANGED logn

(* Operations on the reals of a and b, in either representation.           *)
Both(a, b) ==
  /\ a # b /\ logn[a] = logn[b]
  /\ rep[a] = rep[b] /\ rep[a] \in {"coef", "fft"}

poly_add(a, b) ==
  /\ Call("poly_add", <<a, b>>)
  /\ Both(a, b)
  /\ buf' = [buf EXCEPT ![a] =
               Each(@, logn[a],
                    [v \in Reals(logn[a]) |-> (buf[a][v] + buf[b][v]) % P])]
  /\ UNCHANGED <<logn, rep>>

poly_sub(a, b) ==
  /\ Call("poly_sub", <<a, b>>)
  /\ Both(a, b)
  /\ buf' = [buf EXCEPT ![a] =
               Each(@, logn[a],
                    [v \in Reals(logn[a]) |-> (buf[a][v] - buf[b][v]) % P])]
  /\ UNCHANGED <<logn, rep>>

poly_neg(a) ==
  /\ Call("poly_neg", <<a>>)
  /\ rep[a] \in {"coef", "fft"}
  /\ buf' = [buf EXCEPT ![a] =
               Each(@, logn[a], [v \in Reals(logn[a]) |-> (-buf[a][v]) % P])]
  /\ UNCHANGED <<logn, rep>>

poly_mulconst(a, x) ==
  /\ Call("poly_mulconst", <<a, x>>)
  /\ rep[a] \in {"coef", "fft"}
  /\ buf' = [buf EXCEPT ![a] =
               Each(@, logn[a], [v \in Reals(logn[a]) |-> (buf[a][v] * x) % P])]
  /\ UNCHANGED <<logn, rep>>

-----------------------------------------------------------------------------
(* Slot by slot, in place.                                                 *)
Update(a, z) ==
  /\ buf' = [buf EXCEPT ![a] = Stored(@, logn[a], z)]
  /\ UNCHANGED <<logn, rep>>

poly_adj_fft(a) ==
  /\ Call("poly_adj_fft", <<a>>)
  /\ FFTOperands({a})
  /\ Update(a, [s \in Places(logn[a]) |-> Conj(Slot(a, s))])

poly_mul_fft(a, b) ==
  /\ Call("poly_mul_fft", <<a, b>>)
  /\ a # b /\ FFTOperands({a, b})
  /\ Update(a, [s \in Places(logn[a]) |-> FPC_MUL(Slot(a, s), Slot(b, s))])

poly_muladj_fft(a, b) ==
  /\ Call("poly_muladj_fft", <<a, b>>)
  /\ a # b /\ FFTOperands({a, b})
  /\ Update(a, [s \in Places(logn[a]) |-> FPC_MUL(Slot(a, s), Conj(Slot(b, s)))])

poly_mulselfadj_fft(a) ==
  /\ Call("poly_mulselfadj_fft", <<a>>)
  /\ FFTOperands({a})
  /\ Update(a, [s \in Places(logn[a]) |-> <<Norm2(Slot(a, s)), 0>>])

(* No slot is zero: the polynomial is invertible modulo X^N + 1.           *)
Invertible(b) == \A s \in Places(logn[b]) : Slot(b, s) # Zero

poly_div_fft(a, b) ==
  /\ Call("poly_div_fft", <<a, b>>)
  /\ a # b /\ FFTOperands({a, b}) /\ Invertible(b)
  /\ Update(a, [s \in Places(logn[a]) |-> FPC_DIV(Slot(a, s), Slot(b, s))])

(* Only d[0 .. hn-1] is written.  A caller that wants more than half has   *)
(* zeros put into the rest itself.                                         *)
poly_invnorm2_fft(d, a, b) ==
  LET l == logn[a]
      norm(s) == (Norm2(Slot(a, s)) + Norm2(Slot(b, s))) % P
  IN  /\ Call("poly_invnorm2_fft", <<d, a, b>>)
      /\ d \notin {a, b} /\ FFTOperands({a, b})
      /\ \A s \in Places(l) : norm(s) # 0
      /\ buf' = [buf EXCEPT ![d] =
                   [v \in DOMAIN @ |->
                      IF v < hn(l) THEN fpr_inv[norm(v)] ELSE @[v]]]
      /\ logn' = [logn EXCEPT ![d] = l]
      /\ rep' = [rep EXCEPT ![d] = "half"]

(* Faulty variant: the result is taken for one of the next size.           *)
ReceiveAbove(ds, l) ==
  /\ logn' = [r \in Bufs |-> IF r \in ds THEN l + 1 ELSE logn[r]]
  /\ rep' = [r \in Bufs |-> IF r \in ds THEN "fft" ELSE rep[r]]

(* The buffers in ds receive polynomials of size l in FFT representation.  *)
Receive(ds, l) ==
  /\ logn' = [r \in Bufs |-> IF r \in ds THEN l ELSE logn[r]]
  /\ rep' = [r \in Bufs |-> IF r \in ds THEN "fft" ELSE rep[r]]

poly_add_muladj_fft(d, F, G, f, g) ==
  /\ Call("poly_add_muladj_fft", <<d, F, G, f, g>>)
  /\ d \notin {F, G, f, g} /\ FFTOperands({F, G, f, g})
  /\ buf' = [buf EXCEPT ![d] =
               Stored(@, logn[F],
                 [s \in Places(logn[F]) |->
                    FPC_ADD(FPC_MUL(Slot(F, s), Conj(Slot(f, s))),
                            FPC_MUL(Slot(G, s), Conj(Slot(g, s))))])]
  /\ Receive({d}, logn[F])

(* b is autoadjoint: all its slots are real, and only they are read.       *)
Autoadjoint(b) ==
  \/ rep[b] = "half"
  \/ rep[b] = "fft" /\ \A s \in Places(logn[b]) : Slot(b, s)[2] = 0

poly_mul_autoadj_fft(a, b) ==
  /\ Call("poly_mul_autoadj_fft", <<a, b>>)
  /\ a # b /\ FFTOperands({a}) /\ logn[a] = logn[b] /\ Autoadjoint(b)
  /\ Update(a, [s \in Places(logn[a]) |-> Scale(buf[b][s], Slot(a, s))])

poly_div_autoadj_fft(a, b) ==
  /\ Call("poly_div_autoadj_fft", <<a, b>>)
  /\ a # b /\ FFTOperands({a}) /\ logn[a] = logn[b] /\ Autoadjoint(b)
  /\ \A s \in Places(logn[b]) : buf[b][s] # 0
  /\ Update(a, [s \in Places(logn[a]) |-> Scale(fpr_inv[buf[b][s]], Slot(a, s))])

-----------------------------------------------------------------------------
(* The matrix [[g00, g01], [adj(g01), g11]] is autoadjoint, its g00        *)
(* invertible.                                                             *)
GramMatrix(g00, g01, g11) ==
  /\ FFTOperands({g00, g01, g11})
  /\ Autoadjoint(g00) /\ Autoadjoint(g11) /\ Invertible(g00)

Mu(g00, g01, s) == FPC_DIV(Slot(g01, s), Slot(g00, s))

(* d11 and l10.                                                            *)
D11(g00, g01, g11) ==
  [s \in Places(logn[g00]) |->
     FPC_SUB(Slot(g11, s), FPC_MUL(Mu(g00, g01, s), Conj(Slot(g01, s))))]

L10(g00, g01) == [s \in Places(logn[g00]) |-> Conj(Mu(g00, g01, s))]

poly_LDL_fft(g00, g01, g11) ==
  /\ Call("poly_LDL_fft", <<g00, g01, g11>>)
  /\ g00 # g01 /\ g00 # g11 /\ g01 # g11 /\ GramMatrix(g00, g01, g11)
  /\ buf' = [buf EXCEPT
       ![g01] = Stored(@, logn[g00], L10(g00, g01)),
       ![g11] = Stored(@, logn[g00], D11(g00, g01, g11))]
  /\ UNCHANGED <<logn, rep>>

poly_LDLmv_fft(d11, l10, g00, g01, g11) ==
  /\ Call("poly_LDLmv_fft", <<d11, l10, g00, g01, g11>>)
  /\ d11 # l10 /\ {d11, l10} \cap {g00, g01, g11} = {}
  /\ GramMatrix(g00, g01, g11)
  /\ buf' = [buf EXCEPT
       ![d11] = Stored(@, logn[g00], D11(g00, g01, g11)),
       ![l10] = Stored(@, logn[g00], L10(g00, g01))]
  /\ Receive({d11, l10}, logn[g00])

-----------------------------------------------------------------------------
(* Slots 2u and 2u+1 of f belong to two roots of opposite sign whose       *)
(* square is the root of slot u of f0 and f1; GM[u + hn] is the first.     *)
(* logn = 1 has one slot, i*i = -1, and leaves two reals.                  *)
Halved(z) == <<fpr_half(z[1]), fpr_half(z[2])>>

SplitEven(f) ==
  [u \in 0 .. qn(logn[f]) - 1 |->
     Halved(FPC_ADD(Slot(f, 2 * u), Slot(f, 2 * u + 1)))]

SplitOdd(f) ==
  [u \in 0 .. qn(logn[f]) - 1 |->
     Halved(FPC_MUL(FPC_SUB(Slot(f, 2 * u), Slot(f, 2 * u + 1)),
                    Conj(fpr_gm_tab[u + hn(logn[f])])))]

(* f0[0] = f[0] and f1[0] = f[hn] come first, and are overwritten unless   *)
(* logn = 1.                                                               *)
SplitInto(old, l, first, z) ==
  IF l = 1 THEN [old EXCEPT ![0] = first] ELSE Stored(old, l - 1, z)

poly_split_fft(f0, f1, f) ==
  /\ Call("poly_split_fft", <<f0, f1, f>>)
  /\ f0 # f1 /\ f0 # f /\ f1 # f /\ FFTOperands({f})
  /\ buf' = [buf EXCEPT
       ![f0] = SplitInto(@, logn[f], buf[f][0], SplitEven(f)),
       ![f1] = SplitInto(@, logn[f], buf[f][hn(logn[f])], SplitOdd(f))]
  /\ Receive({f0, f1}, logn[f] - 1)

(* Faulty variant: the twiddle of the half-size transform.                 *)
MergedSmallTwiddle(f0, f1, l, s) ==
  LET u == s \div 2
      b == FPC_MUL(Slot(f1, u), fpr_gm_tab[u + qn(l)])
  IN  IF s % 2 = 0 THEN FPC_ADD(Slot(f0, u), b) ELSE FPC_SUB(Slot(f0, u), b)

Merged(f0, f1, l, s) ==
  LET u == s \div 2
      b == FPC_MUL(Slot(f1, u), fpr_gm_tab[u + hn(l)])
  IN  IF s % 2 = 0 THEN FPC_ADD(Slot(f0, u), b) ELSE FPC_SUB(Slot(f0, u), b)

poly_merge_fft(f, f0, f1) ==
  LET l == logn[f0] + 1
      z == [s \in Places(l) |-> IF l = 1 THEN <<buf[f0][0], buf[f1][0]>>
                                ELSE Merged(f0, f1, l, s)]
  IN  /\ Call("poly_merge_fft", <<f, f0, f1>>)
      /\ f \notin {f0, f1} /\ l <= LogMax
      /\ SameSize({f0, f1}) /\ rep[f0] = "fft" /\ rep[f1] = "fft"
      /\ buf' = [buf EXCEPT ![f] = Stored(@, l, z)]
      /\ Receive({f}, l)

(* Bounds of the model: the calls with five buffers come first, and the    *)
(* two factors of a poly_add_muladj_fft differ.                            *)
First == call = NoCall

Next ==
  \/ \E a \in Bufs : FFT(a) \/ iFFT(a) \/ poly_neg(a) \/ poly_adj_fft(a)
                     \/ poly_mulselfadj_fft(a)
  \/ \E a \in Bufs, x \in Constants : poly_mulconst(a, x)
  \/ \E a, b \in Bufs :
       \/ poly_add(a, b) \/ poly_sub(a, b)
       \/ poly_mul_fft(a, b) \/ poly_muladj_fft(a, b) \/ poly_div_fft(a, b)
       \/ poly_mul_autoadj_fft(a, b) \/ poly_div_autoadj_fft(a, b)
  \/ \E x, y, z \in Bufs :
       \/ poly_invnorm2_fft(x, y, z) \/ poly_LDL_fft(x, y, z)
       \/ poly_split_fft(x, y, z) \/ poly_merge_fft(x, y, z)
  \/ /\ First
     /\ \E d, e, x, y, z \in Bufs :
          \/ e # x /\ y # z /\ poly_add_muladj_fft(d, e, x, y, z)
          \/ poly_LDLmv_fft(d, e, x, y, z)

Spec == Init /\ [][Next]_vars

-----------------------------------------------------------------------------
TypeOK ==
  /\ buf \in [Bufs -> Array]
  /\ logn \in [Bufs -> 0 .. LogMax]
  /\ rep \in [Bufs -> Representations]
  /\ \A r \in Bufs : rep[r] = "half" => logn[r] >= 1
  /\ calls \in Nat

(***************************************************************************)
(* Every operation does to the polynomials what inner.h says, in every     *)
(* sequence of legal calls.  The slot order FFT leaves, the twiddles of    *)
(* split and merge at every size, the conjugations and the half-filled     *)
(* results have to agree for that.                                         *)
(***************************************************************************)
Ring == INSTANCE RingOps WITH poly <- [r \in Bufs |-> Represented(r)]

ImplementsRingOps == Ring!Spec

=============================================================================

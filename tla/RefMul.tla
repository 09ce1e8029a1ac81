------------------------------- MODULE RefMul -------------------------------
(***************************************************************************)
(* The reference multiplication: fft_mul of the harness (and REF_FN of the *)
(* target driver) over FFT, poly_mul_fft and iFFT of fft.c, one action per *)
(* butterfly, with the loop counters of the source.                        *)
(*                                                                         *)
(* The transforms work in place on arrays of n reals that hold n/2 complex *)
(* numbers.  The loops whose iterations touch disjoint slots and carry no  *)
(* counter (conversion, pointwise product, final scaling) are one action   *)
(* each.  The AVX2 variant of a loop runs four consecutive j of the same   *)
(* block together; its slots are disjoint, so it computes the same values. *)
(***************************************************************************)
EXTENDS MulCall

VARIABLES
  out, fb,             \* the two arrays of fpr
  arr,                 \* the array FFT works on: "out" or "fb"
  pc,
  u, m, t, i1, j1, j   \* the counters of FFT and iFFT

counters == <<u, m, t, i1, j1, j>>
vars == <<logn, a, b, out, fb, arr, pc, counters>>

Init ==
  /\ logn \in 1 .. LogMax
  /\ a \in Operands(logn) /\ b \in Operands(logn)
  /\ out = a /\ fb = a       \* whatever they hold, it is overwritten
  /\ arr = "out"
  /\ pc = "convert"
  /\ u = 0 /\ m = 0 /\ t = 0 /\ i1 = 0 /\ j1 = 0 /\ j = 0

-----------------------------------------------------------------------------
(* FFT(f, logn): the first iteration of the algorithm is a no-op in this   *)
(* representation, so the loop starts at u = 1, m = 2, t = hn.             *)
EnterFFT(x) ==
  /\ pc' = "FFT" /\ arr' = x
  /\ u' = 1 /\ m' = 2 /\ t' = hn /\ i1' = 0 /\ j1' = 0 /\ j' = 0

EnterIFFT ==
  /\ pc' = "iFFT" /\ arr' = "out"
  /\ u' = logn /\ m' = n /\ t' = 1 /\ i1' = 0 /\ j1' = 0 /\ j' = 0

(* out[u] = fpr_of(a[u]); fb[u] = fpr_of(b[u]).                            *)
Convert ==
  /\ pc = "convert"
  /\ out' = a /\ fb' = b
  /\ EnterFFT("out")
  /\ UNCHANGED <<logn, a, b>>

ht == t \div 2    \* FFT
dt == t * 2       \* iFFT
hm == m \div 2    \* both

(* Faulty variants, for the mutants of the run: the twiddle of the wrong   *)
(* stage, and the two outputs of the butterfly exchanged.                  *)
ForwardButterflyStaleTwiddle(f) ==
  LET s == fpr_gm_tab[hm + i1]
      x == At(f, hn, j)
      y == FPC_MUL(At(f, hn, j + ht), s)
  IN  Store2(f, j, FPC_ADD(x, y), j + ht, FPC_SUB(x, y))

ForwardButterflyExchanged(f) ==
  LET s == fpr_gm_tab[m + i1]
      x == At(f, hn, j)
      y == FPC_MUL(At(f, hn, j + ht), s)
  IN  Store2(f, j, FPC_SUB(x, y), j + ht, FPC_ADD(x, y))

(* f[j] <- x + s*y, f[j+ht] <- x - s*y, s = GM[m + i1].                    *)
ForwardButterfly(f) ==
  LET s == fpr_gm_tab[m + i1]
      x == At(f, hn, j)
      y == FPC_MUL(At(f, hn, j + ht), s)
  IN  Store2(f, j, FPC_ADD(x, y), j + ht, FPC_SUB(x, y))

(* Faulty variant: one block too many in each stage.                       *)
ForwardNextOneMore ==
  \/ /\ j + 1 < j1 + ht
     /\ j' = j + 1
     /\ UNCHANGED <<u, m, t, i1, j1>>
  \/ /\ ~(j + 1 < j1 + ht) /\ i1 < hm
     /\ i1' = i1 + 1 /\ j1' = j1 + t /\ j' = j1 + t
     /\ UNCHANGED <<u, m, t>>
  \/ /\ ~(j + 1 < j1 + ht) /\ ~(i1 < hm)
     /\ u' = u + 1 /\ m' = m * 2 /\ t' = ht
     /\ i1' = 0 /\ j1' = 0 /\ j' = 0

(* The three nested loops of FFT: next j, next block, next stage.          *)
ForwardNext ==
  \/ /\ j + 1 < j1 + ht
     /\ j' = j + 1
     /\ UNCHANGED <<u, m, t, i1, j1>>
  \/ /\ ~(j + 1 < j1 + ht) /\ i1 + 1 < hm
     /\ i1' = i1 + 1 /\ j1' = j1 + t /\ j' = j1 + t
     /\ UNCHANGED <<u, m, t>>
  \/ /\ ~(j + 1 < j1 + ht) /\ ~(i1 + 1 < hm)
     /\ u' = u + 1 /\ m' = m * 2 /\ t' = ht
     /\ i1' = 0 /\ j1' = 0 /\ j' = 0

FFTStep ==
  /\ pc = "FFT" /\ u < logn
  /\ \/ arr = "out" /\ out' = ForwardButterfly(out) /\ fb' = fb
     \/ arr = "fb" /\ fb' = ForwardButterfly(fb) /\ out' = out
  /\ ForwardNext
  /\ UNCHANGED <<logn, a, b, arr, pc>>

FFTReturn ==
  /\ pc = "FFT" /\ ~(u < logn)
  /\ \/ arr = "out" /\ EnterFFT("fb")
     \/ arr = "fb" /\ pc' = "poly_mul_fft" /\ UNCHANGED <<arr, counters>>
  /\ UNCHANGED <<logn, a, b, out, fb>>

(* a[v] *= b[v] on the hn complex slots.                                   *)
poly_mul_fft(f, g) ==
  [v \in 0 .. n-1 |-> LET s == v % hn
                          z == FPC_MUL(At(f, hn, s), At(g, hn, s))
                      IN  IF v < hn THEN z[1] ELSE z[2]]

PolyMulFFT ==
  /\ pc = "poly_mul_fft"
  /\ out' = poly_mul_fft(out, fb)
  /\ EnterIFFT
  /\ UNCHANGED <<logn, a, b, fb>>

(* Faulty variant: the twiddle is not conjugated.                          *)
InverseButterflyForwardTwiddle(f) ==
  LET s == fpr_gm_tab[hm + i1]
      x == At(f, hn, j)
      y == At(f, hn, j + t)
  IN  Store2(f, j, FPC_ADD(x, y), j + t, FPC_MUL(FPC_SUB(x, y), s))

(* f[j] <- x + y, f[j+t] <- conj(s)*(x - y), s = GM[hm + i1].              *)
InverseButterfly(f) ==
  LET s == Conj(fpr_gm_tab[hm + i1])
      x == At(f, hn, j)
      y == At(f, hn, j + t)
  IN  Store2(f, j, FPC_ADD(x, y), j + t, FPC_MUL(FPC_SUB(x, y), s))

(* Faulty variant: the blocks of iFFT are counted down from the first.     *)
InverseNextDownwards ==
  \/ /\ j + 1 < j1 + t
     /\ j' = j + 1
     /\ UNCHANGED <<u, m, t, i1, j1>>
  \/ /\ ~(j + 1 < j1 + t) /\ j1 + dt < hn
     /\ i1' = i1 + 1 /\ j1' = j1 - dt /\ j' = j1 - dt
     /\ UNCHANGED <<u, m, t>>
  \/ /\ ~(j + 1 < j1 + t) /\ ~(j1 + dt < hn)
     /\ u' = u - 1 /\ m' = hm /\ t' = dt
     /\ i1' = 0 /\ j1' = 0 /\ j' = 0

InverseNext ==
  \/ /\ j + 1 < j1 + t
     /\ j' = j + 1
     /\ UNCHANGED <<u, m, t, i1, j1>>
  \/ /\ ~(j + 1 < j1 + t) /\ j1 + dt < hn
     /\ i1' = i1 + 1 /\ j1' = j1 + dt /\ j' = j1 + dt
     /\ UNCHANGED <<u, m, t>>
  \/ /\ ~(j + 1 < j1 + t) /\ ~(j1 + dt < hn)
     /\ u' = u - 1 /\ m' = hm /\ t' = dt
     /\ i1' = 0 /\ j1' = 0 /\ j' = 0

IFFTStep ==
  /\ pc = "iFFT" /\ u > 1
  /\ out' = InverseButterfly(out)
  /\ InverseNext
  /\ UNCHANGED <<logn, a, b, fb, arr, pc>>

(* Faulty variant: the scaling of the next smaller size.                   *)
IFFTScaleOffByOne ==
  /\ pc = "iFFT" /\ ~(u > 1)
  /\ out' = [v \in 0 .. n-1 |-> (out[v] * fpr_p2_tab[logn - 1]) % P]
  /\ pc' = "done"
  /\ UNCHANGED <<logn, a, b, fb, arr, counters>>

(* The division by N/2 that ends iFFT; logn > 0 here, as in every caller.  *)
IFFTScale ==
  /\ pc = "iFFT" /\ ~(u > 1)
  /\ out' = [v \in 0 .. n-1 |-> (out[v] * fpr_p2_tab[logn]) % P]
  /\ pc' = "done"
  /\ UNCHANGED <<logn, a, b, fb, arr, counters>>

Next == Convert \/ FFTStep \/ FFTReturn \/ PolyMulFFT \/ IFFTStep \/ IFFTScale

Spec == Init /\ [][Next]_vars /\ WF_vars(Next)

-----------------------------------------------------------------------------
(***************************************************************************)
(* Types, and the ranges of the loop counters.                             *)
(***************************************************************************)
TypeOK ==
  /\ logn \in 1 .. LogMax
  /\ a \in Poly(logn) /\ b \in Poly(logn)
  /\ out \in Poly(logn) /\ fb \in Poly(logn)
  /\ arr \in {"out", "fb"}
  /\ pc \in {"convert", "FFT", "poly_mul_fft", "iFFT", "done"}
  /\ u \in Nat /\ m \in Nat /\ t \in Nat /\ i1 \in Nat /\ j1 \in Nat /\ j \in Nat

(***************************************************************************)
(* No butterfly reads or writes outside its arrays: FFT (and iFFT) touch   *)
(* the complex slots j and j + ht (j + t), so the reals up to j + ht + hn,  *)
(* and read the twiddle GM[m + i1] (GM[hm + i1]), never entry 0, which     *)
(* is not a root of unity.                                                 *)
(***************************************************************************)
InBounds ==
  /\ pc = "FFT" /\ u < logn =>
       /\ ht >= 1 /\ j + ht + hn < n
       /\ m + i1 \in 1 .. Pow2[LogMax] - 1
  /\ pc = "iFFT" /\ u > 1 =>
       /\ j + t + hn < n
       /\ hm + i1 \in 1 .. Pow2[LogMax] - 1

(* The slots of a stage whose butterfly has been done, half = ht or t.     *)
Touched(s, size, half) ==
  \/ s < j1
  \/ s < j1 + size /\ s % half < j - j1

(***************************************************************************)
(* FFT, in the middle of a stage: a slot whose butterfly is still to come  *)
(* holds a coefficient of the operand modulo X^t - c, one whose butterfly  *)
(* is done holds a coefficient modulo X^ht - c', with the c and c' of the  *)
(* evaluation points its block ends up with.  In-place update, loop        *)
(* bounds and twiddle index all have to agree for this to hold.            *)
(***************************************************************************)
ForwardHolds(f, x) ==
  \A s \in 0 .. hn-1 :
    At(f, hn, s) =
      Remainder(x, logn, IF u < logn /\ Touched(s, t, ht) THEN ht ELSE t, s)

ForwardInv ==
  pc = "FFT" => /\ arr = "out" => ForwardHolds(out, a)
                /\ arr = "fb" => ForwardHolds(fb, b)

(***************************************************************************)
(* The slot layout other code relies on (poly_split_fft, poly_merge_fft,   *)
(* myfft.c): after FFT, slot s holds f(w_j), j = rev(s).                   *)
(***************************************************************************)
FFTLayout ==
  /\ pc = "FFT" /\ arr = "fb" => Layout(out, a)
  /\ pc = "poly_mul_fft" => Layout(out, a) /\ Layout(fb, b)

(***************************************************************************)
(* iFFT undoes FFT stage by stage without the halvings: a slot holds t     *)
(* times (2t times, once its butterfly is done) the coefficient FFT had    *)
(* there for the product.  The single scaling at the end removes N/2.      *)
(***************************************************************************)
InverseInv ==
  pc = "iFFT" =>
    LET prod == SchoolbookMul(a, b, logn)
    IN  \A s \in 0 .. hn-1 :
          LET size == IF u > 1 /\ Touched(s, dt, t) THEN dt ELSE t
          IN  At(out, hn, s) = Scale(size, Remainder(prod, logn, size, s))

(* fft_mul implements the multiplication modulo X^N + 1.                   *)
Product == INSTANCE PolyMul
             WITH result <- IF pc = "done" THEN out ELSE NoResult

ImplementsPolyMul == Product!Spec

(***************************************************************************)
(* The header comment of fft.c: for j in 0..N/2-1, f(w_j) is in slot       *)
(* rev(j)/2.  The code disagrees with it from logn = 2 on.                 *)
(***************************************************************************)
HeaderLayout ==
  pc = "poly_mul_fft" =>
    \A k \in 0 .. hn-1 :
      At(out, hn, Rev(k, logn) \div 2) = Horner(a, 0, 1, n, RootW(logn, k))

=============================================================================

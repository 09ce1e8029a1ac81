-------------------------------- MODULE MyMul --------------------------------
(***************************************************************************)
(* The from-scratch multiplication, my_poly_mul of myfft.c, over my_FFT,   *)
(* my_poly_mul_fft and my_iFFT: twist to a cyclic convolution, decimation  *)
(* in frequency forward, decimation in time back, untwist.  One action per *)
(* butterfly; the loops whose iterations touch disjoint slots and carry no *)
(* counter (conversion, twist, pointwise product, untwist) are one action  *)
(* each.                                                                   *)
(*                                                                         *)
(* The twiddle tables are ready and the scratch array was allocated: what  *)
(* happens otherwise is the subject of TwiddleCache.                       *)
(***************************************************************************)
EXTENDS MulCall

VARIABLES
  mine, tmp,        \* the two arrays of double, out and tmp
  myArr,            \* the array my_FFT works on: "out" or "tmp"
  myPc,
  len, start, k     \* the counters of the butterfly loops

myCounters == <<len, start, k>>
myVars == <<logn, a, b, mine, tmp, myArr, myPc, myCounters>>

half == len \div 2

stepOfN == n \div len   \* faulty variant: the stride taken from n

step == hn \div len

MyInit ==
  /\ logn \in 1 .. LogMax
  /\ a \in Operands(logn) /\ b \in Operands(logn)
  /\ mine = a /\ tmp = a      \* whatever they hold, it is overwritten
  /\ myArr = "out"
  /\ myPc = "convert"
  /\ len = 0 /\ start = 0 /\ k = 0

-----------------------------------------------------------------------------
(* out[u] = (double)a[u]; tmp[u] = (double)b[u].                           *)
MyConvert ==
  /\ myPc = "convert"
  /\ mine' = a /\ tmp' = b
  /\ myPc' = "twist" /\ myArr' = "out"
  /\ UNCHANGED <<logn, a, b, myCounters>>

(* The array whose complex slot v holds z[v].                              *)
Slots(z) ==
  [x \in 0 .. n-1 |-> IF x < hn THEN z[x][1] ELSE z[x - hn][2]]

(* Faulty variant: the twist of the inverse transform.                     *)
TwistedBack(f) ==
  Slots([v \in 0 .. hn-1 |-> FPC_MUL(At(f, hn, v), Conj(tabs[logn].tw[v]))])

(* c[v] = zeta^v * (a[v] + i*a[v+hn]); then the DFT starts with len = hn.  *)
Twisted(f) ==
  Slots([v \in 0 .. hn-1 |-> FPC_MUL(At(f, hn, v), tabs[logn].tw[v])])

TwistStep ==
  /\ myPc = "twist"
  /\ \/ myArr = "out" /\ mine' = Twisted(mine) /\ tmp' = tmp
     \/ myArr = "tmp" /\ tmp' = Twisted(tmp) /\ mine' = mine
  /\ myPc' = "dif"
  /\ len' = hn /\ start' = 0 /\ k' = 0
  /\ UNCHANGED <<logn, a, b, myArr>>

(* Faulty variant: the table of w is read without its stride.              *)
ForwardButterflyUnstrided(f) ==
  LET p == start + k
      q == p + half
      x == At(f, hn, p)
      y == At(f, hn, q)
      w == tabs[logn].w[k]
  IN  Store2(f, p, FPC_ADD(x, y), q, FPC_MUL(FPC_SUB(x, y), w))

(* A' = A + B, B' = (A - B)*w[k*step].                                     *)
MyForwardButterfly(f) ==
  LET p == start + k
      q == p + half
      x == At(f, hn, p)
      y == At(f, hn, q)
      w == tabs[logn].w[k * step]
  IN  Store2(f, p, FPC_ADD(x, y), q, FPC_MUL(FPC_SUB(x, y), w))

(* Faulty variant: the blocks are counted down from the first.             *)
NextPairDownwards(nextLen) ==
  \/ /\ k + 1 < half
     /\ k' = k + 1 /\ UNCHANGED <<len, start>>
  \/ /\ ~(k + 1 < half) /\ start + len < hn
     /\ start' = start - len /\ k' = 0 /\ len' = len
  \/ /\ ~(k + 1 < half) /\ ~(start + len < hn)
     /\ len' = nextLen /\ start' = 0 /\ k' = 0

(* The loops over k and start, the same in both transforms.                *)
NextPair(nextLen) ==
  \/ /\ k + 1 < half
     /\ k' = k + 1 /\ UNCHANGED <<len, start>>
  \/ /\ ~(k + 1 < half) /\ start + len < hn
     /\ start' = start + len /\ k' = 0 /\ len' = len
  \/ /\ ~(k + 1 < half) /\ ~(start + len < hn)
     /\ len' = nextLen /\ start' = 0 /\ k' = 0

DIFStep ==
  /\ myPc = "dif" /\ len >= 2
  /\ \/ myArr = "out" /\ mine' = MyForwardButterfly(mine) /\ tmp' = tmp
     \/ myArr = "tmp" /\ tmp' = MyForwardButterfly(tmp) /\ mine' = mine
  /\ NextPair(len \div 2)
  /\ UNCHANGED <<logn, a, b, myArr, myPc>>

DIFReturn ==
  /\ myPc = "dif" /\ ~(len >= 2)
  /\ \/ myArr = "out" /\ myArr' = "tmp" /\ myPc' = "twist"
     \/ myArr = "tmp" /\ myArr' = myArr /\ myPc' = "my_poly_mul_fft"
  /\ UNCHANGED <<logn, a, b, mine, tmp, myCounters>>

(* Faulty variant: the product is stored in the second array.              *)
PolyMulFFTIntoSecond ==
  /\ myPc = "my_poly_mul_fft"
  /\ tmp' = Slots([v \in 0 .. hn-1 |-> FPC_MUL(At(mine, hn, v), At(tmp, hn, v))])
  /\ myPc' = "dit" /\ myArr' = "out"
  /\ len' = 2 /\ start' = 0 /\ k' = 0
  /\ UNCHANGED <<logn, a, b, mine>>

(* my_poly_mul_fft, then my_iFFT starts with len = 2.                      *)
MyPolyMulFFT ==
  /\ myPc = "my_poly_mul_fft"
  /\ mine' = Slots([v \in 0 .. hn-1 |-> FPC_MUL(At(mine, hn, v), At(tmp, hn, v))])
  /\ myPc' = "dit" /\ myArr' = "out"
  /\ len' = 2 /\ start' = 0 /\ k' = 0
  /\ UNCHANGED <<logn, a, b, tmp>>

(* Faulty variant: the twiddle is not conjugated.                          *)
MyInverseButterflyForwardTwiddle(f) ==
  LET p == start + k
      q == p + half
      x == At(f, hn, p)
      w == tabs[logn].w[k * step]
      c == FPC_MUL(At(f, hn, q), w)
  IN  Store2(f, p, FPC_ADD(x, c), q, FPC_SUB(x, c))

(* c = B*conj(w[k*step]); A' = A + c, B' = A - c.                          *)
MyInverseButterfly(f) ==
  LET p == start + k
      q == p + half
      x == At(f, hn, p)
      w == tabs[logn].w[k * step]
      c == FPC_MUL(At(f, hn, q), Conj(w))
  IN  Store2(f, p, FPC_ADD(x, c), q, FPC_SUB(x, c))

DITStep ==
  /\ myPc = "dit" /\ len <= hn
  /\ mine' = MyInverseButterfly(mine)
  /\ NextPair(len * 2)
  /\ UNCHANGED <<logn, a, b, tmp, myArr, myPc>>

(* Faulty variant: divided by n and not by n/2.                            *)
UntwistByN ==
  /\ myPc = "dit" /\ ~(len <= hn)
  /\ mine' = Slots([v \in 0 .. hn-1 |->
              Scale(fpr_p2_tab[logn] * ((P + 1) \div 2),
                    FPC_MUL(At(mine, hn, v), Conj(tabs[logn].tw[v])))])
  /\ myPc' = "done"
  /\ UNCHANGED <<logn, a, b, tmp, myArr, myCounters>>

(* Multiply by conj(zeta^v) and by 1/hn; my_poly_mul frees tmp, returns.   *)
Untwist ==
  /\ myPc = "dit" /\ ~(len <= hn)
  /\ mine' = Slots([v \in 0 .. hn-1 |->
              Scale(fpr_p2_tab[logn],
                    FPC_MUL(At(mine, hn, v), Conj(tabs[logn].tw[v])))])
  /\ myPc' = "done"
  /\ UNCHANGED <<logn, a, b, tmp, myArr, myCounters>>

MyNext == MyConvert \/ TwistStep \/ DIFStep \/ DIFReturn \/ MyPolyMulFFT
        \/ DITStep \/ Untwist

MySpec == MyInit /\ [][MyNext]_myVars /\ WF_myVars(MyNext)

-----------------------------------------------------------------------------
(***************************************************************************)
(* Types, and the ranges of the loop counters.                             *)
(***************************************************************************)
MyTypeOK ==
  /\ logn \in 1 .. LogMax
  /\ a \in Poly(logn) /\ b \in Poly(logn)
  /\ mine \in Poly(logn) /\ tmp \in Poly(logn)
  /\ myArr \in {"out", "tmp"}
  /\ myPc \in {"convert", "twist", "dif", "my_poly_mul_fft", "dit", "done"}
  /\ len \in Nat /\ start \in Nat /\ k \in Nat

(***************************************************************************)
(* No butterfly of my_FFT or my_iFFT leaves the array (the real start + k  *)
(* + half + hn is the last it touches) or the hn/2 entries of w.           *)
(***************************************************************************)
MyInBounds ==
  (myPc = "dif" /\ len >= 2) \/ (myPc = "dit" /\ len <= hn) =>
    /\ half >= 1 /\ start + k + half + hn < n
    /\ k * step < hn \div 2

(* The slots of a stage whose butterfly has been done.                     *)
MyTouched(s) ==
  \/ s < start
  \/ s < start + len /\ (s - start) % half < k

(***************************************************************************)
(* What a block of size slots holds for the polynomial f: its remainder    *)
(* modulo X^size - c, c = x0^size, the coefficient of degree d multiplied  *)
(* by x0^d, where x0 is the evaluation point of the block's first slot.    *)
(* This is the reference's block (RefMul) twisted to a cyclic one.         *)
(***************************************************************************)
TwistedRemainder(f, size, s) ==
  LET first == BlockStart(size, s)
  IN  FPC_MUL(Exp((s - first) * PointExponent(logn, first)),
              Remainder(f, logn, size, s))

MyForwardHolds(f, x) ==
  \A s \in 0 .. hn-1 :
    At(f, hn, s) =
      TwistedRemainder(x, IF len >= 2 /\ MyTouched(s) THEN half ELSE len, s)

(***************************************************************************)
(* my_FFT, in the middle of a stage: every slot holds the twisted          *)
(* coefficient its block stands for, of the block before or after the      *)
(* butterfly.  Table stride, block bounds and in-place update have to      *)
(* agree for this to hold.                                                 *)
(***************************************************************************)
MyForwardInv ==
  myPc = "dif" => /\ myArr = "out" => MyForwardHolds(mine, a)
                  /\ myArr = "tmp" => MyForwardHolds(tmp, b)

(***************************************************************************)
(* my_FFT leaves f(w_j), j = rev(s), in slot s: the layout of fft.c, so    *)
(* that intermediate values of the two can be compared slot by slot.       *)
(***************************************************************************)
MyFFTLayout ==
  /\ myPc = "twist" /\ myArr = "tmp" => Layout(mine, a)
  /\ myPc = "my_poly_mul_fft" => Layout(mine, a) /\ Layout(tmp, b)

(***************************************************************************)
(* my_iFFT runs the stages backwards without the halvings: a block of size *)
(* slots holds size times what my_FFT had there for the product.           *)
(***************************************************************************)
MyInverseInv ==
  myPc = "dit" =>
    LET prod == SchoolbookMul(a, b, logn)
    IN  \A s \in 0 .. hn-1 :
          LET size == IF len <= hn /\ MyTouched(s) THEN len ELSE half
          IN  At(mine, hn, s) = Scale(size, TwistedRemainder(prod, size, s))

(* my_poly_mul implements the multiplication modulo X^N + 1.               *)
MyProduct == INSTANCE PolyMul
             WITH result <- IF myPc = "done" THEN mine ELSE NoResult

MyImplementsPolyMul == MyProduct!Spec

=============================================================================

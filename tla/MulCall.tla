------------------------------- MODULE MulCall -------------------------------
(***************************************************************************)
(* A call of a multiplication: the operands of one size that RefMul and    *)
(* MyMul have in common, and the representation both work in, an array of  *)
(* n reals whose complex slot s is the pair of reals s and s + hn.         *)
(***************************************************************************)
EXTENDS Negacyclic

CONSTANT Operands(_)   \* the operands of size 2^logn that are tried

ASSUME OperandsAssumption ==
  \A l \in 1 .. LogMax : Operands(l) \subseteq Poly(l)

VARIABLES
  logn,
  a, b                 \* the operands, as integers

n  == Pow2[logn]
hn == n \div 2

(* The array after complex numbers v and w are stored in slots p and q.    *)
Store2(f, p, v, q, w) ==
  [f EXCEPT ![p] = v[1], ![p + hn] = v[2], ![q] = w[1], ![q + hn] = w[2]]

(* The slot layout of the FFT domain: slot s holds f(w_j), j = rev(s).     *)
Layout(f, x) == \A s \in 0 .. hn-1 : At(f, hn, s) = Value(x, logn, s)

(* No product yet, for the refinement of PolyMul.                          *)
NoResult == << >>

=============================================================================

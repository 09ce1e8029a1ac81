------------------------------ MODULE MCArith ------------------------------
(***************************************************************************)
(* Values of the constants of ExactComplex for TLC: P = 31 has a unit      *)
(* circle of 32 elements, enough for LogMax = 4, that is N up to 16.  The  *)
(* circle is a literal, which CircleAssumption checks, because TLC would   *)
(* compute it anew at each use under a fairness condition.                 *)
(***************************************************************************)
EXTENDS Negacyclic

Pow2Of(l) == 2 ^ l

MCPow2 == [l \in 0 .. LogMax |-> 2 ^ l]

(* The 32 powers of an element of norm 1 whose 8th power is i; a smaller   *)
(* table has every second of them, or every fourth.                        *)
MCCircle ==
  LET power == <<<<1, 0>>, <<2, 20>>, <<7, 18>>, <<26, 21>>, <<4, 4>>, <<21, 26>>,
                 <<18, 7>>, <<20, 2>>, <<0, 1>>, <<11, 2>>, <<13, 7>>, <<10, 26>>,
                 <<27, 4>>, <<5, 21>>, <<24, 18>>, <<29, 20>>, <<30, 0>>, <<29, 11>>,
                 <<24, 13>>, <<5, 10>>, <<27, 27>>, <<10, 5>>, <<13, 24>>, <<11, 29>>,
                 <<0, 30>>, <<20, 29>>, <<18, 24>>, <<21, 5>>, <<4, 27>>, <<26, 10>>,
                 <<7, 13>>, <<2, 11>>>>
  IN  [k \in 0 .. 2 * Pow2[LogMax] - 1 |-> power[k * Pow2Of(4 - LogMax) + 1]]

Dense(l) == [i \in 0 .. Pow2[l] - 1 |-> (7 * i + 3) % P]

MCOperands(l) == {Monomial(l, k) : k \in 0 .. Pow2[l] - 1} \cup {Dense(l)}

=============================================================================

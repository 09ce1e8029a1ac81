------------------------------- MODULE MCFpr --------------------------------
(* Fpr for TLC.                                                            *)
EXTENDS Fpr

MCNormSteps == <<8, 4, 2, 1>>

(* Zeros, results below the smallest normal number, exponents that differ  *)
(* by more than a word has bits.                                           *)
Exponents == {0, 1, 2, 9, 10, 11, 14, 20, 21}

MCOperands == {z \in Encodings : Exp(z) \in Exponents}

MCIntegers == (-600 .. 600) \cup {i \in -32767 .. 32767 : i % 61 = 0}

MCScales == {-6, -1, 0}

=============================================================================

---------------------------- MODULE MCCrossCheck ----------------------------
(***************************************************************************)
(* CrossCheck for TLC, over every pair of operands of MCArith: as the      *)
(* transforms are linear and the product bilinear, what holds for every    *)
(* pair of monomials of a size holds for every pair of operands of that    *)
(* size; a dense operand, all coefficients different, checks that argument.*)
(***************************************************************************)
EXTENDS CrossCheck, MCArith

=============================================================================

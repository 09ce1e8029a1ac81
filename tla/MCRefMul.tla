------------------------------ MODULE MCRefMul ------------------------------
(* RefMul alone for TLC, with the operands of MCArith.                     *)
EXTENDS RefMul, MCArith

=============================================================================

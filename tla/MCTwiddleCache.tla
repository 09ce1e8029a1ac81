--------------------------- MODULE MCTwiddleCache ---------------------------
(***************************************************************************)
(* TwiddleCache for TLC: three supported sizes, among them logn = 1, whose *)
(* DFT table is empty, and logn = 3, whose table has two entries; room for *)
(* all their arrays and the scratch array, so that a failure is the choice *)
(* of malloc and never forced.                                             *)
(***************************************************************************)
EXTENDS TwiddleCache

MCPow2 == [l \in Logn |-> 2 ^ l]
MCAddress == 1 .. 4 * MYFFT_MAX_LOGN + 1

=============================================================================

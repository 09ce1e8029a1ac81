---------------------------- MODULE MCHostBench ----------------------------
(***************************************************************************)
(* HostBench for TLC: two sizes, three timed batches, three interruptions, *)
(* which may spoil one batch each, all batches of one operation, or        *)
(* its calibration.  A memcpy reaches the cap of the calls, a transform is *)
(* calibrated after two or four, the schoolbook product at once.           *)
(***************************************************************************)
EXTENDS HostBench

MCCallCost == [l \in Libs |->
  [f \in Functions |-> IF f = "mulfft" THEN 2
                       ELSE IF l = "my" THEN 5 ELSE 4]]

MCDelays == {4}

=============================================================================

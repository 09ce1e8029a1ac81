------------------------------ MODULE MCTiming ------------------------------
(***************************************************************************)
(* Timing for TLC.  The sizes are scaled down so that within one region    *)
(* the counter and uwTick can wrap, SysTick can fire up to three times,    *)
(* and the fastest and the slowest code there is are measured; Period and  *)
(* CounterSize have no common factor, so every phase meets every count.    *)
(***************************************************************************)
EXTENDS Timing

=============================================================================

------------------------------ MODULE CacheSpec ------------------------------
(***************************************************************************)
(* What callers of myfft.c may take for granted about its tables, without  *)
(* a word on how they are stored: the sizes that are ready, and what comes *)
(* of a call.  A call that finds its tables ready cannot lose them; only   *)
(* one that does not may leave a buffer spoilt.                            *)
(***************************************************************************)
EXTENDS Integers

CONSTANT MYFFT_MAX_LOGN

VARIABLES
  ready,      \* the sizes a transform can work with
  call,       \* the function in progress, or "none"
  logn,       \* its argument
  prepared,   \* its size was ready when it was called
  status      \* "running", what became of the call, or "idle"

vars == <<ready, call, logn, prepared, status>>

Init ==
  /\ ready = {} /\ call = "none" /\ logn = 0 /\ prepared = FALSE
  /\ status = "idle"

(* my_poly_mul makes transforms; the others that need tables are one.      *)
Single == {"my_fft_init", "my_FFT", "my_iFFT"}

Call(f, l) ==
  /\ status = "idle" /\ status' = "running"
  /\ call' = f /\ logn' = l /\ prepared' = (l \in ready)
  /\ UNCHANGED ready

(* The tables of the call's size are built; with them my_fft_init is done. *)
Build ==
  /\ status = "running" /\ call \in Single \cup {"my_poly_mul"}
  /\ logn \in (1 .. MYFFT_MAX_LOGN) \ ready
  /\ ready' = ready \cup {logn}
  /\ status' = IF call = "my_fft_init" THEN "done" ELSE "running"
  /\ UNCHANGED <<call, logn, prepared>>

End(outcome) ==
  /\ status = "running" /\ status' = outcome
  /\ UNCHANGED <<ready, call, logn, prepared>>

Deliver ==
  call \in Single \cup {"my_poly_mul"} /\ logn \in ready /\ End("done")

(* The caller's buffer is as it was: nothing is built for a size that is   *)
(* not supported or has no room; my_poly_mul may also lack its own.        *)
Refuse ==
  /\ call \in Single => logn \notin ready
  /\ call \in Single \cup {"my_poly_mul"}
  /\ End("untouched")

(* Some of the transforms of a my_poly_mul were made and others not.       *)
Spoil == call = "my_poly_mul" /\ ~prepared /\ End("spoilt")

Forget ==
  /\ status = "running" /\ call = "my_fft_free"
  /\ ready' = {} /\ status' = "done"
  /\ UNCHANGED <<call, logn, prepared>>

Leave ==
  /\ status \in {"done", "untouched", "spoilt"}
  /\ status' = "idle" /\ call' = "none"
  /\ UNCHANGED <<ready, logn, prepared>>

Next ==
  \/ Call("my_fft_free", 0)
  \/ \E f \in Single \cup {"my_poly_mul"}, l \in 0 .. MYFFT_MAX_LOGN + 1 : Call(f, l)
  \/ Build \/ Deliver \/ Refuse \/ Spoil \/ Forget \/ Leave

Spec == Init /\ [][Next]_vars

=============================================================================

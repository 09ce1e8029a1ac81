---------------------------- MODULE TwiddleCache ----------------------------
(***************************************************************************)
(* The twiddle tables of myfft.c: built on demand by my_fft_init, one set  *)
(* of four arrays per logn, kept until my_fft_free, used by my_FFT,        *)
(* my_iFFT and my_poly_mul.  Every malloc may fail.                        *)
(*                                                                         *)
(* The program calls the library from one thread, so calls do not overlap; *)
(* it may make them in any order.  A buffer is represented by what its     *)
(* doubles stand for (Content), the values themselves being the subject of *)
(* MyMul.  Undefined behaviour (a bad free, a table that is freed,         *)
(* unfilled or too short) is recorded in fault.                            *)
(***************************************************************************)
EXTENDS Integers, Sequences, FiniteSetsExt

CONSTANTS
  MYFFT_MAX_LOGN,  \* the largest supported logn
  Pow2,            \* Pow2[l] is (size_t)1 << l
  Address,         \* what malloc may return
  NULL

Logn == 0 .. MYFFT_MAX_LOGN + 1     \* the arguments callers may pass

ASSUME CacheAssumption ==
  /\ MYFFT_MAX_LOGN \in Nat
  /\ Pow2 \in [Logn -> Nat]
  /\ Pow2[0] = 1
  /\ \A l \in Logn \ {0} : Pow2[l] = 2 * Pow2[l - 1]
  /\ NULL \notin Address

(* The four arrays of a struct twiddle_tab, in the order of their mallocs. *)
Arrays == <<"tw_re", "tw_im", "w_re", "w_im">>

SizeofDouble == 8

hn(l) == Pow2[l] \div 2
hw(l) == hn(l) \div 2

(* The doubles allocated for an array, and those the code fills and reads. *)
Allocated(x, l) ==
  IF x \in {"tw_re", "tw_im"} THEN hn(l) ELSE IF hw(l) # 0 THEN hw(l) ELSE 1

Used(x, l) == IF x \in {"tw_re", "tw_im"} THEN hn(l) ELSE hw(l)

ArrayNames == {"tw_re", "tw_im", "w_re", "w_im"}

Content == {"stale", "time", "fft", "product_fft", "product", "garbage"}

VARIABLES
  tabs,      \* the static table of struct twiddle_tab
  heap,      \* the live blocks: address -> bytes
  filled,    \* the live blocks whose doubles have been written
  fault,     \* undefined behaviour has happened
  call,      \* the function the program is in
  logn,      \* its argument
  pc,
  next,      \* my_fft_init: the array that is allocated next
  ret,       \* my_fft_init: where it returns to
  ok,        \* what my_fft_init returned
  out, tmp,  \* what the caller's buffer and the scratch array hold
  scratch,   \* the address of tmp, or NULL
  prepared   \* the tables of logn were ready when the call was made

calling == <<call, logn, prepared>>
buffers == <<out, tmp, scratch>>
vars == <<tabs, heap, filled, fault, calling, pc, next, ret, ok, buffers>>

EmptyTab == [ptr |-> [x \in ArrayNames |-> NULL], bytes |-> 0, ready |-> FALSE]

Init ==
  /\ tabs = [l \in 0 .. MYFFT_MAX_LOGN |-> EmptyTab]    \* static storage
  /\ heap = [x \in {} |-> 0] /\ filled = {} /\ fault = FALSE
  /\ call = "none" /\ logn = 0 /\ prepared = FALSE
  /\ pc = "idle" /\ next = 1 /\ ret = "idle" /\ ok = FALSE
  /\ out = "stale" /\ tmp = "stale" /\ scratch = NULL

-----------------------------------------------------------------------------
(* The allocator.  Which unused address malloc returns makes no difference *)
(* to the code; it is the same one each time, so that a freed address is   *)
(* soon in use again.                                                      *)
Live == DOMAIN heap
Fresh == CHOOSE x \in Address : x \notin Live

CanMalloc == Address \ Live # {}

HeapWith(p, size) == [x \in Live \cup {p} |-> IF x = p THEN size ELSE heap[x]]

(* free() of each address of a set that is not NULL.                       *)
Free(S) ==
  /\ heap' = [x \in Live \ S |-> heap[x]]
  /\ filled' = filled \ S
  /\ fault' = (fault \/ ~(S \ {NULL} \subseteq Live))

Pointers(l) == {tabs[l].ptr[x] : x \in ArrayNames}

-----------------------------------------------------------------------------
(* my_fft_init(logn), called from ret.                                     *)
EnterInit(from) == pc' = "my_fft_init" /\ ret' = from

ReturnInit(value) == pc' = ret /\ ok' = value

Supported(l) == l \in 1 .. MYFFT_MAX_LOGN

(* Faulty variant: tables that are ready are built again.                  *)
InitRebuild ==
  /\ pc = "my_fft_init"
  /\ \/ ~Supported(logn) /\ ReturnInit(FALSE) /\ next' = next
     \/ Supported(logn) /\ pc' = "malloc" /\ next' = 1 /\ ok' = ok
  /\ UNCHANGED <<tabs, heap, filled, fault, calling, ret, buffers>>

InitCheckReady ==
  /\ pc = "my_fft_init"
  /\ \/ ~Supported(logn) /\ ReturnInit(FALSE) /\ next' = next
     \/ Supported(logn) /\ tabs[logn].ready /\ ReturnInit(TRUE) /\ next' = next
     \/ /\ Supported(logn) /\ ~tabs[logn].ready
        /\ pc' = "malloc" /\ next' = 1 /\ ok' = ok
  /\ UNCHANGED <<tabs, heap, filled, fault, calling, ret, buffers>>

(* t->tw_re = malloc(..), and so on: each may return NULL.                 *)
InitMalloc ==
  LET x == Arrays[next]
      SetPtr(p) == tabs' = [tabs EXCEPT ![logn].ptr[x] = p]
  IN  /\ pc = "malloc"
      /\ \/ /\ CanMalloc
            /\ SetPtr(Fresh)
            /\ heap' = HeapWith(Fresh, Allocated(x, logn) * SizeofDouble)
         \/ SetPtr(NULL) /\ heap' = heap
      /\ next' = IF next < 4 THEN next + 1 ELSE 1
      /\ pc' = IF next < 4 THEN "malloc" ELSE "check"
      /\ UNCHANGED <<filled, fault, calling, ret, ok, buffers>>

(* Faulty variant: the arrays that were allocated are not given back.      *)
InitFailLeak ==
  /\ pc = "check" /\ NULL \in Pointers(logn)
  /\ tabs' = [tabs EXCEPT ![logn] = EmptyTab]
  /\ ReturnInit(FALSE)
  /\ UNCHANGED <<heap, filled, fault, calling, next, ret, buffers>>

(* One allocation failed: give the others back and forget them.            *)
InitFail ==
  /\ pc = "check" /\ NULL \in Pointers(logn)
  /\ Free(Pointers(logn))
  /\ tabs' = [tabs EXCEPT ![logn] = EmptyTab]
  /\ ReturnInit(FALSE)
  /\ UNCHANGED <<calling, next, ret, buffers>>

(* Faulty variants: no check of the allocations; the one entry of an empty *)
(* DFT table not counted.                                                  *)
InitSucceedUnchecked ==
  /\ pc = "check"
  /\ tabs' = [tabs EXCEPT ![logn].bytes =
                (2 * hn(logn) + 2 * (IF hw(logn) # 0 THEN hw(logn) ELSE 1))
                  * SizeofDouble]
  /\ pc' = "fill"
  /\ UNCHANGED <<heap, filled, fault, calling, next, ret, ok, buffers>>

InitSucceedMiscounted ==
  /\ pc = "check" /\ NULL \notin Pointers(logn)
  /\ tabs' = [tabs EXCEPT ![logn].bytes =
                (2 * hn(logn) + 2 * hw(logn)) * SizeofDouble]
  /\ pc' = "fill"
  /\ UNCHANGED <<heap, filled, fault, calling, next, ret, ok, buffers>>

InitSucceed ==
  /\ pc = "check" /\ NULL \notin Pointers(logn)
  /\ tabs' = [tabs EXCEPT ![logn].bytes =
                (2 * hn(logn) + 2 * (IF hw(logn) # 0 THEN hw(logn) ELSE 1))
                  * SizeofDouble]
  /\ pc' = "fill"
  /\ UNCHANGED <<heap, filled, fault, calling, next, ret, ok, buffers>>

(* The array is there for the doubles the code writes or reads.            *)
Holds(l, x) ==
  LET p == tabs[l].ptr[x]
  IN  p \in Live /\ heap[p] >= Used(x, l) * SizeofDouble

InitFill ==
  /\ pc = "fill"
  /\ fault' = (fault \/ \E x \in ArrayNames : ~Holds(logn, x))
  /\ filled' = filled \cup Pointers(logn)
  /\ tabs' = [tabs EXCEPT ![logn].ready = TRUE]
  /\ ReturnInit(TRUE)
  /\ UNCHANGED <<heap, calling, next, ret, buffers>>

-----------------------------------------------------------------------------
(* my_fft_free: every ready table is freed and zeroed.                     *)
Ready == {l \in 0 .. MYFFT_MAX_LOGN : tabs[l].ready}

(* Faulty variant: the tables are freed and not zeroed.                    *)
FreeAllKept ==
  /\ pc = "my_fft_free"
  /\ Free(UNION {Pointers(l) : l \in Ready})
  /\ pc' = "return"
  /\ UNCHANGED <<tabs, calling, next, ret, ok, buffers>>

(* Faulty variant: the loop ends before the largest size.                  *)
FreeAllButLast ==
  /\ pc = "my_fft_free"
  /\ Free(UNION {Pointers(l) : l \in Ready \ {MYFFT_MAX_LOGN}})
  /\ tabs' = [l \in 0 .. MYFFT_MAX_LOGN |->
                IF l \in Ready \ {MYFFT_MAX_LOGN} THEN EmptyTab ELSE tabs[l]]
  /\ pc' = "return"
  /\ UNCHANGED <<calling, next, ret, ok, buffers>>

FreeAll ==
  /\ pc = "my_fft_free"
  /\ Free(UNION {Pointers(l) : l \in Ready})
  /\ tabs' = [l \in 0 .. MYFFT_MAX_LOGN |->
                IF l \in Ready THEN EmptyTab ELSE tabs[l]]
  /\ pc' = "return"
  /\ UNCHANGED <<calling, next, ret, ok, buffers>>

(* my_fft_table_bytes.                                                     *)
my_fft_table_bytes == MapThenSumSet(LAMBDA l : tabs[l].bytes, Ready)

-----------------------------------------------------------------------------
(* The transforms, after their call of my_fft_init: the tables are read,   *)
(* the buffer f is changed from one domain to the other.                   *)
Transform(f, from, to) ==
  IF ~ok THEN f ELSE IF f = from THEN to ELSE "garbage"

Readable(l) == \A x \in ArrayNames : Holds(l, x) /\ tabs[l].ptr[x] \in filled

ReadTables == fault' = (fault \/ (ok /\ ~Readable(logn)))

ForwardOut ==
  /\ pc = "my_FFT(out)"
  /\ out' = Transform(out, "time", "fft")
  /\ ReadTables
  /\ IF call = "my_FFT" THEN pc' = "return" /\ ret' = ret
                        ELSE EnterInit("my_FFT(tmp)")
  /\ UNCHANGED <<tabs, heap, filled, calling, next, ok, tmp, scratch>>

(* Faulty variant: the second operand is not transformed.                  *)
ForwardTmpForgotten ==
  /\ pc = "my_FFT(tmp)"
  /\ ReadTables
  /\ pc' = "my_poly_mul_fft"
  /\ UNCHANGED <<tabs, heap, filled, calling, next, ret, ok, buffers>>

ForwardTmp ==
  /\ pc = "my_FFT(tmp)"
  /\ tmp' = Transform(tmp, "time", "fft")
  /\ ReadTables
  /\ pc' = "my_poly_mul_fft"
  /\ UNCHANGED <<tabs, heap, filled, calling, next, ret, ok, out, scratch>>

InverseOut ==
  /\ pc = "my_iFFT(out)"
  /\ out' = IF out = "fft" THEN Transform(out, "fft", "time")
                           ELSE Transform(out, "product_fft", "product")
  /\ ReadTables
  /\ pc' = IF call = "my_iFFT" THEN "return" ELSE "free(tmp)"
  /\ UNCHANGED <<tabs, heap, filled, calling, next, ret, ok, tmp, scratch>>

(* my_poly_mul: the scratch array, the conversions, the product.           *)
AllocScratch ==
  /\ pc = "malloc(tmp)"
  /\ \/ /\ CanMalloc
        /\ scratch' = Fresh
        /\ heap' = HeapWith(Fresh, Pow2[logn] * SizeofDouble)
        /\ out' = "time" /\ tmp' = "time"
        /\ EnterInit("my_FFT(out)")
     \/ /\ pc' = "return"
        /\ UNCHANGED <<heap, scratch, out, tmp, ret>>
  /\ UNCHANGED <<tabs, filled, fault, calling, next, ok>>

(* The loop of my_poly_mul_fft has no iteration when logn = 0.             *)
PolyMulFFT ==
  /\ pc = "my_poly_mul_fft"
  /\ out' = IF logn = 0 THEN out
            ELSE IF out = "fft" /\ tmp = "fft" THEN "product_fft" ELSE "garbage"
  /\ EnterInit("my_iFFT(out)")
  /\ UNCHANGED <<tabs, heap, filled, fault, calling, next, ok, tmp, scratch>>

FreeScratch ==
  /\ pc = "free(tmp)"
  /\ Free({scratch})
  /\ scratch' = NULL /\ tmp' = "stale"
  /\ pc' = "return"
  /\ UNCHANGED <<tabs, calling, next, ret, ok, out>>

-----------------------------------------------------------------------------
(* The program: any call, of any argument, at any time.                    *)
Start(f, l) ==
  /\ pc = "idle"
  /\ call' = f /\ logn' = l
  /\ prepared' = (Supported(l) /\ tabs[l].ready)
  /\ UNCHANGED <<tabs, heap, filled, fault, next, ok, tmp, scratch>>

CallInit(l)  == Start("my_fft_init", l) /\ EnterInit("return") /\ out' = "stale"
CallFree     == Start("my_fft_free", 0) /\ pc' = "my_fft_free" /\ ret' = ret
                /\ out' = "stale"
CallFFT(l)   == Start("my_FFT", l) /\ EnterInit("my_FFT(out)") /\ out' = "time"
CallIFFT(l)  == Start("my_iFFT", l) /\ EnterInit("my_iFFT(out)") /\ out' = "fft"
CallMul(l)   == Start("my_poly_mul", l) /\ pc' = "malloc(tmp)" /\ ret' = ret
                /\ out' = "stale"

Return ==
  /\ pc = "return"
  /\ pc' = "idle" /\ call' = "none"
  /\ UNCHANGED <<tabs, heap, filled, fault, logn, prepared, next, ret, ok, buffers>>

Calls == CallFree \/ \E l \in Logn : CallInit(l) \/ CallFFT(l) \/ CallIFFT(l)
                                     \/ CallMul(l)

InitSteps == InitCheckReady \/ InitMalloc \/ InitFail \/ InitSucceed \/ InitFill

Steps == InitSteps \/ FreeAll \/ ForwardOut \/ ForwardTmp \/ InverseOut
         \/ AllocScratch \/ PolyMulFFT \/ FreeScratch \/ Return

Next == Calls \/ Steps

Spec == Init /\ [][Next]_vars

-----------------------------------------------------------------------------
TypeOK ==
  /\ tabs \in [0 .. MYFFT_MAX_LOGN ->
                [ptr : [ArrayNames -> Address \cup {NULL}],
                 bytes : Nat, ready : BOOLEAN]]
  /\ Live \subseteq Address /\ heap \in [Live -> Nat]
  /\ filled \subseteq Live
  /\ fault \in BOOLEAN
  /\ call \in {"none", "my_fft_init", "my_fft_free", "my_FFT", "my_iFFT",
               "my_poly_mul"}
  /\ logn \in Logn
  /\ pc \in {"idle", "my_fft_init", "malloc", "check", "fill", "my_fft_free",
             "my_FFT(out)", "my_FFT(tmp)", "my_iFFT(out)", "malloc(tmp)",
             "my_poly_mul_fft", "free(tmp)", "return"}
  /\ next \in 1 .. 4
  /\ ret \in {"idle", "return", "my_FFT(out)", "my_FFT(tmp)", "my_iFFT(out)"}
  /\ ok \in BOOLEAN /\ prepared \in BOOLEAN
  /\ out \in Content /\ tmp \in Content
  /\ scratch \in Address \cup {NULL}

(***************************************************************************)
(* No sequence of calls, with whatever allocations failing, frees a block  *)
(* twice, or reads a table that is freed, half built or too short.         *)
(***************************************************************************)
NoFault == ~fault

(***************************************************************************)
(* No leak, nothing dangling, nothing shared: the live blocks are those a  *)
(* struct twiddle_tab or my_poly_mul still points to, each pointed to from *)
(* one place, also in the middle of my_fft_init and after it failed.       *)
(***************************************************************************)
Slots == (0 .. MYFFT_MAX_LOGN) \X ArrayNames

PtrAt(s) == tabs[s[1]].ptr[s[2]]

Ownership ==
  /\ Live = ({PtrAt(s) : s \in Slots} \cup {scratch}) \ {NULL}
  /\ \A s, q \in Slots : s # q /\ PtrAt(s) = PtrAt(q) => PtrAt(s) = NULL
  /\ \A s \in Slots : PtrAt(s) = scratch => scratch = NULL

(***************************************************************************)
(* my_fft_table_bytes, which the memory analysis prints, is the heap the   *)
(* tables hold, at every point where a caller can ask.                     *)
(***************************************************************************)
Accounting ==
  pc = "idle" => my_fft_table_bytes = MapThenSumSet(LAMBDA p : heap[p], Live)

(***************************************************************************)
(* my_fft_init is idempotent: tables that are ready stay as they are, at   *)
(* the same addresses, until my_fft_free.  Timed regions count on it.      *)
(***************************************************************************)
ReadyStays ==
  [][\A l \in 0 .. MYFFT_MAX_LOGN :
       tabs[l].ready => tabs'[l] = tabs[l] \/ call = "my_fft_free"]_vars

(* What the caller of a transform or of my_poly_mul wants to find.         *)
Wanted ==
  CASE call = "my_FFT"      -> "fft"
    [] call = "my_iFFT"     -> "time"
    [] call = "my_poly_mul" -> "product"
    [] OTHER                -> "stale"

(***************************************************************************)
(* With the tables prepared in advance the transforms cannot fail, and     *)
(* my_poly_mul fails only when its scratch array is refused; then it has   *)
(* not touched the caller's buffer.                                        *)
(***************************************************************************)
PreparedDelivers ==
  pc = "return" /\ prepared =>
    out = Wanted \/ (call = "my_poly_mul" /\ out = "stale")

(***************************************************************************)
(* my_poly_mul never leaves its result in the FFT domain: once operands    *)
(* were transformed the tables are there for the way back.                 *)
(***************************************************************************)
ComesBack ==
  pc = "return" /\ call = "my_poly_mul" => out \notin {"fft", "product_fft"}

(***************************************************************************)
(* What myfft.h says of my_fft_init: the transforms call it automatically, *)
(* so explicit use is needed only to keep table construction out of timed  *)
(* regions.  When an allocation fails in it, the transform returns with    *)
(* the buffer untouched and no way for the caller to know.                 *)
(***************************************************************************)
AutomaticInit ==
  pc = "return" /\ call \in {"my_FFT", "my_iFFT"} /\ Supported(logn) =>
    out = Wanted

-----------------------------------------------------------------------------
(* What became of the call that returns, seen by its caller.               *)
Original ==
  CASE call = "my_FFT" -> "time" [] call = "my_iFFT" -> "fft" [] OTHER -> "stale"

Outcome ==
  CASE call = "my_fft_free" -> "done"
    [] call = "my_fft_init" -> IF ok THEN "done" ELSE "untouched"
    [] OTHER -> IF out = Wanted THEN "done"
                ELSE IF out = Original THEN "untouched" ELSE "spoilt"

Status ==
  IF pc = "idle" THEN "idle" ELSE IF pc = "return" THEN Outcome ELSE "running"

Cache == INSTANCE CacheSpec WITH ready <- Ready, status <- Status

(***************************************************************************)
(* The allocations, partial failures and early returns of myfft.c amount   *)
(* to the contract of CacheSpec: tables appear by a call for their size,   *)
(* disappear by my_fft_free, a transform is refused only for want of       *)
(* them, and my_poly_mul spoils a buffer only if they were not ready.      *)
(***************************************************************************)
ImplementsCache == Cache!Spec

=============================================================================

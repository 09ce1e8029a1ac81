------------------------------- MODULE Drivers -------------------------------
(***************************************************************************)
(* The target's program: app_main, which builds the tables, and then       *)
(* verify_run and bench_run for ever; the drivers of the three builds,     *)
(* which share four slots; what each timed region works on and measures.   *)
(*                                                                         *)
(* A slot's contents are the polynomial they stand for and the domain it   *)
(* is in: the operands a, b and their product ab, in capitals in the FFT   *)
(* domain.  The twiddle cache is the set of sizes whose tables are ready:  *)
(* CacheSpec, which TwiddleCache implements, promises callers that with    *)
(* ready tables a transform does its work, and that without them it either *)
(* builds them first or leaves its buffer as it is.  PRIMASK and the       *)
(* counter are in Timing: here t1 - t0 is the time between the two reads.  *)
(***************************************************************************)
EXTENDS Naturals, Sequences

CONSTANTS
  MaxLogn,     \* BENCH_MAX_LOGN
  Repeats,     \* BENCH_REPEATS
  KatLogn,     \* the sizes of kat_cases, in order
  SummaryLogn, \* the size verify_run sums up; 9
  Cost,        \* cycles of an operation on what its destination holds
  BuildCost,   \* cycles of a my_fft_init that builds a table
  FailCost,    \* cycles of a transform whose my_fft_init fails
  NoTime       \* 0xFFFFFFFF

Operations == {"memcpy", "FFT", "iFFT", "poly_mul_fft"}

Values == {"none", "a", "b", "ab", "A", "B", "AB", "garbage"}

ASSUME DriversAssumption ==
  /\ MaxLogn \in Nat \ {0} /\ Repeats \in Nat \ {0}
  /\ KatLogn \in Seq(1 .. MaxLogn) /\ KatLogn # <<>>
  /\ SummaryLogn \in 1 .. MaxLogn
  /\ Cost \in [Operations \X Values -> Nat]
  /\ BuildCost \in Nat /\ FailCost \in Nat /\ NoTime \in Nat

(* Every section is repeated (BENCH_REPEATS is 3), and no timed region,    *)
(* which has four operations at most, takes as long as the initial         *)
(* minimum, 2^32 - 1 cycles.                                               *)
ASSUME RegionsAssumption ==
  /\ Repeats > 1
  /\ 4 * FailCost =< NoTime
  /\ \A x \in Operations \X Values : 4 * (Cost[x] + BuildCost) =< NoTime

VARIABLES
  slot,        \* slots[] of benchbuf.c
  ready,       \* sizes whose tables are built
  prepared,    \* myfft_prepare returned 1
  pc, job,     \* verify_run or bench_run
  build, t,    \* loop counters: the build; the case or the size
  section, k, i,       \* section of the driver, repeat, instruction
  cycles,      \* time since t0 was read
  timing,      \* between t0 and t1
  best, worst, \* locals of the driver
  row,         \* struct bench_row of this call
  failures, ref_cycles, lo, hi,    \* locals of verify_run
  failed,      \* a transform of this call did nothing
  allocated    \* a timed region called malloc

place == <<pc, job, build, t, section, k, i>>
summary == <<failures, ref_cycles, lo, hi>>
tables == <<ready, prepared, failed, allocated>>
vars == <<slot, place, cycles, timing, best, worst, row, summary, tables>>

Builds == 1 .. 3      \* 1 and 2: the reference; 3: myfft.c
Myfft == 3
Columns == {"restore", "fft", "full", "ifft", "mul", "spread"}
Jobs == {"verify_run", "bench_run"}

Rounds(j) == IF j = "verify_run" THEN Len(KatLogn) ELSE MaxLogn
logn == IF job = "verify_run" THEN KatLogn[t] ELSE t

(* Who wrote a slot: no two calls of one pass over app_main's loop agree.  *)
Call == <<job, build, t>>

Nothing == [by |-> <<"none", 0, 0>>, val |-> "none"]

-----------------------------------------------------------------------------
(* The instructions of the drivers; slots are numbered as in bench_slot.   *)
(* wa = 0, wb = 1, sa = 2, sb = 3.                                         *)
Copy(d, s) == [op |-> "memcpy", dst |-> d, src |-> s]
FFT(d) == [op |-> "FFT", dst |-> d, src |-> d]
iFFT(d) == [op |-> "iFFT", dst |-> d, src |-> d]
Mul(d, s) == [op |-> "poly_mul_fft", dst |-> d, src |-> s]
T0 == [op |-> "t0", dst |-> 0, src |-> 0]
T1 == [op |-> "t1", dst |-> 0, src |-> 0]

Multiply == <<FFT(0), FFT(1), Mul(0, 1), iFFT(0)>>

(* Faulty variant: the working buffer is not restored for every repeat.    *)
InverseUnrestored == <<T0, iFFT(0), T1>>

InverseAlone == <<Copy(0, 2), T0, iFFT(0), T1>>

Instructions(s) ==
  CASE s = "restore" -> <<T0, Copy(0, 2), T1>>
    [] s = "fft"     -> <<Copy(0, 2), T0, FFT(0), T1>>
    [] s = "full"    -> <<Copy(0, 2), Copy(1, 3), T0>> \o Multiply \o <<T1>>
    [] s = "sources" -> <<FFT(2), FFT(3)>>
    [] s = "ifft"    -> InverseAlone
    [] s = "mul"     -> <<Copy(0, 2), T0, Mul(0, 3), T1>>
    [] s = "case"    -> <<T0>> \o Multiply \o <<T1>>

(* Faulty variant: the sources are transformed as soon as "fft" is done.   *)
FollowingSourcesEarly(s) ==
  CASE s = "restore" -> "fft"     [] s = "fft" -> "sources"
    [] s = "sources" -> "full"    [] s = "full" -> "ifft"
    [] s = "ifft" -> "mul"        [] s \in {"mul", "case"} -> "return"

Following(s) ==
  CASE s = "restore" -> "fft"     [] s = "fft" -> "full"
    [] s = "full" -> "sources"    [] s = "sources" -> "ifft"
    [] s = "ifft" -> "mul"        [] s \in {"mul", "case"} -> "return"

Sections == {"restore", "fft", "full", "sources", "ifft", "mul", "case"}

Times(s) == IF s \in {"sources", "case"} THEN 1 ELSE Repeats

-----------------------------------------------------------------------------
Init ==
  /\ slot = [s \in 0 .. 3 |-> Nothing]
  /\ ready = {} /\ prepared = FALSE /\ failed = FALSE /\ allocated = FALSE
  /\ pc = "prepare" /\ job = "verify_run" /\ build = 1 /\ t = 1
  /\ section = "return" /\ k = 0 /\ i = 1
  /\ cycles = 0 /\ timing = FALSE /\ best = NoTime /\ worst = 0
  /\ row = [c \in Columns |-> 0]
  /\ failures = 0 /\ ref_cycles = [b \in Builds |-> 0]
  /\ lo = [b \in Builds |-> NoTime] /\ hi = [b \in Builds |-> 0]

(* Faulty variants: the loop stops before or after the largest size.       *)
PrepareLast == MaxLogn - 1
PrepareBeyond == MaxLogn + 1

LastPrepared == MaxLogn

(* myfft_prepare, one size at a time; app_main goes on when it fails.      *)
Prepare ==
  /\ pc = "prepare"
  /\ \/ /\ ready' = ready \cup {t}
        /\ IF t < LastPrepared
           THEN t' = t + 1 /\ UNCHANGED <<pc, prepared>>
           ELSE t' = 1 /\ pc' = "call" /\ prepared' = TRUE
     \/ t' = 1 /\ pc' = "call" /\ UNCHANGED <<ready, prepared>>
  /\ UNCHANGED <<slot, job, build, section, k, i, cycles, timing, best, worst,
                 row, summary, failed, allocated>>

(* Faulty variant: bench_fill fills one source only.                       *)
FillOne == IF job = "verify_run" THEN <<0, 1>> ELSE <<2, 2>>

Filled == IF job = "verify_run" THEN <<0, 1>> ELSE <<2, 3>>

(* A driver is called: it fills its operands and enters its first section. *)
Enter ==
  /\ pc = "call" /\ pc' = "run"
  /\ slot' = [slot EXCEPT ![Filled[1]] = [by |-> Call, val |-> "a"],
                          ![Filled[2]] = [by |-> Call, val |-> "b"]]
  /\ section' = IF job = "verify_run" THEN "case" ELSE "restore"
  /\ k' = 0 /\ i' = 1 /\ best' = NoTime /\ worst' = 0
  /\ row' = [c \in Columns |-> 0] /\ failed' = FALSE
  /\ UNCHANGED <<job, build, t, cycles, timing, summary, ready, prepared,
                 allocated>>

-----------------------------------------------------------------------------
Instr == Instructions(section)[i]

At(op) ==
  /\ pc = "run" /\ i <= Len(Instructions(section))
  /\ Instr.op = op
  /\ i' = i + 1
  /\ UNCHANGED <<pc, job, build, t, section, k, best, worst, row, summary,
                 prepared>>

Takes(c) == cycles' = IF timing THEN cycles + c ELSE cycles

ReadT0 ==
  /\ At("t0") /\ timing' = TRUE /\ cycles' = 0
  /\ UNCHANGED <<slot, ready, failed, allocated>>

ReadT1 ==
  /\ At("t1") /\ timing' = FALSE
  /\ UNCHANGED <<slot, cycles, ready, failed, allocated>>

Put(d, v) == slot' = [slot EXCEPT ![d] = [by |-> Call, val |-> v]]

Memcpy ==
  /\ At("memcpy")
  /\ slot' = [slot EXCEPT ![Instr.dst] = slot[Instr.src]]
  /\ Takes(Cost[<<"memcpy", slot[Instr.src].val>>])
  /\ UNCHANGED <<timing, ready, failed, allocated>>

Image(op, v) ==
  CASE op = "FFT"  /\ v = "a"  -> "A"   [] op = "FFT"  /\ v = "b" -> "B"
    [] op = "iFFT" /\ v = "A"  -> "a"   [] op = "iFFT" /\ v = "B" -> "b"
    [] op = "iFFT" /\ v = "AB" -> "ab"  [] OTHER -> "garbage"

(* FFT and iFFT.  Those of myfft.c call my_fft_init, which succeeds at     *)
(* once, or builds the tables, or fails.                                   *)
TransformWith(op, extra) ==
  LET v == slot[Instr.dst].val
  IN  /\ Put(Instr.dst, Image(op, v))
      /\ Takes(Cost[<<op, v>>] + extra)
      /\ UNCHANGED <<timing, failed>>

Transform(op) ==
  /\ At(op)
  /\ \/ /\ build # Myfft \/ logn \in ready
        /\ TransformWith(op, 0) /\ UNCHANGED <<ready, allocated>>
     \/ /\ build = Myfft /\ logn \notin ready
        /\ TransformWith(op, BuildCost)
        /\ ready' = ready \cup {logn} /\ allocated' = (allocated \/ timing)
     \/ /\ build = Myfft /\ logn \notin ready
        /\ Takes(FailCost) /\ failed' = TRUE
        /\ allocated' = (allocated \/ timing)
        /\ UNCHANGED <<slot, timing, ready>>

PolyMulFFT ==
  /\ At("poly_mul_fft")
  /\ LET v == slot[Instr.dst].val
         w == slot[Instr.src].val
     IN  /\ Put(Instr.dst, IF {v, w} = {"A", "B"} THEN "AB" ELSE "garbage")
         /\ Takes(Cost[<<"poly_mul_fft", v>>])
  /\ UNCHANGED <<timing, ready, failed, allocated>>

-----------------------------------------------------------------------------
(* After the section's last instruction: the minimum and the maximum are   *)
(* kept, the section is repeated or its column is stored.                  *)
Smaller(x, y) == IF x < y THEN x ELSE y

Stored(s, b, w) ==
  CASE s = "sources" -> row
    [] s = "full" -> [row EXCEPT !["full"] = b, !["spread"] = w - b]
    [] OTHER -> [row EXCEPT ![s] = b]

(* Faulty variant: the minimum of the section before is kept.              *)
FreshKept(b) == b

Fresh(b) == NoTime

EndRepeat ==
  LET b == Smaller(cycles, best)
      w == IF cycles > worst THEN cycles ELSE worst
  IN  /\ pc = "run" /\ section # "case" /\ i > Len(Instructions(section))
      /\ i' = 1
      /\ IF k + 1 < Times(section)
         THEN /\ k' = k + 1 /\ best' = b /\ worst' = w
              /\ UNCHANGED <<pc, section, row>>
         ELSE /\ k' = 0 /\ best' = Fresh(b) /\ worst' = 0
              /\ row' = Stored(section, b, w)
              /\ section' = Following(section)
              /\ pc' = IF section' = "return" THEN "return" ELSE "run"
      /\ UNCHANGED <<slot, job, build, t, cycles, timing, summary, tables>>

(* Faulty variant: a failure is set, not counted.                          *)
CountedLast(bad) == IF bad THEN 1 ELSE 0

Counted(bad) == IF bad THEN failures + 1 ELSE failures

(* The case's result is compared, and verify_run takes note of its time.   *)
(* (Of the cases of that size, those with the bound it looks for come      *)
(* first.)                                                                 *)
Compare ==
  /\ pc = "run" /\ section = "case" /\ i > Len(Instructions(section))
  /\ failures' = Counted(slot[0].val # "ab")
  /\ IF logn = SummaryLogn
     THEN /\ ref_cycles' = IF ref_cycles[build] = 0
                           THEN [ref_cycles EXCEPT ![build] = cycles]
                           ELSE ref_cycles
          /\ lo' = [lo EXCEPT ![build] = Smaller(cycles, lo[build])]
          /\ hi' = [hi EXCEPT ![build] = IF cycles > @ THEN cycles ELSE @]
     ELSE UNCHANGED <<ref_cycles, lo, hi>>
  /\ section' = Following(section) /\ pc' = "return" /\ i' = 1
  /\ UNCHANGED <<slot, job, build, t, k, cycles, timing, best, worst, row,
                 tables>>

(* The next size or case, the next build, the next job; verify_run starts  *)
(* with its locals as declared.                                            *)
Return ==
  /\ pc = "return" /\ pc' = "call"
  /\ IF t < Rounds(job)
     THEN t' = t + 1 /\ UNCHANGED <<build, job, summary>>
     ELSE /\ t' = 1
          /\ IF build < 3
             THEN build' = build + 1 /\ UNCHANGED <<job, summary>>
             ELSE /\ build' = 1
                  /\ IF job = "verify_run"
                     THEN job' = "bench_run" /\ UNCHANGED summary
                     ELSE /\ job' = "verify_run" /\ failures' = 0
                          /\ ref_cycles' = [b \in Builds |-> 0]
                          /\ lo' = [b \in Builds |-> NoTime]
                          /\ hi' = [b \in Builds |-> 0]
  /\ UNCHANGED <<slot, section, k, i, cycles, timing, best, worst, row, tables>>

Next ==
  \/ Prepare \/ Enter \/ ReadT0 \/ ReadT1 \/ Memcpy
  \/ Transform("FFT") \/ Transform("iFFT") \/ PolyMulFFT
  \/ EndRepeat \/ Compare \/ Return

Spec == Init /\ [][Next]_vars

-----------------------------------------------------------------------------
TypeOK ==
  /\ slot \in [0 .. 3 -> [by : (Jobs \cup {"none"}) \X (0 .. 3)
                              \X (0 .. MaxLogn + Len(KatLogn)),
                          val : Values]]
  /\ ready \in SUBSET (1 .. MaxLogn)
  /\ {prepared, timing, failed, allocated} \subseteq BOOLEAN
  /\ pc \in {"prepare", "call", "run", "return"} /\ job \in Jobs
  /\ build \in Builds /\ t \in Nat \ {0}
  /\ section \in Sections \cup {"return"}
  /\ k \in 0 .. Repeats - 1 /\ i \in Nat \ {0}
  /\ {cycles, best, worst} \subseteq 0 .. NoTime
  /\ row \in [Columns -> 0 .. NoTime]
  /\ failures \in 0 .. 3 * Len(KatLogn)
  /\ ref_cycles \in [Builds -> 0 .. NoTime]
  /\ lo \in [Builds -> 0 .. NoTime] /\ hi \in [Builds -> 0 .. NoTime]

(***************************************************************************)
(* The slots are shared by the builds and by both jobs, and every driver   *)
(* works only on what it put there itself: benchbuf.h.                     *)
(***************************************************************************)
OwnOperands ==
  pc = "run" /\ i <= Len(Instructions(section)) /\ Instr.op \in Operations =>
    /\ slot[Instr.src].by = Call
    /\ Instr.op # "memcpy" => slot[Instr.dst].by = Call

(***************************************************************************)
(* As long as no transform failed, every operation gets operands in the    *)
(* domain it is for, in every repeat of every section, the untimed ones    *)
(* included.                                                               *)
(***************************************************************************)
Domains ==
  pc = "run" /\ ~failed /\ i <= Len(Instructions(section)) =>
    LET v == slot[Instr.dst].val
        w == slot[Instr.src].val
    IN  CASE Instr.op = "FFT" -> v \in {"a", "b"}
          [] Instr.op = "iFFT" -> v \in {"A", "AB"}
          [] Instr.op = "poly_mul_fft" -> v = "A" /\ w = "B"
          [] OTHER -> TRUE

(* Whatever is timed or untimed in a driver works on operands of its own,  *)
(* each in the domain the operation is for.                                *)
OperandsRight == OwnOperands /\ Domains

(***************************************************************************)
(* The figures of a row are the costs of the operations its columns name,  *)
(* on the operands they are for, and the spread is none, whenever no       *)
(* transform failed: the minimum of the repeats also removes the time of   *)
(* tables that had to be built in the first of them.                       *)
(***************************************************************************)
FullCost == Cost[<<"FFT", "a">>] + Cost[<<"FFT", "b">>]
            + Cost[<<"poly_mul_fft", "A">>] + Cost[<<"iFFT", "AB">>]

Figures ==
  pc = "return" /\ job = "bench_run" /\ ~failed =>
    row = [restore |-> Cost[<<"memcpy", "a">>], fft |-> Cost[<<"FFT", "a">>],
           full |-> FullCost, ifft |-> Cost[<<"iFFT", "A">>],
           mul |-> Cost[<<"poly_mul_fft", "A">>], spread |-> 0]

(***************************************************************************)
(* Once myfft_prepare has succeeded no transform fails, no timed region    *)
(* builds a table, every case passes, and verify_run reports a spread only *)
(* where execution time depends on the data.                               *)
(***************************************************************************)
PreparedRuns ==
  prepared =>
    /\ ~failed /\ ~allocated /\ failures = 0
    /\ \A b \in Builds : hi[b] # 0 => hi[b] = lo[b] /\ ref_cycles[b] = hi[b]

(***************************************************************************)
(* Even if it has not: a verification without failures vouches for the     *)
(* sweep that follows it, in which no transform of a size with a case can  *)
(* then fail.                                                              *)
(***************************************************************************)
Vouched ==
  /\ job = "bench_run" /\ pc \in {"run", "return"}
  /\ failures = 0 /\ \E c \in DOMAIN KatLogn : KatLogn[c] = t
  => ~failed

(***************************************************************************)
(* app.c on myfft_prepare: it keeps table construction, and its malloc,    *)
(* out of every timed region.                                              *)
(***************************************************************************)
NoTimedMalloc == ~allocated

=============================================================================

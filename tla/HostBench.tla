------------------------------ MODULE HostBench ------------------------------
(***************************************************************************)
(* The host benchmark bench_fftmul.c: for every size it fills a context of *)
(* buffers, times thirteen operations and subtracts from each the cost of  *)
(* restoring its operands.  Time is counted in the unit of the constants;  *)
(* the machine may interrupt the program at any call of an operation, and  *)
(* the interruption is in the elapsed time of the batch.  A buffer is      *)
(* represented by what its coefficients stand for.                         *)
(***************************************************************************)
EXTENDS Integers, Sequences

CONSTANTS
  MAX_LOGN,          \* the sizes are 1 .. MAX_LOGN
  MIN_BATCH,         \* what calibration asks of a batch (20 ms)
  BATCHES,           \* the timed batches
  REPS_CAP,          \* where calibration gives up (2^30), a power of two
  CopyCost,          \* the time of one memcpy
  CallCost,          \* the time of a function: library -> function -> time
  SchoolbookCost,
  Delays,            \* how long an interruption may take
  MaxInterruptions   \* bound: how many there are in a run

Libs == {"my", "ref"}
Functions == {"fft", "ifft", "mulfft"}

ASSUME HostBenchAssumption ==
  /\ {MAX_LOGN, BATCHES, REPS_CAP, CopyCost} \subseteq Nat \ {0}
  /\ {MIN_BATCH, SchoolbookCost, MaxInterruptions} \subseteq Nat
  /\ CallCost \in [Libs -> [Functions -> Nat]]
  /\ Delays \subseteq Nat \ {0}

(* REPS_CAP is a power of two: what divides it, and is less, does so twice *)
(* over.  Calibration, which doubles reps, ends at the cap exactly.        *)
ASSUME RepsCapAssumption ==
  \A r \in 1 .. REPS_CAP - 1 : REPS_CAP % r = 0 => REPS_CAP % (2 * r) = 0

(* The timed bodies, in the order of main: what they restore, what they    *)
(* call.  The first restores of a library are the baselines.               *)
Body(kind, lib) == [kind |-> kind, lib |-> lib]

Ops ==
  <<Body("copy1", "my"), Body("copy2", "my"),
    Body("copy1", "ref"), Body("copy2", "ref"),
    Body("fft", "my"), Body("ifft", "my"), Body("mulfft", "my"), Body("full", "my"),
    Body("fft", "ref"), Body("ifft", "ref"), Body("mulfft", "ref"), Body("full", "ref"),
    Body("schoolbook", "my")>>

(* memcpy: <<destination, source>>.                                        *)
RestoresNothingToInvert(kind) ==
  CASE kind \in {"copy1", "fft"}     -> {<<"wa", "src_a">>}
    [] kind = "mulfft"               -> {<<"wa", "tr_a">>}
    [] kind \in {"copy2", "full"}    -> {<<"wa", "src_a">>, <<"wb", "src_b">>}
    [] OTHER                         -> {}

Restores(kind) ==
  CASE kind \in {"copy1", "fft"}     -> {<<"wa", "src_a">>}
    [] kind \in {"ifft", "mulfft"}   -> {<<"wa", "tr_a">>}
    [] kind \in {"copy2", "full"}    -> {<<"wa", "src_a">>, <<"wb", "src_b">>}
    [] OTHER                         -> {}

CopiesOf(kind) == IF kind = "schoolbook" THEN 0
                  ELSE IF kind \in {"copy2", "full"} THEN 2 ELSE 1

(* What an operation takes beyond the restoring: what a figure stands for. *)
TrueCost(op) ==
  LET F == CallCost[op.lib]
  IN  CASE op.kind \in Functions -> F[op.kind]
        [] op.kind = "full"      -> 2 * F["fft"] + F["mulfft"] + F["ifft"]
        [] op.kind = "schoolbook" -> SchoolbookCost
        [] OTHER                 -> 0

CallTime(op) == CopiesOf(op.kind) * CopyCost + TrueCost(op)

BufferNames == {"src_a", "src_b", "tr_a", "tr_b", "wa", "wb"}
Contents == {"stale", "time", "fft", "product_fft", "product", "garbage"}

VARIABLES
  logn,           \* the size that is measured
  phase,
  which,          \* index of the operation in Ops
  buf,            \* the context: library -> buffer -> content
  reps, i, el,    \* bench: calls per batch, calls made, elapsed time
  b, best,        \* bench: timed batches so far, the fastest of them
  disturbed,      \* the batch was interrupted
  clean,          \* some timed batch of the operation was not
  calibrated,     \* the batch that ended the calibration was not
  measured,       \* operation -> its result, in this size
  rows,           \* the table, one row per size
  interruptions   \* how many so far

batch == <<i, el, disturbed>>
bench == <<reps, b, best, clean, calibrated>>
vars == <<logn, phase, which, buf, batch, bench, measured, rows, interruptions>>

NoContext == [l \in Libs |-> [x \in BufferNames |-> "stale"]]
Infinity == 0 - 1     \* best = 1e300: no batch yet

Init ==
  /\ logn = 1 /\ phase = "tables" /\ which = 1
  /\ buf = NoContext
  /\ reps = 1 /\ i = 0 /\ el = 0 /\ b = 0 /\ best = Infinity
  /\ disturbed = FALSE /\ clean = FALSE /\ calibrated = FALSE
  /\ measured = <<>> /\ rows = <<>> /\ interruptions = 0

(* main: my_fft_init for every size, or the program ends.                  *)
BuildTables ==
  /\ phase = "tables"
  /\ phase' \in {"ctx_init", "failed"}
  /\ UNCHANGED <<logn, which, buf, batch, bench, measured, rows, interruptions>>

NewBatch == i' = 0 /\ el' = 0 /\ disturbed' = FALSE

StartBench == reps' = 1 /\ b' = 0 /\ best' = Infinity
              /\ clean' = FALSE /\ calibrated' = FALSE /\ NewBatch

(* Faulty variant: the results of the size before are kept.                *)
CtxInitKept ==
  /\ phase = "ctx_init"
  /\ \/ /\ buf' = [l \in Libs |->
                    [x \in BufferNames |->
                       CASE x \in {"src_a", "src_b"} -> "time"
                         [] x \in {"tr_a", "tr_b"}   -> "fft"
                         [] OTHER                    -> "stale"]]
        /\ phase' = "calibrate"
     \/ phase' = "failed" /\ buf' = NoContext     \* an allocation failed
  /\ which' = 1 /\ measured' = measured
  /\ StartBench
  /\ UNCHANGED <<logn, rows, interruptions>>

(* ctx_init: operands in the time domain, and their transforms.            *)
CtxInit ==
  /\ phase = "ctx_init"
  /\ \/ /\ buf' = [l \in Libs |->
                    [x \in BufferNames |->
                       CASE x \in {"src_a", "src_b"} -> "time"
                         [] x \in {"tr_a", "tr_b"}   -> "fft"
                         [] OTHER                    -> "stale"]]
        /\ phase' = "calibrate"
     \/ phase' = "failed" /\ buf' = NoContext     \* an allocation failed
  /\ which' = 1 /\ measured' = <<>>
  /\ StartBench
  /\ UNCHANGED <<logn, rows, interruptions>>

-----------------------------------------------------------------------------
Op == Ops[which]

(* A function turns what it is made for into its result.                   *)
Transform(x, from, to) == IF x = from THEN to ELSE "garbage"

Multiply(x, y) == IF x = "fft" /\ y = "fft" THEN "product_fft" ELSE "garbage"

Invert(x) == IF x = "fft" THEN "time" ELSE Transform(x, "product_fft", "product")

(* One call of an operation on the buffers of its library.                 *)
Called(kind, c) ==
  LET w == [x \in BufferNames |->
              IF \E s \in BufferNames : <<x, s>> \in Restores(kind)
              THEN c[CHOOSE s \in BufferNames : <<x, s>> \in Restores(kind)]
              ELSE c[x]]
  IN  CASE kind = "fft"    -> [w EXCEPT !["wa"] = Transform(@, "time", "fft")]
        [] kind = "ifft"   -> [w EXCEPT !["wa"] = Invert(@)]
        [] kind = "mulfft" -> [w EXCEPT !["wa"] = Multiply(@, w["tr_b"])]
        [] kind = "full"   ->
             LET fb == Transform(w["wb"], "time", "fft")
                 fa == Transform(w["wa"], "time", "fft")
             IN  [w EXCEPT !["wb"] = fb, !["wa"] = Invert(Multiply(fa, fb))]
        [] OTHER           -> w

Call ==
  /\ phase \in {"calibrate", "timed"} /\ i < reps
  /\ i' = i + 1
  /\ buf' = [buf EXCEPT ![Op.lib] = Called(Op.kind, @)]
  /\ \/ /\ el' = el + CallTime(Op)
        /\ UNCHANGED <<disturbed, interruptions>>
     \/ /\ interruptions < MaxInterruptions
        /\ \E d \in Delays : el' = el + CallTime(Op) + d
        /\ disturbed' = TRUE /\ interruptions' = interruptions + 1
  /\ UNCHANGED <<logn, phase, which, bench, measured, rows>>

(* Faulty variant: the calibration repeats the batch it has.               *)
CalibrateStuck ==
  /\ phase = "calibrate" /\ i = reps
  /\ IF el >= MIN_BATCH \/ reps >= REPS_CAP
     THEN phase' = "timed" /\ reps' = reps /\ calibrated' = ~disturbed
     ELSE UNCHANGED <<phase, reps, calibrated>>
  /\ NewBatch
  /\ UNCHANGED <<logn, which, buf, b, best, clean, measured, rows, interruptions>>

(* Faulty variant: the calibration halves the calls of the last batch.     *)
CalibrateShort ==
  /\ phase = "calibrate" /\ i = reps
  /\ IF 2 * el >= MIN_BATCH \/ reps >= REPS_CAP
     THEN phase' = "timed" /\ reps' = reps /\ calibrated' = ~disturbed
     ELSE reps' = 2 * reps /\ UNCHANGED <<phase, calibrated>>
  /\ NewBatch
  /\ UNCHANGED <<logn, which, buf, b, best, clean, measured, rows, interruptions>>

Calibrate ==
  /\ phase = "calibrate" /\ i = reps
  /\ IF el >= MIN_BATCH \/ reps >= REPS_CAP
     THEN phase' = "timed" /\ reps' = reps /\ calibrated' = ~disturbed
     ELSE reps' = 2 * reps /\ UNCHANGED <<phase, calibrated>>
  /\ NewBatch
  /\ UNCHANGED <<logn, which, buf, b, best, clean, measured, rows, interruptions>>

Fastest(x, y) == IF x = Infinity \/ y < x THEN y ELSE x

Timed ==
  /\ phase = "timed" /\ i = reps /\ b < BATCHES
  /\ best' = Fastest(best, el)
  /\ b' = b + 1
  /\ clean' = (clean \/ ~disturbed)
  /\ NewBatch
  /\ UNCHANGED <<logn, phase, which, buf, reps, calibrated, measured, rows,
                 interruptions>>

(* bench returns best / reps: here in units of 1 / REPS_CAP.               *)
Returned == [ns |-> best * (REPS_CAP \div reps), clean |-> clean]

BenchReturns ==
  /\ phase = "timed" /\ b = BATCHES
  /\ measured' = Append(measured, Returned)
  /\ IF which < Len(Ops) THEN which' = which + 1 /\ phase' = "calibrate"
                         ELSE which' = which /\ phase' = "row"
  /\ StartBench
  /\ UNCHANGED <<logn, buf, rows, interruptions>>

(* Faulty variant: one restored operand is subtracted from every figure.   *)
BaselineOne(op) == IF op.lib = "my" THEN 1 ELSE 3

(* The baseline of an operation: the index of its copies in Ops.           *)
Baseline(op) ==
  (IF op.lib = "my" THEN 0 ELSE 2) + (IF op.kind = "full" THEN 2 ELSE 1)

nonneg(x) == IF x < 0 THEN 0 ELSE x

Figure(k) ==
  IF Ops[k].kind = "schoolbook" THEN measured[k].ns
  ELSE nonneg(measured[k].ns - measured[Baseline(Ops[k])].ns)

Figures == 5 .. Len(Ops)

(* The row is complete; the context is freed.                              *)
Row ==
  /\ phase = "row"
  /\ rows' = Append(rows, [k \in Figures |-> Figure(k)])
  /\ buf' = NoContext
  /\ IF logn < MAX_LOGN THEN logn' = logn + 1 /\ phase' = "ctx_init"
                        ELSE logn' = logn /\ phase' = "report"
  /\ UNCHANGED <<which, batch, bench, measured, interruptions>>

(* The program has ended: its table is printed, or the error.              *)
Ended == phase \in {"report", "failed"} /\ UNCHANGED vars

Next == BuildTables \/ CtxInit \/ Call \/ Calibrate \/ Timed \/ BenchReturns \/ Row \/ Ended

Spec == Init /\ [][Next]_vars /\ WF_vars(Next)

-----------------------------------------------------------------------------
TypeOK ==
  /\ logn \in 1 .. MAX_LOGN
  /\ phase \in {"tables", "ctx_init", "calibrate", "timed", "row", "report", "failed"}
  /\ which \in 1 .. Len(Ops)
  /\ buf \in [Libs -> [BufferNames -> Contents]]
  /\ reps \in 1 .. REPS_CAP /\ i \in 0 .. reps /\ el \in Nat
  /\ b \in 0 .. BATCHES /\ best \in Nat \cup {Infinity}
  /\ {disturbed, clean, calibrated} \subseteq BOOLEAN
  /\ \A k \in DOMAIN measured : measured[k] \in [ns : Nat, clean : BOOLEAN]
  /\ Len(measured) <= Len(Ops) /\ Len(rows) <= MAX_LOGN
  /\ interruptions \in 0 .. MaxInterruptions

(***************************************************************************)
(* Every call of a timed body, the thousandth like the first, finds the    *)
(* operands it is made for: no repetition transforms what the one before   *)
(* it left, no operation spoils the operands of those that follow it; and  *)
(* all counters stay in their ranges (TypeOK).                             *)
(***************************************************************************)
OperandsRestored ==
  /\ TypeOK
  /\ \A l \in Libs, x \in BufferNames : buf[l][x] # "garbage"
  /\ phase \in {"calibrate", "timed"} =>
       \A l \in Libs : /\ \A x \in {"src_a", "src_b"} : buf[l][x] = "time"
                       /\ \A x \in {"tr_a", "tr_b"} : buf[l][x] = "fft"
  /\ phase \in {"calibrate", "timed"} /\ i > 0 =>
       buf[Op.lib]["wa"] = CASE Op.kind = "fft"    -> "fft"
                             [] Op.kind = "mulfft" -> "product_fft"
                             [] Op.kind = "full"   -> "product"
                             [] Op.kind = "schoolbook" -> buf[Op.lib]["wa"]
                             [] OTHER              -> "time"

(***************************************************************************)
(* The argument of the header for the minimum: noise adds time and never   *)
(* subtracts it.  If one batch of the operation and one of its baseline    *)
(* ran undisturbed, the figure is exactly the cost of the functions,       *)
(* whatever disturbed the others and the calibration; and a figure is too  *)
(* small only if every batch of its baseline was disturbed.                *)
(***************************************************************************)
NoiseFiltered ==
  phase = "row" =>
    \A k \in Figures :
      LET base == IF Ops[k].kind = "schoolbook" THEN k ELSE Baseline(Ops[k])
          cost == TrueCost(Ops[k]) * REPS_CAP
      IN  /\ measured[base].clean => Figure(k) >= cost
          /\ measured[k].clean => Figure(k) <= cost

(***************************************************************************)
(* A calibration whose last batch was undisturbed keeps its promise: every *)
(* timed batch runs for MIN_BATCH, unless the calls reached their cap.     *)
(***************************************************************************)
CalibrationHolds ==
  phase = "timed" /\ calibrated /\ i = reps /\ reps < REPS_CAP =>
    el >= MIN_BATCH

(* What is measured is what the header promises: noise filtered out of the *)
(* figures, batches long enough.                                           *)
Measured == NoiseFiltered /\ CalibrationHolds

(***************************************************************************)
(* The benchmark ends, with a complete table or because an allocation      *)
(* failed: calibration cannot go on for ever.                              *)
(***************************************************************************)
Ends == <>(phase = "failed" \/ (phase = "report" /\ Len(rows) = MAX_LOGN))

=============================================================================

# TLA+ models of falcon-fft-study

The repository measures negacyclic polynomial multiplication, the products
modulo X^N + 1 that the Falcon signature scheme computes, in three builds: the
reference FFT of Falcon on an emulated binary64, the same code on the FPU's
binary64, and a from-scratch FFT (`myfft.c`). It runs on a host and on a
STM32F411 board. This directory holds TLA+ modules translated from that code,
configurations that model-check them with TLC, and proofs checked by TLAPS.

Paths below are relative to the repository. "Slot" always means an index of an
array of N reals that holds N/2 complex numbers, the real part in slot s and the
imaginary part in slot s + N/2.

## 1. Inventory

| Component | Source | State | Operations | Correct when |
|---|---|---|---|---|
| Reference transforms | `fft.c` | the array, in place; counters `u m t i1 j1 j` | `FFT`, `iFFT`, `poly_mul_fft` | slot s holds f(w_rev(s)); `iFFT` inverts `FFT`; no access out of the array or of the twiddle table |
| FFT-domain operations | `fft.c` 452 on | arrays | add, sub, adjoint, inverse norm, LDL, split, merge | each is the ring operation it is named for, in the layout `FFT` leaves |
| Emulated binary64 | `fpr.c`, `fpr.h`, `config.h` | none | add, mul, div, sqrt, scaled, rint, floor, trunc, lt | round to nearest even, no subnormals; assembly and C agree |
| Twiddle constants | `fpr.c` | two tables | none | entry k is exp(i*pi*rev(k)/1024); 2/2^l |
| From-scratch transforms | `myfft.c` | the array, counters `len start k` | `my_FFT`, `my_iFFT`, `my_poly_mul_fft`, `my_poly_mul` | as the reference, same layout |
| Twiddle cache | `myfft.c` | `tabs[]`, the heap | `my_fft_init`, `my_fft_free`, `my_fft_table_bytes` | idempotent, no leak, no double free, exact accounting, a failed allocation leaves nothing behind |
| Harnesses | `test_fftmul.c`, `test_myfft.c` | counters of checks; T11 keeps four arrays | T1 to T11 | the oracle `schoolbook_mul` is the product; T11: both implementations agree slot by slot and in the product |
| Host benchmark | `bench_fftmul.c` | a context of buffers per size, repetition count, minima | `ctx_init`, thirteen timed bodies, calibration, batches, baselines | every call gets its operands, noise stays out of the figures, calibration ends |
| KAT generator | `tools/gen_kat.c`, `target/App/kat.c` | none | printing | out of reach: text output |
| Target timing | `target/App/cycles.[ch]`, `app.c`, SysTick | CYCCNT (32 bits), PRIMASK, `uwTick` | `cyc_lock`, `cyc_unlock`, `HAL_Delay` | a difference of counters is the time spent, no tick is lost for long |
| Target drivers | `bench.c`, `benchdrv_body.h`, `refdrv_body.h`, `myfft_drv.c`, `benchbuf.c`, `verify.c` | four shared slots, minima, sentinels | benchmark and verification rounds | each timed region gets operands of the domain it expects |
| Verdict of a case | `refdrv_body.h`, `myfft_drv.c` | count of wrong coefficients, smallest margin | rounding, comparison, `margin_bits` | a passing case bounds every deviation; the builds judge alike |
| Target heap | `sysmem.c`, linker script | `__sbrk_heap_end` | `_sbrk` | heap and stack never meet; what is reserved is enough |
| Console | `console.c`, `syscalls.c`, HAL UART driver | stdout's mode, driver state, DR and shift register | `console_init`, `printf` to the wire | no byte lost but the one a reset meets; no wait for ever |
| Start-up | `main.c`, `usart.c`, HAL clock driver | oscillators, PLL, switch, SysTick, `SystemCoreClock` | `HAL_Init`, `SystemClock_Config`, `Error_Handler` | derived clocks agree; every wait ends and was given its time |
| HAL, CMSIS | `target/Drivers` | | | third-party; modelled only through its use |

How they interact. Everything is a call from one thread: there is no scheduler
and no second core. A multiplication is a driver that calls a forward transform
twice, a pointwise product and an inverse transform on buffers it owns. The
from-scratch transforms call `my_fft_init`, which calls `malloc`, so a
transform can fail for lack of memory without a way to say so. On the target
the drivers of three builds share four static buffers, and the only concurrent
activity is the SysTick interrupt, masked in the timed regions.

What is hard here, and what a test of inputs and outputs misses:

- Index arithmetic in nested loops over a table shared by all sizes. A wrong
  twiddle in one stage, used consistently forward and backward, still passes a
  round-trip test; a wrong permutation of slots passes every product test.
- In-place butterflies, elided first and last stages, a scale factor that has
  to make up for them.
- Allocations that fail half-way and calls in an order no test makes.
- Sequences of timed regions that leave buffers in one domain or another.
- Wrapping counters, the boundary of a tick, sentinels that are valid values.
- Hand-made floating point: sticky bits, carries between limbs, ties, zeros of
  both signs, in few of very many operands.
- Clocks that change while waits are being timed by them, results of drivers
  that nobody looks at, a reset between any two steps.

The list of hazards, each at its line, with the properties that cover it, is in
`PROJECT.json`.

## 2. Modules

| Module | Models | Checked by |
|---|---|---|
| `ExactComplex` | the arithmetic and the twiddle tables of both implementations | assumptions evaluated in `cross_check`, `ref_header`, `poly_ops` |
| `Negacyclic` | the mathematics: product modulo X^N + 1, roots, remainders | used by the properties |
| `PolyMul` | abstract specification of a multiplication | refined by `RefMul` and `MyMul` |
| `MulCall` | what a call of either multiplication has: operands, size, arrays of slots | with the next three |
| `RefMul` | `fft_mul` over `FFT`, `poly_mul_fft`, `iFFT` of `fft.c` | `cross_check`, `ref_header` |
| `MyMul` | `my_poly_mul` over `my_FFT`, `my_poly_mul_fft`, `my_iFFT` | `cross_check` |
| `CrossCheck` | T11 of `test_myfft.c`, which runs both on the same operands | `cross_check` |
| `RingOps` | abstract specification of the polynomial operations of `fft.c` | refined by `PolyOps` |
| `PolyOps` | every function of `fft.c` after `iFFT` | `poly_ops` |
| `CacheSpec` | what callers of `myfft.c` may take for granted about its tables | refined by `TwiddleCache` |
| `TwiddleCache` | `my_fft_init`, `my_fft_free`, `my_fft_table_bytes` and every caller | `twiddle_cache`, `twiddle_auto` |
| `FloatFormat` | the format of `fpr.h` with its sizes as parameters, exact rounding | used by the next three |
| `FprOps` | the functions of `fpr.c` and `fpr.h`, both builds | used by the next two |
| `Fpr` | one call of any of them | `fpr` |
| `Verdict` | the rounding, comparison and margin of a case, in three builds | `firmware` |
| `Timing` | CYCCNT, SysTick, PRIMASK, `HAL_Delay` and the code that measures | `timing`, `timing_clock` |
| `Drivers` | `app_main`, the drivers of the three builds, `bench_run`, `verify_run` | `drivers`, `drivers_cold` |
| `HostBench` | `bench_fftmul.c` | `host_bench` |
| `ConsoleSpec` | abstract specification of the console | refined by `Console` |
| `Console` | `printf` to the wire, with resets | `firmware` |
| `Startup` | from reset to `app_main` | `firmware` |
| `Heap` | the linker script's RAM, `_sbrk`, the tables in it | `firmware` |
| `Firmware` | the sum of `Verdict`, `Startup`, `Console` and `Heap` | `firmware` |
| `ArithLemmas` | lemmas about `ExactComplex` and `Negacyclic`, used by the next two | TLAPS |
| `CrossCheckProofs` | theorems about `RefMul`, `MyMul` and `CrossCheck` | TLAPS |
| `PolyOpsProofs` | theorems about `PolyOps` | TLAPS |
| `TwiddleCacheProofs` | theorems about `TwiddleCache` | TLAPS |
| `TimingProofs`, `DriversProofs`, `HostBenchProofs` | theorems about `Timing`, `Drivers`, `HostBench` | TLAPS |
| `FirmwareProofs` | theorems about the parts of `Firmware` | TLAPS |
| `MCArith`, `MCCrossCheck`, `MCRefMul`, `MCPolyOps`, `MCTwiddleCache`, `MCFpr`, `MCTiming`, `MCDrivers`, `MCHostBench`, `MCFirmware` | constants for TLC | |

### Arithmetic without rounding (`ExactComplex`, `Negacyclic`)

A double is replaced by a residue modulo a prime P with P % 4 = 3. Then -1 is
not a square, pairs of residues with the complex operations form a field,
conjugation is an automorphism of it, and the elements of norm 1 form a cyclic
group with P + 1 elements, the counterpart of the unit circle. When 2N divides
P + 1 that group has an element that behaves as exp(i*pi/N): its N-th power is
-1 and its conjugate is its inverse. Every identity of the algorithms that holds
for complex numbers holds here, and equality can be tested exactly.

`Circle` is the constant that tabulates exp(i*pi*k/2^LogMax); the assumption
`CircleAssumption` pins it down. `NormAssumption` says that only zero has norm zero,
what dividing by a complex number rests on; it follows from P % 4 = 3, by a piece of number
theory that is not repeated here, and TLC evaluates it. `LogMax` plays the 10 of the reference's
tables and `Pow2[l]` is `(size_t)1 << l`. `fpr_gm_tab` is defined by the formula
the constants of `fpr.c` are printed from, bit reversal over all `LogMax` bits,
as one table that serves every smaller size through its prefixes; `tabs` is
what `my_fft_init` fills, a table per size. `Negacyclic` states the
results both are compared with, written from the definition of the ring and
not from either implementation. Its `SchoolbookMul` is also the oracle of the
harness.

What this abstraction loses is rounding. That each single operation rounds as
it should is the subject of `Fpr`, and what a case's margin says about the sum
of the errors the subject of `Verdict`; that the errors of a whole transform stay
below a bound (the 1e-10 of the harnesses) is not claimed anywhere.

### The reference multiplication (`RefMul`)

State: the operands `a`, `b`, the arrays `out` and `fb`, a program counter, and
the loop counters under their names in the source. One action per butterfly:
`FFTStep` applies `ForwardButterfly` (`fft.c` 278 to 296) to the array being
transformed and advances the three nested loops (`ForwardNext`); `IFFTStep`
does the same for `iFFT`. `Convert`, `PolyMulFFT` and `IFFTScale` are whole
loops as single actions, since their iterations touch disjoint slots and have no
counter that outlives them. The AVX2 branches process four consecutive j of one
block, disjoint slots again, so they compute the same values and are not
separate actions.

### The from-scratch multiplication (`MyMul`)

The same shape: `TwistStep`, `DIFStep`, `DITStep`, `Untwist` with the counters
`len`, `start`, `k`. What the two multiplications have in common, the operands and the
layout of a complex slot, is `MulCall`; so that both can be extended side by side,
what would have the same name in both begins with My here (`my_FFT`
and `FFT` in the source), and the array `out` is `mine`. `NextPair` is the loop over k and start that both
directions share; the outer loop's next length is its argument. The module
assumes that tables are ready and the scratch array exists; `TwiddleCache` is
about what happens otherwise.

### The two side by side (`CrossCheck`)

The products of the two implementations agree whatever order their slots are
in, and each of them inverts itself; that a vector transformed by one can be
used by the other is T11's question. `CrossCheck` EXTENDS `RefMul` and `MyMul`, which
have their operands in common and nothing else, and runs them in the order of the test:
`my_FFT` of both operands, `FFT` of both, and after the comparison the products
and inverses. The two work on disjoint arrays, so that fixing the order of the
calls, as the test does, loses nothing.

### The polynomial operations (`RingOps`, `PolyOps`)

`PolyOps` is a set of buffers, each with its contents, its size and the
representation it is in: coefficients, FFT domain, or the half array of an
autoadjoint vector that `poly_invnorm2_fft` leaves. An action is a call, its
guard what `inner.h` asks of the caller (representation, size, which arguments
may be the same buffer, no division by a slot that is zero), its effect the
loop of the function as one assignment to the slots: an iteration reads its own
slots into locals before it writes any of them. What is kept of the slot order
is what the results depend on: split and merge pair slots 2u and 2u+1 with the
twiddle of the larger size, the one slot of logn = 1 is left as two reals, the
half array has no imaginary parts. `FFT` and `iFFT` are here the change of
representation `RefMul` shows them to be.

`Interpolated` is the polynomial with given values at the roots, by the sum of
the inverse transform with the conjugate half folded into it (`Dot`, the real part); `Value`
of `Negacyclic` is the other direction. A buffer stands for the `Interpolated` of
its `Slots`, those of a half array with zeros as imaginary parts.

`RingOps` knows neither representations nor slots: it says which polynomial each
buffer holds after a call, for the quotients by the product that gives the
dividend back. `PolyOps` implements it through `poly <- [r |-> Represented(r)]`,
the polynomial whose values at the roots (or whose coefficients) a buffer holds.

### The twiddle cache (`CacheSpec`, `TwiddleCache`)

State: `tabs` with the four pointers, the byte count and the ready flag of each
size; the heap as a function from live addresses to sizes; the set of blocks
that were written; `fault`, set by an action of the code that would be undefined
(a free of what is not live, a read of a table that is not there, not filled or
too short). `my_fft_init` is a small program: check, four allocations of one
action each, check of the results, fill. Any of the allocations, and that of the
scratch array, may fail at any time. The callers are `my_FFT`, `my_iFFT` and
`my_poly_mul`, which each call `my_fft_init` and return silently when it fails;
a buffer is represented by what its doubles stand for: time domain, FFT domain,
product in either, or garbage. The environment makes any call with any size from
0 to one above the largest supported, in any order, one at a time.

`CacheSpec` is the same thing as callers may see it: the set of sizes that are
ready, the call in progress, and how a call ends: done, refused with the
buffer untouched, or, only for a `my_poly_mul` that did not find its tables,
spoilt. `TwiddleCache` implements it through `ready <- Ready`, the sizes whose
ready flag is set, and `status <- Status`, which compares what the buffer holds on
return with what was asked for. The allocations, the pointers and the three
calls of `my_fft_init` inside a product disappear in it. It is also what `Drivers`
takes for the cache.

`malloc` and `free` are external. `malloc` returns an unused address or NULL.
It returns the same unused address each time, which loses nothing: the code
compares addresses with NULL only, and the reuse makes a stale pointer point to
something live soon.

### Time on the target (`Timing`)

A step is an instruction that takes one cycle, a stretch of measured code that
takes any number up to `MaxWork`, or the interrupt handler. `Pass` lets the
hardware run along: CYCCNT counts modulo `CounterSize`, SysTick fires every
`Period` cycles and sets `pending`, one bit, so that a second tick before the
first is taken is lost. A pending interrupt that is not masked is taken before
the next instruction. The program goes through the regions of `app_main` in
order: `cyc_overhead` (masked, repeated), `time_busy` (masked; one call stands
for the two), the clock check around `HAL_Delay` (unmasked), a timed region of a
driver (masked), the pause. `elapsed`, `work` and `lost` are not in the code:
they count what really happened, up to `CounterSize`, where they stop. The
test `wait < HAL_MAX_DELAY` of `HAL_Delay` is always true for the two delays the
program asks for and is left out.

### The target's program (`Drivers`)

`app_main`: `myfft_prepare` size by size, then `verify_run` and `bench_run` for
ever. A driver is a program of instructions, as data: `Instructions(section)` is
the body of each repeated section of `benchdrv_body.h` (and of `myfft_drv.c`, which
has the same sections), with the reads of t0 and t1 where they are, and
`Following` their order; `"case"` is the multiplication of `refdrv_body.h` and of
`myfft_case`. The actions execute one instruction, or what follows the last one:
`EndRepeat` (minimum, maximum, next repeat, column) or `Compare` (the result, the
summary of `verify_run`).

A slot holds who wrote it, in which call, and what its numbers stand for: the
operands `a`, `b`, the product `ab`, capitals in the FFT domain. A transform of
what is not in its domain gives `garbage`. Times are given by `Cost`, per operation
and operand. The twiddle cache is the set `ready` of `CacheSpec`: a transform with
ready tables works, one without either builds them or does nothing. The
compared result is `ab` or it is not; how it is rounded and compared is
`Verdict`.

### Binary64 with smaller sizes (`FloatFormat`, `FprOps`, `Fpr`)

An encoding is the integer the program holds in its word. The format has `MB`
bits of mantissa and `EB` of exponent where the source has 52 and 11, and the
constants of the code (1023, the shifts by 52, 63, 10, 9, the 3 low bits of an
addition, the limbs of 25 and 27 bits of a product) become formulas in `MB`, `EB`
and the word length `W`. Shifts, carries and sticky bits are those of the C code,
also where they rely on a word that wraps. `FprOps` has the emulated functions
and those of the native build that are more than one C operator (`fpr_rint`,
`fpr_floor`, `fpr_trunc`, `fpr_lt`). The reference is in `FloatFormat`: a number is
an integer times a power of 2, an operation is its exact result, and
`NearestQuotient` its nearest encoding, ties to even. A behaviour of `Fpr` is one
call.

### A verdict (`Verdict`)

Three builds judge the same coefficients. A step takes any coefficient an
inverse transform may leave and any of the two integers around it as known
answer, and does what the loop body of a driver does: round, compare, and keep
the smallest number of doublings of the deviation. Builds 1 and 2 differ in the
arithmetic, build 3 (`myfft`) in its rounding, which adds 0.5 and truncates.
`worst` and `odd` are not in the code: the largest deviation from the known
answers, and that build 3 rounded a coefficient differently.

### The host benchmark (`HostBench`)

`main`'s loop over sizes, and for each size the thirteen operations of its table:
calibration by doubling, batches, the smallest of them, the baselines. A buffer
is what its numbers stand for, as in `TwiddleCache`. The actions are a call of a
timed body with the copies that restore its operands, the end of a calibration
batch, the end of a timed batch, of an operation, of a row. The machine may interrupt
any call for some time; `clean` and `calibrated` record, for the properties, which
batches were spared.

### The console (`ConsoleSpec`, `Console`)

The program prints its report for ever through newlib's stdout, `_write`,
`__io_putchar` and `HAL_UART_Transmit`, with the driver's state and the USART's two
registers; the transmitter works at its own pace and the board may be reset at
any time, which takes all but what is on the wire. `HAL_MAX_DELAY` as a limit
means that the timeout branch of the driver is never taken, so it is no action.
`ConsoleSpec` is what that amounts to: one byte is taken at a time.

### The start (`Startup`)

From reset to `app_main`: HSE, PLL, the switch of the system clock, the divider
of the USART. The HAL's waits read a flag, then the tick, in two steps between
which the hardware may answer; ticks come from a SysTick that runs on the clock
being switched, and its period is corrected later. Time passes in thirds of a
millisecond, a unit in which every clock of the sequence makes a whole number of
SysTick units (MHz / 8). Hardware answers at any time or never.

### The heap (`Heap`)

`_sbrk` hands out RAM between `_end` and the stack's reservation. It does not look
at the reservation `_Min_Heap_Size`, which only makes the linker fail. The images
are those that link. Above it is a first-fit `malloc` with a header per block, as
newlib-nano's (external), the tables of `myfft.c` with their sizes in bytes, and
blocks the C library takes for itself at any time.

### Their sum (`Firmware`)

These four share no state: the verdict computes on numbers it is given, the start
is over before heap and console are used, and what the C library allocates in
order to print is any block at any time in `Heap`. Their product would only
multiply their states, so `Firmware` is their sum: a behaviour is one of the part chosen at its start,
with the others in their initial state. A property of the run is that of the part,
conjoined by subject.

## 3. Runs

| Run | Expectation | What it shows |
|---|---|---|
| `cross_check` | pass | both multiplications keep their stage invariants, implement `PolyMul`, and agree slot by slot |
| `ref_header` | violation | the slot layout of the header comment of `fft.c` is not the code's |
| `poly_ops` | pass | every operation of `fft.c` does to polynomials what `inner.h` says, in single calls and in pairs of legal calls |
| `twiddle_cache` | pass | no fault, leak or wrong count in any sequence of calls and failures, and the contract of `CacheSpec` |
| `twiddle_auto` | violation | automatic initialisation is no substitute for an explicit one |
| `fpr` | pass | every operation rounds exactly as it should; the two builds agree but for -0 |
| `timing` | pass | the figures are exact, `HAL_Delay` keeps its bounds, the report is repeated |
| `timing_clock` | violation | the clock check may measure a tick more than it divides by |
| `drivers` | pass | every region works on its own operands in their domain; rows and verdicts mean what they say |
| `drivers_cold` | violation | after a failed `myfft_prepare` timed regions build tables |
| `host_bench` | pass | operands are restored, noise is filtered out, the benchmark ends |
| `firmware` | pass | verdicts, start-up, heap and console, each by itself |

Properties of `cross_check` (those of `MyMul` begin with My and are conjoined in
`MyInv`; `BothImplementPolyMul` is the refinement below for both):

- `InBounds`: in every butterfly the last real touched is inside the array and
  the twiddle index is inside the table (for the reference also never entry 0,
  which is stored as 0 and is not a root).
- `ForwardInv`: in the middle of a stage every slot holds the remainder of the
  operand modulo X^size - c its block stands for, before or after the butterfly
  as the counters say. This is the one property that pins down loop bounds, block
  order, twiddle index and in-place update of every single step. For `myfft.c`
  the remainder is twisted by powers of the block's evaluation point.
- `FFTLayout`: after the forward transform, slot s holds f(w_j), j = rev(s). The
  products do not depend on it, but split and merge and the slot-by-slot
  comparison of the two implementations do.
- `InverseInv`: the inverse undoes the stages without the halvings: a slot holds
  the size of its block times what the forward transform has there for the
  product, so that one scaling by 2/N remains.
- `ResultsAgree`: T11. When both have transformed, every slot of the one equals
  the slot of the other, for both operands; when both are back, the products
  are equal; and neither has touched its second array in the product.
- `ImplementsPolyMul`: the abstract multiplication, refined through
  `result <- IF pc = "done" THEN out ELSE NoResult`: the result is the product
  modulo X^N + 1, the operands stay unchanged, and the multiplication ends.

Bounds: P = 31, LogMax = 4, every logn from 1 to 4. logn = 1 has no butterfly,
2 has one stage, 3 has stages with one block and with two, 4 has a stage in
the middle where both the number of blocks and their size exceed 1. Operands are
every pair out of the monomials X^0 .. X^(N-1) and a dense operand. As the
transforms are linear and the product bilinear, what holds for the monomials of
a size holds for every operand of that size; the dense operand, with no two
coefficients equal, checks that reasoning.

Property of `poly_ops`, besides the types:

- `ImplementsRingOps`: what each call does to the polynomials its buffers stand for
  is what `inner.h` promises, and buffers that are no destination keep theirs.
  This relates the functions to each other and to `FFT`: a split in a slot order
  that `FFT` does not leave, a merge with the twiddle of the small size, or
  an operation that takes a half array for a whole one, gives other polynomials.

Bounds: four buffers that hold f, g and their products with their adjoints (so
that Gram matrices, autoadjoint divisors and all pairs of aliased and distinct
arguments occur), P = 31, every logn from 1 to 4, two calls in a row at logn 1
and 2 and one at 3 and 4; the calls with five buffers come first. Splits and
merges move between sizes, so that logn 0 occurs as well; `poly_adj_fft`, which
has no effect there, is not called at logn 0.

Properties of `twiddle_cache`:

- `NoFault`, `Ownership`: nothing freed twice, read after free or read
  unfilled; the live blocks are exactly those the tables and the scratch pointer
  point to, each from one place, also in the middle of an initialisation that is
  going to fail.
- `Accounting`: whenever a caller can ask, `my_fft_table_bytes` is what the
  tables hold of the heap.
- `ReadyStays`: what is ready stays at its addresses until `my_fft_free`.
- `PreparedDelivers`: when the tables were ready at the call, a transform does
  its work, and `my_poly_mul` can fail only by leaving the caller's buffer alone.
- `ComesBack`: `my_poly_mul` never returns with the buffer in the FFT domain.
  This holds for a reason that is easy to lose: the inverse transform's table is
  the forward's, and nothing frees it in between.

- `ImplementsCache`: all of it implements `CacheSpec`. A table comes into being in a
  call for its size and goes in a `my_fft_free`; a transform is refused when
  its table is not there and only then; a buffer is spoilt (neither result nor
  operand) only by a `my_poly_mul` that did not find its table at the call.

Bounds: three supported sizes, among them 1, whose DFT table is empty but
allocated, and 3, whose table has two entries; 13 addresses, room for every
table and the scratch array at once, so that a failure is always a choice. The
bound loses nothing in kind: sizes interact only through `my_fft_free`, which
loops over all of them.

Properties of `fpr`:

- `CorrectlyRounded`: every emulated operation gives the encoding nearest to the
  exact result, the even one in a tie, with the sign a double would have; where
  the code gives +0 for a quotient or root that vanishes, the property says so.
- `BuildsAgree`: rounding to integers and comparisons give the same in the emulated
  and the native build for every operand, but for the floor of -0 and the
  comparison of -0 with +0, which are stated as they are.

Bounds: MB = 4, EB = 5, words of 16 bits. 9 of the 32 exponents, zero and those
that make sums of equal, adjacent, distant and incomparable operands and results
below the smallest normal number; every mantissa and both signs; all pairs for
operations with two operands. With 5 bits of mantissa a product has 10 and is cut into
two limbs with a carry between them, the three low bits of a sum are shifted out
completely, and every remainder of a quotient or root occurs. What the bound cannot
show is a wrong constant of the real widths (a 52 written as 51), as the constants
are formulas here. Results too large for the format, and half the smallest normal
number, where `fpr_half` takes 1 from an exponent of 1 and is not meant to be
right, are excluded by guards.

Properties of `timing`:

- `Exact`: what is printed for a region is the number of cycles that went by,
  or for `time_busy` those of the measured code alone, wherever CYCCNT wrapped
  and whenever a tick came: this needs the masks, the unsigned difference and
  that the overhead is measured by the same two reads.
- `DelayBounds`: `HAL_Delay` waits its ticks at least, and one tick, a handler and
  a turn of the loop more at most.
- `TicksKept`: unmasked code loses no tick; a masked region loses no more than
  fit into its length.
- `ReportRepeats`: the loop of `app_main` comes round for ever, that is, no
  region leaves interrupts masked in front of a `HAL_Delay`.

Bounds: a period of 7 cycles, a handler of 2, a counter of 31 and a `uwTick` of 6
values, work of up to 16 cycles (more than two periods), delays of 2 ticks. 31
and 7 have no common factor, so every phase of SysTick meets every value of the
counter, every region wraps in some run, and a masked region can lose ticks. The
real sizes keep the same order: work < counter, (delay + 2) periods < counter,
handler < period.

Properties of `drivers`:

- `OperandsRight`: no operation touches a slot that another build, job, case or size
  wrote, although all share four (`OwnOperands`); and while no transform has
  failed, every one gets an operand in its domain, in every repeat: this needs each
  restore and the place of the two untimed transforms (`Domains`).
- `Figures`: if no transform of a call failed, each column of its row is the cost
  of the operation it names and the spread is zero, also when tables were built
  inside the call: they are built in the first repeat of the first section that
  needs them, and the minimum drops it.
- `PreparedRuns`: after `myfft_prepare` has succeeded nothing fails, no timed
  region calls `malloc`, and `verify_run` never lays a spread to the data that
  comes from elsewhere (`Cost` is the same for all cases).
- `Vouched`: after it has failed, a `verify_run` without failures still shows that
  the following sweep times real transforms, at the sizes that have a case. At
  the others (logn below 5 on the target) nothing shows it.

Bounds: three sizes, the smallest without a case and the largest with two, the
three builds, three repeats as in the code. Costs are chosen so that an
operation on a wrong operand takes less time and a minimum would keep it; all
contents of slots, ready tables and failures that can meet occur.

Properties of `host_bench`:

- `OperandsRestored`: every call of a timed body, the thousandth like the first,
  finds operands in their domain, and no operation spoils those of the next.
- `Measured`: if one batch of an operation and one of its baseline ran undisturbed
  the figure is exactly the cost of its functions, and a figure can be too
  small only if every batch of the baseline was disturbed (`NoiseFiltered`); a
  calibration whose last batch was undisturbed gives batches of the promised
  length, unless the count reached its cap (`CalibrationHolds`).
- `Ends`: the program ends, with a complete table or because memory ran out.

Bounds: two sizes, three batches, a batch of 10 units, a cap of 8 calls, three
interruptions of 4 units, which can spoil one batch each, all batches of one
operation, or its calibration. A copy reaches the cap, transforms are calibrated
after two or four calls, the schoolbook product at once.

Properties of `firmware`:

- `VerdictSound`: a passing case with margin m shows that every coefficient is
  nearer than 2^-m to the known answer and not nearer by more than another factor
  of 2 (`MarginVouches`); the two reference builds judge the same numbers alike,
  although the emulation orders -0 below +0 (`ReferencesAgree`); where build
  3 rounds differently its margin is 0, and everywhere else its verdict is that
  of build 2 (`MarginShows`).
- `StartSound`: in `app_main` the clock, `SystemCoreClock`, the tick and the baud
  rate agree, whatever was computed while another clock ran (`ClocksAgree`); a wait
  that gives up waited its limit and at most a tick and a turn more, and no
  answer that came in time is refused, although the clock of the tick changes
  (`GivenUpInTime`).
- `HeapSound`: blocks do not overlap and lie between the static data and the
  stack's reservation (`Apart`); a request is refused only when what is in use and
  what is asked for do not fit together, so that failed attempts leave no holes
  that matter (`RefusedForLack`); and wherever 0x8000 bytes are free above
  `_end`, reserved or left over, all tables up to logn 10 fit
  (`ReservedHeapSuffices`).
- `Output`: what the host reads is what was printed, nothing lost, repeated or out
  of order, and all of it once `printf` has returned, at any reset.
- `ImplementsConsole`: the console is `ConsoleSpec`: one byte on its way, which is all
  a reset can cost.
- `GoesOn`: the start ends, in `app_main` or in `Error_Handler`, whatever hardware stays
  silent; every `printf` returns, although its waits have no limit.
- `PartsTypeOK`: the types of the four parts.

Bounds: two coefficients per product, around zero, 1/2, 1, 2 and at integers that
leave no bit for a fraction, and a cap of 6 doublings; limits of 3, 2 and 4 ms and
a tick counter of 3 bits, which wraps in any of the waits; a report of two
printfs, one of which would fit into a stdout buffer, two reports and two resets;
RAM of 128 KB, a stack of 0x400, images that end at 36 KB or just link with
0x8000, 0x4000, 0x1000 or 0x200 bytes of heap, two blocks of the C library.

Fairness. `RefMul`, `MyMul`, `CrossCheck`, `Timing` and `HostBench` state WF_vars(Next): a
sequential program that is not interrupted forever takes its next step. In
`Startup` the processor and time go on (WF of `Processor` and of `Time`), and
nothing is assumed of the hardware's answers: that is the point of `StartEnds`. In
`Console` the program and the two stages of the transmitter go on; no fairness is
assumed of `Reset`. Nothing else is assumed. Where a program ends (a
multiplication, a sequence of calls up to its bound) a run does not check
deadlock; `twiddle_cache`, `timing`, `drivers`, `host_bench` and `firmware` do.

Faulty variants of the code, for example `ForwardButterflyStaleTwiddle`, stand
before the definitions they vary. They are not used by the specifications.
`PROJECT.json` says which property each one breaks, which shows that the
property can fail at the bounds of its run.

### Findings

- `fft.c` 160 to 166 says that f(w_j) is in slot rev(j)/2. The code puts f(w_j),
  for the j with j = rev(s), into slot s. `ref_header` finds the difference at
  logn = 2. The repository's README already notes it for the vendored comment;
  the property `FFTLayout` is the layout that holds.
- `myfft.h` 37 says the transforms call `my_fft_init` automatically, "so explicit
  use is only needed to keep table construction out of a timed region".
  `twiddle_auto` shows a call of a transform that returns with its buffer
  untouched because an allocation failed: a caller that wants to know has to
  call `my_fft_init` itself and look at its result. The target's `app_main`
  goes on after `myfft_prepare` failed.
- `app.c` 19 to 25 says that measuring `HAL_Delay(100)` and dividing by the elapsed
  0.1 s recovers the core clock. `HAL_Delay` adds a tick to guarantee its minimum,
  so the interval lasts between 100 and 101 ms. `timing_clock` shows a check that
  measures nearly a tick more than the delay: at 24 MHz the printed clock can be
  up to 1 % too high, never too low.
- `app.c` 116 says that building the tables first keeps their construction, and
  its `malloc`, out of every timed region. `app_main` goes on when that fails;
  `drivers_cold` shows a timed region of build 3 that then calls `my_fft_init`.

### Remarks on comments

Smaller disagreements between comments and code that the models had to take into
account. The properties above state what the code does.

- `fpr.h` 354 says of the functions other than `fpr_floor` that they normalise zeros to
  +0; `fpr_neg` of
  +0 (410) and products of a zero and a negative number are -0. Floors and
  comparisons see the difference: `fpr_floor` of -0 is -1 in the emulation, and
  `fpr_lt` of -0 and +0 is 1, where `fpr.h` 466 has a signed comparison yield the
  proper result. The native build gives 0 for both.
- `fpr.h` 607 describes the selection in the native `fpr_rint` by the sign of
  tx; the code uses that of sx.
- `myfft_drv.c` 31 says its rounding differs from the reference's on exact halves. It
  differs also just below 0.5, where the sum rounds up, and on odd integers that
  leave no bit for a fraction. The margin is 0 in all these cases.
- `bench_fftmul.c` 11 promises batches of at least `MIN_BATCH_NS`. An interruption in
  the batch that ends the calibration makes the timed ones shorter.
- `docs/BUILDING.md` 138 says a heap of 0x4000 fails at logn 10. `_sbrk` does not look at that
  number; the tables fit if the RAM happens to be left over.
- `tools/gen_kat.c` gives the largest coefficient for 512 terms; its largest case
  has 1024.

## 4. Proofs

TLC checks the properties on the instances above; the theorems hold for every
value of the constants that meets the named assumptions. TLC evaluates these
assumptions in the runs, so that none of them is empty. The pattern is the same everywhere: the
property is not inductive by itself, a stronger `IInv` is, and the module proves
that it holds initially, that every action keeps it (a lemma or a step per
action), and that it implies the property.

### The multiplications (`ArithLemmas`, `CrossCheckProofs`)

From `PAssumption`, `Pow2Assumption`, `CircleAssumption` and `OperandsAssumption`:
every prime and table size, every logn up to it, every set of operands. The theorems
about `MyMul` have the names of those about `RefMul` with My before them.

- `TypeCorrect` of both multiplications: the arrays keep n residues each, the counters
  their types.
- `MemorySafety` of both: no butterfly leaves its arrays or the twiddle table.
- `StageByStage` of both (`ForwardInv`): in the middle of any stage, every slot holds
  the coefficient it should.
- `SlotLayout` of both (`FFTLayout`): f(w_j), j = rev(s), is in slot s.
- `InverseStages` of both (`InverseInv`).
- `ComputesProduct` of both: `Spec => Product!Safety`, the refinement of `PolyMul` but
  for its fairness. What is delivered is `SchoolbookMul` of the operands.
- `MineIsRight` (`MyInv`), `TheTwoAgree` (`ResultsAgree`) and `BothComputeProduct`, for
  T11, whatever the order of the steps of the two.

The counters of three nested loops stay in bounds because of how they are
related. In `FFT`, m = 2^u and t = 2^(logn-u), the block starts at
j1 = i1 * t, there are m/2 blocks and j lies in the first half of its block; in
`iFFT` the same powers hold and blocks of 2t start below N/2. In `myfft.c`, `len` is a
power of two and `start` a multiple of it below N/2; that the last block then ends in
the array, and that k * step stays below N/4, follows from N/2 = step * len, a
lemma about powers of two (`Pow2Product`).

The values need more. `Remainder(f, logn, size, s)` is a coefficient of f modulo the
factor X^size - c of X^N + 1 that the block of slot s stands for, as the sum of
every size-th coefficient times a power of c. One step of a stage is then
the recurrence of such sums: split a sum into its even and its odd terms (`Horner` and
the lemmas about it), where c is the square of the next root, which the tables hold
because bit reversal of twice an index is that of the index with a bit more
(`Rev`, and `ZetaFacts`). `ValueInv`, the inductive invariant, says so for every slot,
the touched ones one stage further than the rest, in both arrays, and for
both directions; the inverse butterfly is the forward one read backwards. For
the pointwise product the layout is used: slot s has the product of the values, which
is the value of the product, since `SchoolbookMul` evaluates as it should at every
root (X^N = -1 there). For `myfft.c` the blocks are those of the twisted operand,
whose remainders are modulo X^size - 1; the twist turns them into those of the
operand (`TwistedRemainder`).

`SchoolbookMul`, `Horner` and bit reversal are recursive functions. Their equations are
proved from the function's definition as a CHOOSE, by induction over the naturals as
sets: the set of numbers for which a fact holds contains 0 and every successor. That needs no
theorem with an operator as its parameter.

In `CrossCheck` one side stutters while the other moves, so each keeps the
other's invariant; `SecondKept`, that the second
operand of neither changes after its transform, is what `ResultsAgree` needs besides.

### The polynomial operations (`PolyOpsProofs`)

From `PolyOpsAssumption` and the assumptions on the arithmetic, `NormAssumption` among
them: any buffers, contents, constants and sizes, and sequences of calls of any length.

- `TypeCorrect` (`TypeOK`): a buffer always has a size the tables serve, and a
  half array always has slots.
- `OperationsAreRight` (`ImplementsRingOps`): the refinement of `RingOps`, whole, since
  neither specification has fairness.

`TypeOK` is inductive. The refinement needs no other invariant, but the theorem that
`Interpolated` and evaluation at the slots are inverse to each other
(`InterpolationInverts`, `InterpolatedValue`), in this way. A polynomial of size 2N is its
even and its odd half, of size N (`InterpolatedHalves`, `ValueHalves`), the values at a pair of
slots 2u and 2u+1 are those of the halves at slot u, sum and difference with a twiddle
between them (`SlotPairs`), and two such steps undo each other (`InverseStep`,
`SplitMerged`, `MergeSplit`). That is an induction over the size; it is at the same time
what `poly_split_fft` and `poly_merge_fft` do, so that the proofs for these two cite the same
lemmas with the twiddle the code reads (`SplitTwiddle`).

With it an operation on the slots is one of the ring: values of a product are the products
of values (`ProductSlots`, from the multiplications), of an adjoint the conjugates
(`AdjointSlots`), of sums and multiples the sums and multiples (`LinearSlots`). A quotient is
the polynomial whose product with the divisor is the dividend, slot by slot
(`QuotientIs`); that is where the divisor's norm must not be zero (`InverseIs`). `poly_LDL_fft` is
proved for one slot and then for all (`LDLNumbers`, `LDLSlots`). What is left is memory: which part
of a buffer a call writes and how it is read back (`StoredIs`, `EachIs`, `SlotsInIs`), the
upper half of an autoadjoint operand that is never read (`AutoadjointSlots`), and the
two reals of a size without slots (`SingleReal`, `SingleSlot`). Every action then has a
`Step` lemma: it keeps `TypeOK` and is the action of `RingOps` with its name.

### The twiddle cache (`TwiddleCacheProofs`)

From `CacheAssumption` alone: any number of supported
sizes, any finite or infinite set of addresses that does not contain NULL.

- `TypeCorrect` (`TypeOK`), `NoUndefinedBehaviour` (`NoFault`), `BlocksOwned`
  (`Ownership`), `ReadyTablesStay` (`ReadyStays`), `ProductComesBack`
  (`ComesBack`), `PreparedCallsDeliver` (`PreparedDelivers`), `BytesAreCounted`
  (`Accounting`), and `ContractKept`: `Spec => ImplementsCache`.

The inductive invariant has the type invariant split by variables, and
three parts. `HeapInv`: every pointer that is set points to a live block that no
other pointer points to, and every live block has such an owner. `TableInv`: a
size that is ready has all its pointers, to blocks that were written; one that
is neither ready nor under construction has none. `ControlInv`: what holds at
each program counter, above all which of the four pointers an unfinished
`my_fft_init` has yet to set, that it never works on a size that is ready, and
that the scratch array exists only inside `my_poly_mul`. `Ownership` needs the
three together: a table may be zeroed because its blocks were freed, and freed
because nobody else owns them. `MulInv` (the table of a product in progress stays
ready after the forward transform) and `PreparedInv` (a call that began with ready
tables still has them) are added for the two properties about callers.

`ContractKept` is a refinement mapping: every initial state maps to one of
`CacheSpec`, and every step to a step of `CacheSpec` or to none. The invariant
behind it adds `RouteInv`: which way a call takes through the code,
what its buffer holds there, and that a transform whose `my_fft_init` failed really
has no table. A step of `my_fft_init` then is `Build` when it fills a table,
`Deliver` or `Refuse` when it returns to the caller, and otherwise invisible; the
return of a product is `Spoil` only if `PreparedInv` does not rule it out.

`BytesAreCounted` compares two sums over sets, of what the tables say and of the sizes of
the blocks. The invariant behind it is small (`BytesInv`: a table that is ready, or
about to be filled, has counted its four arrays); the work is in the sums. The
community modules define a sum as a recursive function that removes a chosen
element; that any element may be removed instead (`SumRemove`) is proved by induction on
the number of elements, for a claim given as the set of numbers it holds of
(`CountInduction`), since the library's induction theorems take an operator. With it
the tables are taken away one by one, each with the four blocks only it points to.

### Time (`TimingProofs`)

From `TimingAssumption`: any width of CYCCNT and of `uwTick`, any period, handler and
work for which CYCCNT does not turn within a region. `TypeCorrect`, `MeasuredIsExact`
(`Exact`), `DelaysAreBounded` (`DelayBounds`) and `TicksAreKept` (`TicksKept`). The
invariant follows a region instruction by instruction: CYCCNT is t0 and the cycles
since, modulo its size (`CounterInv`); in a masked region the ticks lost and pending
fit into the time since the mask (`LostInv`); in `HAL_Delay` the ticks counted,
with the one that is pending, tell within a period how much time went by
(`DelayInv`). The last is why `DelayBounds` alone is not inductive: it speaks of
the end of a delay only.

The proof found that the assumption was too weak: the handler has to leave the
program two cycles of every period (`HandlerCost <= Period - 2`). With one cycle
between two ticks, the turn of `HAL_Delay` that would end the wait is itself
interrupted. On the board the handler takes a few dozen of 24 000 cycles.

### The target's drivers (`DriversProofs`)

From `DriversAssumption` and `RegionsAssumption` (a section is repeated more than
once, and no timed region, of four operations at most, takes as long as the initial
minimum `NoTime`, 2^32 - 1 cycles): any sizes, cases, repeats and costs. `TypeCorrect`, `OperandsAreRight` (`OperandsRight`),
`FiguresAreRight` (`Figures`), `PreparedRunsAreSound` (`PreparedRuns`),
`VerificationVouches` (`Vouched`).

The invariant is a proof outline of the drivers: for each instruction of each
section what the four slots hold (`OwnInv`, `CaseInv`, `SourcesInv`, `WorkInv`, and
`SpoiltInv` for a case whose transform failed), how much time has gone by
(`TimeInv`, `BestInv`, `RowInv`: a table is built in the first repeat of `"fft"` and
the minimum of the later ones drops it), which tables must be there (`TablesInv`),
and what a verification without failures implies (`VouchInv`).

### The host benchmark (`HostBenchProofs`)

From the module's assumptions, among them that the cap of repetitions is a power
of two (`RepsCapAssumption`; `bench_fftmul.c` doubles from 1 to 1 << 30), which makes a capped
count a divisor of it: `OperandsAreRestored` (`OperandsRestored`) and `NoiseIsFiltered`
(`Measured`), for any sizes, costs, batches and interruptions. A batch takes the
time of its calls, and longer only if it was disturbed (`BatchInv`); the best is one of
them or was disturbed (`BestInv`); every result is at least the cost of its
operation and equal to it if a batch was clean (`ResultsInv`). `BufInv` says what the
buffers hold at each call.

### The firmware (`FirmwareProofs`)

From `FirmwareAssumption`, the conjunction of the parts' assumptions. A step of
the firmware is one of a part and leaves the others alone (`PartSteps`), so every
part has an invariant of its own.

- `OutputIsKept` (`Output`) and `OneByteOnItsWay`, the safety part of
  `ImplementsConsole`, for any report, any buffering and resets anywhere. The invariant
  accounts for every byte: what is on the wire, in the two registers and still to be
  written is what was kept (`WireInv`), with the state of the driver tied to its place
  in the code (`RegistersInv`). `OneByteOnItsWay` has a refinement mapping: a write
  of DR is a `Put`, the end of a shift a `Deliver`, and all else is invisible.
- `StartIsSafe` (`StartSound`), for any limits, any width of the tick that holds them
  and any times of the hardware's answers. Time in a wait, ticks
  counted and what is left of the running tick are related by `TimesInv`; it has to
  bear the switch of the clock in the middle of a wait, after which a tick is
  shorter, for at most the two units until the loop sees the switch. `AnswerInv` and
  `GaveUpInv` relate what a wait saw to when the hardware answered.
- `HeapKeepsApart` (`H!Apart`, the first conjunct of `HeapSound`), for any RAM, image,
  sizes of tables and of other blocks. `SbrkInv` and `BlocksInv` say where blocks may
  lie; that a ready table keeps its four blocks is a matter of owners:
  the size `my_fft_init` works on is never ready (`PhaseInv`), so what it takes and gives
  back belongs to no table that is.
- `HeapIsSound` (`HeapSound`), with one hypothesis: `TablesFit`, that all tables and the
  C library's blocks add up to 0x8000 bytes at most, which is needed only for
  `ReservedHeapSuffices` and which the run evaluates for the numbers of the linker script.
  First fit may lose room to holes in general, so why is memory refused only for lack
  of it? Because nothing is given back before the first refusal: until then the
  blocks fill the heap without a gap (`PackInv`), and the first refusal is one for
  lack. From then on `LackInv` is kept: what the ready tables and the C library
  hold only grows, and a size that is not ready needs as much as the one refused
  (`LargerTable`; it needs that the sizes of the tables grow with logn, which
  `HeapAssumption` now says of `Pow2`). So it does not matter what holes later failures leave.
- `PartsAreTyped` (`PartsTypeOK`), with the counts and margins of `Verdict`.

### What is only model-checked

- Rounding (`CorrectlyRounded`, `BuildsAgree`, `VerdictSound`), whose exact results
  need powers of 2 with variable exponents, out of the reach of the provers' arithmetic.
- All liveness (`GoesOn`, `Ends`, `ReportRepeats`, `StartEnds`, the fairness part of
  `ImplementsConsole`, the end of a multiplication): neither fairness nor ENABLED can be
  reasoned about.

## 5. Not modelled

- The AVX2 loops and the Cortex-M4 assembly as separate code. They are meant to be
  the functions of their C counterparts; an assembly instruction set is not
  modelled, and `fpr_sqrt` in AVX2 is the hardware's.
- `fpr_expm_p63`, which nothing in the study calls.
- Bounds on accumulated rounding errors, on which the tolerances of the harnesses
  rest: statements about real analysis, out of TLC's reach.
- T1 to T10 and the other harness tests: loops over random operands that count
  failures. What they test is stated by the properties above for all operands
  of a size.
- `tools/gen_kat.c` and `target/App/kat.c`: text output and its result.
- Printed ratios, columns and formats; `my_poly_add`, a loop of additions that
  nothing calls.
- Arguments no caller may pass: a logn of 64 or more, for which `1 << logn` is
  undefined before `my_fft_init` rejects it.
- The vendored HAL and CMSIS, except for the functions on the firmware's way, which
  are modelled where they are called (`HAL_RCC_OscConfig`, `HAL_RCC_ClockConfig`,
  `HAL_UART_Transmit`, `HAL_Delay`, `HAL_IncTick`). They make up nearly nine
  tenths of the repository's lines: registers, and drivers of peripherals that
  are never started. What remains, generated start-up files included, is about
  15 000 lines, a seventh of them tables of constants and known answers.

## 6. Plan

Done: `ExactComplex`, `Negacyclic`, `PolyMul`, `MulCall`, `RefMul`, `MyMul`, `CrossCheck`; `RingOps`,
`PolyOps`; `CacheSpec`, `TwiddleCache`; `FloatFormat`, `FprOps`, `Fpr`, `Verdict`; `Timing`,
`Drivers`; `HostBench`; `ConsoleSpec`, `Console`, `Startup`, `Heap`, `Firmware`; their runs;
`ArithLemmas`, `CrossCheckProofs`, `PolyOpsProofs`, `TwiddleCacheProofs`, `TimingProofs`,
`DriversProofs`, `HostBenchProofs`, `FirmwareProofs`.

Left: rounding, for one width of the mantissa at a time.

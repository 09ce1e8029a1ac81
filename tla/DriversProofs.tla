--------------------------- MODULE DriversProofs ---------------------------
(***************************************************************************)
(* The properties of Drivers for any sizes, cases, repeats and costs.      *)
(*                                                                         *)
(* The inductive invariant says, for every instruction of every section,   *)
(* what the four slots hold and how much time has gone by when it is       *)
(* reached; what of the row is stored; which tables must be there; and     *)
(* what a verification that failed nowhere implies for the sizes it used.  *)
(***************************************************************************)
EXTENDS Drivers, SequenceTheorems, TLAPS

(***************************************************************************)
(* Where the program is.  A driver's call works on a case or on a size; a  *)
(* region is being timed exactly between the two reads of the counter.     *)
(***************************************************************************)
Length(s) ==
  CASE s = "restore" -> 3 [] s \in {"fft", "ifft", "mul"} -> 4
    [] s = "full" -> 8    [] s = "sources" -> 2 [] s = "case" -> 6

(* The instruction that reads t0; no instruction of "sources" does.        *)
Start(s) ==
  CASE s \in {"restore", "case"} -> 1 [] s \in {"fft", "ifft", "mul"} -> 2
    [] s = "full" -> 3                [] OTHER -> 9

Timed(s, n) == Start(s) < n /\ n <= Length(s)

BenchSections == {"restore", "fft", "full", "sources", "ifft", "mul"}

ControlInv ==
  /\ pc \in {"prepare", "call", "run", "return"} /\ job \in Jobs
  /\ build \in Builds /\ t \in Nat \ {0}
  /\ IF pc = "prepare" THEN t <= MaxLogn ELSE t <= Rounds(job)
  /\ section \in Sections \cup {"return"}
  /\ pc = "run" =>
       IF job = "verify_run" THEN section = "case" ELSE section \in BenchSections
  /\ pc = "return" => section = "return"
  /\ k \in 0 .. Repeats - 1 /\ (section = "sources" => k = 0)
  /\ i \in Nat \ {0} /\ (pc = "run" => i <= Length(section) + 1)

TimingInv ==
  timing \in BOOLEAN /\ (timing <=> pc = "run" /\ Timed(section, i))

FlagType ==
  /\ prepared \in BOOLEAN /\ failed \in BOOLEAN /\ allocated \in BOOLEAN
  /\ ready \in SUBSET (1 .. MaxLogn)

(***************************************************************************)
(* What the slots hold: who wrote them, and which polynomial in which      *)
(* domain, at every instruction of every section.                          *)
(***************************************************************************)
Marks == (Jobs \cup {"none"}) \X (0 .. 3) \X (0 .. MaxLogn + Len(KatLogn))

SlotType == slot \in [0 .. 3 -> [by : Marks, val : Values]]

OwnInv ==
  pc = "run" =>
    /\ section = "case" => slot[0].by = Call /\ slot[1].by = Call
    /\ section # "case" => slot[2].by = Call /\ slot[3].by = Call
    /\ section \in {"fft", "full", "ifft", "mul"} /\ i >= 2 => slot[0].by = Call
    /\ section = "restore" /\ i >= 3 => slot[0].by = Call
    /\ section = "full" /\ i >= 3 => slot[1].by = Call

CaseInv ==
  pc = "run" /\ section = "case" /\ ~failed =>
    /\ slot[0].val = CASE i <= 2 -> "a" [] i \in {3, 4} -> "A"
                       [] i = 5 -> "AB" [] OTHER -> "ab"
    /\ slot[1].val = IF i <= 3 THEN "b" ELSE "B"

(* A transform that fails leaves the case without its result.              *)
SpoiltInv ==
  pc = "run" /\ section = "case" /\ failed =>
    /\ i >= 3
    /\ slot[0].val = IF i <= 4 THEN "a" ELSE "garbage"

SourcesInv ==
  pc = "run" /\ section # "case" /\ ~failed =>
    /\ slot[2].val = IF \/ section \in {"restore", "fft", "full"}
                        \/ section = "sources" /\ i = 1
                     THEN "a" ELSE "A"
    /\ slot[3].val = IF \/ section \in {"restore", "fft", "full"}
                        \/ section = "sources" /\ i \in {1, 2}
                     THEN "b" ELSE "B"

WorkInv ==
  pc = "run" /\ ~failed =>
    /\ section = "restore" /\ i >= 3 => slot[0].val = "a"
    /\ section = "fft" /\ i >= 2 => slot[0].val = IF i <= 3 THEN "a" ELSE "A"
    /\ section = "full" /\ i >= 2 =>
         slot[0].val = CASE i <= 4 -> "a" [] i \in {5, 6} -> "A"
                         [] i = 7 -> "AB" [] OTHER -> "ab"
    /\ section = "full" /\ i >= 3 =>
         slot[1].val = IF i <= 5 THEN "b" ELSE "B"
    /\ section \in {"ifft", "mul"} /\ i \in {2, 3} => slot[0].val = "A"

ContentsInv == OwnInv /\ CaseInv /\ SpoiltInv /\ SourcesInv /\ WorkInv

(***************************************************************************)
(* Which tables must be there.  pc = "prepare": the sizes below t.  A      *)
(* driver of myfft.c none of whose transforms failed has its tables from   *)
(* the first transform on.                                                 *)
(***************************************************************************)
TablesInv ==
  /\ pc = "prepare" => /\ ready = 1 .. t - 1 /\ ~prepared /\ ~failed
                       /\ ~allocated /\ job = "verify_run" /\ build = 1
  /\ prepared => ready = 1 .. MaxLogn /\ ~failed /\ ~allocated
  /\ pc = "run" /\ build = Myfft /\ ~failed /\ section = "case" /\ i >= 3
       => logn \in ready
  /\ pc = "run" /\ build = Myfft /\ ~failed /\ section = "fft"
       /\ (k >= 1 \/ i >= 4) => logn \in ready
  /\ pc = "run" /\ build = Myfft /\ ~failed
       /\ section \in {"full", "sources", "ifft", "mul"} => logn \in ready

(***************************************************************************)
(* How much time went by since t0 was read, in a driver none of whose      *)
(* transforms failed.  Tables are built in the first repeat of "fft" only, *)
(* or in a case.                                                           *)
(***************************************************************************)
Spent(s, n) ==
  CASE s = "restore" -> IF n = 2 THEN 0 ELSE Cost[<<"memcpy", "a">>]
    [] s = "fft" -> IF n = 3 THEN 0 ELSE Cost[<<"FFT", "a">>]
    [] s \in {"full", "case"} ->
         LET m == IF s = "full" THEN n - 2 ELSE n
         IN  CASE m = 2 -> 0
               [] m = 3 -> Cost[<<"FFT", "a">>]
               [] m = 4 -> Cost[<<"FFT", "a">>] + Cost[<<"FFT", "b">>]
               [] m = 5 -> Cost[<<"FFT", "a">>] + Cost[<<"FFT", "b">>]
                           + Cost[<<"poly_mul_fft", "A">>]
               [] OTHER -> FullCost
    [] s = "ifft" -> IF n = 3 THEN 0 ELSE Cost[<<"iFFT", "A">>]
    [] s = "mul" -> IF n = 3 THEN 0 ELSE Cost[<<"poly_mul_fft", "A">>]
    [] OTHER -> 0

Builder == section = "fft" /\ k = 0

TimeInv ==
  pc = "run" /\ ~failed /\ i > Start(section) =>
    /\ section # "case" /\ ~Builder => cycles = Spent(section, i)
    /\ Builder => cycles = Spent(section, i)
                  \/ (i >= 4 /\ cycles = Spent(section, i) + BuildCost)
    /\ section = "case" /\ prepared => cycles = Spent(section, i)

(* The minimum and the maximum of the repeats done.                        *)
Total(s) == Spent(s, Length(s) + 1)

BestInv ==
  pc = "run" /\ section \notin {"case", "sources"} /\ ~failed =>
    /\ k = 0 => best = NoTime /\ worst = 0
    /\ k >= 1 /\ section # "fft" => best = Total(section) /\ worst = best
    /\ k >= 2 /\ section = "fft" => best = Total(section)
    /\ k = 1 /\ section = "fft" =>
         best \in {Total(section), Total(section) + BuildCost}

(* The columns stored so far.                                              *)
RowInv ==
  pc \in {"run", "return"} /\ job = "bench_run" /\ ~failed =>
    /\ section # "restore" => row["restore"] = Cost[<<"memcpy", "a">>]
    /\ section \notin {"restore", "fft"} => row["fft"] = Cost[<<"FFT", "a">>]
    /\ section \notin {"restore", "fft", "full"} =>
         row["full"] = FullCost /\ row["spread"] = 0
    /\ section \in {"mul", "return"} => row["ifft"] = Cost[<<"iFFT", "A">>]
    /\ section = "return" => row["mul"] = Cost[<<"poly_mul_fft", "A">>]

(***************************************************************************)
(* No counter overflows: at most four operations are timed, each of which  *)
(* takes a quarter of NoTime at most.                                      *)
(***************************************************************************)
Operated(s, n) ==
  CASE s \in {"restore", "case"} -> n - 2 [] s = "full" -> n - 4
    [] OTHER -> n - 3

SizeInv ==
  /\ cycles \in 0 .. NoTime /\ best \in 0 .. NoTime /\ worst \in 0 .. NoTime
  /\ row \in [Columns -> 0 .. NoTime]
  /\ timing => 4 * cycles <= Operated(section, i) * NoTime

SummaryType ==
  /\ failures \in Nat
  /\ ref_cycles \in [Builds -> 0 .. NoTime]
  /\ lo \in [Builds -> 0 .. NoTime] /\ hi \in [Builds -> 0 .. NoTime]

(* A case is counted once at most.                                         *)
Cases ==
  IF job = "bench_run" THEN 3 * Len(KatLogn)
  ELSE (build - 1) * Len(KatLogn) + (IF pc = "return" THEN t ELSE t - 1)

FailuresInv ==
  /\ failures <= IF pc = "prepare" THEN 0 ELSE Cases
  /\ prepared => failures = 0

(* With all tables ready every case takes the time of the operations.      *)
SpreadInv ==
  prepared \/ pc = "prepare" =>
    \A b \in Builds :
      \/ hi[b] = 0 /\ lo[b] = NoTime /\ ref_cycles[b] = 0
      \/ hi[b] = FullCost /\ lo[b] = FullCost /\ ref_cycles[b] = FullCost

(***************************************************************************)
(* A case of myfft.c without a failure has left the tables of its size     *)
(* ready; after all of them the sweep finds the tables of all these sizes. *)
(***************************************************************************)
Passed(c) ==
  \/ job = "bench_run"
  \/ build = Myfft /\ (c < t \/ (c = t /\ pc = "return"))

VouchInv ==
  failures = 0 /\ pc # "prepare" =>
    /\ \A c \in 1 .. Len(KatLogn) : Passed(c) => KatLogn[c] \in ready
    /\ job = "bench_run" /\ pc \in {"run", "return"}
         /\ (\E c \in 1 .. Len(KatLogn) : KatLogn[c] = t) => ~failed

IInv ==
  /\ ControlInv /\ TimingInv /\ FlagType /\ SlotType /\ ContentsInv /\ TablesInv
  /\ TimeInv /\ BestInv /\ RowInv /\ SizeInv
  /\ SummaryType /\ FailuresInv /\ SpreadInv /\ VouchInv

-----------------------------------------------------------------------------
(* What three sequences in a row hold.                                     *)
LEMMA Joined ==
  \A S : \A u, v, w \in Seq(S) :
    /\ Len((u \o v) \o w) = Len(u) + Len(v) + Len(w)
    /\ \A n \in 1 .. Len(u) + Len(v) + Len(w) :
         ((u \o v) \o w)[n] = IF n <= Len(u) THEN u[n]
                              ELSE IF n <= Len(u) + Len(v) THEN v[n - Len(u)]
                              ELSE w[n - Len(u) - Len(v)]
<1> TAKE S
<1> TAKE u, v, w \in Seq(S)
<1>1. /\ u \o v \in Seq(S) /\ Len(u \o v) = Len(u) + Len(v)
      /\ \A n \in 1 .. Len(u) + Len(v) :
           (u \o v)[n] = IF n <= Len(u) THEN u[n] ELSE v[n - Len(u)]
  BY ConcatProperties
<1>2. /\ Len((u \o v) \o w) = Len(u \o v) + Len(w)
      /\ \A n \in 1 .. Len(u \o v) + Len(w) :
           ((u \o v) \o w)[n] = IF n <= Len(u \o v) THEN (u \o v)[n]
                                ELSE w[n - Len(u \o v)]
  BY <1>1, ConcatProperties
<1>3. Len(u) \in Nat /\ Len(v) \in Nat /\ Len(w) \in Nat
  BY LenProperties
<1>4. QED
  BY <1>1, <1>2, <1>3

(* The programs of the sections, spelled out.                              *)
LEMMA FullProgram ==
  LET s == Instructions("full")
  IN  /\ Len(s) = 8
      /\ s[1] = Copy(0, 2) /\ s[2] = Copy(1, 3) /\ s[3] = T0 /\ s[4] = FFT(0)
      /\ s[5] = FFT(1) /\ s[6] = Mul(0, 1) /\ s[7] = iFFT(0) /\ s[8] = T1
<1>1. PICK S : S = {Copy(0, 2), Copy(1, 3), T0, FFT(0), FFT(1), Mul(0, 1),
                    iFFT(0), T1}
  OBVIOUS
<1>2. PICK u : u = <<Copy(0, 2), Copy(1, 3), T0>>
  OBVIOUS
<1>3. PICK v : v = Multiply
  OBVIOUS
<1>4. PICK w : w = <<T1>>
  OBVIOUS
<1>5. Instructions("full") = (u \o v) \o w
  BY <1>2, <1>3, <1>4 DEF Instructions
<1>6. u \in Seq(S) /\ v \in Seq(S) /\ w \in Seq(S)
  BY <1>1, <1>2, <1>3, <1>4 DEF Multiply
<1>7. Len(u) = 3 /\ Len(v) = 4 /\ Len(w) = 1
  BY <1>2, <1>3, <1>4 DEF Multiply
<1>8. /\ Len((u \o v) \o w) = Len(u) + Len(v) + Len(w)
      /\ \A n \in 1 .. Len(u) + Len(v) + Len(w) :
           ((u \o v) \o w)[n] = IF n <= Len(u) THEN u[n]
                                ELSE IF n <= Len(u) + Len(v) THEN v[n - Len(u)]
                                ELSE w[n - Len(u) - Len(v)]
  BY <1>6, Joined
<1>9. LET s == (u \o v) \o w
      IN  /\ Len(s) = 8 /\ s[1] = u[1] /\ s[2] = u[2] /\ s[3] = u[3]
          /\ s[4] = v[1] /\ s[5] = v[2] /\ s[6] = v[3] /\ s[7] = v[4]
          /\ s[8] = w[1]
  BY ONLY <1>7, <1>8
<1>10. u[1] = Copy(0, 2) /\ u[2] = Copy(1, 3) /\ u[3] = T0 /\ w[1] = T1
  BY <1>2, <1>4
<1>11. v[1] = FFT(0) /\ v[2] = FFT(1) /\ v[3] = Mul(0, 1) /\ v[4] = iFFT(0)
  BY <1>3 DEF Multiply
<1>12. QED
  BY ONLY <1>5, <1>9, <1>10, <1>11, Zenon

LEMMA CaseProgram ==
  LET s == Instructions("case")
  IN  /\ Len(s) = 6
      /\ s[1] = T0 /\ s[2] = FFT(0) /\ s[3] = FFT(1) /\ s[4] = Mul(0, 1)
      /\ s[5] = iFFT(0) /\ s[6] = T1
<1>1. PICK S : S = {T0, FFT(0), FFT(1), Mul(0, 1), iFFT(0), T1}
  OBVIOUS
<1>2. PICK u : u = <<T0>>
  OBVIOUS
<1>3. PICK v : v = Multiply
  OBVIOUS
<1>4. PICK w : w = <<T1>>
  OBVIOUS
<1>5. Instructions("case") = (u \o v) \o w
  BY <1>2, <1>3, <1>4 DEF Instructions
<1>6. u \in Seq(S) /\ v \in Seq(S) /\ w \in Seq(S)
  BY <1>1, <1>2, <1>3, <1>4 DEF Multiply
<1>7. Len(u) = 1 /\ Len(v) = 4 /\ Len(w) = 1
  BY <1>2, <1>3, <1>4 DEF Multiply
<1>8. /\ Len((u \o v) \o w) = Len(u) + Len(v) + Len(w)
      /\ \A n \in 1 .. Len(u) + Len(v) + Len(w) :
           ((u \o v) \o w)[n] = IF n <= Len(u) THEN u[n]
                                ELSE IF n <= Len(u) + Len(v) THEN v[n - Len(u)]
                                ELSE w[n - Len(u) - Len(v)]
  BY <1>6, Joined
<1>9. LET s == (u \o v) \o w
      IN  /\ Len(s) = 6 /\ s[1] = u[1] /\ s[2] = v[1] /\ s[3] = v[2]
          /\ s[4] = v[3] /\ s[5] = v[4] /\ s[6] = w[1]
  BY ONLY <1>7, <1>8
<1>10. u[1] = T0 /\ w[1] = T1
  BY <1>2, <1>4
<1>11. v[1] = FFT(0) /\ v[2] = FFT(1) /\ v[3] = Mul(0, 1) /\ v[4] = iFFT(0)
  BY <1>3 DEF Multiply
<1>12. QED
  BY ONLY <1>5, <1>9, <1>10, <1>11, Zenon

LEMMA OtherPrograms ==
  /\ Instructions("restore") = <<T0, Copy(0, 2), T1>>
  /\ Instructions("fft") = <<Copy(0, 2), T0, FFT(0), T1>>
  /\ Instructions("sources") = <<FFT(2), FFT(3)>>
  /\ Instructions("ifft") = <<Copy(0, 2), T0, iFFT(0), T1>>
  /\ Instructions("mul") = <<Copy(0, 2), T0, Mul(0, 3), T1>>
<1>1. Instructions("restore") = <<T0, Copy(0, 2), T1>>
  BY DEF Instructions
<1>2. Instructions("fft") = <<Copy(0, 2), T0, FFT(0), T1>>
  BY DEF Instructions
<1>3. Instructions("sources") = <<FFT(2), FFT(3)>>
  BY DEF Instructions
<1>4. Instructions("ifft") = <<Copy(0, 2), T0, iFFT(0), T1>>
  <2>1. Instructions("ifft") = InverseAlone
    BY DEF Instructions
  <2>2. QED
    BY <2>1 DEF InverseAlone
<1>5. Instructions("mul") = <<Copy(0, 2), T0, Mul(0, 3), T1>>
  BY DEF Instructions
<1>6. QED
  BY <1>1, <1>2, <1>3, <1>4, <1>5

LEMMA Lengths ==
  \A s \in Sections : Len(Instructions(s)) = Length(s)
  BY FullProgram, CaseProgram, OtherPrograms DEF Sections, Length

(* Which instruction it is that is executed.                               *)
Is(s, n, x) == section = s /\ i = n /\ Instr = x

LEMMA Reading ==
  ASSUME ControlInv, pc = "run", i <= Len(Instructions(section))
  PROVE
    \/ Is("restore", 1, T0) \/ Is("restore", 2, Copy(0, 2))
    \/ Is("restore", 3, T1)
    \/ Is("fft", 1, Copy(0, 2)) \/ Is("fft", 2, T0) \/ Is("fft", 3, FFT(0))
    \/ Is("fft", 4, T1)
    \/ Is("full", 1, Copy(0, 2)) \/ Is("full", 2, Copy(1, 3))
    \/ Is("full", 3, T0) \/ Is("full", 4, FFT(0)) \/ Is("full", 5, FFT(1))
    \/ Is("full", 6, Mul(0, 1)) \/ Is("full", 7, iFFT(0))
    \/ Is("full", 8, T1)
    \/ Is("sources", 1, FFT(2)) \/ Is("sources", 2, FFT(3))
    \/ Is("ifft", 1, Copy(0, 2)) \/ Is("ifft", 2, T0)
    \/ Is("ifft", 3, iFFT(0)) \/ Is("ifft", 4, T1)
    \/ Is("mul", 1, Copy(0, 2)) \/ Is("mul", 2, T0)
    \/ Is("mul", 3, Mul(0, 3)) \/ Is("mul", 4, T1)
    \/ Is("case", 1, T0) \/ Is("case", 2, FFT(0)) \/ Is("case", 3, FFT(1))
    \/ Is("case", 4, Mul(0, 1)) \/ Is("case", 5, iFFT(0))
    \/ Is("case", 6, T1)
<1>1. section \in Sections
  BY DEF ControlInv, Sections, BenchSections
<1>2. i \in 1 .. Length(section)
  BY <1>1, Lengths DEF ControlInv
<1>3. CASE section = "restore"
  BY <1>2, <1>3, OtherPrograms DEF Is, Instr, Length
<1>4. CASE section = "fft"
  BY <1>2, <1>4, OtherPrograms DEF Is, Instr, Length
<1>5. CASE section = "full"
  BY <1>2, <1>5, FullProgram DEF Is, Instr, Length
<1>6. CASE section = "sources"
  BY <1>2, <1>6, OtherPrograms DEF Is, Instr, Length
<1>7. CASE section = "ifft"
  BY <1>2, <1>7, OtherPrograms DEF Is, Instr, Length
<1>8. CASE section = "mul"
  BY <1>2, <1>8, OtherPrograms DEF Is, Instr, Length
<1>9. CASE section = "case"
  BY <1>2, <1>9, CaseProgram DEF Is, Instr, Length
<1>10. QED
  BY <1>1, <1>3, <1>4, <1>5, <1>6, <1>7, <1>8, <1>9 DEF Sections

(* Where a region starts and ends, and the time spent at each instruction. *)
LEMMA Bounds ==
  /\ Length("restore") = 3 /\ Length("fft") = 4 /\ Length("full") = 8
  /\ Length("sources") = 2 /\ Length("ifft") = 4 /\ Length("mul") = 4
  /\ Length("case") = 6
  /\ Start("restore") = 1 /\ Start("fft") = 2 /\ Start("full") = 3
  /\ Start("sources") = 9 /\ Start("ifft") = 2 /\ Start("mul") = 2
  /\ Start("case") = 1
  BY DEF Length, Start

LEMMA Sums ==
  /\ Spent("restore", 2) = 0 /\ Spent("fft", 3) = 0
  /\ Spent("ifft", 3) = 0 /\ Spent("mul", 3) = 0
  /\ Spent("restore", 3) = Cost[<<"memcpy", "a">>]
  /\ Spent("restore", 4) = Cost[<<"memcpy", "a">>]
  /\ Spent("fft", 4) = Cost[<<"FFT", "a">>]
  /\ Spent("fft", 5) = Cost[<<"FFT", "a">>]
  /\ Spent("ifft", 4) = Cost[<<"iFFT", "A">>]
  /\ Spent("ifft", 5) = Cost[<<"iFFT", "A">>]
  /\ Spent("mul", 4) = Cost[<<"poly_mul_fft", "A">>]
  /\ Spent("mul", 5) = Cost[<<"poly_mul_fft", "A">>]
  /\ Spent("full", 4) = 0 /\ Spent("case", 2) = 0
  /\ Spent("full", 5) = Cost[<<"FFT", "a">>]
  /\ Spent("full", 6) = Cost[<<"FFT", "a">>] + Cost[<<"FFT", "b">>]
  /\ Spent("full", 7) = Cost[<<"FFT", "a">>] + Cost[<<"FFT", "b">>]
                        + Cost[<<"poly_mul_fft", "A">>]
  /\ Spent("full", 8) = FullCost
  /\ Spent("full", 9) = FullCost
  /\ Spent("case", 3) = Cost[<<"FFT", "a">>]
  /\ Spent("case", 4) = Cost[<<"FFT", "a">>] + Cost[<<"FFT", "b">>]
  /\ Spent("case", 5) = Cost[<<"FFT", "a">>] + Cost[<<"FFT", "b">>]
                        + Cost[<<"poly_mul_fft", "A">>]
  /\ Spent("case", 6) = FullCost
  /\ Spent("case", 7) = FullCost
<1>1. /\ Spent("restore", 2) = 0 /\ Spent("fft", 3) = 0
      /\ Spent("ifft", 3) = 0 /\ Spent("mul", 3) = 0
      /\ Spent("restore", 3) = Cost[<<"memcpy", "a">>]
      /\ Spent("restore", 4) = Cost[<<"memcpy", "a">>]
      /\ Spent("fft", 4) = Cost[<<"FFT", "a">>]
      /\ Spent("fft", 5) = Cost[<<"FFT", "a">>]
      /\ Spent("ifft", 4) = Cost[<<"iFFT", "A">>]
      /\ Spent("ifft", 5) = Cost[<<"iFFT", "A">>]
      /\ Spent("mul", 4) = Cost[<<"poly_mul_fft", "A">>]
      /\ Spent("mul", 5) = Cost[<<"poly_mul_fft", "A">>]
  BY DEF Spent
<1>2. /\ Spent("full", 4) = 0
      /\ Spent("full", 5) = Cost[<<"FFT", "a">>]
      /\ Spent("full", 6) = Cost[<<"FFT", "a">>] + Cost[<<"FFT", "b">>]
      /\ Spent("full", 7) = Cost[<<"FFT", "a">>] + Cost[<<"FFT", "b">>]
                            + Cost[<<"poly_mul_fft", "A">>]
      /\ Spent("full", 8) = FullCost
      /\ Spent("full", 9) = FullCost
  BY DEF Spent
<1>3. /\ Spent("case", 2) = 0
      /\ Spent("case", 3) = Cost[<<"FFT", "a">>]
      /\ Spent("case", 4) = Cost[<<"FFT", "a">>] + Cost[<<"FFT", "b">>]
      /\ Spent("case", 5) = Cost[<<"FFT", "a">>] + Cost[<<"FFT", "b">>]
                            + Cost[<<"poly_mul_fft", "A">>]
      /\ Spent("case", 6) = FullCost
      /\ Spent("case", 7) = FullCost
  BY DEF Spent
<1>4. QED
  BY <1>1, <1>2, <1>3

(***************************************************************************)
(* An instruction.  What it leaves alone, and what of the invariant holds  *)
(* after it whatever it does.                                              *)
(***************************************************************************)
Goes ==
  /\ pc = "run" /\ section \in Sections /\ i \in 1 .. Length(section)
  /\ i' = i + 1
  /\ UNCHANGED <<pc, job, build, t, section, k, best, worst, row, failures,
                 ref_cycles, lo, hi, prepared>>

LEMMA AtGoes ==
  ASSUME ControlInv, NEW op, At(op)
  PROVE  Goes /\ Instr.op = op
<1>1. pc = "run" /\ i <= Len(Instructions(section)) /\ Instr.op = op
  BY DEF At
<1>2. section \in Sections
  BY <1>1 DEF ControlInv, Sections, BenchSections
<1>3. i \in 1 .. Length(section)
  BY <1>1, <1>2, Lengths DEF ControlInv
<1>4. QED
  BY <1>1, <1>2, <1>3 DEF At, Goes, summary

LEMMA Ahead ==
  ASSUME IInv, Goes, failed => failed', ready \subseteq ready',
         ready' \in SUBSET (1 .. MaxLogn)
  PROVE  /\ ControlInv' /\ BestInv' /\ RowInv' /\ SummaryType'
         /\ FailuresInv' /\ SpreadInv'
         /\ failed' = failed => VouchInv'
<1>1. BestInv'
  BY DEF IInv, Goes, BestInv, Total, Length, Spent
<1>2. RowInv'
  BY DEF IInv, Goes, RowInv, FullCost
<1>3. SummaryType'
  BY DEF IInv, Goes, SummaryType
<1>4. FailuresInv'
  BY DEF IInv, Goes, FailuresInv, Cases
<1>5. SpreadInv'
  BY DEF IInv, Goes, SpreadInv, FullCost
<1>6. failed' = failed => VouchInv'
  <2>1. SUFFICES ASSUME failed' = failed
                 PROVE  VouchInv'
    OBVIOUS
  <2>2. /\ pc' = pc /\ job' = job /\ build' = build /\ t' = t
        /\ failures' = failures /\ VouchInv
    BY DEF Goes, IInv
  <2>3. QED
    BY <2>1, <2>2, Zenon DEF VouchInv, Passed
<1>7. ControlInv'
  <2>1. Length(section) \in Nat
    BY Bounds DEF Goes, Sections
  <2>2. QED
    BY <2>1 DEF IInv, Goes, ControlInv, Rounds
<1>8. QED
  BY <1>1, <1>2, <1>3, <1>4, <1>5, <1>6, <1>7

(* An operation that takes c cycles, in a timed region or not.             *)
LEMMA Costs ==
  \A op \in Operations, v \in Values :
    /\ Cost[<<op, v>>] \in Nat /\ 4 * Cost[<<op, v>>] <= NoTime
    /\ Cost[<<op, v>>] + BuildCost \in Nat
    /\ 4 * (Cost[<<op, v>>] + BuildCost) <= NoTime
<1> TAKE op \in Operations, v \in Values
<1>1. <<op, v>> \in Operations \X Values
  OBVIOUS
<1>2. Cost[<<op, v>>] \in Nat
  BY <1>1, DriversAssumption
<1>3. 4 * (Cost[<<op, v>>] + BuildCost) <= NoTime
  BY <1>1, RegionsAssumption
<1>4. QED
  BY <1>2, <1>3, DriversAssumption

LEMMA Operation ==
  ASSUME IInv, Goes, NEW c \in Nat, 4 * c <= NoTime, Takes(c), timing' = timing,
         i # Start(section), i # Length(section) \/ section = "sources"
  PROVE  TimingInv' /\ SizeInv'
<1>1. Start(section) \in Nat /\ Length(section) \in Nat
  BY Bounds DEF Goes, Sections
<1>2. Timed(section, i') <=> Timed(section, i)
  BY <1>1, Bounds DEF Goes, Timed, Sections
<1>3. TimingInv'
  BY <1>2 DEF IInv, TimingInv, Goes, Timed
<1>4. /\ cycles \in Nat /\ cycles <= NoTime /\ NoTime \in Nat
      /\ timing => 4 * cycles <= Operated(section, i) * NoTime
  BY DriversAssumption DEF IInv, SizeInv
<1>5. ASSUME timing
      PROVE  /\ cycles' \in Nat /\ cycles' <= NoTime
             /\ 4 * cycles' <= Operated(section, i') * NoTime
  <2>1. Start(section) < i /\ i < Length(section)
    BY <1>1, <1>5, Bounds DEF IInv, TimingInv, Timed, Goes
  <2>2. PICK n \in 0 .. 3 : Operated(section, i) = n
    BY <2>1, Bounds DEF Operated, Goes, Sections
  <2>3. Operated(section, i') = n + 1
    BY <2>2 DEF Operated, Goes, Sections
  <2>4. cycles' = cycles + c
    BY <1>5 DEF Takes
  <2>5. CASE n = 0
    BY <1>4, <1>5, <2>2, <2>3, <2>4, <2>5
  <2>6. CASE n = 1
    BY <1>4, <1>5, <2>2, <2>3, <2>4, <2>6
  <2>7. CASE n = 2
    BY <1>4, <1>5, <2>2, <2>3, <2>4, <2>7
  <2>8. CASE n = 3
    BY <1>4, <1>5, <2>2, <2>3, <2>4, <2>8
  <2>9. QED
    BY <2>5, <2>6, <2>7, <2>8
<1>6. SizeInv'
  BY <1>4, <1>5 DEF IInv, SizeInv, Goes, Takes
<1>7. QED
  BY <1>3, <1>6

LEMMA ReadT0Step ==
  ASSUME IInv, ReadT0
  PROVE  IInv'
<1>1. Goes /\ Instr.op = "t0"
  BY AtGoes DEF IInv, ReadT0
<1>2. /\ timing' = TRUE /\ cycles' = 0
      /\ UNCHANGED <<slot, ready, failed, allocated>>
  BY DEF ReadT0
<1>3. \/ section = "restore" /\ i = 1 /\ i' = 2
      \/ section = "case" /\ i = 1 /\ i' = 2
      \/ section = "fft" /\ i = 2 /\ i' = 3
      \/ section = "ifft" /\ i = 2 /\ i' = 3
      \/ section = "mul" /\ i = 2 /\ i' = 3
      \/ section = "full" /\ i = 3 /\ i' = 4
  BY <1>1, Reading, Lengths DEF IInv, Goes, Is, T0, T1, Copy, FFT, iFFT, Mul
<1>4. TimingInv'
  <2>1. Start(section) < i' /\ i' <= Length(section)
    BY <1>3, Bounds
  <2>2. QED
    BY <1>1, <1>2, <2>1 DEF TimingInv, Goes, Timed
<1>5. FlagType' /\ SlotType'
  BY <1>1, <1>2 DEF IInv, FlagType, SlotType, Goes
<1>6. ContentsInv'
  <2>1. OwnInv'
    BY <1>1, <1>2, <1>3 DEF IInv, ContentsInv, OwnInv, Goes, Call
  <2>2. CaseInv' /\ SpoiltInv'
    BY <1>1, <1>2, <1>3 DEF IInv, ContentsInv, CaseInv, SpoiltInv, Goes
  <2>3. SourcesInv'
    BY <1>1, <1>2, <1>3 DEF IInv, ContentsInv, SourcesInv, Goes
  <2>4. WorkInv'
    BY <1>1, <1>2, <1>3 DEF IInv, ContentsInv, WorkInv, Goes
  <2>5. QED
    BY <2>1, <2>2, <2>3, <2>4 DEF ContentsInv
<1>7. TablesInv'
  BY <1>1, <1>2, <1>3 DEF IInv, TablesInv, Goes, logn
<1>8. TimeInv'
  BY <1>1, <1>2, <1>3, Bounds, Sums DEF IInv, TimeInv, Goes, Builder
<1>9. SizeInv'
  <2>1. Operated(section, i') = 0
    BY <1>3 DEF Operated
  <2>2. QED
    BY <1>1, <1>2, <2>1, DriversAssumption DEF IInv, SizeInv, Goes
<1>10. QED
  BY <1>1, <1>2, <1>4, <1>5, <1>6, <1>7, <1>8, <1>9, Ahead DEF IInv, FlagType

LEMMA ReadT1Step ==
  ASSUME IInv, ReadT1
  PROVE  IInv'
<1>1. Goes /\ Instr.op = "t1"
  BY AtGoes DEF IInv, ReadT1
<1>2. timing' = FALSE /\ UNCHANGED <<slot, cycles, ready, failed, allocated>>
  BY DEF ReadT1
<1>3. \/ section = "restore" /\ i = 3 /\ i' = 4
      \/ section = "case" /\ i = 6 /\ i' = 7
      \/ section = "fft" /\ i = 4 /\ i' = 5
      \/ section = "ifft" /\ i = 4 /\ i' = 5
      \/ section = "mul" /\ i = 4 /\ i' = 5
      \/ section = "full" /\ i = 8 /\ i' = 9
  BY <1>1, Reading, Lengths DEF IInv, Goes, Is, T0, T1, Copy, FFT, iFFT, Mul
<1>4. TimingInv'
  <2>1. ~(i' <= Length(section))
    BY <1>3, Bounds
  <2>2. QED
    BY <1>1, <1>2, <2>1 DEF TimingInv, Goes, Timed
<1>5. FlagType' /\ SlotType'
  BY <1>1, <1>2 DEF IInv, FlagType, SlotType, Goes
<1>6. ContentsInv'
  <2>1. OwnInv'
    BY <1>1, <1>2, <1>3 DEF IInv, ContentsInv, OwnInv, Goes, Call
  <2>2. CaseInv' /\ SpoiltInv'
    BY <1>1, <1>2, <1>3 DEF IInv, ContentsInv, CaseInv, SpoiltInv, Goes
  <2>3. SourcesInv'
    BY <1>1, <1>2, <1>3 DEF IInv, ContentsInv, SourcesInv, Goes
  <2>4. WorkInv'
    BY <1>1, <1>2, <1>3 DEF IInv, ContentsInv, WorkInv, Goes
  <2>5. QED
    BY <2>1, <2>2, <2>3, <2>4 DEF ContentsInv
<1>7. TablesInv'
  BY <1>1, <1>2, <1>3 DEF IInv, TablesInv, Goes, logn
<1>8. TimeInv'
  <2>1. Spent(section, i') = Spent(section, i) /\ i > Start(section)
    BY <1>3, Bounds, Sums
  <2>2. Builder => i >= 4 /\ i' >= 4
    BY <1>3 DEF Builder
  <2>3. QED
    BY <1>1, <1>2, <2>1, <2>2 DEF IInv, TimeInv, Goes, Builder
<1>9. SizeInv'
  BY <1>1, <1>2 DEF IInv, SizeInv, Goes
<1>10. QED
  BY <1>1, <1>2, <1>4, <1>5, <1>6, <1>7, <1>8, <1>9, Ahead DEF IInv, FlagType

LEMMA MemcpyStep ==
  ASSUME IInv, Memcpy
  PROVE  IInv'
<1> DEFINE c == Cost[<<"memcpy", slot[Instr.src].val>>]
<1>1. Goes /\ Instr.op = "memcpy"
  BY AtGoes DEF IInv, Memcpy
<1>2. /\ slot' = [slot EXCEPT ![Instr.dst] = slot[Instr.src]] /\ Takes(c)
      /\ UNCHANGED <<timing, ready, failed, allocated>>
  BY DEF Memcpy
<1>3. \/ /\ section = "restore" /\ i = 2 /\ i' = 3
         /\ Instr.dst = 0 /\ Instr.src = 2
      \/ /\ section = "fft" /\ i = 1 /\ i' = 2 /\ Instr.dst = 0 /\ Instr.src = 2
      \/ /\ section = "ifft" /\ i = 1 /\ i' = 2 /\ Instr.dst = 0 /\ Instr.src = 2
      \/ /\ section = "mul" /\ i = 1 /\ i' = 2 /\ Instr.dst = 0 /\ Instr.src = 2
      \/ /\ section = "full" /\ i = 1 /\ i' = 2 /\ Instr.dst = 0 /\ Instr.src = 2
      \/ /\ section = "full" /\ i = 2 /\ i' = 3 /\ Instr.dst = 1 /\ Instr.src = 3
  BY <1>1, Reading, Lengths DEF IInv, Goes, Is, T0, T1, Copy, FFT, iFFT, Mul
<1>4. /\ slot[Instr.src].val \in Values
      /\ slot \in [0 .. 3 -> [by : Marks, val : Values]]
  BY <1>3 DEF IInv, SlotType
<1>5. /\ slot'[Instr.dst] = slot[Instr.src]
      /\ \A x \in 0 .. 3 : x # Instr.dst => slot'[x] = slot[x]
  BY <1>2, <1>3, <1>4
<1>6. TimingInv' /\ SizeInv'
  <2>1. c \in Nat /\ 4 * c <= NoTime
    BY <1>4, Costs DEF Operations
  <2>2. i # Start(section) /\ i # Length(section)
    BY <1>3, Bounds
  <2>3. QED
    BY <1>1, <1>2, <2>1, <2>2, Operation
<1>7. FlagType'
  BY <1>1, <1>2 DEF IInv, FlagType, Goes
<1>8. SlotType'
  BY <1>2, <1>3, <1>4 DEF SlotType
<1>9. ContentsInv'
  <2>1. OwnInv'
    BY <1>1, <1>3, <1>5 DEF IInv, ContentsInv, OwnInv, Goes, Call
  <2>2. CaseInv' /\ SpoiltInv'
    BY <1>1, <1>3 DEF IInv, ContentsInv, CaseInv, SpoiltInv, Goes
  <2>3. SourcesInv'
    BY <1>1, <1>2, <1>3, <1>5 DEF IInv, ContentsInv, SourcesInv, Goes
  <2>4. WorkInv'
    BY <1>1, <1>2, <1>3, <1>5 DEF IInv, ContentsInv, SourcesInv, WorkInv, Goes
  <2>5. QED
    BY <2>1, <2>2, <2>3, <2>4 DEF ContentsInv
<1>10. TablesInv'
  BY <1>1, <1>2, <1>3 DEF IInv, TablesInv, Goes, logn
<1>11. TimeInv'
  <2>1. CASE section = "restore"
    <3>1. i = 2 /\ i' = 3 /\ Spent("restore", 2) = 0 /\ Start("restore") = 1
          /\ Spent("restore", 3) = Cost[<<"memcpy", "a">>]
      BY <1>3, <2>1, Sums, Bounds
    <3>2. ASSUME ~failed
          PROVE  cycles' = Spent("restore", 3)
      <4>1. cycles = 0
        BY <1>1, <2>1, <3>1, <3>2 DEF IInv, TimeInv, Goes, Builder
      <4>2. timing
        BY <1>1, <2>1, <3>1, Bounds DEF IInv, TimingInv, Timed, Goes
      <4>3. slot[Instr.src].val = "a"
        BY <1>1, <1>3, <2>1, <3>2 DEF IInv, ContentsInv, SourcesInv, Goes
      <4>4. Cost[<<"memcpy", "a">>] \in Nat
        BY Costs DEF Operations, Values
      <4>5. QED
        BY <1>2, <3>1, <4>1, <4>2, <4>3, <4>4 DEF Takes
    <3>3. QED
      BY <1>1, <1>2, <2>1, <3>1, <3>2 DEF TimeInv, Goes, Builder
  <2>2. CASE section # "restore"
    <3>1. ~(i' > Start(section))
      BY <1>3, <2>2, Bounds
    <3>2. QED
      BY <1>1, <3>1 DEF TimeInv, Goes
  <2>3. QED
    BY <2>1, <2>2
<1>12. QED
  BY <1>1, <1>2, <1>6, <1>7, <1>8, <1>9, <1>10, <1>11, Ahead
     DEF IInv, FlagType

(***************************************************************************)
(* A transform: it works, perhaps after building its tables, or it leaves  *)
(* everything but the time as it was.                                      *)
(***************************************************************************)
LEMMA SizeSupported ==
  ASSUME ControlInv, pc # "prepare"
  PROVE  logn \in 1 .. MaxLogn
<1>1. t \in 1 .. Rounds(job)
  BY DriversAssumption DEF ControlInv, Rounds
<1>2. CASE job = "verify_run"
  BY <1>1, <1>2, DriversAssumption, ElementOfSeq DEF logn, Rounds
<1>3. CASE job # "verify_run"
  BY <1>1, <1>3 DEF logn, Rounds
<1>4. QED
  BY <1>2, <1>3

Works(op, extra) ==
  /\ TransformWith(op, extra) /\ extra \in {0, BuildCost}
  /\ ready \subseteq ready' /\ ready' \in SUBSET (1 .. MaxLogn)
  /\ allocated' \in BOOLEAN /\ (build = Myfft => logn \in ready')
  /\ build # Myfft \/ logn \in ready =>
       extra = 0 /\ UNCHANGED <<ready, allocated>>

Fails ==
  /\ build = Myfft /\ logn \notin ready /\ Takes(FailCost)
  /\ failed' = TRUE /\ allocated' \in BOOLEAN /\ UNCHANGED <<slot, timing, ready>>

LEMMA TransformOutcome ==
  ASSUME IInv, NEW op, Transform(op)
  PROVE  Fails \/ \E extra : Works(op, extra)
<1>1. pc = "run"
  BY DEF Transform, At
<1>2. logn \in 1 .. MaxLogn
  BY <1>1, SizeSupported DEF IInv
<1>3. /\ ready \in SUBSET (1 .. MaxLogn)
      /\ allocated \in BOOLEAN /\ timing \in BOOLEAN
  BY DEF IInv, FlagType, TimingInv
<1>4. CASE /\ build # Myfft \/ logn \in ready
           /\ TransformWith(op, 0) /\ UNCHANGED <<ready, allocated>>
  <2>1. Works(op, 0)
    BY <1>3, <1>4 DEF Works
  <2>2. QED
    BY <2>1
<1>5. CASE /\ build = Myfft /\ logn \notin ready
           /\ TransformWith(op, BuildCost)
           /\ ready' = ready \cup {logn} /\ allocated' = (allocated \/ timing)
  <2>1. ready' \in SUBSET (1 .. MaxLogn) /\ ready \subseteq ready'
        /\ logn \in ready'
    BY <1>2, <1>3, <1>5
  <2>2. allocated' \in BOOLEAN
    BY <1>3, <1>5, Zenon
  <2>3. Works(op, BuildCost)
    BY <1>5, <2>1, <2>2 DEF Works
  <2>4. QED
    BY <2>3
<1>6. CASE /\ build = Myfft /\ logn \notin ready
           /\ Takes(FailCost) /\ failed' = TRUE
           /\ allocated' = (allocated \/ timing)
           /\ UNCHANGED <<slot, timing, ready>>
  <2>1. allocated' \in BOOLEAN
    BY <1>3, <1>6, Zenon
  <2>2. QED
    BY <1>6, <2>1, Zenon DEF Fails
<1>7. QED
  BY <1>4, <1>5, <1>6, Zenon DEF Transform

(* A transform that fails, whichever it is.                                *)
TransformPlaces ==
  \/ section = "fft" /\ i = 3 /\ i' = 4
  \/ section = "full" /\ i \in {4, 5, 7} /\ i' = i + 1
  \/ section = "sources" /\ i \in {1, 2} /\ i' = i + 1
  \/ section = "ifft" /\ i = 3 /\ i' = 4
  \/ section = "case" /\ i \in {2, 3, 5} /\ i' = i + 1

LEMMA FailsStep ==
  ASSUME IInv, Goes, TransformPlaces, Fails
  PROVE  IInv'
<1>1. /\ build = Myfft /\ logn \notin ready /\ Takes(FailCost)
      /\ failed' = TRUE /\ allocated' \in BOOLEAN
      /\ UNCHANGED <<slot, timing, ready>>
  BY DEF Fails
<1>2. logn \in 1 .. MaxLogn
  BY SizeSupported DEF IInv, Goes
<1>3. ~prepared
  BY <1>1, <1>2 DEF IInv, TablesInv
<1>4. failed \/ section = "fft" \/ (section = "case" /\ i = 2)
  BY <1>1 DEF IInv, TablesInv, Goes, TransformPlaces
<1>5. TimingInv' /\ SizeInv'
  <2>1. FailCost \in Nat /\ 4 * FailCost <= NoTime
    BY DriversAssumption, RegionsAssumption
  <2>2. i # Start(section) /\ (i # Length(section) \/ section = "sources")
    BY Bounds DEF TransformPlaces
  <2>3. QED
    BY <1>1, <2>1, <2>2, Operation
<1>6. FlagType' /\ SlotType'
  BY <1>1 DEF IInv, FlagType, SlotType, Goes
<1>7. ContentsInv'
  <2>1. OwnInv'
    BY <1>1 DEF IInv, ContentsInv, OwnInv, Goes, Call, TransformPlaces
  <2>2. CaseInv' /\ SourcesInv' /\ WorkInv'
    BY <1>1 DEF CaseInv, SourcesInv, WorkInv
  <2>3. SpoiltInv'
    BY <1>1, <1>4
       DEF IInv, ContentsInv, CaseInv, SpoiltInv, Goes, TransformPlaces
  <2>4. QED
    BY <2>1, <2>2, <2>3 DEF ContentsInv
<1>8. TablesInv'
  BY <1>1, <1>3 DEF IInv, TablesInv, Goes
<1>9. TimeInv'
  BY <1>1 DEF TimeInv
<1>10. VouchInv'
  <2>1. SUFFICES ASSUME failures = 0
                 PROVE  /\ \A c \in 1 .. Len(KatLogn) :
                             Passed(c) => KatLogn[c] \in ready
                        /\ job = "bench_run" => \A c \in 1 .. Len(KatLogn) :
                                                  KatLogn[c] # t
    <3>1. /\ pc' = pc /\ job' = job /\ build' = build /\ t' = t
          /\ failures' = failures /\ ready' = ready
      BY <1>1 DEF Goes
    <3>2. QED
      BY <2>1, <3>1, Zenon DEF VouchInv, Passed
  <2>2. \A c \in 1 .. Len(KatLogn) : Passed(c) => KatLogn[c] \in ready
    BY <2>1 DEF IInv, VouchInv, Goes
  <2>3. job = "bench_run" => logn = t
    BY DEF logn
  <2>4. QED
    BY <1>1, <2>2, <2>3 DEF Passed
<1>11. QED
  BY <1>1, <1>5, <1>6, <1>7, <1>8, <1>9, <1>10, Ahead DEF IInv, FlagType

LEMMA FFTWorks ==
  ASSUME IInv, Goes, Instr.op = "FFT", NEW extra, Works("FFT", extra)
  PROVE  IInv'
<1> DEFINE v == slot[Instr.dst].val
           c == Cost[<<"FFT", v>>] + extra
<1>1. \/ section = "fft" /\ i = 3 /\ i' = 4 /\ Instr.dst = 0
      \/ section = "full" /\ i = 4 /\ i' = 5 /\ Instr.dst = 0
      \/ section = "full" /\ i = 5 /\ i' = 6 /\ Instr.dst = 1
      \/ section = "sources" /\ i = 1 /\ i' = 2 /\ Instr.dst = 2
      \/ section = "sources" /\ i = 2 /\ i' = 3 /\ Instr.dst = 3
      \/ section = "case" /\ i = 2 /\ i' = 3 /\ Instr.dst = 0
      \/ section = "case" /\ i = 3 /\ i' = 4 /\ Instr.dst = 1
  BY Reading, Lengths DEF IInv, Goes, Is, T0, T1, Copy, FFT, iFFT, Mul
<1>2. /\ slot' = [slot EXCEPT ![Instr.dst] = [by |-> Call, val |-> Image("FFT", v)]]
      /\ Takes(c) /\ UNCHANGED <<timing, failed>>
  BY DEF Works, TransformWith, Put
<1>3. /\ extra \in {0, BuildCost} /\ ready \subseteq ready'
      /\ ready' \in SUBSET (1 .. MaxLogn) /\ allocated' \in BOOLEAN
      /\ build = Myfft => logn \in ready'
      /\ build # Myfft \/ logn \in ready =>
           extra = 0 /\ UNCHANGED <<ready, allocated>>
  BY DEF Works
<1>4. v \in Values /\ slot \in [0 .. 3 -> [by : Marks, val : Values]]
  BY <1>1 DEF IInv, SlotType
<1>5. /\ slot'[Instr.dst] = [by |-> Call, val |-> Image("FFT", v)]
      /\ \A x \in 0 .. 3 : x # Instr.dst => slot'[x] = slot[x]
  BY <1>1, <1>2, <1>4
<1>6. Image("FFT", "a") = "A" /\ Image("FFT", "b") = "B"
  BY DEF Image
<1>7. ~failed => /\ Instr.dst \in {0, 2} => v = "a"
                 /\ Instr.dst \in {1, 3} => v = "b"
  BY <1>1 DEF IInv, ContentsInv, CaseInv, SourcesInv, WorkInv, Goes
<1>8. logn \in 1 .. MaxLogn
  BY SizeSupported DEF IInv, Goes
<1>9. TimingInv' /\ SizeInv'
  <2>1. c \in Nat /\ 4 * c <= NoTime
    BY <1>3, <1>4, Costs DEF Operations
  <2>2. i # Start(section) /\ (i # Length(section) \/ section = "sources")
    BY <1>1, Bounds
  <2>3. QED
    BY <1>2, <2>1, <2>2, Operation
<1>10. FlagType'
  BY <1>2, <1>3 DEF IInv, FlagType, Goes
<1>11. SlotType'
  <2>1. Call \in Marks
    BY <1>8, DriversAssumption DEF IInv, ControlInv, Goes, Call, Marks, Jobs,
       Builds, Rounds
  <2>2. Image("FFT", v) \in Values
    BY DEF Image, Values
  <2>3. QED
    BY <1>1, <1>2, <1>4, <2>1, <2>2 DEF SlotType
<1>12. ContentsInv'
  <2>1. OwnInv'
    BY <1>1, <1>5 DEF IInv, ContentsInv, OwnInv, Goes, Call
  <2>2. CaseInv'
    BY <1>1, <1>2, <1>5, <1>6, <1>7 DEF IInv, ContentsInv, CaseInv, Goes
  <2>3. SpoiltInv'
    BY <1>1, <1>2, <1>5 DEF IInv, ContentsInv, SpoiltInv, Goes
  <2>4. SourcesInv'
    BY <1>1, <1>2, <1>5, <1>6, <1>7 DEF IInv, ContentsInv, SourcesInv, Goes
  <2>5. WorkInv'
    BY <1>1, <1>2, <1>5, <1>6, <1>7 DEF IInv, ContentsInv, WorkInv, Goes
  <2>6. QED
    BY <2>1, <2>2, <2>3, <2>4, <2>5 DEF ContentsInv
<1>13. TablesInv'
  <2>1. logn' = logn
    BY DEF Goes, logn
  <2>2. prepared => ready' = ready /\ allocated' = allocated
    BY <1>3, <1>8 DEF IInv, TablesInv
  <2>3. QED
    BY <1>1, <1>2, <1>3, <2>1, <2>2 DEF IInv, TablesInv, Goes
<1>14. TimeInv'
  <2>1. SUFFICES ASSUME ~failed, section # "sources"
                 PROVE  TimeInv'
    BY <1>1, <1>2, Bounds DEF TimeInv, Goes
  <2>2. /\ i > Start(section) /\ timing
        /\ Cost[<<"FFT", "a">>] \in Nat /\ Cost[<<"FFT", "b">>] \in Nat
    BY <1>1, <2>1, Bounds, Costs
       DEF IInv, TimingInv, Timed, Goes, Operations, Values
  <2>3. cycles' = cycles + (Cost[<<"FFT", v>>] + extra)
    BY <1>2, <2>2 DEF Takes
  <2>4. section # "case" /\ ~Builder => extra = 0
    BY <1>1, <1>3, <2>1 DEF IInv, TablesInv, Builder, Goes, ControlInv, Builds
  <2>5. prepared => extra = 0
    BY <1>3, <1>8 DEF IInv, TablesInv
  <2>6. Spent(section, i') = Spent(section, i) + Cost[<<"FFT", v>>]
        /\ Spent(section, i) \in Nat
    BY <1>1, <1>7, <2>1, <2>2, Sums
  <2>7. Builder => cycles = Spent(section, i)
    BY <1>1, <2>1, <2>2 DEF IInv, TimeInv, Builder, Goes
  <2>8. /\ section # "case" /\ ~Builder => cycles' = Spent(section, i')
        /\ section = "case" /\ prepared => cycles' = Spent(section, i')
    <3>1. /\ section # "case" /\ ~Builder => cycles = Spent(section, i)
          /\ section = "case" /\ prepared => cycles = Spent(section, i)
      BY <2>1, <2>2 DEF IInv, TimeInv, Goes
    <3>2. Cost[<<"FFT", v>>] \in Nat
      BY <1>4, Costs DEF Operations
    <3>3. QED
      BY <2>3, <2>4, <2>5, <2>6, <3>1, <3>2
  <2>9. Builder => \/ cycles' = Spent(section, i')
                   \/ i' >= 4 /\ cycles' = Spent(section, i') + BuildCost
    <3>1. Builder => i' >= 4
      BY <1>1 DEF Builder
    <3>2. Cost[<<"FFT", v>>] \in Nat /\ BuildCost \in Nat
      BY <1>4, Costs, DriversAssumption DEF Operations
    <3>3. QED
      BY <1>3, <2>3, <2>6, <2>7, <3>1, <3>2
  <2>10. QED
    BY <1>2, <2>8, <2>9 DEF TimeInv, Builder, Goes
<1>15. QED
  BY <1>2, <1>3, <1>9, <1>10, <1>11, <1>12, <1>13, <1>14, Ahead
     DEF IInv, FlagType

LEMMA iFFTWorks ==
  ASSUME IInv, Goes, Instr.op = "iFFT", NEW extra, Works("iFFT", extra)
  PROVE  IInv'
<1> DEFINE v == slot[Instr.dst].val
           c == Cost[<<"iFFT", v>>] + extra
<1>1. \/ section = "full" /\ i = 7 /\ i' = 8 /\ Instr.dst = 0
      \/ section = "ifft" /\ i = 3 /\ i' = 4 /\ Instr.dst = 0
      \/ section = "case" /\ i = 5 /\ i' = 6 /\ Instr.dst = 0
  BY Reading, Lengths DEF IInv, Goes, Is, T0, T1, Copy, FFT, iFFT, Mul
<1>2. /\ slot' = [slot EXCEPT ![0] = [by |-> Call, val |-> Image("iFFT", v)]]
      /\ Takes(c) /\ UNCHANGED <<timing, failed>>
  BY <1>1 DEF Works, TransformWith, Put
<1>3. /\ extra \in {0, BuildCost} /\ ready \subseteq ready'
      /\ ready' \in SUBSET (1 .. MaxLogn) /\ allocated' \in BOOLEAN
      /\ build # Myfft \/ logn \in ready =>
           extra = 0 /\ UNCHANGED <<ready, allocated>>
  BY DEF Works
<1>4. v \in Values /\ slot \in [0 .. 3 -> [by : Marks, val : Values]]
  BY <1>1 DEF IInv, SlotType
<1>5. /\ slot'[0] = [by |-> Call, val |-> Image("iFFT", v)]
      /\ \A x \in 1 .. 3 : slot'[x] = slot[x]
  BY <1>2, <1>4
<1>6. /\ Image("iFFT", "A") = "a" /\ Image("iFFT", "AB") = "ab"
      /\ Image("iFFT", "garbage") = "garbage"
  BY DEF Image
<1>7. /\ ~failed => v = IF section = "ifft" THEN "A" ELSE "AB"
      /\ failed /\ section = "case" => v = "garbage"
  BY <1>1 DEF IInv, ContentsInv, CaseInv, SpoiltInv, WorkInv, Goes
<1>8. logn \in 1 .. MaxLogn
  BY SizeSupported DEF IInv, Goes
<1>9. TimingInv' /\ SizeInv'
  <2>1. c \in Nat /\ 4 * c <= NoTime
    BY <1>3, <1>4, Costs DEF Operations
  <2>2. i # Start(section) /\ i # Length(section)
    BY <1>1, Bounds
  <2>3. QED
    BY <1>2, <2>1, <2>2, Operation
<1>10. FlagType'
  BY <1>2, <1>3 DEF IInv, FlagType, Goes
<1>11. SlotType'
  <2>1. Call \in Marks
    BY <1>8, DriversAssumption DEF IInv, ControlInv, Goes, Call, Marks, Jobs,
       Builds, Rounds
  <2>2. Image("iFFT", v) \in Values
    BY DEF Image, Values
  <2>3. QED
    BY <1>2, <1>4, <2>1, <2>2 DEF SlotType
<1>12. ContentsInv'
  <2>1. OwnInv'
    BY <1>1, <1>5 DEF IInv, ContentsInv, OwnInv, Goes, Call
  <2>2. CaseInv'
    BY <1>1, <1>2, <1>5, <1>6, <1>7 DEF IInv, ContentsInv, CaseInv, Goes
  <2>3. SpoiltInv'
    BY <1>1, <1>2, <1>5, <1>6, <1>7 DEF IInv, ContentsInv, SpoiltInv, Goes
  <2>4. SourcesInv'
    BY <1>1, <1>2, <1>5 DEF IInv, ContentsInv, SourcesInv, Goes
  <2>5. WorkInv'
    BY <1>1, <1>2, <1>5, <1>6, <1>7 DEF IInv, ContentsInv, WorkInv, Goes
  <2>6. QED
    BY <2>1, <2>2, <2>3, <2>4, <2>5 DEF ContentsInv
<1>13. TablesInv'
  <2>1. logn' = logn
    BY DEF Goes, logn
  <2>2. prepared => ready' = ready /\ allocated' = allocated
    BY <1>3, <1>8 DEF IInv, TablesInv
  <2>3. QED
    BY <1>1, <1>2, <1>3, <2>1, <2>2 DEF IInv, TablesInv, Goes
<1>14. TimeInv'
  <2>1. SUFFICES ASSUME ~failed
                 PROVE  TimeInv'
    BY <1>2 DEF TimeInv, Goes
  <2>2. i > Start(section) /\ timing /\ ~Builder
    BY <1>1, Bounds DEF IInv, TimingInv, Timed, Goes, Builder
  <2>3. cycles' = cycles + (Cost[<<"iFFT", v>>] + extra)
    BY <1>2, <2>2 DEF Takes
  <2>4. extra = 0
    BY <1>1, <1>3, <2>1 DEF IInv, TablesInv, Goes, ControlInv, Builds
  <2>5. Cost[<<"iFFT", v>>] \in Nat
    BY <1>4, Costs DEF Operations
  <2>6. /\ Cost[<<"FFT", "a">>] \in Nat /\ Cost[<<"FFT", "b">>] \in Nat
        /\ Cost[<<"poly_mul_fft", "A">>] \in Nat
        /\ Cost[<<"iFFT", "A">>] \in Nat /\ Cost[<<"iFFT", "AB">>] \in Nat
    BY Costs DEF Operations, Values
  <2>7. Spent(section, i') = Spent(section, i) + Cost[<<"iFFT", v>>]
    BY <1>1, <1>7, <2>1, <2>6, Sums DEF FullCost
  <2>8. (section = "case" => prepared) => cycles = Spent(section, i)
    BY <2>1, <2>2 DEF IInv, TimeInv, Goes
  <2>9. (section = "case" => prepared) => cycles' = Spent(section, i')
    BY <2>3, <2>4, <2>5, <2>7, <2>8
  <2>10. QED
    BY <1>1, <2>9 DEF TimeInv, Builder, Goes
<1>15. QED
  BY <1>2, <1>3, <1>9, <1>10, <1>11, <1>12, <1>13, <1>14, Ahead
     DEF IInv, FlagType

LEMMA TransformStep ==
  ASSUME IInv, Transform("FFT") \/ Transform("iFFT")
  PROVE  IInv'
<1>1. CASE Transform("FFT")
  <2>1. Goes /\ Instr.op = "FFT"
    BY <1>1, AtGoes DEF IInv, Transform
  <2>2. TransformPlaces
    BY <2>1, Reading, Lengths
       DEF IInv, Goes, Is, T0, T1, Copy, FFT, iFFT, Mul, TransformPlaces
  <2>3. QED
    BY <1>1, <2>1, <2>2, TransformOutcome, FailsStep, FFTWorks
<1>2. CASE Transform("iFFT")
  <2>1. Goes /\ Instr.op = "iFFT"
    BY <1>2, AtGoes DEF IInv, Transform
  <2>2. TransformPlaces
    BY <2>1, Reading, Lengths
       DEF IInv, Goes, Is, T0, T1, Copy, FFT, iFFT, Mul, TransformPlaces
  <2>3. QED
    BY <1>2, <2>1, <2>2, TransformOutcome, FailsStep, iFFTWorks
<1>3. QED
  BY <1>1, <1>2

LEMMA PolyMulStep ==
  ASSUME IInv, PolyMulFFT
  PROVE  IInv'
<1> DEFINE v == slot[Instr.dst].val
           w == slot[Instr.src].val
           c == Cost[<<"poly_mul_fft", v>>]
           p == IF {v, w} = {"A", "B"} THEN "AB" ELSE "garbage"
<1>1. Goes /\ Instr.op = "poly_mul_fft"
  BY AtGoes DEF IInv, PolyMulFFT
<1>2. \/ /\ section = "full" /\ i = 6 /\ i' = 7
         /\ Instr.dst = 0 /\ Instr.src = 1
      \/ section = "mul" /\ i = 3 /\ i' = 4 /\ Instr.dst = 0 /\ Instr.src = 3
      \/ section = "case" /\ i = 4 /\ i' = 5 /\ Instr.dst = 0 /\ Instr.src = 1
  BY <1>1, Reading, Lengths DEF IInv, Goes, Is, T0, T1, Copy, FFT, iFFT, Mul
<1>3. /\ slot' = [slot EXCEPT ![0] = [by |-> Call, val |-> p]]
      /\ Takes(c) /\ UNCHANGED <<timing, ready, failed, allocated>>
  BY <1>2 DEF PolyMulFFT, Put
<1>4. v \in Values /\ slot \in [0 .. 3 -> [by : Marks, val : Values]]
  BY <1>2 DEF IInv, SlotType
<1>5. /\ slot'[0] = [by |-> Call, val |-> p]
      /\ \A x \in 1 .. 3 : slot'[x] = slot[x]
  BY <1>3, <1>4
<1>6. /\ ~failed => v = "A" /\ w = "B"
      /\ failed /\ section = "case" => v = "a"
  BY <1>1, <1>2
     DEF IInv, ContentsInv, CaseInv, SpoiltInv, WorkInv, SourcesInv, Goes
<1>7. /\ ~failed => p = "AB"
      /\ failed /\ section = "case" => p = "garbage"
  BY <1>6
<1>8. logn \in 1 .. MaxLogn
  BY <1>1, SizeSupported DEF IInv, Goes
<1>9. TimingInv' /\ SizeInv'
  <2>1. c \in Nat /\ 4 * c <= NoTime
    BY <1>4, Costs DEF Operations
  <2>2. i # Start(section) /\ i # Length(section)
    BY <1>2, Bounds
  <2>3. QED
    BY <1>1, <1>3, <2>1, <2>2, Operation
<1>10. FlagType'
  BY <1>1, <1>3 DEF IInv, FlagType, Goes
<1>11. SlotType'
  <2>1. Call \in Marks
    BY <1>1, <1>8, DriversAssumption DEF IInv, ControlInv, Goes, Call, Marks,
       Jobs, Builds, Rounds
  <2>2. p \in Values
    BY DEF Values
  <2>3. QED
    BY <1>3, <1>4, <2>1, <2>2 DEF SlotType
<1>12. ContentsInv'
  <2>1. OwnInv'
    BY <1>1, <1>2, <1>5 DEF IInv, ContentsInv, OwnInv, Goes, Call
  <2>2. CaseInv'
    BY <1>1, <1>2, <1>3, <1>5, <1>7 DEF IInv, ContentsInv, CaseInv, Goes
  <2>3. SpoiltInv'
    BY <1>1, <1>2, <1>3, <1>5, <1>7 DEF IInv, ContentsInv, SpoiltInv, Goes
  <2>4. SourcesInv'
    BY <1>1, <1>2, <1>3, <1>5 DEF IInv, ContentsInv, SourcesInv, Goes
  <2>5. WorkInv'
    BY <1>1, <1>2, <1>3, <1>5, <1>7 DEF IInv, ContentsInv, WorkInv, Goes
  <2>6. QED
    BY <2>1, <2>2, <2>3, <2>4, <2>5 DEF ContentsInv
<1>13. TablesInv'
  BY <1>1, <1>2, <1>3 DEF IInv, TablesInv, Goes, logn
<1>14. TimeInv'
  <2>1. SUFFICES ASSUME ~failed
                 PROVE  TimeInv'
    BY <1>3 DEF TimeInv, Goes
  <2>2. i > Start(section) /\ timing /\ ~Builder
    BY <1>1, <1>2, Bounds DEF IInv, TimingInv, Timed, Goes, Builder
  <2>3. cycles' = cycles + Cost[<<"poly_mul_fft", "A">>]
    BY <1>3, <1>6, <2>1, <2>2 DEF Takes
  <2>4. /\ Cost[<<"FFT", "a">>] \in Nat /\ Cost[<<"FFT", "b">>] \in Nat
        /\ Cost[<<"poly_mul_fft", "A">>] \in Nat
    BY Costs DEF Operations, Values
  <2>5. Spent(section, i') = Spent(section, i) + Cost[<<"poly_mul_fft", "A">>]
    BY <1>2, <2>4, Sums
  <2>6. (section = "case" => prepared) => cycles = Spent(section, i)
    BY <1>1, <2>1, <2>2 DEF IInv, TimeInv, Goes
  <2>7. (section = "case" => prepared) => cycles' = Spent(section, i')
    BY <2>3, <2>5, <2>6
  <2>8. QED
    BY <1>1, <1>2, <2>7 DEF TimeInv, Builder, Goes
<1>15. QED
  BY <1>1, <1>3, <1>9, <1>10, <1>11, <1>12, <1>13, <1>14, Ahead
     DEF IInv, FlagType

(***************************************************************************)
(* The steps between the drivers' calls.  There, and at the start of a     *)
(* section, nothing is being timed.                                        *)
(***************************************************************************)
LEMMA CasesExist == Len(KatLogn) \in Nat /\ Len(KatLogn) >= 1
  BY DriversAssumption, LenProperties, EmptySeq

LEMMA Outside ==
  ASSUME pc' \in {"prepare", "call"}
  PROVE  ContentsInv' /\ TimeInv' /\ BestInv' /\ RowInv'
  BY DEF ContentsInv, OwnInv, CaseInv, SpoiltInv, SourcesInv, WorkInv, TimeInv,
     BestInv, RowInv

LEMMA PrepareStep ==
  ASSUME IInv, Prepare
  PROVE  IInv'
<1>1. /\ pc = "prepare"
      /\ UNCHANGED <<slot, job, build, section, k, i, cycles, timing, best, worst,
                     row, failures, ref_cycles, lo, hi, failed, allocated>>
  BY DEF Prepare, summary
<1>2. \/ /\ t < MaxLogn /\ t' = t + 1 /\ ready' = ready \cup {t}
         /\ pc' = pc /\ prepared' = prepared
      \/ /\ ~(t < MaxLogn) /\ t' = 1 /\ ready' = ready \cup {t}
         /\ pc' = "call" /\ prepared' = TRUE
      \/ t' = 1 /\ pc' = "call" /\ ready' = ready /\ prepared' = prepared
  BY DEF Prepare, LastPrepared
<1>3. /\ t \in 1 .. MaxLogn /\ ready = 1 .. t - 1 /\ ~prepared /\ ~failed
      /\ ~allocated /\ job = "verify_run" /\ build = 1
  BY <1>1, DriversAssumption DEF IInv, ControlInv, TablesInv
<1>4. pc' \in {"prepare", "call"}
  BY <1>1, <1>2
<1>5. ControlInv'
  BY <1>1, <1>2, <1>3, CasesExist, DriversAssumption
     DEF IInv, ControlInv, Rounds
<1>6. TimingInv'
  BY <1>1, <1>4 DEF IInv, TimingInv
<1>7. FlagType' /\ SlotType'
  <2>1. ready' \in SUBSET (1 .. MaxLogn)
    BY <1>2, <1>3, DriversAssumption, SMTT(30)
  <2>2. QED
    BY <1>1, <1>2, <2>1 DEF IInv, FlagType, SlotType
<1>8. TablesInv'
  <2>1. pc' = "prepare" => /\ ready' = 1 .. t' - 1 /\ ~prepared'
                            /\ t' = t + 1
    <3>1. ASSUME t' = t + 1, ready' = ready \cup {t}
          PROVE  ready' = 1 .. t' - 1
      BY <1>3, <3>1
    <3>2. QED
      BY <1>2, <1>3, <3>1
  <2>2. prepared' => ready' = 1 .. MaxLogn
    <3>1. ASSUME ~(t < MaxLogn), ready' = ready \cup {t}
          PROVE  ready' = 1 .. MaxLogn
      BY <1>3, <3>1, DriversAssumption
    <3>2. QED
      BY <1>2, <1>3, <3>1
  <2>3. /\ ~failed' /\ ~allocated' /\ job' = "verify_run" /\ build' = 1
        /\ pc' # "run"
    BY <1>1, <1>3, <1>4
  <2>4. QED
    BY <2>1, <2>2, <2>3 DEF TablesInv
<1>9. SizeInv' /\ SummaryType'
  BY <1>1 DEF IInv, SizeInv, SummaryType, TimingInv
<1>10. failures = 0
  BY <1>1 DEF IInv, FailuresInv, SummaryType
<1>11. FailuresInv'
  BY <1>1, <1>2, <1>3, <1>10, CasesExist DEF FailuresInv, Cases
<1>12. SpreadInv'
  BY <1>1 DEF IInv, SpreadInv, FullCost
<1>13. VouchInv'
  BY <1>1, <1>3, <1>4 DEF VouchInv, Passed, Myfft
<1>14. QED
  BY <1>4, <1>5, <1>6, <1>7, <1>8, <1>9, <1>11, <1>12, <1>13, Outside DEF IInv

LEMMA EnterStep ==
  ASSUME IInv, Enter
  PROVE  IInv'
<1>1. /\ pc = "call" /\ pc' = "run" /\ k' = 0 /\ i' = 1
      /\ section' = IF job = "verify_run" THEN "case" ELSE "restore"
      /\ best' = NoTime /\ worst' = 0 /\ row' = [c \in Columns |-> 0]
      /\ failed' = FALSE
      /\ UNCHANGED <<job, build, t, cycles, timing, failures, ref_cycles, lo, hi,
                     ready, prepared, allocated>>
  BY DEF Enter, summary
<1>2. /\ Filled[1] = IF job = "verify_run" THEN 0 ELSE 2
      /\ Filled[2] = IF job = "verify_run" THEN 1 ELSE 3
  BY DEF Filled
<1>3. slot' = [slot EXCEPT ![Filled[1]] = [by |-> Call, val |-> "a"],
                           ![Filled[2]] = [by |-> Call, val |-> "b"]]
  BY DEF Enter
<1>4. slot \in [0 .. 3 -> [by : Marks, val : Values]]
  BY DEF IInv, SlotType
<1>5. /\ slot'[Filled[1]] = [by |-> Call, val |-> "a"]
      /\ slot'[Filled[2]] = [by |-> Call, val |-> "b"]
  BY <1>2, <1>3, <1>4
<1>6. ControlInv'
  <2>1. Length(section') + 1 >= 1
    BY <1>1, Bounds
  <2>2. QED
    BY <1>1, <2>1, DriversAssumption
       DEF IInv, ControlInv, Rounds, Sections, BenchSections
<1>7. TimingInv' /\ ~timing'
  <2>1. ~(Start(section') < i')
    BY <1>1, Bounds
  <2>2. QED
    BY <1>1, <2>1 DEF IInv, TimingInv, Timed
<1>8. FlagType'
  BY <1>1 DEF IInv, FlagType
<1>9. SlotType'
  <2>1. logn \in 1 .. MaxLogn
    BY <1>1, SizeSupported DEF IInv
  <2>2. Call \in Marks
    BY <1>1, CasesExist, DriversAssumption DEF IInv, ControlInv, Call, Marks, Jobs,
       Builds, Rounds
  <2>3. QED
    BY <1>2, <1>3, <1>4, <2>2 DEF SlotType, Values
<1>10. ContentsInv'
  <2>1. Call' = Call
    BY <1>1 DEF Call
  <2>2. OwnInv'
    BY <1>1, <1>2, <1>5, <2>1 DEF OwnInv
  <2>3. CaseInv' /\ SpoiltInv' /\ SourcesInv' /\ WorkInv'
    BY <1>1, <1>2, <1>5 DEF CaseInv, SpoiltInv, SourcesInv, WorkInv
  <2>4. QED
    BY <2>2, <2>3 DEF ContentsInv
<1>11. TablesInv'
  BY <1>1 DEF IInv, TablesInv
<1>12. TimeInv'
  BY <1>1, Bounds DEF TimeInv
<1>13. BestInv' /\ RowInv'
  BY <1>1 DEF BestInv, RowInv
<1>14. SizeInv' /\ SummaryType'
  BY <1>1, <1>7, DriversAssumption DEF IInv, SizeInv, SummaryType
<1>15. FailuresInv' /\ SpreadInv'
  BY <1>1 DEF IInv, FailuresInv, SpreadInv, Cases, FullCost
<1>16. VouchInv'
  BY <1>1 DEF IInv, VouchInv, Passed
<1>17. QED
  BY <1>6, <1>7, <1>8, <1>9, <1>10, <1>11, <1>12, <1>13, <1>14, <1>15, <1>16
     DEF IInv

(***************************************************************************)
(* The end of a repeat.                                                    *)
(***************************************************************************)
LEMMA Followings ==
  /\ Following("restore") = "fft" /\ Following("fft") = "full"
  /\ Following("full") = "sources" /\ Following("sources") = "ifft"
  /\ Following("ifft") = "mul" /\ Following("mul") = "return"
  /\ Following("case") = "return"
  BY DEF Following

EndsRepeat(b, w) ==
  /\ pc = "run" /\ section \in BenchSections /\ i = Length(section) + 1
  /\ b = (IF cycles < best THEN cycles ELSE best)
  /\ w = (IF cycles > worst THEN cycles ELSE worst)
  /\ i' = 1
  /\ UNCHANGED <<slot, job, build, t, cycles, timing, failures, ref_cycles, lo,
                 hi, ready, prepared, failed, allocated>>

Again(b, w) ==
  /\ k + 1 < Times(section) /\ k' = k + 1 /\ best' = b /\ worst' = w
  /\ UNCHANGED <<pc, section, row>>

Last(b, w) ==
  /\ ~(k + 1 < Times(section)) /\ k' = 0 /\ best' = NoTime /\ worst' = 0
  /\ row' = Stored(section, b, w) /\ section' = Following(section)
  /\ pc' = IF section' = "return" THEN "return" ELSE "run"

LEMMA EndRepeatCases ==
  ASSUME IInv, EndRepeat
  PROVE  \E b, w : EndsRepeat(b, w) /\ (Again(b, w) \/ Last(b, w))
<1> DEFINE b == Smaller(cycles, best)
           w == IF cycles > worst THEN cycles ELSE worst
<1>1. pc = "run" /\ section # "case" /\ i > Len(Instructions(section))
  BY DEF EndRepeat
<1>2. section \in BenchSections /\ section \in Sections
  BY <1>1 DEF IInv, ControlInv, BenchSections, Sections
<1>3. i = Length(section) + 1
  <2>1. Length(section) \in Nat /\ Len(Instructions(section)) = Length(section)
    BY <1>2, Bounds, Lengths DEF Sections
  <2>2. QED
    BY <1>1, <2>1 DEF IInv, ControlInv
<1>4. EndsRepeat(b, w)
  BY <1>1, <1>2, <1>3 DEF EndRepeat, EndsRepeat, Smaller, summary, tables
<1>5. Again(b, w) \/ Last(b, w)
  BY DEF EndRepeat, Again, Last, Fresh
<1>6. QED
  BY <1>4, <1>5

(* What is kept is between nothing and NoTime; without a failure it is the *)
(* time of the section, but in the first repeat of "fft".                  *)
LEMMA KeptSize ==
  ASSUME IInv, NEW b, NEW w, EndsRepeat(b, w)
  PROVE  b \in 0 .. NoTime /\ w \in 0 .. NoTime /\ w - b \in 0 .. NoTime
  BY DriversAssumption DEF IInv, SizeInv, EndsRepeat

LEMMA KeptTime ==
  ASSUME IInv, NEW b, NEW w, EndsRepeat(b, w), ~failed, section # "sources"
  PROVE  /\ Total(section) \in Nat
         /\ section # "fft" => b = Total(section) /\ w = b
         /\ section = "fft" /\ k >= 1 => b = Total(section)
         /\ section = "fft" /\ k = 0 =>
              b \in {Total(section), Total(section) + BuildCost}
<1>1. /\ pc = "run" /\ section \in {"restore", "fft", "full", "ifft", "mul"}
      /\ i = Length(section) + 1
      /\ b = (IF cycles < best THEN cycles ELSE best)
      /\ w = (IF cycles > worst THEN cycles ELSE worst)
  BY DEF EndsRepeat, BenchSections
<1>2. i > Start(section) /\ i >= 4 /\ Spent(section, i) = Total(section)
  BY <1>1, Bounds DEF Total
<1>3. Total(section) \in Nat
  <2>1. /\ Cost[<<"FFT", "a">>] \in Nat /\ Cost[<<"FFT", "b">>] \in Nat
        /\ Cost[<<"poly_mul_fft", "A">>] \in Nat
        /\ Cost[<<"iFFT", "A">>] \in Nat /\ Cost[<<"iFFT", "AB">>] \in Nat
        /\ Cost[<<"memcpy", "a">>] \in Nat
    BY Costs DEF Operations, Values
  <2>2. QED
    BY <1>1, <2>1, Bounds, Sums DEF Total, FullCost
<1>4. /\ cycles \in 0 .. NoTime /\ NoTime \in Nat /\ BuildCost \in Nat
      /\ k \in Nat
  BY DriversAssumption DEF IInv, SizeInv, ControlInv
<1>5. /\ section # "fft" => cycles = Total(section)
      /\ section = "fft" /\ k >= 1 => cycles = Total(section)
      /\ section = "fft" /\ k = 0 =>
           cycles \in {Total(section), Total(section) + BuildCost}
  BY <1>1, <1>2, <1>4 DEF IInv, TimeInv, Builder
<1>6. /\ k = 0 => best = NoTime /\ worst = 0
      /\ k >= 1 /\ section # "fft" => best = Total(section) /\ worst = best
      /\ k >= 2 /\ section = "fft" => best = Total(section)
      /\ k = 1 /\ section = "fft" =>
           best \in {Total(section), Total(section) + BuildCost}
  BY <1>1 DEF IInv, BestInv
<1>7. section # "fft" => b = Total(section) /\ w = b
  BY <1>1, <1>3, <1>4, <1>5, <1>6
<1>8. section = "fft" /\ k >= 1 => b = Total(section)
  BY <1>1, <1>3, <1>4, <1>5, <1>6
<1>9. section = "fft" /\ k = 0 =>
        b \in {Total(section), Total(section) + BuildCost}
  BY <1>1, <1>3, <1>4, <1>5, <1>6
<1>10. QED
  BY <1>3, <1>7, <1>8, <1>9

LEMMA AgainStep ==
  ASSUME IInv, NEW b, NEW w, EndsRepeat(b, w), Again(b, w)
  PROVE  IInv'
<1>1. /\ pc = "run" /\ section \in BenchSections /\ i = Length(section) + 1
      /\ i' = 1
      /\ UNCHANGED <<slot, job, build, t, cycles, timing, failures, ref_cycles,
                     lo, hi, ready, prepared, failed, allocated>>
  BY DEF EndsRepeat
<1>2. /\ k + 1 < Times(section) /\ k' = k + 1 /\ best' = b /\ worst' = w
      /\ UNCHANGED <<pc, section, row>>
  BY DEF Again
<1>3. section # "sources" /\ k' \in 0 .. Repeats - 1 /\ k' >= 1
  <2>1. section # "sources"
    <3>1. Times("sources") = 1
      BY DEF Times
    <3>2. section = "sources" => k = 0
      BY DEF IInv, ControlInv
    <3>3. QED
      BY <1>2, <3>1, <3>2
  <2>2. Times(section) = Repeats
    BY <1>1, <2>1 DEF Times, BenchSections
  <2>3. QED
    BY <1>2, <2>1, <2>2, DriversAssumption DEF IInv, ControlInv
<1>4. ControlInv'
  <2>1. Length(section) \in Nat
    BY <1>1, Bounds DEF BenchSections
  <2>2. QED
    BY <1>1, <1>2, <1>3, <2>1 DEF IInv, ControlInv, Rounds
<1>5. TimingInv' /\ ~timing
  <2>1. /\ ~(Start(section) < i') /\ ~(i <= Length(section))
    BY <1>1, Bounds DEF BenchSections
  <2>2. QED
    BY <1>1, <1>2, <2>1 DEF IInv, TimingInv, Timed
<1>6. FlagType' /\ SlotType'
  BY <1>1 DEF IInv, FlagType, SlotType
<1>7. ContentsInv'
  <2>1. OwnInv'
    BY <1>1, <1>2, <1>3 DEF IInv, ContentsInv, OwnInv, Call, BenchSections
  <2>2. CaseInv' /\ SpoiltInv' /\ WorkInv'
    BY <1>1, <1>2 DEF CaseInv, SpoiltInv, WorkInv, BenchSections
  <2>3. SourcesInv'
    BY <1>1, <1>2, <1>3 DEF IInv, ContentsInv, SourcesInv
  <2>4. QED
    BY <2>1, <2>2, <2>3 DEF ContentsInv
<1>8. TablesInv'
  <2>1. section = "fft" => i >= 4
    BY <1>1, Bounds
  <2>2. logn' = logn
    BY <1>1 DEF logn
  <2>3. build = Myfft /\ ~failed /\ section \in BenchSections \ {"restore"}
          => logn \in ready
    BY <1>1, <2>1 DEF IInv, TablesInv, BenchSections
  <2>4. prepared => ready = 1 .. MaxLogn /\ ~failed /\ ~allocated
    BY DEF IInv, TablesInv
  <2>5. QED
    BY <1>1, <1>2, <2>2, <2>3, <2>4 DEF TablesInv, BenchSections
<1>9. TimeInv'
  <2>1. ~(i' > Start(section))
    BY <1>1, Bounds DEF BenchSections
  <2>2. QED
    BY <1>2, <2>1 DEF TimeInv
<1>10. BestInv'
  <2>1. SUFFICES ASSUME ~failed
                 PROVE  BestInv'
    BY <1>1 DEF BestInv
  <2>2. /\ section # "fft" => b = Total(section) /\ w = b
        /\ section = "fft" /\ k >= 1 => b = Total(section)
        /\ section = "fft" /\ k = 0 =>
             b \in {Total(section), Total(section) + BuildCost}
    BY <1>3, <2>1, KeptTime
  <2>3. k \in Nat
    BY DEF IInv, ControlInv
  <2>4. Total(section)' = Total(section)
    BY <1>2 DEF Total, Length, Spent, FullCost
  <2>5. QED
    BY <1>2, <1>3, <2>2, <2>3, <2>4 DEF BestInv
<1>11. RowInv'
  BY <1>1, <1>2 DEF IInv, RowInv, FullCost
<1>12. SizeInv'
  BY <1>1, <1>2, <1>5, KeptSize DEF IInv, SizeInv
<1>13. SummaryType' /\ FailuresInv' /\ SpreadInv'
  BY <1>1, <1>2 DEF IInv, SummaryType, FailuresInv, SpreadInv, Cases, FullCost
<1>14. VouchInv'
  BY <1>1, <1>2 DEF IInv, VouchInv, Passed
<1>15. QED
  BY <1>4, <1>5, <1>6, <1>7, <1>8, <1>9, <1>10, <1>11, <1>12, <1>13, <1>14
     DEF IInv

LEMMA LastStep ==
  ASSUME IInv, NEW b, NEW w, EndsRepeat(b, w), Last(b, w)
  PROVE  IInv'
<1>1. /\ pc = "run" /\ section \in BenchSections /\ i = Length(section) + 1
      /\ i' = 1
      /\ UNCHANGED <<slot, job, build, t, cycles, timing, failures, ref_cycles,
                     lo, hi, ready, prepared, failed, allocated>>
  BY DEF EndsRepeat
<1>2. /\ ~(k + 1 < Times(section)) /\ k' = 0 /\ best' = NoTime /\ worst' = 0
      /\ row' = Stored(section, b, w) /\ section' = Following(section)
      /\ pc' = IF section' = "return" THEN "return" ELSE "run"
  BY DEF Last
<1>3. job = "bench_run"
  BY <1>1 DEF IInv, ControlInv, Jobs, BenchSections
<1>4. \/ section = "restore" /\ section' = "fft" /\ pc' = "run"
      \/ section = "fft" /\ section' = "full" /\ pc' = "run"
      \/ section = "full" /\ section' = "sources" /\ pc' = "run"
      \/ section = "sources" /\ section' = "ifft" /\ pc' = "run"
      \/ section = "ifft" /\ section' = "mul" /\ pc' = "run"
      \/ section = "mul" /\ section' = "return" /\ pc' = "return"
  BY <1>1, <1>2, Followings DEF BenchSections
<1>5. section = "fft" => k >= 1 /\ i >= 4
  <2>1. section = "fft" => Times(section) = Repeats
    BY DEF Times
  <2>2. QED
    BY <1>1, <1>2, <2>1, Bounds, DriversAssumption, RegionsAssumption
       DEF IInv, ControlInv
<1>6. ControlInv'
  <2>1. section' # "return" => Length(section') \in Nat
    BY <1>4, Bounds
  <2>2. QED
    BY <1>1, <1>2, <1>3, <1>4, <2>1, DriversAssumption
       DEF IInv, ControlInv, Rounds, Sections, BenchSections
<1>7. TimingInv' /\ ~timing
  <2>1. pc' = "run" => ~(Start(section') < i')
    BY <1>1, <1>4, Bounds
  <2>2. ~(i <= Length(section))
    BY <1>1, Bounds DEF BenchSections
  <2>3. QED
    BY <1>1, <2>1, <2>2 DEF IInv, TimingInv, Timed
<1>8. FlagType' /\ SlotType'
  BY <1>1 DEF IInv, FlagType, SlotType
<1>9. ContentsInv'
  <2>1. OwnInv'
    BY <1>1, <1>4 DEF IInv, ContentsInv, OwnInv, Call
  <2>2. CaseInv' /\ SpoiltInv' /\ WorkInv'
    BY <1>1, <1>4 DEF CaseInv, SpoiltInv, WorkInv
  <2>3. section = "sources" => i = 3
    BY <1>1, Bounds
  <2>4. SourcesInv'
    BY <1>1, <1>4, <2>3 DEF IInv, ContentsInv, SourcesInv
  <2>5. QED
    BY <2>1, <2>2, <2>4 DEF ContentsInv
<1>10. TablesInv'
  <2>1. logn' = logn
    BY <1>1 DEF logn
  <2>2. build = Myfft /\ ~failed /\ section # "restore" => logn \in ready
    BY <1>1, <1>5 DEF IInv, TablesInv, BenchSections
  <2>3. prepared => ready = 1 .. MaxLogn /\ ~failed /\ ~allocated
    BY DEF IInv, TablesInv
  <2>4. QED
    BY <1>1, <1>2, <1>4, <2>1, <2>2, <2>3 DEF TablesInv
<1>11. TimeInv'
  <2>1. pc' = "run" => ~(i' > Start(section'))
    BY <1>1, <1>4, Bounds
  <2>2. QED
    BY <2>1 DEF TimeInv
<1>12. BestInv'
  BY <1>2 DEF BestInv
<1>13. row \in [Columns -> 0 .. NoTime]
  BY DEF IInv, SizeInv
<1>14. RowInv'
  <2>1. SUFFICES ASSUME ~failed
                 PROVE  RowInv'
    BY <1>1 DEF RowInv
  <2>2. section # "sources" => b = Total(section) /\ (section # "fft" => w = b)
    BY <1>5, <2>1, KeptTime
  <2>3. /\ section = "restore" => Total(section) = Cost[<<"memcpy", "a">>]
        /\ section = "fft" => Total(section) = Cost[<<"FFT", "a">>]
        /\ section = "full" => Total(section) = FullCost
        /\ section = "ifft" => Total(section) = Cost[<<"iFFT", "A">>]
        /\ section = "mul" => Total(section) = Cost[<<"poly_mul_fft", "A">>]
    BY Bounds, Sums DEF Total
  <2>4. section # "sources" => b \in Nat
    BY KeptSize
  <2>5. /\ section = "sources" => row' = row
        /\ section = "full" => /\ row'["full"] = b /\ row'["spread"] = 0
                               /\ row'["restore"] = row["restore"]
                               /\ row'["fft"] = row["fft"]
        /\ section \in {"restore", "fft", "ifft", "mul"} =>
             /\ row'[section] = b
             /\ \A c \in Columns : c # section => row'[c] = row[c]
    BY <1>2, <1>13, <2>2, <2>4 DEF Stored, Columns
  <2>6. RowInv
    BY DEF IInv
  <2>7. FullCost' = FullCost
    BY DEF FullCost
  <2>8. CASE section = "restore"
    BY <1>1, <1>4, <2>2, <2>3, <2>5, <2>8 DEF RowInv
  <2>9. CASE section = "fft"
    BY <1>1, <1>3, <1>4, <2>1, <2>2, <2>3, <2>5, <2>6, <2>9 DEF RowInv, Columns
  <2>10. CASE section = "full"
    BY <1>1, <1>3, <1>4, <2>1, <2>2, <2>3, <2>5, <2>6, <2>7, <2>10 DEF RowInv
  <2>11. CASE section = "sources"
    BY <1>1, <1>3, <1>4, <2>1, <2>5, <2>6, <2>7, <2>11 DEF RowInv
  <2>12. CASE section = "ifft"
    BY <1>1, <1>3, <1>4, <2>1, <2>2, <2>3, <2>5, <2>6, <2>7, <2>12
       DEF RowInv, Columns
  <2>13. CASE section = "mul"
    BY <1>1, <1>3, <1>4, <2>1, <2>2, <2>3, <2>5, <2>6, <2>7, <2>13
       DEF RowInv, Columns
  <2>14. QED
    BY <1>4, <2>8, <2>9, <2>10, <2>11, <2>12, <2>13
<1>15. SizeInv'
  <2>1. row' \in [Columns -> 0 .. NoTime]
    BY <1>2, <1>13, KeptSize DEF Stored
  <2>2. QED
    BY <1>1, <1>2, <1>7, <2>1, DriversAssumption DEF IInv, SizeInv
<1>16. SummaryType' /\ FailuresInv' /\ SpreadInv'
  BY <1>1, <1>3, <1>4
     DEF IInv, SummaryType, FailuresInv, SpreadInv, Cases, FullCost
<1>17. VouchInv'
  BY <1>1, <1>3, <1>4 DEF IInv, VouchInv, Passed
<1>18. QED
  BY <1>6, <1>7, <1>8, <1>9, <1>10, <1>11, <1>12, <1>14, <1>15, <1>16, <1>17
     DEF IInv

LEMMA EndRepeatStep ==
  ASSUME IInv, EndRepeat
  PROVE  IInv'
  BY EndRepeatCases, AgainStep, LastStep

(***************************************************************************)
(* The result of a case, and the way to the next call.                     *)
(***************************************************************************)
LEMMA CompareStep ==
  ASSUME IInv, Compare
  PROVE  IInv'
<1>1. /\ pc = "run" /\ section = "case" /\ i > Len(Instructions(section))
      /\ failures' = (IF slot[0].val # "ab" THEN failures + 1 ELSE failures)
      /\ section' = "return" /\ pc' = "return" /\ i' = 1
      /\ UNCHANGED <<slot, job, build, t, k, cycles, timing, best, worst, row,
                     ready, prepared, failed, allocated>>
  BY Followings DEF Compare, Counted, tables
<1>2. IF logn = SummaryLogn
      THEN /\ ref_cycles' = IF ref_cycles[build] = 0
                            THEN [ref_cycles EXCEPT ![build] = cycles]
                            ELSE ref_cycles
           /\ lo' = [lo EXCEPT ![build] = IF cycles < lo[build] THEN cycles
                                          ELSE lo[build]]
           /\ hi' = [hi EXCEPT ![build] = IF cycles > @ THEN cycles ELSE @]
      ELSE UNCHANGED <<ref_cycles, lo, hi>>
  BY DEF Compare, Smaller
<1>3. i = 7 /\ job = "verify_run" /\ build \in Builds /\ failures \in Nat
  BY <1>1, Lengths, Bounds
     DEF IInv, ControlInv, Sections, Jobs, BenchSections, SummaryType
<1>4. /\ ~failed => slot[0].val = "ab"
      /\ failed => slot[0].val = "garbage"
  BY <1>1, <1>3 DEF IInv, ContentsInv, CaseInv, SpoiltInv
<1>5. /\ ~failed => failures' = failures
      /\ failed => failures' = failures + 1
  BY <1>1, <1>4
<1>6. ControlInv'
  BY <1>1, <1>3 DEF IInv, ControlInv, Rounds
<1>7. TimingInv' /\ ~timing
  BY <1>1, <1>3, Bounds DEF IInv, TimingInv, Timed
<1>8. FlagType' /\ SlotType'
  BY <1>1 DEF IInv, FlagType, SlotType
<1>9. ContentsInv' /\ TimeInv' /\ BestInv' /\ RowInv'
  BY <1>1, <1>3 DEF ContentsInv, OwnInv, CaseInv, SpoiltInv, SourcesInv, WorkInv,
     TimeInv, BestInv, RowInv
<1>10. TablesInv'
  BY <1>1 DEF IInv, TablesInv
<1>11. SizeInv'
  BY <1>1, <1>7 DEF IInv, SizeInv
<1>12. SummaryType'
  <2>1. cycles \in 0 .. NoTime
    BY DEF IInv, SizeInv
  <2>2. /\ ref_cycles \in [Builds -> 0 .. NoTime]
        /\ lo \in [Builds -> 0 .. NoTime] /\ hi \in [Builds -> 0 .. NoTime]
    BY DEF IInv, SummaryType
  <2>3. failures' \in Nat
    BY <1>3, <1>5
  <2>4. /\ ref_cycles' \in [Builds -> 0 .. NoTime]
        /\ lo' \in [Builds -> 0 .. NoTime] /\ hi' \in [Builds -> 0 .. NoTime]
    BY <1>2, <1>3, <2>1, <2>2
  <2>5. QED
    BY <2>3, <2>4 DEF SummaryType
<1>13. FailuresInv'
  <2>1. failures <= (build - 1) * Len(KatLogn) + (t - 1)
    BY <1>1, <1>3 DEF IInv, FailuresInv, Cases
  <2>2. failures' <= (build - 1) * Len(KatLogn) + t
    <3>1. (build - 1) * Len(KatLogn) \in Nat
      BY <1>3, CasesExist DEF Builds
    <3>2. QED
      BY <1>3, <1>5, <2>1, <3>1 DEF IInv, ControlInv
  <2>3. prepared => failures' = 0
    BY <1>5 DEF IInv, FailuresInv, TablesInv
  <2>4. QED
    BY <1>1, <1>3, <2>2, <2>3 DEF FailuresInv, Cases
<1>14. SpreadInv'
  <2>1. SUFFICES ASSUME prepared, NEW b \in Builds
                 PROVE  \/ hi'[b] = 0 /\ lo'[b] = NoTime /\ ref_cycles'[b] = 0
                        \/ /\ hi'[b] = FullCost /\ lo'[b] = FullCost
                           /\ ref_cycles'[b] = FullCost
    BY <1>1 DEF SpreadInv, FullCost
  <2>2. cycles = FullCost
    BY <1>1, <1>3, <2>1, Bounds, Sums DEF IInv, TimeInv, TablesInv
  <2>3. \/ hi[b] = 0 /\ lo[b] = NoTime /\ ref_cycles[b] = 0
        \/ hi[b] = FullCost /\ lo[b] = FullCost /\ ref_cycles[b] = FullCost
    BY <2>1 DEF IInv, SpreadInv
  <2>4. cycles \in 0 .. NoTime /\ NoTime \in Nat
    BY DriversAssumption DEF IInv, SizeInv
  <2>5. /\ ref_cycles \in [Builds -> 0 .. NoTime]
        /\ lo \in [Builds -> 0 .. NoTime] /\ hi \in [Builds -> 0 .. NoTime]
    BY DEF IInv, SummaryType
  <2>6. CASE logn = SummaryLogn /\ b = build
    BY <1>2, <1>3, <2>2, <2>3, <2>4, <2>5, <2>6
  <2>7. CASE ~(logn = SummaryLogn /\ b = build)
    BY <1>2, <1>3, <2>3, <2>5, <2>7
  <2>8. QED
    BY <2>6, <2>7
<1>15. VouchInv'
  <2>1. SUFFICES ASSUME failures' = 0
                 PROVE  \A c \in 1 .. Len(KatLogn) :
                          Passed(c)' => KatLogn[c] \in ready
    BY <1>1, <1>3 DEF VouchInv
  <2>2. ~failed /\ failures = 0
    BY <1>3, <1>5, <2>1 DEF IInv, FlagType
  <2>3. build = Myfft => logn \in ready /\ logn = KatLogn[t]
    BY <1>1, <1>3, <2>2 DEF IInv, TablesInv, logn
  <2>4. \A c \in 1 .. Len(KatLogn) : Passed(c) => KatLogn[c] \in ready
    BY <1>1, <2>2 DEF IInv, VouchInv
  <2>5. \A c \in 1 .. Len(KatLogn) :
          Passed(c)' => Passed(c) \/ (build = Myfft /\ c = t)
    BY <1>1, <1>3 DEF Passed
  <2>6. QED
    BY <2>3, <2>4, <2>5
<1>16. QED
  BY <1>6, <1>7, <1>8, <1>9, <1>10, <1>11, <1>12, <1>13, <1>14, <1>15 DEF IInv

LEMMA ReturnStep ==
  ASSUME IInv, Return
  PROVE  IInv'
<1>1. /\ pc = "return" /\ pc' = "call"
      /\ UNCHANGED <<slot, section, k, i, cycles, timing, best, worst, row, ready,
                     prepared, failed, allocated>>
  BY DEF Return, tables
<1>2. \/ /\ t < Rounds(job) /\ t' = t + 1
         /\ UNCHANGED <<build, job, failures, ref_cycles, lo, hi>>
      \/ /\ ~(t < Rounds(job)) /\ t' = 1 /\ build < 3 /\ build' = build + 1
         /\ UNCHANGED <<job, failures, ref_cycles, lo, hi>>
      \/ /\ ~(t < Rounds(job)) /\ t' = 1 /\ ~(build < 3) /\ build' = 1
         /\ job = "verify_run" /\ job' = "bench_run"
         /\ UNCHANGED <<failures, ref_cycles, lo, hi>>
      \/ /\ ~(t < Rounds(job)) /\ t' = 1 /\ ~(build < 3) /\ build' = 1
         /\ job # "verify_run" /\ job' = "verify_run" /\ failures' = 0
         /\ ref_cycles' = [b \in Builds |-> 0]
         /\ lo' = [b \in Builds |-> NoTime] /\ hi' = [b \in Builds |-> 0]
  BY DEF Return, summary
<1>3. /\ job \in Jobs /\ build \in Builds /\ t \in 1 .. Rounds(job)
      /\ section = "return" /\ failures \in Nat
  BY <1>1, CasesExist, DriversAssumption
     DEF IInv, ControlInv, Rounds, SummaryType
<1>4. /\ Rounds("verify_run") = Len(KatLogn) /\ Rounds("bench_run") = MaxLogn
      /\ Len(KatLogn) \in Nat /\ Len(KatLogn) >= 1
      /\ MaxLogn \in Nat /\ MaxLogn >= 1
  BY CasesExist, DriversAssumption DEF Rounds
<1>5. ControlInv'
  <2>1. build' \in Builds /\ job' \in Jobs
    BY <1>2, <1>3 DEF Builds, Jobs
  <2>2. t' \in Nat \ {0} /\ t' <= Rounds(job')
    BY <1>2, <1>3, <1>4 DEF Jobs
  <2>3. QED
    BY <1>1, <2>1, <2>2 DEF IInv, ControlInv, Rounds
<1>6. TimingInv' /\ ~timing
  BY <1>1 DEF IInv, TimingInv
<1>7. FlagType' /\ SlotType'
  BY <1>1 DEF IInv, FlagType, SlotType
<1>8. TablesInv'
  BY <1>1 DEF IInv, TablesInv
<1>9. SizeInv'
  BY <1>1, <1>6 DEF IInv, SizeInv
<1>10. SummaryType'
  <2>1. SummaryType /\ NoTime \in Nat
    BY DriversAssumption DEF IInv
  <2>2. CASE UNCHANGED <<failures, ref_cycles, lo, hi>>
    BY <2>1, <2>2 DEF SummaryType
  <2>3. CASE /\ failures' = 0 /\ ref_cycles' = [b \in Builds |-> 0]
             /\ lo' = [b \in Builds |-> NoTime] /\ hi' = [b \in Builds |-> 0]
    BY <2>1, <2>3 DEF SummaryType
  <2>4. QED
    BY <1>2, <2>2, <2>3
<1>11. FailuresInv'
  <2>1. failures <= IF job = "bench_run" THEN 3 * Len(KatLogn)
                    ELSE (build - 1) * Len(KatLogn) + t
    BY <1>1 DEF IInv, FailuresInv, Cases
  <2>2. failures' <= IF job' = "bench_run" THEN 3 * Len(KatLogn)
                     ELSE (build' - 1) * Len(KatLogn) + (t' - 1)
    <3>1. CASE build = 1
      BY <1>2, <1>3, <1>4, <2>1, <3>1 DEF Jobs
    <3>2. CASE build = 2
      BY <1>2, <1>3, <1>4, <2>1, <3>2 DEF Jobs
    <3>3. CASE build = 3
      BY <1>2, <1>3, <1>4, <2>1, <3>3 DEF Jobs
    <3>4. QED
      BY <1>3, <3>1, <3>2, <3>3 DEF Builds
  <2>3. prepared => failures' = 0
    BY <1>2 DEF IInv, FailuresInv
  <2>4. QED
    BY <1>1, <2>2, <2>3 DEF FailuresInv, Cases
<1>12. SpreadInv'
  <2>1. prepared => \A b \in Builds :
          \/ hi[b] = 0 /\ lo[b] = NoTime /\ ref_cycles[b] = 0
          \/ hi[b] = FullCost /\ lo[b] = FullCost /\ ref_cycles[b] = FullCost
    BY DEF IInv, SpreadInv
  <2>2. FullCost' = FullCost
    BY DEF FullCost
  <2>3. QED
    BY <1>1, <1>2, <2>1, <2>2 DEF SpreadInv
<1>13. VouchInv'
  <2>1. SUFFICES ASSUME failures' = 0
                 PROVE  \A c \in 1 .. Len(KatLogn) :
                          Passed(c)' => KatLogn[c] \in ready
    BY <1>1 DEF VouchInv
  <2>2. failures = 0 =>
          \A c \in 1 .. Len(KatLogn) : Passed(c) => KatLogn[c] \in ready
    BY <1>1 DEF IInv, VouchInv
  <2>3. ASSUME NEW c \in 1 .. Len(KatLogn), Passed(c)'
        PROVE  Passed(c) /\ failures = 0
    <3>1. job' = "bench_run" \/ (build' = 3 /\ c < t')
      BY <1>1, <2>3 DEF Passed, Myfft
    <3>2. c \in Nat /\ c <= Len(KatLogn) /\ c >= 1
      BY <2>3, <1>4
    <3>3. CASE t < Rounds(job) /\ t' = t + 1
               /\ UNCHANGED <<build, job, failures>>
      BY <1>1, <1>3, <2>1, <3>1, <3>2, <3>3 DEF Passed, Myfft
    <3>4. CASE t' = 1 /\ job' = job /\ failures' = failures
      BY <2>1, <3>1, <3>2, <3>4 DEF Passed
    <3>5. CASE /\ ~(t < Rounds(job)) /\ ~(build < 3)
               /\ job = "verify_run" /\ failures' = failures
      BY <1>1, <1>3, <1>4, <2>1, <3>2, <3>5 DEF Passed, Myfft, Builds
    <3>6. CASE build' = 1 /\ job' = "verify_run"
      BY <3>1, <3>6
    <3>7. QED
      BY <1>2, <3>3, <3>4, <3>5, <3>6
  <2>4. QED
    BY <1>1, <2>2, <2>3
<1>14. QED
  BY <1>1, <1>5, <1>6, <1>7, <1>8, <1>9, <1>10, <1>11, <1>12, <1>13, Outside
     DEF IInv

-----------------------------------------------------------------------------
LEMMA Initially == Init => IInv
<1> SUFFICES ASSUME Init
             PROVE  IInv
  OBVIOUS
<1>1. /\ slot = [s \in 0 .. 3 |-> Nothing]
      /\ ready = {} /\ prepared = FALSE /\ failed = FALSE /\ allocated = FALSE
      /\ pc = "prepare" /\ job = "verify_run" /\ build = 1 /\ t = 1
      /\ section = "return" /\ k = 0 /\ i = 1
      /\ cycles = 0 /\ timing = FALSE /\ best = NoTime /\ worst = 0
      /\ row = [c \in Columns |-> 0]
      /\ failures = 0 /\ ref_cycles = [b \in Builds |-> 0]
      /\ lo = [b \in Builds |-> NoTime] /\ hi = [b \in Builds |-> 0]
  BY DEF Init
<1>2. ControlInv /\ TimingInv /\ FlagType
  <2>1. ControlInv
    BY <1>1, DriversAssumption, RegionsAssumption DEF ControlInv, Jobs, Builds
  <2>2. TimingInv
    BY <1>1 DEF TimingInv
  <2>3. FlagType
    BY <1>1 DEF FlagType
  <2>4. QED
    BY <2>1, <2>2, <2>3
<1>3. SlotType
  <2>1. Nothing \in [by : Marks, val : Values]
    BY CasesExist, DriversAssumption DEF Nothing, Marks, Values
  <2>2. QED
    BY <1>1, <2>1 DEF SlotType
<1>4. ContentsInv /\ TimeInv /\ BestInv /\ RowInv
  BY <1>1 DEF ContentsInv, OwnInv, CaseInv, SpoiltInv, SourcesInv, WorkInv,
     TimeInv, BestInv, RowInv
<1>5. TablesInv
  BY <1>1 DEF TablesInv
<1>6. SizeInv /\ SummaryType
  BY <1>1, DriversAssumption DEF SizeInv, SummaryType
<1>7. FailuresInv /\ SpreadInv /\ VouchInv
  BY <1>1 DEF FailuresInv, SpreadInv, VouchInv
<1>8. QED
  BY <1>2, <1>3, <1>4, <1>5, <1>6, <1>7 DEF IInv

LEMMA Inductive == IInv /\ [Next]_vars => IInv'
<1> SUFFICES ASSUME IInv, [Next]_vars
             PROVE  IInv'
  OBVIOUS
<1>1. CASE Prepare
  BY <1>1, PrepareStep
<1>2. CASE Enter
  BY <1>2, EnterStep
<1>3. CASE ReadT0
  BY <1>3, ReadT0Step
<1>4. CASE ReadT1
  BY <1>4, ReadT1Step
<1>5. CASE Memcpy
  BY <1>5, MemcpyStep
<1>6. CASE Transform("FFT") \/ Transform("iFFT")
  BY <1>6, TransformStep
<1>7. CASE PolyMulFFT
  BY <1>7, PolyMulStep
<1>8. CASE EndRepeat
  BY <1>8, EndRepeatStep
<1>9. CASE Compare
  BY <1>9, CompareStep
<1>10. CASE Return
  BY <1>10, ReturnStep
<1>11. CASE UNCHANGED vars
  <2>1. /\ UNCHANGED <<slot, pc, job, build, t, section, k, i, cycles, timing>>
        /\ UNCHANGED <<best, worst, row, failures, ref_cycles, lo, hi>>
        /\ UNCHANGED <<ready, prepared, failed, allocated>>
    BY <1>11 DEF vars, place, summary, tables
  <2>2. ControlInv' /\ TimingInv' /\ FlagType' /\ SlotType'
    BY <2>1 DEF IInv, ControlInv, TimingInv, FlagType, SlotType, Rounds
  <2>3. ContentsInv'
    BY <2>1 DEF IInv, ContentsInv, OwnInv, CaseInv, SpoiltInv, SourcesInv,
       WorkInv, Call
  <2>4. TablesInv'
    BY <2>1 DEF IInv, TablesInv, logn
  <2>5. TimeInv'
    BY <2>1 DEF IInv, TimeInv, Builder
  <2>6. BestInv' /\ RowInv'
    BY <2>1 DEF IInv, BestInv, RowInv, FullCost, Total
  <2>7. SizeInv' /\ SummaryType' /\ FailuresInv'
    BY <2>1 DEF IInv, SizeInv, SummaryType, FailuresInv, Cases
  <2>8. SpreadInv' /\ VouchInv'
    BY <2>1 DEF IInv, SpreadInv, VouchInv, FullCost, Passed
  <2>9. QED
    BY <2>2, <2>3, <2>4, <2>5, <2>6, <2>7, <2>8 DEF IInv
<1>12. QED
  BY <1>1, <1>2, <1>3, <1>4, <1>5, <1>6, <1>7, <1>8, <1>9, <1>10, <1>11 DEF Next

LEMMA Invariance == Spec => []IInv
<1>1. QED
  BY Initially, Inductive, PTL DEF Spec

(***************************************************************************)
(* The types, and the bounds of every counter: no time overflows, and no   *)
(* case is counted twice.                                                  *)
(***************************************************************************)
THEOREM TypeCorrect == Spec => []TypeOK
<1>1. IInv => TypeOK
  <2> SUFFICES ASSUME IInv
               PROVE  TypeOK
    OBVIOUS
  <2>1. failures \in 0 .. 3 * Len(KatLogn)
    <3>1. /\ job \in Jobs /\ build \in Builds /\ t \in Nat \ {0}
          /\ pc # "prepare" /\ job = "verify_run" => t <= Len(KatLogn)
      BY DEF IInv, ControlInv, Rounds
    <3>2. failures \in Nat /\ (pc = "prepare" => failures = 0)
          /\ (pc # "prepare" => failures <= Cases)
      BY DEF IInv, FailuresInv, SummaryType
    <3>3. ASSUME pc # "prepare", job = "verify_run"
          PROVE  failures <= 3 * Len(KatLogn)
      <4>1. PICK u \in 0 .. Len(KatLogn) : u = IF pc = "return" THEN t ELSE t - 1
        BY <3>1, <3>3, CasesExist
      <4>2. Cases = (build - 1) * Len(KatLogn) + u
        BY <3>3, <4>1 DEF Cases
      <4>3. failures <= (build - 1) * Len(KatLogn) + u
        BY <3>2, <3>3, <4>2
      <4>4. CASE build = 1
        BY <3>2, <4>1, <4>3, <4>4, CasesExist
      <4>5. CASE build = 2
        BY <3>2, <4>1, <4>3, <4>5, CasesExist
      <4>6. CASE build = 3
        BY <3>2, <4>1, <4>3, <4>6, CasesExist
      <4>7. QED
        BY <3>1, <4>4, <4>5, <4>6 DEF Builds
    <3>4. ASSUME pc # "prepare", job = "bench_run"
          PROVE  failures <= 3 * Len(KatLogn)
      BY <3>2, <3>4 DEF Cases
    <3>5. QED
      BY <3>1, <3>2, <3>3, <3>4, CasesExist DEF Jobs
  <2>2. QED
    BY <2>1 DEF IInv, ControlInv, TimingInv, FlagType, SlotType, SizeInv,
       SummaryType, Marks, TypeOK
<1>2. QED
  BY <1>1, Invariance, PTL

(***************************************************************************)
(* Every operation works on operands its own driver put there, and, as     *)
(* long as no transform failed, in the domain the operation is for.        *)
(***************************************************************************)
THEOREM OperandsAreRight == Spec => []OperandsRight
<1>1. IInv => OwnOperands
  <2> SUFFICES ASSUME IInv, pc = "run", i <= Len(Instructions(section)),
                      Instr.op \in Operations
               PROVE  /\ slot[Instr.src].by = Call
                      /\ Instr.op # "memcpy" => slot[Instr.dst].by = Call
    BY DEF OwnOperands
  <2>1. OwnInv
    BY DEF IInv, ContentsInv
  <2>2. QED
    BY <2>1, Reading
       DEF IInv, OwnInv, Is, T0, T1, Copy, FFT, iFFT, Mul, Operations
<1>2. IInv => Domains
  <2> SUFFICES ASSUME IInv, pc = "run", ~failed,
                      i <= Len(Instructions(section))
               PROVE  LET v == slot[Instr.dst].val
                          w == slot[Instr.src].val
                      IN  CASE Instr.op = "FFT" -> v \in {"a", "b"}
                            [] Instr.op = "iFFT" -> v \in {"A", "AB"}
                            [] Instr.op = "poly_mul_fft" -> v = "A" /\ w = "B"
                            [] OTHER -> TRUE
    BY DEF Domains
  <2> DEFINE v == slot[Instr.dst].val
             w == slot[Instr.src].val
  <2>1. CaseInv /\ SourcesInv /\ WorkInv
    BY DEF IInv, ContentsInv
  <2>2. Instr.op = "FFT" => v \in {"a", "b"}
    BY <2>1, Reading
       DEF IInv, CaseInv, SourcesInv, WorkInv, Is, T0, T1, Copy, FFT, iFFT, Mul
  <2>3. Instr.op = "iFFT" => v \in {"A", "AB"}
    BY <2>1, Reading
       DEF IInv, CaseInv, SourcesInv, WorkInv, Is, T0, T1, Copy, FFT, iFFT, Mul
  <2>4. Instr.op = "poly_mul_fft" => v = "A" /\ w = "B"
    BY <2>1, Reading
       DEF IInv, CaseInv, SourcesInv, WorkInv, Is, T0, T1, Copy, FFT, iFFT, Mul
  <2>5. QED
    BY <2>2, <2>3, <2>4
<1>3. QED
  BY <1>1, <1>2, Invariance, PTL DEF OperandsRight

(***************************************************************************)
(* The figures of a row are the costs of the operations its columns name,  *)
(* also where the tables were built in the first repeat.                   *)
(***************************************************************************)
THEOREM FiguresAreRight == Spec => []Figures
<1>1. IInv => Figures
  <2> SUFFICES ASSUME IInv, pc = "return", job = "bench_run", ~failed
               PROVE  row = [restore |-> Cost[<<"memcpy", "a">>],
                             fft |-> Cost[<<"FFT", "a">>], full |-> FullCost,
                             ifft |-> Cost[<<"iFFT", "A">>],
                             mul |-> Cost[<<"poly_mul_fft", "A">>], spread |-> 0]
    BY DEF Figures
  <2>1. section = "return" /\ row \in [Columns -> 0 .. NoTime]
    BY DEF IInv, ControlInv, SizeInv
  <2>2. /\ row["restore"] = Cost[<<"memcpy", "a">>]
        /\ row["fft"] = Cost[<<"FFT", "a">>]
        /\ row["full"] = FullCost /\ row["spread"] = 0
        /\ row["ifft"] = Cost[<<"iFFT", "A">>]
        /\ row["mul"] = Cost[<<"poly_mul_fft", "A">>]
    BY <2>1 DEF IInv, RowInv
  <2>3. QED
    BY <2>1, <2>2 DEF Columns
<1>2. QED
  BY <1>1, Invariance, PTL

(***************************************************************************)
(* With its tables prepared the program never fails a transform or a case  *)
(* and never allocates while it measures, and verify_run reports no spread.*)
(***************************************************************************)
THEOREM PreparedRunsAreSound == Spec => []PreparedRuns
<1>1. IInv => PreparedRuns
  <2> SUFFICES ASSUME IInv, prepared
               PROVE  /\ ~failed /\ ~allocated /\ failures = 0
                      /\ \A b \in Builds : hi[b] # 0 => /\ hi[b] = lo[b]
                                                        /\ ref_cycles[b] = hi[b]
    BY DEF PreparedRuns
  <2>1. ~failed /\ ~allocated /\ failures = 0
    BY DEF IInv, TablesInv, FailuresInv
  <2>2. ASSUME NEW b \in Builds, hi[b] # 0
        PROVE  hi[b] = lo[b] /\ ref_cycles[b] = hi[b]
    BY <2>2 DEF IInv, SpreadInv
  <2>3. QED
    BY <2>1, <2>2
<1>2. QED
  BY <1>1, Invariance, PTL

(***************************************************************************)
(* A verification without failures vouches for the sweep after it, even if *)
(* the tables were not prepared.                                           *)
(***************************************************************************)
THEOREM VerificationVouches == Spec => []Vouched
<1>1. IInv => Vouched
  <2>1. DOMAIN KatLogn = 1 .. Len(KatLogn)
    BY DriversAssumption, LenProperties
  <2>2. QED
    BY <2>1 DEF IInv, VouchInv, Vouched
<1>2. QED
  BY <1>1, Invariance, PTL

=============================================================================

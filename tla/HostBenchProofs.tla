-------------------------- MODULE HostBenchProofs --------------------------
(***************************************************************************)
(* The properties of HostBench for any sizes, costs, interruptions and     *)
(* numbers of batches.                                                     *)
(*                                                                         *)
(* The inductive invariant relates the time of a batch to the calls made   *)
(* in it, the best batch to the calls of a batch, and every result to the  *)
(* cost of its operation; and says what the buffers of a context hold at   *)
(* every call.                                                             *)
(***************************************************************************)
EXTENDS HostBench, TLAPS

Kinds == {"copy1", "copy2", "fft", "ifft", "mulfft", "full", "schoolbook"}

Benching == phase \in {"calibrate", "timed"}

Result == [ns : Nat, clean : BOOLEAN]

(***************************************************************************)
(* The counters; the rows and results there are so far.                    *)
(***************************************************************************)
CountersInv ==
  /\ logn \in 1 .. MAX_LOGN
  /\ phase \in {"tables", "ctx_init", "calibrate", "timed", "row", "report", "failed"}
  /\ which \in 1 .. 13
  /\ reps \in 1 .. REPS_CAP /\ i \in 0 .. reps /\ el \in Nat
  /\ b \in 0 .. BATCHES /\ best \in Nat \cup {Infinity}
  /\ disturbed \in BOOLEAN /\ clean \in BOOLEAN /\ calibrated \in BOOLEAN
  /\ interruptions \in 0 .. MaxInterruptions

RowsInv ==
  /\ rows \in Seq([Figures -> Int])
  /\ Len(rows) = IF phase = "report" THEN logn ELSE logn - 1

ResultsInv ==
  /\ measured \in Seq(Result)
  /\ Benching => Len(measured) = which - 1
  /\ phase = "row" => Len(measured) = 13
  /\ Len(measured) <= 13
  /\ \A k \in DOMAIN measured :
       /\ measured[k].ns >= REPS_CAP * CallTime(Ops[k])
       /\ measured[k].clean => measured[k].ns = REPS_CAP * CallTime(Ops[k])

(***************************************************************************)
(* A batch takes the time of its calls, and longer only when interrupted;  *)
(* so does the best batch of those that were timed.                        *)
(***************************************************************************)
BatchInv ==
  Benching =>
    /\ el >= i * CallTime(Op)
    /\ ~disturbed => el = i * CallTime(Op)
    /\ REPS_CAP % reps = 0

BestInv ==
  Benching =>
    /\ phase = "calibrate" => b = 0
    /\ b = 0 => best = Infinity /\ ~clean
    /\ b > 0 => best \in Nat /\ best >= reps * CallTime(Op)
    /\ clean => best = reps * CallTime(Op)

CalibratedInv ==
  phase = "timed" /\ calibrated =>
    reps >= REPS_CAP \/ reps * CallTime(Op) >= MIN_BATCH

(* The buffers of a context, and what the last call left in one of them.   *)
Filled(c) == /\ c \in [BufferNames -> Contents \ {"garbage"}]
             /\ c["src_a"] = "time" /\ c["src_b"] = "time"
             /\ c["tr_a"] = "fft" /\ c["tr_b"] = "fft"

Left(kind, c) ==
  CASE kind = "fft"        -> "fft"
    [] kind = "mulfft"     -> "product_fft"
    [] kind = "full"       -> "product"
    [] kind = "schoolbook" -> c["wa"]
    [] OTHER               -> "time"

BufInv ==
  /\ buf \in [Libs -> [BufferNames -> Contents \ {"garbage"}]]
  /\ Benching => \A l \in Libs : Filled(buf[l])
  /\ Benching /\ i > 0 => buf[Op.lib]["wa"] = Left(Op.kind, buf[Op.lib])

IInv ==
  /\ CountersInv /\ RowsInv /\ ResultsInv
  /\ BatchInv /\ BestInv /\ CalibratedInv /\ BufInv

-----------------------------------------------------------------------------
(* The table of the operations, and what each costs.                       *)
LEMMA OpsTable ==
  /\ Len(Ops) = 13
  /\ Ops[1] = Body("copy1", "my") /\ Ops[2] = Body("copy2", "my")
  /\ Ops[3] = Body("copy1", "ref") /\ Ops[4] = Body("copy2", "ref")
  /\ Ops[5] = Body("fft", "my") /\ Ops[6] = Body("ifft", "my")
  /\ Ops[7] = Body("mulfft", "my") /\ Ops[8] = Body("full", "my")
  /\ Ops[9] = Body("fft", "ref") /\ Ops[10] = Body("ifft", "ref")
  /\ Ops[11] = Body("mulfft", "ref") /\ Ops[12] = Body("full", "ref")
  /\ Ops[13] = Body("schoolbook", "my")
BY DEF Ops

LEMMA OpsTyped == \A n \in 1 .. 13 : Ops[n].kind \in Kinds /\ Ops[n].lib \in Libs
<1> SUFFICES ASSUME NEW n \in 1 .. 13
             PROVE  Ops[n].kind \in Kinds /\ Ops[n].lib \in Libs
  OBVIOUS
<1>1. n \in {1, 2, 3, 4, 5, 6, 7, 8, 9, 10, 11, 12, 13}
  OBVIOUS
<1> QED
  BY <1>1, OpsTable DEF Body, Kinds, Libs

LEMMA Constants ==
  /\ MAX_LOGN \in Nat \ {0} /\ BATCHES \in Nat \ {0} /\ REPS_CAP \in Nat \ {0}
  /\ CopyCost \in Nat \ {0} /\ MIN_BATCH \in Nat /\ SchoolbookCost \in Nat
  /\ MaxInterruptions \in Nat /\ Delays \subseteq Nat \ {0}
BY HostBenchAssumption

LEMMA TrueCosts ==
  ASSUME NEW l \in Libs
  PROVE  /\ TrueCost(Body("copy1", l)) = 0 /\ TrueCost(Body("copy2", l)) = 0
         /\ TrueCost(Body("fft", l)) = CallCost[l]["fft"]
         /\ TrueCost(Body("ifft", l)) = CallCost[l]["ifft"]
         /\ TrueCost(Body("mulfft", l)) = CallCost[l]["mulfft"]
         /\ TrueCost(Body("full", l)) =
              2 * CallCost[l]["fft"] + CallCost[l]["mulfft"] + CallCost[l]["ifft"]
         /\ TrueCost(Body("schoolbook", l)) = SchoolbookCost
BY DEF TrueCost, Body, Functions

LEMMA CostsTyped ==
  ASSUME NEW l \in Libs, NEW kind \in Kinds
  PROVE  TrueCost(Body(kind, l)) \in Nat
<1>1. /\ CallCost[l]["fft"] \in Nat /\ CallCost[l]["ifft"] \in Nat
      /\ CallCost[l]["mulfft"] \in Nat /\ SchoolbookCost \in Nat
  BY HostBenchAssumption DEF Functions
<1>2. 2 * CallCost[l]["fft"] + CallCost[l]["mulfft"] + CallCost[l]["ifft"] \in Nat
  BY <1>1
<1> QED
  BY <1>1, <1>2, TrueCosts DEF Kinds

LEMMA OpTimes == \A n \in 1 .. 13 : TrueCost(Ops[n]) \in Nat
                                    /\ CallTime(Ops[n]) \in Nat
<1> SUFFICES ASSUME NEW n \in 1 .. 13
             PROVE  TrueCost(Ops[n]) \in Nat /\ CallTime(Ops[n]) \in Nat
  OBVIOUS
<1>1. TrueCost(Ops[n]) \in Nat
  <2>1. Ops[n] = Body(Ops[n].kind, Ops[n].lib)
    <3>1. n \in {1, 2, 3, 4, 5, 6, 7, 8, 9, 10, 11, 12, 13}
      OBVIOUS
    <3> QED
      BY <3>1, OpsTable DEF Body
  <2> QED
    BY <2>1, OpsTyped, CostsTyped
<1>2. CopiesOf(Ops[n].kind) * CopyCost \in Nat
  <2>1. CopiesOf(Ops[n].kind) \in {0, 1, 2}
    BY DEF CopiesOf
  <2>2. \A j \in {0, 1, 2} : j * CopyCost \in Nat
    BY Constants
  <2> QED
    BY <2>1, <2>2
<1> QED
  BY <1>1, <1>2 DEF CallTime

(* The baseline of an operation copies as much, and does nothing else.     *)
LEMMA Baselines ==
  \A n \in 5 .. 12 :
    /\ Ops[n].kind # "schoolbook" /\ Baseline(Ops[n]) \in 1 .. 4
    /\ CallTime(Ops[n]) = CallTime(Ops[Baseline(Ops[n])]) + TrueCost(Ops[n])
<1> SUFFICES ASSUME NEW n \in 5 .. 12
             PROVE  /\ Ops[n].kind # "schoolbook" /\ Baseline(Ops[n]) \in 1 .. 4
                    /\ CallTime(Ops[n]) =
                         CallTime(Ops[Baseline(Ops[n])]) + TrueCost(Ops[n])
  OBVIOUS
<1> DEFINE m == Baseline(Ops[n])
<1>1. n \in {5, 6, 7, 8, 9, 10, 11, 12}
  OBVIOUS
<1>2. /\ Ops[n].kind \in {"fft", "ifft", "mulfft", "full"}
      /\ Ops[n].lib \in {"my", "ref"}
  BY <1>1, OpsTable DEF Body
<1>3. m \in {1, 2, 3, 4} /\ m \in 1 .. 4
  BY <1>2 DEF Baseline
<1>4. Ops[m].kind = IF Ops[n].kind = "full" THEN "copy2" ELSE "copy1"
  <2>1. m = (IF Ops[n].lib = "my" THEN 0 ELSE 2)
            + (IF Ops[n].kind = "full" THEN 2 ELSE 1)
    BY DEF Baseline
  <2> HIDE DEF m
  <2>2. /\ Ops[1].kind = "copy1" /\ Ops[2].kind = "copy2"
        /\ Ops[3].kind = "copy1" /\ Ops[4].kind = "copy2"
    BY OpsTable DEF Body
  <2>3. CASE Ops[n].kind = "full"
    <3>1. m \in {2, 4}
      BY <1>2, <2>1, <2>3
    <3> QED
      BY <2>2, <2>3, <3>1
  <2>4. CASE Ops[n].kind # "full"
    <3>1. m \in {1, 3}
      BY <1>2, <2>1, <2>4
    <3> QED
      BY <2>2, <2>4, <3>1
  <2> QED
    BY <2>3, <2>4
<1>5. CopiesOf(Ops[m].kind) = CopiesOf(Ops[n].kind)
  BY <1>2, <1>4 DEF CopiesOf
<1>6. TrueCost(Ops[m]) = 0
  <2>1. \A j \in {1, 2, 3, 4} : TrueCost(Ops[j]) = 0
    BY OpsTable, TrueCosts DEF Libs
  <2> QED
    BY <1>3, <2>1
<1>7. n \in 1 .. 13
  OBVIOUS
<1>8. CopiesOf(Ops[n].kind) * CopyCost \in Nat
  <2>1. CopiesOf(Ops[n].kind) \in {0, 1, 2}
    BY DEF CopiesOf
  <2>2. \A j \in {0, 1, 2} : j * CopyCost \in Nat
    BY Constants
  <2> QED
    BY <2>1, <2>2
<1>9. TrueCost(Ops[n]) \in Nat
  BY <1>7, OpTimes
<1>10. CallTime(Ops[m]) = CopiesOf(Ops[n].kind) * CopyCost
  BY <1>5, <1>6, <1>8 DEF CallTime
<1> QED
  BY <1>2, <1>3, <1>8, <1>9, <1>10 DEF CallTime

(***************************************************************************)
(* What one call does to the buffers of its library, kind by kind.         *)
(***************************************************************************)
LEMMA Restored ==
  /\ \A k \in {"copy1", "fft"} : Restores(k) = {<<"wa", "src_a">>}
  /\ \A k \in {"ifft", "mulfft"} : Restores(k) = {<<"wa", "tr_a">>}
  /\ \A k \in {"copy2", "full"} :
       Restores(k) = {<<"wa", "src_a">>, <<"wb", "src_b">>}
  /\ Restores("schoolbook") = {}
BY DEF Restores

(* The buffers once the operands of an operation are restored.             *)
Restocked(kind, c) ==
  [x \in BufferNames |->
     IF \E s \in BufferNames : <<x, s>> \in Restores(kind)
     THEN c[CHOOSE s \in BufferNames : <<x, s>> \in Restores(kind)]
     ELSE c[x]]

LEMMA NoSource ==
  ASSUME NEW k, NEW x \in BufferNames, NEW c,
         \A r \in BufferNames : <<x, r>> \notin Restores(k)
  PROVE  Restocked(k, c)[x] = c[x]
BY Zenon DEF Restocked

LEMMA RestockedFacts ==
  ASSUME NEW kind \in Kinds, NEW c, Filled(c)
  PROVE  LET d == Restocked(kind, c)
         IN  /\ Filled(d)
             /\ d["wa"] = CASE kind \in {"ifft", "mulfft"} -> "fft"
                            [] kind = "schoolbook" -> c["wa"]
                            [] OTHER -> "time"
             /\ kind = "full" => d["wb"] = "time"
<1> DEFINE d == Restocked(kind, c)
<1>1. /\ "wa" \in BufferNames /\ "wb" \in BufferNames /\ "src_a" \in BufferNames
      /\ "src_b" \in BufferNames /\ "tr_a" \in BufferNames
  BY DEF BufferNames
<1>2. /\ c["src_a"] = "time" /\ c["src_b"] = "time"
      /\ c["tr_a"] = "fft" /\ c["tr_b"] = "fft"
      /\ \A x \in BufferNames : c[x] \in Contents \ {"garbage"}
  BY DEF Filled
<1>3. \A x \in {"src_a", "src_b", "tr_a", "tr_b"}, r \in BufferNames :
        <<x, r>> \notin Restores(kind)
  BY Restored DEF Kinds
<1>4. \A x \in {"src_a", "src_b", "tr_a", "tr_b"} : d[x] = c[x]
  BY <1>3, NoSource DEF BufferNames
<1>5. \A x, s \in BufferNames :
        <<x, s>> \in Restores(kind)
          /\ (\A r \in BufferNames : <<x, r>> \in Restores(kind) => r = s)
        => d[x] = c[s]
  <2> SUFFICES ASSUME NEW x \in BufferNames, NEW s \in BufferNames,
                      <<x, s>> \in Restores(kind),
                      \A r \in BufferNames : <<x, r>> \in Restores(kind) => r = s
               PROVE  d[x] = c[s]
    OBVIOUS
  <2>1. (CHOOSE r \in BufferNames : <<x, r>> \in Restores(kind)) = s
    OBVIOUS
  <2>2. \E r \in BufferNames : <<x, r>> \in Restores(kind)
    OBVIOUS
  <2> QED
    BY <2>1, <2>2, Zenon DEF Restocked
<1>6. d["wa"] = CASE kind \in {"ifft", "mulfft"} -> "fft"
                  [] kind = "schoolbook" -> c["wa"]
                  [] OTHER -> "time"
  <2>1. CASE kind \in {"copy1", "copy2", "fft", "full"}
    <3>1. /\ <<"wa", "src_a">> \in Restores(kind)
          /\ \A r \in BufferNames : <<"wa", r>> \in Restores(kind) => r = "src_a"
      BY <2>1, Restored
    <3>2. d["wa"] = c["src_a"]
      BY <1>1, <1>5, <3>1
    <3> QED
      BY <1>2, <2>1, <3>2
  <2>2. CASE kind \in {"ifft", "mulfft"}
    <3>1. /\ <<"wa", "tr_a">> \in Restores(kind)
          /\ \A r \in BufferNames : <<"wa", r>> \in Restores(kind) => r = "tr_a"
      BY <2>2, Restored
    <3>2. d["wa"] = c["tr_a"]
      BY <1>1, <1>5, <3>1
    <3> QED
      BY <1>2, <2>2, <3>2
  <2>3. CASE kind = "schoolbook"
    <3>1. d["wa"] = c["wa"]
      BY <2>3, Restored, NoSource DEF BufferNames
    <3> QED
      BY <2>3, <3>1
  <2> QED
    BY <2>1, <2>2, <2>3 DEF Kinds
<1>7. d["wb"] = IF kind \in {"copy2", "full"} THEN "time" ELSE c["wb"]
  <2>1. CASE kind \in {"copy2", "full"}
    <3>1. /\ <<"wb", "src_b">> \in Restores(kind)
          /\ \A r \in BufferNames : <<"wb", r>> \in Restores(kind) => r = "src_b"
      BY <2>1, Restored
    <3>2. d["wb"] = c["src_b"]
      BY <1>1, <1>5, <3>1
    <3> QED
      BY <1>2, <2>1, <3>2
  <2>2. CASE kind \notin {"copy2", "full"}
    <3>1. \A r \in BufferNames : <<"wb", r>> \notin Restores(kind)
      BY <2>2, Restored DEF Kinds
    <3> QED
      BY <2>2, <3>1, NoSource DEF BufferNames
  <2> QED
    BY <2>1, <2>2
<1> HIDE DEF d
<1>8. \A x \in BufferNames : d[x] \in Contents \ {"garbage"}
  <2>1. /\ "time" \in Contents \ {"garbage"} /\ "fft" \in Contents \ {"garbage"}
        /\ "wa" \in BufferNames /\ "wb" \in BufferNames
    BY DEF Contents, BufferNames
  <2>2. d["wa"] \in {"time", "fft", c["wa"]} /\ d["wb"] \in {"time", c["wb"]}
    BY <1>6, <1>7
  <2>3. /\ d["wa"] \in Contents \ {"garbage"} /\ d["wb"] \in Contents \ {"garbage"}
    BY <1>2, <2>1, <2>2
  <2> QED
    BY <1>2, <1>4, <2>3 DEF BufferNames
<1>9. Filled(d)
  <2>1. d \in [BufferNames -> Contents \ {"garbage"}]
    <3>1. d = [x \in BufferNames |-> d[x]]
      BY DEF d, Restocked
    <3> QED
      BY <1>8, <3>1
  <2> QED
    BY <1>2, <1>4, <2>1 DEF Filled
<1> QED
  BY <1>6, <1>7, <1>9 DEF d

LEMMA CalledTable ==
  ASSUME NEW c
  PROVE  /\ \A k \in {"copy1", "copy2", "schoolbook"} :
              Called(k, c) = Restocked(k, c)
         /\ Called("fft", c) = LET w == Restocked("fft", c)
                               IN  [w EXCEPT !["wa"] = Transform(@, "time", "fft")]
         /\ Called("ifft", c) = LET w == Restocked("ifft", c)
                                IN  [w EXCEPT !["wa"] = Invert(@)]
         /\ Called("mulfft", c) = LET w == Restocked("mulfft", c)
                                  IN  [w EXCEPT !["wa"] = Multiply(@, w["tr_b"])]
         /\ Called("full", c) =
              LET w == Restocked("full", c)
                  fb == Transform(w["wb"], "time", "fft")
                  fa == Transform(w["wa"], "time", "fft")
              IN  [w EXCEPT !["wb"] = fb, !["wa"] = Invert(Multiply(fa, fb))]
BY DEF Called, Restocked

(* Writing one buffer of a context that is filled leaves it filled.        *)
LEMMA FilledUpdate ==
  \A c : Filled(c) =>
    \A v \in {"fft", "product_fft", "product", "time"} :
      /\ Filled([c EXCEPT !["wa"] = v]) /\ [c EXCEPT !["wa"] = v]["wa"] = v
      /\ Filled([c EXCEPT !["wb"] = v])
BY DEF Filled, BufferNames, Contents

LEMMA CalledFacts ==
  ASSUME NEW kind \in Kinds, NEW c, Filled(c)
  PROVE  /\ Filled(Called(kind, c))
         /\ Called(kind, c)["wa"] = Left(kind, c)
<1> DEFINE w == Restocked(kind, c)
<1>1. /\ Filled(w)
      /\ w["wa"] = CASE kind \in {"ifft", "mulfft"} -> "fft"
                     [] kind = "schoolbook" -> c["wa"]
                     [] OTHER -> "time"
      /\ kind = "full" => w["wb"] = "time"
  BY RestockedFacts
<1> HIDE DEF w
<1>2. w["tr_b"] = "fft"
  BY <1>1 DEF Filled
<1>3. \A v \in {"fft", "product_fft", "product", "time"} :
        /\ Filled([w EXCEPT !["wa"] = v]) /\ [w EXCEPT !["wa"] = v]["wa"] = v
        /\ Filled([w EXCEPT !["wb"] = v])
  BY <1>1, FilledUpdate
<1>4. CASE kind \in {"copy1", "copy2", "schoolbook"}
  <2>1. Called(kind, c) = w
    BY <1>4, CalledTable DEF w
  <2>2. w["wa"] = IF kind = "schoolbook" THEN c["wa"] ELSE "time"
    BY <1>1, <1>4
  <2>3. Left(kind, c) = IF kind = "schoolbook" THEN c["wa"] ELSE "time"
    BY <1>4 DEF Left
  <2> QED
    BY <1>1, <2>1, <2>2, <2>3
<1>5. CASE kind = "fft"
  <2>1. Called(kind, c) = [w EXCEPT !["wa"] = Transform(w["wa"], "time", "fft")]
    BY <1>5, CalledTable DEF w
  <2>2. Transform(w["wa"], "time", "fft") = "fft"
    BY <1>1, <1>5 DEF Transform
  <2>3. Left(kind, c) = "fft"
    BY <1>5 DEF Left
  <2> QED
    BY <1>3, <2>1, <2>2, <2>3
<1>6. CASE kind = "ifft"
  <2>1. Called(kind, c) = [w EXCEPT !["wa"] = Invert(w["wa"])]
    BY <1>6, CalledTable DEF w
  <2>2. Invert(w["wa"]) = "time"
    BY <1>1, <1>6 DEF Invert
  <2>3. Left(kind, c) = "time"
    BY <1>6 DEF Left
  <2> QED
    BY <1>3, <2>1, <2>2, <2>3
<1>7. CASE kind = "mulfft"
  <2>1. Called(kind, c) = [w EXCEPT !["wa"] = Multiply(w["wa"], w["tr_b"])]
    BY <1>7, CalledTable DEF w
  <2>2. Multiply(w["wa"], w["tr_b"]) = "product_fft"
    BY <1>1, <1>2, <1>7 DEF Multiply
  <2>3. Left(kind, c) = "product_fft"
    BY <1>7 DEF Left
  <2> QED
    BY <1>3, <2>1, <2>2, <2>3
<1>8. CASE kind = "full"
  <2>1. w["wa"] = "time" /\ w["wb"] = "time"
    BY <1>1, <1>8
  <2>2. /\ Transform("time", "time", "fft") = "fft"
        /\ Invert(Multiply("fft", "fft")) = "product"
    BY DEF Transform, Multiply, Invert
  <2>3. Called(kind, c) = [[w EXCEPT !["wb"] = "fft"] EXCEPT !["wa"] = "product"]
    BY <1>8, <2>1, <2>2, CalledTable DEF w
  <2>4. Filled([w EXCEPT !["wb"] = "fft"])
    BY <1>3
  <2>5. Left(kind, c) = "product"
    BY <1>8 DEF Left
  <2> DEFINE u == [w EXCEPT !["wb"] = "fft"]
  <2>6. /\ Filled([u EXCEPT !["wa"] = "product"])
        /\ [u EXCEPT !["wa"] = "product"]["wa"] = "product"
    <3>1. \A v \in {"fft", "product_fft", "product", "time"} :
            /\ Filled([u EXCEPT !["wa"] = v]) /\ [u EXCEPT !["wa"] = v]["wa"] = v
      BY <2>4, FilledUpdate, Zenon
    <3> QED
      BY <3>1
  <2> QED
    BY <2>3, <2>5, <2>6
<1> QED
  BY <1>4, <1>5, <1>6, <1>7, <1>8 DEF Kinds

-----------------------------------------------------------------------------
(* Arithmetic of batches: one more call; a number of calls that divides    *)
(* the cap, doubled; a best batch, scaled to the cap.                      *)
LEMMA OneMore == ASSUME NEW n \in Nat, NEW t \in Nat
                 PROVE  (n + 1) * t = n * t + t /\ n * t \in Nat
OBVIOUS

LEMMA Monotone ==
  ASSUME NEW x \in Nat, NEW y \in Nat, NEW q \in Nat, x <= y
  PROVE  x * q <= y * q
<1>1. PICK d \in Nat : y = x + d
  <2>1. y - x \in Nat /\ y = x + (y - x)
    OBVIOUS
  <2> QED
    BY <2>1
<1>2. y * q = x * q + d * q /\ d * q \in Nat /\ x * q \in Nat
  BY <1>1
<1> QED
  BY <1>2

LEMMA Doubled ==
  ASSUME NEW r \in 1 .. REPS_CAP, REPS_CAP % r = 0, r < REPS_CAP
  PROVE  2 * r \in 1 .. REPS_CAP /\ REPS_CAP % (2 * r) = 0
<1>1. r \in 1 .. REPS_CAP - 1 /\ 2 * r \in Nat \ {0} /\ REPS_CAP \in Nat \ {0}
  BY Constants
<1>2. REPS_CAP % (2 * r) = 0
  BY <1>1, RepsCapAssumption
<1>3. \A m, n \in Nat \ {0} : n < m => n % m = n
  OBVIOUS
<1>4. ~(REPS_CAP < 2 * r)
  <2>1. REPS_CAP < 2 * r => REPS_CAP % (2 * r) = REPS_CAP
    BY <1>1, <1>3
  <2> QED
    BY <1>1, <1>2, <2>1
<1> QED
  BY <1>1, <1>2, <1>4

LEMMA Scaled ==
  ASSUME NEW r \in 1 .. REPS_CAP, REPS_CAP % r = 0, NEW t \in Nat, NEW m \in Nat
  PROVE  /\ m * (REPS_CAP \div r) \in Nat
         /\ m >= r * t => m * (REPS_CAP \div r) >= REPS_CAP * t
         /\ m = r * t => m * (REPS_CAP \div r) = REPS_CAP * t
<1> DEFINE q == REPS_CAP \div r
<1>1. r \in Nat \ {0} /\ REPS_CAP \in Nat \ {0} /\ r * t \in Nat
  BY Constants
<1>2. q \in Nat /\ REPS_CAP = r * q
  <2>1. \A n \in Nat \ {0}, x \in Nat : /\ x \div n \in Nat
                                       /\ x % n = 0 => x = n * (x \div n)
    OBVIOUS
  <2> QED
    BY <1>1, <2>1
<1> HIDE DEF q
<1>3. (r * t) * q = REPS_CAP * t
  <2>1. (r * t) * q = (r * q) * t
    BY <1>1, <1>2
  <2> QED
    BY <1>2, <2>1
<1>4. m * q \in Nat
  BY <1>2
<1>5. m >= r * t => m * q >= REPS_CAP * t
  BY <1>1, <1>2, <1>3, Monotone
<1> QED
  BY <1>3, <1>4, <1>5 DEF q

-----------------------------------------------------------------------------
LEMMA BufTyped == NoContext \in [Libs -> [BufferNames -> Contents \ {"garbage"}]]
BY DEF NoContext, Contents

LEMMA InitInv == Init => IInv
<1> SUFFICES ASSUME Init
             PROVE  IInv
  OBVIOUS
<1>1. ~Benching /\ phase = "tables" /\ rows = <<>> /\ measured = <<>> /\ logn = 1
  BY DEF Init, Benching
<1>2. CountersInv
  <2>1. /\ 1 \in 1 .. MAX_LOGN /\ 1 \in 1 .. REPS_CAP /\ 0 \in 0 .. 1
        /\ 0 \in 0 .. BATCHES /\ 0 \in 0 .. MaxInterruptions
    BY Constants
  <2>2. /\ logn = 1 /\ phase = "tables" /\ which = 1
        /\ reps = 1 /\ i = 0 /\ el = 0 /\ b = 0 /\ best = Infinity
        /\ disturbed = FALSE /\ clean = FALSE /\ interruptions = 0
    BY DEF Init
  <2>3. calibrated \in BOOLEAN /\ disturbed \in BOOLEAN /\ clean \in BOOLEAN
    BY Zenon DEF Init
  <2> QED
    BY <2>1, <2>2, <2>3 DEF CountersInv
<1>3. RowsInv
  BY <1>1 DEF RowsInv
<1>4. ResultsInv
  BY <1>1 DEF ResultsInv
<1>5. BatchInv /\ BestInv /\ CalibratedInv
  BY <1>1 DEF BatchInv, BestInv, CalibratedInv
<1>6. BufInv
  BY <1>1, BufTyped DEF Init, BufInv
<1> QED
  BY <1>2, <1>3, <1>4, <1>5, <1>6 DEF IInv

LEMMA BuildTablesKeeps == ASSUME IInv, BuildTables
                          PROVE  IInv'
<1>1. /\ phase = "tables" /\ phase' \in {"ctx_init", "failed"}
      /\ logn' = logn /\ which' = which /\ buf' = buf /\ i' = i /\ el' = el
      /\ disturbed' = disturbed /\ reps' = reps /\ b' = b /\ best' = best
      /\ clean' = clean /\ calibrated' = calibrated /\ measured' = measured
      /\ rows' = rows /\ interruptions' = interruptions
  BY DEF BuildTables, batch, bench
<1>2. ~Benching' /\ phase' # "row" /\ phase' # "report" /\ phase' # "timed"
  BY <1>1 DEF Benching
<1>3. CountersInv'
  BY <1>1 DEF IInv, CountersInv
<1>4. RowsInv'
  BY <1>1, <1>2 DEF IInv, RowsInv
<1>5. ResultsInv'
  BY <1>1, <1>2, Zenon DEF IInv, ResultsInv
<1>6. BatchInv' /\ BestInv' /\ CalibratedInv'
  BY <1>2 DEF BatchInv, BestInv, CalibratedInv
<1>7. BufInv'
  BY <1>1, <1>2, Zenon DEF IInv, BufInv
<1> QED
  BY <1>3, <1>4, <1>5, <1>6, <1>7 DEF IInv

(***************************************************************************)
(* A context is filled, and the first operation begins.                    *)
(***************************************************************************)
LEMMA CtxInitKeeps == ASSUME IInv, CtxInit
                      PROVE  IInv'
<1> DEFINE full == [x \in BufferNames |->
                      CASE x \in {"src_a", "src_b"} -> "time"
                        [] x \in {"tr_a", "tr_b"}   -> "fft"
                        [] OTHER                    -> "stale"]
<1>1. /\ phase = "ctx_init" /\ which' = 1 /\ measured' = <<>>
      /\ reps' = 1 /\ b' = 0 /\ best' = Infinity /\ clean' = FALSE
      /\ calibrated' = FALSE /\ i' = 0 /\ el' = 0 /\ disturbed' = FALSE
      /\ logn' = logn /\ rows' = rows /\ interruptions' = interruptions
      /\ \/ buf' = [l \in Libs |-> full] /\ phase' = "calibrate"
         \/ buf' = NoContext /\ phase' = "failed"
  BY DEF CtxInit, StartBench, NewBatch
<1>2. Filled(full) /\ full \in [BufferNames -> Contents \ {"garbage"}]
  BY DEF Filled, BufferNames, Contents
<1> HIDE DEF full
<1>3. phase' \in {"calibrate", "failed"} /\ phase' # "report" /\ phase' # "row"
      /\ phase' # "timed"
  BY <1>1
<1>4. CountersInv'
  <2>1. /\ 1 \in 1 .. REPS_CAP /\ 0 \in 0 .. 1 /\ 0 \in 0 .. BATCHES
    BY Constants
  <2>2. disturbed' \in BOOLEAN /\ clean' \in BOOLEAN /\ calibrated' \in BOOLEAN
    BY <1>1, Zenon
  <2>3. logn' \in 1 .. MAX_LOGN /\ interruptions' \in 0 .. MaxInterruptions
    BY <1>1 DEF IInv, CountersInv
  <2>4. phase' \in {"tables", "ctx_init", "calibrate", "timed", "row", "report",
                    "failed"}
    BY <1>3
  <2>5. /\ which' \in 1 .. 13 /\ reps' \in 1 .. REPS_CAP /\ i' \in 0 .. reps'
        /\ el' \in Nat /\ b' \in 0 .. BATCHES /\ best' \in Nat \cup {Infinity}
    BY <1>1, <2>1
  <2> QED
    BY <2>2, <2>3, <2>4, <2>5 DEF CountersInv
<1>5. RowsInv'
  BY <1>1, <1>3 DEF IInv, RowsInv
<1>6. ResultsInv'
  BY <1>1, <1>3 DEF ResultsInv
<1>7. /\ CallTime(Ops[1]) \in Nat /\ REPS_CAP % 1 = 0
      /\ 0 * CallTime(Ops[1]) = 0
  BY OpTimes, Constants
<1>8. BatchInv'
  BY <1>1, <1>7 DEF BatchInv, Op
<1>9. BestInv' /\ CalibratedInv'
  BY <1>1, <1>3 DEF BestInv, CalibratedInv
<1>10. BufInv'
  <2>1. CASE phase' = "calibrate"
    <3>1. buf' = [l \in Libs |-> full]
      BY <1>1, <2>1
    <3>2. \A l \in Libs : Filled(buf'[l])
      BY <1>2, <3>1
    <3>3. buf' \in [Libs -> [BufferNames -> Contents \ {"garbage"}]]
      BY <1>2, <3>1
    <3> QED
      BY <1>1, <3>2, <3>3 DEF BufInv
  <2>2. CASE phase' = "failed"
    <3>1. buf' = NoContext
      BY <1>1, <2>2
    <3> QED
      BY <2>2, <3>1, BufTyped DEF BufInv, Benching
  <2> QED
    BY <1>3, <2>1, <2>2
<1> QED
  BY <1>4, <1>5, <1>6, <1>8, <1>9, <1>10 DEF IInv

(***************************************************************************)
(* One call.  It takes its time and that of an interruption, if there is   *)
(* one, and leaves in the buffers of its library what Left says.           *)
(***************************************************************************)
LEMMA CallKeeps == ASSUME IInv, Call
                   PROVE  IInv'
<1> DEFINE T == CallTime(Op)
<1>1. /\ Benching /\ i < reps /\ i' = i + 1
      /\ buf' = [buf EXCEPT ![Op.lib] = Called(Op.kind, buf[Op.lib])]
      /\ \/ /\ el' = el + T /\ disturbed' = disturbed
            /\ interruptions' = interruptions
         \/ /\ interruptions < MaxInterruptions
            /\ \E d \in Delays : el' = el + T + d
            /\ disturbed' = TRUE /\ interruptions' = interruptions + 1
      /\ logn' = logn /\ phase' = phase /\ which' = which
      /\ reps' = reps /\ b' = b /\ best' = best /\ clean' = clean
      /\ calibrated' = calibrated /\ measured' = measured /\ rows' = rows
  BY DEF Call, Benching, bench
<1>2. CountersInv /\ BatchInv /\ BestInv /\ CalibratedInv /\ BufInv
      /\ RowsInv /\ ResultsInv
  BY DEF IInv
<1>3. /\ which \in 1 .. 13 /\ i \in Nat /\ el \in Nat /\ reps \in 1 .. REPS_CAP
      /\ interruptions \in 0 .. MaxInterruptions /\ MaxInterruptions \in Nat
  BY <1>2, Constants DEF CountersInv
<1>4. T \in Nat /\ Op.kind \in Kinds /\ Op.lib \in Libs
  BY <1>3, OpTimes, OpsTyped DEF Op
<1>5. Op' = Op /\ Benching' /\ CallTime(Op)' = T
  BY <1>1 DEF Op, Benching, CallTime, TrueCost
<1> HIDE DEF T
<1>6. /\ el' \in Nat /\ el' >= el + T /\ (~disturbed' => el' = el + T)
      /\ disturbed' = TRUE \/ disturbed' = disturbed
      /\ ~disturbed' => ~disturbed
      /\ interruptions' \in 0 .. MaxInterruptions
  <2>1. CASE el' = el + T /\ disturbed' = disturbed
             /\ interruptions' = interruptions
    BY <1>3, <1>4, <2>1
  <2>2. CASE /\ interruptions < MaxInterruptions
             /\ \E d \in Delays : el' = el + T + d
             /\ disturbed' = TRUE /\ interruptions' = interruptions + 1
    <3>1. PICK d \in Delays : el' = el + T + d
      BY <2>2
    <3>2. d \in Nat
      BY Constants
    <3> QED
      BY <1>3, <1>4, <2>2, <3>1, <3>2
  <2> QED
    BY <1>1, <2>1, <2>2
<1>7. CountersInv'
  <2>1. i + 1 \in 0 .. reps
    BY <1>1, <1>3, Constants
  <2>2. disturbed' \in BOOLEAN
    BY <1>2, <1>6, Zenon DEF CountersInv
  <2> QED
    BY <1>1, <1>2, <1>6, <2>1, <2>2, Zenon DEF CountersInv
<1>8. RowsInv' /\ CalibratedInv' /\ BestInv'
  <2>1. CallTime(Op') = CallTime(Op)
    BY <1>5
  <2> QED
    BY <1>1, <1>2, <1>5, <2>1, Zenon DEF RowsInv, CalibratedInv, BestInv
<1>9. ResultsInv'
  <2>1. \A k : CallTime(Ops[k])' = CallTime(Ops[k])
    OBVIOUS
  <2> QED
    BY <1>1, <1>2, <1>5, Zenon DEF ResultsInv
<1>10. BatchInv'
  <2>1. /\ el >= i * T /\ (~disturbed => el = i * T) /\ REPS_CAP % reps = 0
    BY <1>1, <1>2 DEF BatchInv, T
  <2>2. (i + 1) * T = i * T + T /\ i * T \in Nat
    BY <1>3, <1>4, OneMore
  <2>3. el' >= (i + 1) * T /\ (~disturbed' => el' = (i + 1) * T)
    BY <1>3, <1>4, <1>6, <2>1, <2>2
  <2>4. CallTime(Op') = T
    BY <1>5 DEF T
  <2> QED
    BY <1>1, <2>1, <2>3, <2>4 DEF BatchInv
<1>11. BufInv'
  <2> DEFINE l == Op.lib
             d == Called(Op.kind, buf[l])
  <2>1. /\ \A x \in Libs : Filled(buf[x])
        /\ buf \in [Libs -> [BufferNames -> Contents \ {"garbage"}]]
    BY <1>1, <1>2 DEF BufInv
  <2>2. Filled(d) /\ d["wa"] = Left(Op.kind, buf[l])
    BY <1>4, <2>1, CalledFacts
  <2> HIDE DEF d
  <2>3. buf' = [buf EXCEPT ![l] = d]
    BY <1>1 DEF d
  <2>4. buf'[l] = d /\ \A x \in Libs : Filled(buf'[x])
    BY <1>4, <2>1, <2>2, <2>3
  <2>5. buf' \in [Libs -> [BufferNames -> Contents \ {"garbage"}]]
    <3>1. d \in [BufferNames -> Contents \ {"garbage"}]
      BY <2>2 DEF Filled
    <3> QED
      BY <1>4, <2>1, <2>3, <3>1
  <2>6. d["wa"] = Left(Op.kind, d)
    <3>1. CASE Op.kind = "schoolbook"
      <4>1. Left(Op.kind, d) = d["wa"]
        BY <3>1 DEF Left
      <4> QED
        BY <4>1
    <3>2. CASE Op.kind # "schoolbook"
      <4>1. Left(Op.kind, d) = Left(Op.kind, buf[l])
        BY <3>2 DEF Left
      <4> QED
        BY <2>2, <4>1
    <3> QED
      BY <3>1, <3>2
  <2>7. Op'.lib = l /\ Op'.kind = Op.kind
    BY <1>5
  <2> QED
    BY <2>4, <2>5, <2>6, <2>7, Zenon DEF BufInv
<1> QED
  BY <1>7, <1>8, <1>9, <1>10, <1>11 DEF IInv

(***************************************************************************)
(* Calibration ends when a batch was long enough, or at the cap; doubling  *)
(* keeps to the divisors of the cap.                                       *)
(***************************************************************************)
LEMMA CalibrateKeeps == ASSUME IInv, Calibrate
                        PROVE  IInv'
<1> DEFINE T == CallTime(Op)
<1>1. /\ phase = "calibrate" /\ i = reps /\ Benching
      /\ IF el >= MIN_BATCH \/ reps >= REPS_CAP
         THEN phase' = "timed" /\ reps' = reps /\ calibrated' = ~disturbed
         ELSE reps' = 2 * reps /\ phase' = phase /\ calibrated' = calibrated
      /\ i' = 0 /\ el' = 0 /\ disturbed' = FALSE
      /\ logn' = logn /\ which' = which /\ buf' = buf /\ b' = b
      /\ best' = best /\ clean' = clean /\ measured' = measured /\ rows' = rows
      /\ interruptions' = interruptions
  BY DEF Calibrate, NewBatch, Benching
<1>2. CountersInv /\ BatchInv /\ BestInv /\ CalibratedInv /\ BufInv
      /\ RowsInv /\ ResultsInv
  BY DEF IInv
<1>3. /\ which \in 1 .. 13 /\ el \in Nat /\ reps \in 1 .. REPS_CAP
      /\ REPS_CAP \in Nat /\ MIN_BATCH \in Nat
  BY <1>2, Constants DEF CountersInv
<1>4. T \in Nat
  BY <1>3, OpTimes DEF Op
<1>5. CallTime(Op') = T /\ Op' = Op
  BY <1>1 DEF Op
<1> HIDE DEF T
<1>6. phase' \in {"calibrate", "timed"} /\ Benching'
  BY <1>1 DEF Benching
<1>7. el >= reps * T /\ (~disturbed => el = reps * T) /\ REPS_CAP % reps = 0
  BY <1>1, <1>2 DEF BatchInv, T
<1>8. reps' \in 1 .. REPS_CAP /\ REPS_CAP % reps' = 0
  <2>1. CASE el >= MIN_BATCH \/ reps >= REPS_CAP
    BY <1>1, <1>3, <1>7, <2>1
  <2>2. CASE ~(el >= MIN_BATCH \/ reps >= REPS_CAP)
    <3>1. reps < REPS_CAP /\ reps' = 2 * reps
      BY <1>1, <1>3, <2>2
    <3>2. 2 * reps \in 1 .. REPS_CAP /\ REPS_CAP % (2 * reps) = 0
      BY <1>3, <1>7, <3>1, Doubled
    <3> QED
      BY <3>1, <3>2
  <2> QED
    BY <2>1, <2>2
<1>9. CountersInv'
  <2>1. disturbed' \in BOOLEAN /\ calibrated' \in BOOLEAN
    BY <1>1, <1>2, Zenon DEF CountersInv
  <2>2. i' \in 0 .. reps' /\ el' \in Nat
    BY <1>1, <1>8, Constants
  <2> QED
    BY <1>1, <1>2, <1>6, <1>8, <2>1, <2>2 DEF CountersInv
<1>10. RowsInv' /\ ResultsInv'
  <2>1. phase' # "report" /\ phase # "report" /\ phase' # "row"
    BY <1>1, <1>6
  <2> QED
    BY <1>1, <1>2, <2>1, Zenon DEF RowsInv, ResultsInv
<1>11. BatchInv'
  <2>1. 0 * T = 0
    BY <1>4
  <2> QED
    BY <1>1, <1>5, <1>8, <2>1 DEF BatchInv
<1>12. BestInv'
  <2>1. b' = 0 /\ best' = Infinity /\ ~clean'
    BY <1>1, <1>2 DEF BestInv
  <2> QED
    BY <2>1 DEF BestInv
<1>13. CalibratedInv'
  <2> SUFFICES ASSUME phase' = "timed", calibrated'
               PROVE  reps' >= REPS_CAP \/ reps' * T >= MIN_BATCH
    BY <1>5 DEF CalibratedInv
  <2>1. /\ el >= MIN_BATCH \/ reps >= REPS_CAP
        /\ reps' = reps /\ calibrated' = ~disturbed
    BY <1>1
  <2>2. el = reps * T
    BY <1>7, <2>1
  <2> QED
    BY <2>1, <2>2
<1>14. BufInv'
  BY <1>1, <1>2, <1>6 DEF BufInv
<1> QED
  BY <1>9, <1>10, <1>11, <1>12, <1>13, <1>14 DEF IInv

LEMMA TimedKeeps == ASSUME IInv, Timed
                    PROVE  IInv'
<1> DEFINE T == CallTime(Op)
<1>1. /\ phase = "timed" /\ i = reps /\ b < BATCHES /\ Benching
      /\ best' = Fastest(best, el) /\ b' = b + 1
      /\ clean' = (clean \/ ~disturbed)
      /\ i' = 0 /\ el' = 0 /\ disturbed' = FALSE
      /\ logn' = logn /\ phase' = phase /\ which' = which /\ buf' = buf
      /\ reps' = reps /\ calibrated' = calibrated /\ measured' = measured
      /\ rows' = rows /\ interruptions' = interruptions
  BY DEF Timed, NewBatch, Benching
<1>2. CountersInv /\ BatchInv /\ BestInv /\ CalibratedInv /\ BufInv
      /\ RowsInv /\ ResultsInv
  BY DEF IInv
<1>3. /\ which \in 1 .. 13 /\ el \in Nat /\ reps \in 1 .. REPS_CAP
      /\ REPS_CAP \in Nat /\ b \in 0 .. BATCHES /\ BATCHES \in Nat
      /\ best \in Nat \cup {Infinity}
  BY <1>2, Constants DEF CountersInv
<1>4. T \in Nat /\ reps * T \in Nat
  <2>1. T \in Nat /\ reps \in Nat
    BY <1>3, OpTimes DEF Op
  <2> QED
    BY <2>1
<1>5. CallTime(Op') = T /\ Op' = Op /\ Benching'
  BY <1>1 DEF Op, Benching
<1> HIDE DEF T
<1>6. el >= reps * T /\ (~disturbed => el = reps * T) /\ REPS_CAP % reps = 0
  BY <1>1, <1>2 DEF BatchInv, T
<1>7. /\ b = 0 => best = Infinity /\ ~clean
      /\ b > 0 => best \in Nat /\ best >= reps * T
      /\ clean => best = reps * T
  BY <1>1, <1>2 DEF BestInv, T
(* The minimum of the batches: no less than the calls of one, and exactly  *)
(* that as soon as one was not interrupted.                                *)
<1>8. /\ best' \in Nat /\ best' >= reps * T
      /\ clean' => best' = reps * T
  <2>1. CASE b = 0
    <3>1. best' = el /\ (clean' <=> ~disturbed)
      BY <1>1, <1>7, <2>1 DEF Fastest
    <3> QED
      BY <1>3, <1>6, <3>1
  <2>2. CASE b > 0
    <3>1. best \in Nat /\ best # Infinity
      BY <1>7, <2>2 DEF Infinity
    <3>2. best' = IF el < best THEN el ELSE best
      BY <1>1, <3>1 DEF Fastest
    <3>3. best' \in Nat /\ best' >= reps * T
      BY <1>3, <1>4, <1>6, <1>7, <2>2, <3>1, <3>2
    <3>4. clean => best' = reps * T
      BY <1>3, <1>4, <1>6, <1>7, <3>1, <3>2
    <3>5. ~disturbed => best' = reps * T
      BY <1>3, <1>4, <1>6, <1>7, <2>2, <3>1, <3>2
    <3> QED
      BY <1>1, <3>3, <3>4, <3>5, Zenon
  <2> QED
    BY <1>3, <2>1, <2>2
<1>9. b' \in 1 .. BATCHES
  BY <1>1, <1>3
<1>10. CountersInv'
  <2>1. disturbed' \in BOOLEAN /\ clean' \in BOOLEAN
    BY <1>1, Zenon
  <2>2. i' \in 0 .. reps' /\ el' \in Nat /\ b' \in 0 .. BATCHES
    BY <1>1, <1>3, <1>9
  <2> QED
    BY <1>1, <1>2, <1>8, <2>1, <2>2 DEF CountersInv
<1>11. RowsInv' /\ ResultsInv' /\ CalibratedInv'
  <2>1. CallTime(Op') = CallTime(Op)
    BY <1>5 DEF T
  <2> QED
    BY <1>1, <1>2, <1>5, <2>1, Zenon DEF RowsInv, ResultsInv, CalibratedInv
<1>12. BatchInv'
  <2>1. 0 * T = 0
    BY <1>4
  <2> QED
    BY <1>1, <1>5, <1>6, <2>1 DEF BatchInv
<1>13. BestInv'
  <2>1. b' # 0 /\ phase' # "calibrate"
    BY <1>1, <1>9
  <2> QED
    BY <1>1, <1>5, <1>8, <2>1 DEF BestInv
<1>14. BufInv'
  BY <1>1, <1>2, <1>5 DEF BufInv
<1> QED
  BY <1>10, <1>11, <1>12, <1>13, <1>14 DEF IInv

(***************************************************************************)
(* The result of an operation is appended, and the next one begins.        *)
(***************************************************************************)
LEMMA Appended ==
  ASSUME NEW S, NEW s \in Seq(S), NEW e \in S
  PROVE  /\ Append(s, e) \in Seq(S) /\ Len(Append(s, e)) = Len(s) + 1
         /\ Len(s) \in Nat /\ DOMAIN s = 1 .. Len(s)
         /\ \A j \in DOMAIN Append(s, e) :
              \/ j \in DOMAIN s /\ Append(s, e)[j] = s[j]
              \/ j = Len(s) + 1 /\ Append(s, e)[j] = e
OBVIOUS

LEMMA SeqFacts == ASSUME NEW S, NEW s \in Seq(S)
                  PROVE  /\ Len(s) \in Nat /\ DOMAIN s = 1 .. Len(s)
                         /\ \A j \in DOMAIN s : s[j] \in S
OBVIOUS

LEMMA BenchReturnsKeeps == ASSUME IInv, BenchReturns
                           PROVE  IInv'
<1> DEFINE T == CallTime(Op)
           new == Append(measured, Returned)
<1>1. /\ phase = "timed" /\ b = BATCHES /\ Benching /\ measured' = new
      /\ IF which < 13 THEN which' = which + 1 /\ phase' = "calibrate"
                       ELSE which' = which /\ phase' = "row"
      /\ reps' = 1 /\ b' = 0 /\ best' = Infinity /\ clean' = FALSE
      /\ calibrated' = FALSE /\ i' = 0 /\ el' = 0 /\ disturbed' = FALSE
      /\ logn' = logn /\ buf' = buf /\ rows' = rows
      /\ interruptions' = interruptions
  BY OpsTable DEF BenchReturns, StartBench, NewBatch, Benching
<1> HIDE DEF new
<1>2. CountersInv /\ BatchInv /\ BestInv /\ CalibratedInv /\ BufInv
      /\ RowsInv /\ ResultsInv
  BY DEF IInv
<1>3. /\ which \in 1 .. 13 /\ reps \in 1 .. REPS_CAP /\ REPS_CAP \in Nat
      /\ BATCHES \in Nat \ {0} /\ clean \in BOOLEAN
  BY <1>2, Constants DEF CountersInv
<1>4. T \in Nat /\ REPS_CAP % reps = 0
  BY <1>1, <1>2, <1>3, OpTimes DEF Op, BatchInv
<1>5. best \in Nat /\ best >= reps * T /\ (clean => best = reps * T)
  BY <1>1, <1>2, <1>3 DEF BestInv
<1> HIDE DEF T
<1>6. /\ Returned \in Result /\ Returned.ns >= REPS_CAP * T
      /\ Returned.clean => Returned.ns = REPS_CAP * T
  <2> DEFINE ns == best * (REPS_CAP \div reps)
  <2>1. ns \in Nat /\ ns >= REPS_CAP * T /\ (best = reps * T => ns = REPS_CAP * T)
    BY <1>3, <1>4, <1>5, Scaled
  <2> HIDE DEF ns
  <2>2. Returned = [ns |-> ns, clean |-> clean]
    BY DEF Returned, ns
  <2> QED
    BY <1>3, <1>5, <2>1, <2>2 DEF Result
<1>7. /\ measured \in Seq(Result) /\ Len(measured) = which - 1
      /\ \A k \in DOMAIN measured :
           /\ measured[k].ns >= REPS_CAP * CallTime(Ops[k])
           /\ measured[k].clean => measured[k].ns = REPS_CAP * CallTime(Ops[k])
  BY <1>1, <1>2 DEF ResultsInv
<1>8. /\ new \in Seq(Result) /\ Len(new) = which
      /\ \A j \in DOMAIN new :
           \/ j \in DOMAIN measured /\ new[j] = measured[j]
           \/ j = which /\ new[j] = Returned
  <2>1. /\ new \in Seq(Result) /\ Len(new) = Len(measured) + 1
        /\ \A j \in DOMAIN new :
             \/ j \in DOMAIN measured /\ new[j] = measured[j]
             \/ j = Len(measured) + 1 /\ new[j] = Returned
    BY <1>6, <1>7, Appended DEF new
  <2>2. Len(measured) + 1 = which
    BY <1>3, <1>7
  <2> QED
    BY <2>1, <2>2
<1>9. /\ phase' = "calibrate" => which' = which + 1
      /\ phase' \in {"calibrate", "row"} /\ (phase' = "row" => which = 13)
      /\ which' \in 1 .. 13
  BY <1>1, <1>3
<1>10. ResultsInv'
  <2> DEFINE n == Len(measured')
  <2>1. n = which
    BY <1>1, <1>8
  <2> HIDE DEF n
  <2>2. Benching' => which' = which + 1
    BY <1>9 DEF Benching
  <2>3. Benching' => n = which' - 1
    BY <1>3, <2>1, <2>2
  <2>4. (phase' = "row" => n = 13) /\ n <= 13
    BY <1>3, <1>9, <2>1
  <2>5. ASSUME NEW k \in DOMAIN new
        PROVE  /\ new[k].ns >= REPS_CAP * CallTime(Ops[k])
               /\ new[k].clean => new[k].ns = REPS_CAP * CallTime(Ops[k])
    <3>1. CASE k \in DOMAIN measured /\ new[k] = measured[k]
      BY <1>7, <3>1
    <3>2. CASE k = which /\ new[k] = Returned
      <4>1. CallTime(Ops[k]) = T
        BY <3>2 DEF T, Op
      <4> QED
        BY <1>6, <3>2, <4>1
    <3> QED
      BY <1>8, <3>1, <3>2
  <2> QED
    BY <1>1, <1>8, <2>3, <2>4, <2>5 DEF ResultsInv, n
<1>11. CountersInv'
  <2>1. disturbed' \in BOOLEAN /\ clean' \in BOOLEAN /\ calibrated' \in BOOLEAN
    BY <1>1, Zenon
  <2>2. /\ reps' \in 1 .. REPS_CAP /\ i' \in 0 .. reps' /\ el' \in Nat
        /\ b' \in 0 .. BATCHES /\ best' \in Nat \cup {Infinity}
    BY <1>1, <1>3
  <2>3. phase' \in {"tables", "ctx_init", "calibrate", "timed", "row", "report",
                    "failed"}
    BY <1>9
  <2> QED
    BY <1>1, <1>2, <1>9, <2>1, <2>2, <2>3 DEF CountersInv
<1>12. RowsInv'
  BY <1>1, <1>2, <1>9 DEF RowsInv
<1>13. BatchInv'
  <2>1. CallTime(Op') \in Nat
    BY <1>9, OpTimes DEF Op
  <2>2. 0 * CallTime(Op') = 0 /\ REPS_CAP % 1 = 0
    BY <1>3, <2>1
  <2> QED
    BY <1>1, <2>2 DEF BatchInv
<1>14. BestInv' /\ CalibratedInv'
  BY <1>1, <1>9 DEF BestInv, CalibratedInv
<1>15. BufInv'
  BY <1>1, <1>2 DEF BufInv
<1> QED
  BY <1>10, <1>11, <1>12, <1>13, <1>14, <1>15 DEF IInv

(***************************************************************************)
(* The figures of a row: each is a result less that of its baseline.       *)
(***************************************************************************)
LEMMA FigureTyped == ASSUME ResultsInv, phase = "row", NEW k \in Figures
                     PROVE  Figure(k) \in Int
<1>1. k \in 5 .. 13 /\ k \in 1 .. 13
  BY OpsTable DEF Figures
<1>2. \A j \in 1 .. 13 : measured[j].ns \in Int
  <2>1. measured \in Seq(Result) /\ Len(measured) = 13
    BY DEF ResultsInv
  <2>2. \A j \in DOMAIN measured : measured[j] \in Result
    BY <2>1, SeqFacts
  <2>3. DOMAIN measured = 1 .. 13
    BY <2>1, SeqFacts
  <2> QED
    BY <2>2, <2>3 DEF Result
<1>3. CASE Ops[k].kind = "schoolbook"
  BY <1>1, <1>2, <1>3 DEF Figure
<1>4. CASE Ops[k].kind # "schoolbook"
  <2>1. k \in 5 .. 12
    <3>1. k # 13
      BY <1>4, OpsTable DEF Body
    <3> QED
      BY <1>1, <3>1
  <2>2. Baseline(Ops[k]) \in 1 .. 13
    BY <2>1, Baselines
  <2>3. measured[k].ns - measured[Baseline(Ops[k])].ns \in Int
    <3>1. measured[k].ns \in Int /\ measured[Baseline(Ops[k])].ns \in Int
      BY <1>1, <1>2, <2>2
    <3>2. \A x, y \in Int : x - y \in Int
      OBVIOUS
    <3> QED
      BY <3>1, <3>2
  <2> QED
    BY <1>4, <2>3 DEF Figure, nonneg
<1> QED
  BY <1>3, <1>4

LEMMA RowKeeps == ASSUME IInv, Row
                  PROVE  IInv'
<1> DEFINE r == [k \in Figures |-> Figure(k)]
<1>1. /\ phase = "row" /\ rows' = Append(rows, r) /\ buf' = NoContext
      /\ IF logn < MAX_LOGN THEN logn' = logn + 1 /\ phase' = "ctx_init"
                            ELSE logn' = logn /\ phase' = "report"
      /\ which' = which /\ i' = i /\ el' = el /\ disturbed' = disturbed
      /\ reps' = reps /\ b' = b /\ best' = best /\ clean' = clean
      /\ calibrated' = calibrated /\ measured' = measured
      /\ interruptions' = interruptions
  BY DEF Row, batch, bench
<1>2. CountersInv /\ ResultsInv /\ RowsInv
  BY DEF IInv
<1>3. r \in [Figures -> Int]
  BY <1>1, <1>2, FigureTyped
<1> HIDE DEF r
<1>4. logn \in 1 .. MAX_LOGN /\ MAX_LOGN \in Nat
  BY <1>2, Constants DEF CountersInv
<1>5. phase' \in {"ctx_init", "report"} /\ logn' \in 1 .. MAX_LOGN
  BY <1>1, <1>4
<1>6. CountersInv'
  BY <1>1, <1>2, <1>5 DEF CountersInv
<1>7. RowsInv'
  <2>1. rows \in Seq([Figures -> Int]) /\ Len(rows) = logn - 1
    BY <1>1, <1>2 DEF RowsInv
  <2>2. rows' \in Seq([Figures -> Int]) /\ Len(rows') = Len(rows) + 1
    BY <1>1, <1>3, <2>1, Appended
  <2>3. Len(rows') = logn
    BY <1>4, <2>1, <2>2
  <2>4. logn = IF phase' = "report" THEN logn' ELSE logn' - 1
    BY <1>1, <1>4
  <2> QED
    BY <2>2, <2>3, <2>4 DEF RowsInv
<1>8. ~Benching' /\ phase' # "row" /\ phase' # "timed"
  BY <1>5 DEF Benching
<1>9. ResultsInv'
  BY <1>1, <1>2, <1>8, Zenon DEF ResultsInv
<1>10. BatchInv' /\ BestInv' /\ CalibratedInv'
  BY <1>8 DEF BatchInv, BestInv, CalibratedInv
<1>11. BufInv'
  BY <1>1, <1>8, BufTyped DEF BufInv
<1> QED
  BY <1>6, <1>7, <1>9, <1>10, <1>11 DEF IInv

LEMMA StutterKeeps == ASSUME IInv, UNCHANGED vars
                      PROVE  IInv'
<1>1. /\ logn' = logn /\ phase' = phase /\ which' = which /\ buf' = buf
      /\ i' = i /\ el' = el /\ disturbed' = disturbed /\ reps' = reps /\ b' = b
      /\ best' = best /\ clean' = clean /\ calibrated' = calibrated
      /\ measured' = measured /\ rows' = rows /\ interruptions' = interruptions
  BY DEF vars, batch, bench
<1>2. Op' = Op /\ (Benching' <=> Benching) /\ CallTime(Op') = CallTime(Op)
  BY <1>1 DEF Op, Benching
<1>3. CountersInv' /\ RowsInv'
  BY <1>1, Zenon DEF IInv, CountersInv, RowsInv
<1>4. ResultsInv'
  BY <1>1, <1>2, Zenon DEF IInv, ResultsInv
<1>5. BatchInv' /\ BestInv' /\ CalibratedInv'
  BY <1>1, <1>2, Zenon DEF IInv, BatchInv, BestInv, CalibratedInv
<1>6. BufInv'
  BY <1>1, <1>2, Zenon DEF IInv, BufInv
<1> QED
  BY <1>3, <1>4, <1>5, <1>6 DEF IInv

LEMMA NextInv == IInv /\ [Next]_vars => IInv'
BY BuildTablesKeeps, CtxInitKeeps, CallKeeps, CalibrateKeeps, TimedKeeps,
   BenchReturnsKeeps, RowKeeps, StutterKeeps, Zenon DEF Next, Ended

LEMMA Invariant == Spec => []IInv
BY InitInv, NextInv, PTL DEF Spec

-----------------------------------------------------------------------------
LEMMA Typed == IInv => TypeOK
<1> SUFFICES ASSUME IInv
             PROVE  TypeOK
  OBVIOUS
<1>1. CountersInv /\ ResultsInv /\ RowsInv /\ BufInv
  BY DEF IInv
<1>2. {disturbed, clean, calibrated} \subseteq BOOLEAN
  BY <1>1, Zenon DEF CountersInv
<1>3. \A k \in DOMAIN measured : measured[k] \in [ns : Nat, clean : BOOLEAN]
  BY <1>1, SeqFacts DEF ResultsInv, Result
<1>4. Len(rows) <= MAX_LOGN
  <2>1. logn \in 1 .. MAX_LOGN /\ MAX_LOGN \in Nat
    BY <1>1, Constants DEF CountersInv
  <2>2. Len(rows) \in {logn, logn - 1}
    BY <1>1 DEF RowsInv
  <2> QED
    BY <2>1, <2>2
<1>5. buf \in [Libs -> [BufferNames -> Contents]]
  <2>1. buf \in [Libs -> [BufferNames -> Contents \ {"garbage"}]]
    BY <1>1 DEF BufInv
  <2> QED
    BY <2>1
<1>6. Len(Ops) = 13
  BY OpsTable
<1> QED
  BY <1>1, <1>2, <1>3, <1>4, <1>5, <1>6 DEF TypeOK, CountersInv, ResultsInv

(***************************************************************************)
(* bench repeats an operation as often as calibration asks: every call     *)
(* finds its operands as the first one did, whatever it is that is called. *)
(***************************************************************************)
THEOREM OperandsAreRestored == Spec => []OperandsRestored
<1>1. IInv => OperandsRestored
  <2> SUFFICES ASSUME IInv
               PROVE  OperandsRestored
    OBVIOUS
  <2>1. TypeOK
    BY Typed
  <2>2. /\ buf \in [Libs -> [BufferNames -> Contents \ {"garbage"}]]
        /\ Benching => \A l \in Libs : Filled(buf[l])
        /\ Benching /\ i > 0 => buf[Op.lib]["wa"] = Left(Op.kind, buf[Op.lib])
    BY DEF IInv, BufInv
  <2>3. \A l \in Libs, x \in BufferNames : buf[l][x] # "garbage"
    BY <2>2
  <2>4. Benching =>
          \A l \in Libs : /\ \A x \in {"src_a", "src_b"} : buf[l][x] = "time"
                          /\ \A x \in {"tr_a", "tr_b"} : buf[l][x] = "fft"
    BY <2>2 DEF Filled
  <2> QED
    BY <2>1, <2>2, <2>3, <2>4, Zenon DEF OperandsRestored, Benching, Left
<1> QED
  BY <1>1, Invariant, PTL

(***************************************************************************)
(* The header's argument for the minimum of several batches, for any       *)
(* costs and any interruptions; and calibration keeps what it promises.    *)
(***************************************************************************)
LEMMA FiguresFiltered == IInv => NoiseFiltered
<1> SUFFICES ASSUME IInv, phase = "row", NEW k \in Figures
             PROVE  LET base == IF Ops[k].kind = "schoolbook" THEN k
                                ELSE Baseline(Ops[k])
                        cost == TrueCost(Ops[k]) * REPS_CAP
                    IN  /\ measured[base].clean => Figure(k) >= cost
                        /\ measured[k].clean => Figure(k) <= cost
  BY DEF NoiseFiltered
<1> DEFINE C == TrueCost(Ops[k])
<1>1. k \in 5 .. 13 /\ k \in 1 .. 13 /\ REPS_CAP \in Nat
  BY OpsTable, Constants DEF Figures
<1>2. C \in Nat
  BY <1>1, OpTimes
<1>3. \A j \in 1 .. 13 :
        /\ measured[j].ns \in Nat
        /\ measured[j].ns >= REPS_CAP * CallTime(Ops[j])
        /\ measured[j].clean => measured[j].ns = REPS_CAP * CallTime(Ops[j])
  <2>1. /\ measured \in Seq(Result) /\ Len(measured) = 13
        /\ \A j \in DOMAIN measured :
             /\ measured[j].ns >= REPS_CAP * CallTime(Ops[j])
             /\ measured[j].clean => measured[j].ns = REPS_CAP * CallTime(Ops[j])
    BY DEF IInv, ResultsInv
  <2>2. DOMAIN measured = 1 .. 13 /\ \A j \in DOMAIN measured : measured[j] \in Result
    BY <2>1, SeqFacts
  <2> QED
    BY <2>1, <2>2 DEF Result
<1> HIDE DEF C
<1>4. CASE Ops[k].kind = "schoolbook"
  <2>1. CallTime(Ops[k]) = C
    <3>1. CopiesOf(Ops[k].kind) = 0
      BY <1>4 DEF CopiesOf
    <3>2. 0 * CopyCost + C = C
      BY <1>2, Constants
    <3> QED
      BY <3>1, <3>2 DEF CallTime, C
  <2>2. Figure(k) = measured[k].ns
    BY <1>4 DEF Figure
  <2>3. C * REPS_CAP = REPS_CAP * C /\ C * REPS_CAP \in Nat
    BY <1>1, <1>2
  <2>4. measured[k].clean => Figure(k) >= C * REPS_CAP /\ Figure(k) <= C * REPS_CAP
    BY <1>1, <1>3, <2>1, <2>2, <2>3
  <2> QED
    BY <1>4, <2>4 DEF C
<1>5. CASE Ops[k].kind # "schoolbook"
  <2> DEFINE m == Baseline(Ops[k])
             B == CallTime(Ops[m])
  <2>1. k \in 5 .. 12
    <3>1. k # 13
      BY <1>5, OpsTable DEF Body
    <3> QED
      BY <1>1, <3>1
  <2>2. m \in 1 .. 13 /\ CallTime(Ops[k]) = B + C
    BY <2>1, Baselines DEF C
  <2>3. B \in Nat
    BY <2>2, OpTimes
  <2>4. Figure(k) = nonneg(measured[k].ns - measured[m].ns)
    BY <1>5 DEF Figure
  <2> HIDE DEF m, B
  <2>5. /\ REPS_CAP * (B + C) = REPS_CAP * B + C * REPS_CAP
        /\ REPS_CAP * B \in Nat /\ C * REPS_CAP \in Nat
    BY <1>1, <1>2, <2>3
  <2>6. \A x, y, u, v \in Nat :
          /\ x >= u + v /\ y = u => nonneg(x - y) >= v
          /\ x = u + v /\ y >= u => nonneg(x - y) <= v
    BY DEF nonneg
  <2>7. /\ measured[k].ns \in Nat /\ measured[m].ns \in Nat
        /\ measured[k].ns >= REPS_CAP * B + C * REPS_CAP
        /\ measured[k].clean => measured[k].ns = REPS_CAP * B + C * REPS_CAP
    BY <1>1, <1>3, <2>2, <2>5
  <2>8. /\ measured[m].ns >= REPS_CAP * B
        /\ measured[m].clean => measured[m].ns = REPS_CAP * B
    BY <1>3, <2>2 DEF B
  <2>9. /\ measured[m].clean => Figure(k) >= C * REPS_CAP
        /\ measured[k].clean => Figure(k) <= C * REPS_CAP
    <3> DEFINE x == measured[k].ns
               y == measured[m].ns
               u == REPS_CAP * B
               v == C * REPS_CAP
    <3>1. x \in Nat /\ y \in Nat /\ u \in Nat /\ v \in Nat
      BY <2>5, <2>7
    <3>2. /\ x >= u + v /\ y = u => nonneg(x - y) >= v
          /\ x = u + v /\ y >= u => nonneg(x - y) <= v
      BY <2>6, <3>1
    <3>3. /\ x >= u + v /\ y >= u
          /\ measured[k].clean => x = u + v
          /\ measured[m].clean => y = u
      BY <2>7, <2>8
    <3> HIDE DEF x, y, u, v
    <3>4. /\ measured[m].clean => nonneg(x - y) >= v
          /\ measured[k].clean => nonneg(x - y) <= v
      BY <3>2, <3>3
    <3> QED
      BY <2>4, <3>4 DEF x, y, v
  <2> QED
    BY <1>5, <2>9 DEF C, m
<1> QED
  BY <1>4, <1>5

THEOREM NoiseIsFiltered == Spec => []Measured
<1>1. IInv => CalibrationHolds
  <2> SUFFICES ASSUME IInv, phase = "timed", calibrated, i = reps, reps < REPS_CAP
               PROVE  el >= MIN_BATCH
    BY DEF CalibrationHolds
  <2>1. Benching
    BY DEF Benching
  <2>2. el >= reps * CallTime(Op)
    BY <2>1 DEF IInv, BatchInv
  <2>3. reps \in Nat /\ el \in Nat /\ REPS_CAP \in Nat /\ MIN_BATCH \in Nat
    BY Constants DEF IInv, CountersInv
  <2>4. reps * CallTime(Op) >= MIN_BATCH
    BY <2>3 DEF IInv, CalibratedInv
  <2>5. reps * CallTime(Op) \in Nat
    <3>1. CallTime(Op) \in Nat
      BY OpTimes DEF IInv, CountersInv, Op
    <3>2. \A x, y \in Nat : x * y \in Nat
      OBVIOUS
    <3> QED
      BY <2>3, <3>1, <3>2
  <2> QED
    BY <2>2, <2>3, <2>4, <2>5
<1>2. IInv => Measured
  BY <1>1, FiguresFiltered DEF Measured
<1> QED
  BY <1>2, Invariant, PTL

=============================================================================

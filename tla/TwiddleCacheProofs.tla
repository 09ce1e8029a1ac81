------------------------- MODULE TwiddleCacheProofs -------------------------
(***************************************************************************)
(* Theorems about TwiddleCache, for any number of supported sizes and any  *)
(* heap: who owns which block, that nothing undefined happens, what a      *)
(* caller can count on, and that the contract of CacheSpec is kept.        *)
(***************************************************************************)
EXTENDS TwiddleCache, FiniteSetTheorems, TLAPS

Sizes == 0 .. MYFFT_MAX_LOGN

Ptr(l, x) == tabs[l].ptr[x]

(* TypeOK in three parts, as different provers see to them.                *)
HeapType ==
  /\ tabs \in [0 .. MYFFT_MAX_LOGN ->
                [ptr : [ArrayNames -> Address \cup {NULL}],
                 bytes : Nat, ready : BOOLEAN]]
  /\ Live \subseteq Address /\ heap \in [Live -> Nat]
  /\ filled \subseteq Live
  /\ scratch \in Address \cup {NULL}

FlagType == fault \in BOOLEAN /\ ok \in BOOLEAN /\ prepared \in BOOLEAN

FlowType ==
  /\ call \in {"none", "my_fft_init", "my_fft_free", "my_FFT", "my_iFFT",
               "my_poly_mul"}
  /\ logn \in Logn
  /\ pc \in {"idle", "my_fft_init", "malloc", "check", "fill", "my_fft_free",
             "my_FFT(out)", "my_FFT(tmp)", "my_iFFT(out)", "malloc(tmp)",
             "my_poly_mul_fft", "free(tmp)", "return"}
  /\ next \in 1 .. 4
  /\ ret \in {"idle", "return", "my_FFT(out)", "my_FFT(tmp)", "my_iFFT(out)"}
  /\ out \in Content /\ tmp \in Content

(***************************************************************************)
(* The heap.  Every pointer of a table is NULL or points to a live block   *)
(* of the size the array needs that nothing else points to, and every live *)
(* block has its pointer.                                                  *)
(***************************************************************************)
Owned(l, x) ==
  Ptr(l, x) # NULL =>
    /\ Ptr(l, x) \in Live
    /\ heap[Ptr(l, x)] = Allocated(x, l) * SizeofDouble
    /\ Ptr(l, x) # scratch
    /\ \A k \in Sizes, y \in ArrayNames :
         Ptr(k, y) = Ptr(l, x) => k = l /\ y = x

HeapInv ==
  /\ \A l \in Sizes, x \in ArrayNames : Owned(l, x)
  /\ scratch # NULL => scratch \in Live
  /\ \A p \in Live :
       p = scratch \/ \E l \in Sizes, x \in ArrayNames : p = Ptr(l, x)

(***************************************************************************)
(* The tables.  One that is ready has all its arrays, filled; any other is *)
(* empty, unless my_fft_init is at work on it.                             *)
(***************************************************************************)
Building == pc \in {"malloc", "check", "fill"}

Complete(l) == \A x \in ArrayNames : Ptr(l, x) # NULL

TableInv ==
  \A l \in Sizes :
    /\ tabs[l].ready =>
         /\ l >= 1 /\ Complete(l)
         /\ \A x \in ArrayNames : Ptr(l, x) \in filled
    /\ ~tabs[l].ready /\ ~(Building /\ l = logn) =>
         \A x \in ArrayNames : Ptr(l, x) = NULL

(***************************************************************************)
(* Where the program is.  my_fft_init works on a table that is not ready   *)
(* and has no pointer to lose; a transform that goes on has its table; the *)
(* scratch array exists only within my_poly_mul.                           *)
(***************************************************************************)
Transforms == {"my_FFT(out)", "my_FFT(tmp)", "my_iFFT(out)"}

Initialising == Building \/ pc = "my_fft_init"

UsesScratch ==
  /\ call = "my_poly_mul"
  /\ \/ Initialising /\ ret \in Transforms
     \/ pc \in Transforms \cup {"my_poly_mul_fft", "free(tmp)"}

TableReady == Supported(logn) /\ tabs[logn].ready

ControlInv ==
  /\ Building => Supported(logn) /\ ~tabs[logn].ready
  /\ pc = "malloc" => \A i \in next .. 4 : Ptr(logn, Arrays[i]) = NULL
  /\ pc = "fill" => Complete(logn)
  /\ pc \in Transforms /\ ok => TableReady
  /\ scratch # NULL => UsesScratch
  /\ pc = "malloc(tmp)" => call = "my_poly_mul"
  /\ pc = "my_fft_free" => call = "my_fft_free"

IInv ==
  /\ HeapType /\ FlagType /\ FlowType
  /\ ~fault /\ HeapInv /\ TableInv /\ ControlInv

(***************************************************************************)
(* The domains of the buffers.  In my_poly_mul the caller's buffer is in   *)
(* the FFT domain only while its table is there; tables that were there at *)
(* the call are there until it returns.                                    *)
(***************************************************************************)
HeadingFor(p) == pc = p \/ (Initialising /\ ret = p)

MulInv ==
  call = "my_poly_mul" =>
    /\ pc \in {"malloc(tmp)", "my_poly_mul_fft", "free(tmp)", "return"}
         \cup Transforms \/ (Initialising /\ ret \in Transforms)
    /\ pc = "malloc(tmp)" => out = "stale"
    /\ HeadingFor("my_FFT(out)") => out = "time" /\ tmp = "time"
    /\ HeadingFor("my_FFT(tmp)") => out \in {"time", "fft"} /\ tmp = "time"
    /\ pc = "my_poly_mul_fft" =>
         out \in {"time", "fft"} /\ (out = "fft" => tmp = "fft")
    /\ HeadingFor("my_iFFT(out)") => out \in {"time", "product_fft", "garbage"}
    /\ pc = "free(tmp)" \/ pc = "return" =>
         out \in {"stale", "time", "product", "garbage"}
    /\ out \in {"fft", "product_fft"} => TableReady
    /\ out \in {"fft", "product_fft"} /\ pc \in Transforms => ok

(* Tables that were ready at the call are ready until it returns, so that  *)
(* every my_fft_init on the way succeeds and every buffer gets its domain. *)
PreparedInv ==
  prepared /\ pc # "idle" =>
    /\ TableReady /\ ~Building /\ (pc \in Transforms => ok)
    /\ call \in {"my_fft_init", "my_FFT", "my_iFFT", "my_poly_mul"}
    /\ call = "my_fft_init" =>
         /\ out = "stale"
         /\ (pc = "my_fft_init" /\ ret = "return") \/ pc = "return"
    /\ call = "my_FFT" =>
         \/ HeadingFor("my_FFT(out)") /\ out = "time"
         \/ pc = "return" /\ out = "fft"
    /\ call = "my_iFFT" =>
         \/ HeadingFor("my_iFFT(out)") /\ out = "fft"
         \/ pc = "return" /\ out = "time"
    /\ call = "my_poly_mul" =>
         \/ pc = "malloc(tmp)" /\ out = "stale"
         \/ HeadingFor("my_FFT(out)") /\ out = "time" /\ tmp = "time"
         \/ HeadingFor("my_FFT(tmp)") /\ out = "fft" /\ tmp = "time"
         \/ pc = "my_poly_mul_fft" /\ out = "fft" /\ tmp = "fft"
         \/ HeadingFor("my_iFFT(out)") /\ out = "product_fft"
         \/ pc = "free(tmp)" /\ out = "product"
         \/ pc = "return" /\ out \in {"stale", "product"}

-----------------------------------------------------------------------------
(* Allocator: what malloc returns is new.                                  *)
LEMMA FreshIsNew ==
  ASSUME CanMalloc
  PROVE  Fresh \in Address /\ Fresh \notin Live /\ Fresh # NULL
<1>1. \E x \in Address : x \notin Live
  BY DEF CanMalloc
<1>2. Fresh \in Address /\ Fresh \notin Live
  BY <1>1 DEF Fresh
<1> QED
  BY <1>2, CacheAssumption

LEMMA AllocatedFacts ==
  ASSUME NEW l \in Logn, NEW x \in ArrayNames
  PROVE  /\ Allocated(x, l) \in Nat /\ Used(x, l) \in Nat
         /\ Used(x, l) <= Allocated(x, l)
<1>1. Pow2[l] \in Nat
  BY CacheAssumption
<1>2. hn(l) \in Nat /\ hw(l) \in Nat
  BY <1>1 DEF hn, hw
<1> QED
  BY <1>2 DEF Allocated, Used

LEMMA ArraysFacts ==
  /\ \A i \in 1 .. 4 : Arrays[i] \in ArrayNames
  /\ \A i, k \in 1 .. 4 : Arrays[i] = Arrays[k] => i = k
  /\ \A x \in ArrayNames : \E i \in 1 .. 4 : Arrays[i] = x
<1>1. /\ Arrays[1] = "tw_re" /\ Arrays[2] = "tw_im"
      /\ Arrays[3] = "w_re" /\ Arrays[4] = "w_im"
  BY DEF Arrays
<1>2. \A i \in 1 .. 4 : i = 1 \/ i = 2 \/ i = 3 \/ i = 4
  OBVIOUS
<1> QED
  BY <1>1, <1>2 DEF ArrayNames

(* Steps that leave the heap and its pointers alone.                       *)
LEMMA HeapKept ==
  ASSUME HeapInv, UNCHANGED <<tabs, heap, scratch>>
  PROVE  HeapInv'
BY DEF HeapInv, Owned, Ptr, Live

LEMMA TableKept ==
  ASSUME TableInv, ~Building, UNCHANGED <<tabs, filled>>
  PROVE  TableInv'
BY DEF TableInv, Complete, Ptr

-----------------------------------------------------------------------------
LEMMA InitIInv == Init => IInv
<1> SUFFICES ASSUME Init PROVE IInv
  OBVIOUS
<1>1. 0 \in Logn /\ \A l \in Sizes : tabs[l] = EmptyTab
  BY CacheAssumption DEF Init, Logn, Sizes
<1>2. \A l \in Sizes, x \in ArrayNames : Ptr(l, x) = NULL
  BY <1>1 DEF Ptr, EmptyTab
<1>3. Live = {}
  BY DEF Init, Live
<1>4. HeapInv
  BY <1>2, <1>3 DEF HeapInv, Owned, Init
<1>5. TableInv
  BY <1>1, <1>2 DEF TableInv, EmptyTab
<1>6. ControlInv
  BY DEF ControlInv, Building, Transforms, Init
<1>7. HeapType
  <2>1. EmptyTab \in [ptr : [ArrayNames -> Address \cup {NULL}],
                      bytes : Nat, ready : BOOLEAN]
    BY DEF EmptyTab
  <2>2. heap \in [Live -> Nat]
    BY <1>3 DEF Init
  <2> QED
    BY <1>3, <2>1, <2>2 DEF HeapType, Init
<1>8. FlagType
  BY DEF FlagType, Init
<1>9. FlowType
  BY <1>1 DEF FlowType, Init, Content
<1> QED
  BY <1>4, <1>5, <1>6, <1>7, <1>8, <1>9 DEF IInv, Init

-----------------------------------------------------------------------------
(* Steps that do not touch the heap, the tables or the scratch array.      *)
LEMMA ContentFacts ==
  ASSUME NEW f \in Content, NEW from, NEW to \in Content
  PROVE  Transform(f, from, to) \in Content
BY DEF Transform, Content

(* A table the code reads is there, filled and long enough.                *)
LEMMA ReadableTables ==
  ASSUME IInv, pc \in Transforms, ok
  PROVE  Readable(logn)
<1>1. logn \in Sizes /\ logn \in Logn /\ tabs[logn].ready
  BY DEF IInv, ControlInv, TableReady, Supported, Sizes, FlowType
<1>2. \A x \in ArrayNames : Ptr(logn, x) # NULL /\ Ptr(logn, x) \in filled
  BY <1>1 DEF IInv, TableInv, Complete
<1>3. SUFFICES ASSUME NEW x \in ArrayNames PROVE Holds(logn, x)
  BY <1>2 DEF Readable, Ptr
<1>4. /\ Ptr(logn, x) \in Live
      /\ heap[Ptr(logn, x)] = Allocated(x, logn) * SizeofDouble
  BY <1>1, <1>2 DEF IInv, HeapInv, Owned
<1>5. /\ Allocated(x, logn) \in Nat /\ Used(x, logn) \in Nat
      /\ Used(x, logn) <= Allocated(x, logn)
  BY <1>1, AllocatedFacts
<1>6. Allocated(x, logn) * SizeofDouble >= Used(x, logn) * SizeofDouble
  BY <1>5 DEF SizeofDouble
<1> QED
  BY <1>4, <1>6 DEF Holds, Ptr

LEMMA InitCheckReadyKeeps ==
  ASSUME IInv, InitCheckReady
  PROVE  IInv'
<1>1. /\ pc = "my_fft_init" /\ ~Building /\ UNCHANGED <<tabs, heap, filled, fault>>
      /\ UNCHANGED <<call, logn, prepared, ret, out, tmp, scratch>>
  BY DEF InitCheckReady, Building, calling, buffers
<1>2. HeapInv' /\ TableInv'
  BY <1>1, HeapKept, TableKept DEF IInv
<1>3. \/ ok' = FALSE /\ pc' = ret /\ next' = next
      \/ Supported(logn) /\ tabs[logn].ready /\ ok' = TRUE /\ pc' = ret /\ next' = next
      \/ Supported(logn) /\ ~tabs[logn].ready /\ pc' = "malloc" /\ next' = 1 /\ ok' = ok
  BY DEF InitCheckReady, ReturnInit
<1>4. HeapType' /\ FlagType' /\ FlowType'
  <2>1. HeapType'
    BY <1>1 DEF IInv, HeapType, Live
  <2>2. FlagType'
    BY <1>1, <1>3 DEF IInv, FlagType
  <2>3. FlowType'
    BY <1>1, <1>3 DEF IInv, FlowType
  <2> QED
    BY <2>1, <2>2, <2>3
<1>5. ControlInv'
  <2>1. ret \in {"idle", "return"} \cup Transforms
    BY DEF IInv, FlowType, Transforms
  <2>2. scratch # NULL => call = "my_poly_mul" /\ ret \in Transforms
    BY <1>1 DEF IInv, ControlInv, UsesScratch, Transforms
  <2>3. CASE pc' = ret
    BY <1>1, <1>3, <2>1, <2>2, <2>3
    DEF ControlInv, Building, TableReady, Supported, UsesScratch, Transforms
  <2>4. CASE pc' = "malloc"
    <3>1. Supported(logn) /\ ~tabs[logn].ready /\ next' = 1
      BY <1>3, <2>1, <2>4 DEF Transforms
    <3>2. logn \in Sizes
      BY <3>1 DEF Supported, Sizes
    <3>3. \A x \in ArrayNames : Ptr(logn, x) = NULL
      BY <1>1, <3>1, <3>2 DEF IInv, TableInv
    <3>4. \A i \in next' .. 4 : Ptr(logn, Arrays[i])' = NULL
      BY <1>1, <3>1, <3>3, ArraysFacts DEF Ptr
    <3>5. Supported(logn)' /\ ~(tabs[logn].ready)'
      BY <1>1, <3>1 DEF Supported
    <3>6. (scratch # NULL => UsesScratch)'
      BY <1>1, <2>2, <2>4 DEF UsesScratch, Initialising, Building
    <3> QED
      BY <2>4, <3>4, <3>5, <3>6 DEF ControlInv, Transforms
  <2> QED
    BY <1>3, <2>3, <2>4
<1> QED
  BY <1>1, <1>2, <1>4, <1>5 DEF IInv

LEMMA QuietKeeps ==
  ASSUME IInv, ~Building, ~Building', UNCHANGED <<tabs, heap, filled, scratch>>,
         FlagType', FlowType', ~fault',
         (pc \in Transforms /\ ok => TableReady)',
         (scratch # NULL => UsesScratch)',
         (pc = "malloc(tmp)" => call = "my_poly_mul")',
         (pc = "my_fft_free" => call = "my_fft_free")'
  PROVE  IInv'
<1>1. HeapInv' /\ TableInv'
  BY HeapKept, TableKept DEF IInv
<1>2. HeapType'
  BY DEF IInv, HeapType, Live
<1>3. ControlInv'
  BY DEF ControlInv, Building
<1> QED
  BY <1>1, <1>2, <1>3 DEF IInv

LEMMA TransformsKeep ==
  ASSUME IInv, ForwardOut \/ ForwardTmp \/ InverseOut
  PROVE  IInv'
<1>1. /\ pc \in Transforms /\ ReadTables
      /\ UNCHANGED <<tabs, heap, filled, scratch, call, logn, prepared, ok>>
      /\ next' = next
  BY DEF ForwardOut, ForwardTmp, InverseOut, Transforms, calling
<1>2. ~fault'
  BY <1>1, ReadableTables DEF ReadTables, IInv
<1>3. \/ pc' = "return" /\ ret' = ret /\ call # "my_poly_mul"
      \/ pc' = "my_fft_init" /\ ret' = "my_FFT(tmp)"
      \/ pc' \in {"my_poly_mul_fft", "free(tmp)"} /\ ret' = ret
      \/ pc' = "return" /\ ret' = ret /\ call = "my_iFFT"
  BY DEF ForwardOut, ForwardTmp, InverseOut, EnterInit
<1>4. out' \in Content /\ tmp' \in Content
  <2>1. out \in Content /\ tmp \in Content
    BY DEF IInv, FlowType
  <2>2. {"time", "fft", "product"} \subseteq Content
    BY DEF Content
  <2> QED
    BY <2>1, <2>2, ContentFacts DEF ForwardOut, ForwardTmp, InverseOut
<1>5. ~Building /\ ~Building'
  BY <1>1, <1>3 DEF Building, Transforms
<1>6. FlagType'
  <2>1. fault' \in BOOLEAN
    BY <1>1, Zenon DEF ReadTables
  <2> QED
    BY <1>1, <2>1 DEF FlagType, IInv
<1>7. FlowType'
  BY <1>1, <1>3, <1>4 DEF IInv, FlowType
<1>8. (pc \in Transforms /\ ok => TableReady)'
  BY <1>3 DEF Transforms
<1>9. (scratch # NULL => UsesScratch)'
  <2>1. scratch # NULL => call = "my_poly_mul"
    BY DEF IInv, ControlInv, UsesScratch
  <2> QED
    BY <1>1, <1>3, <2>1 DEF UsesScratch, Initialising, Transforms
<1>10. pc' # "malloc(tmp)" /\ pc' # "my_fft_free"
  BY <1>3
<1> QED
  BY <1>1, <1>2, <1>5, <1>6, <1>7, <1>8, <1>9, <1>10, QuietKeeps

LEMMA PolyMulFFTKeeps ==
  ASSUME IInv, PolyMulFFT
  PROVE  IInv'
<1>1. /\ pc = "my_poly_mul_fft" /\ pc' = "my_fft_init" /\ ret' = "my_iFFT(out)"
      /\ UNCHANGED <<tabs, heap, filled, scratch, fault, call, logn, prepared>>
      /\ UNCHANGED <<ok, next, tmp>>
  BY DEF PolyMulFFT, EnterInit, calling
<1>2. out' \in Content
  BY DEF PolyMulFFT, Content, IInv, FlowType
<1>3. ~Building /\ ~Building'
  BY <1>1 DEF Building
<1>4. FlagType'
  BY <1>1 DEF FlagType, IInv
<1>5. FlowType'
  BY <1>1, <1>2 DEF IInv, FlowType
<1>6. (scratch # NULL => UsesScratch)'
  BY <1>1 DEF IInv, ControlInv, UsesScratch, Initialising, Transforms
<1> QED
  BY <1>1, <1>3, <1>4, <1>5, <1>6, QuietKeeps DEF IInv, Transforms

LEMMA ReturnKeeps ==
  ASSUME IInv, Return
  PROVE  IInv'
<1>1. /\ pc = "return" /\ pc' = "idle" /\ call' = "none"
      /\ UNCHANGED <<tabs, heap, filled, scratch, fault, logn, prepared, ret>>
      /\ UNCHANGED <<ok, next, out, tmp>>
  BY DEF Return, buffers
<1>2. scratch = NULL
  BY <1>1 DEF IInv, ControlInv, UsesScratch, Initialising, Building, Transforms
<1>3. ~Building /\ ~Building'
  BY <1>1 DEF Building
<1>4. FlagType'
  BY <1>1 DEF FlagType, IInv
<1>5. FlowType'
  BY <1>1 DEF IInv, FlowType
<1> QED
  BY <1>1, <1>2, <1>3, <1>4, <1>5, QuietKeeps DEF IInv, Transforms

(* A call starts with no scratch array and in no transform.                *)
LEMMA StartKeeps ==
  ASSUME IInv, NEW f, NEW l \in Logn, Start(f, l),
         f \in {"my_fft_init", "my_fft_free", "my_FFT", "my_iFFT", "my_poly_mul"},
         pc' \in {"my_fft_init", "my_fft_free", "malloc(tmp)"},
         ret' \in {"idle", "return", "my_FFT(out)", "my_FFT(tmp)", "my_iFFT(out)"},
         pc' = "malloc(tmp)" => f = "my_poly_mul",
         pc' = "my_fft_free" => f = "my_fft_free",
         out' \in Content
  PROVE  IInv'
<1>1. /\ pc = "idle" /\ call' = f /\ logn' = l
      /\ UNCHANGED <<tabs, heap, filled, scratch, fault, ok, next, tmp>>
      /\ prepared' \in BOOLEAN
  <2>1. prepared' = (Supported(l) /\ tabs[l].ready)
    BY DEF Start
  <2>2. prepared' \in BOOLEAN
    BY <2>1, Zenon
  <2> QED
    BY <2>2 DEF Start
<1>2. scratch = NULL
  BY <1>1 DEF IInv, ControlInv, UsesScratch, Initialising, Building, Transforms
<1>3. ~Building /\ ~Building'
  BY <1>1 DEF Building
<1>4. FlagType'
  BY <1>1 DEF FlagType, IInv
<1>5. FlowType'
  BY <1>1 DEF IInv, FlowType
<1> QED
  BY <1>1, <1>2, <1>3, <1>4, <1>5, QuietKeeps DEF IInv, Transforms

LEMMA CallsKeep ==
  ASSUME IInv, Calls
  PROVE  IInv'
<1>1. {"stale", "time", "fft"} \subseteq Content /\ 0 \in Logn
  BY CacheAssumption DEF Content, Logn
<1>2. ret \in {"idle", "return", "my_FFT(out)", "my_FFT(tmp)", "my_iFFT(out)"}
  BY DEF IInv, FlowType
<1>3. CASE CallFree
  BY <1>1, <1>2, <1>3, StartKeeps DEF CallFree
<1>4. CASE \E l \in Logn : CallInit(l) \/ CallFFT(l) \/ CallIFFT(l) \/ CallMul(l)
  <2> PICK l \in Logn : CallInit(l) \/ CallFFT(l) \/ CallIFFT(l) \/ CallMul(l)
    BY <1>4
  <2>1. CASE CallInit(l)
    BY <1>1, <2>1, StartKeeps DEF CallInit, EnterInit
  <2>2. CASE CallFFT(l)
    BY <1>1, <2>2, StartKeeps DEF CallFFT, EnterInit
  <2>3. CASE CallIFFT(l)
    BY <1>1, <2>3, StartKeeps DEF CallIFFT, EnterInit
  <2>4. CASE CallMul(l)
    BY <1>1, <1>2, <2>4, StartKeeps DEF CallMul
  <2> QED
    BY <2>1, <2>2, <2>3, <2>4
<1> QED
  BY <1>3, <1>4 DEF Calls

-----------------------------------------------------------------------------
(* free() of blocks that are live or NULL, none of which is the scratch    *)
(* array.                                                                  *)
LEMMA FreeFacts ==
  ASSUME IInv, NEW S, Free(S), S \subseteq Live \cup {NULL}
  PROVE  /\ Live' = Live \ S
         /\ \A p \in Live \ S : heap'[p] = heap[p]
         /\ heap' \in [Live' -> Nat] /\ Live' \subseteq Address
         /\ filled' = filled \ S /\ filled' \subseteq Live'
         /\ fault' = FALSE
<1>1. heap' = [x \in Live \ S |-> heap[x]] /\ filled' = filled \ S
  BY DEF Free
<1>2. Live' = Live \ S
  BY <1>1 DEF Live
<1>3. S \ {NULL} \subseteq Live
  OBVIOUS
<1>4. fault' = FALSE
  BY <1>3 DEF Free, IInv
<1> QED
  BY <1>1, <1>2, <1>4 DEF IInv, HeapType

(* A table that is freed and forgotten: the others lose nothing.           *)
LEMMA PointersLive ==
  ASSUME IInv, NEW l \in Sizes
  PROVE  Pointers(l) \subseteq Live \cup {NULL}
<1>1. \A x \in ArrayNames : Ptr(l, x) \in Live \cup {NULL}
  BY DEF IInv, HeapInv, Owned
<1> QED
  BY <1>1 DEF Pointers, Ptr

(* my_fft_init writes the tables of logn only.                             *)
LEMMA EmptyTabFacts ==
  /\ EmptyTab \in [ptr : [ArrayNames -> Address \cup {NULL}],
                   bytes : Nat, ready : BOOLEAN]
  /\ ~EmptyTab.ready /\ \A x \in ArrayNames : EmptyTab.ptr[x] = NULL
BY DEF EmptyTab

LEMMA ForgetKeeps ==
  ASSUME IInv, NEW F \in SUBSET Sizes,
         Free(UNION {Pointers(l) : l \in F}),
         tabs' = [l \in Sizes |-> IF l \in F THEN EmptyTab ELSE tabs[l]],
         UNCHANGED <<scratch, logn>>,
         ~Building',
         \A l \in Sizes : Building /\ l = logn => l \in F
  PROVE  HeapType' /\ HeapInv' /\ TableInv' /\ fault' = FALSE
<1> DEFINE S == UNION {Pointers(l) : l \in F}
<1>1. S \subseteq Live \cup {NULL}
  BY PointersLive
<1>2. \A p : p \in S <=> \E l \in F, x \in ArrayNames : p = Ptr(l, x)
  BY DEF Pointers, Ptr
<1> HIDE DEF S
<1>3. /\ Live' = Live \ S
      /\ \A p \in Live \ S : heap'[p] = heap[p]
      /\ heap' \in [Live' -> Nat] /\ Live' \subseteq Address
      /\ filled' = filled \ S /\ filled' \subseteq Live'
      /\ fault' = FALSE
  BY <1>1, FreeFacts DEF S
<1>4. /\ \A l \in Sizes \ F, x \in ArrayNames : Ptr(l, x)' = Ptr(l, x)
      /\ \A l \in F, x \in ArrayNames : Ptr(l, x)' = NULL
      /\ \A l \in F : ~tabs'[l].ready
      /\ \A l \in Sizes \ F : tabs'[l] = tabs[l]
  BY EmptyTabFacts DEF Ptr
<1>5. HeapType'
  <2>1. tabs' \in [Sizes -> [ptr : [ArrayNames -> Address \cup {NULL}],
                             bytes : Nat, ready : BOOLEAN]]
    BY EmptyTabFacts DEF IInv, HeapType, Sizes
  <2> QED
    BY <1>3, <2>1 DEF IInv, HeapType, Sizes
<1>6. \A l \in Sizes \ F, x \in ArrayNames : Ptr(l, x) # NULL => Ptr(l, x) \notin S
  BY <1>2 DEF IInv, HeapInv, Owned
<1>7. HeapInv'
  <2>1. ASSUME NEW l \in Sizes, NEW x \in ArrayNames PROVE Owned(l, x)'
    <3>1. CASE l \in F
      BY <1>4, <3>1 DEF Owned
    <3>2. CASE l \notin F /\ Ptr(l, x) # NULL
      <4>1. Ptr(l, x)' = Ptr(l, x) /\ Ptr(l, x) \in Live \ S /\ Owned(l, x)
        BY <1>4, <1>6, <3>2 DEF IInv, HeapInv, Owned
      <4>2. \A k \in Sizes, y \in ArrayNames :
              Ptr(k, y)' = Ptr(l, x)' => k = l /\ y = x
        BY <1>4, <3>2, <4>1 DEF Owned
      <4> QED
        BY <1>3, <3>2, <4>1, <4>2 DEF Owned
    <3>3. CASE l \notin F /\ Ptr(l, x) = NULL
      BY <1>4, <3>3 DEF Owned
    <3> QED
      BY <3>1, <3>2, <3>3
  <2>2. scratch # NULL => scratch \in Live \ S
    BY <1>2 DEF IInv, HeapInv, Owned
  <2>3. ASSUME NEW p \in Live'
        PROVE  p = scratch' \/ \E l \in Sizes, x \in ArrayNames : p = Ptr(l, x)'
    BY <1>2, <1>3, <1>4 DEF IInv, HeapInv
  <2> QED
    BY <1>3, <2>1, <2>2, <2>3 DEF HeapInv
<1>8. TableInv'
  <2>1. ASSUME NEW l \in Sizes, tabs'[l].ready
        PROVE  l >= 1 /\ Complete(l)' /\ \A x \in ArrayNames : Ptr(l, x)' \in filled'
    <3>1. l \notin F /\ tabs[l].ready
      BY <1>4, <2>1
    <3>2. l >= 1 /\ \A x \in ArrayNames : Ptr(l, x) # NULL /\ Ptr(l, x) \in filled
      BY <3>1 DEF IInv, TableInv, Complete
    <3> QED
      BY <1>3, <1>4, <1>6, <3>1, <3>2 DEF Complete
  <2>2. ASSUME NEW l \in Sizes, ~tabs'[l].ready, NEW x \in ArrayNames
        PROVE  Ptr(l, x)' = NULL
    BY <1>4, <2>2 DEF IInv, TableInv
  <2> QED
    BY <2>1, <2>2 DEF TableInv
<1> QED
  BY <1>3, <1>5, <1>7, <1>8

LEMMA InitFailKeeps ==
  ASSUME IInv, InitFail
  PROVE  IInv'
<1>1. /\ pc = "check" /\ pc' = ret /\ ok' = FALSE
      /\ UNCHANGED <<scratch, call, logn, prepared, next, ret, out, tmp>>
      /\ Free(Pointers(logn)) /\ tabs' = [tabs EXCEPT ![logn] = EmptyTab]
  BY DEF InitFail, ReturnInit, calling, buffers
<1>2. Building /\ logn \in Sizes /\ ret \in {"idle", "return"} \cup Transforms
  BY <1>1 DEF Building, IInv, ControlInv, FlowType, Supported, Sizes, Transforms
<1>3. ~Building'
  BY <1>1, <1>2 DEF Building, Transforms
<1>4. tabs' = [l \in Sizes |-> IF l \in {logn} THEN EmptyTab ELSE tabs[l]]
  BY <1>1, <1>2 DEF IInv, HeapType, Sizes
<1>5. UNION {Pointers(l) : l \in {logn}} = Pointers(logn)
  OBVIOUS
<1>6. HeapType' /\ HeapInv' /\ TableInv' /\ fault' = FALSE
  BY <1>1, <1>2, <1>3, <1>4, <1>5, ForgetKeeps
<1>7. FlagType' /\ FlowType'
  BY <1>1, <1>2, <1>6 DEF IInv, FlagType, FlowType, Transforms
<1>8. scratch # NULL => call = "my_poly_mul" /\ ret \in Transforms
  BY <1>1 DEF IInv, ControlInv, UsesScratch, Transforms
<1>9. ControlInv'
  BY <1>1, <1>2, <1>3, <1>8 DEF ControlInv, Building, UsesScratch, Transforms
<1> QED
  BY <1>6, <1>7, <1>9 DEF IInv

LEMMA FreeAllKeeps ==
  ASSUME IInv, FreeAll
  PROVE  IInv'
<1>1. /\ pc = "my_fft_free" /\ pc' = "return"
      /\ UNCHANGED <<scratch, call, logn, prepared, next, ret, ok, out, tmp>>
      /\ Free(UNION {Pointers(l) : l \in Ready})
      /\ tabs' = [l \in Sizes |-> IF l \in Ready THEN EmptyTab ELSE tabs[l]]
  BY DEF FreeAll, calling, buffers, Sizes
<1>2. ~Building /\ ~Building' /\ Ready \in SUBSET Sizes
  BY <1>1 DEF Building, Ready, Sizes
<1>3. HeapType' /\ HeapInv' /\ TableInv' /\ fault' = FALSE
  BY <1>1, <1>2, ForgetKeeps
<1>4. FlagType' /\ FlowType'
  BY <1>1, <1>3 DEF IInv, FlagType, FlowType
<1>5. scratch = NULL
  BY <1>1 DEF IInv, ControlInv, UsesScratch, Initialising, Building, Transforms
<1>6. ControlInv'
  BY <1>1, <1>2, <1>5 DEF ControlInv, Transforms, Building
<1> QED
  BY <1>3, <1>4, <1>6 DEF IInv

LEMMA FreeScratchKeeps ==
  ASSUME IInv, FreeScratch
  PROVE  IInv'
<1>1. /\ pc = "free(tmp)" /\ pc' = "return" /\ scratch' = NULL /\ tmp' = "stale"
      /\ UNCHANGED <<tabs, call, logn, prepared, next, ret, ok, out>>
      /\ Free({scratch})
  BY DEF FreeScratch, calling
<1>2. ~Building /\ ~Building' /\ {scratch} \subseteq Live \cup {NULL}
  BY <1>1 DEF Building, IInv, HeapInv
<1>3. /\ Live' = Live \ {scratch}
      /\ \A p \in Live \ {scratch} : heap'[p] = heap[p]
      /\ heap' \in [Live' -> Nat] /\ Live' \subseteq Address
      /\ filled' = filled \ {scratch} /\ filled' \subseteq Live'
      /\ fault' = FALSE
  BY <1>1, <1>2, FreeFacts
<1>4. HeapType'
  BY <1>1, <1>3 DEF IInv, HeapType
<1>5. \A l \in Sizes, x \in ArrayNames :
        Ptr(l, x)' = Ptr(l, x) /\ (Ptr(l, x) # NULL => Ptr(l, x) # scratch)
  BY <1>1 DEF Ptr, IInv, HeapInv, Owned
<1>6. HeapInv'
  <2>1. ASSUME NEW l \in Sizes, NEW x \in ArrayNames, Ptr(l, x) # NULL
        PROVE  /\ Ptr(l, x) \in Live \ {scratch}
               /\ heap'[Ptr(l, x)] = Allocated(x, l) * SizeofDouble
               /\ \A k \in Sizes, y \in ArrayNames :
                    Ptr(k, y) = Ptr(l, x) => k = l /\ y = x
    BY <1>3, <1>5, <2>1 DEF IInv, HeapInv, Owned
  <2>2. \A p \in Live \ {scratch} : \E l \in Sizes, x \in ArrayNames : p = Ptr(l, x)
    BY DEF IInv, HeapInv
  <2> QED
    BY <1>1, <1>3, <1>5, <2>1, <2>2 DEF HeapInv, Owned
<1>7. TableInv'
  BY <1>1, <1>2, <1>3, <1>5 DEF IInv, TableInv, Complete
<1>8. FlagType' /\ FlowType'
  BY <1>1, <1>3 DEF IInv, FlagType, FlowType, Content
<1>9. ControlInv'
  BY <1>1, <1>2 DEF ControlInv, Transforms, Building
<1> QED
  BY <1>3, <1>4, <1>6, <1>7, <1>8, <1>9 DEF IInv

(* malloc() of a block that is not there yet.                              *)
LEMMA HeapWithFacts ==
  ASSUME IInv, NEW p \in Address \ Live, NEW size \in Nat,
         heap' = HeapWith(p, size)
  PROVE  /\ Live' = Live \cup {p} /\ Live' \subseteq Address
         /\ heap' \in [Live' -> Nat] /\ heap'[p] = size
         /\ \A q \in Live : heap'[q] = heap[q]
<1>1. heap' = [x \in Live \cup {p} |-> IF x = p THEN size ELSE heap[x]]
  BY DEF HeapWith
<1>2. Live' = Live \cup {p}
  BY <1>1 DEF Live
<1> QED
  BY <1>1, <1>2 DEF IInv, HeapType

(* One pointer of a table that is being built is set; the block it points  *)
(* to, if any, is new.                                                     *)
LEMMA InitMallocKeeps ==
  ASSUME IInv, InitMalloc
  PROVE  IInv'
<1>1. /\ pc = "malloc" /\ next \in 1 .. 4 /\ logn \in Sizes /\ logn \in Logn
      /\ Arrays[next] \in ArrayNames
      /\ UNCHANGED <<scratch, call, logn, prepared, filled, fault, ret, ok, out, tmp>>
  BY ArraysFacts
  DEF InitMalloc, calling, buffers, IInv, ControlInv, Building, FlowType,
      Supported, Sizes
<1> PICK n \in Sizes : n = logn
  BY <1>1
<1> PICK x \in ArrayNames : x = Arrays[next]
  BY <1>1
<1>2. /\ Supported(logn) /\ ~tabs[logn].ready
      /\ \A i \in next .. 4 : Ptr(logn, Arrays[i]) = NULL
  BY <1>1 DEF IInv, ControlInv, Building
<1>3. Allocated(x, logn) * SizeofDouble \in Nat
  BY <1>1, AllocatedFacts DEF SizeofDouble
<1>4. \/ /\ CanMalloc /\ tabs' = [tabs EXCEPT ![logn].ptr[x] = Fresh]
         /\ heap' = HeapWith(Fresh, Allocated(x, logn) * SizeofDouble)
      \/ tabs' = [tabs EXCEPT ![logn].ptr[x] = NULL] /\ heap' = heap
  BY DEF InitMalloc
<1>5. \E q \in (Address \ Live) \cup {NULL} :
        /\ tabs' = [tabs EXCEPT ![logn].ptr[x] = q]
        /\ q = NULL => heap' = heap
        /\ q # NULL => heap' = HeapWith(q, Allocated(x, logn) * SizeofDouble)
  BY <1>4, FreshIsNew
<1>6. PICK q \in (Address \ Live) \cup {NULL} :
        /\ tabs' = [tabs EXCEPT ![logn].ptr[x] = q]
        /\ q = NULL => heap' = heap
        /\ q # NULL => heap' = HeapWith(q, Allocated(x, logn) * SizeofDouble)
  BY <1>5
<1>7. /\ Live' = Live \cup ({q} \ {NULL}) /\ Live' \subseteq Address
      /\ heap' \in [Live' -> Nat]
      /\ \A r \in Live : heap'[r] = heap[r]
      /\ q # NULL => heap'[q] = Allocated(x, logn) * SizeofDouble
  <2>1. CASE q = NULL
    BY <1>6, <2>1 DEF IInv, HeapType, Live
  <2>2. CASE q # NULL
    BY <1>3, <1>6, <2>2, HeapWithFacts
  <2> QED
    BY <2>1, <2>2
<1>8. /\ Ptr(n, x) = NULL /\ Ptr(n, x)' = q
      /\ \A l \in Sizes, y \in ArrayNames :
           l # n \/ y # x => Ptr(l, y)' = Ptr(l, y)
      /\ \A l \in Sizes : tabs'[l].ready = tabs[l].ready
  <2>1. Ptr(n, x) = NULL
    BY <1>1, <1>2
  <2>2. tabs \in [Sizes -> [ptr : [ArrayNames -> Address \cup {NULL}],
                            bytes : Nat, ready : BOOLEAN]]
    BY DEF IInv, HeapType, Sizes
  <2>3. /\ \A l \in Sizes : l # n => tabs'[l] = tabs[l]
        /\ tabs'[n].ptr = [tabs[n].ptr EXCEPT ![x] = q]
        /\ tabs'[n].ready = tabs[n].ready
    BY <1>1, <1>6, <2>2
  <2> QED
    BY <2>1, <2>2, <2>3 DEF Ptr
<1>9. HeapType'
  <2>1. tabs' \in [Sizes -> [ptr : [ArrayNames -> Address \cup {NULL}],
                             bytes : Nat, ready : BOOLEAN]]
    BY <1>1, <1>6 DEF IInv, HeapType, Sizes
  <2> QED
    BY <1>1, <1>7, <2>1 DEF IInv, HeapType, Sizes
<1>10. HeapInv'
  <2>1. NULL \notin Live /\ (scratch # NULL => scratch \in Live)
    BY CacheAssumption DEF IInv, HeapType, HeapInv
  <2>2. ASSUME NEW l \in Sizes, NEW y \in ArrayNames PROVE Owned(l, y)'
    <3>1. CASE l = n /\ y = x /\ q # NULL
      <4>1. q # scratch /\ q \notin Live
        BY <2>1, <3>1
      <4>2. \A k \in Sizes, z \in ArrayNames :
              Ptr(k, z)' = q => k = n /\ z = x
        BY <1>8, <4>1, <3>1 DEF IInv, HeapInv, Owned
      <4> QED
        BY <1>1, <1>7, <1>8, <3>1, <4>1, <4>2 DEF Owned
    <3>2. CASE ~(l = n /\ y = x) /\ Ptr(l, y) # NULL
      <4>1. Ptr(l, y)' = Ptr(l, y) /\ Owned(l, y) /\ Ptr(l, y) # q
        BY <1>8, <3>2 DEF IInv, HeapInv, Owned
      <4>2. \A k \in Sizes, z \in ArrayNames :
              Ptr(k, z)' = Ptr(l, y) => k = l /\ z = y
        BY <1>8, <3>2, <4>1 DEF Owned
      <4> QED
        BY <1>1, <1>7, <3>2, <4>1, <4>2 DEF Owned
    <3>3. CASE Ptr(l, y)' = NULL
      BY <3>3 DEF Owned
    <3> QED
      BY <1>8, <3>1, <3>2, <3>3
  <2>3. ASSUME NEW r \in Live'
        PROVE  r = scratch' \/ \E l \in Sizes, y \in ArrayNames : r = Ptr(l, y)'
    <3>1. CASE r = q
      BY <1>1, <1>8, <3>1
    <3>2. CASE r \in Live
      <4>1. r = scratch \/ \E l \in Sizes, y \in ArrayNames : r = Ptr(l, y)
        BY <3>2 DEF IInv, HeapInv
      <4>2. r # NULL
        BY <2>1, <3>2
      <4> QED
        BY <1>1, <1>8, <4>1, <4>2
    <3> QED
      BY <1>7, <3>1, <3>2
  <2> QED
    BY <1>1, <1>7, <2>1, <2>2, <2>3 DEF HeapInv
<1>11. Building' /\ pc' \in {"malloc", "check"} /\ next' \in 1 .. 4
       /\ (pc' = "malloc" => next' = next + 1)
  BY <1>1 DEF InitMalloc, Building
<1>12. TableInv'
  <2>1. ASSUME NEW l \in Sizes, tabs[l].ready
        PROVE  l # n /\ l >= 1 /\ Complete(l) /\ \A y \in ArrayNames : Ptr(l, y) \in filled
    BY <1>2, <2>1 DEF IInv, TableInv
  <2>2. ASSUME NEW l \in Sizes, ~tabs[l].ready, l # n
        PROVE  \A y \in ArrayNames : Ptr(l, y) = NULL
    BY <2>2 DEF IInv, TableInv
  <2> QED
    BY <1>1, <1>8, <1>11, <2>1, <2>2 DEF TableInv, Complete
<1>13. FlagType' /\ FlowType'
  BY <1>1, <1>11 DEF IInv, FlagType, FlowType
<1>14. ControlInv'
  <2>1. pc' = "malloc" => \A i \in next' .. 4 : Ptr(n, Arrays[i])' = NULL
    <3> SUFFICES ASSUME pc' = "malloc", NEW i \in next' .. 4
                 PROVE  Ptr(n, Arrays[i])' = NULL
      BY <1>1
    <3>1. i \in next .. 4 /\ i \in 1 .. 4 /\ i # next
      BY <1>1, <1>11
    <3>2. Arrays[i] \in ArrayNames /\ Arrays[i] # x
      BY <1>1, <3>1, ArraysFacts
    <3> QED
      BY <1>1, <1>2, <1>8, <3>1, <3>2
  <2>2. scratch # NULL => UsesScratch'
    BY <1>1, <1>11 DEF IInv, ControlInv, UsesScratch, Initialising, Transforms
  <2>3. Supported(logn)' /\ ~tabs'[logn'].ready
    BY <1>1, <1>2, <1>8 DEF Supported
  <2> QED
    BY <1>1, <1>11, <2>1, <2>2, <2>3 DEF ControlInv, Transforms
<1> QED
  BY <1>1, <1>9, <1>10, <1>12, <1>13, <1>14 DEF IInv

LEMMA InitSucceedKeeps ==
  ASSUME IInv, InitSucceed
  PROVE  IInv'
<1>1. /\ pc = "check" /\ pc' = "fill" /\ NULL \notin Pointers(logn)
      /\ UNCHANGED <<heap, filled, fault, scratch, call, logn, prepared>>
      /\ UNCHANGED <<next, ret, ok, out, tmp>>
  BY DEF InitSucceed, calling, buffers
<1>2. /\ Building /\ Building' /\ logn \in Sizes /\ logn \in Logn
      /\ Supported(logn) /\ ~tabs[logn].ready
  BY <1>1 DEF Building, IInv, ControlInv, FlowType, Supported, Sizes
<1>3. \E c \in Nat : tabs' = [tabs EXCEPT ![logn].bytes = c]
  <2>1. hn(logn) \in Nat /\ hw(logn) \in Nat
    <3>1. Pow2[logn] \in Nat
      BY <1>2, CacheAssumption
    <3> QED
      BY <3>1 DEF hn, hw
  <2>2. (2 * hn(logn) + 2 * (IF hw(logn) # 0 THEN hw(logn) ELSE 1)) * SizeofDouble
          \in Nat
    BY <2>1 DEF SizeofDouble
  <2> QED
    BY <2>2 DEF InitSucceed
<1>4. /\ \A l \in Sizes : /\ tabs'[l].ptr = tabs[l].ptr
                          /\ tabs'[l].ready = tabs[l].ready
      /\ tabs' \in [Sizes -> [ptr : [ArrayNames -> Address \cup {NULL}],
                              bytes : Nat, ready : BOOLEAN]]
  <2>1. tabs \in [Sizes -> [ptr : [ArrayNames -> Address \cup {NULL}],
                            bytes : Nat, ready : BOOLEAN]]
    BY DEF IInv, HeapType, Sizes
  <2> QED
    BY <1>2, <1>3, <2>1
<1>5. HeapType' /\ FlagType' /\ FlowType'
  BY <1>1, <1>4 DEF IInv, HeapType, FlagType, FlowType, Live, Sizes
<1>6. HeapInv'
  BY <1>1, <1>4 DEF IInv, HeapInv, Owned, Ptr, Live
<1>7. TableInv'
  BY <1>1, <1>2, <1>4 DEF IInv, TableInv, Complete, Ptr
<1>8. Complete(logn)'
  BY <1>1, <1>2, <1>4 DEF Complete, Ptr, Pointers
<1>9. ControlInv'
  <2>1. scratch # NULL => UsesScratch'
    BY <1>1, <1>2 DEF IInv, ControlInv, UsesScratch, Initialising, Transforms
  <2> QED
    BY <1>1, <1>2, <1>4, <1>8, <2>1 DEF ControlInv, Supported, Transforms
<1> QED
  BY <1>1, <1>5, <1>6, <1>7, <1>9 DEF IInv

LEMMA InitFillKeeps ==
  ASSUME IInv, InitFill
  PROVE  IInv'
<1>1. /\ pc = "fill" /\ pc' = ret /\ ok' = TRUE
      /\ UNCHANGED <<heap, scratch, call, logn, prepared, next, ret, out, tmp>>
      /\ filled' = filled \cup Pointers(logn)
      /\ tabs' = [tabs EXCEPT ![logn].ready = TRUE]
  BY DEF InitFill, ReturnInit, calling, buffers
<1>2. /\ Building /\ logn \in Sizes /\ logn \in Logn /\ logn >= 1
      /\ Supported(logn) /\ Complete(logn)
      /\ ret \in {"idle", "return"} \cup Transforms
  BY <1>1 DEF Building, IInv, ControlInv, FlowType, Supported, Sizes, Transforms
<1>3. /\ \A l \in Sizes : /\ tabs'[l].ptr = tabs[l].ptr
                          /\ l # logn => tabs'[l].ready = tabs[l].ready
      /\ tabs'[logn].ready = TRUE
      /\ tabs' \in [Sizes -> [ptr : [ArrayNames -> Address \cup {NULL}],
                              bytes : Nat, ready : BOOLEAN]]
  <2>1. tabs \in [Sizes -> [ptr : [ArrayNames -> Address \cup {NULL}],
                            bytes : Nat, ready : BOOLEAN]]
    BY DEF IInv, HeapType, Sizes
  <2> QED
    BY <1>1, <1>2, <2>1
<1>4. \A x \in ArrayNames :
        /\ Ptr(logn, x) \in Live
        /\ heap[Ptr(logn, x)] = Allocated(x, logn) * SizeofDouble
  BY <1>2 DEF IInv, HeapInv, Owned, Complete
<1>5. fault' = FALSE
  <2>1. ASSUME NEW x \in ArrayNames PROVE Holds(logn, x)
    <3>1. /\ Allocated(x, logn) \in Nat /\ Used(x, logn) \in Nat
          /\ Used(x, logn) <= Allocated(x, logn)
      BY <1>2, AllocatedFacts
    <3>2. Allocated(x, logn) * SizeofDouble >= Used(x, logn) * SizeofDouble
      BY <3>1 DEF SizeofDouble
    <3> QED
      BY <1>4, <3>2 DEF Holds, Ptr
  <2> QED
    BY <2>1 DEF InitFill, IInv
<1>6. Pointers(logn) \subseteq Live
  BY <1>4 DEF Pointers, Ptr
<1>7. HeapType'
  BY <1>1, <1>3, <1>6 DEF IInv, HeapType, Live, Sizes
<1>8. FlagType' /\ FlowType'
  BY <1>1, <1>2, <1>5 DEF IInv, FlagType, FlowType, Transforms
<1>9. HeapInv'
  BY <1>1, <1>3 DEF IInv, HeapInv, Owned, Ptr, Live
<1>10. TableInv'
  <2>1. ASSUME NEW l \in Sizes, l # logn
        PROVE  /\ tabs[l].ready =>
                    /\ l >= 1 /\ Complete(l)
                    /\ \A x \in ArrayNames : Ptr(l, x) \in filled
               /\ ~tabs[l].ready => \A x \in ArrayNames : Ptr(l, x) = NULL
    BY <2>1 DEF IInv, TableInv
  <2>2. \A x \in ArrayNames : Ptr(logn, x) \in filled'
    BY <1>1 DEF Pointers, Ptr
  <2> QED
    BY <1>1, <1>2, <1>3, <2>1, <2>2 DEF TableInv, Complete, Ptr
<1>11. ControlInv'
  <2>1. ~Building'
    BY <1>1, <1>2 DEF Building, Transforms
  <2>2. scratch # NULL => UsesScratch'
    BY <1>1, <1>2 DEF IInv, ControlInv, UsesScratch, Initialising, Transforms
  <2>3. TableReady'
    BY <1>1, <1>2, <1>3 DEF TableReady, Supported
  <2> QED
    BY <1>1, <1>2, <2>1, <2>2, <2>3 DEF ControlInv, Building, Transforms
<1> QED
  BY <1>5, <1>7, <1>8, <1>9, <1>10, <1>11 DEF IInv

LEMMA AllocScratchKeeps ==
  ASSUME IInv, AllocScratch
  PROVE  IInv'
<1>1. /\ pc = "malloc(tmp)" /\ ~Building /\ scratch = NULL /\ call = "my_poly_mul"
      /\ UNCHANGED <<tabs, filled, fault, call, logn, prepared, next, ok>>
  BY DEF AllocScratch, calling, Building, IInv, ControlInv, UsesScratch,
         Initialising, Transforms
<1>2. CASE pc' = "return" /\ UNCHANGED <<heap, scratch, out, tmp, ret>>
  <2>1. FlagType' /\ FlowType'
    BY <1>1, <1>2 DEF IInv, FlagType, FlowType
  <2> QED
    BY <1>1, <1>2, <2>1, QuietKeeps DEF IInv, Building, Transforms
<1>3. CASE /\ CanMalloc /\ scratch' = Fresh
           /\ heap' = HeapWith(Fresh, Pow2[logn] * SizeofDouble)
           /\ out' = "time" /\ tmp' = "time" /\ EnterInit("my_FFT(out)")
  <2>1. Fresh \in Address \ Live /\ Fresh # NULL
    BY <1>3, FreshIsNew
  <2>2. Pow2[logn] * SizeofDouble \in Nat
    <3>1. Pow2[logn] \in Nat
      BY CacheAssumption DEF IInv, FlowType
    <3> QED
      BY <3>1 DEF SizeofDouble
  <2>3. /\ Live' = Live \cup {Fresh} /\ Live' \subseteq Address
        /\ heap' \in [Live' -> Nat]
        /\ \A q \in Live : heap'[q] = heap[q]
    BY <1>3, <2>1, <2>2, HeapWithFacts
  <2>4. PICK p \in Address \ Live : p = scratch' /\ p = Fresh
    BY <1>3, <2>1
  <2>5. HeapType'
    BY <1>1, <2>3, <2>4 DEF IInv, HeapType
  <2>6. pc' = "my_fft_init" /\ ret' = "my_FFT(out)" /\ ~Building'
    BY <1>3 DEF EnterInit, Building
  <2>7. FlagType' /\ FlowType'
    BY <1>1, <1>3, <2>6 DEF IInv, FlagType, FlowType, Content
  <2>8. HeapInv'
    <3>1. ASSUME NEW l \in Sizes, NEW x \in ArrayNames
          PROVE  Owned(l, x)' /\ Ptr(l, x)' = Ptr(l, x)
      BY <1>1, <2>3, <2>4 DEF IInv, HeapInv, Owned, Ptr
    <3>2. \A q \in Live : q = NULL \/ \E l \in Sizes, x \in ArrayNames : q = Ptr(l, x)
      BY <1>1 DEF IInv, HeapInv
    <3>3. NULL \notin Live
      BY CacheAssumption DEF IInv, HeapType
    <3> QED
      BY <2>3, <2>4, <3>1, <3>2, <3>3 DEF HeapInv
  <2>9. TableInv'
    BY <1>1, TableKept DEF IInv
  <2>10. ControlInv'
    <3>1. UsesScratch'
      BY <1>1, <2>6 DEF UsesScratch, Initialising, Transforms
    <3> QED
      BY <2>6, <3>1 DEF ControlInv, Transforms
  <2> QED
    BY <1>1, <2>5, <2>7, <2>8, <2>9, <2>10 DEF IInv
<1> QED
  BY <1>2, <1>3 DEF AllocScratch

-----------------------------------------------------------------------------
LEMMA NextIInv == IInv /\ [Next]_vars => IInv'
<1> SUFFICES ASSUME IInv, [Next]_vars PROVE IInv'
  OBVIOUS
<1>1. CASE Calls
  BY <1>1, CallsKeep
<1>2. CASE InitSteps
  BY <1>2, InitCheckReadyKeeps, InitMallocKeeps, InitFailKeeps,
     InitSucceedKeeps, InitFillKeeps DEF InitSteps
<1>3. CASE FreeAll \/ FreeScratch
  BY <1>3, FreeAllKeeps, FreeScratchKeeps
<1>4. CASE ForwardOut \/ ForwardTmp \/ InverseOut
  BY <1>4, TransformsKeep
<1>5. CASE AllocScratch
  BY <1>5, AllocScratchKeeps
<1>6. CASE PolyMulFFT \/ Return
  BY <1>6, PolyMulFFTKeeps, ReturnKeeps
<1>7. CASE UNCHANGED vars
  <2>1. /\ UNCHANGED <<tabs, heap, filled, fault, call, logn, prepared, pc>>
        /\ UNCHANGED <<next, ret, ok, out, tmp, scratch>>
    BY <1>7 DEF vars, calling, buffers
  <2>2. HeapType' /\ FlagType' /\ FlowType' /\ ~fault'
    BY <2>1 DEF IInv, HeapType, FlagType, FlowType, Live
  <2>3. HeapInv'
    BY <2>1, HeapKept DEF IInv
  <2>4. TableInv'
    BY <2>1 DEF IInv, TableInv, Complete, Ptr, Building
  <2>5. ControlInv'
    BY <2>1 DEF IInv, ControlInv, Complete, Ptr, Building, TableReady,
                Supported, UsesScratch, Initialising
  <2> QED
    BY <2>2, <2>3, <2>4, <2>5 DEF IInv
<1> QED
  BY <1>1, <1>2, <1>3, <1>4, <1>5, <1>6, <1>7 DEF Next, Steps

LEMMA IInvImpliesOwnership == IInv => Ownership
<1> SUFFICES ASSUME IInv PROVE Ownership
  OBVIOUS
<1>1. \A s \in Slots : /\ s[1] \in Sizes /\ s[2] \in ArrayNames
                       /\ s = <<s[1], s[2]>> /\ PtrAt(s) = Ptr(s[1], s[2])
  BY DEF Slots, PtrAt, Ptr, Sizes
<1>2. \A l \in Sizes, x \in ArrayNames :
        <<l, x>> \in Slots /\ PtrAt(<<l, x>>) = Ptr(l, x)
  BY DEF Slots, PtrAt, Ptr, Sizes
<1>3. Live = ({PtrAt(s) : s \in Slots} \cup {scratch}) \ {NULL}
  <2>1. ASSUME NEW p \in Live
        PROVE  p # NULL /\ (p = scratch \/ \E s \in Slots : p = PtrAt(s))
    <3>1. p # NULL
      BY CacheAssumption DEF IInv, HeapType
    <3>2. p = scratch \/ \E l \in Sizes, x \in ArrayNames : p = Ptr(l, x)
      BY DEF IInv, HeapInv
    <3> QED
      BY <1>2, <3>1, <3>2
  <2>2. ASSUME NEW s \in Slots, PtrAt(s) # NULL
        PROVE  PtrAt(s) \in Live
    BY <1>1, <2>2 DEF IInv, HeapInv, Owned
  <2>3. scratch # NULL => scratch \in Live
    BY DEF IInv, HeapInv
  <2> QED
    BY <2>1, <2>2, <2>3
<1>4. ASSUME NEW s \in Slots, NEW q \in Slots, s # q, PtrAt(s) = PtrAt(q),
             PtrAt(s) # NULL
      PROVE  FALSE
  <2>1. s[1] = q[1] /\ s[2] = q[2]
    BY <1>1, <1>4 DEF IInv, HeapInv, Owned
  <2> QED
    BY <1>1, <1>4, <2>1
<1>5. ASSUME NEW s \in Slots, PtrAt(s) = scratch PROVE scratch = NULL
  BY <1>1, <1>5 DEF IInv, HeapInv, Owned
<1> QED
  BY <1>3, <1>4, <1>5 DEF Ownership

(***************************************************************************)
(* The state of the cache always has its types; a live block has an        *)
(* address and a size, and only live blocks are filled.                    *)
(***************************************************************************)
THEOREM TypeCorrect == Spec => []TypeOK
<1>1. IInv => TypeOK
  BY Zenon DEF IInv, TypeOK, HeapType, FlagType, FlowType
<1> QED
  BY <1>1, InitIInv, NextIInv, PTL DEF Spec

(***************************************************************************)
(* my_fft_init, my_fft_free, the transforms and my_poly_mul never free a   *)
(* block twice and never read a table that is freed, unfilled or too short *)
(* for it, in any sequence of calls with any allocations failing.          *)
(***************************************************************************)
THEOREM NoUndefinedBehaviour == Spec => []NoFault
<1>1. IInv => NoFault
  BY DEF IInv, NoFault
<1> QED
  BY <1>1, InitIInv, NextIInv, PTL DEF Spec

(***************************************************************************)
(* Nothing leaks and nothing is shared: the live blocks are those the      *)
(* tables and the scratch pointer of my_poly_mul point to, one each, also  *)
(* while my_fft_init is failing.                                           *)
(***************************************************************************)
THEOREM BlocksOwned == Spec => []Ownership
BY InitIInv, NextIInv, IInvImpliesOwnership, PTL DEF Spec

(***************************************************************************)
(* my_fft_init is idempotent: what is ready is changed by my_fft_free      *)
(* only.                                                                   *)
(***************************************************************************)
THEOREM ReadyTablesStay == Spec => ReadyStays
<1>1. IInv /\ [Next]_vars =>
        [\A l \in 0 .. MYFFT_MAX_LOGN :
           tabs[l].ready => tabs'[l] = tabs[l] \/ call = "my_fft_free"]_vars
  <2> SUFFICES ASSUME IInv, Next, NEW l \in Sizes, tabs[l].ready, call # "my_fft_free"
               PROVE  tabs'[l] = tabs[l]
    BY DEF Sizes
  <2>1. CASE UNCHANGED tabs
    BY <2>1
  <2>2. CASE InitMalloc \/ InitFail \/ InitSucceed \/ InitFill
    <3>1. Building
      BY <2>2 DEF InitMalloc, InitFail, InitSucceed, InitFill, Building
    <3>2. l # logn /\ l \in DOMAIN tabs
      BY <3>1 DEF IInv, ControlInv, HeapType, Sizes
    <3> QED
      BY <2>2, <3>2 DEF InitMalloc, InitFail, InitSucceed, InitFill
  <2>3. CASE FreeAll
    <3>1. call = "my_fft_free"
      BY <2>3 DEF FreeAll, IInv, ControlInv
    <3> QED
      BY <3>1
  <2>4. UNCHANGED tabs \/ InitMalloc \/ InitFail \/ InitSucceed \/ InitFill \/ FreeAll
    BY DEF Next, Steps, InitSteps, Calls, CallFree, CallInit, CallFFT, CallIFFT,
           CallMul, Start, InitCheckReady, ForwardOut, ForwardTmp, InverseOut,
           AllocScratch, PolyMulFFT, FreeScratch, Return
  <2> QED
    BY <2>1, <2>2, <2>3, <2>4
<1> QED
  BY <1>1, InitIInv, NextIInv, PTL DEF Spec, ReadyStays

-----------------------------------------------------------------------------
(* my_fft_init goes on or returns; with a table that is ready it returns   *)
(* at once and says so.                                                    *)
LEMMA InitStepsFlow ==
  ASSUME IInv, InitSteps
  PROVE  /\ Initialising
         /\ UNCHANGED <<call, logn, prepared, ret, out, tmp>>
         /\ (Initialising' /\ pc' # "my_fft_init") \/ pc' = ret
         /\ TableReady => pc' = ret /\ ok' = TRUE /\ TableReady'
<1>1. /\ Initialising
      /\ UNCHANGED <<call, logn, prepared, ret, out, tmp>>
      /\ pc' \in {"malloc", "check", "fill"} \/ pc' = ret
  BY DEF InitSteps, InitCheckReady, InitMalloc, InitFail, InitSucceed, InitFill,
         ReturnInit, Initialising, Building, calling, buffers
<1>2. ASSUME TableReady PROVE pc' = ret /\ ok' = TRUE /\ TableReady'
  <2>1. ~Building
    BY <1>2 DEF TableReady, IInv, ControlInv
  <2>2. InitCheckReady
    BY <2>1 DEF InitSteps, InitMalloc, InitFail, InitSucceed, InitFill, Building
  <2> QED
    BY <1>2, <2>2
    DEF InitCheckReady, TableReady, ReturnInit, Supported, calling
<1> QED
  BY <1>1, <1>2 DEF Initialising, Building

LEMMA InitMulInv == Init => MulInv
BY DEF Init, MulInv

LEMMA NextMulInv == IInv /\ MulInv /\ [Next]_vars => MulInv'
<1> SUFFICES ASSUME IInv, MulInv, [Next]_vars, call' = "my_poly_mul"
             PROVE  MulInv'
  BY DEF MulInv
<1>1. CASE Calls
  <2>1. pc' = "malloc(tmp)" /\ out' = "stale"
    BY <1>1 DEF Calls, CallFree, CallInit, CallFFT, CallIFFT, CallMul, Start
  <2> QED
    BY <2>1 DEF MulInv, HeadingFor, Initialising, Building, Transforms
<1>2. CASE InitSteps
  <2>1. /\ Initialising
        /\ UNCHANGED <<call, logn, ret, out, tmp>>
        /\ (Initialising' /\ pc' # "my_fft_init") \/ pc' = ret
        /\ TableReady => pc' = ret /\ ok' = TRUE /\ TableReady'
    BY <1>2, InitStepsFlow
  <2>2. call = "my_poly_mul" /\ ret \in Transforms
    BY <2>1 DEF MulInv, Initialising, Building, Transforms
  <2>3. \A p \in Transforms : HeadingFor(p)' => HeadingFor(p)
    BY <2>1, <2>2 DEF HeadingFor, Initialising, Building, Transforms
  <2>4. /\ pc' \in Transforms \/ (Initialising' /\ ret' \in Transforms)
        /\ pc' \notin {"malloc(tmp)", "my_poly_mul_fft", "free(tmp)", "return"}
    BY <2>1, <2>2 DEF Initialising, Building, Transforms
  <2> QED
    BY <2>1, <2>2, <2>3, <2>4 DEF MulInv, Transforms
<1>3. CASE ForwardOut
  <2>1. /\ pc = "my_FFT(out)" /\ call = "my_poly_mul"
        /\ pc' = "my_fft_init" /\ ret' = "my_FFT(tmp)"
        /\ UNCHANGED <<tabs, logn, ok, tmp>>
        /\ out' = Transform(out, "time", "fft")
    BY <1>3 DEF ForwardOut, calling, EnterInit
  <2>2. out = "time" /\ tmp = "time" /\ (ok => TableReady)
    BY <2>1 DEF MulInv, HeadingFor, IInv, ControlInv, Transforms
  <2>3. out' \in {"time", "fft"} /\ (out' = "fft" => TableReady')
    BY <2>1, <2>2 DEF Transform, TableReady, Supported
  <2> QED
    BY <2>1, <2>2, <2>3 DEF MulInv, HeadingFor, Initialising, Building, Transforms
<1>4. CASE ForwardTmp
  <2>1. /\ pc = "my_FFT(tmp)" /\ pc' = "my_poly_mul_fft" /\ call = "my_poly_mul"
        /\ UNCHANGED <<tabs, logn, ok, out>>
        /\ tmp' = Transform(tmp, "time", "fft")
    BY <1>4 DEF ForwardTmp, calling
  <2>2. /\ out \in {"time", "fft"} /\ tmp = "time"
        /\ out = "fft" => ok /\ TableReady
    BY <2>1 DEF MulInv, HeadingFor, Transforms
  <2>3. /\ out' \in {"time", "fft"}
        /\ out' = "fft" => tmp' = "fft" /\ TableReady'
    BY <2>1, <2>2 DEF Transform, TableReady, Supported
  <2> QED
    BY <2>1, <2>3 DEF MulInv, HeadingFor, Initialising, Building, Transforms
<1>5. CASE PolyMulFFT
  <2>1. /\ pc = "my_poly_mul_fft" /\ call = "my_poly_mul"
        /\ pc' = "my_fft_init" /\ ret' = "my_iFFT(out)"
        /\ UNCHANGED <<tabs, logn>>
    BY <1>5 DEF PolyMulFFT, calling, EnterInit
  <2>2. /\ out \in {"time", "fft"} /\ (out = "fft" => TableReady)
    BY <2>1 DEF MulInv
  <2>3. /\ out' \in {"time", "product_fft", "garbage"}
        /\ out' = "product_fft" => TableReady
    BY <1>5, <2>2 DEF PolyMulFFT, TableReady, Supported
  <2>4. out' = "product_fft" => TableReady'
    BY <2>1, <2>3 DEF TableReady, Supported
  <2> QED
    BY <2>1, <2>3, <2>4 DEF MulInv, HeadingFor, Initialising, Building, Transforms
<1>6. CASE InverseOut
  <2>1. /\ pc = "my_iFFT(out)" /\ pc' = "free(tmp)" /\ call = "my_poly_mul"
        /\ out' = IF out = "fft" THEN Transform(out, "fft", "time")
                  ELSE Transform(out, "product_fft", "product")
    BY <1>6 DEF InverseOut, calling
  <2>2. /\ out \in {"time", "product_fft", "garbage"}
        /\ out = "product_fft" => ok
    BY <2>1 DEF MulInv, HeadingFor, Transforms
  <2>3. out' \in {"stale", "time", "product", "garbage"}
    BY <2>1, <2>2 DEF Transform
  <2> QED
    BY <2>1, <2>3 DEF MulInv, HeadingFor, Initialising, Building, Transforms
<1>7. CASE AllocScratch
  <2>1. /\ pc = "malloc(tmp)" /\ call = "my_poly_mul"
        /\ \/ pc' = "my_fft_init" /\ ret' = "my_FFT(out)" /\ out' = "time" /\ tmp' = "time"
           \/ pc' = "return" /\ out' = out
    BY <1>7 DEF AllocScratch, calling, EnterInit
  <2>2. out = "stale"
    BY <2>1 DEF MulInv
  <2> QED
    BY <2>1, <2>2 DEF MulInv, HeadingFor, Initialising, Building, Transforms
<1>8. CASE FreeScratch
  <2>1. pc = "free(tmp)" /\ pc' = "return" /\ out' = out /\ call = "my_poly_mul"
    BY <1>8 DEF FreeScratch, calling
  <2> QED
    BY <2>1 DEF MulInv, HeadingFor, Initialising, Building, Transforms
<1>9. CASE FreeAll \/ Return
  BY <1>9 DEF FreeAll, Return, calling, IInv, ControlInv
<1>10. CASE UNCHANGED vars
  BY <1>10 DEF vars, calling, buffers, MulInv, HeadingFor, Initialising, Building,
               Transforms, TableReady, Supported
<1> QED
  BY <1>1, <1>2, <1>3, <1>4, <1>5, <1>6, <1>7, <1>8, <1>9, <1>10
  DEF Next, Steps

(***************************************************************************)
(* my_poly_mul never returns with the caller's buffer in the FFT domain,   *)
(* whatever allocation fails in its three calls of my_fft_init.            *)
(***************************************************************************)
THEOREM ProductComesBack == Spec => []ComesBack
<1>1. MulInv => ComesBack
  BY DEF MulInv, ComesBack
<1> QED
  BY <1>1, InitIInv, NextIInv, InitMulInv, NextMulInv, PTL DEF Spec

LEMMA InitPreparedInv == Init => PreparedInv
BY DEF Init, PreparedInv

LEMMA NextPreparedInv == IInv /\ PreparedInv /\ [Next]_vars => PreparedInv'
<1> USE DEF Transforms
<1> SUFFICES ASSUME IInv, PreparedInv, [Next]_vars, prepared', pc' # "idle"
             PROVE  PreparedInv'
  BY DEF PreparedInv
<1>1. CASE Calls
  <2>1. PICK l \in Logn, f \in {"my_fft_init", "my_fft_free", "my_FFT", "my_iFFT",
                                "my_poly_mul"} :
          /\ Start(f, l) /\ (f = "my_fft_free" => l = 0)
          /\ f = "my_fft_init" => pc' = "my_fft_init" /\ ret' = "return" /\ out' = "stale"
          /\ f = "my_FFT" => pc' = "my_fft_init" /\ ret' = "my_FFT(out)" /\ out' = "time"
          /\ f = "my_iFFT" => pc' = "my_fft_init" /\ ret' = "my_iFFT(out)" /\ out' = "fft"
          /\ f = "my_poly_mul" => pc' = "malloc(tmp)" /\ out' = "stale"
          /\ f = "my_fft_free" => pc' = "my_fft_free"
    <3>1. 0 \in Logn
      BY CacheAssumption DEF Logn
    <3> QED
      BY <1>1, <3>1 DEF Calls, CallFree, CallInit, CallFFT, CallIFFT, CallMul, EnterInit
  <2>2. /\ call' = f /\ logn' = l /\ tabs' = tabs
        /\ Supported(l) /\ tabs[l].ready
    BY <2>1 DEF Start
  <2>3. f # "my_fft_free" /\ TableReady'
    BY <2>1, <2>2 DEF Supported, TableReady
  <2> QED
    BY <2>1, <2>2, <2>3 DEF PreparedInv, HeadingFor, Initialising, Building
<1>2. CASE InitSteps
  <2>1. /\ Initialising
        /\ UNCHANGED <<call, logn, prepared, ret, out, tmp>>
        /\ TableReady => pc' = ret /\ ok' = TRUE /\ TableReady'
    BY <1>2, InitStepsFlow
  <2>2. prepared /\ pc = "my_fft_init"
    BY <2>1 DEF PreparedInv, Initialising, Building
  <2>3. /\ pc' = ret /\ ok' = TRUE /\ TableReady'
    BY <2>1, <2>2 DEF PreparedInv
  <2>4. \/ call = "my_fft_init" /\ ret = "return" /\ out = "stale"
        \/ call = "my_FFT" /\ ret = "my_FFT(out)" /\ out = "time"
        \/ call = "my_iFFT" /\ ret = "my_iFFT(out)" /\ out = "fft"
        \/ /\ call = "my_poly_mul"
           /\ \/ ret = "my_FFT(out)" /\ out = "time" /\ tmp = "time"
              \/ ret = "my_FFT(tmp)" /\ out = "fft" /\ tmp = "time"
              \/ ret = "my_iFFT(out)" /\ out = "product_fft"
    BY <2>2 DEF PreparedInv, HeadingFor
  <2> QED
    BY <2>1, <2>3, <2>4 DEF PreparedInv, HeadingFor, Building
<1>3. CASE ForwardOut
  <2>1. /\ pc = "my_FFT(out)" /\ prepared /\ UNCHANGED <<call, logn, tabs, ok, tmp>>
        /\ out' = Transform(out, "time", "fft")
        /\ \/ call = "my_FFT" /\ pc' = "return"
           \/ call # "my_FFT" /\ pc' = "my_fft_init" /\ ret' = "my_FFT(tmp)"
    BY <1>3 DEF ForwardOut, calling, EnterInit
  <2>2. ok /\ TableReady /\ out = "time"
        /\ (call = "my_FFT" \/ (call = "my_poly_mul" /\ tmp = "time"))
    BY <2>1 DEF PreparedInv, HeadingFor, Initialising, Building
  <2>3. out' = "fft" /\ TableReady'
    BY <2>1, <2>2 DEF Transform, TableReady, Supported
  <2> QED
    BY <2>1, <2>2, <2>3 DEF PreparedInv, HeadingFor, Initialising, Building
<1>4. CASE ForwardTmp
  <2>1. /\ pc = "my_FFT(tmp)" /\ pc' = "my_poly_mul_fft" /\ prepared
        /\ UNCHANGED <<call, logn, tabs, ok, out>>
        /\ tmp' = Transform(tmp, "time", "fft")
    BY <1>4 DEF ForwardTmp, calling
  <2>2. ok /\ TableReady /\ call = "my_poly_mul" /\ out = "fft" /\ tmp = "time"
    BY <2>1 DEF PreparedInv, HeadingFor, Initialising, Building
  <2>3. tmp' = "fft" /\ TableReady'
    BY <2>1, <2>2 DEF Transform, TableReady, Supported
  <2> QED
    BY <2>1, <2>2, <2>3 DEF PreparedInv, HeadingFor, Initialising, Building
<1>5. CASE PolyMulFFT
  <2>1. /\ pc = "my_poly_mul_fft" /\ pc' = "my_fft_init" /\ ret' = "my_iFFT(out)"
        /\ prepared /\ UNCHANGED <<call, logn, tabs>>
    BY <1>5 DEF PolyMulFFT, calling, EnterInit
  <2>2. TableReady /\ call = "my_poly_mul" /\ out = "fft" /\ tmp = "fft"
    BY <2>1 DEF PreparedInv, HeadingFor, Initialising, Building
  <2>3. out' = "product_fft"
    BY <1>5, <2>2 DEF PolyMulFFT, TableReady, Supported
  <2>4. TableReady'
    BY <2>1, <2>2 DEF TableReady, Supported
  <2> QED
    BY <2>1, <2>2, <2>3, <2>4 DEF PreparedInv, HeadingFor, Initialising, Building
<1>6. CASE InverseOut
  <2>1. /\ pc = "my_iFFT(out)" /\ prepared /\ UNCHANGED <<call, logn, tabs>>
        /\ pc' = IF call = "my_iFFT" THEN "return" ELSE "free(tmp)"
        /\ out' = IF out = "fft" THEN Transform(out, "fft", "time")
                  ELSE Transform(out, "product_fft", "product")
    BY <1>6 DEF InverseOut, calling
  <2>2. /\ ok /\ TableReady
        /\ \/ call = "my_iFFT" /\ out = "fft"
           \/ call = "my_poly_mul" /\ out = "product_fft"
    BY <2>1 DEF PreparedInv, HeadingFor, Initialising, Building
  <2>3. /\ call = "my_iFFT" => out' = "time"
        /\ call = "my_poly_mul" => out' = "product"
    BY <2>1, <2>2 DEF Transform
  <2>4. TableReady'
    BY <2>1, <2>2 DEF TableReady, Supported
  <2> QED
    BY <2>1, <2>2, <2>3, <2>4 DEF PreparedInv, HeadingFor, Initialising, Building
<1>7. CASE AllocScratch
  <2>1. /\ pc = "malloc(tmp)" /\ prepared /\ UNCHANGED <<call, logn, tabs>>
        /\ \/ pc' = "my_fft_init" /\ ret' = "my_FFT(out)" /\ out' = "time" /\ tmp' = "time"
           \/ pc' = "return" /\ out' = out
    BY <1>7 DEF AllocScratch, calling, EnterInit
  <2>2. TableReady /\ call = "my_poly_mul" /\ out = "stale"
    BY <2>1 DEF PreparedInv, HeadingFor, Initialising, Building
  <2>3. TableReady'
    BY <2>1, <2>2 DEF TableReady, Supported
  <2> QED
    BY <2>1, <2>2, <2>3 DEF PreparedInv, HeadingFor, Initialising, Building
<1>8. CASE FreeScratch
  <2>1. /\ pc = "free(tmp)" /\ pc' = "return" /\ prepared
        /\ UNCHANGED <<call, logn, tabs, out>>
    BY <1>8 DEF FreeScratch, calling
  <2>2. TableReady /\ call = "my_poly_mul" /\ out = "product"
    BY <2>1 DEF PreparedInv, HeadingFor, Initialising, Building
  <2>3. TableReady'
    BY <2>1, <2>2 DEF TableReady, Supported
  <2> QED
    BY <2>1, <2>2, <2>3 DEF PreparedInv, HeadingFor, Initialising, Building
<1>9. CASE FreeAll \/ Return
  <2>1. FreeAll => prepared /\ pc = "my_fft_free" /\ call = "my_fft_free"
    BY DEF FreeAll, calling, IInv, ControlInv
  <2> QED
    BY <1>9, <2>1 DEF PreparedInv, Return
<1>10. CASE UNCHANGED vars
  BY <1>10 DEF vars, calling, buffers, PreparedInv, HeadingFor, Initialising, Building,
               TableReady, Supported
<1> QED
  BY <1>1, <1>2, <1>3, <1>4, <1>5, <1>6, <1>7, <1>8, <1>9, <1>10
  DEF Next, Steps

(***************************************************************************)
(* With its tables built in advance a transform cannot fail, and           *)
(* my_poly_mul fails only by leaving the caller's buffer alone.            *)
(***************************************************************************)
THEOREM PreparedCallsDeliver == Spec => []PreparedDelivers
<1>1. PreparedInv => PreparedDelivers
  <2> SUFFICES ASSUME PreparedInv, pc = "return", prepared
               PROVE  out = Wanted \/ (call = "my_poly_mul" /\ out = "stale")
    BY DEF PreparedDelivers
  <2> QED
    BY DEF PreparedInv, Wanted, HeadingFor, Initialising, Building
<1> QED
  BY <1>1, InitIInv, NextIInv, InitPreparedInv, NextPreparedInv, PTL DEF Spec

-----------------------------------------------------------------------------
(***************************************************************************)
(* TwiddleCache implements CacheSpec, for any number of sizes and any      *)
(* heap: every step of the code maps to a step of the contract or to none. *)
(***************************************************************************)

(***************************************************************************)
(* The way of a call through the code, and what its buffer holds there;    *)
(* my_poly_mul's is MulInv.  A transform that has no table knows it.       *)
(***************************************************************************)
RouteInv ==
  /\ call = "none" <=> pc = "idle"
  /\ call = "my_fft_init" =>
       (Initialising /\ ret = "return" /\ out = "stale") \/ pc = "return"
  /\ call = "my_fft_free" => pc \in {"my_fft_free", "return"}
  /\ call = "my_FFT" =>
       (HeadingFor("my_FFT(out)") /\ out = "time") \/ pc = "return"
  /\ call = "my_iFFT" =>
       (HeadingFor("my_iFFT(out)") /\ out = "fft") \/ pc = "return"
  /\ pc \in Transforms /\ TableReady => ok
  /\ call = "my_poly_mul" /\ pc # "malloc(tmp)" /\ out = "product" => TableReady

RInv == IInv /\ MulInv /\ PreparedInv /\ RouteInv

-----------------------------------------------------------------------------
(* What the steps do to the set of ready sizes.                            *)
LEMMA ReadyIsTableReady == IInv => (TableReady <=> logn \in Ready)
BY DEF IInv, TableInv, TableReady, Supported, Ready, Sizes

LEMMA ReadyKept == UNCHANGED tabs => UNCHANGED Ready
BY DEF Ready

LEMMA InitStepsReady ==
  ASSUME IInv, InitSteps
  PROVE  \/ ~InitFill /\ UNCHANGED Ready
         \/ /\ InitFill /\ logn \in (1 .. MYFFT_MAX_LOGN) \ Ready
            /\ Ready' = Ready \cup {logn}
<1> USE DEF Ready
<1>1. CASE InitCheckReady
  BY <1>1 DEF InitCheckReady, InitFill
<1>2. ASSUME Building
      PROVE  /\ logn \in (1 .. MYFFT_MAX_LOGN) \ Ready /\ logn \in DOMAIN tabs
             /\ DOMAIN tabs = 0 .. MYFFT_MAX_LOGN
  BY <1>2 DEF IInv, ControlInv, HeapType, Supported
<1>3. CASE InitMalloc
  <2>1. Building /\ ~InitFill
    BY <1>3 DEF InitMalloc, InitFill, Building
  <2>2. PICK p : tabs' = [tabs EXCEPT ![logn].ptr[Arrays[next]] = p]
    BY <1>3 DEF InitMalloc
  <2> QED
    BY <2>1, <2>2, <1>2
<1>4. CASE InitFail
  <2>1. Building /\ ~InitFill /\ tabs' = [tabs EXCEPT ![logn] = EmptyTab]
    BY <1>4 DEF InitFail, InitFill, Building
  <2> QED
    BY <2>1, <1>2 DEF EmptyTab
<1>5. CASE InitSucceed
  <2>1. Building /\ ~InitFill
    BY <1>5 DEF InitSucceed, InitFill, Building
  <2>2. PICK b : tabs' = [tabs EXCEPT ![logn].bytes = b]
    BY <1>5 DEF InitSucceed
  <2> QED
    BY <2>1, <2>2, <1>2
<1>6. CASE InitFill
  <2>1. Building /\ tabs' = [tabs EXCEPT ![logn].ready = TRUE]
    BY <1>6 DEF InitFill, Building
  <2>2. \A l \in 0 .. MYFFT_MAX_LOGN :
          tabs'[l].ready <=> (l = logn \/ tabs[l].ready)
    BY <2>1, <1>2 DEF IInv, HeapType
  <2> QED
    BY <2>1, <2>2, <1>2, <1>6
<1> QED
  BY <1>1, <1>3, <1>4, <1>5, <1>6 DEF InitSteps

(* my_fft_init returns what is then true of its tables.                    *)
LEMMA InitStepsAnswer ==
  ASSUME IInv, InitSteps, pc' \notin {"malloc", "check", "fill"}
  PROVE  ok' \in BOOLEAN /\ (ok' <=> logn \in Ready')
<1>1. CASE InitCheckReady
  <2>1. \/ ~Supported(logn) /\ ok' = FALSE
        \/ Supported(logn) /\ tabs[logn].ready /\ ok' = TRUE
    BY <1>1 DEF InitCheckReady, ReturnInit
  <2>2. UNCHANGED tabs
    BY <1>1 DEF InitCheckReady
  <2> QED
    BY <2>1, <2>2, ReadyIsTableReady, ReadyKept DEF TableReady
<1>2. CASE InitFail
  <2>1. ok' = FALSE /\ Building
    BY <1>2 DEF InitFail, ReturnInit, Building
  <2>2. logn \notin Ready
    BY <2>1 DEF IInv, ControlInv, Ready
  <2> QED
    BY <1>2, <2>1, <2>2, InitStepsReady DEF InitFail, InitFill, InitSteps
<1>3. CASE InitFill
  BY <1>3, InitStepsReady DEF InitFill, ReturnInit
<1>4. CASE InitMalloc \/ InitSucceed
  BY <1>4 DEF InitMalloc, InitSucceed
<1> QED
  BY <1>1, <1>2, <1>3, <1>4 DEF InitSteps

LEMMA FreeAllReady == IInv /\ FreeAll => Ready' = {}
BY DEF FreeAll, Ready, EmptyTab

-----------------------------------------------------------------------------
LEMMA InitRouteInv == Init => RouteInv
BY DEF Init, RouteInv, Transforms

(* A step that moves on to pc' without touching the tables.                *)
LEMMA TableReadyKept == UNCHANGED <<tabs, logn>> => (TableReady <=> TableReady')
BY DEF TableReady, Supported

LEMMA NextRouteInv == IInv /\ MulInv /\ RouteInv /\ [Next]_vars => RouteInv'
<1> USE DEF Transforms
<1> SUFFICES ASSUME IInv, MulInv, RouteInv, [Next]_vars
             PROVE  RouteInv'
  OBVIOUS
<1>1. CASE Calls
  <2>1. \/ CallFree
        \/ \E l \in Logn : CallInit(l) \/ CallFFT(l) \/ CallIFFT(l) \/ CallMul(l)
    BY <1>1 DEF Calls
  <2> QED
    BY <2>1 DEF CallFree, CallInit, CallFFT, CallIFFT, CallMul, Start, EnterInit,
                RouteInv, HeadingFor, Initialising, Building
<1>2. CASE InitSteps
  <2>1. /\ Initialising
        /\ UNCHANGED <<call, logn, prepared, ret, out, tmp>>
        /\ (Initialising' /\ pc' # "my_fft_init") \/ pc' = ret
        /\ TableReady => pc' = ret /\ ok' = TRUE /\ TableReady'
    BY <1>2, InitStepsFlow
  <2>2. \/ call = "my_fft_init" /\ ret = "return" /\ out = "stale"
        \/ call = "my_FFT" /\ ret = "my_FFT(out)" /\ out = "time"
        \/ call = "my_iFFT" /\ ret = "my_iFFT(out)" /\ out = "fft"
        \/ call = "my_poly_mul" /\ ret \in Transforms /\ pc # "malloc(tmp)"
    BY <2>1 DEF RouteInv, MulInv, HeadingFor, Initialising, Building, IInv, FlowType
  <2>3. pc' \in Transforms /\ TableReady' => ok'
    <3> SUFFICES ASSUME pc' \in Transforms, TableReady' PROVE ok'
      OBVIOUS
    <3>1. logn \in Ready'
      BY <2>1 DEF TableReady, Ready, Supported
    <3> QED
      BY <1>2, <3>1, InitStepsAnswer
  <2> QED
    BY <2>1, <2>2, <2>3 DEF RouteInv, HeadingFor, Initialising, Building
<1>3. CASE ForwardOut
  <2>1. /\ pc = "my_FFT(out)" /\ UNCHANGED <<call, logn, tabs>>
        /\ out' = Transform(out, "time", "fft")
        /\ IF call = "my_FFT" THEN pc' = "return"
           ELSE pc' = "my_fft_init" /\ ret' = "my_FFT(tmp)"
    BY <1>3 DEF ForwardOut, calling, EnterInit
  <2>2. out = "time" /\ call \in {"my_FFT", "my_poly_mul"}
    BY <2>1 DEF RouteInv, MulInv, HeadingFor, Initialising, Building, IInv, FlowType
  <2>3. out' # "product"
    BY <2>1, <2>2 DEF Transform
  <2> QED
    BY <2>1, <2>2, <2>3 DEF RouteInv, HeadingFor, Initialising, Building
<1>4. CASE ForwardTmp
  <2>1. /\ pc = "my_FFT(tmp)" /\ pc' = "my_poly_mul_fft"
        /\ UNCHANGED <<call, logn, tabs, out>>
    BY <1>4 DEF ForwardTmp, calling
  <2>2. call = "my_poly_mul"
    BY <2>1 DEF RouteInv, HeadingFor, Initialising, Building, IInv, FlowType
  <2> QED
    BY <2>1, <2>2, TableReadyKept DEF RouteInv
<1>5. CASE PolyMulFFT
  <2>1. /\ pc = "my_poly_mul_fft" /\ pc' = "my_fft_init" /\ ret' = "my_iFFT(out)"
        /\ UNCHANGED <<call, logn, tabs>>
    BY <1>5 DEF PolyMulFFT, calling, EnterInit
  <2>2. call = "my_poly_mul" /\ out \in {"time", "fft"}
    BY <2>1 DEF RouteInv, MulInv, HeadingFor, Initialising, Building, IInv, FlowType
  <2>3. out' # "product"
    BY <1>5, <2>2 DEF PolyMulFFT
  <2> QED
    BY <2>1, <2>2, <2>3 DEF RouteInv
<1>6. CASE InverseOut
  <2>1. /\ pc = "my_iFFT(out)" /\ UNCHANGED <<call, logn, tabs>>
        /\ pc' = IF call = "my_iFFT" THEN "return" ELSE "free(tmp)"
        /\ out' = IF out = "fft" THEN Transform(out, "fft", "time")
                  ELSE Transform(out, "product_fft", "product")
    BY <1>6 DEF InverseOut, calling
  <2>2. call \in {"my_iFFT", "my_poly_mul"}
    BY <2>1 DEF RouteInv, HeadingFor, Initialising, Building, IInv, FlowType
  <2>3. call = "my_poly_mul" =>
          /\ out \in {"time", "product_fft", "garbage"}
          /\ out = "product_fft" => TableReady
    BY <2>1 DEF MulInv, HeadingFor
  <2>4. call = "my_poly_mul" /\ out' = "product" => TableReady
    BY <2>1, <2>3 DEF Transform
  <2> QED
    BY <2>1, <2>2, <2>4, TableReadyKept DEF RouteInv
<1>7. CASE AllocScratch
  <2>1. /\ pc = "malloc(tmp)" /\ call = "my_poly_mul" /\ UNCHANGED <<call, logn, tabs>>
        /\ \/ pc' = "my_fft_init" /\ out' = "time"
           \/ pc' = "return" /\ out' = out
    BY <1>7 DEF AllocScratch, calling, EnterInit, IInv, ControlInv
  <2>2. out' # "product"
    BY <2>1 DEF MulInv
  <2> QED
    BY <2>1, <2>2 DEF RouteInv
<1>8. CASE FreeScratch
  <2>1. /\ pc = "free(tmp)" /\ pc' = "return" /\ UNCHANGED <<call, logn, tabs, out>>
    BY <1>8 DEF FreeScratch, calling
  <2>2. call = "my_poly_mul"
    BY <2>1 DEF RouteInv, HeadingFor, Initialising, Building, IInv, FlowType
  <2> QED
    BY <2>1, <2>2, TableReadyKept DEF RouteInv
<1>9. CASE FreeAll
  <2>1. /\ pc = "my_fft_free" /\ pc' = "return" /\ call = "my_fft_free"
        /\ call' = "my_fft_free"
    BY <1>9 DEF FreeAll, calling, IInv, ControlInv
  <2> QED
    BY <2>1 DEF RouteInv
<1>10. CASE Return
  BY <1>10 DEF Return, RouteInv
<1>11. CASE UNCHANGED vars
  BY <1>11 DEF vars, calling, buffers, RouteInv, HeadingFor, Initialising, Building,
               TableReady, Supported
<1> QED
  BY <1>1, <1>2, <1>3, <1>4, <1>5, <1>6, <1>7, <1>8, <1>9, <1>10, <1>11
  DEF Next, Steps

-----------------------------------------------------------------------------
(* Away from "idle" and "return" the contract sees a call that runs.       *)
LEMMA RunningStatus ==
  ASSUME pc # "idle", pc # "return" PROVE Status = "running"
BY DEF Status

LEMMA InitMaps == Init => Cache!Init
BY DEF Init, Cache!Init, Ready, EmptyTab, Status

(* Steps the contract does not see.                                        *)
LEMMA SilentStep ==
  ASSUME UNCHANGED <<Ready, call, logn, prepared, Status>>
  PROVE  UNCHANGED Cache!vars
BY DEF Cache!vars

LEMMA CallMaps == RInv /\ Calls => Cache!Next
<1> SUFFICES ASSUME RInv, Calls PROVE Cache!Next
  OBVIOUS
<1>1. PICK l \in Logn, f \in {"my_fft_init", "my_fft_free", "my_FFT", "my_iFFT",
                              "my_poly_mul"} :
        /\ Start(f, l) /\ (f = "my_fft_free" => l = 0)
        /\ pc' \in {"my_fft_init", "malloc(tmp)", "my_fft_free"}
  <2>1. 0 \in Logn
    BY CacheAssumption DEF Logn
  <2> QED
    BY <2>1 DEF Calls, CallFree, CallInit, CallFFT, CallIFFT, CallMul, EnterInit
<1>2. Status = "idle" /\ Status' = "running"
  BY <1>1 DEF Start, Status
<1>3. UNCHANGED Ready
  BY <1>1, ReadyKept DEF Start
<1>4. call' = f /\ logn' = l /\ prepared' = (l \in Ready)
  <2>1. (Supported(l) /\ tabs[l].ready) <=> l \in Ready
    BY DEF RInv, IInv, TableInv, Supported, Ready, Sizes
  <2>2. prepared' = (Supported(l) /\ tabs[l].ready)
    BY <1>1 DEF Start
  <2> QED
    BY <1>1, <2>1, <2>2 DEF Start, Supported, Ready
<1>5. Cache!Call(f, l)
  BY <1>2, <1>3, <1>4 DEF Cache!Call
<1> QED
  BY <1>1, <1>5 DEF Cache!Next, Cache!Single, Logn

LEMMA InitStepMaps == RInv /\ InitSteps => [Cache!Next]_(Cache!vars)
<1> SUFFICES ASSUME RInv, InitSteps PROVE [Cache!Next]_(Cache!vars)
  OBVIOUS
<1>1. /\ Initialising
      /\ UNCHANGED <<call, logn, prepared, ret, out, tmp>>
      /\ (Initialising' /\ pc' # "my_fft_init") \/ pc' = ret
  BY InitStepsFlow DEF RInv
<1>2. Status = "running"
  BY <1>1, RunningStatus DEF Initialising, Building
<1>3. \/ call = "my_fft_init" /\ ret = "return"
      \/ call \in {"my_FFT", "my_iFFT", "my_poly_mul"} /\ ret \in Transforms
  BY <1>1 DEF RInv, RouteInv, MulInv, HeadingFor, Initialising, Building, Transforms,
              IInv, FlowType
<1>4. InitFill => pc' = ret
  BY DEF InitFill, ReturnInit
<1>5. pc' # "return" => Status' = "running"
  BY <1>1, <1>3 DEF Status, Initialising, Building, Transforms
<1>6. pc' = "return" =>
        /\ call = "my_fft_init"
        /\ ok' \in BOOLEAN /\ (ok' <=> logn \in Ready')
        /\ Status' = IF ok' THEN "done" ELSE "untouched"
  <2> SUFFICES ASSUME pc' = "return"
               PROVE  /\ call = "my_fft_init"
                      /\ ok' \in BOOLEAN /\ (ok' <=> logn \in Ready')
                      /\ Status' = IF ok' THEN "done" ELSE "untouched"
    OBVIOUS
  <2>1. call = "my_fft_init"
    BY <1>1, <1>3 DEF Initialising, Building, Transforms
  <2>2. ok' \in BOOLEAN /\ (ok' <=> logn \in Ready')
    BY InitStepsAnswer DEF RInv
  <2> QED
    BY <1>1, <2>1, <2>2 DEF Status, Outcome
<1>7. CASE InitFill
  <2>1. /\ logn \in (1 .. MYFFT_MAX_LOGN) \ Ready
        /\ Ready' = Ready \cup {logn}
    BY <1>7, InitStepsReady DEF RInv
  <2>2. Status' = IF call = "my_fft_init" THEN "done" ELSE "running"
    BY <1>3, <1>4, <1>5, <1>6, <1>7, <2>1 DEF Transforms
  <2>3. Cache!Build
    BY <1>1, <1>2, <1>3, <2>1, <2>2 DEF Cache!Build, Cache!Single
  <2> QED
    BY <2>3 DEF Cache!Next
<1>8. CASE ~InitFill /\ pc' # "return"
  BY <1>1, <1>2, <1>5, <1>8, InitStepsReady, SilentStep DEF RInv
<1>9. CASE ~InitFill /\ pc' = "return"
  <2>1. UNCHANGED Ready
    BY <1>9, InitStepsReady DEF RInv
  <2>2. \/ logn \in Ready /\ Status' = "done"
        \/ logn \notin Ready /\ Status' = "untouched"
    BY <1>6, <1>9, <2>1
  <2>3. Cache!Deliver \/ Cache!Refuse
    BY <1>1, <1>2, <1>6, <1>9, <2>1, <2>2
    DEF Cache!Deliver, Cache!Refuse, Cache!End, Cache!Single
  <2> QED
    BY <2>3 DEF Cache!Next
<1> QED
  BY <1>7, <1>8, <1>9

LEMMA TransformMaps ==
  RInv /\ (ForwardOut \/ ForwardTmp \/ InverseOut \/ PolyMulFFT)
    => [Cache!Next]_(Cache!vars)
<1> USE DEF Transforms
<1> SUFFICES ASSUME RInv, ForwardOut \/ ForwardTmp \/ InverseOut \/ PolyMulFFT
             PROVE  [Cache!Next]_(Cache!vars)
  OBVIOUS
<1>1. Status = "running" /\ UNCHANGED <<call, logn, prepared, tabs, ok>>
  BY RunningStatus
  DEF ForwardOut, ForwardTmp, InverseOut, PolyMulFFT, calling
<1>2. UNCHANGED Ready
  BY <1>1, ReadyKept
<1>3. CASE pc' # "return"
  <2>1. pc' # "idle"
    BY DEF ForwardOut, ForwardTmp, InverseOut, PolyMulFFT, EnterInit
  <2>2. Status' = "running"
    BY <1>3, <2>1 DEF Status
  <2> QED
    BY <1>1, <1>2, <2>2, SilentStep
<1>4. CASE pc' = "return"
  <2>1. /\ pc \in Transforms /\ call \in {"my_FFT", "my_iFFT"}
        /\ call = "my_FFT" => out = "time" /\ out' = Transform(out, "time", "fft")
        /\ call = "my_iFFT" => out = "fft" /\ out' = Transform(out, "fft", "time")
    BY <1>4 DEF ForwardOut, ForwardTmp, InverseOut, PolyMulFFT, EnterInit, RInv,
                RouteInv, HeadingFor, Initialising, Building
  <2>2. ok \in BOOLEAN /\ (ok <=> logn \in Ready)
    BY <2>1, ReadyIsTableReady DEF RInv, IInv, ControlInv, RouteInv, FlagType
  <2>3. CASE ok
    <3>1. Status' = "done"
      BY <1>1, <1>4, <2>1, <2>3 DEF Status, Outcome, Wanted, Transform
    <3> QED
      BY <1>1, <1>2, <2>1, <2>2, <2>3, <3>1
      DEF Cache!Next, Cache!Deliver, Cache!End, Cache!Single
  <2>4. CASE ~ok
    <3>1. Status' = "untouched"
      BY <1>1, <1>4, <2>1, <2>4 DEF Status, Outcome, Wanted, Original, Transform
    <3> QED
      BY <1>1, <1>2, <2>1, <2>2, <2>4, <3>1
      DEF Cache!Next, Cache!Refuse, Cache!End, Cache!Single
  <2> QED
    BY <2>2, <2>3, <2>4
<1> QED
  BY <1>3, <1>4

LEMMA ScratchMaps ==
  RInv /\ (AllocScratch \/ FreeScratch) => [Cache!Next]_(Cache!vars)
<1> SUFFICES ASSUME RInv, AllocScratch \/ FreeScratch
             PROVE  [Cache!Next]_(Cache!vars)
  OBVIOUS
<1>1. Status = "running" /\ UNCHANGED <<call, logn, prepared, tabs, ok>>
  BY RunningStatus DEF AllocScratch, FreeScratch, calling
<1>2. call = "my_poly_mul" /\ UNCHANGED Ready
  BY <1>1, ReadyKept
  DEF AllocScratch, FreeScratch, RInv, IInv, ControlInv, RouteInv, FlowType,
      HeadingFor, Initialising, Building
<1>3. CASE pc' # "return"
  <2>1. pc' # "idle"
    BY DEF AllocScratch, FreeScratch, EnterInit
  <2>2. Status' = "running"
    BY <1>3, <2>1 DEF Status
  <2> QED
    BY <1>1, <1>2, <2>2, SilentStep
<1>4. CASE pc' = "return"
  <2>1. pc # "idle" /\ out' = out
    BY <1>4 DEF AllocScratch, FreeScratch, EnterInit
  <2>2. Status' = IF out = "product" THEN "done"
                  ELSE IF out = "stale" THEN "untouched" ELSE "spoilt"
    BY <1>1, <1>2, <1>4, <2>1 DEF Status, Outcome, Wanted, Original
  <2>3. CASE out = "product"
    <3>1. logn \in Ready
      BY <1>2, <2>3, ReadyIsTableReady DEF RInv, RouteInv, MulInv
    <3> QED
      BY <1>1, <1>2, <2>2, <2>3, <3>1 DEF Cache!Next, Cache!Deliver, Cache!End
  <2>4. CASE out = "stale"
    BY <1>1, <1>2, <2>2, <2>4
    DEF Cache!Next, Cache!Refuse, Cache!End, Cache!Single
  <2>5. CASE out \notin {"product", "stale"}
    <3>1. pc = "free(tmp)"
      BY <1>2, <2>5 DEF AllocScratch, FreeScratch, RInv, MulInv
    <3>2. prepared \in BOOLEAN /\ ~prepared
      BY <1>2, <2>1, <2>5, <3>1
      DEF RInv, PreparedInv, IInv, FlagType, HeadingFor, Initialising, Building
    <3> QED
      BY <1>1, <1>2, <2>2, <2>5, <3>2 DEF Cache!Next, Cache!Spoil, Cache!End
  <2> QED
    BY <2>3, <2>4, <2>5
<1> QED
  BY <1>3, <1>4

LEMMA FreeAllMaps == RInv /\ FreeAll => Cache!Next
<1> SUFFICES ASSUME RInv, FreeAll PROVE Cache!Next
  OBVIOUS
<1>1. /\ call = "my_fft_free" /\ Status = "running" /\ pc' = "return"
      /\ UNCHANGED <<call, logn, prepared>>
  BY RunningStatus DEF FreeAll, calling, RInv, IInv, ControlInv
<1>2. Ready' = {}
  BY FreeAllReady DEF RInv
<1>3. Status' = "done"
  BY <1>1 DEF Status, Outcome
<1> QED
  BY <1>1, <1>2, <1>3 DEF Cache!Next, Cache!Forget

LEMMA ReturnMaps == RInv /\ Return => Cache!Next
<1> SUFFICES ASSUME RInv, Return PROVE Cache!Next
  OBVIOUS
<1>1. Status \in {"done", "untouched", "spoilt"}
  BY DEF Return, Status, Outcome
<1>2. Status' = "idle" /\ UNCHANGED Ready
  BY ReadyKept DEF Return, Status
<1> QED
  BY <1>1, <1>2 DEF Return, Cache!Next, Cache!Leave

LEMMA StutterMaps == UNCHANGED vars => UNCHANGED Cache!vars
BY DEF vars, calling, buffers, Cache!vars, Ready, Status, Outcome, Wanted, Original

LEMMA NextMaps == RInv /\ [Next]_vars => [Cache!Next]_(Cache!vars)
BY CallMaps, InitStepMaps, TransformMaps, ScratchMaps, FreeAllMaps, ReturnMaps,
   StutterMaps DEF Next, Steps

(***************************************************************************)
(* myfft.c keeps the contract of CacheSpec with any allocations failing:   *)
(* its tables come with a call for their size and go with my_fft_free, a   *)
(* call is refused only for want of them, and a buffer is spoilt only by   *)
(* a my_poly_mul that did not find them ready.                             *)
(***************************************************************************)
THEOREM ContractKept == Spec => ImplementsCache
<1>1. Init => RInv
  BY InitIInv, InitMulInv, InitPreparedInv, InitRouteInv DEF RInv
<1>2. RInv /\ [Next]_vars => RInv'
  BY NextIInv, NextMulInv, NextPreparedInv, NextRouteInv DEF RInv
<1>3. Init => Cache!Init
  BY InitMaps
<1> QED
  BY <1>1, <1>2, <1>3, NextMaps, PTL DEF Spec, ImplementsCache, Cache!Spec

-----------------------------------------------------------------------------
(***************************************************************************)
(* Sums over finite sets, as MapThenSumSet of the community modules takes  *)
(* them: a recursive function over the subsets, which removes an element   *)
(* that it chooses.  That the order makes no difference is SumRemove.      *)
(***************************************************************************)
(* Every non-empty set of naturals has a least element.                    *)
LEMMA LeastElement ==
  ASSUME NEW S \in SUBSET Nat, S # {}
  PROVE  \E x \in S : \A y \in S : x <= y
<1>1. PICK x \in S : \A y \in S : ~ (<<y, x>> \in OpToRel(<, Nat))
  BY NatLessThanWellFounded, WFMin, Zenon
<1>2. \A y \in S : y < x => <<y, x>> \in OpToRel(<, Nat)
  BY DEF OpToRel
<1>3. \A y \in S : ~ (y < x)
  BY <1>1, <1>2, Zenon
<1>4. \A y \in S : y \in Nat /\ x \in Nat
  OBVIOUS
<1>5. \A y \in S : x <= y
  BY <1>3, <1>4, SMT
<1> QED
  BY <1>5

(* Induction, for a claim given as the set of the numbers it holds of.     *)
LEMMA CountInduction ==
  ASSUME NEW T, 0 \in T, \A k \in Nat : k \in T => k + 1 \in T
  PROVE  Nat \subseteq T
<1> DEFINE Bad == Nat \ T
<1> SUFFICES ASSUME Bad # {} PROVE FALSE
  OBVIOUS
<1>1. Bad \in SUBSET Nat
  OBVIOUS
<1>2. PICK x \in Bad : \A y \in Bad : x <= y
  <2> HIDE DEF Bad
  <2> QED  BY <1>1, LeastElement, Zenon
<1>3. x \in Nat /\ x # 0 /\ x \notin T
  OBVIOUS
<1>4. x - 1 \in Nat /\ x - 1 \in T
  BY <1>2, <1>3
<1>5. (x - 1) + 1 \in T
  BY <1>4
<1> QED
  BY <1>3, <1>5

Chosen(s) == CHOOSE x \in s : TRUE

Sum(f, S) == MapThenSumSet(LAMBDA x : f[x], S)

(* g is the recursive function over the subsets of S that Sum applies.     *)
Adds(f, S, g) ==
  g = [s \in SUBSET S |->
         IF s = {} THEN 0 ELSE f[Chosen(s)] + g[s \ {Chosen(s)}]]

(* The element that is taken next.                                         *)
LEMMA ChosenFacts ==
  ASSUME NEW s, IsFiniteSet(s), s # {}
  PROVE  /\ Chosen(s) \in s
         /\ IsFiniteSet(s \ {Chosen(s)})
         /\ Cardinality(s) \in Nat /\ Cardinality(s \ {Chosen(s)}) \in Nat
         /\ Cardinality(s) = Cardinality(s \ {Chosen(s)}) + 1
<1>1. Chosen(s) \in s
  BY DEF Chosen
<1>2. IsFiniteSet(s \ {Chosen(s)}) /\ Cardinality(s \ {Chosen(s)}) = Cardinality(s) - 1
  BY <1>1, FS_RemoveElement
<1>3. Cardinality(s) \in Nat /\ Cardinality(s \ {Chosen(s)}) \in Nat
  BY <1>2, FS_CardinalityType
<1> QED
  BY <1>1, <1>2, <1>3

LEMMA AddsExists ==
  ASSUME NEW S, NEW f, IsFiniteSet(S)
  PROVE  \E g : Adds(f, S, g)
<1> DEFINE Small(k) == {s \in SUBSET S : Cardinality(s) <= k}
           Eq(k, g) == g = [s \in Small(k) |->
                              IF s = {} THEN 0
                              ELSE f[Chosen(s)] + g[s \ {Chosen(s)}]]
           T == {k \in Nat : \E g : Eq(k, g)}
<1>1. \A s \in SUBSET S : IsFiniteSet(s) /\ Cardinality(s) \in Nat
  BY FS_Subset, FS_CardinalityType
<1>2. 0 \in T
  <2>1. \A s \in Small(0) : s = {}
    BY <1>1, FS_EmptySet
  <2>2. Eq(0, [s \in Small(0) |-> 0])
    BY <2>1
  <2> QED
    BY <2>2
<1>3. ASSUME NEW k \in Nat, k \in T PROVE k + 1 \in T
  <2>0. PICK g : Eq(k, g)
    BY <1>3
  <2> DEFINE h == [s \in Small(k + 1) |->
                     IF s = {} THEN 0 ELSE f[Chosen(s)] + g[s \ {Chosen(s)}]]
  <2>1. ASSUME NEW s \in Small(k + 1), s # {}
        PROVE  s \ {Chosen(s)} \in Small(k)
    BY <2>1, <1>1, ChosenFacts
  <2>2. \A s \in Small(k) : s \in Small(k + 1)
    BY <1>1
  <2>3. \A s \in Small(k) : h[s] = g[s]
    <3> SUFFICES ASSUME NEW s \in Small(k) PROVE h[s] = g[s]
      OBVIOUS
    <3>1. g[s] = IF s = {} THEN 0 ELSE f[Chosen(s)] + g[s \ {Chosen(s)}]
      <4> HIDE DEF Small
      <4> QED  BY <2>0, Zenon
    <3>2. h[s] = IF s = {} THEN 0 ELSE f[Chosen(s)] + g[s \ {Chosen(s)}]
      <4>1. s \in Small(k + 1)
        BY <2>2
      <4> HIDE DEF Small
      <4> QED  BY <4>1, Zenon
    <3> QED
      BY <3>1, <3>2
  <2>4. h = [s \in Small(k + 1) |->
               IF s = {} THEN 0 ELSE f[Chosen(s)] + h[s \ {Chosen(s)}]]
    <3>1. \A s \in Small(k + 1) :
            s # {} => h[s \ {Chosen(s)}] = g[s \ {Chosen(s)}]
      BY <2>1, <2>3
    <3> HIDE DEF Small
    <3> QED  BY <3>1
  <2>5. Eq(k + 1, h)
    BY <2>4
  <2> HIDE DEF h, Eq
  <2> QED
    BY <2>5
<1>4. Cardinality(S) \in T
  <2> HIDE DEF T
  <2>1. Nat \subseteq T
    BY <1>2, <1>3, CountInduction
  <2> QED
    BY <2>1, <1>1
<1>5. Small(Cardinality(S)) = SUBSET S
  BY FS_Subset
<1>6. PICK g : Eq(Cardinality(S), g)
  BY <1>4
<1> QED
  BY <1>5, <1>6, Zenon DEF Adds

LEMMA AddsUnique ==
  ASSUME NEW S, NEW U, NEW f, NEW h, NEW g, NEW e,
         Adds(f, S, g), Adds(h, U, e),
         NEW V, IsFiniteSet(V), V \subseteq S, V \subseteq U,
         \A x \in V : f[x] = h[x]
  PROVE  g[V] = e[V]
<1> DEFINE T == {k \in Nat : \A s \in SUBSET V : Cardinality(s) = k => g[s] = e[s]}
<1>1. \A s \in SUBSET V : IsFiniteSet(s) /\ Cardinality(s) \in Nat
  BY FS_Subset, FS_CardinalityType
<1>2. \A s \in SUBSET V :
        /\ g[s] = IF s = {} THEN 0 ELSE f[Chosen(s)] + g[s \ {Chosen(s)}]
        /\ e[s] = IF s = {} THEN 0 ELSE h[Chosen(s)] + e[s \ {Chosen(s)}]
  <2> TAKE s \in SUBSET V
  <2>1. s \in SUBSET S /\ s \in SUBSET U
    OBVIOUS
  <2> QED
    BY <2>1, Zenon DEF Adds
<1>3. 0 \in T
  <2>1. \A s \in SUBSET V : Cardinality(s) = 0 => s = {}
    BY <1>1, FS_EmptySet
  <2> QED
    BY <1>2, <2>1
<1>4. \A k \in Nat : k \in T => k + 1 \in T
  <2> SUFFICES ASSUME NEW k \in Nat, k \in T,
                      NEW s \in SUBSET V, Cardinality(s) = k + 1
               PROVE  g[s] = e[s]
    OBVIOUS
  <2>1. s # {}
    <3>1. Cardinality({}) = 0
      BY FS_EmptySet
    <3>2. k + 1 # 0
      OBVIOUS
    <3> HIDE DEF T
    <3> QED
      BY <3>1, <3>2
  <2>2. Chosen(s) \in s /\ Cardinality(s \ {Chosen(s)}) = k
    BY <2>1, <1>1, ChosenFacts
  <2>3. g[s \ {Chosen(s)}] = e[s \ {Chosen(s)}]
    BY <2>2
  <2> QED
    BY <1>2, <2>1, <2>2, <2>3
<1>5. Cardinality(V) \in T
  <2> HIDE DEF T
  <2>1. Nat \subseteq T
    BY <1>3, <1>4, CountInduction
  <2> QED
    BY <2>1, <1>1
<1> QED
  BY <1>5

LEMMA SumIs ==
  ASSUME NEW S, NEW f, IsFiniteSet(S)
  PROVE  \E g : Adds(f, S, g) /\ Sum(f, S) = g[S]
<1> DEFINE g == CHOOSE g : Adds(f, S, g)
<1>1. Adds(f, S, g)
  BY AddsExists
<1>2. Sum(f, S) = g[S]
  BY DEF Sum, MapThenSumSet, MapThenFoldSet, Adds, Chosen
<1> QED
  BY <1>1, <1>2

LEMMA SumEqual ==
  ASSUME NEW S, NEW f, NEW h, IsFiniteSet(S), \A x \in S : f[x] = h[x]
  PROVE  Sum(f, S) = Sum(h, S)
<1>1. PICK g : Adds(f, S, g) /\ Sum(f, S) = g[S]
  BY SumIs
<1>2. PICK e : Adds(h, S, e) /\ Sum(h, S) = e[S]
  BY SumIs
<1> QED
  BY <1>1, <1>2, AddsUnique

LEMMA SumChosen ==
  ASSUME NEW S, NEW f, IsFiniteSet(S)
  PROVE  Sum(f, S) = IF S = {} THEN 0
                     ELSE f[Chosen(S)] + Sum(f, S \ {Chosen(S)})
<1>1. PICK g : Adds(f, S, g) /\ Sum(f, S) = g[S]
  BY SumIs
<1>2. g[S] = IF S = {} THEN 0 ELSE f[Chosen(S)] + g[S \ {Chosen(S)}]
  BY <1>1, Zenon DEF Adds
<1>3. CASE S # {}
  <2>1. IsFiniteSet(S \ {Chosen(S)})
    BY <1>3, ChosenFacts
  <2>2. PICK e : Adds(f, S \ {Chosen(S)}, e)
                 /\ Sum(f, S \ {Chosen(S)}) = e[S \ {Chosen(S)}]
    BY <2>1, SumIs
  <2>3. g[S \ {Chosen(S)}] = e[S \ {Chosen(S)}]
    BY <1>1, <2>1, <2>2, AddsUnique
  <2> QED
    BY <1>1, <1>2, <1>3, <2>2, <2>3
<1>4. CASE S = {}
  BY <1>1, <1>2, <1>4
<1> QED
  BY <1>3, <1>4

LEMMA SumType ==
  ASSUME NEW S, NEW f, IsFiniteSet(S), \A x \in S : f[x] \in Int
  PROVE  \A s \in SUBSET S : Sum(f, s) \in Int
<1> DEFINE T == {k \in Nat : \A s \in SUBSET S :
                    Cardinality(s) = k => Sum(f, s) \in Int}
<1>1. \A s \in SUBSET S : IsFiniteSet(s) /\ Cardinality(s) \in Nat
  BY FS_Subset, FS_CardinalityType
<1>2. Sum(f, {}) = 0
  BY SumChosen, FS_EmptySet
<1>3. 0 \in T
  <2>1. \A s \in SUBSET S : Cardinality(s) = 0 => s = {}
    BY <1>1, FS_EmptySet
  <2>2. \A s \in SUBSET S : Cardinality(s) = 0 => Sum(f, s) \in Int
    BY <1>2, <2>1
  <2> QED
    BY <2>2
<1>4. ASSUME NEW k \in Nat, k \in T PROVE k + 1 \in T
  <2>1. ASSUME NEW s \in SUBSET S, Cardinality(s) = k + 1
        PROVE  Sum(f, s) \in Int
    <3>1. s # {}
      <4>1. Cardinality({}) = 0 /\ k + 1 # 0
        BY FS_EmptySet
      <4> HIDE DEF T
      <4> QED
        BY <4>1, <2>1
    <3>2. Chosen(s) \in s /\ Cardinality(s \ {Chosen(s)}) = k
      BY <2>1, <3>1, <1>1, ChosenFacts
    <3>3. Sum(f, s \ {Chosen(s)}) \in Int
      BY <3>2, <1>4
    <3>4. Sum(f, s) = f[Chosen(s)] + Sum(f, s \ {Chosen(s)})
      BY <1>1, <3>1, SumChosen
    <3> QED
      BY <3>2, <3>3, <3>4
  <2> QED
    BY <2>1
<1>5. Nat \subseteq T
  <2> HIDE DEF T
  <2> QED  BY <1>3, <1>4, CountInduction
<1> QED
  BY <1>1, <1>5

LEMMA SumRemove ==
  ASSUME NEW S, NEW f, IsFiniteSet(S), \A x \in S : f[x] \in Int
  PROVE  /\ Sum(f, S) \in Int
         /\ Sum(f, {}) = 0
         /\ \A x \in S : Sum(f, S) = f[x] + Sum(f, S \ {x})
<1> DEFINE Good(s) == /\ Sum(f, s) \in Int
                      /\ \A x \in s : Sum(f, s) = f[x] + Sum(f, s \ {x})
           T == {k \in Nat : \A s \in SUBSET S : Cardinality(s) = k => Good(s)}
<1>1. \A s \in SUBSET S : IsFiniteSet(s) /\ Cardinality(s) \in Nat
  BY FS_Subset, FS_CardinalityType
<1>6. \A s \in SUBSET S : Sum(f, s) \in Int
  BY SumType
<1>2. Sum(f, {}) = 0
  BY SumChosen, FS_EmptySet
<1>3. 0 \in T
  <2>1. \A s \in SUBSET S : Cardinality(s) = 0 => s = {}
    BY <1>1, FS_EmptySet
  <2>2. Good({})
    BY <1>2
  <2>3. \A s \in SUBSET S : Cardinality(s) = 0 => Good(s)
    <3> HIDE DEF Good
    <3> QED  BY <2>1, <2>2
  <2> HIDE DEF Good
  <2> QED
    BY <2>3
<1>4. ASSUME NEW k \in Nat, k \in T PROVE k + 1 \in T
  <2> SUFFICES ASSUME NEW s \in SUBSET S, Cardinality(s) = k + 1
               PROVE  Good(s)
    <3> HIDE DEF Good
    <3> QED  OBVIOUS
  <2> DEFINE c == Chosen(s)
  <2>1. s # {} /\ IsFiniteSet(s)
    <3>1. Cardinality({}) = 0 /\ k + 1 # 0
      BY FS_EmptySet
    <3> HIDE DEF T, Good
    <3> QED
      BY <3>1, <1>1
  <2>2. c \in s
    BY <2>1, ChosenFacts
  <2>3. ASSUME NEW x \in s
        PROVE  s \ {x} \in SUBSET S /\ Cardinality(s \ {x}) = k
    <3>1. Cardinality(s \ {x}) = Cardinality(s) - 1
      <4> HIDE DEF T, Good, c
      <4> QED  BY <2>1, <2>3, FS_RemoveElement
    <3> QED
      BY <3>1
  <2>4. \A x \in s : Good(s \ {x})
    BY <2>3, <1>4
  <2>5. Sum(f, s) = f[c] + Sum(f, s \ {c})
    BY <2>1, SumChosen
  <2>6. f[c] \in Int /\ Sum(f, s \ {c}) \in Int
    BY <2>2, <2>4
  <2>7. ASSUME NEW x \in s, x # c
        PROVE  Sum(f, s) = f[x] + Sum(f, s \ {x})
    <3>1. Sum(f, s \ {c}) = f[x] + Sum(f, (s \ {c}) \ {x})
      BY <2>2, <2>4, <2>7
    <3>2. Sum(f, s \ {x}) = f[c] + Sum(f, (s \ {x}) \ {c})
      BY <2>2, <2>4, <2>7
    <3>3. (s \ {c}) \ {x} = (s \ {x}) \ {c}
      OBVIOUS
    <3>4. f[x] \in Int /\ Sum(f, (s \ {c}) \ {x}) \in Int
      BY <1>6
    <3>5. Sum(f, s \ {x}) = f[c] + Sum(f, (s \ {c}) \ {x})
      BY <3>2, <3>3
    <3>6. Sum(f, s) = f[c] + (f[x] + Sum(f, (s \ {c}) \ {x}))
      BY <2>5, <3>1
    <3> HIDE DEF c, Good, T
    <3> QED
      BY <2>6, <3>4, <3>5, <3>6
  <2>8. Sum(f, s) \in Int
    BY <1>6
  <2>9. \A x \in s : Sum(f, s) = f[x] + Sum(f, s \ {x})
    <3> HIDE DEF c, Good, T
    <3> QED  BY <2>5, <2>7
  <2> QED
    BY <2>8, <2>9
<1>5. Cardinality(S) \in T
  <2> HIDE DEF T
  <2>1. Nat \subseteq T
    BY <1>3, <1>4, CountInduction
  <2> QED
    BY <2>1, <1>1
<1> QED
  BY <1>2, <1>5

-----------------------------------------------------------------------------
(***************************************************************************)
(* Accounting: a table that is ready has counted the bytes of its arrays.  *)
(***************************************************************************)
TableBytes(l) ==
  (2 * hn(l) + 2 * (IF hw(l) # 0 THEN hw(l) ELSE 1)) * SizeofDouble

BytesInv ==
  \A l \in Sizes :
    tabs[l].ready \/ (pc = "fill" /\ l = logn) => tabs[l].bytes = TableBytes(l)

LEMMA InitBytesInv == Init => BytesInv
BY DEF Init, BytesInv, Sizes, EmptyTab

LEMMA NextBytesInv == IInv /\ BytesInv /\ [Next]_vars => BytesInv'
<1> SUFFICES ASSUME IInv, BytesInv, [Next]_vars PROVE BytesInv'
  OBVIOUS
<1>0. /\ Building => logn \in Sizes /\ ~tabs[logn].ready
      /\ tabs \in [Sizes -> [ptr : [ArrayNames -> Address \cup {NULL}],
                             bytes : Nat, ready : BOOLEAN]]
  BY DEF IInv, ControlInv, Supported, Sizes, HeapType
<1>1. CASE InitMalloc
  <2>1. /\ pc = "malloc" /\ pc' \in {"malloc", "check"} /\ logn' = logn
        /\ \E p : tabs' = [tabs EXCEPT ![logn].ptr[Arrays[next]] = p]
    BY <1>1 DEF InitMalloc, calling
  <2>2. \A l \in Sizes : /\ tabs'[l].ready = tabs[l].ready
                         /\ tabs'[l].bytes = tabs[l].bytes
    BY <1>0, <2>1
  <2> QED
    BY <2>1, <2>2 DEF BytesInv, TableBytes
<1>2. CASE InitFail
  <2>1. /\ pc = "check" /\ pc' = ret /\ logn' = logn
        /\ tabs' = [tabs EXCEPT ![logn] = EmptyTab]
    BY <1>2 DEF InitFail, ReturnInit, calling
  <2>2. pc' # "fill" /\ logn \in Sizes
    BY <1>0, <2>1 DEF IInv, FlowType, Building
  <2>3. \A l \in Sizes : tabs'[l] = tabs[l] \/ ~tabs'[l].ready
    BY <1>0, <2>1, <2>2 DEF EmptyTab
  <2> QED
    BY <2>1, <2>2, <2>3 DEF BytesInv, TableBytes
<1>3. CASE InitSucceed
  <2>1. /\ pc = "check" /\ logn' = logn
        /\ tabs' = [tabs EXCEPT ![logn].bytes = TableBytes(logn)]
    BY <1>3 DEF InitSucceed, TableBytes, calling
  <2>2. logn \in Sizes /\ ~tabs[logn].ready
    BY <1>0, <2>1 DEF Building
  <2>3. tabs'[logn].bytes = TableBytes(logn)
    BY <1>0, <2>1, <2>2
  <2>4. \A l \in Sizes : l # logn => tabs'[l] = tabs[l]
    BY <1>0, <2>1
  <2>5. \A l \in Sizes : l # logn /\ tabs[l].ready => tabs[l].bytes = TableBytes(l)
    BY DEF BytesInv
  <2> QED
    BY <2>1, <2>3, <2>4, <2>5 DEF BytesInv, TableBytes
<1>4. CASE InitFill
  <2>1. /\ pc = "fill" /\ pc' = ret /\ logn' = logn
        /\ tabs' = [tabs EXCEPT ![logn].ready = TRUE]
    BY <1>4 DEF InitFill, ReturnInit, calling
  <2>2. \A l \in Sizes : /\ tabs'[l].bytes = tabs[l].bytes
                         /\ tabs'[l].ready => tabs[l].ready \/ l = logn
    BY <1>0, <2>1
  <2>3. pc' # "fill"
    BY <2>1 DEF IInv, FlowType
  <2> QED
    BY <2>1, <2>2, <2>3 DEF BytesInv, TableBytes
<1>5. CASE FreeAll
  <2>1. /\ pc' = "return" /\ tabs' = [l \in Sizes |-> IF l \in Ready THEN EmptyTab ELSE tabs[l]]
    BY <1>5 DEF FreeAll, Sizes
  <2>2. \A l \in Sizes : ~tabs'[l].ready
    BY <2>1 DEF EmptyTab, Ready, Sizes
  <2> QED
    BY <2>1, <2>2 DEF BytesInv
<1>6. CASE tabs' = tabs /\ pc' # "fill"
  BY <1>6 DEF BytesInv, TableBytes
<1>7. CASE UNCHANGED vars
  BY <1>7 DEF BytesInv, TableBytes, vars, calling
<1>8. CASE InitCheckReady
  <2>1. tabs' = tabs /\ pc' \in {ret, "malloc"}
    BY <1>8 DEF InitCheckReady, ReturnInit
  <2>2. pc' # "fill"
    BY <2>1 DEF IInv, FlowType
  <2> QED
    BY <1>6, <2>1, <2>2
<1>9. CASE Calls
  <2>1. tabs' = tabs /\ pc' # "fill"
    BY <1>9 DEF Calls, CallFree, CallInit, CallFFT, CallIFFT, CallMul, Start, EnterInit
  <2> QED
    BY <1>6, <2>1
<1>10. CASE ForwardOut \/ ForwardTmp \/ InverseOut \/ PolyMulFFT
            \/ AllocScratch \/ FreeScratch \/ Return
  <2>1. tabs' = tabs /\ pc' # "fill"
    BY <1>10 DEF ForwardOut, ForwardTmp, InverseOut, PolyMulFFT, AllocScratch,
                 FreeScratch, Return, EnterInit, calling, IInv, FlowType
  <2> QED
    BY <1>6, <2>1
<1> QED
  BY <1>1, <1>2, <1>3, <1>4, <1>5, <1>7, <1>8, <1>9, <1>10
  DEF Next, Steps, InitSteps

LEMMA SumFour ==
  ASSUME NEW S, NEW f, IsFiniteSet(S), \A x \in S : f[x] \in Int,
         NEW p \in S, NEW q \in S, NEW r \in S, NEW t \in S,
         p # q, p # r, p # t, q # r, q # t, r # t
  PROVE  Sum(f, S) = f[p] + f[q] + f[r] + f[t] + Sum(f, S \ {p, q, r, t})
<1> DEFINE S1 == S \ {p}
           S2 == S1 \ {q}
           S3 == S2 \ {r}
<1>1. IsFiniteSet(S1) /\ IsFiniteSet(S2) /\ IsFiniteSet(S3)
  BY FS_RemoveElement
<1>2. Sum(f, S) = f[p] + Sum(f, S1)
  BY SumRemove
<1>3. Sum(f, S1) = f[q] + Sum(f, S2)
  <2>1. q \in S1 /\ \A x \in S1 : f[x] \in Int
    OBVIOUS
  <2> HIDE DEF S1
  <2> QED  BY <1>1, <2>1, SumRemove
<1>4. Sum(f, S2) = f[r] + Sum(f, S3)
  <2>1. r \in S2 /\ \A x \in S2 : f[x] \in Int
    OBVIOUS
  <2> HIDE DEF S2
  <2> QED  BY <1>1, <2>1, SumRemove
<1>5. Sum(f, S3) = f[t] + Sum(f, S3 \ {t})
  <2>1. t \in S3 /\ \A x \in S3 : f[x] \in Int
    OBVIOUS
  <2> HIDE DEF S3
  <2> QED  BY <1>1, <2>1, SumRemove
<1>6. S3 \ {t} = S \ {p, q, r, t}
  OBVIOUS
<1>7. S \ {p, q, r, t} \in SUBSET S
  OBVIOUS
<1>8. Sum(f, S \ {p, q, r, t}) \in Int
  BY <1>7, SumType
<1>9. f[p] \in Int /\ f[q] \in Int /\ f[r] \in Int /\ f[t] \in Int
  OBVIOUS
<1>10. Sum(f, S3) = f[t] + Sum(f, S \ {p, q, r, t})
  BY <1>5, <1>6
<1> HIDE DEF S1, S2, S3
<1> QED
  BY <1>2, <1>3, <1>4, <1>10, <1>8, <1>9

(* The sum my_fft_table_bytes takes over the tables.                       *)
LEMMA TableSum ==
  my_fft_table_bytes = Sum([l \in Sizes |-> tabs[l].bytes], Ready)
<1> DEFINE B == [l \in Sizes |-> tabs[l].bytes]
           Plain(g) == g = [s \in SUBSET Ready |->
                              IF s = {} THEN 0
                              ELSE tabs[Chosen(s)].bytes + g[s \ {Chosen(s)}]]
           g == CHOOSE g : Plain(g)
<1>1. IsFiniteSet(Ready)
  <2>1. IsFiniteSet(Sizes)
    BY CacheAssumption, FS_Interval DEF Sizes
  <2> QED
    BY <2>1, FS_Subset DEF Ready, Sizes
<1>2. \A s \in SUBSET Ready : s # {} => B[Chosen(s)] = tabs[Chosen(s)].bytes
  BY DEF Chosen, Ready, Sizes
<1>3. \A e : Adds(B, Ready, e) <=> Plain(e)
  <2> HIDE DEF B
  <2> QED  BY <1>2 DEF Adds
<1>4. \E e : Plain(e)
  <2>1. PICK e : Adds(B, Ready, e)
    <3> HIDE DEF B
    <3> QED  BY <1>1, AddsExists
  <2> HIDE DEF B, Plain
  <2> QED  BY <2>1, <1>3
<1>5. Adds(B, Ready, g)
  <2>1. Plain(g)
    <3> HIDE DEF Plain
    <3> QED  BY <1>4
  <2> HIDE DEF B, Plain, g
  <2> QED  BY <1>3, <2>1
<1>6. my_fft_table_bytes = g[Ready]
  BY DEF my_fft_table_bytes, MapThenSumSet, MapThenFoldSet, Chosen
<1> HIDE DEF B, g
<1>7. PICK e : Adds(B, Ready, e) /\ Sum(B, Ready) = e[Ready]
  BY <1>1, SumIs
<1>8. g[Ready] = e[Ready]
  BY <1>1, <1>5, <1>7, AddsUnique
<1> QED
  BY <1>6, <1>7, <1>8 DEF B

(* The four blocks of a table.                                             *)
LEMMA TableBlocks ==
  ASSUME IInv, BytesInv, NEW l \in Ready
  PROVE  \E p, q, r, t \in Live :
           /\ Pointers(l) = {p, q, r, t}
           /\ p # q /\ p # r /\ p # t /\ q # r /\ q # t /\ r # t
           /\ heap[p] + heap[q] + heap[r] + heap[t] = tabs[l].bytes
<1> DEFINE p == Ptr(l, "tw_re")
           q == Ptr(l, "tw_im")
           r == Ptr(l, "w_re")
           t == Ptr(l, "w_im")
<1>1. l \in Sizes /\ tabs[l].ready /\ tabs[l].bytes = TableBytes(l)
  BY DEF Ready, Sizes, BytesInv
<1>2. \A x \in ArrayNames : Ptr(l, x) # NULL /\ Owned(l, x)
  BY <1>1 DEF IInv, TableInv, Complete, HeapInv
<1>3. \A x, y \in ArrayNames :
        /\ Ptr(l, x) \in Live
        /\ heap[Ptr(l, x)] = Allocated(x, l) * SizeofDouble
        /\ Ptr(l, x) = Ptr(l, y) => x = y
  BY <1>1, <1>2 DEF Owned
<1>4. Pointers(l) = {p, q, r, t}
  BY DEF Pointers, Ptr, ArrayNames
<1>5. p # q /\ p # r /\ p # t /\ q # r /\ q # t /\ r # t
  BY <1>3 DEF ArrayNames
<1>6. heap[p] + heap[q] + heap[r] + heap[t] = tabs[l].bytes
  <2>1. Pow2[l] \in Nat
    BY <1>1, CacheAssumption DEF Sizes, Logn
  <2>2. hn(l) \in Nat /\ hw(l) \in Nat
    BY <2>1 DEF hn, hw
  <2>3. /\ heap[p] = hn(l) * 8 /\ heap[q] = hn(l) * 8
        /\ heap[r] = (IF hw(l) # 0 THEN hw(l) ELSE 1) * 8
        /\ heap[t] = (IF hw(l) # 0 THEN hw(l) ELSE 1) * 8
    BY <1>3 DEF ArrayNames, Allocated, SizeofDouble
  <2>4. tabs[l].bytes = (2 * hn(l) + 2 * (IF hw(l) # 0 THEN hw(l) ELSE 1)) * 8
    BY <1>1 DEF TableBytes, SizeofDouble
  <2> HIDE DEF p, q, r, t
  <2> QED
    BY <2>2, <2>3, <2>4
<1> QED
  BY <1>3, <1>4, <1>5, <1>6 DEF ArrayNames

Blocks(R) == UNION {Pointers(l) : l \in R}

LEMMA BlocksSum ==
  ASSUME IInv, BytesInv
  PROVE  \A R \in SUBSET Ready :
           /\ IsFiniteSet(Blocks(R))
           /\ Sum(heap, Blocks(R)) = Sum([l \in Sizes |-> tabs[l].bytes], R)
<1> DEFINE B == [l \in Sizes |-> tabs[l].bytes]
           Good(R) == IsFiniteSet(Blocks(R)) /\ Sum(heap, Blocks(R)) = Sum(B, R)
           T == {k \in Nat : \A R \in SUBSET Ready : Cardinality(R) = k => Good(R)}
<1>1. IsFiniteSet(Ready)
  <2>1. IsFiniteSet(Sizes)
    BY CacheAssumption, FS_Interval DEF Sizes
  <2> QED
    BY <2>1, FS_Subset DEF Ready, Sizes
<1>2. \A R \in SUBSET Ready : IsFiniteSet(R) /\ Cardinality(R) \in Nat
  BY <1>1, FS_Subset, FS_CardinalityType
<1>3. 0 \in T
  <2>1. Blocks({}) = {}
    BY DEF Blocks
  <2>2. Good({})
    <3> HIDE DEF B
    <3> QED  BY <2>1, SumChosen, FS_EmptySet
  <2>3. \A R \in SUBSET Ready : Cardinality(R) = 0 => R = {}
    BY <1>2, FS_EmptySet
  <2> HIDE DEF Good
  <2> QED
    BY <2>2, <2>3
<1>4. ASSUME NEW k \in Nat, k \in T PROVE k + 1 \in T
  <2> SUFFICES ASSUME NEW R \in SUBSET Ready, Cardinality(R) = k + 1
               PROVE  Good(R)
    <3> HIDE DEF Good
    <3> QED  OBVIOUS
  <2>1. R # {} /\ IsFiniteSet(R)
    <3>1. Cardinality({}) = 0
      BY FS_EmptySet
    <3> QED
      BY <3>1, <1>2
  <2> DEFINE l == Chosen(R)
             Q == R \ {l}
  <2>2. l \in R /\ Cardinality(Q) = k
    BY <2>1, ChosenFacts
  <2>3. Good(Q)
    <3> HIDE DEF Good, l
    <3> QED  BY <2>2, <1>4
  <2>4. Sum(B, R) = B[l] + Sum(B, Q)
    <3> HIDE DEF B
    <3> QED  BY <2>1, SumChosen
  <2>5. l \in Ready /\ B[l] = tabs[l].bytes
    BY <2>2 DEF Ready, Sizes
  <2> HIDE DEF l
  <2>6. PICK p, q, r, t \in Live :
           /\ Pointers(l) = {p, q, r, t}
           /\ p # q /\ p # r /\ p # t /\ q # r /\ q # t /\ r # t
           /\ heap[p] + heap[q] + heap[r] + heap[t] = tabs[l].bytes
    BY <2>5, TableBlocks
  <2>7. Blocks(R) = Blocks(Q) \cup {p, q, r, t}
    BY <2>2, <2>6 DEF Blocks
  <2>8. Blocks(R) \ {p, q, r, t} = Blocks(Q)
    <3>1. ASSUME NEW m \in Q, NEW x \in ArrayNames
          PROVE  Ptr(m, x) \notin {p, q, r, t}
      <4>1. m \in Sizes /\ m # l /\ tabs[m].ready /\ l \in Sizes
        BY <2>2 DEF Ready, Sizes
      <4>2. Ptr(m, x) # NULL /\ Owned(m, x)
        BY <4>1 DEF IInv, TableInv, Complete, HeapInv
      <4>3. \A y \in ArrayNames : Ptr(m, x) # Ptr(l, y)
        BY <4>1, <4>2 DEF Owned
      <4> QED
        BY <4>3, <2>6 DEF Pointers, Ptr
    <3>2. \A z \in Blocks(Q) : z \notin {p, q, r, t}
      BY <3>1 DEF Blocks, Pointers, Ptr
    <3> QED
      BY <2>7, <3>2
  <2>9. IsFiniteSet(Blocks(R))
    <3>1. IsFiniteSet({p, q, r, t})
      <4>1. IsFiniteSet({p}) /\ IsFiniteSet({q}) /\ IsFiniteSet({r}) /\ IsFiniteSet({t})
        BY FS_Singleton
      <4>2. {p, q, r, t} = (({p} \cup {q}) \cup {r}) \cup {t}
        OBVIOUS
      <4>3. IsFiniteSet({p} \cup {q})
        BY <4>1, FS_Union
      <4>4. IsFiniteSet(({p} \cup {q}) \cup {r})
        BY <4>1, <4>3, FS_Union
      <4>5. IsFiniteSet((({p} \cup {q}) \cup {r}) \cup {t})
        BY <4>1, <4>4, FS_Union
      <4> QED
        BY <4>2, <4>5
    <3>2. IsFiniteSet(Blocks(Q))
      BY <2>3
    <3> HIDE DEF Good, T, B, Q
    <3>3. IsFiniteSet(Blocks(Q) \cup {p, q, r, t})
      BY <3>1, <3>2, FS_Union
    <3> QED
      BY <2>7, <3>3
  <2>10. \A z \in Blocks(R) : heap[z] \in Int
    <3>1. \A m \in Ready : \A z \in Pointers(m) : z \in Live
      BY TableBlocks
    <3>2. \A z \in Blocks(R) : z \in Live
      BY <3>1 DEF Blocks
    <3> QED
      BY <3>2 DEF IInv, HeapType
  <2>11. Sum(heap, Blocks(R)) =
           heap[p] + heap[q] + heap[r] + heap[t] + Sum(heap, Blocks(Q))
    <3>1. p \in Blocks(R) /\ q \in Blocks(R) /\ r \in Blocks(R) /\ t \in Blocks(R)
      BY <2>7
    <3> HIDE DEF Good, T, B, Q
    <3>2. Sum(heap, Blocks(R)) =
             heap[p] + heap[q] + heap[r] + heap[t] + Sum(heap, Blocks(R) \ {p, q, r, t})
      BY <3>1, <2>6, <2>9, <2>10, SumFour
    <3> QED
      BY <3>2, <2>8
  <2>12. Sum(heap, Blocks(R)) = Sum(B, R)
    BY <2>3, <2>4, <2>5, <2>6, <2>11
  <2> QED
    BY <2>9, <2>12
<1>5. Nat \subseteq T
  <2> HIDE DEF T
  <2> QED  BY <1>3, <1>4, CountInduction
<1>6. ASSUME NEW R \in SUBSET Ready PROVE Good(R)
  <2>1. Cardinality(R) \in T
    <3> HIDE DEF T
    <3> QED  BY <1>2, <1>5
  <2> HIDE DEF Good
  <2> QED  BY <2>1
<1> QED
  BY <1>6

LEMMA BytesInvImplies == IInv /\ BytesInv => Accounting
<1> SUFFICES ASSUME IInv, BytesInv, pc = "idle"
             PROVE  my_fft_table_bytes = MapThenSumSet(LAMBDA p : heap[p], Live)
  BY DEF Accounting
<1>1. scratch = NULL /\ ~Building
  BY DEF IInv, ControlInv, UsesScratch, Initialising, Building, Transforms
<1>2. Live = Blocks(Ready)
  <2>1. ASSUME NEW p \in Live PROVE p \in Blocks(Ready)
    <3>1. p # NULL
      BY CacheAssumption DEF IInv, HeapType
    <3>2. PICK l \in Sizes, x \in ArrayNames : p = Ptr(l, x)
      BY <1>1, <3>1 DEF IInv, HeapInv
    <3>3. l \in Ready
      BY <1>1, <3>1, <3>2 DEF IInv, TableInv, Ready, Sizes
    <3> QED
      BY <3>2, <3>3 DEF Blocks, Pointers, Ptr
  <2>2. \A l \in Ready : Pointers(l) \subseteq Live
    BY TableBlocks
  <2> QED
    BY <2>1, <2>2 DEF Blocks
<1>3. Sum(heap, Blocks(Ready)) = Sum([l \in Sizes |-> tabs[l].bytes], Ready)
  BY BlocksSum
<1> QED
  BY <1>2, <1>3, TableSum DEF Sum

(***************************************************************************)
(* my_fft_table_bytes, which the memory analysis prints, is the heap the   *)
(* tables hold at every point where a caller can ask: nothing is left of a *)
(* failed my_fft_init or of a my_poly_mul, and no array is forgotten.      *)
(***************************************************************************)
THEOREM BytesAreCounted == Spec => []Accounting
BY InitIInv, NextIInv, InitBytesInv, NextBytesInv, BytesInvImplies, PTL DEF Spec

=============================================================================

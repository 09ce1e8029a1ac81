-------------------------------- MODULE Heap --------------------------------
(***************************************************************************)
(* The heap of the firmware: what the linker script reserves, what _sbrk   *)
(* hands out, and the twiddle tables that live there.  Addresses are bytes *)
(* from the start of RAM; the end of the static data, _end, and the heap   *)
(* the linker script asks for vary, the image only has to link.            *)
(*                                                                         *)
(* malloc is the C library's: the first gap between live blocks that is    *)
(* large enough, or more memory from _sbrk.                                *)
(***************************************************************************)
EXTENDS Integers, FiniteSetsExt

CONSTANTS
  LENGTH_RAM,        \* bytes of RAM; _estack is its end
  Min_Stack_Size,    \* what _Min_Stack_Size reserves
  MinHeapSizes,      \* values for _Min_Heap_Size
  Ends,              \* values for _end
  MYFFT_MAX_LOGN,
  Pow2,              \* Pow2[l] is (size_t)1 << l
  Header,            \* bytes malloc adds to a block
  OtherSizes,        \* sizes of the C library's own blocks
  MaxOthers          \* bound: how many of them

Logn == 1 .. MYFFT_MAX_LOGN

HeapAssumption ==
  /\ {LENGTH_RAM, Min_Stack_Size, Header, MaxOthers} \subseteq Nat
  /\ MYFFT_MAX_LOGN \in Nat \ {0}
  /\ MinHeapSizes \subseteq Nat /\ Ends \subseteq Nat /\ OtherSizes \subseteq Nat
  /\ \A e \in Ends : e % 8 = 0
  /\ Pow2 \in [Logn -> Nat]
  /\ \A l, m \in Logn : l <= m => 2 <= Pow2[l] /\ Pow2[l] <= Pow2[m]

_estack == LENGTH_RAM

VARIABLES
  _end, _Min_Heap_Size,   \* chosen when the image is linked
  heap_end,               \* __sbrk_heap_end, or NULL
  live,                   \* the blocks in use
  ready,                  \* the sizes whose tables are ready
  phase,                  \* "prepare" (myfft_prepare) or "run"
  logn,                   \* the size my_fft_init is working on
  next                    \* its next array, 5: the check; 0: not in my_fft_init

vars == <<_end, _Min_Heap_Size, heap_end, live, ready, phase, logn, next>>
image == <<_end, _Min_Heap_Size>>

NULL == 0 - 1

(* ._user_heap_stack has to fit into RAM, or the link fails.               *)
Links == _end + _Min_Heap_Size + Min_Stack_Size <= LENGTH_RAM

Init ==
  /\ _end \in Ends /\ _Min_Heap_Size \in MinHeapSizes /\ Links
  /\ heap_end = NULL /\ live = {} /\ ready = {}
  /\ phase = "prepare" /\ logn = 1 /\ next = 0

-----------------------------------------------------------------------------
HeapEnd == IF heap_end = NULL THEN _end ELSE heap_end

(* Faulty variant: the stack's reservation is not kept free.               *)
max_heap_of_ram == _estack

(* _sbrk: where it refuses to go beyond.                                   *)
max_heap == _estack - Min_Stack_Size

(* Faulty variant: _sbrk keeps to the heap the linker reserved.            *)
_sbrkRefusesByReservation(incr) == HeapEnd + incr > _end + _Min_Heap_Size

_sbrkRefuses(incr) == HeapEnd + incr > max_heap

BlockSize(bytes) == ((bytes + Header + 7) \div 8) * 8

(* The gaps that are large enough, by the address where they begin.        *)
Starts == {_end} \cup {blk.at + blk.size : blk \in live}

Gaps(size) ==
  {s \in Starts : /\ s + size <= HeapEnd
                  /\ \A blk \in live : blk.at + blk.size <= s \/ s + size <= blk.at}

(* malloc(bytes) for an owner, who gets the block or NULL.                 *)
Malloc(bytes, owner) ==
  LET size == BlockSize(bytes)
      Take(a) == live' = live \cup {[at |-> a, size |-> size, owner |-> owner]}
  IN  IF Gaps(size) # {} THEN Take(Min(Gaps(size))) /\ heap_end' = heap_end
      ELSE IF _sbrkRefuses(size) THEN live' = live /\ heap_end' = HeapEnd
      ELSE Take(HeapEnd) /\ heap_end' = HeapEnd + size

-----------------------------------------------------------------------------
(* my_fft_init: four arrays, of hn doubles (two of them) and of hw.        *)
Max1(m) == IF m = 0 THEN 1 ELSE m

(* Faulty variant: tables for n coefficients, not for n/2 slots.           *)
AllocatedPerCoefficient(i, l) == IF i <= 2 THEN Pow2[l] ELSE Max1(Pow2[l] \div 4)

Allocated(i, l) == IF i <= 2 THEN Pow2[l] \div 2 ELSE Max1(Pow2[l] \div 4)

SizeofDouble == 8

Own(l) == {blk \in live : blk.owner = l}

(* myfft_prepare takes the sizes in order and stops at the first failure;  *)
(* afterwards any transform asks again for the tables it misses.           *)
CallInit(l) ==
  /\ next = 0 /\ l \notin ready
  /\ phase = "prepare" => l = logn
  /\ logn' = l /\ next' = 1
  /\ UNCHANGED <<image, heap_end, live, ready, phase>>

InitMalloc ==
  /\ next \in 1 .. 4
  /\ Malloc(Allocated(next, logn) * SizeofDouble, logn)
  /\ next' = next + 1
  /\ UNCHANGED <<image, ready, phase, logn>>

InitFail ==
  /\ next = 5 /\ Cardinality(Own(logn)) < 4
  /\ live' = live \ Own(logn)
  /\ phase' = "run" /\ next' = 0
  /\ UNCHANGED <<image, heap_end, ready, logn>>

(* Faulty variant: the loop of myfft_prepare goes one size too far.        *)
InitSucceedBeyond ==
  /\ next = 5 /\ Cardinality(Own(logn)) = 4
  /\ ready' = ready \cup {logn}
  /\ IF phase = "prepare" /\ logn <= MYFFT_MAX_LOGN
     THEN logn' = logn + 1 /\ phase' = phase
     ELSE logn' = logn /\ phase' = "run"
  /\ next' = 0
  /\ UNCHANGED <<image, heap_end, live>>

InitSucceed ==
  /\ next = 5 /\ Cardinality(Own(logn)) = 4
  /\ ready' = ready \cup {logn}
  /\ IF phase = "prepare" /\ logn < MYFFT_MAX_LOGN
     THEN logn' = logn + 1 /\ phase' = phase
     ELSE logn' = logn /\ phase' = "run"
  /\ next' = 0
  /\ UNCHANGED <<image, heap_end, live>>

(* The C library takes a block for itself, which it keeps.                 *)
Other ==
  /\ next = 0
  /\ Cardinality(Own(0)) < MaxOthers
  /\ \E bytes \in OtherSizes : Malloc(bytes, 0)
  /\ UNCHANGED <<image, ready, phase, logn, next>>

(* Every table is ready: nothing is allocated any more.                    *)
AllReady == next = 0 /\ ready = Logn /\ UNCHANGED vars

Next == (\E l \in Logn : CallInit(l)) \/ InitMalloc \/ InitFail \/ InitSucceed
        \/ Other \/ AllReady

Spec == Init /\ [][Next]_vars

-----------------------------------------------------------------------------
TypeOK ==
  /\ _end \in Ends /\ _Min_Heap_Size \in MinHeapSizes
  /\ heap_end \in Nat \cup {NULL}
  /\ \A blk \in live : blk.at \in Nat /\ blk.size \in Nat /\ blk.owner \in Logn \cup {0}
  /\ ready \subseteq Logn /\ phase \in {"prepare", "run"}
  /\ logn \in Logn /\ next \in 0 .. 5
  /\ phase = "prepare" => ready = 1 .. Cardinality(ready)

(***************************************************************************)
(* Static data, heap and stack keep apart: blocks do not overlap, lie      *)
(* above _end and below what is reserved for the stack, whatever the image *)
(* left of the RAM and whichever allocations were refused on the way.      *)
(***************************************************************************)
Apart ==
  /\ \A p, q \in live : p = q \/ p.at + p.size <= q.at \/ q.at + q.size <= p.at
  /\ \A p \in live : p.at >= _end /\ p.at + p.size <= HeapEnd
  /\ HeapEnd <= _estack - Min_Stack_Size
  /\ \A l \in ready : Cardinality(Own(l)) = 4

(***************************************************************************)
(* Memory is refused for lack of it only: when my_fft_init fails, the      *)
(* tables that are ready, the one that is tried and the C library's blocks *)
(* together do not fit below the stack's reservation, however often a size *)
(* was tried before and whatever was given back in between.                *)
(***************************************************************************)
TableSize(l) == MapThenSumSet(LAMBDA i : BlockSize(Allocated(i, l) * SizeofDouble), 1 .. 4)

RefusedForLack ==
  next = 5 /\ Cardinality(Own(logn)) < 4 =>
    _end + MapThenSumSet(TableSize, ready \cup {logn})
         + MapThenSumSet(LAMBDA blk : blk.size, Own(0)) > max_heap

(***************************************************************************)
(* The linker script's 0x8000 are enough for every table, whatever malloc  *)
(* adds and the C library takes; and as _sbrk looks at the stack's         *)
(* reservation only, it is the room that counts: an image that has as much *)
(* left over prepares every table, with whatever reservation it was linked.*)
(***************************************************************************)
Reserved == 32768

ReservedHeapSuffices ==
  max_heap - _end >= Reserved /\ phase = "run" => ready = Logn

(* The sum the number rests on: all tables, and the C library's blocks.    *)
TablesFit ==
  \A bytes \in {0} \cup {BlockSize(b) : b \in OtherSizes} :
    MapThenSumSet(TableSize, Logn) + MaxOthers * bytes <= Reserved

=============================================================================

---------------------------- MODULE VramAllocator ----------------------------
(***************************************************************************)
(* The allocator that the driver uses for VRAM frames and for managed      *)
(* virtual addresses (vram_alloc.h, vram_alloc.cpp): one heap whose        *)
(* callers allocate and free in any order.                                 *)
(***************************************************************************)
EXTENDS FreeList, FiniteSets, FiniteSetsExt

CONSTANTS Base, Size,  \* the range managed
          Align,       \* allocation unit
          Word,        \* 2^64, the range of uint64_t
          MaxRequest   \* bound: the largest request

ASSUME HeapAssumption ==
  /\ Base \in Nat /\ Size \in Nat \ {0} /\ Align \in Nat \ {0}
  /\ Word \in Nat /\ MaxRequest \in 0 .. Word - 1
  /\ Base % Align = 0 /\ Size % Align = 0 /\ Base + Size < Word

VARIABLES heap,
          grants  \* what callers were given: [start, bytes asked for]

\* The request in whole units, in 64-bit arithmetic.
RoundUp(bytes) == (((bytes + Align - 1) % Word) \div Align) * Align

allocatorVars == <<heap, grants>>

AllocatorInit == heap = EmptyHeap(Base, Size) /\ grants = {}

\* alloc; a failed or empty request changes nothing.
AllocBytes(bytes) ==
  /\ bytes # 0
  /\ \E b \in FirstFit(heap, RoundUp(bytes)) :
       /\ heap' = Carve(heap, b, RoundUp(bytes))
       /\ grants' = grants \cup {[start |-> b.start, bytes |-> bytes]}

\* A caller frees what it was given.
FreeGrant(g) ==
  /\ heap' = Free(heap, g.start)
  /\ grants' = grants \ {g}

AllocatorNext ==
  \/ \E bytes \in 0 .. MaxRequest : AllocBytes(bytes)
  \/ \E g \in grants : FreeGrant(g)

AllocatorSpec == AllocatorInit /\ [][AllocatorNext]_allocatorVars

----------------------------------------------------------------------------
(* Properties                                                              *)

Bytes(b) == b.start .. b.start + b.len - 1

\* Nothing is lost and nothing is handed out twice: free and live blocks
\* tile the range, so every byte is in exactly one of them, and bytes_live()
\* is the size of the live ones (prefetch sizes its window with it).
Tiles ==
  /\ \A a \in Base .. Base + Size - 1 :
       Cardinality({b \in heap.free : a \in Bytes(b)}) +
       Cardinality({b \in heap.live : a \in Bytes(b)}) = 1
  /\ heap.bytes = MapThenSumSet(LAMBDA b : b.len, heap.live)

\* The free list is "coalesced" (vram_alloc.h): no empty block, and no two
\* that touch.  With Tiles: once everything is freed, the largest request
\* fits again.
Coalesced ==
  \A b \in heap.free : /\ b.len > 0
                       /\ \A c \in heap.free : c.start # b.start + b.len

\* Every caller holds at least the bytes it asked for, and nobody shares.
\* Requests within Align of 2^64 break it (VramAllocator_wrap): rounding them
\* up wraps to 0, and alloc grants a block of no bytes.
GrantsHonoured ==
  \A g \in grants :
    /\ \E b \in heap.live : b.start = g.start /\ b.len >= g.bytes
    /\ \A o \in grants : o.start = g.start => o = g

\* All three, after any sequence of allocations and frees: exact tiling, a
\* coalesced free list, and every grant honoured.
HeapSound == Tiles /\ Coalesced /\ GrantsHonoured
=============================================================================

------------------------------ MODULE FreeList ------------------------------
(***************************************************************************)
(* The operations of the first-fit free list (vram_alloc.h,                *)
(* vram_alloc.cpp) on a heap: its two maps, start -> length, as sets of    *)
(* blocks, and its byte count.                                             *)
(***************************************************************************)
EXTENDS Integers

Block(a, n) == [start |-> a, len |-> n]
EmptyHeap(base, size) == [free |-> {Block(base, size)}, live |-> {}, bytes |-> 0]

\* std::map::emplace leaves an existing key alone.
Emplace(S, a, n) == IF \E b \in S : b.start = a THEN S ELSE S \cup {Block(a, n)}

\* The block that alloc picks, if any: the first that is large enough.
FirstFit(h, need) ==
  {b \in h.free : /\ b.len >= need
                  /\ \A c \in h.free : c.len >= need => b.start <= c.start}

\* alloc: take `need` from the front of free block b.
Carve(h, b, need) ==
  LET rest == h.free \ {b} IN
  [free  |-> IF b.len = need THEN rest
             ELSE Emplace(rest, b.start + need, b.len - need),
   live  |-> Emplace(h.live, b.start, need),
   bytes |-> h.bytes + need]

\* detach: the live block is gone from the live map, and not yet free.
Detach(h, b) == [h EXCEPT !.live = @ \ {b}, !.bytes = @ - b.len]

LowerBound(S, a) ==
  {b \in S : b.start >= a /\ \A c \in S : c.start >= a => b.start <= c.start}
Before(S, a) ==
  {b \in S : b.start < a /\ \A c \in S : c.start < a => c.start <= b.start}

\* The free blocks that a released block merges with.
Following(S, a, n) == {b \in LowerBound(S, a) : b.start = a + n}

\* Mutant: release looks at the following block only.
NoPreceding(S, a) == {}

Preceding(S, a) == {b \in Before(S, a) : b.start + b.len = a}

\* release: coalesce with the following block, then with the preceding one.
Release(h, a, n) ==
  LET next == Following(h.free, a, n)
      prev == Preceding(h.free, a)
      start == IF prev = {} THEN a ELSE (CHOOSE b \in prev : TRUE).start
      len == n + (IF next = {} THEN 0 ELSE (CHOOSE b \in next : TRUE).len)
               + (IF prev = {} THEN 0 ELSE (CHOOSE b \in prev : TRUE).len)
  IN [h EXCEPT !.free = Emplace(@ \ (next \cup prev), start, len)]

\* free: detach and release, if a starts a live block.
Free(h, a) ==
  LET found == {b \in h.live : b.start = a} IN
  IF found = {} THEN h
  ELSE LET b == CHOOSE x \in found : TRUE IN Release(Detach(h, b), a, b.len)
=============================================================================

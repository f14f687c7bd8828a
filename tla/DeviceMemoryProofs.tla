------------------------- MODULE DeviceMemoryProofs -------------------------
(***************************************************************************)
(* Theorems about VramAllocator and DeviceMemory, which share the heap of  *)
(* FreeList: that the allocator's heap stays sound under any sequence of   *)
(* calls, and that device memory is recycled only when nothing uses it,    *)
(* accounted for at all times, and refused only when there is none.        *)
(***************************************************************************)
EXTENDS DeviceMemory, VramAllocator, FiniteSetTheorems, TLAPS

----------------------------------------------------------------------------
(* Folds.  The models fold three operations over sets: the sum of lengths, *)
(* freeing frames, and recycling pending allocations.  That a fold obeys   *)
(* its recursion is induction over finite sets; it is done once, for a     *)
(* step chosen by name, by looking at a smallest counterexample.           *)

Pick(s) == CHOOSE x \in s : TRUE

FoldStep(op, x, v) == CASE op = "sum" -> x.len + v
                        [] op = "free" -> Free(v, x.frame)
                        [] op = "recycle" -> Recycle(x.alloc, v)

Folds(op, base, f, S) ==
  f = [s \in SUBSET S |->
         IF s = {} THEN base ELSE FoldStep(op, Pick(s), f[s \ {Pick(s)}])]

Folded(op, base, S) == (CHOOSE f : Folds(op, base, f, S))[S]

\* A set of subsets of a finite set has a smallest member.
LEMMA SmallestSubset ==
  ASSUME NEW S, IsFiniteSet(S), NEW B \in SUBSET (SUBSET S), B # {}
  PROVE  \E T \in B : \A U \in SUBSET T : U # T => U \notin B
<1>1. FiniteSubsetsOf(S) = SUBSET S
  BY FS_FiniteSubsetsOfFinite
<1>2. IsWellFoundedOn(StrictSubsetOrdering(S), SUBSET S)
  BY <1>1, FS_StrictSubsetOrderingWellFounded
<1>3. \E x \in B : \A y \in B : ~(<<y, x>> \in StrictSubsetOrdering(S))
  BY <1>2, WFMin
<1> QED BY <1>3 DEF StrictSubsetOrdering

\* The recursion for a set contains the recursion for its subsets.
LEMMA FoldsRestrict ==
  ASSUME NEW op, NEW base, NEW T, NEW U \in SUBSET T, NEW g,
         Folds(op, base, g, T)
  PROVE  Folds(op, base, [w \in SUBSET U |-> g[w]], U)
<1> DEFINE k == [w \in SUBSET U |-> g[w]]
<1>1. \A w \in SUBSET U :
        k[w] = IF w = {} THEN base ELSE FoldStep(op, Pick(w), k[w \ {Pick(w)}])
  <2> TAKE w \in SUBSET U
  <2>1. k[w] = g[w] /\ k[w \ {Pick(w)}] = g[w \ {Pick(w)}]
    OBVIOUS
  <2>2. g[w] = IF w = {} THEN base ELSE FoldStep(op, Pick(w), g[w \ {Pick(w)}])
    BY DEF Folds
  <2> QED BY <2>1, <2>2
<1>2. k = [w \in SUBSET U |-> k[w]]
  OBVIOUS
<1> HIDE DEF k
<1> QED BY <1>1, <1>2 DEF Folds

\* The recursion defines exactly one function.
LEMMA FoldsExist ==
  ASSUME NEW op, NEW base, NEW S, IsFiniteSet(S)
  PROVE  \E f : Folds(op, base, f, S) /\ \A g : Folds(op, base, g, S) => g = f
<1> DEFINE Good(T) == \E f : Folds(op, base, f, T)
                            /\ \A g : Folds(op, base, g, T) => g = f
           B == {T \in SUBSET S : ~Good(T)}
<1>1. SUFFICES ASSUME B # {} PROVE FALSE
  OBVIOUS
<1>2. PICK T \in B : \A U \in SUBSET T : U # T => U \notin B
  <2>1. B \in SUBSET (SUBSET S)
    OBVIOUS
  <2> HIDE DEF B
  <2> QED BY <1>1, <2>1, SmallestSubset
<1>3. T \in SUBSET S /\ ~Good(T) /\ \A U \in SUBSET T : U # T => Good(U)
  BY <1>2
<1> HIDE DEF B
<1> DEFINE F(U) == CHOOSE f : Folds(op, base, f, U)
           c == Pick(T)
           k == [s \in SUBSET T |->
                   IF s = T THEN IF T = {} THEN base
                                 ELSE FoldStep(op, c, F(T \ {c})[T \ {c}])
                   ELSE F(s)[s]]
<1>4. ASSUME NEW U \in SUBSET T, U # T
      PROVE  Folds(op, base, F(U), U) /\ \A g : Folds(op, base, g, U) => g = F(U)
  BY <1>3, <1>4
<1> HIDE DEF Good, F
<1>5. ASSUME NEW g, NEW R \in SUBSET T, Folds(op, base, g, R),
             NEW U \in SUBSET R, U # T
      PROVE  g[U] = F(U)[U]
  <2>1. Folds(op, base, [w \in SUBSET U |-> g[w]], U)
    BY <1>5, FoldsRestrict
  <2>2. [w \in SUBSET U |-> g[w]] = F(U)
    BY <1>4, <1>5, <2>1
  <2> QED BY <2>2
<1>6. T # {} => c \in T
  BY DEF Pick
<1>7. ASSUME NEW s \in SUBSET T
      PROVE  k[s] = IF s = {} THEN base
                    ELSE FoldStep(op, Pick(s), k[s \ {Pick(s)}])
  <2>1. CASE s = T
    BY <1>6, <2>1
  <2>2. CASE s # T
    <3> DEFINE u == s \ {Pick(s)}
    <3>1. k[s] = F(s)[s] /\ Folds(op, base, F(s), s)
      BY <1>4, <2>2
    <3>2. F(s)[s] = IF s = {} THEN base ELSE FoldStep(op, Pick(s), F(s)[u])
      BY <3>1 DEF Folds
    <3>3. u \in SUBSET s /\ u \in SUBSET T /\ u # T
      BY <2>2
    <3>4. k[u] = F(u)[u]
      BY <3>3
    <3>5. F(s)[u] = F(u)[u]
      BY <1>5, <3>1, <3>3
    <3> QED BY <3>1, <3>2, <3>4, <3>5
  <2> QED BY <2>1, <2>2
<1>8. k = [s \in SUBSET T |-> k[s]]
  OBVIOUS
<1> HIDE DEF k
<1>9. Folds(op, base, k, T)
  BY <1>7, <1>8 DEF Folds
<1>10. ASSUME NEW g, Folds(op, base, g, T)
       PROVE  g = k
  <2>1. \A s \in SUBSET T : s # T => g[s] = k[s]
    BY <1>5, <1>9, <1>10
  <2>2. g[T] = k[T]
    <3>1. g[T] = IF T = {} THEN base ELSE FoldStep(op, c, g[T \ {c}])
      BY <1>10 DEF Folds
    <3>2. T # {} => g[T \ {c}] = k[T \ {c}]
      BY <1>6, <2>1
    <3> QED BY <1>7, <3>1, <3>2
  <2>3. g = [s \in SUBSET T |-> g[s]]
    BY <1>10 DEF Folds
  <2> QED BY <1>8, <2>1, <2>2, <2>3
<1>11. Good(T)
  BY <1>9, <1>10 DEF Good
<1> QED BY <1>3, <1>11

\* What is folded over a set is folded over the rest of it first.
LEMMA Unfold ==
  ASSUME NEW op, NEW base, NEW S, IsFiniteSet(S)
  PROVE  Folded(op, base, S) =
           IF S = {} THEN base
           ELSE FoldStep(op, Pick(S), Folded(op, base, S \ {Pick(S)}))
<1> DEFINE F(T) == CHOOSE f : Folds(op, base, f, T)
<1>1. Folds(op, base, F(S), S)
  BY FoldsExist
<1>2. CASE S = {}
  BY <1>1, <1>2 DEF Folds, Folded
<1>3. CASE S # {}
  <2> DEFINE U == S \ {Pick(S)}
  <2>1. IsFiniteSet(U)
    BY FS_RemoveElement
  <2>2. Folds(op, base, F(U), U) /\ \A g : Folds(op, base, g, U) => g = F(U)
    BY <2>1, FoldsExist
  <2>3. Folds(op, base, [w \in SUBSET U |-> F(S)[w]], U)
    BY <1>1, FoldsRestrict
  <2>4. F(S)[U] = F(U)[U]
    <3> HIDE DEF F
    <3>1. [w \in SUBSET U |-> F(S)[w]] = F(U)
      BY <2>2, <2>3
    <3> QED BY <3>1
  <2>5. F(S)[S] = FoldStep(op, Pick(S), F(S)[U])
    BY <1>1, <1>3 DEF Folds
  <2>6. Folded(op, base, S) = F(S)[S] /\ Folded(op, base, U) = F(U)[U]
    BY DEF Folded
  <2> QED BY <1>3, <2>4, <2>5, <2>6
<1> QED BY <1>2, <1>3

LEMMA PickIn == ASSUME NEW S, S # {} PROVE Pick(S) \in S
BY DEF Pick

TotalLen(S) == MapThenSumSet(LAMBDA b : b.len, S)

\* The folds of the two models.
LEMMA FoldsAre ==
  /\ \A S : TotalLen(S) = Folded("sum", 0, S)
  /\ \A h, S : FreeFrames(h, S) = Folded("free", h, S)
  /\ Reclaimed = Folded("recycle", Memory, Retirable)
<1>1. \A S : TotalLen(S) = Folded("sum", 0, S)
  BY DEF TotalLen, MapThenSumSet, MapThenFoldSet, Folded, Folds, FoldStep, Pick
<1>2. \A h, S : FreeFrames(h, S) = Folded("free", h, S)
  BY DEF FreeFrames, FoldSet, MapThenFoldSet, Folded, Folds, FoldStep, Pick
<1>3. Reclaimed = Folded("recycle", Memory, Retirable)
  BY DEF Reclaimed, FoldSet, MapThenFoldSet, Folded, Folds, FoldStep, Pick
<1> QED BY <1>1, <1>2, <1>3

----------------------------------------------------------------------------
(* The heap                                                                *)

Blocks == [start : Int, len : Nat \ {0}]
End(b) == b.start + b.len

\* The sum of lengths does not depend on the order of summation.
LEMMA SumUnfolds ==
  ASSUME NEW S, IsFiniteSet(S)
  PROVE  TotalLen(S) = IF S = {} THEN 0
                       ELSE Pick(S).len + TotalLen(S \ {Pick(S)})
BY Unfold, FoldsAre DEF FoldStep

LEMMA SumRemove ==
  ASSUME NEW S \in SUBSET Blocks, IsFiniteSet(S)
  PROVE  /\ TotalLen(S) \in Nat
         /\ \A x \in S : TotalLen(S) = x.len + TotalLen(S \ {x})
<1> DEFINE Good(T) == /\ TotalLen(T) \in Nat
                      /\ \A x \in T : TotalLen(T) = x.len + TotalLen(T \ {x})
           B == {T \in SUBSET S : ~Good(T)}
<1>1. SUFFICES ASSUME B # {} PROVE FALSE
  OBVIOUS
<1>2. PICK T \in B : \A U \in SUBSET T : U # T => U \notin B
  <2>1. B \in SUBSET (SUBSET S)
    OBVIOUS
  <2> HIDE DEF B
  <2> QED BY <1>1, <2>1, SmallestSubset
<1>3. T \in SUBSET S /\ ~Good(T) /\ \A U \in SUBSET T : U # T => Good(U)
  BY <1>2
<1> HIDE DEF B
<1>4. \A U \in SUBSET T : IsFiniteSet(U)
  BY <1>3, FS_Subset
<1>5. CASE T = {}
  <2>1. TotalLen(T) = 0
    BY <1>4, <1>5, SumUnfolds
  <2> QED BY <1>3, <1>5, <2>1
<1>6. CASE T # {}
  <2> DEFINE c == Pick(T)
  <2>1. c \in T /\ c.len \in Nat
    BY <1>3, <1>6, PickIn DEF Blocks
  <2>2. TotalLen(T) = c.len + TotalLen(T \ {c})
    BY <1>4, <1>6, SumUnfolds
  <2>3. Good(T \ {c})
    BY <1>3, <2>1
  <2>4. TotalLen(T) \in Nat
    BY <2>1, <2>2, <2>3
  <2>5. ASSUME NEW x \in T, x # c
        PROVE  TotalLen(T) = x.len + TotalLen(T \ {x})
    <3>1. Good(T \ {x}) /\ Good((T \ {x}) \ {c})
      BY <1>3
    <3>2. TotalLen(T \ {c}) = x.len + TotalLen((T \ {c}) \ {x})
      BY <2>3, <2>5
    <3>3. TotalLen(T \ {x}) = c.len + TotalLen((T \ {x}) \ {c})
      BY <2>1, <2>5, <3>1
    <3>4. TotalLen((T \ {c}) \ {x}) = TotalLen((T \ {x}) \ {c})
      <4>1. (T \ {c}) \ {x} = (T \ {x}) \ {c}
        OBVIOUS
      <4> QED BY <4>1
    <3>5. x.len \in Nat
      BY <1>3 DEF Blocks
    <3> HIDE DEF Good, c
    <3>6. TotalLen((T \ {x}) \ {c}) \in Nat
      BY <3>1 DEF Good
    <3> QED BY <2>1, <2>2, <3>2, <3>3, <3>4, <3>5, <3>6
  <2> QED BY <1>3, <2>2, <2>4, <2>5
<1> QED BY <1>5, <1>6

LEMMA SumAdd ==
  ASSUME NEW S \in SUBSET Blocks, IsFiniteSet(S), NEW b \in Blocks, b \notin S
  PROVE  TotalLen(S \cup {b}) = TotalLen(S) + b.len
<1>1. IsFiniteSet(S \cup {b}) /\ S \cup {b} \in SUBSET Blocks
  BY FS_AddElement
<1>2. TotalLen(S \cup {b}) = b.len + TotalLen((S \cup {b}) \ {b})
  BY <1>1, SumRemove
<1>3. TotalLen((S \cup {b}) \ {b}) = TotalLen(S)
  <2>1. (S \cup {b}) \ {b} = S
    OBVIOUS
  <2> QED BY <2>1
<1>4. b.len \in Nat /\ TotalLen(S) \in Nat
  BY SumRemove DEF Blocks
<1> QED BY <1>2, <1>3, <1>4

\* A sound heap over lo .. hi - 1: the blocks tile the range, and no two
\* free ones touch.
Apart(b, c) == End(b) <= c.start \/ End(c) <= b.start
Covers(b, x) == b.start <= x /\ x < End(b)
HeapOK(h, lo, hi) ==
  /\ h \in [free : SUBSET Blocks, live : SUBSET Blocks, bytes : Nat]
  /\ IsFiniteSet(h.live)
  /\ h.bytes = TotalLen(h.live)
  /\ h.free \cap h.live = {}
  /\ \A b \in h.free \cup h.live : lo <= b.start /\ End(b) <= hi
  /\ \A b, c \in h.free \cup h.live : b # c => Apart(b, c)
  /\ \A x \in lo .. hi - 1 : \E b \in h.free \cup h.live : Covers(b, x)
  /\ \A b, c \in h.free : c.start # End(b)

LEMMA EmptyHeapOK ==
  ASSUME NEW lo \in Int, NEW n \in Nat \ {0}
  PROVE  HeapOK(EmptyHeap(lo, n), lo, lo + n)
<1>1. TotalLen({}) = 0 /\ IsFiniteSet({})
  BY FS_EmptySet, SumUnfolds
<1>2. Block(lo, n) \in Blocks
  BY DEF Block, Blocks
<1> DEFINE h == EmptyHeap(lo, n)
<1>3. h.free = {Block(lo, n)} /\ h.live = {} /\ h.bytes = 0
      /\ h \in [free : SUBSET Blocks, live : SUBSET Blocks, bytes : Nat]
  BY <1>2 DEF EmptyHeap
<1>4. Block(lo, n).start = lo /\ End(Block(lo, n)) = lo + n
  BY DEF Block, End
<1> HIDE DEF h
<1>5. \A x \in lo .. lo + n - 1 : Covers(Block(lo, n), x)
  BY <1>4 DEF Covers
<1>6. \A x \in lo .. lo + n - 1 : \E b \in h.free \cup h.live : Covers(b, x)
  BY <1>3, <1>5
<1>7. h.free \cup h.live = {Block(lo, n)} /\ h.free \cap h.live = {}
  BY <1>3
<1>8. \A b, c \in h.free : c.start # End(b)
  BY <1>3, <1>4
<1>9. IsFiniteSet(h.live) /\ h.bytes = TotalLen(h.live)
  BY <1>1, <1>3
<1>10. HeapOK(h, lo, lo + n)
  BY <1>3, <1>4, <1>6, <1>7, <1>8, <1>9 DEF HeapOK
<1> QED BY <1>10 DEF h

\* Two blocks of a heap that start together are one.
LEMMA StartsDiffer ==
  ASSUME NEW h, NEW lo, NEW hi, HeapOK(h, lo, hi),
         NEW b \in h.free \cup h.live, NEW c \in h.free \cup h.live,
         b.start = c.start
  PROVE  b = c
BY DEF HeapOK, Apart, End, Blocks

LEMMA HeapCovers ==
  ASSUME NEW h, NEW lo, NEW hi, HeapOK(h, lo, hi), NEW x \in lo .. hi - 1
  PROVE  \E b \in h.free \cup h.live : Covers(b, x)
BY DEF HeapOK

\* alloc keeps a heap sound: the block it hands out was free, and no free
\* block is larger than before.
LEMMA CarveOK ==
  ASSUME NEW h, NEW lo \in Int, NEW hi \in Int, HeapOK(h, lo, hi),
         NEW n \in Nat \ {0}, NEW b \in FirstFit(h, n)
  PROVE  /\ HeapOK(Carve(h, b, n), lo, hi)
         /\ Carve(h, b, n).live = h.live \cup {Block(b.start, n)}
         /\ Block(b.start, n) \notin h.live
         /\ \A c \in Carve(h, b, n).free : \E d \in h.free : c.len <= d.len
<1> DEFINE k == Carve(h, b, n)
           new == Block(b.start, n)
           left == Block(b.start + n, b.len - n)
           Left == IF b.len = n THEN {} ELSE {left}
<1>1. b \in h.free /\ b \in Blocks /\ b.len >= n /\ b.start \in Int /\ b.len \in Nat
  BY DEF FirstFit, HeapOK, Blocks
<1>2. new \in Blocks /\ new.start = b.start /\ new.len = n /\ End(new) = b.start + n
  BY <1>1 DEF Block, Blocks, End
<1>3. b.len # n => /\ left \in Blocks /\ left.start = b.start + n
                   /\ left.len = b.len - n /\ End(left) = End(b)
  BY <1>1 DEF Block, Blocks, End
<1>4. \A c \in h.free \cup h.live : c # b => Apart(b, c)
  BY <1>1 DEF HeapOK
<1>5. \A c \in h.free \cup h.live :
        /\ c \in Blocks /\ c.start \in Int /\ c.len \in Nat \ {0} /\ End(c) = c.start + c.len
        /\ lo <= c.start /\ End(c) <= hi
  BY DEF HeapOK, Blocks, End
<1> HIDE DEF new, left
<1>6. k.live = h.live \cup {new} /\ new \notin h.live
  <2>1. \A c \in h.live : c.start # b.start
    BY <1>1, <1>4, <1>5 DEF HeapOK, Apart
  <2> QED BY <1>2, <2>1 DEF Carve, Emplace, new
<1>7. k.free = (h.free \ {b}) \cup Left
  <2>1. ASSUME b.len # n, NEW c \in h.free \ {b} PROVE c.start # b.start + n
    BY <1>1, <1>4, <1>5, <2>1 DEF Apart
  <2> QED BY <2>1 DEF Carve, Emplace, left
<1>8. k.bytes = h.bytes + n /\ k = [free |-> k.free, live |-> k.live, bytes |-> k.bytes]
  BY DEF Carve
<1> HIDE DEF k
<1>9. k \in [free : SUBSET Blocks, live : SUBSET Blocks, bytes : Nat]
  BY <1>2, <1>3, <1>6, <1>7, <1>8 DEF HeapOK
<1>10. IsFiniteSet(k.live) /\ k.bytes = TotalLen(k.live)
  <2>1. TotalLen(h.live \cup {new}) = TotalLen(h.live) + n
    BY <1>2, <1>6, SumAdd DEF HeapOK
  <2> QED BY <1>6, <1>8, <2>1, FS_AddElement DEF HeapOK
<1>11. \A c \in Left : c = left /\ b.len # n
  OBVIOUS
<1>12. k.free \cap k.live = {}
  <2>1. \A c \in h.free \ {b} : c # new
    BY <1>1, <1>2, <1>4, <1>5 DEF Apart
  <2>2. ASSUME NEW c \in Left PROVE c # new /\ c \notin h.live
    BY <1>1, <1>2, <1>3, <1>4, <1>5, <1>11 DEF Apart, HeapOK
  <2> QED BY <1>6, <1>7, <2>1, <2>2 DEF HeapOK
<1>13. \A c \in k.free \cup k.live : lo <= c.start /\ End(c) <= hi
  BY <1>1, <1>2, <1>3, <1>5, <1>6, <1>7, <1>11
<1>14. \A c, d \in k.free \cup k.live : c # d => Apart(c, d)
  <2>1. \A d \in (h.free \cup h.live) \ {b} : Apart(new, d) /\ Apart(d, new)
    BY <1>1, <1>2, <1>4, <1>5 DEF Apart
  <2>2. b.len # n => /\ \A d \in (h.free \cup h.live) \ {b} : Apart(left, d) /\ Apart(d, left)
                     /\ Apart(left, new) /\ Apart(new, left)
    BY <1>1, <1>2, <1>3, <1>4, <1>5 DEF Apart
  <2>3. k.free \cup k.live = ((h.free \cup h.live) \ {b}) \cup {new} \cup Left
    BY <1>1, <1>6, <1>7 DEF HeapOK
  <2> QED BY <1>11, <2>1, <2>2, <2>3 DEF HeapOK
<1>15. \A x \in lo .. hi - 1 : \E c \in k.free \cup k.live : Covers(c, x)
  <2> TAKE x \in lo .. hi - 1
  <2>1. PICK c \in h.free \cup h.live : Covers(c, x)
    BY DEF HeapOK
  <2>2. CASE c # b
    BY <1>6, <1>7, <2>1, <2>2
  <2>3. CASE c = b
    <3>1. CASE x < b.start + n
      BY <1>2, <1>6, <2>1, <2>3, <3>1 DEF Covers
    <3>2. CASE x >= b.start + n
      <4>1. b.len # n
        BY <1>1, <2>1, <2>3, <3>2 DEF Covers, End
      <4> QED BY <1>3, <1>7, <2>1, <2>3, <3>2, <4>1 DEF Covers
    <3> QED BY <1>1, <3>1, <3>2
  <2> QED BY <2>2, <2>3
<1>16. \A c, d \in k.free : d.start # End(c)
  <2>1. \A c, d \in h.free : d.start # End(c)
    BY DEF HeapOK
  <2>2. ASSUME NEW c \in Left, NEW d \in h.free \ {b}
        PROVE  d.start # End(c) /\ c.start # End(d)
    BY <1>1, <1>3, <1>4, <1>5, <1>11, <2>1, <2>2 DEF Apart
  <2>3. ASSUME NEW c \in Left, NEW d \in Left PROVE d.start # End(c)
    BY <1>1, <1>3, <1>11, <2>3 DEF End
  <2> QED BY <1>7, <2>1, <2>2, <2>3
<1>17. \A c \in k.free : \E d \in h.free : c.len <= d.len
  BY <1>1, <1>3, <1>5, <1>7, <1>11
<1> QED BY <1>6, <1>9, <1>10, <1>12, <1>13, <1>14, <1>15, <1>16, <1>17
    DEF HeapOK, k, new

\* What release merges with: the free blocks that end where b starts and
\* start where b ends, if there are any.
LEMMA Neighbours ==
  ASSUME NEW h, NEW lo \in Int, NEW hi \in Int, HeapOK(h, lo, hi), NEW b \in h.live
  PROVE  /\ Following(h.free, b.start, b.len) = {c \in h.free : c.start = End(b)}
         /\ Preceding(h.free, b.start) = {c \in h.free : End(c) = b.start}
         /\ \A c, d \in Following(h.free, b.start, b.len) : c = d
         /\ \A c, d \in Preceding(h.free, b.start) : c = d
<1>1. \A c \in h.free \cup h.live :
        /\ c.start \in Int /\ c.len \in Nat \ {0} /\ End(c) = c.start + c.len
        /\ \A d \in h.free \cup h.live : c # d => Apart(c, d)
  BY DEF HeapOK, Blocks, End
<1>2. \A c \in h.free : Apart(b, c)
  BY <1>1 DEF HeapOK
<1>3. Following(h.free, b.start, b.len) = {c \in h.free : c.start = End(b)}
  <2>1. ASSUME NEW c \in h.free, c.start = End(b), NEW d \in h.free, d.start >= b.start
        PROVE  c.start <= d.start
    BY <1>1, <1>2, <2>1 DEF Apart
  <2>2. \A c \in h.free : c.start = End(b) => c.start >= b.start
    BY <1>1
  <2>3. End(b) = b.start + b.len
    BY <1>1
  <2> QED BY <2>1, <2>2, <2>3 DEF Following, LowerBound
<1>4. Preceding(h.free, b.start) = {c \in h.free : End(c) = b.start}
  <2>1. ASSUME NEW c \in h.free, End(c) = b.start, NEW d \in h.free, d.start < b.start
        PROVE  d.start <= c.start
    BY <1>1, <1>2, <2>1 DEF Apart
  <2>2. \A c \in h.free : End(c) = b.start => c.start < b.start
    BY <1>1
  <2>3. \A c \in h.free : End(c) = c.start + c.len
    BY <1>1
  <2> QED BY <2>1, <2>2, <2>3 DEF Preceding, Before
<1>5. \A c, d \in h.free : (c.start = d.start \/ End(c) = End(d)) => c = d
  BY <1>1 DEF Apart
<1> QED BY <1>3, <1>4, <1>5

\* free keeps a heap sound: the block given back is live no longer, and the
\* free list is coalesced again.
LEMMA FreeOK ==
  ASSUME NEW h, NEW lo \in Int, NEW hi \in Int, HeapOK(h, lo, hi), NEW b \in h.live
  PROVE  HeapOK(Free(h, b.start), lo, hi) /\ Free(h, b.start).live = h.live \ {b}
<1> DEFINE next == Following(h.free, b.start, b.len)
           prev == Preceding(h.free, b.start)
           m == Block(IF prev = {} THEN b.start ELSE Pick(prev).start,
                      b.len + (IF next = {} THEN 0 ELSE Pick(next).len)
                            + (IF prev = {} THEN 0 ELSE Pick(prev).len))
           k == Free(h, b.start)
           rest == h.free \ (next \cup prev)
<1>1. \A c \in h.free \cup h.live :
        /\ c \in Blocks /\ c.start \in Int /\ c.len \in Nat \ {0}
        /\ End(c) = c.start + c.len
        /\ lo <= c.start /\ End(c) <= hi
        /\ \A d \in h.free \cup h.live : c # d => Apart(c, d)
  BY DEF HeapOK, Blocks, End
<1>2. /\ next = {c \in h.free : c.start = End(b)}
      /\ prev = {c \in h.free : End(c) = b.start}
      /\ \A c, d \in next : c = d
      /\ \A c, d \in prev : c = d
  BY Neighbours
<1>3. /\ next # {} => Pick(next) \in h.free /\ Pick(next).start = End(b) /\ next = {Pick(next)}
      /\ prev # {} => Pick(prev) \in h.free /\ End(Pick(prev)) = b.start /\ prev = {Pick(prev)}
  BY <1>2, PickIn
<1>4. /\ m \in Blocks
      /\ m.start = IF prev = {} THEN b.start ELSE Pick(prev).start
      /\ End(m) = IF next = {} THEN End(b) ELSE End(Pick(next))
  <2>1. b.start \in Int /\ b.len \in Nat \ {0} /\ End(b) = b.start + b.len
    BY <1>1
  <2>2. next # {} => Pick(next).start = End(b) /\ Pick(next).len \in Nat
                     /\ End(Pick(next)) = Pick(next).start + Pick(next).len
    BY <1>1, <1>3
  <2>3. prev # {} => /\ Pick(prev).start \in Int /\ Pick(prev).len \in Nat
                     /\ b.start = Pick(prev).start + Pick(prev).len
    BY <1>1, <1>3
  <2> HIDE DEF next, prev
  <2> QED BY <2>1, <2>2, <2>3 DEF Block, Blocks, End
<1>5. \A c \in h.free \cup h.live :
        c \notin next \cup prev \cup {b} => Apart(m, c) /\ Apart(c, m) /\ c.start # m.start
  <2> TAKE c \in h.free \cup h.live
  <2> HAVE c \notin next \cup prev \cup {b}
  <2>1. Apart(b, c) /\ (next # {} => Apart(Pick(next), c)) /\ (prev # {} => Apart(Pick(prev), c))
    BY <1>1, <1>3
  <2>2. /\ b.start \in Int /\ b.len \in Nat \ {0} /\ End(b) = b.start + b.len
        /\ c.start \in Int /\ c.len \in Nat \ {0} /\ End(c) = c.start + c.len
    BY <1>1
  <2>3. /\ next # {} => /\ Pick(next).start = End(b) /\ Pick(next).len \in Nat \ {0}
                        /\ End(Pick(next)) = End(b) + Pick(next).len
        /\ prev # {} => /\ Pick(prev).start \in Int /\ Pick(prev).len \in Nat \ {0}
                        /\ b.start = Pick(prev).start + Pick(prev).len
                        /\ End(Pick(prev)) = b.start
    BY <1>1, <1>3
  <2> HIDE DEF next, prev, m
  <2> QED BY <1>4, <2>1, <2>2, <2>3 DEF Apart
<1>6. k.live = h.live \ {b} /\ k.bytes = h.bytes - b.len /\ k.free = rest \cup {m}
      /\ k \in [free : SUBSET Blocks, live : SUBSET Blocks, bytes : Int]
  <2>1. {x \in h.live : x.start = b.start} = {b}
    BY StartsDiffer
  <2>2. Free(h, b.start) = Release(Detach(h, b), b.start, b.len)
    <3>1. (CHOOSE x \in {b} : TRUE) = b
      OBVIOUS
    <3> QED BY <2>1, <3>1 DEF Free
  <2>3. PICK d : d = Detach(h, b)
    OBVIOUS
  <2>3a. /\ d \in [free : SUBSET Blocks, live : SUBSET Blocks, bytes : Int]
         /\ d.free = h.free /\ d.live = h.live \ {b} /\ d.bytes = h.bytes - b.len
    <3>1. /\ h \in [free : SUBSET Blocks, live : SUBSET Blocks, bytes : Nat]
          /\ b.len \in Nat
      BY <1>1 DEF HeapOK
    <3>2. PICK l, n : l = h.live \ {b} /\ n = h.bytes - b.len
      OBVIOUS
    <3>3. l \in SUBSET Blocks /\ n \in Int
      BY <3>1, <3>2
    <3>4. d = [h EXCEPT !.live = l, !.bytes = n]
      BY <2>3, <3>2 DEF Detach
    <3> QED BY <3>1, <3>2, <3>3, <3>4
  <2>4. \A c \in rest : c.start # m.start
    BY <1>5 DEF HeapOK
  <2>5. Emplace(rest, m.start, m.len) = rest \cup {m}
    BY <1>4, <2>4 DEF Emplace, Block, Blocks
  <2>6. k = [d EXCEPT !.free = Emplace(rest, m.start, m.len)]
    <3>1. m.start = (IF prev = {} THEN b.start ELSE Pick(prev).start)
      BY <1>4
    <3>2. m.len = b.len + (IF next = {} THEN 0 ELSE Pick(next).len)
                    + (IF prev = {} THEN 0 ELSE Pick(prev).len)
      BY DEF Block
    <3> QED BY <2>2, <2>3, <2>3a, <3>1, <3>2, ZenonT(60) DEF Release, Pick
  <2>7. rest \cup {m} \in SUBSET Blocks
    BY <1>4 DEF HeapOK
  <2> HIDE DEF k, m, rest
  <2> QED BY <2>3a, <2>5, <2>6, <2>7
<1> HIDE DEF k, m
<1>7. IsFiniteSet(k.live) /\ k.bytes = TotalLen(k.live) /\ k.bytes \in Nat
  <2>1. IsFiniteSet(h.live \ {b}) /\ TotalLen(h.live \ {b}) \in Nat
    BY FS_RemoveElement, SumRemove DEF HeapOK
  <2>2. TotalLen(h.live) = b.len + TotalLen(h.live \ {b})
    BY SumRemove DEF HeapOK
  <2>3. h.bytes = TotalLen(h.live) /\ b.len \in Nat
    BY <1>1 DEF HeapOK
  <2> QED BY <1>6, <2>1, <2>2, <2>3
<1>8. k \in [free : SUBSET Blocks, live : SUBSET Blocks, bytes : Nat]
  BY <1>4, <1>6, <1>7 DEF HeapOK
<1>9. \A c \in rest \cup k.live : c \in h.free \cup h.live /\ c \notin next \cup prev \cup {b}
  BY <1>2, <1>6 DEF HeapOK
<1>10. k.free \cap k.live = {}
  BY <1>5, <1>6, <1>9 DEF HeapOK
<1>11. \A c \in k.free \cup k.live : lo <= c.start /\ End(c) <= hi
  <2>1. lo <= m.start /\ End(m) <= hi
    BY <1>1, <1>3, <1>4
  <2> QED BY <1>1, <1>6, <1>9, <2>1
<1>12. \A c, d \in k.free \cup k.live : c # d => Apart(c, d)
  BY <1>1, <1>5, <1>6, <1>9
<1>13. \A x \in lo .. hi - 1 : \E c \in k.free \cup k.live : Covers(c, x)
  <2> TAKE x \in lo .. hi - 1
  <2>1. PICK c \in h.free \cup h.live : Covers(c, x)
    BY DEF HeapOK
  <2>2. CASE c \notin next \cup prev \cup {b}
    BY <1>6, <2>1, <2>2
  <2>3. CASE c \in next \cup prev \cup {b}
    <3>1. /\ b.start \in Int /\ b.len \in Nat \ {0} /\ End(b) = b.start + b.len
          /\ next # {} => /\ Pick(next).start = End(b) /\ Pick(next).len \in Nat \ {0}
                          /\ End(Pick(next)) = End(b) + Pick(next).len
                          /\ next = {Pick(next)}
          /\ prev # {} => /\ Pick(prev).start \in Int /\ Pick(prev).len \in Nat \ {0}
                          /\ b.start = Pick(prev).start + Pick(prev).len
                          /\ End(Pick(prev)) = b.start
                          /\ prev = {Pick(prev)}
      BY <1>1, <1>3
    <3> HIDE DEF next, prev
    <3>2. c = b \/ (next # {} /\ c = Pick(next)) \/ (prev # {} /\ c = Pick(prev))
      BY <2>3, <3>1
    <3>3. Covers(m, x)
      BY <1>4, <2>1, <3>1, <3>2 DEF Covers
    <3> QED BY <1>6, <3>3
  <2> QED BY <2>2, <2>3
<1>14. \A c, d \in k.free : d.start # End(c)
  <2>1. \A c, d \in h.free : d.start # End(c)
    BY DEF HeapOK
  <2>2. \A c \in rest : c \in h.free /\ c.start # End(b) /\ End(c) # b.start
    BY <1>2
  <2>3. \A c \in rest : c.start # End(m) /\ m.start # End(c)
    BY <1>3, <1>4, <2>1, <2>2
  <2>4. m.start # End(m)
    BY <1>4 DEF Blocks, End
  <2> QED BY <1>6, <2>1, <2>2, <2>3, <2>4
<1> QED BY <1>6, <1>7, <1>8, <1>10, <1>11, <1>12, <1>13, <1>14 DEF HeapOK, k

----------------------------------------------------------------------------
(* VramAllocator                                                           *)

\* The requests that do not wrap when they are rounded.
NoWrap == MaxRequest + Align <= Word

LEMMA RoundUpGrants ==
  ASSUME NoWrap, NEW bytes \in 0 .. MaxRequest, bytes # 0
  PROVE  RoundUp(bytes) \in Nat \ {0} /\ RoundUp(bytes) >= bytes
<1> DEFINE n == bytes + Align - 1
<1>1. /\ Align \in Nat \ {0} /\ Word \in Nat \ {0} /\ MaxRequest \in Nat
      /\ bytes \in Nat \ {0} /\ n \in Nat /\ n < Word
  BY HeapAssumption DEF NoWrap
<1> HIDE DEF n
<1>2. n % Word = n
  BY <1>1
<1>3. n = Align * (n \div Align) + (n % Align) /\ n % Align \in 0 .. Align - 1
      /\ n \div Align \in Nat
  BY <1>1
<1>4. PICK q \in Nat, r \in 0 .. Align - 1 : q = n \div Align /\ n = Align * q + r
  BY <1>3
<1>5. q * Align = Align * q /\ Align * q \in Nat
  BY <1>1
<1>6. Align * q = n - r
  BY <1>1, <1>4, <1>5
<1>7. Align * q >= bytes
  BY <1>1, <1>6 DEF n
<1>8. RoundUp(bytes) = q * Align
  BY <1>2, <1>4 DEF RoundUp, n
<1> QED BY <1>1, <1>5, <1>7, <1>8

\* The inductive invariant of the allocator.
AllocatorInv ==
  /\ HeapOK(heap, Base, Base + Size)
  /\ grants \in SUBSET [start : Int, bytes : Nat]
  /\ GrantsHonoured

LEMMA BytesInt == Base \in Int /\ Base + Size \in Int
BY HeapAssumption

LEMMA AllocatorInitInv == AllocatorInit => AllocatorInv
<1> SUFFICES ASSUME AllocatorInit PROVE AllocatorInv
  OBVIOUS
<1>1. HeapOK(heap, Base, Base + Size)
  BY HeapAssumption, EmptyHeapOK DEF AllocatorInit
<1> QED BY <1>1 DEF AllocatorInit, AllocatorInv, GrantsHonoured

LEMMA AllocBytesInv ==
  ASSUME NoWrap, AllocatorInv, NEW bytes \in 0 .. MaxRequest, AllocBytes(bytes)
  PROVE  AllocatorInv'
<1> DEFINE n == RoundUp(bytes)
<1>1. PICK b \in FirstFit(heap, n) :
        /\ heap' = Carve(heap, b, n)
        /\ grants' = grants \cup {[start |-> b.start, bytes |-> bytes]}
  BY DEF AllocBytes
<1>2. n \in Nat \ {0} /\ n >= bytes /\ bytes \in Nat
  BY RoundUpGrants, HeapAssumption DEF AllocBytes
<1> HIDE DEF n
<1>3. /\ HeapOK(heap', Base, Base + Size)
      /\ heap'.live = heap.live \cup {Block(b.start, n)}
  BY <1>1, <1>2, BytesInt, CarveOK DEF AllocatorInv
<1>4. b \in heap.free /\ b.start \in Int
  BY DEF FirstFit, AllocatorInv, HeapOK, Blocks
<1>5. \A c \in heap.live : c.start # b.start
  BY <1>4, StartsDiffer DEF AllocatorInv, HeapOK
<1>6. \A g \in grants : g.start # b.start
  BY <1>5 DEF AllocatorInv, GrantsHonoured
<1>7. Block(b.start, n).start = b.start /\ Block(b.start, n).len = n
  BY DEF Block
<1>8. grants' \in SUBSET [start : Int, bytes : Nat]
  BY <1>1, <1>2, <1>4 DEF AllocatorInv
<1>9. GrantsHonoured'
  BY <1>1, <1>2, <1>3, <1>6, <1>7 DEF AllocatorInv, GrantsHonoured
<1> QED BY <1>3, <1>8, <1>9, HeapAssumption DEF AllocatorInv

LEMMA FreeGrantInv ==
  ASSUME AllocatorInv, NEW g \in grants, FreeGrant(g)
  PROVE  AllocatorInv'
<1>1. PICK b \in heap.live : b.start = g.start
  BY DEF AllocatorInv, GrantsHonoured
<1>2. heap' = Free(heap, b.start) /\ grants' = grants \ {g}
  BY <1>1 DEF FreeGrant
<1>3. HeapOK(heap', Base, Base + Size) /\ heap'.live = heap.live \ {b}
  BY <1>2, BytesInt, FreeOK DEF AllocatorInv
<1>4. GrantsHonoured'
  BY <1>1, <1>2, <1>3 DEF AllocatorInv, GrantsHonoured
<1> QED BY <1>2, <1>3, <1>4 DEF AllocatorInv

\* Sound means tiled: each byte is in one block only.
LEMMA HeapTiles ==
  ASSUME AllocatorInv
  PROVE  Tiles
<1>1. heap.bytes = MapThenSumSet(LAMBDA b : b.len, heap.live)
  BY DEF AllocatorInv, HeapOK, TotalLen
<1>2. ASSUME NEW a \in Base .. Base + Size - 1
      PROVE  Cardinality({b \in heap.free : a \in Bytes(b)}) +
             Cardinality({b \in heap.live : a \in Bytes(b)}) = 1
  <2> DEFINE F == {b \in heap.free : a \in Bytes(b)}
             L == {b \in heap.live : a \in Bytes(b)}
  <2>1. a \in Int
    BY BytesInt, HeapAssumption
  <2>2. \A b \in heap.free \cup heap.live : /\ b.start \in Int /\ b.len \in Nat
                                            /\ End(b) = b.start + b.len
                                            /\ a \in Bytes(b) <=> Covers(b, a)
    BY <2>1 DEF AllocatorInv, HeapOK, Blocks, End, Bytes, Covers
  <2>3. PICK b \in heap.free \cup heap.live : Covers(b, a)
    <3>1. PICK hi \in Int : hi = Base + Size
      BY BytesInt
    <3>2. HeapOK(heap, Base, hi)
      BY <3>1 DEF AllocatorInv
    <3>3. a \in Base .. hi - 1
      BY <3>1, HeapAssumption
    <3> QED BY <3>2, <3>3, HeapCovers
  <2>4. \A c \in heap.free \cup heap.live : Covers(c, a) => c = b
    BY <2>1, <2>2, <2>3 DEF AllocatorInv, HeapOK, Apart, Covers
  <2>5. heap.free \cap heap.live = {}
    BY DEF AllocatorInv, HeapOK
  <2>6. F \cup L = {b} /\ F \cap L = {}
    BY <2>2, <2>3, <2>4, <2>5
  <2>7. (F = {b} /\ L = {}) \/ (F = {} /\ L = {b})
    <3> HIDE DEF F, L
    <3> QED BY <2>6
  <2>8. Cardinality({b}) = 1 /\ Cardinality({}) = 0
    BY FS_Singleton, FS_EmptySet
  <2> HIDE DEF F, L
  <2>9. Cardinality(F) + Cardinality(L) = 1
    BY <2>7, <2>8
  <2> QED BY <2>9 DEF F, L
<1> QED BY <1>1, <1>2 DEF Tiles

\* VramAllocator's promise after any sequence of alloc and free, for any
\* range, unit and requests that do not wrap when alloc rounds them up: the
\* blocks tile the range exactly, bytes_live() counts the live ones, the free
\* list is coalesced, and every caller has what it asked for to itself.
THEOREM AllocatorSound ==
  ASSUME NoWrap
  PROVE  AllocatorSpec => []HeapSound
<1>1. AllocatorInv /\ [AllocatorNext]_allocatorVars => AllocatorInv'
  <2> SUFFICES ASSUME AllocatorInv, [AllocatorNext]_allocatorVars
               PROVE  AllocatorInv'
    OBVIOUS
  <2>1. CASE AllocatorNext
    BY <2>1, AllocBytesInv, FreeGrantInv DEF AllocatorNext
  <2>2. CASE UNCHANGED allocatorVars
    BY <2>2 DEF allocatorVars, AllocatorInv, GrantsHonoured
  <2> QED BY <2>1, <2>2
<1>2. AllocatorInv => HeapSound
  <2> SUFFICES ASSUME AllocatorInv PROVE HeapSound
    OBVIOUS
  <2>1. Coalesced
    BY DEF AllocatorInv, HeapOK, Blocks, End, Coalesced
  <2> QED BY <2>1, HeapTiles DEF HeapSound, AllocatorInv
<1> QED BY <1>1, <1>2, AllocatorInitInv, PTL DEF AllocatorSpec

----------------------------------------------------------------------------
(* DeviceMemory: the invariant                                             *)

Allocations == [addr : Nat, pages : Nat \ {0}, managed : BOOLEAN, id : Nat \ {0}]
RangeOf(a) == IF a.managed THEN VramPages .. VaPages - 1 ELSE 0 .. VramPages - 1
BlockOf(a) == Block(a.addr, a.pages)
FrameOf(r) == Block(r.frame, 1)

\* A memory state m is in order when U are the allocations not yet recycled:
\* the heaps are sound, their live blocks are those of U and the resident
\* frames, and a page is mapped to the one allocation of U that has it.
MemOK(m, U) ==
  /\ HeapOK(m.vram, 0, VramPages) /\ HeapOK(m.managedVa, VramPages, VaPages)
  /\ m.pte \in [0 .. VaPages - 1 -> Nat]
  /\ m.resident \in SUBSET [va : VramPages .. VaPages - 1, frame : Int]
  /\ IsFiniteSet(m.resident)
  /\ U \in SUBSET Allocations
  /\ m.vram.live = {BlockOf(a) : a \in {x \in U : ~x.managed}}
                     \cup {FrameOf(r) : r \in m.resident}
  /\ m.managedVa.live = {BlockOf(a) : a \in {x \in U : x.managed}}
  /\ \A r, s \in m.resident : (r.frame = s.frame \/ r.va = s.va) => r = s
  /\ \A r \in m.resident : m.pte[r.va] # 0
  /\ \A r \in m.resident, a \in U : r.frame \in Pages(a) => a.managed
  /\ \A a \in U : \A va \in Pages(a) : va \in RangeOf(a) /\ m.pte[va] = a.id
  /\ \A va \in 0 .. VaPages - 1 : m.pte[va] # 0 => \E a \in U : va \in Pages(a)
  /\ \A a, b \in U : a.id = b.id => a = b

HoldsLock == {"take", "drain", "take again", "evict", "take last", "refused"}

TypeOK ==
  /\ allocs \in SUBSET Allocations
  /\ pending \in SUBSET [alloc : Allocations, fence : [Channels -> Nat]]
  /\ IsFiniteSet(pending)
  /\ ring \in [Channels -> Seq([va : Int, id : Nat])]
  /\ get \in [Channels -> Nat]
  /\ pc \in [Threads -> HoldsLock \cup {"idle", "enqueue"}]
  /\ snap \in [Threads -> [Channels -> Nat]]
  /\ DOMAIN want = Threads
  /\ ids \in Nat

\* An allocation is live or pending, and pending once; ids are given once.
UnrecycledOK ==
  /\ \A p \in pending : p.alloc \notin allocs
  /\ \A p, q \in pending : p.alloc = q.alloc => p = q
  /\ \A a \in Unrecycled : a.id <= ids

\* A pending block's fence covers every command made for it, and a command in
\* flight is on an allocation that is not recycled.
FencesOK ==
  /\ \A p \in pending, c \in Channels :
       \A i \in 1 .. Len(ring[c]) : ring[c][i].id = p.alloc.id => i <= p.fence[c]
  /\ \A p \in pending, c \in Channels : p.fence[c] <= Len(ring[c])
FlightOK ==
  /\ \A c \in Channels : get[c] <= Len(ring[c])
  /\ \A c \in Channels : \A i \in get[c] + 1 .. Len(ring[c]) :
       \E a \in Unrecycled : a.id = ring[c][i].id /\ ring[c][i].va \in Pages(a)
  /\ \A t \in Threads : pc[t] = "enqueue" =>
       /\ want[t] \in [va : Int, id : Nat]
       /\ \E a \in allocs : a.id = want[t].id /\ want[t].va \in Pages(a)

\* The steps of ALLOC, under alloc_lock: after the drain nothing is pending.
CallOK(t) ==
  /\ pc[t] \in HoldsLock =>
       allocLock = t /\ want[t] \in [pages : Nat \ {0}, managed : BOOLEAN]
  /\ pc[t] = "drain" =>
       \A p \in pending, c \in Channels : p.fence[c] <= snap[t][c]
  /\ pc[t] \in {"take again", "evict", "take last", "refused"} => pending = {}
CallsOK == \A t \in Threads : CallOK(t)

DeviceInv ==
  /\ MemOK(Memory, Unrecycled)
  /\ TypeOK /\ UnrecycledOK /\ FencesOK /\ FlightOK /\ CallsOK

----------------------------------------------------------------------------
(* What each operation does to a memory state                              *)

\* Freeing frames, in whatever order, takes exactly these out of the heap.
LEMMA FreeFramesOK ==
  ASSUME NEW h, NEW lo \in Int, NEW hi \in Int, HeapOK(h, lo, hi),
         NEW rs, IsFiniteSet(rs), \A r \in rs : FrameOf(r) \in h.live,
         \A r, s \in rs : FrameOf(r) = FrameOf(s) => r = s
  PROVE  /\ HeapOK(FreeFrames(h, rs), lo, hi)
         /\ FreeFrames(h, rs).live = h.live \ {FrameOf(r) : r \in rs}
<1> DEFINE Good(T) == /\ HeapOK(FreeFrames(h, T), lo, hi)
                      /\ FreeFrames(h, T).live = h.live \ {FrameOf(r) : r \in T}
           B == {T \in SUBSET rs : ~Good(T)}
<1>1. SUFFICES ASSUME B # {} PROVE FALSE
  OBVIOUS
<1>2. PICK T \in B : \A U \in SUBSET T : U # T => U \notin B
  <2>1. B \in SUBSET (SUBSET rs)
    OBVIOUS
  <2> HIDE DEF B
  <2> QED BY <1>1, <2>1, SmallestSubset
<1>3. T \in SUBSET rs /\ ~Good(T) /\ \A U \in SUBSET T : U # T => Good(U)
  BY <1>2
<1> HIDE DEF B
<1>4. IsFiniteSet(T)
  BY <1>3, FS_Subset
<1>5. FreeFrames(h, T) = IF T = {} THEN h
                         ELSE Free(FreeFrames(h, T \ {Pick(T)}), Pick(T).frame)
  BY <1>4, Unfold, FoldsAre DEF FoldStep
<1>6. CASE T = {}
  BY <1>3, <1>5, <1>6
<1>7. CASE T # {}
  <2>1. PICK c \in T : c = Pick(T)
    BY <1>7, PickIn
  <2>2. PICK k : k = FreeFrames(h, T \ {c})
    OBVIOUS
  <2>3. HeapOK(k, lo, hi) /\ k.live = h.live \ {FrameOf(r) : r \in T \ {c}}
    BY <1>3, <2>1, <2>2
  <2>4. FrameOf(c) \in k.live
    BY <1>3, <2>1, <2>3
  <2>5. FrameOf(c).start = c.frame
    BY DEF FrameOf, Block
  <2>6. FreeFrames(h, T) = Free(k, FrameOf(c).start)
    BY <1>5, <1>7, <2>1, <2>2, <2>5
  <2>7. HeapOK(FreeFrames(h, T), lo, hi) /\ FreeFrames(h, T).live = k.live \ {FrameOf(c)}
    BY <2>3, <2>4, <2>6, FreeOK
  <2>8. k.live \ {FrameOf(c)} = h.live \ {FrameOf(r) : r \in T}
    BY <2>1, <2>3
  <2> QED BY <1>3, <2>7, <2>8
<1> QED BY <1>6, <1>7

LEMMA Ranges == /\ VramPages \in Nat \ {0} /\ VaPages \in Nat /\ VramPages < VaPages
                /\ 0 \in Int /\ VramPages \in Int /\ VaPages \in Int
BY MemoryAssumption

\* An allocation's block, its pages and its heap.
LEMMA AllocFacts ==
  ASSUME NEW m, NEW U, MemOK(m, U), NEW a \in U
  PROVE  /\ a.addr \in Nat /\ a.pages \in Nat \ {0} /\ a.managed \in BOOLEAN
         /\ a.id \in Nat \ {0}
         /\ \A x : x \in Pages(a) <=> x \in Int /\ a.addr <= x /\ x < a.addr + a.pages
         /\ a.addr \in Pages(a)
         /\ BlockOf(a).start = a.addr /\ End(BlockOf(a)) = a.addr + a.pages
         /\ a.managed => BlockOf(a) \in m.managedVa.live
         /\ ~a.managed => BlockOf(a) \in m.vram.live
         /\ \A c \in U : c # a => /\ Pages(c) \cap Pages(a) = {}
                                  /\ c.addr # a.addr /\ BlockOf(c) # BlockOf(a)
<1>1. \A c \in U : /\ c.addr \in Nat /\ c.pages \in Nat \ {0} /\ c.managed \in BOOLEAN
                   /\ c.id \in Nat \ {0}
  BY DEF MemOK, Allocations
<1>2. \A c \in U : \A x : x \in Pages(c) <=> x \in Int /\ c.addr <= x /\ x < c.addr + c.pages
  BY <1>1 DEF Pages
<1>3. \A c \in U : c.addr \in Pages(c)
  BY <1>1, <1>2
<1>4. \A c \in U : BlockOf(c).start = c.addr /\ End(BlockOf(c)) = c.addr + c.pages
  BY <1>1 DEF BlockOf, Block, End
<1>5. \A c \in U : c # a => Pages(c) \cap Pages(a) = {}
  BY DEF MemOK
<1>6. \A c \in U : c # a => c.addr # a.addr
  BY <1>3, <1>5
<1>7. \A c \in U : c # a => BlockOf(c) # BlockOf(a)
  BY <1>4, <1>6
<1>8. /\ a.managed => BlockOf(a) \in m.managedVa.live
      /\ ~a.managed => BlockOf(a) \in m.vram.live
  BY DEF MemOK
<1> QED BY <1>1, <1>2, <1>3, <1>4, <1>5, <1>6, <1>7, <1>8

\* A resident page's frame.
LEMMA FrameFacts ==
  ASSUME NEW m, NEW U, MemOK(m, U), NEW r \in m.resident
  PROVE  /\ r.va \in VramPages .. VaPages - 1 /\ r.frame \in Int
         /\ FrameOf(r) \in m.vram.live
         /\ FrameOf(r).start = r.frame /\ End(FrameOf(r)) = r.frame + 1
         /\ \A s \in m.resident : FrameOf(s) = FrameOf(r) => s = r
         /\ \A a \in U : ~a.managed => BlockOf(a) # FrameOf(r)
<1>1. r.va \in VramPages .. VaPages - 1 /\ r.frame \in Int /\ FrameOf(r) \in m.vram.live
  BY DEF MemOK
<1>2. FrameOf(r).start = r.frame /\ End(FrameOf(r)) = r.frame + 1
  BY DEF FrameOf, Block, End
<1>3. \A s \in m.resident : FrameOf(s).start = s.frame
  BY DEF FrameOf, Block
<1>4. \A s \in m.resident : FrameOf(s) = FrameOf(r) => s = r
  BY <1>2, <1>3 DEF MemOK
<1>5. \A a \in U : ~a.managed => BlockOf(a) # FrameOf(r)
  <2> TAKE a \in U
  <2>1. a.addr \in Pages(a) /\ BlockOf(a).start = a.addr
    BY AllocFacts
  <2>2. r.frame \in Pages(a) => a.managed
    BY DEF MemOK
  <2> QED BY <1>2, <2>1, <2>2
<1> QED BY <1>1, <1>2, <1>4, <1>5

\* recycle keeps memory in order, for the allocations that remain.
LEMMA RecycleOK ==
  ASSUME NEW m, NEW U, MemOK(m, U), NEW a \in U
  PROVE  MemOK(Recycle(a, m), U \ {a})
<1> DEFINE gone == ResidentOf(m, a)
<1>1. PICK n : n = Recycle(a, m)
  OBVIOUS
<1>2. /\ n.vram = IF a.managed THEN FreeFrames(m.vram, gone) ELSE Free(m.vram, a.addr)
      /\ n.managedVa = IF a.managed THEN Free(m.managedVa, a.addr) ELSE m.managedVa
      /\ n.pte = [va \in DOMAIN m.pte |-> IF va \in Pages(a) THEN 0 ELSE m.pte[va]]
      /\ n.resident = m.resident \ gone
  BY <1>1 DEF Recycle
<1>3. /\ a.addr \in Nat /\ a.managed \in BOOLEAN /\ a.addr \in Pages(a)
      /\ BlockOf(a).start = a.addr
      /\ a.managed => BlockOf(a) \in m.managedVa.live
      /\ ~a.managed => BlockOf(a) \in m.vram.live
      /\ \A c \in U : c # a => Pages(c) \cap Pages(a) = {} /\ BlockOf(c) # BlockOf(a)
  BY AllocFacts
<1>4. /\ m.pte \in [0 .. VaPages - 1 -> Nat]
      /\ \A va \in Pages(a) : va \in RangeOf(a) /\ m.pte[va] = a.id
  BY DEF MemOK
<1>5. gone = {r \in m.resident : r.va \in Pages(a)}
  BY DEF ResidentOf
<1>6. ~a.managed => gone = {}
  <2>1. ASSUME ~a.managed, NEW r \in m.resident PROVE r.va \notin Pages(a)
    BY <1>4, <2>1, FrameFacts, Ranges DEF RangeOf
  <2> QED BY <1>5, <2>1
<1> HIDE DEF gone
<1>7. HeapOK(n.managedVa, VramPages, VaPages)
      /\ n.managedVa.live = {BlockOf(c) : c \in {x \in U \ {a} : x.managed}}
  <2>1. HeapOK(m.managedVa, VramPages, VaPages)
        /\ m.managedVa.live = {BlockOf(c) : c \in {x \in U : x.managed}}
    BY DEF MemOK
  <2>2. CASE a.managed
    <3>1. HeapOK(n.managedVa, VramPages, VaPages)
          /\ n.managedVa.live = m.managedVa.live \ {BlockOf(a)}
      <4>1. n.managedVa = Free(m.managedVa, BlockOf(a).start)
            /\ BlockOf(a) \in m.managedVa.live
        BY <1>2, <1>3, <2>2
      <4>2. VramPages \in Int /\ VaPages \in Int /\ HeapOK(m.managedVa, VramPages, VaPages)
        BY <2>1, Ranges
      <4> QED BY <4>1, <4>2, FreeOK
    <3> QED BY <1>3, <2>1, <3>1
  <2>3. CASE ~a.managed
    BY <1>2, <2>1, <2>3
  <2> QED BY <2>2, <2>3
<1>8. HeapOK(n.vram, 0, VramPages)
      /\ n.vram.live = {BlockOf(c) : c \in {x \in U \ {a} : ~x.managed}}
                         \cup {FrameOf(r) : r \in n.resident}
  <2>1. /\ HeapOK(m.vram, 0, VramPages)
        /\ m.vram.live = {BlockOf(c) : c \in {x \in U : ~x.managed}}
                           \cup {FrameOf(r) : r \in m.resident}
    BY DEF MemOK
  <2>2. \A r \in m.resident : /\ FrameOf(r) \in m.vram.live
                              /\ \A s \in m.resident : FrameOf(s) = FrameOf(r) => s = r
                              /\ \A c \in U : ~c.managed => BlockOf(c) # FrameOf(r)
    BY FrameFacts
  <2>3. CASE a.managed
    <3>1. IsFiniteSet(gone)
      BY <1>5, FS_Subset DEF MemOK
    <3>2. HeapOK(n.vram, 0, VramPages)
          /\ n.vram.live = m.vram.live \ {FrameOf(r) : r \in gone}
      <4>1. \A r \in gone : FrameOf(r) \in m.vram.live
        BY <1>5, <2>2
      <4>2. \A r, s \in gone : FrameOf(r) = FrameOf(s) => r = s
        BY <1>5, <2>2
      <4> QED BY <1>2, <2>1, <2>3, <3>1, <4>1, <4>2, Ranges, FreeFramesOK
    <3>3. \A x : x \in n.vram.live <=> x \in {BlockOf(c) : c \in {y \in U \ {a} : ~y.managed}}
                                             \cup {FrameOf(r) : r \in n.resident}
      BY <1>2, <1>5, <2>1, <2>2, <2>3, <3>2
    <3> QED BY <3>2, <3>3
  <2>4. CASE ~a.managed
    <3>1. HeapOK(n.vram, 0, VramPages) /\ n.vram.live = m.vram.live \ {BlockOf(a)}
      BY <1>2, <1>3, <2>1, <2>4, Ranges, FreeOK
    <3>2. n.resident = m.resident
      BY <1>2, <1>6, <2>4
    <3> QED BY <1>3, <2>1, <2>2, <2>4, <3>1, <3>2
  <2> QED BY <2>3, <2>4
<1>9. n.pte \in [0 .. VaPages - 1 -> Nat]
  <2>1. DOMAIN m.pte = 0 .. VaPages - 1
        /\ \A va \in 0 .. VaPages - 1 : (IF va \in Pages(a) THEN 0 ELSE m.pte[va]) \in Nat
    BY <1>4
  <2> QED BY <1>2, <2>1
<1>10. \A va \in 0 .. VaPages - 1 : n.pte[va] = IF va \in Pages(a) THEN 0 ELSE m.pte[va]
  BY <1>2, <1>4
<1>11. /\ n.resident \in SUBSET [va : VramPages .. VaPages - 1, frame : Int]
       /\ IsFiniteSet(n.resident) /\ U \ {a} \in SUBSET Allocations
  BY <1>2, FS_Subset DEF MemOK
<1>12. \A r \in n.resident : n.pte[r.va] # 0
  <2> TAKE r \in n.resident
  <2>1. r \in m.resident /\ r.va \notin Pages(a)
    BY <1>2, <1>5
  <2>2. m.pte[r.va] # 0 /\ r.va \in 0 .. VaPages - 1
    BY <2>1, FrameFacts, Ranges DEF MemOK
  <2> QED BY <1>10, <2>1, <2>2
<1>13. \A c \in U \ {a} : \A va \in Pages(c) : va \in RangeOf(c) /\ n.pte[va] = c.id
  <2> TAKE c \in U \ {a}
  <2> TAKE va \in Pages(c)
  <2>1. va \in RangeOf(c) /\ m.pte[va] = c.id /\ va \notin Pages(a)
    BY <1>3 DEF MemOK
  <2>2. va \in 0 .. VaPages - 1
    BY <2>1, Ranges DEF RangeOf
  <2> QED BY <1>10, <2>1, <2>2
<1>14. \A va \in 0 .. VaPages - 1 : n.pte[va] # 0 => \E c \in U \ {a} : va \in Pages(c)
  BY <1>10 DEF MemOK
<1>15. /\ \A r, s \in n.resident : (r.frame = s.frame \/ r.va = s.va) => r = s
       /\ \A r \in n.resident, c \in U \ {a} : r.frame \in Pages(c) => c.managed
       /\ \A c, d \in U \ {a} : c.id = d.id => c = d
  BY <1>2 DEF MemOK
<1> QED BY <1>1, <1>7, <1>8, <1>9, <1>11, <1>12, <1>13, <1>14, <1>15 DEF MemOK

\* reclaim_locked: what is pending and retired is recycled, in any order.
LEMMA ReclaimedOK ==
  ASSUME NEW U, MemOK(Memory, U), IsFiniteSet(pending),
         \A p \in pending : p.alloc \in U,
         \A p, q \in pending : p.alloc = q.alloc => p = q
  PROVE  MemOK(Reclaimed, U \ {p.alloc : p \in Retirable})
<1> DEFINE F(T) == Folded("recycle", Memory, T)
           Good(T) == MemOK(F(T), U \ {p.alloc : p \in T})
           B == {T \in SUBSET Retirable : ~Good(T)}
<1>0. Retirable \in SUBSET pending /\ IsFiniteSet(Retirable)
  BY FS_Subset DEF Retirable
<1>1. SUFFICES ASSUME B # {} PROVE FALSE
  BY FoldsAre
<1>2. PICK T \in B : \A V \in SUBSET T : V # T => V \notin B
  <2>1. B \in SUBSET (SUBSET Retirable)
    OBVIOUS
  <2> HIDE DEF B
  <2> QED BY <1>0, <1>1, <2>1, SmallestSubset
<1>3. T \in SUBSET Retirable /\ ~Good(T) /\ \A V \in SUBSET T : V # T => Good(V)
  BY <1>2
<1> HIDE DEF B
<1>4. IsFiniteSet(T)
  BY <1>0, <1>3, FS_Subset
<1>5. F(T) = IF T = {} THEN Memory ELSE Recycle(Pick(T).alloc, F(T \ {Pick(T)}))
  BY <1>4, Unfold DEF FoldStep
<1> HIDE DEF F
<1>6. CASE T = {}
  <2>1. U \ {p.alloc : p \in T} = U
    BY <1>6
  <2> QED BY <1>3, <1>5, <1>6, <2>1
<1>7. CASE T # {}
  <2>1. PICK c \in T : c = Pick(T)
    BY <1>7, PickIn
  <2>2. Good(T \ {c})
    BY <1>3, <2>1
  <2>3. c.alloc \in U \ {p.alloc : p \in T \ {c}}
    BY <1>0, <1>3, <2>1
  <2>4. MemOK(Recycle(c.alloc, F(T \ {c})), (U \ {p.alloc : p \in T \ {c}}) \ {c.alloc})
    BY <2>2, <2>3, RecycleOK
  <2>5. (U \ {p.alloc : p \in T \ {c}}) \ {c.alloc} = U \ {p.alloc : p \in T}
    BY <2>1
  <2>6. F(T) = Recycle(c.alloc, F(T \ {c}))
    BY <1>5, <1>7, <2>1
  <2> QED BY <1>3, <2>4, <2>5, <2>6
<1> QED BY <1>6, <1>7

\* A free block of the VRAM or VA heap meets no allocation and no frame.
LEMMA FreeBlockApart ==
  ASSUME NEW h, NEW lo \in Int, NEW hi \in Int, HeapOK(h, lo, hi),
         NEW b \in h.free, NEW c \in h.live, NEW x \in Int,
         c.start <= x, x < End(c)
  PROVE  ~(b.start <= x /\ x < End(b))
<1>1. Apart(b, c)
  BY DEF HeapOK
<1>2. b.start \in Int /\ End(b) \in Int /\ c.start \in Int /\ End(c) \in Int
  BY DEF HeapOK, Blocks, End
<1> QED BY <1>1, <1>2 DEF Apart

\* ALLOC and ALLOC_MANAGED: first fit in the heap of the request, and the
\* pages mapped.
LEMMA GrantOK ==
  ASSUME NEW m, NEW U, MemOK(m, U), NEW a \in Allocations,
         \A c \in U : c.id # a.id,
         NEW b \in FirstFit(IF a.managed THEN m.managedVa ELSE m.vram, a.pages),
         a.addr = b.start, NEW n,
         n.vram = IF a.managed THEN m.vram ELSE Carve(m.vram, b, a.pages),
         n.managedVa = IF a.managed THEN Carve(m.managedVa, b, a.pages) ELSE m.managedVa,
         n.pte = [va \in DOMAIN m.pte |-> IF va \in Pages(a) THEN a.id ELSE m.pte[va]],
         n.resident = m.resident
  PROVE  MemOK(n, U \cup {a})
<1> DEFINE h == IF a.managed THEN m.managedVa ELSE m.vram
           lo == IF a.managed THEN VramPages ELSE 0
           hi == IF a.managed THEN VaPages ELSE VramPages
           k == Carve(h, b, a.pages)
<1>1. /\ a.pages \in Nat \ {0} /\ a.addr \in Nat /\ a.managed \in BOOLEAN /\ a.id \in Nat \ {0}
      /\ \A x : x \in Pages(a) <=> x \in Int /\ a.addr <= x /\ x < a.addr + a.pages
  BY DEF Allocations, Pages
<1>2. HeapOK(h, lo, hi) /\ lo \in Int /\ hi \in Int /\ b \in FirstFit(h, a.pages)
  BY Ranges DEF MemOK
<1> HIDE DEF h, lo, hi, k
<1>3. /\ HeapOK(k, lo, hi) /\ k.live = h.live \cup {BlockOf(a)}
  BY <1>1, <1>2, CarveOK DEF k, BlockOf
<1>4. b \in h.free /\ b.start \in Int /\ b.len \in Nat /\ b.len >= a.pages
      /\ lo <= b.start /\ End(b) = b.start + b.len /\ End(b) <= hi
  BY <1>2 DEF FirstFit, HeapOK, Blocks, End
<1>5. \A x \in Pages(a) : x \in Int /\ b.start <= x /\ x < End(b) /\ lo <= x /\ x < hi
  BY <1>1, <1>2, <1>4
<1>6. \A c \in h.live, x \in Pages(a) : ~(c.start <= x /\ x < End(c))
  BY <1>2, <1>4, <1>5, FreeBlockApart
<1>7. \A c \in U : Pages(c) \cap Pages(a) = {}
  <2> TAKE c \in U
  <2>1. /\ \A x : x \in Pages(c) <=> x \in Int /\ c.addr <= x /\ x < c.addr + c.pages
        /\ BlockOf(c).start = c.addr /\ End(BlockOf(c)) = c.addr + c.pages
        /\ c.managed => BlockOf(c) \in m.managedVa.live
        /\ ~c.managed => BlockOf(c) \in m.vram.live
        /\ c.managed \in BOOLEAN
    BY AllocFacts
  <2>2. CASE c.managed = a.managed
    <3>1. BlockOf(c) \in h.live
      BY <2>1, <2>2 DEF h
    <3> QED BY <1>6, <2>1, <3>1
  <2>3. CASE c.managed # a.managed
    <3>1. \A x \in Pages(c) : x \in RangeOf(c)
      BY DEF MemOK
    <3>2. \A x \in Pages(a) : ~(x \in RangeOf(c))
      BY <1>1, <1>5, <2>1, <2>3, Ranges DEF RangeOf, lo, hi
    <3> QED BY <3>1, <3>2
  <2> QED BY <2>2, <2>3
<1>8. \A x \in Pages(a) : x \in RangeOf(a) /\ x \in 0 .. VaPages - 1
  BY <1>1, <1>5, Ranges DEF RangeOf, lo, hi
<1>9. \A r \in m.resident : r.frame \in Pages(a) => a.managed
  <2> TAKE r \in m.resident
  <2>1. FrameOf(r) \in m.vram.live /\ FrameOf(r).start = r.frame
        /\ End(FrameOf(r)) = r.frame + 1 /\ r.frame \in Int
    BY FrameFacts
  <2>2. ~a.managed => FrameOf(r) \in h.live
    BY <2>1 DEF h
  <2> QED BY <1>6, <2>1, <2>2
<1>10. m.pte \in [0 .. VaPages - 1 -> Nat]
  BY DEF MemOK
<1>11. n.pte \in [0 .. VaPages - 1 -> Nat]
  <2>1. DOMAIN m.pte = 0 .. VaPages - 1
        /\ \A va \in 0 .. VaPages - 1 : (IF va \in Pages(a) THEN a.id ELSE m.pte[va]) \in Nat
    BY <1>1, <1>10
  <2> QED BY <2>1
<1>12. \A va \in 0 .. VaPages - 1 : n.pte[va] = IF va \in Pages(a) THEN a.id ELSE m.pte[va]
  BY <1>10
<1>13. /\ HeapOK(n.vram, 0, VramPages) /\ HeapOK(n.managedVa, VramPages, VaPages)
       /\ n.vram.live = {BlockOf(c) : c \in {x \in U \cup {a} : ~x.managed}}
                          \cup {FrameOf(r) : r \in n.resident}
       /\ n.managedVa.live = {BlockOf(c) : c \in {x \in U \cup {a} : x.managed}}
  <2>1. /\ HeapOK(m.vram, 0, VramPages) /\ HeapOK(m.managedVa, VramPages, VaPages)
        /\ m.vram.live = {BlockOf(c) : c \in {x \in U : ~x.managed}}
                           \cup {FrameOf(r) : r \in m.resident}
        /\ m.managedVa.live = {BlockOf(c) : c \in {x \in U : x.managed}}
    BY DEF MemOK
  <2>2. CASE a.managed
    <3>1. n.vram = m.vram /\ n.managedVa = k /\ lo = VramPages /\ hi = VaPages /\ h = m.managedVa
      BY <2>2 DEF k, h, lo, hi
    <3>2. n.vram.live = {BlockOf(c) : c \in {x \in U \cup {a} : ~x.managed}}
                          \cup {FrameOf(r) : r \in n.resident}
      BY <2>1, <2>2, <3>1
    <3>3. n.managedVa.live = {BlockOf(c) : c \in {x \in U \cup {a} : x.managed}}
      BY <1>3, <2>1, <2>2, <3>1
    <3> QED BY <1>3, <2>1, <3>1, <3>2, <3>3
  <2>3. CASE ~a.managed
    <3>1. n.vram = k /\ n.managedVa = m.managedVa /\ lo = 0 /\ hi = VramPages /\ h = m.vram
      BY <2>3 DEF k, h, lo, hi
    <3>2. n.vram.live = {BlockOf(c) : c \in {x \in U \cup {a} : ~x.managed}}
                          \cup {FrameOf(r) : r \in n.resident}
      BY <1>3, <2>1, <2>3, <3>1
    <3>3. n.managedVa.live = {BlockOf(c) : c \in {x \in U \cup {a} : x.managed}}
      BY <2>1, <2>3, <3>1
    <3> QED BY <1>3, <2>1, <3>1, <3>2, <3>3
  <2> QED BY <2>2, <2>3
<1>14. \A r \in n.resident : n.pte[r.va] # 0
  <2> TAKE r \in n.resident
  <2>1. m.pte[r.va] # 0 /\ r.va \in 0 .. VaPages - 1
    BY FrameFacts, Ranges DEF MemOK
  <2> QED BY <1>1, <1>12, <2>1
<1>15. \A c \in U \cup {a} : \A va \in Pages(c) : va \in RangeOf(c) /\ n.pte[va] = c.id
  <2>1. ASSUME NEW c \in U, NEW va \in Pages(c)
        PROVE  va \in RangeOf(c) /\ n.pte[va] = c.id
    <3>1. va \in RangeOf(c) /\ m.pte[va] = c.id /\ va \notin Pages(a)
      BY <1>7 DEF MemOK
    <3>2. va \in 0 .. VaPages - 1
      BY <3>1, Ranges DEF RangeOf
    <3> QED BY <1>12, <3>1, <3>2
  <2>2. \A va \in Pages(a) : va \in RangeOf(a) /\ n.pte[va] = a.id
    BY <1>8, <1>12
  <2> QED BY <2>1, <2>2
<1>16. \A va \in 0 .. VaPages - 1 : n.pte[va] # 0 => \E c \in U \cup {a} : va \in Pages(c)
  BY <1>12 DEF MemOK
<1>17. /\ \A r, s \in n.resident : (r.frame = s.frame \/ r.va = s.va) => r = s
       /\ \A r \in n.resident, c \in U \cup {a} : r.frame \in Pages(c) => c.managed
       /\ \A c, d \in U \cup {a} : c.id = d.id => c = d
       /\ n.resident \in SUBSET [va : VramPages .. VaPages - 1, frame : Int]
       /\ IsFiniteSet(n.resident) /\ U \cup {a} \in SUBSET Allocations
  BY <1>9 DEF MemOK
<1> QED BY <1>11, <1>13, <1>14, <1>15, <1>16, <1>17 DEF MemOK

\* evict_all_locked, as far as it gets: only the frames of the pages that
\* leave are freed.
LEMMA EvictOK ==
  ASSUME NEW m, NEW U, MemOK(m, U), NEW n, NEW gone \in SUBSET m.resident,
         n.vram = FreeFrames(m.vram, gone), n.resident = m.resident \ gone,
         n.managedVa = m.managedVa, n.pte = m.pte
  PROVE  MemOK(n, U)
<1>1. /\ HeapOK(m.vram, 0, VramPages) /\ IsFiniteSet(m.resident)
      /\ m.vram.live = {BlockOf(c) : c \in {x \in U : ~x.managed}}
                         \cup {FrameOf(r) : r \in m.resident}
  BY DEF MemOK
<1>2. \A r \in m.resident : /\ FrameOf(r) \in m.vram.live
                            /\ \A s \in m.resident : FrameOf(s) = FrameOf(r) => s = r
                            /\ \A c \in U : ~c.managed => BlockOf(c) # FrameOf(r)
  BY FrameFacts
<1>3. IsFiniteSet(gone) /\ IsFiniteSet(n.resident)
  BY <1>1, FS_Subset
<1>4. HeapOK(n.vram, 0, VramPages)
      /\ n.vram.live = m.vram.live \ {FrameOf(r) : r \in gone}
  BY <1>1, <1>2, <1>3, Ranges, FreeFramesOK
<1>5. n.vram.live = {BlockOf(c) : c \in {x \in U : ~x.managed}}
                      \cup {FrameOf(r) : r \in n.resident}
  BY <1>1, <1>2, <1>4
<1> QED BY <1>3, <1>4, <1>5 DEF MemOK

\* One page leaves and its frame is freed: a host fault, or a migration that
\* fails after it evicted a page.
LEMMA EvictOneOK ==
  ASSUME NEW m, NEW U, MemOK(m, U), NEW n, NEW r \in m.resident,
         n.vram = Free(m.vram, r.frame), n.resident = m.resident \ {r},
         n.managedVa = m.managedVa, n.pte = m.pte
  PROVE  MemOK(n, U)
<1>1. /\ HeapOK(m.vram, 0, VramPages) /\ IsFiniteSet(m.resident)
      /\ m.vram.live = {BlockOf(c) : c \in {x \in U : ~x.managed}}
                         \cup {FrameOf(s) : s \in m.resident}
  BY DEF MemOK
<1>2. /\ FrameOf(r) \in m.vram.live /\ FrameOf(r).start = r.frame
      /\ \A s \in m.resident : FrameOf(s) = FrameOf(r) => s = r
      /\ \A c \in U : ~c.managed => BlockOf(c) # FrameOf(r)
  BY FrameFacts
<1>3. IsFiniteSet(n.resident)
  BY <1>1, FS_Subset
<1>4. HeapOK(n.vram, 0, VramPages) /\ n.vram.live = m.vram.live \ {FrameOf(r)}
  <2>1. PICK h : h = m.vram
    OBVIOUS
  <2>2. PICK b \in h.live : b = FrameOf(r)
    BY <1>2, <2>1
  <2>3. HeapOK(Free(h, b.start), 0, VramPages) /\ Free(h, b.start).live = h.live \ {b}
    BY <1>1, <2>1, Ranges, FreeOK
  <2>4. n.vram = Free(h, b.start)
    BY <1>2, <2>1, <2>2
  <2> QED BY <2>1, <2>2, <2>3, <2>4
<1>5. n.vram.live = {BlockOf(c) : c \in {x \in U : ~x.managed}}
                      \cup {FrameOf(s) : s \in n.resident}
  BY <1>1, <1>2, <1>4
<1> QED BY <1>3, <1>4, <1>5 DEF MemOK

\* What is taken and given back at once leaves a heap with the same live
\* blocks.
LEMMA PutBackOK ==
  ASSUME NEW h, NEW lo \in Int, NEW hi \in Int, HeapOK(h, lo, hi),
         NEW n \in Nat \ {0}, NEW b \in FirstFit(h, n), NEW k,
         k = Free(Carve(h, b, n), b.start)
  PROVE  HeapOK(k, lo, hi) /\ k.live = h.live
<1>1. PICK x : x = Block(b.start, n)
  OBVIOUS
<1>2. PICK c : c = Carve(h, b, n)
  OBVIOUS
<1>3. /\ HeapOK(c, lo, hi) /\ c.live = h.live \cup {x} /\ x \notin h.live
      /\ x.start = b.start
  BY <1>1, <1>2, CarveOK DEF Block
<1>4. HeapOK(k, lo, hi) /\ k.live = c.live \ {x}
  BY <1>2, <1>3, FreeOK
<1> QED BY <1>3, <1>4

\* A memory state whose heaps are sound, with the live blocks they had.
LEMMA SameLiveOK ==
  ASSUME NEW m, NEW U, MemOK(m, U), NEW n,
         HeapOK(n.vram, 0, VramPages), HeapOK(n.managedVa, VramPages, VaPages),
         n.vram.live = m.vram.live, n.managedVa.live = m.managedVa.live,
         n.pte = m.pte, n.resident = m.resident
  PROVE  MemOK(n, U)
BY DEF MemOK

\* migrate_locked takes a free frame for a page that is mapped and not
\* resident.
LEMMA MigrateOK ==
  ASSUME NEW m, NEW U, MemOK(m, U), NEW va \in VramPages .. VaPages - 1,
         m.pte[va] # 0, \A r \in m.resident : r.va # va,
         NEW b \in FirstFit(m.vram, 1), NEW n,
         n.vram = Carve(m.vram, b, 1),
         n.resident = m.resident \cup {[va |-> va, frame |-> b.start]},
         n.managedVa = m.managedVa, n.pte = m.pte
  PROVE  MemOK(n, U)
<1>1. PICK s : s = [va |-> va, frame |-> b.start]
  OBVIOUS
<1>2. HeapOK(m.vram, 0, VramPages)
  BY DEF MemOK
<1>3. b \in m.vram.free /\ b.start \in Int /\ b.len \in Nat \ {0} /\ End(b) = b.start + b.len
  BY <1>2 DEF FirstFit, HeapOK, Blocks, End
<1>4. s.va = va /\ s.frame = b.start /\ FrameOf(s) = Block(b.start, 1)
      /\ s \in [va : VramPages .. VaPages - 1, frame : Int]
  BY <1>1, <1>3 DEF FrameOf
<1>5. /\ HeapOK(n.vram, 0, VramPages) /\ n.vram.live = m.vram.live \cup {FrameOf(s)}
      /\ FrameOf(s) \notin m.vram.live
  BY <1>2, <1>4, Ranges, CarveOK
<1>6. n.resident = m.resident \cup {s}
  BY <1>1
<1>7. n.vram.live = {BlockOf(c) : c \in {x \in U : ~x.managed}}
                      \cup {FrameOf(r) : r \in n.resident}
  BY <1>5, <1>6 DEF MemOK
<1>8. \A r \in m.resident : r.frame # s.frame /\ r.va # s.va
  <2> TAKE r \in m.resident
  <2>1. FrameOf(r) \in m.vram.live
    BY FrameFacts
  <2>2. FrameOf(r) # FrameOf(s)
    BY <1>5, <2>1
  <2> QED BY <1>4, <2>2 DEF FrameOf
<1>9. \A c \in U : s.frame \in Pages(c) => c.managed
  <2> TAKE c \in U
  <2>1. /\ \A x : x \in Pages(c) <=> x \in Int /\ c.addr <= x /\ x < c.addr + c.pages
        /\ BlockOf(c).start = c.addr /\ End(BlockOf(c)) = c.addr + c.pages
        /\ ~c.managed => BlockOf(c) \in m.vram.live
    BY AllocFacts
  <2> QED BY <1>2, <1>3, <1>4, <2>1, Ranges, FreeBlockApart
<1>10. IsFiniteSet(n.resident)
  <2>1. IsFiniteSet(m.resident)
    BY DEF MemOK
  <2>2. IsFiniteSet(m.resident \cup {s})
    BY <2>1, FS_AddElement
  <2> QED BY <1>6, <2>2
<1> QED BY <1>4, <1>5, <1>6, <1>7, <1>8, <1>9, <1>10 DEF MemOK

\* ... or that of a resident page.
LEMMA SwapOK ==
  ASSUME NEW m, NEW U, MemOK(m, U), NEW va \in VramPages .. VaPages - 1,
         m.pte[va] # 0, \A r \in m.resident : r.va # va,
         NEW r \in m.resident, NEW n,
         n.resident = (m.resident \ {r}) \cup {[va |-> va, frame |-> r.frame]},
         n.vram = m.vram, n.managedVa = m.managedVa, n.pte = m.pte
  PROVE  MemOK(n, U)
<1>1. PICK s : s = [va |-> va, frame |-> r.frame]
  OBVIOUS
<1>2. r.frame \in Int
  BY FrameFacts
<1>3. s.va = va /\ s.frame = r.frame /\ FrameOf(s) = FrameOf(r)
      /\ s \in [va : VramPages .. VaPages - 1, frame : Int]
  BY <1>1, <1>2 DEF FrameOf
<1>4. n.resident = (m.resident \ {r}) \cup {s}
  BY <1>1
<1>5. {FrameOf(x) : x \in n.resident} = {FrameOf(x) : x \in m.resident}
  BY <1>3, <1>4
<1>6. IsFiniteSet(n.resident)
  <2>1. IsFiniteSet(m.resident \ {r})
    BY FS_RemoveElement DEF MemOK
  <2>2. IsFiniteSet((m.resident \ {r}) \cup {s})
    BY <2>1, FS_AddElement
  <2> QED BY <1>4, <2>2
<1>7. \A x, y \in n.resident : (x.frame = y.frame \/ x.va = y.va) => x = y
  BY <1>3, <1>4 DEF MemOK
<1>8. /\ \A x \in n.resident : n.pte[x.va] # 0
      /\ \A x \in n.resident, a \in U : x.frame \in Pages(a) => a.managed
      /\ n.resident \in SUBSET [va : VramPages .. VaPages - 1, frame : Int]
  BY <1>3, <1>4 DEF MemOK
<1>9. n.vram.live = {BlockOf(c) : c \in {x \in U : ~x.managed}}
                      \cup {FrameOf(x) : x \in n.resident}
  <2>1. m.vram.live = {BlockOf(c) : c \in {x \in U : ~x.managed}}
                        \cup {FrameOf(x) : x \in m.resident}
    BY DEF MemOK
  <2> QED BY <1>5, <2>1
<1> QED BY <1>6, <1>7, <1>8, <1>9 DEF MemOK

----------------------------------------------------------------------------
(* Every step keeps the invariant                                          *)

LEMMA BecomesOK ==
  ASSUME NEW m, Becomes(m), NEW U, MemOK(m, U)
  PROVE  MemOK(Memory', U)
<1>1. /\ (Memory').vram = m.vram /\ (Memory').managedVa = m.managedVa
      /\ (Memory').pte = m.pte /\ (Memory').resident = m.resident
  BY DEF Becomes, Memory
<1> QED BY <1>1 DEF MemOK

LEMMA MemoryFields ==
  /\ Memory.vram = vram /\ Memory.managedVa = managedVa
  /\ Memory.pte = pte /\ Memory.resident = resident
BY DEF Memory

LEMMA MemoryFieldsNext ==
  /\ (Memory').vram = vram' /\ (Memory').managedVa = managedVa'
  /\ (Memory').pte = pte' /\ (Memory').resident = resident'
BY DEF Memory

\* One thread at a time is inside ALLOC, and nobody while the lock is free.
LEMMA OneHolder ==
  ASSUME DeviceInv
  PROVE  /\ allocLock = NoOne => \A s \in Threads : pc[s] \notin HoldsLock
         /\ \A s, t \in Threads : pc[s] \in HoldsLock /\ pc[t] \in HoldsLock => s = t
BY MemoryAssumption DEF DeviceInv, CallsOK, CallOK

\* What is left to reclaim is in order, and nothing in flight is on what was
\* reclaimed: the fence was the last command made for it.
LEMMA Reclaiming ==
  ASSUME DeviceInv
  PROVE  /\ MemOK(Reclaimed, allocs \cup {p.alloc : p \in pending \ Retirable})
         /\ \A c \in Channels : \A i \in get[c] + 1 .. Len(ring[c]) :
              \E a \in allocs \cup {p.alloc : p \in pending \ Retirable} :
                a.id = ring[c][i].id /\ ring[c][i].va \in Pages(a)
         /\ IsFiniteSet(pending \ Retirable)
<1>1. /\ MemOK(Memory, Unrecycled) /\ IsFiniteSet(pending)
      /\ \A p \in pending : p.alloc \in Unrecycled
      /\ \A p, q \in pending : p.alloc = q.alloc => p = q
      /\ \A p \in pending : p.alloc \notin allocs
  BY DEF DeviceInv, TypeOK, UnrecycledOK, Unrecycled
<1>2. Unrecycled \ {p.alloc : p \in Retirable} =
        allocs \cup {p.alloc : p \in pending \ Retirable}
  BY <1>1 DEF Unrecycled, Retirable
<1>3. MemOK(Reclaimed, allocs \cup {p.alloc : p \in pending \ Retirable})
  BY <1>1, <1>2, ReclaimedOK
<1>4. ASSUME NEW c \in Channels, NEW i \in get[c] + 1 .. Len(ring[c])
      PROVE  \E a \in allocs \cup {p.alloc : p \in pending \ Retirable} :
               a.id = ring[c][i].id /\ ring[c][i].va \in Pages(a)
  <2>1. PICK a \in Unrecycled : a.id = ring[c][i].id /\ ring[c][i].va \in Pages(a)
    BY DEF DeviceInv, FlightOK
  <2>2. get[c] \in Nat /\ Len(ring[c]) \in Nat
    BY DEF DeviceInv, TypeOK
  <2>3. ASSUME NEW p \in Retirable, a = p.alloc PROVE FALSE
    <3>1. p \in pending /\ get[c] >= p.fence[c] /\ p.fence[c] \in Nat
      BY DEF Retirable, AllRetired, DeviceInv, TypeOK
    <3>2. i \in 1 .. Len(ring[c])
      BY <2>2
    <3>3. i <= p.fence[c]
      BY <2>1, <2>3, <3>1, <3>2 DEF DeviceInv, FencesOK
    <3> QED BY <2>2, <3>1, <3>3
  <2> QED BY <1>2, <2>1, <2>3
<1>5. IsFiniteSet(pending \ Retirable)
  BY <1>1, FS_Subset
<1> QED BY <1>3, <1>4, <1>5

LEMMA InitInv == Init => DeviceInv
<1> SUFFICES ASSUME Init PROVE DeviceInv
  OBVIOUS
<1>1. HeapOK(vram, 0, VramPages) /\ HeapOK(managedVa, VramPages, VaPages)
  <2>1. PICK n \in Nat \ {0} : n = VaPages - VramPages /\ VramPages + n = VaPages
    BY Ranges
  <2>2. HeapOK(EmptyHeap(0, VramPages), 0, 0 + VramPages)
        /\ HeapOK(EmptyHeap(VramPages, n), VramPages, VramPages + n)
    BY Ranges, EmptyHeapOK
  <2>3. 0 + VramPages = VramPages
    BY Ranges
  <2> QED BY <2>1, <2>2, <2>3 DEF Init
<1>2. vram.live = {} /\ managedVa.live = {}
  BY DEF Init, EmptyHeap
<1>3. Unrecycled = {} /\ resident = {} /\ pending = {}
  BY DEF Init, Unrecycled
<1>4. MemOK(Memory, Unrecycled)
  <2>1. pte \in [0 .. VaPages - 1 -> Nat] /\ \A va \in 0 .. VaPages - 1 : pte[va] = 0
    BY DEF Init
  <2>2. {BlockOf(a) : a \in {x \in Unrecycled : ~x.managed}} \cup {FrameOf(r) : r \in resident} = {}
        /\ {BlockOf(a) : a \in {x \in Unrecycled : x.managed}} = {}
    BY <1>3
  <2> QED BY <1>1, <1>2, <1>3, <2>1, <2>2, MemoryFields, FS_EmptySet DEF MemOK
<1>5. TypeOK
  <2>1. IsFiniteSet(pending)
    BY <1>3, FS_EmptySet
  <2>2. ring \in [Channels -> Seq([va : Int, id : Nat])] /\ get \in [Channels -> Nat]
        /\ snap \in [Threads -> [Channels -> Nat]]
    BY DEF Init, NoSnap
  <2> QED BY <2>1, <2>2 DEF Init, TypeOK, HoldsLock
<1>6. \A c \in Channels : get[c] = 0 /\ Len(ring[c]) = 0
  BY DEF Init, NoSnap
<1>7. \A t \in Threads : pc[t] = "idle"
  BY DEF Init
<1>8. UnrecycledOK /\ FencesOK
  BY <1>3 DEF UnrecycledOK, FencesOK
<1>9. FlightOK
  BY <1>6, <1>7 DEF FlightOK
<1>10. CallsOK
  BY <1>7 DEF CallsOK, CallOK, HoldsLock
<1> QED BY <1>4, <1>5, <1>8, <1>9, <1>10 DEF DeviceInv

\* A heap that offers nothing has no block that is large enough.
LEMMA LeastNatural ==
  ASSUME NEW S \in SUBSET Nat, S # {}
  PROVE  \E x \in S : \A y \in S : x <= y
<1>1. PICK x \in S : \A y \in S : ~(<<y, x>> \in OpToRel(<, Nat))
  BY NatLessThanWellFounded, WFMin
<1>2. \A y \in S : ~(y < x)
  BY <1>1 DEF OpToRel
<1> QED BY <1>2

LEMMA NothingFits ==
  ASSUME NEW h, NEW hi \in Int, HeapOK(h, 0, hi), NEW n \in Nat, FirstFit(h, n) = {},
         NEW b \in h.free
  PROVE  b.len < n
<1> DEFINE S == {c.start : c \in {d \in h.free : d.len >= n}}
<1>1. \A c \in h.free : c.start \in Nat /\ c.len \in Nat
  BY DEF HeapOK, Blocks
<1>2. SUFFICES ASSUME b.len >= n PROVE FALSE
  BY <1>1
<1>3. S \in SUBSET Nat /\ S # {}
  BY <1>1, <1>2
<1>4. PICK x \in S : \A y \in S : x <= y
  <2> HIDE DEF S
  <2> QED BY <1>3, LeastNatural
<1>5. PICK c \in h.free : c.len >= n /\ c.start = x
  OBVIOUS
<1>6. c \in FirstFit(h, n)
  BY <1>4, <1>5 DEF FirstFit
<1> QED BY <1>6

LEMMA AllocBeginInv ==
  ASSUME DeviceInv, NEW t \in Threads, NEW n \in 1 .. MaxPages, NEW m \in BOOLEAN,
         AllocBegin(t, n, m)
  PROVE  DeviceInv'
<1> USE DEF DeviceInv
<1>1. /\ pc[t] = "idle" /\ pc' = [pc EXCEPT ![t] = "take"]
      /\ allocLock = NoOne /\ allocLock' = t
      /\ want' = [want EXCEPT ![t] = [pages |-> n, managed |-> m]]
      /\ Becomes(Reclaimed) /\ pending' = pending \ Retirable
      /\ UNCHANGED <<allocs, ring, get, sticky, snap, ids>>
  BY DEF AllocBegin, Goto, Reclaim, deviceVars
<1>2. Unrecycled' = allocs \cup {p.alloc : p \in pending \ Retirable}
      /\ Unrecycled' \subseteq Unrecycled
  BY <1>1 DEF Unrecycled
<1>3. MemOK(Memory', Unrecycled')
  BY <1>1, <1>2, Reclaiming, BecomesOK
<1>4. TypeOK'
  <2>1. IsFiniteSet(pending') /\ pending' \subseteq pending
    BY <1>1, Reclaiming
  <2>2. pc' \in [Threads -> HoldsLock \cup {"idle", "enqueue"}] /\ DOMAIN want' = Threads
    BY <1>1 DEF TypeOK, HoldsLock
  <2> QED BY <1>1, <2>1, <2>2 DEF TypeOK
<1>5. UnrecycledOK' /\ FencesOK'
  BY <1>1, <1>2 DEF UnrecycledOK, FencesOK
<1>6. FlightOK'
  <2>1. \A s \in Threads : s # t => pc'[s] = pc[s] /\ want'[s] = want[s]
    BY <1>1 DEF TypeOK
  <2>2. pc'[t] # "enqueue"
    BY <1>1 DEF TypeOK
  <2> QED BY <1>1, <1>2, <2>1, <2>2, Reclaiming DEF FlightOK
<1>7. CallsOK'
  <2>1. \A s \in Threads : s # t => pc'[s] \notin HoldsLock
    BY <1>1, OneHolder DEF TypeOK
  <2>2. pc'[t] = "take" /\ want'[t] \in [pages : Nat \ {0}, managed : BOOLEAN]
    BY <1>1, MemoryAssumption DEF TypeOK
  <2> QED BY <1>1, <2>1, <2>2 DEF CallsOK, CallOK, HoldsLock
<1> QED BY <1>3, <1>4, <1>5, <1>6, <1>7

\* Steps that leave memory, allocations and rings alone: where the threads are
\* is all that can go wrong.
LEMMA MemoryUntouched ==
  ASSUME DeviceInv,
         UNCHANGED <<vram, managedVa, pte, resident, allocs, pending, ring, get, ids>>
  PROVE  /\ MemOK(Memory', Unrecycled') /\ UnrecycledOK' /\ FencesOK'
         /\ vram' = vram /\ Unrecycled' = Unrecycled
<1>1. Memory' = Memory /\ Unrecycled' = Unrecycled
  BY DEF Memory, Unrecycled
<1> QED BY <1>1 DEF DeviceInv, UnrecycledOK, FencesOK

\* A thread that another thread's step leaves alone, and one outside ALLOC.
LEMMA CallKept ==
  ASSUME DeviceInv, NEW s \in Threads,
         pc'[s] = pc[s] /\ want'[s] = want[s] /\ snap'[s] = snap[s],
         allocLock = s => allocLock' = s,
         pending' \subseteq pending
  PROVE  CallOK(s)'
<1>1. CallOK(s)
  BY DEF DeviceInv, CallsOK
<1> QED BY <1>1 DEF CallOK

LEMMA NoCall ==
  ASSUME NEW s \in Threads, pc'[s] \notin HoldsLock
  PROVE  CallOK(s)'
BY DEF CallOK, HoldsLock

\* The end of a call.
LEMMA DoneFacts ==
  ASSUME DeviceInv, NEW t \in Threads, Done(t)
  PROVE  /\ pc' \in [Threads -> HoldsLock \cup {"idle", "enqueue"}]
         /\ DOMAIN want' = Threads /\ snap' \in [Threads -> [Channels -> Nat]]
         /\ pc'[t] = "idle"
         /\ \A s \in Threads : s # t => /\ pc'[s] = pc[s] /\ want'[s] = want[s]
                                        /\ snap'[s] = snap[s]
         /\ \A s \in Threads : s # t /\ allocLock = s => allocLock' = s
BY DEF Done, DeviceInv, TypeOK, NoSnap

LEMMA RefuseInv ==
  ASSUME DeviceInv, NEW t \in Threads, Refuse(t)
  PROVE  DeviceInv'
<1> USE DEF DeviceInv
<1>1. Done(t) /\ UNCHANGED <<vram, managedVa, pte, resident, allocs, pending, ring, get, ids>>
      /\ UNCHANGED sticky
  BY DEF Refuse, heapVars, deviceVars
<1>2. /\ MemOK(Memory', Unrecycled') /\ UnrecycledOK' /\ FencesOK'
      /\ Unrecycled' = Unrecycled
  BY <1>1, MemoryUntouched
<1>3. TypeOK'
  BY <1>1, DoneFacts DEF TypeOK
<1>4. FlightOK'
  BY <1>1, <1>2, DoneFacts DEF FlightOK
<1>5. CallsOK'
  <2>2. CallOK(t)'
    BY <1>1, DoneFacts, NoCall DEF HoldsLock
  <2>3. ASSUME NEW s \in Threads, s # t PROVE CallOK(s)'
    BY <1>1, <2>3, DoneFacts, CallKept
  <2> QED BY <2>2, <2>3 DEF CallsOK
<1> QED BY <1>2, <1>3, <1>4, <1>5

LEMMA OwnsInv ==
  ASSUME DeviceInv, NEW t \in Threads, NEW a \in allocs, NEW va \in Pages(a),
         Owns(t, a, va)
  PROVE  DeviceInv'
<1> USE DEF DeviceInv
<1>1. /\ pc[t] = "idle" /\ pc' = [pc EXCEPT ![t] = "enqueue"]
      /\ want' = [want EXCEPT ![t] = [va |-> va, id |-> a.id]]
      /\ UNCHANGED <<vram, managedVa, pte, resident, allocs, pending, ring, get, ids>>
      /\ UNCHANGED <<allocLock, snap, sticky>>
  BY DEF Owns, Goto, heapVars, deviceVars
<1>2. /\ MemOK(Memory', Unrecycled') /\ UnrecycledOK' /\ FencesOK'
      /\ Unrecycled' = Unrecycled
  BY <1>1, MemoryUntouched
<1>3. TypeOK'
  BY <1>1 DEF TypeOK, HoldsLock
<1>4. /\ pc'[t] = "enqueue" /\ want'[t] = [va |-> va, id |-> a.id]
      /\ \A s \in Threads : s # t => pc'[s] = pc[s] /\ want'[s] = want[s]
  BY <1>1 DEF TypeOK
<1>5. FlightOK'
  <2>1. a \in Unrecycled /\ a.id \in Nat /\ va \in Int
    BY AllocFacts DEF Unrecycled
  <2>2. want'[t] \in [va : Int, id : Nat] /\ want'[t].id = a.id /\ want'[t].va \in Pages(a)
    BY <1>4, <2>1
  <2> QED BY <1>1, <1>2, <1>4, <2>2 DEF FlightOK
<1>6. CallsOK'
  BY <1>1, <1>4 DEF CallsOK, CallOK, HoldsLock
<1> QED BY <1>2, <1>3, <1>5, <1>6

\* Take, when nothing fits: on to the next attempt.
LEMMA TakeFailsInv ==
  ASSUME DeviceInv, NEW t \in Threads, Take(t),
         FirstFit(HeapFor(t), want[t].pages) = {}
  PROVE  DeviceInv'
<1> USE DEF DeviceInv
<1>1. /\ pc[t] \in {"take", "take again", "take last"}
      /\ pc' = [pc EXCEPT ![t] = AfterFailure(t)]
      /\ snap' = [snap EXCEPT ![t] = PutSnapshot]
      /\ UNCHANGED <<vram, managedVa, pte, resident, allocs, pending, ring, get, ids>>
      /\ UNCHANGED <<allocLock, want, sticky>>
  BY DEF Take, deviceVars
<1>2. /\ MemOK(Memory', Unrecycled') /\ UnrecycledOK' /\ FencesOK'
      /\ Unrecycled' = Unrecycled
  BY <1>1, MemoryUntouched
<1>3. AfterFailure(t) \in {"drain", "evict", "refused"}
      /\ (AfterFailure(t) = "drain" => pc[t] = "take")
      /\ (AfterFailure(t) # "drain" => pc[t] \in {"take again", "take last"})
      /\ (AfterFailure(t) = "refused" => want[t].managed \/ pc[t] = "take last")
  BY <1>1 DEF AfterFailure
<1>4. PutSnapshot \in [Channels -> Nat] /\ \A c \in Channels : PutSnapshot[c] = Len(ring[c])
  BY DEF PutSnapshot, TypeOK
<1>5. /\ pc'[t] = AfterFailure(t) /\ snap'[t] = PutSnapshot
      /\ \A s \in Threads : s # t => pc'[s] = pc[s] /\ snap'[s] = snap[s]
      /\ pc' \in [Threads -> HoldsLock \cup {"idle", "enqueue"}]
      /\ snap' \in [Threads -> [Channels -> Nat]]
  BY <1>1, <1>3, <1>4 DEF TypeOK, HoldsLock
<1>6. TypeOK'
  BY <1>1, <1>5 DEF TypeOK
<1>7. FlightOK'
  BY <1>1, <1>2, <1>3, <1>5 DEF FlightOK
<1>8. CallsOK'
  <2>1. ASSUME NEW s \in Threads, s # t PROVE CallOK(s)'
    <3>1. pc'[s] \notin HoldsLock
      BY <1>1, <1>5, <2>1, OneHolder DEF HoldsLock
    <3> QED BY <3>1, NoCall
  <2>2. CallOK(t) /\ pc[t] \in HoldsLock
    BY <1>1 DEF CallsOK, HoldsLock
  <2>3. allocLock' = t /\ want'[t] \in [pages : Nat \ {0}, managed : BOOLEAN]
    BY <1>1, <2>2 DEF CallOK
  <2>4. pc'[t] = "drain" => \A p \in pending', c \in Channels : p.fence[c] <= snap'[t][c]
    <3>1. \A p \in pending, c \in Channels : p.fence[c] <= Len(ring[c])
      BY DEF FencesOK
    <3>2. \A c \in Channels : snap'[t][c] = Len(ring[c])
      BY <1>4, <1>5
    <3> QED BY <1>1, <3>1, <3>2
  <2>5. pc'[t] # "drain" => pending' = {}
    BY <1>1, <1>3, <1>5, <2>2 DEF CallOK
  <2>7. CallOK(t)'
    BY <1>3, <1>5, <2>3, <2>4, <2>5 DEF CallOK
  <2> QED BY <2>1, <2>7 DEF CallsOK
<1> QED BY <1>2, <1>6, <1>7, <1>8

\* Take, when something fits and the call succeeds.
LEMMA TakeGrantsInv ==
  ASSUME DeviceInv, NEW t \in Threads, Take(t),
         NEW b \in FirstFit(HeapFor(t), want[t].pages), Grant(t, b),
         HeapBecomes(t, Carve(HeapFor(t), b, want[t].pages))
  PROVE  DeviceInv'
<1> USE DEF DeviceInv
<1>1. /\ pc[t] \in HoldsLock /\ want[t] \in [pages : Nat \ {0}, managed : BOOLEAN]
  BY DEF Take, CallsOK, CallOK, HoldsLock
<1>2. /\ b \in FirstFit(IF want[t].managed THEN managedVa ELSE vram, want[t].pages)
      /\ IF want[t].managed
         THEN managedVa' = Carve(managedVa, b, want[t].pages) /\ UNCHANGED vram
         ELSE vram' = Carve(vram, b, want[t].pages) /\ UNCHANGED managedVa
  BY DEF HeapFor, HeapBecomes
<1>3. UNCHANGED <<resident, pending, ring, get, sticky>>
  BY DEF Take, deviceVars
<1>4. PICK a : a = [addr |-> b.start, pages |-> want[t].pages,
                    managed |-> want[t].managed, id |-> ids + 1]
  OBVIOUS
<1>5. /\ allocs' = allocs \cup {a} /\ ids' = ids + 1 /\ Done(t)
      /\ pte' = [va \in DOMAIN pte |-> IF va \in Pages(a) THEN a.id ELSE pte[va]]
  BY <1>2, <1>4 DEF Grant
<1>6. b.start \in Nat
  <2>1. HeapOK(vram, 0, VramPages) /\ HeapOK(managedVa, VramPages, VaPages)
    BY MemoryFields DEF MemOK
  <2> QED BY <1>1, <1>2, <2>1, Ranges DEF FirstFit, HeapOK, Blocks
<1>7. /\ a \in Allocations /\ a.addr = b.start /\ a.pages = want[t].pages
      /\ a.managed = want[t].managed /\ a.id = ids + 1
  BY <1>1, <1>4, <1>6 DEF Allocations, TypeOK
<1>8. Unrecycled' = Unrecycled \cup {a}
  BY <1>3, <1>5 DEF Unrecycled
<1>9. \A c \in Unrecycled : c.id # a.id /\ c.id \in Nat /\ c.id <= ids
  <2>1. \A c \in Unrecycled : c.id \in Nat
    BY AllocFacts
  <2> QED BY <1>7, <2>1 DEF UnrecycledOK, TypeOK
<1>10. MemOK(Memory', Unrecycled')
  <2>1. PICK n : n = Memory'
    OBVIOUS
  <2>2. /\ n.vram = IF a.managed THEN Memory.vram ELSE Carve(Memory.vram, b, a.pages)
        /\ n.managedVa = IF a.managed THEN Carve(Memory.managedVa, b, a.pages) ELSE Memory.managedVa
        /\ n.pte = [va \in DOMAIN Memory.pte |-> IF va \in Pages(a) THEN a.id ELSE Memory.pte[va]]
        /\ n.resident = Memory.resident
    BY <1>1, <1>2, <1>3, <1>5, <1>7, <2>1, MemoryFields, MemoryFieldsNext
  <2>3. b \in FirstFit(IF a.managed THEN Memory.managedVa ELSE Memory.vram, a.pages)
    BY <1>2, <1>7, MemoryFields
  <2>4. MemOK(n, Unrecycled \cup {a})
    BY <1>7, <1>9, <2>2, <2>3, GrantOK
  <2> QED BY <1>8, <2>1, <2>4
<1>11. TypeOK'
  BY <1>3, <1>5, <1>7, DoneFacts DEF TypeOK
<1>12. UnrecycledOK'
  <2>1. \A p \in pending : p.alloc # a
    BY <1>9 DEF Unrecycled
  <2>2. \A c \in Unrecycled' : c.id <= ids'
    BY <1>5, <1>7, <1>8, <1>9 DEF TypeOK
  <2> QED BY <1>3, <1>5, <2>1, <2>2 DEF UnrecycledOK
<1>13. FencesOK'
  BY <1>3 DEF FencesOK
<1>14. FlightOK'
  BY <1>1, <1>3, <1>5, <1>8, DoneFacts DEF FlightOK
<1>15. CallsOK'
  <2> SUFFICES ASSUME NEW s \in Threads PROVE pc'[s] \notin HoldsLock
    BY NoCall DEF CallsOK
  <2> QED BY <1>1, <1>5, DoneFacts, OneHolder DEF HoldsLock
<1> QED BY <1>10, <1>11, <1>12, <1>13, <1>14, <1>15

\* Take, when something fits and a later step of the call fails.
LEMMA TakeRollsBackInv ==
  ASSUME DeviceInv, NEW t \in Threads, Take(t),
         NEW b \in FirstFit(HeapFor(t), want[t].pages), RollBack(t),
         HeapBecomes(t, Free(Carve(HeapFor(t), b, want[t].pages), b.start))
  PROVE  DeviceInv'
<1> USE DEF DeviceInv
<1>1. /\ pc[t] \in HoldsLock /\ want[t] \in [pages : Nat \ {0}, managed : BOOLEAN]
  BY DEF Take, CallsOK, CallOK, HoldsLock
<1>2. /\ Done(t) /\ UNCHANGED <<allocs, pte, ids, resident, pending, ring, get, sticky>>
  BY DEF Take, RollBack, deviceVars
<1>3. Unrecycled' = Unrecycled
  BY <1>2 DEF Unrecycled
<1>4. PICK k : k = Free(Carve(HeapFor(t), b, want[t].pages), b.start)
  OBVIOUS
<1>5. HeapOK(vram, 0, VramPages) /\ HeapOK(managedVa, VramPages, VaPages)
  BY MemoryFields DEF MemOK
<1>6. /\ HeapOK(vram', 0, VramPages) /\ HeapOK(managedVa', VramPages, VaPages)
      /\ vram'.live = vram.live /\ managedVa'.live = managedVa.live
  <2>1. want[t].pages \in Nat \ {0}
    BY <1>1
  <2>2. CASE want[t].managed
    <3>1. HeapFor(t) = managedVa /\ managedVa' = k /\ vram' = vram
      BY <1>4, <2>2 DEF HeapFor, HeapBecomes
    <3> QED BY <1>4, <1>5, <2>1, <3>1, Ranges, PutBackOK
  <2>3. CASE ~want[t].managed
    <3>1. HeapFor(t) = vram /\ vram' = k /\ managedVa' = managedVa
      BY <1>4, <2>3 DEF HeapFor, HeapBecomes
    <3> QED BY <1>4, <1>5, <2>1, <3>1, Ranges, PutBackOK
  <2> QED BY <2>2, <2>3
<1>7. MemOK(Memory', Unrecycled')
  <2>1. PICK n : n = Memory'
    OBVIOUS
  <2>2. /\ HeapOK(n.vram, 0, VramPages) /\ HeapOK(n.managedVa, VramPages, VaPages)
        /\ n.vram.live = Memory.vram.live /\ n.managedVa.live = Memory.managedVa.live
        /\ n.pte = Memory.pte /\ n.resident = Memory.resident
    BY <1>2, <1>6, <2>1, MemoryFields, MemoryFieldsNext
  <2>3. MemOK(n, Unrecycled)
    BY <2>2, SameLiveOK
  <2> QED BY <1>3, <2>1, <2>3
<1>8. TypeOK'
  BY <1>2, DoneFacts DEF TypeOK
<1>9. UnrecycledOK' /\ FencesOK'
  BY <1>2, <1>3 DEF UnrecycledOK, FencesOK
<1>10. FlightOK'
  BY <1>2, <1>3, DoneFacts DEF FlightOK
<1>11. CallsOK'
  <2> SUFFICES ASSUME NEW s \in Threads PROVE pc'[s] \notin HoldsLock
    BY NoCall DEF CallsOK
  <2> QED BY <1>1, <1>2, DoneFacts, OneHolder DEF HoldsLock
<1> QED BY <1>7, <1>8, <1>9, <1>10, <1>11

LEMMA DrainedInv ==
  ASSUME DeviceInv, NEW t \in Threads, Drained(t)
  PROVE  DeviceInv'
<1> USE DEF DeviceInv
<1>1. pc[t] = "drain" /\ AllRetired(snap[t]) /\ UNCHANGED <<allocs, ring, get, sticky, ids>>
  BY DEF Drained, deviceVars
<1>2. \A s \in Threads : s # t => pc[s] \notin HoldsLock
  BY <1>1, OneHolder DEF HoldsLock
<1>3. CASE sticky
  <2>1. Done(t) /\ UNCHANGED <<vram, managedVa, pte, resident, allocs, pending, ring, get, ids>>
    BY <1>1, <1>3 DEF Drained, heapVars
  <2>2. /\ MemOK(Memory', Unrecycled') /\ UnrecycledOK' /\ FencesOK'
        /\ Unrecycled' = Unrecycled
    BY <2>1, MemoryUntouched
  <2>3. TypeOK'
    BY <2>1, DoneFacts DEF TypeOK
  <2>4. FlightOK'
    BY <2>1, <2>2, DoneFacts DEF FlightOK
  <2>5. CallsOK'
    <3> SUFFICES ASSUME NEW s \in Threads PROVE pc'[s] \notin HoldsLock
      BY NoCall DEF CallsOK
    <3> QED BY <1>2, <2>1, DoneFacts DEF HoldsLock
  <2> QED BY <2>2, <2>3, <2>4, <2>5
<1>4. CASE ~sticky
  <2>1. /\ pc' = [pc EXCEPT ![t] = "take again"] /\ UNCHANGED <<allocLock, want, snap>>
        /\ Becomes(Reclaimed) /\ pending' = pending \ Retirable
    BY <1>4 DEF Drained, Reclaim
  <2>2. pending' = {}
    <3>1. ASSUME NEW p \in pending, NEW c \in Channels PROVE get[c] >= p.fence[c]
      <4>1. get[c] >= snap[t][c] /\ p.fence[c] <= snap[t][c]
        BY <1>1 DEF AllRetired, CallsOK, CallOK
      <4>2. get[c] \in Nat /\ snap[t][c] \in Nat /\ p.fence[c] \in Nat
        BY DEF TypeOK
      <4> QED BY <4>1, <4>2
    <3> QED BY <2>1, <3>1 DEF Retirable, AllRetired
  <2>3. Unrecycled' = allocs \cup {p.alloc : p \in pending \ Retirable}
        /\ Unrecycled' \subseteq Unrecycled
    BY <1>1, <2>1 DEF Unrecycled
  <2>4. MemOK(Memory', Unrecycled')
    BY <2>1, <2>3, Reclaiming, BecomesOK
  <2>5. /\ pc'[t] = "take again" /\ \A s \in Threads : s # t => pc'[s] = pc[s]
        /\ pc' \in [Threads -> HoldsLock \cup {"idle", "enqueue"}]
    BY <2>1 DEF TypeOK, HoldsLock
  <2>6. TypeOK'
    BY <1>1, <2>1, <2>2, <2>5, FS_EmptySet DEF TypeOK
  <2>7. UnrecycledOK' /\ FencesOK'
    BY <1>1, <2>2, <2>3 DEF UnrecycledOK, FencesOK
  <2>8. FlightOK'
    BY <1>1, <2>1, <2>3, <2>5, Reclaiming DEF FlightOK
  <2>9. CallsOK'
    <3>1. ASSUME NEW s \in Threads, s # t PROVE CallOK(s)'
      BY <1>2, <2>5, <3>1, NoCall
    <3>2. CallOK(t)'
      BY <1>1, <2>1, <2>2, <2>5 DEF CallsOK, CallOK, HoldsLock
    <3> QED BY <3>1, <3>2 DEF CallsOK
  <2> QED BY <2>4, <2>6, <2>7, <2>8, <2>9
<1> QED BY <1>3, <1>4

LEMMA EvictAllInv ==
  ASSUME DeviceInv, NEW t \in Threads, EvictAll(t)
  PROVE  DeviceInv'
<1> USE DEF DeviceInv
<1>1. /\ pc[t] = "evict" /\ pc' = [pc EXCEPT ![t] = "take last"]
      /\ \E kept \in SUBSET resident :
           vram' = FreeFrames(vram, resident \ kept) /\ resident' = kept
      /\ UNCHANGED <<managedVa, pte, allocs, pending, ring, get, ids>>
      /\ UNCHANGED <<allocLock, want, snap, sticky>>
  BY DEF EvictAll, Goto, deviceVars
<1>2. Unrecycled' = Unrecycled
  BY <1>1 DEF Unrecycled
<1>3. MemOK(Memory', Unrecycled')
  <2>1. PICK n : n = Memory'
    OBVIOUS
  <2>2. PICK gone \in SUBSET resident :
          vram' = FreeFrames(vram, gone) /\ resident' = resident \ gone
    BY <1>1
  <2>3. /\ n.vram = FreeFrames(Memory.vram, gone) /\ n.resident = Memory.resident \ gone
        /\ n.managedVa = Memory.managedVa /\ n.pte = Memory.pte
        /\ gone \in SUBSET Memory.resident
    BY <1>1, <2>1, <2>2, MemoryFields, MemoryFieldsNext
  <2>4. MemOK(n, Unrecycled)
    BY <2>3, EvictOK
  <2> QED BY <1>2, <2>1, <2>4
<1>4. /\ pc'[t] = "take last" /\ \A s \in Threads : s # t => pc'[s] = pc[s]
      /\ pc' \in [Threads -> HoldsLock \cup {"idle", "enqueue"}]
  BY <1>1 DEF TypeOK, HoldsLock
<1>5. TypeOK' /\ UnrecycledOK' /\ FencesOK'
  BY <1>1, <1>2, <1>4 DEF TypeOK, UnrecycledOK, FencesOK
<1>6. FlightOK'
  BY <1>1, <1>2, <1>4 DEF FlightOK
<1>7. CallsOK'
  <2>1. ASSUME NEW s \in Threads, s # t PROVE CallOK(s)'
    <3>1. pc'[s] \notin HoldsLock
      BY <1>1, <1>4, <2>1, OneHolder DEF HoldsLock
    <3> QED BY <3>1, NoCall
  <2>2. CallOK(t)'
    BY <1>1, <1>4 DEF CallsOK, CallOK, HoldsLock
  <2> QED BY <2>1, <2>2 DEF CallsOK
<1> QED BY <1>3, <1>5, <1>6, <1>7

\* FREE: nothing is in flight and the allocation is recycled at once, or it is
\* pending behind the commands issued so far.
LEMMA FreeAllocInv ==
  ASSUME DeviceInv, NEW t \in Threads, NEW a \in allocs, FreeAlloc(t, a)
  PROVE  DeviceInv'
<1> USE DEF DeviceInv
<1> DEFINE left == pending \ Retirable
           V == allocs \cup {p.alloc : p \in left}
<1>1. /\ allocLock = NoOne /\ ~Submitting(a) /\ allocs' = allocs \ {a}
      /\ UNCHANGED <<allocLock, ring, get, sticky, pc, want, snap, ids>>
  BY DEF FreeAlloc, deviceVars, threadVars
<1>2. /\ MemOK(Reclaimed, V) /\ IsFiniteSet(left)
      /\ \A c \in Channels : \A i \in get[c] + 1 .. Len(ring[c]) :
           \E x \in V : x.id = ring[c][i].id /\ ring[c][i].va \in Pages(x)
  BY Reclaiming
<1>3. \A p \in pending : p.alloc # a /\ p.alloc \notin allocs
  BY DEF UnrecycledOK
<1>4. V \subseteq Unrecycled /\ a \in V
  BY DEF Unrecycled
<1>5. CallsOK'
  <2> SUFFICES ASSUME NEW s \in Threads PROVE pc'[s] \notin HoldsLock
    BY NoCall DEF CallsOK
  <2> QED BY <1>1, OneHolder
<1>6. \A s \in Threads : pc'[s] = "enqueue" =>
        /\ want'[s] \in [va : Int, id : Nat]
        /\ \E x \in allocs' : x.id = want'[s].id /\ want'[s].va \in Pages(x)
  <2> SUFFICES ASSUME NEW s \in Threads, pc[s] = "enqueue"
               PROVE  /\ want[s] \in [va : Int, id : Nat]
                      /\ \E x \in allocs \ {a} : x.id = want[s].id /\ want[s].va \in Pages(x)
    BY <1>1
  <2>1. want[s] \in [va : Int, id : Nat] /\ want[s].id # a.id
    BY <1>1 DEF FlightOK, Submitting
  <2>2. PICK x \in allocs : x.id = want[s].id /\ want[s].va \in Pages(x)
    BY DEF FlightOK
  <2> QED BY <2>1, <2>2
<1>7. \A c \in Channels : get'[c] <= Len(ring'[c])
  BY <1>1 DEF FlightOK
<1>8. CASE AllRetired(PutSnapshot)
  <2>1. Becomes(Recycle(a, Reclaimed)) /\ pending' = left
    BY <1>8 DEF FreeAlloc
  <2>2. Unrecycled' = V \ {a}
    BY <1>1, <1>3, <2>1 DEF Unrecycled
  <2>3. MemOK(Memory', Unrecycled')
    <3>1. MemOK(Recycle(a, Reclaimed), V \ {a})
      <4> HIDE DEF V
      <4> QED BY <1>2, <1>4, RecycleOK
    <3> QED BY <2>1, <2>2, <3>1, BecomesOK
  <2>4. TypeOK'
    BY <1>1, <1>2, <2>1 DEF TypeOK
  <2>5. UnrecycledOK' /\ FencesOK'
    BY <1>1, <1>3, <1>4, <2>1, <2>2 DEF UnrecycledOK, FencesOK
  <2>6. \A c \in Channels : get[c] + 1 .. Len(ring[c]) = {}
    <3> SUFFICES ASSUME NEW c \in Channels PROVE get[c] + 1 .. Len(ring[c]) = {}
      OBVIOUS
    <3>1. get[c] >= Len(ring[c])
      BY <1>8 DEF AllRetired, PutSnapshot
    <3>2. get[c] \in Nat /\ Len(ring[c]) \in Nat
      BY DEF TypeOK
    <3> QED BY <3>1, <3>2
  <2>7. FlightOK'
    BY <1>1, <1>6, <1>7, <2>6 DEF FlightOK
  <2> QED BY <1>5, <2>3, <2>4, <2>5, <2>7
<1>9. CASE ~AllRetired(PutSnapshot)
  <2>1. PICK q : q = [alloc |-> a, fence |-> PutSnapshot]
    OBVIOUS
  <2>2. Becomes(Reclaimed) /\ pending' = left \cup {q}
    BY <1>9, <2>1 DEF FreeAlloc
  <2>3. PutSnapshot \in [Channels -> Nat] /\ \A c \in Channels : PutSnapshot[c] = Len(ring[c])
    BY DEF PutSnapshot, TypeOK
  <2>4. /\ q \in [alloc : Allocations, fence : [Channels -> Nat]]
        /\ q.alloc = a /\ \A c \in Channels : q.fence[c] = Len(ring[c]) /\ q.fence[c] \in Nat
    BY <2>1, <2>3 DEF TypeOK
  <2>5. Unrecycled' = V
    BY <1>1, <1>3, <2>2, <2>4 DEF Unrecycled
  <2>6. MemOK(Memory', Unrecycled')
    BY <1>2, <2>2, <2>5, BecomesOK
  <2>7. TypeOK'
    <3>1. IsFiniteSet(pending')
      BY <1>2, <2>2, FS_AddElement
    <3> QED BY <1>1, <2>2, <2>4, <3>1 DEF TypeOK
  <2>8. UnrecycledOK'
    BY <1>1, <1>3, <1>4, <2>2, <2>4, <2>5 DEF UnrecycledOK
  <2>9. FencesOK'
    <3> SUFFICES ASSUME NEW p \in pending', NEW c \in Channels
                 PROVE  /\ \A i \in 1 .. Len(ring[c]) :
                             ring[c][i].id = p.alloc.id => i <= p.fence[c]
                        /\ p.fence[c] <= Len(ring[c])
      BY <1>1 DEF FencesOK
    <3>1. CASE p = q
      BY <2>4, <3>1
    <3>2. CASE p # q
      BY <2>2, <3>2 DEF FencesOK
    <3> QED BY <3>1, <3>2
  <2>10. FlightOK'
    <3>1. \A c \in Channels : \A i \in get'[c] + 1 .. Len(ring'[c]) :
            \E x \in Unrecycled' : x.id = ring'[c][i].id /\ ring'[c][i].va \in Pages(x)
      BY <1>1, <1>2, <2>5
    <3> QED BY <1>6, <1>7, <3>1 DEF FlightOK
  <2> QED BY <1>5, <2>6, <2>7, <2>8, <2>9, <2>10
<1> QED BY <1>8, <1>9

\* SUBMIT: the allocation of the command is live, so it is not one that waits
\* behind a fence.
LEMMA EnqueueInv ==
  ASSUME DeviceInv, NEW t \in Threads, NEW c \in Channels, Enqueue(t, c)
  PROVE  DeviceInv'
<1> USE DEF DeviceInv
<1>1. PICK w : w = want[t]
  OBVIOUS
<1>2. /\ pc[t] = "enqueue" /\ ring' = [ring EXCEPT ![c] = Append(ring[c], w)] /\ Done(t)
      /\ UNCHANGED <<vram, managedVa, pte, resident, allocs, pending, get, sticky, ids>>
  BY <1>1 DEF Enqueue, heapVars
<1>3. Memory' = Memory /\ Unrecycled' = Unrecycled
  BY <1>2 DEF Memory, Unrecycled
<1>4. PICK a \in allocs : a.id = w.id /\ w.va \in Pages(a)
  BY <1>1, <1>2 DEF FlightOK
<1>5. w \in [va : Int, id : Nat] /\ a \in Unrecycled
  BY <1>1, <1>2, <1>4 DEF FlightOK, Unrecycled
<1>6. \A p \in pending : p.alloc.id # w.id
  <2> SUFFICES ASSUME NEW p \in pending, p.alloc.id = a.id PROVE FALSE
    BY <1>4
  <2>1. p.alloc \in Unrecycled /\ p.alloc \notin allocs
    BY DEF Unrecycled, UnrecycledOK
  <2> QED BY <1>5, <2>1 DEF MemOK
<1>7. /\ ring[c] \in Seq([va : Int, id : Nat]) /\ Len(ring[c]) \in Nat
      /\ \A d \in Channels : ring[d] \in Seq([va : Int, id : Nat])
                             /\ Len(ring[d]) \in Nat /\ get[d] \in Nat
  BY DEF TypeOK
<1>8. /\ ring'[c] = Append(ring[c], w) /\ \A d \in Channels : d # c => ring'[d] = ring[d]
      /\ Len(ring'[c]) = Len(ring[c]) + 1 /\ ring'[c][Len(ring[c]) + 1] = w
      /\ \A i \in 1 .. Len(ring[c]) : ring'[c][i] = ring[c][i]
      /\ ring' \in [Channels -> Seq([va : Int, id : Nat])]
  <2>1. ring'[c] = Append(ring[c], w) /\ \A d \in Channels : d # c => ring'[d] = ring[d]
    BY <1>2 DEF TypeOK
  <2>2. Append(ring[c], w) \in Seq([va : Int, id : Nat])
    BY <1>5, <1>7
  <2>3. ring' \in [Channels -> Seq([va : Int, id : Nat])]
    BY <1>2, <2>2 DEF TypeOK
  <2> QED BY <1>5, <1>7, <2>1, <2>3
<1>9. TypeOK'
  BY <1>2, <1>8, DoneFacts DEF TypeOK
<1>10. UnrecycledOK'
  BY <1>2, <1>3 DEF UnrecycledOK
<1>11. FencesOK'
  <2> SUFFICES ASSUME NEW p \in pending, NEW d \in Channels
               PROVE  /\ \A i \in 1 .. Len(ring'[d]) :
                           ring'[d][i].id = p.alloc.id => i <= p.fence[d]
                      /\ p.fence[d] <= Len(ring'[d])
    BY <1>2 DEF FencesOK
  <2>1. /\ \A i \in 1 .. Len(ring[d]) : ring[d][i].id = p.alloc.id => i <= p.fence[d]
        /\ p.fence[d] <= Len(ring[d]) /\ p.fence[d] \in Nat
    BY DEF FencesOK, TypeOK
  <2>2. CASE d # c
    BY <1>8, <2>1, <2>2
  <2>3. CASE d = c
    <3>1. ASSUME NEW i \in 1 .. Len(ring'[d]), ring'[d][i].id = p.alloc.id
          PROVE  i <= p.fence[d]
      <4>1. i # Len(ring[c]) + 1
        BY <1>6, <1>8, <2>3, <3>1
      <4>2. i \in 1 .. Len(ring[c])
        BY <1>7, <1>8, <2>3, <4>1
      <4> QED BY <1>8, <2>1, <2>3, <3>1, <4>2
    <3> QED BY <1>7, <1>8, <2>1, <2>3, <3>1
  <2> QED BY <2>2, <2>3
<1>12. FlightOK'
  <2>1. ASSUME NEW d \in Channels PROVE get'[d] <= Len(ring'[d])
    <3>1. get[d] <= Len(ring[d])
      BY DEF FlightOK
    <3> QED BY <1>2, <1>7, <1>8, <3>1
  <2>2. ASSUME NEW d \in Channels, NEW i \in get'[d] + 1 .. Len(ring'[d])
        PROVE  \E x \in Unrecycled' : x.id = ring'[d][i].id /\ ring'[d][i].va \in Pages(x)
    <3>1. CASE d = c /\ i = Len(ring[c]) + 1
      BY <1>3, <1>4, <1>5, <1>8, <3>1
    <3>2. CASE ~(d = c /\ i = Len(ring[c]) + 1)
      <4>1. i \in get[d] + 1 .. Len(ring[d]) /\ ring'[d][i] = ring[d][i]
        BY SMTT(30), <1>2, <1>7, <1>8, <3>2
      <4> QED BY <1>3, <4>1 DEF FlightOK
    <3> QED BY <3>1, <3>2
  <2>3. \A s \in Threads : pc'[s] = "enqueue" => s # t
    BY <1>2, DoneFacts
  <2>4. \A s \in Threads : pc'[s] = "enqueue" =>
          /\ want'[s] \in [va : Int, id : Nat]
          /\ \E x \in allocs' : x.id = want'[s].id /\ want'[s].va \in Pages(x)
    BY <1>2, <2>3, DoneFacts DEF FlightOK
  <2> QED BY <2>1, <2>2, <2>4 DEF FlightOK
<1>13. CallsOK'
  <2>2. CallOK(t)'
    BY <1>2, DoneFacts, NoCall DEF HoldsLock
  <2>3. ASSUME NEW s \in Threads, s # t PROVE CallOK(s)'
    BY <1>2, <2>3, DoneFacts, CallKept
  <2> QED BY <2>2, <2>3 DEF CallsOK
<1> QED BY <1>3, <1>9, <1>10, <1>11, <1>12, <1>13

\* Steps of the engines, the UVM thread and the host-fault thread: memory
\* stays in order and a command may retire; the calls are left alone.
LEMMA PagerKeeps ==
  ASSUME DeviceInv, MemOK(Memory', Unrecycled),
         get' = get \/ \E c \in Channels : Busy(c) /\ get' = [get EXCEPT ![c] = @ + 1],
         UNCHANGED <<allocs, pending, ring, ids, allocLock, pc, want, snap>>
  PROVE  DeviceInv'
<1> USE DEF DeviceInv
<1>1. Unrecycled' = Unrecycled
  BY DEF Unrecycled
<1>2. \A d \in Channels : get[d] \in Nat /\ Len(ring[d]) \in Nat
  BY DEF TypeOK
<1>3. /\ \A d \in Channels : get'[d] >= get[d] /\ get'[d] <= Len(ring[d])
      /\ get' \in [Channels -> Nat]
  <2>1. CASE get' = get
    BY <1>2, <2>1 DEF TypeOK, FlightOK
  <2>2. ASSUME NEW c \in Channels, Busy(c), get' = [get EXCEPT ![c] = @ + 1]
        PROVE  /\ \A d \in Channels : get'[d] >= get[d] /\ get'[d] <= Len(ring[d])
               /\ get' \in [Channels -> Nat]
    <3>1. get' \in [Channels -> Nat] /\ get'[c] = get[c] + 1
          /\ \A d \in Channels : d # c => get'[d] = get[d]
      BY <1>2, <2>2 DEF TypeOK
    <3> QED BY <1>2, <2>2, <3>1 DEF FlightOK, Busy
  <2> QED BY <2>1, <2>2
<1>4. TypeOK'
  BY <1>3 DEF TypeOK
<1>5. UnrecycledOK' /\ FencesOK'
  BY <1>1 DEF UnrecycledOK, FencesOK
<1>6. FlightOK'
  <2>1. \A d \in Channels : \A i \in get'[d] + 1 .. Len(ring'[d]) : i \in get[d] + 1 .. Len(ring[d])
    BY <1>2, <1>3
  <2> QED BY <1>1, <1>3, <2>1 DEF FlightOK
<1>7. CallsOK'
  BY DEF CallsOK, CallOK
<1> QED BY <1>1, <1>4, <1>5, <1>6, <1>7

LEMMA ExecuteInv ==
  ASSUME DeviceInv, NEW c \in Channels, Execute(c)
  PROVE  DeviceInv'
<1>1. /\ Busy(c) /\ get' = [get EXCEPT ![c] = @ + 1] /\ UNCHANGED heapVars
      /\ UNCHANGED <<allocs, pending, ring, ids, allocLock, pc, want, snap>>
  BY DEF Execute, threadVars
<1>2. Memory' = Memory
  BY <1>1 DEF Memory, heapVars
<1> QED BY <1>1, <1>2, PagerKeeps DEF DeviceInv

\* A page that can be migrated is a managed one, and not in VRAM.
LEMMA MigratableFacts ==
  ASSUME NEW va \in 0 .. VaPages - 1, Migratable(va)
  PROVE  va \in VramPages .. VaPages - 1 /\ pte[va] # 0 /\ \A r \in resident : r.va # va
BY Ranges DEF Migratable, Managed, InVram

\* migrate_locked brings a page into a free frame, or into that of a page it
\* evicts.
LEMMA MoveInOK ==
  ASSUME DeviceInv, NEW va \in 0 .. VaPages - 1, Migratable(va), MoveIn(va),
         UNCHANGED <<managedVa, pte>>
  PROVE  MemOK(Memory', Unrecycled)
<1>1. /\ va \in VramPages .. VaPages - 1
      /\ Memory.pte[va] # 0 /\ \A r \in Memory.resident : r.va # va
  BY MigratableFacts, MemoryFields
<1>2. MemOK(Memory, Unrecycled)
  BY DEF DeviceInv
<1>3. PICK n : n = Memory'
  OBVIOUS
<1>4. PICK f \in Frames : /\ vram' = f.vram
                         /\ resident' = f.kept \cup {[va |-> va, frame |-> f.frame]}
  BY DEF MoveIn
<1>5. CASE FirstFit(vram, 1) # {}
  <2>1. PICK b \in FirstFit(vram, 1) :
          f = [frame |-> b.start, vram |-> Carve(vram, b, 1), kept |-> resident]
    BY <1>5 DEF Frames
  <2>2. /\ n.vram = Carve(Memory.vram, b, 1) /\ b \in FirstFit(Memory.vram, 1)
        /\ n.resident = Memory.resident \cup {[va |-> va, frame |-> b.start]}
        /\ n.managedVa = Memory.managedVa /\ n.pte = Memory.pte
    BY <1>3, <1>4, <2>1, MemoryFields, MemoryFieldsNext
  <2>3. MemOK(n, Unrecycled)
    BY <1>1, <1>2, <2>2, MigrateOK
  <2> QED BY <1>3, <2>3
<1>6. CASE FirstFit(vram, 1) = {}
  <2>1. PICK r \in resident :
          f = [frame |-> r.frame, vram |-> vram, kept |-> resident \ {r}]
    BY <1>6 DEF Frames
  <2>2. /\ n.vram = Memory.vram /\ r \in Memory.resident
        /\ n.resident = (Memory.resident \ {r}) \cup {[va |-> va, frame |-> r.frame]}
        /\ n.managedVa = Memory.managedVa /\ n.pte = Memory.pte
    BY <1>3, <1>4, <2>1, MemoryFields, MemoryFieldsNext
  <2>3. MemOK(n, Unrecycled)
    BY <1>1, <1>2, <2>2, SwapOK
  <2> QED BY <1>3, <2>3
<1> QED BY <1>5, <1>6

\* One page leaves VRAM.
LEMMA MoveOutOK ==
  ASSUME DeviceInv, NEW r \in resident, vram' = Free(vram, r.frame),
         resident' = resident \ {r}, UNCHANGED <<managedVa, pte>>
  PROVE  MemOK(Memory', Unrecycled)
<1>1. PICK n : n = Memory'
  OBVIOUS
<1>2. /\ n.vram = Free(Memory.vram, r.frame) /\ r \in Memory.resident
      /\ n.resident = Memory.resident \ {r}
      /\ n.managedVa = Memory.managedVa /\ n.pte = Memory.pte
  BY <1>1, MemoryFields, MemoryFieldsNext
<1>3. MemOK(n, Unrecycled)
  BY <1>2, EvictOneOK DEF DeviceInv
<1> QED BY <1>1, <1>3

\* A failed migration loses no frame.
LEMMA MoveFailsOK ==
  ASSUME DeviceInv, MoveFails, UNCHANGED <<managedVa, pte>>
  PROVE  MemOK(Memory', Unrecycled)
<1>1. CASE UNCHANGED <<vram, resident>>
  <2>1. Memory' = Memory
    BY <1>1 DEF Memory
  <2> QED BY <2>1 DEF DeviceInv
<1>2. ASSUME NEW b \in FirstFit(vram, 1), vram' = Free(Carve(vram, b, 1), b.start),
             resident' = resident
      PROVE  MemOK(Memory', Unrecycled)
  <2>1. /\ HeapOK(vram, 0, VramPages) /\ HeapOK(managedVa, VramPages, VaPages)
        /\ MemOK(Memory, Unrecycled) /\ 1 \in Nat \ {0}
    BY MemoryFields DEF DeviceInv, MemOK
  <2>2. HeapOK(vram', 0, VramPages) /\ vram'.live = vram.live
    BY <1>2, <2>1, Ranges, PutBackOK
  <2>3. PICK n : n = Memory'
    OBVIOUS
  <2>4. /\ HeapOK(n.vram, 0, VramPages) /\ HeapOK(n.managedVa, VramPages, VaPages)
        /\ n.vram.live = Memory.vram.live /\ n.managedVa.live = Memory.managedVa.live
        /\ n.pte = Memory.pte /\ n.resident = Memory.resident
    BY <1>2, <2>1, <2>2, <2>3, MemoryFields, MemoryFieldsNext
  <2>5. MemOK(n, Unrecycled)
    BY <2>1, <2>4, SameLiveOK
  <2> QED BY <2>3, <2>5
<1>3. ASSUME NEW f \in Frames, vram' = Free(f.vram, f.frame), resident' = f.kept
      PROVE  MemOK(Memory', Unrecycled)
  <2>1. CASE FirstFit(vram, 1) # {}
    <3>1. PICK b \in FirstFit(vram, 1) :
            f = [frame |-> b.start, vram |-> Carve(vram, b, 1), kept |-> resident]
      BY <2>1 DEF Frames
    <3> QED BY <1>2, <1>3, <3>1
  <2>2. CASE FirstFit(vram, 1) = {}
    <3>1. PICK r \in resident :
            f = [frame |-> r.frame, vram |-> vram, kept |-> resident \ {r}]
      BY <2>2 DEF Frames
    <3> QED BY <1>3, <3>1, MoveOutOK
  <2> QED BY <2>1, <2>2
<1> QED BY <1>1, <1>3 DEF MoveFails

\* The UVM thread serves a fault.
LEMMA MigrateInv ==
  ASSUME DeviceInv, NEW c \in Channels, Migrate(c)
  PROVE  DeviceInv'
<1>1. PICK va : va = HeadCmd(c).va
  OBVIOUS
<1>2. /\ Busy(c) /\ Migratable(va)
      /\ UNCHANGED <<managedVa, pte>>
      /\ UNCHANGED <<allocs, pending, ring, ids, allocLock, pc, want, snap>>
  BY <1>1 DEF Migrate, threadVars
<1>3. va \in 0 .. VaPages - 1
  <2>1. get[c] \in Nat /\ Len(ring[c]) \in Nat /\ get[c] + 1 \in get[c] + 1 .. Len(ring[c])
    BY <1>2 DEF DeviceInv, TypeOK, Busy
  <2>2. PICK a \in Unrecycled : va \in Pages(a)
    BY <1>1, <2>1 DEF DeviceInv, FlightOK, HeadCmd
  <2>3. va \in RangeOf(a)
    BY <2>2 DEF DeviceInv, MemOK
  <2> QED BY <2>3, Ranges DEF RangeOf
<1>4. CASE MoveIn(va) /\ get' = get
  BY <1>2, <1>3, <1>4, MoveInOK, PagerKeeps
<1>5. CASE MoveFails /\ get' = [get EXCEPT ![c] = @ + 1]
  BY <1>2, <1>5, MoveFailsOK, PagerKeeps
<1> QED BY <1>1, <1>4, <1>5 DEF Migrate

\* ... and prefetches.
LEMMA PrefetchInv ==
  ASSUME DeviceInv, Prefetch
  PROVE  DeviceInv'
<1>1. /\ UNCHANGED <<managedVa, pte, get>>
      /\ UNCHANGED <<allocs, pending, ring, ids, allocLock, pc, want, snap>>
  BY DEF Prefetch, threadVars, deviceVars
<1>2. CASE ahead \in DOMAIN pte /\ Migratable(ahead) /\ MoveIn(ahead)
  <2>1. DOMAIN pte = 0 .. VaPages - 1
    BY MemoryFields DEF DeviceInv, MemOK
  <2> QED BY <1>1, <1>2, <2>1, MoveInOK, PagerKeeps
<1>3. CASE MoveFails
  BY <1>1, <1>3, MoveFailsOK, PagerKeeps
<1>4. CASE UNCHANGED <<vram, resident>>
  <2>1. Memory' = Memory
    BY <1>1, <1>4 DEF Memory
  <2> QED BY <1>1, <2>1, PagerKeeps DEF DeviceInv
<1> QED BY <1>2, <1>3, <1>4 DEF Prefetch

\* The host-fault thread.
LEMMA HostFaultInv ==
  ASSUME DeviceInv, NEW r \in resident, HostFault(r)
  PROVE  DeviceInv'
<1>1. /\ UNCHANGED <<managedVa, pte, get>>
      /\ UNCHANGED <<allocs, pending, ring, ids, allocLock, pc, want, snap>>
      /\ vram' = Free(vram, r.frame) /\ resident' = resident \ {r}
  BY DEF HostFault, threadVars, deviceVars
<1> QED BY <1>1, MoveOutOK, PagerKeeps

LEMMA NextInv == DeviceInv /\ [Next]_vars => DeviceInv'
<1> SUFFICES ASSUME DeviceInv, [Next]_vars PROVE DeviceInv'
  OBVIOUS
<1>1. ASSUME NEW t \in Threads, Alloc(t) PROVE DeviceInv'
  <2>1. CASE Take(t)
    <3>1. CASE FirstFit(HeapFor(t), want[t].pages) = {}
      BY <2>1, <3>1, TakeFailsInv
    <3>2. CASE FirstFit(HeapFor(t), want[t].pages) # {}
      <4>1. PICK b \in FirstFit(HeapFor(t), want[t].pages) :
              \/ /\ Grant(t, b)
                 /\ HeapBecomes(t, Carve(HeapFor(t), b, want[t].pages))
              \/ /\ RollBack(t)
                 /\ HeapBecomes(t, Free(Carve(HeapFor(t), b, want[t].pages), b.start))
        BY <2>1, <3>2 DEF Take
      <4> QED BY <2>1, <4>1, TakeGrantsInv, TakeRollsBackInv
    <3> QED BY <3>1, <3>2
  <2> QED BY <1>1, <2>1, DrainedInv, EvictAllInv, RefuseInv DEF Alloc
<1>2. CASE Next
  BY <1>1, <1>2, AllocBeginInv, FreeAllocInv, OwnsInv, EnqueueInv, ExecuteInv, MigrateInv,
     PrefetchInv, HostFaultInv
     DEF Next
<1>3. CASE UNCHANGED vars
  <2>1. UNCHANGED <<vram, managedVa, pte, resident, allocs, pending, ring, get, ids>>
        /\ UNCHANGED <<allocLock, pc, want, snap>>
    BY <1>3 DEF vars, heapVars, deviceVars, threadVars
  <2>2. /\ MemOK(Memory', Unrecycled') /\ UnrecycledOK' /\ FencesOK'
        /\ Unrecycled' = Unrecycled
    BY <2>1, MemoryUntouched
  <2>3. TypeOK' /\ FlightOK' /\ CallsOK'
    BY <2>1, <2>2 DEF DeviceInv, TypeOK, FlightOK, CallsOK, CallOK
  <2> QED BY <2>2, <2>3 DEF DeviceInv
<1> QED BY <1>2, <1>3

\* ALLOC, ALLOC_MANAGED, FREE, SUBMIT, the engines, the UVM thread and the
\* host-fault thread, whatever fails in them, keep the two heaps, the page tables, the resident set, the pending list and the
\* fences in step, for any number of threads, channels and pages.
THEOREM DeviceInvariant == Spec => []DeviceInv
BY InitInv, NextInv, PTL DEF Spec

----------------------------------------------------------------------------
(* What it means for callers                                               *)

\* sgFree is safe while work on the memory is in flight: a command that has
\* not retired finds its page mapped to the allocation it was submitted for.
THEOREM FreeIsSafe == Spec => []NoUseAfterRecycle
<1>1. DeviceInv => NoUseAfterRecycle
  <2> SUFFICES ASSUME DeviceInv, NEW x \in InFlight PROVE pte[x.va] = x.id
    BY DEF NoUseAfterRecycle
  <2>1. PICK c \in Channels : \E i \in get[c] + 1 .. Len(ring[c]) : x = ring[c][i]
    BY DEF InFlight
  <2>2. PICK a \in Unrecycled : a.id = x.id /\ x.va \in Pages(a)
    BY <2>1 DEF DeviceInv, FlightOK
  <2> QED BY <2>2, MemoryFields DEF DeviceInv, MemOK
<1> QED BY <1>1, DeviceInvariant, PTL

\* Every frame has one owner and every mapping its allocation: the live blocks
\* of VRAM are the sgMalloc allocations not yet recycled and the frames of the
\* resident managed pages.
THEOREM MemoryIsAccounted == Spec => []MemoryAccounted
<1>1. DeviceInv => MemoryAccounted
  <2> SUFFICES ASSUME DeviceInv PROVE MemoryAccounted
    OBVIOUS
  <2>1. FramesAccounted
    BY MemoryFields DEF DeviceInv, MemOK, FramesAccounted, BlockOf, FrameOf
  <2>2. ASSUME NEW va \in DOMAIN pte
        PROVE  pte[va] # 0 <=> \E a \in Unrecycled : va \in Pages(a) /\ a.id = pte[va]
    <3>1. va \in 0 .. VaPages - 1
      BY MemoryFields DEF DeviceInv, MemOK
    <3>2. \A a \in Unrecycled : a.id # 0 /\ (va \in Pages(a) => pte[va] = a.id)
      BY MemoryFields DEF DeviceInv, MemOK, Allocations
    <3>3. pte[va] # 0 => \E a \in Unrecycled : va \in Pages(a)
      BY <3>1, MemoryFields DEF DeviceInv, MemOK
    <3> QED BY <3>2, <3>3
  <2> QED BY <2>1, <2>2 DEF MemoryAccounted, MappingsAccounted
<1> QED BY <1>1, DeviceInvariant, PTL

\* In a coalesced heap, room that no live block touches is one free block's.
LEMMA RoomIsOneBlock ==
  ASSUME NEW h, NEW lo \in Int, NEW hi \in Int, HeapOK(h, lo, hi),
         NEW f \in Int, NEW n \in Nat \ {0}, lo <= f, f + n <= hi,
         \A x \in f .. f + n - 1 : \A b \in h.live : ~Covers(b, x)
  PROVE  \E b \in h.free : b.len >= n
<1>1. \A b \in h.free : b.start \in Int /\ b.len \in Nat \ {0} /\ End(b) = b.start + b.len
  BY DEF HeapOK, Blocks, End
<1>2. ASSUME NEW x \in Int, f <= x, x < f + n
      PROVE  \E b \in h.free : Covers(b, x)
  <2>1. x \in f .. f + n - 1 /\ x \in lo .. hi - 1
    BY <1>2
  <2> QED BY <2>1 DEF HeapOK
<1>3. PICK b \in h.free : Covers(b, f)
  <2>1. f <= f /\ f < f + n
    OBVIOUS
  <2> QED BY <1>2, <2>1
<1>4. CASE End(b) >= f + n
  BY <1>1, <1>3, <1>4 DEF Covers
<1>5. CASE End(b) < f + n
  <2>1. End(b) \in Int /\ f <= End(b)
    BY <1>1, <1>3 DEF Covers
  <2>2. PICK d \in h.free : Covers(d, End(b))
    BY <1>2, <1>5, <2>1
  <2>3. d # b
    BY <1>1, <2>2 DEF Covers
  <2>4. Apart(b, d) /\ d.start # End(b)
    BY <2>3 DEF HeapOK
  <2>5. b.start \in Int /\ d.start \in Int /\ End(d) \in Int /\ b.start < End(b)
    BY <1>1
  <2> QED BY <2>1, <2>2, <2>4, <2>5 DEF Apart, Covers
<1>6. f + n \in Int /\ End(b) \in Int
  BY <1>1
<1> QED BY <1>4, <1>5, <1>6

\* sgMalloc gives up only when live sgMalloc allocations and the pages that
\* are resident at its last attempt leave no run of that length: nothing
\* freed is left over and no room is lost to fragmentation of the free list.
THEOREM RefusalIsJustified == Spec => RefusesOnlyWhenFull
<1>1. DeviceInv /\ [Next]_vars => [GivesUpFull]_vars
  <2> SUFFICES ASSUME DeviceInv, Next, NEW t \in Threads, pc[t] # "refused",
                      pc'[t] = "refused", ~want[t].managed
               PROVE  ~RoomBeside(want[t].pages)
    BY DEF GivesUpFull
  <2>1. /\ FirstFit(vram, want[t].pages) = {} /\ pc[t] = "take last"
    <3>1. PICK s \in Threads : pc' # pc /\ Take(s)
      BY DEF Next, Alloc, AllocBegin, FreeAlloc, Owns, Enqueue, Drained, EvictAll,
             Refuse, Execute, Migrate, Prefetch, HostFault, Goto, Done, threadVars,
             DeviceInv, TypeOK
    <3>2. pc \in [Threads -> HoldsLock \cup {"idle", "enqueue"}]
      BY DEF DeviceInv, TypeOK
    <3>3. ~Done(s)
      BY <3>2 DEF Done
    <3>4. /\ FirstFit(HeapFor(s), want[s].pages) = {}
          /\ pc' = [pc EXCEPT ![s] = AfterFailure(s)]
          /\ pc[s] \in {"take", "take again", "take last"}
      BY <3>1, <3>3 DEF Take, Grant, RollBack
    <3>5. s = t /\ AfterFailure(t) = "refused"
      BY <3>2, <3>4
    <3> QED BY <3>4, <3>5 DEF AfterFailure, HeapFor
  <2>2. PICK n : n = want[t].pages
    OBVIOUS
  <2>3. HeapOK(vram, 0, VramPages) /\ MemOK(Memory, Unrecycled)
    BY MemoryFields DEF DeviceInv, MemOK
  <2>4. n \in Nat \ {0} /\ pending = {}
    BY <2>1, <2>2 DEF DeviceInv, CallsOK, CallOK, HoldsLock
  <2>5. \A b \in vram.free : b.len < n /\ b.len \in Nat
    <3>1. \A b \in vram.free : b.len \in Nat
      BY <2>3 DEF HeapOK, Blocks
    <3> QED BY <2>1, <2>2, <2>3, <2>4, <3>1, Ranges, NothingFits
  <2>6. SUFFICES ASSUME NEW f \in 0 .. VramPages - n, Clear(f, n),
                        \A r \in resident : r.frame \notin f .. f + n - 1
                 PROVE  FALSE
    BY <2>2 DEF RoomBeside
  <2>7. vram.live = {BlockOf(a) : a \in {x \in allocs : ~x.managed}}
                      \cup {FrameOf(r) : r \in resident}
    <3>1. Unrecycled = allocs
      BY <2>4 DEF Unrecycled
    <3> QED BY <2>3, <3>1, MemoryFields DEF MemOK
  <2>8. ASSUME NEW x \in f .. f + n - 1, NEW b \in vram.live PROVE ~Covers(b, x)
    <3>1. ASSUME NEW a \in allocs, ~a.managed, b = BlockOf(a) PROVE ~Covers(b, x)
      <4>1. a \in Unrecycled
        BY DEF Unrecycled
      <4>2. /\ a.addr \in Nat /\ a.pages \in Nat \ {0}
            /\ \A y : y \in Pages(a) <=> y \in Int /\ a.addr <= y /\ y < a.addr + a.pages
            /\ b.start = a.addr /\ End(b) = a.addr + a.pages
        BY <2>3, <3>1, <4>1, AllocFacts
      <4>3. x \in Int /\ x \notin Pages(a)
        BY <2>4, <2>6, <3>1 DEF Clear
      <4> QED BY <4>2, <4>3 DEF Covers
    <3>2. ASSUME NEW r \in resident, b = FrameOf(r) PROVE ~Covers(b, x)
      <4>1. /\ b.start = r.frame /\ End(b) = r.frame + 1 /\ r.frame \in Int
        BY <2>3, <3>2, FrameFacts, MemoryFields
      <4>2. x \in Int /\ x # r.frame
        BY <2>4, <2>6, <3>2
      <4> QED BY <4>1, <4>2 DEF Covers
    <3> QED BY <2>7, <3>1, <3>2
  <2>9. f \in Int /\ 0 <= f /\ f + n <= VramPages
    BY <2>4, <2>6, Ranges
  <2>10. \E b \in vram.free : b.len >= n
    BY <2>3, <2>4, <2>8, <2>9, Ranges, RoomIsOneBlock
  <2> QED BY <2>4, <2>5, <2>10
<1> QED BY <1>1, DeviceInvariant, PTL DEF Spec, RefusesOnlyWhenFull
=============================================================================

-------------------------- MODULE StagingPoolProofs --------------------------
(***************************************************************************)
(* Proofs about StagingPool, for any number of threads, channels, slots,   *)
(* copies and chunks, in both submit modes and with commands that fail.    *)
(***************************************************************************)
EXTENDS StagingPool, FiniteSetTheorems, TLAPS

----------------------------------------------------------------------------
(* The inductive invariant                                                 *)

Ops == {"h2d", "d2h"}
FenceType == [channel : Channels, value : Nat]
ChunkType == Threads \X Nat \X Nat
Payload == ChunkType \cup {<<>>}
CmdType == [op : Ops, slot : Slot, chunk : ChunkType]
JobType == [op : Ops, chunks : Nat, channel : Channels]
EntryType == [slot : Slot, value : Nat]
Labels == {"idle", "lock", "acquire", "prev", "fill", "enqueue", "release",
           "dma", "empty", "handback", "return"}

TypeOK ==
  /\ mutex \in BOOLEAN /\ sticky \in BOOLEAN
  /\ busy \in [Slot -> BOOLEAN] /\ fence \in [Slot -> FenceType]
  /\ nextSlot \in Slot /\ data \in [Slot -> Payload]
  /\ ring \in [Channels -> Seq(CmdType)] /\ get \in [Channels -> Nat]
  /\ pc \in [Threads -> Labels] /\ job \in [Threads -> JobType]
  /\ issued \in [Threads -> Nat] /\ done \in [Threads -> Nat]
  /\ jobs \in [Threads -> Nat] /\ slot \in [Threads -> Slot]
  /\ prev \in [Threads -> FenceType] /\ window \in [Threads -> Seq(EntryType)]
  /\ got \in [Threads -> Seq(Payload)]

\* Where a thread is in its loop, what its counters say: the window has the
\* chunks that were issued and are not done.
Loops(t) ==
  /\ done[t] <= issued[t] /\ issued[t] <= job[t].chunks
  /\ pc[t] \in {"acquire", "prev", "fill", "enqueue"} => issued[t] < job[t].chunks
  /\ pc[t] = "lock" => issued[t] = 0 /\ done[t] = 0
  /\ job[t].op = "h2d" => /\ Len(window[t]) = 0 /\ done[t] = 0
                          /\ pc[t] \notin {"dma", "empty", "handback"}
  /\ job[t].op = "d2h" => pc[t] \notin {"fill", "release"}
  /\ job[t].op = "d2h" /\ pc[t] \notin {"idle", "return"} =>
       Len(window[t]) = issued[t] - done[t]
  /\ pc[t] = "idle" \/ (pc[t] = "return" /\ ~sticky) => Len(window[t]) = 0
  /\ pc[t] \in {"empty", "handback"} => Len(window[t]) > 0
  /\ pc[t] = "acquire" => Len(window[t]) < WindowDepth
  /\ pc[t] = "handback" => Len(got[t]) = done[t] + 1
  /\ pc[t] # "handback" => Len(got[t]) = done[t]

LoopsOK == \A t \in Threads : Loops(t)

\* Chunks are numbered: none is in a ring twice while its copy still looks
\* for it there.
IsChunk(c, i, t) == ring[c][i].chunk = <<t, jobs[t], issued[t] - 1>>
Numbered ==
  \A c \in Channels : \A i \in 1 .. Len(ring[c]) : \A t \in Threads :
    ring[c][i].chunk[1] = t =>
      /\ ring[c][i].chunk[2] <= jobs[t]
      /\ ring[c][i].chunk[2] = jobs[t] => ring[c][i].chunk[3] < issued[t]
Releases(t) ==
  pc[t] = "release" =>
    /\ issued[t] > 0
    /\ \E i \in 1 .. Len(ring[ChannelOf(t)]) : IsChunk(ChannelOf(t), i, t)
    /\ \A i, j \in 1 .. Len(ring[ChannelOf(t)]) :
         IsChunk(ChannelOf(t), i, t) /\ IsChunk(ChannelOf(t), j, t) => i = j
ChunksOK == Numbered /\ \A t \in Threads : Releases(t)

\* What a D2H copy has in its window are its own commands, in order.
WindowOK ==
  \A t \in Threads : \A k \in 1 .. Len(window[t]) :
    LET w == window[t][k] IN
    /\ w.value \in 1 .. Len(ring[ChannelOf(t)])
    /\ ring[ChannelOf(t)][w.value] =
         [op |-> "d2h", slot |-> w.slot, chunk |-> <<t, jobs[t], done[t] + k - 1>>]

\* Holds, slot by slot.
InSlot(t) == pc[t] \in {"prev", "fill", "enqueue", "release"}
InWindow(t, s) == /\ pc[t] # "return"
                  /\ \E k \in 1 .. Len(window[t]) : window[t][k].slot = s
Has(t, s) == (InSlot(t) /\ slot[t] = s) \/ InWindow(t, s)

HoldersOK ==
  /\ \A t \in Threads : \A s \in Slot : Has(t, s) => busy[s]
  /\ \A t, u \in Threads : \A s \in Slot : Has(t, s) /\ Has(u, s) => t = u
  /\ \A t \in Threads : \A s \in Slot : InSlot(t) /\ slot[t] = s => ~InWindow(t, s)
  /\ \A t \in Threads : \A k, l \in 1 .. Len(window[t]) :
       window[t][k].slot = window[t][l].slot => k = l
  /\ ~sticky => \A s \in Slot : busy[s] => \E t \in Threads : Has(t, s)

\* Command i of channel c is behind the fence f.
Behind(c, i, f) == f.channel = c /\ f.value >= i

\* Who meets the slot of a command in flight meets its fence first: the
\* slot's, the one a thread is waiting for, or the one it still has to leave.
Meets(t, c, i) ==
  LET s == ring[c][i].slot IN
  /\ pc[t] = "prev" /\ slot[t] = s => Behind(c, i, prev[t])
  /\ pc[t] \in {"fill", "enqueue"} => slot[t] # s
  /\ pc[t] = "release" /\ slot[t] = s => ChannelOf(t) = c /\ IsChunk(c, i, t)
  /\ pc[t] # "return" => \A k \in 1 .. Len(window[t]) :
       window[t][k].slot = s => ChannelOf(t) = c /\ window[t][k].value = i
Guarded(c, i) ==
  /\ ~busy[ring[c][i].slot] => Behind(c, i, fence[ring[c][i].slot])
  /\ \A t \in Threads : Meets(t, c, i)

FlightOK ==
  /\ \A c \in Channels : get[c] <= Len(ring[c])
  /\ \A c \in Channels : \A i \in get[c] + 1 .. Len(ring[c]) : Guarded(c, i)
  /\ \A c, d \in Channels :
       \A i \in get[c] + 1 .. Len(ring[c]), j \in get[d] + 1 .. Len(ring[d]) :
         ring[c][i].slot = ring[d][j].slot => c = d /\ i = j

\* The bytes: in the source of an H2D command, from the fill on; in the slot
\* of a D2H command, from its retirement on, unless it failed.
SourceOK ==
  \A c \in Channels : \A i \in get[c] + 1 .. Len(ring[c]) :
    ring[c][i].op = "h2d" => data[ring[c][i].slot] = ring[c][i].chunk
Bytes(t) ==
  /\ pc[t] = "enqueue" /\ job[t].op = "h2d" => data[slot[t]] = Chunk(t)
  /\ pc[t] # "return" => \A k \in 1 .. Len(window[t]) :
       get[ChannelOf(t)] >= window[t][k].value =>
         sticky \/ data[window[t][k].slot] = <<t, jobs[t], done[t] + k - 1>>
  /\ pc[t] = "empty" =>
       /\ get[ChannelOf(t)] >= window[t][1].value
       /\ data[window[t][1].slot] = <<t, jobs[t], done[t]>>
DataOK == SourceOK /\ \A t \in Threads : Bytes(t)

PoolInv == /\ TypeOK /\ LoopsOK /\ ChunksOK /\ WindowOK /\ HoldersOK
           /\ FlightOK /\ DataOK /\ DeliversOwnChunks

----------------------------------------------------------------------------
(* The operators                                                           *)

LEMMA LoopLabels ==
  ASSUME NEW t, NEW a, NEW b PROVE Loop(t, a, b) \in {"acquire", "dma", "return"}
BY DEF Loop

LEMMA DepthPositive ==
  WindowDepth \in Nat /\ WindowDepth >= 1 /\ WindowDepth' = WindowDepth
BY PoolAssumption DEF WindowDepth, Max1

\* acquire_slot hands out a free slot, and the cursor stays in the pool.
LEMMA FreeSlot ==
  ASSUME TypeOK, NEW s \in FirstFree PROVE s \in Slot /\ ~busy[s] /\ Advance(s) \in Slot
<1>1. PICK n \in Slot : s = (nextSlot + n) % Slots /\ ~busy[s]
  BY DEF FirstFree
<1>2. nextSlot + n \in Nat /\ Slots \in Nat \ {0}
  BY PoolAssumption DEF TypeOK, Slot
<1>3. s \in Slot
  BY <1>1, <1>2 DEF Slot
<1>4. s + 1 \in Nat
  BY <1>3 DEF Slot
<1> QED BY <1>1, <1>2, <1>3, <1>4 DEF Advance, Slot

LEMMA HoldsIsHas ==
  ASSUME TypeOK, NEW t \in Threads, NEW s PROVE s \in Holds(t) <=> Has(t, s)
<1>1. window[t] \in Seq(EntryType)
  BY DEF TypeOK
<1>2. s \in {window[t][k].slot : k \in DOMAIN window[t]} <=>
        \E k \in 1 .. Len(window[t]) : window[t][k].slot = s
  BY <1>1
<1> QED BY <1>2 DEF Holds, Has, InSlot, InWindow

LEMMA HasIsSlot ==
  ASSUME TypeOK, NEW t \in Threads, NEW s, Has(t, s) PROVE s \in Slot
<1>1. window[t] \in Seq(EntryType) /\ slot[t] \in Slot
  BY DEF TypeOK
<1>2. \A k \in 1 .. Len(window[t]) : window[t][k].slot \in Slot
  <2>1. \A k \in 1 .. Len(window[t]) : window[t][k] \in EntryType
    BY <1>1
  <2> QED BY <2>1 DEF EntryType
<1> QED BY <1>1, <1>2 DEF Has, InSlot, InWindow

\* A thread's loop is its own affair, but for an error on the device.
LEMMA LoopsKept ==
  ASSUME NEW u \in Threads, Loops(u), pc'[u] = pc[u], job'[u] = job[u],
         issued'[u] = issued[u], done'[u] = done[u], window'[u] = window[u],
         got'[u] = got[u], sticky => sticky'
  PROVE  Loops(u)'
BY DEF Loops, WindowDepth, Max1

\* A copy that has not begun its loop holds no slot.
LEMMA NothingAtLock ==
  ASSUME TypeOK, NEW t \in Threads, Loops(t), pc[t] = "lock" PROVE Len(window[t]) = 0
<1>1. job[t].op \in {"h2d", "d2h"}
  BY DEF TypeOK, JobType, Ops
<1> QED BY <1>1 DEF Loops

----------------------------------------------------------------------------
(* Steps that only move a thread: the lock, and the two waits that end     *)
(* without an error                                                        *)

\* From one label to another between which nothing is written.
Passes(from, to) ==
  \/ from = "lock" /\ to \in {"acquire", "return"}
  \/ from = "prev" /\ to \in {"fill", "enqueue"}
  \/ from = "dma" /\ to = "empty"

LEMMA MoveInv ==
  ASSUME PoolInv, NEW t \in Threads, NEW to, Passes(pc[t], to),
         pc' = [pc EXCEPT ![t] = to],
         UNCHANGED <<poolVars, data, deviceVars, loopVars, got, mutex>>,
         Loops(t)',
         pc[t] = "prev" => Retired(prev[t]) /\ (to = "enqueue" => job[t].op = "d2h"),
         pc[t] = "dma" => /\ get[ChannelOf(t)] >= window[t][1].value
                          /\ Len(window[t]) > 0 /\ ~sticky
  PROVE  PoolInv'
<1> USE DEF poolVars, deviceVars, loopVars
<1>0. TypeOK /\ TypeOK'
  BY DEF PoolInv, TypeOK, Labels, Passes
<1>1. /\ pc'[t] = to /\ \A u \in Threads \ {t} : pc'[u] = pc[u]
      /\ \A u \in Threads : pc'[u] = "return" <=> pc[u] = "return" \/ (u = t /\ to = "return")
      /\ UNCHANGED <<window, slot, ring, get, job, jobs, issued, done, prev, busy,
                     fence, data, got, sticky>>
      /\ (to # "release" /\ to # "return") \/ pc[t] = "lock"
  BY <1>0 DEF TypeOK, Passes
<1>2. LoopsOK'
  <2>1. \A u \in Threads \ {t} : Loops(u)'
    BY <1>1, LoopsKept DEF PoolInv, LoopsOK
  <2> QED BY <2>1 DEF LoopsOK
<1>3. ChunksOK'
  <2>1. Numbered'
    BY <1>1 DEF PoolInv, ChunksOK, Numbered
  <2>2. \A u \in Threads : Releases(u)'
    <3>1. \A u \in Threads : pc'[u] = "release" => pc[u] = "release"
      BY <1>1 DEF Passes
    <3> QED BY <1>1, <3>1, ZenonT(60) DEF PoolInv, ChunksOK, Releases, IsChunk, ChannelOf
  <2> QED BY <2>1, <2>2 DEF ChunksOK
<1>4. WindowOK'
  BY <1>1 DEF PoolInv, WindowOK, ChannelOf
<1>5. pc[t] = "lock" => Len(window[t]) = 0
  <2>1. Loops(t)
    BY DEF PoolInv, LoopsOK
  <2> QED BY <1>0, <2>1, NothingAtLock
<1>6. \A u \in Threads : \A s \in Slot : Has(u, s)' <=> Has(u, s)
  BY <1>1, <1>5 DEF Has, InSlot, InWindow, Passes
<1>7. HoldersOK'
  <2>1. \A u \in Threads : InSlot(u)' <=> InSlot(u)
    BY <1>1 DEF InSlot, Passes
  <2>2. \A u \in Threads : \A s : InWindow(u, s)' <=> InWindow(u, s)
    BY <1>1, <1>5 DEF InWindow
  <2> QED BY <1>1, <1>6, <2>1, <2>2 DEF PoolInv, HoldersOK
<1>8. FlightOK'
  <2>1. ASSUME NEW c \in Channels, NEW i \in get[c] + 1 .. Len(ring[c])
        PROVE  Guarded(c, i)'
    <3>1. Guarded(c, i) /\ i \in Nat /\ get[c] \in Nat /\ i > get[c]
      BY <1>0, <2>1 DEF PoolInv, FlightOK, TypeOK
    <3>2. to \in {"fill", "enqueue"} => slot[t] # ring[c][i].slot
      <4> SUFFICES ASSUME to \in {"fill", "enqueue"}, slot[t] = ring[c][i].slot
                   PROVE  FALSE
        OBVIOUS
      <4>1. pc[t] = "prev" /\ Retired(prev[t]) /\ Behind(c, i, prev[t])
        BY <3>1 DEF Guarded, Meets, Passes
      <4>2. prev[t].value \in Nat
        BY <1>0 DEF TypeOK, FenceType
      <4> QED BY <3>1, <4>1, <4>2 DEF Retired, Behind
    <3> QED BY <1>1, <1>5, <3>1, <3>2 DEF Guarded, Meets, IsChunk, ChannelOf, Passes
  <2> QED BY <1>1, <2>1 DEF PoolInv, FlightOK
<1>9. DataOK'
  <2>1. to = "enqueue" => job[t].op = "d2h"
    BY DEF Passes
  <2>2. ASSUME to = "empty"
        PROVE  /\ get[ChannelOf(t)] >= window[t][1].value
               /\ data[window[t][1].slot] = <<t, jobs[t], done[t]>>
    <3>1. pc[t] = "dma" /\ get[ChannelOf(t)] >= window[t][1].value /\ ~sticky
      BY <2>2 DEF Passes
    <3>2. 1 \in 1 .. Len(window[t]) /\ done[t] \in Nat
      BY <1>0, <3>1 DEF TypeOK
    <3>3. data[window[t][1].slot] = <<t, jobs[t], done[t] + 1 - 1>>
      BY <3>1, <3>2 DEF PoolInv, DataOK, Bytes
    <3> QED BY <3>1, <3>2, <3>3
  <2>3. \A u \in Threads : /\ pc'[u] = "enqueue" => pc[u] = "enqueue" \/ (u = t /\ to = "enqueue")
                           /\ pc'[u] = "empty" => pc[u] = "empty" \/ (u = t /\ to = "empty")
                           /\ pc'[u] # "return" => pc[u] # "return"
    BY <1>1
  <2>4. SourceOK'
    BY <1>1 DEF PoolInv, DataOK, SourceOK
  <2>5. ASSUME NEW u \in Threads
        PROVE  Bytes(u)'
    <3>1. job[t].op # "h2d" \/ to # "enqueue"
      BY <2>1
    <3>2. Bytes(u)
      BY DEF PoolInv, DataOK
    <3> QED BY <1>1, <2>2, <2>3, <3>1, <3>2 DEF Bytes, Chunk, ChannelOf
  <2> QED BY <2>4, <2>5 DEF DataOK
<1>10. DeliversOwnChunks'
  BY <1>1 DEF PoolInv, DeliversOwnChunks
<1> QED BY <1>0, <1>2, <1>3, <1>4, <1>7, <1>8, <1>9, <1>10 DEF PoolInv

\* The channel lock, and the waits for a slot's last DMA and for the oldest
\* of the window.
LEMMA LockInv == ASSUME PoolInv, NEW t \in Threads, Lock(t) PROVE PoolInv'
<1>1. /\ TypeOK /\ Loops(t) /\ pc[t] = "lock" /\ pc' = [pc EXCEPT ![t] = Loop(t, 0, 0)]
      /\ UNCHANGED <<poolVars, data, deviceVars, loopVars, got, mutex>>
  BY DEF PoolInv, LoopsOK, Lock, Goto
<1>2. Len(window[t]) = 0 /\ issued[t] = 0 /\ done[t] = 0 /\ Len(got[t]) = 0
  BY <1>1, NothingAtLock DEF Loops
<1>3. /\ Loop(t, 0, 0) \in {"acquire", "return"}
      /\ Loop(t, 0, 0) = "acquire" => 0 < job[t].chunks
  <2>1. job[t].op \in {"h2d", "d2h"} /\ job[t].chunks \in Nat
    BY <1>1 DEF TypeOK, JobType, Ops
  <2> QED BY <2>1, DepthPositive DEF Loop
<1>4. Loops(t)'
  <2>1. /\ pc'[t] = Loop(t, 0, 0) /\ job'[t] = job[t] /\ issued'[t] = 0 /\ done'[t] = 0
        /\ Len(window'[t]) = 0 /\ Len(got'[t]) = 0
        /\ issued'[t] \in Nat /\ done'[t] \in Nat /\ job'[t] \in JobType
    BY <1>1, <1>2 DEF TypeOK, loopVars
  <2>2. job[t].op = "d2h" => pc'[t] \notin {"fill", "release"}
    BY <1>3, <2>1
  <2>3. job[t].chunks \in Nat
    BY <1>1 DEF TypeOK, JobType
  <2>6. job'[t].op = "h2d" \/ job'[t].op = "d2h"
    BY <1>1, <2>1 DEF TypeOK, JobType, Ops
  <2>4. CASE pc'[t] = "acquire"
    BY <1>3, <2>1, <2>3, <2>4, <2>6, DepthPositive DEF Loops
  <2>5. CASE pc'[t] = "return"
    BY <2>1, <2>3, <2>5, <2>6, DepthPositive DEF Loops
  <2> QED BY <1>3, <2>1, <2>4, <2>5
<1> QED BY <1>1, <1>3, <1>4, MoveInv DEF Passes

LEMMA WaitPrevInv ==
  ASSUME PoolInv, NEW t \in Threads, WaitPrev(t), ~sticky PROVE PoolInv'
<1> DEFINE to == IF job[t].op = "h2d" THEN "fill" ELSE "enqueue"
<1>1. /\ TypeOK /\ Loops(t) /\ pc[t] = "prev" /\ pc' = [pc EXCEPT ![t] = to]
      /\ UNCHANGED <<poolVars, data, deviceVars, loopVars, got, mutex>> /\ Retired(prev[t])
  BY DEF PoolInv, LoopsOK, WaitPrev, Goto
<1>2. job[t].op \in {"h2d", "d2h"}
  BY <1>1 DEF TypeOK, JobType, Ops
<1>3. /\ pc'[t] = to /\ UNCHANGED <<job, issued, done, window, got, sticky>>
  BY <1>1 DEF TypeOK, loopVars, deviceVars
<1>4. Loops(t)'
  <2>1. CASE pc'[t] = "fill"
    <3>1. job[t].op = "h2d"
      BY <1>2, <1>3, <2>1
    <3> HIDE DEF to
    <3> QED BY <1>1, <1>3, <2>1, <3>1, DepthPositive DEF Loops
  <2>2. CASE pc'[t] = "enqueue"
    BY <1>1, <1>2, <1>3, <2>2, DepthPositive DEF Loops
  <2> QED BY <1>3, <2>1, <2>2
<1> QED BY <1>1, <1>2, <1>4, MoveInv DEF Passes

LEMMA WaitDmaInv ==
  ASSUME PoolInv, NEW t \in Threads, WaitDma(t), ~sticky PROVE PoolInv'
<1>1. /\ TypeOK /\ Loops(t) /\ pc[t] = "dma" /\ pc' = [pc EXCEPT ![t] = "empty"]
      /\ UNCHANGED <<poolVars, data, deviceVars, loopVars, got, mutex>>
      /\ Len(window[t]) > 0 /\ get[ChannelOf(t)] >= Head(window[t]).value
  <2>1. TypeOK /\ window[t] # <<>> /\ window[t] \in Seq(EntryType)
    BY DEF PoolInv, TypeOK, WaitDma
  <2>2. Len(window[t]) > 0
    BY <2>1
  <2> QED BY <2>1, <2>2 DEF PoolInv, LoopsOK, WaitDma, Goto, Retired
<1>2. Head(window[t]) = window[t][1]
  BY <1>1 DEF TypeOK
<1>3. /\ pc'[t] = "empty" /\ UNCHANGED <<job, issued, done, window, got, sticky>>
  BY <1>1 DEF TypeOK, loopVars, deviceVars
<1>4. Loops(t)'
  BY <1>1, <1>3 DEF Loops
<1> QED BY <1>1, <1>2, <1>4, MoveInv DEF Passes

----------------------------------------------------------------------------
(* What other threads keep                                                 *)

\* Nothing of u changes.
Still(u) ==
  /\ pc'[u] = pc[u] /\ job'[u] = job[u] /\ issued'[u] = issued[u]
  /\ done'[u] = done[u] /\ slot'[u] = slot[u] /\ prev'[u] = prev[u]
  /\ window'[u] = window[u] /\ got'[u] = got[u] /\ jobs'[u] = jobs[u]

LEMMA HasKept ==
  ASSUME NEW u \in Threads, Still(u)
  PROVE  /\ \A s : Has(u, s)' <=> Has(u, s)
         /\ InSlot(u)' <=> InSlot(u)
         /\ \A s : InWindow(u, s)' <=> InWindow(u, s)
BY DEF Still, Has, InSlot, InWindow

LEMMA BytesKept ==
  ASSUME TypeOK, NEW u \in Threads, Loops(u), Bytes(u), Still(u), get' = get, sticky => sticky',
         data' \in [Slot -> Payload],
         \A s \in Slot : Has(u, s) => data'[s] = data[s]
  PROVE  Bytes(u)'
<1>1. /\ slot[u] \in Slot /\ \A k \in 1 .. Len(window[u]) : window[u][k].slot \in Slot
  <2>1. \A k \in 1 .. Len(window[u]) : window[u][k] \in EntryType
    BY DEF TypeOK
  <2> QED BY <2>1 DEF TypeOK, EntryType
<1>2. pc[u] = "enqueue" => data'[slot[u]] = data[slot[u]]
  BY <1>1 DEF Has, InSlot
<1>3. pc[u] # "return" => \A k \in 1 .. Len(window[u]) :
        data'[window[u][k].slot] = data[window[u][k].slot]
  BY <1>1 DEF Has, InWindow
<1>4. Chunk(u)' = Chunk(u) /\ ChannelOf(u)' = ChannelOf(u)
  BY DEF Still, Chunk, ChannelOf
<1>5. pc[u] = "empty" => 1 \in 1 .. Len(window[u])
  <2>1. window[u] \in Seq(EntryType) /\ (pc[u] = "empty" => Len(window[u]) > 0)
    BY DEF TypeOK, Loops
  <2> QED BY <2>1
<1> QED BY <1>2, <1>3, <1>4, <1>5, ZenonT(60) DEF Bytes, Still

LEMMA MeetsKept ==
  ASSUME NEW u \in Threads, NEW c \in Channels, NEW i, Still(u), Meets(u, c, i),
         ring'[c][i] = ring[c][i]
  PROVE  Meets(u, c, i)'
BY DEF Still, Meets, IsChunk, ChannelOf, Behind

LEMMA ReleasesKept ==
  ASSUME TypeOK, NEW u \in Threads, Still(u), Releases(u),
         ring'[ChannelOf(u)] = ring[ChannelOf(u)]
  PROVE  Releases(u)'
<1>1. ChannelOf(u)' = ChannelOf(u)
  BY DEF Still, ChannelOf
<1>2. \A i : IsChunk(ChannelOf(u), i, u)' <=> IsChunk(ChannelOf(u), i, u)
  BY <1>1 DEF Still, IsChunk, ChannelOf
<1> QED BY <1>1, <1>2 DEF Releases, Still

\* A step of t that leaves the rings alone, and the bytes of others.
LEMMA OthersStill ==
  ASSUME PoolInv, NEW t \in Threads, \A u \in Threads \ {t} : Still(u),
         UNCHANGED <<ring, get, sticky>>, data' \in [Slot -> Payload],
         \A s \in Slot : data'[s] # data[s] => Has(t, s)
  PROVE  /\ \A u \in Threads \ {t} : Loops(u)' /\ Releases(u)' /\ Bytes(u)'
         /\ \A u \in Threads \ {t} : \A c \in Channels : \A i \in get[c] + 1 .. Len(ring[c]) :
              Meets(u, c, i)'
         /\ \A u \in Threads \ {t} : \A s :
              (Has(u, s)' <=> Has(u, s)) /\ (InWindow(u, s)' <=> InWindow(u, s))
         /\ \A u \in Threads \ {t} : InSlot(u)' <=> InSlot(u)
<1>0. TypeOK /\ LoopsOK
  BY DEF PoolInv
<1>1. ASSUME NEW u \in Threads \ {t} PROVE Loops(u)' /\ Releases(u)' /\ Bytes(u)'
  <2>1. Loops(u) /\ Releases(u) /\ Bytes(u) /\ Still(u)
    BY DEF PoolInv, LoopsOK, ChunksOK, DataOK
  <2>2. Loops(u)'
    BY <2>1, LoopsKept DEF Still
  <2>3. Releases(u)'
    BY <1>0, <2>1, ReleasesKept
  <2>4. Bytes(u)'
    <3>1. \A s \in Slot : Has(u, s) => data'[s] = data[s]
      BY DEF PoolInv, HoldersOK
    <3> QED BY <1>0, <2>1, <3>1, BytesKept
  <2> QED BY <2>2, <2>3, <2>4
<1>2. ASSUME NEW u \in Threads \ {t}, NEW c \in Channels,
             NEW i \in get[c] + 1 .. Len(ring[c])
      PROVE  Meets(u, c, i)'
  <2>1. Meets(u, c, i) /\ Still(u)
    BY DEF PoolInv, FlightOK, Guarded
  <2> QED BY <2>1, MeetsKept
<1>3. ASSUME NEW u \in Threads \ {t}
      PROVE  /\ \A s : (Has(u, s)' <=> Has(u, s)) /\ (InWindow(u, s)' <=> InWindow(u, s))
             /\ InSlot(u)' <=> InSlot(u)
  BY <1>3, HasKept
<1> QED BY <1>1, <1>2, <1>3

\* A step of t: what it takes was free, what it frees was its own, and
\* without an error it keeps what it does not free.
LEMMA HoldersStep ==
  ASSUME PoolInv, NEW t \in Threads, \A u \in Threads \ {t} : Still(u),
         \A s \in Slot : Has(t, s)' => busy'[s] /\ (Has(t, s) \/ ~busy[s]),
         \A s \in Slot : busy[s] => busy'[s] \/ Has(t, s),
         \A s \in Slot : InSlot(t)' /\ slot'[t] = s => ~InWindow(t, s)',
         \A k, l \in 1 .. Len(window'[t]) :
           window'[t][k].slot = window'[t][l].slot => k = l,
         ~sticky' => ~sticky /\ \A s \in Slot :
           busy'[s] => (busy[s] /\ ~Has(t, s)) \/ Has(t, s)'
  PROVE  HoldersOK'
<1>1. ASSUME NEW u \in Threads \ {t}
      PROVE  /\ Still(u) /\ InSlot(u)' <=> InSlot(u)
             /\ \A s : (Has(u, s)' <=> Has(u, s)) /\ (InWindow(u, s)' <=> InWindow(u, s))
  BY <1>1, HasKept
<1>2. ASSUME NEW u \in Threads, NEW s \in Slot, Has(u, s)' PROVE busy'[s]
  <2>1. CASE u = t
    BY <1>2, <2>1
  <2>2. CASE u # t
    <3>1. Has(u, s) /\ busy[s] /\ ~Has(t, s)
      BY <1>1, <1>2, <2>2 DEF PoolInv, HoldersOK
    <3> QED BY <3>1
  <2> QED BY <2>1, <2>2
<1>3. ASSUME NEW u \in Threads, NEW v \in Threads, NEW s \in Slot, Has(u, s)', Has(v, s)'
      PROVE  u = v
  <2>1. \A x \in Threads \ {t} : Has(x, s)' => Has(x, s) /\ busy[s]
    BY <1>1 DEF PoolInv, HoldersOK
  <2>2. Has(t, s)' => Has(t, s) \/ ~busy[s]
    OBVIOUS
  <2> QED BY <1>3, <2>1, <2>2 DEF PoolInv, HoldersOK
<1>4. ASSUME NEW u \in Threads, NEW s \in Slot, InSlot(u)', slot'[u] = s
      PROVE  ~InWindow(u, s)'
  BY <1>1, <1>4 DEF PoolInv, HoldersOK, Still
<1>5. ASSUME NEW u \in Threads, NEW k \in 1 .. Len(window'[u]), NEW l \in 1 .. Len(window'[u]),
             window'[u][k].slot = window'[u][l].slot
      PROVE  k = l
  BY <1>1, <1>5 DEF PoolInv, HoldersOK, Still
<1>6. ASSUME ~sticky', NEW s \in Slot, busy'[s] PROVE \E u \in Threads : Has(u, s)'
  <2>1. CASE Has(t, s)'
    BY <2>1
  <2>2. CASE busy[s] /\ ~Has(t, s)
    <3>1. PICK u \in Threads : Has(u, s)
      BY <1>6, <2>2 DEF PoolInv, HoldersOK
    <3> QED BY <1>1, <2>2, <3>1
  <2> QED BY <1>6, <2>1, <2>2
<1> QED BY <1>2, <1>3, <1>4, <1>5, <1>6 DEF HoldersOK

----------------------------------------------------------------------------
(* The steps of a copy                                                     *)

\* A copy begins: its chunks have a number that no command has.
LEMMA SubmitInv ==
  ASSUME PoolInv, NEW t \in Threads, NEW c \in Channels, NEW op \in Ops, NEW n \in Nat,
         Submit(t, c, op, n)
  PROVE  PoolInv'
<1>0. TypeOK /\ Loops(t)
  BY DEF PoolInv, LoopsOK
<1>1. PICK m \in Nat : m = jobs[t] + 1
  BY <1>0 DEF TypeOK
<1>2. /\ pc[t] = "idle" /\ pc' = [pc EXCEPT ![t] = "lock"]
      /\ job' = [job EXCEPT ![t] = [op |-> op, chunks |-> n, channel |-> c]]
      /\ issued' = [issued EXCEPT ![t] = 0] /\ done' = [done EXCEPT ![t] = 0]
      /\ jobs' = [jobs EXCEPT ![t] = m]
      /\ got' = [got EXCEPT ![t] = <<>>] /\ window' = [window EXCEPT ![t] = <<>>]
      /\ UNCHANGED <<busy, fence, nextSlot, data, ring, get, sticky, slot, prev, mutex>>
  BY <1>1 DEF Submit, Goto, poolVars, deviceVars
<1>3. TypeOK'
  <2>1. job' \in [Threads -> JobType]
    <3>1. [op |-> op, chunks |-> n, channel |-> c] \in JobType
      BY DEF JobType
    <3> QED BY <1>0, <1>2, <3>1 DEF TypeOK
  <2>2. pc' \in [Threads -> Labels]
    BY <1>0, <1>2 DEF TypeOK, Labels
  <2>3. window' \in [Threads -> Seq(EntryType)] /\ got' \in [Threads -> Seq(Payload)]
    BY <1>0, <1>2 DEF TypeOK
  <2> QED BY <1>0, <1>2, <2>1, <2>2, <2>3 DEF TypeOK
<1>4. \A u \in Threads \ {t} : Still(u)
  BY <1>0, <1>2 DEF TypeOK, Still
<1>5. /\ pc'[t] = "lock" /\ issued'[t] = 0 /\ done'[t] = 0 /\ jobs'[t] = m
      /\ job'[t].chunks = n /\ job'[t].op = op /\ slot'[t] = slot[t]
      /\ Len(window'[t]) = 0 /\ Len(got'[t]) = 0
  <2>1. /\ pc'[t] = "lock" /\ issued'[t] = 0 /\ done'[t] = 0 /\ jobs'[t] = m
        /\ job'[t] = [op |-> op, chunks |-> n, channel |-> c] /\ slot' = slot
        /\ window'[t] = <<>> /\ got'[t] = <<>>
    BY <1>0, <1>2 DEF TypeOK
  <2> QED BY <2>1
<1>6. Len(window[t]) = 0
  BY <1>0, <1>2 DEF Loops
<1> HIDE <1>2
<1>7. /\ UNCHANGED <<busy, fence, data, ring, get, sticky>> /\ pc[t] = "idle"
      /\ data' \in [Slot -> Payload]
  BY <1>0, <1>2 DEF TypeOK
<1>8. LoopsOK'
  <2>1. Loops(t)'
    BY <1>5 DEF Loops, Ops
  <2> QED BY <1>4, <1>7, <2>1, OthersStill DEF LoopsOK
<1>9. ChunksOK'
  <2>1. ASSUME NEW d \in Channels, NEW i \in 1 .. Len(ring[d]), NEW u \in Threads,
               ring[d][i].chunk[1] = u
        PROVE  /\ ring[d][i].chunk[2] <= jobs'[u]
               /\ ring[d][i].chunk[2] = jobs'[u] => ring[d][i].chunk[3] < issued'[u]
    <3>1. /\ ring[d][i].chunk[2] <= jobs[u]
          /\ ring[d][i].chunk[2] = jobs[u] => ring[d][i].chunk[3] < issued[u]
      BY <2>1 DEF PoolInv, ChunksOK, Numbered
    <3>2. ring[d][i].chunk[2] \in Nat /\ jobs[u] \in Nat
      <4>1. ring[d][i] \in CmdType
        BY <1>0, SMTT(30) DEF TypeOK
      <4> QED BY <1>0, <4>1 DEF TypeOK, CmdType, ChunkType
    <3>3. CASE u = t
      BY <1>1, <1>5, <3>1, <3>2, <3>3
    <3>4. CASE u # t
      BY <1>4, <3>1, <3>4 DEF Still
    <3> QED BY <3>3, <3>4
  <2>2. Numbered'
    BY <1>7, <2>1 DEF Numbered
  <2>3. Releases(t)'
    BY <1>5 DEF Releases
  <2> QED BY <1>4, <1>7, <2>2, <2>3, OthersStill DEF ChunksOK
<1>10. WindowOK'
  <2>1. ASSUME NEW u \in Threads, NEW k \in 1 .. Len(window'[u])
        PROVE  u # t /\ Still(u) /\ ChannelOf(u)' = ChannelOf(u)
    BY <1>4, <1>5, <2>1 DEF Still, ChannelOf
  <2> QED BY <1>7, <2>1 DEF PoolInv, WindowOK, Still
<1>11. HoldersOK'
  <2>1. \A s : ~Has(t, s) /\ ~Has(t, s)' /\ ~InSlot(t)'
    BY <1>5, <1>6, <1>7 DEF Has, InSlot, InWindow
  <2> QED BY <1>4, <1>5, <1>7, <2>1, HoldersStep
<1>12. FlightOK'
  <2>1. \A d, i : Meets(t, d, i)'
    BY <1>5 DEF Meets
  <2>2. ASSUME NEW d \in Channels, NEW i \in get[d] + 1 .. Len(ring[d])
        PROVE  Guarded(d, i)'
    <3>1. \A u \in Threads : Meets(u, d, i)'
      BY <1>4, <1>7, <2>1, OthersStill
    <3>2. Guarded(d, i)
      BY DEF PoolInv, FlightOK
    <3> QED BY <1>7, <3>1, <3>2 DEF Guarded, Behind
  <2> QED BY <1>7, <2>2 DEF PoolInv, FlightOK
<1>13. DataOK'
  <2>1. Bytes(t)'
    BY <1>5 DEF Bytes
  <2>2. SourceOK'
    BY <1>7 DEF PoolInv, DataOK, SourceOK
  <2> QED BY <1>4, <1>7, <2>1, <2>2, OthersStill DEF DataOK
<1>14. DeliversOwnChunks'
  <2>1. ASSUME NEW u \in Threads, NEW i \in DOMAIN got'[u] PROVE u # t
    BY <1>3, <1>5, <2>1 DEF TypeOK
  <2> QED BY <1>4, <2>1 DEF PoolInv, DeliversOwnChunks, Still
<1> QED BY <1>3, <1>8, <1>9, <1>10, <1>11, <1>12, <1>13, <1>14 DEF PoolInv

\* A slot is taken: it was free, so its fence guards what is in flight.
LEMMA AcquireInv == ASSUME PoolInv, NEW t \in Threads, AcquireSlot(t) PROVE PoolInv'
<1>0. TypeOK /\ Loops(t) /\ Bytes(t)
  BY DEF PoolInv, LoopsOK, DataOK
<1>1. PICK s0 \in FirstFree :
        /\ pc[t] = "acquire" /\ pc' = [pc EXCEPT ![t] = "prev"]
        /\ busy' = [busy EXCEPT ![s0] = TRUE] /\ nextSlot' = Advance(s0)
        /\ slot' = [slot EXCEPT ![t] = s0] /\ prev' = [prev EXCEPT ![t] = fence[s0]]
        /\ UNCHANGED <<fence, data, ring, get, sticky, job, issued, done, window, got,
                       jobs, mutex>>
  BY DEF AcquireSlot, Goto, deviceVars
<1>2. s0 \in Slot /\ ~busy[s0] /\ Advance(s0) \in Slot
  BY <1>0, FreeSlot
<1>3. TypeOK'
  BY <1>0, <1>1, <1>2 DEF TypeOK, Labels
<1>4. \A u \in Threads \ {t} : Still(u)
  BY <1>0, <1>1 DEF TypeOK, Still
<1>5. /\ pc'[t] = "prev" /\ slot'[t] = s0 /\ prev'[t] = fence[s0] /\ pc[t] = "acquire"
      /\ busy'[s0] /\ \A s \in Slot \ {s0} : busy'[s] = busy[s]
      /\ UNCHANGED <<fence, data, ring, get, sticky, job, issued, done, window, got, jobs>>
      /\ data' \in [Slot -> Payload]
  BY <1>0, <1>1, <1>2 DEF TypeOK
<1> HIDE <1>1
<1>6. LoopsOK'
  <2>1. Loops(t)'
    BY <1>0, <1>5 DEF Loops
  <2> QED BY <1>4, <1>5, <2>1, OthersStill DEF LoopsOK
<1>7. ChunksOK'
  <2>1. Numbered'
    BY <1>5 DEF PoolInv, ChunksOK, Numbered
  <2>2. Releases(t)'
    BY <1>5 DEF Releases
  <2> QED BY <1>4, <1>5, <2>1, <2>2, OthersStill DEF ChunksOK
<1>8. WindowOK'
  BY <1>5 DEF PoolInv, WindowOK, ChannelOf
<1>9. \A s : (InWindow(t, s)' <=> InWindow(t, s)) /\ (Has(t, s)' <=> Has(t, s) \/ s = s0)
  BY <1>5 DEF Has, InSlot, InWindow
<1>10. HoldersOK'
  <2>1. \A s \in Slot : Has(t, s) => busy[s] /\ s # s0
    BY <1>2 DEF PoolInv, HoldersOK
  <2>2. ~InWindow(t, s0)'
    BY <1>2, <1>9, <2>1 DEF Has
  <2>3. \A s \in Slot : Has(t, s)' => busy'[s] /\ (Has(t, s) \/ ~busy[s])
    BY <1>2, <1>5, <1>9, <2>1
  <2>4. \A k, l \in 1 .. Len(window'[t]) : window'[t][k].slot = window'[t][l].slot => k = l
    BY <1>5 DEF PoolInv, HoldersOK
  <2>5. \A s \in Slot : InSlot(t)' /\ slot'[t] = s => ~InWindow(t, s)'
    BY <1>5, <2>2
  <2>6. \A s \in Slot : /\ busy[s] => busy'[s]
                        /\ busy'[s] => (busy[s] /\ ~Has(t, s)) \/ Has(t, s)'
    BY <1>5, <1>9
  <2> QED BY <1>4, <1>5, <2>3, <2>4, <2>5, <2>6, HoldersStep
<1>11. FlightOK'
  <2>1. ASSUME NEW c \in Channels, NEW i \in get[c] + 1 .. Len(ring[c])
        PROVE  Guarded(c, i)'
    <3>1. Guarded(c, i) /\ ring[c][i].slot \in Slot
      <4>1. ring[c][i] \in CmdType
        BY <1>0 DEF TypeOK
      <4> QED BY <4>1 DEF PoolInv, FlightOK, CmdType
    <3>2. slot'[t] = ring[c][i].slot => Behind(c, i, fence[s0])
      BY <1>2, <1>5, <3>1 DEF Guarded
    <3>3. Meets(t, c, i)'
      BY <1>5, <3>1, <3>2 DEF Guarded, Meets, Behind, ChannelOf
    <3>4. ~busy'[ring[c][i].slot] => Behind(c, i, fence[ring[c][i].slot])
      BY <1>5, <3>1 DEF Guarded
    <3>5. \A u \in Threads : Meets(u, c, i)'
      BY <1>4, <1>5, <3>3, OthersStill
    <3> QED BY <1>5, <3>4, <3>5 DEF Guarded, Behind
  <2> QED BY <1>5, <2>1 DEF PoolInv, FlightOK
<1>12. DataOK'
  <2>1. Bytes(t)'
    BY <1>0, <1>5 DEF Bytes, ChannelOf
  <2>2. SourceOK'
    BY <1>5 DEF PoolInv, DataOK, SourceOK
  <2> QED BY <1>4, <1>5, <2>1, <2>2, OthersStill DEF DataOK
<1>13. DeliversOwnChunks'
  BY <1>5 DEF PoolInv, DeliversOwnChunks
<1> QED BY <1>3, <1>6, <1>7, <1>8, <1>10, <1>11, <1>12, <1>13 DEF PoolInv

\* memcpy into the slot: no command in flight uses it, and nobody else.
LEMMA FillInv == ASSUME PoolInv, NEW t \in Threads, Fill(t) PROVE PoolInv'
<1>0. TypeOK /\ Loops(t) /\ Bytes(t)
  BY DEF PoolInv, LoopsOK, DataOK
<1>1. /\ pc[t] = "fill" /\ pc' = [pc EXCEPT ![t] = "enqueue"]
      /\ data' = [data EXCEPT ![slot[t]] = Chunk(t)]
      /\ UNCHANGED <<busy, fence, nextSlot, ring, get, sticky, job, issued, done, slot,
                     prev, window, got, jobs, mutex>>
  BY DEF Fill, Goto, deviceVars, poolVars, loopVars
<1>2. Chunk(t) \in Payload /\ slot[t] \in Slot /\ Chunk(t)' = Chunk(t)
  BY <1>0, <1>1 DEF Chunk, Payload, ChunkType, TypeOK
<1>3. TypeOK'
  BY <1>0, <1>1, <1>2 DEF TypeOK, Labels
<1>4. \A u \in Threads \ {t} : Still(u)
  BY <1>0, <1>1 DEF TypeOK, Still
<1>5. /\ pc'[t] = "enqueue" /\ pc[t] = "fill"
      /\ data'[slot[t]] = Chunk(t) /\ \A s \in Slot \ {slot[t]} : data'[s] = data[s]
      /\ UNCHANGED <<busy, fence, ring, get, sticky, job, issued, done, slot, window, got,
                     jobs, prev>>
      /\ data' \in [Slot -> Payload]
  BY <1>0, <1>1, <1>2, <1>3 DEF TypeOK
<1> HIDE <1>1
<1>6. Has(t, slot[t]) /\ \A s \in Slot : data'[s] # data[s] => Has(t, s)
  BY <1>5 DEF Has, InSlot
<1>7. Len(window[t]) = 0 /\ job[t].op = "h2d"
  <2>1. job[t].op \in {"h2d", "d2h"}
    BY <1>0 DEF TypeOK, JobType, Ops
  <2> QED BY <1>0, <1>5, <2>1 DEF Loops
<1>8. LoopsOK'
  <2>1. Loops(t)'
    BY <1>0, <1>5, <1>7 DEF Loops
  <2> QED BY <1>4, <1>5, <1>6, <2>1, OthersStill DEF LoopsOK
<1>9. ChunksOK'
  <2>1. Numbered'
    BY <1>5 DEF PoolInv, ChunksOK, Numbered
  <2>2. Releases(t)'
    BY <1>5 DEF Releases
  <2> QED BY <1>4, <1>5, <1>6, <2>1, <2>2, OthersStill DEF ChunksOK
<1>10. WindowOK'
  BY <1>5 DEF PoolInv, WindowOK, ChannelOf
<1>11. HoldersOK'
  <2>1. \A s : (InWindow(t, s)' <=> InWindow(t, s)) /\ (Has(t, s)' <=> Has(t, s))
               /\ ~InWindow(t, s)
    BY <1>5, <1>7 DEF Has, InSlot, InWindow
  <2>2. \A k, l \in 1 .. Len(window'[t]) : window'[t][k].slot = window'[t][l].slot => k = l
    BY <1>5, <1>7
  <2>3. \A s \in Slot : Has(t, s) => busy[s]
    BY DEF PoolInv, HoldersOK
  <2> QED BY <1>4, <1>5, <2>1, <2>2, <2>3, HoldersStep
<1>12. ASSUME NEW c \in Channels, NEW i \in get[c] + 1 .. Len(ring[c])
       PROVE  Guarded(c, i) /\ ring[c][i].slot # slot[t] /\ ring[c][i].slot \in Slot
  <2>1. ring[c][i] \in CmdType
    BY <1>0 DEF TypeOK
  <2> QED BY <1>5, <2>1 DEF PoolInv, FlightOK, Guarded, Meets, CmdType
<1>13. FlightOK'
  <2>1. ASSUME NEW c \in Channels, NEW i \in get[c] + 1 .. Len(ring[c])
        PROVE  Guarded(c, i)'
    <3>1. Meets(t, c, i)'
      BY <1>5, <1>7, <1>12 DEF Meets
    <3>2. \A u \in Threads : Meets(u, c, i)'
      BY <1>4, <1>5, <1>6, <3>1, OthersStill
    <3> QED BY <1>5, <1>12, <3>2 DEF Guarded, Behind
  <2> QED BY <1>5, <2>1 DEF PoolInv, FlightOK
<1>14. DataOK'
  <2>1. Bytes(t)'
    BY <1>2, <1>5, <1>7 DEF Bytes
  <2>2. SourceOK'
    BY <1>5, <1>12 DEF PoolInv, DataOK, SourceOK
  <2> QED BY <1>4, <1>5, <1>6, <2>1, <2>2, OthersStill DEF DataOK
<1>15. DeliversOwnChunks'
  BY <1>5 DEF PoolInv, DeliversOwnChunks
<1> QED BY <1>3, <1>8, <1>9, <1>10, <1>11, <1>13, <1>14, <1>15 DEF PoolInv

\* memcpy out of the slot: the command has retired, and the bytes are still
\* its own.
LEMMA EmptyInv == ASSUME PoolInv, NEW t \in Threads, Empty(t) PROVE PoolInv'
<1>0. TypeOK /\ Loops(t) /\ Bytes(t)
  BY DEF PoolInv, LoopsOK, DataOK
<1>1. /\ pc[t] = "empty" /\ pc' = [pc EXCEPT ![t] = "handback"]
      /\ got' = [got EXCEPT ![t] = Append(got[t], data[Head(window[t]).slot])]
      /\ UNCHANGED <<busy, fence, nextSlot, data, ring, get, sticky, job, issued, done,
                     slot, prev, window, jobs, mutex>>
  BY DEF Empty, Goto, deviceVars, poolVars, loopVars
<1>2. Len(window[t]) > 0 /\ Head(window[t]) = window[t][1] /\ window[t][1] \in EntryType
  <2>1. Len(window[t]) > 0 /\ window[t] \in Seq(EntryType)
    BY <1>0, <1>1 DEF Loops, TypeOK
  <2> QED BY <2>1
<1>3. PICK x \in Payload : x = data[Head(window[t]).slot] /\ x = <<t, jobs[t], done[t]>>
  BY <1>0, <1>1, <1>2 DEF TypeOK, EntryType, Bytes
<1>4. TypeOK'
  <2>1. got' \in [Threads -> Seq(Payload)]
    BY <1>0, <1>1, <1>3 DEF TypeOK
  <2> QED BY <1>0, <1>1, <2>1 DEF TypeOK, Labels
<1>5. \A u \in Threads \ {t} : Still(u)
  BY <1>0, <1>1 DEF TypeOK, Still
<1>6. /\ pc'[t] = "handback" /\ pc[t] = "empty" /\ got'[t] = Append(got[t], x)
      /\ UNCHANGED <<busy, fence, data, ring, get, sticky, job, issued, done, slot, window,
                     jobs, prev>>
      /\ data' \in [Slot -> Payload]
  BY <1>0, <1>1, <1>3 DEF TypeOK
<1>7. /\ got[t] \in Seq(Payload) /\ Len(got[t]) = done[t] /\ done[t] \in Nat
      /\ Len(got'[t]) = done[t] + 1
  <2>1. got[t] \in Seq(Payload) /\ Len(got[t]) = done[t] /\ done[t] \in Nat
    BY <1>0, <1>6 DEF TypeOK, Loops
  <2> QED BY <1>6, <2>1
<1> HIDE <1>1
<1>8. LoopsOK'
  <2>1. Loops(t)'
    BY <1>0, <1>2, <1>6, <1>7 DEF Loops
  <2> QED BY <1>5, <1>6, <2>1, OthersStill DEF LoopsOK
<1>9. ChunksOK'
  <2>1. Numbered'
    BY <1>6 DEF PoolInv, ChunksOK, Numbered
  <2>2. Releases(t)'
    BY <1>6 DEF Releases
  <2> QED BY <1>5, <1>6, <2>1, <2>2, OthersStill DEF ChunksOK
<1>10. WindowOK'
  BY <1>6 DEF PoolInv, WindowOK, ChannelOf
<1>11. HoldersOK'
  <2>1. \A s : (Has(t, s)' <=> Has(t, s)) /\ ~InSlot(t)'
    BY <1>6 DEF Has, InSlot, InWindow
  <2>2. \A k, l \in 1 .. Len(window'[t]) : window'[t][k].slot = window'[t][l].slot => k = l
    BY <1>6 DEF PoolInv, HoldersOK
  <2>3. \A s \in Slot : Has(t, s) => busy[s]
    BY DEF PoolInv, HoldersOK
  <2> QED BY <1>5, <1>6, <2>1, <2>2, <2>3, HoldersStep
<1>12. FlightOK'
  <2>1. ASSUME NEW c \in Channels, NEW i \in get[c] + 1 .. Len(ring[c])
        PROVE  Guarded(c, i)'
    <3>1. Guarded(c, i)
      BY DEF PoolInv, FlightOK
    <3>2. Meets(t, c, i)'
      BY <1>6, <3>1 DEF Guarded, Meets, ChannelOf
    <3>3. \A u \in Threads : Meets(u, c, i)'
      BY <1>5, <1>6, <3>2, OthersStill
    <3> QED BY <1>6, <3>1, <3>3 DEF Guarded, Behind
  <2> QED BY <1>6, <2>1 DEF PoolInv, FlightOK
<1>13. DataOK'
  <2>1. Bytes(t)'
    BY <1>0, <1>6 DEF Bytes, ChannelOf
  <2>2. SourceOK'
    BY <1>6 DEF PoolInv, DataOK, SourceOK
  <2> QED BY <1>5, <1>6, <2>1, <2>2, OthersStill DEF DataOK
<1>14. DeliversOwnChunks'
  <2>1. ASSUME NEW i \in DOMAIN got'[t] PROVE got'[t][i] = <<t, jobs[t], i - 1>>
    <3>1. i \in 1 .. Len(got[t]) + 1
      BY <1>6, <1>7
    <3>2. CASE i \in 1 .. Len(got[t])
      <4>1. got'[t][i] = got[t][i] /\ i \in DOMAIN got[t]
        BY <1>6, <1>7, <3>2
      <4> QED BY <4>1 DEF PoolInv, DeliversOwnChunks
    <3>3. CASE i = Len(got[t]) + 1
      <4>1. got'[t][i] = x /\ i - 1 = done[t]
        BY <1>6, <1>7, <3>3
      <4> QED BY <1>3, <4>1
    <3> QED BY <1>7, <3>1, <3>2, <3>3
  <2> QED BY <1>5, <1>6, <2>1, SMTT(30) DEF PoolInv, DeliversOwnChunks, Still
<1> QED BY <1>4, <1>8, <1>9, <1>10, <1>11, <1>12, <1>13, <1>14 DEF PoolInv

\* The call returns.  What an error left in the window is forgotten.
LEMMA ReturnInv == ASSUME PoolInv, NEW t \in Threads, Return(t) PROVE PoolInv'
<1>0. TypeOK /\ Loops(t)
  BY DEF PoolInv, LoopsOK
<1>1. /\ pc[t] = "return" /\ pc' = [pc EXCEPT ![t] = "idle"]
      /\ window' = [window EXCEPT ![t] = <<>>]
      /\ UNCHANGED <<busy, fence, nextSlot, data, ring, get, sticky, job, issued, done,
                     slot, prev, got, jobs, mutex>>
  BY DEF Return, Goto, deviceVars, poolVars
<1>2. TypeOK'
  <2>1. window' \in [Threads -> Seq(EntryType)]
    BY <1>0, <1>1 DEF TypeOK
  <2> QED BY <1>0, <1>1, <2>1 DEF TypeOK, Labels
<1>3. \A u \in Threads \ {t} : Still(u)
  BY <1>0, <1>1 DEF TypeOK, Still
<1>4. window'[t] = <<>>
  BY <1>0, <1>1 DEF TypeOK
<1>5. /\ pc'[t] = "idle" /\ pc[t] = "return" /\ Len(window'[t]) = 0
      /\ UNCHANGED <<busy, fence, data, ring, get, sticky, job, issued, done, slot, jobs,
                     prev, got>>
      /\ data' \in [Slot -> Payload]
  BY <1>0, <1>1, <1>4 DEF TypeOK
<1> HIDE <1>1, <1>4
<1>6. LoopsOK'
  <2>1. Loops(t)'
    BY <1>0, <1>5 DEF Loops
  <2> QED BY <1>3, <1>5, <2>1, OthersStill DEF LoopsOK
<1>7. ChunksOK'
  <2>1. Numbered'
    BY <1>5 DEF PoolInv, ChunksOK, Numbered
  <2>2. Releases(t)'
    BY <1>5 DEF Releases
  <2> QED BY <1>3, <1>5, <2>1, <2>2, OthersStill DEF ChunksOK
<1>8. WindowOK'
  <2>1. ASSUME NEW u \in Threads, NEW k \in 1 .. Len(window'[u])
        PROVE  u # t /\ Still(u) /\ ChannelOf(u)' = ChannelOf(u)
    BY <1>3, <1>5, <2>1 DEF Still, ChannelOf
  <2> QED BY <1>5, <2>1 DEF PoolInv, WindowOK, Still
<1>9. HoldersOK'
  <2>1. \A s : ~Has(t, s) /\ ~Has(t, s)' /\ ~InSlot(t)'
    BY <1>5 DEF Has, InSlot, InWindow
  <2> QED BY <1>3, <1>5, <2>1, HoldersStep
<1>10. FlightOK'
  <2>1. ASSUME NEW c \in Channels, NEW i \in get[c] + 1 .. Len(ring[c])
        PROVE  Guarded(c, i)'
    <3>1. Guarded(c, i)
      BY DEF PoolInv, FlightOK
    <3>2. Meets(t, c, i)'
      BY <1>5 DEF Meets
    <3>3. \A u \in Threads : Meets(u, c, i)'
      BY <1>3, <1>5, <3>2, OthersStill
    <3> QED BY <1>5, <3>1, <3>3 DEF Guarded, Behind
  <2> QED BY <1>5, <2>1 DEF PoolInv, FlightOK
<1>11. DataOK'
  <2>1. Bytes(t)'
    BY <1>5 DEF Bytes
  <2>2. SourceOK'
    BY <1>5 DEF PoolInv, DataOK, SourceOK
  <2> QED BY <1>3, <1>5, <2>1, <2>2, OthersStill DEF DataOK
<1>12. DeliversOwnChunks'
  BY <1>5 DEF PoolInv, DeliversOwnChunks
<1> QED BY <1>2, <1>6, <1>7, <1>8, <1>9, <1>10, <1>11, <1>12 DEF PoolInv

----------------------------------------------------------------------------
(* Slots that are given back                                               *)

\* t gives back a slot with a fence that guards what is in flight on it, and
\* goes on: the window loses its first `off' entries.
LEMMA GiveBack ==
  ASSUME PoolInv, TypeOK', NEW t \in Threads, NEW s0 \in Slot, NEW f, NEW off \in {0, 1},
         Has(t, s0), \A u \in Threads \ {t} : Still(u),
         busy' = [busy EXCEPT ![s0] = FALSE], fence' = [fence EXCEPT ![s0] = f],
         UNCHANGED <<data, ring, get, sticky, job, issued, jobs, slot, prev, got>>,
         pc'[t] \in {"acquire", "dma", "return"}, Loops(t)', pc[t] # "return",
         done'[t] = done[t] + off, Len(window'[t]) + off = Len(window[t]),
         \A k \in 1 .. Len(window'[t]) : window'[t][k] = window[t][k + off],
         pc'[t] # "return" => \A k \in 1 .. Len(window'[t]) : window'[t][k].slot # s0,
         \A c \in Channels : \A i \in get[c] + 1 .. Len(ring[c]) :
           ring[c][i].slot = s0 => Behind(c, i, f),
         ~sticky => \A s \in Slot : Has(t, s) /\ s # s0 => Has(t, s)'
  PROVE  PoolInv'
<1>0. TypeOK /\ Loops(t) /\ Bytes(t)
  BY DEF PoolInv, LoopsOK, DataOK
<1>1. /\ ~busy'[s0] /\ fence'[s0] = f /\ data' \in [Slot -> Payload]
      /\ \A s \in Slot \ {s0} : busy'[s] = busy[s] /\ fence'[s] = fence[s]
  BY <1>0 DEF TypeOK
<1>2. /\ Len(window[t]) \in Nat /\ Len(window'[t]) \in Nat /\ done[t] \in Nat
      /\ \A k \in 1 .. Len(window'[t]) : k + off \in 1 .. Len(window[t])
  <2>1. window[t] \in Seq(EntryType) /\ window'[t] \in Seq(EntryType)
    BY <1>0 DEF TypeOK
  <2> QED BY <1>0, <2>1 DEF TypeOK
<1>3. LoopsOK'
  BY <1>1, OthersStill DEF LoopsOK
<1>4. ChunksOK'
  <2>1. Numbered'
    BY DEF PoolInv, ChunksOK, Numbered
  <2>2. Releases(t)'
    BY DEF Releases
  <2> QED BY <1>1, <2>1, <2>2, OthersStill DEF ChunksOK
<1>5. WindowOK'
  <2>1. ASSUME NEW u \in Threads, NEW k \in 1 .. Len(window'[u])
        PROVE  LET w == window'[u][k] IN
               /\ w.value \in 1 .. Len(ring[ChannelOf(u)])
               /\ ring[ChannelOf(u)][w.value] =
                    [op |-> "d2h", slot |-> w.slot, chunk |-> <<u, jobs[u], done'[u] + k - 1>>]
    <3>1. CASE u = t
      <4>1. PICK l \in 1 .. Len(window[t]) : l = k + off
        BY <1>2, <2>1, <3>1
      <4>2. window'[t][k] = window[t][l] /\ done'[t] + k - 1 = done[t] + l - 1
        BY <1>2, <2>1, <3>1, <4>1
      <4> QED BY <3>1, <4>2 DEF PoolInv, WindowOK
    <3>2. CASE u # t
      <4>1. window'[u] = window[u] /\ done'[u] = done[u]
        BY <3>2 DEF Still
      <4> QED BY <2>1, <4>1 DEF PoolInv, WindowOK
    <3> QED BY <3>1, <3>2
  <2>2. \A u \in Threads : ChannelOf(u)' = ChannelOf(u)
    BY DEF ChannelOf
  <2> QED BY <2>1, <2>2 DEF WindowOK
<1>6. HoldersOK'
  <2>1. \A s \in Slot : Has(t, s)' => s # s0 /\ InWindow(t, s)
    BY <1>2 DEF Has, InSlot, InWindow
  <2>2. \A s \in Slot : Has(t, s)' => busy'[s] /\ (Has(t, s) \/ ~busy[s])
    BY <1>1, <2>1 DEF Has, PoolInv, HoldersOK
  <2>3. \A s \in Slot : busy[s] => busy'[s] \/ Has(t, s)
    BY <1>1
  <2>4. ASSUME NEW k \in 1 .. Len(window'[t]), NEW l \in 1 .. Len(window'[t]),
               window'[t][k].slot = window'[t][l].slot
        PROVE  k = l
    <3>1. PICK x \in 1 .. Len(window[t]), y \in 1 .. Len(window[t]) :
            x = k + off /\ y = l + off
      BY <1>2, <2>4
    <3>2. window[t][x].slot = window[t][y].slot
      BY <2>4, <3>1
    <3>3. x = y
      BY <3>2 DEF PoolInv, HoldersOK
    <3> QED BY <1>2, <2>4, <3>1, <3>3
  <2>5. ~InSlot(t)'
    BY DEF InSlot
  <2>6. ~sticky' => ~sticky /\ \A s \in Slot :
          busy'[s] => (busy[s] /\ ~Has(t, s)) \/ Has(t, s)'
    BY <1>1
  <2> QED BY <2>2, <2>3, <2>4, <2>5, <2>6, HoldersStep
<1>7. FlightOK'
  <2>1. ASSUME NEW c \in Channels, NEW i \in get[c] + 1 .. Len(ring[c])
        PROVE  Guarded(c, i)'
    <3>1. Guarded(c, i) /\ ring[c][i].slot \in Slot
      <4>1. ring[c][i] \in CmdType
        BY <1>0 DEF TypeOK
      <4> QED BY <4>1 DEF PoolInv, FlightOK, CmdType
    <3>2. Meets(t, c, i)'
      <4>1. ASSUME pc'[t] # "return", NEW k \in 1 .. Len(window'[t]),
                   window'[t][k].slot = ring[c][i].slot
            PROVE  ChannelOf(t) = c /\ window'[t][k].value = i
        BY <1>2, <3>1, <4>1 DEF Guarded, Meets
      <4> QED BY <4>1 DEF Meets, ChannelOf
    <3>3. \A u \in Threads : Meets(u, c, i)'
      BY <1>1, <3>2, OthersStill
    <3>4. ~busy'[ring[c][i].slot] => Behind(c, i, fence'[ring[c][i].slot])
      BY <1>1, <3>1 DEF Guarded
    <3> QED BY <3>3, <3>4 DEF Guarded, Behind
  <2> QED BY <2>1 DEF PoolInv, FlightOK
<1>8. DataOK'
  <2>1. Bytes(t)'
    <3>1. ASSUME pc'[t] # "return", NEW k \in 1 .. Len(window'[t]),
                 get[ChannelOf(t)] >= window'[t][k].value
          PROVE  sticky \/ data[window'[t][k].slot] = <<t, jobs[t], done'[t] + k - 1>>
      <4>1. PICK l \in 1 .. Len(window[t]) : l = k + off
        BY <1>2
      <4>2. window'[t][k] = window[t][l]
        BY <4>1
      <4>3. done'[t] + k - 1 = done[t] + l - 1
        BY <1>2, <4>1
      <4> QED BY <1>0, <3>1, <4>2, <4>3 DEF Bytes
    <3> QED BY <3>1 DEF Bytes, ChannelOf
  <2>2. SourceOK'
    BY DEF PoolInv, DataOK, SourceOK
  <2> QED BY <1>1, <2>1, <2>2, OthersStill DEF DataOK
<1>9. DeliversOwnChunks'
  BY DEF PoolInv, DeliversOwnChunks
<1> QED BY <1>3, <1>4, <1>5, <1>6, <1>7, <1>8, <1>9 DEF PoolInv

\* The same when the window is left alone.
LEMMA GiveBackOne ==
  ASSUME PoolInv, TypeOK', NEW t \in Threads, NEW s0 \in Slot, NEW f,
         Has(t, s0), \A u \in Threads \ {t} : Still(u),
         busy' = [busy EXCEPT ![s0] = FALSE], fence' = [fence EXCEPT ![s0] = f],
         UNCHANGED <<data, ring, get, sticky, job, issued, jobs, slot, prev, got>>,
         pc'[t] \in {"acquire", "dma", "return"}, Loops(t)', pc[t] # "return",
         done'[t] = done[t], window'[t] = window[t],
         pc'[t] # "return" => Len(window[t]) = 0,
         \A c \in Channels : \A i \in get[c] + 1 .. Len(ring[c]) :
           ring[c][i].slot = s0 => Behind(c, i, f),
         ~sticky => \A s \in Slot : Has(t, s) => s = s0
  PROVE  PoolInv'
<1>0. done[t] \in Nat /\ Len(window[t]) \in Nat
  BY DEF PoolInv, TypeOK
<1>1. PICK off \in {0, 1} : off = 0
  OBVIOUS
<1>2. done'[t] = done[t] + off /\ Len(window'[t]) + off = Len(window[t])
  BY <1>0, <1>1
<1>3. \A k \in 1 .. Len(window'[t]) : window'[t][k] = window[t][k + off]
  <2>1. \A k \in 1 .. Len(window'[t]) : k + off = k
    BY <1>0, <1>1
  <2> QED BY <2>1
<1>4. pc'[t] # "return" => \A k \in 1 .. Len(window'[t]) : window'[t][k].slot # s0
  BY <1>0
<1>5. ~sticky => \A s \in Slot : Has(t, s) /\ s # s0 => Has(t, s)'
  OBVIOUS
<1> QED BY <1>2, <1>3, <1>4, <1>5, GiveBack

\* The fence of an H2D copy's last command is where its chunk is.
LEMMA FenceFound ==
  ASSUME TypeOK, NEW t \in Threads, Releases(t), pc[t] = "release"
  PROVE  /\ FenceOf(t) \in FenceType /\ FenceOf(t).channel = ChannelOf(t)
         /\ \A i \in 1 .. Len(ring[ChannelOf(t)]) :
              IsChunk(ChannelOf(t), i, t) => FenceOf(t).value = i
<1> DEFINE mine == {i \in DOMAIN ring[ChannelOf(t)] :
                      ring[ChannelOf(t)][i].chunk = <<t, jobs[t], issued[t] - 1>>}
           v == CHOOSE i \in mine : TRUE
<1>1. ChannelOf(t) \in Channels /\ ring[ChannelOf(t)] \in Seq(CmdType)
  BY DEF TypeOK, JobType, ChannelOf
<1>2. \A i : i \in mine <=> i \in 1 .. Len(ring[ChannelOf(t)]) /\ IsChunk(ChannelOf(t), i, t)
  <2>1. DOMAIN ring[ChannelOf(t)] = 1 .. Len(ring[ChannelOf(t)])
    BY <1>1
  <2>2. \A i : IsChunk(ChannelOf(t), i, t)
                 <=> ring[ChannelOf(t)][i].chunk = <<t, jobs[t], issued[t] - 1>>
    BY DEF IsChunk
  <2> QED BY <2>1, <2>2
<1>3. FenceOf(t) = [channel |-> ChannelOf(t), value |-> v]
  BY Zenon DEF FenceOf
<1> HIDE DEF mine
<1>4. v \in mine
  <2>1. \E i \in 1 .. Len(ring[ChannelOf(t)]) : IsChunk(ChannelOf(t), i, t)
    BY DEF Releases
  <2>2. \E i : i \in mine
    BY <1>2, <2>1
  <2> QED BY <2>2
<1> HIDE DEF v
<1>5. v \in 1 .. Len(ring[ChannelOf(t)]) /\ IsChunk(ChannelOf(t), v, t)
  BY <1>2, <1>4
<1>6. \A i \in 1 .. Len(ring[ChannelOf(t)]) : IsChunk(ChannelOf(t), i, t) => v = i
  BY <1>5 DEF Releases
<1>7. v \in Nat
  BY <1>1, <1>5
<1> QED BY <1>1, <1>3, <1>6, <1>7 DEF FenceType

\* The next iteration of an H2D copy, or of a D2H copy.
LEMMA LoopGoesOn ==
  ASSUME TypeOK, NEW t \in Threads, NEW a \in Nat, NEW b \in Nat, b <= a, a <= job[t].chunks
  PROVE  /\ Loop(t, a, b) = "acquire" => a < job[t].chunks
         /\ Loop(t, a, b) = "acquire" /\ job[t].op = "d2h" => a - b < WindowDepth
         /\ Loop(t, a, b) = "dma" => job[t].op = "d2h"
         /\ Loop(t, a, b) = "return" /\ job[t].op = "d2h" => a = b
<1>1. job[t].op \in {"h2d", "d2h"} /\ job[t].chunks \in Nat
  BY DEF TypeOK, JobType, Ops
<1> QED BY <1>1 DEF Loop

LEMMA ReleaseInInv == ASSUME PoolInv, NEW t \in Threads, ReleaseIn(t) PROVE PoolInv'
<1>0. TypeOK /\ Loops(t) /\ Releases(t)
  BY DEF PoolInv, LoopsOK, ChunksOK
<1>1. PICK to \in {"acquire", "dma", "return"} : to = Loop(t, issued[t], done[t])
  BY LoopLabels
<1>2. /\ pc[t] = "release" /\ pc' = [pc EXCEPT ![t] = to]
      /\ busy' = [busy EXCEPT ![slot[t]] = FALSE]
      /\ fence' = [fence EXCEPT ![slot[t]] = FenceOf(t)]
      /\ UNCHANGED <<nextSlot, data, ring, get, sticky, job, issued, done, slot, prev,
                     window, got, jobs, mutex>>
  BY <1>1 DEF ReleaseIn, ReleaseSlot, Goto, deviceVars, loopVars
<1>3. PICK s0 \in Slot : s0 = slot[t]
  BY <1>0 DEF TypeOK
<1>4. PICK f \in FenceType : /\ f = FenceOf(t) /\ f.channel = ChannelOf(t)
                             /\ \A i \in 1 .. Len(ring[ChannelOf(t)]) :
                                  IsChunk(ChannelOf(t), i, t) => f.value = i
  BY <1>0, <1>2, FenceFound
<1>5. TypeOK'
  BY <1>0, <1>2, <1>3, <1>4 DEF TypeOK, Labels
<1>6. \A u \in Threads \ {t} : Still(u)
  BY <1>0, <1>2 DEF TypeOK, Still
<1>7. /\ job[t].op = "h2d" /\ Len(window[t]) = 0 /\ done[t] = 0
      /\ issued[t] \in Nat /\ done[t] \in Nat /\ done[t] <= issued[t]
      /\ issued[t] <= job[t].chunks
  <2>1. job[t].op \in {"h2d", "d2h"} /\ issued[t] \in Nat /\ done[t] \in Nat
    BY <1>0 DEF TypeOK, JobType, Ops
  <2> QED BY <1>0, <1>2, <2>1 DEF Loops
<1>8. to # "dma" /\ (to = "acquire" => issued[t] < job[t].chunks)
  BY <1>0, <1>1, <1>7, LoopGoesOn
<1>9. pc'[t] = to
  BY <1>0, <1>2 DEF TypeOK
<1>10. Loops(t)'
  <2>1. Len(got[t]) = done[t]
    BY <1>0, <1>2 DEF Loops
  <2> QED BY <1>2, <1>7, <1>8, <1>9, <2>1, DepthPositive DEF Loops
<1>11. Has(t, s0)
  BY <1>2, <1>3 DEF Has, InSlot
<1>12. ASSUME NEW c \in Channels, NEW i \in get[c] + 1 .. Len(ring[c]), ring[c][i].slot = s0
       PROVE  Behind(c, i, f)
  <2>1. ChannelOf(t) = c /\ IsChunk(c, i, t)
    BY <1>2, <1>3, <1>12 DEF PoolInv, FlightOK, Guarded, Meets
  <2>2. i \in 1 .. Len(ring[c])
    BY <1>0 DEF TypeOK
  <2> QED BY <1>4, <2>1, <2>2 DEF Behind
<1>13. \A s \in Slot : Has(t, s) => s = s0
  BY <1>3, <1>7 DEF Has, InWindow
<1>14. /\ UNCHANGED <<data, ring, get, sticky, job, issued, jobs, slot, prev, got, done, window>>
       /\ busy' = [busy EXCEPT ![s0] = FALSE] /\ fence' = [fence EXCEPT ![s0] = f]
       /\ pc[t] # "return"
  BY <1>2, <1>3, <1>4
<1>15. pc'[t] \in {"acquire", "dma", "return"} /\ done'[t] = done[t] /\ window'[t] = window[t]
  BY <1>9, <1>14
<1>16. \A c \in Channels : \A i \in get[c] + 1 .. Len(ring[c]) :
         ring[c][i].slot = s0 => Behind(c, i, f)
  BY <1>12
<1> HIDE <1>2
<1> QED BY <1>5, <1>6, <1>7, <1>10, <1>11, <1>13, <1>14, <1>15, <1>16, GiveBackOne

\* The oldest command of a window is all that can be in flight on its slot.
LEMMA OldestGuards ==
  ASSUME PoolInv, NEW t \in Threads, pc[t] # "return", 1 \in 1 .. Len(window[t]),
         NEW f, f = [channel |-> ChannelOf(t), value |-> window[t][1].value]
  PROVE  \A c \in Channels : \A i \in get[c] + 1 .. Len(ring[c]) :
           ring[c][i].slot = window[t][1].slot => Behind(c, i, f)
<1> SUFFICES ASSUME NEW c \in Channels, NEW i \in get[c] + 1 .. Len(ring[c]),
                    ring[c][i].slot = window[t][1].slot
             PROVE  Behind(c, i, f)
  OBVIOUS
<1>1. Meets(t, c, i)
  BY DEF PoolInv, FlightOK, Guarded
<1>2. ChannelOf(t) = c /\ window[t][1].value = i
  BY <1>1 DEF Meets
<1>3. i \in Int
  BY DEF PoolInv, TypeOK
<1>4. f.channel = c /\ f.value = i
  BY <1>2
<1> QED BY <1>3, <1>4 DEF Behind

\* The wait for the slot's last DMA ends with the error: the slot goes back as
\* it came.
LEMMA WaitPrevErrorInv ==
  ASSUME PoolInv, NEW t \in Threads, WaitPrev(t), sticky PROVE PoolInv'
<1>0. TypeOK /\ Loops(t)
  BY DEF PoolInv, LoopsOK
<1>1. /\ pc[t] = "prev" /\ pc' = [pc EXCEPT ![t] = "return"] /\ Retired(prev[t])
      /\ busy' = [busy EXCEPT ![slot[t]] = FALSE]
      /\ fence' = [fence EXCEPT ![slot[t]] = prev[t]]
      /\ UNCHANGED <<nextSlot, data, ring, get, sticky, job, issued, done, slot, prev,
                     window, got, jobs, mutex>>
  BY DEF WaitPrev, ReleaseSlot, Goto, deviceVars, loopVars
<1>2. PICK s0 \in Slot : s0 = slot[t]
  BY <1>0 DEF TypeOK
<1>3. PICK f \in FenceType : f = prev[t]
  BY <1>0 DEF TypeOK
<1>4. TypeOK'
  BY <1>0, <1>1, <1>2, <1>3 DEF TypeOK, Labels
<1>5. \A u \in Threads \ {t} : Still(u)
  BY <1>0, <1>1 DEF TypeOK, Still
<1>6. pc'[t] = "return" /\ done'[t] = done[t] /\ window'[t] = window[t] /\ pc[t] = "prev"
  BY <1>0, <1>1 DEF TypeOK
<1>7. Loops(t)'
  BY <1>0, <1>1, <1>6 DEF Loops
<1>8. Has(t, s0)
  BY <1>2, <1>6 DEF Has, InSlot
<1>9. \A c \in Channels : \A i \in get[c] + 1 .. Len(ring[c]) :
        ring[c][i].slot = s0 => Behind(c, i, f)
  BY <1>2, <1>3, <1>6 DEF PoolInv, FlightOK, Guarded, Meets
<1>10. /\ UNCHANGED <<data, ring, get, sticky, job, issued, jobs, slot, prev, got>>
       /\ busy' = [busy EXCEPT ![s0] = FALSE] /\ fence' = [fence EXCEPT ![s0] = f]
  BY <1>1, <1>2, <1>3
<1> HIDE <1>1
<1> QED BY <1>4, <1>5, <1>6, <1>7, <1>8, <1>9, <1>10, GiveBackOne

\* So does the wait for the oldest DMA of the window.
LEMMA WaitDmaErrorInv ==
  ASSUME PoolInv, NEW t \in Threads, WaitDma(t), sticky PROVE PoolInv'
<1>0. TypeOK /\ Loops(t)
  BY DEF PoolInv, LoopsOK
<1>1. PICK w \in EntryType : /\ w = Head(window[t]) /\ w = window[t][1]
                             /\ 1 \in 1 .. Len(window[t])
  <2>1. window[t] # <<>> /\ window[t] \in Seq(EntryType)
    BY <1>0 DEF TypeOK, WaitDma
  <2> QED BY <2>1
<1>2. PICK f \in FenceType : f = [channel |-> ChannelOf(t), value |-> w.value]
  BY <1>0 DEF TypeOK, FenceType, EntryType, ChannelOf, JobType
<1>3. /\ pc[t] = "dma" /\ pc' = [pc EXCEPT ![t] = "return"] /\ Retired(f)
      /\ busy' = [busy EXCEPT ![w.slot] = FALSE]
      /\ fence' = [fence EXCEPT ![w.slot] = f]
      /\ UNCHANGED <<nextSlot, data, ring, get, sticky, job, issued, done, slot, prev,
                     window, got, jobs, mutex>>
  BY <1>1, <1>2 DEF WaitDma, ReleaseSlot, Goto, deviceVars, loopVars
<1>4. PICK s0 \in Slot : s0 = w.slot
  BY DEF EntryType
<1>5. TypeOK'
  BY <1>0, <1>3, <1>4 DEF TypeOK, Labels
<1>6. \A u \in Threads \ {t} : Still(u)
  BY <1>0, <1>3 DEF TypeOK, Still
<1>7. pc'[t] = "return" /\ done'[t] = done[t] /\ window'[t] = window[t] /\ pc[t] = "dma"
  BY <1>0, <1>3 DEF TypeOK
<1>8. Loops(t)'
  BY <1>0, <1>3, <1>7 DEF Loops
<1>9. Has(t, s0)
  BY <1>1, <1>4, <1>7 DEF Has, InWindow
<1>10. \A c \in Channels : \A i \in get[c] + 1 .. Len(ring[c]) :
        ring[c][i].slot = s0 => Behind(c, i, f)
  BY <1>1, <1>2, <1>4, <1>7, OldestGuards
<1>11. /\ UNCHANGED <<data, ring, get, sticky, job, issued, jobs, slot, prev, got>>
       /\ busy' = [busy EXCEPT ![s0] = FALSE] /\ fence' = [fence EXCEPT ![s0] = f]
  BY <1>3, <1>4
<1> HIDE <1>3
<1> QED BY <1>5, <1>6, <1>7, <1>8, <1>9, <1>10, <1>11, GiveBackOne

\* A D2H copy gives back the slot it has emptied.
LEMMA ReleaseOutInv == ASSUME PoolInv, NEW t \in Threads, ReleaseOut(t) PROVE PoolInv'
<1>0. TypeOK /\ Loops(t)
  BY DEF PoolInv, LoopsOK
<1>1. PICK to \in {"acquire", "dma", "return"} : to = Loop(t, issued[t], done[t] + 1)
  BY LoopLabels
<1>2. PICK n \in Nat : n = done[t] + 1
  BY <1>0 DEF TypeOK
<1>3. pc[t] = "handback" /\ Len(window[t]) > 0 /\ job[t].op = "d2h"
  <2>1. pc[t] = "handback"
    BY DEF ReleaseOut, Goto
  <2>2. job[t].op \in {"h2d", "d2h"}
    BY <1>0 DEF TypeOK, JobType, Ops
  <2> QED BY <1>0, <2>1, <2>2 DEF Loops
<1>4. PICK w \in EntryType : /\ w = Head(window[t]) /\ w = window[t][1]
                             /\ 1 \in 1 .. Len(window[t])
  <2>1. window[t] \in Seq(EntryType)
    BY <1>0 DEF TypeOK
  <2> QED BY <1>3, <2>1
<1>5. PICK f \in FenceType : f = [channel |-> ChannelOf(t), value |-> w.value]
  BY <1>0 DEF TypeOK, FenceType, EntryType, ChannelOf, JobType
<1>6. PICK tl \in Seq(EntryType) :
        /\ tl = Tail(window[t]) /\ Len(tl) + 1 = Len(window[t])
        /\ \A k \in 1 .. Len(tl) : tl[k] = window[t][k + 1]
  <2>1. window[t] \in Seq(EntryType) /\ window[t] # <<>>
    <3>1. window[t] \in Seq(EntryType)
      BY <1>0 DEF TypeOK
    <3> QED BY <1>3, <3>1
  <2>2. Tail(window[t]) \in Seq(EntryType) /\ Len(Tail(window[t])) = Len(window[t]) - 1
    BY <2>1
  <2>3. \A k \in 1 .. Len(window[t]) - 1 : Tail(window[t])[k] = window[t][k + 1]
    BY <2>1
  <2>4. Len(window[t]) - 1 + 1 = Len(window[t])
    BY <2>1
  <2> QED BY <2>2, <2>3, <2>4
<1>7. /\ pc' = [pc EXCEPT ![t] = to]
      /\ busy' = [busy EXCEPT ![w.slot] = FALSE] /\ fence' = [fence EXCEPT ![w.slot] = f]
      /\ window' = [window EXCEPT ![t] = tl] /\ done' = [done EXCEPT ![t] = n]
      /\ UNCHANGED <<nextSlot, data, ring, get, sticky, job, issued, slot, prev, got, jobs,
                     mutex>>
  BY <1>1, <1>2, <1>4, <1>5, <1>6 DEF ReleaseOut, ReleaseSlot, Goto, deviceVars
<1>8. PICK s0 \in Slot : s0 = w.slot
  BY DEF EntryType
<1>9. TypeOK'
  <2>1. window' \in [Threads -> Seq(EntryType)]
    BY <1>0, <1>7 DEF TypeOK
  <2> QED BY <1>0, <1>7, <1>8, <2>1 DEF TypeOK, Labels
<1>10. \A u \in Threads \ {t} : Still(u)
  BY <1>0, <1>7 DEF TypeOK, Still
<1>11. pc'[t] = to /\ done'[t] = n /\ window'[t] = tl
  BY <1>0, <1>7 DEF TypeOK
<1>12. /\ UNCHANGED <<data, ring, get, sticky, job, issued, jobs, slot, prev, got>>
       /\ busy' = [busy EXCEPT ![s0] = FALSE] /\ fence' = [fence EXCEPT ![s0] = f]
  BY <1>7, <1>8
<1> HIDE <1>7
<1>13. /\ issued[t] \in Nat /\ done[t] \in Nat /\ n <= issued[t] /\ issued[t] <= job[t].chunks
       /\ Len(tl) = issued[t] - n /\ Len(got[t]) = n
  <2>1. issued[t] \in Nat /\ done[t] \in Nat /\ Len(tl) \in Nat
    BY <1>0 DEF TypeOK
  <2> QED BY <1>0, <1>2, <1>3, <1>6, <2>1 DEF Loops
<1>14. /\ to = "acquire" => issued[t] < job[t].chunks /\ issued[t] - n < WindowDepth
       /\ to = "return" => issued[t] = n
  BY <1>0, <1>1, <1>2, <1>3, <1>13, LoopGoesOn
<1>15. Loops(t)'
  BY <1>3, <1>11, <1>12, <1>13, <1>14, DepthPositive DEF Loops
<1>16. PICK off \in {0, 1} : off = 1
  OBVIOUS
<1>17. /\ done'[t] = done[t] + off /\ Len(window'[t]) + off = Len(window[t])
       /\ \A k \in 1 .. Len(window'[t]) : window'[t][k] = window[t][k + off]
  BY <1>2, <1>6, <1>11, <1>16
<1>18. \A k \in 1 .. Len(window'[t]) : window'[t][k].slot # s0
  <2>1. ASSUME NEW k \in 1 .. Len(tl) PROVE k + 1 \in 1 .. Len(window[t]) /\ k + 1 # 1
    BY <1>6
  <2>2. ASSUME NEW k \in 1 .. Len(tl) PROVE window[t][k + 1].slot # window[t][1].slot
    BY <1>4, <2>1 DEF PoolInv, HoldersOK
  <2> QED BY <1>4, <1>6, <1>8, <1>11, <2>2
<1>19. \A c \in Channels : \A i \in get[c] + 1 .. Len(ring[c]) :
        ring[c][i].slot = s0 => Behind(c, i, f)
  BY <1>3, <1>4, <1>5, <1>8, OldestGuards
<1>20. ~sticky => \A s \in Slot : Has(t, s) /\ s # s0 => Has(t, s)'
  <2>1. ASSUME NEW s \in Slot, Has(t, s), s # s0 PROVE Has(t, s)'
    <3>1. PICK k \in 1 .. Len(window[t]) : window[t][k].slot = s
      BY <1>3, <2>1 DEF Has, InSlot, InWindow
    <3>2. k # 1
      BY <1>4, <1>8, <2>1, <3>1
    <3>3. k - 1 \in 1 .. Len(tl) /\ (k - 1) + 1 = k
      BY <1>6, <3>1, <3>2
    <3>4. tl[k - 1].slot = s
      BY <1>6, <3>1, <3>3
    <3>5. to # "return"
      BY <1>13, <1>14, <3>3
    <3> QED BY <1>11, <3>3, <3>4, <3>5 DEF Has, InWindow
  <2> QED BY <2>1
<1>21. Has(t, s0) /\ pc[t] # "return" /\ pc'[t] \in {"acquire", "dma", "return"}
  BY <1>3, <1>4, <1>8, <1>11 DEF Has, InWindow
<1> QED BY <1>9, <1>10, <1>12, <1>15, <1>17, <1>18, <1>19, <1>20, <1>21, GiveBack

----------------------------------------------------------------------------
(* Commands that are published and that retire                             *)

\* The chunk's command is published: the slot it uses is the thread's own and
\* nothing is in flight on it.
LEMMA EnqueueInv == ASSUME PoolInv, NEW t \in Threads, Enqueue(t) PROVE PoolInv'
<1>0. TypeOK /\ Loops(t) /\ Bytes(t) /\ Releases(t)
  BY DEF PoolInv, LoopsOK, DataOK, ChunksOK
<1>1. PICK s0 \in Slot : s0 = slot[t]
  BY <1>0 DEF TypeOK
<1>2. PICK c0 \in Channels : c0 = ChannelOf(t)
  BY <1>0 DEF TypeOK, JobType, ChannelOf
<1>3. PICK m \in Nat : m = issued[t] + 1
  BY <1>0 DEF TypeOK
<1>4. PICK n \in Nat : n = Len(ring[c0]) + 1
  BY <1>0 DEF TypeOK
<1>5. PICK chunk \in ChunkType : chunk = <<t, jobs[t], issued[t]>>
  BY <1>0 DEF TypeOK, ChunkType
<1>6. PICK op \in {"h2d", "d2h"} : op = job[t].op
  BY <1>0 DEF TypeOK, JobType, Ops
<1>7. PICK cmd \in CmdType : cmd = [op |-> op, slot |-> s0, chunk |-> chunk]
  BY <1>5, <1>6 DEF CmdType, Ops
<1>8. PICK r \in Seq(CmdType) :
        /\ r = Append(ring[c0], cmd) /\ Len(r) = n /\ r[n] = cmd
        /\ \A i \in 1 .. Len(ring[c0]) : r[i] = ring[c0][i]
  <2>1. ring[c0] \in Seq(CmdType)
    BY <1>0 DEF TypeOK
  <2>2. /\ Append(ring[c0], cmd) \in Seq(CmdType)
        /\ Len(Append(ring[c0], cmd)) = Len(ring[c0]) + 1
        /\ Append(ring[c0], cmd)[Len(ring[c0]) + 1] = cmd
        /\ \A i \in 1 .. Len(ring[c0]) : Append(ring[c0], cmd)[i] = ring[c0][i]
    BY <2>1
  <2> QED BY <1>4, <2>2
<1>9. PICK e \in EntryType : e = [slot |-> s0, value |-> n]
  BY DEF EntryType
<1>10. PICK l \in Nat : l = Len(window[t])
  BY <1>0 DEF TypeOK
<1>11. PICK w \in Seq(EntryType) :
         /\ op = "h2d" => w = window[t] /\ Len(w) = l
         /\ op = "d2h" => w = Append(window[t], e) /\ Len(w) = l + 1 /\ w[l + 1] = e
         /\ \A k \in 1 .. l : w[k] = window[t][k]
  <2>1. window[t] \in Seq(EntryType)
    BY <1>0 DEF TypeOK
  <2>2. CASE op = "h2d"
    BY <1>10, <2>1, <2>2
  <2>3. CASE op = "d2h"
    <3>1. /\ Append(window[t], e) \in Seq(EntryType) /\ Len(Append(window[t], e)) = l + 1
          /\ Append(window[t], e)[l + 1] = e
          /\ \A k \in 1 .. l : Append(window[t], e)[k] = window[t][k]
      BY <1>10, <2>1
    <3> QED BY <2>3, <3>1
  <2> QED BY <2>2, <2>3
<1>12. /\ pc[t] = "enqueue" /\ ring' = [ring EXCEPT ![c0] = r]
       /\ issued' = [issued EXCEPT ![t] = m]
       /\ UNCHANGED <<busy, fence, nextSlot, data, get, sticky, job, done, slot, prev, got,
                      jobs, mutex>>
  BY <1>1, <1>2, <1>3, <1>5, <1>6, <1>7, <1>8 DEF Enqueue, Goto, Chunk, poolVars
<1>13. PICK to \in {"release", "acquire", "dma", "return"} :
         /\ op = "h2d" => to = "release"
         /\ op = "d2h" => to = Loop(t, m, done[t])
  BY LoopLabels, <1>6
<1>14. pc' = [pc EXCEPT ![t] = to] /\ window' = [window EXCEPT ![t] = w]
  <2>1. CASE op = "h2d"
    BY <1>0, <1>6, <1>11, <1>13, <2>1 DEF Enqueue, Goto, TypeOK
  <2>2. CASE op = "d2h"
    <3>1. ring'[c0] = r
      BY <1>0, <1>12 DEF TypeOK
    <3>2. [slot |-> slot[t], value |-> Len(ring'[ChannelOf(t)])] = e
      BY <1>1, <1>2, <1>8, <1>9, <3>1
    <3>3. pc' = [pc EXCEPT ![t] = Loop(t, m, done[t])]
      BY <1>3, <1>6, <2>2 DEF Enqueue, Goto
    <3>4. window' = [window EXCEPT ![t] = Append(window[t], e)]
      BY <1>6, <2>2, <3>2 DEF Enqueue
    <3> QED BY <1>11, <1>13, <2>2, <3>3, <3>4
  <2> QED BY <2>1, <2>2
<1>15. TypeOK'
  <2>1. window' \in [Threads -> Seq(EntryType)]
    BY <1>0, <1>14 DEF TypeOK
  <2>2. ring' \in [Channels -> Seq(CmdType)]
    BY <1>0, <1>12 DEF TypeOK
  <2>3. pc' \in [Threads -> Labels] /\ issued' \in [Threads -> Nat]
    BY <1>0, <1>12, <1>14 DEF TypeOK, Labels
  <2> QED BY <1>0, <1>12, <2>1, <2>2, <2>3 DEF TypeOK
<1>16. \A u \in Threads \ {t} : Still(u)
  BY <1>0, <1>12, <1>14 DEF TypeOK, Still
<1>17. /\ pc[t] = "enqueue" /\ pc'[t] = to /\ issued'[t] = m /\ window'[t] = w
       /\ ring'[c0] = r /\ \A d \in Channels \ {c0} : ring'[d] = ring[d]
       /\ UNCHANGED <<busy, fence, data, get, sticky, job, done, slot, prev, got, jobs>>
       /\ data' \in [Slot -> Payload]
  BY <1>0, <1>12, <1>14 DEF TypeOK
<1> HIDE <1>12, <1>14
<1>18. ASSUME NEW d \in Channels
       PROVE  /\ Len(ring[d]) \in Nat /\ Len(ring'[d]) \in Nat /\ get[d] \in Nat
              /\ get[d] <= Len(ring[d]) /\ Len(ring[d]) <= Len(ring'[d])
              /\ \A i \in 1 .. Len(ring[d]) : i \in 1 .. Len(ring'[d]) /\ ring'[d][i] = ring[d][i]
              /\ \A i \in 1 .. Len(ring'[d]) : i \in 1 .. Len(ring[d]) \/ (d = c0 /\ i = n)
  <2>1. /\ Len(ring[d]) \in Nat /\ Len(ring'[d]) \in Nat /\ get[d] \in Nat
        /\ get[d] <= Len(ring[d])
    BY <1>0, <1>15, SMTT(30) DEF TypeOK, PoolInv, FlightOK
  <2>2. CASE d = c0
    <3>1. Len(ring'[d]) = Len(ring[d]) + 1 /\ \A i \in 1 .. Len(ring[d]) : ring'[d][i] = ring[d][i]
      BY <1>4, <1>8, <1>17, <2>2
    <3> QED BY <1>4, <2>1, <2>2, <3>1
  <2>3. CASE d # c0
    BY <1>17, <2>1, <2>3
  <2> QED BY <2>2, <2>3
<1>19. ring'[c0][n] = cmd /\ n \in 1 .. Len(ring'[c0]) /\ Len(ring[c0]) < n
  BY <1>4, <1>8, <1>17, <1>18
<1>20. /\ \A k \in 1 .. l : w[k] = window[t][k]
       /\ \A k \in 1 .. Len(w) : k \in 1 .. l \/ (op = "d2h" /\ k = l + 1 /\ w[k] = e)
       /\ Len(w) >= l
  BY <1>10, <1>11
<1>21. /\ issued[t] \in Nat /\ done[t] \in Nat /\ done[t] <= issued[t] /\ m <= job[t].chunks
       /\ issued[t] < job[t].chunks
       /\ job[t].chunks \in Nat /\ (op = "d2h" => l = issued[t] - done[t])
  <2>1. issued[t] \in Nat /\ done[t] \in Nat /\ job[t].chunks \in Nat
    BY <1>0 DEF TypeOK, JobType
  <2> QED BY <1>0, <1>3, <1>6, <1>10, <1>17, <2>1 DEF Loops
<1>22. /\ op = "d2h" => to \in {"acquire", "dma"}
       /\ to = "acquire" => m < job[t].chunks /\ m - done[t] < WindowDepth
       /\ to # "return" /\ (to = "release" => op = "h2d")
  <2>1. CASE op = "h2d"
    BY <1>13, <2>1
  <2>2. CASE op = "d2h"
    <3>1. /\ Loop(t, m, done[t]) = "acquire" => m < job[t].chunks /\ m - done[t] < WindowDepth
          /\ Loop(t, m, done[t]) = "return" => m = done[t]
      <4>1. done[t] <= m
        BY <1>3, <1>21
      <4> QED BY <1>0, <1>6, <1>21, <2>2, <4>1, LoopGoesOn
    <3>2. Loop(t, m, done[t]) \in {"acquire", "dma", "return"} /\ m # done[t]
      BY <1>3, <1>21, LoopLabels
    <3> QED BY <1>13, <2>2, <3>1, <3>2
  <2> QED BY <2>1, <2>2
<1>23. LoopsOK'
  <2>1. Loops(t)'
    <3>1. CASE op = "h2d"
      <4>1. Len(w) = 0 /\ done[t] = 0 /\ Len(got[t]) = done[t]
        BY <1>0, <1>6, <1>10, <1>11, <1>17, <3>1 DEF Loops
      <4> QED BY <1>3, <1>6, <1>13, <1>17, <1>21, <3>1, <4>1, DepthPositive DEF Loops
    <3>2. CASE op = "d2h"
      <4>1. Len(w) = m - done[t] /\ Len(got[t]) = done[t] /\ done[t] <= m
        BY SMTT(30), <1>0, <1>3, <1>11, <1>17, <1>21, <3>2 DEF Loops
      <4>2. CASE to = "acquire"
        BY <1>6, <1>17, <1>21, <1>22, <3>2, <4>1, <4>2 DEF Loops
      <4>3. CASE to = "dma"
        BY <1>6, <1>17, <1>21, <3>2, <4>1, <4>3 DEF Loops
      <4> QED BY <1>22, <3>2, <4>2, <4>3
    <3> QED BY <3>1, <3>2
  <2>2. ASSUME NEW u \in Threads \ {t} PROVE Loops(u)'
    BY <1>16, <1>17, LoopsKept DEF PoolInv, LoopsOK, Still
  <2> QED BY <2>1, <2>2 DEF LoopsOK
<1>24. \A d \in Channels : \A i \in 1 .. Len(ring[d]) :
         /\ ring[d][i].chunk[1] \in Threads /\ ring[d][i].chunk[2] \in Nat
         /\ ring[d][i].chunk[3] \in Nat /\ ring[d][i].slot \in Slot
  <2>1. \A d \in Channels : \A i \in 1 .. Len(ring[d]) : ring[d][i] \in CmdType
    BY <1>0 DEF TypeOK
  <2> QED BY <2>1 DEF CmdType, ChunkType
<1>25. /\ chunk[1] = t /\ chunk[2] = jobs[t] /\ chunk[3] = issued[t]
       /\ cmd.chunk = chunk /\ cmd.slot = s0 /\ cmd.op = op
  BY <1>5, <1>7
<1>26. ChunksOK'
  <2>1. ASSUME NEW d \in Channels, NEW i \in 1 .. Len(ring'[d]), NEW u \in Threads,
               ring'[d][i].chunk[1] = u
        PROVE  /\ ring'[d][i].chunk[2] <= jobs[u]
               /\ ring'[d][i].chunk[2] = jobs[u] => ring'[d][i].chunk[3] < issued'[u]
    <3>1. CASE i \in 1 .. Len(ring[d])
      <4>1. /\ ring'[d][i] = ring[d][i] /\ ring[d][i].chunk[2] <= jobs[u]
            /\ ring[d][i].chunk[2] = jobs[u] => ring[d][i].chunk[3] < issued[u]
            /\ ring[d][i].chunk[3] \in Nat
        BY <1>18, <1>24, <2>1, <3>1 DEF PoolInv, ChunksOK, Numbered
      <4>2. CASE u = t
        BY <1>3, <1>17, <1>21, <4>1, <4>2, SMTT(30)
      <4>3. CASE u # t
        BY <1>16, <4>1, <4>3 DEF Still
      <4> QED BY <4>2, <4>3
    <3>2. CASE d = c0 /\ i = n
      <4>1. ring'[d][i].chunk = chunk /\ u = t
        BY <1>19, <1>25, <2>1, <3>2
      <4>2. jobs[t] \in Nat
        BY <1>0 DEF TypeOK
      <4> QED BY SMTT(30), <1>3, <1>17, <1>21, <1>25, <4>1, <4>2
    <3> QED BY <1>18, <3>1, <3>2
  <2>2. Numbered'
    BY <1>17, <2>1 DEF Numbered
  <2>3. ASSUME NEW u \in Threads \ {t} PROVE Releases(u)'
    <3>1. PICK d \in Channels : d = ChannelOf(u) /\ ChannelOf(u)' = d
      BY <1>0, <1>17 DEF TypeOK, JobType, ChannelOf
    <3>2. jobs'[u] = jobs[u] /\ issued'[u] = issued[u] /\ pc'[u] = pc[u]
      BY <1>16 DEF Still
    <3>3. \A i \in 1 .. Len(ring[d]) : IsChunk(d, i, u)' <=> IsChunk(d, i, u)
      BY <1>18, <3>2 DEF IsChunk
    <3>4. \A i \in 1 .. Len(ring'[d]) : IsChunk(d, i, u)' => i \in 1 .. Len(ring[d])
      <4>1. ASSUME NEW i \in 1 .. Len(ring'[d]), IsChunk(d, i, u)', d = c0, i = n PROVE FALSE
        <5>1. ring'[d][i].chunk = chunk /\ ring'[d][i].chunk = <<u, jobs'[u], issued'[u] - 1>>
          BY <1>19, <1>25, <4>1 DEF IsChunk
        <5>2. chunk[1] = u
          BY <5>1
        <5> QED BY <1>25, <5>2
      <4> QED BY <1>18, <4>1
    <3>5. Releases(u)
      BY DEF PoolInv, ChunksOK
    <3> QED BY <1>18, <3>1, <3>2, <3>3, <3>4, <3>5 DEF Releases
  <2>4. Releases(t)'
    <3>1. ChannelOf(t)' = c0 /\ m - 1 = issued[t] /\ m > 0
      BY <1>2, <1>3, <1>17, <1>21 DEF ChannelOf
    <3>2. \A i : IsChunk(c0, i, t)' <=> ring'[c0][i].chunk = chunk
      BY <1>5, <1>17, <3>1 DEF IsChunk
    <3>3. ASSUME NEW i \in 1 .. Len(ring'[c0]), ring'[c0][i].chunk = chunk PROVE i = n
      <4>1. CASE i \in 1 .. Len(ring[c0])
        <5>1. ring[c0][i].chunk = chunk
          BY <1>18, <3>3, <4>1
        <5>2. chunk[3] < issued[t]
          BY <1>25, <4>1, <5>1 DEF PoolInv, ChunksOK, Numbered
        <5> QED BY <1>21, <1>25, <5>2
      <4> QED BY <1>18, <4>1
    <3> QED BY <1>17, <1>19, <1>25, <3>1, <3>2, <3>3 DEF Releases
  <2> QED BY <2>2, <2>3, <2>4 DEF ChunksOK
<1>27. WindowOK'
  <2>0. \A u \in Threads : ChannelOf(u)' = ChannelOf(u) /\ ChannelOf(u) \in Channels
    BY <1>0, <1>17 DEF TypeOK, JobType, ChannelOf
  <2>1. ASSUME NEW u \in Threads, NEW k \in 1 .. Len(window'[u]), NEW x,
               x = window'[u][k]
        PROVE  /\ x.value \in 1 .. Len(ring'[ChannelOf(u)])
               /\ ring'[ChannelOf(u)][x.value] =
                    [op |-> "d2h", slot |-> x.slot, chunk |-> <<u, jobs[u], done[u] + k - 1>>]
    <3>1. CASE k \in 1 .. Len(window[u]) /\ x = window[u][k]
      <4>1. /\ x.value \in 1 .. Len(ring[ChannelOf(u)])
            /\ ring[ChannelOf(u)][x.value] =
                 [op |-> "d2h", slot |-> x.slot, chunk |-> <<u, jobs[u], done[u] + k - 1>>]
        BY <3>1 DEF PoolInv, WindowOK
      <4> QED BY <1>18, <2>0, <4>1
    <3>2. CASE u = t /\ op = "d2h" /\ k = l + 1 /\ x = e
      <4>1. done[t] + k - 1 = issued[t]
        BY <1>10, <1>21, <3>2
      <4>2. x.value = n /\ x.slot = s0 /\ ChannelOf(u) = c0
        BY <1>2, <1>9, <3>2
      <4>3. cmd = [op |-> "d2h", slot |-> s0, chunk |-> <<u, jobs[u], done[u] + k - 1>>]
        BY <1>5, <1>7, <3>2, <4>1
      <4> QED BY <1>19, <4>2, <4>3
    <3>3. CASE u = t
      BY <1>10, <1>17, <1>20, <2>1, <3>1, <3>2, <3>3
    <3>4. CASE u # t
      BY <1>16, <2>1, <3>1, <3>4 DEF Still
    <3> QED BY <3>3, <3>4
  <2>2. ASSUME NEW u \in Threads, NEW k \in 1 .. Len(window'[u])
        PROVE  LET x == window'[u][k] IN
               /\ x.value \in 1 .. Len(ring'[ChannelOf(u)])
               /\ ring'[ChannelOf(u)][x.value] =
                    [op |-> "d2h", slot |-> x.slot, chunk |-> <<u, jobs[u], done[u] + k - 1>>]
    BY <2>1
  <2>3. jobs' = jobs /\ done' = done
    BY <1>17
  <2> QED BY <2>0, <2>2, <2>3 DEF WindowOK
<1>28. \A k \in 1 .. l : window[t][k].slot # s0
  BY <1>1, <1>10, <1>17 DEF PoolInv, HoldersOK, InSlot, InWindow
<1>29. \A s \in Slot : Has(t, s)' <=> Has(t, s)
  <2>1. ASSUME NEW s \in Slot
        PROVE  Has(t, s) <=> s = s0 \/ \E k \in 1 .. l : window[t][k].slot = s
    BY <1>1, <1>10, <1>17 DEF Has, InSlot, InWindow
  <2>2. CASE op = "h2d"
    <3>1. ASSUME NEW s \in Slot
          PROVE  Has(t, s)' <=> s = s0 \/ \E k \in 1 .. l : window[t][k].slot = s
      BY <1>1, <1>10, <1>11, <1>13, <1>17, <2>2 DEF Has, InSlot, InWindow
    <3> QED BY <2>1, <3>1
  <2>3. CASE op = "d2h"
    <3>1. ASSUME NEW s \in Slot
          PROVE  Has(t, s)' <=> \E k \in 1 .. Len(w) : w[k].slot = s
      BY <1>17, <1>22, <2>3 DEF Has, InSlot, InWindow
    <3>2. l + 1 \in 1 .. Len(w) /\ w[l + 1] = e /\ e.slot = s0 /\ \A k \in 1 .. l : k \in 1 .. Len(w)
      BY <1>9, <1>11, <2>3
    <3> QED BY <1>20, <2>1, <3>1, <3>2
  <2> QED BY <2>2, <2>3
<1>30. HoldersOK'
  <2>1. \A s \in Slot : Has(t, s)' => busy'[s] /\ (Has(t, s) \/ ~busy[s])
    BY <1>17, <1>29 DEF PoolInv, HoldersOK
  <2>2. \A s \in Slot : /\ busy[s] => busy'[s] \/ Has(t, s)
                        /\ busy'[s] => (busy[s] /\ ~Has(t, s)) \/ Has(t, s)'
    BY <1>17, <1>29
  <2>3. \A s \in Slot : InSlot(t)' /\ slot'[t] = s => ~InWindow(t, s)'
    <3>1. InSlot(t)' => op = "h2d"
      BY <1>17, <1>22 DEF InSlot
    <3> QED BY <1>1, <1>11, <1>17, <1>28, <3>1 DEF InWindow
  <2>4. ASSUME NEW k \in 1 .. Len(window'[t]), NEW j \in 1 .. Len(window'[t]),
               window'[t][k].slot = window'[t][j].slot
        PROVE  k = j
    <3>1. ASSUME NEW x \in 1 .. l, NEW y \in 1 .. l, w[x].slot = w[y].slot PROVE x = y
      BY <1>10, <1>20, <3>1 DEF PoolInv, HoldersOK
    <3>2. \A x \in 1 .. l : w[x].slot # s0
      BY <1>20, <1>28
    <3>3. e.slot = s0
      BY <1>9
    <3> QED BY <1>17, <1>20, <2>4, <3>1, <3>2, <3>3
  <2> QED BY <1>16, <1>17, <2>1, <2>2, <2>3, <2>4, HoldersStep
<1>31. ASSUME NEW d \in Channels, NEW i \in get[d] + 1 .. Len(ring[d])
       PROVE  /\ i \in 1 .. Len(ring[d]) /\ ring'[d][i] = ring[d][i] /\ Guarded(d, i)
              /\ ring[d][i].slot # s0 /\ ring[d][i].slot \in Slot
  <2>1. i \in 1 .. Len(ring[d]) /\ Guarded(d, i)
    BY <1>18 DEF PoolInv, FlightOK
  <2>2. ring[d][i].slot # s0
    BY <1>1, <1>17, <2>1 DEF Guarded, Meets
  <2> QED BY <1>18, <1>24, <2>1, <2>2
<1>32. ASSUME NEW d \in Channels, NEW i \in get'[d] + 1 .. Len(ring'[d])
       PROVE  i \in get[d] + 1 .. Len(ring[d]) \/ (d = c0 /\ i = n)
  <2>1. i \in 1 .. Len(ring'[d]) /\ i > get[d]
    BY <1>17, <1>18
  <2> QED BY <1>18, <2>1
<1>33. FlightOK'
  <2>1. ASSUME NEW d \in Channels, NEW i \in get[d] + 1 .. Len(ring[d]) PROVE Guarded(d, i)'
    <3>1. ASSUME NEW u \in Threads \ {t} PROVE Meets(u, d, i)'
      BY <1>16, <1>31, MeetsKept DEF Guarded
    <3>2. Meets(t, d, i)'
      <4>1. ASSUME NEW k \in 1 .. Len(w), w[k].slot = ring[d][i].slot
            PROVE  ChannelOf(t) = d /\ w[k].value = i
        <5>1. k \in 1 .. l /\ w[k] = window[t][k]
          BY <1>9, <1>20, <1>31, <4>1
        <5>2. Meets(t, d, i)
          BY <1>31 DEF Guarded
        <5>3. k \in 1 .. Len(window[t]) /\ window[t][k].slot = ring[d][i].slot
          BY <1>10, <4>1, <5>1
        <5>4. ChannelOf(t) = d /\ window[t][k].value = i
          BY <1>17, <5>2, <5>3 DEF Meets
        <5> QED BY <5>1, <5>4
      <4> QED BY <1>1, <1>17, <1>31, <4>1 DEF Meets, ChannelOf
    <3>3. \A u \in Threads : Meets(u, d, i)'
      BY <3>1, <3>2
    <3> QED BY <1>17, <1>31, <3>3 DEF Guarded, Behind
  <2>2. Guarded(c0, n)'
    <3>1. busy'[s0] /\ Has(t, s0)
      BY <1>1, <1>17 DEF PoolInv, HoldersOK, Has, InSlot
    <3>2. ASSUME NEW u \in Threads \ {t} PROVE Meets(u, c0, n)'
      <4>1. ~Has(u, s0)'
        BY <1>16, <3>1, HasKept DEF PoolInv, HoldersOK
      <4> QED BY <1>19, <1>25, <4>1 DEF Meets, Has, InSlot, InWindow
    <3>3. Meets(t, c0, n)'
      <4>1. to = "release" => IsChunk(c0, n, t)'
        <5>1. m - 1 = issued[t]
          BY <1>3, <1>21
        <5> QED BY <1>5, <1>17, <1>19, <1>25, <5>1 DEF IsChunk
      <4>2. ASSUME NEW k \in 1 .. Len(w), w[k].slot = s0 PROVE w[k].value = n
        BY <1>9, <1>20, <1>28, <4>2
      <4>3. ChannelOf(t)' = c0
        BY <1>2, <1>17 DEF ChannelOf
      <4>4. to \in {"release", "acquire", "dma"}
        BY <1>22
      <4> QED BY <1>17, <1>19, <1>25, <4>1, <4>2, <4>3, <4>4 DEF Meets
    <3>4. \A u \in Threads : Meets(u, c0, n)'
      BY <3>2, <3>3
    <3> QED BY <1>19, <1>25, <3>1, <3>4 DEF Guarded
  <2>3. \A d \in Channels : \A i \in get'[d] + 1 .. Len(ring'[d]) : Guarded(d, i)'
    BY <1>32, <2>1, <2>2
  <2>4. \A d \in Channels : get'[d] <= Len(ring'[d])
    BY <1>17, <1>18
  <2>5. ASSUME NEW d \in Channels, NEW f \in Channels, NEW i \in get'[d] + 1 .. Len(ring'[d]),
               NEW j \in get'[f] + 1 .. Len(ring'[f]), ring'[d][i].slot = ring'[f][j].slot
        PROVE  d = f /\ i = j
    <3>1. CASE i \in get[d] + 1 .. Len(ring[d]) /\ j \in get[f] + 1 .. Len(ring[f])
      <4>1. ring[d][i].slot = ring[f][j].slot
        BY <1>31, <2>5, <3>1
      <4> QED BY <3>1, <4>1 DEF PoolInv, FlightOK
    <3>2. CASE d = c0 /\ i = n
      <4>1. ring'[d][i].slot = s0
        BY <1>19, <1>25, <3>2
      <4>2. ~(j \in get[f] + 1 .. Len(ring[f]))
        BY <1>31, <2>5, <4>1, ZenonT(60)
      <4> QED BY <1>32, <3>2, <4>2
    <3>3. CASE f = c0 /\ j = n
      <4>1. ring'[f][j].slot = s0
        BY <1>19, <1>25, <3>3
      <4>2. ~(i \in get[d] + 1 .. Len(ring[d]))
        BY <1>31, <2>5, <4>1
      <4> QED BY <1>32, <3>3, <4>2
    <3> QED BY <1>32, <3>1, <3>2, <3>3
  <2> QED BY <2>3, <2>4, <2>5 DEF FlightOK
<1>34. DataOK'
  <2>1. SourceOK'
    <3>1. ASSUME NEW d \in Channels, NEW i \in get'[d] + 1 .. Len(ring'[d]),
                 ring'[d][i].op = "h2d"
          PROVE  data'[ring'[d][i].slot] = ring'[d][i].chunk
      <4>1. CASE i \in get[d] + 1 .. Len(ring[d])
        BY <1>17, <1>31, <3>1, <4>1 DEF PoolInv, DataOK, SourceOK
      <4>2. CASE d = c0 /\ i = n
        <5>1. op = "h2d" /\ data[s0] = Chunk(t)
          BY <1>0, <1>1, <1>6, <1>17, <1>19, <1>25, <3>1, <4>2 DEF Bytes
        <5> QED BY <1>5, <1>17, <1>19, <1>25, <4>2, <5>1 DEF Chunk
      <4> QED BY <1>32, <4>1, <4>2
    <3> QED BY <3>1 DEF SourceOK
  <2>2. ASSUME NEW u \in Threads \ {t} PROVE Bytes(u)'
    <3>1. Loops(u) /\ Bytes(u) /\ Still(u)
      BY <1>16 DEF PoolInv, LoopsOK, DataOK
    <3> QED BY <1>0, <1>17, <3>1, BytesKept
  <2>3. Bytes(t)'
    <3>1. ASSUME NEW k \in 1 .. Len(w), get[c0] >= w[k].value
          PROVE  sticky \/ data[w[k].slot] = <<t, jobs[t], done[t] + k - 1>>
      <4>1. CASE k \in 1 .. l
        BY <1>0, <1>2, <1>10, <1>17, <1>20, <3>1, <4>1 DEF Bytes
      <4>2. CASE w[k] = e
        BY <1>9, <1>18, <1>19, <3>1, <4>2
      <4> QED BY <1>20, <4>1, <4>2
    <3>2. ChannelOf(t)' = c0
      BY <1>2, <1>17 DEF ChannelOf
    <3>3. to \in {"release", "acquire", "dma"}
      BY <1>22
    <3> QED BY <1>17, <3>1, <3>2, <3>3 DEF Bytes
  <2> QED BY <2>1, <2>2, <2>3 DEF DataOK
<1>35. DeliversOwnChunks'
  BY <1>17 DEF PoolInv, DeliversOwnChunks
<1> QED BY <1>15, <1>23, <1>26, <1>27, <1>30, <1>33, <1>34, <1>35 DEF PoolInv

\* A command runs, or fails, and retires: it writes at most the slot it uses.
LEMMA ExecuteInv == ASSUME PoolInv, NEW c0 \in Channels, Execute(c0) PROVE PoolInv'
<1>0. TypeOK
  BY DEF PoolInv
<1>1. PICK n \in Nat : n = get[c0] + 1 /\ get[c0] \in Nat /\ n \in get[c0] + 1 .. Len(ring[c0])
  <2>1. get[c0] \in Nat /\ Len(ring[c0]) \in Nat /\ get[c0] < Len(ring[c0])
    BY <1>0 DEF TypeOK, Execute
  <2> QED BY <2>1
<1>2. PICK cmd \in CmdType : cmd = ring[c0][n]
  <2>1. ring[c0] \in Seq(CmdType) /\ n \in 1 .. Len(ring[c0])
    BY <1>0, <1>1 DEF TypeOK
  <2> QED BY <2>1
<1>3. /\ get' = [get EXCEPT ![c0] = n]
      /\ \/ /\ data' = IF cmd.op = "d2h" THEN [data EXCEPT ![cmd.slot] = cmd.chunk] ELSE data
            /\ sticky' = sticky
         \/ sticky' = TRUE /\ data' = data
      /\ UNCHANGED <<busy, fence, nextSlot, ring, pc, job, issued, done, slot, prev, window,
                     jobs, got, mutex>>
  BY <1>1, <1>2 DEF Execute, poolVars, loopVars
<1>4. cmd.slot \in Slot /\ cmd.chunk \in Payload /\ cmd.op \in {"h2d", "d2h"}
  BY DEF CmdType, Payload, Ops
<1>5. TypeOK'
  <2>1. data' \in [Slot -> Payload] /\ sticky' \in BOOLEAN
    BY <1>0, <1>3, <1>4 DEF TypeOK
  <2>2. get' \in [Channels -> Nat]
    BY <1>0, <1>3 DEF TypeOK
  <2> QED BY <1>0, <1>3, <2>1, <2>2 DEF TypeOK
<1>6. \A u \in Threads : Still(u)
  BY <1>3 DEF Still
<1>7. /\ get'[c0] = n /\ \A d \in Channels \ {c0} : get'[d] = get[d]
      /\ \A s \in Slot \ {cmd.slot} : data'[s] = data[s]
      /\ cmd.op = "h2d" => data' = data
      /\ cmd.op = "d2h" => sticky' \/ data'[cmd.slot] = cmd.chunk
      /\ sticky => sticky'
      /\ data'[cmd.slot] # data[cmd.slot] => data'[cmd.slot] = cmd.chunk
      /\ UNCHANGED <<busy, fence, ring, pc, job, issued, done, slot, prev, window, jobs, got>>
  BY <1>0, <1>3, <1>4 DEF TypeOK
<1> HIDE <1>3
<1>8. /\ \A d \in Channels : get[d] \in Nat /\ get'[d] \in Nat /\ Len(ring[d]) \in Nat
      /\ \A d \in Channels : get[d] <= get'[d] /\ get'[d] <= Len(ring[d])
  <2>1. \A d \in Channels : get[d] \in Nat /\ get'[d] \in Nat /\ Len(ring[d]) \in Nat
    BY <1>0, <1>5 DEF TypeOK
  <2>2. \A d \in Channels : get[d] <= Len(ring[d])
    BY DEF PoolInv, FlightOK
  <2> QED BY <1>1, <1>7, <2>1, <2>2
<1>9. ASSUME NEW d \in Channels, NEW i \in get'[d] + 1 .. Len(ring[d])
      PROVE  i \in get[d] + 1 .. Len(ring[d]) /\ ring[d][i].slot # cmd.slot
  <2>1. i \in get[d] + 1 .. Len(ring[d]) /\ (d = c0 => i # n)
    BY <1>1, <1>7, <1>8
  <2> QED BY <1>1, <1>2, <2>1 DEF PoolInv, FlightOK
<1>10. LoopsOK'
  <2>1. ASSUME NEW u \in Threads PROVE Loops(u)'
    BY <1>6, <1>7, LoopsKept DEF PoolInv, LoopsOK, Still
  <2> QED BY <2>1 DEF LoopsOK
<1>11. ChunksOK'
  <2>1. Numbered'
    BY <1>7 DEF PoolInv, ChunksOK, Numbered
  <2>2. ASSUME NEW u \in Threads PROVE Releases(u)'
    BY <1>0, <1>6, <1>7, ReleasesKept DEF PoolInv, ChunksOK
  <2> QED BY <2>1, <2>2 DEF ChunksOK
<1>12. WindowOK'
  BY <1>7 DEF PoolInv, WindowOK, ChannelOf
<1>13. HoldersOK'
  <2>1. ASSUME NEW u \in Threads
        PROVE  /\ \A s : (Has(u, s)' <=> Has(u, s)) /\ (InWindow(u, s)' <=> InWindow(u, s))
               /\ InSlot(u)' <=> InSlot(u)
    BY <1>6, <2>1, HasKept
  <2>2. ~sticky' => \A s \in Slot : busy'[s] => \E u \in Threads : Has(u, s)'
    BY <1>7, <2>1 DEF PoolInv, HoldersOK
  <2> QED BY <1>7, <2>1, <2>2 DEF PoolInv, HoldersOK
<1>14. FlightOK'
  <2>1. ASSUME NEW d \in Channels, NEW i \in get'[d] + 1 .. Len(ring'[d]) PROVE Guarded(d, i)'
    <3>1. Guarded(d, i)
      BY <1>7, <1>9 DEF PoolInv, FlightOK
    <3>2. ASSUME NEW u \in Threads PROVE Meets(u, d, i)'
      BY <1>6, <1>7, <3>1, MeetsKept DEF Guarded
    <3> QED BY <1>7, <3>1, <3>2 DEF Guarded, Behind
  <2>2. ASSUME NEW d \in Channels, NEW f \in Channels, NEW i \in get'[d] + 1 .. Len(ring'[d]),
               NEW j \in get'[f] + 1 .. Len(ring'[f]), ring'[d][i].slot = ring'[f][j].slot
        PROVE  d = f /\ i = j
    BY <1>7, <1>9, <2>2 DEF PoolInv, FlightOK
  <2> QED BY <1>7, <1>8, <2>1, <2>2 DEF FlightOK
<1>15. DataOK'
  <2>1. SourceOK'
    <3>1. ASSUME NEW d \in Channels, NEW i \in get'[d] + 1 .. Len(ring[d]), ring[d][i].op = "h2d"
          PROVE  data'[ring[d][i].slot] = ring[d][i].chunk
      <4>1. ring[d][i].slot \in Slot
        <5>1. ring[d][i] \in CmdType
          BY <1>0, <1>8, <1>9 DEF TypeOK
        <5> QED BY <5>1 DEF CmdType
      <4> QED BY <1>7, <1>9, <3>1, <4>1 DEF PoolInv, DataOK, SourceOK
    <3> QED BY <1>7, <3>1 DEF SourceOK
  <2>2. ASSUME NEW u \in Threads PROVE Bytes(u)'
    <3>1. Bytes(u) /\ Loops(u) /\ Meets(u, c0, n)
      BY <1>1 DEF PoolInv, DataOK, LoopsOK, FlightOK, Guarded
    <3>2. ChannelOf(u) \in Channels /\ ChannelOf(u)' = ChannelOf(u) /\ slot[u] \in Slot
      BY <1>0, <1>7 DEF TypeOK, JobType, ChannelOf
    <3>3. pc[u] = "enqueue" => data'[slot[u]] = data[slot[u]]
      BY <1>2, <1>7, <3>1, <3>2 DEF Meets
    <3>4. ASSUME pc[u] # "return", NEW k \in 1 .. Len(window[u])
          PROVE  /\ window[u][k].slot \in Slot /\ window[u][k].value \in Nat
                 /\ window[u][k].slot = cmd.slot => ChannelOf(u) = c0 /\ window[u][k].value = n
                 /\ ring[ChannelOf(u)][window[u][k].value] =
                      [op |-> "d2h", slot |-> window[u][k].slot,
                       chunk |-> <<u, jobs[u], done[u] + k - 1>>]
      <4>1. window[u][k] \in EntryType
        BY <1>0 DEF TypeOK
      <4> QED BY <1>2, <3>1, <3>4, <4>1 DEF EntryType, Meets, PoolInv, WindowOK
    <3>5. ASSUME pc[u] # "return", NEW k \in 1 .. Len(window[u]),
                 get'[ChannelOf(u)] >= window[u][k].value
          PROVE  sticky' \/ data'[window[u][k].slot] = <<u, jobs[u], done[u] + k - 1>>
      <4>1. CASE ChannelOf(u) = c0 /\ window[u][k].value = n
        <5>1. cmd = [op |-> "d2h", slot |-> window[u][k].slot,
                     chunk |-> <<u, jobs[u], done[u] + k - 1>>]
          BY <1>2, <3>4, <3>5, <4>1
        <5>2. /\ cmd.op = "d2h" /\ cmd.slot = window[u][k].slot
              /\ cmd.chunk = <<u, jobs[u], done[u] + k - 1>>
          BY <5>1
        <5> QED BY <1>7, <5>2
      <4>2. CASE ~(ChannelOf(u) = c0 /\ window[u][k].value = n)
        <5>1. window[u][k].slot # cmd.slot
          BY <3>4, <3>5, <4>2
        <5>2. get[ChannelOf(u)] >= window[u][k].value
          <6>1. window[u][k].value \in Nat
            BY <3>4, <3>5
          <6>2. CASE ChannelOf(u) = c0
            BY <1>1, <1>7, <3>5, <4>2, <6>1, <6>2
          <6>3. CASE ChannelOf(u) # c0
            BY <1>7, <3>2, <3>5, <6>3
          <6> QED BY <6>2, <6>3
        <5>3. sticky \/ data[window[u][k].slot] = <<u, jobs[u], done[u] + k - 1>>
          BY <3>1, <3>5, <5>2 DEF Bytes
        <5> QED BY <1>7, <3>4, <3>5, <5>1, <5>3
      <4> QED BY <4>1, <4>2
    <3>6. ASSUME pc[u] = "empty"
          PROVE  /\ get'[ChannelOf(u)] >= window[u][1].value
                 /\ data'[window[u][1].slot] = <<u, jobs[u], done[u]>>
      <4>1. 1 \in 1 .. Len(window[u])
        <5>1. window[u] \in Seq(EntryType) /\ Len(window[u]) > 0
          BY <1>0, <3>1, <3>6 DEF TypeOK, Loops
        <5> QED BY <5>1
      <4>2. /\ get[ChannelOf(u)] >= window[u][1].value
            /\ data[window[u][1].slot] = <<u, jobs[u], done[u]>>
        BY <3>1, <3>6 DEF Bytes
      <4>3. /\ window[u][1].slot \in Slot /\ window[u][1].value \in Nat
            /\ window[u][1].slot = cmd.slot => ChannelOf(u) = c0 /\ window[u][1].value = n
        BY <3>4, <3>6, <4>1
      <4>4. window[u][1].slot # cmd.slot
        BY <1>1, <4>2, <4>3
      <4>5. get'[ChannelOf(u)] >= window[u][1].value
        BY <1>8, <3>2, <4>2, <4>3
      <4> QED BY <1>7, <4>2, <4>3, <4>4, <4>5
    <3> QED BY <1>7, <3>1, <3>2, <3>3, <3>5, <3>6 DEF Bytes, Chunk
  <2> QED BY <2>1, <2>2 DEF DataOK
<1>16. DeliversOwnChunks'
  BY <1>7 DEF PoolInv, DeliversOwnChunks
<1> QED BY <1>5, <1>10, <1>11, <1>12, <1>13, <1>14, <1>15, <1>16 DEF PoolInv

----------------------------------------------------------------------------
(* The theorems                                                            *)

LEMMA InitInv == Init => PoolInv
<1> SUFFICES ASSUME Init PROVE PoolInv
  OBVIOUS
<1>1. NoFence \in FenceType /\ AnyChannel \in Channels
  BY PoolAssumption DEF NoFence, AnyChannel, FenceType
<1>2. 0 \in Slot
  BY PoolAssumption DEF Slot
<1>3. TypeOK
  <2>1. job \in [Threads -> JobType]
    BY <1>1 DEF Init, JobType, Ops
  <2>2. data \in [Slot -> Payload] /\ pc \in [Threads -> Labels]
    BY DEF Init, Payload, Labels
  <2>3. /\ ring \in [Channels -> Seq(CmdType)] /\ window \in [Threads -> Seq(EntryType)]
        /\ got \in [Threads -> Seq(Payload)]
    BY DEF Init
  <2> QED BY <1>1, <1>2, <2>1, <2>2, <2>3 DEF Init, TypeOK
<1>4. /\ \A t \in Threads : /\ pc[t] = "idle" /\ job[t].op = "h2d" /\ job[t].chunks = 0
                            /\ issued[t] = 0 /\ done[t] = 0 /\ Len(window[t]) = 0
                            /\ Len(got[t]) = 0 /\ DOMAIN got[t] = {}
      /\ \A c \in Channels : Len(ring[c]) = 0 /\ get[c] = 0
      /\ \A s \in Slot : ~busy[s]
  BY DEF Init
<1>5. LoopsOK
  BY <1>4 DEF LoopsOK, Loops
<1>6. ChunksOK
  BY <1>4 DEF ChunksOK, Numbered, Releases
<1>7. WindowOK
  BY <1>4 DEF WindowOK
<1>8. HoldersOK
  <2>1. \A t \in Threads : \A s : ~Has(t, s) /\ ~InSlot(t)
    BY <1>4 DEF Has, InSlot, InWindow
  <2> QED BY <1>4, <2>1 DEF HoldersOK
<1>9. FlightOK
  BY <1>4 DEF FlightOK
<1>10. DataOK
  BY <1>4 DEF DataOK, SourceOK, Bytes
<1>11. DeliversOwnChunks
  BY <1>4 DEF DeliversOwnChunks
<1> QED BY <1>3, <1>5, <1>6, <1>7, <1>8, <1>9, <1>10, <1>11 DEF PoolInv

LEMMA StutterInv == ASSUME PoolInv, UNCHANGED vars PROVE PoolInv'
<1>1. /\ UNCHANGED <<mutex, busy, fence, nextSlot, data, ring, get, sticky, pc, job, issued,
                     done, slot, prev, window, got, jobs>>
  BY DEF vars, poolVars, deviceVars, loopVars
<1>2. TypeOK'
  BY <1>1 DEF PoolInv, TypeOK
<1>3. LoopsOK' /\ ChunksOK' /\ WindowOK'
  BY <1>1, ZenonT(60) DEF PoolInv, LoopsOK, Loops, ChunksOK, Numbered, Releases, IsChunk, WindowOK, ChannelOf,
              WindowDepth
<1>4. HoldersOK' /\ FlightOK'
  BY <1>1 DEF PoolInv, HoldersOK, Has, InSlot, InWindow, FlightOK, Guarded, Meets, Behind, IsChunk,
              ChannelOf
<1>5. DataOK' /\ DeliversOwnChunks'
  BY <1>1 DEF PoolInv, DataOK, SourceOK, Bytes, Chunk, ChannelOf, DeliversOwnChunks
<1> QED BY <1>2, <1>3, <1>4, <1>5 DEF PoolInv

LEMMA NextInv == ASSUME PoolInv, [Next]_vars PROVE PoolInv'
<1>1. CASE UNCHANGED vars
  BY <1>1, StutterInv
<1>2. CASE \E c \in Channels : Execute(c)
  BY <1>2, ExecuteInv
<1>3. ASSUME NEW t \in Threads, NEW c \in Channels, NEW op \in {"h2d", "d2h"},
             NEW n \in 0 .. MaxChunks, Submit(t, c, op, n)
      PROVE  PoolInv'
  <2>1. op \in Ops /\ n \in Nat
    BY PoolAssumption DEF Ops
  <2> QED BY <1>3, <2>1, SubmitInv
<1>4. ASSUME NEW t \in Threads, Copy(t) PROVE PoolInv'
  <2>1. CASE WaitPrev(t)
    BY <2>1, WaitPrevInv, WaitPrevErrorInv
  <2>2. CASE WaitDma(t)
    BY <2>2, WaitDmaInv, WaitDmaErrorInv
  <2> QED BY <1>4, <2>1, <2>2, LockInv, AcquireInv, FillInv, EnqueueInv, ReleaseInInv, EmptyInv,
             ReleaseOutInv, ReturnInv DEF Copy
<1> QED BY <1>1, <1>2, <1>3, <1>4 DEF Next

\* The pool's invariant holds in every state.
THEOREM PoolInvariant == Spec => []PoolInv
<1>1. PoolInv /\ [Next]_vars => PoolInv'
  BY NextInv
<1> QED BY <1>1, InitInv, PTL DEF Spec

\* Whatever the order in which copies take, fill, empty and give back slots,
\* and whatever commands fail, an H2D command reads the bytes of its own chunk
\* until it retires, no two commands in flight use one slot, and a D2H copy
\* delivers its own chunks in order (the H2D and D2H loops of do_submit).
THEOREM CopiesStayIntact == Spec => []CopiesIntact
<1>1. PoolInv => CopiesIntact
  <2> SUFFICES ASSUME PoolInv PROVE SourceIntact /\ DeliversOwnChunks
    BY DEF CopiesIntact
  <2>1. ASSUME NEW x \in InFlight
        PROVE  \E c \in Channels : \E i \in get[c] + 1 .. Len(ring[c]) : x = <<c, i>>
    BY DEF InFlight
  <2>2. ASSUME NEW x \in InFlight, Cmd(x).op = "h2d" PROVE data[Cmd(x).slot] = Cmd(x).chunk
    <3>0. PICK c \in Channels : \E i \in get[c] + 1 .. Len(ring[c]) : x = <<c, i>>
      BY <2>1
    <3>1. PICK i \in get[c] + 1 .. Len(ring[c]) : x = <<c, i>>
      BY <3>0
    <3>2. Cmd(x) = ring[c][i]
      BY <3>1 DEF Cmd
    <3> QED BY <2>2, <3>2 DEF PoolInv, DataOK, SourceOK
  <2>3. ASSUME NEW x \in InFlight, NEW y \in InFlight, Cmd(x).slot = Cmd(y).slot PROVE x = y
    <3>0. PICK c \in Channels, d \in Channels :
            /\ \E i \in get[c] + 1 .. Len(ring[c]) : x = <<c, i>>
            /\ \E j \in get[d] + 1 .. Len(ring[d]) : y = <<d, j>>
      BY <2>1
    <3>1. PICK i \in get[c] + 1 .. Len(ring[c]) : x = <<c, i>>
      BY <3>0
    <3>2. PICK j \in get[d] + 1 .. Len(ring[d]) : y = <<d, j>>
      BY <3>0
    <3>3. ring[c][i].slot = ring[d][j].slot
      BY <2>3, <3>1, <3>2 DEF Cmd
    <3> QED BY <3>1, <3>2, <3>3 DEF PoolInv, FlightOK
  <2> QED BY <2>2, <2>3 DEF SourceIntact, PoolInv
<1> QED BY <1>1, PoolInvariant, PTL

\* Two concurrent pageable copies are never handed the same slot (ADR 005),
\* what a copy holds is marked busy, and, while no command has failed, what is
\* busy is held by a copy that will give it back (acquire_slot, release_slot).
THEOREM NoSlotShared == Spec => []SlotsAccounted
<1>1. PoolInv => SlotsAccounted
  <2> SUFFICES ASSUME PoolInv PROVE SlotsAccounted
    OBVIOUS
  <2>1. \A t \in Threads : \A s : s \in Holds(t) <=> Has(t, s) /\ s \in Slot
    BY HoldsIsHas, HasIsSlot DEF PoolInv
  <2>2. HoldersDisjoint
    BY <2>1 DEF PoolInv, HoldersOK, HoldersDisjoint
  <2>3. ~sticky => NoSlotLeak
    BY <2>1 DEF PoolInv, HoldersOK, NoSlotLeak
  <2> QED BY <2>2, <2>3 DEF SlotsAccounted
<1> QED BY <1>1, PoolInvariant, PTL

\* The windows of the copies that wait, each one slot short of full, cover a
\* pool that they hold.
LEMMA WindowsCover ==
  ASSUME PoolInv, HeldByWaiters
  PROVE  Slots <= Cardinality(Waiters) * (WindowDepth - 1)
<1> DEFINE D == 1 .. WindowDepth - 1
           P == Waiters \X D
           At(t, k) == IF k <= Len(window[t]) THEN window[t][k].slot ELSE 0
           f == [x \in P |-> At(x[1], x[2])]
<1>0. TypeOK /\ WindowDepth \in Nat /\ WindowDepth >= 1 /\ 0 \in Slot
  BY DepthPositive, PoolAssumption DEF PoolInv, Slot
<1>w. Waiters \subseteq Threads /\ IsFiniteSet(Waiters)
  <2>1. Waiters \subseteq Threads
    BY DEF Waiters
  <2> QED BY <2>1, FS_Subset, PoolAssumption
<1>1. ASSUME NEW t \in Waiters, NEW k \in D PROVE At(t, k) \in Slot
  <2>1. CASE k <= Len(window[t])
    <3>1. window[t] \in Seq(EntryType) /\ k \in 1 .. Len(window[t])
      BY <1>0, <1>w, <2>1 DEF TypeOK
    <3>2. window[t][k] \in EntryType
      BY <3>1
    <3> QED BY <2>1, <3>2 DEF EntryType
  <2>2. CASE ~(k <= Len(window[t]))
    BY <1>0, <2>2
  <2> QED BY <2>1, <2>2
<1>2. ASSUME NEW s \in Slot PROVE \E t \in Waiters : \E k \in D : At(t, k) = s
  <2>1. PICK t \in Waiters : t \in Threads /\ s \in Holds(t) /\ pc[t] = "acquire"
    BY DEF HeldByWaiters, Waiters
  <2>2. Has(t, s)
    BY <1>0, <2>1, HoldsIsHas
  <2>3. PICK k \in 1 .. Len(window[t]) : window[t][k].slot = s
    BY <2>1, <2>2 DEF Has, InSlot, InWindow
  <2>4. Len(window[t]) < WindowDepth /\ Len(window[t]) \in Nat
    BY <1>0, <2>1 DEF PoolInv, LoopsOK, Loops, TypeOK
  <2>5. k \in D /\ k <= Len(window[t])
    BY <1>0, <2>3, <2>4
  <2> QED BY <2>3, <2>5
<1> HIDE DEF At, D
<1>3. f \in Surjection(P, Slot)
  <2>1. f \in [P -> Slot]
    BY <1>1
  <2>2. ASSUME NEW s \in Slot PROVE \E x \in P : f[x] = s
    <3>1. PICK t \in Waiters, k \in D : At(t, k) = s
      BY <1>2
    <3>2. <<t, k>> \in P /\ f[<<t, k>>] = At(t, k)
      OBVIOUS
    <3> QED BY <3>1, <3>2
  <2> QED BY <2>1, <2>2 DEF Surjection
<1>4. IsFiniteSet(D) /\ Cardinality(D) = WindowDepth - 1
  BY <1>0, FS_Interval DEF D
<1>5. IsFiniteSet(P) /\ Cardinality(P) = Cardinality(Waiters) * (WindowDepth - 1)
  BY <1>w, <1>4, FS_Product
<1>6. Cardinality(Slot) <= Cardinality(P)
  BY <1>3, <1>5, FS_Surjection
<1>7. Cardinality(Slot) = Slots
  BY FS_Interval, PoolAssumption DEF Slot
<1> QED BY <1>5, <1>6, <1>7

\* The window of a D2H copy is half the pool at most (do_submit), so however
\* many copies there are, those that spin for a slot hold all of the pool
\* only if there are enough of them: n copies with n * (Slots / 2 - 1) >=
\* Slots, which two never are.
THEOREM ExhaustionTakesMany == Spec => []ExhaustedOnlyByMany
<1>1. PoolInv => ExhaustedOnlyByMany
  <2> SUFFICES ASSUME PoolInv, HeldByWaiters
               PROVE  Cardinality(Waiters) * (Slots \div 2 - 1) >= Slots
    BY DEF ExhaustedOnlyByMany
  <2>1. Slots <= Cardinality(Waiters) * (WindowDepth - 1)
    BY WindowsCover
  <2>2. Cardinality(Waiters) \in Nat
    <3>1. Waiters \subseteq Threads
      BY DEF Waiters
    <3> QED BY <3>1, FS_Subset, FS_CardinalityType, PoolAssumption
  <2>3. PICK h \in Nat, n \in Nat : h = Slots \div 2 /\ n = Cardinality(Waiters)
    BY <2>2, PoolAssumption
  <2>4. WindowDepth = IF h > 1 THEN h ELSE 1
    BY <2>3 DEF WindowDepth, Max1
  <2>5. h > 1
    BY <2>1, <2>2, <2>4, PoolAssumption
  <2>6. WindowDepth = h
    BY <2>4, <2>5
  <2> QED BY <2>1, <2>3, <2>6, PoolAssumption
<1> QED BY <1>1, PoolInvariant, PTL
=============================================================================

----------------------------- MODULE DeviceMemory -----------------------------
(***************************************************************************)
(* Allocation and deferred release of device memory (driver.cpp): the      *)
(* ALLOC, ALLOC_MANAGED and FREE calls under alloc_lock, the pending list  *)
(* that FREE feeds and every later call reclaims from, the frames that the *)
(* UVM thread takes and gives back under mem_lock, and the commands in     *)
(* flight that may still touch what was freed.  The UVM thread migrates    *)
(* pages for commands that fault and prefetches behind them; the           *)
(* host-fault thread evicts the pages that the host touches.               *)
(*                                                                         *)
(* Addresses are pages: 0 .. VramPages-1 is VRAM and the sgMalloc range    *)
(* (VA = PA), VramPages .. VaPages-1 the managed range.  Whatever runs     *)
(* under one hold of mem_lock is one step, except that a prefetch window   *)
(* is one step per page.  The steps of a migration that engines can        *)
(* observe, and the order in which pages are evicted, are in               *)
(* ManagedMemory; how a failed migration reaches its command, in           *)
(* CommandRing.                                                            *)
(***************************************************************************)
EXTENDS FreeList, FiniteSets, FiniteSetsExt, Sequences

CONSTANTS Threads,   \* application threads
          Channels,
          VramPages, VaPages,
          Uffd,      \* whether userfaultfd is in use (SG_UFFD)
          MaxPages,  \* bound: pages of one allocation
          MaxAllocs, \* bound: allocations in a behaviour
          MaxCmds,   \* bound: commands in a behaviour
          MaxMoves   \* bound: prefetched pages and host faults in a behaviour

NoOne == "no one"

ASSUME MemoryAssumption ==
  /\ VramPages \in Nat \ {0} /\ VaPages \in Nat /\ VaPages > VramPages
  /\ MaxPages \in Nat /\ MaxAllocs \in Nat /\ MaxCmds \in Nat
  /\ Uffd \in BOOLEAN /\ MaxMoves \in Nat
  /\ NoOne \notin Threads

VARIABLES
  vram, managedVa,  \* the two heaps
  allocs,    \* live allocations [addr, pages, managed, id]
  pending,   \* freed allocations not yet recycled, each with its fence
  pte,       \* per page: the id of the allocation mapped there, 0 if none
  resident,  \* managed pages in VRAM: [va, frame]
  allocLock, \* holder of alloc_lock, exclusive
  ring, get, \* per channel: commands [va, id] published; how many retired
  sticky,    \* some channel's sticky_error is set
  pc, want,  \* per thread: position, and the request [pages, managed] or
             \* the command [va, id] in hand
  snap,      \* per thread: the PUT snapshot it drains to
  ids,       \* allocations made so far
  ahead,     \* the page that the UVM thread prefetches next, 0 if none
  moves      \* prefetched pages and host faults so far

heapVars == <<vram, managedVa, pte, resident>>
deviceVars == <<ring, get, sticky>>
threadVars == <<pc, want, snap>>
pagerVars == <<ahead, moves>>
vars == <<heapVars, allocs, pending, allocLock, deviceVars, threadVars, ids,
          pagerVars>>

NoSnap == [c \in Channels |-> 0]

Init ==
  /\ vram = EmptyHeap(0, VramPages)
  /\ managedVa = EmptyHeap(VramPages, VaPages - VramPages)
  /\ allocs = {} /\ pending = {}
  /\ pte = [va \in 0 .. VaPages - 1 |-> 0]
  /\ resident = {}
  /\ allocLock = NoOne
  /\ ring = [c \in Channels |-> <<>>] /\ get = NoSnap /\ sticky = FALSE
  /\ pc = [t \in Threads |-> "idle"]
  /\ want = [t \in Threads |-> <<>>]
  /\ snap = [t \in Threads |-> NoSnap]
  /\ ids = 0 /\ ahead = 0 /\ moves = 0

Pages(a) == a.addr .. a.addr + a.pages - 1

\* snapshot_puts and all_retired.
PutSnapshot == [c \in Channels |-> Len(ring[c])]
AllRetired(f) == \A c \in Channels : get[c] >= f[c]

----------------------------------------------------------------------------
(* Recycling.  A memory state is [vram, managedVa, pte, resident].         *)

Memory == [vram |-> vram, managedVa |-> managedVa, pte |-> pte,
           resident |-> resident]
Becomes(m) == /\ vram' = m.vram /\ managedVa' = m.managedVa
              /\ pte' = m.pte /\ resident' = m.resident

ResidentOf(m, a) == {r \in m.resident : r.va \in Pages(a)}

FreeFrames(h, rs) ==
  FoldSet(LAMBDA r, acc : Free(acc, r.frame), h, rs)

\* Mutant: the mapping stays.
RecycleMapped(a, m) ==
  [vram |-> IF a.managed THEN FreeFrames(m.vram, ResidentOf(m, a))
                         ELSE Free(m.vram, a.addr),
   managedVa |-> IF a.managed THEN Free(m.managedVa, a.addr)
                              ELSE m.managedVa,
   pte |-> m.pte,
   resident |-> m.resident \ ResidentOf(m, a)]

\* recycle: unmap, then return the frames and the addresses.
Recycle(a, m) ==
  [vram |-> IF a.managed THEN FreeFrames(m.vram, ResidentOf(m, a))
                         ELSE Free(m.vram, a.addr),
   managedVa |-> IF a.managed THEN Free(m.managedVa, a.addr)
                              ELSE m.managedVa,
   pte |-> [va \in DOMAIN m.pte |-> IF va \in Pages(a) THEN 0 ELSE m.pte[va]],
   resident |-> m.resident \ ResidentOf(m, a)]

\* Mutant: recycle without asking whether the commands have retired.
AllPending == pending

Retirable == {p \in pending : AllRetired(p.fence)}

Reclaimed == FoldSet(LAMBDA p, m : Recycle(p.alloc, m), Memory, Retirable)

\* reclaim_locked
Reclaim == Becomes(Reclaimed) /\ pending' = pending \ Retirable

----------------------------------------------------------------------------
(* ALLOC and ALLOC_MANAGED                                                 *)

Goto(t, from, to) == pc[t] = from /\ pc' = [pc EXCEPT ![t] = to]

\* The call ends: its locals are gone, and alloc_lock if it had it.
Done(t) == /\ pc' = [pc EXCEPT ![t] = "idle"]
           /\ want' = [want EXCEPT ![t] = <<>>]
           /\ snap' = [snap EXCEPT ![t] = NoSnap]
           /\ allocLock' = IF allocLock = t THEN NoOne ELSE allocLock

AllocBegin(t, n, managed) ==
  /\ Goto(t, "idle", "take")
  /\ allocLock = NoOne /\ allocLock' = t
  /\ ids < MaxAllocs
  /\ want' = [want EXCEPT ![t] = [pages |-> n, managed |-> managed]]
  /\ Reclaim
  /\ UNCHANGED <<allocs, deviceVars, snap, ids, pagerVars>>

\* What the next attempt is after one that found no room.
AfterFailure(t) ==
  CASE pc[t] = "take" -> "drain"
    [] pc[t] = "take again" -> IF want[t].managed THEN "refused" ELSE "evict"
    [] OTHER -> "refused"

\* Take the pages or addresses, map them and record the allocation.
Grant(t, b) ==
  LET a == [addr |-> b.start, pages |-> want[t].pages,
            managed |-> want[t].managed, id |-> ids + 1] IN
  /\ allocs' = allocs \cup {a}
  /\ pte' = [va \in DOMAIN pte |-> IF va \in Pages(a) THEN a.id ELSE pte[va]]
  /\ ids' = ids + 1
  /\ Done(t)

\* A later step of the call fails (map_vram, mmap, uffd_register,
\* posix_memalign, map_host): what was taken goes back.
RollBack(t) == Done(t) /\ UNCHANGED <<allocs, pte, ids>>

\* The heap that the request is served from.
HeapFor(t) == IF want[t].managed THEN managedVa ELSE vram
HeapBecomes(t, h) == IF want[t].managed
                     THEN managedVa' = h /\ UNCHANGED vram
                     ELSE vram' = h /\ UNCHANGED managedVa

Take(t) ==
  LET n == want[t].pages
      h == HeapFor(t)
      fit == FirstFit(h, n) IN
  /\ pc[t] \in {"take", "take again", "take last"}
  /\ \/ /\ fit = {}
        /\ pc' = [pc EXCEPT ![t] = AfterFailure(t)]
        /\ snap' = [snap EXCEPT ![t] = PutSnapshot]
        /\ UNCHANGED <<vram, managedVa, allocs, pte, ids, allocLock, want>>
     \/ \E b \in fit : Grant(t, b) /\ HeapBecomes(t, Carve(h, b, n))
     \/ \E b \in fit :
          RollBack(t) /\ HeapBecomes(t, Free(Carve(h, b, n), b.start))
  /\ UNCHANGED <<resident, pending, deviceVars, pagerVars>>

\* Mutant: nothing is reclaimed after the drain.
DrainedOnly(t) ==
  /\ AllRetired(snap[t])
  /\ Goto(t, "drain", "take again")
  /\ UNCHANGED <<heapVars, pending, allocLock, allocs, deviceVars, want, snap,
                 ids, pagerVars>>

\* drain, holding alloc_lock; then reclaim and try again.
Drained(t) ==
  /\ pc[t] = "drain" /\ AllRetired(snap[t])
  /\ IF sticky
     THEN Done(t) /\ UNCHANGED <<heapVars, pending>>
     ELSE /\ pc' = [pc EXCEPT ![t] = "take again"]
          /\ Reclaim
          /\ UNCHANGED <<allocLock, want, snap>>
  /\ UNCHANGED <<allocs, deviceVars, ids, pagerVars>>

\* evict_all_locked: managed pages give way, until writing one back fails,
\* as UFFDIO_COPY can.
EvictAll(t) ==
  /\ Goto(t, "evict", "take last")
  /\ \E kept \in IF Uffd THEN SUBSET resident ELSE {{}} :
       /\ vram' = FreeFrames(vram, resident \ kept)
       /\ resident' = kept
  /\ UNCHANGED <<managedVa, pte, allocs, pending, allocLock, deviceVars,
                 want, snap, ids, pagerVars>>

\* -ENOMEM
Refuse(t) ==
  /\ pc[t] = "refused"
  /\ Done(t)
  /\ UNCHANGED <<heapVars, allocs, pending, deviceVars, ids, pagerVars>>

----------------------------------------------------------------------------
(* FREE and SUBMIT                                                         *)

\* A submit has checked that it owns its buffer and has not returned.
Submitting(a) == \E t \in Threads : pc[t] = "enqueue" /\ want[t].id = a.id

\* FREE: recycle at once if everything issued has retired, else later.  The
\* application frees a buffer after its own submits on it have returned.
FreeAlloc(t, a) ==
  /\ pc[t] = "idle" /\ allocLock = NoOne
  /\ ~Submitting(a)
  /\ allocs' = allocs \ {a}
  /\ IF AllRetired(PutSnapshot)
     THEN Becomes(Recycle(a, Reclaimed)) /\ pending' = pending \ Retirable
     ELSE /\ Becomes(Reclaimed)
          /\ pending' = (pending \ Retirable)
                          \cup {[alloc |-> a, fence |-> PutSnapshot]}
  /\ UNCHANGED <<allocLock, deviceVars, threadVars, ids, pagerVars>>

Issued == MapThenSumSet(LAMBDA c : Len(ring[c]), Channels)
            + Cardinality({t \in Threads : pc[t] = "enqueue"})

\* do_submit: owns() under the shared lock, then, unlocked, enqueue.
Owns(t, a, va) ==
  /\ Goto(t, "idle", "enqueue")
  /\ allocLock = NoOne /\ ~sticky /\ Issued < MaxCmds
  /\ va \in Pages(a)
  /\ want' = [want EXCEPT ![t] = [va |-> va, id |-> a.id]]
  /\ UNCHANGED <<heapVars, allocs, pending, allocLock, deviceVars, snap, ids,
                 pagerVars>>

Enqueue(t, c) ==
  /\ pc[t] = "enqueue"
  /\ ring' = [ring EXCEPT ![c] = Append(@, want[t])]
  /\ Done(t)
  /\ UNCHANGED <<heapVars, allocs, pending, get, sticky, ids, pagerVars>>

----------------------------------------------------------------------------
(* Engines and the UVM thread                                              *)

Busy(c) == get[c] < Len(ring[c])
HeadCmd(c) == ring[c][get[c] + 1]
Managed(va) == va >= VramPages
InVram(va) == ~Managed(va) \/ \E r \in resident : r.va = va

\* The head command runs on pages that are in VRAM; on an unmapped page it
\* fails.
Execute(c) ==
  /\ Busy(c)
  /\ LET va == HeadCmd(c).va IN
       /\ pte[va] = 0 \/ InVram(va)
       /\ sticky' = (sticky \/ pte[va] = 0)
  /\ get' = [get EXCEPT ![c] = @ + 1]
  /\ UNCHANGED <<heapVars, allocs, pending, allocLock, ring, threadVars, ids,
                 pagerVars>>

\* The frames that migrate_locked can get: a free one or, if there is none,
\* that of a page it evicts.  Each with the heap and the pages left.
Frames ==
  IF FirstFit(vram, 1) # {}
  THEN {[frame |-> b.start, vram |-> Carve(vram, b, 1), kept |-> resident] :
          b \in FirstFit(vram, 1)}
  ELSE {[frame |-> r.frame, vram |-> vram, kept |-> resident \ {r}] :
          r \in resident}

MoveIn(va) == \E f \in Frames :
                /\ vram' = f.vram
                /\ resident' = f.kept \cup {[va |-> va, frame |-> f.frame]}

\* migrate_locked fails: no page to evict, or one that cannot be written
\* back; or copy_in or make_resident fails, and the frame is freed.
MoveFails ==
  \/ /\ FirstFit(vram, 1) = {} /\ (Uffd \/ resident = {})
     /\ UNCHANGED <<vram, resident>>
  \/ \E f \in Frames : vram' = Free(f.vram, f.frame) /\ resident' = f.kept

Migratable(va) == Managed(va) /\ pte[va] # 0 /\ ~InVram(va)

\* Mutant: the UVM thread needs alloc_lock.
MigrateUnderAllocLock(c) ==
  /\ allocLock = NoOne
  /\ ahead = 0 /\ Busy(c) /\ Migratable(HeadCmd(c).va)
  /\ MoveIn(HeadCmd(c).va)
  /\ UNCHANGED <<managedVa, pte, allocs, pending, allocLock, deviceVars,
                 threadVars, ids, pagerVars>>

\* service_faults for the page that c's head command faulted on.  The
\* command fails if the page cannot be moved in; once it is in, the pages
\* that follow may be prefetched.
Migrate(c) == LET va == HeadCmd(c).va IN
  /\ ahead = 0
  /\ Busy(c) /\ Migratable(va)
  /\ \/ /\ MoveIn(va)
        /\ ahead' \in {0, va + 1}
        /\ UNCHANGED <<get, sticky>>
     \/ /\ MoveFails
        /\ sticky' = TRUE
        /\ get' = [get EXCEPT ![c] = @ + 1]
        /\ UNCHANGED ahead
  /\ UNCHANGED <<managedVa, pte, allocs, pending, allocLock, ring, threadVars,
                 ids, moves>>

\* The next page of the same allocation.
NextPage(va) == {w \in {va + 1} : w \in DOMAIN pte /\ pte[w] = pte[va]}

\* prefetch_locked: page by page to the end of an allocation, past those
\* that are there, until one cannot be moved in or the budget is spent.
Prefetch ==
  /\ ahead # 0
  /\ \/ /\ ahead \in DOMAIN pte /\ Migratable(ahead) /\ moves < MaxMoves
        /\ moves' = moves + 1
        /\ \/ MoveIn(ahead) /\ ahead' \in {0} \cup NextPage(ahead)
           \/ MoveFails /\ ahead' = 0
     \/ /\ ahead' \in {0} \cup {w \in NextPage(ahead) : InVram(ahead)}
        /\ UNCHANGED <<vram, resident, moves>>
  /\ UNCHANGED <<managedVa, pte, allocs, pending, allocLock, deviceVars,
                 threadVars, ids>>

\* service_host_faults: the host touches page r.va, which is in VRAM.  (If
\* it cannot be written back it stays there, and the toucher tries again.)
HostFault(r) ==
  /\ Uffd /\ moves < MaxMoves /\ moves' = moves + 1
  /\ vram' = Free(vram, r.frame)
  /\ resident' = resident \ {r}
  /\ UNCHANGED <<managedVa, pte, allocs, pending, allocLock, deviceVars,
                 threadVars, ids, ahead>>

----------------------------------------------------------------------------

Alloc(t) == Take(t) \/ Drained(t) \/ EvictAll(t) \/ Refuse(t)

Next ==
  \/ \E t \in Threads :
       \/ \E n \in 1 .. MaxPages, m \in BOOLEAN : AllocBegin(t, n, m)
       \/ Alloc(t)
       \/ \E a \in allocs : \/ FreeAlloc(t, a)
                            \/ \E va \in Pages(a) : Owns(t, a, va)
       \/ \E c \in Channels : Enqueue(t, c)
  \/ \E c \in Channels : Execute(c) \/ Migrate(c)
  \/ Prefetch
  \/ \E r \in resident : HostFault(r)

Spec == Init /\ [][Next]_vars

\* Calls, engines and the UVM thread keep running.
FairSpec == /\ Spec
            /\ \A t \in Threads : WF_vars(Alloc(t))
            /\ \A c \in Channels : WF_vars(Execute(c)) /\ WF_vars(Migrate(c))
            /\ WF_vars(Prefetch)

----------------------------------------------------------------------------
(* Properties                                                              *)

Unrecycled == allocs \cup {p.alloc : p \in pending}

InFlight == UNION {{ring[c][i] : i \in get[c] + 1 .. Len(ring[c])} :
                     c \in Channels}

\* "sgFree is safe while work referencing the memory is in flight": a
\* command that has not retired finds its page mapped to the allocation it
\* was submitted for, never unmapped or mapped to another.
NoUseAfterRecycle == \A x \in InFlight : pte[x.va] = x.id

\* Every frame has one owner: the live blocks of the VRAM heap are the
\* sgMalloc allocations not yet recycled and one block per resident managed
\* page, and nothing else.
FramesAccounted ==
  /\ vram.live = {Block(a.addr, a.pages) :
                    a \in {x \in Unrecycled : ~x.managed}}
                 \cup {Block(r.frame, 1) : r \in resident}
  /\ \A r, s \in resident : (r.frame = s.frame \/ r.va = s.va) => r = s
  /\ \A r \in resident : \A a \in Unrecycled :
       r.frame \in Pages(a) => a.managed

\* A page is mapped exactly while its allocation is live or pending, so a
\* new mapping never meets an old one.
MappingsAccounted ==
  \A va \in DOMAIN pte :
    pte[va] # 0 <=> \E a \in Unrecycled : va \in Pages(a) /\ a.id = pte[va]

\* ALLOC, FREE, reclaim, eviction and migration, under two locks and with
\* frees deferred, keep both in step.
MemoryAccounted == FramesAccounted /\ MappingsAccounted

\* Frames first .. first + n - 1 are in no live sgMalloc allocation.
Clear(first, n) == \A a \in allocs : ~a.managed =>
                     Pages(a) \cap (first .. first + n - 1) = {}

\* VRAM that only managed pages, or allocations already freed, keep in use.
Room(n) == \E first \in 0 .. VramPages - n : Clear(first, n)

\* The same, leaving out the frames of pages resident now.
RoomBeside(n) == \E first \in 0 .. VramPages - n :
                   /\ Clear(first, n)
                   /\ \A r \in resident : r.frame \notin first .. first + n - 1

\* The step with which an sgMalloc gives up.
GivesUpFull ==
  \A t \in Threads :
    pc[t] # "refused" /\ pc'[t] = "refused" /\ ~want[t].managed =>
      ~RoomBeside(want[t].pages)

\* sgMalloc gives up only when live sgMalloc allocations and the managed
\* pages resident at its last attempt leave no run of n pages: whatever was
\* freed, before or during the call, has been drained, reclaimed and
\* coalesced by then.
RefusesOnlyWhenFull == [][GivesUpFull]_vars

\* "Then managed pages give way: they can live in host memory" (driver.cpp,
\* SG_IOC_ALLOC): sgMalloc gives up only when sgMalloc has taken the room.
\* It does not hold (DeviceMemory_gives_way): the eviction and
\* the last attempt are two holds of mem_lock, and the UVM thread may bring
\* pages in between them.
ManagedGivesWay ==
  \A t \in Threads :
    pc[t] = "refused" /\ ~want[t].managed => ~Room(want[t].pages)

\* The commands that come next want more managed pages at once than sgMalloc
\* has left frames for.
Crowded ==
  LET wanted == {HeadCmd(c).va : c \in {d \in Channels : Busy(d)}}
      taken == MapThenSumSet(LAMBDA a : a.pages, {a \in Unrecycled : ~a.managed}) IN
  Cardinality({va \in wanted : Managed(va)}) > VramPages - taken

\* An allocation call returns, although it may drain the device while it
\* holds alloc_lock: the threads that the drain depends on never need that
\* lock.  Not while two channels take one frame from each other, though,
\* each before the other's command has run; nothing but timing ends that.
AllocReturns == []<>(allocLock = NoOne \/ Crowded)
=============================================================================

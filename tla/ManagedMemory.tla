---------------------------- MODULE ManagedMemory ----------------------------
(***************************************************************************)
(* Managed pages in motion: engines translating through their TLBs         *)
(* (mmu.cpp, device.cpp) while the driver evicts and migrates the pages    *)
(* they use (driver.cpp) and, with userfaultfd, the host touches them.     *)
(*                                                                         *)
(* Translation takes no lock, so every load and store of a PTE, a tag, the *)
(* generation or an access sequence that the two sides exchange is a step  *)
(* of its own.  What the driver does runs under mem_lock, held for a whole *)
(* migration: `mig' is the state of the holder.                            *)
(*                                                                         *)
(* Contents are versions.  written[v] is how often page v was written, by  *)
(* a command or by the host; a copy of the page is good when it carries    *)
(* that number.  CLOCK is abstracted to the choice of any resident victim, *)
(* and the TLB's LRU to the choice of any entry.                           *)
(***************************************************************************)
EXTENDS Integers, FiniteSets, Sequences, FiniteSetsExt

CONSTANTS Engines,     \* one channel each is enough: it faults and retries
          NumPages,    \* pages of one managed allocation
          FrameCounts, \* how many VRAM frames sgMalloc may have left
          Commands,    \* the commands in use: [op, pages], see Runs
          HostPages,   \* the pages the host uses
          TlbEntries,  \* SG_TLB_ENTRIES
          PrefetchPages, \* prefetch_pages, 0 for none
          TouchAnyTime,  \* may the host touch a page while it is migrated
          RaceFree,    \* does the host leave the pages of a command alone
          MaxCmds,     \* bound: commands in a behaviour
          MaxTouches,  \* bound: host accesses
          MaxEvicts    \* bound: rounds of evict_all

Pages == 1 .. NumPages
None == "none"

\* A command: what it does, and a page for each operand, two for the run of
\* a FILL.
IsCommand(op, pages) ==
  /\ pages \in Seq(Pages)
  /\ <<op, Len(pages)>> \in {<<"fill", 2>>, <<"d2h", 1>>, <<"d2d", 2>>,
                             <<"compute", 3>>}

ASSUME ManagedAssumption ==
  /\ IsFiniteSet(Engines) /\ None \notin Engines
  /\ \A c \in Commands : IsCommand(c.op, c.pages)
  /\ NumPages \in Nat /\ HostPages \subseteq 1 .. NumPages
  /\ FrameCounts \subseteq Nat \ {0}
  /\ PrefetchPages \in Nat /\ TlbEntries \in Nat \ {0}
  /\ {TouchAnyTime, RaceFree} \subseteq BOOLEAN
  /\ MaxCmds \in Nat /\ MaxTouches \in Nat /\ MaxEvicts \in Nat

VARIABLES
  pte,      \* per page: [at, dirty], at a frame or Host
  tlb,      \* per engine and page: [at, dirty], at = Uncached if none
  stale,    \* engines for which tlb_gen_ moved since they sampled it
  access,   \* engines whose access_ sequence is odd, as others see it
  eng,      \* per engine: the command it works on, see Idle
  frame,    \* per frame: the page and version it holds
  host,     \* per page: the version in host memory, Missing if unpopulated
  written,  \* per page: how often it was written
  free,     \* free frames
  mig,      \* the holder of mem_lock and where it is, see Unlocked
  faults,   \* device faults queued for the UVM thread, [engine, page]
  uvm,      \* the UVM thread, see Popping
  expect,   \* per engine: the pages its fault streams expect next
  toucher,  \* a host thread: what it does, the page it accesses, and the
            \* fault message that the host-fault thread has read
  uffd,     \* is the userfaultfd open: sgManagedCoherent(), fixed at the start
  count     \* how many commands, host accesses and evict_all rounds there were

uvmVars == <<uvm, expect>>
mmuVars == <<pte, tlb, stale, access>>
dataVars == <<frame, host, written>>
envVars == <<free, faults, uvmVars, toucher, count, uffd>>
vars == <<mmuVars, dataVars, eng, mig, envVars>>

Frames == DOMAIN frame
Host == 0      \* frames are numbered from 1
Uncached == -1
NoEntry == [at |-> Uncached, dirty |-> FALSE]
Missing == -1

Idle == [pc |-> "idle", op |-> None, pages |-> <<>>, gather |-> FALSE,
         done |-> 0, got |-> <<>>, reg |-> NoEntry]

Unlocked == [pc |-> "unlocked", by |-> None, want |-> 0, victim |-> 0,
             at |-> Uncached, dirty |-> FALSE, shoot |-> 0, then |-> None,
             left |-> {}, odd |-> None]

Popping == [pc |-> "pop", engine |-> None, page |-> 0, moved |-> FALSE,
            failed |-> FALSE, budget |-> 0]

Init ==
  /\ pte = [v \in Pages |-> [at |-> Host, dirty |-> FALSE]]
  /\ tlb = [e \in Engines |-> [v \in Pages |-> NoEntry]]
  /\ stale = {} /\ access = {}
  /\ eng = [e \in Engines |-> Idle]
  /\ \E n \in FrameCounts : frame = [f \in 1 .. n |-> <<0, 0>>]
  /\ host = [v \in Pages |-> 0] /\ written = [v \in Pages |-> 0]
  /\ free = Frames
  /\ mig = Unlocked
  /\ faults = <<>>
  /\ uvm = Popping /\ expect = [e \in Engines |-> {}]
  /\ toucher = [state |-> "free", page |-> 0, msg |-> 0]
  /\ uffd \in BOOLEAN
  /\ count = [cmds |-> 0, touches |-> 0, evicts |-> 0]

----------------------------------------------------------------------------
(* Commands.  A command is a sequence of runs; a run is a sequence of page *)
(* accesses that are translated in order and then applied together.        *)

R(v) == [page |-> v, write |-> FALSE]
W(v) == [page |-> v, write |-> TRUE]

\* execute: FILL over two pages, COPY_D2D of one page, and VADD or GEMM on
\* three, directly or, after a fault, through scratch one run at a time.
Runs(op, p, gather) ==
  CASE op = "fill" -> << <<W(p[1])>>, <<W(p[2])>> >>
    [] op = "d2h"  -> << <<R(p[1])>> >>
    [] op = "d2d"  -> << <<W(p[1]), R(p[2])>> >>
    [] op = "compute" /\ ~gather -> << <<R(p[1]), R(p[2]), W(p[3])>> >>
    [] op = "compute" /\ gather -> << <<R(p[1])>>, <<R(p[2])>>, <<W(p[3])>> >>

Work(e) == Runs(eng[e].op, eng[e].pages, eng[e].gather)
Run(e) == Work(e)[eng[e].done + 1]
Cur(e) == Run(e)[Len(eng[e].got) + 1]
Uses(v) == \E e \in Engines, i \in 1 .. 3 :
             i \in DOMAIN eng[e].pages /\ eng[e].pages[i] = v
Translating(e) == /\ eng[e].pc = "translate"
                  /\ eng[e].done < Len(Work(e))
                  /\ Len(eng[e].got) < Len(Run(e))

EngineStep(e, new) == eng' = [eng EXCEPT ![e] = new]
At(e, l) == EngineStep(e, [eng[e] EXCEPT !.pc = l])
Got(e, f) == [eng[e] EXCEPT !.pc = "translate", !.reg = NoEntry,
                            !.got = Append(@, f)]

\* The engine takes a command from its channel.
Start(e) ==
  /\ eng[e].pc = "idle" /\ count.cmds < MaxCmds
  /\ \E c \in Commands :
       /\ RaceFree => \A i \in DOMAIN c.pages : c.pages[i] # toucher.page
       /\ EngineStep(e, [Idle EXCEPT !.pc = "enter", !.op = c.op,
                                     !.pages = c.pages])
  /\ count' = [count EXCEPT !.cmds = @ + 1]
  /\ UNCHANGED <<mmuVars, dataVars, free, mig, faults, uvmVars, toucher,
                 uffd>>

\* The access sequence becomes odd and a seq_cst fence makes it visible
\* before the first translation.
EnterBuffered(e) == \* mutant: no fence, the store is still in the buffer
  /\ eng[e].pc = "enter" /\ At(e, "translate")
  /\ UNCHANGED <<mmuVars, dataVars, mig, envVars>>
Enter(e) ==
  /\ eng[e].pc = "enter" /\ At(e, "translate")
  /\ access' = access \cup {e}
  /\ UNCHANGED <<pte, tlb, stale, dataVars, mig, envVars>>

\* Mutant: a driver that has seen the sequence odd is not told.
LeaveUnseen(e) == access' = access \ {e} /\ UNCHANGED mig

\* The sequence becomes even: a driver that waits for it to change goes on.
Leave(e) ==
  /\ access' = access \ {e}
  /\ mig' = IF mig.odd = e THEN [mig EXCEPT !.odd = None] ELSE mig

\* Mutant: a compute command is retried as it was.
NoScratch(c) == [c EXCEPT !.pc = "parked", !.got = <<>>, !.reg = NoEntry]

\* A page that is not in VRAM: the command stops where it is.  A compute
\* command goes through scratch from now on; the others keep their position.
Faulted(c) == [c EXCEPT !.pc = "parked", !.gather = (c.op = "compute"),
                        !.got = <<>>, !.reg = NoEntry]
PageFault(e) ==
  /\ EngineStep(e, Faulted(eng[e]))
  /\ Leave(e)
  /\ faults' = Append(faults, [engine |-> e, page |-> Cur(e).page])

----------------------------------------------------------------------------
(* Mmu::translate, walk and tlb_insert.                                    *)

Resident(v) == pte[v].at # Host
SetDirty(v, w) == pte' = [pte EXCEPT ![v].dirty = @ \/ w]

\* A tag matches.  The first write through an entry has to set DIRTY.
NeedsDirty(e) == Cur(e).write /\ ~tlb[e][Cur(e).page].dirty
TlbHit(e) ==
  LET entry == tlb[e][Cur(e).page] IN
  /\ Translating(e) /\ entry.at # Uncached
  /\ IF NeedsDirty(e)
     THEN EngineStep(e, [eng[e] EXCEPT !.pc = "dirty", !.reg = entry])
     ELSE EngineStep(e, Got(e, entry.at))
  /\ UNCHANGED <<mmuVars, dataVars, mig, envVars>>

\* fetch_or into the PTE, whatever it holds by now, and into the entry.
HitSetsDirty(e) ==
  /\ eng[e].pc = "dirty"
  /\ SetDirty(Cur(e).page, TRUE)
  /\ tlb' = [tlb EXCEPT ![e][Cur(e).page].dirty = TRUE]
  /\ EngineStep(e, Got(e, eng[e].reg.at))
  /\ UNCHANGED <<stale, access, dataVars, mig, envVars>>

\* The walk's first load.
Walk(e) ==
  /\ Translating(e) /\ tlb[e][Cur(e).page].at = Uncached
  /\ IF Resident(Cur(e).page)
     THEN /\ EngineStep(e, [eng[e] EXCEPT !.pc = "walk",
                                          !.reg = pte[Cur(e).page]])
          /\ UNCHANGED <<access, mig, faults>>
     ELSE PageFault(e)
  /\ UNCHANGED <<pte, tlb, stale, dataVars, free, uvmVars, toucher, count,
                 uffd>>

\* If ACCESSED or a needed DIRTY is clear, a fetch_or sets them and the walk
\* goes on with the PTE it returns.  ACCESSED is not modelled, so a walk that
\* needs no DIRTY may take either way.
WalkBits(e) ==
  LET v == Cur(e).page IN
  /\ eng[e].pc = "walk"
  /\ \/ /\ ~Cur(e).write \/ eng[e].reg.dirty
        /\ At(e, "sample")
        /\ UNCHANGED <<pte, access, mig, faults>>
     \/ /\ SetDirty(v, Cur(e).write)
        /\ IF Resident(v)
           THEN /\ EngineStep(e, [eng[e] EXCEPT !.pc = "sample",
                                                !.reg = pte'[v]])
                /\ UNCHANGED <<access, mig, faults>>
           ELSE PageFault(e)
  /\ UNCHANGED <<tlb, stale, dataVars, free, uvmVars, toucher, count, uffd>>

\* tlb_insert samples the generation and empties the slot it will fill.
Cached(e) == {v \in Pages : tlb[e][v].at # Uncached}
SampleGen(e) ==
  /\ eng[e].pc = "sample" /\ At(e, "check")
  /\ stale' = stale \ {e}
  /\ IF Cardinality(Cached(e)) < TlbEntries
     THEN UNCHANGED tlb
     ELSE \E v \in Cached(e) : tlb' = [tlb EXCEPT ![e][v].at = Uncached]
  /\ UNCHANGED <<pte, access, dataVars, mig, envVars>>

\* The two checks before the tag, a load each: drop the entry or go on.
CheckResident(e) ==
  /\ eng[e].pc = "check"
  /\ IF Resident(Cur(e).page) THEN At(e, "checkgen")
                              ELSE EngineStep(e, Got(e, eng[e].reg.at))
  /\ UNCHANGED <<mmuVars, dataVars, mig, envVars>>
CheckGen(e) ==
  /\ eng[e].pc = "checkgen"
  /\ IF e \notin stale THEN At(e, "tag")
                       ELSE EngineStep(e, Got(e, eng[e].reg.at))
  /\ UNCHANGED <<mmuVars, dataVars, mig, envVars>>

StoreTag(e) ==
  /\ eng[e].pc = "tag" /\ At(e, "recheck")
  /\ tlb' = [tlb EXCEPT ![e][Cur(e).page] = eng[e].reg]
  /\ UNCHANGED <<pte, stale, access, dataVars, mig, envVars>>

\* The re-read of the generation after the tag.
NoRecheck(e) == \* mutant
  /\ eng[e].pc = "recheck" /\ EngineStep(e, Got(e, eng[e].reg.at))
  /\ UNCHANGED <<mmuVars, dataVars, mig, envVars>>
RecheckGen(e) ==
  /\ eng[e].pc = "recheck" /\ EngineStep(e, Got(e, eng[e].reg.at))
  /\ tlb' = IF e \in stale
            THEN [tlb EXCEPT ![e][Cur(e).page].at = Uncached] ELSE tlb
  /\ UNCHANGED <<pte, stale, access, dataVars, mig, envVars>>

\* The run's bytes are moved: each page written has a new version.
Apply(e) ==
  LET n == Len(eng[e].got)
      Hits(f) == {i \in 1 .. n : eng[e].got[i] = f /\ Run(e)[i].write}
      Next1(f) == LET v == Run(e)[CHOOSE i \in Hits(f) : TRUE].page
                  IN  <<v, written[v] + 1>>
  IN
  /\ eng[e].pc = "translate" /\ eng[e].done < Len(Work(e))
  /\ n = Len(Run(e))
  /\ frame' = [f \in Frames |-> IF Hits(f) = {} THEN frame[f] ELSE Next1(f)]
  /\ written' = [v \in Pages |->
                   written[v] + (IF \E i \in 1 .. n : Run(e)[i] = W(v)
                                 THEN 1 ELSE 0)]
  /\ EngineStep(e, [eng[e] EXCEPT !.done = @ + 1, !.got = <<>>])
  /\ UNCHANGED <<mmuVars, host, mig, envVars>>

\* All runs are applied: the command retires.
Finish(e) ==
  /\ eng[e].pc = "translate" /\ eng[e].done = Len(Work(e))
  /\ EngineStep(e, Idle)
  /\ Leave(e)
  /\ UNCHANGED <<pte, tlb, stale, dataVars, envVars>>

----------------------------------------------------------------------------
(* The driver, under mem_lock.                                             *)

appVars == <<eng, toucher, count, uffd>>

\* migrate_locked's start, on behalf of `by': the lowest free frame (first
\* fit), or a victim's.
StartMigration(by, v) ==
  \/ \E f \in free :
       /\ \A g \in free : f <= g
       /\ free' = free \ {f}
       /\ mig' = [Unlocked EXCEPT !.pc = "copyin", !.by = by, !.want = v,
                                  !.at = f]
  \/ /\ free = {}
     /\ \E u \in Pages :
          /\ Resident(u)
          /\ mig' = [Unlocked EXCEPT !.pc = "exchange", !.by = by,
                                     !.want = v, !.victim = u]
     /\ UNCHANGED free

\* The UVM thread pops a device fault and takes mem_lock for it.  When two
\* engines faulted on the same page, the second fault finds it resident.
PopFault ==
  /\ uvm.pc = "pop" /\ faults # <<>>
  /\ faults' = Tail(faults)
  /\ uvm' = [Popping EXCEPT !.pc = "lock", !.engine = Head(faults).engine,
                            !.page = Head(faults).page]
  /\ UNCHANGED <<mmuVars, dataVars, free, mig, appVars, expect>>
ServeFault ==
  /\ uvm.pc = "lock" /\ mig.pc = "unlocked"
  /\ IF Resident(uvm.page)
     THEN /\ uvm' = [uvm EXCEPT !.pc = "unpark"]
          /\ UNCHANGED <<mig, free>>
     ELSE /\ StartMigration("uvm", uvm.page)
          /\ uvm' = [uvm EXCEPT !.pc = "migrate"]
  /\ UNCHANGED <<mmuVars, dataVars, faults, appVars, expect>>

\* fault_fail if the migration failed, and unpark: the command is retired
\* with an error, or tried again from where it stopped.  A page that was
\* moved belongs to one of the channel's fault streams (match_stream); if
\* the stream expected it, a window behind it is prefetched.
Sequential == uvm.page \in expect[uvm.engine]
Expect(v) == expect' = [expect EXCEPT ![uvm.engine] =
                          (@ \ {uvm.page}) \cup v]
Budget ==
  LET capacity == Cardinality(free) + Cardinality({v \in Pages : Resident(v)})
  IN  Max({0, Min({PrefetchPages, capacity \div 2 - 1})})
Unpark ==
  LET e == uvm.engine IN
  /\ uvm.pc = "unpark"
  /\ EngineStep(e, IF uvm.failed THEN Idle
                   ELSE [eng[e] EXCEPT !.pc = "enter"])
  /\ IF uvm.moved /\ Sequential /\ PrefetchPages > 0
     THEN /\ uvm' = [uvm EXCEPT !.pc = "prefetch", !.page = @ + 1]
          /\ Expect({})
     ELSE /\ uvm' = Popping
          /\ Expect(IF uvm.moved THEN {uvm.page + 1}
                    ELSE expect[e] \cap {uvm.page})
  /\ UNCHANGED <<mmuVars, dataVars, free, mig, faults, toucher, count, uffd>>

\* prefetch_locked: pages behind the one just served, which no command has
\* asked for, under one hold of mem_lock.
PrefetchLock ==
  /\ uvm.pc = "prefetch" /\ mig.pc = "unlocked"
  /\ mig' = [Unlocked EXCEPT !.pc = "prefetch", !.by = "prefetch"]
  /\ uvm' = [uvm EXCEPT !.budget = Budget]
  /\ UNCHANGED <<mmuVars, dataVars, free, faults, expect, appVars>>
PrefetchPage ==
  /\ mig.pc = "prefetch" /\ uvm.budget > 0 /\ uvm.page \in Pages
  /\ uvm' = [uvm EXCEPT !.budget = @ - 1, !.page = @ + 1]
  /\ IF Resident(uvm.page) THEN UNCHANGED <<free, mig>>
                           ELSE StartMigration("prefetch", uvm.page)
  /\ UNCHANGED <<mmuVars, dataVars, faults, expect, appVars>>
PrefetchEnds ==
  /\ mig.pc = "prefetch" /\ (uvm.budget = 0 \/ uvm.page \notin Pages)
  /\ mig' = Unlocked
  /\ uvm' = Popping
  /\ Expect({uvm.page})
  /\ UNCHANGED <<mmuVars, dataVars, free, faults, appVars>>

\* A populated page wakes the thread that is blocked on it.
NotWoken(t, v) == t \* mutant
Woken(t, v) == IF t.state \in {"faulted", "blocked"} /\ t.page = v
               THEN [t EXCEPT !.state = "touching"] ELSE t

\* service_host_faults reads a message, and under mem_lock evicts the page.
\* If the page is back already, or the message stale, it wakes the thread.
ReadMessage ==
  /\ toucher.state = "faulted" /\ toucher.msg = 0
  /\ toucher' = [toucher EXCEPT !.state = "blocked", !.msg = toucher.page]
  /\ UNCHANGED <<mmuVars, eng, dataVars, free, mig, faults, uvmVars, count,
                 uffd>>
HostFault ==
  LET v == toucher.msg
      read == [toucher EXCEPT !.msg = 0]
  IN
  /\ v # 0 /\ mig.pc = "unlocked"
  /\ IF Resident(v)
     THEN /\ mig' = [Unlocked EXCEPT !.pc = "exchange", !.by = "host",
                                     !.victim = v]
          /\ toucher' = read
     ELSE /\ toucher' = Woken(read, v)
          /\ UNCHANGED mig
  /\ UNCHANGED <<mmuVars, eng, dataVars, free, faults, uvmVars, count, uffd>>

\* One round of evict_all_locked, for an sgMalloc.
EvictAll ==
  /\ mig.pc = "unlocked" /\ count.evicts < MaxEvicts
  /\ \E u \in Pages :
       /\ Resident(u)
       /\ mig' = [Unlocked EXCEPT !.pc = "exchange", !.by = "alloc",
                                  !.victim = u]
  /\ count' = [count EXCEPT !.evicts = @ + 1]
  /\ UNCHANGED <<mmuVars, eng, dataVars, free, faults, uvmVars, toucher,
                 uffd>>

\* A changed PTE, then the shootdown, then what `l' says.
Shootdown(v, l) == mig' = [mig EXCEPT !.pc = "bump", !.shoot = v, !.then = l]

\* begin_evict.  The exchange keeps a DIRTY set until then.
Exchange ==
  LET old == pte[mig.victim] IN
  /\ mig.pc = "exchange"
  /\ pte' = [pte EXCEPT ![mig.victim] = [at |-> Host, dirty |-> FALSE]]
  /\ mig' = [mig EXCEPT !.pc = "bump", !.shoot = mig.victim,
                        !.then = "quiesce", !.at = old.at, !.dirty = old.dirty]
  /\ UNCHANGED <<tlb, stale, access, dataVars, eng, envVars>>

\* The generation, then the tags of one engine after the other.
Bump ==
  /\ mig.pc = "bump"
  /\ stale' = Engines
  /\ mig' = [mig EXCEPT !.pc = "invalidate", !.left = Engines]
  /\ UNCHANGED <<pte, tlb, access, dataVars, eng, envVars>>
Invalidate ==
  /\ mig.pc = "invalidate"
  /\ IF mig.left = {}
     THEN /\ mig' = [mig EXCEPT !.pc = mig.then, !.left = Engines]
          /\ UNCHANGED tlb
     ELSE \E e \in mig.left :
            /\ tlb' = [tlb EXCEPT ![e][mig.shoot].at = Uncached]
            /\ mig' = [mig EXCEPT !.left = @ \ {e}]
  /\ UNCHANGED <<pte, stale, access, dataVars, eng, envVars>>

\* quiesce: an engine that is in a command is waited for until its sequence
\* moves on (Leave), even if it starts another one at once.
QuiesceNext ==
  /\ mig.pc = "quiesce" /\ mig.odd = None /\ mig.left # {}
  /\ \E e \in mig.left :
       mig' = [mig EXCEPT !.left = @ \ {e},
                          !.odd = IF e \in access THEN e ELSE None]
  /\ UNCHANGED <<mmuVars, dataVars, eng, envVars>>
Quiesced == mig.odd = None /\ mig.left = {}

\* end_evict: the DIRTY bits that engines still set.
EarlyDirty == mig.dirty \* mutant: what was set after the exchange is lost
Dirty == mig.dirty \/ pte[mig.victim].dirty
EndEvict ==
  /\ mig.pc = "quiesce" /\ Quiesced
  /\ mig' = [mig EXCEPT !.pc = "publish", !.left = {}, !.odd = None,
                        !.dirty = Dirty]
  /\ pte' = [pte EXCEPT ![mig.victim].dirty = FALSE]
  /\ UNCHANGED <<tlb, stale, access, dataVars, eng, envVars>>

\* mem_lock is released, or goes on to the next page of a prefetch.
Release(ok) ==
  /\ mig' = IF mig.by = "prefetch"
            THEN [Unlocked EXCEPT !.pc = "prefetch", !.by = "prefetch"]
            ELSE Unlocked
  /\ uvm' = CASE mig.by = "uvm" -> [uvm EXCEPT !.pc = "unpark", !.moved = ok,
                                              !.failed = ~ok]
              [] mig.by = "prefetch" /\ ~ok ->
                   [uvm EXCEPT !.budget = 0, !.page = @ - 1]
              [] OTHER -> uvm

\* publish_host.  With userfaultfd the page is missing and the copy always
\* happens; a page that is there already counts as done (EEXIST).  Without
\* it only a dirty page is written.  Then the frame goes to the page wanted,
\* or is free.
Published(v, new) == IF uffd /\ host[v] # Missing THEN host[v]
                     ELSE IF uffd \/ mig.dirty THEN new ELSE host[v]
FrameLeaked == free \* mutant: evict_locked's result is dropped
FreeFrame == free \cup {mig.at}
Publish ==
  /\ mig.pc = "publish"
  /\ host' = [host EXCEPT ![mig.victim] =
                 Published(mig.victim, frame[mig.at][2])]
  /\ toucher' = IF uffd THEN Woken(toucher, mig.victim) ELSE toucher
  /\ IF mig.want # 0
     THEN mig' = [mig EXCEPT !.pc = "copyin"] /\ UNCHANGED <<free, uvm>>
     ELSE Release(TRUE) /\ free' = FreeFrame
  /\ UNCHANGED <<mmuVars, eng, frame, written, faults, count, expect, uffd>>

\* The copy failed: make_resident puts the page back, clean.
PublishFailed ==
  /\ mig.pc = "publish" /\ uffd
  /\ pte' = [pte EXCEPT ![mig.victim] = [at |-> mig.at, dirty |-> FALSE]]
  /\ Shootdown(mig.victim, "failed")
  /\ UNCHANGED <<tlb, stale, access, dataVars, eng, envVars>>
GiveUp ==
  /\ mig.pc = "failed"
  /\ Release(FALSE)
  /\ toucher' = IF mig.by = "host" THEN Woken(toucher, mig.victim)
                                   ELSE toucher
  /\ UNCHANGED <<mmuVars, eng, dataVars, free, faults, count, expect, uffd>>

\* copy_in, a plain memcpy from the host page.
CopyIn ==
  /\ mig.pc = "copyin" /\ host[mig.want] # Missing
  /\ frame' = [frame EXCEPT ![mig.at] = <<mig.want, host[mig.want]>>]
  /\ mig' = [mig EXCEPT !.pc = "resident"]
  /\ UNCHANGED <<mmuVars, host, written, eng, envVars>>

\* make_resident.
MakeResident ==
  /\ mig.pc = "resident"
  /\ pte' = [pte EXCEPT ![mig.want] = [at |-> mig.at, dirty |-> FALSE]]
  /\ Shootdown(mig.want, "drop")
  /\ UNCHANGED <<tlb, stale, access, dataVars, eng, envVars>>

\* MADV_DONTNEED on the host page, and the end of migrate_locked.  The call
\* does not fail: the range is the driver's own mapping, whole pages.
Dropped == IF uffd THEN [host EXCEPT ![mig.want] = Missing] ELSE host
DropHost ==
  /\ mig.pc = "drop"
  /\ host' = Dropped
  /\ Release(TRUE)
  /\ UNCHANGED <<mmuVars, frame, written, free, faults, appVars, expect>>

----------------------------------------------------------------------------
(* The application's side.  With userfaultfd the host may use a page any   *)
(* time; without it, host accesses after the first device access are not   *)
(* supported and none is made.                                             *)

HostTouch ==
  /\ uffd /\ toucher.state = "free" /\ count.touches < MaxTouches
  /\ \E v \in HostPages :
       /\ RaceFree => ~Uses(v)
       /\ toucher' = [toucher EXCEPT !.state = "touching", !.page = v]
  /\ count' = [count EXCEPT !.touches = @ + 1]
  /\ UNCHANGED <<mmuVars, eng, dataVars, free, mig, faults, uvmVars, uffd>>

\* The store goes through, or faults on the missing page.
HostWrite ==
  LET v == toucher.page IN
  /\ toucher.state = "touching"
  /\ TouchAnyTime \/ mig.want # v
  /\ IF host[v] = Missing
     THEN /\ toucher' = [toucher EXCEPT !.state = "faulted"]
          /\ UNCHANGED <<host, written>>
     ELSE /\ toucher' = [toucher EXCEPT !.state = "free", !.page = 0]
          /\ written' = [written EXCEPT ![v] = @ + 1]
          /\ host' = [host EXCEPT ![v] = written[v] + 1]
  /\ UNCHANGED <<mmuVars, eng, frame, free, mig, faults, uvmVars, count,
                 uffd>>

----------------------------------------------------------------------------
Engine(e) ==
  \/ Enter(e) \/ TlbHit(e) \/ HitSetsDirty(e) \/ Walk(e) \/ WalkBits(e)
  \/ SampleGen(e) \/ CheckResident(e) \/ CheckGen(e) \/ StoreTag(e)
  \/ RecheckGen(e) \/ Apply(e) \/ Finish(e)

Uvm == PopFault \/ ServeFault \/ Unpark \/ PrefetchLock

MemLockHolder ==
  \/ Exchange \/ Bump \/ Invalidate \/ QuiesceNext \/ EndEvict \/ Publish
  \/ GiveUp \/ CopyIn \/ MakeResident \/ DropHost \/ PrefetchPage
  \/ PrefetchEnds

Next ==
  \/ \E e \in Engines : Start(e) \/ Engine(e)
  \/ Uvm \/ ReadMessage \/ HostFault \/ EvictAll
  \/ MemLockHolder \/ PublishFailed
  \/ HostTouch \/ HostWrite

Spec == Init /\ [][Next]_vars

\* Engines, the two service threads and the holder of mem_lock are threads
\* that run; the host thread too.  Commands, prefetches and allocations need
\* not come.
FairSpec ==
  /\ Spec
  /\ \A e \in Engines : WF_vars(Engine(e))
  /\ WF_vars(PopFault \/ Unpark) /\ SF_vars(ServeFault \/ PrefetchLock)
  /\ WF_vars(ReadMessage) /\ SF_vars(HostFault)
  /\ WF_vars(MemLockHolder) /\ WF_vars(HostWrite)

----------------------------------------------------------------------------
(* Properties.                                                             *)

\* The pages and frames an engine has translated and will use in this run.
Holds(e) == {<<Run(e)[i].page, eng[e].got[i]>> : i \in 1 .. Len(eng[e].got)}

\* What a command is about to read or overwrite is the page it asked for, in
\* its latest version: no frame is recycled under a translation, however the
\* eviction and the access interleave (quiesce, tlb_insert).
NoStaleTranslation ==
  \A e \in Engines : \A h \in Holds(e) :
    frame[h[2]] = <<h[1], written[h[1]]>>

\* The shootdown's promise (mmu.h): when it has returned, no TLB holds a
\* translation that the page table does not, but for a tag whose re-check is
\* still to come.
TlbClean ==
  mig.pc \in {"unlocked", "quiesce", "publish", "copyin", "resident"} =>
    \A e \in Engines : \A v \in Pages :
      \/ tlb[e][v].at \in {Uncached, pte[v].at}
      \/ eng[e].pc = "recheck" /\ Cur(e).page = v /\ e \in stale

\* Outside a migration, the copy that the page table points at carries the
\* last write, whoever made it: evictions write back what a late engine
\* wrote, and migrations start from what the host wrote.
NoWriteLost ==
  mig.pc = "unlocked" =>
    \A v \in Pages :
      IF Resident(v) THEN frame[pte[v].at] = <<v, written[v]>>
                     ELSE host[v] = written[v]

\* With userfaultfd, a page of the device's is missing on the host, so that
\* the next host access faults instead of using a stale copy, and no other
\* page is: copy_in would fault on it in a thread that holds mem_lock, which
\* the host-fault thread needs.
HostCopyDropped ==
  uffd /\ mig.pc \in {"unlocked", "copyin"} =>
    \A v \in Pages : Resident(v) <=> host[v] = Missing

\* Every frame is free, holds one page, or is in the migration's hands.
FramesOwned ==
  /\ \A u, v \in Pages : Resident(u) /\ pte[u].at = pte[v].at => u = v
  /\ mig.pc = "unlocked" =>
       free = Frames \ {pte[v].at : v \in Pages}

\* A page is in one place: in one frame that is its own, or on the host.
PagesOwned == FramesOwned /\ HostCopyDropped

\* COPY_D2D holds the run it writes and the run it reads; when VRAM is full,
\* one of its pages may have to go for the other.
OwnVictim(e) == eng[e].op = "d2d" /\ free = {}

\* Every command retires: faults, evictions and retries come to an end.  Not
\* while the host accesses a page: the two sides may then take it from each
\* other before either gets to use it.  And not a COPY_D2D in a full VRAM:
\* with one frame it never does (OneFrameIsEnough), with more it is for CLOCK
\* to spare its other page, and CLOCK is any choice here.
CommandsEnd ==
  \A e \in Engines : []<>(\/ eng[e].pc = "idle" \/ toucher.state # "free"
                          \/ OwnVictim(e))

\* The same without that exception: "a retry never needs more pages resident at
\* once than the run it is working on" (execute).  It does not hold
\* (ManagedMemory_d2d): the two pages of a COPY_D2D take the frame from each
\* other.
OneFrameIsEnough ==
  \A e \in Engines : []<>(eng[e].pc = "idle" \/ toucher.state # "free")

\* A host thread that faulted on a page in VRAM is woken: the message is
\* served and nobody keeps mem_lock.
HostWoken == []<>(toucher.state \notin {"faulted", "blocked"})
=============================================================================

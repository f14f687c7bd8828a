------------------------ MODULE ManagedMemoryProofs ------------------------
(***************************************************************************)
(* Proofs about ManagedMemory, for any number of engines, pages, frames    *)
(* and TLB entries, any set of commands and any prefetch window.           *)
(***************************************************************************)
EXTENDS ManagedMemory, FiniteSetTheorems, TLAPS

----------------------------------------------------------------------------
(* Types                                                                   *)

Access == [page : Pages, write : BOOLEAN]
Entries == [at : Frames \cup {Uncached}, dirty : BOOLEAN]
OutsidePC == {"idle", "enter", "parked"}
\* Where an engine has a translation in eng[e].reg.
RegPC == {"dirty", "walk", "sample", "check", "checkgen", "tag", "recheck"}
InsidePC == {"translate"} \cup RegPC

EngineType ==
  [pc : OutsidePC \cup InsidePC, op : {None, "fill", "d2h", "d2d", "compute"},
   pages : Seq(Pages), gather : BOOLEAN, done : Nat, got : Seq(Frames),
   reg : Entries]

MigrationType ==
  [pc : {"unlocked", "prefetch", "exchange", "bump", "invalidate", "quiesce",
         "publish", "failed", "copyin", "resident", "drop"},
   by : {None, "uvm", "prefetch", "host", "alloc"}, want : Pages \cup {0},
   victim : Pages \cup {0}, at : Frames \cup {Uncached}, dirty : BOOLEAN,
   shoot : Pages \cup {0}, then : {None, "quiesce", "drop", "failed"},
   left : SUBSET Engines, odd : Engines \cup {None}]

UvmType ==
  [pc : {"pop", "lock", "migrate", "unpark", "prefetch"},
   engine : Engines \cup {None}, page : Int, moved : BOOLEAN,
   failed : BOOLEAN, budget : Int]

FaultType == [engine : Engines, page : Pages]

TypeOK ==
  /\ \E n \in FrameCounts : Frames = 1 .. n
  /\ frame \in [Frames -> (Pages \cup {0}) \X Nat]
  /\ pte \in [Pages -> [at : Frames \cup {Host}, dirty : BOOLEAN]]
  /\ tlb \in [Engines -> [Pages -> Entries]]
  /\ stale \subseteq Engines /\ access \subseteq Engines
  /\ eng \in [Engines -> EngineType]
  /\ host \in [Pages -> Nat \cup {Missing}] /\ written \in [Pages -> Nat]
  /\ free \subseteq Frames
  /\ mig \in MigrationType
  /\ faults \in Seq(FaultType)
  /\ uvm \in UvmType /\ expect \in [Engines -> SUBSET Int]
  /\ toucher \in [state : {"free", "touching", "faulted", "blocked"},
                  page : Pages \cup {0}, msg : Pages \cup {0}]
  /\ uffd \in BOOLEAN
  /\ count \in [cmds : Nat, touches : Nat, evicts : Nat]

----------------------------------------------------------------------------
(* The inductive invariant                                                 *)

\* What engine record c works on: its runs, the current one, and the access
\* it translates.
Todo(c) == Runs(c.op, c.pages, c.gather)
RunOf(c) == Todo(c)[c.done + 1]
Now(c) == RunOf(c)[Len(c.got) + 1]

\* An engine is at a position that its command has.
EngineAt(c) ==
  /\ c.pc # "idle" => IsCommand(c.op, c.pages) /\ c.done <= Len(Todo(c))
  /\ c.pc \in OutsidePC => c.got = <<>>
  /\ c.got # <<>> => c.done < Len(Todo(c)) /\ Len(c.got) <= Len(RunOf(c))
  /\ c.pc \in RegPC => /\ c.done < Len(Todo(c)) /\ Len(c.got) < Len(RunOf(c))
                       /\ c.reg.at # Uncached

\* The sequence others see is odd just while the engine is inside.
EnginesOK ==
  /\ \A e \in Engines : EngineAt(eng[e])
  /\ access = {e \in Engines : eng[e].pc \in InsidePC}

\* A parked engine has at most one fault, queued or being served.
Serving == uvm.pc \in {"lock", "migrate", "unpark"}
FaultsOK ==
  /\ \A i \in 1 .. Len(faults) :
       /\ eng[faults[i].engine].pc = "parked"
       /\ Serving => faults[i].engine # uvm.engine
       /\ \A j \in 1 .. Len(faults) :
            faults[i].engine = faults[j].engine => i = j
  /\ Serving => /\ uvm.engine \in Engines /\ uvm.page \in Pages
                /\ eng[uvm.engine].pc = "parked"
  /\ uvm.pc = "prefetch" => uvm.engine \in Engines

\* The phases of a migration: the victim gives its frame up, the frame is
\* filled, and the page wanted has it.
Shooting == mig.pc \in {"bump", "invalidate"}
Evicting == \/ Shooting /\ mig.then = "quiesce"
            \/ mig.pc \in {"quiesce", "publish"}
Filling == mig.pc \in {"copyin", "resident"}
Filled == mig.pc = "drop" \/ (Shooting /\ mig.then = "drop")
Restored == mig.pc = "failed" \/ (Shooting /\ mig.then = "failed")
Leaving(v) == Evicting /\ v = mig.victim

\* Whose migration it is.
HolderOK ==
  /\ mig.pc # "unlocked" /\ mig.by = "uvm" => uvm.pc = "migrate"
  /\ mig.pc # "unlocked" /\ mig.by = "prefetch" => uvm.pc = "prefetch"
  /\ mig.pc = "prefetch" => mig.by = "prefetch"

\* The victim is there until the exchange, and the page wanted is not there.
VictimOK ==
  /\ mig.pc = "exchange" => mig.victim \in Pages /\ Resident(mig.victim)
  /\ Evicting => mig.victim \in Pages /\ ~Resident(mig.victim) /\ mig.at \in Frames
  /\ Restored => mig.victim \in Pages /\ Resident(mig.victim)
WantOK ==
  /\ (mig.pc = "exchange" \/ Evicting) /\ mig.want # 0 =>
       ~Resident(mig.want) /\ mig.want # mig.victim
  /\ Filling => mig.want \in Pages /\ ~Resident(mig.want) /\ mig.at \in Frames
  /\ Filled => mig.want \in Pages /\ pte[mig.want].at = mig.at /\ mig.at \in Frames

\* A shootdown is for the page that the migration has just changed.
ShootOK ==
  Shooting => /\ mig.then # None
              /\ mig.shoot = IF mig.then = "drop" THEN mig.want ELSE mig.victim

MigrationOK == HolderOK /\ VictimOK /\ WantOK /\ ShootOK

\* A frame is free, or has one page, or is in the migration's hands.
InHand(f) == (Evicting \/ Filling) /\ f = mig.at
FramesOK ==
  /\ \A u, v \in Pages : Resident(u) /\ pte[u].at = pte[v].at => u = v
  /\ \A v \in Pages : ~InHand(pte[v].at)
  /\ \A f \in Frames : f \in free <=> ~InHand(f) /\ \A v \in Pages : pte[v].at # f

\* Which pages are missing on the host.
HostOK ==
  /\ ~uffd => /\ toucher.state = "free" /\ toucher.msg = 0
              /\ \A v \in Pages : host[v] # Missing
  /\ toucher.state # "free" => toucher.page \in Pages
  /\ uffd => \A v \in Pages :
               host[v] = Missing <=>
                 (Resident(v) \/ Leaving(v)) /\ ~(Filled /\ v = mig.want)

\* The translations that c works with: those of the run so far, and the one
\* in its hands.
Refers(c, v, f) ==
  \/ \E i \in 1 .. Len(c.got) : RunOf(c)[i].page = v /\ c.got[i] = f
  \/ c.pc \in RegPC /\ Now(c).page = v /\ c.reg.at = f

\* The driver has not seen engine e outside a command since it took the page
\* away.
AwaitedBy(e) == \/ Shooting /\ mig.then = "quiesce"
                \/ mig.pc = "quiesce" /\ (e \in mig.left \/ mig.odd = e)

\* A translation in use is that of the page table, or of the page table
\* before the eviction that waits for its user.
Valid(e, v, f) == \/ pte[v].at = f
                  \/ AwaitedBy(e) /\ v = mig.victim /\ f = mig.at
HeldAt(e) ==
  \A v \in Pages : \A f \in Frames : Refers(eng[e], v, f) => Valid(e, v, f)

\* After the check of the PTE, a translation that is no longer that of the
\* page table meets a generation that has moved or will.
TagAt(e) ==
  eng[e].pc \in {"checkgen", "tag", "recheck"} =>
    \/ pte[Now(eng[e]).page].at = eng[e].reg.at
    \/ e \in stale
    \/ mig.pc = "bump" /\ mig.shoot = Now(eng[e]).page

\* A TLB entry is that of the page table, or is about to go.
Rechecks(e, v) == /\ eng[e].pc = "recheck" /\ Now(eng[e]).page = v
                  /\ e \in stale /\ tlb[e][v].at = eng[e].reg.at
Shot(e, v) == /\ Shooting /\ mig.then = "quiesce" /\ mig.shoot = v
              /\ mig.pc = "invalidate" => e \in mig.left
              /\ tlb[e][v].at = mig.at
TlbAt(e) ==
  \A v \in Pages :
    tlb[e][v].at \in {Uncached, pte[v].at} \/ Rechecks(e, v) \/ Shot(e, v)

\* The eviction will see that the page was written.
Dirtied(v) == pte[v].dirty \/ (Leaving(v) /\ mig.dirty)

\* A write that c has translated.
Writes(c, v) ==
  \/ \E i \in 1 .. Len(c.got) : RunOf(c)[i] = W(v)
  \/ c.pc \in RegPC \ {"dirty", "walk"} /\ Now(c) = W(v)

\* Without userfaultfd only a dirty page is written back: whoever may write
\* it has set DIRTY.
DirtyAt(e) ==
  ~uffd => \A v \in Pages :
    /\ Writes(eng[e], v) => Dirtied(v)
    /\ tlb[e][v].at # Uncached /\ tlb[e][v].dirty => Dirtied(v)
    /\ eng[e].pc \in RegPC /\ Now(eng[e]).page = v /\ eng[e].reg.dirty =>
         Dirtied(v)

TranslationsOK ==
  \A e \in Engines : HeldAt(e) /\ TagAt(e) /\ TlbAt(e) /\ DirtyAt(e)

\* The last write of every page is where it belongs, unless the host may
\* write a page while it is copied.
Quiet == TouchAnyTime => ~uffd
DataOK ==
  Quiet =>
    /\ \A v \in Pages :
         IF Resident(v) THEN frame[pte[v].at] = <<v, written[v]>>
         ELSE ~Leaving(v) => host[v] = written[v]
    /\ Evicting => frame[mig.at] = <<mig.victim, written[mig.victim]>>
    /\ mig.pc = "resident" => frame[mig.at] = <<mig.want, written[mig.want]>>
    /\ ~uffd => \A v \in Pages : ~Dirtied(v) => host[v] = written[v]
    /\ ~uffd /\ mig.pc = "publish" /\ ~mig.dirty =>
         host[mig.victim] = written[mig.victim]

MemoryInv ==
  /\ TypeOK /\ EnginesOK /\ FaultsOK /\ MigrationOK /\ FramesOK /\ HostOK
  /\ TranslationsOK /\ DataOK

----------------------------------------------------------------------------
(* Frames and commands                                                     *)

\* Neither Host nor Uncached is a frame.
LEMMA FrameNumbers ==
  ASSUME TypeOK
  PROVE  /\ Host \notin Frames /\ Uncached \notin Frames /\ Host # Uncached
         /\ 0 \notin Pages /\ Missing \notin Nat
         /\ \A v \in Pages : Resident(v) <=> pte[v].at \in Frames
BY ManagedAssumption DEF TypeOK, Host, Uncached, Missing, Pages, Resident

\* The types are those of the frames there are.
LEMMA TypesFixed ==
  ASSUME Frames' = Frames
  PROVE  /\ Entries' = Entries /\ EngineType' = EngineType
         /\ MigrationType' = MigrationType /\ UvmType' = UvmType
BY DEF Entries, EngineType, MigrationType, UvmType

\* Every command is a sequence of runs of accesses to pages.
LEMMA RunsType ==
  ASSUME NEW op, NEW p, NEW g \in BOOLEAN, IsCommand(op, p)
  PROVE  Runs(op, p, g) \in Seq(Seq(Access))
<1>1. \A i \in 1 .. Len(p) : R(p[i]) \in Access /\ W(p[i]) \in Access
  BY DEF IsCommand, R, W, Access
<1> HIDE DEF Access
<1>2. CASE op = "fill"
  <2>1. Len(p) = 2
    BY <1>2 DEF IsCommand
  <2> QED BY <1>1, <1>2, <2>1 DEF Runs
<1>3. CASE op = "d2h"
  <2>1. Len(p) = 1
    BY <1>3 DEF IsCommand
  <2> QED BY <1>1, <1>3, <2>1 DEF Runs
<1>4. CASE op = "d2d"
  <2>1. Len(p) = 2
    BY <1>4 DEF IsCommand
  <2> QED BY <1>1, <1>4, <2>1 DEF Runs
<1>5. CASE op = "compute"
  <2>1. Len(p) = 3
    BY <1>5 DEF IsCommand
  <2>2. CASE g
    BY <1>1, <1>5, <2>1, <2>2 DEF Runs
  <2>3. CASE ~g
    BY <1>1, <1>5, <2>1, <2>3 DEF Runs
  <2> QED BY <2>2, <2>3
<1> QED BY <1>2, <1>3, <1>4, <1>5 DEF IsCommand

\* A command that faults and goes on through scratch has as far to go.
LEMMA ScratchRuns ==
  ASSUME NEW op, NEW p, NEW g \in BOOLEAN, IsCommand(op, p), NEW d \in Nat,
         d < Len(Runs(op, p, g))
  PROVE  d <= Len(Runs(op, p, (op = "compute")))
<1>1. CASE op = "compute"
  <2> DEFINE scratch == Runs(op, p, (op = "compute"))
  <2>1. Len(scratch) = 3
    BY <1>1 DEF Runs
  <2>2. CASE g
    BY <1>1, <2>1, <2>2 DEF Runs
  <2>3. CASE ~g
    BY <1>1, <2>1, <2>3 DEF Runs
  <2> QED BY <2>2, <2>3
<1>2. CASE op # "compute"
  <2>1. Runs(op, p, g) = Runs(op, p, (op = "compute"))
    BY <1>2 DEF IsCommand, Runs
  <2>2. Len(Runs(op, p, g)) \in Nat
    BY RunsType
  <2> QED BY <2>1, <2>2
<1> QED BY <1>1, <1>2

\* The accesses of the run that c is in.
LEMMA RunType ==
  ASSUME NEW c, IsCommand(c.op, c.pages), c.gather \in BOOLEAN,
         c.done \in Nat, c.done < Len(Todo(c))
  PROVE  /\ Len(Todo(c)) \in Nat /\ RunOf(c) \in Seq(Access)
         /\ Len(RunOf(c)) \in Nat
         /\ \A i \in 1 .. Len(RunOf(c)) : RunOf(c)[i] \in Access
<1>1. Todo(c) \in Seq(Seq(Access))
  BY RunsType DEF Todo
<1>2. RunOf(c) \in Seq(Access)
  BY <1>1 DEF RunOf
<1> QED BY <1>1, <1>2

\* What the model says of engine e, said of its record.
LEMMA Positions ==
  ASSUME NEW e \in Engines
  PROVE  /\ Work(e) = Todo(eng[e]) /\ Run(e) = RunOf(eng[e])
         /\ Cur(e) = Now(eng[e])
BY DEF Work, Run, Cur, Todo, RunOf, Now

----------------------------------------------------------------------------
(* Steps of an engine record                                               *)

\* The access at hand is to a page.
LEMMA NowType ==
  ASSUME NEW c, IsCommand(c.op, c.pages), c.gather \in BOOLEAN,
         c.done \in Nat, c.done < Len(Todo(c)), NEW S, c.got \in Seq(S),
         Len(c.got) < Len(RunOf(c))
  PROVE  Now(c) \in Access /\ Now(c).page \in Pages /\ Now(c).write \in BOOLEAN
<1>1. Len(c.got) + 1 \in 1 .. Len(RunOf(c))
  BY RunType
<1> QED BY <1>1, RunType DEF Now, Access

\* A translation is done: the run has one more, and nothing is at hand.
WithFrame(c, f) == [c EXCEPT !.pc = "translate", !.reg = NoEntry, !.got = Append(@, f)]
LEMMA RecordGot ==
  ASSUME NEW c \in EngineType, EngineAt(c), c.pc \in InsidePC,
         c.done < Len(Todo(c)), Len(c.got) < Len(RunOf(c)), NEW f \in Frames,
         NEW d, d = WithFrame(c, f)
  PROVE  /\ d \in EngineType /\ EngineAt(d) /\ d.pc = "translate"
         /\ \A v, g : Refers(d, v, g) => Refers(c, v, g) \/ (v = Now(c).page /\ g = f)
         /\ \A v : Writes(d, v) => Writes(c, v) \/ Now(c) = W(v)
<1>1. NoEntry \in Entries
  BY DEF NoEntry, Entries
<1>2. /\ d \in EngineType /\ d.pc = "translate" /\ d.op = c.op /\ d.pages = c.pages
      /\ d.gather = c.gather /\ d.done = c.done /\ d.got = Append(c.got, f)
  <2>1. Append(c.got, f) \in Seq(Frames)
    BY DEF EngineType
  <2> HIDE DEF Entries, NoEntry
  <2> QED BY <1>1, <2>1 DEF EngineType, InsidePC, WithFrame
<1>3. /\ c.got \in Seq(Frames) /\ c.gather \in BOOLEAN /\ c.done \in Nat
      /\ IsCommand(c.op, c.pages)
  BY DEF EngineType, EngineAt, InsidePC, RegPC
<1>4. Todo(d) = Todo(c) /\ RunOf(d) = RunOf(c)
  BY <1>2 DEF Todo, RunOf
<1>5. Len(RunOf(c)) \in Nat /\ Len(c.got) \in Nat /\ Len(Todo(c)) \in Nat
  BY <1>3, RunType
<1>6. /\ Len(d.got) = Len(c.got) + 1
      /\ \A i \in 1 .. Len(c.got) : d.got[i] = c.got[i]
      /\ d.got[Len(c.got) + 1] = f
  BY <1>2, <1>3
<1>7. EngineAt(d)
  BY <1>2, <1>3, <1>4, <1>5, <1>6 DEF EngineAt, OutsidePC, RegPC
<1>8. \A i \in 1 .. Len(d.got) : i \in 1 .. Len(c.got) \/ i = Len(c.got) + 1
  BY <1>5, <1>6
<1>9. \A v, g : Refers(d, v, g) => Refers(c, v, g) \/ (v = Now(c).page /\ g = f)
  BY <1>2, <1>4, <1>6, <1>8 DEF Refers, Now, RegPC
<1>10. \A v : Writes(d, v) => Writes(c, v) \/ Now(c) = W(v)
  BY <1>2, <1>4, <1>6, <1>8 DEF Writes, Now, RegPC
<1> QED BY <1>2, <1>7, <1>9, <1>10

\* A step within a translation.
LEMMA RecordReg ==
  ASSUME NEW c \in EngineType, EngineAt(c), c.pc \in InsidePC,
         c.done < Len(Todo(c)), Len(c.got) < Len(RunOf(c)),
         NEW d \in EngineType, d.pc \in RegPC, d.reg.at # Uncached,
         d.op = c.op, d.pages = c.pages, d.gather = c.gather, d.done = c.done,
         d.got = c.got
  PROVE  /\ EngineAt(d) /\ Now(d) = Now(c)
         /\ \A v, g : Refers(d, v, g) =>
              Refers(c, v, g) \/ (v = Now(c).page /\ g = d.reg.at)
         /\ \A v : Writes(d, v) =>
              Writes(c, v) \/ (d.pc \notin {"dirty", "walk"} /\ Now(c) = W(v))
<1>1. Todo(d) = Todo(c) /\ RunOf(d) = RunOf(c) /\ Now(d) = Now(c)
  BY DEF Todo, RunOf, Now
<1>2. EngineAt(d)
  BY <1>1 DEF EngineAt, InsidePC, OutsidePC, RegPC
<1>3. \A v, g : Refers(d, v, g) => Refers(c, v, g) \/ (v = Now(c).page /\ g = d.reg.at)
  BY <1>1 DEF Refers
<1>4. \A v : Writes(d, v) =>
              Writes(c, v) \/ (d.pc \notin {"dirty", "walk"} /\ Now(c) = W(v))
  BY <1>1 DEF Writes
<1> QED BY <1>1, <1>2, <1>3, <1>4

\* A record outside has no translation.
LEMMA RecordOutside ==
  ASSUME NEW d, d.pc \in OutsidePC \/ d.pc = "translate", d.got = <<>>
  PROVE  (\A v, g : ~Refers(d, v, g)) /\ \A v : ~Writes(d, v)
BY DEF Refers, Writes, OutsidePC, RegPC

\* The access at hand of an engine in a translation.
LEMMA Translates ==
  ASSUME MemoryInv, NEW e \in Engines,
         eng[e].pc \in RegPC \/ Translating(e)
  PROVE  /\ eng[e] \in EngineType /\ EngineAt(eng[e]) /\ eng[e].pc \in InsidePC
         /\ eng[e].done < Len(Todo(eng[e])) /\ Len(eng[e].got) < Len(RunOf(eng[e]))
         /\ Cur(e) = Now(eng[e]) /\ Now(eng[e]) \in Access
         /\ Now(eng[e]).page \in Pages /\ Now(eng[e]).write \in BOOLEAN
         /\ eng[e].pc \in RegPC => eng[e].reg.at \in Frames
<1>1. eng[e] \in EngineType /\ EngineAt(eng[e])
  BY DEF MemoryInv, TypeOK, EnginesOK
<1>2. /\ eng[e].pc \in InsidePC /\ eng[e].done < Len(Todo(eng[e]))
      /\ Len(eng[e].got) < Len(RunOf(eng[e]))
  BY <1>1, Positions DEF EngineAt, InsidePC, Translating
<1>3. /\ eng[e].gather \in BOOLEAN /\ eng[e].done \in Nat /\ eng[e].got \in Seq(Frames)
      /\ IsCommand(eng[e].op, eng[e].pages)
  BY <1>1, <1>2 DEF EngineType, EngineAt, InsidePC, RegPC
<1>4. eng[e].pc \in RegPC => eng[e].reg.at \in Frames
  BY <1>1 DEF EngineAt, EngineType, Entries
<1> QED BY <1>1, <1>2, <1>3, <1>4, Positions, NowType

----------------------------------------------------------------------------
(* A step of one engine                                                    *)

\* An engine's step leaves the rest of the invariant alone when it maps and
\* unmaps nothing, clears no DIRTY of the page table, its own part holds and
\* the data it writes are right.
LEMMA EngineWrites ==
  ASSUME MemoryInv, NEW e \in Engines, NEW d \in EngineType, EngineAt(d),
         eng' = [eng EXCEPT ![e] = d],
         access' = IF d.pc \in InsidePC THEN access \cup {e} ELSE access \ {e},
         pte' \in [Pages -> [at : Frames \cup {Host}, dirty : BOOLEAN]],
         \A v \in Pages : pte'[v].at = pte[v].at /\ (pte[v].dirty => pte'[v].dirty),
         tlb' \in [Engines -> [Pages -> Entries]], stale' \subseteq Engines,
         \A u \in Engines \ {e} : tlb'[u] = tlb[u] /\ (u \in stale' <=> u \in stale),
         \/ mig' = mig
         \/ mig.odd = e /\ mig' = [mig EXCEPT !.odd = None],
         UNCHANGED <<host, free, toucher, uffd>>, Frames' = Frames,
         frame' \in [Frames -> (Pages \cup {0}) \X Nat], written' \in [Pages -> Nat],
         DataOK',
         faults' \in Seq(FaultType), uvm' \in UvmType,
         expect' \in [Engines -> SUBSET Int],
         count' \in [cmds : Nat, touches : Nat, evicts : Nat],
         \A l \in {"migrate", "prefetch"} : uvm.pc = l => uvm'.pc = l,
         FaultsOK', HeldAt(e)', TagAt(e)', TlbAt(e)', DirtyAt(e)'
  PROVE  MemoryInv'
<1>0. /\ TypeOK /\ free' = free /\ host' = host /\ toucher' = toucher /\ uffd' = uffd
  BY DEF MemoryInv
<1>1. TypeOK'
  <2>1. mig' \in MigrationType
    BY ZenonT(60), <1>0 DEF TypeOK, MigrationType
  <2>2. eng' \in [Engines -> EngineType] /\ access' \subseteq Engines
    BY <1>0 DEF TypeOK
  <2> QED BY <1>0, <2>1, <2>2, TypesFixed DEF TypeOK
<1>2. eng'[e] = d /\ \A u \in Engines \ {e} : eng'[u] = eng[u]
  BY <1>0 DEF TypeOK
<1>3. /\ mig'.pc = mig.pc /\ mig'.by = mig.by /\ mig'.want = mig.want
      /\ mig'.victim = mig.victim /\ mig'.at = mig.at /\ mig'.dirty = mig.dirty
      /\ mig'.shoot = mig.shoot /\ mig'.then = mig.then /\ mig'.left = mig.left
      /\ \A u \in Engines \ {e} : mig'.odd = u <=> mig.odd = u
  <2>1. CASE mig' = mig
    BY <2>1
  <2>2. CASE mig.odd = e /\ mig' = [mig EXCEPT !.odd = None]
    BY <1>0, <2>2, ManagedAssumption DEF TypeOK, MigrationType
  <2> QED BY <2>1, <2>2
<1>4. EnginesOK'
  <2>1. \A u \in Engines : EngineAt(eng'[u])
    BY <1>2 DEF MemoryInv, EnginesOK
  <2>2. access' = {u \in Engines : eng'[u].pc \in InsidePC}
    BY <1>2 DEF MemoryInv, EnginesOK
  <2> QED BY <2>1, <2>2 DEF EnginesOK
<1>5. \A v \in Pages : /\ Resident(v)' <=> Resident(v)
                       /\ Leaving(v)' <=> Leaving(v)
                       /\ Dirtied(v) => Dirtied(v)'
  BY <1>3 DEF Resident, Leaving, Dirtied, Evicting, Shooting
<1>6. /\ Shooting' <=> Shooting
      /\ Evicting' <=> Evicting
      /\ Filling' <=> Filling
      /\ Filled' <=> Filled
      /\ Restored' <=> Restored
      /\ \A f : InHand(f)' <=> InHand(f)
      /\ \A u \in Engines \ {e} : AwaitedBy(u)' <=> AwaitedBy(u)
  BY <1>3 DEF Shooting, Evicting, Filling, Filled, Restored, InHand, AwaitedBy
<1>7. MigrationOK'
  <2>1. MigrationOK /\ mig.want \in Pages \cup {0}
    BY <1>0 DEF MemoryInv, TypeOK, MigrationType
  <2>2. HolderOK'
    BY <1>3, <2>1 DEF MigrationOK, HolderOK
  <2>3. VictimOK'
    BY <1>0, <1>3, <1>6, <2>1 DEF MigrationOK, VictimOK, Resident
  <2>4. WantOK'
    BY <1>0, <1>3, <1>6, <2>1 DEF MigrationOK, WantOK, Resident
  <2>5. ShootOK'
    BY <1>3, <1>6, <2>1 DEF MigrationOK, ShootOK
  <2> QED BY <2>2, <2>3, <2>4, <2>5 DEF MigrationOK
<1>8. FramesOK'
  <2>1. FramesOK
    BY DEF MemoryInv
  <2>2. \A u, v \in Pages : Resident(u)' /\ pte'[u].at = pte'[v].at => u = v
    BY <1>5, <2>1 DEF FramesOK
  <2>3. \A v \in Pages : ~InHand(pte[v].at)'
    BY <1>3, <1>6, <2>1 DEF FramesOK, InHand
  <2>4. \A f \in Frames : f \in free' <=> ~InHand(f)' /\ \A v \in Pages : pte'[v].at # f
    BY <1>0, <1>6, <2>1 DEF FramesOK
  <2> QED BY <1>0, <2>2, <2>3, <2>4 DEF FramesOK
<1>9. HostOK'
  BY <1>3, <1>5, <1>6 DEF MemoryInv, HostOK
<1>10. ASSUME NEW u \in Engines \ {e}
       PROVE  HeldAt(u)' /\ TagAt(u)' /\ TlbAt(u)' /\ DirtyAt(u)'
  <2>0. /\ HeldAt(u) /\ TagAt(u) /\ TlbAt(u) /\ DirtyAt(u) /\ eng'[u] = eng[u]
        /\ tlb'[u] = tlb[u] /\ (u \in stale' <=> u \in stale)
    BY <1>2 DEF MemoryInv, TranslationsOK
  <2>1. HeldAt(u)'
    <3>1. \A v \in Pages : \A f : Valid(u, v, f) => Valid(u, v, f)'
      BY <1>3, <1>6 DEF Valid
    <3> QED BY <2>0, <3>1 DEF HeldAt
  <2>3. TagAt(u)'
    <3>1. eng[u].pc \in RegPC => Now(eng[u]).page \in Pages
      BY Translates
    <3>2. eng[u].pc \in RegPC => pte'[Now(eng[u]).page].at = pte[Now(eng[u]).page].at
      BY <3>1
    <3> QED BY <1>3, <2>0, <3>2 DEF TagAt, RegPC
  <2>4. TlbAt(u)'
    <3>1. \A v \in Pages : Rechecks(u, v) => Rechecks(u, v)'
      BY <2>0 DEF Rechecks
    <3>2. \A v \in Pages : Shot(u, v) => Shot(u, v)'
      BY <1>3, <2>0 DEF Shot, Shooting
    <3> QED BY <2>0, <3>1, <3>2 DEF TlbAt
  <2>5. DirtyAt(u)'
    BY <1>0, <1>5, <2>0 DEF DirtyAt
  <2> QED BY <2>1, <2>3, <2>4, <2>5
<1>11. TranslationsOK'
  BY <1>10 DEF TranslationsOK
<1> QED BY <1>1, <1>4, <1>7, <1>8, <1>9, <1>11 DEF MemoryInv

\* The same for a step that writes nothing.
LEMMA EngineMoves ==
  ASSUME MemoryInv, NEW e \in Engines, NEW d \in EngineType, EngineAt(d),
         eng' = [eng EXCEPT ![e] = d],
         access' = IF d.pc \in InsidePC THEN access \cup {e} ELSE access \ {e},
         pte' \in [Pages -> [at : Frames \cup {Host}, dirty : BOOLEAN]],
         \A v \in Pages : pte'[v].at = pte[v].at /\ (pte[v].dirty => pte'[v].dirty),
         tlb' \in [Engines -> [Pages -> Entries]], stale' \subseteq Engines,
         \A u \in Engines \ {e} : tlb'[u] = tlb[u] /\ (u \in stale' <=> u \in stale),
         \/ mig' = mig
         \/ mig.odd = e /\ mig' = [mig EXCEPT !.odd = None],
         UNCHANGED <<dataVars, free, toucher, uffd>>,
         faults' \in Seq(FaultType), uvm' \in UvmType,
         expect' \in [Engines -> SUBSET Int],
         count' \in [cmds : Nat, touches : Nat, evicts : Nat],
         \A l \in {"migrate", "prefetch"} : uvm.pc = l => uvm'.pc = l,
         FaultsOK', HeldAt(e)', TagAt(e)', TlbAt(e)', DirtyAt(e)'
  PROVE  MemoryInv'
<1>1. /\ TypeOK /\ Frames' = Frames /\ frame' = frame /\ host' = host /\ written' = written
      /\ free' = free /\ toucher' = toucher /\ uffd' = uffd
  BY DEF MemoryInv, dataVars, Frames
<1>2. /\ mig'.pc = mig.pc /\ mig'.want = mig.want /\ mig'.victim = mig.victim
      /\ mig'.at = mig.at /\ mig'.dirty = mig.dirty /\ mig'.then = mig.then
  BY <1>1 DEF TypeOK, MigrationType
<1>3. /\ \A v \in Pages : /\ Resident(v)' <=> Resident(v)
                          /\ Leaving(v)' <=> Leaving(v)
                          /\ Dirtied(v) => Dirtied(v)'
      /\ Evicting' <=> Evicting
  BY <1>2 DEF Resident, Leaving, Dirtied, Evicting, Shooting
<1>4. DataOK'
  <2>1. DataOK /\ (Quiet' <=> Quiet)
    BY <1>1 DEF MemoryInv, Quiet
  <2>2. ASSUME Quiet, NEW v \in Pages
        PROVE  IF Resident(v)' THEN frame'[pte'[v].at] = <<v, written'[v]>>
               ELSE ~Leaving(v)' => host'[v] = written'[v]
    <3>1. IF Resident(v) THEN frame[pte[v].at] = <<v, written[v]>>
          ELSE ~Leaving(v) => host[v] = written[v]
      BY <2>1, <2>2 DEF DataOK
    <3> QED BY <1>1, <1>3, <3>1
  <2>3. Quiet /\ Evicting' => frame'[mig'.at] = <<mig'.victim, written'[mig'.victim]>>
    BY <1>1, <1>2, <1>3, <2>1 DEF DataOK
  <2>4. Quiet /\ mig'.pc = "resident" => frame'[mig'.at] = <<mig'.want, written'[mig'.want]>>
    BY <1>1, <1>2, <2>1 DEF DataOK
  <2>5. Quiet /\ ~uffd' => \A v \in Pages : ~Dirtied(v)' => host'[v] = written'[v]
    BY <1>1, <1>3, <2>1 DEF DataOK
  <2>6. Quiet /\ ~uffd' /\ mig'.pc = "publish" /\ ~mig'.dirty =>
          host'[mig'.victim] = written'[mig'.victim]
    BY <1>1, <1>2, <2>1 DEF DataOK
  <2> QED BY <2>1, <2>2, <2>3, <2>4, <2>5, <2>6 DEF DataOK
<1>5. frame \in [Frames -> (Pages \cup {0}) \X Nat] /\ written \in [Pages -> Nat]
  BY <1>1 DEF TypeOK
<1> QED BY <1>1, <1>4, <1>5, EngineWrites

\* The faults are the same as long as a parked engine stays parked.
LEMMA FaultsKept ==
  ASSUME MemoryInv, NEW e \in Engines, NEW d, eng' = [eng EXCEPT ![e] = d],
         eng[e].pc # "parked", UNCHANGED <<faults, uvm>>
  PROVE  FaultsOK'
<1>1. /\ faults \in Seq(FaultType) /\ FaultsOK
      /\ eng'[e] = d /\ \A u \in Engines \ {e} : eng'[u] = eng[u]
  BY DEF MemoryInv, TypeOK
<1>2. \A i \in 1 .. Len(faults) : faults[i].engine \in Engines
  <2>1. \A i \in 1 .. Len(faults) : faults[i] \in FaultType
    BY <1>1
  <2> QED BY <2>1 DEF FaultType
<1>3. \A i \in 1 .. Len(faults) : eng'[faults[i].engine].pc = "parked"
  BY <1>1, <1>2 DEF FaultsOK
<1>4. Serving => /\ uvm.engine \in Engines /\ uvm.page \in Pages
                 /\ eng'[uvm.engine].pc = "parked"
  BY <1>1 DEF FaultsOK
<1> QED BY <1>1, <1>3, <1>4 DEF FaultsOK, Serving

\* A step within a command that uses no translation but valid ones.
LEMMA InsideStep ==
  ASSUME MemoryInv, NEW e \in Engines, NEW d \in EngineType, EngineAt(d),
         eng[e].pc \in InsidePC, d.pc \in InsidePC,
         eng' = [eng EXCEPT ![e] = d],
         pte' \in [Pages -> [at : Frames \cup {Host}, dirty : BOOLEAN]],
         \A v \in Pages : pte'[v].at = pte[v].at /\ (pte[v].dirty => pte'[v].dirty),
         tlb' \in [Engines -> [Pages -> Entries]], stale' \subseteq Engines,
         \A u \in Engines \ {e} : tlb'[u] = tlb[u] /\ (u \in stale' <=> u \in stale),
         UNCHANGED <<access, dataVars, mig, envVars>>,
         \A v \in Pages : \A f \in Frames : Refers(d, v, f) => Valid(e, v, f),
         TagAt(e)', TlbAt(e)', DirtyAt(e)'
  PROVE  MemoryInv'
<1>1. UNCHANGED <<faults, uvm, expect, toucher, count, uffd, free, mig, access, dataVars>>
  BY DEF envVars, uvmVars
<1>2. /\ faults' \in Seq(FaultType) /\ uvm' \in UvmType
      /\ expect' \in [Engines -> SUBSET Int]
      /\ count' \in [cmds : Nat, touches : Nat, evicts : Nat]
  BY <1>1 DEF MemoryInv, TypeOK
<1>3. FaultsOK'
  BY <1>1, FaultsKept DEF InsidePC, RegPC
<1>4. access' = IF d.pc \in InsidePC THEN access \cup {e} ELSE access \ {e}
  BY <1>1 DEF MemoryInv, EnginesOK
<1>5. HeldAt(e)'
  <2>1. eng'[e] = d /\ Frames' = Frames
    BY <1>1 DEF MemoryInv, TypeOK, dataVars, Frames
  <2>2. \A v \in Pages : \A f : Valid(e, v, f)' <=> Valid(e, v, f)
    BY <1>1 DEF Valid, AwaitedBy, Shooting
  <2> QED BY <2>1, <2>2 DEF HeldAt
<1> QED BY <1>1, <1>2, <1>3, <1>4, <1>5, EngineMoves

\* What the invariant says of engine e, its TLB and its translations.
LEMMA EngineFacts ==
  ASSUME MemoryInv, NEW e \in Engines
  PROVE  /\ eng[e] \in EngineType /\ EngineAt(eng[e])
         /\ HeldAt(e) /\ TagAt(e) /\ TlbAt(e) /\ DirtyAt(e)
         /\ \A v \in Pages : tlb[e][v] \in Entries
         /\ \A v \in Pages : pte[v].at \in Frames \cup {Host} /\ pte[v].dirty \in BOOLEAN
         /\ pte \in [Pages -> [at : Frames \cup {Host}, dirty : BOOLEAN]]
         /\ tlb \in [Engines -> [Pages -> Entries]] /\ stale \subseteq Engines
         /\ eng \in [Engines -> EngineType]
BY DEF MemoryInv, TypeOK, EnginesOK, TranslationsOK

\* What a hit returns, outside a re-check, is valid.
LEMMA HitValid ==
  ASSUME MemoryInv, NEW e \in Engines, NEW v \in Pages, eng[e].pc # "recheck",
         tlb[e][v].at # Uncached
  PROVE  tlb[e][v].at \in Frames /\ Valid(e, v, tlb[e][v].at)
<1>1. tlb[e][v].at \in Frames /\ TlbAt(e)
  BY EngineFacts DEF Entries
<1>2. CASE tlb[e][v].at = pte[v].at
  BY <1>1, <1>2 DEF Valid
<1>3. CASE Shot(e, v)
  <2>1. mig.victim = v
    BY <1>3 DEF Shot, MemoryInv, MigrationOK, ShootOK
  <2> QED BY <1>1, <1>3, <2>1 DEF Shot, Valid, AwaitedBy
<1> QED BY <1>1, <1>2, <1>3 DEF TlbAt, Rechecks

----------------------------------------------------------------------------
(* Mmu::translate, walk and tlb_insert                                     *)

LEMMA TlbHitInv ==
  ASSUME MemoryInv, NEW e \in Engines, TlbHit(e)
  PROVE  MemoryInv'
<1> DEFINE c == eng[e]
           v == Now(c).page
           entry == tlb[e][v]
<1>1. /\ c \in EngineType /\ EngineAt(c) /\ c.pc \in InsidePC
      /\ c.done < Len(Todo(c)) /\ Len(c.got) < Len(RunOf(c))
      /\ Cur(e) = Now(c) /\ Now(c) \in Access /\ v \in Pages
  BY Translates DEF TlbHit
<1>2. c.pc = "translate" /\ entry.at # Uncached
  BY <1>1 DEF TlbHit, Translating
<1>3. entry \in Entries /\ entry.at \in Frames /\ Valid(e, v, entry.at)
  BY <1>1, <1>2, HitValid, EngineFacts
<1>4. UNCHANGED <<pte, tlb, stale, access, dataVars, mig, envVars>>
  BY DEF TlbHit, mmuVars
<1>5. ASSUME NEW d \in EngineType, EngineAt(d), d.pc \in {"translate", "dirty"},
             eng' = [eng EXCEPT ![e] = d], Now(d) = Now(c) \/ d.pc = "translate",
             \A u, f : Refers(d, u, f) => Refers(c, u, f) \/ (u = v /\ f = entry.at),
             \A u : Writes(d, u) => Writes(c, u) \/ (Now(c) = W(u) /\ entry.dirty),
             d.pc = "dirty" => d.reg = entry
      PROVE  MemoryInv'
  <2>1. eng'[e] = d
    BY <1>5, EngineFacts
  <2>2. \A u \in Pages : \A f \in Frames : Refers(d, u, f) => Valid(e, u, f)
    BY <1>3, <1>5, EngineFacts DEF HeldAt
  <2>3. TagAt(e)'
    BY <1>5, <2>1 DEF TagAt
  <2>4. TlbAt(e)'
    BY <1>2, <1>4, EngineFacts DEF TlbAt, Rechecks, Shot, Shooting
  <2>5. DirtyAt(e)'
    <3>1. \A u \in Pages : Dirtied(u)' <=> Dirtied(u)
      BY <1>4 DEF Dirtied, Leaving, Evicting, Shooting
    <3>2. uffd' = uffd /\ tlb' = tlb /\ DirtyAt(e)
      BY <1>4, EngineFacts DEF envVars
    <3>3. ~uffd /\ entry.dirty => Dirtied(v)
      BY <1>1, <1>2, <3>2 DEF DirtyAt
    <3>4. \A u \in Pages : Now(c) = W(u) => u = v
      BY DEF W
    <3> QED BY <1>1, <1>5, <2>1, <3>1, <3>2, <3>3, <3>4 DEF DirtyAt, RegPC
  <2> QED BY <1>1, <1>4, <1>5, <2>2, <2>3, <2>4, <2>5, InsideStep, EngineFacts
          DEF InsidePC, RegPC
<1>6. CASE NeedsDirty(e)
  <2> DEFINE d == [c EXCEPT !.pc = "dirty", !.reg = entry]
  <2>1. eng' = [eng EXCEPT ![e] = d]
    BY <1>1, <1>6 DEF TlbHit, EngineStep
  <2>2. /\ d \in EngineType /\ d.pc = "dirty" /\ d.reg = entry
        /\ d.op = c.op /\ d.pages = c.pages /\ d.gather = c.gather /\ d.done = c.done
        /\ d.got = c.got
    BY <1>1, <1>3 DEF EngineType, InsidePC, RegPC
  <2> HIDE DEF d
  <2>3. /\ EngineAt(d) /\ Now(d) = Now(c)
        /\ \A u, f : Refers(d, u, f) => Refers(c, u, f) \/ (u = v /\ f = entry.at)
        /\ \A u : Writes(d, u) => Writes(c, u)
    BY <1>1, <1>2, <2>2, RecordReg DEF RegPC
  <2> QED BY <1>5, <2>1, <2>2, <2>3
<1>7. CASE ~NeedsDirty(e)
  <2> DEFINE d == WithFrame(c, entry.at)
  <2>1. eng' = [eng EXCEPT ![e] = d]
    BY <1>1, <1>7 DEF TlbHit, EngineStep, Got, WithFrame
  <2>2. /\ d \in EngineType /\ EngineAt(d) /\ d.pc = "translate"
        /\ \A u, f : Refers(d, u, f) => Refers(c, u, f) \/ (u = v /\ f = entry.at)
        /\ \A u : Writes(d, u) => Writes(c, u) \/ Now(c) = W(u)
    BY <1>1, <1>3, RecordGot
  <2> HIDE DEF d
  <2>3. \A u : Now(c) = W(u) => entry.dirty
    BY <1>1, <1>3, <1>7 DEF NeedsDirty, W, Entries
  <2>4. /\ \A u : Writes(d, u) => Writes(c, u) \/ (Now(c) = W(u) /\ entry.dirty)
        /\ d.pc \in {"translate", "dirty"} /\ d.pc # "dirty"
    BY <2>2, <2>3
  <2> QED BY <1>5, <2>1, <2>2, <2>4
<1> QED BY <1>6, <1>7

\* Who may write has set DIRTY, after a step that adds the access at hand.
LEMMA DirtyKept ==
  ASSUME MemoryInv, NEW e \in Engines, NEW d, eng'[e] = d, UNCHANGED <<mig, uffd>>,
         \A u \in Pages : pte[u].dirty => pte'[u].dirty,
         \A u \in Pages : Writes(d, u) =>
           Writes(eng[e], u) \/ (~uffd => Dirtied(u)'),
         \A u \in Pages : tlb'[e][u].at # Uncached /\ tlb'[e][u].dirty =>
           (tlb[e][u].at # Uncached /\ tlb[e][u].dirty) \/ (~uffd => Dirtied(u)'),
         \A u \in Pages : d.pc \in RegPC /\ d.reg.dirty /\ u = Now(d).page =>
           (~uffd => Dirtied(u)')
  PROVE  DirtyAt(e)'
<1>1. DirtyAt(e)
  BY EngineFacts
<1>2. \A u \in Pages : Dirtied(u) => Dirtied(u)'
  BY DEF Dirtied, Leaving, Evicting, Shooting
<1> QED BY <1>1, <1>2 DEF DirtyAt

\* The access at hand, when it is a write, is to the page at hand.
LEMMA WriteAtHand ==
  ASSUME NEW c, NEW u, Now(c) = W(u)
  PROVE  u = Now(c).page /\ Now(c).write
BY DEF W

LEMMA HitSetsDirtyInv ==
  ASSUME MemoryInv, NEW e \in Engines, HitSetsDirty(e)
  PROVE  MemoryInv'
<1> DEFINE c == eng[e]
           d == WithFrame(c, c.reg.at)
<1>v. PICK v : v = Now(c).page
  OBVIOUS
<1>0. c.pc = "dirty" /\ c.pc \in RegPC
  BY DEF HitSetsDirty, RegPC
<1>1. /\ c \in EngineType /\ EngineAt(c) /\ c.pc \in InsidePC
      /\ c.done < Len(Todo(c)) /\ Len(c.got) < Len(RunOf(c))
      /\ Cur(e) = Now(c) /\ v \in Pages /\ c.reg.at \in Frames
  BY <1>0, <1>v, Translates
<1>2. eng' = [eng EXCEPT ![e] = d]
  BY DEF HitSetsDirty, EngineStep, Got, WithFrame
<1>3. /\ d \in EngineType /\ EngineAt(d) /\ d.pc = "translate"
      /\ \A u, f : Refers(d, u, f) => Refers(c, u, f) \/ (u = v /\ f = c.reg.at)
      /\ \A u : Writes(d, u) => Writes(c, u) \/ Now(c) = W(u)
  BY <1>1, <1>v, RecordGot
<1> HIDE DEF d
<1>4. eng'[e] = d
  BY <1>2, EngineFacts
<1>5. /\ pte' = [pte EXCEPT ![v].dirty = TRUE] /\ tlb' = [tlb EXCEPT ![e][v].dirty = TRUE]
      /\ UNCHANGED <<stale, access, dataVars, mig, envVars>>
  BY <1>1, <1>v DEF HitSetsDirty, SetDirty
<1>6. /\ pte' \in [Pages -> [at : Frames \cup {Host}, dirty : BOOLEAN]]
      /\ \A u \in Pages : pte'[u].at = pte[u].at /\ (pte[u].dirty => pte'[u].dirty)
      /\ pte'[v].dirty
  BY <1>1, <1>5, EngineFacts
<1>7. /\ tlb' \in [Engines -> [Pages -> Entries]]
      /\ \A u \in Engines \ {e} : tlb'[u] = tlb[u]
      /\ \A u \in Pages : tlb'[e][u].at = tlb[e][u].at
      /\ \A u \in Pages \ {v} : tlb'[e][u] = tlb[e][u]
  <2>1. [tlb[e][v] EXCEPT !.dirty = TRUE] \in Entries
    BY <1>1, EngineFacts DEF Entries
  <2>2. tlb' = [tlb EXCEPT ![e] = [tlb[e] EXCEPT ![v] = [tlb[e][v] EXCEPT !.dirty = TRUE]]]
    BY <1>1, <1>5, EngineFacts
  <2>3. [tlb[e][v] EXCEPT !.dirty = TRUE].at = tlb[e][v].at
    BY <1>1, EngineFacts DEF Entries
  <2> QED BY <1>1, <2>1, <2>2, <2>3, EngineFacts
<1>8. \A u \in Pages : \A f \in Frames : Refers(d, u, f) => Valid(e, u, f)
  <2>1. Refers(c, v, c.reg.at)
    BY <1>0, <1>v DEF Refers
  <2> QED BY <1>1, <1>3, <2>1, EngineFacts DEF HeldAt
<1>9. TagAt(e)'
  BY <1>3, <1>4 DEF TagAt
<1>10. TlbAt(e)'
  BY <1>0, <1>5, <1>6, <1>7, EngineFacts DEF TlbAt, Rechecks, Shot, Shooting
<1>11. DirtyAt(e)'
  <2>1. Dirtied(v)' /\ UNCHANGED <<mig, uffd>>
    BY <1>5, <1>6 DEF Dirtied, envVars
  <2>2. \A u \in Pages : Writes(d, u) => Writes(c, u) \/ Dirtied(u)'
    BY <1>3, <1>v, <2>1, WriteAtHand
  <2>3. \A u \in Pages : tlb'[e][u].at # Uncached /\ tlb'[e][u].dirty =>
           (tlb[e][u].at # Uncached /\ tlb[e][u].dirty) \/ Dirtied(u)'
    BY <1>7, <2>1
  <2> QED BY <1>3, <1>4, <1>6, <2>1, <2>2, <2>3, DirtyKept DEF RegPC
<1> QED BY <1>1, <1>2, <1>3, <1>5, <1>6, <1>7, <1>8, <1>9, <1>10, <1>11,
           InsideStep, EngineFacts DEF InsidePC

\* A step that only moves on with what is in eng[e].reg.
LEMMA CarriesOn ==
  ASSUME MemoryInv, NEW e \in Engines, NEW l \in RegPC, eng[e].pc \in RegPC, At(e, l),
         UNCHANGED <<pte, access, dataVars, mig, envVars>>,
         eng[e].pc \in {"dirty", "walk"} /\ l \notin {"dirty", "walk"} =>
           ~Now(eng[e]).write \/ eng[e].reg.dirty,
         tlb' \in [Engines -> [Pages -> Entries]], stale' \subseteq Engines,
         \A u \in Engines \ {e} : tlb'[u] = tlb[u] /\ (u \in stale' <=> u \in stale),
         \A u \in Pages : \/ tlb'[e][u] = tlb[e][u]
                          \/ tlb'[e][u].at = Uncached
                          \/ u = Now(eng[e]).page /\ tlb'[e][u] = eng[e].reg,
         ASSUME NEW d, eng'[e] = d, d.pc = l, d.reg = eng[e].reg, Now(d) = Now(eng[e])
         PROVE  TagAt(e)' /\ TlbAt(e)'
  PROVE  MemoryInv'
<1> DEFINE c == eng[e]
           d == [c EXCEPT !.pc = l]
<1>v. PICK v : v = Now(c).page
  OBVIOUS
<1>1. /\ c \in EngineType /\ EngineAt(c) /\ c.pc \in InsidePC
      /\ c.done < Len(Todo(c)) /\ Len(c.got) < Len(RunOf(c))
      /\ v \in Pages /\ Now(c).write \in BOOLEAN /\ c.reg.at \in Frames
  BY <1>v, Translates
<1>2. eng' = [eng EXCEPT ![e] = d]
  BY DEF At, EngineStep
<1>3. /\ d \in EngineType /\ d.pc = l /\ d.reg = c.reg /\ d.reg.at # Uncached
      /\ d.op = c.op /\ d.pages = c.pages /\ d.gather = c.gather /\ d.done = c.done
      /\ d.got = c.got
  BY <1>1 DEF EngineType, EngineAt, InsidePC
<1> HIDE DEF d
<1>4. eng'[e] = d
  BY <1>2, EngineFacts
<1>5. /\ EngineAt(d) /\ Now(d) = Now(c)
      /\ \A u, f : Refers(d, u, f) => Refers(c, u, f) \/ (u = v /\ f = c.reg.at)
      /\ \A u : Writes(d, u) => Writes(c, u) \/ (l \notin {"dirty", "walk"} /\ Now(c) = W(u))
  BY <1>1, <1>3, <1>v, RecordReg
<1>6. TagAt(e)' /\ TlbAt(e)'
  BY <1>3, <1>4, <1>5
<1>7. \A u \in Pages : \A f \in Frames : Refers(d, u, f) => Valid(e, u, f)
  <2>1. Refers(c, v, c.reg.at)
    BY <1>v DEF Refers
  <2> QED BY <1>1, <1>5, <2>1, EngineFacts DEF HeldAt
<1>8. DirtyAt(e)'
  <2>1. UNCHANGED <<pte, mig, uffd>> /\ \A u : Dirtied(u)' <=> Dirtied(u)
    BY DEF envVars, Dirtied, Leaving, Evicting, Shooting
  <2>2. ~uffd /\ c.reg.dirty => Dirtied(v)
    BY <1>1, <1>v, EngineFacts DEF DirtyAt
  <2>3. \A u \in Pages : Writes(d, u) => Writes(c, u) \/ (~uffd => Dirtied(u)')
    <3>1. ASSUME NEW u \in Pages, l \notin {"dirty", "walk"}, Now(c) = W(u)
          PROVE  Writes(c, u) \/ (~uffd => Dirtied(u)')
      <4>1. u = v /\ Now(c).write
        BY <1>v, <3>1, WriteAtHand
      <4>2. CASE c.pc \in {"dirty", "walk"}
        BY <2>1, <2>2, <3>1, <4>1, <4>2
      <4>3. CASE c.pc \notin {"dirty", "walk"}
        BY <3>1, <4>3 DEF Writes
      <4> QED BY <4>2, <4>3
    <3> QED BY <1>5, <3>1
  <2>4. \A u \in Pages : tlb'[e][u].at # Uncached /\ tlb'[e][u].dirty =>
           (tlb[e][u].at # Uncached /\ tlb[e][u].dirty) \/ (~uffd => Dirtied(u)')
    BY <1>v, <2>1, <2>2
  <2>5. \A u \in Pages : d.pc \in RegPC /\ d.reg.dirty /\ u = Now(d).page =>
          (~uffd => Dirtied(u)')
    BY <1>3, <1>5, <1>v, <2>1, <2>2
  <2> QED BY <1>4, <2>1, <2>3, <2>4, <2>5, DirtyKept
<1>9. /\ pte' \in [Pages -> [at : Frames \cup {Host}, dirty : BOOLEAN]]
      /\ \A u \in Pages : pte'[u].at = pte[u].at /\ (pte[u].dirty => pte'[u].dirty)
  BY EngineFacts
<1> QED BY <1>1, <1>2, <1>3, <1>5, <1>6, <1>7, <1>8, <1>9, InsideStep DEF InsidePC

----------------------------------------------------------------------------
(* Steps after which an engine has no translation                          *)

LEMMA EmptyHanded ==
  ASSUME MemoryInv, NEW e \in Engines, NEW d \in EngineType, EngineAt(d),
         eng[e].pc # "recheck", d.pc \in OutsidePC \/ d.pc = "translate", d.got = <<>>,
         eng' = [eng EXCEPT ![e] = d],
         access' = IF d.pc \in InsidePC THEN access \cup {e} ELSE access \ {e},
         pte' \in [Pages -> [at : Frames \cup {Host}, dirty : BOOLEAN]],
         \A v \in Pages : pte'[v].at = pte[v].at /\ (pte[v].dirty => pte'[v].dirty),
         \/ mig' = mig
         \/ mig.odd = e /\ mig' = [mig EXCEPT !.odd = None],
         UNCHANGED <<tlb, stale, dataVars, free, toucher, uffd>>,
         faults' \in Seq(FaultType), uvm' \in UvmType,
         expect' \in [Engines -> SUBSET Int],
         count' \in [cmds : Nat, touches : Nat, evicts : Nat],
         \A l \in {"migrate", "prefetch"} : uvm.pc = l => uvm'.pc = l,
         FaultsOK'
  PROVE  MemoryInv'
<1>1. /\ tlb' = tlb /\ stale' = stale /\ uffd' = uffd /\ Frames' = Frames
      /\ eng'[e] = d /\ UNCHANGED <<dataVars, free, toucher, uffd>>
  BY EngineFacts DEF dataVars, Frames
<1>2. /\ mig'.pc = mig.pc /\ mig'.victim = mig.victim /\ mig'.at = mig.at
      /\ mig'.dirty = mig.dirty /\ mig'.shoot = mig.shoot /\ mig'.then = mig.then
      /\ mig'.left = mig.left
  <2>1. mig \in MigrationType
    BY DEF MemoryInv, TypeOK
  <2> QED BY <2>1 DEF MigrationType
<1>3. d.pc \notin RegPC
  BY DEF OutsidePC, RegPC
<1>4. HeldAt(e)' /\ TagAt(e)'
  BY <1>1, <1>3, RecordOutside DEF HeldAt, TagAt, RegPC
<1>5. TlbAt(e)'
  <2>1. \A v \in Pages : tlb[e][v].at \in {Uncached, pte[v].at} \/ Shot(e, v)
    BY EngineFacts DEF TlbAt, Rechecks
  <2>2. \A v \in Pages : Shot(e, v) => Shot(e, v)'
    BY <1>1, <1>2 DEF Shot, Shooting
  <2> QED BY <1>1, <2>1, <2>2 DEF TlbAt
<1>6. DirtyAt(e)'
  <2>1. \A u \in Pages : Dirtied(u) => Dirtied(u)'
    BY <1>2 DEF Dirtied, Leaving, Evicting, Shooting
  <2>2. DirtyAt(e)
    BY EngineFacts
  <2> QED BY <1>1, <1>3, <2>1, <2>2, RecordOutside DEF DirtyAt
<1> QED BY <1>1, <1>4, <1>5, <1>6, EngineMoves, EngineFacts

\* Leave, and what it does to the migration.
LEMMA LeaveStep ==
  ASSUME NEW e \in Engines, Leave(e)
  PROVE  /\ access' = access \ {e}
         /\ mig' = mig \/ (mig.odd = e /\ mig' = [mig EXCEPT !.odd = None])
BY DEF Leave

\* A page fault parks the engine, which is not parked, and queues its fault.
LEMMA PageFaultInv ==
  ASSUME MemoryInv, NEW e \in Engines, eng[e].pc \in {"translate", "walk"},
         eng[e].pc \in RegPC \/ Translating(e), PageFault(e),
         pte' \in [Pages -> [at : Frames \cup {Host}, dirty : BOOLEAN]],
         \A v \in Pages : pte'[v].at = pte[v].at /\ (pte[v].dirty => pte'[v].dirty),
         UNCHANGED <<tlb, stale, dataVars, free, uvmVars, toucher, count, uffd>>
  PROVE  MemoryInv'
<1> DEFINE c == eng[e]
           d == Faulted(c)
           x == [engine |-> e, page |-> Cur(e).page]
<1>1. /\ c \in EngineType /\ EngineAt(c) /\ c.pc \in InsidePC
      /\ c.done < Len(Todo(c)) /\ Cur(e) = Now(c) /\ Now(c).page \in Pages
  BY Translates
<1>2. /\ d \in EngineType /\ d.pc = "parked" /\ d.got = <<>>
      /\ d.op = c.op /\ d.pages = c.pages /\ d.done = c.done
      /\ d.gather = (c.op = "compute")
  <2>1. NoEntry \in Entries /\ <<>> \in Seq(Frames)
    BY DEF NoEntry, Entries
  <2> HIDE DEF NoEntry, Entries
  <2> QED BY <1>1, <2>1 DEF Faulted, EngineType, OutsidePC
<1>3. EngineAt(d)
  <2>1. IsCommand(c.op, c.pages) /\ c.gather \in BOOLEAN /\ c.done \in Nat
    BY <1>1 DEF EngineAt, EngineType, InsidePC, RegPC
  <2>2. c.done <= Len(Runs(c.op, c.pages, (c.op = "compute")))
    BY <1>1, <2>1, ScratchRuns DEF Todo
  <2>3. d.done <= Len(Todo(d))
    BY <1>2, <2>2 DEF Todo
  <2> QED BY <1>2, <2>1, <2>3 DEF EngineAt, RegPC, OutsidePC
<1>4. /\ eng' = [eng EXCEPT ![e] = d] /\ faults' = Append(faults, x) /\ Leave(e)
  BY DEF PageFault, EngineStep
<1>5. /\ faults \in Seq(FaultType) /\ uvm' = uvm /\ uvm \in UvmType
      /\ expect' = expect /\ expect \in [Engines -> SUBSET Int]
      /\ count' = count /\ count \in [cmds : Nat, touches : Nat, evicts : Nat] /\ FaultsOK
  BY DEF MemoryInv, TypeOK, uvmVars
<1>6. x \in FaultType /\ x.engine = e
  BY <1>1 DEF FaultType
<1> HIDE DEF d, x
<1>7. eng'[e] = d /\ \A u \in Engines \ {e} : eng'[u] = eng[u]
  BY <1>4, EngineFacts
<1>8. /\ faults' \in Seq(FaultType) /\ Len(faults') = Len(faults) + 1
      /\ \A i \in 1 .. Len(faults) : faults'[i] = faults[i]
      /\ faults'[Len(faults) + 1] = x /\ Len(faults) \in Nat
  BY <1>4, <1>5, <1>6
<1>9. \A i \in 1 .. Len(faults) : faults[i].engine \in Engines \ {e}
  <2>1. \A i \in 1 .. Len(faults) : faults[i] \in FaultType /\ faults[i].engine # e
    BY <1>5 DEF FaultsOK
  <2> QED BY <2>1 DEF FaultType
<1>10. Serving => uvm.engine \in Engines \ {e}
  BY <1>5 DEF FaultsOK
<1>11. FaultsOK'
  <2>1. \A i \in 1 .. Len(faults') : i \in 1 .. Len(faults) \/ i = Len(faults) + 1
    BY <1>8
  <2>2. \A i \in 1 .. Len(faults') : eng'[faults'[i].engine].pc = "parked"
    BY <1>2, <1>5, <1>6, <1>7, <1>8, <1>9, <2>1 DEF FaultsOK
  <2>3. \A i \in 1 .. Len(faults') : Serving' => faults'[i].engine # uvm'.engine
    <3>1. Serving' <=> Serving
      BY <1>5 DEF Serving
    <3> QED BY <1>5, <1>6, <1>8, <1>10, <2>1, <3>1 DEF FaultsOK
  <2>4. \A i, j \in 1 .. Len(faults') : faults'[i].engine = faults'[j].engine => i = j
    <3>0. \A i, j \in 1 .. Len(faults) : faults[i].engine = faults[j].engine => i = j
      BY <1>5 DEF FaultsOK
    <3> SUFFICES ASSUME NEW i \in 1 .. Len(faults'), NEW j \in 1 .. Len(faults'),
                        faults'[i].engine = faults'[j].engine
                 PROVE  i = j
      OBVIOUS
    <3>1. ASSUME NEW k \in 1 .. Len(faults) PROVE faults'[k].engine # e
      <4>1. faults'[k] = faults[k] /\ faults[k].engine # e
        BY <1>8, <1>9
      <4> QED BY <4>1
    <3>2. faults'[Len(faults) + 1].engine = e
      BY <1>6, <1>8
    <3>3. CASE i \in 1 .. Len(faults) /\ j \in 1 .. Len(faults)
      <4>1. faults'[i] = faults[i] /\ faults'[j] = faults[j]
        BY <1>8, <3>3
      <4> QED BY <3>0, <3>3, <4>1
    <3>4. CASE i = Len(faults) + 1 \/ j = Len(faults) + 1
      BY <2>1, <3>1, <3>2, <3>4
    <3> QED BY <2>1, <3>3, <3>4
  <2>5. /\ Serving' => /\ uvm'.engine \in Engines /\ uvm'.page \in Pages
                       /\ eng'[uvm'.engine].pc = "parked"
        /\ uvm'.pc = "prefetch" => uvm'.engine \in Engines
    BY <1>5, <1>7, <1>10 DEF FaultsOK, Serving
  <2> QED BY <2>2, <2>3, <2>4, <2>5 DEF FaultsOK
<1>12. access' = IF d.pc \in InsidePC THEN access \cup {e} ELSE access \ {e}
  BY <1>2, <1>4, LeaveStep DEF InsidePC, RegPC
<1> QED BY <1>2, <1>3, <1>4, <1>5, <1>8, <1>11, <1>12, LeaveStep, EmptyHanded DEF OutsidePC

LEMMA WalkInv ==
  ASSUME MemoryInv, NEW e \in Engines, Walk(e)
  PROVE  MemoryInv'
<1> DEFINE c == eng[e]
<1>v. PICK v : v = Now(c).page
  OBVIOUS
<1>1. /\ c \in EngineType /\ EngineAt(c) /\ c.pc = "translate" /\ c.pc \in InsidePC
      /\ c.done < Len(Todo(c)) /\ Len(c.got) < Len(RunOf(c))
      /\ Cur(e) = Now(c) /\ v \in Pages
  BY <1>v, Translates DEF Walk, Translating
<1>2. /\ UNCHANGED <<pte, tlb, stale>>
      /\ UNCHANGED <<dataVars, free, uvmVars, toucher, count, uffd>>
  BY DEF Walk
<1>3. /\ pte' \in [Pages -> [at : Frames \cup {Host}, dirty : BOOLEAN]]
      /\ \A u \in Pages : pte'[u].at = pte[u].at /\ (pte[u].dirty => pte'[u].dirty)
  BY <1>2, EngineFacts
<1>4. CASE Resident(v)
  <2> DEFINE d == [c EXCEPT !.pc = "walk", !.reg = pte[v]]
  <2>1. /\ eng' = [eng EXCEPT ![e] = d]
        /\ UNCHANGED <<access, dataVars, mig, envVars>>
    BY <1>1, <1>2, <1>4, <1>v DEF Walk, EngineStep, envVars, uvmVars
  <2>2. pte[v] \in Entries /\ pte[v].at \in Frames /\ pte[v].at # Uncached
    BY <1>1, <1>4, EngineFacts, FrameNumbers DEF Entries, MemoryInv
  <2>3. /\ d \in EngineType /\ d.pc = "walk" /\ d.reg = pte[v]
        /\ d.op = c.op /\ d.pages = c.pages /\ d.gather = c.gather /\ d.done = c.done
        /\ d.got = c.got
    BY <1>1, <2>2 DEF EngineType, InsidePC, RegPC
  <2> HIDE DEF d
  <2>4. /\ EngineAt(d) /\ Now(d) = Now(c) /\ d.pc \in InsidePC
        /\ \A u, f : Refers(d, u, f) => Refers(c, u, f) \/ (u = v /\ f = pte[v].at)
        /\ \A u : Writes(d, u) => Writes(c, u)
    BY <1>1, <1>v, <2>2, <2>3, RecordReg DEF RegPC, InsidePC
  <2>5. eng'[e] = d
    BY <2>1, EngineFacts
  <2>6. \A u \in Pages : \A f \in Frames : Refers(d, u, f) => Valid(e, u, f)
    BY <2>4, EngineFacts DEF HeldAt, Valid
  <2>7. TagAt(e)'
    BY <2>3, <2>5 DEF TagAt
  <2>8. TlbAt(e)'
    BY <1>1, <1>2, <2>1, EngineFacts DEF TlbAt, Rechecks, Shot, Shooting
  <2>9. DirtyAt(e)'
    <3>1. UNCHANGED <<mig, uffd, pte, tlb>>
      BY <1>2, <2>1 DEF envVars
    <3>2. \A u \in Pages : d.reg.dirty /\ u = Now(d).page => Dirtied(u)'
      BY <1>v, <2>3, <2>4, <3>1 DEF Dirtied
    <3> QED BY <1>3, <2>4, <2>5, <3>1, <3>2, DirtyKept
  <2> QED BY <1>1, <1>2, <1>3, <2>1, <2>3, <2>4, <2>6, <2>7, <2>8, <2>9, InsideStep, EngineFacts
<1>5. CASE ~Resident(v)
  <2>1. PageFault(e) /\ Translating(e)
    BY <1>1, <1>5, <1>v DEF Walk
  <2> QED BY <1>1, <1>2, <1>3, <2>1, PageFaultInv
<1> QED BY <1>4, <1>5

LEMMA WalkBitsInv ==
  ASSUME MemoryInv, NEW e \in Engines, WalkBits(e)
  PROVE  MemoryInv'
<1> DEFINE c == eng[e]
<1>v. PICK v : v = Now(c).page
  OBVIOUS
<1>0. c.pc = "walk" /\ c.pc \in RegPC
  BY DEF WalkBits, RegPC
<1>1. /\ c \in EngineType /\ EngineAt(c) /\ c.pc \in InsidePC
      /\ c.done < Len(Todo(c)) /\ Len(c.got) < Len(RunOf(c)) /\ c.reg.at \in Frames
      /\ Cur(e) = Now(c) /\ v \in Pages /\ Now(c).write \in BOOLEAN
  BY <1>0, <1>v, Translates
<1>2. UNCHANGED <<tlb, stale, dataVars, free, uvmVars, toucher, count, uffd>>
  BY DEF WalkBits
<1>3. CASE /\ ~Cur(e).write \/ c.reg.dirty
           /\ At(e, "sample")
           /\ UNCHANGED <<pte, access, mig, faults>>
  <2>1. UNCHANGED <<pte, access, dataVars, mig, envVars>> /\ UNCHANGED <<tlb, stale>>
    BY <1>2, <1>3 DEF envVars, uvmVars
  <2>2. ASSUME NEW d, eng'[e] = d, d.pc = "sample"
        PROVE  TagAt(e)' /\ TlbAt(e)'
    <3>1. TagAt(e)'
      BY <2>2 DEF TagAt
    <3>2. TlbAt(e)'
      BY <1>0, <2>1, EngineFacts DEF TlbAt, Rechecks, Shot, Shooting
    <3> QED BY <3>1, <3>2
  <2>3. "sample" \in RegPC
    BY DEF RegPC
  <2> QED BY <1>0, <1>1, <1>3, <2>1, <2>2, <2>3, CarriesOn, EngineFacts
<1>4. CASE /\ SetDirty(v, Cur(e).write)
           /\ IF Resident(v)
              THEN /\ EngineStep(e, [c EXCEPT !.pc = "sample", !.reg = pte'[v]])
                   /\ UNCHANGED <<access, mig, faults>>
              ELSE PageFault(e)
  <2>0. pte' = [pte EXCEPT ![v].dirty = @ \/ Now(c).write]
    BY <1>1, <1>4 DEF SetDirty
  <2>1. /\ pte' \in [Pages -> [at : Frames \cup {Host}, dirty : BOOLEAN]]
        /\ \A u \in Pages : pte'[u].at = pte[u].at /\ (pte[u].dirty => pte'[u].dirty)
        /\ Now(c).write => pte'[v].dirty
    BY <1>1, <2>0, EngineFacts
  <2>2. CASE Resident(v)
    <3>r. PICK r : r = pte'[v]
      OBVIOUS
    <3> DEFINE d == [c EXCEPT !.pc = "sample", !.reg = r]
    <3>1. /\ eng' = [eng EXCEPT ![e] = d]
          /\ UNCHANGED <<access, dataVars, mig, envVars>>
      BY <1>1, <1>2, <1>4, <2>2, <3>r DEF EngineStep, envVars, uvmVars
    <3>2. r \in Entries /\ r.at = pte[v].at /\ r.at \in Frames /\ r.at # Uncached
      BY <1>1, <2>1, <2>2, <3>r, EngineFacts, FrameNumbers DEF Entries, MemoryInv
    <3>3. /\ d \in EngineType /\ d.pc = "sample" /\ d.reg = r
          /\ d.op = c.op /\ d.pages = c.pages /\ d.gather = c.gather /\ d.done = c.done
          /\ d.got = c.got
      BY <1>1, <3>2 DEF EngineType, InsidePC, RegPC
    <3> HIDE DEF d
    <3>4. /\ EngineAt(d) /\ Now(d) = Now(c) /\ d.pc \in InsidePC
          /\ \A u, f : Refers(d, u, f) => Refers(c, u, f) \/ (u = v /\ f = r.at)
          /\ \A u : Writes(d, u) => Writes(c, u) \/ Now(c) = W(u)
      BY <1>1, <1>v, <3>2, <3>3, RecordReg DEF RegPC, InsidePC
    <3>5. eng'[e] = d
      BY <3>1, EngineFacts
    <3>6. \A u \in Pages : \A f \in Frames : Refers(d, u, f) => Valid(e, u, f)
      BY <3>2, <3>4, EngineFacts DEF HeldAt, Valid
    <3>7. TagAt(e)'
      BY <3>3, <3>5 DEF TagAt
    <3>8. TlbAt(e)'
      <4>1. tlb' = tlb /\ stale' = stale /\ mig' = mig
        BY <1>2, <3>1
      <4> QED BY <1>0, <2>1, <4>1, EngineFacts DEF TlbAt, Rechecks, Shot, Shooting
    <3>9. DirtyAt(e)'
      <4>1. UNCHANGED <<mig, uffd, tlb>>
        BY <1>2, <3>1
      <4>2. \A u \in Pages : d.reg.dirty /\ u = Now(d).page => Dirtied(u)'
        BY <1>v, <3>r, <3>3, <3>4 DEF Dirtied
      <4>3. \A u \in Pages : Writes(d, u) => Writes(c, u) \/ Dirtied(u)'
        BY <1>v, <2>1, <3>4, WriteAtHand DEF Dirtied
      <4> QED BY <2>1, <3>5, <4>1, <4>2, <4>3, DirtyKept
    <3>10. UNCHANGED <<tlb, stale>>
      BY <1>2
    <3> QED BY <1>1, <2>1, <3>1, <3>3, <3>4, <3>6, <3>7, <3>8, <3>9, <3>10, InsideStep,
               EngineFacts
  <2>3. CASE ~Resident(v)
    BY <1>0, <1>2, <1>4, <2>1, <2>3, PageFaultInv
  <2> QED BY <2>2, <2>3
<1>5. Cur(e).page = v
  BY <1>1, <1>v
<1> QED BY <1>3, <1>4, <1>5 DEF WalkBits

\* One entry of one TLB is emptied.
LEMMA Emptied ==
  ASSUME MemoryInv, NEW e \in Engines, NEW v \in Pages,
         tlb' = [tlb EXCEPT ![e][v].at = Uncached]
  PROVE  /\ tlb' \in [Engines -> [Pages -> Entries]]
         /\ \A u \in Engines \ {e} : tlb'[u] = tlb[u]
         /\ tlb'[e][v].at = Uncached
         /\ \A u \in Pages \ {v} : tlb'[e][u] = tlb[e][u]
<1>t. PICK t : t = [tlb[e] EXCEPT ![v] = [tlb[e][v] EXCEPT !.at = Uncached]]
  OBVIOUS
<1>1. /\ [tlb[e][v] EXCEPT !.at = Uncached] \in Entries
      /\ [tlb[e][v] EXCEPT !.at = Uncached].at = Uncached
  BY EngineFacts DEF Entries
<1>2. t \in [Pages -> Entries] /\ t[v].at = Uncached /\ \A u \in Pages \ {v} : t[u] = tlb[e][u]
  BY <1>1, <1>t, EngineFacts
<1>3. tlb' = [tlb EXCEPT ![e] = t]
  BY <1>t, EngineFacts
<1> QED BY <1>2, <1>3, EngineFacts

LEMMA SampleGenInv ==
  ASSUME MemoryInv, NEW e \in Engines, SampleGen(e)
  PROVE  MemoryInv'
<1>1. /\ eng[e].pc = "sample" /\ At(e, "check") /\ stale' = stale \ {e}
      /\ eng[e].pc \in RegPC /\ "check" \in RegPC
      /\ UNCHANGED <<pte, access, dataVars, mig, envVars>>
  BY DEF SampleGen, RegPC
<1>2. tlb' = tlb \/ \E v \in Pages : tlb' = [tlb EXCEPT ![e][v].at = Uncached]
  BY DEF SampleGen, Cached
<1>3. /\ tlb' \in [Engines -> [Pages -> Entries]]
      /\ \A u \in Engines \ {e} : tlb'[u] = tlb[u]
      /\ \A u \in Pages : tlb'[e][u] = tlb[e][u] \/ tlb'[e][u].at = Uncached
  <2>1. CASE tlb' = tlb
    BY <2>1, EngineFacts
  <2>2. CASE \E v \in Pages : tlb' = [tlb EXCEPT ![e][v].at = Uncached]
    <3>1. PICK v \in Pages : tlb' = [tlb EXCEPT ![e][v].at = Uncached]
      BY <2>2
    <3> QED BY <3>1, Emptied
  <2> QED BY <1>2, <2>1, <2>2
<1>4. ASSUME NEW d, eng'[e] = d, d.pc = "check"
      PROVE  TagAt(e)' /\ TlbAt(e)'
  <2>1. TagAt(e)'
    BY <1>4 DEF TagAt
  <2>2. TlbAt(e)'
    BY <1>1, <1>3, EngineFacts DEF TlbAt, Rechecks, Shot, Shooting
  <2> QED BY <2>1, <2>2
<1>5. stale' \subseteq Engines /\ \A u \in Engines \ {e} : u \in stale' <=> u \in stale
  BY <1>1, EngineFacts
<1> QED BY <1>1, <1>3, <1>4, <1>5, CarriesOn

LEMMA StepIntoReg ==
  ASSUME MemoryInv, NEW e \in Engines, eng[e].pc \in RegPC
  PROVE  \A v \in Pages : v = Now(eng[e]).page => Valid(e, v, eng[e].reg.at)
BY Translates, EngineFacts DEF HeldAt, Refers

\* The translation at hand is done without a change of the TLB, or after the
\* tag was dropped.
LEMMA Returns ==
  ASSUME MemoryInv, NEW e \in Engines, eng[e].pc \in RegPC \ {"dirty", "walk"},
         EngineStep(e, Got(e, eng[e].reg.at)),
         UNCHANGED <<pte, stale, access, dataVars, mig, envVars>>,
         tlb' \in [Engines -> [Pages -> Entries]],
         \A u \in Engines \ {e} : tlb'[u] = tlb[u],
         \A u \in Pages : \/ tlb'[e][u] = tlb[e][u] /\ ~Rechecks(e, u)
                          \/ tlb'[e][u].at = Uncached
  PROVE  MemoryInv'
<1> DEFINE c == eng[e]
           d == WithFrame(c, c.reg.at)
<1>v. PICK v : v = Now(c).page
  OBVIOUS
<1>1. /\ c \in EngineType /\ EngineAt(c) /\ c.pc \in InsidePC
      /\ c.done < Len(Todo(c)) /\ Len(c.got) < Len(RunOf(c))
      /\ v \in Pages /\ c.reg.at \in Frames
  BY <1>v, Translates
<1>2. eng' = [eng EXCEPT ![e] = d]
  BY DEF EngineStep, Got, WithFrame
<1>3. /\ d \in EngineType /\ EngineAt(d) /\ d.pc = "translate"
      /\ \A u, f : Refers(d, u, f) => Refers(c, u, f) \/ (u = v /\ f = c.reg.at)
      /\ \A u : Writes(d, u) => Writes(c, u) \/ Now(c) = W(u)
  BY <1>1, <1>v, RecordGot
<1> HIDE DEF d
<1>4. eng'[e] = d
  BY <1>2, EngineFacts
<1>5. \A u \in Pages : \A f \in Frames : Refers(d, u, f) => Valid(e, u, f)
  BY ZenonT(30), <1>1, <1>3, <1>v, StepIntoReg, EngineFacts DEF HeldAt
<1>6. TagAt(e)'
  BY <1>3, <1>4 DEF TagAt
<1>7. TlbAt(e)'
  <2>1. TlbAt(e) /\ pte' = pte /\ mig' = mig
    BY EngineFacts
  <2>2. \A u \in Pages : Shot(e, u) /\ tlb'[e][u] = tlb[e][u] => Shot(e, u)'
    BY <2>1 DEF Shot, Shooting
  <2> QED BY <2>1, <2>2 DEF TlbAt
<1>8. DirtyAt(e)'
  <2>1. UNCHANGED <<pte, mig, uffd>>
    BY DEF envVars
  <2>2. \A u \in Pages : Writes(d, u) => Writes(c, u)
    BY <1>3 DEF Writes
  <2>3. \A u \in Pages : tlb'[e][u].at # Uncached /\ tlb'[e][u].dirty =>
           tlb[e][u].at # Uncached /\ tlb[e][u].dirty
    OBVIOUS
  <2> QED BY <1>3, <1>4, <2>1, <2>2, <2>3, DirtyKept DEF RegPC
<1>9. /\ pte' \in [Pages -> [at : Frames \cup {Host}, dirty : BOOLEAN]]
      /\ \A u \in Pages : pte'[u].at = pte[u].at /\ (pte[u].dirty => pte'[u].dirty)
      /\ stale' = stale /\ stale \subseteq Engines /\ d.pc \in InsidePC
  BY <1>3, EngineFacts DEF InsidePC
<1> QED BY <1>1, <1>2, <1>3, <1>5, <1>6, <1>7, <1>8, <1>9, InsideStep

\* The first check finds the page as the walk did: only the eviction of the
\* page itself could have changed it, and that waits for this engine.
LEMMA CheckResidentInv ==
  ASSUME MemoryInv, NEW e \in Engines, CheckResident(e)
  PROVE  MemoryInv'
<1>v. PICK v : v = Now(eng[e]).page
  OBVIOUS
<1>0. /\ eng[e].pc = "check" /\ eng[e].pc \in RegPC /\ "checkgen" \in RegPC
      /\ UNCHANGED <<pte, tlb, stale, access, dataVars, mig, envVars>>
  BY DEF CheckResident, RegPC, mmuVars
<1>1. v \in Pages /\ Cur(e).page = v /\ eng[e].reg.at \in Frames
  BY <1>0, <1>v, Translates
<1>2. CASE Resident(v)
  <2>1. pte[v].at = eng[e].reg.at
    <3>1. Valid(e, v, eng[e].reg.at)
      BY <1>0, <1>1, <1>v, StepIntoReg
    <3>2. AwaitedBy(e) => ~Resident(mig.victim)
      BY DEF AwaitedBy, Evicting, Shooting, MemoryInv, MigrationOK, VictimOK
    <3> QED BY <1>2, <3>1, <3>2 DEF Valid
  <2>2. ASSUME NEW d, eng'[e] = d, d.pc = "checkgen", d.reg = eng[e].reg,
               Now(d) = Now(eng[e])
        PROVE  TagAt(e)' /\ TlbAt(e)'
    <3>1. TagAt(e)'
      BY <1>0, <1>v, <2>1, <2>2 DEF TagAt
    <3>2. TlbAt(e)'
      BY <1>0, EngineFacts DEF TlbAt, Rechecks, Shot, Shooting
    <3> QED BY <3>1, <3>2
  <2>3. At(e, "checkgen")
    BY <1>1, <1>2 DEF CheckResident
  <2> QED BY <1>0, <2>2, <2>3, CarriesOn, EngineFacts
<1>3. CASE ~Resident(v)
  <2>1. EngineStep(e, Got(e, eng[e].reg.at))
    BY <1>1, <1>3 DEF CheckResident
  <2>2. \A u \in Pages : ~Rechecks(e, u)
    BY <1>0 DEF Rechecks
  <2> QED BY <1>0, <2>1, <2>2, Returns, EngineFacts
<1> QED BY <1>2, <1>3

LEMMA CheckGenInv ==
  ASSUME MemoryInv, NEW e \in Engines, CheckGen(e)
  PROVE  MemoryInv'
<1>0. /\ eng[e].pc = "checkgen" /\ eng[e].pc \in RegPC /\ "tag" \in RegPC
      /\ UNCHANGED <<pte, tlb, stale, access, dataVars, mig, envVars>>
  BY DEF CheckGen, RegPC, mmuVars
<1>1. CASE e \notin stale
  <2>1. ASSUME NEW d, eng'[e] = d, d.pc = "tag", d.reg = eng[e].reg,
               Now(d) = Now(eng[e])
        PROVE  TagAt(e)' /\ TlbAt(e)'
    <3>1. TagAt(e)'
      BY <1>0, <2>1, EngineFacts DEF TagAt
    <3>2. TlbAt(e)'
      BY <1>0, EngineFacts DEF TlbAt, Rechecks, Shot, Shooting
    <3> QED BY <3>1, <3>2
  <2>2. At(e, "tag")
    BY <1>1 DEF CheckGen
  <2> QED BY <1>0, <2>1, <2>2, CarriesOn, EngineFacts
<1>2. CASE e \in stale
  <2>1. EngineStep(e, Got(e, eng[e].reg.at))
    BY <1>2 DEF CheckGen
  <2>2. \A u \in Pages : ~Rechecks(e, u)
    BY <1>0 DEF Rechecks
  <2> QED BY <1>0, <2>1, <2>2, Returns, EngineFacts
<1> QED BY <1>1, <1>2

\* The tag is stored: it is right, or the re-check or the shootdown that is
\* under way drops it.
LEMMA StoreTagInv ==
  ASSUME MemoryInv, NEW e \in Engines, StoreTag(e)
  PROVE  MemoryInv'
<1>v. PICK v : v = Now(eng[e]).page
  OBVIOUS
<1>0. /\ eng[e].pc = "tag" /\ eng[e].pc \in RegPC /\ "recheck" \in RegPC /\ At(e, "recheck")
      /\ UNCHANGED <<pte, stale, access, dataVars, mig, envVars>>
  BY DEF StoreTag, RegPC
<1>1. /\ v \in Pages /\ Cur(e).page = v /\ eng[e].reg.at \in Frames
      /\ eng[e].reg \in Entries
  BY <1>0, <1>v, Translates DEF EngineType
<1>2. /\ tlb' \in [Engines -> [Pages -> Entries]]
      /\ \A u \in Engines \ {e} : tlb'[u] = tlb[u]
      /\ tlb'[e][v] = eng[e].reg
      /\ \A u \in Pages \ {v} : tlb'[e][u] = tlb[e][u]
  <2>1. tlb' = [tlb EXCEPT ![e] = [tlb[e] EXCEPT ![v] = eng[e].reg]]
    BY <1>1, EngineFacts DEF StoreTag
  <2> QED BY <1>1, <2>1, EngineFacts
<1>3. ASSUME NEW d, eng'[e] = d, d.pc = "recheck", d.reg = eng[e].reg,
             Now(d) = Now(eng[e])
      PROVE  TagAt(e)' /\ TlbAt(e)'
  <2>1. TagAt(e)'
    BY <1>0, <1>3, EngineFacts DEF TagAt
  <2>2. ASSUME NEW u \in Pages \ {v}
        PROVE  \/ tlb'[e][u].at \in {Uncached, pte'[u].at}
               \/ Rechecks(e, u)' \/ Shot(e, u)'
    BY <1>0, <1>2, EngineFacts DEF TlbAt, Rechecks, Shot, Shooting
  <2>3. \/ tlb'[e][v].at \in {Uncached, pte'[v].at}
        \/ Rechecks(e, v)' \/ Shot(e, v)'
    <3>1. CASE pte[v].at = eng[e].reg.at
      BY <1>0, <1>2, <3>1
    <3>2. CASE e \in stale
      BY <1>0, <1>2, <1>3, <1>v, <3>2 DEF Rechecks
    <3>3. CASE pte[v].at # eng[e].reg.at /\ mig.pc = "bump" /\ mig.shoot = v
      <4>1. Valid(e, v, eng[e].reg.at)
        BY <1>0, <1>1, <1>v, StepIntoReg
      <4>2. mig.then = "quiesce" /\ mig.at = eng[e].reg.at
        BY <3>3, <4>1 DEF Valid, AwaitedBy, Shooting
      <4> QED BY <1>0, <1>2, <3>3, <4>2 DEF Shot, Shooting
    <3>4. TagAt(e)
      BY EngineFacts
    <3> QED BY <1>0, <1>v, <3>1, <3>2, <3>3, <3>4 DEF TagAt
  <2> QED BY <2>1, <2>2, <2>3 DEF TlbAt
<1>4. /\ \A u \in Pages : tlb'[e][u] = tlb[e][u] \/ (u = Now(eng[e]).page /\ tlb'[e][u] = eng[e].reg)
      /\ stale' = stale /\ stale \subseteq Engines
  BY <1>0, <1>2, <1>v, EngineFacts
<1> QED BY <1>0, <1>2, <1>3, <1>4, CarriesOn

LEMMA RecheckGenInv ==
  ASSUME MemoryInv, NEW e \in Engines, RecheckGen(e)
  PROVE  MemoryInv'
<1>v. PICK v : v = Now(eng[e]).page
  OBVIOUS
<1>0. /\ eng[e].pc = "recheck" /\ eng[e].pc \in RegPC \ {"dirty", "walk"}
      /\ EngineStep(e, Got(e, eng[e].reg.at))
      /\ UNCHANGED <<pte, stale, access, dataVars, mig, envVars>>
  BY DEF RecheckGen, RegPC
<1>1. v \in Pages /\ Cur(e).page = v
  BY <1>0, <1>v, Translates
<1>2. CASE e \in stale
  <2>1. tlb' = [tlb EXCEPT ![e][v].at = Uncached]
    BY <1>1, <1>2 DEF RecheckGen
  <2>2. \A u \in Pages \ {v} : ~Rechecks(e, u)
    BY <1>v DEF Rechecks
  <2>3. /\ tlb' \in [Engines -> [Pages -> Entries]]
        /\ \A u \in Engines \ {e} : tlb'[u] = tlb[u]
        /\ \A u \in Pages : \/ tlb'[e][u] = tlb[e][u] /\ ~Rechecks(e, u)
                            \/ tlb'[e][u].at = Uncached
    BY <1>1, <2>1, <2>2, Emptied
  <2> QED BY <1>0, <2>3, Returns
<1>3. CASE e \notin stale
  <2>1. tlb' = tlb /\ \A u \in Pages : ~Rechecks(e, u)
    BY <1>3 DEF RecheckGen, Rechecks
  <2> QED BY <1>0, <2>1, Returns, EngineFacts
<1> QED BY <1>2, <1>3

----------------------------------------------------------------------------
(* The rest of an engine's command                                         *)

LEMMA StartInv ==
  ASSUME MemoryInv, NEW e \in Engines, Start(e)
  PROVE  MemoryInv'
<1>1. PICK c \in Commands : EngineStep(e, [Idle EXCEPT !.pc = "enter", !.op = c.op,
                                                     !.pages = c.pages])
  BY DEF Start
<1>2. IsCommand(c.op, c.pages)
  BY ManagedAssumption
<1> DEFINE d == [Idle EXCEPT !.pc = "enter", !.op = c.op, !.pages = c.pages]
<1>3. /\ d.pc = "enter" /\ d.op = c.op /\ d.pages = c.pages /\ d.got = <<>> /\ d.done = 0
      /\ d.gather = FALSE
  BY DEF Idle
<1>4. d \in EngineType
  <2>1. NoEntry \in Entries /\ <<>> \in Seq(Frames) /\ <<>> \in Seq(Pages)
    BY DEF NoEntry, Entries
  <2>2. c.op \in {None, "fill", "d2h", "d2d", "compute"} /\ c.pages \in Seq(Pages)
    BY <1>2 DEF IsCommand
  <2> HIDE DEF NoEntry, Entries, Pages
  <2> QED BY <2>1, <2>2 DEF EngineType, Idle, OutsidePC
<1> HIDE DEF d
<1>5. EngineAt(d)
  <2>1. Len(Todo(d)) \in Nat
    BY <1>2, <1>3, RunsType DEF Todo
  <2> QED BY <1>2, <1>3, <2>1 DEF EngineAt, RegPC
<1>6. /\ eng' = [eng EXCEPT ![e] = d] /\ eng[e].pc = "idle"
      /\ UNCHANGED <<pte, tlb, stale, access, dataVars, free, mig, faults, uvm, expect,
                     toucher, uffd>>
      /\ count' = [count EXCEPT !.cmds = @ + 1]
  BY <1>1 DEF Start, EngineStep, mmuVars, uvmVars, d
<1>7. access' = IF d.pc \in InsidePC THEN access \cup {e} ELSE access \ {e}
  BY <1>3, <1>6 DEF MemoryInv, EnginesOK, InsidePC, RegPC
<1>8. FaultsOK'
  BY <1>6, FaultsKept
<1>9. /\ faults' \in Seq(FaultType) /\ uvm' \in UvmType /\ expect' \in [Engines -> SUBSET Int]
      /\ count' \in [cmds : Nat, touches : Nat, evicts : Nat]
  <2>1. count \in [cmds : Nat, touches : Nat, evicts : Nat]
    BY DEF MemoryInv, TypeOK
  <2>2. count' \in [cmds : Nat, touches : Nat, evicts : Nat]
    BY <1>6, <2>1
  <2> QED BY <1>6, <2>2 DEF MemoryInv, TypeOK
<1> QED BY <1>3, <1>4, <1>5, <1>6, <1>7, <1>8, <1>9, EmptyHanded, EngineFacts DEF OutsidePC

LEMMA EnterInv ==
  ASSUME MemoryInv, NEW e \in Engines, Enter(e)
  PROVE  MemoryInv'
<1> DEFINE d == [eng[e] EXCEPT !.pc = "translate"]
<1>1. /\ eng' = [eng EXCEPT ![e] = d] /\ eng[e].pc = "enter" /\ access' = access \cup {e}
      /\ UNCHANGED <<pte, tlb, stale, dataVars, mig, envVars>>
  BY DEF Enter, At, EngineStep
<1>2. eng[e] \in EngineType /\ EngineAt(eng[e])
  BY EngineFacts
<1>3. /\ d \in EngineType /\ d.pc = "translate" /\ d.got = eng[e].got /\ d.op = eng[e].op
      /\ d.pages = eng[e].pages /\ d.done = eng[e].done /\ d.gather = eng[e].gather
  BY <1>2 DEF EngineType, InsidePC
<1> HIDE DEF d
<1>4. EngineAt(d) /\ d.got = <<>>
  BY <1>1, <1>2, <1>3 DEF EngineAt, Todo, RegPC, OutsidePC
<1>5. UNCHANGED <<faults, uvm, expect, toucher, count, uffd, free>>
  BY <1>1 DEF envVars, uvmVars
<1>6. FaultsOK'
  BY <1>1, <1>5, FaultsKept
<1>7. /\ faults' \in Seq(FaultType) /\ uvm' \in UvmType /\ expect' \in [Engines -> SUBSET Int]
      /\ count' \in [cmds : Nat, touches : Nat, evicts : Nat]
  BY <1>5 DEF MemoryInv, TypeOK
<1>8. access' = IF d.pc \in InsidePC THEN access \cup {e} ELSE access \ {e}
  BY <1>1, <1>3 DEF InsidePC
<1> QED BY <1>1, <1>3, <1>4, <1>5, <1>6, <1>7, <1>8, EmptyHanded, EngineFacts

\* The record of an engine with nothing to do.
LEMMA IdleRecord == Idle \in EngineType /\ EngineAt(Idle) /\ Idle.pc = "idle" /\ Idle.got = <<>>
<1>1. NoEntry \in Entries /\ <<>> \in Seq(Frames) /\ <<>> \in Seq(Pages)
  BY DEF NoEntry, Entries
<1> HIDE DEF NoEntry, Entries, Pages
<1>2. Idle \in EngineType /\ Idle.pc = "idle" /\ Idle.got = <<>>
  BY <1>1 DEF EngineType, Idle, OutsidePC
<1> QED BY <1>2 DEF EngineAt, RegPC

LEMMA FinishInv ==
  ASSUME MemoryInv, NEW e \in Engines, Finish(e)
  PROVE  MemoryInv'
<1>1. /\ eng' = [eng EXCEPT ![e] = Idle] /\ eng[e].pc = "translate" /\ Leave(e)
      /\ UNCHANGED <<pte, tlb, stale, dataVars, free, faults, uvm, expect, toucher, count, uffd>>
  BY DEF Finish, EngineStep, envVars, uvmVars
<1>2. FaultsOK'
  BY <1>1, FaultsKept
<1>3. /\ faults' \in Seq(FaultType) /\ uvm' \in UvmType /\ expect' \in [Engines -> SUBSET Int]
      /\ count' \in [cmds : Nat, touches : Nat, evicts : Nat]
  BY <1>1 DEF MemoryInv, TypeOK
<1>4. access' = IF Idle.pc \in InsidePC THEN access \cup {e} ELSE access \ {e}
  BY <1>1, IdleRecord, LeaveStep DEF InsidePC, RegPC
<1> QED BY <1>1, <1>2, <1>3, <1>4, IdleRecord, LeaveStep, EmptyHanded, EngineFacts DEF OutsidePC

\* In the eyes of one engine, a page has one frame and a frame one page.
LEMMA ValidUnique ==
  ASSUME MemoryInv, NEW e \in Engines, NEW u \in Pages, NEW w \in Pages,
         NEW f \in Frames, NEW g \in Frames, Valid(e, u, f), Valid(e, w, g)
  PROVE  u = w <=> f = g
<1>1. /\ FramesOK /\ VictimOK /\ TypeOK
      /\ AwaitedBy(e) => Evicting
  BY DEF MemoryInv, MigrationOK, AwaitedBy, Evicting
<1>2. /\ \A x \in Pages : Resident(x) <=> pte[x].at \in Frames
      /\ AwaitedBy(e) => InHand(mig.at) /\ mig.victim \in Pages /\ ~Resident(mig.victim)
  BY <1>1, FrameNumbers DEF InHand, VictimOK
<1>3. CASE pte[u].at = f /\ pte[w].at = g
  BY <1>1, <1>2, <1>3 DEF FramesOK
<1>4. CASE ~(pte[u].at = f /\ pte[w].at = g)
  <2>1. AwaitedBy(e) /\ \A x \in Pages : pte[x].at # mig.at
    BY <1>1, <1>2, <1>4 DEF Valid, FramesOK, InHand
  <2>2. \A x \in Pages : \A h \in Frames : pte[x].at = h => x # mig.victim /\ h # mig.at
    BY <1>2, <2>1
  <2> QED BY <1>4, <2>2 DEF Valid
<1> QED BY <1>3, <1>4

\* What Apply writes: the frames that the engine has for the pages it writes,
\* with their new version, and no others.
LEMMA ApplyWrites ==
  ASSUME MemoryInv, NEW e \in Engines, Apply(e)
  PROVE  /\ frame' \in [Frames -> (Pages \cup {0}) \X Nat] /\ Frames' = Frames
         /\ written' \in [Pages -> Nat]
         /\ \A v \in Pages : \A f \in Frames :
              Valid(e, v, f) /\ frame[f] = <<v, written[v]>> => frame'[f] = <<v, written'[v]>>
         /\ \A v \in Pages : written'[v] = written[v] \/ Writes(eng[e], v)
         /\ \A v \in Pages : (\A f \in Frames : ~Valid(e, v, f)) => written'[v] = written[v]
         /\ \A f \in Frames : (\A v \in Pages : ~Valid(e, v, f)) => frame'[f] = frame[f]
<1> DEFINE c == eng[e]
           n == Len(c.got)
           run == RunOf(c)
           Hits(f) == {i \in 1 .. n : c.got[i] = f /\ run[i].write}
<1>1. /\ c \in EngineType /\ EngineAt(c) /\ c.pc = "translate" /\ c.done < Len(Todo(c))
      /\ n = Len(run) /\ HeldAt(e) /\ TypeOK
  BY SMTT(30), Positions, EngineFacts DEF Apply, MemoryInv
<1>2. /\ frame' = [f \in Frames |->
                     IF Hits(f) = {} THEN frame[f]
                     ELSE <<run[CHOOSE i \in Hits(f) : TRUE].page,
                            written[run[CHOOSE i \in Hits(f) : TRUE].page] + 1>>]
      /\ written' = [v \in Pages |->
                       written[v] + (IF \E i \in 1 .. n : run[i] = W(v) THEN 1 ELSE 0)]
  BY SMTT(30), Positions DEF Apply
<1>3. /\ c.got \in Seq(Frames) /\ c.done \in Nat /\ c.gather \in BOOLEAN
      /\ IsCommand(c.op, c.pages)
  BY <1>1 DEF EngineType, EngineAt
<1>4. \A i \in 1 .. n : run[i] \in Access /\ c.got[i] \in Frames
  BY <1>1, <1>3, RunType
<1>5. \A i \in 1 .. n : /\ run[i].page \in Pages /\ Valid(e, run[i].page, c.got[i])
                        /\ run[i].write => run[i] = W(run[i].page)
  <2>1. TAKE i \in 1 .. n
  <2>2. run[i].page \in Pages /\ (run[i].write => run[i] = W(run[i].page))
    BY ZenonT(60), <1>4 DEF Access, W
  <2>3. Refers(c, run[i].page, c.got[i])
    BY DEF Refers
  <2> QED BY <1>1, <1>4, <2>2, <2>3 DEF HeldAt
<1>6. \A v \in Pages : \A i \in 1 .. n : run[i] = W(v) => run[i].page = v /\ run[i].write
  BY SMTT(30) DEF W
<1>7. \A v \in Pages : /\ written[v] \in Nat
                       /\ \/ \E i \in 1 .. n : run[i] = W(v) /\ written'[v] = written[v] + 1
                          \/ (\A i \in 1 .. n : run[i] # W(v)) /\ written'[v] = written[v]
  BY SMTT(60), <1>1, <1>2 DEF TypeOK
<1>8. \A f \in Frames : \/ Hits(f) = {} /\ frame'[f] = frame[f]
                        \/ \E i \in Hits(f) : frame'[f] = <<run[i].page, written[run[i].page] + 1>>
  BY <1>2
<1> HIDE DEF n, run, c
<1>9. \A f \in Frames : \A i \in Hits(f) :
        /\ run[i].page \in Pages /\ Valid(e, run[i].page, f) /\ run[i] = W(run[i].page)
        /\ written'[run[i].page] = written[run[i].page] + 1
  BY <1>5, <1>7
<1>10. \A v \in Pages : written'[v] = written[v] \/ Writes(eng[e], v)
  BY <1>7 DEF Writes, n, run, c
<1>11. ASSUME NEW v \in Pages, \A f \in Frames : ~Valid(e, v, f)
       PROVE  written'[v] = written[v]
  BY <1>4, <1>5, <1>6, <1>7, <1>11
<1>12. ASSUME NEW f \in Frames, \A v \in Pages : ~Valid(e, v, f)
       PROVE  frame'[f] = frame[f]
  BY <1>8, <1>9, <1>12
<1>13. ASSUME NEW v \in Pages, NEW f \in Frames, Valid(e, v, f), frame[f] = <<v, written[v]>>
       PROVE  frame'[f] = <<v, written'[v]>>
  <2>1. CASE Hits(f) = {}
    <3>1. \A i \in 1 .. n : run[i] # W(v)
      <4>1. SUFFICES ASSUME NEW i \in 1 .. n, run[i] = W(v) PROVE FALSE
        OBVIOUS
      <4>2. Valid(e, v, c.got[i]) /\ run[i].write /\ c.got[i] \in Frames
        BY <1>4, <1>5, <1>6, <4>1
      <4>3. c.got[i] = f
        BY <1>13, <4>2, ValidUnique
      <4> QED BY <2>1, <4>2, <4>3
    <3>2. frame'[f] = frame[f]
      BY <1>8, <2>1
    <3> QED BY <1>7, <1>13, <3>1, <3>2
  <2>2. CASE Hits(f) # {}
    <3>1. PICK i \in Hits(f) : frame'[f] = <<run[i].page, written[run[i].page] + 1>>
      BY <1>8, <2>2
    <3>2. run[i].page \in Pages /\ Valid(e, run[i].page, f)
      BY <1>9
    <3>3. run[i].page = v
      BY <1>13, <3>2, ValidUnique
    <3> QED BY <1>9, <3>1, <3>3
  <2> QED BY <2>1, <2>2
<1>14. written' \in [Pages -> Nat]
  BY SMTT(30), <1>1, <1>2 DEF TypeOK
<1>15. frame' \in [Frames -> (Pages \cup {0}) \X Nat] /\ Frames' = Frames
  <2>1. \A f \in Frames : frame'[f] \in (Pages \cup {0}) \X Nat
    <3>1. TAKE f \in Frames
    <3>2. CASE frame'[f] = frame[f]
      BY <1>1, <3>2 DEF TypeOK
    <3>3. CASE \E i \in Hits(f) : frame'[f] = <<run[i].page, written[run[i].page] + 1>>
      BY <1>7, <1>9, <3>3
    <3> QED BY <1>8, <3>2, <3>3
  <2>2. frame' = [f \in Frames |-> frame'[f]] /\ DOMAIN frame' = Frames
    BY <1>2
  <2> QED BY <2>1, <2>2 DEF Frames
<1> QED BY <1>10, <1>11, <1>12, <1>13, <1>14, <1>15

\* A run is applied: the pages it writes are the ones that the page table or
\* the eviction that waits for the engine has in those frames.
LEMMA ApplyInv ==
  ASSUME MemoryInv, NEW e \in Engines, Apply(e)
  PROVE  MemoryInv'
<1> DEFINE c == eng[e]
           d == [c EXCEPT !.done = @ + 1, !.got = <<>>]
<1>1. /\ c \in EngineType /\ EngineAt(c) /\ c.pc = "translate" /\ c.done < Len(Todo(c))
      /\ eng' = [eng EXCEPT ![e] = d]
  BY Positions, EngineFacts DEF Apply, EngineStep
<1>2. /\ UNCHANGED <<pte, tlb, stale, access, host, mig>>
      /\ UNCHANGED <<free, faults, uvm, expect, toucher, count, uffd>>
  BY DEF Apply, mmuVars, envVars, uvmVars
<1>3. /\ d \in EngineType /\ d.pc = "translate" /\ d.op = c.op /\ d.pages = c.pages
      /\ d.gather = c.gather /\ d.done = c.done + 1 /\ d.got = <<>>
  <2>1. <<>> \in Seq(Frames) /\ c.done + 1 \in Nat
    BY <1>1 DEF EngineType
  <2>2. d = [c EXCEPT !.done = c.done + 1, !.got = <<>>]
    BY <1>1 DEF EngineType
  <2> HIDE DEF d
  <2> QED BY <1>1, <2>1, <2>2 DEF EngineType
<1> HIDE DEF d
<1>4. EngineAt(d)
  <2>1. c.done \in Nat /\ c.gather \in BOOLEAN /\ IsCommand(c.op, c.pages) /\ Todo(d) = Todo(c)
    BY <1>1, <1>3 DEF EngineType, EngineAt, Todo
  <2>2. Len(Todo(c)) \in Nat
    BY <1>1, <2>1, RunType
  <2> QED BY <1>1, <1>3, <2>1, <2>2 DEF EngineAt, RegPC, OutsidePC
<1>5. eng'[e] = d
  BY <1>1, EngineFacts
<1>6. access' = IF d.pc \in InsidePC THEN access \cup {e} ELSE access \ {e}
  BY <1>1, <1>2, <1>3 DEF MemoryInv, EnginesOK, InsidePC
<1>7. FaultsOK'
  BY <1>1, <1>2, FaultsKept
<1>8. HeldAt(e)' /\ TagAt(e)'
  BY <1>3, <1>5, RecordOutside DEF HeldAt, TagAt
<1>9. TlbAt(e)'
  BY <1>1, <1>2, EngineFacts DEF TlbAt, Rechecks, Shot, Shooting
<1>10. DirtyAt(e)'
  <2>1. \A v \in Pages : ~Writes(d, v) /\ d.pc \notin RegPC
    BY <1>3, RecordOutside DEF RegPC
  <2>2. \A v \in Pages : Dirtied(v) => Dirtied(v)'
    BY <1>2 DEF Dirtied, Leaving, Evicting, Shooting
  <2> QED BY <1>2, <1>5, <2>1, <2>2, EngineFacts DEF DirtyAt
<1>11. DataOK'
  <2>1. /\ DataOK /\ MigrationOK /\ FramesOK /\ TypeOK
        /\ AwaitedBy(e) => Evicting
    BY DEF MemoryInv, AwaitedBy, Evicting
  <2>2. /\ \A v \in Pages : Resident(v) <=> pte[v].at \in Frames
        /\ ~(Evicting /\ Filling) /\ ~(Evicting /\ mig.pc = "resident")
    BY <2>1, FrameNumbers DEF Evicting, Filling, Shooting
  <2>3. /\ Quiet' <=> Quiet
        /\ Evicting' <=> Evicting
        /\ \A v \in Pages : /\ Resident(v)' <=> Resident(v)
                            /\ Leaving(v)' <=> Leaving(v)
                            /\ Dirtied(v)' <=> Dirtied(v)
    BY <1>2 DEF Quiet, Evicting, Shooting, Resident, Leaving, Dirtied
  <2>4. ASSUME Quiet, NEW v \in Pages
        PROVE  IF Resident(v)' THEN frame'[pte'[v].at] = <<v, written'[v]>>
               ELSE ~Leaving(v)' => host'[v] = written'[v]
    <3>1. CASE Resident(v)
      <4>1. pte[v].at \in Frames /\ frame[pte[v].at] = <<v, written[v]>>
        BY <2>1, <2>2, <2>4, <3>1 DEF DataOK
      <4>2. Valid(e, v, pte[v].at)
        BY DEF Valid
      <4> QED BY <1>2, <2>3, <3>1, <4>1, <4>2, ApplyWrites
    <3>2. CASE ~Resident(v) /\ ~Leaving(v)
      <4>1. \A f \in Frames : ~Valid(e, v, f)
        BY <2>1, <2>2, <3>2 DEF Valid, Leaving
      <4> QED BY <1>2, <2>1, <2>3, <2>4, <3>2, <4>1, ApplyWrites DEF DataOK
    <3> QED BY <2>3, <3>1, <3>2
  <2>5. ASSUME Quiet, Evicting
        PROVE  frame'[mig.at] = <<mig.victim, written'[mig.victim]>>
    <3>1. /\ mig.victim \in Pages /\ ~Resident(mig.victim) /\ mig.at \in Frames
          /\ frame[mig.at] = <<mig.victim, written[mig.victim]>>
          /\ \A v \in Pages : pte[v].at # mig.at
      BY <2>1, <2>5 DEF MigrationOK, VictimOK, DataOK, FramesOK, InHand
    <3>2. CASE AwaitedBy(e)
      <4>1. Valid(e, mig.victim, mig.at)
        BY <3>2 DEF Valid
      <4> QED BY <3>1, <4>1, ApplyWrites
    <3>3. CASE ~AwaitedBy(e)
      <4>1. (\A f \in Frames : ~Valid(e, mig.victim, f)) /\ \A v \in Pages : ~Valid(e, v, mig.at)
        BY <2>2, <3>1, <3>3 DEF Valid
      <4> QED BY <3>1, <4>1, ApplyWrites
    <3> QED BY <3>2, <3>3
  <2>6. ASSUME Quiet, mig.pc = "resident"
        PROVE  frame'[mig.at] = <<mig.want, written'[mig.want]>>
    <3>1. /\ mig.want \in Pages /\ ~Resident(mig.want) /\ mig.at \in Frames
          /\ frame[mig.at] = <<mig.want, written[mig.want]>>
          /\ \A v \in Pages : pte[v].at # mig.at
      BY <2>1, <2>6 DEF MigrationOK, WantOK, DataOK, FramesOK, InHand, Filling
    <3>2. (\A f \in Frames : ~Valid(e, mig.want, f)) /\ \A v \in Pages : ~Valid(e, v, mig.at)
      BY <2>1, <2>2, <2>6, <3>1 DEF Valid
    <3> QED BY <3>1, <3>2, ApplyWrites
  <2>7. ASSUME Quiet, ~uffd, NEW v \in Pages, ~Dirtied(v)
        PROVE  host[v] = written'[v]
    <3>1. ~Writes(c, v) /\ host[v] = written[v]
      BY <2>1, <2>7, EngineFacts DEF DirtyAt, DataOK
    <3> QED BY <3>1, ApplyWrites
  <2>8. ASSUME Quiet, ~uffd, mig.pc = "publish", ~mig.dirty
        PROVE  host[mig.victim] = written'[mig.victim]
    <3>1. /\ mig.victim \in Pages /\ ~Resident(mig.victim) /\ ~AwaitedBy(e)
          /\ host[mig.victim] = written[mig.victim]
      BY <2>1, <2>8 DEF MigrationOK, VictimOK, Evicting, AwaitedBy, Shooting, DataOK
    <3>2. \A f \in Frames : ~Valid(e, mig.victim, f)
      BY <2>2, <3>1 DEF Valid
    <3> QED BY <3>1, <3>2, ApplyWrites
  <2> QED BY <1>2, <2>3, <2>4, <2>5, <2>6, <2>7, <2>8 DEF DataOK
<1>12. /\ faults' \in Seq(FaultType) /\ uvm' \in UvmType /\ expect' \in [Engines -> SUBSET Int]
       /\ count' \in [cmds : Nat, touches : Nat, evicts : Nat]
  BY <1>2 DEF MemoryInv, TypeOK
<1> QED BY <1>1, <1>2, <1>3, <1>4, <1>6, <1>7, <1>8, <1>9, <1>10, <1>11, <1>12, ApplyWrites,
           EngineFacts, EngineWrites

\* The UVM thread lets the engine go on, or gives its command up.
LEMMA UnparkInv ==
  ASSUME MemoryInv, Unpark
  PROVE  MemoryInv'
<1>e. PICK e : e = uvm.engine
  OBVIOUS
<1>d. PICK d : d = IF uvm.failed THEN Idle ELSE [eng[e] EXCEPT !.pc = "enter"]
  OBVIOUS
<1>1. /\ uvm.pc = "unpark" /\ EngineStep(e, d)
      /\ UNCHANGED <<pte, tlb, stale, access, dataVars, free, mig, faults, toucher, count, uffd>>
  BY <1>e, <1>d DEF Unpark, mmuVars
<1>2. /\ e \in Engines /\ uvm.page \in Pages /\ eng[e].pc = "parked"
      /\ \A i \in 1 .. Len(faults) : faults[i].engine # e
  BY <1>e, <1>1 DEF MemoryInv, FaultsOK, Serving
<1>3. /\ eng[e] \in EngineType /\ EngineAt(eng[e])
      /\ faults \in Seq(FaultType) /\ uvm \in UvmType
      /\ expect \in [Engines -> SUBSET Int]
      /\ count \in [cmds : Nat, touches : Nat, evicts : Nat]
  BY <1>2, EngineFacts DEF MemoryInv, TypeOK
<1>4. d \in EngineType /\ EngineAt(d) /\ d.pc \in OutsidePC /\ d.pc # "parked" /\ d.got = <<>>
  <2>1. CASE uvm.failed
    BY <1>d, <2>1, IdleRecord DEF OutsidePC
  <2>2. CASE ~uvm.failed
    <3>1. /\ d \in EngineType /\ d.pc = "enter" /\ d.got = eng[e].got /\ d.op = eng[e].op
          /\ d.pages = eng[e].pages /\ d.done = eng[e].done /\ d.gather = eng[e].gather
      BY <1>d, <1>3, <2>2 DEF EngineType, OutsidePC
    <3> QED BY <1>2, <1>3, <3>1 DEF EngineAt, Todo, RegPC, OutsidePC
  <2> QED BY <2>1, <2>2
<1>5. /\ uvm' \in UvmType /\ uvm'.pc \in {"pop", "prefetch"}
      /\ uvm'.pc = "prefetch" => uvm'.engine = e
  <2>1. CASE uvm' = [uvm EXCEPT !.pc = "prefetch", !.page = @ + 1]
    <3>1. uvm.page + 1 \in Int
      BY <1>3 DEF UvmType
    <3> QED BY <1>e, <1>3, <2>1, <3>1 DEF UvmType
  <2>2. CASE uvm' = Popping
    BY <2>2 DEF Popping, UvmType
  <2> QED BY <2>1, <2>2 DEF Unpark
<1>6. expect' \in [Engines -> SUBSET Int]
  <2>1. uvm.page \in Int /\ expect[e] \subseteq Int
    BY <1>2, <1>3 DEF UvmType
  <2>2. PICK S \in SUBSET Int : Expect(S)
    <3>1. {uvm.page + 1} \subseteq Int /\ expect[e] \cap {uvm.page} \subseteq Int
      BY <2>1
    <3>2. (IF uvm.moved THEN {uvm.page + 1} ELSE expect[e] \cap {uvm.page}) \in SUBSET Int
      BY <3>1
    <3> QED BY <1>e, <3>2 DEF Unpark
  <2>3. expect' = [expect EXCEPT ![e] = (expect[e] \ {uvm.page}) \cup S]
    BY <1>e, <2>2 DEF Expect
  <2> QED BY <1>3, <2>1, <2>2, <2>3
<1>7. eng' = [eng EXCEPT ![e] = d]
  BY <1>1 DEF EngineStep
<1>8. eng'[e] = d /\ \A u \in Engines \ {e} : eng'[u] = eng[u]
  BY <1>2, <1>7, EngineFacts
<1>9. FaultsOK'
  <2>1. \A i \in 1 .. Len(faults) : faults[i].engine \in Engines
    <3>1. \A i \in 1 .. Len(faults) : faults[i] \in FaultType
      BY <1>3
    <3> QED BY <3>1 DEF FaultType
  <2>2. faults' = faults /\ ~Serving' /\ FaultsOK
    BY <1>1, <1>5 DEF Serving, MemoryInv
  <2>3. \A i \in 1 .. Len(faults) : eng'[faults[i].engine].pc = "parked"
    BY <1>2, <1>8, <2>1, <2>2 DEF FaultsOK
  <2> QED BY <1>2, <1>5, <2>2, <2>3 DEF FaultsOK
<1>10. access' = IF d.pc \in InsidePC THEN access \cup {e} ELSE access \ {e}
  BY <1>1, <1>2, <1>4 DEF MemoryInv, EnginesOK, InsidePC, RegPC, OutsidePC
<1>11. faults' \in Seq(FaultType) /\ count' \in [cmds : Nat, touches : Nat, evicts : Nat]
  BY <1>1, <1>3
<1> QED BY <1>1, <1>2, <1>4, <1>5, <1>6, <1>7, <1>9, <1>10, <1>11, EmptyHanded, EngineFacts

----------------------------------------------------------------------------
(* Steps that leave the page table and the TLBs alone                      *)

\* The holder of mem_lock has no frame in its hands and waits for no engine.
CalmPC == {"unlocked", "prefetch", "exchange", "failed"}

LEMMA CalmFacts ==
  /\ mig.pc \in CalmPC => /\ ~Shooting /\ ~Evicting /\ ~Filling /\ ~Filled
                          /\ \A f : ~InHand(f)
                          /\ \A v : ~Leaving(v) /\ (Dirtied(v) <=> pte[v].dirty)
                          /\ \A e : ~AwaitedBy(e) /\ \A v : ~Shot(e, v)
  /\ Shooting => mig.pc \in {"bump", "invalidate"}
BY DEF CalmPC, Shooting, Evicting, Filling, Filled, InHand, Leaving, Dirtied, AwaitedBy, Shot

\* What engines do is the same as long as their records are.
LEMMA EnginesStay ==
  ASSUME MemoryInv, UNCHANGED <<eng, access>>
  PROVE  EnginesOK'
BY DEF MemoryInv, EnginesOK

\* Translations do not depend on a migration that evicts nothing.
LEMMA TranslationsStay ==
  ASSUME MemoryInv, UNCHANGED <<pte, tlb, stale, eng, uffd>>, Frames' = Frames,
         mig' = mig \/ (~Shooting /\ ~Evicting /\ ~Shooting' /\ ~Evicting')
  PROVE  TranslationsOK'
<1>1. /\ \A e, v, f : Valid(e, v, f) => Valid(e, v, f)'
      /\ \A e, v : Shot(e, v) => Shot(e, v)'
      /\ \A v : Dirtied(v) => Dirtied(v)'
      /\ mig.pc = "bump" => mig'.pc = "bump" /\ mig'.shoot = mig.shoot
  <2>1. CASE mig' = mig
    BY <2>1 DEF Valid, AwaitedBy, Shot, Dirtied, Leaving, Evicting, Shooting
  <2>2. CASE ~Shooting /\ ~Evicting
    BY <2>2 DEF Valid, AwaitedBy, Shot, Dirtied, Leaving, Evicting, Shooting
  <2> QED BY <2>1, <2>2
<1>2. SUFFICES ASSUME NEW e \in Engines
               PROVE  HeldAt(e)' /\ TagAt(e)' /\ TlbAt(e)' /\ DirtyAt(e)'
  BY DEF TranslationsOK
<1>3. HeldAt(e) /\ TagAt(e) /\ TlbAt(e) /\ DirtyAt(e)
  BY EngineFacts
<1>4. HeldAt(e)'
  BY <1>1, <1>3 DEF HeldAt
<1>5. TagAt(e)'
  BY <1>1, <1>3 DEF TagAt
<1>6. TlbAt(e)'
  <2>1. \A v : Rechecks(e, v)' <=> Rechecks(e, v)
    BY DEF Rechecks
  <2> QED BY <1>1, <1>3, <2>1 DEF TlbAt
<1>7. DirtyAt(e)'
  BY <1>1, <1>3 DEF DirtyAt
<1> QED BY <1>4, <1>5, <1>6, <1>7

\* A step that moves no page and no frame.
LEMMA CalmStep ==
  ASSUME MemoryInv, UNCHANGED <<pte, tlb, stale, access, eng, dataVars, free, uffd>>,
         mig' = mig \/ (mig.pc \in CalmPC /\ mig'.pc \in CalmPC),
         mig' \in MigrationType, HolderOK', VictimOK', WantOK',
         faults' \in Seq(FaultType), uvm' \in UvmType, expect' \in [Engines -> SUBSET Int],
         FaultsOK',
         toucher' \in [state : {"free", "touching", "faulted", "blocked"},
                       page : Pages \cup {0}, msg : Pages \cup {0}],
         ~uffd => toucher'.state = "free" /\ toucher'.msg = 0,
         toucher'.state # "free" => toucher'.page \in Pages,
         count' \in [cmds : Nat, touches : Nat, evicts : Nat]
  PROVE  MemoryInv'
<1>1. /\ TypeOK /\ EnginesOK /\ MigrationOK /\ FramesOK /\ HostOK /\ DataOK
      /\ pte' = pte /\ tlb' = tlb /\ stale' = stale /\ access' = access /\ eng' = eng
      /\ frame' = frame /\ host' = host /\ written' = written /\ free' = free /\ uffd' = uffd
      /\ Frames' = Frames
  BY DEF MemoryInv, dataVars, Frames
<1>2. TypeOK'
  BY <1>1, TypesFixed DEF TypeOK
<1>3. /\ \A f : InHand(f)' <=> InHand(f)
      /\ Evicting' <=> Evicting
      /\ Filled' <=> Filled
      /\ mig.pc = "resident" <=> mig'.pc = "resident"
      /\ mig.pc = "publish" <=> mig'.pc = "publish"
      /\ \A v : /\ Leaving(v)' <=> Leaving(v)
                /\ Dirtied(v)' <=> Dirtied(v)
                /\ Resident(v)' <=> Resident(v)
      /\ Evicting \/ Filled \/ mig.pc \in {"resident", "publish"} => mig' = mig
      /\ ShootOK'
  <2>1. CASE mig' = mig
    BY <1>1, <2>1 DEF InHand, Filling, Evicting, Filled, Leaving, Dirtied, Resident, Shooting,
                      ShootOK, MigrationOK
  <2>2. CASE mig.pc \in CalmPC /\ mig'.pc \in CalmPC
    <3>1. /\ ~Shooting' /\ ~Evicting' /\ ~Filling' /\ ~Filled'
      BY <2>2 DEF CalmPC, Shooting, Evicting, Filling, Filled
    <3> QED BY <1>1, <2>2, <3>1, CalmFacts DEF InHand, Leaving, Dirtied, Resident, CalmPC, ShootOK
  <2> QED BY <2>1, <2>2
<1>4. EnginesOK' /\ TranslationsOK'
  <2>1. mig' = mig \/ (~Shooting /\ ~Evicting /\ ~Shooting' /\ ~Evicting')
    BY DEF CalmPC, Shooting, Evicting
  <2> QED BY <1>1, <2>1, EnginesStay, TranslationsStay
<1>5. FramesOK'
  BY <1>1, <1>3 DEF FramesOK, Resident
<1>6. HostOK'
  BY <1>1, <1>3 DEF HostOK
<1>7. DataOK'
  BY <1>1, <1>3 DEF DataOK, Quiet
<1> QED BY <1>2, <1>3, <1>4, <1>5, <1>6, <1>7 DEF MemoryInv, MigrationOK

\* A fault is served on behalf of the same engine.
LEMMA UvmKept ==
  ASSUME MemoryInv, UNCHANGED <<eng, faults>>, uvm'.engine = uvm.engine,
         Serving' => Serving /\ uvm'.page = uvm.page,
         uvm'.pc = "prefetch" => uvm.pc = "prefetch"
  PROVE  FaultsOK'
BY DEF MemoryInv, FaultsOK

\* The types of what a step of the driver leaves alone.
LEMMA DriverTypes ==
  ASSUME MemoryInv
  PROVE  /\ mig \in MigrationType /\ uvm \in UvmType /\ faults \in Seq(FaultType)
         /\ expect \in [Engines -> SUBSET Int] /\ free \subseteq Frames
         /\ toucher \in [state : {"free", "touching", "faulted", "blocked"},
                         page : Pages \cup {0}, msg : Pages \cup {0}]
         /\ ~uffd => toucher.state = "free" /\ toucher.msg = 0
         /\ toucher.state # "free" => toucher.page \in Pages
         /\ count \in [cmds : Nat, touches : Nat, evicts : Nat]
         /\ HolderOK /\ VictimOK /\ WantOK /\ ShootOK /\ FaultsOK
BY DEF MemoryInv, TypeOK, HostOK, MigrationOK

\* Where the holder of mem_lock is does not change.
LEMMA MigrationStays ==
  ASSUME MemoryInv, UNCHANGED <<pte, mig>>, Frames' = Frames
  PROVE  VictimOK' /\ WantOK' /\ ShootOK'
<1>0. pte' = pte /\ mig' = mig /\ VictimOK /\ WantOK /\ ShootOK
  BY DriverTypes
<1>p. /\ Shooting' <=> Shooting
      /\ Evicting' <=> Evicting
      /\ Filling' <=> Filling
      /\ Filled' <=> Filled
      /\ Restored' <=> Restored
      /\ \A v : Resident(v)' <=> Resident(v)
  BY <1>0 DEF Shooting, Evicting, Filling, Filled, Restored, Resident
<1>1. VictimOK'
  BY <1>0, <1>p DEF VictimOK, Resident
<1>2. WantOK'
  BY <1>0, <1>p DEF WantOK, Resident
<1>3. ShootOK'
  BY <1>0, <1>p DEF ShootOK
<1> QED BY <1>1, <1>2, <1>3

----------------------------------------------------------------------------
(* The UVM thread and its prefetch                                         *)

LEMMA PopFaultInv ==
  ASSUME MemoryInv, PopFault
  PROVE  MemoryInv'
<1>x. PICK x : x = Head(faults)
  OBVIOUS
<1>1. /\ uvm.pc = "pop" /\ faults # <<>> /\ faults' = Tail(faults)
      /\ uvm' = [Popping EXCEPT !.pc = "lock", !.engine = x.engine, !.page = x.page]
      /\ UNCHANGED <<pte, tlb, stale, access, eng, dataVars, free, uffd, mig, toucher, count, expect>>
  BY <1>x DEF PopFault, mmuVars, appVars
<1>2. /\ faults \in Seq(FaultType) /\ Len(faults) \in Nat /\ Len(faults) > 0
      /\ x = faults[1] /\ x \in FaultType
  BY <1>1, <1>x, DriverTypes
<1>3. /\ faults' \in Seq(FaultType) /\ Len(faults') = Len(faults) - 1
      /\ \A i \in 1 .. Len(faults') : faults'[i] = faults[i + 1] /\ i + 1 \in 1 .. Len(faults)
  BY <1>1, <1>2
<1>4. /\ x.engine \in Engines /\ x.page \in Pages
  BY <1>2 DEF FaultType
<1>5. /\ uvm' \in UvmType /\ uvm'.pc = "lock" /\ uvm'.engine = x.engine /\ uvm'.page = x.page
  <2>1. x.page \in Int
    BY <1>4, ManagedAssumption DEF Pages
  <2>2. uvm' = [pc |-> "lock", engine |-> x.engine, page |-> x.page, moved |-> FALSE,
                failed |-> FALSE, budget |-> 0]
    BY <1>1 DEF Popping
  <2> QED BY <1>4, <2>1, <2>2 DEF UvmType
<1>6. FaultsOK'
  <2>1. FaultsOK
    BY DriverTypes
  <2>2. 1 \in 1 .. Len(faults) /\ eng[x.engine].pc = "parked"
    BY <1>2, <2>1 DEF FaultsOK
  <2>3. ASSUME NEW i \in 1 .. Len(faults')
        PROVE  /\ eng[faults'[i].engine].pc = "parked" /\ faults'[i].engine # x.engine
               /\ \A j \in 1 .. Len(faults') : faults'[i].engine = faults'[j].engine => i = j
    <3>1. i + 1 \in 1 .. Len(faults) /\ i + 1 # 1 /\ faults'[i] = faults[i + 1]
      BY <1>2, <1>3
    <3>2. faults'[i].engine # x.engine /\ eng[faults'[i].engine].pc = "parked"
      BY <1>2, <2>1, <2>2, <3>1 DEF FaultsOK
    <3>3. ASSUME NEW j \in 1 .. Len(faults'), faults'[i].engine = faults'[j].engine
          PROVE  i = j
      <4>1. j + 1 \in 1 .. Len(faults) /\ faults'[j] = faults[j + 1]
        BY <1>3
      <4>2. i + 1 = j + 1
        BY <2>1, <3>1, <3>3, <4>1 DEF FaultsOK
      <4> QED BY <4>2
    <3> QED BY <3>2, <3>3
  <2> QED BY <1>1, <1>4, <1>5, <2>2, <2>3 DEF FaultsOK, Serving
<1>7. HolderOK' /\ VictimOK' /\ WantOK'
  <2>1. VictimOK' /\ WantOK'
    BY <1>1, MigrationStays DEF dataVars, Frames
  <2>2. HolderOK'
    BY <1>1, DriverTypes DEF HolderOK
  <2> QED BY <2>1, <2>2
<1> QED BY <1>1, <1>3, <1>5, <1>6, <1>7, DriverTypes, CalmStep

\* A migration starts: a free frame is taken, or a victim is chosen.
LEMMA StartMigrationInv ==
  ASSUME MemoryInv, mig.pc \in {"unlocked", "prefetch"}, NEW by \in {"uvm", "prefetch"},
         NEW v \in Pages, ~Resident(v), StartMigration(by, v),
         UNCHANGED <<pte, tlb, stale, access, eng, dataVars, faults, expect, toucher, count, uffd>>,
         uvm' \in UvmType, FaultsOK', by = "uvm" => uvm'.pc = "migrate",
         by = "prefetch" => uvm'.pc = "prefetch"
  PROVE  MemoryInv'
<1>0. /\ TypeOK /\ mig.pc \in CalmPC
      /\ pte' = pte /\ tlb' = tlb /\ stale' = stale /\ access' = access /\ eng' = eng
      /\ frame' = frame /\ host' = host /\ written' = written /\ uffd' = uffd
      /\ faults' = faults /\ expect' = expect /\ toucher' = toucher /\ count' = count
      /\ Frames' = Frames
  BY DEF MemoryInv, dataVars, Frames, CalmPC
<1>1. CASE /\ free = {} /\ free' = free
           /\ \E u \in Pages : Resident(u) /\ mig' = [Unlocked EXCEPT !.pc = "exchange",
                                              !.by = by, !.want = v, !.victim = u]
  <2>1. PICK u \in Pages : Resident(u) /\ mig' = [Unlocked EXCEPT !.pc = "exchange",
                                              !.by = by, !.want = v, !.victim = u]
    BY <1>1
  <2>2. /\ mig' \in MigrationType /\ mig'.pc = "exchange" /\ mig'.by = by /\ mig'.want = v
        /\ mig'.victim = u
    BY <2>1 DEF Unlocked, MigrationType
  <2>3. HolderOK' /\ VictimOK' /\ WantOK'
    <3>1. ~Evicting' /\ ~Restored' /\ ~Filling' /\ ~Filled'
      BY <2>2 DEF Evicting, Restored, Filling, Filled, Shooting
    <3>2. HolderOK'
      BY <2>2 DEF HolderOK
    <3>3. VictimOK'
      BY <1>0, <2>1, <2>2, <3>1 DEF VictimOK, Resident
    <3>4. WantOK'
      BY <1>0, <2>1, <2>2, <3>1 DEF WantOK, Resident
    <3> QED BY <3>2, <3>3, <3>4
  <2> QED BY <1>0, <1>1, <2>2, <2>3, DriverTypes, CalmStep DEF CalmPC
<1>2. CASE \E f \in free : /\ free' = free \ {f}
                           /\ mig' = [Unlocked EXCEPT !.pc = "copyin", !.by = by, !.want = v, !.at = f]
  <2>1. PICK f \in free : /\ free' = free \ {f}
                          /\ mig' = [Unlocked EXCEPT !.pc = "copyin", !.by = by, !.want = v, !.at = f]
    BY <1>2
  <2>2. /\ f \in Frames /\ mig' \in MigrationType /\ mig'.pc = "copyin" /\ mig'.by = by
        /\ mig'.want = v /\ mig'.at = f
    <3>1. f \in Frames
      BY DriverTypes
    <3> QED BY <2>1, <3>1 DEF Unlocked, MigrationType
  <2>3. /\ ~Shooting' /\ ~Evicting' /\ ~Filled' /\ ~Restored' /\ Filling'
        /\ \A g : InHand(g)' <=> g = f
    BY <2>2 DEF Evicting, Restored, Filling, Filled, Shooting, InHand
  <2>4. /\ ~Shooting /\ ~Evicting /\ ~Filled /\ \A g : ~InHand(g)
        /\ \A u : /\ Resident(u)' <=> Resident(u)
                  /\ Dirtied(u)' <=> Dirtied(u)
                  /\ ~Leaving(u)' /\ ~Leaving(u)
    BY <1>0, <2>3, CalmFacts DEF Resident, Dirtied, Leaving
  <2>5. TypeOK'
    BY <1>0, <2>1, <2>2, TypesFixed DEF TypeOK
  <2>6. EnginesOK' /\ TranslationsOK'
    BY <1>0, <2>3, <2>4, EnginesStay, TranslationsStay
  <2>7. MigrationOK'
    <3>1. HolderOK' /\ ShootOK' /\ VictimOK'
      BY <2>2, <2>3 DEF HolderOK, ShootOK, VictimOK
    <3>2. WantOK'
      BY <2>2, <2>3, <2>4, <1>0 DEF WantOK
    <3> QED BY <3>1, <3>2 DEF MigrationOK
  <2>8. FramesOK'
    <3>1. FramesOK
      BY DEF MemoryInv
    <3>2. \A u \in Pages : pte[u].at # f
      BY <2>2, <3>1 DEF FramesOK
    <3>3. \A g \in Frames : g \in free' <=> ~InHand(g)' /\ \A u \in Pages : pte[u].at # g
      BY <2>1, <2>3, <2>4, <3>1 DEF FramesOK
    <3> QED BY <1>0, <2>3, <2>4, <3>1, <3>2, <3>3 DEF FramesOK
  <2>9. HostOK'
    BY <1>0, <2>3, <2>4 DEF MemoryInv, HostOK
  <2>10. DataOK'
    BY <1>0, <2>2, <2>3, <2>4 DEF MemoryInv, DataOK, Quiet
  <2> QED BY <2>5, <2>6, <2>7, <2>8, <2>9, <2>10 DEF MemoryInv
<1> QED BY <1>1, <1>2 DEF StartMigration

LEMMA ServeFaultInv ==
  ASSUME MemoryInv, ServeFault
  PROVE  MemoryInv'
<1>1. /\ uvm.pc = "lock" /\ mig.pc = "unlocked"
      /\ UNCHANGED <<pte, tlb, stale, access, eng, dataVars, faults, expect, toucher, count, uffd>>
  BY DEF ServeFault, mmuVars, appVars
<1>2. uvm.page \in Pages
  BY <1>1, DriverTypes DEF FaultsOK, Serving
<1>3. ASSUME NEW l \in {"unpark", "migrate"}, uvm' = [uvm EXCEPT !.pc = l]
      PROVE  uvm' \in UvmType /\ uvm'.pc = l /\ FaultsOK'
  <2>1. /\ uvm' \in UvmType /\ uvm'.pc = l /\ uvm'.engine = uvm.engine /\ uvm'.page = uvm.page
    BY <1>3, DriverTypes DEF UvmType
  <2> QED BY <1>1, <2>1, UvmKept DEF Serving
<1>4. CASE Resident(uvm.page)
  <2>1. uvm' = [uvm EXCEPT !.pc = "unpark"] /\ mig' = mig /\ free' = free
    BY <1>4 DEF ServeFault
  <2>2. HolderOK' /\ VictimOK' /\ WantOK'
    <3>1. mig.pc \in CalmPC /\ ~Evicting' /\ ~Restored' /\ ~Filling' /\ ~Filled'
      BY <1>1, <2>1 DEF CalmPC, Evicting, Restored, Filling, Filled, Shooting
    <3> QED BY <1>1, <2>1, <3>1 DEF HolderOK, VictimOK, WantOK
  <2> QED BY <1>1, <1>3, <2>1, <2>2, DriverTypes, CalmStep
<1>5. CASE ~Resident(uvm.page)
  BY <1>1, <1>2, <1>3, <1>5, StartMigrationInv DEF ServeFault
<1> QED BY <1>4, <1>5

\* The prefetch window is a number.
LEMMA BudgetType ==
  ASSUME MemoryInv
  PROVE  Budget \in Int
<1>1. \A a, b \in Int : Max({a, b}) \in Int /\ Min({a, b}) \in Int
  <2>1. TAKE a, b \in Int
  <2>2. (\E x \in {a, b} : \A y \in {a, b} : x >= y) /\ \E x \in {a, b} : \A y \in {a, b} : x <= y
    BY <2>1
  <2> QED BY <2>2 DEF Max, Min
<1>2. Cardinality(free) \in Nat
  <2>1. PICK n \in Nat : Frames = 1 .. n
    BY ManagedAssumption DEF MemoryInv, TypeOK
  <2>2. IsFiniteSet(Frames)
    BY <2>1, FS_Interval
  <2> QED BY <2>2, DriverTypes, FS_Subset, FS_CardinalityType
<1>3. Cardinality({v \in Pages : Resident(v)}) \in Nat
  <2>1. IsFiniteSet(Pages)
    BY FS_Interval, ManagedAssumption DEF Pages
  <2> QED BY <2>1, FS_Subset, FS_CardinalityType
<1>4. ASSUME NEW m \in Nat
      PROVE  m \div 2 - 1 \in Int
  OBVIOUS
<1>m. PICK m : m = Cardinality(free) + Cardinality({v \in Pages : Resident(v)})
  OBVIOUS
<1>5. m \div 2 - 1 \in Int /\ PrefetchPages \in Int
  BY <1>2, <1>3, <1>4, <1>m, ManagedAssumption
<1>6. Budget = Max({0, Min({PrefetchPages, m \div 2 - 1})})
  BY <1>m DEF Budget
<1>7. Min({PrefetchPages, m \div 2 - 1}) \in Int
  BY <1>1, <1>5
<1> QED BY <1>1, <1>6, <1>7

LEMMA PrefetchLockInv ==
  ASSUME MemoryInv, PrefetchLock
  PROVE  MemoryInv'
<1>1. /\ uvm.pc = "prefetch" /\ mig.pc = "unlocked"
      /\ mig' = [Unlocked EXCEPT !.pc = "prefetch", !.by = "prefetch"]
      /\ uvm' = [uvm EXCEPT !.budget = Budget]
      /\ UNCHANGED <<pte, tlb, stale, access, eng, dataVars, free, uffd, faults, expect, toucher, count>>
  BY DEF PrefetchLock, mmuVars, appVars
<1>2. /\ mig' \in MigrationType /\ mig'.pc = "prefetch" /\ mig'.by = "prefetch" /\ mig'.want = 0
  BY <1>1 DEF Unlocked, MigrationType
<1>3. uvm' \in UvmType /\ uvm'.pc = uvm.pc /\ uvm'.engine = uvm.engine /\ uvm'.page = uvm.page
  BY <1>1, DriverTypes, BudgetType DEF UvmType
<1>4. FaultsOK'
  BY <1>1, <1>3, UvmKept DEF Serving
<1>5. HolderOK' /\ VictimOK' /\ WantOK'
  BY <1>1, <1>2, <1>3 DEF HolderOK, VictimOK, WantOK, Evicting, Restored, Filling, Filled, Shooting
<1> QED BY <1>1, <1>2, <1>3, <1>4, <1>5, DriverTypes, CalmStep DEF CalmPC

LEMMA PrefetchPageInv ==
  ASSUME MemoryInv, PrefetchPage
  PROVE  MemoryInv'
<1>1. /\ mig.pc = "prefetch" /\ uvm.page \in Pages
      /\ uvm' = [uvm EXCEPT !.budget = @ - 1, !.page = @ + 1]
      /\ UNCHANGED <<pte, tlb, stale, access, eng, dataVars, faults, expect, toucher, count, uffd>>
  BY DEF PrefetchPage, mmuVars, appVars
<1>2. uvm.pc = "prefetch"
  BY <1>1, DriverTypes DEF HolderOK
<1>3. uvm' \in UvmType /\ uvm'.pc = uvm.pc /\ uvm'.engine = uvm.engine
  <2>1. uvm.budget - 1 \in Int /\ uvm.page + 1 \in Int
    BY DriverTypes DEF UvmType
  <2> QED BY <1>1, <2>1, DriverTypes DEF UvmType
<1>4. FaultsOK'
  BY <1>1, <1>2, <1>3, UvmKept DEF Serving
<1>5. CASE Resident(uvm.page)
  <2>1. free' = free /\ mig' = mig
    BY <1>5 DEF PrefetchPage
  <2>2. HolderOK' /\ VictimOK' /\ WantOK'
    BY <1>1, <1>2, <1>3, <2>1, DriverTypes
       DEF HolderOK, VictimOK, WantOK, Evicting, Restored, Filling, Filled, Shooting
  <2> QED BY <1>1, <1>3, <1>4, <2>1, <2>2, DriverTypes, CalmStep
<1>6. CASE ~Resident(uvm.page)
  BY <1>1, <1>2, <1>3, <1>4, <1>6, StartMigrationInv DEF PrefetchPage
<1> QED BY <1>5, <1>6

LEMMA PrefetchEndsInv ==
  ASSUME MemoryInv, PrefetchEnds
  PROVE  MemoryInv'
<1>1. /\ mig.pc = "prefetch" /\ mig' = Unlocked /\ uvm' = Popping /\ Expect({uvm.page})
      /\ UNCHANGED <<pte, tlb, stale, access, eng, dataVars, free, uffd, faults, toucher, count>>
  BY DEF PrefetchEnds, mmuVars, appVars
<1>2. uvm.pc = "prefetch" /\ uvm.engine \in Engines
  BY <1>1, DriverTypes DEF HolderOK, FaultsOK
<1>3. expect' \in [Engines -> SUBSET Int]
  <2>1. uvm.page \in Int /\ expect[uvm.engine] \subseteq Int
    BY <1>2, DriverTypes DEF UvmType
  <2>2. expect' = [expect EXCEPT ![uvm.engine] = (expect[uvm.engine] \ {uvm.page}) \cup {uvm.page}]
    BY <1>1 DEF Expect
  <2> QED BY <1>2, <2>1, <2>2, DriverTypes
<1>4. mig' \in MigrationType /\ mig'.pc = "unlocked"
  BY <1>1 DEF Unlocked, MigrationType
<1>5. uvm' \in UvmType /\ uvm'.pc = "pop"
  BY <1>1 DEF Popping, UvmType
<1>6. FaultsOK'
  BY <1>1, <1>5, DriverTypes DEF FaultsOK, Serving
<1>7. HolderOK' /\ VictimOK' /\ WantOK'
  BY <1>4 DEF HolderOK, VictimOK, WantOK, Evicting, Restored, Filling, Filled, Shooting
<1> QED BY <1>1, <1>3, <1>4, <1>5, <1>6, <1>7, DriverTypes, CalmStep DEF CalmPC

----------------------------------------------------------------------------
(* The host's side, and the ends of a hold of mem_lock                     *)

\* The host thread's record, woken or not.
LEMMA WokenType ==
  ASSUME NEW t \in [state : {"free", "touching", "faulted", "blocked"},
                    page : Pages \cup {0}, msg : Pages \cup {0}],
         t.state # "free" => t.page \in Pages, NEW v
  PROVE  /\ Woken(t, v) \in [state : {"free", "touching", "faulted", "blocked"},
                             page : Pages \cup {0}, msg : Pages \cup {0}]
         /\ Woken(t, v).state # "free" => Woken(t, v).page \in Pages
         /\ t.state = "free" => Woken(t, v) = t
<1> HIDE DEF Pages
<1> QED BY DEF Woken

LEMMA ReadMessageInv ==
  ASSUME MemoryInv, ReadMessage
  PROVE  MemoryInv'
<1>1. /\ toucher.state = "faulted"
      /\ toucher' = [toucher EXCEPT !.state = "blocked", !.msg = toucher.page]
      /\ UNCHANGED <<pte, tlb, stale, access, eng, dataVars, free, uffd, mig, faults, uvm, expect, count>>
  BY DEF ReadMessage, mmuVars, uvmVars
<1>2. /\ uffd /\ toucher.page \in Pages
      /\ toucher' \in [state : {"free", "touching", "faulted", "blocked"},
                       page : Pages \cup {0}, msg : Pages \cup {0}]
      /\ toucher'.page = toucher.page
  BY <1>1, DriverTypes
<1>3. HolderOK' /\ VictimOK' /\ WantOK' /\ FaultsOK'
  BY <1>1, MigrationStays, DriverTypes DEF HolderOK, FaultsOK, Serving, dataVars, Frames
<1> QED BY <1>1, <1>2, <1>3, DriverTypes, CalmStep

LEMMA HostTouchInv ==
  ASSUME MemoryInv, HostTouch
  PROVE  MemoryInv'
<1>1. PICK v \in HostPages : toucher' = [toucher EXCEPT !.state = "touching", !.page = v]
  BY DEF HostTouch
<1>2. /\ uffd /\ count' = [count EXCEPT !.touches = @ + 1]
      /\ UNCHANGED <<pte, tlb, stale, access, eng, dataVars, free, uffd, mig, faults, uvm, expect>>
  BY DEF HostTouch, mmuVars, uvmVars
<1>3. v \in Pages
  BY ManagedAssumption DEF Pages
<1>4. /\ toucher' \in [state : {"free", "touching", "faulted", "blocked"},
                       page : Pages \cup {0}, msg : Pages \cup {0}]
      /\ toucher'.page = v
  BY <1>1, <1>3, DriverTypes
<1>5. count' \in [cmds : Nat, touches : Nat, evicts : Nat]
  BY <1>2, DriverTypes
<1>6. HolderOK' /\ VictimOK' /\ WantOK' /\ FaultsOK'
  BY <1>2, MigrationStays, DriverTypes DEF HolderOK, FaultsOK, Serving, dataVars, Frames
<1> QED BY <1>2, <1>3, <1>4, <1>5, <1>6, DriverTypes, CalmStep

\* An eviction starts for the host or for an allocation.
LEMMA EvictionStarts ==
  ASSUME MemoryInv, mig.pc = "unlocked", NEW by \in {"host", "alloc"}, NEW u \in Pages, Resident(u),
         mig' = [Unlocked EXCEPT !.pc = "exchange", !.by = by, !.victim = u],
         UNCHANGED <<pte, tlb, stale, access, eng, dataVars, free, uffd, faults, uvm, expect>>,
         toucher' \in [state : {"free", "touching", "faulted", "blocked"},
                       page : Pages \cup {0}, msg : Pages \cup {0}],
         ~uffd => toucher'.state = "free" /\ toucher'.msg = 0,
         toucher'.state # "free" => toucher'.page \in Pages,
         count' \in [cmds : Nat, touches : Nat, evicts : Nat]
  PROVE  MemoryInv'
<1>1. /\ mig' \in MigrationType /\ mig'.pc = "exchange" /\ mig'.by = by /\ mig'.victim = u
      /\ mig'.want = 0
  BY DEF Unlocked, MigrationType
<1>2. ~Evicting' /\ ~Restored' /\ ~Filling' /\ ~Filled'
  BY <1>1 DEF Evicting, Restored, Filling, Filled, Shooting
<1>3. HolderOK' /\ VictimOK' /\ WantOK' /\ FaultsOK'
  BY <1>1, <1>2, DriverTypes DEF HolderOK, VictimOK, WantOK, Resident, FaultsOK, Serving
<1> QED BY <1>1, <1>3, DriverTypes, CalmStep DEF CalmPC

LEMMA HostFaultInv ==
  ASSUME MemoryInv, HostFault
  PROVE  MemoryInv'
<1>v. PICK v : v = toucher.msg
  OBVIOUS
<1>t. PICK t : t = [toucher EXCEPT !.msg = 0]
  OBVIOUS
<1>1. /\ v # 0 /\ mig.pc = "unlocked"
      /\ UNCHANGED <<pte, tlb, stale, access, eng, dataVars, free, uffd, faults, uvm, expect, count>>
  BY <1>v DEF HostFault, mmuVars, uvmVars
<1>2. uffd /\ v \in Pages
  BY <1>1, <1>v, DriverTypes
<1>3. /\ t \in [state : {"free", "touching", "faulted", "blocked"},
                page : Pages \cup {0}, msg : Pages \cup {0}]
      /\ t.state # "free" => t.page \in Pages
  BY <1>t, DriverTypes
<1>4. count' \in [cmds : Nat, touches : Nat, evicts : Nat]
  BY <1>1, DriverTypes
<1>5. CASE Resident(v)
  <2>1. /\ mig' = [Unlocked EXCEPT !.pc = "exchange", !.by = "host", !.victim = v]
        /\ toucher' = t
    BY <1>5, <1>v, <1>t DEF HostFault
  <2> QED BY <1>1, <1>2, <1>3, <1>4, <1>5, <2>1, EvictionStarts
<1>6. CASE ~Resident(v)
  <2>1. toucher' = Woken(t, v) /\ mig' = mig
    BY <1>6, <1>v, <1>t DEF HostFault
  <2>2. HolderOK' /\ VictimOK' /\ WantOK' /\ FaultsOK'
    BY <1>1, <2>1, MigrationStays, DriverTypes DEF HolderOK, FaultsOK, Serving, dataVars, Frames
  <2> QED BY <1>1, <1>2, <1>3, <1>4, <2>1, <2>2, WokenType, DriverTypes, CalmStep
<1> QED BY <1>5, <1>6

LEMMA EvictAllInv ==
  ASSUME MemoryInv, EvictAll
  PROVE  MemoryInv'
<1>1. PICK u \in Pages : /\ Resident(u)
                         /\ mig' = [Unlocked EXCEPT !.pc = "exchange", !.by = "alloc", !.victim = u]
  BY DEF EvictAll
<1>2. /\ mig.pc = "unlocked" /\ count' = [count EXCEPT !.evicts = @ + 1]
      /\ UNCHANGED <<pte, tlb, stale, access, eng, dataVars, free, uffd, faults, uvm, expect, toucher>>
  BY DEF EvictAll, mmuVars, uvmVars
<1>3. count' \in [cmds : Nat, touches : Nat, evicts : Nat]
  BY <1>2, DriverTypes
<1> QED BY <1>1, <1>2, <1>3, DriverTypes, EvictionStarts

\* mem_lock is released, or kept for the next page of a prefetch.
LEMMA Releases ==
  ASSUME MemoryInv, NEW ok \in BOOLEAN, Release(ok), mig.pc # "unlocked", UNCHANGED <<eng, faults>>
  PROVE  /\ mig' \in MigrationType /\ mig'.pc \in {"unlocked", "prefetch"} /\ mig'.pc \in CalmPC
         /\ uvm' \in UvmType /\ FaultsOK' /\ HolderOK' /\ VictimOK' /\ WantOK' /\ ShootOK'
<1>1. /\ mig' \in MigrationType /\ mig'.pc \in {"unlocked", "prefetch"} /\ mig'.pc \in CalmPC
      /\ mig'.pc = "prefetch" => mig.by = "prefetch" /\ mig'.by = "prefetch"
  <2>1. CASE mig' = Unlocked
    BY <2>1 DEF Unlocked, MigrationType, CalmPC
  <2>2. CASE mig.by = "prefetch" /\ mig' = [Unlocked EXCEPT !.pc = "prefetch", !.by = "prefetch"]
    BY <2>2 DEF Unlocked, MigrationType, CalmPC
  <2> QED BY <2>1, <2>2 DEF Release
<1>2. VictimOK' /\ WantOK' /\ ShootOK'
  BY <1>1 DEF VictimOK, WantOK, ShootOK, Evicting, Restored, Filling, Filled, Shooting
<1>3. CASE mig.by = "uvm"
  <2>1. uvm' = [uvm EXCEPT !.pc = "unpark", !.moved = ok, !.failed = ~ok]
    BY <1>3 DEF Release
  <2>2. uvm' \in UvmType /\ uvm'.pc = "unpark" /\ uvm'.engine = uvm.engine /\ uvm'.page = uvm.page
    BY <2>1, DriverTypes DEF UvmType
  <2>3. FaultsOK'
    BY <1>3, <2>2, UvmKept, DriverTypes DEF HolderOK, Serving
  <2>4. HolderOK'
    BY <1>1, <1>3 DEF HolderOK
  <2> QED BY <1>1, <1>2, <2>2, <2>3, <2>4
<1>4. CASE mig.by = "prefetch"
  <2>0. uvm.pc = "prefetch"
    BY <1>4, DriverTypes DEF HolderOK
  <2>1. uvm' \in UvmType /\ uvm'.pc = uvm.pc /\ uvm'.engine = uvm.engine
    <3>1. uvm' = uvm \/ uvm' = [uvm EXCEPT !.budget = 0, !.page = @ - 1]
      BY <1>4 DEF Release
    <3>2. uvm.page - 1 \in Int
      BY DriverTypes DEF UvmType
    <3>3. CASE uvm' = [uvm EXCEPT !.budget = 0, !.page = @ - 1]
      <4>1. uvm \in UvmType
        BY DriverTypes
      <4>2. uvm' = [uvm EXCEPT !.budget = 0, !.page = uvm.page - 1]
        BY <3>3, <4>1 DEF UvmType
      <4>3. uvm'.pc = uvm.pc /\ uvm'.engine = uvm.engine
        BY <4>1, <4>2 DEF UvmType
      <4>m. PICK m \in Int : m = uvm.page - 1
        BY <3>2
      <4>z. PICK z \in Int : z = 0
        OBVIOUS
      <4>4. uvm' = [uvm EXCEPT !.budget = z, !.page = m]
        BY <4>2, <4>m, <4>z
      <4>5. uvm' \in UvmType
        BY <4>1, <4>4 DEF UvmType
      <4> QED BY <4>3, <4>5
    <3> QED BY <3>1, <3>3, DriverTypes
  <2>2. FaultsOK'
    BY <2>0, <2>1, UvmKept DEF Serving
  <2>3. HolderOK'
    BY <1>1, <2>0, <2>1 DEF HolderOK, Unlocked, Release
  <2> QED BY <1>1, <1>2, <2>1, <2>2, <2>3
<1>5. CASE mig.by \notin {"uvm", "prefetch"}
  <2>1. uvm' = uvm /\ mig' = Unlocked
    BY <1>5 DEF Release
  <2>2. FaultsOK' /\ HolderOK'
    BY <1>1, <1>5, <2>1, DriverTypes DEF FaultsOK, Serving, HolderOK
  <2> QED BY <1>1, <1>2, <2>1, <2>2, DriverTypes
<1> QED BY <1>3, <1>4, <1>5

LEMMA GiveUpInv ==
  ASSUME MemoryInv, GiveUp
  PROVE  MemoryInv'
<1>1. /\ mig.pc = "failed" /\ Release(FALSE)
      /\ toucher' = toucher \/ toucher' = Woken(toucher, mig.victim)
      /\ UNCHANGED <<pte, tlb, stale, access, eng, dataVars, free, uffd, faults, expect, count>>
  BY DEF GiveUp, mmuVars
<1>2. /\ toucher' \in [state : {"free", "touching", "faulted", "blocked"},
                       page : Pages \cup {0}, msg : Pages \cup {0}]
      /\ toucher'.state # "free" => toucher'.page \in Pages
      /\ ~uffd => toucher'.state = "free" /\ toucher'.msg = 0
  BY <1>1, DriverTypes, WokenType
<1>3. mig.pc \in CalmPC /\ FALSE \in BOOLEAN
  BY <1>1 DEF CalmPC
<1>4. /\ mig' \in MigrationType /\ mig'.pc \in CalmPC
      /\ uvm' \in UvmType /\ FaultsOK' /\ HolderOK' /\ VictimOK' /\ WantOK'
  BY <1>1, <1>3, Releases
<1> QED BY <1>1, <1>2, <1>3, <1>4, DriverTypes, CalmStep

----------------------------------------------------------------------------
(* The eviction                                                            *)

\* A step within a phase of the migration: no page moves.
LEMMA PhaseKept ==
  ASSUME MemoryInv, UNCHANGED <<access, eng, dataVars, envVars>>,
         pte' \in [Pages -> [at : Frames \cup {Host}, dirty : BOOLEAN]],
         \A v \in Pages : pte'[v].at = pte[v].at /\ (Dirtied(v)' <=> Dirtied(v)),
         tlb' \in [Engines -> [Pages -> Entries]], stale' \subseteq Engines,
         mig' \in MigrationType, mig'.by = mig.by, mig'.want = mig.want,
         mig'.victim = mig.victim, mig'.at = mig.at, mig'.shoot = mig.shoot,
         mig'.then = mig.then,
         mig.pc \in {"bump", "invalidate", "quiesce"},
         mig'.pc \in {"invalidate", "quiesce", "publish", "drop", "failed"},
         mig'.pc = "invalidate" => mig.pc \in {"bump", "invalidate"},
         mig'.pc = "publish" =>
           mig.pc = "quiesce" /\ (~mig'.dirty => ~Dirtied(mig.victim)),
         mig'.pc \in {"quiesce", "drop", "failed"} =>
           (IF mig.pc = "quiesce" THEN mig'.pc = "quiesce" ELSE mig'.pc = mig.then),
         TranslationsOK'
  PROVE  MemoryInv'
<1>0. /\ TypeOK /\ EnginesOK /\ FaultsOK /\ MigrationOK /\ FramesOK /\ HostOK /\ DataOK
      /\ access' = access /\ eng' = eng /\ frame' = frame /\ host' = host
      /\ written' = written /\ free' = free /\ faults' = faults /\ uvm' = uvm
      /\ expect' = expect /\ toucher' = toucher /\ count' = count /\ uffd' = uffd
      /\ Frames' = Frames
  BY DEF MemoryInv, dataVars, envVars, uvmVars, Frames
<1>1. TypeOK'
  BY <1>0, TypesFixed DEF TypeOK
<1>2. /\ Evicting' <=> Evicting
      /\ ~Filling' /\ ~Filling
      /\ Filled' <=> Filled
      /\ Restored' <=> Restored
      /\ mig'.pc \notin {"unlocked", "prefetch", "exchange", "resident"}
      /\ Shooting' => Shooting
  BY DEF Evicting, Filling, Filled, Restored, Shooting
<1>3. /\ \A f : InHand(f)' <=> InHand(f)
      /\ \A v \in Pages : /\ Resident(v)' <=> Resident(v)
                          /\ Leaving(v)' <=> Leaving(v)
  BY <1>2 DEF InHand, Resident, Leaving
<1>4. EnginesOK'
  BY <1>0, EnginesStay
<1>5. FaultsOK'
  BY <1>0 DEF FaultsOK, Serving
<1>6. MigrationOK'
  <2>1. mig.want \in Pages \cup {0}
    BY <1>0 DEF TypeOK, MigrationType
  <2>2. HolderOK'
    BY <1>0, <1>2 DEF MigrationOK, HolderOK
  <2>3. VictimOK'
    BY <1>0, <1>2 DEF MigrationOK, VictimOK, Resident
  <2>4. WantOK'
    BY <1>0, <1>2, <2>1 DEF MigrationOK, WantOK, Resident
  <2>5. ShootOK'
    BY <1>0, <1>2 DEF MigrationOK, ShootOK
  <2> QED BY <2>2, <2>3, <2>4, <2>5 DEF MigrationOK
<1>7. FramesOK'
  <2>1. \A u, v \in Pages : Resident(u)' /\ pte'[u].at = pte'[v].at => u = v
    BY <1>0, <1>3 DEF FramesOK
  <2>2. \A v \in Pages : ~InHand(pte[v].at)'
    BY <1>0, <1>2 DEF FramesOK, InHand
  <2>3. \A f \in Frames : f \in free' <=> ~InHand(f)' /\ \A v \in Pages : pte'[v].at # f
    BY <1>0, <1>3 DEF FramesOK
  <2> QED BY <1>0, <2>1, <2>2, <2>3 DEF FramesOK
<1>8. HostOK'
  BY <1>0, <1>2, <1>3 DEF HostOK
<1>9. DataOK'
  <2>1. Quiet' <=> Quiet
    BY <1>0 DEF Quiet
  <2>2. ASSUME Quiet, NEW v \in Pages
        PROVE  IF Resident(v)' THEN frame'[pte'[v].at] = <<v, written'[v]>>
               ELSE ~Leaving(v)' => host'[v] = written'[v]
    <3>1. IF Resident(v) THEN frame[pte[v].at] = <<v, written[v]>>
          ELSE ~Leaving(v) => host[v] = written[v]
      BY <1>0, <2>2 DEF DataOK
    <3> QED BY <1>0, <1>3, <3>1
  <2>3. Quiet /\ Evicting' => frame'[mig'.at] = <<mig'.victim, written'[mig'.victim]>>
    BY <1>0, <1>2 DEF DataOK
  <2>4. Quiet /\ ~uffd' => \A v \in Pages : ~Dirtied(v)' => host'[v] = written'[v]
    BY <1>0 DEF DataOK
  <2>5. ASSUME Quiet, ~uffd, mig'.pc = "publish", ~mig'.dirty
        PROVE  host'[mig'.victim] = written'[mig'.victim]
    <3>1. mig.victim \in Pages /\ ~Dirtied(mig.victim)
      BY <1>0, <2>5 DEF MigrationOK, VictimOK, Evicting
    <3> QED BY <1>0, <2>5, <3>1 DEF DataOK
  <2> QED BY <1>0, <1>2, <2>1, <2>2, <2>3, <2>4, <2>5 DEF DataOK
<1> QED BY <1>1, <1>4, <1>5, <1>6, <1>7, <1>8, <1>9 DEF MemoryInv

\* The generation moves: every translation under way is re-checked.
LEMMA BumpInv ==
  ASSUME MemoryInv, Bump
  PROVE  MemoryInv'
<1>1. /\ mig.pc = "bump" /\ stale' = Engines
      /\ mig' = [mig EXCEPT !.pc = "invalidate", !.left = Engines]
      /\ pte' = pte /\ tlb' = tlb
      /\ UNCHANGED <<access, eng, dataVars, envVars>>
  BY DEF Bump
<1>2. /\ mig' \in MigrationType /\ mig'.pc = "invalidate" /\ mig'.left = Engines
      /\ mig'.by = mig.by /\ mig'.want = mig.want /\ mig'.victim = mig.victim
      /\ mig'.at = mig.at /\ mig'.dirty = mig.dirty /\ mig'.shoot = mig.shoot
      /\ mig'.then = mig.then
  <2>1. mig \in MigrationType
    BY DriverTypes
  <2> QED BY <1>1, <2>1 DEF MigrationType
<1>3. \A v \in Pages : pte'[v].at = pte[v].at /\ (Dirtied(v)' <=> Dirtied(v))
  BY <1>1, <1>2 DEF Dirtied, Leaving, Evicting, Shooting
<1>4. ASSUME NEW e \in Engines
      PROVE  HeldAt(e)' /\ TagAt(e)' /\ TlbAt(e)' /\ DirtyAt(e)'
  <2>1. HeldAt(e)'
    <3>1. \A v, f : Valid(e, v, f) => Valid(e, v, f)'
      BY <1>1, <1>2 DEF Valid, AwaitedBy, Shooting
    <3>2. HeldAt(e) /\ Frames' = Frames /\ eng' = eng
      BY <1>1, EngineFacts DEF dataVars, Frames
    <3> QED BY <3>1, <3>2 DEF HeldAt
  <2>2. TagAt(e)'
    BY <1>1 DEF TagAt
  <2>3. TlbAt(e)'
    <3>1. \A v : Rechecks(e, v) => Rechecks(e, v)'
      BY <1>1 DEF Rechecks
    <3>2. \A v : Shot(e, v) => Shot(e, v)'
      BY <1>1, <1>2 DEF Shot, Shooting
    <3> QED BY <1>1, <3>1, <3>2, EngineFacts DEF TlbAt
  <2>4. DirtyAt(e)'
    <3>1. eng' = eng /\ tlb' = tlb /\ uffd' = uffd
      BY <1>1 DEF envVars
    <3> QED BY <1>3, <3>1, EngineFacts DEF DirtyAt
  <2> QED BY <2>1, <2>2, <2>3, <2>4
<1>5. /\ TranslationsOK' /\ stale' \subseteq Engines /\ tlb' \in [Engines -> [Pages -> Entries]]
      /\ pte' \in [Pages -> [at : Frames \cup {Host}, dirty : BOOLEAN]]
  BY <1>1, <1>4 DEF TranslationsOK, MemoryInv, TypeOK
<1> QED BY <1>1, <1>2, <1>3, <1>5, PhaseKept

\* The tags of one engine are dropped, or all have been.
LEMMA InvalidateInv ==
  ASSUME MemoryInv, Invalidate
  PROVE  MemoryInv'
<1>0. /\ mig.pc = "invalidate" /\ pte' = pte /\ stale' = stale /\ mig \in MigrationType
      /\ UNCHANGED <<access, eng, dataVars, envVars>> /\ eng' = eng /\ uffd' = uffd
      /\ Frames' = Frames
  BY DriverTypes DEF Invalidate, envVars, dataVars, Frames
<1>1. /\ mig.then # None /\ mig.then \in {"quiesce", "drop", "failed"}
      /\ mig.shoot = IF mig.then = "drop" THEN mig.want ELSE mig.victim
  BY <1>0, DriverTypes DEF ShootOK, Shooting, MigrationType
<1>2. ASSUME tlb' \in [Engines -> [Pages -> Entries]], mig' \in MigrationType,
             mig'.by = mig.by, mig'.want = mig.want, mig'.victim = mig.victim,
             mig'.at = mig.at, mig'.dirty = mig.dirty, mig'.shoot = mig.shoot,
             mig'.then = mig.then, mig'.pc = "invalidate" \/ mig'.pc = mig.then,
             mig'.pc = mig.then => mig'.left = Engines,
             \A u \in Engines : \A v \in Pages :
               \/ tlb'[u][v] = tlb[u][v] /\ (Shot(u, v) => Shot(u, v)')
               \/ tlb'[u][v].at = Uncached
      PROVE  MemoryInv'
  <2>1. \A v \in Pages : pte'[v].at = pte[v].at /\ (Dirtied(v)' <=> Dirtied(v))
    BY <1>0, <1>1, <1>2 DEF Dirtied, Leaving, Evicting, Shooting
  <2>2. ASSUME NEW e \in Engines
        PROVE  HeldAt(e)' /\ TagAt(e)' /\ TlbAt(e)' /\ DirtyAt(e)'
    <3>1. HeldAt(e)'
      <4>1. \A v, f : Valid(e, v, f) => Valid(e, v, f)'
        BY <1>0, <1>2 DEF Valid, AwaitedBy, Shooting
      <4> QED BY <1>0, <4>1, EngineFacts DEF HeldAt
    <3>2. TagAt(e)'
      BY <1>0, EngineFacts DEF TagAt
    <3>3. TlbAt(e)'
      <4>1. \A v \in Pages : Rechecks(e, v) /\ tlb'[e][v] = tlb[e][v] => Rechecks(e, v)'
        BY <1>0 DEF Rechecks
      <4>2. TlbAt(e)
        BY EngineFacts
      <4> QED BY <1>0, <1>2, <4>1, <4>2 DEF TlbAt
    <3>4. DirtyAt(e)'
      BY <1>0, <1>2, <2>1, EngineFacts DEF DirtyAt
    <3> QED BY <3>1, <3>2, <3>3, <3>4
  <2>3. /\ TranslationsOK' /\ stale' \subseteq Engines
        /\ pte' \in [Pages -> [at : Frames \cup {Host}, dirty : BOOLEAN]]
    BY <1>0, <2>2 DEF TranslationsOK, MemoryInv, TypeOK
  <2>4. mig'.pc \in {"invalidate", "quiesce", "drop", "failed"}
    BY <1>1, <1>2
  <2> QED BY <1>0, <1>1, <1>2, <2>1, <2>3, <2>4, PhaseKept
<1>3. CASE mig.left = {}
  <2>1. mig' = [mig EXCEPT !.pc = mig.then, !.left = Engines] /\ tlb' = tlb
    BY <1>0, <1>3 DEF Invalidate
  <2>2. /\ mig' \in MigrationType /\ mig'.pc = mig.then /\ mig'.left = Engines
        /\ mig'.by = mig.by /\ mig'.want = mig.want /\ mig'.victim = mig.victim
        /\ mig'.at = mig.at /\ mig'.dirty = mig.dirty /\ mig'.shoot = mig.shoot
        /\ mig'.then = mig.then
    BY <1>0, <1>1, <2>1 DEF MigrationType
  <2>3. \A u \in Engines : \A v \in Pages : ~Shot(u, v)
    BY <1>0, <1>3 DEF Shot
  <2> QED BY <1>2, <2>1, <2>2, <2>3 DEF MemoryInv, TypeOK
<1>4. CASE mig.left # {}
  <2>1. PICK e \in mig.left : /\ tlb' = [tlb EXCEPT ![e][mig.shoot].at = Uncached]
                              /\ mig' = [mig EXCEPT !.left = @ \ {e}]
    BY <1>0, <1>4 DEF Invalidate
  <2>2. /\ mig' \in MigrationType /\ mig'.pc = "invalidate" /\ mig'.left = mig.left \ {e}
        /\ mig'.by = mig.by /\ mig'.want = mig.want /\ mig'.victim = mig.victim
        /\ mig'.at = mig.at /\ mig'.dirty = mig.dirty /\ mig'.shoot = mig.shoot
        /\ mig'.then = mig.then /\ e \in Engines
    BY <1>0, <2>1 DEF MigrationType
  <2>3. mig.shoot \in Pages
    BY <1>0, <1>1, DriverTypes DEF VictimOK, WantOK, Evicting, Filled, Restored, Shooting
  <2>4. /\ tlb' \in [Engines -> [Pages -> Entries]]
        /\ \A u \in Engines \ {e} : tlb'[u] = tlb[u]
        /\ tlb'[e][mig.shoot].at = Uncached
        /\ \A u \in Pages \ {mig.shoot} : tlb'[e][u] = tlb[e][u]
    BY <2>1, <2>2, <2>3, Emptied
  <2>5. ASSUME NEW u \in Engines, NEW v \in Pages
        PROVE  \/ tlb'[u][v] = tlb[u][v] /\ (Shot(u, v) => Shot(u, v)')
               \/ tlb'[u][v].at = Uncached
    <3>1. CASE u # e
      BY <1>0, <2>2, <2>4, <3>1 DEF Shot, Shooting
    <3>2. CASE u = e /\ v # mig.shoot
      BY <2>4, <3>2 DEF Shot
    <3>3. CASE u = e /\ v = mig.shoot
      BY <2>4, <3>3
    <3> QED BY <3>1, <3>2, <3>3
  <2>6. mig'.pc = mig.then => FALSE
    BY <1>1, <2>2
  <2> QED BY <1>2, <2>2, <2>4, <2>5, <2>6
<1> QED BY <1>3, <1>4

\* An engine that is not in a command has no translation: the driver need not
\* wait for it.
LEMMA QuiesceNextInv ==
  ASSUME MemoryInv, QuiesceNext
  PROVE  MemoryInv'
<1>1. /\ mig.pc = "quiesce" /\ mig.odd = None
      /\ pte' = pte /\ tlb' = tlb /\ stale' = stale /\ access' = access
      /\ UNCHANGED <<access, eng, dataVars, envVars>> /\ eng' = eng /\ uffd' = uffd
      /\ Frames' = Frames
  BY DEF QuiesceNext, mmuVars, envVars, dataVars, Frames
<1>2. PICK e \in mig.left : mig' = [mig EXCEPT !.left = @ \ {e},
                                             !.odd = IF e \in access THEN e ELSE None]
  BY DEF QuiesceNext
<1>3. /\ mig' \in MigrationType /\ mig'.pc = mig.pc /\ mig'.left = mig.left \ {e}
      /\ mig'.by = mig.by /\ mig'.want = mig.want /\ mig'.victim = mig.victim
      /\ mig'.at = mig.at /\ mig'.dirty = mig.dirty /\ mig'.shoot = mig.shoot
      /\ mig'.then = mig.then /\ e \in Engines
      /\ mig'.odd = IF e \in access THEN e ELSE None
  <2>1. mig \in MigrationType
    BY DriverTypes
  <2>2. e \in Engines
    BY <2>1 DEF MigrationType
  <2>3. CASE e \in access
    BY <1>2, <2>1, <2>2, <2>3 DEF MigrationType
  <2>4. CASE e \notin access
    BY <1>2, <2>1, <2>2, <2>4 DEF MigrationType
  <2> QED BY <2>2, <2>3, <2>4
<1>4. \A v \in Pages : pte'[v].at = pte[v].at /\ (Dirtied(v)' <=> Dirtied(v))
  BY <1>1, <1>3 DEF Dirtied, Leaving, Evicting, Shooting
<1>5. \A u \in Engines : AwaitedBy(u) => AwaitedBy(u)' \/ (u = e /\ e \notin access)
  BY <1>1, <1>3, ManagedAssumption DEF AwaitedBy, Shooting
<1>6. e \notin access => \A v, f : ~Refers(eng[e], v, f)
  <2>1. SUFFICES ASSUME e \notin access PROVE \A v, f : ~Refers(eng[e], v, f)
    OBVIOUS
  <2>2. eng[e] \in EngineType /\ EngineAt(eng[e]) /\ eng[e].pc \notin InsidePC
    BY <1>3, <2>1, EngineFacts DEF MemoryInv, EnginesOK
  <2>3. eng[e].pc \in OutsidePC
    BY <2>2 DEF EngineType
  <2>4. eng[e].got = <<>>
    BY <2>2, <2>3 DEF EngineAt
  <2> QED BY <2>3, <2>4, RecordOutside
<1>7. ASSUME NEW u \in Engines
      PROVE  HeldAt(u)' /\ TagAt(u)' /\ TlbAt(u)' /\ DirtyAt(u)'
  <2>1. HeldAt(u)'
    <3>1. \A v, f : Refers(eng[u], v, f) /\ Valid(u, v, f) => Valid(u, v, f)'
      BY <1>1, <1>3, <1>5, <1>6 DEF Valid
    <3> QED BY <1>1, <3>1, EngineFacts DEF HeldAt
  <2>2. TagAt(u)'
    BY <1>1, EngineFacts DEF TagAt
  <2>3. TlbAt(u)'
    BY <1>1, EngineFacts DEF TlbAt, Rechecks, Shot, Shooting
  <2>4. DirtyAt(u)'
    BY <1>1, <1>4, EngineFacts DEF DirtyAt
  <2> QED BY <2>1, <2>2, <2>3, <2>4
<1>8. /\ TranslationsOK' /\ stale' \subseteq Engines /\ tlb' \in [Engines -> [Pages -> Entries]]
      /\ pte' \in [Pages -> [at : Frames \cup {Host}, dirty : BOOLEAN]]
  BY <1>1, <1>7 DEF TranslationsOK, MemoryInv, TypeOK
<1> QED BY <1>1, <1>3, <1>4, <1>8, PhaseKept

\* The DIRTY bits set since the exchange go from the page table to the
\* migration.
LEMMA EndEvictInv ==
  ASSUME MemoryInv, EndEvict
  PROVE  MemoryInv'
<1>x. PICK x : x = (mig.dirty \/ pte[mig.victim].dirty)
  OBVIOUS
<1>1. /\ mig.pc = "quiesce" /\ mig.odd = None /\ mig.left = {}
      /\ mig' = [mig EXCEPT !.pc = "publish", !.left = {}, !.odd = None, !.dirty = x]
      /\ pte' = [pte EXCEPT ![mig.victim].dirty = FALSE]
      /\ tlb' = tlb /\ stale' = stale
      /\ UNCHANGED <<access, eng, dataVars, envVars>> /\ eng' = eng /\ uffd' = uffd
      /\ Frames' = Frames
  BY <1>x DEF EndEvict, Quiesced, Dirty, envVars, dataVars, Frames
<1>2. /\ mig.victim \in Pages /\ mig \in MigrationType
      /\ pte \in [Pages -> [at : Frames \cup {Host}, dirty : BOOLEAN]]
  BY <1>1, DriverTypes DEF VictimOK, Evicting, MemoryInv, TypeOK
<1>3. x \in BOOLEAN
  BY <1>2, <1>x DEF MigrationType
<1>4. /\ mig' \in MigrationType /\ mig'.pc = "publish"
      /\ mig'.by = mig.by /\ mig'.want = mig.want /\ mig'.victim = mig.victim
      /\ mig'.at = mig.at /\ mig'.dirty = x /\ mig'.shoot = mig.shoot
      /\ mig'.then = mig.then
  BY ZenonT(60), <1>1, <1>2, <1>3 DEF MigrationType
<1>5. /\ pte' \in [Pages -> [at : Frames \cup {Host}, dirty : BOOLEAN]]
      /\ \A v \in Pages : pte'[v].at = pte[v].at
      /\ \A v \in Pages : pte'[v].dirty = (v # mig.victim /\ pte[v].dirty)
  BY <1>1, <1>2
<1>6. \A v \in Pages : Dirtied(v)' <=> Dirtied(v)
  <2>1. Evicting /\ Evicting'
    BY <1>1, <1>4 DEF Evicting
  <2> QED BY <1>2, <1>4, <1>5, <1>x, <2>1 DEF Dirtied, Leaving
<1>7. ~x => ~Dirtied(mig.victim)
  BY <1>x DEF Dirtied
<1>8. ASSUME NEW u \in Engines
      PROVE  HeldAt(u)' /\ TagAt(u)' /\ TlbAt(u)' /\ DirtyAt(u)'
  <2>1. HeldAt(u)'
    <3>1. ~AwaitedBy(u)
      BY <1>1, ManagedAssumption DEF AwaitedBy, Shooting
    <3>2. \A v \in Pages : \A f : Valid(u, v, f) => Valid(u, v, f)'
      BY <1>5, <3>1 DEF Valid
    <3> QED BY <1>1, <3>2, EngineFacts DEF HeldAt
  <2>2. TagAt(u)'
    <3>1. eng[u].pc \in RegPC => Now(eng[u]).page \in Pages
      BY Translates
    <3>2. eng[u].pc \in RegPC => pte'[Now(eng[u]).page].at = pte[Now(eng[u]).page].at
      BY <1>5, <3>1
    <3> QED BY <1>1, <3>2, EngineFacts DEF TagAt, RegPC
  <2>3. TlbAt(u)'
    <3>1. \A v : ~Shot(u, v) /\ (Rechecks(u, v)' <=> Rechecks(u, v))
      BY <1>1 DEF Shot, Shooting, Rechecks
    <3> QED BY <1>1, <1>5, <3>1, EngineFacts DEF TlbAt
  <2>4. DirtyAt(u)'
    BY <1>1, <1>6, EngineFacts DEF DirtyAt
  <2> QED BY <2>1, <2>2, <2>3, <2>4
<1>9. /\ TranslationsOK' /\ stale' \subseteq Engines /\ tlb' \in [Engines -> [Pages -> Entries]]
  BY <1>1, <1>8 DEF TranslationsOK, MemoryInv, TypeOK
<1> QED BY <1>1, <1>4, <1>5, <1>6, <1>7, <1>9, PhaseKept

\* begin_evict: the translations of the victim become those that the eviction
\* waits for.
LEMMA ExchangeInv ==
  ASSUME MemoryInv, Exchange
  PROVE  MemoryInv'
<1>v. PICK v : v = mig.victim
  OBVIOUS
<1>o. PICK old : old = pte[v]
  OBVIOUS
<1>0. /\ TypeOK /\ MigrationOK /\ FramesOK /\ HostOK /\ DataOK /\ mig \in MigrationType
      /\ pte \in [Pages -> [at : Frames \cup {Host}, dirty : BOOLEAN]]
  BY DEF MemoryInv, TypeOK
<1>1. /\ mig.pc = "exchange" /\ mig.pc \in CalmPC
      /\ pte' = [pte EXCEPT ![v] = [at |-> Host, dirty |-> FALSE]]
      /\ mig' = [mig EXCEPT !.pc = "bump", !.shoot = v, !.then = "quiesce", !.at = old.at,
                            !.dirty = old.dirty]
      /\ tlb' = tlb /\ stale' = stale /\ access' = access /\ eng' = eng
      /\ frame' = frame /\ host' = host /\ written' = written /\ free' = free
      /\ faults' = faults /\ uvm' = uvm /\ expect' = expect /\ toucher' = toucher
      /\ count' = count /\ uffd' = uffd /\ Frames' = Frames
  BY <1>v, <1>o DEF Exchange, CalmPC, envVars, uvmVars, dataVars, Frames
<1>2. /\ v \in Pages /\ old.at \in Frames /\ old.dirty \in BOOLEAN /\ Resident(v)
      /\ mig.want # 0 => mig.want \in Pages /\ ~Resident(mig.want) /\ mig.want # v
  BY <1>0, <1>1, <1>o, <1>v, FrameNumbers DEF MigrationOK, VictimOK, WantOK, MigrationType
<1>3. /\ mig' \in MigrationType /\ mig'.pc = "bump" /\ mig'.shoot = v /\ mig'.then = "quiesce"
      /\ mig'.by = mig.by /\ mig'.want = mig.want /\ mig'.victim = v
      /\ mig'.at = old.at /\ mig'.dirty = old.dirty
  BY <1>0, <1>1, <1>2, <1>v DEF MigrationType
<1>4. /\ pte' \in [Pages -> [at : Frames \cup {Host}, dirty : BOOLEAN]]
      /\ pte'[v].at = Host /\ ~pte'[v].dirty /\ \A u \in Pages \ {v} : pte'[u] = pte[u]
  BY <1>0, <1>1, <1>2
<1>5. /\ Shooting' /\ Evicting' /\ ~Filling' /\ ~Filled' /\ ~Restored'
      /\ \A f : InHand(f)' <=> f = old.at
      /\ \A u : Leaving(u)' <=> u = v
      /\ \A e : AwaitedBy(e)'
  BY <1>3 DEF Shooting, Evicting, Filling, Filled, Restored, InHand, Leaving, AwaitedBy
<1>6. /\ ~Evicting /\ ~Filled /\ \A f : ~InHand(f)
      /\ \A u : ~Leaving(u) /\ (Dirtied(u) <=> pte[u].dirty)
      /\ \A e : ~AwaitedBy(e) /\ \A u : ~Shot(e, u)
  BY <1>1, CalmFacts
<1>7. \A u \in Pages : /\ Resident(u)' <=> Resident(u) /\ u # v
                       /\ Dirtied(u)' <=> Dirtied(u)
  BY <1>3, <1>4, <1>5, <1>6, <1>o DEF Resident, Dirtied
<1>8. TypeOK'
  BY <1>0, <1>1, <1>3, <1>4, TypesFixed DEF TypeOK
<1>9. EnginesOK' /\ FaultsOK'
  BY <1>1, EnginesStay, DriverTypes DEF FaultsOK, Serving
<1>10. MigrationOK'
  <2>0. HolderOK'
    BY <1>1, <1>3, DriverTypes DEF HolderOK
  <2>1. ShootOK'
    BY <1>3 DEF ShootOK, None
  <2>2. VictimOK'
    BY <1>1, <1>2, <1>3, <1>4, <1>5 DEF VictimOK, Resident
  <2>3. WantOK'
    BY <1>2, <1>3, <1>4, <1>5 DEF WantOK, Resident
  <2> QED BY <2>0, <2>1, <2>2, <2>3 DEF MigrationOK
<1>11. FramesOK'
  <2>0. \A u \in Pages \ {v} : pte[u].at # old.at
    BY <1>0, <1>2, <1>o DEF FramesOK
  <2>1. \A u, w \in Pages : Resident(u)' /\ pte'[u].at = pte'[w].at => u = w
    BY <1>0, <1>4, <1>7 DEF FramesOK, Resident
  <2>2. \A u \in Pages : ~InHand(pte[u].at)'
    <3>1. \A u \in Pages : pte'[u].at # old.at
      BY <1>0, <1>2, <1>4, <2>0, FrameNumbers
    <3> QED BY <1>3, <1>5, <3>1 DEF InHand
  <2>3. \A f \in Frames : f \in free <=> ~InHand(f)' /\ \A u \in Pages : pte'[u].at # f
    <3>1. TAKE f \in Frames
    <3>2. f # Host /\ (f \in free <=> \A u \in Pages : pte[u].at # f)
      BY <1>0, <1>6, FrameNumbers DEF FramesOK
    <3>3. CASE f = old.at
      BY <1>2, <1>5, <1>o, <3>2, <3>3
    <3>4. CASE f # old.at
      BY <1>4, <1>5, <1>o, <3>2, <3>4
    <3> QED BY <3>3, <3>4
  <2> QED BY <1>1, <2>1, <2>2, <2>3 DEF FramesOK
<1>12. HostOK'
  BY <1>0, <1>1, <1>2, <1>5, <1>6, <1>7 DEF HostOK
<1>13. DataOK'
  <2>1. Quiet' <=> Quiet
    BY <1>1 DEF Quiet
  <2>2. ASSUME Quiet, NEW u \in Pages
        PROVE  IF Resident(u)' THEN frame'[pte'[u].at] = <<u, written'[u]>>
               ELSE ~Leaving(u)' => host'[u] = written'[u]
    <3>1. IF Resident(u) THEN frame[pte[u].at] = <<u, written[u]>> ELSE host[u] = written[u]
      BY <1>0, <1>6, <2>2 DEF DataOK
    <3> QED BY <1>1, <1>4, <1>5, <1>7, <3>1
  <2>3. Quiet => frame'[mig'.at] = <<mig'.victim, written'[mig'.victim]>>
    BY SMTT(40), <1>0, <1>1, <1>2, <1>3, <1>o DEF DataOK
  <2>4. Quiet /\ ~uffd' => \A u \in Pages : ~Dirtied(u)' => host'[u] = written'[u]
    BY <1>0, <1>1, <1>7 DEF DataOK
  <2> QED BY <1>3, <2>1, <2>2, <2>3, <2>4 DEF DataOK
<1>14. ASSUME NEW e \in Engines
       PROVE  HeldAt(e)' /\ TagAt(e)' /\ TlbAt(e)' /\ DirtyAt(e)'
  <2>1. \A u \in Pages : \A f : Valid(e, u, f) => Valid(e, u, f)'
    BY <1>3, <1>4, <1>5, <1>6, <1>o DEF Valid
  <2>2. HeldAt(e)'
    BY <1>1, <2>1, EngineFacts DEF HeldAt
  <2>3. TagAt(e)'
    <3>1. eng[e].pc \in RegPC => Now(eng[e]).page \in Pages
      BY Translates
    <3>2. ASSUME eng[e].pc \in {"checkgen", "tag", "recheck"}
          PROVE  \/ pte'[Now(eng[e]).page].at = eng[e].reg.at
                 \/ e \in stale'
                 \/ mig'.pc = "bump" /\ mig'.shoot = Now(eng[e]).page
      <4>1. Now(eng[e]).page \in Pages
        BY <3>1, <3>2 DEF RegPC
      <4>2. pte[Now(eng[e]).page].at = eng[e].reg.at \/ e \in stale
        BY <1>1, <3>2, EngineFacts DEF TagAt
      <4> QED BY <1>1, <1>3, <1>4, <4>1, <4>2
    <3> QED BY <1>1, <3>2 DEF TagAt
  <2>4. TlbAt(e)'
    <3>1. \A u : Rechecks(e, u)' <=> Rechecks(e, u)
      BY <1>1 DEF Rechecks
    <3>2. \A u \in Pages : tlb[e][u].at \in {Uncached, pte[u].at} \/ Rechecks(e, u)
      BY <1>6, EngineFacts DEF TlbAt
    <3>3. tlb[e][v].at = old.at => Shot(e, v)'
      BY <1>1, <1>3, <1>5 DEF Shot
    <3>4. \A u \in Pages : tlb'[e][u].at \in {Uncached, pte'[u].at} \/ Rechecks(e, u) \/ Shot(e, u)'
      BY <1>1, <1>4, <1>o, <3>2, <3>3
    <3> QED BY <3>1, <3>4 DEF TlbAt
  <2>5. DirtyAt(e)'
    BY <1>1, <1>7, EngineFacts DEF DirtyAt
  <2> QED BY <2>2, <2>3, <2>4, <2>5
<1>15. TranslationsOK'
  BY <1>14 DEF TranslationsOK
<1> QED BY <1>8, <1>9, <1>10, <1>11, <1>12, <1>13, <1>15 DEF MemoryInv

----------------------------------------------------------------------------
(* The page goes to the host, and the page wanted into its frame           *)

\* An engine for which a page is in no frame has nothing of it.
LEMMA NotReferred ==
  ASSUME MemoryInv, NEW e \in Engines, NEW v \in Pages, \A f \in Frames : ~Valid(e, v, f)
  PROVE  /\ \A f \in Frames : ~Refers(eng[e], v, f)
         /\ ~Writes(eng[e], v) /\ tlb[e][v].at = Uncached
         /\ ~(eng[e].pc \in RegPC /\ Now(eng[e]).page = v)
<1>1. \A f \in Frames : ~Refers(eng[e], v, f)
  BY EngineFacts DEF HeldAt
<1>2. ~(eng[e].pc \in RegPC /\ Now(eng[e]).page = v)
  BY <1>1, Translates DEF Refers
<1>3. ~Writes(eng[e], v)
  <2>1. ASSUME NEW i \in 1 .. Len(eng[e].got), RunOf(eng[e])[i] = W(v)
        PROVE  FALSE
    <3>1. RunOf(eng[e])[i].page = v
      BY <2>1 DEF W
    <3>2. eng[e].got[i] \in Frames
      BY EngineFacts DEF EngineType
    <3> QED BY <1>1, <3>1, <3>2 DEF Refers
  <2>2. Now(eng[e]) = W(v) => Now(eng[e]).page = v
    BY WriteAtHand
  <2> QED BY <1>2, <2>1, <2>2 DEF Writes
<1>4. tlb[e][v].at = Uncached
  <2>1. SUFFICES ASSUME tlb[e][v].at # Uncached PROVE FALSE
    OBVIOUS
  <2>2. tlb[e][v].at \in Frames
    BY <2>1, EngineFacts DEF Entries
  <2>3. CASE eng[e].pc = "recheck"
    <3>1. ~Rechecks(e, v)
      BY <1>2 DEF Rechecks, RegPC
    <3>2. CASE Shot(e, v)
      <4>1. mig.victim = v
        BY <3>2 DEF Shot, MemoryInv, MigrationOK, ShootOK
      <4> QED BY <2>2, <3>2, <4>1 DEF Shot, Valid, AwaitedBy
    <3>3. CASE tlb[e][v].at = pte[v].at
      BY <2>2, <3>3 DEF Valid
    <3> QED BY <2>1, <3>1, <3>2, <3>3, EngineFacts DEF TlbAt
  <2>4. CASE eng[e].pc # "recheck"
    BY <2>1, <2>4, HitValid
  <2> QED BY <2>3, <2>4
<1> QED BY <1>1, <1>2, <1>3, <1>4

\* make_resident: a page that no engine has anything of is mapped.
LEMMA Maps ==
  ASSUME MemoryInv, NEW v \in Pages, NEW l \in {"drop", "failed"},
         pte' = [pte EXCEPT ![v] = [at |-> mig.at, dirty |-> FALSE]],
         Shootdown(v, l), UNCHANGED <<tlb, stale, access, dataVars, eng, envVars>>,
         \/ l = "drop" /\ mig.pc = "resident" /\ v = mig.want
         \/ l = "failed" /\ mig.pc = "publish" /\ uffd /\ v = mig.victim
  PROVE  MemoryInv'
<1>0. /\ TypeOK /\ MigrationOK /\ FramesOK /\ HostOK /\ DataOK /\ mig \in MigrationType
      /\ pte \in [Pages -> [at : Frames \cup {Host}, dirty : BOOLEAN]]
  BY DEF MemoryInv, TypeOK
<1>1. /\ mig' = [mig EXCEPT !.pc = "bump", !.shoot = v, !.then = l]
      /\ tlb' = tlb /\ stale' = stale /\ access' = access /\ eng' = eng
      /\ frame' = frame /\ host' = host /\ written' = written /\ free' = free
      /\ faults' = faults /\ uvm' = uvm /\ expect' = expect /\ toucher' = toucher
      /\ count' = count /\ uffd' = uffd /\ Frames' = Frames
  BY DEF Shootdown, envVars, uvmVars, dataVars, Frames
<1>2. /\ mig.at \in Frames /\ ~Resident(v) /\ pte[v].at = Host
      /\ \A f : InHand(f) <=> f = mig.at
      /\ \A u \in Pages : Leaving(u) <=> l = "failed" /\ u = v
      /\ \A e : ~AwaitedBy(e) /\ \A u : ~Shot(e, u)
      /\ mig.pc # "bump" /\ ~Filled /\ (Evicting <=> l = "failed")
  <2>1. CASE l = "drop"
    BY <1>0, <2>1 DEF MigrationOK, WantOK, InHand, Filling, Evicting, Filled, Leaving, AwaitedBy,
                      Shot, Shooting, Resident
  <2>2. CASE l = "failed"
    BY <1>0, <2>2 DEF MigrationOK, VictimOK, InHand, Filling, Evicting, Filled, Leaving, AwaitedBy,
                      Shot, Shooting, Resident
  <2> QED BY <2>1, <2>2
<1>3. /\ mig' \in MigrationType /\ mig'.pc = "bump" /\ mig'.shoot = v /\ mig'.then = l
      /\ mig'.by = mig.by /\ mig'.want = mig.want /\ mig'.victim = mig.victim
      /\ mig'.at = mig.at /\ mig'.dirty = mig.dirty
  BY <1>0, <1>1 DEF MigrationType
<1>4. /\ pte' \in [Pages -> [at : Frames \cup {Host}, dirty : BOOLEAN]]
      /\ pte'[v].at = mig.at /\ ~pte'[v].dirty /\ \A u \in Pages \ {v} : pte'[u] = pte[u]
  BY <1>0, <1>2
<1>5. /\ Shooting' /\ ~Evicting' /\ ~Filling'
      /\ Filled' <=> l = "drop"
      /\ Restored' <=> l = "failed"
      /\ \A f : ~InHand(f)'
      /\ \A u : ~Leaving(u)'
  BY <1>3 DEF Shooting, Evicting, Filling, Filled, Restored, InHand, Leaving
<1>6. /\ \A u \in Pages : Resident(u)' <=> Resident(u) \/ u = v
      /\ \A u \in Pages \ {v} : Dirtied(u)' <=> Dirtied(u)
  BY <1>0, <1>2, <1>4, <1>5, FrameNumbers DEF Resident, Dirtied
<1>7. \A e \in Engines : \A f \in Frames : ~Valid(e, v, f)
  BY <1>0, <1>2, FrameNumbers DEF Valid
<1>8. TypeOK'
  BY <1>0, <1>1, <1>3, <1>4, TypesFixed DEF TypeOK
<1>9. EnginesOK' /\ FaultsOK'
  BY <1>1, EnginesStay, DriverTypes DEF FaultsOK, Serving
<1>10. MigrationOK'
  <2>1. HolderOK'
    BY <1>1, <1>3, DriverTypes DEF HolderOK
  <2>2. ShootOK'
    BY <1>3 DEF ShootOK, None
  <2>3. VictimOK'
    BY <1>0, <1>2, <1>3, <1>4, <1>5, FrameNumbers DEF VictimOK, Resident
  <2>4. WantOK'
    BY <1>1, <1>2, <1>3, <1>4, <1>5 DEF WantOK
  <2> QED BY <2>1, <2>2, <2>3, <2>4 DEF MigrationOK
<1>11. FramesOK'
  <2>0. \A u \in Pages : pte[u].at # mig.at
    BY <1>0, <1>2 DEF FramesOK
  <2>1. \A u, w \in Pages : Resident(u)' /\ pte'[u].at = pte'[w].at => u = w
    BY <1>0, <1>4, <1>6, <2>0 DEF FramesOK
  <2>2. \A u \in Pages : ~InHand(pte[u].at)'
    BY <1>5 DEF InHand
  <2>3. \A f \in Frames : f \in free <=> \A u \in Pages : pte'[u].at # f
    <3>1. TAKE f \in Frames
    <3>2. f # Host /\ (f \in free <=> f # mig.at /\ \A u \in Pages : pte[u].at # f)
      BY <1>0, <1>2, FrameNumbers DEF FramesOK
    <3> QED BY <1>2, <1>4, <3>2
  <2> QED BY <1>1, <1>5, <2>1, <2>2, <2>3 DEF FramesOK
<1>12. HostOK'
  <2>1. uffd => \A u \in Pages :
          host[u] = Missing <=> Resident(u)' /\ ~(Filled' /\ u = mig.want)
    BY <1>0, <1>2, <1>5, <1>6 DEF HostOK
  <2> QED BY <1>0, <1>1, <1>3, <1>5, <2>1 DEF HostOK
<1>13. DataOK'
  <2>1. Quiet' <=> Quiet
    BY <1>1 DEF Quiet
  <2>2. ASSUME Quiet, NEW u \in Pages
        PROVE  IF Resident(u)' THEN frame'[pte'[u].at] = <<u, written'[u]>>
               ELSE ~Leaving(u)' => host'[u] = written'[u]
    <3>1. CASE u = v
      <4>1. frame[mig.at] = <<v, written[v]>>
        BY <1>0, <1>2, <2>2 DEF DataOK
      <4> QED BY <1>1, <1>4, <1>6, <3>1, <4>1
    <3>2. CASE u # v
      <4>1. IF Resident(u) THEN frame[pte[u].at] = <<u, written[u]>> ELSE host[u] = written[u]
        BY <1>0, <1>2, <2>2, <3>2 DEF DataOK
      <4> QED BY <1>1, <1>4, <1>6, <3>2, <4>1
    <3> QED BY <3>1, <3>2
  <2>3. ASSUME Quiet, ~uffd, NEW u \in Pages, ~Dirtied(u)'
        PROVE  host[u] = written[u]
    <3>1. CASE u = v
      BY <1>0, <1>2, <2>3, <3>1 DEF DataOK
    <3>2. CASE u # v
      BY <1>0, <1>6, <2>3, <3>2 DEF DataOK
    <3> QED BY <3>1, <3>2
  <2> QED BY <1>1, <1>3, <1>5, <2>1, <2>2, <2>3 DEF DataOK
<1>14. ASSUME NEW e \in Engines
       PROVE  HeldAt(e)' /\ TagAt(e)' /\ TlbAt(e)' /\ DirtyAt(e)'
  <2>0. /\ \A f \in Frames : ~Refers(eng[e], v, f)
        /\ ~Writes(eng[e], v) /\ tlb[e][v].at = Uncached
        /\ ~(eng[e].pc \in RegPC /\ Now(eng[e]).page = v)
    BY <1>7, NotReferred
  <2>1. HeldAt(e)'
    <3>1. \A u \in Pages \ {v} : \A f : Valid(e, u, f) => Valid(e, u, f)'
      BY <1>2, <1>4 DEF Valid
    <3> QED BY <1>1, <2>0, <3>1, EngineFacts DEF HeldAt
  <2>2. TagAt(e)'
    <3>1. SUFFICES ASSUME eng[e].pc \in {"checkgen", "tag", "recheck"}
                   PROVE  pte'[Now(eng[e]).page].at = eng[e].reg.at \/ e \in stale'
      BY <1>1 DEF TagAt
    <3>2. Now(eng[e]).page \in Pages \ {v}
      BY <2>0, <3>1, Translates DEF RegPC
    <3>3. pte[Now(eng[e]).page].at = eng[e].reg.at \/ e \in stale
      BY <1>2, <3>1, EngineFacts DEF TagAt
    <3> QED BY <1>1, <1>4, <3>2, <3>3
  <2>3. TlbAt(e)'
    <3>1. \A u : Rechecks(e, u)' <=> Rechecks(e, u)
      BY <1>1 DEF Rechecks
    <3>2. \A u \in Pages : tlb[e][u].at \in {Uncached, pte[u].at} \/ Rechecks(e, u)
      BY <1>2, EngineFacts DEF TlbAt
    <3>3. \A u \in Pages : tlb'[e][u].at \in {Uncached, pte'[u].at} \/ Rechecks(e, u)
      BY <1>1, <1>4, <2>0, <3>2
    <3> QED BY <3>1, <3>3 DEF TlbAt
  <2>4. DirtyAt(e)'
    BY <1>1, <1>6, <2>0, EngineFacts DEF DirtyAt
  <2> QED BY <2>1, <2>2, <2>3, <2>4
<1>15. TranslationsOK'
  BY <1>14 DEF TranslationsOK
<1> QED BY <1>8, <1>9, <1>10, <1>11, <1>12, <1>13, <1>15 DEF MemoryInv

LEMMA MakeResidentInv ==
  ASSUME MemoryInv, MakeResident
  PROVE  MemoryInv'
<1>1. mig.pc = "resident" /\ mig.want \in Pages
  BY DriverTypes DEF MakeResident, WantOK, Filling
<1> QED BY <1>1, Maps DEF MakeResident

LEMMA PublishFailedInv ==
  ASSUME MemoryInv, PublishFailed
  PROVE  MemoryInv'
<1>1. mig.pc = "publish" /\ mig.victim \in Pages
  BY DriverTypes DEF PublishFailed, VictimOK, Evicting
<1> QED BY <1>1, Maps DEF PublishFailed

\* copy_in fills the frame in hand, which no page and no engine has.
LEMMA CopyInInv ==
  ASSUME MemoryInv, CopyIn
  PROVE  MemoryInv'
<1>w. PICK w : w = mig.want
  OBVIOUS
<1>0. /\ TypeOK /\ MigrationOK /\ FramesOK /\ HostOK /\ DataOK /\ mig \in MigrationType
  BY DEF MemoryInv, TypeOK
<1>1. /\ mig.pc = "copyin" /\ host[w] # Missing
      /\ frame' = [frame EXCEPT ![mig.at] = <<w, host[w]>>]
      /\ mig' = [mig EXCEPT !.pc = "resident"]
      /\ pte' = pte /\ tlb' = tlb /\ stale' = stale /\ access' = access /\ eng' = eng
      /\ host' = host /\ written' = written /\ free' = free
      /\ faults' = faults /\ uvm' = uvm /\ expect' = expect /\ toucher' = toucher
      /\ count' = count /\ uffd' = uffd
  BY <1>w DEF CopyIn, mmuVars, envVars, uvmVars
<1>2. /\ w \in Pages /\ ~Resident(w) /\ mig.at \in Frames /\ host[w] \in Nat
      /\ \A u \in Pages : pte[u].at # mig.at
  BY <1>0, <1>1, <1>w DEF MigrationOK, WantOK, Filling, FramesOK, InHand, TypeOK
<1>3. /\ mig' \in MigrationType /\ mig'.pc = "resident" /\ mig'.want = w /\ mig'.by = mig.by
      /\ mig'.at = mig.at
  BY <1>0, <1>1, <1>w DEF MigrationType
<1>4. /\ frame' \in [Frames -> (Pages \cup {0}) \X Nat] /\ Frames' = Frames
      /\ frame'[mig.at] = <<w, host[w]>>
      /\ \A f \in Frames \ {mig.at} : frame'[f] = frame[f]
  <2>1. <<w, host[w]>> \in (Pages \cup {0}) \X Nat
    BY <1>2
  <2>2. frame \in [Frames -> (Pages \cup {0}) \X Nat]
    BY <1>0 DEF TypeOK
  <2> QED BY <1>1, <1>2, <2>1, <2>2 DEF Frames
<1>5. /\ ~Shooting /\ ~Shooting' /\ ~Evicting /\ ~Evicting' /\ ~Filled /\ ~Filled' /\ ~Restored'
      /\ Filling'
      /\ \A f : InHand(f)' <=> InHand(f)
      /\ \A u : /\ ~Leaving(u) /\ ~Leaving(u)'
                /\ Resident(u)' <=> Resident(u)
                /\ Dirtied(u)' <=> Dirtied(u)
  BY <1>1, <1>3 DEF Shooting, Evicting, Filled, Restored, Filling, InHand, Leaving, Resident, Dirtied
<1>6. TypeOK'
  BY <1>0, <1>1, <1>3, <1>4, TypesFixed DEF TypeOK
<1>7. EnginesOK' /\ TranslationsOK' /\ FaultsOK'
  BY <1>1, <1>4, <1>5, EnginesStay, TranslationsStay, DriverTypes DEF FaultsOK, Serving
<1>8. MigrationOK'
  <2>1. HolderOK'
    BY <1>1, <1>3, DriverTypes DEF HolderOK
  <2>2. VictimOK' /\ ShootOK'
    BY <1>3, <1>5 DEF VictimOK, ShootOK
  <2>3. WantOK'
    BY <1>2, <1>3, <1>4, <1>5, <1>1 DEF WantOK, Resident
  <2> QED BY <2>1, <2>2, <2>3 DEF MigrationOK
<1>9. FramesOK'
  BY <1>0, <1>1, <1>4, <1>5 DEF FramesOK, Resident
<1>10. HostOK'
  BY <1>0, <1>1, <1>5 DEF HostOK
<1>11. DataOK'
  <2>1. Quiet' <=> Quiet
    BY <1>1 DEF Quiet
  <2>2. ASSUME Quiet, NEW u \in Pages
        PROVE  IF Resident(u)' THEN frame'[pte'[u].at] = <<u, written'[u]>>
               ELSE ~Leaving(u)' => host'[u] = written'[u]
    <3>1. IF Resident(u) THEN frame[pte[u].at] = <<u, written[u]>> ELSE host[u] = written[u]
      BY <1>0, <1>5, <2>2 DEF DataOK
    <3>2. Resident(u) => pte[u].at \in Frames \ {mig.at}
      BY <1>0, <1>2, FrameNumbers
    <3> QED BY <1>1, <1>4, <1>5, <3>1, <3>2
  <2>3. Quiet => frame'[mig'.at] = <<mig'.want, written'[mig'.want]>>
    BY <1>0, <1>1, <1>2, <1>3, <1>4, <1>5 DEF DataOK
  <2>4. Quiet /\ ~uffd' => \A u \in Pages : ~Dirtied(u)' => host'[u] = written'[u]
    BY <1>0, <1>1, <1>5 DEF DataOK
  <2> QED BY <1>3, <1>5, <2>1, <2>2, <2>3, <2>4 DEF DataOK
<1> QED BY <1>6, <1>7, <1>8, <1>9, <1>10, <1>11 DEF MemoryInv

\* The host's copy goes, and with it the hold of mem_lock.
LEMMA DropHostInv ==
  ASSUME MemoryInv, DropHost
  PROVE  MemoryInv'
<1>w. PICK w : w = mig.want
  OBVIOUS
<1>0. /\ TypeOK /\ MigrationOK /\ FramesOK /\ HostOK /\ DataOK
  BY DEF MemoryInv
<1>1. /\ mig.pc = "drop" /\ Release(TRUE) /\ uffd' = uffd
      /\ host' = IF uffd THEN [host EXCEPT ![w] = Missing] ELSE host
      /\ pte' = pte /\ tlb' = tlb /\ stale' = stale /\ access' = access /\ eng' = eng
      /\ frame' = frame /\ written' = written /\ free' = free /\ Frames' = Frames
      /\ faults' = faults /\ expect' = expect /\ toucher' = toucher /\ count' = count
  BY <1>w DEF DropHost, Dropped, mmuVars, appVars, Frames
<1>2. /\ w \in Pages /\ Resident(w)
  BY <1>0, <1>1, <1>w, FrameNumbers DEF MigrationOK, WantOK, Filled
<1>3. /\ mig' \in MigrationType /\ mig'.pc \in {"unlocked", "prefetch"} /\ mig'.pc \in CalmPC
      /\ uvm' \in UvmType /\ FaultsOK' /\ HolderOK' /\ VictimOK' /\ WantOK' /\ ShootOK'
  BY <1>1, Releases
<1>4. /\ host' \in [Pages -> Nat \cup {Missing}]
      /\ uffd => host'[w] = Missing /\ \A u \in Pages \ {w} : host'[u] = host[u]
      /\ ~uffd => host' = host
  BY <1>0, <1>1, <1>2 DEF TypeOK
<1>5. /\ ~Shooting /\ ~Shooting' /\ ~Evicting /\ ~Evicting' /\ Filled /\ ~Filled'
      /\ \A f : ~InHand(f) /\ ~InHand(f)'
      /\ \A u : /\ ~Leaving(u) /\ ~Leaving(u)'
                /\ Resident(u)' <=> Resident(u)
                /\ Dirtied(u)' <=> Dirtied(u)
  BY <1>1, <1>3 DEF Shooting, Evicting, Filled, Filling, InHand, Leaving, Resident, Dirtied
<1>6. TypeOK'
  BY <1>0, <1>1, <1>3, <1>4, TypesFixed DEF TypeOK
<1>7. EnginesOK' /\ TranslationsOK'
  BY <1>1, <1>5, EnginesStay, TranslationsStay
<1>8. FramesOK'
  BY <1>0, <1>1, <1>5 DEF FramesOK, Resident
<1>9. HostOK'
  <2>1. uffd => \A u \in Pages : host'[u] = Missing <=> Resident(u)
    BY <1>0, <1>2, <1>4, <1>5, <1>w DEF HostOK
  <2> QED BY <1>0, <1>1, <1>4, <1>5, <2>1 DEF HostOK
<1>10. DataOK'
  <2>1. Quiet' <=> Quiet
    BY <1>1 DEF Quiet
  <2>2. ASSUME Quiet, NEW u \in Pages
        PROVE  IF Resident(u)' THEN frame'[pte'[u].at] = <<u, written'[u]>>
               ELSE ~Leaving(u)' => host'[u] = written'[u]
    <3>1. IF Resident(u) THEN frame[pte[u].at] = <<u, written[u]>> ELSE host[u] = written[u]
      BY <1>0, <1>5, <2>2 DEF DataOK
    <3>2. ~Resident(u) => host'[u] = host[u]
      BY <1>2, <1>4
    <3> QED BY <1>1, <1>5, <3>1, <3>2
  <2>3. Quiet /\ ~uffd' => \A u \in Pages : ~Dirtied(u)' => host'[u] = written'[u]
    BY <1>0, <1>1, <1>4, <1>5 DEF DataOK
  <2> QED BY <1>3, <1>5, <2>1, <2>2, <2>3 DEF DataOK
<1> QED BY <1>3, <1>6, <1>7, <1>8, <1>9, <1>10 DEF MemoryInv, MigrationOK

\* publish_host: the host has the last version, and the frame goes to the page
\* wanted or is free.
LEMMA PublishInv ==
  ASSUME MemoryInv, Publish
  PROVE  MemoryInv'
<1>v. PICK v : v = mig.victim
  OBVIOUS
<1>a. PICK a : a = mig.at
  OBVIOUS
<1>p. PICK p : p = Published(v, frame[a][2])
  OBVIOUS
<1>0. /\ TypeOK /\ MigrationOK /\ FramesOK /\ HostOK /\ DataOK /\ mig \in MigrationType
      /\ host \in [Pages -> Nat \cup {Missing}] /\ free \subseteq Frames
  BY DEF MemoryInv, TypeOK
<1>1. /\ mig.pc = "publish" /\ host' = [host EXCEPT ![v] = p]
      /\ toucher' = toucher \/ toucher' = Woken(toucher, v)
      /\ pte' = pte /\ tlb' = tlb /\ stale' = stale /\ access' = access /\ eng' = eng
      /\ frame' = frame /\ written' = written /\ Frames' = Frames
      /\ faults' = faults /\ expect' = expect /\ count' = count /\ uffd' = uffd
  BY <1>v, <1>a, <1>p DEF Publish, mmuVars, Frames
<1>2. /\ v \in Pages /\ ~Resident(v) /\ a \in Frames /\ Evicting /\ ~Shooting /\ ~Filling /\ ~Filled
      /\ mig.want # 0 => mig.want \in Pages /\ ~Resident(mig.want) /\ mig.want # v
      /\ \A u \in Pages : pte[u].at # a
      /\ \A f : InHand(f) <=> f = a
      /\ \A u : Leaving(u) <=> u = v
      /\ \A e : ~AwaitedBy(e)
  <2>1. Evicting /\ ~Shooting /\ ~Filling /\ ~Filled
    BY <1>1 DEF Evicting, Shooting, Filling, Filled
  <2>2. /\ v \in Pages /\ ~Resident(v) /\ a \in Frames
        /\ mig.want # 0 => mig.want \in Pages /\ ~Resident(mig.want) /\ mig.want # v
    BY <1>0, <1>a, <1>v, <2>1 DEF MigrationOK, VictimOK, WantOK, MigrationType
  <2>3. /\ \A f : InHand(f) <=> f = a
        /\ \A u : Leaving(u) <=> u = v
        /\ \A e : ~AwaitedBy(e)
    BY <1>1, <1>a, <1>v, <2>1 DEF InHand, Leaving, AwaitedBy
  <2>4. \A u \in Pages : pte[u].at # a
    BY <1>0, <2>3 DEF FramesOK
  <2> QED BY <2>1, <2>2, <2>3, <2>4
<1>3. /\ p \in Nat
      /\ Quiet => p = written[v]
  <2>1. frame[a] \in (Pages \cup {0}) \X Nat /\ frame[a][2] \in Nat
    BY <1>0, <1>2 DEF TypeOK
  <2>2. Quiet => frame[a] = <<v, written[v]>>
    BY <1>0, <1>2, <1>a, <1>v DEF DataOK
  <2>3. CASE uffd
    <3>1. host[v] = Missing
      BY <1>0, <1>2, <2>3 DEF HostOK
    <3> QED BY <1>p, <2>1, <2>2, <2>3, <3>1 DEF Published
  <2>4. CASE ~uffd /\ mig.dirty
    BY <1>p, <2>1, <2>2, <2>4 DEF Published
  <2>5. CASE ~uffd /\ ~mig.dirty
    <3>1. p = host[v] /\ host[v] # Missing
      BY <1>0, <1>2, <1>p, <2>5 DEF Published, HostOK
    <3>2. Quiet => host[v] = written[v]
      BY <1>0, <1>1, <1>v, <2>5 DEF DataOK
    <3> QED BY <1>0, <1>2, <3>1, <3>2
  <2> QED BY <2>3, <2>4, <2>5
<1>4. /\ host' \in [Pages -> Nat \cup {Missing}] /\ host'[v] = p /\ p # Missing
      /\ \A u \in Pages \ {v} : host'[u] = host[u]
  BY <1>0, <1>1, <1>2, <1>3, FrameNumbers
<1>5. /\ toucher' \in [state : {"free", "touching", "faulted", "blocked"},
                       page : Pages \cup {0}, msg : Pages \cup {0}]
      /\ toucher'.state # "free" => toucher'.page \in Pages
      /\ ~uffd => toucher'.state = "free" /\ toucher'.msg = 0
  BY <1>1, DriverTypes, WokenType
<1>6. ASSUME mig' \in MigrationType, uvm' \in UvmType, FaultsOK', MigrationOK', free' \subseteq Frames,
             mig'.pc \in {"unlocked", "prefetch", "copyin"},
             \A f \in Frames : f \in free' <=> f \in free \/ (f = a /\ mig'.pc # "copyin"),
             mig'.pc = "copyin" => mig'.at = a
      PROVE  MemoryInv'
  <2>1. /\ ~Shooting' /\ ~Evicting' /\ ~Filled'
        /\ \A f : InHand(f)' <=> mig'.pc = "copyin" /\ f = a
        /\ \A u : ~Leaving(u)' /\ (Resident(u)' <=> Resident(u))
    BY <1>1, <1>6 DEF Shooting, Evicting, Filled, Filling, InHand, Leaving, Resident
  <2>2. \A u \in Pages \ {v} : Dirtied(u)' <=> Dirtied(u)
    BY <1>1, <1>2, <2>1 DEF Dirtied
  <2>3. TypeOK'
    BY <1>0, <1>1, <1>4, <1>5, <1>6, TypesFixed DEF TypeOK
  <2>4. EnginesOK'
    BY <1>1, EnginesStay
  <2>5. FramesOK'
    <3>1. \A f \in Frames : f \in free' <=> ~InHand(f)' /\ \A u \in Pages : pte[u].at # f
      BY <1>0, <1>2, <1>6, <2>1 DEF FramesOK
    <3>2. \A u \in Pages : ~InHand(pte[u].at)'
      BY <1>1, <1>2, <1>6, <2>1 DEF InHand
    <3>3. \A u, w \in Pages : Resident(u)' /\ pte'[u].at = pte'[w].at => u = w
      BY <1>0, <1>1, <2>1 DEF FramesOK
    <3> QED BY <1>1, <3>1, <3>2, <3>3 DEF FramesOK
  <2>6. HostOK'
    <3>1. uffd => \A u \in Pages : host'[u] = Missing <=> Resident(u)
      BY <1>0, <1>2, <1>4 DEF HostOK
    <3>2. ~uffd => \A u \in Pages : host'[u] # Missing
      BY <1>0, <1>4 DEF HostOK
    <3> QED BY <1>1, <1>5, <2>1, <3>1, <3>2 DEF HostOK
  <2>7. DataOK'
    <3>1. Quiet' <=> Quiet
      BY <1>1 DEF Quiet
    <3>2. ASSUME Quiet, NEW u \in Pages
          PROVE  IF Resident(u)' THEN frame'[pte'[u].at] = <<u, written'[u]>>
                 ELSE host'[u] = written'[u]
      <4>1. CASE u = v
        BY <1>1, <1>2, <1>3, <1>4, <2>1, <3>2, <4>1
      <4>2. CASE u # v
        <5>1. IF Resident(u) THEN frame[pte[u].at] = <<u, written[u]>> ELSE host[u] = written[u]
          BY <1>0, <1>2, <3>2, <4>2 DEF DataOK
        <5> QED BY <1>1, <1>4, <2>1, <4>2, <5>1
      <4> QED BY <4>1, <4>2
    <3>3. ASSUME Quiet, ~uffd, NEW u \in Pages, ~Dirtied(u)'
          PROVE  host'[u] = written[u]
      <4>1. CASE u = v
        BY <1>3, <1>4, <3>3, <4>1
      <4>2. CASE u # v
        BY <1>0, <1>4, <2>2, <3>3, <4>2 DEF DataOK
      <4> QED BY <4>1, <4>2
    <3> QED BY <1>1, <1>6, <2>1, <3>1, <3>2, <3>3 DEF DataOK
  <2>8. ASSUME NEW e \in Engines
        PROVE  HeldAt(e)' /\ TagAt(e)' /\ TlbAt(e)' /\ DirtyAt(e)'
    <3>1. \A f \in Frames : ~Valid(e, v, f)
      BY <1>0, <1>2, FrameNumbers DEF Valid
    <3>2. /\ ~Writes(eng[e], v) /\ tlb[e][v].at = Uncached
          /\ ~(eng[e].pc \in RegPC /\ Now(eng[e]).page = v)
      BY <1>2, <3>1, NotReferred
    <3>3. HeldAt(e)'
      <4>1. \A u, f : Valid(e, u, f) => Valid(e, u, f)'
        BY <1>1, <1>2 DEF Valid
      <4> QED BY <1>1, <4>1, EngineFacts DEF HeldAt
    <3>4. TagAt(e)'
      BY <1>1, EngineFacts DEF TagAt
    <3>5. TlbAt(e)'
      <4>1. \A u : ~Shot(e, u) /\ (Rechecks(e, u)' <=> Rechecks(e, u))
        BY <1>1, <1>2 DEF Shot, Rechecks
      <4> QED BY <1>1, <4>1, EngineFacts DEF TlbAt
    <3>6. DirtyAt(e)'
      BY <1>1, <2>2, <3>2, EngineFacts DEF DirtyAt
    <3> QED BY <3>3, <3>4, <3>5, <3>6
  <2>9. TranslationsOK'
    BY <2>8 DEF TranslationsOK
  <2> QED BY <1>6, <2>3, <2>4, <2>5, <2>6, <2>7, <2>9 DEF MemoryInv
<1>7. CASE mig.want # 0
  <2>1. mig' = [mig EXCEPT !.pc = "copyin"] /\ free' = free /\ uvm' = uvm
    BY <1>7 DEF Publish
  <2>2. /\ mig' \in MigrationType /\ mig'.pc = "copyin" /\ mig'.want = mig.want /\ mig'.by = mig.by
        /\ mig'.at = a
    BY <1>0, <1>a, <2>1 DEF MigrationType
  <2>3. FaultsOK' /\ uvm' \in UvmType
    BY <1>1, <2>1, DriverTypes DEF FaultsOK, Serving
  <2>4. MigrationOK'
    <3>1. ~Shooting' /\ ~Evicting' /\ ~Filled' /\ ~Restored' /\ Filling'
      BY <2>2 DEF Shooting, Evicting, Filled, Restored, Filling
    <3>2. HolderOK'
      BY <1>1, <2>1, <2>2, DriverTypes DEF HolderOK
    <3>3. VictimOK' /\ ShootOK'
      BY <2>2, <3>1 DEF VictimOK, ShootOK
    <3>4. WantOK'
      BY <1>1, <1>2, <1>7, <2>2, <3>1 DEF WantOK, Resident
    <3> QED BY <3>2, <3>3, <3>4 DEF MigrationOK
  <2> QED BY <1>0, <1>6, <2>1, <2>2, <2>3, <2>4
<1>8. CASE mig.want = 0
  <2>1. Release(TRUE) /\ free' = free \cup {a}
    BY <1>8, <1>a DEF Publish, FreeFrame
  <2>2. /\ mig' \in MigrationType /\ mig'.pc \in {"unlocked", "prefetch"}
        /\ uvm' \in UvmType /\ FaultsOK' /\ MigrationOK'
    BY <1>1, <2>1, Releases DEF MigrationOK
  <2> QED BY <1>0, <1>2, <1>6, <2>1, <2>2
<1> QED BY <1>7, <1>8

----------------------------------------------------------------------------
(* The host's write                                                        *)

\* With userfaultfd, a host page that is there is the page's only copy, or
\* the one that the migration is about to drop: that one is not written when
\* the host keeps off the pages that are being moved.
LEMMA HostWriteInv ==
  ASSUME MemoryInv, HostWrite
  PROVE  MemoryInv'
<1>v. PICK v : v = toucher.page
  OBVIOUS
<1>0. /\ TypeOK /\ MigrationOK /\ FramesOK /\ HostOK /\ DataOK
      /\ host \in [Pages -> Nat \cup {Missing}] /\ written \in [Pages -> Nat]
  BY DEF MemoryInv, TypeOK
<1>1. /\ toucher.state = "touching" /\ (TouchAnyTime \/ mig.want # v)
      /\ pte' = pte /\ tlb' = tlb /\ stale' = stale /\ access' = access /\ eng' = eng
      /\ frame' = frame /\ free' = free /\ mig' = mig /\ Frames' = Frames
      /\ faults' = faults /\ uvm' = uvm /\ expect' = expect /\ count' = count /\ uffd' = uffd
  BY <1>v DEF HostWrite, mmuVars, uvmVars, Frames
<1>2. uffd /\ v \in Pages
  BY <1>1, <1>v, DriverTypes
<1>3. HolderOK' /\ VictimOK' /\ WantOK' /\ ShootOK' /\ FaultsOK'
  BY <1>1, MigrationStays, DriverTypes DEF HolderOK, FaultsOK, Serving
<1>4. CASE host[v] = Missing
  <2>1. toucher' = [toucher EXCEPT !.state = "faulted"] /\ host' = host /\ written' = written
    BY <1>4, <1>v DEF HostWrite
  <2>2. /\ toucher' \in [state : {"free", "touching", "faulted", "blocked"},
                         page : Pages \cup {0}, msg : Pages \cup {0}]
        /\ toucher'.page = v
    BY <1>v, <2>1, DriverTypes
  <2> QED BY <1>1, <1>2, <1>3, <2>1, <2>2, DriverTypes, CalmStep DEF dataVars
<1>5. CASE host[v] # Missing
  <2>1. /\ toucher' = [toucher EXCEPT !.state = "free", !.page = 0]
        /\ written' = [written EXCEPT ![v] = @ + 1]
        /\ host' = [host EXCEPT ![v] = written[v] + 1]
    BY <1>5, <1>v DEF HostWrite
  <2>2. /\ toucher' \in [state : {"free", "touching", "faulted", "blocked"},
                         page : Pages \cup {0}, msg : Pages \cup {0}]
        /\ toucher'.state = "free"
    <3>1. toucher \in [state : {"free", "touching", "faulted", "blocked"},
                       page : Pages \cup {0}, msg : Pages \cup {0}]
      BY DriverTypes
    <3> QED BY <2>1, <3>1
  <2>3. /\ host' \in [Pages -> Nat \cup {Missing}] /\ written' \in [Pages -> Nat]
        /\ host'[v] = written'[v] /\ host'[v] # Missing
        /\ \A u \in Pages \ {v} : host'[u] = host[u] /\ written'[u] = written[u]
    <3>1. written[v] + 1 \in Nat
      BY <1>0, <1>2
    <3> QED BY <1>0, <1>2, <2>1, <3>1, FrameNumbers
  <2>4. /\ Shooting' <=> Shooting
        /\ Evicting' <=> Evicting
        /\ Filled' <=> Filled
        /\ \A f : InHand(f)' <=> InHand(f)
        /\ \A u : /\ Resident(u)' <=> Resident(u)
                  /\ Leaving(u)' <=> Leaving(u)
    BY <1>1 DEF Shooting, Evicting, Filling, Filled, InHand, Resident, Leaving
  <2>5. TypeOK'
    BY <1>0, <1>1, <2>2, <2>3, TypesFixed DEF TypeOK
  <2>6. EnginesOK' /\ TranslationsOK'
    BY <1>1, EnginesStay, TranslationsStay
  <2>7. FramesOK'
    BY <1>0, <1>1, <2>4 DEF FramesOK, Resident
  <2>8. HostOK'
    <3>1. \A u \in Pages : host'[u] = Missing <=> host[u] = Missing
      BY <1>5, <2>3
    <3> QED BY <1>0, <1>1, <1>2, <2>2, <2>4, <3>1 DEF HostOK
  <2>9. DataOK'
    <3>1. SUFFICES ASSUME Quiet PROVE DataOK'
      BY <1>1 DEF Quiet, DataOK
    <3>2. v # mig.want
      BY <1>1, <1>2, <3>1 DEF Quiet
    <3>3. ~Resident(v) /\ ~Leaving(v)
      BY <1>0, <1>2, <1>5, <3>2 DEF HostOK
    <3>4. \A u \in Pages : IF Resident(u)' THEN frame'[pte'[u].at] = <<u, written'[u]>>
                           ELSE ~Leaving(u)' => host'[u] = written'[u]
      <4>1. TAKE u \in Pages
      <4>2. CASE u = v
        BY <2>3, <2>4, <3>3, <4>2
      <4>3. CASE u # v
        <5>1. IF Resident(u) THEN frame[pte[u].at] = <<u, written[u]>>
              ELSE ~Leaving(u) => host[u] = written[u]
          BY <1>0, <3>1 DEF DataOK
        <5> QED BY <1>1, <2>3, <2>4, <4>3, <5>1
      <4> QED BY <4>2, <4>3
    <3>5. Evicting => frame[mig.at] = <<mig.victim, written'[mig.victim]>>
      <4>1. SUFFICES ASSUME Evicting PROVE frame[mig.at] = <<mig.victim, written'[mig.victim]>>
        OBVIOUS
      <4>2. mig.victim \in Pages \ {v}
        BY <1>0, <3>3, <4>1 DEF MigrationOK, VictimOK, Leaving
      <4> QED BY <1>0, <2>3, <3>1, <4>1, <4>2 DEF DataOK
    <3>6. mig.pc = "resident" => frame[mig.at] = <<mig.want, written'[mig.want]>>
      <4>1. mig.pc = "resident" => mig.want \in Pages \ {v}
        BY <1>0, <3>2 DEF MigrationOK, WantOK, Filling
      <4> QED BY <1>0, <2>3, <3>1, <4>1 DEF DataOK
    <3> QED BY <1>1, <1>2, <2>4, <3>4, <3>5, <3>6 DEF DataOK
  <2> QED BY <1>3, <2>5, <2>6, <2>7, <2>8, <2>9 DEF MemoryInv, MigrationOK
<1> QED BY <1>4, <1>5

----------------------------------------------------------------------------
(* The invariant                                                           *)

LEMMA StutterInv ==
  ASSUME MemoryInv, UNCHANGED vars
  PROVE  MemoryInv'
<1>1. /\ UNCHANGED <<pte, tlb, stale, access, eng, dataVars, free, uffd>>
      /\ UNCHANGED <<mig, faults, uvm, expect, toucher, count>>
      /\ Frames' = Frames
  BY DEF vars, mmuVars, dataVars, envVars, uvmVars, Frames
<1>2. VictimOK' /\ WantOK'
  BY <1>1, MigrationStays
<1>3. HolderOK' /\ FaultsOK'
  BY <1>1, DriverTypes DEF HolderOK, FaultsOK, Serving
<1> QED BY <1>1, <1>2, <1>3, DriverTypes, CalmStep

LEMMA InitInv ==
  ASSUME Init
  PROVE  MemoryInv
<1>1. PICK n \in FrameCounts : frame = [f \in 1 .. n |-> <<0, 0>>]
  BY DEF Init
<1>2. Frames = 1 .. n /\ n \in Nat
  BY <1>1, ManagedAssumption DEF Frames
<1>3. /\ pte = [v \in Pages |-> [at |-> Host, dirty |-> FALSE]]
      /\ tlb = [e \in Engines |-> [v \in Pages |-> NoEntry]]
      /\ stale = {} /\ access = {} /\ eng = [e \in Engines |-> Idle]
      /\ host = [v \in Pages |-> 0] /\ written = [v \in Pages |-> 0] /\ free = Frames
      /\ mig = Unlocked /\ faults = <<>> /\ uvm = Popping /\ expect = [e \in Engines |-> {}]
      /\ toucher = [state |-> "free", page |-> 0, msg |-> 0] /\ uffd \in BOOLEAN
      /\ count = [cmds |-> 0, touches |-> 0, evicts |-> 0]
  BY DEF Init
<1>4. /\ mig \in MigrationType /\ mig.pc = "unlocked"
  BY <1>3 DEF Unlocked, MigrationType
<1>5. TypeOK
  <2>1. frame \in [Frames -> (Pages \cup {0}) \X Nat]
    <3>1. <<0, 0>> \in (Pages \cup {0}) \X Nat
      OBVIOUS
    <3> QED BY <1>1, <1>2, <3>1
  <2>2. pte \in [Pages -> [at : Frames \cup {Host}, dirty : BOOLEAN]]
    BY <1>3
  <2>3. tlb \in [Engines -> [Pages -> Entries]]
    <3>1. NoEntry \in Entries
      BY DEF NoEntry, Entries
    <3> HIDE DEF NoEntry, Entries
    <3> QED BY <1>3, <3>1
  <2>4. eng \in [Engines -> EngineType]
    BY <1>3, IdleRecord
  <2>5. uvm \in UvmType
    BY <1>3 DEF Popping, UvmType
  <2>6. /\ host \in [Pages -> Nat \cup {Missing}] /\ written \in [Pages -> Nat]
        /\ faults \in Seq(FaultType) /\ expect \in [Engines -> SUBSET Int]
    BY <1>3
  <2>7. /\ toucher \in [state : {"free", "touching", "faulted", "blocked"},
                        page : Pages \cup {0}, msg : Pages \cup {0}]
        /\ count \in [cmds : Nat, touches : Nat, evicts : Nat]
    BY <1>3
  <2> QED BY <1>1, <1>2, <1>3, <1>4, <2>1, <2>2, <2>3, <2>4, <2>5, <2>6, <2>7 DEF TypeOK
<1>6. /\ ~Shooting /\ ~Evicting /\ ~Filling /\ ~Filled /\ ~Restored /\ (\A f : ~InHand(f))
      /\ \A v : ~Leaving(v)
  BY <1>4 DEF Shooting, Evicting, Filling, Filled, Restored, InHand, Leaving
<1>7. \A v \in Pages : /\ pte[v].at = Host /\ ~Resident(v)
                       /\ host[v] = 0 /\ written[v] = 0 /\ host[v] # Missing
  BY <1>3 DEF Resident, Missing
<1>8. EnginesOK
  <2>1. \A e \in Engines : EngineAt(eng[e]) /\ eng[e].pc = "idle"
    BY <1>3, IdleRecord
  <2> QED BY <1>3, <2>1 DEF EnginesOK, InsidePC, RegPC
<1>9. FaultsOK
  BY <1>3 DEF FaultsOK, Serving, Popping
<1>10. MigrationOK
  BY <1>4, <1>6 DEF MigrationOK, HolderOK, VictimOK, WantOK, ShootOK
<1>11. FramesOK
  BY <1>2, <1>3, <1>5, <1>6, <1>7, FrameNumbers DEF FramesOK
<1>12. HostOK
  BY <1>3, <1>6, <1>7 DEF HostOK
<1>13. TranslationsOK
  <2>1. SUFFICES ASSUME NEW e \in Engines
                 PROVE  HeldAt(e) /\ TagAt(e) /\ TlbAt(e) /\ DirtyAt(e)
    BY DEF TranslationsOK
  <2>2. eng[e].pc = "idle" /\ eng[e].got = <<>> /\ \A v \in Pages : tlb[e][v].at = Uncached
    BY <1>3, IdleRecord DEF NoEntry
  <2>3. (\A v, f : ~Refers(eng[e], v, f)) /\ \A v : ~Writes(eng[e], v)
    BY <2>2, RecordOutside DEF OutsidePC
  <2> QED BY <2>2, <2>3 DEF HeldAt, TagAt, TlbAt, DirtyAt, RegPC
<1>14. DataOK
  BY <1>4, <1>6, <1>7 DEF DataOK
<1> QED BY <1>5, <1>8, <1>9, <1>10, <1>11, <1>12, <1>13, <1>14 DEF MemoryInv

LEMMA StepInv ==
  ASSUME MemoryInv, [Next]_vars
  PROVE  MemoryInv'
<1>1. ASSUME NEW e \in Engines, Start(e) \/ Engine(e)
      PROVE  MemoryInv'
  BY <1>1, StartInv, EnterInv, TlbHitInv, HitSetsDirtyInv, WalkInv, WalkBitsInv, SampleGenInv,
     CheckResidentInv, CheckGenInv, StoreTagInv, RecheckGenInv, ApplyInv, FinishInv DEF Engine
<1>2. ASSUME Uvm \/ ReadMessage \/ HostFault \/ EvictAll
      PROVE  MemoryInv'
  BY <1>2, PopFaultInv, ServeFaultInv, UnparkInv, PrefetchLockInv, ReadMessageInv, HostFaultInv,
     EvictAllInv DEF Uvm
<1>3. ASSUME MemLockHolder
      PROVE  MemoryInv'
  BY <1>3, ExchangeInv, BumpInv, InvalidateInv, QuiesceNextInv, EndEvictInv, PublishInv, GiveUpInv,
     CopyInInv, MakeResidentInv, DropHostInv, PrefetchPageInv, PrefetchEndsInv DEF MemLockHolder
<1>4. ASSUME PublishFailed \/ HostTouch \/ HostWrite
      PROVE  MemoryInv'
  BY <1>4, PublishFailedInv, HostTouchInv, HostWriteInv
<1> QED BY <1>1, <1>2, <1>3, <1>4, StutterInv DEF Next

\* The inductive invariant holds in every reachable state: it is the argument
\* behind translate, tlb_insert, shootdown, quiesce and migrate_locked.
THEOREM MemoryInvariant == Spec => []MemoryInv
BY InitInv, StepInv, PTL DEF Spec

----------------------------------------------------------------------------
(* What it says                                                            *)

\* mmu.h's promise: when a shootdown has returned, no engine's TLB holds a
\* translation that the page table does not, but for a tag whose re-check in
\* tlb_insert is still to come and will drop it.
THEOREM TlbsAreClean == Spec => []TlbClean
<1>1. MemoryInv => TlbClean
  <2>1. SUFFICES ASSUME MemoryInv, NEW e \in Engines, NEW v \in Pages,
                        mig.pc \in {"unlocked", "quiesce", "publish", "copyin", "resident"}
                 PROVE  \/ tlb[e][v].at \in {Uncached, pte[v].at}
                        \/ eng[e].pc = "recheck" /\ Cur(e).page = v /\ e \in stale
    BY DEF TlbClean
  <2>2. ~Shot(e, v)
    BY <2>1 DEF Shot, Shooting
  <2> QED BY <2>1, <2>2, EngineFacts, Positions DEF TlbAt, Rechecks
<1> QED BY <1>1, MemoryInvariant, PTL

\* No frame has two pages, no frame is lost between the page table, the free
\* list and a migration, and with userfaultfd a page is missing on the host
\* exactly when the device has it (migrate_locked, evict_locked and the frames
\* they take and give back), however the host behaves.
THEOREM PagesAreOwned == Spec => []PagesOwned
<1>1. MemoryInv => PagesOwned
  <2>1. SUFFICES ASSUME MemoryInv PROVE FramesOwned /\ HostCopyDropped
    BY DEF PagesOwned
  <2>2. TypeOK /\ FramesOK /\ HostOK
    BY <2>1 DEF MemoryInv
  <2>3. mig.pc = "unlocked" => free = Frames \ {pte[v].at : v \in Pages}
    <3>1. SUFFICES ASSUME mig.pc = "unlocked" PROVE free = Frames \ {pte[v].at : v \in Pages}
      OBVIOUS
    <3>2. free \subseteq Frames /\ \A f \in Frames : ~InHand(f)
      BY <2>1, <3>1, DriverTypes, CalmFacts DEF CalmPC
    <3>3. \A f \in Frames : f \in free <=> f \notin {pte[v].at : v \in Pages}
      BY <2>2, <3>2 DEF FramesOK
    <3> QED BY <3>2, <3>3
  <2>4. FramesOwned
    BY <2>2, <2>3 DEF FramesOwned, FramesOK
  <2>5. HostCopyDropped
    BY <2>2 DEF HostCopyDropped, HostOK, Leaving, Evicting, Filled, Shooting
  <2> QED BY <2>4, <2>5
<1> QED BY <1>1, MemoryInvariant, PTL

\* A frame that a command has translated is the command's page's until it has
\* used it: it is not free and no other page has it, whatever is evicted
\* meanwhile and however the host behaves (quiesce).
NotRecycled ==
  \A e \in Engines : \A h \in Holds(e) :
    h[2] \notin free /\ \A u \in Pages : pte[u].at = h[2] => u = h[1]

\* What an engine holds is valid.
LEMMA HoldsValid ==
  ASSUME MemoryInv, NEW e \in Engines, NEW h \in Holds(e)
  PROVE  h = <<h[1], h[2]>> /\ h[1] \in Pages /\ h[2] \in Frames /\ Valid(e, h[1], h[2])
<1>1. PICK i \in 1 .. Len(eng[e].got) : h = <<RunOf(eng[e])[i].page, eng[e].got[i]>>
  BY Positions DEF Holds
<1>2. /\ eng[e] \in EngineType /\ EngineAt(eng[e]) /\ HeldAt(e) /\ eng[e].got \in Seq(Frames)
      /\ eng[e].gather \in BOOLEAN /\ eng[e].done \in Nat /\ eng[e].got # <<>>
  BY <1>1, EngineFacts DEF EngineType
<1>3. /\ eng[e].done < Len(Todo(eng[e])) /\ Len(eng[e].got) <= Len(RunOf(eng[e]))
      /\ IsCommand(eng[e].op, eng[e].pages)
  BY <1>2 DEF EngineAt, OutsidePC
<1>4. i \in 1 .. Len(RunOf(eng[e])) /\ eng[e].got[i] \in Frames
  BY <1>2, <1>3, RunType
<1>5. RunOf(eng[e])[i].page \in Pages
  BY <1>2, <1>3, <1>4, RunType DEF Access
<1>6. Refers(eng[e], RunOf(eng[e])[i].page, eng[e].got[i])
  BY DEF Refers
<1>7. Valid(e, RunOf(eng[e])[i].page, eng[e].got[i])
  BY <1>2, <1>4, <1>5, <1>6 DEF HeldAt
<1> QED BY <1>1, <1>4, <1>5, <1>7

\* No frame is recycled under a translation.
THEOREM FramesNotRecycled == Spec => []NotRecycled
<1>1. MemoryInv => NotRecycled
  <2>1. SUFFICES ASSUME MemoryInv, NEW e \in Engines, NEW h \in Holds(e)
                 PROVE  h[2] \notin free /\ \A u \in Pages : pte[u].at = h[2] => u = h[1]
    BY DEF NotRecycled
  <2>2. h[1] \in Pages /\ h[2] \in Frames /\ Valid(e, h[1], h[2])
    BY <2>1, HoldsValid
  <2>3. \A u \in Pages : pte[u].at = h[2] => u = h[1]
    BY <2>1, <2>2, ValidUnique DEF Valid
  <2>4. h[2] \notin free
    <3>1. pte[h[1]].at = h[2] \/ InHand(h[2])
      BY <2>2 DEF Valid, AwaitedBy, InHand, Evicting
    <3> QED BY <2>1, <2>2, <3>1 DEF MemoryInv, FramesOK
  <2> QED BY <2>3, <2>4
<1> QED BY <1>1, MemoryInvariant, PTL

\* What a command is about to read or overwrite is the page it asked for in
\* its latest version, unless the host may write a page while it is migrated
\* (copy_in and MADV_DONTNEED are not atomic, see README.md).
THEOREM NoTranslationIsStale == Spec => [](Quiet => NoStaleTranslation)
<1>1. MemoryInv => (Quiet => NoStaleTranslation)
  <2>1. SUFFICES ASSUME MemoryInv, Quiet, NEW e \in Engines, NEW h \in Holds(e)
                 PROVE  frame[h[2]] = <<h[1], written[h[1]]>>
    BY DEF NoStaleTranslation
  <2>2. h[1] \in Pages /\ h[2] \in Frames /\ Valid(e, h[1], h[2]) /\ TypeOK /\ DataOK
    BY <2>1, HoldsValid DEF MemoryInv
  <2>3. CASE pte[h[1]].at = h[2]
    <3>1. Resident(h[1])
      BY <2>2, <2>3, FrameNumbers
    <3> QED BY <2>1, <2>2, <2>3, <3>1 DEF DataOK
  <2>4. CASE AwaitedBy(e) /\ h[1] = mig.victim /\ h[2] = mig.at
    <3>1. Evicting
      BY <2>4 DEF AwaitedBy, Evicting
    <3> QED BY <2>1, <2>2, <2>4, <3>1 DEF DataOK
  <2> QED BY <2>2, <2>3, <2>4 DEF Valid
<1> QED BY <1>1, MemoryInvariant, PTL

\* Outside a migration the copy that the page table points at has the last
\* write, an engine's or the host's, under the same condition (begin_evict,
\* end_evict, publish_host, copy_in).
THEOREM NoWriteIsLost == Spec => [](Quiet => NoWriteLost)
<1>1. MemoryInv => (Quiet => NoWriteLost)
  <2>1. SUFFICES ASSUME MemoryInv, Quiet, mig.pc = "unlocked", NEW v \in Pages
                 PROVE  IF Resident(v) THEN frame[pte[v].at] = <<v, written[v]>>
                        ELSE host[v] = written[v]
    BY DEF NoWriteLost
  <2>2. DataOK /\ ~Leaving(v)
    BY <2>1, CalmFacts DEF MemoryInv, CalmPC
  <2> QED BY <2>1, <2>2 DEF DataOK
<1> QED BY <1>1, MemoryInvariant, PTL
=============================================================================

# softgpu in TLA+

softgpu is a GPU in software: a user-space runtime and driver on one side, a
"device" made of threads on the other, and between them what real hardware
has: command rings with doorbells, fences, an MMU with TLBs, VRAM, managed
(migrating) memory and interrupts. It contains few algorithms and many
protocols between threads. This directory models those protocols, checks them
with TLC on small instances, and proves with TLAPS every safety property that
the runs check, for any number of threads, channels, slots, streams, pages and
commands: the command ring and its refinement, idle gating, host waits, the
staging pool, the allocator, device memory, managed memory, streams with events
and pinned buffers, stream binding over the runlist, and opening and closing.
Liveness is model-checked only.

Paths below are relative to the repository (`src/device/device.cpp` and so
on). `PROJECT.json` has, for every definition, the lines it models.

## 1. Inventory

### Parts and how they interact

    application threads
       |  sgLaunch*, sgMemcpy*, sgMalloc*, sgStream*, sgEvent*, sg*Synchronize
       v
    runtime (src/runtime/runtime.cpp)        streams, events, tails
       |  SG_IOC_SUBMIT, ALLOC, FREE, WAIT ...
       v
    driver (src/driver/driver.cpp)           producers (one per ring), staging
       |   ^            ^                    pool, VRAM and VA heaps, pending
       |   |            |                    frees, resident set
       |   | IRQ line   | fault queue
       v   |            |
    device (src/device/device.cpp, mmu.cpp)  one thread per engine (compute,
                                             copy), channels with PUT / GET,
                                             PTEs, TLBs
    UVM thread, host-fault thread            in the driver: serve device page
                                             faults and userfaultfd faults
    char device (kmod/softgpu.c)             optional: sleep and interrupts
                                             through a kernel module

| Part | State | Operations | Hard behaviours | What makes it correct |
|---|---|---|---|---|
| Command ring | slots, `reserve`, `put` mirror, PUT, GET, `parked`, `fault_fail`, `sticky_error` | `enqueue` (mutex or ticket), fetch, execute, retire, park and unpark | producers in any order, ring full, faults in the middle | each command runs once, whole, in claim order |
| Idle gating | `asleep`, `asleep_blocked`, doorbell `Event` | `doorbell`, the sleep part of `Device::run`, `wake_blocked_sleepers`, `unpark` | store buffers, sleep against ring | no wake-up is lost without the 1 ms safety net |
| Host wait | `irq_target`, IRQ `Event`, kernel work item | `wait_until`, arm, check, sleep; `raise_host_irq` | arming against retiring, several waiters on one line | no interrupt is lost, every wait ends |
| Staging pool | `busy`, `fence` per slot, cursor | `acquire_slot`, `release_slot`, H2D loop, D2H window | slots reused while DMA runs, errors, exhaustion | a source is not overwritten before it is read; copies deliver their own bytes |
| VRAM allocator | free and live maps | `alloc`, `free` | split, coalesce, rounding | blocks tile the range |
| Device memory calls | heaps, `pending`, page table, residents | ALLOC, ALLOC_MANAGED, FREE, reclaim, drain, evict all | free under commands in flight, refusal near full | nothing recycled under a command; refused only when full |
| MMU and managed memory | PTEs, TLBs, `tlb_gen_`, `access_`, frames, host pages | `run_at`, evict, migrate, prefetch, host fault | shootdown against translation, dirty bits set late, two fault paths | no stale translation, no write lost, commands end |
| Streams and events | `tail`, `extra_waits`, event fences | `stream_submit`, record, wait, synchronize | two engines per stream, threads sharing a stream | stream order across engines; synchronize returns when the work has run |
| Runlist | priorities, `mixed_priority_`, round-robin start, timeslice | scan, visit, preemption at boundaries, `set_channel_priority` | what a scan saw is stale when it is used, priorities change meanwhile | a higher priority waits for one command; equals take turns |
| Stream binding | `g_bind`: priority and users per channel | `bind_channel`, `unbind_channel`, `set_priority_all` | threads create and destroy streams, fewer channels than streams | two priorities never share a ring; refusal only when every channel is taken |
| Pins | pinned ranges | PIN, UNPIN, direct-copy decision, `sgMallocHost`, `sgFreeHost`, ... | unpin and free under a DMA | the device never works on freed memory |
| Open, close, power | `g_drv`, `g_refs`, the threads and their stop flags | `sg_drv_open`, `sg_drv_close`, constructor, destructor, `power_on`, `power_off`, `sgInit`, `sgShutdown` | stopping threads that sleep, calls in progress | nothing is used after it is gone, everything submitted runs first, every call returns |
| Kernel mapping | the file's memory and work item | open, `SG_IOC_KMOD_MAP`, mmap, release | release under a queued interrupt | rings lie apart; the work item never outlives the file |
| Kernels, statistics, tools | data only | | | not modelled, see section 9 |

The 40 hazards, each at the line where it bites and with the properties that
would catch it, are in `PROJECT.json`.

### Conventions of the models

* One variable per field of the code, plus one program counter per thread.
  One action is what a thread does between two points where another thread can
  tell the difference: accesses to shared words are separate steps; a section
  under a lock is one step when nobody reads its variables outside the lock.
* Fences are numbers: the value of a command on a ring is its position.
* Where the code relies on `seq_cst` fences (idle gating, host wait) stores go
  through a store buffer: a release store becomes visible in a separate
  `Drain` step, and only a `seq_cst` operation forces it. Elsewhere the code
  publishes with release/acquire pairs or under locks and memory is
  sequentially consistent in the model.
* Data are model values: a command is a number, a chunk a record of its copy
  and index, the contents of a page a version number.
* Spin budgets, thresholds and CLOCK order are free choices, so the results do
  not depend on them.

## 2. Modules

| Module | Models | Role |
|---|---|---|
| `CommandStream` | | abstract specification of a channel: a bounded queue that accepts commands and retires the oldest, or its failure |
| `CommandRing` | `enqueue`, the engine loop, `service_faults` for one channel | detailed specification; `ImplementsStream` is its refinement of `CommandStream` |
| `CommandRingProofs`, `IdleGatingProofs`, `StagingPoolProofs`, `ManagedMemoryProofs`, `StreamsProofs`, `StreamBindingProofs` | | the theorems about the module each is named after (section 7) |
| `DeviceMemoryProofs` | | the theorems about `VramAllocator` and `DeviceMemory`, which share the lemmas about `FreeList` |
| `DriverProofs` | | the theorems about `Lifecycle` and `HostWait` |
| `IdleGating` | `doorbell`, the sleep part of `Device::run`, `wake_blocked_sleepers`, `unpark` | two engines, one channel each, cross-engine waits |
| `HostWait` | `wait_until`, the engine's retire tail, `Event`, the kernel's `sg_do_sleep` and `sg_irq_work` | `WaitSpec`: one engine per channel, waiters on sets of fences |
| `StagingPool` | `acquire_slot`, `release_slot`, the pageable half of `do_submit` | rings reduced to what `CommandStream` promises |
| `FreeList` | `VramAllocator::alloc` and `free` as operators | used by the next two |
| `VramAllocator` | the allocator as an object | own specification (`AllocatorSpec`), byte granular, with word width |
| `DeviceMemory` | ALLOC and ALLOC_MANAGED with their roll-backs, FREE, reclaim, drain, evict-all, and what `service_faults`, `prefetch_locked` and `service_host_faults` do to the frames | composes two `FreeList` heaps, rings and migration |
| `ManagedMemory` | `mmu.cpp`, engine accesses, `migrate_locked`, `evict`, prefetch, both fault threads | whole commands reduced to the pages they touch |
| `Streams` | `stream_submit`, events, synchronize, pinned host buffers | over one ring per engine and channel |
| `Runlist` | the scan and visit loop of `Device::run`, `set_channel_priority` | a channel reduced to whether its head can run; extended by the next |
| `StreamBinding` | `g_bind`, `bind_channel`, `unbind_channel`, stream creation and destruction | composes the runtime's binding with `Runlist` |
| `Lifecycle` | open, close, constructor and destructor of the driver, power, thread ends, the char device's file, `sgInit`, `sgShutdown` | the other parts reduced to where their threads can be |
| `MCHostWait`, `MCStagingPool`, `MCManagedMemory` | | a symmetry set and the commands in use, for TLC; the other runs check the module itself |

### Correspondence, module by module

**CommandRing.** A producer's `pc` walks `do_submit` and `enqueue`: take the
lock or a ticket, wait for room, wait for its turn (ticket mode), write the slot
(in two steps, a half-written slot is `Torn`), store PUT, store the mirror,
unlock. The engine's `epc` walks one round of `Device::run` for the channel: load PUT,
exchange `fault_fail`, test `parked`, fetch, execute, and retire; a page fault
sets `parked` and pushes an entry to `faults`. The handler pops the entry,
migrates or fails, posts `fault_fail` when it failed, then unparks. `order`,
`submit`, `outcome` and `faulted` are history variables that no guard reads.
`ticketMode` is chosen in the initial state and never changes, so that both
modes are checked, and proved, at once.

**IdleGating.** The engine samples the bell's sequence, announces itself
(`asleep`), re-checks and sleeps; `rung[e]` says that the sequence has moved since
then, which is what the futex compares. A producer stores PUT (into its
buffer), fences, looks at `asleep`, and rings. An engine blocked on a
`WAIT_FENCE` counts itself in `numAsleepBlocked`, and each retirement looks at
that count after a fence. The statistic of missed doorbells is left out.

**HostWait.** A waiter samples the line, arms `irq_target` on each channel it
waits for (taking the lower of two targets), checks all fences, and sleeps; the
engine stores GET, fences, loads the target, clears it and raises. With `kmod`
(chosen in the initial state) the pulse goes through a work item that can be queued again while it runs, and
a signal may interrupt the sleep.

**StagingPool.** A thread's `pc` walks the H2D loop (acquire, wait for the slot's
previous DMA, fill, enqueue, release) or the D2H loop with its window. A slot's
`data` is the chunk it holds, so overwriting a source early is visible as a DMA
that reads the wrong chunk. The submission mode is chosen in the initial state,
the channel by each copy; a DMA may fail at any time.

**DeviceMemory.** `AllocBegin` and the steps of `Alloc` walk the retries of the ALLOC path: take,
reclaim, drain to a snapshot of every PUT, evict all, take again, refuse. A later
step of the call may fail (`RollBack`): what was taken goes back. A free
puts the block on `pending` with the fences at that time. Commands carry the
allocation they were made for. The other users of `mem_lock` are actions of their
own between any two steps of a call: `Migrate` is the UVM thread on the page that a
channel's head wants, by a free frame or by one it evicts; `Prefetch` takes the
pages that follow (`ahead`); `HostFault` is the userfaultfd thread, which gives the
frame of a page back. Each may fail where the code may: no page to evict, a
write-back that fails (with `Uffd`, also in the middle of evict-all), a copy or a
publication that fails after the frame was taken. A prefetch's budget is left open,
and it lets go of `mem_lock` between its pages, which the code does not: there are
more orders in the model than in the code, and no property is owed to fewer.

**ManagedMemory.** An engine's record walks a translation: enter the access
section, look up the TLB, walk, insert, use the frame, leave. `mig` walks the
holder of `mem_lock` through evict (exchange the PTE, shoot down, quiesce, copy
out) and migrate (copy in, publish, drop the host page). `toucher` is an
application thread that writes managed pages from the host. Whether there is a
userfaultfd, and how many frames `sgMalloc` has left, is chosen in the initial
state; frames are handed out first fit.

**Streams.** `Begin` takes the stream's lock, then the WAITs for `extra_waits`
and for a tail on another engine go to the ring of the command's engine,
followed by the command. The ghost variables hold, per command, what it must
come after according to the calls the application made; no call that the code
gets wrong erases any of it. Which streams share a
channel (`channelOf`) is chosen in the initial state. A copy with a host buffer
looks the buffer up in `pins` in a step of its own (`Decide`) before its command
is published; `sgFreeHost` unpins, takes a snapshot of every PUT, waits and
frees. `live` is what the application owns, `dma` what each command works on.
A command may fail, and from then on (`sticky`) the driver refuses every submit:
`Denied` is that refusal at each of the points where a submit asks, with WAITs
already on the ring, `Refused` one for a bad address. Both leave the stream's tail
where it was; `extra_waits` are gone once all of them were submitted. `ZeroCopy` is
a pageable H2D copy of no bytes, which leaves fence 0 as the tail. Each of two calls
costs the application its order, and the history variable `lapsed` records that one
was made: an empty copy, and a bad address on a stream that has been told to wait for
events. `StreamOrder` and `SyncComplete` speak of the time before; `InOrder` and
`Complete` are the same without the condition, and fail (section 6). Buffers and
progress do not depend on it. Behaviours start with every buffer pinned, as
`sgMallocHost` returns it.
The application does not free a buffer while one of its own calls still uses
it. UNPIN's entry on the driver's pending list changes nothing when it is
reclaimed, and is left out. A copy is one chunk, so a copy of which only a part was
submitted is in `StagingPool` and not here.

**Runlist.** One engine is modelled in full; of the others only the priorities,
which decide `mixed_priority_`. `Inspect` looks at one channel of a scan, `Look`
at one channel of a boundary check, so fences, faults, unparks and priority
changes fall between them. A channel's head is none, ready or blocked; what
follows it is any of these. Time is a count of commands: a slice may end at any
boundary and ends after `SliceCmds` at the latest. `overtaken` counts, per
channel, commands of a lower priority that began while it could run.

**StreamBinding.** Threads create and destroy streams under `g_bind_mu`; each
SET_PRIORITY is the three steps of `set_channel_priority`. The branch of
`bind_channel` for a SET_PRIORITY that fails is left out: priorities are clamped
and indices in range, so it does not fail. A stream is no longer used from the
call of `sgStreamDestroy` on.

**Lifecycle.** A client opens, makes calls and closes; `api.lock` is
`g_open_lock`, held from the first open until the engine is started and from the
last close until the driver is gone. An ioctl is two steps, as the pointer is
read under the lock and used without it. One engine and one ring stand for all;
the UVM thread is followed through each look at the stop flag, the userfaultfd
thread through `poll` and the test latch. A migration may fail: the UVM thread posts
`fault_fail` (`UvmServe`) and unparks in a step of its own, and the engine may retire
the head on it while the channel is still parked (`FailHead`). Whether the char device and the
userfaultfd are there is chosen at every open, SG_KMOD=require included. The
kernel's work item is idle, queued, running in its file, or queued again while it runs.
A client is one thread that makes its calls between its own open and close: an
ioctl on a reference that another thread closes meanwhile is a misuse of it.

## 3. Properties and what the runs show

Runs check deadlock unless the modelled application may simply stop making
calls; those configurations say `CHECK_DEADLOCK FALSE`. Switches of the program
(submission mode, interrupt back end, userfaultfd, channel sharing) are variables
that the initial state chooses, so one run covers all combinations, and failures
(of a migration, a DMA, a command, `UFFDIO_COPY`, a step of ALLOC) are possible
wherever the module has what can fail. `DeviceMemory` takes `Uffd` as a constant: with it
more can happen, since write-backs can fail and the host can fault.

| Run | Properties | Shows |
|---|---|---|
| `CommandRing` | `IndInv`, `ClaimedOnce`, `ChunksContiguous`, `PutAdvancesByOne`, `ImplementsStream`, `AllRetire` | two producers, by tickets or under the lock, on a ring of 2 while commands fault and fail: each command runs once, whole and in claim order, and all retire. `PublishedIntact` and `RunsWhatWasClaimed` are parts of `IndInv` |
| `IdleGating` | `DoorbellNotLost`, `UnparkNotLost`, `FenceWakeNotLost`, `CommandsRetire` | no engine sleeps on work, an unpark or a fence that nobody will announce, with store buffers on both sides; without the timeout, commands with cross-engine waits retire |
| `HostWait` | `InterruptNotLost`, `FenceStaysArmed`, `WaitsEnd` | two waiters on fences or snapshots of two channels, one line, over either back end; of two targets the lower stays armed; every wait ends without the timeout |
| `StagingPool` | `CopiesIntact`, `SlotsAccounted`, `ExhaustedOnlyByMany` | two threads, four slots, both modes, one or two channels, DMA errors |
| `VramAllocator_tiles` | `HeapSound` | every sequence of calls on a 12-byte range: blocks tile it, neighbours are merged, grants are large enough |
| `DeviceMemory` | `NoUseAfterRecycle`, `MemoryAccounted`, `RefusesOnlyWhenFull`, `AllocReturns` | frees, roll-backs, evictions, drains, migrations, prefetches and host faults against commands in flight on two channels; the drain under `alloc_lock` ends |
| `ManagedMemory_evict` | `NoStaleTranslation`, `TlbClean`, `NoWriteLost`, `PagesOwned` | two engines, a host thread and `evict_all` on one frame, `UFFDIO_COPY` failing at will |
| `ManagedMemory_live` | `CommandsEnd`, `HostWoken` | fill, compute and copy over five pages, on one frame or four, with the prefetcher on: commands retire, a host access that faults is woken |
| `ManagedMemory_window` | `NoWriteLost` | violated: section 6 |
| `Streams` | `StreamOrder`, `SyncComplete`, `BuffersLive`, `AllRetire` | two threads, two streams, an event, a host buffer that is pinned, unpinned and freed, empty copies, refused submits and failing commands; no circle of waits, whatever fails |
| `StreamBinding` | `RingsUnmixed`, `MixedAgrees`, `PreemptsAtBoundary`, `RefusedOnlyWhenTaken`, `TopServed` | two threads create and destroy streams of two priorities on two channels while the engine schedules and faults |
| `Lifecycle` | `NoUseAfterTeardown`, `DrainedBeforeOff`, `RingsApart`, `CallsReturn` | two clients, two opens: calls, faults, failed migrations and held host faults against close; what is submitted has run or failed before the engine stops, and every open, wait and close returns |

`ManagedMemory_window` is the one of these runs that ends in a violation: it states
what a comment of the repository promises, and is a finding in `PROJECT.json`. The
other promises that the models refute are stated as properties too, and each has a
configuration with which TLC prints the behaviour
(`tlc -config <configuration>.cfg <module>`). Section 6 has the comments.

| Configuration | Module | Property violated |
|---|---|---|
| `CommandRing_fail` | `CommandRing` | `OnlyFaultedFail` |
| `IdleGating_failed` | `IdleGating` | `FenceAlwaysWakes` |
| `HostWait_failed` | `MCHostWait` | `SignalGuaranteed` |
| `StagingPool_exhaust` | `MCStagingPool` | `NeverExhaustedByWaiters` |
| `StagingPool_leak` | `MCStagingPool` | `NoSlotLeak` |
| `VramAllocator_wrap` | `VramAllocator` | `GrantsHonoured` |
| `DeviceMemory_gives_way` | `DeviceMemory` | `ManagedGivesWay` |
| `ManagedMemory_d2d` | `MCManagedMemory` | `OneFrameIsEnough` |
| `Streams_empty` | `Streams` | `InOrder` |
| `Streams_empty_sync` | `Streams` | `Complete` |

What the passing runs check in their place is what is left when the behaviour is
taken out: `FenceWakeNotLost` and `InterruptNotLost` speak of commands that retired
by being executed, `SlotsAccounted` of a pool without a failed DMA,
`ExhaustedOnlyByMany` says how many copies it takes, `RefusesOnlyWhenFull` counts the
managed pages that are resident at the last attempt, `CommandsEnd` leaves a
`COPY_D2D` in a full VRAM to CLOCK, and `StreamOrder` and `SyncComplete` end with
`lapsed`. `DrainedBeforeOff` asks for an empty ring always,
and for a channel that is not parked and an empty fault queue unless a migration has
failed: the engine can retire a head whose failure was posted before its unpark,
and the drain of the close does not wait for the UVM thread.

`ManagedMemory_window` sets `TouchAnyTime` (the host may write a page while it is
being migrated) and `RaceFree` (it never writes a page of a command in progress).
The passing runs of the module leave `TouchAnyTime` off, and the theorem
`NoWriteIsLost` has the same condition: this window is the only way to lose a
write. `ManagedMemory_live` has one engine: two engines that need one frame can take
it from each other for ever before either has used it, whatever the commands, and the
code does nothing against it but to hope for the scheduler.

## 4. Bounds

| Bound | Value | Why it is enough |
|---|---|---|
| `Depth` | 2 | neighbouring slots differ, and with three commands a slot is reused |
| `MaxCmds` | 1, 2, 3 | more than `Depth` in `CommandRing`, so producers wait for room and slots wrap; a fault or failure has a successor. 1 in `Lifecycle`, where a command is only something to drain |
| `MaxFaults` | 1 | one command that faults, and its retries, which are not counted, bring the handler in at any point |
| producers | 2 | two race for tickets or wait for the lock |
| `Published` | one command on each of two channels, or two on one | a snapshot of two channels, and two targets on a channel, of which the lower must win |
| `Slots` | 4 | a window of 2 per D2H copy, half of the pool. Two threads cannot exhaust it, and the graph of four is too large to explore in full: `StagingPool_exhaust` has four and stops at the first exhaustion, and the theorem `ExhaustionTakesMany` is for any number |
| `MaxChunks` | 2, 3 | as many chunks as the window, and more |
| `Size`, `Align`, `Word` | 12, 2, 32 | six units: split, both kinds of merge, and rounding; the 64-bit word scaled down to 32 values |
| `VramPages`, `VaPages` | 2, 4 | VRAM is full after two allocations, addresses are not |
| `MaxAllocs` | 2 | one that is freed under commands, or drained for, and one that waits for its room; 3 in `DeviceMemory_gives_way` |
| `MaxMoves` | 1 | a prefetch or a host fault at any point; migrations that commands ask for are not bounded |
| `FrameCounts` | {1}, {4}, {1, 4} | 1: each migration evicts; 4: a command that needs two pages has them, and the prefetcher's budget, half of the usable frames less the demand page, is one page |
| `NumPages` | 2, 3, 5 | more pages than frames; 5 lets a fault stream run past what fits, so that the prefetcher evicts |
| `Commands` | 2 or 3 of them | named in `MCManagedMemory`: fills over a page boundary, reads, and a compute command whose operands continue the fill's fault stream |
| `TlbEntries` | 1, 2 | 1: each fill replaces the entry |
| `MaxTouches`, `MaxEvicts` | 0, 1 | a host write, and a round of `evict_all`, at any point of a migration |
| `MaxCalls` | 3 | record, wait and submit on another engine; copy, unpin or free, and another copy; 4, with one thread, in the two `Streams_empty` configurations |
| `Buffers` | 1 | pinned or not, live or freed; two buffers share nothing but the wait for everything |
| `Levels`, streams, channels, engines of `StreamBinding` | 1, 2, 2, 2 | two priorities; the default stream and two more on two channels, so that sharing, refusal and reuse all happen; two engines make SET_PRIORITY calls several |
| `SliceCmds` | 2 | a slice of more than one command |
| clients, `MaxOpens` | 2, 2 | an open beside an open driver, a close that is not the last, or a second life of the driver |
| `NumEngines`, `NumChannels`, `Depth` of `Lifecycle` | 3, 2, 128 | a rectangle, so that rows and columns differ; rings of two pages |

Symmetry is used only in runs without liveness properties, and only over sets
whose members the module treats alike.

## 5. Fairness

Weak fairness on each thread's own steps: producers, engines, the UVM and
host-fault threads, the kernel's work item, copying and waiting threads. The
code justifies it because each is a preemptively scheduled thread and none
disables the others. Store buffers drain (`WF` on `Drain`): hardware makes
stores visible in finite time. Nothing is assumed about the 1 ms and wait
timeouts: what is promised is promised without them, with one exception. In
`Lifecycle` the engine's idle step always comes back to look at `running_`,
because the engine does need its 1 ms timeout there (section 6); the UVM thread's
1 s timeout is an action without fairness. Nothing is assumed about
calls of the application: it may stop submitting. In `StreamBinding` only the
engine is fair; `TopServed` asks for nothing while priorities are being changed.

`ManagedMemory` adds strong fairness on taking `mem_lock` (`ServeFault` and
`PrefetchLock` for the UVM thread, `HostFault`): a thread blocked on a mutex that is released again
and again gets it in the end. `std::mutex` on Linux does not promise this
formally; the holders release it and return to a system call or to the device
between two holds. In `DeviceMemory` weak fairness is enough, but `AllocReturns` has an
exception (`Crowded`): two channels whose next commands want more managed pages than
there are frames for can take a frame from each other for ever, and a drain waits for both.
`CommandsEnd` is stated for the time when no host access is
in progress: with userfaultfd, an engine and a host thread that want the same
page can take it from each other before either has used it, for as long as the
scheduler keeps interleaving them that way.


## 6. Where the code differs from what it says

Statements of the repository that the models refute. The last column names the run
(`ManagedMemory_window`) or the configuration of section 3 that shows it; the others
are about a statistic, wording, performance or an instance too large to explore, and
there the column says where the model has them.

| Statement | What the code does | Shown by, or where it is in the model |
|---|---|---|
| `include/softgpu/sg_runtime.h:93`: host and device see the same bytes | `driver.cpp:867`: a host store between `copy_in` and `MADV_DONTNEED` is dropped, on a prefetched page too | `ManagedMemory_window` |
| `device.h:84`: `fault_fail` retires the command instead of faulting for ever | `device.cpp:288`: `fault_fail` is taken before `parked` is looked at; a failure and its unpark between the two let the head fault a second time, and the failure of that fault retires the next command, which never faulted | `CommandRing_fail` |
| `sg_ioctl.h:82`: a sleeping engine is woken by the engine that retires its fence | `device.cpp:295`: a retirement through `fault_fail` skips `wake_blocked_sleepers`; the sleeper waits for its 1 ms timeout | `IdleGating_failed` |
| `device.cpp:225`: a missed doorbell must never be counted | `device.cpp:532`: a doorbell that completes between the sampling of the bell and the load of PUT is counted; the engine finds the work all the same | not modelled: a statistic |
| `driver.cpp:505`: a check after arming sees the fence or gets a signal | `device.cpp:297`: the `fault_fail` path loads `irq_target` with no fence after its store of GET | `HostWait_failed` |
| `driver.cpp:1138`: D2H copies leave headroom in the pool | `driver.cpp:1140`: in ticket mode, or on several channels, enough copies at once (four with four slots, three with the default eight) hold every slot while each spins for one more | `StagingPool_exhaust` |
| `driver.cpp:202`: a busy slot belongs to a copy in progress | `driver.cpp:1145`: a D2H copy that returns on a sticky error leaves the rest of its window busy | `StagingPool_leak` |
| `vram_alloc.h:4`: the simplest correct thing | `vram_alloc.cpp:11`: a request within one unit of 2^64 rounds to a need of 0 and is granted | `VramAllocator_wrap` |
| `driver.cpp:1371`: managed pages give way to `sgMalloc` | `driver.cpp:1376`: the UVM thread can take the frame back between the eviction and the retry | `DeviceMemory_gives_way` |
| `device.cpp:558`: a retry needs no more pages than the run it works on | `device.cpp:640`: a D2D copy needs two pages at once and with one frame never ends | `ManagedMemory_d2d` |
| `sg_runtime.h:23`: a stream's commands stay in order across engines | `runtime.cpp:231`: an empty pageable H2D copy returns fence 0, which becomes the stream's tail | `Streams_empty` |
| `sg_runtime.h:138`: `sgStreamSynchronize` waits for the stream's work | `runtime.cpp:231`: fence 0 has always retired, so it returns at once | `Streams_empty_sync` |
| `sg_ioctl.h:191` and `runtime.cpp:381`: unpinning under a command in flight is deferred | `driver.cpp:1504`: the pin is erased at once; the entry put on the pending list does nothing | `HostUnregister` in `Streams`; `BuffersLive` holds all the same, because the memory stays or `sgFreeHost` waits |
| `docs/decisions/002-*.md:212`: `sgFreeHost` waits only for the DMAs that reference the buffer | `runtime.cpp:361`: it waits for everything published on any channel | `WaitAll` in `Streams` |
| `runtime.cpp:132`: commands left on a destroyed stream's channel drop to the default priority, "the only one left that can claim this channel" | `runtime.cpp:110`: a channel without users can be claimed at any priority, and its leftover commands then run at that one | `BindFree` after `Unbind` in `StreamBinding` |
| `sg_ioctl.h:46` and `device.h:30`: equal priorities take turns | `device.cpp:342`: the round-robin start moves past a channel of a higher priority too. With a high channel between two low ones that comes back at each boundary, the scan meets the same low one first every time and the other starves | `TopServed` restated for channels that stay runnable at the lowest priority while a higher one comes and goes, on three channels |
| `docs/decisions/006-*.md:42`: `power_off` wakes everyone | `device.cpp:490`: an engine that samples the bell after the signal re-checks its channels, not `running_`, and sleeps out its 1 ms | `EngineIdle` in `Lifecycle` |
| `runtime.cpp:12`: event waits come ahead of the stream's next command | `runtime.cpp:223`: a refused submit has consumed them, on the ring of another engine | `Refused` in `Streams`, against `InOrder` |

Two more things a reader may expect and the code does not do, though no comment
promises them. Managed allocations that are live at the last close are not
released by the destructor. And a stream or an event that the application keeps
across `sgShutdown` and `sgInit` still names fences of the earlier life; only the
default stream is reset (without that reset `CallsReturn` fails).

## 7. Proofs

Each theorem has the form `Spec => []P` (or `Spec => P` for an action property or
a refinement) and holds for every value of the constants that satisfies the
module's `ASSUME`. No theorem uses fairness. In each module an inductive
invariant is proved first, with one lemma or step per action; TLC checked it on
a small instance before it was proved.

| Module | Theorem | What it states |
|---|---|---|
| `CommandRingProofs` | `RingInvariant`, `TypeCorrect` | `IndInv` and `TypeOK` |
| | `PublishedIsIntact` | every slot from GET to PUT holds, whole, the command that claimed it |
| | `RunsInClaimOrder` | what retires as number i is what claimed number i, or its failure |
| | `DoorbellNeverBehind`, `PutMonotone` | the engine never meets PUT behind GET; PUT moves by exactly one |
| | `NoClaimLost` | each command built is on its way to a number, or has exactly one |
| | `ChunksTogether` | in mutex mode the chunks of a call are published together |
| | `RingImplementsStream` | `Spec => Stream!Spec` under the mapping of `CommandRing` |
| `IdleGatingProofs` | `GatingInvariant` | `GatingInv` |
| | `NoDoorbellLost`, `NoUnparkLost`, `NoFenceWakeLost` | the three wake-up properties of the run |
| `StagingPoolProofs` | `PoolInvariant` | `PoolInv` |
| | `CopiesStayIntact`, `NoSlotShared` | `CopiesIntact`, `SlotsAccounted` |
| | `ExhaustionTakesMany` | `ExhaustedOnlyByMany`, for any number of copies and any pool |
| `StreamsProofs` | `StreamsInvariant` | `StreamsInv` |
| | `StreamsInOrder`, `SyncsComplete` | `StreamOrder` and `SyncComplete`: until the application has `lapsed` |
| | `BuffersStayLive` | `BuffersLive`, whatever the application does |
| `StreamBindingProofs` | `BindingInvariant` | `BindingInv` |
| | `PrioritiesUnmixed`, `MixedPriorityTrue` | `RingsUnmixed`, `MixedAgrees` |
| | `RefusalJustified` | `RefusedOnlyWhenTaken`, an action property |
| | `HigherPreempts` | `PreemptsAtBoundary` |
| `DriverProofs` | `LifecycleInvariant` | `LifecycleInv` |
| | `NothingAfterTeardown`, `StopsDrained` | `NoUseAfterTeardown`, `DrainedBeforeOff` |
| | `RingsDisjoint` | `RingsApart`, by arithmetic on the layout |
| | `WaitInvariant` | `WaitInv` |
| | `NoInterruptLost`, `ArmedFenceKept` | `InterruptNotLost`, `FenceStaysArmed` |
| `DeviceMemoryProofs` | `AllocatorSound` | `HeapSound`, if no request wraps when it is rounded up (`NoWrap`) |
| | `DeviceInvariant` | `DeviceInv` |
| | `FreeIsSafe`, `MemoryIsAccounted`, `RefusalIsJustified` | `NoUseAfterRecycle`, `MemoryAccounted`, `RefusesOnlyWhenFull` |
| `ManagedMemoryProofs` | `MemoryInvariant` | `MemoryInv` |
| | `TlbsAreClean`, `PagesAreOwned` | `TlbClean`, `PagesOwned`, whatever the host does |
| | `FramesNotRecycled` | a frame that a command has translated is not free and belongs to no other page (`NotRecycled`), whatever the host does |
| | `NoTranslationIsStale`, `NoWriteIsLost` | `NoStaleTranslation` and `NoWriteLost`, unless the host may write a page in the middle of its migration (`Quiet`) |

**Assumptions on the constants.** Sets that are counted are finite (`Engines`,
the streams and threads of `StreamBinding`, the threads of `StagingPool`,
`Clients`), sets that something is chosen from are not empty, and the values that
stand for "nobody" or "no buffer" are not members. Depths and numbers of slots
and channels are at least 1, as the driver's checks and the headers' constants
make them. The channels of `HostWait` are any set of numbers. The managed range
of `DeviceMemory` is not empty (`VaPages > VramPages`), the allocator's range is a
whole number of units and ends below `Word`, and the commands of `ManagedMemory`
each name an operation and as many pages as it takes (`IsCommand`). Nothing else is assumed; the bounds on calls and commands are any
natural numbers.

Three theorems have a hypothesis of their own, because without it they are
false. `NoWrap` of `AllocatorSound` (the largest request is at least one unit below
2^64) fails for requests at the very end of the range; `Quiet` of
`NoTranslationIsStale` and `NoWriteIsLost` when a host thread stores to a page while
it is being migrated. `StreamOrder` and `SyncComplete` carry such a condition in their
statement (`lapsed`). In each case a configuration of section 3 shows what happens
without it.

### The arguments

Where an argument needs induction over data (a sum, or a fold over a set of any
size), it is by smallest counterexample: the strict subsets of a finite set are
well-founded (`FS_StrictSubsetOrderingWellFounded`), so a set for which the
statement fails has a smallest such subset, and taking one element off it gives
the contradiction. Unlike the library's induction rules this uses first-order
facts only, which the provers can instantiate. The same step on the naturals gives
the free block that first fit takes.

**Command ring.** That published slots are intact is not inductive: to know that
a producer overwrites nothing one must know which slot it may be writing and
that the engine has retired that slot's previous command. `IndInv` adds

* `ClaimsOK`: who may be where. In mutex mode the holder of the lock is the only
  producer between claim and unlock; in ticket mode the tickets in hand are
  distinct and lie between the mirror and `reserve`;
* `PutOK`: PUT and the driver's mirror differ only between the two stores of
  the one producer whose turn it is;
* `SpaceOK`: a producer that passed the backpressure test keeps its slot,
  because GET only grows: its number is less than GET + `Depth`;
* `EngineOK`: what the engine has loaded (`seen`, `running`) is still true.

With these, the slot written is congruent to no number in GET..PUT-1 (two
numbers less than `Depth` apart never share a slot, `DistinctSlots`). The
refinement maps `accepted` to the published prefix of `order` and `retired` to
`outcome`: the store of PUT is `Accept`, the store of GET is `Retire`, all else
stutters. It needs `SpaceOK` and `RunsWhatWasClaimed`. `CmdsOK` (the next command
number is unused) and the bookkeeping of chunks are shown on top of `IndInv`.

**Idle gating.** The invariant says which flags an engine has set at each of its
positions (`FlagsOK`), that `num_asleep_blocked` counts exactly the engines between
their two updates of it (`CountOK`), and that a buffered PUT belongs to a doorbell
that has yet to fence (`StoresOK`). Then an engine past its second look with the
bell unmoved has either seen the newest PUT or has a ring on its way (`BellOK`),
and a sleeper on a fence has the fence ahead of it or its engine on the way
through `wake_blocked_sleepers` (`SleepersOK`). The proof attempt corrected the
property: `FenceWakeNotLost` was first stated without its case for the sleeper's
own unpark, held on the run's instance and is false with three commands, because
a failed migration retires the head while the channel is still parked and the
next head, a WAIT, is then slept on without a look at its fence.

**Host wait.** `ArmedOK` follows the arming loop channel by channel: until the line
moves, each channel the waiter has been through is armed at or below its fence,
or passed, or about to interrupt. `SleepersOK` is what is left after the check: one
awaited channel whose engine has yet to look at the target.

**Staging pool.** A slot is reused while commands on it may be in flight, which is
safe only because whoever meets the slot next meets a fence first. `FlightOK` says
so for every command in flight and every place where the slot can be: free, with
its fence; held by a thread that waits for the previous fence; held by the
thread that has just enqueued the command; in a window. `HoldersOK` counts holders,
`WindowOK` and `ChunksOK` tie a window's entries to the ring's commands, and
`DataOK` to the bytes. That it takes many waiters to hold the pool is a counting
argument over `HoldersOK`: each waits with at most `WindowDepth - 1` slots, and the
pool is the union of what they hold.

**Allocator.** `HeapOK` says of a heap's two block sets that they lie within the
range, are pairwise apart, cover every byte of it, that no two free blocks touch
and that the byte count is the sum of the live lengths. `CarveOK` and `FreeOK` show
that first fit and free with its two merges keep it and change exactly one live
block. The cases of `FreeOK` are the four combinations of neighbours; that the
neighbours found by looking left and right in address order are the only ones
there can be (`Neighbours`) follows from blocks being apart. The sum needs its
order of summation not to matter (`SumRemove`). `AllocatorSound` adds that grants
are live blocks of at least the size asked for, which is where rounding comes in.

**Device memory.** `MemOK(m, U)` relates a memory state (two heaps, page table,
residents) to the set `U` of allocations not yet recycled: live blocks are those
of `U` and of the resident frames, and each page is mapped to the one allocation of `U`
that has it. It is stated for any state and any set because reclaim, recycle and
eviction pass through states that no thread sees: `RecycleOK` takes one allocation
off, `ReclaimedOK` and `FreeFramesOK` do it for all that are due, in whatever order.
`FencesOK` says that no command for a pending allocation lies beyond its fence:
it is true when FREE takes the snapshot and stays true because a submit checks
its allocation under the lock, and the application does not free under its own
submit. So what is retirable has nothing in flight (`Reclaiming`), and `FlightOK`,
each command in flight is on an allocation not yet recycled, is kept. `CallsOK`
follows the retries of ALLOC: after the drain nothing is pending and no FREE can
come in, since the caller holds `alloc_lock`. Between two attempts the UVM thread and
the host-fault thread take and return frames at will (`PagerKeeps`), so nothing is
said of the free list there: `RefusalIsJustified` is about the step that finds no
room. That a gap between live allocations and resident frames would at that moment
be one free block is `RoomIsOneBlock`: a free block that ended inside the gap would
touch the next.

**Managed memory.** `MigrationOK` and `FramesOK` say what the holder of `mem_lock` has in
hand at each step: a frame is free, or mapped once, or the migration's; these do
not depend on the engines. `HeldAt` is the heart: a translation that a command
works with is that of the page table, or that of the page being evicted while the
driver still waits for this engine (`AwaitedBy`: the shootdown is going on, or the
quiesce has not passed the engine yet). `quiesce` ends only when each engine has
been seen outside its access section or in a new one, so no engine is left that
could use the frame when it is copied out or given away. For this an engine must not find
an old translation in its TLB later. `TlbAt`: each entry is that of the page table,
or the shootdown has yet to reach it (`Shot`), or it is a tag written by an engine
whose re-check is still to come and will drop it (`Rechecks`), because the generation
has moved since it was sampled (`TagAt`; the variable `stale` holds the engines for which it has).
`DirtyAt` is what makes eviction without userfaultfd write back: whoever may write
a page has set DIRTY in the page table, or the exchange has taken it along
(`Dirtied`). `HostOK` says which pages are missing on the host. `DataOK`, the last write
of each page is where it belongs, follows from these under `Quiet`.

**Streams.** The property speaks of commands that have run; the invariant of
what makes it *sure* that a command runs first. `Ensures(f, b)`: the fence `f` does
not retire before command `b` has run. `Ready(r, b)`: whatever goes on ring `r` next
runs after `b`, because `b`, a command that comes after it, or a WAIT for one is
ahead there. A stream's tail ensures its own commands; the tail or one of
`extra_waits` ensures what it was told to wait for (`StreamOK`), until a command has
failed: then the waits may be gone, and no command comes after them. Once the
application has lapsed these say nothing (`HasRun`); what is said of buffers holds
throughout (`Drained`, `Published`). As a
submit goes on, holding the lock, these turn from fences into WAITs ahead on the ring
(`SubmitOK`), so that the command finds everything it must come after `Ahead` of it,
and its own fence ensures all of it again. Dropping the wait for a fence of the
same ring is sound since such a fence is already `Ready`. Every step keeps what was
sure, sure (`Kept`): rings only grow (`GrowKept`), and a head that retires has run
what it carried (`ExecuteKept`). The streams' locks keep the rest apart (`StepInv`).
For host buffers, everything on a buffer that is being freed is within the
snapshot that `sgFreeHost` waits for, since the buffer was unpinned and no call
had it when the snapshot was taken (`FreeOK`).

**Stream binding.** Only the holder of `g_bind_mu` is inside SET_PRIORITY (`LockOK`);
users are the streams bound and those on their way to unbind (`UsersOK`); a channel
has the priority of its binding except for the one being programmed, which has no
users (`ProgrammingOK`, `BoundOK`). `HigherPreempts` adds `OvertakenOK`: a channel that
has been overtaken once is still ahead of what the scan or the boundary check
holds, wherever these are.

**Lifecycle.** `g_open_lock` is held exactly while somebody opens or closes, and
`g_refs` counts the clients (`ApiOK`, with a cardinality argument); which threads may
exist follows from how far that somebody has come (`StageOK`); until a migration
fails, a fault is in one place and its command in the ring (`FaultOK`), so that the
engine cannot stop under it; the work item lives only while the file does (`KernOK`).

### Only model-checked

* All liveness (`AllRetire`, `CommandsRetire`, `WaitsEnd`, `AllocReturns`,
  `CommandsEnd`, `HostWoken`, `TopServed`, `CallsReturn`): it needs fairness and
  ENABLED, which the prover does not handle.

This is all: each invariant, action property and refinement that a passing run
checks is also stated by a theorem.

## 8. Plan

Done, most important behaviour first: command ring and its proof, idle gating,
host wait, staging pool, allocator, device memory, managed memory, streams; then
the runlist, stream binding, pinned buffers, the driver's opening and closing, and
the char device's mapping; then the proofs of section 7, in the same order, with
managed memory, the allocator and device memory last.

Next, models: unmap against translation, CLOCK order, and host reads during a
migration in `ManagedMemory`; equal shares of the runlist on three channels as a
run of its own.

## 9. Not modelled, and why

* Arithmetic of the compute kernels: data without state. Which pages a kernel
  touches, in which order, is in `ManagedMemory`.
* Counters, clocks and traces: no decision reads them, except the adaptive spin
  budgets, which are free choices here. SG_IOC_STATS, RESET_STATS and the
  missed-doorbell count are among them.
* Benchmarks, reports and the site.
* Wrap-around of 64-bit fences and sequence numbers: out of reach in the life of
  a process. The 32-bit futex words are compared for equality only, and the
  models treat "has moved" as a flag; 2^32 pulses within one sleep attempt are
  left out.
* CLOCK: which page is evicted is any choice, so nothing is shown that depends on
  the page being an old one.
* A failing `MADV_DONTNEED`: the range is the driver's own mapping in whole pages.
* The part of a stream's copy that was submitted when a later chunk of it failed.
* Weak memory beyond store buffering: acquire and release pairs are taken to
  order what they order; the build's targets do not reorder loads with loads.

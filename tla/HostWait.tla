------------------------------ MODULE HostWait ------------------------------
(***************************************************************************)
(* How host threads wait for fences: wait_until with arm_irq, for a single *)
(* fence (wait_fence) and for a snapshot of several channels               *)
(* (wait_snapshot) (driver.cpp), against the engines' retire-and-interrupt *)
(* sequence (device.cpp, Device::run), over both interrupt back ends: the  *)
(* in-process futex (event.h) and the char device's work queue             *)
(* (kmod/softgpu.c).                                                       *)
(*                                                                         *)
(* Every channel is on an engine of its own and has its commands published *)
(* from the start, so each of them retires sooner or later.                *)
(* Memory is as in IdleGating: the release store of GET may stay in the    *)
(* engine's store buffer until a fence or a read-modify-write.             *)
(***************************************************************************)
EXTENDS Integers, FiniteSets

CONSTANTS Waiters,
          Channels,   \* numbers
          Published   \* bound: how many commands the channels have

ASSUME WaitAssumption == /\ Channels \subseteq Nat
                         /\ Published \subseteq [Channels -> Nat]

VARIABLES
  kmod,      \* interrupts go through the char device, else through the futex
  put,       \* per channel: the commands it has
  get,       \* per channel: GET as other threads see it
  cursor,    \* per channel: the engine's own GET
  irqTarget, \* per channel: the armed fence, 0 if none
  sticky,    \* per channel: its sticky_error is set
  epc,       \* per channel: the engine's position in its retire sequence
  want,      \* per waiter and channel: the fence waited for, 0 if none
  wpc,       \* per waiter: position in wait_until
  todo,      \* per waiter: channels its current loop has yet to visit
  moved,     \* per waiter: the IRQ line's seq has moved since it was sampled
  work       \* the char device's work item: "none", "pending", "running",
             \* or "both" (queued again while it runs)

engineVars == <<get, cursor, sticky, epc>>
waiterVars == <<want, wpc, todo>>
waitVars == <<engineVars, waiterVars, irqTarget, moved, work, kmod, put>>

\* The back end is chosen when the driver is opened and then stays.
WaitInit ==
  /\ kmod \in BOOLEAN /\ put \in Published
  /\ get = [c \in Channels |-> 0] /\ cursor = get /\ irqTarget = get
  /\ sticky = [c \in Channels |-> FALSE]
  /\ epc = [c \in Channels |-> "run"]
  /\ want = [w \in Waiters |-> get]
  /\ wpc = [w \in Waiters |-> "idle"]
  /\ todo = [w \in Waiters |-> {}]
  /\ moved = [w \in Waiters |-> FALSE]
  /\ work = "none"

----------------------------------------------------------------------------
(* Engines                                                                 *)

EGoto(c, from, to) ==
  epc[c] = from /\ epc' = [epc EXCEPT ![c] = to] /\ UNCHANGED <<kmod, put>>

Publish(c) == get' = [get EXCEPT ![c] = cursor[c]]

\* A command ran: store GET, then wake_blocked_sleepers, whose fence also
\* separates the store from the load of irq_target.
RetireCmd(c) ==
  /\ EGoto(c, "run", "fence")
  /\ cursor[c] < put[c]
  /\ cursor' = [cursor EXCEPT ![c] = @ + 1]
  /\ UNCHANGED <<get, sticky, waiterVars, irqTarget, moved, work>>

\* Mutant: the load of irq_target is not separated from the store of GET.
NoFence(c) ==
  /\ EGoto(c, "fence", "load")
  /\ UNCHANGED <<get, cursor, sticky, waiterVars, irqTarget, moved, work>>

Fence(c) ==
  /\ EGoto(c, "fence", "load")
  /\ Publish(c)
  /\ UNCHANGED <<cursor, sticky, waiterVars, irqTarget, moved, work>>

\* A failed migration retires the command with no fence in between.
FailRetire(c) ==
  /\ EGoto(c, "run", "load")
  /\ cursor[c] < put[c]
  /\ cursor' = [cursor EXCEPT ![c] = @ + 1]
  /\ Publish(c) \* the exchange of fault_fail drained the previous store
  /\ sticky' = [sticky EXCEPT ![c] = TRUE]
  /\ UNCHANGED <<waiterVars, irqTarget, moved, work>>

\* Is an interrupt armed for a fence we just passed?
LoadTarget(c) ==
  /\ EGoto(c, "load", IF irqTarget[c] # 0 /\ cursor[c] >= irqTarget[c]
                      THEN "clear" ELSE "run")
  /\ UNCHANGED <<get, cursor, sticky, waiterVars, irqTarget, moved, work>>

\* Clear it before signalling ...
ClearTarget(c) ==
  /\ EGoto(c, "clear", "raise")
  /\ irqTarget' = [irqTarget EXCEPT ![c] = 0]
  /\ UNCHANGED <<get, cursor, sticky, waiterVars, moved, work>>

\* ... and pulse the line: the futex wakes everybody, the char device queues
\* its work item.  Either way the GET store is visible by now.
QueueWork == work' = CASE work = "none" -> "pending"
                       [] work = "running" -> "both"
                       [] OTHER -> work

RaiseHostIrq(c) ==
  /\ EGoto(c, "raise", "run")
  /\ Publish(c)
  /\ IF kmod THEN QueueWork /\ UNCHANGED moved
             ELSE moved' = [w \in Waiters |-> TRUE] /\ UNCHANGED work
  /\ UNCHANGED <<cursor, sticky, waiterVars, irqTarget>>

Drain(c) ==
  /\ get[c] # cursor[c]
  /\ Publish(c)
  /\ UNCHANGED <<cursor, sticky, epc, waiterVars, irqTarget, moved, work, kmod, put>>

EngineOf(c) == \/ RetireCmd(c) \/ FailRetire(c) \/ Fence(c) \/ LoadTarget(c)
             \/ ClearTarget(c) \/ RaiseHostIrq(c)

----------------------------------------------------------------------------
(* The char device's interrupt work                                        *)

\* The work item starts (and may be queued again from here on) ...
StartWork ==
  /\ work = "pending" /\ work' = "running"
  /\ UNCHANGED <<engineVars, waiterVars, irqTarget, moved, kmod, put>>

\* ... advances irq_seq and wakes the wait queue.
IrqWork ==
  /\ work \in {"running", "both"}
  /\ work' = IF work = "both" THEN "pending" ELSE "none"
  /\ moved' = [w \in Waiters |-> TRUE]
  /\ UNCHANGED <<engineVars, waiterVars, irqTarget, kmod, put>>

----------------------------------------------------------------------------
(* Waiters                                                                 *)

WGoto(w, from, to) ==
  wpc[w] = from /\ wpc' = [wpc EXCEPT ![w] = to] /\ UNCHANGED <<kmod, put>>

Awaited(w) == {c \in Channels : want[w][c] # 0}
Passed(w) == \A c \in Channels : get[c] >= want[w][c]

\* A wait for one fence or for a snapshot of several channels.
StartWait(w, f) ==
  /\ WGoto(w, "idle", "spin")
  /\ want' = [want EXCEPT ![w] = f]
  /\ UNCHANGED <<engineVars, todo, irqTarget, moved, work>>

Return(w, from) ==
  /\ WGoto(w, from, "idle")
  /\ want' = [want EXCEPT ![w] = [c \in Channels |-> 0]]
  /\ todo' = [todo EXCEPT ![w] = {}]

\* Satisfied at once or while spinning.
Spun(w) ==
  /\ Passed(w)
  /\ Return(w, "spin")
  /\ UNCHANGED <<engineVars, irqTarget, moved, work>>

\* Not satisfied within the spin budget.
SpinOut(w) ==
  /\ ~Passed(w)
  /\ WGoto(w, "spin", "again")
  /\ UNCHANGED <<engineVars, want, todo, irqTarget, moved, work>>

\* Each turn of the block loop: sample the seq,
Sample(w) ==
  /\ WGoto(w, "again", "arm")
  /\ moved' = [moved EXCEPT ![w] = FALSE]
  /\ todo' = [todo EXCEPT ![w] = Awaited(w)]
  /\ UNCHANGED <<engineVars, want, irqTarget, work>>

\* Mutant: arm_irq lets the latest waiter win.
LatestTarget(c, target) == target

\* arm_irq keeps the lowest armed value.
KeepLowest(c, target) ==
  IF irqTarget[c] = 0 \/ irqTarget[c] > target THEN target ELSE irqTarget[c]

\* The loops go through the channels in order.
Upcoming(w, c) == c \in todo[w] /\ \A d \in todo[w] : c <= d

\* arm every awaited channel (a snapshot skips those already passed),
Arm(w, c) ==
  /\ wpc[w] = "arm" /\ Upcoming(w, c)
  /\ \/ irqTarget' = [irqTarget EXCEPT ![c] = KeepLowest(c, want[w][c])]
     \/ get[c] >= want[w][c] /\ UNCHANGED irqTarget
  /\ todo' = [todo EXCEPT ![w] = IF @ = {c} THEN Awaited(w) ELSE @ \ {c}]
  /\ wpc' = [wpc EXCEPT ![w] = IF todo[w] = {c} THEN "check" ELSE @]
  /\ UNCHANGED <<engineVars, want, moved, work, kmod, put>>

\* Mutant: sleep right after arming.
SleepUnchecked(w, c) ==
  /\ wpc[w] = "check" /\ Upcoming(w, c)
  /\ wpc' = [wpc EXCEPT ![w] = "waiting"]
  /\ todo' = [todo EXCEPT ![w] = {}]
  /\ UNCHANGED <<engineVars, want, irqTarget, moved, work, kmod, put>>

\* check again, one channel at a time: the first that has not passed sends
\* the waiter to sleep,
Check(w, c) ==
  /\ wpc[w] = "check" /\ Upcoming(w, c)
  /\ \/ /\ get[c] < want[w][c]
        /\ wpc' = [wpc EXCEPT ![w] = "waiting"]
        /\ todo' = [todo EXCEPT ![w] = {}]
        /\ UNCHANGED want
     \/ /\ get[c] >= want[w][c] /\ todo[w] # {c}
        /\ todo' = [todo EXCEPT ![w] = @ \ {c}]
        /\ UNCHANGED <<wpc, want>>
     \/ /\ get[c] >= want[w][c] /\ todo[w] = {c}
        /\ Return(w, "check")
  /\ UNCHANGED <<engineVars, irqTarget, moved, work, kmod, put>>

\* until the seq moves, or not at all if it has moved since it was sampled:
\* futex and wait_event both compare before they sleep.
Wake(w) ==
  /\ moved[w]
  /\ WGoto(w, "waiting", "woken")
  /\ UNCHANGED <<engineVars, want, todo, irqTarget, moved, work>>

\* The 1 ms safety net, or a signal interrupting the char device's sleep.
Timeout(w) ==
  /\ WGoto(w, "waiting", "woken") \/ (kmod /\ WGoto(w, "waiting", "again"))
  /\ UNCHANGED <<engineVars, want, todo, irqTarget, moved, work>>

Woken(w) ==
  /\ IF Passed(w) THEN Return(w, "woken")
                  ELSE WGoto(w, "woken", "again") /\ UNCHANGED <<want, todo>>
  /\ UNCHANGED <<engineVars, irqTarget, moved, work>>

Waiter(w) == \/ Spun(w) \/ SpinOut(w) \/ Sample(w) \/ Wake(w)
             \/ Woken(w)
             \/ \E c \in Channels : Arm(w, c) \/ Check(w, c)

----------------------------------------------------------------------------

\* What may be waited for: fences that have been published, not all 0.
Snapshots == {f \in [Channels -> UNION {0 .. put[c] : c \in Channels}] :
                /\ \A c \in Channels : f[c] <= put[c]
                /\ \E c \in Channels : f[c] > 0}

WaitNext ==
  \/ \E c \in Channels : EngineOf(c) \/ Drain(c)
  \/ StartWork \/ IrqWork
  \/ \E w \in Waiters :
       \/ \E f \in Snapshots : StartWait(w, f)
       \/ Waiter(w) \/ Timeout(w)

WaitSpec == WaitInit /\ [][WaitNext]_waitVars

\* Engines, the work queue and running waiters keep running; stores become
\* visible.  Nothing is assumed about Timeout.
FairWaitSpec ==
  /\ WaitSpec
  /\ \A c \in Channels : WF_waitVars(EngineOf(c)) /\ WF_waitVars(Drain(c))
  /\ WF_waitVars(StartWork) /\ WF_waitVars(IrqWork)
  /\ \A w \in Waiters : WF_waitVars(Waiter(w))

----------------------------------------------------------------------------
(* Properties                                                              *)

\* Asleep with the line's seq where it was.
Dormant(w) == wpc[w] = "waiting" /\ ~moved[w]

\* An interrupt is being delivered, or the engine of c will find one armed
\* when it next looks at irq_target.
Signalling(c) == \/ epc[c] \in {"clear", "raise"}
                 \/ epc[c] \in {"fence", "load"} /\ irqTarget[c] \in 1 .. cursor[c]

\* All that w waits for has retired.
Satisfied(w) == \A c \in Awaited(w) : cursor[c] >= want[w][c]

\* The arm-then-check order of wait_until: when all that a sleeping waiter
\* waits for has retired by being executed, its interrupt is on the way; it
\* does not take another retirement, or another waiter, to produce one.
InterruptNotLost ==
  \A w \in Waiters :
    Dormant(w) /\ Satisfied(w) /\ (\A c \in Awaited(w) : ~sticky[c]) =>
      work # "none" \/ \E c \in Channels : Signalling(c)

\* "A check after arming either sees the fence or is guaranteed a signal"
\* (wait_until), however the command retired.  It does not hold
\* (HostWait_failed): the retirement of a command whose migration failed loads
\* irq_target with no fence after its store of GET, so that both sides can
\* miss the other, and the waiter is left to its timeout.
SignalGuaranteed ==
  \A w \in Waiters :
    Dormant(w) /\ Satisfied(w) =>
      work # "none" \/ \E c \in Channels : Signalling(c)

\* A waiter still short of a fence sleeps only while an interrupt at or
\* below that fence is armed (arm_irq: "keeping the lowest armed value so no
\* waiter's fence can be skipped") or one is being delivered.
FenceStaysArmed ==
  \A w \in Waiters :
    Dormant(w) =>
      \/ work # "none"
      \/ \E c \in Awaited(w) :
           irqTarget[c] \in 1 .. want[w][c] \/ Signalling(c)
      \/ \E c \in Channels : epc[c] = "raise"

\* Every wait ends, without help from the timeout, unless a migration fails.
WaitsEnd ==
  \A w \in Waiters :
    []<>(wpc[w] = "idle" \/ \E c \in Channels : sticky[c])
=============================================================================

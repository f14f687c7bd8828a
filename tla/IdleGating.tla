----------------------------- MODULE IdleGating -----------------------------
(***************************************************************************)
(* Power gating of the engines (device.cpp, Device::run; device.h,         *)
(* Device::doorbell).  An engine with nothing to run arms itself           *)
(* (asleep), looks again, and sleeps on its doorbell futex; it is woken by *)
(* a producer's doorbell, by the UVM thread unparking its channel, or by   *)
(* another engine retiring the fence that its head command waits for.      *)
(*                                                                         *)
(* One channel per engine.  A command is a WAIT_FENCE on a fence of        *)
(* another engine, or (fence value 0) any other command.                   *)
(*                                                                         *)
(* Memory: the store of PUT and the store of GET are release stores, which *)
(* the hardware may keep in a store buffer while later loads of the same   *)
(* thread run.  They become visible at any later time, and at the latest   *)
(* at the thread's next seq_cst fence, seq_cst store or read-modify-write. *)
(* Every other access here is seq_cst or a read-modify-write, or a load.   *)
(***************************************************************************)
EXTENDS Integers, Sequences, FiniteSets

CONSTANTS Engines,
          Producers,      \* submitting threads
          MaxCmds,        \* bound: commands submitted in a behaviour
          MaxFaults       \* bound: page faults in a behaviour

ASSUME GatingAssumption ==
  /\ Engines # {} /\ IsFiniteSet(Engines) /\ Producers # {}
  /\ MaxCmds \in Nat /\ MaxFaults \in Nat

VARIABLES
  cmds,      \* per engine: the commands written to its ring
  put, get,  \* per engine: the registers, as other threads see them
  cursor,    \* per engine: cur[c].get, the engine's own GET
  parked, faultFail,
  sticky,    \* per engine: its channel's sticky_error is set
  asleep, asleepBlocked, numAsleepBlocked,
  rung,      \* per engine: the doorbell Event's seq has moved since the
             \* engine sampled it
  epc, seenPut, pending, toCheck, \* per engine thread: position, the PUT of
             \* its last scan, whether work was pending, the engines that
             \* wake_blocked_sleepers still checks
  ppc, target, buffered, \* per producer: position, engine, a PUT store not
             \* yet visible (0: none)
  faults, hpc, hengine, nfaults  \* the UVM thread

ringVars == <<cmds, put, get, cursor, parked, faultFail, sticky>>
sleepVars == <<asleep, asleepBlocked, numAsleepBlocked>>
localVars == <<seenPut, pending, toCheck>>
engineVars == <<epc, localVars>>
producerVars == <<ppc, target, buffered>>
handlerVars == <<faults, hpc, hengine, nfaults>>
vars == <<ringVars, sleepVars, rung, engineVars, producerVars, handlerVars>>

Submitted == Cardinality({c \in Engines \X (1 .. MaxCmds) :
                            c[2] <= Len(cmds[c[1]])})

Init ==
  /\ cmds = [e \in Engines |-> <<>>]
  /\ put = [e \in Engines |-> 0] /\ get = put /\ cursor = put
  /\ parked = [e \in Engines |-> FALSE] /\ faultFail = parked
  /\ sticky = parked
  /\ asleep = parked /\ asleepBlocked = parked /\ numAsleepBlocked = 0
  /\ rung = parked
  /\ epc = [e \in Engines |-> "scan"]
  /\ seenPut = put /\ pending = parked
  /\ toCheck = [e \in Engines |-> {}]
  /\ ppc = [p \in Producers |-> "idle"]
  /\ target = [p \in Producers |-> CHOOSE e \in Engines : TRUE]
  /\ buffered = [p \in Producers |-> 0]
  /\ faults = {} /\ hpc = "idle" /\ hengine = (CHOOSE e \in Engines : TRUE)
  /\ nfaults = 0

----------------------------------------------------------------------------
(* Doorbells                                                               *)

\* Event::signal: advance seq and wake the futex's waiters.
Signal(e) == rung' = [rung EXCEPT ![e] = TRUE]

\* The tail of Device::doorbell: signal the engine if it is asleep.
RingBell(e) == IF asleep[e] THEN Signal(e) ELSE UNCHANGED rung

Step(p, from, to) == ppc[p] = from /\ ppc' = [ppc EXCEPT ![p] = to]

\* A store in p's buffer becomes visible.
Drain(p) == LET e == target[p] IN
  /\ put' = IF buffered[p] = 0 THEN put ELSE [put EXCEPT ![e] = buffered[p]]
  /\ buffered' = [buffered EXCEPT ![p] = 0]

\* enqueue writes the slot and announces the doorbell, a read-modify-write.
\* A WAIT_FENCE may only name a fence its target has published (do_submit).
BeginDoorbell(p, e, t, v) ==
  /\ Step(p, "idle", "put")
  /\ Submitted < MaxCmds /\ buffered[p] = 0
  /\ v \in {0, put[t]} /\ t # e
  /\ \A q \in Producers : ppc[q] = "put" \/ buffered[q] # 0 => target[q] # e
  /\ cmds' = [cmds EXCEPT ![e] = Append(@, [engine |-> t, value |-> v])]
  /\ target' = [target EXCEPT ![p] = e]
  /\ UNCHANGED <<put, get, cursor, parked, faultFail, sticky, sleepVars, rung,
                 engineVars, buffered, handlerVars>>

\* The release store of PUT.
StorePut(p) ==
  /\ Step(p, "put", "fence")
  /\ buffered' = [buffered EXCEPT ![p] = Len(cmds[target[p]])]
  /\ UNCHANGED <<ringVars, sleepVars, rung, engineVars, target,
                 handlerVars>>

\* Mutant: doorbell() without its fence.
NoProducerFence(p) ==
  /\ Step(p, "fence", "ring")
  /\ UNCHANGED <<ringVars, sleepVars, rung, engineVars, target, buffered,
                 handlerVars>>

\* doorbell: fence ...
ProducerFence(p) ==
  /\ Step(p, "fence", "ring")
  /\ Drain(p)
  /\ UNCHANGED <<cmds, get, cursor, parked, faultFail, sticky, sleepVars, rung,
                 engineVars, target, handlerVars>>

\* ... and ring.
Ring(p) ==
  /\ Step(p, "ring", "idle")
  /\ RingBell(target[p])
  /\ UNCHANGED <<ringVars, sleepVars, engineVars, target, buffered,
                 handlerVars>>

DrainProducer(p) ==
  /\ buffered[p] # 0
  /\ Drain(p)
  /\ UNCHANGED <<cmds, get, cursor, parked, faultFail, sticky, sleepVars, rung,
                 engineVars, ppc, target, handlerVars>>

Producer(p) == StorePut(p) \/ ProducerFence(p) \/ Ring(p)

----------------------------------------------------------------------------
(* The engine thread                                                       *)

Goto(e, from, to) == epc[e] = from /\ epc' = [epc EXCEPT ![e] = to]

\* A step that only moves an engine thread along.
OnlyMoves == UNCHANGED <<ringVars, sleepVars, rung, localVars, producerVars,
                         handlerVars>>

HeadCmd(e) == cmds[e][cursor[e] + 1]
WaitBlocked(e) == get[HeadCmd(e).engine] < HeadCmd(e).value

\* The buffered GET store becomes visible.
Publish(e) == get' = [get EXCEPT ![e] = cursor[e]]

DrainEngine(e) ==
  /\ get[e] # cursor[e]
  /\ Publish(e)
  /\ UNCHANGED <<cmds, put, cursor, parked, faultFail, sticky, sleepVars, rung,
                 engineVars, producerVars, handlerVars>>

\* One round: load PUT; a failed migration retires the head command, with
\* no fence and without waking anybody.
Scan(e) ==
  /\ seenPut' = [seenPut EXCEPT ![e] = put[e]]
  /\ IF faultFail[e] /\ put[e] # cursor[e]
     THEN /\ Goto(e, "scan", "scan")
          /\ Publish(e) \* the exchange drains the buffer
          /\ cursor' = [cursor EXCEPT ![e] = @ + 1]
     ELSE Goto(e, "scan", "head") /\ UNCHANGED <<get, cursor>>
  /\ sticky' = [sticky EXCEPT ![e] = @ \/ faultFail[e]]
  /\ faultFail' = [faultFail EXCEPT ![e] = FALSE]
  /\ pending' = [pending EXCEPT ![e] = FALSE]
  /\ UNCHANGED <<cmds, put, parked, sleepVars, rung, toCheck,
                 producerVars, handlerVars>>

HasWork(e) == seenPut[e] # cursor[e]
Runnable(e) == ~parked[e] /\ HasWork(e) /\ ~WaitBlocked(e)

\* The head command can run.
Visit(e) ==
  /\ Goto(e, "head", "execute")
  /\ Runnable(e)
  /\ OnlyMoves

\* Nothing can run: spin for another round, or past the idle budget go to
\* sleep.
Idle(e) ==
  /\ ~Runnable(e)
  /\ pending' = [pending EXCEPT ![e] = HasWork(e)]
  /\ Goto(e, "head", "scan") \/ Goto(e, "head", "arm")
  /\ UNCHANGED <<ringVars, sleepVars, rung, seenPut, toCheck,
                 producerVars, handlerVars>>

Retire(e) ==
  /\ Goto(e, "execute", "wake")
  /\ cursor' = [cursor EXCEPT ![e] = @ + 1]
  /\ UNCHANGED <<cmds, put, get, parked, faultFail, sticky, sleepVars, rung,
                 localVars, producerVars, handlerVars>>

\* A page fault (never of a WAIT_FENCE): park, a seq_cst store ...
PageFault(e) ==
  /\ Goto(e, "execute", "push")
  /\ nfaults < MaxFaults /\ HeadCmd(e).value = 0
  /\ parked' = [parked EXCEPT ![e] = TRUE]
  /\ Publish(e)
  /\ nfaults' = nfaults + 1
  /\ UNCHANGED <<cmds, put, cursor, faultFail, sticky, sleepVars, rung, localVars,
                 producerVars, faults, hpc, hengine>>

\* ... then publish the fault.
PushFault(e) ==
  /\ Goto(e, "push", "scan")
  /\ faults' = faults \cup {e}
  /\ UNCHANGED <<ringVars, sleepVars, rung, localVars, producerVars, hpc,
                 hengine, nfaults>>

\* Mutant: wake_blocked_sleepers without its fence.
WakeFenceDropped(e) ==
  /\ Goto(e, "wake", IF numAsleepBlocked = 0 THEN "scan" ELSE "signal")
  /\ toCheck' = [toCheck EXCEPT ![e] =
                   IF numAsleepBlocked = 0 THEN {} ELSE Engines \ {e}]
  /\ UNCHANGED <<ringVars, sleepVars, rung, seenPut, pending,
                 producerVars, handlerVars>>

\* wake_blocked_sleepers: fence, and nothing to do if nobody sleeps blocked;
WakeFence(e) ==
  /\ Goto(e, "wake", IF numAsleepBlocked = 0 THEN "scan" ELSE "signal")
  /\ Publish(e)
  /\ toCheck' = [toCheck EXCEPT ![e] =
                   IF numAsleepBlocked = 0 THEN {} ELSE Engines \ {e}]
  /\ UNCHANGED <<cmds, put, cursor, parked, faultFail, sticky, sleepVars, rung,
                 seenPut, pending, producerVars, handlerVars>>

\* else signal each engine that does.
WakeOne(e) ==
  /\ epc[e] = "signal"
  /\ \E t \in toCheck[e] :
       /\ IF asleepBlocked[t] THEN Signal(t) ELSE UNCHANGED rung
       /\ toCheck' = [toCheck EXCEPT ![e] = @ \ {t}]
       /\ epc' = [epc EXCEPT ![e] = IF toCheck[e] = {t} THEN "scan" ELSE @]
  /\ UNCHANGED <<ringVars, sleepVars, seenPut, pending, producerVars,
                 handlerVars>>

\* Arm: sample the bell, ...
SampleBell(e) ==
  /\ Goto(e, "arm", "asleep")
  /\ rung' = [rung EXCEPT ![e] = FALSE]
  /\ UNCHANGED <<ringVars, sleepVars, localVars, producerVars, handlerVars>>

\* ... set asleep (seq_cst, so the buffered GET is visible too), ...
SetAsleep(e) ==
  /\ Goto(e, "asleep", IF pending[e] THEN "blocked" ELSE "recheck")
  /\ asleep' = [asleep EXCEPT ![e] = TRUE]
  /\ Publish(e)
  /\ UNCHANGED <<cmds, put, cursor, parked, faultFail, sticky, asleepBlocked,
                 numAsleepBlocked, rung, localVars, producerVars,
                 handlerVars>>

\* ... and if work is pending, asleep_blocked and its count.
SetBlocked(e) ==
  /\ Goto(e, "blocked", "count")
  /\ asleepBlocked' = [asleepBlocked EXCEPT ![e] = TRUE]
  /\ UNCHANGED <<ringVars, asleep, numAsleepBlocked, rung, localVars,
                 producerVars, handlerVars>>

CountBlocked(e) ==
  /\ Goto(e, "count", "recheck")
  /\ numAsleepBlocked' = numAsleepBlocked + 1
  /\ UNCHANGED <<ringVars, asleep, asleepBlocked, rung, localVars,
                 producerVars, handlerVars>>

\* Mutant: sleep without looking again.
SleepWithoutRecheck(e) ==
  /\ Goto(e, "recheck", "waiting")
  /\ OnlyMoves

\* Look again: a new PUT is work, ...
Recheck(e) ==
  /\ Goto(e, "recheck", IF parked[e] THEN "waiting"
                        ELSE IF put[e] # seenPut[e] THEN "disarm"
                        ELSE IF put[e] # cursor[e] THEN "recheckHead"
                        ELSE "waiting")
  /\ OnlyMoves

\* ... and so is a head command that is no WAIT, or whose fence has passed.
RecheckHead(e) ==
  /\ Goto(e, "recheckHead", IF WaitBlocked(e) THEN "waiting" ELSE "disarm")
  /\ OnlyMoves

\* Event::wait (futex) ends once seq has moved, and does not sleep if it has.
Wake(e) ==
  /\ rung[e]
  /\ Goto(e, "waiting", "disarm")
  /\ OnlyMoves

\* The 1 ms safety net.  (It also counts missed doorbells, a statistic.)
Timeout(e) ==
  /\ Goto(e, "waiting", "disarm")
  /\ OnlyMoves

Disarm(e) ==
  /\ Goto(e, "disarm", IF pending[e] THEN "unblock" ELSE "scan")
  /\ asleep' = [asleep EXCEPT ![e] = FALSE]
  /\ UNCHANGED <<ringVars, asleepBlocked, numAsleepBlocked, rung, localVars,
                 producerVars, handlerVars>>

Unblock(e) ==
  /\ Goto(e, "unblock", "uncount")
  /\ asleepBlocked' = [asleepBlocked EXCEPT ![e] = FALSE]
  /\ UNCHANGED <<ringVars, asleep, numAsleepBlocked, rung, localVars,
                 producerVars, handlerVars>>

Uncount(e) ==
  /\ Goto(e, "uncount", "scan")
  /\ numAsleepBlocked' = numAsleepBlocked - 1
  /\ UNCHANGED <<ringVars, asleep, asleepBlocked, rung, localVars,
                 producerVars, handlerVars>>

Engine(e) ==
  \/ Scan(e) \/ Visit(e) \/ Idle(e) \/ Retire(e) \/ PageFault(e)
  \/ PushFault(e) \/ WakeFence(e) \/ WakeOne(e) \/ SampleBell(e)
  \/ SetAsleep(e) \/ SetBlocked(e) \/ CountBlocked(e) \/ Recheck(e)
  \/ RecheckHead(e) \/ Wake(e) \/ Disarm(e) \/ Unblock(e) \/ Uncount(e)

----------------------------------------------------------------------------
(* The UVM thread                                                          *)

PopFault(e) ==
  /\ hpc = "idle" /\ e \in faults
  /\ faults' = faults \ {e} /\ hengine' = e
  /\ hpc' \in {"unpark", "fail"}
  /\ UNCHANGED <<ringVars, sleepVars, rung, engineVars, producerVars,
                 nfaults>>

PostFail ==
  /\ hpc = "fail" /\ hpc' = "unpark"
  /\ faultFail' = [faultFail EXCEPT ![hengine] = TRUE]
  /\ UNCHANGED <<cmds, put, get, cursor, parked, sticky, sleepVars, rung, engineVars,
                 producerVars, faults, hengine, nfaults>>

\* Device::unpark: a seq_cst store, then a doorbell.
Unpark ==
  /\ hpc = "unpark" /\ hpc' = "ring"
  /\ parked' = [parked EXCEPT ![hengine] = FALSE]
  /\ UNCHANGED <<cmds, put, get, cursor, faultFail, sticky, sleepVars, rung,
                 engineVars, producerVars, faults, hengine, nfaults>>

RingUnparked ==
  /\ hpc = "ring" /\ hpc' = "idle"
  /\ RingBell(hengine)
  /\ UNCHANGED <<ringVars, sleepVars, engineVars, producerVars, faults,
                 hengine, nfaults>>

Handler == \/ \E e \in Engines : PopFault(e)
           \/ PostFail \/ Unpark \/ RingUnparked

----------------------------------------------------------------------------

Submit == \E p \in Producers, e, t \in Engines, v \in 0 .. MaxCmds :
            BeginDoorbell(p, e, t, v)

Next ==
  \/ Submit
  \/ \E p \in Producers : Producer(p) \/ DrainProducer(p)
  \/ \E e \in Engines : Engine(e) \/ DrainEngine(e) \/ Timeout(e)
  \/ Handler

Spec == Init /\ [][Next]_vars

\* Every thread keeps running, and stores become visible eventually.
\* Nothing is assumed about Timeout: what the properties promise, they
\* promise without the safety net.
FairSpec ==
  /\ Spec
  /\ \A p \in Producers : WF_vars(Producer(p)) /\ WF_vars(DrainProducer(p))
  /\ \A e \in Engines : WF_vars(Engine(e)) /\ WF_vars(DrainEngine(e))
  /\ WF_vars(Handler)

----------------------------------------------------------------------------
(* Properties                                                              *)

\* Asleep with the bell where it was: only a signal will wake the engine.
Dormant(e) == epc[e] = "waiting" /\ ~rung[e]

\* The Dekker argument of doorbell(): if a PUT the sleeping engine has not
\* seen is visible, the producer that stored it has yet to look at `asleep`.
DoorbellNotLost ==
  \A e \in Engines :
    Dormant(e) /\ put[e] # seenPut[e] /\ ~parked[e] =>
      \/ \E p \in Producers : target[p] = e /\ ppc[p] \in {"fence", "ring"}
      \/ hpc = "ring" /\ hengine = e

\* The same for an unpark: a sleeping engine whose channel has work and is
\* not parked has a doorbell coming, or a WAIT whose fence has not passed.
UnparkNotLost ==
  \A e \in Engines :
    Dormant(e) /\ ~parked[e] /\ HasWork(e) /\ HeadCmd(e).value = 0 =>
      hpc = "ring" /\ hengine = e

\* The fence that the head of e waits for has retired, and somebody is about
\* to wake e: its engine has yet to go through wake_blocked_sleepers, or the
\* sleeper's own unpark is about to ring.  (A failed migration retires the
\* head while the channel is still parked, so the next head, a WAIT, can be
\* slept on without a look at its fence.)
WakeComing(e) ==
  LET h == HeadCmd(e) IN
    \/ h.value = 0
    \/ hpc = "ring" /\ hengine = e
    \/ epc[h.engine] = "wake"
    \/ epc[h.engine] = "signal" /\ e \in toCheck[h.engine]

FencePassed(e) == cursor[HeadCmd(e).engine] >= HeadCmd(e).value

\* The same for fences: an engine asleep on a WAIT whose fence retired by
\* being executed is about to be woken.
FenceWakeNotLost ==
  \A e \in Engines :
    Dormant(e) /\ ~parked[e] /\ HasWork(e)
      /\ FencePassed(e) /\ ~sticky[HeadCmd(e).engine] => WakeComing(e)

\* "Sleeping engines are woken by a doorbell write or by another engine
\* retiring a command" (sg_ioctl.h), whichever way it retires.  It does
\* not hold (IdleGating_failed): the retirement of a command whose migration
\* failed does not go through wake_blocked_sleepers, and the sleeper is left to
\* its timeout.
FenceAlwaysWakes ==
  \A e \in Engines :
    Dormant(e) /\ ~parked[e] /\ HasWork(e) /\ FencePassed(e) => WakeComing(e)

\* No engine sleeps through work, cross-engine waits included, although
\* nothing is assumed of the timeout: once nothing more is submitted, every
\* command retires, unless a migration failed.  (A behaviour has at most
\* MaxCmds commands.)
CommandsRetire ==
  <>[](\/ \E e \in Engines : sticky[e]
       \/ \A e \in Engines : get[e] = Len(cmds[e]))
=============================================================================

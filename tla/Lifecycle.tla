------------------------------ MODULE Lifecycle ------------------------------
(***************************************************************************)
(* Opening and closing the driver: sg_drv_open, sg_drv_ioctl and           *)
(* sg_drv_close with their reference count, Driver() and ~Driver(),        *)
(* power_on and power_off, the start and the end of the engine, of the UVM *)
(* thread and of the userfaultfd thread, and the char device's open, map,  *)
(* interrupt and release.  On top, sgInit and sgShutdown of the runtime,   *)
(* which is one of the clients.                                            *)
(*                                                                         *)
(* There is one engine with one ring; its commands retire or fault, and it *)
(* comes back from its sleep by a doorbell or after 1 ms (IdleGating is    *)
(* about doorbells).  The UVM thread's interrupt is a flag: signalled      *)
(* since the thread sampled its sequence number.  A client makes its calls *)
(* between its open and its close.  Whether the char device and            *)
(* userfaultfd are to be had is chosen anew at every open.                 *)
(***************************************************************************)
EXTENDS Integers, FiniteSets

CONSTANTS Clients, Runtime,   \* the runtime is one of the clients
          NumEngines, NumChannels, Depth,  \* what the driver asks a map for
          MaxOpens,           \* bound: opens in a behaviour
          MaxCmds             \* bound: commands per life of the driver

NoOne == "no one"

ASSUME LifecycleAssumption ==
  /\ Runtime \in Clients /\ IsFiniteSet(Clients) /\ NoOne \notin Clients
  /\ MaxOpens \in Nat /\ MaxCmds \in Nat
  /\ NumEngines \in Nat /\ NumChannels \in Nat /\ Depth \in Nat

VARIABLES
  api,   \* lock: g_open_lock; refs: g_refs; drv: g_drv; opens so far
  at,    \* per client: where it is
  kern,  \* file: the char device's file and its memory; fd: kmod_fd is open;
         \* mapped: bytes at kmod_mem, 0 if none; work: its work item
  dev,   \* running: running_; at: the engine's thread; put, get, parked and
         \* fail (fault_fail) of its channel; faulted: its head command has
         \* faulted on a page that has since come in; failed: a migration's
         \* failure has become the channel's sticky_error
  uvm,   \* stop: fault_stop; at: the UVM thread; irq: fault_irq_; queue:
         \* the channel's fault is in faults_
  host,  \* at: the userfaultfd thread; kick, hold: uffd_kick, uffd_hold;
         \* fault: a host thread is blocked in a fault
  rt     \* fd: g_fd is set; tail: the default stream's tail fence, or 0

vars == <<api, at, kern, dev, uvm, host, rt>>

NewDevice == [running |-> FALSE, at |-> "off", put |-> 0,
              get |-> 0, parked |-> FALSE, faulted |-> FALSE,
              fail |-> FALSE, failed |-> FALSE]
NewUvm == [stop |-> FALSE, at |-> "off", irq |-> FALSE, queue |-> FALSE]
NewHost == [at |-> "off", kick |-> FALSE, hold |-> FALSE, fault |-> FALSE]

Init ==
  /\ api = [lock |-> NoOne, refs |-> 0, drv |-> "none", opens |-> 0]
  /\ at = [c \in Clients |-> "out"]
  /\ kern = [file |-> FALSE, fd |-> FALSE, mapped |-> 0, work |-> "idle"]
  /\ dev = NewDevice /\ uvm = NewUvm /\ host = NewHost
  /\ rt = [fd |-> FALSE, tail |-> 0]

Goto(c, from, to) == at[c] = from /\ at' = [at EXCEPT ![c] = to]

----------------------------------------------------------------------------
(* The char device's memory: a control page and a run of pages per ring.   *)

Page == 4096
MaxEngines == 4
MaxChannels == 8
CmdBytes == 64

RingBytes(depth) == ((depth * CmdBytes + Page - 1) \div Page) * Page
MapBytes(engines, channels, depth) ==
  Page + engines * channels * RingBytes(depth)

\* Mutant: rows of engines, not of channels.
RingOffByEngine(e, c, channels, depth) ==
  Page + (c * channels + e) * RingBytes(depth)

RingOff(e, c, channels, depth) == Page + (e * channels + c) * RingBytes(depth)

\* What sg_do_map accepts.
MapOK == /\ NumEngines \in 1 .. MaxEngines /\ NumChannels \in 1 .. MaxChannels
         /\ Depth \in {2 ^ k : k \in 1 .. 16}

----------------------------------------------------------------------------
(* sg_drv_open, under g_open_lock                                          *)

Open(c) ==
  /\ api.opens < MaxOpens /\ api.lock = NoOne
  /\ IF api.drv = "none"
     THEN /\ Goto(c, "out", "attach")
          /\ api' = [api EXCEPT !.opens = @ + 1, !.lock = c, !.drv = "there"]
     ELSE /\ Goto(c, "out", "opened")
          /\ api' = [api EXCEPT !.opens = @ + 1, !.refs = @ + 1]
  /\ UNCHANGED <<kern, dev, uvm, host, rt>>

\* attach_kmod: open, SG_IOC_KMOD_MAP and mmap work out, ...
AttachKmod(c) ==
  /\ MapOK /\ Goto(c, "attach", "threads")
  /\ kern' = [kern EXCEPT !.file = TRUE, !.fd = TRUE,
                !.mapped = MapBytes(NumEngines, NumChannels, Depth)]
  /\ UNCHANGED <<api, dev, uvm, host, rt>>

\* ... or one of them fails, or SG_KMOD=0: rings in the process, ...
RingsInProcess(c) ==
  /\ Goto(c, "attach", "threads")
  /\ UNCHANGED <<api, kern, dev, uvm, host, rt>>

\* ... unless SG_KMOD=require: an open_error, and the half-built driver goes.
OpenError(c) ==
  /\ Goto(c, "attach", "out")
  /\ api' = [api EXCEPT !.lock = NoOne, !.drv = "none"]
  /\ UNCHANGED <<kern, dev, uvm, host, rt>>

\* The rest of Driver(): a new device, a userfaultfd and its thread if the
\* system has it, and the UVM thread.
StartThreads(c) ==
  /\ Goto(c, "threads", "power")
  /\ dev' = NewDevice
  /\ uvm' = [NewUvm EXCEPT !.at = "check"]
  /\ host' \in {NewHost, [NewHost EXCEPT !.at = "check"]}
  /\ UNCHANGED <<api, kern, rt>>

PowerOn(c) ==
  /\ Goto(c, "power", "opened")
  /\ dev' = [dev EXCEPT !.running = TRUE, !.at = "check"]
  /\ api' = [api EXCEPT !.refs = @ + 1, !.lock = NoOne]
  /\ UNCHANGED <<kern, uvm, host, rt>>

\* sgInit resets the default stream.
StreamReset == rt' = [fd |-> TRUE, tail |-> 0]

Opened(c) ==
  /\ Goto(c, "opened", "in")
  /\ IF c = Runtime THEN StreamReset ELSE UNCHANGED rt
  /\ UNCHANGED <<api, kern, dev, uvm, host>>

----------------------------------------------------------------------------
(* sg_drv_ioctl: the pointer is taken under the lock, the rest runs        *)
(* without it.                                                             *)

Enter(c) ==
  /\ api.lock = NoOne /\ api.drv # "none"
  /\ \/ Goto(c, "in", "call")
     \/ c = Runtime /\ rt.tail # 0 /\ Goto(c, "in", "wait")
  /\ UNCHANGED <<api, kern, dev, uvm, host, rt>>

\* SUBMIT: publish and ring.  The runtime keeps the fence.
Submit(c) ==
  /\ Goto(c, "call", "in") /\ ~dev.failed /\ dev.put < MaxCmds
  /\ dev' = [dev EXCEPT !.put = @ + 1]
  /\ rt' = [rt EXCEPT !.tail = IF c = Runtime THEN dev'.put ELSE @]
  /\ UNCHANGED <<api, kern, uvm, host>>

\* A SUBMIT that is refused, or a call that only reads.
Answer(c) ==
  /\ Goto(c, "call", "in")
  /\ UNCHANGED <<api, kern, dev, uvm, host, rt>>

\* UFFD_HOLD
SetHold(c) ==
  /\ Goto(c, "call", "in") /\ host.at # "off"
  /\ host' = [host EXCEPT !.hold = ~@]
  /\ UNCHANGED <<api, kern, dev, uvm, rt>>

\* WAIT on the default stream's tail (sgStreamSynchronize).
WaitTail(c) ==
  /\ Goto(c, "wait", "in") /\ dev.get >= rt.tail
  /\ UNCHANGED <<api, kern, dev, uvm, host, rt>>

\* A host thread touches a managed page that is in VRAM.
HostTouch ==
  /\ host.at # "off" /\ ~host.fault /\ \E c \in Clients : at[c] = "in"
  /\ host' = [host EXCEPT !.fault = TRUE]
  /\ UNCHANGED <<api, at, kern, dev, uvm, rt>>

----------------------------------------------------------------------------
(* sg_drv_close, under g_open_lock                                         *)

\* Mutant: every close takes the driver down.
AnyRef == TRUE

LastRef == api.refs = 1

Close(c) ==
  /\ api.lock = NoOne
  /\ Goto(c, "in", IF LastRef THEN "drain" ELSE "closed")
  /\ api' = [api EXCEPT !.refs = @ - 1, !.lock = IF LastRef THEN c ELSE NoOne]
  /\ UNCHANGED <<kern, dev, uvm, host, rt>>

\* Mutant: power off without draining.
DrainNothing == TRUE

Drained == dev.get = dev.put

\* drain and reclaim; power_off clears running_, rings, ...
PowerOff(c) ==
  /\ Drained /\ Goto(c, "drain", "join engine")
  /\ dev' = [dev EXCEPT !.running = FALSE]
  /\ UNCHANGED <<api, kern, uvm, host, rt>>

\* ... and joins it.  ~Driver(): fault_stop, ...
JoinEngine(c) ==
  /\ dev.at = "off" /\ Goto(c, "join engine", "signal")
  /\ uvm' = [uvm EXCEPT !.stop = TRUE]
  /\ UNCHANGED <<api, kern, dev, host, rt>>

\* ... wake both threads, ...
SignalThreads(c) ==
  /\ Goto(c, "signal", "join threads")
  /\ uvm' = [uvm EXCEPT !.irq = TRUE]
  /\ host' = [host EXCEPT !.kick = TRUE]
  /\ UNCHANGED <<api, kern, dev, rt>>

Joined == uvm.at = "off" /\ host.at = "off"

\* ... join them, close the userfaultfd, which lets go of its faults, unmap
\* the rings, ...
Unmap(c) ==
  /\ Joined /\ Goto(c, "join threads", "close file")
  /\ host' = NewHost
  /\ kern' = [kern EXCEPT !.mapped = 0]
  /\ UNCHANGED <<api, dev, uvm, rt>>

\* sg_release: cancel_work_sync takes back a queued item and waits for a
\* running one; then the memory is freed.
Release == /\ kern.work \notin {"running", "again"}
           /\ kern' = [kern EXCEPT !.file = FALSE, !.fd = FALSE, !.work = "idle"]

\* ... and close the file.  The driver is gone.
CloseFile(c) ==
  /\ Goto(c, "close file", "closed")
  /\ IF kern.fd THEN Release ELSE UNCHANGED kern
  /\ api' = [api EXCEPT !.lock = NoOne, !.drv = "none"]
  /\ UNCHANGED <<dev, uvm, host, rt>>

\* sgShutdown forgets its descriptor.
Closed(c) ==
  /\ Goto(c, "closed", "out")
  /\ rt' = [rt EXCEPT !.fd = IF c = Runtime THEN FALSE ELSE @]
  /\ UNCHANGED <<api, kern, dev, uvm, host>>

----------------------------------------------------------------------------
(* The engine                                                              *)

EngineGoes(from, to) == dev.at = from /\ dev' = [dev EXCEPT !.at = to]
HasWork == dev.get < dev.put /\ ~dev.parked

EngineStops == /\ ~dev.running /\ EngineGoes("check", "off")
               /\ UNCHANGED <<api, at, kern, uvm, host, rt>>

\* An interrupt goes through the char device if there is one:
\* kmod_raise_irq, schedule_work.  An item that is running is queued again.
RaiseIrq ==
  kern' = IF kern.fd /\ kern.work \in {"idle", "running"}
          THEN [kern EXCEPT !.work = IF @ = "idle" THEN "queued" ELSE "again"]
          ELSE kern

\* The scan takes fault_fail first and looks at parked in a later step.
EngineLook ==
  /\ dev.running /\ ~dev.fail /\ EngineGoes("check", "scan")
  /\ UNCHANGED <<api, at, kern, uvm, host, rt>>

\* A failure posted: the head command, if there is one, retires unrun,
\* though the channel may still be parked.
FailHead ==
  /\ dev.at = "check" /\ dev.running /\ dev.fail
  /\ IF dev.get < dev.put
     THEN /\ dev' = [dev EXCEPT !.fail = FALSE, !.failed = TRUE,
                                !.get = @ + 1, !.faulted = FALSE]
          /\ RaiseIrq
     ELSE /\ dev' = [dev EXCEPT !.fail = FALSE, !.failed = TRUE]
          /\ UNCHANGED kern
  /\ UNCHANGED <<api, at, uvm, host, rt>>

\* A command retires, with its interrupt.
Retire ==
  /\ dev.at = "scan" /\ HasWork
  /\ dev' = [dev EXCEPT !.at = "check", !.get = @ + 1, !.faulted = FALSE]
  /\ RaiseIrq
  /\ UNCHANGED <<api, at, uvm, host, rt>>

\* Or it faults, once unless its page did not come: park, queue the fault,
\* signal.
Fault ==
  /\ dev.at = "scan" /\ HasWork /\ ~dev.faulted
  /\ dev' = [dev EXCEPT !.at = "push", !.parked = TRUE, !.faulted = TRUE]
  /\ UNCHANGED <<api, at, kern, uvm, host, rt>>

PushFault ==
  /\ EngineGoes("push", "check")
  /\ uvm' = [uvm EXCEPT !.queue = TRUE, !.irq = TRUE]
  /\ UNCHANGED <<api, at, kern, host, rt>>

\* Nothing to do: it polls or, with gating, sleeps, for 1 ms at most.
EngineIdle == /\ ~HasWork /\ EngineGoes("scan", "check")
              /\ UNCHANGED <<api, at, kern, uvm, host, rt>>

Engine == \/ EngineStops \/ EngineLook \/ FailHead \/ Retire \/ Fault
          \/ PushFault \/ EngineIdle

----------------------------------------------------------------------------
(* The UVM thread (service_faults), the userfaultfd thread                 *)
(* (service_host_faults) and the kernel's worker                           *)

UvmGoes(from, to) == uvm.at = from /\ uvm' = [uvm EXCEPT !.at = to]

UvmCheck == /\ UvmGoes("check", IF uvm.stop THEN "off" ELSE "sample")
            /\ UNCHANGED <<api, at, kern, dev, host, rt>>

\* The interrupt's sequence number, then the queue.
UvmSample ==
  /\ uvm.at = "sample"
  /\ uvm' = [uvm EXCEPT !.at = "pop", !.irq = FALSE]
  /\ UNCHANGED <<api, at, kern, dev, host, rt>>

\* Mutant: sleep at once.
EmptyQueueSleeps == "sleep"

\* An empty queue: look at fault_stop again before sleeping.
EmptyQueue == "recheck"

UvmPop ==
  /\ uvm.at = "pop"
  /\ uvm' = [uvm EXCEPT !.at = IF uvm.queue THEN "serve" ELSE EmptyQueue,
                        !.queue = FALSE]
  /\ UNCHANGED <<api, at, kern, dev, host, rt>>

UvmRecheck == /\ UvmGoes("recheck", IF uvm.stop THEN "off" ELSE "sleep")
              /\ UNCHANGED <<api, at, kern, dev, host, rt>>

UvmWake == /\ uvm.irq /\ UvmGoes("sleep", "check")
           /\ UNCHANGED <<api, at, kern, dev, host, rt>>

\* The wait gives up after 1 s.
UvmTimeout == /\ UvmGoes("sleep", "check")
              /\ UNCHANGED <<api, at, kern, dev, host, rt>>

\* Migrate (ManagedMemory); if that fails, post the failure.  The page is
\* not there, and the command may fault on it again.
UvmServe ==
  /\ UvmGoes("serve", "unpark")
  /\ \/ UNCHANGED dev
     \/ dev' = [dev EXCEPT !.fail = TRUE, !.faulted = FALSE]
  /\ UNCHANGED <<api, at, kern, host, rt>>

\* Unpark and ring, in a step of its own.
UvmUnpark ==
  /\ UvmGoes("unpark", "check")
  /\ dev' = [dev EXCEPT !.parked = FALSE]
  /\ UNCHANGED <<api, at, kern, host, rt>>

Uvm == \/ UvmCheck \/ UvmSample \/ UvmPop \/ UvmRecheck \/ UvmWake
       \/ UvmServe \/ UvmUnpark

HostGoes(from, to) == host.at = from /\ host' = [host EXCEPT !.at = to]

HostCheck == /\ HostGoes("check", IF uvm.stop THEN "off" ELSE "poll")
             /\ UNCHANGED <<api, at, kern, dev, uvm, rt>>

\* poll without a timeout, on the userfaultfd and on the eventfd.
HostPoll ==
  /\ host.kick \/ host.fault
  /\ HostGoes("poll", CASE host.kick \/ uvm.stop -> "off"
                         [] host.hold -> "hold"
                         [] OTHER -> "serve")
  /\ UNCHANGED <<api, at, kern, dev, uvm, rt>>

\* The spin on the test latch ends with the latch or with the driver.
HoldEnds == ~host.hold \/ uvm.stop

HostHeld == /\ HoldEnds /\ HostGoes("hold", IF uvm.stop THEN "off" ELSE "serve")
            /\ UNCHANGED <<api, at, kern, dev, uvm, rt>>

\* Bring the page back, or find it back, and wake the thread that faulted.
HostServe ==
  /\ host.at = "serve"
  /\ host' = [host EXCEPT !.at = "check", !.fault = FALSE]
  /\ UNCHANGED <<api, at, kern, dev, uvm, rt>>

HostThread == HostCheck \/ HostPoll \/ HostHeld \/ HostServe

\* sg_irq_work: count and wake, in the file's memory.
Worker ==
  /\ \E step \in {<<"queued", "running">>, <<"running", "idle">>,
                  <<"again", "queued">>} :
       kern.work = step[1] /\ kern' = [kern EXCEPT !.work = step[2]]
  /\ UNCHANGED <<api, at, dev, uvm, host, rt>>

----------------------------------------------------------------------------

\* What a client goes on to do once it is inside a call.
Finish(c) ==
  \/ AttachKmod(c) \/ RingsInProcess(c) \/ OpenError(c) \/ StartThreads(c) \/ PowerOn(c) \/ Opened(c)
  \/ Submit(c) \/ Answer(c) \/ SetHold(c) \/ WaitTail(c)
  \/ PowerOff(c) \/ JoinEngine(c) \/ SignalThreads(c)
  \/ Unmap(c) \/ CloseFile(c) \/ Closed(c)

Next ==
  \/ \E c \in Clients : Open(c) \/ Enter(c) \/ Close(c) \/ Finish(c)
  \/ HostTouch \/ Engine \/ Uvm \/ UvmTimeout \/ HostThread \/ Worker

Spec == Init /\ [][Next]_vars

\* Every thread goes on while it can.  The engine's sleep ends after 1 ms
\* anyway; the UVM thread's timeout is not relied on.
FairSpec ==
  /\ Spec
  /\ \A c \in Clients : WF_vars(Finish(c))
  /\ WF_vars(Engine) /\ WF_vars(Uvm) /\ WF_vars(HostThread) /\ WF_vars(Worker)

----------------------------------------------------------------------------
(* Properties                                                              *)

\* Nobody uses the driver after it is gone: not a client in the middle of an
\* ioctl, whose pointer was read under a lock it has since let go of, nor a
\* thread of the driver; the engine has its rings and its descriptor until
\* it has ended, and the kernel's work item has the file.
NoUseAfterTeardown ==
  /\ \A c \in Clients : at[c] \in {"call", "wait"} => api.drv = "there"
  /\ (dev.at # "off" \/ uvm.at # "off" \/ host.at # "off") => api.drv = "there"
  /\ dev.at # "off" /\ kern.file => kern.fd /\ kern.mapped > 0
  /\ kern.work # "idle" => kern.file

\* The engine never stops with commands in its ring: what was submitted
\* before a close has run, or has failed.  Unless a migration failed, nor
\* does it stop with the channel parked or a fault on its way.  (A failure
\* retires the head of a channel that is parked, and one that the scan has
\* just missed does so with the next fault in the queue: the UVM thread then
\* serves it on a device that is off.)
DrainedBeforeOff ==
  dev.at = "off" =>
    /\ dev.get = dev.put
    /\ ~dev.failed => ~dev.parked /\ ~uvm.queue

\* The rings of the mapping lie inside it, behind the control page, on page
\* boundaries and apart, so that no channel's command is another's.
RingsApart ==
  kern.mapped > 0 =>
    LET Off(e, c) == RingOff(e, c, NumChannels, Depth)
        Places == (0 .. NumEngines - 1) \X (0 .. NumChannels - 1) IN
    \A p \in Places :
      /\ Off(p[1], p[2]) >= Page /\ Off(p[1], p[2]) % Page = 0
      /\ Off(p[1], p[2]) + Depth * CmdBytes <= kern.mapped
      /\ \A q \in Places \ {p} :
           \/ Off(p[1], p[2]) + Depth * CmdBytes <= Off(q[1], q[2])
           \/ Off(q[1], q[2]) + Depth * CmdBytes <= Off(p[1], p[2])

\* Every call returns: an open, a wait for the tail, and the close that
\* drains the device and joins its threads, whatever they were doing.
CallsReturn ==
  \A c \in Clients :
    (at[c] \notin {"out", "in"}) ~> (at[c] \in {"out", "in"})
=============================================================================

---------------------------- MODULE DriverProofs ----------------------------
(***************************************************************************)
(* Proofs about the driver's threads.  Lifecycle: teardown, draining and   *)
(* the layout of the rings, for any number of clients, opens and commands, *)
(* and for every number of engines, channels and ring slots that the char  *)
(* device accepts.  HostWait: no interrupt is lost between a waiter that   *)
(* arms, checks and sleeps and an engine that retires and looks, for any   *)
(* number of waiters, channels and commands and over both interrupt back   *)
(* ends.                                                                   *)
(***************************************************************************)
EXTENDS Lifecycle, HostWait, FiniteSetTheorems, TLAPS

----------------------------------------------------------------------------
(* Lifecycle: the inductive invariant                                      *)

\* Where a client holds a reference, and where it holds g_open_lock.
Using == {"opened", "in", "call", "wait"}
Opening == {"attach", "threads", "power"}
Closing == {"drain", "join engine", "signal", "join threads", "close file"}

KernType == [file : BOOLEAN, fd : BOOLEAN, mapped : Nat,
             work : {"idle", "queued", "running", "again"}]
DevType == [running : BOOLEAN, at : {"off", "check", "scan", "push"}, put : Nat,
            get : Nat, parked : BOOLEAN, faulted : BOOLEAN, fail : BOOLEAN,
            failed : BOOLEAN]
UvmType == [stop : BOOLEAN, irq : BOOLEAN, queue : BOOLEAN,
            at : {"off", "check", "sample", "pop", "recheck", "sleep", "serve",
                  "unpark"}]
HostType == [at : {"off", "check", "poll", "hold", "serve"}, kick : BOOLEAN,
             hold : BOOLEAN, fault : BOOLEAN]

TypeOK ==
  /\ api \in [lock : Clients \cup {NoOne}, refs : Nat, drv : {"none", "there"},
              opens : Nat]
  /\ at \in [Clients -> {"out", "closed"} \cup Using \cup Opening \cup Closing]
  /\ kern \in KernType /\ dev \in DevType /\ uvm \in UvmType /\ host \in HostType
  /\ rt \in [fd : BOOLEAN, tail : Nat]

\* The driver is there while it is used, opened or closed, and g_refs counts
\* its users.
Users == {c \in Clients : at[c] \in Using}

ApiOK ==
  /\ \A c \in Clients : at[c] \in Opening \cup Closing <=> api.lock = c
  /\ api.refs = Cardinality(Users)
  /\ api.lock # NoOne => api.refs = 0
  /\ api.drv = "there" <=> api.refs # 0 \/ api.lock # NoOne

\* What the thread that opens or closes the driver has come to.
Up == api.drv = "there" /\ api.lock = NoOne
Stage(S) == \E c \in Clients : at[c] \in S

\* Which threads may run at which stage.
StageOK ==
  /\ dev.at # "off" => Up \/ Stage({"drain", "join engine"})
  /\ dev.running <=> Up \/ Stage({"drain"})
  /\ dev.running => dev.at # "off"
  /\ uvm.at # "off" \/ host.at # "off" =>
       Up \/ Stage({"power", "drain", "join engine", "signal", "join threads"})
  /\ Stage({"join engine"}) => dev.get = dev.put

\* Until a failed migration has retired a command, a fault is in one place:
\* at the engine that parked the channel, in the queue, or with the UVM
\* thread; and its command is still in the ring.
Served == uvm.at \in {"serve", "unpark"}

FaultOK ==
  /\ dev.get <= dev.put
  /\ ~dev.failed =>
       /\ dev.parked => dev.get < dev.put
       /\ dev.parked <=> dev.at = "push" \/ uvm.queue \/ Served
       /\ dev.at = "push" => ~uvm.queue /\ ~Served
       /\ uvm.queue => ~Served

KernOK ==
  /\ kern.file <=> kern.fd
  /\ kern.work # "idle" => kern.fd
  /\ kern.fd => kern.mapped > 0 \/ Stage({"close file"})
  /\ kern.mapped > 0 => MapOK /\ kern.mapped = MapBytes(NumEngines, NumChannels, Depth)

LifecycleInv ==
  /\ TypeOK /\ ApiOK /\ StageOK /\ FaultOK /\ KernOK /\ DrainedBeforeOff

----------------------------------------------------------------------------
(* The engine, the UVM thread, the userfaultfd thread and the worker       *)

\* The engine's steps: it stops only when it has nothing left to do.
LEMMA EngineInv == ASSUME LifecycleInv, Engine PROVE LifecycleInv'
<1>1. UNCHANGED <<api, at, host, rt>>
  BY DEF Engine, EngineStops, EngineLook, FailHead, Retire, Fault, PushFault, EngineIdle,
         EngineGoes
<1>2. ApiOK' /\ (Up' <=> Up) /\ \A S : Stage(S)' <=> Stage(S)
  BY <1>1 DEF LifecycleInv, ApiOK, Users, Up, Stage
<1>0. TypeOK /\ kern \in KernType /\ dev \in DevType /\ uvm \in UvmType
  BY DEF LifecycleInv, TypeOK
<1>n. PICK n \in Nat : n = dev.get + 1
  BY <1>0 DEF DevType
<1> USE <1>0, <1>1, <1>2
\* Where a command retires, its interrupt touches the work item only.
<1>3. ASSUME RaiseIrq \/ UNCHANGED kern
      PROVE  kern' \in KernType /\ KernOK'
  <2>1. \E w \in {"idle", "queued", "running", "again"} :
          /\ kern' = [kern EXCEPT !.work = w]
          /\ w # "idle" => kern.fd \/ kern.work # "idle"
    <3>1. CASE UNCHANGED kern
      BY <3>1 DEF KernType
    <3>2. CASE RaiseIrq
      BY <3>2 DEF RaiseIrq, KernType
    <3> QED BY <1>3, <3>1, <3>2
  <2>2. /\ kern' \in KernType
        /\ kern'.file = kern.file /\ kern'.fd = kern.fd /\ kern'.mapped = kern.mapped
        /\ kern'.work # "idle" => kern.fd \/ kern.work # "idle"
    BY <2>1 DEF KernType
  <2> QED BY <2>2 DEF LifecycleInv, KernOK
<1>4. CASE EngineStops
  <2>1. /\ dev.at = "check" /\ dev'.at = "off" /\ ~dev.running /\ dev' \in DevType
        /\ dev'.running = dev.running /\ dev'.put = dev.put /\ dev'.get = dev.get
        /\ dev'.parked = dev.parked /\ dev'.failed = dev.failed /\ UNCHANGED <<kern, uvm>>
    BY <1>4 DEF EngineStops, EngineGoes, DevType
  <2>2. StageOK' /\ KernOK' /\ FaultOK' /\ TypeOK'
    BY <2>1 DEF LifecycleInv, StageOK, KernOK, FaultOK, Served, TypeOK
  <2>3. dev.get = dev.put
    BY <2>1 DEF LifecycleInv, StageOK, Stage
  <2>4. DrainedBeforeOff'
    BY <2>1, <2>3 DEF LifecycleInv, FaultOK, Served, DrainedBeforeOff, DevType
  <2> QED BY <2>2, <2>4 DEF LifecycleInv
<1>5. CASE FailHead
  <2>1. /\ dev.at = "check" /\ dev.running /\ dev'.at = "check" /\ dev' \in DevType
        /\ dev'.running = dev.running /\ dev'.put = dev.put
        /\ dev'.get = (IF dev.get < dev.put THEN dev.get + 1 ELSE dev.get)
        /\ dev'.failed /\ UNCHANGED uvm /\ (RaiseIrq \/ UNCHANGED kern)
    <3>1. CASE dev.get < dev.put
      <4>1. dev' = [dev EXCEPT !.fail = FALSE, !.failed = TRUE, !.get = n, !.faulted = FALSE]
        BY <1>5, <1>n, <3>1 DEF FailHead
      <4> QED BY <1>5, <1>n, <3>1, <4>1 DEF FailHead, DevType
    <3>2. CASE ~(dev.get < dev.put)
      BY <1>5, <3>2 DEF FailHead, DevType
    <3> QED BY <3>1, <3>2
  <2>2. StageOK' /\ DrainedBeforeOff'
    <3>1. dev'.get # dev.get => dev.get # dev.put
      BY <2>1 DEF DevType
    <3>2. dev'.get = dev.get \/ ~Stage({"join engine"})
      BY <3>1 DEF LifecycleInv, StageOK
    <3> QED BY <2>1, <3>2 DEF LifecycleInv, StageOK, DrainedBeforeOff
  <2>3. FaultOK'
    BY <2>1 DEF LifecycleInv, FaultOK, DevType
  <2>4. KernOK' /\ TypeOK'
    BY <1>3, <2>1 DEF TypeOK
  <2> QED BY <2>2, <2>3, <2>4 DEF LifecycleInv
<1>6. CASE Retire
  <2>1. /\ dev.at = "scan" /\ dev'.at = "check" /\ dev.get < dev.put /\ ~dev.parked
        /\ dev'.running = dev.running /\ dev'.put = dev.put /\ dev'.get = dev.get + 1
        /\ dev'.parked = dev.parked /\ dev'.failed = dev.failed
        /\ dev' \in DevType /\ UNCHANGED uvm /\ RaiseIrq
    <3>1. dev' = [dev EXCEPT !.at = "check", !.get = n, !.faulted = FALSE]
      BY <1>6, <1>n DEF Retire
    <3> QED BY <1>6, <1>n, <3>1 DEF Retire, HasWork, DevType
  <2>2. StageOK' /\ DrainedBeforeOff'
    <3>0. dev.get # dev.put
      BY <2>1 DEF DevType
    <3>1. ~Stage({"join engine"})
      BY <3>0 DEF LifecycleInv, StageOK
    <3> QED BY <2>1, <3>1 DEF LifecycleInv, StageOK, DrainedBeforeOff
  <2>3. KernOK' /\ TypeOK'
    BY <1>3, <2>1 DEF TypeOK
  <2>4. FaultOK'
    BY <2>1 DEF LifecycleInv, FaultOK, Served, DevType
  <2> QED BY <2>2, <2>3, <2>4 DEF LifecycleInv
<1>7. CASE Fault
  <2>1. /\ dev.at = "scan" /\ dev'.at = "push" /\ dev.get < dev.put /\ ~dev.parked
        /\ dev'.running = dev.running /\ dev'.put = dev.put /\ dev'.get = dev.get
        /\ dev'.failed = dev.failed /\ dev' \in DevType
        /\ dev'.parked /\ UNCHANGED <<uvm, kern>>
    BY <1>7 DEF Fault, HasWork, DevType
  <2>2. TypeOK'
    BY <2>1 DEF TypeOK
  <2> QED BY <2>1, <2>2
          DEF LifecycleInv, StageOK, KernOK, FaultOK, Served, DrainedBeforeOff
<1>8. CASE PushFault
  <2>1. /\ dev.at = "push" /\ dev'.at = "check" /\ dev' \in DevType
        /\ dev'.running = dev.running /\ dev'.put = dev.put /\ dev'.get = dev.get
        /\ dev'.parked = dev.parked /\ dev'.failed = dev.failed /\ UNCHANGED kern
        /\ uvm'.queue /\ uvm'.at = uvm.at /\ uvm' \in UvmType
    BY <1>8 DEF PushFault, EngineGoes, DevType, UvmType
  <2>2. TypeOK'
    BY <2>1 DEF TypeOK
  <2> QED BY <2>1, <2>2
          DEF LifecycleInv, StageOK, KernOK, FaultOK, Served, DrainedBeforeOff
<1>9. CASE EngineLook \/ EngineIdle
  <2>1. /\ dev.at # "off" /\ dev.at # "push" /\ dev'.at # "off" /\ dev'.at # "push"
        /\ dev' \in DevType
        /\ dev'.running = dev.running /\ dev'.put = dev.put /\ dev'.get = dev.get
        /\ dev'.parked = dev.parked /\ dev'.failed = dev.failed
        /\ UNCHANGED <<kern, uvm>>
    BY <1>9 DEF EngineLook, EngineIdle, EngineGoes, DevType
  <2>2. TypeOK'
    BY <2>1 DEF TypeOK
  <2> QED BY <2>1, <2>2
          DEF LifecycleInv, StageOK, KernOK, FaultOK, Served, DrainedBeforeOff
<1> QED BY <1>4, <1>5, <1>6, <1>7, <1>8, <1>9 DEF Engine

\* The UVM thread's steps: a fault it takes is with it until the unpark.
LEMMA UvmInv == ASSUME LifecycleInv, Uvm \/ UvmTimeout PROVE LifecycleInv'
<1>1. UNCHANGED <<api, at, kern, host, rt>>
  BY DEF Uvm, UvmCheck, UvmSample, UvmPop, UvmRecheck, UvmWake, UvmTimeout, UvmServe,
         UvmUnpark, UvmGoes
<1>2. ApiOK' /\ (Up' <=> Up) /\ \A S : Stage(S)' <=> Stage(S)
  BY <1>1 DEF LifecycleInv, ApiOK, Users, Up, Stage
<1>3. dev \in DevType /\ uvm \in UvmType
  BY DEF LifecycleInv, TypeOK
<1>4. uvm' \in UvmType
  BY <1>3 DEF Uvm, UvmCheck, UvmSample, UvmPop, UvmRecheck, UvmWake, UvmTimeout,
              UvmServe, UvmUnpark, UvmGoes, EmptyQueue, UvmType
<1>5. dev' \in DevType
  BY <1>3 DEF Uvm, UvmCheck, UvmSample, UvmPop, UvmRecheck, UvmWake, UvmTimeout,
              UvmServe, UvmUnpark, UvmGoes, DevType
<1>6. TypeOK' /\ KernOK'
  <2>1. TypeOK'
    BY <1>1, <1>4, <1>5 DEF LifecycleInv, TypeOK
  <2>2. KernOK'
    BY <1>1, <1>2 DEF LifecycleInv, KernOK
  <2> QED BY <2>1, <2>2
<1>7. CASE UvmPop
  <2>1. /\ uvm.at = "pop" /\ ~uvm'.queue /\ dev' = dev
        /\ uvm'.at = IF uvm.queue THEN "serve" ELSE "recheck"
    BY <1>3, <1>7 DEF UvmPop, EmptyQueue, UvmType
  <2> QED BY <1>1, <1>2, <1>6, <2>1
          DEF LifecycleInv, StageOK, FaultOK, Served, DrainedBeforeOff
<1>8. CASE UvmServe
  <2>1. /\ uvm.at = "serve" /\ uvm'.at = "unpark" /\ uvm'.queue = uvm.queue
        /\ dev'.parked = dev.parked /\ dev'.at = dev.at /\ dev'.running = dev.running
        /\ dev'.put = dev.put /\ dev'.get = dev.get /\ dev'.failed = dev.failed
    BY <1>3, <1>8 DEF UvmServe, UvmGoes, UvmType, DevType
  <2> QED BY <1>1, <1>2, <1>6, <2>1
          DEF LifecycleInv, StageOK, FaultOK, Served, DrainedBeforeOff
<1>9. CASE UvmUnpark
  <2>1. /\ uvm.at = "unpark" /\ uvm'.at = "check" /\ uvm'.queue = uvm.queue
        /\ ~dev'.parked /\ dev'.at = dev.at /\ dev'.running = dev.running
        /\ dev'.put = dev.put /\ dev'.get = dev.get /\ dev'.failed = dev.failed
    BY <1>3, <1>9 DEF UvmUnpark, UvmGoes, UvmType, DevType
  <2> QED BY <1>1, <1>2, <1>6, <2>1
          DEF LifecycleInv, StageOK, FaultOK, Served, DrainedBeforeOff
<1>10. CASE UvmCheck \/ UvmSample \/ UvmRecheck \/ UvmWake \/ UvmTimeout
  <2>1. /\ uvm.at # "off" /\ ~Served /\ ~Served'
        /\ uvm'.queue = uvm.queue /\ dev' = dev
    BY <1>3, <1>10 DEF UvmCheck, UvmSample, UvmRecheck, UvmWake, UvmTimeout, UvmGoes,
                      UvmType, Served
  <2> QED BY <1>1, <1>2, <1>6, <2>1
          DEF LifecycleInv, StageOK, FaultOK, DrainedBeforeOff
<1> QED BY <1>7, <1>8, <1>9, <1>10 DEF Uvm

\* The userfaultfd thread, a host fault and the kernel's worker.
LEMMA HostInv ==
  ASSUME LifecycleInv, HostThread \/ HostTouch \/ Worker PROVE LifecycleInv'
<1>1. UNCHANGED <<api, at, dev, uvm, rt>>
  BY DEF HostThread, HostTouch, Worker, HostCheck, HostPoll, HostHeld, HostServe, HostGoes
<1>2. ApiOK' /\ (Up' <=> Up) /\ \A S : Stage(S)' <=> Stage(S)
  BY <1>1 DEF LifecycleInv, ApiOK, Users, Up, Stage
<1>3. TypeOK /\ kern \in KernType /\ host \in HostType
  BY DEF LifecycleInv, TypeOK
<1>4. CASE Worker
  <2>1. /\ kern' \in KernType
        /\ kern'.file = kern.file /\ kern'.fd = kern.fd /\ kern'.mapped = kern.mapped
        /\ kern.work # "idle" /\ UNCHANGED host
    BY <1>3, <1>4 DEF Worker, KernType
  <2>2. TypeOK'
    BY <1>1, <1>3, <2>1 DEF TypeOK
  <2>3. KernOK'
    BY <1>2, <2>1 DEF LifecycleInv, KernOK
  <2> QED BY <1>1, <1>2, <2>1, <2>2, <2>3
          DEF LifecycleInv, StageOK, FaultOK, Served, DrainedBeforeOff
<1>5. CASE HostThread \/ HostTouch
  <2>1. /\ host' \in HostType
        /\ host.at # "off" /\ UNCHANGED kern
    BY <1>3, <1>5 DEF HostThread, HostTouch, HostCheck, HostPoll, HostHeld, HostServe,
                      HostGoes, HostType
  <2>2. TypeOK'
    BY <1>1, <1>3, <2>1 DEF TypeOK
  <2>3. KernOK'
    BY <1>2, <2>1 DEF LifecycleInv, KernOK
  <2> QED BY <1>1, <1>2, <2>1, <2>2, <2>3
          DEF LifecycleInv, StageOK, FaultOK, Served, DrainedBeforeOff
<1> QED BY <1>4, <1>5

----------------------------------------------------------------------------
(* The clients                                                             *)

\* The users of the driver are finitely many; g_refs is 0 if there is none.
LEMMA RefsCounted ==
  ASSUME ApiOK
  PROVE  /\ IsFiniteSet(Users) /\ api.refs \in Nat
         /\ api.refs = 0 <=> Users = {}
<1>1. IsFiniteSet(Users)
  BY LifecycleAssumption, FS_Subset DEF Users
<1> QED BY <1>1, FS_CardinalityType, FS_EmptySet DEF ApiOK

\* While a client holds g_open_lock, no other is in the driver.
LEMMA HolderAlone ==
  ASSUME TypeOK, ApiOK, NEW c \in Clients, at[c] \in Opening \cup Closing
  PROVE  /\ api.lock = c /\ api.refs = 0 /\ api.drv = "there" /\ Users = {} /\ ~Up
         /\ \A d \in Clients \ {c} : at[d] \in {"out", "closed"}
<1>1. api.lock = c /\ c # NoOne
  BY LifecycleAssumption DEF ApiOK
<1>2. Users = {}
  BY <1>1, RefsCounted DEF ApiOK
<1>3. \A d \in Clients \ {c} : at[d] \notin Opening \cup Closing /\ at[d] \notin Using
  BY <1>1, <1>2 DEF ApiOK, Users
<1> QED BY <1>1, <1>2, <1>3 DEF ApiOK, Up, TypeOK

\* While nobody holds it, the driver is neither opened nor closed.
LEMMA NobodyHolds ==
  ASSUME TypeOK, ApiOK, api.lock = NoOne
  PROVE  \A d \in Clients : at[d] \notin Opening \cup Closing
BY LifecycleAssumption DEF ApiOK

\* The stage that the driver is at, when no one but c can be at one.
LEMMA StageOf ==
  ASSUME NEW c \in Clients, \A d \in Clients \ {c} : at[d] \notin Opening \cup Closing
  PROVE  /\ Stage({"drain"}) <=> at[c] = "drain"
         /\ Stage({"join engine"}) <=> at[c] = "join engine"
         /\ Stage({"drain", "join engine"}) <=> at[c] \in {"drain", "join engine"}
         /\ Stage({"close file"}) <=> at[c] = "close file"
         /\ Stage({"power", "drain", "join engine", "signal", "join threads"}) <=>
              at[c] \in {"power", "drain", "join engine", "signal", "join threads"}
BY DEF Stage, Opening, Closing

\* A client that uses the driver finds it up, with its threads; its calls
\* change nothing but the ring, its own stream and the test latch.
LEMMA UsingInv ==
  ASSUME LifecycleInv, NEW c \in Clients,
         \/ Opened(c) \/ Enter(c) \/ Submit(c) \/ Answer(c) \/ SetHold(c) \/ WaitTail(c)
         \/ Closed(c)
  PROVE  LifecycleInv'
<1>0. TypeOK /\ ApiOK
  BY DEF LifecycleInv
<1>1. /\ UNCHANGED <<api, kern, uvm>>
      /\ \E to \in {"in", "call", "wait", "out"} : at' = [at EXCEPT ![c] = to]
      /\ \/ at[c] \in Using /\ at'[c] \in Using
         \/ at[c] = "closed" /\ at'[c] = "out"
      /\ \A d \in Clients \ {c} : at'[d] = at[d]
  BY <1>0 DEF Opened, Enter, Submit, Answer, SetHold, WaitTail, Closed, Goto, Using, TypeOK
<1>2. \A S \in {{"drain"}, {"join engine"}, {"drain", "join engine"}, {"close file"},
                {"power", "drain", "join engine", "signal", "join threads"}} :
        Stage(S)' <=> Stage(S)
  BY <1>1 DEF Stage, Using
<1>3. Users' = Users
  BY <1>1 DEF Users, Using
<1>4. ApiOK' /\ (Up' <=> Up)
  BY <1>0, <1>1, <1>3 DEF ApiOK, Up, Using, Opening, Closing
<1>5. KernOK'
  BY <1>1, <1>2 DEF LifecycleInv, KernOK
<1>6. at' \in [Clients -> {"out", "closed"} \cup Using \cup Opening \cup Closing]
  BY <1>0, <1>1 DEF TypeOK, Using
<1>7. CASE Submit(c)
  <2>1. /\ dev' = [dev EXCEPT !.put = @ + 1] /\ UNCHANGED host
        /\ rt' = [rt EXCEPT !.tail = IF c = Runtime THEN dev'.put ELSE @]
    BY <1>7 DEF Submit
  <2>2. /\ dev'.running = dev.running /\ dev'.at = dev.at /\ dev'.put = dev.put + 1
        /\ dev'.get = dev.get /\ dev'.parked = dev.parked /\ dev' \in DevType
        /\ dev'.failed = dev.failed /\ dev \in DevType
    BY <1>0, <2>1 DEF TypeOK, DevType
  <2>3. TypeOK'
    <3>1. rt' \in [fd : BOOLEAN, tail : Nat]
      BY <1>0, <2>1, <2>2 DEF TypeOK, DevType
    <3> QED BY <1>0, <1>1, <1>6, <2>1, <2>2, <3>1 DEF TypeOK
  <2>4. Up /\ \A d \in Clients : at[d] \notin Closing
    <3>1. c \in Users
      BY <1>7 DEF Submit, Goto, Users, Using
    <3>2. api.lock = NoOne /\ api.drv = "there"
      BY <1>0, <3>1, RefsCounted DEF ApiOK
    <3> QED BY <1>0, <3>2, NobodyHolds DEF Up
  <2>5. dev.at # "off" /\ ~Stage({"join engine"})
    BY <2>4 DEF LifecycleInv, StageOK, Stage, Closing
  <2>6. StageOK' /\ DrainedBeforeOff'
    BY <1>1, <1>2, <1>4, <2>1, <2>2, <2>5 DEF LifecycleInv, StageOK, DrainedBeforeOff
  <2>7. FaultOK'
    BY <1>1, <2>2 DEF LifecycleInv, FaultOK, Served, DevType
  <2> QED BY <1>4, <1>5, <2>3, <2>6, <2>7 DEF LifecycleInv
<1>8. CASE ~Submit(c)
  <2>1. UNCHANGED dev /\ host'.at = host.at /\ host' \in HostType
    BY <1>0, <1>8 DEF Opened, Enter, Answer, SetHold, WaitTail, Closed, TypeOK, HostType
  <2>2. rt' \in [fd : BOOLEAN, tail : Nat]
    <3>1. \/ rt' = rt \/ rt' = [fd |-> TRUE, tail |-> 0]
          \/ rt' = [rt EXCEPT !.fd = FALSE] \/ rt' = [rt EXCEPT !.fd = @]
      BY <1>0, <1>8 DEF Opened, StreamReset, Enter, Answer, SetHold, WaitTail, Closed
    <3>2. rt \in [fd : BOOLEAN, tail : Nat]
      BY <1>0 DEF TypeOK
    <3>3. [rt EXCEPT !.fd = FALSE] \in [fd : BOOLEAN, tail : Nat]
      BY <3>2
    <3>4. [rt EXCEPT !.fd = @] = rt
      BY <3>2
    <3>5. [fd |-> TRUE, tail |-> 0] \in [fd : BOOLEAN, tail : Nat]
      OBVIOUS
    <3> QED BY <3>1, <3>2, <3>3, <3>4, <3>5
  <2>3. TypeOK'
    BY <1>0, <1>1, <1>6, <2>1, <2>2 DEF TypeOK
  <2>4. StageOK'
    BY <1>1, <1>2, <1>4, <2>1 DEF LifecycleInv, StageOK
  <2> QED BY <1>1, <1>4, <1>5, <2>1, <2>3, <2>4
          DEF LifecycleInv, FaultOK, Served, DrainedBeforeOff
<1> QED BY <1>7, <1>8

\* An open takes a reference to the driver, or the lock to make one.
LEMMA OpenInv ==
  ASSUME LifecycleInv, NEW c \in Clients, Open(c) PROVE LifecycleInv'
<1>0. TypeOK /\ ApiOK
  BY DEF LifecycleInv
<1>1. /\ api.lock = NoOne /\ at[c] = "out" /\ UNCHANGED <<kern, dev, uvm, host, rt>>
      /\ \A d \in Clients : at[d] \notin Opening \cup Closing
  BY <1>0, NobodyHolds DEF Open, Goto
<1>2. CASE api.drv = "none"
  <2>1. /\ api' = [api EXCEPT !.opens = @ + 1, !.lock = c, !.drv = "there"]
        /\ at' = [at EXCEPT ![c] = "attach"]
    BY <1>2 DEF Open, Goto
  <2>2. /\ api'.lock = c /\ api'.drv = "there" /\ api'.refs = api.refs
        /\ at'[c] = "attach" /\ \A d \in Clients \ {c} : at'[d] = at[d]
    BY <1>0, <2>1 DEF TypeOK
  <2>3. TypeOK'
    <3>1. at' \in [Clients -> {"out", "closed"} \cup Using \cup Opening \cup Closing]
      BY <1>0, <2>1 DEF TypeOK, Opening
    <3>2. api' \in [lock : Clients \cup {NoOne}, refs : Nat, drv : {"none", "there"},
                    opens : Nat]
      <4>1. PICK n \in Nat : n = api.opens + 1
        BY <1>0 DEF TypeOK
      <4>2. api' = [api EXCEPT !.opens = n, !.lock = c, !.drv = "there"]
        BY <2>1, <4>1
      <4> QED BY <1>0, <4>2 DEF TypeOK
    <3> QED BY <1>0, <1>1, <3>1, <3>2 DEF TypeOK
  <2>4. Users' = Users /\ Users = {} /\ api.refs = 0
    BY <1>0, <1>1, <1>2, <2>2, RefsCounted DEF Users, Using, ApiOK
  <2>5. ApiOK' /\ ~Up' /\ ~Up
    BY <1>0, <1>1, <1>2, <2>2, <2>4, LifecycleAssumption
       DEF ApiOK, Up, Using, Opening, Closing
  <2>6. StageOK' /\ KernOK'
    <3>1. /\ ~Stage({"drain"}) /\ ~Stage({"join engine"})
          /\ ~Stage({"drain", "join engine"}) /\ ~Stage({"close file"})
          /\ ~Stage({"power", "drain", "join engine", "signal", "join threads"})
      BY <1>1 DEF Stage, Opening, Closing
    <3>2. /\ ~Stage({"drain"})' /\ ~Stage({"join engine"})'
          /\ ~Stage({"drain", "join engine"})' /\ ~Stage({"close file"})'
          /\ ~Stage({"power", "drain", "join engine", "signal", "join threads"})'
      BY <1>1, <2>2 DEF Stage, Opening, Closing
    <3> QED BY <1>1, <2>5, <3>1, <3>2 DEF LifecycleInv, StageOK, KernOK
  <2> QED BY <1>1, <2>3, <2>5, <2>6 DEF LifecycleInv, FaultOK, Served, DrainedBeforeOff
<1>3. CASE api.drv # "none"
  <2>1. /\ api' = [api EXCEPT !.opens = @ + 1, !.refs = @ + 1]
        /\ at' = [at EXCEPT ![c] = "opened"]
    BY <1>3 DEF Open, Goto
  <2>2. /\ api'.lock = NoOne /\ api'.drv = "there" /\ api'.refs = api.refs + 1
        /\ api.drv = "there" /\ at'[c] = "opened"
        /\ \A d \in Clients \ {c} : at'[d] = at[d]
    BY <1>0, <1>1, <1>3, <2>1 DEF TypeOK
  <2>3. TypeOK'
    <3>1. at' \in [Clients -> {"out", "closed"} \cup Using \cup Opening \cup Closing]
      BY <1>0, <2>1 DEF TypeOK, Using
    <3>2. api' \in [lock : Clients \cup {NoOne}, refs : Nat, drv : {"none", "there"},
                    opens : Nat]
      <4>1. PICK n \in Nat, m \in Nat : n = api.opens + 1 /\ m = api.refs + 1
        BY <1>0 DEF TypeOK
      <4>2. api' = [api EXCEPT !.opens = n, !.refs = m]
        BY <2>1, <4>1
      <4> QED BY <1>0, <4>2 DEF TypeOK
    <3> QED BY <1>0, <1>1, <3>1, <3>2 DEF TypeOK
  <2>4. Cardinality(Users') = Cardinality(Users) + 1
    <3>1. Users' = Users \cup {c} /\ c \notin Users
      BY <1>1, <2>2 DEF Users, Using
    <3> QED BY <1>0, <3>1, RefsCounted, FS_AddElement
  <2>5. ApiOK' /\ Up' /\ Up
    <3>1. \A d \in Clients : at'[d] \notin Opening \cup Closing /\ d # api'.lock
      BY <1>1, <2>2, LifecycleAssumption DEF Opening, Closing
    <3>2. api'.refs = Cardinality(Users') /\ api'.refs # 0
      BY <1>0, <2>2, <2>4, RefsCounted DEF ApiOK
    <3> QED BY <1>1, <2>2, <3>1, <3>2 DEF ApiOK, Up
  <2>6. StageOK' /\ KernOK'
    <3>1. \A S \in {{"drain"}, {"join engine"}, {"drain", "join engine"}, {"close file"},
                {"power", "drain", "join engine", "signal", "join threads"}} :
            ~Stage(S) /\ ~Stage(S)'
      BY <1>1, <2>2 DEF Stage, Opening, Closing
    <3> QED BY <1>1, <2>5, <3>1 DEF LifecycleInv, StageOK, KernOK
  <2> QED BY <1>1, <2>3, <2>5, <2>6 DEF LifecycleInv, FaultOK, Served, DrainedBeforeOff
<1> QED BY <1>2, <1>3

\* A step of the client that holds the lock: where everyone is, and at which
\* stage the driver was and is.
LEMMA HolderMoves ==
  ASSUME TypeOK, ApiOK, NEW c \in Clients, at[c] \in Opening \cup Closing,
         NEW to \in {"out", "closed"} \cup Using \cup Opening \cup Closing,
         at' = [at EXCEPT ![c] = to]
  PROVE  /\ api.lock = c /\ api.refs = 0 /\ api.drv = "there" /\ ~Up /\ at'[c] = to
         /\ at' \in [Clients -> {"out", "closed"} \cup Using \cup Opening \cup Closing]
         /\ \A d \in Clients \ {c} : at'[d] = at[d] /\ at[d] \in {"out", "closed"}
         /\ Stage({"drain"})' <=> to = "drain"
         /\ Stage({"join engine"})' <=> to = "join engine"
         /\ Stage({"drain", "join engine"})' <=> to \in {"drain", "join engine"}
         /\ Stage({"close file"})' <=> to = "close file"
         /\ Stage({"power", "drain", "join engine", "signal", "join threads"})' <=>
              to \in {"power", "drain", "join engine", "signal", "join threads"}
         /\ Users = {} /\ Users' = IF to \in Using THEN {c} ELSE {}
<1>1. /\ api.lock = c /\ api.refs = 0 /\ api.drv = "there" /\ ~Up /\ Users = {}
      /\ \A d \in Clients \ {c} : at[d] \in {"out", "closed"}
  BY HolderAlone
<1>2. /\ at'[c] = to /\ \A d \in Clients \ {c} : at'[d] = at[d]
      /\ at' \in [Clients -> {"out", "closed"} \cup Using \cup Opening \cup Closing]
  BY DEF TypeOK
<1>3. \A d \in Clients \ {c} : at'[d] \notin Opening \cup Closing
  BY <1>1, <1>2 DEF Opening, Closing
<1>4. Users' = IF to \in Using THEN {c} ELSE {}
  BY <1>1, <1>2 DEF Users, Using
<1>5. /\ Stage({"drain"})' <=> to = "drain"
      /\ Stage({"join engine"})' <=> to = "join engine"
      /\ Stage({"drain", "join engine"})' <=> to \in {"drain", "join engine"}
      /\ Stage({"close file"})' <=> to = "close file"
      /\ Stage({"power", "drain", "join engine", "signal", "join threads"})' <=>
           to \in {"power", "drain", "join engine", "signal", "join threads"}
  BY <1>2, <1>3 DEF Stage, Opening, Closing
<1> QED BY <1>1, <1>2, <1>4, <1>5

\* It keeps the lock from one stage to the next, ...
LEMMA KeepsLock ==
  ASSUME TypeOK, ApiOK, NEW c \in Clients, at[c] \in Opening \cup Closing,
         NEW to \in Opening \cup Closing, at' = [at EXCEPT ![c] = to], api' = api
  PROVE  ApiOK' /\ ~Up'
<1>1. /\ api.lock = c /\ api.refs = 0 /\ api.drv = "there" /\ at'[c] = to
      /\ \A d \in Clients \ {c} : at'[d] \in {"out", "closed"}
      /\ Users = {} /\ Users' = {}
  BY HolderMoves DEF Opening, Closing, Using
<1>2. \A d \in Clients \ {c} : at'[d] \notin Opening \cup Closing
  BY <1>1 DEF Opening, Closing
<1> QED BY <1>1, <1>2, LifecycleAssumption, ZenonT(60) DEF ApiOK, Up

\* ... and when it lets go of it, the driver is up with one user, or gone.
LEMMA LetsGo ==
  ASSUME TypeOK, ApiOK, NEW c \in Clients, at[c] \in Opening \cup Closing,
         NEW to \in {"out", "closed", "opened"}, at' = [at EXCEPT ![c] = to],
         api'.lock = NoOne,
         to = "opened" => api'.refs = api.refs + 1 /\ api'.drv = "there",
         to # "opened" => api'.refs = api.refs /\ api'.drv = "none"
  PROVE  ApiOK' /\ (Up' <=> to = "opened")
<1>1. /\ api.refs = 0 /\ at'[c] = to
      /\ \A d \in Clients \ {c} : at'[d] \in {"out", "closed"}
      /\ Users' = IF to = "opened" THEN {c} ELSE {}
  BY HolderMoves DEF Opening, Closing, Using
<1>2. \A d \in Clients : at'[d] \notin Opening \cup Closing
  BY <1>1 DEF Opening, Closing
<1>3. Cardinality({c}) = 1 /\ Cardinality({}) = 0
  BY FS_Singleton, FS_EmptySet
<1>4. api'.refs = Cardinality(Users')
  BY <1>1, <1>3
<1> QED BY <1>1, <1>2, <1>4, LifecycleAssumption DEF ApiOK, Up

\* The mapping is not empty.
LEMMA MapNotEmpty ==
  MapBytes(NumEngines, NumChannels, Depth) \in Nat
  /\ MapBytes(NumEngines, NumChannels, Depth) > 0
<1>1. RingBytes(Depth) \in Nat
  BY LifecycleAssumption DEF RingBytes, CmdBytes, Page
<1>2. NumEngines * NumChannels \in Nat
  BY LifecycleAssumption
<1>3. \A a, b \in Nat : a * b \in Nat
  OBVIOUS
<1>4. NumEngines * NumChannels * RingBytes(Depth) \in Nat
  BY <1>1, <1>2, <1>3
<1> QED BY <1>4 DEF MapBytes, Page

\* Driver() and power_on: the threads start when there is no other, the
\* engine last.
LEMMA OpeningInv ==
  ASSUME LifecycleInv, NEW c \in Clients,
         AttachKmod(c) \/ RingsInProcess(c) \/ OpenError(c) \/ StartThreads(c) \/ PowerOn(c)
  PROVE  LifecycleInv'
<1>0. /\ TypeOK /\ ApiOK /\ kern \in KernType /\ dev \in DevType
      /\ uvm \in UvmType /\ host \in HostType
  BY DEF LifecycleInv, TypeOK
<1>1. at[c] \in Opening /\ at[c] \in Opening \cup Closing
  BY DEF AttachKmod, RingsInProcess, OpenError, StartThreads, PowerOn, Goto, Opening
<1>2. /\ api.lock = c /\ api.refs = 0 /\ api.drv = "there" /\ ~Up
      /\ \A d \in Clients \ {c} : at[d] \in {"out", "closed"}
  BY <1>0, <1>1, HolderAlone
<1>3. /\ ~Stage({"drain"}) /\ ~Stage({"join engine"}) /\ ~Stage({"drain", "join engine"})
      /\ ~Stage({"close file"})
      /\ Stage({"power", "drain", "join engine", "signal", "join threads"}) =>
           at[c] = "power"
  <2>1. \A d \in Clients \ {c} : at[d] \notin Opening \cup Closing
    BY <1>2 DEF Opening, Closing
  <2> QED BY <1>1, <2>1, StageOf DEF Opening
<1>4. dev.at = "off" /\ ~dev.running
  BY <1>2, <1>3 DEF LifecycleInv, StageOK
<1>5. CASE AttachKmod(c) \/ RingsInProcess(c)
  <2>1. /\ at' = [at EXCEPT ![c] = "threads"] /\ at[c] = "attach"
        /\ UNCHANGED <<api, dev, uvm, host, rt>>
        /\ \/ kern' = kern
           \/ /\ MapOK
              /\ kern' = [kern EXCEPT !.file = TRUE, !.fd = TRUE,
                            !.mapped = MapBytes(NumEngines, NumChannels, Depth)]
    BY <1>5 DEF AttachKmod, RingsInProcess, Goto
  <2>2. "threads" \in Opening \cup Closing
    BY DEF Opening
  <2>3. ApiOK' /\ ~Up'
    BY <1>0, <1>1, <2>1, <2>2, KeepsLock
  <2>4. /\ at' \in [Clients -> {"out", "closed"} \cup Using \cup Opening \cup Closing]
        /\ ~Stage({"drain"})' /\ ~Stage({"join engine"})'
        /\ ~Stage({"drain", "join engine"})' /\ ~Stage({"close file"})'
    BY <1>0, <1>1, <2>1, <2>2, HolderMoves
  <2>5. kern' \in KernType
    BY <1>0, <2>1, MapNotEmpty DEF KernType
  <2>6. KernOK'
    <3>1. CASE kern' = kern
      BY <1>3, <2>4, <3>1 DEF LifecycleInv, KernOK
    <3>2. CASE kern' # kern
      <4>1. kern'.file /\ kern'.fd /\ MapOK
            /\ kern'.mapped = MapBytes(NumEngines, NumChannels, Depth)
        BY <1>0, <2>1, <3>2 DEF KernType
      <4> QED BY <4>1, MapNotEmpty DEF KernOK
    <3> QED BY <3>1, <3>2
  <2>7. StageOK'
    BY <1>2, <1>3, <1>4, <2>1, <2>3, <2>4 DEF LifecycleInv, StageOK
  <2>8. TypeOK'
    BY <1>0, <2>1, <2>4, <2>5 DEF TypeOK
  <2> QED BY <2>1, <2>3, <2>6, <2>7, <2>8 DEF LifecycleInv, FaultOK, Served, DrainedBeforeOff
<1>6. CASE OpenError(c)
  <2>1. /\ at' = [at EXCEPT ![c] = "out"] /\ at[c] = "attach"
        /\ api' = [api EXCEPT !.lock = NoOne, !.drv = "none"]
        /\ UNCHANGED <<kern, dev, uvm, host, rt>>
    BY <1>6 DEF OpenError, Goto
  <2>2. /\ api'.lock = NoOne /\ api'.drv = "none" /\ api'.refs = api.refs
        /\ api' \in [lock : Clients \cup {NoOne}, refs : Nat, drv : {"none", "there"},
                     opens : Nat]
    BY <1>0, <2>1 DEF TypeOK
  <2>3. ApiOK' /\ ~Up'
    BY <1>0, <1>1, <2>1, <2>2, LetsGo
  <2>4. /\ at' \in [Clients -> {"out", "closed"} \cup Using \cup Opening \cup Closing]
        /\ ~Stage({"drain"})' /\ ~Stage({"join engine"})'
        /\ ~Stage({"drain", "join engine"})' /\ ~Stage({"close file"})'
    BY <1>0, <1>1, <2>1, HolderMoves
  <2>5. StageOK' /\ KernOK'
    BY <1>2, <1>3, <1>4, <2>1, <2>3, <2>4 DEF LifecycleInv, StageOK, KernOK
  <2>6. TypeOK'
    BY <1>0, <2>1, <2>2, <2>4 DEF TypeOK
  <2> QED BY <2>1, <2>3, <2>5, <2>6 DEF LifecycleInv, FaultOK, Served, DrainedBeforeOff
<1>7. CASE StartThreads(c)
  <2>1. /\ at' = [at EXCEPT ![c] = "power"] /\ at[c] = "threads"
        /\ dev' = NewDevice /\ uvm' = [NewUvm EXCEPT !.at = "check"]
        /\ host' \in {NewHost, [NewHost EXCEPT !.at = "check"]}
        /\ UNCHANGED <<api, kern, rt>>
    BY <1>7 DEF StartThreads, Goto
  <2>2. "power" \in Opening \cup Closing
    BY DEF Opening
  <2>3. ApiOK' /\ ~Up'
    BY <1>0, <1>1, <2>1, <2>2, KeepsLock
  <2>4. /\ at' \in [Clients -> {"out", "closed"} \cup Using \cup Opening \cup Closing]
        /\ ~Stage({"drain"})' /\ ~Stage({"join engine"})'
        /\ ~Stage({"drain", "join engine"})' /\ ~Stage({"close file"})'
        /\ Stage({"power", "drain", "join engine", "signal", "join threads"})'
    BY <1>0, <1>1, <2>1, <2>2, HolderMoves
  <2>5. TypeOK'
    <3>1. dev' \in DevType
      BY <2>1 DEF NewDevice, DevType
    <3>2. NewUvm \in UvmType
      BY DEF NewUvm, UvmType
    <3>3. uvm' \in UvmType
      BY <2>1, <3>2 DEF UvmType
    <3>4. NewHost \in HostType
      BY DEF NewHost, HostType
    <3>5. host' \in HostType
      BY <2>1, <3>4 DEF HostType
    <3> QED BY <1>0, <2>1, <2>4, <3>1, <3>3, <3>5 DEF TypeOK
  <2>6. StageOK' /\ FaultOK' /\ DrainedBeforeOff'
    <3>1. /\ dev'.at = "off" /\ ~dev'.running /\ dev'.get = 0 /\ dev'.put = 0
          /\ ~dev'.parked /\ ~uvm'.queue /\ uvm'.at = "check"
      BY <2>1 DEF NewDevice, NewUvm
    <3>2. StageOK'
      BY <2>3, <2>4, <3>1 DEF StageOK
    <3>3. FaultOK'
      BY <3>1 DEF FaultOK, Served
    <3>4. DrainedBeforeOff'
      BY <3>1 DEF DrainedBeforeOff
    <3> QED BY <3>2, <3>3, <3>4
  <2>7. KernOK'
    BY <1>3, <2>1, <2>4 DEF LifecycleInv, KernOK
  <2> QED BY <2>3, <2>5, <2>6, <2>7 DEF LifecycleInv
<1>8. CASE PowerOn(c)
  <2>1. /\ at' = [at EXCEPT ![c] = "opened"] /\ at[c] = "power"
        /\ dev' = [dev EXCEPT !.running = TRUE, !.at = "check"]
        /\ api' = [api EXCEPT !.refs = @ + 1, !.lock = NoOne]
        /\ UNCHANGED <<kern, uvm, host, rt>>
    BY <1>8 DEF PowerOn, Goto
  <2>2. /\ api'.lock = NoOne /\ api'.drv = "there" /\ api'.refs = api.refs + 1
        /\ api' \in [lock : Clients \cup {NoOne}, refs : Nat, drv : {"none", "there"},
                     opens : Nat]
    <3>1. PICK n \in Nat : n = api.refs + 1
      BY <1>2
    <3>2. api' = [api EXCEPT !.refs = n, !.lock = NoOne]
      BY <2>1, <3>1
    <3> QED BY <1>0, <1>2, <3>1, <3>2 DEF TypeOK
  <2>3. ApiOK' /\ Up'
    BY <1>0, <1>1, <2>1, <2>2, LetsGo
  <2>4. /\ at' \in [Clients -> {"out", "closed"} \cup Using \cup Opening \cup Closing]
        /\ ~Stage({"drain"})' /\ ~Stage({"join engine"})'
        /\ ~Stage({"drain", "join engine"})' /\ ~Stage({"close file"})'
    <3>1. "opened" \in {"out", "closed"} \cup Using \cup Opening \cup Closing
      BY DEF Using
    <3> QED BY <1>0, <1>1, <2>1, <3>1, HolderMoves
  <2>5. /\ dev' \in DevType /\ dev'.running /\ dev'.at = "check" /\ dev'.put = dev.put
        /\ dev'.get = dev.get /\ dev'.parked = dev.parked /\ dev'.failed = dev.failed
    BY <1>0, <2>1 DEF DevType
  <2>6. TypeOK'
    BY <1>0, <2>1, <2>2, <2>4, <2>5 DEF TypeOK
  <2>7. StageOK' /\ DrainedBeforeOff' /\ KernOK'
    BY <1>3, <2>1, <2>3, <2>4, <2>5 DEF LifecycleInv, StageOK, DrainedBeforeOff, KernOK
  <2>8. FaultOK'
    BY <1>4, <2>1, <2>5 DEF LifecycleInv, FaultOK, Served
  <2> QED BY <2>3, <2>6, <2>7, <2>8 DEF LifecycleInv
<1> QED BY <1>5, <1>6, <1>7, <1>8

\* A close gives a reference back; the last one takes the lock.
LEMMA CloseInv ==
  ASSUME LifecycleInv, NEW c \in Clients, Close(c) PROVE LifecycleInv'
<1>0. TypeOK /\ ApiOK
  BY DEF LifecycleInv
<1>1. /\ api.lock = NoOne /\ at[c] = "in" /\ UNCHANGED <<kern, dev, uvm, host, rt>>
      /\ \A d \in Clients : at[d] \notin Opening \cup Closing
  BY <1>0, NobodyHolds DEF Close, Goto
<1>2. c \in Users /\ api.refs \in Nat \ {0} /\ api.drv = "there" /\ Up
  BY <1>0, <1>1, RefsCounted DEF Users, Using, ApiOK, Up
<1>3. PICK to \in {"drain", "closed"} :
        /\ at' = [at EXCEPT ![c] = to] /\ (to = "drain" <=> api.refs = 1)
        /\ api' = [api EXCEPT !.refs = @ - 1,
                              !.lock = IF to = "drain" THEN c ELSE NoOne]
  BY DEF Close, Goto, LastRef
<1>4. /\ api'.lock = IF to = "drain" THEN c ELSE NoOne
      /\ api'.drv = "there" /\ api'.refs = api.refs - 1
      /\ api' \in [lock : Clients \cup {NoOne}, refs : Nat, drv : {"none", "there"},
                   opens : Nat]
  <2>1. PICK n \in Nat, l \in Clients \cup {NoOne} :
          n = api.refs - 1 /\ l = IF to = "drain" THEN c ELSE NoOne
    BY <1>2
  <2>2. api' = [api EXCEPT !.refs = n, !.lock = l]
    BY <1>3, <2>1
  <2> QED BY <1>0, <1>2, <2>1, <2>2 DEF TypeOK
<1>5. /\ at'[c] = to /\ \A d \in Clients \ {c} : at'[d] = at[d]
      /\ at' \in [Clients -> {"out", "closed"} \cup Using \cup Opening \cup Closing]
  BY <1>0, <1>3 DEF TypeOK, Closing
<1>6. Cardinality(Users') = Cardinality(Users) - 1
  <2>1. Users' = Users \ {c}
    BY <1>5 DEF Users, Using
  <2> QED BY <1>0, <1>2, <2>1, RefsCounted, FS_RemoveElement
<1>7. ApiOK' /\ (Up' <=> to = "closed")
  <2>1. api'.refs = Cardinality(Users')
    BY <1>0, <1>4, <1>6 DEF ApiOK
  <2>2. \A d \in Clients : at'[d] \in Opening \cup Closing <=> api'.lock = d
    BY <1>1, <1>4, <1>5, LifecycleAssumption DEF Opening, Closing
  <2>3. api'.refs # 0 <=> to = "closed"
    BY <1>2, <1>3, <1>4
  <2>4. api'.lock = NoOne <=> to = "closed"
    BY <1>4, LifecycleAssumption
  <2> QED BY <1>4, <2>1, <2>2, <2>3, <2>4 DEF ApiOK, Up
<1>8. /\ Stage({"drain"})' <=> to = "drain"
      /\ ~Stage({"join engine"})' /\ ~Stage({"close file"})' /\ ~Stage({"close file"})
      /\ Stage({"drain", "join engine"})' <=> to = "drain"
      /\ Stage({"power", "drain", "join engine", "signal", "join threads"})' <=>
           to = "drain"
  BY <1>1, <1>5 DEF Stage, Opening, Closing
<1>9. StageOK' /\ KernOK'
  BY <1>1, <1>2, <1>7, <1>8 DEF LifecycleInv, StageOK, KernOK
<1>10. TypeOK'
  BY <1>0, <1>1, <1>4, <1>5 DEF TypeOK
<1> QED BY <1>1, <1>7, <1>9, <1>10 DEF LifecycleInv, FaultOK, Served, DrainedBeforeOff

\* power_off and ~Driver(): the engine ends before the threads that serve
\* it, they before the rings, and the rings before the file.
LEMMA ClosingInv ==
  ASSUME LifecycleInv, NEW c \in Clients,
         PowerOff(c) \/ JoinEngine(c) \/ SignalThreads(c) \/ Unmap(c) \/ CloseFile(c)
  PROVE  LifecycleInv'
<1>0. /\ TypeOK /\ ApiOK /\ kern \in KernType /\ dev \in DevType
      /\ uvm \in UvmType /\ host \in HostType
  BY DEF LifecycleInv, TypeOK
<1>1. at[c] \in Closing /\ at[c] \in Opening \cup Closing
  BY DEF PowerOff, JoinEngine, SignalThreads, Unmap, CloseFile, Goto, Closing
<1>2. /\ api.lock = c /\ api.refs = 0 /\ api.drv = "there" /\ ~Up
      /\ \A d \in Clients \ {c} : at[d] \in {"out", "closed"}
  BY <1>0, <1>1, HolderAlone
<1>3. /\ Stage({"drain"}) <=> at[c] = "drain"
      /\ Stage({"join engine"}) <=> at[c] = "join engine"
      /\ Stage({"drain", "join engine"}) <=> at[c] \in {"drain", "join engine"}
      /\ Stage({"close file"}) <=> at[c] = "close file"
      /\ Stage({"power", "drain", "join engine", "signal", "join threads"}) <=>
           at[c] \in {"power", "drain", "join engine", "signal", "join threads"}
  <2>1. \A d \in Clients \ {c} : at[d] \notin Opening \cup Closing
    BY <1>2 DEF Opening, Closing
  <2> QED BY <2>1, StageOf
\* All but the last of these steps keep the lock.
<1>4. ASSUME NEW to \in Closing, at' = [at EXCEPT ![c] = to], UNCHANGED <<api, rt>>,
             kern' \in KernType, dev' \in DevType, uvm' \in UvmType, host' \in HostType
      PROVE  /\ TypeOK' /\ ApiOK' /\ ~Up'
             /\ Stage({"drain"})' <=> to = "drain"
             /\ Stage({"join engine"})' <=> to = "join engine"
             /\ Stage({"drain", "join engine"})' <=> to \in {"drain", "join engine"}
             /\ Stage({"close file"})' <=> to = "close file"
             /\ Stage({"power", "drain", "join engine", "signal", "join threads"})' <=>
                  to \in {"power", "drain", "join engine", "signal", "join threads"}
  <2>1. to \in Opening \cup Closing /\ api' = api
    BY <1>4
  <2>2. ApiOK' /\ ~Up'
    BY <1>0, <1>1, <1>4, <2>1, KeepsLock
  <2>3. /\ at' \in [Clients -> {"out", "closed"} \cup Using \cup Opening \cup Closing]
        /\ Stage({"drain"})' <=> to = "drain"
        /\ Stage({"join engine"})' <=> to = "join engine"
        /\ Stage({"drain", "join engine"})' <=> to \in {"drain", "join engine"}
        /\ Stage({"close file"})' <=> to = "close file"
        /\ Stage({"power", "drain", "join engine", "signal", "join threads"})' <=>
             to \in {"power", "drain", "join engine", "signal", "join threads"}
    BY <1>0, <1>1, <1>4, <2>1, HolderMoves
  <2> QED BY <1>0, <1>4, <2>2, <2>3 DEF TypeOK
<1>5. CASE PowerOff(c)
  <2>1. /\ at' = [at EXCEPT ![c] = "join engine"] /\ at[c] = "drain"
        /\ dev.get = dev.put /\ dev' = [dev EXCEPT !.running = FALSE]
        /\ UNCHANGED <<api, kern, uvm, host, rt>>
    BY <1>5 DEF PowerOff, Goto, Drained
  <2>2. /\ dev' \in DevType /\ ~dev'.running /\ dev'.at = dev.at /\ dev'.put = dev.put
        /\ dev'.get = dev.get /\ dev'.parked = dev.parked /\ dev'.failed = dev.failed
    BY <1>0, <2>1 DEF DevType
  <2>3. "join engine" \in Closing
    BY DEF Closing
  <2>4. TypeOK' /\ ApiOK' /\ StageOK' /\ KernOK'
    BY <1>0, <1>3, <1>4, <2>1, <2>2, <2>3 DEF LifecycleInv, StageOK, KernOK
  <2> QED BY <2>1, <2>2, <2>4 DEF LifecycleInv, FaultOK, Served, DrainedBeforeOff
<1>6. CASE JoinEngine(c)
  <2>1. /\ at' = [at EXCEPT ![c] = "signal"] /\ at[c] = "join engine"
        /\ dev.at = "off" /\ uvm' = [uvm EXCEPT !.stop = TRUE]
        /\ UNCHANGED <<api, kern, dev, host, rt>>
    BY <1>6 DEF JoinEngine, Goto
  <2>2. uvm' \in UvmType /\ uvm'.at = uvm.at /\ uvm'.queue = uvm.queue
    BY <1>0, <2>1 DEF UvmType
  <2>3. "signal" \in Closing
    BY DEF Closing
  <2>4. TypeOK' /\ ApiOK' /\ StageOK' /\ KernOK'
    BY <1>0, <1>2, <1>3, <1>4, <2>1, <2>2, <2>3 DEF LifecycleInv, StageOK, KernOK
  <2> QED BY <2>1, <2>2, <2>4 DEF LifecycleInv, FaultOK, Served, DrainedBeforeOff
<1>7. CASE SignalThreads(c)
  <2>1. /\ at' = [at EXCEPT ![c] = "join threads"] /\ at[c] = "signal"
        /\ uvm' = [uvm EXCEPT !.irq = TRUE] /\ host' = [host EXCEPT !.kick = TRUE]
        /\ UNCHANGED <<api, kern, dev, rt>>
    BY <1>7 DEF SignalThreads, Goto
  <2>2. /\ uvm' \in UvmType /\ uvm'.at = uvm.at /\ uvm'.queue = uvm.queue
        /\ host' \in HostType /\ host'.at = host.at
    BY <1>0, <2>1 DEF UvmType, HostType
  <2>3. "join threads" \in Closing
    BY DEF Closing
  <2>4. TypeOK' /\ ApiOK' /\ StageOK' /\ KernOK'
    BY <1>0, <1>2, <1>3, <1>4, <2>1, <2>2, <2>3 DEF LifecycleInv, StageOK, KernOK
  <2> QED BY <2>1, <2>2, <2>4 DEF LifecycleInv, FaultOK, Served, DrainedBeforeOff
<1>8. CASE Unmap(c)
  <2>1. /\ at' = [at EXCEPT ![c] = "close file"] /\ at[c] = "join threads"
        /\ uvm.at = "off" /\ host' = NewHost /\ kern' = [kern EXCEPT !.mapped = 0]
        /\ UNCHANGED <<api, dev, uvm, rt>>
    BY <1>8 DEF Unmap, Goto, Joined
  <2>2. /\ host' \in HostType /\ host'.at = "off" /\ kern' \in KernType
        /\ kern'.mapped = 0 /\ kern'.file = kern.file /\ kern'.fd = kern.fd
        /\ kern'.work = kern.work
    BY <1>0, <2>1 DEF HostType, NewHost, KernType
  <2>3. "close file" \in Closing
    BY DEF Closing
  <2>4. TypeOK' /\ ApiOK' /\ StageOK' /\ KernOK'
    <3>1. TypeOK' /\ ApiOK'
      BY <1>0, <1>4, <2>1, <2>2, <2>3
    <3>2. StageOK'
      BY <1>0, <1>2, <1>3, <1>4, <2>1, <2>2, <2>3 DEF LifecycleInv, StageOK
    <3>3. Stage({"close file"})'
      BY <1>0, <2>1 DEF Stage, TypeOK
    <3>4. ~(kern'.mapped > 0)
      BY <2>2
    <3>5. KernOK'
      BY <2>2, <3>3, <3>4 DEF LifecycleInv, KernOK
    <3> QED BY <3>1, <3>2, <3>5
  <2> QED BY <2>1, <2>2, <2>4 DEF LifecycleInv, FaultOK, Served, DrainedBeforeOff
<1>9. CASE CloseFile(c)
  <2>1. /\ at' = [at EXCEPT ![c] = "closed"] /\ at[c] = "close file"
        /\ api' = [api EXCEPT !.lock = NoOne, !.drv = "none"]
        /\ UNCHANGED <<dev, uvm, host, rt>>
        /\ \/ kern' = kern /\ ~kern.fd
           \/ kern' = [kern EXCEPT !.file = FALSE, !.fd = FALSE, !.work = "idle"]
    BY <1>9 DEF CloseFile, Goto, Release
  <2>2. /\ api'.lock = NoOne /\ api'.drv = "none" /\ api'.refs = api.refs
        /\ api' \in [lock : Clients \cup {NoOne}, refs : Nat, drv : {"none", "there"},
                     opens : Nat]
    BY <1>0, <2>1 DEF TypeOK
  <2>3. ApiOK' /\ ~Up'
    BY <1>0, <1>1, <2>1, <2>2, LetsGo
  <2>4. /\ at' \in [Clients -> {"out", "closed"} \cup Using \cup Opening \cup Closing]
        /\ ~Stage({"drain"})' /\ ~Stage({"join engine"})'
        /\ ~Stage({"drain", "join engine"})' /\ ~Stage({"close file"})'
    BY <1>0, <1>1, <2>1, HolderMoves
  <2>5. /\ kern' \in KernType /\ ~kern'.fd /\ kern'.mapped = kern.mapped
        /\ (kern'.work # "idle" => kern.work # "idle" /\ ~kern.fd)
        /\ (kern'.file => kern.file /\ ~kern.fd)
    BY <1>0, <2>1 DEF KernType
  <2>6. StageOK'
    BY <1>2, <1>3, <2>1, <2>3, <2>4 DEF LifecycleInv, StageOK
  <2>7. KernOK'
    BY <1>3, <2>1, <2>4, <2>5 DEF LifecycleInv, KernOK
  <2>8. TypeOK'
    BY <1>0, <2>1, <2>2, <2>4, <2>5 DEF TypeOK
  <2> QED BY <2>1, <2>3, <2>6, <2>7, <2>8 DEF LifecycleInv, FaultOK, Served, DrainedBeforeOff
<1> QED BY <1>5, <1>6, <1>7, <1>8, <1>9

\* Nothing is there at first.
LEMMA InitLifecycle == ASSUME Init PROVE LifecycleInv
<1> USE DEF Init, NewDevice, NewUvm, NewHost
<1>1. TypeOK
  BY DEF TypeOK, KernType, DevType, UvmType, HostType
<1>2. ApiOK /\ Users = {} /\ ~Up
  <2>1. Users = {}
    BY DEF Users, Using
  <2> QED BY <2>1, FS_EmptySet, LifecycleAssumption DEF ApiOK, Up, Opening, Closing
<1>3. /\ ~Stage({"drain"}) /\ ~Stage({"join engine"}) /\ ~Stage({"drain", "join engine"})
      /\ ~Stage({"close file"})
  BY DEF Stage
<1>4. StageOK
  BY <1>2, <1>3 DEF StageOK
<1>5. FaultOK /\ DrainedBeforeOff
  BY DEF FaultOK, Served, DrainedBeforeOff
<1>6. KernOK
  BY DEF KernOK
<1> QED BY <1>1, <1>2, <1>4, <1>5, <1>6 DEF LifecycleInv

----------------------------------------------------------------------------
(* Lifecycle: the theorems                                                 *)

\* The invariant of opening, using and closing the driver, for every number
\* of clients, of opens and of commands.
THEOREM LifecycleInvariant == Spec => []LifecycleInv
<1>1. Init => LifecycleInv
  BY InitLifecycle
<1>2. LifecycleInv /\ [Next]_vars => LifecycleInv'
  <2> SUFFICES ASSUME LifecycleInv, [Next]_vars PROVE LifecycleInv'
    OBVIOUS
  <2>1. ASSUME NEW c \in Clients, Open(c) \/ Enter(c) \/ Close(c) \/ Finish(c)
        PROVE  LifecycleInv'
    BY <2>1, OpenInv, UsingInv, OpeningInv, CloseInv, ClosingInv DEF Finish
  <2>2. CASE HostTouch \/ HostThread \/ Worker
    BY <2>2, HostInv
  <2>3. CASE Engine
    BY <2>3, EngineInv
  <2>4. CASE Uvm \/ UvmTimeout
    BY <2>4, UvmInv
  <2>5. CASE UNCHANGED vars
    <3>1. ApiOK' /\ (Up' <=> Up) /\ \A S : Stage(S)' <=> Stage(S)
      BY <2>5 DEF vars, LifecycleInv, ApiOK, Users, Up, Stage
    <3>2. TypeOK' /\ FaultOK' /\ DrainedBeforeOff'
      BY <2>5 DEF vars, LifecycleInv, TypeOK, FaultOK, Served, DrainedBeforeOff
    <3>3. StageOK' /\ KernOK'
      BY <2>5, <3>1 DEF vars, LifecycleInv, StageOK, KernOK
    <3> QED BY <3>1, <3>2, <3>3 DEF LifecycleInv
  <2> QED BY <2>1, <2>2, <2>3, <2>4, <2>5 DEF Next
<1> QED BY <1>1, <1>2, PTL DEF Spec

\* No client, no thread of the driver and no work item of the kernel uses
\* what sg_drv_close has taken down.
THEOREM NothingAfterTeardown == Spec => []NoUseAfterTeardown
<1>1. LifecycleInv => NoUseAfterTeardown
  <2> SUFFICES ASSUME LifecycleInv PROVE NoUseAfterTeardown
    OBVIOUS
  <2>0. TypeOK /\ ApiOK
    BY DEF LifecycleInv
  <2>1. ASSUME NEW c \in Clients, at[c] \in {"call", "wait"} PROVE api.drv = "there"
    <3>1. c \in Users
      BY <2>1 DEF Users, Using
    <3> QED BY <2>0, <3>1, RefsCounted DEF ApiOK
  <2>2. ASSUME NEW c \in Clients, at[c] \in Opening \cup Closing PROVE api.drv = "there"
    BY <2>0, <2>2, HolderAlone
  <2>3. dev.at # "off" \/ uvm.at # "off" \/ host.at # "off" => api.drv = "there"
    BY <2>2 DEF LifecycleInv, StageOK, Up, Stage, Opening, Closing
  <2>4. dev.at # "off" => ~Stage({"close file"})
    <3>1. ASSUME Up PROVE \A d \in Clients : at[d] # "close file"
      BY <2>0, <3>1, NobodyHolds DEF Up, Closing
    <3>2. ASSUME NEW c \in Clients, at[c] \in {"drain", "join engine"}
          PROVE  \A d \in Clients : at[d] # "close file"
      BY <2>0, <3>2, HolderAlone DEF Opening, Closing
    <3> QED BY <3>1, <3>2 DEF LifecycleInv, StageOK, Stage
  <2> QED BY <2>1, <2>3, <2>4 DEF LifecycleInv, KernOK, NoUseAfterTeardown
<1> QED BY <1>1, LifecycleInvariant, PTL

\* The engine's thread ends with an empty ring and no fault on its way.
THEOREM StopsDrained == Spec => []DrainedBeforeOff
<1>1. LifecycleInv => DrainedBeforeOff
  BY DEF LifecycleInv
<1> QED BY <1>1, LifecycleInvariant, PTL

----------------------------------------------------------------------------
(* The layout of the mapping                                               *)

\* Rows of n: the next row, or a later one, begins behind this one.
LEMMA NextRow ==
  ASSUME NEW a \in Nat, NEW b \in Nat, NEW n \in Nat, a < b
  PROVE  a * n \in Nat /\ a * n + n <= b * n
<1>1. PICK d \in Nat : b = a + 1 + d
  <2>1. b - a - 1 \in Nat /\ b = a + 1 + (b - a - 1)
    OBVIOUS
  <2> QED BY <2>1
<1>2. b * n = a * n + n + d * n
  BY <1>1
<1>3. a * n \in Nat /\ b * n \in Nat /\ d * n \in Nat
  OBVIOUS
<1> QED BY <1>2, <1>3

\* A ring's bytes are whole pages, and enough of them.
LEMMA RingPages ==
  ASSUME NEW d \in Nat
  PROVE  \E k \in Nat : RingBytes(d) = k * 4096 /\ d * CmdBytes <= RingBytes(d)
<1>1. PICK x \in Nat : x = d * 64
  OBVIOUS
<1>2. PICK k \in Nat : k = (x + 4095) \div 4096
  OBVIOUS
<1>3. x <= k * 4096
  BY <1>2
<1>4. x + 4096 - 1 = x + 4095
  OBVIOUS
<1>5. RingBytes(d) = k * 4096 /\ d * CmdBytes = x
  BY <1>1, <1>2, <1>4 DEF RingBytes, CmdBytes, Page
<1> QED BY <1>3, <1>5

\* Counting engine by engine and channel by channel numbers the rings
\* without a repetition, and within the number of them.
LEMMA RingNumber ==
  ASSUME NEW E \in Nat, NEW C \in Nat,
         NEW e \in 0 .. E - 1, NEW c \in 0 .. C - 1
  PROVE  /\ e * C + c \in Nat /\ e * C + c < E * C
         /\ \A f \in 0 .. E - 1, d \in 0 .. C - 1 :
              <<e, c>> # <<f, d>> => e * C + c # f * C + d
<1>1. e * C \in Nat /\ e * C + C <= E * C /\ E * C \in Nat
  BY NextRow
<1>2. ASSUME NEW f \in 0 .. E - 1, NEW d \in 0 .. C - 1, <<e, c>> # <<f, d>>
      PROVE  e * C + c # f * C + d
  <2>0. f * C \in Nat
    OBVIOUS
  <2>1. CASE e < f
    <3>1. e * C + C <= f * C
      BY <2>1, NextRow
    <3> QED BY <1>1, <2>0, <3>1
  <2>2. CASE f < e
    <3>1. f * C + C <= e * C
      BY <2>2, NextRow
    <3> QED BY <1>1, <2>0, <3>1
  <2>3. CASE e = f
    <3>1. c # d /\ e * C = f * C
      BY <1>2, <2>3
    <3> QED BY <1>1, <2>0, <3>1
  <2> QED BY <2>1, <2>2, <2>3
<1> QED BY <1>1, <1>2

\* Whatever numbers of engines, channels and slots sg_do_map accepts, a
\* mapping that the driver has holds every ring, on pages of its own, and
\* no two rings share a byte (sg_kmod_ring_off, sg_kmod_map_bytes).
THEOREM RingsDisjoint == Spec => []RingsApart
<1>1. LifecycleInv => RingsApart
  <2> SUFFICES ASSUME LifecycleInv, kern.mapped > 0 PROVE RingsApart
    BY DEF RingsApart
  <2>1. /\ kern.mapped = MapBytes(NumEngines, NumChannels, Depth)
        /\ NumEngines \in Nat /\ NumChannels \in Nat /\ Depth \in Nat
    BY LifecycleAssumption DEF LifecycleInv, KernOK
  <2>2. PICK k \in Nat :
          RingBytes(Depth) = k * 4096 /\ Depth * CmdBytes <= RingBytes(Depth)
    BY <2>1, RingPages
  <2>3. PICK r \in Nat, b \in Nat :
          r = RingBytes(Depth) /\ r = k * 4096 /\ b = Depth * CmdBytes /\ b <= r
    <3>1. k * 4096 \in Nat /\ Depth * CmdBytes \in Nat
      BY <2>1 DEF CmdBytes
    <3> QED BY <2>2, <3>1
  <2>4. PICK N \in Nat : N = NumEngines * NumChannels /\ kern.mapped = 4096 + N * r
    <3>1. NumEngines * NumChannels \in Nat
      BY <2>1
    <3> QED BY <2>1, <2>3, <3>1 DEF MapBytes, Page
  <2> DEFINE Places == (0 .. NumEngines - 1) \X (0 .. NumChannels - 1)
             Num(p) == p[1] * NumChannels + p[2]
             Off(e, c) == RingOff(e, c, NumChannels, Depth)
  <2>5. ASSUME NEW p \in Places
        PROVE  /\ Num(p) \in Nat /\ Num(p) < N
               /\ Off(p[1], p[2]) = 4096 + Num(p) * r
    BY <2>1, <2>3, <2>4, RingNumber DEF RingOff, Page
  <2>6. ASSUME NEW p \in Places, NEW q \in Places \ {p}
        PROVE  Num(p) # Num(q)
    <3>1. /\ p[1] \in 0 .. NumEngines - 1 /\ p[2] \in 0 .. NumChannels - 1
          /\ q[1] \in 0 .. NumEngines - 1 /\ q[2] \in 0 .. NumChannels - 1
          /\ <<p[1], p[2]>> # <<q[1], q[2]>>
      OBVIOUS
    <3> QED BY <2>1, <3>1, RingNumber
  <2> HIDE DEF Num, Off, Places
  <2>7. ASSUME NEW p \in Places
        PROVE  /\ Off(p[1], p[2]) >= Page /\ Off(p[1], p[2]) % Page = 0
               /\ Off(p[1], p[2]) + Depth * CmdBytes <= kern.mapped
    <3>1. PICK n \in Nat : n = Num(p) /\ n < N /\ Off(p[1], p[2]) = 4096 + n * r
      BY <2>5
    <3>2. n * r \in Nat /\ n * r + r <= N * r
      BY <3>1, NextRow
    <3>3. PICK m \in Nat : m = n * k
      OBVIOUS
    <3>4. n * r = m * 4096
      BY <2>3, <3>3
    <3>5. (4096 + m * 4096) % 4096 = 0
      BY Z3
    <3> QED BY <2>3, <2>4, <3>1, <3>2, <3>4, <3>5 DEF Page
  <2>8. ASSUME NEW p \in Places, NEW q \in Places, Num(p) < Num(q)
        PROVE  Off(p[1], p[2]) + Depth * CmdBytes <= Off(q[1], q[2])
    <3>1. PICK n \in Nat, o \in Nat :
            /\ n = Num(p) /\ Off(p[1], p[2]) = 4096 + n * r
            /\ o = Num(q) /\ Off(q[1], q[2]) = 4096 + o * r /\ n < o
      BY <2>5, <2>8
    <3>2. n * r \in Nat /\ n * r + r <= o * r /\ o * r \in Nat
      BY <3>1, NextRow
    <3> QED BY <2>3, <3>1, <3>2
  <2>9. ASSUME NEW p \in Places, NEW q \in Places \ {p}
        PROVE  \/ Off(p[1], p[2]) + Depth * CmdBytes <= Off(q[1], q[2])
               \/ Off(q[1], q[2]) + Depth * CmdBytes <= Off(p[1], p[2])
    <3>1. Num(p) \in Nat /\ Num(q) \in Nat /\ Num(p) # Num(q)
      BY <2>5, <2>6
    <3>2. Num(p) < Num(q) \/ Num(q) < Num(p)
      BY <3>1
    <3> QED BY <2>8, <3>2
  <2> QED BY <2>7, <2>9 DEF RingsApart, Places, Off
<1> QED BY <1>1, LifecycleInvariant, PTL

----------------------------------------------------------------------------
(* HostWait: the inductive invariant                                       *)

EnginePC == {"run", "fence", "load", "clear", "raise"}
WaiterPC == {"idle", "spin", "again", "arm", "check", "waiting", "woken"}

WaitTypeOK ==
  /\ kmod \in BOOLEAN /\ put \in [Channels -> Nat]
  /\ get \in [Channels -> Nat] /\ cursor \in [Channels -> Nat]
  /\ irqTarget \in [Channels -> Nat]
  /\ sticky \in [Channels -> BOOLEAN]
  /\ epc \in [Channels -> EnginePC]
  /\ want \in [Waiters -> [Channels -> Nat]]
  /\ wpc \in [Waiters -> WaiterPC]
  /\ todo \in [Waiters -> SUBSET Channels]
  /\ moved \in [Waiters -> BOOLEAN]
  /\ work \in {"none", "pending", "running", "both"}

\* The engine's store of GET is behind only between the retirement and its
\* fence, or after a failed migration, and an engine about to clear the
\* target found one armed at or below its cursor.
EngineOK ==
  \A c \in Channels :
    /\ get[c] <= cursor[c]
    /\ epc[c] = "fence" \/ sticky[c] \/ get[c] = cursor[c]
    /\ epc[c] = "clear" => irqTarget[c] \in 1 .. cursor[c]

\* The loops of a waiter go over channels it waits for.
TodoOK ==
  \A w \in Waiters : wpc[w] \in {"arm", "check"} => todo[w] \subseteq Awaited(w)

\* An interrupt that will reach everyone: raised, or in the work queue.
Coming(c) == work # "none" \/ epc[c] = "raise"

Armed(w, c) == irqTarget[c] \in 1 .. want[w][c]

\* The channels that w has been through in the arming loop of this turn.
ArmedSoFar(w) == CASE wpc[w] = "arm" -> Awaited(w) \ todo[w]
                   [] wpc[w] \in {"check", "waiting"} -> Awaited(w)
                   [] OTHER -> {}

\* Until the seq moves, a channel that w has armed stays armed at or below
\* its fence, unless the fence is passed or an interrupt is on its way.
ArmedOK ==
  \A w \in Waiters : ~moved[w] =>
    \A c \in ArmedSoFar(w) :
      Armed(w, c) \/ get[c] >= want[w][c] \/ Coming(c)

\* A sleeper has a channel that is still armed and whose engine has yet to
\* pass the fence or to look at the target after it did.
Expected(w, c) ==
  \/ Coming(c)
  \/ /\ Armed(w, c)
     /\ \/ cursor[c] < want[w][c] \/ sticky[c]
        \/ epc[c] \in {"fence", "load", "clear"}

SleepersOK ==
  \A w \in Waiters : Dormant(w) => \E c \in Awaited(w) : Expected(w, c)

WaitInv == WaitTypeOK /\ EngineOK /\ TodoOK /\ ArmedOK /\ SleepersOK

----------------------------------------------------------------------------
(* WaitInv is inductive                                                    *)

\* Nobody waits in the initial states.
LEMMA WaitInitInv == WaitInit => WaitInv
BY WaitAssumption
   DEF WaitInit, WaitInv, WaitTypeOK, EngineOK, TodoOK, ArmedOK, SleepersOK, EnginePC,
       WaiterPC, ArmedSoFar, Awaited, Dormant

\* An engine's step keeps the invariant.
LEMMA RetireInv ==
  ASSUME WaitInv, NEW e \in Channels, EngineOf(e) \/ Drain(e)
  PROVE  WaitInv'
<1> USE DEF WaitInv, WaitTypeOK, EnginePC, WaiterPC, EGoto, Publish, engineVars,
            waiterVars
<1>1. CASE RetireCmd(e) \/ FailRetire(e) \/ Fence(e) \/ LoadTarget(e) \/ Drain(e)
  <2> USE DEF RetireCmd, FailRetire, Fence, LoadTarget, Drain
  <2>1. WaitTypeOK'
    <3>1. CASE RetireCmd(e)
      BY <3>1
    <3>2. CASE FailRetire(e)
      BY <3>2
    <3>3. CASE Fence(e)
      BY <3>3
    <3>4. CASE LoadTarget(e)
      BY <3>4
    <3>5. CASE Drain(e)
      BY <3>5
    <3> QED BY <1>1, <3>1, <3>2, <3>3, <3>4, <3>5
  <2>2. EngineOK'
    BY <1>1 DEF EngineOK
  <2>3. TodoOK'
    BY <1>1 DEF TodoOK, Awaited
  <2>4. UNCHANGED <<irqTarget, want, wpc, todo, moved, work>>
    BY <1>1
  <2>5. \A c \in Channels : get[c] <= get'[c] /\ (Coming(c) => Coming(c)')
    BY <1>1 DEF EngineOK, Coming
  <2>6. ArmedOK'
    <3> SUFFICES ASSUME NEW w \in Waiters, ~moved[w], NEW c \in ArmedSoFar(w)
                 PROVE  (Armed(w, c) \/ get[c] >= want[w][c] \/ Coming(c))'
      BY <2>4 DEF ArmedOK, ArmedSoFar, Awaited
    <3>1. c \in Channels
      BY DEF ArmedSoFar, Awaited
    <3>2. Armed(w, c) \/ get[c] >= want[w][c] \/ Coming(c)
      BY DEF ArmedOK
    <3>3. get[c] \in Nat /\ get'[c] \in Nat /\ want[w][c] \in Nat
      BY <3>1, <2>1
    <3> QED BY <3>1, <3>2, <3>3, <2>4, <2>5 DEF Armed
  <2>7. SleepersOK'
    <3> SUFFICES ASSUME NEW w \in Waiters, Dormant(w),
                        NEW c \in Awaited(w), Expected(w, c)
                 PROVE  Expected(w, c)'
      BY <2>4 DEF SleepersOK, Dormant, Awaited
    <3>1. c \in Channels
      BY DEF Awaited
    <3>2. CASE Coming(c)
      BY <3>1, <3>2, <2>5 DEF Expected
    <3>3. CASE ~Coming(c) /\ c = e
      BY <1>1, <3>1, <3>3, <2>4 DEF Expected, Armed, Coming
    <3>4. CASE ~Coming(c) /\ c # e
      BY <1>1, <3>1, <3>4, <2>4 DEF Expected, Armed, Coming
    <3> QED BY <3>2, <3>3, <3>4
  <2> QED BY <2>1, <2>2, <2>3, <2>6, <2>7
<1>2. CASE ClearTarget(e)
  <2> USE <1>2 DEF ClearTarget
  <2>1. WaitTypeOK'
    OBVIOUS
  <2>2. EngineOK' /\ TodoOK'
    BY DEF EngineOK, TodoOK, Awaited
  <2>3. ArmedOK'
    BY DEF ArmedOK, ArmedSoFar, Awaited, Armed, Coming
  <2>4. SleepersOK'
    BY DEF SleepersOK, Dormant, Awaited, Expected, Armed, Coming
  <2> QED BY <2>1, <2>2, <2>3, <2>4
<1>3. CASE RaiseHostIrq(e)
  <2> USE <1>3 DEF RaiseHostIrq, QueueWork
  <2>1. WaitTypeOK'
    OBVIOUS
  <2>2. EngineOK' /\ TodoOK'
    BY DEF EngineOK, TodoOK, Awaited
  <2>3. work' # "none" \/ \A w \in Waiters : moved'[w]
    OBVIOUS
  <2>4. ArmedOK' /\ SleepersOK'
    <3>1. CASE work' # "none"
      <4>1. \A c \in Channels : Coming(c)'
        BY <3>1 DEF Coming
      <4>2. ArmedOK'
        BY <4>1 DEF ArmedOK, ArmedSoFar, Awaited
      <4>3. \A w \in Waiters : Dormant(w)' => Dormant(w)
        BY DEF Dormant
      <4>4. SleepersOK'
        BY <4>1, <4>3 DEF SleepersOK, Awaited, Expected
      <4> QED BY <4>2, <4>4
    <3>2. CASE \A w \in Waiters : moved'[w]
      BY <3>2 DEF ArmedOK, SleepersOK, Dormant
    <3> QED BY <2>3, <3>1, <3>2
  <2> QED BY <2>1, <2>2, <2>4
<1> QED BY <1>1, <1>2, <1>3 DEF EngineOf

\* So does a step of the char device's work item.
LEMMA WorkInv ==
  ASSUME WaitInv, StartWork \/ IrqWork
  PROVE  WaitInv'
<1> USE DEF WaitInv, WaitTypeOK, EnginePC, WaiterPC, engineVars, waiterVars
<1>1. CASE StartWork
  BY <1>1 DEF StartWork, EngineOK, TodoOK, Awaited, ArmedOK, ArmedSoFar, Armed,
              Coming, SleepersOK, Dormant, Expected
<1>2. CASE IrqWork
  BY <1>2 DEF IrqWork, EngineOK, TodoOK, Awaited, ArmedOK, SleepersOK, Dormant
<1> QED BY <1>1, <1>2

\* A waiter's step that leaves the targets alone has to keep only its own
\* clauses of the invariant.
LEMMA OwnClauses ==
  ASSUME WaitInv, NEW v \in Waiters, UNCHANGED <<engineVars, irqTarget, work>>,
         \A w \in Waiters \ {v} :
           UNCHANGED <<want[w], wpc[w], todo[w], moved[w]>>,
         WaitTypeOK',
         wpc'[v] \in {"arm", "check"} => todo'[v] \subseteq Awaited(v)',
         ~moved'[v] => \A c \in ArmedSoFar(v)' :
                         (Armed(v, c) \/ get[c] >= want[v][c] \/ Coming(c))',
         Dormant(v)' => \E c \in Awaited(v)' : Expected(v, c)'
  PROVE  WaitInv'
<1> USE DEF engineVars
<1>1. EngineOK'
  BY DEF WaitInv, EngineOK
<1>2. ASSUME NEW w \in Waiters \ {v}
      PROVE  /\ Awaited(w)' = Awaited(w) /\ ArmedSoFar(w)' = ArmedSoFar(w)
             /\ Dormant(w)' = Dormant(w)
             /\ \A c \in Channels :
                  /\ Armed(w, c)' = Armed(w, c)
                  /\ Coming(c)' = Coming(c)
                  /\ Expected(w, c)' = Expected(w, c)
  BY <1>2 DEF Awaited, ArmedSoFar, Dormant, Armed, Coming, Expected
<1>3. \A w \in Waiters : ArmedSoFar(w) \subseteq Channels /\ Awaited(w) \subseteq Channels
  BY DEF ArmedSoFar, Awaited
<1>4. TodoOK'
  BY <1>2 DEF WaitInv, TodoOK
<1>5. ArmedOK'
  <2> SUFFICES ASSUME NEW w \in Waiters \ {v}, ~moved'[w],
                      NEW c \in ArmedSoFar(w)'
               PROVE  (Armed(w, c) \/ get[c] >= want[w][c] \/ Coming(c))'
    BY DEF ArmedOK
  <2> QED BY <1>2, <1>3 DEF WaitInv, ArmedOK
<1>6. SleepersOK'
  <2> SUFFICES ASSUME NEW w \in Waiters \ {v}, Dormant(w)'
               PROVE  \E c \in Awaited(w)' : Expected(w, c)'
    BY DEF SleepersOK
  <2> QED BY <1>2, <1>3 DEF WaitInv, SleepersOK
<1> QED BY <1>1, <1>4, <1>5, <1>6 DEF WaitInv

\* A waiter's step keeps the invariant.
LEMMA WaiterInv ==
  ASSUME WaitInv, NEW v \in Waiters,
         (\E f \in Snapshots : StartWait(v, f)) \/ Waiter(v) \/ Timeout(v)
  PROVE  WaitInv'
<1> USE DEF WGoto
<1> WaitTypeOK
  BY DEF WaitInv
<1> USE DEF WaitTypeOK, EnginePC, WaiterPC, engineVars
<1>v. Awaited(v) \subseteq Channels /\ (Awaited(v)' \subseteq Channels)
  BY DEF Awaited
\* Steps after which v is neither arming, checking nor asleep.
<1>1. ASSUME UNCHANGED <<engineVars, irqTarget, work>>, WaitTypeOK',
             \A w \in Waiters \ {v} :
               UNCHANGED <<want[w], wpc[w], todo[w], moved[w]>>,
             wpc'[v] \notin {"arm", "check", "waiting"}
      PROVE  WaitInv'
  <2>1. ArmedSoFar(v)' = {} /\ ~Dormant(v)'
    BY <1>1 DEF ArmedSoFar, Dormant
  <2> QED BY <1>1, <2>1, OwnClauses
<1>2. ASSUME NEW f \in Snapshots, StartWait(v, f) PROVE WaitInv'
  <2>1. f \in [Channels -> Nat]
    BY DEF Snapshots
  <2>2. WaitTypeOK'
    BY <1>2, <2>1 DEF StartWait
  <2> QED BY <1>1, <1>2, <2>2 DEF StartWait
<1>3. CASE Spun(v)
  <2>1. WaitTypeOK'
    BY <1>3 DEF Spun, Return
  <2> QED BY <1>1, <1>3, <2>1 DEF Spun, Return
<1>4. CASE SpinOut(v) \/ Wake(v) \/ Timeout(v)
  <2>1. \E to \in {"again", "woken"} : wpc' = [wpc EXCEPT ![v] = to]
    BY <1>4 DEF SpinOut, Wake, Timeout
  <2>2. UNCHANGED <<engineVars, want, todo, irqTarget, moved, work, kmod, put>>
    BY <1>4 DEF SpinOut, Wake, Timeout
  <2>3. WaitTypeOK'
    BY <2>1, <2>2
  <2> QED BY <1>1, <2>1, <2>2, <2>3
<1>5. CASE Woken(v)
  <2>1. WaitTypeOK'
    <3>1. CASE Passed(v)
      <4>1. Return(v, "woken") /\ UNCHANGED <<engineVars, irqTarget, moved, work>>
        BY <1>5, <3>1 DEF Woken
      <4> QED BY <4>1 DEF Return
    <3>2. CASE ~Passed(v)
      BY <1>5, <3>2 DEF Woken
    <3> QED BY <3>1, <3>2
  <2> QED BY <1>1, <1>5, <2>1 DEF Woken, Return
<1>6. CASE Sample(v)
  <2>1. WaitTypeOK'
    BY <1>6, <1>v DEF Sample
  <2>2. Awaited(v)' = Awaited(v) /\ todo'[v] = Awaited(v)'
    BY <1>6 DEF Sample, Awaited
  <2>3. ArmedSoFar(v)' = {} /\ ~Dormant(v)'
    BY <1>6, <2>2 DEF Sample, ArmedSoFar, Dormant
  <2>4. UNCHANGED <<engineVars, irqTarget, work>>
        /\ \A w \in Waiters \ {v} :
             UNCHANGED <<want[w], wpc[w], todo[w], moved[w]>>
    BY <1>6 DEF Sample
  <2> QED BY <2>1, <2>2, <2>3, <2>4, OwnClauses
<1>7. ASSUME NEW d \in Channels, Arm(v, d) PROVE WaitInv'
  <2> USE <1>7 DEF Arm, Upcoming, KeepLowest
  <2>1. d \in Awaited(v) /\ want[v][d] \in Nat \ {0}
    BY DEF WaitInv, TodoOK, Awaited
  <2>2. WaitTypeOK'
    BY <1>v, <2>1
  <2>3. \A c \in Channels : irqTarget[c] # 0 =>
                              irqTarget'[c] # 0 /\ irqTarget'[c] <= irqTarget[c]
    BY <2>1
  <2>4. EngineOK'
    BY <2>2, <2>3 DEF WaitInv, EngineOK
  <2>5. UNCHANGED <<want, moved, work>> /\ UNCHANGED engineVars
    OBVIOUS
  <2>6. \A w \in Waiters : Awaited(w)' = Awaited(w) /\ Awaited(w) \subseteq Channels
    BY <2>5 DEF Awaited
  <2>7. TodoOK'
    BY <2>6 DEF WaitInv, TodoOK
  <2>8. \A w \in Waiters, c \in Channels :
          /\ Armed(w, c) => Armed(w, c)'
          /\ Coming(c) => Coming(c)'
          /\ Expected(w, c) => Expected(w, c)'
    BY <2>2, <2>3, <2>5 DEF Armed, Coming, Expected
  <2>9. ArmedOK'
    <3> SUFFICES ASSUME NEW w \in Waiters, ~moved[w], NEW c \in ArmedSoFar(w)'
                 PROVE  (Armed(w, c) \/ get[c] >= want[w][c] \/ Coming(c))'
      BY <2>5 DEF ArmedOK
    <3>1. c \in Channels
      BY <2>6 DEF ArmedSoFar
    <3>2. CASE c \in ArmedSoFar(w)
      BY <2>5, <2>8, <3>1, <3>2 DEF WaitInv, ArmedOK
    <3>3. CASE c \notin ArmedSoFar(w)
      <4>1. w = v /\ c = d
        BY <2>6, <3>1, <3>3 DEF ArmedSoFar, WaitInv, TodoOK
      <4>2. Armed(v, d)' \/ get'[d] >= want'[v][d]
        BY <2>1, <2>2 DEF Armed
      <4> QED BY <4>1, <4>2
    <3> QED BY <3>2, <3>3
  <2>10. SleepersOK'
    BY <2>5, <2>6, <2>8 DEF WaitInv, SleepersOK, Dormant
  <2> QED BY <2>2, <2>4, <2>7, <2>9, <2>10 DEF WaitInv
<1>8. ASSUME NEW d \in Channels, Check(v, d) PROVE WaitInv'
  <2> USE <1>8 DEF Check, Upcoming
  <2>1. d \in Awaited(v)
    BY DEF WaitInv, TodoOK
  <2>2. WaitTypeOK'
    <3>1. CASE want' = want /\ wpc' = [wpc EXCEPT ![v] = "waiting"]
               /\ todo' = [todo EXCEPT ![v] = {}]
      BY <3>1
    <3>2. CASE want' = want /\ wpc' = wpc /\ todo' = [todo EXCEPT ![v] = @ \ {d}]
      BY <3>2
    <3>3. CASE Return(v, "check")
      BY <3>3 DEF Return
    <3> QED BY <3>1, <3>2, <3>3
  <2>3. UNCHANGED <<engineVars, irqTarget, moved, work>>
        /\ \A w \in Waiters \ {v} :
             UNCHANGED <<want[w], wpc[w], todo[w], moved[w]>>
    BY DEF Return
  <2>4. CASE get[d] < want[v][d] /\ wpc' = [wpc EXCEPT ![v] = "waiting"]
             /\ todo' = [todo EXCEPT ![v] = {}] /\ want' = want
    <3>1. Awaited(v)' = Awaited(v) /\ ArmedSoFar(v)' = ArmedSoFar(v)
      BY <2>4 DEF Awaited, ArmedSoFar
    <3>2. \A c \in Channels : /\ Armed(v, c)' = Armed(v, c)
                              /\ Coming(c)' = Coming(c)
      BY <2>3, <2>4 DEF Armed, Coming
    <3>3. ~moved'[v] => \A c \in ArmedSoFar(v)' :
                          (Armed(v, c) \/ get[c] >= want[v][c] \/ Coming(c))'
      BY <2>3, <2>4, <3>1, <3>2, <1>v DEF WaitInv, ArmedOK, ArmedSoFar
    <3>4. ASSUME ~moved[v] PROVE Expected(v, d)
      <4>1. Armed(v, d) \/ Coming(d)
        BY <2>1, <2>4, <3>4 DEF WaitInv, ArmedOK, ArmedSoFar
      <4>2. cursor[d] < want[v][d] \/ sticky[d] \/ epc[d] = "fence"
        BY <2>4 DEF WaitInv, EngineOK
      <4> QED BY <4>1, <4>2 DEF Expected
    <3>5. Expected(v, d)' = Expected(v, d)
      BY <2>3, <2>4, <3>2 DEF Expected
    <3>6. Dormant(v)' => \E c \in Awaited(v)' : Expected(v, c)'
      BY <2>1, <2>3, <3>1, <3>4, <3>5 DEF Dormant
    <3>7. todo'[v] = {}
      BY <2>4
    <3> QED BY <2>2, <2>3, <3>3, <3>6, <3>7, OwnClauses
  <2>5. CASE /\ todo' = [todo EXCEPT ![v] = @ \ {d}]
             /\ wpc' = wpc /\ want' = want
    <3>1. Awaited(v)' = Awaited(v) /\ ArmedSoFar(v)' = ArmedSoFar(v)
          /\ ~Dormant(v)'
      BY <2>5 DEF Awaited, ArmedSoFar, Dormant
    <3>2. \A c \in Channels : /\ Armed(v, c)' = Armed(v, c)
                              /\ Coming(c)' = Coming(c)
      BY <2>3, <2>5 DEF Armed, Coming
    <3>3. ~moved'[v] => \A c \in ArmedSoFar(v)' :
                          (Armed(v, c) \/ get[c] >= want[v][c] \/ Coming(c))'
      BY <2>3, <2>5, <3>1, <3>2, <1>v DEF WaitInv, ArmedOK, ArmedSoFar
    <3>4. todo'[v] \subseteq Awaited(v)'
      BY <2>5, <3>1 DEF WaitInv, TodoOK
    <3> QED BY <2>2, <2>3, <3>1, <3>3, <3>4, OwnClauses
  <2>6. CASE Return(v, "check")
    BY <1>1, <2>2, <2>3, <2>6 DEF Return
  <2> QED BY <2>4, <2>5, <2>6
<1> QED BY <1>2, <1>3, <1>4, <1>5, <1>6, <1>7, <1>8 DEF Waiter

\* The wait protocol keeps its inductive invariant for any waiters, channels
\* and commands.
THEOREM WaitInvariant == WaitSpec => []WaitInv
<1>1. WaitInv /\ [WaitNext]_waitVars => WaitInv'
  <2> SUFFICES ASSUME WaitInv, [WaitNext]_waitVars PROVE WaitInv'
    OBVIOUS
  <2>1. CASE WaitNext
    BY <2>1, RetireInv, WorkInv, WaiterInv DEF WaitNext
  <2>2. CASE UNCHANGED waitVars
    BY <2>2 DEF waitVars, engineVars, waiterVars, WaitInv, WaitTypeOK, EngineOK, TodoOK,
         Awaited, ArmedOK, ArmedSoFar, Armed, Coming, SleepersOK, Dormant,
         Expected
  <2> QED BY <2>1, <2>2
<1> QED BY WaitInitInv, <1>1, PTL DEF WaitSpec

----------------------------------------------------------------------------
(* HostWait: the theorems                                                  *)

\* wait_until's arm-then-check order loses no interrupt: when everything a
\* sleeping waiter waits for has retired, a signal is on its way to it.
THEOREM NoInterruptLost == WaitSpec => []InterruptNotLost
<1>1. WaitInv => InterruptNotLost
  <2> SUFFICES ASSUME WaitInv, NEW w \in Waiters, Dormant(w),
                      \A c \in Awaited(w) : cursor[c] >= want[w][c] /\ ~sticky[c]
               PROVE  work # "none" \/ \E c \in Channels : Signalling(c)
    BY DEF InterruptNotLost, Satisfied
  <2>1. PICK c \in Awaited(w) : Expected(w, c)
    BY DEF WaitInv, SleepersOK
  <2>2. c \in Channels /\ cursor[c] \in Nat /\ want[w][c] \in Nat
        /\ irqTarget[c] \in Nat
    BY DEF Awaited, WaitInv, WaitTypeOK
  <2>3. CASE Coming(c)
    BY <2>2, <2>3 DEF Coming, Signalling
  <2>4. CASE Armed(w, c) /\ epc[c] \in {"fence", "load", "clear"}
    BY <2>2, <2>4 DEF Armed, Signalling
  <2> QED BY <2>1, <2>2, <2>3, <2>4 DEF Expected
<1> QED BY <1>1, WaitInvariant, PTL

\* arm_irq keeps the lowest armed value: a sleeper short of a fence always has
\* an interrupt armed at or below it, or one being delivered.
THEOREM ArmedFenceKept == WaitSpec => []FenceStaysArmed
<1>1. WaitInv => FenceStaysArmed
  <2> SUFFICES ASSUME WaitInv, NEW w \in Waiters, Dormant(w)
               PROVE  \/ work # "none"
                      \/ \E c \in Awaited(w) :
                           irqTarget[c] \in 1 .. want[w][c] \/ Signalling(c)
                      \/ \E c \in Channels : epc[c] = "raise"
    BY DEF FenceStaysArmed
  <2>1. PICK c \in Awaited(w) : Expected(w, c)
    BY DEF WaitInv, SleepersOK
  <2> QED BY <2>1 DEF Expected, Coming, Armed, Awaited
<1> QED BY <1>1, WaitInvariant, PTL
=============================================================================

---------------------------- MODULE CommandRing ----------------------------
(***************************************************************************)
(* One channel: the producers that append commands to its ring             *)
(* (driver.cpp, do_submit and enqueue), the engine thread that consumes    *)
(* them (device.cpp, Device::run, for a single channel), and the UVM       *)
(* thread that resolves the page faults its commands take                  *)
(* (driver.cpp, service_faults).                                           *)
(*                                                                         *)
(* Each atomic access to a register is one step, so the model has every    *)
(* interleaving of the three kinds of threads.  All the cross-thread       *)
(* orderings used here are release/acquire pairs (a flag published after   *)
(* the data it guards), which sequentially consistent steps capture.       *)
(*                                                                         *)
(* Facets kept in modules of their own: power gating and doorbells         *)
(* (IdleGating), interrupts and blocking waits (HostWait).  Here a         *)
(* doorbell is always noticed, and a wait ends when its condition holds.   *)
(***************************************************************************)
EXTENDS Integers

CONSTANTS Producers,   \* threads that submit to the channel
          Depth,       \* Driver::depth
          MaxCmds,     \* bound: commands submitted in a behaviour
          MaxFaults    \* bound: page faults in a behaviour

ASSUME DepthAssumption == Depth \in Nat \ {0}
ASSUME BoundAssumption == MaxCmds \in Nat /\ MaxFaults \in Nat

\* Commands are numbered in the order in which submitters build them; a
\* command's number stands for its contents.
Cmd == 0 .. MaxCmds - 1
NoCmd == -1     \* a slot never written, or no command
Torn == -2      \* a slot in the middle of the 64-byte struct copy
Failed == -3    \* the outcome of a command retired because a migration failed
NoLock == "free"

ASSUME LockAssumption == NoLock \notin Producers

VARIABLES
  ticketMode,   \* submit_mode is SG_SUBMIT_TICKET, else SG_SUBMIT_MUTEX
  \* driver side: struct Producer
  lock,         \* Producer::lock, held by a producer in mutex mode
  reserve,      \* Producer::reserve, the next ticket
  mirror,       \* Producer::put, the driver's copy of PUT
  ring,         \* the command slots
  pc, cmd, slot,\* per producer: position in enqueue, command, claimed slot
  begun,        \* commands built so far
  \* device side: struct Channel
  put, get, sticky, parked, faultFail,
  epc, seen, running, \* the engine thread: position, its copy of PUT, the
                      \* command it fetched
  \* the UVM thread
  faults,       \* entries of Device::faults_ for this channel
  hpc,          \* position in service_faults
  absent,       \* the page the head command faulted on is still in host memory
  nfaults,      \* page faults so far, retries of the same page not counted
  \* history
  order,        \* order[i]: the command that claimed slot number i
  submit,       \* submit[c]: the first command of the do_submit call of c
  outcome,      \* outcome[i]: what retired as command number i
  faulted       \* the command numbers whose execution took a page fault

producerVars == <<lock, reserve, mirror, ring, pc, cmd, slot, begun>>
engineVars == <<get, epc, seen, running, outcome>>
faultVars == <<faults, hpc, absent, nfaults, faulted>>
vars == <<producerVars, engineVars, faultVars, put, sticky, parked, faultFail,
          order, submit, ticketMode>>

ProducerPC == {"idle", "lock", "claim", "space", "write", "copying", "turn",
               "put", "mirror", "return"}
EnginePC == {"scan", "fail", "head", "fetch", "execute", "push", "boundary"}
Errors == {"none", "EIO", "exec", "migrate"}

----------------------------------------------------------------------------

\* The submit mode is chosen when the driver is opened and then stays.
Init ==
  /\ ticketMode \in BOOLEAN
  /\ lock = NoLock /\ reserve = 0 /\ mirror = 0
  /\ ring = [i \in 0 .. Depth - 1 |-> NoCmd]
  /\ pc = [p \in Producers |-> "idle"]
  /\ cmd = [p \in Producers |-> NoCmd]
  /\ slot = [p \in Producers |-> 0]
  /\ begun = 0
  /\ put = 0 /\ get = 0 /\ sticky = "none" /\ parked = FALSE
  /\ faultFail = FALSE
  /\ epc = "scan" /\ seen = 0 /\ running = NoCmd
  /\ faults = 0 /\ hpc = "idle" /\ absent = FALSE /\ nfaults = 0
  /\ order = [i \in Cmd |-> NoCmd]
  /\ submit = [c \in Cmd |-> NoCmd]
  /\ outcome = [i \in Cmd |-> NoCmd]
  /\ faulted = {}

----------------------------------------------------------------------------
(* Producers                                                               *)

Goto(p, from, to) ==
  pc[p] = from /\ pc' = [pc EXCEPT ![p] = to] /\ UNCHANGED ticketMode

Build(p, first) ==
  /\ begun < MaxCmds
  /\ cmd' = [cmd EXCEPT ![p] = begun]
  /\ submit' = [submit EXCEPT ![begun] = first]
  /\ begun' = begun + 1

\* do_submit: refuse with -EIO once the channel has a sticky error, else
\* build the command and, in mutex mode, go for the channel's lock.
Submit(p) ==
  /\ Goto(p, "idle", IF ticketMode THEN "claim" ELSE "lock")
  /\ sticky = "none"
  /\ Build(p, begun)
  /\ UNCHANGED <<lock, reserve, mirror, ring, slot, engineVars, faultVars, put,
                 sticky, parked, faultFail, order>>

Lock(p) ==
  /\ Goto(p, "lock", "claim")
  /\ lock = NoLock
  /\ lock' = p
  /\ UNCHANGED <<reserve, mirror, ring, cmd, slot, begun, engineVars,
                 faultVars, put, sticky, parked, faultFail, order, submit>>

\* enqueue: the slot is the next ticket (fetch_add), or in mutex mode the
\* driver's copy of PUT.
SlotWithoutTicket == mirror \* mutant: ticket mode reads PUT too
SlotToClaim == IF ticketMode THEN reserve ELSE mirror

Claim(p) ==
  /\ Goto(p, "claim", "space")
  /\ SlotToClaim < MaxCmds
  /\ slot' = [slot EXCEPT ![p] = SlotToClaim]
  /\ reserve' = IF ticketMode THEN reserve + 1 ELSE reserve
  /\ order' = [order EXCEPT ![SlotToClaim] = cmd[p]]
  /\ UNCHANGED <<lock, mirror, ring, cmd, begun, engineVars, faultVars, put,
                 sticky, parked, faultFail, submit>>

\* Backpressure: wait until the slot's previous command has retired.
HasSpaceOffByOne(p) == slot[p] - get <= Depth     \* mutant: one too many
HasSpace(p) == slot[p] - get < Depth

AwaitSpace(p) ==
  /\ Goto(p, "space", "write")
  /\ HasSpace(p)
  /\ UNCHANGED <<lock, reserve, mirror, ring, cmd, slot, begun, engineVars,
                 faultVars, put, sticky, parked, faultFail, order, submit>>

\* The struct copy into the slot is not atomic.
WriteBegin(p) ==
  /\ Goto(p, "write", "copying")
  /\ ring' = [ring EXCEPT ![slot[p] % Depth] = Torn]
  /\ UNCHANGED <<lock, reserve, mirror, cmd, slot, begun, engineVars,
                 faultVars, put, sticky, parked, faultFail, order, submit>>

WriteEnd(p) ==
  /\ Goto(p, "copying", IF ticketMode THEN "turn" ELSE "put")
  /\ ring' = [ring EXCEPT ![slot[p] % Depth] = cmd[p]]
  /\ UNCHANGED <<lock, reserve, mirror, cmd, slot, begun, engineVars,
                 faultVars, put, sticky, parked, faultFail, order, submit>>

\* Mutant (ADR 005): hand the ticket on before the doorbell is written.
HandOnBeforeDoorbell(p) ==
  /\ Goto(p, "turn", "put")
  /\ mirror = slot[p]
  /\ mirror' = slot[p] + 1
  /\ UNCHANGED <<lock, reserve, ring, cmd, slot, begun, engineVars, faultVars,
                 put, sticky, parked, faultFail, order, submit>>

\* Ticket mode: publish in ticket order.
AnyTurn(p) == TRUE \* mutant: do not wait for the earlier tickets
IsTurn(p) == mirror = slot[p]

AwaitTurn(p) ==
  /\ Goto(p, "turn", "put")
  /\ IsTurn(p)
  /\ UNCHANGED <<lock, reserve, mirror, ring, cmd, slot, begun, engineVars,
                 faultVars, put, sticky, parked, faultFail, order, submit>>

\* Doorbell first, then hand the ticket on.
StorePut(p) ==
  /\ Goto(p, "put", "mirror")
  /\ put' = slot[p] + 1
  /\ UNCHANGED <<lock, reserve, mirror, ring, cmd, slot, begun, engineVars,
                 faultVars, sticky, parked, faultFail, order, submit>>

StoreMirror(p) ==
  /\ Goto(p, "mirror", "return")
  /\ mirror' = slot[p] + 1
  /\ UNCHANGED <<lock, reserve, ring, cmd, slot, begun, engineVars, faultVars,
                 put, sticky, parked, faultFail, order, submit>>

\* Mutant: the lock is dropped between two chunks.
NextChunkUnlocked(p) ==
  /\ Goto(p, "return", IF ticketMode THEN "claim" ELSE "lock")
  /\ lock' = NoLock
  /\ Build(p, submit[cmd[p]])
  /\ UNCHANGED <<reserve, mirror, ring, slot, engineVars, faultVars, put,
                 sticky, parked, faultFail, order>>

\* enqueue has returned slot + 1.  A chunked copy enqueues its next chunk
\* within the same do_submit, still under the lock...
NextChunk(p) ==
  /\ Goto(p, "return", "claim")
  /\ Build(p, submit[cmd[p]])
  /\ UNCHANGED <<lock, reserve, mirror, ring, slot, engineVars, faultVars, put,
                 sticky, parked, faultFail, order>>

\* ... and the last one returns from do_submit, releasing the lock.
Return(p) ==
  /\ Goto(p, "return", "idle")
  /\ lock' = IF ticketMode THEN lock ELSE NoLock
  /\ UNCHANGED <<reserve, mirror, ring, cmd, slot, begun, engineVars,
                 faultVars, put, sticky, parked, faultFail, order, submit>>

ProducerStep(p) ==
  \/ Lock(p) \/ Claim(p) \/ AwaitSpace(p) \/ WriteBegin(p) \/ WriteEnd(p)
  \/ AwaitTurn(p) \/ StorePut(p) \/ StoreMirror(p) \/ Return(p)

----------------------------------------------------------------------------
(* The engine thread                                                       *)

EGoto(from, to) == epc = from /\ epc' = to /\ UNCHANGED ticketMode

\* compare_exchange(0, rc): only the first error sticks.
SetSticky(rc) == sticky' = IF sticky = "none" THEN rc ELSE sticky

RetireAs(result) ==
  /\ outcome' = [outcome EXCEPT ![get] = result]
  /\ get' = get + 1

\* A round of the run loop loads PUT ...
LoadPut ==
  /\ EGoto("scan", "fail")
  /\ seen' = put
  /\ UNCHANGED <<producerVars, faultVars, get, running, outcome, put, sticky,
                 parked, faultFail, order, submit>>

\* ... then takes a failed migration, if one is posted, and retires the
\* head command without running it ...
TakeFaultFail ==
  /\ faultFail
  /\ EGoto("fail", "scan")
  /\ faultFail' = FALSE
  /\ SetSticky("migrate")
  /\ IF seen # get THEN RetireAs(Failed) /\ absent' = FALSE
                   ELSE UNCHANGED <<outcome, get, absent>>
  /\ UNCHANGED <<producerVars, faults, hpc, nfaults, faulted, seen, running,
                 put, parked, order, submit>>

NoFaultFail ==
  /\ ~faultFail
  /\ EGoto("fail", "head")
  /\ UNCHANGED <<producerVars, faultVars, get, seen, running, outcome, put,
                 sticky, parked, faultFail, order, submit>>

\* ... then decides whether the channel can run: not while parked, not when
\* empty; a PUT behind GET is an error, never something to execute.
SkipChannel ==
  /\ parked \/ seen <= get
  /\ EGoto("head", "scan")
  /\ IF ~parked /\ seen < get THEN SetSticky("EIO") ELSE UNCHANGED sticky
  /\ UNCHANGED <<producerVars, faultVars, get, seen, running, outcome, put,
                 parked, faultFail, order, submit>>

ChooseChannel ==
  /\ ~parked /\ seen > get
  /\ EGoto("head", "fetch")
  /\ UNCHANGED <<producerVars, faultVars, get, seen, running, outcome, put,
                 sticky, parked, faultFail, order, submit>>

\* The visit: run the command at GET ...
HeadSlot == get % Depth

Fetch ==
  /\ EGoto("fetch", "execute")
  /\ running' = ring[HeadSlot]
  /\ UNCHANGED <<producerVars, faultVars, get, seen, outcome, put, sticky,
                 parked, faultFail, order, submit>>

\* ... retire it, successfully or with an error ...
Retire(rc) ==
  /\ EGoto("execute", "boundary")
  /\ ~absent
  /\ RetireAs(running)
  /\ running' = NoCmd
  /\ IF rc = "none" THEN UNCHANGED sticky ELSE SetSticky(rc)
  /\ UNCHANGED <<producerVars, faultVars, seen, put, parked, faultFail, order,
                 submit>>

\* ... and at the command boundary go on with the next one, or leave the
\* channel because it is empty or the scheduler has someone else to run.
Boundary ==
  LET latest == IF seen = get THEN put ELSE seen
  IN /\ seen' = latest
     /\ \/ latest # get /\ EGoto("boundary", "fetch")
        \/ EGoto("boundary", "scan")
     /\ UNCHANGED <<producerVars, faultVars, get, running, outcome, put,
                    sticky, parked, faultFail, order, submit>>

\* A page the command needs is in host memory: park first, then publish
\* the fault.
PageFault ==
  /\ absent \/ nfaults < MaxFaults
  /\ EGoto("execute", "push")
  /\ absent' = TRUE
  /\ nfaults' = IF absent THEN nfaults ELSE nfaults + 1
  /\ parked' = TRUE
  /\ running' = NoCmd
  /\ faulted' = faulted \cup {get}
  /\ UNCHANGED <<producerVars, faults, hpc, get, seen, outcome, put, sticky,
                 faultFail, order, submit>>

PushFault ==
  /\ EGoto("push", "scan")
  /\ faults' = faults + 1
  /\ UNCHANGED <<producerVars, hpc, absent, nfaults, faulted, get, seen,
                 running, outcome, put, sticky, parked, faultFail, order,
                 submit>>

EngineStep ==
  \/ LoadPut \/ TakeFaultFail \/ NoFaultFail \/ SkipChannel
  \/ ChooseChannel \/ Fetch \/ Boundary \/ PageFault \/ PushFault
  \/ \E rc \in {"none", "exec"} : Retire(rc)

----------------------------------------------------------------------------
(* The UVM thread (service_faults)                                         *)

HGoto(from, to) == hpc = from /\ hpc' = to /\ UNCHANGED ticketMode

\* Pop a fault and migrate its page, which works or does not.
HasFault == faults > 0

PopFault ==
  /\ HasFault
  /\ faults' = faults - 1
  /\ \/ HGoto("idle", "unpark") /\ absent' = FALSE
     \/ HGoto("idle", "post") /\ UNCHANGED absent
  /\ UNCHANGED <<producerVars, engineVars, nfaults, faulted, put, sticky,
                 parked, faultFail, order, submit>>

PostFaultFail ==
  /\ HGoto("post", "unpark")
  /\ faultFail' = TRUE
  /\ UNCHANGED <<producerVars, engineVars, faults, absent, nfaults, faulted,
                 put, sticky, parked, order, submit>>

\* Mutant: a failed migration leaves the channel parked.
UnparkOnlyOnSuccess ==
  /\ HGoto("unpark", "idle")
  /\ parked' = (parked /\ absent)
  /\ UNCHANGED <<producerVars, engineVars, faults, absent, nfaults, faulted,
                 put, sticky, faultFail, order, submit>>

Unpark ==
  /\ HGoto("unpark", "idle")
  /\ parked' = FALSE
  /\ UNCHANGED <<producerVars, engineVars, faults, absent, nfaults, faulted,
                 put, sticky, faultFail, order, submit>>

HandlerStep == PopFault \/ PostFaultFail \/ Unpark

----------------------------------------------------------------------------

Next ==
  \/ \E p \in Producers : Submit(p) \/ NextChunk(p) \/ ProducerStep(p)
  \/ EngineStep
  \/ HandlerStep

Spec == Init /\ [][Next]_vars

\* Threads are preemptively scheduled: none of them stops for good in the
\* middle of its code.  Whether to submit is up to the application.
FairSpec ==
  /\ Spec
  /\ \A p \in Producers : WF_vars(ProducerStep(p))
  /\ WF_vars(EngineStep)
  /\ WF_vars(HandlerStep)

----------------------------------------------------------------------------
(* Properties                                                              *)

\* Every variable holds a value of its type; in particular the registers
\* count at most the commands submitted.
TypeOK ==
  /\ ticketMode \in BOOLEAN
  /\ lock \in Producers \cup {NoLock}
  /\ reserve \in 0 .. MaxCmds /\ mirror \in 0 .. MaxCmds
  /\ ring \in [0 .. Depth - 1 -> Cmd \cup {NoCmd, Torn}]
  /\ pc \in [Producers -> ProducerPC]
  /\ cmd \in [Producers -> Cmd \cup {NoCmd}]
  /\ slot \in [Producers -> 0 .. MaxCmds]
  /\ begun \in 0 .. MaxCmds
  /\ put \in 0 .. MaxCmds /\ get \in 0 .. MaxCmds
  /\ sticky \in Errors /\ parked \in BOOLEAN /\ faultFail \in BOOLEAN
  /\ epc \in EnginePC /\ seen \in 0 .. MaxCmds
  /\ running \in Cmd \cup {NoCmd, Torn}
  /\ faults \in Nat /\ hpc \in {"idle", "post", "unpark"}
  /\ absent \in BOOLEAN /\ nfaults \in Nat
  /\ order \in [Cmd -> Cmd \cup {NoCmd}]
  /\ submit \in [Cmd -> Cmd \cup {NoCmd}]
  /\ outcome \in [Cmd -> Cmd \cup {NoCmd, Torn, Failed}]
  /\ faulted \subseteq Cmd

\* Everything between GET and PUT sits complete in its slot: no producer
\* writes a slot whose command has not retired (the backpressure test of
\* enqueue), and none publishes a slot it or an earlier ticket has not
\* finished writing.
PublishedIntact == \A i \in get .. put - 1 : ring[i % Depth] = order[i]

\* Command number i that ran is the command that claimed slot number i: the
\* engine never runs a stale, torn or foreign slot, and neither skips nor
\* repeats one.
RunsWhatWasClaimed ==
  \A i \in Cmd : outcome[i] \in (IF i < get THEN {order[i], Failed} ELSE {NoCmd})

\* No claim is lost to another: every command that was built is still on its
\* way to a slot number or has one, and has it alone.
BeforeClaim == {"lock", "claim"}
ClaimedOnce ==
  /\ \A c \in 0 .. begun - 1 :
       \/ \E i \in Cmd : order[i] = c
       \/ \E p \in Producers : pc[p] \in BeforeClaim /\ cmd[p] = c
  /\ \A i, j \in Cmd : order[i] = order[j] /\ order[i] # NoCmd => i = j

\* The engine never sees PUT behind GET ("a driver bug: a doorbell went
\* backwards", device.cpp).
NoDoorbellReversal == sticky # "EIO" /\ get <= put

\* The doorbell register only moves forward, by one command at a time,
\* whichever producer writes it.
PutAdvancesByOne == [][put' \in {put, put + 1}]_vars

\* Mutex mode: the chunks of one do_submit are contiguous in the ring.
ChunksContiguous ==
  ~ticketMode =>
    \A i, j, k \in Cmd :
      (i < j /\ j < k /\ order[k] # NoCmd /\ order[i] # NoCmd
        /\ submit[order[i]] = submit[order[k]])
      => submit[order[j]] = submit[order[i]]

\* Nobody waits for ever behind a full ring, the channel lock, an earlier
\* ticket, a page fault or a failed migration: once nothing more is submitted,
\* every do_submit has returned and every command has retired.  (A behaviour
\* has at most MaxCmds commands.)
AllRetire == <>[](get = put /\ \A p \in Producers : pc[p] = "idle")

\* device.h says of fault_fail that "the engine retires the command instead
\* of faulting forever": only a command that faulted retires as failed.  It
\* does not hold (CommandRing_fail): the engine takes a failure from the
\* channel, not from the command it was posted for, so that one posted after
\* the head has moved on retires a later command unrun.
OnlyFaultedFail == \A i \in Cmd : outcome[i] = Failed => i \in faulted

----------------------------------------------------------------------------
(* The inductive invariant behind the safety properties                    *)

Holding == {"claim", "space", "write", "copying", "turn", "put", "mirror",
            "return"}
Unpublished == {"space", "write", "copying", "turn", "put"}
Claiming == Unpublished \cup {"mirror"}

\* Who may be where: the lock in mutex mode, distinct slots in both modes,
\* every claimed slot at or beyond the driver's PUT.
ClaimsOK ==
  /\ \A p \in Producers : ~ticketMode /\ pc[p] \in Holding => lock = p
  /\ \A p \in Producers : pc[p] # "idle" => cmd[p] # NoCmd
  /\ \A p \in Producers : pc[p] \in Claiming =>
       /\ slot[p] < MaxCmds
       /\ mirror <= slot[p]
       /\ IF ticketMode THEN slot[p] < reserve ELSE slot[p] = mirror
       /\ order[slot[p]] = cmd[p]
  /\ \A p, q \in Producers :
       p # q /\ pc[p] \in Claiming /\ pc[q] \in Claiming => slot[p] # slot[q]
  /\ ticketMode => put <= reserve /\ mirror <= reserve

\* The two copies of PUT differ only while a producer is between the two
\* stores, and it is the producer whose turn it is.
PutOK ==
  /\ \A p \in Producers : pc[p] \in {"put", "mirror"} => slot[p] = mirror
  /\ \A p \in Producers : pc[p] = "mirror" => put = mirror + 1
  /\ (\A p \in Producers : pc[p] # "mirror") => put = mirror
  /\ \A p \in Producers : pc[p] \in Unpublished => put <= slot[p]

\* A producer past the backpressure test keeps its slot to itself.
SpaceOK ==
  \A p \in Producers :
    /\ pc[p] \in {"write", "copying", "turn", "put"} => slot[p] - get < Depth
    /\ pc[p] \in {"turn", "put"} => ring[slot[p] % Depth] = cmd[p]

\* The engine runs only what it has seen published.
EngineOK ==
  /\ get <= put /\ seen <= put
  /\ epc \in {"fail", "head", "boundary"} => get <= seen
  /\ epc \in {"fetch", "execute", "push"} => get < seen
  /\ epc = "execute" => running = order[get]
  /\ sticky # "EIO"

\* The inductive invariant: types, claims, registers, slots, the engine.
IndInv ==
  /\ TypeOK
  /\ ClaimsOK
  /\ PutOK
  /\ SpaceOK
  /\ EngineOK
  /\ PublishedIntact
  /\ RunsWhatWasClaimed

\* Why no claim is lost: commands are distinct, one that has no slot number
\* yet is nowhere in the order, and the next number to be claimed is unused.
CmdsOK ==
  /\ \A p \in Producers : cmd[p] < begun
  /\ \A p, q \in Producers : p # q /\ cmd[p] = cmd[q] => cmd[p] = NoCmd
  /\ \A i \in Cmd : order[i] < begun
  /\ \A p \in Producers : pc[p] \in BeforeClaim =>
       \A i \in Cmd : order[i] # cmd[p]
  /\ \A i \in Cmd : order[i] # NoCmd =>
       IF ticketMode THEN i < reserve
       ELSE \/ i < mirror
            \/ \E p \in Producers : pc[p] \in Claiming /\ slot[p] = i
  /\ ClaimedOnce

----------------------------------------------------------------------------

\* The channel implements the abstract command stream: PUT is what has been
\* accepted, GET what has retired.
Stream == INSTANCE CommandStream WITH
            accepted <- [i \in 1 .. put |-> order[i - 1]],
            retired <- [i \in 1 .. get |-> outcome[i - 1]]
ImplementsStream == Stream!Spec
=============================================================================

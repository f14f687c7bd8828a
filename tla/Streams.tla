------------------------------- MODULE Streams -------------------------------
(***************************************************************************)
(* Streams and events (runtime.cpp) on top of the channels.  A stream owns *)
(* a channel index and keeps its commands in order across engines by       *)
(* putting WAIT_FENCE commands ahead of them (stream_submit); an event is  *)
(* the fence of a NOP (sgEventRecord), and sgStreamWaitEvent adds it to    *)
(* the waits of the stream's next command.                                 *)
(*                                                                         *)
(* Copies to and from a pinned host buffer are direct: the driver decides  *)
(* while it submits, and the device works on the caller's memory after the *)
(* submit has returned.  sgMallocHost, sgFreeHost, sgHostRegister and      *)
(* sgHostUnregister come and go meanwhile.  The application does not free  *)
(* a buffer that one of its calls is still working on.                     *)
(*                                                                         *)
(* A ring is a sequence of commands of which the first get[r] have         *)
(* retired; which channel an engine visits next is left open (the runlist).*)
(* Each SUBMIT call of stream_submit is a step, so streams that share a    *)
(* channel interleave as in ticket mode.  A copy is one chunk.  A command  *)
(* may fail; the driver then refuses every later submit.  A behaviour      *)
(* starts with streams, events and their bindings in place, and with every *)
(* buffer as sgMallocHost returns it, pinned.                              *)
(*                                                                         *)
(* Two things an application may do cost it the order that the runtime     *)
(* keeps: a pageable H2D copy of no bytes, and a bad address on a stream   *)
(* that has been told to wait for an event.  A history variable says       *)
(* whether it has done either.                                             *)
(***************************************************************************)
EXTENDS Integers, Sequences, FiniteSets

CONSTANTS Threads, StreamSet, Events, Channels, Buffers,
          MaxCalls     \* bound: calls made by the application

Engines == {"compute", "copy"}

NoOne == "no one"
Pageable == "pageable"

ASSUME StreamAssumption ==
  /\ MaxCalls \in Nat /\ Channels # {} /\ StreamSet # {} /\ Events # {}
  /\ NoOne \notin Threads /\ Pageable \notin Buffers

Rings == Engines \X Channels

VARIABLES
  channelOf,  \* per stream: its channel index, of its own or shared
  ring, get,  \* per <<engine, channel>>: commands; how many have retired
  sticky,     \* a command has failed
  tail,       \* per stream: fence of its latest command; value 0 and
  hasTail,    \* hasTail FALSE at first
  extraWaits, \* per stream: fences of the events it has yet to wait for
  mutex,      \* per stream: holder of its lock
  at,         \* per event: the recorded fence, value 0 if none
  live, pins, \* host buffers that are allocated; that are pinned
  pc, call,   \* per thread: position, and the call being made
  \* What the calls made so far ask for, in terms of the commands' numbers:
  calls,      \* calls made so far
  next,       \* the number of the next command
  before,     \* per command: the commands it must run after
  dma,        \* per command: the buffer it works on, or none
  ran,        \* the commands that have run
  own,        \* per stream: its commands
  deps,       \* per stream: commands it was told to wait for, by event
  captured,   \* per event: commands it stands for
  must,       \* per thread: commands that its synchronize call waits for
  lapsed      \* the application has done what costs it its order

deviceVars == <<ring, get, sticky>>
runtimeVars == <<tail, hasTail, extraWaits, mutex, at>>
hostVars == <<live, pins>>
ghostVars == <<next, before, dma, ran, own, deps, captured, must, lapsed>>
vars == <<deviceVars, runtimeVars, hostVars, pc, call, calls, ghostVars, channelOf>>

FenceAt(r, v) == [ring |-> r, value |-> v]
NoFence == FenceAt(CHOOSE r \in Rings : TRUE, 0)

\* A call's arguments and locals.
NoCall == [kind |-> "none", stream |-> CHOOSE s \in StreamSet : TRUE,
           event |-> CHOOSE e \in Events : TRUE, engine |-> "compute",
           todo |-> <<>>, fence |-> NoFence, all |-> {},
           buf |-> Pageable, sync |-> FALSE, want |-> <<>>]

Init ==
  /\ channelOf \in [StreamSet -> Channels]
  /\ channelOf[NoCall.stream] = NoFence.ring[2]   \* up to channels' names
  /\ ring = [r \in Rings |-> <<>>] /\ get = [r \in Rings |-> 0]
  /\ sticky = FALSE
  /\ tail = [s \in StreamSet |-> NoFence]
  /\ hasTail = [s \in StreamSet |-> FALSE]
  /\ extraWaits = [s \in StreamSet |-> <<>>]
  /\ mutex = [s \in StreamSet |-> NoOne]
  /\ at = [e \in Events |-> NoFence]
  /\ pc = [t \in Threads |-> "idle"]
  /\ call = [t \in Threads |-> NoCall]
  /\ live = Buffers /\ pins = Buffers
  /\ calls = 0 /\ next = 1 /\ before = <<>> /\ dma = <<>> /\ ran = {}
  /\ own = [s \in StreamSet |-> {}] /\ deps = own
  /\ captured = [e \in Events |-> {}]
  /\ must = [t \in Threads |-> {}] /\ lapsed = FALSE

----------------------------------------------------------------------------
(* stream_submit                                                           *)

Goto(t, from, to) == pc[t] = from /\ pc' = [pc EXCEPT ![t] = to]

\* A thread makes a call.
Call(t, to, args) == /\ Goto(t, "idle", to)
                     /\ calls < MaxCalls /\ calls' = calls + 1
                     /\ UNCHANGED channelOf
                     /\ call' = [call EXCEPT ![t] = args]

RingOf(t) == <<call[t].engine, channelOf[call[t].stream]>>

\* A call that submits one command: its kind, its engine and its stream.
Kinds == {"kernel", "h2d", "d2h", "zero"}
EngineFor(kind) == IF kind = "kernel" THEN "compute" ELSE "copy"

Begin(t, s, kind) ==
  /\ Call(t, "lock", [NoCall EXCEPT !.kind = kind, !.stream = s,
                                    !.engine = EngineFor(kind)])
  /\ UNCHANGED <<deviceVars, runtimeVars, hostVars, ghostVars>>

\* A call is working on the buffer; sgFreeHost is.
InUse(b) == \E t \in Threads : call[t].buf = b
BeingFreed(b) == \E t \in Threads : call[t].buf = b /\ call[t].kind = "free"

\* sgMemcpyH2D and sgMemcpyD2H (sync) or their Async forms, with a buffer.
BeginBuffer(t, s, kind, b, sync) ==
  /\ b \in live /\ ~BeingFreed(b)
  /\ Call(t, "lock", [NoCall EXCEPT !.kind = kind, !.stream = s, !.buf = b,
                                    !.engine = "copy", !.sync = sync])
  /\ UNCHANGED <<deviceVars, runtimeVars, hostVars, ghostVars>>

\* sgEventRecord reads the engine of the stream's tail, and locks again to
\* submit its NOP there.
Record(t, s, e) ==
  /\ mutex[s] = NoOne
  /\ Call(t, "lock",
          [NoCall EXCEPT !.kind = "nop", !.stream = s, !.event = e,
             !.engine = IF hasTail[s] THEN tail[s].ring[1] ELSE "compute"])
  /\ UNCHANGED <<deviceVars, runtimeVars, hostVars, ghostVars>>

Lock(t) == LET s == call[t].stream IN
  /\ Goto(t, "lock", "extra")
  /\ mutex[s] = NoOne
  /\ mutex' = [mutex EXCEPT ![s] = t]
  /\ call' = [call EXCEPT ![t].todo = extraWaits[s]]
  /\ UNCHANGED <<deviceVars, tail, hasTail, extraWaits, at, ghostVars>>

\* Mutant: waits on the stream's own channel are dropped on every engine.
SameChannel(t, f) == f.ring[2] = RingOf(t)[2]

\* "Same ring, already ordered."
SameRing(t, f) == f.ring = RingOf(t)

\* Mutant: wait for the fence after.
WaitCmdLate(f) == [op |-> "wait", on |-> FenceAt(f.ring, f.value + 1)]

WaitCmd(f) == [op |-> "wait", on |-> f]

\* wait_on: no WAIT is needed, or the driver takes it.
WaitOn(t, f) ==
  \/ SameRing(t, f) /\ UNCHANGED ring
  \/ /\ ~SameRing(t, f) /\ ~sticky
     /\ ring' = [ring EXCEPT ![RingOf(t)] = Append(@, WaitCmd(f))]

\* The events' waits, one by one, then forget them; ...
ExtraWait(t) ==
  /\ pc[t] = "extra" /\ call[t].todo # <<>>
  /\ WaitOn(t, Head(call[t].todo))
  /\ call' = [call EXCEPT ![t].todo = Tail(@)]
  /\ UNCHANGED <<pc, get, sticky, runtimeVars, ghostVars>>

ClearExtra(t) ==
  /\ call[t].todo = <<>>
  /\ Goto(t, "extra", "tail")
  /\ extraWaits' = [extraWaits EXCEPT ![call[t].stream] = <<>>]
  /\ UNCHANGED <<deviceVars, tail, hasTail, mutex, at, call, ghostVars>>

\* ... the predecessor's; ...
TailWait(t) == LET s == call[t].stream IN
  /\ Goto(t, "tail", "check")
  /\ IF hasTail[s] THEN WaitOn(t, tail[s]) ELSE UNCHANGED ring
  /\ UNCHANGED <<get, sticky, runtimeVars, call, ghostVars>>

\* do_submit goes on unless a command has failed; it looks the buffer up, ...
Decide(t) ==
  /\ Goto(t, "check", "command") /\ ~sticky
  /\ call' = [call EXCEPT ![t].kind = IF call[t].buf \in pins THEN "direct" ELSE @]
  /\ UNCHANGED <<deviceVars, runtimeVars, ghostVars>>

Return(t) ==
  /\ pc' = [pc EXCEPT ![t] = "idle"]
  /\ call' = [call EXCEPT ![t] = NoCall]

Unlock(t) == mutex' = [mutex EXCEPT ![call[t].stream] = NoOne]

\* Mutant: the tail stays where it was.
NewTailKept(s, f) == UNCHANGED <<tail, hasTail>>

NewTail(s, f) == /\ tail' = [tail EXCEPT ![s] = f]
                 /\ hasTail' = [hasTail EXCEPT ![s] = TRUE]

\* copy_sync: a call that promised to be synchronous waits for a direct copy.
AwaitsDirect(t) == call[t].kind = "direct" /\ call[t].sync

\* ... and the command.
Command(t) ==
  LET s == call[t].stream
      r == RingOf(t)
      f == FenceAt(r, Len(ring[r]) + 1) IN
  /\ pc[t] = "command" /\ call[t].kind # "zero"
  /\ ring' = [ring EXCEPT ![r] = Append(@, [op |-> "work", id |-> next])]
  /\ next' = next + 1
  /\ before' = Append(before, own[s] \cup deps[s])
  /\ dma' = Append(dma, IF call[t].kind = "direct" THEN call[t].buf ELSE Pageable)
  /\ own' = [own EXCEPT ![s] = @ \cup {next}]
  /\ CASE call[t].kind = "d2h" ->
            /\ pc' = [pc EXCEPT ![t] = "await"]
            /\ call' = [call EXCEPT ![t].fence = f]
            /\ UNCHANGED <<tail, hasTail, mutex, at, captured, must>>
       [] AwaitsDirect(t) ->
            /\ pc' = [pc EXCEPT ![t] = "sync"]
            /\ call' = [call EXCEPT ![t].fence = f]
            /\ must' = [must EXCEPT ![t] = {next}]
            /\ NewTail(s, f) /\ Unlock(t)
            /\ UNCHANGED <<at, captured>>
       [] call[t].kind = "nop" ->
            /\ pc' = [pc EXCEPT ![t] = "record"]
            /\ call' = [call EXCEPT ![t].fence = f,
                                     ![t].all = own'[s] \cup deps[s]]
            /\ NewTail(s, f) /\ Unlock(t)
            /\ UNCHANGED <<at, captured, must>>
       [] OTHER ->
            /\ Return(t) /\ NewTail(s, f) /\ Unlock(t)
            /\ UNCHANGED <<at, captured, must>>
  /\ UNCHANGED <<get, sticky, extraWaits, ran, deps, lapsed>>

\* sgEventRecord: the event now stands for the NOP.
SetEvent(t) ==
  /\ pc[t] = "record"
  /\ at' = [at EXCEPT ![call[t].event] = call[t].fence]
  /\ captured' = [captured EXCEPT ![call[t].event] = call[t].all]
  /\ Return(t)
  /\ UNCHANGED <<deviceVars, tail, hasTail, extraWaits, mutex, next, before, dma,
                 ran, own, deps, must, lapsed>>

\* A pageable D2H copy returns once its own DMA has retired; its fence is
\* whatever its channel has published by then.  After a failure it is no
\* success, and the tail stays.
AwaitCopy(t) ==
  LET s == call[t].stream IN
  /\ pc[t] = "await" /\ get[RingOf(t)] >= call[t].fence.value
  /\ IF sticky THEN UNCHANGED <<tail, hasTail>>
     ELSE NewTail(s, FenceAt(RingOf(t), Len(ring[RingOf(t)])))
  /\ Unlock(t) /\ Return(t)
  /\ UNCHANGED <<deviceVars, extraWaits, at, ghostVars>>

\* A pageable H2D copy of no bytes: success, no command, and a fence of 0
\* for a tail.
ZeroCopy(t) == LET s == call[t].stream IN
  /\ pc[t] = "command" /\ call[t].kind = "zero"
  /\ NewTail(s, FenceAt(RingOf(t), 0)) /\ Unlock(t)
  /\ Return(t)
  /\ lapsed' = TRUE
  /\ UNCHANGED <<deviceVars, extraWaits, at, next, before, dma, ran, own, deps,
                 captured, must>>

\* A submit ends without its command: the WAITs submitted for it stay on the
\* ring, and the events' waits are gone from the stream once it has taken
\* them all.
GiveUp(t) == /\ Unlock(t) /\ Return(t)
             /\ UNCHANGED <<deviceVars, tail, hasTail, extraWaits, at, next, before,
                            dma, ran, own, deps, captured, must>>

\* The driver refuses the command: a bad address.
Refused(t) ==
  /\ pc[t] = "command" /\ call[t].kind # "nop"
  /\ GiveUp(t)
  /\ lapsed' = (lapsed \/ deps[call[t].stream] # {})

\* It refuses a WAIT midway, the command, or (waiting for a staging slot) a
\* pageable copy: a command has failed.
Denied(t) ==
  /\ sticky
  /\ \/ /\ pc[t] = "extra" /\ call[t].todo # <<>>
        /\ ~SameRing(t, Head(call[t].todo))
     \/ /\ pc[t] = "tail" /\ hasTail[call[t].stream]
        /\ ~SameRing(t, tail[call[t].stream])
     \/ pc[t] = "check"
     \/ pc[t] = "command" /\ call[t].kind \in {"h2d", "d2h"}
  /\ GiveUp(t)
  /\ UNCHANGED lapsed

----------------------------------------------------------------------------
(* Waiting                                                                 *)

\* sgStreamWaitEvent: read the event, then add it to the stream's waits.  An
\* event never recorded is nothing to wait for.
ReadEvent(t, s, e) ==
  /\ at[e].value # 0
  /\ Call(t, "push", [NoCall EXCEPT !.kind = "wait", !.stream = s,
                                    !.fence = at[e], !.all = captured[e]])
  /\ UNCHANGED <<deviceVars, runtimeVars, hostVars, ghostVars>>

PushWait(t) == LET s == call[t].stream IN
  /\ pc[t] = "push" /\ mutex[s] = NoOne
  /\ extraWaits' = [extraWaits EXCEPT ![s] = Append(@, call[t].fence)]
  /\ deps' = [deps EXCEPT ![s] = @ \cup call[t].all]
  /\ Return(t)
  /\ UNCHANGED <<deviceVars, tail, hasTail, mutex, at, next, before, dma, ran,
                 own, captured, must, lapsed>>

\* sgStreamSynchronize and sgEventSynchronize read a fence and wait for it.
Synchronize(t, f, all) ==
  /\ Call(t, "sync", [NoCall EXCEPT !.kind = "sync", !.fence = f])
  /\ must' = [must EXCEPT ![t] = all]
  /\ UNCHANGED <<deviceVars, runtimeVars, hostVars, next, before, dma, ran, own,
                 deps, captured, lapsed>>

StreamSync(t, s) ==
  /\ mutex[s] = NoOne /\ hasTail[s]
  /\ Synchronize(t, tail[s], own[s])

EventSync(t, e) == at[e].value # 0 /\ Synchronize(t, at[e], captured[e])

Synced(t) ==
  /\ get[call[t].fence.ring] >= call[t].fence.value
  /\ Goto(t, "sync", "synced")
  /\ UNCHANGED <<deviceVars, runtimeVars, call, ghostVars>>

SyncReturn(t) ==
  /\ pc[t] = "synced"
  /\ Return(t)
  /\ must' = [must EXCEPT ![t] = {}]
  /\ UNCHANGED <<deviceVars, runtimeVars, next, before, dma, ran, own, deps, captured,
                 lapsed>>

\* sgDeviceSynchronize: a snapshot of every PUT, and wait until all have
\* retired.  (Read one by one, later ones can only ask for more.)
Puts == [r \in Rings |-> Len(ring[r])]

DeviceSync(t) ==
  /\ Call(t, "drain", [NoCall EXCEPT !.kind = "sync", !.want = Puts])
  /\ must' = [must EXCEPT ![t] = 1 .. next - 1]
  /\ UNCHANGED <<deviceVars, runtimeVars, hostVars, next, before, dma, ran, own,
                 deps, captured, lapsed>>

\* Mutant: one ring is enough.
SomeRetired(want) == \E r \in Rings : get[r] >= want[r]

AllRetired(want) == \A r \in Rings : get[r] >= want[r]

DeviceSynced(t) ==
  /\ Goto(t, "drain", "synced")
  /\ call[t].kind = "sync" /\ AllRetired(call[t].want)
  /\ UNCHANGED <<deviceVars, runtimeVars, call, ghostVars>>

----------------------------------------------------------------------------
(* Host buffers                                                            *)

\* A call on a buffer that is a single step: PIN or UNPIN.
BufferCall(t) ==
  /\ pc[t] = "idle" /\ calls < MaxCalls /\ calls' = calls + 1
  /\ UNCHANGED <<deviceVars, runtimeVars, ghostVars, pc, call, channelOf>>

\* sgMallocHost.  A pin that is there already refuses it, and the memory
\* goes back.
MallocHost(t, b) ==
  /\ BufferCall(t) /\ b \notin live \cup pins
  /\ live' = live \cup {b} /\ pins' = pins \cup {b}

HostRegister(t, b) ==
  /\ BufferCall(t) /\ b \in live \ pins /\ ~BeingFreed(b)
  /\ pins' = pins \cup {b} /\ UNCHANGED live

\* sgHostUnregister: the pin goes at once, with direct copies in flight.
HostUnregister(t, b) ==
  /\ BufferCall(t) /\ b \in pins
  /\ pins' = pins \ {b} /\ UNCHANGED live

Unpin(b) == pins \ {b}

\* sgFreeHost: unpin, ...
FreeHost(t, b) ==
  /\ b \in pins /\ ~InUse(b)
  /\ Call(t, "unpinned", [NoCall EXCEPT !.kind = "free", !.buf = b])
  /\ pins' = Unpin(b)
  /\ UNCHANGED <<deviceVars, runtimeVars, live, ghostVars>>

\* ... wait for everything published, ...
WaitAll(t) ==
  /\ Goto(t, "unpinned", "drain")
  /\ call' = [call EXCEPT ![t].want = Puts]
  /\ UNCHANGED <<deviceVars, runtimeVars, ghostVars>>

\* ... free.
FreeMemory(t) ==
  /\ pc[t] = "drain" /\ call[t].kind = "free" /\ AllRetired(call[t].want)
  /\ live' = live \ {call[t].buf}
  /\ Return(t)
  /\ UNCHANGED <<deviceVars, runtimeVars, pins, calls, channelOf, ghostVars>>

Thread(t) ==
  /\ \/ Lock(t) \/ ExtraWait(t) \/ ClearExtra(t) \/ TailWait(t) \/ Command(t)
     \/ SetEvent(t) \/ AwaitCopy(t) \/ ZeroCopy(t) \/ Refused(t) \/ Denied(t) \/ PushWait(t)
     \/ Synced(t) \/ SyncReturn(t) \/ Decide(t) \/ DeviceSynced(t) \/ WaitAll(t)
  /\ UNCHANGED <<calls, channelOf, hostVars>>

----------------------------------------------------------------------------
(* Engines                                                                 *)

\* Run the head command of a channel; a WAIT runs once its fence has
\* retired.  A command that fails retires too.
Execute(r) ==
  /\ get[r] < Len(ring[r])
  /\ LET c == ring[r][get[r] + 1] IN
       \/ /\ c.op = "wait" /\ get[c.on.ring] >= c.on.value
          /\ UNCHANGED <<ran, sticky>>
       \/ c.op = "work" /\ ran' = ran \cup {c.id} /\ sticky' \in {sticky, TRUE}
  /\ get' = [get EXCEPT ![r] = @ + 1]
  /\ UNCHANGED <<ring, runtimeVars, hostVars, pc, call, calls, channelOf, next, before, dma,
                 own, deps, captured, must, lapsed>>

----------------------------------------------------------------------------

Next ==
  \/ \E t \in Threads :
       \/ \E s \in StreamSet :
            \/ \E kind \in Kinds : Begin(t, s, kind)
            \/ \E e \in Events : Record(t, s, e) \/ ReadEvent(t, s, e)
            \/ StreamSync(t, s)
            \/ \E kind \in {"h2d", "d2h"}, b \in Buffers, sync \in BOOLEAN :
                 BeginBuffer(t, s, kind, b, sync)
       \/ \E e \in Events : EventSync(t, e)
       \/ DeviceSync(t)
       \/ \E b \in Buffers : \/ MallocHost(t, b) \/ HostRegister(t, b)
                            \/ HostUnregister(t, b) \/ FreeHost(t, b)
       \/ Thread(t) \/ FreeMemory(t)
  \/ \E r \in Rings : Execute(r)

Spec == Init /\ [][Next]_vars

\* Threads finish the calls they have begun; every ring is served while its
\* head can run.
FairSpec == /\ Spec
            /\ \A t \in Threads : WF_vars(Thread(t) \/ FreeMemory(t))
            /\ \A r \in Rings : WF_vars(Execute(r))

----------------------------------------------------------------------------
(* Properties                                                              *)

\* Work submitted to one stream runs in submission order, whatever engines
\* it is spread over, and after the commands of the events that the stream
\* was told to wait for, whatever failed, was refused or was shared meanwhile;
\* ...
InOrder == \A id \in ran : before[id] \subseteq ran

\* ... until the application makes an empty copy, which leaves the stream a
\* tail that nobody has to wait for, or a submit on a stream that waits is
\* refused, which leaves the waits on a ring that the next command need not
\* use: then InOrder fails (Streams_empty).
StreamOrder == ~lapsed => InOrder

\* When a synchronize call returns, what the stream had been given (the
\* event stood for, anyone had published) at the time of the call has run;
\* when a synchronous copy returns, its own direct DMA has; ...
Complete == \A t \in Threads : pc[t] = "synced" => must[t] \subseteq ran

\* ... under the same condition: after an empty copy Complete fails
\* (Streams_empty_sync).
SyncComplete == ~lapsed => Complete

\* The device works on no buffer that has been freed, and will not: no pin
\* is left on one.  The decision to go direct, the submit, the unpin, the
\* snapshot and the free are steps of their own.
BuffersLive ==
  /\ \A id \in 1 .. next - 1 : dma[id] \in Buffers /\ id \notin ran => dma[id] \in live
  /\ pins \subseteq live

\* Cross-engine and cross-stream waits never wait for each other: once the
\* application makes no more calls, every call has returned and everything
\* published has retired.  (A behaviour has at most MaxCalls calls.)
AllRetire == <>[](/\ \A r \in Rings : get[r] = Len(ring[r])
                  /\ \A t \in Threads : pc[t] = "idle")
=============================================================================

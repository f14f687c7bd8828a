----------------------------- MODULE StagingPool -----------------------------
(***************************************************************************)
(* Pageable copies through the staging pool (driver.cpp: acquire_slot,     *)
(* release_slot, and the H2D and D2H cases of do_submit).  A slot is used  *)
(* by two parties that share no lock, the host thread that fills or        *)
(* empties it and the engine that reads or writes it by DMA; only the busy *)
(* flag and the fence of the slot's last DMA keep them apart.              *)
(*                                                                         *)
(* A copy is a sequence of chunks.  What a slot holds is the chunk last    *)
(* put there.  The command ring (CommandRing) is abstracted to a sequence  *)
(* per channel of which the first get[c] commands have retired.            *)
(***************************************************************************)
EXTENDS Integers, Sequences, FiniteSets

CONSTANTS Threads,    \* host threads that submit pageable copies
          Channels,
          Slots,      \* d.slots, a power of two
          MaxChunks,  \* bound: chunks of one copy
          MaxJobs     \* bound: copies per thread

ASSUME PoolAssumption ==
  /\ Slots \in Nat \ {0} /\ Channels # {} /\ IsFiniteSet(Threads)
  /\ MaxChunks \in Nat /\ MaxJobs \in Nat

Slot == 0 .. Slots - 1
NoOne == "no one"

\* A slot that was never used: channel 0 has always retired fence 0.
AnyChannel == CHOOSE c \in Channels : TRUE
NoFence == [channel |-> AnyChannel, value |-> 0]

VARIABLES
  mutex,     \* submit_mode is SG_SUBMIT_MUTEX, else SG_SUBMIT_TICKET
  busy, fence, nextSlot, \* the pool: flag and last DMA of each slot, cursor
  data,      \* per slot: the chunk it holds
  ring, get, \* per channel: commands published, and how many have retired
  sticky,    \* some channel's sticky_error is set
  lock,      \* per channel: holder of the producer lock (mutex mode)
  pc, job,   \* per thread: position, and the copy it is making
  issued, done, \* per thread: chunks handed to the device, chunks finished
  slot, prev,   \* per thread: the slot acquired last, its previous fence
  window,    \* per thread: a D2H copy's outstanding [slot, value]
  got,       \* per thread: the chunks a D2H copy has delivered
  jobs       \* per thread: copies started

poolVars == <<busy, fence, nextSlot>>
deviceVars == <<ring, get, sticky>>
loopVars == <<job, issued, done, slot, prev, window, jobs>>
vars == <<poolVars, data, deviceVars, lock, pc, loopVars, got,
          mutex>>

\* The submit mode is chosen when the driver is opened and then stays.
Init ==
  /\ mutex \in BOOLEAN
  /\ busy = [s \in Slot |-> FALSE]
  /\ fence = [s \in Slot |-> NoFence]
  /\ nextSlot = 0
  /\ data = [s \in Slot |-> <<>>]
  /\ ring = [c \in Channels |-> <<>>] /\ get = [c \in Channels |-> 0]
  /\ sticky = FALSE
  /\ lock = [c \in Channels |-> NoOne]
  /\ pc = [t \in Threads |-> "idle"]
  /\ job = [t \in Threads |-> [op |-> "h2d", chunks |-> 0,
                            channel |-> AnyChannel]]
  /\ issued = [t \in Threads |-> 0] /\ done = issued
  /\ slot = [t \in Threads |-> 0]
  /\ prev = [t \in Threads |-> NoFence]
  /\ window = [t \in Threads |-> <<>>] /\ got = window
  /\ jobs = issued

----------------------------------------------------------------------------
(* The pool                                                                *)

Goto(t, from, to) ==
  pc[t] = from /\ pc' = [pc EXCEPT ![t] = to] /\ UNCHANGED mutex

ChannelOf(t) == job[t].channel

\* The chunk that t hands to the device next.
Chunk(t) == <<t, jobs[t], issued[t]>>

\* wait_fence: has the DMA retired?
Retired(f) == get[f.channel] >= f.value

\* D2H: DMAs kept ahead of the copy-out.
Max1(n) == IF n > 1 THEN n ELSE 1
WindowOfWholePool == Slots \* mutant: no headroom
WindowDepth == Max1(Slots \div 2)

\* Mutant: the cursor's slot is handed out whatever its flag says.
IgnoreBusy == {nextSlot}

\* The slots acquire_slot may hand out: the first free one from the cursor.
FirstFree ==
  LET At(i) == (nextSlot + i) % Slots
      Free(i) == i \in Slot /\ ~busy[At(i)]
  IN {At(i) : i \in {j \in Slot : Free(j) /\ \A k \in 0 .. j - 1 : ~Free(k)}}

Advance(s) == (s + 1) % Slots

\* acquire_slot, under staging_lock; it spins while no slot is free.
AcquireSlot(t) ==
  /\ Goto(t, "acquire", "prev")
  /\ \E s \in FirstFree :
       /\ busy' = [busy EXCEPT ![s] = TRUE]
       /\ nextSlot' = Advance(s)
       /\ slot' = [slot EXCEPT ![t] = s]
       /\ prev' = [prev EXCEPT ![t] = fence[s]]
  /\ UNCHANGED <<fence, data, deviceVars, lock, job, issued, done, window,
                 got, jobs>>

\* release_slot, under staging_lock.
ReleaseSlot(s, f) ==
  /\ fence' = [fence EXCEPT ![s] = f]
  /\ busy' = [busy EXCEPT ![s] = FALSE]
  /\ UNCHANGED nextSlot

----------------------------------------------------------------------------
(* do_submit                                                               *)

Unlock(t) == lock' = IF mutex THEN [lock EXCEPT ![ChannelOf(t)] = NoOne]
                              ELSE lock

\* The next iteration of the copy's loop, given the updated counters.
Loop(t, iss, dn) ==
  LET n == job[t].chunks IN
  CASE job[t].op = "h2d" -> IF iss < n THEN "acquire" ELSE "return"
    [] OTHER -> IF dn = n THEN "return"
                ELSE IF iss < n /\ iss - dn < WindowDepth THEN "acquire"
                ELSE "dma"

\* A submit call passes the sticky check and the channel lock.
Submit(t, c, op, n) ==
  /\ Goto(t, "idle", "lock")
  /\ ~sticky /\ jobs[t] < MaxJobs
  /\ job' = [job EXCEPT ![t] = [op |-> op, chunks |-> n,
                                     channel |-> c]]
  /\ issued' = [issued EXCEPT ![t] = 0] /\ done' = [done EXCEPT ![t] = 0]
  /\ jobs' = [jobs EXCEPT ![t] = @ + 1]
  /\ got' = [got EXCEPT ![t] = <<>>]
  /\ window' = [window EXCEPT ![t] = <<>>]
  /\ UNCHANGED <<poolVars, data, deviceVars, lock, slot, prev>>

Lock(t) ==
  /\ mutex => lock[ChannelOf(t)] = NoOne
  /\ Goto(t, "lock", Loop(t, 0, 0))
  /\ lock' = IF mutex THEN [lock EXCEPT ![ChannelOf(t)] = t] ELSE lock
  /\ UNCHANGED <<poolVars, data, deviceVars, loopVars, got>>

\* wait_fence on the slot's previous DMA; an error gives the slot back.
WaitPrev(t) ==
  /\ Retired(prev[t])
  /\ IF sticky
     THEN /\ Goto(t, "prev", "return")
          /\ ReleaseSlot(slot[t], prev[t])
     ELSE /\ Goto(t, "prev", IF job[t].op = "h2d" THEN "fill" ELSE "enqueue")
          /\ UNCHANGED poolVars
  /\ UNCHANGED <<data, deviceVars, lock, loopVars, got>>

\* H2D: memcpy into the slot.
Fill(t) ==
  /\ Goto(t, "fill", "enqueue")
  /\ data' = [data EXCEPT ![slot[t]] = Chunk(t)]
  /\ UNCHANGED <<poolVars, deviceVars, lock, loopVars, got>>

\* enqueue the chunk's DMA; a D2H copy remembers it in its window.
Enqueue(t) == LET c == ChannelOf(t) IN
  /\ ring' = [ring EXCEPT ![c] =
       Append(@, [op |-> job[t].op, slot |-> slot[t], chunk |-> Chunk(t)])]
  /\ issued' = [issued EXCEPT ![t] = @ + 1]
  /\ IF job[t].op = "h2d"
     THEN Goto(t, "enqueue", "release") /\ UNCHANGED window
     ELSE /\ Goto(t, "enqueue", Loop(t, issued[t] + 1, done[t]))
          /\ window' = [window EXCEPT ![t] =
               Append(@, [slot |-> slot[t], value |-> Len(ring'[c])])]
  /\ UNCHANGED <<poolVars, data, get, sticky, lock, job, done, slot, prev,
                 got, jobs>>

\* Mutant: released with the fence the slot came with.
StaleFence(t) == prev[t]

\* H2D: release the slot with the fence of the DMA just issued (in ticket
\* mode others may have enqueued since).
FenceOf(t) ==
  LET c == ChannelOf(t)
      mine == {i \in DOMAIN ring[c] :
                 ring[c][i].chunk = <<t, jobs[t], issued[t] - 1>>}
  IN [channel |-> c, value |-> CHOOSE i \in mine : TRUE]

ReleaseIn(t) ==
  /\ Goto(t, "release", Loop(t, issued[t], done[t]))
  /\ ReleaseSlot(slot[t], FenceOf(t))
  /\ UNCHANGED <<data, deviceVars, lock, loopVars, got>>

\* D2H: wait for the oldest DMA of the window.  An error gives back that
\* slot only: what else the window holds stays busy.
WaitDma(t) ==
  LET w == Head(window[t])
      f == [channel |-> ChannelOf(t), value |-> w.value] IN
  /\ window[t] # <<>> /\ Retired(f)
  /\ IF sticky
     THEN Goto(t, "dma", "return") /\ ReleaseSlot(w.slot, f)
     ELSE Goto(t, "dma", "empty") /\ UNCHANGED poolVars
  /\ UNCHANGED <<data, deviceVars, lock, loopVars, got>>

\* memcpy out of the slot ...
Empty(t) ==
  /\ Goto(t, "empty", "handback")
  /\ got' = [got EXCEPT ![t] = Append(@, data[Head(window[t]).slot])]
  /\ UNCHANGED <<poolVars, data, deviceVars, lock, loopVars>>

\* ... and release it.
ReleaseOut(t) == LET w == Head(window[t]) IN
  /\ Goto(t, "handback", Loop(t, issued[t], done[t] + 1))
  /\ ReleaseSlot(w.slot, [channel |-> ChannelOf(t), value |-> w.value])
  /\ window' = [window EXCEPT ![t] = Tail(@)]
  /\ done' = [done EXCEPT ![t] = @ + 1]
  /\ UNCHANGED <<data, deviceVars, lock, job, issued, slot, prev, got, jobs>>

Return(t) ==
  /\ Goto(t, "return", "idle")
  /\ Unlock(t)
  /\ window' = [window EXCEPT ![t] = <<>>]
  /\ UNCHANGED <<poolVars, data, deviceVars, job, issued, done, slot, prev,
                 got, jobs>>

Copy(t) == \/ Lock(t) \/ AcquireSlot(t) \/ WaitPrev(t) \/ Fill(t)
           \/ Enqueue(t) \/ ReleaseIn(t) \/ WaitDma(t) \/ Empty(t)
           \/ ReleaseOut(t) \/ Return(t)

----------------------------------------------------------------------------
(* The engine                                                              *)

\* The channel's next DMA runs and retires, or fails and retires.
Execute(c) == LET cmd == ring[c][get[c] + 1] IN
  /\ get[c] < Len(ring[c])
  /\ get' = [get EXCEPT ![c] = @ + 1]
  /\ \/ /\ data' = IF cmd.op = "d2h" THEN [data EXCEPT ![cmd.slot] = cmd.chunk]
                                     ELSE data
        /\ UNCHANGED sticky
     \/ /\ sticky' = TRUE
        /\ UNCHANGED data
  /\ UNCHANGED <<poolVars, ring, lock, pc, loopVars, got, mutex>>

----------------------------------------------------------------------------

Next ==
  \/ \E t \in Threads :
       \/ \E c \in Channels, op \in {"h2d", "d2h"}, n \in 0 .. MaxChunks :
            Submit(t, c, op, n)
       \/ Copy(t)
  \/ \E c \in Channels : Execute(c)

Spec == Init /\ [][Next]_vars

----------------------------------------------------------------------------
(* Properties                                                              *)

InFlight == UNION {{<<c, i>> : i \in get[c] + 1 .. Len(ring[c])} :
                     c \in Channels}
Cmd(x) == ring[x[1]][x[2]]

\* "A slot is reused only once the DMA that last used it has retired": from
\* the doorbell until the fence, the source of an H2D command is the chunk
\* it was issued for, and no two commands in flight use the same slot.
SourceIntact ==
  \A x \in InFlight :
    /\ Cmd(x).op = "h2d" => data[Cmd(x).slot] = Cmd(x).chunk
    /\ \A y \in InFlight : Cmd(x).slot = Cmd(y).slot => x = y

\* What a D2H copy delivers are the chunks it asked for, in order.
DeliversOwnChunks ==
  \A t \in Threads : \A i \in DOMAIN got[t] :
    got[t][i] = <<t, jobs[t], i - 1>>

\* Whatever the order in which copies take, fill and return slots, H2D
\* commands read and D2H copies deliver the bytes of their own chunks.
CopiesIntact == SourceIntact /\ DeliversOwnChunks

\* The slots that t has acquired and will release.
Holds(t) ==
  (IF pc[t] \in {"prev", "fill", "enqueue", "release"} THEN {slot[t]} ELSE {})
  \cup (IF pc[t] = "return" THEN {}
        ELSE {window[t][i].slot : i \in DOMAIN window[t]})

\* "Two concurrent pageable copies can never be handed the same slot"
\* (ADR 005), and what a copy holds is marked busy.
HoldersDisjoint ==
  \A t \in Threads :
    /\ \A s \in Holds(t) : busy[s]
    /\ \A u \in Threads \ {t} : Holds(t) \cap Holds(u) = {}

\* A busy slot is "acquired by a copy in progress" (struct Slot), which
\* will release it.
NoSlotLeak == \A s \in Slot : busy[s] => \E t \in Threads : s \in Holds(t)

\* A slot is busy while exactly one copy holds it, so none is shared and none
\* is lost.  Slots are lost once a command failed: a D2H copy that returns
\* with the error gives back only the slot it was waiting for (NoSlotLeak
\* alone fails, StagingPool_leak).
SlotsAccounted == HoldersDisjoint /\ (~sticky => NoSlotLeak)

\* Copies that hold slots and spin for another one.
Waiters == {t \in Threads : pc[t] = "acquire"}
HeldByWaiters == \A s \in Slot : \E t \in Waiters : s \in Holds(t)

\* The pool keeps headroom ("Leave headroom in the pool for other threads'
\* copies", do_submit): never is every slot held by copies that all spin for
\* another one.  It does not hold (StagingPool_exhaust): the windows of enough
\* copies fill the pool, four with four slots, three with the default eight.
NeverExhaustedByWaiters == ~HeldByWaiters

\* What half the pool per window does give: copies that spin hold less than
\* half the pool each, so it takes more than two of them to hold all of it.
ExhaustedOnlyByMany ==
  HeldByWaiters => Cardinality(Waiters) * (Slots \div 2 - 1) >= Slots
=============================================================================

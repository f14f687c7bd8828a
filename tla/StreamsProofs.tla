---------------------------- MODULE StreamsProofs ----------------------------
(***************************************************************************)
(* Proofs about Streams, for any number of threads, streams, events,       *)
(* channels, buffers and calls.                                            *)
(***************************************************************************)
EXTENDS Streams, TLAPS

----------------------------------------------------------------------------
(* The inductive invariant                                                 *)

FenceType == [ring : Rings, value : Nat]
WantType == [Rings -> Nat]
WaitType == [op : {"wait"}, on : FenceType]
WorkType == [op : {"work"}, id : Nat]
CmdType == WaitType \cup WorkType
KindType == Kinds \cup {"none", "h2d", "d2h", "nop", "direct", "wait", "sync", "free"}
Labels == {"idle", "lock", "extra", "tail", "check", "command", "await", "record",
           "push", "sync", "synced", "drain", "unpinned"}
CallType == [kind : KindType, stream : StreamSet, event : Events, engine : Engines,
             todo : Seq(FenceType), fence : FenceType, all : SUBSET Nat,
             buf : Buffers \cup {Pageable}, sync : BOOLEAN,
             want : WantType \cup {<<>>}]

TypeOK ==
  /\ channelOf \in [StreamSet -> Channels]
  /\ ring \in [Rings -> Seq(CmdType)] /\ get \in [Rings -> Nat]
  /\ sticky \in BOOLEAN
  /\ tail \in [StreamSet -> FenceType] /\ hasTail \in [StreamSet -> BOOLEAN]
  /\ extraWaits \in [StreamSet -> Seq(FenceType)]
  /\ mutex \in [StreamSet -> Threads \cup {NoOne}] /\ at \in [Events -> FenceType]
  /\ live \subseteq Buffers /\ pins \subseteq Buffers
  /\ pc \in [Threads -> Labels] /\ call \in [Threads -> CallType]
  /\ next \in Nat \ {0} /\ ran \subseteq Nat
  /\ before \in Seq(SUBSET Nat) /\ Len(before) = next - 1
  /\ dma \in Seq(Buffers \cup {Pageable}) /\ Len(dma) = next - 1
  /\ own \in [StreamSet -> SUBSET Nat] /\ deps \in [StreamSet -> SUBSET Nat]
  /\ captured \in [Events -> SUBSET Nat] /\ must \in [Threads -> SUBSET Nat]
  /\ lapsed \in BOOLEAN

\* What "b is sure to run" means; once the application has lapsed it says
\* nothing.  b has run; command j of ring r is b or must come after it; the
\* fence f does not retire before b runs; command j of ring r does not; whatever
\* is put on ring r now runs after b.
HasRun(b) == ~lapsed => b \in ran
Works(r, j, b) == /\ ring[r][j].op = "work"
                  /\ b = ring[r][j].id \/ b \in before[ring[r][j].id]
InFlight(r) == get[r] + 1 .. Len(ring[r])
Ensures(f, b) == HasRun(b) \/ \E j \in InFlight(f.ring) : j <= f.value /\ Works(f.ring, j, b)
Carries(r, j, b) == \/ Works(r, j, b)
                    \/ \E f \in FenceType : ring[r][j] = WaitCmd(f) /\ Ensures(f, b)
Ready(r, b) == HasRun(b) \/ \E j \in InFlight(r) : Carries(r, j, b)

\* The snapshot w of all PUTs does not retire before b runs; b is on a ring or
\* has run: of any application.
Drained(w, b) == b \in ran \/ \E r \in Rings : \E j \in InFlight(r) :
                   j <= w[r] /\ ring[r][j].op = "work" /\ ring[r][j].id = b
Published(b) == b \in ran \/ \E r \in Rings : \E j \in InFlight(r) :
                   ring[r][j].op = "work" /\ ring[r][j].id = b

\* Each number given out is on a ring or has run.
IdsOK ==
  /\ \A r \in Rings : get[r] <= Len(ring[r])
  /\ \A r \in Rings : \A i \in 1 .. Len(ring[r]) :
       ring[r][i].op = "work" => ring[r][i].id \in 1 .. next - 1
  /\ \A b \in 1 .. next - 1 : Published(b)
  /\ ran \subseteq 1 .. next - 1

\* Commands in flight have what they must come after ahead of them on their
\* own ring: the command, one that comes after it, or a WAIT for either.
Ahead(r, i, b) == HasRun(b) \/ \E j \in InFlight(r) : j < i /\ Carries(r, j, b)
OrderOK ==
  /\ \A r \in Rings : \A i \in InFlight(r) :
       ring[r][i].op = "work" => \A b \in before[ring[r][i].id] : Ahead(r, i, b)
  /\ \A id \in ran : \A b \in before[id] : HasRun(b)

Holding(t) == pc[t] \in {"extra", "tail", "check", "command", "await"}
Past(t) == pc[t] \in {"tail", "check", "command", "await"}
AwaitOn(s) == \E t \in Threads : pc[t] = "await" /\ call[t].stream = s
PastOn(s) == \E t \in Threads : Past(t) /\ call[t].stream = s

OneOf(q, g) == \E k \in 1 .. Len(q) : q[k] = g

\* The tail ensures the stream's own commands, but for a pageable copy to the
\* host that still waits for its DMA; and the tail or a fence in extra_waits
\* ensures what it was told to wait for, until a submit has taken them; once a
\* command has failed there are no more submits, and it does not matter.
StreamOK(s) ==
  /\ ~hasTail[s] => tail[s].value = 0
  /\ ~AwaitOn(s) => \A f \in FenceType : f = tail[s] => \A b \in own[s] : Ensures(f, b)
  /\ ~PastOn(s) /\ ~sticky => \A f \in FenceType : f = tail[s] => \A b \in deps[s] :
       Ensures(f, b) \/ \E g \in FenceType : OneOf(extraWaits[s], g) /\ Ensures(g, b)

\* An event's fence ensures what the event stands for.
EventOK(e) == \A f \in FenceType : f = at[e] => \A b \in captured[e] : Ensures(f, b)

\* One submit at a time on a stream.
LockOK(t) == Holding(t) => mutex[call[t].stream] = t

\* What a call has read ensures what it returns for.
CallOK(t) ==
  /\ pc[t] = "idle" => call[t] = NoCall
  /\ pc[t] = "unpinned" => call[t].kind = "free"
  /\ pc[t] = "drain" => call[t].want \in WantType
  /\ pc[t] \in {"record", "push"} =>
       \A f \in FenceType : f = call[t].fence => \A b \in call[t].all : Ensures(f, b)
  /\ pc[t] = "sync" =>
       \A f \in FenceType : f = call[t].fence => \A b \in must[t] : Ensures(f, b)
  /\ pc[t] = "drain" /\ call[t].kind = "sync" =>
       \A w \in WantType : w = call[t].want => \A b \in must[t] : Drained(w, b)
  /\ pc[t] = "synced" => \A b \in must[t] : HasRun(b)

\* As the submit goes on, what the stream waits for moves from the fences to
\* the WAITs ahead on its ring, and in the end to the command's own fence.
SubmitOK(t, s) ==
  /\ pc[t] = "extra" /\ ~sticky =>
       \A r \in Rings, f \in FenceType : r = RingOf(t) /\ f = tail[s] =>
         \A b \in deps[s] : \/ Ensures(f, b) \/ Ready(r, b)
                            \/ \E g \in FenceType : OneOf(call[t].todo, g) /\ Ensures(g, b)
  /\ pc[t] = "tail" /\ ~sticky =>
       \A r \in Rings, f \in FenceType : r = RingOf(t) /\ f = tail[s] =>
         \A b \in deps[s] : Ensures(f, b) \/ Ready(r, b)
  /\ pc[t] = "command" \/ (pc[t] = "check" /\ ~sticky) => \A r \in Rings : r = RingOf(t) =>
       \A b \in own[s] \cup deps[s] : Ready(r, b)
  /\ pc[t] = "await" => \A f \in FenceType : f = call[t].fence =>
       f.ring = RingOf(t) /\ \A b \in own[s] \cup deps[s] : Ensures(f, b)

\* A buffer that is being freed is not pinned, no call has it, and everything
\* published on it is within the snapshot that sgFreeHost waits for.
FreeOK(t) == call[t].kind = "free" =>
  /\ pc[t] \in {"unpinned", "drain"} /\ call[t].buf \in Buffers /\ call[t].buf \notin pins
  /\ \A u \in Threads \ {t} : call[u].buf # call[t].buf
  /\ pc[t] = "drain" => \A w \in WantType : w = call[t].want =>
       \A id \in 1 .. next - 1 : dma[id] = call[t].buf => Drained(w, id)

BuffersOK ==
  /\ BuffersLive
  /\ \A t \in Threads : call[t].buf \in Buffers => call[t].buf \in live
  /\ \A t \in Threads : FreeOK(t)

ThreadOK(t) ==
  /\ LockOK(t) /\ CallOK(t)
  /\ \A s \in StreamSet : s = call[t].stream => SubmitOK(t, s)

StreamsInv ==
  /\ TypeOK /\ IdsOK /\ OrderOK
  /\ \A s \in StreamSet : StreamOK(s)
  /\ \A e \in Events : EventOK(e)
  /\ \A t \in Threads : ThreadOK(t)
  /\ BuffersOK

----------------------------------------------------------------------------
(* What a step keeps                                                       *)

\* Whatever was sure to run has run or is still sure to.
Kept ==
  /\ ran \subseteq ran' /\ (sticky => sticky') /\ (lapsed => lapsed')
  /\ \A f \in FenceType : \A b : Ensures(f, b) => Ensures(f, b)'
  /\ \A r \in Rings : \A b : Ready(r, b) => Ready(r, b)'
  /\ \A w \in WantType : \A b : Drained(w, b) => Drained(w, b)'

\* Rings that only grow.
Grows ==
  /\ get' = get /\ ran' = ran /\ sticky' = sticky /\ (lapsed => lapsed')
  /\ \A r \in Rings : /\ Len(ring[r]) <= Len(ring'[r])
                       /\ \A i \in 1 .. Len(ring[r]) : ring'[r][i] = ring[r][i]
  /\ \A id \in 1 .. next - 1 : before'[id] = before[id]

LEMMA GrowKept ==
  ASSUME TypeOK, TypeOK', IdsOK, Grows
  PROVE  /\ Kept
         /\ \A r \in Rings : \A j \in InFlight(r) :
              j \in InFlight(r)' /\ \A b : Carries(r, j, b) => Carries(r, j, b)'
<1>1. ASSUME NEW r \in Rings, NEW j \in InFlight(r)
      PROVE  /\ j \in InFlight(r)' /\ j \in 1 .. Len(ring[r]) /\ ring'[r][j] = ring[r][j]
             /\ \A b : Works(r, j, b) => Works(r, j, b)'
  <2>1. /\ get[r] \in Nat /\ Len(ring[r]) \in Nat /\ Len(ring'[r]) \in Nat /\ get'[r] = get[r]
        /\ Len(ring[r]) <= Len(ring'[r])
    BY DEF TypeOK, Grows
  <2>2. j \in InFlight(r)' /\ j \in 1 .. Len(ring[r])
    BY <2>1 DEF InFlight
  <2>3. ring'[r][j] = ring[r][j]
    BY <2>2 DEF Grows
  <2>4. ring[r][j].op = "work" => before'[ring[r][j].id] = before[ring[r][j].id]
    BY <2>2 DEF IdsOK, Grows
  <2> QED BY <2>2, <2>3, <2>4 DEF Works
<1>2. ASSUME NEW f \in FenceType, NEW b, Ensures(f, b) PROVE Ensures(f, b)'
  <2>1. f.ring \in Rings
    BY DEF FenceType
  <2> QED BY <1>1, <1>2, <2>1 DEF Ensures, Grows, HasRun
<1>3. ASSUME NEW r \in Rings, NEW j \in InFlight(r), NEW b, Carries(r, j, b)
      PROVE  Carries(r, j, b)'
  <2>1. CASE Works(r, j, b)
    BY <1>1, <2>1 DEF Carries
  <2>2. CASE \E f \in FenceType : ring[r][j] = WaitCmd(f) /\ Ensures(f, b)
    BY <1>1, <1>2, <2>2 DEF Carries, WaitCmd
  <2> QED BY <1>3, <2>1, <2>2 DEF Carries
<1>4. ASSUME NEW r \in Rings, NEW b, Ready(r, b) PROVE Ready(r, b)'
  BY <1>1, <1>3, <1>4 DEF Ready, Grows, HasRun
<1>5. ASSUME NEW w \in WantType, NEW b, Drained(w, b) PROVE Drained(w, b)'
  BY <1>1, <1>5 DEF Drained, Grows
<1> QED BY <1>1, <1>2, <1>3, <1>4, <1>5 DEF Kept, Grows

\* What has run stays so.
LEMMA RunKept == ASSUME ran \subseteq ran', lapsed => lapsed', NEW b, HasRun(b) PROVE HasRun(b)'
BY DEF HasRun

\* A fence that has retired: what it ensures has run.
LEMMA RetiredEnsures ==
  ASSUME TypeOK, NEW f \in FenceType, NEW b, Ensures(f, b), get[f.ring] >= f.value
  PROVE  HasRun(b)
<1>1. get[f.ring] \in Nat /\ f.value \in Nat /\ Len(ring[f.ring]) \in Nat
  BY DEF TypeOK, FenceType
<1> QED BY <1>1 DEF Ensures, InFlight

\* The head of a ring retires: what it carried has run.
LEMMA ExecuteKept ==
  ASSUME TypeOK, IdsOK, OrderOK, NEW r0 \in Rings, Execute(r0)
  PROVE  /\ Kept
         /\ \A r \in Rings : \A i \in InFlight(r)' : \A b : Ahead(r, i, b) => Ahead(r, i, b)'
         /\ \A id \in ran' : \A b \in before'[id] : HasRun(b)'
<1> USE DEF InFlight
<1>1. PICK n \in Nat : /\ n = get[r0] + 1 /\ get[r0] \in Nat /\ n \in InFlight(r0)
                       /\ n \in 1 .. Len(ring[r0])
  <2>1. get[r0] \in Nat /\ Len(ring[r0]) \in Nat /\ get[r0] < Len(ring[r0])
    BY DEF TypeOK, Execute
  <2> QED BY <2>1
<1>2. PICK c \in CmdType : c = ring[r0][n]
  <2>1. ring[r0] \in Seq(CmdType)
    BY DEF TypeOK
  <2> QED BY <1>1, <2>1
<1>3. /\ get' = [get EXCEPT ![r0] = n] /\ ring' = ring /\ before' = before /\ lapsed' = lapsed
      /\ \/ c.op = "wait" /\ get[c.on.ring] >= c.on.value /\ ran' = ran /\ sticky' = sticky
         \/ c.op = "work" /\ ran' = ran \cup {c.id} /\ sticky' \in {sticky, TRUE}
  BY <1>1, <1>2 DEF Execute
<1>4. /\ get'[r0] = n /\ \A r \in Rings \ {r0} : get'[r] = get[r]
      /\ ring' = ring /\ before' = before /\ ran \subseteq ran'
      /\ (sticky => sticky') /\ lapsed' = lapsed
  BY <1>3 DEF TypeOK
<1>5. \A r \in Rings : get[r] \in Nat /\ get'[r] \in Nat /\ Len(ring[r]) \in Nat
  <2>1. \A r \in Rings : get[r] \in Nat /\ Len(ring[r]) \in Nat
    BY DEF TypeOK
  <2> QED BY <1>4, <2>1
<1>6. ASSUME NEW r \in Rings, NEW j \in InFlight(r)
      PROVE  j \in InFlight(r)' \/ (r = r0 /\ j = n)
  BY <1>1, <1>4, <1>5
<1>7. ASSUME NEW r \in Rings, NEW j \in InFlight(r)' PROVE j \in InFlight(r)
  BY <1>1, <1>4, <1>5
<1>8. c.op = "work" => c.id \in ran' /\ \A b \in before[c.id] : HasRun(b)
  <2>1. ASSUME c.op = "work", NEW b \in before[c.id] PROVE HasRun(b)
    <3>1. Ahead(r0, n, b)
      BY <1>1, <1>2, <2>1 DEF OrderOK
    <3>2. ~ \E j \in InFlight(r0) : j < n
      BY <1>1, <1>5
    <3> QED BY <3>1, <3>2 DEF Ahead
  <2> QED BY <1>3, <2>1
<1>9. \A b : Works(r0, n, b) => HasRun(b)'
  BY <1>2, <1>4, <1>8 DEF Works, HasRun
<1>10. ASSUME NEW f \in FenceType, NEW b, Ensures(f, b) PROVE Ensures(f, b)'
  <2>1. f.ring \in Rings
    BY DEF FenceType
  <2>2. \A r \in Rings : \A j : Works(r, j, b)' <=> Works(r, j, b)
    BY <1>4 DEF Works
  <2>3. CASE HasRun(b)
    BY <1>4, <2>3, RunKept DEF Ensures
  <2>4. ASSUME NEW j \in InFlight(f.ring), j <= f.value, Works(f.ring, j, b) PROVE Ensures(f, b)'
    BY <1>6, <1>9, <2>1, <2>2, <2>4 DEF Ensures
  <2> QED BY <1>10, <2>3, <2>4 DEF Ensures
<1>11. ASSUME NEW r \in Rings, NEW j \in InFlight(r), NEW b, Carries(r, j, b)
       PROVE  Carries(r, j, b)' /\ (r = r0 /\ j = n => HasRun(b)')
  <2>1. CASE Works(r, j, b)
    <3>1. Works(r, j, b)'
      BY <1>4, <2>1 DEF Works
    <3> QED BY <1>9, <2>1, <3>1 DEF Carries
  <2>2. ASSUME NEW f \in FenceType, ring[r][j] = WaitCmd(f), Ensures(f, b)
        PROVE  Carries(r, j, b)' /\ (r = r0 /\ j = n => HasRun(b)')
    <3>1. Carries(r, j, b)'
      BY <1>4, <1>10, <2>2 DEF Carries, WaitCmd
    <3>2. ASSUME r = r0, j = n PROVE HasRun(b)'
      <4>1. c.op = "wait" /\ c.on = f
        BY <1>2, <2>2, <3>2 DEF WaitCmd
      <4>2. get[f.ring] >= f.value
        BY <1>3, <4>1
      <4> QED BY <1>4, <2>2, <4>2, RetiredEnsures, RunKept
    <3> QED BY <3>1, <3>2
  <2> QED BY <1>11, <2>1, <2>2 DEF Carries
<1>12. ASSUME NEW r \in Rings, NEW b, Ready(r, b) PROVE Ready(r, b)'
  BY <1>4, <1>6, <1>11, <1>12, RunKept DEF Ready
<1>13. ASSUME NEW w \in WantType, NEW b, Drained(w, b) PROVE Drained(w, b)'
  <2>1. CASE b \in ran
    BY <1>4, <2>1 DEF Drained
  <2>2. ASSUME NEW r \in Rings, NEW j \in InFlight(r), j <= w[r], ring[r][j].op = "work",
               ring[r][j].id = b
        PROVE  Drained(w, b)'
    BY <1>2, <1>4, <1>6, <1>8, <2>2 DEF Drained
  <2> QED BY <1>13, <2>1, <2>2 DEF Drained
<1>14. ASSUME NEW r \in Rings, NEW i \in InFlight(r)', NEW b, Ahead(r, i, b) PROVE Ahead(r, i, b)'
  BY <1>4, <1>6, <1>11, <1>14, RunKept DEF Ahead
<1>15. ASSUME NEW id \in ran', NEW b \in before[id] PROVE HasRun(b)'
  <2>1. id \in ran \/ (c.op = "work" /\ id = c.id)
    BY <1>3
  <2>2. HasRun(b)
    BY <1>8, <2>1 DEF OrderOK
  <2> QED BY <1>4, <2>2, RunKept
<1> QED BY <1>4, <1>10, <1>12, <1>13, <1>14, <1>15 DEF Kept

----------------------------------------------------------------------------
(* What others keep                                                        *)

\* Nothing of the thread, of the stream changes.
Still(u) == pc'[u] = pc[u] /\ call'[u] = call[u] /\ must'[u] = must[u]
Frozen(s) == /\ own'[s] = own[s] /\ deps'[s] = deps[s] /\ tail'[s] = tail[s]
             /\ hasTail'[s] = hasTail[s] /\ extraWaits'[s] = extraWaits[s]
Same(s) == Frozen(s) /\ mutex'[s] = mutex[s]

LEMMA StreamKept ==
  ASSUME NEW s \in StreamSet, StreamOK(s), Frozen(s), Kept,
         AwaitOn(s) => AwaitOn(s)', PastOn(s) => PastOn(s)'
  PROVE  StreamOK(s)'
<1>1. \A g : OneOf(extraWaits[s], g)' <=> OneOf(extraWaits[s], g)
  BY DEF OneOf, Frozen
<1>2. ~hasTail'[s] => tail'[s].value = 0
  BY DEF StreamOK, Frozen
<1>3. ASSUME ~AwaitOn(s)', NEW f \in FenceType, f = tail'[s], NEW b \in own'[s] PROVE Ensures(f, b)'
  BY <1>3 DEF StreamOK, Frozen, Kept
<1>4. ASSUME ~PastOn(s)', ~sticky', NEW f \in FenceType, f = tail'[s], NEW b \in deps'[s]
      PROVE  \/ Ensures(f, b)'
             \/ \E g \in FenceType : OneOf(extraWaits[s], g)' /\ Ensures(g, b)'
  BY <1>1, <1>4 DEF StreamOK, Frozen, Kept
<1> QED BY <1>2, <1>3, <1>4 DEF StreamOK

LEMMA CallKept == ASSUME NEW u \in Threads, Still(u), CallOK(u), Kept PROVE CallOK(u)'
<1>1. ASSUME pc[u] \in {"record", "push"}, NEW f \in FenceType, f = call[u].fence,
             NEW b \in call[u].all
      PROVE  Ensures(f, b)'
  BY <1>1 DEF CallOK, Kept
<1>2. ASSUME pc[u] = "sync", NEW f \in FenceType, f = call[u].fence, NEW b \in must[u]
      PROVE  Ensures(f, b)'
  BY <1>2 DEF CallOK, Kept
<1>3. ASSUME pc[u] = "drain", call[u].kind = "sync", NEW w \in WantType, w = call[u].want,
             NEW b \in must[u]
      PROVE  Drained(w, b)'
  BY <1>3 DEF CallOK, Kept
<1>4. pc[u] = "synced" => \A b \in must[u] : HasRun(b)'
  BY RunKept DEF CallOK, Kept
<1>5. /\ pc[u] = "idle" => call[u] = NoCall
      /\ pc[u] = "unpinned" => call[u].kind = "free"
      /\ pc[u] = "drain" => call[u].want \in WantType
  BY DEF CallOK
<1>6. pc'[u] = pc[u] /\ call'[u] = call[u] /\ must'[u] = must[u]
  BY DEF Still
<1> QED BY <1>1, <1>2, <1>3, <1>4, <1>5, <1>6 DEF CallOK

LEMMA SubmitKept ==
  ASSUME NEW u \in Threads, NEW s \in StreamSet, Still(u), SubmitOK(u, s), Kept,
         channelOf' = channelOf,
         Holding(u) => own'[s] = own[s] /\ deps'[s] = deps[s] /\ tail'[s] = tail[s]
  PROVE  SubmitOK(u, s)'
<1>1. RingOf(u)' = RingOf(u)
  BY DEF RingOf, Still
<1>2. \A g : OneOf(call[u].todo, g)' <=> OneOf(call[u].todo, g)
  BY DEF OneOf, Still
<1>3. ASSUME pc[u] = "extra", ~sticky', NEW r \in Rings, NEW f \in FenceType, r = RingOf(u), f = tail[s],
             NEW b \in deps[s]
      PROVE  \/ Ensures(f, b)' \/ Ready(r, b)'
             \/ \E g \in FenceType : OneOf(call[u].todo, g)' /\ Ensures(g, b)'
  <2>1. \/ Ensures(f, b) \/ Ready(r, b)
        \/ \E g \in FenceType : OneOf(call[u].todo, g) /\ Ensures(g, b)
    BY <1>3 DEF SubmitOK, Kept
  <2> QED BY <1>2, <2>1 DEF Kept
<1>4. ASSUME pc[u] = "tail", ~sticky', NEW r \in Rings, NEW f \in FenceType, r = RingOf(u), f = tail[s],
             NEW b \in deps[s]
      PROVE  Ensures(f, b)' \/ Ready(r, b)'
  BY <1>4 DEF SubmitOK, Kept
<1>5. ASSUME pc[u] = "command" \/ (pc[u] = "check" /\ ~sticky'), NEW r \in Rings, r = RingOf(u),
             NEW b \in own[s] \cup deps[s]
      PROVE  Ready(r, b)'
  BY <1>5 DEF SubmitOK, Kept
<1>6. ASSUME pc[u] = "await", NEW f \in FenceType, f = call[u].fence
      PROVE  f.ring = RingOf(u) /\ \A b \in own[s] \cup deps[s] : Ensures(f, b)'
  BY <1>6 DEF SubmitOK, Kept
<1>7. pc'[u] = pc[u] /\ call'[u] = call[u]
  BY DEF Still
<1>8. pc[u] \in {"extra", "tail", "check", "command", "await"} =>
        own'[s] = own[s] /\ deps'[s] = deps[s] /\ tail'[s] = tail[s]
  BY DEF Holding
<1> QED BY <1>1, <1>3, <1>4, <1>5, <1>6, <1>7, <1>8 DEF SubmitOK

\* A step of t, within what it is allowed to touch: a stream s0 that no other
\* thread is submitting to.
LEMMA StepInv ==
  ASSUME StreamsInv, TypeOK', Kept, IdsOK', OrderOK', NEW t \in Threads, NEW s0 \in StreamSet,
         \A u \in Threads \ {t} : Still(u), channelOf' = channelOf,
         \A s \in StreamSet \ {s0} : Same(s),
         \A u \in Threads \ {t} : Holding(u) /\ call[u].stream = s0 => Same(s0),
         Holding(t) => call[t].stream = s0,
         ThreadOK(t)', StreamOK(s0)', \A e \in Events : EventOK(e)', BuffersOK'
  PROVE  StreamsInv'
<1>0. TypeOK
  BY DEF StreamsInv
<1>1. ASSUME NEW u \in Threads \ {t} PROVE ThreadOK(u)'
  <2>1. Still(u) /\ ThreadOK(u) /\ call[u].stream \in StreamSet
    BY <1>0 DEF StreamsInv, TypeOK, CallType
  <2>2. PICK s \in StreamSet : s = call[u].stream
    BY <2>1
  <2>3. Holding(u) => Same(s)
    BY <2>2
  <2>4. SubmitOK(u, s)'
    BY <2>1, <2>2, <2>3, SubmitKept DEF ThreadOK, Same, Frozen
  <2>5. CallOK(u)'
    BY <2>1, CallKept DEF ThreadOK
  <2>6. LockOK(u)'
    BY <2>1, <2>2, <2>3 DEF ThreadOK, LockOK, Holding, Still, Same, Frozen
  <2>7. call'[u].stream = s
    BY <2>1, <2>2 DEF Still
  <2> QED BY <2>4, <2>5, <2>6, <2>7 DEF ThreadOK
<1>2. ASSUME NEW s \in StreamSet \ {s0} PROVE StreamOK(s)'
  <2>1. AwaitOn(s) => AwaitOn(s)'
    <3>1. ASSUME NEW u \in Threads, pc[u] = "await", call[u].stream = s PROVE AwaitOn(s)'
      <4>1. u # t
        BY <3>1 DEF Holding
      <4> QED BY <3>1, <4>1 DEF AwaitOn, Still
    <3> QED BY <3>1 DEF AwaitOn
  <2>2. PastOn(s) => PastOn(s)'
    <3>1. ASSUME NEW u \in Threads, Past(u), call[u].stream = s PROVE PastOn(s)'
      <4>1. u # t
        BY <3>1 DEF Holding, Past
      <4> QED BY <3>1, <4>1 DEF PastOn, Past, Still
    <3> QED BY <3>1 DEF PastOn
  <2> QED BY <2>1, <2>2, StreamKept DEF StreamsInv, Same
<1> QED BY <1>1, <1>2 DEF StreamsInv

\* A thread that holds a stream's lock is alone on it.
LEMMA Alone ==
  ASSUME StreamsInv, NEW t \in Threads, Holding(t), NEW u \in Threads \ {t}, Holding(u)
  PROVE  call[u].stream # call[t].stream
BY DEF StreamsInv, ThreadOK, LockOK

LEMMA NobodyOn ==
  ASSUME StreamsInv, NEW s \in StreamSet, mutex[s] = NoOne, NEW u \in Threads, Holding(u)
  PROVE  call[u].stream # s
BY StreamAssumption DEF StreamsInv, ThreadOK, LockOK

----------------------------------------------------------------------------
(* Types                                                                   *)

LEMMA NoCallType == NoFence \in FenceType /\ NoCall \in CallType
<1>1. \E r \in Rings : TRUE
  <2>1. PICK k \in Channels : TRUE
    BY StreamAssumption
  <2>2. <<"copy", k>> \in Rings
    BY <2>1 DEF Rings, Engines
  <2> QED BY <2>2
<1>2. NoFence \in FenceType
  BY <1>1 DEF NoFence, FenceAt, FenceType
<1>3. /\ (CHOOSE s \in StreamSet : TRUE) \in StreamSet
      /\ (CHOOSE e \in Events : TRUE) \in Events
  BY StreamAssumption
<1>4. <<>> \in Seq(FenceType)
  OBVIOUS
<1> QED BY <1>2, <1>3, <1>4 DEF NoCall, CallType, KindType, Engines

LEMMA RingOfType == ASSUME TypeOK, NEW t \in Threads PROVE RingOf(t) \in Rings
BY DEF TypeOK, CallType, RingOf, Rings

\* A fence is a ring and a value.
LEMMA FenceAtType ==
  ASSUME NEW r \in Rings, NEW v \in Nat
  PROVE  FenceAt(r, v) \in FenceType /\ FenceAt(r, v).ring = r /\ FenceAt(r, v).value = v
BY DEF FenceAt, FenceType

\* One thread's position and call change.
LEMMA ThreadType ==
  ASSUME TypeOK, NEW t \in Threads, NEW l \in Labels, NEW c \in CallType,
         pc' = [pc EXCEPT ![t] = l], call' = [call EXCEPT ![t] = c]
  PROVE  /\ pc' \in [Threads -> Labels] /\ call' \in [Threads -> CallType]
         /\ pc'[t] = l /\ call'[t] = c
         /\ \A u \in Threads \ {t} : pc'[u] = pc[u] /\ call'[u] = call[u]
BY DEF TypeOK

----------------------------------------------------------------------------
(* Steps that leave the rings alone                                        *)

LEMMA QuietRings ==
  ASSUME TypeOK, TypeOK', IdsOK, OrderOK, UNCHANGED <<ring, get, sticky, next, before, ran>>,
         lapsed => lapsed'
  PROVE  Kept /\ IdsOK' /\ OrderOK'
<1>1. Grows
  BY DEF Grows, TypeOK
<1>2. Kept
  BY <1>1, GrowKept
<1>3. IdsOK'
  BY DEF IdsOK, Published, InFlight
<1>4. \A r \in Rings : InFlight(r)' = InFlight(r)
  BY DEF InFlight
<1>5. ASSUME NEW r \in Rings, NEW j, NEW b, Carries(r, j, b) PROVE Carries(r, j, b)'
  <2>1. CASE Works(r, j, b)
    BY <2>1 DEF Carries, Works
  <2>2. CASE \E f \in FenceType : ring[r][j] = WaitCmd(f) /\ Ensures(f, b)
    BY <1>2, <2>2 DEF Carries, WaitCmd, Kept
  <2> QED BY <1>5, <2>1, <2>2 DEF Carries
<1>6. \A r \in Rings : \A i, b : Ahead(r, i, b) => Ahead(r, i, b)'
  BY <1>4, <1>5 DEF Ahead, HasRun
<1>7. \A id \in ran' : \A b \in before'[id] : HasRun(b)'
  BY DEF OrderOK, HasRun
<1>8. ASSUME NEW r \in Rings, NEW i \in InFlight(r), ring[r][i].op = "work",
             NEW b \in before[ring[r][i].id]
      PROVE  Ahead(r, i, b)'
  BY <1>6, <1>8 DEF OrderOK
<1> QED BY <1>2, <1>3, <1>4, <1>7, <1>8 DEF OrderOK

LEMMA EventsKept ==
  ASSUME StreamsInv, Kept, at' = at, captured' = captured
  PROVE  \A e \in Events : EventOK(e)'
BY DEF StreamsInv, EventOK, Kept

\* Buffers while no one frees any: a step of a thread that works on none, on
\* the one it had, or on one that is there to stay.
LEMMA BuffersKept ==
  ASSUME StreamsInv, TypeOK', Kept, UNCHANGED <<live, pins>>, NEW t \in Threads,
         \A u \in Threads \ {t} : pc'[u] = pc[u] /\ call'[u] = call[u],
         call[t].kind # "free", call'[t].kind # "free",
         \/ call'[t].buf \in {Pageable, call[t].buf}
         \/ call'[t].buf \in live /\ ~BeingFreed(call'[t].buf),
         next' \in {next, next + 1}, \A id \in 1 .. next - 1 : dma'[id] = dma[id],
         next' = next + 1 => dma'[next] \in {Pageable, call[t].buf}
  PROVE  BuffersOK'
<1>1. /\ next \in Nat /\ next' \in Nat /\ next >= 1 /\ Pageable \notin Buffers
      /\ BuffersOK /\ live \subseteq Buffers
      /\ \A id \in 1 .. next' - 1 : id \in 1 .. next - 1 \/ (id = next /\ next' = next + 1)
  <2>1. /\ next \in Nat \ {0} /\ next' \in Nat \ {0} /\ Pageable \notin Buffers
        /\ BuffersOK /\ live \subseteq Buffers
    BY StreamAssumption DEF StreamsInv, TypeOK
  <2>2. next >= 1
    BY <2>1
  <2>3. ASSUME NEW id \in 1 .. next' - 1
        PROVE  id \in 1 .. next - 1 \/ (id = next /\ next' = next + 1)
    <3>1. CASE next' = next
      BY <2>1, <2>3, <3>1
    <3>2. CASE next' = next + 1
      <4>1. id \in Nat /\ 1 <= id /\ id <= next
        BY <2>1, <2>3, <3>2
      <4> QED BY <2>1, <3>2, <4>1
    <3> QED BY <3>1, <3>2
  <2> QED BY <2>1, <2>2, <2>3
<1>2. ASSUME NEW u \in Threads \ {t}, call[u].kind = "free"
      PROVE  /\ pc[u] \in {"unpinned", "drain"} /\ call[u].buf \in Buffers /\ call[u].buf \notin pins
             /\ \A v \in Threads \ {u} : call[v].buf # call[u].buf
             /\ call'[t].buf # call[u].buf
  <2>1. /\ pc[u] \in {"unpinned", "drain"} /\ call[u].buf \in Buffers /\ call[u].buf \notin pins
        /\ \A v \in Threads \ {u} : call[v].buf # call[u].buf
    BY <1>1, <1>2 DEF BuffersOK, FreeOK
  <2> QED BY <1>1, <1>2, <2>1 DEF BeingFreed
<1>3. ASSUME NEW id \in 1 .. next' - 1, dma'[id] \in Buffers, id \notin ran'
      PROVE  dma'[id] \in live
  <2>1. CASE id \in 1 .. next - 1
    BY <1>1, <1>3, <2>1 DEF BuffersOK, BuffersLive, Kept
  <2>2. CASE id = next /\ next' = next + 1
    BY <1>1, <1>3, <2>2 DEF BuffersOK
  <2> QED BY <1>1, <2>1, <2>2
<1>4. ASSUME NEW u \in Threads, call'[u].buf \in Buffers PROVE call'[u].buf \in live
  BY <1>1, <1>4 DEF BuffersOK
<1>5. ASSUME NEW u \in Threads \ {t}, call[u].kind = "free", pc[u] = "drain",
             NEW w \in WantType, w = call[u].want, NEW id \in 1 .. next' - 1,
             dma'[id] = call[u].buf
      PROVE  Drained(w, id)'
  <2>1. CASE id \in 1 .. next - 1
    <3>1. Drained(w, id)
      BY <1>1, <1>5, <2>1 DEF BuffersOK, FreeOK
    <3> QED BY <3>1 DEF Kept
  <2>2. CASE id = next /\ next' = next + 1
    BY <1>1, <1>2, <1>5, <2>2
  <2> QED BY <1>1, <2>1, <2>2
<1>6. ASSUME NEW u \in Threads PROVE FreeOK(u)'
  <2>1. CASE u = t
    BY <2>1 DEF FreeOK
  <2>2. CASE u # t
    <3>1. pc'[u] = pc[u] /\ call'[u] = call[u]
      BY <2>2
    <3>2. ASSUME call[u].kind = "free" PROVE \A v \in Threads \ {u} : call'[v].buf # call[u].buf
      BY <1>2, <2>2, <3>2
    <3> QED BY <1>2, <1>5, <2>2, <3>1, <3>2 DEF FreeOK
  <2> QED BY <2>1, <2>2
<1>7. pins' \subseteq live'
  BY <1>1 DEF BuffersOK, BuffersLive
<1> QED BY <1>3, <1>4, <1>6, <1>7 DEF BuffersOK, BuffersLive

\* A step of a thread that submits to no stream.
LEMMA CalmStep ==
  ASSUME StreamsInv, TypeOK', UNCHANGED <<ring, get, sticky, next, before, ran, lapsed, channelOf>>,
         NEW t \in Threads, ~Holding(t), \A u \in Threads \ {t} : Still(u),
         \A s \in StreamSet : Same(s),
         ThreadOK(t)', \A e \in Events : EventOK(e)', BuffersOK'
  PROVE  StreamsInv'
<1>1. TypeOK /\ IdsOK /\ OrderOK
  BY DEF StreamsInv
<1>2. Kept /\ IdsOK' /\ OrderOK'
  BY <1>1, QuietRings
<1>3. PICK s0 \in StreamSet : TRUE
  BY StreamAssumption
<1>4. AwaitOn(s0) => AwaitOn(s0)'
  <2>1. ASSUME NEW u \in Threads, pc[u] = "await", call[u].stream = s0 PROVE AwaitOn(s0)'
    BY <2>1 DEF AwaitOn, Still, Holding
  <2> QED BY <2>1 DEF AwaitOn
<1>5. PastOn(s0) => PastOn(s0)'
  <2>1. ASSUME NEW u \in Threads, Past(u), call[u].stream = s0 PROVE PastOn(s0)'
    BY <2>1 DEF PastOn, Past, Still, Holding
  <2> QED BY <2>1 DEF PastOn
<1>6. StreamOK(s0)'
  BY <1>2, <1>4, <1>5, StreamKept DEF StreamsInv, Same
<1> QED BY <1>2, <1>6, StepInv

----------------------------------------------------------------------------
(* Calls begin                                                             *)

\* An idle thread is on no stream and on no buffer.
LEMMA IdleThread ==
  ASSUME StreamsInv, NEW t \in Threads, pc[t] = "idle"
  PROVE  ~Holding(t) /\ call[t].kind = "none" /\ call[t].buf = Pageable
<1>1. call[t] = NoCall
  BY DEF StreamsInv, ThreadOK, CallOK
<1>2. NoCall.kind = "none" /\ NoCall.buf = Pageable
  BY DEF NoCall
<1> QED BY <1>1, <1>2 DEF Holding

LEMMA BeginStep ==
  ASSUME StreamsInv, NEW t \in Threads, NEW l \in {"lock", "push", "sync", "drain"},
         NEW c \in CallType, NEW m \in SUBSET Nat, pc[t] = "idle",
         pc' = [pc EXCEPT ![t] = l], call' = [call EXCEPT ![t] = c],
         must' = [must EXCEPT ![t] = m],
         UNCHANGED <<deviceVars, runtimeVars, hostVars, next, before, dma, ran, lapsed, own, deps,
                     captured, channelOf>>,
         c.kind # "free", c.buf = Pageable \/ (c.buf \in live /\ ~BeingFreed(c.buf)),
         l = "push" => \A f \in FenceType : f = c.fence => \A b \in c.all : Ensures(f, b),
         l = "sync" => \A f \in FenceType : f = c.fence => \A b \in m : Ensures(f, b),
         l = "drain" => c.want \in WantType /\ \A w \in WantType : w = c.want => \A b \in m : Drained(w, b)
  PROVE  StreamsInv'
<1>1. TypeOK /\ IdsOK /\ OrderOK
  BY DEF StreamsInv
<1>2. l \in Labels
  BY DEF Labels
<1>3. /\ pc' \in [Threads -> Labels] /\ call' \in [Threads -> CallType]
      /\ pc'[t] = l /\ call'[t] = c
      /\ \A u \in Threads \ {t} : pc'[u] = pc[u] /\ call'[u] = call[u]
  BY <1>1, <1>2, ThreadType
<1>4. /\ must' \in [Threads -> SUBSET Nat] /\ must'[t] = m
      /\ \A u \in Threads \ {t} : must'[u] = must[u]
  BY <1>1 DEF TypeOK
<1>5. /\ UNCHANGED <<ring, get, sticky, next, before, dma, ran, lapsed, own, deps, captured, channelOf>>
      /\ UNCHANGED <<tail, hasTail, extraWaits, mutex, at, live, pins>>
  BY DEF deviceVars, runtimeVars, hostVars
<1>6. TypeOK'
  BY <1>1, <1>3, <1>4, <1>5 DEF TypeOK
<1>7. Kept
  BY <1>1, <1>5, <1>6, QuietRings
<1>8. \A u \in Threads \ {t} : Still(u)
  BY <1>3, <1>4 DEF Still
<1>9. \A s \in StreamSet : Same(s)
  BY <1>5 DEF Same, Frozen
<1>10. ~Holding(t) /\ call[t].kind = "none" /\ call[t].buf = Pageable
  BY IdleThread
<1>11. \A e \in Events : EventOK(e)'
  BY <1>5, <1>7, EventsKept
<1>12. next \in Nat
  BY <1>1 DEF TypeOK
<1>13. BuffersOK'
  BY <1>3, <1>5, <1>6, <1>7, <1>10, <1>12, BuffersKept
<1>14. CallOK(t)'
  <2>1. ASSUME l = "push", NEW f \in FenceType, f = c.fence, NEW b \in c.all PROVE Ensures(f, b)'
    BY <1>7, <2>1 DEF Kept
  <2>2. ASSUME l = "sync", NEW f \in FenceType, f = c.fence, NEW b \in m PROVE Ensures(f, b)'
    BY <1>7, <2>2 DEF Kept
  <2>3. ASSUME l = "drain", NEW w \in WantType, w = c.want, NEW b \in m PROVE Drained(w, b)'
    BY <1>7, <2>3 DEF Kept
  <2> QED BY <1>3, <1>4, <2>1, <2>2, <2>3 DEF CallOK
<1>15. LockOK(t)' /\ \A s \in StreamSet : SubmitOK(t, s)'
  BY <1>3 DEF LockOK, SubmitOK, Holding
<1>16. ThreadOK(t)'
  BY <1>14, <1>15 DEF ThreadOK
<1> QED BY <1>5, <1>6, <1>8, <1>9, <1>10, <1>11, <1>13, <1>16, CalmStep

LEMMA BeginInv ==
  ASSUME StreamsInv, NEW t \in Threads, NEW s \in StreamSet, NEW kind \in Kinds, Begin(t, s, kind)
  PROVE  StreamsInv'
<1>1. PICK c : c = [NoCall EXCEPT !.kind = kind, !.stream = s, !.engine = EngineFor(kind)]
  OBVIOUS
<1>2. /\ c \in CallType /\ c.kind # "free" /\ c.buf = Pageable
  <2>1. kind \in KindType /\ kind # "free" /\ EngineFor(kind) \in Engines
    BY DEF Kinds, KindType, EngineFor, Engines
  <2>2. NoCall.buf = Pageable
    BY DEF NoCall
  <2> QED BY <1>1, <2>1, <2>2, NoCallType DEF CallType
<1>3. /\ pc[t] = "idle" /\ pc' = [pc EXCEPT ![t] = "lock"] /\ call' = [call EXCEPT ![t] = c]
      /\ UNCHANGED <<deviceVars, runtimeVars, hostVars, next, before, dma, ran, lapsed, own, deps,
                     captured, channelOf>>
      /\ must' = must
  BY <1>1 DEF Begin, Call, Goto, ghostVars
<1>4. must[t] \in SUBSET Nat /\ must' = [must EXCEPT ![t] = must[t]]
  BY <1>3 DEF StreamsInv, TypeOK
<1> QED BY <1>2, <1>3, <1>4, BeginStep

LEMMA BeginBufferInv ==
  ASSUME StreamsInv, NEW t \in Threads, NEW s \in StreamSet, NEW kind \in {"h2d", "d2h"},
         NEW b \in Buffers, NEW sync \in BOOLEAN, BeginBuffer(t, s, kind, b, sync)
  PROVE  StreamsInv'
<1>1. PICK c : c = [NoCall EXCEPT !.kind = kind, !.stream = s, !.buf = b,
                                  !.engine = "copy", !.sync = sync]
  OBVIOUS
<1>2. /\ c \in CallType /\ c.kind # "free" /\ c.buf = b
  <2>1. kind \in KindType /\ kind # "free" /\ "copy" \in Engines
    BY DEF KindType, Engines
  <2> QED BY <1>1, <2>1, NoCallType DEF CallType
<1>3. /\ pc[t] = "idle" /\ pc' = [pc EXCEPT ![t] = "lock"] /\ call' = [call EXCEPT ![t] = c]
      /\ UNCHANGED <<deviceVars, runtimeVars, hostVars, next, before, dma, ran, lapsed, own, deps,
                     captured, channelOf>>
      /\ must' = must /\ b \in live /\ ~BeingFreed(b)
  BY <1>1 DEF BeginBuffer, Call, Goto, ghostVars
<1>4. must[t] \in SUBSET Nat /\ must' = [must EXCEPT ![t] = must[t]]
  BY <1>3 DEF StreamsInv, TypeOK
<1> QED BY <1>2, <1>3, <1>4, BeginStep

LEMMA RecordInv ==
  ASSUME StreamsInv, NEW t \in Threads, NEW s \in StreamSet, NEW e \in Events, Record(t, s, e)
  PROVE  StreamsInv'
<1>1. PICK n \in Engines : n = IF hasTail[s] THEN tail[s].ring[1] ELSE "compute"
  <2>1. tail[s] \in FenceType
    BY DEF StreamsInv, TypeOK
  <2>2. tail[s].ring \in Rings
    BY <2>1 DEF FenceType
  <2> QED BY <2>2 DEF Rings, Engines
<1>2. PICK c : c = [NoCall EXCEPT !.kind = "nop", !.stream = s, !.event = e, !.engine = n]
  OBVIOUS
<1>3. /\ c \in CallType /\ c.kind # "free" /\ c.buf = Pageable
  <2>1. "nop" \in KindType /\ NoCall.buf = Pageable
    BY DEF KindType, NoCall
  <2> QED BY <1>2, <2>1, NoCallType DEF CallType
<1>4. /\ pc[t] = "idle" /\ pc' = [pc EXCEPT ![t] = "lock"] /\ call' = [call EXCEPT ![t] = c]
      /\ UNCHANGED <<deviceVars, runtimeVars, hostVars, next, before, dma, ran, lapsed, own, deps,
                     captured, channelOf>>
      /\ must' = must
  BY <1>1, <1>2 DEF Record, Call, Goto, ghostVars
<1>5. must[t] \in SUBSET Nat /\ must' = [must EXCEPT ![t] = must[t]]
  BY <1>4 DEF StreamsInv, TypeOK
<1> QED BY <1>3, <1>4, <1>5, BeginStep

LEMMA ReadEventInv ==
  ASSUME StreamsInv, NEW t \in Threads, NEW s \in StreamSet, NEW e \in Events, ReadEvent(t, s, e)
  PROVE  StreamsInv'
<1>1. PICK g \in FenceType : g = at[e]
  BY DEF StreamsInv, TypeOK
<1>2. PICK a \in SUBSET Nat : a = captured[e]
  BY DEF StreamsInv, TypeOK
<1>3. PICK c : c = [NoCall EXCEPT !.kind = "wait", !.stream = s, !.fence = g, !.all = a]
  OBVIOUS
<1>4. /\ c \in CallType /\ c.kind # "free" /\ c.buf = Pageable /\ c.fence = g /\ c.all = a
  <2>1. "wait" \in KindType /\ NoCall.buf = Pageable
    BY DEF KindType, NoCall
  <2> QED BY <1>3, <2>1, NoCallType DEF CallType
<1>5. /\ pc[t] = "idle" /\ pc' = [pc EXCEPT ![t] = "push"] /\ call' = [call EXCEPT ![t] = c]
      /\ UNCHANGED <<deviceVars, runtimeVars, hostVars, next, before, dma, ran, lapsed, own, deps,
                     captured, channelOf>>
      /\ must' = must
  BY <1>1, <1>2, <1>3 DEF ReadEvent, Call, Goto, ghostVars
<1>6. must[t] \in SUBSET Nat /\ must' = [must EXCEPT ![t] = must[t]]
  BY <1>5 DEF StreamsInv, TypeOK
<1>7. \A f \in FenceType : f = c.fence => \A b \in c.all : Ensures(f, b)
  BY <1>1, <1>2, <1>4 DEF StreamsInv, EventOK
<1> QED BY <1>4, <1>5, <1>6, <1>7, BeginStep

\* sgStreamSynchronize and sgEventSynchronize.
LEMMA SynchronizeInv ==
  ASSUME StreamsInv, NEW t \in Threads, NEW g \in FenceType, NEW m \in SUBSET Nat,
         Synchronize(t, g, m), \A b \in m : Ensures(g, b)
  PROVE  StreamsInv'
<1>1. PICK c : c = [NoCall EXCEPT !.kind = "sync", !.fence = g]
  OBVIOUS
<1>2. /\ c \in CallType /\ c.kind # "free" /\ c.buf = Pageable /\ c.fence = g
  <2>1. "sync" \in KindType /\ NoCall.buf = Pageable
    BY DEF KindType, NoCall
  <2> QED BY <1>1, <2>1, NoCallType DEF CallType
<1>3. /\ pc[t] = "idle" /\ pc' = [pc EXCEPT ![t] = "sync"] /\ call' = [call EXCEPT ![t] = c]
      /\ UNCHANGED <<deviceVars, runtimeVars, hostVars, next, before, dma, ran, lapsed, own, deps,
                     captured, channelOf>>
      /\ must' = [must EXCEPT ![t] = m]
  BY <1>1 DEF Synchronize, Call, Goto
<1> QED BY <1>2, <1>3, BeginStep, ZenonT(60)

LEMMA StreamSyncInv ==
  ASSUME StreamsInv, NEW t \in Threads, NEW s \in StreamSet, StreamSync(t, s)
  PROVE  StreamsInv'
<1>1. PICK g \in FenceType : g = tail[s]
  BY DEF StreamsInv, TypeOK
<1>2. PICK m \in SUBSET Nat : m = own[s]
  BY DEF StreamsInv, TypeOK
<1>3. Synchronize(t, g, m) /\ mutex[s] = NoOne
  BY <1>1, <1>2 DEF StreamSync
<1>4. ~AwaitOn(s)
  BY <1>3, NobodyOn DEF AwaitOn, Holding
<1>5. \A b \in m : Ensures(g, b)
  BY <1>1, <1>2, <1>4 DEF StreamsInv, StreamOK
<1> QED BY <1>3, <1>5, SynchronizeInv

LEMMA EventSyncInv ==
  ASSUME StreamsInv, NEW t \in Threads, NEW e \in Events, EventSync(t, e)
  PROVE  StreamsInv'
<1>1. PICK g \in FenceType : g = at[e]
  BY DEF StreamsInv, TypeOK
<1>2. PICK m \in SUBSET Nat : m = captured[e]
  BY DEF StreamsInv, TypeOK
<1>3. Synchronize(t, g, m)
  BY <1>1, <1>2 DEF EventSync
<1>4. \A b \in m : Ensures(g, b)
  BY <1>1, <1>2 DEF StreamsInv, EventOK
<1> QED BY <1>3, <1>4, SynchronizeInv

\* Every published command is within a snapshot of every PUT.
LEMMA PutsDrain ==
  ASSUME TypeOK, IdsOK
  PROVE  Puts \in WantType /\ \A b \in 1 .. next - 1 : Drained(Puts, b)
<1>1. \A r \in Rings : Len(ring[r]) \in Nat /\ get[r] \in Nat
  BY DEF TypeOK
<1>2. Puts \in WantType
  BY <1>1 DEF Puts, WantType
<1>3. \A r \in Rings : \A j \in InFlight(r) : j <= Puts[r]
  BY <1>1 DEF Puts, InFlight
<1>4. ASSUME NEW b \in 1 .. next - 1 PROVE Drained(Puts, b)
  <2>1. Published(b)
    BY DEF IdsOK
  <2> QED BY <1>3, <2>1 DEF Published, Drained
<1> QED BY <1>2, <1>4

LEMMA DeviceSyncInv ==
  ASSUME StreamsInv, NEW t \in Threads, DeviceSync(t) PROVE StreamsInv'
<1>0. TypeOK /\ IdsOK /\ next \in Nat
  BY DEF StreamsInv, TypeOK
<1>1. PICK w \in WantType : w = Puts /\ \A b \in 1 .. next - 1 : Drained(w, b)
  BY <1>0, PutsDrain
<1>2. PICK c : c = [NoCall EXCEPT !.kind = "sync", !.want = w]
  OBVIOUS
<1>3. /\ c \in CallType /\ c.kind # "free" /\ c.buf = Pageable /\ c.want = w
  <2>1. "sync" \in KindType /\ NoCall.buf = Pageable
    BY DEF KindType, NoCall
  <2> QED BY <1>2, <2>1, NoCallType DEF CallType
<1>4. PICK m \in SUBSET Nat : m = 1 .. next - 1
  BY <1>0
<1>5. /\ pc[t] = "idle" /\ pc' = [pc EXCEPT ![t] = "drain"] /\ call' = [call EXCEPT ![t] = c]
      /\ UNCHANGED <<deviceVars, runtimeVars, hostVars, next, before, dma, ran, lapsed, own, deps,
                     captured, channelOf>>
      /\ must' = [must EXCEPT ![t] = m]
  BY <1>1, <1>2, <1>4 DEF DeviceSync, Call, Goto
<1> QED BY <1>1, <1>3, <1>4, <1>5, BeginStep, ZenonT(60)

----------------------------------------------------------------------------
(* Waiting ends                                                            *)

\* A thread moves on; its call, and what it waits for, may end.
LEMMA WaitStep ==
  ASSUME StreamsInv, NEW t \in Threads, ~Holding(t), call[t].kind # "free",
         NEW l \in {"synced", "idle"}, NEW c \in {call[t], NoCall}, NEW m \in SUBSET Nat,
         pc' = [pc EXCEPT ![t] = l], call' = [call EXCEPT ![t] = c],
         must' = [must EXCEPT ![t] = m],
         UNCHANGED <<deviceVars, tail, hasTail, extraWaits, mutex, hostVars, next, before, dma,
                     ran, lapsed, own, deps, channelOf>>,
         at' \in [Events -> FenceType], captured' \in [Events -> SUBSET Nat],
         l = "idle" => c = NoCall, l = "synced" => \A b \in m : HasRun(b),
         Kept => \A e \in Events : EventOK(e)'
  PROVE  StreamsInv'
<1>1. TypeOK /\ IdsOK /\ OrderOK
  BY DEF StreamsInv
<1>2. l \in Labels /\ c \in CallType /\ c.kind # "free" /\ c.buf \in {Pageable, call[t].buf}
  <2>1. call[t] \in CallType
    BY <1>1 DEF TypeOK
  <2>2. NoCall.kind = "none" /\ NoCall.buf = Pageable
    BY DEF NoCall
  <2> QED BY <2>1, <2>2, NoCallType DEF Labels
<1>3. /\ pc' \in [Threads -> Labels] /\ call' \in [Threads -> CallType]
      /\ pc'[t] = l /\ call'[t] = c
      /\ \A u \in Threads \ {t} : pc'[u] = pc[u] /\ call'[u] = call[u]
  BY <1>1, <1>2, ThreadType
<1>4. /\ must' \in [Threads -> SUBSET Nat] /\ must'[t] = m
      /\ \A u \in Threads \ {t} : must'[u] = must[u]
  BY <1>1 DEF TypeOK
<1>5. /\ UNCHANGED <<ring, get, sticky, next, before, dma, ran, lapsed, own, deps, channelOf>>
      /\ UNCHANGED <<tail, hasTail, extraWaits, mutex, live, pins>>
  BY DEF deviceVars, hostVars
<1>6. TypeOK'
  BY <1>1, <1>3, <1>4, <1>5 DEF TypeOK
<1>7. Kept
  BY <1>1, <1>5, <1>6, QuietRings
<1>8. \A u \in Threads \ {t} : Still(u)
  BY <1>3, <1>4 DEF Still
<1>9. \A s \in StreamSet : Same(s)
  BY <1>5 DEF Same, Frozen
<1>12. next \in Nat
  BY <1>1 DEF TypeOK
<1>13. BuffersOK'
  BY <1>2, <1>3, <1>5, <1>6, <1>7, <1>12, BuffersKept
<1>14. CallOK(t)'
  BY <1>3, <1>4, <1>5 DEF CallOK, HasRun
<1>15. LockOK(t)' /\ \A s \in StreamSet : SubmitOK(t, s)'
  BY <1>3 DEF LockOK, SubmitOK, Holding
<1>16. ThreadOK(t)'
  BY <1>14, <1>15 DEF ThreadOK
<1> QED BY <1>5, <1>6, <1>7, <1>8, <1>9, <1>13, <1>16, CalmStep

\* A call that frees is where FreeHost has put it.
LEMMA NotFreeing ==
  ASSUME StreamsInv, NEW t \in Threads, pc[t] \notin {"unpinned", "drain"}
  PROVE  call[t].kind # "free"
BY DEF StreamsInv, BuffersOK, FreeOK

LEMMA SyncedInv ==
  ASSUME StreamsInv, NEW t \in Threads, Synced(t), UNCHANGED <<calls, channelOf, hostVars>>
  PROVE  StreamsInv'
<1>1. /\ pc[t] = "sync" /\ pc' = [pc EXCEPT ![t] = "synced"]
      /\ get[call[t].fence.ring] >= call[t].fence.value
      /\ UNCHANGED <<deviceVars, tail, hasTail, extraWaits, mutex, at, call, next, before, dma,
                     ran, lapsed, own, deps, captured, must>>
  BY DEF Synced, Goto, runtimeVars, ghostVars
<1>2. TypeOK /\ call[t] \in CallType
  BY DEF StreamsInv, TypeOK
<1>3. PICK f \in FenceType : f = call[t].fence
  BY <1>2 DEF CallType
<1>4. \A b \in must[t] : HasRun(b)
  <2>1. \A b \in must[t] : Ensures(f, b)
    BY <1>1, <1>3 DEF StreamsInv, ThreadOK, CallOK
  <2> QED BY <1>1, <1>2, <1>3, <2>1, RetiredEnsures
<1>5. /\ must' = [must EXCEPT ![t] = must[t]] /\ call' = [call EXCEPT ![t] = call[t]]
      /\ must[t] \in SUBSET Nat /\ at \in [Events -> FenceType] /\ captured \in [Events -> SUBSET Nat]
  BY <1>1, <1>2 DEF TypeOK
<1>6. Kept => \A e \in Events : EventOK(e)'
  BY <1>1, EventsKept
<1>7. ~Holding(t) /\ call[t].kind # "free"
  BY <1>1, NotFreeing DEF Holding
<1> QED BY <1>1, <1>4, <1>5, <1>6, <1>7, WaitStep

LEMMA SyncReturnInv ==
  ASSUME StreamsInv, NEW t \in Threads, SyncReturn(t), UNCHANGED <<calls, channelOf, hostVars>>
  PROVE  StreamsInv'
<1>1. /\ pc[t] = "synced" /\ pc' = [pc EXCEPT ![t] = "idle"]
      /\ call' = [call EXCEPT ![t] = NoCall] /\ must' = [must EXCEPT ![t] = {}]
      /\ UNCHANGED <<deviceVars, tail, hasTail, extraWaits, mutex, at, next, before, dma,
                     ran, lapsed, own, deps, captured>>
  BY DEF SyncReturn, Return, runtimeVars
<1>2. at \in [Events -> FenceType] /\ captured \in [Events -> SUBSET Nat]
  BY DEF StreamsInv, TypeOK
<1>6. Kept => \A e \in Events : EventOK(e)'
  BY <1>1, EventsKept
<1>7. ~Holding(t) /\ call[t].kind # "free"
  BY <1>1, NotFreeing DEF Holding
<1> QED BY <1>1, <1>2, <1>6, <1>7, WaitStep

\* What a snapshot drains has run once every ring has got there.
LEMMA RetiredDrains ==
  ASSUME TypeOK, NEW w \in WantType, AllRetired(w), NEW b, Drained(w, b) PROVE b \in ran
<1>1. ASSUME NEW r \in Rings, NEW j \in InFlight(r) PROVE ~(j <= w[r])
  <2>1. get[r] \in Nat /\ w[r] \in Nat /\ get[r] >= w[r] /\ Len(ring[r]) \in Nat
    BY DEF TypeOK, WantType, AllRetired
  <2> QED BY <2>1 DEF InFlight
<1> QED BY <1>1 DEF Drained

LEMMA DeviceSyncedInv ==
  ASSUME StreamsInv, NEW t \in Threads, DeviceSynced(t), UNCHANGED <<calls, channelOf, hostVars>>
  PROVE  StreamsInv'
<1>1. /\ pc[t] = "drain" /\ pc' = [pc EXCEPT ![t] = "synced"]
      /\ call[t].kind = "sync" /\ AllRetired(call[t].want)
      /\ UNCHANGED <<deviceVars, tail, hasTail, extraWaits, mutex, at, call, next, before, dma,
                     ran, lapsed, own, deps, captured, must>>
  BY DEF DeviceSynced, Goto, runtimeVars, ghostVars
<1>2. TypeOK
  BY DEF StreamsInv
<1>3. PICK w \in WantType : w = call[t].want
  BY <1>1 DEF StreamsInv, ThreadOK, CallOK
<1>4. \A b \in must[t] : HasRun(b)
  <2>1. \A b \in must[t] : Drained(w, b)
    BY <1>1, <1>3 DEF StreamsInv, ThreadOK, CallOK
  <2> QED BY <1>1, <1>2, <1>3, <2>1, RetiredDrains DEF HasRun
<1>5. /\ must' = [must EXCEPT ![t] = must[t]] /\ call' = [call EXCEPT ![t] = call[t]]
      /\ must[t] \in SUBSET Nat /\ at \in [Events -> FenceType] /\ captured \in [Events -> SUBSET Nat]
  BY <1>1, <1>2 DEF TypeOK
<1>6. Kept => \A e \in Events : EventOK(e)'
  BY <1>1, EventsKept
<1>7. ~Holding(t) /\ call[t].kind # "free"
  BY <1>1 DEF Holding
<1> QED BY <1>1, <1>4, <1>5, <1>6, <1>7, WaitStep

\* sgEventRecord ends: the event ensures what the NOP does.
LEMMA SetEventInv ==
  ASSUME StreamsInv, NEW t \in Threads, SetEvent(t), UNCHANGED <<calls, channelOf, hostVars>>
  PROVE  StreamsInv'
<1>0. TypeOK /\ call[t] \in CallType
  BY DEF StreamsInv, TypeOK
<1>1. PICK g \in FenceType : g = call[t].fence
  BY <1>0 DEF CallType
<1>2. PICK a \in SUBSET Nat : a = call[t].all
  BY <1>0 DEF CallType
<1>3. PICK e0 \in Events : e0 = call[t].event
  BY <1>0 DEF CallType
<1>4. /\ pc[t] = "record" /\ pc' = [pc EXCEPT ![t] = "idle"]
      /\ call' = [call EXCEPT ![t] = NoCall]
      /\ at' = [at EXCEPT ![e0] = g] /\ captured' = [captured EXCEPT ![e0] = a]
      /\ UNCHANGED <<deviceVars, tail, hasTail, extraWaits, mutex, next, before, dma, ran, lapsed, own,
                     deps, must>>
  BY <1>1, <1>2, <1>3 DEF SetEvent, Return
<1>5. /\ at' \in [Events -> FenceType] /\ captured' \in [Events -> SUBSET Nat]
      /\ at'[e0] = g /\ captured'[e0] = a
      /\ \A e \in Events \ {e0} : at'[e] = at[e] /\ captured'[e] = captured[e]
      /\ must' = [must EXCEPT ![t] = must[t]] /\ must[t] \in SUBSET Nat
  BY <1>0, <1>4 DEF TypeOK
<1>6. ASSUME Kept, NEW e \in Events PROVE EventOK(e)'
  <2>1. CASE e = e0
    <3>1. \A b \in a : Ensures(g, b)
      BY <1>1, <1>2, <1>4 DEF StreamsInv, ThreadOK, CallOK
    <3>2. \A b \in a : Ensures(g, b)'
      BY <1>6, <3>1 DEF Kept
    <3> QED BY <1>5, <2>1, <3>2 DEF EventOK
  <2>2. CASE e # e0
    BY <1>5, <1>6, <2>2 DEF StreamsInv, EventOK, Kept
  <2> QED BY <2>1, <2>2
<1>7. ~Holding(t) /\ call[t].kind # "free"
  BY <1>4, NotFreeing DEF Holding
<1> QED BY <1>4, <1>5, <1>6, <1>7, WaitStep

----------------------------------------------------------------------------
(* Host buffers come and go                                                *)

\* Buffers come, pins come and go, none on a buffer that is being freed.
LEMMA PinStep ==
  ASSUME StreamsInv, NEW t \in Threads, BufferCall(t), live \subseteq live', live' \subseteq Buffers,
         pins' \subseteq live', \A b \in pins' : b \in pins \/ ~BeingFreed(b)
  PROVE  StreamsInv'
<1>1. TypeOK /\ IdsOK /\ OrderOK /\ BuffersOK /\ ThreadOK(t)
  BY DEF StreamsInv
<1>2. /\ UNCHANGED <<ring, get, sticky, next, before, dma, ran, lapsed, own, deps, captured, must, channelOf>>
      /\ UNCHANGED <<tail, hasTail, extraWaits, mutex, at, pc, call>> /\ pc[t] = "idle"
  BY DEF BufferCall, deviceVars, runtimeVars, ghostVars
<1>3. TypeOK'
  BY <1>1, <1>2 DEF TypeOK
<1>4. Kept
  BY <1>1, <1>2, <1>3, QuietRings
<1>5. \A u \in Threads : Still(u)
  BY <1>2 DEF Still
<1>6. \A s \in StreamSet : Same(s)
  BY <1>2 DEF Same, Frozen
<1>7. \A e \in Events : EventOK(e)'
  BY <1>2, <1>4, EventsKept
<1>8. ~Holding(t)
  BY <1>2 DEF Holding
<1>9. ThreadOK(t)'
  <2>1. CallOK(t)'
    BY <1>1, <1>4, <1>5, CallKept DEF ThreadOK
  <2>2. LockOK(t)' /\ \A s \in StreamSet : SubmitOK(t, s)'
    BY <1>2 DEF LockOK, SubmitOK, Holding
  <2> QED BY <2>1, <2>2 DEF ThreadOK
<1>10. BuffersLive'
  BY <1>1, <1>2 DEF BuffersOK, BuffersLive
<1>11. ASSUME NEW u \in Threads PROVE FreeOK(u)'
  <2>1. ASSUME call[u].kind = "free"
        PROVE  /\ pc[u] \in {"unpinned", "drain"} /\ call[u].buf \in Buffers
               /\ call[u].buf \notin pins /\ \A v \in Threads \ {u} : call[v].buf # call[u].buf
    BY <1>1, <2>1 DEF BuffersOK, FreeOK
  <2>2. call[u].kind = "free" => call[u].buf \notin pins'
    BY <2>1 DEF BeingFreed
  <2>3. ASSUME call[u].kind = "free", pc[u] = "drain", NEW w \in WantType, w = call[u].want,
               NEW id \in 1 .. next - 1, dma[id] = call[u].buf
        PROVE  Drained(w, id)'
    <3>1. Drained(w, id)
      BY <1>1, <2>3 DEF BuffersOK, FreeOK
    <3> QED BY <1>4, <3>1 DEF Kept
  <2> QED BY <1>2, <2>1, <2>2, <2>3 DEF FreeOK
<1>12. \A u \in Threads : call'[u].buf \in Buffers => call'[u].buf \in live'
  BY <1>1, <1>2 DEF BuffersOK
<1>13. BuffersOK'
  BY <1>10, <1>11, <1>12 DEF BuffersOK
<1> QED BY <1>2, <1>3, <1>5, <1>6, <1>7, <1>8, <1>9, <1>13, CalmStep

LEMMA PinInv ==
  ASSUME StreamsInv, NEW t \in Threads, NEW b \in Buffers,
         MallocHost(t, b) \/ HostRegister(t, b) \/ HostUnregister(t, b)
  PROVE  StreamsInv'
<1>1. /\ live \subseteq Buffers /\ pins \subseteq live
      /\ \A u \in Threads : call[u].buf \in Buffers => call[u].buf \in live
  BY DEF StreamsInv, TypeOK, BuffersOK, BuffersLive
<1>2. CASE MallocHost(t, b)
  <2>1. b \notin live /\ live' = live \cup {b} /\ pins' = pins \cup {b} /\ BufferCall(t)
    BY <1>2 DEF MallocHost
  <2>2. ~BeingFreed(b)
    BY <1>1, <2>1 DEF BeingFreed
  <2>3. /\ live \subseteq live' /\ live' \subseteq Buffers /\ pins' \subseteq live'
        /\ \A c \in pins' : c \in pins \/ ~BeingFreed(c)
    BY <1>1, <2>1, <2>2
  <2> QED BY <2>1, <2>3, PinStep
<1>3. CASE HostRegister(t, b)
  <2>1. /\ b \in live /\ live' = live /\ pins' = pins \cup {b} /\ BufferCall(t)
        /\ ~BeingFreed(b)
    BY <1>3 DEF HostRegister
  <2>3. /\ live \subseteq live' /\ live' \subseteq Buffers /\ pins' \subseteq live'
        /\ \A c \in pins' : c \in pins \/ ~BeingFreed(c)
    BY <1>1, <2>1
  <2> QED BY <2>1, <2>3, PinStep
<1>4. CASE HostUnregister(t, b)
  <2>1. live' = live /\ pins' = pins \ {b} /\ BufferCall(t)
    BY <1>4 DEF HostUnregister
  <2>3. /\ live \subseteq live' /\ live' \subseteq Buffers /\ pins' \subseteq live'
        /\ \A c \in pins' : c \in pins \/ ~BeingFreed(c)
    BY <1>1, <2>1
  <2> QED BY <2>1, <2>3, PinStep
<1> QED BY <1>2, <1>3, <1>4

\* A step of sgFreeHost; only what it does to the buffers is left to show.
LEMMA FreeStep ==
  ASSUME StreamsInv, NEW t \in Threads, ~Holding(t), NEW l \in {"unpinned", "drain", "idle"},
         NEW c \in CallType, pc' = [pc EXCEPT ![t] = l], call' = [call EXCEPT ![t] = c],
         UNCHANGED <<deviceVars, runtimeVars, ghostVars, channelOf>>,
         live' \subseteq Buffers, pins' \subseteq Buffers,
         l = "idle" => c = NoCall, l # "idle" => c.kind = "free", l = "drain" => c.want \in WantType,
         TypeOK' /\ Kept => BuffersOK'
  PROVE  StreamsInv'
<1>1. TypeOK /\ IdsOK /\ OrderOK
  BY DEF StreamsInv
<1>2. l \in Labels
  BY DEF Labels
<1>3. /\ pc' \in [Threads -> Labels] /\ call' \in [Threads -> CallType]
      /\ pc'[t] = l /\ call'[t] = c
      /\ \A u \in Threads \ {t} : pc'[u] = pc[u] /\ call'[u] = call[u]
  BY <1>1, <1>2, ThreadType
<1>4. /\ UNCHANGED <<ring, get, sticky, next, before, dma, ran, lapsed, own, deps, captured, must, channelOf>>
      /\ UNCHANGED <<tail, hasTail, extraWaits, mutex, at>>
  BY DEF deviceVars, runtimeVars, ghostVars
<1>5. TypeOK'
  BY <1>1, <1>3, <1>4 DEF TypeOK
<1>6. Kept
  BY <1>1, <1>4, <1>5, QuietRings
<1>7. \A u \in Threads \ {t} : Still(u)
  BY <1>3, <1>4 DEF Still
<1>8. \A s \in StreamSet : Same(s)
  BY <1>4 DEF Same, Frozen
<1>9. \A e \in Events : EventOK(e)'
  BY <1>4, <1>6, EventsKept
<1>10. CallOK(t)'
  BY <1>3 DEF CallOK
<1>11. LockOK(t)' /\ \A s \in StreamSet : SubmitOK(t, s)'
  BY <1>3 DEF LockOK, SubmitOK, Holding
<1>12. ThreadOK(t)'
  BY <1>10, <1>11 DEF ThreadOK
<1> QED BY <1>4, <1>5, <1>6, <1>7, <1>8, <1>9, <1>12, CalmStep

LEMMA FreeHostInv ==
  ASSUME StreamsInv, NEW t \in Threads, NEW b \in Buffers, FreeHost(t, b)
  PROVE  StreamsInv'
<1>0. TypeOK /\ BuffersOK
  BY DEF StreamsInv
<1>1. PICK c : c = [NoCall EXCEPT !.kind = "free", !.buf = b]
  OBVIOUS
<1>2. /\ c \in CallType /\ c.kind = "free" /\ c.buf = b
  <2>1. "free" \in KindType
    BY DEF KindType
  <2> QED BY <1>1, <2>1, NoCallType DEF CallType
<1>3. /\ pc[t] = "idle" /\ pc' = [pc EXCEPT ![t] = "unpinned"] /\ call' = [call EXCEPT ![t] = c]
      /\ UNCHANGED <<deviceVars, runtimeVars, ghostVars, channelOf, live>>
      /\ pins' = pins \ {b} /\ b \in pins /\ ~InUse(b)
  BY <1>1 DEF FreeHost, Call, Goto, Unpin
<1>4. ~Holding(t) /\ live' \subseteq Buffers /\ pins' \subseteq Buffers
  BY <1>0, <1>3 DEF Holding, TypeOK
<1>5. /\ pc'[t] = "unpinned" /\ call'[t] = c
      /\ \A u \in Threads \ {t} : pc'[u] = pc[u] /\ call'[u] = call[u] /\ call[u].buf # b
  BY <1>0, <1>3 DEF TypeOK, InUse
<1>6. UNCHANGED <<next, dma, ran, lapsed, live>>
  BY <1>3 DEF ghostVars
<1>7. ASSUME Kept, NEW u \in Threads PROVE FreeOK(u)'
  <2>1. CASE u = t
    BY <1>2, <1>3, <1>5, <2>1 DEF FreeOK
  <2>2. CASE u # t
    <3>1. pc'[u] = pc[u] /\ call'[u] = call[u] /\ call[u].buf # b
      BY <1>5, <2>2
    <3>2. ASSUME call[u].kind = "free"
          PROVE  /\ pc[u] \in {"unpinned", "drain"} /\ call[u].buf \in Buffers
                 /\ call[u].buf \notin pins /\ \A v \in Threads \ {u} : call[v].buf # call[u].buf
      BY <1>0, <3>2 DEF BuffersOK, FreeOK
    <3>3. ASSUME call[u].kind = "free" PROVE \A v \in Threads \ {u} : call'[v].buf # call[u].buf
      BY <1>2, <1>5, <3>1, <3>2, <3>3
    <3>4. ASSUME call[u].kind = "free", pc[u] = "drain", NEW w \in WantType, w = call[u].want,
                 NEW id \in 1 .. next - 1, dma[id] = call[u].buf
          PROVE  Drained(w, id)'
      <4>1. Drained(w, id)
        BY <1>0, <3>4 DEF BuffersOK, FreeOK
      <4> QED BY <1>7, <4>1 DEF Kept
    <3> QED BY <1>3, <1>6, <3>1, <3>2, <3>3, <3>4 DEF FreeOK
  <2> QED BY <2>1, <2>2
<1>8. BuffersLive'
  BY <1>0, <1>3, <1>6 DEF BuffersOK, BuffersLive
<1>9. \A u \in Threads : call'[u].buf \in Buffers => call'[u].buf \in live'
  BY <1>0, <1>2, <1>3, <1>5 DEF BuffersOK, BuffersLive
<1>10. TypeOK' /\ Kept => BuffersOK'
  BY <1>7, <1>8, <1>9 DEF BuffersOK
<1> QED BY <1>2, <1>3, <1>4, <1>10, FreeStep

LEMMA WaitAllInv ==
  ASSUME StreamsInv, NEW t \in Threads, WaitAll(t), UNCHANGED <<calls, channelOf, hostVars>>
  PROVE  StreamsInv'
<1>0. TypeOK /\ BuffersOK /\ IdsOK /\ call[t] \in CallType
  BY DEF StreamsInv, TypeOK
<1>1. PICK w0 \in WantType : w0 = Puts /\ \A id \in 1 .. next - 1 : Drained(w0, id)
  BY <1>0, PutsDrain
<1>2. PICK c : c = [call[t] EXCEPT !.want = w0]
  OBVIOUS
<1>3. c \in CallType /\ c.kind = call[t].kind /\ c.buf = call[t].buf /\ c.want = w0
  BY <1>0, <1>2 DEF CallType
<1>4. /\ pc[t] = "unpinned" /\ pc' = [pc EXCEPT ![t] = "drain"] /\ call' = [call EXCEPT ![t] = c]
      /\ UNCHANGED <<deviceVars, runtimeVars, ghostVars, channelOf, live, pins>>
  BY <1>1, <1>2 DEF WaitAll, Goto, hostVars
<1>5. ~Holding(t) /\ live' \subseteq Buffers /\ pins' \subseteq Buffers /\ call[t].kind = "free"
  BY <1>0, <1>4 DEF Holding, TypeOK, StreamsInv, ThreadOK, CallOK
<1>6. /\ pc'[t] = "drain" /\ call'[t] = c
      /\ \A u \in Threads \ {t} : pc'[u] = pc[u] /\ call'[u] = call[u]
      /\ \A u \in Threads : call'[u].kind = call[u].kind /\ call'[u].buf = call[u].buf
  BY <1>0, <1>3, <1>4 DEF TypeOK
<1>7. UNCHANGED <<next, dma, ran, lapsed, live, pins>>
  BY <1>4 DEF ghostVars
<1>8. ASSUME Kept, NEW u \in Threads PROVE FreeOK(u)'
  <2>1. ASSUME call[u].kind = "free"
        PROVE  /\ pc[u] \in {"unpinned", "drain"} /\ call[u].buf \in Buffers
               /\ call[u].buf \notin pins /\ \A v \in Threads \ {u} : call[v].buf # call[u].buf
    BY <1>0, <2>1 DEF BuffersOK, FreeOK
  <2>2. ASSUME call[u].kind = "free", pc'[u] = "drain", NEW w \in WantType, w = call'[u].want,
               NEW id \in 1 .. next - 1, dma[id] = call[u].buf
        PROVE  Drained(w, id)'
    <3>1. CASE u = t
      BY <1>1, <1>3, <1>6, <1>8, <2>2, <3>1 DEF Kept
    <3>2. CASE u # t
      <4>1. Drained(w, id)
        BY <1>0, <1>6, <2>2, <3>2 DEF BuffersOK, FreeOK
      <4> QED BY <1>8, <4>1 DEF Kept
    <3> QED BY <3>1, <3>2
  <2>3. call[u].kind = "free" => pc'[u] \in {"unpinned", "drain"}
    BY <1>6, <2>1
  <2> QED BY <1>6, <1>7, <2>1, <2>2, <2>3 DEF FreeOK
<1>9. BuffersLive'
  BY <1>0, <1>7 DEF BuffersOK, BuffersLive
<1>10. \A u \in Threads : call'[u].buf \in Buffers => call'[u].buf \in live'
  BY <1>0, <1>6, <1>7 DEF BuffersOK
<1>11. TypeOK' /\ Kept => BuffersOK'
  BY <1>8, <1>9, <1>10 DEF BuffersOK
<1> QED BY <1>3, <1>4, <1>5, <1>11, FreeStep

\* The memory goes: everything on it had been published when it was unpinned,
\* and so has run.
LEMMA FreeMemoryInv ==
  ASSUME StreamsInv, NEW t \in Threads, FreeMemory(t) PROVE StreamsInv'
<1>0. TypeOK /\ BuffersOK /\ IdsOK
  BY DEF StreamsInv
<1>1. PICK b0 : b0 = call[t].buf
  OBVIOUS
<1>2. /\ pc[t] = "drain" /\ pc' = [pc EXCEPT ![t] = "idle"] /\ call' = [call EXCEPT ![t] = NoCall]
      /\ call[t].kind = "free" /\ AllRetired(call[t].want) /\ live' = live \ {b0}
      /\ UNCHANGED <<deviceVars, runtimeVars, ghostVars, channelOf, pins>>
  BY <1>1 DEF FreeMemory, Return
<1>3. ~Holding(t) /\ live' \subseteq Buffers /\ pins' \subseteq Buffers
  BY <1>0, <1>2 DEF Holding, TypeOK
<1>4. /\ pc'[t] = "idle" /\ call'[t] = NoCall
      /\ \A u \in Threads \ {t} : pc'[u] = pc[u] /\ call'[u] = call[u]
  BY <1>0, <1>2 DEF TypeOK
<1>5. UNCHANGED <<next, dma, ran, lapsed, pins>>
  BY <1>2 DEF ghostVars
<1>6. /\ b0 \in Buffers /\ b0 \notin pins /\ \A u \in Threads \ {t} : call[u].buf # b0
  BY <1>0, <1>1, <1>2 DEF BuffersOK, FreeOK
<1>7. ASSUME NEW id \in 1 .. next - 1, dma[id] = b0 PROVE id \in ran
  <2>1. PICK w \in WantType : w = call[t].want
    BY <1>2 DEF StreamsInv, ThreadOK, CallOK
  <2>2. Drained(w, id)
    BY <1>0, <1>1, <1>2, <1>7, <2>1 DEF BuffersOK, FreeOK
  <2> QED BY <1>0, <1>2, <2>1, <2>2, RetiredDrains
<1>8. BuffersLive'
  BY <1>0, <1>2, <1>5, <1>6, <1>7 DEF BuffersOK, BuffersLive
<1>9. NoCall.kind = "none" /\ NoCall.buf = Pageable /\ Pageable \notin Buffers
  BY StreamAssumption DEF NoCall
<1>10. \A u \in Threads : call'[u].buf \in Buffers => call'[u].buf \in live'
  BY <1>0, <1>2, <1>4, <1>6, <1>9 DEF BuffersOK
<1>11. ASSUME Kept, NEW u \in Threads PROVE FreeOK(u)'
  <2>1. CASE u = t
    BY <1>4, <1>9, <2>1 DEF FreeOK
  <2>2. CASE u # t
    <3>1. pc'[u] = pc[u] /\ call'[u] = call[u]
      BY <1>4, <2>2
    <3>2. ASSUME call[u].kind = "free"
          PROVE  /\ pc[u] \in {"unpinned", "drain"} /\ call[u].buf \in Buffers
                 /\ call[u].buf \notin pins /\ \A v \in Threads \ {u} : call[v].buf # call[u].buf
      BY <1>0, <3>2 DEF BuffersOK, FreeOK
    <3>3. ASSUME call[u].kind = "free" PROVE \A v \in Threads \ {u} : call'[v].buf # call[u].buf
      BY <1>4, <1>9, <3>2, <3>3
    <3>4. ASSUME call[u].kind = "free", pc[u] = "drain", NEW w \in WantType, w = call[u].want,
                 NEW id \in 1 .. next - 1, dma[id] = call[u].buf
          PROVE  Drained(w, id)'
      <4>1. Drained(w, id)
        BY <1>0, <3>4 DEF BuffersOK, FreeOK
      <4> QED BY <1>11, <4>1 DEF Kept
    <3> QED BY <1>5, <3>1, <3>2, <3>3, <3>4 DEF FreeOK
  <2> QED BY <2>1, <2>2
<1>12. TypeOK' /\ Kept => BuffersOK'
  BY <1>8, <1>10, <1>11 DEF BuffersOK
<1> QED BY <1>2, <1>3, <1>12, NoCallType, FreeStep

----------------------------------------------------------------------------
(* A command joins a ring                                                  *)

\* The command is the ring's n-th, and the rest is as it was.
Joins(r0, c, n) ==
  /\ ring'[r0][n] = c /\ n \in InFlight(r0)'
  /\ \A r \in Rings : \A i \in 1 .. Len(ring'[r]) :
       \/ i \in 1 .. Len(ring[r]) /\ ring'[r][i] = ring[r][i]
       \/ r = r0 /\ i = n

LEMMA Appended ==
  ASSUME TypeOK, NEW r0 \in Rings, NEW c \in CmdType,
         NEW n \in Nat, n = Len(ring[r0]) + 1,
         ring' = [ring EXCEPT ![r0] = Append(@, c)], get' = get, ran' = ran,
         sticky' = sticky, lapsed => lapsed',
         \A id \in 1 .. next - 1 : before'[id] = before[id], IdsOK
  PROVE  Grows /\ Joins(r0, c, n)
<1>1. PICK q \in Seq(CmdType) : q = ring[r0]
  BY DEF TypeOK
<1>2. PICK q2 \in Seq(CmdType) : q2 = Append(q, c)
  <2>1. Append(q, c) \in Seq(CmdType)
    BY <1>1
  <2> QED BY <2>1
<1>3. /\ Len(q) \in Nat /\ Len(q2) = n /\ q2[n] = c /\ \A i \in 1 .. Len(q) : q2[i] = q[i]
  BY <1>1, <1>2
<1>4. /\ ring'[r0] = q2 /\ \A r \in Rings \ {r0} : ring'[r] = ring[r]
      /\ ring' \in [Rings -> Seq(CmdType)]
  BY <1>1, <1>2 DEF TypeOK
<1>5. \A r \in Rings : Len(ring[r]) \in Nat /\ get[r] \in Nat /\ get[r] <= Len(ring[r])
  BY DEF TypeOK, IdsOK
<1>6. n = Len(q) + 1 /\ get[r0] <= Len(q)
  BY <1>1, <1>5
<1>7. n \in InFlight(r0)'
  BY <1>3, <1>4, <1>5, <1>6 DEF InFlight
<1>8. ASSUME NEW r \in Rings
      PROVE  /\ Len(ring[r]) <= Len(ring'[r])
             /\ \A i \in 1 .. Len(ring[r]) : ring'[r][i] = ring[r][i]
             /\ \A i \in 1 .. Len(ring'[r]) :
                  \/ i \in 1 .. Len(ring[r]) /\ ring'[r][i] = ring[r][i]
                  \/ r = r0 /\ i = n
  <2>1. CASE r = r0
    BY <1>1, <1>3, <1>4, <1>6, <2>1
  <2>2. CASE r # r0
    BY <1>4, <1>5, <2>2
  <2> QED BY <2>1, <2>2
<1> QED BY <1>3, <1>4, <1>7, <1>8 DEF Grows, Joins

\* Commands that were in flight have ahead of them what they had.
LEMMA AheadKept ==
  ASSUME TypeOK, TypeOK', IdsOK, Grows, NEW r \in Rings, NEW i, NEW b, Ahead(r, i, b)
  PROVE  Ahead(r, i, b)'
BY GrowKept DEF Ahead, Grows, HasRun

LEMMA IdsAppended ==
  ASSUME TypeOK, TypeOK', IdsOK, OrderOK, NEW r0 \in Rings, NEW c \in CmdType,
         NEW n \in Nat, n = Len(ring[r0]) + 1,
         ring' = [ring EXCEPT ![r0] = Append(@, c)], get' = get, ran' = ran,
         sticky' = sticky, lapsed => lapsed',
         \A id \in 1 .. next - 1 : before'[id] = before[id],
         \/ c.op = "wait" /\ next' = next
         \/ c.op = "work" /\ c.id = next /\ next' = next + 1,
         c.op = "work" => \A b \in before'[c.id] : Ready(r0, b)
  PROVE  Kept /\ IdsOK' /\ OrderOK'
<1>0. Grows /\ Joins(r0, c, n)
  BY Appended
<1>1. /\ Grows /\ ring'[r0][n] = c
      /\ n \in InFlight(r0)'
      /\ \A r \in Rings : \A i \in 1 .. Len(ring'[r]) :
           \/ i \in 1 .. Len(ring[r]) /\ ring'[r][i] = ring[r][i]
           \/ r = r0 /\ i = n
  BY <1>0 DEF Joins
<1>2. /\ Kept
      /\ \A r \in Rings : \A j \in InFlight(r) :
           j \in InFlight(r)' /\ \A b : Carries(r, j, b) => Carries(r, j, b)'
  BY <1>1, GrowKept
<1>3. /\ next \in Nat /\ next >= 1 /\ next' \in Nat /\ next <= next'
      /\ \A b \in 1 .. next' - 1 : b \in 1 .. next - 1 \/ (b = next /\ c.op = "work" /\ c.id = b)
      /\ \A b \in 1 .. next - 1 : b \in 1 .. next' - 1
      /\ c.op = "work" => c.id \in 1 .. next' - 1
  <2>1. next \in Nat \ {0} /\ next' \in Nat
    BY DEF TypeOK
  <2>2. CASE c.op = "wait" /\ next' = next
    BY <2>1, <2>2
  <2>3. CASE c.op = "work" /\ c.id = next /\ next' = next + 1
    BY <2>1, <2>3
  <2> QED BY <2>2, <2>3
<1>4. \A r \in Rings : /\ Len(ring[r]) \in Nat /\ Len(ring'[r]) \in Nat /\ get[r] \in Nat
                       /\ get[r] <= Len(ring[r]) /\ Len(ring[r]) <= Len(ring'[r]) /\ get'[r] = get[r]
  BY <1>1 DEF TypeOK, IdsOK, Grows
<1>5. IdsOK'
  <2>1. \A r \in Rings : get'[r] <= Len(ring'[r])
    BY <1>4
  <2>2. ASSUME NEW r \in Rings, NEW i \in 1 .. Len(ring'[r]), ring'[r][i].op = "work"
        PROVE  ring'[r][i].id \in 1 .. next' - 1
    <3>1. CASE i \in 1 .. Len(ring[r]) /\ ring'[r][i] = ring[r][i]
      BY <1>3, <2>2, <3>1 DEF IdsOK
    <3>2. CASE r = r0 /\ i = n
      BY <1>1, <1>3, <2>2, <3>2
    <3> QED BY <1>1, <3>1, <3>2
  <2>3. ASSUME NEW b \in 1 .. next' - 1 PROVE Published(b)'
    <3>1. CASE b \in 1 .. next - 1
      <4>1. Published(b)
        BY <3>1 DEF IdsOK
      <4>2. CASE b \in ran
        BY <4>2 DEF Published
      <4>3. ASSUME NEW r \in Rings, NEW j \in InFlight(r), ring[r][j].op = "work", ring[r][j].id = b
            PROVE  Published(b)'
        <5>1. j \in 1 .. Len(ring[r])
          BY <1>4 DEF InFlight
        <5>2. ring'[r][j] = ring[r][j] /\ j \in InFlight(r)'
          BY <1>1, <1>2, <5>1 DEF Grows
        <5> QED BY <4>3, <5>2 DEF Published
      <4> QED BY <4>1, <4>2, <4>3 DEF Published
    <3>2. CASE b = next /\ c.op = "work" /\ c.id = b
      BY <1>1, <3>2 DEF Published
    <3> QED BY <1>3, <3>1, <3>2
  <2>4. ran' \subseteq 1 .. next' - 1
    BY <1>3 DEF IdsOK
  <2> QED BY <2>1, <2>2, <2>3, <2>4 DEF IdsOK
<1>6. ASSUME NEW r \in Rings, NEW i \in InFlight(r)', ring'[r][i].op = "work",
             NEW b \in before'[ring'[r][i].id]
      PROVE  Ahead(r, i, b)'
  <2>1. i \in 1 .. Len(ring'[r]) /\ i \in Nat
    BY <1>4 DEF InFlight
  <2>2. CASE i \in 1 .. Len(ring[r]) /\ ring'[r][i] = ring[r][i]
    <3>1. ring[r][i].id \in 1 .. next - 1
      BY <1>6, <2>2 DEF IdsOK
    <3>2. b \in before[ring[r][i].id] /\ i \in InFlight(r)
      BY <1>4, <1>6, <2>2, <3>1 DEF InFlight
    <3>3. Ahead(r, i, b)
      BY <1>6, <2>2, <3>2 DEF OrderOK
    <3> QED BY <1>1, <3>3, AheadKept
  <2>3. CASE r = r0 /\ i = n
    <3>1. Ready(r0, b)
      BY <1>1, <1>6, <2>3
    <3>2. \A j \in InFlight(r0) : j < n
      BY <1>4 DEF InFlight
    <3>3. Ahead(r0, n, b)
      BY <3>1, <3>2 DEF Ready, Ahead
    <3> QED BY <1>1, <2>3, <3>3, AheadKept
  <2> QED BY <1>1, <2>1, <2>2, <2>3
<1>7. \A id \in ran' : \A b \in before'[id] : HasRun(b)'
  BY DEF IdsOK, OrderOK, HasRun
<1> QED BY <1>2, <1>5, <1>6, <1>7 DEF OrderOK

\* wait_on: what the fence ensures, the ring has ahead of what comes next.
LEMMA WaitOnType ==
  ASSUME TypeOK, IdsOK, NEW t \in Threads, NEW g \in FenceType, WaitOn(t, g)
  PROVE  ring' \in [Rings -> Seq(CmdType)]
<1>1. RingOf(t) \in Rings
  BY RingOfType
<1>2. WaitCmd(g) \in CmdType
  BY DEF WaitCmd, CmdType, WaitType
<1>3. ring[RingOf(t)] \in Seq(CmdType)
  BY <1>1 DEF TypeOK
<1>4. Append(ring[RingOf(t)], WaitCmd(g)) \in Seq(CmdType)
  BY <1>2, <1>3
<1> QED BY <1>1, <1>4 DEF WaitOn, TypeOK

LEMMA WaitOnReady ==
  ASSUME TypeOK, TypeOK', IdsOK, OrderOK, NEW t \in Threads, NEW g \in FenceType, WaitOn(t, g),
         UNCHANGED <<get, sticky, next, before, ran, lapsed>>, NEW r \in Rings, r = RingOf(t)
  PROVE  Kept /\ IdsOK' /\ OrderOK' /\ \A b : Ensures(g, b) => Ready(r, b)'
<1>1. CASE SameRing(t, g)
  <2>1. ring' = ring /\ g.ring = r
    BY <1>1 DEF WaitOn, SameRing
  <2>2. Kept /\ IdsOK' /\ OrderOK'
    BY <2>1, QuietRings
  <2>3. \A b : Ensures(g, b) => Ready(r, b)
    BY <2>1 DEF Ensures, Ready, Carries
  <2> QED BY <2>2, <2>3 DEF Kept
<1>2. CASE ~SameRing(t, g)
  <2>1. PICK c \in CmdType : c = WaitCmd(g)
    BY DEF WaitCmd, CmdType, WaitType
  <2>2. ring' = [ring EXCEPT ![r] = Append(@, c)]
    BY <1>2, <2>1 DEF WaitOn
  <2>3. PICK n \in Nat : n = Len(ring[r]) + 1
    <3>1. Len(ring[r]) \in Nat
      BY DEF TypeOK
    <3> QED BY <3>1
  <2>4. c.op = "wait"
    BY <2>1 DEF WaitCmd
  <2>5. \A id \in 1 .. next - 1 : before'[id] = before[id]
    OBVIOUS
  <2>6. Kept /\ IdsOK' /\ OrderOK'
    BY <2>2, <2>3, <2>4, <2>5, IdsAppended
  <2>9. Joins(r, c, n)
    BY <2>2, <2>3, <2>5, Appended
  <2>7. ring'[r][n] = c /\ n \in InFlight(r)'
    BY <2>9 DEF Joins
  <2>8. ASSUME NEW b, Ensures(g, b) PROVE Ready(r, b)'
    <3>1. Ensures(g, b)'
      BY <2>6, <2>8 DEF Kept
    <3>2. Carries(r, n, b)'
      BY <2>1, <2>7, <3>1 DEF Carries, WaitCmd
    <3> QED BY <2>7, <3>2 DEF Ready
  <2> QED BY <2>6, <2>8
<1> QED BY <1>1, <1>2

----------------------------------------------------------------------------
(* stream_submit                                                           *)

\* A thread that submits is the only one that does, on its stream.
LEMMA AloneOn ==
  ASSUME StreamsInv, NEW t \in Threads, Holding(t), NEW s \in StreamSet, s = call[t].stream
  PROVE  (AwaitOn(s) => pc[t] = "await") /\ (PastOn(s) => Past(t))
<1>1. ASSUME NEW u \in Threads, Holding(u), call[u].stream = s PROVE u = t
  BY <1>1, Alone
<1>2. \A u \in Threads : (pc[u] = "await" => Holding(u)) /\ (Past(u) => Holding(u))
  BY DEF Holding, Past
<1> QED BY <1>1, <1>2 DEF AwaitOn, PastOn

\* A step of a thread on its stream s0, whose lock it has or nobody has.
LEMMA HolderStep ==
  ASSUME StreamsInv, TypeOK', Kept, IdsOK', OrderOK', NEW t \in Threads, NEW s0 \in StreamSet,
         s0 = call[t].stream, Holding(t) \/ mutex[s0] = NoOne,
         pc[t] \notin {"unpinned", "drain"}, NEW c \in CallType, call'[t] = c, c.kind # "free",
         c.buf \in {Pageable, call[t].buf}, \A u \in Threads \ {t} : Still(u),
         UNCHANGED <<channelOf, at, captured, hostVars>>, \A s \in StreamSet \ {s0} : Same(s),
         next' \in {next, next + 1}, \A id \in 1 .. next - 1 : dma'[id] = dma[id],
         next' = next + 1 => dma'[next] \in {Pageable, call[t].buf},
         ThreadOK(t)', StreamOK(s0)'
  PROVE  StreamsInv'
<1>1. \A e \in Events : EventOK(e)'
  BY EventsKept
<1>2. call[t].kind # "free"
  BY NotFreeing
<1>3. \A u \in Threads \ {t} : pc'[u] = pc[u] /\ call'[u] = call[u]
  BY DEF Still
<1>4. UNCHANGED <<live, pins>>
  BY DEF hostVars
<1>5. BuffersOK'
  BY <1>2, <1>3, <1>4, BuffersKept
<1>6. \A u \in Threads \ {t} : Holding(u) => call[u].stream # s0
  BY Alone, NobodyOn
<1> QED BY <1>1, <1>5, <1>6, StepInv

LEMMA OneOfAppend ==
  ASSUME NEW q \in Seq(FenceType), NEW g \in FenceType
  PROVE  /\ Append(q, g) \in Seq(FenceType) /\ OneOf(Append(q, g), g)
         /\ \A h : OneOf(q, h) => OneOf(Append(q, g), h)
<1>1. /\ Append(q, g) \in Seq(FenceType) /\ Len(Append(q, g)) = Len(q) + 1 /\ Len(q) \in Nat
      /\ Append(q, g)[Len(q) + 1] = g
      /\ \A k \in 1 .. Len(q) : Append(q, g)[k] = q[k]
  OBVIOUS
<1>2. PICK p : p = Append(q, g)
  OBVIOUS
<1>3. PICK n \in Nat : n = Len(q) + 1
  BY <1>1
<1>4. p[n] = g /\ Len(p) = n /\ \A k \in 1 .. Len(q) : p[k] = q[k] /\ k \in 1 .. n
  BY <1>1, <1>2, <1>3
<1>5. OneOf(p, g)
  BY <1>3, <1>4 DEF OneOf
<1>6. \A h : OneOf(q, h) => OneOf(p, h)
  BY <1>4 DEF OneOf
<1> QED BY <1>1, <1>2, <1>5, <1>6

LEMMA OneOfTail ==
  ASSUME NEW q \in Seq(FenceType), q # <<>>
  PROVE  /\ Head(q) \in FenceType /\ Tail(q) \in Seq(FenceType)
         /\ \A h : OneOf(q, h) => h = Head(q) \/ OneOf(Tail(q), h)
<1>1. /\ Head(q) \in FenceType /\ Tail(q) \in Seq(FenceType) /\ Len(q) \in Nat
      /\ Len(Tail(q)) = Len(q) - 1 /\ Head(q) = q[1]
      /\ \A k \in 1 .. Len(q) - 1 : Tail(q)[k] = q[k + 1]
  OBVIOUS
<1>2. PICK p : p = Tail(q)
  OBVIOUS
<1>3. ASSUME NEW h, NEW k \in 1 .. Len(q), q[k] = h, h # Head(q) PROVE OneOf(p, h)
  <2>1. k # 1 /\ k \in Nat /\ k >= 1
    BY <1>1, <1>3
  <2>2. PICK i \in Nat : i = k - 1
    BY <2>1
  <2>3. i \in 1 .. Len(q) - 1 /\ k = i + 1
    BY <1>1, <2>1, <2>2
  <2>4. i \in 1 .. Len(p) /\ p[i] = h
    BY <1>1, <1>2, <1>3, <2>3
  <2> QED BY <2>4 DEF OneOf
<1> QED BY <1>1, <1>2, <1>3 DEF OneOf

\* sgStreamWaitEvent ends.
LEMMA PushWaitInv ==
  ASSUME StreamsInv, NEW t \in Threads, PushWait(t), UNCHANGED <<calls, channelOf, hostVars>>
  PROVE  StreamsInv'
<1>0. TypeOK /\ IdsOK /\ OrderOK /\ call[t] \in CallType
  BY DEF StreamsInv, TypeOK
<1>1. PICK s \in StreamSet : s = call[t].stream
  BY <1>0 DEF CallType
<1>2. PICK g \in FenceType : g = call[t].fence
  BY <1>0 DEF CallType
<1>3. PICK a \in SUBSET Nat : a = call[t].all
  BY <1>0 DEF CallType
<1>4. PICK q \in Seq(FenceType) : q = extraWaits[s]
  BY <1>0 DEF TypeOK
<1>5. PICK p \in Seq(FenceType) : p = Append(q, g) /\ OneOf(p, g) /\ \A h : OneOf(q, h) => OneOf(p, h)
  BY OneOfAppend
<1>6. /\ pc[t] = "push" /\ mutex[s] = NoOne
      /\ extraWaits' = [extraWaits EXCEPT ![s] = p] /\ deps' = [deps EXCEPT ![s] = deps[s] \cup a]
      /\ pc' = [pc EXCEPT ![t] = "idle"] /\ call' = [call EXCEPT ![t] = NoCall]
      /\ UNCHANGED <<ring, get, sticky, tail, hasTail, mutex, at, next, before, dma, ran, lapsed, own,
                     captured, must, channelOf, live, pins>>
  BY <1>1, <1>2, <1>3, <1>4, <1>5 DEF PushWait, Return, deviceVars, hostVars
<1>7. "idle" \in Labels /\ NoCall \in CallType /\ NoCall.kind = "none" /\ NoCall.buf = Pageable
  BY NoCallType DEF Labels, NoCall
<1>8. /\ pc' \in [Threads -> Labels] /\ call' \in [Threads -> CallType]
      /\ pc'[t] = "idle" /\ call'[t] = NoCall
      /\ \A u \in Threads \ {t} : pc'[u] = pc[u] /\ call'[u] = call[u]
  BY <1>0, <1>6, <1>7, ThreadType
<1>9. /\ extraWaits' \in [StreamSet -> Seq(FenceType)] /\ extraWaits'[s] = p
      /\ deps' \in [StreamSet -> SUBSET Nat] /\ deps'[s] = deps[s] \cup a
      /\ \A z \in StreamSet \ {s} : extraWaits'[z] = extraWaits[z] /\ deps'[z] = deps[z]
  BY <1>0, <1>6 DEF TypeOK
<1>10. TypeOK'
  BY <1>0, <1>6, <1>8, <1>9 DEF TypeOK
<1>11. Kept /\ IdsOK' /\ OrderOK'
  BY <1>0, <1>6, <1>10, QuietRings
<1>12. ThreadOK(t)'
  <2>1. CallOK(t)'
    BY <1>8 DEF CallOK
  <2>2. LockOK(t)' /\ \A z \in StreamSet : SubmitOK(t, z)'
    BY <1>8 DEF LockOK, SubmitOK, Holding
  <2> QED BY <2>1, <2>2 DEF ThreadOK
<1>13. ~AwaitOn(s) /\ ~PastOn(s)
  BY <1>6, NobodyOn DEF AwaitOn, PastOn, Past, Holding
<1>14. StreamOK(s)'
  <2>1. ~hasTail'[s] => tail'[s].value = 0
    BY <1>6 DEF StreamsInv, StreamOK
  <2>2. ASSUME NEW f \in FenceType, f = tail'[s], NEW b \in own'[s] PROVE Ensures(f, b)'
    BY <1>6, <1>11, <1>13, <2>2 DEF StreamsInv, StreamOK, Kept
  <2>3. ASSUME ~sticky', NEW f \in FenceType, f = tail'[s], NEW b \in deps'[s]
        PROVE  Ensures(f, b)' \/ \E h \in FenceType : OneOf(extraWaits[s], h)' /\ Ensures(h, b)'
    <3>0. \A h : OneOf(extraWaits[s], h)' <=> OneOf(p, h)
      BY <1>9 DEF OneOf
    <3>1. CASE b \in deps[s]
      <4>1. Ensures(f, b) \/ \E h \in FenceType : OneOf(q, h) /\ Ensures(h, b)
        BY <1>4, <1>6, <1>13, <2>3, <3>1 DEF StreamsInv, StreamOK
      <4> QED BY <1>5, <1>11, <3>0, <4>1 DEF Kept
    <3>2. CASE b \in a
      <4>1. Ensures(g, b)
        BY <1>2, <1>3, <1>6, <3>2 DEF StreamsInv, ThreadOK, CallOK
      <4> QED BY <1>5, <1>11, <3>0, <4>1 DEF Kept
    <3> QED BY <1>9, <2>3, <3>1, <3>2
  <2> QED BY <2>1, <2>2, <2>3 DEF StreamOK
<1>15. \A u \in Threads \ {t} : Still(u)
  BY <1>6, <1>8 DEF Still
<1>16. \A z \in StreamSet \ {s} : Same(z)
  BY <1>6, <1>9 DEF Same, Frozen
<1>17. next \in Nat /\ next' \in {next, next + 1} /\ next' # next + 1
  BY <1>0, <1>6 DEF TypeOK
<1> QED BY <1>1, <1>6, <1>7, <1>8, <1>10, <1>11, <1>12, <1>14, <1>15, <1>16, <1>17, HolderStep

\* A thread takes the lock: what the stream was told to wait for is with the
\* tail or among the events.
LEMMA LockInv ==
  ASSUME StreamsInv, NEW t \in Threads, Lock(t), UNCHANGED <<calls, channelOf, hostVars>>
  PROVE  StreamsInv'
<1>0. TypeOK /\ IdsOK /\ OrderOK /\ call[t] \in CallType
  BY DEF StreamsInv, TypeOK
<1>1. PICK s \in StreamSet : s = call[t].stream
  BY <1>0 DEF CallType
<1>2. PICK q \in Seq(FenceType) : q = extraWaits[s]
  BY <1>0 DEF TypeOK
<1>3. PICK c : c = [call[t] EXCEPT !.todo = q]
  OBVIOUS
<1>4. /\ c \in CallType /\ c.kind = call[t].kind /\ c.buf = call[t].buf
      /\ c.stream = s /\ c.todo = q
  BY <1>0, <1>1, <1>3 DEF CallType
<1>5. /\ pc[t] = "lock" /\ mutex[s] = NoOne /\ mutex' = [mutex EXCEPT ![s] = t]
      /\ pc' = [pc EXCEPT ![t] = "extra"] /\ call' = [call EXCEPT ![t] = c]
      /\ UNCHANGED <<ring, get, sticky, tail, hasTail, extraWaits, at, next, before, dma, ran, lapsed, own, deps,
                     captured, must, channelOf, live, pins>>
  BY <1>1, <1>2, <1>3 DEF Lock, Goto, deviceVars, hostVars, ghostVars
<1>6. "extra" \in Labels
  BY DEF Labels
<1>7. /\ pc' \in [Threads -> Labels] /\ call' \in [Threads -> CallType]
      /\ pc'[t] = "extra" /\ call'[t] = c
      /\ \A u \in Threads \ {t} : pc'[u] = pc[u] /\ call'[u] = call[u]
  BY <1>0, <1>4, <1>5, <1>6, ThreadType
<1>8. /\ mutex' \in [StreamSet -> Threads \cup {NoOne}] /\ mutex'[s] = t
      /\ \A z \in StreamSet \ {s} : mutex'[z] = mutex[z]
  BY <1>0, <1>5 DEF TypeOK
<1>9. TypeOK'
  BY <1>0, <1>5, <1>7, <1>8 DEF TypeOK
<1>10. Kept /\ IdsOK' /\ OrderOK'
  BY <1>0, <1>5, <1>9, QuietRings
<1>11. ~AwaitOn(s) /\ ~PastOn(s)
  BY <1>5, NobodyOn DEF AwaitOn, PastOn, Past, Holding
<1>12. ThreadOK(t)'
  <2>1. CallOK(t)' /\ LockOK(t)'
    BY <1>4, <1>7, <1>8 DEF CallOK, LockOK
  <2>2. ASSUME ~sticky', NEW f \in FenceType, f = tail[s], NEW b \in deps[s]
        PROVE  Ensures(f, b)' \/ \E g \in FenceType : OneOf(call[t].todo, g)' /\ Ensures(g, b)'
    <3>1. \A g : OneOf(call[t].todo, g)' <=> OneOf(q, g)
      BY <1>4, <1>7 DEF OneOf
    <3>2. Ensures(f, b) \/ \E g \in FenceType : OneOf(q, g) /\ Ensures(g, b)
      BY <1>2, <1>5, <1>11, <2>2 DEF StreamsInv, StreamOK
    <3> QED BY <1>10, <3>1, <3>2 DEF Kept
  <2>3. SubmitOK(t, s)'
    BY <1>5, <1>7, <2>2 DEF SubmitOK
  <2> QED BY <1>4, <1>7, <2>1, <2>3 DEF ThreadOK
<1>13. StreamOK(s)'
  <2>1. Frozen(s)
    BY <1>5 DEF Frozen
  <2> QED BY <1>10, <1>11, <2>1, StreamKept DEF StreamsInv
<1>14. \A u \in Threads \ {t} : Still(u)
  BY <1>5, <1>7 DEF Still
<1>15. \A z \in StreamSet \ {s} : Same(z)
  BY <1>5, <1>8 DEF Same, Frozen
<1>16. next \in Nat /\ next' \in {next, next + 1} /\ next' # next + 1
  BY <1>0, <1>5 DEF TypeOK
<1>17. call[t].kind # "free"
  BY <1>5, NotFreeing
<1> QED BY <1>1, <1>4, <1>5, <1>7, <1>9, <1>10, <1>12, <1>13, <1>14, <1>15, <1>16, <1>17, HolderStep

\* A step on the way to the command: only the ring, and the events that the
\* stream has yet to wait for, may change.
LEMMA HeldStep ==
  ASSUME StreamsInv, NEW t \in Threads, NEW s \in StreamSet, s = call[t].stream,
         pc[t] \in {"extra", "tail", "check"}, NEW l \in {"extra", "tail", "check", "command"},
         l = "extra" => pc[t] = "extra", NEW c \in CallType, c.stream = s, c.kind # "free",
         c.buf = call[t].buf, pc' = [pc EXCEPT ![t] = l], call' = [call EXCEPT ![t] = c],
         ring' \in [Rings -> Seq(CmdType)],
         UNCHANGED <<get, sticky, tail, hasTail, mutex, at, ghostVars, channelOf, hostVars>>,
         \/ extraWaits' = extraWaits
         \/ l # "extra" /\ extraWaits' = [extraWaits EXCEPT ![s] = <<>>],
         TypeOK' => Kept /\ IdsOK' /\ OrderOK' /\ SubmitOK(t, s)'
  PROVE  StreamsInv'
<1>1. TypeOK /\ IdsOK /\ OrderOK
  BY DEF StreamsInv
<1>2. l \in Labels
  BY DEF Labels
<1>3. /\ pc' \in [Threads -> Labels] /\ call' \in [Threads -> CallType]
      /\ pc'[t] = l /\ call'[t] = c
      /\ \A u \in Threads \ {t} : pc'[u] = pc[u] /\ call'[u] = call[u]
  BY <1>1, <1>2, ThreadType
<1>4. UNCHANGED <<get, sticky, tail, hasTail, mutex, at, next, before, dma, ran, lapsed, own, deps, captured, must,
                  channelOf, live, pins>>
  BY DEF ghostVars, hostVars
<1>5. /\ extraWaits' \in [StreamSet -> Seq(FenceType)]
      /\ \A z \in StreamSet \ {s} : extraWaits'[z] = extraWaits[z]
  <2>1. <<>> \in Seq(FenceType)
    OBVIOUS
  <2> QED BY <1>1, <2>1 DEF TypeOK
<1>6. TypeOK'
  BY <1>1, <1>3, <1>4, <1>5 DEF TypeOK
<1>7. Kept /\ IdsOK' /\ OrderOK' /\ SubmitOK(t, s)'
  BY <1>6
<1>8. Holding(t) /\ Holding(t)'
  BY <1>3 DEF Holding
<1>9. ~AwaitOn(s) /\ (PastOn(s) => Past(t))
  BY <1>8, AloneOn
<1>10. ThreadOK(t)'
  <2>1. CallOK(t)'
    BY <1>3 DEF CallOK
  <2>2. LockOK(t)'
    <3>1. mutex[s] = t
      BY <1>8 DEF StreamsInv, ThreadOK, LockOK
    <3> QED BY <1>3, <1>4, <3>1 DEF LockOK
  <2> QED BY <1>3, <1>7, <2>1, <2>2 DEF ThreadOK
<1>11. StreamOK(s)'
  <2>1. ~hasTail'[s] => tail'[s].value = 0
    BY <1>4 DEF StreamsInv, StreamOK
  <2>2. ASSUME NEW f \in FenceType, f = tail'[s], NEW b \in own'[s] PROVE Ensures(f, b)'
    BY <1>4, <1>7, <1>9, <2>2 DEF StreamsInv, StreamOK, Kept
  <2>3. CASE l = "extra"
    <3>1. ~PastOn(s) /\ extraWaits' = extraWaits
      BY <1>9, <2>3 DEF Past
    <3>2. Frozen(s)
      BY <1>4, <3>1 DEF Frozen
    <3> QED BY <1>7, <1>9, <3>1, <3>2, StreamKept DEF StreamsInv
  <2>4. CASE l # "extra"
    <3>1. PastOn(s)'
      BY <1>3, <2>4 DEF PastOn, Past
    <3> QED BY <2>1, <2>2, <3>1 DEF StreamOK
  <2> QED BY <2>3, <2>4
<1>12. \A u \in Threads \ {t} : Still(u)
  BY <1>3, <1>4 DEF Still
<1>13. \A z \in StreamSet \ {s} : Same(z)
  BY <1>4, <1>5 DEF Same, Frozen
<1>14. next \in Nat /\ next' \in {next, next + 1} /\ next' # next + 1
  BY <1>1, <1>4 DEF TypeOK
<1> QED BY <1>3, <1>4, <1>6, <1>7, <1>8, <1>10, <1>11, <1>12, <1>13, <1>14, HolderStep

\* What is written of the thread's ring stays true of it.
LEMMA RingStays ==
  ASSUME NEW t \in Threads, channelOf' = channelOf,
         call'[t].stream = call[t].stream, call'[t].engine = call[t].engine
  PROVE  RingOf(t)' = RingOf(t)
BY DEF RingOf

LEMMA ExtraWaitInv ==
  ASSUME StreamsInv, NEW t \in Threads, ExtraWait(t), UNCHANGED <<calls, channelOf, hostVars>>
  PROVE  StreamsInv'
<1>0. TypeOK /\ IdsOK /\ OrderOK /\ call[t] \in CallType
  BY DEF StreamsInv, TypeOK
<1>1. PICK s \in StreamSet : s = call[t].stream
  BY <1>0 DEF CallType
<1>2. PICK q \in Seq(FenceType) : q = call[t].todo
  BY <1>0 DEF CallType
<1>3. q # <<>>
  BY <1>2 DEF ExtraWait
<1>4. PICK g \in FenceType : g = Head(q)
  BY <1>3, OneOfTail
<1>5. PICK p \in Seq(FenceType) : p = Tail(q)
  BY <1>3, OneOfTail
<1>6. \A h : OneOf(q, h) => h = g \/ OneOf(p, h)
  BY <1>3, <1>4, <1>5, OneOfTail
<1>7. PICK c : c = [call[t] EXCEPT !.todo = p]
  OBVIOUS
<1>8. /\ c \in CallType /\ c.kind = call[t].kind /\ c.buf = call[t].buf
      /\ c.stream = s /\ c.todo = p /\ c.engine = call[t].engine
  BY <1>0, <1>1, <1>7 DEF CallType
<1>9. /\ pc[t] = "extra" /\ WaitOn(t, g) /\ call' = [call EXCEPT ![t] = c]
      /\ UNCHANGED <<pc, get, sticky, tail, hasTail, extraWaits, mutex, at, ghostVars>>
  BY <1>2, <1>4, <1>5, <1>7 DEF ExtraWait, runtimeVars
<1>10. pc' = [pc EXCEPT ![t] = "extra"] /\ call'[t] = c
  BY <1>0, <1>9 DEF TypeOK
<1>11. ring' \in [Rings -> Seq(CmdType)]
  BY <1>0, <1>9, WaitOnType
<1>12. PICK r \in Rings : r = RingOf(t)
  BY <1>0, RingOfType
<1>13. UNCHANGED <<next, before, ran, lapsed, get, sticky, tail, own, deps>>
  BY <1>9 DEF ghostVars
<1>14. ASSUME TypeOK' PROVE Kept /\ IdsOK' /\ OrderOK' /\ \A b : Ensures(g, b) => Ready(r, b)'
  BY <1>0, <1>9, <1>12, <1>13, <1>14, WaitOnReady
<1>15. ASSUME TypeOK' PROVE SubmitOK(t, s)'
  <2>1. RingOf(t)' = r /\ pc'[t] = "extra"
    BY <1>1, <1>8, <1>9, <1>10, <1>12, RingStays
  <2>2. ASSUME ~sticky', NEW f \in FenceType, f = tail[s], NEW b \in deps[s]
        PROVE  \/ Ensures(f, b)' \/ Ready(r, b)'
               \/ \E h \in FenceType : OneOf(call[t].todo, h)' /\ Ensures(h, b)'
    <3>1. \A h : OneOf(call[t].todo, h)' <=> OneOf(p, h)
      BY <1>8, <1>10 DEF OneOf
    <3>2. \/ Ensures(f, b) \/ Ready(r, b)
          \/ \E h \in FenceType : OneOf(q, h) /\ Ensures(h, b)
      BY <1>1, <1>2, <1>9, <1>12, <2>2 DEF StreamsInv, ThreadOK, SubmitOK
    <3>3. CASE Ensures(f, b) \/ Ready(r, b)
      BY <1>14, <1>15, <3>3 DEF Kept
    <3>4. ASSUME NEW h \in FenceType, OneOf(q, h), Ensures(h, b)
          PROVE  Ready(r, b)' \/ (OneOf(p, h) /\ Ensures(h, b)')
      BY <1>6, <1>14, <1>15, <3>4 DEF Kept
    <3> QED BY <3>1, <3>2, <3>3, <3>4
  <2> QED BY <1>13, <2>1, <2>2 DEF SubmitOK
<1>16. call[t].kind # "free"
  BY <1>9, NotFreeing
<1> QED BY <1>1, <1>8, <1>9, <1>10, <1>11, <1>14, <1>15, <1>16, HeldStep

LEMMA ClearExtraInv ==
  ASSUME StreamsInv, NEW t \in Threads, ClearExtra(t), UNCHANGED <<calls, channelOf, hostVars>>
  PROVE  StreamsInv'
<1>0. TypeOK /\ IdsOK /\ OrderOK /\ call[t] \in CallType
  BY DEF StreamsInv, TypeOK
<1>1. PICK s \in StreamSet : s = call[t].stream
  BY <1>0 DEF CallType
<1>2. /\ pc[t] = "extra" /\ pc' = [pc EXCEPT ![t] = "tail"] /\ Len(call[t].todo) = 0
      /\ extraWaits' = [extraWaits EXCEPT ![s] = <<>>]
      /\ UNCHANGED <<ring, get, sticky, tail, hasTail, mutex, at, call, ghostVars>>
  BY <1>1 DEF ClearExtra, Goto, deviceVars
<1>3. /\ call' = [call EXCEPT ![t] = call[t]] /\ call'[t] = call[t] /\ pc'[t] = "tail"
      /\ ring' \in [Rings -> Seq(CmdType)]
  BY <1>0, <1>2 DEF TypeOK
<1>4. PICK r \in Rings : r = RingOf(t)
  BY <1>0, RingOfType
<1>5. UNCHANGED <<next, before, ran, lapsed, get, sticky, tail, own, deps>>
  BY <1>2 DEF ghostVars
<1>6. ASSUME TypeOK' PROVE Kept /\ IdsOK' /\ OrderOK'
  BY <1>0, <1>2, <1>5, <1>6, QuietRings
<1>7. ASSUME TypeOK' PROVE SubmitOK(t, s)'
  <2>1. RingOf(t)' = r
    BY <1>3, <1>4, RingStays
  <2>2. ASSUME ~sticky', NEW f \in FenceType, f = tail[s], NEW b \in deps[s]
        PROVE  Ensures(f, b)' \/ Ready(r, b)'
    <3>1. \A h : ~OneOf(call[t].todo, h)
      BY <1>2 DEF OneOf
    <3>2. \/ Ensures(f, b) \/ Ready(r, b)
          \/ \E h \in FenceType : OneOf(call[t].todo, h) /\ Ensures(h, b)
      BY <1>1, <1>2, <1>4, <2>2 DEF StreamsInv, ThreadOK, SubmitOK
    <3> QED BY <1>6, <1>7, <3>1, <3>2 DEF Kept
  <2> QED BY <1>3, <1>5, <2>1, <2>2 DEF SubmitOK
<1>8. call[t].kind # "free"
  BY <1>2, NotFreeing
<1> QED BY <1>0, <1>1, <1>2, <1>3, <1>6, <1>7, <1>8, HeldStep

\* A fence of value 0 ensures only what has run.
LEMMA ZeroEnsures ==
  ASSUME TypeOK, NEW f \in FenceType, f.value = 0, NEW b, Ensures(f, b) PROVE HasRun(b)
<1>1. get[f.ring] \in Nat /\ get[f.ring] >= 0
  BY DEF TypeOK, FenceType
<1> QED BY <1>1, RetiredEnsures

\* The tail's wait: everything the stream waits for is ahead on the ring.
LEMMA TailWaitInv ==
  ASSUME StreamsInv, NEW t \in Threads, TailWait(t), UNCHANGED <<calls, channelOf, hostVars>>
  PROVE  StreamsInv'
<1>0. TypeOK /\ IdsOK /\ OrderOK /\ call[t] \in CallType
  BY DEF StreamsInv, TypeOK
<1>1. PICK s \in StreamSet : s = call[t].stream
  BY <1>0 DEF CallType
<1>3. /\ pc[t] = "tail" /\ pc' = [pc EXCEPT ![t] = "check"]
      /\ hasTail[s] => WaitOn(t, tail[s])
      /\ ~hasTail[s] => ring' = ring
      /\ UNCHANGED <<get, sticky, tail, hasTail, extraWaits, mutex, at, call, ghostVars>>
  BY <1>1 DEF TailWait, Goto, runtimeVars
<1>4. PICK g \in FenceType : g = tail[s]
  BY <1>0 DEF TypeOK
<1>5. call' = [call EXCEPT ![t] = call[t]] /\ call'[t] = call[t] /\ pc'[t] = "check"
  BY <1>0, <1>3 DEF TypeOK
<1>6. ring' \in [Rings -> Seq(CmdType)]
  <2>1. CASE hasTail[s]
    BY <1>0, <1>3, <1>4, <2>1, WaitOnType
  <2>2. CASE ~hasTail[s]
    BY <1>0, <1>3, <2>2 DEF TypeOK
  <2> QED BY <2>1, <2>2
<1>7. PICK r \in Rings : r = RingOf(t)
  BY <1>0, RingOfType
<1>8. UNCHANGED <<next, before, ran, lapsed, get, sticky, own, deps>>
  BY <1>3 DEF ghostVars
<1>9. ASSUME TypeOK' PROVE Kept /\ IdsOK' /\ OrderOK' /\ \A b : Ensures(g, b) => Ready(r, b)'
  <2>1. CASE hasTail[s]
    BY <1>0, <1>3, <1>4, <1>7, <1>8, <1>9, <2>1, WaitOnReady
  <2>2. CASE ~hasTail[s]
    <3>1. Kept /\ IdsOK' /\ OrderOK'
      BY <1>0, <1>3, <1>8, <1>9, <2>2, QuietRings
    <3>2. g.value = 0
      BY <1>4, <2>2 DEF StreamsInv, StreamOK
    <3>3. \A b : Ensures(g, b) => HasRun(b)
      BY <1>0, <3>2, ZeroEnsures
    <3> QED BY <1>8, <3>1, <3>3 DEF Ready, HasRun
  <2> QED BY <2>1, <2>2
<1>10. ASSUME TypeOK' PROVE SubmitOK(t, s)'
  <2>1. RingOf(t)' = r
    BY <1>5, <1>7, RingStays
  <2>2. ASSUME NEW b \in own[s] PROVE Ready(r, b)'
    <3>1. ~AwaitOn(s)
      BY <1>1, <1>3, AloneOn DEF Holding
    <3>2. Ensures(g, b)
      BY <1>4, <2>2, <3>1 DEF StreamsInv, StreamOK
    <3> QED BY <1>9, <1>10, <3>2
  <2>3. ASSUME ~sticky, NEW b \in deps[s] PROVE Ready(r, b)'
    <3>1. Ensures(g, b) \/ Ready(r, b)
      BY <1>1, <1>3, <1>4, <1>7, <2>3 DEF StreamsInv, ThreadOK, SubmitOK
    <3> QED BY <1>9, <1>10, <3>1 DEF Kept
  <2> QED BY <1>5, <1>8, <2>1, <2>2, <2>3 DEF SubmitOK
<1>11. call[t].kind # "free"
  BY <1>3, NotFreeing
<1> QED BY <1>0, <1>1, <1>3, <1>5, <1>6, <1>9, <1>10, <1>11, HeldStep

LEMMA DecideInv ==
  ASSUME StreamsInv, NEW t \in Threads, Decide(t), UNCHANGED <<calls, channelOf, hostVars>>
  PROVE  StreamsInv'
<1>0. TypeOK /\ IdsOK /\ OrderOK /\ call[t] \in CallType
  BY DEF StreamsInv, TypeOK
<1>1. PICK s \in StreamSet : s = call[t].stream
  BY <1>0 DEF CallType
<1>2. pc[t] = "check" /\ call[t].kind # "free" /\ ~sticky
  BY NotFreeing DEF Decide, Goto
<1>3. PICK k \in KindType : /\ k # "free"
                            /\ k = IF call[t].buf \in pins THEN "direct" ELSE call[t].kind
  <2>1. call[t].kind \in KindType /\ "direct" \in KindType
    BY <1>0 DEF CallType, KindType
  <2> QED BY <1>2, <2>1
<1>4. PICK c : c = [call[t] EXCEPT !.kind = k]
  OBVIOUS
<1>5. /\ c \in CallType /\ c.kind = k /\ c.buf = call[t].buf
      /\ c.stream = s /\ c.engine = call[t].engine
  BY <1>0, <1>1, <1>4 DEF CallType
<1>6. /\ pc' = [pc EXCEPT ![t] = "command"] /\ call' = [call EXCEPT ![t] = c]
      /\ UNCHANGED <<ring, get, sticky, tail, hasTail, extraWaits, mutex, at, ghostVars>>
  BY <1>3, <1>4 DEF Decide, Goto, deviceVars, runtimeVars
<1>7. call'[t] = c /\ pc'[t] = "command" /\ ring' \in [Rings -> Seq(CmdType)]
  BY <1>0, <1>6 DEF TypeOK
<1>8. PICK r \in Rings : r = RingOf(t)
  BY <1>0, RingOfType
<1>9. UNCHANGED <<next, before, ran, lapsed, get, sticky, own, deps>>
  BY <1>6 DEF ghostVars
<1>10. ASSUME TypeOK' PROVE Kept /\ IdsOK' /\ OrderOK'
  BY <1>0, <1>6, <1>9, <1>10, QuietRings
<1>11. ASSUME TypeOK' PROVE SubmitOK(t, s)'
  <2>1. RingOf(t)' = r
    BY <1>1, <1>5, <1>7, <1>8, RingStays
  <2>2. ASSUME NEW b \in own[s] \cup deps[s] PROVE Ready(r, b)'
    <3>1. Ready(r, b)
      BY <1>1, <1>2, <1>8, <2>2 DEF StreamsInv, ThreadOK, SubmitOK
    <3> QED BY <1>10, <1>11, <3>1 DEF Kept
  <2> QED BY <1>7, <1>9, <2>1, <2>2 DEF SubmitOK
<1> QED BY <1>1, <1>2, <1>3, <1>5, <1>6, <1>7, <1>10, <1>11, HeldStep

\* What changes in the stream when a submit to it ends.
Leaves(s, g, h, o, d) ==
  /\ mutex' = [mutex EXCEPT ![s] = NoOne] /\ tail' = [tail EXCEPT ![s] = g]
  /\ hasTail' = [hasTail EXCEPT ![s] = h] /\ own' = [own EXCEPT ![s] = o]
  /\ deps' = [deps EXCEPT ![s] = d]

\* What has been submitted, with at most one command more, and that on no
\* buffer or on the thread's.
Submitted(t) ==
  /\ ring' \in [Rings -> Seq(CmdType)] /\ next' \in Nat \ {0} /\ next' \in {next, next + 1}
  /\ before' \in Seq(SUBSET Nat) /\ Len(before') = next' - 1
  /\ dma' \in Seq(Buffers \cup {Pageable}) /\ Len(dma') = next' - 1
  /\ \A id \in 1 .. next - 1 : dma'[id] = dma[id]
  /\ next' = next + 1 => dma'[next] \in {Pageable, call[t].buf}

\* The submit ends: the lock is free, and the tail ensures what the stream
\* still counts on; what it was told to wait for, if submits go on.
LEMMA LeaveStep ==
  ASSUME StreamsInv, NEW t \in Threads, NEW s \in StreamSet, s = call[t].stream,
         Holding(t), NEW l \in {"idle", "sync", "record"}, NEW c \in CallType,
         c.kind # "free", c.buf \in {Pageable, call[t].buf},
         pc' = [pc EXCEPT ![t] = l], call' = [call EXCEPT ![t] = c],
         NEW g \in FenceType, NEW h \in BOOLEAN, NEW o \in SUBSET Nat, NEW d \in SUBSET Nat,
         NEW m \in SUBSET Nat, Leaves(s, g, h, o, d), must' = [must EXCEPT ![t] = m],
         UNCHANGED <<get, sticky, ran, extraWaits, at, captured, channelOf, hostVars>>,
         lapsed => lapsed', lapsed' \in BOOLEAN, Submitted(t), ~h => g.value = 0,
         TypeOK' => /\ Kept /\ IdsOK' /\ OrderOK' /\ CallOK(t)'
                    /\ \A b \in o : Ensures(g, b)'
                    /\ ~sticky => \A b \in d : Ensures(g, b)'
  PROVE  StreamsInv'
<1>1. TypeOK /\ IdsOK /\ OrderOK
  BY DEF StreamsInv
<1>2. l \in Labels
  BY DEF Labels
<1>3. /\ pc' \in [Threads -> Labels] /\ call' \in [Threads -> CallType]
      /\ pc'[t] = l /\ call'[t] = c
      /\ \A u \in Threads \ {t} : pc'[u] = pc[u] /\ call'[u] = call[u]
  BY <1>1, <1>2, ThreadType
<1>4. /\ tail' \in [StreamSet -> FenceType] /\ hasTail' \in [StreamSet -> BOOLEAN]
      /\ mutex' \in [StreamSet -> Threads \cup {NoOne}]
      /\ tail'[s] = g /\ hasTail'[s] = h
      /\ \A z \in StreamSet \ {s} : tail'[z] = tail[z] /\ hasTail'[z] = hasTail[z] /\ mutex'[z] = mutex[z]
  BY <1>1 DEF TypeOK, Leaves
<1>5. /\ own' \in [StreamSet -> SUBSET Nat] /\ deps' \in [StreamSet -> SUBSET Nat]
      /\ own'[s] = o /\ deps'[s] = d
      /\ \A z \in StreamSet \ {s} : own'[z] = own[z] /\ deps'[z] = deps[z]
      /\ must' \in [Threads -> SUBSET Nat] /\ \A u \in Threads \ {t} : must'[u] = must[u]
  BY <1>1 DEF TypeOK, Leaves
<1>6. UNCHANGED <<get, sticky, ran, extraWaits, at, captured, channelOf, live, pins>>
  BY DEF hostVars
<1>7. TypeOK'
  BY <1>1, <1>3, <1>4, <1>5, <1>6 DEF TypeOK, Submitted
<1>8. /\ Kept /\ IdsOK' /\ OrderOK' /\ CallOK(t)' /\ \A b \in o : Ensures(g, b)'
      /\ ~sticky' => \A b \in d : Ensures(g, b)'
  BY <1>7
<1>10. ThreadOK(t)'
  <2>1. LockOK(t)' /\ \A z \in StreamSet : SubmitOK(t, z)'
    BY <1>3 DEF LockOK, SubmitOK, Holding
  <2> QED BY <1>8, <2>1 DEF ThreadOK
<1>11. StreamOK(s)'
  BY <1>4, <1>5, <1>8 DEF StreamOK
<1>12. \A u \in Threads \ {t} : Still(u)
  BY <1>3, <1>5 DEF Still
<1>13. \A z \in StreamSet \ {s} : Same(z)
  BY <1>4, <1>5, <1>6 DEF Same, Frozen
<1>14. /\ pc[t] \notin {"unpinned", "drain"} /\ next' \in {next, next + 1}
       /\ \A id \in 1 .. next - 1 : dma'[id] = dma[id]
       /\ next' = next + 1 => dma'[next] \in {Pageable, call[t].buf}
  BY DEF Submitted, Holding
<1> QED BY <1>3, <1>6, <1>7, <1>8, <1>10, <1>11, <1>12, <1>13, <1>14, HolderStep

\* A submit that ends with no new command.
LEMMA LeaveQuietly ==
  ASSUME StreamsInv, NEW t \in Threads, NEW s \in StreamSet, s = call[t].stream, Holding(t),
         pc' = [pc EXCEPT ![t] = "idle"], call' = [call EXCEPT ![t] = NoCall],
         NEW g \in FenceType, NEW h \in BOOLEAN, mutex' = [mutex EXCEPT ![s] = NoOne],
         tail' = [tail EXCEPT ![s] = g], hasTail' = [hasTail EXCEPT ![s] = h],
         UNCHANGED <<deviceVars, extraWaits, at, next, before, dma, ran, own, deps, captured,
                     must, channelOf, hostVars>>,
         lapsed => lapsed', lapsed' \in BOOLEAN, ~h => g.value = 0,
         ~lapsed' => \A b \in own[s] : Ensures(g, b),
         ~lapsed' /\ ~sticky => \A b \in deps[s] : Ensures(g, b)
  PROVE  StreamsInv'
<1>1. TypeOK /\ IdsOK /\ OrderOK
  BY DEF StreamsInv
<1>2. NoCall \in CallType /\ NoCall.kind = "none" /\ NoCall.buf = Pageable
  BY NoCallType DEF NoCall
<1>3. UNCHANGED <<ring, get, sticky, next, before, dma, ran, own, deps, must, captured>>
  BY DEF deviceVars
<1>4. PICK m \in SUBSET Nat : must' = [must EXCEPT ![t] = m]
  BY <1>1, <1>3 DEF TypeOK
<1>5. PICK o \in SUBSET Nat : o = own[s]
  BY <1>1 DEF TypeOK
<1>6. PICK d \in SUBSET Nat : d = deps[s]
  BY <1>1 DEF TypeOK
<1>7. Submitted(t)
  BY <1>1, <1>3 DEF TypeOK, Submitted
<1>8. Leaves(s, g, h, o, d)
  BY <1>1, <1>3, <1>5, <1>6 DEF TypeOK, Leaves
<1>9. pc'[t] = "idle" /\ call'[t] = NoCall
  BY <1>1 DEF TypeOK
<1>10. CallOK(t)'
  BY <1>9 DEF CallOK
<1>11. ASSUME TypeOK' PROVE Kept /\ IdsOK' /\ OrderOK'
  BY <1>1, <1>3, <1>11, QuietRings
<1>12. ASSUME TypeOK'
       PROVE  /\ \A b \in o : Ensures(g, b)'
              /\ ~sticky => \A b \in d : Ensures(g, b)'
  <2>1. CASE lapsed'
    BY <2>1 DEF Ensures, HasRun
  <2>2. CASE ~lapsed'
    BY <1>5, <1>6, <1>11, <1>12, <2>2 DEF Kept
  <2> QED BY <2>1, <2>2
<1>13. /\ UNCHANGED <<get, sticky, ran, extraWaits, at, captured, channelOf, hostVars>>
       /\ NoCall.kind # "free" /\ NoCall.buf \in {Pageable, call[t].buf}
  BY <1>2, <1>3
<1>14. TypeOK' => /\ Kept /\ IdsOK' /\ OrderOK' /\ CallOK(t)'
                  /\ \A b \in o : Ensures(g, b)'
                  /\ ~sticky => \A b \in d : Ensures(g, b)'
  BY <1>10, <1>11, <1>12
<1> QED BY <1>2, <1>4, <1>7, <1>8, <1>13, <1>14, LeaveStep, ZenonT(60)

\* A submit that ends with the tail as it was.
LEMMA LeaveTail ==
  ASSUME StreamsInv, NEW t \in Threads, NEW s \in StreamSet, s = call[t].stream, Holding(t),
         pc' = [pc EXCEPT ![t] = "idle"], call' = [call EXCEPT ![t] = NoCall],
         mutex' = [mutex EXCEPT ![s] = NoOne],
         UNCHANGED <<deviceVars, tail, hasTail, extraWaits, at, next, before, dma, ran, own, deps,
                     captured, must, channelOf, hostVars>>,
         lapsed => lapsed', lapsed' \in BOOLEAN,
         \A g \in FenceType : g = tail[s] => \A b \in own[s] : Ensures(g, b),
         \A g \in FenceType : g = tail[s] =>
           (~lapsed' /\ ~sticky => \A b \in deps[s] : Ensures(g, b))
  PROVE  StreamsInv'
<1>0. TypeOK
  BY DEF StreamsInv
<1>1. PICK g \in FenceType : g = tail[s] /\ tail' = [tail EXCEPT ![s] = g]
  BY <1>0 DEF TypeOK
<1>2. PICK h \in BOOLEAN : h = hasTail[s] /\ hasTail' = [hasTail EXCEPT ![s] = h]
  BY <1>0 DEF TypeOK
<1>3. ~h => g.value = 0
  BY <1>1, <1>2 DEF StreamsInv, StreamOK
<1>4. /\ \A b \in own[s] : Ensures(g, b)
      /\ ~lapsed' /\ ~sticky => \A b \in deps[s] : Ensures(g, b)
  BY <1>1
<1> QED BY <1>1, <1>2, <1>3, <1>4, LeaveQuietly, ZenonT(60)

LEMMA AwaitCopyInv ==
  ASSUME StreamsInv, NEW t \in Threads, AwaitCopy(t), UNCHANGED <<calls, channelOf, hostVars>>
  PROVE  StreamsInv'
<1>0. TypeOK /\ call[t] \in CallType
  BY DEF StreamsInv, TypeOK
<1>1. PICK s \in StreamSet : s = call[t].stream
  BY <1>0 DEF CallType
<1>2. PICK r \in Rings : r = RingOf(t)
  BY <1>0, RingOfType
<1>3. PICK n \in Nat : n = Len(ring[r])
  BY <1>0 DEF TypeOK
<1>4. PICK g \in FenceType : g = FenceAt(r, n)
  BY FenceAtType
<1>5. /\ pc[t] = "await" /\ get[r] >= call[t].fence.value
      /\ pc' = [pc EXCEPT ![t] = "idle"] /\ call' = [call EXCEPT ![t] = NoCall]
      /\ mutex' = [mutex EXCEPT ![s] = NoOne]
      /\ \/ UNCHANGED <<tail, hasTail>>
         \/ tail' = [tail EXCEPT ![s] = g] /\ hasTail' = [hasTail EXCEPT ![s] = TRUE]
      /\ UNCHANGED <<deviceVars, extraWaits, at, ghostVars>>
  BY <1>1, <1>2, <1>3, <1>4 DEF AwaitCopy, NewTail, Unlock, Return
<1>6. PICK f \in FenceType : f = call[t].fence
  BY <1>0 DEF CallType
<1>7. f.ring = r /\ \A b \in own[s] \cup deps[s] : Ensures(f, b)
  BY <1>1, <1>2, <1>5, <1>6 DEF StreamsInv, ThreadOK, SubmitOK
<1>8. \A b \in own[s] \cup deps[s] : HasRun(b)
  BY <1>0, <1>5, <1>6, <1>7, RetiredEnsures
<1>9. \A h \in FenceType : \A b \in own[s] \cup deps[s] : Ensures(h, b)
  BY <1>8 DEF Ensures
<1>10. Holding(t)
  BY <1>5 DEF Holding
<1>13. /\ UNCHANGED <<deviceVars, extraWaits, at, next, before, dma, ran, own, deps, captured, must>>
       /\ (lapsed => lapsed') /\ lapsed' \in BOOLEAN
  BY <1>0, <1>5 DEF ghostVars, TypeOK
<1>11. CASE UNCHANGED <<tail, hasTail>>
  BY <1>1, <1>5, <1>9, <1>10, <1>11, <1>13, LeaveTail
<1>12. CASE tail' = [tail EXCEPT ![s] = g] /\ hasTail' = [hasTail EXCEPT ![s] = TRUE]
  <2>1. (\A b \in own[s] : Ensures(g, b)) /\ (\A b \in deps[s] : Ensures(g, b))
    BY <1>9
  <2> QED BY <1>1, <1>5, <1>10, <1>12, <1>13, <2>1, LeaveQuietly
<1> QED BY <1>5, <1>11, <1>12

\* The application lapses: nothing more is claimed.
LEMMA ZeroCopyInv ==
  ASSUME StreamsInv, NEW t \in Threads, ZeroCopy(t), UNCHANGED <<calls, channelOf, hostVars>>
  PROVE  StreamsInv'
<1>0. TypeOK /\ call[t] \in CallType
  BY DEF StreamsInv, TypeOK
<1>1. PICK s \in StreamSet : s = call[t].stream
  BY <1>0 DEF CallType
<1>2. PICK r \in Rings : r = RingOf(t)
  BY <1>0, RingOfType
<1>3. PICK g \in FenceType : g = FenceAt(r, 0)
  BY FenceAtType
<1>4. /\ pc[t] = "command" /\ call[t].kind = "zero"
      /\ pc' = [pc EXCEPT ![t] = "idle"] /\ call' = [call EXCEPT ![t] = NoCall]
      /\ mutex' = [mutex EXCEPT ![s] = NoOne] /\ tail' = [tail EXCEPT ![s] = g]
      /\ hasTail' = [hasTail EXCEPT ![s] = TRUE]
      /\ UNCHANGED <<deviceVars, extraWaits, at, next, before, dma, ran, own, deps, captured, must>>
      /\ lapsed' = TRUE
  BY <1>1, <1>2, <1>3 DEF ZeroCopy, NewTail, Unlock, Return
<1>5. Holding(t)
  BY <1>4 DEF Holding
<1> QED BY <1>1, <1>4, <1>5, LeaveQuietly

\* A submit given up: what the stream was told to wait for is nothing, is no
\* longer claimed, or does not matter any more.
LEMMA GiveUpInv ==
  ASSUME StreamsInv, NEW t \in Threads, GiveUp(t), UNCHANGED <<calls, channelOf, hostVars>>,
         Holding(t), pc[t] # "await",
         lapsed => lapsed', lapsed' \in BOOLEAN,
         lapsed' \/ deps[call[t].stream] = {} \/ sticky
  PROVE  StreamsInv'
<1>0. TypeOK /\ call[t] \in CallType
  BY DEF StreamsInv, TypeOK
<1>1. PICK s \in StreamSet : s = call[t].stream
  BY <1>0 DEF CallType
<1>2. /\ pc' = [pc EXCEPT ![t] = "idle"] /\ call' = [call EXCEPT ![t] = NoCall]
      /\ mutex' = [mutex EXCEPT ![s] = NoOne]
      /\ UNCHANGED <<deviceVars, tail, hasTail, extraWaits, at, next, before, dma, ran, own, deps,
                     captured, must>>
  BY <1>1 DEF GiveUp, Unlock, Return
<1>3. ~AwaitOn(s)
  BY <1>1, AloneOn
<1>4. ASSUME NEW g \in FenceType, g = tail[s]
      PROVE  /\ \A b \in own[s] : Ensures(g, b)
             /\ ~lapsed' /\ ~sticky => \A b \in deps[s] : Ensures(g, b)
  <2>1. \A b \in own[s] : Ensures(g, b)
    BY <1>3, <1>4 DEF StreamsInv, StreamOK
  <2> QED BY <1>1, <2>1
<1> QED BY <1>1, <1>2, <1>4, LeaveTail

LEMMA RefusedInv ==
  ASSUME StreamsInv, NEW t \in Threads, Refused(t), UNCHANGED <<calls, channelOf, hostVars>>
  PROVE  StreamsInv'
<1>1. GiveUp(t) /\ Holding(t) /\ pc[t] # "await"
  BY DEF Refused, Holding
<1>2. lapsed' = (lapsed \/ deps[call[t].stream] # {})
  BY DEF Refused
<1>3. (lapsed => lapsed') /\ (lapsed' \/ deps[call[t].stream] = {}) /\ lapsed' \in BOOLEAN
  BY <1>2
<1> QED BY <1>1, <1>3, GiveUpInv

LEMMA DeniedInv ==
  ASSUME StreamsInv, NEW t \in Threads, Denied(t), UNCHANGED <<calls, channelOf, hostVars>>
  PROVE  StreamsInv'
<1>1. sticky /\ GiveUp(t) /\ Holding(t) /\ pc[t] # "await" /\ lapsed' = lapsed
  BY DEF Denied, Holding
<1>2. lapsed' \in BOOLEAN
  BY <1>1 DEF StreamsInv, TypeOK
<1> QED BY <1>1, <1>2, GiveUpInv

\* The command: everything it must run after is ahead of it, and its fence
\* ensures it with them.
LEMMA CommandInv ==
  ASSUME StreamsInv, NEW t \in Threads, Command(t), UNCHANGED <<calls, channelOf, hostVars>>
  PROVE  StreamsInv'
<1>0. TypeOK /\ IdsOK /\ OrderOK /\ call[t] \in CallType /\ next \in Nat \ {0}
  BY DEF StreamsInv, TypeOK
<1>1. PICK s \in StreamSet : s = call[t].stream
  BY <1>0 DEF CallType
<1>2. PICK r \in Rings : r = RingOf(t)
  BY <1>0, RingOfType
<1>3. PICK n \in Nat : n = Len(ring[r]) + 1
  <2>1. Len(ring[r]) \in Nat
    BY <1>0 DEF TypeOK
  <2> QED BY <2>1
<1>4. PICK f \in FenceType : f = FenceAt(r, n) /\ f.ring = r /\ f.value = n
  BY FenceAtType
<1>5. PICK w \in CmdType : w = [op |-> "work", id |-> next] /\ w.op = "work" /\ w.id = next
  <2>1. [op |-> "work", id |-> next] \in CmdType
    BY <1>0 DEF CmdType, WorkType
  <2> QED BY <2>1
<1>6. PICK d \in SUBSET Nat : d = deps[s]
  BY <1>0 DEF TypeOK
<1>7. PICK a \in SUBSET Nat : a = own[s] \cup d
  BY <1>0 DEF TypeOK
<1>8. PICK o \in SUBSET Nat : o = own[s] \cup {next}
  BY <1>0 DEF TypeOK
<1>9. PICK x \in Buffers \cup {Pageable} :
        /\ x = IF call[t].kind = "direct" THEN call[t].buf ELSE Pageable
        /\ x \in {Pageable, call[t].buf}
  BY <1>0 DEF CallType
<1>10. /\ pc[t] = "command" /\ ring' = [ring EXCEPT ![r] = Append(@, w)] /\ next' = next + 1
       /\ before' = Append(before, a) /\ dma' = Append(dma, x) /\ own' = [own EXCEPT ![s] = o]
       /\ UNCHANGED <<get, sticky, extraWaits, ran, lapsed, deps, at, captured>>
  BY <1>1, <1>2, <1>5, <1>6, <1>7, <1>8, <1>9 DEF Command
<1>11. PICK m \in Nat \ {0} : m = next /\ next' = m + 1 /\ Len(before) = m - 1 /\ Len(dma) = m - 1
  BY <1>0, <1>10 DEF TypeOK
<1>12. /\ before' \in Seq(SUBSET Nat) /\ Len(before') = m /\ before'[m] = a
       /\ \A id \in 1 .. m - 1 : before'[id] = before[id]
  <2>1. PICK q \in Seq(SUBSET Nat) : q = before
    BY <1>0 DEF TypeOK
  <2>2. PICK p : p = Append(q, a)
    OBVIOUS
  <2>3. /\ p \in Seq(SUBSET Nat) /\ Len(p) = m /\ p[m] = a
        /\ \A id \in 1 .. m - 1 : p[id] = q[id]
    BY <1>11, <2>1, <2>2
  <2> QED BY <1>10, <2>1, <2>2, <2>3
<1>13. /\ dma' \in Seq(Buffers \cup {Pageable}) /\ Len(dma') = m /\ dma'[m] = x
       /\ \A id \in 1 .. m - 1 : dma'[id] = dma[id]
  <2>1. PICK q \in Seq(Buffers \cup {Pageable}) : q = dma
    BY <1>0 DEF TypeOK
  <2>2. PICK p : p = Append(q, x)
    OBVIOUS
  <2>3. /\ p \in Seq(Buffers \cup {Pageable}) /\ Len(p) = m /\ p[m] = x
        /\ \A id \in 1 .. m - 1 : p[id] = q[id]
    BY <1>11, <2>1, <2>2
  <2> QED BY <1>10, <2>1, <2>2, <2>3
<1>14. \A id \in 1 .. next - 1 : before'[id] = before[id]
  BY <1>11, <1>12
<1>15. Joins(r, w, n)
  BY <1>0, <1>3, <1>10, <1>14, Appended
<1>16. ring' \in [Rings -> Seq(CmdType)]
  <2>1. Append(ring[r], w) \in Seq(CmdType)
    <3>1. ring[r] \in Seq(CmdType)
      BY <1>0 DEF TypeOK
    <3> QED BY <3>1
  <2> QED BY <1>0, <1>10, <2>1 DEF TypeOK
<1>17. Submitted(t)
  <2>1. next' \in Nat \ {0} /\ next' \in {next, next + 1} /\ next' - 1 = m
    BY <1>11
  <2> QED BY <1>9, <1>11, <1>12, <1>13, <1>16, <2>1 DEF Submitted
<1>18. \A b \in a : Ready(r, b)
  BY <1>1, <1>2, <1>6, <1>7, <1>10 DEF StreamsInv, ThreadOK, SubmitOK
<1>19. ASSUME TypeOK' PROVE Kept /\ IdsOK' /\ OrderOK'
  <2>1. \A b \in before'[w.id] : Ready(r, b)
    BY <1>5, <1>11, <1>12, <1>18
  <2> QED BY <1>0, <1>3, <1>5, <1>10, <1>14, <1>19, <2>1, IdsAppended
<1>20. /\ \A b \in o \cup d : Ensures(f, b)'
       /\ \A b \in o : Ensures(f, b)'
       /\ \A b \in d : Ensures(f, b)'
  <2>1. ring'[r][n] = w /\ n \in InFlight(r)'
    BY <1>15 DEF Joins
  <2>2. \A b \in o \cup d : Works(r, n, b)'
    BY <1>5, <1>7, <1>8, <1>11, <1>12, <2>1 DEF Works
  <2>3. \A b \in o \cup d : Ensures(f, b)'
    <3>1. n <= f.value /\ f.ring = r
      BY <1>4
    <3> QED BY <2>1, <2>2, <3>1 DEF Ensures
  <2> QED BY <2>3
<1>21. Holding(t) /\ call[t].kind # "free" /\ mutex[s] = t /\ deps' = [deps EXCEPT ![s] = d]
  <2>1. mutex[s] = t
    BY <1>1, <1>10 DEF StreamsInv, ThreadOK, LockOK, Holding
  <2>2. deps' = [deps EXCEPT ![s] = d]
    BY <1>0, <1>6, <1>10 DEF TypeOK
  <2> QED BY <1>10, <2>1, <2>2, NotFreeing DEF Holding
<1>22. next \in o /\ next \in Nat
  BY <1>0, <1>8
<1>23. PICK m0 \in SUBSET Nat : must = [must EXCEPT ![t] = m0]
  BY <1>0 DEF TypeOK
<1>24. NoCall \in CallType /\ NoCall.kind = "none" /\ NoCall.buf = Pageable
  BY NoCallType DEF NoCall
<1>29. (lapsed => lapsed') /\ lapsed' \in BOOLEAN
  BY <1>0, <1>10 DEF TypeOK
\* A pageable copy to the host: it waits, with the lock.
<1>25. CASE call[t].kind = "d2h"
  <2>1. PICK c : c = [call[t] EXCEPT !.fence = f]
    OBVIOUS
  <2>2. /\ c \in CallType /\ c.kind = call[t].kind /\ c.buf = call[t].buf /\ c.stream = s
        /\ c.fence = f /\ c.engine = call[t].engine
    BY <1>0, <1>1, <2>1 DEF CallType
  <2>0. /\ pc' = [pc EXCEPT ![t] = "await"] /\ call' = [call EXCEPT ![t].fence = f]
        /\ UNCHANGED <<tail, hasTail, mutex, must, lapsed>>
    <3>1. ~AwaitsDirect(t) /\ call[t].kind # "nop"
      BY <1>25 DEF AwaitsDirect
    <3> QED BY <1>2, <1>3, <1>4, <1>25, <3>1 DEF Command
  <2>3. /\ pc' = [pc EXCEPT ![t] = "await"] /\ call' = [call EXCEPT ![t] = c]
        /\ UNCHANGED <<tail, hasTail, mutex, must, lapsed>>
    BY <1>0, <2>0, <2>1 DEF TypeOK
  <2>4. "await" \in Labels
    BY DEF Labels
  <2>5. /\ pc' \in [Threads -> Labels] /\ call' \in [Threads -> CallType]
        /\ pc'[t] = "await" /\ call'[t] = c
        /\ \A u \in Threads \ {t} : pc'[u] = pc[u] /\ call'[u] = call[u]
    BY <1>0, <2>2, <2>3, <2>4, ThreadType
  <2>6. /\ own' \in [StreamSet -> SUBSET Nat] /\ own'[s] = o /\ deps[s] = d
        /\ \A z \in StreamSet \ {s} : own'[z] = own[z]
    BY <1>0, <1>6, <1>10 DEF TypeOK
  <2>7. UNCHANGED <<live, pins, channelOf>>
    BY DEF hostVars
  <2>8. TypeOK'
    BY <1>0, <1>10, <1>17, <2>3, <2>5, <2>6, <2>7 DEF TypeOK, Submitted
  <2>9. Kept /\ IdsOK' /\ OrderOK'
    BY <1>19, <2>8
  <2>10. ThreadOK(t)'
    <3>1. RingOf(t)' = r
      BY <1>1, <1>2, <2>2, <2>5, RingStays
    <3>2. SubmitOK(t, s)'
      BY <1>4, <1>10, <1>20, <2>2, <2>5, <2>6, <3>1 DEF SubmitOK
    <3>3. CallOK(t)'
      BY <2>5 DEF CallOK
    <3>4. LockOK(t)'
      BY <1>21, <2>2, <2>3, <2>5 DEF LockOK
    <3> QED BY <2>2, <2>5, <3>2, <3>3, <3>4 DEF ThreadOK
  <2>11. StreamOK(s)'
    <3>1. AwaitOn(s)' /\ PastOn(s)'
      BY <2>2, <2>5 DEF AwaitOn, PastOn, Past
    <3>2. ~hasTail'[s] => tail'[s].value = 0
      BY <2>3 DEF StreamsInv, StreamOK
    <3> QED BY <3>1, <3>2 DEF StreamOK
  <2>12. \A u \in Threads \ {t} : Still(u)
    BY <2>3, <2>5 DEF Still
  <2>13. \A z \in StreamSet \ {s} : Same(z)
    BY <1>10, <2>3, <2>6 DEF Same, Frozen
  <2>14. /\ Holding(t) /\ pc[t] \notin {"unpinned", "drain"} /\ next' \in {next, next + 1}
         /\ \A id \in 1 .. next - 1 : dma'[id] = dma[id]
         /\ next' = next + 1 => dma'[next] \in {Pageable, call[t].buf}
    BY <1>10, <1>17 DEF Submitted, Holding
  <2> QED BY <1>1, <1>10, <1>21, <2>2, <2>5, <2>8, <2>9, <2>10, <2>11, <2>12, <2>13, <2>14, HolderStep
\* A direct copy that is to be synchronous: it waits, without.
<1>26. CASE call[t].kind # "d2h" /\ AwaitsDirect(t)
  <2>1. PICK c : c = [call[t] EXCEPT !.fence = f]
    OBVIOUS
  <2>2. /\ c \in CallType /\ c.kind = call[t].kind /\ c.buf = call[t].buf /\ c.fence = f
    BY <1>0, <2>1 DEF CallType
  <2>3. PICK k \in SUBSET Nat : k = {next}
    BY <1>0
  <2>0. /\ pc' = [pc EXCEPT ![t] = "sync"] /\ call' = [call EXCEPT ![t].fence = f]
        /\ must' = [must EXCEPT ![t] = k]
        /\ mutex' = [mutex EXCEPT ![s] = NoOne] /\ tail' = [tail EXCEPT ![s] = f]
        /\ hasTail' = [hasTail EXCEPT ![s] = TRUE]
    <3>1. call[t].kind # "nop"
      BY <1>26 DEF AwaitsDirect
    <3> QED BY <1>1, <1>2, <1>3, <1>4, <1>26, <2>3, <3>1 DEF Command, NewTail, Unlock
  <2>4. /\ pc' = [pc EXCEPT ![t] = "sync"] /\ call' = [call EXCEPT ![t] = c]
        /\ must' = [must EXCEPT ![t] = k]
        /\ mutex' = [mutex EXCEPT ![s] = NoOne] /\ tail' = [tail EXCEPT ![s] = f]
        /\ hasTail' = [hasTail EXCEPT ![s] = TRUE]
    BY <1>0, <2>0, <2>1 DEF TypeOK
  <2>5. Leaves(s, f, TRUE, o, d)
    BY <1>10, <1>21, <2>4 DEF Leaves
  <2>6. pc'[t] = "sync" /\ call'[t] = c /\ must'[t] = k
    BY <1>0, <2>4 DEF TypeOK
  <2>7. CallOK(t)'
    BY <1>20, <1>22, <2>2, <2>3, <2>6 DEF CallOK
  <2> QED BY <1>1, <1>10, <1>17, <1>19, <1>20, <1>21, <1>29, <2>2, <2>4, <2>5, <2>7, LeaveStep
\* The NOP of an event.
<1>27. CASE call[t].kind = "nop"
  <2>1. PICK e \in SUBSET Nat : e = o \cup d
    OBVIOUS
  <2>2. PICK c : c = [call[t] EXCEPT !.fence = f, !.all = e]
    OBVIOUS
  <2>3. /\ c \in CallType /\ c.kind = call[t].kind /\ c.buf = call[t].buf /\ c.fence = f
        /\ c.all = e
    BY <1>0, <2>2 DEF CallType
  <2>4. ~AwaitsDirect(t) /\ call[t].kind # "d2h" /\ own'[s] = o
    BY <1>0, <1>10, <1>27 DEF AwaitsDirect, TypeOK
  <2>5. /\ pc' = [pc EXCEPT ![t] = "record"]
        /\ call' = [call EXCEPT ![t].fence = f, ![t].all = e]
        /\ must' = must
        /\ mutex' = [mutex EXCEPT ![s] = NoOne] /\ tail' = [tail EXCEPT ![s] = f]
        /\ hasTail' = [hasTail EXCEPT ![s] = TRUE]
    BY <1>1, <1>2, <1>3, <1>4, <1>6, <1>27, <2>1, <2>4 DEF Command, NewTail, Unlock
  <2>6. pc' = [pc EXCEPT ![t] = "record"] /\ call' = [call EXCEPT ![t] = c]
    BY <1>0, <2>2, <2>5 DEF TypeOK
  <2>7. Leaves(s, f, TRUE, o, d) /\ must' = [must EXCEPT ![t] = m0]
    BY <1>10, <1>21, <1>23, <2>5 DEF Leaves
  <2>8. pc'[t] = "record" /\ call'[t] = c
    BY <1>0, <2>5, <2>6 DEF TypeOK
  <2>9. CallOK(t)'
    BY <1>20, <2>1, <2>3, <2>8 DEF CallOK
  <2> QED BY <1>1, <1>10, <1>17, <1>19, <1>20, <1>21, <1>29, <2>3, <2>6, <2>7, <2>9, LeaveStep
\* Any other call returns.
<1>28. CASE call[t].kind \notin {"d2h", "nop"} /\ ~AwaitsDirect(t)
  <2>1. /\ pc' = [pc EXCEPT ![t] = "idle"] /\ call' = [call EXCEPT ![t] = NoCall] /\ must' = must
        /\ mutex' = [mutex EXCEPT ![s] = NoOne] /\ tail' = [tail EXCEPT ![s] = f]
        /\ hasTail' = [hasTail EXCEPT ![s] = TRUE]
    BY <1>1, <1>2, <1>3, <1>4, <1>28 DEF Command, NewTail, Unlock, Return
  <2>2. Leaves(s, f, TRUE, o, d) /\ must' = [must EXCEPT ![t] = m0]
    BY <1>10, <1>21, <1>23, <2>1 DEF Leaves
  <2>3. pc'[t] = "idle" /\ call'[t] = NoCall
    BY <1>0, <2>1 DEF TypeOK
  <2>4. CallOK(t)'
    BY <2>3 DEF CallOK
  <2> QED BY <1>1, <1>10, <1>17, <1>19, <1>20, <1>21, <1>24, <1>29,
             <2>1, <2>2, <2>4, LeaveStep
<1> QED BY <1>25, <1>26, <1>27, <1>28

----------------------------------------------------------------------------
(* The engines, and the whole                                              *)

\* A step of no thread.
LEMMA DeviceStep ==
  ASSUME StreamsInv, TypeOK', Kept, IdsOK', OrderOK',
         UNCHANGED <<runtimeVars, hostVars, pc, call, channelOf, next, dma, own, deps, captured, must, lapsed>>
  PROVE  StreamsInv'
<1>1. /\ UNCHANGED <<tail, hasTail, extraWaits, mutex, at, live, pins, pc, call, channelOf, next, dma>>
      /\ UNCHANGED <<own, deps, captured, must, lapsed>>
  BY DEF runtimeVars, hostVars
<1>2. \A u \in Threads : Still(u)
  BY <1>1 DEF Still
<1>3. \A s \in StreamSet : Same(s)
  BY <1>1 DEF Same, Frozen
<1>4. ASSUME NEW s \in StreamSet PROVE StreamOK(s)'
  <2>1. AwaitOn(s)' <=> AwaitOn(s)
    BY <1>1 DEF AwaitOn
  <2>2. PastOn(s)' <=> PastOn(s)
    BY <1>1 DEF PastOn, Past
  <2> QED BY <1>3, <2>1, <2>2, StreamKept DEF StreamsInv, Same
<1>5. \A e \in Events : EventOK(e)'
  BY <1>1, EventsKept
<1>6. ASSUME NEW u \in Threads PROVE ThreadOK(u)'
  <2>1. CallOK(u)'
    BY <1>2, CallKept DEF StreamsInv, ThreadOK
  <2>2. LockOK(u)'
    BY <1>1 DEF StreamsInv, ThreadOK, LockOK, Holding
  <2>3. ASSUME NEW s \in StreamSet, s = call[u].stream PROVE SubmitOK(u, s)'
    BY <1>1, <1>2, <1>3, <2>3, SubmitKept DEF StreamsInv, ThreadOK, Same, Frozen
  <2> QED BY <1>1, <2>1, <2>2, <2>3 DEF ThreadOK
<1>7. BuffersOK'
  <2>1. BuffersLive'
    BY <1>1 DEF StreamsInv, BuffersOK, BuffersLive, Kept
  <2>2. ASSUME NEW u \in Threads PROVE FreeOK(u)'
    <3>1. ASSUME call[u].kind = "free"
          PROVE  /\ pc[u] \in {"unpinned", "drain"} /\ call[u].buf \in Buffers
                 /\ call[u].buf \notin pins /\ \A v \in Threads \ {u} : call[v].buf # call[u].buf
      BY <3>1 DEF StreamsInv, BuffersOK, FreeOK
    <3>2. ASSUME call[u].kind = "free", pc[u] = "drain", NEW w \in WantType, w = call[u].want,
                 NEW id \in 1 .. next - 1, dma[id] = call[u].buf
          PROVE  Drained(w, id)'
      <4>1. Drained(w, id)
        BY <3>2 DEF StreamsInv, BuffersOK, FreeOK
      <4> QED BY <4>1 DEF Kept
    <3> QED BY <1>1, <3>1, <3>2 DEF FreeOK
  <2>3. \A u \in Threads : call'[u].buf \in Buffers => call'[u].buf \in live'
    BY <1>1 DEF StreamsInv, BuffersOK
  <2> QED BY <2>1, <2>2, <2>3 DEF BuffersOK
<1> QED BY <1>4, <1>5, <1>6, <1>7 DEF StreamsInv

LEMMA ExecuteInv ==
  ASSUME StreamsInv, NEW r0 \in Rings, Execute(r0) PROVE StreamsInv'
<1>0. TypeOK /\ IdsOK /\ OrderOK
  BY DEF StreamsInv
<1>1. /\ Kept /\ \A id \in ran' : \A b \in before'[id] : HasRun(b)'
      /\ \A r \in Rings : \A i \in InFlight(r)' : \A b : Ahead(r, i, b) => Ahead(r, i, b)'
  BY <1>0, ExecuteKept
<1>2. PICK n \in Nat : n = get[r0] + 1 /\ n \in 1 .. Len(ring[r0])
  <2>1. get[r0] \in Nat /\ Len(ring[r0]) \in Nat /\ get[r0] < Len(ring[r0])
    BY <1>0 DEF TypeOK, Execute
  <2> QED BY <2>1
<1>3. PICK c \in CmdType : c = ring[r0][n]
  <2>1. ring[r0] \in Seq(CmdType)
    BY <1>0 DEF TypeOK
  <2> QED BY <1>2, <2>1
<1>4. /\ get' = [get EXCEPT ![r0] = n]
      /\ UNCHANGED <<ring, runtimeVars, hostVars, pc, call, channelOf, next, before, dma, own, deps,
                     captured, must, lapsed>>
      /\ ran' = ran \/ (c.op = "work" /\ ran' = ran \cup {c.id})
      /\ sticky' \in {sticky, TRUE}
  BY <1>2, <1>3 DEF Execute
<1>5. /\ get' \in [Rings -> Nat] /\ get'[r0] = n /\ \A r \in Rings \ {r0} : get'[r] = get[r]
  BY <1>0, <1>4 DEF TypeOK
<1>6. ran' \subseteq 1 .. next - 1
  BY <1>0, <1>2, <1>3, <1>4 DEF IdsOK
<1>7. ran' \subseteq Nat
  <2>1. next \in Nat
    BY <1>0 DEF TypeOK
  <2> QED BY <1>6, <2>1
<1>8. UNCHANGED <<tail, hasTail, extraWaits, mutex, at, live, pins>>
  BY <1>4 DEF runtimeVars, hostVars
<1>9. TypeOK'
  BY <1>0, <1>4, <1>5, <1>7, <1>8 DEF TypeOK
<1>10. \A r \in Rings : /\ get[r] \in Nat /\ Len(ring[r]) \in Nat /\ get'[r] \in Nat
                        /\ get[r] <= get'[r] /\ get'[r] <= Len(ring[r])
  <2>1. \A r \in Rings : get[r] \in Nat /\ Len(ring[r]) \in Nat /\ get[r] <= Len(ring[r])
    BY <1>0 DEF TypeOK, IdsOK
  <2> QED BY <1>2, <1>5, <2>1
<1>11. IdsOK'
  <2>1. \A b \in 1 .. next - 1 : Published(b)'
    <3>1. PICK w \in WantType : \A b \in 1 .. next - 1 : Drained(w, b)
      BY <1>0, PutsDrain
    <3>2. \A b \in 1 .. next - 1 : Drained(w, b)'
      BY <1>1, <3>1 DEF Kept
    <3> QED BY <3>2 DEF Drained, Published
  <2>2. \A r \in Rings : \A i \in 1 .. Len(ring[r]) :
          ring[r][i].op = "work" => ring[r][i].id \in 1 .. next - 1
    BY <1>0 DEF IdsOK
  <2> QED BY <1>4, <1>6, <1>10, <2>1, <2>2 DEF IdsOK
<1>12. OrderOK'
  <2>1. ASSUME NEW r \in Rings, NEW i \in InFlight(r)', ring[r][i].op = "work",
               NEW b \in before[ring[r][i].id]
        PROVE  Ahead(r, i, b)'
    <3>1. i \in InFlight(r)
      BY <1>4, <1>10 DEF InFlight
    <3>2. Ahead(r, i, b)
      BY <1>0, <2>1, <3>1 DEF OrderOK
    <3> QED BY <1>1, <3>2
  <2> QED BY <1>1, <1>4, <2>1 DEF OrderOK
<1> QED BY <1>1, <1>4, <1>9, <1>11, <1>12, DeviceStep

LEMMA InitInv == Init => StreamsInv
<1> SUFFICES ASSUME Init PROVE StreamsInv
  OBVIOUS
<1>1. NoFence \in FenceType /\ NoCall \in CallType
  BY NoCallType
<1>2. /\ NoCall.kind = "none" /\ NoCall.buf = Pageable /\ Pageable \notin Buffers
      /\ NoFence.value = 0
  <2>1. NoFence.value = 0
    BY DEF NoFence, FenceAt
  <2>2. NoCall.kind = "none" /\ NoCall.buf = Pageable
    BY DEF NoCall
  <2> QED BY <2>1, <2>2, StreamAssumption
<1>3. TypeOK
  <2>1. "idle" \in Labels /\ 0 \in Nat /\ 1 \in Nat \ {0} /\ <<>> \in Seq(FenceType) /\ <<>> \in Seq(CmdType)
    BY DEF Labels
  <2>2. /\ channelOf \in [StreamSet -> Channels]
        /\ tail \in [StreamSet -> FenceType] /\ hasTail \in [StreamSet -> BOOLEAN]
        /\ mutex \in [StreamSet -> Threads \cup {NoOne}] /\ at \in [Events -> FenceType]
        /\ pc \in [Threads -> Labels] /\ call \in [Threads -> CallType]
    BY <1>1, <2>1 DEF Init
  <2>3. /\ ring \in [Rings -> Seq(CmdType)] /\ get \in [Rings -> Nat] /\ sticky \in BOOLEAN
        /\ extraWaits \in [StreamSet -> Seq(FenceType)]
    BY <2>1 DEF Init
  <2>4. /\ live \subseteq Buffers /\ pins \subseteq Buffers /\ ran \subseteq Nat
        /\ own \in [StreamSet -> SUBSET Nat] /\ deps \in [StreamSet -> SUBSET Nat]
        /\ captured \in [Events -> SUBSET Nat] /\ must \in [Threads -> SUBSET Nat]
        /\ lapsed \in BOOLEAN
    BY DEF Init
  <2>5. /\ next \in Nat \ {0} /\ before \in Seq(SUBSET Nat) /\ Len(before) = next - 1
        /\ dma \in Seq(Buffers \cup {Pageable}) /\ Len(dma) = next - 1
    BY DEF Init
  <2> QED BY <2>2, <2>3, <2>4, <2>5 DEF TypeOK
<1>4. IdsOK /\ OrderOK
  <2>1. \A r \in Rings : get[r] = 0 /\ Len(ring[r]) = 0
    BY DEF Init
  <2>2. next = 1 /\ ran = {}
    BY DEF Init
  <2>3. \A r \in Rings : InFlight(r) = {}
    BY <2>1 DEF InFlight
  <2>4. IdsOK
    BY <2>1, <2>2 DEF IdsOK
  <2> QED BY <2>2, <2>3, <2>4 DEF OrderOK, HasRun
<1>5. /\ \A s \in StreamSet : own[s] = {} /\ deps[s] = {} /\ tail[s] = NoFence
      /\ \A e \in Events : captured[e] = {}
      /\ \A t \in Threads : pc[t] = "idle" /\ call[t] = NoCall
  BY DEF Init
<1>6. \A s \in StreamSet : StreamOK(s)
  BY <1>2, <1>5 DEF StreamOK
<1>7. \A e \in Events : EventOK(e)
  BY <1>5 DEF EventOK
<1>8. \A t \in Threads : ThreadOK(t)
  BY <1>5 DEF ThreadOK, LockOK, CallOK, SubmitOK, Holding
<1>9. BuffersOK
  <2>1. next = 1 /\ pins \subseteq live
    BY DEF Init
  <2>2. \A t \in Threads : FreeOK(t) /\ call[t].buf \notin Buffers
    BY <1>2, <1>5 DEF FreeOK
  <2> QED BY <2>1, <2>2 DEF BuffersOK, BuffersLive
<1> QED BY <1>3, <1>4, <1>6, <1>7, <1>8, <1>9 DEF StreamsInv

LEMMA StutterInv == ASSUME StreamsInv, UNCHANGED vars PROVE StreamsInv'
<1>1. /\ UNCHANGED <<ring, get, sticky, next, before, dma, ran, lapsed, own, deps, captured, must>>
      /\ UNCHANGED <<runtimeVars, hostVars, pc, call, channelOf>>
  BY DEF vars, deviceVars, ghostVars
<1>2. UNCHANGED <<tail, hasTail, extraWaits, mutex, at, live, pins>>
  BY <1>1 DEF runtimeVars, hostVars
<1>3. TypeOK /\ IdsOK /\ OrderOK
  BY DEF StreamsInv
<1>4. TypeOK'
  BY <1>1, <1>2, <1>3 DEF TypeOK
<1>5. Kept /\ IdsOK' /\ OrderOK'
  BY <1>1, <1>3, <1>4, QuietRings
<1> QED BY <1>1, <1>4, <1>5, DeviceStep

LEMMA ThreadInv == ASSUME StreamsInv, NEW t \in Threads, Thread(t) PROVE StreamsInv'
<1>1. UNCHANGED <<calls, channelOf, hostVars>>
  BY DEF Thread
<1>2. CASE Lock(t)
  BY <1>1, <1>2, LockInv
<1>3. CASE ExtraWait(t)
  BY <1>1, <1>3, ExtraWaitInv
<1>4. CASE ClearExtra(t)
  BY <1>1, <1>4, ClearExtraInv
<1>5. CASE TailWait(t)
  BY <1>1, <1>5, TailWaitInv
<1>6. CASE Command(t)
  BY <1>1, <1>6, CommandInv
<1>7. CASE SetEvent(t)
  BY <1>1, <1>7, SetEventInv
<1>8. CASE AwaitCopy(t)
  BY <1>1, <1>8, AwaitCopyInv
<1>9. CASE ZeroCopy(t)
  BY <1>1, <1>9, ZeroCopyInv
<1>10. CASE Refused(t)
  BY <1>1, <1>10, RefusedInv
<1>11. CASE PushWait(t)
  BY <1>1, <1>11, PushWaitInv
<1>12. CASE Synced(t)
  BY <1>1, <1>12, SyncedInv
<1>13. CASE SyncReturn(t)
  BY <1>1, <1>13, SyncReturnInv
<1>14. CASE Decide(t)
  BY <1>1, <1>14, DecideInv
<1>15. CASE DeviceSynced(t)
  BY <1>1, <1>15, DeviceSyncedInv
<1>16. CASE WaitAll(t)
  BY <1>1, <1>16, WaitAllInv
<1>17. CASE Denied(t)
  BY <1>1, <1>17, DeniedInv
<1> QED BY <1>2, <1>3, <1>4, <1>5, <1>6, <1>7, <1>8, <1>9, <1>10, <1>11, <1>12, <1>13, <1>14,
           <1>15, <1>16, <1>17 DEF Thread

LEMMA NextInv == StreamsInv /\ [Next]_vars => StreamsInv'
<1> SUFFICES ASSUME StreamsInv, [Next]_vars PROVE StreamsInv'
  OBVIOUS
<1>1. ASSUME NEW t \in Threads, NEW s \in StreamSet,
             \/ \E kind \in Kinds : Begin(t, s, kind)
             \/ \E e \in Events : Record(t, s, e) \/ ReadEvent(t, s, e)
             \/ StreamSync(t, s)
             \/ \E kind \in {"h2d", "d2h"}, b \in Buffers, sync \in BOOLEAN :
                  BeginBuffer(t, s, kind, b, sync)
      PROVE  StreamsInv'
  BY <1>1, BeginInv, RecordInv, ReadEventInv, StreamSyncInv, BeginBufferInv
<1>2. ASSUME NEW t \in Threads, NEW e \in Events, EventSync(t, e) PROVE StreamsInv'
  BY <1>2, EventSyncInv
<1>3. ASSUME NEW t \in Threads, DeviceSync(t) PROVE StreamsInv'
  BY <1>3, DeviceSyncInv
<1>4. ASSUME NEW t \in Threads, NEW b \in Buffers,
             \/ MallocHost(t, b) \/ HostRegister(t, b)
             \/ HostUnregister(t, b) \/ FreeHost(t, b)
      PROVE  StreamsInv'
  BY <1>4, PinInv, FreeHostInv
<1>5. ASSUME NEW t \in Threads, Thread(t) \/ FreeMemory(t) PROVE StreamsInv'
  BY <1>5, ThreadInv, FreeMemoryInv
<1>6. ASSUME NEW r \in Rings, Execute(r) PROVE StreamsInv'
  BY <1>6, ExecuteInv
<1>7. CASE UNCHANGED vars
  BY <1>7, StutterInv
<1> QED BY <1>1, <1>2, <1>3, <1>4, <1>5, <1>6, <1>7 DEF Next

----------------------------------------------------------------------------

\* The inductive invariant of stream_submit, the events, the synchronize
\* calls and sgFreeHost holds in every state, of whatever application; what it
\* says of order it says until the application lapses.
THEOREM StreamsInvariant == Spec => []StreamsInv
<1>1. Init => StreamsInv
  BY InitInv
<1>2. StreamsInv /\ [Next]_vars => StreamsInv'
  BY NextInv
<1> QED BY <1>1, <1>2, PTL DEF Spec

\* Work submitted to one stream runs in submission order, on either engine,
\* and after the commands of the events its stream was told to wait for, until
\* the application makes an empty pageable H2D copy (runtime.cpp:231) or passes
\* a bad address on a stream that waits for events (runtime.cpp:223): dropping
\* the waits for fences of the same ring, and taking a stream's lock once per
\* submit, is till then enough (wait_on, stream_submit), whatever commands fail
\* and whatever is refused after that.
THEOREM StreamsInOrder == Spec => []StreamOrder
<1>1. StreamsInv => StreamOrder
  BY DEF StreamsInv, OrderOK, StreamOrder, InOrder, HasRun
<1> QED BY <1>1, StreamsInvariant, PTL

\* When sgStreamSynchronize, sgEventSynchronize, sgDeviceSynchronize or a
\* synchronous direct copy is about to return, what it waits for has run, under
\* the same condition.
THEOREM SyncsComplete == Spec => []SyncComplete
<1>1. StreamsInv => SyncComplete
  BY DEF StreamsInv, ThreadOK, CallOK, SyncComplete, Complete, HasRun
<1> QED BY <1>1, StreamsInvariant, PTL

\* The device never works on a host buffer that has been freed, and no pin is
\* left on one: sgFreeHost unpins first, then waits for what is published.
\* This needs nothing of the application.
THEOREM BuffersStayLive == Spec => []BuffersLive
<1>1. StreamsInv => BuffersLive
  BY DEF StreamsInv, BuffersOK
<1> QED BY <1>1, StreamsInvariant, PTL
=============================================================================

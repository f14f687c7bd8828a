-------------------------- MODULE IdleGatingProofs --------------------------
(***************************************************************************)
(* Proofs about IdleGating: an engine never sleeps through a doorbell, an  *)
(* unpark or a fence, for any number of engines, producers, commands and   *)
(* page faults.                                                            *)
(***************************************************************************)
EXTENDS IdleGating, FiniteSetTheorems, TLAPS

----------------------------------------------------------------------------
(* The inductive invariant                                                 *)

\* The positions at which an engine has `asleep` set, has `asleep_blocked`
\* set (if work is pending), and is counted in num_asleep_blocked (ditto).
AsleepPC == {"blocked", "count", "recheck", "recheckHead", "waiting", "disarm"}
BlockedPC == {"count", "recheck", "recheckHead", "waiting", "disarm", "unblock"}
CountedPC == {"recheck", "recheckHead", "waiting", "disarm", "unblock", "uncount"}
EnginePC == {"scan", "head", "execute", "push", "wake", "signal", "arm", "asleep"}
              \cup AsleepPC \cup CountedPC

Command == [engine : Engines, value : Nat]

TypeOK ==
  /\ cmds \in [Engines -> Seq(Command)]
  /\ put \in [Engines -> Nat] /\ get \in [Engines -> Nat]
  /\ cursor \in [Engines -> Nat] /\ seenPut \in [Engines -> Nat]
  /\ parked \in [Engines -> BOOLEAN] /\ faultFail \in [Engines -> BOOLEAN]
  /\ sticky \in [Engines -> BOOLEAN]
  /\ asleep \in [Engines -> BOOLEAN] /\ asleepBlocked \in [Engines -> BOOLEAN]
  /\ numAsleepBlocked \in Int
  /\ rung \in [Engines -> BOOLEAN] /\ pending \in [Engines -> BOOLEAN]
  /\ epc \in [Engines -> EnginePC] /\ toCheck \in [Engines -> SUBSET Engines]
  /\ ppc \in [Producers -> {"idle", "put", "fence", "ring"}]
  /\ target \in [Producers -> Engines] /\ buffered \in [Producers -> Nat]
  /\ faults \subseteq Engines /\ hengine \in Engines /\ nfaults \in Nat
  /\ hpc \in {"idle", "fail", "unpark", "ring"}

\* The registers are in order, a command that runs was published, and no
\* engine waits for itself.
QueueOK ==
  \A e \in Engines :
    /\ cursor[e] <= seenPut[e] /\ seenPut[e] <= put[e] /\ put[e] <= Len(cmds[e])
    /\ epc[e] = "execute" => cursor[e] < seenPut[e]
    /\ \A i \in 1 .. Len(cmds[e]) : cmds[e][i].engine # e

\* A buffered PUT is the newest of its ring and its doorbell has yet to
\* fence; GET is behind only until wake_blocked_sleepers' fence, or after a
\* failed migration.
StoresOK ==
  /\ \A p \in Producers :
       buffered[p] # 0 =>
         ppc[p] = "fence" /\ buffered[p] = Len(cmds[target[p]])
  /\ \A e \in Engines : get[e] # cursor[e] => epc[e] = "wake" \/ sticky[e]

\* The flags follow the engine's position, and once past the idle budget
\* `pending` says whether the ring had work at the last scan.
FlagsAt(e) ==
  /\ asleep[e] <=> epc[e] \in AsleepPC
  /\ asleepBlocked[e] <=> pending[e] /\ epc[e] \in BlockedPC
  /\ epc[e] \in {"blocked", "count", "recheckHead", "unblock", "uncount"} =>
       pending[e]
  /\ epc[e] \in {"arm", "asleep"} \cup AsleepPC => (pending[e] <=> HasWork(e))

FlagsOK == \A e \in Engines : FlagsAt(e)

Counted == {e \in Engines : pending[e] /\ epc[e] \in CountedPC}
CountOK == numAsleepBlocked = Cardinality(Counted)

\* Past its second look, with the bell where it was.
Missed(e) == epc[e] \in {"recheckHead", "waiting"} /\ ~rung[e] /\ ~parked[e]

UnparkBell(e) == hpc = "ring" /\ hengine = e
ProducerBell(e) ==
  \E p \in Producers : target[p] = e /\ ppc[p] \in {"fence", "ring"}

BellOK ==
  \A e \in Engines :
    Missed(e) => put[e] = seenPut[e] \/ ProducerBell(e) \/ UnparkBell(e)

\* The fence that e's head waits for is not passed, or its engine has yet to
\* go through wake_blocked_sleepers as far as e.
FenceAhead(e, t, v) ==
  \/ cursor[t] < v \/ sticky[t]
  \/ epc[t] = "wake"
  \/ epc[t] = "signal" /\ e \in toCheck[t]

SleepersOK ==
  \A e \in Engines :
    Dormant(e) /\ ~parked[e] /\ HasWork(e) =>
      \/ UnparkBell(e)
      \/ HeadCmd(e).value # 0 /\ FenceAhead(e, HeadCmd(e).engine, HeadCmd(e).value)

GatingInv ==
  TypeOK /\ QueueOK /\ StoresOK /\ FlagsOK /\ CountOK /\ BellOK /\ SleepersOK
----------------------------------------------------------------------------
(* GatingInv is inductive                                                  *)

\* The initial states satisfy the inductive invariant.
LEMMA InitInv == Init => GatingInv
<1> SUFFICES ASSUME Init PROVE GatingInv
  OBVIOUS
<1> USE GatingAssumption DEF Init
<1>1. (CHOOSE e \in Engines : TRUE) \in Engines
  OBVIOUS
<1>2. TypeOK
  BY <1>1 DEF TypeOK, EnginePC, AsleepPC, CountedPC
<1>3. QueueOK /\ StoresOK
  BY DEF QueueOK, StoresOK
<1>4. FlagsOK /\ BellOK /\ SleepersOK
  BY DEF FlagsOK, FlagsAt, AsleepPC, BlockedPC, BellOK, Missed, SleepersOK, Dormant
<1>5. Counted = {}
  BY DEF Counted, CountedPC
<1>6. CountOK
  BY <1>5, FS_EmptySet DEF CountOK
<1> QED BY <1>2, <1>3, <1>4, <1>6 DEF GatingInv

\* Type correctness of a producer's steps.
LEMMA ProducerType ==
  ASSUME TypeOK, NEW p \in Producers, 
         \/ \E e, t \in Engines, v \in 0 .. MaxCmds : BeginDoorbell(p, e, t, v)
         \/ Producer(p) \/ DrainProducer(p)
  PROVE  TypeOK'
<1> USE DEF TypeOK, Step, ringVars, sleepVars, engineVars, localVars, handlerVars,
            producerVars
<1>1. ASSUME NEW e \in Engines, NEW t \in Engines, NEW v \in 0 .. MaxCmds,
             BeginDoorbell(p, e, t, v)
      PROVE  TypeOK'
  <2>1. [engine |-> t, value |-> v] \in Command
    BY GatingAssumption DEF Command
  <2>2. Append(cmds[e], [engine |-> t, value |-> v]) \in Seq(Command)
    BY <2>1
  <2> QED BY <1>1, <2>2 DEF BeginDoorbell
<1>2. CASE StorePut(p)
  <2>1. Len(cmds[target[p]]) \in Nat
    OBVIOUS
  <2> QED BY <1>2, <2>1 DEF StorePut
<1>3. CASE ProducerFence(p)
  BY <1>3 DEF ProducerFence, Drain
<1>4. CASE Ring(p)
  BY <1>4 DEF Ring, RingBell, Signal
<1>5. CASE DrainProducer(p)
  BY <1>5 DEF DrainProducer, Drain
<1> QED BY <1>1, <1>2, <1>3, <1>4, <1>5 DEF Producer

\* Of an engine's.
LEMMA EngineType ==
  ASSUME TypeOK, NEW e \in Engines, Engine(e) \/ DrainEngine(e) \/ Timeout(e)
  PROVE  TypeOK'
<1> USE DEF TypeOK, Goto, OnlyMoves, Publish, Signal, EnginePC, AsleepPC, CountedPC,
            ringVars, sleepVars, engineVars, localVars, handlerVars, producerVars
<1>1. CASE Scan(e)
  <2>1. (sticky[e] \/ faultFail[e]) \in BOOLEAN
    OBVIOUS
  <2>2. CASE faultFail[e] /\ put[e] # cursor[e]
    <3>1. /\ get' \in [Engines -> Nat] /\ cursor' \in [Engines -> Nat]
          /\ seenPut' \in [Engines -> Nat] /\ epc' \in [Engines -> EnginePC]
      <4>1. /\ Goto(e, "scan", "scan") /\ Publish(e)
            /\ cursor' = [cursor EXCEPT ![e] = @ + 1]
            /\ seenPut' = [seenPut EXCEPT ![e] = put[e]]
        BY SMTT(30), <1>1, <2>2 DEF Scan
      <4> QED BY <4>1
    <3>2. /\ sticky' \in [Engines -> BOOLEAN] /\ faultFail' \in [Engines -> BOOLEAN]
          /\ pending' \in [Engines -> BOOLEAN]
      BY <1>1, <2>1 DEF Scan
    <3> QED BY <1>1, <3>1, <3>2 DEF Scan
  <2>3. CASE ~(faultFail[e] /\ put[e] # cursor[e])
    BY <1>1, <2>1, <2>3 DEF Scan
  <2> QED BY <2>2, <2>3
<1>2. CASE Visit(e)
  BY <1>2 DEF Visit
<1>3. CASE Idle(e)
  <2>1. HasWork(e) \in BOOLEAN
    BY DEF HasWork
  <2>2. epc' \in [Engines -> EnginePC]
    BY <1>3, ZenonT(60) DEF Idle
  <2> QED BY <1>3, <2>1, <2>2 DEF Idle
<1>4. CASE Retire(e)
  BY <1>4, SMTT(30) DEF Retire
<1>5. CASE PageFault(e)
  BY <1>5, SMTT(30) DEF PageFault
<1>6. CASE PushFault(e)
  BY <1>6 DEF PushFault
<1>7. CASE WakeFence(e)
  BY <1>7 DEF WakeFence
<1>8. CASE WakeOne(e)
  <2>1. PICK t \in toCheck[e] :
          /\ IF asleepBlocked[t] THEN Signal(t) ELSE UNCHANGED rung
          /\ toCheck' = [toCheck EXCEPT ![e] = @ \ {t}]
          /\ epc' = [epc EXCEPT ![e] = IF toCheck[e] = {t} THEN "scan" ELSE @]
    BY <1>8 DEF WakeOne
  <2>2. rung' \in [Engines -> BOOLEAN] /\ epc' \in [Engines -> EnginePC]
        /\ toCheck' \in [Engines -> SUBSET Engines]
    BY <2>1
  <2> QED BY <1>8, <2>2 DEF WakeOne
<1>9. CASE SampleBell(e)
  BY <1>9 DEF SampleBell
<1>10. CASE SetAsleep(e)
  BY <1>10 DEF SetAsleep
<1>11. CASE SetBlocked(e)
  BY <1>11 DEF SetBlocked
<1>12. CASE CountBlocked(e)
  BY SMTT(30), <1>12 DEF CountBlocked
<1>13. CASE Recheck(e)
  BY <1>13 DEF Recheck
<1>14. CASE RecheckHead(e)
  BY <1>14 DEF RecheckHead
<1>15. CASE Wake(e)
  BY <1>15 DEF Wake
<1>20. CASE Timeout(e)
  BY <1>20 DEF Timeout
<1>16. CASE Disarm(e)
  BY <1>16 DEF Disarm
<1>17. CASE Unblock(e)
  BY <1>17 DEF Unblock
<1>18. CASE Uncount(e)
  BY SMTT(30), <1>18 DEF Uncount
<1>19. CASE DrainEngine(e)
  BY <1>19 DEF DrainEngine
<1> QED BY <1>1, <1>2, <1>3, <1>4, <1>5, <1>6, <1>7, <1>8, <1>9, <1>10, <1>11,
           <1>12, <1>13, <1>14, <1>15, <1>16, <1>17, <1>18, <1>19, <1>20
        DEF Engine

\* Of the UVM thread's.
LEMMA HandlerType == ASSUME TypeOK, Handler PROVE TypeOK'
<1> USE DEF TypeOK, ringVars, sleepVars, engineVars, localVars, handlerVars,
            producerVars
<1>1. ASSUME NEW e \in Engines, PopFault(e) PROVE TypeOK'
  BY <1>1 DEF PopFault
<1>2. CASE PostFail
  BY <1>2 DEF PostFail
<1>3. CASE Unpark
  BY <1>3 DEF Unpark
<1>4. CASE RingUnparked
  BY <1>4 DEF RingUnparked, RingBell, Signal
<1> QED BY <1>1, <1>2, <1>3, <1>4 DEF Handler

\* What Append does to a ring.
LEMMA AppendRing ==
  ASSUME NEW s \in Seq(Command), NEW c \in Command
  PROVE  /\ Len(Append(s, c)) = Len(s) + 1
         /\ \A i \in 1 .. Len(s) : Append(s, c)[i] = s[i]
         /\ Append(s, c)[Len(s) + 1] = c
OBVIOUS

\* The steps of every thread keep the registers in order.
LEMMA QueueInv ==
  ASSUME TypeOK, QueueOK, StoresOK, Next, TypeOK'
  PROVE  QueueOK' /\ StoresOK'
<1> USE DEF Goto, Step, OnlyMoves, Publish, Drain, ringVars, sleepVars,
            engineVars, localVars, handlerVars, producerVars
<1>t. /\ cmds \in [Engines -> Seq(Command)] /\ put \in [Engines -> Nat]
      /\ get \in [Engines -> Nat] /\ cursor \in [Engines -> Nat]
      /\ seenPut \in [Engines -> Nat] /\ epc \in [Engines -> EnginePC]
      /\ sticky \in [Engines -> BOOLEAN]
      /\ ppc \in [Producers -> {"idle", "put", "fence", "ring"}]
      /\ target \in [Producers -> Engines] /\ buffered \in [Producers -> Nat]
  BY DEF TypeOK
<1>l. \A e \in Engines : Len(cmds[e]) \in Nat
  BY DEF TypeOK
<1>1. ASSUME NEW p \in Producers, NEW e \in Engines, NEW t \in Engines,
             NEW v \in 0 .. MaxCmds, BeginDoorbell(p, e, t, v)
      PROVE  QueueOK' /\ StoresOK'
  <2> DEFINE c == [engine |-> t, value |-> v]
  <2>1. c \in Command /\ c.engine # e
    BY <1>1, GatingAssumption DEF Command, BeginDoorbell
  <2>2. cmds' = [cmds EXCEPT ![e] = Append(cmds[e], c)]
    BY <1>1 DEF BeginDoorbell
  <2> HIDE DEF c
  <2>3. /\ Len(cmds'[e]) = Len(cmds[e]) + 1
        /\ \A i \in 1 .. Len(cmds[e]) : cmds'[e][i] = cmds[e][i]
        /\ cmds'[e][Len(cmds[e]) + 1] = c
    BY <1>t, <2>1, <2>2, AppendRing
  <2>4. \A x \in Engines \ {e} : cmds'[x] = cmds[x]
    BY <1>t, <2>2
  <2>5. /\ UNCHANGED <<put, get, cursor, seenPut, epc, sticky, buffered>>
        /\ \A q \in Producers \ {p} : UNCHANGED <<ppc[q], target[q]>>
        /\ ppc'[p] = "put" /\ ppc[p] = "idle"
        /\ \A q \in Producers : buffered[q] # 0 => target[q] # e
    BY <1>1, <1>t DEF BeginDoorbell
  <2>6. \A i \in 1 .. Len(cmds'[e]) : cmds'[e][i].engine # e
    <3> SUFFICES ASSUME NEW i \in 1 .. Len(cmds'[e]) PROVE cmds'[e][i].engine # e
      OBVIOUS
    <3>1. CASE i \in 1 .. Len(cmds[e])
      BY <3>1, <2>3 DEF QueueOK
    <3>2. CASE i = Len(cmds[e]) + 1
      BY <3>2, <2>1, <2>3
    <3> QED BY <1>l, <2>3, <3>1, <3>2
  <2>7. QueueOK'
    <3>1. \A x \in Engines : put[x] \in Nat
      BY <1>t
    <3>2. \A x \in Engines : \A i \in 1 .. Len(cmds'[x]) : cmds'[x][i].engine # x
      BY <2>4, <2>6 DEF QueueOK
    <3>3. \A x \in Engines : put[x] <= Len(cmds'[x])
      BY <1>l, <2>3, <2>4, <3>1 DEF QueueOK
    <3> QED BY <2>5, <3>2, <3>3 DEF QueueOK
  <2>8. StoresOK'
    <3>1. \A q \in Producers : buffered[q] # 0 =>
            q # p /\ UNCHANGED <<ppc[q], target[q], cmds[target[q]]>>
      BY <1>t, <2>4, <2>5, ZenonT(60) DEF StoresOK
    <3> QED BY <2>5, <3>1 DEF StoresOK
  <2> QED BY <2>7, <2>8
<1>2. ASSUME NEW p \in Producers, Producer(p) \/ DrainProducer(p)
      PROVE  QueueOK' /\ StoresOK'
  <2>1. UNCHANGED <<cmds, get, cursor, sticky, engineVars, target>>
    BY <1>2 DEF Producer, StorePut, ProducerFence, Ring, DrainProducer
  <2>2. CASE StorePut(p)
    BY <1>t, <2>1, <2>2 DEF StorePut, QueueOK, StoresOK
  <2>3. CASE Ring(p)
    BY <1>t, <2>1, <2>3 DEF Ring, QueueOK, StoresOK
  <2>4. CASE ProducerFence(p) \/ DrainProducer(p)
    <3>1. \A e \in Engines : put[e] <= put'[e] /\ put'[e] <= Len(cmds[e])
      <4>1. put' = IF buffered[p] = 0 THEN put
                   ELSE [put EXCEPT ![target[p]] = buffered[p]]
        BY <2>4 DEF ProducerFence, DrainProducer
      <4>2. CASE buffered[p] = 0
        BY <1>t, <1>l, <4>1, <4>2 DEF QueueOK
      <4>3. CASE buffered[p] # 0
        <5>1. target[p] \in Engines /\ buffered[p] = Len(cmds[target[p]])
          BY <1>t, <4>3 DEF StoresOK
        <5>2. \A e \in Engines :
                put'[e] = IF e = target[p] THEN Len(cmds[e]) ELSE put[e]
          BY <1>t, <4>1, <4>3, <5>1
        <5>3. \A e \in Engines : put[e] \in Nat
          BY <1>t
        <5> QED BY <1>l, <5>2, <5>3 DEF QueueOK
      <4> QED BY <4>2, <4>3
    <3>2. /\ buffered'[p] = 0
          /\ \A q \in Producers \ {p} : UNCHANGED <<ppc[q], buffered[q]>>
      BY <1>t, <2>4 DEF ProducerFence, DrainProducer
    <3>3. QueueOK'
      <4>1. put' \in [Engines -> Nat]
        BY DEF TypeOK
      <4> QED BY <1>t, <2>1, <3>1, <4>1 DEF QueueOK
    <3> QED BY <1>t, <2>1, <3>2, <3>3 DEF StoresOK
  <2> QED BY <1>2, <2>2, <2>3, <2>4 DEF Producer
<1>3. ASSUME NEW e \in Engines, Scan(e) PROVE QueueOK' /\ StoresOK'
  <2>1. /\ UNCHANGED <<cmds, put, producerVars>>
        /\ \A x \in Engines \ {e} :
             UNCHANGED <<seenPut[x], get[x], cursor[x], epc[x], sticky[x]>>
        /\ seenPut'[e] = put[e] /\ epc'[e] # "execute" /\ epc[e] # "wake"
    BY <1>3, <1>t DEF Scan
  <2>2. CASE faultFail[e] /\ put[e] # cursor[e]
    <3>1. sticky'[e] /\ cursor'[e] = cursor[e] + 1
      BY <1>3, <1>t, <2>2 DEF Scan
    <3>2. \A x \in Engines : cursor[x] \in Nat /\ seenPut[x] \in Nat /\ put[x] \in Nat
      BY <1>t
    <3>3. QueueOK'
      BY <1>l, <2>1, <2>2, <3>1, <3>2 DEF QueueOK
    <3> QED BY <2>1, <3>1, <3>3 DEF StoresOK
  <2>3. CASE ~(faultFail[e] /\ put[e] # cursor[e])
    <3>1. (sticky[e] => sticky'[e]) /\ UNCHANGED <<get, cursor>>
      BY <1>3, <1>t, <2>3 DEF Scan
    <3>2. \A x \in Engines : cursor[x] \in Nat /\ seenPut[x] \in Nat /\ put[x] \in Nat
      BY <1>t
    <3>3. QueueOK'
      BY <1>l, <2>1, <3>1, <3>2 DEF QueueOK
    <3> QED BY <2>1, <3>1, <3>3 DEF StoresOK
  <2> QED BY <2>2, <2>3
<1>4. ASSUME NEW e \in Engines, Visit(e) \/ Retire(e) PROVE QueueOK' /\ StoresOK'
  <2>1. CASE Visit(e)
    BY <1>t, <2>1 DEF Visit, Runnable, HasWork, QueueOK, StoresOK
  <2>2. CASE Retire(e)
    BY <1>t, <2>2 DEF Retire, QueueOK, StoresOK
  <2> QED BY <1>4, <2>1, <2>2
<1>5. ASSUME UNCHANGED <<cmds, put, cursor, seenPut, sticky, producerVars>>,
             \A x \in Engines :
               /\ get'[x] \in {get[x], cursor[x]}
               /\ epc'[x] = "execute" => epc[x] = "execute"
               /\ epc[x] = "wake" => epc'[x] = "wake" \/ get'[x] = cursor[x]
      PROVE  QueueOK' /\ StoresOK'
  BY <1>5 DEF QueueOK, StoresOK
<1>6. ASSUME NEW e \in Engines, PageFault(e) \/ WakeFence(e) \/ SetAsleep(e)
      PROVE  QueueOK' /\ StoresOK'
  BY <1>5, <1>6, <1>t DEF PageFault, WakeFence, SetAsleep
<1>7. ASSUME NEW e \in Engines,
             \/ Idle(e) \/ PushFault(e) \/ SampleBell(e) \/ SetBlocked(e)
             \/ CountBlocked(e) \/ Recheck(e) \/ RecheckHead(e) \/ Wake(e)
             \/ Timeout(e) \/ Disarm(e) \/ Unblock(e) \/ Uncount(e)
      PROVE  QueueOK' /\ StoresOK'
  <2>1. UNCHANGED <<cmds, put, get, cursor, seenPut, sticky, producerVars>>
    BY <1>7 DEF Idle, PushFault, SampleBell, SetBlocked, CountBlocked, Recheck,
         RecheckHead, Wake, Timeout, Disarm, Unblock, Uncount
  <2>2. epc'[e] # "execute" /\ epc[e] # "wake"
    BY <1>7, <1>t DEF Idle, PushFault, SampleBell, SetBlocked, CountBlocked,
         Recheck, RecheckHead, Wake, Timeout, Disarm, Unblock, Uncount
  <2>3. \A x \in Engines \ {e} : epc'[x] = epc[x]
    BY <1>7, <1>t DEF Idle, PushFault, SampleBell, SetBlocked, CountBlocked,
         Recheck, RecheckHead, Wake, Timeout, Disarm, Unblock, Uncount
  <2> QED BY <1>5, <1>t, <2>1, <2>2, <2>3
<1>8. ASSUME NEW e \in Engines, WakeOne(e) PROVE QueueOK' /\ StoresOK'
  BY <1>5, <1>8, <1>t DEF WakeOne
<1>9. ASSUME NEW e \in Engines, DrainEngine(e) PROVE QueueOK' /\ StoresOK'
  BY <1>5, <1>9, <1>t DEF DrainEngine
<1>10. CASE Handler
  <2>1. UNCHANGED <<cmds, put, get, cursor, sticky, engineVars, producerVars>>
    BY <1>10 DEF Handler, PopFault, PostFail, Unpark, RingUnparked
  <2> QED BY <1>5, <2>1
<1> QED BY <1>1, <1>2, <1>3, <1>4, <1>6, <1>7, <1>8, <1>9, <1>10
        DEF Next, Submit, Engine

\* An engine's step leaves the other engines' registers, flags and positions
\* alone, and what the producers and the UVM thread do.
LEMMA OtherEngines ==
  ASSUME TypeOK, NEW e \in Engines, Engine(e) \/ DrainEngine(e) \/ Timeout(e)
  PROVE  /\ UNCHANGED <<cmds, put, producerVars, hpc, hengine>>
         /\ \A x \in Engines \ {e} :
              UNCHANGED <<epc[x], pending[x], cursor[x], seenPut[x], asleep[x],
                          asleepBlocked[x], toCheck[x], parked[x], sticky[x]>>
<1> USE DEF Goto, OnlyMoves, Publish, ringVars, sleepVars, engineVars, localVars,
            handlerVars, producerVars
<1>t. /\ epc \in [Engines -> EnginePC] /\ pending \in [Engines -> BOOLEAN]
      /\ cursor \in [Engines -> Nat] /\ seenPut \in [Engines -> Nat]
      /\ asleep \in [Engines -> BOOLEAN] /\ asleepBlocked \in [Engines -> BOOLEAN]
      /\ toCheck \in [Engines -> SUBSET Engines]
      /\ parked \in [Engines -> BOOLEAN] /\ sticky \in [Engines -> BOOLEAN]
  BY DEF TypeOK
<1>1. CASE Scan(e)
  <2>1. UNCHANGED <<cmds, put, parked, sleepVars, toCheck, producerVars, handlerVars>>
    BY <1>1 DEF Scan
  <2>2. \A x \in Engines \ {e} :
          UNCHANGED <<epc[x], pending[x], cursor[x], seenPut[x], sticky[x]>>
    BY <1>1, <1>t DEF Scan
  <2> QED BY <2>1, <2>2
<1>2. CASE Visit(e) \/ Idle(e) \/ Retire(e) \/ PageFault(e) \/ PushFault(e)
  <2>1. UNCHANGED <<cmds, put, sticky, sleepVars, seenPut, toCheck, producerVars, hpc, hengine>>
    BY <1>2 DEF Visit, Idle, Retire, PageFault, PushFault
  <2>2. \A x \in Engines \ {e} : UNCHANGED <<epc[x], pending[x], cursor[x], parked[x]>>
    BY <1>2, <1>t DEF Visit, Idle, Retire, PageFault, PushFault
  <2> QED BY <2>1, <2>2
<1>3. CASE WakeFence(e)
  BY <1>3, <1>t DEF WakeFence
<1>4. CASE WakeOne(e)
  BY <1>4, <1>t DEF WakeOne
<1>5. CASE \/ SampleBell(e) \/ SetAsleep(e) \/ SetBlocked(e) \/ CountBlocked(e)
           \/ Recheck(e) \/ RecheckHead(e) \/ Wake(e) \/ Timeout(e) \/ Disarm(e)
           \/ Unblock(e) \/ Uncount(e) \/ DrainEngine(e)
  <2>1. UNCHANGED <<cmds, put, cursor, parked, sticky, localVars, producerVars, hpc, hengine>>
    BY <1>5 DEF SampleBell, SetAsleep, SetBlocked, CountBlocked, Recheck,
         RecheckHead, Wake, Timeout, Disarm, Unblock, Uncount, DrainEngine
  <2>2. \A x \in Engines \ {e} : epc'[x] = epc[x]
    BY <1>5, <1>t DEF SampleBell, SetAsleep, SetBlocked, CountBlocked, Recheck,
         RecheckHead, Wake, Timeout, Disarm, Unblock, Uncount, DrainEngine
  <2>3. \A x \in Engines \ {e} : UNCHANGED <<asleep[x], asleepBlocked[x]>>
    BY <1>5, <1>t DEF SampleBell, SetAsleep, SetBlocked, CountBlocked, Recheck,
         RecheckHead, Wake, Timeout, Disarm, Unblock, Uncount, DrainEngine
  <2> QED BY <2>1, <2>2, <2>3
<1> QED BY <1>1, <1>2, <1>3, <1>4, <1>5 DEF Engine

\* The sleep flags and the count of blocked sleepers follow the engines.
LEMMA FlagsInv ==
  ASSUME TypeOK, FlagsOK, CountOK, Next
  PROVE  FlagsOK' /\ CountOK'
<1> USE DEF Goto, OnlyMoves, ringVars, sleepVars, engineVars, localVars,
            handlerVars, producerVars
<1>t. /\ epc \in [Engines -> EnginePC] /\ pending \in [Engines -> BOOLEAN]
      /\ cursor \in [Engines -> Nat] /\ seenPut \in [Engines -> Nat]
      /\ asleep \in [Engines -> BOOLEAN] /\ asleepBlocked \in [Engines -> BOOLEAN]
      /\ numAsleepBlocked \in Int
  BY DEF TypeOK
<1>c. IsFiniteSet(Counted)
  BY GatingAssumption, FS_Subset DEF Counted
\* Steps that touch neither positions nor flags.
<1>1. ASSUME UNCHANGED <<cursor, sleepVars, epc, seenPut, pending>>
      PROVE  FlagsOK' /\ CountOK'
  BY <1>1 DEF FlagsOK, FlagsAt, HasWork, CountOK, Counted
<1>2. CASE Submit \/ Handler \/ \E p \in Producers : Producer(p) \/ DrainProducer(p)
  BY <1>1, <1>2, ZenonT(60) DEF Submit, BeginDoorbell, Handler, PopFault, PostFail, Unpark,
       RingUnparked, Producer, StorePut, ProducerFence, Ring, DrainProducer
\* For an engine's step it is enough to look at that engine.
<1>3. ASSUME NEW e \in Engines, Engine(e) \/ DrainEngine(e) \/ Timeout(e),
             FlagsAt(e)'
      PROVE  FlagsOK'
  <2>1. \A x \in Engines \ {e} : FlagsAt(x)'
    BY <1>3, OtherEngines DEF FlagsOK, FlagsAt, HasWork
  <2> QED BY <1>3, <2>1 DEF FlagsOK
<1>4. ASSUME NEW e \in Engines, Engine(e) \/ DrainEngine(e) \/ Timeout(e),
             UNCHANGED numAsleepBlocked, (e \in Counted)' <=> e \in Counted
      PROVE  CountOK'
  <2>1. \A x \in Engines \ {e} : x \in Counted' <=> x \in Counted
    BY <1>4, OtherEngines DEF Counted
  <2>2. Counted \subseteq Engines /\ Counted' \subseteq Engines
    BY DEF Counted
  <2>3. Counted' = Counted
    BY <1>4, <2>1, <2>2
  <2> QED BY <1>4, <2>3 DEF CountOK
<1>5. ASSUME NEW e \in Engines, DrainEngine(e) PROVE FlagsOK' /\ CountOK'
  BY <1>1, <1>5 DEF DrainEngine
\* Steps of an engine that is awake before and after.
<1>6. ASSUME NEW e \in Engines, Engine(e), UNCHANGED sleepVars,
             epc[e] \in {"scan", "head", "execute", "push", "wake", "signal"},
             epc'[e] \in {"scan", "head", "execute", "push", "wake", "signal", "arm"},
             epc'[e] = "arm" => (pending'[e] <=> HasWork(e)')
      PROVE  FlagsOK' /\ CountOK'
  <2>1. FlagsAt(e)'
    BY <1>6 DEF FlagsOK, FlagsAt, AsleepPC, BlockedPC
  <2>2. e \notin Counted /\ e \notin Counted'
    BY <1>6 DEF Counted, CountedPC
  <2> QED BY <1>3, <1>4, <1>6, <2>1, <2>2
<1>7. ASSUME NEW e \in Engines, Scan(e) PROVE FlagsOK' /\ CountOK'
  <2>1. epc[e] = "scan" /\ epc'[e] \in {"scan", "head"} /\ UNCHANGED sleepVars
    BY <1>7, <1>t DEF Scan
  <2> QED BY <1>6, <1>7, <2>1 DEF Engine
<1>8. ASSUME NEW e \in Engines,
             \/ Visit(e) \/ Retire(e) \/ PageFault(e) \/ PushFault(e) \/ WakeFence(e)
      PROVE  FlagsOK' /\ CountOK'
  <2>1. /\ epc[e] \in {"head", "execute", "push", "wake"}
        /\ epc'[e] \in {"scan", "execute", "push", "wake", "signal"}
        /\ UNCHANGED sleepVars
    BY <1>8, <1>t DEF Visit, Retire, PageFault, PushFault, WakeFence
  <2> QED BY <1>6, <1>8, <2>1 DEF Engine
<1>9. ASSUME NEW e \in Engines, WakeOne(e) PROVE FlagsOK' /\ CountOK'
  <2>1. epc[e] = "signal" /\ epc'[e] \in {"scan", "signal"} /\ UNCHANGED sleepVars
    BY <1>9, <1>t DEF WakeOne
  <2> QED BY <1>6, <1>9, <2>1 DEF Engine
<1>10. ASSUME NEW e \in Engines, Idle(e) PROVE FlagsOK' /\ CountOK'
  <2>1. epc[e] = "head" /\ epc'[e] \in {"scan", "arm"} /\ UNCHANGED sleepVars
    BY <1>10, <1>t DEF Idle
  <2>2. UNCHANGED <<seenPut, cursor>> /\ pending'[e] = HasWork(e)
    BY <1>10, <1>t DEF Idle
  <2>3. HasWork(e)' = HasWork(e)
    BY <2>2 DEF HasWork
  <2> QED BY <1>6, <1>10, <2>1, <2>2, <2>3 DEF Engine
\* Steps on the way to sleep and back.
<1>11. ASSUME NEW e \in Engines,
              \/ SampleBell(e) \/ SetAsleep(e) \/ SetBlocked(e) \/ Recheck(e)
              \/ RecheckHead(e) \/ Wake(e) \/ Timeout(e) \/ Disarm(e)
              \/ Unblock(e) \/ CountBlocked(e) \/ Uncount(e)
       PROVE  FlagsAt(e)'
  <2>1. HasWork(e)' = HasWork(e) /\ UNCHANGED pending
    BY <1>11 DEF HasWork, SampleBell, SetAsleep, SetBlocked, Recheck, RecheckHead,
         Wake, Timeout, Disarm, Unblock, CountBlocked, Uncount
  <2>2. FlagsAt(e)
    BY DEF FlagsOK
  <2> USE DEF FlagsAt, AsleepPC, BlockedPC
  <2>3. CASE SampleBell(e)
    BY <1>t, <2>1, <2>2, <2>3 DEF SampleBell
  <2>4. CASE SetAsleep(e)
    BY <1>t, <2>1, <2>2, <2>4 DEF SetAsleep
  <2>5. CASE SetBlocked(e)
    BY <1>t, <2>1, <2>2, <2>5 DEF SetBlocked
  <2>6. CASE Recheck(e)
    <3>1. epc[e] = "recheck" /\ epc'[e] \in {"waiting", "disarm", "recheckHead"}
          /\ UNCHANGED <<asleep, asleepBlocked>>
      BY <1>t, <2>6 DEF Recheck
    <3>2. epc'[e] = "recheckHead" => HasWork(e)
      BY <1>t, <2>6 DEF Recheck, HasWork
    <3> QED BY <2>1, <2>2, <3>1, <3>2
  <2>7. CASE RecheckHead(e)
    <3>1. epc[e] = "recheckHead" /\ epc'[e] \in {"waiting", "disarm"}
          /\ UNCHANGED <<asleep, asleepBlocked>>
      BY <1>t, <2>7 DEF RecheckHead
    <3> QED BY <2>1, <2>2, <3>1
  <2>8. CASE Wake(e) \/ Timeout(e)
    <3>1. epc[e] = "waiting" /\ epc'[e] = "disarm"
          /\ UNCHANGED <<asleep, asleepBlocked>>
      BY <1>t, <2>8 DEF Wake, Timeout
    <3> QED BY <2>1, <2>2, <3>1
  <2>9. CASE Disarm(e)
    BY <1>t, <2>1, <2>2, <2>9 DEF Disarm
  <2>10. CASE Unblock(e)
    BY <1>t, <2>1, <2>2, <2>10 DEF Unblock
  <2>11. CASE CountBlocked(e)
    BY <1>t, <2>1, <2>2, <2>11 DEF CountBlocked
  <2>12. CASE Uncount(e)
    BY <1>t, <2>1, <2>2, <2>12 DEF Uncount
  <2> QED BY <1>11, <2>3, <2>4, <2>5, <2>6, <2>7, <2>8, <2>9, <2>10, <2>11, <2>12
<1>12. ASSUME NEW e \in Engines,
              \/ SampleBell(e) \/ SetAsleep(e) \/ SetBlocked(e) \/ Recheck(e)
              \/ RecheckHead(e) \/ Wake(e) \/ Timeout(e) \/ Disarm(e) \/ Unblock(e)
       PROVE  FlagsOK' /\ CountOK'
  <2>1. UNCHANGED <<numAsleepBlocked, pending>>
    BY <1>12 DEF SampleBell, SetAsleep, SetBlocked, Recheck, RecheckHead, Wake,
         Timeout, Disarm, Unblock
  <2>2. pending[e] => (epc'[e] \in CountedPC <=> epc[e] \in CountedPC)
    BY <1>12, <1>t DEF CountedPC, SampleBell, SetAsleep, SetBlocked, Recheck,
         RecheckHead, Wake, Timeout, Disarm, Unblock
  <2>3. (e \in Counted)' <=> e \in Counted
    BY <2>1, <2>2 DEF Counted
  <2> QED BY <1>3, <1>4, <1>11, <1>12, <2>1, <2>3 DEF Engine
<1>13. ASSUME NEW e \in Engines, CountBlocked(e) PROVE FlagsOK' /\ CountOK'
  <2>1. pending[e] /\ pending' = pending
    BY <1>13 DEF CountBlocked, FlagsOK, FlagsAt
  <2>2. /\ epc[e] = "count" /\ epc'[e] = "recheck"
        /\ \A x \in Engines \ {e} : epc'[x] = epc[x]
    BY <1>13, <1>t DEF CountBlocked
  <2>3. Counted' = Counted \cup {e} /\ e \notin Counted
    BY <2>1, <2>2 DEF Counted, CountedPC
  <2>4. Cardinality(Counted') = Cardinality(Counted) + 1
    BY <1>c, <2>3, FS_AddElement
  <2>5. CountOK'
    BY <1>13, <2>4 DEF CountOK, CountBlocked
  <2> QED BY <1>3, <1>11, <1>13, <2>5 DEF Engine
<1>14. ASSUME NEW e \in Engines, Uncount(e) PROVE FlagsOK' /\ CountOK'
  <2>1. pending[e] /\ pending' = pending
    BY <1>14 DEF Uncount, FlagsOK, FlagsAt
  <2>2. /\ epc[e] = "uncount" /\ epc'[e] = "scan"
        /\ \A x \in Engines \ {e} : epc'[x] = epc[x]
    BY <1>14, <1>t DEF Uncount
  <2>3. Counted' = Counted \ {e} /\ e \in Counted
    BY <2>1, <2>2 DEF Counted, CountedPC
  <2>4. Cardinality(Counted') = Cardinality(Counted) - 1
    BY <1>c, <2>3, FS_RemoveElement
  <2>5. CountOK'
    BY <1>14, <2>4 DEF CountOK, Uncount
  <2> QED BY <1>3, <1>11, <1>14, <2>5 DEF Engine
<1> QED BY <1>2, <1>5, <1>7, <1>8, <1>9, <1>10, <1>12, <1>13, <1>14
        DEF Next, Engine

\* Only the engine itself samples its bell, on its way to sleep.
LEMMA BellKept ==
  ASSUME TypeOK, Next, NEW e \in Engines, epc[e] # "arm"
  PROVE  rung[e] => rung'[e]
<1> USE DEF Goto, OnlyMoves, ringVars, sleepVars, engineVars, localVars, handlerVars,
            producerVars, RingBell, Signal
<1>t. epc \in [Engines -> EnginePC] /\ rung \in [Engines -> BOOLEAN]
      /\ hengine \in Engines /\ target \in [Producers -> Engines]
      /\ toCheck \in [Engines -> SUBSET Engines]
  BY DEF TypeOK
<1>1. CASE Submit \/ Handler \/ \E p \in Producers : Producer(p) \/ DrainProducer(p)
  BY <1>t, <1>1 DEF Submit, BeginDoorbell, Handler, PopFault, PostFail, Unpark,
       RingUnparked, Producer, StorePut, ProducerFence, Ring, DrainProducer
<1>2. ASSUME NEW x \in Engines, WakeOne(x) PROVE rung[e] => rung'[e]
  BY <1>t, <1>2 DEF WakeOne
<1>3. ASSUME NEW x \in Engines, SampleBell(x) PROVE rung[e] => rung'[e]
  BY <1>t, <1>3 DEF SampleBell
<1>4. ASSUME NEW x \in Engines,
             \/ Scan(x) \/ Visit(x) \/ Idle(x) \/ Retire(x) \/ PageFault(x)
             \/ PushFault(x) \/ WakeFence(x) \/ SetAsleep(x) \/ SetBlocked(x)
             \/ CountBlocked(x) \/ Recheck(x) \/ RecheckHead(x) \/ Wake(x)
             \/ Disarm(x) \/ Unblock(x) \/ Uncount(x) \/ DrainEngine(x) \/ Timeout(x)
      PROVE  UNCHANGED rung
  BY <1>4 DEF Scan, Visit, Idle, Retire, PageFault, PushFault, WakeFence,
       SetAsleep, SetBlocked, CountBlocked, Recheck, RecheckHead, Wake, Disarm,
       Unblock, Uncount, DrainEngine, Timeout
<1> QED BY <1>1, <1>2, <1>3, <1>4 DEF Next, Engine

\* The only steps of an engine that end past its second look: that look, the
\* look at the head command, or a store becoming visible.
LEMMA FallsAsleep ==
  ASSUME TypeOK, NEW e \in Engines, Engine(e) \/ DrainEngine(e) \/ Timeout(e),
         epc'[e] \in {"recheckHead", "waiting"}
  PROVE  Recheck(e) \/ RecheckHead(e) \/ DrainEngine(e)
<1> USE DEF Goto
<1>t. epc \in [Engines -> EnginePC]
  BY DEF TypeOK
<1>1. CASE Scan(e)
  BY <1>1, <1>t DEF Scan
<1>2. CASE \/ Visit(e) \/ Idle(e) \/ Retire(e) \/ PageFault(e) \/ PushFault(e)
           \/ WakeFence(e) \/ SampleBell(e) \/ SetAsleep(e) \/ SetBlocked(e)
  BY <1>2, <1>t DEF Visit, Idle, Retire, PageFault, PushFault, WakeFence,
       SampleBell, SetAsleep, SetBlocked
<1>3. CASE WakeOne(e)
  BY <1>3, <1>t DEF WakeOne
<1>4. CASE CountBlocked(e) \/ Wake(e) \/ Disarm(e) \/ Unblock(e) \/ Uncount(e) \/ Timeout(e)
  BY <1>4, <1>t DEF CountBlocked, Wake, Disarm, Unblock, Uncount, Timeout
<1> QED BY <1>1, <1>2, <1>3, <1>4 DEF Engine

\* No doorbell and no unpark is lost on an engine past its second look.
LEMMA BellInv ==
  ASSUME TypeOK, StoresOK, FlagsOK, BellOK, Next
  PROVE  BellOK'
<1> USE DEF Goto, Step, Drain, OnlyMoves, ringVars, sleepVars, engineVars,
            localVars, handlerVars, producerVars
<1>t. /\ epc \in [Engines -> EnginePC] /\ rung \in [Engines -> BOOLEAN]
      /\ parked \in [Engines -> BOOLEAN] /\ asleep \in [Engines -> BOOLEAN]
      /\ put \in [Engines -> Nat] /\ seenPut \in [Engines -> Nat]
      /\ ppc \in [Producers -> {"idle", "put", "fence", "ring"}]
      /\ target \in [Producers -> Engines] /\ buffered \in [Producers -> Nat]
      /\ hengine \in Engines
  BY DEF TypeOK
<1> SUFFICES ASSUME NEW e \in Engines, Missed(e)'
             PROVE  (put[e] = seenPut[e] \/ ProducerBell(e) \/ UnparkBell(e))'
  BY DEF BellOK
<1>a. epc[e] \in {"recheckHead", "waiting"} => asleep[e] /\ (~rung'[e] => ~rung[e])
  BY BellKept, <1>t DEF FlagsOK, FlagsAt, AsleepPC
<1>1. ASSUME NEW p \in Producers, NEW d \in Engines, NEW t \in Engines,
             NEW v \in 0 .. MaxCmds, BeginDoorbell(p, d, t, v)
      PROVE  (put[e] = seenPut[e] \/ ProducerBell(e) \/ UnparkBell(e))'
  <2>1. UNCHANGED <<put, parked, rung, engineVars, handlerVars>>
        /\ ppc[p] = "idle"
        /\ \A q \in Producers \ {p} : UNCHANGED <<ppc[q], target[q]>>
    BY <1>1, <1>t DEF BeginDoorbell
  <2>2. Missed(e)
    BY <2>1 DEF Missed
  <2>3. ProducerBell(e) => ProducerBell(e)'
    BY <2>1 DEF ProducerBell
  <2> QED BY <2>1, <2>2, <2>3 DEF BellOK, UnparkBell
<1>2. ASSUME NEW p \in Producers, Producer(p) \/ DrainProducer(p)
      PROVE  (put[e] = seenPut[e] \/ ProducerBell(e) \/ UnparkBell(e))'
  <2>1. UNCHANGED <<parked, engineVars, target, handlerVars>>
        /\ \A q \in Producers \ {p} : ppc'[q] = ppc[q]
    BY <1>2, <1>t DEF Producer, StorePut, ProducerFence, Ring, DrainProducer
  <2>2. Missed(e)
    BY <1>a, <2>1 DEF Missed
  <2>3. CASE Ring(p)
    <3>1. put' = put /\ ppc[p] = "ring" /\ ppc'[p] = "idle"
      BY <1>t, <2>3 DEF Ring
    <3>2. target[p] # e
      BY <1>a, <1>t, <2>2, <2>3 DEF Ring, RingBell, Signal, Missed
    <3>3. ProducerBell(e) => ProducerBell(e)'
      BY <2>1, <3>1, <3>2 DEF ProducerBell
    <3> QED BY <2>1, <2>2, <3>1, <3>3 DEF BellOK, UnparkBell
  <2>4. CASE StorePut(p) \/ ProducerFence(p) \/ DrainProducer(p)
    <3>1. ppc'[p] \in {"fence", "ring"} \/ ppc'[p] = ppc[p]
      BY <1>t, <2>4 DEF StorePut, ProducerFence, DrainProducer
    <3>2. ProducerBell(e) => ProducerBell(e)'
      BY <2>1, <3>1 DEF ProducerBell
    <3>3. CASE put'[e] = put[e]
      BY <2>1, <2>2, <3>2, <3>3 DEF BellOK, UnparkBell
    <3>4. CASE put'[e] # put[e]
      <4>1. target[p] = e /\ buffered[p] # 0
        BY <1>t, <2>4, <3>4 DEF StorePut, ProducerFence, DrainProducer
      <4>2. ppc[p] = "fence"
        BY <4>1 DEF StoresOK
      <4> QED BY <2>1, <3>1, <4>1, <4>2 DEF ProducerBell
    <3> QED BY <3>3, <3>4
  <2> QED BY <1>2, <2>3, <2>4 DEF Producer
<1>3. ASSUME NEW x \in Engines, Engine(x) \/ DrainEngine(x) \/ Timeout(x)
      PROVE  (put[e] = seenPut[e] \/ ProducerBell(e) \/ UnparkBell(e))'
  <2>1. UNCHANGED <<put, producerVars, hpc, hengine>>
    BY <1>3, OtherEngines
  <2>2. (ProducerBell(e) => ProducerBell(e)') /\ (UnparkBell(e) => UnparkBell(e)')
    BY <2>1 DEF ProducerBell, UnparkBell
  <2>3. CASE x # e
    <3>1. UNCHANGED <<epc[e], seenPut[e], parked[e]>>
      BY <1>3, <2>3, OtherEngines
    <3>2. Missed(e)
      BY <1>a, <3>1 DEF Missed
    <3> QED BY <2>1, <2>2, <3>1, <3>2 DEF BellOK
  <2>4. CASE x = e
    <3>1. Recheck(e) \/ RecheckHead(e) \/ DrainEngine(e)
      BY <1>3, <2>4, FallsAsleep DEF Missed
    <3>2. CASE Recheck(e)
      BY <1>t, <2>1, <3>2 DEF Recheck, Missed
    <3>3. CASE RecheckHead(e) \/ DrainEngine(e)
      <4>1. Missed(e) /\ seenPut' = seenPut
        BY <1>a, <1>t, <3>3 DEF RecheckHead, DrainEngine, Missed
      <4> QED BY <2>1, <2>2, <4>1 DEF BellOK
    <3> QED BY <3>1, <3>2, <3>3
  <2> QED BY <2>3, <2>4
<1>4. CASE Handler
  <2>1. UNCHANGED <<put, engineVars, producerVars>>
    BY <1>4 DEF Handler, PopFault, PostFail, Unpark, RingUnparked
  <2>2. ProducerBell(e)' = ProducerBell(e)
    BY <2>1 DEF ProducerBell
  <2>3. CASE Unpark
    BY <1>a, <1>t, <2>1, <2>2, <2>3 DEF Unpark, BellOK, Missed, UnparkBell
  <2>4. CASE RingUnparked
    <3>1. Missed(e) /\ hengine # e
      BY <1>a, <1>t, <2>1, <2>4 DEF RingUnparked, RingBell, Signal, Missed
    <3> QED BY <2>1, <2>2, <3>1 DEF BellOK, UnparkBell
  <2>5. CASE PostFail \/ \E x \in Engines : PopFault(x)
    <3>1. Missed(e) /\ hpc # "ring"
      BY <1>a, <2>1, <2>5 DEF PostFail, PopFault, Missed
    <3> QED BY <2>1, <2>2, <3>1 DEF BellOK, UnparkBell
  <2> QED BY <1>4, <2>3, <2>4, <2>5 DEF Handler
<1> QED BY <1>1, <1>2, <1>3, <1>4 DEF Next, Submit

\* The head of a ring with work is a command, and of another engine if a WAIT.
LEMMA HeadTyped ==
  ASSUME TypeOK, QueueOK, NEW e \in Engines, HasWork(e)
  PROVE  /\ cursor[e] + 1 \in 1 .. Len(cmds[e])
         /\ HeadCmd(e) \in Command /\ HeadCmd(e).engine # e
<1>1. /\ cursor[e] \in Nat /\ seenPut[e] \in Nat /\ put[e] \in Nat
      /\ Len(cmds[e]) \in Nat
  BY DEF TypeOK
<1>2. cursor[e] <= seenPut[e] /\ seenPut[e] <= put[e] /\ put[e] <= Len(cmds[e])
  BY DEF QueueOK
<1>3. cursor[e] + 1 \in 1 .. Len(cmds[e])
  BY <1>1, <1>2 DEF HasWork
<1>4. HeadCmd(e) \in Command
  BY <1>3 DEF TypeOK, HeadCmd
<1> QED BY <1>3, <1>4 DEF QueueOK, HeadCmd

\* It stays where it is until it retires.
LEMMA HeadKept ==
  ASSUME TypeOK, QueueOK, Next, NEW e \in Engines, HasWork(e), cursor'[e] = cursor[e]
  PROVE  /\ HeadCmd(e) \in Command /\ HeadCmd(e).engine # e
         /\ HeadCmd(e)' = HeadCmd(e)
<1> DEFINE i == cursor[e] + 1
<1>t. cmds \in [Engines -> Seq(Command)]
  BY DEF TypeOK
<1>1. i \in 1 .. Len(cmds[e])
  BY HeadTyped
<1> HIDE DEF i
<1>2. HeadCmd(e) = cmds[e][i] /\ HeadCmd(e)' = cmds'[e][i]
  BY DEF HeadCmd, i
<1>3. cmds[e] \in Seq(Command) /\ cmds[e][i] \in Command
  BY <1>t, <1>1
<1>5. cmds'[e][i] = cmds[e][i]
  <2>1. CASE UNCHANGED cmds
    BY <2>1
  <2>2. ASSUME NEW p \in Producers, NEW d \in Engines, NEW t \in Engines,
               NEW v \in 0 .. MaxCmds, BeginDoorbell(p, d, t, v)
        PROVE  cmds'[e][i] = cmds[e][i]
    <3> DEFINE c == [engine |-> t, value |-> v]
    <3>1. c \in Command
      BY GatingAssumption DEF Command
    <3>2. cmds' = [cmds EXCEPT ![d] = Append(cmds[d], c)]
      BY <2>2 DEF BeginDoorbell
    <3> HIDE DEF c
    <3>3. CASE d = e
      BY <1>t, <1>1, <1>3, <3>1, <3>2, <3>3, AppendRing
    <3>4. CASE d # e
      BY <1>t, <3>2, <3>4
    <3> QED BY <3>3, <3>4
  <2>3. ASSUME NEW x \in Engines, Engine(x) \/ DrainEngine(x) \/ Timeout(x)
        PROVE  UNCHANGED cmds
    BY <2>3, OtherEngines
  <2>4. CASE Handler \/ \E p \in Producers : Producer(p) \/ DrainProducer(p)
    BY <2>4 DEF Handler, PopFault, PostFail, Unpark, RingUnparked, Producer,
         StorePut, ProducerFence, Ring, DrainProducer, ringVars
  <2> QED BY <2>1, <2>2, <2>3, <2>4 DEF Next, Submit
<1> QED BY <1>2, <1>5, HeadTyped

\* No fence is lost on a sleeping engine: the awaited engine's own steps.
LEMMA FenceInv ==
  ASSUME TypeOK, FlagsOK, CountOK, NEW x \in Engines, NEW e \in Engines, x # e,
         Engine(x) \/ DrainEngine(x) \/ Timeout(x),
         Dormant(e), ~rung'[e], HasWork(e), NEW v \in Nat, FenceAhead(e, x, v)
  PROVE  FenceAhead(e, x, v)'
<1> USE DEF FenceAhead, Goto, OnlyMoves, ringVars, sleepVars, localVars
<1>t. /\ epc \in [Engines -> EnginePC] /\ cursor \in [Engines -> Nat]
      /\ sticky \in [Engines -> BOOLEAN] /\ rung \in [Engines -> BOOLEAN]
      /\ toCheck \in [Engines -> SUBSET Engines]
  BY DEF TypeOK
<1>e. asleepBlocked[e] /\ e \in Counted
  BY DEF Dormant, FlagsOK, FlagsAt, AsleepPC, BlockedPC, Counted, CountedPC
<1>1. CASE Scan(x)
  <2>1. CASE faultFail[x] /\ put[x] # cursor[x]
    BY <1>1, <1>t, <2>1 DEF Scan
  <2>2. CASE ~(faultFail[x] /\ put[x] # cursor[x])
    <3>1. UNCHANGED cursor /\ epc[x] = "scan" /\ (sticky[x] => sticky'[x])
      BY <1>1, <1>t, <2>2 DEF Scan
    <3> QED BY <3>1
  <2> QED BY <2>1, <2>2
<1>2. CASE Retire(x)
  BY <1>2, <1>t DEF Retire
<1>3. CASE WakeFence(x)
  <2>1. IsFiniteSet(Counted)
    BY GatingAssumption, FS_Subset DEF Counted
  <2>2. numAsleepBlocked # 0
    BY <1>e, <2>1, FS_EmptySet DEF CountOK
  <2> QED BY <1>3, <1>t, <2>2 DEF WakeFence
<1>4. CASE WakeOne(x)
  <2>1. PICK t \in toCheck[x] :
          /\ IF asleepBlocked[t] THEN Signal(t) ELSE UNCHANGED rung
          /\ toCheck' = [toCheck EXCEPT ![x] = @ \ {t}]
          /\ epc' = [epc EXCEPT ![x] = IF toCheck[x] = {t} THEN "scan" ELSE @]
    BY <1>4 DEF WakeOne
  <2>2. UNCHANGED <<cursor, sticky>> /\ epc[x] = "signal"
    BY <1>4 DEF WakeOne
  <2>3. t # e
    BY <1>e, <1>t, <2>1 DEF Signal
  <2> QED BY <1>t, <2>1, <2>2, <2>3
<1>5. CASE DrainEngine(x)
  BY <1>5 DEF DrainEngine, engineVars
<1>6. CASE \/ Visit(x) \/ Idle(x) \/ PageFault(x) \/ PushFault(x) \/ SampleBell(x)
           \/ SetAsleep(x) \/ SetBlocked(x) \/ CountBlocked(x) \/ Recheck(x)
           \/ RecheckHead(x) \/ Wake(x) \/ Timeout(x) \/ Disarm(x) \/ Unblock(x)
           \/ Uncount(x)
  <2>1. UNCHANGED <<cursor, sticky>> /\ epc[x] \notin {"wake", "signal"}
    BY <1>6 DEF Visit, Idle, PageFault, PushFault, SampleBell, SetAsleep,
         SetBlocked, CountBlocked, Recheck, RecheckHead, Wake, Timeout, Disarm,
         Unblock, Uncount
  <2> QED BY <2>1
<1> QED BY <1>1, <1>2, <1>3, <1>4, <1>5, <1>6 DEF Engine

\* A sleeper with work has its unpark coming, or its fence ahead of it.
LEMMA SleepersInv ==
  ASSUME TypeOK, QueueOK, StoresOK, FlagsOK, CountOK, SleepersOK, Next
  PROVE  SleepersOK'
<1> USE DEF Goto, Step, OnlyMoves, ringVars, sleepVars, engineVars, localVars,
            handlerVars, producerVars
<1>t. /\ epc \in [Engines -> EnginePC] /\ rung \in [Engines -> BOOLEAN]
      /\ parked \in [Engines -> BOOLEAN] /\ asleep \in [Engines -> BOOLEAN]
      /\ put \in [Engines -> Nat] /\ get \in [Engines -> Nat]
      /\ cursor \in [Engines -> Nat] /\ hengine \in Engines
      /\ target \in [Producers -> Engines]
  BY DEF TypeOK
<1> DEFINE Fine(e) ==
             \/ UnparkBell(e)
             \/ /\ HeadCmd(e).value # 0
                /\ FenceAhead(e, HeadCmd(e).engine, HeadCmd(e).value)
<1> SUFFICES ASSUME NEW e \in Engines, Dormant(e)', ~parked'[e], HasWork(e)'
             PROVE  Fine(e)'
  BY DEF SleepersOK
<1>a. epc[e] = "waiting" => asleep[e] /\ ~rung[e]
  BY BellKept, <1>t DEF FlagsOK, FlagsAt, AsleepPC, Dormant
\* Steps that leave the engines' registers and positions alone.
<1>1. ASSUME UNCHANGED <<cursor, sticky, engineVars>>
      PROVE  /\ Dormant(e) /\ HasWork(e)
             /\ FenceAhead(e, HeadCmd(e).engine, HeadCmd(e).value)' =
                  FenceAhead(e, HeadCmd(e).engine, HeadCmd(e).value)
             /\ HeadCmd(e)' = HeadCmd(e)
  <2>1. Dormant(e) /\ HasWork(e)
    BY <1>1, <1>a DEF Dormant, HasWork
  <2>2. HeadCmd(e)' = HeadCmd(e)
    BY <1>1, <2>1, HeadKept
  <2> QED BY <1>1, <2>1, <2>2 DEF FenceAhead
<1>2. CASE Submit \/ \E p \in Producers : Producer(p) \/ DrainProducer(p)
  <2>1. UNCHANGED <<cursor, sticky, parked, engineVars, handlerVars>>
    BY <1>2 DEF Submit, BeginDoorbell, Producer, StorePut, ProducerFence, Ring,
         DrainProducer
  <2>2. ~parked[e] /\ UnparkBell(e)' = UnparkBell(e)
    BY <2>1 DEF UnparkBell
  <2> QED BY <1>1, <2>1, <2>2 DEF SleepersOK
<1>3. CASE Handler
  <2>1. UNCHANGED <<cursor, sticky, engineVars>>
    BY <1>3 DEF Handler, PopFault, PostFail, Unpark, RingUnparked
  <2>2. CASE Unpark
    <3>1. CASE e = hengine
      BY <2>2, <3>1 DEF Unpark, UnparkBell
    <3>2. CASE e # hengine
      <4>1. ~parked[e] /\ ~UnparkBell(e)
        BY <1>t, <2>2, <3>2 DEF Unpark, UnparkBell
      <4> QED BY <1>1, <2>1, <4>1 DEF SleepersOK
    <3> QED BY <3>1, <3>2
  <2>3. CASE RingUnparked
    <3>1. ~parked[e] /\ ~UnparkBell(e)
      BY <1>1, <1>a, <1>t, <2>1, <2>3
         DEF RingUnparked, RingBell, Signal, UnparkBell, Dormant
    <3> QED BY <1>1, <2>1, <3>1 DEF SleepersOK
  <2>4. CASE PostFail \/ \E x \in Engines : PopFault(x)
    <3>1. ~parked[e] /\ ~UnparkBell(e)
      BY <2>4 DEF PostFail, PopFault, UnparkBell
    <3> QED BY <1>1, <2>1, <3>1 DEF SleepersOK
  <2> QED BY <1>3, <2>2, <2>3, <2>4 DEF Handler
<1>4. ASSUME NEW x \in Engines, Engine(x) \/ DrainEngine(x) \/ Timeout(x), x # e
      PROVE  Fine(e)'
  <2>1. UNCHANGED <<hpc, hengine, epc[e], parked[e], cursor[e], seenPut[e]>>
    BY <1>4, OtherEngines
  <2>2. Dormant(e) /\ HasWork(e) /\ ~parked[e] /\ UnparkBell(e)' = UnparkBell(e)
    BY <1>a, <2>1 DEF Dormant, HasWork, UnparkBell
  <2>3. /\ HeadCmd(e)' = HeadCmd(e) /\ HeadCmd(e).engine \in Engines
        /\ HeadCmd(e).value \in Nat
    BY <2>1, <2>2, HeadKept DEF Command
  <2>4. ASSUME FenceAhead(e, HeadCmd(e).engine, HeadCmd(e).value)
        PROVE  FenceAhead(e, HeadCmd(e).engine, HeadCmd(e).value)'
    <3>1. CASE HeadCmd(e).engine = x
      <4>1. ~rung'[e]
        BY DEF Dormant
      <4>2. FenceAhead(e, x, HeadCmd(e).value)
        BY <2>4, <3>1
      <4> DEFINE v == HeadCmd(e).value
      <4>3. v \in Nat /\ FenceAhead(e, x, v)
        BY <2>3, <4>2
      <4>4. v' = v
        BY <2>3
      <4> HIDE DEF v
      <4>5. FenceAhead(e, x, v)'
        BY <1>4, <2>2, <4>1, <4>3, <4>4, FenceInv DEF FenceAhead
      <4> QED BY <2>3, <3>1, <4>5 DEF v
    <3>2. CASE HeadCmd(e).engine # x
      <4> DEFINE t == HeadCmd(e).engine
      <4>1. UNCHANGED <<epc[t], cursor[t], sticky[t], toCheck[t]>>
        BY <1>4, <2>3, <3>2, OtherEngines
      <4> QED BY <2>3, <2>4, <4>1 DEF FenceAhead
    <3> QED BY <3>1, <3>2
  <2> QED BY <2>2, <2>3, <2>4 DEF SleepersOK
<1>5. ASSUME Engine(e) \/ DrainEngine(e) \/ Timeout(e)
      PROVE  Fine(e)'
  <2>1. Recheck(e) \/ RecheckHead(e) \/ DrainEngine(e)
    BY <1>5, FallsAsleep DEF Dormant
  <2>2. CASE Recheck(e)
    BY <1>t, <2>2 DEF Recheck, Dormant, HasWork
  <2>3. CASE DrainEngine(e)
    <3>1. UNCHANGED <<cursor, sticky, parked, engineVars, handlerVars>>
      BY <2>3 DEF DrainEngine
    <3>2. ~parked[e] /\ UnparkBell(e)' = UnparkBell(e)
      BY <3>1 DEF UnparkBell
    <3> QED BY <1>1, <3>1, <3>2 DEF SleepersOK
  <2>4. CASE RecheckHead(e)
    <3>1. UNCHANGED <<cursor, sticky, seenPut>> /\ HasWork(e)
      BY <2>4 DEF RecheckHead, HasWork
    <3> DEFINE t == HeadCmd(e).engine
               v == HeadCmd(e).value
    <3>2. t \in Engines \ {e} /\ v \in Nat /\ HeadCmd(e)' = HeadCmd(e)
      BY <3>1, HeadKept DEF Command
    <3>3. get[t] < v
      BY <1>t, <2>4 DEF RecheckHead, WaitBlocked, Dormant
    <3>4. epc'[t] = epc[t]
      BY <1>t, <2>4, <3>2 DEF RecheckHead
    <3>5. get[t] \in Nat /\ cursor[t] \in Nat
      BY <1>t, <3>2
    <3>6. get[t] # cursor[t] => epc[t] = "wake" \/ sticky[t]
      BY <3>2 DEF StoresOK
    <3> HIDE DEF t, v
    <3>7. v # 0 /\ (cursor[t] < v \/ sticky[t] \/ epc[t] = "wake")
      BY <3>2, <3>3, <3>5, <3>6
    <3>8. t' = t /\ v' = v
      BY <3>2 DEF t, v
    <3>9. v' # 0 /\ FenceAhead(e, t, v)'
      BY <3>1, <3>4, <3>7, <3>8 DEF FenceAhead
    <3> QED BY <3>9 DEF t, v
  <2> QED BY <2>1, <2>2, <2>3, <2>4
<1> QED BY <1>2, <1>3, <1>4, <1>5 DEF Next

----------------------------------------------------------------------------
(* What the runs check, for every value of the constants                   *)

\* The gating protocol keeps its inductive invariant for any engines,
\* producers, commands and page faults.
THEOREM GatingInvariant == Spec => []GatingInv
<1>1. GatingInv /\ [Next]_vars => GatingInv'
  <2> SUFFICES ASSUME GatingInv, [Next]_vars PROVE GatingInv'
    OBVIOUS
  <2>1. CASE Next
    <3>1. TypeOK'
      BY <2>1, ProducerType, EngineType, HandlerType DEF GatingInv, Next, Submit
    <3> QED BY <2>1, <3>1, QueueInv, FlagsInv, BellInv, SleepersInv DEF GatingInv
  <2>2. CASE UNCHANGED vars
    <3> USE <2>2 DEF vars, ringVars, sleepVars, engineVars, localVars, producerVars,
                     handlerVars
    <3>1. TypeOK' /\ QueueOK' /\ StoresOK'
      BY DEF GatingInv, TypeOK, QueueOK, StoresOK
    <3>2. FlagsOK' /\ CountOK'
      BY DEF GatingInv, FlagsOK, FlagsAt, HasWork, CountOK, Counted
    <3>3. BellOK' /\ SleepersOK'
      BY DEF GatingInv, BellOK, Missed, ProducerBell, UnparkBell, SleepersOK,
             Dormant, HasWork, HeadCmd, FenceAhead
    <3> QED BY <3>1, <3>2, <3>3 DEF GatingInv
  <2> QED BY <2>1, <2>2
<1> QED BY InitInv, <1>1, PTL DEF Spec

\* Device::doorbell and the arming engine: a PUT that a sleeping engine has
\* not seen has its doorbell still to come.
THEOREM NoDoorbellLost == Spec => []DoorbellNotLost
<1>1. GatingInv => DoorbellNotLost
  BY DEF GatingInv, BellOK, Missed, ProducerBell, UnparkBell, DoorbellNotLost, Dormant
<1> QED BY <1>1, GatingInvariant, PTL

\* Device::unpark: a sleeping engine with a runnable head has the unpark's
\* doorbell still to come.
THEOREM NoUnparkLost == Spec => []UnparkNotLost
<1>1. GatingInv => UnparkNotLost
  BY DEF GatingInv, SleepersOK, UnparkBell, UnparkNotLost
<1> QED BY <1>1, GatingInvariant, PTL

\* wake_blocked_sleepers: a sleeping engine whose head's fence has retired has
\* a wake-up still to come.
THEOREM NoFenceWakeLost == Spec => []FenceWakeNotLost
<1>1. GatingInv => FenceWakeNotLost
  <2> SUFFICES ASSUME GatingInv, NEW e \in Engines,
                      Dormant(e), ~parked[e], HasWork(e),
                      cursor[HeadCmd(e).engine] >= HeadCmd(e).value,
                      ~sticky[HeadCmd(e).engine]
               PROVE  \/ HeadCmd(e).value = 0
                      \/ hpc = "ring" /\ hengine = e
                      \/ epc[HeadCmd(e).engine] = "wake"
                      \/ /\ epc[HeadCmd(e).engine] = "signal"
                         /\ e \in toCheck[HeadCmd(e).engine]
    BY DEF FenceWakeNotLost, FencePassed, WakeComing
  <2>1. HeadCmd(e) \in Command
    BY HeadTyped DEF GatingInv
  <2>2. cursor[HeadCmd(e).engine] \in Nat /\ HeadCmd(e).value \in Nat
    BY <2>1 DEF GatingInv, TypeOK, Command
  <2> QED BY <2>2 DEF GatingInv, SleepersOK, UnparkBell, FenceAhead
<1> QED BY <1>1, GatingInvariant, PTL

=============================================================================

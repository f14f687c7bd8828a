------------------------- MODULE CommandRingProofs -------------------------
(***************************************************************************)
(* Proofs about CommandRing, for every set of producers, every ring depth, *)
(* both submit modes and every bound.                                      *)
(***************************************************************************)
EXTENDS CommandRing, Sequences, TLAPS

\* Two command numbers less than a ring apart use different slots.
LEMMA DistinctSlots ==
  ASSUME NEW i \in Nat, NEW j \in Nat, i < j, j - i < Depth
  PROVE  i % Depth # j % Depth
<1> USE DepthAssumption
<1>1. i = Depth * (i \div Depth) + (i % Depth) /\ i % Depth \in 0 .. Depth - 1
  OBVIOUS
<1>2. j = Depth * (j \div Depth) + (j % Depth) /\ j % Depth \in 0 .. Depth - 1
  OBVIOUS
<1>3. ASSUME i % Depth = j % Depth PROVE FALSE
  <2> DEFINE k == (j \div Depth) - (i \div Depth)
  <2>1. (i \div Depth) \in Int /\ (j \div Depth) \in Int /\ k \in Int
    OBVIOUS
  <2>2. j - i = Depth * k
    BY <1>1, <1>2, <1>3, <2>1
  <2> HIDE DEF k
  <2>3. CASE k <= 0
    BY <2>1, <2>2, <2>3
  <2>4. CASE k >= 1
    BY <2>1, <2>2, <2>4
  <2> QED BY <2>1, <2>3, <2>4
<1> QED BY <1>3


\* Command numbers, slots and the constants' types, as the provers need them.
LEMMA SlotIndex ==
  ASSUME NEW i \in Nat PROVE i % Depth \in 0 .. Depth - 1
BY DepthAssumption

----------------------------------------------------------------------------
(* IndInv is inductive                                                     *)

\* The initial states satisfy the inductive invariant.
LEMMA InitInv == Init => IndInv
<1> USE DepthAssumption, BoundAssumption
<1> SUFFICES ASSUME Init PROVE IndInv
  OBVIOUS
<1>1. TypeOK
  <2> USE DEF Cmd, NoCmd, Torn, Failed, ProducerPC, EnginePC, Errors
  <2>1. /\ ring \in [0 .. Depth - 1 -> Cmd \cup {NoCmd, Torn}]
        /\ pc \in [Producers -> ProducerPC]
        /\ cmd \in [Producers -> Cmd \cup {NoCmd}]
        /\ slot \in [Producers -> 0 .. MaxCmds]
    BY DEF Init
  <2>2. /\ order \in [Cmd -> Cmd \cup {NoCmd}]
        /\ submit \in [Cmd -> Cmd \cup {NoCmd}]
        /\ outcome \in [Cmd -> Cmd \cup {NoCmd, Torn, Failed}]
    BY DEF Init
  <2>3. /\ lock \in Producers \cup {NoLock}
        /\ parked \in BOOLEAN /\ faultFail \in BOOLEAN /\ absent \in BOOLEAN
        /\ ticketMode \in BOOLEAN
    BY DEF Init
  <2>4. /\ reserve \in 0 .. MaxCmds /\ mirror \in 0 .. MaxCmds
        /\ begun \in 0 .. MaxCmds /\ put \in 0 .. MaxCmds
        /\ get \in 0 .. MaxCmds /\ seen \in 0 .. MaxCmds
        /\ faults \in Nat /\ nfaults \in Nat
    BY DEF Init
  <2>5. /\ sticky \in Errors /\ epc \in EnginePC
        /\ hpc \in {"idle", "post", "unpark"} /\ faulted \subseteq Cmd
        /\ running \in Cmd \cup {NoCmd, Torn}
    BY DEF Init
  <2> QED BY <2>1, <2>2, <2>3, <2>4, <2>5 DEF TypeOK
<1>2. ClaimsOK /\ PutOK /\ SpaceOK /\ EngineOK
  BY DEF Init, ClaimsOK, PutOK, SpaceOK, EngineOK, Holding, Unpublished,
         Claiming
<1>3. PublishedIntact /\ RunsWhatWasClaimed
  BY DEF Init, PublishedIntact, RunsWhatWasClaimed, Cmd
<1> QED BY <1>1, <1>2, <1>3 DEF IndInv

\* While a producer writes its slot, that slot belongs neither to a command
\* the engine has yet to retire nor to another producer that has finished
\* writing.
LEMMA WriterIsAlone ==
  ASSUME IndInv, NEW p \in Producers, pc[p] \in {"write", "copying"}
  PROVE  /\ \A i \in get .. put - 1 : i % Depth # slot[p] % Depth
         /\ \A q \in Producers \ {p} :
              pc[q] \in {"turn", "put"} => slot[q] % Depth # slot[p] % Depth
<1> USE BoundAssumption, DepthAssumption
         DEF IndInv, TypeOK, ClaimsOK, PutOK, SpaceOK, EngineOK, Unpublished,
             Claiming
<1>1. slot[p] \in Nat /\ get \in Nat /\ put \in Nat /\ put <= slot[p]
      /\ slot[p] - get < Depth /\ get <= put
  OBVIOUS
<1>2. ASSUME NEW i \in get .. put - 1 PROVE i % Depth # slot[p] % Depth
  <2>1. i \in Nat /\ i < slot[p] /\ slot[p] - i < Depth
    BY <1>1
  <2> QED BY <1>1, <2>1, DistinctSlots
<1>3. ASSUME NEW q \in Producers \ {p}, pc[q] \in {"turn", "put"}
      PROVE  slot[q] % Depth # slot[p] % Depth
  <2>1. slot[q] \in Nat /\ put <= slot[q] /\ slot[q] - get < Depth
        /\ slot[q] # slot[p]
    BY <1>3
  <2>2. CASE slot[q] < slot[p]
    BY <1>1, <2>1, <2>2, DistinctSlots
  <2>3. CASE slot[p] < slot[q]
    BY <1>1, <2>1, <2>3, DistinctSlots
  <2> QED BY <1>1, <2>1, <2>2, <2>3
<1> QED BY <1>2, <1>3

\* A step of a submitting thread keeps the inductive invariant.
LEMMA ProducerInv ==
  ASSUME IndInv, NEW p \in Producers,
         Submit(p) \/ NextChunk(p) \/ ProducerStep(p)
  PROVE  IndInv'
<1> USE DepthAssumption, BoundAssumption, LockAssumption
<1> USE DEF IndInv, TypeOK, Cmd, NoCmd, Torn, Failed, Errors, ProducerPC,
            Holding, Unpublished, Claiming, Goto, engineVars, faultVars
<1>1. CASE Submit(p)
  <2> USE <1>1 DEF Submit, Build
  <2>1. TypeOK'
    OBVIOUS
  <2>2. ClaimsOK' /\ PutOK'
    BY DEF ClaimsOK, PutOK
  <2>3. SpaceOK' /\ EngineOK'
    BY DEF SpaceOK, EngineOK
  <2>4. PublishedIntact' /\ RunsWhatWasClaimed'
    BY DEF PublishedIntact, RunsWhatWasClaimed
  <2> QED BY <2>1, <2>2, <2>3, <2>4
<1>2. CASE Lock(p)
  BY <1>2 DEF Lock, ClaimsOK, PutOK, SpaceOK, EngineOK, PublishedIntact,
       RunsWhatWasClaimed
<1>3. CASE Claim(p)
  <2> USE <1>3 DEF Claim, SlotToClaim
  <2>1. TypeOK'
    BY DEF ClaimsOK
  <2>2. ClaimsOK'
    BY DEF ClaimsOK, PutOK
  <2>3. PutOK'
    BY DEF ClaimsOK, PutOK
  <2>4. SpaceOK'
    BY DEF SpaceOK, ClaimsOK, PutOK, EngineOK
  <2>5. EngineOK'
    BY DEF EngineOK, PutOK, ClaimsOK
  <2>6. PublishedIntact'
    BY DEF PublishedIntact, EngineOK, PutOK, ClaimsOK
  <2>7. RunsWhatWasClaimed'
    BY DEF RunsWhatWasClaimed, EngineOK, ClaimsOK,
           PutOK
  <2> QED BY <2>1, <2>2, <2>3, <2>4, <2>5, <2>6, <2>7
<1>4. CASE AwaitSpace(p)
  <2> USE <1>4 DEF AwaitSpace, HasSpace
  <2>1. TypeOK'
    BY DEF ClaimsOK
  <2>2. ClaimsOK'
    BY DEF ClaimsOK, PutOK
  <2>3. PutOK'
    BY DEF ClaimsOK, PutOK
  <2>4. SpaceOK'
    BY DEF SpaceOK, ClaimsOK, PutOK, EngineOK
  <2>5. EngineOK'
    BY DEF EngineOK, PutOK, ClaimsOK
  <2>6. PublishedIntact'
    BY DEF PublishedIntact, EngineOK, PutOK, ClaimsOK
  <2>7. RunsWhatWasClaimed'
    BY DEF RunsWhatWasClaimed, EngineOK, ClaimsOK,
           PutOK
  <2> QED BY <2>1, <2>2, <2>3, <2>4, <2>5, <2>6, <2>7
<1>5. CASE WriteBegin(p)
  <2> USE <1>5 DEF WriteBegin
  <2>1. TypeOK'
    <3>1. ring' \in [0 .. Depth - 1 -> Cmd \cup {NoCmd, Torn}]
      BY SlotIndex
    <3>2. pc' \in [Producers -> ProducerPC]
      OBVIOUS
    <3> QED BY <3>1, <3>2
  <2>2. ClaimsOK'
    BY DEF ClaimsOK, PutOK
  <2>3. PutOK'
    BY DEF ClaimsOK, PutOK
  <2>4. SpaceOK'
    <3>1. ASSUME NEW q \in Producers, pc'[q] \in {"turn", "put"}
          PROVE  ring'[slot[q] % Depth] = cmd[q]
      <4>1. CASE q = p
        <5>1. slot[p] \in Nat
          OBVIOUS
        <5>2. slot[p] % Depth \in 0 .. Depth - 1
          BY <5>1, SlotIndex
        <5> QED BY <3>1, <4>1, <5>2
      <4>2. CASE q # p
        <5>1. pc[q] \in {"turn", "put"} /\ slot[q] % Depth # slot[p] % Depth
          BY <3>1, <4>2, WriterIsAlone
        <5> QED BY <5>1 DEF SpaceOK
      <4> QED BY <4>1, <4>2
    <3>2. ASSUME NEW q \in Producers,
                 pc'[q] \in {"write", "copying", "turn", "put"}
          PROVE  slot[q] - get < Depth
      BY <3>2 DEF SpaceOK
    <3> QED BY <3>1, <3>2 DEF SpaceOK
  <2>5. EngineOK'
    BY DEF EngineOK, PutOK, ClaimsOK
  <2>6. PublishedIntact'
    <3>1. ASSUME NEW i \in get .. put - 1
          PROVE  ring'[i % Depth] = ring[i % Depth]
      <4>1. i % Depth # slot[p] % Depth
        BY WriterIsAlone
      <4> QED BY <4>1
    <3> QED BY <3>1 DEF PublishedIntact
  <2>7. RunsWhatWasClaimed'
    BY DEF RunsWhatWasClaimed, EngineOK, ClaimsOK,
           PutOK
  <2> QED BY <2>1, <2>2, <2>3, <2>4, <2>5, <2>6, <2>7
<1>6. CASE WriteEnd(p)
  <2> USE <1>6 DEF WriteEnd
  <2>1. TypeOK'
    <3>1. ring' \in [0 .. Depth - 1 -> Cmd \cup {NoCmd, Torn}]
      BY SlotIndex
    <3>2. pc' \in [Producers -> ProducerPC]
      OBVIOUS
    <3> QED BY <3>1, <3>2
  <2>2. ClaimsOK'
    BY DEF ClaimsOK, PutOK
  <2>3. PutOK'
    BY DEF ClaimsOK, PutOK
  <2>4. SpaceOK'
    <3>1. ASSUME NEW q \in Producers, pc'[q] \in {"turn", "put"}
          PROVE  ring'[slot[q] % Depth] = cmd[q]
      <4>1. CASE q = p
        <5>1. slot[p] \in Nat
          OBVIOUS
        <5>2. slot[p] % Depth \in 0 .. Depth - 1
          BY <5>1, SlotIndex
        <5> QED BY <3>1, <4>1, <5>2
      <4>2. CASE q # p
        <5>1. pc[q] \in {"turn", "put"} /\ slot[q] % Depth # slot[p] % Depth
          BY <3>1, <4>2, WriterIsAlone
        <5> QED BY <5>1 DEF SpaceOK
      <4> QED BY <4>1, <4>2
    <3>2. ASSUME NEW q \in Producers,
                 pc'[q] \in {"write", "copying", "turn", "put"}
          PROVE  slot[q] - get < Depth
      BY <3>2 DEF SpaceOK
    <3> QED BY <3>1, <3>2 DEF SpaceOK
  <2>5. EngineOK'
    BY DEF EngineOK, PutOK, ClaimsOK
  <2>6. PublishedIntact'
    <3>1. ASSUME NEW i \in get .. put - 1
          PROVE  ring'[i % Depth] = ring[i % Depth]
      <4>1. i % Depth # slot[p] % Depth
        BY WriterIsAlone
      <4> QED BY <4>1
    <3> QED BY <3>1 DEF PublishedIntact
  <2>7. RunsWhatWasClaimed'
    BY DEF RunsWhatWasClaimed, EngineOK, ClaimsOK,
           PutOK
  <2> QED BY <2>1, <2>2, <2>3, <2>4, <2>5, <2>6, <2>7
<1>7. CASE AwaitTurn(p)
  <2> USE <1>7 DEF AwaitTurn, IsTurn
  <2>1. TypeOK'
    BY DEF ClaimsOK
  <2>2. ClaimsOK'
    BY DEF ClaimsOK, PutOK
  <2>3. PutOK'
    BY DEF ClaimsOK, PutOK
  <2>4. SpaceOK'
    BY DEF SpaceOK, ClaimsOK, PutOK, EngineOK
  <2>5. EngineOK'
    BY DEF EngineOK, PutOK, ClaimsOK
  <2>6. PublishedIntact'
    BY DEF PublishedIntact, EngineOK, PutOK, ClaimsOK
  <2>7. RunsWhatWasClaimed'
    BY DEF RunsWhatWasClaimed, EngineOK, ClaimsOK,
           PutOK
  <2> QED BY <2>1, <2>2, <2>3, <2>4, <2>5, <2>6, <2>7
<1>8. CASE StorePut(p)
  <2> USE <1>8 DEF StorePut
  <2>1. TypeOK'
    BY DEF ClaimsOK
  <2>2. ClaimsOK'
    BY DEF ClaimsOK, PutOK
  <2>3. PutOK'
    BY DEF ClaimsOK, PutOK
  <2>4. SpaceOK'
    BY DEF SpaceOK, ClaimsOK, PutOK, EngineOK
  <2>5. EngineOK'
    BY DEF EngineOK, PutOK, ClaimsOK
  <2>6. PublishedIntact'
    <3>1. put = slot[p] /\ put' = put + 1 /\ get' = get
      BY DEF PutOK, ClaimsOK
    <3>2. ring[put % Depth] = order[put]
      BY <3>1 DEF SpaceOK, ClaimsOK
    <3> QED BY <3>1, <3>2 DEF PublishedIntact
  <2>7. RunsWhatWasClaimed'
    BY DEF RunsWhatWasClaimed, EngineOK, ClaimsOK,
           PutOK
  <2> QED BY <2>1, <2>2, <2>3, <2>4, <2>5, <2>6, <2>7
<1>9. CASE StoreMirror(p)
  <2> USE <1>9 DEF StoreMirror
  <2>1. TypeOK'
    BY DEF ClaimsOK
  <2>2. ClaimsOK'
    BY DEF ClaimsOK, PutOK
  <2>3. PutOK'
    BY DEF ClaimsOK, PutOK
  <2>4. SpaceOK'
    BY DEF SpaceOK, ClaimsOK, PutOK, EngineOK
  <2>5. EngineOK'
    BY DEF EngineOK, PutOK, ClaimsOK
  <2>6. PublishedIntact'
    BY DEF PublishedIntact, EngineOK, PutOK, ClaimsOK
  <2>7. RunsWhatWasClaimed'
    BY DEF RunsWhatWasClaimed, EngineOK, ClaimsOK,
           PutOK
  <2> QED BY <2>1, <2>2, <2>3, <2>4, <2>5, <2>6, <2>7
<1>10. CASE NextChunk(p)
  <2> USE <1>10 DEF NextChunk, Build
  <2>1. TypeOK'
    BY DEF ClaimsOK
  <2>2. ClaimsOK'
    BY DEF ClaimsOK, PutOK
  <2>3. PutOK'
    BY DEF ClaimsOK, PutOK
  <2>4. SpaceOK'
    BY DEF SpaceOK, ClaimsOK, PutOK, EngineOK
  <2>5. EngineOK'
    BY DEF EngineOK, PutOK, ClaimsOK
  <2>6. PublishedIntact'
    BY DEF PublishedIntact, EngineOK, PutOK, ClaimsOK
  <2>7. RunsWhatWasClaimed'
    BY DEF RunsWhatWasClaimed, EngineOK, ClaimsOK,
           PutOK
  <2> QED BY <2>1, <2>2, <2>3, <2>4, <2>5, <2>6, <2>7
<1>11. CASE Return(p)
  BY <1>11, SMTT(30) DEF Return, ClaimsOK, PutOK, SpaceOK, EngineOK, PublishedIntact,
       RunsWhatWasClaimed
<1> QED BY <1>1, <1>2, <1>3, <1>4, <1>5, <1>6, <1>7, <1>8, <1>9, <1>10, <1>11 DEF ProducerStep

\* A step of the engine keeps the inductive invariant.
LEMMA EngineInv ==
  ASSUME IndInv, EngineStep PROVE IndInv'
<1> USE DepthAssumption, BoundAssumption
<1> USE DEF IndInv, TypeOK, Cmd, NoCmd, Torn, Failed, Errors, EnginePC, EGoto,
            Holding, Unpublished, Claiming, producerVars, faultVars
<1>1. CASE LoadPut
  BY <1>1 DEF LoadPut, ClaimsOK, PutOK, SpaceOK, EngineOK, PublishedIntact,
       RunsWhatWasClaimed
<1>2. CASE TakeFaultFail
  <2> USE <1>2 DEF TakeFaultFail, RetireAs, SetSticky
  <2>1. get <= seen /\ get \in Nat /\ seen \in Nat /\ seen <= MaxCmds
    BY DEF EngineOK
  <2>2. CASE seen # get
    <3>1. get \in Cmd /\ get' = get + 1 /\ get < seen
          /\ outcome' = [outcome EXCEPT ![get] = Failed]
      BY <2>1, <2>2
    <3>2. sticky' \in Errors /\ faultFail' \in BOOLEAN /\ absent' \in BOOLEAN
      BY <2>2
    <3>3. TypeOK'
      BY <3>1, <3>2, <2>1
    <3> QED BY <3>1, <3>3 DEF ClaimsOK, PutOK, SpaceOK, EngineOK,
               PublishedIntact, RunsWhatWasClaimed
  <2>3. CASE seen = get
    <3>1. sticky' \in Errors /\ sticky' # "EIO" /\ faultFail' \in BOOLEAN
      BY DEF EngineOK
    <3> QED BY <2>3, <3>1 DEF ClaimsOK, PutOK, SpaceOK, EngineOK, PublishedIntact,
           RunsWhatWasClaimed
  <2> QED BY <2>2, <2>3
<1>3. CASE NoFaultFail
  BY <1>3 DEF NoFaultFail, ClaimsOK, PutOK, SpaceOK, EngineOK, PublishedIntact,
       RunsWhatWasClaimed
<1>4. CASE SkipChannel
  BY <1>4 DEF SkipChannel, SetSticky, ClaimsOK, PutOK, SpaceOK, EngineOK, PublishedIntact,
       RunsWhatWasClaimed
<1>5. CASE ChooseChannel
  BY <1>5 DEF ChooseChannel, ClaimsOK, PutOK, SpaceOK, EngineOK, PublishedIntact,
       RunsWhatWasClaimed
<1>6. CASE Fetch
  <2> USE <1>6 DEF Fetch, HeadSlot
  <2>1. get \in get .. put - 1
    BY DEF EngineOK
  <2>2. running' = order[get]
    BY <2>1 DEF PublishedIntact
  <2>3. TypeOK'
    BY <2>1, <2>2
  <2> QED BY <2>2, <2>3 DEF ClaimsOK, PutOK, SpaceOK, EngineOK,
            PublishedIntact, RunsWhatWasClaimed
<1>7. CASE Boundary
  BY <1>7 DEF Boundary, ClaimsOK, PutOK, SpaceOK, EngineOK, PublishedIntact,
       RunsWhatWasClaimed
<1>8. CASE PageFault
  BY <1>8 DEF PageFault, ClaimsOK, PutOK, SpaceOK, EngineOK, PublishedIntact,
       RunsWhatWasClaimed
<1>9. CASE PushFault
  BY <1>9 DEF PushFault, ClaimsOK, PutOK, SpaceOK, EngineOK, PublishedIntact,
       RunsWhatWasClaimed
<1>10. ASSUME NEW rc \in {"none", "exec"}, Retire(rc) PROVE IndInv'
  <2> USE <1>10 DEF Retire, RetireAs, SetSticky
  <2>1. TypeOK'
    BY DEF EngineOK
  <2>2. ClaimsOK'
    BY DEF ClaimsOK
  <2>3. PutOK'
    BY DEF PutOK
  <2>4. SpaceOK'
    BY DEF SpaceOK
  <2>5. EngineOK'
    BY DEF EngineOK
  <2>6. PublishedIntact'
    BY DEF PublishedIntact, EngineOK
  <2>7. RunsWhatWasClaimed'
    BY DEF RunsWhatWasClaimed, EngineOK
  <2> QED BY <2>1, <2>2, <2>3, <2>4, <2>5, <2>6, <2>7
<1> QED BY <1>1, <1>2, <1>3, <1>4, <1>5, <1>6, <1>7, <1>8, <1>9, <1>10 DEF EngineStep

\* A step of the fault handler keeps the inductive invariant: it touches
\* neither ring nor registers.
LEMMA HandlerInv ==
  ASSUME IndInv, HandlerStep PROVE IndInv'
<1> USE DEF IndInv, ClaimsOK, PutOK, SpaceOK, EngineOK, PublishedIntact,
            RunsWhatWasClaimed, HGoto, producerVars, engineVars
<1>1. CASE PopFault
  <2>1. faults' \in Nat /\ hpc' \in {"idle", "post", "unpark"}
    BY <1>1 DEF PopFault, HasFault, TypeOK
  <2>2. absent' \in BOOLEAN
    BY <1>1 DEF PopFault, TypeOK
  <2> QED BY <1>1, <2>1, <2>2 DEF PopFault, TypeOK
<1>2. CASE PostFaultFail
  <2>1. hpc' \in {"idle", "post", "unpark"} /\ faultFail' \in BOOLEAN
    BY <1>2 DEF PostFaultFail
  <2> QED BY <1>2, <2>1 DEF PostFaultFail, TypeOK
<1>3. CASE Unpark
  <2>1. hpc' \in {"idle", "post", "unpark"} /\ parked' \in BOOLEAN
    BY <1>3 DEF Unpark
  <2> QED BY <1>3, <2>1 DEF Unpark, TypeOK
<1> QED BY <1>1, <1>2, <1>3 DEF HandlerStep

\* So does a step that changes nothing.
LEMMA StutterInv ==
  ASSUME IndInv, UNCHANGED vars PROVE IndInv'
BY DEF vars, producerVars, engineVars, faultVars, IndInv, TypeOK, ClaimsOK,
       PutOK, SpaceOK, EngineOK, PublishedIntact, RunsWhatWasClaimed

\* Every step keeps the inductive invariant.
LEMMA InductiveStep == IndInv /\ [Next]_vars => IndInv'
BY ProducerInv, EngineInv, HandlerInv, StutterInv DEF Next

\* The inductive invariant holds in every reachable state.
THEOREM RingInvariant == Spec => []IndInv
<1>1. Init => IndInv
  BY InitInv
<1>2. IndInv /\ [Next]_vars => IndInv'
  BY InductiveStep
<1> QED BY <1>1, <1>2, PTL DEF Spec

----------------------------------------------------------------------------
(* The safety properties                                                   *)

\* The registers, the ring and the histories keep their types.
THEOREM TypeCorrect == Spec => []TypeOK
BY RingInvariant, PTL DEF IndInv

\* Everything between GET and PUT sits complete in its slot.
THEOREM PublishedIsIntact == Spec => []PublishedIntact
BY RingInvariant, PTL DEF IndInv

\* The engine runs exactly the commands that were claimed, in claim order.
THEOREM RunsInClaimOrder == Spec => []RunsWhatWasClaimed
BY RingInvariant, PTL DEF IndInv

\* The engine never meets a PUT behind its GET.
THEOREM DoorbellNeverBehind == Spec => []NoDoorbellReversal
<1>1. IndInv => NoDoorbellReversal
  BY DEF IndInv, EngineOK, NoDoorbellReversal
<1> QED BY <1>1, RingInvariant, PTL

\* Only StorePut writes the doorbell register, and the producer there has
\* the slot right behind it.
LEMMA PutStep == IndInv /\ [Next]_vars => [put' \in {put, put + 1}]_vars
<1> SUFFICES ASSUME IndInv, Next PROVE put' \in {put, put + 1}
  BY DEF vars
<1>1. ASSUME NEW p \in Producers, StorePut(p) PROVE put' = put + 1
  BY <1>1, BoundAssumption
     DEF StorePut, Goto, IndInv, TypeOK, ClaimsOK, PutOK, Unpublished, Claiming
<1>2. ASSUME NEW p \in Producers,
             Submit(p) \/ NextChunk(p) \/ ProducerStep(p), ~StorePut(p)
      PROVE  put' = put
  BY <1>2 DEF Submit, NextChunk, ProducerStep, Lock, Claim, AwaitSpace,
              WriteBegin, WriteEnd, AwaitTurn, StoreMirror, Return
<1>3. ASSUME EngineStep PROVE put' = put
  BY <1>3 DEF EngineStep, LoadPut, TakeFaultFail, NoFaultFail, SkipChannel,
              ChooseChannel, Fetch, Boundary, PageFault, PushFault, Retire
<1>4. ASSUME HandlerStep PROVE put' = put
  BY <1>4 DEF HandlerStep, PopFault, PostFaultFail, Unpark
<1> QED BY <1>1, <1>2, <1>3, <1>4 DEF Next

\* The doorbell register only ever advances by one.
THEOREM PutMonotone == Spec => PutAdvancesByOne
BY RingInvariant, PutStep, PTL DEF Spec, PutAdvancesByOne

----------------------------------------------------------------------------
(* No claim is lost                                                        *)

\* Initially nothing has been built and no number claimed.
LEMMA CmdsInit == Init => CmdsOK
BY BoundAssumption DEF Init, CmdsOK, ClaimedOnce, NoCmd, Cmd, BeforeClaim

\* The numbers claimed so far are those below the next one, or held.
LEMMA NextIsUnused ==
  ASSUME IndInv, CmdsOK, NEW p \in Producers, Claim(p)
  PROVE  SlotToClaim \in Cmd /\ order[SlotToClaim] = NoCmd
<1>1. SlotToClaim \in Cmd
  BY BoundAssumption DEF Claim, SlotToClaim, IndInv, TypeOK, Cmd
<1>2. CASE ticketMode
  BY <1>1, <1>2 DEF SlotToClaim, CmdsOK, IndInv, TypeOK
<1>3. CASE ~ticketMode
  <2>1. \A q \in Producers : pc[q] \notin Claiming
    BY <1>3 DEF Claim, Goto, IndInv, ClaimsOK, Holding, Claiming, Unpublished
  <2> QED BY <1>1, <1>3, <2>1 DEF SlotToClaim, CmdsOK, IndInv, TypeOK
<1> QED BY <1>2, <1>3

\* Every step keeps it: only Submit and NextChunk build commands, and only
\* Claim hands out a number.
LEMMA CmdsStep == IndInv /\ CmdsOK /\ [Next]_vars => CmdsOK'
<1> SUFFICES ASSUME IndInv, CmdsOK, [Next]_vars PROVE CmdsOK'
  OBVIOUS
<1> USE BoundAssumption
<1> USE DEF Cmd, NoCmd
<1>0. ASSUME NEW p \in Producers, NEW first, Build(p, first), order' = order,
             UNCHANGED <<reserve, mirror, slot, ticketMode>>,
             \A q \in Producers \ {p} : pc'[q] = pc[q],
             pc[p] \notin BeforeClaim \cup Claiming, pc'[p] \in BeforeClaim
      PROVE  CmdsOK'
  <2> USE <1>0 DEF Build, IndInv, TypeOK
  <2>1. /\ begun' = begun + 1 /\ begun \in Nat /\ cmd'[p] = begun
        /\ \A q \in Producers \ {p} : cmd'[q] = cmd[q]
        /\ \A q \in Producers : cmd[q] \in Int
        /\ \A i \in Cmd : order[i] \in Int
    OBVIOUS
  <2>2. \A q \in Producers : cmd'[q] < begun'
    BY <2>1 DEF CmdsOK
  <2>3. \A q, r \in Producers : q # r /\ cmd'[q] = cmd'[r] => cmd'[q] = NoCmd
    BY <2>1 DEF CmdsOK
  <2>4. \A i \in Cmd : order'[i] < begun'
    BY <2>1 DEF CmdsOK
  <2>5. \A q \in Producers : pc'[q] \in BeforeClaim =>
           \A i \in Cmd : order'[i] # cmd'[q]
    BY <2>1 DEF CmdsOK
  <2>6. \A i \in Cmd : order'[i] # NoCmd =>
          IF ticketMode THEN i < reserve'
          ELSE \/ i < mirror'
               \/ \E q \in Producers : pc'[q] \in Claiming /\ slot'[q] = i
    <3>1. \A q \in Producers : pc[q] \in Claiming => pc'[q] \in Claiming
      BY <1>0
    <3> QED BY <3>1 DEF CmdsOK
  <2>7. ASSUME NEW c \in 0 .. begun' - 1
        PROVE  \/ \E i \in Cmd : order'[i] = c
               \/ \E q \in Producers : pc'[q] \in BeforeClaim /\ cmd'[q] = c
    <3>1. CASE c = begun
      BY <2>1, <3>1
    <3>2. CASE c # begun
      <4>1. c \in 0 .. begun - 1
        BY <2>1, <2>7, <3>2
      <4>2. \A q \in Producers : pc[q] \in BeforeClaim =>
               q # p /\ pc'[q] = pc[q] /\ cmd'[q] = cmd[q]
        BY <1>0, <2>1
      <4> QED BY <4>1, <4>2 DEF CmdsOK, ClaimedOnce
    <3> QED BY <3>1, <3>2
  <2>8. ClaimedOnce'
    BY <2>7 DEF CmdsOK, ClaimedOnce
  <2> QED BY <2>2, <2>3, <2>4, <2>5, <2>6, <2>8 DEF CmdsOK
<1>1. ASSUME NEW p \in Producers, Submit(p) PROVE CmdsOK'
  BY <1>0, <1>1 DEF Submit, Goto, IndInv, TypeOK, BeforeClaim, Claiming,
                    Unpublished
<1>2. ASSUME NEW p \in Producers, NextChunk(p) PROVE CmdsOK'
  BY <1>0, <1>2 DEF NextChunk, Goto, IndInv, TypeOK, BeforeClaim, Claiming,
                    Unpublished
<1>3. ASSUME NEW p \in Producers, Claim(p) PROVE CmdsOK'
  <2> DEFINE s == SlotToClaim
  <2>1. s \in Cmd /\ order[s] = NoCmd
    BY <1>3, NextIsUnused
  <2>2. /\ order' = [order EXCEPT ![s] = cmd[p]]
        /\ cmd' = cmd /\ begun' = begun /\ mirror' = mirror
        /\ pc[p] = "claim" /\ pc' = [pc EXCEPT ![p] = "space"]
        /\ slot' = [slot EXCEPT ![p] = s]
        /\ reserve' = IF ticketMode THEN reserve + 1 ELSE reserve
        /\ ticketMode' = ticketMode
    BY <1>3 DEF Claim, Goto
  <2>3. /\ order \in [Cmd -> Cmd \cup {NoCmd}] /\ cmd[p] # NoCmd
        /\ pc \in [Producers -> ProducerPC] /\ reserve \in Nat
        /\ slot \in [Producers -> 0 .. MaxCmds]
    BY <2>2 DEF IndInv, TypeOK, ClaimsOK
  <2> HIDE DEF s
  <2>4. \A i \in Cmd : order'[i] < begun'
    BY <2>1, <2>2, <2>3 DEF CmdsOK
  <2>5. \A q \in Producers : pc'[q] \in BeforeClaim =>
           \A i \in Cmd : order'[i] # cmd'[q]
    BY <2>1, <2>2, <2>3 DEF CmdsOK, BeforeClaim
  <2>6. ASSUME NEW i \in Cmd, order'[i] # NoCmd
        PROVE  IF ticketMode THEN i < reserve'
               ELSE \/ i < mirror'
                    \/ \E q \in Producers : pc'[q] \in Claiming /\ slot'[q] = i
    <3>1. CASE i = s
      BY <2>2, <2>3, <3>1 DEF s, SlotToClaim, Claiming, Unpublished
    <3>2. CASE i # s
      <4>1. order[i] # NoCmd
        BY <2>2, <2>3, <2>6, <3>2
      <4>2. \A q \in Producers : pc[q] \in Claiming =>
               pc'[q] \in Claiming /\ slot'[q] = slot[q]
        BY <2>2, <2>3 DEF Claiming, Unpublished
      <4> QED BY <2>2, <2>3, <4>1, <4>2 DEF CmdsOK
    <3> QED BY <3>1, <3>2
  <2>7. ASSUME NEW c \in 0 .. begun' - 1
        PROVE  \/ \E i \in Cmd : order'[i] = c
               \/ \E q \in Producers : pc'[q] \in BeforeClaim /\ cmd'[q] = c
    <3>1. CASE c = cmd[p]
      BY <2>1, <2>2, <2>3, <3>1
    <3>2. ASSUME NEW i \in Cmd, order[i] = c PROVE order'[i] = c
      BY <2>1, <2>2, <2>3, <2>7, <3>2
    <3>3. ASSUME NEW q \in Producers, pc[q] \in BeforeClaim, cmd[q] = c,
                 c # cmd[p]
          PROVE  pc'[q] \in BeforeClaim /\ cmd'[q] = c
      BY <2>2, <2>3, <3>3
    <3>4. c \in 0 .. begun - 1
      BY <2>2, <2>7
    <3> QED BY <3>1, <3>2, <3>3, <3>4 DEF CmdsOK, ClaimedOnce
  <2>8. \A i, j \in Cmd : order'[i] = order'[j] /\ order'[i] # NoCmd => i = j
    BY <2>1, <2>2, <2>3 DEF CmdsOK, ClaimedOnce, BeforeClaim
  <2> QED BY <2>2, <2>4, <2>5, <2>6, <2>7, <2>8 DEF CmdsOK, ClaimedOnce
<1>4. ASSUME NEW p \in Producers,
             \/ Lock(p) \/ AwaitSpace(p) \/ WriteBegin(p) \/ WriteEnd(p)
             \/ AwaitTurn(p) \/ StorePut(p) \/ StoreMirror(p) \/ Return(p)
      PROVE  CmdsOK'
  <2>1. /\ order' = order /\ cmd' = cmd /\ begun' = begun /\ slot' = slot
        /\ reserve' = reserve /\ ticketMode' = ticketMode
        /\ \A q \in Producers : pc'[q] \in BeforeClaim <=> pc[q] \in BeforeClaim
        /\ \A q \in Producers : pc[q] \in Claiming =>
             \/ pc'[q] \in Claiming /\ mirror <= mirror'
             \/ slot[q] < mirror'
        /\ mirror <= mirror'
    BY <1>4 DEF Lock, AwaitSpace, WriteBegin, WriteEnd, AwaitTurn, StorePut,
                StoreMirror, Return, Goto, BeforeClaim, Claiming, Unpublished,
                IndInv, TypeOK, PutOK
  <2>2. mirror \in Nat /\ mirror' \in Nat
    BY <1>4 DEF Lock, AwaitSpace, WriteBegin, WriteEnd, AwaitTurn, StorePut,
                StoreMirror, Return, Goto, IndInv, TypeOK
  <2>3. ClaimedOnce'
    BY <2>1 DEF CmdsOK, ClaimedOnce
  <2>4. \A i \in Cmd : order'[i] # NoCmd =>
          IF ticketMode THEN i < reserve'
          ELSE \/ i < mirror'
               \/ \E q \in Producers : pc'[q] \in Claiming /\ slot'[q] = i
    BY <2>1, <2>2 DEF CmdsOK
  <2> QED BY <2>1, <2>3, <2>4 DEF CmdsOK
<1>5. ASSUME UNCHANGED <<producerVars, order, submit, ticketMode>>
      PROVE  CmdsOK'
  BY <1>5 DEF producerVars, CmdsOK, ClaimedOnce
<1>6. ASSUME EngineStep PROVE CmdsOK'
  BY <1>5, <1>6 DEF EngineStep, LoadPut, TakeFaultFail, NoFaultFail, SkipChannel,
              ChooseChannel, Fetch, Boundary, PageFault, PushFault, Retire,
              EGoto
<1>7. ASSUME HandlerStep PROVE CmdsOK'
  BY <1>5, <1>7 DEF HandlerStep, PopFault, PostFaultFail, Unpark, HGoto
<1>8. CASE UNCHANGED vars
  BY <1>5, <1>8 DEF vars
<1> QED BY <1>1, <1>2, <1>3, <1>4, <1>6, <1>7, <1>8 DEF Next, ProducerStep

\* No claim is lost to another and no command has two numbers, in ticket
\* mode and in mutex mode, for any number of submitting threads.
THEOREM NoClaimLost == Spec => []ClaimedOnce
<1>1. CmdsOK => ClaimedOnce
  BY DEF CmdsOK
<1> QED BY <1>1, CmdsInit, CmdsStep, RingInvariant, PTL DEF Spec

----------------------------------------------------------------------------
(* Chunks of one do_submit stay together                                   *)

\* The do_submit call of the command that p is at; it has nothing in the
\* ring yet, or is the last in it.
Call(p) == submit[cmd[p]]
Fresh(p) == \A j \in Cmd : order[j] # NoCmd => submit[order[j]] # Call(p)
Last(p) == mirror > 0 /\ submit[order[mirror - 1]] = Call(p)

\* Why chunks are contiguous in mutex mode: calls are told apart by their
\* first command, one that waits for the lock has nothing in the ring, and
\* that of the lock's holder has nothing yet or is the last in it.
CallsOK ==
  /\ \A j \in Cmd : j < mirror => order[j] # NoCmd
  /\ \A p, q \in Producers :
       p # q /\ pc[p] # "idle" /\ pc[q] # "idle" => Call(p) # Call(q)
  /\ \A p \in Producers :
       /\ pc[p] = "lock" => Fresh(p)
       /\ pc[p] = "claim" => Fresh(p) \/ Last(p)
       /\ pc[p] = "return" => mirror > 0 /\ order[mirror - 1] = cmd[p]

ChunksOK ==
  /\ \A c \in Cmd : submit[c] < begun
  /\ ~ticketMode => CallsOK
  /\ ChunksContiguous

\* Initially there is no call.
LEMMA ChunksInit == Init => ChunksOK
BY BoundAssumption DEF Init, ChunksOK, CallsOK, ChunksContiguous, NoCmd, Cmd

\* What the variables hold, where a call is under way.
LEMMA CallTypes ==
  ASSUME IndInv, CmdsOK, ChunksOK
  PROVE  /\ \A p \in Producers : pc[p] # "idle" => cmd[p] \in Cmd /\ cmd[p] < begun
         /\ \A j \in Cmd : order[j] # NoCmd => order[j] \in Cmd /\ order[j] < begun
         /\ \A c \in Cmd : submit[c] \in Int /\ submit[c] < begun
         /\ begun \in Nat /\ mirror \in 0 .. MaxCmds
         /\ ~ticketMode /\ mirror > 0 => mirror - 1 \in Cmd /\ order[mirror - 1] # NoCmd
BY BoundAssumption
   DEF IndInv, TypeOK, ClaimsOK, CmdsOK, ChunksOK, CallsOK, Cmd, NoCmd

\* A command is built, for a new call or as the next chunk of the same call.
LEMMA ChunksBuilt ==
  ASSUME IndInv, CmdsOK, ChunksOK, NEW p \in Producers, Submit(p) \/ NextChunk(p)
  PROVE  ChunksOK'
<1>1. /\ begun \in Cmd /\ begun' = begun + 1 /\ cmd'[p] = begun
      /\ \A q \in Producers \ {p} : UNCHANGED <<cmd[q], pc[q]>>
      /\ UNCHANGED <<order, mirror, ticketMode>>
      /\ \A c \in Cmd \ {begun} : submit'[c] = submit[c]
  BY BoundAssumption DEF Submit, NextChunk, Goto, Build, IndInv, TypeOK, Cmd
<1>2. /\ \A j \in Cmd : order[j] # NoCmd => submit'[order[j]] = submit[order[j]]
      /\ \A q \in Producers \ {p} : pc[q] # "idle" => Call(q)' = Call(q)
  BY <1>1, CallTypes DEF Call, Cmd
<1>3. ChunksContiguous'
  <2>1. ASSUME ~ticketMode, NEW j \in Cmd, NEW k \in Cmd, NEW l \in Cmd,
               j < k, k < l, order[l] # NoCmd, order[j] # NoCmd,
               submit'[order[j]] = submit'[order[l]]
        PROVE  submit'[order[k]] = submit'[order[j]]
    <3>1. submit[order[k]] = submit[order[j]]
      BY <1>2, <2>1 DEF ChunksOK, ChunksContiguous
    <3>2. order[k] # NoCmd
      <4>1. l < mirror \/ l = mirror
        BY <2>1 DEF CmdsOK, IndInv, ClaimsOK
      <4>2. k < mirror
        BY <2>1, <4>1, CallTypes DEF Cmd
      <4> QED BY <2>1, <4>2 DEF ChunksOK, CallsOK
    <3> QED BY <1>2, <2>1, <3>1, <3>2
  <2> QED BY <1>1, <2>1 DEF ChunksContiguous
<1>4. ASSUME ~ticketMode, NEW q \in Producers \ {p}, pc[q] # "idle"
      PROVE  /\ Fresh(q)' <=> Fresh(q)
             /\ Last(q)' <=> Last(q)
  BY <1>1, <1>2, <1>4, CallTypes DEF Fresh, Last
<1>5. CASE Submit(p)
  <2>1. /\ Call(p)' = begun /\ submit'[begun] = begun
        /\ ~ticketMode => pc'[p] = "lock"
    BY <1>1, <1>5 DEF Submit, Goto, Build, IndInv, TypeOK, Call
  <2>2. \A c \in Cmd : submit'[c] < begun'
    BY <1>1, <2>1, CallTypes
  <2>3. Fresh(p)' /\ \A q \in Producers \ {p} : pc[q] # "idle" => Call(q)' # Call(p)'
    BY <1>1, <1>2, <2>1, CallTypes DEF Fresh, Call
  <2>4. ~ticketMode => CallsOK'
    BY <1>1, <1>2, <1>4, <2>1, <2>3 DEF ChunksOK, CallsOK
  <2> QED BY <1>1, <1>3, <2>2, <2>4 DEF ChunksOK
<1>6. CASE NextChunk(p)
  <2>1. /\ Call(p)' = Call(p) /\ submit'[begun] = Call(p)
        /\ pc[p] = "return" /\ pc'[p] = "claim"
    BY <1>1, <1>6 DEF NextChunk, Goto, Build, IndInv, TypeOK, Call
  <2>2. \A c \in Cmd : submit'[c] < begun'
    BY <1>1, <2>1, CallTypes DEF Call
  <2>3. ~ticketMode => Last(p)'
    BY <1>1, <1>2, <2>1, CallTypes DEF Last, Call, ChunksOK, CallsOK
  <2>4. ~ticketMode => CallsOK'
    BY <1>1, <1>2, <1>4, <2>1, <2>3 DEF ChunksOK, CallsOK
  <2> QED BY <1>1, <1>3, <2>2, <2>4 DEF ChunksOK
<1> QED BY <1>5, <1>6

\* In mutex mode nobody else is past the lock.
LEMMA OneHolder ==
  ASSUME IndInv, ~ticketMode, NEW p \in Producers, pc[p] \in Holding
  PROVE  \A q \in Producers \ {p} : pc[q] \notin Holding /\ pc[q] \notin Claiming
BY DEF IndInv, ClaimsOK, Holding, Claiming, Unpublished

\* A slot number is claimed: right behind the call's last chunk, if it has
\* one in the ring.
LEMMA ChunksClaimed ==
  ASSUME IndInv, CmdsOK, ChunksOK, NEW p \in Producers, Claim(p)
  PROVE  ChunksOK'
<1>1. /\ pc[p] = "claim" /\ pc'[p] = "space" /\ UNCHANGED <<cmd, submit, mirror, begun, ticketMode>>
      /\ \A q \in Producers \ {p} : pc'[q] = pc[q]
  BY DEF Claim, Goto, IndInv, TypeOK
<1>2. CASE ticketMode
  BY <1>1, <1>2 DEF ChunksOK, ChunksContiguous
<1>3. CASE ~ticketMode
  <2>1. /\ mirror \in Cmd /\ order[mirror] = NoCmd
        /\ order' = [order EXCEPT ![mirror] = cmd[p]]
    BY <1>3, NextIsUnused DEF Claim, SlotToClaim
  <2>2. /\ order'[mirror] = cmd[p] /\ cmd[p] # NoCmd /\ cmd[p] \in Cmd
        /\ \A j \in Cmd \ {mirror} : order'[j] = order[j]
    BY <1>1, <2>1, CallTypes DEF IndInv, TypeOK, ClaimsOK
  <2>3. \A q \in Producers \ {p} : pc[q] \notin Holding
    BY <1>1, <1>3, OneHolder DEF Holding
  <2>4. \A j \in Cmd : order[j] # NoCmd <=> j < mirror
    <3>1. \A q \in Producers : pc[q] \notin Claiming
      BY <1>1, <1>3, <2>3, OneHolder DEF Holding, Claiming, Unpublished
    <3> QED BY <1>3, <3>1 DEF CmdsOK, ChunksOK, CallsOK
  <2>5. CallsOK'
    <3>1. \A j \in Cmd : j < mirror => order'[j] # NoCmd
      BY <2>2, <2>4
    <3>2. ASSUME NEW q \in Producers, pc'[q] = "lock" PROVE Fresh(q)'
      <4>1. q # p /\ pc[q] = "lock" /\ Call(q) # Call(p) /\ Fresh(q)
        BY <1>1, <1>3, <3>2 DEF ChunksOK, CallsOK
      <4> QED BY <1>1, <2>2, <4>1 DEF Fresh, Call
    <3>3. ASSUME NEW q \in Producers PROVE pc'[q] # "claim" /\ pc'[q] # "return"
      BY <1>1, <2>3 DEF Holding
    <3> QED BY <1>1, <1>3, <3>1, <3>2, <3>3 DEF ChunksOK, CallsOK, Call
  <2>6. ASSUME NEW j \in Cmd, NEW k \in Cmd, NEW l \in Cmd, j < k, k < l,
               order'[l] # NoCmd, order'[j] # NoCmd,
               submit[order'[j]] = submit[order'[l]]
        PROVE  submit[order'[k]] = submit[order'[j]]
    <3>1. l <= mirror /\ k < mirror /\ j < mirror
      BY <2>1, <2>2, <2>4, <2>6 DEF Cmd
    <3>2. /\ order'[j] = order[j] /\ order'[k] = order[k]
          /\ order[j] # NoCmd /\ order[k] # NoCmd
      BY <2>1, <2>2, <2>4, <3>1 DEF Cmd
    <3>3. CASE l < mirror
      <4>1. order'[l] = order[l]
        BY <2>1, <2>2, <3>3 DEF Cmd
      <4> QED BY <1>3, <2>6, <3>2, <4>1 DEF ChunksOK, ChunksContiguous
    <3>4. CASE l = mirror
      <4>1. Last(p) /\ submit[order[j]] = Call(p)
        BY <1>1, <1>3, <2>2, <2>6, <3>2, <3>4 DEF ChunksOK, CallsOK, Fresh, Call
      <4>2. mirror - 1 \in Cmd /\ order[mirror - 1] # NoCmd
        BY <1>3, <4>1, CallTypes DEF Last
      <4>3. CASE k = mirror - 1
        BY <3>2, <4>1, <4>3 DEF Last
      <4>4. CASE k < mirror - 1
        BY <1>3, <2>6, <3>2, <4>1, <4>2, <4>4 DEF Last, ChunksOK, ChunksContiguous
      <4> QED BY <2>1, <3>1, <4>3, <4>4 DEF Cmd
    <3> QED BY <2>1, <3>1, <3>3, <3>4 DEF Cmd
  <2>7. ChunksContiguous'
    BY <1>1, <2>6 DEF ChunksContiguous
  <2> QED BY <1>1, <2>5, <2>7 DEF ChunksOK
<1> QED BY <1>2, <1>3

\* The other steps of a producer leave the calls where they are.
LEMMA ChunksOthers ==
  ASSUME IndInv, CmdsOK, ChunksOK, NEW p \in Producers,
         \/ Lock(p) \/ AwaitSpace(p) \/ WriteBegin(p) \/ WriteEnd(p)
         \/ AwaitTurn(p) \/ StorePut(p) \/ StoreMirror(p) \/ Return(p)
  PROVE  ChunksOK'
<1>1. /\ UNCHANGED <<order, cmd, submit, begun, ticketMode>>
      /\ \A q \in Producers \ {p} : pc'[q] = pc[q]
      /\ pc[p] # "idle" /\ pc'[p] # "lock"
      /\ pc'[p] = "claim" => pc[p] = "lock"
      /\ mirror' # mirror => StoreMirror(p)
      /\ pc'[p] = "return" => StoreMirror(p)
  BY DEF Lock, AwaitSpace, WriteBegin, WriteEnd, AwaitTurn, StorePut, StoreMirror,
         Return, Goto, IndInv, TypeOK
<1>2. ChunksContiguous' /\ \A q \in Producers : Call(q)' = Call(q) /\ (Fresh(q)' <=> Fresh(q))
  BY <1>1 DEF ChunksOK, ChunksContiguous, Call, Fresh
<1>3. CASE StoreMirror(p) /\ ~ticketMode
  <2>1. /\ pc[p] = "mirror" /\ pc'[p] = "return" /\ slot[p] = mirror
        /\ mirror' = mirror + 1 /\ mirror \in Cmd /\ order[mirror] = cmd[p]
        /\ cmd[p] # NoCmd
    BY <1>3, BoundAssumption DEF StoreMirror, Goto, IndInv, TypeOK, PutOK, ClaimsOK,
                Claiming, Cmd
  <2>2. \A q \in Producers \ {p} : pc[q] \notin Holding
    BY <1>3, <2>1, OneHolder DEF Holding
  <2>3. \A j \in Cmd : j < mirror' => order'[j] # NoCmd
    BY <1>1, <1>3, <2>1 DEF ChunksOK, CallsOK, Cmd
  <2>4. \A q \in Producers \ {p} : pc'[q] # "claim" /\ pc'[q] # "return"
    BY <1>1, <2>2 DEF Holding
  <2>5. mirror' > 0 /\ mirror' - 1 = mirror
    BY <2>1, BoundAssumption DEF Cmd
  <2>6. order'[mirror' - 1] = cmd'[p]
    BY <1>1, <2>1, <2>5
  <2>7. CallsOK'
    BY <1>1, <1>2, <1>3, <2>1, <2>3, <2>4, <2>5, <2>6 DEF ChunksOK, CallsOK
  <2> QED BY <1>1, <1>2, <2>7 DEF ChunksOK
<1>4. CASE ~StoreMirror(p) /\ ~ticketMode
  <2>1. mirror' = mirror /\ pc'[p] # "return"
    BY <1>1, <1>4
  <2>2. \A q \in Producers : Last(q)' <=> Last(q)
    BY <1>1, <2>1 DEF Last, Call
  <2>3. CallsOK'
    BY <1>1, <1>2, <1>4, <2>1, <2>2 DEF ChunksOK, CallsOK
  <2> QED BY <1>1, <1>2, <2>3 DEF ChunksOK
<1>5. CASE ticketMode
  BY <1>1, <1>2, <1>5 DEF ChunksOK
<1> QED BY <1>3, <1>4, <1>5

\* In mutex mode the chunks of a copy lie together in the ring, for every
\* number of producers, of chunks and of slots: the lock of do_submit is
\* held over all of them.
THEOREM ChunksTogether == Spec => []ChunksContiguous
<1>1. IndInv /\ CmdsOK /\ ChunksOK /\ [Next]_vars => ChunksOK'
  <2> SUFFICES ASSUME IndInv, CmdsOK, ChunksOK, [Next]_vars PROVE ChunksOK'
    OBVIOUS
  <2>1. ASSUME NEW p \in Producers, Submit(p) \/ NextChunk(p) \/ ProducerStep(p)
        PROVE  ChunksOK'
    BY <2>1, ChunksBuilt, ChunksClaimed, ChunksOthers DEF ProducerStep
  <2>2. ASSUME UNCHANGED <<producerVars, order, submit, ticketMode>>
        PROVE  ChunksOK'
    BY <2>2 DEF producerVars, ChunksOK, CallsOK, ChunksContiguous, Call, Fresh, Last
  <2>3. CASE EngineStep
    BY <2>2, <2>3 DEF EngineStep, LoadPut, TakeFaultFail, NoFaultFail, SkipChannel,
                ChooseChannel, Fetch, Boundary, PageFault, PushFault, Retire,
                EGoto
  <2>4. CASE HandlerStep
    BY <2>2, <2>4 DEF HandlerStep, PopFault, PostFaultFail, Unpark, HGoto
  <2>5. CASE UNCHANGED vars
    BY <2>2, <2>5 DEF vars
  <2> QED BY <2>1, <2>3, <2>4, <2>5 DEF Next
<1>2. ChunksOK => ChunksContiguous
  BY DEF ChunksOK
<1> QED BY <1>1, <1>2, ChunksInit, CmdsInit, CmdsStep, RingInvariant, PTL DEF Spec

----------------------------------------------------------------------------
(* Refinement                                                              *)

\* An empty channel is an empty stream.
LEMMA StreamInit == Init => Stream!Init
BY DEF Init, Stream!Init

\* A step that publishes one command accepts it; one that advances GET
\* retires the next; every other step leaves the abstract state alone.
LEMMA StreamStep ==
  ASSUME IndInv, IndInv', [Next]_vars
  PROVE  Stream!Next \/ UNCHANGED Stream!streamVars
<1> DEFINE acc == [i \in 1 .. put |-> order[i - 1]]
           ret == [i \in 1 .. get |-> outcome[i - 1]]
<1> USE BoundAssumption, DepthAssumption
<1>t. /\ put \in Nat /\ get \in Nat /\ get <= put /\ put <= MaxCmds
      /\ order \in [Cmd -> Cmd \cup {NoCmd}]
      /\ outcome \in [Cmd -> Cmd \cup {NoCmd, Torn, Failed}]
  BY SMTT(30) DEF IndInv, TypeOK, EngineOK
<1>l. Len(acc) = put /\ Len(ret) = get
  BY <1>t
<1>1. ASSUME put' = put, get' = get,
             \A i \in 0 .. put - 1 : order'[i] = order[i], outcome' = outcome
      PROVE  UNCHANGED Stream!streamVars
  BY <1>1, <1>t DEF Stream!streamVars
<1>2. ASSUME NEW p \in Producers, StorePut(p) PROVE Stream!Next
  <2>1. /\ put' = put + 1 /\ get' = get /\ order' = order /\ outcome' = outcome
        /\ put = slot[p] /\ order[put] = cmd[p] /\ cmd[p] \in Cmd
        /\ put - get < Depth
    <3>1. /\ pc[p] = "put" /\ put' = slot[p] + 1 /\ get' = get
          /\ order' = order /\ outcome' = outcome
      BY <1>2 DEF StorePut, Goto, engineVars
    <3>2. /\ slot[p] = mirror /\ slot[p] \in Nat /\ mirror \in Nat
          /\ put <= slot[p]
      BY <3>1, <1>t DEF IndInv, TypeOK, PutOK, Unpublished
    <3>3. \A q \in Producers : pc[q] = "mirror" => put = mirror + 1
      BY DEF IndInv, PutOK
    <3>4. (\A q \in Producers : pc[q] # "mirror") => put = mirror
      BY DEF IndInv, PutOK
    <3>5. put = slot[p]
      BY <3>2, <3>3, <3>4, <1>t
    <3>6. order[put] = cmd[p] /\ cmd[p] # NoCmd
      BY <3>1, <3>5 DEF IndInv, ClaimsOK, Claiming, Unpublished
    <3>7. cmd[p] \in Cmd
      BY <3>6 DEF IndInv, TypeOK
    <3>8. put - get < Depth
      BY <3>1, <3>5 DEF IndInv, SpaceOK
    <3> QED BY <3>1, <3>5, <3>6, <3>7, <3>8
  <2>2. acc' = Append(acc, cmd[p]) /\ ret' = ret
    BY <2>1, <1>t
  <2>3. PICK c \in Cmd : c = cmd[p]
    BY <2>1
  <2>4. Stream!Accept(c)
    BY <2>1, <2>2, <2>3, <1>l, <1>t DEF Stream!Accept
  <2> QED BY <2>4 DEF Stream!Next
<1>3. ASSUME NEW result \in {order[get], Failed}, RetireAs(result), get < put,
             put' = put, order' = order
      PROVE  Stream!Next
  <2>1. get \in Cmd /\ get' = get + 1
        /\ outcome' = [outcome EXCEPT ![get] = result]
    BY <1>3, <1>t DEF RetireAs, Cmd
  <2>2. ret' = Append(ret, result) /\ acc' = acc
    BY <2>1, <1>3, <1>t DEF Cmd
  <2>3. acc[Len(ret) + 1] = order[get]
    BY <1>t, <1>l, <1>3
  <2> HIDE DEF acc, ret
  <2>4. CASE result = Failed
    <3>1. Stream!Retire(Failed)
      BY <2>2, <2>4, <1>l, <1>3 DEF Stream!Retire, acc, ret
    <3> QED BY <3>1 DEF Stream!Next, Stream!RetireNext
  <2>5. CASE result = order[get]
    <3>1. Stream!Retire(acc[Len(ret) + 1])
      BY <2>2, <2>3, <2>5, <1>l, <1>3 DEF Stream!Retire, acc, ret
    <3> QED BY <3>1 DEF Stream!Next, Stream!RetireNext, acc, ret
  <2> QED BY <1>3, <2>4, <2>5
<1>4. ASSUME NEW p \in Producers, Claim(p) PROVE UNCHANGED Stream!streamVars
  <2>1. put <= SlotToClaim /\ SlotToClaim \in Nat
    BY <1>4 DEF Claim, SlotToClaim, Goto, IndInv, TypeOK, ClaimsOK, PutOK,
                Holding
  <2> QED BY <1>1, <1>4, <2>1, <1>t DEF Claim, engineVars
<1>5. ASSUME NEW p \in Producers,
             \/ Submit(p) \/ NextChunk(p) \/ Lock(p) \/ AwaitSpace(p)
             \/ WriteBegin(p) \/ WriteEnd(p) \/ AwaitTurn(p) \/ StoreMirror(p)
             \/ Return(p)
      PROVE  UNCHANGED Stream!streamVars
  BY <1>1, <1>5 DEF Submit, NextChunk, Lock, AwaitSpace, WriteBegin, WriteEnd,
                    AwaitTurn, StoreMirror, Return, engineVars
<1>6. ASSUME TakeFaultFail
      PROVE  Stream!Next \/ UNCHANGED Stream!streamVars
  <2>1. get <= seen /\ seen <= put /\ seen \in Nat
    BY <1>6 DEF TakeFaultFail, EGoto, IndInv, TypeOK, EngineOK
  <2>2. CASE seen # get
    BY <1>3, <1>6, <2>1, <2>2, <1>t DEF TakeFaultFail
  <2>3. CASE seen = get
    BY <1>1, <1>6, <2>3 DEF TakeFaultFail
  <2> QED BY <2>2, <2>3
<1>7. ASSUME NEW rc \in {"none", "exec"}, Retire(rc) PROVE Stream!Next
  <2>1. running = order[get] /\ get < put
    BY <1>7, <1>t DEF Retire, EGoto, IndInv, TypeOK, EngineOK
  <2> QED BY <1>3, <1>7, <2>1 DEF Retire
<1>8. ASSUME \/ LoadPut \/ NoFaultFail \/ SkipChannel \/ ChooseChannel
             \/ Fetch \/ Boundary \/ PageFault \/ PushFault \/ HandlerStep
             \/ UNCHANGED vars
      PROVE  UNCHANGED Stream!streamVars
  BY <1>1, <1>8 DEF LoadPut, NoFaultFail, SkipChannel, ChooseChannel, Fetch,
       Boundary, PageFault, PushFault, HandlerStep, PopFault, PostFaultFail,
       Unpark, engineVars, vars
<1> QED BY <1>2, <1>4, <1>5, <1>6, <1>7, <1>8 DEF Next, ProducerStep, EngineStep

\* One channel, with any number of producers, its engine and the fault
\* handler, implements the abstract command stream.
THEOREM RingImplementsStream == Spec => ImplementsStream
<1>1. IndInv /\ IndInv' /\ [Next]_vars => [Stream!Next]_(Stream!streamVars)
  BY StreamStep
<1> QED BY <1>1, StreamInit, RingInvariant, PTL
        DEF Spec, ImplementsStream, Stream!Spec
=============================================================================

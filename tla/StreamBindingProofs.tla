------------------------- MODULE StreamBindingProofs -------------------------
(***************************************************************************)
(* Proofs about StreamBinding and the Runlist under it, for any number of  *)
(* threads, streams, engines, channels, priority levels and commands in a  *)
(* timeslice.                                                              *)
(***************************************************************************)
EXTENDS StreamBinding, FiniteSetTheorems, WellFoundedInduction, TLAPS

----------------------------------------------------------------------------
(* The inductive invariant                                                 *)

Jobs == [stream : StreamSet \cup {NoJob.stream}, channel : Channels \cup {None},
         priority : Priorities, engine : 0 .. NumEngines]

TypeOK ==
  /\ RunlistTypeOK
  /\ setting \in [Threads -> [step : {"none", "stored", "scanned"},
                              mixed : BOOLEAN]]
  /\ failed \in [Channels -> BOOLEAN] /\ overtaken \in [Channels -> Nat]
  /\ pc \in {"scan", "visit", "run", "boundary", "higher", "equal"}
  /\ bindMu \in Threads \cup {NoOne}
  /\ bind \in [Channels -> [priority : Priorities, users : Int]]
  /\ channelOf \in [StreamSet -> Channels \cup {None}]
  /\ streamPrio \in [StreamSet -> Priorities]
  /\ at \in [Threads -> {"idle", "bind", "raise", "refused", "unbind", "lower"}]
  /\ job \in [Threads -> Jobs]

\* Only the holder of g_bind_mu programs priorities.
Programming(t) == at[t] \in {"raise", "lower"}

LockOK ==
  /\ \A t \in Threads : Programming(t) <=> bindMu = t
  /\ \A t \in Threads :
       setting[t].step # "none" => bindMu = t /\ job[t].engine < NumEngines

\* A stream that a call creates or destroys is no one else's.
JobsOK ==
  \A t \in Threads : at[t] # "idle" =>
    /\ job[t].stream \in StreamSet /\ channelOf[job[t].stream] = None
    /\ \A u \in Threads \ {t} : at[u] # "idle" => job[u].stream # job[t].stream
    /\ at[t] \in {"raise", "lower", "unbind"} => job[t].channel \in Channels
    /\ at[t] \in {"lower", "unbind"} => job[t].priority = Least
    /\ ~Programming(t) => job[t].engine = 0

On(c) == {s \in StreamSet : channelOf[s] = c}
Leaving(c) == {t \in Threads : at[t] = "unbind" /\ job[t].channel = c}
UsersOK == \A c \in Channels : bind[c].users = Users(c)

\* While a channel is programmed nobody uses it, and the engines before the
\* current one have its new priority; all others have what g_bind says.
Programmed(t, e) == \/ e < job[t].engine
                    \/ e = job[t].engine /\ setting[t].step # "none"

ProgrammingOK ==
  \A t \in Threads : Programming(t) =>
    /\ bind[job[t].channel].users = 0
    /\ \A e \in Engines :
         Programmed(t, e) => priority[e][job[t].channel] = job[t].priority

BoundOK ==
  /\ \A c \in Channels :
       (\A t \in Threads : Programming(t) => job[t].channel # c) =>
         \A e \in Engines : priority[e][c] = bind[c].priority
  /\ \A s \in StreamSet :
       channelOf[s] # None => streamPrio[s] = bind[channelOf[s]].priority

\* What a call is about to store in mixed_priority_ is still true.
MixedOK ==
  /\ MixedAgrees
  /\ \A t \in Threads :
       setting[t].step = "scanned" => (setting[t].mixed <=> AnyRaised)

BindingInv == /\ TypeOK /\ LockOK /\ JobsOK /\ UsersOK /\ ProgrammingOK
              /\ BoundOK /\ MixedOK

\* A channel that has been overtaken can still run under settled priorities,
\* and the engine has not passed it over since: a scan has yet to look at it
\* or holds a channel that it does not outrank, and so does a boundary.
Inspected(c) == \E j \in 0 .. i - 1 : (rr + j) % NumChannels = c

NotPassedOver(c) ==
  /\ pc = "scan" =>
       /\ chosen # None => prio = priority[Self][chosen]
       /\ Inspected(c) => chosen # None /\ prio <= priority[Self][c]
  /\ pc = "higher" =>
       /\ prio = priority[Self][chosen]
       /\ c < i => prio <= priority[Self][c]
  /\ pc \in {"visit", "equal"} => priority[Self][chosen] <= priority[Self][c]

Due(c) ==
  /\ overtaken[c] = 1 /\ Settled /\ mixed /\ CanRun(c)
  /\ pc = "run" => c # chosen
  /\ NotPassedOver(c)

OvertakenOK ==
  /\ pc \in {"visit", "run", "boundary"} => i = 0
  /\ \A c \in Channels : overtaken[c] # 0 => Due(c)

----------------------------------------------------------------------------
(* Choosing a channel                                                      *)

\* A set of naturals has a least element.
LEMMA LeastElement ==
  ASSUME NEW S, S \subseteq Nat, S # {}
  PROVE  \E m \in S : \A n \in S : m <= n
<1> DEFINE R == {ss \in Nat \X Nat : ss[1] < ss[2]}
<1>1. IsWellFoundedOn(R, Nat)
  BY NatLessThanWellFounded DEF OpToRel
<1> HIDE DEF R
<1>2. PICK m \in S : \A n \in S : ~(<<n, m>> \in R)
  BY <1>1, WFMin
<1>3. \A n \in S : ~(n < m)
  BY <1>2 DEF R
<1> QED BY <1>3

\* bind_channel takes a channel out of those it looks through.
LEMMA ChosenChannel ==
  ASSUME NEW C \in SUBSET Channels, C # {}, \A c \in Channels : bind[c].users \in Nat
  PROVE  LeastUsed(C) \in C /\ First(C) \in C
<1>0. Channels \subseteq Nat /\ C \subseteq Channels
  BY RunlistAssumption DEF Channels
<1>1. \E c \in C : \A d \in C : c <= d
  <2>1. C \subseteq Nat
    BY <1>0
  <2> QED BY <2>1, LeastElement
<1>2. \E c \in C : \A d \in C :
        bind[c].users < bind[d].users \/ (bind[c].users = bind[d].users /\ c <= d)
  <2> DEFINE U == {bind[c].users : c \in C}
  <2>1. PICK m \in U : \A n \in U : m <= n
    <3>1. U \subseteq Nat /\ U # {}
      <4>1. PICK c \in C : TRUE
        OBVIOUS
      <4>2. bind[c].users \in U
        BY <4>1
      <4> QED BY <1>0, <4>2
    <3> HIDE DEF U
    <3> QED BY <3>1, LeastElement
  <2> DEFINE D == {c \in C : bind[c].users = m}
  <2>2. PICK c \in D : \A d \in D : c <= d
    <3>1. D \subseteq Nat /\ D # {}
      BY <1>0, <2>1
    <3> HIDE DEF D
    <3> QED BY <3>1, LeastElement
  <2>3. \A d \in C : m <= bind[d].users /\ (bind[d].users = m => c <= d)
    BY <2>1, <2>2
  <2>4. c \in C /\ bind[c].users = m /\ m \in Nat
    BY <2>2
  <2>5. \A d \in C : bind[d].users \in Nat
    BY <1>0
  <2> HIDE DEF D, U
  <2> QED BY <2>3, <2>4, <2>5
<1> QED BY <1>1, <1>2 DEF LeastUsed, First

----------------------------------------------------------------------------
(* The run loop and what surrounds it                                      *)

\* Type correctness of the run loop's steps and of those around it; none of
\* them touches a priority.
LEMMA RunsType ==
  ASSUME TypeOK, Runs
  PROVE  /\ TypeOK' /\ UNCHANGED <<priorityVars, bindingVars, at, job>>
<1> USE RunlistAssumption
        DEF TypeOK, RunlistTypeOK, priorityVars, channelVars, engineVars, others,
            bindingVars, Rescan
<1>0. Least \in Priorities /\ Self \in Engines
  BY DEF Least, Greatest, Priorities, Self, Engines
<1>1. UNCHANGED <<priorityVars, bindingVars, at, job>>
  BY DEF Runs, Engine, Inspect, EndScan, Begin, Block, Fault, Finish, Boundary, Look,
         Keep, Surroundings, Publish, FencePasses, ServeFault, Unpark
<1>2. CASE Inspect
  <2>1. (rr + i) % NumChannels \in Channels
    BY DEF Channels
  <2> DEFINE c == (rr + i) % NumChannels
  <2>2. c \in Channels /\ c # None
    BY <2>1 DEF Channels, None
  <2> HIDE DEF c
  <2>3. UNCHANGED <<pc, rr, fault>> /\ i' \in 0 .. NumChannels /\ pc = "scan"
    BY <1>2 DEF Inspect
  <2>4. CASE failed[c]
    <3>1. UNCHANGED <<chosen, prio>>
      BY <1>2, <2>4 DEF Inspect, c
    <3>2. failed' \in [Channels -> BOOLEAN] /\ overtaken' \in [Channels -> Nat]
      <4>1. /\ failed' = [failed EXCEPT ![c] = FALSE]
            /\ overtaken' = [overtaken EXCEPT ![c] = 0]
        BY <1>2, <2>4 DEF Inspect, c
      <4> QED BY <2>2, <4>1
    <3>3. head' \in [Channels -> {"none", "ready", "blocked"}]
      BY <1>2, <2>2, <2>4 DEF Inspect, c, Retires
    <3> QED BY <1>1, <2>3, <3>1, <3>2, <3>3
  <2>5. CASE ~failed[c]
    <3>1. UNCHANGED <<head, failed, overtaken>>
      BY <1>2, <2>5 DEF Inspect, c
    <3>2. \/ chosen' = c /\ prio' = priority[Self][c]
          \/ UNCHANGED <<chosen, prio>>
      BY <1>2, <2>5 DEF Inspect, c
    <3>3. chosen' \in Channels \cup {None} /\ prio' \in Priorities
      BY <1>0, <2>2, <3>2
    <3> QED BY <1>1, <2>3, <3>1, <3>3
  <2> QED BY <2>4, <2>5
<1>3. CASE EndScan
  BY <1>0, <1>1, <1>3, SMTT(30) DEF EndScan, Turn, Channels
<1>4. CASE Begin
  BY <1>1, <1>4 DEF Begin
<1>5. CASE Block \/ Fault
  BY <1>0, <1>1, <1>5, SMTT(30) DEF Block, Fault
<1>6. CASE Finish
  BY <1>0, <1>1, <1>6 DEF Finish, Retires
<1>7. CASE Boundary
  BY <1>0, <1>1, <1>7 DEF Boundary
<1>8. CASE Look
  BY <1>0, <1>1, <1>8 DEF Look
<1>9. CASE Keep
  BY <1>0, <1>1, <1>9 DEF Keep
<1>10. ASSUME NEW c \in Channels,
              Publish(c) \/ FencePasses(c) \/ ServeFault(c) \/ Unpark(c)
       PROVE  TypeOK'
  BY <1>1, <1>10, ZenonT(60) DEF Publish, FencePasses, ServeFault, Unpark
<1> QED BY <1>1, <1>2, <1>3, <1>4, <1>5, <1>6, <1>7, <1>8, <1>9, <1>10
        DEF Runs, Engine, Surroundings

\* The run loop leaves the bindings' invariant alone.
LEMMA RunsInv == ASSUME BindingInv, Runs PROVE BindingInv'
<1>1. TypeOK' /\ UNCHANGED <<priorityVars, bindingVars, at, job>>
  BY RunsType DEF BindingInv
<1> USE <1>1 DEF priorityVars, bindingVars
<1>2. LockOK' /\ JobsOK'
  BY DEF BindingInv, LockOK, JobsOK, Programming
<1>3. UsersOK'
  BY DEF BindingInv, UsersOK, Users
<1>4. ProgrammingOK' /\ BoundOK'
  BY DEF BindingInv, ProgrammingOK, BoundOK, Programming, Programmed
<1>5. MixedOK'
  BY DEF BindingInv, MixedOK, MixedAgrees, Settled, AnyRaised
<1> QED BY <1>2, <1>3, <1>4, <1>5 DEF BindingInv

----------------------------------------------------------------------------
(* Creating and destroying streams                                         *)

\* The users of a channel are the streams on it, those leaving it, and the
\* default stream.
LEMMA UsersCounted ==
  ASSUME NEW c \in Channels
  PROVE  /\ IsFiniteSet(On(c)) /\ IsFiniteSet(Leaving(c))
         /\ Cardinality(On(c)) \in Nat /\ Cardinality(Leaving(c)) \in Nat
         /\ Users(c) = Cardinality(On(c)) + Cardinality(Leaving(c))
                       + (IF c = 0 THEN 1 ELSE 0)
         /\ Users(c) \in Nat
         /\ Users(c) = 0 => On(c) = {}
<1>1. IsFiniteSet(On(c)) /\ IsFiniteSet(Leaving(c))
  BY BindingAssumption, FS_Subset DEF On, Leaving
<1>2. Cardinality(On(c)) \in Nat /\ Cardinality(Leaving(c)) \in Nat
  BY <1>1, FS_CardinalityType
<1>3. Users(c) = Cardinality(On(c)) + Cardinality(Leaving(c))
                 + (IF c = 0 THEN 1 ELSE 0)
  BY DEF Users, On, Leaving
<1>4. Cardinality(On(c)) = 0 => On(c) = {}
  BY <1>1, FS_EmptySet
<1> QED BY <1>1, <1>2, <1>3, <1>4

\* How the count follows a stream that comes, one that starts to leave, and
\* one that has left.
LEMMA UsersChange ==
  ASSUME NEW c \in Channels, Leaving(c)' = Leaving(c), On(c)' = On(c)
  PROVE  Users(c)' = Users(c)
BY DEF Users, On, Leaving

LEMMA UserComes ==
  ASSUME NEW c \in Channels, NEW s \in StreamSet, s \notin On(c),
         On(c)' = On(c) \cup {s}, Leaving(c)' = Leaving(c)
  PROVE  Users(c)' = Users(c) + 1
<1>1. Cardinality(On(c)') = Cardinality(On(c)) + 1
  BY UsersCounted, FS_AddElement, ZenonT(60)
<1>2. Users(c)' = Cardinality(On(c)') + Cardinality(Leaving(c)')
                  + (IF c = 0 THEN 1 ELSE 0)
  BY DEF Users, On, Leaving
<1> QED BY <1>1, <1>2, UsersCounted

LEMMA UserGoes ==
  ASSUME NEW c \in Channels, NEW s \in StreamSet, s \in On(c), On(c)' = On(c) \ {s},
         NEW t \in Threads, t \notin Leaving(c), Leaving(c)' = Leaving(c) \cup {t}
  PROVE  Users(c)' = Users(c)
<1>1. Cardinality(On(c)') = Cardinality(On(c)) - 1
  BY UsersCounted, FS_RemoveElement, ZenonT(60)
<1>2. Cardinality(Leaving(c)') = Cardinality(Leaving(c)) + 1
  BY UsersCounted, FS_AddElement
<1>3. Users(c)' = Cardinality(On(c)') + Cardinality(Leaving(c)')
                  + (IF c = 0 THEN 1 ELSE 0)
  BY DEF Users, On, Leaving
<1> QED BY <1>1, <1>2, <1>3, UsersCounted

LEMMA UserGone ==
  ASSUME NEW c \in Channels, NEW t \in Threads, t \in Leaving(c),
         Leaving(c)' = Leaving(c) \ {t}, On(c)' = On(c)
  PROVE  Users(c)' = Users(c) - 1
<1>1. Cardinality(Leaving(c)') = Cardinality(Leaving(c)) - 1
  BY UsersCounted, FS_RemoveElement
<1>2. Users(c)' = Cardinality(On(c)') + Cardinality(Leaving(c)')
                  + (IF c = 0 THEN 1 ELSE 0)
  BY DEF Users, On, Leaving
<1> QED BY <1>1, <1>2, UsersCounted

\* The types of the bindings' variables, without the runlist's.
LEMMA BindingTypes ==
  ASSUME TypeOK
  PROVE  /\ priority \in [Engines -> [Channels -> Priorities]]
         /\ setting \in [Threads -> [step : {"none", "stored", "scanned"},
                                     mixed : BOOLEAN]]
         /\ bindMu \in Threads \cup {NoOne}
         /\ bind \in [Channels -> [priority : Priorities, users : Int]]
         /\ channelOf \in [StreamSet -> Channels \cup {None}]
         /\ streamPrio \in [StreamSet -> Priorities]
         /\ at \in [Threads ->
                      {"idle", "bind", "raise", "refused", "unbind", "lower"}]
         /\ job \in [Threads -> Jobs]
         /\ None \notin Channels
BY RunlistAssumption DEF TypeOK, RunlistTypeOK, None, Channels

\* Under the lock, nobody else is programming priorities.
LEMMA OneProgrammer ==
  ASSUME BindingInv, NEW t \in Threads
  PROVE  /\ bindMu = NoOne => \A u \in Threads : ~Programming(u) /\ setting[u].step = "none"
         /\ bindMu = t => \A u \in Threads \ {t} :
                            ~Programming(u) /\ setting[u].step = "none"
         /\ ~Programming(t) => setting[t].step = "none"
BY BindingAssumption DEF BindingInv, LockOK

\* A call's step that touches no register of the device.
LEMMA CallFrame ==
  ASSUME BindingInv, UNCHANGED runlistVars
  PROVE  /\ MixedOK' /\ RunlistTypeOK'
         /\ UNCHANGED <<priority, mixed, setting>>
         /\ /\ bindMu' \in Threads \cup {NoOne}
            /\ bind' \in [Channels -> [priority : Priorities, users : Int]]
            /\ channelOf' \in [StreamSet -> Channels \cup {None}]
            /\ streamPrio' \in [StreamSet -> Priorities]
            /\ at' \in [Threads -> {"idle", "bind", "raise", "refused", "unbind",
                                    "lower"}]
            /\ job' \in [Threads -> Jobs]
            => TypeOK'
<1> USE DEF runlistVars, priorityVars, channelVars, engineVars
<1>1. RunlistTypeOK'
  BY DEF BindingInv, TypeOK, RunlistTypeOK
<1>2. MixedOK'
  BY DEF BindingInv, MixedOK, MixedAgrees, Settled, AnyRaised
<1> QED BY <1>1, <1>2 DEF BindingInv, TypeOK

\* The record of a call that is about to begin or has ended.
LEMMA NoJobType ==
  /\ NoJob \in Jobs /\ NoJob.engine = 0 /\ NoJob.priority = Least
  /\ Least \in Priorities
  /\ \A p \in Wanted : clamp_priority(p) \in Priorities
BY RunlistAssumption
   DEF NoJob, Jobs, Wanted, clamp_priority, Priorities, Greatest, Least

\* sgStreamCreate's first step keeps the invariant.
LEMMA CreateInv ==
  ASSUME BindingInv, NEW t \in Threads, NEW s \in StreamSet, NEW p \in Wanted,
         Create(t, s, p)
  PROVE  BindingInv'
<1>1. UNCHANGED <<runlistVars, bindMu, bind, channelOf, streamPrio>>
  BY DEF Create, bindingVars
<1>2. TypeOK
  BY DEF BindingInv
<1>3. /\ at[t] = "idle" /\ at'[t] = "bind"
      /\ job'[t] = [stream |-> s, channel |-> None, engine |-> 0,
                    priority |-> clamp_priority(p)]
      /\ \A u \in Threads \ {t} : UNCHANGED <<at[u], job[u]>>
      /\ channelOf[s] = None
      /\ \A u \in Threads : at[u] # "idle" => job[u].stream # s
  BY <1>2, BindingTypes DEF Create, Goto, NoJob
<1>4. job'[t] \in Jobs
  BY <1>3, NoJobType, RunlistAssumption DEF Jobs
<1>5. TypeOK' /\ MixedOK' /\ UNCHANGED <<priority, setting>>
  <2>1. at' \in [Threads -> {"idle", "bind", "raise", "refused", "unbind", "lower"}]
        /\ job' \in [Threads -> Jobs]
    BY <1>2, <1>4, BindingTypes DEF Create, Goto
  <2> QED BY <1>1, <1>2, <2>1, BindingTypes, CallFrame
<1>6. \A u \in Threads : Programming(u)' = Programming(u)
  BY <1>3 DEF Programming
<1>7. LockOK'
  BY <1>1, <1>3, <1>5, <1>6 DEF BindingInv, LockOK, Programming
<1>8. JobsOK'
  BY <1>1, <1>3, <1>6 DEF BindingInv, JobsOK, Programming
<1>9. UsersOK'
  <2>1. \A c \in Channels : On(c)' = On(c) /\ Leaving(c)' = Leaving(c)
    BY <1>1, <1>3 DEF On, Leaving
  <2> QED BY <1>1, <2>1, UsersChange DEF BindingInv, UsersOK
<1>10. ProgrammingOK'
  BY <1>1, <1>3, <1>5, <1>6 DEF BindingInv, ProgrammingOK, Programming, Programmed
<1>11. BoundOK'
  BY <1>1, <1>3, <1>5, <1>6 DEF BindingInv, BoundOK, Programming
<1> QED BY <1>5, <1>7, <1>8, <1>9, <1>10, <1>11 DEF BindingInv

\* bind_channel sharing a channel keeps the invariant.
LEMMA SharedInv ==
  ASSUME BindingInv, NEW t \in Threads, BindShared(t)
  PROVE  BindingInv'
<1>1. TypeOK
  BY DEF BindingInv
<1>2. PICK s \in StreamSet, p \in Priorities :
        /\ at[t] = "bind" /\ s = job[t].stream /\ p = job[t].priority
        /\ channelOf[s] = None
  BY <1>1, BindingTypes DEF BindShared, Goto, BindingInv, JobsOK, Jobs
<1>3. PICK c \in Channels : c = LeastUsed(Equal(p)) /\ bind[c].priority = p
  <2>1. \A d \in Channels : bind[d].users \in Nat
    BY UsersCounted DEF BindingInv, UsersOK
  <2>2. Equal(p) \in SUBSET Channels /\ Equal(p) # {}
    BY <1>2 DEF Equal, BindShared
  <2>3. LeastUsed(Equal(p)) \in Equal(p)
    BY <2>1, <2>2, ChosenChannel
  <2> QED BY <2>3 DEF Equal
<1>4. /\ bind' = [bind EXCEPT ![c].users = @ + 1]
      /\ channelOf' = [channelOf EXCEPT ![s] = c]
      /\ streamPrio' = [streamPrio EXCEPT ![s] = p]
      /\ at' = [at EXCEPT ![t] = "idle"] /\ job' = [job EXCEPT ![t] = NoJob]
      /\ UNCHANGED <<runlistVars, bindMu>> /\ bindMu = NoOne
  BY <1>2, <1>3 DEF BindShared, Goto
<1>5. TypeOK' /\ MixedOK' /\ UNCHANGED <<priority, setting>>
  <2>1. /\ bind' \in [Channels -> [priority : Priorities, users : Int]]
        /\ channelOf' \in [StreamSet -> Channels \cup {None}]
        /\ streamPrio' \in [StreamSet -> Priorities]
        /\ at' \in [Threads -> {"idle", "bind", "raise", "refused", "unbind", "lower"}]
        /\ job' \in [Threads -> Jobs]
    BY <1>1, <1>2, <1>3, <1>4, BindingTypes, NoJobType, SMTT(30)
  <2> QED BY <1>1, <1>4, <2>1, BindingTypes, CallFrame
<1>6. /\ at'[t] = "idle" /\ \A u \in Threads \ {t} : UNCHANGED <<at[u], job[u]>>
      /\ channelOf'[s] = c /\ streamPrio'[s] = p
      /\ \A r \in StreamSet \ {s} : UNCHANGED <<channelOf[r], streamPrio[r]>>
      /\ bind'[c].users = bind[c].users + 1
      /\ \A d \in Channels : bind'[d].priority = bind[d].priority
      /\ \A d \in Channels \ {c} : bind'[d] = bind[d]
  BY <1>1, <1>2, <1>3, <1>4, BindingTypes
<1>7. \A u \in Threads : ~Programming(u) /\ ~Programming(u)' /\ setting[u].step = "none"
  BY <1>2, <1>4, <1>6, OneProgrammer DEF Programming
<1>8. LockOK'
  BY <1>4, <1>5, <1>7, BindingAssumption DEF LockOK
<1>9. JobsOK'
  BY <1>2, <1>6, <1>7 DEF BindingInv, JobsOK
<1>10. UsersOK'
  <2>1. \A d \in Channels \ {c} : On(d)' = On(d) /\ Leaving(d)' = Leaving(d)
    BY <1>1, <1>2, <1>6, BindingTypes, SMTT(30) DEF On, Leaving
  <2>2. s \notin On(c) /\ On(c)' = On(c) \cup {s} /\ Leaving(c)' = Leaving(c)
    BY <1>1, <1>2, <1>3, <1>6, BindingTypes DEF On, Leaving
  <2>3. Users(c)' = Users(c) + 1
    BY <1>2, <1>3, <2>2, UserComes
  <2>4. \A d \in Channels \ {c} : Users(d)' = Users(d)
    BY <2>1, UsersChange
  <2> QED BY <1>6, <2>3, <2>4 DEF BindingInv, UsersOK
<1>11. ProgrammingOK'
  BY <1>7 DEF ProgrammingOK
<1>12. BoundOK'
  <2>1. \A d \in Channels, e \in Engines : priority'[e][d] = bind'[d].priority
    BY <1>5, <1>6, <1>7 DEF BindingInv, BoundOK
  <2>2. \A r \in StreamSet :
          channelOf'[r] # None => streamPrio'[r] = bind'[channelOf'[r]].priority
    <3> SUFFICES ASSUME NEW r \in StreamSet, channelOf'[r] # None
                 PROVE  streamPrio'[r] = bind'[channelOf'[r]].priority
      OBVIOUS
    <3>1. CASE r = s
      BY <1>3, <1>6, <3>1
    <3>2. CASE r # s
      <4>1. channelOf[r] \in Channels
        BY <1>1, <1>6, <3>2, BindingTypes
      <4> QED BY <1>6, <3>2, <4>1 DEF BindingInv, BoundOK
    <3> QED BY <3>1, <3>2
  <2> QED BY <2>1, <2>2 DEF BoundOK
<1> QED BY <1>5, <1>8, <1>9, <1>10, <1>11, <1>12 DEF BindingInv

\* So does taking a free channel, a refusal, and returning from it.
LEMMA FreeInv ==
  ASSUME BindingInv, NEW t \in Threads, BindFree(t) \/ Refuse(t) \/ Refused(t)
  PROVE  BindingInv'
<1>1. TypeOK
  BY DEF BindingInv
<1>2. UNCHANGED <<runlistVars, bind, channelOf, streamPrio>>
  BY DEF BindFree, Refuse, Refused, bindingVars
<1>3. \A c \in Channels : On(c)' = On(c) /\ Leaving(c)' = Leaving(c)
  BY <1>1, <1>2, BindingTypes DEF On, Leaving, BindFree, Refuse, Refused, Goto
<1>4. UsersOK'
  BY <1>2, <1>3, UsersChange DEF BindingInv, UsersOK
<1>5. CASE BindFree(t)
  <2> DEFINE c == First(Free)
  <2>1. c \in Channels /\ bind[c].users = 0
    <3>1. \A d \in Channels : bind[d].users \in Nat
      BY UsersCounted DEF BindingInv, UsersOK
    <3>2. Free \in SUBSET Channels /\ Free # {}
      BY <1>5 DEF Free, BindFree
    <3>3. c \in Free
      BY <3>1, <3>2, ChosenChannel
    <3> QED BY <3>3 DEF Free
  <2>2. /\ at' = [at EXCEPT ![t] = "raise"] /\ at[t] = "bind"
        /\ job' = [job EXCEPT ![t].channel = c] /\ bindMu' = t /\ bindMu = NoOne
    BY <1>5 DEF BindFree, Goto, Lock
  <2> HIDE DEF c
  <2>3. /\ at'[t] = "raise" /\ \A u \in Threads \ {t} : UNCHANGED <<at[u], job[u]>>
        /\ job'[t] \in Jobs /\ job'[t].channel = c
        /\ job'[t].stream = job[t].stream /\ job'[t].engine = job[t].engine
    BY <1>1, <2>1, <2>2, BindingTypes, ZenonT(60) DEF Jobs
  <2>4. TypeOK' /\ MixedOK' /\ UNCHANGED <<priority, setting>>
    <3>1. at' \in [Threads -> {"idle", "bind", "raise", "refused", "unbind", "lower"}]
          /\ job' \in [Threads -> Jobs]
      BY <1>1, <2>2, <2>3, BindingTypes
    <3> QED BY <1>1, <1>2, <2>2, <3>1, BindingTypes, CallFrame
  <2>5. \A u \in Threads : ~Programming(u) /\ setting[u].step = "none"
    BY <2>2, OneProgrammer
  <2>6. LockOK'
    BY <2>2, <2>3, <2>4, <2>5 DEF LockOK, Programming
  <2>7. JobsOK'
    BY <1>2, <2>1, <2>2, <2>3 DEF BindingInv, JobsOK, Programming
  <2>8. job[t].engine = 0
    BY <2>2, <2>5 DEF BindingInv, JobsOK
  <2>9. ProgrammingOK'
    <3>1. \A u \in Threads \ {t} : ~Programming(u)'
      BY <2>3, <2>5 DEF Programming
    <3>2. \A e \in Engines : ~Programmed(t, e)'
      BY <2>3, <2>4, <2>5, <2>8, RunlistAssumption DEF Programmed, Engines
    <3> QED BY <1>2, <2>1, <2>3, <3>1, <3>2 DEF ProgrammingOK
  <2>10. BoundOK'
    BY <1>2, <2>4, <2>5 DEF BindingInv, BoundOK
  <2> QED BY <1>4, <2>4, <2>6, <2>7, <2>9, <2>10 DEF BindingInv
<1>6. CASE Refuse(t) \/ Refused(t)
  <2>1. /\ at'[t] \in {"idle", "refused"} /\ at[t] \in {"bind", "refused"}
        /\ at'[t] # "idle" => job'[t] = job[t]
        /\ \A u \in Threads \ {t} : UNCHANGED <<at[u], job[u]>>
        /\ bindMu' = bindMu
    BY <1>1, <1>6, BindingTypes DEF Refuse, Refused, Goto, bindingVars
  <2>2. TypeOK' /\ MixedOK' /\ UNCHANGED <<priority, setting>>
    <3>1. at' \in [Threads -> {"idle", "bind", "raise", "refused", "unbind", "lower"}]
          /\ job' \in [Threads -> Jobs]
      <4>1. CASE Refuse(t)
        BY <1>1, <4>1, BindingTypes DEF Refuse, Goto
      <4>2. CASE Refused(t)
        BY <1>1, <4>2, BindingTypes, NoJobType DEF Refused, Goto
      <4> QED BY <1>6, <4>1, <4>2
    <3> QED BY <1>1, <1>2, <2>1, <3>1, BindingTypes, CallFrame
  <2>3. \A u \in Threads : Programming(u)' = Programming(u)
    BY <2>1 DEF Programming
  <2>4. LockOK'
    BY <2>1, <2>2, <2>3 DEF BindingInv, LockOK, Programming
  <2>5. JobsOK'
    BY <1>2, <2>1, <2>3 DEF BindingInv, JobsOK
  <2>6. ProgrammingOK' /\ BoundOK'
    BY <1>2, <2>1, <2>2, <2>3
       DEF BindingInv, ProgrammingOK, BoundOK, Programmed, Programming
  <2> QED BY <1>4, <2>2, <2>4, <2>5, <2>6 DEF BindingInv
<1> QED BY <1>5, <1>6

\* The end of a raise keeps the invariant: every engine has the priority.
LEMMA RaisedInv ==
  ASSUME BindingInv, NEW t \in Threads, Raised(t)
  PROVE  BindingInv'
<1>1. TypeOK
  BY DEF BindingInv
<1>2. PICK s \in StreamSet, p \in Priorities, c \in Channels :
        /\ at[t] = "raise" /\ s = job[t].stream /\ p = job[t].priority
        /\ c = job[t].channel /\ channelOf[s] = None
  BY <1>1, BindingTypes DEF Raised, Goto, BindingInv, JobsOK, Jobs
<1>3. /\ bind' = [bind EXCEPT ![c] = [priority |-> p, users |-> bind[c].users + 1]]
      /\ channelOf' = [channelOf EXCEPT ![s] = c]
      /\ streamPrio' = [streamPrio EXCEPT ![s] = p]
      /\ at' = [at EXCEPT ![t] = "idle"] /\ job' = [job EXCEPT ![t] = NoJob]
      /\ UNCHANGED runlistVars
  BY <1>2 DEF Raised, Goto
<1>4. /\ bindMu = t /\ bindMu' = NoOne
      /\ bind[c].users = 0 /\ \A e \in Engines : priority[e][c] = p
  <2>1. bindMu = t
    BY <1>2 DEF BindingInv, LockOK, Programming
  <2>2. \A e \in Engines : Programmed(t, e)
    BY RunlistAssumption DEF Raised, AllSet, Programmed, Engines
  <2> QED BY <1>2, <2>1, <2>2
          DEF Raised, Unlock, BindingInv, ProgrammingOK, Programming
<1>5. TypeOK' /\ MixedOK' /\ UNCHANGED <<priority, setting>>
  <2>1. /\ bind' \in [Channels -> [priority : Priorities, users : Int]]
        /\ channelOf' \in [StreamSet -> Channels \cup {None}]
        /\ streamPrio' \in [StreamSet -> Priorities]
        /\ at' \in [Threads -> {"idle", "bind", "raise", "refused", "unbind", "lower"}]
        /\ job' \in [Threads -> Jobs]
    BY <1>1, <1>2, <1>3, <1>4, BindingTypes, NoJobType
  <2> QED BY <1>1, <1>3, <1>4, <2>1, BindingTypes, CallFrame
<1>6. /\ at'[t] = "idle" /\ \A u \in Threads \ {t} : UNCHANGED <<at[u], job[u]>>
      /\ channelOf'[s] = c /\ streamPrio'[s] = p
      /\ \A r \in StreamSet \ {s} : UNCHANGED <<channelOf[r], streamPrio[r]>>
      /\ bind'[c].users = bind[c].users + 1 /\ bind'[c].priority = p
      /\ \A d \in Channels \ {c} : bind'[d] = bind[d]
  BY <1>1, <1>2, <1>3, BindingTypes
<1>7. \A u \in Threads : ~Programming(u)' /\ setting'[u].step = "none"
  <2>1. \A u \in Threads \ {t} : ~Programming(u) /\ setting[u].step = "none"
    BY <1>4, OneProgrammer
  <2>2. setting[t].step = "none"
    BY DEF Raised, AllSet
  <2> QED BY <1>5, <1>6, <2>1, <2>2 DEF Programming
<1>8. LockOK'
  BY <1>4, <1>7, BindingAssumption DEF LockOK
<1>9. JobsOK'
  BY <1>2, <1>6, <1>7 DEF BindingInv, JobsOK, Programming
<1>10. UsersOK' /\ On(c) = {}
  <2>1. \A d \in Channels \ {c} : On(d)' = On(d) /\ Leaving(d)' = Leaving(d)
    BY <1>1, <1>2, <1>6, BindingTypes DEF On, Leaving
  <2>2. s \notin On(c) /\ On(c)' = On(c) \cup {s} /\ Leaving(c)' = Leaving(c)
    BY <1>1, <1>2, <1>6, BindingTypes DEF On, Leaving
  <2>3. Users(c)' = Users(c) + 1
    BY <2>2, UserComes
  <2>4. \A d \in Channels \ {c} : Users(d)' = Users(d)
    BY <2>1, UsersChange
  <2>5. On(c) = {}
    BY <1>4, UsersCounted DEF BindingInv, UsersOK
  <2> QED BY <1>6, <2>3, <2>4, <2>5 DEF BindingInv, UsersOK
<1>11. ProgrammingOK'
  BY <1>7 DEF ProgrammingOK
<1>12. BoundOK'
  <2>1. \A d \in Channels, e \in Engines : priority'[e][d] = bind'[d].priority
    <3>1. \A d \in Channels \ {c}, e \in Engines : priority[e][d] = bind[d].priority
      BY <1>2, <1>4, OneProgrammer DEF BindingInv, BoundOK
    <3> QED BY <1>4, <1>5, <1>6, <3>1
  <2>2. \A r \in StreamSet :
          channelOf'[r] # None => streamPrio'[r] = bind'[channelOf'[r]].priority
    <3> SUFFICES ASSUME NEW r \in StreamSet, channelOf'[r] # None
                 PROVE  streamPrio'[r] = bind'[channelOf'[r]].priority
      OBVIOUS
    <3>1. CASE r = s
      BY <1>6, <3>1
    <3>2. CASE r # s
      <4>1. channelOf[r] \in Channels \ {c}
        BY <1>1, <1>6, <1>10, <3>2, BindingTypes DEF On
      <4> QED BY <1>6, <3>2, <4>1 DEF BindingInv, BoundOK
    <3> QED BY <3>1, <3>2
  <2> QED BY <2>1, <2>2 DEF BoundOK
<1> QED BY <1>5, <1>8, <1>9, <1>10, <1>11, <1>12 DEF BindingInv

\* sgStreamDestroy's first step: the stream is one that leaves its channel.
LEMMA DestroyInv ==
  ASSUME BindingInv, NEW t \in Threads, NEW s \in StreamSet, Destroy(t, s)
  PROVE  BindingInv'
<1>1. TypeOK
  BY DEF BindingInv
<1>2. PICK c \in Channels : channelOf[s] = c
  BY <1>1, BindingTypes DEF Destroy
<1>3. /\ channelOf' = [channelOf EXCEPT ![s] = None]
      /\ streamPrio' = [streamPrio EXCEPT ![s] = Least]
      /\ at' = [at EXCEPT ![t] = "unbind"] /\ at[t] = "idle"
      /\ job' = [job EXCEPT ![t] = [NoJob EXCEPT !.stream = s, !.channel = c]]
      /\ UNCHANGED <<runlistVars, bindMu, bind>>
  BY <1>2 DEF Destroy, Goto
<1>4. /\ at'[t] = "unbind" /\ \A u \in Threads \ {t} : UNCHANGED <<at[u], job[u]>>
      /\ job'[t] = [stream |-> s, channel |-> c, priority |-> Least, engine |-> 0]
      /\ channelOf'[s] = None
      /\ \A r \in StreamSet \ {s} : UNCHANGED <<channelOf[r], streamPrio[r]>>
  BY <1>1, <1>3, BindingTypes DEF NoJob
<1>5. TypeOK' /\ MixedOK' /\ UNCHANGED <<priority, setting>>
  <2>0. job'[t] \in Jobs
    BY <1>4, NoJobType, RunlistAssumption DEF Jobs
  <2>1. /\ channelOf' \in [StreamSet -> Channels \cup {None}]
        /\ streamPrio' \in [StreamSet -> Priorities]
        /\ at' \in [Threads -> {"idle", "bind", "raise", "refused", "unbind", "lower"}]
        /\ job' \in [Threads -> Jobs]
    BY <1>1, <1>3, <2>0, BindingTypes, NoJobType
  <2> QED BY <1>1, <1>3, <2>1, BindingTypes, CallFrame
<1>6. \A u \in Threads : Programming(u)' = Programming(u)
  BY <1>3, <1>4 DEF Programming
<1>7. LockOK'
  BY <1>3, <1>4, <1>5, <1>6 DEF BindingInv, LockOK, Programming
<1>8. JobsOK'
  <2>1. \A u \in Threads \ {t} : at[u] # "idle" => job[u].stream # s
    BY <1>1, <1>2, BindingTypes DEF BindingInv, JobsOK
  <2>2. \A u \in Threads \ {t} : at[u] # "idle" =>
          /\ job[u].stream \in StreamSet /\ channelOf'[job[u].stream] = None
    BY <1>4, <2>1 DEF BindingInv, JobsOK
  <2> QED BY <1>4, <2>1, <2>2 DEF BindingInv, JobsOK, Programming
<1>9. UsersOK'
  <2>1. \A d \in Channels \ {c} : On(d)' = On(d) /\ Leaving(d)' = Leaving(d)
    BY <1>1, <1>2, <1>3, <1>4, BindingTypes DEF On, Leaving
  <2>2. s \in On(c) /\ On(c)' = On(c) \ {s}
    BY <1>1, <1>2, <1>4, BindingTypes DEF On
  <2>3. t \notin Leaving(c) /\ Leaving(c)' = Leaving(c) \cup {t}
    BY <1>3, <1>4 DEF Leaving
  <2>4. Users(c)' = Users(c)
    BY <2>2, <2>3, UserGoes
  <2>5. \A d \in Channels \ {c} : Users(d)' = Users(d)
    BY <2>1, UsersChange
  <2> QED BY <1>3, <2>4, <2>5 DEF BindingInv, UsersOK
<1>10. ProgrammingOK'
  BY <1>3, <1>4, <1>5, <1>6 DEF BindingInv, ProgrammingOK, Programming, Programmed
<1>11. BoundOK'
  BY <1>3, <1>4, <1>5, <1>6 DEF BindingInv, BoundOK, Programming
<1> QED BY <1>5, <1>7, <1>8, <1>9, <1>10, <1>11 DEF BindingInv

\* unbind_channel under the lock: one user fewer, and if it was the last one
\* of a raised channel, nobody uses the channel while it is lowered.
LEMMA UnbindInv ==
  ASSUME BindingInv, NEW t \in Threads, Unbind(t)
  PROVE  BindingInv'
<1>1. TypeOK
  BY DEF BindingInv
<1>2. PICK c \in Channels :
        /\ at[t] = "unbind" /\ c = job[t].channel /\ job[t].stream \in StreamSet
        /\ job[t].priority = Least /\ job[t].engine = 0
  BY DEF Unbind, BindingInv, JobsOK, Programming
<1>3. /\ bind' = [bind EXCEPT ![c].users = @ - 1] /\ bindMu = NoOne
      /\ UNCHANGED <<runlistVars, channelOf, streamPrio>>
  BY <1>2 DEF Unbind, Leave, Lock
<1>4. \/ /\ at' = [at EXCEPT ![t] = "lower"] /\ UNCHANGED job /\ bindMu' = t
         /\ bind[c].users = 1
      \/ /\ at' = [at EXCEPT ![t] = "idle"] /\ job' = [job EXCEPT ![t] = NoJob]
         /\ bindMu' = NoOne
  BY <1>2, <1>3 DEF Unbind, LastUser, Lock
<1>5. /\ bind'[c].users = bind[c].users - 1
      /\ \A d \in Channels : bind'[d].priority = bind[d].priority
      /\ \A d \in Channels \ {c} : bind'[d] = bind[d]
      /\ \A u \in Threads \ {t} : UNCHANGED <<at[u], job[u]>>
      /\ \/ at'[t] = "lower" /\ job'[t] = job[t] /\ bindMu' = t /\ bind'[c].users = 0
         \/ at'[t] = "idle" /\ bindMu' = NoOne
  BY <1>1, <1>2, <1>3, <1>4, BindingTypes
<1>6. TypeOK' /\ MixedOK' /\ UNCHANGED <<priority, setting>>
  <2>1. bind' \in [Channels -> [priority : Priorities, users : Int]]
    <3>1. bind[c] \in [priority : Priorities, users : Int]
      BY <1>1, BindingTypes
    <3>2. [bind[c] EXCEPT !.users = @ - 1] \in [priority : Priorities, users : Int]
      BY <3>1
    <3> QED BY <1>1, <1>3, <3>2, BindingTypes
  <2>2. at' \in [Threads -> {"idle", "bind", "raise", "refused", "unbind", "lower"}]
    BY <1>1, <1>4, BindingTypes
  <2>3. job' \in [Threads -> Jobs] /\ bindMu' \in Threads \cup {NoOne}
    BY <1>1, <1>4, BindingTypes, NoJobType
  <2> QED BY <1>1, <1>3, <2>1, <2>2, <2>3, BindingTypes, CallFrame
<1>7. \A u \in Threads : ~Programming(u) /\ setting[u].step = "none"
  BY <1>3, OneProgrammer
<1>8. LockOK'
  BY <1>5, <1>6, <1>7, BindingAssumption DEF LockOK, Programming
<1>9. JobsOK'
  BY <1>2, <1>3, <1>5, <1>7 DEF BindingInv, JobsOK, Programming
<1>10. UsersOK'
  <2>1. \A d \in Channels : On(d)' = On(d)
    BY <1>3 DEF On
  <2>2. \A d \in Channels \ {c} : Leaving(d)' = Leaving(d)
    BY <1>2, <1>5 DEF Leaving
  <2>3. t \in Leaving(c) /\ Leaving(c)' = Leaving(c) \ {t}
    BY <1>2, <1>5 DEF Leaving
  <2>4. Users(c)' = Users(c) - 1
    BY <2>1, <2>3, UserGone
  <2>5. \A d \in Channels \ {c} : Users(d)' = Users(d)
    BY <2>1, <2>2, UsersChange
  <2> QED BY <1>5, <2>4, <2>5 DEF BindingInv, UsersOK
<1>11. ProgrammingOK'
  <2>1. \A u \in Threads \ {t} : ~Programming(u)'
    BY <1>5, <1>7 DEF Programming
  <2>2. CASE at'[t] = "lower"
    <3>1. \A e \in Engines : ~Programmed(t, e)'
      BY <1>2, <1>5, <1>6, <1>7, <2>2, RunlistAssumption DEF Programmed, Engines
    <3> QED BY <1>2, <1>5, <2>1, <2>2, <3>1 DEF ProgrammingOK
  <2>3. CASE at'[t] = "idle"
    BY <2>1, <2>3 DEF ProgrammingOK, Programming
  <2> QED BY <1>5, <2>2, <2>3
<1>12. BoundOK'
  <2>1. \A d \in Channels, e \in Engines : priority[e][d] = bind[d].priority
    BY <1>7 DEF BindingInv, BoundOK
  <2>2. \A r \in StreamSet :
          channelOf[r] # None => streamPrio[r] = bind'[channelOf[r]].priority
    BY <1>1, <1>5, BindingTypes DEF BindingInv, BoundOK
  <2> QED BY <1>3, <1>5, <1>6, <2>1, <2>2 DEF BoundOK
<1> QED BY <1>6, <1>8, <1>9, <1>10, <1>11, <1>12 DEF BindingInv

\* The end of a reset: the channel is free at the least priority.
LEMMA LoweredInv ==
  ASSUME BindingInv, NEW t \in Threads, Lowered(t)
  PROVE  BindingInv'
<1>1. TypeOK
  BY DEF BindingInv
<1>2. PICK c \in Channels :
        /\ at[t] = "lower" /\ c = job[t].channel /\ job[t].priority = Least
  BY DEF Lowered, Goto, BindingInv, JobsOK
<1>3. /\ bind' = [bind EXCEPT ![c].priority = Least]
      /\ at' = [at EXCEPT ![t] = "idle"] /\ job' = [job EXCEPT ![t] = NoJob]
      /\ UNCHANGED <<runlistVars, channelOf, streamPrio>>
  BY <1>2 DEF Lowered, Goto
<1>4. /\ bindMu = t /\ bindMu' = NoOne
      /\ bind[c].users = 0 /\ \A e \in Engines : priority[e][c] = Least
  <2>1. bindMu = t
    BY <1>2 DEF BindingInv, LockOK, Programming
  <2>2. \A e \in Engines : Programmed(t, e)
    BY RunlistAssumption DEF Lowered, AllSet, Programmed, Engines
  <2> QED BY <1>2, <2>1, <2>2
          DEF Lowered, Unlock, BindingInv, ProgrammingOK, Programming
<1>5. TypeOK' /\ MixedOK' /\ UNCHANGED <<priority, setting>>
  <2>1. /\ bind' \in [Channels -> [priority : Priorities, users : Int]]
        /\ at' \in [Threads -> {"idle", "bind", "raise", "refused", "unbind", "lower"}]
        /\ job' \in [Threads -> Jobs]
    BY <1>1, <1>2, <1>3, BindingTypes, NoJobType
  <2> QED BY <1>1, <1>3, <1>4, <2>1, BindingTypes, CallFrame
<1>6. /\ at'[t] = "idle" /\ \A u \in Threads \ {t} : UNCHANGED <<at[u], job[u]>>
      /\ \A d \in Channels : bind'[d].users = bind[d].users
      /\ bind'[c].priority = Least
      /\ \A d \in Channels \ {c} : bind'[d] = bind[d]
  BY <1>1, <1>2, <1>3, BindingTypes
<1>7. \A u \in Threads : ~Programming(u)' /\ setting'[u].step = "none"
  <2>1. \A u \in Threads \ {t} : ~Programming(u) /\ setting[u].step = "none"
    BY <1>4, OneProgrammer
  <2>2. setting[t].step = "none"
    BY DEF Lowered, AllSet
  <2> QED BY <1>5, <1>6, <2>1, <2>2 DEF Programming
<1>8. LockOK'
  BY <1>4, <1>7, BindingAssumption DEF LockOK
<1>9. JobsOK'
  BY <1>3, <1>6, <1>7 DEF BindingInv, JobsOK, Programming
<1>10. UsersOK' /\ On(c) = {}
  <2>1. \A d \in Channels : On(d)' = On(d) /\ Leaving(d)' = Leaving(d)
    BY <1>2, <1>3, <1>6 DEF On, Leaving
  <2>2. On(c) = {}
    BY <1>4, UsersCounted DEF BindingInv, UsersOK
  <2> QED BY <1>6, <2>1, <2>2, UsersChange DEF BindingInv, UsersOK
<1>11. ProgrammingOK'
  BY <1>7 DEF ProgrammingOK
<1>12. BoundOK'
  <2>1. \A d \in Channels \ {c}, e \in Engines : priority[e][d] = bind[d].priority
    BY <1>2, <1>4, OneProgrammer DEF BindingInv, BoundOK
  <2>2. \A d \in Channels, e \in Engines : priority'[e][d] = bind'[d].priority
    BY <1>4, <1>5, <1>6, <2>1
  <2>3. \A r \in StreamSet : channelOf[r] # None => channelOf[r] \in Channels \ {c}
    BY <1>1, <1>10, BindingTypes DEF On
  <2> QED BY <1>3, <1>6, <2>2, <2>3 DEF BindingInv, BoundOK
<1> QED BY <1>5, <1>8, <1>9, <1>10, <1>11, <1>12 DEF BindingInv

\* set_channel_priority, step by step: the caller holds the lock, so its scan
\* of the priorities is still true when it is stored.
LEMMA SetInv ==
  ASSUME BindingInv, NEW t \in Threads, SetNext(t) \/ SetRescan(t) \/ SetDone(t)
  PROVE  BindingInv'
<1>1. TypeOK
  BY DEF BindingInv
<1>2. /\ Programming(t) /\ bindMu = t /\ job[t].engine < NumEngines
      /\ job[t].channel \in Channels /\ job[t].engine \in Engines
      /\ job[t].priority \in Priorities /\ job[t] \in Jobs
  <2>1. Programming(t) /\ bindMu = t /\ job[t].engine < NumEngines
    BY DEF SetNext, SetRescan, SetDone, RescanPriorities, StoreMixed, BindingInv,
           LockOK, Programming
  <2>2. job[t].channel \in Channels
    BY <2>1 DEF BindingInv, JobsOK, Programming
  <2>3. job[t].engine \in Engines /\ job[t].priority \in Priorities /\ job[t] \in Jobs
    BY <1>1, <2>1, BindingTypes, RunlistAssumption DEF Jobs, Engines
  <2> QED BY <2>1, <2>2, <2>3
<1>3. /\ UNCHANGED <<bindingVars, at, channelVars, engineVars, timeslice>>
      /\ \A u \in Threads \ {t} : UNCHANGED <<job[u], setting[u]>>
      /\ \A u \in Threads \ {t} : ~Programming(u) /\ setting[u].step = "none"
  <2>1. \A u \in Threads \ {t} : ~Programming(u) /\ setting[u].step = "none"
    BY <1>2, OneProgrammer
  <2>2. CASE SetNext(t)
    BY <1>1, <2>1, <2>2, BindingTypes DEF SetNext, SetPriority
  <2>3. CASE SetRescan(t)
    BY <1>1, <2>1, <2>3, BindingTypes DEF SetRescan, RescanPriorities
  <2>4. CASE SetDone(t)
    BY <1>1, <2>1, <2>4, BindingTypes DEF SetDone, StoreMixed
  <2> QED BY <2>2, <2>3, <2>4
<1>4. /\ UNCHANGED <<bindMu, bind, channelOf, streamPrio, at>>
      /\ \A u \in Threads : Programming(u)' <=> Programming(u)
      /\ job'[t].channel = job[t].channel /\ job'[t].stream = job[t].stream
      /\ job'[t].priority = job[t].priority
  BY <1>1, <1>2, <1>3, BindingTypes
     DEF bindingVars, Programming, SetNext, SetRescan, SetDone, Jobs
<1>5. JobsOK'
  BY <1>2, <1>3, <1>4 DEF BindingInv, JobsOK, Programming
<1>6. UsersOK'
  <2>1. \A c \in Channels : On(c)' = On(c) /\ Leaving(c)' = Leaving(c)
    BY <1>2, <1>3, <1>4 DEF On, Leaving, Programming
  <2> QED BY <1>4, <2>1, UsersChange DEF BindingInv, UsersOK
<1>7. CASE SetNext(t)
  <2>1. /\ priority' = [priority EXCEPT ![job[t].engine][job[t].channel] =
                                          job[t].priority]
        /\ setting' = [setting EXCEPT ![t].step = "stored"]
        /\ overtaken' = [d \in Channels |-> 0]
        /\ UNCHANGED <<mixed, job>>
    BY <1>7 DEF SetNext, SetPriority
  <2>2. /\ priority' \in [Engines -> [Channels -> Priorities]]
        /\ setting' \in [Threads -> [step : {"none", "stored", "scanned"},
                                     mixed : BOOLEAN]]
        /\ setting'[t].step = "stored"
    BY <1>1, <1>2, <2>1, BindingTypes
  <2>3. /\ priority'[job[t].engine][job[t].channel] = job[t].priority
        /\ \A e \in Engines, c \in Channels :
             e # job[t].engine \/ c # job[t].channel =>
               priority'[e][c] = priority[e][c]
    BY <1>1, <1>2, <2>1, BindingTypes
  <2>4. TypeOK'
    <3>1. RunlistTypeOK'
      BY <1>1, <1>3, <2>1, <2>2
         DEF TypeOK, RunlistTypeOK, channelVars, engineVars
    <3> QED BY <1>1, <1>3, <1>4, <2>1, <2>2, <3>1
            DEF TypeOK, channelVars, engineVars
  <2>5. LockOK'
    BY <1>2, <1>3, <1>4, <2>1 DEF BindingInv, LockOK
  <2>6. ProgrammingOK'
    <3>1. \A e \in Engines :
            Programmed(t, e)' => priority'[e][job[t].channel] = job[t].priority
      BY <1>2, <2>1, <2>3 DEF BindingInv, ProgrammingOK, Programmed
    <3> QED BY <1>2, <1>3, <1>4, <2>1, <3>1 DEF BindingInv, ProgrammingOK
  <2>7. BoundOK'
    BY <1>2, <1>4, <2>1, <2>3 DEF BindingInv, BoundOK
  <2>8. MixedOK'
    BY <1>3, <2>2 DEF MixedOK, MixedAgrees, Settled
  <2> QED BY <1>5, <1>6, <2>4, <2>5, <2>6, <2>7, <2>8 DEF BindingInv
<1>8. CASE SetRescan(t)
  <2>1. /\ setting[t].step = "stored"
        /\ setting' = [setting EXCEPT ![t] = [step |-> "scanned", mixed |-> AnyRaised]]
        /\ UNCHANGED <<priority, mixed, overtaken, job>>
    BY <1>8 DEF SetRescan, RescanPriorities
  <2>2. AnyRaised \in BOOLEAN /\ (AnyRaised' <=> AnyRaised)
    BY <2>1 DEF AnyRaised
  <2>3. setting'[t].step = "scanned" /\ (setting'[t].mixed <=> AnyRaised)
    BY <1>1, <2>1, BindingTypes
  <2>4. TypeOK'
    <3>1. RunlistTypeOK'
      BY <1>1, <1>3, <2>1 DEF TypeOK, RunlistTypeOK, channelVars, engineVars
    <3>2. setting' \in [Threads -> [step : {"none", "stored", "scanned"},
                                    mixed : BOOLEAN]]
      BY <1>1, <2>1, <2>2, BindingTypes
    <3> QED BY <1>1, <1>3, <1>4, <2>1, <3>1, <3>2
            DEF TypeOK, channelVars, engineVars
  <2>5. LockOK'
    BY <1>2, <1>3, <1>4, <2>1 DEF BindingInv, LockOK
  <2>6. ProgrammingOK'
    <3>1. \A e \in Engines : Programmed(t, e)' => Programmed(t, e)
      BY <2>1 DEF Programmed
    <3> QED BY <1>2, <1>3, <1>4, <2>1, <3>1 DEF BindingInv, ProgrammingOK
  <2>7. BoundOK'
    BY <1>4, <2>1 DEF BindingInv, BoundOK
  <2>8. MixedOK'
    BY <1>3, <2>2, <2>3 DEF MixedOK, MixedAgrees, Settled
  <2> QED BY <1>5, <1>6, <2>4, <2>5, <2>6, <2>7, <2>8 DEF BindingInv
<1>9. CASE SetDone(t)
  <2>1. /\ setting[t].step = "scanned" /\ mixed' = setting[t].mixed
        /\ setting' = [setting EXCEPT ![t] = NoSetting]
        /\ job' = [job EXCEPT ![t].engine = @ + 1]
        /\ UNCHANGED <<priority, overtaken>>
    BY <1>9 DEF SetDone, StoreMixed
  <2>2. /\ setting'[t].step = "none" /\ job'[t].engine = job[t].engine + 1
        /\ mixed' \in BOOLEAN
        /\ setting' \in [Threads -> [step : {"none", "stored", "scanned"},
                                     mixed : BOOLEAN]]
    BY <1>1, <2>1, BindingTypes DEF NoSetting, Jobs
  <2>3. job' \in [Threads -> Jobs]
    <3>1. [job[t] EXCEPT !.engine = @ + 1] \in Jobs
      BY <1>2, RunlistAssumption DEF Jobs
    <3> QED BY <1>1, <2>1, <3>1, BindingTypes
  <2>4. TypeOK'
    <3>1. RunlistTypeOK'
      BY <1>1, <1>3, <2>1, <2>2 DEF TypeOK, RunlistTypeOK, channelVars, engineVars
    <3> QED BY <1>1, <1>3, <1>4, <2>1, <2>2, <2>3, <3>1
            DEF TypeOK, channelVars, engineVars
  <2>5. LockOK'
    BY <1>2, <1>3, <1>4, <2>2 DEF BindingInv, LockOK
  <2>6. ProgrammingOK'
    <3>1. \A e \in Engines : Programmed(t, e)' => Programmed(t, e)
      BY <1>2, <2>1, <2>2, RunlistAssumption DEF Programmed, Engines
    <3> QED BY <1>2, <1>3, <1>4, <2>1, <3>1 DEF BindingInv, ProgrammingOK
  <2>7. BoundOK'
    BY <1>3, <1>4, <2>1 DEF BindingInv, BoundOK
  <2>8. MixedOK'
    <3>1. mixed' <=> AnyRaised'
      BY <2>1 DEF BindingInv, MixedOK, AnyRaised
    <3> QED BY <1>3, <2>2, <3>1 DEF MixedOK, MixedAgrees
  <2> QED BY <1>5, <1>6, <2>4, <2>5, <2>6, <2>7, <2>8 DEF BindingInv
<1> QED BY <1>7, <1>8, <1>9

\* Nothing is bound but the default stream, and no priority is raised.
LEMMA InitBinding == ASSUME Init PROVE BindingInv
<1>0. /\ Least \in Priorities /\ None \notin Channels
      /\ 0 \in Channels /\ 0 \in 0 .. NumChannels /\ Channels \subseteq Int
  BY RunlistAssumption DEF Least, Greatest, Priorities, None, Channels
<1>1. RunlistTypeOK
  BY <1>0 DEF Init, RunlistInit, RunlistTypeOK
<1>2. /\ \A t \in Threads : at[t] = "idle" /\ setting[t].step = "none" /\ ~Programming(t)
      /\ \A s \in StreamSet : channelOf[s] = None
      /\ \A c \in Channels : /\ bind[c].users = IF c = 0 THEN 1 ELSE 0
                             /\ bind[c].priority = Least
      /\ \A e \in Engines, c \in Channels : priority[e][c] = Least
  BY DEF Init, RunlistInit, NoSetting, Programming
<1>3. TypeOK
  <2>1. /\ setting \in [Threads -> [step : {"none", "stored", "scanned"},
                                    mixed : BOOLEAN]]
        /\ failed \in [Channels -> BOOLEAN] /\ overtaken \in [Channels -> Nat]
        /\ pc \in {"scan", "visit", "run", "boundary", "higher", "equal"}
    BY DEF Init, RunlistInit, NoSetting
  <2>2. /\ bindMu \in Threads \cup {NoOne}
        /\ bind \in [Channels -> [priority : Priorities, users : Int]]
        /\ channelOf \in [StreamSet -> Channels \cup {None}]
        /\ streamPrio \in [StreamSet -> Priorities]
    BY <1>0 DEF Init
  <2>3. /\ at \in [Threads -> {"idle", "bind", "raise", "refused", "unbind", "lower"}]
        /\ job \in [Threads -> Jobs]
    BY NoJobType DEF Init
  <2> QED BY <1>1, <2>1, <2>2, <2>3 DEF TypeOK
<1>4. LockOK
  BY <1>2, BindingAssumption DEF LockOK, Init
<1>5. JobsOK /\ ProgrammingOK
  BY <1>2 DEF JobsOK, ProgrammingOK
<1>6. UsersOK
  <2>1. \A c \in Channels : On(c) = {} /\ Leaving(c) = {}
    BY <1>0, <1>2 DEF On, Leaving
  <2> QED BY <1>2, <2>1, UsersCounted, FS_EmptySet DEF UsersOK
<1>7. BoundOK
  BY <1>2 DEF BoundOK
<1>8. MixedOK
  BY <1>2 DEF MixedOK, MixedAgrees, AnyRaised, Init, RunlistInit
<1> QED BY <1>3, <1>4, <1>5, <1>6, <1>7, <1>8 DEF BindingInv

\* The invariant of g_bind and the priorities, for every number of threads,
\* streams, engines, channels and levels.
THEOREM BindingInvariant == Spec => []BindingInv
<1>1. Init => BindingInv
  BY InitBinding
<1>2. BindingInv /\ [Next]_vars => BindingInv'
  <2> SUFFICES ASSUME BindingInv, [Next]_vars PROVE BindingInv'
    OBVIOUS
  <2>1. CASE Runs
    BY <2>1, RunsInv
  <2>2. ASSUME NEW t \in Threads, NEW s \in StreamSet,
               (\E p \in Wanted : Create(t, s, p)) \/ Destroy(t, s)
        PROVE  BindingInv'
    BY <2>2, CreateInv, DestroyInv
  <2>3. ASSUME NEW t \in Threads, Thread(t) PROVE BindingInv'
    BY <2>3, SharedInv, FreeInv, SetInv, RaisedInv, UnbindInv, LoweredInv DEF Thread
  <2>4. CASE UNCHANGED vars
    <3>1. UNCHANGED <<runlistVars, bindMu, bind, channelOf, streamPrio, at, job>>
      BY <2>4 DEF vars, bindingVars
    <3>2. TypeOK /\ TypeOK' /\ MixedOK' /\ UNCHANGED <<priority, setting>>
      BY <3>1, BindingTypes, CallFrame DEF BindingInv
    <3>3. LockOK' /\ JobsOK'
      BY <3>1, <3>2 DEF BindingInv, LockOK, JobsOK, Programming
    <3>4. UsersOK'
      BY <3>1 DEF BindingInv, UsersOK, Users
    <3>5. ProgrammingOK' /\ BoundOK'
      BY <3>1, <3>2 DEF BindingInv, ProgrammingOK, BoundOK, Programming, Programmed
    <3> QED BY <3>2, <3>3, <3>4, <3>5 DEF BindingInv
  <2> QED BY <2>1, <2>2, <2>3, <2>4 DEF Next
<1> QED BY <1>1, <1>2, PTL DEF Spec

\* "Two priorities never have to share a ring": a stream runs at its own
\* priority on every engine, and g_bind counts the users of each channel.
\* (A channel with a stream has users, so nobody is programming it.)
THEOREM PrioritiesUnmixed == Spec => []RingsUnmixed
<1>1. BindingInv => RingsUnmixed
  <2> SUFFICES ASSUME BindingInv PROVE RingsUnmixed
    OBVIOUS
  <2>1. TypeOK
    BY DEF BindingInv
  <2>2. ASSUME NEW s \in StreamSet, channelOf[s] # None
        PROVE  \A e \in Engines : priority[e][channelOf[s]] = streamPrio[s]
    <3>1. channelOf[s] \in Channels
      BY <2>1, <2>2, BindingTypes
    <3>2. bind[channelOf[s]].users # 0
      BY <2>2, <3>1, UsersCounted DEF BindingInv, UsersOK, On
    <3> QED BY <2>2, <3>1, <3>2 DEF BindingInv, ProgrammingOK, BoundOK
  <2> QED BY <2>1, <2>2 DEF RingsUnmixed, TypeOK, BindingInv, UsersOK
<1> QED BY <1>1, BindingInvariant, PTL

\* mixed_priority_ tells the engines the truth whenever no SET_PRIORITY is
\* under way: g_bind_mu keeps two scans from crossing.
THEOREM MixedPriorityTrue == Spec => []MixedAgrees
<1>1. BindingInv => MixedAgrees
  BY DEF BindingInv, MixedOK
<1> QED BY <1>1, BindingInvariant, PTL

\* sgStreamCreateWithPriority is refused only when every channel is in use,
\* and none by a stream of the priority that is asked for.
THEOREM RefusalJustified == Spec => RefusedOnlyWhenTaken
<1> DEFINE Justified(t) ==
      at[t] = "bind" /\ at'[t] = "refused" =>
        \A c \in Channels :
          /\ Users(c) > 0
          /\ \A s \in StreamSet : channelOf[s] = c => streamPrio[s] # job[t].priority
<1>1. BindingInv /\ [Next]_vars => [\A t \in Threads : Justified(t)]_vars
  <2> SUFFICES ASSUME BindingInv, Next, NEW t \in Threads,
                      at[t] = "bind", at'[t] = "refused"
               PROVE  Justified(t)
    OBVIOUS
  <2>1. TypeOK
    BY DEF BindingInv
  <2>2. Refuse(t)
    <3>1. ~Runs
      BY DEF Runs
    <3>2. ASSUME NEW u \in Threads, NEW s \in StreamSet PROVE ~Destroy(u, s)
      BY <2>1, BindingTypes DEF Destroy, Goto
    <3>3. ASSUME NEW u \in Threads, NEW s \in StreamSet, NEW p \in Wanted
          PROVE  ~Create(u, s, p)
      BY <2>1, BindingTypes DEF Create, Goto
    <3>4. PICK u \in Threads : Thread(u)
      BY <3>1, <3>2, <3>3 DEF Next
    <3>5. ~BindShared(u) /\ ~BindFree(u) /\ ~Refused(u) /\ ~Raised(u) /\ ~Lowered(u)
      BY <2>1, BindingTypes DEF BindShared, BindFree, Refused, Raised, Lowered, Goto
    <3>6. ~SetNext(u) /\ ~SetRescan(u) /\ ~SetDone(u)
      BY DEF SetNext, SetRescan, SetDone
    <3>7. ~Unbind(u)
      BY <2>1, BindingTypes DEF Unbind
    <3>8. Refuse(u)
      BY <3>4, <3>5, <3>6, <3>7 DEF Thread
    <3>9. u = t
      BY <2>1, <3>8, BindingTypes DEF Refuse, Goto
    <3> QED BY <3>8, <3>9
  <2>3. ASSUME NEW c \in Channels PROVE Users(c) > 0
    <3>1. bind[c].users # 0
      BY <2>2 DEF Refuse, Free
    <3> QED BY <3>1, UsersCounted DEF BindingInv, UsersOK
  <2>4. ASSUME NEW c \in Channels, NEW s \in StreamSet, channelOf[s] = c
        PROVE  streamPrio[s] # job[t].priority
    <3>1. bind[c].priority # job[t].priority
      BY <2>2 DEF Refuse, Equal
    <3>2. streamPrio[s] = bind[c].priority
      BY <2>1, <2>4, BindingTypes DEF BindingInv, BoundOK
    <3> QED BY <3>1, <3>2
  <2> QED BY <2>3, <2>4
<1> QED BY <1>1, BindingInvariant, PTL DEF Spec, RefusedOnlyWhenTaken

----------------------------------------------------------------------------
(* Preemption at a command boundary                                        *)

\* A scan that has looked at NumChannels channels has looked at each.
LEMMA WrapAround ==
  ASSUME NEW n \in Nat \ {0}, NEW c \in 0 .. n - 1
  PROVE  c % n = c /\ (c + n) % n = c
<1>1. ASSUME NEW x \in Nat, NEW y \in {0, 1}, x = n * y + c PROVE x % n = c
  <2> DEFINE q == x \div n
             r == x % n
  <2>1. x = n * q + r /\ r \in 0 .. n - 1 /\ q \in Int
    OBVIOUS
  <2> HIDE DEF q, r
  <2>2. n * (q - y) = c - r
    BY <1>1, <2>1
  <2>3. CASE q - y >= 1
    <3>1. n * (q - y) >= n
      BY <2>1, <2>3
    <3> QED BY <2>1, <2>2, <3>1
  <2>4. CASE q - y <= -1
    <3>1. n * (q - y) <= -n
      BY <2>1, <2>4
    <3> QED BY <2>1, <2>2, <3>1
  <2>5. CASE q - y = 0
    BY <2>1, <2>2, <2>5 DEF r
  <2> QED BY <2>1, <2>3, <2>4, <2>5
<1> QED BY <1>1

LEMMA AllInspected ==
  ASSUME TypeOK, i = NumChannels, NEW c \in Channels
  PROVE  Inspected(c)
<1>1. rr \in 0 .. NumChannels - 1 /\ c \in 0 .. NumChannels - 1 /\ NumChannels \in Nat \ {0}
  BY RunlistAssumption DEF TypeOK, RunlistTypeOK, Channels
<1>2. c % NumChannels = c /\ (c + NumChannels) % NumChannels = c
  BY <1>1, WrapAround
<1>3. CASE rr <= c
  <2>1. c - rr \in 0 .. i - 1 /\ rr + (c - rr) = c
    BY <1>1, <1>3
  <2> QED BY <1>2, <2>1 DEF Inspected
<1>4. CASE rr > c
  <2>1. c + NumChannels - rr \in 0 .. i - 1
        /\ rr + (c + NumChannels - rr) = c + NumChannels
    BY <1>1, <1>4
  <2> QED BY <1>2, <2>1 DEF Inspected
<1> QED BY <1>1, <1>3, <1>4

\* What the scan's next step adds to the channels it has looked at.
LEMMA InspectsOne ==
  ASSUME TypeOK, rr' = rr, i' = i + 1, NEW c \in Channels
  PROVE  Inspected(c)' => Inspected(c) \/ c = (rr + i) % NumChannels
<1>1. i \in Nat
  BY RunlistAssumption DEF TypeOK, RunlistTypeOK
<1>2. \A j \in 0 .. (i + 1) - 1 : j \in 0 .. i - 1 \/ j = i
  BY <1>1
<1> QED BY <1>2 DEF Inspected

\* The types of the engine's variables.
LEMMA EngineTypes ==
  ASSUME TypeOK
  PROVE  /\ \A c \in Channels : priority[Self][c] \in Int /\ priority[Self][c] <= Least
         /\ Channels \subseteq Nat /\ i \in 0 .. NumChannels /\ prio \in Int
         /\ chosen \in Channels \cup {None}
         /\ pc # "scan" => chosen \in Channels
         /\ pc \in {"scan", "visit", "run", "boundary", "higher", "equal"}
         /\ head \in [Channels -> {"none", "ready", "blocked"}]
         /\ fault \in [Channels -> {"none", "raised", "served"}]
         /\ failed \in [Channels -> BOOLEAN] /\ overtaken \in [Channels -> Nat]
         /\ None \notin Channels
<1>1. Self \in Engines /\ Priorities \subseteq Int /\ \A p \in Priorities : p <= Least
  BY RunlistAssumption DEF Self, Engines, Priorities, Greatest, Least
<1>2. None \notin Channels /\ Channels \subseteq Nat
  BY RunlistAssumption DEF None, Channels
<1>3. priority \in [Engines -> [Channels -> Priorities]]
  BY DEF TypeOK, RunlistTypeOK
<1>4. \A c \in Channels : priority[Self][c] \in Priorities
  BY <1>1, <1>3
<1>5. prio \in Int
  BY <1>1 DEF TypeOK, RunlistTypeOK
<1>6. i \in 0 .. NumChannels /\ chosen \in Channels \cup {None}
      /\ (pc # "scan" => chosen \in Channels)
  BY DEF TypeOK, RunlistTypeOK
<1> QED BY <1>1, <1>2, <1>4, <1>5, <1>6 DEF TypeOK, RunlistTypeOK

\* The channels that have been overtaken stay due over the run loop's steps.
LEMMA RunsOvertaken ==
  ASSUME BindingInv, OvertakenOK, Runs
  PROVE  OvertakenOK'
<1>1. TypeOK /\ MixedAgrees
  BY DEF BindingInv, MixedOK
<1>2. UNCHANGED <<priority, mixed, setting>> /\ (Settled' <=> Settled)
  BY <1>1, RunsType DEF priorityVars, Settled
<1>3. ASSUME NEW c \in Channels, overtaken[c] # 0 PROVE Due(c)
  BY <1>3 DEF OvertakenOK
\* A step after which the run loop starts over.
<1>4. ASSUME Rescan PROVE \A c \in Channels : NotPassedOver(c)'
  BY <1>4 DEF Rescan, NotPassedOver, Inspected
<1>5. (pc \in {"visit", "run", "boundary"} => i = 0)'
  BY <1>1, EngineTypes
     DEF Runs, Engine, Surroundings, Inspect, EndScan, Begin, Block, Fault, Finish,
         Boundary, Look, Keep, Publish, FencePasses, ServeFault, Unpark, Rescan, others,
         engineVars, OvertakenOK
<1>6. CASE Inspect
  <2> SUFFICES ASSUME NEW c \in Channels, overtaken'[c] # 0 PROVE Due(c)'
    BY <1>5 DEF OvertakenOK
  <2>1. PICK d \in Channels : d = (rr + i) % NumChannels
    <3>1. rr \in Nat /\ i \in Nat /\ NumChannels \in Nat \ {0}
      BY <1>1, RunlistAssumption DEF TypeOK, RunlistTypeOK, Channels
    <3>2. (rr + i) % NumChannels \in 0 .. NumChannels - 1
      BY <3>1
    <3> QED BY <3>2 DEF Channels
  <2>2. UNCHANGED <<pc, rr, fault>> /\ pc = "scan" /\ i' = i + 1
    BY <1>6 DEF Inspect
  <2>3. Inspected(c)' => Inspected(c) \/ c = d
    BY <1>1, <2>1, <2>2, InspectsOne
  <2>4. CASE failed[d]
    <3>1. /\ overtaken' = [overtaken EXCEPT ![d] = 0] /\ UNCHANGED <<chosen, prio>>
          /\ head' = head \/ \E h : head' = [head EXCEPT ![d] = h]
      BY <1>6, <2>1, <2>4 DEF Inspect, Retires
    <3>2. c # d /\ overtaken'[c] = overtaken[c] /\ head'[c] = head[c]
      BY <1>1, <3>1, EngineTypes
    <3> QED BY <1>2, <1>3, <2>2, <2>3, <3>1, <3>2
            DEF Due, NotPassedOver, CanRun, Parked
  <2>5. CASE ~failed[d]
    <3>1. /\ UNCHANGED <<head, overtaken>>
          /\ \/ chosen' = d /\ prio' = priority[Self][d] /\ Better(d)
             \/ UNCHANGED <<chosen, prio>> /\ ~(CanRun(d) /\ Better(d))
      BY <1>6, <2>1, <2>5 DEF Inspect
    <3>2. Due(c) /\ (CanRun(c)' <=> CanRun(c))
      BY <1>3, <2>2, <3>1 DEF CanRun, Parked
    <3>3. chosen' # None => prio' = priority[Self][chosen']
      BY <2>2, <3>1, <3>2 DEF Due, NotPassedOver
    <3>4. Inspected(c)' => chosen' # None /\ prio' <= priority[Self][c]
      <4>1. CASE chosen' = d /\ prio' = priority[Self][d] /\ Better(d)
        BY <1>1, <2>2, <2>3, <3>2, <4>1, EngineTypes DEF Due, NotPassedOver, Better
      <4>2. CASE UNCHANGED <<chosen, prio>> /\ ~(CanRun(d) /\ Better(d))
        BY <1>1, <2>2, <2>3, <3>2, <4>2, EngineTypes DEF Due, NotPassedOver, Better
      <4> QED BY <3>1, <4>1, <4>2
    <3> QED BY <1>2, <2>2, <3>1, <3>2, <3>3, <3>4 DEF Due, NotPassedOver
  <2> QED BY <2>4, <2>5
<1>7. CASE EndScan
  <2> SUFFICES ASSUME NEW c \in Channels, overtaken'[c] # 0 PROVE Due(c)'
    BY <1>5 DEF OvertakenOK
  <2>1. UNCHANGED <<head, fault, overtaken>> /\ pc = "scan" /\ i = NumChannels
    BY <1>7 DEF EndScan, channelVars
  <2>2. Due(c) /\ Inspected(c) /\ (CanRun(c)' <=> CanRun(c))
    BY <1>1, <1>3, <2>1, AllInspected DEF CanRun, Parked
  <2>3. NotPassedOver(c)' /\ pc' # "run"
    <3>1. CASE chosen = None
      BY <1>4, <1>7, <3>1 DEF EndScan, Rescan
    <3>2. CASE chosen # None
      BY <1>2, <1>7, <2>1, <2>2, <3>2 DEF EndScan, Due, NotPassedOver
    <3> QED BY <3>1, <3>2
  <2> QED BY <1>2, <2>1, <2>2, <2>3 DEF Due
<1>8. CASE Begin
  <2> SUFFICES ASSUME NEW c \in Channels, overtaken'[c] # 0 PROVE Due(c)'
    BY <1>5 DEF OvertakenOK
  <2>1. /\ UNCHANGED <<head, fault, chosen>> /\ pc = "visit" /\ pc' = "run"
        /\ overtaken'[c] = IF c = chosen THEN 0
                           ELSE IF Overtakes(c) /\ overtaken[c] < 2
                                THEN overtaken[c] + 1 ELSE overtaken[c]
    BY <1>8 DEF Begin, channelVars
  <2>2. c # chosen /\ (CanRun(c)' <=> CanRun(c)) /\ NotPassedOver(c)'
    BY <2>1 DEF CanRun, Parked, NotPassedOver
  <2>3. CASE overtaken[c] = 0
    <3>1. Overtakes(c) /\ overtaken'[c] = 1
      BY <2>1, <2>3
    <3>2. mixed
      <4>1. priority[Self][c] # Least
        BY <1>1, <2>1, <3>1, EngineTypes DEF Overtakes
      <4>2. Self \in Engines
        BY RunlistAssumption DEF Self, Engines
      <4> QED BY <1>1, <3>1, <4>1, <4>2 DEF Overtakes, MixedAgrees, AnyRaised
    <3> QED BY <1>2, <2>1, <2>2, <3>1, <3>2 DEF Due, Overtakes
  <2>4. CASE overtaken[c] # 0
    <3>1. Due(c) /\ ~Overtakes(c)
      BY <1>1, <1>3, <2>1, <2>4, EngineTypes DEF Due, NotPassedOver, Overtakes
    <3> QED BY <1>2, <2>1, <2>2, <3>1 DEF Due
  <2> QED BY <2>3, <2>4
<1>9. CASE Block
  <2> SUFFICES ASSUME NEW c \in Channels, overtaken'[c] # 0 PROVE Due(c)'
    BY <1>5 DEF OvertakenOK
  <2>1. UNCHANGED <<head, fault, overtaken>> /\ Rescan /\ pc' = "scan"
    BY <1>9 DEF Block, channelVars, Rescan
  <2> QED BY <1>2, <1>3, <1>4, <2>1 DEF Due, CanRun, Parked
<1>10. CASE Fault
  <2> SUFFICES ASSUME NEW c \in Channels, overtaken'[c] # 0 PROVE Due(c)'
    BY <1>5 DEF OvertakenOK
  <2>1. /\ UNCHANGED <<head, overtaken>> /\ Rescan /\ pc' = "scan" /\ pc = "run"
        /\ fault' = [fault EXCEPT ![chosen] = "raised"]
    BY <1>10 DEF Fault, Rescan
  <2>2. Due(c) /\ c # chosen
    BY <1>3, <2>1 DEF Due
  <2>3. CanRun(c)' <=> CanRun(c)
    BY <1>1, <2>1, <2>2, EngineTypes DEF CanRun, Parked
  <2> QED BY <1>2, <1>4, <2>1, <2>2, <2>3 DEF Due
<1>11. CASE Finish
  <2> SUFFICES ASSUME NEW c \in Channels, overtaken'[c] # 0 PROVE Due(c)'
    BY <1>5 DEF OvertakenOK
  <2>1. /\ UNCHANGED <<fault, overtaken>> /\ pc = "run"
        /\ \E h : head' = [head EXCEPT ![chosen] = h]
        /\ pc' = "boundary" \/ (Rescan /\ pc' = "scan")
    BY <1>11 DEF Finish, Retires, Rescan
  <2>2. Due(c) /\ c # chosen
    BY <1>3, <2>1 DEF Due
  <2>3. CanRun(c)' <=> CanRun(c)
    BY <1>1, <2>1, <2>2, EngineTypes DEF CanRun, Parked
  <2>4. NotPassedOver(c)'
    BY <1>4, <2>1 DEF NotPassedOver
  <2> QED BY <1>2, <2>1, <2>2, <2>3, <2>4 DEF Due
<1>12. CASE Boundary
  <2> SUFFICES ASSUME NEW c \in Channels, overtaken'[c] # 0 PROVE Due(c)'
    BY <1>5 DEF OvertakenOK
  <2>1. UNCHANGED <<head, fault, overtaken, chosen, i>> /\ pc = "boundary"
    BY <1>12 DEF Boundary, channelVars
  <2>2. Due(c) /\ (CanRun(c)' <=> CanRun(c)) /\ i = 0
    BY <1>3, <2>1 DEF CanRun, Parked, OvertakenOK
  <2>3. pc' = "higher" /\ prio' = priority[Self][chosen]
    BY <1>12, <2>2 DEF Boundary, Due
  <2>4. NotPassedOver(c)'
    BY <1>1, <1>2, <2>1, <2>2, <2>3, EngineTypes DEF NotPassedOver
  <2> QED BY <1>2, <2>1, <2>2, <2>3, <2>4 DEF Due
<1>13. CASE Look
  <2> SUFFICES ASSUME NEW c \in Channels, overtaken'[c] # 0 PROVE Due(c)'
    BY <1>5 DEF OvertakenOK
  <2>1. UNCHANGED <<head, fault, overtaken>> /\ pc \in {"higher", "equal"}
    BY <1>13 DEF Look, channelVars
  <2>2. Due(c) /\ (CanRun(c)' <=> CanRun(c))
    BY <1>3, <2>1 DEF CanRun, Parked
  <2>3. CASE Rescan
    BY <1>2, <1>4, <2>1, <2>2, <2>3 DEF Due, Rescan
  <2>4. CASE /\ i' = i + 1 /\ UNCHANGED <<pc, chosen, prio>>
             /\ ~(i # chosen /\ YieldsTo(i) /\ CanRun(i))
    <3>1. NotPassedOver(c)'
      BY <1>1, <1>2, <2>1, <2>2, <2>4, EngineTypes DEF Due, NotPassedOver, YieldsTo
    <3> QED BY <1>2, <2>1, <2>2, <2>4, <3>1 DEF Due
  <2> QED BY <1>13, <2>3, <2>4 DEF Look
<1>14. CASE Keep
  <2> SUFFICES ASSUME NEW c \in Channels, overtaken'[c] # 0 PROVE Due(c)'
    BY <1>5 DEF OvertakenOK
  <2>1. /\ UNCHANGED <<head, fault, overtaken, chosen>> /\ pc \in {"higher", "equal"}
        /\ i = NumChannels /\ pc' \in {"equal", "visit"}
    BY <1>14 DEF Keep, channelVars
  <2>2. Due(c) /\ (CanRun(c)' <=> CanRun(c)) /\ c < i
    BY <1>3, <2>1, RunlistAssumption DEF CanRun, Parked, Channels
  <2>3. priority[Self][chosen] <= priority[Self][c]
    BY <2>1, <2>2 DEF Due, NotPassedOver
  <2> QED BY <1>2, <2>1, <2>2, <2>3 DEF Due, NotPassedOver
<1>15. ASSUME NEW d \in Channels,
              Publish(d) \/ FencePasses(d) \/ ServeFault(d) \/ Unpark(d)
       PROVE  OvertakenOK'
  <2> SUFFICES ASSUME NEW c \in Channels, overtaken'[c] # 0 PROVE Due(c)'
    BY <1>5 DEF OvertakenOK
  <2>1. UNCHANGED <<pc, i, rr, chosen, prio, overtaken>>
    BY <1>15 DEF Publish, FencePasses, ServeFault, Unpark, others, engineVars
  <2>2. Due(c)
    BY <1>3, <2>1
  <2>3. CanRun(c)'
    BY <1>1, <1>15, <2>2, EngineTypes
       DEF Publish, FencePasses, ServeFault, Unpark, Due, CanRun, Parked
  <2> QED BY <1>2, <2>1, <2>2, <2>3 DEF Due, NotPassedOver, Inspected
<1> QED BY <1>6, <1>7, <1>8, <1>9, <1>10, <1>11, <1>12, <1>13, <1>14, <1>15
        DEF Runs, Engine, Surroundings

\* So they do when priorities are programmed, and over any other call.
LEMMA ThreadOvertaken ==
  ASSUME BindingInv, OvertakenOK,
         \/ \E t \in Threads : SetNext(t) \/ SetRescan(t) \/ SetDone(t)
         \/ UNCHANGED runlistVars
  PROVE  OvertakenOK'
<1>1. UNCHANGED <<channelVars, engineVars>>
  BY DEF SetNext, SetRescan, SetDone, SetPriority, RescanPriorities, StoreMixed,
         runlistVars
<1>2. CASE \A c \in Channels : overtaken'[c] = 0
  BY <1>1, <1>2 DEF OvertakenOK, engineVars
<1>3. CASE UNCHANGED <<priority, mixed, setting, overtaken>>
  BY <1>1, <1>3
     DEF OvertakenOK, Due, NotPassedOver, Inspected, Settled, CanRun, Parked, engineVars,
         channelVars
<1>4. ASSUME NEW t \in Threads, SetNext(t) PROVE \A c \in Channels : overtaken'[c] = 0
  BY <1>4 DEF SetNext, SetPriority
<1>5. ASSUME NEW t \in Threads, SetRescan(t) \/ SetDone(t)
      PROVE  \A c \in Channels : overtaken'[c] = 0
  <2>1. setting[t].step # "none" /\ overtaken' = overtaken
    BY <1>5 DEF SetRescan, SetDone, RescanPriorities, StoreMixed
  <2> QED BY <2>1 DEF OvertakenOK, Due, Settled
<1> QED BY <1>2, <1>3, <1>4, <1>5 DEF runlistVars, priorityVars

\* "A higher priority preempts immediately": at most one command of a lower
\* priority begins before a channel that can run, for every number of
\* channels and levels, whatever the timeslice and whenever it became ready.
THEOREM HigherPreempts == Spec => []PreemptsAtBoundary
<1>1. Init => OvertakenOK
  BY RunlistAssumption DEF Init, RunlistInit, OvertakenOK
<1>2. BindingInv /\ OvertakenOK /\ [Next]_vars => OvertakenOK'
  <2> SUFFICES ASSUME BindingInv, OvertakenOK, [Next]_vars PROVE OvertakenOK'
    OBVIOUS
  <2>1. CASE Runs
    BY <2>1, RunsOvertaken
  <2>2. ASSUME NEW t \in Threads, NEW s \in StreamSet,
               (\E p \in Wanted : Create(t, s, p)) \/ Destroy(t, s)
        PROVE  OvertakenOK'
    BY <2>2, ThreadOvertaken DEF Create, Destroy
  <2>3. ASSUME NEW t \in Threads, Thread(t) PROVE OvertakenOK'
    BY <2>3, ThreadOvertaken
       DEF Thread, BindShared, BindFree, Refuse, Refused, Raised, Unbind, Lowered
  <2>4. CASE UNCHANGED vars
    BY <2>4, ThreadOvertaken DEF vars
  <2> QED BY <2>1, <2>2, <2>3, <2>4 DEF Next
<1>3. OvertakenOK => PreemptsAtBoundary
  BY DEF OvertakenOK, Due, PreemptsAtBoundary
<1> QED BY <1>1, <1>2, <1>3, BindingInvariant, PTL DEF Spec

=============================================================================

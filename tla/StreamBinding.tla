---------------------------- MODULE StreamBinding ----------------------------
(***************************************************************************)
(* How the runtime gives streams their channels (runtime.cpp: g_bind,      *)
(* bind_channel, unbind_channel, set_priority_all), over the runlist that  *)
(* the channels' priorities program.  Threads create and destroy streams   *)
(* while the engine runs; the default stream holds channel 0 throughout.   *)
(* The same channel index is used on every engine.                         *)
(***************************************************************************)
EXTENDS Runlist

CONSTANTS StreamSet

\* Priorities that the application asks for, out of range ones included.
Wanted == {Greatest - 1, Least}

VARIABLES
  bindMu,         \* holder of g_bind_mu
  bind,           \* g_bind: per channel, its priority and its users
  channelOf,      \* per stream: its channel, None while it does not exist
  streamPrio,     \* per stream: the (clamped) priority it was created with
  at, job         \* per thread: position, and the stream, channel, priority
                  \* and engine of the call being made

bindingVars == <<bindMu, bind, channelOf, streamPrio>>
vars == <<runlistVars, bindingVars, at, job>>

NoOne == "no one"

ASSUME BindingAssumption == /\ IsFiniteSet(StreamSet) /\ IsFiniteSet(Threads)
                            /\ NoOne \notin Threads

NoJob == [stream |-> CHOOSE s \in StreamSet : TRUE, channel |-> None,
          priority |-> Least, engine |-> 0]

Init ==
  /\ RunlistInit
  /\ bindMu = NoOne
  /\ bind = [c \in Channels |-> [priority |-> Least,
                                 users |-> IF c = 0 THEN 1 ELSE 0]]
  /\ channelOf = [s \in StreamSet |-> None]
  /\ streamPrio = [s \in StreamSet |-> Least]
  /\ at = [t \in Threads |-> "idle"]
  /\ job = [t \in Threads |-> NoJob]

----------------------------------------------------------------------------

Goto(t, from, to) == at[t] = from /\ at' = [at EXCEPT ![t] = to]

clamp_priority(p) == IF p < Greatest THEN Greatest
                     ELSE IF p > Least THEN Least ELSE p

\* Mutant: the bindings are changed without the lock.
NoLock(t) == UNCHANGED bindMu

Lock(t) == bindMu = NoOne /\ bindMu' = t

Unlock(t) == bindMu' = IF bindMu = t THEN NoOne ELSE bindMu

\* sgStreamCreate, sgStreamCreateWithPriority
Create(t, s, p) ==
  /\ channelOf[s] = None /\ \A u \in Threads : at[u] # "idle" => job[u].stream # s
  /\ Goto(t, "idle", "bind")
  /\ job' = [job EXCEPT ![t] = [NoJob EXCEPT !.stream = s,
                                             !.priority = clamp_priority(p)]]
  /\ UNCHANGED <<runlistVars, bindingVars>>

\* The channels a stream of priority p may share, the least used one first;
\* and those it may be given.
Equal(p) == {c \in Channels : bind[c].priority = p}

LeastUsed(C) == CHOOSE c \in C : \A d \in C :
  bind[c].users < bind[d].users \/ (bind[c].users = bind[d].users /\ c <= d)

Free == {c \in Channels : bind[c].users = 0}

First(C) == CHOOSE c \in C : \A d \in C : c <= d

\* bind_channel: share a channel of this priority, ...
BindShared(t) ==
  LET s == job[t].stream
      p == job[t].priority
      c == LeastUsed(Equal(p)) IN
  /\ bindMu = NoOne /\ Equal(p) # {}
  /\ Goto(t, "bind", "idle")
  /\ bind' = [bind EXCEPT ![c].users = @ + 1]
  /\ channelOf' = [channelOf EXCEPT ![s] = c]
  /\ streamPrio' = [streamPrio EXCEPT ![s] = p]
  /\ job' = [job EXCEPT ![t] = NoJob]
  /\ UNCHANGED <<runlistVars, bindMu>>

\* ... or program a free one, ...
BindFree(t) ==
  /\ Equal(job[t].priority) = {} /\ Free # {}
  /\ Lock(t)
  /\ Goto(t, "bind", "raise")
  /\ job' = [job EXCEPT ![t].channel = First(Free)]
  /\ UNCHANGED <<runlistVars, bind, channelOf, streamPrio>>

\* ... or refuse.
Refuse(t) ==
  /\ bindMu = NoOne /\ Equal(job[t].priority) = {} /\ Free = {}
  /\ Goto(t, "bind", "refused")
  /\ UNCHANGED <<runlistVars, bindingVars, job>>

Refused(t) ==
  /\ Goto(t, "refused", "idle")
  /\ job' = [job EXCEPT ![t] = NoJob]
  /\ UNCHANGED <<runlistVars, bindingVars>>

\* set_priority_all: one SET_PRIORITY call per engine.
SetNext(t) ==
  /\ at[t] \in {"raise", "lower"} /\ job[t].engine < NumEngines
  /\ SetPriority(t, job[t].engine, job[t].channel, job[t].priority)
  /\ UNCHANGED <<bindingVars, at, job>>

SetRescan(t) == RescanPriorities(t) /\ UNCHANGED <<bindingVars, at, job>>

SetDone(t) == /\ StoreMixed(t)
              /\ job' = [job EXCEPT ![t].engine = @ + 1]
              /\ UNCHANGED <<bindingVars, at>>

AllSet(t) == job[t].engine = NumEngines /\ setting[t].step = "none"

Raised(t) ==
  LET s == job[t].stream
      c == job[t].channel IN
  /\ AllSet(t) /\ Goto(t, "raise", "idle")
  /\ bind' = [bind EXCEPT ![c] = [priority |-> job[t].priority,
                                  users |-> @.users + 1]]
  /\ channelOf' = [channelOf EXCEPT ![s] = c]
  /\ streamPrio' = [streamPrio EXCEPT ![s] = job[t].priority]
  /\ Unlock(t)
  /\ job' = [job EXCEPT ![t] = NoJob]
  /\ UNCHANGED runlistVars

\* sgStreamDestroy: the object is gone once unbind_channel has returned; the
\* application no longer uses it from the call on.
Destroy(t, s) ==
  /\ channelOf[s] # None /\ Goto(t, "idle", "unbind")
  /\ channelOf' = [channelOf EXCEPT ![s] = None]
  /\ streamPrio' = [streamPrio EXCEPT ![s] = Least]
  /\ job' = [job EXCEPT ![t] = [NoJob EXCEPT !.stream = s,
                                             !.channel = channelOf[s]]]
  /\ UNCHANGED <<runlistVars, bindMu, bind>>

\* Mutant: the priority is dropped with users left on the channel.
LastUserAny(c) == bind[c].priority # Least

\* The last user of a raised channel is leaving.
LastUser(c) == bind[c].users = 1 /\ bind[c].priority # Least

\* Mutant: only users of a raised channel are counted out.
LeaveRaised(c) == IF bind[c].priority = Least THEN UNCHANGED bind
                  ELSE bind' = [bind EXCEPT ![c].users = @ - 1]

Leave(c) == bind' = [bind EXCEPT ![c].users = @ - 1]

\* unbind_channel, under the lock: the last user resets the priority.
Unbind(t) ==
  LET c == job[t].channel IN
  /\ at[t] = "unbind"
  /\ Leave(c)
  /\ IF LastUser(c)
     THEN Lock(t) /\ at' = [at EXCEPT ![t] = "lower"] /\ UNCHANGED job
     ELSE /\ bindMu = NoOne /\ UNCHANGED bindMu
          /\ at' = [at EXCEPT ![t] = "idle"]
          /\ job' = [job EXCEPT ![t] = NoJob]
  /\ UNCHANGED <<runlistVars, channelOf, streamPrio>>

Lowered(t) ==
  /\ AllSet(t) /\ Goto(t, "lower", "idle")
  /\ bind' = [bind EXCEPT ![job[t].channel].priority = Least]
  /\ Unlock(t)
  /\ job' = [job EXCEPT ![t] = NoJob]
  /\ UNCHANGED <<runlistVars, channelOf, streamPrio>>

Thread(t) == \/ BindShared(t) \/ BindFree(t) \/ Refuse(t) \/ Refused(t)
             \/ SetNext(t) \/ SetRescan(t) \/ SetDone(t) \/ Raised(t)
             \/ Unbind(t) \/ Lowered(t)

Runs == (Engine \/ Surroundings) /\ UNCHANGED <<bindingVars, at, job>>

Next ==
  \/ Runs
  \/ \E t \in Threads :
       \/ \E s \in StreamSet : (\E p \in Wanted : Create(t, s, p)) \/ Destroy(t, s)
       \/ Thread(t)

Spec == Init /\ [][Next]_vars

\* The engine's thread runs; what its channels hold is up to the others.
FairSpec == Spec /\ WF_vars(Engine /\ UNCHANGED <<bindingVars, at, job>>)

----------------------------------------------------------------------------
(* Properties                                                              *)

Users(c) == Cardinality({s \in StreamSet : channelOf[s] = c})
            + Cardinality({t \in Threads : at[t] = "unbind" /\ job[t].channel = c})
            + (IF c = 0 THEN 1 ELSE 0)

\* "Two priorities never have to share a ring": the streams on a channel run
\* at the priority each was created with, on every engine, whatever streams
\* are created and destroyed beside them, and g_bind counts them right.
RingsUnmixed ==
  /\ RunlistTypeOK
  /\ \A c \in Channels : bind[c].users = Users(c)
  /\ \A s \in StreamSet : channelOf[s] # None =>
       \A e \in Engines : priority[e][channelOf[s]] = streamPrio[s]

\* While no SET_PRIORITY is under way, the engines check for preemption
\* exactly if some channel of some engine has been given a higher priority.
\* (set_channel_priority takes no lock of its own: two calls at a time may
\* store a stale scan last, and preemption would stay off.)
MixedAgrees == Settled => (mixed <=> AnyRaised)

\* "If every channel is already in use at a different priority,
\* sgStreamCreateWithPriority returns SG_ERR_INVALID_VALUE", and only then.
RefusedOnlyWhenTaken == [][\A t \in Threads :
  at[t] = "bind" /\ at'[t] = "refused" =>
    \A c \in Channels :
      /\ Users(c) > 0
      /\ \A s \in StreamSet : channelOf[s] = c => streamPrio[s] # job[t].priority
  ]_vars
=============================================================================

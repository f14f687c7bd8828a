------------------------------- MODULE Runlist -------------------------------
(***************************************************************************)
(* Which channel an engine runs next: the scan and visit loop of           *)
(* Device::run, for one engine, and Device::set_channel_priority, which    *)
(* any thread may call for any engine.                                     *)
(*                                                                         *)
(* What a channel holds is cut down to what the runlist asks of it: no     *)
(* command, or a head command that can run, or a WAIT whose fence has not  *)
(* passed.  What is behind the head is open: when it retires, anything may *)
(* be next.  Each channel that the scan or a boundary check looks at is a  *)
(* step, as fences pass, faults are served and priorities change between   *)
(* them.                                                                   *)
(***************************************************************************)
EXTENDS Integers, FiniteSets

CONSTANTS Threads,     \* threads that program priorities
          NumEngines, NumChannels,
          Levels,      \* priorities above SG_PRIORITY_LEAST
          SliceCmds,   \* bound: commands that fit in a timeslice
          MaxFaults    \* bound: channels with a fault at a time

ASSUME RunlistAssumption ==
  /\ NumEngines \in Nat \ {0} /\ NumChannels \in Nat \ {0}
  /\ Levels \in Nat /\ SliceCmds \in Nat \ {0} /\ MaxFaults \in Nat

Least == 0            \* SG_PRIORITY_LEAST
Greatest == -Levels   \* SG_PRIORITY_GREATEST: a smaller value runs first
Priorities == Greatest .. Least
Engines == 0 .. NumEngines - 1
Channels == 0 .. NumChannels - 1
Self == 0    \* the engine whose run loop is modelled
None == -1

VARIABLES
  priority, mixed,   \* per engine and channel; mixed_priority_
  setting,           \* per thread: its set_channel_priority call
  timeslice,         \* timeslice_ns_ is not 0
  head,              \* per channel of Self: its head command
  fault, failed,     \* per channel: none, raised or served (parked until it
                     \* is none again); fault_fail
  pc,                \* where the run loop is
  i, rr,             \* how many channels it has looked at; the scan's start
  chosen, prio,      \* the channel to visit, or None, and the priority
                     \* that others are compared with
  slice, due,        \* commands since the slice began; slice_due
  overtaken          \* per channel: commands of a lower priority begun
                     \* since it could run and priorities last changed

priorityVars == <<priority, mixed, setting>>
channelVars == <<head, fault, failed>>
engineVars == <<pc, i, rr, chosen, prio, slice, due>>
runlistVars == <<priorityVars, channelVars, engineVars, timeslice, overtaken>>

NoSetting == [step |-> "none", mixed |-> FALSE]

RunlistInit ==
  /\ priority = [e \in Engines |-> [c \in Channels |-> Least]]
  /\ mixed = FALSE
  /\ setting = [t \in Threads |-> NoSetting]
  /\ timeslice \in BOOLEAN
  /\ head = [c \in Channels |-> "none"]
  /\ fault = [c \in Channels |-> "none"]
  /\ failed = [c \in Channels |-> FALSE]
  /\ pc = "scan" /\ i = 0 /\ rr = 0 /\ chosen = None /\ prio = Least
  /\ slice = 0 /\ due = FALSE
  /\ overtaken = [c \in Channels |-> 0]

----------------------------------------------------------------------------
(* set_channel_priority                                                    *)

AnyRaised == \E e \in Engines, c \in Channels : priority[e][c] # Least

SetPriority(t, e, c, p) ==
  /\ setting[t].step = "none"
  /\ priority' = [priority EXCEPT ![e][c] = p]
  /\ setting' = [setting EXCEPT ![t].step = "stored"]
  /\ overtaken' = [d \in Channels |-> 0]
  /\ UNCHANGED <<mixed, channelVars, engineVars, timeslice>>

RescanPriorities(t) ==
  /\ setting[t].step = "stored"
  /\ setting' = [setting EXCEPT ![t] = [step |-> "scanned", mixed |-> AnyRaised]]
  /\ UNCHANGED <<priority, mixed, channelVars, engineVars, timeslice, overtaken>>

StoreMixed(t) ==
  /\ setting[t].step = "scanned"
  /\ mixed' = setting[t].mixed
  /\ setting' = [setting EXCEPT ![t] = NoSetting]
  /\ UNCHANGED <<priority, channelVars, engineVars, timeslice, overtaken>>

Settled == \A t \in Threads : setting[t].step = "none"

----------------------------------------------------------------------------
(* What happens around the engine                                          *)

others == <<priorityVars, engineVars, timeslice, overtaken>>

\* A command is published on an empty channel; a WAIT's fence passes.
Publish(c) ==
  /\ head[c] = "none"
  /\ \E h \in {"ready", "blocked"} : head' = [head EXCEPT ![c] = h]
  /\ UNCHANGED <<fault, failed, others>>

FencePasses(c) ==
  /\ head[c] = "blocked"
  /\ head' = [head EXCEPT ![c] = "ready"]
  /\ UNCHANGED <<fault, failed, others>>

\* service_faults: a migration that failed is reported before the unpark.
ServeFault(c) ==
  /\ fault[c] = "raised"
  /\ fault' = [fault EXCEPT ![c] = "served"]
  /\ \E rc \in BOOLEAN : failed' = [failed EXCEPT ![c] = rc]
  /\ UNCHANGED <<head, others>>

Unpark(c) ==
  /\ fault[c] = "served"
  /\ fault' = [fault EXCEPT ![c] = "none"]
  /\ UNCHANGED <<head, failed, others>>

----------------------------------------------------------------------------
(* The scan                                                                *)

Parked(c) == fault[c] # "none"
CanRun(c) == head[c] = "ready" /\ ~Parked(c)

\* The head command of c retires; whatever is behind it becomes the head.
Retires(c) ==
  \E h \in {"none", "ready", "blocked"} : head' = [head EXCEPT ![c] = h]

\* Smaller priority value wins; among equals, the first from rr on.
Better(c) == chosen = None \/ priority[Self][c] < prio

Inspect ==
  LET c == (rr + i) % NumChannels IN
  /\ pc = "scan" /\ i < NumChannels /\ i' = i + 1
  /\ \/ /\ failed[c]
        /\ failed' = [failed EXCEPT ![c] = FALSE]
        /\ IF head[c] = "none" THEN UNCHANGED head ELSE Retires(c)
        /\ overtaken' = [overtaken EXCEPT ![c] = 0]
        /\ UNCHANGED <<chosen, prio>>
     \/ /\ ~failed[c] /\ CanRun(c) /\ Better(c)
        /\ chosen' = c /\ prio' = priority[Self][c]
        /\ UNCHANGED <<head, failed, overtaken>>
     \/ /\ ~failed[c] /\ ~(CanRun(c) /\ Better(c))
        /\ UNCHANGED <<chosen, prio, head, failed, overtaken>>
  /\ UNCHANGED <<pc, rr, slice, due, fault, priorityVars, timeslice>>

Rescan == /\ pc' = "scan" /\ i' = 0 /\ chosen' = None /\ prio' = Least
          /\ slice' = 0 /\ due' = FALSE

\* Mutant: every scan starts at the first channel.
TurnKept(c) == rr' = 0

Turn(c) == rr' = (c + 1) % NumChannels

EndScan ==
  /\ pc = "scan" /\ i = NumChannels
  /\ IF chosen = None THEN Rescan /\ UNCHANGED rr
     ELSE /\ pc' = "visit" /\ i' = 0 /\ prio' = Least /\ Turn(chosen)
          /\ UNCHANGED <<chosen, slice, due>>
  /\ UNCHANGED <<priorityVars, channelVars, timeslice, overtaken>>

----------------------------------------------------------------------------
(* The visit                                                               *)

\* The command about to begin goes before that of c, which outranks it.
Overtakes(c) == /\ Settled /\ CanRun(c)
                /\ priority[Self][c] < priority[Self][chosen]

\* The head command begins, ...
Begin ==
  /\ pc = "visit" /\ head[chosen] = "ready"
  /\ pc' = "run"
  /\ overtaken' = [c \in Channels |->
       IF c = chosen THEN 0
       ELSE IF Overtakes(c) /\ overtaken[c] < 2 THEN overtaken[c] + 1
       ELSE overtaken[c]]
  /\ UNCHANGED <<i, rr, chosen, prio, slice, due, channelVars, priorityVars,
                 timeslice>>

\* ... or is a WAIT that leaves this channel for now.
Block ==
  /\ pc = "visit" /\ head[chosen] = "blocked"
  /\ Rescan
  /\ UNCHANGED <<rr, channelVars, priorityVars, timeslice, overtaken>>

\* A page fault parks the channel and ends the visit.
Fault ==
  /\ pc = "run"
  /\ Cardinality({c \in Channels : fault[c] # "none" \/ failed[c]}) < MaxFaults
  /\ fault' = [fault EXCEPT ![chosen] = "raised"]
  /\ Rescan
  /\ UNCHANGED <<rr, head, failed, priorityVars, timeslice, overtaken>>

Finish ==
  /\ pc = "run" /\ Retires(chosen)
  /\ IF head'[chosen] = "none" THEN Rescan
     ELSE /\ pc' = "boundary"
          /\ slice' = IF timeslice /\ slice < SliceCmds THEN slice + 1 ELSE slice
          /\ UNCHANGED <<i, chosen, prio, due>>
  /\ UNCHANGED <<rr, fault, failed, priorityVars, timeslice, overtaken>>

\* Command boundary: go on, or look for a channel to yield to, of a higher
\* priority first.  The slice is over after SliceCmds commands at the latest.
Boundary ==
  /\ pc = "boundary"
  /\ \E d \in BOOLEAN :
       /\ d => timeslice
       /\ slice = SliceCmds => d
       /\ due' = d
       /\ pc' = IF mixed THEN "higher" ELSE IF d THEN "equal" ELSE "visit"
       /\ prio' = IF mixed \/ d THEN priority[Self][chosen] ELSE prio
  /\ UNCHANGED <<i, rr, chosen, slice, channelVars, priorityVars, timeslice,
                 overtaken>>

\* Mutant: a boundary yields to an equal priority only.
YieldsToEqual(c) == priority[Self][c] = prio

YieldsTo(c) == IF pc = "higher" THEN priority[Self][c] < prio
               ELSE priority[Self][c] = prio

\* other_runnable, one channel at a time.
Look ==
  /\ pc \in {"higher", "equal"}
  /\ i < NumChannels
  /\ IF i # chosen /\ YieldsTo(i) /\ CanRun(i)
     THEN Rescan
     ELSE i' = i + 1 /\ UNCHANGED <<pc, chosen, prio, slice, due>>
  /\ UNCHANGED <<rr, channelVars, priorityVars, timeslice, overtaken>>

\* Nobody to yield to: the slice starts again.
Keep ==
  /\ pc \in {"higher", "equal"} /\ i = NumChannels
  /\ i' = 0
  /\ IF pc = "higher" /\ due
     THEN pc' = "equal" /\ UNCHANGED <<prio, slice, due>>
     ELSE /\ pc' = "visit" /\ prio' = Least /\ due' = FALSE
          /\ slice' = IF due THEN 0 ELSE slice
  /\ UNCHANGED <<rr, chosen, channelVars, priorityVars, timeslice, overtaken>>

Engine == Inspect \/ EndScan \/ Begin \/ Block \/ Fault \/ Finish
          \/ Boundary \/ Look \/ Keep

Surroundings == \E c \in Channels :
  Publish(c) \/ FencePasses(c) \/ ServeFault(c) \/ Unpark(c)

----------------------------------------------------------------------------
(* Properties                                                              *)

RunlistTypeOK ==
  /\ priority \in [Engines -> [Channels -> Priorities]] /\ mixed \in BOOLEAN
  /\ head \in [Channels -> {"none", "ready", "blocked"}]
  /\ fault \in [Channels -> {"none", "raised", "served"}]
  /\ i \in 0 .. NumChannels /\ rr \in Channels
  /\ chosen \in Channels \cup {None} /\ prio \in Priorities
  /\ pc # "scan" => chosen # None

\* "A higher priority preempts immediately": once a channel's head can run
\* and priorities are settled, at most one command of a lower priority begins
\* before it does, whatever the engine had looked at by then.
PreemptsAtBoundary == \A c \in Channels : overtaken[c] <= 1

\* With a timeslice, a channel that can run and that no runnable channel
\* outranks is visited in the end, however busy its equals are, unless
\* priorities go on changing.
Top(c) == \A d \in Channels : CanRun(d) => priority[Self][c] <= priority[Self][d]
Visited(c) == chosen = c /\ pc # "scan"
TopServed == timeslice =>
  \A c \in Channels : []<>(~CanRun(c) \/ ~Top(c) \/ Visited(c) \/ ~Settled)
=============================================================================

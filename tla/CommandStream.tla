--------------------------- MODULE CommandStream ---------------------------
(***************************************************************************)
(* What one channel of one engine promises its submitters, without a ring, *)
(* without registers and without threads: commands are accepted one at a   *)
(* time, at most Depth of them are outstanding, and they retire one at a   *)
(* time in the order of acceptance.  A command retires either because it   *)
(* ran or because the migration of a page it needs failed.                 *)
(* (device.h, struct Channel: "command number N has retired once           *)
(* get >= N + 1".)                                                         *)
(***************************************************************************)
EXTENDS Naturals, Sequences

CONSTANTS Cmd,      \* the commands
          Depth,    \* ring depth
          Failed    \* the outcome of a command that retires without running

VARIABLES accepted, \* the commands accepted so far, oldest first
          retired   \* what retired so far: the command that ran, or Failed

streamVars == <<accepted, retired>>

Init == accepted = <<>> /\ retired = <<>>

Accept(c) == /\ Len(accepted) < Len(retired) + Depth
             /\ accepted' = Append(accepted, c)
             /\ UNCHANGED retired

Retire(outcome) == /\ Len(retired) < Len(accepted)
                   /\ retired' = Append(retired, outcome)
                   /\ UNCHANGED accepted

\* The next command in the order of acceptance runs, or fails.
RetireNext == Retire(accepted[Len(retired) + 1]) \/ Retire(Failed)

Next == (\E c \in Cmd : Accept(c)) \/ RetireNext

Spec == Init /\ [][Next]_streamVars
=============================================================================

--------------------------- MODULE MCStagingPool ---------------------------
(***************************************************************************)
(* Instances of StagingPool for TLC.                                       *)
(***************************************************************************)
EXTENDS StagingPool, TLC

\* Threads are interchangeable.  Used by safety runs only.
ThreadSymmetry == Permutations(Threads)

\* The behaviours of Spec in which every copy goes to the host, or is empty.
OutSpec ==
  Init /\ [][Next /\ \A t \in Threads : job'[t].op = "d2h" \/ job'[t].chunks = 0]_vars
=============================================================================

----------------------------- MODULE MCHostWait -----------------------------
(***************************************************************************)
(* Instances of HostWait for TLC.                                          *)
(***************************************************************************)
EXTENDS HostWait

\* Two commands: one on each of two channels, or both on one.
TwoCommands == {<<1, 1>>, <<2, 0>>}
=============================================================================

------------------------------- MODULE MCPipes -------------------------------
(***************************************************************************)
(* Instances of PipePacketHandler for TLC.                                 *)
(***************************************************************************)
EXTENDS PipePacketHandler, TLC

CONSTANTS p1, p2
OnePipe == {p1}
TwoPipes == {p1, p2}
PipeSymmetry == Permutations(TwoPipes)
=============================================================================

---------------------------- MODULE MCProcessAPI ----------------------------
(* A small instance of ProcessAPI for TLC. *)
EXTENDS ProcessAPI, TLC

CONSTANTS p1, c1, c2

MCProcs == {p1}
MCCallers == {c1, c2}
NoHeartbeat == {}
AllHeartbeat == {p1}
Limit3 == p1 :> 3
CallerSymmetry == Permutations(MCCallers)
=============================================================================

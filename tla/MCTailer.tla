------------------------------ MODULE MCTailer ------------------------------
(* A small instance of Tailer for TLC. *)
EXTENDS Tailer

MCEnds == {1, 2, 5, 6, 7}
=============================================================================

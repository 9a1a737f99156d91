---------------------------- MODULE MCLogStream ----------------------------
(* A small instance of LogStream for TLC. *)
EXTENDS LogStream

MCEnds == {2, 4, 5, 7}
=============================================================================

----------------------------- MODULE MCListenUI -----------------------------
(* A small instance of ListenUI for TLC. *)
EXTENDS ListenUI

MCNames == 1 .. 3
MCVerbs == {"exec", "stop"}
=============================================================================

----------------------------- MODULE MCInventory -----------------------------
(* Small instances of Inventory for TLC. *)
EXTENDS Inventory

CONSTANTS l1, l2, up, plain, tagged

MCNames == {1}
OneStatus == {up}
Tags == {plain, tagged}
MCListeners == {l1, l2}
=============================================================================

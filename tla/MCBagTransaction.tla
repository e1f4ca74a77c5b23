-------------------------- MODULE MCBagTransaction --------------------------
(* Instance of BagTransaction for TLC. *)
EXTENDS BagTransaction
=============================================================================

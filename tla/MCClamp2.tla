------------------------------ MODULE MCClamp2 ------------------------------
(* The instance of Clamp2 for TLC. *)
EXTENDS Clamp2
==============================================================================

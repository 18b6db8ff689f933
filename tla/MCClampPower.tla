---------------------------- MODULE MCClampPower ----------------------------
(* The instance of ClampPower for TLC. *)
EXTENDS ClampPower
==============================================================================

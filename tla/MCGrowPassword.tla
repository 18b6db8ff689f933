---------------------------- MODULE MCGrowPassword ----------------------------
(* Instance of GrowPassword for TLC. *)
EXTENDS GrowPassword
==============================================================================

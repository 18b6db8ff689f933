------------------------------- MODULE MCRigol -------------------------------
(* Instances of Rigol for TLC. *)
EXTENDS Rigol

CONSTANTS c1, c2
MCClients == {c1, c2}
==============================================================================

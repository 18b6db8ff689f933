-------------------------- MODULE EnrollmentSession --------------------------
(***************************************************************************)
(* What a user may rely on when enrolling a finger (abstract): a session    *)
(* collects Images captures, only a complete one is announced as done, and  *)
(* the enrolling indicator is on from the start to the end of the session.  *)
(* Starting again drops what was collected.                                 *)
(***************************************************************************)
EXTENDS Naturals

CONSTANT Images
VARIABLES captures, phase, indicator
vars == <<captures, phase, indicator>>

Init == captures = 0 /\ phase = "none" /\ indicator = FALSE

Start == captures' = 0 /\ phase' = "open" /\ indicator' = TRUE

Capture ==
  /\ phase = "open" /\ captures < Images
  /\ captures' = captures + 1
  /\ UNCHANGED <<phase, indicator>>

Announce ==
  /\ phase = "open" /\ captures = Images
  /\ phase' = "announced"
  /\ UNCHANGED <<captures, indicator>>

\* Done, failed or cancelled.
Close ==
  /\ phase # "none"
  /\ captures' = 0 /\ phase' = "none" /\ indicator' = FALSE

Next == Start \/ Capture \/ Announce \/ Close

Spec == Init /\ [][Next]_vars
==============================================================================

---------------------------- MODULE MCDashboard ----------------------------
(***************************************************************************)
(* The dashboard channel with two things to show, two commands, and time   *)
(* for a state to become stale while the controller runs and after it.     *)
(***************************************************************************)
EXTENDS Dashboard

=============================================================================

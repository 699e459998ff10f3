----------------------------- MODULE MCLeasedWork -----------------------------
(* LeasedWork has no sets to choose: one worker, one lease, one janitor. *)
EXTENDS LeasedWork
=============================================================================

-------------------------- MODULE MCProcessCapacity --------------------------
(***************************************************************************)
(* Small instances of ProcessCapacity for TLC.  Both caps are 2 (8 and 256 *)
(* in the source), so a configured 3 is clamped and a configured 0 is      *)
(* raised; four callers can hold both slots and fill the queue.            *)
(***************************************************************************)
EXTENDS ProcessCapacity

CONSTANTS r1, r2, r3, r4

FourRequests == {r1, r2, r3, r4}
=============================================================================

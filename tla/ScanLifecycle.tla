---------------------------- MODULE ScanLifecycle ----------------------------
(***************************************************************************)
(* What a scan run promises to whoever reads its row: it is queued once,   *)
(* starts at most once, and reaches exactly one verdict, which is never    *)
(* changed.  The guards of ScanRepository (claimQueuedScanRun and          *)
(* updateScanRunStatus) are there to keep this promise, whichever process  *)
(* writes the row; ScanSupervisor is shown to implement it.                *)
(***************************************************************************)
CONSTANT Scans

VARIABLE status

Active == {"queued", "running"}
Verdicts == {"completed", "failed", "cancelled"}

Init == status = [s \in Scans |-> "none"]

Queue(s) ==
  /\ status[s] = "none"
  /\ status' = [status EXCEPT ![s] = "queued"]

Start(s) ==
  /\ status[s] = "queued"
  /\ status' = [status EXCEPT ![s] = "running"]

Conclude(s, v) ==
  /\ status[s] \in Active
  /\ status' = [status EXCEPT ![s] = v]

Next ==
  \E s \in Scans : \/ Queue(s)
                   \/ Start(s)
                   \/ \E v \in Verdicts : Conclude(s, v)

Settled(s) == status[s] \notin Active

\* Nothing is left active for ever
Fairness ==
  \A s \in Scans : WF_status(\E v \in Verdicts : Conclude(s, v))

Spec == Init /\ [][Next]_status

FairSpec == Spec /\ Fairness
=============================================================================

------------------------------ MODULE DynamicRun ------------------------------
(***************************************************************************)
(* DynamicRunner.run with executeDynamicDockerRun: one container with an   *)
(* output volume, started by the command line program for a parent scan.   *)
(* The lease names both before either exists.  The executor removes them   *)
(* itself; the finally block of run then releases the lease and finishes   *)
(* with the temporary directory.                                           *)
(***************************************************************************)
EXTENDS ResourceLease

\* kind: of the profile; status: of the dynamic_runs row; leased, outDir:
\* resourceLease and hostOutDir are set; killed: isKilled; outcome: how the
\* docker process ended, "refused" being an exit code or an output that looks
\* like a failure of Docker
VARIABLE run

DynamicKinds == {"test", "sanitizer", "fuzz"}

Outcomes == {"none", "exited", "refused", "limit", "thrown", "uncollected", "no volume"}

Terminal == {"completed", "failed", "timed_out"}

Container == "dynamic-container"

Volume == "output-volume"

In(pc) == owner.kind = "dynamic" /\ owner.pc = pc

Outcome(o) == run' = [run EXCEPT !.outcome = o]

\* updateRunStatus; the trigger on scan_runs looks at this status
Status(s) ==
  /\ run' = [run EXCEPT !.status = s]
  /\ busy' = (s = "running")

CreateRun ==
  /\ In("idle")
  /\ scan # "deleted"
  /\ Status("running")
  /\ Goes("prepare")
  /\ UNCHANGED <<docker, up, row, scan, janitor, overtaken, faults>>

\* No parent scan, or the insert fails
CreateRunFails ==
  /\ In("idle")
  /\ \/ scan = "deleted" /\ NoFault
     \/ scan # "deleted" /\ Fault
  /\ Ends("error")
  /\ UNCHANGED <<docker, up, row, scan, busy, janitor, overtaken, run>>

\* Snapshot, projection, output directory, lease
Prepare ==
  /\ In("prepare")
  /\ row' = Acquired({Container, Volume})
  /\ run' = [run EXCEPT !.leased = TRUE, !.outDir = TRUE]
  /\ Goes("volume")
  /\ UNCHANGED <<docker, up, scan, busy, janitor, overtaken, faults>>

\* Before there is a directory, before there is a lease, or after the insert
\* of a lease that cannot be looked up
PrepareThrows ==
  /\ In("prepare")
  /\ \/ UNCHANGED <<row, run>>
     \/ /\ row' \in {row, Acquired({Container, Volume})}
        /\ run' = [run EXCEPT !.outDir = TRUE]
  /\ Fault
  /\ Goes("catch")
  /\ UNCHANGED <<docker, up, scan, busy, janitor, overtaken>>

CreateVolume ==
  /\ In("volume")
  /\ docker' = docker \cup {Volume}
  /\ Goes("spawn")
  /\ UNCHANGED <<up, row, scan, busy, janitor, overtaken, faults, run>>

\* Returns before the block that removes anything
CreateVolumeFails ==
  /\ In("volume")
  /\ docker' \in {docker, docker \cup {Volume}}
  /\ Fault
  /\ Outcome("no volume")
  /\ Goes("record")
  /\ UNCHANGED <<up, row, scan, busy, janitor, overtaken>>

Spawn ==
  /\ In("spawn")
  /\ docker' = docker \cup {Container, Volume}
  /\ up' = up \cup {Container}
  /\ Goes("running")
  /\ UNCHANGED <<row, scan, busy, janitor, overtaken, faults, run>>

\* Bun.spawn throws: there is no process, and no container is removed
SpawnThrows ==
  /\ In("spawn")
  /\ Fault
  /\ Outcome("thrown")
  /\ Goes("rmVolume")
  /\ UNCHANGED <<docker, up, row, scan, busy, janitor, overtaken>>

\* docker run cannot start the container it may have created
SpawnRefused ==
  /\ In("spawn")
  /\ docker' \in {docker, docker \cup {Container, Volume}}
  /\ Fault
  /\ Outcome("refused")
  /\ Goes("rmContainer")
  /\ UNCHANGED <<up, row, scan, busy, janitor, overtaken>>

\* The command ends, by itself or because the janitor removed its container
Exit ==
  /\ In("running")
  /\ up' = up \ {Container}
  /\ \/ Container \in up /\ Outcome("exited") /\ Goes("collect")
     \/ \E o \in {"exited", "refused"} : Outcome(o) /\ Goes("rmContainer")
  /\ UNCHANGED <<docker, row, scan, busy, janitor, overtaken, faults>>

\* SIGKILL ends the docker command, not the container.  The timer is still
\* armed while the output of a command that has ended is collected.
Timeout ==
  /\ \/ In("running")
     \/ In("collect") /\ ~run.killed
  /\ run' = [run EXCEPT !.killed = TRUE,
               !.outcome = IF owner.pc = "running" THEN "exited" ELSE @]
  /\ Goes(IF owner.pc = "running" THEN "rmContainer" ELSE "collect")
  /\ UNCHANGED <<docker, up, row, scan, busy, janitor, overtaken, faults>>

OutputLimit ==
  /\ In("running")
  /\ \E late \in BOOLEAN : run' = [run EXCEPT !.outcome = "limit", !.killed = late]
  /\ Goes("rmContainer")
  /\ UNCHANGED <<docker, up, row, scan, busy, janitor, overtaken, faults>>

Collect ==
  /\ In("collect")
  /\ Container \in docker
  /\ Goes("rmContainer")
  /\ UNCHANGED <<docker, up, row, scan, busy, janitor, overtaken, faults, run>>

CollectFails ==
  /\ In("collect")
  /\ \/ Container \notin docker /\ NoFault /\ Outcome("uncollected")
     \/ Fault /\ \E o \in {"uncollected", "thrown"} : Outcome(o)
  /\ Goes("rmContainer")
  /\ UNCHANGED <<docker, up, row, scan, busy, janitor, overtaken>>

Removes(child, next) ==
  \/ RemoveSucceeds(child) /\ Goes(next)
  \/ RemoveFails(child) /\ owner' = [owner EXCEPT !.pc = next, !.failed = TRUE]

RemoveContainer ==
  /\ In("rmContainer")
  /\ Removes(Container, "rmVolume")
  /\ UNCHANGED <<row, scan, busy, janitor, overtaken, run>>

RemoveVolume ==
  /\ In("rmVolume")
  /\ Removes(Volume, "record")
  /\ UNCHANGED <<row, scan, busy, janitor, overtaken, run>>

\* Mutation: a failed cleanup is not part of the result
ResultWithoutCleanup ==
  CASE run.outcome \in {"uncollected", "limit", "no volume"} -> "error"
    [] run.outcome = "thrown" -> IF run.killed THEN "timed out" ELSE "error"
    [] run.killed -> "timed out"
    [] OTHER -> "ok"

\* What the executor returns: ok, not ok, or not ok and timed out
Result ==
  CASE owner.failed -> IF run.killed THEN "timed out" ELSE "error"
    [] run.outcome \in {"uncollected", "limit", "no volume"} -> "error"
    [] run.outcome = "thrown" -> IF run.killed THEN "timed out" ELSE "error"
    [] run.killed -> "timed out"
    [] OTHER -> "ok"

\* An executor that throws after its timer has fired has timed out
hasDockerError == Result = "error" \/ run.outcome = "refused"

\* The outcome of a run that had no Docker error; exit codes count as completed.
\* A fuzzer is expected to run until its time is over.
evaluateDynamicOutcome ==
  IF Result # "timed out" THEN {"completed"}
  ELSE CASE run.kind = "test" -> {"timed_out"}
         [] run.kind = "sanitizer" -> {"completed", "timed_out"}
         [] run.kind = "fuzz" -> {"completed"}

FinalStatus == IF hasDockerError THEN {"failed", "timed_out"} ELSE evaluateDynamicOutcome

\* What a killed command wrote may look like a failure of Docker as well
Record ==
  /\ In("record")
  /\ \E s \in FinalStatus \cup (IF run.killed THEN {"failed", "timed_out"} ELSE {}) : Status(s)
  /\ Goes("evidence")
  /\ UNCHANGED <<docker, up, row, scan, janitor, overtaken, faults>>

RecordThrows ==
  /\ In("record")
  /\ Fault
  /\ Goes("catch")
  /\ UNCHANGED <<docker, up, row, scan, busy, janitor, overtaken, run>>

Evidence ==
  /\ In("evidence")
  /\ owner' = [owner EXCEPT !.pc = "finally",
                 !.verdict = IF run.status = "completed" THEN "ok" ELSE "error"]
  /\ UNCHANGED <<docker, up, row, scan, busy, janitor, overtaken, faults, run>>

EvidenceThrows ==
  /\ In("evidence")
  /\ \/ scan = "deleted" /\ NoFault
     \/ scan # "deleted" /\ Fault
  /\ Goes("catch")
  /\ UNCHANGED <<docker, up, row, scan, busy, janitor, overtaken, run>>

Catch ==
  /\ In("catch")
  /\ \/ Status("failed") /\ NoFault
     \/ UNCHANGED <<busy, run>> /\ Fault
  /\ owner' = [owner EXCEPT !.pc = "finally", !.verdict = "error"]
  /\ UNCHANGED <<docker, up, row, scan, janitor, overtaken>>

\* Whatever the executor said of its cleanup; an error of release is ignored
Finally ==
  /\ In("finally")
  /\ \/ row' = (IF run.leased THEN Released({}) ELSE row) /\ NoFault
     \/ run.leased /\ UNCHANGED row /\ Fault
  /\ Goes(IF run.outDir THEN "finalize" ELSE "gone")
  /\ UNCHANGED <<docker, up, scan, busy, janitor, overtaken, run>>

\* A run that no manifest named outlives the deletion of its scan
finalizeTemporaryWorkspace ==
  /\ In("finalize")
  /\ Goes("gone")
  /\ UNCHANGED <<docker, up, row, scan, busy, janitor, overtaken, faults, run>>

\* The directory stays, the row cannot be read or is gone, or the receipt
\* cannot be stored: the last two may leave the status as it is
FinalizeThrows ==
  /\ In("finalize")
  /\ \/ scan = "deleted" /\ NoFault /\ UNCHANGED <<busy, run>>
     \/ scan # "deleted" /\ Fault /\ UNCHANGED <<busy, run>>
     \/ scan # "deleted" /\ Fault /\ Status("failed")
  /\ Ends("error")
  /\ UNCHANGED <<docker, up, row, scan, janitor, overtaken>>

DynamicInit ==
  run \in [kind : DynamicKinds, status : {"none"}, leased : {FALSE}, outDir : {FALSE},
           killed : {FALSE}, outcome : {"none"}]

DynamicNext ==
  \/ CreateRun \/ CreateRunFails \/ Prepare \/ PrepareThrows
  \/ CreateVolume \/ CreateVolumeFails
  \/ Spawn \/ SpawnThrows \/ SpawnRefused
  \/ Exit \/ Timeout \/ OutputLimit \/ Collect \/ CollectFails
  \/ RemoveContainer \/ RemoveVolume
  \/ Record \/ RecordThrows \/ Evidence \/ EvidenceThrows
  \/ Catch \/ Finally \/ finalizeTemporaryWorkspace \/ FinalizeThrows
=============================================================================

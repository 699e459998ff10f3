------------------------------ MODULE ProfileRun ------------------------------
(***************************************************************************)
(* One scan, seen from the process that carries it out: runProfileScan of  *)
(* modules/scans/execution.  It claims the scan's row, takes snapshots of  *)
(* what it will scan, plans, runs the profile's steps one after the other, *)
(* stops the runtime target the steps share, removes every temporary       *)
(* workspace and only then decides the row.  Every stage may throw, and    *)
(* each catch and finally block has its own idea of what to undo.          *)
(*                                                                         *)
(* Around it, the scan may be cancelled at any moment: the row changes     *)
(* under the run's feet, and the process is killed some time later.        *)
(***************************************************************************)
EXTENDS Naturals, Sequences

CONSTANTS
  Jobs,       \* what may be asked for: profile, target, provider, policy
  Severities, \* what one scanner may store, as sets of severities
  MaxFaults   \* bound: calls to the database that fail in one behaviour

(***************************************************************************)
(* A step of a profile.  policy is its requirement (required),             *)
(* failurePolicy "fail_profile" (fatal), warn_and_continue (optional) or a *)
(* declared advisory requirement; check is what the preflight found for    *)
(* it, "none" when no check names it; touched says whether a diff target   *)
(* has files for the tool.                                                 *)
(***************************************************************************)
Steps ==
  [kind : {"static", "runtime", "schema"},
   policy : {"required", "fatal", "optional", "advisory"},
   check : {"ready", "blocked", "none", "not_applicable"},
   touched : BOOLEAN]

Kinds == {"source", "runtime", "diff", "input"}

severityRank == [critical |-> 4, high |-> 3, medium |-> 2, low |-> 1, info |-> 0]

Thresholds == {"critical", "high", "medium", "low"}

(***************************************************************************)
(* target is "bare" for a full scan outside of Git, which has no snapshot; *)
(* provider says where runtime targets come from; gate is the threshold of *)
(* a gate policy, "missing" without one, or "advisory".                    *)
(***************************************************************************)
JobType ==
  [plan : Seq(Steps), strict : BOOLEAN, mode : {"enforced", "shadow"},
   continue : BOOLEAN, target : {"full", "diff", "bare"},
   provider : {"none", "factory", "injected"}, inputs : BOOLEAN,
   web : BOOLEAN, gate : Thresholds \cup {"missing", "advisory"}]

\* applyStrictProfileRequirements and the plan's own rule for required
Requirement(j, step) ==
  IF j.strict /\ step.policy # "advisory" THEN "required" ELSE step.policy

failureFailsProfile(j, step) == Requirement(j, step) \in {"required", "fatal"}

requiresRuntimeTarget(step) == step.kind \in {"runtime", "schema"}

Mode(j) == IF j.strict THEN "enforced" ELSE j.mode

(***************************************************************************)
(* The runtime steps of a profile are all fatal or none is: true of every  *)
(* profile in profiles.ts.  Without it a fatal step that is blocked by the *)
(* failed target of an optional one would fail nothing.                    *)
(***************************************************************************)
ASSUME JobsAssumption ==
  \A j \in Jobs :
    /\ j \in JobType
    /\ \A a, b \in DOMAIN j.plan :
         requiresRuntimeTarget(j.plan[a]) /\ requiresRuntimeTarget(j.plan[b])
           => (failureFailsProfile(j, j.plan[a]) <=> failureFailsProfile(j, j.plan[b]))

ASSUME FaultsAssumption == MaxFaults \in Nat

VARIABLES
  job,        \* the request, fixed
  pc,         \* the stage of runProfileScan
  row,        \* the scan's status in the database
  space,      \* the temporary workspaces
  session,    \* the shared RuntimeTargetSession
  lease,      \* the lease on an injected provider's target
  at,         \* the step being executed
  result,     \* stepResults, by step
  failing,    \* profileFailingToolFailed
  optional,   \* optionalToolFailed
  error,      \* an exception is on its way out
  findings,   \* severities of the findings stored so far
  verdict,    \* what the caller is told
  faults

target == <<session, lease>>
progress == <<at, result, failing, optional, findings>>
vars == <<job, pc, row, space, session, lease, at, result, failing, optional,
          error, findings, verdict, faults>>

NoVerdict == [status |-> "none", outcome |-> "none", gate |-> "none", ok |-> FALSE]

Init ==
  /\ job \in Jobs
  /\ pc = "prepare"
  /\ row = IF job.web THEN "queued" ELSE "none"
  /\ space = [k \in Kinds |-> "none"]
  /\ session = "idle"
  /\ lease = "none"
  /\ at = 1
  /\ result = [i \in DOMAIN job.plan |-> "none"]
  /\ failing = FALSE
  /\ optional \in IF job.target = "diff" THEN BOOLEAN ELSE {FALSE}  \* unsupported files
  /\ error = FALSE
  /\ findings = {}
  /\ verdict = NoVerdict
  /\ faults = 0

Ended == {"lost", "torn", "refused", "unfit", "failed", "returned", "killed"}

Fault ==
  /\ faults < MaxFaults
  /\ faults' = faults + 1

NoFault == UNCHANGED faults

\* updateScanRunStatus: a terminal row keeps its status
Decide(status) == row' = IF row \in {"queued", "running"} THEN status ELSE row

Made(s, kinds) == {k \in kinds : s[k] = "made"}

(***************************************************************************)
(* cleanupExecutionWorkspaces: every workspace is tried, whatever became   *)
(* of the others; bad are the ones that cannot be removed.                 *)
(***************************************************************************)
Swept(s, kinds, bad) ==
  [k \in Kinds |-> IF k \notin Made(s, kinds) THEN s[k]
                   ELSE IF k \in bad THEN "failed" ELSE "removed"]

Go(stage) ==
  /\ pc' = stage
  /\ UNCHANGED <<job, target, progress, error, verdict>>

-----------------------------------------------------------------------------
(***************************************************************************)
(* Admission.                                                              *)
(***************************************************************************)

\* The target, the profile or the scope cannot be resolved
PrepareThrows ==
  /\ pc = "prepare"
  /\ Go("lost")
  /\ UNCHANGED <<row, space, faults>>

\* A web scan claims its queued row, a CLI scan creates a running one
Claim ==
  /\ pc = "prepare"
  /\ row \in {"queued", "none"}
  /\ row' = "running"
  /\ Go("snapshot")
  /\ UNCHANGED <<space, faults>>

ClaimLost ==
  /\ pc = "prepare"
  /\ row \notin {"queued", "none"}
  /\ Go("lost")
  /\ UNCHANGED <<row, space, faults>>

needsIsolatedRuntime(j) ==
  /\ \E i \in DOMAIN j.plan : requiresRuntimeTarget(j.plan[i])
  /\ j.provider = "factory"
  /\ j.target = "full"

\* Only an isolated runtime needs its source before the plan is made
EarlySnapshot ==
  /\ pc = "snapshot"
  /\ space' = IF needsIsolatedRuntime(job)
              THEN [space EXCEPT !["source"] = "made", !["runtime"] = "made"]
              ELSE space
  /\ Go("plan")
  /\ UNCHANGED <<row, faults>>

(***************************************************************************)
(* The snapshot fails or differs from the preview, the factory throws (and *)
(* undoes its projection itself), or the metadata cannot be stored.  What  *)
(* there is is disposed of; the row stays as it is.                        *)
(***************************************************************************)
EarlySnapshotThrows ==
  /\ pc = "snapshot"
  /\ needsIsolatedRuntime(job)
  /\ \E made \in {{}, {"source"}, {"source", "runtime"}} :
       /\ IF "runtime" \in made THEN Fault ELSE NoFault
       /\ \E bad \in SUBSET made :
            space' = [k \in Kinds |-> IF k \notin made THEN space[k]
                                      ELSE IF k \in bad THEN "failed" ELSE "removed"]
  /\ Go("torn")
  /\ UNCHANGED row

\* A required step the preflight does not vouch for
executionPlanBlocks(j) ==
  \E i \in DOMAIN j.plan :
    /\ Requirement(j, j.plan[i]) = "required"
    /\ j.plan[i].check \in {"none", "blocked"}

preflightBlocksExecution(j) ==
  /\ Mode(j) = "enforced"
  /\ \E i \in DOMAIN j.plan :
       /\ Requirement(j, j.plan[i]) = "required"
       /\ j.plan[i].check = "blocked"

Plan ==
  /\ pc = "plan"
  /\ ~preflightBlocksExecution(job)
  /\ job.strict => ~executionPlanBlocks(job)
  /\ Go("inputs")
  /\ UNCHANGED <<row, space, faults>>

\* The plan or the preflight differs from the preview, or blocks the scan
PlanRefuses ==
  /\ pc = "plan"
  /\ Go("refuse")
  /\ UNCHANGED <<row, space, faults>>

\* An event, the metadata or the plan cannot be stored: nothing is undone
PlanThrows ==
  /\ pc \in {"snapshot", "plan"}
  /\ Fault
  /\ Go("torn")
  /\ UNCHANGED <<row, space>>

Refuse ==
  /\ pc = "refuse"
  /\ space' = Swept(space, {"source", "runtime"}, {})
  /\ Decide("failed")
  /\ verdict' = [status |-> "failed", outcome |-> "blocked", gate |-> "blocked", ok |-> FALSE]
  /\ pc' = "refused"
  /\ UNCHANGED <<job, target, progress, error, faults>>

\* The projection or the snapshot cannot be removed, or the row not written
RefuseThrows ==
  /\ pc = "refuse"
  /\ \/ /\ Fault
        /\ space' = Swept(space, {"source", "runtime"}, {})
        /\ Decide("failed") \/ UNCHANGED row
     \/ /\ space["source"] = "made"
        /\ \/ space' = Swept(space, {"runtime"}, {"runtime"})
           \/ space' = Swept(space, {"source", "runtime"}, {"source"})
        /\ NoFault
        /\ UNCHANGED row
  /\ Go("torn")

-----------------------------------------------------------------------------
(***************************************************************************)
(* The snapshots.  A stage that fails removes what its catch block names,  *)
(* fails the row and rethrows.                                             *)
(***************************************************************************)
\* MUTANT: the catch block cleans up and rethrows, and leaves the row alone
UnfitUndecided(s, kinds) ==
  /\ \E bad \in SUBSET Made(s, kinds) : space' = Swept(s, kinds, bad)
  /\ UNCHANGED <<row, faults>>
  /\ Go("unfit")

Unfit(s, kinds) ==
  /\ \E bad \in SUBSET Made(s, kinds) : space' = Swept(s, kinds, bad)
  /\ \/ Decide("failed") /\ NoFault
     \/ UNCHANGED row /\ Fault
  /\ Go("unfit")

\* The workspaces, with or without the one that the failing stage was making
HalfDone(k) == {space, [space EXCEPT ![k] = "made"]}

Inputs ==
  /\ pc = "inputs"
  /\ space' = IF job.inputs THEN [space EXCEPT !["input"] = "made"] ELSE space
  /\ Go("diff")
  /\ UNCHANGED <<row, faults>>

\* A file is missing, or its digest is no longer the preflight's.  The catch
\* block knows nothing of the snapshots that admission has made
InputsFail ==
  /\ pc = "inputs"
  /\ job.inputs
  /\ \E s \in HalfDone("input") : Unfit(s, {"input"})

hasApplicableTool(j) ==
  \E i \in DOMAIN j.plan : j.plan[i].kind = "static" /\ j.plan[i].touched

\* No snapshot is taken when nothing that changed is of interest to any tool
DiffTarget ==
  /\ pc = "diff"
  /\ space' = IF job.target = "diff" /\ hasApplicableTool(job)
              THEN [space EXCEPT !["diff"] = "made"] ELSE space
  /\ Go("source")
  /\ UNCHANGED <<row, faults>>

\* The target has changed since the preview, or its manifest is not stored
DiffFails ==
  /\ pc = "diff"
  /\ job.target = "diff"
  /\ \E s \in HalfDone("diff") :
       /\ s["diff"] = "made" => hasApplicableTool(job)
       /\ Unfit(s, {"diff", "input"})

\* The snapshot that admission has made, if any, is used
Source ==
  /\ pc = "source"
  /\ space' = IF job.target = "full" THEN [space EXCEPT !["source"] = "made"] ELSE space
  /\ Go("steps")
  /\ UNCHANGED <<row, faults>>

SourceFails ==
  /\ pc = "source"
  /\ job.target = "full" /\ space["source"] = "none"
  /\ \E s \in HalfDone("source") : Unfit(s, {"source", "runtime", "input"})

-----------------------------------------------------------------------------
(***************************************************************************)
(* The steps.  Each one leaves a result, and then its scan.step.finished   *)
(* event is written, whose failure ends the loop.                          *)
(***************************************************************************)
step == job.plan[at]

Stepping ==
  /\ pc = "steps"
  /\ at <= Len(job.plan)
  /\ pc' = "stepped"
  /\ UNCHANGED <<job, row, space, at, error, verdict>>

Results(outcome) == result' = [result EXCEPT ![at] = outcome]

\* The flags of a step that failed or was blocked by the preflight
Flag ==
  /\ failing' = (failing \/ failureFailsProfile(job, step))
  /\ optional' = (optional \/ ~failureFailsProfile(job, step))

NoFlag == UNCHANGED <<failing, optional>>

preflightBlocked == Mode(job) = "enforced" /\ step.check = "blocked"

runtimeBlocked == requiresRuntimeTarget(step) /\ session = "failed"

\* None of the conditions under which a step is not executed
Executes ==
  /\ step.check # "not_applicable"
  /\ ~preflightBlocked
  /\ ~runtimeBlocked
  /\ failing => job.continue
  /\ job.target = "diff" /\ step.kind = "static" => step.touched

StepNotApplicable ==
  /\ Stepping
  /\ step.check = "not_applicable"
  /\ Results("not_applicable")
  /\ NoFlag
  /\ UNCHANGED <<target, findings, faults>>

StepPreflightBlocked ==
  /\ Stepping
  /\ preflightBlocked
  /\ Results("blocked")
  /\ Flag
  /\ UNCHANGED <<target, findings, faults>>

\* MUTANT: the loop continues without recording the blocked step
StepRuntimeBlockedSilently ==
  /\ Stepping
  /\ step.check # "not_applicable" /\ ~preflightBlocked
  /\ runtimeBlocked
  /\ UNCHANGED <<target, result, failing, optional, findings, faults>>

\* The shared target has failed before: no second attempt, and no flag
StepRuntimeBlocked ==
  /\ Stepping
  /\ step.check # "not_applicable" /\ ~preflightBlocked
  /\ runtimeBlocked
  /\ Results("blocked")
  /\ NoFlag
  /\ UNCHANGED <<target, findings, faults>>

StepSkipped ==
  /\ Stepping
  /\ step.check # "not_applicable" /\ ~preflightBlocked /\ ~runtimeBlocked
  /\ failing /\ ~job.continue
  /\ Results("skipped")
  /\ NoFlag
  /\ UNCHANGED <<target, findings, faults>>

StepDiffNotApplicable ==
  /\ Stepping
  /\ step.check # "not_applicable" /\ ~preflightBlocked
  /\ failing => job.continue
  /\ job.target = "diff" /\ step.kind = "static" /\ ~step.touched
  /\ Results("not_applicable")
  /\ NoFlag
  /\ UNCHANGED <<target, findings, faults>>

(***************************************************************************)
(* What a scanner does: it completes or fails, with findings either way.   *)
(* A diff scan may find what it cannot attribute to a changed line, a DAST *)
(* run may not cover its target: they complete, with a warning.            *)
(***************************************************************************)
Partial == step.kind = "runtime" \/ job.target = "diff"

Scans ==
  /\ \/ Results("completed") /\ NoFlag
     \/ Partial /\ Results("completed") /\ optional' = TRUE /\ UNCHANGED failing
     \/ Results("failed") /\ Flag
  /\ \E found \in Severities : findings' = findings \cup found

StepStatic ==
  /\ Stepping
  /\ step.kind = "static" /\ Executes
  /\ Scans
  /\ UNCHANGED <<target, faults>>

\* The repository has no API schema, or none the scanner can use
StepSchemaNotApplicable ==
  /\ Stepping
  /\ step.kind = "schema" /\ Executes
  /\ Results("not_applicable")
  /\ NoFlag
  /\ UNCHANGED <<target, findings, faults>>

(***************************************************************************)
(* ensureSharedRuntimeTarget and the scan.  The target is prepared by the  *)
(* first step that needs it; only an injected provider leaves its lease to *)
(* the orchestrator.                                                       *)
(***************************************************************************)
Leased == lease # "none" \/ job.provider # "injected"

StepRuntime ==
  /\ Stepping
  /\ requiresRuntimeTarget(step) /\ Executes
  /\ job.provider # "none"
  /\ session' = "ready"
  /\ lease' = IF Leased THEN lease ELSE "active"
  /\ Scans
  /\ UNCHANGED faults

StepRuntimeUnprepared ==
  /\ Stepping
  /\ requiresRuntimeTarget(step) /\ Executes
  /\ session = "idle"
  /\ session' = "failed"
  /\ Results("failed")
  /\ Flag
  /\ UNCHANGED <<lease, findings, faults>>

\* The target is up, but its lease cannot be stored: the step has failed
StepRuntimeUnleased ==
  /\ Stepping
  /\ requiresRuntimeTarget(step) /\ Executes
  /\ job.provider # "none" /\ ~Leased
  /\ Fault
  /\ session' = "ready"
  /\ Results("failed")
  /\ Flag
  /\ UNCHANGED <<lease, findings>>

StepFinished ==
  /\ pc = "stepped"
  /\ at' = at + 1
  /\ pc' = "steps"
  /\ UNCHANGED <<job, row, space, target, result, failing, optional, error,
                 findings, verdict, faults>>

\* An event cannot be written
StepThrows ==
  /\ pc \in {"steps", "stepped"}
  /\ Fault
  /\ error' = TRUE
  /\ pc' = "dispose"
  /\ UNCHANGED <<job, row, space, target, progress, verdict>>

StepsEnd ==
  /\ pc = "steps"
  /\ at > Len(job.plan)
  /\ Go("dispose")
  /\ UNCHANGED <<row, space, faults>>

-----------------------------------------------------------------------------
(***************************************************************************)
(* The end: the target, the workspaces, the row.                           *)
(***************************************************************************)

\* Stopping a target of the factory also disposes of its projection, which
\* is tried once: the second call of dispose returns at once
Stopped(bad) ==
  IF session = "ready" THEN Swept(space, {"runtime"}, bad) ELSE space

\* dispose() and release(), or nothing for a session that was never used
Dispose ==
  /\ pc = "dispose"
  /\ session' = IF session = "idle" THEN "idle" ELSE "disposed"
  /\ space' = Stopped({})
  /\ lease' = IF lease = "active" THEN "released" ELSE lease
  /\ pc' = "cleanup"
  /\ UNCHANGED <<job, row, progress, error, verdict, faults>>

\* The target does not stop, its projection stays, or the release fails; the
\* lease is quarantined, unless that fails too
DisposeFails ==
  /\ pc = "dispose"
  /\ session = "ready"
  /\ session' = "disposed"
  /\ \/ /\ \E bad \in SUBSET {"runtime"} : space' = Stopped(bad)
        /\ \/ NoFault /\ lease' = IF lease = "active" THEN "quarantined" ELSE lease
           \/ lease = "active" /\ Fault /\ UNCHANGED lease
     \/ /\ lease = "active"
        /\ Fault
        /\ lease' = "quarantined"
        /\ space' = Stopped({})
  /\ error' = TRUE
  /\ pc' = "cleanup"
  /\ UNCHANGED <<job, row, progress, verdict>>

\* MUTANT: failed removals are receipted and then forgotten
CleanupForgives ==
  /\ pc = "cleanup"
  /\ \E bad \in SUBSET Made(space, Kinds) : space' = Swept(space, Kinds, bad)
  /\ pc' = IF error THEN "fail" ELSE "finalize"
  /\ UNCHANGED <<job, row, target, progress, error, verdict, faults>>

\* MUTANT: cleanup is what follows a success, and not a finally block
CleanupOnSuccess ==
  /\ pc = "cleanup"
  /\ space' = IF error THEN space ELSE Swept(space, Kinds, {})
  /\ pc' = IF error THEN "fail" ELSE "finalize"
  /\ UNCHANGED <<job, row, target, progress, error, verdict, faults>>

\* The finally block: a workspace that cannot be removed, or a receipt that
\* cannot be stored, turns even a successful run into a failed one
Cleanup ==
  /\ pc = "cleanup"
  /\ \E bad \in SUBSET Made(space, Kinds) :
       /\ space' = Swept(space, Kinds, bad)
       /\ \/ error' = (error \/ bad # {}) /\ NoFault
          \/ error' = TRUE /\ Fault
  /\ pc' = IF error' THEN "fail" ELSE "finalize"
  /\ UNCHANGED <<job, row, target, progress, verdict>>

Fail ==
  /\ pc = "fail"
  /\ \/ Decide("failed") /\ NoFault
     \/ UNCHANGED row /\ Fault
  /\ Go("failed")
  /\ UNCHANGED space

\* Findings at or above the threshold
Blocking(threshold) ==
  {f \in findings \cap DOMAIN severityRank : severityRank[f] >= severityRank[threshold]}

evaluateScanGate(outcome) ==
  CASE job.gate = "advisory" -> "not_requested"
    [] job.gate # "advisory" /\ (outcome = "failed" \/ job.gate = "missing") -> "blocked"
    [] OTHER -> IF ~(findings \subseteq DOMAIN severityRank) THEN "blocked"
                ELSE IF Blocking(job.gate) = {} THEN "pass" ELSE "fail"

(***************************************************************************)
(* limited stands for the coverage ledger and the coverage of source and   *)
(* runtime assessments, which can only turn success into success with      *)
(* warnings.                                                               *)
(***************************************************************************)
profileOutcome(limited) ==
  IF failing THEN "failed"
  ELSE IF optional \/ limited THEN "completed_with_warnings" ELSE "completed"

Report(outcome) ==
  LET gate == evaluateScanGate(outcome)
  IN  [status |-> IF outcome = "failed" THEN "failed" ELSE "completed",
       outcome |-> outcome, gate |-> gate,
       ok |-> outcome # "failed" /\ gate \notin {"fail", "blocked"}]

Finalize ==
  /\ pc = "finalize"
  /\ \E limited \in BOOLEAN :
       /\ verdict' = Report(profileOutcome(limited))
       /\ Decide(verdict'.status)
  /\ pc' = "returned"
  /\ UNCHANGED <<job, space, target, progress, error, faults>>

\* The findings cannot be read, or the row or the event cannot be written
FinalizeThrows ==
  /\ pc = "finalize"
  /\ Fault
  /\ \/ UNCHANGED row
     \/ Decide(Report(profileOutcome(FALSE)).status)
  /\ Go("torn")
  /\ UNCHANGED space

-----------------------------------------------------------------------------
(***************************************************************************)
(* The environment: ScanProcessSupervisor cancels the scan, and its signal *)
(* ends the process, which has no handler for it.                          *)
(***************************************************************************)
Cancel ==
  /\ row \in {"queued", "running"}
  /\ row' = "cancelled"
  /\ UNCHANGED <<job, pc, space, target, progress, error, verdict, faults>>

Kill ==
  /\ pc \notin Ended
  /\ row = "cancelled"
  /\ Go("killed")
  /\ UNCHANGED <<row, space, faults>>

Admission ==
  \/ PrepareThrows \/ Claim \/ ClaimLost
  \/ EarlySnapshot \/ EarlySnapshotThrows
  \/ Plan \/ PlanRefuses \/ PlanThrows
  \/ Refuse \/ RefuseThrows

Snapshots ==
  \/ Inputs \/ InputsFail
  \/ DiffTarget \/ DiffFails
  \/ Source \/ SourceFails

Execution ==
  \/ StepNotApplicable \/ StepPreflightBlocked \/ StepRuntimeBlocked
  \/ StepSkipped \/ StepDiffNotApplicable
  \/ StepStatic
  \/ StepSchemaNotApplicable
  \/ StepRuntime \/ StepRuntimeUnprepared \/ StepRuntimeUnleased
  \/ StepFinished \/ StepThrows \/ StepsEnd

Conclusion ==
  \/ Dispose \/ DisposeFails
  \/ Cleanup
  \/ Fail
  \/ Finalize \/ FinalizeThrows

Next ==
  \/ Admission \/ Snapshots \/ Execution \/ Conclusion
  \/ Cancel \/ Kill

Spec == Init /\ [][Next]_vars

-----------------------------------------------------------------------------
(***************************************************************************)
(* Correctness.                                                            *)
(***************************************************************************)

\* Types, and the bookkeeping of executeProfileSteps: the steps that are
\* behind have a result and the ones ahead have none, and a lease is only
\* held on a target that was prepared
TypeOK ==
  /\ job \in JobType
  /\ pc \in Ended \cup {"prepare", "snapshot", "plan", "refuse", "inputs", "diff", "source",
                        "steps", "stepped", "dispose", "cleanup", "fail", "finalize"}
  /\ row \in {"none", "queued", "running", "completed", "failed", "cancelled"}
  /\ space \in [Kinds -> {"none", "made", "removed", "failed"}]
  /\ session \in {"idle", "ready", "failed", "disposed"}
  /\ lease \in {"none", "active", "released", "quarantined"}
  /\ at \in 1 .. Len(job.plan) + 1
  /\ {failing, optional, error} \subseteq BOOLEAN
  /\ findings \subseteq UNION Severities
  /\ faults \in 0 .. MaxFaults
  /\ \A i \in DOMAIN job.plan : /\ i < at => result[i] # "none"
                                /\ i > at => result[i] = "none"
  /\ lease # "none" => session \in {"ready", "disposed"}

Succeeded == row = "completed" \/ verdict.ok

(***************************************************************************)
(* A scan that is called a success is one: every step whose failure fails  *)
(* the profile has completed or did not apply, nothing that could not be   *)
(* removed is left behind, no target is left running, and a gate that says *)
(* ok has seen nothing at or above its threshold and nothing it cannot     *)
(* rank.  "completed" without warnings means that no step at all failed.   *)
(* (profile-step-orchestrator's flags, the error paths of cleanup, and     *)
(* evaluateScanGate must agree.)                                           *)
(***************************************************************************)
FailClosed ==
  /\ Succeeded =>
       /\ \A i \in DOMAIN job.plan :
            failureFailsProfile(job, job.plan[i]) => result[i] \in {"completed", "not_applicable"}
       /\ \A k \in Kinds : space[k] \in {"none", "removed"}
       /\ session \in {"idle", "disposed"}
       /\ lease \in {"none", "released"}
  /\ verdict.ok /\ job.gate # "advisory" =>
       /\ findings \subseteq DOMAIN severityRank
       /\ Blocking(job.gate) = {}
  /\ verdict.outcome = "completed" =>
       \A i \in DOMAIN job.plan : result[i] \in {"completed", "not_applicable"}

(***************************************************************************)
(* However runProfileScan ends once it is admitted, it has tried to remove *)
(* every workspace it made and has stopped its target, and no lease stays  *)
(* active unless the database refused.  One hole is known and named: when  *)
(* the profile inputs fail, the source and the runtime projection that     *)
(* admission made stay behind.                                             *)
(***************************************************************************)
NothingLeftOver ==
  pc \in {"refused", "unfit", "failed", "returned"} =>
    /\ session \in {"idle", "disposed"}
    /\ lease = "active" => faults > 0
    /\ \A k \in Kinds :
         space[k] = "made" =>
           pc = "unfit" /\ needsIsolatedRuntime(job) /\ k \in {"source", "runtime"}

(***************************************************************************)
(* A run that ends past admission, with a working database, leaves a       *)
(* decided row: whichever stage threw has failed it, and what the caller   *)
(* is told is what the row says, unless the scan was cancelled meanwhile.  *)
(***************************************************************************)
EndsDecided ==
  pc \in {"refused", "unfit", "failed", "returned"} /\ faults = 0 =>
    /\ row \in {"completed", "failed", "cancelled"}
    /\ pc \in {"refused", "returned"} => row \in {verdict.status, "cancelled"}
    /\ pc \in {"unfit", "failed"} => row # "completed"
=============================================================================

-------------------------- MODULE ProfileRun_proofs --------------------------
(***************************************************************************)
(* Proofs about ProfileRun, for every profile, every length of its plan,   *)
(* any severities and any number of faults: its types, and that it fails   *)
(* closed (FailClosed), leaves nothing behind (NothingLeftOver) and        *)
(* decides its row (EndsDecided).                                          *)
(***************************************************************************)
EXTENDS ProfileRun, TLAPS

StepResults == {"none", "completed", "failed", "blocked", "skipped", "not_applicable"}

Passed == {"completed", "not_applicable"}

Verdicts ==
  [status : {"none", "failed", "completed"},
   outcome : {"none", "blocked", "failed", "completed", "completed_with_warnings"},
   gate : {"none", "blocked", "not_requested", "pass", "fail"}, ok : BOOLEAN]

Typed ==
  /\ TypeOK
  /\ job \in Jobs
  /\ result \in [DOMAIN job.plan -> StepResults]
  /\ verdict \in Verdicts

\* Admission and the snapshots
Early == {"prepare", "snapshot", "plan", "refuse", "inputs", "diff", "source"}

\* All of the run before the target is stopped
Working == Early \cup {"steps", "stepped", "dispose"}

\* What is true of row, target and verdict at each stage
Staged ==
  /\ pc = "prepare" => row \in {"none", "queued", "cancelled"}
  /\ pc \in (Working \ {"prepare"}) \cup {"cleanup", "fail", "finalize"}
       => row \in {"running", "cancelled"}
  /\ row = "completed" => pc \in {"torn", "returned"}
  /\ pc \notin {"refused", "returned"} => verdict = NoVerdict
  /\ pc \in Early \cup {"refused", "unfit"} => session = "idle" /\ lease = "none"
  /\ pc \in Working => session # "disposed" /\ lease \in {"none", "active"}
  /\ pc = "stepped" => at <= Len(job.plan) /\ result[at] # "none"
  /\ pc \in {"dispose", "cleanup"} /\ ~error => at > Len(job.plan)
  /\ pc \in {"cleanup", "fail", "finalize", "failed", "returned"} =>
       /\ session \in {"idle", "disposed"}
       /\ lease = "active" => faults > 0
  /\ pc = "cleanup" /\ ~error => lease \in {"none", "released"}

\* Which workspaces there may be at each stage
Spaces ==
  /\ pc \in Working => \A k \in Kinds : space[k] \in {"none", "made"}
  /\ pc \in {"prepare", "snapshot"} => \A k \in Kinds : space[k] = "none"
  /\ pc \in {"plan", "refuse", "inputs"} => space["diff"] = "none" /\ space["input"] = "none"
  /\ pc \in {"diff", "source"} /\ space["diff"] # "none" => job.target = "diff"
  /\ pc \in Early => \A k \in {"source", "runtime"} :
                       space[k] # "none" => needsIsolatedRuntime(job)
  /\ pc = "cleanup" /\ ~error => \A k \in Kinds : space[k] # "failed"
  /\ pc \in {"fail", "failed", "finalize", "returned"} =>
       \A k \in Kinds : space[k] # "made"

\* While no flag is raised every step so far has passed.  A step blocked by the
\* failed target raises none: the step that failed it has, and the runtime
\* steps of a profile are all fatal or none is
Flags ==
  /\ ~failing =>
       \A i \in DOMAIN job.plan :
         failureFailsProfile(job, job.plan[i]) /\ result[i] # "none" => result[i] \in Passed
  /\ ~failing /\ ~optional =>
       \A i \in DOMAIN job.plan : result[i] # "none" => result[i] \in Passed
  /\ session = "failed" =>
       /\ failing \/ optional
       /\ \/ failing
          \/ \A i \in DOMAIN job.plan :
               requiresRuntimeTarget(job.plan[i]) => ~failureFailsProfile(job, job.plan[i])

\* The state in which a success may be reported
Done ==
  /\ at > Len(job.plan)
  /\ \A k \in Kinds : space[k] \in {"none", "removed"}
  /\ session \in {"idle", "disposed"}
  /\ lease \in {"none", "released"}

Concluded ==
  /\ pc = "finalize" => Done
  /\ row = "completed" \/ verdict.ok => Done /\ ~failing
  /\ verdict.outcome = "completed" => Done /\ ~failing /\ ~optional
  /\ verdict.ok /\ job.gate # "advisory" =>
       /\ findings \subseteq DOMAIN severityRank
       /\ Blocking(job.gate) = {}

RunInv ==
  Typed /\ Staged /\ Spaces /\ Flags /\ Concluded /\ NothingLeftOver /\ EndsDecided

-----------------------------------------------------------------------------
(* What the helpers of the model do to workspaces, results and rows *)

SpaceStates == {"none", "made", "removed", "failed"}

\* cleanupExecutionWorkspaces removes or fails what was made of the given
\* kinds, and leaves the rest alone
LEMMA SweptFacts ==
  ASSUME NEW s \in [Kinds -> SpaceStates], NEW kinds \in SUBSET Kinds, NEW bad
  PROVE  /\ Swept(s, kinds, bad) \in [Kinds -> SpaceStates]
         /\ \A k \in Kinds :
              /\ k \notin kinds => Swept(s, kinds, bad)[k] = s[k]
              /\ s[k] # "made" => Swept(s, kinds, bad)[k] = s[k]
              /\ k \in kinds => Swept(s, kinds, bad)[k] # "made"
              /\ s[k] = "made" /\ k \in kinds /\ k \notin bad
                   => Swept(s, kinds, bad)[k] = "removed"
BY DEF Swept, Made, SpaceStates

\* A workspace more, as a stage that makes one leaves it
LEMMA MadeFacts ==
  ASSUME NEW s \in [Kinds -> SpaceStates], NEW k \in Kinds
  PROVE  /\ [s EXCEPT ![k] = "made"] \in [Kinds -> SpaceStates]
         /\ [s EXCEPT ![k] = "made"][k] = "made"
         /\ \A j \in Kinds \ {k} : [s EXCEPT ![k] = "made"][j] = s[j]
BY DEF SpaceStates

\* The result of one step
LEMMA ResultFacts ==
  ASSUME Typed, at <= Len(job.plan), NEW o \in StepResults \ {"none"}, Results(o)
  PROVE  /\ result' \in [DOMAIN job.plan -> StepResults]
         /\ at \in DOMAIN job.plan /\ result'[at] = o
         /\ \A i \in DOMAIN job.plan \ {at} : result'[i] = result[i]
<1>1. at \in DOMAIN job.plan
  <2>1. job.plan \in Seq(Steps) /\ at \in Nat /\ at >= 1
    BY DEF Typed, TypeOK, JobType
  <2> QED BY <2>1
<1> QED BY <1>1 DEF Results, Typed

\* What the caller is told: a failure if a fatal step failed, and ok only if the
\* gate has seen nothing that blocks
LEMMA ReportFacts ==
  ASSUME Typed, NEW limited \in BOOLEAN, NEW v, v = Report(profileOutcome(limited))
  PROVE  /\ v \in Verdicts /\ v.status \in {"completed", "failed"}
         /\ v.status = "completed" => ~failing
         /\ v.ok => ~failing
         /\ v.outcome = "completed" => ~failing /\ ~optional
         /\ v.ok /\ job.gate # "advisory" =>
              findings \subseteq DOMAIN severityRank /\ Blocking(job.gate) = {}
<1> DEFINE o == profileOutcome(limited)
           g == evaluateScanGate(o)
<1>1. /\ o \in {"failed", "completed", "completed_with_warnings"}
      /\ o # "failed" => ~failing
      /\ o = "completed" => ~failing /\ ~optional
  BY DEF profileOutcome
<1>2. /\ g \in {"blocked", "not_requested", "pass", "fail"}
      /\ g \notin {"fail", "blocked"} /\ job.gate # "advisory" =>
           findings \subseteq DOMAIN severityRank /\ Blocking(job.gate) = {}
  BY DEF evaluateScanGate
<1>3. v = [status |-> IF o = "failed" THEN "failed" ELSE "completed", outcome |-> o,
           gate |-> g, ok |-> (o # "failed" /\ g \notin {"fail", "blocked"})]
  BY DEF Report
<1> HIDE DEF o, g
<1>4. /\ v.status = (IF o = "failed" THEN "failed" ELSE "completed")
      /\ v.outcome = o /\ v.gate = g
      /\ v.ok = (o # "failed" /\ g \notin {"fail", "blocked"})
  BY <1>3
<1>5. v \in Verdicts
  BY <1>1, <1>2, <1>3 DEF Verdicts
<1> QED BY <1>1, <1>2, <1>4, <1>5

-----------------------------------------------------------------------------
(* Every step preserves the invariant *)

\* Admission and its refusals
LEMMA AdmissionStep ==
  ASSUME RunInv, Admission
  PROVE  RunInv'
<1> USE DEF RunInv
<1>1. CASE PrepareThrows
  <2>1. /\ pc = "prepare" /\ pc' = "lost"
        /\ UNCHANGED <<job, row, space, session, lease, at, result, failing,
                        optional, error, findings, verdict, faults>>
    BY <1>1 DEF PrepareThrows, Go, target, progress, Typed, TypeOK
  <2>2. Typed'
    BY <2>1, FaultsAssumption DEF Typed, TypeOK, SpaceStates, Ended
  <2>3. Staged'
    BY <2>1 DEF Staged, Typed, TypeOK, Working, Early, NoVerdict
  <2>4. Spaces'
    BY <2>1 DEF Spaces, Typed, TypeOK, Working, Early, Kinds, SpaceStates
  <2>5. Flags'
    BY <2>1 DEF Flags, Typed, TypeOK, Passed, StepResults
  <2>6. Concluded'
    BY <2>1 DEF Concluded, Done, Blocking, Staged, Spaces, Typed, TypeOK, SpaceStates,
       NoVerdict
  <2>7. NothingLeftOver'
    BY <2>1 DEF NothingLeftOver, Staged, Spaces, Typed, TypeOK, Working, Early, Kinds
  <2>8. EndsDecided'
    BY <2>1 DEF EndsDecided, Staged, Typed, TypeOK, Working, Early
  <2> QED BY <2>2, <2>3, <2>4, <2>5, <2>6, <2>7, <2>8
<1>2. CASE Claim
  <2>1. /\ pc = "prepare" /\ pc' = "snapshot"
        /\ row' = "running"
        /\ UNCHANGED <<job, space, session, lease, at, result, failing, optional,
                        error, findings, verdict, faults>>
    BY <1>2 DEF Claim, Go, target, progress, Typed, TypeOK
  <2>2. Typed'
    BY <2>1, FaultsAssumption DEF Typed, TypeOK, SpaceStates, Ended
  <2>3. Staged'
    BY <2>1 DEF Staged, Typed, TypeOK, Working, Early, NoVerdict
  <2>4. Spaces'
    BY <2>1 DEF Spaces, Typed, TypeOK, Working, Early, Kinds, SpaceStates
  <2>5. Flags'
    BY <2>1 DEF Flags, Typed, TypeOK, Passed, StepResults
  <2>6. Concluded'
    BY <2>1 DEF Concluded, Done, Blocking, Staged, Spaces, Typed, TypeOK, SpaceStates,
       NoVerdict
  <2>7. NothingLeftOver'
    BY <2>1 DEF NothingLeftOver, Staged, Spaces, Typed, TypeOK, Working, Early, Kinds
  <2>8. EndsDecided'
    BY <2>1 DEF EndsDecided, Staged, Typed, TypeOK, Working, Early
  <2> QED BY <2>2, <2>3, <2>4, <2>5, <2>6, <2>7, <2>8
<1>3. CASE ClaimLost
  <2>1. /\ pc = "prepare" /\ pc' = "lost"
        /\ UNCHANGED <<job, row, space, session, lease, at, result, failing,
                        optional, error, findings, verdict, faults>>
    BY <1>3 DEF ClaimLost, Go, target, progress, Typed, TypeOK
  <2>2. Typed'
    BY <2>1, FaultsAssumption DEF Typed, TypeOK, SpaceStates, Ended
  <2>3. Staged'
    BY <2>1 DEF Staged, Typed, TypeOK, Working, Early, NoVerdict
  <2>4. Spaces'
    BY <2>1 DEF Spaces, Typed, TypeOK, Working, Early, Kinds, SpaceStates
  <2>5. Flags'
    BY <2>1 DEF Flags, Typed, TypeOK, Passed, StepResults
  <2>6. Concluded'
    BY <2>1 DEF Concluded, Done, Blocking, Staged, Spaces, Typed, TypeOK, SpaceStates,
       NoVerdict
  <2>7. NothingLeftOver'
    BY <2>1 DEF NothingLeftOver, Staged, Spaces, Typed, TypeOK, Working, Early, Kinds
  <2>8. EndsDecided'
    BY <2>1 DEF EndsDecided, Staged, Typed, TypeOK, Working, Early
  <2> QED BY <2>2, <2>3, <2>4, <2>5, <2>6, <2>7, <2>8
<1>4. CASE EarlySnapshot
  <2>1. /\ pc = "snapshot" /\ pc' = "plan"
        /\ space' \in [Kinds -> SpaceStates]
        /\ \A k \in Kinds :
             space'[k] = IF needsIsolatedRuntime(job) /\ k \in {"source", "runtime"}
                         THEN "made" ELSE space[k]
        /\ UNCHANGED <<job, row, session, lease, at, result, failing, optional,
                        error, findings, verdict, faults>>
    BY <1>4, SweptFacts, MadeFacts DEF EarlySnapshot, Go, target, progress, Kinds,
       SpaceStates, Typed, TypeOK
  <2>2. Typed'
    BY <2>1, FaultsAssumption DEF Typed, TypeOK, SpaceStates, Ended
  <2>3. Staged'
    BY <2>1 DEF Staged, Typed, TypeOK, Working, Early, NoVerdict
  <2>4. Spaces'
    BY <2>1 DEF Spaces, Typed, TypeOK, Working, Early, Kinds, SpaceStates
  <2>5. Flags'
    BY <2>1 DEF Flags, Typed, TypeOK, Passed, StepResults
  <2>6. Concluded'
    BY <2>1 DEF Concluded, Done, Blocking, Staged, Spaces, Typed, TypeOK, SpaceStates,
       NoVerdict
  <2>7. NothingLeftOver'
    BY <2>1 DEF NothingLeftOver, Staged, Spaces, Typed, TypeOK, Working, Early, Kinds
  <2>8. EndsDecided'
    BY <2>1 DEF EndsDecided, Staged, Typed, TypeOK, Working, Early
  <2> QED BY <2>2, <2>3, <2>4, <2>5, <2>6, <2>7, <2>8
<1>5. CASE EarlySnapshotThrows
  <2>1. /\ pc = "snapshot" /\ pc' = "torn"
        /\ space' \in [Kinds -> SpaceStates]
        /\ faults' \in 0 .. MaxFaults /\ faults' >= faults
        /\ UNCHANGED <<job, row, session, lease, at, result, failing, optional,
                        error, findings, verdict>>
    BY <1>5, SweptFacts, MadeFacts, FaultsAssumption DEF EarlySnapshotThrows, Go,
       target, progress, Fault, NoFault, Kinds, SpaceStates, Typed, TypeOK
  <2>2. Typed'
    BY <2>1, FaultsAssumption DEF Typed, TypeOK, SpaceStates, Ended
  <2>3. Staged'
    BY <2>1 DEF Staged, Typed, TypeOK, Working, Early, NoVerdict
  <2>4. Spaces'
    BY <2>1 DEF Spaces, Typed, TypeOK, Working, Early, Kinds, SpaceStates
  <2>5. Flags'
    BY <2>1 DEF Flags, Typed, TypeOK, Passed, StepResults
  <2>6. Concluded'
    BY <2>1 DEF Concluded, Done, Blocking, Staged, Spaces, Typed, TypeOK, SpaceStates,
       NoVerdict
  <2>7. NothingLeftOver'
    BY <2>1 DEF NothingLeftOver, Staged, Spaces, Typed, TypeOK, Working, Early, Kinds
  <2>8. EndsDecided'
    BY <2>1 DEF EndsDecided, Staged, Typed, TypeOK, Working, Early
  <2> QED BY <2>2, <2>3, <2>4, <2>5, <2>6, <2>7, <2>8
<1>6. CASE Plan
  <2>1. /\ pc = "plan" /\ pc' = "inputs"
        /\ UNCHANGED <<job, row, space, session, lease, at, result, failing,
                        optional, error, findings, verdict, faults>>
    BY <1>6 DEF Plan, Go, target, progress, Typed, TypeOK
  <2>2. Typed'
    BY <2>1, FaultsAssumption DEF Typed, TypeOK, SpaceStates, Ended
  <2>3. Staged'
    BY <2>1 DEF Staged, Typed, TypeOK, Working, Early, NoVerdict
  <2>4. Spaces'
    BY <2>1 DEF Spaces, Typed, TypeOK, Working, Early, Kinds, SpaceStates
  <2>5. Flags'
    BY <2>1 DEF Flags, Typed, TypeOK, Passed, StepResults
  <2>6. Concluded'
    BY <2>1 DEF Concluded, Done, Blocking, Staged, Spaces, Typed, TypeOK, SpaceStates,
       NoVerdict
  <2>7. NothingLeftOver'
    BY <2>1 DEF NothingLeftOver, Staged, Spaces, Typed, TypeOK, Working, Early, Kinds
  <2>8. EndsDecided'
    BY <2>1 DEF EndsDecided, Staged, Typed, TypeOK, Working, Early
  <2> QED BY <2>2, <2>3, <2>4, <2>5, <2>6, <2>7, <2>8
<1>7. CASE PlanRefuses
  <2>1. /\ pc = "plan" /\ pc' = "refuse"
        /\ UNCHANGED <<job, row, space, session, lease, at, result, failing,
                        optional, error, findings, verdict, faults>>
    BY <1>7 DEF PlanRefuses, Go, target, progress, Typed, TypeOK
  <2>2. Typed'
    BY <2>1, FaultsAssumption DEF Typed, TypeOK, SpaceStates, Ended
  <2>3. Staged'
    BY <2>1 DEF Staged, Typed, TypeOK, Working, Early, NoVerdict
  <2>4. Spaces'
    BY <2>1 DEF Spaces, Typed, TypeOK, Working, Early, Kinds, SpaceStates
  <2>5. Flags'
    BY <2>1 DEF Flags, Typed, TypeOK, Passed, StepResults
  <2>6. Concluded'
    BY <2>1 DEF Concluded, Done, Blocking, Staged, Spaces, Typed, TypeOK, SpaceStates,
       NoVerdict
  <2>7. NothingLeftOver'
    BY <2>1 DEF NothingLeftOver, Staged, Spaces, Typed, TypeOK, Working, Early, Kinds
  <2>8. EndsDecided'
    BY <2>1 DEF EndsDecided, Staged, Typed, TypeOK, Working, Early
  <2> QED BY <2>2, <2>3, <2>4, <2>5, <2>6, <2>7, <2>8
<1>8. CASE PlanThrows
  <2>1. /\ pc \in {"snapshot", "plan"} /\ pc' = "torn"
        /\ faults' \in 0 .. MaxFaults /\ faults' >= faults
        /\ UNCHANGED <<job, row, space, session, lease, at, result, failing,
                        optional, error, findings, verdict>>
    BY <1>8, FaultsAssumption DEF PlanThrows, Go, target, progress, Fault, Typed, TypeOK
  <2>2. Typed'
    BY <2>1, FaultsAssumption DEF Typed, TypeOK, SpaceStates, Ended
  <2>3. Staged'
    BY <2>1 DEF Staged, Typed, TypeOK, Working, Early, NoVerdict
  <2>4. Spaces'
    BY <2>1 DEF Spaces, Typed, TypeOK, Working, Early, Kinds, SpaceStates
  <2>5. Flags'
    BY <2>1 DEF Flags, Typed, TypeOK, Passed, StepResults
  <2>6. Concluded'
    BY <2>1 DEF Concluded, Done, Blocking, Staged, Spaces, Typed, TypeOK, SpaceStates,
       NoVerdict
  <2>7. NothingLeftOver'
    BY <2>1 DEF NothingLeftOver, Staged, Spaces, Typed, TypeOK, Working, Early, Kinds
  <2>8. EndsDecided'
    BY <2>1 DEF EndsDecided, Staged, Typed, TypeOK, Working, Early
  <2> QED BY <2>2, <2>3, <2>4, <2>5, <2>6, <2>7, <2>8
<1>9. CASE Refuse
  <2>1. /\ pc = "refuse" /\ pc' = "refused"
        /\ space' \in [Kinds -> SpaceStates]
        /\ \A k \in Kinds : k \in {"source", "runtime"} => space'[k] # "made"
        /\ \A k \in Kinds \ {"source", "runtime"} : space'[k] = space[k]
        /\ row' = (IF row \in {"queued", "running"} THEN "failed" ELSE row)
        /\ verdict' \in Verdicts /\ verdict'.status = "failed" /\ ~verdict'.ok
        /\ verdict'.outcome = "blocked"
        /\ UNCHANGED <<job, session, lease, at, result, failing, optional, error,
                        findings, faults>>
    <3>1. space \in [Kinds -> SpaceStates]
      BY DEF Typed, TypeOK, SpaceStates
    <3>2. space' = Swept(space, {"source", "runtime"}, {}) /\ {"source", "runtime"} \in SUBSET Kinds
      BY <1>9 DEF Refuse, Kinds
    <3>3. /\ space' \in [Kinds -> SpaceStates]
          /\ \A k \in Kinds : k \in {"source", "runtime"} => space'[k] # "made"
          /\ \A k \in Kinds \ {"source", "runtime"} : space'[k] = space[k]
      BY <3>1, <3>2, SweptFacts
    <3>4. /\ verdict' \in Verdicts /\ verdict'.status = "failed" /\ ~verdict'.ok
          /\ verdict'.outcome = "blocked"
      BY <1>9 DEF Refuse, Verdicts
    <3> QED BY <1>9, <3>3, <3>4 DEF Refuse, Decide, target, progress
  <2>2. Typed'
    BY <2>1, FaultsAssumption DEF Typed, TypeOK, SpaceStates, Ended
  <2>3. Staged'
    BY <2>1 DEF Staged, Typed, TypeOK, Working, Early, NoVerdict
  <2>4. Spaces'
    BY <2>1 DEF Spaces, Typed, TypeOK, Working, Early, Kinds, SpaceStates
  <2>5. Flags'
    BY <2>1 DEF Flags, Typed, TypeOK, Passed, StepResults
  <2>6. Concluded'
    BY <2>1 DEF Concluded, Done, Blocking, Staged, Spaces, Typed, TypeOK, SpaceStates,
       NoVerdict
  <2>7. NothingLeftOver'
    BY <2>1 DEF NothingLeftOver, Staged, Spaces, Typed, TypeOK, Working, Early, Kinds
  <2>8. EndsDecided'
    BY <2>1 DEF EndsDecided, Staged, Typed, TypeOK, Working, Early
  <2> QED BY <2>2, <2>3, <2>4, <2>5, <2>6, <2>7, <2>8
<1>10. CASE RefuseThrows
  <2>1. /\ pc = "refuse" /\ pc' = "torn"
        /\ space' \in [Kinds -> SpaceStates]
        /\ row' \in {row, "failed"}
        /\ faults' \in 0 .. MaxFaults /\ faults' >= faults
        /\ UNCHANGED <<job, session, lease, at, result, failing, optional, error,
                        findings, verdict>>
    <3>1. space \in [Kinds -> SpaceStates]
      BY DEF Typed, TypeOK, SpaceStates
    <3>2. \E kinds \in SUBSET Kinds : \E bad : space' = Swept(space, kinds, bad)
      BY <1>10 DEF RefuseThrows, Kinds
    <3>3. space' \in [Kinds -> SpaceStates]
      BY <3>1, <3>2, SweptFacts
    <3>4. row' \in {row, "failed"}
      BY <1>10 DEF RefuseThrows, Decide
    <3>5. faults' \in 0 .. MaxFaults /\ faults' >= faults
      BY <1>10, FaultsAssumption DEF RefuseThrows, Fault, NoFault, Typed, TypeOK
    <3> QED BY <1>10, <3>3, <3>4, <3>5 DEF RefuseThrows, Go, target, progress
  <2>2. Typed'
    BY <2>1, FaultsAssumption DEF Typed, TypeOK, SpaceStates, Ended
  <2>3. Staged'
    BY <2>1 DEF Staged, Typed, TypeOK, Working, Early, NoVerdict
  <2>4. Spaces'
    BY <2>1 DEF Spaces, Typed, TypeOK, Working, Early, Kinds, SpaceStates
  <2>5. Flags'
    BY <2>1 DEF Flags, Typed, TypeOK, Passed, StepResults
  <2>6. Concluded'
    BY <2>1 DEF Concluded, Done, Blocking, Staged, Spaces, Typed, TypeOK, SpaceStates,
       NoVerdict
  <2>7. NothingLeftOver'
    BY <2>1 DEF NothingLeftOver, Staged, Spaces, Typed, TypeOK, Working, Early, Kinds
  <2>8. EndsDecided'
    BY <2>1 DEF EndsDecided, Staged, Typed, TypeOK, Working, Early
  <2> QED BY <2>2, <2>3, <2>4, <2>5, <2>6, <2>7, <2>8
<1> QED BY <1>1, <1>2, <1>3, <1>4, <1>5, <1>6, <1>7, <1>8, <1>9, <1>10 DEF Admission

\* The snapshots and their catch blocks
LEMMA SnapshotStep ==
  ASSUME RunInv, Snapshots
  PROVE  RunInv'
<1> USE DEF RunInv
<1>1. CASE Inputs
  <2>1. /\ pc = "inputs" /\ pc' = "diff"
        /\ space' \in [Kinds -> SpaceStates]
        /\ \A k \in Kinds : space'[k] = IF job.inputs /\ k = "input" THEN "made" ELSE space[k]
        /\ UNCHANGED <<job, row, session, lease, at, result, failing, optional,
                        error, findings, verdict, faults>>
    BY <1>1, SweptFacts, MadeFacts DEF Inputs, Go, target, progress, Kinds,
       SpaceStates, Typed, TypeOK
  <2>2. Typed'
    BY <2>1, FaultsAssumption DEF Typed, TypeOK, SpaceStates, Ended
  <2>3. Staged'
    BY <2>1 DEF Staged, Typed, TypeOK, Working, Early, NoVerdict
  <2>4. Spaces'
    BY <2>1 DEF Spaces, Typed, TypeOK, Working, Early, Kinds, SpaceStates
  <2>5. Flags'
    BY <2>1 DEF Flags, Typed, TypeOK, Passed, StepResults
  <2>6. Concluded'
    BY <2>1 DEF Concluded, Done, Blocking, Staged, Spaces, Typed, TypeOK, SpaceStates,
       NoVerdict
  <2>7. NothingLeftOver'
    BY <2>1 DEF NothingLeftOver, Staged, Spaces, Typed, TypeOK, Working, Early, Kinds
  <2>8. EndsDecided'
    BY <2>1 DEF EndsDecided, Staged, Typed, TypeOK, Working, Early
  <2> QED BY <2>2, <2>3, <2>4, <2>5, <2>6, <2>7, <2>8
<1>2. CASE InputsFail
  <2>1. /\ pc = "inputs" /\ pc' = "unfit"
        /\ space' \in [Kinds -> SpaceStates]
        /\ space'["input"] # "made"
        /\ \A k \in Kinds \ {"input"} : space'[k] = space[k]
        /\ \/ row' = (IF row \in {"queued", "running"} THEN "failed" ELSE row) /\ faults' = faults
           \/ row' = row /\ faults' \in 0 .. MaxFaults /\ faults' > faults
        /\ UNCHANGED <<job, session, lease, at, result, failing, optional, error,
                        findings, verdict>>
    <3>1. space \in [Kinds -> SpaceStates]
      BY DEF Typed, TypeOK, SpaceStates
    <3>2. PICK s \in HalfDone("input") : Unfit(s, {"input"})
      BY <1>2 DEF InputsFail
    <3>3. /\ s \in [Kinds -> SpaceStates] /\ \A k \in Kinds \ {"input"} : s[k] = space[k]
          /\ {"input"} \in SUBSET Kinds /\ "input" \in Kinds
      <4>1. "input" \in Kinds /\ {"input"} \in SUBSET Kinds
        BY DEF Kinds
      <4> QED BY <3>1, <3>2, <4>1, MadeFacts DEF HalfDone
    <3>4. PICK bad : space' = Swept(s, {"input"}, bad)
      BY <3>2 DEF Unfit
    <3>5. /\ space' \in [Kinds -> SpaceStates] /\ space'["input"] # "made"
          /\ \A k \in Kinds \ {"input"} : space'[k] = space[k]
      <4> DEFINE K == {"input"}
      <4>1. K \in SUBSET Kinds /\ space' = Swept(s, K, bad)
        BY <3>3, <3>4
      <4> HIDE DEF K
      <4>2. /\ Swept(s, K, bad) \in [Kinds -> SpaceStates]
            /\ \A k \in Kinds : /\ k \notin K => Swept(s, K, bad)[k] = s[k]
                                /\ k \in K => Swept(s, K, bad)[k] # "made"
        <5>1. s \in [Kinds -> SpaceStates] /\ K \in SUBSET Kinds
          BY <3>3, <4>1
        <5> QED BY <5>1, SweptFacts
      <4> QED BY <3>3, <4>1, <4>2 DEF Kinds, K
    <3>6. /\ \/ row' = (IF row \in {"queued", "running"} THEN "failed" ELSE row) /\ faults' = faults
             \/ row' = row /\ faults' \in 0 .. MaxFaults /\ faults' > faults
      BY <3>2, FaultsAssumption DEF Unfit, Decide, Fault, NoFault, Typed, TypeOK
    <3>7. pc' = "unfit" /\ UNCHANGED <<job, target, progress, error, verdict>>
      BY <3>2 DEF Unfit, Go
    <3> QED BY <1>2, <3>5, <3>6, <3>7 DEF InputsFail, target, progress
  <2>2. Typed'
    BY <2>1, FaultsAssumption DEF Typed, TypeOK, SpaceStates, Ended
  <2>3. Staged'
    BY <2>1 DEF Staged, Typed, TypeOK, Working, Early, NoVerdict
  <2>4. Spaces'
    BY <2>1 DEF Spaces, Typed, TypeOK, Working, Early, Kinds, SpaceStates
  <2>5. Flags'
    BY <2>1 DEF Flags, Typed, TypeOK, Passed, StepResults
  <2>6. Concluded'
    BY <2>1 DEF Concluded, Done, Blocking, Staged, Spaces, Typed, TypeOK, SpaceStates,
       NoVerdict
  <2>7. NothingLeftOver'
    BY <2>1 DEF NothingLeftOver, Staged, Spaces, Typed, TypeOK, Working, Early, Kinds
  <2>8. EndsDecided'
    BY <2>1 DEF EndsDecided, Staged, Typed, TypeOK, Working, Early
  <2> QED BY <2>2, <2>3, <2>4, <2>5, <2>6, <2>7, <2>8
<1>3. CASE DiffTarget
  <2>1. /\ pc = "diff" /\ pc' = "source"
        /\ space' \in [Kinds -> SpaceStates]
        /\ \A k \in Kinds : space'[k] = IF job.target = "diff" /\ hasApplicableTool(job) /\ k = "diff"
                               THEN "made" ELSE space[k]
        /\ UNCHANGED <<job, row, session, lease, at, result, failing, optional,
                        error, findings, verdict, faults>>
    BY <1>3, SweptFacts, MadeFacts DEF DiffTarget, Go, target, progress, Kinds,
       SpaceStates, Typed, TypeOK
  <2>2. Typed'
    BY <2>1, FaultsAssumption DEF Typed, TypeOK, SpaceStates, Ended
  <2>3. Staged'
    BY <2>1 DEF Staged, Typed, TypeOK, Working, Early, NoVerdict
  <2>4. Spaces'
    BY <2>1 DEF Spaces, Typed, TypeOK, Working, Early, Kinds, SpaceStates
  <2>5. Flags'
    BY <2>1 DEF Flags, Typed, TypeOK, Passed, StepResults
  <2>6. Concluded'
    BY <2>1 DEF Concluded, Done, Blocking, Staged, Spaces, Typed, TypeOK, SpaceStates,
       NoVerdict
  <2>7. NothingLeftOver'
    BY <2>1 DEF NothingLeftOver, Staged, Spaces, Typed, TypeOK, Working, Early, Kinds
  <2>8. EndsDecided'
    BY <2>1 DEF EndsDecided, Staged, Typed, TypeOK, Working, Early
  <2> QED BY <2>2, <2>3, <2>4, <2>5, <2>6, <2>7, <2>8
<1>4. CASE DiffFails
  <2>1. /\ pc = "diff" /\ pc' = "unfit"
        /\ job.target = "diff"
        /\ space' \in [Kinds -> SpaceStates]
        /\ space'["input"] # "made" /\ space'["diff"] # "made"
        /\ \A k \in Kinds \ {"input", "diff"} : space'[k] = space[k]
        /\ \/ row' = (IF row \in {"queued", "running"} THEN "failed" ELSE row) /\ faults' = faults
           \/ row' = row /\ faults' \in 0 .. MaxFaults /\ faults' > faults
        /\ UNCHANGED <<job, session, lease, at, result, failing, optional, error,
                        findings, verdict>>
    <3>1. space \in [Kinds -> SpaceStates]
      BY DEF Typed, TypeOK, SpaceStates
    <3>2. PICK s \in HalfDone("diff") : Unfit(s, {"diff", "input"})
      BY <1>4 DEF DiffFails
    <3>3. /\ s \in [Kinds -> SpaceStates] /\ \A k \in Kinds \ {"diff"} : s[k] = space[k]
          /\ {"diff", "input"} \in SUBSET Kinds /\ "diff" \in Kinds
      <4>1. "diff" \in Kinds /\ {"diff", "input"} \in SUBSET Kinds
        BY DEF Kinds
      <4> QED BY <3>1, <3>2, <4>1, MadeFacts DEF HalfDone
    <3>4. PICK bad : space' = Swept(s, {"diff", "input"}, bad)
      BY <3>2 DEF Unfit
    <3>5. /\ space' \in [Kinds -> SpaceStates]
          /\ space'["input"] # "made" /\ space'["diff"] # "made"
          /\ \A k \in Kinds \ {"input", "diff"} : space'[k] = space[k]
      <4> DEFINE K == {"diff", "input"}
      <4>1. K \in SUBSET Kinds /\ space' = Swept(s, K, bad)
        BY <3>3, <3>4
      <4> HIDE DEF K
      <4>2. /\ Swept(s, K, bad) \in [Kinds -> SpaceStates]
            /\ \A k \in Kinds : /\ k \notin K => Swept(s, K, bad)[k] = s[k]
                                /\ k \in K => Swept(s, K, bad)[k] # "made"
        <5>1. s \in [Kinds -> SpaceStates] /\ K \in SUBSET Kinds
          BY <3>3, <4>1
        <5> QED BY <5>1, SweptFacts
      <4> QED BY <3>3, <4>1, <4>2 DEF Kinds, K
    <3>6. /\ \/ row' = (IF row \in {"queued", "running"} THEN "failed" ELSE row) /\ faults' = faults
             \/ row' = row /\ faults' \in 0 .. MaxFaults /\ faults' > faults
      BY <3>2, FaultsAssumption DEF Unfit, Decide, Fault, NoFault, Typed, TypeOK
    <3>7. pc' = "unfit" /\ UNCHANGED <<job, target, progress, error, verdict>>
      BY <3>2 DEF Unfit, Go
    <3> QED BY <1>4, <3>5, <3>6, <3>7 DEF DiffFails, target, progress
  <2>2. Typed'
    BY <2>1, FaultsAssumption DEF Typed, TypeOK, SpaceStates, Ended
  <2>3. Staged'
    BY <2>1 DEF Staged, Typed, TypeOK, Working, Early, NoVerdict
  <2>4. Spaces'
    BY <2>1 DEF Spaces, Typed, TypeOK, Working, Early, Kinds, SpaceStates
  <2>5. Flags'
    BY <2>1 DEF Flags, Typed, TypeOK, Passed, StepResults
  <2>6. Concluded'
    BY <2>1 DEF Concluded, Done, Blocking, Staged, Spaces, Typed, TypeOK, SpaceStates,
       NoVerdict
  <2>7. NothingLeftOver'
    BY <2>1 DEF NothingLeftOver, Staged, Spaces, Typed, TypeOK, Working, Early, Kinds
  <2>8. EndsDecided'
    BY <2>1 DEF EndsDecided, Staged, Typed, TypeOK, Working, Early
  <2> QED BY <2>2, <2>3, <2>4, <2>5, <2>6, <2>7, <2>8
<1>5. CASE Source
  <2>1. /\ pc = "source" /\ pc' = "steps"
        /\ space' \in [Kinds -> SpaceStates]
        /\ \A k \in Kinds : space'[k] = IF job.target = "full" /\ k = "source" THEN "made" ELSE space[k]
        /\ UNCHANGED <<job, row, session, lease, at, result, failing, optional,
                        error, findings, verdict, faults>>
    BY <1>5, SweptFacts, MadeFacts DEF Source, Go, target, progress, Kinds,
       SpaceStates, Typed, TypeOK
  <2>2. Typed'
    BY <2>1, FaultsAssumption DEF Typed, TypeOK, SpaceStates, Ended
  <2>3. Staged'
    BY <2>1 DEF Staged, Typed, TypeOK, Working, Early, NoVerdict
  <2>4. Spaces'
    BY <2>1 DEF Spaces, Typed, TypeOK, Working, Early, Kinds, SpaceStates
  <2>5. Flags'
    BY <2>1 DEF Flags, Typed, TypeOK, Passed, StepResults
  <2>6. Concluded'
    BY <2>1 DEF Concluded, Done, Blocking, Staged, Spaces, Typed, TypeOK, SpaceStates,
       NoVerdict
  <2>7. NothingLeftOver'
    BY <2>1 DEF NothingLeftOver, Staged, Spaces, Typed, TypeOK, Working, Early, Kinds
  <2>8. EndsDecided'
    BY <2>1 DEF EndsDecided, Staged, Typed, TypeOK, Working, Early
  <2> QED BY <2>2, <2>3, <2>4, <2>5, <2>6, <2>7, <2>8
<1>6. CASE SourceFails
  <2>1. /\ pc = "source" /\ pc' = "unfit"
        /\ job.target = "full"
        /\ space' \in [Kinds -> SpaceStates]
        /\ \A k \in {"source", "runtime", "input"} : space'[k] # "made"
        /\ space'["diff"] = space["diff"]
        /\ \/ row' = (IF row \in {"queued", "running"} THEN "failed" ELSE row) /\ faults' = faults
           \/ row' = row /\ faults' \in 0 .. MaxFaults /\ faults' > faults
        /\ UNCHANGED <<job, session, lease, at, result, failing, optional, error,
                        findings, verdict>>
    <3>1. space \in [Kinds -> SpaceStates]
      BY DEF Typed, TypeOK, SpaceStates
    <3>2. PICK s \in HalfDone("source") : Unfit(s, {"source", "runtime", "input"})
      BY <1>6 DEF SourceFails
    <3>3. /\ s \in [Kinds -> SpaceStates] /\ \A k \in Kinds \ {"source"} : s[k] = space[k]
          /\ {"source", "runtime", "input"} \in SUBSET Kinds /\ "source" \in Kinds
      <4>1. "source" \in Kinds /\ {"source", "runtime", "input"} \in SUBSET Kinds
        BY DEF Kinds
      <4> QED BY <3>1, <3>2, <4>1, MadeFacts DEF HalfDone
    <3>4. PICK bad : space' = Swept(s, {"source", "runtime", "input"}, bad)
      BY <3>2 DEF Unfit
    <3>5. /\ space' \in [Kinds -> SpaceStates]
          /\ \A k \in {"source", "runtime", "input"} : space'[k] # "made"
          /\ space'["diff"] = space["diff"]
      <4> DEFINE K == {"source", "runtime", "input"}
      <4>1. K \in SUBSET Kinds /\ space' = Swept(s, K, bad)
        BY <3>3, <3>4
      <4> HIDE DEF K
      <4>2. /\ Swept(s, K, bad) \in [Kinds -> SpaceStates]
            /\ \A k \in Kinds : /\ k \notin K => Swept(s, K, bad)[k] = s[k]
                                /\ k \in K => Swept(s, K, bad)[k] # "made"
        <5>1. s \in [Kinds -> SpaceStates] /\ K \in SUBSET Kinds
          BY <3>3, <4>1
        <5> QED BY <5>1, SweptFacts
      <4> QED BY <3>3, <4>1, <4>2 DEF Kinds, K
    <3>6. /\ \/ row' = (IF row \in {"queued", "running"} THEN "failed" ELSE row) /\ faults' = faults
             \/ row' = row /\ faults' \in 0 .. MaxFaults /\ faults' > faults
      BY <3>2, FaultsAssumption DEF Unfit, Decide, Fault, NoFault, Typed, TypeOK
    <3>7. pc' = "unfit" /\ UNCHANGED <<job, target, progress, error, verdict>>
      BY <3>2 DEF Unfit, Go
    <3> QED BY <1>6, <3>5, <3>6, <3>7 DEF SourceFails, target, progress
  <2>2. Typed'
    BY <2>1, FaultsAssumption DEF Typed, TypeOK, SpaceStates, Ended
  <2>3. Staged'
    BY <2>1 DEF Staged, Typed, TypeOK, Working, Early, NoVerdict
  <2>4. Spaces'
    BY <2>1 DEF Spaces, Typed, TypeOK, Working, Early, Kinds, SpaceStates
  <2>5. Flags'
    BY <2>1 DEF Flags, Typed, TypeOK, Passed, StepResults
  <2>6. Concluded'
    BY <2>1 DEF Concluded, Done, Blocking, Staged, Spaces, Typed, TypeOK, SpaceStates,
       NoVerdict
  <2>7. NothingLeftOver'
    BY <2>1 DEF NothingLeftOver, Staged, Spaces, Typed, TypeOK, Working, Early, Kinds
  <2>8. EndsDecided'
    BY <2>1 DEF EndsDecided, Staged, Typed, TypeOK, Working, Early
  <2> QED BY <2>2, <2>3, <2>4, <2>5, <2>6, <2>7, <2>8
<1> QED BY <1>1, <1>2, <1>3, <1>4, <1>5, <1>6 DEF Snapshots

\* The steps of the profile
LEMMA ExecutionStep ==
  ASSUME RunInv, Execution
  PROVE  RunInv'
<1> USE DEF RunInv
<1>1. CASE StepNotApplicable
  <2>1. /\ pc = "steps" /\ pc' = "stepped"
        /\ at <= Len(job.plan) /\ at \in DOMAIN job.plan
        /\ result' \in [DOMAIN job.plan -> StepResults] /\ result'[at] = "not_applicable"
        /\ \A i \in DOMAIN job.plan \ {at} : result'[i] = result[i]
        /\ UNCHANGED <<job, row, space, session, lease, at, failing, optional,
                        error, findings, verdict, faults>>
    BY <1>1, ResultFacts DEF StepNotApplicable, Stepping, target, NoFlag, StepResults,
       Typed, TypeOK
  <2>2. Typed'
    BY <2>1, FaultsAssumption DEF Typed, TypeOK, SpaceStates, Ended
  <2>3. Staged'
    BY <2>1 DEF Staged, Typed, TypeOK, Working, Early, NoVerdict
  <2>4. Spaces'
    BY <2>1 DEF Spaces, Typed, TypeOK, Working, Early, Kinds, SpaceStates
  <2>5. Flags'
    BY <2>1 DEF Flags, Typed, TypeOK, Passed, StepResults
  <2>6. Concluded'
    BY <2>1 DEF Concluded, Done, Blocking, Staged, Spaces, Typed, TypeOK, SpaceStates,
       NoVerdict
  <2>7. NothingLeftOver'
    BY <2>1 DEF NothingLeftOver, Staged, Spaces, Typed, TypeOK, Working, Early, Kinds
  <2>8. EndsDecided'
    BY <2>1 DEF EndsDecided, Staged, Typed, TypeOK, Working, Early
  <2> QED BY <2>2, <2>3, <2>4, <2>5, <2>6, <2>7, <2>8
<1>2. CASE StepPreflightBlocked
  <2>1. /\ pc = "steps" /\ pc' = "stepped"
        /\ at <= Len(job.plan) /\ at \in DOMAIN job.plan
        /\ result' \in [DOMAIN job.plan -> StepResults] /\ result'[at] = "blocked"
        /\ \A i \in DOMAIN job.plan \ {at} : result'[i] = result[i]
        /\ failing' \in BOOLEAN /\ optional' \in BOOLEAN
        /\ failing' <=> failing \/ failureFailsProfile(job, job.plan[at])
        /\ optional' <=> optional \/ ~failureFailsProfile(job, job.plan[at])
        /\ UNCHANGED <<job, row, space, session, lease, at, error, findings,
                        verdict, faults>>
    BY <1>2, ResultFacts DEF StepPreflightBlocked, Stepping, target, Flag, step,
       StepResults, Typed, TypeOK
  <2>2. Typed'
    BY <2>1, FaultsAssumption DEF Typed, TypeOK, SpaceStates, Ended
  <2>3. Staged'
    BY <2>1 DEF Staged, Typed, TypeOK, Working, Early, NoVerdict
  <2>4. Spaces'
    BY <2>1 DEF Spaces, Typed, TypeOK, Working, Early, Kinds, SpaceStates
  <2>5. Flags'
    BY <2>1 DEF Flags, Typed, TypeOK, Passed, StepResults
  <2>6. Concluded'
    BY <2>1 DEF Concluded, Done, Blocking, Staged, Spaces, Typed, TypeOK, SpaceStates,
       NoVerdict
  <2>7. NothingLeftOver'
    BY <2>1 DEF NothingLeftOver, Staged, Spaces, Typed, TypeOK, Working, Early, Kinds
  <2>8. EndsDecided'
    BY <2>1 DEF EndsDecided, Staged, Typed, TypeOK, Working, Early
  <2> QED BY <2>2, <2>3, <2>4, <2>5, <2>6, <2>7, <2>8
<1>3. CASE StepRuntimeBlocked
  <2>1. /\ pc = "steps" /\ pc' = "stepped"
        /\ at <= Len(job.plan) /\ at \in DOMAIN job.plan
        /\ result' \in [DOMAIN job.plan -> StepResults] /\ result'[at] = "blocked"
        /\ \A i \in DOMAIN job.plan \ {at} : result'[i] = result[i]
        /\ requiresRuntimeTarget(job.plan[at]) /\ session = "failed"
        /\ UNCHANGED <<job, row, space, session, lease, at, failing, optional,
                        error, findings, verdict, faults>>
    BY <1>3, ResultFacts DEF StepRuntimeBlocked, Stepping, target, NoFlag,
       runtimeBlocked, step, StepResults, Typed, TypeOK
  <2>2. Typed'
    BY <2>1, FaultsAssumption DEF Typed, TypeOK, SpaceStates, Ended
  <2>3. Staged'
    BY <2>1 DEF Staged, Typed, TypeOK, Working, Early, NoVerdict
  <2>4. Spaces'
    BY <2>1 DEF Spaces, Typed, TypeOK, Working, Early, Kinds, SpaceStates
  <2>5. Flags'
    BY <2>1 DEF Flags, Typed, TypeOK, Passed, StepResults
  <2>6. Concluded'
    BY <2>1 DEF Concluded, Done, Blocking, Staged, Spaces, Typed, TypeOK, SpaceStates,
       NoVerdict
  <2>7. NothingLeftOver'
    BY <2>1 DEF NothingLeftOver, Staged, Spaces, Typed, TypeOK, Working, Early, Kinds
  <2>8. EndsDecided'
    BY <2>1 DEF EndsDecided, Staged, Typed, TypeOK, Working, Early
  <2> QED BY <2>2, <2>3, <2>4, <2>5, <2>6, <2>7, <2>8
<1>4. CASE StepSkipped
  <2>1. /\ pc = "steps" /\ pc' = "stepped"
        /\ at <= Len(job.plan) /\ at \in DOMAIN job.plan
        /\ result' \in [DOMAIN job.plan -> StepResults] /\ result'[at] = "skipped"
        /\ \A i \in DOMAIN job.plan \ {at} : result'[i] = result[i]
        /\ failing
        /\ UNCHANGED <<job, row, space, session, lease, at, failing, optional,
                        error, findings, verdict, faults>>
    BY <1>4, ResultFacts DEF StepSkipped, Stepping, target, NoFlag, StepResults, Typed,
       TypeOK
  <2>2. Typed'
    BY <2>1, FaultsAssumption DEF Typed, TypeOK, SpaceStates, Ended
  <2>3. Staged'
    BY <2>1 DEF Staged, Typed, TypeOK, Working, Early, NoVerdict
  <2>4. Spaces'
    BY <2>1 DEF Spaces, Typed, TypeOK, Working, Early, Kinds, SpaceStates
  <2>5. Flags'
    BY <2>1 DEF Flags, Typed, TypeOK, Passed, StepResults
  <2>6. Concluded'
    BY <2>1 DEF Concluded, Done, Blocking, Staged, Spaces, Typed, TypeOK, SpaceStates,
       NoVerdict
  <2>7. NothingLeftOver'
    BY <2>1 DEF NothingLeftOver, Staged, Spaces, Typed, TypeOK, Working, Early, Kinds
  <2>8. EndsDecided'
    BY <2>1 DEF EndsDecided, Staged, Typed, TypeOK, Working, Early
  <2> QED BY <2>2, <2>3, <2>4, <2>5, <2>6, <2>7, <2>8
<1>5. CASE StepDiffNotApplicable
  <2>1. /\ pc = "steps" /\ pc' = "stepped"
        /\ at <= Len(job.plan) /\ at \in DOMAIN job.plan
        /\ result' \in [DOMAIN job.plan -> StepResults] /\ result'[at] = "not_applicable"
        /\ \A i \in DOMAIN job.plan \ {at} : result'[i] = result[i]
        /\ UNCHANGED <<job, row, space, session, lease, at, failing, optional,
                        error, findings, verdict, faults>>
    BY <1>5, ResultFacts DEF StepDiffNotApplicable, Stepping, target, NoFlag,
       StepResults, Typed, TypeOK
  <2>2. Typed'
    BY <2>1, FaultsAssumption DEF Typed, TypeOK, SpaceStates, Ended
  <2>3. Staged'
    BY <2>1 DEF Staged, Typed, TypeOK, Working, Early, NoVerdict
  <2>4. Spaces'
    BY <2>1 DEF Spaces, Typed, TypeOK, Working, Early, Kinds, SpaceStates
  <2>5. Flags'
    BY <2>1 DEF Flags, Typed, TypeOK, Passed, StepResults
  <2>6. Concluded'
    BY <2>1 DEF Concluded, Done, Blocking, Staged, Spaces, Typed, TypeOK, SpaceStates,
       NoVerdict
  <2>7. NothingLeftOver'
    BY <2>1 DEF NothingLeftOver, Staged, Spaces, Typed, TypeOK, Working, Early, Kinds
  <2>8. EndsDecided'
    BY <2>1 DEF EndsDecided, Staged, Typed, TypeOK, Working, Early
  <2> QED BY <2>2, <2>3, <2>4, <2>5, <2>6, <2>7, <2>8
<1>6. CASE StepStatic
  <2>1. /\ pc = "steps" /\ pc' = "stepped"
        /\ at <= Len(job.plan) /\ at \in DOMAIN job.plan
        /\ result' \in [DOMAIN job.plan -> StepResults] /\ result'[at] # "none"
        /\ \A i \in DOMAIN job.plan \ {at} : result'[i] = result[i]
        /\ failing' \in BOOLEAN /\ optional' \in BOOLEAN
        /\ failing => failing'
        /\ optional => optional'
        /\ result'[at] \in Passed \/ optional' \/ failing'
        /\ result'[at] \in Passed \/ ~failureFailsProfile(job, job.plan[at]) \/ failing'
        /\ findings' \subseteq UNION Severities
        /\ UNCHANGED <<job, row, space, session, lease, at, error, verdict, faults>>
    <3>1. at <= Len(job.plan)
      BY <1>6 DEF StepStatic, Stepping
    <3>2. PICK o \in {"completed", "failed"} :
            /\ Results(o)
            /\ \/ o = "completed" /\ failing' = failing /\ (optional' = optional \/ optional' = TRUE)
               \/ o = "failed" /\ Flag
      BY <1>6 DEF StepStatic, Scans, NoFlag
    <3>3. o \in StepResults \ {"none"}
      BY <3>2 DEF StepResults
    <3>4. /\ at \in DOMAIN job.plan /\ result' \in [DOMAIN job.plan -> StepResults]
          /\ result'[at] = o
          /\ \A i \in DOMAIN job.plan \ {at} : result'[i] = result[i]
      BY <3>1, <3>2, <3>3, ResultFacts
    <3>5. failing \in BOOLEAN /\ optional \in BOOLEAN
      BY DEF Typed, TypeOK
    <3>6. /\ failing' \in BOOLEAN /\ optional' \in BOOLEAN
          /\ failing => failing'
          /\ optional => optional'
          /\ o = "completed" \/ optional' \/ failing'
          /\ o = "completed" \/ ~failureFailsProfile(job, job.plan[at]) \/ failing'
      BY <3>2, <3>5, Zenon DEF Flag, step
    <3>7. findings' \subseteq UNION Severities
      <4>1. PICK found \in Severities : findings' = findings \cup found
        BY <1>6 DEF StepStatic, Scans
      <4> QED BY <4>1 DEF Typed, TypeOK
    <3> QED BY <1>6, <3>1, <3>2, <3>4, <3>6, <3>7 DEF StepStatic, Stepping, target,
            Passed
  <2>2. Typed'
    BY <2>1, FaultsAssumption DEF Typed, TypeOK, SpaceStates, Ended
  <2>3. Staged'
    BY <2>1 DEF Staged, Typed, TypeOK, Working, Early, NoVerdict
  <2>4. Spaces'
    BY <2>1 DEF Spaces, Typed, TypeOK, Working, Early, Kinds, SpaceStates
  <2>5. Flags'
    BY <2>1 DEF Flags, Typed, TypeOK, Passed, StepResults
  <2>6. Concluded'
    BY <2>1 DEF Concluded, Done, Blocking, Staged, Spaces, Typed, TypeOK, SpaceStates,
       NoVerdict
  <2>7. NothingLeftOver'
    BY <2>1 DEF NothingLeftOver, Staged, Spaces, Typed, TypeOK, Working, Early, Kinds
  <2>8. EndsDecided'
    BY <2>1 DEF EndsDecided, Staged, Typed, TypeOK, Working, Early
  <2> QED BY <2>2, <2>3, <2>4, <2>5, <2>6, <2>7, <2>8
<1>7. CASE StepSchemaNotApplicable
  <2>1. /\ pc = "steps" /\ pc' = "stepped"
        /\ at <= Len(job.plan) /\ at \in DOMAIN job.plan
        /\ result' \in [DOMAIN job.plan -> StepResults] /\ result'[at] = "not_applicable"
        /\ \A i \in DOMAIN job.plan \ {at} : result'[i] = result[i]
        /\ UNCHANGED <<job, row, space, session, lease, at, failing, optional,
                        error, findings, verdict, faults>>
    BY <1>7, ResultFacts DEF StepSchemaNotApplicable, Stepping, target, NoFlag,
       StepResults, Typed, TypeOK
  <2>2. Typed'
    BY <2>1, FaultsAssumption DEF Typed, TypeOK, SpaceStates, Ended
  <2>3. Staged'
    BY <2>1 DEF Staged, Typed, TypeOK, Working, Early, NoVerdict
  <2>4. Spaces'
    BY <2>1 DEF Spaces, Typed, TypeOK, Working, Early, Kinds, SpaceStates
  <2>5. Flags'
    BY <2>1 DEF Flags, Typed, TypeOK, Passed, StepResults
  <2>6. Concluded'
    BY <2>1 DEF Concluded, Done, Blocking, Staged, Spaces, Typed, TypeOK, SpaceStates,
       NoVerdict
  <2>7. NothingLeftOver'
    BY <2>1 DEF NothingLeftOver, Staged, Spaces, Typed, TypeOK, Working, Early, Kinds
  <2>8. EndsDecided'
    BY <2>1 DEF EndsDecided, Staged, Typed, TypeOK, Working, Early
  <2> QED BY <2>2, <2>3, <2>4, <2>5, <2>6, <2>7, <2>8
<1>8. CASE StepRuntime
  <2>1. /\ pc = "steps" /\ pc' = "stepped"
        /\ at <= Len(job.plan) /\ at \in DOMAIN job.plan
        /\ result' \in [DOMAIN job.plan -> StepResults] /\ result'[at] # "none"
        /\ \A i \in DOMAIN job.plan \ {at} : result'[i] = result[i]
        /\ failing' \in BOOLEAN /\ optional' \in BOOLEAN
        /\ failing => failing'
        /\ optional => optional'
        /\ result'[at] \in Passed \/ optional' \/ failing'
        /\ result'[at] \in Passed \/ ~failureFailsProfile(job, job.plan[at]) \/ failing'
        /\ findings' \subseteq UNION Severities
        /\ session' = "ready" /\ lease' \in {lease, "active"}
        /\ UNCHANGED <<job, row, space, at, error, verdict, faults>>
    <3>1. at <= Len(job.plan)
      BY <1>8 DEF StepRuntime, Stepping
    <3>2. PICK o \in {"completed", "failed"} :
            /\ Results(o)
            /\ \/ o = "completed" /\ failing' = failing /\ (optional' = optional \/ optional' = TRUE)
               \/ o = "failed" /\ Flag
      BY <1>8 DEF StepRuntime, Scans, NoFlag
    <3>3. o \in StepResults \ {"none"}
      BY <3>2 DEF StepResults
    <3>4. /\ at \in DOMAIN job.plan /\ result' \in [DOMAIN job.plan -> StepResults]
          /\ result'[at] = o
          /\ \A i \in DOMAIN job.plan \ {at} : result'[i] = result[i]
      BY <3>1, <3>2, <3>3, ResultFacts
    <3>5. failing \in BOOLEAN /\ optional \in BOOLEAN
      BY DEF Typed, TypeOK
    <3>6. /\ failing' \in BOOLEAN /\ optional' \in BOOLEAN
          /\ failing => failing'
          /\ optional => optional'
          /\ o = "completed" \/ optional' \/ failing'
          /\ o = "completed" \/ ~failureFailsProfile(job, job.plan[at]) \/ failing'
      BY <3>2, <3>5, Zenon DEF Flag, step
    <3>7. findings' \subseteq UNION Severities
      <4>1. PICK found \in Severities : findings' = findings \cup found
        BY <1>8 DEF StepRuntime, Scans
      <4> QED BY <4>1 DEF Typed, TypeOK
    <3> QED BY <1>8, <3>1, <3>2, <3>4, <3>6, <3>7 DEF StepRuntime, Stepping, target,
            Passed
  <2>2. Typed'
    BY <2>1, FaultsAssumption DEF Typed, TypeOK, SpaceStates, Ended
  <2>3. Staged'
    BY <2>1 DEF Staged, Typed, TypeOK, Working, Early, NoVerdict
  <2>4. Spaces'
    BY <2>1 DEF Spaces, Typed, TypeOK, Working, Early, Kinds, SpaceStates
  <2>5. Flags'
    BY <2>1 DEF Flags, Typed, TypeOK, Passed, StepResults
  <2>6. Concluded'
    BY <2>1 DEF Concluded, Done, Blocking, Staged, Spaces, Typed, TypeOK, SpaceStates,
       NoVerdict
  <2>7. NothingLeftOver'
    BY <2>1 DEF NothingLeftOver, Staged, Spaces, Typed, TypeOK, Working, Early, Kinds
  <2>8. EndsDecided'
    BY <2>1 DEF EndsDecided, Staged, Typed, TypeOK, Working, Early
  <2> QED BY <2>2, <2>3, <2>4, <2>5, <2>6, <2>7, <2>8
<1>9. CASE StepRuntimeUnprepared
  <2>1. /\ pc = "steps" /\ pc' = "stepped"
        /\ at <= Len(job.plan) /\ at \in DOMAIN job.plan
        /\ result' \in [DOMAIN job.plan -> StepResults] /\ result'[at] = "failed"
        /\ \A i \in DOMAIN job.plan \ {at} : result'[i] = result[i]
        /\ failing' \in BOOLEAN /\ optional' \in BOOLEAN
        /\ failing' <=> failing \/ failureFailsProfile(job, job.plan[at])
        /\ optional' <=> optional \/ ~failureFailsProfile(job, job.plan[at])
        /\ requiresRuntimeTarget(job.plan[at])
        /\ session = "idle" /\ session' = "failed"
        /\ UNCHANGED <<job, row, space, lease, at, error, findings, verdict, faults>>
    BY <1>9, ResultFacts DEF StepRuntimeUnprepared, Stepping, target, Flag, step,
       StepResults, Typed, TypeOK
  <2>2. Typed'
    BY <2>1, FaultsAssumption DEF Typed, TypeOK, SpaceStates, Ended
  <2>3. Staged'
    BY <2>1 DEF Staged, Typed, TypeOK, Working, Early, NoVerdict
  <2>4. Spaces'
    BY <2>1 DEF Spaces, Typed, TypeOK, Working, Early, Kinds, SpaceStates
  <2>5. Flags'
    <3>1. \A i \in DOMAIN job.plan :
            requiresRuntimeTarget(job.plan[i])
              => (failureFailsProfile(job, job.plan[i]) <=> failureFailsProfile(job, job.plan[at]))
      BY <2>1, JobsAssumption DEF Typed
    <3>2. \A i \in DOMAIN job.plan : i = at \/ result'[i] = result[i]
      BY <2>1
    <3>3. failing' \/ optional'
      BY <2>1
    <3>4. \/ failing'
          \/ \A i \in DOMAIN job.plan :
               requiresRuntimeTarget(job.plan[i]) => ~failureFailsProfile(job, job.plan[i])
      BY <2>1, <3>1
    <3>5. ~failing' =>
            \A i \in DOMAIN job.plan :
              failureFailsProfile(job, job.plan[i]) /\ result'[i] # "none" => result'[i] \in Passed
      BY <2>1, <3>2 DEF Flags
    <3> QED BY <2>1, <3>3, <3>4, <3>5 DEF Flags
  <2>6. Concluded'
    BY <2>1 DEF Concluded, Done, Blocking, Staged, Spaces, Typed, TypeOK, SpaceStates,
       NoVerdict
  <2>7. NothingLeftOver'
    BY <2>1 DEF NothingLeftOver, Staged, Spaces, Typed, TypeOK, Working, Early, Kinds
  <2>8. EndsDecided'
    BY <2>1 DEF EndsDecided, Staged, Typed, TypeOK, Working, Early
  <2> QED BY <2>2, <2>3, <2>4, <2>5, <2>6, <2>7, <2>8
<1>10. CASE StepRuntimeUnleased
  <2>1. /\ pc = "steps" /\ pc' = "stepped"
        /\ at <= Len(job.plan) /\ at \in DOMAIN job.plan
        /\ result' \in [DOMAIN job.plan -> StepResults] /\ result'[at] = "failed"
        /\ \A i \in DOMAIN job.plan \ {at} : result'[i] = result[i]
        /\ failing' \in BOOLEAN /\ optional' \in BOOLEAN
        /\ failing' <=> failing \/ failureFailsProfile(job, job.plan[at])
        /\ optional' <=> optional \/ ~failureFailsProfile(job, job.plan[at])
        /\ session' = "ready"
        /\ faults' \in 0 .. MaxFaults /\ faults' >= faults
        /\ UNCHANGED <<job, row, space, lease, at, error, findings, verdict>>
    <3>1. /\ at <= Len(job.plan) /\ Results("failed") /\ Flag /\ Fault
          /\ pc = "steps" /\ pc' = "stepped" /\ session' = "ready"
          /\ UNCHANGED <<job, row, space, lease, at, error, findings, verdict>>
      BY <1>10 DEF StepRuntimeUnleased, Stepping
    <3>2. /\ at \in DOMAIN job.plan /\ result' \in [DOMAIN job.plan -> StepResults]
          /\ result'[at] = "failed"
          /\ \A i \in DOMAIN job.plan \ {at} : result'[i] = result[i]
      BY <3>1, ResultFacts DEF StepResults
    <3>3. /\ failing' \in BOOLEAN /\ optional' \in BOOLEAN
          /\ failing' <=> failing \/ failureFailsProfile(job, job.plan[at])
          /\ optional' <=> optional \/ ~failureFailsProfile(job, job.plan[at])
      BY <3>1, Zenon DEF Flag, step
    <3>4. faults' \in 0 .. MaxFaults /\ faults' >= faults
      BY <3>1, FaultsAssumption DEF Fault, Typed, TypeOK
    <3> QED BY <3>1, <3>2, <3>3, <3>4
  <2>2. Typed'
    BY <2>1, FaultsAssumption DEF Typed, TypeOK, SpaceStates, Ended
  <2>3. Staged'
    BY <2>1 DEF Staged, Typed, TypeOK, Working, Early, NoVerdict
  <2>4. Spaces'
    BY <2>1 DEF Spaces, Typed, TypeOK, Working, Early, Kinds, SpaceStates
  <2>5. Flags'
    BY <2>1 DEF Flags, Typed, TypeOK, Passed, StepResults
  <2>6. Concluded'
    BY <2>1 DEF Concluded, Done, Blocking, Staged, Spaces, Typed, TypeOK, SpaceStates,
       NoVerdict
  <2>7. NothingLeftOver'
    BY <2>1 DEF NothingLeftOver, Staged, Spaces, Typed, TypeOK, Working, Early, Kinds
  <2>8. EndsDecided'
    BY <2>1 DEF EndsDecided, Staged, Typed, TypeOK, Working, Early
  <2> QED BY <2>2, <2>3, <2>4, <2>5, <2>6, <2>7, <2>8
<1>11. CASE StepFinished
  <2>1. /\ pc = "stepped" /\ pc' = "steps"
        /\ at' = at + 1
        /\ UNCHANGED <<job, row, space, session, lease, result, failing,
                        optional, error, findings, verdict, faults>>
    BY <1>11 DEF StepFinished, target, Typed, TypeOK
  <2>2. Typed'
    <3>1. Len(job.plan) \in Nat /\ DOMAIN job.plan = 1 .. Len(job.plan)
      BY DEF Typed, TypeOK, JobType
    <3>2. at' \in 1 .. Len(job.plan) + 1
      BY <2>1, <3>1 DEF Staged, Typed, TypeOK
    <3>3. \A i \in DOMAIN job.plan : /\ i < at' => result[i] # "none"
                                     /\ i > at' => result[i] = "none"
      BY <2>1, <3>1 DEF Staged, Typed, TypeOK
    <3> QED BY <2>1, <3>2, <3>3 DEF Typed, TypeOK, Ended
  <2>3. Staged'
    BY <2>1 DEF Staged, Typed, TypeOK, Working, Early, NoVerdict
  <2>4. Spaces'
    BY <2>1 DEF Spaces, Typed, TypeOK, Working, Early, Kinds, SpaceStates
  <2>5. Flags'
    BY <2>1 DEF Flags, Typed, TypeOK, Passed, StepResults
  <2>6. Concluded'
    BY <2>1 DEF Concluded, Done, Blocking, Staged, Spaces, Typed, TypeOK, SpaceStates,
       NoVerdict
  <2>7. NothingLeftOver'
    BY <2>1 DEF NothingLeftOver, Staged, Spaces, Typed, TypeOK, Working, Early, Kinds
  <2>8. EndsDecided'
    BY <2>1 DEF EndsDecided, Staged, Typed, TypeOK, Working, Early
  <2> QED BY <2>2, <2>3, <2>4, <2>5, <2>6, <2>7, <2>8
<1>12. CASE StepThrows
  <2>1. /\ pc \in {"steps", "stepped"} /\ pc' = "dispose"
        /\ error' = TRUE
        /\ faults' \in 0 .. MaxFaults /\ faults' >= faults
        /\ UNCHANGED <<job, row, space, session, lease, at, result, failing,
                        optional, findings, verdict>>
    BY <1>12, FaultsAssumption DEF StepThrows, target, progress, Fault, Typed, TypeOK
  <2>2. Typed'
    BY <2>1, FaultsAssumption DEF Typed, TypeOK, SpaceStates, Ended
  <2>3. Staged'
    BY <2>1 DEF Staged, Typed, TypeOK, Working, Early, NoVerdict
  <2>4. Spaces'
    BY <2>1 DEF Spaces, Typed, TypeOK, Working, Early, Kinds, SpaceStates
  <2>5. Flags'
    BY <2>1 DEF Flags, Typed, TypeOK, Passed, StepResults
  <2>6. Concluded'
    BY <2>1 DEF Concluded, Done, Blocking, Staged, Spaces, Typed, TypeOK, SpaceStates,
       NoVerdict
  <2>7. NothingLeftOver'
    BY <2>1 DEF NothingLeftOver, Staged, Spaces, Typed, TypeOK, Working, Early, Kinds
  <2>8. EndsDecided'
    BY <2>1 DEF EndsDecided, Staged, Typed, TypeOK, Working, Early
  <2> QED BY <2>2, <2>3, <2>4, <2>5, <2>6, <2>7, <2>8
<1>13. CASE StepsEnd
  <2>1. /\ pc = "steps" /\ pc' = "dispose"
        /\ at > Len(job.plan)
        /\ UNCHANGED <<job, row, space, session, lease, at, result, failing,
                        optional, error, findings, verdict, faults>>
    BY <1>13 DEF StepsEnd, Go, target, progress, Typed, TypeOK
  <2>2. Typed'
    BY <2>1, FaultsAssumption DEF Typed, TypeOK, SpaceStates, Ended
  <2>3. Staged'
    BY <2>1 DEF Staged, Typed, TypeOK, Working, Early, NoVerdict
  <2>4. Spaces'
    BY <2>1 DEF Spaces, Typed, TypeOK, Working, Early, Kinds, SpaceStates
  <2>5. Flags'
    BY <2>1 DEF Flags, Typed, TypeOK, Passed, StepResults
  <2>6. Concluded'
    BY <2>1 DEF Concluded, Done, Blocking, Staged, Spaces, Typed, TypeOK, SpaceStates,
       NoVerdict
  <2>7. NothingLeftOver'
    BY <2>1 DEF NothingLeftOver, Staged, Spaces, Typed, TypeOK, Working, Early, Kinds
  <2>8. EndsDecided'
    BY <2>1 DEF EndsDecided, Staged, Typed, TypeOK, Working, Early
  <2> QED BY <2>2, <2>3, <2>4, <2>5, <2>6, <2>7, <2>8
<1> QED BY <1>1, <1>2, <1>3, <1>4, <1>5, <1>6, <1>7, <1>8, <1>9, <1>10, <1>11, <1>12,
        <1>13 DEF Execution

\* The target, the workspaces and the row at the end
LEMMA ConclusionStep ==
  ASSUME RunInv, Conclusion
  PROVE  RunInv'
<1> USE DEF RunInv
<1>1. CASE Dispose
  <2>1. /\ pc = "dispose" /\ pc' = "cleanup"
        /\ session' \in {"idle", "disposed"}
        /\ session = "idle" => session' = "idle"
        /\ session # "idle" => session' = "disposed"
        /\ space' \in [Kinds -> SpaceStates]
        /\ \A k \in Kinds : space'[k] \in {space[k], "removed"}
        /\ lease' = IF lease = "active" THEN "released" ELSE lease
        /\ UNCHANGED <<job, row, at, result, failing, optional, error, findings,
                        verdict, faults>>
    <3>1. space \in [Kinds -> SpaceStates]
      BY DEF Typed, TypeOK, SpaceStates
    <3>2. /\ space' \in [Kinds -> SpaceStates]
          /\ \A k \in Kinds : space'[k] \in {space[k], "removed"}
      <4>1. CASE space' = space
        BY <3>1, <4>1
      <4>2. CASE space' = Swept(space, {"runtime"}, {})
        <5>1. {"runtime"} \in SUBSET Kinds
          BY DEF Kinds
        <5> QED BY <3>1, <4>2, <5>1, SweptFacts
      <4> QED BY <1>1, <4>1, <4>2 DEF Dispose, Stopped
    <3>3. UNCHANGED <<job, row, at, result, failing, optional, error, findings, verdict, faults>>
      BY <1>1 DEF Dispose, progress
    <3> QED BY <1>1, <3>2, <3>3 DEF Dispose, Typed, TypeOK
  <2>2. Typed'
    BY <2>1, FaultsAssumption DEF Typed, TypeOK, SpaceStates, Ended
  <2>3. Staged'
    BY <2>1 DEF Staged, Typed, TypeOK, Working, Early, NoVerdict
  <2>4. Spaces'
    BY <2>1 DEF Spaces, Typed, TypeOK, Working, Early, Kinds, SpaceStates
  <2>5. Flags'
    BY <2>1 DEF Flags, Typed, TypeOK, Passed, StepResults
  <2>6. Concluded'
    BY <2>1 DEF Concluded, Done, Blocking, Staged, Spaces, Typed, TypeOK, SpaceStates,
       NoVerdict
  <2>7. NothingLeftOver'
    BY <2>1 DEF NothingLeftOver, Staged, Spaces, Typed, TypeOK, Working, Early, Kinds
  <2>8. EndsDecided'
    BY <2>1 DEF EndsDecided, Staged, Typed, TypeOK, Working, Early
  <2> QED BY <2>2, <2>3, <2>4, <2>5, <2>6, <2>7, <2>8
<1>2. CASE DisposeFails
  <2>1. /\ pc = "dispose" /\ pc' = "cleanup"
        /\ session' = "disposed" /\ error' = TRUE
        /\ space' \in [Kinds -> SpaceStates]
        /\ lease' \in {lease, "quarantined"}
        /\ lease' = "active" => faults' > 0
        /\ faults' \in 0 .. MaxFaults /\ faults' >= faults
        /\ UNCHANGED <<job, row, at, result, failing, optional, findings, verdict>>
    <3>1. space \in [Kinds -> SpaceStates]
      BY DEF Typed, TypeOK, SpaceStates
    <3>2. space' \in [Kinds -> SpaceStates]
      <4>1. PICK bad : space' = Stopped(bad)
        BY <1>2 DEF DisposeFails
      <4>2. {"runtime"} \in SUBSET Kinds
        BY DEF Kinds
      <4> QED BY <3>1, <4>1, <4>2, SweptFacts DEF Stopped
    <3>3. lease' \in {lease, "quarantined"}
      BY <1>2 DEF DisposeFails
    <3>4. faults' \in 0 .. MaxFaults /\ faults' >= faults
      BY <1>2, FaultsAssumption DEF DisposeFails, Fault, NoFault, Typed, TypeOK
    <3>5. lease' = "active" => faults' > 0
      BY <1>2, FaultsAssumption DEF DisposeFails, Fault, NoFault, Typed, TypeOK
    <3>6. UNCHANGED <<job, row, at, result, failing, optional, findings, verdict>>
      BY <1>2 DEF DisposeFails, progress
    <3> QED BY <1>2, <3>2, <3>3, <3>4, <3>5, <3>6 DEF DisposeFails
  <2>2. Typed'
    BY <2>1, FaultsAssumption DEF Typed, TypeOK, SpaceStates, Ended
  <2>3. Staged'
    BY <2>1 DEF Staged, Typed, TypeOK, Working, Early, NoVerdict
  <2>4. Spaces'
    BY <2>1 DEF Spaces, Typed, TypeOK, Working, Early, Kinds, SpaceStates
  <2>5. Flags'
    BY <2>1 DEF Flags, Typed, TypeOK, Passed, StepResults
  <2>6. Concluded'
    BY <2>1 DEF Concluded, Done, Blocking, Staged, Spaces, Typed, TypeOK, SpaceStates,
       NoVerdict
  <2>7. NothingLeftOver'
    BY <2>1 DEF NothingLeftOver, Staged, Spaces, Typed, TypeOK, Working, Early, Kinds
  <2>8. EndsDecided'
    BY <2>1 DEF EndsDecided, Staged, Typed, TypeOK, Working, Early
  <2> QED BY <2>2, <2>3, <2>4, <2>5, <2>6, <2>7, <2>8
<1>3. CASE Cleanup
  <2>1. /\ pc = "cleanup"
        /\ pc' = (IF error' THEN "fail" ELSE "finalize")
        /\ error' \in BOOLEAN /\ (error => error')
        /\ space' \in [Kinds -> SpaceStates]
        /\ \A k \in Kinds : space'[k] # "made"
        /\ ~error' => \A k \in Kinds : space[k] # "failed" => space'[k] # "failed"
        /\ faults' \in 0 .. MaxFaults /\ faults' >= faults
        /\ UNCHANGED <<job, row, session, lease, at, result, failing, optional,
                        findings, verdict>>
    <3>1. space \in [Kinds -> SpaceStates]
      BY DEF Typed, TypeOK, SpaceStates
    <3>2. PICK bad \in SUBSET Made(space, Kinds) :
            /\ space' = Swept(space, Kinds, bad)
            /\ \/ error' = (error \/ bad # {}) /\ NoFault
               \/ error' = TRUE /\ Fault
      BY <1>3 DEF Cleanup
    <3>3. /\ error' \in BOOLEAN /\ (error => error')
          /\ ~error' => bad = {}
      BY <3>2, Zenon
    <3>4. /\ space' \in [Kinds -> SpaceStates]
          /\ \A k \in Kinds : /\ space'[k] # "made"
                              /\ space[k] # "made" => space'[k] = space[k]
                              /\ space[k] = "made" /\ k \notin bad => space'[k] = "removed"
      BY <3>1, <3>2, SweptFacts
    <3>5. ~error' => \A k \in Kinds : space[k] # "failed" => space'[k] # "failed"
      BY <3>3, <3>4
    <3>6. faults' \in 0 .. MaxFaults /\ faults' >= faults
      BY <3>2, FaultsAssumption DEF Fault, NoFault, Typed, TypeOK
    <3>7. /\ pc = "cleanup" /\ pc' = (IF error' THEN "fail" ELSE "finalize")
          /\ UNCHANGED <<job, row, session, lease, at, result, failing, optional, findings, verdict>>
      BY <1>3 DEF Cleanup, target, progress
    <3> QED BY <3>3, <3>4, <3>5, <3>6, <3>7
  <2>2. Typed'
    BY <2>1, FaultsAssumption DEF Typed, TypeOK, SpaceStates, Ended
  <2>3. Staged'
    BY <2>1 DEF Staged, Typed, TypeOK, Working, Early, NoVerdict
  <2>4. Spaces'
    BY <2>1 DEF Spaces, Typed, TypeOK, Working, Early, Kinds, SpaceStates
  <2>5. Flags'
    BY <2>1 DEF Flags, Typed, TypeOK, Passed, StepResults
  <2>6. Concluded'
    BY <2>1 DEF Concluded, Done, Blocking, Staged, Spaces, Typed, TypeOK, SpaceStates,
       NoVerdict
  <2>7. NothingLeftOver'
    BY <2>1 DEF NothingLeftOver, Staged, Spaces, Typed, TypeOK, Working, Early, Kinds
  <2>8. EndsDecided'
    BY <2>1 DEF EndsDecided, Staged, Typed, TypeOK, Working, Early
  <2> QED BY <2>2, <2>3, <2>4, <2>5, <2>6, <2>7, <2>8
<1>4. CASE Fail
  <2>1. /\ pc = "fail" /\ pc' = "failed"
        /\ \/ row' = (IF row \in {"queued", "running"} THEN "failed" ELSE row) /\ faults' = faults
           \/ row' = row /\ faults' \in 0 .. MaxFaults /\ faults' > faults
        /\ UNCHANGED <<job, space, session, lease, at, result, failing, optional,
                        error, findings, verdict>>
    <3>1. /\ \/ row' = (IF row \in {"queued", "running"} THEN "failed" ELSE row) /\ faults' = faults
             \/ row' = row /\ faults' \in 0 .. MaxFaults /\ faults' > faults
      BY <1>4, FaultsAssumption DEF Fail, Decide, Fault, NoFault, Typed, TypeOK
    <3> QED BY <1>4, <3>1 DEF Fail, Go, target, progress
  <2>2. Typed'
    BY <2>1, FaultsAssumption DEF Typed, TypeOK, SpaceStates, Ended
  <2>3. Staged'
    BY <2>1 DEF Staged, Typed, TypeOK, Working, Early, NoVerdict
  <2>4. Spaces'
    BY <2>1 DEF Spaces, Typed, TypeOK, Working, Early, Kinds, SpaceStates
  <2>5. Flags'
    BY <2>1 DEF Flags, Typed, TypeOK, Passed, StepResults
  <2>6. Concluded'
    BY <2>1 DEF Concluded, Done, Blocking, Staged, Spaces, Typed, TypeOK, SpaceStates,
       NoVerdict
  <2>7. NothingLeftOver'
    BY <2>1 DEF NothingLeftOver, Staged, Spaces, Typed, TypeOK, Working, Early, Kinds
  <2>8. EndsDecided'
    BY <2>1 DEF EndsDecided, Staged, Typed, TypeOK, Working, Early
  <2> QED BY <2>2, <2>3, <2>4, <2>5, <2>6, <2>7, <2>8
<1>5. CASE Finalize
  <2>1. /\ pc = "finalize" /\ pc' = "returned"
        /\ verdict' \in Verdicts /\ verdict'.status \in {"completed", "failed"}
        /\ row' = (IF row \in {"queued", "running"} THEN verdict'.status ELSE row)
        /\ verdict'.status = "completed" => ~failing
        /\ verdict'.ok => ~failing
        /\ verdict'.outcome = "completed" => ~failing /\ ~optional
        /\ verdict'.ok /\ job.gate # "advisory" => findings \subseteq DOMAIN severityRank /\ Blocking(job.gate) = {}
        /\ UNCHANGED <<job, space, session, lease, at, result, failing, optional,
                        error, findings, faults>>
    <3>1. PICK limited \in BOOLEAN : /\ verdict' = Report(profileOutcome(limited))
                                    /\ Decide(verdict'.status)
      BY <1>5 DEF Finalize
    <3>2. /\ verdict' \in Verdicts /\ verdict'.status \in {"completed", "failed"}
          /\ verdict'.status = "completed" => ~failing
          /\ verdict'.ok => ~failing
          /\ verdict'.outcome = "completed" => ~failing /\ ~optional
          /\ verdict'.ok /\ job.gate # "advisory" =>
               findings \subseteq DOMAIN severityRank /\ Blocking(job.gate) = {}
      BY <3>1, ReportFacts
    <3> QED BY <1>5, <3>1, <3>2 DEF Finalize, Decide, target, progress
  <2>2. Typed'
    BY <2>1, FaultsAssumption DEF Typed, TypeOK, SpaceStates, Ended
  <2>3. Staged'
    BY <2>1 DEF Staged, Typed, TypeOK, Working, Early, NoVerdict
  <2>4. Spaces'
    BY <2>1 DEF Spaces, Typed, TypeOK, Working, Early, Kinds, SpaceStates
  <2>5. Flags'
    BY <2>1 DEF Flags, Typed, TypeOK, Passed, StepResults
  <2>6. Concluded'
    BY <2>1 DEF Concluded, Done, Blocking, Staged, Spaces, Typed, TypeOK, SpaceStates,
       NoVerdict
  <2>7. NothingLeftOver'
    BY <2>1 DEF NothingLeftOver, Staged, Spaces, Typed, TypeOK, Working, Early, Kinds
  <2>8. EndsDecided'
    BY <2>1 DEF EndsDecided, Staged, Typed, TypeOK, Working, Early
  <2> QED BY <2>2, <2>3, <2>4, <2>5, <2>6, <2>7, <2>8
<1>6. CASE FinalizeThrows
  <2>1. /\ pc = "finalize" /\ pc' = "torn"
        /\ row' \in {row, "failed", "completed"}
        /\ row' = "completed" => ~failing
        /\ faults' \in 0 .. MaxFaults /\ faults' >= faults
        /\ UNCHANGED <<job, space, session, lease, at, result, failing, optional,
                        error, findings, verdict>>
    <3>1. \/ row' = row
          \/ row' \in {row, Report(profileOutcome(FALSE)).status}
      BY <1>6 DEF FinalizeThrows, Decide
    <3>2. /\ Report(profileOutcome(FALSE)).status \in {"completed", "failed"}
          /\ Report(profileOutcome(FALSE)).status = "completed" => ~failing
      BY ReportFacts
    <3>3. row # "completed"
      BY <1>6 DEF FinalizeThrows, Staged
    <3>4. faults' \in 0 .. MaxFaults /\ faults' >= faults
      BY <1>6, FaultsAssumption DEF FinalizeThrows, Fault, Typed, TypeOK
    <3> QED BY <1>6, <3>1, <3>2, <3>3, <3>4 DEF FinalizeThrows, Go, target, progress
  <2>2. Typed'
    BY <2>1, FaultsAssumption DEF Typed, TypeOK, SpaceStates, Ended
  <2>3. Staged'
    BY <2>1 DEF Staged, Typed, TypeOK, Working, Early, NoVerdict
  <2>4. Spaces'
    BY <2>1 DEF Spaces, Typed, TypeOK, Working, Early, Kinds, SpaceStates
  <2>5. Flags'
    BY <2>1 DEF Flags, Typed, TypeOK, Passed, StepResults
  <2>6. Concluded'
    BY <2>1 DEF Concluded, Done, Blocking, Staged, Spaces, Typed, TypeOK, SpaceStates,
       NoVerdict
  <2>7. NothingLeftOver'
    BY <2>1 DEF NothingLeftOver, Staged, Spaces, Typed, TypeOK, Working, Early, Kinds
  <2>8. EndsDecided'
    BY <2>1 DEF EndsDecided, Staged, Typed, TypeOK, Working, Early
  <2> QED BY <2>2, <2>3, <2>4, <2>5, <2>6, <2>7, <2>8
<1> QED BY <1>1, <1>2, <1>3, <1>4, <1>5, <1>6 DEF Conclusion

\* The scan is cancelled, and its process killed
LEMMA CancelStep ==
  ASSUME RunInv, Cancel \/ Kill
  PROVE  RunInv'
<1> USE DEF RunInv
<1>1. CASE Cancel
  <2>1. /\ row \in {"queued", "running"} /\ row' = "cancelled" /\ pc' = pc
        /\ UNCHANGED <<job, space, session, lease, at, result, failing, optional,
                        error, findings, verdict, faults>>
    BY <1>1 DEF Cancel, target, progress, Typed, TypeOK
  <2>2. Typed'
    BY <2>1, FaultsAssumption DEF Typed, TypeOK, SpaceStates, Ended
  <2>3. Staged'
    BY <2>1 DEF Staged, Typed, TypeOK, Working, Early, NoVerdict
  <2>4. Spaces'
    BY <2>1 DEF Spaces, Typed, TypeOK, Working, Early, Kinds, SpaceStates
  <2>5. Flags'
    BY <2>1 DEF Flags, Typed, TypeOK, Passed, StepResults
  <2>6. Concluded'
    BY <2>1 DEF Concluded, Done, Blocking, Staged, Spaces, Typed, TypeOK, SpaceStates,
       NoVerdict
  <2>7. NothingLeftOver'
    BY <2>1 DEF NothingLeftOver, Staged, Spaces, Typed, TypeOK, Working, Early, Kinds
  <2>8. EndsDecided'
    BY <2>1 DEF EndsDecided, Staged, Typed, TypeOK, Working, Early
  <2> QED BY <2>2, <2>3, <2>4, <2>5, <2>6, <2>7, <2>8
<1>2. CASE Kill
  <2>1. /\ pc \notin Ended /\ row = "cancelled" /\ pc' = "killed"
        /\ UNCHANGED <<job, row, space, session, lease, at, result, failing,
                        optional, error, findings, verdict, faults>>
    BY <1>2 DEF Kill, Go, target, progress, Typed, TypeOK
  <2>2. Typed'
    BY <2>1, FaultsAssumption DEF Typed, TypeOK, SpaceStates, Ended
  <2>3. Staged'
    BY <2>1 DEF Staged, Working, Early, Ended
  <2>4. Spaces'
    BY <2>1 DEF Spaces, Typed, TypeOK, Working, Early, Kinds, SpaceStates
  <2>5. Flags'
    BY <2>1 DEF Flags, Typed, TypeOK, Passed, StepResults
  <2>6. Concluded'
    BY <2>1 DEF Concluded, Done, Blocking, Staged, Spaces, Typed, TypeOK, SpaceStates,
       NoVerdict
  <2>7. NothingLeftOver'
    BY <2>1 DEF NothingLeftOver, Staged, Spaces, Typed, TypeOK, Working, Early, Kinds
  <2>8. EndsDecided'
    BY <2>1 DEF EndsDecided, Staged, Typed, TypeOK, Working, Early
  <2> QED BY <2>2, <2>3, <2>4, <2>5, <2>6, <2>7, <2>8
<1> QED BY <1>1, <1>2

\* A run begins with nothing
LEMMA InitRun == Init => RunInv
<1> SUFFICES ASSUME Init PROVE RunInv
  OBVIOUS
<1>1. job \in Jobs /\ job \in JobType
  BY JobsAssumption DEF Init
<1>2. Len(job.plan) \in Nat /\ DOMAIN job.plan = 1 .. Len(job.plan)
  BY <1>1 DEF JobType
<1>3. /\ pc = "prepare" /\ row \in {"none", "queued"} /\ session = "idle" /\ lease = "none"
      /\ at = 1 /\ failing = FALSE /\ optional \in BOOLEAN /\ error = FALSE
      /\ findings = {} /\ verdict = NoVerdict /\ faults = 0
      /\ space = [k \in Kinds |-> "none"]
      /\ result = [i \in DOMAIN job.plan |-> "none"]
  BY DEF Init
<1>4. verdict \in Verdicts /\ ~verdict.ok /\ verdict.outcome = "none"
  BY <1>3 DEF NoVerdict, Verdicts
<1>5. Typed
  <2>1. /\ space \in [Kinds -> {"none", "made", "removed", "failed"}]
        /\ result \in [DOMAIN job.plan -> StepResults]
        /\ \A i \in DOMAIN job.plan : i >= 1 /\ result[i] = "none"
    BY <1>2, <1>3 DEF StepResults
  <2>2. at \in 1 .. Len(job.plan) + 1 /\ faults \in 0 .. MaxFaults
    BY <1>2, <1>3, FaultsAssumption
  <2>3. \A i \in DOMAIN job.plan : /\ i < at => result[i] # "none"
                                   /\ i > at => result[i] = "none"
    BY <1>2, <1>3, <2>1
  <2>4. {failing, optional, error} \subseteq BOOLEAN
    BY <1>3
  <2> QED BY <1>1, <1>3, <1>4, <2>1, <2>2, <2>3, <2>4 DEF Typed, TypeOK
<1>6. Staged /\ NothingLeftOver /\ EndsDecided
  BY <1>3 DEF Staged, NothingLeftOver, EndsDecided, Working, Early
<1>7. Spaces
  BY <1>3 DEF Spaces, Kinds
<1>8. Flags /\ Concluded
  BY <1>3, <1>4 DEF Flags, Concluded
<1> QED BY <1>5, <1>6, <1>7, <1>8 DEF RunInv

\* The invariant holds in every reachable state
THEOREM RunInvariant == Spec => []RunInv
<1>1. RunInv /\ [Next]_vars => RunInv'
  <2> SUFFICES ASSUME RunInv, [Next]_vars PROVE RunInv'
    OBVIOUS
  <2>1. CASE Next
    BY <2>1, AdmissionStep, SnapshotStep, ExecutionStep, ConclusionStep,
       CancelStep DEF Next
  <2>2. CASE UNCHANGED vars
    <3> USE <2>2 DEF RunInv, vars
    <3>1. Typed' /\ Staged'
      BY DEF Typed, TypeOK, Staged
    <3>2. Spaces' /\ Flags'
      BY DEF Spaces, Flags
    <3>3. Concluded' /\ NothingLeftOver' /\ EndsDecided'
      BY DEF Concluded, Done, Blocking, NothingLeftOver, EndsDecided
    <3> QED BY <3>1, <3>2, <3>3
  <2> QED BY <2>1, <2>2
<1> QED BY <1>1, InitRun, PTL DEF Spec

\* The types, and the bookkeeping of executeProfileSteps, for every plan
THEOREM RunTypeCorrect == Spec => []TypeOK
<1>1. RunInv => TypeOK
  BY DEF RunInv, Typed
<1> QED BY <1>1, RunInvariant, PTL

\* A scan that is called a success is one, for every profile whose runtime
\* steps are all fatal or all not: the flags of the step loop, the error paths
\* of the cleanup and the gate agree
THEOREM RunFailsClosed == Spec => []FailClosed
<1>1. RunInv => FailClosed
  <2> SUFFICES ASSUME RunInv PROVE FailClosed
    OBVIOUS
  <2>1. at > Len(job.plan) => \A i \in DOMAIN job.plan : result[i] # "none"
    <3>1. job.plan \in Seq(Steps) /\ at \in Nat
      BY DEF RunInv, Typed, TypeOK, JobType
    <3>2. at > Len(job.plan) => \A i \in DOMAIN job.plan : i < at
      BY <3>1
    <3> QED BY <3>2 DEF RunInv, Typed, TypeOK
  <2>2. Succeeded =>
          /\ \A i \in DOMAIN job.plan :
               failureFailsProfile(job, job.plan[i]) => result[i] \in {"completed", "not_applicable"}
          /\ \A k \in Kinds : space[k] \in {"none", "removed"}
          /\ session \in {"idle", "disposed"}
          /\ lease \in {"none", "released"}
    BY <2>1 DEF RunInv, Concluded, Done, Flags, Succeeded, Passed
  <2>3. verdict.outcome = "completed" =>
          \A i \in DOMAIN job.plan : result[i] \in {"completed", "not_applicable"}
    BY <2>1 DEF RunInv, Concluded, Done, Flags, Passed
  <2> QED BY <2>2, <2>3 DEF FailClosed, RunInv, Concluded
<1> QED BY <1>1, RunInvariant, PTL

\* However the run ends once it is admitted, it has tried to remove every
\* workspace and has stopped its target, but for the hole the property names
THEOREM RunLeavesNothing == Spec => []NothingLeftOver
<1>1. RunInv => NothingLeftOver
  BY DEF RunInv
<1> QED BY <1>1, RunInvariant, PTL

\* A run that ends past admission with a working database leaves a decided row,
\* and tells its caller what the row says unless the scan was cancelled
THEOREM RunIsDecided == Spec => []EndsDecided
<1>1. RunInv => EndsDecided
  BY DEF RunInv
<1> QED BY <1>1, RunInvariant, PTL
=============================================================================

----------------------------- MODULE ScanDeletion -----------------------------
(***************************************************************************)
(* Deletion of a scan or of its project, and the removal of the artifact   *)
(* directories that were theirs.  A request looks for active work, lists   *)
(* the runs whose directories will have to go (the manifest) and then, in  *)
(* one transaction, stores a cleanup job with the manifest and deletes the *)
(* row; a trigger refuses the delete while there is active work.  The      *)
(* cleanup runner of the server removes the directories afterwards.        *)
(*                                                                         *)
(* The program works on: scans and their runs start, finish, are cancelled *)
(* and lose their processes at any moment in between.                      *)
(***************************************************************************)
EXTENDS Naturals

CONSTANTS
  Scans,      \* of one project
  Children,   \* DAST, reproduction and dynamic runs
  Dynamic,    \* the dynamic runs among them: they outlive their scan
  Parent,     \* the scan of each child
  Requests,   \* DELETE requests
  Targets,    \* what each of them may ask to delete
  MaxFaults,  \* bound: removals and database calls that fail
  MaxCrashes  \* bound: crashes of the server

ASSUME DeletionAssumption ==
  /\ Scans \cap Children = {} /\ (Scans \cup Children) \cap Requests = {}
  /\ Dynamic \subseteq Children
  /\ Parent \in [Children -> Scans]
  /\ Targets \in [Requests -> SUBSET (Scans \cup {"project"})] /\ "project" \notin Scans
  /\ MaxFaults \in Nat /\ MaxCrashes \in Nat

Project == "project"

Runs == Scans \cup Children

\* scan-run:<id>, or a random id for each deletion of the project
Jobs == Scans \cup {q \in Requests : Project \in Targets[q]}

VARIABLES
  writer,    \* the database is behind a Writer: the batch, not the callback
  project,   \* the project's row is there
  row,       \* of each run: none, active, done or deleted
  tool,      \* scans with a tool_runs row that says running
  alive,     \* runs whose process lives
  dirs,      \* artifact directories
  request,   \* pc, target and manifest of each request
  job,       \* project_deletion_cleanup_jobs
  task,      \* what the cleanup runner of this server does for each job
  unlisted,  \* started while some request had its manifest and had not committed
  rewritten, \* written to again after the row was decided
  faults, crashes

work == <<project, row, tool, alive, dirs>>
ledger == <<job, task>>
history == <<unlisted, rewritten>>
bounds == <<faults, crashes>>
vars == <<writer, work, request, ledger, history, bounds>>

Present(r) == row[r] \in {"active", "done"}

NoJob == [status |-> "none", old |-> FALSE, manifest |-> {}]

Request(pc) == [pc |-> pc, target |-> Project, manifest |-> {}]

Unasked == Request("idle")

Over == Request("over")  \* answered, whatever the answer

\* todo: removals that have been started and have not ended; failed: one was rejected
NoTask == [pc |-> "none", todo |-> {}, failed |-> FALSE]

Init ==
  /\ writer \in BOOLEAN
  /\ project = TRUE
  /\ row = [r \in Runs |-> "none"]
  /\ tool = {} /\ alive = {} /\ dirs = {}
  /\ request = [q \in Requests |-> Unasked]
  /\ job = [k \in Jobs |-> NoJob]
  /\ task = [k \in Jobs |-> NoTask]
  /\ unlisted = {} /\ rewritten = {}
  /\ faults = 0 /\ crashes = 0

Fault == faults < MaxFaults /\ faults' = faults + 1 /\ UNCHANGED crashes

-----------------------------------------------------------------------------
(* The work that goes on meanwhile *)

\* A scan needs its project, a child its scan, decided or not
Start(r) ==
  /\ row[r] = "none"
  /\ project
  /\ r \in Children => Present(Parent[r])
  /\ row' = [row EXCEPT ![r] = "active"]
  /\ alive' = alive \cup {r}
  /\ dirs' = dirs \cup {r}
  /\ unlisted' = IF \E q \in Requests : request[q].pc = "commit"
                 THEN unlisted \cup {r} ELSE unlisted
  /\ UNCHANGED <<writer, project, tool, request, ledger, rewritten, bounds>>

\* createToolRun and updateToolRunStatus of the scan's own process
ToolRun(s) ==
  /\ s \in alive
  /\ Present(s)
  /\ tool' = IF s \in tool THEN tool \ {s} ELSE tool \cup {s}
  /\ UNCHANGED <<writer, project, row, alive, dirs, request, ledger, history, bounds>>

Finish(r) ==
  /\ row[r] = "active" /\ r \in alive
  /\ r \notin tool
  /\ row' = [row EXCEPT ![r] = "done"]
  /\ alive' = alive \ {r}
  /\ UNCHANGED <<writer, project, tool, dirs, request, ledger, history, bounds>>

\* A cancel or a recovery decides the row, not the tool runs, and the process
\* gets a signal later; a scan whose process is gone is decided by its monitor
Decide(s) ==
  /\ row[s] = "active"
  /\ row' = [row EXCEPT ![s] = "done"]
  /\ UNCHANGED <<writer, project, tool, alive, dirs, request, ledger, history, bounds>>

\* Killed: nobody writes the rows of its tool runs or of a child any more
Die(r) ==
  /\ r \in alive
  /\ alive' = alive \ {r}
  /\ UNCHANGED <<writer, project, row, tool, dirs, request, ledger, history, bounds>>

\* The storage makes missing directories
LateWrite(s) ==
  /\ s \in alive /\ row[s] \in {"done", "deleted"}
  /\ dirs' = dirs \cup {s}
  /\ rewritten' = rewritten \cup {s}
  /\ UNCHANGED <<writer, project, row, tool, alive, request, ledger, unlisted, bounds>>

-----------------------------------------------------------------------------
(* deleteOwnedScan and deleteOwnedProject *)

Linked(s) == {c \in Children : Parent[c] = s /\ Present(c)}

\* Of one scan: listScanActiveWork, and the trigger on scan_runs
ScanActiveWork(s) ==
  \/ row[s] = "active" \/ s \in tool
  \/ \E c \in Linked(s) : row[c] = "active"

\* Of the project: listProjectActiveWork, and the trigger on projects
ProjectActiveWork ==
  \/ \E r \in Runs : row[r] = "active"
  \/ \E s \in tool : Present(s)

ActiveWork(t) ==
  IF t = Project THEN project /\ ProjectActiveWork
  ELSE Present(t) /\ ScanActiveWork(t)

TargetExists(t) == IF t = Project THEN project ELSE Present(t)

Moves(q, pc) == request' = [request EXCEPT ![q].pc = pc]

Ends(q) == request' = [request EXCEPT ![q] = Over]

Find(q, t) ==
  /\ request[q].pc = "idle"
  /\ request' = [request EXCEPT ![q] = IF TargetExists(t) THEN [Request("check") EXCEPT !.target = t]
                                       ELSE Over]
  /\ UNCHANGED <<writer, work, ledger, history, bounds>>

Check(q) ==
  /\ request[q].pc = "check"
  /\ IF ActiveWork(request[q].target) THEN Ends(q) ELSE Moves(q, "list")
  /\ UNCHANGED <<writer, work, ledger, history, bounds>>

buildArtifactManifest(t) ==
  IF t = Project THEN {r \in Runs : Present(r)}
  ELSE {t} \cup (IF Present(t) THEN Linked(t) ELSE {})

List(q) ==
  /\ request[q].pc = "list"
  /\ request' = [request EXCEPT ![q].pc = "commit",
                                ![q].manifest = buildArtifactManifest(request[q].target)]
  /\ UNCHANGED <<writer, work, ledger, history, bounds>>

JobOf(q) == IF request[q].target = Project THEN q ELSE request[q].target

\* The runs whose rows the transaction takes along: a scan's by cascade, except
\* dynamic runs, which are deleted by the ids of the manifest
Cascade(q) ==
  LET t == request[q].target IN
  IF t = Project THEN IF project THEN {r \in Runs : Present(r)} ELSE {}
  ELSE (IF Present(t) THEN {t} \cup (Linked(t) \ Dynamic) ELSE {})
       \cup {d \in request[q].manifest \cap Dynamic : Present(d)}

\* onConflictDoNothing: the manifest of an earlier job of the same scan stays
Deletes(q) ==
  /\ project' = (project /\ request[q].target # Project)
  /\ row' = [r \in Runs |-> IF r \in Cascade(q) THEN "deleted" ELSE row[r]]
  /\ tool' = tool \ Cascade(q)
  /\ job' = [job EXCEPT ![JobOf(q)] =
               IF @.status # "none" THEN @
               ELSE [status |-> "pending", old |-> FALSE, manifest |-> request[q].manifest]]
  /\ UNCHANGED <<alive, dirs, task>>

\* Mutation: active work is only looked for before the transaction
CommitUnguarded(q) ==
  /\ request[q].pc = "commit"
  /\ TargetExists(request[q].target) \/ writer
  /\ Deletes(q)
  /\ Moves(q, "enqueue")
  /\ UNCHANGED <<writer, history, bounds>>

\* In a transaction of this process a row that is gone is a 404; the batch of
\* the Writer does not look
Commit(q) ==
  /\ request[q].pc = "commit"
  /\ ~ActiveWork(request[q].target)
  /\ TargetExists(request[q].target) \/ writer
  /\ Deletes(q)
  /\ Moves(q, "enqueue")
  /\ UNCHANGED <<writer, history, bounds>>

\* Mutation: the job is stored before the transaction that deletes the row
CommitRefusedLate(q) ==
  /\ request[q].pc = "commit"
  /\ ActiveWork(request[q].target)
  /\ job' = [job EXCEPT ![JobOf(q)] =
               IF @.status # "none" THEN @
               ELSE [status |-> "pending", old |-> FALSE, manifest |-> request[q].manifest]]
  /\ Moves(q, "enqueue")
  /\ UNCHANGED <<writer, work, task, history, bounds>>

\* The trigger, or the missing row, undoes the whole transaction
CommitRefused(q) ==
  /\ request[q].pc = "commit"
  /\ \/ ActiveWork(request[q].target)
     \/ ~TargetExists(request[q].target) /\ ~writer
  /\ Ends(q)
  /\ UNCHANGED <<writer, work, ledger, history, bounds>>

\* Nothing is stored, or the Writer's answer is lost
CommitThrows(q) ==
  /\ request[q].pc = "commit"
  /\ Fault
  /\ \/ UNCHANGED <<work, ledger>>
     \/ writer /\ ~ActiveWork(request[q].target) /\ Deletes(q)
  /\ Ends(q)
  /\ UNCHANGED <<writer, history>>

\* A job in flight is not taken up twice
Enqueued(S) ==
  task' = [k \in Jobs |-> IF k \in S /\ task[k].pc = "none"
                          THEN [task[k] EXCEPT !.pc = "claim"] ELSE task[k]]

Enqueue(q) ==
  /\ request[q].pc = "enqueue"
  /\ Enqueued({JobOf(q)})
  /\ Ends(q)
  /\ UNCHANGED <<writer, work, job, history, bounds>>

-----------------------------------------------------------------------------
(* The cleanup runner *)

\* Five minutes without an update
Recoverable(k) ==
  \/ job[k].status \in {"pending", "failed"}
  \/ job[k].status = "running" /\ job[k].old

Age(k) ==
  /\ job[k].status = "running" /\ ~job[k].old
  /\ job' = [job EXCEPT ![k].old = TRUE]
  /\ UNCHANGED <<writer, work, request, task, history, bounds>>

\* Mutation: a job that the start found in the ledger is claimed, and then dropped
ClaimAndDrop(k) ==
  /\ task[k].pc = "claim"
  /\ Recoverable(k)
  /\ job' = [job EXCEPT ![k].status = "running", ![k].old = FALSE]
  /\ task' = [task EXCEPT ![k] = IF crashes > 0 THEN NoTask
                                 ELSE [pc |-> "remove", failed |-> FALSE, todo |-> job[k].manifest]]
  /\ UNCHANGED <<writer, work, request, history, bounds>>

Claim(k) ==
  /\ task[k].pc = "claim"
  /\ IF Recoverable(k)
     THEN /\ job' = [job EXCEPT ![k].status = "running", ![k].old = FALSE]
          /\ task' = [task EXCEPT ![k] = [pc |-> "remove", failed |-> FALSE,
                                          todo |-> @.todo \cup job[k].manifest]]
     ELSE /\ task' = [task EXCEPT ![k].pc = "none"]
          /\ UNCHANGED job
  /\ UNCHANGED <<writer, work, request, history, bounds>>

\* enqueue logs the error and forgets the job
ClaimThrows(k) ==
  /\ task[k].pc = "claim"
  /\ Fault
  /\ task' = [task EXCEPT ![k].pc = "none"]
  /\ UNCHANGED <<writer, work, request, job, history>>

\* Promise.all: the removals go on after one of them was rejected
Remove(k, r) ==
  /\ r \in task[k].todo
  /\ dirs' = dirs \ {r}
  /\ task' = [task EXCEPT ![k].todo = @ \ {r}]
  /\ UNCHANGED <<writer, project, row, tool, alive, request, job, history, bounds>>

RemoveThrows(k, r) ==
  /\ r \in task[k].todo
  /\ Fault
  /\ task' = [task EXCEPT ![k].todo = @ \ {r}, ![k].failed = (task[k].pc = "remove")]
  /\ UNCHANGED <<writer, work, request, job, history>>

\* Mutation: a rejected removal is not noticed
CompleteAnyway(k) ==
  /\ task[k].pc = "remove" /\ task[k].todo = {}
  /\ job' = [job EXCEPT ![k].status = "completed", ![k].old = FALSE]
  /\ task' = [task EXCEPT ![k].pc = "none"]
  /\ UNCHANGED <<writer, work, request, history, bounds>>

\* Mutation: the time of the last update is left as it was
CompleteUndated(k) ==
  /\ task[k].pc = "remove" /\ task[k].todo = {} /\ ~task[k].failed
  /\ job' = [job EXCEPT ![k].status = "completed"]
  /\ task' = [task EXCEPT ![k].pc = "none"]
  /\ UNCHANGED <<writer, work, request, history, bounds>>

Complete(k) ==
  /\ task[k].pc = "remove" /\ task[k].todo = {} /\ ~task[k].failed
  /\ job' = [job EXCEPT ![k].status = "completed", ![k].old = FALSE]
  /\ task' = [task EXCEPT ![k].pc = "none"]
  /\ UNCHANGED <<writer, work, request, history, bounds>>

CompleteThrows(k) ==
  /\ task[k].pc = "remove" /\ task[k].todo = {} /\ ~task[k].failed
  /\ Fault
  /\ task' = [task EXCEPT ![k].failed = TRUE]
  /\ UNCHANGED <<writer, work, request, job, history>>

Fail(k) ==
  /\ task[k].pc = "remove" /\ task[k].failed
  /\ \/ job' = [job EXCEPT ![k].status = "failed", ![k].old = FALSE] /\ UNCHANGED bounds
     \/ UNCHANGED job /\ Fault
  /\ task' = [task EXCEPT ![k].pc = "none", ![k].failed = FALSE]
  /\ UNCHANGED <<writer, work, request, history>>

\* The server dies and starts again; recover() enqueues what the table offers
Crash ==
  /\ crashes < MaxCrashes
  /\ crashes' = crashes + 1
  /\ request' = [q \in Requests |-> IF request[q] = Unasked THEN Unasked ELSE Over]
  /\ task' = [k \in Jobs |-> IF Recoverable(k) THEN [NoTask EXCEPT !.pc = "claim"] ELSE NoTask]
  /\ UNCHANGED <<writer, work, job, history, faults>>

-----------------------------------------------------------------------------
Work ==
  \/ \E r \in Runs : Start(r) \/ Finish(r) \/ Die(r)
  \/ \E s \in Scans : ToolRun(s) \/ Decide(s) \/ LateWrite(s)

Deletion(q) ==
  \/ \E t \in Targets[q] : Find(q, t)
  \/ Check(q) \/ List(q) \/ Commit(q) \/ CommitRefused(q) \/ CommitThrows(q)
  \/ Enqueue(q)

Runner(k) ==
  \/ Claim(k) \/ ClaimThrows(k)
  \/ \E r \in Runs : Remove(k, r) \/ RemoveThrows(k, r)
  \/ Complete(k) \/ CompleteThrows(k) \/ Fail(k)

Next ==
  \/ Work
  \/ \E q \in Requests : Deletion(q)
  \/ \E k \in Jobs : Age(k) \/ Runner(k)
  \/ Crash

Spec == Init /\ [][Next]_vars

\* The event loop of the server goes on with what has been started
Server == (\E q \in Requests : Enqueue(q)) \/ (\E k \in Jobs : Runner(k))

FairSpec == Spec /\ WF_vars(Server)

-----------------------------------------------------------------------------
\* The types of all variables
TypeOK ==
  /\ writer \in BOOLEAN /\ project \in BOOLEAN
  /\ row \in [Runs -> {"none", "active", "done", "deleted"}]
  /\ tool \subseteq Scans
  /\ alive \subseteq Runs /\ dirs \subseteq Runs
  /\ \A q \in Requests :
       /\ request[q].pc \in {"idle", "check", "list", "commit", "enqueue", "over"}
       /\ request[q].manifest \subseteq Runs
  /\ \A k \in Jobs :
       /\ job[k].status \in {"none", "pending", "running", "failed", "completed"}
       /\ job[k].manifest \subseteq Runs
       /\ job[k].status = "running" \/ ~job[k].old
       /\ task[k].pc \in {"none", "claim", "remove"} /\ task[k].todo \subseteq Runs
  /\ unlisted \subseteq Runs /\ rewritten \subseteq Scans
  /\ faults \in 0 .. MaxFaults /\ crashes \in 0 .. MaxCrashes

\* A row that says work is going on is never deleted, not even when the work
\* started after the request had looked for it, by a request that comes second
\* and whose ids are stale, or through a cascade
ActiveIsKept == [][\A r \in Runs : row[r] = "active" => row'[r] # "deleted"]_vars

\* Directories are only removed for good: whatever has a row has its artifacts,
\* also after a refused deletion, a lost answer, a retry or a restart
RemovedIsDeleted == \A r \in Runs : Present(r) => r \in dirs

\* The ledger knows every directory that has lost its row, until it is gone.
\* The exceptions: a run that started while a request held its manifest (that
\* request may be refused and another one take the run along), and a cancelled
\* process that writes once more.
NoOrphanedArtifacts ==
  \A r \in Runs \ (unlisted \cup rewritten) :
    row[r] = "deleted" /\ r \in dirs =>
      \E k \in Jobs : job[k].status \in {"pending", "running", "failed"} /\ r \in job[k].manifest

\* A deletion that has been committed is carried out if nothing fails, by the
\* server that committed it or by one that found it in the ledger when it
\* started.  The exception is a crash during the removal: the job is running and
\* no server works on it.  No earlier crash excuses anything.
DeletedIsCleaned ==
  \A k \in Jobs, c \in 0 .. MaxCrashes :
    job[k].status = "pending" /\ crashes = c ~>
      \/ job[k].status = "completed"
      \/ job[k].status = "running" /\ task[k].pc = "none" /\ crashes > c
      \/ faults > 0
=============================================================================

------------------------- MODULE ScanDeletion_proofs -------------------------
(***************************************************************************)
(* Proofs about ScanDeletion for every set of scans, runs and requests, in *)
(* both modes of the database, with any number of failures and crashes.    *)
(*                                                                         *)
(* The invariant follows a directory from the run that makes it to the     *)
(* removal: what a request has in its hands (Requested, Listed), what a    *)
(* deletion leaves of a scan and of the project (Bereft), what the ledger  *)
(* and the removals that have been started name (Ledger), and what has     *)
(* been achieved when a removal ends (Removing).                           *)
(***************************************************************************)
EXTENDS ScanDeletion, TLAPS

RequestType ==
  [pc : {"idle", "check", "list", "commit", "enqueue", "over"},
   target : Scans \cup {Project}, manifest : SUBSET Runs]

JobType ==
  [status : {"none", "pending", "running", "failed", "completed"},
   old : BOOLEAN, manifest : SUBSET Runs]

TaskType == [pc : {"none", "claim", "remove"}, todo : SUBSET Runs, failed : BOOLEAN]

\* The functions and records that TypeOK takes apart.
Shape ==
  /\ request \in [Requests -> RequestType]
  /\ job \in [Jobs -> JobType]
  /\ task \in [Jobs -> TaskType]

\* The runs a deletion of t is about.
Concerned(t) == IF t = Project THEN Runs ELSE {t} \cup {c \in Children : Parent[c] = t}

\* A request asks for what it may ask for and once was there; its manifest
\* names runs of its target that had been started.
Requested ==
  \A q \in Requests :
    /\ request[q].pc \in {"check", "list", "commit", "enqueue"} =>
         /\ request[q].target \in Targets[q]
         /\ request[q].target # Project => row[request[q].target] # "none"
    /\ \A r \in request[q].manifest :
         row[r] # "none" /\ r \in Concerned(request[q].target)
    /\ request[q].pc = "commit" => request[q].target \in request[q].manifest \cup {Project}

\* A manifest that waits for its transaction names every run of its target that
\* can still lose its row, unless the run started meanwhile.
Listed ==
  \A q \in Requests : request[q].pc = "commit" =>
    \A r \in Concerned(request[q].target) :
      Present(r) => r \in request[q].manifest \cup unlisted

\* Nothing of a deleted project is left.  Of a deleted scan only dynamic runs
\* are, and only ones that no manifest named and that have ended.
Bereft ==
  /\ ~project => \A r \in Runs : ~Present(r)
  /\ \A c \in Children : row[Parent[c]] = "deleted" /\ Present(c) =>
       c \in Dynamic \cap unlisted /\ row[c] = "done"

\* Cleanup jobs and removals only name runs whose rows are gone for good; the
\* job of a scan stands for the deletion of that scan, and the job of a project
\* comes from the one request that has committed it.
Ledger ==
  /\ \A k \in Jobs : \A r \in job[k].manifest \cup task[k].todo : row[r] = "deleted"
  /\ \A k \in Scans : job[k].status # "none" => row[k] = "deleted"
  /\ \A k \in Jobs \cap Requests :
       request[k].pc \in {"idle", "check", "list", "commit"} => job[k].status = "none"

\* Unless one of the removals was rejected, a directory of the job that is still
\* there is about to be removed or was written again.
Removing ==
  \A k \in Jobs : task[k].pc = "remove" =>
    /\ job[k].status = "running"
    /\ ~task[k].failed =>
         \A r \in job[k].manifest \cap dirs : r \in task[k].todo \cup rewritten

DeletionInv ==
  /\ TypeOK /\ Shape /\ Requested /\ Listed /\ Bereft /\ Ledger /\ Removing
  /\ RemovedIsDeleted /\ NoOrphanedArtifacts

-----------------------------------------------------------------------------
\* What an assignment to one entry of a table does.
LEMMA Entry ==
  ASSUME NEW S, NEW T, NEW f \in [S -> T], NEW x \in S, NEW v \in T
  PROVE  /\ [f EXCEPT ![x] = v] \in [S -> T]
         /\ [f EXCEPT ![x] = v][x] = v
         /\ \A y \in S \ {x} : [f EXCEPT ![x] = v][y] = f[y]
OBVIOUS

\* Before anything has started the invariant holds.
LEMMA InitDeletionInv == Init => DeletionInv
<1> SUFFICES ASSUME Init PROVE DeletionInv
  OBVIOUS
<1> USE DeletionAssumption DEF RequestType, JobType, TaskType, Init, Request, Unasked, NoJob, NoTask, Project
<1>1. Shape
  BY DEF Shape, Jobs, Runs
<1>2. TypeOK
  <2>1. \A k \in Jobs : job[k].status = "running" \/ ~job[k].old
    OBVIOUS
  <2>2. /\ writer \in BOOLEAN /\ project \in BOOLEAN
        /\ row \in [Runs -> {"none", "active", "done", "deleted"}]
        /\ tool \subseteq Scans /\ alive \subseteq Runs /\ dirs \subseteq Runs
        /\ unlisted \subseteq Runs /\ rewritten \subseteq Scans
        /\ faults \in 0 .. MaxFaults /\ crashes \in 0 .. MaxCrashes
    OBVIOUS
  <2> HIDE DEF Init
  <2>3. QED
    BY <1>1, <2>1, <2>2 DEF TypeOK, Shape
<1>3. Requested /\ Listed /\ Bereft
  BY DEF Requested, Listed, Bereft, Present, Concerned, Runs
<1>4. Ledger /\ Removing
  BY DEF Ledger, Removing, Jobs, Runs
<1>5. RemovedIsDeleted /\ NoOrphanedArtifacts
  BY DEF RemovedIsDeleted, NoOrphanedArtifacts, Present
<1>6. QED
  BY <1>1, <1>2, <1>3, <1>4, <1>5 DEF DeletionInv

-----------------------------------------------------------------------------
(* The work that goes on meanwhile *)

\* A run that starts is new to every manifest that is committed, and to every
\* request that has its manifest already.
LEMMA StartInv ==
  ASSUME DeletionInv, NEW r \in Runs, Start(r)
  PROVE  DeletionInv'
<1> USE DeletionAssumption DEF DeletionInv, RequestType, JobType, TaskType, Start, ledger, bounds
<1>1. TypeOK' /\ Shape'
  BY DEF TypeOK, Shape
<1>2. Requested'
  BY DEF Requested, Shape, Concerned, TypeOK
<1>3. Listed'
  BY DEF Listed, Present, Concerned, TypeOK, Shape
<1>4. Bereft'
  BY DEF Bereft, Present, TypeOK, Runs
<1>5. Ledger' /\ Removing'
  BY DEF Ledger, Removing, Shape, TypeOK, Runs, Jobs
<1>6. RemovedIsDeleted' /\ NoOrphanedArtifacts'
  BY DEF RemovedIsDeleted, NoOrphanedArtifacts, Present, TypeOK
<1>7. QED
  BY <1>1, <1>2, <1>3, <1>4, <1>5, <1>6

\* A run that ends, by itself or by a verdict, keeps its row and its directory.
LEMMA EndInv ==
  ASSUME DeletionInv, NEW r \in Runs,
         row[r] = "active", row' = [row EXCEPT ![r] = "done"],
         alive' \subseteq alive,
         UNCHANGED <<writer, project, tool, dirs, request, ledger, history, bounds>>
  PROVE  DeletionInv'
<1> USE DeletionAssumption DEF DeletionInv, RequestType, JobType, TaskType, ledger, bounds, history
<1>1. TypeOK' /\ Shape'
  BY DEF TypeOK, Shape
<1>2. Requested'
  BY DEF Requested, Shape, Concerned, TypeOK
<1>3. Listed'
  BY DEF Listed, Present, Concerned, TypeOK, Shape
<1>4. Bereft'
  BY DEF Bereft, Present, TypeOK, Runs
<1>5. Ledger' /\ Removing'
  BY DEF Ledger, Removing, Shape, TypeOK, Runs, Jobs
<1>6. RemovedIsDeleted' /\ NoOrphanedArtifacts'
  BY DEF RemovedIsDeleted, NoOrphanedArtifacts, Present, TypeOK
<1>7. QED
  BY <1>1, <1>2, <1>3, <1>4, <1>5, <1>6

\* A process that dies, runs its tools or writes once more changes no row.
LEMMA ProcessInv ==
  ASSUME DeletionInv,
         \/ \E r \in Runs : Die(r)
         \/ \E s \in Scans : ToolRun(s) \/ LateWrite(s)
  PROVE  DeletionInv'
<1> USE DeletionAssumption DEF DeletionInv, RequestType, JobType, TaskType
<1>1. /\ UNCHANGED <<writer, project, row, request, job, task, unlisted, faults, crashes>>
      /\ tool' \subseteq Scans /\ alive' \subseteq Runs
      /\ \E S \in SUBSET Scans : dirs' = dirs \cup S /\ rewritten' = rewritten \cup S
  <2> USE DEF TypeOK, ledger, bounds, history
  <2>1. CASE \E r \in Runs : Die(r)
    <3>1. dirs' = dirs \cup {} /\ rewritten' = rewritten \cup {}
      BY <2>1 DEF Die
    <3>2. QED
      BY <2>1, <3>1 DEF Die
  <2>2. CASE \E s \in Scans : ToolRun(s)
    <3>1. dirs' = dirs \cup {} /\ rewritten' = rewritten \cup {}
      BY <2>2 DEF ToolRun
    <3>2. QED
      BY <2>2, <3>1 DEF ToolRun
  <2>3. ASSUME NEW s \in Scans, LateWrite(s)
        PROVE  /\ UNCHANGED <<writer, project, row, request, job, task, unlisted,
                              faults, crashes, tool, alive>>
               /\ {s} \in SUBSET Scans
               /\ dirs' = dirs \cup {s} /\ rewritten' = rewritten \cup {s}
    BY <2>3 DEF LateWrite
  <2>4. QED
    BY <2>1, <2>2, <2>3
<1>2. TypeOK' /\ Shape'
  BY <1>1 DEF TypeOK, Shape, Runs
<1>3. Requested' /\ Listed'
  BY <1>1 DEF Requested, Listed, Present, Concerned
<1>4. Bereft' /\ Ledger'
  BY <1>1 DEF Bereft, Ledger, Present
<1>5. Removing'
  BY <1>1 DEF Removing
<1>6. RemovedIsDeleted' /\ NoOrphanedArtifacts'
  BY <1>1 DEF RemovedIsDeleted, NoOrphanedArtifacts, Present
<1>7. QED
  BY <1>2, <1>3, <1>4, <1>5, <1>6

\* Whatever scans and their runs do.
LEMMA WorkInv ==
  ASSUME DeletionInv, Work
  PROVE  DeletionInv'
<1>1. ASSUME NEW r \in Runs, Finish(r) PROVE DeletionInv'
  <2>1. alive' \subseteq alive
    BY <1>1 DEF Finish
  <2>2. QED
    BY <1>1, <2>1, EndInv DEF Finish
<1>2. ASSUME NEW s \in Scans, Decide(s) PROVE DeletionInv'
  BY <1>2, EndInv DEF Decide, Runs
<1>3. QED
  BY <1>1, <1>2, StartInv, ProcessInv DEF Work

-----------------------------------------------------------------------------
(* The requests *)

\* Steps of a request before its transaction, and its answer: rows, directories
\* and ledger stay.  A manifest, when it is made, is complete.
LEMMA RequestInv ==
  ASSUME DeletionInv, NEW q \in Requests,
         \/ \E t \in Targets[q] : Find(q, t)
         \/ Check(q) \/ List(q) \/ CommitRefused(q)
  PROVE  DeletionInv'
<1> USE DeletionAssumption DEF DeletionInv, RequestType, JobType, TaskType
<1>1. /\ UNCHANGED <<writer, project, row, tool, alive, dirs, job, task, unlisted,
                     rewritten, faults, crashes>>
      /\ \/ request' = [request EXCEPT ![q] = Over]
         \/ \E t \in Targets[q] :
              /\ TargetExists(t) /\ request[q].pc = "idle"
              /\ request' = [request EXCEPT ![q] = [Request("check") EXCEPT !.target = t]]
         \/ request[q].pc = "check" /\ request' = [request EXCEPT ![q].pc = "list"]
         \/ List(q)
  BY DEF Find, Check, List, CommitRefused, Ends, Moves, work, ledger, history, bounds
<1>2. buildArtifactManifest(request[q].target) \subseteq Runs
  BY DEF buildArtifactManifest, Linked, Shape, Runs, Project
<1>3. Shape'
  <2>1. CASE request' = [request EXCEPT ![q] = Over]
    BY <1>1, <2>1 DEF Shape, Over, Request
  <2>2. ASSUME NEW t \in Targets[q],
               request' = [request EXCEPT ![q] = [Request("check") EXCEPT !.target = t]]
        PROVE  Shape'
    BY <1>1, <2>2 DEF Shape, Request, Project
  <2>3. CASE request' = [request EXCEPT ![q].pc = "list"]
    BY <1>1, <2>3 DEF Shape
  <2>4. CASE List(q)
    <3> DEFINE M == buildArtifactManifest(request[q].target)
    <3>1. request' = [request EXCEPT ![q] = [request[q] EXCEPT !.pc = "commit", !.manifest = M]]
      BY <2>4 DEF List
    <3>2. M \in SUBSET Runs /\ request[q] \in RequestType
      BY <1>2 DEF Shape
    <3> HIDE DEF M
    <3>3. [request[q] EXCEPT !.pc = "commit", !.manifest = M] \in RequestType
      BY <3>2
    <3> HIDE DEF RequestType
    <3>4. QED
      BY <1>1, <3>1, <3>3, Entry DEF Shape
  <2>5. QED
    BY <1>1, <2>1, <2>2, <2>3, <2>4
<1>4. TypeOK'
  BY <1>1, <1>3 DEF TypeOK, Shape
<1>5. Requested'
  <2>1. CASE request' = [request EXCEPT ![q] = Over]
    BY <1>1, <2>1 DEF Requested, Shape, Over, Request, Concerned
  <2>2. ASSUME NEW t \in Targets[q], TargetExists(t),
               request' = [request EXCEPT ![q] = [Request("check") EXCEPT !.target = t]]
        PROVE  Requested'
    BY <1>1, <2>2 DEF Requested, Shape, Request, TargetExists, Present, Concerned
  <2>3. CASE request[q].pc = "check" /\ request' = [request EXCEPT ![q].pc = "list"]
    BY <1>1, <2>3 DEF Requested, Shape, Concerned
  <2>4. CASE List(q)
    <3>1. /\ request'[q].target = request[q].target /\ request'[q].pc = "commit"
          /\ request'[q].manifest = buildArtifactManifest(request[q].target)
          /\ \A p \in Requests \ {q} : request'[p] = request[p]
      BY <2>4 DEF List, Shape
    <3>2. \A r \in buildArtifactManifest(request[q].target) :
            row[r] # "none" /\ r \in Concerned(request[q].target)
      <4>1. request[q].target # Project => row[request[q].target] # "none"
        BY <2>4 DEF List, Requested
      <4>2. QED
        BY <4>1 DEF buildArtifactManifest, Linked, Present, Concerned
    <3>3. request'[q].target \in request'[q].manifest \cup {Project}
      BY <3>1 DEF buildArtifactManifest
    <3>4. request[q].pc = "list"
      BY <2>4 DEF List
    <3>5. QED
      BY <1>1, <3>1, <3>2, <3>3, <3>4 DEF Requested, Concerned
  <2>5. QED
    BY <1>1, <2>1, <2>2, <2>3, <2>4
<1>6. Listed'
  <2>1. CASE List(q)
    <3>1. /\ request'[q].target = request[q].target
          /\ request'[q].manifest = buildArtifactManifest(request[q].target)
          /\ \A p \in Requests \ {q} : request'[p] = request[p]
      BY <2>1 DEF List, Shape
    <3>2. \A r \in Concerned(request[q].target) :
            Present(r) => r \in request'[q].manifest \cup unlisted
      BY <2>1, <3>1 DEF List, buildArtifactManifest, Linked, Concerned, Bereft,
          Requested,
         Present, TypeOK, Shape, Runs
    <3>3. QED
      BY <1>1, <3>1, <3>2 DEF Listed, Present, Concerned
  <2>2. CASE ~List(q)
    <3>1. /\ request'[q].pc # "commit"
          /\ \A p \in Requests \ {q} : request'[p] = request[p]
      BY <1>1, <2>2 DEF Shape, Over, Request
    <3>2. QED
      BY <1>1, <3>1 DEF Listed, Present, Concerned
  <2>3. QED
    BY <2>1, <2>2
<1>7. Bereft' /\ Removing'
  BY <1>1 DEF Bereft, Removing, Present
<1>8. Ledger'
  <2>1. /\ request'[q].pc \in {"idle", "check", "list", "commit"} =>
             request[q].pc \in {"idle", "check", "list", "commit"}
        /\ \A p \in Requests \ {q} : request'[p] = request[p]
    BY <1>1 DEF Shape, Over, Request, List
  <2>2. QED
    BY <1>1, <2>1 DEF Ledger
<1>9. RemovedIsDeleted' /\ NoOrphanedArtifacts'
  BY <1>1 DEF RemovedIsDeleted, NoOrphanedArtifacts, Present
<1>10. QED
  BY <1>3, <1>4, <1>5, <1>6, <1>7, <1>8, <1>9

\* What the transaction takes along is of the target; it has ended, and it is
\* named by the manifest or started while the manifest was waiting.
LEMMA CascadeEnded ==
  ASSUME DeletionInv, NEW q \in Requests,
         request[q].pc = "commit", ~ActiveWork(request[q].target)
  PROVE  \A r \in Cascade(q) :
           /\ r \in Concerned(request[q].target) /\ r \in Runs
           /\ row[r] = "done"
           /\ r \in request[q].manifest \cup unlisted
<1> USE DeletionAssumption DEF DeletionInv, RequestType, JobType, TaskType
<1>1. CASE request[q].target = Project
  BY <1>1 DEF Cascade, Concerned, Listed, Present, ActiveWork, ProjectActiveWork
<1>2. CASE request[q].target # Project
  <2> DEFINE t == request[q].target
  <2>1. t \in Scans /\ t \in Runs /\ row[t] # "none"
    BY <1>2 DEF Shape, Requested, Runs
  <2>2. CASE Present(t)
    BY <1>2, <2>1, <2>2 DEF Cascade, Concerned, Listed, Present, ActiveWork,
        ScanActiveWork,
       Linked, Requested, Runs, TypeOK, Project
  <2>3. CASE ~Present(t)
    <3>1. row[t] = "deleted"
      BY <2>1, <2>3 DEF Present, TypeOK
    <3>2. \A r \in Cascade(q) : r \in request[q].manifest \cap Dynamic /\ Present(r)
      BY <1>2, <2>3 DEF Cascade
    <3>3. \A r \in Cascade(q) : r \in Children /\ Parent[r] = t
      BY <1>2, <2>1, <3>2 DEF Requested, Concerned
    <3>4. QED
      BY <1>2, <3>1, <3>2, <3>3 DEF Bereft, Concerned, Runs
  <2>4. QED
    BY <2>2, <2>3
<1>3. QED
  BY <1>1, <1>2

\* The transaction: what it deletes stays deleted, and the ledger knows what is
\* left of it.
LEMMA DeletesInv ==
  ASSUME DeletionInv, NEW q \in Requests,
         request[q].pc = "commit", ~ActiveWork(request[q].target), Deletes(q),
         Moves(q, "enqueue") \/ Ends(q),
         UNCHANGED <<writer, history>>,
         faults' \in 0 .. MaxFaults, crashes' \in 0 .. MaxCrashes
  PROVE  DeletionInv'
<1> USE DeletionAssumption DEF DeletionInv, RequestType, JobType, TaskType
<1> DEFINE t == request[q].target
           K == JobOf(q)
           New == [status |-> "pending", old |-> FALSE, manifest |-> request[q].manifest]
<1>1. /\ \A p \in Requests \ {q} : request'[p] = request[p]
      /\ \/ request'[q] = [request[q] EXCEPT !.pc = "enqueue"]
         \/ request'[q] = Over
      /\ request'[q].pc \in {"enqueue", "over"}
      /\ request' \in [Requests -> RequestType]
  <2>1. [request[q] EXCEPT !.pc = "enqueue"] \in RequestType /\ Over \in RequestType
    BY DEF Shape, Over, Request
  <2>2. \/ request' = [request EXCEPT ![q] = [@ EXCEPT !.pc = "enqueue"]]
        \/ request' = [request EXCEPT ![q] = Over]
    BY DEF Moves, Ends
  <2>3. [request[q] EXCEPT !.pc = "enqueue"].pc = "enqueue" /\ Over.pc = "over"
    BY DEF Shape, Over, Request
  <2> HIDE DEF RequestType
  <2>4. request \in [Requests -> RequestType]
    BY DEF Shape
  <2>5. CASE request' = [request EXCEPT ![q] = Over]
    BY <2>1, <2>3, <2>4, <2>5, Entry
  <2>6. CASE request' = [request EXCEPT ![q] = [@ EXCEPT !.pc = "enqueue"]]
    BY <2>1, <2>3, <2>4, <2>6, Entry
  <2>7. QED
    BY <2>2, <2>5, <2>6
<1>2. K \in Jobs /\ t \in Scans \cup {Project} /\ request[q].manifest \subseteq Runs
  BY DEF JobOf, Jobs, Requested, Shape
<1>3. /\ \A k \in Jobs \ {K} : job'[k] = job[k]
      /\ job[K].status # "none" => job'[K] = job[K]
      /\ job[K].status = "none" => job'[K] = New
      /\ New.status = "pending" /\ New.old = FALSE /\ New.manifest = request[q].manifest
      /\ job' \in [Jobs -> JobType]
  BY <1>2 DEF Shape, Deletes
<1>4. \A r \in Runs : row'[r] = IF r \in Cascade(q) THEN "deleted" ELSE row[r]
  BY DEF Deletes
<1>5. \A r \in Runs : r \in Cascade(q) => row[r] = "done"
  BY CascadeEnded
<1>6. TypeOK' /\ Shape'
  <2>1. Shape'
    BY <1>1, <1>3 DEF Shape, Deletes
  <2>2. row' \in [Runs -> {"none", "active", "done", "deleted"}]
    BY DEF Deletes, TypeOK
  <2>3. project' \in BOOLEAN
    BY DEF Deletes, TypeOK
  <2>4. \A k \in Jobs : job'[k].status = "running" \/ ~job'[k].old
    BY <1>3 DEF TypeOK
  <2>5. QED
    BY <2>1, <2>2, <2>3, <2>4 DEF TypeOK, Shape, Deletes, history
\* the manifest of the request has lost its rows
<1>7. \A r \in request[q].manifest : row'[r] = "deleted"
  <2> SUFFICES ASSUME NEW r \in request[q].manifest PROVE row'[r] = "deleted"
    OBVIOUS
  <2>1. r \in Runs /\ row[r] # "none" /\ r \in Concerned(t)
    BY <1>2 DEF Requested
  <2>2. CASE ~Present(r)
    BY <1>4, <2>1, <2>2 DEF Present, TypeOK
  <2>3. CASE Present(r) /\ t = Project
    BY <1>4, <2>1, <2>3 DEF Cascade, Bereft
  <2>4. CASE Present(r) /\ t # Project
    <3>1. t \in Scans /\ t \in Runs /\ row[t] # "none"
      BY <1>2, <2>4 DEF Requested, Runs
    <3>2. CASE r = t
      BY <1>4, <2>1, <2>4, <3>2 DEF Cascade
    <3>3. CASE r \in Children /\ Parent[r] = t /\ r \in Dynamic
      BY <1>4, <2>1, <2>4, <3>3 DEF Cascade
    <3>4. CASE r \in Children /\ Parent[r] = t /\ r \notin Dynamic
      <4>1. Present(t)
        BY <2>4, <3>1, <3>4 DEF Bereft, TypeOK, Present
      <4>2. QED
        BY <1>4, <2>1, <2>4, <3>4, <4>1 DEF Cascade, Linked
    <3>5. QED
      BY <2>1, <2>4, <3>2, <3>3, <3>4 DEF Concerned
  <2>5. QED
    BY <2>2, <2>3, <2>4
<1>8. Requested'
  <2>1. \A r \in Runs : row[r] # "none" => row'[r] # "none"
    BY <1>4
  <2>2. \A p \in Requests \ {q} :
          request[p].manifest \subseteq Runs /\ request[p].target \in Runs \cup {Project}
    BY DEF Shape, Runs
  <2>3. CASE request'[q] = Over
    BY <1>1, <2>1, <2>2, <2>3 DEF Requested, Concerned, Over, Request
  <2>4. CASE request'[q] = [request[q] EXCEPT !.pc = "enqueue"]
    <3>1. /\ request'[q].pc = "enqueue" /\ request'[q].target = t
          /\ request'[q].manifest = request[q].manifest
      BY <2>4 DEF Shape
    <3>2. QED
      BY <1>1, <1>2, <2>1, <2>2, <3>1 DEF Requested, Concerned, Runs
  <2>5. QED
    BY <1>1, <2>3, <2>4
<1>9. Listed'
  <2>1. \A p \in Requests : request'[p].pc = "commit" =>
          p # q /\ request'[p] = request[p]
    BY <1>1
  <2>2. \A r \in Runs : Present(r)' => Present(r)
    BY <1>4 DEF Present
  <2>3. \A p \in Requests : Concerned(request[p].target) \subseteq Runs
    BY DEF Concerned, Shape, Runs
  <2>4. QED
    BY <2>1, <2>2, <2>3 DEF Listed, Concerned, history
<1>10. Bereft'
  <2>1. project' = FALSE => \A r \in Runs : ~Present(r)'
    BY <1>4 DEF Deletes, Bereft, Cascade, Present
  <2>2. ASSUME NEW c \in Children, row'[Parent[c]] = "deleted", Present(c)'
        PROVE  c \in Dynamic \cap unlisted /\ row'[c] = "done"
    <3>1. /\ c \in Runs /\ Parent[c] \in Scans /\ Parent[c] \in Runs
          /\ c \notin Cascade(q) /\ row'[c] = row[c] /\ Present(c)
      BY <1>4, <2>2 DEF Runs, Present
    <3>2. CASE row[Parent[c]] = "deleted"
      BY <3>1, <3>2 DEF Bereft
    <3>3. CASE row[Parent[c]] # "deleted"
      <4>1. Parent[c] \in Cascade(q)
        BY <1>4, <2>2, <3>1, <3>3
      <4>2. t # Project
        BY <3>1, <4>1 DEF Cascade
      <4>3. Parent[c] = t /\ Present(t)
        BY <3>1, <4>1, <4>2 DEF Cascade, Linked
      <4>4. c \in Dynamic /\ c \notin request[q].manifest /\ row[c] # "active"
        BY <3>1, <4>2, <4>3 DEF Cascade, Linked, ActiveWork, ScanActiveWork
      <4>5. c \in unlisted
        BY <3>1, <4>2, <4>3, <4>4 DEF Listed, Concerned
      <4>6. QED
        BY <3>1, <4>4, <4>5 DEF Present
    <3>4. QED
      BY <3>2, <3>3
  <2>3. QED
    BY <2>1, <2>2 DEF Bereft, Deletes, TypeOK, history
<1>11. Ledger'
  <2>1. \A r \in Runs : row[r] = "deleted" => row'[r] = "deleted"
    BY <1>4
  <2>2. \A k \in Jobs : job[k].manifest \subseteq Runs /\ task[k].todo \subseteq Runs
    BY DEF TypeOK
  <2>3. task' = task
    BY DEF Deletes
  <2>4. \A k \in Jobs : \A r \in job'[k].manifest \cup task'[k].todo : row'[r] = "deleted"
    BY <1>3, <1>7, <2>1, <2>2, <2>3 DEF Ledger
  <2>5. ASSUME NEW k \in Scans, job'[k].status # "none"
        PROVE  row'[k] = "deleted"
    <3>1. k \in Jobs /\ k \in Runs
      BY DEF Jobs, Runs
    <3>2. CASE k = K
      <4>1. k = t /\ k # Project
        BY <3>2 DEF JobOf, Project
      <4>2. k \in request[q].manifest
        BY <4>1 DEF Requested
      <4>3. QED
        BY <1>7, <4>2
    <3>3. CASE k # K
      BY <1>3, <2>1, <2>5, <3>1, <3>3 DEF Ledger
    <3>4. QED
      BY <3>2, <3>3
  <2>6. ASSUME NEW k \in Jobs \cap Requests,
               request'[k].pc \in {"idle", "check", "list", "commit"}
        PROVE  job'[k].status = "none"
    <3>1. k # q
      BY <1>1, <2>6
    <3>2. k # K
      BY <1>2, <3>1 DEF JobOf
    <3>3. QED
      BY <1>1, <1>3, <2>6, <3>1, <3>2 DEF Ledger
  <2>7. QED
    BY <2>4, <2>5, <2>6 DEF Ledger
<1>12. Removing'
  <2>1. task' = task /\ dirs' = dirs /\ rewritten' = rewritten
    BY DEF Deletes, history
  <2>2. \A k \in Jobs : job[k].status = "running" => job'[k] = job[k]
    BY <1>3
  <2>3. QED
    BY <2>1, <2>2 DEF Removing
<1>13. RemovedIsDeleted'
  BY <1>4 DEF RemovedIsDeleted, Present, Deletes
<1>14. NoOrphanedArtifacts'
  <2> SUFFICES ASSUME NEW r \in Runs, r \notin unlisted \cup rewritten,
                      row'[r] = "deleted", r \in dirs
               PROVE  \E k \in Jobs : /\ job'[k].status \in {"pending", "running", "failed"}
                                      /\ r \in job'[k].manifest
    BY DEF NoOrphanedArtifacts, Deletes, history
  <2>1. CASE row[r] = "deleted"
    <3>1. PICK k \in Jobs : /\ job[k].status \in {"pending", "running", "failed"}
                            /\ r \in job[k].manifest
      BY <2>1 DEF NoOrphanedArtifacts
    <3>2. job'[k] = job[k]
      BY <1>3, <3>1
    <3>3. QED
      BY <3>1, <3>2
  <2>2. CASE row[r] # "deleted"
    <3>1. r \in Cascade(q)
      BY <1>4, <2>2
    <3>2. r \in request[q].manifest
      BY <3>1, CascadeEnded
    <3>3. CASE job[K].status = "none"
      BY <1>2, <1>3, <3>2, <3>3
    <3>4. CASE job[K].status # "none"
      <4>1. t # Project
        BY <1>2, <3>4 DEF Ledger, JobOf
      <4>2. K = t /\ t \in Scans /\ row[t] = "deleted"
        BY <1>2, <3>4, <4>1 DEF JobOf, Ledger
      <4>3. r \in Dynamic /\ Present(r)
        BY <3>1, <4>1, <4>2 DEF Cascade, Present
      <4>4. r \in Children /\ Parent[r] = t
        BY <3>2, <4>1, <4>2, <4>3 DEF Requested, Concerned
      <4>5. QED
        BY <4>2, <4>3, <4>4 DEF Bereft
    <3>5. QED
      BY <3>3, <3>4
  <2>3. QED
    BY <2>1, <2>2
<1>15. QED
  BY <1>6, <1>8, <1>9, <1>10, <1>11, <1>12, <1>13, <1>14

\* Every step of a request.
LEMMA DeletionStepInv ==
  ASSUME DeletionInv, NEW q \in Requests, Deletion(q)
  PROVE  DeletionInv'
<1> USE DeletionAssumption DEF DeletionInv, RequestType, JobType, TaskType
<1>1. CASE Commit(q)
  BY <1>1, DeletesInv DEF Commit, bounds, TypeOK
<1>2. CASE CommitThrows(q)
  <2>1. faults' \in 0 .. MaxFaults /\ crashes' \in 0 .. MaxCrashes
    BY <1>2 DEF CommitThrows, Fault, TypeOK
  <2>2. CASE writer /\ ~ActiveWork(request[q].target) /\ Deletes(q)
    BY <1>2, <2>1, <2>2, DeletesInv DEF CommitThrows
  <2>3. CASE UNCHANGED <<work, ledger>>
    <3>1. /\ UNCHANGED <<writer, project, row, tool, alive, dirs, job, task, unlisted, rewritten>>
          /\ \A p \in Requests \ {q} : request'[p] = request[p]
          /\ request'[q] = Over /\ Over.pc = "over" /\ Over.manifest = {}
          /\ request' = [request EXCEPT ![q] = Over]
      BY <1>2, <2>3 DEF CommitThrows, Ends, Shape, Over, Request, work, ledger, history
    <3>2. TypeOK' /\ Shape'
      <4>1. Shape'
        BY <3>1 DEF Shape, Over, Request
      <4>2. QED
        BY <2>1, <3>1, <4>1 DEF TypeOK, Shape
    <3>3. Requested' /\ Listed'
      BY <3>1 DEF Requested, Listed, Present, Concerned
    <3>4. Bereft' /\ Ledger' /\ Removing'
      BY <3>1 DEF Bereft, Ledger, Removing, Present
    <3>5. RemovedIsDeleted' /\ NoOrphanedArtifacts'
      BY <3>1 DEF RemovedIsDeleted, NoOrphanedArtifacts, Present
    <3>6. QED
      BY <3>2, <3>3, <3>4, <3>5
  <2>4. QED
    BY <1>2, <2>2, <2>3 DEF CommitThrows
<1>3. CASE Enqueue(q)
  <2>1. /\ UNCHANGED <<writer, project, row, tool, alive, dirs, job, unlisted, rewritten,
                       faults, crashes>>
        /\ \A p \in Requests \ {q} : request'[p] = request[p]
        /\ request'[q] = Over /\ Over.pc = "over" /\ Over.manifest = {}
        /\ request' = [request EXCEPT ![q] = Over]
    BY <1>3 DEF Enqueue, Ends, Shape, Over, Request, work, history, bounds
  <2>2. /\ task' \in [Jobs -> TaskType]
        /\ \A k \in Jobs : /\ task'[k].todo = task[k].todo
                           /\ task'[k].pc = "remove" => task'[k] = task[k]
    BY <1>3 DEF Enqueue, Enqueued, Shape
  <2>3. TypeOK' /\ Shape'
    <3>1. Shape'
      BY <2>1, <2>2 DEF Shape, Over, Request
    <3>2. QED
      BY <2>1, <3>1 DEF TypeOK, Shape
  <2>4. Requested' /\ Listed'
    BY <2>1 DEF Requested, Listed, Present, Concerned
  <2>5. Bereft' /\ Ledger' /\ Removing'
    BY <2>1, <2>2 DEF Bereft, Ledger, Removing, Present
  <2>6. RemovedIsDeleted' /\ NoOrphanedArtifacts'
    BY <2>1 DEF RemovedIsDeleted, NoOrphanedArtifacts, Present
  <2>7. QED
    BY <2>3, <2>4, <2>5, <2>6
<1>4. QED
  BY <1>1, <1>2, <1>3, RequestInv DEF Deletion

-----------------------------------------------------------------------------
(* The cleanup runner *)

Unfinished(k) == job[k].status \in {"pending", "running", "failed"}

\* What suffices of a step that only works on jobs: no manifest changes, removals
\* are those of a manifest, a directory that goes has lost its row, and a job is
\* only given up when nothing of it is left.
LEMMA CleanupInv ==
  ASSUME DeletionInv, UNCHANGED <<writer, project, row, tool, alive, request, history>>,
         faults' \in 0 .. MaxFaults, crashes' \in 0 .. MaxCrashes,
         job' \in [Jobs -> JobType], task' \in [Jobs -> TaskType], dirs' \subseteq dirs,
         \A r \in dirs \ dirs' : row[r] = "deleted",
         \A k \in Jobs :
           /\ job'[k].manifest = job[k].manifest
           /\ job'[k].status = "none" <=> job[k].status = "none"
           /\ job'[k].status = "running" \/ ~job'[k].old
           /\ task'[k].todo \subseteq task[k].todo \cup job[k].manifest
           /\ Unfinished(k) => \/ Unfinished(k)'
                               \/ job[k].manifest \cap dirs \subseteq rewritten,
         Removing'
  PROVE  DeletionInv'
<1> USE DeletionAssumption DEF DeletionInv
<1>1. Shape'
  BY DEF Shape
<1>2. TypeOK'
  BY <1>1 DEF TypeOK, Shape, history, RequestType, JobType, TaskType
<1>3. Requested' /\ Listed' /\ Bereft'
  BY DEF Requested, Listed, Bereft, Present, Concerned, history
<1>4. Ledger'
  BY DEF Ledger, Jobs
<1>5. RemovedIsDeleted'
  BY DEF RemovedIsDeleted, Present
<1>6. NoOrphanedArtifacts'
  BY DEF NoOrphanedArtifacts, Unfinished, history
<1>7. QED
  BY <1>1, <1>2, <1>3, <1>4, <1>5, <1>6

\* A claim starts the removal of everything the manifest names.
LEMMA ClaimInv ==
  ASSUME DeletionInv, NEW k \in Jobs, Claim(k)
  PROVE  DeletionInv'
<1> USE DeletionAssumption DEF DeletionInv
<1>1. /\ UNCHANGED <<writer, project, row, tool, alive, request, history, dirs>>
      /\ faults' \in 0 .. MaxFaults /\ crashes' \in 0 .. MaxCrashes
  BY DEF Claim, TypeOK, work, bounds
<1>2. CASE Recoverable(k)
  <2> DEFINE J == [job[k] EXCEPT !.status = "running", !.old = FALSE]
             T == [pc |-> "remove", failed |-> FALSE, todo |-> task[k].todo \cup job[k].manifest]
  <2>1. job' = [job EXCEPT ![k] = J] /\ task' = [task EXCEPT ![k] = T]
    BY <1>2 DEF Claim
  <2>2. J \in JobType /\ T \in TaskType
    BY ZenonT(60) DEF JobType, TaskType, Shape
  <2>3. /\ J.status = "running" /\ J.old = FALSE /\ J.manifest = job[k].manifest
        /\ T.pc = "remove" /\ T.todo = task[k].todo \cup job[k].manifest
    BY DEF JobType, Shape
  <2>4. job[k].status \in {"pending", "running", "failed"}
    BY <1>2 DEF Recoverable
  <2> HIDE DEF J, T
  <2>5. /\ job' \in [Jobs -> JobType] /\ job'[k] = J
        /\ \A i \in Jobs \ {k} : job'[i] = job[i]
    BY <2>1, <2>2, Entry DEF Shape
  <2>6. /\ task' \in [Jobs -> TaskType] /\ task'[k] = T
        /\ \A i \in Jobs \ {k} : task'[i] = task[i]
    BY <2>1, <2>2, Entry DEF Shape
  <2>7. Removing'
    BY <1>1, <2>3, <2>5, <2>6 DEF Removing, history
  <2>8. \A i \in Jobs :
           /\ job'[i].manifest = job[i].manifest
           /\ job'[i].status = "none" <=> job[i].status = "none"
           /\ job'[i].status = "running" \/ ~job'[i].old
           /\ task'[i].todo \subseteq task[i].todo \cup job[i].manifest
           /\ Unfinished(i) => Unfinished(i)'
    BY <2>3, <2>4, <2>5, <2>6 DEF TypeOK, Unfinished
  <2>9. QED
    BY <1>1, <2>5, <2>6, <2>7, <2>8, CleanupInv
<1>3. CASE ~Recoverable(k)
  <2>1. job' = job /\ task' = [task EXCEPT ![k] = [task[k] EXCEPT !.pc = "none"]]
    BY <1>3 DEF Claim
  <2>2. /\ task' \in [Jobs -> TaskType]
        /\ \A i \in Jobs : /\ task'[i].todo = task[i].todo
                           /\ task'[i].pc = "remove" => task'[i] = task[i]
    BY SMTT(40), <2>1 DEF Shape, TaskType
  <2>3. Removing'
    BY <1>1, <2>1, <2>2 DEF Removing, history
  <2>4. QED
    BY <1>1, <2>1, <2>2, <2>3, CleanupInv DEF Shape, TypeOK, Unfinished
<1>4. QED
  BY <1>2, <1>3

\* A removal that ends takes its directory along, or makes the job fail.
LEMMA RemoveInv ==
  ASSUME DeletionInv, NEW k \in Jobs, NEW r \in Runs, Remove(k, r) \/ RemoveThrows(k, r)
  PROVE  DeletionInv'
<1> USE DeletionAssumption DEF DeletionInv
<1>1. /\ UNCHANGED <<writer, project, row, tool, alive, request, history, job>>
      /\ faults' \in 0 .. MaxFaults /\ crashes' \in 0 .. MaxCrashes
  BY DEF Remove, RemoveThrows, Fault, TypeOK, work, bounds
<1>2. r \in task[k].todo /\ row[r] = "deleted"
  BY DEF Remove, RemoveThrows, Ledger
<1>3. CASE Remove(k, r)
  <2>1. /\ dirs' = dirs \ {r}
        /\ task' = [task EXCEPT ![k] = [task[k] EXCEPT !.todo = task[k].todo \ {r}]]
    BY <1>3 DEF Remove
  <2>2. /\ task' \in [Jobs -> TaskType]
        /\ \A i \in Jobs \ {k} : task'[i] = task[i]
        /\ task'[k].todo = task[k].todo \ {r}
        /\ task'[k].pc = task[k].pc /\ task'[k].failed = task[k].failed
    BY <2>1 DEF Shape, TaskType
  <2>3. Removing'
    BY <1>1, <2>1, <2>2 DEF Removing, history
  <2>4. QED
    BY <1>1, <1>2, <2>1, <2>2, <2>3, CleanupInv DEF Shape, TypeOK, Unfinished
<1>4. CASE RemoveThrows(k, r)
  <2>1. /\ dirs' = dirs
        /\ task' = [task EXCEPT ![k] = [task[k] EXCEPT !.todo = task[k].todo \ {r},
                                                       !.failed = (task[k].pc = "remove")]]
    BY <1>4 DEF RemoveThrows, work
  <2>2. /\ task' \in [Jobs -> TaskType]
        /\ \A i \in Jobs \ {k} : task'[i] = task[i]
        /\ task'[k].todo = task[k].todo \ {r}
        /\ task'[k].pc = task[k].pc /\ task'[k].failed = (task[k].pc = "remove")
    BY ZenonT(60), <2>1 DEF Shape, TaskType
  <2>3. Removing'
    BY ZenonT(60), <1>1, <2>1, <2>2 DEF Removing, history
  <2>4. QED
    BY <1>1, <2>1, <2>2, <2>3, CleanupInv DEF Shape, TypeOK, Unfinished
<1>5. QED
  BY <1>3, <1>4

\* The end of an attempt: completed only when everything is gone, otherwise
\* failed or, when that cannot be stored, left running.
LEMMA AttemptEndsInv ==
  ASSUME DeletionInv, NEW k \in Jobs,
         ClaimThrows(k) \/ Complete(k) \/ CompleteThrows(k) \/ Fail(k)
  PROVE  DeletionInv'
<1> USE DeletionAssumption DEF DeletionInv
<1>1. /\ UNCHANGED <<writer, project, row, tool, alive, request, history, dirs>>
      /\ faults' \in 0 .. MaxFaults /\ crashes' \in 0 .. MaxCrashes
  BY DEF ClaimThrows, Complete, CompleteThrows, Fail, Fault, TypeOK, work, bounds
<1>2. /\ task' \in [Jobs -> TaskType]
      /\ \A i \in Jobs \ {k} : task'[i] = task[i]
      /\ task'[k].todo = task[k].todo
      /\ task'[k].pc = "remove" => task'[k].failed /\ task[k].pc = "remove"
  <2> DEFINE T1 == [task[k] EXCEPT !.pc = "none"]
             T2 == [task[k] EXCEPT !.failed = TRUE]
             T3 == [task[k] EXCEPT !.pc = "none", !.failed = FALSE]
  <2>1. \E T \in {T1, T2, T3} : task' = [task EXCEPT ![k] = T]
    BY DEF ClaimThrows, Complete, CompleteThrows, Fail
  <2>2. \/ task' = [task EXCEPT ![k] = T1]
        \/ task' = [task EXCEPT ![k] = T2] /\ task[k].pc = "remove"
        \/ task' = [task EXCEPT ![k] = T3]
    BY DEF ClaimThrows, Complete, CompleteThrows, Fail
  <2>3. \A T \in {T1, T2, T3} : T \in TaskType /\ T.todo = task[k].todo
    BY DEF Shape, TaskType
  <2>4. T1.pc = "none" /\ T2.failed = TRUE /\ T3.pc = "none"
    BY DEF Shape, TaskType
  <2> HIDE DEF T1, T2, T3
  <2>5. QED
    BY <2>1, <2>2, <2>3, <2>4, Entry DEF Shape
<1>3. \/ job' = job
      \/ /\ job' = [job EXCEPT ![k] = [job[k] EXCEPT !.status = "completed", !.old = FALSE]]
         /\ Complete(k)
      \/ /\ job' = [job EXCEPT ![k] = [job[k] EXCEPT !.status = "failed", !.old = FALSE]]
         /\ Fail(k)
  BY DEF ClaimThrows, Complete, CompleteThrows, Fail
<1>4. job' # job => task[k].pc = "remove" /\ task'[k].pc = "none"
  BY DEF ClaimThrows, Complete, CompleteThrows, Fail, Shape, TaskType
<1>5. /\ job' \in [Jobs -> JobType]
      /\ \A i \in Jobs \ {k} : job'[i] = job[i]
      /\ job'[k].manifest = job[k].manifest
      /\ job' # job => /\ ~job'[k].old
                       /\ \/ job'[k].status = "completed" /\ Complete(k)
                          \/ job'[k].status = "failed" /\ Fail(k)
  <2> DEFINE J(st) == [job[k] EXCEPT !.status = st, !.old = FALSE]
  <2>1. \A st \in {"completed", "failed"} :
          J(st) \in JobType /\ J(st).manifest = job[k].manifest /\ J(st).status = st /\ J(st).old = FALSE
    BY DEF Shape, JobType
  <2>2. \/ job' = job
        \/ job' = [job EXCEPT ![k] = J("completed")] /\ Complete(k)
        \/ job' = [job EXCEPT ![k] = J("failed")] /\ Fail(k)
    BY <1>3
  <2> HIDE DEF J
  <2>3. QED
    BY <2>1, <2>2, Entry DEF Shape
<1>6. Removing'
  BY <1>1, <1>2, <1>4, <1>5 DEF Removing, history
<1>7. Unfinished(k) => \/ Unfinished(k)'
                       \/ job[k].manifest \cap dirs \subseteq rewritten
  <2>1. CASE job' = job
    BY <2>1 DEF Unfinished
  <2>2. CASE Complete(k)
    BY <2>2 DEF Complete, Removing
  <2>3. CASE job'[k].status = "failed"
    BY <2>3 DEF Unfinished
  <2>4. QED
    BY <1>5, <2>1, <2>2, <2>3
<1>8. job'[k].status = "none" <=> job[k].status = "none"
  BY <1>4, <1>5 DEF Removing
<1>9. \A i \in Jobs :
         /\ job'[i].manifest = job[i].manifest
         /\ job'[i].status = "none" <=> job[i].status = "none"
         /\ job'[i].status = "running" \/ ~job'[i].old
         /\ task'[i].todo \subseteq task[i].todo \cup job[i].manifest
         /\ Unfinished(i) => \/ Unfinished(i)'
                             \/ job[i].manifest \cap dirs \subseteq rewritten
  BY <1>2, <1>5, <1>7, <1>8 DEF TypeOK, Unfinished
<1>10. QED
  BY <1>1, <1>2, <1>5, <1>6, <1>9, CleanupInv

\* Time passes for a job that is running.
LEMMA AgeInv ==
  ASSUME DeletionInv, NEW k \in Jobs, Age(k)
  PROVE  DeletionInv'
<1> USE DeletionAssumption DEF DeletionInv
<1>1. /\ UNCHANGED <<writer, project, row, tool, alive, request, history, dirs, task>>
      /\ faults' \in 0 .. MaxFaults /\ crashes' \in 0 .. MaxCrashes
  BY DEF Age, TypeOK, work, bounds
<1>2. /\ job' \in [Jobs -> JobType]
      /\ \A i \in Jobs \ {k} : job'[i] = job[i]
      /\ job'[k].manifest = job[k].manifest
      /\ job'[k].status = "running" /\ job[k].status = "running"
  BY ZenonT(60) DEF Age, Shape, JobType
<1>3. Removing'
  BY <1>1, <1>2 DEF Removing, history
<1>4. QED
  BY <1>1, <1>2, <1>3, CleanupInv DEF Shape, TypeOK, Unfinished

\* A crash forgets requests and removals; the ledger stays.
LEMMA CrashInv ==
  ASSUME DeletionInv, Crash
  PROVE  DeletionInv'
<1> USE DeletionAssumption DEF DeletionInv
<1>1. /\ UNCHANGED <<writer, project, row, tool, alive, dirs, job, unlisted, rewritten, faults>>
      /\ crashes' \in 0 .. MaxCrashes
  BY DEF Crash, work, history, TypeOK
<1>2. /\ request' \in [Requests -> RequestType]
      /\ \A q \in Requests :
           /\ request'[q].pc \in {"idle", "over"} /\ request'[q].manifest = {}
           /\ request'[q].pc = "idle" => request[q].pc = "idle"
  BY DEF Crash, Unasked, Over, Request, RequestType
<1>3. /\ task' \in [Jobs -> TaskType]
      /\ \A k \in Jobs : task'[k].pc # "remove" /\ task'[k].todo = {}
  BY DEF Crash, NoTask, TaskType
<1>4. Shape'
  BY <1>1, <1>2, <1>3 DEF Shape
<1>5. TypeOK'
  BY <1>1, <1>4 DEF TypeOK, Shape, RequestType, JobType, TaskType
<1>6. Requested' /\ Listed' /\ Bereft'
  BY <1>1, <1>2 DEF Requested, Listed, Bereft, Present
<1>7. Ledger' /\ Removing'
  BY <1>1, <1>2, <1>3 DEF Ledger, Removing
<1>8. RemovedIsDeleted' /\ NoOrphanedArtifacts'
  BY <1>1 DEF RemovedIsDeleted, NoOrphanedArtifacts, Present
<1>9. QED
  BY <1>4, <1>5, <1>6, <1>7, <1>8

-----------------------------------------------------------------------------
\* The invariant is inductive, for every step of every actor.
LEMMA StepDeletionInv ==
  ASSUME DeletionInv, [Next]_vars
  PROVE  DeletionInv'
<1>1. CASE UNCHANGED vars
  BY <1>1 DEF vars, work, ledger, history, bounds, DeletionInv, TypeOK, Shape,
      Requested,
     Listed, Bereft, Ledger, Removing, RemovedIsDeleted, NoOrphanedArtifacts, Present, Concerned
<1>2. ASSUME NEW k \in Jobs, Runner(k) PROVE DeletionInv'
  BY <1>2, ClaimInv, RemoveInv, AttemptEndsInv DEF Runner
<1>3. QED
  BY <1>1, <1>2, WorkInv, DeletionStepInv, AgeInv, CrashInv DEF Next

\* Every reachable state of the deletion satisfies the invariant.
THEOREM DeletionInvariant == Spec => []DeletionInv
<1>1. DeletionInv /\ [Next]_vars => DeletionInv'
  BY StepDeletionInv
<1>2. QED
  BY <1>1, InitDeletionInv, PTL DEF Spec

\* The variables of the deletion keep their types, and only a job that is
\* running can be old, whatever fails and whenever the server crashes.
THEOREM DeletionTypeCorrect == Spec => []TypeOK
<1>1. DeletionInv => TypeOK
  BY DEF DeletionInv
<1>2. QED
  BY <1>1, DeletionInvariant, PTL

\* Whatever has a row has its artifacts: deleteOwnedScan, deleteOwnedProject and
\* the cleanup runner never remove the directory of a run that is listed, also
\* after a refused deletion, a lost answer, a retry or a restart.
THEOREM RemovalOnlyAfterDeletion == Spec => []RemovedIsDeleted
<1>1. DeletionInv => RemovedIsDeleted
  BY DEF DeletionInv
<1>2. QED
  BY <1>1, DeletionInvariant, PTL

\* A directory that has lost its row is named by a cleanup job that is not
\* completed, until it is gone; the exceptions are runs that started while a
\* manifest was waiting and processes that write after the verdict.
THEOREM LedgerKnowsOrphans == Spec => []NoOrphanedArtifacts
<1>1. DeletionInv => NoOrphanedArtifacts
  BY DEF DeletionInv
<1>2. QED
  BY <1>1, DeletionInvariant, PTL

\* Only transactions delete rows.
LEMMA OnlyDeletesDelete ==
  ASSUME DeletionInv, [Next]_vars, NEW r \in Runs, row[r] # "deleted", row'[r] = "deleted"
  PROVE  \E q \in Requests : /\ request[q].pc = "commit"
                             /\ ~ActiveWork(request[q].target)
                             /\ Deletes(q)
<1> USE DEF DeletionInv, TypeOK
<1>1. CASE UNCHANGED vars
  BY <1>1 DEF vars, work
<1>2. CASE Work
  BY <1>2 DEF Work, Start, Finish, Die, ToolRun, Decide, LateWrite
<1>3. ASSUME NEW q \in Requests, Deletion(q)
      PROVE  /\ request[q].pc = "commit"
             /\ ~ActiveWork(request[q].target)
             /\ Deletes(q)
  BY <1>3 DEF Deletion, Find, Check, List, Commit, CommitRefused, CommitThrows,
      Enqueue, work
<1>4. ASSUME NEW k \in Jobs, Age(k) \/ Runner(k) PROVE FALSE
  BY <1>4 DEF Age, Runner, Claim, ClaimThrows, Remove, RemoveThrows, Complete,
     CompleteThrows, Fail, work
<1>5. CASE Crash
  BY <1>5 DEF Crash, work
<1>6. QED
  BY <1>1, <1>2, <1>3, <1>4, <1>5 DEF Next

\* No transaction deletes the row of work that is going on: the triggers on
\* scan_runs and projects hold back a deletion whose check is out of date, and
\* the ids of a stale manifest only find dynamic runs that have ended.
THEOREM ActiveWorkSurvives == Spec => ActiveIsKept
<1>1. ASSUME DeletionInv, [Next]_vars, NEW r \in Runs, row[r] = "active"
      PROVE  row'[r] # "deleted"
  <2> SUFFICES ASSUME row'[r] = "deleted" PROVE FALSE
    OBVIOUS
  <2>1. PICK q \in Requests : /\ request[q].pc = "commit"
                              /\ ~ActiveWork(request[q].target)
                              /\ Deletes(q)
    BY <1>1, OnlyDeletesDelete
  <2>2. r \in Cascade(q)
    BY <1>1, <2>1 DEF Deletes
  <2>3. QED
    BY <1>1, <2>1, <2>2, CascadeEnded
<1>2. DeletionInv /\ [Next]_vars => [\A r \in Runs : row[r] = "active" => row'[r] # "deleted"]_vars
  BY <1>1
<1>3. QED
  BY <1>2, DeletionInvariant, PTL DEF Spec, ActiveIsKept
=============================================================================

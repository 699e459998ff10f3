------------------------ MODULE ScanSupervisor_proofs ------------------------
(***************************************************************************)
(* Proofs about ScanSupervisor for every set of scans, launches, commands  *)
(* and replayed requests, any number of server processes and of failing    *)
(* database calls.                                                         *)
(*                                                                         *)
(* SupInv says where everything is: what the gate gave to whom (Gate), how *)
(* far each launch has come and what it holds there (Stages), that the     *)
(* maps pending and owned name exactly the launches that are to be found   *)
(* in them (Maps), what the rows say meanwhile (Rows), which rows belong   *)
(* to which server process (Runtimes), that whoever takes a scan out of    *)
(* the hands of its launch sees to a verdict (Aborts, Tokens), and what    *)
(* cancels and the shutdown know of the processes they are to end          *)
(* (Cancels, Stopping).                                                    *)
(***************************************************************************)
EXTENDS ScanSupervisor, TLAPS

Statuses == {"none"} \cup Active \cup {"completed", "failed", "cancelled"}

MetaType ==
  [token : Launches \cup {None}, runtime : 0..MaxIncarnations, born : 0..MaxIncarnations]

CallStates == {"idle", "launch", "full", "failing", "done"}

JobType ==
  [scan : Scans \cup {None},
   start : {"idle", "lease", "find", "merge", "reread", "spawn", "failing", "failed", "done"},
   aborted : BOOLEAN, seen : BOOLEAN, cancelling : BOOLEAN,
   reason : BOOLEAN, killTimer : BOOLEAN, late : BOOLEAN,
   monitor : {"idle", "watch", "erring", "find", "fail", "post", "done"}]

ProcType ==
  [state : {"none", "booting", "running", "exiting", "exited"},
   signal : {"none", "term", "kill"}]

CancelType ==
  [pc : {"idle", "find", "decide", "mark", "persist", "kill", "done"},
   seen : BOOLEAN, owns : BOOLEAN, of : Launches \cup {None},
   answer : {"none", "cancelled", "process_not_owned", "scan_not_active", "error"}]

ShutType ==
  [pc : {"idle", "pending", "cancel", "wait", "drain"},
   scans : SUBSET Scans, jobs : SUBSET Launches, dropped : SUBSET Launches]

ServerType ==
  [state : {"up", "stopping", "down", "recovering"},
   runtime : 1..MaxIncarnations, stale : SUBSET Scans]

\* TypeOK with a name for every type of a variable.
Typed ==
  /\ status \in [Scans -> Statuses]
  /\ meta \in [Scans -> MetaType]
  /\ call \in [Callers -> [Scans -> CallStates]]
  /\ pending \in [Scans -> Launches \cup {None}]
  /\ owned \in [Scans -> Launches \cup {None}]
  /\ job \in [Launches -> JobType]
  /\ proc \in [Launches -> ProcType]
  /\ cancel \in [Cancellers -> [Scans -> CancelType]]
  /\ shut \in ShutType
  /\ server \in ServerType
  /\ faults \in 0..MaxFaults

Requests == Launches \cup Commands

\* The stages of startWhenCapacityIsAvailable and launchOnce.
Starting == {"lease", "find", "merge", "reread", "spawn", "failing", "failed"}

\* Nobody has to look after the child any more.
LetGo(l) == ~Live(l) \/ proc[l].signal = "kill"

\* The array of the gate holds requests that wait, and aborted ones.
Gate ==
  /\ req \in [Requests -> Cap!RequestStates]
  /\ waiters \subseteq Requests
  /\ \A r \in waiters : req[r] \in {"waiting", "aborted"}

\* A launch holds its lease from the grant to the end of its start, or of the
\* monitor of the child it spawned; a child that is not monitored is on its own
\* only when it has gone, was killed, or belongs to an earlier server.
Stage(l) ==
  /\ job[l].scan = None =>
       job[l].start = "idle" /\ ~job[l].aborted /\ proc[l].state = "none"
  /\ job[l].start = "idle" => req[l] = "idle" /\ job[l].monitor = "idle"
  /\ job[l].start \in Starting =>
       /\ job[l].monitor = "idle" /\ proc[l].state = "none"
       /\ IF job[l].start = "lease" THEN req[l] \in {"waiting", "held", "aborted"}
          ELSE req[l] = "held"
       /\ req[l] = "aborted" => job[l].aborted
  /\ job[l].start = "done" /\ job[l].monitor = "idle" =>
       req[l] \in {"refused", "released", "aborted"}
  /\ job[l].monitor # "idle" => job[l].start = "done" /\ proc[l].state # "none"
  /\ job[l].monitor \in {"watch", "erring"} =>
       \/ owned[scan(l)] = l /\ req[l] = "held"
       \/ req[l] = "released" /\ LetGo(l)
  /\ job[l].monitor \in {"find", "fail", "post", "done"} => req[l] = "released" /\ LetGo(l)

Stages == \A l \in Launches : Stage(l)

\* pending holds the launches that are starting and were not aborted, owned the
\* ones whose child is monitored; never both for one scan.
Maps ==
  /\ \A s \in Scans : pending[s] # None =>
       /\ scan(pending[s]) = s /\ owned[s] = None
       /\ job[pending[s]].start \in Starting /\ ~job[pending[s]].aborted
  /\ \A l \in Launches : job[l].start \in Starting /\ ~job[l].aborted => pending[scan(l)] = l
  /\ \A s \in Scans : owned[s] # None =>
       /\ scan(owned[s]) = s /\ req[owned[s]] = "held"
       /\ job[owned[s]].monitor \in {"watch", "erring"}

\* What is known of the row of a scan that somebody works on.
Rows ==
  /\ \A l \in Launches : scan(l) # None =>
       /\ status[scan(l)] # "none"
       /\ proc[l].state \in {"running", "exiting"} => status[scan(l)] # "queued"
       /\ job[l].start = "spawn" /\ ~job[l].seen => ~IsActiveStatus(scan(l))
       /\ job[l].start = "failed" /\ faults = 0 => ~IsActiveStatus(scan(l))
  /\ \A s \in Scans :
       /\ \A k \in Callers : call[k][s] # "idle" => status[s] # "none"
       /\ \A c \in Cancellers : cancel[c][s].pc # "idle" => status[s] # "none"
       /\ \A c \in Cancellers : cancel[c][s].pc = "decide" /\ ~cancel[c][s].seen =>
            ~IsActiveStatus(s)
  /\ \A s \in shut.scans : status[s] # "none"

\* No metadata is ahead of its time, and a restarted server has listed every
\* scan that is still active.
Runtimes ==
  /\ \A s \in Scans : meta[s].runtime <= server.runtime
  /\ server.state = "recovering" => \A s \in Scans : IsActiveStatus(s) => s \in server.stale

\* The scan has its verdict, somebody is about to write it, or the database failed.
Settling(s) ==
  \/ ~IsActiveStatus(s)
  \/ faults > 0
  \/ \E c \in Cancellers : cancel[c][s].pc = "persist"
  \/ s \in shut.scans

\* Who aborts a launch sees to the verdict.
Aborts ==
  \A l \in Launches : job[l].start \in Starting /\ job[l].aborted => Settling(scan(l))

\* The launch token in the row is that of the launch in charge, unless an aborted
\* launch has written its own meanwhile.
Tokens ==
  \A s \in Scans :
    /\ owned[s] # None => meta[s].token = owned[s] \/ Settling(s)
    /\ pending[s] # None /\ job[pending[s]].start \in {"reread", "spawn"} =>
         meta[s].token = pending[s] \/ Settling(s)

\* A cancel that is to signal a process knows which.
Cancels ==
  /\ \A c \in Cancellers, s \in Scans :
       cancel[c][s].pc \in {"mark", "kill"} => cancel[c][s].of # None
  /\ shut.pc \in {"idle", "pending"} =>
       \A s \in Scans : cancel["shutdown"][s].pc \in {"idle", "done"}

\* How far the cancel of the shutdown has come with the child of s.
ShutdownCancels(s) ==
  LET c == cancel["shutdown"][s] IN
  /\ c.pc # "idle"
  /\ c.pc = "mark" => Settling(s) \/ (c.seen /\ c.owns)
  /\ c.pc \in {"kill", "done"} => Settling(s)

\* The shutdown runs in a server that is stopping, which starts nothing but
\* what comes late; it knows every other child until that is let go, and the
\* row of a child that it waits for is settled.
Stopping ==
  /\ shut.pc # "idle" <=> server.state = "stopping"
  /\ \A l \in Launches :
       /\ server.state = "stopping" /\ job[l].start \in Starting => job[l].aborted \/ job[l].late
       /\ shut.pc \in {"cancel", "wait", "drain"} /\ job[l].monitor # "idle" =>
            \/ LetGo(l) \/ job[l].late
            \/ shut.pc # "drain" /\ l \in shut.jobs
  /\ \A s \in Scans : owned[s] # None /\ owned[s] \in shut.jobs =>
       /\ shut.pc = "cancel" => ShutdownCancels(s)
       /\ shut.pc = "wait" => Settling(s)
  /\ shut.pc \in {"cancel", "wait"} => \A l \in shut.jobs : job[l].monitor # "idle"
  /\ shut.pc # "pending" => shut.scans = {}

SupInv ==
  /\ Typed /\ Gate /\ Stages /\ Maps /\ Rows /\ Runtimes
  /\ Aborts /\ Tokens /\ Cancels /\ Stopping
  /\ OneExecutor /\ NoScanOfEarlierRuntime /\ ActiveScanHasKeeper

-----------------------------------------------------------------------------
(* Assignments, and what a call of the gate does to the others *)

\* The named types are those of TypeOK.
LEMMA TypedIsTypeOK == Typed <=> TypeOK
BY DEF Typed, TypeOK, Statuses, MetaType, CallStates, JobType, ProcType, CancelType,
   ShutType, ServerType

\* What an assignment to one entry of a table does.
LEMMA Entry ==
  ASSUME NEW S, NEW T, NEW f \in [S -> T], NEW x \in S, NEW v \in T
  PROVE  /\ [f EXCEPT ![x] = v] \in [S -> T]
         /\ [f EXCEPT ![x] = v][x] = v
         /\ \A y \in S \ {x} : [f EXCEPT ![x] = v][y] = f[y]
OBVIOUS

\* The same for a table of tables.
LEMMA Entry2 ==
  ASSUME NEW R, NEW S, NEW T, NEW f \in [R -> [S -> T]], NEW w \in R, NEW x \in S, NEW v \in T
  PROVE  /\ [f EXCEPT ![w][x] = v] \in [R -> [S -> T]]
         /\ [f EXCEPT ![w][x] = v][w][x] = v
         /\ \A u \in R, y \in S : <<u, y>> # <<w, x>> => [f EXCEPT ![w][x] = v][u][y] = f[u][y]
OBVIOUS

\* What a call of the gate does to the other requests: some of those that wait
\* get their lease.
OthersAtGate(r) ==
  \A x \in Requests \ {r} :
    req'[x] = req[x] \/ (req[x] = "waiting" /\ req'[x] = "held")

\* Leases handed out by a dispatch go to requests that wait.
LEMMA Dispatched ==
  ASSUME Gate, NEW G \in SUBSET Requests, G \subseteq Cap!compactWaiters
  PROVE  /\ \A x \in G : req[x] = "waiting"
         /\ Cap!compactWaiters \subseteq waiters
         /\ Cap!Resolved(G) \in [Requests -> Cap!RequestStates]
         /\ \A x \in Requests : Cap!Resolved(G)[x] = IF x \in G THEN "held" ELSE req[x]
BY DEF Gate, Cap!compactWaiters, Cap!liveWaiters, Cap!Resolved, Cap!RequestStates,
   Requests

\* What remains of the array after a dispatch and an answer to r.
LEMMA Answers ==
  ASSUME Gate, NEW r \in Requests, NEW G \in SUBSET Requests,
         G \subseteq Cap!compactWaiters, req[r] # "waiting",
         NEW a \in Cap!RequestStates, req' = [Cap!Resolved(G) EXCEPT ![r] = a],
         \/ waiters' = Cap!compactWaiters \ G
         \/ a = "waiting" /\ waiters' = (Cap!compactWaiters \ G) \cup {r}
  PROVE  Gate' /\ OthersAtGate(r) /\ req'[r] = a
<1>1. /\ req' \in [Requests -> Cap!RequestStates] /\ req'[r] = a
      /\ \A x \in Requests \ {r} : req'[x] = IF x \in G THEN "held" ELSE req[x]
      /\ \A x \in G : req[x] = "waiting"
  BY Dispatched
<1>2. \A x \in Cap!compactWaiters : x \in waiters /\ req[x] = "waiting"
  BY DEF Gate, Cap!compactWaiters, Cap!liveWaiters
<1>3. QED
  BY <1>1, <1>2 DEF Gate, OthersAtGate

\* acquire answers with a lease, a place in the queue or a refusal.
LEMMA GateAcquire ==
  ASSUME Gate, NEW r \in Requests, Cap!Acquire(r)
  PROVE  /\ Gate' /\ OthersAtGate(r)
         /\ req[r] = "idle" /\ req'[r] \in {"held", "refused", "waiting"}
<1>1. req[r] = "idle"
  BY DEF Cap!Acquire
<1>2. PICK G \in SUBSET Requests :
        /\ G \subseteq Cap!compactWaiters
        /\ \/ /\ req' = [Cap!Resolved(G) EXCEPT ![r] = "held"]
              /\ waiters' = Cap!compactWaiters \ G
           \/ /\ req' = [Cap!Resolved(G) EXCEPT ![r] = "refused"]
              /\ waiters' = Cap!compactWaiters \ G
           \/ /\ req' = [Cap!Resolved(G) EXCEPT ![r] = "waiting"]
              /\ waiters' = (Cap!compactWaiters \ G) \cup {r}
  BY Zenon DEF Cap!Acquire, Cap!Admit, Cap!dispatchWaiters, Requests
<1>3. {"held", "refused", "waiting"} \subseteq Cap!RequestStates
  BY DEF Cap!RequestStates
<1>4. QED
  BY <1>1, <1>2, <1>3, Answers

\* tryAcquire answers with a lease or a refusal.
LEMMA GateTry ==
  ASSUME Gate, NEW r \in Requests, Cap!TryAcquire(r)
  PROVE  /\ Gate' /\ OthersAtGate(r)
         /\ req[r] = "idle" /\ req'[r] \in {"held", "refused"}
<1>1. req[r] = "idle"
  BY DEF Cap!TryAcquire
<1>2. PICK G \in SUBSET Requests :
        /\ G \subseteq Cap!compactWaiters
        /\ waiters' = Cap!compactWaiters \ G
        /\ \/ req' = [Cap!Resolved(G) EXCEPT ![r] = "held"]
           \/ req' = [Cap!Resolved(G) EXCEPT ![r] = "refused"]
  BY Zenon DEF Cap!TryAcquire, Cap!Admit, Cap!dispatchWaiters, Requests
<1>3. {"held", "refused"} \subseteq Cap!RequestStates
  BY DEF Cap!RequestStates
<1>4. QED
  BY <1>1, <1>2, <1>3, Answers

\* A release gives the lease back, or finds that it was given back.
LEMMA GateRelease ==
  ASSUME Gate, NEW r \in Requests, Cap!Release(r)
  PROVE  /\ Gate' /\ OthersAtGate(r)
         /\ req[r] \in {"held", "released"} /\ req'[r] = "released"
<1>1. CASE req[r] = "held" /\ \E G \in SUBSET Requests : Cap!release(r, G)
  <2>1. PICK G \in SUBSET Requests :
          /\ G \subseteq Cap!compactWaiters
          /\ waiters' = Cap!compactWaiters \ G
          /\ req' = [Cap!Resolved(G) EXCEPT ![r] = "released"]
    BY <1>1, Zenon DEF Cap!release, Cap!dispatchWaiters
  <2>2. "released" \in Cap!RequestStates
    BY DEF Cap!RequestStates
  <2>3. QED
    BY <1>1, <2>1, <2>2, Answers
<1>2. CASE req[r] = "released" /\ UNCHANGED capVars
  BY <1>2 DEF capVars, Gate, OthersAtGate
<1>3. QED
  BY <1>1, <1>2 DEF Cap!Release, Requests, Cap!capVars, capVars

\* The abort of a waiter concerns nobody else.
LEMMA GateAbort ==
  ASSUME Gate, NEW r \in Requests, Cap!Abort(r)
  PROVE  Gate' /\ OthersAtGate(r) /\ req'[r] = "aborted"
BY DEF Gate, Cap!Abort, OthersAtGate, Cap!RequestStates

-----------------------------------------------------------------------------
(* What most steps have in common *)

\* As far as the invariant goes the launch is where it was.
SameJob(m) ==
  /\ job'[m].scan = job[m].scan /\ job'[m].start = job[m].start
  /\ job'[m].aborted = job[m].aborted /\ job'[m].seen = job[m].seen
  /\ job'[m].monitor = job[m].monitor /\ job'[m].late = job[m].late

\* At the gate it waits, has what it had, or gets its lease.
SameLease(m) == req'[m] = req[m] \/ (req[m] = "waiting" /\ req'[m] = "held")

\* Its child goes on: it was there before, and who was let go still is.
SameChild(m) ==
  /\ proc'[m].state = "none" <=> proc[m].state = "none"
  /\ LetGo(m) => LetGo(m)'

\* No step but the creation of a scan makes a row active.
Forward ==
  \A s \in Scans :
    /\ status[s] # "none" => status'[s] # "none"
    /\ IsActiveStatus(s)' => IsActiveStatus(s)
    /\ status'[s] = "queued" => status[s] = "queued"

\* The shutdown has only taken jobs off its list that are let go.
JobsReaped ==
  shut'.jobs \subseteq shut.jobs /\ \A m \in shut.jobs \ shut'.jobs : LetGo(m)'

\* What is about to be settled stays so.
SettlingKept == \A s \in Scans : status[s] # "none" /\ Settling(s) => Settling(s)'

\* The guarded update settles the row it names and touches no other.
LEMMA Verdict ==
  ASSUME Typed, NEW s \in Scans, NEW v \in {"completed", "failed", "cancelled"},
         updateScanRunStatus(s, v)
  PROVE  status' \in [Scans -> Statuses] /\ Forward /\ ~IsActiveStatus(s)'
BY DEF Typed, Forward, IsActiveStatus, Statuses, Active, updateScanRunStatus

\* Rows that stay as they are go forward.
LEMMA NoVerdict ==
  ASSUME UNCHANGED status
  PROVE  Forward
BY DEF Forward, IsActiveStatus

\* A guarded update, or the failure of the database call.
LEMMA VerdictOrFault ==
  ASSUME Typed, NEW s \in Scans, NEW v \in {"completed", "failed", "cancelled"},
         \/ updateScanRunStatus(s, v) /\ UNCHANGED faults
         \/ Fault /\ UNCHANGED status
  PROVE  /\ status' \in [Scans -> Statuses] /\ Forward
         /\ faults' \in 0..MaxFaults /\ (faults > 0 => faults' > 0)
         /\ ~IsActiveStatus(s)' \/ faults' > 0
BY Verdict, NoVerdict, BoundsNatural DEF Typed, Fault

\* The stage of a launch that is left alone.
LEMMA StageKept ==
  ASSUME NEW m \in Launches, Stage(m), SameJob(m), SameLease(m), SameChild(m),
         owned[scan(m)] = m => owned'[scan(m)] = m
  PROVE  Stage(m)'
BY DEF Stage, SameJob, SameLease, SameChild, scan, Starting

\* A step that leaves the launches and the maps alone.
LEMMA QuietLaunches ==
  ASSUME Typed, Stages, Maps, UNCHANGED <<pending, owned>>,
         \A m \in Launches : SameJob(m) /\ SameLease(m) /\ SameChild(m)
  PROVE  Stages' /\ Maps'
<1>1. Stages'
  BY StageKept DEF Stages
<1>2. Maps'
  <2>1. \A s \in Scans : pending[s] \in Launches \cup {None} /\ owned[s] \in Launches \cup {None}
    BY DEF Typed
  <2>2. QED
    BY <2>1 DEF Maps, SameJob, SameLease, scan
<1>3. QED
  BY <1>1, <1>2

\* What is known of the rows stays true when rows go forward.
LEMMA RowsKept ==
  ASSUME Rows, Forward, faults' = 0 => faults = 0,
         \A l \in Launches :
           /\ \/ job'[l].scan = job[l].scan
              \/ /\ status[job'[l].scan] # "none" /\ job'[l].scan \in Scans
                 /\ proc'[l].state = "none" /\ job'[l].start \in {"lease", "done"}
           /\ proc'[l].state \in {"running", "exiting"} =>
                proc[l].state \in {"running", "exiting"} \/ status'[scan(l)] # "queued"
           /\ job'[l].start = "spawn" /\ ~job'[l].seen =>
                (job[l].start = "spawn" /\ ~job[l].seen) \/ ~IsActiveStatus(scan(l))'
           /\ job'[l].start = "failed" /\ faults' = 0 =>
                job[l].start = "failed" \/ ~IsActiveStatus(scan(l))',
         \A l \in Launches : job[l].scan \in Scans \cup {None},
         \A s \in Scans :
           /\ \A k \in Callers : call'[k][s] # "idle" => call[k][s] # "idle" \/ status[s] # "none"
           /\ \A c \in Cancellers :
                /\ cancel'[c][s].pc # "idle" => cancel[c][s].pc # "idle" \/ status[s] # "none"
                /\ cancel'[c][s].pc = "decide" /\ ~cancel'[c][s].seen =>
                     (cancel[c][s].pc = "decide" /\ ~cancel[c][s].seen) \/ ~IsActiveStatus(s)',
         shut'.scans \subseteq Scans,
         \A s \in shut'.scans : s \in shut.scans \/ status[s] # "none"
  PROVE  Rows'
<1>1. \A l \in Launches : scan(l)' # None =>
       /\ status'[scan(l)'] # "none"
       /\ proc'[l].state \in {"running", "exiting"} => status'[scan(l)'] # "queued"
       /\ job'[l].start = "spawn" /\ ~job'[l].seen => ~IsActiveStatus(scan(l))'
       /\ job'[l].start = "failed" /\ faults' = 0 => ~IsActiveStatus(scan(l))'
  BY DEF Rows, Forward, scan, IsActiveStatus
<1>2. \A s \in Scans :
       /\ \A k \in Callers : call'[k][s] # "idle" => status'[s] # "none"
       /\ \A c \in Cancellers : cancel'[c][s].pc # "idle" => status'[s] # "none"
       /\ \A c \in Cancellers : cancel'[c][s].pc = "decide" /\ ~cancel'[c][s].seen =>
            ~IsActiveStatus(s)'
  BY DEF Rows, Forward
<1>3. \A s \in shut'.scans : status'[s] # "none"
  BY DEF Rows, Forward
<1>4. QED
  BY <1>1, <1>2, <1>3 DEF Rows

\* Who takes a scan out of the hands of a verdict must have written it.
LEMMA SettlingStays ==
  ASSUME Forward, faults > 0 => faults' > 0,
         \A s \in Scans : IsActiveStatus(s)' /\ ~(faults' > 0) =>
           /\ \A c \in Cancellers : cancel[c][s].pc = "persist" => cancel'[c][s].pc = "persist"
           /\ s \in shut.scans => s \in shut'.scans
  PROVE  SettlingKept
BY DEF SettlingKept, Settling, Forward

\* An abort is followed by a verdict for as long as the launch is starting.
LEMMA AbortsKept ==
  ASSUME Aborts, Rows, SettlingKept,
         \A l \in Launches : job[l].start \in Starting => scan(l) \in Scans,
         \A l \in Launches : job'[l].start \in Starting /\ job'[l].aborted =>
           \/ job[l].start \in Starting /\ job[l].aborted /\ job'[l].scan = job[l].scan
           \/ Settling(scan(l))'
  PROVE  Aborts'
<1> SUFFICES ASSUME NEW l \in Launches, job'[l].start \in Starting, job'[l].aborted
             PROVE  Settling(scan(l))'
  BY DEF Aborts
<1>1. CASE job[l].start \in Starting /\ job[l].aborted /\ job'[l].scan = job[l].scan
  <2>1. Settling(scan(l)) /\ scan(l) \in Scans /\ scan(l)' = scan(l)
    BY <1>1 DEF Aborts, scan
  <2>2. QED
    BY <2>1, NoneIsNoLaunch DEF SettlingKept, Rows
<1>2. QED
  BY <1>1

\* A scan that is in one of the maps has been created.
LEMMA Created ==
  ASSUME Typed, Maps, Rows
  PROVE  /\ \A s \in Scans : owned[s] # None \/ pending[s] # None => status[s] # "none"
         /\ \A s \in Scans : owned[s] \in Launches \cup {None} /\ pending[s] \in Launches \cup {None}
BY NoneIsNoLaunch DEF Typed, Maps, Rows

\* Tokens stay right where neither token nor map changes.
LEMMA TokensKept ==
  ASSUME Typed, Maps, Rows, Tokens, SettlingKept,
         \A s \in Scans :
           /\ owned'[s] # None =>
                \/ owned'[s] = owned[s] /\ meta'[s].token = meta[s].token
                \/ meta'[s].token = owned'[s] \/ Settling(s)'
           /\ pending'[s] # None /\ job'[pending'[s]].start \in {"reread", "spawn"} =>
                \/ /\ pending'[s] = pending[s] /\ meta'[s].token = meta[s].token
                   /\ job[pending[s]].start \in {"reread", "spawn"}
                \/ meta'[s].token = pending'[s] \/ Settling(s)'
  PROVE  Tokens'
BY Created DEF Tokens, SettlingKept

\* The shutdown keeps its overview while it stays where it is.
LEMMA StoppingKept ==
  ASSUME Typed, Maps, Rows, Stopping, SettlingKept,
         shut'.pc = shut.pc, shut'.scans \subseteq shut.scans, JobsReaped,
         server'.state = server.state,
         \A l \in Launches :
           /\ job'[l].start \in Starting =>
                \/ /\ job[l].start \in Starting
                   /\ job[l].aborted => job'[l].aborted
                   /\ job[l].late => job'[l].late
                \/ server.state = "stopping" => job'[l].late
           /\ job'[l].monitor # "idle" =>
                \/ /\ job[l].monitor # "idle"
                   /\ LetGo(l) => LetGo(l)'
                   /\ job[l].late => job'[l].late
                \/ server.state = "stopping" => job'[l].late
           /\ job[l].monitor # "idle" => job'[l].monitor # "idle",
         \A s \in Scans : shut.pc \in {"cancel", "wait"} /\ owned'[s] # None =>
           owned'[s] = owned[s] \/ owned'[s] \notin shut.jobs,
         \A s \in Scans : shut.pc = "cancel" /\ owned[s] # None /\ owned[s] \in shut.jobs =>
           ShutdownCancels(s)'
  PROVE  Stopping'
<1>1. shut.jobs \subseteq Launches
  BY DEF Typed, ShutType
<1>2. \A s \in Scans : owned'[s] # None /\ owned'[s] \in shut'.jobs =>
       /\ shut'.pc = "cancel" => ShutdownCancels(s)'
       /\ shut'.pc = "wait" => Settling(s)'
  BY Created DEF Stopping, SettlingKept, JobsReaped
<1>3. \A l \in Launches :
       server'.state = "stopping" /\ job'[l].start \in Starting => job'[l].aborted \/ job'[l].late
  BY DEF Stopping
<1>4. \A l \in Launches :
       shut'.pc \in {"cancel", "wait", "drain"} /\ job'[l].monitor # "idle" =>
            \/ LetGo(l)' \/ job'[l].late
            \/ shut'.pc # "drain" /\ l \in shut'.jobs
  BY DEF Stopping, JobsReaped
<1>5. QED
  BY <1>1, <1>2, <1>3, <1>4 DEF Stopping, JobsReaped

\* The cancel of the shutdown is where it was.
LEMMA SameShutdownCancels ==
  ASSUME Typed, Maps, Rows, Stopping, SettlingKept, UNCHANGED cancel
  PROVE  \A s \in Scans : shut.pc = "cancel" /\ owned[s] # None /\ owned[s] \in shut.jobs =>
           ShutdownCancels(s)'
BY Created DEF Stopping, SettlingKept, ShutdownCancels

\* A keeper is only missing where a keeper leaves.
LEMMA KeeperKept ==
  ASSUME ActiveScanHasKeeper,
         \A s \in Scans : Alive' /\ IsActiveStatus(s)' /\ faults' = 0 =>
           Alive /\ IsActiveStatus(s) /\ faults = 0 /\ (Keeper(s) => Keeper(s)')
  PROVE  ActiveScanHasKeeper'
BY DEF ActiveScanHasKeeper

\* While the same server goes on, the rows stay those of its runtime.
LEMMA RuntimesKept ==
  ASSUME Typed, Runtimes, NoScanOfEarlierRuntime, Forward,
         server'.runtime = server.runtime, server'.stale = server.stale,
         \/ server'.state = server.state
         \/ server.state = "up" /\ server'.state = "stopping",
         \A s \in Scans : /\ meta'[s].born = meta[s].born
                          /\ meta'[s].runtime \in {meta[s].runtime, server.runtime}
  PROVE  Runtimes' /\ NoScanOfEarlierRuntime'
<1>1. server.runtime \in Int /\ \A s \in Scans : meta[s].runtime \in Int
  BY DEF Typed, ServerType, MetaType
<1>2. QED
  BY <1>1 DEF Runtimes, NoScanOfEarlierRuntime, Forward

\* Only a claim makes a second executor possible.
LEMMA ExecutorKept ==
  ASSUME OneExecutor,
         \A l \in Launches : proc'[l].state \in {"running", "exiting"} =>
           proc[l].state \in {"running", "exiting"} /\ job'[l].scan = job[l].scan
  PROVE  OneExecutor'
BY DEF OneExecutor, scan

-----------------------------------------------------------------------------
(* Steps that leave the launches where they are *)

\* What such a step does to launches, maps, rows and server.
Quiet ==
  /\ UNCHANGED <<pending, owned, meta, server>>
  /\ \A m \in Launches : SameJob(m) /\ SameLease(m) /\ SameChild(m)
  /\ Forward
  /\ faults > 0 => faults' > 0
  /\ shut'.scans \subseteq shut.scans
  /\ \A k \in Callers, s \in Scans : call'[k][s] # "idle" => status[s] # "none"

\* Who looked after an active scan still does.
KeepersStay ==
  \A s \in Scans : IsActiveStatus(s)' /\ ~(faults' > 0) =>
    /\ \A k \in Callers : call[k][s] \in {"launch", "full", "failing"} =>
         \/ call'[k][s] \in {"launch", "full", "failing"}
         \/ owned[s] # None \/ pending[s] # None
    /\ \A c \in Cancellers : cancel[c][s].pc = "persist" => cancel'[c][s].pc = "persist"
    /\ s \in shut.scans => s \in shut'.scans

\* What is asked of a step of a cancel.
CancelRows ==
  \A c \in Cancellers, s \in Scans :
    /\ cancel'[c][s].pc # "idle" => status[s] # "none"
    /\ cancel'[c][s].pc = "decide" /\ ~cancel'[c][s].seen =>
         (cancel[c][s].pc = "decide" /\ ~cancel[c][s].seen) \/ ~IsActiveStatus(s)'

CancelsOn ==
  /\ CancelRows /\ Cancels'
  /\ \A s \in Scans : shut.pc = "cancel" /\ owned[s] # None /\ owned[s] \in shut.jobs =>
       ShutdownCancels(s)'

\* Such a step keeps the invariant, if it is right about cancels and shutdown.
LEMMA QuietStep ==
  ASSUME SupInv, Quiet, KeepersStay, CancelRows, Typed', Gate', OneExecutor', Cancels',
         SettlingKept => Stopping',
         \A m \in Launches : proc'[m].state \in {"running", "exiting"} =>
           proc[m].state \in {"running", "exiting"} \/ status'[scan(m)] # "queued"
  PROVE  SupInv'
<1> USE DEF SupInv
<1>1. Stages' /\ Maps'
  BY QuietLaunches DEF Quiet
<1>2. faults \in Nat /\ faults' \in Nat
  BY DEF Typed
<1>3. Rows'
  <2>1. \A l \in Launches : job[l].scan \in Scans \cup {None}
    BY DEF Typed, JobType
  <2>2. shut'.scans \subseteq Scans
    BY DEF Typed, ShutType
  <2>3. \A l \in Launches :
          /\ job'[l].scan = job[l].scan
          /\ proc'[l].state \in {"running", "exiting"} =>
               proc[l].state \in {"running", "exiting"} \/ status'[scan(l)] # "queued"
          /\ job'[l].start = job[l].start /\ job'[l].seen = job[l].seen
    BY DEF Quiet, SameJob
  <2>4. QED
    BY <1>2, <2>1, <2>2, <2>3, RowsKept DEF Quiet, CancelRows
<1>4. SettlingKept
  BY SettlingStays DEF Quiet, KeepersStay
<1>5. Aborts'
  <2>1. \A l \in Launches : job[l].start \in Starting => scan(l) \in Scans
    BY DEF Typed, JobType, Stages, Stage, Starting, scan
  <2>2. QED
    BY <1>4, <2>1, AbortsKept DEF Quiet, SameJob
<1>6. Tokens'
  <2>1. \A s \in Scans : pending[s] # None => job'[pending[s]].start = job[pending[s]].start
    BY Created DEF Quiet, SameJob
  <2>2. QED
    BY <1>4, <2>1, TokensKept DEF Quiet
<1>7. Stopping'
  BY <1>4
<1>8. Runtimes' /\ NoScanOfEarlierRuntime'
  BY RuntimesKept DEF Quiet
<1>9. ActiveScanHasKeeper'
  <2>1. \A l \in Launches : /\ scan(l)' = scan(l) /\ job'[l].start = job[l].start
                            /\ job'[l].monitor = job[l].monitor
    BY DEF Quiet, SameJob, scan
  <2>2. Alive' = Alive
    BY DEF Quiet, Alive
  <2>3. ASSUME NEW s \in Scans, IsActiveStatus(s)', faults' = 0, Keeper(s)
        PROVE  Keeper(s)'
    BY <2>1, <2>3 DEF Keeper, KeepersStay, Quiet
  <2>4. QED
    BY <1>2, <2>2, <2>3, KeeperKept DEF Quiet, Forward
<1>10. QED
  BY <1>1, <1>3, <1>5, <1>6, <1>7, <1>8, <1>9

\* So does one during which the shutdown stays where it is.
LEMMA QuietInv ==
  ASSUME SupInv, Quiet, KeepersStay, CancelsOn, shut'.pc = shut.pc, JobsReaped,
         Typed', Gate', OneExecutor',
         \A m \in Launches : proc'[m].state \in {"running", "exiting"} =>
           proc[m].state \in {"running", "exiting"} \/ status'[scan(m)] # "queued"
  PROVE  SupInv'
<1>1. SettlingKept => Stopping'
  BY StoppingKept DEF SupInv, Quiet, CancelsOn, SameJob, SameChild
<1>2. QED
  BY <1>1, QuietStep DEF CancelsOn

\* No cancel moves.
LEMMA SameCancels ==
  ASSUME SupInv, UNCHANGED cancel, shut'.pc = shut.pc, Forward, SettlingKept
  PROVE  CancelsOn
<1>1. Cancels'
  BY DEF SupInv, Cancels
<1>2. \A s \in Scans : shut.pc = "cancel" /\ owned[s] # None /\ owned[s] \in shut.jobs =>
        ShutdownCancels(s)'
  BY SameShutdownCancels DEF SupInv
<1>3. QED
  BY <1>1, <1>2 DEF SupInv, CancelsOn, CancelRows, Rows

\* A step of children, timers and signals only.
LEMMA ChildStepInv ==
  ASSUME SupInv, UNCHANGED <<meta, call, pending, owned, cancel, shut, server, faults, capVars>>,
         status' \in [Scans -> Statuses], Forward,
         job' \in [Launches -> JobType], proc' \in [Launches -> ProcType],
         \A m \in Launches : SameJob(m) /\ SameChild(m),
         \A m \in Launches : proc'[m].state \in {"running", "exiting"} =>
           proc[m].state \in {"running", "exiting"} \/ status'[scan(m)] # "queued",
         OneExecutor'
  PROVE  SupInv'
<1>1. Typed' /\ Gate'
  BY DEF SupInv, Typed, Gate, capVars
<1>2. Quiet /\ KeepersStay
  BY DEF SupInv, Quiet, KeepersStay, SameLease, capVars, Rows, JobsReaped
<1>3. SettlingKept
  BY <1>2, SettlingStays DEF Quiet, KeepersStay
<1>4. CancelsOn
  BY <1>2, <1>3, SameCancels DEF Quiet
<1>5. QED
  BY <1>1, <1>2, <1>4, QuietInv DEF JobsReaped

\* A signal changes no state of a child, and SIGKILL is not taken back.
LEMMA Signals ==
  ASSUME Typed, NEW l \in Launches, NEW sig \in {"term", "kill"}
  PROVE  /\ Signalled(l, sig) \in [Launches -> ProcType]
         /\ \A m \in Launches :
              /\ Signalled(l, sig)[m].state = proc[m].state
              /\ proc[m].signal = "kill" => Signalled(l, sig)[m].signal = "kill"
         /\ Live(l) /\ sig = "kill" => Signalled(l, sig)[l].signal = "kill"
         /\ \A m \in Launches \ {l} : Signalled(l, sig)[m] = proc[m]
<1> DEFINE P == [proc[l] EXCEPT !.signal = sig]
<1>1. /\ P \in ProcType /\ P.state = proc[l].state /\ P.signal = sig
      /\ proc \in [Launches -> ProcType]
  BY DEF Typed, ProcType
<1>2. Signalled(l, sig) = IF Live(l) /\ proc[l].signal # "kill"
                          THEN [proc EXCEPT ![l] = P] ELSE proc
  BY DEF Signalled
<1> HIDE DEF P
<1>3. QED
  BY <1>1, <1>2, Entry

\* Signals let nobody get away.
LEMMA SignalledChildren ==
  ASSUME Typed, NEW l \in Launches, NEW sig \in {"term", "kill"}, proc' = Signalled(l, sig)
  PROVE  \A m \in Launches : SameChild(m) /\ proc'[m].state = proc[m].state
BY Signals DEF SameChild, LetGo, Live

\* The child concludes with the verdict of the orchestrator, or exits.
LEMMA ChildEndInv ==
  ASSUME SupInv, NEW l \in Launches, ChildConclude(l) \/ ChildExit(l)
  PROVE  SupInv'
<1>1. /\ UNCHANGED <<meta, call, pending, owned, cancel, shut, server, faults, capVars>>
      /\ UNCHANGED job
  BY DEF ChildConclude, ChildExit, childUnchanged
<1>2. status' \in [Scans -> Statuses] /\ Forward
  <2>1. CASE ChildConclude(l)
    <3>1. scan(l) \in Scans
      BY <2>1 DEF SupInv, Stages, Stage, ChildConclude, scan, Typed, JobType
    <3>2. PICK v \in {"completed", "failed"} : updateScanRunStatus(scan(l), v)
      BY <2>1 DEF ChildConclude
    <3>3. QED
      BY <3>1, <3>2, Verdict DEF SupInv
  <2>2. CASE ChildExit(l)
    BY <2>2, NoVerdict DEF ChildExit, SupInv, Typed
  <2>3. QED
    BY <2>1, <2>2
<1>3. /\ proc' \in [Launches -> ProcType]
      /\ \A m \in Launches : /\ SameChild(m)
                             /\ proc'[m].state \in {"running", "exiting"} =>
                                  proc[m].state \in {"running", "exiting"}
  <2> DEFINE P == IF ChildConclude(l) THEN [proc[l] EXCEPT !.state = "exiting"]
                  ELSE [state |-> "exited", signal |-> "none"]
  <2>1. proc \in [Launches -> ProcType]
    BY DEF SupInv, Typed
  <2>2. /\ P \in ProcType
        /\ \/ P.state = "exited"
           \/ P.state = "exiting" /\ P.signal = proc[l].signal /\ proc[l].state = "running"
    BY <2>1 DEF ProcType, ChildConclude
  <2>3. proc' = [proc EXCEPT ![l] = P] /\ Live(l)
    BY DEF ChildConclude, ChildExit, Live
  <2> HIDE DEF P
  <2>4. proc' \in [Launches -> ProcType] /\ proc'[l] = P /\ \A m \in Launches \ {l} : proc'[m] = proc[m]
    BY <2>1, <2>2, <2>3, Entry
  <2>5. QED
    BY <2>2, <2>3, <2>4 DEF SameChild, LetGo, Live
<1>4. QED
  BY <1>1, <1>2, <1>3, ChildStepInv, ExecutorKept DEF SameJob, SupInv, Typed

\* The limits of a child are overrun, a kill timer fires, shutdown kills.
LEMMA SignalInv ==
  ASSUME SupInv, NEW l \in Launches, Overrun(l) \/ KillTimer(l) \/ ShutdownKill(l)
  PROVE  SupInv'
<1>1. UNCHANGED <<status, meta, call, pending, owned, cancel, shut, server, faults, capVars>>
  BY DEF Overrun, KillTimer, ShutdownKill
<1>2. \E sig \in {"term", "kill"} : proc' = Signalled(l, sig)
  BY DEF Overrun, KillTimer, ShutdownKill, terminateOwnedProcess
<1>3. job' \in [Launches -> JobType] /\ \A m \in Launches : SameJob(m)
  <2>1. job \in [Launches -> JobType]
    BY DEF SupInv, Typed
  <2>2. CASE Overrun(l)
    <3> DEFINE J == [job[l] EXCEPT !.monitor = "watch", !.reason = TRUE, !.killTimer = Live(l)]
    <3>0. Live(l) \in BOOLEAN
      BY DEF Live
    <3>1. job[l].monitor = "watch" /\ job' = [job EXCEPT ![l] = J]
      BY <2>2, Zenon DEF Overrun, terminateOwnedProcess
    <3>2. /\ J \in JobType
          /\ J.scan = job[l].scan /\ J.start = job[l].start /\ J.aborted = job[l].aborted
          /\ J.seen = job[l].seen /\ J.monitor = "watch" /\ J.late = job[l].late
      BY ZenonT(60), <2>1, <3>0 DEF JobType
    <3> HIDE DEF J
    <3>3. QED
      BY <2>1, <3>1, <3>2, Entry DEF SameJob
  <2>3. CASE KillTimer(l)
    BY ZenonT(60), <2>1, <2>3 DEF KillTimer, JobType, SameJob
  <2>4. CASE ShutdownKill(l)
    BY <2>1, <2>4 DEF ShutdownKill, SameJob
  <2>5. QED
    BY <2>2, <2>3, <2>4
<1>4. QED
  <2>1. \A m \in Launches : SameChild(m) /\ proc'[m].state = proc[m].state
    BY <1>2, SignalledChildren DEF SupInv
  <2>2. OneExecutor'
    BY <1>3, <2>1, ExecutorKept DEF SameJob, SupInv
  <2>3. QED
    BY <1>1, <1>2, <1>3, <2>1, <2>2, ChildStepInv, Signals, NoVerdict DEF SupInv, Typed

\* A step of the routes, of their commands or of a replayed request.
LEMMA RouteStepInv ==
  ASSUME SupInv, UNCHANGED <<meta, pending, owned, job, proc, cancel, shut, server>>,
         Gate', \A m \in Launches : SameLease(m),
         status' \in [Scans -> Statuses], Forward,
         faults' \in 0..MaxFaults, faults > 0 => faults' > 0,
         call' \in [Callers -> [Scans -> CallStates]],
         \A k \in Callers, s \in Scans : call'[k][s] # "idle" => status[s] # "none",
         \A k \in Callers, s \in Scans :
           /\ IsActiveStatus(s)' /\ ~(faults' > 0)
           /\ call[k][s] \in {"launch", "full", "failing"}
           => \/ call'[k][s] \in {"launch", "full", "failing"}
              \/ owned[s] # None \/ pending[s] # None
  PROVE  SupInv'
<1>1. Typed'
  BY DEF SupInv, Typed
<1>2. Quiet
  BY DEF Quiet, SameJob, SameChild, LetGo, Live, JobsReaped
<1>3. KeepersStay
  BY DEF KeepersStay
<1>4. SettlingKept
  BY <1>2, <1>3, SettlingStays DEF Quiet, KeepersStay
<1>5. CancelsOn
  BY <1>2, <1>4, SameCancels DEF Quiet
<1>6. OneExecutor'
  BY ExecutorKept DEF SupInv
<1>7. QED
  BY <1>1, <1>2, <1>3, <1>5, <1>6, QuietInv DEF JobsReaped

\* A request is replayed, or finds that its scan is being launched.
LEMMA JoinInv ==
  ASSUME SupInv, NEW k \in Callers, NEW s \in Scans,
         ReplayFind(s) \/ LaunchKnown(k, s)
  PROVE  SupInv'
<1>1. /\ UNCHANGED <<status, meta, pending, owned, job, proc, cancel, shut, server, faults, capVars>>
      /\ \/ call' = [call EXCEPT !["replay"][s] = "launch"] /\ status[s] = "queued"
         \/ /\ call' = [call EXCEPT ![k][s] = "done"] /\ call[k][s] = "launch"
            /\ owned[s] # None \/ pending[s] # None
  BY DEF ReplayFind, LaunchKnown
<1>2. \E u \in Callers, v \in {"launch", "done"} :
        /\ call' = [call EXCEPT ![u][s] = v]
        /\ v = "launch" \/ owned[s] # None \/ pending[s] # None
        /\ status[s] # "none"
  BY <1>1 DEF Callers, SupInv, Rows
<1>3. /\ call \in [Callers -> [Scans -> CallStates]] /\ {"launch", "done"} \subseteq CallStates
      /\ \A u \in Callers, x \in Scans : call[u][x] # "idle" => status[x] # "none"
  BY DEF SupInv, Typed, CallStates, Rows
<1>4. /\ call' \in [Callers -> [Scans -> CallStates]]
      /\ \A u \in Callers, x \in Scans :
           /\ call'[u][x] # "idle" => status[x] # "none"
           /\ call'[u][x] # call[u][x] =>
                call'[u][x] = "launch" \/ owned[x] # None \/ pending[x] # None
  BY <1>2, <1>3, Entry2
<1>5. Gate' /\ \A m \in Launches : SameLease(m)
  BY <1>1 DEF SupInv, Gate, SameLease, capVars
<1>6. QED
  BY <1>1, <1>4, <1>5, NoVerdict, RouteStepInv DEF SupInv, Typed

\* A launch that was refused, and the route that called it, fail the scan.
LEMMA RefusedInv ==
  ASSUME SupInv, NEW k \in Callers, NEW s \in Scans,
         LaunchRefused(k, s) \/ RouteFails(s)
  PROVE  SupInv'
<1>1. /\ UNCHANGED <<meta, pending, owned, job, proc, cancel, shut, server, capVars>>
      /\ \/ updateScanRunStatus(s, "failed") /\ UNCHANGED faults
         \/ Fault /\ UNCHANGED status
  BY DEF LaunchRefused, RouteFails, failNonTerminal
<1>2. /\ status' \in [Scans -> Statuses] /\ Forward
      /\ faults' \in 0..MaxFaults /\ (faults > 0 => faults' > 0)
      /\ ~IsActiveStatus(s)' \/ faults' > 0
  BY <1>1, VerdictOrFault DEF SupInv
<1>3. \E u \in Callers, v \in {"failing", "done"} :
        call' = [call EXCEPT ![u][s] = v] /\ status[s] # "none"
  BY DEF LaunchRefused, RouteFails, Callers, SupInv, Rows
<1>4. /\ call \in [Callers -> [Scans -> CallStates]] /\ {"failing", "done"} \subseteq CallStates
      /\ \A u \in Callers, x \in Scans : call[u][x] # "idle" => status[x] # "none"
  BY DEF SupInv, Typed, CallStates, Rows
<1>5. /\ call' \in [Callers -> [Scans -> CallStates]]
      /\ \A u \in Callers, x \in Scans :
           /\ call'[u][x] # "idle" => status[x] # "none"
           /\ x # s => call'[u][x] = call[u][x]
  BY <1>3, <1>4, Entry2
<1>6. Gate' /\ \A m \in Launches : SameLease(m)
  BY <1>1 DEF SupInv, Gate, SameLease, capVars
<1>7. QED
  BY <1>1, <1>2, <1>5, <1>6, RouteStepInv

\* A CLI command takes a lease or is refused, and gives it back.
LEMMA CommandInv ==
  ASSUME SupInv, NEW c \in Commands, CommandStart(c) \/ CommandEnd(c)
  PROVE  SupInv'
<1>1. /\ UNCHANGED <<status, meta, call, pending, owned, job, proc, cancel, shut, server, faults>>
      /\ Cap!TryAcquire(c) \/ Cap!Release(c)
  BY DEF CommandStart, CommandEnd
<1>2. Gate' /\ OthersAtGate(c)
  BY <1>1, GateTry, GateRelease DEF SupInv, Requests
<1>3. \A m \in Launches : SameLease(m)
  BY <1>2, CommandsAreNoLaunches DEF OthersAtGate, SameLease, Requests
<1>4. QED
  BY <1>1, <1>2, <1>3, NoVerdict, RouteStepInv DEF SupInv, Typed, Rows

-----------------------------------------------------------------------------
(* Steps of one launch and of its monitor *)

\* What a step of launch l does to the others, and to the maps.
Turn(l) ==
  /\ UNCHANGED <<call, cancel, server>>
  /\ shut'.pc = shut.pc /\ shut'.scans = shut.scans /\ JobsReaped
  /\ \A m \in Launches \ {l} : job'[m] = job[m] /\ proc'[m] = proc[m] /\ SameLease(m)
  /\ job'[l].scan = job[l].scan /\ job'[l].late = job[l].late
  /\ job'[l].start \in Starting => job[l].start \in Starting
  /\ job'[l].start \in Starting => job'[l].aborted = job[l].aborted
  /\ job[l].monitor # "idle" => job'[l].monitor # "idle" /\ (LetGo(l) => LetGo(l)')
  /\ \A s \in Scans :
       pending'[s] = IF pending[s] = l /\ job'[l].start \notin Starting THEN None ELSE pending[s]
  /\ \A s \in Scans :
       \/ owned'[s] = owned[s]
       \/ owned[s] = l /\ owned'[s] = None
       \/ /\ s = scan(l) /\ owned'[s] = l /\ owned[s] = None /\ pending'[s] = None
          /\ job[l].monitor = "idle"
  /\ \A s \in Scans : owned'[s] = l => req'[l] = "held" /\ job'[l].monitor \in {"watch", "erring"}
  /\ job'[l].monitor # "idle" =>
       \/ job[l].monitor # "idle"
       \/ job[l].start \in Starting /\ ~job[l].aborted

\* What it does to the rows.
TurnRows(l) ==
  /\ Forward
  /\ faults > 0 => faults' > 0
  /\ \A s \in Scans : /\ meta'[s].born = meta[s].born
                      /\ meta'[s].runtime \in {meta[s].runtime, server.runtime}
  /\ proc'[l].state \in {"running", "exiting"} => proc[l].state \in {"running", "exiting"}
  /\ job'[l].start = "spawn" /\ ~job'[l].seen => ~IsActiveStatus(scan(l))'
  /\ job'[l].start = "failed" /\ faults' = 0 => ~IsActiveStatus(scan(l))'
  /\ \A s \in Scans :
       /\ owned'[s] # None =>
            \/ owned'[s] = owned[s] /\ meta'[s].token = meta[s].token
            \/ meta'[s].token = owned'[s] \/ Settling(s)'
       /\ pending'[s] # None /\ job'[pending'[s]].start \in {"reread", "spawn"} =>
            \/ /\ pending'[s] = pending[s] /\ meta'[s].token = meta[s].token
               /\ job[pending[s]].start \in {"reread", "spawn"}
            \/ meta'[s].token = pending'[s] \/ Settling(s)'
  /\ job[l].scan \in Scans
  /\ \A s \in Scans : s = scan(l) => Settling(s)' \/ (Keeper(s) => Keeper(s)')

\* The maps after a step of launch l.
LEMMA TurnMaps ==
  ASSUME SupInv, NEW l \in Launches, Turn(l), Typed'
  PROVE  Maps'
<1> USE DEF SupInv
<1>1. \A s \in Scans : /\ pending[s] \in Launches \cup {None} /\ owned[s] \in Launches \cup {None}
                       /\ pending'[s] \in Launches \cup {None} /\ owned'[s] \in Launches \cup {None}
  BY DEF Typed
<1>2. ASSUME NEW s \in Scans, pending'[s] # None
      PROVE  /\ job'[pending'[s]].scan = s /\ owned'[s] = None
             /\ job'[pending'[s]].start \in Starting /\ ~job'[pending'[s]].aborted
  <2>1. pending'[s] = pending[s] /\ (pending[s] = l => job'[l].start \in Starting)
    BY <1>2 DEF Turn
  <2>2. /\ scan(pending[s]) = s /\ owned[s] = None /\ pending[s] \in Launches
        /\ job[pending[s]].start \in Starting /\ ~job[pending[s]].aborted
    BY <1>1, <1>2, <2>1 DEF Maps
  <2>3. QED
    BY <1>2, <2>1, <2>2, NoneIsNoLaunch DEF Turn, scan
<1>3. ASSUME NEW m \in Launches, job'[m].start \in Starting, ~job'[m].aborted
      PROVE  pending'[scan(m)'] = m
  <2>1. job[m].start \in Starting /\ ~job[m].aborted /\ scan(m)' = scan(m)
    BY <1>3 DEF Turn, scan
  <2>2. pending[scan(m)] = m /\ scan(m) \in Scans
    BY <2>1 DEF Maps, Typed, JobType, Stages, Stage, Starting, scan
  <2>3. QED
    BY <1>3, <2>1, <2>2 DEF Turn
<1>4. ASSUME NEW s \in Scans, owned'[s] # None
      PROVE  /\ job'[owned'[s]].scan = s /\ req'[owned'[s]] = "held"
             /\ job'[owned'[s]].monitor \in {"watch", "erring"}
  <2>1. CASE owned'[s] = l
    BY <1>4, <2>1 DEF Turn, scan, Maps
  <2>2. CASE owned'[s] # l
    <3>1. owned'[s] = owned[s] /\ owned[s] \in Launches \ {l}
      BY <1>1, <1>4, <2>2 DEF Turn
    <3>2. QED
      BY <1>4, <3>1 DEF Turn, scan, Maps, SameLease
  <2>3. QED
    BY <2>1, <2>2
<1>5. QED
  BY <1>2, <1>3, <1>4 DEF Maps, scan

\* A step of one launch keeps the invariant if its own stage is right.
LEMMA TurnInv ==
  ASSUME SupInv, NEW l \in Launches, Turn(l), TurnRows(l), Typed', Gate', Stage(l)'
  PROVE  SupInv'
<1> USE DEF SupInv
<1>1. Maps'
  BY TurnMaps
<1>2. faults \in Nat /\ faults' \in Nat
  BY DEF Typed
<1>3. \A m \in Launches : job[m].scan \in Scans \cup {None}
  BY DEF Typed, JobType
<1>4. Stages'
  <2> SUFFICES ASSUME NEW m \in Launches, m # l
               PROVE  Stage(m)'
    BY DEF Stages
  <2>1. Stage(m) /\ SameJob(m) /\ SameLease(m) /\ SameChild(m)
    BY DEF Turn, Stages, SameJob, SameChild, LetGo, Live
  <2>2. scan(m) \in Scans /\ owned[scan(m)] = m => owned'[scan(m)] = m
    BY NoneIsNoLaunch DEF Turn
  <2>3. CASE scan(m) \in Scans
    BY <2>1, <2>2, <2>3, StageKept
  <2>4. CASE scan(m) \notin Scans
    <3>1. job[m].scan = None
      BY <1>3, <2>4 DEF scan
    <3>2. QED
      BY <2>1, <3>1 DEF Stage, SameJob, SameLease, SameChild, Starting, scan
  <2>5. QED
    BY <2>3, <2>4
<1>5. Rows'
  <2>1. \A m \in Launches :
          /\ job'[m].scan = job[m].scan
          /\ proc'[m].state \in {"running", "exiting"} => proc[m].state \in {"running", "exiting"}
          /\ job'[m].start = "spawn" /\ ~job'[m].seen =>
                (job[m].start = "spawn" /\ ~job[m].seen) \/ ~IsActiveStatus(scan(m))'
          /\ job'[m].start = "failed" /\ faults' = 0 =>
                job[m].start = "failed" \/ ~IsActiveStatus(scan(m))'
    BY DEF Turn, TurnRows
  <2>2. shut'.scans \subseteq Scans
    BY DEF Typed, ShutType
  <2>3. /\ Rows /\ Forward /\ (faults' = 0 => faults = 0)
        /\ UNCHANGED <<call, cancel>> /\ shut'.scans = shut.scans
    BY <1>2 DEF Turn, TurnRows
  <2>4. QED
    BY <1>3, <2>1, <2>2, <2>3, RowsKept
<1>6. SettlingKept
  BY SettlingStays DEF Turn, TurnRows
<1>7. Aborts'
  <2>1. \A m \in Launches : job[m].start \in Starting => scan(m) \in Scans
    BY DEF Typed, JobType, Stages, Stage, Starting, scan
  <2>2. QED
    BY <1>6, <2>1, AbortsKept DEF Turn
<1>8. Tokens'
  BY <1>6, TokensKept DEF TurnRows
<1>9. Stopping'
  <2>1. \A s \in Scans : shut.pc = "cancel" /\ owned[s] # None /\ owned[s] \in shut.jobs =>
          ShutdownCancels(s)'
    BY <1>6, SameShutdownCancels DEF Turn
  <2>2. \A m \in Launches :
           /\ job'[m].start \in Starting =>
                /\ job[m].start \in Starting
                /\ job[m].aborted => job'[m].aborted
                /\ job[m].late => job'[m].late
           /\ job'[m].monitor # "idle" =>
                \/ /\ job[m].monitor # "idle"
                   /\ LetGo(m) => LetGo(m)'
                   /\ job[m].late => job'[m].late
                \/ server.state = "stopping" => job'[m].late
           /\ job[m].monitor # "idle" => job'[m].monitor # "idle"
    BY DEF Turn, Stopping, LetGo, Live
  <2>3. \A s \in Scans : shut.pc \in {"cancel", "wait"} /\ owned'[s] # None =>
           owned'[s] = owned[s] \/ owned'[s] \notin shut.jobs
    BY DEF Turn, Stopping
  <2>4. QED
    BY <1>6, <2>1, <2>2, <2>3, StoppingKept DEF Turn
<1>10. Runtimes' /\ NoScanOfEarlierRuntime'
  BY RuntimesKept DEF Turn, TurnRows
<1>11. OneExecutor'
  BY ExecutorKept DEF Turn, TurnRows
<1>12. ActiveScanHasKeeper'
  <2>1. ASSUME NEW s \in Scans, IsActiveStatus(s)', faults' = 0, Keeper(s)
        PROVE  Keeper(s)'
    <3>1. CASE s = scan(l)
      <4>1. Settling(s)' => Keeper(s)'
        BY <2>1 DEF Settling, Keeper
      <4>2. QED
        BY <2>1, <3>1, <4>1 DEF TurnRows
    <3>2. CASE s # scan(l)
      <4>1. pending[s] # l /\ owned[s] # l
        BY <3>2, NoneIsNoLaunch DEF Maps
      <4>2. pending'[s] = pending[s] /\ owned'[s] = owned[s]
        BY <3>2, <4>1 DEF Turn
      <4>3. \A m \in Launches : scan(m) = s =>
              scan(m)' = s /\ job'[m].start = job[m].start /\ job'[m].monitor = job[m].monitor
        BY <3>2 DEF Turn, scan
      <4>4. QED
        BY <2>1, <4>2, <4>3 DEF Keeper, Turn
    <3>3. QED
      BY <3>1, <3>2
  <2>2. Alive' = Alive
    BY DEF Turn, Alive
  <2>3. QED
    BY <1>2, <2>1, <2>2, KeeperKept DEF TurnRows, Forward
<1>13. Cancels'
  BY DEF Turn, Cancels
<1>14. QED
  BY <1>1, <1>4, <1>5, <1>7, <1>8, <1>9, <1>10, <1>11, <1>12, <1>13

\* A launch that is starting has its scan, is in the map unless it was aborted,
\* and has no child.
LEMMA StartingLaunch ==
  ASSUME SupInv, NEW l \in Launches, job[l].start \in Starting
  PROVE  /\ scan(l) \in Scans /\ job[l].scan \in Scans
         /\ job[l].monitor = "idle" /\ proc[l].state = "none"
         /\ status[scan(l)] # "none"
         /\ ~job[l].aborted => pending[scan(l)] = l /\ owned[scan(l)] = None
         /\ job[l].aborted => Settling(scan(l))
         /\ \A s \in Scans : owned[s] # l
         /\ \A s \in Scans : pending[s] = l => s = scan(l)
<1>1. scan(l) \in Scans /\ job[l].scan \in Scans /\ job[l].monitor = "idle" /\ proc[l].state = "none"
  BY DEF SupInv, Typed, JobType, Stages, Stage, Starting, scan
<1>2. QED
  BY <1>1, NoneIsNoLaunch DEF SupInv, Maps, Rows, Aborts

\* The start of a launch moves on: it stays in the map, keeps its lease and
\* spawns nothing.
LEMMA StartMovesInv ==
  ASSUME SupInv, NEW l \in Launches, NEW J \in JobType, job' = [job EXCEPT ![l] = J],
         job[l].start \in Starting, J.start \in Starting \ {"lease"}, req[l] = "held",
         J.scan = job[l].scan, J.late = job[l].late, J.monitor = job[l].monitor,
         J.aborted = job[l].aborted,
         UNCHANGED <<call, pending, owned, proc, cancel, shut, server, capVars>>,
         status' \in [Scans -> Statuses], Forward,
         faults' \in 0..MaxFaults, faults > 0 => faults' > 0,
         meta' \in [Scans -> MetaType],
         \A s \in Scans :
           /\ meta'[s].born = meta[s].born
           /\ meta'[s].runtime \in {meta[s].runtime, server.runtime}
           /\ meta'[s].token = meta[s].token \/ (s = scan(l) /\ meta'[s].token = l),
         J.start = "spawn" /\ ~J.seen => ~IsActiveStatus(scan(l)),
         J.start = "failed" => ~IsActiveStatus(scan(l))' \/ faults' > 0,
         J.start = "reread" => meta'[scan(l)].token = l,
         J.start = "spawn" => job[l].start = "reread"
  PROVE  SupInv'
<1>1. job \in [Launches -> JobType]
  BY DEF SupInv, Typed
<1>2. job' \in [Launches -> JobType] /\ job'[l] = J /\ \A m \in Launches \ {l} : job'[m] = job[m]
  BY <1>1, Entry
<1>3. Typed' /\ Gate'
  BY <1>2 DEF SupInv, Typed, Gate, capVars
<1>4. /\ scan(l) \in Scans /\ job[l].scan \in Scans
      /\ job[l].monitor = "idle" /\ proc[l].state = "none" /\ status[scan(l)] # "none"
      /\ ~job[l].aborted => pending[scan(l)] = l /\ owned[scan(l)] = None
      /\ job[l].aborted => Settling(scan(l))
      /\ \A s \in Scans : owned[s] # l
      /\ \A s \in Scans : pending[s] = l => s = scan(l)
  BY StartingLaunch
<1>5. Turn(l)
  BY <1>2, <1>4 DEF Turn, SameLease, capVars, JobsReaped
<1>6. Stage(l)'
  BY <1>2, <1>4, NoneIsNoLaunch DEF Stage, capVars, Starting
<1>7. SettlingKept
  BY SettlingStays DEF SupInv
<1>8. job[l].aborted => Settling(scan(l))'
  BY <1>2, <1>4, <1>7 DEF SettlingKept, scan, Settling, IsActiveStatus
<1>9. TurnRows(l)
  <2>1. /\ J.start = "spawn" /\ ~J.seen => ~IsActiveStatus(scan(l))'
        /\ J.start = "failed" /\ faults' = 0 => ~IsActiveStatus(scan(l))'
    BY <1>2, <1>4 DEF Forward, scan, IsActiveStatus
  <2>2. \A s \in Scans : owned'[s] # None =>
            \/ owned'[s] = owned[s] /\ meta'[s].token = meta[s].token
            \/ Settling(s)'
    <3> SUFFICES ASSUME NEW s \in Scans, owned[s] # None, s = scan(l)
                 PROVE  Settling(s)'
      BY <1>4
    <3>1. QED
      BY <1>4, <1>7 DEF SettlingKept
  <2>3. \A s \in Scans :
         pending'[s] # None /\ job'[pending'[s]].start \in {"reread", "spawn"} =>
            \/ /\ pending'[s] = pending[s] /\ meta'[s].token = meta[s].token
               /\ job[pending[s]].start \in {"reread", "spawn"}
            \/ meta'[s].token = pending'[s] \/ Settling(s)'
    <3> SUFFICES ASSUME NEW s \in Scans, pending[s] # None, job'[pending[s]].start \in {"reread", "spawn"}
                 PROVE  \/ /\ meta'[s].token = meta[s].token
                           /\ job[pending[s]].start \in {"reread", "spawn"}
                        \/ meta'[s].token = pending[s] \/ Settling(s)'
      OBVIOUS
    <3>1. CASE pending[s] = l
      BY <1>2, <1>4, <3>1
    <3>2. CASE pending[s] # l
      <4>1. pending[s] \in Launches
        BY DEF SupInv, Typed
      <4>2. job'[pending[s]] = job[pending[s]]
        BY <1>2, <3>2, <4>1
      <4>3. s = scan(l) => Settling(s)'
        BY <1>4, <1>7, <3>2 DEF SettlingKept
      <4>4. QED
        BY <4>2, <4>3
    <3>3. QED
      BY <3>1, <3>2
  <2>4. \A s \in Scans : s = scan(l) => Settling(s)' \/ (Keeper(s) => Keeper(s)')
    <3> SUFFICES ASSUME NEW s \in Scans, s = scan(l), ~Settling(s)'
                 PROVE  Keeper(s)'
      OBVIOUS
    <3>1. pending[s] = l
      BY <1>4, <1>7 DEF SettlingKept
    <3>2. QED
      BY <3>1, NoneIsNoLaunch DEF Keeper
  <2>5. QED
    BY <1>2, <1>4, <2>1, <2>2, <2>3, <2>4 DEF TurnRows
<1>10. QED
  BY <1>3, <1>5, <1>6, <1>9, TurnInv

\* The start of a launch ends without a child: the entry goes, and the lease.
LEMMA StartOverInv ==
  ASSUME SupInv, NEW l \in Launches, NEW J \in JobType, job' = [job EXCEPT ![l] = J],
         job[l].start \in Starting, J.start = "done",
         J.scan = job[l].scan, J.late = job[l].late, J.monitor = job[l].monitor,
         pending' = PendingWithout(l),
         UNCHANGED <<status, meta, call, owned, proc, cancel, shut, server>>,
         faults' \in 0..MaxFaults, faults > 0 => faults' > 0,
         Gate', \A m \in Launches \ {l} : SameLease(m), req'[l] \in {"released", "aborted"},
         job[l].aborted \/ ~IsActiveStatus(scan(l)) \/ faults' > 0
  PROVE  SupInv'
<1>1. job \in [Launches -> JobType] /\ pending \in [Scans -> Launches \cup {None}]
  BY DEF SupInv, Typed
<1>2. job' \in [Launches -> JobType] /\ job'[l] = J /\ \A m \in Launches \ {l} : job'[m] = job[m]
  BY <1>1, Entry
<1>3. /\ pending' \in [Scans -> Launches \cup {None}]
      /\ \A s \in Scans : pending'[s] = IF pending[s] = l THEN None ELSE pending[s]
  BY <1>1 DEF PendingWithout
<1>4. Typed'
  BY <1>2, <1>3 DEF SupInv, Typed
<1>5. /\ scan(l) \in Scans /\ job[l].scan \in Scans
      /\ job[l].monitor = "idle" /\ proc[l].state = "none" /\ status[scan(l)] # "none"
      /\ job[l].aborted => Settling(scan(l))
      /\ \A s \in Scans : owned[s] # l
      /\ \A s \in Scans : pending[s] = l => s = scan(l)
  BY StartingLaunch
<1>6. Turn(l)
  BY <1>2, <1>3, <1>5 DEF Turn, Starting, JobsReaped
<1>7. Stage(l)'
  BY <1>2, <1>5, NoneIsNoLaunch DEF Stage, Starting
<1>8. SettlingKept /\ Forward
  BY SettlingStays, NoVerdict DEF SupInv
<1>9. \A s \in Scans : s = scan(l) => Settling(s)'
  BY <1>5, <1>8 DEF SettlingKept, Settling, IsActiveStatus
<1>10. TurnRows(l)
  <2>1. \A s \in Scans :
         pending'[s] # None /\ job'[pending'[s]].start \in {"reread", "spawn"} =>
            /\ pending'[s] = pending[s]
            /\ job[pending[s]].start \in {"reread", "spawn"}
    BY <1>1, <1>2, <1>3
  <2>2. QED
    BY <1>2, <1>5, <1>8, <1>9, <2>1 DEF TurnRows
<1>11. QED
  BY <1>4, <1>6, <1>7, <1>10, TurnInv

\* The finally clause ends the start of a launch that was aborted, or whose
\* scan is settled.
LEMMA StartEndsInv ==
  ASSUME SupInv, NEW l \in Launches, job[l].start \in Starting, StartEnds(l),
         UNCHANGED <<status, meta, call, owned, proc, cancel, shut, server>>,
         faults' \in 0..MaxFaults, faults > 0 => faults' > 0,
         job[l].aborted \/ ~IsActiveStatus(scan(l)) \/ faults' > 0
  PROVE  SupInv'
<1> DEFINE J == [job[l] EXCEPT !.start = "done", !.seen = FALSE, !.aborted = FALSE]
<1>1. job \in [Launches -> JobType]
  BY DEF SupInv, Typed
<1>2. job' = [job EXCEPT ![l] = J] /\ pending' = PendingWithout(l) /\ Cap!Release(l)
  BY DEF StartEnds
<1>3. /\ J \in JobType /\ J.start = "done" /\ J.scan = job[l].scan
      /\ J.late = job[l].late /\ J.monitor = job[l].monitor
  BY ZenonT(60), <1>1 DEF JobType
<1> HIDE DEF J
<1>4. Gate' /\ OthersAtGate(l) /\ req'[l] = "released"
  BY <1>2, GateRelease DEF SupInv, Requests
<1>5. \A m \in Launches \ {l} : SameLease(m)
  BY <1>4 DEF OthersAtGate, SameLease, Requests
<1>6. QED
  BY <1>2, <1>3, <1>4, <1>5, StartOverInv

\* The lease arrives, or its promise was rejected.
LEMMA StartLeaseInv ==
  ASSUME SupInv, NEW l \in Launches, StartGranted(l) \/ StartRejected(l)
  PROVE  SupInv'
<1>1. job[l].start = "lease" /\ job[l].start \in Starting
  BY DEF StartGranted, StartRejected, Starting
<1>2. /\ ~job[l].aborted => pending[scan(l)] = l
      /\ req[l] = "aborted" => job[l].aborted
  BY <1>1, StartingLaunch DEF SupInv, Stages, Stage
<1>3. /\ job \in [Launches -> JobType] /\ faults \in 0..MaxFaults
      /\ status \in [Scans -> Statuses] /\ meta \in [Scans -> MetaType]
  BY DEF SupInv, Typed
<1>4. CASE StartGranted(l) /\ pending[scan(l)] # l
  BY <1>1, <1>2, <1>3, <1>4, StartEndsInv DEF StartGranted
<1>5. CASE StartGranted(l) /\ pending[scan(l)] = l
  <2> DEFINE J == [job[l] EXCEPT !.start = "find"]
  <2>1. /\ job' = [job EXCEPT ![l] = J] /\ req[l] = "held"
        /\ UNCHANGED <<status, meta, faults, call, pending, owned, proc, cancel, shut, server, capVars>>
    BY <1>5 DEF StartGranted
  <2>2. /\ J \in JobType /\ J.start = "find" /\ J.scan = job[l].scan /\ J.aborted = job[l].aborted
        /\ J.late = job[l].late /\ J.monitor = job[l].monitor
    BY <1>3 DEF JobType
  <2> HIDE DEF J
  <2>3. "find" \in Starting \ {"lease"} /\ Forward
    BY <2>1, NoVerdict DEF Starting
  <2>4. QED
    BY <1>1, <1>3, <2>1, <2>2, <2>3, StartMovesInv
<1>6. CASE StartRejected(l)
  <2> DEFINE J == [job[l] EXCEPT !.start = "done", !.aborted = FALSE]
  <2>1. /\ job' = [job EXCEPT ![l] = J] /\ req[l] = "aborted" /\ pending' = PendingWithout(l)
        /\ UNCHANGED <<status, meta, faults, call, owned, proc, cancel, shut, server, capVars>>
    BY <1>6 DEF StartRejected
  <2>2. /\ J \in JobType /\ J.start = "done" /\ J.scan = job[l].scan
        /\ J.late = job[l].late /\ J.monitor = job[l].monitor
    BY ZenonT(60), <1>3 DEF JobType
  <2> HIDE DEF J
  <2>3. Gate' /\ req'[l] = "aborted" /\ \A m \in Launches : SameLease(m)
    BY <2>1 DEF SupInv, Gate, SameLease, capVars
  <2>4. QED
    BY <1>1, <1>2, <1>3, <2>1, <2>2, <2>3, StartOverInv
<1>7. QED
  BY <1>4, <1>5, <1>6

\* The first read, the second read, and the metadata between them.
LEMMA StartReadsInv ==
  ASSUME SupInv, NEW l \in Launches, StartFind(l) \/ StartMerge(l) \/ StartReread(l)
  PROVE  SupInv'
<1>1. job[l].start \in {"find", "merge", "reread"} /\ job[l].start \in Starting
  BY DEF StartFind, StartMerge, StartReread, Starting
<1>2. scan(l) \in Scans /\ req[l] = "held"
  BY <1>1, StartingLaunch DEF SupInv, Stages, Stage
<1>3. /\ job \in [Launches -> JobType] /\ faults \in 0..MaxFaults
      /\ status \in [Scans -> Statuses] /\ meta \in [Scans -> MetaType]
      /\ server.runtime \in 0..MaxIncarnations
  BY DEF SupInv, Typed, ServerType
<1>4. Starting \ {"lease"} = {"find", "merge", "reread", "spawn", "failing", "failed"}
  BY DEF Starting
<1>5. CASE StartFind(l) /\ (job[l].aborted \/ ~IsActiveStatus(scan(l)))
  BY <1>1, <1>3, <1>5, StartEndsInv DEF StartFind
<1>6. CASE StartReread(l) /\ job[l].aborted
  BY <1>1, <1>3, <1>6, StartEndsInv DEF StartReread
<1>7. CASE StartFind(l) /\ ~(job[l].aborted \/ ~IsActiveStatus(scan(l)))
  <2> DEFINE J == [job[l] EXCEPT !.start = "merge"]
  <2>1. /\ job' = [job EXCEPT ![l] = J]
        /\ UNCHANGED <<status, meta, faults, call, pending, owned, proc, cancel, shut, server, capVars>>
    BY <1>7 DEF StartFind
  <2>2. /\ J \in JobType /\ J.start = "merge" /\ J.scan = job[l].scan /\ J.aborted = job[l].aborted
        /\ J.late = job[l].late /\ J.monitor = job[l].monitor
    BY <1>3 DEF JobType
  <2> HIDE DEF J
  <2>3. QED
    BY <1>1, <1>2, <1>3, <1>4, <2>1, <2>2, NoVerdict, StartMovesInv
<1>8. CASE StartReread(l) /\ ~job[l].aborted
  <2> DEFINE J == [job[l] EXCEPT !.start = "spawn", !.seen = IsActiveStatus(scan(l))]
  <2>0. IsActiveStatus(scan(l)) \in BOOLEAN
    BY DEF IsActiveStatus
  <2>1. /\ job' = [job EXCEPT ![l] = J]
        /\ UNCHANGED <<status, meta, faults, call, pending, owned, proc, cancel, shut, server, capVars>>
    BY <1>8, Zenon DEF StartReread
  <2>2. /\ J \in JobType /\ J.start = "spawn" /\ J.scan = job[l].scan /\ J.aborted = job[l].aborted
        /\ J.late = job[l].late /\ J.monitor = job[l].monitor /\ (J.seen <=> IsActiveStatus(scan(l)))
    BY <1>3, <2>0 DEF JobType
  <2> HIDE DEF J
  <2>3. job[l].start = "reread"
    BY <1>8 DEF StartReread
  <2>4. QED
    BY <1>1, <1>2, <1>3, <1>4, <2>1, <2>2, <2>3, NoVerdict, StartMovesInv
<1>9. CASE StartMerge(l)
  <2> DEFINE J == [job[l] EXCEPT !.start = "reread"]
             M == [meta[scan(l)] EXCEPT !.token = l, !.runtime = server.runtime]
  <2>1. /\ job' = [job EXCEPT ![l] = J] /\ meta' = [meta EXCEPT ![scan(l)] = M]
        /\ UNCHANGED <<status, faults, call, pending, owned, proc, cancel, shut, server, capVars>>
    BY <1>9 DEF StartMerge
  <2>2. /\ J \in JobType /\ J.start = "reread" /\ J.scan = job[l].scan /\ J.aborted = job[l].aborted
        /\ J.late = job[l].late /\ J.monitor = job[l].monitor
    BY <1>3 DEF JobType
  <2>3. /\ M \in MetaType /\ M.token = l /\ M.runtime = server.runtime
        /\ M.born = meta[scan(l)].born
    BY <1>2, <1>3 DEF MetaType
  <2> HIDE DEF J, M
  <2>4. /\ meta' \in [Scans -> MetaType] /\ meta'[scan(l)] = M
        /\ \A s \in Scans \ {scan(l)} : meta'[s] = meta[s]
    BY <1>2, <1>3, <2>1, <2>3, Entry
  <2>5. QED
    BY ZenonT(60), <1>1, <1>2, <1>3, <1>4, <2>1, <2>2, <2>3, <2>4, NoVerdict,
       StartMovesInv
<1>10. QED
  BY <1>5, <1>6, <1>7, <1>8, <1>9

\* A database call of launchOnce throws, and what follows a failure.
LEMMA StartFailsInv ==
  ASSUME SupInv, NEW l \in Launches, StartFault(l) \/ StartFail(l) \/ StartFailed(l)
  PROVE  SupInv'
<1>1. job[l].start \in {"find", "merge", "reread", "failing", "failed"} /\ job[l].start \in Starting
  BY DEF StartFault, StartFail, StartFailed, Starting
<1>2. scan(l) \in Scans /\ job[l].scan \in Scans /\ req[l] = "held"
  BY <1>1, StartingLaunch DEF SupInv, Stages, Stage
<1>3. /\ job \in [Launches -> JobType] /\ faults \in 0..MaxFaults
      /\ status \in [Scans -> Statuses] /\ meta \in [Scans -> MetaType]
  BY DEF SupInv, Typed
<1>4. Starting \ {"lease"} = {"find", "merge", "reread", "spawn", "failing", "failed"}
  BY DEF Starting
<1>5. Fault => faults' \in 0..MaxFaults /\ faults' > 0
  BY <1>3, BoundsNatural DEF Fault
<1>6. CASE StartFault(l) /\ job[l].aborted
  BY <1>1, <1>3, <1>5, <1>6, StartEndsInv DEF StartFault
<1>7. CASE StartFault(l) /\ ~job[l].aborted
  <2> DEFINE J == [job[l] EXCEPT !.start = "failing"]
  <2>1. /\ job' = [job EXCEPT ![l] = J] /\ Fault
        /\ UNCHANGED <<status, meta, call, pending, owned, proc, cancel, shut, server, capVars>>
    BY <1>7 DEF StartFault
  <2>2. /\ J \in JobType /\ J.start = "failing" /\ J.scan = job[l].scan /\ J.aborted = job[l].aborted
        /\ J.late = job[l].late /\ J.monitor = job[l].monitor
    BY <1>3 DEF JobType
  <2> HIDE DEF J
  <2>3. QED
    BY <1>1, <1>2, <1>3, <1>4, <1>5, <2>1, <2>2, NoVerdict, StartMovesInv
<1>8. CASE StartFail(l)
  <2> DEFINE J == [job[l] EXCEPT !.start = "failed"]
  <2>1. /\ job' = [job EXCEPT ![l] = J]
        /\ \/ updateScanRunStatus(scan(l), "failed") /\ UNCHANGED faults
           \/ Fault /\ UNCHANGED status
        /\ UNCHANGED <<meta, call, pending, owned, proc, cancel, shut, server, capVars>>
    BY <1>8 DEF StartFail, failNonTerminal
  <2>2. /\ J \in JobType /\ J.start = "failed" /\ J.scan = job[l].scan /\ J.aborted = job[l].aborted
        /\ J.late = job[l].late /\ J.monitor = job[l].monitor
    BY <1>3 DEF JobType
  <2> HIDE DEF J
  <2>3. /\ status' \in [Scans -> Statuses] /\ Forward
        /\ faults' \in 0..MaxFaults /\ (faults > 0 => faults' > 0)
        /\ \A s \in Scans : s = scan(l) => ~IsActiveStatus(s)' \/ faults' > 0
    BY <1>2, <2>1, VerdictOrFault DEF SupInv
  <2>4. scan(l)' = scan(l)
    BY <1>3, <2>1, <2>2, Entry DEF scan
  <2>5. ~IsActiveStatus(scan(l))' \/ faults' > 0
    BY <1>2, <2>3, <2>4 DEF IsActiveStatus
  <2>6. QED
    BY <1>1, <1>2, <1>3, <1>4, <2>1, <2>2, <2>3, <2>5, StartMovesInv
<1>9. CASE StartFailed(l)
  <2>1. job[l].aborted \/ ~IsActiveStatus(scan(l)) \/ faults > 0
    BY <1>2, <1>3, <1>9, NoneIsNoLaunch DEF SupInv, Rows, StartFailed, scan
  <2>2. QED
    BY <1>1, <1>3, <1>9, <2>1, StartEndsInv DEF StartFailed
<1>10. QED
  BY <1>6, <1>7, <1>8, <1>9

\* Bun.spawn: the launch leaves the one map for the other.
LEMMA SpawnedInv ==
  ASSUME SupInv, NEW l \in Launches, job[l].start = "spawn", ~job[l].aborted, Spawned(l),
         UNCHANGED <<status, meta, call, cancel, shut, server, faults>>
  PROVE  SupInv'
<1> DEFINE J == [job[l] EXCEPT !.start = "done", !.seen = FALSE, !.monitor = "watch"]
           P == [proc[l] EXCEPT !.state = "booting"]
<1>1. /\ job \in [Launches -> JobType] /\ pending \in [Scans -> Launches \cup {None}]
      /\ proc \in [Launches -> ProcType] /\ owned \in [Scans -> Launches \cup {None}]
  BY DEF SupInv, Typed
<1>2. /\ job' = [job EXCEPT ![l] = J] /\ pending' = PendingWithout(l)
      /\ proc' = [proc EXCEPT ![l] = P] /\ owned' = [owned EXCEPT ![scan(l)] = l]
      /\ UNCHANGED capVars
  BY DEF Spawned
<1>3. /\ J \in JobType /\ J.start = "done" /\ J.scan = job[l].scan
      /\ J.late = job[l].late /\ J.monitor = "watch"
      /\ P \in ProcType /\ P.state = "booting"
  BY ZenonT(60), <1>1 DEF JobType, ProcType
<1> HIDE DEF J, P
<1>4. /\ scan(l) \in Scans /\ job[l].scan \in Scans
      /\ job[l].monitor = "idle" /\ proc[l].state = "none" /\ status[scan(l)] # "none"
      /\ pending[scan(l)] = l /\ owned[scan(l)] = None
      /\ \A s \in Scans : owned[s] # l
      /\ \A s \in Scans : pending[s] = l => s = scan(l)
      /\ job[l].start \in Starting /\ req[l] = "held"
  BY StartingLaunch DEF Starting, SupInv, Stages, Stage
<1>5. job' \in [Launches -> JobType] /\ job'[l] = J /\ \A m \in Launches \ {l} : job'[m] = job[m]
  BY <1>1, <1>2, <1>3, Entry
<1>6. proc' \in [Launches -> ProcType] /\ proc'[l] = P /\ \A m \in Launches \ {l} : proc'[m] = proc[m]
  BY <1>1, <1>2, <1>3, Entry
<1>7. /\ owned' \in [Scans -> Launches \cup {None}] /\ owned'[scan(l)] = l
      /\ \A s \in Scans \ {scan(l)} : owned'[s] = owned[s]
  BY <1>1, <1>2, <1>4, Entry
<1>8. /\ pending' \in [Scans -> Launches \cup {None}]
      /\ \A s \in Scans : pending'[s] = IF pending[s] = l THEN None ELSE pending[s]
  BY <1>1, <1>2 DEF PendingWithout
<1>9. Typed' /\ Gate'
  BY <1>2, <1>5, <1>6, <1>7, <1>8 DEF SupInv, Typed, Gate, capVars
<1>10. Turn(l)
  BY <1>2, <1>3, <1>4, <1>5, <1>6, <1>7, <1>8 DEF Turn, Starting, SameLease, capVars,
     JobsReaped
<1>11. Stage(l)'
  <2>1. scan(l)' = scan(l)
    BY <1>3, <1>5 DEF scan
  <2>2. req'[l] = "held"
    BY <1>2, <1>4 DEF capVars
  <2>3. QED
    BY <1>3, <1>4, <1>5, <1>6, <1>7, <2>1, <2>2, NoneIsNoLaunch DEF Stage, Starting
<1>12. SettlingKept /\ Forward
  BY SettlingStays, NoVerdict DEF SupInv
<1>13. meta[scan(l)].token = l \/ Settling(scan(l))
  BY <1>4, NoneIsNoLaunch DEF SupInv, Tokens
<1>14. TurnRows(l)
  <2>1. \A s \in Scans :
         pending'[s] # None /\ job'[pending'[s]].start \in {"reread", "spawn"} =>
            /\ pending'[s] = pending[s]
            /\ job[pending[s]].start \in {"reread", "spawn"}
    BY <1>1, <1>5, <1>8
  <2>2. \A s \in Scans : owned'[s] # None =>
            \/ owned'[s] = owned[s]
            \/ meta'[s].token = owned'[s] \/ Settling(s)'
    BY <1>4, <1>7, <1>12, <1>13 DEF SettlingKept
  <2>3. \A s \in Scans : s = scan(l) => Keeper(s)'
    BY <1>7, NoneIsNoLaunch DEF Keeper
  <2>4. QED
    BY <1>3, <1>4, <1>5, <1>6, <1>12, <2>1, <2>2, <2>3 DEF TurnRows
<1>15. QED
  BY <1>9, <1>10, <1>11, <1>14, TurnInv

\* The launch spawns its child, fails to, or was aborted in time.
LEMMA StartSpawnInv ==
  ASSUME SupInv, NEW l \in Launches, StartSpawn(l)
  PROVE  SupInv'
<1>1. job[l].start = "spawn" /\ job[l].start \in Starting
  BY DEF StartSpawn, Starting
<1>2. scan(l) \in Scans /\ job[l].scan \in Scans /\ req[l] = "held"
  BY <1>1, StartingLaunch DEF SupInv, Stages, Stage
<1>3. /\ job \in [Launches -> JobType] /\ faults \in 0..MaxFaults
      /\ status \in [Scans -> Statuses] /\ meta \in [Scans -> MetaType]
  BY DEF SupInv, Typed
<1>4. UNCHANGED <<status, meta, call, cancel, shut, server, faults>>
  BY DEF StartSpawn
<1>5. CASE job[l].aborted \/ ~job[l].seen
  <2>1. job[l].aborted \/ ~IsActiveStatus(scan(l))
    BY <1>1, <1>2, <1>5, NoneIsNoLaunch DEF SupInv, Rows, scan
  <2>2. QED
    BY <1>1, <1>3, <1>4, <1>5, <2>1, StartEndsInv DEF StartSpawn
<1>6. CASE ~(job[l].aborted \/ ~job[l].seen) /\ Spawned(l)
  BY <1>1, <1>4, <1>6, SpawnedInv
<1>7. CASE ~(job[l].aborted \/ ~job[l].seen) /\ ~Spawned(l)
  <2> DEFINE J == [job[l] EXCEPT !.start = "failing", !.seen = FALSE]
  <2>1. job' = [job EXCEPT ![l] = J] /\ UNCHANGED <<pending, owned, proc, capVars>>
    BY <1>7 DEF StartSpawn
  <2>2. /\ J \in JobType /\ J.start = "failing" /\ J.scan = job[l].scan /\ J.aborted = job[l].aborted
        /\ J.late = job[l].late /\ J.monitor = job[l].monitor
    BY <1>3 DEF JobType
  <2> HIDE DEF J
  <2>3. "failing" \in Starting \ {"lease"}
    BY DEF Starting
  <2>4. QED
    BY <1>1, <1>2, <1>3, <1>4, <2>1, <2>2, <2>3, NoVerdict, StartMovesInv
<1>8. QED
  BY <1>5, <1>6, <1>7 DEF StartSpawn

\* A step of the monitor of a launch, which leaves pending, the metadata and
\* the state of the child alone.
LEMMA MonitorInv ==
  ASSUME SupInv, NEW l \in Launches, NEW J \in JobType, job' = [job EXCEPT ![l] = J],
         job[l].monitor # "idle", J.monitor # "idle",
         J.scan = job[l].scan, J.late = job[l].late, J.start = job[l].start,
         J.aborted = job[l].aborted,
         UNCHANGED <<meta, call, pending, cancel, server>>,
         shut' \in ShutType, shut'.pc = shut.pc, shut'.scans = shut.scans, JobsReaped,
         proc' \in [Launches -> ProcType],
         \A m \in Launches : proc'[m].state = proc[m].state,
         \A m \in Launches \ {l} : proc'[m] = proc[m], LetGo(l) => LetGo(l)',
         status' \in [Scans -> Statuses], Forward,
         faults' \in 0..MaxFaults, faults > 0 => faults' > 0,
         Gate', \A m \in Launches \ {l} : SameLease(m),
         \/ /\ UNCHANGED owned /\ req'[l] = req[l]
            /\ J.monitor \in {"watch", "erring"} <=> job[l].monitor \in {"watch", "erring"}
         \/ /\ owned' \in [Scans -> Launches \cup {None}]
            /\ \A s \in Scans : owned'[s] = IF owned[s] = l THEN None ELSE owned[s]
            /\ req'[l] = "released" /\ LetGo(l)'
            /\ \/ J.monitor = "find"
               \/ job[l].monitor = J.monitor /\ (owned[scan(l)] = l => Settling(scan(l))),
         \/ job[l].monitor \in {"find", "fail"} => J.monitor \in {"find", "fail"}
         \/ ~IsActiveStatus(scan(l))' \/ faults' > 0
  PROVE  SupInv'
<1>1. /\ job \in [Launches -> JobType] /\ owned \in [Scans -> Launches \cup {None}]
      /\ pending \in [Scans -> Launches \cup {None}]
  BY DEF SupInv, Typed
<1>2. job' \in [Launches -> JobType] /\ job'[l] = J /\ \A m \in Launches \ {l} : job'[m] = job[m]
  BY <1>1, Entry
<1>3. /\ owned' \in [Scans -> Launches \cup {None}]
      /\ \A s \in Scans : owned'[s] = owned[s] \/ (owned[s] = l /\ owned'[s] = None)
  BY <1>1
<1>4. Typed'
  BY <1>2, <1>3 DEF SupInv, Typed
<1>5. /\ Stage(l) /\ job[l].start = "done" /\ job[l].scan \in Scans /\ scan(l) \in Scans
      /\ scan(l)' = scan(l)
      /\ \A s \in Scans : pending[s] # l
      /\ \A s \in Scans : owned[s] = l => s = scan(l)
  <2>1. Stage(l) /\ job[l].start = "done" /\ job[l].scan \in Scans
    BY DEF SupInv, Stages, Stage, Typed, JobType
  <2>2. \A s \in Scans : pending[s] # l
    BY <2>1, NoneIsNoLaunch DEF SupInv, Maps, Starting
  <2>3. \A s \in Scans : owned[s] = l => s = scan(l)
    BY NoneIsNoLaunch DEF SupInv, Maps
  <2>4. QED
    BY <1>2, <2>1, <2>2, <2>3 DEF scan
<1>6. Turn(l)
  <2>1. \A s \in Scans : owned'[s] = l => req'[l] = "held" /\ job'[l].monitor \in {"watch", "erring"}
    BY <1>2, <1>3, NoneIsNoLaunch DEF SupInv, Maps
  <2>2. job'[l].start \notin Starting
    BY <1>2, <1>5 DEF Starting
  <2>3. QED
    BY <1>2, <1>3, <1>5, <2>1, <2>2 DEF Turn
<1>7. Stage(l)'
  <2>1. job'[l].start = "done" /\ job'[l].scan \in Scans /\ proc'[l].state = proc[l].state
    BY <1>2, <1>5
  <2>2. CASE /\ UNCHANGED owned /\ req'[l] = req[l]
             /\ J.monitor \in {"watch", "erring"} <=> job[l].monitor \in {"watch", "erring"}
    <3>1. J.monitor \in {"idle", "watch", "erring", "find", "fail", "post", "done"}
          /\ job[l].monitor \in {"idle", "watch", "erring", "find", "fail", "post", "done"}
      BY <1>1 DEF JobType
    <3>2. QED
      BY <1>2, <1>5, <2>1, <2>2, <3>1, NoneIsNoLaunch DEF Stage, Starting
  <2>3. CASE /\ \A s \in Scans : owned'[s] = IF owned[s] = l THEN None ELSE owned[s]
             /\ req'[l] = "released" /\ LetGo(l)'
    BY <1>2, <1>5, <2>1, <2>3, NoneIsNoLaunch DEF Stage, Starting
  <2>4. QED
    BY <2>2, <2>3
<1>8. SettlingKept
  BY SettlingStays DEF SupInv
<1>9. status[scan(l)] # "none"
  BY <1>5, NoneIsNoLaunch DEF SupInv, Rows
<1>10. TurnRows(l)
  <2>1. \A s \in Scans :
         pending'[s] # None /\ job'[pending'[s]].start \in {"reread", "spawn"} =>
            /\ pending'[s] = pending[s]
            /\ job[pending[s]].start \in {"reread", "spawn"}
    BY <1>1, <1>2, <1>5
  <2>2. \A s \in Scans : owned'[s] # None => owned'[s] = owned[s]
    BY <1>3
  <2>3. ASSUME NEW s \in Scans, s = scan(l), Keeper(s), ~Settling(s)'
        PROVE  Keeper(s)'
    <3>1. ~(~IsActiveStatus(scan(l))' \/ faults' > 0)
      BY <1>5, <2>3 DEF Settling, IsActiveStatus
    <3>2. \/ job[l].monitor \in {"find", "fail"} /\ J.monitor \in {"find", "fail"}
          \/ job[l].monitor \notin {"find", "fail"}
      BY <3>1
    <3>3. owned'[s] = owned[s] \/ J.monitor = "find"
      BY <1>9, <1>8, <2>3 DEF SettlingKept
    <3>4. QED
      BY <1>2, <1>5, <2>3, <3>2, <3>3 DEF Keeper, scan
  <2>4. job'[l].start = "done"
    BY <1>2, <1>5
  <2>5. QED
    BY <1>5, <2>1, <2>2, <2>3, <2>4 DEF TurnRows
<1>11. QED
  BY <1>4, <1>6, <1>7, <1>10, TurnInv

\* The shutdown does nothing.
LEMMA ShutdownRests ==
  ASSUME SupInv, UNCHANGED shut
  PROVE  shut' \in ShutType /\ shut'.pc = shut.pc /\ shut'.scans = shut.scans /\ JobsReaped
BY DEF SupInv, Typed, JobsReaped

\* releaseOwnership, for a child that has gone or was sent SIGKILL.
LEMMA ReleaseInv ==
  ASSUME SupInv, NEW l \in Launches,
         NEW m \in {"watch", "erring", "find", "fail", "post", "done"},
         releaseOwnership(l, m), job[l].monitor # "idle",
         \/ m = "find" /\ job[l].monitor \in {"watch", "erring"}
         \/ job[l].monitor = m /\ (owned[scan(l)] = l => Settling(scan(l))),
         UNCHANGED <<status, faults, meta, call, pending, cancel, server>>,
         shut' \in ShutType, shut'.pc = shut.pc, shut'.scans = shut.scans, JobsReaped,
         proc' \in [Launches -> ProcType],
         \A x \in Launches : proc'[x].state = proc[x].state,
         \A x \in Launches \ {l} : proc'[x] = proc[x], LetGo(l)'
  PROVE  SupInv'
<1> DEFINE J == [job[l] EXCEPT !.killTimer = FALSE, !.monitor = m]
<1>1. job \in [Launches -> JobType] /\ faults \in 0..MaxFaults /\ status \in [Scans -> Statuses]
  BY DEF SupInv, Typed
<1>2. /\ job' = [job EXCEPT ![l] = J] /\ Cap!Release(l)
      /\ owned' = [s \in Scans |-> IF owned[s] = l THEN None ELSE owned[s]]
  BY DEF releaseOwnership
<1>3. /\ J \in JobType /\ J.start = job[l].start /\ J.scan = job[l].scan /\ J.monitor = m
      /\ J.late = job[l].late /\ J.aborted = job[l].aborted
  BY ZenonT(60), <1>1 DEF JobType
<1> HIDE DEF J
<1>4. Gate' /\ OthersAtGate(l) /\ req'[l] = "released"
  BY <1>2, GateRelease DEF SupInv, Requests
<1>5. \A x \in Launches \ {l} : SameLease(x)
  BY <1>4 DEF OthersAtGate, SameLease, Requests
<1>6. /\ J.monitor # "idle"
      /\ \/ J.monitor = "find"
         \/ job[l].monitor = J.monitor /\ (owned[scan(l)] = l => Settling(scan(l)))
      /\ job[l].monitor \in {"find", "fail"} => J.monitor \in {"find", "fail"}
  BY <1>3
<1>7. Forward /\ status' \in [Scans -> Statuses] /\ faults' \in 0..MaxFaults
  BY <1>1, NoVerdict
<1>8. /\ owned' \in [Scans -> Launches \cup {None}]
      /\ \A s \in Scans : owned'[s] = IF owned[s] = l THEN None ELSE owned[s]
      /\ req'[l] = "released" /\ LetGo(l)'
      /\ \/ J.monitor = "find"
         \/ job[l].monitor = J.monitor /\ (owned[scan(l)] = l => Settling(scan(l)))
  BY <1>2, <1>4, <1>6 DEF SupInv, Typed
<1>9. /\ UNCHANGED <<meta, call, pending, cancel, server>> /\ (faults > 0 => faults' > 0)
      /\ LetGo(l) => LetGo(l)'
      /\ job' = [job EXCEPT ![l] = J] /\ J.monitor # "idle"
      /\ Gate' /\ \A x \in Launches \ {l} : SameLease(x)
  BY <1>2, <1>4, <1>5, <1>6
<1>10. QED
  BY <1>3, <1>6, <1>7, <1>8, <1>9, MonitorInv

\* The child has exited, or is given up.
LEMMA MonitorReleaseInv ==
  ASSUME SupInv, NEW l \in Launches, MonitorExit(l) \/ MonitorGivesUp(l)
  PROVE  SupInv'
<1>1. /\ job[l].monitor \in {"watch", "erring"} /\ releaseOwnership(l, "find")
      /\ UNCHANGED <<status, meta, call, pending, cancel, shut, server, faults>>
  BY DEF MonitorExit, MonitorGivesUp
<1>2. proc \in [Launches -> ProcType] /\ Typed
  BY DEF SupInv, Typed
<1>3. /\ proc' \in [Launches -> ProcType] /\ LetGo(l)'
      /\ \A x \in Launches : proc'[x].state = proc[x].state
      /\ \A x \in Launches \ {l} : proc'[x] = proc[x]
  <2>1. CASE MonitorExit(l)
    BY <1>2, <2>1 DEF MonitorExit, LetGo, Live
  <2>2. CASE MonitorGivesUp(l)
    <3>1. proc' = Signalled(l, "kill") /\ Live(l)
      BY <2>2 DEF MonitorGivesUp
    <3>2. QED
      BY <1>2, <3>1, Signals DEF LetGo
  <2>3. QED
    BY <2>1, <2>2
<1>4. shut' \in ShutType /\ shut'.pc = shut.pc /\ shut'.scans = shut.scans /\ JobsReaped
  BY <1>1, ShutdownRests
<1>5. QED
  BY <1>1, <1>3, <1>4, ReleaseInv

\* The shutdown gives up a child that SIGKILL has not ended.
LEMMA ShutdownGivesUpInv ==
  ASSUME SupInv, NEW l \in Launches, ShutdownGivesUp(l)
  PROVE  SupInv'
<1>1. /\ shut.pc = "wait" /\ l \in shut.jobs /\ Live(l) /\ proc[l].signal = "kill"
      /\ releaseOwnership(l, job[l].monitor)
      /\ shut' = [shut EXCEPT !.jobs = @ \ {l}, !.dropped = @ \cup {l}]
      /\ UNCHANGED <<status, meta, call, pending, proc, cancel, server, faults>>
  BY DEF ShutdownGivesUp
<1>2. LetGo(l)' /\ proc' \in [Launches -> ProcType]
  BY <1>1 DEF LetGo, SupInv, Typed
<1>3. shut' \in ShutType /\ shut'.pc = shut.pc /\ shut'.scans = shut.scans /\ JobsReaped
  BY <1>1, <1>2 DEF SupInv, Typed, ShutType, JobsReaped
<1>4. /\ job[l].monitor # "idle"
      /\ job[l].monitor \in {"watch", "erring", "find", "fail", "post", "done"}
  BY <1>1 DEF SupInv, Stopping, Typed, JobType
<1>5. owned[scan(l)] = l => Settling(scan(l))
  <2>1. scan(l) \in Scans
    BY <1>4 DEF SupInv, Typed, Stages, Stage, JobType, scan
  <2>2. QED
    BY <1>1, <2>1, NoneIsNoLaunch DEF SupInv, Stopping
<1>6. QED
  BY <1>1, <1>2, <1>3, <1>4, <1>5, ReleaseInv

\* Reading the output of the child fails.
LEMMA MonitorErrorInv ==
  ASSUME SupInv, NEW l \in Launches, MonitorError(l)
  PROVE  SupInv'
<1>1. /\ job[l].monitor = "watch" /\ terminateOwnedProcess(l, "erring")
      /\ UNCHANGED <<status, meta, call, pending, owned, cancel, shut, server, faults, capVars>>
  BY DEF MonitorError
<1>2. job \in [Launches -> JobType] /\ proc \in [Launches -> ProcType] /\ Typed
  BY DEF SupInv, Typed
<1>3. \E J \in JobType :
        /\ job' = [job EXCEPT ![l] = J] /\ J.monitor = "erring"
        /\ J.scan = job[l].scan /\ J.late = job[l].late /\ J.start = job[l].start
        /\ J.aborted = job[l].aborted
  <2>1. CASE job[l].cancelling \/ job[l].reason
    <3> DEFINE J == [job[l] EXCEPT !.monitor = "erring"]
    <3>1. job' = [job EXCEPT ![l] = J]
      BY <1>1, <2>1 DEF terminateOwnedProcess
    <3>2. /\ J \in JobType /\ J.monitor = "erring"
          /\ J.scan = job[l].scan /\ J.late = job[l].late /\ J.start = job[l].start
          /\ J.aborted = job[l].aborted
      BY <1>2 DEF JobType
    <3> HIDE DEF J
    <3>3. QED
      BY <3>1, <3>2
  <2>2. CASE ~(job[l].cancelling \/ job[l].reason)
    <3> DEFINE J == [job[l] EXCEPT !.monitor = "erring", !.reason = TRUE, !.killTimer = Live(l)]
    <3>0. Live(l) \in BOOLEAN
      BY DEF Live
    <3>1. job' = [job EXCEPT ![l] = J]
      BY <1>1, <2>2, Zenon DEF terminateOwnedProcess
    <3>2. /\ J \in JobType /\ J.monitor = "erring"
          /\ J.scan = job[l].scan /\ J.late = job[l].late /\ J.start = job[l].start
          /\ J.aborted = job[l].aborted
      BY ZenonT(60), <1>2, <3>0 DEF JobType
    <3> HIDE DEF J
    <3>3. QED
      BY <3>1, <3>2
  <2>3. QED
    BY <2>1, <2>2
<1>4. /\ proc' \in [Launches -> ProcType] /\ (LetGo(l) => LetGo(l)')
      /\ \A x \in Launches : proc'[x].state = proc[x].state
      /\ \A x \in Launches \ {l} : proc'[x] = proc[x]
  BY <1>1, <1>2, Signals DEF terminateOwnedProcess, LetGo, Live
<1>5. Gate' /\ (\A m \in Launches : SameLease(m)) /\ req'[l] = req[l]
  BY <1>1 DEF SupInv, Gate, SameLease, capVars
<1>6. Forward /\ faults' \in 0..MaxFaults /\ status' \in [Scans -> Statuses]
  BY <1>1, NoVerdict DEF SupInv, Typed
<1>7. shut' \in ShutType /\ shut'.pc = shut.pc /\ shut'.scans = shut.scans /\ JobsReaped
  BY <1>1, ShutdownRests
<1>8. QED
  BY <1>1, <1>3, <1>4, <1>5, <1>6, <1>7, MonitorInv

\* The monitor looks for a verdict, fails the scan that has none, and returns.
LEMMA MonitorEndsInv ==
  ASSUME SupInv, NEW l \in Launches, MonitorFind(l) \/ MonitorFail(l) \/ MonitorPost(l)
  PROVE  SupInv'
<1>1. /\ job[l].monitor \in {"find", "fail", "post"}
      /\ UNCHANGED <<meta, call, pending, owned, proc, cancel, shut, server, capVars>>
  BY DEF MonitorFind, MonitorFail, MonitorPost
<1>2. /\ job \in [Launches -> JobType] /\ proc \in [Launches -> ProcType]
      /\ job[l].scan \in Scans /\ scan(l) \in Scans
  BY <1>1 DEF SupInv, Typed, Stages, Stage, JobType, scan
<1>3. \E J \in JobType :
        /\ job' = [job EXCEPT ![l] = J] /\ J.monitor \in {"fail", "post", "done"}
        /\ J.scan = job[l].scan /\ J.late = job[l].late /\ J.start = job[l].start
        /\ J.aborted = job[l].aborted
        /\ \/ job[l].monitor = "post" /\ UNCHANGED <<status, faults>>
           \/ J.monitor = "fail" /\ UNCHANGED <<status, faults>>
           \/ ~IsActiveStatus(scan(l)) /\ UNCHANGED <<status, faults>>
           \/ updateScanRunStatus(scan(l), "failed") /\ UNCHANGED faults
           \/ Fault /\ UNCHANGED status
  <2>1. CASE job' = MonitorDone(l) /\ ~(MonitorFind(l) /\ IsActiveStatus(scan(l)) /\ UNCHANGED faults)
    <3> DEFINE J == [job[l] EXCEPT !.monitor = "done", !.cancelling = FALSE, !.reason = FALSE]
    <3>1. job' = [job EXCEPT ![l] = J]
      BY <2>1 DEF MonitorDone
    <3>2. /\ J \in JobType /\ J.monitor = "done"
          /\ J.scan = job[l].scan /\ J.late = job[l].late /\ J.start = job[l].start
          /\ J.aborted = job[l].aborted
      BY ZenonT(60), <1>2 DEF JobType
    <3> HIDE DEF J
    <3>3. \/ job[l].monitor = "post" /\ UNCHANGED <<status, faults>>
          \/ ~IsActiveStatus(scan(l)) /\ UNCHANGED <<status, faults>>
          \/ updateScanRunStatus(scan(l), "failed") /\ UNCHANGED faults
          \/ Fault /\ UNCHANGED status
      BY <2>1 DEF MonitorFind, MonitorFail, MonitorPost, failNonTerminal
    <3>4. QED
      BY <3>1, <3>2, <3>3
  <2>2. CASE job' = [job EXCEPT ![l].monitor = "fail"] /\ UNCHANGED <<status, faults>>
    <3> DEFINE J == [job[l] EXCEPT !.monitor = "fail"]
    <3>1. job' = [job EXCEPT ![l] = J]
      BY <2>2
    <3>2. /\ J \in JobType /\ J.monitor = "fail"
          /\ J.scan = job[l].scan /\ J.late = job[l].late /\ J.start = job[l].start
          /\ J.aborted = job[l].aborted
      BY <1>2 DEF JobType
    <3> HIDE DEF J
    <3>3. QED
      BY <2>2, <3>1, <3>2
  <2>3. CASE /\ job' = [job EXCEPT ![l].monitor = "post"] /\ UNCHANGED <<status, faults>>
             /\ ~IsActiveStatus(scan(l))
    <3> DEFINE J == [job[l] EXCEPT !.monitor = "post"]
    <3>1. job' = [job EXCEPT ![l] = J]
      BY <2>3
    <3>2. /\ J \in JobType /\ J.monitor = "post"
          /\ J.scan = job[l].scan /\ J.late = job[l].late /\ J.start = job[l].start
          /\ J.aborted = job[l].aborted
      BY <1>2 DEF JobType
    <3> HIDE DEF J
    <3>3. QED
      BY <2>3, <3>1, <3>2
  <2>4. QED
    <3>1. CASE MonitorFind(l)
      <4>1. \/ /\ job' = CASE IsActiveStatus(scan(l)) -> [job EXCEPT ![l].monitor = "fail"]
                           [] status[scan(l)] = "completed" -> [job EXCEPT ![l].monitor = "post"]
                           [] OTHER -> MonitorDone(l)
               /\ UNCHANGED <<status, faults>>
            \/ job' = MonitorDone(l) /\ Fault
        BY <3>1 DEF MonitorFind
      <4>2. CASE job' = MonitorDone(l) /\ Fault
        <5>1. faults' # faults
          BY <4>2 DEF Fault, SupInv, Typed
        <5>2. QED
          BY <2>1, <4>2, <5>1
      <4>3. CASE /\ job' = CASE IsActiveStatus(scan(l)) -> [job EXCEPT ![l].monitor = "fail"]
                           [] status[scan(l)] = "completed" -> [job EXCEPT ![l].monitor = "post"]
                           [] OTHER -> MonitorDone(l)
                 /\ UNCHANGED <<status, faults>>
        <5>1. CASE IsActiveStatus(scan(l))
          <6>1. status[scan(l)] # "completed"
            BY <5>1 DEF IsActiveStatus, Active
          <6>2. QED
            BY <2>2, <4>3, <5>1, <6>1
        <5>2. CASE ~IsActiveStatus(scan(l)) /\ status[scan(l)] = "completed"
          BY <2>3, <4>3, <5>2
        <5>3. CASE ~IsActiveStatus(scan(l)) /\ status[scan(l)] # "completed"
          BY <2>1, <4>3, <5>3
        <5>4. QED
          BY <5>1, <5>2, <5>3
      <4>4. QED
        BY <4>1, <4>2, <4>3
    <3>2. CASE MonitorFail(l) \/ MonitorPost(l)
      <4>1. job' = MonitorDone(l) /\ job[l].monitor # "find"
        BY <3>2 DEF MonitorFail, MonitorPost
      <4>2. QED
        BY <2>1, <4>1 DEF MonitorFind
    <3>3. QED
      BY <3>1, <3>2
<1>4. /\ status' \in [Scans -> Statuses] /\ Forward
      /\ faults' \in 0..MaxFaults /\ (faults > 0 => faults' > 0)
  BY <1>2, <1>3, VerdictOrFault, NoVerdict DEF SupInv, Typed
<1>5. Gate' /\ (\A m \in Launches : SameLease(m)) /\ req'[l] = req[l]
  BY <1>1 DEF SupInv, Gate, SameLease, capVars
<1>6. shut' \in ShutType /\ shut'.pc = shut.pc /\ shut'.scans = shut.scans /\ JobsReaped
  BY <1>1, ShutdownRests
<1>7. PICK J \in JobType :
        /\ job' = [job EXCEPT ![l] = J] /\ J.monitor \in {"fail", "post", "done"}
        /\ J.scan = job[l].scan /\ J.late = job[l].late /\ J.start = job[l].start
        /\ J.aborted = job[l].aborted
        /\ \/ job[l].monitor = "post" /\ UNCHANGED <<status, faults>>
           \/ J.monitor = "fail" /\ UNCHANGED <<status, faults>>
           \/ ~IsActiveStatus(scan(l)) /\ UNCHANGED <<status, faults>>
           \/ updateScanRunStatus(scan(l), "failed") /\ UNCHANGED faults
           \/ Fault /\ UNCHANGED status
  BY <1>3
<1>8. \/ job[l].monitor \in {"find", "fail"} => J.monitor \in {"find", "fail"}
      \/ ~IsActiveStatus(scan(l))' \/ faults' > 0
  <2>1. scan(l)' = scan(l)
    BY <1>2, <1>7, Entry DEF scan
  <2>2. \A s \in Scans : s = scan(l) /\ ~IsActiveStatus(s)' => ~IsActiveStatus(scan(l))'
    BY <2>1 DEF IsActiveStatus
  <2>3. CASE \/ updateScanRunStatus(scan(l), "failed") /\ UNCHANGED faults
             \/ Fault /\ UNCHANGED status
    <3>1. \A s \in Scans : s = scan(l) => ~IsActiveStatus(s)' \/ faults' > 0
      BY <1>2, <2>3, VerdictOrFault DEF SupInv
    <3>2. QED
      BY <1>2, <2>2, <3>1
  <2>4. CASE ~IsActiveStatus(scan(l)) /\ UNCHANGED <<status, faults>>
    BY <2>1, <2>4 DEF IsActiveStatus
  <2>5. QED
    BY <1>1, <1>7, <2>3, <2>4
<1>9. /\ UNCHANGED owned /\ req'[l] = req[l]
      /\ J.monitor \in {"watch", "erring"} <=> job[l].monitor \in {"watch", "erring"}
  BY <1>1, <1>5, <1>7
<1>10. /\ proc' \in [Launches -> ProcType] /\ (LetGo(l) => LetGo(l)')
       /\ \A x \in Launches : proc'[x].state = proc[x].state
       /\ \A x \in Launches \ {l} : proc'[x] = proc[x]
  BY <1>1, <1>2 DEF LetGo, Live
<1>11. job[l].monitor # "idle" /\ J.monitor # "idle"
  BY <1>1, <1>7
<1>12. QED
  BY <1>1, <1>4, <1>5, <1>6, <1>7, <1>8, <1>9, <1>10, <1>11, MonitorInv

-----------------------------------------------------------------------------
(* cancel *)

\* A step of a cancel that takes no launch out of the maps.
LEMMA CancelStepInv ==
  ASSUME SupInv, NEW c \in Cancellers, NEW s \in Scans, NEW v \in CancelType,
         cancel' = [cancel EXCEPT ![c][s] = v],
         UNCHANGED <<meta, call, pending, owned, shut, server, capVars>>,
         status' \in [Scans -> Statuses], Forward,
         faults' \in 0..MaxFaults, faults > 0 => faults' > 0,
         job' \in [Launches -> JobType], proc' \in [Launches -> ProcType],
         \A m \in Launches : SameJob(m) /\ SameChild(m) /\ proc'[m].state = proc[m].state,
         status[s] # "none", v.pc # "idle",
         v.pc = "decide" /\ ~v.seen => ~IsActiveStatus(s)',
         v.pc \in {"mark", "kill"} => v.of # None,
         c = "shutdown" => cancel[c][s].pc \notin {"idle", "done"},
         cancel[c][s].pc = "persist" => v.pc = "persist" \/ ~IsActiveStatus(s)' \/ faults' > 0,
         c = "shutdown" /\ shut.pc = "cancel" /\ owned[s] # None /\ owned[s] \in shut.jobs =>
           /\ v.pc = "mark" => Settling(s) \/ (v.seen /\ v.owns)
           /\ v.pc \in {"kill", "done"} => Settling(s) \/ ~IsActiveStatus(s)' \/ faults' > 0
  PROVE  SupInv'
<1>1. cancel \in [Cancellers -> [Scans -> CancelType]]
  BY DEF SupInv, Typed
<1>2. /\ cancel' \in [Cancellers -> [Scans -> CancelType]] /\ cancel'[c][s] = v
      /\ \A d \in Cancellers, x \in Scans : <<d, x>> # <<c, s>> => cancel'[d][x] = cancel[d][x]
  BY <1>1, Entry2
<1>3. Typed' /\ Gate'
  BY <1>2 DEF SupInv, Typed, Gate, capVars
<1>4. Quiet
  <2>1. \A m \in Launches : SameJob(m) /\ SameLease(m) /\ SameChild(m)
    BY DEF SameLease, capVars
  <2>2. \A k \in Callers, x \in Scans : call'[k][x] # "idle" => status[x] # "none"
    BY DEF SupInv, Rows
  <2>3. QED
    BY <2>1, <2>2 DEF Quiet, JobsReaped
<1>5. KeepersStay
  <2>1. \A d \in Cancellers, x \in Scans :
          IsActiveStatus(x)' /\ ~(faults' > 0) /\ cancel[d][x].pc = "persist" =>
            cancel'[d][x].pc = "persist"
    BY <1>2
  <2>2. QED
    BY <2>1 DEF KeepersStay
<1>6. SettlingKept
  BY <1>4, <1>5, SettlingStays DEF Quiet, KeepersStay
<1>7. CancelsOn
  <2>1. \A d \in Cancellers, x \in Scans :
          /\ cancel'[d][x].pc # "idle" => status[x] # "none"
          /\ cancel'[d][x].pc = "decide" /\ ~cancel'[d][x].seen =>
               (cancel[d][x].pc = "decide" /\ ~cancel[d][x].seen) \/ ~IsActiveStatus(x)'
          /\ cancel'[d][x].pc \in {"mark", "kill"} => cancel'[d][x].of # None
    BY <1>2 DEF SupInv, Rows, Cancels
  <2>2. shut'.pc \in {"idle", "pending"} =>
          \A x \in Scans : cancel'["shutdown"][x].pc \in {"idle", "done"}
    BY <1>2 DEF SupInv, Cancels, Cancellers
  <2>3. ASSUME NEW x \in Scans, shut.pc = "cancel", owned[x] # None, owned[x] \in shut.jobs
        PROVE  ShutdownCancels(x)'
    <3>1. status[x] # "none" /\ ShutdownCancels(x)
      BY <2>3, Created DEF SupInv, Stopping
    <3>2. CASE c = "shutdown" /\ x = s
      <4>1. Settling(s) \/ ~IsActiveStatus(s)' \/ faults' > 0 => Settling(s)'
        BY <1>6 DEF SettlingKept, Settling
      <4>2. QED
        BY <1>2, <2>3, <3>2, <4>1 DEF ShutdownCancels
    <3>3. CASE ~(c = "shutdown" /\ x = s)
      <4>1. cancel'["shutdown"][x] = cancel["shutdown"][x]
        BY <1>2, <3>3 DEF Cancellers
      <4>2. QED
        BY <1>6, <3>1, <4>1 DEF ShutdownCancels, SettlingKept
    <3>4. QED
      BY <3>2, <3>3
  <2>4. QED
    BY <2>1, <2>2, <2>3 DEF CancelsOn, CancelRows, Cancels
<1>8. OneExecutor'
  BY ExecutorKept DEF SupInv, SameJob
<1>9. QED
  BY <1>3, <1>4, <1>5, <1>7, <1>8, QuietInv DEF JobsReaped

\* What every step of a cancel finds.
LEMMA CancelFacts ==
  ASSUME SupInv, NEW c \in Cancellers, NEW s \in Scans, cancel[c][s].pc # "idle"
  PROVE  /\ cancel[c][s] \in CancelType /\ status[s] # "none"
         /\ job \in [Launches -> JobType] /\ proc \in [Launches -> ProcType]
         /\ status \in [Scans -> Statuses] /\ faults \in 0..MaxFaults
         /\ cancel[c][s].of # None => cancel[c][s].of \in Launches
BY DEF SupInv, Typed, Rows, CancelType

\* Nothing happens to the launches.
LEMMA LaunchesRest ==
  ASSUME UNCHANGED <<job, proc>>
  PROVE  \A m \in Launches : SameJob(m) /\ SameChild(m) /\ proc'[m].state = proc[m].state
BY DEF SameJob, SameChild, LetGo, Live

\* The steps that only read.
LEMMA CancelReadsInv ==
  ASSUME SupInv, NEW c \in Cancellers, NEW s \in Scans,
         \/ CancelRequest(s) \/ CancelFind(c, s) \/ CancelOwned(c, s) \/ CancelUnknown(c, s)
  PROVE  SupInv'
<1>1. /\ UNCHANGED <<status, faults, pending, job, proc, meta, call, owned, shut, server, capVars>>
      /\ Forward
  BY NoVerdict DEF CancelRequest, CancelFind, CancelOwned, CancelUnknown,
     cancelUnchanged
<1>2. /\ \A m \in Launches : SameJob(m) /\ SameChild(m) /\ proc'[m].state = proc[m].state
      /\ job' \in [Launches -> JobType] /\ proc' \in [Launches -> ProcType]
      /\ status' \in [Scans -> Statuses] /\ faults' \in 0..MaxFaults
  BY <1>1, LaunchesRest DEF SupInv, Typed
<1>3. \A d \in Cancellers : cancel[d][s] \in CancelType
  BY DEF SupInv, Typed
<1>4. IsActiveStatus(s) \in BOOLEAN /\ (IsActiveStatus(s)' <=> IsActiveStatus(s))
  BY <1>1 DEF IsActiveStatus
<1>5. CASE CancelRequest(s)
  <2> DEFINE v == [cancel["user"][s] EXCEPT !.pc = "find"]
  <2>1. cancel' = [cancel EXCEPT !["user"][s] = v] /\ status[s] # "none" /\ cancel["user"][s].pc = "idle"
    BY <1>5 DEF CancelRequest
  <2>2. v \in CancelType /\ v.pc = "find" /\ "user" \in Cancellers
    BY <1>3 DEF CancelType, Cancellers
  <2> HIDE DEF v
  <2>3. QED
    BY <1>1, <1>2, <2>1, <2>2, CancelStepInv
<1>6. CASE CancelFind(c, s)
  <2> DEFINE v == [cancel[c][s] EXCEPT !.pc = "decide", !.seen = IsActiveStatus(s)]
  <2>1. cancel' = [cancel EXCEPT ![c][s] = v] /\ cancel[c][s].pc = "find"
    BY <1>6, Zenon DEF CancelFind
  <2>2. v \in CancelType /\ v.pc = "decide" /\ (v.seen <=> IsActiveStatus(s))
    BY <1>3, <1>4 DEF CancelType
  <2> HIDE DEF v
  <2>3. status[s] # "none"
    BY <2>1, CancelFacts
  <2>4. QED
    BY <1>1, <1>2, <1>4, <2>1, <2>2, <2>3, CancelStepInv
<1>7. CASE CancelOwned(c, s)
  <2> DEFINE v == [cancel[c][s] EXCEPT !.pc = "mark", !.of = owned[s], !.seen = IsActiveStatus(s),
                                       !.owns = (meta[s].token = owned[s])]
  <2>1. /\ cancel' = [cancel EXCEPT ![c][s] = v] /\ cancel[c][s].pc = "decide"
        /\ owned[s] # None /\ owned[s] \in Launches \cup {None}
    BY ZenonT(60), <1>7 DEF CancelOwned, SupInv, Typed
  <2>2. (meta[s].token = owned[s]) \in BOOLEAN
    OBVIOUS
  <2>3. /\ v \in CancelType /\ v.pc = "mark" /\ v.of = owned[s]
        /\ v.seen <=> IsActiveStatus(s)
        /\ v.owns <=> meta[s].token = owned[s]
    BY <1>3, <1>4, <2>1, <2>2 DEF CancelType
  <2> HIDE DEF v
  <2>4. status[s] # "none"
    BY <2>1, CancelFacts
  <2>5. Settling(s) \/ (v.seen /\ v.owns)
    BY <2>1, <2>3 DEF SupInv, Tokens, Settling
  <2>6. QED
    BY <1>1, <1>2, <2>1, <2>3, <2>4, <2>5, CancelStepInv
<1>8. CASE CancelUnknown(c, s)
  <2>1. cancel[c][s].pc = "decide" /\ owned[s] = None /\ status[s] # "none"
    BY <1>8, CancelFacts DEF CancelUnknown
  <2>2. PICK a \in {"process_not_owned", "scan_not_active"} :
          cancel' = [cancel EXCEPT ![c][s] = [NoCancel EXCEPT !.pc = "done", !.answer = a]]
    BY <1>8 DEF CancelUnknown, Answered
  <2> DEFINE v == [NoCancel EXCEPT !.pc = "done", !.answer = a]
  <2>3. v \in CancelType /\ v.pc = "done"
    BY DEF CancelType, NoCancel
  <2>4. cancel' = [cancel EXCEPT ![c][s] = v]
    BY <2>2
  <2> HIDE DEF v
  <2>5. QED
    BY <1>1, <1>2, <2>1, <2>3, <2>4, CancelStepInv
<1>9. QED
  BY <1>5, <1>6, <1>7, <1>8

\* The cancel of an owned process marks it, persists, and signals the child.
LEMMA CancelOwnedInv ==
  ASSUME SupInv, NEW c \in Cancellers, NEW s \in Scans,
         \/ CancelMark(c, s) \/ CancelPersist(c, s) \/ CancelKill(c, s)
  PROVE  SupInv'
<1>1. /\ UNCHANGED <<pending, meta, call, owned, shut, server, capVars>>
      /\ cancel[c][s].pc \in {"mark", "persist", "kill"}
  BY DEF CancelMark, CancelPersist, CancelKill, cancelUnchanged
<1>2. /\ cancel[c][s] \in CancelType /\ status[s] # "none" /\ Typed
      /\ job \in [Launches -> JobType] /\ proc \in [Launches -> ProcType]
      /\ status \in [Scans -> Statuses] /\ faults \in 0..MaxFaults
      /\ cancel[c][s].of # None => cancel[c][s].of \in Launches
      /\ cancel[c][s].pc \in {"mark", "kill"} => cancel[c][s].of # None
  BY <1>1, CancelFacts DEF SupInv, Cancels
<1>3. c = "shutdown" /\ shut.pc = "cancel" /\ owned[s] # None /\ owned[s] \in shut.jobs =>
        /\ cancel[c][s].pc = "mark" => Settling(s) \/ (cancel[c][s].seen /\ cancel[c][s].owns)
        /\ cancel[c][s].pc = "kill" => Settling(s)
  BY DEF SupInv, Stopping, ShutdownCancels
<1>4. CASE CancelMark(c, s)
  <2>0. PICK l \in Launches : l = cancel[c][s].of
    BY <1>2, <1>4 DEF CancelMark
  <2> DEFINE J == [job[l] EXCEPT !.cancelling = TRUE]
             w == IF cancel[c][s].seen /\ cancel[c][s].owns THEN "persist" ELSE "kill"
             v == [cancel[c][s] EXCEPT !.pc = w]
  <2>1. /\ cancel' = [cancel EXCEPT ![c][s] = v] /\ cancel[c][s].pc = "mark"
        /\ job' = [job EXCEPT ![l] = J] /\ UNCHANGED <<status, proc, faults>>
    BY <1>4, <2>0, Zenon DEF CancelMark
  <2>2. /\ J \in JobType /\ J.scan = job[l].scan /\ J.start = job[l].start
        /\ J.aborted = job[l].aborted /\ J.seen = job[l].seen
        /\ J.monitor = job[l].monitor /\ J.late = job[l].late
    BY ZenonT(60), <1>2, <2>1 DEF JobType
  <2>3. w \in {"persist", "kill"} /\ (w = "kill" => ~(cancel[c][s].seen /\ cancel[c][s].owns))
    OBVIOUS
  <2> HIDE DEF w
  <2>4. v \in CancelType /\ v.pc = w /\ v.of = l
    BY <1>2, <2>0, <2>3 DEF CancelType
  <2> HIDE DEF J, v
  <2>5. job' \in [Launches -> JobType] /\ job'[l] = J /\ \A m \in Launches \ {l} : job'[m] = job[m]
    BY <1>2, <2>1, <2>2, Entry
  <2>6. \A m \in Launches : SameJob(m) /\ SameChild(m) /\ proc'[m].state = proc[m].state
    BY <2>1, <2>2, <2>5 DEF SameJob, SameChild, LetGo, Live
  <2>7. proc' \in [Launches -> ProcType] /\ status' \in [Scans -> Statuses] /\ faults' \in 0..MaxFaults
    BY <1>2, <2>1
  <2>8. v.pc \in {"persist", "kill"} /\ v.of # None
    BY <2>1, <2>3, <2>4, NoneIsNoLaunch
  <2>9. c = "shutdown" /\ shut.pc = "cancel" /\ owned[s] # None /\ owned[s] \in shut.jobs =>
          (v.pc \in {"kill", "done"} => Settling(s))
    BY <1>3, <2>1, <2>3, <2>4
  <2>10. QED
    BY <1>1, <1>2, <2>1, <2>4, <2>5, <2>6, <2>7, <2>8, <2>9, NoVerdict, CancelStepInv
<1>5. CASE CancelPersist(c, s)
  <2>1. /\ \/ updateScanRunStatus(s, "cancelled") /\ UNCHANGED faults
           \/ Fault /\ UNCHANGED status
        /\ UNCHANGED <<job, proc>> /\ cancel[c][s].pc = "persist"
    BY <1>5 DEF CancelPersist, persistCancellation
  <2>2. /\ status' \in [Scans -> Statuses] /\ Forward
        /\ faults' \in 0..MaxFaults /\ (faults > 0 => faults' > 0)
        /\ ~IsActiveStatus(s)' \/ faults' > 0
    BY <2>1, VerdictOrFault DEF SupInv
  <2>3. \E v \in CancelType :
          /\ cancel' = [cancel EXCEPT ![c][s] = v] /\ v.pc \in {"kill", "done"}
          /\ v.pc = "kill" => v.of # None
    <3>1. CASE cancel[c][s].of # None
      <4>1. \E a \in {cancel[c][s].answer, "error"} :
               cancel' = [cancel EXCEPT ![c][s] = [cancel[c][s] EXCEPT !.pc = "kill", !.answer = a]]
        <5>1. CASE cancel' = [cancel EXCEPT ![c][s].pc = "kill"]
          <6>1. [cancel[c][s] EXCEPT !.pc = "kill"] =
                [cancel[c][s] EXCEPT !.pc = "kill", !.answer = cancel[c][s].answer]
            BY <1>2 DEF CancelType
          <6>2. QED
            BY <5>1, <6>1
        <5>2. CASE cancel' = [cancel EXCEPT ![c][s].pc = "kill", ![c][s].answer = "error"]
          BY <5>2
        <5>3. QED
          BY <1>5, <3>1, <5>1, <5>2 DEF CancelPersist
      <4>2. PICK a \in {cancel[c][s].answer, "error"} :
               cancel' = [cancel EXCEPT ![c][s] = [cancel[c][s] EXCEPT !.pc = "kill", !.answer = a]]
        BY <4>1
      <4> DEFINE v == [cancel[c][s] EXCEPT !.pc = "kill", !.answer = a]
      <4>3. v \in CancelType /\ v.pc = "kill" /\ v.of = cancel[c][s].of
        BY <1>2 DEF CancelType
      <4>4. cancel' = [cancel EXCEPT ![c][s] = v]
        BY <4>2
      <4> HIDE DEF v
      <4>5. QED
        BY <3>1, <4>3, <4>4
    <3>2. CASE cancel[c][s].of = None
      <4>1. PICK a \in {"cancelled", "error"} :
              cancel' = [cancel EXCEPT ![c][s] = [NoCancel EXCEPT !.pc = "done", !.answer = a]]
        BY <1>5, <3>2 DEF CancelPersist, Answered
      <4> DEFINE v == [NoCancel EXCEPT !.pc = "done", !.answer = a]
      <4>2. v \in CancelType /\ v.pc = "done"
        BY DEF CancelType, NoCancel
      <4>3. cancel' = [cancel EXCEPT ![c][s] = v]
        BY <4>1
      <4> HIDE DEF v
      <4>4. QED
        BY <4>2, <4>3
    <3>3. QED
      BY <3>1, <3>2
  <2>4. /\ job' \in [Launches -> JobType] /\ proc' \in [Launches -> ProcType]
        /\ \A m \in Launches : SameJob(m) /\ SameChild(m) /\ proc'[m].state = proc[m].state
    BY <1>2, <2>1, LaunchesRest
  <2>5. PICK v \in CancelType :
          /\ cancel' = [cancel EXCEPT ![c][s] = v] /\ v.pc \in {"kill", "done"}
          /\ v.pc = "kill" => v.of # None
    BY <2>3
  <2>6. QED
    BY <1>1, <1>2, <2>1, <2>2, <2>4, <2>5, CancelStepInv
<1>6. CASE CancelKill(c, s)
  <2>0. PICK l \in Launches : l = cancel[c][s].of
    BY <1>2, <1>6 DEF CancelKill
  <2> DEFINE J == [job[l] EXCEPT !.killTimer = Live(l)]
  <2>1. /\ cancel[c][s].pc = "kill" /\ proc' = Signalled(l, "term")
        /\ job' = [job EXCEPT ![l] = J] /\ UNCHANGED <<status, faults>>
    BY <1>6, <2>0, Zenon DEF CancelKill
  <2>2. PICK a \in {"error", "process_not_owned", "cancelled"} :
          cancel' = [cancel EXCEPT ![c][s] = [NoCancel EXCEPT !.pc = "done", !.answer = a]]
    BY <1>6 DEF CancelKill, Answered
  <2> DEFINE v == [NoCancel EXCEPT !.pc = "done", !.answer = a]
  <2>3. v \in CancelType /\ v.pc = "done"
    BY DEF CancelType, NoCancel
  <2>4. cancel' = [cancel EXCEPT ![c][s] = v]
    BY <2>2
  <2>5. Live(l) \in BOOLEAN
    BY DEF Live
  <2>6. /\ J \in JobType /\ J.scan = job[l].scan /\ J.start = job[l].start
        /\ J.aborted = job[l].aborted /\ J.seen = job[l].seen
        /\ J.monitor = job[l].monitor /\ J.late = job[l].late
    BY <1>2, <2>1, <2>5 DEF JobType
  <2> HIDE DEF J, v
  <2>7. job' \in [Launches -> JobType] /\ \A m \in Launches : SameJob(m)
    BY <1>2, <2>1, <2>6, Entry DEF SameJob
  <2>8. /\ proc' \in [Launches -> ProcType]
        /\ \A m \in Launches : SameChild(m) /\ proc'[m].state = proc[m].state
    BY <1>2, <2>1, Signals, SignalledChildren
  <2>9. status' \in [Scans -> Statuses] /\ faults' \in 0..MaxFaults /\ Forward
    BY <1>2, <2>1, NoVerdict
  <2>10. QED
    BY <1>1, <1>2, <1>3, <2>1, <2>3, <2>4, <2>7, <2>8, <2>9, CancelStepInv
<1>7. QED
  BY <1>4, <1>5, <1>6

\* The cancel of a scan that has no child yet takes its launch out of the map:
\* either the cancellation is about to be written or there is a verdict.
LEMMA CancelPendingInv ==
  ASSUME SupInv, NEW c \in Cancellers, NEW s \in Scans, CancelPending(c, s)
  PROVE  SupInv'
<1>0. PICK l \in Launches : l = pending[s]
  BY DEF CancelPending, SupInv, Typed
<1> DEFINE J == [job[l] EXCEPT !.aborted = TRUE]
           v == IF cancel[c][s].seen THEN [cancel[c][s] EXCEPT !.pc = "persist"]
                ELSE [NoCancel EXCEPT !.pc = "done", !.answer = "cancelled"]
<1>1. /\ cancel[c][s].pc = "decide"
      /\ job' = [job EXCEPT ![l] = J] /\ pending' = [pending EXCEPT ![s] = None]
      /\ cancel' = [cancel EXCEPT ![c][s] = v]
      /\ IF req[l] = "waiting" THEN Cap!Abort(l) ELSE UNCHANGED capVars
      /\ UNCHANGED <<status, proc, faults, meta, call, owned, shut, server>>
  BY <1>0, Zenon DEF CancelPending, cancelUnchanged, Answered
<1>2. /\ cancel[c][s] \in CancelType /\ status[s] # "none" /\ Typed
      /\ job \in [Launches -> JobType] /\ pending \in [Scans -> Launches \cup {None}]
      /\ cancel \in [Cancellers -> [Scans -> CancelType]]
  BY <1>1, CancelFacts DEF SupInv, Typed
<1>3. /\ J \in JobType /\ J.scan = job[l].scan /\ J.start = job[l].start
      /\ J.aborted /\ J.seen = job[l].seen
      /\ J.monitor = job[l].monitor /\ J.late = job[l].late
  BY ZenonT(60), <1>1, <1>2 DEF JobType
<1>4. v \in CancelType /\ v.pc = IF cancel[c][s].seen THEN "persist" ELSE "done"
  BY <1>2 DEF CancelType, NoCancel
<1>5. /\ scan(l) = s /\ job[l].scan = s /\ owned[s] = None
      /\ job[l].start \in Starting /\ ~job[l].aborted
  BY <1>0, NoneIsNoLaunch DEF SupInv, Maps, scan
<1> HIDE DEF J, v
<1>6. job' \in [Launches -> JobType] /\ job'[l] = J /\ \A m \in Launches \ {l} : job'[m] = job[m]
  BY <1>1, <1>2, <1>3, Entry
<1>7. /\ pending' \in [Scans -> Launches \cup {None}] /\ pending'[s] = None
      /\ \A x \in Scans \ {s} : pending'[x] = pending[x]
  BY <1>1, <1>2, Entry
<1>8. /\ cancel' \in [Cancellers -> [Scans -> CancelType]] /\ cancel'[c][s] = v
      /\ \A d \in Cancellers, x \in Scans : <<d, x>> # <<c, s>> => cancel'[d][x] = cancel[d][x]
  BY <1>1, <1>2, <1>4, Entry2
<1>9. /\ Gate' /\ \A m \in Launches \ {l} : SameLease(m)
      /\ req'[l] = req[l] \/ (req[l] = "waiting" /\ req'[l] = "aborted")
  <2>1. CASE req[l] = "waiting"
    BY <1>1, <2>1, GateAbort DEF SupInv, Requests, OthersAtGate, SameLease
  <2>2. CASE req[l] # "waiting"
    BY <1>1, <2>2 DEF SupInv, Gate, capVars, SameLease
  <2>3. QED
    BY <2>1, <2>2
<1>10. Typed'
  BY <1>1, <1>6, <1>7, <1>8 DEF SupInv, Typed
<1>11. \A m \in Launches : job'[m].scan = job[m].scan /\ job'[m].start = job[m].start
         /\ job'[m].seen = job[m].seen /\ job'[m].monitor = job[m].monitor /\ job'[m].late = job[m].late
         /\ (job[m].aborted => job'[m].aborted)
  BY <1>3, <1>6
<1>12. Stages'
  <2>1. ASSUME NEW m \in Launches, m # l
        PROVE  Stage(m)'
    BY <1>1, <1>6, <1>9, <2>1, StageKept DEF SupInv, Stages, SameJob, SameChild, LetGo,
       Live
  <2>2. Stage(l)'
    <3>1. Stage(l)
      BY <1>1 DEF SupInv, Stages
    <3>2. QED
      BY <1>1, <1>3, <1>5, <1>6, <1>9, <3>1, NoneIsNoLaunch DEF Stage, Starting
  <2>3. QED
    BY <2>1, <2>2 DEF Stages
<1>13. Maps'
  <2>1. \A x \in Scans : pending[x] \in Launches \cup {None} /\ owned[x] \in Launches \cup {None}
    BY DEF SupInv, Typed
  <2>2. ASSUME NEW x \in Scans, pending'[x] # None
        PROVE  /\ job'[pending'[x]].scan = x /\ owned'[x] = None
               /\ job'[pending'[x]].start \in Starting /\ ~job'[pending'[x]].aborted
    <3>1. x # s /\ pending'[x] = pending[x]
      BY <1>7, <2>2
    <3>2. pending[x] \in Launches \ {l}
      BY <1>5, <2>1, <2>2, <3>1 DEF SupInv, Maps, scan
    <3>3. QED
      BY <1>1, <1>6, <2>2, <3>1, <3>2 DEF SupInv, Maps, scan
  <2>3. ASSUME NEW m \in Launches, job'[m].start \in Starting, ~job'[m].aborted
        PROVE  pending'[scan(m)'] = m
    <3>1. m # l /\ scan(m)' = scan(m) /\ job[m].start \in Starting /\ ~job[m].aborted
      BY <1>3, <1>6, <2>3 DEF scan
    <3>2. scan(m) \in Scans /\ pending[scan(m)] = m
      BY <3>1, StartingLaunch
    <3>3. scan(m) # s
      BY <1>0, <3>1, <3>2
    <3>4. QED
      BY <1>7, <3>1, <3>2, <3>3
  <2>4. ASSUME NEW x \in Scans, owned'[x] # None
        PROVE  /\ job'[owned'[x]].scan = x /\ req'[owned'[x]] = "held"
               /\ job'[owned'[x]].monitor \in {"watch", "erring"}
    <3>1. owned'[x] = owned[x] /\ owned[x] \in Launches /\ x # s
      BY <1>1, <1>5, <2>1, <2>4
    <3>2. /\ job[owned[x]].scan = x /\ req[owned[x]] = "held"
          /\ job[owned[x]].monitor \in {"watch", "erring"}
      BY <2>4, <3>1 DEF SupInv, Maps, scan
    <3>3. owned[x] # l
      BY <1>5, <3>1, <3>2
    <3>4. QED
      BY <1>9, <1>11, <3>1, <3>2, <3>3 DEF SameLease
  <2>5. QED
    BY <2>2, <2>3, <2>4 DEF Maps, scan
<1>14. Forward /\ faults' = faults
  BY <1>1, NoVerdict
<1>15. Rows'
  <2>1. \A m \in Launches : job[m].scan \in Scans \cup {None}
    BY <1>2 DEF JobType
  <2>2. shut'.scans \subseteq Scans /\ shut'.scans = shut.scans
    BY <1>1 DEF SupInv, Typed, ShutType
  <2>3. \A x \in Scans : \A d \in Cancellers :
                /\ cancel'[d][x].pc # "idle" => cancel[d][x].pc # "idle" \/ status[x] # "none"
                /\ cancel'[d][x].pc = "decide" /\ ~cancel'[d][x].seen =>
                     cancel[d][x].pc = "decide" /\ ~cancel[d][x].seen
    BY <1>2, <1>4, <1>8
  <2>4. QED
    BY <1>1, <1>11, <1>14, <2>1, <2>2, <2>3, RowsKept DEF SupInv
<1>16. SettlingKept
  <2>1. \A d \in Cancellers, x \in Scans : cancel[d][x].pc = "persist" => cancel'[d][x].pc = "persist"
    BY <1>1, <1>8
  <2>2. QED
    BY <1>1, <1>14, <2>1, SettlingStays
<1>17. Settling(s)'
  <2>1. CASE cancel[c][s].seen
    BY <1>4, <1>8, <2>1 DEF Settling
  <2>2. CASE ~cancel[c][s].seen
    BY <1>1, <2>2 DEF SupInv, Rows, Settling, IsActiveStatus
  <2>3. QED
    BY <2>1, <2>2
<1>18. Aborts'
  <2>1. \A m \in Launches : job[m].start \in Starting => scan(m) \in Scans
    BY StartingLaunch
  <2>2. scan(l)' = s
    BY <1>3, <1>5, <1>6 DEF scan
  <2>3. Settling(scan(l))'
    BY <1>17, <2>2 DEF Settling, IsActiveStatus
  <2>4. QED
    BY <1>6, <1>16, <2>1, <2>3, AbortsKept DEF SupInv
<1>19. Tokens'
  <2>1. \A x \in Scans : pending'[x] # None =>
          pending'[x] = pending[x] /\ job'[pending'[x]].start = job[pending[x]].start
    BY <1>2, <1>7, <1>11
  <2>2. QED
    BY <1>1, <1>16, <2>1, TokensKept DEF SupInv
<1>20. Stopping'
  <2>1. \A x \in Scans : shut.pc = "cancel" /\ owned[x] # None /\ owned[x] \in shut.jobs =>
          ShutdownCancels(x)'
    <3> SUFFICES ASSUME NEW x \in Scans, shut.pc = "cancel", owned[x] # None, owned[x] \in shut.jobs
                 PROVE  ShutdownCancels(x)'
      OBVIOUS
    <3>1. cancel'["shutdown"][x] = cancel["shutdown"][x]
      BY <1>5, <1>8 DEF Cancellers
    <3>2. status[x] # "none" /\ ShutdownCancels(x)
      BY Created DEF SupInv, Stopping
    <3>3. QED
      BY <1>16, <3>1, <3>2 DEF ShutdownCancels, SettlingKept
  <2>2. \A m \in Launches : LetGo(m) => LetGo(m)'
    BY <1>1 DEF LetGo, Live
  <2>3. QED
    BY <1>1, <1>11, <1>16, <2>1, <2>2, StoppingKept DEF SupInv, JobsReaped
<1>21. Runtimes' /\ NoScanOfEarlierRuntime'
  BY <1>1, <1>14, RuntimesKept DEF SupInv
<1>22. OneExecutor'
  BY <1>1, <1>11, ExecutorKept DEF SupInv
<1>23. Cancels'
  <2>1. shut.pc \in {"idle", "pending"} =>
          \A x \in Scans : cancel'["shutdown"][x].pc \in {"idle", "done"}
    BY <1>1, <1>8 DEF SupInv, Cancels, Cancellers
  <2>2. \A d \in Cancellers, x \in Scans :
          cancel'[d][x].pc \in {"mark", "kill"} => cancel'[d][x].of # None
    BY <1>4, <1>8 DEF SupInv, Cancels
  <2>3. QED
    BY <1>1, <2>1, <2>2 DEF Cancels
<1>24. ActiveScanHasKeeper'
  <2>1. ASSUME NEW x \in Scans, IsActiveStatus(x)', faults' = 0, Keeper(x)
        PROVE  Keeper(x)'
    <3>1. CASE x = s
      BY <1>17, <2>1, <3>1 DEF Settling, Keeper
    <3>2. CASE x # s
      BY <1>1, <1>7, <1>8, <1>11, <2>1, <3>2 DEF Keeper, scan
    <3>3. QED
      BY <3>1, <3>2
  <2>2. Alive' = Alive
    BY <1>1 DEF Alive
  <2>3. QED
    BY <1>14, <2>1, <2>2, KeeperKept DEF Forward, SupInv
<1>25. QED
  BY <1>9, <1>10, <1>12, <1>13, <1>15, <1>18, <1>19, <1>20, <1>21, <1>22, <1>23,
     <1>24 DEF SupInv

-----------------------------------------------------------------------------
(* A scan is created, launched and claimed *)

\* The route inserts the row.
LEMMA CreateInv ==
  ASSUME SupInv, NEW s \in Scans, CreateScan(s)
  PROVE  SupInv'
<1> DEFINE M == [meta[s] EXCEPT !.born = server.runtime]
<1>1. /\ server.state = "up" /\ status[s] = "none"
      /\ status' = [status EXCEPT ![s] = "queued"]
      /\ meta' = [meta EXCEPT ![s] = M]
      /\ call' = [call EXCEPT !["route"][s] = "launch"]
      /\ UNCHANGED <<pending, owned, job, proc, cancel, shut, server, faults, capVars>>
  BY DEF CreateScan
<1>2. /\ status \in [Scans -> Statuses] /\ meta \in [Scans -> MetaType] /\ Typed
      /\ call \in [Callers -> [Scans -> CallStates]] /\ server.runtime \in 1..MaxIncarnations
      /\ "queued" \in Statuses /\ "launch" \in CallStates /\ "route" \in Callers
  BY DEF SupInv, Typed, ServerType, Statuses, Active, CallStates, Callers
<1>3. /\ M \in MetaType /\ M.born = server.runtime /\ M.token = meta[s].token
      /\ M.runtime = meta[s].runtime
  BY <1>2 DEF MetaType
<1> HIDE DEF M
<1>4. /\ status' \in [Scans -> Statuses] /\ status'[s] = "queued"
      /\ \A x \in Scans \ {s} : status'[x] = status[x]
  BY <1>1, <1>2, Entry
<1>5. /\ meta' \in [Scans -> MetaType] /\ meta'[s] = M
      /\ \A x \in Scans \ {s} : meta'[x] = meta[x]
  BY <1>1, <1>2, <1>3, Entry
<1>6. /\ call' \in [Callers -> [Scans -> CallStates]] /\ call'["route"][s] = "launch"
      /\ \A k \in Callers, x \in Scans : x # s => call'[k][x] = call[k][x]
  BY <1>1, <1>2, Entry2
<1>7. Typed' /\ Gate'
  BY <1>1, <1>4, <1>5, <1>6 DEF SupInv, Typed, Gate, capVars
<1>8. Stages' /\ Maps'
  BY <1>1, QuietLaunches DEF SupInv, SameJob, SameLease, SameChild, LetGo, Live, capVars
<1>9. \A l \in Launches : job[l].scan \in Scans \cup {None}
  BY DEF SupInv, Typed, JobType
<1>10. Rows'
  <2>1. \A l \in Launches : scan(l) # None => scan(l) \in Scans \ {s}
    BY <1>1, <1>9 DEF SupInv, Rows, scan
  <2>2. shut.scans \subseteq Scans \ {s}
    BY <1>1 DEF SupInv, Rows, Typed, ShutType
  <2>3. \A l \in Launches : scan(l)' # None =>
       /\ status'[scan(l)'] # "none"
       /\ proc'[l].state \in {"running", "exiting"} => status'[scan(l)'] # "queued"
       /\ job'[l].start = "spawn" /\ ~job'[l].seen => ~IsActiveStatus(scan(l))'
       /\ job'[l].start = "failed" /\ faults' = 0 => ~IsActiveStatus(scan(l))'
    BY <1>1, <1>4, <2>1 DEF SupInv, Rows, scan, IsActiveStatus
  <2>4. \A x \in Scans :
       /\ \A k \in Callers : call'[k][x] # "idle" => status'[x] # "none"
       /\ \A c \in Cancellers : cancel'[c][x].pc # "idle" => status'[x] # "none"
       /\ \A c \in Cancellers : cancel'[c][x].pc = "decide" /\ ~cancel'[c][x].seen =>
            ~IsActiveStatus(x)'
    BY <1>1, <1>4, <1>6 DEF SupInv, Rows, IsActiveStatus
  <2>5. QED
    BY <1>1, <1>4, <2>2, <2>3, <2>4 DEF SupInv, Rows
<1>11. SettlingKept
  BY <1>1, <1>4 DEF SettlingKept, Settling, IsActiveStatus
<1>12. Aborts'
  <2>1. \A l \in Launches : job[l].start \in Starting => scan(l) \in Scans
    BY StartingLaunch
  <2>2. QED
    BY <1>1, <1>11, <2>1, AbortsKept DEF SupInv
<1>13. \A x \in Scans : meta'[x].token = meta[x].token /\ meta'[x].runtime = meta[x].runtime
  BY <1>3, <1>5
<1>14. Tokens'
  BY <1>1, <1>11, <1>13, TokensKept DEF SupInv
<1>15. Stopping'
  <2>1. \A x \in Scans : shut.pc = "cancel" /\ owned[x] # None /\ owned[x] \in shut.jobs =>
          ShutdownCancels(x)'
    BY <1>1, <1>11, SameShutdownCancels DEF SupInv
  <2>2. \A m \in Launches : LetGo(m) => LetGo(m)'
    BY <1>1 DEF LetGo, Live
  <2>3. QED
    BY <1>1, <1>11, <2>1, <2>2, StoppingKept DEF SupInv, JobsReaped
<1>16. Runtimes' /\ NoScanOfEarlierRuntime'
  BY <1>1, <1>3, <1>4, <1>5, <1>13 DEF SupInv, Runtimes, NoScanOfEarlierRuntime,
     IsActiveStatus
<1>17. OneExecutor' /\ Cancels'
  BY <1>1, ExecutorKept DEF SupInv, Cancels
<1>18. ActiveScanHasKeeper'
  <2>1. Keeper(s)'
    BY <1>2, <1>6 DEF Keeper
  <2>2. \A x \in Scans \ {s} : (Keeper(x) => Keeper(x)') /\ (IsActiveStatus(x)' => IsActiveStatus(x))
    BY <1>1, <1>4, <1>6 DEF Keeper, IsActiveStatus, scan
  <2>3. Alive' = Alive
    BY <1>1 DEF Alive
  <2>4. QED
    BY <1>1, <2>1, <2>2, <2>3 DEF SupInv, ActiveScanHasKeeper
<1>19. QED
  BY <1>7, <1>8, <1>10, <1>12, <1>14, <1>15, <1>16, <1>17, <1>18 DEF SupInv

\* The child claims a queued scan, which nobody can have claimed before.
LEMMA ClaimInv ==
  ASSUME SupInv, NEW l \in Launches, ChildClaim(l)
  PROVE  SupInv'
<1> DEFINE P == [proc[l] EXCEPT !.state = "running"]
<1>1. /\ proc[l].state = "booting" /\ status[scan(l)] = "queued"
      /\ status' = [status EXCEPT ![scan(l)] = "running"] /\ proc' = [proc EXCEPT ![l] = P]
      /\ UNCHANGED <<meta, call, pending, owned, cancel, shut, server, faults, capVars>>
      /\ UNCHANGED job
  BY DEF ChildClaim, childUnchanged
<1>2. /\ status \in [Scans -> Statuses] /\ proc \in [Launches -> ProcType]
      /\ "running" \in Statuses
      /\ \A m \in Launches : job[m].scan \in Scans \cup {None}
  BY DEF SupInv, Typed, Statuses, Active, JobType
<1>3. scan(l) \in Scans
  BY <1>1, <1>2 DEF SupInv, Stages, Stage, scan
<1>4. P \in ProcType /\ P.state = "running" /\ P.signal = proc[l].signal
  BY <1>2 DEF ProcType
<1> HIDE DEF P
<1>5. proc' \in [Launches -> ProcType] /\ proc'[l] = P /\ \A m \in Launches \ {l} : proc'[m] = proc[m]
  BY <1>1, <1>2, <1>4, Entry
<1>6. /\ status' \in [Scans -> Statuses] /\ status'[scan(l)] = "running"
      /\ \A s \in Scans \ {scan(l)} : status'[s] = status[s]
  BY <1>1, <1>2, <1>3, Entry
<1>7. Forward
  BY <1>1, <1>3, <1>6 DEF Forward, IsActiveStatus, Active
<1>8. \A m \in Launches : SameJob(m) /\ SameChild(m)
  BY <1>1, <1>4, <1>5 DEF SameJob, SameChild, LetGo, Live
<1>9. OneExecutor'
  <2> SUFFICES ASSUME NEW m \in Launches \ {l}, proc'[m].state \in {"running", "exiting"},
                      scan(m) = scan(l)
               PROVE  FALSE
    BY <1>1, <1>5 DEF OneExecutor, SupInv, scan
  <2>1. proc[m].state \in {"running", "exiting"}
    BY <1>5
  <2>2. QED
    BY <1>1, <1>3, <2>1, NoneIsNoLaunch DEF SupInv, Rows
<1>10. \A m \in Launches : proc'[m].state \in {"running", "exiting"} =>
           proc[m].state \in {"running", "exiting"} \/ status'[scan(m)] # "queued"
  BY <1>5, <1>6
<1>11. job' \in [Launches -> JobType]
  BY <1>1 DEF SupInv, Typed
<1>12. QED
  BY <1>1, <1>5, <1>6, <1>7, <1>8, <1>9, <1>10, <1>11, ChildStepInv

\* launch: the scan is taken over by a launch of its own, or refused.
LEMMA LaunchInv ==
  ASSUME SupInv, NEW k \in Callers, NEW s \in Scans, NEW l \in Launches, Launch(k, s, l)
  PROVE  SupInv'
<1>1. /\ call[k][s] = "launch" /\ owned[s] = None /\ pending[s] = None /\ job[l].scan = None
      /\ Cap!Acquire(l) /\ UNCHANGED <<status, meta, owned, proc, cancel, shut, server, faults>>
  BY DEF Launch
<1>2. /\ job \in [Launches -> JobType] /\ pending \in [Scans -> Launches \cup {None}] /\ Typed
      /\ owned \in [Scans -> Launches \cup {None}]
      /\ call \in [Callers -> [Scans -> CallStates]] /\ {"full", "done"} \subseteq CallStates
  BY DEF SupInv, Typed, CallStates
<1>3. /\ job[l].start = "idle" /\ ~job[l].aborted /\ proc[l].state = "none"
      /\ job[l].monitor = "idle" /\ req[l] = "idle" /\ Stage(l)
  BY <1>1 DEF SupInv, Stages, Stage
<1>4. /\ Gate' /\ OthersAtGate(l) /\ req'[l] \in {"held", "refused", "waiting"}
      /\ \A m \in Launches \ {l} : SameLease(m)
  BY <1>1, GateAcquire DEF SupInv, Requests, OthersAtGate, SameLease
<1>5. status[s] # "none"
  BY <1>1 DEF SupInv, Rows
<1>6. \A x \in Scans : pending[x] # l /\ owned[x] # l
  BY <1>1, <1>3, NoneIsNoLaunch DEF SupInv, Maps, scan
\* what becomes of the launch
<1>7. \E J \in JobType :
        /\ job' = [job EXCEPT ![l] = J] /\ J.scan = s /\ J.monitor = "idle" /\ ~J.aborted
        /\ \/ /\ req'[l] = "refused" /\ J.start = "done" /\ UNCHANGED pending
              /\ call' = [call EXCEPT ![k][s] = "full"]
           \/ /\ req'[l] # "refused" /\ J.start = "lease" /\ pending' = [pending EXCEPT ![s] = l]
              /\ call' = [call EXCEPT ![k][s] = "done"] /\ (server.state = "stopping" => J.late)
  <2>1. CASE req'[l] = "refused"
    <3> DEFINE J == [job[l] EXCEPT !.scan = s, !.start = "done"]
    <3>1. /\ job' = [job EXCEPT ![l] = J] /\ UNCHANGED pending
          /\ call' = [call EXCEPT ![k][s] = "full"]
      BY <2>1 DEF Launch
    <3>2. J \in JobType /\ J.scan = s /\ J.monitor = "idle" /\ ~J.aborted /\ J.start = "done"
      BY <1>2, <1>3 DEF JobType
    <3> HIDE DEF J
    <3>3. QED
      BY <2>1, <3>1, <3>2
  <2>2. CASE req'[l] # "refused"
    <3> DEFINE J == [job[l] EXCEPT !.scan = s, !.start = "lease", !.late = server.state = "stopping"]
    <3>1. /\ job' = [job EXCEPT ![l] = J] /\ pending' = [pending EXCEPT ![s] = l]
          /\ call' = [call EXCEPT ![k][s] = "done"]
      BY <2>2, Zenon DEF Launch
    <3>2. (server.state = "stopping") \in BOOLEAN
      OBVIOUS
    <3>3. /\ J \in JobType /\ J.scan = s /\ J.monitor = "idle" /\ ~J.aborted /\ J.start = "lease"
          /\ server.state = "stopping" => J.late
      BY <1>2, <1>3, <3>2 DEF JobType
    <3> HIDE DEF J
    <3>4. QED
      BY <2>2, <3>1, <3>3
  <2>3. QED
    BY <2>1, <2>2
<1>8. PICK J \in JobType :
        /\ job' = [job EXCEPT ![l] = J] /\ J.scan = s /\ J.monitor = "idle" /\ ~J.aborted
        /\ \/ /\ req'[l] = "refused" /\ J.start = "done" /\ UNCHANGED pending
              /\ call' = [call EXCEPT ![k][s] = "full"]
           \/ /\ req'[l] # "refused" /\ J.start = "lease" /\ pending' = [pending EXCEPT ![s] = l]
              /\ call' = [call EXCEPT ![k][s] = "done"] /\ (server.state = "stopping" => J.late)
  BY <1>7
<1>9. job' \in [Launches -> JobType] /\ job'[l] = J /\ \A m \in Launches \ {l} : job'[m] = job[m]
  BY <1>2, <1>8, Entry
<1>10. /\ pending' \in [Scans -> Launches \cup {None}]
       /\ \A x \in Scans \ {s} : pending'[x] = pending[x]
       /\ pending'[s] = IF J.start = "lease" THEN l ELSE None
  BY <1>1, <1>2, <1>8, Entry
<1>11. /\ call' \in [Callers -> [Scans -> CallStates]]
       /\ \A u \in Callers, x \in Scans : <<u, x>> # <<k, s>> => call'[u][x] = call[u][x]
       /\ call'[k][s] = "full" \/ pending'[s] = l
  <2>1. PICK v \in {"full", "done"} : /\ call' = [call EXCEPT ![k][s] = v]
                                      /\ v = "full" \/ pending'[s] = l
    BY <1>8, <1>10
  <2>2. v \in CallStates
    BY <1>2
  <2>3. QED
    BY <1>2, <2>1, <2>2, Entry2
<1>12. Typed'
  BY <1>1, <1>9, <1>10, <1>11 DEF SupInv, Typed
<1>13. Stages'
  <2>1. ASSUME NEW m \in Launches, m # l
        PROVE  Stage(m)'
    BY <1>1, <1>4, <1>9, <2>1, StageKept DEF SupInv, Stages, SameJob, SameChild, LetGo,
       Live
  <2>2. Stage(l)'
    BY <1>1, <1>3, <1>4, <1>8, <1>9, NoneIsNoLaunch DEF Stage, Starting
  <2>3. QED
    BY <2>1, <2>2 DEF Stages
<1>14. Maps'
  <2>1. ASSUME NEW x \in Scans, pending'[x] # None
        PROVE  /\ job'[pending'[x]].scan = x /\ owned'[x] = None
               /\ job'[pending'[x]].start \in Starting /\ ~job'[pending'[x]].aborted
    <3>1. CASE x = s
      BY <1>1, <1>8, <1>9, <1>10, <2>1, <3>1 DEF Starting
    <3>2. CASE x # s
      <4>1. pending'[x] = pending[x] /\ pending[x] \in Launches \ {l}
        BY <1>2, <1>6, <1>10, <2>1, <3>2
      <4>2. QED
        BY <1>1, <1>9, <2>1, <4>1 DEF SupInv, Maps, scan
    <3>3. QED
      BY <3>1, <3>2
  <2>2. ASSUME NEW m \in Launches, job'[m].start \in Starting, ~job'[m].aborted
        PROVE  pending'[scan(m)'] = m
    <3>1. CASE m = l
      BY <1>8, <1>9, <1>10, <2>2, <3>1 DEF Starting, scan
    <3>2. CASE m # l
      <4>1. scan(m)' = scan(m) /\ job[m].start \in Starting /\ ~job[m].aborted
        BY <1>9, <2>2, <3>2 DEF scan
      <4>2. scan(m) \in Scans /\ pending[scan(m)] = m
        BY <4>1, StartingLaunch
      <4>3. scan(m) # s
        BY <1>1, <4>2, NoneIsNoLaunch
      <4>4. QED
        BY <1>10, <4>1, <4>2, <4>3
    <3>3. QED
      BY <3>1, <3>2
  <2>3. ASSUME NEW x \in Scans, owned'[x] # None
        PROVE  /\ job'[owned'[x]].scan = x /\ req'[owned'[x]] = "held"
               /\ job'[owned'[x]].monitor \in {"watch", "erring"}
    <3>1. owned'[x] = owned[x] /\ owned[x] \in Launches \ {l}
      BY <1>1, <1>2, <1>6, <2>3
    <3>2. QED
      BY <1>4, <1>9, <2>3, <3>1 DEF SupInv, Maps, scan, SameLease
  <2>4. QED
    BY <2>1, <2>2, <2>3 DEF Maps, scan
<1>15. Forward /\ faults' = faults
  BY <1>1, NoVerdict
<1>16. Rows'
  <2>1. \A m \in Launches : job[m].scan \in Scans \cup {None}
    BY <1>2 DEF JobType
  <2>2. shut'.scans \subseteq Scans /\ shut'.scans = shut.scans
    BY <1>1 DEF SupInv, Typed, ShutType
  <2>3. \A m \in Launches :
           /\ \/ job'[m].scan = job[m].scan
              \/ /\ status[job'[m].scan] # "none" /\ job'[m].scan \in Scans
                 /\ proc'[m].state = "none" /\ job'[m].start \in {"lease", "done"}
           /\ proc'[m].state \in {"running", "exiting"} => proc[m].state \in {"running", "exiting"}
           /\ job'[m].start = "spawn" /\ ~job'[m].seen => job[m].start = "spawn" /\ ~job[m].seen
           /\ job'[m].start = "failed" => job[m].start = "failed"
    BY <1>1, <1>3, <1>5, <1>8, <1>9
  <2>4. \A x \in Scans, u \in Callers : call'[u][x] # "idle" => call[u][x] # "idle" \/ status[x] # "none"
    BY <1>5, <1>11
  <2>5. QED
    BY <1>1, <1>15, <2>1, <2>2, <2>3, <2>4, RowsKept DEF SupInv
<1>17. SettlingKept
  BY <1>1, <1>15, SettlingStays
<1>18. Aborts'
  <2>1. \A m \in Launches : job[m].start \in Starting => scan(m) \in Scans
    BY StartingLaunch
  <2>2. QED
    BY <1>8, <1>9, <1>17, <2>1, AbortsKept DEF SupInv
<1>19. Tokens'
  <2>1. ASSUME NEW x \in Scans, pending'[x] # None, job'[pending'[x]].start \in {"reread", "spawn"}
        PROVE  pending'[x] = pending[x] /\ job[pending[x]].start \in {"reread", "spawn"}
    <3>1. x # s
      BY <1>8, <1>9, <1>10, <2>1
    <3>2. QED
      BY <1>2, <1>6, <1>9, <1>10, <2>1, <3>1
  <2>2. QED
    BY <1>1, <1>17, <2>1, TokensKept DEF SupInv
<1>20. Stopping'
  <2>1. \A x \in Scans : shut.pc = "cancel" /\ owned[x] # None /\ owned[x] \in shut.jobs =>
          ShutdownCancels(x)'
    BY <1>1, <1>17, SameShutdownCancels DEF SupInv
  <2>2. \A m \in Launches : LetGo(m) => LetGo(m)'
    BY <1>1 DEF LetGo, Live
  <2>3. \A m \in Launches :
           /\ job'[m].start \in Starting =>
                \/ /\ job[m].start \in Starting
                   /\ job[m].aborted => job'[m].aborted
                   /\ job[m].late => job'[m].late
                \/ server.state = "stopping" => job'[m].late
           /\ job'[m].monitor # "idle" => job[m].monitor # "idle" /\ (job[m].late => job'[m].late)
           /\ job[m].monitor # "idle" => job'[m].monitor # "idle"
    BY <1>3, <1>8, <1>9 DEF Starting
  <2>4. QED
    BY <1>1, <1>17, <2>1, <2>2, <2>3, StoppingKept DEF SupInv, JobsReaped
<1>21. Runtimes' /\ NoScanOfEarlierRuntime'
  BY <1>1, <1>15, RuntimesKept DEF SupInv
<1>22. OneExecutor' /\ Cancels'
  BY <1>1, <1>3, <1>9, ExecutorKept DEF SupInv, Cancels
<1>23. ActiveScanHasKeeper'
  <2>1. ASSUME NEW x \in Scans, Keeper(x)
        PROVE  Keeper(x)'
    <3>1. CASE x = s
      BY <1>11, <3>1, NoneIsNoLaunch DEF Keeper
    <3>2. CASE x # s
      <4>1. \A m \in Launches : scan(m) = x /\ job[m].start \in {"failing", "failed"} => job'[m] = job[m]
        BY <1>3, <1>9
      <4>2. \A m \in Launches : scan(m) = x /\ job[m].monitor \in {"find", "fail"} => job'[m] = job[m]
        BY <1>3, <1>9
      <4>3. QED
        BY <1>1, <1>10, <1>11, <2>1, <3>2, <4>1, <4>2 DEF Keeper, scan
    <3>3. QED
      BY <3>1, <3>2
  <2>2. Alive' = Alive
    BY <1>1 DEF Alive
  <2>3. QED
    BY <1>15, <2>1, <2>2, KeeperKept DEF Forward, SupInv
<1>24. QED
  BY <1>4, <1>12, <1>13, <1>14, <1>16, <1>18, <1>19, <1>20, <1>21, <1>22,
     <1>23 DEF SupInv

-----------------------------------------------------------------------------
(* shutdown *)

\* A job has exited within the grace period.
LEMMA ShutdownReapInv ==
  ASSUME SupInv, NEW l \in Launches, ShutdownReap(l)
  PROVE  SupInv'
<1>1. /\ proc[l].state = "exited" /\ shut' = [shut EXCEPT !.jobs = @ \ {l}]
      /\ UNCHANGED <<status, meta, call, pending, owned, job, proc, cancel, server, faults, capVars>>
  BY DEF ShutdownReap
<1>2. shut' \in ShutType /\ shut'.pc = shut.pc /\ shut'.scans = shut.scans /\ JobsReaped
  BY <1>1 DEF SupInv, Typed, ShutType, JobsReaped, LetGo, Live
<1>3. Typed' /\ Gate' /\ Forward
  BY <1>1, <1>2, NoVerdict DEF SupInv, Typed, Gate, capVars
<1>4. Quiet /\ KeepersStay
  BY <1>1, <1>2, <1>3 DEF SupInv, Quiet, KeepersStay, SameJob, SameLease, SameChild,
     LetGo, Live,
     capVars, Rows
<1>5. SettlingKept
  BY <1>4, SettlingStays DEF Quiet, KeepersStay
<1>6. CancelsOn
  BY <1>1, <1>2, <1>3, <1>5, SameCancels
<1>7. OneExecutor'
  BY <1>1, ExecutorKept DEF SupInv
<1>8. QED
  BY <1>1, <1>2, <1>3, <1>4, <1>6, <1>7, QuietInv

\* The cancellation of a pending scan is persisted, or the attempt has failed.
LEMMA ShutdownPersistInv ==
  ASSUME SupInv, NEW s \in Scans, ShutdownPersist(s)
  PROVE  SupInv'
<1>1. /\ \/ updateScanRunStatus(s, "cancelled") /\ UNCHANGED faults
         \/ Fault /\ UNCHANGED status
      /\ shut' = [shut EXCEPT !.scans = @ \ {s}]
      /\ UNCHANGED <<meta, call, pending, owned, job, proc, cancel, server, capVars>>
  BY DEF ShutdownPersist, persistCancellation
<1>2. /\ status' \in [Scans -> Statuses] /\ Forward
      /\ faults' \in 0..MaxFaults /\ (faults > 0 => faults' > 0)
      /\ ~IsActiveStatus(s)' \/ faults' > 0
  BY <1>1, VerdictOrFault DEF SupInv
<1>3. shut' \in ShutType /\ shut'.pc = shut.pc /\ shut'.scans = shut.scans \ {s} /\ JobsReaped
  BY <1>1 DEF SupInv, Typed, ShutType, JobsReaped
<1>4. Typed' /\ Gate'
  BY <1>1, <1>2, <1>3 DEF SupInv, Typed, Gate, capVars
<1>5. Quiet /\ KeepersStay
  BY <1>1, <1>2, <1>3 DEF SupInv, Quiet, KeepersStay, SameJob, SameLease, SameChild,
     LetGo, Live,
     capVars, Rows
<1>6. SettlingKept
  BY <1>5, SettlingStays DEF Quiet, KeepersStay
<1>7. CancelsOn
  BY <1>1, <1>2, <1>3, <1>6, SameCancels
<1>8. OneExecutor'
  BY <1>1, ExecutorKept DEF SupInv
<1>9. QED
  BY <1>1, <1>3, <1>4, <1>5, <1>7, <1>8, QuietInv

\* All are persisted: what is owned is what may still live, and the cancel of
\* each has begun.
LEMMA ShutdownCancelInv ==
  ASSUME SupInv, ShutdownCancel
  PROVE  SupInv'
<1> DEFINE jobs == {l \in Launches : \E s \in Scans : owned[s] = l}
<1>1. /\ shut.pc = "pending" /\ shut.scans = {}
      /\ shut' = [shut EXCEPT !.pc = "cancel", !.jobs = jobs]
      /\ cancel' = [cancel EXCEPT !["shutdown"] =
           [s \in Scans |-> IF owned[s] \in jobs THEN [NoCancel EXCEPT !.pc = "find"] ELSE NoCancel]]
      /\ UNCHANGED <<status, meta, call, pending, owned, job, proc, server, faults, capVars>>
  BY DEF ShutdownCancel
<1>2. /\ shut' \in ShutType /\ shut'.pc = "cancel" /\ shut'.scans = {} /\ shut'.jobs = jobs
      /\ server.state = "stopping"
  BY <1>1 DEF SupInv, Typed, ShutType, Stopping
<1>3. \A s \in Scans : owned[s] # None => owned[s] \in jobs
  BY DEF SupInv, Typed
<1>4. \A l \in jobs : job[l].monitor # "idle" /\ l \in Launches /\ \E s \in Scans : owned[s] = l
  BY NoneIsNoLaunch DEF SupInv, Maps
<1> HIDE DEF jobs
<1>5. /\ cancel' \in [Cancellers -> [Scans -> CancelType]]
      /\ \A s \in Scans : cancel'["user"][s] = cancel["user"][s]
      /\ \A s \in Scans : cancel'["shutdown"][s].pc = IF owned[s] \in jobs THEN "find" ELSE "idle"
      /\ \A s \in Scans : cancel'["shutdown"][s].pc \in {"find", "idle"}
  <2> DEFINE T == [s \in Scans |-> IF owned[s] \in jobs THEN [NoCancel EXCEPT !.pc = "find"] ELSE NoCancel]
  <2>1. /\ [NoCancel EXCEPT !.pc = "find"] \in CancelType /\ [NoCancel EXCEPT !.pc = "find"].pc = "find"
        /\ NoCancel \in CancelType /\ NoCancel.pc = "idle"
    BY DEF NoCancel, CancelType
  <2>2. /\ T \in [Scans -> CancelType]
        /\ \A s \in Scans : T[s].pc = IF owned[s] \in jobs THEN "find" ELSE "idle"
    BY <2>1
  <2>3. cancel' = [cancel EXCEPT !["shutdown"] = T] /\ cancel \in [Cancellers -> [Scans -> CancelType]]
    BY <1>1 DEF SupInv, Typed
  <2> HIDE DEF T
  <2>4. QED
    BY <2>2, <2>3 DEF Cancellers
<1>6. Typed' /\ Gate' /\ Forward
  BY <1>1, <1>2, <1>5, NoVerdict DEF SupInv, Typed, Gate, capVars
<1>7. Quiet
  BY <1>1, <1>2, <1>6 DEF SupInv, Quiet, SameJob, SameLease, SameChild, LetGo, Live,
     capVars, Rows
<1>8. KeepersStay
  BY <1>1, <1>2, <1>5 DEF SupInv, KeepersStay, Cancels, Cancellers
<1>9. CancelRows /\ Cancels'
  <2>1. \A s \in Scans : owned[s] \in jobs => status[s] # "none"
    BY <1>4, Created, NoneIsNoLaunch DEF SupInv
  <2>2. CancelRows
    BY <1>5, <2>1 DEF CancelRows, Cancellers, SupInv, Rows
  <2>3. Cancels'
    BY <1>2, <1>5 DEF Cancels, Cancellers, SupInv
  <2>4. QED
    BY <2>2, <2>3
<1>10. Stopping'
  <2>1. ASSUME NEW l \in Launches, job[l].monitor # "idle"
        PROVE  LetGo(l)' \/ l \in jobs
    <3>1. job[l].monitor \in {"watch", "erring", "find", "fail", "post", "done"} /\ job[l].scan \in Scans
      BY <2>1 DEF SupInv, Typed, JobType, Stages, Stage
    <3>2. LetGo(l) \/ owned[scan(l)] = l
      BY <3>1 DEF SupInv, Stages, Stage
    <3>3. LetGo(l) => LetGo(l)'
      BY <1>1 DEF LetGo, Live
    <3>4. QED
      BY <1>3, <3>1, <3>2, <3>3, NoneIsNoLaunch DEF scan
  <2>2. \A s \in Scans : owned'[s] # None /\ owned'[s] \in shut'.jobs => ShutdownCancels(s)'
    BY <1>1, <1>2, <1>5 DEF ShutdownCancels
  <2>3. \A l \in Launches :
          server'.state = "stopping" /\ job'[l].start \in Starting => job'[l].aborted \/ job'[l].late
    BY <1>1 DEF SupInv, Stopping
  <2>4. QED
    BY <1>1, <1>2, <1>4, <2>1, <2>2, <2>3 DEF Stopping
<1>11. OneExecutor'
  BY <1>1, ExecutorKept DEF SupInv
<1>12. QED
  BY <1>1, <1>6, <1>7, <1>8, <1>9, <1>10, <1>11, QuietStep

\* All cancels have returned, so the rows of all jobs are settled.
LEMMA ShutdownTermInv ==
  ASSUME SupInv, ShutdownTerm
  PROVE  SupInv'
<1>1. /\ shut.pc = "cancel" /\ shut' = [shut EXCEPT !.pc = "wait"]
      /\ \A s \in Scans : cancel["shutdown"][s].pc \in {"idle", "done"}
      /\ UNCHANGED <<status, meta, call, pending, owned, cancel, server, faults, capVars>>
  BY DEF ShutdownTerm
<1>2. /\ shut' \in ShutType /\ shut'.pc = "wait" /\ shut'.scans = shut.scans /\ shut'.jobs = shut.jobs
      /\ shut.jobs \subseteq Launches /\ Typed
  BY <1>1 DEF SupInv, Typed, ShutType
<1>3. job' \in [Launches -> JobType] /\ \A m \in Launches : SameJob(m)
  <2>1. \A m \in Launches :
          LET J == [job[m] EXCEPT !.cancelling = TRUE] IN
          /\ J \in JobType /\ J.scan = job[m].scan /\ J.start = job[m].start
          /\ J.aborted = job[m].aborted /\ J.seen = job[m].seen
          /\ J.monitor = job[m].monitor /\ J.late = job[m].late
    BY ZenonT(60) DEF SupInv, Typed, JobType
  <2>2. job' = [m \in Launches |-> IF m \in shut.jobs THEN [job[m] EXCEPT !.cancelling = TRUE] ELSE job[m]]
    BY DEF ShutdownTerm
  <2>3. job \in [Launches -> JobType]
    BY DEF SupInv, Typed
  <2>4. QED
    BY <2>1, <2>2, <2>3 DEF SameJob
<1>4. /\ proc' \in [Launches -> ProcType]
      /\ \A m \in Launches : SameChild(m) /\ proc'[m].state = proc[m].state
  <2>1. proc' = [m \in Launches |-> IF m \in shut.jobs THEN Signalled(m, "term")[m] ELSE proc[m]]
    BY DEF ShutdownTerm
  <2>2. \A m \in Launches : /\ Signalled(m, "term")[m] \in ProcType
                            /\ Signalled(m, "term")[m].state = proc[m].state
                            /\ proc[m].signal = "kill" => Signalled(m, "term")[m].signal = "kill"
    BY <1>2, Signals
  <2>3. proc \in [Launches -> ProcType]
    BY DEF SupInv, Typed
  <2>4. proc' \in [Launches -> ProcType]
    BY <2>1, <2>2, <2>3
  <2>5. \A m \in Launches : /\ proc'[m].state = proc[m].state
                            /\ proc[m].signal = "kill" => proc'[m].signal = "kill"
    BY <2>1, <2>2
  <2>6. QED
    BY <2>4, <2>5 DEF SameChild, LetGo, Live
<1>5. Typed' /\ Gate' /\ Forward
  BY <1>1, <1>2, <1>3, <1>4, NoVerdict DEF SupInv, Typed, Gate, capVars
<1>6. Quiet /\ KeepersStay
  BY <1>1, <1>2, <1>3, <1>4, <1>5 DEF SupInv, Quiet, KeepersStay, SameLease, capVars,
     Rows
<1>7. CancelRows /\ Cancels'
  BY <1>1, <1>2 DEF SupInv, CancelRows, Rows, Cancels
<1>8. SettlingKept => Stopping'
  <2> HAVE SettlingKept
  <2>1. ASSUME NEW s \in Scans, owned[s] # None, owned[s] \in shut.jobs
        PROVE  Settling(s)'
    <3>1. ShutdownCancels(s) /\ status[s] # "none"
      BY <1>1, <2>1, Created DEF SupInv, Stopping
    <3>2. Settling(s)
      BY <1>1, <3>1 DEF ShutdownCancels
    <3>3. QED
      BY <3>1, <3>2 DEF SettlingKept
  <2>2. \A l \in Launches :
          /\ server'.state = "stopping" /\ job'[l].start \in Starting => job'[l].aborted \/ job'[l].late
          /\ job'[l].monitor # "idle" => LetGo(l)' \/ job'[l].late \/ l \in shut'.jobs
    BY <1>1, <1>2, <1>3, <1>4 DEF SupInv, Stopping, SameJob, SameChild
  <2>3. \A l \in shut'.jobs : job'[l].monitor # "idle"
    BY <1>1, <1>2, <1>3 DEF SupInv, Stopping, SameJob
  <2>4. QED
    BY <1>1, <1>2, <2>1, <2>2, <2>3 DEF SupInv, Stopping
<1>9. OneExecutor'
  BY <1>3, <1>4, ExecutorKept DEF SupInv, SameJob
<1>10. QED
  BY <1>4, <1>5, <1>6, <1>7, <1>8, <1>9, QuietStep

\* No job is left.
LEMMA ShutdownDrainInv ==
  ASSUME SupInv, ShutdownDrain
  PROVE  SupInv'
<1>1. /\ shut.pc = "wait" /\ shut.jobs = {}
      /\ UNCHANGED <<status, meta, call, pending, owned, job, proc, cancel, server, faults, capVars>>
  BY DEF ShutdownDrain
<1>2. shut' \in ShutType /\ shut'.pc = "drain" /\ shut'.scans = shut.scans
  BY DEF ShutdownDrain, SupInv, Typed, ShutType
<1>3. Typed' /\ Gate' /\ Forward
  BY <1>1, <1>2, NoVerdict DEF SupInv, Typed, Gate, capVars
<1>4. Quiet /\ KeepersStay
  BY <1>1, <1>2, <1>3 DEF SupInv, Quiet, KeepersStay, SameJob, SameLease, SameChild,
     LetGo, Live,
     capVars, Rows
<1>5. CancelRows /\ Cancels'
  BY <1>1, <1>2 DEF SupInv, CancelRows, Rows, Cancels
<1>6. Stopping'
  BY <1>1, <1>2 DEF SupInv, Stopping, LetGo, Live
<1>7. OneExecutor'
  BY <1>1, ExecutorKept DEF SupInv
<1>8. QED
  BY <1>1, <1>3, <1>4, <1>5, <1>6, <1>7, QuietStep

\* SIGTERM: what was pending is aborted, and its cancellation is to be written.
LEMMA ShutdownInv ==
  ASSUME SupInv, Shutdown
  PROVE  SupInv'
<1> DEFINE stopped == {l \in Launches : \E s \in Scans : pending[s] = l}
<1>1. /\ server.state = "up" /\ server' = [server EXCEPT !.state = "stopping"]
      /\ job' = [l \in Launches |-> IF l \in stopped THEN [job[l] EXCEPT !.aborted = TRUE] ELSE job[l]]
      /\ req' = [r \in DOMAIN req |->
                   IF r \in stopped /\ req[r] = "waiting" THEN "aborted" ELSE req[r]]
      /\ shut' = [shut EXCEPT !.pc = "pending", !.scans = {s \in Scans : pending[s] # None}]
      /\ pending' = [s \in Scans |-> None]
      /\ UNCHANGED <<status, meta, call, owned, proc, cancel, faults, waiters>>
  BY DEF Shutdown
<1>2. /\ stopped \subseteq Launches
      /\ \A l \in stopped : job[l].start \in Starting /\ ~job[l].aborted /\ pending[scan(l)] = l
  BY NoneIsNoLaunch DEF SupInv, Maps
<1>3. \A s \in Scans : pending[s] # None => pending[s] \in stopped
  BY DEF SupInv, Typed
<1>4. \A l \in Launches : job[l].start \in Starting /\ ~job[l].aborted => l \in stopped
  BY StartingLaunch
<1> HIDE DEF stopped
<1>5. /\ server' \in ServerType /\ server'.state = "stopping" /\ server'.runtime = server.runtime
      /\ server'.stale = server.stale
      /\ shut' \in ShutType /\ shut'.pc = "pending" /\ shut'.scans = {s \in Scans : pending[s] # None}
      /\ shut.pc = "idle" /\ shut.scans = {}
  BY <1>1 DEF SupInv, Typed, ServerType, ShutType, Stopping
<1>6. /\ job' \in [Launches -> JobType]
      /\ \A m \in Launches :
           /\ job'[m].scan = job[m].scan /\ job'[m].start = job[m].start
           /\ job'[m].seen = job[m].seen /\ job'[m].monitor = job[m].monitor
           /\ job'[m].late = job[m].late
           /\ job'[m].aborted <=> job[m].aborted \/ m \in stopped
  <2>1. \A m \in Launches :
          LET J == [job[m] EXCEPT !.aborted = TRUE] IN
          /\ J \in JobType /\ J.scan = job[m].scan /\ J.start = job[m].start
          /\ J.aborted /\ J.seen = job[m].seen
          /\ J.monitor = job[m].monitor /\ J.late = job[m].late
    <3>1. ASSUME NEW j \in JobType
          PROVE  LET J == [j EXCEPT !.aborted = TRUE] IN
                 /\ J \in JobType /\ J.scan = j.scan /\ J.start = j.start
                 /\ J.aborted /\ J.seen = j.seen
                 /\ J.monitor = j.monitor /\ J.late = j.late
      BY DEF JobType
    <3>2. \A m \in Launches : job[m] \in JobType
      BY DEF SupInv, Typed
    <3>3. QED
      BY <3>1, <3>2
  <2>2. job \in [Launches -> JobType]
    BY DEF SupInv, Typed
  <2>3. job' \in [Launches -> JobType]
    BY <1>1, <2>1, <2>2
  <2>4. \A m \in Launches : job'[m] = IF m \in stopped THEN [job[m] EXCEPT !.aborted = TRUE] ELSE job[m]
    BY <1>1
  <2>5. QED
    BY <2>1, <2>3, <2>4
<1>7. /\ req' \in [Requests -> Cap!RequestStates]
      /\ \A r \in Requests : req'[r] = IF r \in stopped /\ req[r] = "waiting" THEN "aborted" ELSE req[r]
  BY <1>1 DEF SupInv, Gate, Cap!RequestStates
<1>8. Gate'
  BY <1>1, <1>7 DEF SupInv, Gate
<1>9. Typed'
  BY <1>1, <1>5, <1>6 DEF SupInv, Typed
<1>10. Stages'
  <2> SUFFICES ASSUME NEW m \in Launches
               PROVE  Stage(m)'
    BY DEF Stages
  <2>1. Stage(m) /\ proc'[m] = proc[m] /\ owned' = owned /\ scan(m)' = scan(m)
    BY <1>1, <1>6 DEF SupInv, Stages, scan
  <2>2. CASE m \in stopped
    <3>1. /\ job[m].start \in Starting /\ job'[m].aborted /\ job[m].scan # None
      BY <1>2, <1>6, <2>2, StartingLaunch, NoneIsNoLaunch
    <3>2. req'[m] = req[m] \/ (req[m] = "waiting" /\ req'[m] = "aborted")
      BY <1>7 DEF Requests
    <3>3. QED
      BY <1>6, <2>1, <3>1, <3>2 DEF Stage, Starting
  <2>3. CASE m \notin stopped
    <3>1. req'[m] = req[m] /\ SameJob(m) /\ SameLease(m) /\ SameChild(m)
      BY <1>6, <1>7, <2>1, <2>3 DEF Requests, SameJob, SameLease, SameChild, LetGo,
         Live, SupInv, Typed, JobType
    <3>2. QED
      BY <2>1, <3>1, StageKept
  <2>4. QED
    BY <2>2, <2>3
<1>11. Maps'
  <2>1. \A s \in Scans : pending'[s] = None
    BY <1>1
  <2>2. \A l \in Launches : ~(job'[l].start \in Starting /\ ~job'[l].aborted)
    BY <1>4, <1>6
  <2>3. ASSUME NEW x \in Scans, owned'[x] # None
        PROVE  /\ job'[owned'[x]].scan = x /\ req'[owned'[x]] = "held"
               /\ job'[owned'[x]].monitor \in {"watch", "erring"}
    <3>1. /\ owned'[x] = owned[x] /\ owned[x] \in Launches
          /\ job[owned[x]].scan = x /\ req[owned[x]] = "held"
          /\ job[owned[x]].monitor \in {"watch", "erring"}
      BY <1>1, <2>3 DEF SupInv, Maps, Typed, scan
    <3>2. QED
      BY <1>6, <1>7, <3>1 DEF Requests
  <2>4. QED
    BY <2>1, <2>2, <2>3 DEF Maps, scan
<1>12. Forward /\ faults' = faults
  BY <1>1, NoVerdict
<1>13. Rows'
  <2>1. \A m \in Launches : job[m].scan \in Scans \cup {None}
    BY DEF SupInv, Typed, JobType
  <2>2. shut'.scans \subseteq Scans /\ \A s \in shut'.scans : status[s] # "none"
    BY <1>5, Created DEF SupInv
  <2>3. QED
    BY <1>1, <1>6, <1>12, <2>1, <2>2, RowsKept DEF SupInv
<1>14. SettlingKept
  BY <1>1, <1>5, <1>12, SettlingStays
<1>15. Aborts'
  <2>1. \A m \in Launches : job[m].start \in Starting => scan(m) \in Scans
    BY StartingLaunch
  <2>2. ASSUME NEW m \in stopped
        PROVE  Settling(scan(m))'
    <3>1. m \in Launches /\ scan(m) \in Scans /\ pending[scan(m)] = m /\ scan(m)' = scan(m)
      BY <1>2, <1>6, <2>1 DEF scan
    <3>2. scan(m) \in shut'.scans
      BY <1>5, <3>1, NoneIsNoLaunch
    <3>3. QED
      BY <3>1, <3>2 DEF Settling
  <2>3. QED
    BY <1>6, <1>14, <2>1, <2>2, AbortsKept DEF SupInv
<1>16. Tokens'
  BY <1>1, <1>14, TokensKept DEF SupInv
<1>17. Cancels'
  BY <1>1, <1>5 DEF SupInv, Cancels
<1>18. Stopping'
  BY <1>4, <1>5, <1>6 DEF Stopping
<1>19. Runtimes' /\ NoScanOfEarlierRuntime'
  BY <1>1, <1>5, <1>12, RuntimesKept DEF SupInv
<1>20. OneExecutor'
  BY <1>1, <1>6, ExecutorKept DEF SupInv
<1>21. ActiveScanHasKeeper'
  <2>1. ASSUME NEW x \in Scans, Keeper(x)
        PROVE  Keeper(x)'
    <3>1. pending[x] # None => x \in shut'.scans
      BY <1>5
    <3>2. QED
      BY <1>1, <1>5, <1>6, <2>1, <3>1 DEF Keeper, scan
  <2>2. Alive
    BY <1>1 DEF Alive
  <2>3. QED
    BY <1>12, <2>1, <2>2, KeeperKept DEF Forward, SupInv
<1>22. QED
  BY <1>8, <1>9, <1>10, <1>11, <1>13, <1>15, <1>16, <1>17, <1>18, <1>19, <1>20,
     <1>21 DEF SupInv

-----------------------------------------------------------------------------
(* The end and the start of a server *)

\* Only rows and children outlive the process.
LEMMA EndInv ==
  ASSUME SupInv, ServerEnds
  PROVE  SupInv'
<1>1. /\ server' = [server EXCEPT !.state = "down"]
      /\ pending' = [s \in Scans |-> None] /\ owned' = [s \in Scans |-> None]
      /\ shut' = NoShutdown /\ waiters' = {} /\ req' = [r \in DOMAIN req |-> "idle"]
      /\ UNCHANGED <<status, meta, proc, faults>>
  BY DEF ServerEnds
<1>2. /\ server' \in ServerType /\ server'.state = "down" /\ server'.runtime = server.runtime
      /\ shut' \in ShutType /\ shut'.pc = "idle" /\ shut'.scans = {} /\ shut'.jobs = {}
      /\ pending' \in [Scans -> Launches \cup {None}] /\ owned' \in [Scans -> Launches \cup {None}]
      /\ \A s \in Scans : pending'[s] = None /\ owned'[s] = None
  BY <1>1 DEF SupInv, Typed, ServerType, ShutType, NoShutdown
<1>3. /\ job' \in [Launches -> JobType]
      /\ \A m \in Launches : /\ job'[m].scan = job[m].scan /\ job'[m].start = "idle"
                             /\ job'[m].monitor = "idle" /\ ~job'[m].aborted
  <2>1. \A m \in Launches :
          LET J == [NoJob EXCEPT !.scan = job[m].scan, !.late = job[m].late] IN
          /\ J \in JobType /\ J.scan = job[m].scan /\ J.start = "idle" /\ J.monitor = "idle" /\ ~J.aborted
    BY DEF SupInv, Typed, JobType, NoJob
  <2>2. job' = [l \in Launches |-> [NoJob EXCEPT !.scan = job[l].scan, !.late = job[l].late]]
    BY DEF ServerEnds
  <2>3. QED
    BY <2>1, <2>2
<1>4. /\ cancel' \in [Cancellers -> [Scans -> CancelType]]
      /\ \A c \in Cancellers, s \in Scans :
           /\ cancel'[c][s].pc \in {"idle", "done"}
           /\ cancel'[c][s].pc # "idle" => cancel[c][s].pc # "idle"
  <2> DEFINE V(c, s) == IF cancel[c][s].pc = "idle" THEN NoCancel
                        ELSE [NoCancel EXCEPT !.pc = "done", !.answer = cancel[c][s].answer]
  <2>1. \A c \in Cancellers, s \in Scans :
          /\ V(c, s) \in CancelType /\ V(c, s).pc \in {"idle", "done"}
          /\ V(c, s).pc # "idle" => cancel[c][s].pc # "idle"
    <3> SUFFICES ASSUME NEW c \in Cancellers, NEW s \in Scans
                 PROVE  /\ V(c, s) \in CancelType /\ V(c, s).pc \in {"idle", "done"}
                        /\ V(c, s).pc # "idle" => cancel[c][s].pc # "idle"
      OBVIOUS
    <3>1. CASE cancel[c][s].pc = "idle"
      BY <3>1 DEF CancelType, NoCancel
    <3>2. CASE cancel[c][s].pc # "idle"
      <4>1. cancel[c][s] \in CancelType
        BY DEF SupInv, Typed
      <4>2. cancel[c][s].answer \in {"none", "cancelled", "process_not_owned", "scan_not_active", "error"}
        BY <4>1 DEF CancelType
      <4>3. QED
        BY <3>2, <4>2 DEF CancelType, NoCancel
    <3>3. QED
      BY <3>1, <3>2
  <2>2. cancel' = [c \in Cancellers |-> [s \in Scans |-> V(c, s)]]
    BY DEF ServerEnds
  <2> HIDE DEF V
  <2>3. QED
    BY <2>1, <2>2
<1>5. /\ call' \in [Callers -> [Scans -> CallStates]]
      /\ \A k \in Callers, s \in Scans : call'[k][s] # "idle" => call[k][s] # "idle"
  BY DEF ServerEnds, CallStates
<1>6. Typed'
  BY <1>1, <1>2, <1>3, <1>4, <1>5 DEF SupInv, Typed
<1>7. Gate' /\ \A r \in Requests : req'[r] = "idle"
  BY <1>1 DEF SupInv, Gate, Cap!RequestStates
<1>8. Stages'
  <2>1. \A m \in Launches : /\ job[m].scan = None => proc[m].state = "none"
                            /\ req'[m] = "idle" /\ proc'[m] = proc[m]
    BY <1>1, <1>7 DEF SupInv, Stages, Stage, Requests
  <2>2. QED
    BY <1>3, <2>1 DEF Stages, Stage, Starting
<1>9. Maps'
  BY <1>2, <1>3 DEF Maps, Starting
<1>10. Rows'
  <2>1. \A m \in Launches : job[m].scan \in Scans \cup {None}
    BY DEF SupInv, Typed, JobType
  <2>2. Forward /\ faults' = faults
    BY <1>1, NoVerdict
  <2>3. \A m \in Launches : /\ job'[m].scan = job[m].scan /\ proc'[m] = proc[m]
                            /\ job'[m].start # "spawn" /\ job'[m].start # "failed"
    BY <1>1, <1>3
  <2>4. \A c \in Cancellers, s \in Scans :
          /\ cancel'[c][s].pc # "idle" => cancel[c][s].pc # "idle"
          /\ cancel'[c][s].pc # "decide"
    BY <1>4
  <2>5. QED
    BY <1>2, <1>5, <2>1, <2>2, <2>3, <2>4, RowsKept DEF SupInv
<1>11. Runtimes' /\ NoScanOfEarlierRuntime' /\ ActiveScanHasKeeper'
  BY <1>1, <1>2 DEF SupInv, Runtimes, NoScanOfEarlierRuntime, ActiveScanHasKeeper, Alive
<1>12. Aborts' /\ Tokens'
  BY <1>2, <1>3 DEF Aborts, Tokens, Starting
<1>13. Cancels'
  BY <1>4 DEF Cancels, Cancellers
<1>14. Stopping'
  BY <1>2, <1>3 DEF Stopping, Starting
<1>15. OneExecutor'
  BY <1>1, <1>3, ExecutorKept DEF SupInv
<1>16. QED
  BY <1>6, <1>7, <1>8, <1>9, <1>10, <1>11, <1>12, <1>13, <1>14, <1>15 DEF SupInv

\* The start of a server only concerns the server and the rows it fails.
LEMMA ServerInv ==
  ASSUME SupInv, UNCHANGED <<meta, call, pending, owned, job, proc, cancel, shut, faults, capVars>>,
         status' \in [Scans -> Statuses], Forward, server' \in ServerType,
         server.state # "stopping", server'.state # "stopping",
         Runtimes', NoScanOfEarlierRuntime', ActiveScanHasKeeper'
  PROVE  SupInv'
<1>1. Typed' /\ Gate'
  BY DEF SupInv, Typed, Gate, capVars
<1>2. Stages' /\ Maps'
  BY QuietLaunches DEF SupInv, SameJob, SameLease, SameChild, LetGo, Live, capVars
<1>3. Rows'
  <2>1. \A m \in Launches : job[m].scan \in Scans \cup {None}
    BY DEF SupInv, Typed, JobType
  <2>2. shut'.scans \subseteq Scans
    BY DEF SupInv, Typed, ShutType
  <2>3. QED
    BY <2>1, <2>2, RowsKept DEF SupInv
<1>4. SettlingKept
  BY SettlingStays
<1>5. Aborts'
  <2>1. \A m \in Launches : job[m].start \in Starting => scan(m) \in Scans
    BY StartingLaunch
  <2>2. QED
    BY <1>4, <2>1, AbortsKept DEF SupInv
<1>6. Tokens'
  BY <1>4, TokensKept DEF SupInv
<1>7. Cancels' /\ Stopping'
  BY DEF SupInv, Cancels, Stopping
<1>8. OneExecutor'
  BY ExecutorKept DEF SupInv
<1>9. QED
  BY <1>1, <1>2, <1>3, <1>5, <1>6, <1>7, <1>8 DEF SupInv

\* The server lists what earlier servers have left active, fails it and serves.
LEMMA RestartInv ==
  ASSUME SupInv, Restart \/ (\E s \in Scans : Recover(s)) \/ Serve
  PROVE  SupInv'
<1>1. /\ UNCHANGED <<meta, call, pending, owned, job, proc, cancel, shut, faults, capVars>>
      /\ server.state \in {"down", "recovering"}
  BY DEF Restart, Recover, Serve
<1>2. /\ server \in ServerType /\ server.runtime \in Nat /\ status \in [Scans -> Statuses]
      /\ \A s \in Scans : meta[s].runtime \in Int /\ meta[s].runtime <= server.runtime
  BY BoundsNatural DEF SupInv, Typed, ServerType, MetaType, Runtimes
<1>3. CASE Restart
  <2>1. /\ server' = [state |-> "recovering", runtime |-> server.runtime + 1,
                      stale |-> {s \in Scans : IsActiveStatus(s) /\ meta[s].runtime # server.runtime + 1}]
        /\ UNCHANGED status /\ server.runtime < MaxIncarnations
    BY <1>3 DEF Restart
  <2>2. /\ server' \in ServerType /\ server'.state = "recovering" /\ server'.runtime = server.runtime + 1
        /\ \A s \in Scans : IsActiveStatus(s) => s \in server'.stale
    BY <1>2, <2>1, BoundsNatural DEF ServerType
  <2>3. Runtimes' /\ NoScanOfEarlierRuntime' /\ ActiveScanHasKeeper'
    BY <1>1, <1>2, <2>1, <2>2 DEF Runtimes, NoScanOfEarlierRuntime,
       ActiveScanHasKeeper, Alive, IsActiveStatus
  <2>4. QED
    BY <1>1, <1>2, <2>1, <2>2, <2>3, NoVerdict, ServerInv
<1>4. ASSUME NEW s \in Scans, Recover(s)
      PROVE  SupInv'
  <2>1. /\ server.state = "recovering" /\ updateScanRunStatus(s, "failed")
        /\ server' = [server EXCEPT !.stale = @ \ {s}]
    BY <1>4 DEF Recover
  <2>2. status' \in [Scans -> Statuses] /\ Forward /\ ~IsActiveStatus(s)'
    BY <2>1, Verdict DEF SupInv
  <2>3. /\ server' \in ServerType /\ server'.state = "recovering" /\ server'.runtime = server.runtime
        /\ server'.stale = server.stale \ {s}
    BY <1>2, <2>1 DEF ServerType
  <2>4. Runtimes' /\ NoScanOfEarlierRuntime' /\ ActiveScanHasKeeper'
    BY <1>1, <1>2, <2>1, <2>2, <2>3
       DEF SupInv, Runtimes, NoScanOfEarlierRuntime, ActiveScanHasKeeper, Alive, Forward
  <2>5. QED
    BY <1>1, <2>1, <2>2, <2>3, <2>4, ServerInv
<1>5. CASE Serve
  <2>1. /\ server.state = "recovering" /\ server.stale = {} /\ UNCHANGED status
        /\ server' = [server EXCEPT !.state = "up"]
    BY <1>5 DEF Serve
  <2>2. server' \in ServerType /\ server'.state = "up" /\ server'.runtime = server.runtime
    BY <1>2, <2>1 DEF ServerType
  <2>3. \A s \in Scans : ~IsActiveStatus(s) /\ ~IsActiveStatus(s)'
    BY <2>1 DEF SupInv, Runtimes, IsActiveStatus
  <2>4. Runtimes' /\ NoScanOfEarlierRuntime' /\ ActiveScanHasKeeper'
    BY <1>1, <1>2, <2>2, <2>3 DEF Runtimes, NoScanOfEarlierRuntime, ActiveScanHasKeeper
  <2>5. QED
    BY <1>1, <1>2, <2>1, <2>2, <2>4, NoVerdict, ServerInv
<1>6. QED
  BY <1>3, <1>4, <1>5

-----------------------------------------------------------------------------
(* The invariant *)

\* It holds in the beginning.
LEMMA InitInv == Init => SupInv
<1> SUFFICES ASSUME Init
             PROVE  SupInv
  OBVIOUS
<1>1. Typed
  BY BoundsNatural DEF Init, Typed, Statuses, MetaType, CallStates, JobType, NoJob,
     ProcType,
     CancelType, NoCancel, ShutType, NoShutdown, ServerType
<1>2. Gate /\ \A r \in Requests : req[r] = "idle"
  BY DEF Init, Cap!Init, Gate, Requests, Cap!RequestStates
<1>3. /\ \A l \in Launches : /\ job[l].start = "idle" /\ ~job[l].aborted /\ job[l].monitor = "idle"
                             /\ job[l].scan = None /\ proc[l].state = "none" /\ req[l] = "idle"
      /\ \A s \in Scans : /\ pending[s] = None /\ owned[s] = None /\ status[s] = "none"
                          /\ meta[s].runtime = 0
      /\ \A k \in Callers, s \in Scans : call[k][s] = "idle"
      /\ \A c \in Cancellers, s \in Scans : cancel[c][s].pc = "idle"
      /\ shut.pc = "idle" /\ shut.scans = {} /\ shut.jobs = {}
      /\ server.state = "up" /\ server.runtime = 1
  BY <1>2 DEF Init, NoJob, NoCancel, NoShutdown, Requests
<1>4. Stages /\ Maps /\ Rows
  BY <1>3 DEF Stages, Stage, Maps, Rows, Starting, scan
<1>5. Runtimes /\ Aborts /\ Tokens /\ Cancels /\ Stopping
  BY <1>3 DEF Runtimes, Aborts, Tokens, Cancels, Stopping, Starting, Cancellers
<1>6. OneExecutor /\ NoScanOfEarlierRuntime /\ ActiveScanHasKeeper
  BY <1>3 DEF OneExecutor, NoScanOfEarlierRuntime, ActiveScanHasKeeper, IsActiveStatus,
     Active
<1>7. QED
  BY <1>1, <1>2, <1>4, <1>5, <1>6 DEF SupInv

\* Steps that change nothing keep it.
LEMMA StutterInv ==
  ASSUME SupInv, UNCHANGED vars
  PROVE  SupInv'
<1>1. Gate' /\ \A m \in Launches : SameLease(m)
  BY DEF vars, capVars, SupInv, Gate, SameLease
<1>2. QED
  BY <1>1, NoVerdict, RouteStepInv DEF vars, SupInv, Typed, Rows

\* Every step keeps it.
LEMMA StepInv ==
  ASSUME SupInv, [Next]_vars
  PROVE  SupInv'
<1>1. ASSUME NEW s \in Scans, CreateScan(s) \/ ReplayFind(s) \/ CancelRequest(s) \/ RouteFails(s)
      PROVE  SupInv'
  <2>1. "route" \in Callers /\ "user" \in Cancellers
    BY DEF Callers, Cancellers
  <2>2. QED
    BY <1>1, <2>1, CreateInv, JoinInv, CancelReadsInv, RefusedInv
<1>2. ASSUME NEW k \in Callers, NEW s \in Scans, LaunchStep(k, s)
      PROVE  SupInv'
  BY <1>2, JoinInv, LaunchInv, RefusedInv DEF LaunchStep
<1>3. ASSUME NEW c \in Commands, CommandStart(c) \/ CommandEnd(c)
      PROVE  SupInv'
  BY <1>3, CommandInv
<1>4. ASSUME NEW l \in Launches, StartStep(l) \/ StartFault(l)
      PROVE  SupInv'
  BY <1>4, StartLeaseInv, StartReadsInv, StartSpawnInv, StartFailsInv DEF StartStep
<1>5. ASSUME NEW l \in Launches, ChildClaim(l) \/ ChildConclude(l) \/ ChildExit(l)
      PROVE  SupInv'
  BY <1>5, ClaimInv, ChildEndInv
<1>6. ASSUME NEW l \in Launches, Overrun(l) \/ KillTimer(l) \/ MonitorError(l) \/ MonitorStep(l)
      PROVE  SupInv'
  BY <1>6, SignalInv, MonitorErrorInv, MonitorReleaseInv, MonitorEndsInv DEF MonitorStep
<1>7. ASSUME NEW c \in Cancellers, NEW s \in Scans, CancelStep(c, s)
      PROVE  SupInv'
  BY <1>7, CancelReadsInv, CancelPendingInv, CancelOwnedInv DEF CancelStep
<1>8. ASSUME ShutdownStep
      PROVE  SupInv'
  BY <1>8, ShutdownPersistInv, ShutdownCancelInv, ShutdownTermInv, ShutdownReapInv,
     SignalInv,
     ShutdownGivesUpInv, ShutdownDrainInv, EndInv DEF ShutdownStep, ShutdownExit
<1>9. ASSUME Shutdown \/ Crash \/ Restart \/ RecoveryStep
      PROVE  SupInv'
  BY <1>9, ShutdownInv, EndInv, RestartInv DEF Crash, RecoveryStep
<1>10. CASE UNCHANGED vars
  BY <1>10, StutterInv
<1>11. QED
  BY <1>1, <1>2, <1>3, <1>4, <1>5, <1>6, <1>7, <1>8, <1>9, <1>10 DEF Next

\* The supervisor, its children and its database always agree as SupInv says,
\* through every interleaving of routes, launches, children, cancels, shutdown,
\* crashes and restarts.
THEOREM SupervisorInvariant == Spec => []SupInv
<1>1. Init => SupInv
  BY InitInv
<1>2. SupInv /\ [Next]_vars => SupInv'
  BY StepInv
<1>3. QED
  BY <1>1, <1>2, PTL DEF Spec

\* Every map, row and coroutine holds a value of its kind.
THEOREM SupervisorTypeCorrect == Spec => []TypeOK
<1>1. SupInv => TypeOK
  BY TypedIsTypeOK DEF SupInv
<1>2. QED
  BY <1>1, SupervisorInvariant, PTL

\* No lease leaks: who holds a slot of the gate is a start under way or the
\* monitor of a child.
THEOREM NoLeaseLeaks == Spec => []LeaseHasHolder
<1>1. SupInv => LeaseHasHolder
  <2> SUFFICES ASSUME SupInv, NEW l \in Launches, req[l] = "held", job[l].start \in {"idle", "done"}
               PROVE  job[l].monitor \in {"watch", "erring"} /\ owned[scan(l)] = l
    BY DEF LeaseHasHolder
  <2>1. Stage(l) /\ job[l].monitor \in {"idle", "watch", "erring", "find", "fail", "post", "done"}
    BY DEF SupInv, Stages, Typed, JobType
  <2>2. QED
    BY <2>1 DEF Stage
<1>2. QED
  BY <1>1, SupervisorInvariant, PTL

\* A child is in the owned map, with its lease, for as long as it lives, unless
\* it was sent SIGKILL.
THEOREM NoChildIsLost == Spec => []LiveChildIsOwned
<1>1. SupInv => LiveChildIsOwned
  <2> SUFFICES ASSUME SupInv, NEW l \in Launches, Live(l), job[l].monitor # "idle"
               PROVE  (owned[scan(l)] = l /\ req[l] = "held") \/ proc[l].signal = "kill"
    BY DEF LiveChildIsOwned
  <2>1. Stage(l) /\ job[l].monitor \in {"idle", "watch", "erring", "find", "fail", "post", "done"}
    BY DEF SupInv, Stages, Typed, JobType
  <2>2. QED
    BY <2>1 DEF Stage, LetGo
<1>2. QED
  BY <1>1, SupervisorInvariant, PTL

\* A scan is worked on by one child only, across cancels, replayed launches,
\* crashes and restarts.
THEOREM ScanHasOneExecutor == Spec => []OneExecutor
<1>1. SupInv => OneExecutor
  BY DEF SupInv
<1>2. QED
  BY <1>1, SupervisorInvariant, PTL

\* No scan is forgotten while the server runs and the database answers.
THEOREM NoScanIsForgotten == Spec => []ActiveScanHasKeeper
<1>1. SupInv => ActiveScanHasKeeper
  BY DEF SupInv
<1>2. QED
  BY <1>1, SupervisorInvariant, PTL

\* A server that serves has no active scan of an earlier server in its database.
THEOREM StaleScansAreRecovered == Spec => []NoScanOfEarlierRuntime
<1>1. SupInv => NoScanOfEarlierRuntime
  BY DEF SupInv
<1>2. QED
  BY <1>1, SupervisorInvariant, PTL

\* A graceful shutdown leaves no child running that was not killed, except one
\* whose launch came late.
THEOREM ShutdownIsClean == Spec => CleanShutdown
<1> DEFINE A == server.state = "stopping" /\ server'.state = "down"
                  /\ server.runtime < MaxIncarnations /\ shut.pc = "drain"
                => \A l \in Launches :
                     Live(l) /\ job[l].monitor # "idle"
                       => proc[l].signal = "kill" \/ job[l].late
<1>1. SupInv => A
  BY DEF SupInv, Stopping, LetGo
<1>2. Spec => [][A]_vars
  BY <1>1, SupervisorInvariant, PTL
<1>3. QED
  BY <1>2 DEF CleanShutdown

-----------------------------------------------------------------------------
(* The rows implement ScanLifecycle *)

\* A guarded update of a row is a conclusion of the lifecycle, or nothing.
LEMMA GuardedUpdate ==
  ASSUME NEW s \in Scans, NEW v \in {"completed", "failed", "cancelled"},
         updateScanRunStatus(s, v)
  PROVE  [Lifecycle!Next]_status
<1>1. CASE IsActiveStatus(s)
  <2>1. Lifecycle!Conclude(s, v)
    BY <1>1 DEF updateScanRunStatus, Lifecycle!Conclude, Lifecycle!Active,
       IsActiveStatus, Active
  <2>q. QED  BY <2>1 DEF Lifecycle!Next, Lifecycle!Verdicts
<1>2. CASE ~IsActiveStatus(s)
  BY <1>2 DEF updateScanRunStatus
<1>q. QED  BY <1>1, <1>2

\* Every step writes at most one row, and as the lifecycle allows.
LEMMA RowStep ==
  ASSUME SupInv, [Next]_vars
  PROVE  [Lifecycle!Next]_status
<1> USE DEF vars
<1>1. CASE \E s \in Scans : CreateScan(s)
  BY <1>1 DEF CreateScan, Lifecycle!Next, Lifecycle!Queue
<1>2. CASE \E s \in Scans : ReplayFind(s) \/ CancelRequest(s)
  BY <1>2 DEF ReplayFind, CancelRequest
<1>3. CASE \E s \in Scans : RouteFails(s)
  BY <1>3, GuardedUpdate DEF RouteFails
<1>4. CASE \E k \in Callers, s \in Scans : LaunchStep(k, s)
  <2>1. PICK k \in Callers, s \in Scans : LaunchStep(k, s)  BY <1>4
  <2>2. CASE LaunchRefused(k, s)
    BY <2>2, GuardedUpdate DEF LaunchRefused, failNonTerminal
  <2>3. CASE ~LaunchRefused(k, s)
    BY <2>1, <2>3 DEF LaunchStep, LaunchKnown, Launch
  <2>q. QED  BY <2>2, <2>3
<1>5. CASE \E c \in Commands : CommandStart(c) \/ CommandEnd(c)
  BY <1>5 DEF CommandStart, CommandEnd
<1>6. CASE \E l \in Launches : StartFail(l)
  <2>1. PICK l \in Launches : StartFail(l)  BY <1>6
  <2>2. scan(l) \in Scans  BY <2>1, StartingLaunch DEF StartFail, Starting
  <2>q. QED  BY <2>1, <2>2, GuardedUpdate DEF StartFail, failNonTerminal
<1>7. CASE \E l \in Launches : StartStep(l) /\ ~StartFail(l)
  BY <1>7 DEF StartStep, StartGranted, StartRejected, StartFind, StartMerge,
           StartReread, StartSpawn, StartFailed
<1>8. CASE \E l \in Launches : StartFault(l)
  BY <1>8 DEF StartFault
<1>9. CASE \E l \in Launches : ChildClaim(l) \/ ChildConclude(l)
  <2>1. PICK l \in Launches : ChildClaim(l) \/ ChildConclude(l)  BY <1>9
  <2>2. scan(l) \in Scans
    <3>1. proc[l].state # "none"  BY <2>1 DEF ChildClaim, ChildConclude
    <3>2. job[l].scan # None  BY <3>1 DEF SupInv, Stages, Stage
    <3>q. QED  BY <3>2 DEF SupInv, Typed, JobType, scan
  <2>3. CASE ChildClaim(l)
    BY <2>2, <2>3 DEF ChildClaim, Lifecycle!Next, Lifecycle!Start
  <2>4. CASE ChildConclude(l)
    BY <2>2, <2>4, GuardedUpdate DEF ChildConclude
  <2>q. QED  BY <2>1, <2>3, <2>4
<1>10. CASE \E l \in Launches : ChildExit(l)
  BY <1>10 DEF ChildExit
<1>11. CASE \E l \in Launches : Overrun(l) \/ KillTimer(l) \/ MonitorError(l)
  BY <1>11 DEF Overrun, KillTimer, MonitorError
<1>12. CASE \E l \in Launches : MonitorFail(l)
  <2>1. PICK l \in Launches : MonitorFail(l)  BY <1>12
  <2>2. job[l].start = "done"  BY <2>1 DEF MonitorFail, SupInv, Stages, Stage
  <2>3. scan(l) \in Scans
    BY <2>2 DEF SupInv, Stages, Stage, Typed, JobType, scan
  <2>q. QED  BY <2>1, <2>3, GuardedUpdate DEF MonitorFail, failNonTerminal
<1>13. CASE \E l \in Launches : MonitorStep(l) /\ ~MonitorFail(l)
  BY <1>13 DEF MonitorStep, MonitorExit, MonitorGivesUp, MonitorFind, MonitorPost
<1>14. CASE \E c \in Cancellers, s \in Scans : CancelPersist(c, s)
  BY <1>14, GuardedUpdate DEF CancelPersist, persistCancellation
<1>15. CASE \E c \in Cancellers, s \in Scans : CancelStep(c, s) /\ ~CancelPersist(c, s)
  <2>1. PICK c \in Cancellers, s \in Scans : CancelStep(c, s) /\ ~CancelPersist(c, s)
    BY <1>15
  <2>2. CASE CancelFind(c, s)  BY <2>2 DEF CancelFind
  <2>3. CASE CancelPending(c, s)  BY <2>3 DEF CancelPending
  <2>4. CASE CancelOwned(c, s)  BY <2>4 DEF CancelOwned
  <2>5. CASE CancelUnknown(c, s)  BY <2>5 DEF CancelUnknown
  <2>6. CASE CancelMark(c, s)  BY <2>6 DEF CancelMark
  <2>7. CASE CancelKill(c, s)  BY <2>7 DEF CancelKill
  <2>q. QED  BY <2>1, <2>2, <2>3, <2>4, <2>5, <2>6, <2>7 DEF CancelStep
<1>16. CASE \E s \in Scans : ShutdownPersist(s)
  BY <1>16, GuardedUpdate DEF ShutdownPersist, persistCancellation
<1>17. CASE ShutdownStep /\ ~\E s \in Scans : ShutdownPersist(s)
  BY <1>17 DEF ShutdownStep, ShutdownCancel, ShutdownTerm, ShutdownReap, ShutdownKill,
           ShutdownGivesUp, ShutdownDrain, ShutdownExit, ServerEnds
<1>18. CASE Shutdown \/ Crash \/ Restart \/ Serve
  BY <1>18 DEF Shutdown, Crash, Restart, Serve, ServerEnds
<1>19. CASE \E s \in Scans : Recover(s)
  BY <1>19, GuardedUpdate DEF Recover
<1>20. CASE UNCHANGED vars
  BY <1>20
<1>q. QED
  BY <1>1, <1>2, <1>3, <1>4, <1>5, <1>6, <1>7, <1>8, <1>9, <1>10, <1>11, <1>12, <1>13,
     <1>14, <1>15, <1>16, <1>17, <1>18, <1>19, <1>20
  DEF Next, RecoveryStep

\* The rows keep the promise of ScanLifecycle, whoever writes them: route,
\* launch, child, monitor, cancel, shutdown or recovery.  A scan is queued once,
\* started at most once, and its verdict is never overwritten.  (The safety
\* part of LifecycleFairSpec; its fairness is left to TLC.)
THEOREM RowsKeepPromise == Spec => Lifecycle!Spec
<1>1. Init => Lifecycle!Init  BY DEF Init, Lifecycle!Init
<1>2. SupInv /\ [Next]_vars => [Lifecycle!Next]_status  BY RowStep
<1>q. QED  BY <1>1, <1>2, SupervisorInvariant, PTL DEF Spec, Lifecycle!Spec

-----------------------------------------------------------------------------
(* A spawn for a scan that is decided *)

\* The stages before the spawn.
Early == {"lease", "find", "merge", "reread", "spawn"}

\* The scan is to be launched, or its launch is on its way to the spawn.
Undecided(s) ==
  \/ call["route"][s] = "launch"
  \/ pending[s] # None /\ job[pending[s]].start \in Early

\* Its row is active and nobody is about to write a verdict into it.
Untouched(s) ==
  /\ IsActiveStatus(s)
  /\ \A c \in Cancellers : cancel[c][s].pc \in {"idle", "find", "decide", "done"}
  /\ s \notin shut.scans

\* Where no request is replayed a scan is launched once, and whoever decides it
\* before its child is there has taken it out of the map pending first.
LaunchedOnce ==
  /\ \A s \in Scans : call["replay"][s] = "idle"
  /\ \A s \in Scans, l \in Launches : call["route"][s] \in {"idle", "launch"} => scan(l) # s
  /\ \A l, m \in Launches : scan(l) = scan(m) /\ scan(l) # None => l = m
  /\ \A s \in Scans : call["route"][s] \in {"full", "failing"} => pending[s] = None
  /\ server.state \in {"down", "recovering"} => \A s \in Scans : ~Undecided(s)
  /\ \A s \in Scans : Undecided(s) => Untouched(s)

\* A step that launches nothing keeps the launches apart; it may only decide
\* what is no longer on its way to a spawn.
LEMMA OnceKept ==
  ASSUME SupInv, SupInv', LaunchedOnce,
         \A s \in Scans : call'["replay"][s] = call["replay"][s],
         \A s \in Scans :
            \/ call'["route"][s] \in {call["route"][s], "done"}
            \/ call["route"][s] = "full" /\ call'["route"][s] = "failing",
         \A l \in Launches : job'[l].scan = job[l].scan,
         \A l \in Launches : job'[l].start \in Early => job[l].start \in Early,
         \A s \in Scans : pending'[s] \in {pending[s], None},
         \/ server'.state = server.state
         \/ server'.state \notin {"down", "recovering"}
         \/ server.state = "down"
         \/ \A s \in Scans : ~Undecided(s)',
         \A s \in Scans : Undecided(s) /\ Untouched(s) /\ Undecided(s)' => Untouched(s)'
  PROVE  LaunchedOnce'
<1>1. \A s \in Scans : Undecided(s)' => Undecided(s)
  <2> SUFFICES ASSUME NEW s \in Scans, Undecided(s)' PROVE Undecided(s)  OBVIOUS
  <2>1. CASE call'["route"][s] = "launch"
    BY <2>1 DEF Undecided
  <2>2. CASE pending'[s] # None /\ job'[pending'[s]].start \in Early
    <3>1. pending'[s] = pending[s]  BY <2>2
    <3>2. pending[s] \in Launches  BY <2>2, <3>1 DEF SupInv, Typed
    <3>q. QED  BY <2>2, <3>1, <3>2 DEF Undecided
  <2>q. QED  BY <2>1, <2>2 DEF Undecided
<1>2. \A s \in Scans : Undecided(s)' => Untouched(s)'
  BY <1>1 DEF LaunchedOnce
<1>3. \A s \in Scans : call'["replay"][s] = "idle"
  BY DEF LaunchedOnce
<1>4. /\ \A s \in Scans, l \in Launches :
           call'["route"][s] \in {"idle", "launch"} => job'[l].scan # s
      /\ \A l, m \in Launches : job'[l].scan = job'[m].scan /\ job'[l].scan # None => l = m
  BY DEF LaunchedOnce, scan
<1>5. \A s \in Scans : call'["route"][s] \in {"full", "failing"} => pending'[s] = None
  BY DEF LaunchedOnce
<1>6. server'.state \in {"down", "recovering"} => \A s \in Scans : ~Undecided(s)'
  BY <1>1 DEF LaunchedOnce
<1>q. QED  BY <1>2, <1>3, <1>4, <1>5, <1>6 DEF LaunchedOnce, scan

\* A step of a launch, a child or a monitor that writes no row.
LEMMA OnceQuiet ==
  ASSUME SupInv, SupInv', LaunchedOnce, UNCHANGED <<status, call, cancel, shut, server>>,
         \A l \in Launches : job'[l].scan = job[l].scan,
         \A l \in Launches : job'[l].start \in Early => job[l].start \in Early,
         \A s \in Scans : pending'[s] \in {pending[s], None}
  PROVE  LaunchedOnce'
<1>1. \A s \in Scans : Untouched(s) => Untouched(s)'
  BY DEF Untouched, IsActiveStatus
<1>q. QED  BY <1>1, OnceKept

\* The row of a scan that is decided, and only this row, is written.
LEMMA OnceVerdict ==
  ASSUME SupInv, SupInv', LaunchedOnce, NEW s \in Scans, ~Undecided(s),
         NEW v \in {"completed", "failed", "cancelled"},
         updateScanRunStatus(s, v) \/ UNCHANGED status
  PROVE  \A t \in Scans : Undecided(t) => IsActiveStatus(t)'
<1>1. \A t \in Scans \ {s} : status'[t] = status[t]
  BY DEF updateScanRunStatus, SupInv, Typed
<1>q. QED  BY <1>1 DEF LaunchedOnce, Untouched, IsActiveStatus

\* A scan with a launch that is past its start is decided.
LEMMA PastStart ==
  ASSUME SupInv, LaunchedOnce, NEW l \in Launches, scan(l) \in Scans,
         job[l].start \notin Early
  PROVE  ~Undecided(scan(l))
<1>1. call["route"][scan(l)] # "launch"  BY DEF LaunchedOnce
<1>2. pending[scan(l)] # None => pending[scan(l)] = l
  <2> SUFFICES ASSUME pending[scan(l)] # None PROVE pending[scan(l)] = l  OBVIOUS
  <2>1. pending[scan(l)] \in Launches  BY DEF SupInv, Typed
  <2>2. scan(pending[scan(l)]) = scan(l)  BY DEF SupInv, Maps
  <2>q. QED  BY <2>1, <2>2, NoneIsNoLaunch DEF LaunchedOnce
<1>q. QED  BY <1>1, <1>2 DEF Undecided

LEMMA OnceStep ==
  ASSUME SupInv, SupInv', LaunchedOnce, [Next]_vars, Replays = {}
  PROVE  LaunchedOnce'
<1>1. CASE \E s \in Scans : CreateScan(s)
  <2>1. PICK s \in Scans : CreateScan(s)  BY <1>1
  <2>2. /\ status[s] = "none" /\ server.state = "up"
        /\ status' = [status EXCEPT ![s] = "queued"]
        /\ call' = [call EXCEPT !["route"][s] = "launch"]
        /\ UNCHANGED <<pending, job, cancel, shut, server>>
    BY <2>1 DEF CreateScan
  <2>3. /\ call["route"][s] = "idle" /\ s \notin shut.scans
        /\ \A c \in Cancellers : cancel[c][s].pc = "idle"
    BY <2>2 DEF SupInv, Rows, Callers
  <2>4. /\ call'["route"][s] = "launch" /\ status'[s] = "queued"
        /\ \A t \in Scans \ {s} : call'["route"][t] = call["route"][t]
        /\ \A t \in Scans \ {s} : status'[t] = status[t]
        /\ \A t \in Scans : call'["replay"][t] = call["replay"][t]
    BY <2>2 DEF SupInv, Typed, Callers
  <2>5. \A t \in Scans \ {s} : /\ Undecided(t)' = Undecided(t)
                               /\ Untouched(t)' = Untouched(t)
    BY <2>2, <2>4 DEF Undecided, Untouched, IsActiveStatus
  <2>6. Untouched(s)'
    BY <2>2, <2>3, <2>4 DEF Untouched, IsActiveStatus, Active
  <2>7. \A l \in Launches : job'[l].scan = job[l].scan /\ job[l].scan # s
    BY <2>2, <2>3 DEF LaunchedOnce, scan
  <2>8. \A t \in Scans : Undecided(t)' => Untouched(t)'
    BY <2>5, <2>6 DEF LaunchedOnce
  <2>9. \A t \in Scans, l \in Launches :
           call'["route"][t] \in {"idle", "launch"} => job'[l].scan # t
    BY <2>4, <2>7 DEF LaunchedOnce, scan
  <2>10. \A l, m \in Launches : job'[l].scan = job'[m].scan /\ job'[l].scan # None => l = m
    BY <2>7 DEF LaunchedOnce, scan
  <2>11. \A t \in Scans : call'["route"][t] \in {"full", "failing"} => pending'[t] = None
    BY <2>2, <2>4 DEF LaunchedOnce
  <2>q. QED
    BY <2>2, <2>4, <2>8, <2>9, <2>10, <2>11 DEF LaunchedOnce, scan
<1>2. CASE \E s \in Scans : ReplayFind(s)
  BY <1>2 DEF ReplayFind
<1>3. CASE \E s \in Scans : CancelRequest(s)
  <2>1. PICK s \in Scans : CancelRequest(s)  BY <1>3
  <2>2. UNCHANGED <<status, pending, job, call, shut, server>>
    BY <2>1 DEF CancelRequest, cancelUnchanged
  <2>3. \A c \in Cancellers, t \in Scans : cancel'[c][t].pc \in {cancel[c][t].pc, "find"}
    BY <2>1 DEF CancelRequest, SupInv, Typed, CancelType, Cancellers
  <2>4. \A t \in Scans : Untouched(t) => Untouched(t)'
    BY <2>2, <2>3 DEF Untouched, IsActiveStatus
  <2>q. QED  BY <2>2, <2>4, OnceKept
<1>4. CASE \E s \in Scans : RouteFails(s)
  <2>1. PICK s \in Scans : RouteFails(s)  BY <1>4
  <2>2. /\ call["route"][s] = "failing" /\ call' = [call EXCEPT !["route"][s] = "done"]
        /\ updateScanRunStatus(s, "failed") \/ UNCHANGED status
        /\ UNCHANGED <<pending, job, cancel, shut, server>>
    BY <2>1 DEF RouteFails
  <2>3. ~Undecided(s)  BY <2>2 DEF LaunchedOnce, Undecided
  <2>4. \A t \in Scans : Undecided(t) => IsActiveStatus(t)'
    BY <2>2, <2>3, OnceVerdict
  <2>5. \A t \in Scans : Undecided(t) /\ Untouched(t) => Untouched(t)'
    BY <2>2, <2>4 DEF Untouched
  <2>6. \A t \in Scans : /\ call'["replay"][t] = call["replay"][t]
                         /\ call'["route"][t] \in {call["route"][t], "done"}
    BY <2>2 DEF SupInv, Typed, Callers
  <2>q. QED  BY <2>2, <2>5, <2>6, OnceKept
<1>5. CASE \E k \in Callers, s \in Scans : LaunchKnown(k, s)
  <2>1. PICK k \in Callers, s \in Scans : LaunchKnown(k, s)  BY <1>5
  <2>2. /\ k = "route" /\ call' = [call EXCEPT ![k][s] = "done"]
        /\ UNCHANGED <<status, pending, job, cancel, shut, server>>
    BY <2>1 DEF LaunchKnown, LaunchedOnce, Callers
  <2>3. \A t \in Scans : /\ call'["replay"][t] = call["replay"][t]
                         /\ call'["route"][t] \in {call["route"][t], "done"}
    BY <2>2 DEF SupInv, Typed, Callers
  <2>4. \A t \in Scans : Untouched(t) => Untouched(t)'
    BY <2>2 DEF Untouched, IsActiveStatus
  <2>q. QED  BY <2>2, <2>3, <2>4, OnceKept
<1>6. CASE \E k \in Callers, s \in Scans : LaunchRefused(k, s)
  <2>1. PICK k \in Callers, s \in Scans : LaunchRefused(k, s)  BY <1>6
  <2>2. /\ k = "route" /\ call[k][s] = "full"
        /\ call' = [call EXCEPT ![k][s] = IF s \in Replays THEN "done" ELSE "failing"]
        /\ updateScanRunStatus(s, "failed") \/ UNCHANGED status
        /\ UNCHANGED <<pending, job, cancel, shut, server>>
    BY <2>1 DEF LaunchRefused, LaunchedOnce, Callers, failNonTerminal
  <2>3. ~Undecided(s)  BY <2>2 DEF LaunchedOnce, Undecided
  <2>4. \A t \in Scans : Undecided(t) => IsActiveStatus(t)'
    BY <2>2, <2>3, OnceVerdict
  <2>5. \A t \in Scans : Undecided(t) /\ Untouched(t) => Untouched(t)'
    BY <2>2, <2>4 DEF Untouched
  <2>6. \A t \in Scans :
          /\ call'["replay"][t] = call["replay"][t]
          /\ \/ call'["route"][t] \in {call["route"][t], "done"}
             \/ call["route"][t] = "full" /\ call'["route"][t] = "failing"
    BY <2>2 DEF SupInv, Typed, Callers
  <2>q. QED  BY <2>2, <2>5, <2>6, OnceKept
<1>7. CASE \E k \in Callers, s \in Scans, l \in Launches : Launch(k, s, l)
  <2>1. PICK k \in Callers, s \in Scans, l \in Launches : Launch(k, s, l)  BY <1>7
  <2>2. /\ k = "route" /\ call["route"][s] = "launch" /\ pending[s] = None
        /\ job[l].scan = None /\ Alive
        /\ UNCHANGED <<status, cancel, shut, server>>
    BY <2>1 DEF Launch, LaunchedOnce, Callers
  <2>3. /\ \A t \in Scans \ {s} : /\ call'["route"][t] = call["route"][t]
                                  /\ pending'[t] = pending[t]
        /\ \A t \in Scans : call'["replay"][t] = call["replay"][t]
        /\ \/ call'["route"][s] = "full" /\ pending'[s] = None
           \/ call'["route"][s] = "done" /\ pending'[s] = l
        /\ job'[l].scan = s
        /\ \A m \in Launches \ {l} : job'[m] = job[m]
    BY SMTT(40), <2>1, <2>2 DEF Launch, SupInv, Typed, JobType, Callers
  <2>4. Undecided(s) /\ Untouched(s)  BY <2>2 DEF Undecided, LaunchedOnce
  <2>5. \A t \in Scans : Untouched(t) => Untouched(t)'
    BY <2>2 DEF Untouched, IsActiveStatus
  <2>6. \A t \in Scans \ {s} : Undecided(t)' => Undecided(t)
    <3> SUFFICES ASSUME NEW t \in Scans \ {s}, Undecided(t)' PROVE Undecided(t)  OBVIOUS
    <3>1. CASE call'["route"][t] = "launch"  BY <3>1, <2>3 DEF Undecided
    <3>2. CASE pending'[t] # None /\ job'[pending'[t]].start \in Early
      <4>1. pending[t] # None /\ pending[t] \in Launches /\ pending'[t] = pending[t]
        BY <3>2, <2>3 DEF SupInv, Typed
      <4>2. scan(pending[t]) = t  BY <4>1 DEF SupInv, Maps
      <4>3. pending[t] # l  BY <4>2, <2>2, NoneIsNoLaunch DEF scan
      <4>q. QED  BY <3>2, <4>1, <4>3, <2>3 DEF Undecided
    <3>q. QED  BY <3>1, <3>2 DEF Undecided
  <2>7. \A t \in Scans : Undecided(t)' => Untouched(t)'
    BY <2>4, <2>5, <2>6 DEF LaunchedOnce
  <2>8. \A m \in Launches \ {l} : job'[m].scan = job[m].scan /\ job[m].scan # s
    BY <2>2, <2>3 DEF LaunchedOnce, scan
  <2>9. \A t \in Scans, m \in Launches :
           call'["route"][t] \in {"idle", "launch"} => job'[m].scan # t
    BY <2>3, <2>8 DEF LaunchedOnce, scan
  <2>10. \A m, n \in Launches : job'[m].scan = job'[n].scan /\ job'[m].scan # None => m = n
    BY <2>3, <2>8 DEF LaunchedOnce, scan
  <2>11. \A t \in Scans : call'["route"][t] \in {"full", "failing"} => pending'[t] = None
    BY <2>3 DEF LaunchedOnce
  <2>12. server'.state \notin {"down", "recovering"}  BY <2>2 DEF Alive
  <2>13. \A t \in Scans : call'["replay"][t] = "idle"  BY <2>3 DEF LaunchedOnce
  <2>q. QED
    BY <2>7, <2>9, <2>10, <2>11, <2>12, <2>13 DEF LaunchedOnce, scan
<1>8. CASE \E c \in Commands : CommandStart(c) \/ CommandEnd(c)
  BY <1>8, OnceQuiet DEF CommandStart, CommandEnd
<1>9. CASE \E l \in Launches : StartFail(l)
  <2>1. PICK l \in Launches : StartFail(l)  BY <1>9
  <2>2. /\ job[l].start = "failing" /\ job' = [job EXCEPT ![l].start = "failed"]
        /\ updateScanRunStatus(scan(l), "failed") \/ UNCHANGED status
        /\ UNCHANGED <<call, pending, cancel, shut, server>>
    BY <2>1 DEF StartFail, failNonTerminal
  <2>3. scan(l) \in Scans  BY <2>2, StartingLaunch DEF Starting
  <2>4. ~Undecided(scan(l))  BY <2>2, <2>3, PastStart DEF Early
  <2>5. \A t \in Scans : Undecided(t) => IsActiveStatus(t)'
    BY <2>2, <2>3, <2>4, OnceVerdict
  <2>6. \A t \in Scans : Undecided(t) /\ Untouched(t) => Untouched(t)'
    BY <2>2, <2>5 DEF Untouched
  <2>7. \A m \in Launches : /\ job'[m].scan = job[m].scan
                            /\ job'[m].start \in Early => job[m].start \in Early
    BY <2>2 DEF SupInv, Typed, JobType, Early
  <2>q. QED  BY <2>2, <2>6, <2>7, OnceKept
<1>10. CASE \E l \in Launches : (StartStep(l) /\ ~StartFail(l)) \/ StartFault(l)
  <2>1. PICK l \in Launches : (StartStep(l) /\ ~StartFail(l)) \/ StartFault(l)  BY <1>10
  <2>2. UNCHANGED <<status, call, cancel, shut, server>>
    BY <2>1 DEF StartStep, StartGranted, StartRejected, StartFind, StartMerge,
       StartReread, StartSpawn, StartFailed, StartFault
  <2>3. pending' \in {pending, PendingWithout(l)}
    BY <2>1 DEF StartStep, StartGranted, StartRejected, StartFind, StartMerge,
       StartReread, StartSpawn, StartFailed, StartFault, StartEnds, Spawned
  <2>4. \A s \in Scans : pending'[s] \in {pending[s], None}
    BY <2>3 DEF PendingWithout, SupInv, Typed
  <2>5. \A m \in Launches : /\ job'[m].scan = job[m].scan
                            /\ job'[m].start \in Early => job[m].start \in Early
    <3>1. job \in [Launches -> JobType]  BY DEF SupInv, Typed
    <3>2. CASE StartGranted(l)
      BY <3>1, <3>2 DEF StartGranted, StartEnds, JobType, Early
    <3>3. CASE StartRejected(l)
      BY <3>1, <3>3 DEF StartRejected, JobType, Early
    <3>4. CASE StartFind(l)
      BY <3>1, <3>4 DEF StartFind, StartEnds, JobType, Early
    <3>5. CASE StartMerge(l)
      BY <3>1, <3>5 DEF StartMerge, JobType, Early
    <3>6. CASE StartReread(l)
      BY <3>1, <3>6 DEF StartReread, StartEnds, JobType, Early
    <3>7. CASE StartSpawn(l)
      BY <3>1, <3>7 DEF StartSpawn, StartEnds, Spawned, JobType, Early
    <3>8. CASE StartFailed(l)
      BY <3>1, <3>8 DEF StartFailed, StartEnds, JobType, Early
    <3>9. CASE StartFault(l)
      BY <3>1, <3>9 DEF StartFault, StartEnds, JobType, Early
    <3>q. QED  BY <2>1, <3>2, <3>3, <3>4, <3>5, <3>6, <3>7, <3>8, <3>9 DEF StartStep
  <2>q. QED  BY <2>2, <2>4, <2>5, OnceQuiet
<1>11. CASE \E l \in Launches : ChildClaim(l)
  <2>1. PICK l \in Launches : ChildClaim(l)  BY <1>11
  <2>2. /\ proc[l].state = "booting" /\ status' = [status EXCEPT ![scan(l)] = "running"]
        /\ UNCHANGED <<call, pending, job, cancel, shut, server>>
    BY <2>1 DEF ChildClaim, childUnchanged
  <2>3. \A t \in Scans : IsActiveStatus(t) => IsActiveStatus(t)'
    BY <2>2 DEF IsActiveStatus, Active, SupInv, Typed
  <2>4. \A t \in Scans : Untouched(t) => Untouched(t)'
    BY <2>2, <2>3 DEF Untouched
  <2>q. QED  BY <2>2, <2>4, OnceKept
<1>12. CASE \E l \in Launches : ChildConclude(l)
  <2>1. PICK l \in Launches : ChildConclude(l)  BY <1>12
  <2>2. /\ proc[l].state = "running"
        /\ UNCHANGED <<call, pending, job, cancel, shut, server>>
    BY <2>1 DEF ChildConclude, childUnchanged
  <2>3. PICK v \in {"completed", "failed"} : updateScanRunStatus(scan(l), v)
    BY <2>1 DEF ChildConclude
  <2>4. job[l].scan # None /\ job[l].start \notin Starting
    BY <2>2 DEF SupInv, Stages, Stage
  <2>5. scan(l) \in Scans  BY <2>4 DEF SupInv, Typed, JobType, scan
  <2>6. ~Undecided(scan(l))  BY <2>4, <2>5, PastStart DEF Early, Starting
  <2>7. \A t \in Scans : Undecided(t) => IsActiveStatus(t)'
    BY <2>3, <2>5, <2>6, OnceVerdict
  <2>8. \A t \in Scans : Undecided(t) /\ Untouched(t) => Untouched(t)'
    BY <2>2, <2>7 DEF Untouched
  <2>q. QED  BY <2>2, <2>8, OnceKept
<1>13. CASE \E l \in Launches : ChildExit(l)
  BY <1>13, OnceQuiet DEF ChildExit, childUnchanged
<1>14. CASE \E l \in Launches : Overrun(l) \/ KillTimer(l) \/ MonitorError(l) \/ (MonitorStep(l) /\ ~MonitorFail(l))
  <2>1. PICK l \in Launches : \/ Overrun(l) \/ KillTimer(l) \/ MonitorError(l)
                              \/ MonitorStep(l) /\ ~MonitorFail(l)
    BY <1>14
  <2>2. UNCHANGED <<status, call, cancel, shut, server, pending>>
    BY <2>1 DEF Overrun, KillTimer, MonitorError, MonitorStep, MonitorExit,
       MonitorGivesUp, MonitorFind, MonitorPost
  <2>4. \A m \in Launches : /\ job'[m].scan = job[m].scan
                            /\ job'[m].start \in Early => job[m].start \in Early
    <3>1. job \in [Launches -> JobType]  BY DEF SupInv, Typed
    <3>2. CASE Overrun(l)
      BY <3>1, <3>2 DEF Overrun, terminateOwnedProcess, JobType
    <3>3. CASE KillTimer(l)
      BY <3>1, <3>3 DEF KillTimer, JobType
    <3>4. CASE MonitorError(l)
      BY <3>1, <3>4 DEF MonitorError, terminateOwnedProcess, JobType
    <3>5. CASE MonitorExit(l)
      BY <3>1, <3>5 DEF MonitorExit, releaseOwnership, JobType
    <3>6. CASE MonitorGivesUp(l)
      BY <3>1, <3>6 DEF MonitorGivesUp, releaseOwnership, JobType
    <3>7. CASE MonitorFind(l)
      BY <3>1, <3>7 DEF MonitorFind, MonitorDone, JobType
    <3>8. CASE MonitorPost(l)
      BY <3>1, <3>8 DEF MonitorPost, MonitorDone, JobType
    <3>q. QED  BY <2>1, <3>2, <3>3, <3>4, <3>5, <3>6, <3>7, <3>8 DEF MonitorStep
  <2>q. QED  BY <2>2, <2>4, OnceQuiet
<1>15. CASE \E l \in Launches : MonitorFail(l)
  <2>1. PICK l \in Launches : MonitorFail(l)  BY <1>15
  <2>2. /\ job[l].monitor = "fail" /\ job' = MonitorDone(l)
        /\ updateScanRunStatus(scan(l), "failed") \/ UNCHANGED status
        /\ UNCHANGED <<call, pending, cancel, shut, server>>
    BY <2>1 DEF MonitorFail, failNonTerminal
  <2>3. job[l].start = "done"  BY <2>2 DEF SupInv, Stages, Stage
  <2>4. scan(l) \in Scans  BY <2>3 DEF SupInv, Stages, Stage, Typed, JobType, scan
  <2>5. ~Undecided(scan(l))  BY <2>3, <2>4, PastStart DEF Early
  <2>6. \A t \in Scans : Undecided(t) => IsActiveStatus(t)'
    BY <2>2, <2>4, <2>5, OnceVerdict
  <2>7. \A t \in Scans : Undecided(t) /\ Untouched(t) => Untouched(t)'
    BY <2>2, <2>6 DEF Untouched
  <2>8. \A m \in Launches : /\ job'[m].scan = job[m].scan
                            /\ job'[m].start \in Early => job[m].start \in Early
    BY <2>2 DEF SupInv, Typed, JobType, MonitorDone
  <2>q. QED  BY <2>2, <2>7, <2>8, OnceKept
<1>16. CASE \E c \in Cancellers, s \in Scans : CancelFind(c, s)
  <2>1. PICK c \in Cancellers, s \in Scans : CancelFind(c, s)  BY <1>16
  <2>2. UNCHANGED <<status, pending, job, call, shut, server>>
    BY <2>1 DEF CancelFind, cancelUnchanged
  <2>3. \A e \in Cancellers, t \in Scans :
          cancel'[e][t].pc \in {cancel[e][t].pc, "decide", "done"}
    BY <2>1 DEF CancelFind, SupInv, Typed, CancelType
  <2>4. \A t \in Scans : Untouched(t) => Untouched(t)'
    BY <2>2, <2>3 DEF Untouched, IsActiveStatus
  <2>q. QED  BY <2>2, <2>4, OnceKept
<1>17. CASE \E c \in Cancellers, s \in Scans : CancelUnknown(c, s)
  <2>1. PICK c \in Cancellers, s \in Scans : CancelUnknown(c, s)  BY <1>17
  <2>2. UNCHANGED <<status, pending, job, call, shut, server>>
    BY <2>1 DEF CancelUnknown, cancelUnchanged
  <2>3. \A e \in Cancellers, t \in Scans :
          cancel'[e][t].pc \in {cancel[e][t].pc, "decide", "done"}
    BY <2>1 DEF CancelUnknown, SupInv, Typed, CancelType, Answered, NoCancel
  <2>4. \A t \in Scans : Untouched(t) => Untouched(t)'
    BY <2>2, <2>3 DEF Untouched, IsActiveStatus
  <2>q. QED  BY <2>2, <2>4, OnceKept
<1>18. CASE \E c \in Cancellers, s \in Scans : CancelPending(c, s)
  <2>1. PICK c \in Cancellers, s \in Scans : CancelPending(c, s)  BY <1>18
  <2>2. /\ pending[s] # None /\ pending' = [pending EXCEPT ![s] = None]
        /\ job' = [job EXCEPT ![pending[s]].aborted = TRUE]
        /\ UNCHANGED <<status, call, shut, server>>
    BY <2>1 DEF CancelPending, cancelUnchanged
  <2>3. \A e \in Cancellers, t \in Scans \ {s} : cancel'[e][t] = cancel[e][t]
    BY <2>1 DEF CancelPending, Answered, SupInv, Typed
  <2>4. pending[s] \in Launches /\ scan(pending[s]) = s
    BY <2>2 DEF SupInv, Typed, Maps
  <2>5. call["route"][s] # "launch"  BY <2>4 DEF LaunchedOnce
  <2>6. pending'[s] = None /\ \A t \in Scans : pending'[t] \in {pending[t], None}
    BY <2>2 DEF SupInv, Typed
  <2>7. ~Undecided(s)'  BY <2>2, <2>5, <2>6 DEF Undecided
  <2>8. \A t \in Scans \ {s} : Untouched(t) => Untouched(t)'
    BY <2>2, <2>3 DEF Untouched, IsActiveStatus
  <2>9. \A m \in Launches : /\ job'[m].scan = job[m].scan
                            /\ job'[m].start \in Early => job[m].start \in Early
    BY <2>2, <2>4 DEF SupInv, Typed, JobType
  <2>q. QED  BY <2>2, <2>6, <2>7, <2>8, <2>9, OnceKept
<1>19. CASE \E c \in Cancellers, s \in Scans : CancelOwned(c, s)
  <2>1. PICK c \in Cancellers, s \in Scans : CancelOwned(c, s)  BY <1>19
  <2>2. owned[s] # None /\ UNCHANGED <<status, pending, job, call, shut, server>>
    BY <2>1 DEF CancelOwned, cancelUnchanged
  <2>3. \A e \in Cancellers, t \in Scans \ {s} : cancel'[e][t] = cancel[e][t]
    BY <2>1 DEF CancelOwned, SupInv, Typed
  <2>4. /\ owned[s] \in Launches /\ scan(owned[s]) = s
        /\ job[owned[s]].monitor \in {"watch", "erring"}
    BY <2>2 DEF SupInv, Typed, Maps
  <2>5. job[owned[s]].start = "done"  BY <2>4 DEF SupInv, Stages, Stage
  <2>6. ~Undecided(s)  BY <2>4, <2>5, PastStart DEF Early
  <2>7. \A t \in Scans \ {s} : Untouched(t) => Untouched(t)'
    BY <2>2, <2>3 DEF Untouched, IsActiveStatus
  <2>q. QED  BY <2>2, <2>6, <2>7, OnceKept
<1>20. CASE \E c \in Cancellers, s \in Scans : CancelMark(c, s)
  <2>1. PICK c \in Cancellers, s \in Scans : CancelMark(c, s)  BY <1>20
  <2>2. cancel[c][s].pc = "mark" /\ UNCHANGED <<status, pending, call, shut, server>>
    BY <2>1 DEF CancelMark, cancelUnchanged
  <2>3. \A e \in Cancellers, t \in Scans \ {s} : cancel'[e][t] = cancel[e][t]
    BY <2>1 DEF CancelMark, SupInv, Typed
  <2>4. ~Undecided(s)  BY <2>2 DEF LaunchedOnce, Untouched
  <2>5. \A t \in Scans \ {s} : Untouched(t) => Untouched(t)'
    BY <2>2, <2>3 DEF Untouched, IsActiveStatus
  <2>6. \A m \in Launches : /\ job'[m].scan = job[m].scan
                            /\ job'[m].start \in Early => job[m].start \in Early
    <3>1. cancel[c][s].of \in Launches
      BY <2>2 DEF SupInv, Cancels, Typed, CancelType
    <3>q. QED  BY <2>1, <3>1 DEF CancelMark, SupInv, Typed, JobType
  <2>q. QED  BY <2>2, <2>4, <2>5, <2>6, OnceKept
<1>21. CASE \E c \in Cancellers, s \in Scans : CancelKill(c, s)
  <2>1. PICK c \in Cancellers, s \in Scans : CancelKill(c, s)  BY <1>21
  <2>2. cancel[c][s].pc = "kill" /\ UNCHANGED <<status, pending, call, shut, server>>
    BY <2>1 DEF CancelKill, cancelUnchanged
  <2>3. \A e \in Cancellers, t \in Scans \ {s} : cancel'[e][t] = cancel[e][t]
    BY <2>1 DEF CancelKill, SupInv, Typed, Answered
  <2>4. ~Undecided(s)  BY <2>2 DEF LaunchedOnce, Untouched
  <2>5. \A t \in Scans \ {s} : Untouched(t) => Untouched(t)'
    BY <2>2, <2>3 DEF Untouched, IsActiveStatus
  <2>6. \A m \in Launches : /\ job'[m].scan = job[m].scan
                            /\ job'[m].start \in Early => job[m].start \in Early
    <3>1. cancel[c][s].of \in Launches
      BY <2>2 DEF SupInv, Cancels, Typed, CancelType
    <3>q. QED  BY SMTT(40), <2>1, <3>1 DEF CancelKill, SupInv, Typed, JobType
  <2>q. QED  BY <2>2, <2>4, <2>5, <2>6, OnceKept
<1>22. CASE \E c \in Cancellers, s \in Scans : CancelPersist(c, s)
  <2>1. PICK c \in Cancellers, s \in Scans : CancelPersist(c, s)  BY <1>22
  <2>2. /\ cancel[c][s].pc = "persist" /\ UNCHANGED <<pending, job, call, shut, server>>
        /\ updateScanRunStatus(s, "cancelled") \/ UNCHANGED status
    BY <2>1 DEF CancelPersist, cancelUnchanged, persistCancellation
  <2>3. \A e \in Cancellers, t \in Scans \ {s} : cancel'[e][t] = cancel[e][t]
    <3>1. cancel \in [Cancellers -> [Scans -> CancelType]]  BY DEF SupInv, Typed
    <3>2. \E r : cancel' = [cancel EXCEPT ![c][s] = r]
      BY ZenonT(60), <2>1, <3>1 DEF CancelPersist, Answered
    <3>q. QED  BY <3>1, <3>2
  <2>4. ~Undecided(s)  BY <2>2 DEF LaunchedOnce, Untouched
  <2>5. \A t \in Scans : Undecided(t) => IsActiveStatus(t)'
    BY <2>2, <2>4, OnceVerdict
  <2>6. \A t \in Scans \ {s} : Undecided(t) /\ Untouched(t) => Untouched(t)'
    BY <2>2, <2>3, <2>5 DEF Untouched
  <2>q. QED  BY <2>2, <2>4, <2>6, OnceKept
<1>23. CASE \E s \in Scans : ShutdownPersist(s)
  <2>1. PICK s \in Scans : ShutdownPersist(s)  BY <1>23
  <2>2. /\ s \in shut.scans /\ shut' = [shut EXCEPT !.scans = shut.scans \ {s}]
        /\ updateScanRunStatus(s, "cancelled") \/ UNCHANGED status
        /\ UNCHANGED <<call, pending, job, cancel, server>>
    BY <2>1 DEF ShutdownPersist, persistCancellation
  <2>3. shut'.scans = shut.scans \ {s}  BY <2>2 DEF SupInv, Typed, ShutType
  <2>4. ~Undecided(s)  BY <2>2 DEF LaunchedOnce, Untouched
  <2>5. \A t \in Scans : Undecided(t) => IsActiveStatus(t)'
    BY <2>2, <2>4, OnceVerdict
  <2>6. \A t \in Scans : Undecided(t) /\ Untouched(t) => Untouched(t)'
    BY <2>2, <2>3, <2>5 DEF Untouched
  <2>q. QED  BY <2>2, <2>6, OnceKept
<1>24. CASE ShutdownCancel
  <2>1. UNCHANGED <<status, call, pending, job, server>>  BY <1>24 DEF ShutdownCancel
  <2>2. shut'.scans = shut.scans  BY <1>24 DEF ShutdownCancel, SupInv, Typed, ShutType
  <2>3. \A e \in Cancellers, t \in Scans :
          cancel'[e][t].pc \in {cancel[e][t].pc, "find", "idle"}
    BY <1>24 DEF ShutdownCancel, SupInv, Typed, CancelType, NoCancel
  <2>4. \A t \in Scans : Untouched(t) => Untouched(t)'
    BY <2>1, <2>2, <2>3 DEF Untouched, IsActiveStatus
  <2>q. QED  BY <2>1, <2>4, OnceKept
<1>25. CASE \/ ShutdownTerm \/ ShutdownDrain
            \/ \E l \in Launches : ShutdownReap(l) \/ ShutdownKill(l) \/ ShutdownGivesUp(l)
  <2>1. UNCHANGED <<status, call, pending, cancel, server>>
    BY <1>25 DEF ShutdownTerm, ShutdownDrain, ShutdownReap, ShutdownKill,
       ShutdownGivesUp
  <2>2. shut'.scans = shut.scans
    BY <1>25 DEF ShutdownTerm, ShutdownDrain, ShutdownReap, ShutdownKill,
       ShutdownGivesUp,
       SupInv, Typed, ShutType
  <2>3. \A t \in Scans : Untouched(t) => Untouched(t)'
    BY <2>1, <2>2 DEF Untouched, IsActiveStatus
  <2>4. \A m \in Launches : /\ job'[m].scan = job[m].scan
                            /\ job'[m].start \in Early => job[m].start \in Early
    <3>1. job \in [Launches -> JobType]  BY DEF SupInv, Typed
    <3>2. CASE ShutdownTerm  BY <3>1, <3>2 DEF ShutdownTerm, JobType
    <3>3. CASE ShutdownDrain  BY <3>3 DEF ShutdownDrain
    <3>4. CASE \E l \in Launches : ShutdownReap(l) \/ ShutdownKill(l)
      BY <3>4 DEF ShutdownReap, ShutdownKill
    <3>5. CASE \E l \in Launches : ShutdownGivesUp(l)
      BY <3>1, <3>5 DEF ShutdownGivesUp, releaseOwnership, JobType
    <3>q. QED  BY <1>25, <3>2, <3>3, <3>4, <3>5
  <2>q. QED  BY <2>1, <2>3, <2>4, OnceKept
<1>26. CASE ShutdownExit \/ Crash
  <2>1. ServerEnds  BY <1>26 DEF ShutdownExit, Crash
  <2>2. /\ \A s \in Scans : call'["route"][s] \in {call["route"][s], "done"} \ {"launch"}
        /\ \A s \in Scans : call'["replay"][s] = call["replay"][s]
        /\ \A s \in Scans : pending'[s] = None
    BY <2>1 DEF ServerEnds, LaunchedOnce, Callers
  <2>3. \A l \in Launches : job'[l].scan = job[l].scan /\ job'[l].start = "idle"
    BY <2>1 DEF ServerEnds, NoJob
  <2>4. \A s \in Scans : ~Undecided(s)'  BY <2>2 DEF Undecided
  <2>q. QED  BY <2>2, <2>3, <2>4, OnceKept DEF Early
<1>27. CASE Shutdown
  <2>1. /\ UNCHANGED <<status, call, cancel>> /\ \A s \in Scans : pending'[s] = None
        /\ shut'.scans = {s \in Scans : pending[s] # None} /\ server'.state = "stopping"
    BY <1>27 DEF Shutdown, SupInv, Typed, ShutType, ServerType
  <2>2. \A s \in Scans : Undecided(s)' => pending[s] = None
    <3> SUFFICES ASSUME NEW s \in Scans, Undecided(s)', pending[s] # None PROVE FALSE
      OBVIOUS
    <3>1. call["route"][s] = "launch"  BY <2>1 DEF Undecided
    <3>2. pending[s] \in Launches /\ scan(pending[s]) = s  BY DEF SupInv, Typed, Maps
    <3>q. QED  BY <3>1, <3>2 DEF LaunchedOnce
  <2>3. \A s \in Scans : Untouched(s) /\ Undecided(s)' => Untouched(s)'
    BY <2>1, <2>2 DEF Untouched, IsActiveStatus
  <2>4. \A m \in Launches : /\ job'[m].scan = job[m].scan
                            /\ job'[m].start \in Early => job[m].start \in Early
    BY <1>27 DEF Shutdown, SupInv, Typed, JobType
  <2>q. QED  BY <2>1, <2>3, <2>4, OnceKept
<1>28. CASE Restart \/ Serve
  <2>1. UNCHANGED <<status, call, pending, job, cancel, shut>>  BY <1>28 DEF Restart, Serve
  <2>2. server.state = "down" \/ server'.state = "up"
    BY <1>28 DEF Restart, Serve, SupInv, Typed, ServerType
  <2>3. \A s \in Scans : Untouched(s) => Untouched(s)'
    BY <2>1 DEF Untouched, IsActiveStatus
  <2>q. QED  BY <2>1, <2>2, <2>3, OnceKept
<1>29. CASE \E s \in Scans : Recover(s)
  <2>1. /\ UNCHANGED <<call, pending, job, cancel, shut>>
        /\ server.state = "recovering" /\ server'.state = server.state
    BY <1>29 DEF Recover, SupInv, Typed, ServerType
  <2>2. \A s \in Scans : ~Undecided(s)  BY <2>1 DEF LaunchedOnce
  <2>q. QED  BY <2>1, <2>2, OnceKept
<1>30. CASE UNCHANGED vars
  BY <1>30, OnceQuiet DEF vars
<1>q. QED
  BY <1>1, <1>2, <1>3, <1>4, <1>5, <1>6, <1>7, <1>8, <1>9, <1>10, <1>11, <1>12, <1>13,
     <1>14, <1>15, <1>16, <1>17, <1>18, <1>19, <1>20, <1>21, <1>22, <1>23, <1>24,
     <1>25, <1>26, <1>27, <1>28, <1>29, <1>30
  DEF Next, LaunchStep, RecoveryStep, CancelStep, ShutdownStep

\* Only the spawn gives a launch a child.
LEMMA SpawnIsSpawned ==
  ASSUME SupInv, [Next]_vars, NEW l \in Launches,
         proc[l].state = "none", proc'[l].state = "booting"
  PROVE  StartSpawn(l) /\ ~job[l].aborted
<1>0. proc \in [Launches -> ProcType]  BY DEF SupInv, Typed
<1>1. CASE UNCHANGED proc  BY <1>1
<1>2. ASSUME NEW m \in Launches, NEW sig, proc' = Signalled(m, sig)  PROVE FALSE
  BY <1>0, <1>2 DEF Signalled, ProcType
<1>3. ASSUME NEW m \in Launches, ChildClaim(m) \/ ChildConclude(m) \/ ChildExit(m)
      PROVE  FALSE
  BY <1>0, <1>3 DEF ChildClaim, ChildConclude, ChildExit, ProcType
<1>4. ASSUME NEW m \in Launches, StartSpawn(m)  PROVE StartSpawn(l) /\ ~job[l].aborted
  BY <1>0, <1>1, <1>4 DEF StartSpawn, Spawned, ProcType
<1>5. ASSUME NEW m \in Launches, StartStep(m) \/ StartFault(m)
      PROVE  StartSpawn(l) /\ ~job[l].aborted
  BY <1>1, <1>4, <1>5 DEF StartStep, StartGranted, StartRejected, StartFind, StartMerge,
     StartReread, StartFail, StartFailed, StartFault
<1>6. ASSUME NEW m \in Launches,
             Overrun(m) \/ KillTimer(m) \/ MonitorError(m) \/ MonitorStep(m)
      PROVE  FALSE
  <2>1. proc' = proc \/ \E sig : proc' = Signalled(m, sig)
    BY <1>6 DEF Overrun, KillTimer, MonitorError, MonitorStep, MonitorExit,
       MonitorGivesUp,
       MonitorFind, MonitorFail, MonitorPost, terminateOwnedProcess
  <2>q. QED  BY <2>1, <1>2
<1>7. ASSUME NEW c \in Cancellers, NEW s \in Scans, CancelStep(c, s)  PROVE FALSE
  <2>1. CASE CancelKill(c, s)
    <3>1. cancel[c][s].of \in Launches
      BY <2>1 DEF CancelKill, SupInv, Cancels, Typed, CancelType
    <3>q. QED  BY <2>1, <3>1, <1>2 DEF CancelKill
  <2>2. CASE ~CancelKill(c, s)
    BY <1>7, <2>2 DEF CancelStep, CancelFind, CancelPending, CancelOwned, CancelUnknown,
       CancelMark, CancelPersist
  <2>q. QED  BY <2>1, <2>2
<1>8. ASSUME ShutdownStep  PROVE FALSE
  <2>1. CASE ShutdownTerm
    BY <2>1, <1>0 DEF ShutdownTerm, Signalled, ProcType
  <2>2. CASE \E m \in Launches : ShutdownKill(m)
    BY <2>2, <1>2 DEF ShutdownKill
  <2>3. CASE ~ShutdownTerm /\ ~\E m \in Launches : ShutdownKill(m)
    BY <1>8, <2>3 DEF ShutdownStep, ShutdownPersist, ShutdownCancel, ShutdownReap,
       ShutdownGivesUp, ShutdownDrain, ShutdownExit, ServerEnds
  <2>q. QED  BY <2>1, <2>2, <2>3
<1>9. ASSUME Shutdown \/ Crash \/ Restart \/ RecoveryStep  PROVE FALSE
  BY <1>9 DEF Shutdown, Crash, ServerEnds, Restart, RecoveryStep, Recover, Serve
<1>10. ASSUME NEW s \in Scans, CreateScan(s) \/ ReplayFind(s) \/ CancelRequest(s) \/ RouteFails(s)
       PROVE  FALSE
  BY <1>10 DEF CreateScan, ReplayFind, CancelRequest, RouteFails
<1>11. ASSUME NEW k \in Callers, NEW s \in Scans, LaunchStep(k, s)  PROVE FALSE
  BY <1>11 DEF LaunchStep, LaunchKnown, Launch, LaunchRefused
<1>12. ASSUME NEW c \in Commands, CommandStart(c) \/ CommandEnd(c)  PROVE FALSE
  BY <1>12 DEF CommandStart, CommandEnd
<1>q. QED
  BY <1>1, <1>3, <1>5, <1>6, <1>7, <1>8, <1>9, <1>10, <1>11, <1>12 DEF Next, vars

\* Where no request is replayed a child is only spawned for a scan that is still
\* active: cancel and shutdown drop the entry of the launch before they write the
\* verdict, and the launch looks at its signal last.  (With replayed requests
\* this is false, as the run supervisor_replay_spawn shows.)
THEOREM SpawnsAreActive ==
  ASSUME Replays = {}
  PROVE  Spec => SpawnOnlyActive
<1>1. Init => LaunchedOnce
  BY NoneIsNoLaunch DEF Init, LaunchedOnce, Undecided, NoJob, NoShutdown, Callers, scan
<1>2. SupInv /\ SupInv' /\ LaunchedOnce /\ [Next]_vars => LaunchedOnce'
  BY OnceStep
<1>3. ASSUME SupInv, LaunchedOnce, [Next]_vars
      PROVE  [\A l \in Launches : proc[l].state = "none" /\ proc'[l].state = "booting"
                => IsActiveStatus(scan(l))]_vars
  <2> SUFFICES ASSUME NEW l \in Launches,
                      proc[l].state = "none", proc'[l].state = "booting"
               PROVE  IsActiveStatus(scan(l))
    OBVIOUS
  <2>1. StartSpawn(l) /\ ~job[l].aborted
    BY <1>3, SpawnIsSpawned
  <2>2. job[l].start = "spawn"  BY <2>1 DEF StartSpawn
  <2>3. pending[scan(l)] = l /\ scan(l) \in Scans
    BY <1>3, <2>1, <2>2, StartingLaunch DEF Starting
  <2>4. Undecided(scan(l))  BY <2>2, <2>3, NoneIsNoLaunch DEF Undecided, Early
  <2>q. QED  BY <1>3, <2>3, <2>4 DEF LaunchedOnce, Untouched
<1>q. QED
  BY <1>1, <1>2, <1>3, SupervisorInvariant, PTL DEF Spec, SpawnOnlyActive
=============================================================================

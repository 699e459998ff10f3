---------------------------- MODULE ScanSupervisor ----------------------------
(***************************************************************************)
(* A Web scan from the row a route inserts to the verdict in that row:     *)
(* class ScanProcessSupervisor (scan-process-supervisor.ts) with the       *)
(* routes that call it, the guards of ScanRepository, the child process    *)
(* that claims and concludes the scan, the capacity gate, and the crash,   *)
(* the shutdown and the restart of the server.                             *)
(*                                                                         *)
(* The server is one JavaScript thread.  An action is what one coroutine   *)
(* does between two awaits, so everything the other coroutines, the timers *)
(* and the children do may come between two actions of a coroutine, and    *)
(* what it read before an await may be stale after it.  A database call is *)
(* an action of its own; it may fail while the budget of faults lasts.     *)
(*                                                                         *)
(* One launch is one call of launch() that got past its first check; it is *)
(* also the launch token and the request at the capacity gate.             *)
(***************************************************************************)
EXTENDS Integers, FiniteSets

CONSTANTS
  Scans,           \* scan runs
  Launches,        \* launch tokens
  Commands,        \* CLI commands the synchronous routes run at the same gate
  Replays,         \* the scans an integration client may ask for again
  Cancellable,     \* the scans a user may cancel
  None,            \* undefined, for pending, owned and the launch token
  MaxIncarnations, \* bound: how many server processes run in a behaviour
  MaxFaults,       \* bound: how many database calls fail in a behaviour
  ConcurrencyCap, QueueCap, Configurable

ASSUME NoneIsNoLaunch == None \notin Launches \cup Scans
ASSUME CommandsAreNoLaunches == Launches \cap Commands = {}
ASSUME BoundsNatural == MaxIncarnations \in Nat \ {0} /\ MaxFaults \in Nat

VARIABLES
  status,   \* scan_runs.status
  meta,     \* scan_runs.metadata: launchToken, runtimeInstanceId; born is the
            \* runtime that inserted the row (no field of the source)
  call,     \* the route, or replayed request, that launches a scan
  pending,  \* the map pending of the supervisor
  owned,    \* the map owned of the supervisor
  job,      \* PendingScanProcess and OwnedScanProcess of each launch
  proc,     \* the child of each launch: it outlives the server
  cancel,   \* the coroutines of cancel()
  shut,     \* the coroutine of shutdown()
  server,   \* the server process
  faults,   \* database calls that have failed so far
  active, waiters, arrival, pushed, req, config  \* the capacity gate

Cap == INSTANCE ProcessCapacity WITH Requests <- Launches \cup Commands

capVars == <<active, waiters, arrival, pushed, req, config>>
vars == <<status, meta, call, pending, owned, job, proc, cancel, shut, server,
          faults, capVars>>

Active == {"queued", "running"}
Callers == {"route", "replay"}
Cancellers == {"user", "shutdown"}

IsActiveStatus(s) == status[s] \in Active
Alive == server.state \in {"up", "stopping"}
Live(l) == proc[l].state \in {"booting", "running", "exiting"}

NoJob == [scan |-> None, start |-> "idle", aborted |-> FALSE, seen |-> FALSE,
          cancelling |-> FALSE, reason |-> FALSE, killTimer |-> FALSE,
          monitor |-> "idle", late |-> FALSE]
NoCancel == [pc |-> "idle", seen |-> FALSE, owns |-> FALSE, of |-> None,
             answer |-> "none"]
NoShutdown == [pc |-> "idle", scans |-> {}, jobs |-> {}, dropped |-> {}]

Init ==
  /\ status = [s \in Scans |-> "none"]
  /\ meta = [s \in Scans |-> [token |-> None, runtime |-> 0, born |-> 0]]
  /\ call = [k \in Callers |-> [s \in Scans |-> "idle"]]
  /\ pending = [s \in Scans |-> None]
  /\ owned = [s \in Scans |-> None]
  /\ job = [l \in Launches |-> NoJob]
  /\ proc = [l \in Launches |-> [state |-> "none", signal |-> "none"]]
  /\ cancel = [c \in Cancellers |-> [s \in Scans |-> NoCancel]]
  /\ shut = NoShutdown
  /\ server = [state |-> "up", runtime |-> 1, stale |-> {}]
  /\ faults = 0
  /\ Cap!Init

-----------------------------------------------------------------------------
(***************************************************************************)
(* ScanRepository                                                          *)
(***************************************************************************)

\* Mutation: the WHERE clause only names the row.
updateScanRunStatusUnguarded(s, verdict) ==
  status' = [status EXCEPT ![s] = verdict]

\* updateScanRunStatus for a terminal status: the WHERE clause lets only a
\* queued or running row through
updateScanRunStatus(s, verdict) ==
  status' = IF IsActiveStatus(s) THEN [status EXCEPT ![s] = verdict] ELSE status

\* failNonTerminal of the supervisor: its own read can only make it return
\* where the guarded update would change nothing
failNonTerminal(s) == updateScanRunStatus(s, "failed")

\* persistCancellation of the supervisor
persistCancellation(s) == updateScanRunStatus(s, "cancelled")

\* The request to the SQLite Writer fails or times out
Fault ==
  /\ faults < MaxFaults
  /\ faults' = faults + 1

\* Signals to a child that has gone are lost
Signalled(l, sig) ==
  IF Live(l) /\ proc[l].signal # "kill"
  THEN [proc EXCEPT ![l].signal = sig] ELSE proc

-----------------------------------------------------------------------------
(***************************************************************************)
(* The routes                                                              *)
(***************************************************************************)

\* The scan route inserts the row and its events
CreateScan(s) ==
  /\ server.state = "up"
  /\ status[s] = "none"
  /\ status' = [status EXCEPT ![s] = "queued"]
  /\ meta' = [meta EXCEPT ![s].born = server.runtime]
  /\ call' = [call EXCEPT !["route"][s] = "launch"]
  /\ UNCHANGED <<pending, owned, job, proc, cancel, shut, server, faults, capVars>>

\* ensureScanLaunched of the NightWorkers integration: a replayed request
\* joins a launch that is still in launchPromises, or finds the scan queued
ReplayFind(s) ==
  /\ server.state = "up"
  /\ s \in Replays
  /\ call["route"][s] = "done"
  /\ call["replay"][s] = "idle"
  /\ status[s] = "queued"
  /\ call' = [call EXCEPT !["replay"][s] = "launch"]
  /\ UNCHANGED <<status, meta, pending, owned, job, proc, cancel, shut, server,
                 faults, capVars>>

\* launch: there is an entry for this scan already
LaunchKnown(k, s) ==
  /\ Alive
  /\ call[k][s] = "launch"
  /\ owned[s] # None \/ pending[s] # None
  /\ call' = [call EXCEPT ![k][s] = "done"]
  /\ UNCHANGED <<status, meta, pending, owned, job, proc, cancel, shut, server,
                 faults, capVars>>

\* launch: take or await a lease, or be refused by a full queue
Launch(k, s, l) ==
  /\ Alive
  /\ call[k][s] = "launch"
  /\ owned[s] = None /\ pending[s] = None
  /\ job[l].scan = None
  /\ Cap!Acquire(l)
  /\ IF req'[l] = "refused"
     THEN /\ call' = [call EXCEPT ![k][s] = "full"]
          /\ job' = [job EXCEPT ![l].scan = s, ![l].start = "done"]
          /\ UNCHANGED pending
     ELSE /\ call' = [call EXCEPT ![k][s] = "done"]
          /\ pending' = [pending EXCEPT ![s] = l]
          /\ job' = [job EXCEPT ![l].scan = s, ![l].start = "lease",
                                ![l].late = server.state = "stopping"]
  /\ UNCHANGED <<status, meta, owned, proc, cancel, shut, server, faults>>

\* launch fails the scan that found the queue full, and rethrows
LaunchRefused(k, s) ==
  /\ Alive
  /\ call[k][s] = "full"
  /\ \/ failNonTerminal(s) /\ UNCHANGED faults
     \/ Fault /\ UNCHANGED status
  /\ call' = [call EXCEPT ![k][s] = IF s \in Replays THEN "done" ELSE "failing"]
  /\ UNCHANGED <<meta, pending, owned, job, proc, cancel, shut, server, capVars>>

\* The catch clause of the scan route fails the scan too, and answers 429
RouteFails(s) ==
  /\ Alive
  /\ call["route"][s] = "failing"
  /\ \/ updateScanRunStatus(s, "failed") /\ UNCHANGED faults
     \/ Fault /\ UNCHANGED status
  /\ call' = [call EXCEPT !["route"][s] = "done"]
  /\ UNCHANGED <<meta, pending, owned, job, proc, cancel, shut, server, capVars>>

\* runBoundedCliProcess: the synchronous routes take a lease or answer 429
CommandStart(c) ==
  /\ server.state = "up"
  /\ Cap!TryAcquire(c)
  /\ UNCHANGED <<status, meta, call, pending, owned, job, proc, cancel, shut,
                 server, faults>>

\* its finally clause, once the bounded process runner has returned
CommandEnd(c) ==
  /\ Alive
  /\ req[c] = "held"
  /\ Cap!Release(c)
  /\ UNCHANGED <<status, meta, call, pending, owned, job, proc, cancel, shut,
                 server, faults>>

-----------------------------------------------------------------------------
(***************************************************************************)
(* startWhenCapacityIsAvailable and launchOnce                             *)
(***************************************************************************)
scan(l) == job[l].scan

\* this.pending.delete(scanRunId), if the entry is still that of l
PendingWithout(l) ==
  [s \in Scans |-> IF pending[s] = l THEN None ELSE pending[s]]

\* The finally clause when nothing was spawned
StartEnds(l) ==
  /\ pending' = PendingWithout(l)
  /\ Cap!Release(l)
  /\ job' = [job EXCEPT ![l].start = "done", ![l].seen = FALSE,
                        ![l].aborted = FALSE]

\* Mutation: the early return forgets to release.
StartGrantedLeaks(l) ==
  /\ Alive
  /\ job[l].start = "lease"
  /\ req[l] = "held"
  /\ job' = [job EXCEPT ![l].start = IF pending[scan(l)] # l THEN "done" ELSE "find"]
  /\ UNCHANGED <<status, meta, call, pending, owned, proc, cancel, shut, server,
                 faults, capVars>>

\* The lease has arrived
StartGranted(l) ==
  /\ Alive
  /\ job[l].start = "lease"
  /\ req[l] = "held"
  /\ IF pending[scan(l)] # l
     THEN StartEnds(l)
     ELSE /\ job' = [job EXCEPT ![l].start = "find"]
          /\ UNCHANGED <<pending, capVars>>
  /\ UNCHANGED <<status, meta, call, owned, proc, cancel, shut, server, faults>>

\* The promise of the lease was rejected by the abort of its waiter
StartRejected(l) ==
  /\ Alive
  /\ job[l].start = "lease"
  /\ req[l] = "aborted"
  /\ job' = [job EXCEPT ![l].start = "done", ![l].aborted = FALSE]
  /\ pending' = PendingWithout(l)
  /\ UNCHANGED <<status, meta, call, owned, proc, cancel, shut, server, faults,
                 capVars>>

\* launchOnce up to the first read of the scan
StartFind(l) ==
  /\ Alive
  /\ job[l].start = "find"
  /\ IF job[l].aborted \/ ~ IsActiveStatus(scan(l))
     THEN StartEnds(l)
     ELSE /\ job' = [job EXCEPT ![l].start = "merge"]
          /\ UNCHANGED <<pending, capVars>>
  /\ UNCHANGED <<status, meta, call, owned, proc, cancel, shut, server, faults>>

\* Mutation: a runtimeInstanceId of its own for every launch.
StartMergeFreshRuntime(l) ==
  /\ Alive
  /\ job[l].start = "merge"
  /\ meta' = [meta EXCEPT ![scan(l)].token = l,
                          ![scan(l)].runtime = server.runtime + 1]
  /\ job' = [job EXCEPT ![l].start = "reread"]
  /\ UNCHANGED <<status, call, pending, owned, proc, cancel, shut, server,
                 faults, capVars>>

\* mergeScanRunMetadata with the launch token
StartMerge(l) ==
  /\ Alive
  /\ job[l].start = "merge"
  /\ meta' = [meta EXCEPT ![scan(l)].token = l, ![scan(l)].runtime = server.runtime]
  /\ job' = [job EXCEPT ![l].start = "reread"]
  /\ UNCHANGED <<status, call, pending, owned, proc, cancel, shut, server,
                 faults, capVars>>

\* the second read of the scan
StartReread(l) ==
  /\ Alive
  /\ job[l].start = "reread"
  /\ IF job[l].aborted
     THEN StartEnds(l)
     ELSE /\ job' = [job EXCEPT ![l].start = "spawn",
                                ![l].seen = IsActiveStatus(scan(l))]
          /\ UNCHANGED <<pending, capVars>>
  /\ UNCHANGED <<status, meta, call, owned, proc, cancel, shut, server, faults>>

\* Bun.spawn and the new entry in owned; spawn may throw
Spawned(l) ==
  /\ owned' = [owned EXCEPT ![scan(l)] = l]
  /\ pending' = PendingWithout(l)
  /\ proc' = [proc EXCEPT ![l].state = "booting"]
  /\ job' = [job EXCEPT ![l].start = "done", ![l].seen = FALSE,
                        ![l].monitor = "watch"]
  /\ UNCHANGED capVars

\* Mutations: no look at the signal after the second read; an error of spawn
\* that is swallowed.
StartSpawnUnchecked(l) ==
  /\ Alive
  /\ job[l].start = "spawn"
  /\ IF ~ job[l].seen
     THEN StartEnds(l) /\ UNCHANGED <<owned, proc>>
     ELSE Spawned(l)
  /\ UNCHANGED <<status, meta, call, cancel, shut, server, faults>>
StartSpawnSwallows(l) ==
  /\ Alive
  /\ job[l].start = "spawn"
  /\ \/ StartEnds(l) /\ UNCHANGED <<owned, proc>>
     \/ ~ job[l].aborted /\ job[l].seen /\ Spawned(l)
  /\ UNCHANGED <<status, meta, call, cancel, shut, server, faults>>

StartSpawn(l) ==
  /\ Alive
  /\ job[l].start = "spawn"
  /\ IF job[l].aborted \/ ~ job[l].seen
     THEN StartEnds(l) /\ UNCHANGED <<owned, proc>>
     ELSE \/ Spawned(l)
          \/ /\ job' = [job EXCEPT ![l].start = "failing", ![l].seen = FALSE]
             /\ UNCHANGED <<pending, owned, proc, capVars>>
  /\ UNCHANGED <<status, meta, call, cancel, shut, server, faults>>

\* A database call of launchOnce throws
StartFault(l) ==
  /\ Alive
  /\ job[l].start \in {"find", "merge", "reread"}
  /\ Fault
  /\ IF job[l].aborted
     THEN StartEnds(l)
     ELSE /\ job' = [job EXCEPT ![l].start = "failing"]
          /\ UNCHANGED <<pending, capVars>>
  /\ UNCHANGED <<status, meta, call, owned, proc, cancel, shut, server>>

\* The catch clause
StartFail(l) ==
  /\ Alive
  /\ job[l].start = "failing"
  /\ \/ failNonTerminal(scan(l)) /\ UNCHANGED faults
     \/ Fault /\ UNCHANGED status
  /\ job' = [job EXCEPT ![l].start = "failed"]
  /\ UNCHANGED <<meta, call, pending, owned, proc, cancel, shut, server, capVars>>

\* The finally clause after it
StartFailed(l) ==
  /\ Alive
  /\ job[l].start = "failed"
  /\ StartEnds(l)
  /\ UNCHANGED <<status, meta, call, owned, proc, cancel, shut, server, faults>>

-----------------------------------------------------------------------------
(***************************************************************************)
(* The child process: api/cli/scan-profile.ts as far as its row goes.  It  *)
(* may exit at any point; SIGKILL is the only signal it cannot outlive.    *)
(***************************************************************************)
childUnchanged == <<meta, call, pending, owned, job, cancel, shut, server,
                    faults, capVars>>

\* Mutation: a claim that takes a running scan too.
ChildClaimActive(l) ==
  /\ proc[l].state = "booting"
  /\ IsActiveStatus(scan(l))
  /\ status' = [status EXCEPT ![scan(l)] = "running"]
  /\ proc' = [proc EXCEPT ![l].state = "running"]
  /\ UNCHANGED childUnchanged

\* claimQueuedScanRun: UPDATE ... WHERE status = 'queued'
ChildClaim(l) ==
  /\ proc[l].state = "booting"
  /\ status[scan(l)] = "queued"
  /\ status' = [status EXCEPT ![scan(l)] = "running"]
  /\ proc' = [proc EXCEPT ![l].state = "running"]
  /\ UNCHANGED childUnchanged

\* the verdict of the orchestrator
ChildConclude(l) ==
  /\ proc[l].state = "running"
  /\ \E v \in {"completed", "failed"} : updateScanRunStatus(scan(l), v)
  /\ proc' = [proc EXCEPT ![l].state = "exiting"]
  /\ UNCHANGED childUnchanged

\* its last statement, a claim that failed, an error, or a signal
ChildExit(l) ==
  /\ Live(l)
  /\ proc' = [proc EXCEPT ![l] = [state |-> "exited", signal |-> "none"]]
  /\ UNCHANGED <<status, childUnchanged>>

-----------------------------------------------------------------------------
(***************************************************************************)
(* Timers and the monitor of an owned process                              *)
(***************************************************************************)

\* Mutation: SIGTERM only.
terminateOwnedProcessOnce(l, m) ==
  /\ job' = [job EXCEPT ![l].monitor = m, ![l].reason = TRUE]
  /\ proc' = Signalled(l, "term")

\* terminateOwnedProcess
terminateOwnedProcess(l, m) ==
  IF job[l].cancelling \/ job[l].reason
  THEN /\ job' = [job EXCEPT ![l].monitor = m]
       /\ UNCHANGED proc
  ELSE /\ job' = [job EXCEPT ![l].monitor = m, ![l].reason = TRUE,
                             ![l].killTimer = Live(l)]
       /\ proc' = Signalled(l, "term")

\* releaseOwnership: timers off, entry gone, lease back
releaseOwnership(l, m) ==
  /\ job' = [job EXCEPT ![l].killTimer = FALSE, ![l].monitor = m]
  /\ owned' = [s \in Scans |-> IF owned[s] = l THEN None ELSE owned[s]]
  /\ Cap!Release(l)

\* The wall-clock timer, or an output beyond its limit
Overrun(l) ==
  /\ Alive
  /\ job[l].monitor = "watch"
  /\ ~ job[l].cancelling /\ ~ job[l].reason
  /\ terminateOwnedProcess(l, "watch")
  /\ UNCHANGED <<status, meta, call, pending, owned, cancel, shut, server,
                 faults, capVars>>

\* The SIGKILL timer armed by cancel or terminateOwnedProcess
KillTimer(l) ==
  /\ Alive
  /\ job[l].killTimer
  /\ job' = [job EXCEPT ![l].killTimer = FALSE]
  /\ proc' = Signalled(l, "kill")
  /\ UNCHANGED <<status, meta, call, pending, owned, cancel, shut, server,
                 faults, capVars>>

\* The child has exited and its output has ended
MonitorExit(l) ==
  /\ Alive
  /\ job[l].monitor \in {"watch", "erring"}
  /\ proc[l].state = "exited"
  /\ releaseOwnership(l, "find")
  /\ UNCHANGED <<status, meta, call, pending, proc, cancel, shut, server, faults>>

\* Reading the output of the child fails
MonitorError(l) ==
  /\ Alive
  /\ job[l].monitor = "watch"
  /\ terminateOwnedProcess(l, "erring")
  /\ UNCHANGED <<status, meta, call, pending, owned, cancel, shut, server,
                 faults, capVars>>

\* Mutation: the child that outlives the wait is let go without SIGKILL.
MonitorLetsGo(l) ==
  /\ Alive
  /\ job[l].monitor = "erring"
  /\ Live(l)
  /\ releaseOwnership(l, "find")
  /\ UNCHANGED <<status, meta, call, pending, proc, cancel, shut, server, faults>>

\* ... and the child outlives the wait for its exit
MonitorGivesUp(l) ==
  /\ Alive
  /\ job[l].monitor = "erring"
  /\ Live(l)
  /\ proc' = Signalled(l, "kill")
  /\ releaseOwnership(l, "find")
  /\ UNCHANGED <<status, meta, call, pending, cancel, shut, server, faults>>

\* The monitor returns, and the OwnedScanProcess with it
MonitorDone(l) ==
  [job EXCEPT ![l].monitor = "done", ![l].cancelling = FALSE, ![l].reason = FALSE]

\* The monitor reads the scan; a failure of the read is only logged
MonitorFind(l) ==
  /\ Alive
  /\ job[l].monitor = "find"
  /\ \/ /\ job' = CASE IsActiveStatus(scan(l)) ->
                       [job EXCEPT ![l].monitor = "fail"]
                   [] status[scan(l)] = "completed" ->
                       [job EXCEPT ![l].monitor = "post"]
                   [] OTHER -> MonitorDone(l)
        /\ UNCHANGED faults
     \/ /\ Fault
        /\ job' = MonitorDone(l)
  /\ UNCHANGED <<status, meta, call, pending, owned, proc, cancel, shut, server,
                 capVars>>

\* The child left no verdict
MonitorFail(l) ==
  /\ Alive
  /\ job[l].monitor = "fail"
  /\ \/ failNonTerminal(scan(l)) /\ UNCHANGED faults
     \/ Fault /\ UNCHANGED status
  /\ job' = MonitorDone(l)
  /\ UNCHANGED <<meta, call, pending, owned, proc, cancel, shut, server, capVars>>

\* onCompletedScan has returned, or its failure has been recorded
MonitorPost(l) ==
  /\ Alive
  /\ job[l].monitor = "post"
  /\ job' = MonitorDone(l)
  /\ UNCHANGED <<status, meta, call, pending, owned, proc, cancel, shut, server,
                 faults, capVars>>

-----------------------------------------------------------------------------
(***************************************************************************)
(* cancel: for the cancel route, and for every owned process at shutdown   *)
(***************************************************************************)
cancelUnchanged == <<meta, call, owned, shut, server>>

\* The coroutine returns, or throws for the answer "error"
Answered(c, s, answer) ==
  [cancel EXCEPT ![c][s] = [NoCancel EXCEPT !.pc = "done", !.answer = answer]]

\* A user asks for the scan to be cancelled
CancelRequest(s) ==
  /\ server.state = "up"
  /\ s \in Cancellable
  /\ cancel["user"][s].pc = "idle"
  /\ status[s] # "none"
  /\ cancel' = [cancel EXCEPT !["user"][s].pc = "find"]
  /\ UNCHANGED <<status, pending, job, proc, faults, capVars, cancelUnchanged>>

\* the first findById
CancelFind(c, s) ==
  /\ Alive
  /\ cancel[c][s].pc = "find"
  /\ cancel' = [cancel EXCEPT ![c][s].pc = "decide",
                              ![c][s].seen = IsActiveStatus(s)]
  /\ UNCHANGED <<status, pending, job, proc, faults, capVars, cancelUnchanged>>

\* A scan that has no child yet: drop its entry, abort its wait
CancelPending(c, s) ==
  /\ Alive
  /\ cancel[c][s].pc = "decide"
  /\ pending[s] # None
  /\ LET l == pending[s] IN
     /\ job' = [job EXCEPT ![l].aborted = TRUE]
     /\ IF req[l] = "waiting" THEN Cap!Abort(l) ELSE UNCHANGED capVars
  /\ pending' = [pending EXCEPT ![s] = None]
  /\ cancel' = IF cancel[c][s].seen
               THEN [cancel EXCEPT ![c][s].pc = "persist"]
               ELSE Answered(c, s, "cancelled")
  /\ UNCHANGED <<status, proc, faults, cancelUnchanged>>

\* A scan with a child: read it once more
CancelOwned(c, s) ==
  /\ Alive
  /\ cancel[c][s].pc = "decide"
  /\ pending[s] = None /\ owned[s] # None
  /\ cancel' = [cancel EXCEPT ![c][s].pc = "mark", ![c][s].of = owned[s],
                              ![c][s].seen = IsActiveStatus(s),
                              ![c][s].owns = (meta[s].token = owned[s])]
  /\ UNCHANGED <<status, pending, job, proc, faults, capVars, cancelUnchanged>>

\* This runtime has nothing to do with the scan
CancelUnknown(c, s) ==
  /\ Alive
  /\ cancel[c][s].pc = "decide"
  /\ pending[s] = None /\ owned[s] = None
  /\ cancel' = Answered(c, s, IF cancel[c][s].seen THEN "process_not_owned"
                              ELSE "scan_not_active")
  /\ UNCHANGED <<status, pending, job, proc, faults, capVars, cancelUnchanged>>

\* owned.cancelling = true
CancelMark(c, s) ==
  /\ Alive
  /\ cancel[c][s].pc = "mark"
  /\ job' = [job EXCEPT ![cancel[c][s].of].cancelling = TRUE]
  /\ cancel' = [cancel EXCEPT ![c][s].pc =
       IF cancel[c][s].seen /\ cancel[c][s].owns THEN "persist" ELSE "kill"]
  /\ UNCHANGED <<status, pending, proc, faults, capVars, cancelUnchanged>>

\* persistCancellation; the finally clause of the owned branch kills the
\* child even if it throws
CancelPersist(c, s) ==
  /\ Alive
  /\ cancel[c][s].pc = "persist"
  /\ \/ /\ persistCancellation(s)
        /\ UNCHANGED faults
        /\ cancel' = IF cancel[c][s].of # None
                     THEN [cancel EXCEPT ![c][s].pc = "kill"]
                     ELSE Answered(c, s, "cancelled")
     \/ /\ Fault
        /\ UNCHANGED status
        /\ cancel' = IF cancel[c][s].of # None
                     THEN [cancel EXCEPT ![c][s].pc = "kill",
                                         ![c][s].answer = "error"]
                     ELSE Answered(c, s, "error")
  /\ UNCHANGED <<pending, job, proc, capVars, cancelUnchanged>>

\* Mutation: no SIGKILL after the grace period.
CancelKillOnce(c, s) ==
  /\ Alive
  /\ cancel[c][s].pc = "kill"
  /\ proc' = Signalled(cancel[c][s].of, "term")
  /\ cancel' = Answered(c, s, "cancelled")
  /\ UNCHANGED <<status, pending, job, faults, capVars, cancelUnchanged>>

\* SIGTERM, and SIGKILL after the grace period; a timer that would signal a
\* child that has gone is left out
CancelKill(c, s) ==
  /\ Alive
  /\ cancel[c][s].pc = "kill"
  /\ LET l == cancel[c][s].of IN
     /\ proc' = Signalled(l, "term")
     /\ job' = [job EXCEPT ![l].killTimer = Live(l)]
  /\ cancel' = Answered(c, s,
       IF cancel[c][s].answer = "error" THEN "error"
       ELSE IF cancel[c][s].seen /\ ~ cancel[c][s].owns THEN "process_not_owned"
       ELSE "cancelled")
  /\ UNCHANGED <<status, pending, faults, capVars, cancelUnchanged>>

-----------------------------------------------------------------------------
(***************************************************************************)
(* shutdown, crash and restart of the server                               *)
(***************************************************************************)

\* Mutation: shutdown empties the map without aborting what is in it.
ShutdownWithoutAbort ==
  /\ server.state = "up"
  /\ server.runtime < MaxIncarnations
  /\ server' = [server EXCEPT !.state = "stopping"]
  /\ shut' = [shut EXCEPT !.pc = "pending",
                          !.scans = {s \in Scans : pending[s] # None}]
  /\ pending' = [s \in Scans |-> None]
  /\ UNCHANGED <<status, meta, call, owned, job, proc, cancel, faults, capVars>>

\* SIGTERM or SIGINT: no new requests, and every pending scan is aborted.
\* Coroutines of requests already accepted go on.
Shutdown ==
  /\ server.state = "up"
  /\ server.runtime < MaxIncarnations
  /\ server' = [server EXCEPT !.state = "stopping"]
  /\ LET stopped == {l \in Launches : \E s \in Scans : pending[s] = l} IN
     /\ job' = [l \in Launches |->
                  IF l \in stopped THEN [job[l] EXCEPT !.aborted = TRUE]
                  ELSE job[l]]
     /\ req' = [r \in DOMAIN req |->
                  IF r \in stopped /\ req[r] = "waiting" THEN "aborted"
                  ELSE req[r]]
  /\ shut' = [shut EXCEPT !.pc = "pending",
                          !.scans = {s \in Scans : pending[s] # None}]
  /\ pending' = [s \in Scans |-> None]
  /\ UNCHANGED <<status, meta, call, owned, proc, cancel, faults, active,
                 waiters, arrival, pushed, config>>

\* Persist the cancellation of one of them
ShutdownPersist(s) ==
  /\ shut.pc = "pending"
  /\ s \in shut.scans
  /\ \/ persistCancellation(s) /\ UNCHANGED faults
     \/ Fault /\ UNCHANGED status
  /\ shut' = [shut EXCEPT !.scans = @ \ {s}]
  /\ UNCHANGED <<meta, call, pending, owned, job, proc, cancel, server, capVars>>

\* All are persisted: cancel every owned process
ShutdownCancel ==
  /\ shut.pc = "pending"
  /\ shut.scans = {}
  /\ LET jobs == {l \in Launches : \E s \in Scans : owned[s] = l} IN
     /\ shut' = [shut EXCEPT !.pc = "cancel", !.jobs = jobs]
     /\ cancel' = [cancel EXCEPT !["shutdown"] =
          [s \in Scans |-> IF owned[s] \in jobs
                           THEN [NoCancel EXCEPT !.pc = "find"] ELSE NoCancel]]
  /\ UNCHANGED <<status, meta, call, pending, owned, job, proc, server, faults,
                 capVars>>

\* All cancels have settled: SIGTERM to every job
ShutdownTerm ==
  /\ shut.pc = "cancel"
  /\ \A s \in Scans : cancel["shutdown"][s].pc \in {"idle", "done"}
  /\ shut' = [shut EXCEPT !.pc = "wait"]
  /\ job' = [l \in Launches |->
               IF l \in shut.jobs THEN [job[l] EXCEPT !.cancelling = TRUE]
               ELSE job[l]]
  /\ proc' = [l \in Launches |->
                IF l \in shut.jobs THEN Signalled(l, "term")[l] ELSE proc[l]]
  /\ UNCHANGED <<status, meta, call, pending, owned, cancel, server, faults,
                 capVars>>

\* One job has exited within the grace period
ShutdownReap(l) ==
  /\ shut.pc = "wait"
  /\ l \in shut.jobs
  /\ proc[l].state = "exited"
  /\ shut' = [shut EXCEPT !.jobs = @ \ {l}]
  /\ UNCHANGED <<status, meta, call, pending, owned, job, proc, cancel, server,
                 faults, capVars>>

\* One has not: SIGKILL
ShutdownKill(l) ==
  /\ shut.pc = "wait"
  /\ l \in shut.jobs
  /\ Live(l) /\ proc[l].signal # "kill"
  /\ proc' = Signalled(l, "kill")
  /\ UNCHANGED <<status, meta, call, pending, owned, job, cancel, shut, server,
                 faults, capVars>>

\* It does not even die of that: give it up
ShutdownGivesUp(l) ==
  /\ shut.pc = "wait"
  /\ l \in shut.jobs
  /\ Live(l) /\ proc[l].signal = "kill"
  /\ releaseOwnership(l, job[l].monitor)
  /\ shut' = [shut EXCEPT !.jobs = @ \ {l}, !.dropped = @ \cup {l}]
  /\ UNCHANGED <<status, meta, call, pending, proc, cancel, server, faults>>

\* Await the monitors and the post-processing that are still under way
ShutdownDrain ==
  /\ shut.pc = "wait"
  /\ shut.jobs = {}
  /\ shut' = [shut EXCEPT !.pc = "drain",
       !.jobs = {l \in Launches : /\ job[l].monitor \notin {"idle", "done"}
                                  /\ l \notin shut.dropped}]
  /\ UNCHANGED <<status, meta, call, pending, owned, job, proc, cancel, server,
                 faults, capVars>>

\* The process ends: maps, timers, coroutines and leases are gone, the
\* children are not
ServerEnds ==
  /\ server' = [server EXCEPT !.state = "down"]
  /\ call' = [k \in Callers |-> [s \in Scans |->
                IF call[k][s] = "idle" THEN "idle" ELSE "done"]]
  /\ pending' = [s \in Scans |-> None]
  /\ owned' = [s \in Scans |-> None]
  /\ job' = [l \in Launches |-> [NoJob EXCEPT !.scan = job[l].scan,
                                              !.late = job[l].late]]
  /\ cancel' = [c \in Cancellers |-> [s \in Scans |->
                  IF cancel[c][s].pc = "idle" THEN NoCancel
                  ELSE [NoCancel EXCEPT !.pc = "done",
                                        !.answer = cancel[c][s].answer]]]
  /\ shut' = NoShutdown
  /\ active' = 0 /\ waiters' = {} /\ pushed' = 0
  /\ arrival' = [r \in DOMAIN arrival |-> 0]
  /\ req' = [r \in DOMAIN req |-> "idle"]
  /\ UNCHANGED <<status, meta, proc, faults, config>>

ShutdownExit ==
  /\ shut.pc = "drain"
  /\ \A l \in shut.jobs : job[l].monitor = "done"
  /\ ServerEnds

Crash ==
  /\ Alive \/ server.state = "recovering"
  /\ server.runtime < MaxIncarnations
  /\ ServerEnds

\* Mutation: only the running scans are listed.
RestartRunningOnly ==
  /\ server.state = "down"
  /\ server.runtime < MaxIncarnations
  /\ server' = [state |-> "recovering", runtime |-> server.runtime + 1,
                stale |-> {s \in Scans : status[s] = "running"}]
  /\ UNCHANGED <<status, meta, call, pending, owned, job, proc, cancel, shut,
                 faults, capVars>>

\* createRuntime: a new runtimeInstanceId; recoverStaleWebScans lists the
\* active scans of other runtimes before any request is served
Restart ==
  /\ server.state = "down"
  /\ server.runtime < MaxIncarnations
  /\ server' = [state |-> "recovering", runtime |-> server.runtime + 1,
                stale |-> {s \in Scans : /\ IsActiveStatus(s)
                                          /\ meta[s].runtime # server.runtime + 1}]
  /\ UNCHANGED <<status, meta, call, pending, owned, job, proc, cancel, shut,
                 faults, capVars>>

\* ... and fails them one by one
Recover(s) ==
  /\ server.state = "recovering"
  /\ s \in server.stale
  /\ updateScanRunStatus(s, "failed")
  /\ server' = [server EXCEPT !.stale = @ \ {s}]
  /\ UNCHANGED <<meta, call, pending, owned, job, proc, cancel, shut, faults,
                 capVars>>

Serve ==
  /\ server.state = "recovering"
  /\ server.stale = {}
  /\ server' = [server EXCEPT !.state = "up"]
  /\ UNCHANGED <<status, meta, call, pending, owned, job, proc, cancel, shut,
                 faults, capVars>>

-----------------------------------------------------------------------------
StartStep(l) ==
  \/ StartGranted(l) \/ StartRejected(l) \/ StartFind(l) \/ StartMerge(l)
  \/ StartReread(l) \/ StartSpawn(l) \/ StartFail(l) \/ StartFailed(l)

MonitorStep(l) ==
  \/ MonitorExit(l) \/ MonitorGivesUp(l) \/ MonitorFind(l) \/ MonitorFail(l)
  \/ MonitorPost(l)

CancelStep(c, s) ==
  \/ CancelFind(c, s) \/ CancelPending(c, s) \/ CancelOwned(c, s)
  \/ CancelUnknown(c, s) \/ CancelMark(c, s) \/ CancelPersist(c, s)
  \/ CancelKill(c, s)

LaunchStep(k, s) ==
  \/ LaunchKnown(k, s)
  \/ \E l \in Launches : Launch(k, s, l)
  \/ LaunchRefused(k, s)

ShutdownStep ==
  \/ \E s \in Scans : ShutdownPersist(s)
  \/ ShutdownCancel \/ ShutdownTerm
  \/ \E l \in Launches : ShutdownReap(l) \/ ShutdownKill(l) \/ ShutdownGivesUp(l)
  \/ ShutdownDrain \/ ShutdownExit

RecoveryStep == (\E s \in Scans : Recover(s)) \/ Serve

Next ==
  \/ \E s \in Scans : CreateScan(s) \/ ReplayFind(s) \/ CancelRequest(s)
                      \/ RouteFails(s)
  \/ \E k \in Callers, s \in Scans : LaunchStep(k, s)
  \/ \E c \in Commands : CommandStart(c) \/ CommandEnd(c)
  \/ \E l \in Launches : StartStep(l) \/ StartFault(l)
  \/ \E l \in Launches : ChildClaim(l) \/ ChildConclude(l) \/ ChildExit(l)
  \/ \E l \in Launches : Overrun(l) \/ KillTimer(l) \/ MonitorError(l)
                         \/ MonitorStep(l)
  \/ \E c \in Cancellers, s \in Scans : CancelStep(c, s)
  \/ Shutdown \/ ShutdownStep \/ Crash \/ Restart \/ RecoveryStep

Spec == Init /\ [][Next]_vars

\* The event loop runs every coroutine and timer that is ready; a child dies
\* of SIGKILL; a command ends; the server is started again.  Users, children
\* and failures owe nothing.
Fairness ==
  /\ \A l \in Launches : /\ WF_vars(StartStep(l))
                         /\ WF_vars(MonitorStep(l))
                         /\ WF_vars(Overrun(l))
                         /\ WF_vars(KillTimer(l))
                         /\ WF_vars(proc[l].signal = "kill" /\ ChildExit(l))
  /\ \A k \in Callers, s \in Scans : WF_vars(LaunchStep(k, s))
  /\ \A s \in Scans : WF_vars(RouteFails(s))
  /\ \A c \in Commands : WF_vars(CommandEnd(c))
  /\ \A c \in Cancellers, s \in Scans : WF_vars(CancelStep(c, s))
  /\ WF_vars(ShutdownStep) /\ WF_vars(Restart) /\ WF_vars(RecoveryStep)

FairSpec == Spec /\ Fairness

-----------------------------------------------------------------------------
(***************************************************************************)
(* Properties                                                              *)
(***************************************************************************)

\* Every map, row and coroutine holds a value of its kind.
TypeOK ==
  /\ status \in [Scans -> {"none"} \cup Active \cup
                          {"completed", "failed", "cancelled"}]
  /\ meta \in [Scans -> [token : Launches \cup {None},
                         runtime : 0..MaxIncarnations, born : 0..MaxIncarnations]]
  /\ call \in [Callers -> [Scans -> {"idle", "launch", "full", "failing", "done"}]]
  /\ pending \in [Scans -> Launches \cup {None}]
  /\ owned \in [Scans -> Launches \cup {None}]
  /\ job \in [Launches ->
       [scan : Scans \cup {None},
        start : {"idle", "lease", "find", "merge", "reread", "spawn", "failing",
                 "failed", "done"},
        aborted : BOOLEAN, seen : BOOLEAN, cancelling : BOOLEAN,
        reason : BOOLEAN, killTimer : BOOLEAN, late : BOOLEAN,
        monitor : {"idle", "watch", "erring", "find", "fail", "post", "done"}]]
  /\ proc \in [Launches ->
       [state : {"none", "booting", "running", "exiting", "exited"},
        signal : {"none", "term", "kill"}]]
  /\ cancel \in [Cancellers -> [Scans ->
       [pc : {"idle", "find", "decide", "mark", "persist", "kill", "done"},
        seen : BOOLEAN, owns : BOOLEAN, of : Launches \cup {None},
        answer : {"none", "cancelled", "process_not_owned", "scan_not_active",
                  "error"}]]]
  /\ shut \in [pc : {"idle", "pending", "cancel", "wait", "drain"},
               scans : SUBSET Scans, jobs : SUBSET Launches,
               dropped : SUBSET Launches]
  /\ server \in [state : {"up", "stopping", "down", "recovering"},
                 runtime : 1..MaxIncarnations, stale : SUBSET Scans]
  /\ faults \in 0..MaxFaults

\* No lease leaks: whoever holds a slot of the gate is a coroutine that will
\* give it back -- a start under way or a monitored child -- whatever was
\* cancelled, failed or shut down in between.
LeaseHasHolder ==
  \A l \in Launches :
    req[l] = "held" =>
      \/ job[l].start \notin {"idle", "done"}
      \/ job[l].monitor \in {"watch", "erring"} /\ owned[scan(l)] = l

\* The child of a launch of this runtime is in the owned map, where cancel
\* and shutdown find it and where its lease is counted, for as long as it
\* lives; only a child already sent SIGKILL is ever let go.
LiveChildIsOwned ==
  \A l \in Launches :
    Live(l) /\ job[l].monitor # "idle" =>
      \/ owned[scan(l)] = l /\ req[l] = "held"
      \/ proc[l].signal = "kill"

\* A scan is worked on by one child only, across cancels, replayed launches,
\* crashes and restarts.
OneExecutor ==
  \A l, m \in Launches :
    /\ proc[l].state \in {"running", "exiting"}
    /\ proc[m].state \in {"running", "exiting"}
    /\ scan(l) = scan(m)
    => l = m

\* No scan is forgotten: while the server runs, a queued or running scan has
\* a coroutine, a timer or a child that will bring it to a verdict, unless a
\* database call has failed.
Keeper(s) ==
  \/ \E k \in Callers : call[k][s] \in {"launch", "full", "failing"}
  \/ pending[s] # None
  \/ owned[s] # None
  \/ \E l \in Launches : /\ scan(l) = s
                         /\ \/ job[l].start \in {"failing", "failed"}
                            \/ job[l].monitor \in {"find", "fail"}
  \/ \E c \in Cancellers : cancel[c][s].pc = "persist"
  \/ s \in shut.scans
ActiveScanHasKeeper ==
  \A s \in Scans : Alive /\ IsActiveStatus(s) /\ faults = 0 => Keeper(s)

\* A server that serves requests has no active scan of an earlier server
\* process left in its database.
NoScanOfEarlierRuntime ==
  \A s \in Scans :
    server.state \in {"up", "stopping"} /\ IsActiveStatus(s)
      => meta[s].born = server.runtime

\* A child is only spawned for a scan whose row is still active: a cancel
\* that comes while a launch waits, reads or merges stops it in time.
SpawnOnlyActive ==
  [][\A l \in Launches :
       proc[l].state = "none" /\ proc'[l].state = "booting"
         => IsActiveStatus(scan(l))]_vars

\* A graceful shutdown leaves no child of this runtime running, except one
\* that SIGKILL did not end and one whose launch came after the shutdown had
\* begun.
CleanShutdown ==
  [][server.state = "stopping" /\ server'.state = "down"
       /\ server.runtime < MaxIncarnations /\ shut.pc = "drain"
       => \A l \in Launches :
            Live(l) /\ job[l].monitor # "idle"
              => proc[l].signal = "kill" \/ job[l].late]_vars

Lifecycle == INSTANCE ScanLifecycle

\* The rows keep the promise of ScanLifecycle: queued once, started at most
\* once, one verdict that nobody overwrites, and every scan that was queued gets
\* its verdict, whatever is cancelled, shut down or crashes.
LifecycleFairSpec == Lifecycle!FairSpec

\* A cancel that is answered with success ends the child of the scan, unless
\* the server dies first.
CancelStopsChild ==
  \A s \in Scans :
    cancel["user"][s].answer = "cancelled"
      ~> \/ \A l \in Launches : scan(l) = s => ~ Live(l)
         \/ server.runtime > 1 \/ server.state = "down"

=============================================================================

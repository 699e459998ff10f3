---------------------------- MODULE WriterElection ----------------------------
(***************************************************************************)
(* How the processes that share a database file come to have one Writer:   *)
(* acquireWriterLock, the start and the stop of startSqliteWriterServer    *)
(* (api/db/writer/server.ts) and connectOrStart with the recovery of stale *)
(* files, close and shutdownIfOwned of SqliteWriterClient (client.ts).     *)
(*                                                                         *)
(* The processes share three files, all found by path: the lock directory, *)
(* owner.json inside it, and the socket.  Nothing else keeps two Writers   *)
(* from opening the database.  An action is one call to the file system,   *)
(* to the process table or to the socket: the processes interleave between *)
(* any two of them, and whoever removes a path removes what is there then. *)
(*                                                                         *)
(* Every process uses the same database and protocol, so the mismatches of *)
(* both are left out.  An identifier is given to a new Writer once no file *)
(* and no process remembers the Writer that had it.                        *)
(***************************************************************************)
EXTENDS Naturals, FiniteSets

CONSTANTS
  Clients,      \* SqliteWriterClient objects
  Writers,      \* identifiers of Writer processes
  None,
  MaxManual,    \* bound: Writers started by hand (bun run db:writer)
  MaxCrashes,   \* bound: Writers that are killed
  MaxStops,     \* bound: SIGTERMs sent by hand
  MaxFaults,    \* bound: start-ups and spawns that fail for another reason
  MaxSlow,      \* bound: start-ups that outlast the deadline of a client
  Owning        \* clients that close with shutdownIfOwned

ASSUME NoneIsNoWriter == None \notin Writers
ASSUME OwningClients == Owning \subseteq Clients
ASSUME ElectionBounds ==
  /\ MaxManual \in Nat /\ MaxCrashes \in Nat /\ MaxStops \in Nat
  /\ MaxFaults \in Nat /\ MaxSlow \in Nat

VARIABLES
  lock,     \* the Writer that made the lock directory that is there, or None
  owner,    \* the Writer that owner.json names, None if it cannot be read
  old,      \* the lock directory has not been touched for five seconds
  socket,   \* the Writer that bound the socket path that is there, or None
  proc,     \* the Writer processes
  at,       \* where each client is
  seen,     \* the owner a client has read
  spawned,  \* spawnedPid
  health,   \* lastHealth
  closing,  \* whether close() waits, or has tried to recover, or neither
  count     \* how much of each bound is used up

files == <<lock, owner, old, socket>>
clients == <<at, seen, spawned, health, closing>>
vars == <<files, proc, clients, count>>

Bounds == [manual |-> MaxManual, crash |-> MaxCrashes, stop |-> MaxStops,
           fault |-> MaxFaults, slow |-> MaxSlow]
Spend(b) == /\ count[b] < Bounds[b]
            /\ count' = [count EXCEPT ![b] = @ + 1]

\* "gone" does not run, "started" runs its first lines, "locked" has made the
\* directory, "owned" has written owner.json, "open" has the connection,
\* "serving" answers, "draining" is in stop(), "closed" has closed the
\* connection, "unlocking" has removed the socket
ProcStates == {"gone", "started", "locked", "owned", "open", "serving",
               "draining", "closed", "unlocking"}
ClientStates == {"idle", "read", "judge", "rmLock", "rmSocket", "spawn",
                 "poll", "redundant", "connected", "wait"}

Exists(w) == proc[w] # "gone"  \* processExists(pid)
Open(w) == proc[w] \in {"open", "serving", "draining"}
Listening == socket # None /\ proc[socket] \in {"serving", "draining"}

Init ==
  /\ lock = None /\ owner = None /\ old = FALSE /\ socket = None
  /\ proc = [w \in Writers |-> "gone"]
  /\ at = [c \in Clients |-> "idle"]
  /\ seen = [c \in Clients |-> None]
  /\ spawned = [c \in Clients |-> None]
  /\ health = [c \in Clients |-> None]
  /\ closing = [c \in Clients |-> "no"]
  /\ count = [b \in DOMAIN Bounds |-> 0]

\* A process that is started has an identifier nobody remembers.
Fresh(w) ==
  /\ ~Exists(w) /\ w \notin {lock, owner, socket}
  /\ \A c \in Clients : w \notin {seen[c], spawned[c], health[c]}

RemoveLock == lock' = None /\ owner' = None /\ old' = FALSE

-----------------------------------------------------------------------------
(* A Writer process                                                        *)

Goto(w, s) == proc' = [proc EXCEPT ![w] = s]

StartByHand(w) ==
  /\ Fresh(w)
  /\ Spend("manual")
  /\ Goto(w, "started")
  /\ UNCHANGED <<files, clients>>

\* Mutation: whoever fails to make the directory cleans up behind itself.
MakeLockOrClean(w) ==
  /\ proc[w] = "started"
  /\ \/ /\ lock = None
        /\ lock' = w /\ owner' = None /\ old' = FALSE
        /\ Goto(w, "locked")
        /\ UNCHANGED socket
     \/ /\ lock # None
        /\ RemoveLock
        /\ socket' = None
        /\ Goto(w, "gone")
  /\ UNCHANGED <<clients, count>>

\* Mutation: whoever finds the directory made waits for it to go away.
MakeLockOrWait(w) ==
  /\ proc[w] = "started" /\ lock = None
  /\ lock' = w /\ owner' = None /\ old' = FALSE
  /\ Goto(w, "locked")
  /\ UNCHANGED <<socket, clients, count>>

\* mkdirSync(lockPath): the one test-and-set.  Whoever finds it made throws
\* and exits.
MakeLock(w) ==
  /\ proc[w] = "started"
  /\ \/ /\ lock = None
        /\ lock' = w /\ owner' = None /\ old' = FALSE
        /\ Goto(w, "locked")
     \/ /\ lock # None
        /\ Goto(w, "gone")
        /\ UNCHANGED <<lock, owner, old>>
  /\ UNCHANGED <<socket, clients, count>>

\* Mutation: the process identifier is written as a text.
WriteOwnerAsText(w) ==
  /\ proc[w] = "locked"
  /\ owner' = "text" /\ old' = FALSE
  /\ Goto(w, "owned")
  /\ UNCHANGED <<lock, socket, clients, count>>

\* writeFileSync(owner.json): into the directory that is there now; without
\* one it throws, and the catch block removes what is at the path by then.
WriteOwner(w) ==
  /\ proc[w] = "locked"
  /\ \/ /\ lock # None
        /\ owner' = w /\ old' = FALSE
        /\ Goto(w, "owned")
     \/ /\ lock = None
        /\ Goto(w, "unlocking")
        /\ UNCHANGED <<owner, old>>
  /\ UNCHANGED <<lock, socket, clients, count>>

\* The socket of an earlier Writer is removed and the database opened.
OpenConnection(w) ==
  /\ proc[w] = "owned"
  /\ socket' = None
  /\ Goto(w, "open")
  /\ UNCHANGED <<lock, owner, old, clients, count>>

\* Bun.serve({ unix: socketPath })
Serve(w) ==
  /\ proc[w] = "open"
  /\ socket' = w
  /\ Goto(w, "serving")
  /\ UNCHANGED <<lock, owner, old, clients, count>>

\* The owner file, the connection or the server fails to come up: the catch
\* blocks close what is open, then remove the files as stop() does.
FailStart(w) ==
  /\ proc[w] \in {"locked", "owned", "open"}
  /\ Spend("fault")
  /\ Goto(w, IF proc[w] = "locked" THEN "unlocking" ELSE "closed")
  /\ UNCHANGED <<files, clients>>

\* SIGINT or SIGTERM sent by hand
Terminate(w) ==
  /\ proc[w] = "serving"
  /\ Spend("stop")
  /\ Goto(w, "draining")
  /\ UNCHANGED <<files, clients>>

\* stop(): the queue is idle; server.stop(true), connection.close()
CloseConnection(w) ==
  /\ proc[w] = "draining"
  /\ Goto(w, "closed")
  /\ UNCHANGED <<files, clients, count>>

RemoveSocketFile(w) ==
  /\ proc[w] = "closed"
  /\ socket' = None
  /\ Goto(w, "unlocking")
  /\ UNCHANGED <<lock, owner, old, clients, count>>

\* Mutation: stop() closes the connection and leaves the lock.
KeepLockDirectory(w) ==
  /\ proc[w] = "unlocking"
  /\ Goto(w, "gone")
  /\ UNCHANGED <<files, clients, count>>

RemoveLockDirectory(w) ==
  /\ proc[w] = "unlocking"
  /\ RemoveLock
  /\ Goto(w, "gone")
  /\ UNCHANGED <<socket, clients, count>>

\* The process is killed; its files stay.
Crash(w) ==
  /\ Exists(w)
  /\ Spend("crash")
  /\ Goto(w, "gone")
  /\ UNCHANGED <<files, clients>>

\* Five seconds pass on a directory without a readable owner.json.  A Writer
\* that is alive writes the file at once, so its maker has died.
Age ==
  /\ lock # None /\ owner = None /\ ~old
  /\ ~Exists(lock)
  /\ old' = TRUE
  /\ UNCHANGED <<lock, owner, socket, proc, clients, count>>

-----------------------------------------------------------------------------
(* A client                                                                *)

Move(c, s) == at' = [at EXCEPT ![c] = s]

\* connectOrStart(): the first health request.
Connect(c) ==
  /\ at[c] = "idle"
  /\ \/ /\ Listening
        /\ health' = [health EXCEPT ![c] = socket]
        /\ Move(c, "connected")
     \/ /\ ~Listening
        /\ Move(c, "read")
        /\ UNCHANGED health
  /\ UNCHANGED <<files, proc, seen, spawned, closing, count>>

\* recoverStaleWriterArtifacts(): owner.json is read, with an await.
ReadOwner(c) ==
  /\ at[c] = "read"
  /\ seen' = [seen EXCEPT ![c] = owner]
  /\ Move(c, "judge")
  /\ UNCHANGED <<files, proc, spawned, health, closing, count>>

\* Mutation: a lock whose owner cannot be read is never stale.
StaleIfReadable(c) == seen[c] # None /\ ~Exists(seen[c])

\* Mutation: nobody asks whether the owner is alive.
StaleIfOwned(c) == IF seen[c] = None THEN old ELSE TRUE

Stale(c) == IF seen[c] = None THEN lock # None /\ old ELSE ~Exists(seen[c])

\* What follows the recovery in connectOrStart() and in close()
After(c) == IF closing[c] = "no" THEN "spawn" ELSE "wait"

\* The owner that was read is looked up in the process table now.
Judge(c) ==
  /\ at[c] = "judge"
  /\ Move(c, IF Stale(c) THEN "rmLock" ELSE After(c))
  /\ seen' = [seen EXCEPT ![c] = None]
  /\ UNCHANGED <<files, proc, spawned, health, closing, count>>

RemoveStaleLock(c) ==
  /\ at[c] = "rmLock"
  /\ RemoveLock
  /\ Move(c, "rmSocket")
  /\ UNCHANGED <<socket, proc, seen, spawned, health, closing, count>>

RemoveStaleSocket(c) ==
  /\ at[c] = "rmSocket"
  /\ socket' = None
  /\ Move(c, After(c))
  /\ UNCHANGED <<lock, owner, old, proc, seen, spawned, health, closing,
                 count>>

SpawnWriter(c, w) ==
  /\ at[c] = "spawn" /\ Fresh(w)
  /\ Goto(w, "started")
  /\ spawned' = [spawned EXCEPT ![c] = w]
  /\ Move(c, "poll")
  /\ UNCHANGED <<files, seen, health, closing, count>>

SpawnFails(c) ==
  /\ at[c] = "spawn"
  /\ Spend("fault")
  /\ Move(c, "idle")
  /\ UNCHANGED <<files, proc, seen, spawned, health, closing>>

\* The health requests every 25 ms; if another Writer answers than the one
\* that was spawned, waitForRedundantSpawnToExit().
Poll(c) ==
  /\ at[c] = "poll" /\ Listening
  /\ health' = [health EXCEPT ![c] = socket]
  /\ Move(c, IF spawned[c] \in {None, socket} THEN "connected"
             ELSE "redundant")
  /\ UNCHANGED <<files, proc, seen, spawned, closing, count>>

RedundantGone(c) ==
  /\ at[c] = "redundant" /\ ~Exists(spawned[c])
  /\ spawned' = [spawned EXCEPT ![c] = None]
  /\ Move(c, "connected")
  /\ UNCHANGED <<files, proc, seen, health, closing, count>>

\* WRITER_START_TIMEOUT: nobody answers, or the spawned Writer lingers.  A
\* Writer that is on its way is given up on while MaxSlow lasts.
StartTimeout(c) ==
  /\ \/ at[c] = "poll" /\ ~Listening
     \/ at[c] = "redundant"
  /\ IF Exists(spawned[c]) THEN Spend("slow") ELSE UNCHANGED count
  /\ Move(c, "idle")
  /\ UNCHANGED <<files, proc, seen, spawned, health, closing>>

\* A mutation finds no Writer: withConnectionState() forgets the connection.
LoseConnection(c) ==
  /\ at[c] = "connected" /\ ~Listening
  /\ health' = [health EXCEPT ![c] = None]
  /\ Move(c, "idle")
  /\ UNCHANGED <<files, proc, seen, spawned, closing, count>>

MayShutdown(c) ==
  /\ spawned[c] # None /\ health[c] = spawned[c] /\ Exists(spawned[c])
  /\ owner = spawned[c]

\* close({ shutdownIfOwned: true }): SIGTERM to the Writer it spawned
Close(c) ==
  /\ at[c] \in {"idle", "connected"} /\ c \in Owning
  /\ health[c] # None \/ spawned[c] # None
  /\ \/ /\ MayShutdown(c)
        /\ proc' = [proc EXCEPT ![health[c]] =
                      IF @ = "serving" THEN "draining" ELSE @]
        /\ closing' = [closing EXCEPT ![c] = "waiting"]
        /\ Move(c, "wait")
        /\ UNCHANGED <<spawned, health>>
     \/ /\ ~MayShutdown(c)
        /\ health' = [health EXCEPT ![c] = None]
        /\ spawned' = [spawned EXCEPT ![c] = None]
        /\ Move(c, "idle")
        /\ UNCHANGED <<proc, closing>>
  /\ UNCHANGED <<files, seen, count>>

\* The Writer has left and so has the lock.
Closed(c) ==
  /\ at[c] = "wait" /\ ~Exists(spawned[c]) /\ lock = None
  /\ health' = [health EXCEPT ![c] = None]
  /\ spawned' = [spawned EXCEPT ![c] = None]
  /\ closing' = [closing EXCEPT ![c] = "no"]
  /\ Move(c, "idle")
  /\ UNCHANGED <<files, proc, seen, count>>

\* The Writer is gone and the lock is not when the deadline passes: recovery.
CloseRecovers(c) ==
  /\ at[c] = "wait" /\ closing[c] = "waiting"
  /\ ~Exists(spawned[c]) /\ lock # None
  /\ closing' = [closing EXCEPT ![c] = "recovered"]
  /\ Move(c, "read")
  /\ UNCHANGED <<files, proc, seen, spawned, health, count>>

\* The Writer, or the lock, is still there: close() throws and the client
\* keeps its fields.
CloseThrows(c) ==
  /\ at[c] = "wait"
  /\ \/ Exists(spawned[c]) /\ Spend("slow")
     \/ /\ ~Exists(spawned[c]) /\ lock # None /\ closing[c] = "recovered"
        /\ UNCHANGED count
  /\ closing' = [closing EXCEPT ![c] = "no"]
  /\ Move(c, "connected")
  /\ UNCHANGED <<files, proc, seen, spawned, health>>

-----------------------------------------------------------------------------
WriterStep(w) ==
  \/ MakeLock(w) \/ WriteOwner(w) \/ OpenConnection(w) \/ Serve(w)
  \/ CloseConnection(w) \/ RemoveSocketFile(w) \/ RemoveLockDirectory(w)

ClientStep(c) ==
  \/ Connect(c) \/ ReadOwner(c) \/ Judge(c) \/ RemoveStaleLock(c)
  \/ RemoveStaleSocket(c) \/ \E w \in Writers : SpawnWriter(c, w)
  \/ Poll(c) \/ RedundantGone(c) \/ LoseConnection(c)
  \/ Closed(c) \/ CloseRecovers(c) \/ CloseThrows(c)

Environment ==
  \/ \E w \in Writers : \/ StartByHand(w) \/ FailStart(w)
                        \/ Terminate(w) \/ Crash(w)
  \/ \E c \in Clients : SpawnFails(c) \/ Close(c)

Next == \/ Age
        \/ \E w \in Writers : WriterStep(w)
        \/ \E c \in Clients : ClientStep(c) \/ StartTimeout(c)
        \/ Environment

Spec == Init /\ [][Next]_vars

\* Processes that are not killed go on, time passes, and a client that must
\* write tries again.  A deadline passes if what it waits for cannot come.
FairSpec ==
  /\ Spec
  /\ WF_vars(Age)
  /\ \A w \in Writers : WF_vars(WriterStep(w))
  /\ \A c \in Clients :
       /\ WF_vars(ClientStep(c))
       /\ WF_vars(StartTimeout(c) /\ ~Exists(spawned[c]))

-----------------------------------------------------------------------------
(* Properties                                                              *)

\* The variables keep their types (no property of the code by itself).
TypeOK ==
  /\ lock \in Writers \cup {None} /\ owner \in Writers \cup {None}
  /\ old \in BOOLEAN /\ socket \in Writers \cup {None}
  /\ proc \in [Writers -> ProcStates]
  /\ at \in [Clients -> ClientStates]
  /\ seen \in [Clients -> Writers \cup {None}]
  /\ spawned \in [Clients -> Writers \cup {None}]
  /\ health \in [Clients -> Writers \cup {None}]
  /\ closing \in [Clients -> {"no", "waiting", "recovered"}]
  /\ \A b \in DOMAIN Bounds : count[b] \in 0 .. Bounds[b]

\* Somebody has given up on a Writer that was still alive (the timeouts of
\* connectOrStart and of close()) ...
GaveUp == count["slow"] > 0

\* ... and a Writer has also been killed or stopped, or could not start, or
\* close() was among those that gave up and has itself stopped a Writer.
GaveUpAmidFailures ==
  /\ GaveUp
  /\ \/ count["crash"] > 0 \/ count["stop"] > 0 \/ count["fault"] > 0
     \/ Owning # {} /\ count["slow"] > 1

\* At most one process has the database open for writing, however the clients
\* that find no Writer race to start one: the claim of README.md and of the
\* test "elects one writer when independent processes autostart concurrently".
OneWriter == \A v, w \in Writers : Open(v) /\ Open(w) => v = w

\* Whoever has the database open owns the lock directory and its owner.json,
\* so there is one such process and clients can tell whether it lives.  Stated
\* of an election; a recovery that races another start can break it, as it
\* does OneWriter.
OpenIsOwner == \A w \in Writers : Open(w) => lock = w /\ owner = w

\* Whoever has started to serve can be reached until it stops: nobody else
\* removes, or takes over, the socket path of a Writer that serves.
ServingIsReachable ==
  \/ GaveUpAmidFailures
  \/ \A w \in Writers : proc[w] = "serving" => socket = w

\* Writers that were not killed leave nothing behind: when none is running,
\* neither lock nor socket is left for a later start to stumble over.
NothingLeftBehind ==
  count["crash"] = 0 /\ (\A w \in Writers : ~Exists(w)) =>
    lock = None /\ owner = None /\ socket = None

\* A client that needs a Writer gets one, whether it finds one, starts one or
\* must first clear away what a killed Writer left at any point of its life.
ClientConnects ==
  \A c \in Clients :
    at[c] = "idle" ~> at[c] = "connected" \/ GaveUpAmidFailures
=============================================================================

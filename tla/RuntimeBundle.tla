---------------------------- MODULE RuntimeBundle ----------------------------
(***************************************************************************)
(* startDockerRuntimeBundle and stop(): the isolated runtime target of a   *)
(* scan.  A script of Docker commands creates up to ten resources; each is *)
(* written to the lease's receipt after it was created and before it is    *)
(* started.  Whatever fails, the resources the bundle knows of are removed *)
(* and the lease is released, or quarantined if that did not work.         *)
(***************************************************************************)
EXTENDS ResourceLease

VARIABLE bundle  \* the database of its plan, the next command, whether stop() runs

Do(op, child) == <<[op |-> op, child |-> child]>>

Workspace ==
  Do("create", "workspace-volume")
  \o Do("create", "build-internal-network") \o Do("create", "build-egress-network")
  \o Do("create", "registry-proxy") \o Do("connect", "registry-proxy")
  \o Do("start", "registry-proxy")
  \o Do("create", "namespace-owner") \o Do("start", "namespace-owner")
  \o Do("create", "materializer") \o Do("start", "materializer")
  \o Do("wait", "materializer")

Dependencies ==
  Do("create", "dependency-fetch") \o Do("start", "dependency-fetch")
  \o Do("wait", "dependency-fetch") \o Do("stop", "registry-proxy")

\* Nothing for no database and for SQLite; an image that is missing throws
Database(mode) ==
  CASE mode = "none" -> <<>>
    [] mode = "service" ->
         Do("create", "database") \o Do("start", "database") \o Do("exec", "database")
    [] mode = "unqualified" -> Do("throw", "database")

Target ==
  Do("create", "target") \o Do("start", "target")
  \o Do("create", "probe") \o Do("start", "probe") \o Do("wait", "probe")

Modes == {"none", "service", "unqualified"}

Scripts == [mode \in Modes |-> Workspace \o Dependencies \o Database(mode) \o Target]

Script == Scripts[bundle.database]

Command == Script[bundle.pos]

Possible(cmd) ==
  CASE cmd.op = "create" -> TRUE
    [] cmd.op = "start" -> Startable(cmd.child)
    [] cmd.op = "connect" -> cmd.child \in docker /\ Networks \subseteq docker
    [] cmd.op = "exec" -> cmd.child \in up
    [] cmd.op \in {"wait", "stop"} -> cmd.child \in docker
    [] cmd.op = "throw" -> FALSE

\* Docker creates a named volume that a container mounts and that is missing
Effect(cmd) ==
  CASE cmd.op = "create" ->
         docker' = docker \cup {cmd.child} \cup Mounts(cmd.child) /\ UNCHANGED up
    [] cmd.op = "start" -> up' = up \cup {cmd.child} /\ UNCHANGED docker
    [] cmd.op \in {"wait", "stop"} -> up' = up \ {cmd.child} /\ UNCHANGED docker
    [] OTHER -> UNCHANGED <<docker, up>>

At(pc) == owner.kind = "bundle" /\ owner.pc = pc

\* The catch block; the evidence it collects first changes nothing
Clean(known) == [owner EXCEPT !.pc = "clean", !.known = known, !.todo = known, !.failed = FALSE]

Step == bundle' = [bundle EXCEPT !.pos = @ + 1]

Acquire ==
  /\ At("idle")
  /\ scan # "deleted"
  /\ row' = Acquired({})
  /\ Goes("command")
  /\ UNCHANGED <<docker, up, scan, busy, janitor, overtaken, faults, bundle>>

\* No row without its scan; the insert or the lookup after it may fail
AcquireFails ==
  /\ At("idle")
  /\ \/ scan = "deleted" /\ UNCHANGED row /\ NoFault
     \/ scan # "deleted" /\ row' \in {row, Acquired({})} /\ Fault
  /\ Ends("error")
  /\ UNCHANGED <<docker, up, scan, busy, janitor, overtaken, bundle>>

\* Mutation: a container is started before its receipt is stored
RunCommandEarly ==
  /\ At("command")
  /\ bundle.pos <= Len(Script)
  /\ Possible(Command)
  /\ IF Command.op = "create"
     THEN /\ docker' = docker \cup {Command.child} \cup Mounts(Command.child)
          /\ up' = up \cup ({Command.child} \cap Containers)
          /\ Goes("remember") /\ UNCHANGED bundle
     ELSE Effect(Command) /\ Step /\ UNCHANGED owner
  /\ UNCHANGED <<row, scan, busy, janitor, overtaken, faults>>

RunCommand ==
  /\ At("command")
  /\ bundle.pos <= Len(Script)
  /\ Possible(Command)
  /\ Effect(Command)
  /\ IF Command.op = "create"
     THEN Goes("remember") /\ UNCHANGED bundle
     ELSE Step /\ UNCHANGED owner
  /\ UNCHANGED <<row, scan, busy, janitor, overtaken, faults>>

\* Refused, or carried out by a command that ran out of time
CommandFails ==
  /\ At("command")
  /\ bundle.pos <= Len(Script)
  /\ \/ ~Possible(Command) /\ NoFault /\ UNCHANGED <<docker, up>>
     \/ Possible(Command) /\ Fault /\ UNCHANGED <<docker, up>>
     \/ Possible(Command) /\ Fault /\ Effect(Command)
  /\ owner' = Clean(owner.known)
  /\ UNCHANGED <<row, scan, busy, janitor, overtaken, bundle>>

Remember ==
  /\ At("remember")
  /\ row.state = "active"
  /\ LET known == owner.known \cup {Command.child} IN
       /\ owner' = [owner EXCEPT !.pc = "command", !.known = known]
       /\ row' = [row EXCEPT !.receipt = known]
  /\ Step
  /\ UNCHANGED <<docker, up, scan, busy, janitor, overtaken, faults>>

\* The guarded update meets no active row or fails, or the lookup after it does
RememberFails ==
  /\ At("remember")
  /\ LET known == owner.known \cup {Command.child} IN
       /\ owner' = Clean(known)
       /\ \/ row.state # "active" /\ NoFault /\ UNCHANGED row
          \/ row.state = "active" /\ Fault /\ row' \in {row, [row EXCEPT !.receipt = known]}
  /\ UNCHANGED <<docker, up, scan, busy, janitor, overtaken, bundle>>

Prepared ==
  /\ At("command")
  /\ bundle.pos > Len(Script)
  /\ Goes("ready")
  /\ UNCHANGED <<docker, up, row, scan, busy, janitor, overtaken, faults, bundle>>

\* A runtime step works on the target
ToolRun ==
  /\ At("ready")
  /\ busy' = ~busy
  /\ UNCHANGED <<docker, up, row, scan, owner, janitor, overtaken, faults, bundle>>

Stop ==
  /\ At("ready")
  /\ ~busy
  /\ owner' = Clean(owner.known)
  /\ bundle' = [bundle EXCEPT !.stopping = TRUE]
  /\ UNCHANGED <<docker, up, row, scan, busy, janitor, overtaken, faults>>

\* cleanupRuntimeBundle: every child is tried
CleanupChild ==
  /\ At("clean")
  /\ owner.todo # {}
  /\ LET c == FirstOf(owner.todo) IN
       \/ RemoveSucceeds(c) /\ owner' = [owner EXCEPT !.todo = @ \ {c}]
       \/ RemoveFails(c) /\ owner' = [owner EXCEPT !.todo = @ \ {c}, !.failed = TRUE]
  /\ UNCHANGED <<row, scan, busy, janitor, overtaken, bundle>>

\* The update fails, or the lookup after it
CleanupRelease ==
  /\ At("clean")
  /\ owner.todo = {} /\ ~owner.failed
  /\ \/ /\ row' = Released(owner.known)
        /\ Ends(IF bundle.stopping THEN "ok" ELSE "error")
        /\ NoFault
     \/ /\ owner' = [owner EXCEPT !.failed = TRUE]
        /\ row' \in {row, Released(owner.known)}
        /\ Fault
  /\ UNCHANGED <<docker, up, scan, busy, janitor, overtaken, bundle>>

\* Mutation: nobody is told that the cleanup failed
CleanupQuarantineSilently ==
  /\ At("clean")
  /\ owner.todo = {} /\ owner.failed
  /\ \/ row' = Quarantined(owner.known) /\ NoFault
     \/ UNCHANGED row /\ Fault
  /\ Goes("gone")
  /\ UNCHANGED <<docker, up, scan, busy, janitor, overtaken, bundle>>

\* stop() throws when quarantine does, the catch block of the start does not: an error either way
CleanupQuarantine ==
  /\ At("clean")
  /\ owner.todo = {} /\ owner.failed
  /\ \/ row' = Quarantined(owner.known) /\ NoFault
     \/ UNCHANGED row /\ Fault
  /\ Ends("error")
  /\ UNCHANGED <<docker, up, scan, busy, janitor, overtaken, bundle>>

BundleInit == bundle \in [database : Modes, pos : {1}, stopping : {FALSE}]

BundleNext ==
  \/ Acquire \/ AcquireFails
  \/ RunCommand \/ CommandFails \/ Remember \/ RememberFails
  \/ Prepared \/ ToolRun \/ Stop
  \/ CleanupChild \/ CleanupRelease \/ CleanupQuarantine
=============================================================================

---------------------------- MODULE ResourceLease ----------------------------
(***************************************************************************)
(* The Docker resources of one piece of work, the row of                   *)
(* scan_resource_leases that stands for them, the janitor that reclaims    *)
(* them once the lease has expired, and the scan the row belongs to, which *)
(* a user may delete.  Who does the work is left to RuntimeBundle and      *)
(* DynamicRun; LeasedWork puts the parts together.                         *)
(*                                                                         *)
(* A worker is a process of its own.  It may die at any moment, and        *)
(* nothing it holds in memory survives; the row does.                      *)
(***************************************************************************)
EXTENDS Naturals, Sequences

CONSTANT MaxFaults   \* bound: Docker commands, database calls and servers that fail

ASSUME FaultsAssumption == MaxFaults \in Nat

VARIABLES
  docker,     \* what exists
  up,         \* the containers that have been started and not ended since
  row,        \* the lease
  scan,       \* the scan's row: present or deleted
  busy,       \* a tool_runs or dynamic_runs row of the scan is running
  owner,      \* the worker
  janitor,    \* the lease janitor of the server
  overtaken,  \* the lease expired while its owner was at work
  faults

leaseVars == <<docker, up, row, scan, busy, owner, janitor, overtaken, faults>>

-----------------------------------------------------------------------------
(* Docker, as far as the commands of the repository can tell *)

Volumes == {"workspace-volume", "output-volume"}

Networks == {"build-internal-network", "build-egress-network"}

Containers ==
  {"registry-proxy", "namespace-owner", "materializer", "dependency-fetch",
   "database", "target", "probe", "dynamic-container"}

Resources == Containers \cup Volumes \cup Networks

Mounts(c) ==
  CASE c \in {"materializer", "dependency-fetch", "target"} -> {"workspace-volume"}
    [] c = "dynamic-container" -> {"output-volume"}
    [] OTHER -> {}

Attached(c) ==
  CASE c = "registry-proxy" -> Networks
    [] c = "dependency-fetch" -> {"build-internal-network"}
    [] OTHER -> {}

Guests == {"database", "target", "probe"}  \* live in the owner's network namespace

Startable(c) ==
  /\ c \in docker
  /\ Attached(c) \subseteq docker
  /\ c \in Guests => "namespace-owner" \in up

\* rm -f and volume rm -f succeed for what is not there, network rm does not;
\* a volume that is mounted and a network with a running member stay
Removable(c) ==
  \/ c \in Containers
  \/ c \in Volumes /\ \A d \in docker : c \notin Mounts(d)
  \/ c \in Networks \cap docker /\ \A d \in up : c \notin Attached(d)

Fault ==
  /\ faults < MaxFaults
  /\ faults' = faults + 1

NoFault == UNCHANGED faults

Remove(c) ==
  /\ docker' = docker \ {c}
  /\ up' = up \ {c}

RemoveSucceeds(c) == Removable(c) /\ Remove(c) /\ NoFault

\* Refused, or carried out by a command that ran out of time
RemoveFails(c) ==
  \/ ~Removable(c) /\ NoFault /\ UNCHANGED <<docker, up>>
  \/ Fault /\ UNCHANGED <<docker, up>>
  \/ Removable(c) /\ Fault /\ Remove(c)

\* Containers first, then volumes, then networks, each in the order of creation
CleanupOrder ==
  <<"registry-proxy", "namespace-owner", "materializer", "dependency-fetch",
    "database", "target", "probe", "dynamic-container",
    "workspace-volume", "output-volume",
    "build-internal-network", "build-egress-network">>

FirstOf(S) ==
  CleanupOrder[CHOOSE i \in DOMAIN CleanupOrder :
                 /\ CleanupOrder[i] \in S
                 /\ \A j \in 1 .. (i - 1) : CleanupOrder[j] \notin S]

-----------------------------------------------------------------------------
(* The repository of leases.  receipt holds the resources that the stored  *)
(* receipt names; what the reaper stores names none.                       *)

NoLease == [state |-> "none", receipt |-> {}, expired |-> FALSE]

Acquired(receipt) == [state |-> "active", receipt |-> receipt, expired |-> FALSE]

\* release and quarantine look at nothing but the row's id
Settled(state, receipt) ==
  IF row.state = "none" THEN row ELSE [row EXCEPT !.state = state, !.receipt = receipt]

Released(receipt) == Settled("released", receipt)

Quarantined(receipt) == Settled("quarantined", receipt)

\* Mutation: the comparison of the deadline is the wrong way round
RecoverableEarly == row.state = "active" /\ ~row.expired

Recoverable == row.state = "active" /\ row.expired

Expire ==
  /\ row.state = "active" /\ ~row.expired
  /\ row' = [row EXCEPT !.expired = TRUE]
  /\ overtaken' = (overtaken \/ owner.pc \notin {"gone", "dead"})
  /\ UNCHANGED <<docker, up, scan, busy, owner, janitor, faults>>

-----------------------------------------------------------------------------
(* The janitor: one reap at a time, every minute and at each start.  reap  *)
(* works on the receipt as it was when the rows were listed.               *)

Resting == [pc |-> "idle", todo |-> {}, failed |-> FALSE]

ReapList ==
  /\ janitor.pc = "idle"
  /\ Recoverable
  /\ janitor' = [pc |-> "clean", todo |-> row.receipt, failed |-> FALSE]
  /\ UNCHANGED <<docker, up, row, scan, busy, owner, overtaken, faults>>

\* The cleanup of a bundle goes on after a failure, that of a dynamic run does not
ReapRemove ==
  /\ janitor.pc = "clean"
  /\ janitor.todo # {}
  /\ LET c == FirstOf(janitor.todo) IN
       \/ /\ RemoveSucceeds(c)
          /\ janitor' = [janitor EXCEPT !.todo = @ \ {c}]
       \/ /\ RemoveFails(c)
          /\ janitor' = [janitor EXCEPT !.failed = TRUE,
                           !.todo = IF owner.kind = "bundle" THEN @ \ {c} ELSE {}]
  /\ UNCHANGED <<row, scan, busy, owner, overtaken>>

\* The update fails, or the lookup after it
ReapRelease ==
  /\ janitor.pc = "clean" /\ janitor.todo = {} /\ ~janitor.failed
  /\ \/ /\ row' = Released({})
        /\ janitor' = Resting
        /\ NoFault
     \/ /\ Fault
        /\ janitor' = [janitor EXCEPT !.failed = TRUE]
        /\ row' \in {row, Released({})}
  /\ UNCHANGED <<docker, up, scan, busy, owner, overtaken>>

\* The receipt that names what is left is replaced by a reason
ReapQuarantine ==
  /\ janitor.pc = "clean" /\ janitor.todo = {} /\ janitor.failed
  /\ \/ row' = Quarantined({}) /\ NoFault
     \/ UNCHANGED row /\ Fault
  /\ janitor' = Resting
  /\ UNCHANGED <<docker, up, scan, busy, owner, overtaken>>

\* The server dies in the middle of a reap and comes back
JanitorDies ==
  /\ janitor.pc # "idle"
  /\ Fault
  /\ janitor' = Resting
  /\ UNCHANGED <<docker, up, row, scan, busy, owner, overtaken>>

Janitor == ReapList \/ ReapRemove \/ ReapRelease \/ ReapQuarantine

-----------------------------------------------------------------------------
(* The scan.  It can be deleted once it is decided: by its own process, by *)
(* a cancel, or by the recovery of a restarted server, the last two while  *)
(* the worker may still be alive.  So that may be at any moment.           *)

\* The delete trigger looks at active work, not at leases; the rows cascade
DeleteScan ==
  /\ scan = "present"
  /\ ~busy
  /\ scan' = "deleted"
  /\ row' = NoLease
  /\ UNCHANGED <<docker, up, busy, owner, janitor, overtaken, faults>>

-----------------------------------------------------------------------------
(* The worker: what it remembers in memory (known), what its own cleanup   *)
(* has still to remove (todo), and what it told its caller.                *)

Idle(kind) ==
  [kind |-> kind, pc |-> "idle", known |-> {}, todo |-> {}, failed |-> FALSE,
   verdict |-> "none"]

Goes(pc) == owner' = [owner EXCEPT !.pc = pc]

Ends(verdict) == owner' = [owner EXCEPT !.pc = "gone", !.verdict = verdict]

OwnerDies ==
  /\ owner.pc \notin {"idle", "gone", "dead"}
  /\ Goes("dead")
  /\ UNCHANGED <<docker, up, row, scan, busy, janitor, overtaken, faults>>
=============================================================================

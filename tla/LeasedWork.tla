------------------------------ MODULE LeasedWork ------------------------------
(***************************************************************************)
(* One worker of either kind, its lease, the janitor and the scan: what    *)
(* becomes of the containers when commands and database calls fail, the    *)
(* worker dies, the lease expires and the scan is deleted.                 *)
(***************************************************************************)
EXTENDS RuntimeBundle, DynamicRun

vars == <<leaseVars, bundle, run>>

Init ==
  /\ docker = {} /\ up = {}
  /\ row = NoLease
  /\ scan = "present" /\ busy = FALSE
  /\ janitor = Resting
  /\ overtaken = FALSE
  /\ faults = 0
  /\ BundleInit /\ DynamicInit
  /\ \/ owner = Idle("bundle") /\ run.kind = "test"
     \/ owner = Idle("dynamic") /\ bundle.database = "none"

Environment == Expire \/ Janitor \/ JanitorDies \/ DeleteScan \/ OwnerDies

Next ==
  \/ Environment /\ UNCHANGED <<bundle, run>>
  \/ BundleNext /\ UNCHANGED run
  \/ DynamicNext /\ UNCHANGED bundle

Spec == Init /\ [][Next]_vars

\* Time passes, and the janitor's interval fires for as long as there is a server
FairSpec ==
  /\ Spec
  /\ WF_vars(Expire /\ UNCHANGED <<bundle, run>>)
  /\ WF_vars(Janitor /\ UNCHANGED <<bundle, run>>)

-----------------------------------------------------------------------------
\* The types of all variables; a worker that has ended has told its caller how
TypeOK ==
  /\ docker \subseteq Resources
  /\ up \subseteq docker \cap Containers
  /\ row \in [state : {"none", "active", "released", "quarantined"},
              receipt : SUBSET Resources, expired : BOOLEAN]
  /\ scan \in {"present", "deleted"}
  /\ busy \in BOOLEAN /\ overtaken \in BOOLEAN
  /\ faults \in 0 .. MaxFaults
  /\ owner.todo \subseteq owner.known /\ owner.known \subseteq Resources
  /\ owner.pc = "gone" => owner.verdict \in {"ok", "error"}
  /\ janitor.pc \in {"idle", "clean"} /\ janitor.todo \subseteq Resources
  /\ bundle.pos \in 1 .. Len(Script) + 1
  /\ run.status \in Terminal \cup {"none", "running"}
  /\ run.outcome \in Outcomes

\* Whoever looks at the table of leases finds what is running: a lease the
\* janitor will come to, or one that is marked as in need of attention
Recorded ==
  \/ up = {}
  \/ row.state = "quarantined"
  \/ row.state = "active" /\ up \subseteq row.receipt

\* The life of the lease was not cut short, by a deletion or by its own deadline
Undisturbed == scan # "deleted" /\ ~overtaken

\* A container is never running without a lease that leads to it: the receipt
\* is stored before the start, survives the death of the worker at any point,
\* and is only given up when the removal worked.  The exception is a dynamic
\* run that could not remove its container.
RunningIsLeased ==
  Undisturbed /\ ~(owner.kind = "dynamic" /\ owner.failed) => Recorded

\* What reports success has left nothing behind, whatever the janitor removed
\* under it.  The exception is a dynamic run whose time was over.
SuccessLeavesNothing ==
  owner.pc = "gone" /\ owner.verdict = "ok" /\ ~run.killed => docker = {}

\* What a worker leaves running when it dies is removed or quarantined, unless
\* the scan is deleted first
AbandonedIsReaped ==
  owner.pc = "dead" /\ Undisturbed /\ Recorded
    ~> up = {} \/ row.state = "quarantined" \/ scan = "deleted"

\* The resources of a dynamic run have a recoverable parent lease
DynamicIsRecoverable == owner.kind = "dynamic" /\ Undisturbed => Recorded
=============================================================================

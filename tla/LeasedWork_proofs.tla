-------------------------- MODULE LeasedWork_proofs --------------------------
(***************************************************************************)
(* Proofs about LeasedWork, for any number of faults: its types, that what *)
(* runs is named by a lease (RunningIsLeased), and that what reports       *)
(* success has left nothing behind (SuccessLeavesNothing).                 *)
(***************************************************************************)
EXTENDS LeasedWork, TLAPS

BundlePCs == {"idle", "command", "remember", "ready", "clean", "gone", "dead"}

DynamicPCs ==
  {"idle", "prepare", "volume", "spawn", "running", "collect", "rmContainer",
   "rmVolume", "record", "evidence", "catch", "finally", "finalize", "gone", "dead"}

Workers ==
  [kind : {"bundle", "dynamic"}, pc : BundlePCs \cup DynamicPCs,
   known : SUBSET Resources, todo : SUBSET Resources, failed : BOOLEAN,
   verdict : {"none", "ok", "error"}]

Leases ==
  [state : {"none", "active", "released", "quarantined"},
   receipt : SUBSET Resources, expired : BOOLEAN]

Janitors == [pc : {"idle", "clean"}, todo : SUBSET Resources, failed : BOOLEAN]

Bundles == [database : Modes, pos : Nat, stopping : BOOLEAN]

Runs ==
  [kind : DynamicKinds, status : Terminal \cup {"none", "running"},
   leased : BOOLEAN, outDir : BOOLEAN, killed : BOOLEAN, outcome : Outcomes]

Typed ==
  /\ TypeOK
  /\ owner \in Workers /\ row \in Leases /\ janitor \in Janitors
  /\ bundle \in Bundles /\ run \in Runs
  /\ owner.pc \in (IF owner.kind = "bundle" THEN BundlePCs ELSE DynamicPCs)
  /\ owner.pc \in {"finally", "finalize"} => owner.verdict # "none"
  /\ owner.verdict # "none" => owner.pc \in {"finally", "finalize", "gone", "dead"}

\* What a bundle has created it knows of, but for the child it is about to
\* remember; a cleanup that goes on without a failure has still everything
\* that exists before it
BundleKnows ==
  owner.kind = "bundle" =>
    /\ owner.pc = "idle" => docker = {} /\ owner.known = {} /\ bundle.pos = 1
    /\ owner.pc \in {"command", "ready"} => docker \subseteq owner.known
    /\ owner.pc = "remember" =>
         /\ bundle.pos <= Len(Script) /\ Command.op = "create"
         /\ docker \subseteq owner.known \cup {Command.child}
    /\ owner.pc \in {"command", "remember"} /\ bundle.pos > 1
         => "workspace-volume" \in owner.known
    /\ bundle.stopping => owner.pc \in {"clean", "gone", "dead"}
    /\ owner.pc = "clean" /\ bundle.stopping /\ ~owner.failed
         => docker \subseteq owner.todo
    /\ owner.verdict = "ok" => docker = {}

\* How much of a dynamic run's two resources may exist at each of its steps
DynamicKnows ==
  owner.kind = "dynamic" =>
    /\ docker \subseteq {Container, Volume}
    /\ owner.pc \in {"idle", "prepare"} => docker = {}
    /\ owner.pc \in {"volume", "spawn"} => docker \subseteq {Volume}
    /\ owner.pc \in {"rmVolume", "record", "evidence", "catch", "finally",
                     "finalize", "gone"} /\ ~owner.failed
         => docker \subseteq {Volume}
    /\ /\ owner.pc \in {"record", "evidence", "catch", "finally", "finalize", "gone"}
       /\ ~owner.failed /\ run.outcome # "no volume"
       => docker = {}
    /\ owner.pc = "evidence" /\ run.status = "completed" /\ ~run.killed => docker = {}
    /\ owner.verdict = "ok" /\ ~run.killed => docker = {}

\* While nothing disturbs the lease it stands unexpired behind its owner, and
\* the janitor only comes when the owner has gone, with all that runs on its list
Leased ==
  Undisturbed =>
    /\ owner.pc = "idle" => row.state = "none"
    /\ owner.pc \notin {"gone", "dead"} => ~row.expired /\ janitor.pc = "idle"
    /\ owner.kind = "bundle" /\ owner.pc \in {"command", "remember", "ready"} =>
         /\ row.state = "active" /\ row.receipt = owner.known
         /\ up \subseteq owner.known
    /\ owner.kind = "bundle" /\ owner.pc = "clean" /\ ~owner.failed
         => up \subseteq owner.todo
    /\ owner.kind = "dynamic" /\ owner.pc \in {"volume", "spawn", "running",
                                               "collect", "rmContainer", "rmVolume"}
         => row.state = "active" /\ row.receipt = {Container, Volume}
    /\ /\ owner.pc \in {"gone", "dead"} /\ janitor.pc = "clean" /\ ~janitor.failed
       /\ ~(owner.kind = "dynamic" /\ owner.failed)
       => up \subseteq janitor.todo

LeasedInv == Typed /\ BundleKnows /\ DynamicKnows /\ Leased /\ RunningIsLeased

-----------------------------------------------------------------------------
(* The resources and the script of a bundle *)

Children == Resources \ {Container, Volume}

ScriptCommands ==
  [op : {"create"}, child : Children]
    \cup [op : {"start", "connect", "exec", "wait", "stop", "throw"},
          child : Children \cap Containers]

FirstCommand == [op |-> "create", child |-> "workspace-volume"]

\* A script of such commands that begins with the volume
Begun == {s \in Seq(ScriptCommands) : Len(s) > 0 /\ s[1] = FirstCommand}

\* What the proofs use of the resources: the containers of a bundle mount its
\* volume or nothing, and neither resource of a dynamic run is one of a bundle
LEMMA ResourceFacts ==
  /\ Containers \subseteq Resources
  /\ Container \in Containers
  /\ Volume \in Resources /\ Volume \notin Containers
  /\ \A c \in Children : Mounts(c) \subseteq {"workspace-volume"}
  /\ Mounts("workspace-volume") = {}
  /\ "workspace-volume" \in Resources
BY DEF Containers, Resources, Volumes, Networks, Container, Volume, Children, Mounts

\* What comes after the first command of a script does not change it
LEMMA BegunGrows ==
  ASSUME NEW s \in Begun, NEW t \in Seq(ScriptCommands)
  PROVE  s \o t \in Begun
<1>1. s \in Seq(ScriptCommands) /\ Len(s) \in Nat /\ Len(s) > 0 /\ s[1] = FirstCommand
  BY DEF Begun
<1>2. /\ s \o t \in Seq(ScriptCommands)
      /\ Len(s \o t) = Len(s) + Len(t) /\ Len(t) \in Nat
      /\ (s \o t)[1] = s[1]
  BY <1>1
<1> DEFINE u == s \o t
<1>3. u \in Seq(ScriptCommands) /\ Len(u) > 0 /\ u[1] = FirstCommand
  BY <1>1, <1>2
<1> HIDE DEF u
<1>4. u \in Begun
  BY <1>3 DEF Begun
<1> QED BY <1>4 DEF u

\* Scripts are put together from single commands
LEMMA SingleCommands ==
  ASSUME NEW op, NEW child, [op |-> op, child |-> child] \in ScriptCommands
  PROVE  Do(op, child) \in Seq(ScriptCommands)
BY DEF Do

\* Every script of a bundle begins with the volume, and its commands are about
\* the children of a bundle; only containers are more than created
LEMMA ScriptsAreBegun == \A mode \in Modes : Scripts[mode] \in Begun
<1> DEFINE D(op, child) == Do(op, child) \in Seq(ScriptCommands)
<1>1. \A c \in Children : D("create", c)
  BY SingleCommands DEF ScriptCommands
<1>2. \A op \in {"start", "connect", "exec", "wait", "stop", "throw"},
         c \in Children \cap Containers : D(op, c)
  BY SingleCommands DEF ScriptCommands
<1>3. /\ {"registry-proxy", "namespace-owner", "materializer", "dependency-fetch",
          "database", "target", "probe"} \subseteq Children \cap Containers
      /\ {"workspace-volume", "build-internal-network", "build-egress-network"} \subseteq Children
  BY DEF Children, Containers, Resources, Volumes, Networks, Container, Volume
<1>4. Do("create", "workspace-volume") \in Begun
  <2>1. FirstCommand \in ScriptCommands
    BY <1>3 DEF FirstCommand, ScriptCommands
  <2> QED BY <2>1 DEF Do, FirstCommand, Begun
<1>5. Workspace \in Begun
  <2> DEFINE w2 == Do("create", "workspace-volume") \o Do("create", "build-internal-network")
  <2> DEFINE w3 == w2 \o Do("create", "build-egress-network")
  <2> DEFINE w4 == w3 \o Do("create", "registry-proxy")
  <2> DEFINE w5 == w4 \o Do("connect", "registry-proxy")
  <2> DEFINE w6 == w5 \o Do("start", "registry-proxy")
  <2> DEFINE w7 == w6 \o Do("create", "namespace-owner")
  <2> DEFINE w8 == w7 \o Do("start", "namespace-owner")
  <2> DEFINE w9 == w8 \o Do("create", "materializer")
  <2> DEFINE w10 == w9 \o Do("start", "materializer")
  <2> DEFINE w11 == w10 \o Do("wait", "materializer")
  <2>2. w2 \in Begun
    <3>1. D("create", "build-internal-network")
      BY <1>1, <1>3
    <3> QED BY <3>1, <1>4, BegunGrows
  <2>3. w3 \in Begun
    <3>1. D("create", "build-egress-network")
      BY <1>1, <1>3
    <3> QED BY <3>1, <2>2, BegunGrows
  <2>4. w4 \in Begun
    <3>1. D("create", "registry-proxy")
      BY <1>1, <1>3
    <3> QED BY <3>1, <2>3, BegunGrows
  <2>5. w5 \in Begun
    <3>1. D("connect", "registry-proxy")
      BY <1>2, <1>3
    <3> QED BY <3>1, <2>4, BegunGrows
  <2>6. w6 \in Begun
    <3>1. D("start", "registry-proxy")
      BY <1>2, <1>3
    <3> QED BY <3>1, <2>5, BegunGrows
  <2>7. w7 \in Begun
    <3>1. D("create", "namespace-owner")
      BY <1>1, <1>3
    <3> QED BY <3>1, <2>6, BegunGrows
  <2>8. w8 \in Begun
    <3>1. D("start", "namespace-owner")
      BY <1>2, <1>3
    <3> QED BY <3>1, <2>7, BegunGrows
  <2>9. w9 \in Begun
    <3>1. D("create", "materializer")
      BY <1>1, <1>3
    <3> QED BY <3>1, <2>8, BegunGrows
  <2>10. w10 \in Begun
    <3>1. D("start", "materializer")
      BY <1>2, <1>3
    <3> QED BY <3>1, <2>9, BegunGrows
  <2>11. w11 \in Begun
    <3>1. D("wait", "materializer")
      BY <1>2, <1>3
    <3> QED BY <3>1, <2>10, BegunGrows
  <2> QED BY <2>11 DEF Workspace
<1>6. Dependencies \in Seq(ScriptCommands)
  <2>1. D("create", "dependency-fetch")
    BY <1>1, <1>3
  <2>2. D("start", "dependency-fetch")
    BY <1>2, <1>3
  <2>3. D("wait", "dependency-fetch")
    BY <1>2, <1>3
  <2>4. D("stop", "registry-proxy")
    BY <1>2, <1>3
  <2> QED BY <2>1, <2>2, <2>3, <2>4 DEF Dependencies
<1>7. \A mode \in Modes : Database(mode) \in Seq(ScriptCommands)
  <2>1. D("create", "database")
    BY <1>1, <1>3
  <2>2. D("start", "database")
    BY <1>2, <1>3
  <2>3. D("exec", "database")
    BY <1>2, <1>3
  <2>4. D("throw", "database")
    BY <1>2, <1>3
  <2> QED BY <2>1, <2>2, <2>3, <2>4 DEF Database, Modes
<1>8. Target \in Seq(ScriptCommands)
  <2>1. D("create", "target")
    BY <1>1, <1>3
  <2>2. D("start", "target")
    BY <1>2, <1>3
  <2>3. D("create", "probe")
    BY <1>1, <1>3
  <2>4. D("start", "probe")
    BY <1>2, <1>3
  <2>5. D("wait", "probe")
    BY <1>2, <1>3
  <2> QED BY <2>1, <2>2, <2>3, <2>4, <2>5 DEF Target
<1> QED
  <2> SUFFICES ASSUME NEW mode \in Modes
               PROVE  Workspace \o Dependencies \o Database(mode) \o Target \in Begun
    BY DEF Scripts
  <2>1. Workspace \o Dependencies \in Begun
    BY <1>5, <1>6, BegunGrows
  <2>2. (Workspace \o Dependencies) \o Database(mode) \in Begun
    BY <2>1, <1>7, BegunGrows
  <2> QED BY <2>2, <1>8, BegunGrows

\* The command a bundle is about to run
LEMMA CommandFacts ==
  ASSUME Typed
  PROVE  /\ Len(Script) \in Nat
         /\ bundle.pos <= Len(Script) => Command \in ScriptCommands
         /\ bundle.pos = 1 => bundle.pos <= Len(Script) /\ Command = FirstCommand
<1>1. Script \in Begun
  BY ScriptsAreBegun DEF Script, Typed, Bundles
<1>2. bundle.pos \in Nat /\ bundle.pos >= 1
  <2>1. Len(Script) \in Nat
    BY <1>1 DEF Begun
  <2> QED BY <2>1 DEF Typed, TypeOK, Bundles
<1> QED BY <1>1, <1>2 DEF Command, Begun

\* What acquire writes
LEMMA AcquiredFacts ==
  ASSUME NEW rc \in SUBSET Resources
  PROVE  /\ Acquired(rc) \in Leases
         /\ Acquired(rc).state = "active" /\ Acquired(rc).receipt = rc
         /\ Acquired(rc).expired = FALSE
BY DEF Acquired, Leases

\* What release and quarantine write
LEMMA SettledFacts ==
  ASSUME Typed, NEW st \in {"released", "quarantined"}, NEW rc \in SUBSET Resources
  PROVE  /\ Settled(st, rc) \in Leases
         /\ Settled(st, rc).state = (IF row.state = "none" THEN "none" ELSE st)
         /\ Settled(st, rc).receipt = (IF row.state = "none" THEN row.receipt ELSE rc)
         /\ Settled(st, rc).expired = row.expired
BY DEF Settled, Leases, Typed

-----------------------------------------------------------------------------
(* Every step preserves the invariant *)

\* Time, the janitor, a deletion and the death of the worker
LEMMA EnvironmentStep ==
  ASSUME LeasedInv, Environment, UNCHANGED <<bundle, run>>
  PROVE  LeasedInv'
<1> USE DEF LeasedInv
<1>1. CASE Expire
  <2>1. /\ row.state = "active"
        /\ row' \in Leases
        /\ row'.state = row.state /\ row'.receipt = row.receipt /\ row'.expired = TRUE
        /\ overtaken' = (overtaken \/ owner.pc \notin {"gone", "dead"})
        /\ UNCHANGED <<docker, up, scan, busy, owner, janitor, faults>>
        /\ UNCHANGED <<bundle, run>>
    BY <1>1, FaultsAssumption DEF Expire, TypeOK, Typed, Leases
  <2>2. Typed'
    BY <2>1, ResourceFacts, FaultsAssumption DEF Typed, TypeOK, Workers, Leases,
       Janitors, Bundles, Runs, BundlePCs, DynamicPCs, Script
  <2>3. BundleKnows'
    BY <2>1, ResourceFacts, FaultsAssumption DEF BundleKnows, Typed, TypeOK, Script,
       Command
  <2>4. DynamicKnows'
    BY <2>1, ResourceFacts, FaultsAssumption DEF DynamicKnows, Typed, TypeOK
  <2>5. Leased'
    BY <2>1, ResourceFacts, FaultsAssumption DEF Leased, BundleKnows, DynamicKnows,
       Undisturbed, Recorded, RunningIsLeased, Typed, TypeOK, Workers
  <2>6. RunningIsLeased'
    BY <2>1, ResourceFacts, FaultsAssumption DEF Leased, BundleKnows, DynamicKnows,
       Undisturbed, Recorded, RunningIsLeased, Typed, TypeOK, Workers
  <2> QED BY <2>2, <2>3, <2>4, <2>5, <2>6
<1>2. CASE ReapList
  <2>1. /\ row.state = "active" /\ row.expired
        /\ janitor' \in Janitors
        /\ janitor'.pc = "clean" /\ janitor'.todo = row.receipt /\ janitor'.failed = FALSE
        /\ UNCHANGED <<docker, up, row, scan, busy, owner, overtaken, faults>>
        /\ UNCHANGED <<bundle, run>>
    BY <1>2, FaultsAssumption DEF ReapList, Recoverable, TypeOK, Typed, Janitors
  <2>2. Typed'
    BY <2>1, ResourceFacts, FaultsAssumption DEF Typed, TypeOK, Workers, Leases,
       Janitors, Bundles, Runs, BundlePCs, DynamicPCs, Script
  <2>3. BundleKnows'
    BY <2>1, ResourceFacts, FaultsAssumption DEF BundleKnows, Typed, TypeOK, Script,
       Command
  <2>4. DynamicKnows'
    BY <2>1, ResourceFacts, FaultsAssumption DEF DynamicKnows, Typed, TypeOK
  <2>5. Leased'
    BY <2>1, ResourceFacts, FaultsAssumption DEF Leased, BundleKnows, DynamicKnows,
       Undisturbed, Recorded, RunningIsLeased, Typed, TypeOK, Workers
  <2>6. RunningIsLeased'
    BY <2>1, ResourceFacts, FaultsAssumption DEF Leased, BundleKnows, DynamicKnows,
       Undisturbed, Recorded, RunningIsLeased, Typed, TypeOK, Workers
  <2> QED BY <2>2, <2>3, <2>4, <2>5, <2>6
<1>3. CASE ReapRemove
  <2>1. /\ janitor.pc = "clean" /\ janitor' \in Janitors /\ janitor'.pc = "clean"
        /\ \E c : /\ docker' \in {docker, docker \ {c}} /\ up' \in {up, up \ {c}}
                  /\ docker' = docker => up' = up
                  /\ up' \subseteq docker'
                  /\ \/ janitor'.failed
                     \/ /\ janitor'.failed = janitor.failed /\ up' = up \ {c}
                        /\ janitor'.todo = janitor.todo \ {c}
        /\ faults' \in 0 .. MaxFaults
        /\ UNCHANGED <<row, scan, busy, owner, overtaken>>
        /\ UNCHANGED <<bundle, run>>
    <3>1. /\ janitor.pc = "clean" /\ janitor' \in Janitors /\ janitor'.pc = "clean"
      BY <1>3 DEF ReapRemove, Janitors, Typed
    <3>2. /\ \E c : /\ docker' \in {docker, docker \ {c}} /\ up' \in {up, up \ {c}}
                    /\ docker' = docker => up' = up
                    /\ up' \subseteq docker'
                    /\ \/ janitor'.failed
                       \/ /\ janitor'.failed = janitor.failed /\ up' = up \ {c}
                          /\ janitor'.todo = janitor.todo \ {c}
      BY ZenonT(60), <1>3 DEF ReapRemove, RemoveSucceeds, RemoveFails, Remove,
          Janitors, Typed,
         TypeOK
    <3>3. /\ faults' \in 0 .. MaxFaults
      BY <1>3, FaultsAssumption DEF ReapRemove, RemoveSucceeds, RemoveFails, Fault,
         NoFault, Typed, TypeOK
    <3>4. /\ UNCHANGED <<row, scan, busy, owner, overtaken>>
      BY <1>3 DEF ReapRemove
    <3>5. /\ UNCHANGED <<bundle, run>>
      BY <1>3 DEF ReapRemove
    <3> QED BY <3>1, <3>2, <3>3, <3>4, <3>5
  <2>2. Typed'
    BY <2>1, ResourceFacts, FaultsAssumption DEF Typed, TypeOK, Workers, Leases,
       Janitors, Bundles, Runs, BundlePCs, DynamicPCs, Script
  <2>3. BundleKnows'
    BY <2>1, ResourceFacts, FaultsAssumption DEF BundleKnows, Typed, TypeOK, Script,
       Command
  <2>4. DynamicKnows'
    BY <2>1, ResourceFacts, FaultsAssumption DEF DynamicKnows, Typed, TypeOK
  <2>5. Leased'
    BY <2>1, ResourceFacts, FaultsAssumption DEF Leased, BundleKnows, DynamicKnows,
       Undisturbed, Recorded, RunningIsLeased, Typed, TypeOK, Workers
  <2>6. RunningIsLeased'
    BY <2>1, ResourceFacts, FaultsAssumption DEF Leased, BundleKnows, DynamicKnows,
       Undisturbed, Recorded, RunningIsLeased, Typed, TypeOK, Workers
  <2> QED BY <2>2, <2>3, <2>4, <2>5, <2>6
<1>4. CASE ReapRelease
  <2>1. /\ janitor.pc = "clean" /\ janitor.todo = {} /\ ~janitor.failed
        /\ janitor' \in Janitors /\ (janitor'.pc = "clean" => janitor'.failed)
        /\ \/ /\ row' = row
           \/ /\ row' \in Leases
              /\ row'.state = (IF row.state = "none" THEN "none" ELSE "released")
              /\ row'.receipt = (IF row.state = "none" THEN row.receipt ELSE {})
              /\ row'.expired = row.expired
        /\ faults' \in 0 .. MaxFaults
        /\ UNCHANGED <<docker, up, scan, busy, owner, overtaken>>
        /\ UNCHANGED <<bundle, run>>
    <3>1. /\ janitor.pc = "clean" /\ janitor.todo = {} /\ ~janitor.failed
      BY <1>4 DEF ReapRelease
    <3>2. /\ janitor' \in Janitors /\ (janitor'.pc = "clean" => janitor'.failed)
      <4>1. CASE janitor' = Resting
        BY <4>1 DEF Resting, Janitors
      <4>2. CASE janitor' = [janitor EXCEPT !.failed = TRUE]
        BY <4>2 DEF Typed, Janitors
      <4> QED BY <1>4, <4>1, <4>2 DEF ReapRelease
    <3>3. /\ \/ /\ row' = row
             \/ /\ row' \in Leases
                /\ row'.state = (IF row.state = "none" THEN "none" ELSE "released")
                /\ row'.receipt = (IF row.state = "none" THEN row.receipt ELSE {})
                /\ row'.expired = row.expired
      BY <1>4, SettledFacts DEF ReapRelease, Released, Leases, Typed
    <3>4. /\ faults' \in 0 .. MaxFaults
      BY <1>4, FaultsAssumption DEF ReapRelease, Fault, NoFault, Typed, TypeOK
    <3>5. /\ UNCHANGED <<docker, up, scan, busy, owner, overtaken>>
      BY <1>4 DEF ReapRelease
    <3>6. /\ UNCHANGED <<bundle, run>>
      BY <1>4 DEF ReapRelease
    <3> QED BY <3>1, <3>2, <3>3, <3>4, <3>5, <3>6
  <2>2. Typed'
    BY <2>1, ResourceFacts, FaultsAssumption DEF Typed, TypeOK, Workers, Leases,
       Janitors, Bundles, Runs, BundlePCs, DynamicPCs, Script
  <2>3. BundleKnows'
    BY <2>1, ResourceFacts, FaultsAssumption DEF BundleKnows, Typed, TypeOK, Script,
       Command
  <2>4. DynamicKnows'
    BY <2>1, ResourceFacts, FaultsAssumption DEF DynamicKnows, Typed, TypeOK
  <2>5. Leased'
    BY <2>1, ResourceFacts, FaultsAssumption DEF Leased, BundleKnows, DynamicKnows,
       Undisturbed, Recorded, RunningIsLeased, Typed, TypeOK, Workers
  <2>6. RunningIsLeased'
    BY <2>1, ResourceFacts, FaultsAssumption DEF Leased, BundleKnows, DynamicKnows,
       Undisturbed, Recorded, RunningIsLeased, Typed, TypeOK, Workers
  <2> QED BY <2>2, <2>3, <2>4, <2>5, <2>6
<1>5. CASE ReapQuarantine
  <2>1. /\ janitor.pc = "clean"
        /\ janitor' \in Janitors /\ janitor'.pc = "idle"
        /\ \/ /\ row' = row
           \/ /\ row' \in Leases
              /\ row'.state = (IF row.state = "none" THEN "none" ELSE "quarantined")
              /\ row'.receipt = (IF row.state = "none" THEN row.receipt ELSE {})
              /\ row'.expired = row.expired
        /\ faults' \in 0 .. MaxFaults
        /\ UNCHANGED <<docker, up, scan, busy, owner, overtaken>>
        /\ UNCHANGED <<bundle, run>>
    <3>1. /\ janitor.pc = "clean"
      BY <1>5 DEF ReapQuarantine
    <3>2. /\ janitor' \in Janitors /\ janitor'.pc = "idle"
      BY <1>5 DEF ReapQuarantine, Resting, Janitors, Typed
    <3>3. /\ \/ /\ row' = row
             \/ /\ row' \in Leases
                /\ row'.state = (IF row.state = "none" THEN "none" ELSE "quarantined")
                /\ row'.receipt = (IF row.state = "none" THEN row.receipt ELSE {})
                /\ row'.expired = row.expired
      BY <1>5, SettledFacts DEF ReapQuarantine, Quarantined, Leases, Typed
    <3>4. /\ faults' \in 0 .. MaxFaults
      BY <1>5, FaultsAssumption DEF ReapQuarantine, Fault, NoFault, Typed, TypeOK
    <3>5. /\ UNCHANGED <<docker, up, scan, busy, owner, overtaken>>
      BY <1>5 DEF ReapQuarantine
    <3>6. /\ UNCHANGED <<bundle, run>>
      BY <1>5 DEF ReapQuarantine
    <3> QED BY <3>1, <3>2, <3>3, <3>4, <3>5, <3>6
  <2>2. Typed'
    BY <2>1, ResourceFacts, FaultsAssumption DEF Typed, TypeOK, Workers, Leases,
       Janitors, Bundles, Runs, BundlePCs, DynamicPCs, Script
  <2>3. BundleKnows'
    BY <2>1, ResourceFacts, FaultsAssumption DEF BundleKnows, Typed, TypeOK, Script,
       Command
  <2>4. DynamicKnows'
    BY <2>1, ResourceFacts, FaultsAssumption DEF DynamicKnows, Typed, TypeOK
  <2>5. Leased'
    BY <2>1, ResourceFacts, FaultsAssumption DEF Leased, BundleKnows, DynamicKnows,
       Undisturbed, Recorded, RunningIsLeased, Typed, TypeOK, Workers
  <2>6. RunningIsLeased'
    BY <2>1, ResourceFacts, FaultsAssumption DEF Leased, BundleKnows, DynamicKnows,
       Undisturbed, Recorded, RunningIsLeased, Typed, TypeOK, Workers
  <2> QED BY <2>2, <2>3, <2>4, <2>5, <2>6
<1>6. CASE JanitorDies
  <2>1. /\ janitor.pc # "idle" /\ janitor' \in Janitors /\ janitor'.pc = "idle"
        /\ faults' \in 0 .. MaxFaults
        /\ UNCHANGED <<docker, up, row, scan, busy, owner, overtaken>>
        /\ UNCHANGED <<bundle, run>>
    BY <1>6, FaultsAssumption DEF JanitorDies, Resting, Fault, NoFault, TypeOK, Typed,
       Janitors
  <2>2. Typed'
    BY <2>1, ResourceFacts, FaultsAssumption DEF Typed, TypeOK, Workers, Leases,
       Janitors, Bundles, Runs, BundlePCs, DynamicPCs, Script
  <2>3. BundleKnows'
    BY <2>1, ResourceFacts, FaultsAssumption DEF BundleKnows, Typed, TypeOK, Script,
       Command
  <2>4. DynamicKnows'
    BY <2>1, ResourceFacts, FaultsAssumption DEF DynamicKnows, Typed, TypeOK
  <2>5. Leased'
    BY <2>1, ResourceFacts, FaultsAssumption DEF Leased, BundleKnows, DynamicKnows,
       Undisturbed, Recorded, RunningIsLeased, Typed, TypeOK, Workers
  <2>6. RunningIsLeased'
    BY <2>1, ResourceFacts, FaultsAssumption DEF Leased, BundleKnows, DynamicKnows,
       Undisturbed, Recorded, RunningIsLeased, Typed, TypeOK, Workers
  <2> QED BY <2>2, <2>3, <2>4, <2>5, <2>6
<1>7. CASE DeleteScan
  <2>1. /\ scan' = "deleted" /\ row' \in Leases
        /\ UNCHANGED <<docker, up, busy, owner, janitor, overtaken, faults>>
        /\ UNCHANGED <<bundle, run>>
    BY <1>7, FaultsAssumption DEF DeleteScan, NoLease, TypeOK, Typed, Leases
  <2>2. Typed'
    BY <2>1, ResourceFacts, FaultsAssumption DEF Typed, TypeOK, Workers, Leases,
       Janitors, Bundles, Runs, BundlePCs, DynamicPCs, Script
  <2>3. BundleKnows'
    BY <2>1, ResourceFacts, FaultsAssumption DEF BundleKnows, Typed, TypeOK, Script,
       Command
  <2>4. DynamicKnows'
    BY <2>1, ResourceFacts, FaultsAssumption DEF DynamicKnows, Typed, TypeOK
  <2>5. Leased'
    BY <2>1, ResourceFacts, FaultsAssumption DEF Leased, BundleKnows, DynamicKnows,
       Undisturbed, Recorded, RunningIsLeased, Typed, TypeOK, Workers
  <2>6. RunningIsLeased'
    BY <2>1, ResourceFacts, FaultsAssumption DEF Leased, BundleKnows, DynamicKnows,
       Undisturbed, Recorded, RunningIsLeased, Typed, TypeOK, Workers
  <2> QED BY <2>2, <2>3, <2>4, <2>5, <2>6
<1>8. CASE OwnerDies
  <2>1. /\ owner.pc \notin {"idle", "gone", "dead"}
        /\ owner' \in Workers
        /\ owner'.kind = owner.kind /\ owner'.pc = "dead" /\ owner'.known = owner.known
        /\ owner'.todo = owner.todo /\ owner'.failed = owner.failed /\ owner'.verdict = owner.verdict
        /\ UNCHANGED <<docker, up, row, scan, busy, janitor, overtaken, faults>>
        /\ UNCHANGED <<bundle, run>>
    BY <1>8, FaultsAssumption DEF OwnerDies, Goes, TypeOK, Typed, Workers, BundlePCs,
       DynamicPCs
  <2>2. Typed'
    BY <2>1, ResourceFacts, FaultsAssumption DEF Typed, TypeOK, Workers, Leases,
       Janitors, Bundles, Runs, BundlePCs, DynamicPCs, Script
  <2>3. BundleKnows'
    BY <2>1, ResourceFacts, FaultsAssumption DEF BundleKnows, Typed, TypeOK, Script,
       Command
  <2>4. DynamicKnows'
    BY <2>1, ResourceFacts, FaultsAssumption DEF DynamicKnows, Typed, TypeOK
  <2>5. Leased'
    BY <2>1, ResourceFacts, FaultsAssumption DEF Leased, BundleKnows, DynamicKnows,
       Undisturbed, Recorded, RunningIsLeased, Typed, TypeOK, Workers
  <2>6. RunningIsLeased'
    BY <2>1, ResourceFacts, FaultsAssumption DEF Leased, BundleKnows, DynamicKnows,
       Undisturbed, Recorded, RunningIsLeased, Typed, TypeOK, Workers
  <2> QED BY <2>2, <2>3, <2>4, <2>5, <2>6
<1> QED BY <1>1, <1>2, <1>3, <1>4, <1>5, <1>6, <1>7, <1>8 DEF Environment, Janitor

\* The steps of a bundle
LEMMA BundleStep ==
  ASSUME LeasedInv, BundleNext, UNCHANGED run
  PROVE  LeasedInv'
<1> USE DEF LeasedInv
<1>1. CASE Acquire
  <2>1. /\ owner.kind = "bundle" /\ owner.pc = "idle"
        /\ owner' \in Workers
        /\ owner'.kind = owner.kind /\ owner'.pc = "command" /\ owner'.known = owner.known
        /\ owner'.todo = owner.todo /\ owner'.failed = owner.failed /\ owner'.verdict = owner.verdict
        /\ row' \in Leases
        /\ row'.state = "active" /\ row'.receipt = {} /\ row'.expired = FALSE
        /\ UNCHANGED <<docker, up, scan, busy, janitor, overtaken, faults, bundle>>
        /\ UNCHANGED run
    BY <1>1, FaultsAssumption DEF Acquire, At, Acquired, Goes, TypeOK, Typed, Workers,
       BundlePCs, DynamicPCs, Leases
  <2>2. Typed'
    BY <2>1, ResourceFacts, FaultsAssumption DEF Typed, TypeOK, Workers, Leases,
       Janitors, Bundles, Runs, BundlePCs, DynamicPCs, Script
  <2>3. BundleKnows'
    BY <2>1, ResourceFacts, FaultsAssumption DEF BundleKnows, Typed, TypeOK, Script,
       Command
  <2>4. DynamicKnows'
    BY <2>1, ResourceFacts, FaultsAssumption DEF DynamicKnows, Typed, TypeOK
  <2>5. Leased'
    BY <2>1, ResourceFacts, FaultsAssumption DEF Leased, BundleKnows, DynamicKnows,
       Undisturbed, Recorded, RunningIsLeased, Typed, TypeOK, Workers
  <2>6. RunningIsLeased'
    BY <2>1, ResourceFacts, FaultsAssumption DEF Leased, BundleKnows, DynamicKnows,
       Undisturbed, Recorded, RunningIsLeased, Typed, TypeOK, Workers
  <2> QED BY <2>2, <2>3, <2>4, <2>5, <2>6
<1>2. CASE AcquireFails
  <2>1. /\ owner.kind = "bundle" /\ owner.pc = "idle"
        /\ owner' \in Workers
        /\ owner'.kind = owner.kind /\ owner'.pc = "gone" /\ owner'.known = owner.known
        /\ owner'.todo = owner.todo /\ owner'.failed = owner.failed /\ owner'.verdict = "error"
        /\ \/ /\ row' = row
           \/ /\ row' \in Leases
              /\ row'.state = "active" /\ row'.receipt = {} /\ row'.expired = FALSE
        /\ faults' \in 0 .. MaxFaults
        /\ UNCHANGED <<docker, up, scan, busy, janitor, overtaken, bundle>>
        /\ UNCHANGED run
    <3>1. /\ owner.kind = "bundle" /\ owner.pc = "idle"
      BY <1>2 DEF AcquireFails, At
    <3>2. /\ owner' \in Workers
          /\ owner'.kind = owner.kind /\ owner'.pc = "gone" /\ owner'.known = owner.known
          /\ owner'.todo = owner.todo /\ owner'.failed = owner.failed /\ owner'.verdict = "error"
      BY <1>2, ResourceFacts DEF AcquireFails, At, Ends, Workers, BundlePCs,
         DynamicPCs, Typed, ScriptCommands
    <3>3. /\ \/ /\ row' = row
             \/ /\ row' \in Leases
                /\ row'.state = "active" /\ row'.receipt = {} /\ row'.expired = FALSE
      <4>1. row' = row \/ row' = Acquired({})
        BY <1>2 DEF AcquireFails
      <4>2. {} \in SUBSET Resources
        BY ResourceFacts DEF Typed, Workers
      <4> QED BY <4>1, <4>2, AcquiredFacts
    <3>4. /\ faults' \in 0 .. MaxFaults
      BY <1>2, FaultsAssumption DEF AcquireFails, At, Fault, NoFault, Typed, TypeOK
    <3>5. /\ UNCHANGED <<docker, up, scan, busy, janitor, overtaken, bundle>>
      BY <1>2 DEF AcquireFails, At
    <3>6. /\ UNCHANGED run
      BY <1>2 DEF AcquireFails, At
    <3> QED BY <3>1, <3>2, <3>3, <3>4, <3>5, <3>6
  <2>2. Typed'
    BY <2>1, ResourceFacts, FaultsAssumption DEF Typed, TypeOK, Workers, Leases,
       Janitors, Bundles, Runs, BundlePCs, DynamicPCs, Script
  <2>3. BundleKnows'
    BY <2>1, ResourceFacts, FaultsAssumption DEF BundleKnows, Typed, TypeOK, Script,
       Command
  <2>4. DynamicKnows'
    BY <2>1, ResourceFacts, FaultsAssumption DEF DynamicKnows, Typed, TypeOK
  <2>5. Leased'
    BY <2>1, ResourceFacts, FaultsAssumption DEF Leased, BundleKnows, DynamicKnows,
       Undisturbed, Recorded, RunningIsLeased, Typed, TypeOK, Workers
  <2>6. RunningIsLeased'
    BY <2>1, ResourceFacts, FaultsAssumption DEF Leased, BundleKnows, DynamicKnows,
       Undisturbed, Recorded, RunningIsLeased, Typed, TypeOK, Workers
  <2> QED BY <2>2, <2>3, <2>4, <2>5, <2>6
<1>3. CASE RunCommand
  <2>1. /\ owner.kind = "bundle" /\ owner.pc = "command"
        /\ bundle.pos <= Len(Script) /\ Command \in ScriptCommands
        /\ \/ /\ Command.op = "create" /\ up' = up
              /\ docker' = docker \cup {Command.child} \cup Mounts(Command.child)
           \/ /\ Command.op # "create" /\ docker' = docker
              /\ up' \subseteq up \cup ({Command.child} \cap docker \cap Containers)
        /\ \/ /\ Command.op = "create" /\ bundle' = bundle
              /\ owner' \in Workers
              /\ owner'.kind = owner.kind /\ owner'.pc = "remember" /\ owner'.known = owner.known
              /\ owner'.todo = owner.todo /\ owner'.failed = owner.failed /\ owner'.verdict = owner.verdict
           \/ /\ Command.op # "create" /\ owner' = owner
              /\ bundle' \in Bundles
              /\ bundle'.database = bundle.database /\ bundle'.pos = bundle.pos + 1 /\ bundle'.stopping = bundle.stopping
        /\ UNCHANGED <<row, scan, busy, janitor, overtaken, faults>>
        /\ UNCHANGED run
    <3>1. /\ owner.kind = "bundle" /\ owner.pc = "command"
      BY <1>3 DEF RunCommand, At
    <3>2. /\ bundle.pos <= Len(Script) /\ Command \in ScriptCommands
      BY <1>3, CommandFacts, ResourceFacts DEF RunCommand, At, ScriptCommands
    <3>3. /\ \/ /\ Command.op = "create" /\ up' = up
                /\ docker' = docker \cup {Command.child} \cup Mounts(Command.child)
             \/ /\ Command.op # "create" /\ docker' = docker
                /\ up' \subseteq up \cup ({Command.child} \cap docker \cap Containers)
      BY ZenonT(60), <1>3, CommandFacts, ResourceFacts DEF RunCommand, At,
          Effect, Possible,
         Startable, Typed, TypeOK, ScriptCommands
    <3>4. /\ \/ /\ Command.op = "create" /\ bundle' = bundle
                /\ owner' \in Workers
                /\ owner'.kind = owner.kind /\ owner'.pc = "remember" /\ owner'.known = owner.known
                /\ owner'.todo = owner.todo /\ owner'.failed = owner.failed /\ owner'.verdict = owner.verdict
             \/ /\ Command.op # "create" /\ owner' = owner
                /\ bundle' \in Bundles
                /\ bundle'.database = bundle.database /\ bundle'.pos = bundle.pos + 1 /\ bundle'.stopping = bundle.stopping
      BY <1>3, CommandFacts, ResourceFacts DEF RunCommand, At, Goes, Step, Workers,
         BundlePCs, DynamicPCs, Bundles, Typed, ScriptCommands
    <3>5. /\ UNCHANGED <<row, scan, busy, janitor, overtaken, faults>>
      BY <1>3 DEF RunCommand, At
    <3>6. /\ UNCHANGED run
      BY <1>3 DEF RunCommand, At
    <3> QED BY <3>1, <3>2, <3>3, <3>4, <3>5, <3>6
  <2>2. Typed'
    <3>1. Len(Script) \in Nat /\ Command.child \in Resources
      BY <2>1, CommandFacts, ResourceFacts DEF ScriptCommands, Children
    <3>2. docker' \subseteq Resources
      <4>1. Mounts(Command.child) \subseteq Resources
        BY <2>1, ResourceFacts DEF ScriptCommands, Children
      <4> QED BY <2>1, <3>1, <4>1 DEF Typed, TypeOK
    <3>3. up' \subseteq docker' \cap Containers
      BY <2>1 DEF Typed, TypeOK
    <3>4. bundle' \in Bundles /\ bundle'.pos \in 1 .. Len(Script') + 1
      BY <2>1, <3>1 DEF Typed, TypeOK, Bundles, Script
    <3>5. run'.status \in Terminal \cup {"none", "running"} /\ run'.outcome \in Outcomes
      BY <2>1 DEF Typed, TypeOK
    <3>6. /\ owner' \in Workers /\ owner'.todo \subseteq owner'.known /\ owner'.known \subseteq Resources
          /\ owner'.kind = "bundle" /\ owner'.pc \in BundlePCs /\ owner'.verdict = "none"
          /\ owner'.pc \notin {"gone", "finally", "finalize"}
      BY <2>1 DEF Typed, TypeOK, Workers, BundlePCs
    <3> QED BY <2>1, <3>2, <3>3, <3>4, <3>5, <3>6 DEF Typed, TypeOK
  <2>3. BundleKnows'
    BY SMTT(40), <2>1, ResourceFacts, FaultsAssumption,
        CommandFacts DEF BundleKnows, Typed,
       TypeOK, Script, Command, ScriptCommands, FirstCommand
  <2>4. DynamicKnows'
    BY <2>1, ResourceFacts, FaultsAssumption DEF DynamicKnows, Typed, TypeOK,
       ScriptCommands, FirstCommand
  <2>5. Leased'
    BY <2>1, ResourceFacts, FaultsAssumption DEF Leased, BundleKnows, DynamicKnows,
       Undisturbed, Recorded, RunningIsLeased, Typed, TypeOK, Workers, ScriptCommands,
       FirstCommand
  <2>6. RunningIsLeased'
    BY <2>1, ResourceFacts, FaultsAssumption DEF Leased, BundleKnows, DynamicKnows,
       Undisturbed, Recorded, RunningIsLeased, Typed, TypeOK, Workers, ScriptCommands,
       FirstCommand
  <2> QED BY <2>2, <2>3, <2>4, <2>5, <2>6
<1>4. CASE CommandFails
  <2>1. /\ owner.kind = "bundle" /\ owner.pc = "command"
        /\ bundle.pos <= Len(Script) /\ Command \in ScriptCommands
        /\ \/ /\ docker' = docker /\ up' = up
           \/ /\ up' = up /\ docker' = docker \cup {Command.child} \cup Mounts(Command.child)
           \/ /\ docker' = docker
              /\ up' \subseteq up \cup ({Command.child} \cap docker \cap Containers)
        /\ owner' \in Workers
        /\ owner'.kind = owner.kind /\ owner'.pc = "clean" /\ owner'.known = owner.known
        /\ owner'.todo = owner.known /\ owner'.failed = FALSE /\ owner'.verdict = owner.verdict
        /\ faults' \in 0 .. MaxFaults
        /\ UNCHANGED <<row, scan, busy, janitor, overtaken, bundle>>
        /\ UNCHANGED run
    <3>1. /\ owner.kind = "bundle" /\ owner.pc = "command"
      BY <1>4 DEF CommandFails, At
    <3>2. /\ bundle.pos <= Len(Script) /\ Command \in ScriptCommands
      BY <1>4, CommandFacts, ResourceFacts DEF CommandFails, At, ScriptCommands
    <3>3. /\ \/ /\ docker' = docker /\ up' = up
             \/ /\ up' = up /\ docker' = docker \cup {Command.child} \cup Mounts(Command.child)
             \/ /\ docker' = docker
                /\ up' \subseteq up \cup ({Command.child} \cap docker \cap Containers)
      BY <1>4, CommandFacts, ResourceFacts DEF CommandFails, At, Effect, Possible,
         Startable, Typed, TypeOK, ScriptCommands
    <3>4. /\ owner' \in Workers
          /\ owner'.kind = owner.kind /\ owner'.pc = "clean" /\ owner'.known = owner.known
          /\ owner'.todo = owner.known /\ owner'.failed = FALSE /\ owner'.verdict = owner.verdict
      BY <1>4, ResourceFacts DEF CommandFails, At, Clean, Workers, BundlePCs,
         DynamicPCs, Typed, ScriptCommands
    <3>5. /\ faults' \in 0 .. MaxFaults
      BY <1>4, FaultsAssumption DEF CommandFails, At, Fault, NoFault, Typed, TypeOK
    <3>6. /\ UNCHANGED <<row, scan, busy, janitor, overtaken, bundle>>
      BY <1>4 DEF CommandFails, At
    <3>7. /\ UNCHANGED run
      BY <1>4 DEF CommandFails, At
    <3> QED BY <3>1, <3>2, <3>3, <3>4, <3>5, <3>6, <3>7
  <2>2. Typed'
    <3>1. Len(Script) \in Nat /\ Command.child \in Resources
      BY <2>1, CommandFacts, ResourceFacts DEF ScriptCommands, Children
    <3>2. docker' \subseteq Resources
      <4>1. Mounts(Command.child) \subseteq Resources
        BY <2>1, ResourceFacts DEF ScriptCommands, Children
      <4> QED BY <2>1, <3>1, <4>1 DEF Typed, TypeOK
    <3>3. up' \subseteq docker' \cap Containers
      BY <2>1 DEF Typed, TypeOK
    <3>4. bundle' \in Bundles /\ bundle'.pos \in 1 .. Len(Script') + 1
      BY <2>1, <3>1 DEF Typed, TypeOK, Bundles, Script
    <3>5. run'.status \in Terminal \cup {"none", "running"} /\ run'.outcome \in Outcomes
      BY <2>1 DEF Typed, TypeOK
    <3>6. /\ owner' \in Workers /\ owner'.todo \subseteq owner'.known /\ owner'.known \subseteq Resources
          /\ owner'.kind = "bundle" /\ owner'.pc \in BundlePCs /\ owner'.verdict = "none"
          /\ owner'.pc \notin {"gone", "finally", "finalize"}
      BY <2>1 DEF Typed, TypeOK, Workers, BundlePCs
    <3> QED BY <2>1, <3>2, <3>3, <3>4, <3>5, <3>6 DEF Typed, TypeOK
  <2>3. BundleKnows'
    BY <2>1, ResourceFacts, FaultsAssumption, CommandFacts DEF BundleKnows, Typed,
       TypeOK, Script, Command, ScriptCommands, FirstCommand
  <2>4. DynamicKnows'
    BY <2>1, ResourceFacts, FaultsAssumption DEF DynamicKnows, Typed, TypeOK,
       ScriptCommands, FirstCommand
  <2>5. Leased'
    BY <2>1, ResourceFacts, FaultsAssumption DEF Leased, BundleKnows, DynamicKnows,
       Undisturbed, Recorded, RunningIsLeased, Typed, TypeOK, Workers, ScriptCommands,
       FirstCommand
  <2>6. RunningIsLeased'
    BY <2>1, ResourceFacts, FaultsAssumption DEF Leased, BundleKnows, DynamicKnows,
       Undisturbed, Recorded, RunningIsLeased, Typed, TypeOK, Workers, ScriptCommands,
       FirstCommand
  <2> QED BY <2>2, <2>3, <2>4, <2>5, <2>6
<1>5. CASE Remember
  <2>1. /\ owner.kind = "bundle" /\ owner.pc = "remember"
        /\ bundle.pos <= Len(Script) /\ Command \in ScriptCommands
        /\ row.state = "active"
        /\ owner' \in Workers
        /\ owner'.kind = owner.kind
        /\ owner'.pc = "command"
        /\ owner'.known = (owner.known \cup {Command.child})
        /\ owner'.todo = owner.todo
        /\ owner'.failed = owner.failed
        /\ owner'.verdict = owner.verdict
        /\ row' \in Leases
        /\ row'.state = row.state
        /\ row'.receipt = (owner.known \cup {Command.child})
        /\ row'.expired = row.expired
        /\ bundle' \in Bundles
        /\ bundle'.database = bundle.database /\ bundle'.pos = bundle.pos + 1 /\ bundle'.stopping = bundle.stopping
        /\ UNCHANGED <<docker, up, scan, busy, janitor, overtaken, faults>>
        /\ UNCHANGED run
    <3>1. /\ owner.kind = "bundle" /\ owner.pc = "remember"
      BY <1>5 DEF Remember, At, BundleKnows
    <3>2. /\ bundle.pos <= Len(Script) /\ Command \in ScriptCommands
      BY <1>5, CommandFacts, ResourceFacts DEF Remember, At, ScriptCommands, BundleKnows
    <3>3. /\ row.state = "active"
      BY <1>5 DEF Remember, At, BundleKnows
    <3>4. /\ owner' \in Workers
          /\ owner'.kind = owner.kind
          /\ owner'.pc = "command"
          /\ owner'.known = (owner.known \cup {Command.child})
          /\ owner'.todo = owner.todo
          /\ owner'.failed = owner.failed
          /\ owner'.verdict = owner.verdict
      <4>1. Command.child \in Resources
        BY <1>5, CommandFacts, ResourceFacts DEF Remember, At, BundleKnows,
           ScriptCommands, Children
      <4> DEFINE k == owner.known \cup {Command.child}
      <4>2. k \in SUBSET Resources
        BY <4>1 DEF Typed, Workers
      <4>3. owner' = [owner EXCEPT !.pc = "command", !.known = k]
        BY <1>5 DEF Remember
      <4> HIDE DEF k
      <4>4. /\ owner' \in Workers
            /\ owner'.kind = owner.kind /\ owner'.pc = "command" /\ owner'.known = k
            /\ owner'.todo = owner.todo /\ owner'.failed = owner.failed /\ owner'.verdict = owner.verdict
        BY <4>2, <4>3 DEF Typed, Workers, BundlePCs, DynamicPCs
      <4> QED BY <4>4 DEF k
    <3>5. /\ row' \in Leases
          /\ row'.state = row.state
          /\ row'.receipt = (owner.known \cup {Command.child})
          /\ row'.expired = row.expired
      <4>1. Command.child \in Resources
        BY <1>5, CommandFacts, ResourceFacts DEF Remember, At, BundleKnows,
           ScriptCommands, Children
      <4> DEFINE k == owner.known \cup {Command.child}
      <4>2. k \in SUBSET Resources
        BY <4>1 DEF Typed, Workers
      <4>3. row' = [row EXCEPT !.receipt = k]
        BY <1>5 DEF Remember
      <4> HIDE DEF k
      <4>4. /\ row' \in Leases
            /\ row'.state = row.state /\ row'.receipt = k /\ row'.expired = row.expired
        BY <4>2, <4>3 DEF Typed, Leases
      <4> QED BY <4>4 DEF k
    <3>6. /\ bundle' \in Bundles
          /\ bundle'.database = bundle.database /\ bundle'.pos = bundle.pos + 1 /\ bundle'.stopping = bundle.stopping
      BY <1>5 DEF Remember, At, Step, Bundles, Typed, BundleKnows
    <3>7. /\ UNCHANGED <<docker, up, scan, busy, janitor, overtaken, faults>>
      BY <1>5 DEF Remember, At, BundleKnows
    <3>8. /\ UNCHANGED run
      BY <1>5 DEF Remember, At, BundleKnows
    <3> QED BY <3>1, <3>2, <3>3, <3>4, <3>5, <3>6, <3>7, <3>8
  <2>2. Typed'
    BY <2>1, ResourceFacts, FaultsAssumption DEF Typed, TypeOK, Workers, Leases,
       Janitors, Bundles, Runs, BundlePCs, DynamicPCs, Script, ScriptCommands,
       FirstCommand
  <2>3. BundleKnows'
    BY <2>1, ResourceFacts, FaultsAssumption, CommandFacts DEF BundleKnows, Typed,
       TypeOK, Script, Command, ScriptCommands, FirstCommand
  <2>4. DynamicKnows'
    BY <2>1, ResourceFacts, FaultsAssumption DEF DynamicKnows, Typed, TypeOK,
       ScriptCommands, FirstCommand
  <2>5. Leased'
    BY <2>1, ResourceFacts, FaultsAssumption DEF Leased, BundleKnows, DynamicKnows,
       Undisturbed, Recorded, RunningIsLeased, Typed, TypeOK, Workers, ScriptCommands,
       FirstCommand
  <2>6. RunningIsLeased'
    BY <2>1, ResourceFacts, FaultsAssumption DEF Leased, BundleKnows, DynamicKnows,
       Undisturbed, Recorded, RunningIsLeased, Typed, TypeOK, Workers, ScriptCommands,
       FirstCommand
  <2> QED BY <2>2, <2>3, <2>4, <2>5, <2>6
<1>6. CASE RememberFails
  <2>1. /\ owner.kind = "bundle" /\ owner.pc = "remember"
        /\ bundle.pos <= Len(Script) /\ Command \in ScriptCommands
        /\ owner' \in Workers
        /\ owner'.kind = owner.kind
        /\ owner'.pc = "clean"
        /\ owner'.known = (owner.known \cup {Command.child})
        /\ owner'.todo = (owner.known \cup {Command.child})
        /\ owner'.failed = FALSE
        /\ owner'.verdict = owner.verdict
        /\ row' \in Leases
        /\ row'.state = row.state /\ row'.expired = row.expired
        /\ row'.receipt \in {row.receipt, owner.known \cup {Command.child}}
        /\ faults' \in 0 .. MaxFaults
        /\ UNCHANGED <<docker, up, scan, busy, janitor, overtaken, bundle>>
        /\ UNCHANGED run
    <3>1. /\ owner.kind = "bundle" /\ owner.pc = "remember"
      BY <1>6 DEF RememberFails, At, BundleKnows
    <3>2. /\ bundle.pos <= Len(Script) /\ Command \in ScriptCommands
      BY <1>6, CommandFacts, ResourceFacts DEF RememberFails, At, ScriptCommands,
         BundleKnows
    <3>3. /\ owner' \in Workers
          /\ owner'.kind = owner.kind
          /\ owner'.pc = "clean"
          /\ owner'.known = (owner.known \cup {Command.child})
          /\ owner'.todo = (owner.known \cup {Command.child})
          /\ owner'.failed = FALSE
          /\ owner'.verdict = owner.verdict
      <4>1. Command.child \in Resources
        BY <1>6, CommandFacts, ResourceFacts DEF RememberFails, At, BundleKnows,
           ScriptCommands, Children
      <4> DEFINE k == owner.known \cup {Command.child}
      <4>2. k \in SUBSET Resources
        BY <4>1 DEF Typed, Workers
      <4>3. owner' = [owner EXCEPT !.pc = "clean", !.known = k, !.todo = k, !.failed = FALSE]
        BY <1>6 DEF RememberFails, Clean
      <4> HIDE DEF k
      <4>4. /\ owner' \in Workers
            /\ owner'.kind = owner.kind /\ owner'.pc = "clean" /\ owner'.known = k
            /\ owner'.todo = k /\ owner'.failed = FALSE /\ owner'.verdict = owner.verdict
        BY <4>2, <4>3 DEF Typed, Workers, BundlePCs, DynamicPCs
      <4> QED BY <4>4 DEF k
    <3>4. /\ faults' \in 0 .. MaxFaults
      BY <1>6, FaultsAssumption DEF RememberFails, At, Fault, NoFault, Typed, TypeOK,
         BundleKnows
    <3>5. /\ UNCHANGED <<docker, up, scan, busy, janitor, overtaken, bundle>>
      BY <1>6 DEF RememberFails, At, BundleKnows
    <3>6. /\ UNCHANGED run
      BY <1>6 DEF RememberFails, At, BundleKnows
    <3>7. /\ row' \in Leases
          /\ row'.state = row.state /\ row'.expired = row.expired
          /\ row'.receipt \in {row.receipt, owner.known \cup {Command.child}}
      <4>1. Command.child \in Resources
        BY <1>6, CommandFacts, ResourceFacts DEF RememberFails, At, BundleKnows,
           ScriptCommands, Children
      <4> DEFINE k == owner.known \cup {Command.child}
      <4>2. k \in SUBSET Resources
        BY <4>1 DEF Typed, Workers
      <4>3. row' \in {row, [row EXCEPT !.receipt = k]}
        BY <1>6 DEF RememberFails
      <4> HIDE DEF k
      <4>4. /\ row' \in Leases
            /\ row'.state = row.state /\ row'.expired = row.expired
            /\ row'.receipt \in {row.receipt, k}
        BY <4>2, <4>3 DEF Typed, Leases
      <4> QED BY <4>4 DEF k
    <3> QED BY <3>1, <3>2, <3>3, <3>4, <3>5, <3>6, <3>7
  <2>2. Typed'
    BY <2>1, ResourceFacts, FaultsAssumption DEF Typed, TypeOK, Workers, Leases,
       Janitors, Bundles, Runs, BundlePCs, DynamicPCs, Script, ScriptCommands,
       FirstCommand
  <2>3. BundleKnows'
    BY <2>1, ResourceFacts, FaultsAssumption, CommandFacts DEF BundleKnows, Typed,
       TypeOK, Script, Command, ScriptCommands, FirstCommand
  <2>4. DynamicKnows'
    BY <2>1, ResourceFacts, FaultsAssumption DEF DynamicKnows, Typed, TypeOK,
       ScriptCommands, FirstCommand
  <2>5. Leased'
    BY <2>1, ResourceFacts, FaultsAssumption DEF Leased, BundleKnows, DynamicKnows,
       Undisturbed, Recorded, RunningIsLeased, Typed, TypeOK, Workers, ScriptCommands,
       FirstCommand
  <2>6. RunningIsLeased'
    BY <2>1, ResourceFacts, FaultsAssumption DEF Leased, BundleKnows, DynamicKnows,
       Undisturbed, Recorded, RunningIsLeased, Typed, TypeOK, Workers, ScriptCommands,
       FirstCommand
  <2> QED BY <2>2, <2>3, <2>4, <2>5, <2>6
<1>7. CASE Prepared
  <2>1. /\ owner.kind = "bundle" /\ owner.pc = "command"
        /\ owner' \in Workers
        /\ owner'.kind = owner.kind /\ owner'.pc = "ready" /\ owner'.known = owner.known
        /\ owner'.todo = owner.todo /\ owner'.failed = owner.failed /\ owner'.verdict = owner.verdict
        /\ UNCHANGED <<docker, up, row, scan, busy, janitor, overtaken, faults, bundle>>
        /\ UNCHANGED run
    BY <1>7, FaultsAssumption DEF Prepared, At, Goes, TypeOK, Typed, Workers,
       BundlePCs, DynamicPCs
  <2>2. Typed'
    BY <2>1, ResourceFacts, FaultsAssumption DEF Typed, TypeOK, Workers, Leases,
       Janitors, Bundles, Runs, BundlePCs, DynamicPCs, Script
  <2>3. BundleKnows'
    BY <2>1, ResourceFacts, FaultsAssumption DEF BundleKnows, Typed, TypeOK, Script,
       Command
  <2>4. DynamicKnows'
    BY <2>1, ResourceFacts, FaultsAssumption DEF DynamicKnows, Typed, TypeOK
  <2>5. Leased'
    BY <2>1, ResourceFacts, FaultsAssumption DEF Leased, BundleKnows, DynamicKnows,
       Undisturbed, Recorded, RunningIsLeased, Typed, TypeOK, Workers
  <2>6. RunningIsLeased'
    BY <2>1, ResourceFacts, FaultsAssumption DEF Leased, BundleKnows, DynamicKnows,
       Undisturbed, Recorded, RunningIsLeased, Typed, TypeOK, Workers
  <2> QED BY <2>2, <2>3, <2>4, <2>5, <2>6
<1>8. CASE ToolRun
  <2>1. /\ owner.kind = "bundle" /\ owner.pc = "ready"
        /\ busy' \in BOOLEAN
        /\ UNCHANGED <<docker, up, row, scan, owner, janitor, overtaken, faults, bundle>>
        /\ UNCHANGED run
    BY <1>8, FaultsAssumption DEF ToolRun, At, TypeOK, Typed
  <2>2. Typed'
    BY <2>1, ResourceFacts, FaultsAssumption DEF Typed, TypeOK, Workers, Leases,
       Janitors, Bundles, Runs, BundlePCs, DynamicPCs, Script
  <2>3. BundleKnows'
    BY <2>1, ResourceFacts, FaultsAssumption DEF BundleKnows, Typed, TypeOK, Script,
       Command
  <2>4. DynamicKnows'
    BY <2>1, ResourceFacts, FaultsAssumption DEF DynamicKnows, Typed, TypeOK
  <2>5. Leased'
    BY <2>1, ResourceFacts, FaultsAssumption DEF Leased, BundleKnows, DynamicKnows,
       Undisturbed, Recorded, RunningIsLeased, Typed, TypeOK, Workers
  <2>6. RunningIsLeased'
    BY <2>1, ResourceFacts, FaultsAssumption DEF Leased, BundleKnows, DynamicKnows,
       Undisturbed, Recorded, RunningIsLeased, Typed, TypeOK, Workers
  <2> QED BY <2>2, <2>3, <2>4, <2>5, <2>6
<1>9. CASE Stop
  <2>1. /\ owner.kind = "bundle" /\ owner.pc = "ready"
        /\ owner' \in Workers
        /\ owner'.kind = owner.kind /\ owner'.pc = "clean" /\ owner'.known = owner.known
        /\ owner'.todo = owner.known /\ owner'.failed = FALSE /\ owner'.verdict = owner.verdict
        /\ bundle' \in Bundles
        /\ bundle'.database = bundle.database /\ bundle'.pos = bundle.pos /\ bundle'.stopping = TRUE
        /\ UNCHANGED <<docker, up, row, scan, busy, janitor, overtaken, faults>>
        /\ UNCHANGED run
    BY <1>9, FaultsAssumption DEF Stop, At, Clean, TypeOK, Typed, Workers, BundlePCs,
       DynamicPCs, Bundles
  <2>2. Typed'
    BY <2>1, ResourceFacts, FaultsAssumption DEF Typed, TypeOK, Workers, Leases,
       Janitors, Bundles, Runs, BundlePCs, DynamicPCs, Script
  <2>3. BundleKnows'
    BY <2>1, ResourceFacts, FaultsAssumption DEF BundleKnows, Typed, TypeOK, Script,
       Command
  <2>4. DynamicKnows'
    BY <2>1, ResourceFacts, FaultsAssumption DEF DynamicKnows, Typed, TypeOK
  <2>5. Leased'
    BY <2>1, ResourceFacts, FaultsAssumption DEF Leased, BundleKnows, DynamicKnows,
       Undisturbed, Recorded, RunningIsLeased, Typed, TypeOK, Workers
  <2>6. RunningIsLeased'
    BY <2>1, ResourceFacts, FaultsAssumption DEF Leased, BundleKnows, DynamicKnows,
       Undisturbed, Recorded, RunningIsLeased, Typed, TypeOK, Workers
  <2> QED BY <2>2, <2>3, <2>4, <2>5, <2>6
<1>10. CASE CleanupChild
  <2>1. /\ owner.kind = "bundle" /\ owner.pc = "clean"
        /\ owner' \in Workers /\ owner'.kind = "bundle" /\ owner'.pc = "clean"
        /\ owner'.known = owner.known /\ owner'.verdict = owner.verdict
        /\ \E c : /\ owner'.todo = owner.todo \ {c}
                  /\ docker' \in {docker, docker \ {c}} /\ up' \in {up, up \ {c}}
                  /\ docker' = docker => up' = up
                  /\ up' \subseteq docker'
                  /\ \/ owner'.failed
                     \/ /\ owner'.failed = owner.failed
                        /\ docker' = docker \ {c} /\ up' = up \ {c}
        /\ faults' \in 0 .. MaxFaults
        /\ UNCHANGED <<row, scan, busy, janitor, overtaken, bundle>>
        /\ UNCHANGED run
    <3>1. /\ owner.kind = "bundle" /\ owner.pc = "clean"
      BY <1>10 DEF CleanupChild, At
    <3>2. /\ owner' \in Workers /\ owner'.kind = "bundle" /\ owner'.pc = "clean"
          /\ owner'.known = owner.known /\ owner'.verdict = owner.verdict
      BY ZenonT(60), <1>10, ResourceFacts DEF CleanupChild, At, Workers,
          BundlePCs, DynamicPCs,
         Typed, ScriptCommands
    <3>3. /\ \E c : /\ owner'.todo = owner.todo \ {c}
                    /\ docker' \in {docker, docker \ {c}} /\ up' \in {up, up \ {c}}
                    /\ docker' = docker => up' = up
                    /\ up' \subseteq docker'
                    /\ \/ owner'.failed
                       \/ /\ owner'.failed = owner.failed
                          /\ docker' = docker \ {c} /\ up' = up \ {c}
      BY ZenonT(60), <1>10 DEF CleanupChild, At, RemoveSucceeds, RemoveFails,
          Remove, Workers,
         BundlePCs, DynamicPCs, Typed, TypeOK
    <3>4. /\ faults' \in 0 .. MaxFaults
      BY <1>10, FaultsAssumption DEF CleanupChild, At, RemoveSucceeds, RemoveFails,
         Fault, NoFault, Typed, TypeOK
    <3>5. /\ UNCHANGED <<row, scan, busy, janitor, overtaken, bundle>>
      BY <1>10 DEF CleanupChild, At
    <3>6. /\ UNCHANGED run
      BY <1>10 DEF CleanupChild, At
    <3> QED BY <3>1, <3>2, <3>3, <3>4, <3>5, <3>6
  <2>2. Typed'
    BY <2>1, ResourceFacts, FaultsAssumption DEF Typed, TypeOK, Workers, Leases,
       Janitors, Bundles, Runs, BundlePCs, DynamicPCs, Script
  <2>3. BundleKnows'
    BY <2>1, ResourceFacts, FaultsAssumption DEF BundleKnows, Typed, TypeOK, Script,
       Command
  <2>4. DynamicKnows'
    BY <2>1, ResourceFacts, FaultsAssumption DEF DynamicKnows, Typed, TypeOK
  <2>5. Leased'
    BY <2>1, ResourceFacts, FaultsAssumption DEF Leased, BundleKnows, DynamicKnows,
       Undisturbed, Recorded, RunningIsLeased, Typed, TypeOK, Workers
  <2>6. RunningIsLeased'
    BY <2>1, ResourceFacts, FaultsAssumption DEF Leased, BundleKnows, DynamicKnows,
       Undisturbed, Recorded, RunningIsLeased, Typed, TypeOK, Workers
  <2> QED BY <2>2, <2>3, <2>4, <2>5, <2>6
<1>11. CASE CleanupRelease
  <2>1. /\ owner.kind = "bundle" /\ owner.pc = "clean"
        /\ owner.todo = {} /\ ~owner.failed
        /\ \/ /\ owner' \in Workers
              /\ owner'.kind = owner.kind
              /\ owner'.pc = "gone"
              /\ owner'.known = owner.known
              /\ owner'.todo = owner.todo
              /\ owner'.failed = owner.failed
              /\ owner'.verdict = (IF bundle.stopping THEN "ok" ELSE "error")
           \/ /\ owner' \in Workers
              /\ owner'.kind = owner.kind /\ owner'.pc = owner.pc /\ owner'.known = owner.known
              /\ owner'.todo = owner.todo /\ owner'.failed = TRUE /\ owner'.verdict = owner.verdict
        /\ \/ /\ row' = row
           \/ /\ row' \in Leases
              /\ row'.state = (IF row.state = "none" THEN "none" ELSE "released")
              /\ row'.receipt = (IF row.state = "none" THEN row.receipt ELSE owner.known)
              /\ row'.expired = row.expired
        /\ faults' \in 0 .. MaxFaults
        /\ UNCHANGED <<docker, up, scan, busy, janitor, overtaken, bundle>>
        /\ UNCHANGED run
    <3>1. /\ owner.kind = "bundle" /\ owner.pc = "clean"
      BY <1>11 DEF CleanupRelease, At
    <3>2. /\ owner.todo = {} /\ ~owner.failed
      BY <1>11 DEF CleanupRelease, At
    <3>3. /\ \/ /\ owner' \in Workers
                /\ owner'.kind = owner.kind
                /\ owner'.pc = "gone"
                /\ owner'.known = owner.known
                /\ owner'.todo = owner.todo
                /\ owner'.failed = owner.failed
                /\ owner'.verdict = (IF bundle.stopping THEN "ok" ELSE "error")
             \/ /\ owner' \in Workers
                /\ owner'.kind = owner.kind /\ owner'.pc = owner.pc /\ owner'.known = owner.known
                /\ owner'.todo = owner.todo /\ owner'.failed = TRUE /\ owner'.verdict = owner.verdict
      BY ZenonT(60), <1>11, ResourceFacts DEF CleanupRelease, At, Ends, Workers,
          BundlePCs,
         DynamicPCs, Typed, ScriptCommands
    <3>4. /\ \/ /\ row' = row
             \/ /\ row' \in Leases
                /\ row'.state = (IF row.state = "none" THEN "none" ELSE "released")
                /\ row'.receipt = (IF row.state = "none" THEN row.receipt ELSE owner.known)
                /\ row'.expired = row.expired
      <4>1. row' = row \/ row' = Settled("released", owner.known)
        BY <1>11 DEF CleanupRelease, Released
      <4>2. owner.known \in SUBSET Resources
        BY ResourceFacts DEF Typed, Workers
      <4> QED BY <4>1, <4>2, SettledFacts
    <3>5. /\ faults' \in 0 .. MaxFaults
      BY <1>11, FaultsAssumption DEF CleanupRelease, At, Fault, NoFault, Typed, TypeOK
    <3>6. /\ UNCHANGED <<docker, up, scan, busy, janitor, overtaken, bundle>>
      BY <1>11 DEF CleanupRelease, At
    <3>7. /\ UNCHANGED run
      BY <1>11 DEF CleanupRelease, At
    <3> QED BY <3>1, <3>2, <3>3, <3>4, <3>5, <3>6, <3>7
  <2>2. Typed'
    BY <2>1, ResourceFacts, FaultsAssumption DEF Typed, TypeOK, Workers, Leases,
       Janitors, Bundles, Runs, BundlePCs, DynamicPCs, Script
  <2>3. BundleKnows'
    BY <2>1, ResourceFacts, FaultsAssumption DEF BundleKnows, Typed, TypeOK, Script,
       Command
  <2>4. DynamicKnows'
    BY <2>1, ResourceFacts, FaultsAssumption DEF DynamicKnows, Typed, TypeOK
  <2>5. Leased'
    BY <2>1, ResourceFacts, FaultsAssumption DEF Leased, BundleKnows, DynamicKnows,
       Undisturbed, Recorded, RunningIsLeased, Typed, TypeOK, Workers
  <2>6. RunningIsLeased'
    BY <2>1, ResourceFacts, FaultsAssumption DEF Leased, BundleKnows, DynamicKnows,
       Undisturbed, Recorded, RunningIsLeased, Typed, TypeOK, Workers
  <2> QED BY <2>2, <2>3, <2>4, <2>5, <2>6
<1>12. CASE CleanupQuarantine
  <2>1. /\ owner.kind = "bundle" /\ owner.pc = "clean"
        /\ owner' \in Workers
        /\ owner'.kind = owner.kind /\ owner'.pc = "gone" /\ owner'.known = owner.known
        /\ owner'.todo = owner.todo /\ owner'.failed = owner.failed /\ owner'.verdict = "error"
        /\ \/ /\ row' = row
           \/ /\ row' \in Leases
              /\ row'.state = (IF row.state = "none" THEN "none" ELSE "quarantined")
              /\ row'.receipt = (IF row.state = "none" THEN row.receipt ELSE owner.known)
              /\ row'.expired = row.expired
        /\ faults' \in 0 .. MaxFaults
        /\ UNCHANGED <<docker, up, scan, busy, janitor, overtaken, bundle>>
        /\ UNCHANGED run
    <3>1. /\ owner.kind = "bundle" /\ owner.pc = "clean"
      BY <1>12 DEF CleanupQuarantine, At
    <3>2. /\ owner' \in Workers
          /\ owner'.kind = owner.kind /\ owner'.pc = "gone" /\ owner'.known = owner.known
          /\ owner'.todo = owner.todo /\ owner'.failed = owner.failed /\ owner'.verdict = "error"
      BY <1>12, ResourceFacts DEF CleanupQuarantine, At, Ends, Workers, BundlePCs,
         DynamicPCs, Typed, ScriptCommands
    <3>3. /\ \/ /\ row' = row
             \/ /\ row' \in Leases
                /\ row'.state = (IF row.state = "none" THEN "none" ELSE "quarantined")
                /\ row'.receipt = (IF row.state = "none" THEN row.receipt ELSE owner.known)
                /\ row'.expired = row.expired
      <4>1. row' = row \/ row' = Settled("quarantined", owner.known)
        BY <1>12 DEF CleanupQuarantine, Quarantined
      <4>2. owner.known \in SUBSET Resources
        BY ResourceFacts DEF Typed, Workers
      <4> QED BY <4>1, <4>2, SettledFacts
    <3>4. /\ faults' \in 0 .. MaxFaults
      BY <1>12, FaultsAssumption DEF CleanupQuarantine, At, Fault, NoFault, Typed,
         TypeOK
    <3>5. /\ UNCHANGED <<docker, up, scan, busy, janitor, overtaken, bundle>>
      BY <1>12 DEF CleanupQuarantine, At
    <3>6. /\ UNCHANGED run
      BY <1>12 DEF CleanupQuarantine, At
    <3> QED BY <3>1, <3>2, <3>3, <3>4, <3>5, <3>6
  <2>2. Typed'
    BY <2>1, ResourceFacts, FaultsAssumption DEF Typed, TypeOK, Workers, Leases,
       Janitors, Bundles, Runs, BundlePCs, DynamicPCs, Script
  <2>3. BundleKnows'
    BY <2>1, ResourceFacts, FaultsAssumption DEF BundleKnows, Typed, TypeOK, Script,
       Command
  <2>4. DynamicKnows'
    BY <2>1, ResourceFacts, FaultsAssumption DEF DynamicKnows, Typed, TypeOK
  <2>5. Leased'
    BY <2>1, ResourceFacts, FaultsAssumption DEF Leased, BundleKnows, DynamicKnows,
       Undisturbed, Recorded, RunningIsLeased, Typed, TypeOK, Workers
  <2>6. RunningIsLeased'
    BY <2>1, ResourceFacts, FaultsAssumption DEF Leased, BundleKnows, DynamicKnows,
       Undisturbed, Recorded, RunningIsLeased, Typed, TypeOK, Workers
  <2> QED BY <2>2, <2>3, <2>4, <2>5, <2>6
<1> QED BY <1>1, <1>2, <1>3, <1>4, <1>5, <1>6, <1>7, <1>8, <1>9, <1>10, <1>11,
        <1>12 DEF BundleNext

\* The steps of a dynamic run
LEMMA DynamicStep ==
  ASSUME LeasedInv, DynamicNext, UNCHANGED bundle
  PROVE  LeasedInv'
<1> USE DEF LeasedInv
<1>1. CASE CreateRun
  <2>1. /\ owner.kind = "dynamic" /\ owner.pc = "idle"
        /\ owner' \in Workers
        /\ owner'.kind = owner.kind /\ owner'.pc = "prepare" /\ owner'.known = owner.known
        /\ owner'.todo = owner.todo /\ owner'.failed = owner.failed /\ owner'.verdict = owner.verdict
        /\ run' \in Runs
        /\ run'.kind = run.kind /\ run'.status = "running" /\ run'.leased = run.leased
        /\ run'.outDir = run.outDir /\ run'.killed = run.killed /\ run'.outcome = run.outcome
        /\ busy' \in BOOLEAN
        /\ UNCHANGED <<docker, up, row, scan, janitor, overtaken, faults>>
        /\ UNCHANGED bundle
    BY <1>1, FaultsAssumption DEF CreateRun, In, Status, Goes, TypeOK, Typed, Workers,
       BundlePCs, DynamicPCs, Runs, Terminal
  <2>2. Typed'
    BY <2>1, ResourceFacts, FaultsAssumption DEF Typed, TypeOK, Workers, Leases,
       Janitors, Bundles, Runs, BundlePCs, DynamicPCs, Script
  <2>3. BundleKnows'
    BY <2>1, ResourceFacts, FaultsAssumption DEF BundleKnows, Typed, TypeOK, Script,
       Command
  <2>4. DynamicKnows'
    BY <2>1, ResourceFacts, FaultsAssumption DEF DynamicKnows, Typed, TypeOK
  <2>5. Leased'
    BY <2>1, ResourceFacts, FaultsAssumption DEF Leased, BundleKnows, DynamicKnows,
       Undisturbed, Recorded, RunningIsLeased, Typed, TypeOK, Workers
  <2>6. RunningIsLeased'
    BY <2>1, ResourceFacts, FaultsAssumption DEF Leased, BundleKnows, DynamicKnows,
       Undisturbed, Recorded, RunningIsLeased, Typed, TypeOK, Workers
  <2> QED BY <2>2, <2>3, <2>4, <2>5, <2>6
<1>2. CASE CreateRunFails
  <2>1. /\ owner.kind = "dynamic" /\ owner.pc = "idle"
        /\ owner' \in Workers
        /\ owner'.kind = owner.kind /\ owner'.pc = "gone" /\ owner'.known = owner.known
        /\ owner'.todo = owner.todo /\ owner'.failed = owner.failed /\ owner'.verdict = "error"
        /\ faults' \in 0 .. MaxFaults
        /\ UNCHANGED <<docker, up, row, scan, busy, janitor, overtaken, run>>
        /\ UNCHANGED bundle
    <3>1. /\ owner.kind = "dynamic" /\ owner.pc = "idle"
      BY <1>2 DEF CreateRunFails, In
    <3>2. /\ owner' \in Workers
          /\ owner'.kind = owner.kind /\ owner'.pc = "gone" /\ owner'.known = owner.known
          /\ owner'.todo = owner.todo /\ owner'.failed = owner.failed /\ owner'.verdict = "error"
      BY <1>2, ResourceFacts DEF CreateRunFails, In, Ends, Workers, BundlePCs,
         DynamicPCs, Typed, ScriptCommands
    <3>3. /\ faults' \in 0 .. MaxFaults
      BY <1>2, FaultsAssumption DEF CreateRunFails, In, Fault, NoFault, Typed, TypeOK
    <3>4. /\ UNCHANGED <<docker, up, row, scan, busy, janitor, overtaken, run>>
      BY <1>2 DEF CreateRunFails, In
    <3>5. /\ UNCHANGED bundle
      BY <1>2 DEF CreateRunFails, In
    <3> QED BY <3>1, <3>2, <3>3, <3>4, <3>5
  <2>2. Typed'
    BY <2>1, ResourceFacts, FaultsAssumption DEF Typed, TypeOK, Workers, Leases,
       Janitors, Bundles, Runs, BundlePCs, DynamicPCs, Script
  <2>3. BundleKnows'
    BY <2>1, ResourceFacts, FaultsAssumption DEF BundleKnows, Typed, TypeOK, Script,
       Command
  <2>4. DynamicKnows'
    BY <2>1, ResourceFacts, FaultsAssumption DEF DynamicKnows, Typed, TypeOK
  <2>5. Leased'
    BY <2>1, ResourceFacts, FaultsAssumption DEF Leased, BundleKnows, DynamicKnows,
       Undisturbed, Recorded, RunningIsLeased, Typed, TypeOK, Workers
  <2>6. RunningIsLeased'
    BY <2>1, ResourceFacts, FaultsAssumption DEF Leased, BundleKnows, DynamicKnows,
       Undisturbed, Recorded, RunningIsLeased, Typed, TypeOK, Workers
  <2> QED BY <2>2, <2>3, <2>4, <2>5, <2>6
<1>3. CASE Prepare
  <2>1. /\ owner.kind = "dynamic" /\ owner.pc = "prepare"
        /\ owner' \in Workers
        /\ owner'.kind = owner.kind /\ owner'.pc = "volume" /\ owner'.known = owner.known
        /\ owner'.todo = owner.todo /\ owner'.failed = owner.failed /\ owner'.verdict = owner.verdict
        /\ row' \in Leases
        /\ row'.state = "active" /\ row'.receipt = {Container, Volume} /\ row'.expired = FALSE
        /\ run' \in Runs
        /\ run'.kind = run.kind /\ run'.status = run.status /\ run'.leased = TRUE
        /\ run'.outDir = TRUE /\ run'.killed = run.killed /\ run'.outcome = run.outcome
        /\ UNCHANGED <<docker, up, scan, busy, janitor, overtaken, faults>>
        /\ UNCHANGED bundle
    <3>1. /\ owner.kind = "dynamic" /\ owner.pc = "prepare"
      BY <1>3 DEF Prepare, In
    <3>2. /\ owner' \in Workers
          /\ owner'.kind = owner.kind /\ owner'.pc = "volume" /\ owner'.known = owner.known
          /\ owner'.todo = owner.todo /\ owner'.failed = owner.failed /\ owner'.verdict = owner.verdict
      BY <1>3, ResourceFacts DEF Prepare, In, Goes, Workers, BundlePCs, DynamicPCs,
         Typed, ScriptCommands
    <3>3. /\ row' \in Leases
          /\ row'.state = "active" /\ row'.receipt = {Container, Volume} /\ row'.expired = FALSE
      <4>1. row' = Acquired({Container, Volume})
        BY <1>3 DEF Prepare
      <4>2. {Container, Volume} \in SUBSET Resources
        BY ResourceFacts
      <4> QED BY <4>1, <4>2, AcquiredFacts
    <3>4. /\ run' \in Runs
          /\ run'.kind = run.kind /\ run'.status = run.status /\ run'.leased = TRUE
          /\ run'.outDir = TRUE /\ run'.killed = run.killed /\ run'.outcome = run.outcome
      BY <1>3 DEF Prepare, In, Runs, Terminal, Typed, Outcomes
    <3>5. /\ UNCHANGED <<docker, up, scan, busy, janitor, overtaken, faults>>
      BY <1>3 DEF Prepare, In
    <3>6. /\ UNCHANGED bundle
      BY <1>3 DEF Prepare, In
    <3> QED BY <3>1, <3>2, <3>3, <3>4, <3>5, <3>6
  <2>2. Typed'
    BY <2>1, ResourceFacts, FaultsAssumption DEF Typed, TypeOK, Workers, Leases,
       Janitors, Bundles, Runs, BundlePCs, DynamicPCs, Script
  <2>3. BundleKnows'
    BY <2>1, ResourceFacts, FaultsAssumption DEF BundleKnows, Typed, TypeOK, Script,
       Command
  <2>4. DynamicKnows'
    BY <2>1, ResourceFacts, FaultsAssumption DEF DynamicKnows, Typed, TypeOK
  <2>5. Leased'
    BY <2>1, ResourceFacts, FaultsAssumption DEF Leased, BundleKnows, DynamicKnows,
       Undisturbed, Recorded, RunningIsLeased, Typed, TypeOK, Workers
  <2>6. RunningIsLeased'
    BY <2>1, ResourceFacts, FaultsAssumption DEF Leased, BundleKnows, DynamicKnows,
       Undisturbed, Recorded, RunningIsLeased, Typed, TypeOK, Workers
  <2> QED BY <2>2, <2>3, <2>4, <2>5, <2>6
<1>4. CASE PrepareThrows
  <2>1. /\ owner.kind = "dynamic" /\ owner.pc = "prepare"
        /\ owner' \in Workers
        /\ owner'.kind = owner.kind /\ owner'.pc = "catch" /\ owner'.known = owner.known
        /\ owner'.todo = owner.todo /\ owner'.failed = owner.failed /\ owner'.verdict = owner.verdict
        /\ \/ /\ row' = row
           \/ /\ row' \in Leases
              /\ row'.state = "active" /\ row'.receipt = {Container, Volume} /\ row'.expired = FALSE
        /\ \/ /\ run' = run
           \/ /\ run' \in Runs
              /\ run'.kind = run.kind /\ run'.status = run.status /\ run'.leased = run.leased
              /\ run'.outDir = TRUE /\ run'.killed = run.killed /\ run'.outcome = run.outcome
        /\ faults' \in 0 .. MaxFaults
        /\ UNCHANGED <<docker, up, scan, busy, janitor, overtaken>>
        /\ UNCHANGED bundle
    <3>1. /\ owner.kind = "dynamic" /\ owner.pc = "prepare"
      BY <1>4 DEF PrepareThrows, In
    <3>2. /\ owner' \in Workers
          /\ owner'.kind = owner.kind /\ owner'.pc = "catch" /\ owner'.known = owner.known
          /\ owner'.todo = owner.todo /\ owner'.failed = owner.failed /\ owner'.verdict = owner.verdict
      BY <1>4, ResourceFacts DEF PrepareThrows, In, Goes, Workers, BundlePCs,
         DynamicPCs, Typed, ScriptCommands
    <3>3. /\ \/ /\ row' = row
             \/ /\ row' \in Leases
                /\ row'.state = "active" /\ row'.receipt = {Container, Volume} /\ row'.expired = FALSE
      <4>1. row' = row \/ row' = Acquired({Container, Volume})
        BY <1>4 DEF PrepareThrows
      <4>2. {Container, Volume} \in SUBSET Resources
        BY ResourceFacts DEF Typed, Workers
      <4> QED BY <4>1, <4>2, AcquiredFacts
    <3>4. /\ \/ /\ run' = run
             \/ /\ run' \in Runs
                /\ run'.kind = run.kind /\ run'.status = run.status /\ run'.leased = run.leased
                /\ run'.outDir = TRUE /\ run'.killed = run.killed /\ run'.outcome = run.outcome
      BY <1>4 DEF PrepareThrows, In, Runs, Terminal, Typed, Outcomes
    <3>5. /\ faults' \in 0 .. MaxFaults
      BY <1>4, FaultsAssumption DEF PrepareThrows, In, Fault, NoFault, Typed, TypeOK
    <3>6. /\ UNCHANGED <<docker, up, scan, busy, janitor, overtaken>>
      BY <1>4 DEF PrepareThrows, In
    <3>7. /\ UNCHANGED bundle
      BY <1>4 DEF PrepareThrows, In
    <3> QED BY <3>1, <3>2, <3>3, <3>4, <3>5, <3>6, <3>7
  <2>2. Typed'
    BY <2>1, ResourceFacts, FaultsAssumption DEF Typed, TypeOK, Workers, Leases,
       Janitors, Bundles, Runs, BundlePCs, DynamicPCs, Script
  <2>3. BundleKnows'
    BY <2>1, ResourceFacts, FaultsAssumption DEF BundleKnows, Typed, TypeOK, Script,
       Command
  <2>4. DynamicKnows'
    BY <2>1, ResourceFacts, FaultsAssumption DEF DynamicKnows, Typed, TypeOK
  <2>5. Leased'
    BY <2>1, ResourceFacts, FaultsAssumption DEF Leased, BundleKnows, DynamicKnows,
       Undisturbed, Recorded, RunningIsLeased, Typed, TypeOK, Workers
  <2>6. RunningIsLeased'
    BY <2>1, ResourceFacts, FaultsAssumption DEF Leased, BundleKnows, DynamicKnows,
       Undisturbed, Recorded, RunningIsLeased, Typed, TypeOK, Workers
  <2> QED BY <2>2, <2>3, <2>4, <2>5, <2>6
<1>5. CASE CreateVolume
  <2>1. /\ owner.kind = "dynamic" /\ owner.pc = "volume"
        /\ owner' \in Workers
        /\ owner'.kind = owner.kind /\ owner'.pc = "spawn" /\ owner'.known = owner.known
        /\ owner'.todo = owner.todo /\ owner'.failed = owner.failed /\ owner'.verdict = owner.verdict
        /\ docker' = docker \cup {Volume}
        /\ UNCHANGED <<up, row, scan, busy, janitor, overtaken, faults, run>>
        /\ UNCHANGED bundle
    BY <1>5, FaultsAssumption, ResourceFacts DEF CreateVolume, In, Goes, TypeOK, Typed,
       Workers, BundlePCs, DynamicPCs
  <2>2. Typed'
    BY <2>1, ResourceFacts, FaultsAssumption DEF Typed, TypeOK, Workers, Leases,
       Janitors, Bundles, Runs, BundlePCs, DynamicPCs, Script
  <2>3. BundleKnows'
    BY <2>1, ResourceFacts, FaultsAssumption DEF BundleKnows, Typed, TypeOK, Script,
       Command
  <2>4. DynamicKnows'
    BY <2>1, ResourceFacts, FaultsAssumption DEF DynamicKnows, Typed, TypeOK
  <2>5. Leased'
    BY <2>1, ResourceFacts, FaultsAssumption DEF Leased, BundleKnows, DynamicKnows,
       Undisturbed, Recorded, RunningIsLeased, Typed, TypeOK, Workers
  <2>6. RunningIsLeased'
    BY <2>1, ResourceFacts, FaultsAssumption DEF Leased, BundleKnows, DynamicKnows,
       Undisturbed, Recorded, RunningIsLeased, Typed, TypeOK, Workers
  <2> QED BY <2>2, <2>3, <2>4, <2>5, <2>6
<1>6. CASE CreateVolumeFails
  <2>1. /\ owner.kind = "dynamic" /\ owner.pc = "volume"
        /\ owner' \in Workers
        /\ owner'.kind = owner.kind /\ owner'.pc = "record" /\ owner'.known = owner.known
        /\ owner'.todo = owner.todo /\ owner'.failed = owner.failed /\ owner'.verdict = owner.verdict
        /\ run' \in Runs
        /\ run'.kind = run.kind /\ run'.status = run.status /\ run'.leased = run.leased
        /\ run'.outDir = run.outDir /\ run'.killed = run.killed /\ run'.outcome = "no volume"
        /\ docker' \in {docker, docker \cup {Volume}}
        /\ faults' \in 0 .. MaxFaults
        /\ UNCHANGED <<up, row, scan, busy, janitor, overtaken>>
        /\ UNCHANGED bundle
    <3>1. /\ owner.kind = "dynamic" /\ owner.pc = "volume"
      BY <1>6 DEF CreateVolumeFails, In
    <3>2. /\ owner' \in Workers
          /\ owner'.kind = owner.kind /\ owner'.pc = "record" /\ owner'.known = owner.known
          /\ owner'.todo = owner.todo /\ owner'.failed = owner.failed /\ owner'.verdict = owner.verdict
      BY <1>6, ResourceFacts DEF CreateVolumeFails, In, Goes, Workers, BundlePCs,
         DynamicPCs, Typed, ScriptCommands
    <3>3. /\ run' \in Runs
          /\ run'.kind = run.kind /\ run'.status = run.status /\ run'.leased = run.leased
          /\ run'.outDir = run.outDir /\ run'.killed = run.killed /\ run'.outcome = "no volume"
      BY <1>6 DEF CreateVolumeFails, In, Outcome, Runs, Terminal, Typed, Outcomes
    <3>4. /\ docker' \in {docker, docker \cup {Volume}}
      BY <1>6, ResourceFacts DEF CreateVolumeFails, In, Typed, TypeOK
    <3>5. /\ faults' \in 0 .. MaxFaults
      <4>1. Fault
        BY <1>6 DEF CreateVolumeFails
      <4> QED BY <4>1, FaultsAssumption DEF Fault, Typed, TypeOK
    <3>6. /\ UNCHANGED <<up, row, scan, busy, janitor, overtaken>>
      BY <1>6 DEF CreateVolumeFails, In
    <3>7. /\ UNCHANGED bundle
      BY <1>6 DEF CreateVolumeFails, In
    <3> QED BY <3>1, <3>2, <3>3, <3>4, <3>5, <3>6, <3>7
  <2>2. Typed'
    BY ZenonT(60), <2>1, ResourceFacts, FaultsAssumption DEF Typed, TypeOK,
        Workers, Leases,
       Janitors, Bundles, Runs, BundlePCs, DynamicPCs, Script
  <2>3. BundleKnows'
    BY <2>1, ResourceFacts, FaultsAssumption DEF BundleKnows, Typed, TypeOK, Script,
       Command
  <2>4. DynamicKnows'
    BY <2>1, ResourceFacts, FaultsAssumption DEF DynamicKnows, Typed, TypeOK
  <2>5. Leased'
    BY <2>1, ResourceFacts, FaultsAssumption DEF Leased, BundleKnows, DynamicKnows,
       Undisturbed, Recorded, RunningIsLeased, Typed, TypeOK, Workers
  <2>6. RunningIsLeased'
    BY <2>1, ResourceFacts, FaultsAssumption DEF Leased, BundleKnows, DynamicKnows,
       Undisturbed, Recorded, RunningIsLeased, Typed, TypeOK, Workers
  <2> QED BY <2>2, <2>3, <2>4, <2>5, <2>6
<1>7. CASE Spawn
  <2>1. /\ owner.kind = "dynamic" /\ owner.pc = "spawn"
        /\ owner' \in Workers
        /\ owner'.kind = owner.kind /\ owner'.pc = "running" /\ owner'.known = owner.known
        /\ owner'.todo = owner.todo /\ owner'.failed = owner.failed /\ owner'.verdict = owner.verdict
        /\ docker' = docker \cup {Container, Volume} /\ up' = up \cup {Container}
        /\ UNCHANGED <<row, scan, busy, janitor, overtaken, faults, run>>
        /\ UNCHANGED bundle
    BY <1>7, FaultsAssumption, ResourceFacts DEF Spawn, In, Goes, TypeOK, Typed,
       Workers, BundlePCs, DynamicPCs
  <2>2. Typed'
    BY <2>1, ResourceFacts, FaultsAssumption DEF Typed, TypeOK, Workers, Leases,
       Janitors, Bundles, Runs, BundlePCs, DynamicPCs, Script
  <2>3. BundleKnows'
    BY <2>1, ResourceFacts, FaultsAssumption DEF BundleKnows, Typed, TypeOK, Script,
       Command
  <2>4. DynamicKnows'
    BY <2>1, ResourceFacts, FaultsAssumption DEF DynamicKnows, Typed, TypeOK
  <2>5. Leased'
    BY <2>1, ResourceFacts, FaultsAssumption DEF Leased, BundleKnows, DynamicKnows,
       Undisturbed, Recorded, RunningIsLeased, Typed, TypeOK, Workers
  <2>6. RunningIsLeased'
    BY <2>1, ResourceFacts, FaultsAssumption DEF Leased, BundleKnows, DynamicKnows,
       Undisturbed, Recorded, RunningIsLeased, Typed, TypeOK, Workers
  <2> QED BY <2>2, <2>3, <2>4, <2>5, <2>6
<1>8. CASE SpawnThrows
  <2>1. /\ owner.kind = "dynamic" /\ owner.pc = "spawn"
        /\ owner' \in Workers
        /\ owner'.kind = owner.kind /\ owner'.pc = "rmVolume" /\ owner'.known = owner.known
        /\ owner'.todo = owner.todo /\ owner'.failed = owner.failed /\ owner'.verdict = owner.verdict
        /\ run' \in Runs
        /\ run'.kind = run.kind /\ run'.status = run.status /\ run'.leased = run.leased
        /\ run'.outDir = run.outDir /\ run'.killed = run.killed /\ run'.outcome = "thrown"
        /\ faults' \in 0 .. MaxFaults
        /\ UNCHANGED <<docker, up, row, scan, busy, janitor, overtaken>>
        /\ UNCHANGED bundle
    <3>1. /\ owner.kind = "dynamic" /\ owner.pc = "spawn"
      BY <1>8 DEF SpawnThrows, In
    <3>2. /\ owner' \in Workers
          /\ owner'.kind = owner.kind /\ owner'.pc = "rmVolume" /\ owner'.known = owner.known
          /\ owner'.todo = owner.todo /\ owner'.failed = owner.failed /\ owner'.verdict = owner.verdict
      BY <1>8, ResourceFacts DEF SpawnThrows, In, Goes, Workers, BundlePCs, DynamicPCs,
         Typed, ScriptCommands
    <3>3. /\ run' \in Runs
          /\ run'.kind = run.kind /\ run'.status = run.status /\ run'.leased = run.leased
          /\ run'.outDir = run.outDir /\ run'.killed = run.killed /\ run'.outcome = "thrown"
      BY <1>8 DEF SpawnThrows, In, Outcome, Runs, Terminal, Typed, Outcomes
    <3>4. /\ faults' \in 0 .. MaxFaults
      BY <1>8, FaultsAssumption DEF SpawnThrows, In, Fault, NoFault, Typed, TypeOK
    <3>5. /\ UNCHANGED <<docker, up, row, scan, busy, janitor, overtaken>>
      BY <1>8 DEF SpawnThrows, In
    <3>6. /\ UNCHANGED bundle
      BY <1>8 DEF SpawnThrows, In
    <3> QED BY <3>1, <3>2, <3>3, <3>4, <3>5, <3>6
  <2>2. Typed'
    BY <2>1, ResourceFacts, FaultsAssumption DEF Typed, TypeOK, Workers, Leases,
       Janitors, Bundles, Runs, BundlePCs, DynamicPCs, Script
  <2>3. BundleKnows'
    BY <2>1, ResourceFacts, FaultsAssumption DEF BundleKnows, Typed, TypeOK, Script,
       Command
  <2>4. DynamicKnows'
    BY <2>1, ResourceFacts, FaultsAssumption DEF DynamicKnows, Typed, TypeOK
  <2>5. Leased'
    BY <2>1, ResourceFacts, FaultsAssumption DEF Leased, BundleKnows, DynamicKnows,
       Undisturbed, Recorded, RunningIsLeased, Typed, TypeOK, Workers
  <2>6. RunningIsLeased'
    BY <2>1, ResourceFacts, FaultsAssumption DEF Leased, BundleKnows, DynamicKnows,
       Undisturbed, Recorded, RunningIsLeased, Typed, TypeOK, Workers
  <2> QED BY <2>2, <2>3, <2>4, <2>5, <2>6
<1>9. CASE SpawnRefused
  <2>1. /\ owner.kind = "dynamic" /\ owner.pc = "spawn"
        /\ owner' \in Workers
        /\ owner'.kind = owner.kind /\ owner'.pc = "rmContainer" /\ owner'.known = owner.known
        /\ owner'.todo = owner.todo /\ owner'.failed = owner.failed /\ owner'.verdict = owner.verdict
        /\ run' \in Runs
        /\ run'.kind = run.kind /\ run'.status = run.status /\ run'.leased = run.leased
        /\ run'.outDir = run.outDir /\ run'.killed = run.killed /\ run'.outcome = "refused"
        /\ docker' \in {docker, docker \cup {Container, Volume}}
        /\ faults' \in 0 .. MaxFaults
        /\ UNCHANGED <<up, row, scan, busy, janitor, overtaken>>
        /\ UNCHANGED bundle
    <3>1. /\ owner.kind = "dynamic" /\ owner.pc = "spawn"
      BY <1>9 DEF SpawnRefused, In
    <3>2. /\ owner' \in Workers
          /\ owner'.kind = owner.kind /\ owner'.pc = "rmContainer" /\ owner'.known = owner.known
          /\ owner'.todo = owner.todo /\ owner'.failed = owner.failed /\ owner'.verdict = owner.verdict
      BY <1>9, ResourceFacts DEF SpawnRefused, In, Goes, Workers, BundlePCs,
         DynamicPCs, Typed, ScriptCommands
    <3>3. /\ run' \in Runs
          /\ run'.kind = run.kind /\ run'.status = run.status /\ run'.leased = run.leased
          /\ run'.outDir = run.outDir /\ run'.killed = run.killed /\ run'.outcome = "refused"
      BY <1>9 DEF SpawnRefused, In, Outcome, Runs, Terminal, Typed, Outcomes
    <3>4. /\ docker' \in {docker, docker \cup {Container, Volume}}
      BY <1>9, ResourceFacts DEF SpawnRefused, In, Typed, TypeOK
    <3>5. /\ faults' \in 0 .. MaxFaults
      BY <1>9, FaultsAssumption DEF SpawnRefused, In, Fault, NoFault, Typed, TypeOK
    <3>6. /\ UNCHANGED <<up, row, scan, busy, janitor, overtaken>>
      BY <1>9 DEF SpawnRefused, In
    <3>7. /\ UNCHANGED bundle
      BY <1>9 DEF SpawnRefused, In
    <3> QED BY <3>1, <3>2, <3>3, <3>4, <3>5, <3>6, <3>7
  <2>2. Typed'
    BY <2>1, ResourceFacts, FaultsAssumption DEF Typed, TypeOK, Workers, Leases,
       Janitors, Bundles, Runs, BundlePCs, DynamicPCs, Script
  <2>3. BundleKnows'
    BY <2>1, ResourceFacts, FaultsAssumption DEF BundleKnows, Typed, TypeOK, Script,
       Command
  <2>4. DynamicKnows'
    BY <2>1, ResourceFacts, FaultsAssumption DEF DynamicKnows, Typed, TypeOK
  <2>5. Leased'
    BY <2>1, ResourceFacts, FaultsAssumption DEF Leased, BundleKnows, DynamicKnows,
       Undisturbed, Recorded, RunningIsLeased, Typed, TypeOK, Workers
  <2>6. RunningIsLeased'
    BY <2>1, ResourceFacts, FaultsAssumption DEF Leased, BundleKnows, DynamicKnows,
       Undisturbed, Recorded, RunningIsLeased, Typed, TypeOK, Workers
  <2> QED BY <2>2, <2>3, <2>4, <2>5, <2>6
<1>10. CASE Exit
  <2>1. /\ owner.kind = "dynamic" /\ owner.pc = "running"
        /\ \/ /\ owner' \in Workers
              /\ owner'.kind = owner.kind /\ owner'.pc = "collect" /\ owner'.known = owner.known
              /\ owner'.todo = owner.todo /\ owner'.failed = owner.failed /\ owner'.verdict = owner.verdict
           \/ /\ owner' \in Workers
              /\ owner'.kind = owner.kind /\ owner'.pc = "rmContainer" /\ owner'.known = owner.known
              /\ owner'.todo = owner.todo /\ owner'.failed = owner.failed /\ owner'.verdict = owner.verdict
        /\ run' \in Runs
        /\ up' = up \ {Container}
        /\ UNCHANGED <<docker, row, scan, busy, janitor, overtaken, faults>>
        /\ UNCHANGED bundle
    BY ZenonT(60), <1>10, FaultsAssumption, ResourceFacts DEF Exit, In, Goes,
        Outcome, Outcomes,
       TypeOK, Typed, Workers, BundlePCs, DynamicPCs, Runs, Terminal
  <2>2. Typed'
    BY <2>1, ResourceFacts, FaultsAssumption DEF Typed, TypeOK, Workers, Leases,
       Janitors, Bundles, Runs, BundlePCs, DynamicPCs, Script
  <2>3. BundleKnows'
    BY <2>1, ResourceFacts, FaultsAssumption DEF BundleKnows, Typed, TypeOK, Script,
       Command
  <2>4. DynamicKnows'
    BY <2>1, ResourceFacts, FaultsAssumption DEF DynamicKnows, Typed, TypeOK
  <2>5. Leased'
    BY <2>1, ResourceFacts, FaultsAssumption DEF Leased, BundleKnows, DynamicKnows,
       Undisturbed, Recorded, RunningIsLeased, Typed, TypeOK, Workers
  <2>6. RunningIsLeased'
    BY <2>1, ResourceFacts, FaultsAssumption DEF Leased, BundleKnows, DynamicKnows,
       Undisturbed, Recorded, RunningIsLeased, Typed, TypeOK, Workers
  <2> QED BY <2>2, <2>3, <2>4, <2>5, <2>6
<1>11. CASE Timeout
  <2>1. /\ owner.kind = "dynamic" /\ owner.pc \in {"running", "collect"}
        /\ \/ /\ owner' \in Workers
              /\ owner'.kind = owner.kind /\ owner'.pc = "collect" /\ owner'.known = owner.known
              /\ owner'.todo = owner.todo /\ owner'.failed = owner.failed /\ owner'.verdict = owner.verdict
           \/ /\ owner' \in Workers
              /\ owner'.kind = owner.kind /\ owner'.pc = "rmContainer" /\ owner'.known = owner.known
              /\ owner'.todo = owner.todo /\ owner'.failed = owner.failed /\ owner'.verdict = owner.verdict
        /\ run' \in Runs
        /\ UNCHANGED <<docker, up, row, scan, busy, janitor, overtaken, faults>>
        /\ UNCHANGED bundle
    BY <1>11, FaultsAssumption, ResourceFacts DEF Timeout, In, Goes, Outcomes, TypeOK,
       Typed, Workers, BundlePCs, DynamicPCs, Runs, Terminal
  <2>2. Typed'
    BY <2>1, ResourceFacts, FaultsAssumption DEF Typed, TypeOK, Workers, Leases,
       Janitors, Bundles, Runs, BundlePCs, DynamicPCs, Script
  <2>3. BundleKnows'
    BY <2>1, ResourceFacts, FaultsAssumption DEF BundleKnows, Typed, TypeOK, Script,
       Command
  <2>4. DynamicKnows'
    BY <2>1, ResourceFacts, FaultsAssumption DEF DynamicKnows, Typed, TypeOK
  <2>5. Leased'
    BY <2>1, ResourceFacts, FaultsAssumption DEF Leased, BundleKnows, DynamicKnows,
       Undisturbed, Recorded, RunningIsLeased, Typed, TypeOK, Workers
  <2>6. RunningIsLeased'
    BY <2>1, ResourceFacts, FaultsAssumption DEF Leased, BundleKnows, DynamicKnows,
       Undisturbed, Recorded, RunningIsLeased, Typed, TypeOK, Workers
  <2> QED BY <2>2, <2>3, <2>4, <2>5, <2>6
<1>12. CASE OutputLimit
  <2>1. /\ owner.kind = "dynamic" /\ owner.pc = "running"
        /\ owner' \in Workers
        /\ owner'.kind = owner.kind /\ owner'.pc = "rmContainer" /\ owner'.known = owner.known
        /\ owner'.todo = owner.todo /\ owner'.failed = owner.failed /\ owner'.verdict = owner.verdict
        /\ run' \in Runs
        /\ UNCHANGED <<docker, up, row, scan, busy, janitor, overtaken, faults>>
        /\ UNCHANGED bundle
    BY <1>12, FaultsAssumption, ResourceFacts DEF OutputLimit, In, Goes, Outcomes,
       TypeOK, Typed, Workers, BundlePCs, DynamicPCs, Runs, Terminal
  <2>2. Typed'
    BY <2>1, ResourceFacts, FaultsAssumption DEF Typed, TypeOK, Workers, Leases,
       Janitors, Bundles, Runs, BundlePCs, DynamicPCs, Script
  <2>3. BundleKnows'
    BY <2>1, ResourceFacts, FaultsAssumption DEF BundleKnows, Typed, TypeOK, Script,
       Command
  <2>4. DynamicKnows'
    BY <2>1, ResourceFacts, FaultsAssumption DEF DynamicKnows, Typed, TypeOK
  <2>5. Leased'
    BY <2>1, ResourceFacts, FaultsAssumption DEF Leased, BundleKnows, DynamicKnows,
       Undisturbed, Recorded, RunningIsLeased, Typed, TypeOK, Workers
  <2>6. RunningIsLeased'
    BY <2>1, ResourceFacts, FaultsAssumption DEF Leased, BundleKnows, DynamicKnows,
       Undisturbed, Recorded, RunningIsLeased, Typed, TypeOK, Workers
  <2> QED BY <2>2, <2>3, <2>4, <2>5, <2>6
<1>13. CASE Collect
  <2>1. /\ owner.kind = "dynamic" /\ owner.pc = "collect"
        /\ owner' \in Workers
        /\ owner'.kind = owner.kind /\ owner'.pc = "rmContainer" /\ owner'.known = owner.known
        /\ owner'.todo = owner.todo /\ owner'.failed = owner.failed /\ owner'.verdict = owner.verdict
        /\ UNCHANGED <<docker, up, row, scan, busy, janitor, overtaken, faults, run>>
        /\ UNCHANGED bundle
    BY <1>13, FaultsAssumption, ResourceFacts DEF Collect, In, Goes, TypeOK, Typed,
       Workers, BundlePCs, DynamicPCs
  <2>2. Typed'
    BY <2>1, ResourceFacts, FaultsAssumption DEF Typed, TypeOK, Workers, Leases,
       Janitors, Bundles, Runs, BundlePCs, DynamicPCs, Script
  <2>3. BundleKnows'
    BY <2>1, ResourceFacts, FaultsAssumption DEF BundleKnows, Typed, TypeOK, Script,
       Command
  <2>4. DynamicKnows'
    BY <2>1, ResourceFacts, FaultsAssumption DEF DynamicKnows, Typed, TypeOK
  <2>5. Leased'
    BY <2>1, ResourceFacts, FaultsAssumption DEF Leased, BundleKnows, DynamicKnows,
       Undisturbed, Recorded, RunningIsLeased, Typed, TypeOK, Workers
  <2>6. RunningIsLeased'
    BY <2>1, ResourceFacts, FaultsAssumption DEF Leased, BundleKnows, DynamicKnows,
       Undisturbed, Recorded, RunningIsLeased, Typed, TypeOK, Workers
  <2> QED BY <2>2, <2>3, <2>4, <2>5, <2>6
<1>14. CASE CollectFails
  <2>1. /\ owner.kind = "dynamic" /\ owner.pc = "collect"
        /\ owner' \in Workers
        /\ owner'.kind = owner.kind /\ owner'.pc = "rmContainer" /\ owner'.known = owner.known
        /\ owner'.todo = owner.todo /\ owner'.failed = owner.failed /\ owner'.verdict = owner.verdict
        /\ run' \in Runs
        /\ faults' \in 0 .. MaxFaults
        /\ UNCHANGED <<docker, up, row, scan, busy, janitor, overtaken>>
        /\ UNCHANGED bundle
    <3>1. /\ owner.kind = "dynamic" /\ owner.pc = "collect"
      BY <1>14 DEF CollectFails, In
    <3>2. /\ owner' \in Workers
          /\ owner'.kind = owner.kind /\ owner'.pc = "rmContainer" /\ owner'.known = owner.known
          /\ owner'.todo = owner.todo /\ owner'.failed = owner.failed /\ owner'.verdict = owner.verdict
      BY <1>14, ResourceFacts DEF CollectFails, In, Goes, Workers, BundlePCs,
         DynamicPCs, Typed, ScriptCommands
    <3>3. /\ run' \in Runs
      BY <1>14 DEF CollectFails, In, Outcome, Runs, Terminal, Typed, Outcomes
    <3>4. /\ faults' \in 0 .. MaxFaults
      BY <1>14, FaultsAssumption DEF CollectFails, In, Fault, NoFault, Typed, TypeOK
    <3>5. /\ UNCHANGED <<docker, up, row, scan, busy, janitor, overtaken>>
      BY <1>14 DEF CollectFails, In
    <3>6. /\ UNCHANGED bundle
      BY <1>14 DEF CollectFails, In
    <3> QED BY <3>1, <3>2, <3>3, <3>4, <3>5, <3>6
  <2>2. Typed'
    BY <2>1, ResourceFacts, FaultsAssumption DEF Typed, TypeOK, Workers, Leases,
       Janitors, Bundles, Runs, BundlePCs, DynamicPCs, Script
  <2>3. BundleKnows'
    BY <2>1, ResourceFacts, FaultsAssumption DEF BundleKnows, Typed, TypeOK, Script,
       Command
  <2>4. DynamicKnows'
    BY <2>1, ResourceFacts, FaultsAssumption DEF DynamicKnows, Typed, TypeOK
  <2>5. Leased'
    BY <2>1, ResourceFacts, FaultsAssumption DEF Leased, BundleKnows, DynamicKnows,
       Undisturbed, Recorded, RunningIsLeased, Typed, TypeOK, Workers
  <2>6. RunningIsLeased'
    BY <2>1, ResourceFacts, FaultsAssumption DEF Leased, BundleKnows, DynamicKnows,
       Undisturbed, Recorded, RunningIsLeased, Typed, TypeOK, Workers
  <2> QED BY <2>2, <2>3, <2>4, <2>5, <2>6
<1>15. CASE RemoveContainer
  <2>1. /\ owner.kind = "dynamic" /\ owner.pc = "rmContainer"
        /\ \/ /\ owner' \in Workers
              /\ owner'.kind = owner.kind /\ owner'.pc = "rmVolume" /\ owner'.known = owner.known
              /\ owner'.todo = owner.todo /\ owner'.failed = owner.failed /\ owner'.verdict = owner.verdict
              /\ docker' = docker \ {Container} /\ up' = up \ {Container}
           \/ /\ owner' \in Workers
              /\ owner'.kind = owner.kind /\ owner'.pc = "rmVolume" /\ owner'.known = owner.known
              /\ owner'.todo = owner.todo /\ owner'.failed = TRUE /\ owner'.verdict = owner.verdict
              /\ docker' \subseteq docker /\ up' \subseteq up \cap docker'
        /\ faults' \in 0 .. MaxFaults
        /\ UNCHANGED <<row, scan, busy, janitor, overtaken, run>>
        /\ UNCHANGED bundle
    <3>1. /\ owner.kind = "dynamic" /\ owner.pc = "rmContainer"
      BY <1>15, ResourceFacts DEF RemoveContainer, In
    <3>2. /\ \/ /\ owner' \in Workers
                /\ owner'.kind = owner.kind /\ owner'.pc = "rmVolume" /\ owner'.known = owner.known
                /\ owner'.todo = owner.todo /\ owner'.failed = owner.failed /\ owner'.verdict = owner.verdict
                /\ docker' = docker \ {Container} /\ up' = up \ {Container}
             \/ /\ owner' \in Workers
                /\ owner'.kind = owner.kind /\ owner'.pc = "rmVolume" /\ owner'.known = owner.known
                /\ owner'.todo = owner.todo /\ owner'.failed = TRUE /\ owner'.verdict = owner.verdict
                /\ docker' \subseteq docker /\ up' \subseteq up \cap docker'
      BY ZenonT(60), <1>15, ResourceFacts DEF RemoveContainer, In, Removes,
          RemoveSucceeds,
         RemoveFails, Remove, Goes, Workers, BundlePCs, DynamicPCs, Typed, TypeOK,
         ScriptCommands
    <3>3. /\ faults' \in 0 .. MaxFaults
      BY <1>15, FaultsAssumption DEF RemoveContainer, In, Removes, RemoveSucceeds,
         RemoveFails, Fault, NoFault, Typed, TypeOK
    <3>4. /\ UNCHANGED <<row, scan, busy, janitor, overtaken, run>>
      BY <1>15 DEF RemoveContainer, In
    <3>5. /\ UNCHANGED bundle
      BY <1>15 DEF RemoveContainer, In
    <3> QED BY <3>1, <3>2, <3>3, <3>4, <3>5
  <2>2. Typed'
    BY <2>1, ResourceFacts, FaultsAssumption DEF Typed, TypeOK, Workers, Leases,
       Janitors, Bundles, Runs, BundlePCs, DynamicPCs, Script
  <2>3. BundleKnows'
    BY <2>1, ResourceFacts, FaultsAssumption DEF BundleKnows, Typed, TypeOK, Script,
       Command
  <2>4. DynamicKnows'
    BY <2>1, ResourceFacts, FaultsAssumption DEF DynamicKnows, Typed, TypeOK
  <2>5. Leased'
    BY <2>1, ResourceFacts, FaultsAssumption DEF Leased, BundleKnows, DynamicKnows,
       Undisturbed, Recorded, RunningIsLeased, Typed, TypeOK, Workers
  <2>6. RunningIsLeased'
    BY <2>1, ResourceFacts, FaultsAssumption DEF Leased, BundleKnows, DynamicKnows,
       Undisturbed, Recorded, RunningIsLeased, Typed, TypeOK, Workers
  <2> QED BY <2>2, <2>3, <2>4, <2>5, <2>6
<1>16. CASE RemoveVolume
  <2>1. /\ owner.kind = "dynamic" /\ owner.pc = "rmVolume"
        /\ \/ /\ owner' \in Workers
              /\ owner'.kind = owner.kind /\ owner'.pc = "record" /\ owner'.known = owner.known
              /\ owner'.todo = owner.todo /\ owner'.failed = owner.failed /\ owner'.verdict = owner.verdict
              /\ docker' = docker \ {Volume} /\ up' = up \ {Volume}
           \/ /\ owner' \in Workers
              /\ owner'.kind = owner.kind /\ owner'.pc = "record" /\ owner'.known = owner.known
              /\ owner'.todo = owner.todo /\ owner'.failed = TRUE /\ owner'.verdict = owner.verdict
              /\ docker' \subseteq docker /\ up' \subseteq up \cap docker'
        /\ faults' \in 0 .. MaxFaults
        /\ UNCHANGED <<row, scan, busy, janitor, overtaken, run>>
        /\ UNCHANGED bundle
    <3>1. /\ owner.kind = "dynamic" /\ owner.pc = "rmVolume"
      BY <1>16, ResourceFacts DEF RemoveVolume, In
    <3>2. /\ \/ /\ owner' \in Workers
                /\ owner'.kind = owner.kind /\ owner'.pc = "record" /\ owner'.known = owner.known
                /\ owner'.todo = owner.todo /\ owner'.failed = owner.failed /\ owner'.verdict = owner.verdict
                /\ docker' = docker \ {Volume} /\ up' = up \ {Volume}
             \/ /\ owner' \in Workers
                /\ owner'.kind = owner.kind /\ owner'.pc = "record" /\ owner'.known = owner.known
                /\ owner'.todo = owner.todo /\ owner'.failed = TRUE /\ owner'.verdict = owner.verdict
                /\ docker' \subseteq docker /\ up' \subseteq up \cap docker'
      BY ZenonT(60), <1>16, ResourceFacts DEF RemoveVolume, In, Removes, RemoveSucceeds,
         RemoveFails, Remove, Goes, Workers, BundlePCs, DynamicPCs, Typed, TypeOK,
         ScriptCommands
    <3>3. /\ faults' \in 0 .. MaxFaults
      BY <1>16, FaultsAssumption DEF RemoveVolume, In, Removes, RemoveSucceeds,
         RemoveFails, Fault, NoFault, Typed, TypeOK
    <3>4. /\ UNCHANGED <<row, scan, busy, janitor, overtaken, run>>
      BY <1>16 DEF RemoveVolume, In
    <3>5. /\ UNCHANGED bundle
      BY <1>16 DEF RemoveVolume, In
    <3> QED BY <3>1, <3>2, <3>3, <3>4, <3>5
  <2>2. Typed'
    BY <2>1, ResourceFacts, FaultsAssumption DEF Typed, TypeOK, Workers, Leases,
       Janitors, Bundles, Runs, BundlePCs, DynamicPCs, Script
  <2>3. BundleKnows'
    BY <2>1, ResourceFacts, FaultsAssumption DEF BundleKnows, Typed, TypeOK, Script,
       Command
  <2>4. DynamicKnows'
    BY <2>1, ResourceFacts, FaultsAssumption DEF DynamicKnows, Typed, TypeOK
  <2>5. Leased'
    BY <2>1, ResourceFacts, FaultsAssumption DEF Leased, BundleKnows, DynamicKnows,
       Undisturbed, Recorded, RunningIsLeased, Typed, TypeOK, Workers
  <2>6. RunningIsLeased'
    BY <2>1, ResourceFacts, FaultsAssumption DEF Leased, BundleKnows, DynamicKnows,
       Undisturbed, Recorded, RunningIsLeased, Typed, TypeOK, Workers
  <2> QED BY <2>2, <2>3, <2>4, <2>5, <2>6
<1>17. CASE Record
  <2>1. /\ owner.kind = "dynamic" /\ owner.pc = "record"
        /\ owner' \in Workers
        /\ owner'.kind = owner.kind /\ owner'.pc = "evidence" /\ owner'.known = owner.known
        /\ owner'.todo = owner.todo /\ owner'.failed = owner.failed /\ owner'.verdict = owner.verdict
        /\ run' \in Runs /\ run'.killed = run.killed /\ run'.outcome = run.outcome
        /\ run'.status = "completed" /\ ~run.killed => ~owner.failed /\ run.outcome # "no volume"
        /\ busy' \in BOOLEAN
        /\ UNCHANGED <<docker, up, row, scan, janitor, overtaken, faults>>
        /\ UNCHANGED bundle
    <3>1. /\ owner.kind = "dynamic" /\ owner.pc = "record"
      BY <1>17 DEF Record, In
    <3>2. /\ owner' \in Workers
          /\ owner'.kind = owner.kind /\ owner'.pc = "evidence" /\ owner'.known = owner.known
          /\ owner'.todo = owner.todo /\ owner'.failed = owner.failed /\ owner'.verdict = owner.verdict
      BY <1>17, ResourceFacts DEF Record, In, Goes, Workers, BundlePCs, DynamicPCs,
         Typed, ScriptCommands
    <3>3. /\ run' \in Runs /\ run'.killed = run.killed /\ run'.outcome = run.outcome
          /\ run'.status = "completed" /\ ~run.killed => ~owner.failed /\ run.outcome # "no volume"
      BY ZenonT(60), <1>17 DEF Record, In, Status, FinalStatus, hasDockerError,
         evaluateDynamicOutcome, Result, DynamicKinds, Runs, Terminal, Typed, Outcomes
    <3>4. /\ busy' \in BOOLEAN
      BY <1>17 DEF Record, In, Status
    <3>5. /\ UNCHANGED <<docker, up, row, scan, janitor, overtaken, faults>>
      BY <1>17 DEF Record, In
    <3>6. /\ UNCHANGED bundle
      BY <1>17 DEF Record, In
    <3> QED BY <3>1, <3>2, <3>3, <3>4, <3>5, <3>6
  <2>2. Typed'
    BY ZenonT(60), <2>1, ResourceFacts, FaultsAssumption DEF Typed, TypeOK,
        Workers, Leases,
       Janitors, Bundles, Runs, BundlePCs, DynamicPCs, Script
  <2>3. BundleKnows'
    BY <2>1, ResourceFacts, FaultsAssumption DEF BundleKnows, Typed, TypeOK, Script,
       Command
  <2>4. DynamicKnows'
    BY <2>1, ResourceFacts, FaultsAssumption DEF DynamicKnows, Typed, TypeOK
  <2>5. Leased'
    BY <2>1, ResourceFacts, FaultsAssumption DEF Leased, BundleKnows, DynamicKnows,
       Undisturbed, Recorded, RunningIsLeased, Typed, TypeOK, Workers
  <2>6. RunningIsLeased'
    BY <2>1, ResourceFacts, FaultsAssumption DEF Leased, BundleKnows, DynamicKnows,
       Undisturbed, Recorded, RunningIsLeased, Typed, TypeOK, Workers
  <2> QED BY <2>2, <2>3, <2>4, <2>5, <2>6
<1>18. CASE RecordThrows
  <2>1. /\ owner.kind = "dynamic" /\ owner.pc = "record"
        /\ owner' \in Workers
        /\ owner'.kind = owner.kind /\ owner'.pc = "catch" /\ owner'.known = owner.known
        /\ owner'.todo = owner.todo /\ owner'.failed = owner.failed /\ owner'.verdict = owner.verdict
        /\ faults' \in 0 .. MaxFaults
        /\ UNCHANGED <<docker, up, row, scan, busy, janitor, overtaken, run>>
        /\ UNCHANGED bundle
    BY <1>18, FaultsAssumption DEF RecordThrows, In, Goes, Fault, NoFault, TypeOK,
       Typed, Workers, BundlePCs, DynamicPCs
  <2>2. Typed'
    BY <2>1, ResourceFacts, FaultsAssumption DEF Typed, TypeOK, Workers, Leases,
       Janitors, Bundles, Runs, BundlePCs, DynamicPCs, Script
  <2>3. BundleKnows'
    BY <2>1, ResourceFacts, FaultsAssumption DEF BundleKnows, Typed, TypeOK, Script,
       Command
  <2>4. DynamicKnows'
    BY <2>1, ResourceFacts, FaultsAssumption DEF DynamicKnows, Typed, TypeOK
  <2>5. Leased'
    BY <2>1, ResourceFacts, FaultsAssumption DEF Leased, BundleKnows, DynamicKnows,
       Undisturbed, Recorded, RunningIsLeased, Typed, TypeOK, Workers
  <2>6. RunningIsLeased'
    BY <2>1, ResourceFacts, FaultsAssumption DEF Leased, BundleKnows, DynamicKnows,
       Undisturbed, Recorded, RunningIsLeased, Typed, TypeOK, Workers
  <2> QED BY <2>2, <2>3, <2>4, <2>5, <2>6
<1>19. CASE Evidence
  <2>1. /\ owner.kind = "dynamic" /\ owner.pc = "evidence"
        /\ owner' \in Workers
        /\ owner'.kind = owner.kind
        /\ owner'.pc = "finally"
        /\ owner'.known = owner.known
        /\ owner'.todo = owner.todo
        /\ owner'.failed = owner.failed
        /\ owner'.verdict = (IF run.status = "completed" THEN "ok" ELSE "error")
        /\ UNCHANGED <<docker, up, row, scan, busy, janitor, overtaken, faults, run>>
        /\ UNCHANGED bundle
    BY <1>19, FaultsAssumption DEF Evidence, In, TypeOK, Typed, Workers, BundlePCs,
       DynamicPCs
  <2>2. Typed'
    BY <2>1, ResourceFacts, FaultsAssumption DEF Typed, TypeOK, Workers, Leases,
       Janitors, Bundles, Runs, BundlePCs, DynamicPCs, Script
  <2>3. BundleKnows'
    BY <2>1, ResourceFacts, FaultsAssumption DEF BundleKnows, Typed, TypeOK, Script,
       Command
  <2>4. DynamicKnows'
    BY <2>1, ResourceFacts, FaultsAssumption DEF DynamicKnows, Typed, TypeOK
  <2>5. Leased'
    BY <2>1, ResourceFacts, FaultsAssumption DEF Leased, BundleKnows, DynamicKnows,
       Undisturbed, Recorded, RunningIsLeased, Typed, TypeOK, Workers
  <2>6. RunningIsLeased'
    BY <2>1, ResourceFacts, FaultsAssumption DEF Leased, BundleKnows, DynamicKnows,
       Undisturbed, Recorded, RunningIsLeased, Typed, TypeOK, Workers
  <2> QED BY <2>2, <2>3, <2>4, <2>5, <2>6
<1>20. CASE EvidenceThrows
  <2>1. /\ owner.kind = "dynamic" /\ owner.pc = "evidence"
        /\ owner' \in Workers
        /\ owner'.kind = owner.kind /\ owner'.pc = "catch" /\ owner'.known = owner.known
        /\ owner'.todo = owner.todo /\ owner'.failed = owner.failed /\ owner'.verdict = owner.verdict
        /\ faults' \in 0 .. MaxFaults
        /\ UNCHANGED <<docker, up, row, scan, busy, janitor, overtaken, run>>
        /\ UNCHANGED bundle
    BY <1>20, FaultsAssumption DEF EvidenceThrows, In, Goes, Fault, NoFault, TypeOK,
       Typed, Workers, BundlePCs, DynamicPCs
  <2>2. Typed'
    BY <2>1, ResourceFacts, FaultsAssumption DEF Typed, TypeOK, Workers, Leases,
       Janitors, Bundles, Runs, BundlePCs, DynamicPCs, Script
  <2>3. BundleKnows'
    BY <2>1, ResourceFacts, FaultsAssumption DEF BundleKnows, Typed, TypeOK, Script,
       Command
  <2>4. DynamicKnows'
    BY <2>1, ResourceFacts, FaultsAssumption DEF DynamicKnows, Typed, TypeOK
  <2>5. Leased'
    BY <2>1, ResourceFacts, FaultsAssumption DEF Leased, BundleKnows, DynamicKnows,
       Undisturbed, Recorded, RunningIsLeased, Typed, TypeOK, Workers
  <2>6. RunningIsLeased'
    BY <2>1, ResourceFacts, FaultsAssumption DEF Leased, BundleKnows, DynamicKnows,
       Undisturbed, Recorded, RunningIsLeased, Typed, TypeOK, Workers
  <2> QED BY <2>2, <2>3, <2>4, <2>5, <2>6
<1>21. CASE Catch
  <2>1. /\ owner.kind = "dynamic" /\ owner.pc = "catch"
        /\ owner' \in Workers
        /\ owner'.kind = owner.kind /\ owner'.pc = "finally" /\ owner'.known = owner.known
        /\ owner'.todo = owner.todo /\ owner'.failed = owner.failed /\ owner'.verdict = "error"
        /\ run' \in Runs /\ run'.killed = run.killed /\ run'.outcome = run.outcome
        /\ busy' \in BOOLEAN
        /\ faults' \in 0 .. MaxFaults
        /\ UNCHANGED <<docker, up, row, scan, janitor, overtaken>>
        /\ UNCHANGED bundle
    <3>1. /\ owner.kind = "dynamic" /\ owner.pc = "catch"
      BY <1>21 DEF Catch, In
    <3>2. /\ owner' \in Workers
          /\ owner'.kind = owner.kind /\ owner'.pc = "finally" /\ owner'.known = owner.known
          /\ owner'.todo = owner.todo /\ owner'.failed = owner.failed /\ owner'.verdict = "error"
      BY <1>21, ResourceFacts DEF Catch, In, Workers, BundlePCs, DynamicPCs, Typed,
         ScriptCommands
    <3>3. /\ run' \in Runs /\ run'.killed = run.killed /\ run'.outcome = run.outcome
      BY <1>21 DEF Catch, In, Status, Runs, Terminal, Typed, Outcomes
    <3>4. /\ busy' \in BOOLEAN
      <4>1. busy' = busy \/ Status("failed")
        BY <1>21 DEF Catch
      <4> QED BY <4>1 DEF Status, Typed, TypeOK
    <3>5. /\ faults' \in 0 .. MaxFaults
      BY <1>21, FaultsAssumption DEF Catch, In, Fault, NoFault, Typed, TypeOK
    <3>6. /\ UNCHANGED <<docker, up, row, scan, janitor, overtaken>>
      BY <1>21 DEF Catch, In
    <3>7. /\ UNCHANGED bundle
      BY <1>21 DEF Catch, In
    <3> QED BY <3>1, <3>2, <3>3, <3>4, <3>5, <3>6, <3>7
  <2>2. Typed'
    BY <2>1, ResourceFacts, FaultsAssumption DEF Typed, TypeOK, Workers, Leases,
       Janitors, Bundles, Runs, BundlePCs, DynamicPCs, Script
  <2>3. BundleKnows'
    BY <2>1, ResourceFacts, FaultsAssumption DEF BundleKnows, Typed, TypeOK, Script,
       Command
  <2>4. DynamicKnows'
    BY <2>1, ResourceFacts, FaultsAssumption DEF DynamicKnows, Typed, TypeOK
  <2>5. Leased'
    BY <2>1, ResourceFacts, FaultsAssumption DEF Leased, BundleKnows, DynamicKnows,
       Undisturbed, Recorded, RunningIsLeased, Typed, TypeOK, Workers
  <2>6. RunningIsLeased'
    BY <2>1, ResourceFacts, FaultsAssumption DEF Leased, BundleKnows, DynamicKnows,
       Undisturbed, Recorded, RunningIsLeased, Typed, TypeOK, Workers
  <2> QED BY <2>2, <2>3, <2>4, <2>5, <2>6
<1>22. CASE Finally
  <2>1. /\ owner.kind = "dynamic" /\ owner.pc = "finally"
        /\ \/ /\ owner' \in Workers
              /\ owner'.kind = owner.kind /\ owner'.pc = "finalize" /\ owner'.known = owner.known
              /\ owner'.todo = owner.todo /\ owner'.failed = owner.failed /\ owner'.verdict = owner.verdict
           \/ /\ owner' \in Workers
              /\ owner'.kind = owner.kind /\ owner'.pc = "gone" /\ owner'.known = owner.known
              /\ owner'.todo = owner.todo /\ owner'.failed = owner.failed /\ owner'.verdict = owner.verdict
        /\ \/ /\ row' = row
           \/ /\ row' \in Leases
              /\ row'.state = (IF row.state = "none" THEN "none" ELSE "released")
              /\ row'.receipt = (IF row.state = "none" THEN row.receipt ELSE {})
              /\ row'.expired = row.expired
        /\ faults' \in 0 .. MaxFaults
        /\ UNCHANGED <<docker, up, scan, busy, janitor, overtaken, run>>
        /\ UNCHANGED bundle
    <3>1. /\ owner.kind = "dynamic" /\ owner.pc = "finally"
      BY <1>22 DEF Finally, In
    <3>2. /\ \/ /\ owner' \in Workers
                /\ owner'.kind = owner.kind /\ owner'.pc = "finalize" /\ owner'.known = owner.known
                /\ owner'.todo = owner.todo /\ owner'.failed = owner.failed /\ owner'.verdict = owner.verdict
             \/ /\ owner' \in Workers
                /\ owner'.kind = owner.kind /\ owner'.pc = "gone" /\ owner'.known = owner.known
                /\ owner'.todo = owner.todo /\ owner'.failed = owner.failed /\ owner'.verdict = owner.verdict
      BY <1>22, ResourceFacts DEF Finally, In, Goes, Workers, BundlePCs, DynamicPCs,
         Typed, ScriptCommands
    <3>3. /\ \/ /\ row' = row
             \/ /\ row' \in Leases
                /\ row'.state = (IF row.state = "none" THEN "none" ELSE "released")
                /\ row'.receipt = (IF row.state = "none" THEN row.receipt ELSE {})
                /\ row'.expired = row.expired
      BY <1>22, SettledFacts DEF Finally, In, Released, Leases, Typed
    <3>4. /\ faults' \in 0 .. MaxFaults
      BY <1>22, FaultsAssumption DEF Finally, In, Fault, NoFault, Typed, TypeOK
    <3>5. /\ UNCHANGED <<docker, up, scan, busy, janitor, overtaken, run>>
      BY <1>22 DEF Finally, In
    <3>6. /\ UNCHANGED bundle
      BY <1>22 DEF Finally, In
    <3> QED BY <3>1, <3>2, <3>3, <3>4, <3>5, <3>6
  <2>2. Typed'
    BY <2>1, ResourceFacts, FaultsAssumption DEF Typed, TypeOK, Workers, Leases,
       Janitors, Bundles, Runs, BundlePCs, DynamicPCs, Script
  <2>3. BundleKnows'
    BY <2>1, ResourceFacts, FaultsAssumption DEF BundleKnows, Typed, TypeOK, Script,
       Command
  <2>4. DynamicKnows'
    BY <2>1, ResourceFacts, FaultsAssumption DEF DynamicKnows, Typed, TypeOK
  <2>5. Leased'
    BY <2>1, ResourceFacts, FaultsAssumption DEF Leased, BundleKnows, DynamicKnows,
       Undisturbed, Recorded, RunningIsLeased, Typed, TypeOK, Workers
  <2>6. RunningIsLeased'
    <3>1. ~owner.failed => up = {}
      BY <2>1, ResourceFacts DEF DynamicKnows, Typed, TypeOK
    <3> QED BY <2>1, <3>1 DEF RunningIsLeased, Recorded, Undisturbed, Typed, Workers
  <2> QED BY <2>2, <2>3, <2>4, <2>5, <2>6
<1>23. CASE finalizeTemporaryWorkspace
  <2>1. /\ owner.kind = "dynamic" /\ owner.pc = "finalize"
        /\ owner' \in Workers
        /\ owner'.kind = owner.kind /\ owner'.pc = "gone" /\ owner'.known = owner.known
        /\ owner'.todo = owner.todo /\ owner'.failed = owner.failed /\ owner'.verdict = owner.verdict
        /\ UNCHANGED <<docker, up, row, scan, busy, janitor, overtaken, faults, run>>
        /\ UNCHANGED bundle
    BY <1>23, FaultsAssumption DEF finalizeTemporaryWorkspace, In, Goes, TypeOK, Typed,
       Workers, BundlePCs, DynamicPCs
  <2>2. Typed'
    BY <2>1, ResourceFacts, FaultsAssumption DEF Typed, TypeOK, Workers, Leases,
       Janitors, Bundles, Runs, BundlePCs, DynamicPCs, Script
  <2>3. BundleKnows'
    BY <2>1, ResourceFacts, FaultsAssumption DEF BundleKnows, Typed, TypeOK, Script,
       Command
  <2>4. DynamicKnows'
    BY <2>1, ResourceFacts, FaultsAssumption DEF DynamicKnows, Typed, TypeOK
  <2>5. Leased'
    BY <2>1, ResourceFacts, FaultsAssumption DEF Leased, BundleKnows, DynamicKnows,
       Undisturbed, Recorded, RunningIsLeased, Typed, TypeOK, Workers
  <2>6. RunningIsLeased'
    BY <2>1, ResourceFacts, FaultsAssumption DEF Leased, BundleKnows, DynamicKnows,
       Undisturbed, Recorded, RunningIsLeased, Typed, TypeOK, Workers
  <2> QED BY <2>2, <2>3, <2>4, <2>5, <2>6
<1>24. CASE FinalizeThrows
  <2>1. /\ owner.kind = "dynamic" /\ owner.pc = "finalize"
        /\ owner' \in Workers
        /\ owner'.kind = owner.kind /\ owner'.pc = "gone" /\ owner'.known = owner.known
        /\ owner'.todo = owner.todo /\ owner'.failed = owner.failed /\ owner'.verdict = "error"
        /\ run' \in Runs /\ run'.killed = run.killed /\ run'.outcome = run.outcome
        /\ busy' \in BOOLEAN
        /\ faults' \in 0 .. MaxFaults
        /\ UNCHANGED <<docker, up, row, scan, janitor, overtaken>>
        /\ UNCHANGED bundle
    <3>1. /\ owner.kind = "dynamic" /\ owner.pc = "finalize"
      BY <1>24 DEF FinalizeThrows, In
    <3>2. /\ owner' \in Workers
          /\ owner'.kind = owner.kind /\ owner'.pc = "gone" /\ owner'.known = owner.known
          /\ owner'.todo = owner.todo /\ owner'.failed = owner.failed /\ owner'.verdict = "error"
      BY <1>24, ResourceFacts DEF FinalizeThrows, In, Ends, Workers, BundlePCs,
         DynamicPCs, Typed, ScriptCommands
    <3>3. /\ run' \in Runs /\ run'.killed = run.killed /\ run'.outcome = run.outcome
      BY <1>24 DEF FinalizeThrows, In, Status, Runs, Terminal, Typed, Outcomes
    <3>4. /\ busy' \in BOOLEAN
      <4>1. busy' = busy \/ Status("failed")
        BY <1>24 DEF FinalizeThrows
      <4> QED BY <4>1 DEF Status, Typed, TypeOK
    <3>5. /\ faults' \in 0 .. MaxFaults
      BY <1>24, FaultsAssumption DEF FinalizeThrows, In, Fault, NoFault, Typed, TypeOK
    <3>6. /\ UNCHANGED <<docker, up, row, scan, janitor, overtaken>>
      BY <1>24 DEF FinalizeThrows, In
    <3>7. /\ UNCHANGED bundle
      BY <1>24 DEF FinalizeThrows, In
    <3> QED BY <3>1, <3>2, <3>3, <3>4, <3>5, <3>6, <3>7
  <2>2. Typed'
    BY <2>1, ResourceFacts, FaultsAssumption DEF Typed, TypeOK, Workers, Leases,
       Janitors, Bundles, Runs, BundlePCs, DynamicPCs, Script
  <2>3. BundleKnows'
    BY <2>1, ResourceFacts, FaultsAssumption DEF BundleKnows, Typed, TypeOK, Script,
       Command
  <2>4. DynamicKnows'
    BY <2>1, ResourceFacts, FaultsAssumption DEF DynamicKnows, Typed, TypeOK
  <2>5. Leased'
    BY <2>1, ResourceFacts, FaultsAssumption DEF Leased, BundleKnows, DynamicKnows,
       Undisturbed, Recorded, RunningIsLeased, Typed, TypeOK, Workers
  <2>6. RunningIsLeased'
    BY <2>1, ResourceFacts, FaultsAssumption DEF Leased, BundleKnows, DynamicKnows,
       Undisturbed, Recorded, RunningIsLeased, Typed, TypeOK, Workers
  <2> QED BY <2>2, <2>3, <2>4, <2>5, <2>6
<1> QED BY <1>1, <1>2, <1>3, <1>4, <1>5, <1>6, <1>7, <1>8, <1>9, <1>10, <1>11, <1>12,
        <1>13, <1>14, <1>15, <1>16, <1>17, <1>18, <1>19, <1>20, <1>21, <1>22, <1>23,
        <1>24 DEF DynamicNext


\* The invariant holds in every reachable state
THEOREM LeasedInvariant == Spec => []LeasedInv
<1>1. Init => LeasedInv
  <2> SUFFICES ASSUME Init PROVE LeasedInv
    OBVIOUS
  <2>1. /\ bundle \in Bundles /\ bundle.pos = 1 /\ ~bundle.stopping
        /\ run \in Runs /\ run.status = "none" /\ run.outcome = "none"
    <3>1. bundle \in [database : Modes, pos : {1}, stopping : {FALSE}]
      BY DEF Init, BundleInit
    <3>2. run \in [kind : DynamicKinds, status : {"none"}, leased : {FALSE}, outDir : {FALSE},
                   killed : {FALSE}, outcome : {"none"}]
      BY DEF Init, DynamicInit
    <3>3. bundle \in Bundles /\ bundle.pos = 1 /\ ~bundle.stopping
      <4>1. bundle.pos \in {1} /\ bundle.stopping \in {FALSE} /\ bundle.database \in Modes
        BY <3>1
      <4>2. bundle = [database |-> bundle.database, pos |-> bundle.pos, stopping |-> bundle.stopping]
        BY <3>1
      <4>3. bundle.pos = 1 /\ bundle.pos \in Nat
        BY <4>1
      <4>4. bundle.stopping = FALSE
        BY <4>1
      <4> QED BY <4>1, <4>2, <4>3, <4>4 DEF Bundles
    <3> QED BY <3>2, <3>3 DEF Runs, Outcomes
  <2>2. Len(Script) \in Nat
    <3>1. Script \in Begun
      BY <2>1, ScriptsAreBegun DEF Script, Bundles
    <3> QED BY <3>1 DEF Begun
  <2>3. /\ owner \in Workers /\ owner.pc = "idle" /\ owner.verdict = "none"
        /\ owner.known = {} /\ owner.todo = {} /\ ~owner.failed
    <3>1. owner = Idle("bundle") \/ owner = Idle("dynamic")
      BY DEF Init
    <3>2. PICK kind \in {"bundle", "dynamic"} : owner = Idle(kind)
      BY <3>1
    <3>3. /\ owner = [kind |-> kind, pc |-> "idle", known |-> {}, todo |-> {},
                     failed |-> FALSE, verdict |-> "none"]
          /\ {} \in SUBSET Resources /\ "idle" \in BundlePCs
      BY <3>2 DEF Idle, BundlePCs
    <3> QED BY <3>3 DEF Workers
  <2>4. /\ docker = {} /\ up = {} /\ scan = "present" /\ faults = 0
        /\ busy = FALSE /\ overtaken = FALSE
        /\ row \in Leases /\ row.state = "none" /\ ~row.expired
        /\ janitor \in Janitors /\ janitor.pc = "idle" /\ janitor.todo = {}
    BY DEF Init, NoLease, Resting, Leases, Janitors
  <2>5. Typed
    <3>1. faults \in 0 .. MaxFaults /\ bundle.pos \in 1 .. Len(Script) + 1
      BY <2>1, <2>2, <2>4, FaultsAssumption
    <3>2. owner.kind \in {"bundle", "dynamic"} /\ owner.pc \in BundlePCs \cap DynamicPCs
      BY <2>3 DEF Workers, BundlePCs, DynamicPCs
    <3> QED BY <2>1, <2>3, <2>4, <3>1, <3>2 DEF Typed, TypeOK, Leases, Outcomes
  <2>6. BundleKnows /\ DynamicKnows
    BY <2>1, <2>3, <2>4 DEF BundleKnows, DynamicKnows
  <2>7. Leased /\ RunningIsLeased
    BY <2>3, <2>4 DEF Leased, RunningIsLeased, Recorded
  <2> QED BY <2>5, <2>6, <2>7 DEF LeasedInv
<1>2. LeasedInv /\ [Next]_vars => LeasedInv'
  <2> SUFFICES ASSUME LeasedInv, [Next]_vars PROVE LeasedInv'
    OBVIOUS
  <2>1. CASE Environment /\ UNCHANGED <<bundle, run>>
    BY <2>1, EnvironmentStep
  <2>2. CASE BundleNext /\ UNCHANGED run
    BY <2>2, BundleStep
  <2>3. CASE DynamicNext /\ UNCHANGED bundle
    BY <2>3, DynamicStep
  <2>4. CASE UNCHANGED vars
    <3> USE <2>4 DEF LeasedInv, vars, leaseVars
    <3>1. Typed'
      BY DEF Typed, TypeOK, Script
    <3>2. BundleKnows' /\ DynamicKnows'
      BY DEF BundleKnows, DynamicKnows, Script, Command
    <3>3. Leased' /\ RunningIsLeased'
      BY DEF Leased, RunningIsLeased, Recorded, Undisturbed
    <3> QED BY <3>1, <3>2, <3>3
  <2> QED BY <2>1, <2>2, <2>3, <2>4 DEF Next
<1> QED BY <1>1, <1>2, PTL DEF Spec

\* The types of all variables, for any number of faults; a worker that has
\* ended has told its caller how
THEOREM LeasedTypeCorrect == Spec => []TypeOK
<1>1. LeasedInv => TypeOK
  BY DEF LeasedInv, Typed
<1> QED BY <1>1, LeasedInvariant, PTL

\* A container is never running without a lease that leads to it, whatever
\* command or database call fails and wherever the worker dies
THEOREM WhatRunsIsLeased == Spec => []RunningIsLeased
<1>1. LeasedInv => RunningIsLeased
  BY DEF LeasedInv
<1> QED BY <1>1, LeasedInvariant, PTL

\* What reports success has left nothing behind, whatever the janitor removed
\* under it and although the lease expired or the scan was deleted
THEOREM SuccessIsClean == Spec => []SuccessLeavesNothing
<1>1. LeasedInv => SuccessLeavesNothing
  BY DEF LeasedInv, Typed, Workers, BundleKnows, DynamicKnows, SuccessLeavesNothing
<1> QED BY <1>1, LeasedInvariant, PTL
=============================================================================

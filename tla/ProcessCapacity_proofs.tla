------------------------ MODULE ProcessCapacity_proofs ------------------------
(***************************************************************************)
(* Proofs about ProcessCapacity for every finite set of callers, every     *)
(* pair of positive caps and every set of configurable limits.             *)
(*                                                                         *)
(* ActiveIsHeld and NoStrandedWaiter are not inductive by themselves: a    *)
(* dispatch must be known to hand leases only to requests that wait and    *)
(* hold nothing.  QueueConsistent says that the array holds every waiting  *)
(* request, and apart from them only aborted ones.                         *)
(***************************************************************************)
EXTENDS ProcessCapacity, FiniteSetTheorems, TLAPS

\* Every waiting caller is in the array, and what is in the array waits or
\* has been aborted.
QueueConsistent ==
  /\ \A r \in Requests : req[r] = "waiting" => r \in waiters
  /\ \A r \in waiters : req[r] \in {"waiting", "aborted"}

CapInv == TypeOK /\ QueueConsistent /\ ActiveIsHeld /\ NoStrandedWaiter

-----------------------------------------------------------------------------
\* boundedLimit always yields a usable limit between 1 and its maximum.
LEMMA LimitsPositive ==
  ASSUME TypeOK
  PROVE  /\ concurrency \in Nat /\ concurrency >= 1
         /\ concurrency <= ConcurrencyCap
         /\ queueLimit \in Nat /\ queueLimit >= 1
<1>1. config.concurrency \in Int /\ config.queueLimit \in Int
  BY ConfigurableIntegers DEF TypeOK, Limits
<1>2. \A v \in Int, cap \in Nat \ {0} :
        /\ boundedLimit(v, cap) \in Nat
        /\ boundedLimit(v, cap) >= 1 /\ boundedLimit(v, cap) <= cap
  BY DEF boundedLimit
<1>3. QED
  BY <1>1, <1>2, CapsPositive DEF concurrency, queueLimit

\* dispatchWaiters resolves requests that wait, hence hold nothing, and stops
\* early only when nobody is left.
LEMMA DispatchFacts ==
  ASSUME CapInv, NEW busy \in Nat, NEW G \in SUBSET Requests,
         dispatchWaiters(busy, G)
  PROVE  /\ IsFiniteSet(Held) /\ IsFiniteSet(G)
         /\ Cardinality(G) \in Nat
         /\ compactWaiters = Waiting
         /\ G \subseteq Waiting
         /\ G \cap Held = {}
         /\ Cardinality(Held \cup G) = active + Cardinality(G)
         /\ busy + Cardinality(G) >= concurrency \/ G = Waiting
<1>1. compactWaiters = Waiting
  BY DEF CapInv, TypeOK, QueueConsistent, Waiting, compactWaiters, liveWaiters
<1>2. G \subseteq Waiting /\ G \cap Held = {}
  BY <1>1 DEF dispatchWaiters, Waiting, Held
<1>3. IsFiniteSet(Held) /\ IsFiniteSet(G) /\ IsFiniteSet({})
  BY RequestsFinite, FS_Subset, FS_EmptySet DEF Held
<1>4. Cardinality(G) \in Nat /\ Cardinality(Held) \in Nat
  BY <1>3, FS_CardinalityType
<1>5. Cardinality(Held \cup G) = Cardinality(Held) + Cardinality(G)
  <2>1. Held \cap G = {}
    BY <1>2
  <2>2. Cardinality(Held \cup G)
          = Cardinality(Held) + Cardinality(G) - Cardinality(Held \cap G)
    BY <1>3, FS_Union
  <2>3. QED
    BY <1>4, <2>1, <2>2, FS_EmptySet
<1>6. busy + Cardinality(G) >= concurrency \/ G = Waiting
  BY <1>1 DEF dispatchWaiters
<1>7. QED
  BY <1>1, <1>2, <1>3, <1>4, <1>5, <1>6 DEF CapInv, ActiveIsHeld

-----------------------------------------------------------------------------
\* The gate is created empty, with limits in their ranges.
LEMMA InitCapInv == Init => CapInv
<1> SUFFICES ASSUME Init PROVE CapInv
  OBVIOUS
<1>1. Held = {} /\ Waiting = {}
  BY DEF Init, Held, Waiting
<1>2. TypeOK
  BY DEF Init, TypeOK, RequestStates
<1>3. ActiveIsHeld
  BY <1>1, FS_EmptySet DEF Init, ActiveIsHeld
<1>4. QED
  BY <1>1, <1>2, <1>3 DEF Init, CapInv, QueueConsistent, NoStrandedWaiter

\* The lease a successful tryAcquire hands to its caller.
LEMMA AdmitStep ==
  ASSUME CapInv, NEW r \in Requests, req[r] = "idle",
         NEW G \in SUBSET Requests, dispatchWaiters(active, G), Admit(r, G)
  PROVE  CapInv'
<1> USE DEF CapInv
<1>1. active \in Nat
  BY DEF TypeOK
<1>2. /\ IsFiniteSet(Held) /\ IsFiniteSet(G) /\ Cardinality(G) \in Nat
      /\ compactWaiters = Waiting /\ G \subseteq Waiting
      /\ Cardinality(Held \cup G) = active + Cardinality(G)
  BY <1>1, DispatchFacts
<1>3. Waiting' = {} /\ waiters' = {} /\ G = Waiting
  BY <1>2 DEF Admit, Resolved, Waiting
<1>4. TypeOK'
  BY <1>1, <1>2, <1>3 DEF Admit, Resolved, TypeOK, RequestStates
<1>5. Held' = (Held \cup G) \cup {r} /\ r \notin Held \cup G
  BY <1>2 DEF Admit, Resolved, Held, Waiting
<1>6. ActiveIsHeld'
  <2>1. IsFiniteSet(Held \cup G)
    BY <1>2, FS_Union
  <2>2. Cardinality((Held \cup G) \cup {r}) = Cardinality(Held \cup G) + 1
    BY <1>5, <2>1, FS_AddElement
  <2>3. QED
    BY <1>1, <1>2, <1>5, <2>2 DEF Admit, ActiveIsHeld
<1>7. QueueConsistent'
  BY <1>3 DEF QueueConsistent, Waiting
<1>8. NoStrandedWaiter'
  BY <1>3 DEF NoStrandedWaiter
<1>9. QED
  BY <1>4, <1>6, <1>7, <1>8

\* A caller that got no lease: the waiters in G were dispatched, the caller is
\* refused or joins the queue.
LEMMA DeclinedStep ==
  ASSUME CapInv, NEW r \in Requests, req[r] = "idle",
         NEW G \in SUBSET Requests, dispatchWaiters(active, G), Declined(G),
         active' = active + Cardinality(G), config' = config,
         \/ /\ waiters' = compactWaiters \ G
            /\ req' = [Resolved(G) EXCEPT ![r] = "refused"]
            /\ UNCHANGED <<arrival, pushed>>
         \/ /\ waiters' = (compactWaiters \ G) \cup {r}
            /\ req' = [Resolved(G) EXCEPT ![r] = "waiting"]
            /\ arrival' = [arrival EXCEPT ![r] = pushed + 1]
            /\ pushed' = pushed + 1
  PROVE  CapInv'
<1> USE DEF CapInv
<1>1. active \in Nat /\ pushed \in Nat
  BY DEF TypeOK
<1>2. /\ IsFiniteSet(Held) /\ IsFiniteSet(G) /\ Cardinality(G) \in Nat
      /\ compactWaiters = Waiting /\ G \subseteq Waiting
      /\ Cardinality(Held \cup G) = active + Cardinality(G)
      /\ active + Cardinality(G) >= concurrency \/ G = Waiting
  BY <1>1, DispatchFacts
<1>3. TypeOK'
  <2>1. req' \in [Requests -> RequestStates] /\ waiters' \subseteq Requests
    BY <1>2 DEF Resolved, TypeOK, RequestStates, Waiting
  <2>2. arrival' \in [Requests -> Nat] /\ pushed' \in Nat /\ active' \in Nat
    BY <1>1, <1>2 DEF TypeOK
  <2>3. QED
    BY <2>1, <2>2 DEF TypeOK
<1>4. Held' = Held \cup G
  BY <1>2 DEF Resolved, Held, Waiting
<1>5. ActiveIsHeld'
  BY <1>2, <1>4 DEF ActiveIsHeld
<1>6. QueueConsistent'
  BY <1>2 DEF QueueConsistent, Resolved, Waiting
<1>7. NoStrandedWaiter'
  <2>1. active + Cardinality(G) >= concurrency
    BY <1>2 DEF Declined
  <2>2. QED
    BY <1>1, <1>2, <2>1, LimitsPositive DEF NoStrandedWaiter
<1>8. QED
  BY <1>3, <1>5, <1>6, <1>7

\* The first call of a release function.
LEMMA ReleaseStep ==
  ASSUME CapInv, NEW r \in Requests, req[r] = "held",
         NEW G \in SUBSET Requests, release(r, G)
  PROVE  CapInv'
<1> USE DEF CapInv
<1> DEFINE freed == IF active > 0 THEN active - 1 ELSE 0
<1>1. freed \in Nat /\ active \in Nat
  BY DEF TypeOK
<1>2. dispatchWaiters(freed, G)
  BY DEF release
<1>3. /\ IsFiniteSet(Held) /\ IsFiniteSet(G) /\ Cardinality(G) \in Nat
      /\ compactWaiters = Waiting /\ G \subseteq Waiting
      /\ Cardinality(Held \cup G) = active + Cardinality(G)
      /\ freed + Cardinality(G) >= concurrency \/ G = Waiting
  <2> HIDE DEF freed
  <2> QED
    BY <1>1, <1>2, DispatchFacts
<1>4. active > 0
  <2>1. r \in Held
    BY DEF Held
  <2>2. Cardinality(Held) # 0
    BY <1>3, <2>1, FS_EmptySet
  <2>3. QED
    BY <1>1, <2>2 DEF ActiveIsHeld
<1>5. TypeOK'
  BY <1>1, <1>3 DEF release, Resolved, TypeOK, RequestStates, Waiting
<1>6. Held' = (Held \cup G) \ {r} /\ r \in Held \cup G
  BY <1>3 DEF release, Resolved, Held, Waiting
<1>7. ActiveIsHeld'
  <2>1. IsFiniteSet(Held \cup G)
    BY <1>3, FS_Union
  <2>2. Cardinality((Held \cup G) \ {r}) = Cardinality(Held \cup G) - 1
    BY <1>6, <2>1, FS_RemoveElement
  <2>3. QED
    BY <1>1, <1>3, <1>4, <1>6, <2>2 DEF release, ActiveIsHeld
<1>8. QueueConsistent'
  BY <1>3 DEF release, QueueConsistent, Resolved, Waiting
<1>9. NoStrandedWaiter'
  <2>1. Waiting' = Waiting \ G
    BY <1>3 DEF release, Resolved, Waiting
  <2>2. active' = freed + Cardinality(G)
    BY DEF release
  <2>3. QED
    BY <1>1, <1>3, <2>1, <2>2, LimitsPositive DEF NoStrandedWaiter
<1>10. QED
  BY <1>5, <1>7, <1>8, <1>9

\* A caller gives up: nothing is handed out.
LEMMA AbortStep ==
  ASSUME CapInv, NEW r \in Requests, AcquireAborted(r) \/ Abort(r)
  PROVE  CapInv'
<1> USE DEF CapInv, AcquireAborted, Abort
<1>1. TypeOK'
  BY DEF TypeOK, RequestStates
<1>2. Held' = Held /\ Waiting' \subseteq Waiting
  BY DEF TypeOK, RequestStates, Held, Waiting
<1>3. QueueConsistent'
  BY DEF QueueConsistent, TypeOK
<1>4. QED
  BY <1>1, <1>2, <1>3 DEF ActiveIsHeld, NoStrandedWaiter

\* Every call, and every stuttering step, keeps the invariant.
LEMMA NextCapInv == CapInv /\ [Next]_capVars => CapInv'
<1> SUFFICES ASSUME CapInv, [Next]_capVars PROVE CapInv'
  OBVIOUS
<1>1. ASSUME NEW r \in Requests, AcquireAborted(r) \/ Abort(r) PROVE CapInv'
  BY <1>1, AbortStep
<1>2. ASSUME NEW r \in Requests, TryAcquire(r) PROVE CapInv'
  <2>1. PICK G \in SUBSET Requests : TryAcquire(r)!2!(G)
    BY <1>2 DEF TryAcquire
  <2>2. CASE Admit(r, G)
    BY <1>2, <2>1, <2>2, AdmitStep DEF TryAcquire
  <2>3. CASE ~ Admit(r, G)
    BY <1>2, <2>1, <2>3, DeclinedStep DEF TryAcquire
  <2>4. QED
    BY <2>2, <2>3
<1>3. ASSUME NEW r \in Requests, Acquire(r) PROVE CapInv'
  <2>1. PICK G \in SUBSET Requests : Acquire(r)!2!(G)
    BY <1>3 DEF Acquire
  <2>2. CASE Admit(r, G)
    BY <1>3, <2>1, <2>2, AdmitStep DEF Acquire
  <2>3. CASE ~ Admit(r, G)
    BY <1>3, <2>1, <2>3, DeclinedStep DEF Acquire
  <2>4. QED
    BY <2>2, <2>3
<1>4. ASSUME NEW r \in Requests, Release(r) PROVE CapInv'
  <2>1. CASE req[r] = "held"
    BY <1>4, <2>1, ReleaseStep DEF Release
  <2>2. CASE UNCHANGED capVars
    BY <2>2 DEF capVars, CapInv, TypeOK, QueueConsistent, ActiveIsHeld,
                NoStrandedWaiter, Held, Waiting
  <2>3. QED
    BY <1>4, <2>1, <2>2 DEF Release
<1>5. CASE Reconfigure
  BY <1>5 DEF Reconfigure, CapInv, TypeOK, QueueConsistent, ActiveIsHeld,
              NoStrandedWaiter, Held, Waiting
<1>6. CASE UNCHANGED capVars
  BY <1>6 DEF capVars, CapInv, TypeOK, QueueConsistent, ActiveIsHeld,
              NoStrandedWaiter, Held, Waiting
<1>7. QED
  BY <1>1, <1>2, <1>3, <1>4, <1>5, <1>6 DEF Next

\* The strengthened invariant of the gate holds in every reachable state.
THEOREM CapInvariant == Spec => []CapInv
BY InitCapInv, NextCapInv, PTL DEF Spec

\* The values of the gate keep their types whatever the callers do.
THEOREM CapTypeCorrect == Spec => []TypeOK
<1>1. CapInv => TypeOK
  BY DEF CapInv
<1>2. QED
  BY <1>1, CapInvariant, PTL

\* The counter `active' always equals the number of leases that are out.
THEOREM CapAccounting == Spec => []ActiveIsHeld
<1>1. CapInv => ActiveIsHeld
  BY DEF CapInv
<1>2. QED
  BY <1>1, CapInvariant, PTL

\* Nobody waits at a gate that has no lease out.
THEOREM CapNoStrandedWaiter == Spec => []NoStrandedWaiter
<1>1. CapInv => NoStrandedWaiter
  BY DEF CapInv
<1>2. QED
  BY <1>1, CapInvariant, PTL

-----------------------------------------------------------------------------
(***************************************************************************)
(* The action properties: what a step that hands out leases looks like.    *)
(***************************************************************************)
WithinLimitStep == Held' \ Held # {} => active' <= concurrency

FifoStep ==
  \A r \in Held' \ Held :
    Waiting \cap Waiting' \subseteq
      {w \in Waiting : r \in Waiting /\ arrival[r] < arrival[w]}

NoSlotIdleStep ==
  (\E r \in Requests : req'[r] # req[r] /\ req'[r] # "aborted")
    => (Waiting' = {} \/ active' >= concurrency)

HandOut == WithinLimitStep /\ FifoStep /\ NoSlotIdleStep

\* A step that hands nothing out and is no call of the gate.
LEMMA SilentHandOut ==
  ASSUME Held' = Held,
         \A r \in Requests : req'[r] = req[r] \/ req'[r] = "aborted"
  PROVE  HandOut
BY DEF HandOut, WithinLimitStep, FifoStep, NoSlotIdleStep

\* A tryAcquire that succeeds hands its caller a lease ahead of nobody.
LEMMA AdmitHandOut ==
  ASSUME CapInv, NEW r \in Requests, req[r] = "idle",
         NEW G \in SUBSET Requests, dispatchWaiters(active, G), Admit(r, G)
  PROVE  HandOut
<1>1. active \in Nat
  BY DEF CapInv, TypeOK
<1>2. /\ Cardinality(G) \in Nat /\ compactWaiters = Waiting
      /\ concurrency \in Nat
  BY <1>1, DispatchFacts, LimitsPositive DEF CapInv
<1>3. Waiting' = {}
  BY <1>2 DEF Admit, Resolved, CapInv, TypeOK, Waiting
<1>4. active' <= concurrency
  BY <1>1, <1>2 DEF Admit
<1>5. QED
  BY <1>3, <1>4 DEF HandOut, WithinLimitStep, FifoStep, NoSlotIdleStep

\* Every other call: it dispatches the waiters in G, starting from `busy'
\* taken slots, and gives its own caller no lease.
LEMMA DispatchHandOut ==
  ASSUME CapInv, NEW busy \in Nat, NEW G \in SUBSET Requests,
         dispatchWaiters(busy, G),
         active' = busy + Cardinality(G),
         Held' \ Held \subseteq G,
         Waiting \cap Waiting' \subseteq Waiting \ G,
         Waiting' = {} \/ active' >= concurrency
  PROVE  HandOut
<1>1. /\ Cardinality(G) \in Nat /\ compactWaiters = Waiting
      /\ G \subseteq Waiting
  BY DispatchFacts
<1>2. WithinLimitStep
  BY DEF dispatchWaiters, WithinLimitStep
<1>3. FifoStep
  BY <1>1 DEF dispatchWaiters, FifoStep
<1>4. NoSlotIdleStep
  BY DEF NoSlotIdleStep
<1>5. QED
  BY <1>2, <1>3, <1>4 DEF HandOut

\* An acquire that is refused or queued hands out only what dispatch grants.
LEMMA DeclinedHandOut ==
  ASSUME CapInv, NEW r \in Requests, req[r] = "idle",
         NEW G \in SUBSET Requests, dispatchWaiters(active, G), Declined(G),
         active' = active + Cardinality(G),
         \/ req' = [Resolved(G) EXCEPT ![r] = "refused"]
         \/ req' = [Resolved(G) EXCEPT ![r] = "waiting"]
  PROVE  HandOut
<1>1. active \in Nat
  BY DEF CapInv, TypeOK
<1>2. /\ Cardinality(G) \in Nat /\ compactWaiters = Waiting
      /\ active + Cardinality(G) >= concurrency \/ G = Waiting
  BY <1>1, DispatchFacts
<1>3. active' >= concurrency
  BY <1>2 DEF Declined
<1>4. Held' \ Held \subseteq G /\ Waiting \cap Waiting' \subseteq Waiting \ G
  BY DEF Resolved, CapInv, TypeOK, Held, Waiting
<1>5. QED
  BY <1>1, <1>3, <1>4, DispatchHandOut

\* A release hands its slot to whoever has waited longest.
LEMMA ReleaseHandOut ==
  ASSUME CapInv, NEW r \in Requests, req[r] = "held",
         NEW G \in SUBSET Requests, release(r, G)
  PROVE  HandOut
<1> DEFINE freed == IF active > 0 THEN active - 1 ELSE 0
<1>1. freed \in Nat
  BY DEF CapInv, TypeOK
<1>2. dispatchWaiters(freed, G) /\ active' = freed + Cardinality(G)
  BY DEF release
<1> HIDE DEF freed
<1>3. /\ G \subseteq Waiting
      /\ freed + Cardinality(G) >= concurrency \/ G = Waiting
  BY <1>1, <1>2, DispatchFacts
<1>4. /\ Held' \ Held \subseteq G
      /\ Waiting \cap Waiting' \subseteq Waiting \ G
      /\ Waiting' = Waiting \ G
  BY <1>3 DEF release, Resolved, CapInv, TypeOK, Held, Waiting
<1>5. Waiting' = {} \/ active' >= concurrency
  BY <1>2, <1>3, <1>4
<1>6. QED
  BY <1>1, <1>2, <1>4, <1>5, DispatchHandOut

\* Every step hands out leases only in the way HandOut allows.
LEMMA NextHandOut == CapInv /\ [Next]_capVars => HandOut
<1> SUFFICES ASSUME CapInv, [Next]_capVars PROVE HandOut
  OBVIOUS
<1>1. ASSUME NEW r \in Requests, AcquireAborted(r) \/ Abort(r) PROVE HandOut
  <2>1. Held' = Held /\ \A q \in Requests : req'[q] = req[q] \/ req'[q] = "aborted"
    BY <1>1 DEF AcquireAborted, Abort, CapInv, TypeOK, Held
  <2>2. QED
    BY <2>1, SilentHandOut
<1>2. ASSUME NEW r \in Requests, TryAcquire(r) PROVE HandOut
  <2>1. PICK G \in SUBSET Requests : TryAcquire(r)!2!(G)
    BY <1>2 DEF TryAcquire
  <2>2. CASE Admit(r, G)
    BY <1>2, <2>1, <2>2, AdmitHandOut DEF TryAcquire
  <2>3. CASE ~ Admit(r, G)
    BY <1>2, <2>1, <2>3, DeclinedHandOut DEF TryAcquire
  <2>4. QED
    BY <2>2, <2>3
<1>3. ASSUME NEW r \in Requests, Acquire(r) PROVE HandOut
  <2>1. PICK G \in SUBSET Requests : Acquire(r)!2!(G)
    BY <1>3 DEF Acquire
  <2>2. CASE Admit(r, G)
    BY <1>3, <2>1, <2>2, AdmitHandOut DEF Acquire
  <2>3. CASE ~ Admit(r, G)
    BY <1>3, <2>1, <2>3, DeclinedHandOut DEF Acquire
  <2>4. QED
    BY <2>2, <2>3
<1>4. ASSUME NEW r \in Requests, Release(r) PROVE HandOut
  <2>1. CASE req[r] = "held"
    BY <1>4, <2>1, ReleaseHandOut DEF Release
  <2>2. CASE UNCHANGED capVars
    <3>1. Held' = Held /\ \A q \in Requests : req'[q] = req[q]
      BY <2>2 DEF capVars, Held
    <3>2. QED
      BY <3>1, SilentHandOut
  <2>3. QED
    BY <1>4, <2>1, <2>2 DEF Release
<1>5. CASE Reconfigure \/ UNCHANGED capVars
  <2>1. Held' = Held /\ \A q \in Requests : req'[q] = req[q]
    BY <1>5 DEF Reconfigure, capVars, Held
  <2>2. QED
    BY <2>1, SilentHandOut
<1>6. QED
  BY <1>1, <1>2, <1>3, <1>4, <1>5 DEF Next

\* No lease is handed out beyond the limit in force.
THEOREM CapWithinLimit == Spec => AdmissionWithinLimit
<1>1. CapInv /\ [Next]_capVars
        => [Held' \ Held # {} => active' <= concurrency]_capVars
  BY NextHandOut DEF HandOut, WithinLimitStep
<1>2. QED
  BY <1>1, CapInvariant, PTL DEF Spec, AdmissionWithinLimit

\* Leases are handed out in the order in which the callers queued.
THEOREM CapFirstComeFirstServed == Spec => FirstComeFirstServed
<1>1. CapInv /\ [Next]_capVars
        => [\A r \in Held' \ Held :
              Waiting \cap Waiting' \subseteq
                {w \in Waiting : r \in Waiting /\ arrival[r] < arrival[w]}]_capVars
  BY NextHandOut DEF HandOut, FifoStep
<1>2. QED
  BY <1>1, CapInvariant, PTL DEF Spec, FirstComeFirstServed

\* No call leaves a waiter behind while a slot is free.
THEOREM CapWorkConserving == Spec => CallsLeaveNoSlotIdle
<1>1. CapInv /\ [Next]_capVars
        => [(\E r \in Requests : req'[r] # req[r] /\ req'[r] # "aborted")
              => (Waiting' = {} \/ active' >= concurrency)]_capVars
  BY NextHandOut DEF HandOut, NoSlotIdleStep
<1>2. QED
  BY <1>1, CapInvariant, PTL DEF Spec, CallsLeaveNoSlotIdle

=============================================================================

--------------------------- MODULE ProcessCapacity ---------------------------
(***************************************************************************)
(* The admission gate that bounds how many local child processes the Web   *)
(* server runs at once: class WebProcessCapacity of                        *)
(* api/modules/processes/web-process-capacity.ts.                          *)
(*                                                                         *)
(* The scan supervisor queues at the gate (acquire with an AbortSignal),   *)
(* the CLI bridge of the synchronous routes only tries it (tryAcquire).    *)
(* The class is single-threaded: every method runs to completion, so each  *)
(* is one action.  What interleaves is the order of the calls, the aborts  *)
(* of the waiting callers and the configured limits, which the class reads *)
(* again at every call.                                                    *)
(*                                                                         *)
(* The array `waiters' only ever grows at its end and keeps the order of   *)
(* what it holds, so it is modelled as the set of the requests it holds    *)
(* and the position at which each one was pushed (arrival).  A waiter      *)
(* whose caller aborted stays in the array until the next compaction.      *)
(***************************************************************************)
EXTENDS Integers, FiniteSets

CONSTANTS
  Requests,        \* the calls of acquire and tryAcquire
  ConcurrencyCap,  \* 8 in the source
  QueueCap,        \* 256 in the source
  Configurable     \* the values resolveLimits may return for either limit

ASSUME RequestsFinite == IsFiniteSet(Requests)
ASSUME CapsPositive == /\ ConcurrencyCap \in Nat \ {0}
                       /\ QueueCap \in Nat \ {0}
ASSUME ConfigurableIntegers == Configurable \subseteq Int

VARIABLES
  active,   \* the counter of the class
  waiters,  \* the requests in the array of waiters
  arrival,  \* arrival[r]: the position at which r was pushed
  pushed,   \* how many waiters were pushed so far
  req,      \* what became of each request
  config    \* what resolveLimits returns now

capVars == <<active, waiters, arrival, pushed, req, config>>

\* "idle" has not called; "held" has its lease; "refused" met a full queue;
\* "aborted" is a waiter, or a caller, whose signal fired
RequestStates == {"idle", "waiting", "held", "released", "refused", "aborted"}

Limits == [concurrency : Configurable, queueLimit : Configurable]

boundedLimit(value, maximum) ==
  IF value < 1 THEN 1 ELSE IF value > maximum THEN maximum ELSE value

concurrency == boundedLimit(config.concurrency, ConcurrencyCap)
queueLimit  == boundedLimit(config.queueLimit, QueueCap)

Init ==
  /\ active = 0
  /\ waiters = {}
  /\ arrival = [r \in Requests |-> 0]
  /\ pushed = 0
  /\ req = [r \in Requests |-> "idle"]
  /\ config \in Limits

-----------------------------------------------------------------------------
\* The waiters of the array that compactWaiters keeps
liveWaiters == {r \in waiters : req[r] # "aborted"}

compactWaiters == liveWaiters

\* Mutations: <= for < in the loop; pop for shift; an if for the while.
dispatchWaitersOffByOne(busy, G) ==
  /\ G \subseteq compactWaiters
  /\ \A g \in G, w \in compactWaiters \ G : arrival[g] < arrival[w]
  /\ busy + Cardinality(G) <= concurrency + 1 \/ G = {}
  /\ busy + Cardinality(G) >= concurrency + 1 \/ G = compactWaiters
dispatchWaitersFromEnd(busy, G) ==
  /\ G \subseteq compactWaiters
  /\ \A g \in G, w \in compactWaiters \ G : arrival[g] > arrival[w]
  /\ busy + Cardinality(G) <= concurrency \/ G = {}
  /\ busy + Cardinality(G) >= concurrency \/ G = compactWaiters
dispatchWaitersOne(busy, G) ==
  /\ G \subseteq compactWaiters
  /\ \A g \in G, w \in compactWaiters \ G : arrival[g] < arrival[w]
  /\ Cardinality(G) = IF busy < concurrency /\ compactWaiters # {} THEN 1 ELSE 0

\* The while loop of dispatchWaiters, started with `busy' slots taken: it
\* shifts waiters off the front of the compacted array until either the
\* array is empty or the slots are taken, so G is the prefix it resolves.
dispatchWaiters(busy, G) ==
  /\ G \subseteq compactWaiters
  /\ \A g \in G, w \in compactWaiters \ G : arrival[g] < arrival[w]
  /\ busy + Cardinality(G) <= concurrency \/ G = {}
  /\ busy + Cardinality(G) >= concurrency \/ G = compactWaiters

\* What a dispatch of the waiters in G does to the requests
Resolved(G) == [r \in Requests |-> IF r \in G THEN "held" ELSE req[r]]

\* acquire with a signal that is already aborted
AcquireAborted(r) ==
  /\ req[r] = "idle"
  /\ req' = [req EXCEPT ![r] = "aborted"]
  /\ UNCHANGED <<active, waiters, arrival, pushed, config>>

\* tryAcquire returned a release function: to its caller, or to acquire
Admit(r, G) ==
  /\ waiters' = compactWaiters \ G
  /\ waiters' = {}
  /\ active + Cardinality(G) < concurrency
  /\ active' = active + Cardinality(G) + 1
  /\ req' = [Resolved(G) EXCEPT ![r] = "held"]
  /\ UNCHANGED <<arrival, pushed, config>>

\* tryAcquire returned null: a lease was not free for this caller, but the
\* waiters in G have been dispatched on the way
Declined(G) == compactWaiters # G \/ active + Cardinality(G) >= concurrency

\* tryAcquire as the CLI bridge calls it: the route answers 429 on null
TryAcquire(r) ==
  /\ req[r] = "idle"
  /\ \E G \in SUBSET Requests :
       /\ dispatchWaiters(active, G)
       /\ \/ Admit(r, G)
          \/ /\ Declined(G)
             /\ waiters' = compactWaiters \ G
             /\ active' = active + Cardinality(G)
             /\ req' = [Resolved(G) EXCEPT ![r] = "refused"]
             /\ UNCHANGED <<arrival, pushed, config>>

\* acquire: as tryAcquire, but a caller that finds no lease waits, or is
\* refused by ProcessCapacityExceededError when the array is full
Acquire(r) ==
  /\ req[r] = "idle"
  /\ \E G \in SUBSET Requests :
       /\ dispatchWaiters(active, G)
       /\ \/ Admit(r, G)
          \/ /\ Declined(G)
             /\ Cardinality(compactWaiters \ G) >= queueLimit
             /\ waiters' = compactWaiters \ G
             /\ active' = active + Cardinality(G)
             /\ req' = [Resolved(G) EXCEPT ![r] = "refused"]
             /\ UNCHANGED <<arrival, pushed, config>>
          \/ /\ Declined(G)
             /\ Cardinality(compactWaiters \ G) < queueLimit
             /\ waiters' = (compactWaiters \ G) \cup {r}
             /\ active' = active + Cardinality(G)
             /\ arrival' = [arrival EXCEPT ![r] = pushed + 1]
             /\ pushed' = pushed + 1
             /\ req' = [Resolved(G) EXCEPT ![r] = "waiting"]
             /\ UNCHANGED config

\* The abort listener of a waiter.  A request whose lease was dispatched has
\* no listener any more: its signal no longer reaches the gate.
Abort(r) ==
  /\ req[r] = "waiting"
  /\ req' = [req EXCEPT ![r] = "aborted"]
  /\ UNCHANGED <<active, waiters, arrival, pushed, config>>

\* Mutation: release() does not dispatch the waiters.
releaseSilently(r, G) ==
  /\ G = {}
  /\ active' = IF active > 0 THEN active - 1 ELSE 0
  /\ req' = [req EXCEPT ![r] = "released"]
  /\ UNCHANGED <<waiters, arrival, pushed, config>>

\* release, behind the once-flag of createRelease
release(r, G) ==
  LET freed == IF active > 0 THEN active - 1 ELSE 0
  IN  /\ dispatchWaiters(freed, G)
      /\ active' = freed + Cardinality(G)
      /\ waiters' = compactWaiters \ G
      /\ req' = [Resolved(G) EXCEPT ![r] = "released"]
      /\ UNCHANGED <<arrival, pushed, config>>

\* Mutation: createRelease without its once-flag, and release without its
\* Math.max(0, ...)
ReleaseTwiceUnclamped(r) ==
  /\ req[r] \in {"held", "released"}
  /\ active' = active - 1
  /\ req' = [req EXCEPT ![r] = "released"]
  /\ UNCHANGED <<waiters, arrival, pushed, config>>

\* The function createRelease returns.  The supervisor calls it a second time
\* when shutdown gives up on a child whose monitor ends later.
Release(r) ==
  \/ /\ req[r] = "held"
     /\ \E G \in SUBSET Requests : release(r, G)
  \/ /\ req[r] = "released"
     /\ UNCHANGED capVars

\* The limits come from the settings, which an operator may change at any
\* time; nothing tells the gate
Reconfigure ==
  /\ config' \in Limits
  /\ UNCHANGED <<active, waiters, arrival, pushed, req>>

Next ==
  \/ \E r \in Requests : \/ AcquireAborted(r)
                         \/ TryAcquire(r)
                         \/ Acquire(r)
                         \/ Abort(r)
                         \/ Release(r)
  \/ Reconfigure

\* Every child process ends (the supervisor and the bridge bound their run
\* time), and its lease is then released
Fairness == \A r \in Requests : WF_capVars(req[r] = "held" /\ Release(r))

Spec == Init /\ [][Next]_capVars

FairSpec == Spec /\ Fairness

-----------------------------------------------------------------------------
(***************************************************************************)
(* Properties                                                              *)
(***************************************************************************)

\* The class and its callers only hold values of the declared kinds.
TypeOK ==
  /\ active \in Nat
  /\ waiters \subseteq Requests
  /\ arrival \in [Requests -> Nat]
  /\ pushed \in Nat
  /\ req \in [Requests -> RequestStates]
  /\ config \in Limits

Held == {r \in Requests : req[r] = "held"}
Waiting == {r \in Requests : req[r] = "waiting"}

\* The counter of the class is the number of leases its callers have not
\* given back: no release is lost, none counts twice, and Math.max(0, ...) in
\* release() never hides a missing admission.
ActiveIsHeld == active = Cardinality(Held)

\* A caller only waits while some lease is out, so a release that dispatches
\* the waiters is still to come: lowering and raising the limits or aborting
\* waiters never leaves a queue behind that no call will look at again.
NoStrandedWaiter == Waiting # {} => active >= 1

\* A lease is only handed out within the limit in force at that moment, even
\* when the limit was lowered below the number of leases already out.
AdmissionWithinLimit ==
  [][Held' \ Held # {} => active' <= concurrency]_capVars

\* First come, first served: a waiter gets its lease only together with, or
\* after, every live waiter pushed before it, and a new caller never gets one
\* while somebody waits.
FirstComeFirstServed ==
  [][\A r \in Held' \ Held :
       Waiting \cap Waiting' \subseteq
         {w \in Waiting : r \in Waiting /\ arrival[r] < arrival[w]}]_capVars

\* Work conservation: a call that acquires, refuses or releases leaves no
\* live waiter behind while a slot is free, so a raised limit takes effect at
\* the next call.
CallsLeaveNoSlotIdle ==
  [][(\E r \in Requests : req'[r] # req[r] /\ req'[r] # "aborted")
       => (Waiting' = {} \/ active' >= concurrency)]_capVars

\* A caller that queued gets its lease, unless its own signal aborts it.
WaiterIsServed ==
  \A r \in Requests : req[r] = "waiting" ~> req[r] \in {"held", "released", "aborted"}

=============================================================================

------------------------ MODULE WriterElection_proofs ------------------------
(***************************************************************************)
(* Proofs about WriterElection for any number of clients and Writers and   *)
(* any bounds.  Typed is TypeOK with the counters as a function.  Three    *)
(* invariants follow, each for its own question: Tracked (what files say   *)
(* while nobody is killed), Undisturbed (the election among any number of  *)
(* clients) and Recovering (one client that clears away what was left).    *)
(***************************************************************************)
EXTENDS WriterElection, TLAPS

Kinds == {"manual", "crash", "stop", "fault", "slow"}

\* The variables keep their types, and no counter exceeds its bound.
Typed ==
  /\ lock \in Writers \cup {None} /\ owner \in Writers \cup {None}
  /\ old \in BOOLEAN /\ socket \in Writers \cup {None}
  /\ proc \in [Writers -> ProcStates]
  /\ at \in [Clients -> ClientStates]
  /\ seen \in [Clients -> Writers \cup {None}]
  /\ spawned \in [Clients -> Writers \cup {None}]
  /\ health \in [Clients -> Writers \cup {None}]
  /\ closing \in [Clients -> {"no", "waiting", "recovered"}]
  /\ count \in [Kinds -> Nat]
  /\ \A b \in Kinds : count[b] <= Bounds[b]

\* From mkdirSync to the rmSync of the lock directory: the steps in which a
\* Writer believes that the directory is its own.
Holding == {"locked", "owned", "open", "serving", "draining", "closed",
            "unlocking"}

\* Every file names a Writer that still has the step before it that removes
\* the file, as long as nobody was killed; owner.json is in the directory.
Tracked ==
  /\ owner # None => lock # None
  /\ count["crash"] = 0 =>
       /\ lock # None => proc[lock] \in Holding
       /\ socket # None => proc[socket] \in {"serving", "draining", "closed"}

\* No Writer was killed or stopped by hand, and none could not start.
FailureFree == count["crash"] = 0 /\ count["stop"] = 0 /\ count["fault"] = 0

\* The directory belongs to the Writer that thinks so, nobody leaves, every
\* owner that a client remembers is alive, and so no client removes anything.
Undisturbed ==
  /\ \A w \in Writers :
       /\ proc[w] \in {"gone", "started"} \cup Holding
       /\ proc[w] \notin {"draining", "closed", "unlocking"}
       /\ proc[w] \in Holding => lock = w
       /\ proc[w] \in {"owned", "open", "serving"} => owner = w
       /\ proc[w] = "serving" => socket = w
  /\ lock # None => proc[lock] \in Holding
  /\ owner # None => proc[owner] \in Holding
  /\ ~old
  /\ \A c \in Clients :
       /\ seen[c] # None => proc[seen[c]] \in Holding
       /\ at[c] \notin {"rmLock", "rmSocket"}

\* Nobody was started by hand and no client has given up on a live Writer.
Alone == count["manual"] = 0 /\ ~GaveUp

\* Not on its way up: only the Writer its client polls for may be.
Settled == {"gone", "serving", "draining", "closed", "unlocking"}

\* What holds of a client that is the only one, while it gives up on nobody:
\* it recovers only when no Writer is on its way, and removes files only when
\* no Writer is left.
Recovering ==
  /\ \A w \in Writers :
       /\ proc[w] \in Holding => lock = w
       /\ proc[w] \in {"owned", "open", "serving", "draining", "closed"} =>
            owner = w
       /\ proc[w] \in {"locked", "unlocking"} => owner \in {w, None}
       /\ proc[w] = "serving" => socket = w
  /\ old => lock # None /\ proc[lock] = "gone"
  /\ \A c \in Clients, w \in Writers :
       /\ proc[w] \in Settled \/ (at[c] \in {"poll", "redundant"} /\ w = spawned[c])
       /\ at[c] = "judge" /\ proc[w] \in Holding => seen[c] \in {w, None}
       /\ at[c] \in {"rmLock", "rmSocket"} => proc[w] = "gone"

-----------------------------------------------------------------------------
(* Types                                                                   *)

LEMMA BoundsFacts ==
  DOMAIN Bounds = Kinds /\ \A b \in Kinds : Bounds[b] \in Nat
BY ElectionBounds DEF Bounds, Kinds

LEMMA InitTyped == ASSUME Init PROVE Typed
<1>1. count = [b \in Kinds |-> 0]  BY BoundsFacts DEF Init
<1>2. \A b \in Kinds : count[b] = 0 /\ 0 <= Bounds[b]  BY <1>1, BoundsFacts
<1>3. count \in [Kinds -> Nat] /\ \A b \in Kinds : count[b] <= Bounds[b]
  BY <1>1, <1>2
<1>4. /\ lock = None /\ owner = None /\ old = FALSE /\ socket = None
      /\ proc \in [Writers -> ProcStates]
      /\ at \in [Clients -> ClientStates]
      /\ seen \in [Clients -> Writers \cup {None}]
      /\ spawned \in [Clients -> Writers \cup {None}]
      /\ health \in [Clients -> Writers \cup {None}]
      /\ closing \in [Clients -> {"no", "waiting", "recovered"}]
  BY DEF Init, ProcStates, ClientStates
<1>q. QED  BY <1>3, <1>4 DEF Typed

\* What a step costs: one of the bound it is charged to.
LEMMA SpendFacts ==
  ASSUME Typed, NEW b \in Kinds, Spend(b)
  PROVE  /\ count' \in [Kinds -> Nat]
         /\ \A k \in Kinds : count'[k] <= Bounds[k]
BY BoundsFacts DEF Typed, Spend

LEMMA TypedGivesTypeOK == ASSUME Typed PROVE TypeOK
BY ElectionBounds DEF Typed, TypeOK, Bounds, Kinds

\* Every action keeps the types.
LEMMA TypedStep ==
  ASSUME Typed, [Next]_vars
  PROVE  Typed'
<1>1. CASE Age
  BY <1>1, Typed, NoneIsNoWriter, ElectionBounds
  DEF Age, Exists, files, clients, Typed, ProcStates, ClientStates
<1>2. CASE \E w \in Writers : MakeLock(w)
  BY <1>2, Typed, NoneIsNoWriter, ElectionBounds
  DEF MakeLock, RemoveLock, Goto, files, clients, Typed, ProcStates, ClientStates
<1>3. CASE \E w \in Writers : WriteOwner(w)
  BY <1>3, Typed, NoneIsNoWriter, ElectionBounds
  DEF WriteOwner, Goto, files, clients, Typed, ProcStates, ClientStates
<1>4. CASE \E w \in Writers : OpenConnection(w)
  BY <1>4, Typed, NoneIsNoWriter, ElectionBounds
  DEF OpenConnection, Goto, files, clients, Typed, ProcStates, ClientStates
<1>5. CASE \E w \in Writers : Serve(w)
  BY <1>5, Typed, NoneIsNoWriter, ElectionBounds
  DEF Serve, Goto, files, clients, Typed, ProcStates, ClientStates
<1>6. CASE \E w \in Writers : CloseConnection(w)
  BY <1>6, Typed, NoneIsNoWriter, ElectionBounds
  DEF CloseConnection, Goto, files, clients, Typed, ProcStates, ClientStates
<1>7. CASE \E w \in Writers : RemoveSocketFile(w)
  BY <1>7, Typed, NoneIsNoWriter, ElectionBounds
  DEF RemoveSocketFile, Goto, files, clients, Typed, ProcStates, ClientStates
<1>8. CASE \E w \in Writers : RemoveLockDirectory(w)
  BY <1>8, Typed, NoneIsNoWriter, ElectionBounds
  DEF RemoveLockDirectory, RemoveLock, Goto, files, clients, Typed, ProcStates,
      ClientStates
<1>9. CASE \E w \in Writers : StartByHand(w)
  <2>1. PICK w \in Writers : StartByHand(w)  BY <1>9
  <2>2. Spend("manual")  BY <2>1 DEF StartByHand
  <2>3. /\ count' \in [Kinds -> Nat]
        /\ \A k \in Kinds : count'[k] <= Bounds[k]
    BY <2>2, SpendFacts, Typed DEF Kinds
  <2>q. QED
    BY <2>1, <2>3, Typed
    DEF StartByHand, Goto, files, clients, Typed, ProcStates, ClientStates
<1>10. CASE \E w \in Writers : FailStart(w)
  <2>1. PICK w \in Writers : FailStart(w)  BY <1>10
  <2>2. Spend("fault")  BY <2>1 DEF FailStart
  <2>3. /\ count' \in [Kinds -> Nat]
        /\ \A k \in Kinds : count'[k] <= Bounds[k]
    BY <2>2, SpendFacts, Typed DEF Kinds
  <2>q. QED
    BY <2>1, <2>3, Typed
    DEF FailStart, Goto, files, clients, Typed, ProcStates, ClientStates
<1>11. CASE \E w \in Writers : Terminate(w)
  <2>1. PICK w \in Writers : Terminate(w)  BY <1>11
  <2>2. Spend("stop")  BY <2>1 DEF Terminate
  <2>3. /\ count' \in [Kinds -> Nat]
        /\ \A k \in Kinds : count'[k] <= Bounds[k]
    BY <2>2, SpendFacts, Typed DEF Kinds
  <2>q. QED
    BY <2>1, <2>3, Typed
    DEF Terminate, Goto, files, clients, Typed, ProcStates, ClientStates
<1>12. CASE \E w \in Writers : Crash(w)
  <2>1. PICK w \in Writers : Crash(w)  BY <1>12
  <2>2. Spend("crash")  BY <2>1 DEF Crash
  <2>3. /\ count' \in [Kinds -> Nat]
        /\ \A k \in Kinds : count'[k] <= Bounds[k]
    BY <2>2, SpendFacts, Typed DEF Kinds
  <2>q. QED
    BY <2>1, <2>3, Typed
    DEF Crash, Goto, files, clients, Typed, ProcStates, ClientStates
<1>13. CASE \E c \in Clients : Connect(c)
  BY <1>13, Typed, NoneIsNoWriter, ElectionBounds
  DEF Connect, Move, Listening, files, clients, Typed, ProcStates, ClientStates
<1>14. CASE \E c \in Clients : ReadOwner(c)
  BY <1>14, Typed, NoneIsNoWriter, ElectionBounds
  DEF ReadOwner, Move, files, clients, Typed, ProcStates, ClientStates
<1>15. CASE \E c \in Clients : Judge(c)
  BY <1>15, Typed, NoneIsNoWriter, ElectionBounds
  DEF Judge, After, Stale, Move, Exists, files, clients, Typed, ProcStates, ClientStates
<1>16. CASE \E c \in Clients : RemoveStaleLock(c)
  BY <1>16, Typed, NoneIsNoWriter, ElectionBounds
  DEF RemoveStaleLock, RemoveLock, Move, files, clients, Typed, ProcStates, ClientStates
<1>17. CASE \E c \in Clients : RemoveStaleSocket(c)
  BY <1>17, Typed, NoneIsNoWriter, ElectionBounds
  DEF RemoveStaleSocket, After, Move, files, clients, Typed, ProcStates, ClientStates
<1>18. CASE \E c \in Clients, w \in Writers : SpawnWriter(c, w)
  BY <1>18, Typed, NoneIsNoWriter, ElectionBounds
  DEF SpawnWriter, Fresh, Move, Goto, Exists, files, clients, Typed, ProcStates,
      ClientStates
<1>19. CASE \E c \in Clients : Poll(c)
  BY <1>19, Typed, NoneIsNoWriter, ElectionBounds
  DEF Poll, Move, Listening, files, clients, Typed, ProcStates, ClientStates
<1>20. CASE \E c \in Clients : RedundantGone(c)
  BY <1>20, Typed, NoneIsNoWriter, ElectionBounds
  DEF RedundantGone, Move, Exists, files, clients, Typed, ProcStates, ClientStates
<1>21. CASE \E c \in Clients : LoseConnection(c)
  BY <1>21, Typed, NoneIsNoWriter, ElectionBounds
  DEF LoseConnection, Move, Listening, files, clients, Typed, ProcStates, ClientStates
<1>22. CASE \E c \in Clients : Closed(c)
  BY <1>22, Typed, NoneIsNoWriter, ElectionBounds
  DEF Closed, Move, Exists, files, clients, Typed, ProcStates, ClientStates
<1>23. CASE \E c \in Clients : CloseRecovers(c)
  BY <1>23, Typed, NoneIsNoWriter, ElectionBounds
  DEF CloseRecovers, Move, Exists, files, clients, Typed, ProcStates, ClientStates
<1>24. CASE \E c \in Clients : CloseThrows(c)
  BY <1>24, Typed, NoneIsNoWriter, ElectionBounds
  DEF CloseThrows, Spend, Move, Exists, Bounds, files, clients, Typed,
      ProcStates, ClientStates
<1>25. CASE \E c \in Clients : StartTimeout(c)
  BY <1>25, Typed, NoneIsNoWriter, ElectionBounds
  DEF StartTimeout, Spend, Move, Listening, Exists, Bounds, files, clients,
      Typed, ProcStates, ClientStates
<1>26. CASE \E c \in Clients : SpawnFails(c)
  <2>1. PICK c \in Clients : SpawnFails(c)  BY <1>26
  <2>2. Spend("fault")  BY <2>1 DEF SpawnFails
  <2>3. /\ count' \in [Kinds -> Nat]
        /\ \A k \in Kinds : count'[k] <= Bounds[k]
    BY <2>2, SpendFacts, Typed DEF Kinds
  <2>q. QED
    BY <2>1, <2>3, Typed
    DEF SpawnFails, Move, files, clients, Typed, ProcStates, ClientStates
<1>27. CASE \E c \in Clients : Close(c)
  BY <1>27, Typed, NoneIsNoWriter, ElectionBounds
  DEF Close, Move, MayShutdown, files, clients, Typed, ProcStates, ClientStates
<1>28. CASE UNCHANGED vars
  BY <1>28, Typed, NoneIsNoWriter, ElectionBounds DEF vars, files, clients, Typed,
     ProcStates, ClientStates
<1>q. QED
  BY <1>1, <1>2, <1>3, <1>4, <1>5, <1>6, <1>7, <1>8, <1>9, <1>10, <1>11, <1>12, <1>13,
     <1>14, <1>15, <1>16, <1>17, <1>18, <1>19, <1>20, <1>21, <1>22, <1>23, <1>24,
     <1>25, <1>26, <1>27, <1>28
  DEF Next, WriterStep, ClientStep, Environment

\* No step takes a counter back.
LEMMA CountsGrow ==
  ASSUME Typed, [Next]_vars, NEW b \in Kinds
  PROVE  count'[b] >= count[b]
<1>1. CASE Age
  BY <1>1, Typed
  DEF Age, Exists, files, clients, Typed, Kinds
<1>2. CASE \E w \in Writers : MakeLock(w)
  BY <1>2, Typed
  DEF MakeLock, RemoveLock, Goto, files, clients, Typed, Kinds
<1>3. CASE \E w \in Writers : WriteOwner(w)
  BY <1>3, Typed
  DEF WriteOwner, Goto, files, clients, Typed, Kinds
<1>4. CASE \E w \in Writers : OpenConnection(w)
  BY <1>4, Typed
  DEF OpenConnection, Goto, files, clients, Typed, Kinds
<1>5. CASE \E w \in Writers : Serve(w)
  BY <1>5, Typed
  DEF Serve, Goto, files, clients, Typed, Kinds
<1>6. CASE \E w \in Writers : CloseConnection(w)
  BY <1>6, Typed
  DEF CloseConnection, Goto, files, clients, Typed, Kinds
<1>7. CASE \E w \in Writers : RemoveSocketFile(w)
  BY <1>7, Typed
  DEF RemoveSocketFile, Goto, files, clients, Typed, Kinds
<1>8. CASE \E w \in Writers : RemoveLockDirectory(w)
  BY <1>8, Typed
  DEF RemoveLockDirectory, RemoveLock, Goto, files, clients, Typed, Kinds
<1>9. CASE \E w \in Writers : StartByHand(w)
  BY <1>9, Typed
  DEF StartByHand, Fresh, Spend, Goto, Exists, Bounds, files, clients, Typed, Kinds
<1>10. CASE \E w \in Writers : FailStart(w)
  BY <1>10, Typed
  DEF FailStart, Spend, Goto, Bounds, files, clients, Typed, Kinds
<1>11. CASE \E w \in Writers : Terminate(w)
  BY <1>11, Typed
  DEF Terminate, Spend, Goto, Bounds, files, clients, Typed, Kinds
<1>12. CASE \E w \in Writers : Crash(w)
  BY <1>12, Typed
  DEF Crash, Spend, Exists, Goto, Bounds, files, clients, Typed, Kinds
<1>13. CASE \E c \in Clients : Connect(c)
  BY <1>13, Typed
  DEF Connect, Move, Listening, files, clients, Typed, Kinds
<1>14. CASE \E c \in Clients : ReadOwner(c)
  BY <1>14, Typed
  DEF ReadOwner, Move, files, clients, Typed, Kinds
<1>15. CASE \E c \in Clients : Judge(c)
  BY <1>15, Typed
  DEF Judge, After, Stale, Move, Exists, files, clients, Typed, Kinds
<1>16. CASE \E c \in Clients : RemoveStaleLock(c)
  BY <1>16, Typed
  DEF RemoveStaleLock, RemoveLock, Move, files, clients, Typed, Kinds
<1>17. CASE \E c \in Clients : RemoveStaleSocket(c)
  BY <1>17, Typed
  DEF RemoveStaleSocket, After, Move, files, clients, Typed, Kinds
<1>18. CASE \E c \in Clients, w \in Writers : SpawnWriter(c, w)
  BY <1>18, Typed
  DEF SpawnWriter, Fresh, Move, Goto, Exists, files, clients, Typed, Kinds
<1>19. CASE \E c \in Clients : Poll(c)
  BY <1>19, Typed
  DEF Poll, Move, Listening, files, clients, Typed, Kinds
<1>20. CASE \E c \in Clients : RedundantGone(c)
  BY <1>20, Typed
  DEF RedundantGone, Move, Exists, files, clients, Typed, Kinds
<1>21. CASE \E c \in Clients : LoseConnection(c)
  BY <1>21, Typed
  DEF LoseConnection, Move, Listening, files, clients, Typed, Kinds
<1>22. CASE \E c \in Clients : Closed(c)
  BY <1>22, Typed
  DEF Closed, Move, Exists, files, clients, Typed, Kinds
<1>23. CASE \E c \in Clients : CloseRecovers(c)
  BY <1>23, Typed
  DEF CloseRecovers, Move, Exists, files, clients, Typed, Kinds
<1>24. CASE \E c \in Clients : CloseThrows(c)
  BY <1>24, Typed
  DEF CloseThrows, Spend, Move, Exists, Bounds, files, clients, Typed, Kinds
<1>25. CASE \E c \in Clients : StartTimeout(c)
  BY <1>25, Typed
  DEF StartTimeout, Spend, Move, Listening, Exists, Bounds, files, clients, Typed, Kinds
<1>26. CASE \E c \in Clients : SpawnFails(c)
  BY <1>26, Typed
  DEF SpawnFails, Spend, Move, Bounds, files, clients, Typed, Kinds
<1>27. CASE \E c \in Clients : Close(c)
  BY <1>27, Typed
  DEF Close, Move, MayShutdown, files, clients, Typed, Kinds
<1>28. CASE UNCHANGED vars
  BY <1>28, Typed DEF vars, files, clients, Typed, Kinds
<1>q. QED
  BY <1>1, <1>2, <1>3, <1>4, <1>5, <1>6, <1>7, <1>8, <1>9, <1>10, <1>11, <1>12, <1>13,
     <1>14, <1>15, <1>16, <1>17, <1>18, <1>19, <1>20, <1>21, <1>22, <1>23, <1>24,
     <1>25, <1>26, <1>27, <1>28
  DEF Next, WriterStep, ClientStep, Environment

-----------------------------------------------------------------------------
(* What is left behind                                                     *)

LEMMA InitTracked == ASSUME Init PROVE Tracked
BY DEF Init, Tracked

\* Every action keeps the files tracked.
LEMMA TrackedStep ==
  ASSUME Typed, Typed', Tracked, [Next]_vars
  PROVE  Tracked'
<1>1. CASE Age
  BY <1>1, Typed, Typed', Tracked, NoneIsNoWriter
  DEF Age, Exists, files, clients, Typed, Kinds, Tracked, Holding
<1>2. CASE \E w \in Writers : MakeLock(w)
  BY <1>2, Typed, Typed', Tracked, NoneIsNoWriter
  DEF MakeLock, RemoveLock, Goto, files, clients, Typed, Kinds, Tracked, Holding
<1>3. CASE \E w \in Writers : WriteOwner(w)
  BY <1>3, Typed, Typed', Tracked, NoneIsNoWriter
  DEF WriteOwner, Goto, files, clients, Typed, Kinds, Tracked, Holding
<1>4. CASE \E w \in Writers : OpenConnection(w)
  BY <1>4, Typed, Typed', Tracked, NoneIsNoWriter
  DEF OpenConnection, Goto, files, clients, Typed, Kinds, Tracked, Holding
<1>5. CASE \E w \in Writers : Serve(w)
  BY <1>5, Typed, Typed', Tracked, NoneIsNoWriter
  DEF Serve, Goto, files, clients, Typed, Kinds, Tracked, Holding
<1>6. CASE \E w \in Writers : CloseConnection(w)
  BY <1>6, Typed, Typed', Tracked, NoneIsNoWriter
  DEF CloseConnection, Goto, files, clients, Typed, Kinds, Tracked, Holding
<1>7. CASE \E w \in Writers : RemoveSocketFile(w)
  BY <1>7, Typed, Typed', Tracked, NoneIsNoWriter
  DEF RemoveSocketFile, Goto, files, clients, Typed, Kinds, Tracked, Holding
<1>8. CASE \E w \in Writers : RemoveLockDirectory(w)
  BY <1>8, Typed, Typed', Tracked, NoneIsNoWriter
  DEF RemoveLockDirectory, RemoveLock, Goto, files, clients, Typed, Kinds,
      Tracked, Holding
<1>9. CASE \E w \in Writers : StartByHand(w)
  BY <1>9, Typed, Typed', Tracked, NoneIsNoWriter
  DEF StartByHand, Fresh, Spend, Goto, Exists, Bounds, files, clients, Typed,
      Kinds, Tracked, Holding
<1>10. CASE \E w \in Writers : FailStart(w)
  BY <1>10, Typed, Typed', Tracked, NoneIsNoWriter
  DEF FailStart, Spend, Goto, Bounds, files, clients, Typed, Kinds, Tracked, Holding
<1>11. CASE \E w \in Writers : Terminate(w)
  BY <1>11, Typed, Typed', Tracked, NoneIsNoWriter
  DEF Terminate, Spend, Goto, Bounds, files, clients, Typed, Kinds, Tracked, Holding
<1>12. CASE \E w \in Writers : Crash(w)
  BY <1>12, Typed, Typed', Tracked, NoneIsNoWriter
  DEF Crash, Spend, Exists, Goto, Bounds, files, clients, Typed, Kinds, Tracked, Holding
<1>13. CASE \E c \in Clients : Connect(c)
  BY <1>13, Typed, Typed', Tracked, NoneIsNoWriter
  DEF Connect, Move, Listening, files, clients, Typed, Kinds, Tracked, Holding
<1>14. CASE \E c \in Clients : ReadOwner(c)
  BY <1>14, Typed, Typed', Tracked, NoneIsNoWriter
  DEF ReadOwner, Move, files, clients, Typed, Kinds, Tracked, Holding
<1>15. CASE \E c \in Clients : Judge(c)
  BY <1>15, Typed, Typed', Tracked, NoneIsNoWriter
  DEF Judge, After, Stale, Move, Exists, files, clients, Typed, Kinds, Tracked, Holding
<1>16. CASE \E c \in Clients : RemoveStaleLock(c)
  BY <1>16, Typed, Typed', Tracked, NoneIsNoWriter
  DEF RemoveStaleLock, RemoveLock, Move, files, clients, Typed, Kinds, Tracked, Holding
<1>17. CASE \E c \in Clients : RemoveStaleSocket(c)
  BY <1>17, Typed, Typed', Tracked, NoneIsNoWriter
  DEF RemoveStaleSocket, After, Move, files, clients, Typed, Kinds, Tracked, Holding
<1>18. CASE \E c \in Clients, w \in Writers : SpawnWriter(c, w)
  BY <1>18, Typed, Typed', Tracked, NoneIsNoWriter
  DEF SpawnWriter, Fresh, Move, Goto, Exists, files, clients, Typed, Kinds,
      Tracked, Holding
<1>19. CASE \E c \in Clients : Poll(c)
  BY <1>19, Typed, Typed', Tracked, NoneIsNoWriter
  DEF Poll, Move, Listening, files, clients, Typed, Kinds, Tracked, Holding
<1>20. CASE \E c \in Clients : RedundantGone(c)
  BY <1>20, Typed, Typed', Tracked, NoneIsNoWriter
  DEF RedundantGone, Move, Exists, files, clients, Typed, Kinds, Tracked, Holding
<1>21. CASE \E c \in Clients : LoseConnection(c)
  BY <1>21, Typed, Typed', Tracked, NoneIsNoWriter
  DEF LoseConnection, Move, Listening, files, clients, Typed, Kinds, Tracked, Holding
<1>22. CASE \E c \in Clients : Closed(c)
  BY <1>22, Typed, Typed', Tracked, NoneIsNoWriter
  DEF Closed, Move, Exists, files, clients, Typed, Kinds, Tracked, Holding
<1>23. CASE \E c \in Clients : CloseRecovers(c)
  BY <1>23, Typed, Typed', Tracked, NoneIsNoWriter
  DEF CloseRecovers, Move, Exists, files, clients, Typed, Kinds, Tracked, Holding
<1>24. CASE \E c \in Clients : CloseThrows(c)
  BY <1>24, Typed, Typed', Tracked, NoneIsNoWriter
  DEF CloseThrows, Spend, Move, Exists, Bounds, files, clients, Typed, Kinds,
      Tracked, Holding
<1>25. CASE \E c \in Clients : StartTimeout(c)
  BY <1>25, Typed, Typed', Tracked, NoneIsNoWriter
  DEF StartTimeout, Spend, Move, Listening, Exists, Bounds, files, clients,
      Typed, Kinds, Tracked, Holding
<1>26. CASE \E c \in Clients : SpawnFails(c)
  BY <1>26, Typed, Typed', Tracked, NoneIsNoWriter
  DEF SpawnFails, Spend, Move, Bounds, files, clients, Typed, Kinds, Tracked, Holding
<1>27. CASE \E c \in Clients : Close(c)
  BY <1>27, Typed, Typed', Tracked, NoneIsNoWriter
  DEF Close, Move, MayShutdown, files, clients, Typed, Kinds, Tracked, Holding
<1>28. CASE UNCHANGED vars
  BY <1>28, Typed, Typed', Tracked, NoneIsNoWriter DEF vars, files, clients, Typed,
     Kinds, Tracked, Holding
<1>q. QED
  BY <1>1, <1>2, <1>3, <1>4, <1>5, <1>6, <1>7, <1>8, <1>9, <1>10, <1>11, <1>12, <1>13,
     <1>14, <1>15, <1>16, <1>17, <1>18, <1>19, <1>20, <1>21, <1>22, <1>23, <1>24,
     <1>25, <1>26, <1>27, <1>28
  DEF Next, WriterStep, ClientStep, Environment

-----------------------------------------------------------------------------
(* The election without failures                                           *)

LEMMA InitUndisturbed == ASSUME Init PROVE Undisturbed
BY DEF Init, Undisturbed, Holding

\* Without failures every action keeps the election undisturbed.
LEMMA UndisturbedStep ==
  ASSUME Typed, Typed', Undisturbed, [Next]_vars, FailureFree, FailureFree',
         Owning = {}
  PROVE  Undisturbed'
<1>1. CASE Age
  BY <1>1, Typed, Undisturbed, FailureFree, FailureFree', NoneIsNoWriter, Owning = {}
  DEF Age, Exists, files, clients, Typed, Kinds, FailureFree, Undisturbed, Holding
<1>2. CASE \E w \in Writers : MakeLock(w)
  BY <1>2, Typed, Undisturbed, FailureFree, FailureFree', NoneIsNoWriter, Owning = {}
  DEF MakeLock, RemoveLock, Goto, files, clients, Typed, Kinds, FailureFree,
      Undisturbed, Holding
<1>3. CASE \E w \in Writers : WriteOwner(w)
  BY <1>3, Typed, Undisturbed, FailureFree, FailureFree', NoneIsNoWriter, Owning = {}
  DEF WriteOwner, Goto, files, clients, Typed, Kinds, FailureFree, Undisturbed, Holding
<1>4. CASE \E w \in Writers : OpenConnection(w)
  BY <1>4, Typed, Undisturbed, FailureFree, FailureFree', NoneIsNoWriter, Owning = {}
  DEF OpenConnection, Goto, files, clients, Typed, Kinds, FailureFree,
      Undisturbed, Holding
<1>5. CASE \E w \in Writers : Serve(w)
  BY <1>5, Typed, Undisturbed, FailureFree, FailureFree', NoneIsNoWriter, Owning = {}
  DEF Serve, Goto, files, clients, Typed, Kinds, FailureFree, Undisturbed, Holding
<1>6. CASE \E w \in Writers : CloseConnection(w)
  BY <1>6, Typed, Undisturbed, FailureFree, FailureFree', NoneIsNoWriter, Owning = {}
  DEF CloseConnection, Goto, files, clients, Typed, Kinds, FailureFree,
      Undisturbed, Holding
<1>7. CASE \E w \in Writers : RemoveSocketFile(w)
  BY <1>7, Typed, Undisturbed, FailureFree, FailureFree', NoneIsNoWriter, Owning = {}
  DEF RemoveSocketFile, Goto, files, clients, Typed, Kinds, FailureFree,
      Undisturbed, Holding
<1>8. CASE \E w \in Writers : RemoveLockDirectory(w)
  BY <1>8, Typed, Undisturbed, FailureFree, FailureFree', NoneIsNoWriter, Owning = {}
  DEF RemoveLockDirectory, RemoveLock, Goto, files, clients, Typed, Kinds,
      FailureFree, Undisturbed, Holding
<1>9. CASE \E w \in Writers : StartByHand(w)
  BY <1>9, Typed, Undisturbed, FailureFree, FailureFree', NoneIsNoWriter, Owning = {}
  DEF StartByHand, Fresh, Spend, Goto, Exists, Bounds, files, clients, Typed,
      Kinds, FailureFree, Undisturbed, Holding
<1>10. CASE \E w \in Writers : FailStart(w)
  BY <1>10, Typed, Undisturbed, FailureFree, FailureFree', NoneIsNoWriter, Owning = {}
  DEF FailStart, Spend, Goto, Bounds, files, clients, Typed, Kinds, FailureFree,
      Undisturbed, Holding
<1>11. CASE \E w \in Writers : Terminate(w)
  BY <1>11, Typed, Undisturbed, FailureFree, FailureFree', NoneIsNoWriter, Owning = {}
  DEF Terminate, Spend, Goto, Bounds, files, clients, Typed, Kinds, FailureFree,
      Undisturbed, Holding
<1>12. CASE \E w \in Writers : Crash(w)
  BY <1>12, Typed, Undisturbed, FailureFree, FailureFree', NoneIsNoWriter, Owning = {}
  DEF Crash, Spend, Exists, Goto, Bounds, files, clients, Typed, Kinds,
      FailureFree, Undisturbed, Holding
<1>13. CASE \E c \in Clients : Connect(c)
  BY <1>13, Typed, Undisturbed, FailureFree, FailureFree', NoneIsNoWriter, Owning = {}
  DEF Connect, Move, Listening, files, clients, Typed, Kinds, FailureFree,
      Undisturbed, Holding
<1>14. CASE \E c \in Clients : ReadOwner(c)
  BY <1>14, Typed, Undisturbed, FailureFree, FailureFree', NoneIsNoWriter, Owning = {}
  DEF ReadOwner, Move, files, clients, Typed, Kinds, FailureFree, Undisturbed, Holding
<1>15. CASE \E c \in Clients : Judge(c)
  BY <1>15, Typed, Undisturbed, FailureFree, FailureFree', NoneIsNoWriter, Owning = {}
  DEF Judge, After, Stale, Move, Exists, files, clients, Typed, Kinds,
      FailureFree, Undisturbed, Holding
<1>16. CASE \E c \in Clients : RemoveStaleLock(c)
  BY <1>16, Typed, Undisturbed, FailureFree, FailureFree', NoneIsNoWriter, Owning = {}
  DEF RemoveStaleLock, RemoveLock, Move, files, clients, Typed, Kinds,
      FailureFree, Undisturbed, Holding
<1>17. CASE \E c \in Clients : RemoveStaleSocket(c)
  BY <1>17, Typed, Undisturbed, FailureFree, FailureFree', NoneIsNoWriter, Owning = {}
  DEF RemoveStaleSocket, After, Move, files, clients, Typed, Kinds, FailureFree,
      Undisturbed, Holding
<1>18. CASE \E c \in Clients, w \in Writers : SpawnWriter(c, w)
  BY <1>18, Typed, Undisturbed, FailureFree, FailureFree', NoneIsNoWriter, Owning = {}
  DEF SpawnWriter, Fresh, Move, Goto, Exists, files, clients, Typed, Kinds,
      FailureFree, Undisturbed, Holding
<1>19. CASE \E c \in Clients : Poll(c)
  BY <1>19, Typed, Undisturbed, FailureFree, FailureFree', NoneIsNoWriter, Owning = {}
  DEF Poll, Move, Listening, files, clients, Typed, Kinds, FailureFree,
      Undisturbed, Holding
<1>20. CASE \E c \in Clients : RedundantGone(c)
  BY <1>20, Typed, Undisturbed, FailureFree, FailureFree', NoneIsNoWriter, Owning = {}
  DEF RedundantGone, Move, Exists, files, clients, Typed, Kinds, FailureFree,
      Undisturbed, Holding
<1>21. CASE \E c \in Clients : LoseConnection(c)
  BY <1>21, Typed, Undisturbed, FailureFree, FailureFree', NoneIsNoWriter, Owning = {}
  DEF LoseConnection, Move, Listening, files, clients, Typed, Kinds, FailureFree,
      Undisturbed, Holding
<1>22. CASE \E c \in Clients : Closed(c)
  BY <1>22, Typed, Undisturbed, FailureFree, FailureFree', NoneIsNoWriter, Owning = {}
  DEF Closed, Move, Exists, files, clients, Typed, Kinds, FailureFree,
      Undisturbed, Holding
<1>23. CASE \E c \in Clients : CloseRecovers(c)
  BY <1>23, Typed, Undisturbed, FailureFree, FailureFree', NoneIsNoWriter, Owning = {}
  DEF CloseRecovers, Move, Exists, files, clients, Typed, Kinds, FailureFree,
      Undisturbed, Holding
<1>24. CASE \E c \in Clients : CloseThrows(c)
  BY <1>24, Typed, Undisturbed, FailureFree, FailureFree', NoneIsNoWriter, Owning = {}
  DEF CloseThrows, Spend, Move, Exists, Bounds, files, clients, Typed, Kinds,
      FailureFree, Undisturbed, Holding
<1>25. CASE \E c \in Clients : StartTimeout(c)
  BY <1>25, Typed, Undisturbed, FailureFree, FailureFree', NoneIsNoWriter, Owning = {}
  DEF StartTimeout, Spend, Move, Listening, Exists, Bounds, files, clients,
      Typed, Kinds, FailureFree, Undisturbed, Holding
<1>26. CASE \E c \in Clients : SpawnFails(c)
  BY <1>26, Typed, Undisturbed, FailureFree, FailureFree', NoneIsNoWriter, Owning = {}
  DEF SpawnFails, Spend, Move, Bounds, files, clients, Typed, Kinds, FailureFree,
      Undisturbed, Holding
<1>27. CASE \E c \in Clients : Close(c)
  BY <1>27, Typed, Undisturbed, FailureFree, FailureFree', NoneIsNoWriter, Owning = {}
  DEF Close, Move, MayShutdown, files, clients, Typed, Kinds, FailureFree,
      Undisturbed, Holding
<1>28. CASE UNCHANGED vars
  BY <1>28, Typed, Undisturbed, FailureFree, FailureFree', NoneIsNoWriter,
     Owning = {} DEF vars, files, clients, Typed, Kinds, FailureFree, Undisturbed,
     Holding
<1>q. QED
  BY <1>1, <1>2, <1>3, <1>4, <1>5, <1>6, <1>7, <1>8, <1>9, <1>10, <1>11, <1>12, <1>13,
     <1>14, <1>15, <1>16, <1>17, <1>18, <1>19, <1>20, <1>21, <1>22, <1>23, <1>24,
     <1>25, <1>26, <1>27, <1>28
  DEF Next, WriterStep, ClientStep, Environment

-----------------------------------------------------------------------------
(* One client that recovers                                                *)

LEMMA InitRecovering == ASSUME Init PROVE Recovering
BY DEF Init, Recovering, Holding, Settled

\* What the only client does leaves the Writer that lives alone.
LEMMA RecoveringStep ==
  ASSUME Typed, Typed', Recovering, [Next]_vars, Alone, Alone',
         \A c, d \in Clients : c = d
  PROVE  Recovering'
<1>1. CASE Age
  BY <1>1, Typed, Recovering, Alone, Alone', NoneIsNoWriter,
     \A c, d \in Clients : c = d
  DEF Age, Exists, files, clients, Typed, Kinds, Alone, GaveUp, Recovering,
      Holding, Settled
<1>2. CASE \E w \in Writers : MakeLock(w)
  BY <1>2, Typed, Recovering, Alone, Alone', NoneIsNoWriter,
     \A c, d \in Clients : c = d
  DEF MakeLock, RemoveLock, Goto, files, clients, Typed, Kinds, Alone, GaveUp,
      Recovering, Holding, Settled
<1>3. CASE \E w \in Writers : WriteOwner(w)
  BY <1>3, Typed, Recovering, Alone, Alone', NoneIsNoWriter,
     \A c, d \in Clients : c = d
  DEF WriteOwner, Goto, files, clients, Typed, Kinds, Alone, GaveUp, Recovering,
      Holding, Settled
<1>4. CASE \E w \in Writers : OpenConnection(w)
  BY <1>4, Typed, Recovering, Alone, Alone', NoneIsNoWriter,
     \A c, d \in Clients : c = d
  DEF OpenConnection, Goto, files, clients, Typed, Kinds, Alone, GaveUp,
      Recovering, Holding, Settled
<1>5. CASE \E w \in Writers : Serve(w)
  BY <1>5, Typed, Recovering, Alone, Alone', NoneIsNoWriter,
     \A c, d \in Clients : c = d
  DEF Serve, Goto, files, clients, Typed, Kinds, Alone, GaveUp, Recovering,
      Holding, Settled
<1>6. CASE \E w \in Writers : CloseConnection(w)
  BY <1>6, Typed, Recovering, Alone, Alone', NoneIsNoWriter,
     \A c, d \in Clients : c = d
  DEF CloseConnection, Goto, files, clients, Typed, Kinds, Alone, GaveUp,
      Recovering, Holding, Settled
<1>7. CASE \E w \in Writers : RemoveSocketFile(w)
  BY <1>7, Typed, Recovering, Alone, Alone', NoneIsNoWriter,
     \A c, d \in Clients : c = d
  DEF RemoveSocketFile, Goto, files, clients, Typed, Kinds, Alone, GaveUp,
      Recovering, Holding, Settled
<1>8. CASE \E w \in Writers : RemoveLockDirectory(w)
  BY <1>8, Typed, Recovering, Alone, Alone', NoneIsNoWriter,
     \A c, d \in Clients : c = d
  DEF RemoveLockDirectory, RemoveLock, Goto, files, clients, Typed, Kinds, Alone,
      GaveUp, Recovering, Holding, Settled
<1>9. CASE \E w \in Writers : StartByHand(w)
  BY <1>9, Typed, Recovering, Alone, Alone', NoneIsNoWriter,
     \A c, d \in Clients : c = d
  DEF StartByHand, Fresh, Spend, Goto, Exists, Bounds, files, clients, Typed,
      Kinds, Alone, GaveUp, Recovering, Holding, Settled
<1>10. CASE \E w \in Writers : FailStart(w)
  <2>1. PICK w \in Writers : FailStart(w)  BY <1>10
  <2>2. /\ proc[w] \in {"locked", "owned", "open"}
        /\ proc' = [proc EXCEPT ![w] = IF proc[w] = "locked"
                                       THEN "unlocking" ELSE "closed"]
        /\ UNCHANGED <<files, clients>>
    BY <2>1 DEF FailStart, Goto
  <2>3. CASE proc[w] = "locked"
    BY <2>2, <2>3, Typed, Recovering, NoneIsNoWriter
    DEF files, clients, Typed, Recovering, Holding, Settled
  <2>4. CASE proc[w] # "locked"
    BY <2>2, <2>4, Typed, Recovering, NoneIsNoWriter
    DEF files, clients, Typed, Recovering, Holding, Settled
  <2>q. QED  BY <2>3, <2>4
<1>11. CASE \E w \in Writers : Terminate(w)
  BY <1>11, Typed, Recovering, Alone, Alone', NoneIsNoWriter,
     \A c, d \in Clients : c = d
  DEF Terminate, Spend, Goto, Bounds, files, clients, Typed, Kinds, Alone,
      GaveUp, Recovering, Holding, Settled
<1>12. CASE \E w \in Writers : Crash(w)
  BY <1>12, Typed, Recovering, Alone, Alone', NoneIsNoWriter,
     \A c, d \in Clients : c = d
  DEF Crash, Spend, Exists, Goto, Bounds, files, clients, Typed, Kinds, Alone,
      GaveUp, Recovering, Holding, Settled
<1>13. CASE \E c \in Clients : Connect(c)
  BY <1>13, Typed, Recovering, Alone, Alone', NoneIsNoWriter,
     \A c, d \in Clients : c = d
  DEF Connect, Move, Listening, files, clients, Typed, Kinds, Alone, GaveUp,
      Recovering, Holding, Settled
<1>14. CASE \E c \in Clients : ReadOwner(c)
  BY <1>14, Typed, Recovering, Alone, Alone', NoneIsNoWriter,
     \A c, d \in Clients : c = d
  DEF ReadOwner, Move, files, clients, Typed, Kinds, Alone, GaveUp, Recovering,
      Holding, Settled
<1>15. CASE \E c \in Clients : Judge(c)
  BY <1>15, Typed, Recovering, Alone, Alone', NoneIsNoWriter,
     \A c, d \in Clients : c = d
  DEF Judge, After, Stale, Move, Exists, files, clients, Typed, Kinds, Alone,
      GaveUp, Recovering, Holding, Settled
<1>16. CASE \E c \in Clients : RemoveStaleLock(c)
  BY <1>16, Typed, Recovering, Alone, Alone', NoneIsNoWriter,
     \A c, d \in Clients : c = d
  DEF RemoveStaleLock, RemoveLock, Move, files, clients, Typed, Kinds, Alone,
      GaveUp, Recovering, Holding, Settled
<1>17. CASE \E c \in Clients : RemoveStaleSocket(c)
  BY <1>17, Typed, Recovering, Alone, Alone', NoneIsNoWriter,
     \A c, d \in Clients : c = d
  DEF RemoveStaleSocket, After, Move, files, clients, Typed, Kinds, Alone,
      GaveUp, Recovering, Holding, Settled
<1>18. CASE \E c \in Clients, w \in Writers : SpawnWriter(c, w)
  BY <1>18, Typed, Recovering, Alone, Alone', NoneIsNoWriter,
     \A c, d \in Clients : c = d
  DEF SpawnWriter, Fresh, Move, Goto, Exists, files, clients, Typed, Kinds,
      Alone, GaveUp, Recovering, Holding, Settled
<1>19. CASE \E c \in Clients : Poll(c)
  BY <1>19, Typed, Recovering, Alone, Alone', NoneIsNoWriter,
     \A c, d \in Clients : c = d
  DEF Poll, Move, Listening, files, clients, Typed, Kinds, Alone, GaveUp,
      Recovering, Holding, Settled
<1>20. CASE \E c \in Clients : RedundantGone(c)
  BY <1>20, Typed, Recovering, Alone, Alone', NoneIsNoWriter,
     \A c, d \in Clients : c = d
  DEF RedundantGone, Move, Exists, files, clients, Typed, Kinds, Alone, GaveUp,
      Recovering, Holding, Settled
<1>21. CASE \E c \in Clients : LoseConnection(c)
  BY <1>21, Typed, Recovering, Alone, Alone', NoneIsNoWriter,
     \A c, d \in Clients : c = d
  DEF LoseConnection, Move, Listening, files, clients, Typed, Kinds, Alone,
      GaveUp, Recovering, Holding, Settled
<1>22. CASE \E c \in Clients : Closed(c)
  BY <1>22, Typed, Recovering, Alone, Alone', NoneIsNoWriter,
     \A c, d \in Clients : c = d
  DEF Closed, Move, Exists, files, clients, Typed, Kinds, Alone, GaveUp,
      Recovering, Holding, Settled
<1>23. CASE \E c \in Clients : CloseRecovers(c)
  BY <1>23, Typed, Recovering, Alone, Alone', NoneIsNoWriter,
     \A c, d \in Clients : c = d
  DEF CloseRecovers, Move, Exists, files, clients, Typed, Kinds, Alone, GaveUp,
      Recovering, Holding, Settled
<1>24. CASE \E c \in Clients : CloseThrows(c)
  BY <1>24, Typed, Recovering, Alone, Alone', NoneIsNoWriter,
     \A c, d \in Clients : c = d
  DEF CloseThrows, Spend, Move, Exists, Bounds, files, clients, Typed, Kinds,
      Alone, GaveUp, Recovering, Holding, Settled
<1>25. CASE \E c \in Clients : StartTimeout(c)
  BY <1>25, Typed, Recovering, Alone, Alone', NoneIsNoWriter,
     \A c, d \in Clients : c = d
  DEF StartTimeout, Spend, Move, Listening, Exists, Bounds, files, clients,
      Typed, Kinds, Alone, GaveUp, Recovering, Holding, Settled
<1>26. CASE \E c \in Clients : SpawnFails(c)
  BY <1>26, Typed, Recovering, Alone, Alone', NoneIsNoWriter,
     \A c, d \in Clients : c = d
  DEF SpawnFails, Spend, Move, Bounds, files, clients, Typed, Kinds, Alone,
      GaveUp, Recovering, Holding, Settled
<1>27. CASE \E c \in Clients : Close(c)
  BY <1>27, Typed, Recovering, Alone, Alone', NoneIsNoWriter,
     \A c, d \in Clients : c = d
  DEF Close, Move, MayShutdown, files, clients, Typed, Kinds, Alone, GaveUp,
      Recovering, Holding, Settled
<1>28. CASE UNCHANGED vars
  BY <1>28, Typed, Recovering, Alone, Alone', NoneIsNoWriter,
     \A c, d \in Clients : c = d DEF vars, files, clients, Typed, Kinds, Alone, GaveUp, Recovering, Holding, Settled
<1>q. QED
  BY <1>1, <1>2, <1>3, <1>4, <1>5, <1>6, <1>7, <1>8, <1>9, <1>10, <1>11, <1>12, <1>13,
     <1>14, <1>15, <1>16, <1>17, <1>18, <1>19, <1>20, <1>21, <1>22, <1>23, <1>24,
     <1>25, <1>26, <1>27, <1>28
  DEF Next, WriterStep, ClientStep, Environment

-----------------------------------------------------------------------------
(* Theorems                                                                *)

\* Start-ups, stops, crashes, timeouts and recoveries in any order keep the
\* variables of the election within their types and the bounds.
THEOREM ElectionTypeCorrect == Spec => []TypeOK
<1>1. Typed /\ [Next]_vars => Typed'  BY TypedStep
<1>2. Init => Typed  BY InitTyped
<1>3. Typed => TypeOK  BY TypedGivesTypeOK
<1>q. QED  BY <1>1, <1>2, <1>3, PTL DEF Spec

\* The clean-up of stop() and of the catch blocks of the start-up suffices:
\* once all Writers have left and none was killed, neither lock nor owner.json
\* nor socket remains, with any number of clients, starts, stops and timeouts,
\* and also after the clients' recovery has let two Writers in.
THEOREM WritersCleanUp == Spec => []NothingLeftBehind
<1>1. Typed /\ Tracked /\ [Next]_vars => (Typed /\ Tracked)'
  BY TypedStep, TrackedStep
<1>2. Init => Typed /\ Tracked  BY InitTyped, InitTracked
<1>3. Typed /\ Tracked => NothingLeftBehind
  BY DEF Typed, Tracked, NothingLeftBehind, Holding, Exists
<1>q. QED  BY <1>1, <1>2, <1>3, PTL DEF Spec

\* mkdirSync elects: as long as no Writer is killed, stopped or fails, the
\* process with the database open is the owner of lock and owner.json and its
\* socket stays in place, however many clients and hand-started Writers race,
\* and however many of them time out; hence at most one Writer is open.
THEOREM ElectionIsSound ==
  ASSUME Owning = {}
  PROVE  Spec => [](FailureFree =>
                      OpenIsOwner /\ ServingIsReachable /\ OneWriter)
<1> DEFINE Inv == Typed /\ (FailureFree => Undisturbed)
<1>1. Init => Inv  BY InitTyped, InitUndisturbed
<1>2. Inv /\ [Next]_vars => Inv'
  <2> SUFFICES ASSUME Inv, [Next]_vars PROVE Inv'  OBVIOUS
  <2>1. Typed'  BY TypedStep
  <2>2. FailureFree' => FailureFree
    <3>1. /\ count'["crash"] >= count["crash"]
          /\ count'["stop"] >= count["stop"]
          /\ count'["fault"] >= count["fault"]
      BY CountsGrow DEF Kinds
    <3>q. QED  BY <3>1, <2>1 DEF FailureFree, Typed, Kinds
  <2>q. QED  BY <2>1, <2>2, UndisturbedStep
<1>3. Inv => (FailureFree => OpenIsOwner /\ ServingIsReachable /\ OneWriter)
  BY DEF Typed, Undisturbed, OpenIsOwner, ServingIsReachable, OneWriter, Open,
         Holding
<1> HIDE DEF Inv
<1>q. QED  BY <1>1, <1>2, <1>3, PTL DEF Spec

\* Recovery is safe for a client that has the database to itself: whatever
\* Writers are killed, stopped, fail or are shut down by close(), as long as
\* the client has not given up on a Writer that lives, the lock and the socket
\* it removes belong to nobody, and there is one Writer at most.
THEOREM RecoveryIsSound ==
  ASSUME \A c, d \in Clients : c = d
  PROVE  Spec => [](Alone => OpenIsOwner /\ ServingIsReachable /\ OneWriter)
<1> DEFINE Inv == Typed /\ (Alone => Recovering)
<1>1. Init => Inv  BY InitTyped, InitRecovering
<1>2. Inv /\ [Next]_vars => Inv'
  <2> SUFFICES ASSUME Inv, [Next]_vars PROVE Inv'  OBVIOUS
  <2>1. Typed'  BY TypedStep
  <2>2. Alone' => Alone
    <3>1. /\ count'["manual"] >= count["manual"]
          /\ count'["slow"] >= count["slow"]
      BY CountsGrow DEF Kinds
    <3>q. QED  BY <3>1, <2>1 DEF Alone, GaveUp, Typed, Kinds
  <2>q. QED  BY <2>1, <2>2, RecoveringStep
<1>3. Inv => (Alone => OpenIsOwner /\ ServingIsReachable /\ OneWriter)
  BY DEF Typed, Recovering, OpenIsOwner, ServingIsReachable, OneWriter, Open,
         Holding
<1> HIDE DEF Inv
<1>q. QED  BY <1>1, <1>2, <1>3, PTL DEF Spec
=============================================================================

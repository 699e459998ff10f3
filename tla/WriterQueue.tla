------------------------------ MODULE WriterQueue ------------------------------
(***************************************************************************)
(* One SQLite Writer process and the mutations that reach it: the fetch    *)
(* handler and stop() of startSqliteWriterServer (api/db/writer/server.ts),*)
(* class WriterQueue (queue.ts), and sendRaw of the client (client.ts).    *)
(*                                                                         *)
(* The Writer is one JavaScript thread.  A job runs without an await, so   *)
(* no handler gets a turn while it runs, but the process may die between   *)
(* any two statements and other processes read the database between them.  *)
(* The handlers interleave at the body of the request (await text()) and   *)
(* at the answer of the queue.                                             *)
(*                                                                         *)
(* The content of a statement is abstracted to the effect <<r, i>> of the  *)
(* i-th statement of request r.  The last statement of a migration is the  *)
(* row of the migration history.  SQLite is external: a statement outside  *)
(* a transaction commits by itself, and whatever was not committed is gone *)
(* when the process is.                                                    *)
(***************************************************************************)
EXTENDS Naturals, Sequences, FiniteSets

CONSTANTS
  Requests,   \* one call of sendRaw that is not a health request each
  Kind,       \* "execute", "atomic_batch" or "admin_migrate"
  Size,       \* the number of statements of a request
  File, Sum,  \* file name and checksum of a migration
  NoFile,
  None,
  MaxDepth    \* maxDepth of WriterQueue, 10000 in the source

Kinds == {"execute", "atomic_batch", "admin_migrate"}

ASSUME NoneIsNoRequest == None \notin Requests
ASSUME KindsOfRequests == Kind \in [Requests -> Kinds]
ASSUME SizesOfRequests ==
  /\ Size \in [Requests -> Nat \ {0}]
  /\ \A r \in Requests : Kind[r] = "execute" => Size[r] = 1
ASSUME FilesOfMigrations ==
  \A r \in Requests : Kind[r] = "admin_migrate" <=> File[r] # NoFile
ASSUME DepthNatural == MaxDepth \in Nat

VARIABLES
  stage,      \* the process: serving, draining (stop() runs), stopped, crashed
  accepting,  \* WriterQueue.accepting
  jobs,       \* WriterQueue.jobs
  cur,        \* the job drain() took from the queue; `active' is cur # None
  done,       \* 0 before the BEGIN of cur, then its next statement
  inTx,       \* the connection is inside BEGIN IMMEDIATE
  tx,         \* effects of the open transaction
  db,         \* effects that are committed
  job,        \* what has become of each request in the Writer
  sequence,   \* the counter of the server
  reqSeq,     \* requestSequence of each handler
  reply,      \* the response of each handler: ok and sequence
  verdict,    \* the answer the sender of each request has
  ran         \* history: the requests in the order in which they ran

vars == <<stage, accepting, jobs, cur, done, inTx, tx, db, job, sequence,
          reqSeq, reply, verdict, ran>>

JobStates ==
  {"absent", "reading", "queued", "running", "committed", "aborted"}
Settled == {"committed", "aborted"}
NoReply == [sent |-> FALSE, ok |-> FALSE, sequence |-> 0]

Rows(r) == {<<r, i>> : i \in 1 .. Size[r]}
Transactional(r) == Kind[r] # "execute"

Running == stage \in {"serving", "draining"}

\* A handler, a timer or a signal gets its turn: no job is on the stack.
Turn == Running /\ (cur # None => job[cur] \in Settled)

\* The job on the stack
OnStack == Running /\ cur # None /\ job[cur] = "running"

Init ==
  /\ stage = "serving"
  /\ accepting = TRUE
  /\ jobs = <<>>
  /\ cur = None
  /\ done = 0
  /\ inTx = FALSE
  /\ tx = {}
  /\ db = {}
  /\ job = [r \in Requests |-> "absent"]
  /\ sequence = 0
  /\ reqSeq = [r \in Requests |-> 0]
  /\ reply = [r \in Requests |-> NoReply]
  /\ verdict = [r \in Requests |-> "unsent"]
  /\ ran = <<>>

-----------------------------------------------------------------------------
(* The handler before the queue                                            *)

\* Mutation: requestSequence has no value until the job runs.
ReceiveUnset(r) ==
  /\ Turn /\ verdict[r] = "unsent"
  /\ verdict' = [verdict EXCEPT ![r] = "waiting"]
  /\ job' = [job EXCEPT ![r] = "reading"]
  /\ reqSeq' = [reqSeq EXCEPT ![r] = None]
  /\ UNCHANGED <<stage, accepting, jobs, cur, done, inTx, tx, db, sequence,
                 reply, ran>>

\* fetch() connects and the handler starts to read the body.
Receive(r) ==
  /\ Turn /\ verdict[r] = "unsent"
  /\ verdict' = [verdict EXCEPT ![r] = "waiting"]
  /\ job' = [job EXCEPT ![r] = "reading"]
  /\ reqSeq' = [reqSeq EXCEPT ![r] = sequence]
  /\ UNCHANGED <<stage, accepting, jobs, cur, done, inTx, tx, db, sequence,
                 reply, ran>>

\* fetch() cannot connect: WRITER_UNAVAILABLE.
Bounce(r) ==
  /\ ~Running /\ verdict[r] = "unsent"
  /\ verdict' = [verdict EXCEPT ![r] = "unavailable"]
  /\ UNCHANGED <<stage, accepting, jobs, cur, done, inTx, tx, db, job,
                 sequence, reqSeq, reply, ran>>

\* Too large, not a valid request, another identity or another database:
\* the handler answers by itself, with respond() and so with `sequence'.
Reject(r) ==
  /\ Turn /\ job[r] = "reading"
  /\ job' = [job EXCEPT ![r] = "aborted"]
  /\ reply' = [reply EXCEPT ![r] = [sent |-> TRUE, ok |-> FALSE,
                                    sequence |-> sequence]]
  /\ UNCHANGED <<stage, accepting, jobs, cur, done, inTx, tx, db, sequence,
                 reqSeq, verdict, ran>>

\* drain() takes the job and run() starts: ++sequence.
StartJob(r) ==
  /\ cur' = r
  /\ done' = 0
  /\ sequence' = sequence + 1
  /\ reqSeq' = [reqSeq EXCEPT ![r] = sequence + 1]
  /\ ran' = Append(ran, r)

\* enqueue(): refused when shutting down or full, else pushed; the first
\* one is run at once by drain().
Enqueue(r) ==
  /\ Turn /\ job[r] = "reading"
  /\ \/ /\ ~accepting \/ Len(jobs) >= MaxDepth
        /\ job' = [job EXCEPT ![r] = "aborted"]
        /\ UNCHANGED <<jobs, cur, done, sequence, reqSeq, ran>>
     \/ /\ accepting /\ Len(jobs) < MaxDepth /\ cur = None
        /\ StartJob(r)
        /\ job' = [job EXCEPT ![r] = "running"]
        /\ UNCHANGED jobs
     \/ /\ accepting /\ Len(jobs) < MaxDepth /\ cur # None
        /\ jobs' = Append(jobs, r)
        /\ job' = [job EXCEPT ![r] = "queued"]
        /\ UNCHANGED <<cur, done, sequence, reqSeq, ran>>
  /\ UNCHANGED <<stage, accepting, inTx, tx, db, reply, verdict>>

-----------------------------------------------------------------------------
(* The job                                                                 *)

JobUnchanged == UNCHANGED <<stage, accepting, jobs, cur, sequence, reqSeq,
                            reply, verdict, ran>>

End(result) == job' = [job EXCEPT ![cur] = result]

\* executeStatement(): commits by itself unless a transaction is open.
Execute ==
  /\ OnStack /\ Kind[cur] = "execute"
  /\ \/ /\ IF inTx THEN tx' = tx \cup Rows(cur) /\ UNCHANGED db
                   ELSE db' = db \cup Rows(cur) /\ UNCHANGED tx
        /\ End("committed")
     \/ End("aborted") /\ UNCHANGED <<tx, db>>
  /\ UNCHANGED <<done, inTx>>
  /\ JobUnchanged

\* Mutation: the history is not consulted.
RecordedIgnored(r) == {}

\* The migrations of the same file that the history records
Recorded(r) == {s \in Requests : /\ Kind[s] = "admin_migrate"
                                 /\ File[s] = File[r]
                                 /\ <<s, Size[s]>> \in db}

\* applyMigration() finds its file in the history: done already, or drift.
SkipMigration ==
  /\ OnStack /\ Kind[cur] = "admin_migrate" /\ ~inTx
  /\ Recorded(cur) # {}
  /\ End(IF \E s \in Recorded(cur) : Sum[s] # Sum[cur]
         THEN "aborted" ELSE "committed")
  /\ UNCHANGED <<done, inTx, tx, db>>
  /\ JobUnchanged

\* Mutation: the batch is run without a transaction around it.
BeginForgotten ==
  /\ OnStack /\ Transactional(cur) /\ done = 0
  /\ db' = db \cup {<<cur, 1>>}
  /\ inTx' = TRUE /\ done' = 1
  /\ UNCHANGED <<tx, job>>
  /\ JobUnchanged

\* BEGIN IMMEDIATE: fails if the database is busy or a transaction is open.
Begin ==
  /\ OnStack /\ Transactional(cur) /\ done = 0
  /\ Kind[cur] = "admin_migrate" => Recorded(cur) = {}
  /\ \/ ~inTx /\ inTx' = TRUE /\ done' = 1 /\ UNCHANGED job
     \/ End("aborted") /\ UNCHANGED <<inTx, done>>
  /\ UNCHANGED <<tx, db>>
  /\ JobUnchanged

\* The statements of the transaction, one after the other.
Statement ==
  /\ OnStack /\ done \in 1 .. Size[cur]
  /\ tx' = tx \cup {<<cur, done>>}
  /\ done' = done + 1
  /\ UNCHANGED <<inTx, db, job>>
  /\ JobUnchanged

Commit ==
  /\ OnStack /\ done = Size[cur] + 1
  /\ db' = db \cup tx
  /\ tx' = {}
  /\ inTx' = FALSE
  /\ End("committed")
  /\ UNCHANGED done
  /\ JobUnchanged

\* A statement, or the COMMIT, throws: ROLLBACK and rethrow.
Rollback ==
  /\ OnStack /\ done > 0
  /\ tx' = {}
  /\ inTx' = FALSE
  /\ End("aborted")
  /\ UNCHANGED <<done, db>>
  /\ JobUnchanged

-----------------------------------------------------------------------------
(* The queue after the job, the answer, the end of the process             *)

\* Mutation: the loop takes one job and leaves the rest in the queue.
SettleOnce ==
  /\ Turn /\ cur # None
  /\ cur' = None
  /\ UNCHANGED <<stage, accepting, jobs, done, inTx, tx, db, job, sequence,
                 reqSeq, reply, verdict, ran>>

\* drain(): resolve or reject the promise of the job, then the next job.
Settle ==
  /\ Turn /\ cur # None
  /\ \/ /\ jobs # <<>>
        /\ StartJob(Head(jobs))
        /\ jobs' = Tail(jobs)
        /\ job' = [job EXCEPT ![Head(jobs)] = "running"]
     \/ /\ jobs = <<>>
        /\ cur' = None
        /\ UNCHANGED <<jobs, done, job, sequence, reqSeq, ran>>
  /\ UNCHANGED <<stage, accepting, inTx, tx, db, reply, verdict>>

Unanswered(r) == job[r] \in Settled /\ ~reply[r].sent

\* Mutation: the answer carries the counter as it is by then.
RespondLatest(r) ==
  /\ Turn /\ cur # r /\ Unanswered(r)
  /\ reply' = [reply EXCEPT ![r] = [sent |-> TRUE,
                                    ok |-> job[r] = "committed",
                                    sequence |-> sequence]]
  /\ UNCHANGED <<stage, accepting, jobs, cur, done, inTx, tx, db, job,
                 sequence, reqSeq, verdict, ran>>

\* The handler resumes with the result of its job: the response was built in
\* the job, or is built now, from requestSequence, if the job threw.
Respond(r) ==
  /\ Turn /\ cur # r /\ Unanswered(r)
  /\ reply' = [reply EXCEPT ![r] = [sent |-> TRUE,
                                    ok |-> job[r] = "committed",
                                    sequence |-> reqSeq[r]]]
  /\ UNCHANGED <<stage, accepting, jobs, cur, done, inTx, tx, db, job,
                 sequence, reqSeq, verdict, ran>>

\* stop(), on SIGINT or SIGTERM: draining and stopAccepting().
Stop ==
  /\ Turn /\ stage = "serving"
  /\ stage' = "draining"
  /\ accepting' = FALSE
  /\ UNCHANGED <<jobs, cur, done, inTx, tx, db, job, sequence, reqSeq, reply,
                 verdict, ran>>

\* whenIdle() finds the queue idle (its timer runs after the handlers that
\* are ready), then server.stop(true), connection.close() and exit.
Close ==
  /\ Turn /\ stage = "draining" /\ cur = None /\ jobs = <<>>
  /\ ~ \E r \in Requests : Unanswered(r)
  /\ stage' = "stopped"
  /\ UNCHANGED <<accepting, jobs, cur, done, inTx, tx, db, job, sequence,
                 reqSeq, reply, verdict, ran>>

\* The process is killed at any point, in the middle of a job too.
Crash ==
  /\ Running
  /\ stage' = "crashed"
  /\ tx' = {}
  /\ inTx' = FALSE
  /\ UNCHANGED <<accepting, jobs, cur, done, db, job, sequence, reqSeq,
                 reply, verdict, ran>>

-----------------------------------------------------------------------------
(* sendRaw in the process of the sender                                    *)

\* The response arrives: the result, or WRITER_REQUEST_FAILED.
Deliver(r) ==
  /\ verdict[r] = "waiting" /\ reply[r].sent
  /\ verdict' = [verdict EXCEPT ![r] = IF reply[r].ok THEN "ok" ELSE "failed"]
  /\ UNCHANGED <<stage, accepting, jobs, cur, done, inTx, tx, db, job,
                 sequence, reqSeq, reply, ran>>

\* Mutation: a timeout is reported as a failed request.
TimeoutAsFailure(r) ==
  /\ verdict[r] = "waiting"
  /\ verdict' = [verdict EXCEPT ![r] = "failed"]
  /\ UNCHANGED <<stage, accepting, jobs, cur, done, inTx, tx, db, job,
                 sequence, reqSeq, reply, ran>>

\* AbortSignal.timeout fires, or the response is cut off: the result is
\* unknown.  The handler in the Writer goes on.
Timeout(r) ==
  /\ verdict[r] = "waiting"
  /\ verdict' = [verdict EXCEPT ![r] = "unknown"]
  /\ UNCHANGED <<stage, accepting, jobs, cur, done, inTx, tx, db, job,
                 sequence, reqSeq, reply, ran>>

\* The connection is reset by the end of the Writer: fetch() throws an error
\* that is not a timeout, whatever the Writer had done by then.
Reset(r) ==
  /\ ~Running /\ verdict[r] = "waiting"
  /\ verdict' = [verdict EXCEPT ![r] = "unavailable"]
  /\ UNCHANGED <<stage, accepting, jobs, cur, done, inTx, tx, db, job,
                 sequence, reqSeq, reply, ran>>

-----------------------------------------------------------------------------
Serve == \/ Execute \/ SkipMigration \/ Begin \/ Statement \/ Commit
         \/ Rollback \/ Settle \/ Close
         \/ \E r \in Requests : Reject(r) \/ Enqueue(r) \/ Respond(r)

Environment ==
  \/ Stop \/ Crash
  \/ \E r \in Requests : Receive(r) \/ Bounce(r) \/ Deliver(r) \/ Timeout(r)
                         \/ Reset(r)

Next == Serve \/ Environment

Spec == Init /\ [][Next]_vars

\* The event loop goes on while the process lives: a handler with its body
\* is run, a job on the stack runs to its end, drain() resumes.
FairSpec ==
  /\ Spec
  /\ WF_vars(Execute \/ SkipMigration \/ Begin \/ Statement \/ Commit)
  /\ WF_vars(Settle)
  /\ WF_vars(Close)
  /\ \A r \in Requests : WF_vars(Enqueue(r)) /\ WF_vars(Respond(r))

-----------------------------------------------------------------------------
(* Properties                                                              *)

\* The variables keep their types (no property of the code by itself).
TypeOK ==
  /\ stage \in {"serving", "draining", "stopped", "crashed"}
  /\ accepting \in BOOLEAN
  /\ jobs \in Seq(Requests)
  /\ cur \in Requests \cup {None}
  /\ done \in Nat
  /\ inTx \in BOOLEAN
  /\ tx \subseteq Requests \X Nat
  /\ db \subseteq Requests \X Nat
  /\ job \in [Requests -> JobStates]
  /\ sequence \in Nat
  /\ reqSeq \in [Requests -> Nat]
  /\ reply \in [Requests -> [sent : BOOLEAN, ok : BOOLEAN, sequence : Nat]]
  /\ verdict \in [Requests -> {"unsent", "waiting", "ok", "failed", "unknown",
                               "unavailable"}]
  /\ ran \in Seq(Requests)

\* What SerialStore knows of a request: a job that ended has decided it, and
\* so has a connection that could not be made.
Fate(state, answer) ==
  CASE state = "committed" -> "applied"
    [] state = "aborted" -> "refused"
    [] state = "absent" /\ answer = "unavailable" -> "refused"
    [] OTHER -> "open"

fate == [r \in Requests |-> Fate(job[r], verdict[r])]

Store == INSTANCE SerialStore

\* The Writer implements SerialStore: to whoever reads the database and to
\* whoever gets an answer, requests take effect whole, one at a time, at most
\* once, "ok" is given only for what is committed and "failed" only for what
\* never will be, although statements run one by one, the process may die
\* between them and the senders give up when they like.
StoreSpec == Store!Spec

\* A migration file takes effect at most once, however many processes ask for
\* it at start-up and however often one repeats a request whose result it did
\* not learn.
MigrationOnce ==
  \A r, s \in Requests :
    /\ r # s /\ Kind[r] = "admin_migrate" /\ File[s] = File[r]
    /\ <<r, 1>> \in db
    => <<s, 1>> \notin db

\* stop() abandons nothing that enqueue() accepted: once the process has left
\* in good order, no request is queued or half way, and no transaction is open
\* on the connection that was closed.
DrainedBeforeClose ==
  stage = "stopped" =>
    /\ jobs = <<>> /\ ~inTx
    /\ \A r \in Requests : job[r] \notin {"queued", "running"}

\* The sequence number in the answer to a request that ran is its place in the
\* order in which the Writer ran the requests, also when the job failed and
\* the handler composed the answer after later jobs had run.
SequenceNamesRun ==
  \A r \in Requests : \A i \in 1 .. Len(ran) :
    reply[r].sent /\ ran[i] = r => reply[r].sequence = i

\* A request the queue accepted is settled, unless the Writer dies.
AcceptedIsSettled ==
  \A r \in Requests :
    job[r] \in {"queued", "running"} ~>
      (job[r] \in Settled \/ stage = "crashed")

\* A Writer that was told to stop does stop, whatever is in its queue.
StopTerminates == stage = "draining" ~> ~Running
=============================================================================

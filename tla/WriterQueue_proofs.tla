-------------------------- MODULE WriterQueue_proofs --------------------------
(***************************************************************************)
(* Proofs about WriterQueue for every set of requests, every number of     *)
(* statements in them and every depth of the queue.                        *)
(*                                                                         *)
(* The invariant WQInv says where the control of the Writer is: what is in *)
(* the queue (Queue), which job may run (Current), what the transaction of *)
(* that job holds and what it may rely on (Transaction), whose effects are *)
(* in the database (Database), what an answer says (Replies) and how the   *)
(* jobs that ran are numbered (Numbered).                                  *)
(***************************************************************************)
EXTENDS WriterQueue, SequenceTheorems, TLAPS

\* The queue holds the requests that are queued, each of them once.
Queue ==
  /\ \A i \in 1 .. Len(jobs) : job[jobs[i]] = "queued"
  /\ \A i, j \in 1 .. Len(jobs) : jobs[i] = jobs[j] => i = j
  /\ \A r \in Requests : job[r] = "queued" =>
       \E i \in 1 .. Len(jobs) : jobs[i] = r

\* Only the job that drain() took runs; it runs or waits to be settled.
Current ==
  /\ cur # None => job[cur] \in {"running"} \cup Settled
  /\ \A r \in Requests : job[r] = "running" => cur = r

\* A transaction is open exactly while the job on the stack has begun one; it
\* holds the statements that have run, and a migration in it is new.
Transaction ==
  /\ ~inTx => tx = {}
  /\ inTx => Running /\ cur # None /\ job[cur] = "running" /\ done > 0
  /\ cur # None /\ job[cur] = "running" /\ done > 0 =>
       /\ Transactional(cur) /\ done <= Size[cur] + 1
       /\ Kind[cur] = "admin_migrate" => Recorded(cur) = {}
       /\ Running => inTx /\ tx = {<<cur, i>> : i \in 1 .. (done - 1)}

\* The database holds effects of committed requests only, and all of them.
Database ==
  /\ \A r \in Requests, i \in Nat : <<r, i>> \in db => job[r] = "committed"
  /\ \A r \in Requests : <<r, 1>> \in db => Rows(r) \subseteq db

\* An answer tells what became of the job; what was not sent is not there.
Replies ==
  \A r \in Requests :
    /\ reply[r].sent => /\ job[r] \in Settled
                        /\ reply[r].ok <=> job[r] = "committed"
    /\ verdict[r] = "unsent" => job[r] = "absent"
    /\ job[r] = "absent" => verdict[r] \in {"unsent", "unavailable"}

\* A request that ran has its place in the order as its requestSequence.
Numbered ==
  /\ Len(ran) = sequence
  /\ \A i \in 1 .. Len(ran) :
       /\ job[ran[i]] \in {"running"} \cup Settled
       /\ reqSeq[ran[i]] = i

WQInv ==
  /\ TypeOK /\ Queue /\ Current /\ Transaction /\ Database /\ Replies
  /\ Numbered /\ SequenceNamesRun /\ DrainedBeforeClose /\ MigrationOnce

-----------------------------------------------------------------------------
\* A Writer that has just started satisfies the invariant.
LEMMA InitWQInv == Init => WQInv
<1> SUFFICES ASSUME Init PROVE WQInv
  OBVIOUS
<1>1. TypeOK
  <2>1. <<>> \in Seq(Requests) /\ {} \subseteq Requests \X Nat
    OBVIOUS
  <2>2. reply \in [Requests -> [sent : BOOLEAN, ok : BOOLEAN, sequence : Nat]]
    BY DEF Init, NoReply
  <2>3. QED
    BY <2>1, <2>2 DEF Init, TypeOK, JobStates
<1>2. Queue /\ Current /\ Replies /\ Numbered
  BY NoneIsNoRequest DEF Init, Queue, Current, Replies, Numbered, NoReply
<1>3. Transaction /\ Database
  BY DEF Init, Transaction, Database
<1>4. SequenceNamesRun /\ DrainedBeforeClose /\ MigrationOnce
  BY DEF Init, SequenceNamesRun, DrainedBeforeClose, MigrationOnce
<1>5. QED
  BY <1>1, <1>2, <1>3, <1>4 DEF WQInv

\* The variables keep their types.
LEMMA StepType ==
  ASSUME WQInv, [Next]_vars
  PROVE  TypeOK'
<1> USE NoneIsNoRequest DEF WQInv, TypeOK, JobStates, JobUnchanged, End, StartJob
<1>1. CASE Execute
  <2>1. cur \in Requests
    BY <1>1 DEF Execute, OnStack
  <2>2. Rows(cur) \subseteq Requests \X Nat
    BY <2>1, SizesOfRequests DEF Rows
  <2>3. QED
    BY <1>1, <2>1, <2>2 DEF Execute
<1>2. CASE SkipMigration
  BY <1>2 DEF SkipMigration
<1>3. CASE Begin
  <2>1. cur \in Requests
    BY <1>3 DEF Begin, OnStack
  <2>2. CASE inTx' = TRUE /\ done' = 1 /\ UNCHANGED job
    BY <1>3, <2>2 DEF Begin
  <2>3. CASE End("aborted") /\ UNCHANGED <<inTx, done>>
    BY <1>3, <2>1, <2>3 DEF Begin
  <2>4. QED
    BY <1>3, <2>2, <2>3 DEF Begin
<1>4. CASE Statement
  BY <1>4 DEF Statement, OnStack
<1>5. CASE Commit
  BY <1>5 DEF Commit
<1>6. CASE Rollback
  BY <1>6 DEF Rollback
<1>7. CASE Settle
  <2>1. CASE jobs # <<>>
    <3>1. Head(jobs) \in Requests /\ Tail(jobs) \in Seq(Requests)
      BY <2>1, HeadTailProperties
    <3>2. Append(ran, Head(jobs)) \in Seq(Requests)
      BY <3>1, AppendProperties
    <3>3. /\ StartJob(Head(jobs)) /\ jobs' = Tail(jobs)
          /\ job' = [job EXCEPT ![Head(jobs)] = "running"]
          /\ UNCHANGED <<stage, accepting, inTx, tx, db, reply, verdict>>
      BY <1>7, <2>1 DEF Settle
    <3>4. QED
      BY SMTT(40), <3>1, <3>2, <3>3
  <2>2. CASE jobs = <<>>
    BY <1>7, <2>2 DEF Settle
  <2>3. QED
    BY <2>1, <2>2
<1>8. CASE Close
  BY <1>8 DEF Close
<1>9. CASE Stop
  BY <1>9 DEF Stop
<1>10. CASE Crash
  BY <1>10 DEF Crash
<1>11. ASSUME NEW r \in Requests, Reject(r) PROVE TypeOK'
  BY <1>11 DEF Reject
<1>12. ASSUME NEW r \in Requests, Enqueue(r) PROVE TypeOK'
  <2>1. Append(ran, r) \in Seq(Requests) /\ Append(jobs, r) \in Seq(Requests)
    BY AppendProperties
  <2>2. /\ UNCHANGED <<stage, accepting, inTx, tx, db, reply, verdict>>
        /\ job' \in [Requests -> JobStates]
    BY <1>12 DEF Enqueue
  <2>3. /\ jobs' \in Seq(Requests) /\ ran' \in Seq(Requests)
        /\ cur' \in Requests \cup {None}
    BY <1>12, <2>1 DEF Enqueue
  <2>4. done' \in Nat /\ sequence' \in Nat /\ reqSeq' \in [Requests -> Nat]
    BY SMTT(40), <1>12 DEF Enqueue
  <2>5. QED
    BY <2>2, <2>3, <2>4
<1>13. ASSUME NEW r \in Requests, Respond(r) PROVE TypeOK'
  BY <1>13 DEF Respond
<1>14. ASSUME NEW r \in Requests, Receive(r) PROVE TypeOK'
  BY <1>14 DEF Receive
<1>15. ASSUME NEW r \in Requests, Bounce(r) PROVE TypeOK'
  BY <1>15 DEF Bounce
<1>16. ASSUME NEW r \in Requests, Deliver(r) PROVE TypeOK'
  BY <1>16 DEF Deliver
<1>17. ASSUME NEW r \in Requests, Timeout(r) PROVE TypeOK'
  BY <1>17 DEF Timeout
<1>18. ASSUME NEW r \in Requests, Reset(r) PROVE TypeOK'
  BY <1>18 DEF Reset
<1>19. CASE UNCHANGED vars
  BY <1>19 DEF vars
<1>20. QED
  BY <1>1, <1>2, <1>3, <1>4, <1>5, <1>6, <1>7, <1>8, <1>9, <1>10, <1>11, <1>12,
     <1>13, <1>14, <1>15, <1>16, <1>17, <1>18, <1>19
     DEF Next, Serve, Environment

\* The queue keeps exactly the queued requests.
LEMMA StepQueue ==
  ASSUME WQInv, [Next]_vars
  PROVE  Queue'
<1> USE DEF WQInv, JobUnchanged, End
<1> USE NoneIsNoRequest
<1>t. /\ job \in [Requests -> JobStates] /\ cur \in Requests \cup {None}
      /\ jobs \in Seq(Requests) /\ Len(jobs) \in Nat
      /\ \A i \in 1 .. Len(jobs) : jobs[i] \in Requests
  BY DEF TypeOK
<1>1. CASE Execute
  BY <1>t, <1>1 DEF Execute, Queue, OnStack
<1>2. CASE SkipMigration
  BY <1>t, <1>2 DEF SkipMigration, Queue, OnStack
<1>3. CASE Begin
  BY <1>t, <1>3 DEF Begin, Queue, OnStack
<1>4. CASE Statement
  BY <1>t, <1>4 DEF Statement, Queue, OnStack
<1>5. CASE Commit
  BY <1>t, <1>5 DEF Commit, Queue, OnStack
<1>6. CASE Rollback
  BY <1>t, <1>6 DEF Rollback, Queue, OnStack
<1>7. CASE Settle
  <2>1. CASE jobs # <<>>
    <3> DEFINE h == Head(jobs)
    <3>1. /\ h \in Requests /\ Tail(jobs) \in Seq(Requests)
          /\ Len(Tail(jobs)) = Len(jobs) - 1 /\ h = jobs[1] /\ Len(jobs) > 0
          /\ \A i \in 1 .. Len(Tail(jobs)) : Tail(jobs)[i] = jobs[i + 1]
      BY <1>t, <2>1, HeadTailProperties
    <3>2. jobs' = Tail(jobs) /\ job' = [job EXCEPT ![h] = "running"]
      BY <1>7, <2>1 DEF Settle
    <3> HIDE DEF h
    <3>3. \A i \in 1 .. Len(jobs') :
            i + 1 \in 1 .. Len(jobs) /\ jobs'[i] = jobs[i + 1] /\ jobs'[i] # h
      BY <1>t, <3>1, <3>2 DEF Queue
    <3>4. ASSUME NEW r \in Requests, job'[r] = "queued"
          PROVE  \E i \in 1 .. Len(jobs') : jobs'[i] = r
      <4>1. job[r] = "queued" /\ r # h
        BY <1>t, <3>1, <3>2, <3>4
      <4>2. PICK i \in 1 .. Len(jobs) : jobs[i] = r
        BY <4>1 DEF Queue
      <4>3. i - 1 \in 1 .. Len(jobs') /\ jobs'[i - 1] = r
        BY <1>t, <3>1, <3>2, <4>1, <4>2
      <4>4. QED
        BY <4>3
    <3>5. \A i \in 1 .. Len(jobs') : job'[jobs'[i]] = "queued"
      BY <1>t, <3>1, <3>2, <3>3 DEF Queue
    <3>6. \A i, j \in 1 .. Len(jobs') : jobs'[i] = jobs'[j] => i = j
      <4>1. \A i, j \in 1 .. Len(jobs) : jobs[i] = jobs[j] => i = j
        BY DEF Queue
      <4>2. Len(jobs') \in Nat
        BY <1>t, <3>1, <3>2
      <4>3. QED
        BY <1>t, <3>3, <4>1, <4>2
    <3>7. QED
      BY <3>4, <3>5, <3>6 DEF Queue
  <2>2. CASE jobs = <<>>
    BY <1>t, <1>7, <2>2 DEF Settle, Queue
  <2>3. QED
    BY <2>1, <2>2
<1>8. CASE Close
  BY <1>t, <1>8 DEF Close, Queue, Settled, Turn
<1>9. CASE Stop
  BY <1>t, <1>9 DEF Stop, Queue, Settled, Turn
<1>10. CASE Crash
  BY <1>t, <1>10 DEF Crash, Queue
<1>11. ASSUME NEW r \in Requests, Reject(r) PROVE Queue'
  BY <1>t, <1>11 DEF Reject, Queue, Settled, Turn
<1>12. ASSUME NEW r \in Requests, Enqueue(r) PROVE Queue'
  <2>1. CASE jobs' = Append(jobs, r) /\ job' = [job EXCEPT ![r] = "queued"]
    <3>1. /\ Len(jobs') = Len(jobs) + 1 /\ jobs'[Len(jobs) + 1] = r
          /\ \A i \in 1 .. Len(jobs) : jobs'[i] = jobs[i]
      BY <1>t, <2>1, AppendProperties
    <3>2. \A i \in 1 .. Len(jobs) : jobs[i] # r
      BY <1>t, <1>12 DEF Enqueue, Queue
    <3>3. \A i \in 1 .. Len(jobs') : job'[jobs'[i]] = "queued"
      BY <1>t, <2>1, <3>1, <3>2 DEF Queue
    <3>4. \A i, j \in 1 .. Len(jobs') : jobs'[i] = jobs'[j] => i = j
      BY <1>t, <3>1, <3>2 DEF Queue
    <3>5. ASSUME NEW q \in Requests, job'[q] = "queued"
          PROVE  \E i \in 1 .. Len(jobs') : jobs'[i] = q
      <4>1. CASE q = r
        BY <1>t, <3>1, <4>1
      <4>2. CASE q # r
        <5>1. PICK i \in 1 .. Len(jobs) : jobs[i] = q
          BY <1>t, <2>1, <3>5, <4>2 DEF Queue
        <5>2. QED
          BY <1>t, <3>1, <5>1
      <4>3. QED
        BY <4>1, <4>2
    <3>6. QED
      BY <3>3, <3>4, <3>5 DEF Queue
  <2>2. CASE jobs' = jobs /\ job' = [job EXCEPT ![r] = "running"]
    BY <1>t, <1>12, <2>2 DEF Enqueue, Queue
  <2>3. CASE jobs' = jobs /\ job' = [job EXCEPT ![r] = "aborted"]
    BY <1>t, <1>12, <2>3 DEF Enqueue, Queue
  <2>4. QED
    BY <1>12, <2>1, <2>2, <2>3 DEF Enqueue
<1>13. ASSUME NEW r \in Requests, Respond(r) PROVE Queue'
  BY <1>t, <1>13 DEF Respond, Queue, Settled, Turn
<1>14. ASSUME NEW r \in Requests, Receive(r) PROVE Queue'
  BY <1>t, <1>14 DEF Receive, Queue, Replies
<1>15. ASSUME NEW r \in Requests, Bounce(r) PROVE Queue'
  BY <1>t, <1>15 DEF Bounce, Queue
<1>16. ASSUME NEW r \in Requests, Deliver(r) PROVE Queue'
  BY <1>t, <1>16 DEF Deliver, Queue
<1>17. ASSUME NEW r \in Requests, Timeout(r) PROVE Queue'
  BY <1>t, <1>17 DEF Timeout, Queue
<1>18. ASSUME NEW r \in Requests, Reset(r) PROVE Queue'
  BY <1>t, <1>18 DEF Reset, Queue
<1>19. CASE UNCHANGED vars
  BY <1>t, <1>19 DEF vars, Queue
<1>20. QED
  BY <1>1, <1>2, <1>3, <1>4, <1>5, <1>6, <1>7, <1>8, <1>9, <1>10, <1>11, <1>12,
     <1>13, <1>14, <1>15, <1>16, <1>17, <1>18, <1>19
     DEF Next, Serve, Environment

\* Only the job that was taken from the queue runs.
LEMMA StepCurrent ==
  ASSUME WQInv, [Next]_vars
  PROVE  Current'
<1> USE DEF WQInv, JobUnchanged, End
<1> USE NoneIsNoRequest
<1>t. /\ job \in [Requests -> JobStates] /\ cur \in Requests \cup {None}
      /\ jobs \in Seq(Requests) /\ Len(jobs) \in Nat
      /\ \A i \in 1 .. Len(jobs) : jobs[i] \in Requests
  BY DEF TypeOK
<1>1. CASE Execute
  BY <1>t, <1>1 DEF Execute, Current, Settled, OnStack
<1>2. CASE SkipMigration
  BY <1>t, <1>2 DEF SkipMigration, Current, Settled, OnStack
<1>3. CASE Begin
  BY <1>t, <1>3 DEF Begin, Current, Settled, OnStack
<1>4. CASE Statement
  BY <1>t, <1>4 DEF Statement, Current, Settled, OnStack
<1>5. CASE Commit
  BY <1>t, <1>5 DEF Commit, Current, Settled, OnStack
<1>6. CASE Rollback
  BY <1>t, <1>6 DEF Rollback, Current, Settled, OnStack
<1>7. CASE Settle
  <2>1. jobs # <<>> => Head(jobs) \in Requests
    BY <1>t, HeadTailProperties
  <2>2. QED
    BY <1>t, <1>7, <2>1 DEF Settle, Current, Settled, Turn, StartJob
<1>8. CASE Close
  BY <1>t, <1>8 DEF Close, Current, Settled, Turn
<1>9. CASE Stop
  BY <1>t, <1>9 DEF Stop, Current, Settled, Turn
<1>10. CASE Crash
  BY <1>t, <1>10 DEF Crash, Current, Settled
<1>11. ASSUME NEW r \in Requests, Reject(r) PROVE Current'
  BY <1>t, <1>11 DEF Reject, Current, Settled, Turn
<1>12. ASSUME NEW r \in Requests, Enqueue(r) PROVE Current'
  BY <1>t, <1>12 DEF Enqueue, Current, Settled, Turn, StartJob
<1>13. ASSUME NEW r \in Requests, Respond(r) PROVE Current'
  BY <1>t, <1>13 DEF Respond, Current, Settled, Turn
<1>14. ASSUME NEW r \in Requests, Receive(r) PROVE Current'
  BY <1>t, <1>14 DEF Receive, Current, Replies, Settled
<1>15. ASSUME NEW r \in Requests, Bounce(r) PROVE Current'
  BY <1>t, <1>15 DEF Bounce, Current, Settled
<1>16. ASSUME NEW r \in Requests, Deliver(r) PROVE Current'
  BY <1>t, <1>16 DEF Deliver, Current, Settled
<1>17. ASSUME NEW r \in Requests, Timeout(r) PROVE Current'
  BY <1>t, <1>17 DEF Timeout, Current, Settled
<1>18. ASSUME NEW r \in Requests, Reset(r) PROVE Current'
  BY <1>t, <1>18 DEF Reset, Current, Settled
<1>19. CASE UNCHANGED vars
  BY <1>t, <1>19 DEF vars, Current
<1>20. QED
  BY <1>1, <1>2, <1>3, <1>4, <1>5, <1>6, <1>7, <1>8, <1>9, <1>10, <1>11, <1>12,
     <1>13, <1>14, <1>15, <1>16, <1>17, <1>18, <1>19
     DEF Next, Serve, Environment

\* An answer keeps telling what became of the job.
LEMMA StepReplies ==
  ASSUME WQInv, [Next]_vars
  PROVE  Replies'
<1> USE DEF WQInv, JobUnchanged, End
<1> USE NoneIsNoRequest
<1>t. /\ job \in [Requests -> JobStates] /\ cur \in Requests \cup {None}
      /\ jobs \in Seq(Requests) /\ Len(jobs) \in Nat
      /\ \A i \in 1 .. Len(jobs) : jobs[i] \in Requests
      /\ reply \in [Requests -> [sent : BOOLEAN, ok : BOOLEAN, sequence : Nat]]
      /\ verdict \in [Requests -> {"unsent", "waiting", "ok", "failed",
                                   "unknown", "unavailable"}]
  BY DEF TypeOK
<1>1. CASE Execute
  BY <1>t, <1>1 DEF Execute, Replies, Settled, OnStack
<1>2. CASE SkipMigration
  BY <1>t, <1>2 DEF SkipMigration, Replies, Settled, OnStack
<1>3. CASE Begin
  BY <1>t, <1>3 DEF Begin, Replies, Settled, OnStack
<1>4. CASE Statement
  BY <1>t, <1>4 DEF Statement, Replies, Settled, OnStack
<1>5. CASE Commit
  BY <1>t, <1>5 DEF Commit, Replies, Settled, OnStack
<1>6. CASE Rollback
  BY <1>t, <1>6 DEF Rollback, Replies, Settled, OnStack
<1>7. CASE Settle
  <2>1. jobs # <<>> => Head(jobs) \in Requests /\ job[Head(jobs)] = "queued"
    BY <1>t, HeadTailProperties DEF Queue
  <2>2. QED
    BY <1>t, <1>7, <2>1 DEF Settle, Replies, Settled, Turn, StartJob
<1>8. CASE Close
  BY <1>t, <1>8 DEF Close, Replies, Settled, Turn
<1>9. CASE Stop
  BY <1>t, <1>9 DEF Stop, Replies, Settled, Turn
<1>10. CASE Crash
  BY <1>t, <1>10 DEF Crash, Replies, Settled
<1>11. ASSUME NEW r \in Requests, Reject(r) PROVE Replies'
  BY <1>t, <1>11 DEF Reject, Replies, Settled, Turn
<1>12. ASSUME NEW r \in Requests, Enqueue(r) PROVE Replies'
  BY <1>t, <1>12 DEF Enqueue, Replies, Settled, Turn, StartJob
<1>13. ASSUME NEW r \in Requests, Respond(r) PROVE Replies'
  <2>1. /\ job' = job /\ verdict' = verdict /\ job[r] \in Settled
        /\ reply' = [reply EXCEPT ![r] = [sent |-> TRUE,
                                          ok |-> job[r] = "committed",
                                          sequence |-> reqSeq[r]]]
    BY <1>13 DEF Respond, Unanswered
  <2>2. reply'[r].sent /\ (reply'[r].ok <=> job[r] = "committed")
    BY <1>t, <2>1
  <2>3. \A q \in Requests \ {r} : reply'[q] = reply[q]
    BY <1>t, <2>1
  <2>4. QED
    BY <2>1, <2>2, <2>3 DEF Replies
<1>14. ASSUME NEW r \in Requests, Receive(r) PROVE Replies'
  BY <1>t, <1>14 DEF Receive, Replies, Settled, Turn
<1>15. ASSUME NEW r \in Requests, Bounce(r) PROVE Replies'
  BY <1>t, <1>15 DEF Bounce, Replies, Settled
<1>16. ASSUME NEW r \in Requests, Deliver(r) PROVE Replies'
  BY <1>t, <1>16 DEF Deliver, Replies, Settled
<1>17. ASSUME NEW r \in Requests, Timeout(r) PROVE Replies'
  BY <1>t, <1>17 DEF Timeout, Replies, Settled
<1>18. ASSUME NEW r \in Requests, Reset(r) PROVE Replies'
  BY <1>t, <1>18 DEF Reset, Replies, Settled
<1>19. CASE UNCHANGED vars
  BY <1>t, <1>19 DEF vars, Replies
<1>20. QED
  BY <1>1, <1>2, <1>3, <1>4, <1>5, <1>6, <1>7, <1>8, <1>9, <1>10, <1>11, <1>12,
     <1>13, <1>14, <1>15, <1>16, <1>17, <1>18, <1>19
     DEF Next, Serve, Environment

-----------------------------------------------------------------------------
\* The open transaction keeps belonging to the job on the stack.
LEMMA StepTransaction ==
  ASSUME WQInv, [Next]_vars
  PROVE  Transaction'
<1> USE DEF WQInv, JobUnchanged, End
<1> USE NoneIsNoRequest
<1>t. /\ job \in [Requests -> JobStates] /\ cur \in Requests \cup {None}
      /\ done \in Nat /\ inTx \in BOOLEAN
      /\ tx \subseteq Requests \X Nat /\ db \subseteq Requests \X Nat
  BY DEF TypeOK
<1>s. \A r \in Requests : Size[r] \in Nat /\ Size[r] > 0 /\ Kind[r] \in Kinds
  BY SizesOfRequests, KindsOfRequests
<1>h. jobs # <<>> => Head(jobs) \in Requests /\ job[Head(jobs)] = "queued"
  <2>1. jobs \in Seq(Requests)
    BY DEF TypeOK
  <2>2. QED
    BY <2>1, HeadTailProperties DEF Queue
<1>1. CASE Execute
  BY <1>t, <1>s, <1>h, <1>1
     DEF Execute, Transaction, Running, OnStack, Transactional, Recorded
<1>2. CASE SkipMigration
  BY <1>t, <1>s, <1>h, <1>2
     DEF SkipMigration, Transaction, Running, OnStack, Transactional, Recorded
<1>3. CASE Begin
  BY <1>t, <1>s, <1>h, <1>3
     DEF Begin, Transaction, Running, OnStack, Transactional, Recorded
<1>4. CASE Statement
  BY <1>t, <1>s, <1>h, <1>4
     DEF Statement, Transaction, Running, OnStack, Transactional, Recorded
<1>5. CASE Commit
  BY <1>t, <1>s, <1>h, <1>5
     DEF Commit, Transaction, Running, OnStack, Transactional, Recorded
<1>6. CASE Rollback
  BY <1>t, <1>s, <1>h, <1>6
     DEF Rollback, Transaction, Running, OnStack, Transactional, Recorded
<1>7. CASE Settle
  BY <1>t, <1>s, <1>h, <1>7
     DEF Settle, Transaction, Running, Settled, Turn, StartJob, Transactional,
         Recorded
<1>8. CASE Close
  BY <1>t, <1>s, <1>h, <1>8
     DEF Close, Transaction, Running, Settled, Turn, Transactional, Recorded
<1>9. CASE Stop
  BY <1>t, <1>s, <1>h, <1>9
     DEF Stop, Transaction, Running, Settled, Turn, Transactional, Recorded
<1>10. CASE Crash
  BY <1>t, <1>s, <1>h, <1>10
     DEF Crash, Transaction, Running, Transactional, Recorded
<1>11. ASSUME NEW r \in Requests, Reject(r) PROVE Transaction'
  BY <1>t, <1>s, <1>h, <1>11
     DEF Reject, Transaction, Running, Settled, Turn, Transactional, Recorded
<1>12. ASSUME NEW r \in Requests, Enqueue(r) PROVE Transaction'
  BY <1>t, <1>s, <1>h, <1>12
     DEF Enqueue, Transaction, Running, Settled, Turn, StartJob, Transactional,
         Recorded
<1>13. ASSUME NEW r \in Requests, Respond(r) PROVE Transaction'
  BY <1>t, <1>s, <1>h, <1>13
     DEF Respond, Transaction, Running, Settled, Turn, Transactional, Recorded
<1>14. ASSUME NEW r \in Requests, Receive(r) PROVE Transaction'
  BY <1>t, <1>14
     DEF Receive, Transaction, Running, Settled, Turn, Transactional, Recorded
<1>15. ASSUME NEW r \in Requests, Bounce(r) PROVE Transaction'
  BY <1>t, <1>s, <1>h, <1>15
     DEF Bounce, Transaction, Running, Transactional, Recorded
<1>16. ASSUME NEW r \in Requests, Deliver(r) PROVE Transaction'
  BY <1>t, <1>s, <1>h, <1>16
     DEF Deliver, Transaction, Running, Transactional, Recorded
<1>17. ASSUME NEW r \in Requests, Timeout(r) PROVE Transaction'
  BY <1>t, <1>s, <1>h, <1>17
     DEF Timeout, Transaction, Running, Transactional, Recorded
<1>18. ASSUME NEW r \in Requests, Reset(r) PROVE Transaction'
  BY <1>t, <1>s, <1>h, <1>18
     DEF Reset, Transaction, Running, Transactional, Recorded
<1>19. CASE UNCHANGED vars
  BY <1>t, <1>19 DEF vars, Transaction, Running, Recorded
<1>20. QED
  BY <1>1, <1>2, <1>3, <1>4, <1>5, <1>6, <1>7, <1>8, <1>9, <1>10, <1>11, <1>12,
     <1>13, <1>14, <1>15, <1>16, <1>17, <1>18, <1>19
     DEF Next, Serve, Environment

\* What the two ways to commit have in common: a statement by itself, or the
\* transaction of the job, adds all the effects of the job at once.
LEMMA ExecuteAdds ==
  ASSUME WQInv, Execute
  PROVE  /\ cur \in Requests /\ job[cur] = "running"
         /\ Kind[cur] = "execute" /\ inTx = FALSE
         /\ \/ db' = db \cup Rows(cur) /\ job' = [job EXCEPT ![cur] = "committed"]
            \/ db' = db /\ job' = [job EXCEPT ![cur] = "aborted"]
<1>1. cur \in Requests /\ job[cur] = "running" /\ Kind[cur] = "execute"
  BY DEF WQInv, TypeOK, Execute, OnStack
<1>2. inTx = FALSE
  BY <1>1 DEF WQInv, TypeOK, Transaction, Transactional
<1>3. QED
  BY <1>1, <1>2 DEF Execute, End

\* COMMIT adds what the transaction of the job on the stack holds.
LEMMA CommitAdds ==
  ASSUME WQInv, Commit
  PROVE  /\ cur \in Requests /\ job[cur] = "running" /\ done > 0
         /\ Transactional(cur)
         /\ Kind[cur] = "admin_migrate" => Recorded(cur) = {}
         /\ db' = db \cup Rows(cur)
         /\ job' = [job EXCEPT ![cur] = "committed"]
<1>1. /\ cur \in Requests /\ job[cur] = "running" /\ done = Size[cur] + 1
      /\ Running /\ cur # None
  BY NoneIsNoRequest DEF WQInv, TypeOK, Commit, OnStack
<1>2. Size[cur] \in Nat /\ done > 0 /\ done - 1 = Size[cur]
  BY <1>1, SizesOfRequests
<1>3. tx = Rows(cur)
  BY <1>1, <1>2 DEF WQInv, Transaction, Rows
<1>4. QED
  BY <1>1, <1>2, <1>3 DEF WQInv, Transaction, Commit, End

\* The database keeps holding whole committed requests.
LEMMA StepDatabase ==
  ASSUME WQInv, [Next]_vars
  PROVE  Database'
<1> USE DEF WQInv, JobUnchanged, End
<1> USE NoneIsNoRequest
<1>t. /\ job \in [Requests -> JobStates] /\ cur \in Requests \cup {None}
      /\ done \in Nat /\ inTx \in BOOLEAN
      /\ tx \subseteq Requests \X Nat /\ db \subseteq Requests \X Nat
  BY DEF TypeOK
<1>s. \A r \in Requests : Size[r] \in Nat /\ Size[r] > 0 /\ Kind[r] \in Kinds
  BY SizesOfRequests, KindsOfRequests
<1>h. jobs # <<>> => Head(jobs) \in Requests /\ job[Head(jobs)] = "queued"
  <2>1. jobs \in Seq(Requests)
    BY DEF TypeOK
  <2>2. QED
    BY <2>1, HeadTailProperties DEF Queue
<1>1. CASE Execute
  <2>1. cur \in Requests /\ job[cur] = "running"
    BY <1>1, ExecuteAdds
  <2>2. CASE db' = db \cup Rows(cur) /\ job' = [job EXCEPT ![cur] = "committed"]
    <3>1. \A r \in Requests, i \in Nat :
            <<r, i>> \in db' => r = cur \/ <<r, i>> \in db
      BY <2>2 DEF Rows
    <3>2. \A r \in Requests, i \in Nat :
            <<r, i>> \in db' => job'[r] = "committed"
      BY <1>t, <2>1, <2>2, <3>1 DEF Database
    <3>3. ASSUME NEW r \in Requests, <<r, 1>> \in db'
          PROVE  Rows(r) \subseteq db'
      BY <2>2, <3>1, <3>3 DEF Database
    <3>4. QED
      BY <3>2, <3>3 DEF Database, Rows
  <2>3. CASE db' = db /\ job' = [job EXCEPT ![cur] = "aborted"]
    BY <1>t, <2>1, <2>3 DEF Database, Rows
  <2>4. QED
    BY <1>1, <2>2, <2>3, ExecuteAdds
<1>2. CASE SkipMigration
  BY <1>t, <1>s, <1>h, <1>2 DEF SkipMigration, Database, OnStack
<1>3. CASE Begin
  BY <1>t, <1>s, <1>h, <1>3 DEF Begin, Database, OnStack
<1>4. CASE Statement
  BY <1>t, <1>s, <1>h, <1>4 DEF Statement, Database, OnStack
<1>5. CASE Commit
  <2>1. cur \in Requests /\ job[cur] = "running"
    BY <1>5, CommitAdds
  <2>2. CASE db' = db \cup Rows(cur) /\ job' = [job EXCEPT ![cur] = "committed"]
    <3>1. \A r \in Requests, i \in Nat :
            <<r, i>> \in db' => r = cur \/ <<r, i>> \in db
      BY <2>2 DEF Rows
    <3>2. \A r \in Requests, i \in Nat :
            <<r, i>> \in db' => job'[r] = "committed"
      BY <1>t, <2>1, <2>2, <3>1 DEF Database
    <3>3. ASSUME NEW r \in Requests, <<r, 1>> \in db'
          PROVE  Rows(r) \subseteq db'
      BY <2>2, <3>1, <3>3 DEF Database
    <3>4. QED
      BY <3>2, <3>3 DEF Database, Rows
  <2>3. CASE db' = db /\ job' = [job EXCEPT ![cur] = "aborted"]
    BY <1>t, <2>1, <2>3 DEF Database, Rows
  <2>4. QED
    BY <1>5, <2>2, <2>3, CommitAdds
<1>6. CASE Rollback
  BY <1>t, <1>s, <1>h, <1>6 DEF Rollback, Database, OnStack
<1>7. CASE Settle
  BY <1>t, <1>s, <1>h, <1>7 DEF Settle, Database, Settled, Turn, StartJob
<1>8. CASE Close
  BY <1>t, <1>s, <1>h, <1>8 DEF Close, Database, Settled, Turn
<1>9. CASE Stop
  BY <1>t, <1>s, <1>h, <1>9 DEF Stop, Database, Settled, Turn
<1>10. CASE Crash
  BY <1>t, <1>s, <1>h, <1>10 DEF Crash, Database
<1>11. ASSUME NEW r \in Requests, Reject(r) PROVE Database'
  BY <1>t, <1>s, <1>h, <1>11 DEF Reject, Database, Settled, Turn
<1>12. ASSUME NEW r \in Requests, Enqueue(r) PROVE Database'
  BY <1>t, <1>s, <1>h, <1>12 DEF Enqueue, Database, Settled, Turn, StartJob
<1>13. ASSUME NEW r \in Requests, Respond(r) PROVE Database'
  BY <1>t, <1>s, <1>h, <1>13 DEF Respond, Database, Settled, Turn
<1>14. ASSUME NEW r \in Requests, Receive(r) PROVE Database'
  BY <1>t, <1>14 DEF Receive, Replies, Database, Rows
<1>15. ASSUME NEW r \in Requests, Bounce(r) PROVE Database'
  BY <1>t, <1>s, <1>h, <1>15 DEF Bounce, Database
<1>16. ASSUME NEW r \in Requests, Deliver(r) PROVE Database'
  BY <1>t, <1>s, <1>h, <1>16 DEF Deliver, Database
<1>17. ASSUME NEW r \in Requests, Timeout(r) PROVE Database'
  BY <1>t, <1>s, <1>h, <1>17 DEF Timeout, Database
<1>18. ASSUME NEW r \in Requests, Reset(r) PROVE Database'
  BY <1>t, <1>s, <1>h, <1>18 DEF Reset, Database
<1>19. CASE UNCHANGED vars
  BY <1>t, <1>19 DEF vars, Database, Rows
<1>20. QED
  BY <1>1, <1>2, <1>3, <1>4, <1>5, <1>6, <1>7, <1>8, <1>9, <1>10, <1>11, <1>12,
     <1>13, <1>14, <1>15, <1>16, <1>17, <1>18, <1>19
     DEF Next, Serve, Environment

\* The next job gets the next number; no earlier one is renumbered.
LEMMA StartNumbers ==
  ASSUME WQInv, NEW q \in Requests, StartJob(q),
         job[q] \in {"reading", "queued"}, UNCHANGED reply,
         job' = [job EXCEPT ![q] = "running"]
  PROVE  Numbered' /\ SequenceNamesRun'
<1>t. /\ job \in [Requests -> JobStates] /\ sequence \in Nat
      /\ ran \in Seq(Requests) /\ Len(ran) \in Nat
      /\ \A i \in 1 .. Len(ran) : ran[i] \in Requests
      /\ reqSeq \in [Requests -> Nat]
  BY DEF WQInv, TypeOK
<1>1. /\ Len(ran') = Len(ran) + 1 /\ ran'[Len(ran) + 1] = q
      /\ \A i \in 1 .. Len(ran) : ran'[i] = ran[i]
  BY <1>t, AppendProperties DEF StartJob
<1>2. \A i \in 1 .. Len(ran) : ran[i] # q
  BY DEF WQInv, Numbered, Settled
<1>3. ~reply[q].sent
  BY DEF WQInv, Replies, Settled
<1>4. Numbered'
  BY <1>t, <1>1, <1>2 DEF WQInv, Numbered, StartJob, Settled
<1>5. SequenceNamesRun'
  <2> SUFFICES ASSUME NEW r \in Requests, NEW i \in 1 .. Len(ran'),
                      reply'[r].sent, ran'[i] = r
               PROVE  reply'[r].sequence = i
    BY DEF SequenceNamesRun
  <2>1. r # q /\ reply'[r] = reply[r]
    BY <1>3
  <2>2. i \in 1 .. Len(ran) /\ ran[i] = r
    BY <1>t, <1>1, <2>1
  <2>3. QED
    BY <2>1, <2>2 DEF WQInv, SequenceNamesRun
<1>6. QED
  BY <1>4, <1>5

\* Numbers and answers keep naming the order of the runs.
LEMMA StepNumbered ==
  ASSUME WQInv, [Next]_vars
  PROVE  (Numbered /\ SequenceNamesRun)'
<1> USE DEF WQInv, JobUnchanged, End
<1> USE NoneIsNoRequest
<1>t. /\ job \in [Requests -> JobStates] /\ cur \in Requests \cup {None}
      /\ ran \in Seq(Requests) /\ Len(ran) \in Nat /\ sequence \in Nat
      /\ \A i \in 1 .. Len(ran) : ran[i] \in Requests
      /\ reqSeq \in [Requests -> Nat]
      /\ reply \in [Requests -> [sent : BOOLEAN, ok : BOOLEAN, sequence : Nat]]
  BY DEF TypeOK
<1>h. jobs # <<>> => Head(jobs) \in Requests /\ job[Head(jobs)] = "queued"
  <2>1. jobs \in Seq(Requests)
    BY DEF TypeOK
  <2>2. QED
    BY <2>1, HeadTailProperties DEF Queue
<1>1. CASE Execute
  BY ZenonT(60), <1>t, <1>h, <1>1 DEF Execute, Numbered, SequenceNamesRun,
      Settled, OnStack
<1>2. CASE SkipMigration
  BY <1>t, <1>h, <1>2
     DEF SkipMigration, Numbered, SequenceNamesRun, Settled, OnStack
<1>3. CASE Begin
  BY <1>t, <1>h, <1>3 DEF Begin, Numbered, SequenceNamesRun, Settled, OnStack
<1>4. CASE Statement
  BY <1>t, <1>h, <1>4
     DEF Statement, Numbered, SequenceNamesRun, Settled, OnStack
<1>5. CASE Commit
  BY <1>t, <1>h, <1>5 DEF Commit, Numbered, SequenceNamesRun, Settled, OnStack
<1>6. CASE Rollback
  BY <1>t, <1>h, <1>6 DEF Rollback, Numbered, SequenceNamesRun, Settled, OnStack
<1>7. CASE Settle
  <2>1. CASE jobs # <<>>
    BY <1>7, <1>h, <2>1, StartNumbers DEF Settle
  <2>2. CASE jobs = <<>>
    BY <1>t, <1>7, <2>2 DEF Settle, Numbered, SequenceNamesRun
  <2>3. QED
    BY <2>1, <2>2
<1>8. CASE Close
  BY <1>t, <1>h, <1>8 DEF Close, Numbered, SequenceNamesRun, Settled, Turn
<1>9. CASE Stop
  BY <1>t, <1>h, <1>9 DEF Stop, Numbered, SequenceNamesRun, Settled, Turn
<1>10. CASE Crash
  BY <1>t, <1>h, <1>10 DEF Crash, Numbered, SequenceNamesRun, Settled
<1>11. ASSUME NEW r \in Requests, Reject(r)
       PROVE  (Numbered /\ SequenceNamesRun)'
  BY ZenonT(60), <1>t, <1>h, <1>11 DEF Reject, Numbered, SequenceNamesRun, Settled, Turn
<1>12. ASSUME NEW r \in Requests, Enqueue(r)
       PROVE  (Numbered /\ SequenceNamesRun)'
  <2>1. CASE StartJob(r) /\ job' = [job EXCEPT ![r] = "running"]
    BY <1>12, <2>1, StartNumbers DEF Enqueue
  <2>2. CASE UNCHANGED <<sequence, reqSeq, ran>>
    BY ZenonT(60), <1>t, <1>12, <2>2 DEF Enqueue, Numbered, SequenceNamesRun, Settled
  <2>3. QED
    BY <1>12, <2>1, <2>2 DEF Enqueue
<1>13. ASSUME NEW r \in Requests, Respond(r)
       PROVE  (Numbered /\ SequenceNamesRun)'
  <2>1. /\ UNCHANGED <<job, sequence, reqSeq, ran>>
        /\ reply'[r].sequence = reqSeq[r]
        /\ \A q \in Requests \ {r} : reply'[q] = reply[q]
    BY <1>t, <1>13 DEF Respond
  <2>2. Numbered'
    BY <2>1 DEF Numbered
  <2>3. \A i \in 1 .. Len(ran) : reqSeq[ran[i]] = i
    BY DEF Numbered
  <2>4. SequenceNamesRun'
    <3> SUFFICES ASSUME NEW q \in Requests, NEW i \in 1 .. Len(ran),
                        reply'[q].sent, ran[i] = q
                 PROVE  reply'[q].sequence = i
      BY <2>1 DEF SequenceNamesRun
    <3>1. CASE q = r
      BY <2>1, <2>3, <3>1
    <3>2. CASE q # r
      BY <2>1, <3>2 DEF SequenceNamesRun
    <3>3. QED
      BY <3>1, <3>2
  <2>5. QED
    BY <2>2, <2>4
<1>14. ASSUME NEW r \in Requests, Receive(r)
       PROVE  (Numbered /\ SequenceNamesRun)'
  BY ZenonT(60), <1>t, <1>14
     DEF Receive, Replies, Numbered, SequenceNamesRun, Settled, OnStack, Turn
<1>15. ASSUME NEW r \in Requests, Bounce(r)
       PROVE  (Numbered /\ SequenceNamesRun)'
  BY <1>t, <1>h, <1>15 DEF Bounce, Numbered, SequenceNamesRun, Settled
<1>16. ASSUME NEW r \in Requests, Deliver(r)
       PROVE  (Numbered /\ SequenceNamesRun)'
  BY <1>t, <1>h, <1>16 DEF Deliver, Numbered, SequenceNamesRun, Settled
<1>17. ASSUME NEW r \in Requests, Timeout(r)
       PROVE  (Numbered /\ SequenceNamesRun)'
  BY <1>t, <1>h, <1>17 DEF Timeout, Numbered, SequenceNamesRun, Settled
<1>18. ASSUME NEW r \in Requests, Reset(r)
       PROVE  (Numbered /\ SequenceNamesRun)'
  BY <1>t, <1>h, <1>18 DEF Reset, Numbered, SequenceNamesRun, Settled
<1>19. CASE UNCHANGED vars
  BY <1>t, <1>19 DEF vars, Numbered, SequenceNamesRun
<1>20. QED
  BY <1>1, <1>2, <1>3, <1>4, <1>5, <1>6, <1>7, <1>8, <1>9, <1>10, <1>11, <1>12,
     <1>13, <1>14, <1>15, <1>16, <1>17, <1>18, <1>19
     DEF Next, Serve, Environment

\* What stop() and the migration history guarantee is kept.
LEMMA StepSafe ==
  ASSUME WQInv, [Next]_vars
  PROVE  (DrainedBeforeClose /\ MigrationOnce)'
<1> USE DEF WQInv, JobUnchanged, End
<1> USE NoneIsNoRequest
<1>t. /\ job \in [Requests -> JobStates] /\ cur \in Requests \cup {None}
      /\ done \in Nat /\ inTx \in BOOLEAN
      /\ tx \subseteq Requests \X Nat /\ db \subseteq Requests \X Nat
  BY DEF TypeOK
<1>s. \A r \in Requests : Size[r] \in Nat /\ Size[r] > 0 /\ Kind[r] \in Kinds
  BY SizesOfRequests, KindsOfRequests
<1>h. jobs # <<>> => Head(jobs) \in Requests /\ job[Head(jobs)] = "queued"
  <2>1. jobs \in Seq(Requests)
    BY DEF TypeOK
  <2>2. QED
    BY <2>1, HeadTailProperties DEF Queue
<1>1. CASE Execute
  <2>1. /\ cur \in Requests /\ stage' # "stopped"
    BY <1>1 DEF Execute, OnStack, Running, TypeOK
  <2>2. MigrationOnce'
    <3>1. \A r \in Requests : Kind[r] = "admin_migrate" => File[r] # File[cur]
      BY <1>1, <2>1, ExecuteAdds, FilesOfMigrations
    <3>2. \A r \in Requests : <<r, 1>> \in db' => r = cur \/ <<r, 1>> \in db
      BY <1>1, ExecuteAdds DEF Rows
    <3>3. Kind[cur] # "admin_migrate"
      BY <1>1, ExecuteAdds
    <3>4. QED
      BY <3>1, <3>2, <3>3 DEF MigrationOnce
  <2>3. QED
    BY <2>1, <2>2 DEF DrainedBeforeClose
<1>2. CASE SkipMigration
  BY <1>t, <1>s, <1>h, <1>2
     DEF SkipMigration, DrainedBeforeClose, MigrationOnce, Running, OnStack
<1>3. CASE Begin
  BY <1>t, <1>s, <1>h, <1>3
     DEF Begin, DrainedBeforeClose, MigrationOnce, Running, OnStack
<1>4. CASE Statement
  BY <1>t, <1>s, <1>h, <1>4
     DEF Statement, DrainedBeforeClose, MigrationOnce, Running, OnStack
<1>5. CASE Commit
  <2>1. /\ cur \in Requests /\ stage' # "stopped"
    BY <1>5 DEF Commit, OnStack, Running, TypeOK
  <2>2. MigrationOnce'
    <3>1. \A r \in Requests : <<r, 1>> \in db' => r = cur \/ <<r, 1>> \in db
      BY <1>5, CommitAdds DEF Rows
    <3>2. ASSUME NEW r \in Requests, r # cur, File[r] = File[cur],
                 Kind[r] = "admin_migrate" \/ Kind[cur] = "admin_migrate"
          PROVE  <<r, 1>> \notin db
      <4>1. Kind[r] = "admin_migrate" /\ Kind[cur] = "admin_migrate"
        BY <2>1, <3>2, FilesOfMigrations
      <4>2. <<r, Size[r]>> \notin db
        BY <1>5, <2>1, <3>2, <4>1, CommitAdds DEF Recorded
      <4>3. <<r, Size[r]>> \in Rows(r)
        BY <1>s DEF Rows
      <4>4. QED
        BY <4>2, <4>3 DEF Database
    <3>3. QED
      BY <2>1, <3>1, <3>2 DEF MigrationOnce
  <2>3. QED
    BY <2>1, <2>2 DEF DrainedBeforeClose
<1>6. CASE Rollback
  BY <1>t, <1>s, <1>h, <1>6
     DEF Rollback, DrainedBeforeClose, MigrationOnce, Running, OnStack
<1>7. CASE Settle
  BY <1>t, <1>s, <1>h, <1>7
     DEF Settle, DrainedBeforeClose, MigrationOnce, Running, Turn
<1>8. CASE Close
  BY <1>t, <1>8 DEF Close, DrainedBeforeClose, MigrationOnce, Queue, Current,
        Transaction
<1>9. CASE Stop
  BY <1>t, <1>s, <1>h, <1>9
     DEF Stop, DrainedBeforeClose, MigrationOnce, Running, Turn
<1>10. CASE Crash
  BY <1>t, <1>s, <1>h, <1>10
     DEF Crash, DrainedBeforeClose, MigrationOnce, Running
<1>11. ASSUME NEW r \in Requests, Reject(r)
       PROVE  (DrainedBeforeClose /\ MigrationOnce)'
  BY <1>t, <1>s, <1>h, <1>11
     DEF Reject, DrainedBeforeClose, MigrationOnce, Running, Turn
<1>12. ASSUME NEW r \in Requests, Enqueue(r)
       PROVE  (DrainedBeforeClose /\ MigrationOnce)'
  BY <1>t, <1>s, <1>h, <1>12
     DEF Enqueue, DrainedBeforeClose, MigrationOnce, Running, Turn
<1>13. ASSUME NEW r \in Requests, Respond(r)
       PROVE  (DrainedBeforeClose /\ MigrationOnce)'
  BY <1>t, <1>s, <1>h, <1>13
     DEF Respond, DrainedBeforeClose, MigrationOnce, Running, Turn
<1>14. ASSUME NEW r \in Requests, Receive(r)
       PROVE  (DrainedBeforeClose /\ MigrationOnce)'
  BY <1>t, <1>s, <1>h, <1>14
     DEF Receive, DrainedBeforeClose, MigrationOnce, Running, Turn
<1>15. ASSUME NEW r \in Requests, Bounce(r)
       PROVE  (DrainedBeforeClose /\ MigrationOnce)'
  BY <1>t, <1>s, <1>h, <1>15 DEF Bounce, DrainedBeforeClose, MigrationOnce
<1>16. ASSUME NEW r \in Requests, Deliver(r)
       PROVE  (DrainedBeforeClose /\ MigrationOnce)'
  BY <1>t, <1>s, <1>h, <1>16 DEF Deliver, DrainedBeforeClose, MigrationOnce
<1>17. ASSUME NEW r \in Requests, Timeout(r)
       PROVE  (DrainedBeforeClose /\ MigrationOnce)'
  BY <1>t, <1>s, <1>h, <1>17 DEF Timeout, DrainedBeforeClose, MigrationOnce
<1>18. ASSUME NEW r \in Requests, Reset(r)
       PROVE  (DrainedBeforeClose /\ MigrationOnce)'
  BY <1>t, <1>s, <1>h, <1>18
     DEF Reset, DrainedBeforeClose, MigrationOnce, Running
<1>19. CASE UNCHANGED vars
  BY <1>19 DEF vars, DrainedBeforeClose, MigrationOnce
<1>20. QED
  BY <1>1, <1>2, <1>3, <1>4, <1>5, <1>6, <1>7, <1>8, <1>9, <1>10, <1>11, <1>12,
     <1>13, <1>14, <1>15, <1>16, <1>17, <1>18, <1>19
     DEF Next, Serve, Environment

-----------------------------------------------------------------------------
\* The invariant of the Writer: where its control is, and that its state keeps
\* the promises of the queue, of the transactions and of the answers.
THEOREM WriterInvariant == Spec => []WQInv
<1>1. WQInv /\ [Next]_vars => WQInv'
  <2> SUFFICES ASSUME WQInv, [Next]_vars PROVE WQInv'
    OBVIOUS
  <2>1. TypeOK' /\ Queue' /\ Current' /\ Replies'
    BY StepType, StepQueue, StepCurrent, StepReplies
  <2>2. Transaction' /\ Database'
    BY StepTransaction, StepDatabase
  <2>3. Numbered' /\ SequenceNamesRun' /\ DrainedBeforeClose' /\ MigrationOnce'
    BY StepNumbered, StepSafe
  <2>4. QED
    BY <2>1, <2>2, <2>3 DEF WQInv
<1>2. QED
  BY InitWQInv, <1>1, PTL DEF Spec

\* The state of the Writer keeps its types.
THEOREM WriterTypeCorrect == Spec => []TypeOK
BY WriterInvariant, PTL DEF WQInv

\* Whatever enqueue() accepted has been run when stop() ends the process.
THEOREM WriterDrains == Spec => []DrainedBeforeClose
BY WriterInvariant, PTL DEF WQInv

\* A migration file takes effect at most once, for any number of requests.
THEOREM WriterMigratesOnce == Spec => []MigrationOnce
BY WriterInvariant, PTL DEF WQInv

\* The sequence number of an answer is the place of its request in the order of
\* the runs.
THEOREM WriterNumbersRuns == Spec => []SequenceNamesRun
BY WriterInvariant, PTL DEF WQInv

-----------------------------------------------------------------------------
(* The Writer implements SerialStore.                                      *)

\* How the state of a job in the Writer reads as a fate in SerialStore.
LEMMA FateValues ==
  ASSUME NEW v
  PROVE  /\ Fate("committed", v) = "applied"
         /\ Fate("aborted", v) = "refused"
         /\ Fate("absent", "unavailable") = "refused"
         /\ v # "unavailable" => Fate("absent", v) = "open"
         /\ Fate("reading", v) = "open"
         /\ Fate("queued", v) = "open"
         /\ Fate("running", v) = "open"
BY DEF Fate

\* A job that ends badly is a request that SerialStore refuses.
LEMMA RefusalRefines ==
  ASSUME WQInv, NEW r \in Requests, job[r] \in {"reading", "running"},
         job' = [job EXCEPT ![r] = "aborted"], UNCHANGED <<db, verdict>>
  PROVE  Store!Refuse(r)
<1>1. /\ job \in [Requests -> JobStates] /\ verdict[r] # "unsent"
  BY DEF WQInv, TypeOK, Replies
<1>2. fate' = [fate EXCEPT ![r] = "refused"] /\ fate[r] = "open"
  BY <1>1, FateValues DEF fate
<1>3. QED
  BY <1>1, <1>2 DEF Store!Refuse

\* A job that ends well applies its request: all its effects, or none if it is
\* a migration that the history records.
LEMMA CommitRefines ==
  ASSUME WQInv, NEW r \in Requests, job[r] = "running",
         job' = [job EXCEPT ![r] = "committed"], UNCHANGED verdict,
         \/ /\ Kind[r] = "admin_migrate" => Recorded(r) = {}
            /\ db' = db \cup Rows(r)
         \/ Kind[r] = "admin_migrate" /\ Recorded(r) # {} /\ db' = db
  PROVE  Store!Apply(r)
<1>1. /\ job \in [Requests -> JobStates] /\ verdict[r] # "unsent"
  BY DEF WQInv, TypeOK, Replies
<1>2. fate' = [fate EXCEPT ![r] = "applied"] /\ fate[r] = "open"
  BY <1>1, FateValues DEF fate
<1>3. \A s \in Requests : Store!Twin(r, s) <=>
        /\ Kind[r] = "admin_migrate" /\ Kind[s] = "admin_migrate"
        /\ File[s] = File[r]
  BY FilesOfMigrations DEF Store!Twin
<1>4. (\E s \in Requests : Store!Twin(r, s) /\ <<s, Size[s]>> \in db)
        <=> Kind[r] = "admin_migrate" /\ Recorded(r) # {}
  BY <1>3 DEF Recorded
<1>5. Store!Rows(r) = Rows(r)
  BY DEF Store!Rows, Rows
<1>6. QED
  BY <1>1, <1>2, <1>4, <1>5 DEF Store!Apply

\* A step that moves a job between states that are still open shows nothing.
LEMMA SilentRefines ==
  ASSUME WQInv, UNCHANGED <<db, verdict>>,
         \/ job' = job
         \/ \E r \in Requests :
              /\ job[r] \in {"reading", "queued"}
              /\ job' = [job EXCEPT ![r] = "running"]
                 \/ job' = [job EXCEPT ![r] = "queued"]
  PROVE  UNCHANGED <<db, fate, verdict>>
<1>1. job \in [Requests -> JobStates]
  BY DEF WQInv, TypeOK
<1>2. CASE job' = job
  BY <1>2 DEF fate
<1>3. ASSUME NEW r \in Requests, job[r] \in {"reading", "queued"},
             \/ job' = [job EXCEPT ![r] = "running"]
             \/ job' = [job EXCEPT ![r] = "queued"]
      PROVE  fate' = fate
  <2>1. \A q \in Requests : Fate(job'[q], verdict[q]) = Fate(job[q], verdict[q])
    BY <1>1, <1>3, FateValues
  <2>2. QED
    BY <2>1 DEF fate
<1>4. QED
  BY <1>2, <1>3

\* An answer that reaches its sender is one SerialStore may give.
LEMMA AnswerRefines ==
  ASSUME WQInv, NEW r \in Requests, verdict[r] = "waiting",
         NEW v \in {"ok", "failed", "unknown", "unavailable"},
         v = "ok" => job[r] = "committed", v = "failed" => job[r] = "aborted",
         verdict' = [verdict EXCEPT ![r] = v], UNCHANGED <<db, job>>
  PROVE  Store!Answer(r)
<1>1. /\ job \in [Requests -> JobStates] /\ job[r] # "absent"
      /\ verdict \in [Requests -> {"unsent", "waiting", "ok", "failed",
                                   "unknown", "unavailable"}]
  BY DEF WQInv, TypeOK, Replies
<1>2. \A q \in Requests : Fate(job[q], verdict'[q]) = Fate(job[q], verdict[q])
  <2>1. Fate(job[r], v) = Fate(job[r], "waiting")
    BY <1>1, FateValues DEF JobStates
  <2>2. QED
    BY <1>1, <2>1
<1>3. fate' = fate
  BY <1>2 DEF fate
<1>4. (v = "ok" => fate[r] = "applied") /\ (v = "failed" => fate[r] = "refused")
  BY FateValues DEF fate
<1>5. QED
  BY <1>3, <1>4 DEF Store!Answer

\* Every step of the Writer is a step of SerialStore, or shows nothing.
LEMMA StepRefines ==
  ASSUME WQInv, [Next]_vars
  PROVE  Store!Next \/ UNCHANGED <<db, fate, verdict>>
<1> USE DEF JobUnchanged, End
<1> USE NoneIsNoRequest
<1> DEFINE Goal == Store!Next \/ UNCHANGED <<db, fate, verdict>>
<1>t. /\ job \in [Requests -> JobStates] /\ cur \in Requests \cup {None}
      /\ verdict \in [Requests -> {"unsent", "waiting", "ok", "failed",
                                   "unknown", "unavailable"}]
      /\ jobs \in Seq(Requests)
  BY DEF WQInv, TypeOK
<1>h. jobs # <<>> => Head(jobs) \in Requests /\ job[Head(jobs)] = "queued"
  BY <1>t, HeadTailProperties DEF WQInv, Queue
<1>c. OnStack => cur \in Requests /\ job[cur] = "running"
  BY <1>t DEF OnStack
<1>a. ASSUME NEW r \in Requests, Store!Apply(r) \/ Store!Refuse(r)
                                 \/ Store!Answer(r) \/ Store!Send(r)
                                 \/ Store!Bounce(r)
      PROVE  Goal
  BY <1>a DEF Store!Next
<1>1. CASE Execute
  <2>1. CASE job' = [job EXCEPT ![cur] = "aborted"] /\ db' = db
    BY <1>a, <1>c, <1>1, <2>1, RefusalRefines DEF Execute
  <2>2. CASE db' = db \cup Rows(cur) /\ job' = [job EXCEPT ![cur] = "committed"]
    BY <1>a, <1>c, <1>1, <2>2, CommitRefines DEF Execute
  <2>3. QED
    BY <1>1, <2>1, <2>2, ExecuteAdds
<1>2. CASE SkipMigration
  <2>1. CASE job' = [job EXCEPT ![cur] = "aborted"]
    BY <1>a, <1>c, <1>2, <2>1, RefusalRefines DEF SkipMigration
  <2>2. CASE job' = [job EXCEPT ![cur] = "committed"]
    BY <1>a, <1>c, <1>2, <2>2, CommitRefines DEF SkipMigration
  <2>3. QED
    BY <1>2, <2>1, <2>2 DEF SkipMigration
<1>3. CASE Begin
  <2>1. CASE job' = [job EXCEPT ![cur] = "aborted"]
    BY <1>a, <1>c, <1>3, <2>1, RefusalRefines DEF Begin
  <2>2. CASE job' = job
    BY <1>3, <2>2, SilentRefines DEF Begin
  <2>3. QED
    BY <1>3, <2>1, <2>2 DEF Begin
<1>4. CASE Statement
  BY <1>4, SilentRefines DEF Statement
<1>5. CASE Commit
  BY <1>a, <1>5, CommitAdds, CommitRefines DEF Commit
<1>6. CASE Rollback
  BY <1>a, <1>c, <1>6, RefusalRefines DEF Rollback
<1>7. CASE Settle
  BY <1>h, <1>7, SilentRefines DEF Settle
<1>8. CASE Close
  BY <1>8, SilentRefines DEF Close
<1>9. CASE Stop
  BY <1>9, SilentRefines DEF Stop
<1>10. CASE Crash
  BY <1>10, SilentRefines DEF Crash
<1>11. ASSUME NEW r \in Requests, Reject(r) PROVE Goal
  BY <1>a, <1>11, RefusalRefines DEF Reject
<1>12. ASSUME NEW r \in Requests, Enqueue(r) PROVE Goal
  <2>1. CASE job' = [job EXCEPT ![r] = "aborted"]
    BY <1>a, <1>12, <2>1, RefusalRefines DEF Enqueue
  <2>2. CASE \/ job' = [job EXCEPT ![r] = "running"]
             \/ job' = [job EXCEPT ![r] = "queued"]
    BY <1>12, <2>2, SilentRefines DEF Enqueue
  <2>3. QED
    BY <1>12, <2>1, <2>2 DEF Enqueue
<1>13. ASSUME NEW r \in Requests, Respond(r) PROVE Goal
  BY <1>13, SilentRefines DEF Respond
<1>14. ASSUME NEW r \in Requests, Receive(r) PROVE Goal
  <2>1. job[r] = "absent" /\ verdict[r] = "unsent"
    BY <1>14 DEF Receive, WQInv, Replies
  <2>2. \A q \in Requests :
          Fate(job'[q], verdict'[q]) = Fate(job[q], verdict[q])
    BY <1>t, <1>14, <2>1, FateValues DEF Receive
  <2>3. fate' = fate
    BY <2>2 DEF fate
  <2>4. Store!Send(r)
    BY <1>14, <2>3 DEF Receive, Store!Send
  <2>5. QED
    BY <1>a, <2>4
<1>15. ASSUME NEW r \in Requests, Bounce(r) PROVE Goal
  <2>1. job[r] = "absent" /\ verdict[r] = "unsent"
    BY <1>15 DEF Bounce, WQInv, Replies
  <2>2. fate' = [fate EXCEPT ![r] = "refused"]
    BY <1>t, <1>15, <2>1, FateValues DEF Bounce, fate
  <2>3. Store!Bounce(r)
    BY <1>15, <2>2 DEF Bounce, Store!Bounce
  <2>4. QED
    BY <1>a, <2>3
<1>16. ASSUME NEW r \in Requests, Deliver(r) PROVE Goal
  <2>1. /\ reply[r].ok => job[r] = "committed"
        /\ ~reply[r].ok => job[r] = "aborted"
    BY <1>16 DEF Deliver, WQInv, Replies, Settled
  <2>2. Store!Answer(r)
    <3>1. CASE reply[r].ok
      BY <1>16, <2>1, <3>1, AnswerRefines DEF Deliver
    <3>2. CASE ~reply[r].ok
      BY <1>16, <2>1, <3>2, AnswerRefines DEF Deliver
    <3>3. QED
      BY <3>1, <3>2
  <2>3. QED
    BY <1>a, <2>2
<1>17. ASSUME NEW r \in Requests, Timeout(r) PROVE Goal
  BY <1>a, <1>17, AnswerRefines DEF Timeout
<1>18. ASSUME NEW r \in Requests, Reset(r) PROVE Goal
  BY <1>a, <1>18, AnswerRefines DEF Reset
<1>19. CASE UNCHANGED vars
  BY <1>19 DEF vars, fate
<1>20. QED
  BY <1>1, <1>2, <1>3, <1>4, <1>5, <1>6, <1>7, <1>8, <1>9, <1>10, <1>11, <1>12,
     <1>13, <1>14, <1>15, <1>16, <1>17, <1>18, <1>19
     DEF Next, Serve, Environment

\* The Writer implements SerialStore: requests take effect whole, one at a
\* time and at most once, and the answers are true.
THEOREM WriterImplementsStore == Spec => StoreSpec
<1>1. Init => Store!Init
  <2> SUFFICES ASSUME Init PROVE Store!Init
    OBVIOUS
  <2>1. fate = [r \in Requests |-> "open"]
    BY FateValues DEF Init, fate
  <2>2. QED
    BY <2>1 DEF Init, Store!Init
<1>2. WQInv /\ [Next]_vars => [Store!Next]_(Store!storeVars)
  BY StepRefines DEF Store!storeVars
<1>3. QED
  BY WriterInvariant, <1>1, <1>2, PTL DEF Spec, StoreSpec, Store!Spec

=============================================================================

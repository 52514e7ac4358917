-------------------------- MODULE DurableWorkProofs --------------------------
(***************************************************************************)
(* The two durable queues: the job table, then the analytics outbox.       *)
(***************************************************************************)
EXTENDS JobQueue, Outbox, TLAPS

(***************************************************************************)
(* Proofs of the safety properties of JobQueue, for any set of jobs and    *)
(* sessions, any limits, and handlers that may outlive their leases.       *)
(***************************************************************************)

\* A session that runs a job holds a copy of its row that says `running`, and
\* one that is about to claim has a job at hand.
CopiesOK ==
    \A s \in Sessions :
        /\ pc[s] \in {"loaded", "running"} => job[s] \in Jobs
        /\ pc[s] = "running" => held[s][job[s]].state = "running"

\* A row of a kind that is never retried, stored or copied, is `queued` only
\* before its first attempt: this is what keeps a stale copy from adding a
\* second one.
FreshOnly(r) ==
    /\ r.state # "retry_wait"
    /\ r.state = "queued" => r.attempts = 0
NeverRetried ==
    \A j \in Jobs \ Retryable :
        /\ FreshOnly(row[j])
        /\ row[j].attempts <= 1
        /\ \A s \in Sessions : FreshOnly(held[s][j])

IInv == TypeOK /\ Recoverable /\ CopiesOK /\ NeverRetried

-----------------------------------------------------------------------------
(* Facts about single rows. *)

\* The backoff is a number of minutes, never NULL.
LEMMA BackoffNat ==
    ASSUME NEW a PROVE Backoff(a) \in Nat \ {NoTime}
BY JobQueueAssumption DEF Backoff, NoTime

\* Clearing a nullable column leaves a timer.
LEMMA ClearedTimer ==
    ASSUME NEW x \in Timer, NEW y PROVE Cleared(x, y) \in Timer
BY DEF Cleared, Timer, NoTime

\* Claiming leaves a running row with a lease.
LEMMA ClaimedRow ==
    ASSUME NEW r \in Row, NEW copy \in Row
    PROVE  /\ Claimed(r, copy) \in Row
           /\ Claimed(r, copy).state = "running"
           /\ Claimed(r, copy).lease # NoTime
           /\ copy.attempts = 0 => Claimed(r, copy).attempts = 1
<1> DEFINE a == OneMore(copy.attempts)
<1>1. Claimed(r, copy) = [r EXCEPT !.state = "running", !.attempts = a,
                                   !.lease = Lease]
  BY DEF Claimed
<1>2. a \in 0..AttemptCap /\ (copy.attempts = 0 => a = 1)
  BY JobQueueAssumption DEF Row, AttemptCap, OneMore
<1>3. Lease \in Timer /\ Lease # NoTime
  BY JobQueueAssumption DEF Timer, NoTime
<1> HIDE DEF a
<1>4. QED BY <1>1, <1>2, <1>3 DEF Row, JobState

\* Completing leaves a completed row with the attempts it had.
LEMMA CompletedRow ==
    ASSUME NEW r \in Row, NEW copy \in Row
    PROVE  /\ Completed(r, copy) \in Row
           /\ Completed(r, copy).state = "completed"
           /\ Completed(r, copy).attempts = r.attempts
BY ClearedTimer DEF Completed, Row, JobState

\* Failing leaves a row that waits with a time for its next attempt, or, and
\* always when the kind is not retryable, one that was given up.
LEMMA FailedRow ==
    ASSUME NEW j \in Jobs, NEW r \in Row, NEW copy \in Row
    PROVE  /\ Failed(j, r, copy) \in Row
           /\ Failed(j, r, copy).state \in {"retry_wait", "failed_review"}
           /\ Failed(j, r, copy).state = "retry_wait"
                => Failed(j, r, copy).nextAt # NoTime /\ j \in Retryable
           /\ Failed(j, r, copy).attempts = r.attempts
<1>1. Backoff(copy.attempts) \in Timer /\ Backoff(copy.attempts) # NoTime
  BY BackoffNat DEF Timer, NoTime
<1>2. Cleared(r.lease, copy.lease) \in Timer /\ Cleared(r.nextAt, copy.nextAt) \in Timer
  BY ClearedTimer DEF Row
<1>3. CASE Retries(j, copy.attempts)
  BY <1>1, <1>2, <1>3 DEF Failed, PutBack, Retries, Row, JobState
<1>4. CASE ~Retries(j, copy.attempts)
  BY <1>2, <1>4 DEF Failed, GivenUp, Row, JobState
<1>5. QED BY <1>3, <1>4

\* Time changes timers only, and never to or from NULL.
LEMMA AgedRow ==
    ASSUME NEW r \in Row
    PROVE  /\ Aged(r) \in Row
           /\ Aged(r).state = r.state
           /\ Aged(r).attempts = r.attempts
           /\ r.lease # NoTime => Aged(r).lease # NoTime
           /\ r.nextAt # NoTime => Aged(r).nextAt # NoTime
<1>1. \A t \in Timer : Earlier(t) \in Timer /\ (t # NoTime => Earlier(t) # NoTime)
  BY DEF Earlier, Timer, NoTime
<1>2. Aged(r) = [r EXCEPT !.nextAt = Earlier(r.nextAt), !.lease = Earlier(r.lease)]
  BY DEF Aged
<1>3. QED BY <1>1, <1>2 DEF Row

\* The rows a table starts from.
LEMMA FreshRows ==
    /\ Absent \in Row /\ Absent.state = "absent" /\ Absent.attempts = 0
    /\ Queued \in Row /\ Queued.state = "queued" /\ Queued.attempts = 0
BY JobQueueAssumption
   DEF Absent, Queued, Row, JobState, Timer, NoTime, AttemptCap

-----------------------------------------------------------------------------
(* The invariant holds initially and is kept by every step. *)

LEMMA InitIInv == Init => IInv
BY FreshRows, JobQueueAssumption
   DEF Init, IInv, TypeOK, Recoverable, CopiesOK, NeverRetried, FreshOnly,
       NothingHeld, SessionState, NoJob

\* What a session forgets when it ends, or keeps when its batch goes on,
\* disturbs nothing that is said of the copies.
LEMMA AfterJobOK ==
    ASSUME IInv, NEW s \in Sessions, pc[s] = "running",
           AfterJob(s) \/ AfterRollback(s) \/ EndSession(s)
    PROVE  /\ pc' \in [Sessions -> SessionState]
           /\ job' \in [Sessions -> Jobs \cup {NoJob}]
           /\ batch' \in [Sessions -> SUBSET Jobs]
           /\ held' \in [Sessions -> [Jobs -> Row]]
           /\ \A t \in Sessions :
                 /\ pc'[t] \in {"loaded", "running"} => job'[t] \in Jobs
                 /\ pc'[t] = "running" => held'[t][job'[t]].state = "running"
           /\ \A t \in Sessions, j \in Jobs \ Retryable : FreshOnly(held'[t][j])
<1>1. FreshOnly(Absent) /\ NothingHeld \in [Jobs -> Row]
      /\ \A j \in Jobs : NothingHeld[j] = Absent
  BY FreshRows DEF FreshOnly, NothingHeld
<1>2. job[s] \in Jobs
  BY DEF IInv, CopiesOK
<1>3. CASE EndSession(s)
  BY <1>1, <1>3
     DEF EndSession, IInv, TypeOK, CopiesOK, NeverRetried, SessionState
<1>4. CASE /\ pc' = [pc EXCEPT ![s] = "between"]
           /\ job' = [job EXCEPT ![s] = NoJob]
           /\ held' = [held EXCEPT ![s][job[s]] = Absent]
           /\ UNCHANGED batch
  BY <1>1, <1>2, <1>4, FreshRows
     DEF IInv, TypeOK, CopiesOK, NeverRetried, SessionState
<1>5. CASE /\ pc' = [pc EXCEPT ![s] = "expired"]
           /\ job' = [job EXCEPT ![s] = NoJob]
           /\ held' = [held EXCEPT ![s] = NothingHeld]
           /\ UNCHANGED batch
  BY <1>1, <1>5
     DEF IInv, TypeOK, CopiesOK, NeverRetried, SessionState
<1>6. QED BY <1>3, <1>4, <1>5 DEF AfterJob, AfterRollback

\* A claim under a stale copy keeps the invariant.
LEMMA ClaimOK ==
    ASSUME IInv, NEW s \in Sessions, NEW j \in Jobs, Claim(s, j),
           batch' \in [Sessions -> SUBSET Jobs]
    PROVE  IInv'
<1> DEFINE copy == held[s][j]
<1>1. row[j] \in Row /\ copy \in Row
  BY DEF IInv, TypeOK
<1>2. /\ Claimed(row[j], copy) \in Row /\ Claimed(copy, copy) \in Row
      /\ Claimed(row[j], copy).state = "running"
      /\ Claimed(copy, copy).state = "running"
      /\ Claimed(row[j], copy).lease # NoTime
      /\ copy.attempts = 0 => Claimed(row[j], copy).attempts = 1
  BY <1>1, ClaimedRow
<1>3. /\ row' = [row EXCEPT ![j] = Claimed(row[j], copy)]
      /\ held' = [held EXCEPT ![s][j] = Claimed(copy, copy)]
      /\ pc' = [pc EXCEPT ![s] = "running"]
      /\ job' = [job EXCEPT ![s] = j]
  BY DEF Claim
<1>4. j \notin Retryable => copy.attempts = 0
  BY DEF Claim, Claimable, IInv, NeverRetried, FreshOnly
<1> HIDE DEF copy
<1>5. TypeOK'
  BY <1>2, <1>3 DEF IInv, TypeOK, SessionState
<1>6. Recoverable'
  BY <1>2, <1>3 DEF IInv, TypeOK, Recoverable
<1>7. CopiesOK'
  <2> SUFFICES ASSUME NEW t \in Sessions
               PROVE  /\ pc'[t] \in {"loaded", "running"} => job'[t] \in Jobs
                      /\ pc'[t] = "running" => held'[t][job'[t]].state = "running"
    BY DEF CopiesOK
  <2>1. CASE t = s
    BY <1>2, <1>3, <2>1 DEF IInv, TypeOK
  <2>2. CASE t # s
    BY <1>3, <2>2 DEF IInv, TypeOK, CopiesOK
  <2>3. QED BY <2>1, <2>2
<1>8. NeverRetried'
  <2> SUFFICES ASSUME NEW k \in Jobs \ Retryable
               PROVE  /\ FreshOnly(row'[k])
                      /\ row'[k].attempts <= 1
                      /\ \A t \in Sessions : FreshOnly(held'[t][k])
    BY DEF NeverRetried
  <2>1. CASE k = j
    BY <1>2, <1>3, <1>4, <2>1 DEF IInv, TypeOK, NeverRetried, FreshOnly
  <2>2. CASE k # j
    BY <1>3, <2>2 DEF IInv, TypeOK, NeverRetried
  <2>3. QED BY <2>1, <2>2
<1>9. QED BY <1>5, <1>6, <1>7, <1>8 DEF IInv

\* A step that replaces stored rows by good ones and takes nothing from the
\* sessions keeps the invariant.
RowsOK ==
    /\ row' \in [Jobs -> Row]
    /\ Recoverable'
    /\ \A j \in Jobs \ Retryable : FreshOnly(row'[j]) /\ row'[j].attempts <= 1

\* The end of a job: its row is written and its session goes on.
LEMMA EndOK ==
    ASSUME IInv, NEW s \in Sessions, pc[s] = "running", RowsOK,
           AfterJob(s) \/ AfterRollback(s) \/ EndSession(s)
    PROVE  IInv'
BY AfterJobOK DEF IInv, TypeOK, RowsOK, CopiesOK, NeverRetried

\* The end of a session that leaves every row alone.
LEMMA EndSessionOK ==
    ASSUME IInv, NEW s \in Sessions, EndSession(s), UNCHANGED row
    PROVE  IInv'
<1>1. FreshOnly(Absent) /\ NothingHeld \in [Jobs -> Row]
      /\ \A j \in Jobs : NothingHeld[j] = Absent
  BY FreshRows DEF FreshOnly, NothingHeld
<1>2. TypeOK'
  BY <1>1 DEF EndSession, IInv, TypeOK, SessionState
<1>3. Recoverable'
  BY DEF IInv, Recoverable
<1>4. CopiesOK'
  BY DEF EndSession, IInv, TypeOK, CopiesOK
<1>5. NeverRetried'
  BY <1>1 DEF EndSession, IInv, TypeOK, NeverRetried
<1>6. QED BY <1>2, <1>3, <1>4, <1>5 DEF IInv

\* The first claim of a batch keeps the invariant.
LEMMA StartBatchOK ==
    ASSUME IInv, NEW s \in Sessions, StartBatch(s) PROVE IInv'
<1>1. PICK due \in Selections(BatchLimit, DueJobs), first \in Jobs :
          /\ IsSmallest(first, due)
          /\ row' = [row EXCEPT ![first] = Claimed(row[first], row[first])]
          /\ held' = [held EXCEPT ![s] =
                [j \in Jobs |-> IF j = first THEN Claimed(row[j], row[j])
                               ELSE IF j \in due THEN row[j] ELSE Absent]]
          /\ pc' = [pc EXCEPT ![s] = "running"]
          /\ job' = [job EXCEPT ![s] = first]
          /\ batch' = [batch EXCEPT ![s] = due \ {first}]
  BY DEF StartBatch
<1>2. due \subseteq Jobs /\ \A j \in due : Claimable(row[j])
  BY DEF Selections, FirstOf, DueJobs
<1>3. Claimable(row[first])
  BY <1>1, <1>2 DEF IsSmallest
<1>4. row[first] \in Row
  BY DEF IInv, TypeOK
<1> DEFINE new == Claimed(row[first], row[first])
           copies == [j \in Jobs |-> IF j = first THEN new
                                     ELSE IF j \in due THEN row[j] ELSE Absent]
<1>5. /\ new \in Row /\ new.state = "running" /\ new.lease # NoTime
      /\ row[first].attempts = 0 => new.attempts = 1
  BY <1>4, ClaimedRow
<1>6. first \notin Retryable => row[first].attempts = 0
  BY <1>3 DEF Claimable, IInv, NeverRetried, FreshOnly
<1>7. /\ row' = [row EXCEPT ![first] = new]
      /\ held' = [held EXCEPT ![s] = copies]
  BY <1>1
<1>8. /\ copies \in [Jobs -> Row]
      /\ copies[first].state = "running"
      /\ \A j \in Jobs \ Retryable : FreshOnly(copies[j])
  BY <1>5, FreshRows DEF IInv, TypeOK, NeverRetried, FreshOnly
<1> HIDE DEF new, copies
<1>9. TypeOK'
  BY <1>1, <1>2, <1>5, <1>7, <1>8 DEF IInv, TypeOK, SessionState
<1>10. Recoverable'
  BY <1>5, <1>7 DEF IInv, TypeOK, Recoverable
<1>11. CopiesOK'
  BY <1>1, <1>7, <1>8 DEF IInv, TypeOK, CopiesOK
<1>12. NeverRetried'
  BY <1>5, <1>6, <1>7, <1>8 DEF IInv, TypeOK, NeverRetried, FreshOnly
<1>13. QED BY <1>9, <1>10, <1>11, <1>12 DEF IInv

LEMMA NextIInv == IInv /\ [Next]_vars => IInv'
<1> SUFFICES ASSUME IInv, [Next]_vars PROVE IInv'
  OBVIOUS
<1> USE DEF IInv
<1>1. ASSUME NEW j \in Jobs, Create(j) PROVE IInv'
  BY <1>1, FreshRows
     DEF Create, TypeOK, Recoverable, CopiesOK, NeverRetried, FreshOnly
<1>2. ASSUME NEW s \in Sessions, NEW j \in Jobs, Deliver(s, j) PROVE IInv'
  <2> DEFINE read == IF row[j].state = "absent" THEN Queued ELSE row[j]
  <2>1. /\ read \in Row
        /\ read.state = "running" => read.lease # NoTime
        /\ read.state = "retry_wait" => read.nextAt # NoTime
        /\ j \notin Retryable => FreshOnly(read) /\ read.attempts <= 1
    BY FreshRows DEF TypeOK, Recoverable, NeverRetried, FreshOnly
  <2>2. /\ row' = [row EXCEPT ![j] = read]
        /\ UNCHANGED batch
        /\ \/ /\ pc' = [pc EXCEPT ![s] = "loaded"]
              /\ job' = [job EXCEPT ![s] = j]
              /\ held' = [held EXCEPT ![s][j] = read]
           \/ UNCHANGED <<pc, job, held>>
    BY <1>2 DEF Deliver
  <2> HIDE DEF read
  <2>3. TypeOK'
    <3>1. row' \in [Jobs -> Row]
      BY <2>1, <2>2 DEF TypeOK
    <3>2. pc' \in [Sessions -> SessionState]
      BY <2>2 DEF TypeOK, SessionState
    <3>3. job' \in [Sessions -> Jobs \cup {NoJob}]
      BY <2>2 DEF TypeOK
    <3>4. held' \in [Sessions -> [Jobs -> Row]]
      <4>1. [held EXCEPT ![s][j] = read] \in [Sessions -> [Jobs -> Row]]
        BY <2>1 DEF TypeOK
      <4>2. QED BY <2>2, <4>1 DEF TypeOK
    <3>5. QED BY <2>2, <3>1, <3>2, <3>3, <3>4 DEF TypeOK
  <2>4. Recoverable'
    BY <2>1, <2>2 DEF TypeOK, Recoverable
  <2>5. CopiesOK'
    BY <1>2, <2>2 DEF TypeOK, CopiesOK, Deliver
  <2>6. NeverRetried'
    BY <2>1, <2>2 DEF TypeOK, NeverRetried
  <2>7. QED BY <2>3, <2>4, <2>5, <2>6
<1>3. ASSUME NEW s \in Sessions, ClaimDelivered(s) PROVE IInv'
  <2>1. job[s] \in Jobs /\ Claim(s, job[s]) /\ batch' = batch
    BY <1>3 DEF ClaimDelivered, CopiesOK
  <2>2. QED BY <2>1, ClaimOK DEF TypeOK
<1>4. ASSUME NEW s \in Sessions, ClaimNext(s) PROVE IInv'
  <2>1. PICK j \in Jobs : Claim(s, j) /\ batch' = [batch EXCEPT ![s] = @ \ {j}]
    BY <1>4 DEF ClaimNext
  <2>2. batch' \in [Sessions -> SUBSET Jobs]
    BY <2>1 DEF TypeOK
  <2>3. QED BY <2>1, <2>2, ClaimOK
<1>5. ASSUME NEW s \in Sessions, SkipRest(s) \/ Crash(s) PROVE IInv'
  BY <1>5, EndSessionOK DEF SkipRest, Crash
<1>6. ASSUME NEW s \in Sessions, Complete(s) PROVE IInv'
  <2>1. job[s] \in Jobs /\ row[job[s]] \in Row /\ held[s][job[s]] \in Row
    BY <1>6 DEF Complete, CopiesOK, TypeOK
  <2>2. RowsOK
    BY <1>6, <2>1, CompletedRow
       DEF Complete, RowsOK, TypeOK, Recoverable, NeverRetried, FreshOnly
  <2>3. QED BY <1>6, <2>2, EndOK DEF Complete
<1>7. ASSUME NEW s \in Sessions, Fail(s) PROVE IInv'
  <2>1. job[s] \in Jobs /\ row[job[s]] \in Row /\ held[s][job[s]] \in Row
    BY <1>7 DEF Fail, CopiesOK, TypeOK
  <2>2. RowsOK
    BY <1>7, <2>1, FailedRow
       DEF Fail, RowsOK, TypeOK, Recoverable, NeverRetried, FreshOnly
  <2>3. QED BY <1>7, <2>2, EndOK DEF Fail
<1>8. ASSUME NEW s \in Sessions, FailUnrecorded(s) PROVE IInv'
  <2>1. RowsOK
    BY <1>8 DEF FailUnrecorded, RowsOK, TypeOK, Recoverable, NeverRetried
  <2>2. QED BY <1>8, <2>1, EndOK DEF FailUnrecorded
<1>9. ASSUME NEW s \in Sessions, CompleteRolledBack(s) PROVE IInv'
  <2>1. job[s] \in Jobs /\ row[job[s]] \in Row
    BY <1>9 DEF CompleteRolledBack, CopiesOK, TypeOK
  <2> DEFINE new == [row[job[s]] EXCEPT !.state = "completed",
                                        !.lease = NoTime, !.nextAt = NoTime]
  <2>2. new \in Row /\ new.state = "completed" /\ new.attempts = row[job[s]].attempts
    BY <2>1 DEF Row, JobState, Timer
  <2>3. row' = [row EXCEPT ![job[s]] = new]
    BY <1>9 DEF CompleteRolledBack
  <2> HIDE DEF new
  <2>4. RowsOK
    BY <2>1, <2>2, <2>3
       DEF RowsOK, TypeOK, Recoverable, NeverRetried, FreshOnly
  <2>5. QED BY <1>9, <2>4, EndOK DEF CompleteRolledBack
<1>10. ASSUME Reconcile PROVE IInv'
  <2>1. PICK S \in Selections(SweepLimit, StuckJobs) :
            row' = [j \in Jobs |-> IF j \in S THEN Failed(j, row[j], row[j])
                                   ELSE row[j]]
    BY <1>10 DEF Reconcile
  <2>2. \A j \in Jobs : row[j] \in Row
    BY DEF TypeOK
  <2>3. row' \in [Jobs -> Row]
    BY <2>1, <2>2, FailedRow
  <2>4. Recoverable'
    BY <2>1, <2>2, FailedRow DEF Recoverable
  <2>5. \A j \in Jobs \ Retryable : FreshOnly(row'[j]) /\ row'[j].attempts <= 1
    BY <2>1, <2>2, FailedRow DEF NeverRetried, FreshOnly
  <2>6. QED BY <1>10, <2>3, <2>4, <2>5
        DEF Reconcile, TypeOK, CopiesOK, NeverRetried
<1>11. ASSUME Tick PROVE IInv'
  <2>1. /\ \A j \in Jobs : row[j] \in Row
        /\ \A s \in Sessions, j \in Jobs : held[s][j] \in Row
    BY DEF TypeOK
  <2>2. /\ \A j \in Jobs : row'[j] = Aged(row[j])
        /\ \A s \in Sessions, j \in Jobs : held'[s][j] = Aged(held[s][j])
        /\ UNCHANGED <<pc, job, batch>>
    BY <1>11 DEF Tick
  <2>3. TypeOK'
    BY <1>11, <2>1, AgedRow DEF Tick, TypeOK
  <2>4. Recoverable'
    BY <2>1, <2>2, AgedRow DEF Recoverable
  <2>5. CopiesOK'
    BY <2>1, <2>2, AgedRow DEF CopiesOK
  <2>6. NeverRetried'
    BY <2>1, <2>2, AgedRow DEF NeverRetried, FreshOnly
  <2>7. QED BY <2>3, <2>4, <2>5, <2>6
<1>12. CASE UNCHANGED vars
  BY <1>12 DEF vars, TypeOK, Recoverable, CopiesOK, NeverRetried
<1>13. ASSUME NEW s \in Sessions, StartBatch(s) PROVE IInv'
  BY <1>13, StartBatchOK
<1>14. QED
  BY <1>1, <1>2, <1>3, <1>4, <1>5, <1>6, <1>7, <1>8, <1>9, <1>10, <1>11,
     <1>12, <1>13 DEF Next, Step

LEMMA AlwaysIInv == Spec => []IInv
BY InitIInv, NextIInv, PTL DEF Spec

-----------------------------------------------------------------------------

\* Every variable keeps its type in every behaviour.
THEOREM TypeCorrect == Spec => []TypeOK
BY AlwaysIInv, PTL DEF IInv

\* No interleaving strands a job: a running row has a lease to expire, a
\* waiting row has a time to come due.
THEOREM NothingStranded == Spec => []Recoverable
BY AlwaysIInv, PTL DEF IInv

\* Kinds outside RETRYABLE_KINDS are attempted once and never put back, even
\* by sessions that act on stale copies.
THEOREM NoUnlistedRetry == Spec => []NoRetryUnlessListed
<1>1. IInv => NoRetryUnlessListed
  BY DEF IInv, NeverRetried, FreshOnly, NoRetryUnlessListed
<1>2. QED BY <1>1, AlwaysIInv, PTL

-----------------------------------------------------------------------------
(* What a step makes of the rows.  A session that judges or writes a row    *)
(* from a copy that tells what the row tells does what the state machine of *)
(* domain/jobs.py does to the row itself; only the rest is left to copies   *)
(* that are out of date.                                                    *)

\* Steps by the rules, of one row or, for a sweep, of several.
ByTheRules ==
    \/ \A j \in Jobs : row'[j].state = row[j].state /\ row'[j].attempts = row[j].attempts
    \/ \E j \in Jobs :
          /\ row[j].state = "absent" /\ row'[j].state = "queued" /\ row'[j].attempts = 0
          /\ \A k \in Jobs \ {j} : row'[k] = row[k]
    \/ \E j \in Jobs :
          /\ Claimable(row[j]) /\ row'[j].state = "running"
          /\ row'[j].attempts = OneMore(row[j].attempts)
          /\ \A k \in Jobs \ {j} : row'[k] = row[k]
    \/ \E j \in Jobs :
          /\ row[j].state = "running" /\ row'[j].state = "completed"
          /\ row'[j].attempts = row[j].attempts
          /\ \A k \in Jobs \ {j} : row'[k] = row[k]
    \/ \E S \in SUBSET Jobs :
          /\ S # {} /\ \A j \in S : /\ row[j].state = "running"
                                    /\ row'[j].attempts = row[j].attempts
                                    /\ row'[j].state = IF Retries(j, row[j].attempts)
                                                       THEN "retry_wait" ELSE "failed_review"
          /\ \A k \in Jobs \ S : row'[k] = row[k]

\* A step in which s writes at most row j, from an outdated copy of it.
FromOldCopy(s, j) ==
    /\ Outdated(s, j)
    /\ held'[s][j] # held[s][j]
    /\ \A k \in Jobs \ {j} : row'[k] = row[k]

\* Failing puts a row back exactly when the copy says that it may be tried
\* once more; claiming counts one more attempt than the copy has.
LEMMA FailedState ==
    ASSUME NEW j \in Jobs, NEW r \in Row, NEW copy \in Row
    PROVE  Failed(j, r, copy).state = IF Retries(j, copy.attempts)
                                      THEN "retry_wait" ELSE "failed_review"
BY DEF Failed, PutBack, GivenUp, Row

LEMMA ClaimedAttempts ==
    ASSUME NEW r \in Row, NEW copy \in Row
    PROVE  Claimed(r, copy).attempts = OneMore(copy.attempts)
BY DEF Claimed, Row

\* A claim, of a delivered job or of the next one of a batch.
LEMMA ClaimByCopy ==
    ASSUME IInv, NEW s \in Sessions, NEW j \in Jobs, Claim(s, j)
    PROVE  ByTheRules \/ FromOldCopy(s, j)
<1> DEFINE copy == held[s][j]
           new == Claimed(row[j], copy)
           after == Claimed(copy, copy)
<1>1. row[j] \in Row /\ copy \in Row /\ Claimable(copy)
  BY DEF IInv, TypeOK, Claim
<1>2. /\ new.state = "running" /\ new.attempts = OneMore(copy.attempts)
      /\ after.state = "running"
  BY <1>1, ClaimedRow, ClaimedAttempts
<1>3. row' = [row EXCEPT ![j] = new] /\ held' = [held EXCEPT ![s][j] = after]
  BY DEF Claim
<1> HIDE DEF new, after
<1>4. /\ row'[j] = new /\ \A k \in Jobs \ {j} : row'[k] = row[k]
      /\ held'[s][j] = after
  BY <1>3 DEF IInv, TypeOK
<1>5. CASE Outdated(s, j)
  BY <1>1, <1>2, <1>4, <1>5 DEF FromOldCopy, Claimable
<1>6. CASE ~Outdated(s, j)
  <2>1. Claimable(row[j]) /\ row[j].attempts = copy.attempts
    BY <1>1, <1>6 DEF Outdated, Claimable
  <2>2. QED  BY <1>2, <1>4, <2>1 DEF ByTheRules
<1>7. QED  BY <1>5, <1>6

\* The end of a job, whatever its session writes.
LEMMA EndByCopy ==
    ASSUME IInv, NEW s \in Sessions, pc[s] = "running", NEW new \in Row,
           row' = [row EXCEPT ![job[s]] = new],
           AfterJob(s) \/ AfterRollback(s),
           new.attempts = row[job[s]].attempts,
           \/ new.state = "completed"
           \/ new.state = IF Retries(job[s], held[s][job[s]].attempts)
                          THEN "retry_wait" ELSE "failed_review"
    PROVE  job[s] \in Jobs /\ (ByTheRules \/ FromOldCopy(s, job[s]))
<1> DEFINE j == job[s]
<1>1. j \in Jobs /\ held[s][j].state = "running"
  BY DEF IInv, CopiesOK
<1>2. row'[j] = new /\ \A k \in Jobs \ {j} : row'[k] = row[k]
  BY <1>1 DEF IInv, TypeOK
<1>3. held'[s][j].state = "absent"
  BY <1>1, FreshRows
     DEF IInv, TypeOK, AfterJob, AfterRollback, EndSession, NothingHeld
<1>4. CASE Outdated(s, j)
  BY <1>1, <1>2, <1>3, <1>4 DEF FromOldCopy
<1>5. CASE ~Outdated(s, j)
  <2>1. row[j].state = "running" /\ row[j].attempts = held[s][j].attempts
    BY <1>1, <1>5 DEF Outdated
  <2>2. CASE new.state = "completed"
    BY <1>1, <1>2, <2>1, <2>2 DEF ByTheRules
  <2>3. CASE new.state = IF Retries(j, held[s][j].attempts)
                         THEN "retry_wait" ELSE "failed_review"
    <3> DEFINE S == {j}
    <3>1. S \in SUBSET Jobs /\ S # {}
          /\ \A k \in S : /\ row[k].state = "running"
                          /\ row'[k].attempts = row[k].attempts
                          /\ row'[k].state = IF Retries(k, row[k].attempts)
                                             THEN "retry_wait" ELSE "failed_review"
          /\ \A i \in Jobs \ S : row'[i] = row[i]
      BY <1>1, <1>2, <2>1, <2>3
    <3> HIDE DEF S
    <3>2. QED  BY <3>1 DEF ByTheRules
  <2>4. QED  BY <2>2, <2>3
<1>6. QED  BY <1>1, <1>4, <1>5

\* Every step goes by the rules, or is that of a session that acts on an
\* outdated copy of the one row it writes.
LEMMA RulesStep ==
    ASSUME IInv, Next
    PROVE  ByTheRules \/ \E s \in Sessions, j \in Jobs : FromOldCopy(s, j)
<1> DEFINE Goal == ByTheRules \/ \E s \in Sessions, j \in Jobs : FromOldCopy(s, j)
<1>0. row \in [Jobs -> Row] /\ \A s \in Sessions, j \in Jobs : held[s][j] \in Row
  BY DEF IInv, TypeOK
<1>1. ASSUME NEW j \in Jobs, Create(j) PROVE Goal
  BY <1>0, <1>1, FreshRows DEF Create, ByTheRules
<1>2. ASSUME NEW s \in Sessions, NEW j \in Jobs, Deliver(s, j) PROVE Goal
  <2> DEFINE read == IF row[j].state = "absent" THEN Queued ELSE row[j]
  <2>1. row' = [row EXCEPT ![j] = read]
    BY <1>2 DEF Deliver
  <2>2. CASE row[j].state = "absent"
    BY <1>0, <2>1, <2>2, FreshRows DEF ByTheRules
  <2>3. CASE row[j].state # "absent"
    BY <1>0, <2>1, <2>3 DEF ByTheRules
  <2>4. QED  BY <2>2, <2>3
<1>3. ASSUME NEW s \in Sessions, ClaimDelivered(s) \/ ClaimNext(s) PROVE Goal
  <2>1. PICK j \in Jobs : Claim(s, j)
    BY <1>3 DEF ClaimDelivered, ClaimNext, IInv, CopiesOK
  <2>2. QED  BY <2>1, ClaimByCopy
<1>4. ASSUME NEW s \in Sessions,
             SkipRest(s) \/ Crash(s) \/ FailUnrecorded(s)
      PROVE  Goal
  BY <1>4 DEF SkipRest, Crash, FailUnrecorded, ByTheRules
<1>5. ASSUME NEW s \in Sessions, pc[s] = "running"
      PROVE  job[s] \in Jobs /\ row[job[s]] \in Row /\ held[s][job[s]] \in Row
  BY <1>0, <1>5 DEF IInv, CopiesOK
<1>6. ASSUME NEW s \in Sessions, Complete(s) PROVE Goal
  <2> DEFINE new == Completed(row[job[s]], held[s][job[s]])
  <2>1. pc[s] = "running" /\ row' = [row EXCEPT ![job[s]] = new] /\ AfterJob(s)
    BY <1>6 DEF Complete
  <2>2. new \in Row /\ new.state = "completed" /\ new.attempts = row[job[s]].attempts
    BY <1>5, <2>1, CompletedRow
  <2> HIDE DEF new
  <2>3. QED  BY <2>1, <2>2, EndByCopy
<1>7. ASSUME NEW s \in Sessions, Fail(s) PROVE Goal
  <2> DEFINE new == Failed(job[s], row[job[s]], held[s][job[s]])
  <2>1. pc[s] = "running" /\ row' = [row EXCEPT ![job[s]] = new] /\ AfterJob(s)
    BY <1>7 DEF Fail
  <2>2. /\ new \in Row /\ new.attempts = row[job[s]].attempts
        /\ new.state = IF Retries(job[s], held[s][job[s]].attempts)
                       THEN "retry_wait" ELSE "failed_review"
    BY <1>5, <2>1, FailedRow, FailedState
  <2> HIDE DEF new
  <2>3. QED  BY <2>1, <2>2, EndByCopy
<1>8. ASSUME NEW s \in Sessions, CompleteRolledBack(s) PROVE Goal
  <2> DEFINE new == [row[job[s]] EXCEPT !.state = "completed",
                                        !.lease = NoTime, !.nextAt = NoTime]
  <2>1. pc[s] = "running" /\ row' = [row EXCEPT ![job[s]] = new] /\ AfterRollback(s)
    BY <1>8 DEF CompleteRolledBack
  <2>2. new \in Row /\ new.state = "completed" /\ new.attempts = row[job[s]].attempts
    BY <1>5, <2>1 DEF Row, JobState, Timer
  <2> HIDE DEF new
  <2>3. QED  BY <2>1, <2>2, EndByCopy
<1>9. ASSUME NEW s \in Sessions, StartBatch(s) PROVE Goal
  <2>1. PICK due \in Selections(BatchLimit, DueJobs), first \in Jobs :
            /\ IsSmallest(first, due)
            /\ row' = [row EXCEPT ![first] = Claimed(row[first], row[first])]
    BY <1>9 DEF StartBatch
  <2>2. Claimable(row[first])
    BY <2>1 DEF Selections, FirstOf, DueJobs, IsSmallest
  <2> DEFINE new == Claimed(row[first], row[first])
  <2>3. new.state = "running" /\ new.attempts = OneMore(row[first].attempts)
    BY <1>0, ClaimedRow, ClaimedAttempts
  <2> HIDE DEF new
  <2>4. row'[first] = new /\ \A k \in Jobs \ {first} : row'[k] = row[k]
    BY <1>0, <2>1 DEF new
  <2>5. QED  BY <2>2, <2>3, <2>4 DEF ByTheRules
<1>10. ASSUME Reconcile PROVE Goal
  <2>1. PICK S \in Selections(SweepLimit, StuckJobs) :
            /\ S # {}
            /\ row' = [j \in Jobs |-> IF j \in S
                                      THEN Failed(j, row[j], row[j]) ELSE row[j]]
    BY <1>10 DEF Reconcile
  <2>2. S \in SUBSET Jobs /\ \A j \in S : row[j].state = "running"
    BY <2>1 DEF Selections, FirstOf, StuckJobs, LeaseExpired
  <2>3. /\ \A k \in Jobs \ S : row'[k] = row[k]
        /\ \A j \in S : j \in Jobs /\ row'[j] = Failed(j, row[j], row[j])
    BY <2>1, <2>2
  <2>4. ASSUME NEW j \in S
        PROVE  /\ row'[j].attempts = row[j].attempts
               /\ row'[j].state = IF Retries(j, row[j].attempts)
                                  THEN "retry_wait" ELSE "failed_review"
    <3> DEFINE new == Failed(j, row[j], row[j])
    <3>1. j \in Jobs /\ row[j] \in Row /\ row'[j] = new
      BY <1>0, <2>3
    <3>2. new.attempts = row[j].attempts
      BY <3>1, FailedRow
    <3>3. new.state = IF Retries(j, row[j].attempts)
                      THEN "retry_wait" ELSE "failed_review"
      BY <3>1, FailedState
    <3> HIDE DEF new
    <3>4. QED  BY <3>1, <3>2, <3>3
  <2>5. QED  BY <2>1, <2>2, <2>3, <2>4 DEF ByTheRules
<1>11. ASSUME Tick PROVE Goal
  BY <1>0, <1>11, AgedRow DEF Tick, ByTheRules
<1>12. QED
  BY <1>1, <1>2, <1>3, <1>4, <1>6, <1>7, <1>8, <1>9, <1>10, <1>11 DEF Next, Step

\* A step by the rules is lawful for every row.
LEMMA RulesAreLawful ==
    ASSUME ByTheRules, NEW j \in Jobs PROVE Lawful(j, row[j], row'[j])
BY DEF ByTheRules, Lawful, Claimable, Retries

\* With any number of sessions, overlapping, crashing and outliving their
\* leases, only a session that acts on an outdated copy of a row makes of it
\* what the state machine of domain/jobs.py does not allow: start it again
\* when it is settled, or before its time, or lose count of its attempts
\* (claim_job_for_execution, complete_job, fail_job_for_execution,
\* reconcile_stuck_jobs).
THEOREM RulesHoldForCurrentCopies == Spec => OnlyOldCopiesBreakTheRules
<1> DEFINE Rules == \A j \in Jobs :
                \/ Lawful(j, row[j], row'[j])
                \/ \E s \in Sessions : Outdated(s, j) /\ held'[s][j] # held[s][j]
<1>1. IInv /\ [Next]_vars => [Rules]_vars
  <2> SUFFICES ASSUME IInv, Next, NEW j \in Jobs
               PROVE  \/ Lawful(j, row[j], row'[j])
                      \/ \E s \in Sessions : Outdated(s, j) /\ held'[s][j] # held[s][j]
    OBVIOUS
  <2>1. CASE ByTheRules
    BY <2>1, RulesAreLawful
  <2>2. ASSUME NEW s \in Sessions, NEW k \in Jobs, FromOldCopy(s, k)
        PROVE  \/ Lawful(j, row[j], row'[j])
               \/ Outdated(s, j) /\ held'[s][j] # held[s][j]
    BY <2>2 DEF FromOldCopy, Lawful
  <2>3. QED  BY <2>1, <2>2, RulesStep
<1>2. QED BY <1>1, AlwaysIInv, PTL DEF Spec, OnlyOldCopiesBreakTheRules

-----------------------------------------------------------------------------
(* The job table implements JobLifecycle for as long as no session writes a *)
(* row from an outdated copy of it: nothing else stands between the code    *)
(* and what claim_job promises, neither overlapping sessions nor crashes    *)
(* nor handlers that outlive their leases.                                  *)

OldCopiesWriteNothing ==
    [][\A s \in Sessions, j \in Jobs :
          Outdated(s, j) /\ held'[s][j] # held[s][j] => row'[j] = row[j]]_vars

\* A row waits only while it has an attempt left, and all of them before it
\* is there.
AttemptsLeft ==
    \A j \in Jobs :
        /\ row[j].state \in {"queued", "retry_wait"} => row[j].attempts < MaxAttempts
        /\ row[j].state = "absent" => row[j].attempts = 0

\* Then every step goes by the rules.
LEMMA CurrentStep ==
    ASSUME IInv, Next,
           \A s \in Sessions, j \in Jobs :
              Outdated(s, j) /\ held'[s][j] # held[s][j] => row'[j] = row[j]
    PROVE  ByTheRules
<1>1. ASSUME NEW s \in Sessions, NEW j \in Jobs, FromOldCopy(s, j)
      PROVE  \A k \in Jobs : row'[k] = row[k]
  BY <1>1 DEF FromOldCopy
<1>2. (\A k \in Jobs : row'[k] = row[k]) => ByTheRules
  BY DEF ByTheRules
<1>3. QED  BY <1>1, <1>2, RulesStep

LEMMA AttemptsLeftStep ==
    ASSUME IInv, AttemptsLeft, ByTheRules PROVE AttemptsLeft'
<1>1. \A j \in Jobs : row[j].attempts \in 0..AttemptCap
  BY DEF IInv, TypeOK, Row
<1>2. QED
  BY <1>1, JobQueueAssumption DEF ByTheRules, AttemptsLeft, Retries, Claimable

\* A step by the rules is a step of the lifecycle.
LEMMA LifecycleStep ==
    ASSUME IInv, AttemptsLeft, ByTheRules
    PROVE  Lifecycle!Next \/ UNCHANGED <<[j \in Jobs |-> IF row[j].state \in {"queued", "retry_wait"}
                                             THEN "waiting" ELSE row[j].state],
                            [j \in Jobs |-> row[j].attempts]>>
<1> DEFINE ph(r) == IF r.state \in {"queued", "retry_wait"} THEN "waiting" ELSE r.state
           phase == [j \in Jobs |-> ph(row[j])]
           tries == [j \in Jobs |-> row[j].attempts]
<1>1. CASE \A j \in Jobs : row'[j].state = row[j].state /\ row'[j].attempts = row[j].attempts
  <2>1. phase' = phase /\ tries' = tries
    BY <1>1
  <2>2. QED  BY <2>1
<1>2. ASSUME NEW j \in Jobs,
             row[j].state = "absent", row'[j].state = "queued", row'[j].attempts = 0,
             \A k \in Jobs \ {j} : row'[k] = row[k]
      PROVE  Lifecycle!Record(j)
  <2>1. row[j].attempts = 0
    BY <1>2 DEF AttemptsLeft
  <2>2. QED  BY <1>2, <2>1 DEF Lifecycle!Record
<1>3. ASSUME NEW j \in Jobs,
             Claimable(row[j]), row'[j].state = "running",
             row'[j].attempts = OneMore(row[j].attempts),
             \A k \in Jobs \ {j} : row'[k] = row[k]
      PROVE  Lifecycle!Start(j)
  <2>1. row[j].attempts < MaxAttempts /\ row'[j].attempts = row[j].attempts + 1
    BY <1>3 DEF AttemptsLeft, Claimable, OneMore
  <2>2. QED  BY <1>3, <2>1 DEF Lifecycle!Start, Claimable
<1>4. ASSUME NEW j \in Jobs,
             row[j].state = "running", row'[j].state = "completed",
             row'[j].attempts = row[j].attempts,
             \A k \in Jobs \ {j} : row'[k] = row[k]
      PROVE  Lifecycle!Finish(j)
  BY <1>4 DEF Lifecycle!Finish
<1>5. ASSUME NEW S \in SUBSET Jobs, S # {},
             \A j \in S : /\ row[j].state = "running"
                          /\ row'[j].attempts = row[j].attempts
                          /\ row'[j].state = IF Retries(j, row[j].attempts)
                                             THEN "retry_wait" ELSE "failed_review",
             \A k \in Jobs \ S : row'[k] = row[k]
      PROVE  Lifecycle!GiveBack(S)
  BY <1>5 DEF Lifecycle!GiveBack, Retries
<1>6. QED
  BY <1>1, <1>2, <1>3, <1>4, <1>5 DEF ByTheRules, Lifecycle!Next

\* If no session writes a row from an outdated copy of it, the table does what
\* JobLifecycle promises, for any number of overlapping sessions, crashes and
\* handlers that outlive their leases: a job is started at most MaxAttempts
\* times, never twice at once and never again once it has settled (claim_job,
\* fail_job, reconcile_stuck_jobs).
THEOREM CurrentCopiesImplementLifecycle ==
    Spec /\ OldCopiesWriteNothing => ImplementsLifecycle
<1> DEFINE Current == \A s \in Sessions, j \in Jobs :
                         Outdated(s, j) /\ held'[s][j] # held[s][j] => row'[j] = row[j]
<1>1. Init => Lifecycle!Init /\ AttemptsLeft
  BY FreshRows, JobQueueAssumption DEF Init, Lifecycle!Init, AttemptsLeft
<1>2. IInv /\ AttemptsLeft /\ [Next]_vars /\ [Current]_vars =>
        /\ AttemptsLeft'
        /\ [Lifecycle!Next]_<<[j \in Jobs |-> IF row[j].state \in {"queued", "retry_wait"}
                                             THEN "waiting" ELSE row[j].state],
                            [j \in Jobs |-> row[j].attempts]>>
  <2>1. CASE UNCHANGED vars
    BY <2>1 DEF vars, AttemptsLeft
  <2>2. ASSUME IInv, AttemptsLeft, Next, Current
        PROVE  /\ AttemptsLeft'
               /\ [Lifecycle!Next]_<<[j \in Jobs |-> IF row[j].state \in {"queued", "retry_wait"}
                                             THEN "waiting" ELSE row[j].state],
                            [j \in Jobs |-> row[j].attempts]>>
    BY <2>2, CurrentStep, AttemptsLeftStep, LifecycleStep
  <2>3. QED  BY <2>1, <2>2
<1>3. QED
  BY <1>1, <1>2, AlwaysIInv, PTL
     DEF Spec, OldCopiesWriteNothing, ImplementsLifecycle, Lifecycle!Spec

(***************************************************************************)
(* Proofs about Outbox, for any events, any number of dispatchers and any  *)
(* limits, whichever of them die and whatever the vendor answers.          *)
(***************************************************************************)

\* A row in a batch is still due: nobody else can have touched it since it
\* was locked.
BatchesAreDue ==
    \A d \in Dispatchers : \A e \in sending[d] :
        event[e].state = "pending" /\ event[e].attempts < MaxDispatchAttempts

\* No row is in two batches.
BatchesAreApart ==
    \A c, d \in Dispatchers : c # d => sending[c] \cap sending[d] = {}

\* An acceptance is heard only of events the vendor has.
AcceptanceIsTrue ==
    \A d \in Dispatchers : answer[d] = "accepted" => sending[d] \subseteq received

OutboxIInv ==
    /\ OutboxTypeOK
    /\ DeliveryIsBacked
    /\ BatchesAreDue
    /\ BatchesAreApart
    /\ AcceptanceIsTrue

-----------------------------------------------------------------------------
(* Facts about single rows *)

\* An enqueued event changes its own row only, and only an absent one.
LEMMA EnqueuedRows ==
    ASSUME OutboxTypeOK, NEW e \in Events
    PROVE  /\ Enqueued(event, e) \in [Events -> Event]
           /\ \A f \in Events : \/ Enqueued(event, e)[f] = event[f]
                                \/ /\ event[f].state = "absent"
                                   /\ Enqueued(event, e)[f].state = "pending"
<1>1. CASE event[e].state = "absent"
  <2>1. Enqueued(event, e) = [event EXCEPT ![e] = [event[e] EXCEPT !.state = "pending"]]
    BY <1>1 DEF Enqueued
  <2>2. [event[e] EXCEPT !.state = "pending"] \in Event
        /\ [event[e] EXCEPT !.state = "pending"].state = "pending"
    BY DEF OutboxTypeOK, Event, EventState
  <2> QED BY <1>1, <2>1, <2>2 DEF OutboxTypeOK
<1>2. CASE event[e].state # "absent"
  BY <1>2 DEF Enqueued, OutboxTypeOK
<1> QED BY <1>1, <1>2

\* What an answer makes of a due row: dispatched only if it was accepted.
LEMMA OutcomeRow ==
    ASSUME NEW r \in Event, r.state = "pending", r.attempts < MaxDispatchAttempts,
           NEW heard
    PROVE  /\ Outcome(r, heard) \in Event
           /\ Outcome(r, heard).state = "dispatched" => heard = "accepted"
<1> USE OutboxAssumption
<1>1. CASE heard = "accepted"
  BY <1>1 DEF Outcome, MarkDispatched, Event, EventState
<1>2. CASE heard # "accepted"
  <2>1. r.attempts + 1 \in 0..MaxDispatchAttempts
    BY DEF Event
  <2>2. Outcome(r, heard) = MarkFailed(r)
    BY <1>2 DEF Outcome
  <2>3. MarkFailed(r).state \in {"dead_letter", "pending"}
        /\ MarkFailed(r).attempts = r.attempts + 1
        /\ MarkFailed(r) = [state |-> MarkFailed(r).state, attempts |-> MarkFailed(r).attempts]
    BY DEF MarkFailed
  <2> QED BY <2>1, <2>2, <2>3 DEF Event, EventState
<1> QED BY <1>1, <1>2

-----------------------------------------------------------------------------
(* The invariant holds initially and is kept by every step. *)

LEMMA OutboxInitIInv == OutboxInit => OutboxIInv
<1> SUFFICES ASSUME OutboxInit PROVE OutboxIInv
  OBVIOUS
<1>1. NoEvent \in Event
  BY OutboxAssumption DEF NoEvent, Event, EventState
<1>2. OutboxTypeOK
  <2>1. /\ event \in [Events -> Event]
        /\ sending \in [Dispatchers -> SUBSET Events]
        /\ answer \in [Dispatchers -> Answers]
    BY <1>1 DEF OutboxInit, Answers
  <2>2. deaths \in 0..MaxDeaths
    BY OutboxAssumption DEF OutboxInit
  <2>3. scheduleDone \in BOOLEAN
    BY DEF OutboxInit
  <2>4. configured \in BOOLEAN /\ received \subseteq Events /\ onSchedule \subseteq Dispatchers
    BY DEF OutboxInit
  <2>5. QED  BY <2>1, <2>2, <2>3, <2>4 DEF OutboxTypeOK
<1>3. DeliveryIsBacked /\ BatchesAreDue /\ BatchesAreApart /\ AcceptanceIsTrue
  BY DEF OutboxInit, NoEvent, DeliveryIsBacked, BatchesAreDue, BatchesAreApart, AcceptanceIsTrue
<1>4. QED  BY <1>2, <1>3 DEF OutboxIInv

LEMMA EnqueueIInv ==
    ASSUME OutboxIInv, NEW e \in Events, Enqueue(e) PROVE OutboxIInv'
<1> USE DEF OutboxIInv, Enqueue, scheduleVars
<1>1. /\ event' \in [Events -> Event]
      /\ \A f \in Events : \/ event'[f] = event[f]
                           \/ event[f].state = "absent" /\ event'[f].state = "pending"
  BY EnqueuedRows
<1>2. OutboxTypeOK'
  BY <1>1 DEF OutboxTypeOK
<1>3. DeliveryIsBacked'
  BY <1>1 DEF DeliveryIsBacked
<1>4. BatchesAreDue'
  BY <1>1 DEF BatchesAreDue, OutboxTypeOK
<1>5. BatchesAreApart' /\ AcceptanceIsTrue'
  BY DEF BatchesAreApart, AcceptanceIsTrue
<1> QED BY <1>2, <1>3, <1>4, <1>5

LEMMA TakeBatchIInv ==
    ASSUME OutboxIInv, NEW d \in Dispatchers, TakeBatch(d),
           onSchedule' \subseteq Dispatchers, scheduleDone' \in BOOLEAN
    PROVE  OutboxIInv'
<1> USE DEF OutboxIInv, TakeBatch
<1> DEFINE B == FirstEvents(Free)
<1>1. /\ B \subseteq Events
      /\ \A e \in B : event[e].state = "pending" /\ event[e].attempts < MaxDispatchAttempts
      /\ \A c \in Dispatchers : B \cap sending[c] = {}
  BY DEF FirstEvents, Free, DueEvents, Locked
<1>2. /\ sending' = [sending EXCEPT ![d] = B]
      /\ answer' = [answer EXCEPT ![d] = "waiting"]
      /\ UNCHANGED <<event, configured, received, deaths>>
  OBVIOUS
<1> HIDE DEF B, TakeBatch
<1>3. OutboxTypeOK'
  BY <1>1, <1>2 DEF OutboxTypeOK, Answers
<1>4. DeliveryIsBacked'
  BY <1>2 DEF DeliveryIsBacked
<1>5. BatchesAreDue'
  BY <1>1, <1>2 DEF BatchesAreDue, OutboxTypeOK
<1>6. BatchesAreApart'
  BY <1>1, <1>2 DEF BatchesAreApart, OutboxTypeOK
<1>7. AcceptanceIsTrue'
  BY <1>2 DEF AcceptanceIsTrue, OutboxTypeOK
<1> QED BY <1>3, <1>4, <1>5, <1>6, <1>7

\* A dispatch starts, for the schedule or for an operator.
LEMMA DispatchStartsIInv ==
    ASSUME OutboxIInv, NEW d \in Dispatchers, RunScheduled(d) \/ RunForOperator(d)
    PROVE  OutboxIInv'
<1>1. onSchedule \subseteq Dispatchers /\ scheduleDone \in BOOLEAN
  BY DEF OutboxIInv, OutboxTypeOK
<1>2. CASE TakeBatch(d) /\ onSchedule' = {d} /\ UNCHANGED scheduleDone
  BY <1>1, <1>2, TakeBatchIInv
<1>3. CASE TakeBatch(d) /\ UNCHANGED scheduleVars
  BY <1>1, <1>3, TakeBatchIInv DEF scheduleVars
<1>4. CASE scheduleDone' = TRUE /\ UNCHANGED <<rowVars, onSchedule>>
  BY <1>4 DEF OutboxIInv, rowVars, OutboxTypeOK, DeliveryIsBacked, BatchesAreDue, BatchesAreApart,
              AcceptanceIsTrue
<1>5. QED  BY <1>2, <1>3, <1>4 DEF RunScheduled, RunForOperator

\* The vendor's answer touches no row.
LEMMA AnswerIInv ==
    ASSUME OutboxIInv, NEW d \in Dispatchers, VendorAccepts(d) \/ VendorRefuses(d) PROVE OutboxIInv'
<1> USE DEF OutboxIInv
<1>1. CASE VendorAccepts(d)
  BY <1>1 DEF VendorAccepts, OutboxTypeOK, DeliveryIsBacked, BatchesAreDue, BatchesAreApart,
              AcceptanceIsTrue, Answers, scheduleVars
<1>2. CASE VendorRefuses(d)
  BY <1>2 DEF VendorRefuses, OutboxTypeOK, DeliveryIsBacked, BatchesAreDue, BatchesAreApart,
              AcceptanceIsTrue, Answers, scheduleVars
<1> QED BY <1>1, <1>2

LEMMA RecordAnswerIInv ==
    ASSUME OutboxIInv, NEW d \in Dispatchers, RecordAnswer(d) PROVE OutboxIInv'
<1> USE DEF OutboxIInv, RecordAnswer
<1>1. \A e \in sending[d] : /\ e \in Events
                            /\ Outcome(event[e], answer[d]) \in Event
                            /\ Outcome(event[e], answer[d]).state = "dispatched"
                                => e \in received
  BY OutcomeRow DEF OutboxTypeOK, BatchesAreDue, AcceptanceIsTrue
<1>2. /\ event' \in [Events -> Event]
      /\ \A e \in Events : e \notin sending[d] => event'[e] = event[e]
      /\ \A e \in sending[d] : event'[e].state = "dispatched" => e \in received
  BY <1>1 DEF OutboxTypeOK
<1>3. /\ sending' = [sending EXCEPT ![d] = {}]
      /\ answer' = [answer EXCEPT ![d] = "idle"]
      /\ scheduleDone' = (scheduleDone \/ d \in onSchedule)
      /\ onSchedule' = onSchedule \ {d}
      /\ UNCHANGED <<configured, received, deaths>>
  OBVIOUS
<1> HIDE DEF RecordAnswer
<1>4. OutboxTypeOK'
  <2>1. onSchedule' \subseteq Dispatchers /\ scheduleDone' \in BOOLEAN
    BY <1>3 DEF OutboxTypeOK
  <2>2. QED  BY <1>2, <1>3, <2>1 DEF OutboxTypeOK, Answers
<1>5. DeliveryIsBacked'
  BY <1>2, <1>3 DEF DeliveryIsBacked
<1>6. BatchesAreDue'
  BY <1>2, <1>3 DEF BatchesAreDue, BatchesAreApart, OutboxTypeOK
<1>7. BatchesAreApart' /\ AcceptanceIsTrue'
  BY <1>3 DEF BatchesAreApart, AcceptanceIsTrue, OutboxTypeOK
<1> QED BY <1>4, <1>5, <1>6, <1>7

LEMMA DispatcherDiesIInv ==
    ASSUME OutboxIInv, NEW d \in Dispatchers, DispatcherDies(d) PROVE OutboxIInv'
<1>1. OutboxTypeOK'
  <2>1. /\ sending' \in [Dispatchers -> SUBSET Events]
        /\ answer' \in [Dispatchers -> Answers]
        /\ onSchedule' \subseteq Dispatchers
    BY DEF OutboxIInv, DispatcherDies, OutboxTypeOK, Answers
  <2>2. deaths' \in 0..MaxDeaths
    BY OutboxAssumption DEF OutboxIInv, DispatcherDies, OutboxTypeOK
  <2>3. scheduleDone' \in BOOLEAN
    BY DEF OutboxIInv, DispatcherDies, OutboxTypeOK
  <2>4. QED  BY <2>1, <2>2, <2>3 DEF OutboxIInv, DispatcherDies, OutboxTypeOK
<1>2. DeliveryIsBacked' /\ BatchesAreDue' /\ BatchesAreApart' /\ AcceptanceIsTrue'
  BY DEF OutboxIInv, DispatcherDies, OutboxTypeOK, DeliveryIsBacked, BatchesAreDue,
         BatchesAreApart, AcceptanceIsTrue
<1>3. QED  BY <1>1, <1>2 DEF OutboxIInv

LEMMA ActivateIInv == ASSUME OutboxIInv, Activate PROVE OutboxIInv'
BY DEF OutboxIInv, Activate, OutboxTypeOK, DeliveryIsBacked, BatchesAreDue, BatchesAreApart,
       AcceptanceIsTrue, scheduleVars

LEMMA OutboxNextIInv == OutboxIInv /\ [OutboxNext]_outboxVars => OutboxIInv'
<1> SUFFICES ASSUME OutboxIInv, [OutboxNext]_outboxVars PROVE OutboxIInv'
  OBVIOUS
<1>1. ASSUME NEW e \in Events, Enqueue(e) PROVE OutboxIInv'
  BY <1>1, EnqueueIInv
<1>2. ASSUME NEW d \in Dispatchers, DispatchStep(d) PROVE OutboxIInv'
  BY <1>2, DispatchStartsIInv, AnswerIInv, RecordAnswerIInv, DispatcherDiesIInv
     DEF DispatchStep
<1>3. CASE Activate
  BY <1>3, ActivateIInv
<1>4. CASE UNCHANGED outboxVars
  BY <1>4 DEF outboxVars, rowVars, scheduleVars, OutboxIInv, OutboxTypeOK, DeliveryIsBacked, BatchesAreDue,
              BatchesAreApart, AcceptanceIsTrue
<1> QED BY <1>1, <1>2, <1>3, <1>4 DEF OutboxNext

LEMMA OutboxInvariance == OutboxSpec => []OutboxIInv
BY OutboxInitIInv, OutboxNextIInv, PTL DEF OutboxSpec

-----------------------------------------------------------------------------
(* Theorems *)

\* Every reachable state of the outbox is well typed; in particular no row
\* ever counts more attempts than MAX_DISPATCH_ATTEMPTS (mark_failed).
THEOREM OutboxTypeCorrect == OutboxSpec => []OutboxTypeOK
<1>1. OutboxIInv => OutboxTypeOK
  BY DEF OutboxIInv
<1> QED BY <1>1, OutboxInvariance, PTL

\* No event is written off as delivered that the vendor has not accepted,
\* with any number of dispatchers, deaths and lost answers
\* (dispatch_analytics_events).
THEOREM DispatchedIsReceived == OutboxSpec => []DeliveryIsBacked
<1>1. OutboxIInv => DeliveryIsBacked
  BY DEF OutboxIInv
<1> QED BY <1>1, OutboxInvariance, PTL

-----------------------------------------------------------------------------
(* The outbox implements EventDelivery.  A dispatcher's batch is open, for  *)
(* the rows of BatchesAreDue; an acceptance it heard is the vendor's, for   *)
(* AcceptanceIsTrue; the other steps of a dispatch change none of the three *)
(* variables of EventDelivery.                                              *)

DeliveryVars ==
    <<[e \in Events |-> event[e].state], [e \in Events |-> event[e].attempts], received>>

\* The fields of a row after an answer.
LEMMA OutcomeFields ==
    ASSUME NEW r \in Event, NEW heard, r.attempts < MaxDispatchAttempts
    PROVE  /\ heard = "accepted" => /\ Outcome(r, heard).state = "dispatched"
                                    /\ Outcome(r, heard).attempts = r.attempts
           /\ heard # "accepted" => /\ Outcome(r, heard).attempts = r.attempts + 1
                                    /\ Outcome(r, heard).state =
                                         IF r.attempts + 1 = MaxDispatchAttempts
                                         THEN "dead_letter" ELSE r.state
<1>1. r.attempts \in Nat /\ MaxDispatchAttempts \in Nat
  BY OutboxAssumption DEF Event
<1>2. CASE heard = "accepted"
  BY <1>2 DEF Outcome, MarkDispatched, Event
<1>3. CASE heard # "accepted"
  <2>1. Outcome(r, heard) = MarkFailed(r)
    BY <1>3 DEF Outcome
  <2>2. /\ MarkFailed(r).attempts = r.attempts + 1
        /\ MarkFailed(r).state = IF r.attempts + 1 >= MaxDispatchAttempts
                                 THEN "dead_letter" ELSE r.state
    BY DEF MarkFailed
  <2>3. (r.attempts + 1 >= MaxDispatchAttempts) <=> (r.attempts + 1 = MaxDispatchAttempts)
    BY <1>1
  <2>4. QED  BY <1>3, <2>1, <2>2, <2>3
<1>4. QED  BY <1>2, <1>3

LEMMA EnqueueDelivers ==
    ASSUME OutboxIInv, NEW e \in Events, Enqueue(e)
    PROVE  Delivery!Record(e) \/ UNCHANGED DeliveryVars
<1>1. event \in [Events -> Event]
  BY DEF OutboxIInv, OutboxTypeOK
<1>2. CASE event[e].state = "absent"
  <2>1. event' = [event EXCEPT ![e] = [event[e] EXCEPT !.state = "pending"]]
    BY <1>2 DEF Enqueue, Enqueued
  <2>2. /\ [event[e] EXCEPT !.state = "pending"].state = "pending"
        /\ [event[e] EXCEPT !.state = "pending"].attempts = event[e].attempts
    BY <1>1 DEF Event
  <2>3. /\ event'[e].state = "pending" /\ event'[e].attempts = event[e].attempts
        /\ \A f \in Events \ {e} : event'[f] = event[f]
    BY <1>1, <2>1, <2>2
  <2>4. QED  BY <1>2, <2>3 DEF Delivery!Record, Enqueue
<1>3. CASE event[e].state # "absent"
  BY <1>3 DEF Enqueue, Enqueued, DeliveryVars
<1>4. QED  BY <1>2, <1>3

\* A dispatcher's batch is a batch of events that may be sent.
LEMMA BatchIsOpen ==
    ASSUME OutboxIInv, NEW d \in Dispatchers
    PROVE  sending[d] \in SUBSET Events /\ Delivery!Open(sending[d])
<1>1. sending[d] \in SUBSET Events
  BY DEF OutboxIInv, OutboxTypeOK
<1>2. QED
  BY <1>1 DEF OutboxIInv, BatchesAreDue, Delivery!Open

LEMMA AnswerDelivers ==
    ASSUME OutboxIInv, NEW d \in Dispatchers, RecordAnswer(d)
    PROVE  Delivery!Confirm(sending[d]) \/ Delivery!Fail(sending[d])
<1>1. sending[d] \in SUBSET Events /\ Delivery!Open(sending[d])
  BY BatchIsOpen
<1>2. \A e \in sending[d] : event[e] \in Event /\ event[e].attempts < MaxDispatchAttempts
  BY <1>1 DEF OutboxIInv, OutboxTypeOK, BatchesAreDue
<1>3. /\ \A e \in sending[d] : event'[e] = Outcome(event[e], answer[d])
      /\ \A e \in Events \ sending[d] : event'[e] = event[e]
      /\ received' = received
  BY <1>1 DEF RecordAnswer
<1>4. CASE answer[d] = "accepted"
  <2>1. sending[d] \subseteq received
    BY <1>4 DEF OutboxIInv, AcceptanceIsTrue
  <2>2. /\ \A e \in sending[d] : /\ event'[e].state = "dispatched"
                                 /\ event'[e].attempts = event[e].attempts
        /\ \A e \in Events \ sending[d] : event'[e] = event[e]
    BY <1>2, <1>3, <1>4, OutcomeFields
  <2>3. QED  BY <1>1, <1>3, <2>1, <2>2 DEF Delivery!Confirm
<1>5. CASE answer[d] # "accepted"
  <2>1. \A e \in sending[d] : event[e].state = "pending"
    BY DEF OutboxIInv, BatchesAreDue
  <2>2. /\ \A e \in sending[d] : /\ event'[e].attempts = event[e].attempts + 1
                                 /\ event'[e].state =
                                      IF event[e].attempts + 1 = MaxDispatchAttempts
                                      THEN "dead_letter" ELSE event[e].state
        /\ \A e \in Events \ sending[d] : event'[e] = event[e]
    BY <1>2, <1>3, <1>5, OutcomeFields
  <2>3. QED  BY <1>1, <1>3, <2>2 DEF Delivery!Fail
<1>6. QED  BY <1>4, <1>5

LEMMA DeliveryStep ==
    OutboxIInv /\ [OutboxNext]_outboxVars => [Delivery!Next]_DeliveryVars
<1> SUFFICES ASSUME OutboxIInv, [OutboxNext]_outboxVars
             PROVE  Delivery!Next \/ UNCHANGED DeliveryVars
  OBVIOUS
<1>1. ASSUME NEW e \in Events, Enqueue(e) PROVE Delivery!Next \/ UNCHANGED DeliveryVars
  BY <1>1, EnqueueDelivers DEF Delivery!Next
<1>2. ASSUME NEW d \in Dispatchers, VendorAccepts(d) PROVE Delivery!Receive(sending[d])
  BY <1>2, BatchIsOpen DEF VendorAccepts, Delivery!Receive
<1>3. ASSUME NEW d \in Dispatchers, DispatchStep(d)
      PROVE  Delivery!Next \/ UNCHANGED DeliveryVars
  <2>1. CASE VendorAccepts(d)
    BY <2>1, <1>2, BatchIsOpen DEF Delivery!Next
  <2>2. CASE RecordAnswer(d)
    <3>1. sending[d] \in SUBSET Events
      BY BatchIsOpen
    <3>2. Delivery!Confirm(sending[d]) \/ Delivery!Fail(sending[d])
      BY <2>2, AnswerDelivers
    <3>3. CASE Delivery!Confirm(sending[d])
      BY <3>1, <3>3 DEF Delivery!Next, Delivery!Confirm
    <3>4. CASE Delivery!Fail(sending[d])
      BY <3>1, <3>4 DEF Delivery!Next, Delivery!Fail
    <3>5. QED  BY <3>2, <3>3, <3>4
  <2>3. CASE RunScheduled(d) \/ RunForOperator(d) \/ VendorRefuses(d) \/ DispatcherDies(d)
    BY <2>3 DEF RunScheduled, RunForOperator, TakeBatch, VendorRefuses, DispatcherDies, rowVars,
                DeliveryVars
  <2>4. QED  BY <1>3, <2>1, <2>2, <2>3 DEF DispatchStep
<1>4. CASE Activate \/ UNCHANGED outboxVars
  BY <1>4 DEF Activate, outboxVars, rowVars, DeliveryVars
<1>5. QED  BY <1>1, <1>3, <1>4 DEF OutboxNext

\* The outbox does what EventDelivery promises, for every number of events,
\* dispatchers and deaths: what is settled is never sent or changed again,
\* and an event is parked by its last failed try only
\* (dispatch_analytics_events, mark_dispatched, mark_failed).
THEOREM OutboxImplementsDelivery == OutboxSpec => ImplementsDelivery
<1>1. OutboxInit => Delivery!Init
  BY DEF OutboxInit, NoEvent, Delivery!Init
<1>2. OutboxIInv /\ [OutboxNext]_outboxVars =>
        [Delivery!Next]_<<[e \in Events |-> event[e].state],
                          [e \in Events |-> event[e].attempts], received>>
  BY DeliveryStep DEF DeliveryVars
<1>3. QED
  BY <1>1, <1>2, OutboxInvariance, PTL DEF OutboxSpec, ImplementsDelivery, Delivery!Spec

=============================================================================

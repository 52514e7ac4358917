------------------------------ MODULE JobQueue ------------------------------
(***************************************************************************)
(* The durable job table (`processing_jobs`) and everything that moves a   *)
(* row of it: the QStash callback (`_enqueue`), the batch runner           *)
(* (`execute_due_jobs`, shared by the run-due route and the scheduled      *)
(* sweep), the claim / complete / fail helpers of infra/jobs.py, and the   *)
(* sweep that takes expired leases back (`reconcile_stuck_jobs`).          *)
(*                                                                         *)
(* A session is one request (or one scheduled run) with its own database   *)
(* session.  Between two awaits any other session may commit, so every     *)
(* commit is a step of its own.  A SELECT ... FOR UPDATE and the commit    *)
(* that follows it are one step: the row lock keeps everyone else out      *)
(* between them, and it is gone once that commit is done.                  *)
(*                                                                         *)
(* The session factory is built with expire_on_commit=False, so an object  *)
(* a session has loaded keeps the attribute values of that first load:     *)
(* selecting the row again, even FOR UPDATE, returns the same object with  *)
(* the same values.  `held` is that copy, and a flush writes exactly the   *)
(* columns whose assigned value differs from it.                           *)
(*                                                                         *)
(* Time is counted in minutes and stored as the time left, so that a row   *)
(* has finitely many values: 0 is "now or already past".                   *)
(***************************************************************************)
EXTENDS Integers, FiniteSets

CONSTANTS
    Jobs,          \* job ids: numbers, because job_id is time-ordered
    Retryable,     \* the jobs whose kind is in RETRYABLE_KINDS
    Sessions,      \* requests and scheduled runs that execute jobs
    MaxAttempts,   \* attempts after which a retryable job is given up (5)
    Lease,         \* minutes a claim is held (LEASE_SECONDS = 900)
    BackoffCap,    \* longest backoff in minutes (21600 seconds)
    BatchLimit,    \* how many due jobs one batch takes (200 or ?limit=)
    SweepLimit,    \* how many expired leases one sweep takes back (100)
    SlowHandlers   \* may a handler outlive the lease of its claim?

ASSUME JobQueueAssumption ==
    /\ Jobs \subseteq Nat
    /\ IsFiniteSet(Jobs)
    /\ Retryable \subseteq Jobs
    /\ MaxAttempts \in Nat \ {0}
    /\ Lease \in Nat \ {0}
    /\ BackoffCap \in Nat \ {0}
    /\ BatchLimit \in Nat \ {0}
    /\ SweepLimit \in Nat \ {0}
    /\ SlowHandlers \in BOOLEAN

VARIABLES
    row,     \* row[j]: the committed row of job j
    pc,      \* pc[s]: where session s is
    job,     \* job[s]: the job it is about to claim or is running
    batch,   \* batch[s]: what its execute_due_jobs loop has still to run
    held     \* held[s][j]: the copy of j's row in its identity map

vars == <<row, pc, job, batch, held>>

-----------------------------------------------------------------------------
(* Rows *)

NoTime == -1                  \* a NULL timestamp
NoJob  == -1                  \* no job at hand

\* JobState, and "absent" for a row that was never inserted.
JobState == {"absent", "queued", "running", "retry_wait", "completed",
             "failed_review"}

\* Attempts are compared with MaxAttempts and with nothing above it, so the
\* counter saturates one past it.
AttemptCap == MaxAttempts + 1

Timer == Nat \cup {NoTime}
Row == [state : JobState, attempts : 0..AttemptCap, nextAt : Timer, lease : Timer]

Absent == [state |-> "absent", attempts |-> 0, nextAt |-> NoTime, lease |-> NoTime]
Queued == [Absent EXCEPT !.state = "queued"]

Elapsed(t) == t \in {NoTime, 0}
ClaimableAnytime(r) == r.state \in {"queued", "retry_wait"}  \* mutant: no backoff
Claimable(r) == r.state \in {"queued", "retry_wait"} /\ Elapsed(r.nextAt)
LeaseMissing(r) == r.state = "running" /\ r.lease = NoTime   \* mutant: IS NULL
LeaseExpired(r) == r.state = "running" /\ r.lease = 0

\* min(60 * 2 ** max(attempts - 1, 0), 21600) seconds, in minutes.  Attempts
\* is at least 1 when a job fails, so the inner max never matters.
Backoff(a) == IF 2^(a - 1) \in 1..BackoffCap THEN 2^(a - 1) ELSE BackoffCap

RetriesAnyKind(j, attempts) == attempts < MaxAttempts       \* mutant: every kind

\* fail_job: does this failure go back to the queue?
Retries(j, attempts) == j \in Retryable /\ attempts < MaxAttempts

\* What a flush leaves in a nullable column: NULL is written only when the
\* session's copy of the column was not NULL already.
Cleared(stored, copy) == IF copy = NoTime THEN stored ELSE NoTime

\* Attempts are counted up to one beyond the maximum.
OneMore(attempts) == IF attempts < MaxAttempts THEN attempts + 1 ELSE AttemptCap

ClaimedWithoutLease(stored, copy) ==                        \* mutant: no lease
    [stored EXCEPT !.state = "running",
                   !.attempts = OneMore(copy.attempts)]

\* claim_job and claim_job_for_execution: state, attempts and lease are
\* written from the session's copy; next_attempt_at is left as it is stored.
Claimed(stored, copy) ==
    [stored EXCEPT !.state = "running",
                   !.attempts = OneMore(copy.attempts),
                   !.lease = Lease]

\* complete_job.
Completed(stored, copy) ==
    [stored EXCEPT !.state = "completed",
                   !.lease = Cleared(@, copy.lease),
                   !.nextAt = Cleared(@, copy.nextAt)]

PutBackUncounted(stored, copy) ==        \* mutant: the attempt is given back
    [stored EXCEPT !.state = "retry_wait", !.attempts = @ - 1,
                   !.lease = Cleared(@, copy.lease),
                   !.nextAt = Backoff(copy.attempts)]

\* fail_job and fail_job_for_execution, when the job goes back to the queue
\* and when it is given up; reconcile_stuck_jobs does the same to a row it has
\* just read.
PutBack(stored, copy) ==
    [stored EXCEPT !.state = "retry_wait",
                   !.lease = Cleared(@, copy.lease),
                   !.nextAt = Backoff(copy.attempts)]
GivenUp(stored, copy) ==
    [stored EXCEPT !.state = "failed_review",
                   !.lease = Cleared(@, copy.lease),
                   !.nextAt = Cleared(@, copy.nextAt)]
Failed(j, stored, copy) ==
    IF Retries(j, copy.attempts) THEN PutBack(stored, copy) ELSE GivenUp(stored, copy)

-----------------------------------------------------------------------------
(* Sessions *)

\* "idle"    : no request
\* "loaded"  : _enqueue has read the row and found it eligible
\* "running" : the claim is committed, the handler runs
\* "between" : execute_due_jobs is between two jobs of its batch
\* "expired" : as "between", after a rollback that expired the loaded rows
SessionState == {"idle", "loaded", "running", "between", "expired"}

NothingHeld == [j \in Jobs |-> Absent]

Init ==
    /\ row = [j \in Jobs |-> Absent]
    /\ pc = [s \in Sessions |-> "idle"]
    /\ job = [s \in Sessions |-> NoJob]
    /\ batch = [s \in Sessions |-> {}]
    /\ held = [s \in Sessions |-> NothingHeld]

\* import_feed_records, request_review and _add_review_task_once insert the
\* row and leave its execution to a delivery or to a sweep.
Create(j) ==
    /\ row[j].state = "absent"
    /\ row' = [row EXCEPT ![j] = Queued]
    /\ UNCHANGED <<pc, job, batch, held>>

\* enqueue_job: insert unless the dedupe key exists, commit, read the row.
\* _enqueue then either answers with the state it read, or goes on to execute.
Deliver(s, j) ==
    LET read == IF row[j].state = "absent" THEN Queued ELSE row[j] IN
    /\ pc[s] = "idle"
    /\ row' = [row EXCEPT ![j] = read]
    /\ IF Claimable(read)
       THEN /\ pc' = [pc EXCEPT ![s] = "loaded"]
            /\ job' = [job EXCEPT ![s] = j]
            /\ held' = [held EXCEPT ![s][j] = read]
       ELSE UNCHANGED <<pc, job, held>>
    /\ UNCHANGED batch

\* claim_job_for_execution, called by a session that already holds a copy of
\* the row: claim_job judges the copy, never the row the lock protects.
Claim(s, j) ==
    LET copy == held[s][j] IN
    /\ Claimable(copy)
    /\ row' = [row EXCEPT ![j] = Claimed(@, copy)]
    /\ held' = [held EXCEPT ![s][j] = Claimed(copy, copy)]
    /\ pc' = [pc EXCEPT ![s] = "running"]
    /\ job' = [job EXCEPT ![s] = j]

ClaimDelivered(s) ==
    /\ pc[s] = "loaded"
    /\ Claim(s, job[s])
    /\ UNCHANGED batch

DueJobs == {j \in Jobs : Claimable(row[j])}
IsSmallest(j, S) == j \in S /\ \A k \in S : j <= k

\* ORDER BY job_id LIMIT n ... SKIP LOCKED: the first rows of S that no other
\* transaction holds locked at that moment.
FirstOf(n, S) == {j \in S : Cardinality({k \in S : k < j}) < n}
Selections(n, S) == {FirstOf(n, S \ locked) : locked \in SUBSET S}

\* due_jobs loads all that it selects; execute_due_jobs up to the commit of
\* its first claim, which ends the transaction that locked the batch.
StartBatch(s) ==
    /\ pc[s] = "idle"
    /\ \E due \in Selections(BatchLimit, DueJobs), first \in Jobs :
          /\ IsSmallest(first, due)
          /\ row' = [row EXCEPT ![first] = Claimed(@, @)]
          /\ held' = [held EXCEPT ![s] =
                [j \in Jobs |-> IF j = first THEN Claimed(row[j], row[j])
                               ELSE IF j \in due THEN row[j] ELSE Absent]]
          /\ pc' = [pc EXCEPT ![s] = "running"]
          /\ job' = [job EXCEPT ![s] = first]
          /\ batch' = [batch EXCEPT ![s] = due \ {first}]

\* The next turn of the execute_due_jobs loop.
ClaimNext(s) ==
    /\ pc[s] = "between"
    /\ \E next \in Jobs :
          /\ IsSmallest(next, batch[s])
          /\ Claim(s, next)
          /\ batch' = [batch EXCEPT ![s] = @ \ {next}]

\* The end of a request: the session and its identity map are gone.
EndSession(s) ==
    /\ pc' = [pc EXCEPT ![s] = "idle"]
    /\ job' = [job EXCEPT ![s] = NoJob]
    /\ batch' = [batch EXCEPT ![s] = {}]
    /\ held' = [held EXCEPT ![s] = NothingHeld]

\* After one job: the loop goes on to the rest of its batch, if any.
AfterJob(s) ==
    \/ /\ batch[s] = {}
       /\ EndSession(s)
    \/ /\ batch[s] # {}
       /\ pc' = [pc EXCEPT ![s] = "between"]
       /\ job' = [job EXCEPT ![s] = NoJob]
       /\ held' = [held EXCEPT ![s][job[s]] = Absent]
       /\ UNCHANGED batch

\* The same after a rollback of an open transaction, which expires all that
\* the session has loaded.
AfterRollback(s) ==
    \/ /\ batch[s] = {}
       /\ EndSession(s)
    \/ /\ batch[s] # {}
       /\ pc' = [pc EXCEPT ![s] = "expired"]
       /\ job' = [job EXCEPT ![s] = NoJob]
       /\ held' = [held EXCEPT ![s] = NothingHeld]
       /\ UNCHANGED batch

\* The handler returns: complete_job.
Complete(s) ==
    LET j == job[s] IN
    /\ pc[s] = "running"
    /\ row' = [row EXCEPT ![j] = Completed(@, held[s][j])]
    /\ AfterJob(s)

\* The handler raises: fail_job_for_execution commits the failure, and
\* execute_job raises again.  The rollback of execute_due_jobs finds no open
\* transaction, so the copies of the rest of the batch stay loaded.
Fail(s) ==
    LET j == job[s] IN
    /\ pc[s] = "running"
    /\ row' = [row EXCEPT ![j] = Failed(j, @, held[s][j])]
    /\ AfterJob(s)

\* The handler (or complete_job) fails on the database itself, so that the
\* commit of fail_job_for_execution raises too and execute_due_jobs rolls an
\* open transaction back.
FailUnrecorded(s) ==
    /\ pc[s] = "running"
    /\ AfterRollback(s)
    /\ UNCHANGED row

\* reverify_due and auto_approve_sweep roll back when one of their items
\* fails and then return: complete_job writes all its columns over a row of
\* which nothing is loaded any more.
CompleteRolledBack(s) ==
    LET j == job[s] IN
    /\ pc[s] = "running"
    /\ row' = [row EXCEPT ![j] = [@ EXCEPT !.state = "completed",
                                          !.lease = NoTime, !.nextAt = NoTime]]
    /\ AfterRollback(s)

\* Reading due.job_id of an expired row needs I/O that plain attribute access
\* cannot do: every remaining turn of the loop raises and counts a failure.
SkipRest(s) ==
    /\ pc[s] = "expired"
    /\ EndSession(s)
    /\ UNCHANGED row

\* The process dies, or the request is cancelled, at any point.
Crash(s) ==
    /\ pc[s] # "idle"
    /\ EndSession(s)
    /\ UNCHANGED row

\* reconcile_stuck_jobs, in a session that holds none of the rows.
StuckJobs == {j \in Jobs : LeaseExpired(row[j])}
Reconcile ==
    /\ \E stuck \in Selections(SweepLimit, StuckJobs) :
          /\ stuck # {}
          /\ row' = [j \in Jobs |-> IF j \in stuck
                                    THEN Failed(j, row[j], row[j]) ELSE row[j]]
    /\ UNCHANGED <<pc, job, batch, held>>

\* A minute passes, for the stored rows and for the loaded copies of them.
Earlier(t) == IF t > 0 THEN t - 1 ELSE t
Aged(r) == [r EXCEPT !.nextAt = Earlier(@), !.lease = Earlier(@)]

RunningOut(s) == pc[s] = "running" /\ held[s][job[s]].lease = 1

Tick ==
    /\ \E j \in Jobs : row[j].nextAt > 0 \/ row[j].lease > 0
    /\ SlowHandlers \/ \A s \in Sessions : ~RunningOut(s)
    /\ row' = [j \in Jobs |-> Aged(row[j])]
    /\ held' = [s \in Sessions |-> [j \in Jobs |-> Aged(held[s][j])]]
    /\ UNCHANGED <<pc, job, batch>>

-----------------------------------------------------------------------------

\* What a session does on its own once it has started.
Step(s) ==
    \/ ClaimDelivered(s)
    \/ ClaimNext(s)
    \/ SkipRest(s)
    \/ Complete(s)
    \/ Fail(s)

Next ==
    \/ \E j \in Jobs : Create(j)
    \/ \E s \in Sessions, j \in Jobs : Deliver(s, j)
    \/ \E s \in Sessions : \/ Step(s)
                           \/ StartBatch(s)
                           \/ FailUnrecorded(s)
                           \/ CompleteRolledBack(s)
                           \/ Crash(s)
    \/ Reconcile
    \/ Tick

Spec == Init /\ [][Next]_vars

(***************************************************************************)
(* Fairness.  Both maintenance kinds are on a 15-minute QStash schedule    *)
(* with a fresh dedupe key per quarter hour (RECURRING_QUARTER_HOUR_KINDS),*)
(* so a batch is started and expired leases are taken back again and       *)
(* again; a handler that neither crashes nor hangs ends; time passes.      *)
(* Nothing is assumed of deliveries: publishing to QStash is best effort.  *)
(***************************************************************************)
Fairness ==
    /\ \A s \in Sessions : WF_vars(Step(s))
    /\ SF_vars(\E s \in Sessions : StartBatch(s))
    /\ WF_vars(Reconcile)
    /\ WF_vars(Tick)

FairSpec == Spec /\ Fairness

-----------------------------------------------------------------------------
(* Properties *)

\* Every variable has its type.
TypeOK ==
    /\ row \in [Jobs -> Row]
    /\ pc \in [Sessions -> SessionState]
    /\ job \in [Sessions -> Jobs \cup {NoJob}]
    /\ batch \in [Sessions -> SUBSET Jobs]
    /\ held \in [Sessions -> [Jobs -> Row]]

\* No abandoned work is stranded: whatever interleaving of claims, failures,
\* late completions and sweeps produced it, a row in `running` carries a lease
\* that reconcile_stuck_jobs can find expired, and a row in `retry_wait`
\* carries the time of its next attempt.
Recoverable ==
    \A j \in Jobs :
        /\ row[j].state = "running" => row[j].lease # NoTime
        /\ row[j].state = "retry_wait" => row[j].nextAt # NoTime

\* A kind outside RETRYABLE_KINDS is never put back for another attempt, not
\* even by the lease sweep or by a session that read it long ago: its row is
\* claimed from `queued` copies only, so `attempts` never exceeds one.
NoRetryUnlessListed ==
    \A j \in Jobs \ Retryable :
        /\ row[j].state # "retry_wait"
        /\ row[j].attempts <= 1

\* What the state machine of domain/jobs.py lets one step make of a row:
\* record it, start it when it is due and count the attempt, complete it, or
\* put it back or give it up, as its kind and its attempts ask.
Lawful(j, old, new) ==
    \/ new.state = old.state /\ new.attempts = old.attempts
    \/ old.state = "absent" /\ new.state = "queued" /\ new.attempts = 0
    \/ /\ old.state \in {"queued", "retry_wait"} /\ Elapsed(old.nextAt)
       /\ new.state = "running" /\ new.attempts = OneMore(old.attempts)
    \/ /\ old.state = "running" /\ new.attempts = old.attempts
       /\ new.state \in {"completed",
                         IF j \in Retryable /\ old.attempts < MaxAttempts
                         THEN "retry_wait" ELSE "failed_review"}

\* Does the copy that s has loaded tell what the row tells?
Outdated(s, j) ==
    /\ held[s][j].state # "absent"
    /\ \/ held[s][j].state # row[j].state
       \/ held[s][j].attempts # row[j].attempts
       \/ Elapsed(held[s][j].nextAt) # Elapsed(row[j].nextAt)

\* Whatever sessions overlap, crash or outlive their leases, a row leaves the
\* rules of claim_job, finish_job and fail_job (a settled job is run again, a
\* waiting one before its time, an attempt is not counted, a job is put back
\* once too often) only under a session that itself acts on an outdated copy
\* of that row: no fresh delivery, batch or sweep does it.
OnlyOldCopiesBreakTheRules ==
    [][\A j \in Jobs :
          \/ Lawful(j, row[j], row'[j])
          \/ \E s \in Sessions : Outdated(s, j) /\ held'[s][j] # held[s][j]]_vars

Settled(r) == r.state \in {"completed", "failed_review"}

\* Every job that was ever recorded settles, through crashes, lost failure
\* records, expired leases and dropped batches.
EverySettles ==
    \A j \in Jobs : (row[j].state # "absent") ~> Settled(row[j])

\* A job already completed, or put back and not yet due, is reported as it is:
\* no delivery starts it, as the docstring of _enqueue says, which names
\* claim_job's own state machine as the judge of what is due.
ReportedAsIs ==
    [][\A j \in Jobs :
          (\/ row[j].state = "completed"
           \/ row[j].state = "retry_wait" /\ ~Elapsed(row[j].nextAt))
          => row'[j].state # "running"]_vars

\* `queued` and `retry_wait` are both waiting.
Lifecycle == INSTANCE JobLifecycle WITH
    phase <- [j \in Jobs |-> IF row[j].state \in {"queued", "retry_wait"}
                             THEN "waiting" ELSE row[j].state],
    attempts <- [j \in Jobs |-> row[j].attempts]

\* Every step of the job table is a step of the lifecycle or leaves it as it
\* was: this is what claim_job's state machine promises.
ImplementsLifecycle == Lifecycle!Spec

\* The rollback in execute_due_jobs keeps the rest of the batch running.
BatchSurvivesFailure ==
    \A s \in Sessions : pc[s] = "expired" => batch[s] = {}
=============================================================================

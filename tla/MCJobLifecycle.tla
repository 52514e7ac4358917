--------------------------- MODULE MCJobLifecycle ---------------------------
(***************************************************************************)
(* The job table with one session, whose handlers end within their leases, *)
(* under the deployed limits: five attempts wait at most eight minutes, so *)
(* the cap of the backoff is never reached.  Job 1 is of a retryable kind, *)
(* job 2 of one that is not.                                               *)
(***************************************************************************)
EXTENDS Integers, FiniteSets

CONSTANT s1

VARIABLES jobRow, pc, job, batch, held

tableVars == <<jobRow, pc, job, batch, held>>

Table == INSTANCE JobQueue WITH
    row <- jobRow, Jobs <- {1, 2}, Retryable <- {1}, Sessions <- {s1},
    MaxAttempts <- 5, Lease <- 15, BackoffCap <- 360, BatchLimit <- 200,
    SweepLimit <- 100, SlowHandlers <- FALSE

\* Every step of the table is a step of the lifecycle or leaves it as it was:
\* with nobody else at work no copy is ever outdated, and crashes, rollbacks,
\* expired leases and dropped batches start no job twice (claim_job,
\* fail_job, reconcile_stuck_jobs).
ImplementsLifecycle == Table!ImplementsLifecycle
=============================================================================

----------------------------- MODULE MCJobQueue -----------------------------
(***************************************************************************)
(* Small instances of JobQueue: job 1 is of a retryable kind, job 2 of one *)
(* that is not.                                                            *)
(***************************************************************************)
EXTENDS JobQueue

CONSTANTS s1, s2

MCJobs == {1, 2}
MCRetryable == {1}
MCSessions == {s1, s2}
OneSession == {s1}
=============================================================================

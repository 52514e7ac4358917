---------------------------- MODULE JobLifecycle ----------------------------
(***************************************************************************)
(* What the job table promises its callers, without sessions, leases or    *)
(* timers: a job is recorded once, run at most once at a time and at most  *)
(* MaxAttempts times, put back only when its kind is retryable, and never  *)
(* run again once it has settled.                                          *)
(***************************************************************************)
EXTENDS Naturals

CONSTANTS Jobs, Retryable, MaxAttempts

VARIABLES
    phase,      \* phase[j]: where job j is in its life
    attempts    \* attempts[j]: how often it has been started

Phase == {"absent", "waiting", "running", "completed", "failed_review"}

Init ==
    /\ phase = [j \in Jobs |-> "absent"]
    /\ attempts = [j \in Jobs |-> 0]

Record(j) ==
    /\ phase[j] = "absent"
    /\ phase' = [phase EXCEPT ![j] = "waiting"]
    /\ UNCHANGED attempts

Start(j) ==
    /\ phase[j] = "waiting"
    /\ attempts[j] < MaxAttempts
    /\ phase' = [phase EXCEPT ![j] = "running"]
    /\ attempts' = [attempts EXCEPT ![j] = @ + 1]

Finish(j) ==
    /\ phase[j] = "running"
    /\ phase' = [phase EXCEPT ![j] = "completed"]
    /\ UNCHANGED attempts

\* One failure, or at once the failures of several jobs whose runs were
\* abandoned: each goes back to waiting or is given up for review.
GiveBack(S) ==
    /\ S # {} /\ \A j \in S : phase[j] = "running"
    /\ phase' = [j \in Jobs |->
                   IF j \notin S THEN phase[j]
                   ELSE IF j \in Retryable /\ attempts[j] < MaxAttempts
                   THEN "waiting" ELSE "failed_review"]
    /\ UNCHANGED attempts

Next ==
    \/ \E j \in Jobs : Record(j) \/ Start(j) \/ Finish(j)
    \/ \E S \in SUBSET Jobs : GiveBack(S)

Spec == Init /\ [][Next]_<<phase, attempts>>
=============================================================================

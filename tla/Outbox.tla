------------------------------- MODULE Outbox -------------------------------
(***************************************************************************)
(* The analytics outbox.  An event is a row written in the transaction of  *)
(* the change it tells of; a dispatch job later takes a batch of pending   *)
(* rows, keeps them locked while the vendor is asked to accept the batch,  *)
(* and records the one answer for all of them.                             *)
(*                                                                         *)
(* What starts a dispatch is a job: the one of the QStash schedule, whose   *)
(* body carries always the same dedupe key, or one that an operator sends  *)
(* with a key of its own.  The first delivery of the schedule inserts the  *)
(* row of its key; a later one runs it only if it still waits.             *)
(*                                                                         *)
(* A dispatcher can die between the vendor's answer and its commit, and an *)
(* answer can be lost (a timeout raises like a refusal), so an event may   *)
(* be sent more often than once; the vendor folds copies by event id.      *)
(***************************************************************************)
EXTENDS Integers, FiniteSets

CONSTANTS
    Events,               \* event ids, in the order of their creation
    Dispatchers,          \* dispatch jobs that may run at the same time
    DispatchLimit,        \* events one dispatch takes
    MaxDispatchAttempts,  \* MAX_DISPATCH_ATTEMPTS
    MaxDeaths             \* bound on the dispatchers that die in a run

ASSUME OutboxAssumption ==
    /\ Events \subseteq Nat
    /\ IsFiniteSet(Events)
    /\ DispatchLimit \in Nat \ {0}
    /\ MaxDispatchAttempts \in Nat \ {0}
    /\ MaxDeaths \in Nat

VARIABLES
    event,      \* the outbox_events rows
    sending,    \* sending[d]: the rows dispatcher d holds locked
    answer,     \* answer[d]: what d heard of its batch
    configured, \* posthog_dispatch_active and an API key
    received,   \* events the vendor has accepted
    deaths,     \* dispatchers that died so far
    onSchedule, \* the dispatcher that runs the schedule's job, if any
    scheduleDone \* has that job settled?

rowVars == <<event, sending, answer, configured, received, deaths>>
scheduleVars == <<onSchedule, scheduleDone>>
outboxVars == <<rowVars, scheduleVars>>

-----------------------------------------------------------------------------

EventState == {"absent", "pending", "dispatched", "dead_letter"}
Event == [state : EventState, attempts : 0..MaxDispatchAttempts]
NoEvent == [state |-> "absent", attempts |-> 0]
Answers == {"idle", "waiting", "accepted", "failed"}

\* enqueue_analytics_event: ON CONFLICT (dedupe_key) DO NOTHING.
Enqueued(rows, e) ==
    IF rows[e].state = "absent"
    THEN [rows EXCEPT ![e].state = "pending"] ELSE rows

Locked == UNION {sending[d] : d \in Dispatchers}

\* The rows the claiming SELECT may return.
DueEvents == {e \in Events : /\ event[e].state = "pending"
                             /\ event[e].attempts < MaxDispatchAttempts}
FreeUnlocked == DueEvents                     \* mutant: rows are not locked
Free == DueEvents \ Locked

\* ORDER BY event_id LIMIT ... SKIP LOCKED.
FirstEvents(E) == {e \in E : Cardinality({f \in E : f < e}) < DispatchLimit}

OutboxInit ==
    /\ event = [e \in Events |-> NoEvent]
    /\ sending = [d \in Dispatchers |-> {}]
    /\ answer = [d \in Dispatchers |-> "idle"]
    /\ configured \in BOOLEAN
    /\ received = {}
    /\ deaths = 0
    /\ onSchedule = {}
    /\ scheduleDone = FALSE

\* Some request commits a change and its event.
Enqueue(e) ==
    /\ event' = Enqueued(event, e)
    /\ UNCHANGED <<sending, answer, configured, received, deaths, scheduleVars>>

\* dispatch_analytics_events up to the call of send_batch.  Without the gate,
\* or with nothing to send, the claim is committed and leaves no trace.
TakeBatch(d) ==
    /\ answer[d] = "idle"
    /\ configured
    /\ Free # {}
    /\ sending' = [sending EXCEPT ![d] = FirstEvents(Free)]
    /\ answer' = [answer EXCEPT ![d] = "waiting"]
    /\ UNCHANGED <<event, configured, received, deaths>>

\* The delivery of the schedule, or the sweep of due jobs after a death: the
\* kind is in none of the RECURRING_* sets, so _enqueue keeps the key that the
\* schedule sends, and a row that is running or settled is reported as it is.
\* A dispatch with nothing to send, or without the gate, completes the job.
ScheduleWaits == onSchedule = {} /\ ~scheduleDone
RunScheduled(d) ==
    /\ ScheduleWaits
    /\ \/ /\ TakeBatch(d)
          /\ onSchedule' = {d}
          /\ UNCHANGED scheduleDone
       \/ /\ answer[d] = "idle"
          /\ ~configured \/ Free = {}
          /\ scheduleDone' = TRUE
          /\ UNCHANGED <<rowVars, onSchedule>>

\* An operator's job, with a key of its own.
RunForOperator(d) == TakeBatch(d) /\ UNCHANGED scheduleVars

\* send_batch returns, or the vendor's acceptance is lost on its way back.
VendorAccepts(d) ==
    /\ answer[d] = "waiting"
    /\ received' = received \cup sending[d]
    /\ \E heard \in {"accepted", "failed"} : answer' = [answer EXCEPT ![d] = heard]
    /\ UNCHANGED <<event, sending, configured, deaths, scheduleVars>>

\* A refusal, or no connection.
VendorRefuses(d) ==
    /\ answer[d] = "waiting"
    /\ answer' = [answer EXCEPT ![d] = "failed"]
    /\ UNCHANGED <<event, sending, configured, received, deaths, scheduleVars>>

\* mark_failed
MarkFailed(r) ==
    LET tried == r.attempts + 1
    IN  [state |-> IF tried >= MaxDispatchAttempts THEN "dead_letter" ELSE r.state,
         attempts |-> tried]

\* mark_dispatched
MarkDispatched(r) == [r EXCEPT !.state = "dispatched"]

Outcome(r, heard) == IF heard = "accepted" THEN MarkDispatched(r) ELSE MarkFailed(r)

\* One commit records the answer for the whole batch and frees its rows; the
\* handler returns, whatever the answer was, and its job is completed.
RecordAnswer(d) ==
    /\ answer[d] \in {"accepted", "failed"}
    /\ event' = [e \in Events |-> IF e \in sending[d]
                                  THEN Outcome(event[e], answer[d]) ELSE event[e]]
    /\ sending' = [sending EXCEPT ![d] = {}]
    /\ answer' = [answer EXCEPT ![d] = "idle"]
    /\ scheduleDone' = (scheduleDone \/ d \in onSchedule)
    /\ onSchedule' = onSchedule \ {d}
    /\ UNCHANGED <<configured, received, deaths>>

\* The process dies, or the commit fails: the rows are as they were, and the
\* job is put back, or given up when this was its last attempt.
DispatcherDies(d) ==
    /\ answer[d] # "idle"
    /\ deaths < MaxDeaths
    /\ deaths' = deaths + 1
    /\ sending' = [sending EXCEPT ![d] = {}]
    /\ answer' = [answer EXCEPT ![d] = "idle"]
    /\ onSchedule' = onSchedule \ {d}
    /\ \/ UNCHANGED scheduleDone
       \/ d \in onSchedule /\ scheduleDone' = TRUE
    /\ UNCHANGED <<event, configured, received>>

\* A deployment gains its key.
Activate ==
    /\ ~configured
    /\ configured' = TRUE
    /\ UNCHANGED <<event, sending, answer, received, deaths, scheduleVars>>

DispatchStep(d) ==
    \/ RunScheduled(d)
    \/ RunForOperator(d)
    \/ VendorAccepts(d)
    \/ VendorRefuses(d)
    \/ RecordAnswer(d)
    \/ DispatcherDies(d)

OutboxNext ==
    \/ \E e \in Events : Enqueue(e)
    \/ \E d \in Dispatchers : DispatchStep(d)
    \/ Activate

OutboxSpec == OutboxInit /\ [][OutboxNext]_outboxVars

\* The schedule is delivered again and again, and what it starts is swept
\* when it is due again; a send ends after ten seconds at the latest.  No
\* operator has to act, and nothing makes a deployment configured.
OutboxFairness ==
    /\ WF_outboxVars(\E d \in Dispatchers : RunScheduled(d))
    /\ \A d \in Dispatchers :
          /\ WF_outboxVars(VendorAccepts(d) \/ VendorRefuses(d))
          /\ WF_outboxVars(RecordAnswer(d))

OutboxFairSpec == OutboxSpec /\ OutboxFairness

-----------------------------------------------------------------------------
(* Properties *)

OutboxTypeOK ==
    /\ event \in [Events -> Event]
    /\ sending \in [Dispatchers -> SUBSET Events]
    /\ answer \in [Dispatchers -> Answers]
    /\ configured \in BOOLEAN
    /\ received \subseteq Events
    /\ deaths \in 0..MaxDeaths
    /\ onSchedule \subseteq Dispatchers
    /\ scheduleDone \in BOOLEAN

\* No event is written off as delivered that the vendor has not accepted
\* (dispatch_analytics_events marks a batch only after send_batch returned,
\* and no other dispatcher can have touched its rows since).
DeliveryIsBacked ==
    \A e \in Events : event[e].state = "dispatched" => e \in received

Delivery == INSTANCE EventDelivery WITH
    phase <- [e \in Events |-> event[e].state],
    tries <- [e \in Events |-> event[e].attempts]

\* Every step of the outbox is a step of the delivery of its events or leaves
\* that as it was: no event is sent again once it is settled, whichever
\* dispatchers overlap or die (FOR UPDATE SKIP LOCKED, mark_dispatched,
\* mark_failed).
ImplementsDelivery == Delivery!Spec

\* Once a deployment can send at all, the schedule alone sees to it that every
\* recorded event is delivered or shown to the operator as a dead letter: its
\* script says that a fixed cron is enough, without a dedupe key per tick.
EventsSettle ==
    \A e \in Events :
        (configured /\ event[e].state = "pending")
            ~> event[e].state \in {"dispatched", "dead_letter"}
=============================================================================

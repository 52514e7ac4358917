--------------------------- MODULE EventDelivery ---------------------------
(***************************************************************************)
(* What the analytics outbox promises of its events, without dispatchers,  *)
(* locks or deaths: an event is recorded once, the vendor is asked to take *)
(* it only while it is pending and has a try left, it is written off as    *)
(* delivered only when the vendor has it, and it is parked only when its   *)
(* last try has failed.                                                    *)
(***************************************************************************)
EXTENDS Naturals

CONSTANTS Events, MaxDispatchAttempts

VARIABLES
    phase,      \* phase[e]: where event e is in its life
    tries,      \* tries[e]: how many of its sends have failed
    received    \* events the vendor has accepted

Init ==
    /\ phase = [e \in Events |-> "absent"]
    /\ tries = [e \in Events |-> 0]
    /\ received = {}

Record(e) ==
    /\ phase[e] = "absent"
    /\ phase' = [phase EXCEPT ![e] = "pending"]
    /\ UNCHANGED <<tries, received>>

\* A batch may be sent: nothing in it is settled.
Open(S) == \A e \in S : phase[e] = "pending" /\ tries[e] < MaxDispatchAttempts

Receive(S) ==
    /\ Open(S)
    /\ received' = received \cup S
    /\ UNCHANGED <<phase, tries>>

Confirm(S) ==
    /\ Open(S) /\ S \subseteq received
    /\ phase' = [e \in Events |-> IF e \in S THEN "dispatched" ELSE phase[e]]
    /\ UNCHANGED <<tries, received>>

\* No answer, or a refusal: the whole batch has failed once more.
Fail(S) ==
    /\ Open(S)
    /\ tries' = [e \in Events |-> IF e \in S THEN tries[e] + 1 ELSE tries[e]]
    /\ phase' = [e \in Events |-> IF e \in S /\ tries'[e] = MaxDispatchAttempts
                                  THEN "dead_letter" ELSE phase[e]]
    /\ UNCHANGED received

Next ==
    \/ \E e \in Events : Record(e)
    \/ \E S \in SUBSET Events : Receive(S) \/ Confirm(S) \/ Fail(S)

Spec == Init /\ [][Next]_<<phase, tries, received>>
=============================================================================

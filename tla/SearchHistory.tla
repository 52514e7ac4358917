--------------------------- MODULE SearchHistory ---------------------------
(***************************************************************************)
(* What search serving promises of a search, without visitors, sessions,   *)
(* cursors, locks or a clock: its first page is answered once; what is put *)
(* on record is only ever of a search that was answered, and of one page   *)
(* size; page one goes on record once, as it was answered and together     *)
(* with the event that counts it; Core takes, under a key, the first       *)
(* search on record that it is offered and keeps it; and a hand-over is    *)
(* settled only when Core has it.  Nothing is ever taken back, and any of  *)
(* it may fail to happen.                                                  *)
(***************************************************************************)
EXTENDS Naturals

CONSTANTS Searches, Keys, NoPage

VARIABLES
    answered,   \* answered[s]: page one of s as it was answered, or NoPage
    recorded,   \* recorded[s][n]: page n of s, if it is on record
    counted,    \* searches whose completed-search event is on record
    taken,      \* taken[k]: the search that Core keeps under k, or 0
    settled     \* keys whose hand-over is on record

historyVars == <<answered, recorded, counted, taken, settled>>

Init ==
    /\ answered = [s \in Searches |-> NoPage]
    /\ recorded = [s \in Searches |-> [n \in {} |-> NoPage]]
    /\ counted = {}
    /\ taken = [k \in Keys |-> 0]
    /\ settled = {}

Answer(s) ==
    /\ answered[s] = NoPage
    /\ answered' = [answered EXCEPT ![s] = answered'[s]]
    /\ UNCHANGED <<recorded, counted, taken, settled>>

\* Page n of s goes on record, for the first time or, a later page, again.
Record(s, n) ==
    LET p == recorded'[s][n] IN
    /\ answered[s] # NoPage
    /\ n = 1 => 1 \notin DOMAIN recorded[s] /\ p = answered[s]
    /\ \A i \in DOMAIN recorded[s] : recorded[s][i].limit = p.limit
    /\ recorded' = [recorded EXCEPT ![s] = [i \in DOMAIN @ \cup {n} |->
                                                IF i = n THEN p ELSE @[i]]]
    /\ counted' = IF n = 1 THEN counted \cup {s} ELSE counted
    /\ UNCHANGED <<answered, taken, settled>>

Take(k, s) ==
    /\ taken[k] = 0
    /\ DOMAIN recorded[s] # {}
    /\ taken' = [taken EXCEPT ![k] = s]
    /\ UNCHANGED <<answered, recorded, counted, settled>>

Settle(k) ==
    /\ taken[k] # 0
    /\ settled' = settled \cup {k}
    /\ UNCHANGED <<answered, recorded, counted, taken>>

Next ==
    \/ \E s \in Searches : \/ Answer(s)
                           \/ \E n \in DOMAIN recorded'[s] : Record(s, n)
                           \/ \E k \in Keys : Take(k, s)
    \/ \E k \in Keys : Settle(k)

Spec == Init /\ [][Next]_historyVars
=============================================================================

------------------------------ MODULE MCStores ------------------------------
(***************************************************************************)
(* Three tables that are written without any assumption of fairness: a     *)
(* cycle with its page, the job table with one session, and the outbox.    *)
(* In each behaviour one of them is written and the others stay as they    *)
(* began, so the states are the sum of theirs.                             *)
(***************************************************************************)
EXTENDS MCCycleFreshness, MCJobLifecycle, Outbox

CONSTANTS d1, d2

VARIABLE store    \* the one that is written

\* Three events go out in batches of two.
MCDispatchers == {d1, d2}

StoresInit ==
    /\ store \in {"cycle", "jobs", "outbox"}
    /\ Init
    /\ store # "cycle" => site = [u \in Urls |-> c1]
    /\ Table!Init
    /\ OutboxInit
    /\ store # "outbox" => configured

StoresNext ==
    /\ \/ store = "cycle" /\ Next /\ UNCHANGED <<tableVars, outboxVars>>
       \/ store = "jobs" /\ Table!Next /\ UNCHANGED <<vars, outboxVars>>
       \/ store = "outbox" /\ OutboxNext /\ UNCHANGED <<vars, tableVars>>
    /\ UNCHANGED store

StoresSpec == StoresInit /\ [][StoresNext]_<<vars, tableVars, outboxVars, store>>
=============================================================================

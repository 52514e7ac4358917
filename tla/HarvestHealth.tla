--------------------------- MODULE HarvestHealth ---------------------------
(***************************************************************************)
(* The weekly Parse.bot harvest and the failure counter of each source.    *)
(*                                                                         *)
(* A run reads the active sources, calls the vendor source after source    *)
(* and changes the counters on its own copies; they reach the table with   *)
(* the import at its end, or with the commit that marks the job failed     *)
(* when something escapes the loop.  A run that outlives its lease may     *)
(* have another beside it.                                                 *)
(***************************************************************************)
EXTENDS Integers, FiniteSets

CONSTANTS
    Places,      \* the number of sources, taken in the order 1..Places
    Calls,       \* Calls[s]: vendor calls a run makes for source s
    Harvests,    \* harvest_parsebot jobs that may run at the same time
    MaxHarvests  \* bound on the runs started

HarvestSources == 1..Places

ASSUME HealthAssumption ==
    /\ Places \in Nat
    /\ Calls \in [HarvestSources -> Nat \ {0}]
    /\ MaxHarvests \in Nat

VARIABLES
    enabled,    \* enabled[s]: Source.active
    failing,    \* failing[s]: consecutive_harvest_failures
    harvest,    \* harvest[h]: a run, the counters it read and those it will write
    begun,      \* runs started
    streak,     \* history: fully failed runs on record since the last other one
    blurred     \* history: sources no run has heard of, alone, since runs overlapped

healthVars == <<enabled, failing, harvest, begun, streak, blurred>>

-----------------------------------------------------------------------------

AtHome == [at |-> 0]
Out(h) == harvest[h].at # 0
Alone(h) == \A g \in Harvests \ {h} : ~Out(g)

HealthInit ==
    /\ enabled = [s \in HarvestSources |-> TRUE]
    /\ failing = [s \in HarvestSources |-> 0]
    /\ harvest = [h \in Harvests |-> AtHome]
    /\ begun = 0
    /\ streak = [s \in HarvestSources |-> 0]
    /\ blurred = {}

\* _harvest_parsebot: the six lookups.  With no active source nothing is done.
StartRun(h) ==
    /\ ~Out(h)
    /\ begun < MaxHarvests
    /\ \E s \in HarvestSources : enabled[s]
    /\ begun' = begun + 1
    /\ harvest' = [g \in Harvests |->
                    IF g = h
                    THEN [at |-> 1, chosen |-> {s \in HarvestSources : enabled[s]},
                          read |-> failing, new |-> failing, told |-> {}, alone |-> Alone(h)]
                    ELSE IF Out(g) THEN [harvest[g] EXCEPT !.alone = FALSE] ELSE harvest[g]]
    /\ blurred' = IF Alone(h) THEN blurred ELSE HarvestSources
    /\ UNCHANGED <<enabled, failing, streak>>

Current(h) == harvest[h].at

\* _update_harvest_health
CountPartial(old, attempts, failures) ==         \* mutant: any failed call
    IF failures = 0 THEN 0 ELSE old + 1
NewCount(old, attempts, failures) == IF failures < attempts THEN 0 ELSE old + 1

\* One source: its calls fail one by one, each on its own; a result that
\* cannot be mapped is skipped (_map_and_append).
HarvestSource(h) ==
    LET s == Current(h) IN
    /\ Out(h) /\ s <= Places
    /\ IF s \in harvest[h].chosen
       THEN \E failures \in 0..Calls[s] :
                harvest' = [harvest EXCEPT
                    ![h].at = s + 1,
                    ![h].new[s] = NewCount(harvest[h].read[s], Calls[s], failures),
                    ![h].told = @ \cup {[source |-> s, all |-> failures = Calls[s]]}]
       ELSE harvest' = [harvest EXCEPT ![h].at = s + 1]
    /\ UNCHANGED <<enabled, failing, begun, streak, blurred>>

\* The flush writes a counter only if it differs from what the run has read.
Flushed(table, read, new) ==
    [s \in HarvestSources |-> IF new[s] = read[s] THEN table[s] ELSE new[s]]

\* What a run has learnt of its sources: all calls of s failed, or not.
AllFailed(h) == {t.source : t \in {t \in harvest[h].told : t.all}}
SomeAnswered(h) == {t.source : t \in {t \in harvest[h].told : ~t.all}}

SaveCounters(h) ==
    /\ failing' = Flushed(failing, harvest[h].read, harvest[h].new)
    /\ streak' = [s \in HarvestSources |-> IF s \in AllFailed(h) THEN streak[s] + 1
                                           ELSE IF s \in SomeAnswered(h) THEN 0 ELSE streak[s]]
    /\ blurred' = IF harvest[h].alone THEN blurred \ SomeAnswered(h) ELSE blurred
    /\ harvest' = [harvest EXCEPT ![h] = AtHome]

\* The end of a run: the import, or a commit if nothing was found.
RunEnds(h) ==
    /\ Out(h) /\ Current(h) > Places
    /\ SaveCounters(h)
    /\ UNCHANGED <<enabled, begun>>

\* Something that _map_and_append does not catch ends the run in the middle
\* of a source.  fail_job_for_execution commits what is on the session.
RunBreaks(h) ==
    /\ Out(h) /\ Current(h) <= Places
    /\ Current(h) \in harvest[h].chosen
    /\ SaveCounters(h)
    /\ UNCHANGED <<enabled, begun>>

\* The process dies, or the import does, and the session with it.
RunLost(h) ==
    /\ Out(h)
    /\ harvest' = [harvest EXCEPT ![h] = AtHome]
    /\ UNCHANGED <<enabled, failing, begun, streak, blurred>>

\* deactivate_source
Disable(s) ==
    /\ enabled[s]
    /\ enabled' = [enabled EXCEPT ![s] = FALSE]
    /\ UNCHANGED <<failing, harvest, begun, streak, blurred>>

HealthNext ==
    \/ \E h \in Harvests : \/ StartRun(h)
                           \/ HarvestSource(h)
                           \/ RunEnds(h)
                           \/ RunBreaks(h)
                           \/ RunLost(h)
    \/ \E s \in HarvestSources : Disable(s)

HealthSpec == HealthInit /\ [][HealthNext]_healthVars

-----------------------------------------------------------------------------
(* Properties *)

HealthTypeOK ==
    /\ enabled \in [HarvestSources -> BOOLEAN]
    /\ failing \in [HarvestSources -> Nat]
    /\ \A h \in Harvests : Out(h) => /\ harvest[h].at \in 1..(Places + 1)
                                     /\ harvest[h].chosen \subseteq HarvestSources
                                     /\ harvest[h].read \in [HarvestSources -> Nat]
                                     /\ harvest[h].new \in [HarvestSources -> Nat]
    /\ begun \in 0..MaxHarvests
    /\ streak \in [HarvestSources -> Nat]
    /\ blurred \subseteq HarvestSources

\* A source's counter is the number of recorded runs in a row in which every
\* one of its calls failed, and after runs have overlapped it is that again as
\* soon as one run of its own has had an answer (Source: "Consecutive harvest
\* runs where every call for this Source failed - reset to 0 on any
\* successful call").
CounterIsStreak == \A s \in HarvestSources \ blurred : failing[s] = streak[s]
=============================================================================

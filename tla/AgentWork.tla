----------------------------- MODULE AgentWork -----------------------------
(***************************************************************************)
(* The Agent's intake and its record: it walks the discoveries page by     *)
(* page, by id, while imports and other Agents write; attaches evidence;   *)
(* and records the outcome of a run of one workflow version.               *)
(*                                                                         *)
(* Ids are made before their rows are committed, so rows become visible in *)
(* any order.  submit_candidates is in FeedImport and ReviewPipeline,      *)
(* request_review in ReviewPipeline.                                       *)
(***************************************************************************)
EXTENDS Integers, FiniteSets

CONSTANTS
    Found,        \* discovery ids, numbered from 1 in their order
    Versions,     \* workflow versions
    Claims,       \* claim paths, with their source URLs
    Outcomes,     \* agent_outcome values
    Walkers,      \* intakes under way at the same time
    PageSizes     \* values of `limit`

ASSUME AgentAssumption ==
    /\ Found \subseteq Nat \ {0} /\ IsFiniteSet(Found)
    /\ PageSizes \subseteq Nat \ {0}

VARIABLES
    visible,    \* committed discoveries
    outcome,    \* agent_runs: the outcome of each <<discovery, version>> in it
    evidence,   \* discovery_evidence
    walk        \* walk[w]: one caller's way through the pages

agentVars == <<visible, outcome, evidence, walk>>

-----------------------------------------------------------------------------

NotWalking == [step |-> "idle"]

AgentInit ==
    /\ visible = {}
    /\ outcome = [k \in {} |-> "none"]
    /\ evidence = {}
    /\ walk = [w \in Walkers |-> NotWalking]

\* An import or a split is committed.
Appear(d) ==
    /\ d \notin visible
    /\ visible' = visible \cup {d}
    /\ UNCHANGED <<outcome, evidence, walk>>

\* The first request of a walk, without `after`.  unprocessed_only comes with
\* a version, or the request is refused (read_discoveries).
StartWalk(w, v, unprocessed) ==
    /\ walk[w].step # "walking"
    /\ walk' = [walk EXCEPT ![w] = [step |-> "walking", version |-> v, only |-> unprocessed,
                                    after |-> 0, served |-> {}, offered |-> visible]]
    /\ UNCHANGED <<visible, outcome, evidence>>

Processed(w) ==
    IF walk[w].only THEN {d \in visible : <<d, walk[w].version>> \in DOMAIN outcome} ELSE {}

\* What the cursor has left behind.
PassedByCount(w) ==                                 \* mutant: an offset
    LET rows == visible \ Processed(w)
    IN  {d \in rows : Cardinality({e \in rows : e < d}) < Cardinality(walk[w].served)}
Passed(w) == {d \in visible : d <= walk[w].after}

Smallest(D, n) == {d \in D : Cardinality({e \in D : e < d}) < n}
Furthest(D) == CHOOSE d \in D : \A e \in D : e <= d

\* list_discoveries and read_discoveries: a page, and a cursor if it is full.
\* For unprocessed_only the second filter sees the runs recorded by now.
FetchPage(w, limit) ==
    LET rows == Smallest((visible \ Passed(w)) \ Processed(w), limit) IN
    /\ walk[w].step = "walking"
    /\ walk' = [walk EXCEPT
                    ![w].served = @ \cup rows,
                    ![w].after = IF rows = {} THEN @ ELSE Furthest(rows),
                    ![w].step = IF Cardinality(rows) = limit THEN "walking" ELSE "ended"]
    /\ UNCHANGED <<visible, outcome, evidence>>

\* record_evidence: ON CONFLICT DO NOTHING, so a resubmission changes nothing.
RecordEvidence(d, c, v) ==
    /\ d \in visible
    /\ evidence' = evidence \cup {<<d, c, v>>}
    /\ UNCHANGED <<visible, outcome, walk>>

\* record_run: an upsert on (discovery_id, workflow_version).
RecordRun(d, v, o) ==
    /\ d \in visible
    /\ outcome' = [k \in DOMAIN outcome \cup {<<d, v>>} |->
                    IF k = <<d, v>> THEN o ELSE outcome[k]]
    /\ UNCHANGED <<visible, evidence, walk>>

AgentNext ==
    \/ \E d \in Found : Appear(d)
    \/ \E w \in Walkers :
        \/ \E v \in Versions, unprocessed \in BOOLEAN : StartWalk(w, v, unprocessed)
        \/ \E limit \in PageSizes : FetchPage(w, limit)
    \/ \E d \in Found, v \in Versions :
        \/ \E c \in Claims : RecordEvidence(d, c, v)
        \/ \E o \in Outcomes : RecordRun(d, v, o)

AgentSpec == AgentInit /\ [][AgentNext]_agentVars

-----------------------------------------------------------------------------
(* Properties *)

AgentTypeOK ==
    /\ visible \subseteq Found
    /\ DOMAIN outcome \subseteq Found \X Versions
    /\ \A k \in DOMAIN outcome : outcome[k] \in Outcomes
    /\ evidence \subseteq Found \X Claims \X Versions
    /\ \A w \in Walkers : walk[w].step # "idle" =>
        /\ walk[w].step \in {"walking", "ended"}
        /\ walk[w].version \in Versions
        /\ walk[w].only \in BOOLEAN
        /\ walk[w].after \in Found \cup {0}
        /\ walk[w].served \subseteq visible
        /\ walk[w].offered \subseteq visible

\* A walk that has ended has been given every discovery that was there when
\* it began, or another caller has meanwhile recorded a run of it, although
\* rows come in before its cursor and runs recorded on the way shrink the list
\* it walks (list_discoveries: "an offset silently skips rows").
WalkMissesNothing ==
    \A w \in Walkers : walk[w].step = "ended" =>
        walk[w].offered \subseteq
            walk[w].served \cup
            {d \in visible : walk[w].only /\ <<d, walk[w].version>> \in DOMAIN outcome}
=============================================================================

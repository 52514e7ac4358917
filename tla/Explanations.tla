---------------------------- MODULE Explanations ----------------------------
(***************************************************************************)
(* Match explanations: one cached row per cycle and searcher's profile,    *)
(* pinned to the facts it was written about, in front of the AI Router,    *)
(* which keeps its answers by idempotency key.  The key names the cycle    *)
(* and the profile and not the facts.                                      *)
(*                                                                         *)
(* A request reads the cycle, looks for the row, asks the Router for at    *)
(* most ten seconds and stores the answer in a commit of its own, so the   *)
(* cycle may be republished and other requests may store theirs in         *)
(* between.  The module is about one cycle.                                *)
(***************************************************************************)
CONSTANTS
    Facts,           \* what the public facts of the cycle may be
    Profiles,        \* searchers' profiles, that is, their digests
    MatchingFacts,   \* MatchingFacts[p]: the facts that evaluate_match admits for p
    Requests         \* requests under way at the same time

ASSUME ExplanationAssumption == MatchingFacts \in [Profiles -> SUBSET Facts]

VARIABLES
    fact,      \* the cycle's public facts
    explaining,  \* match_explanation_enabled, and a Router is configured
    cache,     \* cache[p]: the match_explanations row
    kept,      \* kept[p]: the answer the Router keeps under p's key
    asker      \* asker[r]: a request

explanationVars == <<fact, explaining, cache, kept, asker>>

-----------------------------------------------------------------------------

\* An explanation, by the facts it is about; `replayed` says that the Router
\* gave it again instead of writing it.
Text == [about : Facts, replayed : BOOLEAN]
Nothing == [is |-> "nothing"]
CachedRow == [facts : Facts, text : Text]
Resting == [step |-> "idle"]

ExplanationInit ==
    /\ fact \in Facts
    /\ explaining \in BOOLEAN
    /\ cache = [p \in Profiles |-> Nothing]
    /\ kept = [p \in Profiles |-> Nothing]
    /\ asker = [r \in Requests |-> Resting]

Reading(p) == [step |-> "read", profile |-> p, facts |-> fact, text |-> Nothing]
Becomes(r, state) == asker' = [asker EXCEPT ![r] = state]

\* publish_cycle or update_scholarship_cycle gives the cycle other facts.
Republish(f) ==
    /\ f # fact
    /\ fact' = f
    /\ UNCHANGED <<explaining, cache, kept, asker>>

ReadUnmatched(r, p) ==                              \* mutant: not asked if it fits
    /\ asker[r].step \in {"idle", "told"}
    /\ Becomes(r, Reading(p))
    /\ UNCHANGED <<fact, explaining, cache, kept>>

\* scholarship_detail_with_explanation: the cycle is read and matched.
\* Nothing is explained about a profile it does not match.
ReadCycle(r, p) ==
    /\ asker[r].step \in {"idle", "told"}
    /\ Becomes(r, IF fact \in MatchingFacts[p]
                  THEN Reading(p) ELSE Resting)
    /\ UNCHANGED <<fact, explaining, cache, kept>>

Told(r, text) == Becomes(r, [asker[r] EXCEPT !.step = "told", !.text = text])

\* _cached
IsAnyRow(line, facts) == line # Nothing               \* mutant: facts_digest ignored
IsHit(line, facts) == IF line = Nothing THEN FALSE ELSE line.facts = facts

LookUp(r) ==
    LET line == cache[asker[r].profile] IN
    /\ asker[r].step = "read"
    /\ IF IsHit(line, asker[r].facts) THEN Told(r, line.text)
       ELSE Becomes(r, IF explaining THEN [asker[r] EXCEPT !.step = "calling"] ELSE Resting)
    /\ UNCHANGED <<fact, explaining, cache, kept>>

\* The Router's answer to r: a new one, or the one it has under the key.
AnswerTo(r) ==
    LET p == asker[r].profile IN
    IF kept[p] = Nothing THEN [about |-> asker[r].facts, replayed |-> FALSE]
    ELSE [kept[p] EXCEPT !.replayed = TRUE]

\* It completes the task, in time or too late for the request.
RouterCompletes(r) ==
    LET p == asker[r].profile IN
    /\ asker[r].step = "calling"
    /\ kept' = [kept EXCEPT ![p] = [AnswerTo(r) EXCEPT !.replayed = FALSE]]
    /\ \/ Becomes(r, [asker[r] EXCEPT !.step = "answered", !.text = AnswerTo(r)])
       \/ Becomes(r, Resting)
    /\ UNCHANGED <<fact, explaining, cache>>

\* It is unavailable, asks for a review, or has no text to give.
RouterDeclines(r) ==
    /\ asker[r].step = "calling"
    /\ Becomes(r, Resting)
    /\ UNCHANGED <<fact, explaining, cache, kept>>

RouterForgets(p) ==
    /\ kept[p] # Nothing
    /\ kept' = [kept EXCEPT ![p] = Nothing]
    /\ UNCHANGED <<fact, explaining, cache, asker>>

\* _store: an upsert, committed before the response.
StoredRow(r) == [facts |-> asker[r].facts, text |-> asker[r].text]
StoreAnswer(r) ==
    /\ asker[r].step = "answered"
    /\ cache' = [cache EXCEPT ![asker[r].profile] = StoredRow(r)]
    /\ Told(r, asker[r].text)
    /\ UNCHANGED <<fact, explaining, kept>>

\* The commit fails, and with it the request.
StoreFails(r) ==
    /\ asker[r].step = "answered"
    /\ Becomes(r, Resting)
    /\ UNCHANGED <<fact, explaining, cache, kept>>

ExplanationNext ==
    \/ \E f \in Facts : Republish(f)
    \/ \E p \in Profiles : RouterForgets(p)
    \/ \E r \in Requests :
        \/ \E p \in Profiles : ReadCycle(r, p)
        \/ LookUp(r)
        \/ RouterCompletes(r)
        \/ RouterDeclines(r)
        \/ StoreAnswer(r)
        \/ StoreFails(r)

ExplanationSpec == ExplanationInit /\ [][ExplanationNext]_explanationVars

-----------------------------------------------------------------------------
(* Properties *)

ExplanationTypeOK ==
    /\ fact \in Facts
    /\ explaining \in BOOLEAN
    /\ cache \in [Profiles -> CachedRow \cup {Nothing}]
    /\ kept \in [Profiles -> Text \cup {Nothing}]
    /\ \A r \in Requests :
        /\ asker[r].step \in {"idle", "read", "calling", "answered", "told"}
        /\ asker[r].step # "idle" => asker[r].facts \in MatchingFacts[asker[r].profile]
        /\ asker[r].step = "told" => asker[r].text \in Text

\* An explanation shown beside a cycle's facts is about those facts, unless
\* the Router itself gave an older answer again under the same key: the cache
\* adds no staleness of its own, whatever is republished and stored between a
\* request's steps (MatchExplanation: "a facts change is a cache miss, not a
\* stale hit").
ExplanationFits ==
    \A r \in Requests : asker[r].step = "told" =>
        asker[r].text.about = asker[r].facts \/ asker[r].text.replayed
=============================================================================

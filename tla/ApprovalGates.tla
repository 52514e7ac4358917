--------------------------- MODULE ApprovalGates ---------------------------
(***************************************************************************)
(* The gates between a discovery and an automatic publication, in the      *)
(* order attempt_auto_approval asks them: draft, corroboration by other    *)
(* reports of the same identity, agreement with the real page, facts that  *)
(* can be derived, sanity, provider, slug.  ReviewPipeline has the         *)
(* transactions around them; this module has what they compute.            *)
(*                                                                         *)
(* A case is one discovery with everything the gates look at.  A mention   *)
(* of an amount or of a deadline is a value, or Unreadable if parse_amount *)
(* or parse_deadline can make nothing of it; mentions are sequences        *)
(* because the first readable deadline is the one that is published.       *)
(***************************************************************************)
EXTENDS Integers, Sequences, FiniteSets

CONSTANTS
    Cases,        \* the cases looked at: see CaseType
    Feeds,        \* sources
    Supported,    \* SUPPORTED_DESTINATIONS
    MinSources,   \* auto_approve_min_corroboration_sources
    PageMustAgree,\* auto_approve_require_real_page_verification
    Today         \* the clock when the case is looked at

VARIABLES
    case,         \* the discovery and its surroundings
    verdict       \* what became of it, or Unseen

gateVars == <<case, verdict>>

-----------------------------------------------------------------------------

Unreadable == -1
CaseType ==
    [feed : Feeds,              \* the source of the discovery
     amounts : Seq(Int),        \* extracted_facts: funding_mentions
     deadlines : Seq(Int),      \*                  deadline_mentions
     levels : BOOLEAN,          \*                  some level the taxonomy knows
     named : SUBSET STRING,     \* countries that its title and excerpt name
     award : BOOLEAN,           \* its text and the page name one award type
     reports : Seq([feed : Feeds, amounts : Seq(Int), deadlines : Seq(Int), split : BOOLEAN]),
     page : [fetched : BOOLEAN, amounts : Seq(Int), deadlines : Seq(Int), named : SUBSET STRING],
     providers : Nat,           \* providers that have the page's host
     slug : BOOLEAN,            \* one of the five slugs tried is free
     graded : BOOLEAN]          \* the source's authority is A or B

ASSUME GatesAssumption ==
    /\ Cases \subseteq CaseType
    /\ \A c \in Cases : IsFiniteSet(c.named) /\ IsFiniteSet(c.page.named)
    /\ MinSources \in Nat /\ Today \in Nat

Unseen == [reason |-> "unseen"]
Deferred(reason) == [reason |-> reason]

Mentions(s) == {s[i] : i \in DOMAIN s}

-----------------------------------------------------------------------------
(* Comparing: fact_matching *)

\* amounts_match and deadlines_match: what cannot be read agrees with nothing.
Agree(a, b) == a # Unreadable /\ a = b
SomeAgree(s, t) == \E a \in Mentions(s), b \in Mentions(t) : Agree(a, b)

\* None if the discovery states nothing, else whether some pair agrees.
Agreement(own, theirs) == IF own = <<>> THEN "none" ELSE IF theirs THEN "yes" ELSE "no"

-----------------------------------------------------------------------------
(* Corroboration: load_siblings and evaluate_corroboration *)

AllReports(c) == Mentions(c.reports)                \* mutant: the Agent's rows too
Siblings(c) == {r \in Mentions(c.reports) : ~r.split}

Corroboration(c) ==
    [sources |-> Cardinality({c.feed} \cup {r.feed : r \in Siblings(c)}),
     amount |-> Agreement(c.amounts, \E r \in Siblings(c) : SomeAgree(c.amounts, r.amounts)),
     deadline |-> Agreement(c.deadlines, \E r \in Siblings(c) : SomeAgree(c.deadlines, r.deadlines))]

Corroborated(k) == k.sources >= MinSources /\ k.amount # "no" /\ k.deadline # "no"

\* _compare_facts, of the page that was fetched.
PageAgreement(c) ==
    [amount |-> Agreement(c.amounts, SomeAgree(c.amounts, c.page.amounts)),
     deadline |-> Agreement(c.deadlines, SomeAgree(c.deadlines, c.page.deadlines))]

-----------------------------------------------------------------------------
(* Deriving: draft_review_recommendation, derive_cycle_facts_from_extraction *)

\* The draft rejects a text that names countries, and none of them supported.
DraftRejects(c) == c.named # {} /\ c.named \cap Supported = {}

\* Exactly one country in the discovery's text and the page's, a supported one.
Destinations(c) == c.named \cup c.page.named
OneDestination(c) == Cardinality(Destinations(c)) = 1 /\ Destinations(c) \subseteq Supported

Derivable(c) == OneDestination(c) /\ c.levels /\ c.award

\* _resolve_deadline: the first that can be read.
FirstReadable(s) == CHOOSE i \in DOMAIN s :
    s[i] # Unreadable /\ \A h \in DOMAIN s : h < i => s[h] = Unreadable
HasDeadline(c) == \E i \in DOMAIN c.deadlines : c.deadlines[i] # Unreadable
DeadlineOf(c) == c.deadlines[FirstReadable(c.deadlines)]

-----------------------------------------------------------------------------
(* Sanity: run_sanity_checks *)

AmountEvidence(c, k) ==
    \/ \E a \in Mentions(c.amounts) : a > 0
    \/ c.amounts = <<>> /\ k.sources >= MinSources
Sane(c, k) == AmountEvidence(c, k) /\ DeadlineOf(c) > Today

-----------------------------------------------------------------------------
(* The score: compute_auto_approval_score *)

\* Kept with an approval, decides nothing.
ApprovalScore(c, k) ==
    LET extra == (k.sources - 2) * 10 IN
    (IF k.sources >= 2 THEN 40 + (IF extra < 20 THEN extra ELSE 20) ELSE 0)
    + (IF PageAgreement(c).amount = "yes" THEN 20 ELSE 0)
    + (IF PageAgreement(c).deadline = "yes" THEN 20 ELSE 0)
    + 10 - (IF c.graded THEN 0 ELSE 30)

-----------------------------------------------------------------------------
(* attempt_auto_approval *)

PageFetched(c) == c.page.fetched                    \* fetch_and_verify_source
ProviderResolved(c) == c.providers = 1              \* resolve_provider_from_verified_url
SlugAvailable(c) == c.slug

Published(c, k) ==
    [reason |-> "auto_approved", destinations |-> Destinations(c), deadline |-> DeadlineOf(c),
     score |-> ApprovalScore(c, k)]

\* The gates in their order, for a task that is open and has its draft, of a
\* discovery that is old enough.  Without those attempt_auto_approval returns
\* draft_not_ready or too_young and writes nothing, and a later sweep comes
\* again (Eligible of ReviewPipeline); source_missing cannot happen, for a
\* discovery's page and its source are foreign keys.
Judge(c) ==
    LET k == Corroboration(c) IN
    IF DraftRejects(c) THEN Deferred("draft_rejected")
    ELSE IF ~Corroborated(k) THEN Deferred("insufficient_corroboration")
    ELSE IF ~PageFetched(c) THEN Deferred("verification_failed")
    ELSE IF PageMustAgree /\ "no" \in {PageAgreement(c).amount, PageAgreement(c).deadline}
         THEN Deferred("page_disagreement")
    ELSE IF ~Derivable(c) THEN Deferred("facts_not_derivable")
    ELSE IF ~HasDeadline(c) THEN Deferred("no_deadline_evidence")
    ELSE IF ~Sane(c, k) THEN Deferred("sanity_check_failed")
    ELSE IF ~ProviderResolved(c) THEN Deferred("provider_not_resolved")
    ELSE IF ~SlugAvailable(c) THEN Deferred("slug_unavailable")
    ELSE Published(c, k)

GatesInit ==
    /\ case \in Cases
    /\ verdict = Unseen

Attempt ==
    /\ verdict = Unseen
    /\ verdict' = Judge(case)
    /\ UNCHANGED case

GatesNext == Attempt

GatesSpec == GatesInit /\ [][GatesNext]_gateVars

-----------------------------------------------------------------------------
(* Properties *)

GatesTypeOK ==
    /\ case.feed \in Feeds
    /\ verdict.reason = "auto_approved" => /\ verdict.deadline \in Nat
                                           /\ verdict.score \in -20..110

Approved == verdict.reason = "auto_approved"

Elsewhere == {r \in Mentions(case.reports) : ~r.split}

\* What goes out without a person rests on people's reports and on the page:
\* another report of the feeds, not one the Agent has made, states every kind
\* of fact the discovery states, and so does the page, in values that could be
\* read; the award is in the only country that either text names, a
\* supported one, and its deadline is one the discovery states and lies ahead.
ApprovalIsEvidenced ==
    Approved =>
        /\ Cardinality({case.feed} \cup {r.feed : r \in Elsewhere}) >= MinSources
        /\ \A kind \in {"amounts", "deadlines"} : case[kind] # <<>> =>
            \E v \in Mentions(case[kind]) \ {Unreadable} :
                \E r \in Elsewhere : v \in Mentions(r[kind])
        /\ PageMustAgree => \A kind \in {"amounts", "deadlines"} : case[kind] # <<>> =>
            \E v \in Mentions(case[kind]) \ {Unreadable} : v \in Mentions(case.page[kind])
        /\ \E place \in Supported : case.named \cup case.page.named = {place}
        /\ verdict.deadline \in Mentions(case.deadlines)
        /\ verdict.deadline > Today
=============================================================================

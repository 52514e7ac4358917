--------------------------- MODULE ResearchBudget ---------------------------
(***************************************************************************)
(* The monthly call budgets of the research providers and those who spend  *)
(* them: the Tavily harvest, which searches query after query until it is  *)
(* refused, and the two page fetches that may use Jina's Reader, one after *)
(* the direct fetch has failed and one before it is tried.                 *)
(*                                                                         *)
(* reserve_call is one statement and one commit.  The call follows it, so  *)
(* the month may turn and the process may die in between.                  *)
(***************************************************************************)
EXTENDS Integers, FiniteSets

CONSTANTS
    Harvesters,     \* harvest_tavily jobs that may run at the same time
    Fetchers,       \* page fetches that may run at the same time
    MonthlyLimit,   \* tavily_monthly_search_limit, jina_monthly_call_limit
    Queries,        \* searches of one harvest: destinations times templates
    MaxMonth        \* the calendar stops here

Providers == {"tavily", "jina"}

ASSUME BudgetAssumption ==
    /\ MonthlyLimit \in [Providers -> Nat]
    /\ Queries \in Nat \ {0} /\ MaxMonth \in Nat
    /\ IsFiniteSet(Harvesters) /\ IsFiniteSet(Fetchers)
    /\ Harvesters \cap Fetchers = {}

VARIABLES
    month,     \* current_period_key
    used,      \* research_provider_usage: used[p][m], 0 for no row
    spender,   \* where each harvest and each fetch is
    made       \* history: made[p][m], the calls provider p got in month m

budgetVars == <<month, used, spender, made>>

-----------------------------------------------------------------------------

Spenders == Harvesters \cup Fetchers
Months == 0..MaxMonth
Steps == {"idle", "asking", "granted", "direct", "importing"}
AtRest == [step |-> "idle", first |-> "direct", query |-> 0]
ProviderOf(c) == IF c \in Harvesters THEN "tavily" ELSE "jina"

BudgetInit ==
    /\ month = 0
    /\ used = [p \in Providers |-> [m \in Months |-> 0]]
    /\ spender = [c \in Spenders |-> AtRest]
    /\ made = [p \in Providers |-> [m \in Months |-> 0]]

Go(c, s) == spender' = [spender EXCEPT ![c] = s]

\* The WHERE of the upsert guards its update only: a first call inserts a row.
AllowedOneMore(p, n) == n <= MonthlyLimit[p]     \* mutant: <= for <
Allowed(p, n) == n = 0 \/ n < MonthlyLimit[p]

\* What a refusal means to a spender: a harvest stops early and imports what it
\* has, a fetch goes without Jina.
Refused(c) == IF c \in Harvesters THEN [spender[c] EXCEPT !.step = "importing"]
              ELSE IF spender[c].first = "jina" THEN [spender[c] EXCEPT !.step = "direct"]
              ELSE AtRest

\* reserve_call
ReserveCall(c) ==
    LET p == ProviderOf(c)
        n == used[p][month]
    IN
    /\ spender[c].step = "asking"
    /\ IF Allowed(p, n)
       THEN /\ used' = [used EXCEPT ![p][month] = n + 1]
            /\ Go(c, [spender[c] EXCEPT !.step = "granted"])
       ELSE /\ Go(c, Refused(c))
            /\ UNCHANGED used
    /\ UNCHANGED <<month, made>>

\* A call may follow.
AskedOrGranted(c) == spender[c].step \in {"asking", "granted"}   \* mutant: counted after
Granted(c) == spender[c].step = "granted"
Called(c) ==
    /\ Granted(c)
    /\ made' = [made EXCEPT ![ProviderOf(c)][month] = @ + 1]

-----------------------------------------------------------------------------
(* _harvest_tavily *)

StartHarvest(h) ==
    /\ spender[h] = AtRest
    /\ Go(h, [AtRest EXCEPT !.step = "asking"])
    /\ UNCHANGED <<month, used, made>>

\* search_tavily answers; a result that cannot be mapped is skipped, and after
\* a transport error the run goes on with the next query.
Search(h) ==
    /\ Called(h)
    /\ Go(h, [spender[h] EXCEPT
                !.step = IF spender[h].query + 1 < Queries THEN "asking" ELSE "importing",
                !.query = @ + 1])
    /\ UNCHANGED <<month, used>>

\* import_feed_records, if anything was found (see FeedImport).
ImportFound(h) ==
    /\ spender[h].step = "importing"
    /\ Go(h, AtRest)
    /\ UNCHANGED <<month, used, made>>

-----------------------------------------------------------------------------
(* _fetch_with_jina_fallback and _fetch_page_text, with a Jina key *)

\* A persisted fetch asks for Jina once the direct fetch has failed or was
\* answered with an error status; a verification asks for it at once.
StartFetch(f) ==
    /\ spender[f] = AtRest
    /\ \E first \in {"direct", "jina"} :
        Go(f, [AtRest EXCEPT !.step = "asking", !.first = first])
    /\ UNCHANGED <<month, used, made>>

\* fetch_via_jina answers, or fails, which is no reservation given back.
ReadThroughJina(f) ==
    /\ Called(f)
    /\ \/ Go(f, AtRest)
       \/ spender[f].first = "jina" /\ Go(f, [spender[f] EXCEPT !.step = "direct"])
    /\ UNCHANGED <<month, used>>

\* The direct fetch ends a verification that had no Jina.
ReadDirectly(f) ==
    /\ spender[f].step = "direct"
    /\ Go(f, AtRest)
    /\ UNCHANGED <<month, used, made>>

\* The process dies, or the provider's answer is one that nothing catches.
Abort(c) ==
    /\ spender[c].step # "idle"
    /\ Go(c, AtRest)
    /\ UNCHANGED <<month, used, made>>

NextMonth ==
    /\ month < MaxMonth
    /\ month' = month + 1
    /\ UNCHANGED <<used, spender, made>>

BudgetNext ==
    \/ \E c \in Spenders : ReserveCall(c) \/ Abort(c)
    \/ \E h \in Harvesters : StartHarvest(h) \/ Search(h) \/ ImportFound(h)
    \/ \E f \in Fetchers : StartFetch(f) \/ ReadThroughJina(f) \/ ReadDirectly(f)
    \/ NextMonth

BudgetSpec == BudgetInit /\ [][BudgetNext]_budgetVars

-----------------------------------------------------------------------------
(* Properties *)

\* The calls a month's budget lets through: the limit, or one if that is 0.
Ceiling(p) == IF MonthlyLimit[p] = 0 THEN 1 ELSE MonthlyLimit[p]

BudgetTypeOK ==
    /\ month \in Months
    /\ used \in [Providers -> [Months -> Nat]]
    /\ spender \in [Spenders -> [step : Steps, first : {"direct", "jina"},
                                 query : 0..Queries]]
    /\ made \in [Providers -> [Months -> Nat]]

\* However many harvests and fetches reserve at the same moment, a month's
\* count never passes the limit (reserve_call: "two concurrent callers can
\* never both read one call under the limit and both proceed"), but for the
\* one call that a limit of 0 lets through.
BudgetHolds == \A p \in Providers, m \in Months : used[p][m] <= Ceiling(p)

Holders(p) == {c \in Spenders : ProviderOf(c) = p}

\* What a provider sees in one of its months is the limit at most, plus one
\* call for each spender that reserved before the month turned (the call that
\* follows reserve_call).
SpendFollowsGrant ==
    \A p \in Providers, m \in Months :
        /\ made[p][m] <= Ceiling(p) + (IF m = 0 THEN 0 ELSE Cardinality(Holders(p)))
        /\ made[p][0] <= used[p][0]
=============================================================================

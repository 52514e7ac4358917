----------------------------- MODULE MCServices -----------------------------
(***************************************************************************)
(* The parts of the system that share no state, side by side: in each      *)
(* behaviour one of them runs and the rest stay where they began, so the   *)
(* states are the sum of the parts' states and not their product.          *)
(***************************************************************************)
EXTENDS MCSearchServing, MCApprovalGates, RateLimiter, ResearchBudget, HarvestHealth,
        FeedImport, AgentWork, Explanations, CycleFacts

VARIABLE part    \* the part that runs

CONSTANTS sA, c1, c2, i1, i2, h1, h2, f1, k1, k2, w1, r1, r2

-----------------------------------------------------------------------------
(* RateLimiter: windows overlap.  ResearchBudget: one limit is 0.          *)
(* HarvestHealth: sources of one call and of two.                          *)

MCCallers == {k1, k2}
MCHarvesters == {h1, h2}
MCFetchers == {f1}
MCMonthlyLimit == "tavily" :> 2 @@ "jina" :> 0
MCCalls == <<1, 2>>

(* FeedImport: the file's second batch revises the page of the first, the  *)
(* harvest beside it brings that revision and a page of its own.           *)

MCSources == {sA}
MCContents == {c1, c2}
MCImporters == {i1, i2}
Rec1(u, c) == [source |-> sA, url |-> u, content |-> c]
MCFile == << <<Rec1("u", c1), Rec1(Unsendable, c1)>>, <<Rec1("u", c2), Rec1(Invalid, c1)>> >>
MCHarvested == <<Rec1("u", c2), Rec1("v", c1)>>


MCWalkers == {w1}
MCRequests == {r1, r2}
MCMatchingFacts == "pA" :> {"f1", "f2"}

-----------------------------------------------------------------------------
(* CycleFacts: every combination of modes and lists a publication can ask  *)
(* for, and what only a script can have stored.                            *)

MCCountries == {"NG", "GB", "FR"}
MCCovered == {"GB", "FR"}
MCDegreeCode == [l \in {"masters", "master's"} |-> "masters"]
MCFieldCode == [l \in {"tech", "compsci", "law"} |-> IF l = "law" THEN "law" ELSE "tech"]
MCSearchProfiles ==
    [origin : {"NG"}, targets : {{"GB"}}, levels : {{"masters"}},
     fields : {NoList, ListOf({"tech"})}]
    \cup [origin : {"NG"}, targets : {{"FR"}}, levels : {{"masters"}}, fields : {NoList}]

Usual ==
    [destinations |-> ListOf({"GB"}), levels |-> ListOf({"master's"}),
     origin_mode |-> "unknown", origins |-> ListOf({}),
     field_mode |-> "unknown", fields |-> ListOf({}), programme_names |-> ListOf({}),
     evidence_fresh |-> "no", deadline |-> Null, precision |-> "date", timezone |-> Null,
     note |-> Null, reopens |-> Null, funding |-> Null]

MCCycleInputs ==
    {[Usual EXCEPT !.origin_mode = om, !.origins = ListOf(o),
                   !.field_mode = fm, !.fields = ListOf(fs), !.evidence_fresh = e] :
        om \in OriginModes, o \in SUBSET {"NG", "FR"},
        fm \in FieldModes, fs \in SUBSET {"compsci", "law"}, e \in {"yes", "no"}}
    \cup {[Usual EXCEPT !.deadline = d, !.precision = p, !.timezone = t, !.note = n,
                        !.reopens = r, !.funding = f] :
        d \in {Null, "june"}, p \in Precisions, t \in {Null, "utc"},
        n \in {Null, "empty", "some"}, r \in {Null, "may"}, f \in {Null, "full"}}

MCStoredByHand ==
    {[Usual EXCEPT !.destinations = ds, !.levels = ls, !.origin_mode = om, !.origins = o,
                   !.field_mode = fm, !.fields = fs] :
        ds \in {NoList, ListOf({"GB", NotText})},
        ls \in {NoList, ListOf({"masters", "phd", NotText})},
        om \in {"restricted", "unknown", Garbled, Missing},
        o \in {NoList, ListOf({"NG", NotText}), ListOf({NotText})},
        fm \in {"restricted", "all", Garbled, Missing},
        fs \in {NoList, ListOf({"compsci", "arts"}), ListOf({"law"})}}
    \cup {[Usual EXCEPT !.deadline = d, !.precision = p, !.timezone = t, !.note = n,
                        !.reopens = Garbled, !.funding = f, !.evidence_fresh = e] :
        d \in {Garbled, NotText, "june"}, p \in {Garbled, Missing},
        t \in {Garbled, "nowhere"}, n \in {Garbled, "empty"}, f \in {Garbled, "full"},
        e \in {Garbled, "yes"}}

\* Stored by hand, for nowhere and nobody; the facts where another part runs.
Empty == [Usual EXCEPT !.destinations = NoList, !.levels = NoList,
                       !.origin_mode = "unrestricted", !.field_mode = "all"]

Only(k, v) == [x \in {k} |-> v]
MCEdits ==
    {Only("origin_mode", m) : m \in OriginModes \cup {Null}}
    \cup {Only("field_mode", m) : m \in FieldModes \cup {Null}}
    \cup {Only("origins", ListOf({"NG"})), Only("fields", ListOf({"tech"})),
          Only("levels", ListOf({"masters"})), Only("deadline", Null),
          Only("deadline", "june"), Only("precision", Null), Only("timezone", "nowhere"),
          Only("evidence_fresh", Null), Only("programme_names", NoList),
          [x \in {} |-> Null]}

-----------------------------------------------------------------------------

Parts == {"limiter", "budget", "health", "import", "agent", "explanations",
          "facts", "gates", "serving"}

\* The part that does not run is in one of its initial states.
ServicesInit ==
    /\ part \in Parts
    /\ LimiterInit
    /\ BudgetInit
    /\ HealthInit
    /\ ImportInit
    /\ AgentInit
    /\ ExplanationInit
    /\ part # "explanations" => explaining /\ fact = "f1"
    /\ IF part = "facts" THEN FactsInit ELSE published = FALSE /\ stored = Empty
    /\ ServingInit
    /\ IF part = "gates" THEN GatesInit ELSE case = Plain /\ verdict = Unseen

\* All parts but p stay where they are.
Rests(p, q, v) == IF p = q THEN TRUE ELSE UNCHANGED v
OthersRest(p) ==
    /\ Rests(p, "limiter", limiterVars)
    /\ Rests(p, "budget", budgetVars)
    /\ Rests(p, "health", healthVars)
    /\ Rests(p, "import", importVars)
    /\ Rests(p, "agent", agentVars)
    /\ Rests(p, "explanations", explanationVars)
    /\ Rests(p, "facts", factsVars)
    /\ Rests(p, "gates", gateVars)
    /\ Rests(p, "serving", servingVars)
    /\ UNCHANGED part

ServicesNext ==
    \/ part = "limiter" /\ LimiterNext /\ OthersRest("limiter")
    \/ part = "budget" /\ BudgetNext /\ OthersRest("budget")
    \/ part = "health" /\ HealthNext /\ OthersRest("health")
    \/ part = "import" /\ ImportNext /\ OthersRest("import")
    \/ part = "agent" /\ AgentNext /\ OthersRest("agent")
    \/ part = "explanations" /\ ExplanationNext /\ OthersRest("explanations")
    \/ part = "facts" /\ FactsNext /\ OthersRest("facts")
    \/ part = "gates" /\ GatesNext /\ OthersRest("gates")
    \/ part = "serving" /\ ServingNext /\ OthersRest("serving")

allVars == <<limiterVars, budgetVars, healthVars, importVars, agentVars,
             explanationVars, factsVars, gateVars, servingVars, part>>

ServicesSpec == ServicesInit /\ [][ServicesNext]_allVars

\* Every part's variables have their types.
AllTypesOK ==
    CASE part = "limiter" -> LimiterTypeOK
      [] part = "budget" -> BudgetTypeOK
      [] part = "health" -> HealthTypeOK
      [] part = "import" -> ImportTypeOK
      [] part = "agent" -> AgentTypeOK
      [] part = "explanations" -> ExplanationTypeOK
      [] part = "facts" -> FactsTypeOK
      [] part = "gates" -> GatesTypeOK
      [] part = "serving" -> ServingTypeOK
=============================================================================

----------------------------- MODULE CycleFacts -----------------------------
(***************************************************************************)
(* A cycle's facts: the JSON a publication builds and validates, an edit   *)
(* reads back and builds again, a one-off script may have written by hand, *)
(* a search matches as it is stored and a detail page sanitizes first.     *)
(*                                                                         *)
(* A list is a set of items, which are codes, labels that may be aliases   *)
(* of codes, or no strings at all; the code sorts and deduplicates lists   *)
(* wherever it builds one.  Garbled is a value of the wrong type or outside*)
(* the vocabulary.  Null is null; where a missing key is read differently, *)
(* which is for modes and precision, it is Missing.                        *)
(***************************************************************************)
EXTENDS Integers, FiniteSets

CONSTANTS
    Countries,      \* codes of the mirrored vocabulary
    Covered,        \* is_supported_destination
    DegreeCode,     \* DegreeCode[label]: TAXONOMY.degree, where it knows the label
    FieldCode,      \* FieldCode[label]: TAXONOMY.field, likewise
    Deadlines,      \* instants
    SearchProfiles, \* profiles a searcher may have
    CycleInputs,    \* what publications ask for
    Edits,          \* what edits send: functions from keys to values
    StoredByHand    \* facts no publication has built

VARIABLES
    stored,    \* ScholarshipCycle.facts
    published  \* the first facts came from a publication, not by hand

factsVars == <<stored, published>>

-----------------------------------------------------------------------------
(* Values *)

Null == "null"
Missing == "absent"
Garbled == "garbled"
NotText == "not_text"                 \* an item that is not a string
ListOf(items) == [list |-> TRUE, items |-> items]
NoList == [list |-> FALSE, items |-> {}]

OriginModes == {"restricted", "unrestricted", "unknown"}
FieldModes == {"restricted", "all", "unknown"}
Precisions == {"date", "datetime"}

ListKeys == {"destinations", "levels", "origins", "fields", "programme_names"}
FactKeys == ListKeys \cup
    {"origin_mode", "field_mode", "evidence_fresh", "deadline", "precision", "timezone",
     "note", "reopens", "funding"}
IsList(v) == v = NoList \/ v = ListOf(v.items)
IsFacts(f) == f = [k \in FactKeys |-> f[k]] /\ \A k \in ListKeys : IsList(f[k])

\* What the schemas of a publication and of an edit let through.
Accepted(k, v) ==
    /\ k \in ListKeys => IsList(v)
    /\ k = "origin_mode" => v \in OriginModes \cup {Null}
    /\ k = "field_mode" => v \in FieldModes \cup {Null}
    /\ k = "evidence_fresh" => v \in {"yes", "no", Null}
    /\ k = "deadline" => v \in Deadlines \cup {Null}
    /\ k = "precision" => v \in Precisions \cup {Null}

\* A code is a label of itself (Taxonomy._normalize_codes on its own output).
Codes(code) == /\ NotText \notin DOMAIN code
               /\ \A l \in DOMAIN code : code[l] \in DOMAIN code /\ code[code[l]] = code[l]

ASSUME FactsAssumption ==
    /\ Covered \subseteq Countries /\ NotText \notin Countries
    /\ Codes(DegreeCode) /\ Codes(FieldCode)
    /\ {Null, Garbled, NotText} \cap Deadlines = {}
    /\ \A p \in SearchProfiles : p.origin \in Countries
    /\ \A x \in CycleInputs : IsFacts(x) /\ \A k \in FactKeys : Accepted(k, x[k])
    /\ \A e \in Edits : DOMAIN e \subseteq FactKeys /\ \A k \in DOMAIN e : Accepted(k, e[k])
    /\ \A f \in StoredByHand : IsFacts(f) /\ f.deadline \in Deadlines \cup {Null, Garbled, NotText}

\* Items of a list, none of anything else; string_list drops what is not text.
Items(v) == IF v.list THEN v.items ELSE {}
StringList(v) == Items(v) \ {NotText}

\* normalize_fields and normalize_degrees: unmapped labels are left out.
Canonical(code, labels) == {code[l] : l \in labels \cap DOMAIN code}

If(condition, value) == IF condition THEN value ELSE Null

-----------------------------------------------------------------------------
(* Matching: evaluate_match *)

\* `facts.get(mode) or "unknown"`
ModeOf(v) == IF v \in {Null, Missing} THEN "unknown" ELSE v

Levels(f) == Canonical(DegreeCode, StringList(f.levels))
FieldsOf(f) == Canonical(FieldCode, StringList(f.fields))

OriginAdmitted(p, f) == ModeOf(f.origin_mode) = "restricted" => p.origin \in Items(f.origins)
FieldAdmitted(p, f) ==
    ModeOf(f.field_mode) = "restricted" /\ p.fields # NoList =>
        FieldsOf(f) \cap p.fields.items # {}
GatesUnknown(p, f) ==                 \* mutant: an unknown mode gates
    /\ ModeOf(f.origin_mode) # "unrestricted" => p.origin \in Items(f.origins)
    /\ FieldAdmitted(p, f)
PassesGates(p, f) == OriginAdmitted(p, f) /\ FieldAdmitted(p, f)

Score(p, f) ==
    LET fieldFits == \/ ModeOf(f.field_mode) = "all"
                     \/ FieldsOf(f) \cap Items(p.fields) # {}
        originFits == \/ ModeOf(f.origin_mode) = "unrestricted"
                      \/ p.origin \in Items(f.origins)
    IN  (IF fieldFits THEN 25 ELSE 0) + (IF originFits THEN 15 ELSE 0)
            + (IF f.evidence_fresh \in {"yes", Garbled} THEN 10 ELSE 0)

EvaluateMatch(p, f) ==
    IF \/ Items(f.destinations) \cap p.targets = {}
       \/ Levels(f) \cap p.levels = {}
       \/ ~PassesGates(p, f)
    THEN [fit |-> "none", score |-> 0]
    ELSE [fit |-> IF ModeOf(f.origin_mode) = "unknown" \/ ModeOf(f.field_mode) = "unknown"
                  THEN "possible" ELSE "confirmed",
          score |-> Score(p, f)]

-----------------------------------------------------------------------------
(* Reading: derive_facts and DerivedFacts.sanitized_dict *)

ClampToKnown(v, valid, default) ==    \* mutant: restricted is not in the list
    IF v \in valid \ {"restricted"} THEN v ELSE default
Clamp(v, valid, default) == IF v \in valid THEN v ELSE default
OriginModeOf(f) == Clamp(f.origin_mode, OriginModes, "unknown")

Sanitized(f) ==
    LET deadline == If(f.deadline \in Deadlines, f.deadline) IN
    [destinations |-> ListOf(Items(f.destinations)),
     levels |-> ListOf(Levels(f)),
     origin_mode |-> OriginModeOf(f),
     origins |-> ListOf(StringList(f.origins)),
     field_mode |-> Clamp(f.field_mode, FieldModes, "unknown"),
     fields |-> ListOf(FieldsOf(f)),
     programme_names |-> ListOf(StringList(f.programme_names)),
     evidence_fresh |-> Clamp(f.evidence_fresh, {"yes", "no"}, "no"),
     deadline |-> deadline,
     precision |-> IF deadline = Null THEN Missing ELSE Clamp(f.precision, Precisions, "datetime"),
     timezone |-> If(deadline # Null /\ f.timezone # Garbled, f.timezone),
     note |-> If(f.note \notin {Garbled, "empty"}, f.note),
     reopens |-> If(f.reopens # Garbled, f.reopens),
     funding |-> If(f.funding # Garbled, f.funding)]

\* scholarship_detail_with_explanation: a MatchProfileRequest names no target
\* countries, the award's own destinations stand in for them.
PageProfile(p, f) ==
    [origin |-> p.origin, targets |-> Items(f.destinations), levels |-> p.levels,
     fields |-> p.fields]
OnDetailPage(p, f) == EvaluateMatch(PageProfile(p, Sanitized(f)), Sanitized(f))

-----------------------------------------------------------------------------
(* Writing: build_cycle_facts, and cycle_facts_to_inputs for an edit *)

\* Every code is known, and a restricted mode has something to restrict to.
Valid(x) ==
    /\ StringList(x.destinations) # {} /\ StringList(x.destinations) \subseteq Covered
    /\ StringList(x.levels) # {} /\ StringList(x.levels) \subseteq DOMAIN DegreeCode
    /\ StringList(x.origins) \subseteq Countries
    /\ StringList(x.fields) \subseteq DOMAIN FieldCode
    /\ x.origin_mode = "restricted" => StringList(x.origins) # {}
    /\ x.field_mode = "restricted" => StringList(x.fields) # {}
    /\ x.timezone \notin {Garbled, "nowhere"} /\ x.funding # Garbled

BuildCycleFacts(x) ==
    [x EXCEPT !.destinations = ListOf(StringList(@)),
              !.levels = ListOf(Canonical(DegreeCode, StringList(@))),
              !.origins = ListOf(StringList(@)),
              !.fields = ListOf(Canonical(FieldCode, StringList(@))),
              !.programme_names = ListOf(StringList(@)),
              !.note = If(@ # "empty", @),
              !.precision = IF x.deadline = Null THEN Missing ELSE @,
              !.timezone = If(x.deadline # Null, @)]

\* A stored deadline that is text and no instant makes any edit a 422.
Legible(f) == f.deadline # Garbled

\* What an edit starts from, if it is legible.
DefaultAlways(v, default) == default  \* mutant: what is stored is not read
Default(v, default) == IF v = Missing THEN default ELSE v
ToInputs(f) ==
    [f EXCEPT !.destinations = ListOf(StringList(@)),
              !.levels = ListOf(StringList(@)),
              !.origins = ListOf(StringList(@)),
              !.fields = ListOf(StringList(@)),
              !.programme_names = ListOf(StringList(@)),
              !.origin_mode = Default(@, "unknown"),
              !.field_mode = Default(@, "unknown"),
              !.precision = Default(@, "date"),
              !.deadline = If(@ # NotText, @),
              !.evidence_fresh = IF @ \in {"yes", Garbled} THEN "yes" ELSE "no"]

FactsInit ==
    \/ published = FALSE /\ stored \in StoredByHand
    \/ published = TRUE /\ stored \in {BuildCycleFacts(x) : x \in {x \in CycleInputs : Valid(x)}}

\* update_cycle_route: the inputs with the changes.  The modes are checked by
\* the request's schema only, so one stored by hand passes as it is.
Edit(change) ==
    LET x == [k \in DOMAIN stored |-> IF k \in DOMAIN change THEN change[k]
                                      ELSE ToInputs(stored)[k]]
    IN  /\ Legible(stored)
        /\ Valid(x)
        /\ stored' = BuildCycleFacts(x)
        /\ UNCHANGED published

FactsNext == \E change \in Edits : Edit(change)

FactsSpec == FactsInit /\ [][FactsNext]_factsVars

-----------------------------------------------------------------------------
(* Properties *)

FactsTypeOK ==
    /\ IsFacts(stored)
    /\ stored.deadline \in Deadlines \cup {Null, Garbled, NotText}
    /\ published \in BOOLEAN

\* What the real award may turn out to be where its facts say "unknown".
OriginCases(f) ==
    IF ModeOf(f.origin_mode) = "unknown"
    THEN {[f EXCEPT !.origin_mode = "unrestricted"]} \cup
         {[f EXCEPT !.origin_mode = "restricted", !.origins = ListOf(S)] : S \in SUBSET Countries}
    ELSE {f}
Completions(f) ==
    UNION {IF ModeOf(g.field_mode) = "unknown"
           THEN {[g EXCEPT !.field_mode = "all"]} \cup
                {[g EXCEPT !.field_mode = "restricted", !.fields = ListOf({l})] :
                    l \in DOMAIN FieldCode}
           ELSE {g} : g \in OriginCases(f)}

\* A search leaves an award out only if no way to settle what is unknown about
\* it would let the searcher in, and confirms it only if every way would
\* (evaluate_match on the stored facts).
FitIsHonest ==
    \A p \in SearchProfiles :
        LET fit == EvaluateMatch(p, stored).fit
            admits(g) == EvaluateMatch(p, g).fit # "none"
        IN  /\ fit = "none" <=> \A g \in Completions(stored) : ~admits(g)
            /\ fit = "confirmed" => \A g \in Completions(stored) : admits(g)

\* Search matches raw facts and the detail page sanitized ones, and a page has
\* no targets of its searcher to go by, and yet: what a search lists, its page
\* explains; a page explains what the search left out, or promises more than
\* the search did, only where the award lies in none of the searcher's target
\* countries; and where it lies in one, and its facts are a publication's or
\* an edit's, fit and score are the same (scholarship_detail_with_explanation,
\* search).
SearchAgreesWithDetail ==
    \A p \in SearchProfiles :
        LET inSearch == EvaluateMatch(p, stored)
            onPage == OnDetailPage(p, stored)
            elsewhere == Items(stored.destinations) \cap p.targets = {}
        IN  /\ inSearch.fit # "none" => onPage.fit # "none"
            /\ onPage.fit # "none" => inSearch.fit # "none" \/ elsewhere
            /\ onPage.fit = "confirmed" => inSearch.fit = "confirmed" \/ elsewhere
            /\ published /\ ~elsewhere => inSearch = onPage

\* Facts that were published are read as they are: reading them twice changes
\* nothing, and an edit of nothing would be accepted and change nothing but a
\* freshness that an edit has set to null, which becomes the "no" it is read
\* as; so an edit touches what it names and no more (sanitized_dict,
\* cycle_facts_to_inputs: "an edit must not be able to write facts a publish
\* would have refused").
PublishedFactsAreStable ==
    /\ Sanitized(Sanitized(stored)) = Sanitized(stored)
    /\ published => /\ Legible(stored) /\ Valid(ToInputs(stored))
                    /\ BuildCycleFacts(ToInputs(stored)) =
                            [stored EXCEPT !.evidence_fresh = IF @ = Null THEN "no" ELSE @]
=============================================================================

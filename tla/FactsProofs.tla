---------------------------- MODULE FactsProofs ----------------------------
(***************************************************************************)
(* Proofs about CycleFacts (what is stored, matched and shown of a cycle)  *)
(* and ApprovalGates (what an approval without a person rests on), for any *)
(* vocabulary, facts, edits and cases.                                     *)
(***************************************************************************)
EXTENDS CycleFacts, ApprovalGates, TLAPS, FiniteSetTheorems, WellFoundedInduction

(***************************************************************************)
(* ApprovalGates.                                                          *)
(***************************************************************************)

\* The first deadline that can be read is there if any is.
LEMMA FirstReadableIs ==
    ASSUME NEW s \in Seq(Int), \E i \in DOMAIN s : s[i] # Unreadable
    PROVE  FirstReadable(s) \in DOMAIN s /\ s[FirstReadable(s)] # Unreadable
<1> DEFINE T == {i \in DOMAIN s : s[i] # Unreadable}
<1>1. T \subseteq Nat /\ T # {}
  OBVIOUS
<1>2. PICK i \in T : \A h \in T : ~(<<h, i>> \in OpToRel(<, Nat))
  BY <1>1, NatLessThanWellFounded, WFMin
<1>3. \A h \in T : ~(h < i)
  BY <1>1, <1>2 DEF OpToRel
<1>4. i \in DOMAIN s /\ s[i] # Unreadable /\ \A h \in DOMAIN s : h < i => s[h] = Unreadable
  BY <1>3
<1>5. QED
  BY <1>4 DEF FirstReadable

\* A set of one member.
LEMMA OneMember ==
    ASSUME NEW S, IsFiniteSet(S), Cardinality(S) = 1
    PROVE  \E x : S = {x}
<1>1. S # {}
  BY FS_EmptySet
<1>2. PICK x \in S : TRUE
  BY <1>1
<1>3. IsFiniteSet(S \ {x}) /\ Cardinality(S \ {x}) = Cardinality(S) - 1
  BY FS_RemoveElement
<1>4. S \ {x} = {}
  BY <1>3, FS_EmptySet
<1>5. S = {x}
  BY <1>4
<1>6. QED
  BY <1>5

\* Agreement that is not "no" about something stated is a value both state.
LEMMA AgreedValue ==
    ASSUME NEW own, NEW theirs, own # <<>>, SomeAgree(own, theirs)
    PROVE  \E v \in Mentions(own) \ {Unreadable} : v \in Mentions(theirs)
<1>1. QED
  BY DEF SomeAgree, Agree

CaseIsOne == case \in Cases
GateInv == CaseIsOne /\ (verdict = Unseen \/ verdict = Judge(case))

\* Every gate of an approval was passed.
LEMMA Gates ==
    ASSUME NEW c \in Cases, Judge(c).reason = "auto_approved"
    PROVE  LET k == Corroboration(c) IN
           /\ Judge(c) = Published(c, k)
           /\ Corroborated(k) /\ Derivable(c) /\ HasDeadline(c) /\ Sane(c, k)
           /\ PageMustAgree => PageAgreement(c).amount # "no" /\ PageAgreement(c).deadline # "no"
<1>1. \A r \in {"draft_rejected", "insufficient_corroboration", "verification_failed",
                "page_disagreement", "facts_not_derivable", "no_deadline_evidence",
                "sanity_check_failed", "provider_not_resolved", "slug_unavailable"} :
        Deferred(r).reason # "auto_approved"
  BY DEF Deferred
<1>2. QED
  BY <1>1 DEF Judge

LEMMA CaseTypes ==
    ASSUME NEW c \in Cases
    PROVE  /\ c.feed \in Feeds /\ c.amounts \in Seq(Int) /\ c.deadlines \in Seq(Int)
           /\ IsFiniteSet({c.feed} \cup {r.feed : r \in Siblings(c)})
           /\ IsFiniteSet(Destinations(c))
<1>1. c \in CaseType
  BY GatesAssumption
<1>2. /\ c.feed \in Feeds /\ c.amounts \in Seq(Int) /\ c.deadlines \in Seq(Int)
      /\ DOMAIN c.reports = 1..Len(c.reports) /\ Len(c.reports) \in Nat
  BY <1>1 DEF CaseType
<1>3. IsFiniteSet(Destinations(c))
  BY GatesAssumption, FS_Union DEF Destinations
<1>4. IsFiniteSet({c.feed} \cup {r.feed : r \in Siblings(c)})
  <2>1. IsFiniteSet(1..Len(c.reports))
    BY <1>2, FS_Interval
  <2>2. IsFiniteSet({c.reports[i].feed : i \in 1..Len(c.reports)})
    <3> DEFINE S == 1..Len(c.reports)
               T == {c.reports[i].feed : i \in S}
               f == [i \in S |-> c.reports[i].feed]
    <3>1. f \in Surjection(S, T)
      BY DEF Surjection
    <3>2. QED  BY <2>1, <3>1, FS_Surjection
  <2>3. {r.feed : r \in Siblings(c)} \subseteq {c.reports[i].feed : i \in 1..Len(c.reports)}
    BY <1>2 DEF Siblings, Mentions
  <2>4. IsFiniteSet({r.feed : r \in Siblings(c)})
    BY <2>2, <2>3, FS_Subset
  <2>5. QED  BY <2>4, FS_Singleton, FS_Union
<1>5. QED
  BY <1>2, <1>3, <1>4

LEMMA ScoreBounds ==
    ASSUME NEW c \in Cases
    PROVE  ApprovalScore(c, Corroboration(c)) \in -20..110
<1> DEFINE n == Corroboration(c).sources
<1>1. n \in Nat
  BY CaseTypes, FS_CardinalityType DEF Corroboration
<1> HIDE DEF n
<1>2. QED
  BY <1>1 DEF ApprovalScore, n

LEMMA GateInvariance == GatesSpec => []GateInv
<1>1. GatesInit => GateInv
  BY DEF GatesInit, GateInv, CaseIsOne
<1>2. GateInv /\ [GatesNext]_gateVars => GateInv'
  BY DEF GatesNext, Attempt, gateVars, GateInv, CaseIsOne
<1>3. QED
  BY <1>1, <1>2, PTL DEF GatesSpec

\* The score of an approval is bounded, whatever its sources
\* (compute_auto_approval_score), and its deadline is an instant.
THEOREM GatesTypeCorrect == GatesSpec => []GatesTypeOK
<1>1. GateInv => GatesTypeOK
  <2> SUFFICES ASSUME GateInv PROVE GatesTypeOK
    OBVIOUS
  <2>1. case \in Cases
    BY DEF GateInv, CaseIsOne
  <2>2. ASSUME verdict.reason = "auto_approved"
        PROVE  verdict.deadline \in Nat /\ verdict.score \in -20..110
    <3>1. verdict = Judge(case)
      BY <2>2 DEF GateInv, Unseen
    <3>2. verdict = Published(case, Corroboration(case)) /\ Sane(case, Corroboration(case))
          /\ HasDeadline(case)
      BY <2>1, <2>2, <3>1, Gates
    <3>3. verdict.deadline = DeadlineOf(case)
          /\ verdict.score = ApprovalScore(case, Corroboration(case))
      BY <3>2 DEF Published
    <3>4. DeadlineOf(case) \in Int
      <4>1. case.deadlines \in Seq(Int) /\ \E i \in DOMAIN case.deadlines : case.deadlines[i] # Unreadable
        BY <2>1, <3>2, CaseTypes DEF HasDeadline
      <4>2. FirstReadable(case.deadlines) \in DOMAIN case.deadlines
        BY <4>1, FirstReadableIs
      <4>3. QED  BY <4>1, <4>2 DEF DeadlineOf
    <3>5. QED  BY <2>1, <3>2, <3>3, <3>4, ScoreBounds, GatesAssumption DEF Sane
  <2>3. QED  BY <2>1, <2>2, CaseTypes DEF GatesTypeOK
<1>2. QED
  BY <1>1, GateInvariance, PTL

\* What is published without a person rests on reports of people, on the page
\* and on a country, in values that could be read: for any discovery, reports,
\* page and thresholds (attempt_auto_approval and the gates it asks).
THEOREM ApprovalsRestOnEvidence == GatesSpec => []ApprovalIsEvidenced
<1>1. GateInv => ApprovalIsEvidenced
  <2> SUFFICES ASSUME GateInv, Approved PROVE
        /\ Cardinality({case.feed} \cup {r.feed : r \in Elsewhere}) >= MinSources
        /\ \A kind \in {"amounts", "deadlines"} : case[kind] # <<>> =>
            \E v \in Mentions(case[kind]) \ {Unreadable} :
                \E r \in Elsewhere : v \in Mentions(r[kind])
        /\ PageMustAgree => \A kind \in {"amounts", "deadlines"} : case[kind] # <<>> =>
            \E v \in Mentions(case[kind]) \ {Unreadable} : v \in Mentions(case.page[kind])
        /\ \E place \in Supported : case.named \cup case.page.named = {place}
        /\ verdict.deadline \in Mentions(case.deadlines)
        /\ verdict.deadline > Today
    BY DEF ApprovalIsEvidenced
  <2> DEFINE k == Corroboration(case)
  <2>1. case \in Cases /\ verdict = Judge(case)
    BY DEF GateInv, CaseIsOne, Approved, Unseen
  <2>2. /\ Corroborated(k) /\ Derivable(case) /\ HasDeadline(case) /\ Sane(case, k)
        /\ PageMustAgree => PageAgreement(case).amount # "no" /\ PageAgreement(case).deadline # "no"
        /\ verdict = Published(case, k)
    BY <2>1, Gates DEF Approved
  <2>3. Siblings(case) = Elsewhere
    BY DEF Siblings, Elsewhere
  <2>4. Cardinality({case.feed} \cup {r.feed : r \in Elsewhere}) >= MinSources
    BY <2>2, <2>3 DEF Corroborated, Corroboration
  <2>5. /\ case.amounts # <<>> => \E r \in Elsewhere : SomeAgree(case.amounts, r.amounts)
        /\ case.deadlines # <<>> => \E r \in Elsewhere : SomeAgree(case.deadlines, r.deadlines)
    BY <2>2, <2>3 DEF Corroborated, Corroboration, Agreement
  <2>6. ASSUME case.amounts # <<>>
        PROVE  \E v \in Mentions(case.amounts) \ {Unreadable} :
                    \E r \in Elsewhere : v \in Mentions(r.amounts)
    BY <2>5, <2>6, AgreedValue
  <2>7. ASSUME case.deadlines # <<>>
        PROVE  \E v \in Mentions(case.deadlines) \ {Unreadable} :
                    \E r \in Elsewhere : v \in Mentions(r.deadlines)
    BY <2>5, <2>7, AgreedValue
  <2>8. ASSUME PageMustAgree
        PROVE  /\ case.amounts # <<>> => SomeAgree(case.amounts, case.page.amounts)
               /\ case.deadlines # <<>> => SomeAgree(case.deadlines, case.page.deadlines)
    BY <2>2, <2>8 DEF PageAgreement, Agreement
  <2>9. ASSUME PageMustAgree, case.amounts # <<>>
        PROVE  \E v \in Mentions(case.amounts) \ {Unreadable} : v \in Mentions(case.page.amounts)
    BY <2>8, <2>9, AgreedValue
  <2>10. ASSUME PageMustAgree, case.deadlines # <<>>
         PROVE  \E v \in Mentions(case.deadlines) \ {Unreadable} : v \in Mentions(case.page.deadlines)
    BY <2>8, <2>10, AgreedValue
  <2>11. \E place \in Supported : case.named \cup case.page.named = {place}
    <3>1. OneDestination(case) /\ IsFiniteSet(Destinations(case))
      BY <2>1, <2>2, CaseTypes DEF Derivable
    <3>2. PICK x : Destinations(case) = {x}
      BY <3>1, OneMember DEF OneDestination
    <3>3. x \in Supported
      BY <3>1, <3>2 DEF OneDestination
    <3>4. QED  BY <3>2, <3>3 DEF Destinations
  <2>12. verdict.deadline = DeadlineOf(case) /\ verdict.deadline > Today
    BY <2>2 DEF Published, Sane
  <2>13. verdict.deadline \in Mentions(case.deadlines)
    <3>1. case.deadlines \in Seq(Int) /\ \E i \in DOMAIN case.deadlines : case.deadlines[i] # Unreadable
      BY <2>1, <2>2, CaseTypes DEF HasDeadline
    <3>2. FirstReadable(case.deadlines) \in DOMAIN case.deadlines
      BY <3>1, FirstReadableIs
    <3>3. QED  BY <2>12, <3>2 DEF DeadlineOf, Mentions
  <2>14. \A kind \in {"amounts", "deadlines"} : case[kind] # <<>> =>
            \E v \in Mentions(case[kind]) \ {Unreadable} :
                \E r \in Elsewhere : v \in Mentions(r[kind])
    BY <2>6, <2>7
  <2>15. PageMustAgree => \A kind \in {"amounts", "deadlines"} : case[kind] # <<>> =>
            \E v \in Mentions(case[kind]) \ {Unreadable} : v \in Mentions(case.page[kind])
    BY <2>9, <2>10
  <2>16. QED
    BY <2>4, <2>11, <2>12, <2>13, <2>14, <2>15
<1>2. QED
  BY <1>1, GateInvariance, PTL

(***************************************************************************)
(* CycleFacts.                                                             *)
(*                                                                         *)
(* Everything rests on the lists: reading a list twice is reading it once, *)
(* because a code is a label of itself and text is text.                   *)
(***************************************************************************)

\* What a builder leaves, and a reader finds, in each key.
LEMMA Built ==
    ASSUME NEW x, IsFacts(x)
    PROVE  LET b == BuildCycleFacts(x) IN
           /\ b = [k \in FactKeys |-> b[k]]
           /\ b.destinations = ListOf(StringList(x.destinations))
           /\ b.levels = ListOf(Canonical(DegreeCode, StringList(x.levels)))
           /\ b.origins = ListOf(StringList(x.origins))
           /\ b.fields = ListOf(Canonical(FieldCode, StringList(x.fields)))
           /\ b.programme_names = ListOf(StringList(x.programme_names))
           /\ b.origin_mode = x.origin_mode /\ b.field_mode = x.field_mode
           /\ b.evidence_fresh = x.evidence_fresh /\ b.deadline = x.deadline
           /\ b.precision = IF x.deadline = Null THEN Missing ELSE x.precision
           /\ b.timezone = If(x.deadline # Null, x.timezone)
           /\ b.note = If(x.note # "empty", x.note)
           /\ b.reopens = x.reopens /\ b.funding = x.funding
<1>1. DOMAIN x = FactKeys /\ x = [k \in FactKeys |-> x[k]]
  BY DEF IsFacts
<1>2. QED
  BY <1>1 DEF BuildCycleFacts, FactKeys, ListKeys

LEMMA Read ==
    ASSUME NEW f, IsFacts(f)
    PROVE  LET x == ToInputs(f) IN
           /\ x = [k \in FactKeys |-> x[k]]
           /\ x.destinations = ListOf(StringList(f.destinations))
           /\ x.levels = ListOf(StringList(f.levels))
           /\ x.origins = ListOf(StringList(f.origins))
           /\ x.fields = ListOf(StringList(f.fields))
           /\ x.programme_names = ListOf(StringList(f.programme_names))
           /\ x.origin_mode = Default(f.origin_mode, "unknown")
           /\ x.field_mode = Default(f.field_mode, "unknown")
           /\ x.precision = Default(f.precision, "date")
           /\ x.deadline = If(f.deadline # NotText, f.deadline)
           /\ x.evidence_fresh = IF f.evidence_fresh \in {"yes", Garbled} THEN "yes" ELSE "no"
           /\ x.timezone = f.timezone /\ x.note = f.note
           /\ x.reopens = f.reopens /\ x.funding = f.funding
<1>1. DOMAIN f = FactKeys /\ f = [k \in FactKeys |-> f[k]]
  BY DEF IsFacts
<1>2. QED
  BY <1>1 DEF ToInputs, FactKeys, ListKeys

LEMMA ListFacts ==
    /\ \A S : Items(ListOf(S)) = S /\ StringList(ListOf(S)) = S \ {NotText} /\ IsList(ListOf(S))
    /\ Items(NoList) = {} /\ StringList(NoList) = {}
<1>1. QED
  BY DEF Items, StringList, ListOf, NoList, IsList

LEMMA CodesFixed ==
    ASSUME NEW code, Codes(code), NEW S
    PROVE  /\ Canonical(code, S) \subseteq DOMAIN code /\ NotText \notin Canonical(code, S)
           /\ \A l \in Canonical(code, S) : code[l] = l
           /\ Canonical(code, Canonical(code, S)) = Canonical(code, S)
           /\ Canonical(code, Canonical(code, S) \ {NotText}) = Canonical(code, S)
           /\ S \cap DOMAIN code # {} => Canonical(code, S) # {}
<1> DEFINE C == Canonical(code, S)
<1>1. C \subseteq DOMAIN code /\ NotText \notin C /\ \A l \in C : code[l] = l
  BY DEF Codes, Canonical
<1>2. Canonical(code, C) = C
  <2>1. C \cap DOMAIN code = C
    BY <1>1
  <2>2. Canonical(code, C) = {code[l] : l \in C}
    BY <2>1 DEF Canonical
  <2>3. QED  BY <1>1, <2>2
<1>3. C \ {NotText} = C
  BY <1>1
<1>4. S \cap DOMAIN code # {} => C # {}
  BY DEF Canonical
<1>5. QED
  BY <1>1, <1>2, <1>3, <1>4

\* p is no match of f.
Excluded(p, f) ==
    \/ Items(f.destinations) \cap p.targets = {}
    \/ Levels(f) \cap p.levels = {}
    \/ ~PassesGates(p, f)

LEMMA NoneIsExcluded ==
    ASSUME NEW p, NEW f
    PROVE  /\ EvaluateMatch(p, f).fit = "none" <=> Excluded(p, f)
           /\ EvaluateMatch(p, f).fit = "confirmed" <=>
                ~Excluded(p, f) /\ ModeOf(f.origin_mode) # "unknown" /\ ModeOf(f.field_mode) # "unknown"
<1>1. QED
  BY DEF EvaluateMatch, Excluded

\* g differs from f at most in a mode that f does not know, and its list.
Settles(g, f) ==
    /\ g.destinations = f.destinations /\ g.levels = f.levels
    /\ ModeOf(f.origin_mode) # "unknown" => g.origin_mode = f.origin_mode /\ g.origins = f.origins
    /\ ModeOf(f.field_mode) # "unknown" => g.field_mode = f.field_mode /\ g.fields = f.fields

LEMMA OriginCasesSettle ==
    ASSUME NEW f, IsFacts(f), NEW g \in OriginCases(f)
    PROVE  /\ DOMAIN g = FactKeys /\ Settles(g, f)
           /\ g.field_mode = f.field_mode /\ g.fields = f.fields
<1>1. DOMAIN f = FactKeys
  BY DEF IsFacts
<1>2. CASE ModeOf(f.origin_mode) # "unknown"
  <2>1. g = f
    BY <1>2 DEF OriginCases
  <2>2. QED  BY <1>1, <2>1 DEF Settles
<1>3. CASE ModeOf(f.origin_mode) = "unknown"
  <2>1. \/ g = [f EXCEPT !.origin_mode = "unrestricted"]
        \/ \E S : g = [f EXCEPT !.origin_mode = "restricted", !.origins = ListOf(S)]
    BY <1>3 DEF OriginCases
  <2>2. QED  BY <1>1, <1>3, <2>1 DEF Settles, FactKeys, ListKeys
<1>4. QED
  BY <1>2, <1>3

LEMMA CompletionsSettle ==
    ASSUME NEW f, IsFacts(f), NEW h \in Completions(f)
    PROVE  Settles(h, f)
<1>1. PICK g \in OriginCases(f) :
        h \in IF ModeOf(g.field_mode) = "unknown"
              THEN {[g EXCEPT !.field_mode = "all"]} \cup
                   {[g EXCEPT !.field_mode = "restricted", !.fields = ListOf({l})] :
                       l \in DOMAIN FieldCode}
              ELSE {g}
  BY DEF Completions
<1>2. DOMAIN g = FactKeys /\ Settles(g, f) /\ g.field_mode = f.field_mode /\ g.fields = f.fields
  BY OriginCasesSettle
<1>3. CASE ModeOf(f.field_mode) # "unknown"
  <2>1. h = g
    BY <1>1, <1>2, <1>3
  <2>2. QED  BY <1>2, <2>1
<1>4. CASE ModeOf(f.field_mode) = "unknown"
  <2>1. \/ h = [g EXCEPT !.field_mode = "all"]
        \/ \E S : h = [g EXCEPT !.field_mode = "restricted", !.fields = ListOf(S)]
    BY <1>1, <1>2, <1>4
  <2>2. h.destinations = g.destinations /\ h.levels = g.levels /\ h.origin_mode = g.origin_mode
        /\ h.origins = g.origins
    BY <1>2, <2>1 DEF FactKeys, ListKeys
  <2>3. QED  BY <1>2, <1>4, <2>2 DEF Settles
<1>5. QED
  BY <1>3, <1>4

\* What is unknown may turn out to shut nobody out.
LEMMA OpenCompletion ==
    ASSUME NEW f, IsFacts(f)
    PROVE  \E h \in Completions(f) :
            /\ Settles(h, f)
            /\ ModeOf(f.origin_mode) = "unknown" => h.origin_mode = "unrestricted"
            /\ ModeOf(f.field_mode) = "unknown" => h.field_mode = "all"
<1>1. DOMAIN f = FactKeys
  BY DEF IsFacts
<1>2. PICK g \in OriginCases(f) : /\ ModeOf(f.origin_mode) = "unknown" => g.origin_mode = "unrestricted"
                                  /\ ModeOf(f.origin_mode) # "unknown" => g = f
  <2> DEFINE g == IF ModeOf(f.origin_mode) = "unknown"
                  THEN [f EXCEPT !.origin_mode = "unrestricted"] ELSE f
  <2>1. g \in OriginCases(f)
    BY DEF OriginCases
  <2>2. ModeOf(f.origin_mode) = "unknown" => g.origin_mode = "unrestricted"
    BY <1>1 DEF FactKeys
  <2>3. QED  BY <2>1, <2>2
<1>3. DOMAIN g = FactKeys /\ g.field_mode = f.field_mode
  BY OriginCasesSettle
<1> DEFINE h == IF ModeOf(g.field_mode) = "unknown" THEN [g EXCEPT !.field_mode = "all"] ELSE g
<1>4. h \in Completions(f)
  <2> DEFINE P(x) == IF ModeOf(x.field_mode) = "unknown"
                     THEN {[x EXCEPT !.field_mode = "all"]} \cup
                          {[x EXCEPT !.field_mode = "restricted", !.fields = ListOf({l})] :
                              l \in DOMAIN FieldCode}
                     ELSE {x}
  <2>1. h \in P(g)
    OBVIOUS
  <2>2. Completions(f) = UNION {P(x) : x \in OriginCases(f)}
    BY DEF Completions
  <2> HIDE DEF P, h
  <2>3. QED  BY <2>1, <2>2
<1>5. h.origin_mode = g.origin_mode /\ (ModeOf(f.field_mode) = "unknown" => h.field_mode = "all")
  BY <1>3 DEF FactKeys
<1>6. QED
  BY <1>2, <1>4, <1>5, CompletionsSettle

LEMMA FitHonestOf ==
    ASSUME IsFacts(stored)
    PROVE  FitIsHonest
<1> SUFFICES ASSUME NEW p \in SearchProfiles
             PROVE  /\ EvaluateMatch(p, stored).fit = "none" <=>
                        \A g \in Completions(stored) : EvaluateMatch(p, g).fit = "none"
                    /\ EvaluateMatch(p, stored).fit = "confirmed" =>
                        \A g \in Completions(stored) : EvaluateMatch(p, g).fit # "none"
  BY DEF FitIsHonest
<1>1. ASSUME NEW g, Settles(g, stored), Excluded(p, stored) PROVE Excluded(p, g)
  <2>1. Levels(g) = Levels(stored)
    BY <1>1 DEF Settles, Levels
  <2>2. ASSUME ~OriginAdmitted(p, stored) PROVE ~OriginAdmitted(p, g)
    BY <1>1, <2>2 DEF Settles, OriginAdmitted
  <2>3. ASSUME ~FieldAdmitted(p, stored) PROVE ~FieldAdmitted(p, g)
    BY <1>1, <2>3 DEF Settles, FieldAdmitted, FieldsOf
  <2>4. QED  BY <1>1, <2>1, <2>2, <2>3 DEF Settles, Excluded, PassesGates
<1>2. ASSUME ~Excluded(p, stored) PROVE \E g \in Completions(stored) : ~Excluded(p, g)
  <2>1. PICK g \in Completions(stored) :
            /\ Settles(g, stored)
            /\ ModeOf(stored.origin_mode) = "unknown" => g.origin_mode = "unrestricted"
            /\ ModeOf(stored.field_mode) = "unknown" => g.field_mode = "all"
    BY OpenCompletion
  <2>2. Levels(g) = Levels(stored)
    BY <2>1 DEF Settles, Levels
  <2>3. OriginAdmitted(p, g)
    BY <1>2, <2>1 DEF Settles, Excluded, PassesGates, OriginAdmitted, ModeOf, Null, Missing
  <2>4. FieldAdmitted(p, g)
    BY <1>2, <2>1 DEF Settles, Excluded, PassesGates, FieldAdmitted, FieldsOf, ModeOf, Null, Missing
  <2>5. QED  BY <1>2, <2>1, <2>2, <2>3, <2>4 DEF Settles, Excluded, PassesGates
<1>3. ASSUME ~Excluded(p, stored), ModeOf(stored.origin_mode) # "unknown",
             ModeOf(stored.field_mode) # "unknown", NEW g \in Completions(stored)
      PROVE  ~Excluded(p, g)
  <2>1. Settles(g, stored)
    BY CompletionsSettle
  <2>2. QED
    BY <1>3, <2>1 DEF Settles, Excluded, PassesGates, OriginAdmitted, FieldAdmitted, FieldsOf, Levels
<1>4. QED
  BY <1>1, <1>2, <1>3, CompletionsSettle, NoneIsExcluded

\* What the sanitized facts say of a match.
LEMMA SanitizedMatch ==
    ASSUME NEW f, NEW p \in SearchProfiles
    PROVE  LET s == Sanitized(f) IN
           /\ Items(s.destinations) = Items(f.destinations)
           /\ Levels(s) = Levels(f) /\ FieldsOf(s) = FieldsOf(f)
           /\ p.origin \in Items(s.origins) <=> p.origin \in Items(f.origins)
           /\ s.origin_mode = IF f.origin_mode \in OriginModes THEN f.origin_mode ELSE "unknown"
           /\ s.field_mode = IF f.field_mode \in FieldModes THEN f.field_mode ELSE "unknown"
           /\ s.evidence_fresh = IF f.evidence_fresh \in {"yes", "no"} THEN f.evidence_fresh ELSE "no"
<1> DEFINE s == Sanitized(f)
<1>1. /\ s.destinations = ListOf(Items(f.destinations)) /\ s.levels = ListOf(Levels(f))
      /\ s.fields = ListOf(FieldsOf(f)) /\ s.origins = ListOf(StringList(f.origins))
      /\ s.origin_mode = IF f.origin_mode \in OriginModes THEN f.origin_mode ELSE "unknown"
      /\ s.field_mode = IF f.field_mode \in FieldModes THEN f.field_mode ELSE "unknown"
      /\ s.evidence_fresh = IF f.evidence_fresh \in {"yes", "no"} THEN f.evidence_fresh ELSE "no"
  BY DEF Sanitized, OriginModeOf, Clamp
<1> HIDE DEF s
<1>2. Items(s.destinations) = Items(f.destinations)
  BY <1>1, ListFacts
<1>3. Codes(DegreeCode) /\ Codes(FieldCode)
  BY FactsAssumption
<1>4. Levels(s) = Levels(f)
  <2>1. StringList(s.levels) = Canonical(DegreeCode, StringList(f.levels)) \ {NotText}
    BY <1>1, ListFacts DEF Levels
  <2>2. QED  BY <1>3, <2>1, CodesFixed DEF Levels
<1>5. FieldsOf(s) = FieldsOf(f)
  <2>1. StringList(s.fields) = Canonical(FieldCode, StringList(f.fields)) \ {NotText}
    BY <1>1, ListFacts DEF FieldsOf
  <2>2. QED  BY <1>3, <2>1, CodesFixed DEF FieldsOf
<1>6. p.origin \in Items(s.origins) <=> p.origin \in Items(f.origins)
  <2>1. p.origin # NotText
    BY FactsAssumption
  <2>2. QED  BY <1>1, <2>1, ListFacts DEF StringList
<1>7. QED
  BY <1>1, <1>2, <1>4, <1>5, <1>6 DEF s

\* Facts that a publication and its edits may have written.
WellBuilt(f) ==
    /\ IsFacts(f)
    /\ \A k \in ListKeys : f[k] = ListOf(StringList(f[k]))
    /\ StringList(f.destinations) # {} /\ StringList(f.destinations) \subseteq Covered
    /\ StringList(f.levels) # {} /\ StringList(f.levels) \subseteq DOMAIN DegreeCode
    /\ Canonical(DegreeCode, StringList(f.levels)) = StringList(f.levels)
    /\ StringList(f.origins) \subseteq Countries
    /\ StringList(f.fields) \subseteq DOMAIN FieldCode
    /\ Canonical(FieldCode, StringList(f.fields)) = StringList(f.fields)
    /\ f.origin_mode \in OriginModes \cup {Null} /\ f.field_mode \in FieldModes \cup {Null}
    /\ f.origin_mode = "restricted" => StringList(f.origins) # {}
    /\ f.field_mode = "restricted" => StringList(f.fields) # {}
    /\ f.evidence_fresh \in {"yes", "no", Null}
    /\ f.deadline \in Deadlines \cup {Null}
    /\ f.deadline = Null => f.precision = Missing /\ f.timezone = Null
    /\ f.deadline # Null => f.precision # Missing
    /\ f.timezone \notin {Garbled, "nowhere"} /\ f.funding # Garbled /\ f.note # "empty"

LEMMA AgreementOf ==
    ASSUME IsFacts(stored), published => WellBuilt(stored)
    PROVE  SearchAgreesWithDetail
<1> SUFFICES ASSUME NEW p \in SearchProfiles
             PROVE  LET inSearch == EvaluateMatch(p, stored)
                        onPage == OnDetailPage(p, stored)
                        elsewhere == Items(stored.destinations) \cap p.targets = {}
                    IN  /\ inSearch.fit # "none" => onPage.fit # "none"
                        /\ onPage.fit # "none" => inSearch.fit # "none" \/ elsewhere
                        /\ onPage.fit = "confirmed" => inSearch.fit = "confirmed" \/ elsewhere
                        /\ published /\ ~elsewhere => inSearch = onPage
  BY DEF SearchAgreesWithDetail
<1> DEFINE s == Sanitized(stored)
           q == PageProfile(p, s)
           elsewhere == Items(stored.destinations) \cap p.targets = {}
<1>1. /\ Items(s.destinations) = Items(stored.destinations)
      /\ Levels(s) = Levels(stored) /\ FieldsOf(s) = FieldsOf(stored)
      /\ p.origin \in Items(s.origins) <=> p.origin \in Items(stored.origins)
      /\ s.origin_mode = IF stored.origin_mode \in OriginModes THEN stored.origin_mode ELSE "unknown"
      /\ s.field_mode = IF stored.field_mode \in FieldModes THEN stored.field_mode ELSE "unknown"
      /\ s.evidence_fresh = IF stored.evidence_fresh \in {"yes", "no"} THEN stored.evidence_fresh ELSE "no"
  BY SanitizedMatch
<1>2. /\ q.origin = p.origin /\ q.levels = p.levels /\ q.fields = p.fields
      /\ q.targets = Items(s.destinations)
  BY DEF PageProfile
<1> HIDE DEF s, q
<1>3. /\ ModeOf(s.origin_mode) = "restricted" <=> ModeOf(stored.origin_mode) = "restricted"
      /\ ModeOf(s.field_mode) = "restricted" <=> ModeOf(stored.field_mode) = "restricted"
      /\ ModeOf(s.origin_mode) # "unknown" => ModeOf(stored.origin_mode) # "unknown"
      /\ ModeOf(s.field_mode) # "unknown" => ModeOf(stored.field_mode) # "unknown"
  BY <1>1 DEF ModeOf, OriginModes, FieldModes, Null, Missing
<1>4. PassesGates(q, s) <=> PassesGates(p, stored)
  BY <1>1, <1>2, <1>3 DEF PassesGates, OriginAdmitted, FieldAdmitted
<1>5. /\ Excluded(q, s) => Excluded(p, stored)
      /\ Excluded(p, stored) => Excluded(q, s) \/ elsewhere
  <2>1. Items(s.destinations) \cap q.targets = Items(stored.destinations)
    BY <1>1, <1>2
  <2>2. Items(s.destinations) \cap q.targets = {} => elsewhere
    BY <2>1
  <2>3. Levels(s) \cap q.levels = {} <=> Levels(stored) \cap p.levels = {}
    BY <1>1, <1>2
  <2> HIDE DEF elsewhere
  <2>4. Excluded(q, s) <=> \/ Items(s.destinations) \cap q.targets = {}
                           \/ Levels(stored) \cap p.levels = {}
                           \/ ~PassesGates(p, stored)
    BY <1>4, <2>3 DEF Excluded
  <2>5. Excluded(p, stored) <=> \/ elsewhere
                                \/ Levels(stored) \cap p.levels = {}
                                \/ ~PassesGates(p, stored)
    BY DEF Excluded, elsewhere
  <2>6. QED  BY <2>2, <2>4, <2>5
<1>6. ASSUME published, ~elsewhere PROVE EvaluateMatch(p, stored) = EvaluateMatch(q, s)
  <2>1. /\ ModeOf(s.origin_mode) = ModeOf(stored.origin_mode)
        /\ ModeOf(s.field_mode) = ModeOf(stored.field_mode)
        /\ s.evidence_fresh \in {"yes", Garbled} <=> stored.evidence_fresh \in {"yes", Garbled}
    BY <1>1, <1>6 DEF WellBuilt, ModeOf, OriginModes, FieldModes, Null, Missing, Garbled
  <2>2. Score(q, s) = Score(p, stored)
    BY <1>1, <1>2, <2>1 DEF Score
  <2>3. Excluded(q, s) <=> Excluded(p, stored)
    BY <1>5, <1>6
  <2>4. QED  BY <2>1, <2>2, <2>3 DEF EvaluateMatch, Excluded
<1>7. OnDetailPage(p, stored) = EvaluateMatch(q, s)
  BY DEF OnDetailPage, s, q
<1>8. QED
  BY <1>3, <1>5, <1>6, <1>7, NoneIsExcluded

LEMMA StableOf ==
    ASSUME IsFacts(stored), published => WellBuilt(stored)
    PROVE  PublishedFactsAreStable
<1>1. Sanitized(Sanitized(stored)) = Sanitized(stored)
  <2> DEFINE s == Sanitized(stored)
             t == Sanitized(s)
             Keep(v, valid, default) == Clamp(v, valid, default)
  <2>1. Codes(DegreeCode) /\ Codes(FieldCode)
    BY FactsAssumption
  <2>2. /\ s.destinations = ListOf(Items(stored.destinations)) /\ s.levels = ListOf(Levels(stored))
        /\ s.origins = ListOf(StringList(stored.origins)) /\ s.fields = ListOf(FieldsOf(stored))
        /\ s.programme_names = ListOf(StringList(stored.programme_names))
    BY DEF Sanitized
  <2>3. ListOf(Items(s.destinations)) = s.destinations
    BY <2>2, ListFacts
  <2>4. ListOf(Levels(s)) = s.levels
    <3>1. StringList(s.levels) = Canonical(DegreeCode, StringList(stored.levels)) \ {NotText}
      BY <2>2, ListFacts DEF Levels
    <3>2. QED  BY <2>1, <2>2, <3>1, CodesFixed DEF Levels
  <2>5. ListOf(FieldsOf(s)) = s.fields
    <3>1. StringList(s.fields) = Canonical(FieldCode, StringList(stored.fields)) \ {NotText}
      BY <2>2, ListFacts DEF FieldsOf
    <3>2. QED  BY <2>1, <2>2, <3>1, CodesFixed DEF FieldsOf
  <2>6. ListOf(StringList(s.origins)) = s.origins
        /\ ListOf(StringList(s.programme_names)) = s.programme_names
    BY <2>2, ListFacts DEF StringList
  <2>7. /\ OriginModeOf(s) = s.origin_mode
        /\ Clamp(s.field_mode, FieldModes, "unknown") = s.field_mode
        /\ Clamp(s.evidence_fresh, {"yes", "no"}, "no") = s.evidence_fresh
    BY DEF Sanitized, OriginModeOf, Clamp, OriginModes, FieldModes
  <2>8. If(s.deadline \in Deadlines, s.deadline) = s.deadline
    BY DEF Sanitized, If
  <2>9. s.precision = IF s.deadline = Null THEN Missing ELSE Clamp(s.precision, Precisions, "datetime")
    BY DEF Sanitized, If, Clamp, Precisions
  <2>10. s.timezone = If(s.deadline # Null /\ s.timezone # Garbled, s.timezone)
    BY DEF Sanitized, If
  <2>11. /\ s.note = If(s.note \notin {Garbled, "empty"}, s.note)
         /\ s.reopens = If(s.reopens # Garbled, s.reopens)
         /\ s.funding = If(s.funding # Garbled, s.funding)
    BY DEF Sanitized, If
  <2>12. s = [destinations |-> s.destinations, levels |-> s.levels, origin_mode |-> s.origin_mode,
              origins |-> s.origins, field_mode |-> s.field_mode, fields |-> s.fields,
              programme_names |-> s.programme_names, evidence_fresh |-> s.evidence_fresh,
              deadline |-> s.deadline, precision |-> s.precision, timezone |-> s.timezone,
              note |-> s.note, reopens |-> s.reopens, funding |-> s.funding]
    BY DEF Sanitized
  <2> HIDE DEF s
  <2>13. t = [destinations |-> s.destinations, levels |-> s.levels, origin_mode |-> s.origin_mode,
              origins |-> s.origins, field_mode |-> s.field_mode, fields |-> s.fields,
              programme_names |-> s.programme_names, evidence_fresh |-> s.evidence_fresh,
              deadline |-> s.deadline, precision |-> s.precision, timezone |-> s.timezone,
              note |-> s.note, reopens |-> s.reopens, funding |-> s.funding]
    BY <2>3, <2>4, <2>5, <2>6, <2>7, <2>8, <2>9, <2>10, <2>11 DEF Sanitized
  <2>14. QED  BY <2>12, <2>13 DEF s
<1>2. ASSUME published
      PROVE  /\ Legible(stored) /\ Valid(ToInputs(stored))
             /\ BuildCycleFacts(ToInputs(stored)) =
                    [stored EXCEPT !.evidence_fresh = IF @ = Null THEN "no" ELSE @]
  <2> DEFINE x == ToInputs(stored)
             b == BuildCycleFacts(x)
  <2>1. WellBuilt(stored) /\ IsFacts(stored)
    BY <1>2
  <2>2. Legible(stored) /\ stored.deadline # NotText
    BY <2>1, FactsAssumption DEF WellBuilt, Legible, Null, Garbled, NotText
  <2>3. /\ x = [k \in FactKeys |-> x[k]]
        /\ x.destinations = ListOf(StringList(stored.destinations))
        /\ x.levels = ListOf(StringList(stored.levels))
        /\ x.origins = ListOf(StringList(stored.origins))
        /\ x.fields = ListOf(StringList(stored.fields))
        /\ x.programme_names = ListOf(StringList(stored.programme_names))
        /\ x.origin_mode = Default(stored.origin_mode, "unknown")
        /\ x.field_mode = Default(stored.field_mode, "unknown")
        /\ x.precision = Default(stored.precision, "date")
        /\ x.deadline = If(stored.deadline # NotText, stored.deadline)
        /\ x.evidence_fresh = IF stored.evidence_fresh \in {"yes", Garbled} THEN "yes" ELSE "no"
        /\ x.timezone = stored.timezone /\ x.note = stored.note
        /\ x.reopens = stored.reopens /\ x.funding = stored.funding
    BY <2>1, Read
  <2>4. /\ stored.destinations = ListOf(StringList(stored.destinations))
        /\ stored.levels = ListOf(StringList(stored.levels))
        /\ stored.origins = ListOf(StringList(stored.origins))
        /\ stored.fields = ListOf(StringList(stored.fields))
        /\ stored.programme_names = ListOf(StringList(stored.programme_names))
    BY <2>1 DEF WellBuilt, ListKeys
  <2>5. /\ x.destinations = stored.destinations /\ x.levels = stored.levels
        /\ x.origins = stored.origins /\ x.fields = stored.fields
        /\ x.programme_names = stored.programme_names
        /\ x.origin_mode = stored.origin_mode /\ x.field_mode = stored.field_mode
        /\ x.deadline = stored.deadline
        /\ x.evidence_fresh = IF stored.evidence_fresh = Null THEN "no" ELSE stored.evidence_fresh
        /\ (IF x.deadline = Null THEN Missing ELSE x.precision) = stored.precision
    BY <2>1, <2>2, <2>3, <2>4
       DEF WellBuilt, Default, If, OriginModes, FieldModes, Null, Missing, Garbled
  <2> HIDE DEF x
  <2>6. IsFacts(x)
    BY <2>1, <2>3, <2>5 DEF IsFacts, ListKeys
  <2>7. Valid(x)
    BY <2>1, <2>3, <2>5 DEF WellBuilt, Valid
  <2>8. /\ b = [k \in FactKeys |-> b[k]]
        /\ b.destinations = ListOf(StringList(x.destinations))
        /\ b.levels = ListOf(Canonical(DegreeCode, StringList(x.levels)))
        /\ b.origins = ListOf(StringList(x.origins))
        /\ b.fields = ListOf(Canonical(FieldCode, StringList(x.fields)))
        /\ b.programme_names = ListOf(StringList(x.programme_names))
        /\ b.origin_mode = x.origin_mode /\ b.field_mode = x.field_mode
        /\ b.evidence_fresh = x.evidence_fresh /\ b.deadline = x.deadline
        /\ b.precision = IF x.deadline = Null THEN Missing ELSE x.precision
        /\ b.timezone = If(x.deadline # Null, x.timezone)
        /\ b.note = If(x.note # "empty", x.note)
        /\ b.reopens = x.reopens /\ b.funding = x.funding
    BY <2>6, Built
  <2> HIDE DEF b
  <2>9. /\ b.destinations = stored.destinations /\ b.levels = stored.levels
        /\ b.origins = stored.origins /\ b.fields = stored.fields
        /\ b.programme_names = stored.programme_names
        /\ b.origin_mode = stored.origin_mode /\ b.field_mode = stored.field_mode
        /\ b.deadline = stored.deadline /\ b.precision = stored.precision
        /\ b.timezone = stored.timezone /\ b.note = stored.note
        /\ b.reopens = stored.reopens /\ b.funding = stored.funding
        /\ b.evidence_fresh = IF stored.evidence_fresh = Null THEN "no" ELSE stored.evidence_fresh
    <3>1. /\ b.destinations = stored.destinations /\ b.origins = stored.origins
          /\ b.programme_names = stored.programme_names
      BY <2>4, <2>5, <2>8
    <3>2. b.levels = stored.levels /\ b.fields = stored.fields
      <4>1. /\ Canonical(DegreeCode, StringList(stored.levels)) = StringList(stored.levels)
            /\ Canonical(FieldCode, StringList(stored.fields)) = StringList(stored.fields)
        BY <2>1 DEF WellBuilt
      <4>2. QED  BY <2>4, <2>5, <2>8, <4>1
    <3>3. b.timezone = stored.timezone
      BY <2>1, <2>3, <2>5, <2>8 DEF WellBuilt, If
    <3>4. b.note = stored.note
      BY <2>1, <2>3, <2>8 DEF WellBuilt, If
    <3>5. /\ b.origin_mode = stored.origin_mode /\ b.field_mode = stored.field_mode
          /\ b.deadline = stored.deadline /\ b.precision = stored.precision
          /\ b.reopens = stored.reopens /\ b.funding = stored.funding
          /\ b.evidence_fresh = IF stored.evidence_fresh = Null THEN "no" ELSE stored.evidence_fresh
      BY <2>3, <2>5, <2>8
    <3>6. QED  BY <3>1, <3>2, <3>3, <3>4, <3>5
  <2>10. \A k \in FactKeys : k # "evidence_fresh" => b[k] = stored[k]
    BY <2>9 DEF FactKeys, ListKeys
  <2>11. stored = [k \in FactKeys |-> stored[k]] /\ "evidence_fresh" \in FactKeys
    BY <2>1 DEF IsFacts, FactKeys
  <2>12. b = [stored EXCEPT !.evidence_fresh = IF @ = Null THEN "no" ELSE @]
    BY <2>8, <2>9, <2>10, <2>11
  <2>13. QED  BY <2>2, <2>7, <2>12 DEF x, b
<1>3. QED
  BY <1>1, <1>2 DEF PublishedFactsAreStable

\* What a publication may ask for, and what an edit of facts that were
\* published makes of them.
Asked(x) ==
    /\ IsFacts(x)
    /\ x.origin_mode \in OriginModes \cup {Null} /\ x.field_mode \in FieldModes \cup {Null}
    /\ x.evidence_fresh \in {"yes", "no", Null}
    /\ x.deadline \in Deadlines \cup {Null} /\ x.precision # Missing

\* A builder's lists are lists, whatever it is given.
LEMMA BuiltIsFacts ==
    ASSUME NEW x, IsFacts(x)
    PROVE  IsFacts(BuildCycleFacts(x)) /\ BuildCycleFacts(x).deadline = x.deadline
<1> DEFINE b == BuildCycleFacts(x)
<1>1. /\ b = [k \in FactKeys |-> b[k]] /\ b.deadline = x.deadline
      /\ b.destinations = ListOf(StringList(x.destinations))
      /\ b.levels = ListOf(Canonical(DegreeCode, StringList(x.levels)))
      /\ b.origins = ListOf(StringList(x.origins))
      /\ b.fields = ListOf(Canonical(FieldCode, StringList(x.fields)))
      /\ b.programme_names = ListOf(StringList(x.programme_names))
  BY Built
<1> HIDE DEF b
<1>2. /\ IsList(b.destinations) /\ IsList(b.levels) /\ IsList(b.origins)
      /\ IsList(b.fields) /\ IsList(b.programme_names)
  BY <1>1, ListFacts
<1>3. \A k \in ListKeys : IsList(b[k])
  BY <1>2 DEF ListKeys
<1>4. QED
  BY <1>1, <1>3 DEF b, IsFacts

\* What was asked for and is valid builds well.
LEMMA AskedBuildsWell ==
    ASSUME NEW x, Asked(x), Valid(x)
    PROVE  WellBuilt(BuildCycleFacts(x))
<1> DEFINE b == BuildCycleFacts(x)
<1>1. /\ b.destinations = ListOf(StringList(x.destinations))
      /\ b.levels = ListOf(Canonical(DegreeCode, StringList(x.levels)))
      /\ b.origins = ListOf(StringList(x.origins))
      /\ b.fields = ListOf(Canonical(FieldCode, StringList(x.fields)))
      /\ b.programme_names = ListOf(StringList(x.programme_names))
      /\ b.origin_mode = x.origin_mode /\ b.field_mode = x.field_mode
      /\ b.evidence_fresh = x.evidence_fresh /\ b.deadline = x.deadline
      /\ b.precision = IF x.deadline = Null THEN Missing ELSE x.precision
      /\ b.timezone = If(x.deadline # Null, x.timezone)
      /\ b.note = If(x.note # "empty", x.note)
      /\ b.reopens = x.reopens /\ b.funding = x.funding
  BY Built DEF Asked
<1>2. IsFacts(b)
  BY BuiltIsFacts DEF Asked
<1> HIDE DEF b
<1>3. Codes(DegreeCode) /\ Codes(FieldCode)
  BY FactsAssumption
<1>4. /\ StringList(b.destinations) = StringList(x.destinations)
      /\ StringList(b.origins) = StringList(x.origins)
      /\ StringList(b.programme_names) = StringList(x.programme_names)
  BY <1>1, ListFacts DEF StringList
<1>5. StringList(b.levels) = Canonical(DegreeCode, StringList(x.levels))
  <2>1. NotText \notin Canonical(DegreeCode, StringList(x.levels))
    BY <1>3, CodesFixed
  <2>2. QED  BY <1>1, <2>1, ListFacts
<1>6. StringList(b.fields) = Canonical(FieldCode, StringList(x.fields))
  <2>1. NotText \notin Canonical(FieldCode, StringList(x.fields))
    BY <1>3, CodesFixed
  <2>2. QED  BY <1>1, <2>1, ListFacts
<1>7. \A k \in ListKeys : b[k] = ListOf(StringList(b[k]))
  BY <1>1, <1>4, <1>5, <1>6 DEF ListKeys
<1>8. /\ StringList(b.destinations) # {} /\ StringList(b.destinations) \subseteq Covered
      /\ StringList(b.origins) \subseteq Countries
  BY <1>4 DEF Valid
<1>9. /\ StringList(b.levels) # {} /\ StringList(b.levels) \subseteq DOMAIN DegreeCode
      /\ Canonical(DegreeCode, StringList(b.levels)) = StringList(b.levels)
  <2>1. StringList(x.levels) \cap DOMAIN DegreeCode # {}
    BY DEF Valid
  <2> DEFINE C == Canonical(DegreeCode, StringList(x.levels))
  <2>2. C # {} /\ C \subseteq DOMAIN DegreeCode /\ Canonical(DegreeCode, C) = C
    BY <1>3, <2>1, CodesFixed
  <2> HIDE DEF C
  <2>3. StringList(b.levels) = C
    BY <1>5 DEF C
  <2>4. QED  BY <2>2, <2>3
<1>10. /\ StringList(b.fields) \subseteq DOMAIN FieldCode
       /\ Canonical(FieldCode, StringList(b.fields)) = StringList(b.fields)
  <2> DEFINE C == Canonical(FieldCode, StringList(x.fields))
  <2>1. C \subseteq DOMAIN FieldCode /\ Canonical(FieldCode, C) = C
    BY <1>3, CodesFixed
  <2> HIDE DEF C
  <2>2. StringList(b.fields) = C
    BY <1>6 DEF C
  <2>3. QED  BY <2>1, <2>2
<1>11. /\ b.origin_mode = "restricted" => StringList(b.origins) # {}
       /\ b.field_mode = "restricted" => StringList(b.fields) # {}
  <2>1. x.origin_mode = "restricted" => StringList(x.origins) # {}
    BY DEF Valid
  <2>2. x.field_mode = "restricted" => StringList(x.fields) \cap DOMAIN FieldCode # {}
    BY DEF Valid
  <2>3. QED  BY <1>1, <1>3, <1>4, <1>6, <2>1, <2>2, CodesFixed
<1>12. /\ b.origin_mode \in OriginModes \cup {Null} /\ b.field_mode \in FieldModes \cup {Null}
       /\ b.evidence_fresh \in {"yes", "no", Null} /\ b.deadline \in Deadlines \cup {Null}
       /\ b.deadline # Null => b.precision # Missing
  BY <1>1 DEF Asked
<1>13. /\ b.deadline = Null => b.precision = Missing /\ b.timezone = Null
       /\ b.timezone \notin {Garbled, "nowhere"} /\ b.funding # Garbled /\ b.note # "empty"
  BY <1>1 DEF Valid, If, Null, Garbled
<1>14. QED
  BY <1>2, <1>7, <1>8, <1>9, <1>10, <1>11, <1>12, <1>13 DEF b, WellBuilt

\* The inductive invariant: facts are facts, and published ones are well built.
FactsInv ==
    /\ FactsTypeOK
    /\ published => WellBuilt(stored)

LEMMA FactsInitially == FactsInit => FactsInv
<1> SUFFICES ASSUME FactsInit PROVE FactsInv
  OBVIOUS
<1>1. CASE published = FALSE /\ stored \in StoredByHand
  BY <1>1, FactsAssumption DEF FactsInv, FactsTypeOK
<1>2. CASE published = TRUE /\ stored \in {BuildCycleFacts(x) : x \in {x \in CycleInputs : Valid(x)}}
  <2>1. PICK x \in CycleInputs : Valid(x) /\ stored = BuildCycleFacts(x)
    BY <1>2
  <2>2. IsFacts(x) /\ \A k \in FactKeys : Accepted(k, x[k])
    BY FactsAssumption
  <2>3. Asked(x)
    <3>1. /\ Accepted("origin_mode", x.origin_mode) /\ Accepted("field_mode", x.field_mode)
          /\ Accepted("evidence_fresh", x.evidence_fresh) /\ Accepted("deadline", x.deadline)
          /\ Accepted("precision", x.precision)
      BY <2>2 DEF FactKeys
    <3>2. QED  BY <2>2, <3>1 DEF Asked, Accepted, Precisions, Null, Missing
  <2>4. WellBuilt(stored)
    BY <2>1, <2>3, AskedBuildsWell
  <2>5. QED  BY <1>2, <2>4 DEF FactsInv, FactsTypeOK, WellBuilt
<1>3. QED
  BY <1>1, <1>2 DEF FactsInit

\* An edit keeps the facts well built, and leaves those stored by hand facts.
LEMMA EditKeeps ==
    ASSUME FactsInv, NEW change \in Edits, Edit(change)
    PROVE  FactsInv'
<1> DEFINE r == ToInputs(stored)
           x == [k \in FactKeys |-> IF k \in DOMAIN change THEN change[k] ELSE r[k]]
<1>1. IsFacts(stored) /\ DOMAIN stored = FactKeys
  BY DEF FactsInv, FactsTypeOK, IsFacts
<1>2. /\ Legible(stored) /\ Valid(x) /\ stored' = BuildCycleFacts(x) /\ published' = published
  BY <1>1 DEF Edit
<1>3. \A k \in DOMAIN change : Accepted(k, change[k])
  BY FactsAssumption
<1>4. /\ r.destinations = ListOf(StringList(stored.destinations))
      /\ r.levels = ListOf(StringList(stored.levels))
      /\ r.origins = ListOf(StringList(stored.origins))
      /\ r.fields = ListOf(StringList(stored.fields))
      /\ r.programme_names = ListOf(StringList(stored.programme_names))
      /\ r.origin_mode = Default(stored.origin_mode, "unknown")
      /\ r.field_mode = Default(stored.field_mode, "unknown")
      /\ r.precision = Default(stored.precision, "date")
      /\ r.deadline = If(stored.deadline # NotText, stored.deadline)
      /\ r.evidence_fresh = IF stored.evidence_fresh \in {"yes", Garbled} THEN "yes" ELSE "no"
  BY <1>1, Read
<1> HIDE DEF r
<1>5. \A k \in FactKeys : x[k] = IF k \in DOMAIN change THEN change[k] ELSE r[k]
  OBVIOUS
<1>6. x = [k \in FactKeys |-> x[k]]
  OBVIOUS
<1> HIDE DEF x
<1>7. IsFacts(x)
  <2>1. \A k \in ListKeys : IsList(r[k])
    BY <1>4, ListFacts DEF ListKeys
  <2>2. \A k \in ListKeys : k \in FactKeys
    BY DEF FactKeys
  <2>3. \A k \in ListKeys : k \in DOMAIN change => IsList(change[k])
    BY <1>3 DEF Accepted
  <2>4. \A k \in ListKeys : IsList(x[k])
    BY <1>5, <2>1, <2>2, <2>3
  <2>5. QED  BY <1>6, <2>4 DEF IsFacts
<1>8. x.deadline \in Deadlines \cup {Null}
  <2>1. stored.deadline \in Deadlines \cup {Null, NotText}
    BY <1>2 DEF FactsInv, FactsTypeOK, Legible
  <2>2. r.deadline \in Deadlines \cup {Null}
    BY <1>4, <2>1 DEF If
  <2>3. "deadline" \in DOMAIN change => change.deadline \in Deadlines \cup {Null}
    BY <1>3 DEF Accepted
  <2>4. QED  BY <1>5, <2>2, <2>3 DEF FactKeys
<1>9. FactsTypeOK'
  <2>1. IsFacts(stored') /\ stored'.deadline \in Deadlines \cup {Null}
    BY <1>2, <1>7, <1>8, BuiltIsFacts
  <2>2. QED  BY <1>2, <2>1 DEF FactsInv, FactsTypeOK, IsFacts
<1>10. ASSUME published PROVE WellBuilt(stored')
  <2>1. /\ r.origin_mode \in OriginModes \cup {Null} /\ r.field_mode \in FieldModes \cup {Null}
        /\ r.evidence_fresh \in {"yes", "no"} /\ r.precision # Missing
    BY <1>4, <1>10 DEF FactsInv, WellBuilt, Default, OriginModes, FieldModes, Null, Missing
  <2>2. /\ "origin_mode" \in DOMAIN change => change.origin_mode \in OriginModes \cup {Null}
        /\ "field_mode" \in DOMAIN change => change.field_mode \in FieldModes \cup {Null}
        /\ "evidence_fresh" \in DOMAIN change => change.evidence_fresh \in {"yes", "no", Null}
        /\ "precision" \in DOMAIN change => change.precision # Missing
    BY <1>3 DEF Accepted, Precisions, Null, Missing
  <2>3. {"origin_mode", "field_mode", "evidence_fresh", "precision"} \subseteq FactKeys
    BY DEF FactKeys
  <2>4. Asked(x)
    BY <1>5, <1>7, <1>8, <2>1, <2>2, <2>3 DEF Asked
  <2>5. QED  BY <1>2, <2>4, AskedBuildsWell
<1>11. published' => WellBuilt(stored)'
  BY <1>2, <1>10 DEF WellBuilt, IsFacts
<1>12. QED
  BY <1>9, <1>11 DEF FactsInv

LEMMA FactsInvariance == FactsSpec => []FactsInv
<1>1. FactsInv /\ [FactsNext]_factsVars => FactsInv'
  <2> SUFFICES ASSUME FactsInv, [FactsNext]_factsVars PROVE FactsInv'
    OBVIOUS
  <2>1. CASE FactsNext
    BY <2>1, EditKeeps DEF FactsNext
  <2>2. CASE UNCHANGED factsVars
    BY <2>2 DEF FactsInv, FactsTypeOK, WellBuilt, IsFacts, factsVars
  <2>3. QED  BY <2>1, <2>2
<1>2. QED
  BY <1>1, FactsInitially, PTL DEF FactsSpec

\* Facts stay lists and values a reader understands, whoever wrote them
\* (build_cycle_facts, cycle_facts_to_inputs).
THEOREM FactsTypeCorrect == FactsSpec => []FactsTypeOK
<1>1. FactsInv => FactsTypeOK
  BY DEF FactsInv
<1>2. QED
  BY <1>1, FactsInvariance, PTL

\* A search leaves out only what no settling of the unknown would let in, and
\* confirms only what every settling would (evaluate_match).
THEOREM FitStaysHonest == FactsSpec => []FitIsHonest
<1>1. FactsInv => FitIsHonest
  BY FitHonestOf DEF FactsInv, FactsTypeOK
<1>2. QED
  BY <1>1, FactsInvariance, PTL

\* What a search on raw facts lists, its detail page on sanitized ones explains;
\* they differ only on an award outside the searcher's target countries, and
\* otherwise not at all on published facts (evaluate_match, sanitized_dict,
\* scholarship_detail_with_explanation).
THEOREM SearchAndDetailAgree == FactsSpec => []SearchAgreesWithDetail
<1>1. FactsInv => SearchAgreesWithDetail
  BY AgreementOf DEF FactsInv, FactsTypeOK
<1>2. QED
  BY <1>1, FactsInvariance, PTL

\* An edit of published facts starts from them as they are, and one of nothing
\* would be accepted (cycle_facts_to_inputs, build_cycle_facts).
THEOREM FactsStayStable == FactsSpec => []PublishedFactsAreStable
<1>1. FactsInv => PublishedFactsAreStable
  BY StableOf DEF FactsInv, FactsTypeOK
<1>2. QED
  BY <1>1, FactsInvariance, PTL

=============================================================================

--------------------------- MODULE AssistantProofs ---------------------------
(***************************************************************************)
(* Work done by assistants outside: the Agent, then the AI Router.         *)
(***************************************************************************)
EXTENDS AgentWork, Explanations, TLAPS, FiniteSetTheorems

(***************************************************************************)
(* Proofs about AgentWork, for any discoveries, callers, versions and page *)
(* sizes.  What makes paging by id complete is that a cursor never passes  *)
(* a row it has not given out, except rows that came in behind it.         *)
(***************************************************************************)

WalkRecord == [step : {"walking", "ended"}, version : Versions, only : BOOLEAN,
               after : Found \cup {0}, served : SUBSET Found, offered : SUBSET Found]

WalksAreWalks == walk \in [Walkers -> {NotWalking} \cup WalkRecord]

\* A walk has given d out, or need not any more.
Covered(w, d) ==
    \/ d \in walk[w].served
    \/ walk[w].only /\ <<d, walk[w].version>> \in DOMAIN outcome

\* Nothing that was there at the start lies uncovered behind the cursor.
NothingBehind ==
    \A w \in Walkers : walk[w].step = "walking" =>
        \A d \in walk[w].offered : d <= walk[w].after => Covered(w, d)

AgentIInv ==
    /\ AgentTypeOK
    /\ WalksAreWalks
    /\ NothingBehind
    /\ WalkMissesNothing

-----------------------------------------------------------------------------
(* The first n members of a set *)

\* A finite set of numbers that is not empty has a smallest member.
LEMMA LeastMember ==
    ASSUME NEW S, S \subseteq Nat, IsFiniteSet(S), S # {}
    PROVE  \E m \in S : \A k \in S : m <= k
<1> DEFINE UpTo(x) == {k \in S : k <= x}
           F == {UpTo(x) : x \in S}
<1>1. IsWellFoundedOn(StrictSubsetOrdering(S), SUBSET S)
  BY FS_StrictSubsetOrderingWellFounded, FS_FiniteSubsetsOfFinite
<1>2. F \subseteq SUBSET S /\ F # {}
  OBVIOUS
<1>3. PICK T \in F : \A U \in F : <<U, T>> \notin StrictSubsetOrdering(S)
  <2> HIDE DEF F
  <2> QED BY <1>1, <1>2, WFMin
<1>4. PICK m \in S : T = UpTo(m)
  BY <1>3
<1>5. ASSUME NEW k \in S, k < m PROVE FALSE
  <2>1. UpTo(k) \in F /\ T \subseteq S
    BY <1>4, <1>5
  <2>4. ASSUME NEW j \in UpTo(k) PROVE j \in T
    <3>1. j \in S /\ j \in Int /\ k \in Int /\ m \in Int /\ j <= k
      OBVIOUS
    <3>2. j <= m
      BY <3>1, <1>5
    <3> QED BY <3>1, <3>2, <1>4
  <2>2. m \in T /\ m \notin UpTo(k)
    BY <1>4, <1>5
  <2>3. <<UpTo(k), T>> \in StrictSubsetOrdering(S)
    BY <2>1, <2>4, <2>2 DEF StrictSubsetOrdering
  <2> QED BY <2>1, <2>3, <1>3
<1> QED BY <1>5

\* And a greatest one: take it from the upper ends of the set.
LEMMA GreatestMember ==
    ASSUME NEW S, S \subseteq Nat, IsFiniteSet(S), S # {}
    PROVE  \E m \in S : \A k \in S : k <= m
<1> DEFINE From(x) == {k \in S : k >= x}
           F == {From(x) : x \in S}
<1>1. IsWellFoundedOn(StrictSubsetOrdering(S), SUBSET S)
  BY FS_StrictSubsetOrderingWellFounded, FS_FiniteSubsetsOfFinite
<1>2. F \subseteq SUBSET S /\ F # {}
  OBVIOUS
<1>3. PICK T \in F : \A U \in F : <<U, T>> \notin StrictSubsetOrdering(S)
  <2> HIDE DEF F
  <2> QED BY <1>1, <1>2, WFMin
<1>4. PICK m \in S : T = From(m)
  BY <1>3
<1>5. ASSUME NEW k \in S, k > m PROVE FALSE
  <2>1. From(k) \in F /\ T \subseteq S
    BY <1>4, <1>5
  <2>4. ASSUME NEW j \in From(k) PROVE j \in T
    <3>1. j \in S /\ j \in Int /\ k \in Int /\ m \in Int /\ j >= k
      OBVIOUS
    <3>2. j >= m
      BY <3>1, <1>5
    <3> QED BY <3>1, <3>2, <1>4
  <2>2. m \in T /\ m \notin From(k)
    BY <1>4, <1>5
  <2>3. <<From(k), T>> \in StrictSubsetOrdering(S)
    BY <2>1, <2>4, <2>2 DEF StrictSubsetOrdering
  <2> QED BY <2>1, <2>3, <1>3
<1> QED BY <1>5

\* Furthest picks the greatest row of a page.
LEMMA FurthestIsGreatest ==
    ASSUME NEW S, S \subseteq Found, S # {}
    PROVE  Furthest(S) \in S /\ \A e \in S : e <= Furthest(S)
<1>1. S \subseteq Nat /\ IsFiniteSet(S)
  BY AgentAssumption, FS_Subset
<1>2. \E m \in S : \A k \in S : k <= m
  BY <1>1, GreatestMember
<1> QED BY <1>2 DEF Furthest

\* The rows before a given one, and how many they are.
LEMMA RowsBefore ==
    ASSUME NEW S, S \subseteq Found, NEW d
    PROVE  /\ IsFiniteSet({e \in S : e < d})
           /\ Cardinality({e \in S : e < d}) \in Nat
BY AgentAssumption, FS_Subset, FS_CardinalityType

\* Whatever is not beyond a row of the page is on the page.
LEMMA PageIsPrefix ==
    ASSUME NEW S, S \subseteq Found, NEW n \in Nat,
           NEW m \in Smallest(S, n), NEW d \in S, d <= m
    PROVE  d \in Smallest(S, n)
<1>1. d \in Nat /\ m \in Nat /\ m \in S
  BY AgentAssumption DEF Smallest
<1>2. \A e \in S : e \in Nat
  BY AgentAssumption
<1>3. {e \in S : e < d} \subseteq {e \in S : e < m}
  <2> SUFFICES ASSUME NEW e \in S, e < d PROVE e < m
    OBVIOUS
  <2>1. e \in Nat
    BY <1>2
  <2> QED BY <1>1, <2>1
<1>4. Cardinality({e \in S : e < d}) <= Cardinality({e \in S : e < m})
  <2> DEFINE B == {e \in S : e < d}
             C == {e \in S : e < m}
  <2>1. IsFiniteSet(C) /\ B \subseteq C
    BY <1>3, RowsBefore
  <2> HIDE DEF B, C
  <2>2. Cardinality(B) <= Cardinality(C)
    BY <2>1, FS_Subset
  <2> QED BY <2>2 DEF B, C
<1>5. Cardinality({e \in S : e < m}) < n
  BY DEF Smallest
<1>6. Cardinality({e \in S : e < d}) \in Nat /\ Cardinality({e \in S : e < m}) \in Nat
  BY RowsBefore
<1>7. Cardinality({e \in S : e < d}) < n
  BY <1>4, <1>5, <1>6
<1> QED BY <1>7 DEF Smallest

\* A page that is not full holds everything there is.
LEMMA ShortPageIsAll ==
    ASSUME NEW S, S \subseteq Found, NEW n \in Nat \ {0},
           Cardinality(Smallest(S, n)) # n
    PROVE  S \subseteq Smallest(S, n)
<1> DEFINE P == Smallest(S, n)
<1>1. P \subseteq S /\ IsFiniteSet(S) /\ IsFiniteSet(P) /\ S \subseteq Nat
      /\ Cardinality(P) \in Nat
  BY AgentAssumption, FS_Subset, FS_CardinalityType DEF Smallest
<1>2. SUFFICES ASSUME S \ P # {} PROVE FALSE
  OBVIOUS
<1>3. PICK d \in S \ P : \A k \in S \ P : d <= k
  <2>1. S \ P \subseteq Nat /\ IsFiniteSet(S \ P)
    BY <1>1, FS_Subset
  <2> HIDE DEF P
  <2> QED BY <1>2, <2>1, LeastMember
<1> DEFINE B == {e \in S : e < d}
<1>4. B \subseteq P
  <2> SUFFICES ASSUME NEW e \in S, e < d, e \notin P PROVE FALSE
    OBVIOUS
  <2>1. e \in Nat /\ d \in Nat /\ d <= e
    BY <1>1, <1>3
  <2> QED BY <2>1
<1>5. Cardinality(B) \in Nat /\ ~(Cardinality(B) < n) /\ Cardinality(B) <= Cardinality(P)
  BY <1>1, <1>3, <1>4, RowsBefore, FS_Subset DEF Smallest
<1>6. Cardinality(P) <= n
  <2>1. CASE P = {}
    BY <2>1, FS_EmptySet
  <2>2. CASE P # {}
    <3>1. PICK m \in P : \A k \in P : k <= m
      <4> HIDE DEF P
      <4> QED BY <1>1, <2>2, GreatestMember
    <3> DEFINE C == {e \in S : e < m}
    <3>2. IsFiniteSet(C) /\ Cardinality(C) \in Nat /\ Cardinality(C) < n
      BY <3>1, RowsBefore DEF Smallest
    <3>3. P \subseteq C \cup {m}
      <4> SUFFICES ASSUME NEW e \in P, e # m PROVE e \in S /\ e < m
        OBVIOUS
      <4>1. e \in S /\ e \in Nat /\ m \in Nat /\ e <= m
        BY <1>1, <3>1
      <4> QED BY <4>1
    <3>4. IsFiniteSet(C \cup {m}) /\ Cardinality(C \cup {m}) = Cardinality(C) + 1
      <4>1. m \notin C
        <5>1. m \in Nat
          BY <1>1, <3>1
        <5> QED BY <5>1
      <4> HIDE DEF C
      <4> QED BY <3>2, <4>1, FS_AddElement
    <3>5. Cardinality(P) <= Cardinality(C \cup {m})
      <4> HIDE DEF C, P
      <4> QED BY <3>3, <3>4, FS_Subset
    <3> HIDE DEF C, P
    <3> QED BY <1>1, <3>2, <3>4, <3>5
  <2> QED BY <2>1, <2>2
<1> HIDE DEF B, P
<1> QED BY <1>1, <1>5, <1>6 DEF P

-----------------------------------------------------------------------------
(* The invariant holds initially and is kept by every step. *)

LEMMA AgentInitIInv == AgentInit => AgentIInv
BY DEF AgentInit, AgentIInv, AgentTypeOK, WalksAreWalks, NothingBehind, WalkMissesNothing, NotWalking

\* A step that leaves the walks alone, and takes nothing from the tables.
LEMMA GrowIInv ==
    ASSUME AgentIInv, UNCHANGED walk, visible \subseteq visible',
           DOMAIN outcome \subseteq DOMAIN outcome', AgentTypeOK'
    PROVE  AgentIInv'
<1>1. NothingBehind'
  BY DEF AgentIInv, NothingBehind, Covered
<1>2. WalkMissesNothing'
  BY DEF AgentIInv, WalkMissesNothing
<1> QED BY <1>1, <1>2 DEF AgentIInv, WalksAreWalks

LEMMA AppearIInv == ASSUME AgentIInv, NEW d \in Found, Appear(d) PROVE AgentIInv'
<1>1. AgentTypeOK'
  BY DEF AgentIInv, AgentTypeOK, Appear
<1> QED BY <1>1, GrowIInv DEF Appear

LEMMA RecordEvidenceIInv ==
    ASSUME AgentIInv, NEW d \in Found, NEW c \in Claims, NEW v \in Versions, RecordEvidence(d, c, v)
    PROVE  AgentIInv'
<1>1. AgentTypeOK'
  BY DEF AgentIInv, AgentTypeOK, RecordEvidence
<1> QED BY <1>1, GrowIInv DEF RecordEvidence

LEMMA RecordRunIInv ==
    ASSUME AgentIInv, NEW d \in Found, NEW v \in Versions, NEW o \in Outcomes, RecordRun(d, v, o)
    PROVE  AgentIInv'
<1>1. DOMAIN outcome' = DOMAIN outcome \cup {<<d, v>>}
      /\ \A k \in DOMAIN outcome' : outcome'[k] = IF k = <<d, v>> THEN o ELSE outcome[k]
  BY DEF RecordRun
<1>2. AgentTypeOK'
  BY <1>1 DEF AgentIInv, AgentTypeOK, RecordRun
<1> QED BY <1>1, <1>2, GrowIInv DEF RecordRun

\* A step of one walk: the others and the tables stay.
LEMMA WalkIInv ==
    ASSUME AgentIInv, NEW w \in Walkers, NEW r \in WalkRecord,
           walk' = [walk EXCEPT ![w] = r], UNCHANGED <<visible, outcome, evidence>>,
           r.served \subseteq visible, r.offered \subseteq visible,
           \A d \in r.offered : (r.step = "ended" \/ d <= r.after) =>
               d \in r.served \/ (r.only /\ <<d, r.version>> \in DOMAIN outcome)
    PROVE  AgentIInv'
<1>1. walk' \in [Walkers -> {NotWalking} \cup WalkRecord]
  BY DEF AgentIInv, WalksAreWalks
<1>2. walk'[w] = r /\ \A u \in Walkers : u # w => walk'[u] = walk[u]
  BY DEF AgentIInv, WalksAreWalks
<1>3. /\ r.step \in {"walking", "ended"} /\ r.version \in Versions /\ r.only \in BOOLEAN
      /\ r.after \in Found \cup {0}
  BY DEF WalkRecord
<1>4. AgentTypeOK'
  BY <1>2, <1>3 DEF AgentIInv, AgentTypeOK
<1>5. NothingBehind'
  BY <1>2 DEF AgentIInv, NothingBehind, Covered
<1>6. WalkMissesNothing'
  BY <1>2, <1>3 DEF AgentIInv, WalkMissesNothing
<1> QED BY <1>1, <1>4, <1>5, <1>6 DEF AgentIInv, WalksAreWalks

\* A walk begins before the first discovery.
LEMMA StartWalkIInv ==
    ASSUME AgentIInv, NEW w \in Walkers, NEW v \in Versions, NEW u \in BOOLEAN, StartWalk(w, v, u)
    PROVE  AgentIInv'
<1> DEFINE r == [step |-> "walking", version |-> v, only |-> u, after |-> 0,
                 served |-> {}, offered |-> visible]
<1>1. r \in WalkRecord
  BY DEF AgentIInv, AgentTypeOK, WalkRecord
<1>2. \A d \in r.offered : ~(r.step = "ended" \/ d <= r.after)
  <2> SUFFICES ASSUME NEW d \in visible PROVE ~(d <= 0)
    OBVIOUS
  <2>1. d \in Nat \ {0}
    BY AgentAssumption DEF AgentIInv, AgentTypeOK
  <2> QED BY <2>1
<1>3. walk' = [walk EXCEPT ![w] = r] /\ UNCHANGED <<visible, outcome, evidence>>
  BY DEF StartWalk
<1>4. r.served \subseteq visible /\ r.offered \subseteq visible
  OBVIOUS
<1> HIDE DEF r
<1> QED BY <1>1, <1>2, <1>3, <1>4, WalkIInv

\* A page takes the cursor past nothing it has not given out.
LEMMA FetchPageIInv ==
    ASSUME AgentIInv, NEW w \in Walkers, NEW limit \in PageSizes, FetchPage(w, limit)
    PROVE  AgentIInv'
<1> DEFINE S == (visible \ Passed(w)) \ Processed(w)
           rows == Smallest(S, limit)
           r == [walk[w] EXCEPT !.served = walk[w].served \cup rows,
                                !.after = IF rows = {} THEN walk[w].after ELSE Furthest(rows),
                                !.step = IF Cardinality(rows) = limit THEN "walking" ELSE "ended"]
<1>1. walk[w].step = "walking" /\ walk' = [walk EXCEPT ![w] = r]
      /\ UNCHANGED <<visible, outcome, evidence>>
  BY DEF FetchPage, AgentIInv, WalksAreWalks
<1>2. walk[w] \in WalkRecord
  BY <1>1 DEF AgentIInv, WalksAreWalks, NotWalking
<1>3. S \subseteq Found /\ S \subseteq visible /\ rows \subseteq S /\ limit \in Nat \ {0}
  BY AgentAssumption DEF AgentIInv, AgentTypeOK, Smallest
<1>4. rows # {} => Furthest(rows) \in rows /\ \A e \in rows : e <= Furthest(rows)
  <2> HIDE DEF rows, S
  <2> QED BY <1>3, FurthestIsGreatest
<1>5. /\ r.served = walk[w].served \cup rows
      /\ r.after = IF rows = {} THEN walk[w].after ELSE Furthest(rows)
      /\ r.step = IF Cardinality(rows) = limit THEN "walking" ELSE "ended"
      /\ r.version = walk[w].version /\ r.only = walk[w].only /\ r.offered = walk[w].offered
  <2> HIDE DEF rows, S
  <2> QED BY <1>2 DEF WalkRecord
<1>6. r \in WalkRecord
  <2> HIDE DEF rows, S
  <2>1. (IF rows = {} THEN walk[w].after ELSE Furthest(rows)) \in Found \cup {0}
    BY <1>2, <1>3, <1>4 DEF WalkRecord
  <2>2. (IF Cardinality(rows) = limit THEN "walking" ELSE "ended") \in {"walking", "ended"}
    OBVIOUS
  <2>3. walk[w].served \cup rows \in SUBSET Found
    BY <1>2, <1>3 DEF WalkRecord
  <2> QED BY <1>2, <2>1, <2>2, <2>3 DEF WalkRecord
<1>7. walk[w].served \subseteq visible /\ walk[w].offered \subseteq visible
      /\ walk[w].after \in Found \cup {0}
  BY <1>1 DEF AgentIInv, AgentTypeOK
<1>8. ASSUME NEW d \in walk[w].offered, r.step = "ended" \/ d <= r.after
      PROVE  d \in r.served \/ (r.only /\ <<d, r.version>> \in DOMAIN outcome)
  <2>1. CASE d <= walk[w].after
    BY <1>1, <1>5, <2>1 DEF AgentIInv, NothingBehind, Covered
  <2>2. CASE d \in Processed(w)
    BY <1>5, <2>2 DEF Processed
  <2>3. CASE ~(d <= walk[w].after) /\ d \notin Processed(w)
    <3>1. d \in S
      BY <1>7, <2>3 DEF Passed
    <3>2. CASE r.step = "ended"
      <4>1. Cardinality(rows) # limit
        BY <1>5, <3>2
      <4>2. S \subseteq rows
        <5> HIDE DEF S
        <5> QED BY <1>3, <4>1, ShortPageIsAll
      <4> QED BY <1>5, <3>1, <4>2
    <3>3. CASE d <= r.after
      <4>1. rows # {}
        BY <1>5, <2>3, <3>3
      <4>2. Furthest(rows) \in rows /\ d <= Furthest(rows)
        BY <1>4, <1>5, <3>3, <4>1
      <4>3. d \in rows
        <5> HIDE DEF S
        <5> QED BY <1>3, <3>1, <4>2, PageIsPrefix
      <4> QED BY <1>5, <4>3
    <3> QED BY <1>8, <3>2, <3>3
  <2> QED BY <2>1, <2>2, <2>3
<1>9. r.served \subseteq visible /\ r.offered \subseteq visible
  <2> HIDE DEF rows, S, r
  <2> QED BY <1>3, <1>5, <1>7
<1>10. \A d \in r.offered : (r.step = "ended" \/ d <= r.after) =>
               d \in r.served \/ (r.only /\ <<d, r.version>> \in DOMAIN outcome)
  <2> HIDE DEF rows, S, r
  <2> QED BY <1>5, <1>8
<1> HIDE DEF r, rows, S
<1> QED BY <1>1, <1>6, <1>9, <1>10, WalkIInv

LEMMA AgentNextIInv == AgentIInv /\ [AgentNext]_agentVars => AgentIInv'
<1> SUFFICES ASSUME AgentIInv, [AgentNext]_agentVars PROVE AgentIInv'
  OBVIOUS
<1>1. CASE \E d \in Found : Appear(d)
  BY <1>1, AppearIInv
<1>2. CASE \E w \in Walkers, v \in Versions, u \in BOOLEAN : StartWalk(w, v, u)
  BY <1>2, StartWalkIInv
<1>3. CASE \E w \in Walkers, limit \in PageSizes : FetchPage(w, limit)
  BY <1>3, FetchPageIInv
<1>4. CASE \E d \in Found, v \in Versions, c \in Claims : RecordEvidence(d, c, v)
  BY <1>4, RecordEvidenceIInv
<1>5. CASE \E d \in Found, v \in Versions, o \in Outcomes : RecordRun(d, v, o)
  BY <1>5, RecordRunIInv
<1>6. CASE UNCHANGED agentVars
  <2>1. AgentTypeOK'
    BY <1>6 DEF agentVars, AgentIInv, AgentTypeOK
  <2> QED BY <1>6, <2>1, GrowIInv DEF agentVars
<1> QED BY <1>1, <1>2, <1>3, <1>4, <1>5, <1>6 DEF AgentNext

LEMMA AgentInvariance == AgentSpec => []AgentIInv
BY AgentInitIInv, AgentNextIInv, PTL DEF AgentSpec

-----------------------------------------------------------------------------
(* Theorems *)

\* Every reachable state of the Agent's intake is well typed
\* (list_discoveries, record_evidence, record_run).
THEOREM AgentTypeCorrect == AgentSpec => []AgentTypeOK
<1>1. AgentIInv => AgentTypeOK
  BY DEF AgentIInv
<1> QED BY <1>1, AgentInvariance, PTL

\* However many discoveries come in and runs are recorded on the way, a walk
\* that has ended has given out all that was there when it began, or another
\* caller has processed it (list_discoveries: "an offset silently skips rows").
THEOREM WalksAreComplete == AgentSpec => []WalkMissesNothing
<1>1. AgentIInv => WalkMissesNothing
  BY DEF AgentIInv
<1> QED BY <1>1, AgentInvariance, PTL

(***************************************************************************)
(* Proofs about Explanations, for any facts, profiles and requests: a text *)
(* keeps company with the facts it was asked about, in a request's hands   *)
(* and in the cached row, so a hit can only return what fits.              *)
(***************************************************************************)

AskerState ==
    [step : {"read", "calling", "answered", "told"}, profile : Profiles, facts : Facts,
     text : Text \cup {Nothing}]

AskersAreAskers == asker \in [Requests -> {Resting} \cup AskerState]

\* A text may stand beside these facts.
Fits(text, facts) == text.about = facts \/ text.replayed

\* The text a request has been given fits the facts it has read.
AnswersFit ==
    \A r \in Requests : asker[r].step \in {"answered", "told"} =>
        asker[r].text \in Text /\ Fits(asker[r].text, asker[r].facts)

\* A cached text fits the facts its row is pinned to.
RowsFit ==
    \A p \in Profiles : cache[p] # Nothing => Fits(cache[p].text, cache[p].facts)

ExplanationIInv ==
    /\ ExplanationTypeOK
    /\ AskersAreAskers
    /\ AnswersFit
    /\ RowsFit

-----------------------------------------------------------------------------
(* The invariant holds initially and is kept by every step. *)

LEMMA ExplanationInitIInv == ExplanationInit => ExplanationIInv
BY DEF ExplanationInit, ExplanationIInv, ExplanationTypeOK, AskersAreAskers, AnswersFit, RowsFit, Resting

\* One request moves; the cached rows stay.
LEMMA MoveIInv ==
    ASSUME ExplanationIInv, NEW r \in Requests, NEW s \in {Resting} \cup AskerState, Becomes(r, s),
           s.step # "idle" => s.facts \in MatchingFacts[s.profile],
           s.step \in {"answered", "told"} => s.text \in Text /\ Fits(s.text, s.facts),
           UNCHANGED <<fact, explaining, cache>>,
           kept' \in [Profiles -> Text \cup {Nothing}]
    PROVE  ExplanationIInv'
<1>1. asker' \in [Requests -> {Resting} \cup AskerState]
  BY DEF ExplanationIInv, AskersAreAskers, Becomes
<1>2. asker'[r] = s /\ \A q \in Requests : q # r => asker'[q] = asker[q]
  BY DEF ExplanationIInv, AskersAreAskers, Becomes
<1>3. s.step \in {"idle", "read", "calling", "answered", "told"}
  BY DEF Resting, AskerState
<1>4. ExplanationTypeOK'
  <2>1. /\ fact' \in Facts /\ explaining' \in BOOLEAN
        /\ cache' \in [Profiles -> CachedRow \cup {Nothing}]
    BY DEF ExplanationIInv, ExplanationTypeOK
  <2>2. ASSUME NEW q \in Requests
        PROVE  /\ asker'[q].step \in {"idle", "read", "calling", "answered", "told"}
               /\ asker'[q].step # "idle" => asker'[q].facts \in MatchingFacts[asker'[q].profile]
               /\ asker'[q].step = "told" => asker'[q].text \in Text
    BY <1>2, <1>3 DEF ExplanationIInv, ExplanationTypeOK
  <2> QED BY <2>1, <2>2 DEF ExplanationTypeOK
<1>5. AnswersFit'
  BY <1>2 DEF ExplanationIInv, AnswersFit, Fits
<1>6. RowsFit'
  BY DEF ExplanationIInv, RowsFit, Fits
<1> QED BY <1>1, <1>4, <1>5, <1>6 DEF ExplanationIInv, AskersAreAskers

LEMMA RepublishIInv == ASSUME ExplanationIInv, NEW f \in Facts, Republish(f) PROVE ExplanationIInv'
BY DEF ExplanationIInv, ExplanationTypeOK, AskersAreAskers, AnswersFit, RowsFit, Fits, Republish

LEMMA RouterForgetsIInv == ASSUME ExplanationIInv, NEW p \in Profiles, RouterForgets(p) PROVE ExplanationIInv'
BY DEF ExplanationIInv, ExplanationTypeOK, AskersAreAskers, AnswersFit, RowsFit, Fits, RouterForgets

LEMMA ReadCycleIInv ==
    ASSUME ExplanationIInv, NEW r \in Requests, NEW p \in Profiles, ReadCycle(r, p) PROVE ExplanationIInv'
<1>1. CASE fact \in MatchingFacts[p]
  <2>1. Reading(p) \in AskerState /\ Reading(p).step = "read"
        /\ Reading(p).facts = fact /\ Reading(p).profile = p
    BY DEF ExplanationIInv, ExplanationTypeOK, Reading, AskerState
  <2> QED BY <1>1, <2>1, MoveIInv DEF ReadCycle, ExplanationIInv, ExplanationTypeOK
<1>2. CASE fact \notin MatchingFacts[p]
  <2>1. Resting.step = "idle"
    BY DEF Resting
  <2> QED BY <1>2, <2>1, MoveIInv DEF ReadCycle, ExplanationIInv, ExplanationTypeOK
<1> QED BY <1>1, <1>2

\* A request that is under way has read facts its profile matches.
LEMMA AskerUnderWay ==
    ASSUME ExplanationIInv, NEW r \in Requests, asker[r].step \in {"read", "calling", "answered"}
    PROVE  /\ asker[r] \in AskerState
           /\ asker[r].facts \in MatchingFacts[asker[r].profile]
           /\ asker[r].profile \in Profiles /\ asker[r].facts \in Facts
BY DEF ExplanationIInv, AskersAreAskers, ExplanationTypeOK, AskerState, Resting

\* A request goes to its next step, with a text that fits.
LEMMA GoOnIInv ==
    ASSUME ExplanationIInv, NEW r \in Requests, asker[r].step \in {"read", "calling", "answered"},
           NEW next \in {"answered", "told"}, NEW text \in Text, Fits(text, asker[r].facts),
           Becomes(r, [asker[r] EXCEPT !.step = next, !.text = text]),
           UNCHANGED <<fact, explaining, cache>>,
           kept' \in [Profiles -> Text \cup {Nothing}]
    PROVE  ExplanationIInv'
<1> DEFINE s == [asker[r] EXCEPT !.step = next, !.text = text]
<1>1. asker[r] \in AskerState /\ asker[r].facts \in MatchingFacts[asker[r].profile]
  BY AskerUnderWay
<1>2. s \in AskerState
  BY <1>1 DEF AskerState
<1>3. /\ s.step = next /\ s.text = text
      /\ s.facts = asker[r].facts /\ s.profile = asker[r].profile
  BY <1>1 DEF AskerState
<1>4. Becomes(r, s)
  OBVIOUS
<1> HIDE DEF s
<1> QED BY <1>1, <1>2, <1>3, <1>4, MoveIInv

\* A request is over without a text.
LEMMA RestIInv ==
    ASSUME ExplanationIInv, NEW r \in Requests, Becomes(r, Resting), UNCHANGED <<fact, explaining, cache>>,
           kept' \in [Profiles -> Text \cup {Nothing}]
    PROVE  ExplanationIInv'
<1>1. Resting.step = "idle"
  BY DEF Resting
<1> QED BY <1>1, MoveIInv

LEMMA LookUpIInv == ASSUME ExplanationIInv, NEW r \in Requests, LookUp(r) PROVE ExplanationIInv'
<1> DEFINE line == cache[asker[r].profile]
<1>1. /\ asker[r].step = "read"
      /\ UNCHANGED <<fact, explaining, cache>>
      /\ kept' \in [Profiles -> Text \cup {Nothing}]
  BY DEF LookUp, ExplanationIInv, ExplanationTypeOK
<1>2. asker[r] \in AskerState /\ asker[r].profile \in Profiles
      /\ asker[r].facts \in MatchingFacts[asker[r].profile]
  BY <1>1, AskerUnderWay
<1>3. CASE IsHit(line, asker[r].facts)
  <2>1. line # Nothing /\ line.facts = asker[r].facts
    BY <1>3 DEF IsHit
  <2>2. line \in CachedRow /\ Fits(line.text, line.facts)
    BY <1>2, <2>1 DEF ExplanationIInv, ExplanationTypeOK, RowsFit
  <2>3. line.text \in Text /\ Fits(line.text, asker[r].facts)
    BY <2>1, <2>2 DEF CachedRow
  <2>4. Becomes(r, [asker[r] EXCEPT !.step = "told", !.text = line.text])
    BY <1>3 DEF LookUp, Told
  <2> HIDE DEF line
  <2> QED BY <1>1, <2>3, <2>4, GoOnIInv
<1>4. CASE ~IsHit(line, asker[r].facts) /\ explaining
  <2> DEFINE s == [asker[r] EXCEPT !.step = "calling"]
  <2>1. s \in AskerState /\ s.step = "calling"
        /\ s.facts = asker[r].facts /\ s.profile = asker[r].profile
    BY <1>2 DEF AskerState
  <2>2. Becomes(r, s)
    BY <1>4 DEF LookUp
  <2> HIDE DEF s
  <2> QED BY <1>1, <1>2, <2>1, <2>2, MoveIInv
<1>5. CASE ~IsHit(line, asker[r].facts) /\ ~explaining
  BY <1>1, <1>5, RestIInv DEF LookUp
<1> QED BY <1>3, <1>4, <1>5 DEF ExplanationIInv, ExplanationTypeOK

LEMMA RouterCompletesIInv ==
    ASSUME ExplanationIInv, NEW r \in Requests, RouterCompletes(r) PROVE ExplanationIInv'
<1>1. asker[r].step = "calling" /\ UNCHANGED <<fact, explaining, cache>>
  BY DEF RouterCompletes
<1>2. asker[r].profile \in Profiles /\ asker[r].facts \in Facts
  BY <1>1, AskerUnderWay
<1>3. AnswerTo(r) \in Text /\ Fits(AnswerTo(r), asker[r].facts)
  <2>1. CASE kept[asker[r].profile] = Nothing
    BY <1>2, <2>1 DEF AnswerTo, Text, Fits
  <2>2. CASE kept[asker[r].profile] # Nothing
    <3>1. kept[asker[r].profile] \in Text
      BY <1>2, <2>2 DEF ExplanationIInv, ExplanationTypeOK
    <3> QED BY <2>2, <3>1 DEF AnswerTo, Text, Fits
  <2> QED BY <2>1, <2>2
<1>4. kept' \in [Profiles -> Text \cup {Nothing}]
  <2>1. [AnswerTo(r) EXCEPT !.replayed = FALSE] \in Text
    BY <1>3 DEF Text
  <2> QED BY <2>1 DEF RouterCompletes, ExplanationIInv, ExplanationTypeOK
<1>5. \/ Becomes(r, [asker[r] EXCEPT !.step = "answered", !.text = AnswerTo(r)])
      \/ Becomes(r, Resting)
  BY DEF RouterCompletes
<1> QED BY <1>1, <1>3, <1>4, <1>5, GoOnIInv, RestIInv

\* What is stored is pinned to the facts it was asked about.
LEMMA StoreAnswerIInv == ASSUME ExplanationIInv, NEW r \in Requests, StoreAnswer(r) PROVE ExplanationIInv'
<1> DEFINE s == [asker[r] EXCEPT !.step = "told", !.text = asker[r].text]
           p == asker[r].profile
<1>1. asker[r].step = "answered" /\ UNCHANGED <<fact, explaining, kept>>
      /\ cache' = [cache EXCEPT ![p] = StoredRow(r)]
      /\ asker' = [asker EXCEPT ![r] = s]
  BY DEF StoreAnswer, Told, Becomes
<1>2. /\ asker[r] \in AskerState /\ p \in Profiles /\ asker[r].facts \in Facts
      /\ asker[r].facts \in MatchingFacts[p]
      /\ asker[r].text \in Text /\ Fits(asker[r].text, asker[r].facts)
  BY <1>1, AskerUnderWay DEF ExplanationIInv, AnswersFit
<1>3. /\ s \in AskerState /\ s.step = "told" /\ s.text = asker[r].text
      /\ s.facts = asker[r].facts /\ s.profile = p
  BY <1>2 DEF AskerState
<1>4. StoredRow(r) \in CachedRow /\ Fits(StoredRow(r).text, StoredRow(r).facts)
  BY <1>2 DEF StoredRow, CachedRow
<1> HIDE DEF s
<1>5. /\ asker' \in [Requests -> {Resting} \cup AskerState]
      /\ asker'[r] = s /\ \A q \in Requests : q # r => asker'[q] = asker[q]
  BY <1>1, <1>3 DEF ExplanationIInv, AskersAreAskers
<1>6. /\ cache' \in [Profiles -> CachedRow \cup {Nothing}]
      /\ cache'[p] = StoredRow(r) /\ \A q \in Profiles : q # p => cache'[q] = cache[q]
  BY <1>1, <1>2, <1>4 DEF ExplanationIInv, ExplanationTypeOK
<1>7. ExplanationTypeOK'
  <2>1. fact' \in Facts /\ explaining' \in BOOLEAN /\ kept' \in [Profiles -> Text \cup {Nothing}]
    BY <1>1 DEF ExplanationIInv, ExplanationTypeOK
  <2>2. ASSUME NEW q \in Requests
        PROVE  /\ asker'[q].step \in {"idle", "read", "calling", "answered", "told"}
               /\ asker'[q].step # "idle" => asker'[q].facts \in MatchingFacts[asker'[q].profile]
               /\ asker'[q].step = "told" => asker'[q].text \in Text
    BY <1>2, <1>3, <1>5 DEF ExplanationIInv, ExplanationTypeOK
  <2> QED BY <1>6, <2>1, <2>2 DEF ExplanationTypeOK
<1>8. AnswersFit'
  BY <1>2, <1>3, <1>5 DEF ExplanationIInv, AnswersFit, Fits
<1>9. RowsFit'
  BY <1>4, <1>6 DEF ExplanationIInv, RowsFit, Fits
<1> QED BY <1>5, <1>7, <1>8, <1>9 DEF ExplanationIInv, AskersAreAskers

LEMMA ExplanationNextIInv == ExplanationIInv /\ [ExplanationNext]_explanationVars => ExplanationIInv'
<1> SUFFICES ASSUME ExplanationIInv, [ExplanationNext]_explanationVars PROVE ExplanationIInv'
  OBVIOUS
<1>1. ASSUME NEW f \in Facts, Republish(f) PROVE ExplanationIInv'
  BY <1>1, RepublishIInv
<1>2. ASSUME NEW p \in Profiles, RouterForgets(p) PROVE ExplanationIInv'
  BY <1>2, RouterForgetsIInv
<1>3. ASSUME NEW r \in Requests, NEW p \in Profiles, ReadCycle(r, p) PROVE ExplanationIInv'
  BY <1>3, ReadCycleIInv
<1>4. ASSUME NEW r \in Requests, LookUp(r) \/ RouterCompletes(r) \/ StoreAnswer(r) PROVE ExplanationIInv'
  BY <1>4, LookUpIInv, RouterCompletesIInv, StoreAnswerIInv
<1>5. ASSUME NEW r \in Requests, RouterDeclines(r) \/ StoreFails(r) PROVE ExplanationIInv'
  BY <1>5, RestIInv DEF RouterDeclines, StoreFails, ExplanationIInv, ExplanationTypeOK
<1>6. CASE UNCHANGED explanationVars
  BY <1>6 DEF explanationVars, ExplanationIInv, ExplanationTypeOK, AskersAreAskers, AnswersFit, RowsFit, Fits
<1> QED BY <1>1, <1>2, <1>3, <1>4, <1>5, <1>6 DEF ExplanationNext

LEMMA ExplanationInvariance == ExplanationSpec => []ExplanationIInv
BY ExplanationInitIInv, ExplanationNextIInv, PTL DEF ExplanationSpec

-----------------------------------------------------------------------------
(* Theorems *)

\* Every reachable state of the explanation cache is well typed, and no
\* request explains facts that its profile does not match
\* (scholarship_detail_with_explanation).
THEOREM ExplanationTypeCorrect == ExplanationSpec => []ExplanationTypeOK
<1>1. ExplanationIInv => ExplanationTypeOK
  BY DEF ExplanationIInv
<1> QED BY <1>1, ExplanationInvariance, PTL

\* However often a cycle is republished between a request's steps, the text
\* shown beside its facts is about those facts or an answer the Router gave
\* again (MatchExplanation: "a facts change is a cache miss, not a stale hit").
THEOREM CacheAddsNoStaleness == ExplanationSpec => []ExplanationFits
<1>1. ExplanationIInv => ExplanationFits
  BY DEF ExplanationIInv, AnswersFit, Fits, ExplanationFits
<1> QED BY <1>1, ExplanationInvariance, PTL
=============================================================================

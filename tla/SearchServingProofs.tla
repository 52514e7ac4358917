------------------------ MODULE SearchServingProofs ------------------------
(***************************************************************************)
(* Proofs about SearchServing, for any catalogue, visitors, page sizes and *)
(* requests at once: first the ranking, then what is kept of a search.     *)
(***************************************************************************)
EXTENDS SearchServing, TLAPS, FiniteSetTheorems

(***************************************************************************)
(* The ranking.  Counting the members before each one numbers a finite set *)
(* that is strictly ordered, without a gap.                                *)
(***************************************************************************)

\* B[c] is what comes before c.
StrictlyOrders(B, R) ==
    /\ B \in [R -> SUBSET R]
    /\ \A c \in R : c \notin B[c]
    /\ \A c, d \in R : d \in B[c] => B[d] \subseteq B[c]
    /\ \A c, d \in R : c # d => c \in B[d] \/ d \in B[c]

LEMMA RanksGrow ==
    ASSUME NEW R, IsFiniteSet(R), NEW B, StrictlyOrders(B, R), NEW c \in R, NEW d \in B[c]
    PROVE  Cardinality(B[d]) < Cardinality(B[c])
<1>1. B[c] \in SUBSET R /\ B[d] \in SUBSET R /\ B[d] \in SUBSET B[c] /\ d \notin B[d]
  BY DEF StrictlyOrders
<1>2. IsFiniteSet(B[c]) /\ IsFiniteSet(B[d])
  BY <1>1, FS_Subset
<1>3. /\ Cardinality(B[c]) \in Nat /\ Cardinality(B[d]) \in Nat
      /\ Cardinality(B[d]) <= Cardinality(B[c])
      /\ Cardinality(B[c]) = Cardinality(B[d]) => B[c] = B[d]
  BY <1>1, <1>2, FS_Subset, FS_CardinalityType
<1>4. QED  BY <1>1, <1>3

LEMMA RanksOnto ==
    ASSUME NEW R, IsFiniteSet(R), NEW B, StrictlyOrders(B, R),
           NEW k \in 0..(Cardinality(R) - 1)
    PROVE  \E c \in R : Cardinality(B[c]) = k
<1> DEFINE T == 0..(Cardinality(R) - 1)
           rank == [c \in R |-> Cardinality(B[c])]
<1>1. Cardinality(R) \in Nat
  BY FS_CardinalityType
<1>2. IsFiniteSet(T) /\ Cardinality(T) = Cardinality(R)
  <2>1. 0 \in Int /\ Cardinality(R) - 1 \in Int
    BY <1>1
  <2>2. IsFiniteSet(T) /\ Cardinality(T) = IF 0 > Cardinality(R) - 1 THEN 0 ELSE Cardinality(R) - 1 - 0 + 1
    BY <2>1, FS_Interval
  <2>3. QED  BY <1>1, <2>2
<1>3. \A c \in R : Cardinality(B[c]) \in T
  <2>1. SUFFICES ASSUME NEW c \in R PROVE Cardinality(B[c]) \in T
    OBVIOUS
  <2>2. B[c] \in SUBSET R /\ B[c] # R
    BY DEF StrictlyOrders
  <2>3. /\ Cardinality(B[c]) <= Cardinality(R) /\ IsFiniteSet(B[c])
        /\ Cardinality(R) = Cardinality(B[c]) => R = B[c]
    BY <2>2, FS_Subset
  <2>4. Cardinality(B[c]) \in Nat
    BY <2>3, FS_CardinalityType
  <2>5. QED  BY <1>1, <2>2, <2>3, <2>4
<1>4. rank \in Injection(R, T)
  <2>1. rank \in [R -> T]
    BY <1>3
  <2>2. ASSUME NEW c \in R, NEW d \in R, c # d PROVE rank[c] # rank[d]
    <3>1. Cardinality(B[c]) \in T /\ Cardinality(B[d]) \in T
      BY <1>3
    <3>2. CASE c \in B[d]
      <4>1. Cardinality(B[c]) < Cardinality(B[d])
        BY <3>2, RanksGrow
      <4>2. QED  BY <3>1, <4>1
    <3>3. CASE d \in B[c]
      <4>1. Cardinality(B[d]) < Cardinality(B[c])
        BY <3>3, RanksGrow
      <4>2. QED  BY <3>1, <4>1
    <3>4. QED  BY <2>2, <3>2, <3>3 DEF StrictlyOrders
  <2>3. QED  BY <2>1, <2>2 DEF Injection, IsInjective
<1> HIDE DEF rank, T
<1>5. rank \in Surjection(R, T)
  BY <1>2, <1>4, FS_Injection
<1>6. PICK c \in R : rank[c] = k
  BY <1>5 DEF Surjection, T
<1>7. QED
  BY <1>6 DEF rank

-----------------------------------------------------------------------------
(* Sort keys *)

LEMMA SortKeyType ==
    ASSUME row \in [Cycles -> Award], NEW f \in Filters, NEW t \in Nat, NEW c \in Cycles
    PROVE  /\ SortKey(c, f, t) \in Seq(Int) /\ Len(SortKey(c, f, t)) = 5
           /\ SortKey(c, f, t)[5] = c
<1> DEFINE a == row[c]
<1>1. a \in Award /\ c \in Int
  BY ServingAssumption
<1>2. a.deadline \in Int /\ a.month \in Int
  BY <1>1 DEF Award, NoTime
<1>3. StatusRank[Detail(a, t)] \in Int
  BY DEF StatusRank, Detail
<1>4. SortValue(a, t)[1] \in Int /\ SortValue(a, t)[2] \in Int
  <2>1. MonthOf(t) \in Int
    BY ServingAssumption DEF MonthOf
  <2>2. (a.month - MonthOf(t)) % 12 \in Int
    BY <1>2, <2>1
  <2>3. QED  BY <1>2, <2>2 DEF SortValue
<1>5. QED
  BY <1>1, <1>3, <1>4 DEF SortKey

Key == {j \in Seq(Int) : Len(j) = 5}

LEMMA PrecedesKeys ==
    ASSUME NEW j \in Key, NEW k \in Key
    PROVE  Precedes(j, k) <=>
            \/ j[1] < k[1]
            \/ j[1] = k[1] /\ j[2] < k[2]
            \/ j[1] = k[1] /\ j[2] = k[2] /\ j[3] < k[3]
            \/ j[1] = k[1] /\ j[2] = k[2] /\ j[3] = k[3] /\ j[4] < k[4]
            \/ j[1] = k[1] /\ j[2] = k[2] /\ j[3] = k[3] /\ j[4] = k[4] /\ j[5] < k[5]
<1>1. DOMAIN j = {1, 2, 3, 4, 5}
  BY DEF Key
<1>2. /\ 1..(1 - 1) = {} /\ 1..(2 - 1) = {1} /\ 1..(3 - 1) = {1, 2} /\ 1..(4 - 1) = {1, 2, 3}
      /\ 1..(5 - 1) = {1, 2, 3, 4}
  OBVIOUS
<1>3. QED
  BY <1>1, <1>2, Zenon DEF Precedes

LEMMA PrecedesOrders ==
    ASSUME NEW i \in Key, NEW j \in Key, NEW k \in Key
    PROVE  /\ ~Precedes(j, j)
           /\ Precedes(i, j) /\ Precedes(j, k) => Precedes(i, k)
           /\ i[5] # j[5] => Precedes(i, j) \/ Precedes(j, i)
<1>1. \A x \in Key : x[1] \in Int /\ x[2] \in Int /\ x[3] \in Int /\ x[4] \in Int /\ x[5] \in Int
  <2>1. ASSUME NEW x \in Seq(Int), Len(x) = 5, NEW n \in 1..5 PROVE x[n] \in Int
    <3>1. n \in 1..Len(x)
      BY <2>1
    <3>2. QED  BY <3>1
  <2>2. QED  BY <2>1 DEF Key
<1>2. ~Precedes(j, j)
  BY <1>1, PrecedesKeys
<1>3. Precedes(i, j) /\ Precedes(j, k) => Precedes(i, k)
  BY <1>1, PrecedesKeys
<1>4. i[5] # j[5] => Precedes(i, j) \/ Precedes(j, i)
  BY <1>1, PrecedesKeys
<1>5. QED
  BY <1>2, <1>3, <1>4

\* The results in front of c.
Before(c, f, t) == {d \in Results(f, t) : Precedes(SortKey(d, f, t), SortKey(c, f, t))}

LEMMA ResultsOrdered ==
    ASSUME row \in [Cycles -> Award], NEW f \in Filters, NEW t \in Nat
    PROVE  /\ IsFiniteSet(Results(f, t)) /\ Results(f, t) \subseteq Cycles
           /\ StrictlyOrders([c \in Results(f, t) |-> Before(c, f, t)], Results(f, t))
<1> DEFINE R == Results(f, t)
           K(c) == SortKey(c, f, t)
<1>1. R \subseteq Cycles
  BY DEF Results, Scanned
<1>2. IsFiniteSet(R)
  BY <1>1, FS_Subset, ServingAssumption
<1>3. \A c \in R : K(c) \in Key /\ K(c)[5] = c
  BY <1>1, SortKeyType DEF Key
<1> HIDE DEF R, K
<1>4. \A c, d, e \in R : /\ ~Precedes(K(c), K(c))
                         /\ Precedes(K(c), K(d)) /\ Precedes(K(d), K(e)) => Precedes(K(c), K(e))
                         /\ c # d => Precedes(K(c), K(d)) \/ Precedes(K(d), K(c))
  BY <1>3, PrecedesOrders
<1>5. \A c \in R : Before(c, f, t) = {d \in R : Precedes(K(d), K(c))}
  BY DEF Before, R, K
<1>6. StrictlyOrders([c \in R |-> Before(c, f, t)], R)
  <2> DEFINE B == [c \in R |-> Before(c, f, t)]
  <2>1. \A c \in R : B[c] = {d \in R : Precedes(K(d), K(c))}
    BY <1>5
  <2>2. B \in [R -> SUBSET R]
    BY <1>5
  <2> HIDE DEF B
  <2>3. StrictlyOrders(B, R)
    BY <1>4, <2>1, <2>2 DEF StrictlyOrders
  <2>4. QED  BY <2>3 DEF B
<1>7. QED
  BY <1>1, <1>2, <1>6 DEF R

\* The list a search pages through is its results, each of them once and in
\* order (search: matched, sorted by _result_sort_value).
THEOREM MatchedRanks ==
    ASSUME row \in [Cycles -> Award], NEW f \in Filters, NEW t \in Nat
    PROVE  /\ Matched(f, t) \in Seq(Results(f, t))
           /\ Len(Matched(f, t)) = Cardinality(Results(f, t))
           /\ \A i \in 1..Len(Matched(f, t)) : Cardinality(Before(Matched(f, t)[i], f, t)) = i - 1
           /\ \A c \in Results(f, t) : \E i \in 1..Len(Matched(f, t)) : Matched(f, t)[i] = c
           /\ \A i, j \in 1..Len(Matched(f, t)) : i < j =>
                Precedes(SortKey(Matched(f, t)[i], f, t), SortKey(Matched(f, t)[j], f, t))
<1> DEFINE R == Results(f, t)
           B == [c \in R |-> Before(c, f, t)]
           m == Matched(f, t)
           n == Cardinality(R)
<1>1. IsFiniteSet(R) /\ R \subseteq Cycles /\ StrictlyOrders(B, R)
  BY ResultsOrdered
<1>2. n \in Nat
  BY <1>1, FS_CardinalityType
<1>3. m = [i \in 1..n |-> CHOOSE c \in R : Cardinality(Before(c, f, t)) = i - 1]
  BY DEF Matched, Before
<1>8. \A c \in R : B[c] = Before(c, f, t)
  OBVIOUS
<1> HIDE DEF m, B, R, n
<1>4. ASSUME NEW i \in 1..n PROVE m[i] \in R /\ Cardinality(B[m[i]]) = i - 1
  <2>1. i - 1 \in 0..(Cardinality(R) - 1)
    BY <1>2 DEF n
  <2>2. \E c \in R : Cardinality(B[c]) = i - 1
    BY <1>1, <2>1, RanksOnto
  <2>3. \E c \in R : Cardinality(Before(c, f, t)) = i - 1
    BY <1>8, <2>2
  <2>4. m[i] = CHOOSE c \in R : Cardinality(Before(c, f, t)) = i - 1
    BY <1>3
  <2>5. m[i] \in R /\ Cardinality(Before(m[i], f, t)) = i - 1
    BY <2>3, <2>4
  <2>6. QED  BY <1>8, <2>5
<1>5. m \in Seq(R) /\ Len(m) = n
  BY <1>2, <1>3, <1>4
<1>6. ASSUME NEW c \in R PROVE \E i \in 1..n : m[i] = c
  <2>1. Cardinality(B[c]) \in 0..(n - 1)
    <3>1. B[c] \in SUBSET R /\ B[c] # R
      BY <1>1 DEF StrictlyOrders
    <3>2. /\ Cardinality(B[c]) <= n /\ IsFiniteSet(B[c]) /\ Cardinality(B[c]) # n
      BY <1>1, <3>1, FS_Subset DEF n
    <3>3. Cardinality(B[c]) \in Nat
      BY <3>2, FS_CardinalityType
    <3>4. QED  BY <1>2, <3>2, <3>3
  <2>2. PICK i \in 1..n : i - 1 = Cardinality(B[c])
    BY <1>2, <2>1
  <2>3. m[i] \in R /\ Cardinality(B[m[i]]) = Cardinality(B[c])
    BY <1>4, <2>2
  <2>4. m[i] \notin B[c] /\ c \notin B[m[i]]
    <3>1. Cardinality(B[c]) \in Int /\ Cardinality(B[m[i]]) \in Int
      BY <2>1, <2>3
    <3>2. QED  BY <1>1, <2>3, <3>1, RanksGrow
  <2>5. QED  BY <1>1, <2>3, <2>4 DEF StrictlyOrders
<1>7. ASSUME NEW i \in 1..n, NEW j \in 1..n, i < j
      PROVE  m[i] \in B[m[j]]
  <2>1. m[i] \in R /\ m[j] \in R /\ Cardinality(B[m[i]]) = i - 1 /\ Cardinality(B[m[j]]) = j - 1
    BY <1>4
  <2>2. m[i] # m[j] /\ m[j] \notin B[m[i]]
    <3>1. m[j] \in B[m[i]] => j - 1 < i - 1
      BY <1>1, <2>1, RanksGrow
    <3>2. i \in Int /\ j \in Int
      OBVIOUS
    <3>3. QED  BY <1>7, <2>1, <3>1, <3>2
  <2>3. QED  BY <1>1, <2>1, <2>2 DEF StrictlyOrders
<1>9. QED
  <2>1. \A i, j \in 1..n : i < j => Precedes(SortKey(m[i], f, t), SortKey(m[j], f, t))
    <3>1. \A c, d \in R : c \in B[d] => Precedes(SortKey(c, f, t), SortKey(d, f, t))
      BY <1>8 DEF Before
    <3>2. QED  BY <1>4, <1>7, <3>1
  <2>2. \A i \in 1..n : Cardinality(Before(m[i], f, t)) = i - 1
    BY <1>4, <1>8
  <2>3. QED
    BY <1>5, <1>6, <2>1, <2>2 DEF m, R, n

-----------------------------------------------------------------------------
(***************************************************************************)
(* What is kept of a search.                                               *)
(*                                                                         *)
(* A search id is handed out once, so the request that makes page one is   *)
(* alone with it; a cursor stands at a positive multiple of its page size, *)
(* so the page it asks for is never page one; and every page, cursor and   *)
(* request of a search has the page size the search began with.            *)
(***************************************************************************)

CursorRecord == [offset : Nat, filter : Filters, search : Searches, limit : Limits]
SearchRequest == [step : {"read", "answered"}, at : Searches \X (Nat \ {0}),
                  loaded : PageRecord \cup {NoPage}, new : PageRecord,
                  cursors : SUBSET CursorRecord, mints : Nat \cup {NoTime}]
JoinRequest == [step : {"calling", "joined"}, key : Keys, search : Searches,
                insert : BOOLEAN]

\* v has a search under way.
Searching(v) == request[v].step \in {"read", "answered"}
\* v has a join request under way.
Joining(v) == request[v].step \in {"calling", "joined"}

Types ==
    /\ row \in [Cycles -> Award]
    /\ now \in 0..MaxTime
    /\ session \in [1..MaxSessions -> Nat \cup {NoTime}]
    /\ minted \in 0..MaxSessions
    /\ cookie \in [Visitors -> 0..MaxSessions]
    /\ issued \subseteq CursorRecord
    /\ started \in 0..Cardinality(Searches)
    /\ DOMAIN pages = Searches
    /\ \A s \in Searches : /\ DOMAIN pages[s] \subseteq Nat \ {0}
                           /\ pages[s] \in [DOMAIN pages[s] -> PageRecord]
    /\ events \subseteq Searches
    /\ sent \in [Searches -> PageRecord \cup {NoPage}]
    /\ join \in [Keys -> {"none", "created", "failed"}]
    /\ core \in [Keys -> 0..Cardinality(Searches)]
    /\ request \in [Visitors -> {Idle} \cup SearchRequest \cup JoinRequest]

\* Nothing names a search that has not begun.
Numbered ==
    /\ \A s \in Searches : DOMAIN pages[s] # {} \/ sent[s] # NoPage => s <= started
    /\ \A c \in issued : c.search <= started
    /\ \A v \in Visitors : Searching(v) => request[v].at[1] <= started

\* r makes page one, which nobody has made before, and has shown it to nobody
\* or answered it.
Opens(r) ==
    /\ r.loaded = NoPage
    /\ 1 \notin DOMAIN pages[r.at[1]]
    /\ sent[r.at[1]] = IF r.step = "read" THEN NoPage ELSE r.new

FirstPages ==
    /\ \A s \in Searches : 1 \in DOMAIN pages[s] => sent[s] = pages[s][1]
    /\ \A v \in Visitors : Searching(v) /\ request[v].at[2] = 1 => Opens(request[v])
    /\ \A v, w \in Visitors :
        /\ Searching(v) /\ Searching(w) /\ request[v].at = request[w].at
        /\ request[v].at[2] = 1
        => v = w

\* A row that was loaded is still there.
RowsStay ==
    \A v \in Visitors : Searching(v) /\ request[v].loaded # NoPage =>
        request[v].at[2] \in DOMAIN pages[request[v].at[1]]

\* The offset of c is that of a page after the first.
Onward(c) == \E k \in Nat \ {0} : c.offset = k * c.limit

\* p is page n of its own matches.
PageOf(p, n) ==
    /\ p.data = Slice(p.matched, (n - 1) * p.limit, p.limit)
    /\ p.next <=> n * p.limit < Len(p.matched)

Cut ==
    /\ \A c \in issued : Onward(c)
    /\ \A s \in Searches : \A n \in DOMAIN pages[s] : PageOf(pages[s][n], n)
    /\ \A v \in Visitors : Searching(v) =>
        /\ PageOf(request[v].new, request[v].at[2])
        /\ \A c \in request[v].cursors : /\ Onward(c)
                                         /\ c.search = request[v].at[1]
                                         /\ c.limit = request[v].new.limit

\* Search s is paged by l.
PagedBy(s, l) ==
    /\ \A n \in DOMAIN pages[s] : pages[s][n].limit = l
    /\ \A c \in issued : c.search = s => c.limit = l
    /\ \A v \in Visitors : Searching(v) /\ request[v].at[1] = s => request[v].new.limit = l

OneSize == \A s \in Searches : \E l \in Nat : PagedBy(s, l)

\* What a join request under way rests on.
JoinsBacked ==
    \A v \in Visitors : Joining(v) =>
        /\ DOMAIN pages[request[v].search] # {}
        /\ request[v].step = "joined" => core[request[v].key] # 0

\* Whoever holds a cursor of a search, asks for a later page of it or has
\* answered one of its pages, its first page has been answered before.
Begun ==
    /\ \A c \in issued : sent[c.search] # NoPage
    /\ \A v \in Visitors :
        Searching(v) /\ (request[v].at[2] # 1 \/ request[v].step = "answered")
            => sent[request[v].at[1]] # NoPage

-----------------------------------------------------------------------------
(* Offsets, slices and the shapes of records *)

LEMMA Bounds ==
    /\ MaxSessions \in Nat /\ MaxTime \in Nat /\ SessionTTL \in Nat /\ SearchRetention \in Nat
    /\ Cardinality(Searches) \in Nat /\ Searches = 1..Cardinality(Searches)
    /\ \A l \in Limits : l \in Nat /\ l # 0
<1>1. IsFiniteSet(Searches) /\ Searches = 1..Cardinality(Searches)
  BY ServingAssumption
<1>2. Cardinality(Searches) \in Nat
  BY <1>1, FS_CardinalityType
<1>3. QED
  BY <1>1, <1>2, ServingAssumption

LEMMA SliceType ==
    ASSUME NEW S, NEW m \in Seq(S), NEW offset \in Nat, NEW limit \in Nat
    PROVE  Slice(m, offset, limit) \in Seq(S)
<1> DEFINE last == IF offset + limit < Len(m) THEN offset + limit ELSE Len(m)
<1>1. last \in Nat /\ last <= Len(m) /\ offset + 1 >= 1
  OBVIOUS
<1>2. SubSeq(m, offset + 1, last) \in Seq(S)
  BY <1>1
<1>3. QED  BY <1>2 DEF Slice

LEMMA PageAfter ==
    ASSUME NEW k \in Nat, NEW l \in Nat \ {0}
    PROVE  /\ PageNumber(k * l, l) = k + 1
           /\ k * l \in Nat /\ ((k + 1) - 1) * l = k * l
           /\ NextOffset(k * l, l) = (k + 1) * l
<1>1. k * l \in Nat /\ (k + 1) * l = k * l + l
  OBVIOUS
<1>2. (k * l) \div l = k
  OBVIOUS
<1>3. QED
  BY <1>1, <1>2 DEF PageNumber, NextOffset

LEMMA RequestKinds ==
    ASSUME Types, NEW v \in Visitors
    PROVE  /\ request[v].step \in {"idle", "read", "answered", "calling", "joined"}
           /\ Searching(v) => request[v] \in SearchRequest
           /\ Joining(v) => request[v] \in JoinRequest
<1>1. request[v] \in {Idle} \cup SearchRequest \cup JoinRequest
  BY DEF Types
<1>2. CASE request[v] = Idle
  BY <1>2 DEF Idle, Searching, Joining
<1>3. CASE request[v] \in SearchRequest
  BY <1>3 DEF SearchRequest, Searching, Joining
<1>4. CASE request[v] \in JoinRequest
  BY <1>4 DEF JoinRequest, Searching, Joining
<1>5. QED
  BY <1>1, <1>2, <1>3, <1>4

LEMMA PageRowType ==
    ASSUME Types, NEW s \in Searches, NEW n
    PROVE  /\ PageRow(s, n) \in PageRecord \cup {NoPage}
           /\ NoPage \notin PageRecord
           /\ PageRow(s, n) # NoPage <=> n \in DOMAIN pages[s]
<1>1. NoPage \notin PageRecord
  <2>1. \A p \in PageRecord : p.session # 0
    BY Bounds DEF PageRecord
  <2>2. QED  BY <2>1 DEF NoPage
<1>2. \A i \in DOMAIN pages[s] : pages[s][i] \in PageRecord
  BY DEF Types
<1>3. QED
  BY <1>1, <1>2 DEF PageRow

-----------------------------------------------------------------------------
(* What a search request reads *)

\* v, at rest, takes up r: page one of a search nobody has begun, or a later
\* page, by a cursor that was handed out.
Reads(v, r) ==
    /\ request[v] = Idle
    /\ request' = [request EXCEPT ![v] = r]
    /\ r \in SearchRequest /\ r.step = "read"
    /\ r.loaded = PageRow(r.at[1], r.at[2])
    /\ PageOf(r.new, r.at[2])
    /\ \A c \in r.cursors : Onward(c) /\ c.search = r.at[1] /\ c.limit = r.new.limit
    /\ \/ /\ started < Cardinality(Searches) /\ started' = started + 1
          /\ r.at = <<started + 1, 1>>
       \/ /\ started' = started /\ r.at[2] # 1
          /\ \E c \in issued : c.search = r.at[1] /\ c.limit = r.new.limit

LEMMA SessionType ==
    ASSUME Types, NEW v \in Visitors, Mint(v)
    PROVE  SessionFor(v) \in 1..MaxSessions /\ minted' \in 0..MaxSessions
<1>1. cookie[v] \in 0..MaxSessions /\ minted \in 0..MaxSessions /\ MaxSessions \in Nat
  BY Bounds DEF Types
<1>2. QED
  BY <1>1 DEF ExistingSession, SessionFor, Mint

LEMMA ReadNew ==
    ASSUME Types, NEW f \in Filters, NEW limit \in Limits, NEW k \in Nat, NEW id \in 1..MaxSessions
    PROVE  LET m == Matched(f, now)
               new == [session |-> id, filter |-> f, limit |-> limit,
                       data |-> Slice(m, k * limit, limit),
                       next |-> HasNextPage(m, k * limit, limit),
                       expires |-> now + SearchRetention, matched |-> m]
           IN  new \in PageRecord /\ PageOf(new, k + 1)
<1> DEFINE m == Matched(f, now)
<1>1. limit \in Nat \ {0} /\ now \in Nat /\ SearchRetention \in Nat
  BY Bounds DEF Types
<1>2. m \in Seq(Cycles)
  <2>1. m \in Seq(Results(f, now)) /\ Results(f, now) \subseteq Cycles
    BY <1>1, MatchedRanks, ResultsOrdered DEF Types
  <2>2. QED  BY <2>1
<1> HIDE DEF m
<1>3. k * limit \in Nat /\ ((k + 1) - 1) * limit = k * limit /\ (k + 1) * limit = k * limit + limit
  BY <1>1
<1>4. Slice(m, k * limit, limit) \in Seq(Cycles)
  BY <1>1, <1>2, <1>3, SliceType
<1>5. HasNextPage(m, k * limit, limit) = ((k + 1) * limit < Len(m))
  BY <1>3 DEF HasNextPage
<1>6. HasNextPage(m, k * limit, limit) \in BOOLEAN
  BY DEF HasNextPage
<1> DEFINE new == [session |-> id, filter |-> f, limit |-> limit,
                   data |-> Slice(m, k * limit, limit), next |-> HasNextPage(m, k * limit, limit),
                   expires |-> now + SearchRetention, matched |-> m]
<1>7. new \in PageRecord
  BY <1>1, <1>2, <1>4, <1>6 DEF PageRecord
<1>8. PageOf(new, k + 1)
  BY <1>3, <1>5 DEF PageOf
<1>9. QED
  BY <1>7, <1>8 DEF m

LEMMA CursorsGoOn ==
    ASSUME NEW k \in Nat, NEW limit \in Limits, NEW f \in Filters, NEW s \in Searches, NEW m
    PROVE  \A c \in NextCursor(m, k * limit, f, s, limit) :
                /\ c \in CursorRecord /\ Onward(c)
                /\ c.search = s /\ c.limit = limit
<1>1. SUFFICES ASSUME NEW c \in NextCursor(m, k * limit, f, s, limit)
               PROVE  /\ c \in CursorRecord /\ Onward(c)
                      /\ c.search = s /\ c.limit = limit
  OBVIOUS
<1>2. limit \in Nat \ {0}
  BY Bounds
<1>3. c = Cursor((k + 1) * limit, f, s, limit)
  BY <1>2, PageAfter DEF NextCursor
<1>4. (k + 1) * limit \in Nat /\ k + 1 \in Nat \ {0}
  BY <1>2
<1>5. c.offset = (k + 1) * c.limit /\ c.search = s /\ c.limit = limit
  BY <1>3 DEF Cursor
<1>6. c \in CursorRecord
  BY <1>3, <1>4 DEF Cursor, CursorRecord
<1>7. QED
  BY <1>4, <1>5, <1>6 DEF Onward

LEMMA ReadFacts ==
    ASSUME Types, Numbered, Cut, NEW v \in Visitors, NEW f \in Filters, NEW limit \in Limits,
           NEW cur \in issued \cup {NoCursor}, SearchRead(v, f, limit, cur)
    PROVE  \E r : Reads(v, r)
<1> DEFINE s == IF cur = NoCursor THEN started + 1 ELSE cur.search
           n == PageNumber(cur.offset, limit)
           m == Matched(f, now)
           new == [session |-> SessionFor(v), filter |-> f, limit |-> limit,
                   data |-> Slice(m, cur.offset, limit),
                   next |-> HasNextPage(m, cur.offset, limit),
                   expires |-> now + SearchRetention, matched |-> m]
           mints == IF ExistingSession(v) = 0 THEN now + SessionTTL ELSE NoTime
           r == [step |-> "read", at |-> <<s, n>>, loaded |-> PageRow(s, n), new |-> new,
                 cursors |-> NextCursor(m, cur.offset, f, s, limit), mints |-> mints]
<1>1. /\ request[v] = Idle /\ request' = [request EXCEPT ![v] = r]
      /\ cur = NoCursor => started < Cardinality(Searches) /\ started' = started + 1
      /\ cur # NoCursor => Redeemable(cur, f, limit) /\ started' = started
      /\ Mint(v)
  BY DEF SearchRead, Step
<1>2. limit \in Nat \ {0} /\ now \in Nat /\ SessionTTL \in Nat /\ started \in Nat
  BY Bounds DEF Types
<1>3. PICK k \in Nat : /\ cur.offset = k * limit /\ s \in Searches
                       /\ k = 0 <=> cur = NoCursor
                       /\ cur # NoCursor => cur \in issued /\ cur.search = s /\ cur.limit = limit
  <2>1. CASE cur = NoCursor
    <3>1. cur.offset = 0 /\ 0 * limit = 0
      BY <1>2, <2>1 DEF NoCursor, Cursor
    <3>2. s \in Searches
      BY <1>1, <1>2, <2>1, Bounds
    <3>3. QED  BY <2>1, <3>1, <3>2
  <2>2. CASE cur # NoCursor
    <3>1. cur \in issued /\ cur \in CursorRecord /\ cur.limit = limit
      BY <1>1, <2>2 DEF Types, Redeemable
    <3>2. PICK k \in Nat \ {0} : cur.offset = k * cur.limit
      BY <3>1 DEF Cut, Onward
    <3>3. s \in Searches /\ cur.search = s
      BY <2>2, <3>1 DEF CursorRecord
    <3>4. QED  BY <2>2, <3>1, <3>2, <3>3
  <2>3. QED  BY <2>1, <2>2
<1>4. n = k + 1
  BY <1>2, <1>3, PageAfter
<1>5. new \in PageRecord /\ PageOf(new, n)
  <2>1. SessionFor(v) \in 1..MaxSessions
    BY <1>1, SessionType
  <2>2. QED  BY <1>3, <1>4, <2>1, ReadNew
<1>6. \A c \in NextCursor(m, cur.offset, f, s, limit) :
            c \in CursorRecord /\ Onward(c) /\ c.search = s /\ c.limit = limit
  BY <1>3, CursorsGoOn
<1>7. mints \in Nat \cup {NoTime}
  BY <1>2
<1>8. PageRow(s, n) \in PageRecord \cup {NoPage}
  BY <1>3, PageRowType
<1>9. new.limit = limit
  OBVIOUS
<1>10. \/ started < Cardinality(Searches) /\ started' = started + 1 /\ <<s, n>> = <<started + 1, 1>>
       \/ started' = started /\ n # 1 /\ \E c \in issued : c.search = s /\ c.limit = limit
  BY <1>1, <1>3, <1>4
<1> DEFINE C == NextCursor(m, cur.offset, f, s, limit)
<1> HIDE DEF s, n, m, new, mints, C
<1>11. r \in SearchRequest
  BY <1>3, <1>4, <1>5, <1>6, <1>7, <1>8 DEF SearchRequest, C
<1>12. r.step = "read" /\ r.at = <<s, n>> /\ r.loaded = PageRow(s, n) /\ r.new = new /\ r.cursors = C
  BY DEF C
<1> HIDE DEF r
<1>13. r.at[1] = s /\ r.at[2] = n
  BY <1>12
<1>14. QED
  BY <1>1, <1>5, <1>6, <1>9, <1>10, <1>11, <1>12, <1>13 DEF Reads, C

-----------------------------------------------------------------------------
(* What is kept of a search, step by step *)

Kept == Numbered /\ FirstPages /\ RowsStay /\ Cut /\ OneSize

\* A step that leaves the searches alone, or ends one.
Quiet ==
    /\ UNCHANGED <<started, pages, sent, issued>>
    /\ \A w \in Visitors : Searching(w)' => Searching(w) /\ request'[w] = request[w]

LEMMA QuietKeeps ==
    ASSUME Kept, Quiet
    PROVE  Kept'
<1>1. UNCHANGED <<started, pages, sent, issued>>
  BY DEF Quiet
<1>2. \A w \in Visitors : Searching(w)' => Searching(w) /\ request'[w] = request[w]
  BY DEF Quiet
<1>3. Numbered'
  BY <1>1, <1>2 DEF Kept, Numbered
<1>4. FirstPages'
  <2>1. \A s \in Searches : 1 \in DOMAIN pages'[s] => sent'[s] = pages'[s][1]
    BY <1>1 DEF Kept, FirstPages
  <2>2. ASSUME NEW w \in Visitors, Searching(w)', request'[w].at[2] = 1
        PROVE  Opens(request[w])'
    <3>1. Searching(w) /\ request'[w] = request[w] /\ Opens(request[w])
      BY <1>2, <2>2 DEF Kept, FirstPages
    <3>2. QED  BY <1>1, <3>1 DEF Opens
  <2>3. \A w, u \in Visitors : /\ Searching(w)' /\ Searching(u)' /\ request'[w].at = request'[u].at
                               /\ request'[w].at[2] = 1
                               => w = u
    BY <1>2 DEF Kept, FirstPages
  <2>4. QED  BY <2>1, <2>2, <2>3 DEF FirstPages
<1>5. RowsStay'
  BY <1>1, <1>2 DEF Kept, RowsStay
<1>6. Cut'
  BY <1>1, <1>2 DEF Kept, Cut
<1>7. OneSize'
  <2>1. ASSUME NEW s \in Searches PROVE \E l \in Nat : PagedBy(s, l)'
    <3>1. PICK l \in Nat : PagedBy(s, l)
      BY DEF Kept, OneSize
    <3>2. PagedBy(s, l)'
      BY <1>1, <1>2, <3>1 DEF PagedBy
    <3>3. QED  BY <3>2
  <2>2. QED  BY <2>1 DEF OneSize
<1>8. QED
  BY <1>3, <1>4, <1>5, <1>6, <1>7 DEF Kept

LEMMA ReadKeeps ==
    ASSUME Types, Kept, NEW v \in Visitors, NEW r, Reads(v, r), UNCHANGED <<pages, sent, issued>>
    PROVE  Kept'
<1> DEFINE s == r.at[1]
           n == r.at[2]
<1>1. /\ request[v] = Idle /\ request' = [request EXCEPT ![v] = r]
      /\ r.step = "read" /\ r.loaded = PageRow(s, n) /\ PageOf(r.new, n)
      /\ \A c \in r.cursors : Onward(c) /\ c.search = s /\ c.limit = r.new.limit
  BY DEF Reads
<1>2. /\ s \in Searches /\ n \in Nat \ {0} /\ r.new.limit \in Nat
  <2>1. r \in SearchRequest
    BY DEF Reads
  <2>2. r.new \in PageRecord /\ r.at \in Searches \X (Nat \ {0})
    BY <2>1 DEF SearchRequest
  <2>3. QED  BY <2>2, Bounds DEF PageRecord
<1>3. request'[v] = r /\ \A w \in Visitors : w # v => request'[w] = request[w]
  BY <1>1 DEF Types
<1>4. Searching(v)' /\ ~Searching(v)
  BY <1>1, <1>3 DEF Searching, Idle
<1>5. \A w \in Visitors : w # v => (Searching(w)' <=> Searching(w))
  BY <1>3 DEF Searching
<1>6. started \in Nat /\ started' \in Nat /\ started <= started' /\ s <= started'
  <2>1. started \in Nat
    BY Bounds DEF Types
  <2>2. CASE started' = started /\ \E c \in issued : c.search = s
    BY <2>1, <2>2 DEF Kept, Numbered
  <2>3. CASE started' = started + 1 /\ r.at = <<started + 1, 1>>
    BY <2>1, <2>3
  <2>4. QED  BY <2>2, <2>3 DEF Reads
<1>7. n = 1 => s = started + 1
  BY DEF Reads
<1>8. Numbered'
  <2>1. \A x \in Searches : DOMAIN pages[x] # {} \/ sent[x] # NoPage => x <= started'
    <3>1. \A x \in Searches : x \in Int
      BY Bounds
    <3>2. QED  BY <1>6, <3>1 DEF Kept, Numbered
  <2>2. \A c \in issued : c.search <= started'
    <3>1. \A c \in issued : c.search \in Int
      BY Bounds DEF Types, CursorRecord
    <3>2. QED  BY <1>6, <3>1 DEF Kept, Numbered
  <2>3. ASSUME NEW w \in Visitors, Searching(w)' PROVE request'[w].at[1] <= started'
    <3>1. CASE w = v
      BY <1>3, <1>6, <3>1
    <3>2. CASE w # v
      <4>1. Searching(w) /\ request[w] \in SearchRequest /\ request'[w] = request[w]
        BY <1>3, <1>5, <2>3, <3>2, RequestKinds
      <4>2. request[w].at[1] \in Int /\ request[w].at[1] <= started
        BY <4>1, Bounds DEF SearchRequest, Kept, Numbered
      <4>3. QED  BY <1>6, <4>1, <4>2
    <3>3. QED  BY <3>1, <3>2
  <2>4. QED  BY <2>1, <2>2, <2>3 DEF Numbered
<1>9. n = 1 => /\ DOMAIN pages[s] = {} /\ sent[s] = NoPage /\ r.loaded = NoPage
               /\ \A w \in Visitors : Searching(w) => request[w].at[1] # s
  <2>1. SUFFICES ASSUME n = 1 PROVE /\ DOMAIN pages[s] = {} /\ sent[s] = NoPage /\ r.loaded = NoPage
                                    /\ \A w \in Visitors : Searching(w) => request[w].at[1] # s
    OBVIOUS
  <2>2. s = started + 1 /\ ~(s <= started)
    BY <1>6, <1>7, <2>1
  <2>3. DOMAIN pages[s] = {} /\ sent[s] = NoPage
    BY <1>2, <2>2 DEF Kept, Numbered
  <2>4. \A w \in Visitors : Searching(w) => request[w].at[1] # s
    BY <2>2 DEF Kept, Numbered
  <2>5. r.loaded = NoPage
    BY <1>1, <2>3 DEF PageRow
  <2>6. QED  BY <2>3, <2>4, <2>5
<1>10. FirstPages'
  <2>1. \A x \in Searches : 1 \in DOMAIN pages'[x] => sent'[x] = pages'[x][1]
    BY DEF Kept, FirstPages
  <2>2. ASSUME NEW w \in Visitors, Searching(w)', request'[w].at[2] = 1
        PROVE  Opens(request[w])'
    <3>1. CASE w = v
      <4>1. request'[w] = r /\ n = 1
        BY <1>3, <2>2, <3>1
      <4>2. QED  BY <1>1, <1>9, <4>1 DEF Opens
    <3>2. CASE w # v
      <4>1. Searching(w) /\ request'[w] = request[w] /\ Opens(request[w])
        BY <1>3, <1>5, <2>2, <3>2 DEF Kept, FirstPages
      <4>2. QED  BY <4>1 DEF Opens
    <3>3. QED  BY <3>1, <3>2
  <2>3. ASSUME NEW w \in Visitors, NEW u \in Visitors, Searching(w)', Searching(u)',
               request'[w].at = request'[u].at, request'[w].at[2] = 1
        PROVE  w = u
    <3>1. CASE w = v /\ u # v
      BY <1>3, <1>5, <1>9, <2>3, <3>1
    <3>2. CASE w # v /\ u = v
      BY <1>3, <1>5, <1>9, <2>3, <3>2
    <3>3. CASE w # v /\ u # v
      BY <1>3, <1>5, <2>3, <3>3 DEF Kept, FirstPages
    <3>4. QED  BY <3>1, <3>2, <3>3
  <2>4. QED  BY <2>1, <2>2, <2>3 DEF FirstPages
<1>11. RowsStay'
  <2>1. r.loaded # NoPage => n \in DOMAIN pages[s]
    BY <1>1, <1>2, PageRowType
  <2>2. QED  BY <1>3, <1>5, <2>1 DEF Kept, RowsStay
<1>12. Cut'
  <2>1. ASSUME NEW w \in Visitors, Searching(w)'
        PROVE  /\ PageOf(request'[w].new, request'[w].at[2])
               /\ \A c \in request'[w].cursors : /\ Onward(c)
                                                 /\ c.search = request'[w].at[1]
                                                 /\ c.limit = request'[w].new.limit
    <3>1. CASE w = v
      BY <1>1, <1>3, <3>1
    <3>2. CASE w # v
      BY <1>3, <1>5, <2>1, <3>2 DEF Kept, Cut
    <3>3. QED  BY <3>1, <3>2
  <2>2. QED  BY <2>1 DEF Kept, Cut
<1>13. OneSize'
  <2>1. ASSUME NEW x \in Searches PROVE \E l \in Nat : PagedBy(x, l)'
    <3>1. PICK l \in Nat : PagedBy(x, l)
      BY DEF Kept, OneSize
    <3>2. CASE x # s
      <4>1. PagedBy(x, l)'
        BY <1>3, <1>5, <3>1, <3>2 DEF PagedBy
      <4>2. QED  BY <4>1
    <3>3. CASE x = s /\ n = 1
      <4>1. \A c \in issued : c.search # s
        <5>1. \A c \in issued : c.search <= started
          BY DEF Kept, Numbered
        <5>2. ~(s <= started)
          BY <1>6, <1>7, <3>3
        <5>3. QED  BY <5>1, <5>2
      <4>2. PagedBy(x, r.new.limit)'
        BY <1>3, <1>5, <1>9, <3>3, <4>1 DEF PagedBy
      <4>3. QED  BY <1>2, <4>2
    <3>4. CASE x = s /\ n # 1
      <4>1. PICK c \in issued : c.search = s /\ c.limit = r.new.limit
        BY <3>4 DEF Reads
      <4>2. r.new.limit = l
        BY <3>1, <3>4, <4>1 DEF PagedBy
      <4>3. PagedBy(x, l)'
        BY <1>3, <1>5, <3>1, <3>4, <4>2 DEF PagedBy
      <4>4. QED  BY <4>3
    <3>5. QED  BY <3>2, <3>3, <3>4
  <2>2. QED  BY <2>1 DEF OneSize
<1>14. QED
  BY <1>8, <1>10, <1>11, <1>12, <1>13 DEF Kept

LEMMA AnswerKeeps ==
    ASSUME Types, Kept, NEW v \in Visitors, SearchAnswer(v)
    PROVE  Kept'
<1> DEFINE r == request[v]
           s == r.at[1]
           n == r.at[2]
<1>1. /\ r.step = "read" /\ request' = [request EXCEPT ![v] = [r EXCEPT !.step = "answered"]]
      /\ issued' = issued \cup r.cursors
      /\ sent' = IF n = 1 /\ sent[s] = NoPage THEN [sent EXCEPT ![s] = r.new] ELSE sent
      /\ UNCHANGED <<started, pages>>
  BY DEF SearchAnswer, Step
<1>2. Searching(v) /\ r \in SearchRequest
  BY <1>1, RequestKinds DEF Searching
<1>3. s \in Searches /\ n \in Nat \ {0} /\ r.at = <<s, n>> /\ r.new \in PageRecord
  BY <1>2 DEF SearchRequest
<1>4. /\ request'[v].step = "answered" /\ request'[v].at = r.at /\ request'[v].new = r.new
      /\ request'[v].loaded = r.loaded /\ request'[v].cursors = r.cursors
  BY <1>1, <1>2 DEF Types, SearchRequest
<1>5. \A w \in Visitors : w # v => request'[w] = request[w]
  BY <1>1 DEF Types
<1>6. \A w \in Visitors :
        Searching(w)' => /\ Searching(w) /\ request'[w].at = request[w].at
                         /\ request'[w].new = request[w].new
                         /\ request'[w].loaded = request[w].loaded
                         /\ request'[w].cursors = request[w].cursors
  BY <1>2, <1>4, <1>5 DEF Searching
<1>7. n = 1 => /\ sent' = [sent EXCEPT ![s] = r.new] /\ r.loaded = NoPage
               /\ 1 \notin DOMAIN pages[s]
  <2>1. n = 1 => Opens(r)
    BY <1>2 DEF Kept, FirstPages
  <2>2. QED  BY <1>1, <2>1 DEF Opens
<1>8. n # 1 => sent' = sent
  BY <1>1
<1>9. \A x \in Searches : x # s => sent'[x] = sent[x]
  BY <1>1 DEF Types
<1>10. s <= started
  BY <1>2 DEF Kept, Numbered
<1>11. \A c \in r.cursors : Onward(c) /\ c.search = s /\ c.limit = r.new.limit
  BY <1>2 DEF Kept, Cut
<1>12. Numbered'
  <2>1. \A x \in Searches : DOMAIN pages'[x] # {} \/ sent'[x] # NoPage => x <= started'
    BY <1>1, <1>9, <1>10 DEF Kept, Numbered
  <2>2. \A c \in issued' : c.search <= started'
    BY <1>1, <1>10, <1>11 DEF Kept, Numbered
  <2>3. \A w \in Visitors : Searching(w)' => request'[w].at[1] <= started'
    BY <1>1, <1>6 DEF Kept, Numbered
  <2>4. QED  BY <2>1, <2>2, <2>3 DEF Numbered
<1>13. FirstPages'
  <2>1. \A x \in Searches : 1 \in DOMAIN pages'[x] => sent'[x] = pages'[x][1]
    <3>1. \A x \in Searches : 1 \in DOMAIN pages[x] => sent'[x] = sent[x]
      BY <1>7, <1>8, <1>9
    <3>2. QED  BY <1>1, <3>1 DEF Kept, FirstPages
  <2>2. ASSUME NEW w \in Visitors, Searching(w)', request'[w].at[2] = 1
        PROVE  Opens(request[w])'
    <3>1. Searching(w) /\ request[w].at[2] = 1 /\ Opens(request[w])
      BY <1>6, <2>2 DEF Kept, FirstPages
    <3>2. CASE w = v
      <4>1. sent'[s] = r.new
        BY <1>3, <1>7, <3>1, <3>2 DEF Types
      <4>2. QED  BY <1>1, <1>4, <1>7, <3>1, <3>2, <4>1 DEF Opens
    <3>3. CASE w # v
      <4>1. request'[w] = request[w] /\ request[w] \in SearchRequest
        BY <1>5, <3>1, <3>3, RequestKinds
      <4>2. request[w].at[1] \in Searches /\ request[w].at = <<request[w].at[1], 1>>
        BY <3>1, <4>1 DEF SearchRequest
      <4>3. n = 1 => request[w].at[1] # s
        <5>1. n = 1 /\ request[w].at[1] = s => request[w].at = r.at
          BY <1>3, <4>2
        <5>2. QED  BY <1>2, <3>1, <3>3, <5>1 DEF Kept, FirstPages
      <4>4. sent'[request[w].at[1]] = sent[request[w].at[1]]
        BY <1>8, <1>9, <4>2, <4>3
      <4>5. QED  BY <1>1, <3>1, <4>1, <4>4 DEF Opens
    <3>4. QED  BY <3>2, <3>3
  <2>3. \A w, u \in Visitors : /\ Searching(w)' /\ Searching(u)' /\ request'[w].at = request'[u].at
                               /\ request'[w].at[2] = 1
                               => w = u
    BY <1>6 DEF Kept, FirstPages
  <2>4. QED  BY <2>1, <2>2, <2>3 DEF FirstPages
<1>14. RowsStay'
  BY <1>1, <1>6 DEF Kept, RowsStay
<1>15. Cut'
  <2>1. \A c \in issued' : Onward(c)
    BY <1>1, <1>11 DEF Kept, Cut
  <2>2. QED  BY <1>1, <1>6, <2>1 DEF Kept, Cut
<1>16. OneSize'
  <2>1. ASSUME NEW x \in Searches PROVE \E l \in Nat : PagedBy(x, l)'
    <3>1. PICK l \in Nat : PagedBy(x, l)
      BY DEF Kept, OneSize
    <3>2. \A c \in issued' : c.search = x => c.limit = l
      BY <1>1, <1>2, <1>11, <3>1 DEF PagedBy
    <3>3. PagedBy(x, l)'
      BY <1>1, <1>6, <3>1, <3>2 DEF PagedBy
    <3>4. QED  BY <3>3
  <2>2. QED  BY <2>1 DEF OneSize
<1>17. QED
  BY <1>12, <1>13, <1>14, <1>15, <1>16 DEF Kept

LEMMA ReplayKeeps ==
    ASSUME Types, Kept, NEW v \in Visitors, NEW s \in Searches, Replay(v, s)
    PROVE  Kept' /\ issued' \subseteq CursorRecord
<1> DEFINE p == PageRow(s, 1)
           c0 == Cursor(p.limit, p.filter, s, p.limit)
<1>1. /\ p # NoPage /\ issued' = issued \cup (IF p.next THEN {c0} ELSE {})
      /\ UNCHANGED <<started, pages, sent, request>>
  BY DEF Replay
<1>2. 1 \in DOMAIN pages[s] /\ p = pages[s][1] /\ p \in PageRecord
  BY <1>1, PageRowType DEF PageRow
<1>3. c0 \in CursorRecord /\ c0.search = s /\ c0.limit = p.limit /\ c0.offset = p.limit
  BY <1>2, Bounds DEF Cursor, CursorRecord, PageRecord
<1>4. Onward(c0)
  <2>1. 1 * p.limit = p.limit
    BY <1>2, Bounds DEF PageRecord
  <2>2. QED  BY <1>3, <2>1 DEF Onward
<1>5. s <= started
  BY <1>2 DEF Kept, Numbered
<1> HIDE DEF c0, p
<1>6. issued' \subseteq issued \cup {c0}
  BY <1>1
<1>7. \A w \in Visitors : Searching(w)' <=> Searching(w)
  BY <1>1 DEF Searching
<1>8. Numbered'
  BY <1>1, <1>3, <1>5, <1>6, <1>7 DEF Kept, Numbered
<1>9. FirstPages' /\ RowsStay'
  BY <1>1, <1>7 DEF Kept, FirstPages, RowsStay, Opens
<1>10. Cut'
  BY <1>1, <1>4, <1>6, <1>7 DEF Kept, Cut
<1>11. OneSize'
  <2>1. ASSUME NEW x \in Searches PROVE \E l \in Nat : PagedBy(x, l)'
    <3>1. PICK l \in Nat : PagedBy(x, l)
      BY DEF Kept, OneSize
    <3>2. \A c \in issued' : c.search = x => c.limit = l
      BY <1>2, <1>3, <1>6, <3>1 DEF PagedBy
    <3>3. PagedBy(x, l)'
      BY <1>1, <1>7, <3>1, <3>2 DEF PagedBy
    <3>4. QED  BY <3>3
  <2>2. QED  BY <2>1 DEF OneSize
<1>12. QED
  BY <1>3, <1>6, <1>8, <1>9, <1>10, <1>11 DEF Kept, Types

LEMMA RewrittenPage ==
    ASSUME NEW stored, NEW loaded, NEW new \in PageRecord, loaded # NoPage => stored \in PageRecord
    PROVE  LET p == Rewritten(stored, loaded, new) IN
           /\ p \in PageRecord /\ p.limit = new.limit /\ p.matched = new.matched
           /\ p.data = new.data /\ p.next = new.next
           /\ loaded = NoPage => p = new
<1>1. CASE loaded = NoPage \/ new.session # loaded.session
  BY <1>1 DEF Rewritten
<1>2. CASE ~(loaded = NoPage \/ new.session # loaded.session)
  <2>1. stored.session \in 1..MaxSessions
    BY <1>2 DEF PageRecord
  <2>2. Rewritten(stored, loaded, new) = [new EXCEPT !.session = stored.session]
    BY <1>2 DEF Rewritten
  <2>3. QED  BY <1>2, <2>1, <2>2 DEF PageRecord
<1>3. QED
  BY <1>1, <1>2

\* Page n of search s becomes p, and v is done.
Stores(v, s, n, p) ==
    /\ pages' = [pages EXCEPT ![s] = [i \in DOMAIN @ \cup {n} |-> IF i = n THEN p ELSE @[i]]]
    /\ request' = [request EXCEPT ![v] = Idle]
    /\ Searching(v) /\ request[v].step = "answered" /\ request[v] \in SearchRequest
    /\ s = request[v].at[1] /\ n = request[v].at[2]
    /\ s \in Searches /\ n \in Nat \ {0}
    /\ p \in PageRecord /\ PageOf(p, n) /\ p.limit = request[v].new.limit
    /\ n = 1 => p = request[v].new
    /\ UNCHANGED <<issued, started, sent>>

LEMMA CommitFacts ==
    ASSUME Types, Kept, NEW v \in Visitors, SearchCommit(v)
    PROVE  \E p : Stores(v, request[v].at[1], request[v].at[2], p)
<1> DEFINE r == request[v]
           s == r.at[1]
           n == r.at[2]
           p == Rewritten(PageRow(s, n), r.loaded, r.new)
<1>1. /\ pages' = [pages EXCEPT ![s] = [i \in DOMAIN @ \cup {n} |-> IF i = n THEN p ELSE @[i]]]
      /\ request' = [request EXCEPT ![v] = Idle]
      /\ r.step = "answered"
      /\ UNCHANGED <<issued, started, sent>>
  BY DEF SearchCommit, Step
<1>2. Searching(v) /\ r \in SearchRequest
  BY <1>1, RequestKinds DEF Searching
<1>3. s \in Searches /\ n \in Nat \ {0} /\ r.new \in PageRecord
  BY <1>2 DEF SearchRequest
<1>4. r.loaded # NoPage => PageRow(s, n) \in PageRecord
  BY <1>2, <1>3, PageRowType DEF Kept, RowsStay
<1>5. /\ p \in PageRecord /\ p.limit = r.new.limit /\ p.matched = r.new.matched
      /\ p.data = r.new.data /\ p.next = r.new.next /\ (r.loaded = NoPage => p = r.new)
  BY <1>3, <1>4, RewrittenPage
<1>6. n = 1 => r.loaded = NoPage
  BY <1>2 DEF Kept, FirstPages, Opens
<1>7. PageOf(r.new, n)
  BY <1>2 DEF Kept, Cut
<1> HIDE DEF p
<1>8. PageOf(p, n)
  BY <1>5, <1>7 DEF PageOf
<1>9. QED
  BY <1>1, <1>2, <1>3, <1>5, <1>6, <1>8 DEF Stores

\* ... and nothing else about the pages changes.
Stored(s, n, p) ==
    /\ DOMAIN pages' = Searches
    /\ \A x \in Searches : x # s => pages'[x] = pages[x]
    /\ DOMAIN pages'[s] = DOMAIN pages[s] \cup {n}
    /\ pages'[s][n] = p
    /\ \A i \in DOMAIN pages[s] : i # n => pages'[s][i] = pages[s][i]
    /\ pages'[s] \in [DOMAIN pages'[s] -> PageRecord]

LEMMA StoredPages ==
    ASSUME Types, NEW v, NEW s \in Searches, NEW n, NEW p, Stores(v, s, n, p)
    PROVE  Stored(s, n, p)
<1> DEFINE new == [i \in DOMAIN pages[s] \cup {n} |-> IF i = n THEN p ELSE pages[s][i]]
<1>1. pages' = [pages EXCEPT ![s] = new] /\ p \in PageRecord
  BY DEF Stores
<1>2. new \in [DOMAIN new -> PageRecord]
  BY <1>1 DEF Types
<1>3. pages'[s] = new
  BY <1>1 DEF Types
<1>4. QED
  BY <1>1, <1>2, <1>3 DEF Types, Stored

LEMMA CommitKeeps ==
    ASSUME Types, Kept, NEW v \in Visitors, NEW s \in Searches, NEW n, NEW p, Stores(v, s, n, p)
    PROVE  Kept'
<1>1. UNCHANGED <<issued, started, sent>>
  BY DEF Stores
<1>2. /\ Searching(v) /\ s = request[v].at[1] /\ n = request[v].at[2] /\ n \in Nat \ {0}
      /\ PageOf(p, n) /\ p.limit = request[v].new.limit /\ (n = 1 => p = request[v].new)
      /\ request[v].at = <<s, n>> /\ request[v].step = "answered"
  BY DEF Stores, SearchRequest
<1>3. \A w \in Visitors : Searching(w)' => Searching(w) /\ request'[w] = request[w] /\ w # v
  <2>1. request' = [request EXCEPT ![v] = Idle]
    BY DEF Stores
  <2>2. QED  BY <2>1 DEF Types, Searching, Idle
<1>4. /\ \A x \in Searches : x # s => pages'[x] = pages[x]
      /\ DOMAIN pages'[s] = DOMAIN pages[s] \cup {n}
      /\ pages'[s][n] = p
      /\ \A i \in DOMAIN pages[s] : i # n => pages'[s][i] = pages[s][i]
  <2>1. Stored(s, n, p)
    BY StoredPages
  <2>2. QED  BY <2>1 DEF Stored
<1>5. Numbered'
  BY <1>1, <1>2, <1>3, <1>4 DEF Kept, Numbered
<1>6. FirstPages'
  <2>1. ASSUME NEW x \in Searches, 1 \in DOMAIN pages'[x] PROVE sent'[x] = pages'[x][1]
    <3>1. CASE x # s
      BY <1>1, <1>4, <2>1, <3>1 DEF Kept, FirstPages
    <3>2. CASE x = s /\ n # 1
      BY <1>1, <1>4, <2>1, <3>2 DEF Kept, FirstPages
    <3>3. CASE x = s /\ n = 1
      BY <1>1, <1>2, <1>4, <3>3 DEF Kept, FirstPages, Opens
    <3>4. QED  BY <3>1, <3>2, <3>3
  <2>2. ASSUME NEW w \in Visitors, Searching(w)', request'[w].at[2] = 1
        PROVE  Opens(request[w])'
    <3>1. Searching(w) /\ request'[w] = request[w] /\ w # v /\ Opens(request[w])
      BY <1>3, <2>2 DEF Kept, FirstPages
    <3>2. request[w] \in SearchRequest
      BY <3>1, RequestKinds
    <3>3. request[w].at[1] \in Searches /\ request[w].at = <<request[w].at[1], 1>>
      BY <2>2, <3>1, <3>2 DEF SearchRequest
    <3>4. ~(request[w].at[1] = s /\ n = 1)
      BY <1>2, <3>1, <3>3 DEF Kept, FirstPages
    <3>5. 1 \notin DOMAIN pages'[request[w].at[1]]
      BY <1>4, <3>1, <3>3, <3>4 DEF Opens
    <3>6. QED  BY <1>1, <3>1, <3>5 DEF Opens
  <2>3. \A w, u \in Visitors : /\ Searching(w)' /\ Searching(u)' /\ request'[w].at = request'[u].at
                               /\ request'[w].at[2] = 1
                               => w = u
    BY <1>3 DEF Kept, FirstPages
  <2>4. QED  BY <2>1, <2>2, <2>3 DEF FirstPages
<1>7. RowsStay'
  <2>1. ASSUME NEW w \in Visitors, Searching(w)', request'[w].loaded # NoPage
        PROVE  request'[w].at[2] \in DOMAIN pages'[request'[w].at[1]]
    <3>1. Searching(w) /\ request'[w] = request[w] /\ request[w] \in SearchRequest
      BY <1>3, <2>1, RequestKinds
    <3>2. request[w].at[1] \in Searches /\ request[w].at[2] \in DOMAIN pages[request[w].at[1]]
      BY <2>1, <3>1 DEF Kept, RowsStay, SearchRequest
    <3>3. QED  BY <1>4, <3>1, <3>2
  <2>2. QED  BY <2>1 DEF RowsStay
<1>8. Cut'
  <2>1. \A x \in Searches : \A i \in DOMAIN pages'[x] : PageOf(pages'[x][i], i)
    BY <1>2, <1>4 DEF Kept, Cut
  <2>2. QED  BY <1>1, <1>3, <2>1 DEF Kept, Cut
<1>9. OneSize'
  <2>1. ASSUME NEW x \in Searches PROVE \E l \in Nat : PagedBy(x, l)'
    <3>1. PICK l \in Nat : PagedBy(x, l)
      BY DEF Kept, OneSize
    <3>2. \A i \in DOMAIN pages'[x] : pages'[x][i].limit = l
      BY <1>2, <1>4, <3>1 DEF PagedBy
    <3>3. PagedBy(x, l)'
      BY <1>1, <1>3, <3>1, <3>2 DEF PagedBy
    <3>4. QED  BY <3>3
  <2>2. QED  BY <2>1 DEF OneSize
<1>10. QED
  BY <1>5, <1>6, <1>7, <1>8, <1>9 DEF Kept

-----------------------------------------------------------------------------
(* Types *)

LEMMA VisitTypes ==
    ASSUME Types, Kept, NEW v \in Visitors, Visit(v)
    PROVE  Types'
<1> DEFINE r == request[v]
           Kinds == {Idle} \cup SearchRequest \cup JoinRequest
<1>1. request \in [Visitors -> Kinds] /\ Idle \in Kinds
  BY DEF Types
<1>2. ASSUME NEW f \in Filters, NEW limit \in Limits, NEW cur \in issued \cup {NoCursor},
             SearchRead(v, f, limit, cur)
      PROVE  Types'
  <2>1. PICK q : Reads(v, q)
    BY <1>2, ReadFacts DEF Kept
  <2>2. request' \in [Visitors -> Kinds]
    BY <1>1, <2>1 DEF Reads
  <2>3. started' \in 0..Cardinality(Searches)
    BY <2>1, Bounds DEF Reads, Types
  <2>4. minted' \in 0..MaxSessions
    BY <1>2, SessionType DEF SearchRead
  <2>5. UNCHANGED <<now, row, session, cookie, issued, pages, sent, events, join, core>>
    BY <1>2 DEF SearchRead
  <2>6. QED  BY <2>2, <2>3, <2>4, <2>5 DEF Types
<1>3. ASSUME SearchAnswer(v) PROVE Types'
  <2>1. /\ r.step = "read" /\ request' = [request EXCEPT ![v] = [r EXCEPT !.step = "answered"]]
        /\ cookie' = [cookie EXCEPT ![v] = r.new.session]
        /\ issued' = issued \cup r.cursors
        /\ sent' = sent \/ sent' = [sent EXCEPT ![r.at[1]] = r.new]
        /\ UNCHANGED <<now, row, session, minted, started, pages, events, join, core>>
    BY <1>3 DEF SearchAnswer, Step
  <2>2. r \in SearchRequest
    BY <2>1, RequestKinds DEF Searching
  <2>3. [r EXCEPT !.step = "answered"] \in Kinds
    BY <2>2 DEF SearchRequest
  <2>4. request' \in [Visitors -> Kinds]
    BY <1>1, <2>1, <2>3
  <2>5. r.new \in PageRecord /\ r.new.session \in 0..MaxSessions /\ r.cursors \subseteq CursorRecord
    BY <2>2, Bounds DEF SearchRequest, PageRecord
  <2>6. cookie' \in [Visitors -> 0..MaxSessions]
    BY <2>1, <2>5 DEF Types
  <2>7. issued' \subseteq CursorRecord
    BY <2>1, <2>5 DEF Types
  <2>8. sent' \in [Searches -> PageRecord \cup {NoPage}]
    BY <2>1, <2>5 DEF Types
  <2>9. QED  BY <2>1, <2>4, <2>6, <2>7, <2>8 DEF Types
<1>4. ASSUME request' = [request EXCEPT ![v] = Idle],
             UNCHANGED <<now, row, session, minted, cookie, issued, started, pages, sent, events>>,
             join' \in [Keys -> {"none", "created", "failed"}],
             core' \in [Keys -> 0..Cardinality(Searches)]
      PROVE  Types'
  <2>1. request' \in [Visitors -> Kinds]
    BY <1>1, <1>4
  <2>2. QED  BY <1>4, <2>1 DEF Types
<1>5. join \in [Keys -> {"none", "created", "failed"}] /\ core \in [Keys -> 0..Cardinality(Searches)]
  BY DEF Types
<1>6. ASSUME SearchConflict(v) PROVE Types'
  BY <1>4, <1>5, <1>6 DEF SearchConflict, Step
<1>7. ASSUME SearchLost(v) PROVE Types'
  BY <1>4, <1>5, <1>7 DEF SearchLost, Step
<1>8. ASSUME JoinLost(v) PROVE Types'
  BY <1>4, <1>5, <1>8 DEF JoinLost, Step
<1>9. ASSUME SearchCommit(v) PROVE Types'
  <2>1. PICK p : Stores(v, r.at[1], r.at[2], p)
    BY <1>9, CommitFacts
  <2>2. r \in SearchRequest /\ r.at[1] \in Searches /\ r.at[2] \in Nat \ {0}
    BY <2>1 DEF Stores
  <2>3. Stored(r.at[1], r.at[2], p)
    BY <2>1, <2>2, StoredPages
  <2>4. \A x \in Searches : /\ DOMAIN pages'[x] \subseteq Nat \ {0}
                            /\ pages'[x] \in [DOMAIN pages'[x] -> PageRecord]
    BY <2>2, <2>3 DEF Types, Stored
  <2>5. session' \in [1..MaxSessions -> Nat \cup {NoTime}]
    <3>1. r.new.session \in 1..MaxSessions /\ r.mints \in Nat \cup {NoTime}
      BY <2>2 DEF SearchRequest, PageRecord
    <3>2. session' = session \/ session' = [session EXCEPT ![r.new.session] = r.mints]
      BY <1>9 DEF SearchCommit
    <3>3. QED  BY <3>1, <3>2 DEF Types
  <2>6. events' \subseteq Searches
    BY <1>9, <2>2 DEF SearchCommit, Types
  <2>7. request' \in [Visitors -> Kinds]
    BY <1>1, <2>1 DEF Stores
  <2>8. DOMAIN pages' = Searches
    BY <2>3 DEF Stored
  <2>9. UNCHANGED <<now, row, minted, cookie, issued, started, sent, join, core>>
    BY <1>9 DEF SearchCommit
  <2>10. QED  BY <2>4, <2>5, <2>6, <2>7, <2>8, <2>9 DEF Types
<1>10. ASSUME NEW s \in Searches, Replay(v, s) PROVE Types'
  <2>1. issued' \subseteq CursorRecord
    BY <1>10, ReplayKeeps
  <2>2. QED  BY <1>10, <2>1 DEF Replay, Types
<1>11. ASSUME NEW s \in Searches, NEW k \in Keys, JoinStart(v, s, k) PROVE Types'
  <2>1. [step |-> "calling", key |-> k, search |-> s, insert |-> join[k] = "none"] \in Kinds
    BY DEF JoinRequest
  <2>2. request' \in [Visitors -> Kinds]
    BY <1>1, <1>11, <2>1 DEF JoinStart, Step
  <2>3. UNCHANGED <<now, row, session, minted, cookie, issued, started, pages, sent,
                    events, join, core>>
    BY <1>11 DEF JoinStart
  <2>4. QED  BY <2>2, <2>3 DEF Types
<1>12. ASSUME r.step = "calling" PROVE /\ r \in JoinRequest /\ r.key \in Keys /\ r.search \in Searches
                                       /\ (UNCHANGED core \/ CoreKeeps(r.key, r.search))
                                            => core' \in [Keys -> 0..Cardinality(Searches)]
  <2>1. r \in JoinRequest
    BY <1>12, RequestKinds DEF Joining
  <2>2. r.key \in Keys /\ r.search \in Searches /\ r.search \in 0..Cardinality(Searches)
    BY <2>1, Bounds DEF JoinRequest
  <2>3. (UNCHANGED core \/ CoreKeeps(r.key, r.search)) => core' \in [Keys -> 0..Cardinality(Searches)]
    BY <1>5, <2>2 DEF CoreKeeps
  <2>4. QED  BY <2>1, <2>2, <2>3
<1>13. ASSUME CoreAnswers(v) PROVE Types'
  <2>1. r.step = "calling" /\ r \in JoinRequest
    BY <1>12, <1>13 DEF CoreAnswers
  <2>2. [r EXCEPT !.step = "joined"] \in Kinds
    BY <2>1 DEF JoinRequest
  <2>3. request' \in [Visitors -> Kinds]
    BY <1>1, <1>13, <2>2 DEF CoreAnswers, Step
  <2>4. core' \in [Keys -> 0..Cardinality(Searches)]
    BY <1>12, <1>13, <2>1 DEF CoreAnswers
  <2>5. UNCHANGED <<now, row, session, minted, cookie, issued, started, pages, sent, events, join>>
    BY <1>13 DEF CoreAnswers
  <2>6. QED  BY <2>3, <2>4, <2>5 DEF Types
<1>14. ASSUME CoreFails(v) PROVE Types'
  <2>1. r.step = "calling" /\ (UNCHANGED core \/ CoreKeeps(r.key, r.search))
    BY <1>14 DEF CoreFails
  <2>2. core' \in [Keys -> 0..Cardinality(Searches)] /\ r.key \in Keys
    BY <1>12, <2>1
  <2>3. join' = [join EXCEPT ![r.key] = join[r.key]]
    BY <1>14 DEF CoreFails, AfterFailure
  <2>4. join' \in [Keys -> {"none", "created", "failed"}]
    BY <1>5, <2>2, <2>3
  <2>5. QED  BY <1>4, <1>14, <2>2, <2>4 DEF CoreFails, Step
<1>15. ASSUME JoinCommit(v) PROVE Types'
  <2>1. join' \in [Keys -> {"none", "created", "failed"}]
    BY <1>5, <1>15 DEF JoinCommit
  <2>2. QED  BY <1>4, <1>5, <1>15, <2>1 DEF JoinCommit, Step
<1>16. QED
  BY <1>2, <1>3, <1>6, <1>7, <1>8, <1>9, <1>10, <1>11, <1>13, <1>14, <1>15 DEF Visit

LEMMA CatalogueTypes ==
    ASSUME Types, (\E c \in Cycles : Withdraw(c) \/ \E a \in Corrections[c] : Correct(c, a)) \/ Tick
    PROVE  Types' /\ UNCHANGED <<issued, started, pages, sent, events, join, core, request>>
                  /\ out' = NoReply
<1>1. ASSUME NEW c \in Cycles, Withdraw(c) PROVE row' \in [Cycles -> Award]
  <2>1. row[c] \in Award
    BY DEF Types
  <2>2. [row[c] EXCEPT !.life = "withdrawn", !.status = "status_unknown"] \in Award
    BY <2>1 DEF Award
  <2>3. row' = [row EXCEPT ![c] = [row[c] EXCEPT !.life = "withdrawn", !.status = "status_unknown"]]
    BY <1>1 DEF Withdraw, Types
  <2>4. QED  BY <2>2, <2>3 DEF Types
<1>2. ASSUME NEW c \in Cycles, NEW a \in Corrections[c], Correct(c, a) PROVE row' \in [Cycles -> Award]
  <2>1. a \in Award
    BY ServingAssumption
  <2>2. QED  BY <1>2, <2>1 DEF Correct, Types
<1>3. CASE Tick
  <2>1. now' \in 0..MaxTime
    BY <1>3, Bounds DEF Tick, Types
  <2>2. QED  BY <1>3, <2>1 DEF Tick, Types
<1>4. CASE \E c \in Cycles : Withdraw(c)
  BY <1>1, <1>4 DEF Withdraw, Types
<1>5. CASE \E c \in Cycles : \E a \in Corrections[c] : Correct(c, a)
  BY <1>2, <1>5 DEF Correct, Types
<1>6. QED
  BY <1>3, <1>4, <1>5

-----------------------------------------------------------------------------
(* The parts of the invariant over a whole step *)

LEMMA VisitKeeps ==
    ASSUME Types, Kept, NEW v \in Visitors, Visit(v)
    PROVE  Kept'
<1>1. ASSUME NEW q, q.step \notin {"read", "answered"}, request' = [request EXCEPT ![v] = q],
             UNCHANGED <<started, pages, sent, issued>>
      PROVE  Kept'
  <2>1. \A w \in Visitors : Searching(w)' => Searching(w) /\ request'[w] = request[w]
    BY <1>1 DEF Types, Searching
  <2>2. QED  BY <1>1, <2>1, QuietKeeps DEF Quiet
<1>2. ASSUME request' = [request EXCEPT ![v] = Idle], UNCHANGED <<started, pages, sent, issued>>
      PROVE  Kept'
  BY <1>1, <1>2 DEF Idle
<1>3. ASSUME NEW f \in Filters, NEW limit \in Limits, NEW cur \in issued \cup {NoCursor},
             SearchRead(v, f, limit, cur)
      PROVE  Kept'
  <2>1. PICK q : Reads(v, q)
    BY <1>3, ReadFacts DEF Kept
  <2>2. UNCHANGED <<pages, sent, issued>>
    BY <1>3 DEF SearchRead
  <2>3. QED  BY <2>1, <2>2, ReadKeeps
<1>4. ASSUME SearchCommit(v) PROVE Kept'
  <2>1. PICK p : Stores(v, request[v].at[1], request[v].at[2], p)
    BY <1>4, CommitFacts
  <2>2. request[v].at[1] \in Searches
    BY <2>1 DEF Stores
  <2>3. QED  BY <2>1, <2>2, CommitKeeps
<1>5. ASSUME NEW s \in Searches, NEW k \in Keys, JoinStart(v, s, k) PROVE Kept'
  <2> DEFINE q == [step |-> "calling", key |-> k, search |-> s, insert |-> join[k] = "none"]
  <2>1. q.step \notin {"read", "answered"}
    OBVIOUS
  <2>2. request' = [request EXCEPT ![v] = q] /\ UNCHANGED <<started, pages, sent, issued>>
    BY <1>5 DEF JoinStart, Step
  <2>3. QED  BY <1>1, <2>1, <2>2
<1>6. ASSUME CoreAnswers(v) PROVE Kept'
  <2> DEFINE q == [request[v] EXCEPT !.step = "joined"]
  <2>1. q.step \notin {"read", "answered"}
    <3>1. request[v] \in JoinRequest
      BY <1>6, RequestKinds DEF CoreAnswers, Joining
    <3>2. QED  BY <3>1 DEF JoinRequest
  <2>2. request' = [request EXCEPT ![v] = q] /\ UNCHANGED <<started, pages, sent, issued>>
    BY <1>6 DEF CoreAnswers, Step
  <2>3. QED  BY <1>1, <2>1, <2>2
<1>7. ASSUME SearchConflict(v) \/ SearchLost(v) \/ CoreFails(v) \/ JoinCommit(v) \/ JoinLost(v)
      PROVE  Kept'
  BY <1>2, <1>7 DEF SearchConflict, SearchLost, CoreFails, JoinCommit, JoinLost, Step
<1>8. QED
  BY <1>3, <1>4, <1>5, <1>6, <1>7, AnswerKeeps, ReplayKeeps DEF Visit

LEMMA OnlyCommitsStore ==
    ASSUME NEW v \in Visitors, Visit(v), ~SearchCommit(v)
    PROVE  UNCHANGED <<pages, events>>
<1>1. QED
  BY DEF Visit, SearchRead, SearchAnswer, SearchConflict, SearchLost, Replay,
         JoinStart, CoreAnswers, CoreFails, JoinCommit, JoinLost

LEMMA PagesGrow ==
    ASSUME Types, Kept, NEW v \in Visitors, Visit(v), NEW s \in Searches
    PROVE  DOMAIN pages[s] \subseteq DOMAIN pages'[s]
<1>1. CASE SearchCommit(v)
  <2>1. PICK p : Stores(v, request[v].at[1], request[v].at[2], p)
    BY <1>1, CommitFacts
  <2>2. request[v].at[1] \in Searches
    BY <2>1 DEF Stores
  <2>3. Stored(request[v].at[1], request[v].at[2], p)
    BY <2>1, <2>2, StoredPages
  <2>4. QED  BY <2>3 DEF Stored
<1>2. CASE ~SearchCommit(v)
  BY <1>2, OnlyCommitsStore
<1>3. QED
  BY <1>1, <1>2

LEMMA VisitEvents ==
    ASSUME Types, Kept, EventIffRecorded, NEW v \in Visitors, Visit(v)
    PROVE  EventIffRecorded'
<1>1. CASE SearchCommit(v)
  <2> DEFINE s == request[v].at[1]
             n == request[v].at[2]
  <2>1. PICK p : Stores(v, s, n, p)
    BY <1>1, CommitFacts
  <2>2. s \in Searches
    BY <2>1 DEF Stores
  <2>3. /\ \A x \in Searches : x # s => pages'[x] = pages[x]
        /\ DOMAIN pages'[s] = DOMAIN pages[s] \cup {n}
    <3>1. Stored(s, n, p)
      BY <2>1, <2>2, StoredPages
    <3>2. QED  BY <3>1 DEF Stored
  <2>4. events' = IF n = 1 THEN events \cup {s} ELSE events
    BY <1>1 DEF SearchCommit, EventsOf
  <2>5. QED  BY <2>2, <2>3, <2>4 DEF EventIffRecorded
<1>2. CASE ~SearchCommit(v)
  BY <1>2, OnlyCommitsStore DEF EventIffRecorded
<1>3. QED
  BY <1>1, <1>2

\* What Core has and what is known to be with it, and what the requests under
\* way rest on.
Backed == HandoversAreBacked /\ JoinsBacked

\* v's request becomes q, and what Core and the rows say moves with it.
Hands(v, q) ==
    /\ request' = [request EXCEPT ![v] = q]
    /\ \A k \in Keys :
        /\ core[k] # 0 => core'[k] # 0
        /\ core'[k] # 0 => core'[k] = core[k] \/ (core'[k] = request[v].search /\ Joining(v))
        /\ join'[k] = join[k] \/ (join'[k] = "created" /\ core'[k] # 0)
    /\ q.step \in {"calling", "joined"} =>
        /\ q.search \in Searches /\ DOMAIN pages[q.search] # {}
        /\ q.step = "joined" => core'[q.key] # 0

LEMMA VisitBacked ==
    ASSUME Types, Kept, Backed, NEW v \in Visitors, Visit(v)
    PROVE  Backed'
<1> DEFINE r == request[v]
           OnRecord(s) == DOMAIN pages[s] # {}
<1>1. \A s \in Searches : OnRecord(s) => DOMAIN pages'[s] # {}
  BY PagesGrow
<1>2. core \in [Keys -> 0..Cardinality(Searches)] /\ Searches = 1..Cardinality(Searches)
      /\ Cardinality(Searches) \in Nat
  BY Bounds DEF Types
<1>3. \A k \in Keys : core[k] # 0 => core[k] \in Searches /\ OnRecord(core[k])
  BY <1>2 DEF Backed, HandoversAreBacked
<1>4. ASSUME Joining(v) PROVE r \in JoinRequest /\ r.key \in Keys /\ r.search \in Searches
                              /\ OnRecord(r.search)
  BY <1>4, RequestKinds DEF Backed, JoinsBacked, JoinRequest
\* The step in terms of what Core keeps and of v's request.
<1>5. ASSUME NEW q, Hands(v, q) PROVE Backed'
  <2>1. HandoversAreBacked'
    <3>1. ASSUME NEW k \in Keys, core'[k] # 0 PROVE DOMAIN pages'[core'[k]] # {}
      BY <1>1, <1>3, <1>4, <1>5, <3>1 DEF Hands
    <3>2. ASSUME NEW k \in Keys, join'[k] # "none" PROVE join'[k] = "created" /\ core'[k] # 0
      BY <1>5, <3>2 DEF Hands, Backed, HandoversAreBacked
    <3>3. QED  BY <3>1, <3>2 DEF HandoversAreBacked
  <2>2. ASSUME NEW w \in Visitors, Joining(w)'
        PROVE  DOMAIN pages'[request'[w].search] # {}
               /\ (request'[w].step = "joined" => core'[request'[w].key] # 0)
    <3>1. CASE w = v
      <4>1. request'[w] = q
        BY <1>5, <3>1 DEF Hands, Types
      <4>2. QED  BY <1>1, <1>5, <2>2, <4>1 DEF Hands, Joining
    <3>2. CASE w # v
      <4>1. request'[w] = request[w] /\ Joining(w)
        BY <1>5, <2>2, <3>2 DEF Hands, Types, Joining
      <4>2. request[w] \in JoinRequest
        BY <4>1, RequestKinds
      <4>3. request[w].search \in Searches /\ request[w].key \in Keys
        BY <4>2 DEF JoinRequest
      <4>4. QED  BY <1>1, <1>5, <4>1, <4>3 DEF Hands, Backed, JoinsBacked
    <3>3. QED  BY <3>1, <3>2
  <2>3. JoinsBacked'
    BY <2>2 DEF JoinsBacked
  <2>4. QED  BY <2>1, <2>3 DEF Backed
<1>6. ASSUME NEW f \in Filters, NEW limit \in Limits, NEW cur \in issued \cup {NoCursor},
             SearchRead(v, f, limit, cur)
      PROVE  Backed'
  <2>1. PICK q : Reads(v, q)
    BY <1>6, ReadFacts DEF Kept
  <2>2. request' = [request EXCEPT ![v] = q] /\ q.step = "read"
    BY <2>1 DEF Reads
  <2>3. UNCHANGED <<core, join>>
    BY <1>6 DEF SearchRead
  <2>4. Hands(v, q)
    BY <2>2, <2>3 DEF Hands
  <2>5. QED  BY <1>5, <2>4
<1>7. ASSUME SearchAnswer(v) PROVE Backed'
  <2> DEFINE q == [r EXCEPT !.step = "answered"]
  <2>1. r \in SearchRequest
    BY <1>7, RequestKinds DEF SearchAnswer, Searching
  <2>2. q.step = "answered"
    BY <2>1 DEF SearchRequest
  <2>3. request' = [request EXCEPT ![v] = q] /\ UNCHANGED <<core, join>>
    BY <1>7 DEF SearchAnswer, Step
  <2> HIDE DEF q, r
  <2>4. Hands(v, q)
    BY <2>2, <2>3 DEF Hands
  <2>5. QED  BY <1>5, <2>4
<1>8. ASSUME SearchConflict(v) \/ SearchLost(v) \/ SearchCommit(v) \/ JoinLost(v) PROVE Backed'
  <2>1. request' = [request EXCEPT ![v] = Idle] /\ UNCHANGED <<core, join>>
    BY <1>8 DEF SearchConflict, SearchLost, SearchCommit, JoinLost, Step
  <2>2. Idle.step \notin {"calling", "joined"}
    BY DEF Idle
  <2>3. Hands(v, Idle)
    BY <2>1, <2>2 DEF Hands
  <2>4. QED  BY <1>5, <2>3
<1>9. ASSUME NEW s \in Searches, Replay(v, s) PROVE Backed'
  BY <1>9 DEF Replay, Backed, HandoversAreBacked, JoinsBacked, Joining
<1>10. ASSUME NEW s \in Searches, NEW k \in Keys, JoinStart(v, s, k) PROVE Backed'
  <2> DEFINE q == [step |-> "calling", key |-> k, search |-> s, insert |-> join[k] = "none"]
  <2>1. q.step = "calling" /\ q.search = s /\ OnRecord(s)
    BY <1>10 DEF JoinStart, Owns
  <2>2. request' = [request EXCEPT ![v] = q] /\ UNCHANGED <<core, join>>
    BY <1>10 DEF JoinStart, Step
  <2> HIDE DEF q, r
  <2>3. Hands(v, q)
    BY <2>1, <2>2 DEF Hands
  <2>4. QED  BY <1>5, <2>3
<1>11. ASSUME r.step = "calling", CoreKeeps(r.key, r.search)
       PROVE  core'[r.key] # 0 /\ \A k \in Keys :
                /\ core[k] # 0 => core'[k] # 0
                /\ core'[k] # 0 => core'[k] = core[k] \/ core'[k] = r.search
  <2>1. r.key \in Keys /\ r.search \in Searches /\ r.search # 0
    BY <1>2, <1>4, <1>11 DEF Joining
  <2>2. QED  BY <1>2, <1>11, <2>1 DEF CoreKeeps
<1>12. ASSUME CoreAnswers(v) PROVE Backed'
  <2> DEFINE q == [r EXCEPT !.step = "joined"]
  <2>1. Joining(v) /\ r.step = "calling" /\ r \in JoinRequest /\ OnRecord(r.search) /\ r.search \in Searches
    BY <1>4, <1>12 DEF CoreAnswers, Joining
  <2>2. q.step = "joined" /\ q.search = r.search /\ q.key = r.key
    BY <2>1 DEF JoinRequest
  <2>3. request' = [request EXCEPT ![v] = q] /\ CoreKeeps(r.key, r.search) /\ UNCHANGED join
    BY <1>12 DEF CoreAnswers, Step
  <2> HIDE DEF q
  <2>4. Hands(v, q)
    BY <1>11, <2>1, <2>2, <2>3 DEF Hands
  <2>5. QED  BY <1>5, <2>4
<1>13. ASSUME CoreFails(v) PROVE Backed'
  <2>1. Joining(v) /\ r.step = "calling" /\ r.key \in Keys
    BY <1>4, <1>13 DEF CoreFails, Joining
  <2>2. /\ request' = [request EXCEPT ![v] = Idle]
        /\ UNCHANGED core \/ CoreKeeps(r.key, r.search)
        /\ join' = [join EXCEPT ![r.key] = join[r.key]]
    BY <1>13 DEF CoreFails, Step, AfterFailure
  <2>3. \A k \in Keys : join'[k] = join[k]
    BY <2>1, <2>2 DEF Types
  <2>4. Idle.step \notin {"calling", "joined"}
    BY DEF Idle
  <2>5. Hands(v, Idle)
    BY <1>11, <2>1, <2>2, <2>3, <2>4 DEF Hands
  <2>6. QED  BY <1>5, <2>5
<1>14. ASSUME JoinCommit(v) PROVE Backed'
  <2>1. Joining(v) /\ r.step = "joined" /\ r.key \in Keys /\ core[r.key] # 0
    BY <1>4, <1>14 DEF JoinCommit, Joining, Backed, JoinsBacked
  <2>2. /\ request' = [request EXCEPT ![v] = Idle] /\ UNCHANGED core
        /\ join' = [join EXCEPT ![r.key] = "created"]
    BY <1>14 DEF JoinCommit, Step
  <2>3. \A k \in Keys : join'[k] = join[k] \/ (join'[k] = "created" /\ core'[k] # 0)
    <3>1. join'[r.key] = "created" /\ core'[r.key] # 0
      BY <2>1, <2>2 DEF Types
    <3>2. \A k \in Keys : k # r.key => join'[k] = join[k]
      BY <2>1, <2>2 DEF Types
    <3>3. QED  BY <3>1, <3>2
  <2>4. Idle.step \notin {"calling", "joined"}
    BY DEF Idle
  <2>5. Hands(v, Idle)
    BY <2>2, <2>3, <2>4 DEF Hands
  <2>6. QED  BY <1>5, <2>5
<1>15. QED
  BY <1>6, <1>7, <1>8, <1>9, <1>10, <1>12, <1>13, <1>14 DEF Visit

\* v's request becomes q; what was answered stays so.
Goes(v, q) ==
    /\ request' = [request EXCEPT ![v] = q]
    /\ \A s \in Searches : sent[s] # NoPage => sent'[s] # NoPage
    /\ \A c \in issued' : c \in issued \/ (c.search \in Searches /\ sent'[c.search] # NoPage)
    /\ q.step \in {"read", "answered"} /\ (q.at[2] # 1 \/ q.step = "answered") =>
            sent'[q.at[1]] # NoPage

LEMMA VisitBegun ==
    ASSUME Types, Kept, Begun, NEW v \in Visitors, Visit(v)
    PROVE  Begun'
<1> DEFINE r == request[v]
<1>1. \A c \in issued : c.search \in Searches /\ sent[c.search] # NoPage
  BY DEF Types, CursorRecord, Begun
<1>2. ASSUME NEW q, Goes(v, q) PROVE Begun'
  <2>1. \A c \in issued' : sent'[c.search] # NoPage
    BY <1>1, <1>2 DEF Goes
  <2>2. ASSUME NEW w \in Visitors, Searching(w)',
               request'[w].at[2] # 1 \/ request'[w].step = "answered"
        PROVE  sent'[request'[w].at[1]] # NoPage
    <3>1. CASE w = v
      <4>1. request'[w] = q
        BY <1>2, <3>1 DEF Goes, Types
      <4>2. QED  BY <1>2, <2>2, <4>1 DEF Goes, Searching
    <3>2. CASE w # v
      <4>1. request'[w] = request[w] /\ Searching(w)
        BY <1>2, <2>2, <3>2 DEF Goes, Types, Searching
      <4>2. request[w].at[1] \in Searches
        BY <4>1, RequestKinds DEF SearchRequest
      <4>3. sent[request[w].at[1]] # NoPage
        BY <2>2, <4>1 DEF Begun
      <4>4. QED  BY <1>2, <4>1, <4>2, <4>3 DEF Goes
    <3>3. QED  BY <3>1, <3>2
  <2>3. QED  BY <2>1, <2>2 DEF Begun
<1>3. ASSUME NEW f \in Filters, NEW limit \in Limits, NEW cur \in issued \cup {NoCursor},
             SearchRead(v, f, limit, cur)
      PROVE  Begun'
  <2>1. PICK q : Reads(v, q)
    BY <1>3, ReadFacts DEF Kept
  <2>2. request' = [request EXCEPT ![v] = q] /\ q.step = "read"
        /\ (q.at[2] = 1 \/ \E c \in issued : c.search = q.at[1])
    BY <2>1 DEF Reads
  <2>3. UNCHANGED <<sent, issued>>
    BY <1>3 DEF SearchRead
  <2>4. q.at[2] # 1 => sent[q.at[1]] # NoPage
    BY <1>1, <2>2
  <2>5. Goes(v, q)
    BY <2>2, <2>3, <2>4 DEF Goes
  <2>6. QED  BY <1>2, <2>5
<1>4. ASSUME SearchAnswer(v) PROVE Begun'
  <2> DEFINE q == [r EXCEPT !.step = "answered"]
             s == r.at[1]
  <2>1. Searching(v) /\ r.step = "read" /\ r \in SearchRequest
    BY <1>4, RequestKinds DEF SearchAnswer, Searching
  <2>2. s \in Searches /\ r.new \in PageRecord /\ q.step = "answered" /\ q.at = r.at
    BY <2>1 DEF SearchRequest
  <2>3. /\ request' = [request EXCEPT ![v] = q] /\ issued' = issued \cup r.cursors
        /\ sent' = IF r.at[2] = 1 /\ sent[s] = NoPage THEN [sent EXCEPT ![s] = r.new] ELSE sent
    BY <1>4 DEF SearchAnswer, Step
  <2>4. r.new # NoPage
    BY <2>2, PageRowType
  <2>5. sent'[s] # NoPage /\ \A x \in Searches : sent[x] # NoPage => sent'[x] # NoPage
    <3>1. r.at[2] # 1 => sent[s] # NoPage
      BY <2>1 DEF Begun
    <3>2. DOMAIN sent = Searches
      BY DEF Types
    <3>3. QED  BY <2>2, <2>3, <2>4, <3>1, <3>2
  <2>6. \A c \in r.cursors : c.search = s
    BY <2>1 DEF Kept, Cut
  <2> HIDE DEF q, r
  <2>7. Goes(v, q)
    BY <2>2, <2>3, <2>5, <2>6 DEF Goes
  <2>8. QED  BY <1>2, <2>7
<1>5. ASSUME NEW s \in Searches, Replay(v, s) PROVE Begun'
  <2>1. 1 \in DOMAIN pages[s] /\ pages[s][1] # NoPage
    BY <1>5, PageRowType DEF Replay, PageRow
  <2>2. sent[s] # NoPage
    BY <2>1 DEF Kept, FirstPages
  <2>3. \A c \in issued' : c \in issued \/ c.search = s
    BY <1>5 DEF Replay, Cursor
  <2>4. UNCHANGED <<sent, request>>
    BY <1>5 DEF Replay
  <2>5. \A w \in Visitors : Searching(w)' <=> Searching(w)
    BY <2>4 DEF Searching
  <2>6. QED  BY <2>2, <2>3, <2>4, <2>5 DEF Begun
<1>6. ASSUME SearchConflict(v) \/ SearchLost(v) \/ SearchCommit(v) \/ CoreFails(v)
             \/ JoinCommit(v) \/ JoinLost(v)
      PROVE  Begun'
  <2>1. request' = [request EXCEPT ![v] = Idle] /\ UNCHANGED <<sent, issued>>
    BY <1>6 DEF SearchConflict, SearchLost, SearchCommit, CoreFails, JoinCommit, JoinLost, Step
  <2>2. Idle.step \notin {"read", "answered"}
    BY DEF Idle
  <2>3. Goes(v, Idle)
    BY <2>1, <2>2 DEF Goes
  <2>4. QED  BY <1>2, <2>3
<1>7. ASSUME NEW s \in Searches, NEW k \in Keys, JoinStart(v, s, k) PROVE Begun'
  <2> DEFINE q == [step |-> "calling", key |-> k, search |-> s, insert |-> join[k] = "none"]
  <2>1. q.step = "calling"
    OBVIOUS
  <2>2. request' = [request EXCEPT ![v] = q] /\ UNCHANGED <<sent, issued>>
    BY <1>7 DEF JoinStart, Step
  <2> HIDE DEF q
  <2>3. Goes(v, q)
    BY <2>1, <2>2 DEF Goes
  <2>4. QED  BY <1>2, <2>3
<1>8. ASSUME CoreAnswers(v) PROVE Begun'
  <2> DEFINE q == [r EXCEPT !.step = "joined"]
  <2>1. r \in JoinRequest
    BY <1>8, RequestKinds DEF CoreAnswers, Joining
  <2>2. q.step = "joined"
    BY <2>1 DEF JoinRequest
  <2>3. request' = [request EXCEPT ![v] = q] /\ UNCHANGED <<sent, issued>>
    BY <1>8 DEF CoreAnswers, Step
  <2> HIDE DEF q
  <2>4. Goes(v, q)
    BY <2>2, <2>3 DEF Goes
  <2>5. QED  BY <1>2, <2>4
<1>9. QED
  BY <1>3, <1>4, <1>5, <1>6, <1>7, <1>8 DEF Visit

-----------------------------------------------------------------------------
(* The specification *)

IInv == Types /\ Kept /\ EventIffRecorded /\ Backed /\ Begun /\ ReplayTellsWhatWasSent

LEMMA InvInit == ServingInit => IInv
<1> SUFFICES ASSUME ServingInit PROVE IInv
  OBVIOUS
<1>1. pages = [s \in Searches |-> [n \in {} |-> NoPage]] /\ issued = {} /\ events = {}
      /\ request = [v \in Visitors |-> Idle] /\ sent = [s \in Searches |-> NoPage]
      /\ join = [k \in Keys |-> "none"] /\ core = [k \in Keys |-> 0] /\ out = NoReply
      /\ now = 0 /\ row = Catalogue /\ session = [s \in 1..MaxSessions |-> NoTime]
      /\ minted = 0 /\ cookie = [v \in Visitors |-> 0] /\ started = 0
  BY DEF ServingInit
<1>2. \A s \in Searches : DOMAIN pages[s] = {} /\ pages[s] \in [DOMAIN pages[s] -> PageRecord]
  BY <1>1
<1>3. \A v \in Visitors : ~Searching(v) /\ ~Joining(v)
  BY <1>1 DEF Searching, Joining, Idle
<1>4. Types
  BY <1>1, <1>2, ServingAssumption, Bounds DEF Types
<1>5. Numbered /\ FirstPages /\ RowsStay /\ Cut
  BY <1>1, <1>2, <1>3 DEF Numbered, FirstPages, RowsStay, Cut
<1>6. OneSize
  <2>1. \A s \in Searches : PagedBy(s, 0)
    BY <1>1, <1>2, <1>3 DEF PagedBy
  <2>2. QED  BY <2>1 DEF OneSize
<1>7. EventIffRecorded
  BY <1>1, <1>2 DEF EventIffRecorded
<1>8. Backed
  BY <1>1, <1>3 DEF Backed, HandoversAreBacked, JoinsBacked
<1>9. ReplayTellsWhatWasSent
  BY <1>1 DEF ReplayTellsWhatWasSent, NoReply
<1>10. Begun
  BY <1>1, <1>3 DEF Begun
<1>11. QED
  BY <1>4, <1>5, <1>6, <1>7, <1>8, <1>9, <1>10 DEF IInv, Kept

LEMMA ReplayAnswers ==
    ASSUME Types, Kept, NEW v \in Visitors, NEW s \in Searches, Replay(v, s)
    PROVE  ReplayTellsWhatWasSent'
<1> DEFINE p == PageRow(s, 1)
<1>1. p # NoPage /\ ExistingSession(v) # 0 /\ p.session = ExistingSession(v)
      /\ UNCHANGED <<row, sent, cookie>>
      /\ out' = [search |-> s, by |-> v, shown |-> SelectSeq(p.data, StillPublished)]
  BY DEF Replay
<1>2. p = sent[s]
  BY <1>1, PageRowType DEF PageRow, Kept, FirstPages
<1>3. cookie[v] = sent[s].session
  BY <1>1, <1>2 DEF ExistingSession
<1> HIDE DEF p
<1>4. out'.search = s /\ out'.by = v /\ out'.shown = SelectSeq(p.data, StillPublished)
  BY <1>1
<1>5. SelectSeq(p.data, StillPublished) = Unwithdrawn(row, p.data)
  BY DEF StillPublished, Unwithdrawn
<1>6. QED
  BY <1>1, <1>2, <1>3, <1>4, <1>5 DEF ReplayTellsWhatWasSent

LEMMA InvStep == IInv /\ [ServingNext]_servingVars => IInv'
<1> SUFFICES ASSUME IInv, [ServingNext]_servingVars PROVE IInv'
  OBVIOUS
<1>1. Types /\ Kept /\ EventIffRecorded /\ Backed /\ Begun /\ ReplayTellsWhatWasSent
  BY DEF IInv
<1>2. ASSUME NEW v \in Visitors, Visit(v) PROVE IInv'
  <2>1. Types' /\ Kept' /\ EventIffRecorded' /\ Backed' /\ Begun'
    BY <1>1, <1>2, VisitTypes, VisitKeeps, VisitEvents, VisitBacked, VisitBegun
  <2>2. ReplayTellsWhatWasSent'
    <3>1. CASE \E s \in Searches : Replay(v, s)
      BY <1>1, <3>1, ReplayAnswers
    <3>2. CASE ~ \E s \in Searches : Replay(v, s)
      <4>1. out' = NoReply
        BY <1>2, <3>2 DEF Visit, SearchRead, SearchAnswer, SearchConflict, SearchLost, SearchCommit,
               JoinStart, CoreAnswers, CoreFails, JoinCommit, JoinLost, Step
      <4>2. QED  BY <4>1 DEF ReplayTellsWhatWasSent, NoReply
    <3>3. QED  BY <3>1, <3>2
  <2>3. QED  BY <2>1, <2>2 DEF IInv
<1>3. ASSUME UNCHANGED <<issued, started, pages, sent, events, join, core, request>>
      PROVE  Kept' /\ EventIffRecorded' /\ Backed' /\ Begun'
  <2>1. Quiet
    BY <1>3 DEF Quiet, Searching
  <2>2. EventIffRecorded' /\ Backed'
    BY <1>1, <1>3 DEF EventIffRecorded, Backed, HandoversAreBacked, JoinsBacked, Joining
  <2>3. Begun'
    BY <1>1, <1>3 DEF Begun, Searching
  <2>4. QED  BY <1>1, <2>1, <2>2, <2>3, QuietKeeps
<1>4. CASE (\E c \in Cycles : Withdraw(c) \/ \E a \in Corrections[c] : Correct(c, a)) \/ Tick
  <2>1. Types' /\ UNCHANGED <<issued, started, pages, sent, events, join, core, request>>
        /\ out' = NoReply
    BY <1>1, <1>4, CatalogueTypes
  <2>2. ReplayTellsWhatWasSent'
    BY <2>1 DEF ReplayTellsWhatWasSent, NoReply
  <2>3. QED  BY <1>3, <2>1, <2>2 DEF IInv
<1>5. CASE UNCHANGED servingVars
  <2>1. UNCHANGED <<now, row, session, minted, cookie, issued, started, pages, events, sent,
                    join, core, request, out>>
    BY <1>5 DEF servingVars
  <2>2. Types'
    BY <1>1, <2>1 DEF Types
  <2>3. ReplayTellsWhatWasSent'
    BY <1>1, <2>1 DEF ReplayTellsWhatWasSent
  <2>4. QED  BY <1>3, <2>1, <2>2, <2>3 DEF IInv
<1>6. QED
  BY <1>2, <1>4, <1>5 DEF ServingNext

\* The invariant holds in every reachable state, for any catalogue and
\* corrections, visitors, page sizes and interleaving of requests.
THEOREM ServingInvariance == ServingSpec => []IInv
<1>1. QED
  BY InvInit, InvStep, PTL DEF ServingSpec

\* Every variable keeps its type: rows, cursors, stored pages, requests.
THEOREM ServingTypeCorrect == ServingSpec => []ServingTypeOK
<1>1. IInv => ServingTypeOK
  <2> SUFFICES ASSUME IInv PROVE ServingTypeOK
    OBVIOUS
  <2>1. Types
    BY DEF IInv
  <2>2. \A c \in issued : /\ c.offset \in Nat /\ c.filter \in Filters
                          /\ c.search \in Searches /\ c.limit \in Limits
    BY <2>1 DEF Types, CursorRecord
  <2>3. \A s \in Searches : /\ DOMAIN pages[s] \subseteq Nat \ {0}
                            /\ \A n \in DOMAIN pages[s] : pages[s][n] \in PageRecord
    BY <2>1 DEF Types
  <2>4. \A v \in Visitors : request[v].step \in {"idle", "read", "answered", "calling", "joined"}
    BY <2>1, RequestKinds
  <2>5. QED  BY <2>1, <2>2, <2>3, <2>4 DEF Types, ServingTypeOK
<1>2. QED
  BY <1>1, ServingInvariance, PTL

\* A replay shows what was first sent, without what has been withdrawn since,
\* to the session it was sent to (_replay_search).
THEOREM ReplaysFaithful == ServingSpec => []ReplayTellsWhatWasSent
<1>1. IInv => ReplayTellsWhatWasSent
  BY DEF IInv
<1>2. QED
  BY <1>1, ServingInvariance, PTL

\* The pages on record of a search are consecutive cuts of their matches, of
\* one size, and each says rightly whether another follows (encode_cursor).
THEOREM PagesAreCuts == ServingSpec => []PagesJoinUp
<1>1. IInv => PagesJoinUp
  <2> SUFFICES ASSUME IInv, NEW s \in Searches, NEW n \in DOMAIN pages[s]
               PROVE  /\ pages[s][n].data = Slice(pages[s][n].matched,
                                                  (n - 1) * pages[s][n].limit, pages[s][n].limit)
                      /\ pages[s][n].next <=> n * pages[s][n].limit < Len(pages[s][n].matched)
                      /\ \A i \in DOMAIN pages[s] : pages[s][i].limit = pages[s][n].limit
    BY DEF PagesJoinUp
  <2>1. PageOf(pages[s][n], n)
    BY DEF IInv, Kept, Cut
  <2>2. PICK l \in Nat : PagedBy(s, l)
    BY DEF IInv, Kept, OneSize
  <2>3. \A i \in DOMAIN pages[s] : pages[s][i].limit = l
    BY <2>2 DEF PagedBy
  <2>4. QED  BY <2>1, <2>3 DEF PageOf
<1>2. QED
  BY <1>1, ServingInvariance, PTL

\* The funnel counts exactly the searches whose first page is on record
\* (enqueue_analytics_event in search's transaction).
THEOREM EventsMatchPages == ServingSpec => []EventIffRecorded
<1>1. IInv => EventIffRecorded
  BY DEF IInv
<1>2. QED
  BY <1>1, ServingInvariance, PTL

\* A stored hand-over is one that Core has, and Core has only searches on
\* record here, whatever calls fail or are lost (create_join_intent).
THEOREM HandoversHold == ServingSpec => []HandoversAreBacked
<1>1. IInv => HandoversAreBacked
  BY DEF IInv, Backed
<1>2. QED
  BY <1>1, ServingInvariance, PTL

\* No step takes over, rewrites or removes a first page that is on record
\* (record_search_response).
THEOREM FirstPagesStay == ServingSpec => OwnerKeepsFirstPage
<1>1. ASSUME IInv, [ServingNext]_servingVars, NEW s \in Searches, 1 \in DOMAIN pages[s]
      PROVE  1 \in DOMAIN pages'[s] /\ pages'[s][1] = pages[s][1]
  <2>1. CASE \E v \in Visitors : SearchCommit(v)
    <3>1. PICK v \in Visitors : SearchCommit(v)
      BY <2>1
    <3>2. Types /\ Kept
      BY <1>1 DEF IInv
    <3>3. PICK p : Stores(v, request[v].at[1], request[v].at[2], p)
      BY <3>1, <3>2, CommitFacts
    <3>4. request[v].at[1] \in Searches /\ Searching(v)
      BY <3>3 DEF Stores
    <3>5. Stored(request[v].at[1], request[v].at[2], p)
      BY <3>2, <3>3, <3>4, StoredPages
    <3>6. request[v].at[2] = 1 => request[v].at[1] # s
      BY <1>1, <3>2, <3>4 DEF Kept, FirstPages, Opens
    <3>7. QED  BY <1>1, <3>4, <3>5, <3>6 DEF Stored
  <2>2. CASE ~ \E v \in Visitors : SearchCommit(v)
    <3>1. CASE \E v \in Visitors : Visit(v)
      BY <1>1, <2>2, <3>1, OnlyCommitsStore
    <3>2. CASE (\E c \in Cycles : Withdraw(c) \/ \E a \in Corrections[c] : Correct(c, a)) \/ Tick
      BY <1>1, <3>2 DEF Withdraw, Correct, Tick
    <3>3. CASE UNCHANGED servingVars
      BY <1>1, <3>3 DEF servingVars
    <3>4. QED  BY <1>1, <3>1, <3>2, <3>3 DEF ServingNext
  <2>3. QED  BY <2>1, <2>2
<1>2. IInv /\ [ServingNext]_servingVars =>
        [\A s \in Searches :
            1 \in DOMAIN pages[s] => /\ 1 \in DOMAIN pages'[s]
                                    /\ pages'[s][1] = pages[s][1]]_servingVars
  BY <1>1
<1>3. QED
  BY <1>2, ServingInvariance, PTL DEF ServingSpec, OwnerKeepsFirstPage

-----------------------------------------------------------------------------
(* Search serving implements SearchHistory.  An answer of page one is the   *)
(* first of its search, for Opens; a commit stores page one as answered,    *)
(* for Opens too, any page only of a search that was answered, for Begun,   *)
(* and of its one size, for OneSize; what Core is offered is on record, and *)
(* what is settled is with Core, for Backed.                                *)

HistoryVars == <<sent, pages, events, core, {k \in Keys : join[k] # "none"}>>

LEMMA AnswersOnce ==
    ASSUME Types, Kept, NEW v \in Visitors, SearchAnswer(v)
    PROVE  \/ \E s \in Searches : History!Answer(s)
           \/ UNCHANGED HistoryVars
<1> DEFINE r == request[v]
           s == r.at[1]
<1>1. r \in SearchRequest
  BY RequestKinds DEF SearchAnswer, Searching
<1>2. s \in Searches
  BY <1>1 DEF SearchRequest
<1>3. /\ sent' = IF r.at[2] = 1 /\ sent[s] = NoPage THEN [sent EXCEPT ![s] = r.new] ELSE sent
      /\ UNCHANGED <<pages, events, core, join>>
  BY DEF SearchAnswer
<1> HIDE DEF r, s
<1>4. CASE sent' = sent
  BY <1>3, <1>4 DEF HistoryVars
<1>5. CASE sent' # sent
  <2>1. sent[s] = NoPage /\ sent' = [sent EXCEPT ![s] = r.new]
    BY <1>3, <1>5
  <2>2. sent'[s] = r.new
    BY <1>2, <2>1 DEF Types
  <2>3. sent' = [sent EXCEPT ![s] = sent'[s]]
    BY <2>1, <2>2
  <2>4. History!Answer(s)
    BY <1>3, <2>1, <2>3 DEF History!Answer
  <2>5. QED  BY <1>2, <2>4
<1>6. QED  BY <1>4, <1>5

LEMMA CommitRecords ==
    ASSUME IInv, NEW v \in Visitors, SearchCommit(v)
    PROVE  \E s \in Searches : \E n \in DOMAIN pages'[s] : History!Record(s, n)
<1> DEFINE s == request[v].at[1]
           n == request[v].at[2]
<1>1. Types /\ Kept /\ Begun
  BY DEF IInv
<1>2. PICK p : Stores(v, s, n, p)
  BY <1>1, CommitFacts
<1>3. /\ s \in Searches /\ Searching(v) /\ request[v].step = "answered"
      /\ p.limit = request[v].new.limit /\ (n = 1 => p = request[v].new)
      /\ pages' = [pages EXCEPT ![s] = [i \in DOMAIN @ \cup {n} |-> IF i = n THEN p ELSE @[i]]]
  BY <1>2 DEF Stores
<1>4. n \in DOMAIN pages'[s] /\ pages'[s][n] = p
  <2>1. Stored(s, n, p)
    BY <1>1, <1>2, <1>3, StoredPages
  <2>2. QED  BY <2>1 DEF Stored
<1>5. sent[s] # NoPage
  BY <1>1, <1>3 DEF Begun
<1>6. n = 1 => 1 \notin DOMAIN pages[s] /\ sent[s] = p
  BY <1>1, <1>3 DEF Kept, FirstPages, Opens
<1>7. \A i \in DOMAIN pages[s] : pages[s][i].limit = p.limit
  <2>1. PICK l \in Nat : PagedBy(s, l)
    BY <1>1, <1>3 DEF Kept, OneSize
  <2>2. QED  BY <1>3, <2>1 DEF PagedBy
<1>8. events' = IF n = 1 THEN events \cup {s} ELSE events
  BY DEF SearchCommit, EventsOf
<1>9. UNCHANGED <<sent, core, join>>
  BY DEF SearchCommit
<1> HIDE DEF s, n
<1>10. History!Record(s, n)
  BY <1>3, <1>4, <1>5, <1>6, <1>7, <1>8, <1>9 DEF History!Record
<1>11. QED  BY <1>3, <1>4, <1>10

\* A call of Core hands it the search of the request, or nothing.
LEMMA CoreTakes ==
    ASSUME IInv, NEW v \in Visitors, CoreAnswers(v) \/ CoreFails(v)
    PROVE  \/ \E s \in Searches : \E k \in Keys : History!Take(k, s)
           \/ UNCHANGED HistoryVars
<1> DEFINE r == request[v]
<1>1. Types /\ Backed
  BY DEF IInv
<1>2. Joining(v)
  BY DEF CoreAnswers, CoreFails, Joining
<1>3. r.key \in Keys /\ r.search \in Searches /\ DOMAIN pages[r.search] # {}
  BY <1>1, <1>2, RequestKinds DEF JoinRequest, Backed, JoinsBacked
<1>4. UNCHANGED <<sent, pages, events, join>>
  <2>1. UNCHANGED <<sent, pages, events>>
    BY DEF CoreAnswers, CoreFails
  <2>2. join' = join \/ join' = [join EXCEPT ![r.key] = join[r.key]]
    BY DEF CoreAnswers, CoreFails, AfterFailure
  <2>3. QED  BY <1>1, <2>1, <2>2 DEF Types
<1>5. core' = core \/ (core[r.key] = 0 /\ core' = [core EXCEPT ![r.key] = r.search])
  BY DEF CoreAnswers, CoreFails, CoreKeeps
<1> HIDE DEF r
<1>6. CASE core' = core
  BY <1>4, <1>6 DEF HistoryVars
<1>7. CASE core[r.key] = 0 /\ core' = [core EXCEPT ![r.key] = r.search]
  <2>1. History!Take(r.key, r.search)
    BY <1>3, <1>4, <1>7 DEF History!Take
  <2>2. QED  BY <1>3, <2>1 DEF History!Take
<1>8. QED  BY <1>5, <1>6, <1>7

LEMMA CommitSettles ==
    ASSUME IInv, NEW v \in Visitors, JoinCommit(v)
    PROVE  \E k \in Keys : History!Settle(k)
<1> DEFINE k == request[v].key
<1>1. Types /\ Backed
  BY DEF IInv
<1>2. Joining(v) /\ request[v].step = "joined"
  BY DEF JoinCommit, Joining
<1>3. k \in Keys /\ core[k] # 0
  BY <1>1, <1>2, RequestKinds DEF JoinRequest, Backed, JoinsBacked
<1>4. join' = [join EXCEPT ![k] = "created"] /\ UNCHANGED <<sent, pages, events, core>>
  BY DEF JoinCommit
<1> HIDE DEF k
<1>5. \A x \in Keys : join'[x] = IF x = k THEN "created" ELSE join[x]
  BY <1>1, <1>4 DEF Types
<1>6. {x \in Keys : join'[x] # "none"} = {x \in Keys : join[x] # "none"} \cup {k}
  BY <1>3, <1>5
<1>7. History!Settle(k)
  BY <1>3, <1>4, <1>6 DEF History!Settle
<1>8. QED  BY <1>3, <1>7 DEF History!Settle

LEMMA HistoryStep ==
    IInv /\ [ServingNext]_servingVars => [History!Next]_HistoryVars
<1> SUFFICES ASSUME IInv, [ServingNext]_servingVars
             PROVE  History!Next \/ UNCHANGED HistoryVars
  OBVIOUS
<1>1. Types /\ Kept
  BY DEF IInv
<1>2. ASSUME NEW v \in Visitors, Visit(v) PROVE History!Next \/ UNCHANGED HistoryVars
  <2>1. CASE SearchAnswer(v)
    BY <1>1, <2>1, AnswersOnce DEF History!Next
  <2>2. CASE SearchCommit(v)
    BY <2>2, CommitRecords DEF History!Next
  <2>3. CASE CoreAnswers(v) \/ CoreFails(v)
    BY <2>3, CoreTakes DEF History!Next
  <2>4. CASE JoinCommit(v)
    BY <2>4, CommitSettles DEF History!Next
  <2>5. CASE ~(SearchAnswer(v) \/ SearchCommit(v) \/ CoreAnswers(v) \/ CoreFails(v) \/ JoinCommit(v))
    <3>1. UNCHANGED <<sent, pages, events, core, join>>
      BY <1>2, <2>5 DEF Visit, SearchRead, SearchConflict, SearchLost, Replay, JoinStart, JoinLost
    <3>2. QED  BY <3>1 DEF HistoryVars
  <2>6. QED  BY <2>1, <2>2, <2>3, <2>4, <2>5
<1>3. CASE (\E c \in Cycles : Withdraw(c) \/ \E a \in Corrections[c] : Correct(c, a)) \/ Tick
  BY <1>3 DEF Withdraw, Correct, Tick, HistoryVars
<1>4. CASE UNCHANGED servingVars
  BY <1>4 DEF servingVars, HistoryVars
<1>5. QED
  BY <1>2, <1>3, <1>4 DEF ServingNext

\* Search serving does what SearchHistory promises, for any catalogue,
\* visitors, page sizes, keys and losses: whatever requests overlap, fail or
\* are lost after their answer, what is on record of a search, in the funnel
\* and at Core only grows, first pages stay as they were answered, and each
\* rests on the one before it (search, record_search_response,
\* create_join_intent).
THEOREM ServingImplementsHistory == ServingSpec => ImplementsHistory
<1>1. ServingInit => History!Init
  <2> SUFFICES ASSUME ServingInit PROVE History!Init
    OBVIOUS
  <2>1. {k \in Keys : join[k] # "none"} = {}
    BY DEF ServingInit
  <2>2. QED  BY <2>1 DEF ServingInit, History!Init
<1>2. IInv /\ [ServingNext]_servingVars => [History!Next]_(History!historyVars)
  BY HistoryStep DEF HistoryVars, History!historyVars
<1>3. QED
  BY <1>1, <1>2, ServingInvariance, PTL DEF ServingSpec, ImplementsHistory, History!Spec

=============================================================================

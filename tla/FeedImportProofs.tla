-------------------------- MODULE FeedImportProofs --------------------------
(***************************************************************************)
(* Proofs about FeedImport, for any file, any harvest and any number of    *)
(* imports at once.  What keeps a page's rows consistent is that an open   *)
(* import holds every page it has written a row for, and that a page's row *)
(* can only be held by an import that sees it.                             *)
(***************************************************************************)
EXTENDS FeedImport, TLAPS, FiniteSetTheorems

ImportRecord ==
    [batch : Seq(FeedRecord), at : Nat \ {0}, touched : SUBSET Pages, waits : BOOLEAN,
     counts : Counts, fate : {"open", "stored", "cut", "lost"}]

Batches == 1..Len(File)
ScriptState ==
    [step : {"idle"}, batch : {0}] \cup [step : {"sending"}, batch : Batches]
    \cup [step : {"waiting"}, batch : Batches, by : Importers]
    \cup [step : {"done"}, batch : {Len(File)}]

TypesOK ==
    /\ active \in [Sources -> BOOLEAN]
    /\ page \subseteq [at : Pages, run : Nat]
    /\ discovery \in Seq(DiscoveryRow)
    /\ quarantine \subseteq [run : Nat \ {0}, record : Rec]
    /\ jobs \subseteq Nat
    /\ crawl \in Seq(ImportRecord)
    /\ Len(crawl) <= MaxRuns
    /\ import \in [Importers -> 0..MaxRuns]
    /\ script \in ScriptState

\* Rows come from imports there have been, or from the Agent.
RunsKnown ==
    /\ \A d \in DOMAIN discovery : /\ discovery[d].run \in 0..Len(crawl)
                                   /\ discovery[d].split => discovery[d].run = 0
    /\ \A q \in page : q.run \in 0..Len(crawl)
    /\ \A q \in quarantine : q.run \in 1..Len(crawl)

\* A process is at an open import, and no two are at the same one.
ImportersApart ==
    /\ \A i \in Importers : import[i] # 0 => Open(import[i])
    /\ \A i, j \in Importers : import[i] = import[j] /\ import[i] # 0 => i = j

-----------------------------------------------------------------------------
(* Pages and their rows *)

\* What is stored or may come to be.
Live(n) == n \in DOMAIN crawl => crawl[n].fate # "lost"

\* A row's page is there for whoever sees the row.
PagesBehind ==
    \A d \in DOMAIN discovery : \E m \in Inserters(discovery[d].page) :
        m = discovery[d].run \/ StoredBy(m)

\* An open import holds the pages of its rows, nobody else holds them, and
\* it sees the pages it holds.
LocksHeld ==
    /\ \A d \in DOMAIN discovery :
        Open(discovery[d].run) => discovery[d].page \in crawl[discovery[d].run].touched
    /\ \A m, n \in DOMAIN crawl :
        Open(m) /\ Open(n) /\ m # n => crawl[m].touched \cap crawl[n].touched = {}
    /\ \A n \in DOMAIN crawl : Open(n) => \A p \in crawl[n].touched :
        \E m \in Inserters(p) : SeenBy(n, m)

\* OneDiscoveryPerContent and the one root, of the rows still to come too.
LiveRowsApart ==
    \A d, e \in DOMAIN discovery :
        /\ Live(discovery[d].run) /\ Live(discovery[e].run)
        /\ discovery[d].page = discovery[e].page
        /\ \/ discovery[d].content = discovery[e].content
           \/ Root(d) /\ Root(e)
        => d = e

\* A revision supersedes an older row that whoever sees it sees too.
Lineage ==
    \A d \in DOMAIN discovery : discovery[d].supersedes # 0 =>
        LET h == discovery[d].supersedes IN
        /\ h \in DOMAIN discovery /\ h < d
        /\ discovery[h].page = discovery[d].page
        /\ ~discovery[h].split
        /\ discovery[h].run = discovery[d].run \/ StoredBy(discovery[h].run)

RowsOK == PagesBehind /\ LocksHeld /\ LiveRowsApart /\ Lineage

-----------------------------------------------------------------------------
(* Books and the script *)

JobsComplete == DOMAIN discovery \subseteq jobs

\* A record that import n has dealt with.
DealtWith(n, r) ==
    \/ \E d \in DOMAIN discovery : /\ discovery[d].page = PageOf(r)
                                   /\ discovery[d].content = r.content
                                   /\ SeenBy(n, discovery[d].run)
    \/ \E q \in quarantine : q.record = r /\ q.run = n

BookOK(n) ==
    LET k == crawl[n].counts IN
    /\ k.imported + k.repeated + k.changed + k.rejected + 1 = crawl[n].at
    /\ crawl[n].at <= Len(crawl[n].batch) + 1
    /\ crawl[n].fate = "stored" => crawl[n].at = Len(crawl[n].batch) + 1
    /\ \A i \in 1..(crawl[n].at - 1) : DealtWith(n, crawl[n].batch[i])
    /\ k.rejected > 0 <=> \E q \in quarantine : q.run = n

BooksOK == \A n \in DOMAIN crawl : BookOK(n)

\* The batches before the script's are in the tables.
Delivered(b) ==
    \A i \in DOMAIN Sendable(File[b]) :
        Arrived(Sendable(File[b])[i]) \/ SetAside(Sendable(File[b])[i])
ScriptOK ==
    /\ \A b \in Batches :
        (b < script.batch \/ (b = script.batch /\ script.step = "done")) => Delivered(b)
    /\ script.step = "waiting" =>
        /\ import[script.by] # 0
        /\ crawl[import[script.by]].batch = Sendable(File[script.batch])

IInv ==
    /\ TypesOK
    /\ RunsKnown
    /\ ImportersApart
    /\ RowsOK
    /\ JobsComplete
    /\ BooksOK
    /\ ScriptOK

-----------------------------------------------------------------------------
(* Rows of crawl *)

\* What an import makes of its row when it has dealt with a record.
Buckets == {"imported", "repeated", "changed", "rejected"}
Changed(r, a, k, t) == [r EXCEPT !.at = a, !.counts = k, !.touched = t]
CountedIn(k, bucket) == [k EXCEPT ![bucket] = k[bucket] + 1]
AdvancedRow(n, bucket, P) ==
    Changed(crawl[n], crawl[n].at + 1, CountedIn(crawl[n].counts, bucket), crawl[n].touched \cup P)
Holding(r, P) == [r EXCEPT !.touched = r.touched \cup P]
Touched(s, n, P) == [s EXCEPT ![n].touched = @ \cup P]

LEMMA CountsRow ==
    ASSUME NEW k \in Counts, NEW bucket \in Buckets
    PROVE  LET l == CountedIn(k, bucket) IN
           /\ l \in Counts
           /\ l.imported + l.repeated + l.changed + l.rejected
                = k.imported + k.repeated + k.changed + k.rejected + 1
           /\ l.rejected = IF bucket = "rejected" THEN k.rejected + 1 ELSE k.rejected
<1>1. CASE bucket = "imported"  BY <1>1 DEF Counts, CountedIn
<1>2. CASE bucket = "repeated"  BY <1>2 DEF Counts, CountedIn
<1>3. CASE bucket = "changed"  BY <1>3 DEF Counts, CountedIn
<1>4. CASE bucket = "rejected"  BY <1>4 DEF Counts, CountedIn
<1>5. QED  BY <1>1, <1>2, <1>3, <1>4 DEF Buckets

LEMMA ChangedRecord ==
    ASSUME NEW r \in ImportRecord, NEW a \in Nat \ {0}, NEW k \in Counts, NEW t \in SUBSET Pages
    PROVE  /\ Changed(r, a, k, t) \in ImportRecord
           /\ Changed(r, a, k, t).batch = r.batch
           /\ Changed(r, a, k, t).fate = r.fate
           /\ Changed(r, a, k, t).waits = r.waits
           /\ Changed(r, a, k, t).at = a
           /\ Changed(r, a, k, t).counts = k
           /\ Changed(r, a, k, t).touched = t
BY DEF ImportRecord, Changed

LEMMA AdvancedRecord ==
    ASSUME TypesOK, NEW n \in DOMAIN crawl, NEW bucket \in Buckets, NEW P \in SUBSET Pages
    PROVE  /\ AdvancedRow(n, bucket, P) \in ImportRecord
           /\ AdvancedRow(n, bucket, P).batch = crawl[n].batch
           /\ AdvancedRow(n, bucket, P).fate = crawl[n].fate
           /\ AdvancedRow(n, bucket, P).waits = crawl[n].waits
           /\ AdvancedRow(n, bucket, P).at = crawl[n].at + 1
           /\ AdvancedRow(n, bucket, P).touched = crawl[n].touched \cup P
           /\ AdvancedRow(n, bucket, P).counts = CountedIn(crawl[n].counts, bucket)
<1>1. crawl[n] \in ImportRecord
  BY DEF TypesOK
<1>2. /\ crawl[n].counts \in Counts /\ crawl[n].at + 1 \in Nat \ {0}
      /\ crawl[n].touched \cup P \in SUBSET Pages
  BY <1>1 DEF ImportRecord
<1>3. CountedIn(crawl[n].counts, bucket) \in Counts
  BY <1>2, CountsRow
<1>4. QED
  BY <1>1, <1>2, <1>3, ChangedRecord DEF AdvancedRow

\* EXCEPT of a field of a row is EXCEPT of the row.
LEMMA TouchedRow ==
    ASSUME NEW s \in Seq(ImportRecord), NEW n \in 1..Len(s), NEW P,
           NEW r \in ImportRecord, NEW u, u = [s EXCEPT ![n] = r]
    PROVE  Touched(u, n, P) = [s EXCEPT ![n] = Holding(r, P)]
<1>1. u[n] = r
  OBVIOUS
<1>2. QED
  BY <1>1 DEF ImportRecord, Touched, Holding

LEMMA CountedRow ==
    ASSUME TypesOK, NEW n \in DOMAIN crawl, NEW bucket \in Buckets, NEW P \in SUBSET Pages
    PROVE  /\ Touched(Counted(n, bucket), n, P) = [crawl EXCEPT ![n] = AdvancedRow(n, bucket, P)]
           /\ Counted(n, bucket) = [crawl EXCEPT ![n] = AdvancedRow(n, bucket, {})]
<1> DEFINE c == crawl[n]
           a == c.at + 1
           k == CountedIn(c.counts, bucket)
           r == Changed(c, a, k, c.touched)
<1>1. c \in ImportRecord /\ crawl \in Seq(ImportRecord) /\ n \in 1..Len(crawl)
  BY DEF TypesOK
<1>2. /\ c.counts \in Counts /\ a \in Nat \ {0}
      /\ c.touched \in SUBSET Pages
  BY <1>1 DEF ImportRecord
<1>3. k \in Counts
  BY <1>2, CountsRow
<1>4. Counted(n, bucket) = [crawl EXCEPT ![n] = [c EXCEPT !.at = a, !.counts = k]]
  BY <1>1, <1>2 DEF Counted, ImportRecord, CountedIn
<1> HIDE DEF k, a, c
<1>5. [c EXCEPT !.at = a, !.counts = k] = r
  BY <1>1, <1>2, <1>3 DEF Changed, ImportRecord
<1>6. r \in ImportRecord /\ r.touched = c.touched
  BY <1>1, <1>2, <1>3, ChangedRecord
<1>7. Holding(r, P) = Changed(c, a, k, c.touched \cup P)
  BY <1>1, <1>2, <1>3, <1>6 DEF Changed, ImportRecord, Holding
<1> HIDE DEF r
<1>8. Counted(n, bucket) = [crawl EXCEPT ![n] = r]
  BY <1>4, <1>5
<1>9. Touched(Counted(n, bucket), n, P) = [crawl EXCEPT ![n] = Holding(r, P)]
  <2>1. \A v \in ImportRecord : \A u :
            u = [crawl EXCEPT ![n] = v] => Touched(u, n, P) = [crawl EXCEPT ![n] = Holding(v, P)]
    BY <1>1, TouchedRow
  <2>2. QED  BY <1>6, <1>8, <2>1
<1>10. Touched(Counted(n, bucket), n, P) = [crawl EXCEPT ![n] = Changed(c, a, k, c.touched \cup P)]
  BY <1>6, <1>7, <1>8, <1>9
<1>11. c.touched \cup {} = c.touched
  BY <1>2
<1>12. QED
  BY <1>8, <1>10, <1>11 DEF AdvancedRow, a, k, c, r

\* A row is replaced.
LEMMA ReplacedRow ==
    ASSUME TypesOK, NEW n \in DOMAIN crawl, NEW r \in ImportRecord, crawl' = [crawl EXCEPT ![n] = r]
    PROVE  /\ crawl' \in Seq(ImportRecord)
           /\ Len(crawl') = Len(crawl) /\ DOMAIN crawl' = DOMAIN crawl
           /\ crawl'[n] = r
           /\ \A m \in DOMAIN crawl : m # n => crawl'[m] = crawl[m]
BY DEF TypesOK

\* A row is added.
LEMMA AddedRow ==
    ASSUME TypesOK, NEW b \in Seq(FeedRecord), crawl' = Append(crawl, Import(b))
    PROVE  /\ crawl' \in Seq(ImportRecord)
           /\ Len(crawl') = Len(crawl) + 1
           /\ DOMAIN crawl = 1..Len(crawl) /\ DOMAIN crawl' = 1..(Len(crawl) + 1)
           /\ crawl'[Len(crawl) + 1] = Import(b)
           /\ \A m \in DOMAIN crawl : crawl'[m] = crawl[m]
<1>1. Import(b) \in ImportRecord
  BY DEF Import, ImportRecord, NoCounts, Counts
<1>2. QED
  BY <1>1 DEF TypesOK

\* A discovery is added.
LEMMA AddedDiscovery ==
    ASSUME TypesOK, NEW e \in DiscoveryRow, discovery' = Append(discovery, e)
    PROVE  /\ discovery' \in Seq(DiscoveryRow)
           /\ Len(discovery) \in Nat
           /\ DOMAIN discovery = 1..Len(discovery)
           /\ DOMAIN discovery' = 1..(Len(discovery) + 1)
           /\ discovery'[Len(discovery) + 1] = e
           /\ \A d \in DOMAIN discovery : discovery'[d] = discovery[d]
BY DEF TypesOK

\* A process that has a record in hand.
LEMMA RecordInHand ==
    ASSUME IInv, NEW i \in Importers, Working(i)
    PROVE  /\ import[i] \in DOMAIN crawl /\ import[i] \in 1..Len(crawl)
           /\ crawl[import[i]] \in ImportRecord /\ crawl[import[i]].fate = "open"
           /\ crawl[import[i]].at \in 1..Len(crawl[import[i]].batch)
           /\ RecordOf(import[i]) \in FeedRecord
           /\ RecordOf(import[i]) \in Rec
           /\ ~Rejected(RecordOf(import[i])) => PageOf(RecordOf(import[i])) \in Pages
<1>1. /\ import[i] \in DOMAIN crawl /\ import[i] \in 1..Len(crawl)
      /\ crawl[import[i]] \in ImportRecord /\ crawl[import[i]].fate = "open"
  BY DEF IInv, TypesOK, ImportersApart, Open, Working
<1>2. crawl[import[i]].at \in 1..Len(crawl[import[i]].batch)
  BY <1>1 DEF Working, ImportRecord
<1>3. RecordOf(import[i]) \in FeedRecord
  BY <1>1, <1>2 DEF RecordOf, ImportRecord
<1>4. QED
  BY <1>1, <1>2, <1>3 DEF FeedRecord, Rec, Rejected, PageOf, Pages

-----------------------------------------------------------------------------
(* What stays *)

\* Nothing stored goes away.
Grown ==
    /\ \A d \in DOMAIN discovery : d \in DOMAIN discovery' /\ discovery'[d] = discovery[d]
    /\ quarantine \subseteq quarantine' /\ jobs \subseteq jobs'
    /\ \A m \in 0..Len(crawl) : StoredBy(m) => StoredBy(m)'

LEMMA DealtWithStays ==
    ASSUME RunsKnown, Grown, NEW n, NEW r, DealtWith(n, r)
    PROVE  DealtWith(n, r)'
BY DEF RunsKnown, Grown, DealtWith, SeenBy

LEMMA ArrivedStays ==
    ASSUME RunsKnown, TypesOK, Grown, NEW r, Arrived(r) \/ SetAside(r)
    PROVE  Arrived(r)' \/ SetAside(r)'
<1>1. ASSUME NEW d \in Stored PROVE d \in Stored'
  BY <1>1 DEF Stored, Grown, RunsKnown
<1>2. ASSUME NEW q \in quarantine PROVE q \in quarantine' /\ q.run \in 0..Len(crawl)
  BY DEF Grown, RunsKnown
<1>3. QED
  BY <1>1, <1>2 DEF Arrived, SetAside, Grown, Stored

LEMMA SameFates ==
    ASSUME DOMAIN crawl' = DOMAIN crawl,
           \A m \in DOMAIN crawl : crawl'[m].fate = crawl[m].fate
    PROVE  /\ \A m : StoredBy(m)' = StoredBy(m) /\ Open(m)' = Open(m) /\ Live(m)' = Live(m)
           /\ \A m, n : SeenBy(n, m)' = SeenBy(n, m)
BY DEF StoredBy, Open, Live, SeenBy

-----------------------------------------------------------------------------
(* RowsOK in steps that add no discovery *)

\* Nobody touches a page or ends.
LEMMA RowsKept ==
    ASSUME RowsOK, UNCHANGED <<page, discovery>>, DOMAIN crawl' = DOMAIN crawl,
           \A m \in DOMAIN crawl : /\ crawl'[m].fate = crawl[m].fate
                                   /\ crawl'[m].touched = crawl[m].touched
    PROVE  RowsOK'
<1>1. /\ \A m : StoredBy(m)' = StoredBy(m) /\ Open(m)' = Open(m) /\ Live(m)' = Live(m)
      /\ \A m, n : SeenBy(n, m)' = SeenBy(n, m)
  BY SameFates
<1>2. \A p : Inserters(p)' = Inserters(p)
  BY DEF Inserters
<1>3. PagesBehind'
  BY <1>1, <1>2 DEF RowsOK, PagesBehind
<1>4. LocksHeld'
  <2>1. \A n : Open(n) => n \in DOMAIN crawl
    BY DEF Open
  <2>2. QED  BY <1>1, <1>2, <2>1 DEF RowsOK, LocksHeld
<1>5. LiveRowsApart'
  BY <1>1 DEF RowsOK, LiveRowsApart, Root
<1>6. Lineage'
  BY <1>1 DEF RowsOK, Lineage
<1>7. QED
  BY <1>3, <1>4, <1>5, <1>6 DEF RowsOK

\* Nobody else holds p.
Free(p, n) == \A m \in DOMAIN crawl : m # n /\ Open(m) => p \notin crawl[m].touched

\* Import n takes a page that is there and that nobody else holds.
LEMMA RowsTouched ==
    ASSUME RowsOK, UNCHANGED <<page, discovery>>, DOMAIN crawl' = DOMAIN crawl,
           NEW n \in DOMAIN crawl, NEW p, CanTouch(p, n),
           \A m \in DOMAIN crawl : /\ crawl'[m].fate = crawl[m].fate
                                   /\ m # n => crawl'[m].touched = crawl[m].touched,
           crawl'[n].touched = crawl[n].touched \cup {p}
    PROVE  RowsOK'
<1>1. /\ \A m : StoredBy(m)' = StoredBy(m) /\ Open(m)' = Open(m) /\ Live(m)' = Live(m)
      /\ \A m, k : SeenBy(k, m)' = SeenBy(k, m)
  BY SameFates
<1>2. \A q : Inserters(q)' = Inserters(q)
  BY DEF Inserters
<1>3. PagesBehind'
  BY <1>1, <1>2 DEF RowsOK, PagesBehind
<1>4. LocksHeld'
  <2>1. \A m : Open(m) => m \in DOMAIN crawl
    BY DEF Open
  <2>2. \A d \in DOMAIN discovery :
            Open(discovery[d].run) => discovery[d].page \in crawl'[discovery[d].run].touched
    BY <2>1 DEF RowsOK, LocksHeld
  <2>3. ASSUME NEW m \in DOMAIN crawl, NEW k \in DOMAIN crawl, Open(m), Open(k), m # k
        PROVE  crawl'[m].touched \cap crawl'[k].touched = {}
    <3>1. crawl[m].touched \cap crawl[k].touched = {}
      BY <2>3 DEF RowsOK, LocksHeld
    <3>2. CASE m = n  BY <2>3, <3>1, <3>2 DEF CanTouch
    <3>3. CASE k = n  BY <2>3, <3>1, <3>3 DEF CanTouch
    <3>4. CASE m # n /\ k # n  BY <3>1, <3>4
    <3>5. QED  BY <3>2, <3>3, <3>4
  <2>4. ASSUME NEW m \in DOMAIN crawl, Open(m), NEW q \in crawl'[m].touched
        PROVE  \E k \in Inserters(q) : SeenBy(m, k)
    BY <2>4 DEF RowsOK, LocksHeld, CanTouch
  <2>5. QED
    BY <1>1, <1>2, <2>2, <2>3, <2>4 DEF LocksHeld
<1>5. LiveRowsApart'
  BY <1>1 DEF RowsOK, LiveRowsApart, Root
<1>6. Lineage'
  BY <1>1 DEF RowsOK, Lineage
<1>7. QED
  BY <1>3, <1>4, <1>5, <1>6 DEF RowsOK

\* Import n ends: what it saw all see now, or nobody ever will.
LEMMA RowsEnded ==
    ASSUME RowsOK, page \subseteq page', UNCHANGED discovery, DOMAIN crawl' = DOMAIN crawl,
           NEW n \in DOMAIN crawl, Open(n), crawl'[n].fate \in {"stored", "cut", "lost"},
           \A m \in DOMAIN crawl : m # n => crawl'[m] = crawl[m]
    PROVE  RowsOK'
<1>1. /\ \A m : /\ StoredBy(m) => StoredBy(m)'
                /\ Open(m)' => Open(m) /\ m \in DOMAIN crawl /\ m # n
                /\ Live(m)' => Live(m)
      /\ \A m, k : SeenBy(k, m) => SeenBy(k, m)'
  BY DEF StoredBy, Open, Live, SeenBy
<1>2. \A q : Inserters(q) \subseteq Inserters(q)'
  BY DEF Inserters
<1>3. PagesBehind'
  BY <1>1, <1>2 DEF RowsOK, PagesBehind
<1>4. LocksHeld'
  <2>1. \A d \in DOMAIN discovery :
            Open(discovery[d].run)' => discovery[d].page \in crawl'[discovery[d].run].touched
    BY <1>1 DEF RowsOK, LocksHeld
  <2>2. ASSUME NEW m \in DOMAIN crawl, NEW k \in DOMAIN crawl, Open(m)', Open(k)', m # k
        PROVE  crawl'[m].touched \cap crawl'[k].touched = {}
    BY <1>1, <2>2 DEF RowsOK, LocksHeld
  <2>3. ASSUME NEW m \in DOMAIN crawl, Open(m)', NEW q \in crawl'[m].touched
        PROVE  \E k \in Inserters(q) : SeenBy(m, k)'
    <3>1. q \in crawl[m].touched /\ Open(m)
      BY <1>1, <2>3
    <3>2. QED  BY <1>1, <3>1 DEF RowsOK, LocksHeld
  <2>4. QED
    BY <1>2, <2>1, <2>2, <2>3 DEF LocksHeld
<1>5. LiveRowsApart'
  BY <1>1 DEF RowsOK, LiveRowsApart, Root
<1>6. Lineage'
  BY <1>1 DEF RowsOK, Lineage
<1>7. QED
  BY <1>3, <1>4, <1>5, <1>6 DEF RowsOK

\* An import begins: it has no rows and holds nothing.
LEMMA RowsBegun ==
    ASSUME TypesOK, RunsKnown, RowsOK, UNCHANGED <<page, discovery>>,
           NEW b \in Seq(FeedRecord), crawl' = Append(crawl, Import(b))
    PROVE  RowsOK'
<1> DEFINE new == Len(crawl) + 1
<1>1. /\ DOMAIN crawl = 1..Len(crawl) /\ DOMAIN crawl' = DOMAIN crawl \cup {new}
      /\ Len(crawl) \in Nat
      /\ crawl'[new].touched = {}
      /\ \A m \in DOMAIN crawl : crawl'[m] = crawl[m]
  BY AddedRow DEF Import, TypesOK
<1>2. \A m \in 0..Len(crawl) :
        /\ StoredBy(m)' = StoredBy(m) /\ Open(m)' = Open(m) /\ Live(m)' = Live(m)
        /\ \A n : SeenBy(n, m)' = SeenBy(n, m)
  BY <1>1 DEF StoredBy, Open, Live, SeenBy
<1>3. \A q : Inserters(q)' = Inserters(q) /\ Inserters(q) \subseteq 0..Len(crawl)
  BY DEF Inserters, RunsKnown
<1>4. \A d \in DOMAIN discovery : discovery[d].run \in 0..Len(crawl)
  BY DEF RunsKnown
<1>5. PagesBehind'
  BY <1>2, <1>3, <1>4 DEF RowsOK, PagesBehind
<1>6. LocksHeld'
  <2>1. \A d \in DOMAIN discovery :
            Open(discovery[d].run)' => discovery[d].page \in crawl'[discovery[d].run].touched
    BY <1>1, <1>2, <1>4 DEF RowsOK, LocksHeld, Open
  <2>2. ASSUME NEW m \in DOMAIN crawl', NEW k \in DOMAIN crawl', Open(m)', Open(k)', m # k
        PROVE  crawl'[m].touched \cap crawl'[k].touched = {}
    <3>1. CASE m = new \/ k = new  BY <1>1, <3>1
    <3>2. CASE m # new /\ k # new
      BY <1>1, <1>2, <2>2, <3>2 DEF RowsOK, LocksHeld
    <3>3. QED  BY <3>1, <3>2
  <2>3. ASSUME NEW m \in DOMAIN crawl', Open(m)', NEW q \in crawl'[m].touched
        PROVE  \E k \in Inserters(q) : SeenBy(m, k)'
    <3>1. m \in DOMAIN crawl /\ Open(m) /\ q \in crawl[m].touched
      BY <1>1, <1>2, <2>3
    <3>2. QED  BY <1>2, <1>3, <3>1 DEF RowsOK, LocksHeld
  <2>4. QED
    BY <1>3, <2>1, <2>2, <2>3 DEF LocksHeld
<1>7. LiveRowsApart'
  BY <1>2, <1>4 DEF RowsOK, LiveRowsApart, Root
<1>8. Lineage'
  BY <1>2, <1>4 DEF RowsOK, Lineage
<1>9. QED
  BY <1>5, <1>6, <1>7, <1>8 DEF RowsOK

-----------------------------------------------------------------------------
(* RowsOK in steps that add a discovery *)

\* What the writer of row e by import n (0 for the Agent) must have made sure
\* of: its page is there, it is held by nobody else, and no row on it that n
\* sees has the content or is a root beside e.
Admissible(e, n) ==
    /\ e.run = n
    /\ Free(e.page, n)
    /\ \A d \in On(e.page, n) : /\ discovery[d].content # e.content
                                /\ e.split \/ e.supersedes # 0 \/ ~Root(d)
    /\ e.supersedes # 0 => e.supersedes \in Revisions(e.page, n)

\* With what the others hold, no live row can stand beside an admissible one.
LEMMA NoRival ==
    ASSUME TypesOK, RowsOK, NEW e \in DiscoveryRow, NEW n, Admissible(e, n),
           NEW d \in DOMAIN discovery, discovery[d].page = e.page, Live(discovery[d].run)
    PROVE  d \in On(e.page, n)
<1>1. CASE SeenBy(n, discovery[d].run)
  BY <1>1 DEF On
<1>2. CASE ~SeenBy(n, discovery[d].run)
  <2>1. Open(discovery[d].run) /\ discovery[d].run # n /\ discovery[d].run \in DOMAIN crawl
    <3>1. discovery[d].run # n /\ discovery[d].run \in DOMAIN crawl
      BY <1>2 DEF SeenBy, StoredBy
    <3>2. crawl[discovery[d].run] \in ImportRecord
      BY <3>1 DEF TypesOK
    <3>3. QED  BY <1>2, <3>1, <3>2 DEF SeenBy, StoredBy, Open, Live, ImportRecord
  <2>2. e.page \in crawl[discovery[d].run].touched
    BY <2>1 DEF RowsOK, LocksHeld
  <2>3. QED  BY <2>1, <2>2 DEF Admissible, Free
<1>3. QED  BY <1>1, <1>2

LEMMA RowsAdded ==
    ASSUME TypesOK, RowsOK, NEW e \in DiscoveryRow, NEW n, Admissible(e, n),
           n # 0 => Open(n), n = 0 => n \notin DOMAIN crawl,
           discovery' = Append(discovery, e),
           page \subseteq page',
           \A q \in page' \ page : q.at = e.page /\ q.run = n,
           \E m \in Inserters(e.page)' : SeenBy(n, m),
           DOMAIN crawl' = DOMAIN crawl,
           \A m \in DOMAIN crawl : crawl'[m].fate = crawl[m].fate,
           \A m \in DOMAIN crawl : m # n => crawl'[m].touched = crawl[m].touched,
           n # 0 => crawl'[n].touched = crawl[n].touched \cup {e.page}
    PROVE  RowsOK'
<1> DEFINE new == Len(discovery) + 1
<1>1. /\ \A m : StoredBy(m)' = StoredBy(m) /\ Open(m)' = Open(m) /\ Live(m)' = Live(m)
      /\ \A m, k : SeenBy(k, m)' = SeenBy(k, m)
  BY SameFates
<1>2. /\ DOMAIN discovery = 1..Len(discovery) /\ Len(discovery) \in Nat
      /\ DOMAIN discovery' = DOMAIN discovery \cup {new}
      /\ discovery'[new] = e
      /\ \A d \in DOMAIN discovery : discovery'[d] = discovery[d] /\ d # new /\ d < new
  BY AddedDiscovery
<1>3. \A p : Inserters(p) \subseteq Inserters(p)' /\ (p # e.page => Inserters(p)' = Inserters(p))
  BY DEF Inserters
<1>4. \A m : Open(m) => m \in DOMAIN crawl
  BY DEF Open
<1> HIDE DEF new
<1>5. PagesBehind'
  <2>1. ASSUME NEW d \in DOMAIN discovery
        PROVE  \E m \in Inserters(discovery[d].page)' : m = discovery[d].run \/ StoredBy(m)
    BY <1>3 DEF RowsOK, PagesBehind
  <2>2. \E m \in Inserters(e.page)' : m = e.run \/ StoredBy(m)
    BY DEF Admissible, SeenBy
  <2>3. QED  BY <1>1, <1>2, <2>1, <2>2 DEF PagesBehind
<1>6. LocksHeld'
  <2>1. ASSUME NEW d \in DOMAIN discovery', Open(discovery'[d].run)
        PROVE  discovery'[d].page \in crawl'[discovery'[d].run].touched
    <3>1. CASE d = new  BY <1>2, <1>4, <2>1, <3>1 DEF Admissible
    <3>2. CASE d # new
      <4>1. d \in DOMAIN discovery /\ discovery'[d] = discovery[d]
        BY <1>2, <3>2
      <4>2. discovery[d].page \in crawl[discovery[d].run].touched
        BY <2>1, <4>1 DEF RowsOK, LocksHeld
      <4>3. QED  BY <1>4, <2>1, <4>1, <4>2
    <3>3. QED  BY <3>1, <3>2
  <2>2. ASSUME NEW m \in DOMAIN crawl, NEW k \in DOMAIN crawl, Open(m), Open(k), m # k
        PROVE  crawl'[m].touched \cap crawl'[k].touched = {}
    <3>1. crawl[m].touched \cap crawl[k].touched = {}
      BY <2>2 DEF RowsOK, LocksHeld
    <3>2. CASE m = n  BY <2>2, <3>1, <3>2 DEF Admissible, Free
    <3>3. CASE k = n  BY <2>2, <3>1, <3>3 DEF Admissible, Free
    <3>4. CASE m # n /\ k # n  BY <3>1, <3>4
    <3>5. QED  BY <3>2, <3>3, <3>4
  <2>3. ASSUME NEW m \in DOMAIN crawl, Open(m), NEW q \in crawl'[m].touched
        PROVE  \E k \in Inserters(q)' : SeenBy(m, k)
    <3>1. CASE q \in crawl[m].touched
      BY <1>3, <2>3, <3>1 DEF RowsOK, LocksHeld
    <3>2. CASE q \notin crawl[m].touched
      <4>1. m = n /\ q = e.page
        BY <2>3, <3>2
      <4>2. QED  BY <4>1
    <3>3. QED  BY <3>1, <3>2
  <2>4. QED
    BY <1>1, <2>1, <2>2, <2>3 DEF LocksHeld
<1>7. LiveRowsApart'
  <2>1. ASSUME NEW d \in DOMAIN discovery, Live(discovery[d].run), discovery[d].page = e.page
        PROVE  /\ discovery[d].content # e.content
               /\ e.split \/ e.supersedes # 0 \/ ~Root(d)
    BY <2>1, NoRival DEF Admissible
  <2>2. SUFFICES ASSUME NEW c \in DOMAIN discovery', NEW d \in DOMAIN discovery',
                        Live(discovery'[c].run), Live(discovery'[d].run),
                        discovery'[c].page = discovery'[d].page,
                        \/ discovery'[c].content = discovery'[d].content
                        \/ /\ ~discovery'[c].split /\ discovery'[c].supersedes = 0
                           /\ ~discovery'[d].split /\ discovery'[d].supersedes = 0
                 PROVE  c = d
    BY <1>1 DEF LiveRowsApart, Root
  <2>3. CASE c # new /\ d # new
    BY <1>2, <2>2, <2>3 DEF RowsOK, LiveRowsApart, Root
  <2>4. CASE c = new /\ d # new
    BY <1>2, <2>1, <2>2, <2>4 DEF Root
  <2>5. CASE c # new /\ d = new
    BY <1>2, <2>1, <2>2, <2>5 DEF Root
  <2>6. QED  BY <2>3, <2>4, <2>5
<1>8. Lineage'
  <2>1. ASSUME NEW d \in DOMAIN discovery', discovery'[d].supersedes # 0
        PROVE  LET h == discovery'[d].supersedes IN
               /\ h \in DOMAIN discovery /\ h < d
               /\ discovery[h].page = discovery'[d].page
               /\ ~discovery[h].split
               /\ discovery[h].run = discovery'[d].run \/ StoredBy(discovery[h].run)
    <3>1. CASE d # new
      BY <1>2, <2>1, <3>1 DEF RowsOK, Lineage
    <3>2. CASE d = new
      <4>1. e.supersedes \in Revisions(e.page, n)
        BY <1>2, <2>1, <3>2 DEF Admissible
      <4>2. QED  BY <1>2, <3>2, <4>1 DEF Revisions, On, SeenBy, Admissible
    <3>3. QED  BY <3>1, <3>2
  <2>2. QED  BY <1>1, <1>2, <2>1 DEF Lineage
<1>9. QED
  BY <1>5, <1>6, <1>7, <1>8 DEF RowsOK

\* A page that n does not see and nobody is inserting: no live row is on it,
\* and nobody holds it.
LEMMA NewPageFree ==
    ASSUME RowsOK, NEW p, NEW n, NewTo(p, n), \A m \in Inserters(p) : ~Open(m)
    PROVE  Free(p, n) /\ On(p, n) = {}
<1>1. \A m \in Inserters(p) : m # n /\ m \in DOMAIN crawl /\ crawl[m].fate \notin {"stored", "cut", "open"}
  BY DEF NewTo, SeenBy, StoredBy, Open
<1>2. Free(p, n)
  <2>1. SUFFICES ASSUME NEW m \in DOMAIN crawl, m # n, Open(m), p \in crawl[m].touched
                 PROVE  FALSE
    BY DEF Free
  <2>2. PICK k \in Inserters(p) : SeenBy(m, k)
    BY <2>1 DEF RowsOK, LocksHeld
  <2>3. QED  BY <1>1, <2>1, <2>2 DEF SeenBy, StoredBy, Open
<1>3. On(p, n) = {}
  <2>1. SUFFICES ASSUME NEW d \in DOMAIN discovery, discovery[d].page = p, SeenBy(n, discovery[d].run)
                 PROVE  FALSE
    BY DEF On
  <2>2. PICK m \in Inserters(p) : m = discovery[d].run \/ StoredBy(m)
    BY <2>1 DEF RowsOK, PagesBehind
  <2>3. QED  BY <1>1, <2>1, <2>2 DEF SeenBy, StoredBy
<1>4. QED  BY <1>2, <1>3

-----------------------------------------------------------------------------
(* The newest revision *)

\* A finite set of numbers has a greatest member.
LEMMA GreatestMember ==
    ASSUME NEW S, S \subseteq Nat, IsFiniteSet(S), S # {}
    PROVE  \E m \in S : \A k \in S : k <= m
<1> DEFINE From(x) == {k \in S : k >= x}
           F == {From(x) : x \in S}
<1>1. IsWellFoundedOn(StrictSubsetOrdering(S), SUBSET S)
  BY FS_StrictSubsetOrderingWellFounded, FS_FiniteSubsetsOfFinite
<1>2. F \subseteq SUBSET S /\ F # {}
  OBVIOUS
<1>3. PICK T \in F : \A U \in F : <<U, T>> \notin StrictSubsetOrdering(S)
  <2> HIDE DEF F
  <2> QED BY <1>1, <1>2, WFMin
<1>4. PICK m \in S : T = From(m)
  BY <1>3
<1>5. ASSUME NEW k \in S, k > m PROVE FALSE
  <2>1. From(k) \in F /\ T \subseteq S
    BY <1>4, <1>5
  <2>4. ASSUME NEW j \in From(k) PROVE j \in T
    <3>1. j \in S /\ j \in Int /\ k \in Int /\ m \in Int /\ j >= k
      OBVIOUS
    <3>2. j >= m
      BY <3>1, <1>5
    <3> QED BY <3>1, <3>2, <1>4
  <2>2. m \in T /\ m \notin From(k)
    BY <1>4, <1>5
  <2>3. <<From(k), T>> \in StrictSubsetOrdering(S)
    BY <2>1, <2>4, <2>2 DEF StrictSubsetOrdering
  <2> QED BY <2>1, <2>3, <1>3
<1> QED BY <1>5
\* A page with revisions has a newest one.
LEMMA HeadsOfRevisions ==
    ASSUME TypesOK, RunsKnown, NEW p, NEW n, Heads(p, n) = {}
    PROVE  Revisions(p, n) = {}
<1> DEFINE R == Revisions(p, n)
           T == {discovery[d].run : d \in R}
<1>1. SUFFICES ASSUME R # {} PROVE FALSE
  OBVIOUS
<1>2. R \subseteq DOMAIN discovery /\ DOMAIN discovery = 1..Len(discovery) /\ Len(discovery) \in Nat
  BY DEF Revisions, On, TypesOK
<1>3. T \subseteq 0..Len(crawl) /\ Len(crawl) \in Nat
  BY <1>2 DEF RunsKnown, TypesOK
<1>4. IsFiniteSet(T) /\ T \subseteq Nat /\ T # {}
  <2>1. IsFiniteSet(0..Len(crawl))
    BY <1>3, FS_Interval
  <2>2. IsFiniteSet(T)
    BY <1>3, <2>1, FS_Subset
  <2>3. QED  BY <1>1, <1>3, <2>2
<1>5. PICK m \in T : \A k \in T : k <= m
  <2> HIDE DEF T
  <2> QED BY <1>4, GreatestMember
<1>6. PICK d \in R : discovery[d].run = m
  BY <1>5
<1>7. d \in Heads(p, n)
  BY <1>5, <1>6 DEF Heads
<1>8. QED  BY <1>7

-----------------------------------------------------------------------------
(* A record is dealt with *)

\* What every step that deals with a record has in common: its import moves
\* on by one record and one count, and holds the pages P more.
AtRecord(i, n, r) == Working(i) /\ n = import[i] /\ r = RecordOf(n)
Deals(i, n, r, bucket, P) ==
    /\ AtRecord(i, n, r)
    /\ crawl' = [crawl EXCEPT ![n] = AdvancedRow(n, bucket, P)]
    /\ UNCHANGED <<active, import, script>>
    /\ \A d \in DOMAIN discovery : d \in DOMAIN discovery' /\ discovery'[d] = discovery[d]
    /\ \A d \in DOMAIN discovery' \ DOMAIN discovery :
        discovery'[d].run = n /\ ~discovery'[d].split
    /\ page \subseteq page' /\ jobs \subseteq jobs' /\ quarantine \subseteq quarantine'
    /\ \A q \in page' \ page : q.run = n
    /\ \A q \in quarantine' \ quarantine : q.run = n
    /\ bucket = "rejected" => \E q \in quarantine' : q.run = n
    /\ bucket # "rejected" => quarantine' = quarantine
    /\ DealtWith(n, r)'

LEMMA DealsFrame ==
    ASSUME IInv, NEW i \in Importers, NEW n, NEW r, NEW bucket \in Buckets,
           NEW P \in SUBSET Pages, Deals(i, n, r, bucket, P)
    PROVE  /\ n \in DOMAIN crawl
           /\ crawl' \in Seq(ImportRecord)
           /\ Len(crawl') = Len(crawl) /\ DOMAIN crawl' = DOMAIN crawl
           /\ crawl'[n] = AdvancedRow(n, bucket, P)
           /\ \A m \in DOMAIN crawl : /\ m # n => crawl'[m] = crawl[m]
                                      /\ crawl'[m].fate = crawl[m].fate
                                      /\ crawl'[m].batch = crawl[m].batch
           /\ Grown
<1>1. TypesOK /\ n \in DOMAIN crawl
  BY RecordInHand DEF IInv, AtRecord, Deals
<1>2. AdvancedRow(n, bucket, P) \in ImportRecord
      /\ AdvancedRow(n, bucket, P).fate = crawl[n].fate
      /\ AdvancedRow(n, bucket, P).batch = crawl[n].batch
  BY <1>1, AdvancedRecord
<1>3. /\ crawl' \in Seq(ImportRecord)
      /\ Len(crawl') = Len(crawl) /\ DOMAIN crawl' = DOMAIN crawl
      /\ crawl'[n] = AdvancedRow(n, bucket, P)
      /\ \A m \in DOMAIN crawl : m # n => crawl'[m] = crawl[m]
  BY <1>1, <1>2, ReplacedRow DEF AtRecord, Deals
<1>4. \A m \in DOMAIN crawl : crawl'[m].fate = crawl[m].fate /\ crawl'[m].batch = crawl[m].batch
  BY <1>2, <1>3
<1>5. Grown
  <2>1. \A m : StoredBy(m)' = StoredBy(m)
    BY <1>3, <1>4, SameFates
  <2>2. QED  BY <2>1 DEF AtRecord, Deals, Grown
<1>6. QED  BY <1>1, <1>3, <1>4, <1>5

LEMMA DealsBooks ==
    ASSUME IInv, NEW i \in Importers, NEW n, NEW r, NEW bucket \in Buckets,
           NEW P \in SUBSET Pages, Deals(i, n, r, bucket, P)
    PROVE  BooksOK'
<1> DEFINE k == crawl[n].counts
           l == CountedIn(k, bucket)
<1>1. /\ n \in DOMAIN crawl
      /\ crawl' \in Seq(ImportRecord)
      /\ Len(crawl') = Len(crawl) /\ DOMAIN crawl' = DOMAIN crawl
      /\ crawl'[n] = AdvancedRow(n, bucket, P)
      /\ \A m \in DOMAIN crawl : m # n => crawl'[m] = crawl[m]
      /\ Grown /\ RunsKnown /\ TypesOK /\ BooksOK
  <2>1. RunsKnown /\ TypesOK /\ BooksOK
    BY DEF IInv
  <2>2. /\ n \in DOMAIN crawl
        /\ crawl' \in Seq(ImportRecord)
        /\ Len(crawl') = Len(crawl) /\ DOMAIN crawl' = DOMAIN crawl
        /\ crawl'[n] = AdvancedRow(n, bucket, P)
        /\ \A m \in DOMAIN crawl : m # n => crawl'[m] = crawl[m]
        /\ Grown
    BY DealsFrame
  <2>3. QED  BY <2>1, <2>2
<1>2. /\ crawl'[n].at = crawl[n].at + 1 /\ crawl'[n].batch = crawl[n].batch
      /\ crawl'[n].fate = crawl[n].fate /\ crawl'[n].counts = l
  BY <1>1, AdvancedRecord
<1>3. /\ crawl[n].fate = "open" /\ crawl[n].at \in 1..Len(crawl[n].batch)
      /\ crawl[n] \in ImportRecord /\ k \in Counts
  BY RecordInHand DEF AtRecord, Deals, ImportRecord
<1>4. /\ l \in Counts
      /\ l.imported + l.repeated + l.changed + l.rejected
           = k.imported + k.repeated + k.changed + k.rejected + 1
      /\ l.rejected = IF bucket = "rejected" THEN k.rejected + 1 ELSE k.rejected
  BY <1>3, CountsRow
<1>5. BookOK(n)
  BY <1>1 DEF BooksOK
<1> HIDE DEF l
<1>6. ASSUME NEW m \in DOMAIN crawl, m # n PROVE BookOK(m)'
  <2>1. BookOK(m) /\ crawl'[m] = crawl[m]
    BY <1>1, <1>6 DEF BooksOK
  <2>2. ASSUME NEW j \in 1..(crawl[m].at - 1) PROVE DealtWith(m, crawl[m].batch[j])'
    BY <1>1, <2>1, DealtWithStays DEF BookOK
  <2>3. (\E q \in quarantine' : q.run = m) <=> \E q \in quarantine : q.run = m
    BY <1>6 DEF AtRecord, Deals
  <2>4. QED
    BY <2>1, <2>2, <2>3 DEF BookOK, DealtWith
<1>7. BookOK(n)'
  <2>1. ASSUME NEW j \in 1..crawl[n].at, NEW x, x = crawl[n].batch[j] PROVE DealtWith(n, x)'
    <3>1. CASE j = crawl[n].at
      BY <2>1, <3>1 DEF AtRecord, Deals, RecordOf
    <3>2. CASE j # crawl[n].at
      <4>1. j \in 1..(crawl[n].at - 1)
        BY <1>3, <3>2
      <4>2. DealtWith(n, x)
        BY <1>5, <2>1, <4>1 DEF BookOK
      <4>3. QED  BY <1>1, <4>2, DealtWithStays
    <3>3. QED  BY <3>1, <3>2
  <2>2. l.rejected > 0 <=> \E q \in quarantine' : q.run = n
    <3>1. CASE bucket = "rejected"
      BY <1>3, <1>4, <3>1 DEF AtRecord, Deals, Counts
    <3>2. CASE bucket # "rejected"
      BY <1>4, <1>5, <3>2 DEF AtRecord, Deals, BookOK
    <3>3. QED  BY <3>1, <3>2
  <2>3. l.imported + l.repeated + l.changed + l.rejected + 1 = crawl[n].at + 1
    BY <1>3, <1>4, <1>5 DEF BookOK, Counts
  <2>4. QED
    BY <1>2, <1>3, <2>1, <2>2, <2>3 DEF BookOK
<1>8. QED
  BY <1>1, <1>6, <1>7 DEF BooksOK

LEMMA DeliveredStays ==
    ASSUME RunsKnown, TypesOK, Grown, NEW b \in Batches, Delivered(b)
    PROVE  Delivered(b)'
BY ArrivedStays DEF Delivered

\* ... so what is left to show of such a step is what it writes.
LEMMA DealsStep ==
    ASSUME IInv, NEW i \in Importers, NEW n, NEW r, NEW bucket \in Buckets,
           NEW P \in SUBSET Pages, Deals(i, n, r, bucket, P),
           discovery' \in Seq(DiscoveryRow), page' \subseteq [at : Pages, run : Nat],
           quarantine' \subseteq [run : Nat \ {0}, record : Rec], jobs' \subseteq Nat,
           RowsOK', JobsComplete'
    PROVE  IInv'
<1>1. /\ n \in DOMAIN crawl
      /\ crawl' \in Seq(ImportRecord)
      /\ Len(crawl') = Len(crawl) /\ DOMAIN crawl' = DOMAIN crawl
      /\ \A m \in DOMAIN crawl : crawl'[m].fate = crawl[m].fate /\ crawl'[m].batch = crawl[m].batch
      /\ Grown /\ RunsKnown /\ TypesOK /\ ScriptOK /\ ImportersApart
  BY DealsFrame DEF IInv
<1>2. TypesOK'
  BY <1>1 DEF TypesOK, AtRecord, Deals
<1>3. RunsKnown'
  <2>1. n \in 1..Len(crawl) /\ Len(crawl) \in Nat
    BY <1>1 DEF TypesOK
  <2>2. QED  BY <1>1, <2>1 DEF RunsKnown, AtRecord, Deals
<1>4. ImportersApart'
  BY <1>1 DEF ImportersApart, Open, AtRecord, Deals
<1>5. ScriptOK'
  <2>1. \A b \in Batches : Delivered(b) => Delivered(b)'
    BY <1>1, DeliveredStays
  <2>2. ASSUME script.step = "waiting"
        PROVE  /\ import[script.by] # 0
               /\ crawl'[import[script.by]].batch = Sendable(File[script.batch])
    <3>1. script.by \in Importers
      BY <1>1, <2>2 DEF TypesOK, ScriptState
    <3>2. import[script.by] # 0 /\ crawl[import[script.by]].batch = Sendable(File[script.batch])
      BY <1>1, <2>2 DEF ScriptOK
    <3>3. import[script.by] \in DOMAIN crawl
      BY <1>1, <3>1, <3>2 DEF ImportersApart, Open
    <3>4. QED  BY <1>1, <3>2, <3>3
  <2>3. QED
    BY <1>1, <2>1, <2>2 DEF ScriptOK, AtRecord, Deals
<1>6. QED
  BY <1>2, <1>3, <1>4, <1>5, DealsBooks DEF IInv

\* RejectRecord
LEMMA RejectKeeps ==
    ASSUME IInv, NEW i \in Importers, RejectRecord(i)
    PROVE  IInv'
<1>1. PICK n, r : n = import[i] /\ r = RecordOf(n)
  OBVIOUS
<1>2. /\ n \in DOMAIN crawl /\ n \in Nat \ {0} /\ r \in Rec /\ TypesOK
  BY <1>1, RecordInHand DEF RejectRecord, IInv, TypesOK
<1>3. crawl' = [crawl EXCEPT ![n] = AdvancedRow(n, "rejected", {})]
  BY <1>1, <1>2, CountedRow DEF RejectRecord, Buckets
<1>4. quarantine' = quarantine \cup {[run |-> n, record |-> r]}
  BY <1>1 DEF RejectRecord
<1>5. Deals(i, n, r, "rejected", {})
  <2>1. [run |-> n, record |-> r] \in quarantine'
    BY <1>4
  <2>2. DealtWith(n, r)'
    BY <2>1 DEF DealtWith
  <2>3. /\ \E q \in quarantine' : q.run = n
        /\ \A q \in quarantine' \ quarantine : q.run = n
    <3>1. [run |-> n, record |-> r].run = n
      OBVIOUS
    <3>2. QED  BY <1>4, <2>1, <3>1, Zenon
  <2>4. quarantine \subseteq quarantine'
    BY <1>4
  <2>5. QED
    BY <1>1, <1>3, <2>2, <2>3, <2>4 DEF RejectRecord, AtRecord, Deals
<1>6. RowsOK' /\ JobsComplete'
  <2>1. /\ DOMAIN crawl' = DOMAIN crawl
        /\ \A m \in DOMAIN crawl : /\ crawl'[m].fate = crawl[m].fate
                                   /\ crawl'[m].touched = crawl[m].touched
    <3>1. AdvancedRow(n, "rejected", {}).touched = crawl[n].touched \cup {}
      BY <1>2, AdvancedRecord DEF Buckets
    <3>2. /\ DOMAIN crawl' = DOMAIN crawl
          /\ crawl'[n] = AdvancedRow(n, "rejected", {})
          /\ \A m \in DOMAIN crawl : m # n => crawl'[m] = crawl[m]
          /\ \A m \in DOMAIN crawl : crawl'[m].fate = crawl[m].fate
      <4>1. "rejected" \in Buckets /\ {} \in SUBSET Pages
        BY DEF Buckets
      <4>2. QED  BY <1>5, <4>1, DealsFrame
    <3>3. QED  BY <3>1, <3>2
  <2>2. QED  BY <2>1, RowsKept DEF RejectRecord, IInv, JobsComplete
<1>7. QED
  <2>1. /\ discovery' \in Seq(DiscoveryRow) /\ page' \subseteq [at : Pages, run : Nat]
        /\ quarantine' \subseteq [run : Nat \ {0}, record : Rec] /\ jobs' \subseteq Nat
    BY <1>2, <1>4 DEF RejectRecord, TypesOK
  <2>2. "rejected" \in Buckets /\ {} \in SUBSET Pages
    BY DEF Buckets
  <2>3. QED  BY <1>5, <1>6, <2>1, <2>2, DealsStep

\* RepeatRecord
LEMMA RepeatKeeps ==
    ASSUME IInv, NEW i \in Importers, RepeatRecord(i)
    PROVE  IInv'
<1>1. PICK n, r, p : n = import[i] /\ r = RecordOf(n) /\ p = PageOf(r)
  OBVIOUS
<1>2. /\ n \in DOMAIN crawl /\ p \in Pages /\ TypesOK
  BY <1>1, RecordInHand DEF RepeatRecord, IInv
<1>3. crawl' = [crawl EXCEPT ![n] = AdvancedRow(n, "repeated", {p})]
  <2>1. crawl' = Touched(Counted(n, "repeated"), n, {p})
    BY <1>1 DEF RepeatRecord, Touched
  <2>2. QED  BY <1>2, <2>1, CountedRow DEF Buckets
<1>4. CanTouch(p, n) /\ Known(p, r.content, n)
  BY <1>1 DEF RepeatRecord
<1>5. /\ DOMAIN crawl' = DOMAIN crawl /\ crawl'[n].touched = crawl[n].touched \cup {p}
      /\ \A m \in DOMAIN crawl : /\ crawl'[m].fate = crawl[m].fate
                                 /\ m # n => crawl'[m].touched = crawl[m].touched
  BY <1>2, <1>3, AdvancedRecord, ReplacedRow DEF Buckets
<1>6. Deals(i, n, r, "repeated", {p})
  <2>1. DealtWith(n, r)
    BY <1>1, <1>4 DEF Known, On, DealtWith
  <2>2. \A m, k : SeenBy(k, m)' = SeenBy(k, m)
    BY <1>5, SameFates
  <2>3. DealtWith(n, r)'
    BY <2>1, <2>2 DEF DealtWith, RepeatRecord
  <2>4. QED  BY <1>1, <1>3, <2>3 DEF RepeatRecord, AtRecord, Deals
<1>7. RowsOK' /\ JobsComplete'
  BY <1>2, <1>4, <1>5, RowsTouched DEF RepeatRecord, IInv, JobsComplete
<1>8. QED
  <2>1. /\ discovery' \in Seq(DiscoveryRow) /\ page' \subseteq [at : Pages, run : Nat]
        /\ quarantine' \subseteq [run : Nat \ {0}, record : Rec] /\ jobs' \subseteq Nat
    BY <1>2 DEF RepeatRecord, TypesOK
  <2>2. "repeated" \in Buckets /\ {p} \in SUBSET Pages
    BY <1>2 DEF Buckets
  <2>3. QED  BY <1>6, <1>7, <2>1, <2>2, DealsStep

\* A discovery e added by import n for record r, as a row.
Adds(e, bucket, n, r, heads) ==
    /\ discovery' = Append(discovery, e)
    /\ e.page = PageOf(r) /\ e.content = r.content /\ e.run = n /\ ~e.split
    /\ IF heads = {} THEN e.supersedes = 0 ELSE e.supersedes \in heads
    /\ jobs' = jobs \cup {Len(discovery) + 1}
    /\ crawl' = [crawl EXCEPT ![n] = AdvancedRow(n, bucket, {PageOf(r)})]

\* The step leaves a row of page p that n sees, and writes no other.
PageThere(p, n) ==
    /\ page \subseteq page' /\ page' \subseteq [at : Pages, run : Nat]
    /\ \A q \in page' \ page : q.at = p /\ q.run = n
    /\ \E m \in Inserters(p)' : SeenBy(n, m)

LEMMA AddFacts ==
    ASSUME IInv, NEW i \in Importers, Working(i), NEW n, NEW r, n = import[i], r = RecordOf(n),
           ~Rejected(r), NEW heads, heads \subseteq DOMAIN discovery, Add(n, r, heads)
    PROVE  \E e \in DiscoveryRow, bucket \in Buckets \ {"rejected"} : Adds(e, bucket, n, r, heads)
<1>1. /\ TypesOK /\ n \in DOMAIN crawl /\ n \in Nat
      /\ r \in FeedRecord /\ PageOf(r) \in Pages
  BY RecordInHand DEF IInv, TypesOK
<1>2. PICK h \in IF heads = {} THEN {0} ELSE heads :
        discovery' = Append(discovery, [page |-> PageOf(r), content |-> r.content, run |-> n,
                                        supersedes |-> h, split |-> FALSE])
  BY DEF Add
<1> DEFINE e == [page |-> PageOf(r), content |-> r.content, run |-> n,
                 supersedes |-> h, split |-> FALSE]
           bucket == IF heads = {} THEN "imported" ELSE "changed"
<1>3. h \in Nat
  BY <1>1, <1>2 DEF TypesOK
<1>4. r.content \in Contents
  BY <1>1 DEF FeedRecord
<1>5. e \in DiscoveryRow
  BY <1>1, <1>3, <1>4 DEF DiscoveryRow
<1>6. bucket \in Buckets /\ bucket # "rejected"
  BY DEF Buckets
<1>7. crawl' = [crawl EXCEPT ![n] = AdvancedRow(n, bucket, {PageOf(r)})]
  <2>1. crawl' = Touched(Counted(n, bucket), n, {PageOf(r)})
    BY DEF Add, Touched
  <2> HIDE DEF bucket
  <2>2. QED  BY <1>1, <1>6, <2>1, CountedRow
<1>8. jobs' = jobs \cup {Len(discovery) + 1}
  BY DEF Add
<1>9. /\ e.page = PageOf(r) /\ e.content = r.content /\ e.run = n /\ ~e.split
      /\ e.supersedes = h
  OBVIOUS
<1>10. discovery' = Append(discovery, e)
  BY <1>2
<1>11. IF heads = {} THEN h = 0 ELSE h \in heads
  BY <1>2
<1> HIDE DEF e, bucket
<1>12. QED
  BY <1>5, <1>6, <1>7, <1>8, <1>9, <1>10, <1>11 DEF Adds

LEMMA AddStep ==
    ASSUME IInv, NEW i \in Importers, NEW n, NEW r, AtRecord(i, n, r),
           UNCHANGED <<active, quarantine, import, script>>,
           NEW e \in DiscoveryRow, NEW bucket \in Buckets \ {"rejected"},
           NEW heads, Adds(e, bucket, n, r, heads), Admissible(e, n),
           PageThere(e.page, n)
    PROVE  IInv'
<1>a. /\ discovery' = Append(discovery, e)
      /\ e.page = PageOf(r) /\ e.content = r.content /\ e.run = n /\ ~e.split
      /\ jobs' = jobs \cup {Len(discovery) + 1}
      /\ crawl' = [crawl EXCEPT ![n] = AdvancedRow(n, bucket, {e.page})]
  BY DEF Adds
<1>1. /\ TypesOK /\ RowsOK /\ n \in DOMAIN crawl /\ Open(n) /\ n # 0 /\ e.page \in Pages
      /\ bucket \in Buckets /\ {e.page} \in SUBSET Pages
  BY <1>a, RecordInHand DEF AtRecord, IInv, Open, Working, DiscoveryRow
<1>2. /\ discovery' \in Seq(DiscoveryRow)
      /\ Len(discovery) \in Nat
      /\ DOMAIN discovery = 1..Len(discovery)
      /\ DOMAIN discovery' = 1..(Len(discovery) + 1)
      /\ discovery'[Len(discovery) + 1] = e
      /\ \A d \in DOMAIN discovery : discovery'[d] = discovery[d]
  BY <1>a, <1>1, AddedDiscovery
<1>3. /\ DOMAIN crawl' = DOMAIN crawl /\ crawl'[n].touched = crawl[n].touched \cup {e.page}
      /\ \A m \in DOMAIN crawl : /\ crawl'[m].fate = crawl[m].fate
                                 /\ m # n => crawl'[m].touched = crawl[m].touched
  BY <1>a, <1>1, AdvancedRecord, ReplacedRow
<1>4. Deals(i, n, r, bucket, {e.page})
  <2>1. DealtWith(n, r)'
    BY <1>a, <1>2 DEF DealtWith, SeenBy
  <2>2. DOMAIN discovery' \ DOMAIN discovery = {Len(discovery) + 1}
    BY <1>2
  <2>3. \A d \in DOMAIN discovery : d \in DOMAIN discovery'
    BY <1>2
  <2>4. QED  BY <1>a, <1>1, <1>2, <2>1, <2>2, <2>3 DEF Deals, PageThere
<1>5. RowsOK'
  <2>1. /\ page \subseteq page'
        /\ \A q \in page' \ page : q.at = e.page /\ q.run = n
        /\ \E m \in Inserters(e.page)' : SeenBy(n, m)
    BY DEF PageThere
  <2>2. discovery' = Append(discovery, e)
    BY <1>a
  <2>3. QED  BY <1>1, <1>3, <2>1, <2>2, RowsAdded
<1>6. JobsComplete'
  BY <1>a, <1>2 DEF JobsComplete, IInv
<1>7. /\ quarantine' \subseteq [run : Nat \ {0}, record : Rec] /\ jobs' \subseteq Nat
  BY <1>a, <1>1, <1>2 DEF TypesOK
<1>8. QED
  BY <1>1, <1>2, <1>4, <1>5, <1>6, <1>7, DealsStep DEF PageThere

\* ReviseRecord
LEMMA ReviseKeeps ==
    ASSUME IInv, NEW i \in Importers, ReviseRecord(i)
    PROVE  IInv'
<1>1. PICK n, r, p : n = import[i] /\ r = RecordOf(n) /\ p = PageOf(r)
  OBVIOUS
<1>2. /\ Working(i) /\ ~Rejected(r) /\ CanTouch(p, n) /\ ~Known(p, r.content, n)
      /\ Add(n, r, Heads(p, n))
      /\ UNCHANGED <<active, page, quarantine, import, script>>
  BY <1>1 DEF ReviseRecord
<1>3. /\ Heads(p, n) \subseteq Revisions(p, n)
      /\ Heads(p, n) \subseteq DOMAIN discovery
      /\ Heads(p, n) = {} => Revisions(p, n) = {}
  BY HeadsOfRevisions DEF Heads, Revisions, On, IInv
<1>4. PICK e \in DiscoveryRow, bucket \in Buckets \ {"rejected"} :
        Adds(e, bucket, n, r, Heads(p, n))
  BY <1>1, <1>2, <1>3, AddFacts
<1>a. /\ e.page = p /\ e.content = r.content /\ e.run = n /\ ~e.split
      /\ IF Heads(p, n) = {} THEN e.supersedes = 0 ELSE e.supersedes \in Heads(p, n)
  BY <1>1, <1>4 DEF Adds
<1>5. Admissible(e, n)
  <2>1. Free(e.page, n)
    BY <1>2, <1>a DEF CanTouch, Free
  <2>2. \A d \in On(e.page, n) : /\ discovery[d].content # e.content
                                 /\ e.split \/ e.supersedes # 0 \/ ~Root(d)
    <3>1. \A d \in On(e.page, n) : discovery[d].content # e.content
      BY <1>2, <1>a DEF Known
    <3>2. e.supersedes = 0 => Revisions(p, n) = {}
      <4>1. 0 \notin DOMAIN discovery
        BY DEF IInv, TypesOK
      <4>2. QED  BY <1>3, <1>a, <4>1
    <3>3. ASSUME NEW d \in On(e.page, n), e.supersedes = 0 PROVE ~Root(d)
      BY <1>a, <3>2, <3>3 DEF Revisions, Root
    <3>4. QED  BY <3>1, <3>3
  <2>3. e.supersedes # 0 => e.supersedes \in Revisions(e.page, n)
    BY <1>3, <1>a
  <2>4. QED  BY <1>a, <2>1, <2>2, <2>3 DEF Admissible
<1>6. PageThere(e.page, n)
  BY <1>2, <1>a DEF CanTouch, Inserters, IInv, TypesOK, PageThere
<1>7. UNCHANGED <<active, quarantine, import, script>> /\ AtRecord(i, n, r)
  BY <1>1, <1>2 DEF AtRecord
<1>8. QED
  BY <1>4, <1>5, <1>6, <1>7, AddStep

\* InsertPage
LEMMA InsertKeeps ==
    ASSUME IInv, NEW i \in Importers, InsertPage(i)
    PROVE  IInv'
<1>1. PICK n, r, p, none : n = import[i] /\ r = RecordOf(n) /\ p = PageOf(r) /\ none = {}
  OBVIOUS
<1>2. /\ Working(i) /\ ~Rejected(r) /\ NewTo(p, n) /\ \A m \in Inserters(p) : ~Open(m)
      /\ page' = page \cup {[at |-> p, run |-> n]}
      /\ Add(n, r, none)
      /\ UNCHANGED <<active, quarantine, import, script>>
  BY <1>1 DEF InsertPage
<1>3. PICK e \in DiscoveryRow, bucket \in Buckets \ {"rejected"} : Adds(e, bucket, n, r, none)
  BY <1>1, <1>2, AddFacts
<1>a. e.page = p /\ e.content = r.content /\ e.run = n /\ ~e.split /\ e.supersedes = 0
  BY <1>1, <1>3 DEF Adds
<1>4. Free(p, n) /\ On(p, n) = {}
  BY <1>2, NewPageFree DEF IInv
<1>5. Admissible(e, n)
  BY <1>a, <1>4 DEF Admissible
<1>6. /\ p \in Pages /\ n \in Nat /\ TypesOK
  BY <1>1, <1>2, RecordInHand DEF IInv, TypesOK
<1>7. /\ page \subseteq page' /\ page' \subseteq [at : Pages, run : Nat]
      /\ \A q \in page' \ page : q.at = e.page /\ q.run = n
  BY <1>2, <1>a, <1>6 DEF TypesOK
<1>8. \E m \in Inserters(e.page)' : SeenBy(n, m)
  <2>1. [at |-> p, run |-> n] \in page'
    BY <1>2
  <2>2. n \in Inserters(p)'
    BY <2>1 DEF Inserters
  <2>3. QED  BY <1>a, <2>2 DEF SeenBy
<1>9. PageThere(e.page, n)
  BY <1>7, <1>8 DEF PageThere
<1>10. AtRecord(i, n, r)
  BY <1>1, <1>2 DEF AtRecord
<1>11. QED
  BY <1>2, <1>3, <1>5, <1>9, <1>10, AddStep

-----------------------------------------------------------------------------
(* Steps that deal with no record *)

\* The books of the imports there are stay right, and an import is stored
\* when it has dealt with its batch.
LEMMA BooksKept ==
    ASSUME RunsKnown, Grown, BooksOK, quarantine' = quarantine,
           NEW m \in DOMAIN crawl, m \in DOMAIN crawl',
           crawl'[m].at = crawl[m].at, crawl'[m].batch = crawl[m].batch,
           crawl'[m].counts = crawl[m].counts,
           crawl'[m].fate = "stored" => \/ crawl[m].fate = "stored"
                                        \/ crawl[m].at = Len(crawl[m].batch) + 1
    PROVE  BookOK(m)'
<1>1. BookOK(m)
  BY DEF BooksOK
<1>2. ASSUME NEW j \in 1..(crawl[m].at - 1), NEW x, x = crawl[m].batch[j]
      PROVE  DealtWith(m, x)'
  <2>1. DealtWith(m, x)
    BY <1>1, <1>2 DEF BookOK
  <2>2. QED  BY <2>1, DealtWithStays
<1>3. QED
  BY <1>1, <1>2 DEF BookOK

LEMMA StillWaiting ==
    ASSUME IInv, Grown, script' = script,
           \A j \in Importers : import[j] # 0 /\ script.step = "waiting" /\ script.by = j =>
               import'[j] = import[j] /\ crawl'[import[j]].batch = crawl[import[j]].batch
    PROVE  ScriptOK'
<1>1. \A b \in Batches : Delivered(b) => Delivered(b)'
  BY DeliveredStays DEF IInv
<1>2. ASSUME script.step = "waiting"
      PROVE  /\ import'[script.by] # 0
             /\ crawl'[import'[script.by]].batch = Sendable(File[script.batch])
  <2>1. script.by \in Importers
    BY <1>2 DEF IInv, TypesOK, ScriptState
  <2>2. import[script.by] # 0 /\ crawl[import[script.by]].batch = Sendable(File[script.batch])
    BY <1>2 DEF IInv, ScriptOK
  <2>3. QED  BY <1>2, <2>1, <2>2
<1>3. QED
  BY <1>1, <1>2 DEF ScriptOK, IInv

\* WaitForPage and GoOn
LEMMA WaitsKeeps ==
    ASSUME IInv, NEW n \in DOMAIN crawl, NEW b \in BOOLEAN,
           crawl' = [crawl EXCEPT ![n].waits = b],
           UNCHANGED <<active, page, discovery, quarantine, jobs, import, script>>
    PROVE  IInv'
<1> DEFINE r == [crawl[n] EXCEPT !.waits = b]
<1>1. crawl[n] \in ImportRecord /\ TypesOK
  BY DEF IInv, TypesOK
<1>2. /\ r \in ImportRecord
      /\ r.batch = crawl[n].batch /\ r.at = crawl[n].at /\ r.counts = crawl[n].counts
      /\ r.fate = crawl[n].fate /\ r.touched = crawl[n].touched
  BY <1>1 DEF ImportRecord
<1> HIDE DEF r
<1>3. crawl' = [crawl EXCEPT ![n] = r]
  BY DEF r
<1>4. /\ crawl' \in Seq(ImportRecord) /\ Len(crawl') = Len(crawl) /\ DOMAIN crawl' = DOMAIN crawl
      /\ \A m \in DOMAIN crawl : /\ crawl'[m].fate = crawl[m].fate
                                 /\ crawl'[m].touched = crawl[m].touched
                                 /\ crawl'[m].batch = crawl[m].batch
                                 /\ crawl'[m].at = crawl[m].at
                                 /\ crawl'[m].counts = crawl[m].counts
  BY <1>1, <1>2, <1>3, ReplacedRow
<1>5. Grown
  BY <1>4, SameFates DEF Grown
<1>6. TypesOK'
  BY <1>1, <1>4 DEF TypesOK
<1>7. RunsKnown' /\ ImportersApart'
  BY <1>4 DEF IInv, RunsKnown, ImportersApart, Open
<1>8. RowsOK' /\ JobsComplete'
  BY <1>4, RowsKept DEF IInv, JobsComplete
<1>9. BooksOK'
  BY <1>4, <1>5, BooksKept DEF IInv, BooksOK
<1>10. ScriptOK'
  BY <1>4, <1>5, StillWaiting DEF IInv, ImportersApart, Open
<1>11. QED
  BY <1>6, <1>7, <1>8, <1>9, <1>10 DEF IInv

LEMMA WaitKeeps ==
    ASSUME IInv, NEW i \in Importers, WaitForPage(i) \/ GoOn(i)
    PROVE  IInv'
<1>1. import[i] # 0 => import[i] \in DOMAIN crawl
  BY DEF IInv, ImportersApart, Open
<1>2. CASE WaitForPage(i)
  BY <1>1, <1>2, WaitsKeeps DEF WaitForPage, Working
<1>3. CASE GoOn(i)
  BY <1>1, <1>3, WaitsKeeps DEF GoOn, Waiting
<1>4. QED  BY <1>2, <1>3

\* Deactivate, RunScript and TimeOut
LEMMA OutsideKeeps ==
    ASSUME IInv, (\E s \in Sources : Deactivate(s)) \/ RunScript \/ TimeOut
    PROVE  IInv'
<1>1. /\ UNCHANGED <<page, discovery, quarantine, jobs, crawl, import>>
      /\ active' \in [Sources -> BOOLEAN]
  BY DEF IInv, TypesOK, Deactivate, RunScript, TimeOut
<1>2. Grown
  BY <1>1 DEF Grown, StoredBy
<1>3. script' \in ScriptState /\ ScriptOK'
  <2>1. CASE \E s \in Sources : Deactivate(s)
    BY <1>1, <1>2, <2>1, StillWaiting DEF Deactivate, IInv, TypesOK
  <2>2. CASE RunScript
    <3>1. script' = [step |-> "sending", batch |-> 1] /\ 1 \in Batches
      BY <2>2, ImportAssumption DEF RunScript, Batches
    <3>2. QED  BY <3>1 DEF ScriptState, ScriptOK, Batches
  <2>3. CASE TimeOut
    <3>1. script' = [step |-> "idle", batch |-> 0]
      BY <2>3 DEF TimeOut
    <3>2. QED  BY <3>1 DEF ScriptState, ScriptOK, Batches
  <2>4. QED  BY <2>1, <2>2, <2>3
<1>4. RowsOK'
  BY <1>1, RowsKept DEF IInv
<1>5. TypesOK' /\ RunsKnown' /\ ImportersApart' /\ JobsComplete'
  BY <1>1, <1>3 DEF IInv, TypesOK, RunsKnown, ImportersApart, JobsComplete, Open
<1>6. BooksOK'
  BY <1>1, <1>2, BooksKept DEF IInv, BooksOK
<1>7. QED
  BY <1>3, <1>4, <1>5, <1>6 DEF IInv

\* Begin, by a harvest or by the script, up to what the script makes of it
LEMMA BeginKeeps ==
    ASSUME IInv, NEW i \in Importers, NEW b \in Seq(FeedRecord), Begin(i, b),
           UNCHANGED <<active, page, discovery, quarantine, jobs>>, script' \in ScriptState
    PROVE  /\ TypesOK' /\ RunsKnown' /\ ImportersApart' /\ RowsOK' /\ JobsComplete' /\ BooksOK'
           /\ Grown
           /\ import'[i] = Len(crawl) + 1 /\ crawl'[Len(crawl) + 1].batch = b
           /\ \A j \in Importers : j # i => import'[j] = import[j]
           /\ \A m \in DOMAIN crawl : crawl'[m] = crawl[m]
<1> DEFINE new == Len(crawl) + 1
<1>1. /\ crawl' \in Seq(ImportRecord)
      /\ Len(crawl') = new /\ Len(crawl) \in Nat
      /\ DOMAIN crawl = 1..Len(crawl) /\ DOMAIN crawl' = 1..new
      /\ crawl'[new] = Import(b)
      /\ \A m \in DOMAIN crawl : crawl'[m] = crawl[m]
  BY AddedRow DEF IInv, TypesOK, Begin
<1>2. /\ import'[i] = new /\ import[i] = 0 /\ new <= MaxRuns
      /\ import' \in [Importers -> 0..MaxRuns]
      /\ \A j \in Importers : j # i => import'[j] = import[j]
  BY <1>1, ImportAssumption DEF IInv, TypesOK, Begin
<1> HIDE DEF new
<1>3. Grown
  BY <1>1 DEF Grown, StoredBy, new
<1>4. TypesOK'
  BY <1>1, <1>2 DEF IInv, TypesOK
<1>5. RunsKnown'
  BY <1>1 DEF IInv, RunsKnown, new
<1>6. ImportersApart'
  <2>1. crawl'[new].fate = "open" /\ new \in DOMAIN crawl' /\ new \notin DOMAIN crawl
    BY <1>1 DEF Import, new
  <2>2. \A j \in Importers : j # i /\ import[j] # 0 =>
            /\ import[j] \in DOMAIN crawl /\ import[j] \in DOMAIN crawl'
            /\ crawl'[import[j]].fate = "open"
    BY <1>1 DEF IInv, ImportersApart, Open, new
  <2>3. QED  BY <1>2, <2>1, <2>2 DEF IInv, ImportersApart, Open
<1>7. RowsOK'
  BY RowsBegun DEF IInv, Begin
<1>8. BooksOK'
  <2>1. ASSUME NEW m \in DOMAIN crawl PROVE BookOK(m)'
    BY <1>1, <1>3, BooksKept DEF IInv, new
  <2>2. ASSUME NEW m, m = new PROVE BookOK(m)'
    <3>1. /\ crawl'[m].counts = NoCounts /\ crawl'[m].at = 1
          /\ crawl'[m].batch = b /\ crawl'[m].fate = "open"
      BY <1>1, <2>2 DEF Import
    <3>2. ~\E q \in quarantine : q.run = m
      BY <1>1, <2>2 DEF IInv, RunsKnown, new
    <3>3. Len(b) \in Nat
      OBVIOUS
    <3>4. QED  BY <3>1, <3>2, <3>3 DEF BookOK, NoCounts
  <2>3. QED  BY <1>1, <2>1, <2>2 DEF BooksOK, new
<1>9. JobsComplete'
  BY DEF IInv, JobsComplete
<1>10. QED
  BY <1>1, <1>2, <1>3, <1>4, <1>5, <1>6, <1>7, <1>8, <1>9 DEF Import, new

\* HarvestImport
LEMMA HarvestKeeps ==
    ASSUME IInv, NEW i \in Importers, HarvestImport(i)
    PROVE  IInv'
<1>1. /\ Begin(i, Harvested) /\ Harvested \in Seq(FeedRecord) /\ import[i] = 0
      /\ UNCHANGED <<active, page, discovery, quarantine, jobs>>
      /\ script' = script /\ script' \in ScriptState
  BY ImportAssumption DEF HarvestImport, Begin, IInv, TypesOK
<1>2. /\ TypesOK' /\ RunsKnown' /\ ImportersApart' /\ RowsOK' /\ JobsComplete' /\ BooksOK'
      /\ Grown
      /\ \A j \in Importers : j # i => import'[j] = import[j]
      /\ \A m \in DOMAIN crawl : crawl'[m] = crawl[m]
  BY <1>1, BeginKeeps
<1>3. ScriptOK'
  BY <1>1, <1>2, StillWaiting DEF IInv, ImportersApart, Open
<1>4. QED
  BY <1>2, <1>3 DEF IInv

\* SendBatch
LEMMA SendKeeps ==
    ASSUME IInv, NEW i \in Importers, SendBatch(i)
    PROVE  IInv'
<1>1. script.step = "sending" /\ script.batch \in Batches
  BY DEF SendBatch, IInv, TypesOK, ScriptState
<1>2. PICK b \in Seq(FeedRecord) : b = Sendable(File[script.batch])
  BY <1>1, ImportAssumption DEF Batches
<1>3. /\ Begin(i, b)
      /\ UNCHANGED <<active, page, discovery, quarantine, jobs>>
      /\ script' = [step |-> "waiting", batch |-> script.batch, by |-> i]
  BY <1>2 DEF SendBatch
<1>4. script' \in ScriptState
  BY <1>1, <1>3 DEF ScriptState
<1>5. /\ TypesOK' /\ RunsKnown' /\ ImportersApart' /\ RowsOK' /\ JobsComplete' /\ BooksOK'
      /\ Grown
      /\ import'[i] = Len(crawl) + 1 /\ crawl'[Len(crawl) + 1].batch = b
  BY <1>3, <1>4, BeginKeeps
<1>6. ScriptOK'
  <2>1. \A k \in Batches : Delivered(k) => Delivered(k)'
    BY <1>5, DeliveredStays DEF IInv
  <2>2. \A k \in Batches : k < script.batch => Delivered(k)
    BY DEF IInv, ScriptOK
  <2>3. Len(crawl) + 1 # 0
    BY DEF IInv, TypesOK
  <2>4. /\ script'.step = "waiting" /\ script'.batch = script.batch /\ script'.by = i
    BY <1>3
  <2>5. QED
    BY <1>2, <1>5, <2>1, <2>2, <2>3, <2>4 DEF ScriptOK
<1>7. QED
  BY <1>5, <1>6 DEF IInv

\* What an import that is stored has dealt with has arrived.
LEMMA DealtWithArrives ==
    ASSUME RunsKnown, JobsComplete, NEW n, StoredBy(n), NEW r, DealtWith(n, r)
    PROVE  Arrived(r) \/ SetAside(r)
<1>1. ASSUME NEW d \in DOMAIN discovery, SeenBy(n, discovery[d].run) PROVE d \in Stored /\ d \in jobs
  BY <1>1 DEF JobsComplete, Stored, SeenBy
<1>2. QED
  BY <1>1 DEF DealtWith, Arrived, SetAside

\* ... and so it has in the state after.
LEMMA DealtWithArrivesThen ==
    ASSUME JobsComplete', NEW n, StoredBy(n)', NEW r, DealtWith(n, r)'
    PROVE  Arrived(r)' \/ SetAside(r)'
<1>1. ASSUME NEW d \in DOMAIN discovery', SeenBy(n, discovery[d].run)'
      PROVE  d \in Stored' /\ d \in jobs'
  BY <1>1 DEF JobsComplete, Stored, SeenBy
<1>2. QED
  BY <1>1 DEF DealtWith, Arrived, SetAside

\* Lose, CutShort and Commit, up to what the script makes of the answer
LEMMA EndKeeps ==
    ASSUME IInv, NEW i \in Importers, NEW n \in DOMAIN crawl, n = import[i],
           NEW r \in ImportRecord, crawl' = [crawl EXCEPT ![n] = r],
           r.fate \in {"stored", "cut", "lost"},
           r.fate = "stored" => crawl[n].at = Len(crawl[n].batch) + 1,
           r.batch = crawl[n].batch, r.at = crawl[n].at, r.counts = crawl[n].counts,
           import' = [import EXCEPT ![i] = 0],
           page \subseteq page', \A q \in page' \ page : q \in [at : Pages, run : {n}],
           UNCHANGED <<active, discovery, quarantine, jobs>>, script' \in ScriptState
    PROVE  /\ TypesOK' /\ RunsKnown' /\ ImportersApart' /\ RowsOK' /\ JobsComplete' /\ BooksOK'
           /\ Grown /\ n \in DOMAIN crawl' /\ crawl'[n] = r
           /\ script' = script /\ (script.step = "waiting" => script.by # i) => ScriptOK'
<1>1. TypesOK /\ Open(n) /\ n # 0
  BY DEF IInv, TypesOK, ImportersApart
<1>2. /\ crawl' \in Seq(ImportRecord) /\ Len(crawl') = Len(crawl) /\ DOMAIN crawl' = DOMAIN crawl
      /\ crawl'[n] = r
      /\ \A m \in DOMAIN crawl : m # n => crawl'[m] = crawl[m]
  BY <1>1, ReplacedRow
<1>3. /\ import'[i] = 0 /\ import' \in [Importers -> 0..MaxRuns]
      /\ \A j \in Importers : j # i => import'[j] = import[j]
  BY <1>1, ImportAssumption DEF TypesOK
<1>4. Grown
  BY <1>1, <1>2 DEF Grown, StoredBy, Open
<1>5. TypesOK' /\ RunsKnown'
  BY <1>1, <1>2, <1>3 DEF IInv, TypesOK, RunsKnown
<1>6. \A j \in Importers : j # i /\ import[j] # 0 =>
        import[j] # n /\ import[j] \in DOMAIN crawl /\ Open(import[j])
  BY <1>1 DEF IInv, ImportersApart, Open
<1>7. ImportersApart'
  <2>1. \A j \in Importers : j # i /\ import[j] # 0 => crawl'[import[j]] = crawl[import[j]]
    BY <1>2, <1>6
  <2>2. QED  BY <1>2, <1>3, <1>6, <2>1 DEF IInv, ImportersApart, Open
<1>8. RowsOK'
  BY <1>1, <1>2, RowsEnded DEF IInv
<1>9. BooksOK'
  <2>1. ASSUME NEW m \in DOMAIN crawl PROVE BookOK(m)'
    BY <1>2, <1>4, <2>1, BooksKept DEF IInv
  <2>2. QED  BY <1>2, <2>1 DEF BooksOK
<1>10. JobsComplete'
  BY DEF IInv, JobsComplete
<1>11. ASSUME script' = script, script.step = "waiting" => script.by # i PROVE ScriptOK'
  <2>1. \A j \in Importers : import[j] # 0 /\ script.step = "waiting" /\ script.by = j =>
               import'[j] = import[j] /\ crawl'[import[j]].batch = crawl[import[j]].batch
    BY <1>2, <1>3, <1>6, <1>11
  <2>2. QED  BY <1>4, <1>11, <2>1, StillWaiting
<1>12. QED
  BY <1>2, <1>4, <1>5, <1>7, <1>8, <1>9, <1>10, <1>11

\* Lose
LEMMA LoseKeeps ==
    ASSUME IInv, NEW i \in Importers, Lose(i)
    PROVE  IInv'
<1>1. PICK n : n = import[i]
  OBVIOUS
<1>2. n \in DOMAIN crawl /\ crawl[n] \in ImportRecord
  BY <1>1 DEF Lose, IInv, ImportersApart, Open, TypesOK
<1>3. PICK r : r = [crawl[n] EXCEPT !.fate = "lost", !.waits = FALSE]
  OBVIOUS
<1>4. /\ r \in ImportRecord /\ r.fate = "lost"
      /\ r.batch = crawl[n].batch /\ r.at = crawl[n].at /\ r.counts = crawl[n].counts
  BY <1>2, <1>3 DEF ImportRecord
<1>5. crawl' = [crawl EXCEPT ![n] = r]
  BY <1>1, <1>2, <1>3 DEF Lose, ImportRecord, IInv, TypesOK
<1>6. /\ script' = Answered(i, FALSE) /\ import' = [import EXCEPT ![i] = 0]
      /\ UNCHANGED <<active, page, discovery, quarantine, jobs>>
  BY DEF Lose
<1>7. CASE script.step = "waiting" /\ script.by = i
  <2>1. script' = [step |-> "idle", batch |-> 0]
    BY <1>6, <1>7 DEF Answered
  <2>2. script' \in ScriptState
    BY <2>1 DEF ScriptState
  <2>3. ScriptOK'
    BY <2>1 DEF ScriptOK, Batches
  <2>4. QED  BY <1>1, <1>2, <1>4, <1>5, <1>6, <2>2, <2>3, EndKeeps DEF IInv
<1>8. CASE ~(script.step = "waiting" /\ script.by = i)
  <2>1. script' = script /\ script' \in ScriptState
    BY <1>6, <1>8 DEF Answered, IInv, TypesOK
  <2>2. QED  BY <1>1, <1>2, <1>4, <1>5, <1>6, <1>8, <2>1, EndKeeps DEF IInv
<1>9. QED  BY <1>7, <1>8

\* CutShort
LEMMA CutKeeps ==
    ASSUME IInv, NEW i \in Importers, CutShort(i)
    PROVE  IInv'
<1>1. PICK n : n = import[i]
  OBVIOUS
<1>2. n \in DOMAIN crawl /\ crawl[n] \in ImportRecord
  BY <1>1, RecordInHand DEF CutShort
<1>3. PICK r : r = [crawl[n] EXCEPT !.fate = "cut"]
  OBVIOUS
<1>4. /\ r \in ImportRecord /\ r.fate = "cut"
      /\ r.batch = crawl[n].batch /\ r.at = crawl[n].at /\ r.counts = crawl[n].counts
  BY <1>2, <1>3 DEF ImportRecord
<1>5. crawl' = [crawl EXCEPT ![n] = r]
  BY <1>1, <1>2, <1>3 DEF CutShort, ImportRecord, IInv, TypesOK
<1>6. /\ script' = Answered(i, FALSE) /\ import' = [import EXCEPT ![i] = 0]
      /\ UNCHANGED <<active, discovery, quarantine, jobs>>
  BY DEF CutShort
<1>a. page \subseteq page' /\ \A q \in page' \ page : q \in [at : Pages, run : {n}]
  <2>1. CASE UNCHANGED page
    BY <2>1
  <2>2. CASE ~UNCHANGED page
    <3>1. PICK p : p = PageOf(RecordOf(n))
      OBVIOUS
    <3>2. ~Rejected(RecordOf(n)) /\ page' = page \cup {[at |-> p, run |-> n]}
      BY <1>1, <2>2, <3>1 DEF CutShort
    <3>3. p \in Pages
      BY <1>1, <3>1, <3>2, RecordInHand DEF CutShort
    <3>4. QED  BY <3>2, <3>3
  <2>3. QED  BY <2>1, <2>2
<1>7. CASE script.step = "waiting" /\ script.by = i
  <2>1. script' = [step |-> "idle", batch |-> 0]
    BY <1>6, <1>7 DEF Answered
  <2>2. script' \in ScriptState
    BY <2>1 DEF ScriptState
  <2>3. ScriptOK'
    BY <2>1 DEF ScriptOK, Batches
  <2>4. QED  BY <1>1, <1>2, <1>4, <1>5, <1>6, <1>a, <2>2, <2>3, EndKeeps DEF IInv
<1>8. CASE ~(script.step = "waiting" /\ script.by = i)
  <2>1. script' = script /\ script' \in ScriptState
    BY <1>6, <1>8 DEF Answered, IInv, TypesOK
  <2>2. QED  BY <1>1, <1>2, <1>4, <1>5, <1>6, <1>8, <1>a, <2>1, EndKeeps DEF IInv
<1>9. QED  BY <1>7, <1>8

\* Commit
LEMMA CommitKeeps ==
    ASSUME IInv, NEW i \in Importers, Commit(i)
    PROVE  IInv'
<1>1. PICK n : n = import[i]
  OBVIOUS
<1>2. n \in DOMAIN crawl /\ crawl[n] \in ImportRecord
  BY <1>1 DEF Commit, IInv, ImportersApart, Open, TypesOK
<1>3. PICK r : r = [crawl[n] EXCEPT !.fate = "stored"]
  OBVIOUS
<1>4. /\ r \in ImportRecord /\ r.fate = "stored"
      /\ r.batch = crawl[n].batch /\ r.at = crawl[n].at /\ r.counts = crawl[n].counts
  BY <1>2, <1>3 DEF ImportRecord
<1>5. crawl' = [crawl EXCEPT ![n] = r]
  BY <1>1, <1>2, <1>3 DEF Commit, ImportRecord, IInv, TypesOK
<1>6. /\ script' = Answered(i, TRUE) /\ import' = [import EXCEPT ![i] = 0]
      /\ UNCHANGED <<active, page, discovery, quarantine, jobs>>
  BY DEF Commit
<1>7. crawl[n].at = Len(crawl[n].batch) + 1
  BY <1>1, <1>2 DEF Commit, IInv, BooksOK, BookOK, ImportRecord
<1>8. CASE script.step = "waiting" /\ script.by = i
  <2>1. script.batch \in Batches /\ crawl[n].batch = Sendable(File[script.batch])
    BY <1>1, <1>8 DEF IInv, TypesOK, ScriptState, ScriptOK
  <2>2. script' = IF script.batch = Len(File) THEN [step |-> "done", batch |-> script.batch]
                  ELSE [step |-> "sending", batch |-> script.batch + 1]
    BY <1>6, <1>8 DEF Answered
  <2>3. script' \in ScriptState
    BY <2>1, <2>2, ImportAssumption DEF ScriptState, Batches
  <2>4. /\ TypesOK' /\ RunsKnown' /\ ImportersApart' /\ RowsOK' /\ JobsComplete' /\ BooksOK'
        /\ Grown /\ n \in DOMAIN crawl' /\ crawl'[n] = r
    BY <1>1, <1>2, <1>4, <1>5, <1>6, <1>7, <2>3, EndKeeps
  <2>5. ASSUME NEW b \in Batches, b = script.batch PROVE Delivered(b)'
    <3>1. /\ StoredBy(n)' /\ BookOK(n)'
      BY <1>4, <2>4 DEF StoredBy, BooksOK
    <3>2. \A j \in DOMAIN Sendable(File[b]) : DealtWith(n, Sendable(File[b])[j])'
      <4>1. crawl'[n].batch = Sendable(File[b]) /\ crawl'[n].at = Len(Sendable(File[b])) + 1
        BY <1>4, <1>7, <2>1, <2>4, <2>5
      <4>2. Sendable(File[b]) \in Seq(FeedRecord)
        BY ImportAssumption DEF Batches
      <4>3. QED  BY <3>1, <4>1, <4>2 DEF BookOK
    <3>3. QED  BY <2>4, <3>1, <3>2, DealtWithArrivesThen DEF Delivered
  <2>6. \A b \in Batches : b < script.batch => Delivered(b)'
    <3>1. \A b \in Batches : b < script.batch => Delivered(b)
      BY DEF IInv, ScriptOK
    <3>2. QED  BY <2>4, <3>1, DeliveredStays DEF IInv
  <2>7. ScriptOK'
    <3>1. \A b \in Batches : b <= script.batch => Delivered(b)'
      BY <2>1, <2>5, <2>6 DEF Batches
    <3>2. script'.step # "waiting" /\ script'.batch \in {script.batch, script.batch + 1}
      BY <2>2
    <3>3. script'.step = "done" \/ script'.batch = script.batch + 1
      BY <2>2
    <3>4. script'.step = "done" => script'.batch = script.batch
      BY <2>2
    <3>5. QED  BY <2>1, <3>1, <3>2, <3>3, <3>4 DEF ScriptOK, Batches
  <2>8. QED  BY <2>4, <2>7 DEF IInv
<1>9. CASE ~(script.step = "waiting" /\ script.by = i)
  <2>1. script' = script /\ script' \in ScriptState
    BY <1>6, <1>9 DEF Answered, IInv, TypesOK
  <2>2. QED  BY <1>1, <1>2, <1>4, <1>5, <1>6, <1>7, <1>9, <2>1, EndKeeps DEF IInv
<1>10. QED  BY <1>8, <1>9

\* SplitOut
LEMMA SplitKeeps ==
    ASSUME IInv, NEW d \in DOMAIN discovery, NEW u \in Urls, NEW c \in Contents, SplitOut(d, u, c)
    PROVE  IInv'
<1>1. PICK p : p = <<discovery[d].page[1], u>>
  OBVIOUS
<1>2. p \in Pages /\ TypesOK
  <2>1. TypesOK /\ discovery[d] \in DiscoveryRow
    BY DEF IInv, TypesOK
  <2>2. discovery[d].page \in Sources \X Urls
    BY <2>1 DEF DiscoveryRow, Pages
  <2>3. QED  BY <1>1, <2>1, <2>2 DEF Pages
<1>3. PICK e : e = [page |-> p, content |-> c, run |-> 0, supersedes |-> 0, split |-> TRUE]
  OBVIOUS
<1>4. /\ e \in DiscoveryRow /\ e.page = p /\ e.content = c /\ e.run = 0 /\ e.supersedes = 0
      /\ e.split
  BY <1>2, <1>3 DEF DiscoveryRow
<1>5. /\ discovery' = Append(discovery, e) /\ ~Known(p, c, 0)
      /\ jobs' = jobs \cup {Len(discovery) + 1}
      /\ UNCHANGED <<active, quarantine, crawl, import, script>>
  BY <1>1, <1>3 DEF SplitOut
<1>6. Free(p, 0) /\ PageThere(p, 0)
  <2>1. CASE NewTo(p, 0)
    <3>1. page' = page \cup {[at |-> p, run |-> 0]} /\ \A m \in Inserters(p) : ~Open(m)
      BY <1>1, <2>1 DEF SplitOut
    <3>2. Free(p, 0)
      BY <2>1, <3>1, NewPageFree DEF IInv
    <3>3. page' \subseteq [at : Pages, run : Nat]
      BY <1>2, <3>1 DEF TypesOK
    <3>4. 0 \in Inserters(p)'
      <4>1. [at |-> p, run |-> 0] \in page'
        BY <3>1
      <4>2. QED  BY <4>1 DEF Inserters
    <3>5. QED  BY <3>1, <3>2, <3>3, <3>4 DEF PageThere, SeenBy
  <2>2. CASE ~NewTo(p, 0)
    <3>1. CanTouch(p, 0) /\ page' = page
      BY <1>1, <2>2 DEF SplitOut
    <3>2. QED  BY <1>2, <3>1 DEF CanTouch, Free, PageThere, Inserters, TypesOK
  <2>3. QED  BY <2>1, <2>2
<1>7. Admissible(e, 0)
  BY <1>4, <1>5, <1>6 DEF Admissible, Known
<1>8. /\ discovery' \in Seq(DiscoveryRow)
      /\ Len(discovery) \in Nat
      /\ DOMAIN discovery = 1..Len(discovery)
      /\ DOMAIN discovery' = 1..(Len(discovery) + 1)
      /\ discovery'[Len(discovery) + 1] = e
      /\ \A f \in DOMAIN discovery : discovery'[f] = discovery[f]
  BY <1>2, <1>4, <1>5, AddedDiscovery
<1>9. RowsOK'
  <2>1. 0 \notin DOMAIN crawl
    BY <1>2 DEF TypesOK
  <2>2. /\ page \subseteq page'
        /\ \A q \in page' \ page : q.at = e.page /\ q.run = 0
        /\ \E m \in Inserters(e.page)' : SeenBy(0, m)
    BY <1>4, <1>6 DEF PageThere
  <2>3. QED  BY <1>2, <1>4, <1>5, <1>7, <2>1, <2>2, RowsAdded DEF IInv
<1>10. Grown
  BY <1>5, <1>8 DEF Grown, StoredBy
<1>11. TypesOK'
  <2>1. jobs' \subseteq Nat
    <3>1. Len(discovery) + 1 \in Nat /\ jobs \subseteq Nat
      BY <1>2, <1>8 DEF TypesOK
    <3>2. QED  BY <1>5, <3>1
  <2>2. page' \subseteq [at : Pages, run : Nat]
    BY <1>6 DEF PageThere
  <2>3. QED  BY <1>2, <1>5, <1>8, <2>1, <2>2 DEF TypesOK
<1>12. RunsKnown'
  <2>1. 0 \in 0..Len(crawl)
    BY <1>2 DEF TypesOK
  <2>2. QED  BY <1>4, <1>5, <1>6, <1>8, <2>1 DEF IInv, RunsKnown, PageThere
<1>13. ImportersApart'
  BY <1>5 DEF IInv, ImportersApart, Open
<1>14. JobsComplete'
  BY <1>5, <1>8 DEF IInv, JobsComplete
<1>15. BooksOK'
  BY <1>5, <1>10, BooksKept DEF IInv, BooksOK
<1>16. ScriptOK'
  BY <1>5, <1>10, StillWaiting DEF IInv
<1>17. QED
  BY <1>9, <1>11, <1>12, <1>13, <1>14, <1>15, <1>16 DEF IInv

-----------------------------------------------------------------------------
(* The invariant *)

LEMMA InitIInv ==
    ASSUME ImportInit
    PROVE  IInv
<1>1. TypesOK
  BY ImportAssumption DEF ImportInit, TypesOK, ScriptState
<1>2. DOMAIN discovery = {} /\ DOMAIN crawl = {}
  BY DEF ImportInit
<1>3. /\ RunsKnown /\ ImportersApart /\ JobsComplete /\ BooksOK
  BY <1>2 DEF ImportInit, RunsKnown, ImportersApart, JobsComplete, BooksOK
<1>4. RowsOK
  BY <1>2 DEF RowsOK, PagesBehind, LocksHeld, LiveRowsApart, Lineage
<1>5. ScriptOK
  BY DEF ImportInit, ScriptOK, Batches
<1>6. QED
  BY <1>1, <1>3, <1>4, <1>5 DEF IInv

LEMMA StutterKeeps ==
    ASSUME IInv, UNCHANGED importVars
    PROVE  IInv'
<1>1. /\ UNCHANGED <<active, page, discovery, quarantine, jobs, crawl, import, script>>
  BY DEF importVars
<1>2. Grown
  BY <1>1 DEF Grown, StoredBy
<1>3. RowsOK'
  BY <1>1, RowsKept DEF IInv
<1>4. TypesOK' /\ RunsKnown' /\ ImportersApart' /\ JobsComplete'
  BY <1>1 DEF IInv, TypesOK, RunsKnown, ImportersApart, JobsComplete, Open
<1>5. BooksOK'
  BY <1>1, <1>2, BooksKept DEF IInv, BooksOK
<1>6. ScriptOK'
  BY <1>1, <1>2, StillWaiting DEF IInv
<1>7. QED
  BY <1>3, <1>4, <1>5, <1>6 DEF IInv

LEMMA NextKeeps ==
    ASSUME IInv, [ImportNext]_importVars
    PROVE  IInv'
<1>1. ASSUME NEW i \in Importers, ImportStep(i) PROVE IInv'
  BY <1>1, RejectKeeps, RepeatKeeps, ReviseKeeps, InsertKeeps, WaitKeeps, LoseKeeps, CutKeeps, CommitKeeps
  DEF ImportStep
<1>2. ASSUME NEW i \in Importers, HarvestImport(i) PROVE IInv'
  BY <1>2, HarvestKeeps
<1>3. ASSUME NEW i \in Importers, SendBatch(i) PROVE IInv'
  BY <1>3, SendKeeps
<1>4. CASE (\E s \in Sources : Deactivate(s)) \/ RunScript \/ TimeOut
  BY <1>4, OutsideKeeps
<1>5. ASSUME NEW d \in DOMAIN discovery, NEW u \in Urls, NEW c \in Contents, SplitOut(d, u, c)
      PROVE  IInv'
  BY <1>5, SplitKeeps
<1>6. CASE UNCHANGED importVars
  BY <1>6, StutterKeeps
<1>7. QED
  BY <1>1, <1>2, <1>3, <1>4, <1>5, <1>6 DEF ImportNext

\* The inductive invariant holds in every state, of any number of imports.
THEOREM ImportInvariance == ImportSpec => []IInv
<1>1. ImportInit => IInv
  BY InitIInv
<1>2. IInv /\ [ImportNext]_importVars => IInv'
  BY NextKeeps
<1>3. QED
  BY <1>1, <1>2, PTL DEF ImportSpec

\* Every row, book and script has its type (import_feed_records, CrawlRun).
THEOREM ImportTypeCorrect == ImportSpec => []ImportTypeOK
<1>1. IInv => ImportTypeOK
  <2>1. SUFFICES ASSUME IInv PROVE ImportTypeOK
    OBVIOUS
  <2>2. \A n \in DOMAIN crawl : crawl[n] \in ImportRecord
    BY <2>1 DEF IInv, TypesOK
  <2>3. script.step \in {"idle", "sending", "waiting", "done"}
    BY <2>1 DEF IInv, TypesOK, ScriptState
  <2>4. QED
    BY <2>1, <2>2, <2>3 DEF IInv, TypesOK, ImportRecord, ImportTypeOK
<1>2. QED
  BY <1>1, ImportInvariance, PTL

\* Whatever imports run at once, one content of a page is one discovery.
THEOREM ContentsApart == ImportSpec => []OneDiscoveryPerContent
<1>1. IInv => OneDiscoveryPerContent
  BY DEF IInv, RowsOK, LiveRowsApart, OneDiscoveryPerContent, Stored, StoredBy, Live
<1>2. QED
  BY <1>1, ImportInvariance, PTL

\* The revisions of a page are one tree, with one root.
THEOREM OneTree == ImportSpec => []LineageIsTree
<1>1. IInv => LineageIsTree
  <2>1. SUFFICES ASSUME IInv PROVE LineageIsTree
    OBVIOUS
  <2>2. ASSUME NEW d \in Stored, discovery[d].supersedes # 0
        PROVE  LET h == discovery[d].supersedes IN
               /\ h \in Stored /\ h < d
               /\ discovery[h].page = discovery[d].page
               /\ ~discovery[h].split
    BY <2>1, <2>2 DEF IInv, RowsOK, Lineage, Stored
  <2>3. \A d, e \in Stored :
            Root(d) /\ Root(e) /\ discovery[d].page = discovery[e].page => d = e
    BY <2>1 DEF IInv, RowsOK, LiveRowsApart, Stored, StoredBy, Live
  <2>4. QED  BY <2>2, <2>3 DEF LineageIsTree
<1>2. QED
  BY <1>1, ImportInvariance, PTL

\* What is stored of an import is a beginning of its batch, every record of it
\* in the tables and in one bucket, and the whole of it if it was completed.
THEOREM RecordsAccounted == ImportSpec => []EveryRecordAccounted
<1>1. IInv => EveryRecordAccounted
  <2>1. SUFFICES ASSUME IInv, NEW n \in DOMAIN crawl, StoredBy(n)
                 PROVE  LET k == crawl[n].counts
                            reached == k.imported + k.repeated + k.changed + k.rejected
                        IN
                        /\ reached <= Len(crawl[n].batch)
                        /\ crawl[n].fate = "stored" => reached = Len(crawl[n].batch)
                        /\ \A i \in 1..reached :
                            Arrived(crawl[n].batch[i]) \/ SetAside(crawl[n].batch[i])
                        /\ k.rejected > 0 <=> \E q \in quarantine : q.run = n
    BY DEF EveryRecordAccounted
  <2>2. BookOK(n) /\ crawl[n] \in ImportRecord
    BY <2>1 DEF IInv, BooksOK, TypesOK
  <2>3. Len(crawl[n].batch) \in Nat /\ crawl[n].counts \in Counts /\ crawl[n].at \in Nat
    BY <2>2 DEF ImportRecord
  <2> DEFINE k == crawl[n].counts
             reached == k.imported + k.repeated + k.changed + k.rejected
  <2>4. reached \in Nat
    BY <2>3 DEF Counts
  <2>5. reached + 1 = crawl[n].at
    BY <2>2 DEF BookOK
  <2>6. k.rejected > 0 <=> \E q \in quarantine : q.run = n
    BY <2>2 DEF BookOK
  <2>7. /\ crawl[n].at <= Len(crawl[n].batch) + 1
        /\ crawl[n].fate = "stored" => crawl[n].at = Len(crawl[n].batch) + 1
        /\ \A i \in 1..(crawl[n].at - 1) : DealtWith(n, crawl[n].batch[i])
    BY <2>2 DEF BookOK
  <2> HIDE DEF reached
  <2>8. reached = crawl[n].at - 1
    BY <2>3, <2>4, <2>5
  <2>9. ASSUME NEW i \in 1..reached
        PROVE  Arrived(crawl[n].batch[i]) \/ SetAside(crawl[n].batch[i])
    <3>1. DealtWith(n, crawl[n].batch[i])
      BY <2>7, <2>8
    <3>2. QED  BY <2>1, <3>1, DealtWithArrives DEF IInv
  <2>10. /\ reached <= Len(crawl[n].batch)
         /\ crawl[n].fate = "stored" => reached = Len(crawl[n].batch)
    BY <2>3, <2>4, <2>7, <2>8
  <2>11. QED
    BY <2>6, <2>9, <2>10 DEF reached
<1>2. QED
  BY <1>1, ImportInvariance, PTL

\* A script that ends well has brought every row that can be sent.
THEOREM RowsArrive == ImportSpec => []EveryRowArrives
<1>1. IInv => EveryRowArrives
  <2>1. SUFFICES ASSUME IInv, script.step = "done", NEW b \in DOMAIN File PROVE Delivered(b)
    BY DEF EveryRowArrives, Delivered
  <2>2. b \in Batches /\ script.batch = Len(File) /\ Len(File) \in Nat
    BY <2>1, ImportAssumption DEF IInv, TypesOK, ScriptState, Batches
  <2>3. QED  BY <2>1, <2>2 DEF IInv, ScriptOK, Batches
<1>2. QED
  BY <1>1, ImportInvariance, PTL

=============================================================================

----------------------------- MODULE FeedImport -----------------------------
(***************************************************************************)
(* Feed rows become discoveries: import_feed_records, called by a harvest  *)
(* or by an operator's import_feed_csv.py, which cuts a file into batches, *)
(* stops at the first batch that fails or times out and is run again from  *)
(* the start.  A request that timed out may still be at work then.         *)
(*                                                                         *)
(* A batch is one transaction.  A page's row is locked by the first record *)
(* that reports it again (last_seen_at is flushed), or inserted under the  *)
(* unique key (source_id, normalized_url), and both last to the commit.    *)
(* created_at is the time the transaction began.                           *)
(***************************************************************************)
EXTENDS Integers, Sequences, FiniteSets

CONSTANTS
    Sources,         \* registered sources
    Urls,            \* normalized URLs
    Contents,        \* what the hash of a row is taken of, besides its URL
    Importers,       \* imports that may run at the same time
    File,            \* the operator's CSV file, cut into batches of rows
    Harvested,       \* the batch a harvest imports
    MaxRuns,         \* bound on the imports started
    MaxSplits        \* bound on the candidates the Agent splits out

\* A row that cannot be canonicalized has no normalized URL; one that does
\* not even make a FeedRecord never leaves the operator's machine.
Invalid == "invalid"
Unsendable == "unsendable"
Rec == [source : Sources, url : Urls \cup {Invalid, Unsendable}, content : Contents]
FeedRecord == [source : Sources, url : Urls \cup {Invalid}, content : Contents]

\* _read_rows: only what makes a FeedRecord is sent.
Sendable(batch) == SelectSeq(batch, LAMBDA r : r.url # Unsendable)

\* With no row to send the script does nothing.
ASSUME ImportAssumption ==
    /\ File \in Seq(Seq(Rec)) /\ Len(File) > 0
    /\ \A b \in 1..Len(File) : Sendable(File[b]) \in Seq(FeedRecord)
    /\ Harvested \in Seq(FeedRecord)
    /\ MaxRuns \in Nat /\ MaxSplits \in Nat

VARIABLES
    active,      \* active[s]: Source.active
    page,        \* source_pages rows, each with the import that inserted it
    discovery,   \* discoveries rows, in the order of their ids
    quarantine,  \* discovery_quarantine rows
    jobs,        \* the discoveries given a normalize and a link job
    crawl,       \* crawl[n]: the n-th import and its crawl_runs row
    import,      \* import[i]: the import process i is at, or 0
    script       \* the operator's import_feed_csv.py

importVars == <<active, page, discovery, quarantine, jobs, crawl, import, script>>

-----------------------------------------------------------------------------
(* Data *)

Counts == [imported : Nat, repeated : Nat, changed : Nat, rejected : Nat]
NoCounts == [imported |-> 0, repeated |-> 0, changed |-> 0, rejected |-> 0]

\* `at` is the record an import is at, `touched` the page rows it has locked;
\* its transaction is open, stored, cut (stored as far as it had come, with
\* the crawl run's state "failed") or lost.
Import(batch) == [batch |-> batch, at |-> 1, touched |-> {}, waits |-> FALSE,
                  counts |-> NoCounts, fate |-> "open"]

\* The rows of an import are visible to itself, and to all once it is stored.
\* Split candidates (number 0) come one to a transaction.
StoredBy(n) == n \in DOMAIN crawl => crawl[n].fate \in {"stored", "cut"}
SeenBy(n, m) == m # n => StoredBy(m)

PageOf(r) == <<r.source, r.url>>
Inserters(p) == {q.run : q \in {q \in page : q.at = p}}
Open(n) == n \in DOMAIN crawl /\ crawl[n].fate = "open"

\* The discoveries of page p that import n sees.
On(p, n) == {d \in DOMAIN discovery : /\ discovery[d].page = p
                                      /\ SeenBy(n, discovery[d].run)}

\* The newest revision of a page: by created_at, without split candidates.
RevisionsOrSplits(p, n) == On(p, n)                 \* mutant: splits too
Revisions(p, n) == {d \in On(p, n) : ~discovery[d].split}
Heads(p, n) ==
    {d \in Revisions(p, n) :
        \A e \in Revisions(p, n) : discovery[e].run <= discovery[d].run}

KnownEver(p, c, n) == FALSE                         \* mutant: content not looked up
Known(p, c, n) == \E d \in On(p, n) : discovery[d].content = c

-----------------------------------------------------------------------------

ImportInit ==
    /\ active = [s \in Sources |-> TRUE]
    /\ page = {}
    /\ discovery = <<>>
    /\ quarantine = {}
    /\ jobs = {}
    /\ crawl = <<>>
    /\ import = [i \in Importers |-> 0]
    /\ script = [step |-> "idle", batch |-> 0]

\* A batch arrives at a process: from the operator, or from a harvest.
Begin(i, batch) ==
    /\ import[i] = 0
    /\ Len(crawl) < MaxRuns
    /\ crawl' = Append(crawl, Import(batch))
    /\ import' = [import EXCEPT ![i] = Len(crawl) + 1]

HarvestImport(i) ==
    /\ Begin(i, Harvested)
    /\ UNCHANGED <<active, page, discovery, quarantine, jobs, script>>

\* The record import n is at, and what it makes of it.
Working(i) ==
    /\ import[i] # 0
    /\ crawl[import[i]].at <= Len(crawl[import[i]].batch)
    /\ ~crawl[import[i]].waits

RecordOf(n) == crawl[n].batch[crawl[n].at]
Counted(n, bucket) == [crawl EXCEPT ![n].at = @ + 1, ![n].counts[bucket] = @ + 1]

\* _quarantine: the URL cannot be canonicalized, or the source is unknown or
\* no longer active when its record is reached.
Rejected(r) == r.url = Invalid \/ ~active[r.source]
RejectRecord(i) ==
    LET n == import[i]
        r == RecordOf(n)
    IN
    /\ Working(i)
    /\ Rejected(r)
    /\ quarantine' = quarantine \cup {[run |-> n, record |-> r]}
    /\ crawl' = Counted(n, "rejected")
    /\ UNCHANGED <<active, page, discovery, jobs, import, script>>

\* The page is there: its row is locked, which waits for any other import
\* that has it.
CanTouch(p, n) ==
    /\ \E m \in Inserters(p) : SeenBy(n, m)
    /\ \A m \in DOMAIN crawl : m # n /\ Open(m) => p \notin crawl[m].touched

RepeatRecord(i) ==
    LET n == import[i]
        r == RecordOf(n)
        p == PageOf(r)
    IN
    /\ Working(i)
    /\ ~Rejected(r)
    /\ CanTouch(p, n)
    /\ Known(p, r.content, n)
    /\ crawl' = [Counted(n, "repeated") EXCEPT ![n].touched = @ \cup {p}]
    /\ UNCHANGED <<active, page, discovery, quarantine, jobs, import, script>>

AddUnannounced(n, r, heads) ==                      \* mutant: no jobs for a revision
    /\ \E h \in IF heads = {} THEN {0} ELSE heads :
        discovery' = Append(discovery, [page |-> PageOf(r), content |-> r.content, run |-> n,
                                        supersedes |-> h, split |-> FALSE])
    /\ jobs' = IF heads = {} THEN jobs \cup {Len(discovery) + 1} ELSE jobs
    /\ crawl' = [Counted(n, IF heads = {} THEN "imported" ELSE "changed")
                    EXCEPT ![n].touched = @ \cup {PageOf(r)}]

\* A discovery, its jobs, and the revision it supersedes if there is one.
Add(n, r, heads) ==
    /\ \E h \in IF heads = {} THEN {0} ELSE heads :
        discovery' = Append(discovery, [page |-> PageOf(r), content |-> r.content, run |-> n,
                                        supersedes |-> h, split |-> FALSE])
    /\ jobs' = jobs \cup {Len(discovery) + 1}
    /\ crawl' = [Counted(n, IF heads = {} THEN "imported" ELSE "changed")
                    EXCEPT ![n].touched = @ \cup {PageOf(r)}]

ReviseRecord(i) ==
    LET n == import[i]
        r == RecordOf(n)
        p == PageOf(r)
    IN
    /\ Working(i)
    /\ ~Rejected(r)
    /\ CanTouch(p, n)
    /\ ~Known(p, r.content, n)
    /\ Add(n, r, Heads(p, n))
    /\ UNCHANGED <<active, page, quarantine, import, script>>

\* The page is new to this import ...
NewTo(p, n) == \A m \in Inserters(p) : ~SeenBy(n, m)

InsertPage(i) ==
    LET n == import[i]
        r == RecordOf(n)
        p == PageOf(r)
    IN
    /\ Working(i)
    /\ ~Rejected(r)
    /\ NewTo(p, n)
    /\ \A m \in Inserters(p) : ~Open(m)
    /\ page' = page \cup {[at |-> p, run |-> n]}
    /\ Add(n, r, {})
    /\ UNCHANGED <<active, quarantine, import, script>>

\* ... but another one is inserting it: the flush waits for that one,
WaitForPage(i) ==
    LET n == import[i]
        p == PageOf(RecordOf(n))
    IN
    /\ Working(i)
    /\ ~Rejected(RecordOf(n))
    /\ NewTo(p, n)
    /\ \E m \in Inserters(p) : Open(m)
    /\ crawl' = [crawl EXCEPT ![n].waits = TRUE]
    /\ UNCHANGED <<active, page, discovery, quarantine, jobs, import, script>>

Waiting(i) == import[i] # 0 /\ crawl[import[i]].waits
Decided(i) == \A m \in Inserters(PageOf(RecordOf(import[i]))) : ~Open(m)

\* and goes on if that one was lost.
GoOn(i) ==
    /\ Waiting(i)
    /\ Decided(i)
    /\ NewTo(PageOf(RecordOf(import[i])), import[i])
    /\ crawl' = [crawl EXCEPT ![import[i]].waits = FALSE]
    /\ UNCHANGED <<active, page, discovery, quarantine, jobs, import, script>>

AnsweredAnyway(i, ok) ==                            \* mutant: a failure is skipped
    IF script.step = "waiting" /\ script.by = i
    THEN IF script.batch = Len(File) THEN [step |-> "done", batch |-> script.batch]
         ELSE [step |-> "sending", batch |-> script.batch + 1]
    ELSE script

\* What the operator's script makes of the answer to its batch.
Answered(i, ok) ==
    IF script.step = "waiting" /\ script.by = i
    THEN IF ok
         THEN IF script.batch = Len(File) THEN [step |-> "done", batch |-> script.batch]
              ELSE [step |-> "sending", batch |-> script.batch + 1]
         ELSE [step |-> "idle", batch |-> 0]
    ELSE script

\* The unique key is taken, the connection fails, or the process dies.  The
\* commit in import_feed_records' finally cannot save a session in that
\* state: the whole batch is lost, with the crawl run that should say so.
Collides(i) == Waiting(i) /\ Decided(i) /\ ~NewTo(PageOf(RecordOf(import[i])), import[i])
Lose(i) ==
    /\ import[i] # 0
    /\ crawl[import[i]].waits => Collides(i)
    /\ crawl' = [crawl EXCEPT ![import[i]].fate = "lost", ![import[i]].waits = FALSE]
    /\ script' = Answered(i, FALSE)
    /\ import' = [import EXCEPT ![i] = 0]
    /\ UNCHANGED <<active, page, discovery, quarantine, jobs>>

\* An exception of the code between its statements leaves the session usable:
\* the finally's commit stores every record before this one, and the new page
\* of this one if that was flushed already.  The caller gets the exception.
CutShort(i) ==
    LET n == import[i]
        p == PageOf(RecordOf(n))
    IN
    /\ Working(i)
    /\ \/ UNCHANGED page
       \/ /\ ~Rejected(RecordOf(n))
          /\ NewTo(p, n)
          /\ \A m \in Inserters(p) : ~Open(m)
          /\ page' = page \cup {[at |-> p, run |-> n]}
    /\ crawl' = [crawl EXCEPT ![n].fate = "cut"]
    /\ script' = Answered(i, FALSE)
    /\ import' = [import EXCEPT ![i] = 0]
    /\ UNCHANGED <<active, discovery, quarantine, jobs>>

Commit(i) ==
    /\ import[i] # 0
    /\ crawl[import[i]].at > Len(crawl[import[i]].batch)
    /\ crawl' = [crawl EXCEPT ![import[i]].fate = "stored"]
    /\ script' = Answered(i, TRUE)
    /\ import' = [import EXCEPT ![i] = 0]
    /\ UNCHANGED <<active, page, discovery, quarantine, jobs>>

-----------------------------------------------------------------------------
(* The operator, the administrator, the Agent *)

\* The script starts, or is run again, with the file's first batch ...
RunScript ==
    /\ script.step = "idle"
    /\ script' = [step |-> "sending", batch |-> 1]
    /\ UNCHANGED <<active, page, discovery, quarantine, jobs, crawl, import>>

SendBatch(i) ==
    /\ script.step = "sending"
    /\ Begin(i, Sendable(File[script.batch]))
    /\ script' = [step |-> "waiting", batch |-> script.batch, by |-> i]
    /\ UNCHANGED <<active, page, discovery, quarantine, jobs>>

\* ... and gives up on a batch that takes longer than --timeout.
TimeOut ==
    /\ script.step = "waiting"
    /\ script' = [step |-> "idle", batch |-> 0]
    /\ UNCHANGED <<active, page, discovery, quarantine, jobs, crawl, import>>

\* deactivate_source
Deactivate(s) ==
    /\ active[s]
    /\ active' = [active EXCEPT ![s] = FALSE]
    /\ UNCHANGED <<page, discovery, quarantine, jobs, crawl, import, script>>

\* submit_candidates: an item with a link of its own sits on that page, one
\* without on its parent's.  It is newer than the page's revisions and
\* supersedes none of them.  A request that has to wait for a page and then
\* finds its key taken fails as a whole.
SplitOut(d, u, c) ==
    LET p == <<discovery[d].page[1], u>> IN
    /\ StoredBy(discovery[d].run)
    /\ active[p[1]]
    /\ Cardinality({e \in DOMAIN discovery : discovery[e].split}) < MaxSplits
    /\ ~Known(p, c, 0)
    /\ IF NewTo(p, 0)
       THEN /\ \A m \in Inserters(p) : ~Open(m)
            /\ page' = page \cup {[at |-> p, run |-> 0]}
       ELSE /\ CanTouch(p, 0)
            /\ UNCHANGED page
    /\ discovery' = Append(discovery, [page |-> p, content |-> c, run |-> 0,
                                       supersedes |-> 0, split |-> TRUE])
    /\ jobs' = jobs \cup {Len(discovery) + 1}
    /\ UNCHANGED <<active, quarantine, crawl, import, script>>

ImportStep(i) ==
    \/ RejectRecord(i)
    \/ RepeatRecord(i)
    \/ ReviseRecord(i)
    \/ InsertPage(i)
    \/ WaitForPage(i)
    \/ GoOn(i)
    \/ Lose(i)
    \/ CutShort(i)
    \/ Commit(i)

ImportNext ==
    \/ \E i \in Importers : ImportStep(i) \/ HarvestImport(i) \/ SendBatch(i)
    \/ RunScript
    \/ TimeOut
    \/ \E s \in Sources : Deactivate(s)
    \/ \E d \in DOMAIN discovery, u \in Urls, c \in Contents : SplitOut(d, u, c)

ImportSpec == ImportInit /\ [][ImportNext]_importVars

-----------------------------------------------------------------------------
(* Properties *)

Pages == Sources \X Urls
DiscoveryRow == [page : Pages, content : Contents, run : Nat, supersedes : Nat, split : BOOLEAN]

ImportTypeOK ==
    /\ active \in [Sources -> BOOLEAN]
    /\ page \subseteq [at : Pages, run : Nat]
    /\ discovery \in Seq(DiscoveryRow)
    /\ quarantine \subseteq [run : Nat \ {0}, record : Rec]
    /\ jobs \subseteq Nat
    /\ \A n \in DOMAIN crawl : /\ crawl[n].fate \in {"open", "stored", "cut", "lost"}
                               /\ crawl[n].batch \in Seq(FeedRecord)
                               /\ crawl[n].at \in Nat
                               /\ crawl[n].counts \in Counts
    /\ import \in [Importers -> 0..MaxRuns]
    /\ script.step \in {"idle", "sending", "waiting", "done"}

Stored == {d \in DOMAIN discovery : StoredBy(discovery[d].run)}

\* One content of a page is one discovery, however often and by however many
\* imports at once its row is reported: a rerun of the script, an import that
\* outlived its request, a harvest beside it (import_feed_records).
OneDiscoveryPerContent ==
    \A d, e \in Stored :
        discovery[d].page = discovery[e].page /\ discovery[d].content = discovery[e].content
            => d = e

\* The place a stored record has come to.
Arrived(r) == \E d \in Stored : /\ discovery[d].page = PageOf(r)
                                /\ discovery[d].content = r.content
                                /\ d \in jobs
SetAside(r) == \E q \in quarantine : q.record = r /\ StoredBy(q.run)

\* Whatever cut an import short, what is stored of it is a beginning of its
\* batch: as many records as its four counts add up to are each a discovery
\* with both its jobs, or a quarantined row, and if the crawl run says
\* completed that is every record (import_feed_records: "Every row lands in
\* exactly one of four buckets").
EveryRecordAccounted ==
    \A n \in DOMAIN crawl : StoredBy(n) =>
        LET k == crawl[n].counts
            reached == k.imported + k.repeated + k.changed + k.rejected
        IN
        /\ reached <= Len(crawl[n].batch)
        /\ crawl[n].fate = "stored" => reached = Len(crawl[n].batch)
        /\ \A i \in 1..reached : Arrived(crawl[n].batch[i]) \/ SetAside(crawl[n].batch[i])
        /\ k.rejected > 0 <=> \E q \in quarantine : q.run = n

\* A script that ends well has brought every row of its file that can be sent
\* to the server's tables, after whatever failures, timeouts and reruns
\* (import_feed_csv.main).
EveryRowArrives ==
    script.step = "done" =>
        \A b \in DOMAIN File : \A i \in DOMAIN Sendable(File[b]) :
            LET r == Sendable(File[b])[i] IN Arrived(r) \/ SetAside(r)

Root(d) == ~discovery[d].split /\ discovery[d].supersedes = 0

\* The revisions of a page are one tree: exactly one of them supersedes
\* nothing, every other an older revision of the same page and never a
\* candidate split out of it (the lookup of `head`).
LineageIsTree ==
    /\ \A d \in Stored : discovery[d].supersedes # 0 =>
        LET h == discovery[d].supersedes IN
        /\ h \in Stored /\ h < d
        /\ discovery[h].page = discovery[d].page
        /\ ~discovery[h].split
    /\ \A d, e \in Stored : Root(d) /\ Root(e) /\ discovery[d].page = discovery[e].page => d = e
=============================================================================

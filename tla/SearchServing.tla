--------------------------- MODULE SearchServing ---------------------------
(***************************************************************************)
(* What a visitor meets: POST /search with its pages and its anonymous     *)
(* session, GET /search/{id} (the replay of a first page), and             *)
(* POST /join-intents (the hand-over of a search to Core), while reviewers *)
(* correct and withdraw records.                                           *)
(*                                                                         *)
(* A request has one transaction.  Its writes are flushed while it runs,   *)
(* which takes the locks of the unique keys it inserts, and are committed  *)
(* by get_db, a dependency with yield: FastAPI runs that part after the    *)
(* response has been sent.  So a visitor can hold a cookie, a cursor or a  *)
(* search id whose rows are not there yet, or never will be.               *)
(*                                                                         *)
(* A refusal by a rate limiter ends a request before it has done anything, *)
(* or rolls it back: see RateLimiter.                                      *)
(***************************************************************************)
EXTENDS Integers, Sequences, FiniteSets

CONSTANTS
    Searches,        \* logical searches, numbered from 1
    Cycles,          \* cycles, numbered in the order of cycle_id
    Visitors,
    Filters,         \* normalized filters, that is, their digests
    Limits,          \* page sizes a request may ask for
    Keys,            \* idempotency keys of join requests
    Catalogue,       \* Catalogue[c]: what c is at the start
    Corrections,     \* Corrections[c]: what a reviewer may make of c
    ScanLimit,       \* PUBLISHED_CYCLE_SCAN_LIMIT
    SoonWindow,      \* CLOSING_SOON_WINDOW_DAYS
    MonthLength,     \* units of time in a month
    SessionTTL,      \* SESSION_TTL
    SearchRetention, \* SEARCH_RETENTION
    MaxSessions,     \* bound on the sessions of a run
    MaxTime          \* the clock stops here

VARIABLES
    now,      \* the clock
    row,      \* row[c]: the cycle and its scholarship, as one record
    session,  \* session[s]: expires_at of a stored session, or NoTime
    minted,   \* sessions made so far, stored or not
    cookie,   \* cookie[v]: the session of v's cookie, or 0
    issued,   \* the cursors handed out so far
    started,  \* search ids made so far
    pages,    \* pages[s][n]: row (s, n) of `searches`
    events,   \* searches whose completed-search event is in the outbox
    sent,     \* history: sent[s], page one of s as it was first answered
    join,     \* join[k]: the stored outcome of the join request with key k
    core,     \* core[k]: the search that Core keeps under k, or 0
    request,  \* request[v]: the request v has under way
    out       \* the replay this step answered with, if any

servingVars == <<now, row, session, minted, cookie, issued, started, pages, events,
                 sent, join, core, request, out>>

NoTime == -1
Fits == {"confirmed", "possible", "none"}
Award == [life : {"draft", "published", "withdrawn"},
          status : {"open_verified", "expected_to_reopen", "status_unknown"},
          deadline : Nat \cup {NoTime}, validUntil : Nat \cup {NoTime},
          month : 0..11 \cup {NoTime}, fit : [Filters -> Fits]]

ASSUME ServingAssumption ==
    /\ Cycles \subseteq Nat /\ IsFiniteSet(Cycles)
    /\ Limits \subseteq Nat \ {0}
    /\ IsFiniteSet(Searches) /\ Searches = 1..Cardinality(Searches)
    /\ Catalogue \in [Cycles -> Award]
    /\ Corrections \in [Cycles -> SUBSET Award]
    /\ {ScanLimit, SoonWindow, SessionTTL, SearchRetention, MaxSessions, MaxTime} \subseteq Nat
    /\ MonthLength \in Nat \ {0}

-----------------------------------------------------------------------------
(* Matching and ranking *)

\* evaluate_public_status; a deadline is its cutoff instant.
Shown(a, t) ==
    IF /\ a.status = "open_verified"
       /\ \/ a.deadline # NoTime /\ a.deadline <= t
          \/ a.validUntil # NoTime /\ a.validUntil <= t
    THEN "status_unknown" ELSE a.status

\* evaluate_status_detail, for a status that is shown at all.
Detail(a, t) ==
    IF a.status = "expected_to_reopen" THEN "likely_to_open"
    ELSE IF a.deadline # NoTime /\ a.deadline - t <= SoonWindow THEN "closing_soon"
    ELSE "open"

\* The bounded scan of published cycles, in the order of their ids.
Scanned ==
    LET published == {c \in Cycles : row[c].life = "published"}
    IN  {c \in published : Cardinality({d \in published : d < c}) < ScanLimit}

\* evaluate_match and _search_result: the cycles that make a result.
Results(f, t) == {c \in Scanned : /\ row[c].fit[f] # "none"
                                  /\ Shown(row[c], t) # "status_unknown"}

StatusRank == [open |-> 0, closing_soon |-> 1, likely_to_open |-> 2]
MonthOf(t) == (t \div MonthLength) % 12

\* _result_sort_value
SortValue(a, t) ==
    IF a.status = "open_verified"
    THEN IF a.deadline # NoTime THEN <<0, a.deadline>> ELSE <<1, 0>>
    ELSE IF a.month # NoTime THEN <<0, (a.month - MonthOf(t)) % 12>> ELSE <<1, 13>>

SortKey(c, f, t) ==
    LET a == row[c]
    IN  <<IF a.fit[f] = "confirmed" THEN 0 ELSE 1, StatusRank[Detail(a, t)],
          SortValue(a, t)[1], SortValue(a, t)[2], c>>

Precedes(j, k) == \E i \in DOMAIN j : j[i] < k[i] /\ \A h \in 1..(i - 1) : j[h] = k[h]

\* matched, after its sort.
Matched(f, t) ==
    LET R == Results(f, t)
        before(c) == {d \in R : Precedes(SortKey(d, f, t), SortKey(c, f, t))}
    IN  [i \in 1..Cardinality(R) |-> CHOOSE c \in R : Cardinality(before(c)) = i - 1]

\* matched[offset : offset + limit]
Slice(m, offset, limit) ==
    SubSeq(m, offset + 1, IF offset + limit < Len(m) THEN offset + limit ELSE Len(m))

-----------------------------------------------------------------------------
(* Cursors, sessions, stored pages *)

\* encode_cursor.  The signature makes an issued cursor the only valid one.
Cursor(offset, f, s, limit) == [offset |-> offset, filter |-> f, search |-> s, limit |-> limit]
NoCursor == Cursor(0, "none", 0, 0)

\* decode_cursor
RedeemableAtAnyLimit(cur, f, limit) == cur.filter = f    \* mutant: limit unbound
Redeemable(cur, f, limit) == cur.filter = f /\ cur.limit = limit

HasFullPage(m, offset, limit) == offset + limit <= Len(m) \* mutant: <= for <
HasNextPage(m, offset, limit) == offset + limit < Len(m)

NextOffset(offset, limit) == offset + limit
PageNumber(offset, limit) == offset \div limit + 1

NextCursor(m, offset, f, s, limit) ==
    IF HasNextPage(m, offset, limit)
    THEN {Cursor(NextOffset(offset, limit), f, s, limit)} ELSE {}

\* get_existing_session: the caller's session, or 0.
ExistingSession(v) ==
    IF cookie[v] # 0 /\ session[cookie[v]] > now THEN cookie[v] ELSE 0

\* A row of `searches`.  `matched` stands for total_match_count and the
\* counts by fit; `next` is pagination.has_next_page of the snapshot.
NoPage == [session |-> 0]

\* The row (s, n), if it is stored.
PageRow(s, n) == IF n \in DOMAIN pages[s] THEN pages[s][n] ELSE NoPage

\* What record_search_response leaves of a row: every column of the new
\* response, except that a column the session saw unchanged is not written.
Rewritten(stored, loaded, new) ==
    IF loaded = NoPage \/ new.session # loaded.session THEN new
    ELSE [new EXCEPT !.session = stored.session]

Idle == [step |-> "idle"]
NoReply == [search |-> 0]

\* The unique key (search_id, page_number) a request has flushed.
Writes(v, s, n) == request[v].step = "answered" /\ request[v].at = <<s, n>>
\* The idempotency key it has flushed.
Inserts(v, k) == request[v].step \in {"calling", "joined"}
                 /\ request[v].key = k /\ request[v].insert

-----------------------------------------------------------------------------

ServingInit ==
    /\ now = 0
    /\ row = Catalogue
    /\ session = [s \in 1..MaxSessions |-> NoTime]
    /\ minted = 0
    /\ cookie = [v \in Visitors |-> 0]
    /\ issued = {}
    /\ started = 0
    /\ pages = [s \in Searches |-> [n \in {} |-> NoPage]]
    /\ events = {}
    /\ sent = [s \in Searches |-> NoPage]
    /\ join = [k \in Keys |-> "none"]
    /\ core = [k \in Keys |-> 0]
    /\ request = [v \in Visitors |-> Idle]
    /\ out = NoReply

Step(v, r) == request' = [request EXCEPT ![v] = r] /\ out' = NoReply

\* get_or_create_session: the session the request runs in.  A new one has its
\* row flushed; the cookie travels with the response.
SessionFor(v) ==
    IF ExistingSession(v) # 0 THEN ExistingSession(v) ELSE minted + 1
Mint(v) ==
    IF ExistingSession(v) # 0 THEN UNCHANGED minted
    ELSE minted < MaxSessions /\ minted' = minted + 1

\* POST /search up to the flush: session, cursor, scan, matching and ranking,
\* and the row (search_id, page_number) if there is one already.
SearchRead(v, f, limit, cur) ==
    LET fresh == cur = NoCursor
        s == IF fresh THEN started + 1 ELSE cur.search
        offset == cur.offset
        n == PageNumber(offset, limit)
        m == Matched(f, now)
        new == [session |-> SessionFor(v), filter |-> f, limit |-> limit,
                data |-> Slice(m, offset, limit), next |-> HasNextPage(m, offset, limit),
                expires |-> now + SearchRetention, matched |-> m]
    IN  /\ request[v] = Idle
        /\ IF fresh THEN started < Cardinality(Searches) /\ started' = started + 1
           ELSE Redeemable(cur, f, limit) /\ UNCHANGED started
        /\ Mint(v)
        /\ Step(v, [step |-> "read", at |-> <<s, n>>, loaded |-> PageRow(s, n), new |-> new,
                    cursors |-> NextCursor(m, offset, f, s, limit),
                    mints |-> IF ExistingSession(v) = 0 THEN now + SessionTTL ELSE NoTime])
        /\ UNCHANGED <<now, row, session, cookie, issued, pages, sent, events, join,
                       core>>

\* The row is flushed and the response sent.  A row or an insert of the same
\* page that another request has flushed makes this one wait.
SearchAnswer(v) ==
    LET r == request[v] IN
    /\ r.step = "read"
    /\ ~ \E w \in Visitors : Writes(w, r.at[1], r.at[2])
    /\ r.loaded = PageRow(r.at[1], r.at[2]) \/ r.loaded # NoPage
    /\ cookie' = [cookie EXCEPT ![v] = r.new.session]
    /\ issued' = issued \cup r.cursors
    /\ sent' = IF r.at[2] = 1 /\ sent[r.at[1]] = NoPage
               THEN [sent EXCEPT ![r.at[1]] = r.new] ELSE sent
    /\ Step(v, [r EXCEPT !.step = "answered"])
    /\ UNCHANGED <<now, row, session, minted, started, pages, events, join, core>>

\* The insert meets a row another request has committed since: an error, and
\* nothing of this request stays.
SearchConflict(v) ==
    LET r == request[v] IN
    /\ r.step = "read"
    /\ r.loaded = NoPage /\ PageRow(r.at[1], r.at[2]) # NoPage
    /\ Step(v, Idle)
    /\ UNCHANGED <<now, row, session, minted, cookie, issued, started, pages, sent,
                   events, join, core>>

\* get_db's commit: session, page and, for a first page, its event.
EventsOfAny(n) == TRUE                              \* mutant: an event per page
EventsOf(n) == n = 1
SearchCommit(v) ==
    LET r == request[v]
        s == r.at[1]
        n == r.at[2]
    IN
    /\ r.step = "answered"
    /\ pages' = [pages EXCEPT ![s] = [i \in DOMAIN @ \cup {n} |->
                    IF i = n THEN Rewritten(PageRow(s, n), r.loaded, r.new) ELSE @[i]]]
    /\ session' = IF r.mints # NoTime THEN [session EXCEPT ![r.new.session] = r.mints]
                  ELSE session
    /\ events' = IF EventsOf(n) THEN events \cup {s} ELSE events
    /\ Step(v, Idle)
    /\ UNCHANGED <<now, row, minted, cookie, issued, started, sent, join, core>>

\* The commit fails, or the process dies, after the response.
SearchLost(v) ==
    /\ request[v].step = "answered"
    /\ Step(v, Idle)
    /\ UNCHANGED <<now, row, session, minted, cookie, issued, started, pages, sent,
                   events, join, core>>

\* get_search and _replay_search, for a search that is found; every other
\* answer is the same 404.
AnyRecord(c) == TRUE                                \* mutant: no filter
StillPublished(c) == row[c].life = "published"
Replay(v, s) ==
    LET stored == PageRow(s, 1)
        shown == SelectSeq(stored.data, StillPublished)
    IN
    /\ ExistingSession(v) # 0
    /\ stored # NoPage
    /\ stored.session = ExistingSession(v)
    /\ stored.expires > now
    /\ out' = [search |-> s, by |-> v, shown |-> shown]
    /\ issued' = issued \cup (IF stored.next
                              THEN {Cursor(stored.limit, stored.filter, s, stored.limit)}
                              ELSE {})
    /\ UNCHANGED <<now, row, session, minted, cookie, started, pages, sent, events,
                   join, core, request>>

-----------------------------------------------------------------------------
(* Handing a search over to Core *)

\* create_join_intent: a search is handed over by a session that has a page
\* of it.
Owns(v, s) == \E n \in DOMAIN pages[s] : pages[s][n].session = ExistingSession(v)

\* ... up to the call of Core: the join request's row is loaded or inserted.
\* Every refusal before this point rolls back and leaves nothing.
JoinStart(v, s, k) ==
    /\ request[v] = Idle
    /\ ExistingSession(v) # 0
    /\ Owns(v, s)
    /\ ~ \E w \in Visitors : Inserts(w, k)
    /\ Step(v, [step |-> "calling", key |-> k, search |-> s, insert |-> join[k] = "none"])
    /\ UNCHANGED <<now, row, session, minted, cookie, issued, started, pages, sent,
                   events, join, core>>

\* Core keeps the first hand-over under an idempotency key.
CoreKeeps(k, s) == core' = IF core[k] = 0 THEN [core EXCEPT ![k] = s] ELSE core

CoreAnswers(v) ==
    /\ request[v].step = "calling"
    /\ CoreKeeps(request[v].key, request[v].search)
    /\ Step(v, [request[v] EXCEPT !.step = "joined"])
    /\ UNCHANGED <<now, row, session, minted, cookie, issued, started, pages, sent,
                   events, join>>

\* The row of a join request whose call of Core failed: the outcome "failed"
\* is set, and the exception that reports it makes get_db roll it back.
AfterFailureKept(k) == "failed"                     \* mutant: the row is committed
AfterFailure(k) == join[k]

\* Core refuses, or its acceptance is lost (a timeout, a malformed body).
CoreFails(v) ==
    LET k == request[v].key IN
    /\ request[v].step = "calling"
    /\ UNCHANGED core \/ CoreKeeps(k, request[v].search)
    /\ join' = [join EXCEPT ![k] = AfterFailure(k)]
    /\ Step(v, Idle)
    /\ UNCHANGED <<now, row, session, minted, cookie, issued, started, pages, sent,
                   events>>

JoinCommit(v) ==
    /\ request[v].step = "joined"
    /\ join' = [join EXCEPT ![request[v].key] = "created"]
    /\ Step(v, Idle)
    /\ UNCHANGED <<now, row, session, minted, cookie, issued, started, pages, sent,
                   core, events>>

JoinLost(v) ==
    /\ request[v].step = "joined"
    /\ Step(v, Idle)
    /\ UNCHANGED <<now, row, session, minted, cookie, issued, started, pages, sent,
                   events, join, core>>

-----------------------------------------------------------------------------
(* The catalogue and the clock *)

\* A reviewer publishes or corrects a record (see CycleFreshness).
Correct(c, a) ==
    /\ row[c].life # "withdrawn"
    /\ a # row[c]
    /\ row' = [row EXCEPT ![c] = a]
    /\ out' = NoReply
    /\ UNCHANGED <<now, session, minted, cookie, issued, started, pages, sent, events,
                   join, core, request>>

\* withdraw_scholarship
Withdraw(c) ==
    /\ row[c].life = "published"
    /\ row' = [row EXCEPT ![c].life = "withdrawn", ![c].status = "status_unknown"]
    /\ out' = NoReply
    /\ UNCHANGED <<now, session, minted, cookie, issued, started, pages, sent, events,
                   join, core, request>>

Tick ==
    /\ now < MaxTime
    /\ now' = now + 1
    /\ out' = NoReply
    /\ UNCHANGED <<row, session, minted, cookie, issued, started, pages, sent, events,
                   join, core, request>>

Visit(v) ==
    \/ \E f \in Filters, limit \in Limits, cur \in issued \cup {NoCursor} :
            SearchRead(v, f, limit, cur)
    \/ SearchAnswer(v)
    \/ SearchConflict(v)
    \/ SearchCommit(v)
    \/ SearchLost(v)
    \/ \E s \in Searches : Replay(v, s)
    \/ \E s \in Searches, k \in Keys : JoinStart(v, s, k)
    \/ CoreAnswers(v)
    \/ CoreFails(v)
    \/ JoinCommit(v)
    \/ JoinLost(v)

ServingNext ==
    \/ \E v \in Visitors : Visit(v)
    \/ \E c \in Cycles : Withdraw(c) \/ \E a \in Corrections[c] : Correct(c, a)
    \/ Tick

ServingSpec == ServingInit /\ [][ServingNext]_servingVars

-----------------------------------------------------------------------------
(* Properties *)

PageRecord == [session : 1..MaxSessions, filter : Filters, limit : Limits,
               data : Seq(Cycles), next : BOOLEAN, expires : Nat, matched : Seq(Cycles)]

ServingTypeOK ==
    /\ now \in 0..MaxTime
    /\ row \in [Cycles -> Award]
    /\ session \in [1..MaxSessions -> Nat \cup {NoTime}]
    /\ minted \in 0..MaxSessions
    /\ cookie \in [Visitors -> 0..MaxSessions]
    /\ \A c \in issued : /\ c.offset \in Nat /\ c.filter \in Filters
                         /\ c.search \in Searches /\ c.limit \in Limits
    /\ started \in 0..Cardinality(Searches)
    /\ \A s \in Searches : /\ DOMAIN pages[s] \subseteq Nat \ {0}
                           /\ \A n \in DOMAIN pages[s] : pages[s][n] \in PageRecord
    /\ sent \in [Searches -> PageRecord \cup {NoPage}]
    /\ join \in [Keys -> {"none", "created", "failed"}]
    /\ core \in [Keys -> 0..Cardinality(Searches)]
    /\ \A v \in Visitors :
        request[v].step \in {"idle", "read", "answered", "calling", "joined"}

\* The cycles of data that are published when the rows are rows.
Unwithdrawn(rows, data) == SelectSeq(data, LAMBDA c : rows[c].life = "published")

\* A replay shows what the first response of the search showed, in its order,
\* to the session it was shown to, without the records withdrawn since
\* (_replay_search).  That needs page one never to be rewritten by a later
\* page request, which is what the offset and the limit bound into a cursor
\* are for (encode_cursor).
ReplayTellsWhatWasSent ==
    out.search # 0 =>
        /\ out.shown = Unwithdrawn(row, sent[out.search].data)
        /\ cookie[out.by] = sent[out.search].session

\* While the catalogue gives the same matches, the pages of one search follow
\* each other without a gap and without a repetition, and the last one is the
\* one that says there is no next page (search, encode_cursor).
PagesJoinUp ==
    \A s \in Searches : \A n \in DOMAIN pages[s] :
        LET p == pages[s][n] IN
        /\ p.data = Slice(p.matched, (n - 1) * p.limit, p.limit)
        /\ p.next <=> n * p.limit < Len(p.matched)
        /\ \A i \in DOMAIN pages[s] : pages[s][i].limit = p.limit

\* A completed-search event is on record exactly for the searches whose first
\* page is, whatever becomes of their later pages: the funnel counts a search
\* once and only if its history exists (search, enqueue_analytics_event).
EventIffRecorded ==
    \A s \in Searches : s \in events <=> 1 \in DOMAIN pages[s]

\* A stored join request is one that Core has taken, and what Core has taken
\* is a search that is on record here; a failed call leaves no row that says
\* otherwise (create_join_intent under get_db's rollback).
HandoversAreBacked ==
    \A k \in Keys : /\ join[k] # "none" => join[k] = "created" /\ core[k] # 0
                    /\ core[k] # 0 => DOMAIN pages[core[k]] # {}

\* A live session reaches every first page it was shown once that page is
\* committed, until retention or the session ends: no other request can take
\* the page over or change whose it is (get_search, record_search_response).
OwnerKeepsFirstPage ==
    [][\A s \in Searches :
        1 \in DOMAIN pages[s] => /\ 1 \in DOMAIN pages'[s]
                                /\ pages'[s][1] = pages[s][1]]_servingVars

History == INSTANCE SearchHistory WITH
    answered <- sent, recorded <- pages, counted <- events, taken <- core,
    settled <- {k \in Keys : join[k] # "none"}

\* Every step of every request, also of those that are lost after their
\* answer, is a step of the history of searches or leaves that as it was
\* (search and create_join_intent under get_db's late commit).
ImplementsHistory == History!Spec
=============================================================================

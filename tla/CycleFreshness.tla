--------------------------- MODULE CycleFreshness ---------------------------
(***************************************************************************)
(* One published application cycle and everyone who writes it: the         *)
(* reviewer (publish, correct, withdraw), the two freshness jobs           *)
(* (refresh_status, which recomputes, and reverify_due, which fetches the  *)
(* official page again), and the provider, whose page changes or fails.    *)
(*                                                                         *)
(* refresh_status locks, computes and commits once: one step.  A           *)
(* reverify_due run scans without a lock, later locks the cycle and        *)
(* fetches its page; the fetch commits, which gives the lock up, and the   *)
(* verdict is written by a third transaction.  Reserving a call of Jina,   *)
(* the fallback of a failed fetch, commits as well, so that the fetch has  *)
(* a second half without any lock.  A reviewer's request holds             *)
(* the scholarship's row from its first read to its commit, which keeps    *)
(* other reviewers out but not the two jobs.                               *)
(*                                                                         *)
(* Sessions keep the values they loaded first (expire_on_commit=False) and *)
(* a flush writes only the columns that differ from those: see Written.    *)
(***************************************************************************)
EXTENDS Integers

CONSTANTS
    Urls,           \* official pages the cycle may point at
    Contents,       \* what a provider may show there
    Runs,           \* concurrent runs of reverify_due
    Instants,       \* times a reviewer may enter as a deadline or a bound
    Correctable,    \* the fields that update requests change here
    MaxTime,        \* the clock stops here
    NearWindow,     \* near_deadline_days
    FetchEvery,     \* fetch interval of each bucket
    MaxAge,         \* maximal age of evidence of each bucket
    ReopenBucket,   \* bucket of an expected_to_reopen cycle
    RefreshLimit,   \* refresh_status_batch_limit (500)
    Older           \* published cycles with a smaller cycle_id

Buckets == {"open_far", "open_near", "rolling_open", "upcoming_near",
            "upcoming_far", "expected_or_unknown"}

ASSUME FreshnessAssumption ==
    /\ MaxTime \in Nat
    /\ Instants \subseteq Nat
    /\ Correctable \subseteq {"status", "url", "deadline", "validUntil", "verifiedAt"}
    /\ NearWindow \in Nat
    /\ FetchEvery \in [Buckets -> Nat]
    /\ MaxAge \in [Buckets -> Nat]
    /\ ReopenBucket \in {"upcoming_near", "upcoming_far", "expected_or_unknown"}
    /\ RefreshLimit \in Nat
    /\ Older \in Nat

VARIABLES
    now,       \* the clock
    schol,     \* lifecycle_state of the scholarship
    cyc,       \* the committed row of its cycle
    page,      \* page[u]: the committed SourcePage of url u
    site,      \* site[u]: what the provider shows at u
    task,      \* the reason of the cycle's open ReviewTask, or "none"
    run,       \* run[r]: a reverify_due run
    admin,     \* the reviewer's request that holds the scholarship's row
    vouched    \* history: has a reviewer ever set open_verified?

vars == <<now, schol, cyc, page, site, task, run, admin, vouched>>

-----------------------------------------------------------------------------
(* Data *)

NoTime == -1                         \* a NULL timestamp
Time == Nat \cup {NoTime}
Status == {"open_verified", "expected_to_reopen", "status_unknown"}

NoPage == "no page"                  \* a NULL source_page_id
Cycle == [status : Status, deadline : Time, validUntil : Time,
          verifiedAt : Time, createdAt : Nat, auto : BOOLEAN,
          url : Urls, page : Urls \cup {NoPage}]

\* normalized_content_hash is a digest of the bytes the fetcher returned: the
\* page itself, an error page, or the Markdown that Jina made of the page.
Hash(kind, content) == <<kind, content>>
NoHash == <<"none">>
Direct == {"raw", "error"}
Fallback == {"markdown", "error"}
Hashes == {NoHash} \cup {Hash(k, c) : k \in Direct \cup Fallback, c \in Contents}

\* A SourcePage: the hash and the class of the HTTP status of its last fetch.
HttpStatus == {"none", "ok", "error"}
SourcePage == [hash : Hashes, status : HttpStatus]
NeverFetched == [hash |-> NoHash, status |-> "none"]

\* Reasons of a cycle's review task.
Reasons == {"reverify_content_changed", "reverify_fetch_failed",
            "reverify_link_unreachable", "reverify_first_observation"}

Unpublished(u) == [status |-> "status_unknown", deadline |-> NoTime,
                   validUntil |-> NoTime, verifiedAt |-> NoTime, createdAt |-> 0,
                   auto |-> FALSE, url |-> u, page |-> NoPage]

\* What a flush makes of a stored row: the columns that `new` changes with
\* respect to the values the session had loaded.
Written(stored, loaded, new) ==
    [f \in DOMAIN stored |-> IF new[f] # loaded[f] THEN new[f] ELSE stored[f]]

-----------------------------------------------------------------------------
(* The rules of domain/status.py and domain/freshness.py.  A deadline is     *)
(* its cutoff instant.                                                       *)

DeadlinePassed(c, t) == c.deadline # NoTime /\ c.deadline <= t

\* evaluate_public_status: what a reader is shown.
Shown(c, t) ==
    IF /\ c.status = "open_verified"
       /\ DeadlinePassed(c, t) \/ (c.validUntil # NoTime /\ c.validUntil <= t)
    THEN "status_unknown" ELSE c.status

\* classify_bucket.
Bucket(c, t) ==
    CASE c.status = "status_unknown"     -> "expected_or_unknown"
      [] c.status = "expected_to_reopen" -> ReopenBucket
      [] OTHER -> IF c.deadline = NoTime THEN "rolling_open"
                  ELSE IF c.deadline - t <= NearWindow THEN "open_near"
                  ELSE "open_far"

\* is_reverify_due.
ReverifyDue(c, t) ==
    c.verifiedAt = NoTime \/ t - c.verifiedAt >= FetchEvery[Bucket(c, t)]

\* _evidence_deadline.
Anchor(c) == IF c.verifiedAt = NoTime THEN c.createdAt ELSE c.verifiedAt
EvidenceDeadline(c, t) == Anchor(c) + MaxAge[Bucket(c, t)]
Stale(c, t) == EvidenceDeadline(c, t) <= t

Sooner(t, u) == IF u # NoTime /\ u < t THEN u ELSE t

RefreshedByAge(c, t) ==                             \* mutant: age bound alone
    IF c.status = "open_verified" /\ Stale(c, t)
    THEN [c EXCEPT !.status = "status_unknown", !.auto = TRUE] ELSE c
RefreshedByDeadline(c, t) ==                        \* mutant: deadline alone
    IF c.status = "open_verified" /\ DeadlinePassed(c, t)
    THEN [c EXCEPT !.status = "status_unknown"] ELSE c

\* _refresh_one_status.
Refreshed(c, t) ==
    IF c.status # "open_verified" THEN c
    ELSE LET lapsed == Shown(c, t) = "status_unknown"
             bounded == [c EXCEPT !.validUntil =
                                    Sooner(EvidenceDeadline(c, t), c.deadline)]
         IN  IF lapsed THEN [bounded EXCEPT !.status = "status_unknown"]
             ELSE IF Stale(c, t)
             THEN [bounded EXCEPT !.status = "status_unknown", !.auto = TRUE]
             ELSE bounded

RestoredAnyway(c, t) ==                             \* mutant: marked or not
    [c EXCEPT !.verifiedAt = t, !.status = "open_verified", !.auto = FALSE]

\* The verdict of _reverify_one_cycle on an unchanged page.
Renewed(c, t) ==
    IF c.status = "status_unknown" /\ c.auto
    THEN [c EXCEPT !.verifiedAt = t, !.status = "open_verified", !.auto = FALSE]
    ELSE [c EXCEPT !.verifiedAt = t]

-----------------------------------------------------------------------------
(* States *)

\* A run is idle, has scanned (and found the cycle due), waits for Jina with
\* its locks given up, or has committed a fetch whose verdict is still to come.
NoRun == [pc |-> "idle"]
Scanned(t, copy) == [pc |-> "scanned", at |-> t, copy |-> copy]
Asking(t, copy, loaded) ==
    [pc |-> "asking", at |-> t, copy |-> copy, loaded |-> loaded]
Fetched(t, copy, prev) ==
    [pc |-> "fetched", at |-> t, copy |-> copy, prev |-> prev]

\* The reviewer's request, between its locked read and its commit.
NoRequest == [op |-> "none"]
Request(op, copy) == [op |-> op, copy |-> copy]

Init ==
    /\ now = 0
    /\ schol = "needs_review"
    /\ cyc \in {Unpublished(u) : u \in Urls}
    /\ page = [u \in Urls |-> NeverFetched]
    /\ site \in [Urls -> Contents]
    /\ task = "none"
    /\ run = [r \in Runs |-> NoRun]
    /\ admin = NoRequest
    /\ vouched = FALSE

-----------------------------------------------------------------------------
(* The reviewer *)

Unlocked == admin = NoRequest

PublishableEvenWithdrawn == schol # "published"     \* mutant: no such refusal

\* publish_cycle refuses a withdrawn scholarship.
Publishable == schol = "needs_review"

\* publish_cycle, of the scholarship's first (here: only) cycle.  The
\* identity check refuses a second one with the same key.
Publish(status, deadline, validUntil, verifiedAt) ==
    /\ Unlocked
    /\ Publishable
    /\ schol' = "published"
    /\ cyc' = [cyc EXCEPT !.status = status, !.deadline = deadline,
                          !.validUntil = validUntil,
                          !.verifiedAt = verifiedAt, !.createdAt = now]
    /\ vouched' = (vouched \/ status = "open_verified")
    /\ UNCHANGED <<now, page, site, task, run, admin>>

\* load_cycle_for_update, and the read of the cycles by withdraw_scholarship:
\* only the scholarship's row is locked.
BeginUpdate ==
    /\ Unlocked
    /\ schol = "published"
    /\ admin' = Request("update", cyc)
    /\ UNCHANGED <<now, schol, cyc, page, site, task, run, vouched>>

BeginWithdraw ==
    /\ Unlocked
    /\ schol # "withdrawn"
    /\ admin' = Request("withdraw", cyc)
    /\ UNCHANGED <<now, schol, cyc, page, site, task, run, vouched>>

\* What the fields of the update request may hold, which changes one of them
\* here.  auto_downgraded and source_page_id are not fields of it.
UncheckedEntry(field) ==                            \* mutant: any status text
    CASE field = "status" -> Status \cup {"closed"}
      [] field = "url"    -> Urls
      [] OTHER            -> {NoTime, now}
Entered(field) ==
    CASE field = "status"     -> Status
      [] field = "url"        -> Urls
      [] field = "verifiedAt" -> {NoTime, now}
      [] OTHER                -> Instants \cup {NoTime}
Corrections(c) ==
    UNION {{[c EXCEPT ![f] = v] : v \in Entered(f)} : f \in Correctable}

\* update_cycle and the commit of get_db.
CommitUpdate ==
    /\ admin.op = "update"
    /\ \E new \in Corrections(admin.copy) :
          /\ cyc' = Written(cyc, admin.copy, new)
          /\ vouched' = (vouched \/ new.status = "open_verified")
    /\ admin' = NoRequest
    /\ UNCHANGED <<now, schol, page, site, task, run>>

\* withdraw_scholarship and the commit of get_db.
CommitWithdraw ==
    /\ admin.op = "withdraw"
    /\ schol' = "withdrawn"
    /\ cyc' = Written(cyc, admin.copy,
                      [admin.copy EXCEPT !.status = "status_unknown",
                                         !.validUntil = NoTime])
    /\ admin' = NoRequest
    /\ UNCHANGED <<now, page, site, task, run, vouched>>

\* A refused or failed request rolls back.
AbortRequest ==
    /\ admin # NoRequest
    /\ admin' = NoRequest
    /\ UNCHANGED <<now, schol, cyc, page, site, task, run, vouched>>

\* decide_review on the cycle's task: there is nothing to approve without a
\* discovery, so the decision only resolves it.
ResolveTask ==
    /\ task # "none"
    /\ task' = "none"
    /\ UNCHANGED <<now, schol, cyc, page, site, run, admin, vouched>>

-----------------------------------------------------------------------------
(* refresh_status *)

\* One run takes the first published cycles by cycle_id, up to its limit and
\* without those that a reverify_due run holds locked; to be passed over is a
\* step of the run that leaves the cycle alone.  Cycles published later have
\* larger ids, so nothing pushes this one out of the scan again.
InRefreshScan == Older < RefreshLimit
Refresh ==
    /\ schol = "published"
    /\ InRefreshScan
    /\ cyc' = Refreshed(cyc, now)
    /\ UNCHANGED <<now, schol, page, site, task, run, admin, vouched>>

-----------------------------------------------------------------------------
(* reverify_due *)

\* The unlocked first pass; `now` is read once, here.
Scan(r) ==
    /\ run[r] = NoRun
    /\ schol = "published"
    /\ ReverifyDue(cyc, now)
    /\ run' = [run EXCEPT ![r] = Scanned(now, cyc)]
    /\ UNCHANGED <<now, schol, cyc, page, site, task, admin, vouched>>

\* What the locked read of the second pass returns: the object of the first
\* pass, or a fresh one when the failure of an earlier cycle has made the
\* run roll back, which expires it.
CopyAtLock(r) == {run[r].copy, cyc}

\* _get_or_create_source_page.
PageOf(c) == IF c.page # NoPage THEN c.page ELSE c.url
Linked(c) == [c EXCEPT !.page = PageOf(c)]

\* _open_cycle_review_task: nothing happens if one is open.
OpenTask(reason) == task' = IF task = "none" THEN reason ELSE task

\* _defer_or_flag.
DeferOrFlag(c, t, reason) ==
    IF Stale(c, t) THEN OpenTask(reason) ELSE UNCHANGED task

\* The scholarship is no longer published when its turn comes.
SkipWithdrawn(r) ==
    /\ run[r].pc = "scanned"
    /\ schol # "published"
    /\ run' = [run EXCEPT ![r] = NoRun]
    /\ UNCHANGED <<now, schol, cyc, page, site, task, admin, vouched>>

\* The fetch raises, and Jina is not configured or the refusal is one of
\* policy, which has no fallback: nothing of it is stored, the lock is still
\* held, and the verdict is part of the same transaction.
FetchRaises(r) ==
    /\ run[r].pc = "scanned"
    /\ schol = "published"
    /\ \E copy \in CopyAtLock(r) :
          /\ cyc' = Written(cyc, copy, Linked(copy))
          /\ DeferOrFlag(copy, run[r].at, "reverify_fetch_failed")
    /\ run' = [run EXCEPT ![r] = NoRun]
    /\ UNCHANGED <<now, schol, page, site, admin, vouched>>

\* fetch_and_persist_page: the page's hash is that of whatever came back, an
\* error page included, and the commit releases the lock on the cycle.
Observed(kind, content) ==
    [hash |-> Hash(kind, content), status |-> IF kind = "error" THEN "error" ELSE "ok"]
Fetch(r, kind) ==
    /\ run[r].pc = "scanned"
    /\ schol = "published"
    /\ \E copy \in CopyAtLock(r) :
          LET u == PageOf(copy)
          IN  /\ cyc' = Written(cyc, copy, Linked(copy))
              /\ page' = [page EXCEPT ![u] = Observed(kind, site[u])]
              /\ run' = [run EXCEPT ![r] = Fetched(@.at, Linked(copy),
                                                   page[u].hash)]
    /\ UNCHANGED <<now, schol, site, task, admin, vouched>>

\* The direct fetch failed or was answered with an error, and Jina is
\* configured: reserve_call commits, granted or not, and with that both locks
\* of the run are gone while it goes on.
AskJina(r) ==
    /\ run[r].pc = "scanned"
    /\ schol = "published"
    /\ \E copy \in CopyAtLock(r) :
          /\ cyc' = Written(cyc, copy, Linked(copy))
          /\ run' = [run EXCEPT ![r] = Asking(@.at, Linked(copy), page[PageOf(copy)])]
    /\ UNCHANGED <<now, schol, page, site, task, admin, vouched>>

\* Jina's Markdown, or the error page of the direct fetch where Jina did not
\* help: the flush goes by the page as it was loaded before the call.
JinaEnds(r, kind) ==
    LET u == PageOf(run[r].copy)
        loaded == run[r].loaded
    IN
    /\ run[r].pc = "asking"
    /\ page' = [page EXCEPT ![u] = Written(@, loaded, Observed(kind, site[u]))]
    /\ run' = [run EXCEPT ![r] = Fetched(@.at, @.copy, loaded.hash)]
    /\ UNCHANGED <<now, schol, cyc, site, task, admin, vouched>>

\* Jina does not help and the direct fetch had raised: that exception goes on.
JinaRaises(r) ==
    /\ run[r].pc = "asking"
    /\ DeferOrFlag(run[r].copy, run[r].at, "reverify_fetch_failed")
    /\ run' = [run EXCEPT ![r] = NoRun]
    /\ UNCHANGED <<now, schol, cyc, page, site, admin, vouched>>

\* The rest of _reverify_one_cycle and the commit of its caller.
Judge(r) ==
    LET copy == run[r].copy
        at == run[r].at
        prev == run[r].prev
        seen == page[PageOf(copy)]
    IN
    /\ run[r].pc = "fetched"
    /\ \/ /\ seen.status # "ok"
          /\ DeferOrFlag(copy, at, "reverify_link_unreachable")
          /\ UNCHANGED cyc
       \/ /\ seen.status = "ok" /\ prev = NoHash
          /\ DeferOrFlag(copy, at, "reverify_first_observation")
          /\ UNCHANGED cyc
       \/ /\ seen.status = "ok" /\ prev = seen.hash /\ ~DeadlinePassed(copy, at)
          /\ cyc' = Written(cyc, copy, Renewed(copy, at))
          /\ UNCHANGED task
       \/ /\ seen.status = "ok" /\ prev # NoHash /\ prev # seen.hash
          /\ OpenTask("reverify_content_changed")
          /\ UNCHANGED cyc
       \/ /\ seen.status = "ok" /\ prev = seen.hash /\ DeadlinePassed(copy, at)
          /\ UNCHANGED <<cyc, task>>
    /\ run' = [run EXCEPT ![r] = NoRun]
    /\ UNCHANGED <<now, schol, page, site, admin, vouched>>

\* The run dies, or an unexpected error rolls its open transaction back.
AbortRun(r) ==
    /\ run[r] # NoRun
    /\ run' = [run EXCEPT ![r] = NoRun]
    /\ UNCHANGED <<now, schol, cyc, page, site, task, admin, vouched>>

-----------------------------------------------------------------------------
(* The world *)

ProviderEdits(u) ==
    /\ \E c \in Contents : site' = [site EXCEPT ![u] = c]
    /\ UNCHANGED <<now, schol, cyc, page, task, run, admin, vouched>>

Tick ==
    /\ now < MaxTime
    /\ now' = now + 1
    /\ UNCHANGED <<schol, cyc, page, site, task, run, admin, vouched>>

Reviewer ==
    \/ \E s \in Status, d, u \in Instants \cup {NoTime}, v \in {NoTime, now} :
          Publish(s, d, u, v)
    \/ BeginUpdate
    \/ CommitUpdate
    \/ BeginWithdraw
    \/ CommitWithdraw
    \/ AbortRequest
    \/ ResolveTask

Reverify(r) ==
    \/ Scan(r)
    \/ SkipWithdrawn(r)
    \/ FetchRaises(r)
    \/ \E kind \in Direct : Fetch(r, kind)
    \/ AskJina(r)
    \/ \E kind \in Fallback : JinaEnds(r, kind)
    \/ JinaRaises(r)
    \/ Judge(r)
    \/ AbortRun(r)

Next ==
    \/ Reviewer
    \/ Refresh
    \/ \E r \in Runs : Reverify(r)
    \/ \E u \in Urls : ProviderEdits(u)
    \/ Tick

Spec == Init /\ [][Next]_vars

\* refresh_status is on a 15-minute schedule and is not due to anybody's
\* request; a fetch holds the cycle locked for seconds, so not every run passes
\* a cycle over that it scans.  Nothing is assumed of reverify_due, whose
\* fetches may fail for ever, nor of reviewers.
FairSpec == Spec /\ WF_vars(Refresh)

-----------------------------------------------------------------------------
(* Properties *)

\* Every variable has its type.
RunState ==
    [pc : {"idle"}]
    \cup [pc : {"scanned"}, at : 0..MaxTime, copy : Cycle]
    \cup [pc : {"asking"}, at : 0..MaxTime, copy : Cycle, loaded : SourcePage]
    \cup [pc : {"fetched"}, at : 0..MaxTime, copy : Cycle, prev : Hashes]
RequestState == [op : {"none"}] \cup [op : {"update", "withdraw"}, copy : Cycle]
TypeOK ==
    /\ now \in 0..MaxTime
    /\ schol \in {"needs_review", "published", "withdrawn"}
    /\ cyc \in Cycle
    /\ page \in [Urls -> SourcePage]
    /\ site \in [Urls -> Contents]
    /\ task \in Reasons \cup {"none"}
    /\ run \in [Runs -> RunState]
    /\ admin \in RequestState
    /\ vouched \in BOOLEAN

\* Neither job, on whatever old copy it acts, makes a cycle open that no
\* reviewer ever published or corrected as open: auto-restore only gives back
\* what the pipeline took.
OpenOnlyIfVouched == cyc.status = "open_verified" => vouched

\* Withdrawal is final: no publication or correction that was under way when
\* the scholarship was withdrawn brings it back, no further fetch is begun for
\* it, and all that can still open its cycle is the verdict of a reverify_due
\* run that had begun before and acts on a cycle marked for auto-restore;
\* that run is then over.
AwaitingVerdict == {r \in Runs : run[r].pc \in {"asking", "fetched"}}
WithdrawalIsFinal ==
    [][schol = "withdrawn" =>
         /\ schol' = "withdrawn"
         /\ AwaitingVerdict' \subseteq AwaitingVerdict
         /\ cyc.status # "open_verified" /\ cyc'.status = "open_verified" =>
               \E r \in AwaitingVerdict \ AwaitingVerdict' :
                  run[r].copy.status = "status_unknown" /\ run[r].copy.auto
      ]_vars

\* A stored open status does not survive its deadline, even when reverify_due
\* keeps restoring what it saw before the deadline, as long as refresh_status
\* scans that far: beyond its limit nothing takes the status back.
StoredOpenPastDeadline ==
    /\ InRefreshScan
    /\ schol = "published" /\ cyc.status = "open_verified" /\ DeadlinePassed(cyc, now)
DeadlineTakesEffect == StoredOpenPastDeadline ~> ~StoredOpenPastDeadline

\* No reader is told "open" for ever on evidence older than its bound,
\* though the page may never be fetched again: within the scan again.
ShownOpenOnStaleEvidence ==
    /\ InRefreshScan
    /\ schol = "published" /\ Shown(cyc, now) = "open_verified" /\ Stale(cyc, now)
StaleEvidenceExpires == ShownOpenOnStaleEvidence ~> ~ShownOpenOnStaleEvidence

\* A downgrade for stale evidence alone, of a cycle whose window no reviewer
\* bounded and whose deadline has not passed, is marked for auto-restore.
StaleDowngradeIsMarked ==
    [][(/\ Refresh
        /\ cyc.status = "open_verified" /\ cyc'.status = "status_unknown"
        /\ Stale(cyc, now) /\ ~DeadlinePassed(cyc, now))
       => cyc'.auto]_vars

\* A withdrawn record does not keep asserting an open application.
WithdrawnIsNotOpen == schol = "withdrawn" => cyc.status # "open_verified"
=============================================================================

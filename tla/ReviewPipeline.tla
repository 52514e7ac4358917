--------------------------- MODULE ReviewPipeline ---------------------------
(***************************************************************************)
(* From a reported award to a published record: discoveries arrive from a  *)
(* feed import or from the Agent, a link_canonical job decides whether one *)
(* is a duplicate, belongs to a known scholarship or needs a reviewer,     *)
(* prepare_review drafts the task, and a reviewer or the auto-approval     *)
(* sweep decides it.                                                       *)
(*                                                                         *)
(* Every action is a stretch of one database session that ends in a        *)
(* commit, or in an await during which other sessions can commit.          *)
(* link_discovery holds the row lock of its discovery from its first read  *)
(* to its commit.  attempt_auto_approval takes the locks of the task and   *)
(* of the discovery and loses both when fetch_and_verify_source commits:   *)
(* what it decides afterwards it decides on the objects it has loaded.     *)
(*                                                                         *)
(* A discovery stands for one (page, content) pair, so a repeated record   *)
(* never makes a second one.  Quarantined records, the revision lineage    *)
(* (supersedes_discovery_id, read by nothing here) and the extracted facts *)
(* are left out; a gate that turns on the facts may go either way.         *)
(***************************************************************************)
EXTENDS Integers, Sequences, FiniteSets

CONSTANTS
    Discoveries,   \* discovery ids: numbers, because UUIDv7 is time-ordered
    Page,          \* Page[d]: the source page d was found on
    Source,        \* Source[d]: the source that page belongs to
    Title,         \* Title[d]: its title, which gives the identity key too
    Titles,        \* the titles, and the names a reviewer may choose
    SplitChildren, \* the discoveries the Agent took out of a list page
    DraftRejects,  \* those whose draft recommendation is "reject"
    ScholarshipIds,\* a bound on how many scholarships can be created
    Linkers,       \* sessions that run link_canonical jobs
    Sweepers,      \* sessions that run auto_approve_sweep
    MinSources,    \* auto_approve_min_corroboration_sources (2)
    MaxRuns,       \* bound: MaxRuns[d] completed runs of d's link job
    MaxTasks,      \* bound: MaxTasks[d] review tasks of d
    MaxCrashes     \* bound: link runs that are cut short

ASSUME ReviewPipelineAssumption ==
    /\ Discoveries \subseteq Nat \ {0} /\ IsFiniteSet(Discoveries)
    /\ Title \in [Discoveries -> Titles]
    /\ SplitChildren \subseteq Discoveries
    /\ ScholarshipIds \subseteq Nat \ {0}
    /\ MinSources \in Nat /\ MaxCrashes \in Nat
    /\ MaxRuns \in [Discoveries -> Nat \ {0}]
    /\ MaxTasks \in [Discoveries -> Nat]
    /\ \A d \in Discoveries : MaxTasks[d] >= MaxRuns[d]

VARIABLES
    disc,         \* disc[d]: the row of discovery d
    tasks,        \* tasks[d]: its review tasks, oldest first
    scholarship,  \* scholarship[s]: the row of scholarship s
    linker,       \* linker[l]: what a run of link_discovery has read
    linked,       \* linked[d]: completed runs of d's link job
    sweep,        \* sweep[w]: the candidate attempt_auto_approval is at
    crashes       \* link runs cut short so far

vars == <<disc, tasks, scholarship, linker, linked, sweep, crashes>>

-----------------------------------------------------------------------------
(* Rows *)

None == 0                       \* a NULL reference

ProcessingState == {"absent", "normalized", "linked", "new_candidate",
                    "needs_review", "duplicate_pending"}

Discovery == [state : ProcessingState, duplicateOf : Discoveries \cup {None},
              canonical : ScholarshipIds \cup {None}, evaluated : BOOLEAN]
Absent == [state |-> "absent", duplicateOf |-> None, canonical |-> None,
           evaluated |-> FALSE]

\* A task's draft is "queued" while its prepare_review job has still to run.
Task == [state : {"open", "resolved"}, draft : {"queued", "ready"}]

Scholarship == [title : Titles, from : Discoveries, auto : BOOLEAN,
                state : {"needs_review", "published", "withdrawn"}]
NoScholarship == [state |-> "absent"]

Present(d) == disc[d].state # "absent"
Existing == {s \in ScholarshipIds : scholarship[s] # NoScholarship}
IsOpen(d, n) == n \in DOMAIN tasks[d] /\ tasks[d][n].state = "open"
HasOpenTask(d) == \E n \in DOMAIN tasks[d] : IsOpen(d, n)

IdleLinker == [at |-> "idle", disc |-> None, original |-> None, found |-> {}]
IdleSweep == [at |-> "idle", disc |-> None, task |-> None, loaded |-> "absent",
              created |-> None]

NobodyLinks(d) == TRUE                                 \* mutant: no row lock

\* Does no run of link_discovery hold d's row lock?
Unlocked(d) == \A l \in Linkers : linker[l].disc # d

Init ==
    /\ disc = [d \in Discoveries |-> Absent]
    /\ tasks = [d \in Discoveries |-> << >>]
    /\ scholarship = [s \in ScholarshipIds |-> NoScholarship]
    /\ linker = [l \in Linkers |-> IdleLinker]
    /\ linked = [d \in Discoveries |-> 0]
    /\ sweep = [w \in Sweepers |-> IdleSweep]
    /\ crashes = 0

-----------------------------------------------------------------------------
(* Arrival.  The rows of a batch and their jobs become visible in one       *)
(* commit; ids are drawn before it, so they need not become visible in      *)
(* order.                                                                   *)

Arrive(batch) ==
    /\ batch # {}
    /\ \A d \in batch : ~Present(d)
    /\ disc' = [d \in Discoveries |->
                   IF d \in batch THEN [Absent EXCEPT !.state = "normalized"]
                                  ELSE disc[d]]
    /\ UNCHANGED <<tasks, scholarship, linker, linked, sweep, crashes>>

\* import_feed_records: what becomes visible is the batch, or what was flushed
\* of one that was cut short (FeedImport's Commit and CutShort).
ImportFeedRecords(batch) == batch \cap SplitChildren = {} /\ Arrive(batch)

\* submit_candidates: the children of a page that is already known.
SubmitCandidates(parent, batch) ==
    /\ Present(parent)
    /\ \A d \in batch : d \in SplitChildren /\ Source[d] = Source[parent]
    /\ Arrive(batch)

\* _normalize_discovery: the key it recomputes is a function of the title.
\* It may run after link_discovery.
NormalizeDiscovery(d) ==
    /\ Present(d) /\ Unlocked(d)
    /\ disc' = [disc EXCEPT ![d].state = "normalized"]
    /\ UNCHANGED <<tasks, scholarship, linker, linked, sweep, crashes>>

-----------------------------------------------------------------------------
(* Review tasks *)

\* _add_review_task_once and request_review: the partial unique index lets
\* one open task per discovery in, and a task comes with its job.
Opened(d) ==
    IF HasOpenTask(d) THEN tasks
    ELSE [tasks EXCEPT ![d] = Append(@, [state |-> "open", draft |-> "queued"])]

\* request_review.  The bound leaves room for the link runs still to come.
RequestReview(d) ==
    /\ Present(d)
    /\ Len(tasks[d]) + (MaxRuns[d] - linked[d]) < MaxTasks[d]
    /\ tasks' = Opened(d)
    /\ UNCHANGED <<disc, scholarship, linker, linked, sweep, crashes>>

\* _prepare_review, which does not look at the task's state.
PrepareReview(d) ==
    /\ \E n \in DOMAIN tasks[d] :
          /\ tasks[d][n].draft = "queued"
          /\ tasks' = [tasks EXCEPT ![d][n].draft = "ready"]
    /\ UNCHANGED <<disc, scholarship, linker, linked, sweep, crashes>>

-----------------------------------------------------------------------------
(* link_discovery *)

ReportsOf(d) == {e \in Discoveries : Present(e) /\ Title[e] = Title[d]}

OriginalsAnyId(d) ==                          \* mutant: later ones count too
    {e \in ReportsOf(d) : Page[e] # Page[d] /\ disc[e].duplicateOf = None}

\* The discoveries d may be a duplicate of; the smallest id is taken.
Originals(d) ==
    {e \in ReportsOf(d) : /\ Page[e] # Page[d]
                          /\ disc[e].duplicateOf = None
                          /\ e < d}

Smallest(S) == IF S = {} THEN None ELSE CHOOSE e \in S : \A f \in S : e <= f

\* SELECT ... FOR UPDATE of d, and the query for its original.
StartLink(l, d) ==
    /\ linker[l].at = "idle"
    /\ Present(d) /\ Unlocked(d)
    /\ linked[d] < MaxRuns[d]
    /\ linker' = [linker EXCEPT ![l] = [IdleLinker EXCEPT !.at = "looking",
                     !.disc = d, !.original = Smallest(Originals(d))]]
    /\ UNCHANGED <<disc, tasks, scholarship, linked, sweep, crashes>>

\* The end of a run: its commit ends the lock.
EndLink(l) ==
    /\ linker' = [linker EXCEPT ![l] = IdleLinker]
    /\ linked' = [linked EXCEPT ![linker[l].disc] = @ + 1]
    /\ UNCHANGED <<scholarship, sweep, crashes>>

MarkDuplicate(l) ==
    LET d == linker[l].disc IN
    /\ linker[l].at = "looking" /\ linker[l].original # None
    /\ disc' = [disc EXCEPT ![d].state = "duplicate_pending",
                            ![d].duplicateOf = linker[l].original]
    /\ UNCHANGED tasks
    /\ EndLink(l)

\* The scholarships of that name, whatever their lifecycle state.
FindScholarships(l) ==
    LET d == linker[l].disc IN
    /\ linker[l].at = "looking" /\ linker[l].original = None
    /\ linker' = [linker EXCEPT ![l].at = "deciding", ![l].found =
                     {s \in Existing : scholarship[s].title = Title[d]}]
    /\ UNCHANGED <<disc, tasks, scholarship, linked, sweep, crashes>>

\* decide_link: exactly one candidate is linked without a reviewer.
AttachToScholarship(l) ==
    /\ linker[l].at = "deciding"
    /\ \E s \in linker[l].found :
          /\ linker[l].found = {s}
          /\ disc' = [disc EXCEPT ![linker[l].disc].state = "linked",
                                  ![linker[l].disc].canonical = s]
    /\ UNCHANGED tasks
    /\ EndLink(l)

NeedsReviewer(found) == found = {} \/ \E s, t \in found : s # t

SendToReviewNoTask(l) ==                       \* mutant: only the state is set
    LET d == linker[l].disc IN
    /\ linker[l].at = "deciding" /\ NeedsReviewer(linker[l].found)
    /\ disc' = [disc EXCEPT ![d].state =
                   IF linker[l].found = {} THEN "new_candidate" ELSE "needs_review"]
    /\ tasks' = IF linker[l].found = {} THEN tasks ELSE Opened(d)
    /\ EndLink(l)

\* The AI call comes before the insert; enqueue_job commits the task, its
\* job and the discovery together, and the commit after it finds no change.
SendToReview(l) ==
    LET d == linker[l].disc IN
    /\ linker[l].at = "deciding" /\ NeedsReviewer(linker[l].found)
    /\ disc' = [disc EXCEPT ![d].state =
                   IF linker[l].found = {} THEN "new_candidate" ELSE "needs_review"]
    /\ tasks' = Opened(d)
    /\ EndLink(l)

\* The process dies: its transaction is rolled back, the job comes back.
LinkCrash(l) ==
    /\ linker[l].at # "idle" /\ crashes < MaxCrashes
    /\ linker' = [linker EXCEPT ![l] = IdleLinker]
    /\ crashes' = crashes + 1
    /\ UNCHANGED <<disc, tasks, scholarship, linked, sweep>>

LinkStep(l) == \/ MarkDuplicate(l)
               \/ FindScholarships(l)
               \/ AttachToScholarship(l)
               \/ SendToReview(l)

-----------------------------------------------------------------------------
(* decide_review, publish_cycle and withdraw_scholarship *)

ResolvedAs(d, n, state) == [tasks EXCEPT ![d][n].state = state]
RejectedApart(d, n) ==                            \* mutant: a state of its own
    /\ IsOpen(d, n)
    /\ tasks' = ResolvedAs(d, n, "rejected")
    /\ UNCHANGED <<disc, scholarship, linker, linked, sweep, crashes>>

Reject(d, n) ==
    /\ IsOpen(d, n)
    /\ tasks' = ResolvedAs(d, n, "resolved")
    /\ UNCHANGED <<disc, scholarship, linker, linked, sweep, crashes>>

\* The writes of an approval: a scholarship that needs review, the discovery
\* linked to it, the task resolved.  A session that had loaded the discovery
\* as "linked" already has no change of its state to flush.
Approved(d, n, s, name, auto, loaded) ==
    /\ s \in ScholarshipIds \ Existing
    /\ scholarship' = [scholarship EXCEPT ![s] =
          [title |-> name, from |-> d, auto |-> auto, state |-> "needs_review"]]
    /\ disc' = [disc EXCEPT
          ![d].state = IF loaded = "linked" THEN @ ELSE "linked",
          ![d].canonical = s]
    /\ tasks' = ResolvedAs(d, n, "resolved")

\* A reviewer's approval, which waits for the lock of the discovery.
Approve(d, n) ==
    /\ IsOpen(d, n) /\ Unlocked(d)
    /\ \E s \in ScholarshipIds, name \in Titles :
          Approved(d, n, s, name, FALSE, disc[d].state)
    /\ UNCHANGED <<linker, linked, sweep, crashes>>

\* The publish route and the withdraw route.
Publish(s) ==
    /\ s \in Existing /\ scholarship[s].state = "needs_review"
    /\ scholarship' = [scholarship EXCEPT ![s].state = "published"]
    /\ UNCHANGED <<disc, tasks, linker, linked, sweep, crashes>>

Withdraw(s) ==
    /\ s \in Existing /\ scholarship[s].state # "withdrawn"
    /\ scholarship' = [scholarship EXCEPT ![s].state = "withdrawn"]
    /\ UNCHANGED <<disc, tasks, linker, linked, sweep, crashes>>

-----------------------------------------------------------------------------
(* attempt_auto_approval, once per candidate of _auto_approve_sweep *)

SourcesOfAll(d) == {Source[d]} \cup {Source[e] : e \in ReportsOf(d)} \* mutant: splits

\* gather_corroboration: the distinct sources that report d's award, rows
\* the Agent split out of a list left aside.
SourcesOf(d) ==
    {Source[d]} \cup {Source[e] : e \in ReportsOf(d) \ SplitChildren}

Corroborated(d) == Cardinality(SourcesOf(d)) >= MinSources

\* The candidate query and the checks repeated under the row locks.
Eligible(d, n) ==
    /\ IsOpen(d, n) /\ Unlocked(d)
    /\ ~disc[d].evaluated
    /\ tasks[d][n].draft = "ready"

\* _defer: the candidate stays with a human and is not looked at again.
Defer(w, d) ==
    /\ Unlocked(d)
    /\ disc' = [disc EXCEPT ![d].evaluated = TRUE]
    /\ sweep' = [sweep EXCEPT ![w] = IdleSweep]
    /\ UNCHANGED <<tasks, scholarship, linker, linked, crashes>>

\* The draft says reject, or the corroboration is insufficient: too few
\* sources, or facts that disagree.
TurnDown(w, d, n) == sweep[w].at = "idle" /\ Eligible(d, n) /\ Defer(w, d)

\* The first gates are passed; the locks end with the fetch's commits.
BeginVerification(w, d, n) ==
    /\ sweep[w].at = "idle" /\ Eligible(d, n)
    /\ d \notin DraftRejects
    /\ Corroborated(d)
    /\ sweep' = [sweep EXCEPT ![w] =
          [at |-> "fetching", disc |-> d, task |-> n,
           loaded |-> disc[d].state, created |-> None]]
    /\ UNCHANGED <<disc, tasks, scholarship, linker, linked, crashes>>

\* The page disagrees, or one of the later gates is not passed.
VerificationFails(w) == sweep[w].at = "fetching" /\ Defer(w, sweep[w].disc)

\* decide_review on the loaded task, whose state is still the one that
\* attempt_auto_approval read: its own check for an open task always passes.
AutoApprove(w) ==
    LET d == sweep[w].disc IN
    /\ sweep[w].at = "fetching"
    /\ Unlocked(d)
    /\ \E s \in ScholarshipIds :
          /\ Approved(d, sweep[w].task, s, Title[d], TRUE,
                      sweep[w].loaded)
          /\ sweep' = [sweep EXCEPT ![w].at = "publishing", ![w].created = s]
    /\ UNCHANGED <<linker, linked, crashes>>

\* publish_cycle, the mark on the cycle and the evaluation mark, one commit.
AutoPublish(w) ==
    LET s == sweep[w].created
        d == sweep[w].disc IN
    /\ sweep[w].at = "publishing"
    /\ scholarship[s].state # "withdrawn" /\ Unlocked(d)
    /\ scholarship' = [scholarship EXCEPT ![s].state = "published"]
    /\ disc' = [disc EXCEPT ![d].evaluated = TRUE]
    /\ sweep' = [sweep EXCEPT ![w] = IdleSweep]
    /\ UNCHANGED <<tasks, linker, linked, crashes>>

\* publish_cycle refuses a withdrawn record, the slug is taken meanwhile, an
\* exception or a crash: whatever is committed stays, nothing more is written.
AbandonCandidate(w) ==
    /\ sweep[w].at # "idle"
    /\ sweep' = [sweep EXCEPT ![w] = IdleSweep]
    /\ UNCHANGED <<disc, tasks, scholarship, linker, linked, crashes>>

-----------------------------------------------------------------------------
(* The specification *)

Next ==
    \/ \E batch \in SUBSET Discoveries :
          \/ ImportFeedRecords(batch)
          \/ \E parent \in Discoveries : SubmitCandidates(parent, batch)
    \/ \E d \in Discoveries :
          \/ NormalizeDiscovery(d)
          \/ RequestReview(d)
          \/ PrepareReview(d)
          \/ \E l \in Linkers : StartLink(l, d)
          \/ \E n \in DOMAIN tasks[d] :
                \/ Reject(d, n)
                \/ Approve(d, n)
                \/ \E w \in Sweepers : TurnDown(w, d, n) \/ BeginVerification(w, d, n)
    \/ \E l \in Linkers : LinkStep(l) \/ LinkCrash(l)
    \/ \E s \in ScholarshipIds : Publish(s) \/ Withdraw(s)
    \/ \E w \in Sweepers :
          VerificationFails(w) \/ AutoApprove(w) \/ AutoPublish(w) \/ AbandonCandidate(w)

Spec == Init /\ [][Next]_vars

-----------------------------------------------------------------------------
(* Properties *)

Run == [at : {"idle", "looking", "deciding"}, disc : Discoveries \cup {None},
        original : Discoveries \cup {None}, found : SUBSET ScholarshipIds]
Candidate == [at : {"idle", "fetching", "publishing"},
              disc : Discoveries \cup {None}, task : Nat,
              loaded : ProcessingState, created : ScholarshipIds \cup {None}]

\* The tables hold rows of their types, and a session knows only its own
\* discovery, task and scholarship ids.
TypeOK ==
    /\ disc \in [Discoveries -> Discovery]
    /\ tasks \in [Discoveries -> Seq(Task)]
    /\ scholarship \in [ScholarshipIds -> Scholarship \cup {NoScholarship}]
    /\ linker \in [Linkers -> Run]
    /\ linked \in [Discoveries -> Nat]
    /\ sweep \in [Sweepers -> Candidate]
    /\ crashes \in 0..MaxCrashes

\* Whatever state a discovery is left in by the jobs, reviewers and sweeps
\* that write it in any order, the row that state promises is there: a
\* scholarship for "linked", an original for "duplicate_pending", a task for
\* the two that wait for a reviewer.  Without its task such a discovery would
\* sit in the table unseen (infra/linking.py, link_discovery).
StateIsBacked ==
    \A d \in Discoveries :
        /\ disc[d].state = "linked" => disc[d].canonical \in Existing
        /\ disc[d].state = "duplicate_pending" => disc[d].duplicateOf # None
        /\ disc[d].state \in {"new_candidate", "needs_review"} => tasks[d] # << >>

\* A run of link_discovery decides on the discovery as it stands: from its
\* first read to its commit, AI call included, neither another run, nor an
\* approval, nor the sweep moves the discovery under it.
LinkRunIsExclusive ==
    [][\A l \in Linkers : \A d \in Discoveries :
          linker[l].disc = d /\ disc'[d] # disc[d] => linker'[l] = IdleLinker]_vars

\* What the sweep approves on its own is reported by enough sources when the
\* rows the Agent split out of a list are not counted: the Agent proposes,
\* it never supplies the corroboration (infra/corroboration.py).
AutoApprovedIsCorroborated ==
    \A s \in Existing :
        scholarship[s].auto =>
            Cardinality({Source[d] : d \in {e \in Discoveries :
                /\ Present(e) /\ Title[e] = Title[scholarship[s].from]
                /\ e \in SplitChildren => e = scholarship[s].from}}) >= MinSources

Seen(d) == disc[d].canonical # None \/ tasks[d] # << >>

\* Once its link job has completed, a discovery is attached to a scholarship,
\* has been put before a reviewer, or is a duplicate of an award of which an
\* earlier report is not a duplicate itself: no award drops out of sight
\* because all its reports point at one another (infra/linking.py,
\* link_discovery), whatever normalize jobs do to its state afterwards.
NoReportIsLost ==
    \A d \in Discoveries :
        linked[d] > 0 =>
            \/ Seen(d)
            \/ \E e \in Discoveries :
                  /\ e < d /\ Present(e) /\ Title[e] = Title[d]
                  /\ disc[e].duplicateOf = None

\* What a comment of link_discovery says of duplicates: the discovery a
\* duplicate points at is not itself a duplicate.
DuplicatesPointAtOriginals ==
    \A d \in Discoveries :
        disc[d].duplicateOf # None => disc[disc[d].duplicateOf].duplicateOf = None

\* What auto_approval.py says of its composition: decide_review's guard is
\* never bypassed, so no scholarship comes out of a task already resolved.
OnlyOpenTasksMakeScholarships ==
    [][\A s \in ScholarshipIds :
          s \notin Existing /\ s \in Existing' =>
              \E n \in DOMAIN tasks[scholarship'[s].from] :
                  /\ IsOpen(scholarship'[s].from, n)
                  /\ tasks'[scholarship'[s].from][n].state = "resolved"]_vars
=============================================================================

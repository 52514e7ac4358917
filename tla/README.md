# Verification of the scholarship finder backend

TLA+ modules, TLC configurations and TLAPS proofs about the service in this repository.
Paths below are relative to `src/app/` unless they say otherwise. `PROJECT.json` lists the
components, the runs, the mutants, the map from definitions to source lines, the findings, the
hazards and the theorems.

    tlc -workers 2 -config MCJobQueue.cfg MCJobQueue      # a run
    tlapm DurableWorkProofs.tla                           # the proofs of a module

## 1. Inventory

The service is one FastAPI process (or several, behind a load balancer) over one PostgreSQL
database. Nothing runs in the background: every step of a pipeline is an HTTP request, either a
client's, a reviewer's, the Agent's, or one that QStash delivers. Requests coordinate through
rows of the database only. A request has a session of its own; its transaction begins with its
first statement and ends with each commit in the handler, and with the commit or rollback of
`get_db` (`infra/db.py`). Sessions are made with `expire_on_commit=False`, so an object keeps
the values of its first load through commits and through later SELECTs of the same row.

| component | state | operations | interacts with |
|---|---|---|---|
| job execution (`infra/jobs.py`, `infra/worker.py`, `domain/jobs.py`, `_enqueue` in `api/routes.py`) | `processing_jobs` | enqueue, deliver, claim, complete, fail, batch of due jobs, lease sweep | QStash callbacks and schedules; every handler below |
| freshness (`infra/freshness.py`, `domain/freshness.py`, `domain/status.py`, `infra/source_persistence.py`) | `scholarship_cycles`, `source_pages`, the open task of a cycle | `refresh_status`, `reverify_due` | provider pages, Jina, reviewers |
| publication (`infra/publication.py`, `infra/withdrawals.py`, `infra/scholarship_admin.py`) | `scholarships`, `scholarship_cycles`, audit log | publish, correct, withdraw | outbox, freshness |
| feed import (`infra/ingestion.py`) | `crawl_runs`, `source_discoveries`, quarantine | `import_feed_records` | creates normalize and link jobs |
| linking (`infra/linking.py`, `_normalize_discovery`, `_prepare_review`) | `source_discoveries`, `review_tasks` | normalize, link, open a task, prepare its draft | AI router, review queue |
| review (`infra/reviews.py`, review routes) | `review_tasks`, `scholarships`, discoveries | approve, reject, bulk | publication |
| auto-approval (`_auto_approve_sweep`, `infra/auto_approval.py`, `infra/source_verification.py`) | evaluation marks, verifications, tasks, cycles, audits | sweep, audit sample | corroboration, fetch, review, publication |
| Agent integration (`infra/agent_integration.py`) | discoveries, evidence, agent runs | split a page, attach evidence, request a review | linking, review |
| outbox (`infra/outbox.py`) | `analytics_outbox` | write with the business transaction, dispatch | PostHog |
| research budget (`infra/research_budget.py`) | one counter per provider and month | `reserve_call` | Tavily, Jina |
| harvesters (`infra/worker.py`, `infra/tavily_client.py`, `infra/parsebot_client.py`) | source health, crawl runs | harvest, update health | feed import |
| search and replay (`api/routes.py`, `domain/snapshots.py`, `core/cursors.py`) | `searches` and stored result pages | search, next page, replay | published cycles |
| sessions and join intents (`infra/sessions.py`) | anonymous sessions, intents | issue, resolve, hand over | Core |
| rate limiter (`core/rate_limit.py`) | a window of calls per key, in memory | allow | every public route |
| pure rules (`domain/*.py`) | none | status, cadence, corroboration, matching, priority, scores, sanity checks, return URLs | all of the above |
| registries and mirrors (sources, providers, countries, taxonomy) | reference tables | upsert, list | import, search |
| shell (configuration, errors, Sentry, schemas, migrations, scripts, `parse_apis`) | none of its own | start-up, one-shot commands, generated clients | everything |

How they interact: *import or Agent* -> discoveries and their jobs -> *job execution* -> normalize
and link -> review task -> prepared draft -> *reviewer or sweep* -> scholarship -> *publication* ->
cycle -> *freshness* keeps its stored status true -> *search* shows it. Each arrow is a committed
row that another request picks up later, in any order.

What is hard:

- **Delivery.** QStash delivers at least once, late, or (publishing is best effort) never; a
  schedule of 15 minutes sweeps up what was lost.
- **Stale copies.** `SELECT ... FOR UPDATE` of a row the session already holds locks the row and
  returns the old values. Guards are then evaluated on what the row was.
- **Locks that end early.** Page fetches and budget reservations commit, which releases the row
  locks under which the caller had made its checks.
- **Partial flushes.** A flush writes only the columns that differ from the loaded copy, so two
  sessions mix their columns in one row.
- **Crashes** between any two commits, leases that expire under a slow handler, and a rollback
  that expires every object of a loop still running.

What makes each component correct:

- *jobs*: a recorded job settles; a kind that is not retryable runs once; a settled job is not
  run again by what started later; an abandoned claim can be found.
- *freshness*: no reader is told "open" past the deadline or on evidence that is too old; the jobs
  make open only what a reviewer had called open.
- *publication*: withdrawal is final, and a withdrawn record asserts nothing.
- *pipeline*: a report never drops out of sight; what a state promises is in the tables; a verdict
  is about the row as it stands; the Agent never corroborates itself; only open tasks are decided.
- *outbox*: an event is written with its business fact or not at all, and sent at least once.
- *budget*: no more calls in a month than the limit, however many reserve at once.
- *search*: a replayed page shows what was shown, less what was withdrawn.

`PROJECT.json` lists the hazards one by one at the lines where they bite.

## 2. Modules

| module | models | checked by | proved in |
|---|---|---|---|
| `JobQueue` | the job table and all who write it | `MCJobQueue`, `MCStores` | `DurableWorkProofs` |
| `JobLifecycle` | what the table promises: the abstract specification | `MCStores` through `MCJobLifecycle` (refinement) | `DurableWorkProofs` |
| `CycleFreshness` | one published cycle, its page, the jobs, the reviewer, the provider | `MCCycleFreshness`, `MCStores` | `CycleFreshnessProofs` |
| `ReviewPipeline` | discoveries, tasks, scholarships; link runs, reviewers, the Agent, the sweep | `MCReviewPipeline` | `ReviewPipelineProofs` |
| `FeedImport` | batches of feed rows becoming discoveries; the operator's CSV script | `MCServices` | `FeedImportProofs` |
| `ApprovalGates` | what the gates of auto-approval compute, in their order | `MCApprovalGates` | `FactsProofs` |
| `HarvestHealth` | the failure counters of the Parse.bot harvest | `MCServices` | `LimitsProofs` |
| `ResearchBudget` | monthly call budgets and who spends them | `MCServices` | `LimitsProofs` |
| `AgentWork` | the Agent's paged intake, evidence and runs | `MCServices` | `AssistantProofs` |
| `SearchServing` | search pages, sessions, replay, join requests | `MCSearchServing` | `SearchServingProofs` |
| `SearchHistory` | what search serving promises: the abstract specification | `MCServices` (refinement) | `SearchServingProofs` |
| `CycleFacts` | what a cycle's facts become on every way in and out; matching | `MCServices` | `FactsProofs` |
| `Explanations` | the cache of match explanations before the AI Router | `MCServices` | `AssistantProofs` |
| `RateLimiter` | the sliding window with its eviction | `MCServices` | `LimitsProofs` |
| `Outbox` | the analytics outbox and its dispatchers | `MCStores`, `MCOutbox` | `DurableWorkProofs` |
| `EventDelivery` | what the outbox promises: the abstract specification | `MCStores` (refinement) | `DurableWorkProofs` |

`MCServices` and `MCStores` put modules that share no state side by side. A variable (`part`,
`store`) says which of them runs in a behaviour; the others keep their initial state. Such a run
explores each module as completely as a run of its own would, and its states are the sum of theirs.
Modules whose subjects do share rows meet at stated boundaries: `JobQueue` delivers any job at any time and
any number of times, which is how the other modules take their jobs; `FeedImport` says which
discoveries arrive, `ReviewPipeline` what becomes of them; `ReviewPipeline` has the transactions
of auto-approval and lets the gates on facts go either way, `ApprovalGates` has what they answer;
`CycleFacts` has what a cycle's facts may be, `SearchServing` and `Explanations` take their match as
given.

### JobQueue

`row[j]` is the committed row (`state`, `attempts`, `next_attempt_at`, `lease_expires_at`);
`held[s][j]` is the copy of it in the identity map of session `s`; `pc`, `job` and `batch` say
where the session is in `_enqueue` or `execute_due_jobs`. One action is one commit with the reads
since the commit before it. The two-argument operators `Claimed(stored, copy)`,
`Completed`, `Failed` compute the row a flush leaves: from the copy for what the code assigns,
from the table for the rest. This is where a lost update of `attempts` or a claim of a
completed job comes from. `FailUnrecorded` and `CompleteRolledBack` are the two paths on which
the session is rolled back in the middle of a batch. A batch and a lease sweep take the first rows, up to their limit (`BatchLimit`,
`SweepLimit`), of those that no other transaction holds locked at that moment (`Selections`: `SKIP LOCKED` may pass over any row).

`Lawful` is what the functions of `domain/jobs.py` let one step make of a row, and `Outdated(s, j)` says that a
session's copy of `j` no longer tells what the row tells. `OnlyOldCopiesBreakTheRules` says that a step outside the rules is
the step of a session that acts on an outdated copy of that very row; `ReportedAsIs`, which the docstring of
`_enqueue` promises, is the finding `job_replay` that such steps exist: they run a completed job again and
start a waiting one before its backoff has elapsed.

Times are stored as the minutes left, so the state space is finite without a bound on the clock,
and liveness is checked on infinite behaviours. `attempts` saturates at `MaxAttempts + 1`; it is
compared with nothing larger.

### JobLifecycle

Recorded, waiting, running, completed or given up, with a count of starts, and neither sessions
nor leases nor timers. `JobQueue!ImplementsLifecycle` is the refinement: `queued` and
`retry_wait` map to waiting. It holds as long as no session writes a row from an outdated copy of it. TLC checks it
at the deployed constants (five attempts, 15 minutes, backoff doubling from one minute to at most 360) with one
session whose handlers end within their leases, where no copy is ever outdated; section 4 proves it for any number of overlapping sessions, crashes and
slow handlers, from that one condition. Without the condition it does not hold: `job_replay` is the finding that says how.

### CycleFreshness

`cyc` is the committed cycle, `page` the stored hash and outcome of a URL, `site` what the provider
shows there; `run[r]` is a `reverify_due` run with the copy it acts on, `admin` the reviewer's
request with the copy it read. `Written(stored, loaded, new)` is the flush, column by column. A
direct fetch has three outcomes (page, error page, exception). After an error page or an exception a run may ask Jina: the
reservation of that call commits first (`AskJina`), which ends every lock, and Jina's answer is a step of its own (`JinaEnds`,
`JinaRaises`); its Markdown hashes differently from the page's bytes. `refresh_status` takes the `RefreshLimit` oldest cycles that nobody
holds locked, of which `Older` come before this one (`InRefreshScan`). `Shown` is what a reader is told
(`evaluate_public_status`), `Bucket`, `FetchEvery` and `MaxAge` the cadence table. The history variable
`vouched` says whether a reviewer has ever set the cycle open.

### ReviewPipeline

`disc[d]` is the discovery's row, `tasks[d]` its review tasks in order, `scholarship[s]` a row
made by an approval; `linker[l]` is a run of `link_discovery` with what it has read, `sweep[w]` the
candidate at which `attempt_auto_approval` is, with the state it had loaded. A link run holds its
discovery's row lock from `StartLink` to its end, the AI call included; `Unlocked` guards everyone
who locks or writes the row. The sweep's locks end when the fetch commits, so
`AutoApprove` is not guarded by the task's present state: its guard in the code looks at the loaded
object. `Approved` is the set of writes of `decide_review`, common to the reviewer and the sweep.
Discovery ids are numbers because UUIDv7 ids are ordered and `link_discovery` compares them.
They need not become visible in that order.

A record that repeats a (page, content) pair makes no discovery, so this module has no action for it;
`FeedImport` models the repeats.
Jobs may run and be replayed in any order: the table that delivers them is `JobQueue`, and
`linked[d] < MaxRuns[d]` bounds the replays. The two modules meet at this boundary, a handler may
run any number of times and at any time, and are not composed into one state space.

### FeedImport

`page`, `discovery` and `quarantine` hold rows with the import that inserted them, and a row counts
only if that import committed (`StoredBy`). `crawl[n]` is the n-th import with what is left of its batch
and its four counters. `RejectRecord`, `RepeatRecord`, `ReviseRecord` and `InsertPage` are the four ways
through the loop of `import_feed_records`, with the row lock on a page that is seen again; `WaitForPage` is the
wait on a unique key that another open transaction holds. `Lose` is a failure of the database, which takes the whole batch and the crawl run along;
`CutShort` is any other exception, after which the `finally` clause commits what was flushed, as a crawl run that failed. The head of a lineage is looked up among
what the transaction can see, by `created_at`, which is the time a transaction began. The script sends a batch, may give up waiting while its request goes
on, stops at the first failure, and is run again from the start. A harvest imports beside it, the Agent splits
a list page, a source may be deactivated.

### ApprovalGates

`case` is a discovery with what the gates look at: own mentions, reports of the same identity, the fetched page,
the provider, the slug. Mentions are sequences, since the first deadline that can be read is the
one published, and `Unreadable` stands for a text the parser can make nothing of. `Judge` is
`attempt_auto_approval` without its transactions. There is one step; the run is a check of a function over
all cases of the instance.

### HarvestHealth and ResearchBudget

A harvest run reads the counters of the active sources, calls place after place and changes its copies;
they are written at its end, or by the commit that marks the job failed when something escaped the
loop (`RunEnds`, `RunBreaks`, `RunLost`). The counter is an absolute value written from a copy, so
two runs that overlap lose an increment: `blurred` is a history variable that says for which sources, and
`CounterIsStreak` is about the rest. In `ResearchBudget` a spender asks, is granted or refused, and calls;
`reserve_call` is one statement and one commit, so the month may turn between grant and call,
which `SpendFollowsGrant` counts.

### AgentWork

`walk[w]` is one caller's way through the pages of `list_discoveries`, with its cursor and, as history,
what it was served and what there was when it began. Ids are made before their rows are committed,
so a row may appear behind a cursor; the property is about the rows that were there at the start.
`unprocessed_only` excludes what has a run by the time of the page.

### SearchServing

A request has one transaction, committed by `get_db` after the response has been sent; `request[v]`
remembers what it will insert, so that a visitor can hold a cookie, a cursor or a search id whose row is not there
yet, or never will be. `row[c]` is a cycle with its scholarship as one record, which reviewers correct
and withdraw between the pages. `pages[s][n]` is row (s, n) of `searches` with, as history, the matches it was cut
from. `SearchRead` scans at most `ScanLimit` cycles, matches, ranks and slices; a cursor binds search, offset,
filter and limit; `SearchAnswer`, `SearchConflict`, `SearchCommit` and `SearchLost` are the response and the ends of
its transaction. Sessions and stored pages expire, and `join` and `core` are the two sides of a hand-over
whose call may fail, be answered late or be repeated under its key.

### SearchHistory

The record of a search, with neither visitors nor sessions, cursors, commits after the response or a clock: page one is answered once; only a
search that was answered gets pages on record, all of one page size; page one goes on record once, as it was answered
and together with its event; Core keeps, under a key, the first search on record it is offered; a hand-over is settled only when
Core has it. A later page may go on record again, since `record_search_response` is an upsert; nothing else may happen twice or be
taken back. `SearchServing!ImplementsHistory` is the refinement: `answered` is what was sent to the visitor (`sent`), `recorded` the
stored pages, `counted` the events, `taken` and `settled` the two sides of a hand-over. It implies that a stored first page
stays as it is, which `OwnerKeepsFirstPage` states by itself.

### CycleFacts

`stored` is the JSON of one cycle: built and validated by a publication, edited
(`cycle_facts_to_inputs`, merged, validated, built again), or written by a one-off script with values of the
wrong type, outside the vocabulary, or absent. `Sanitized`, `EvaluateMatch` and `Legible` are what the detail
page, the search and an editor read. `Completions` are the awards that facts with an "unknown"
in them may turn out to describe: the reference against which the three answers of a match are judged.
`Accepted` is what the schemas of the two requests let through, key by key, and `Codes` what holds of the
taxonomy's tables: a code is a label of itself and no alias of another. Both are in `FactsAssumption`, which the
proofs need. An edit may send null for the modes and for the freshness, which a publication may not; a null mode is
read as "unknown", and a null freshness turns into "no" at the next edit, which `PublishedFactsAreStable` says.

### Explanations, RateLimiter, Outbox

`asker[r]` is a request between reading the cycle, looking up the cached row, asking the Router and storing its
answer; `kept` is what the Router repeats under an idempotency key that does not name the facts.
`bucket` is the limiter's map of deques and `granted` the history of all instants let through; `StopsAt` is where
`popleft` stops, `Kept` the sweep. `NoWindowExceeded` says that the limiter lets through no more than its limit, `CountsTheWindow` that
it counts what it should: what a bucket holds of the last window is what its key was let through in it, so that no call is refused
for one that has left the window. In `Outbox` a dispatcher locks a batch with `SKIP LOCKED`, hears an answer that may be
lost, and records it for all rows in one commit, unless it dies before. A dispatcher works for the schedule (`RunScheduled`) or for an operator
(`RunForOperator`): the schedule sends one fixed key, so it has one row in the job table, which is run until it completes and reported as
completed ever after (`scheduleDone`). `EventDelivery` knows neither dispatchers
nor locks nor deaths: batches of open events are sent, confirmed or failed. `Outbox!ImplementsDelivery` is the refinement
(`phase` is the state column, `tries` the attempts); there an event that has settled can
neither be sent nor be marked again, which is what `SKIP LOCKED` is for.

## 3. Runs

| run | instance | distinct states | what it shows |
|---|---|---|---|
| `job_queue` | 2 jobs (one retryable), 2 sessions, 3 attempts, lease 3, cap 2, handlers may outlive leases | 28,795 | types; every running row has a lease and every waiting one a time; a kind outside `RETRYABLE_KINDS` runs once; only a session that acts on an outdated copy of a row breaks the rules of `domain/jobs.py`; every recorded job settles |
| `stores` | three tables, one at a time (below) | 515,093 | types; the jobs only restore; withdrawal is final, but for the verdicts of runs that have already fetched; the job table implements `JobLifecycle`, the outbox `EventDelivery` |
| `fresh_live` | 1 URL, 1 content, a deadline or a bound at 1, 1 run, clock to 2 | 359,365 | a stored "open" does not outlive its deadline; nobody is shown "open" for ever on stale evidence |
| `pipeline` | 3 discoveries (one split out of a list), 2 sources, 2 link workers, 1 sweep, 1 replay, 1 crash | 2.24 million | types; states are backed; no report is lost; what the sweep approves is corroborated; link runs are exclusive |
| `services` | nine modules, one at a time (below) | 696,836 | twenty-one properties of search, facts, import, auto-approval's gates, budgets, counters, explanations |
| `job_replay` | as `job_queue`, 2 attempts | violation | a completed job is run again by a delivery that had read it before |
| `job_rollback` | 2 jobs, 1 session | violation | the rest of a batch is dropped after a rollback |
| `fresh_mark` | clock to 4 | violation | a downgrade for stale evidence is left unmarked |
| `fresh_withdrawn` | clock to 4 | violation | a withdrawn cycle becomes open |
| `pipeline_chain` | 2 contents of one page and a report of another | violation | a duplicate points at a duplicate |
| `pipeline_stale` | 2 scholarships, a reviewer and the sweep | violation | a resolved task is approved |
| `outbox_schedule` | 2 events, 1 dispatcher that never dies, deployed limits | violation | after the one job of the dispatch schedule has completed, an event stays pending for ever |

A violation run checks one property, which states what a comment or the README of the repository
says; `findings` quotes the line. Each property of the other runs has a mutant: a definition
changed the way a bug would change it, under which TLC finds the property violated.

The parts of `stores`: the cycle (1 URL, 2 contents, 1 run, clock to 2; 390,068 states), the jobs (2 jobs, 1 session, the deployed limits;
4,607) and the outbox (3 events in batches of 2, 2 dispatchers, 2 attempts, 2 deaths; 120,418).

The parts of `services`:

| part | instance | states | properties |
|---|---|---|---|
| `limiter` | 2 keys, 2 calls in 3 units, clock to 6 | 34,824 | `NoWindowExceeded`, `CountsTheWindow` |
| `budget` | 2 harvests, 1 fetch, limits 2 and 0, 2 queries, 2 months | 77,619 | `BudgetHolds`, `SpendFollowsGrant` |
| `health` | sources with one call and with two, 2 runs at a time, 3 in all | 12,548 | `CounterIsStreak` |
| `import` | 1 source, 2 pages, 2 contents, a file of two batches, a harvest beside it, 3 imports, 1 split | 356,523 | `OneDiscoveryPerContent`, `EveryRecordAccounted`, `EveryRowArrives`, `LineageIsTree` |
| `agent` | 3 discoveries, 1 walk, pages of 1 and 2 | 13,619 | `WalkMissesNothing` |
| `explanations` | 3 facts, one of which the profile does not match, 2 requests | 11,220 | `ExplanationFits` |
| `facts` | all modes and lists a publication can ask for, what a script may have stored, 18 edits | 8,647 | `FitIsHonest`, `SearchAgreesWithDetail`, `PublishedFactsAreStable` |
| `gates` | all combinations of mentions, reports and pages listed in `MCApprovalGates` | 50,304 | `ApprovalIsEvidenced` |
| `serving` | 2 cycles, 2 visitors, 2 sessions, 1 search of up to 2 pages, 1 join key, clock to 1 | 131,532 | `ReplayTellsWhatWasSent`, `PagesJoinUp`, `EventIffRecorded`, `HandoversAreBacked`, `ImplementsHistory` |

**Bounds and why they are enough.** Two jobs are needed for a batch to have a rest; one of each
kind distinguishes them. Two sessions make every stale copy: a third adds no kind of overlap, and
the proofs hold for any number. Three attempts have a first, a middle and a last one. A lease of
three minutes is longer than the longest backoff of the instance, so both orders of their expiry
occur. In `CycleFreshness` the cadence keeps the order of the deployed table (near deadlines
expire first, unknown cycles are fetched less often), two ticks let a cycle be published, go stale or reach its deadline, and be
restored, and the violation runs have four; the safety proofs bound nothing. `RefreshLimit` is the deployed 500 with 499 older cycles: this one is the last that fits, and a
locked row may still push it out of a tick. In `ReviewPipeline`
three discoveries are the fewest that give a chain of duplicates, and the fewest that give a
report, a list and a report split from it; one replay and one crash are the fewest that let a
run meet the effects of an earlier one. `ScholarshipIds` has one member in the passing run, so the
branch of `SendToReview` for two scholarships of one name occurs in `pipeline_stale` and in
the proofs only.

In `services`, two windows overlap in a clock of two windows' length. A limit of 2 is reached and exceeded
by two harvests; a limit of 0 is a setting the guard of the UPDATE does not cover (the defaults are 900 and 500, `core/config.py:110`, `:112`). Three runs make a streak or break
it, or are two that overlap and one alone after them, from which the counter recovers. Three imports (`MaxRuns`) are a first run of the script, one that outlives its
request or a harvest beside it, and the rerun; the second batch of the file revises the page of the first, so a
lineage grows across batches. Three discoveries and pages of one and two give a walk with a full page, a
short one, and a row that appears behind the cursor. Two requests of one profile are the fewest that store
over each other; each profile has a row and a key of its own, and the proofs hold for any number of profiles. The cases of `gates` have up to two own deadlines, because the choice among
several is what can go wrong. In `serving` two visitors compete for one search id (`OneSearch`: a cursor
that names the search of another), two cycles give pages of one and of two with a second page, a correction
moves the first cycle behind the second and a withdrawal takes it away; a unit of its clock is half a month, the whole
closing-soon window, the life of a session and the retention of a page, so that its one tick ends sessions, stored
pages and the deadline of the second cycle at once or between any two steps of a request; the proofs bound no clock.
Three events in batches of two cut a batch across two dispatchers.

**Symmetry** is declared on link workers and on page contents in the safety runs of their modules, and on the
visitors in `services`; never in a run with liveness.

**Deadlock.** `JobQueue` is checked for it. In `CycleFreshness` the clock stops at `MaxTime`, in
`ReviewPipeline` discoveries, ids and replays run out, and the parts of `stores` and `services` come to the
end of their events, imports, months or clocks; those runs say `CHECK_DEADLOCK FALSE`.

**Fairness.** `JobQueue!FairSpec`: a session that has started goes on (a crash excepted), a batch
that can be started again and again is started (strong fairness, since a session
becomes free and busy), leases are swept, time passes. The code's ground is the 15-minute QStash
schedule of both maintenance kinds, each with a fresh dedupe key per quarter
hour; a sweep that skips a locked row has it in reach again at the next one. Nothing is assumed of deliveries. `CycleFreshness!FairSpec`: `refresh_status` is
run again and again and is not passed by for ever, on the same ground: the cycle is among the oldest `RefreshLimit`, and locks on it end;
nothing is assumed of `reverify_due`, whose fetches may fail
for ever, of reviewers or of the clock. `Outbox!OutboxFairness`: the job of the dispatch schedule is run as long as it has not completed; a
send ends, since the client's timeout is ten seconds; an answer that was heard is recorded, unless the dispatcher dies, which `MaxDeaths`
bounds. No more than that: the schedule (`scripts/manage_dispatch_outbox_schedule.py`) sends a fixed dedupe key, so a completed job is never run
again, and an operator's dispatches are nobody's duty. Under this fairness `EventsSettle` fails, which is the finding `outbox_schedule`; nothing
makes a deployment configured either, which is why the property speaks of configured ones.
The other modules state safety only: that a
link job is eventually run is `EverySettles` of `JobQueue`, and no code makes a reviewer, an operator or a
visitor act.

## 4. Proofs

All theorems hold for every value of the constants that the named assumptions of the modules
allow (`JobQueueAssumption`, `FreshnessAssumption`, `ReviewPipelineAssumption`, `OutboxAssumption`,
`BudgetAssumption`, `LimiterAssumption`, `HealthAssumption`, `AgentAssumption`, `ExplanationAssumption`,
`ImportAssumption`, `ServingAssumption`, `FactsAssumption`, `GatesAssumption`). TLC evaluates each of them on its
instance.

| module | theorems | statement |
|---|---|---|
| `DurableWorkProofs` | `TypeCorrect`, `NothingStranded`, `NoUnlistedRetry` | `Spec => []TypeOK`, `[]Recoverable`, `[]NoRetryUnlessListed` |
| | `RulesHoldForCurrentCopies` | `Spec => OnlyOldCopiesBreakTheRules` |
| | `CurrentCopiesImplementLifecycle` | `Spec /\ OldCopiesWriteNothing => ImplementsLifecycle` |
| | `OutboxTypeCorrect`, `DispatchedIsReceived` | `OutboxSpec => []OutboxTypeOK`, `[]DeliveryIsBacked` |
| | `OutboxImplementsDelivery` | `OutboxSpec => ImplementsDelivery` |
| `CycleFreshnessProofs` | `TypeCorrect`, `JobsOnlyRestore`, `WithdrawnForGood` | `Spec => []TypeOK`, `[]OpenOnlyIfVouched`, `WithdrawalIsFinal` |
| | `RestoresUnseen` | under `HandsOff`: `Spec => RestoreIsNotShown` |
| `ReviewPipelineProofs` | `TypeCorrect`, `StatesAreBacked`, `NothingLost`, `AutoCorroborated` | `Spec => []TypeOK`, `[]StateIsBacked`, `[]NoReportIsLost`, `[]AutoApprovedIsCorroborated` |
| | `RunsAreExclusive` | `Spec => LinkRunIsExclusive` |
| `FeedImportProofs` | `ImportInvariance`, `ImportTypeCorrect` | `ImportSpec => []IInv`, `[]ImportTypeOK` |
| | `ContentsApart`, `OneTree`, `RecordsAccounted`, `RowsArrive` | `[]OneDiscoveryPerContent`, `[]LineageIsTree`, `[]EveryRecordAccounted`, `[]EveryRowArrives` |
| `SearchServingProofs` | `MatchedRanks` | the ranked list of a search has each result once, in order |
| | `ServingInvariance`, `ServingTypeCorrect` | `ServingSpec => []IInv`, `[]ServingTypeOK` |
| | `ReplaysFaithful`, `PagesAreCuts`, `EventsMatchPages`, `HandoversHold` | `[]ReplayTellsWhatWasSent`, `[]PagesJoinUp`, `[]EventIffRecorded`, `[]HandoversAreBacked` |
| | `FirstPagesStay`, `ServingImplementsHistory` | `ServingSpec => OwnerKeepsFirstPage`, `ImplementsHistory` |
| `FactsProofs` | `GatesTypeCorrect`, `ApprovalsRestOnEvidence` | `GatesSpec => []GatesTypeOK`, `[]ApprovalIsEvidenced` |
| | `FactsTypeCorrect`, `FitStaysHonest`, `SearchAndDetailAgree`, `FactsStayStable` | `FactsSpec => []FactsTypeOK`, `[]FitIsHonest`, `[]SearchAgreesWithDetail`, `[]PublishedFactsAreStable` |
| `LimitsProofs` | `LimiterTypeCorrect`, `WindowHolds`, `WindowIsCounted` | `LimiterSpec => []LimiterTypeOK`, `[]NoWindowExceeded`, `[]CountsTheWindow` |
| | `BudgetTypeCorrect`, `CountWithinLimit`, `SpendBounded` | `BudgetSpec => []BudgetTypeOK`, `[]BudgetHolds`, `[]SpendFollowsGrant` |
| | `HealthTypeCorrect`, `StreakCounted` | `HealthSpec => []HealthTypeOK`, `[]CounterIsStreak` |
| `AssistantProofs` | `AgentTypeCorrect`, `WalksAreComplete` | `AgentSpec => []AgentTypeOK`, `[]WalkMissesNothing` |
| | `ExplanationTypeCorrect`, `CacheAddsNoStaleness` | `ExplanationSpec => []ExplanationTypeOK`, `[]ExplanationFits` |

Each of them reads its theorems off one inductive invariant, proved action by action.

- **JobQueue.** `Recoverable` is not inductive alone: a completion clears the lease only if the
  *copy* has one, so the invariant says that the copy of a session that runs a job is itself
  `running` (`CopiesOK`). `NoRetryUnlessListed` needs that neither the row nor any copy
  of it is `queued` with an attempt counted (`NeverRetried`); otherwise an old copy could add a second
  attempt. Both are facts about copies that no test of one session shows.
- **The rules of the job table and the refinement to JobLifecycle.** Every step goes by the rules of `domain/jobs.py`
  on one row, or for a sweep on several (`ByTheRules`), or is that of one session acting on an outdated copy of the one row
  it writes (`FromOldCopy`): `RulesStep`, action by action, with `ClaimByCopy` and `EndByCopy` for the two ways a session
  writes. `RulesHoldForCurrentCopies` reads off it that only such a session breaks the rules, and this needs no
  assumption about sessions. If no session writes from an outdated copy (`OldCopiesWriteNothing`), every step goes by the rules
  (`CurrentStep`), a waiting row has an attempt left (`AttemptsLeft`), and a step by the rules is a step of `JobLifecycle`
  or a stutter (`LifecycleStep`). Sessions may overlap, crash and outlive their leases; the condition is what
  a re-read after the row lock would give, and `job_replay` shows a behaviour without it.
- **CycleFreshness.** A restore writes from a copy, and a flush mixes columns of several copies, so
  "open or marked only if vouched" (`Grounded`) has to hold of the row and of every copy in a run or
  a request, and `WrittenCycle` shows that a mixture of grounded rows is grounded. `WithdrawalIsFinal` bounds the finding
  `fresh_withdrawn`: a reviewer's request holds the scholarship's row and has refused a withdrawn one (`RowHeld`), no run fetches for
  it any more, and a flush opens a row only from a copy that was not open (`WrittenOpens`), so what is left are the verdicts of the runs
  that had fetched, one each, on marked copies. `RestoresUnseen` is about what an auto-restore is worth: the mark is
  written in one flush with a bound that has passed (`RefreshedLapses`), nobody moves that bound while the mark stands
  (`MarkedIsLapsed`), and the verdict leaves it (`RestoreKeepsBound`). `HandsOff` excludes the reviewer's own corrections of a status
  or a bound, and nothing else; the invariant has been checked by TLC on the instance of `fresh_withdrawn`, where such restores occur.
- **ReviewPipeline.** `NoReportIsLost` follows from three facts: a duplicate points at an *earlier*
  report of the same award (`DuplicatesPointBack`), a completed link run leaves a mark
  (`LinkedLeavesMark`), and a finite set of ids has a least member (`LeastElement`, by
  well-foundedness of the strict subset order). The least earlier report cannot be a duplicate, for
  it would point at a smaller one. What makes these inductive is that a run's memory stays true: no
  row is ever deleted (`Kept`), the lock keeps two runs off one discovery (`LocksExclude`), and
  reports are only added, so that a count of sources taken before the fetch still stands when the
  sweep approves (`CorroborationStays`, `AutoOK`). `RunsAreExclusive` is
  the same lock seen from the other side.
- **FeedImport.** An open import holds the pages of the rows it has written, nobody else holds them, and it sees every page it
  holds (`LocksHeld`); so what it finds on such a page, its own rows and the committed ones, is all there can
  be. Hence `LiveRowsApart` and `Lineage`, which say of the rows still to be committed too what the two properties say of
  stored ones. A record dealt with is in the tables or in the import's own rows (`BookOK`), so when the import commits all of its batch
  is; `ScriptOK` says the same of the batches behind the script.
- **SearchServing.** A search id is handed out once, so until its first page is committed or lost the request for it is alone
  with it; a cursor stands at a positive multiple of the page size and never leads to page one; and all requests and
  pages of a search have one page size. So page one is stored once, is cut from the ranking it says, and stays.
  `MatchedRanks` shows that the ranking is one: counting the results in front of each numbers a finite set in a strict
  order without a gap (`RanksOnto`, from the injection theorem of finite sets). An event is committed with its
  page; a hand-over names a page that was there when it was asked for, and no request deletes one. For the refinement to
  `SearchHistory` one thing more has to be known of the requests: whoever is about to store a page of a search, or has a cursor into it, comes after
  that search was answered (`Begun`), though its own commit may be the first of all. Then the answer is `Answer` (`AnswersOnce`), a
  commit is `Record` (`CommitRecords`) or `Settle` (`CommitSettles`), Core's reply is `Take` (`CoreTakes`), and every other step
  leaves the record as it was (`HistoryStep`).
- **ApprovalGates.** There is one step; the theorem follows the gates in their order. What has to be proved is about the
  sequences and sets: `FirstReadable` picks a mention that is there, an agreed value is among both
  mentions, a set of countries of size one has one member. The proof showed that the score lies between -20 and
  110; an earlier bound of 90 held on the instance only.
- **CycleFacts.** What was published and edited is `WellBuilt`: lists are lists of text in canonical codes, a
  mode that restricts has something to restrict to, precision and timezone stand only beside a deadline. Reading a list
  twice is reading it once, because a code is a label of itself (`CodesFixed`); all three properties rest on that.
  `FitIsHonest` needs no invariant but that facts are facts: the most open settling of what is unknown
  (`OpenCompletion`) is let in exactly if the facts are.
- **Outbox.** A row in a batch is still due (`BatchesAreDue`) and in no other batch (`BatchesAreApart`), which
  is what `SKIP LOCKED` buys; so the one answer a dispatcher has heard is true of every row it marks. The same invariant
  carries the refinement to `EventDelivery`: a batch is open there (`BatchIsOpen`), and the one commit of an answer is a
  confirmation or a failure of the whole batch (`AnswerDelivers`).
- **ResearchBudget.** The calls made and the grants held stay below the count plus what may be
  carried over a turn of the month (`SpentOrHeld`); a spender holds one grant at most, so a turn carries over at most
  one per spender. The lemmas count the spenders that hold one as they step.
- **HarvestHealth.** A run that has always been alone has read the counters that are still in the table, and what it will write is
  what it read, changed by what it was told (`Tells`). As soon as two are out every source is `blurred`, and stays so until a
  run of its own has had an answer from it, which resets the counter whatever it was.
- **RateLimiter.** A bucket is the *end* of the sequence of instants its key was let through, and what it has
  lost has left the window (`IsEnd`), whoever dropped it, `popleft` or the sweep. Fewer than `Limit` in the bucket
  then means that the `Limit`-th instant before a new one is a window older, so instants are `Spread`, and
  `SpreadFits` counts them. The same end gives the exact count: the instants of the last window are the bucket's live ones, because
  the sequence ascends and what was dropped is older (`KeptEnd`, `LiveEnd`, `EndCounts`).
- **AgentWork.** A cursor leaves behind only what was given out or is processed (`NothingBehind`): a page
  holds every unserved row up to its last (`PageIsPrefix`), and one that is not full holds all there are
  (`ShortPageIsAll`).
- **Explanations.** A text fits the facts beside it in the hands of every request (`AnswersFit`) and in every
  cached row (`RowsFit`), because a row is pinned to what its *request* had read, not to the cycle's facts
  at the time of the commit.

**Assumptions worth naming.** `ImportAssumption` says of every batch that `Sendable` of it is a sequence of records: `SelectSeq` is
recursive in the standard module, so what it returns in general is out of the provers' reach. `FactsAssumption` says what the request
schemas let through (`Accepted`) and that codes are labels of themselves (`Codes`), which the tables of
`domain/taxonomy.py` fulfil. `GatesAssumption` says that cases are cases and name finitely many countries. None of them restricts
how many there are of anything.

**Only model-checked:** the three liveness properties that hold (`EverySettles`, `DeadlineTakesEffect`,
`StaleEvidenceExpires`), since the provers used have no rule for fairness or ENABLED, and
`AllTypesOK`, which picks the type invariant of the part that runs and is proved part by part. Every other property of a passing
run is a theorem. No definition is recursive.

## 5. What the code does that its text does not say

Seven disagreements have a run and stand under `findings`. These were met as well and have no run of
their own; the hazard list refers to them.

- Two sessions can run one job at the same time: both load it as `queued`, and the second claim
  is judged on its copy. The docstrings of `due_jobs` (`infra/jobs.py:110`) and `_enqueue` exclude
  it, and the finding `job_replay` shows the same copy run a completed job again or a waiting one before its backoff has elapsed.
- A comment of `import_feed_records` (`infra/ingestion.py:261`) speaks of a run that "ended completed or failed partway through" where its
  jobs are published; after a failure the exception leaves the function and nothing is published: the jobs of a part that was
  committed wait for the sweep of due jobs.
- A restored cycle keeps its expired `status_valid_until` (`infra/freshness.py:430`), so the stored status is open and the
  shown one unknown, and the next refresh finds the bound passed and sets the status back to unknown, this time without the mark:
  the restore that `domain/models.py:131` ff. describes is neither seen nor lasting. Theorem `RestoresUnseen` proves it.
- `update_cycle` never clears `auto_downgraded` (`domain/models.py:131`), so an unknown a reviewer
  means may be restored to open by a recheck, as long as somebody once called the cycle open.
- A corrected URL keeps the old `source_page_id` (`domain/models.py:125`): rechecks go on reading
  the page of the old URL.
- A failed fetch, and one that fell back to Jina, replaces the stored hash
  (`infra/source_persistence.py:56`), so the next good fetch of an unchanged page is flagged as changed.
- Of two overlapping `reverify_due` runs the older may write last and move `last_verified_at` back to
  the time it started (`infra/freshness.py:423`).
- "A duplicate never gets its own review task" (`domain/models.py:307`): the Agent's
  `request_review`, or a link run before the duplicate was found, gives it one.
- "A single evaluation, ever" (`domain/models.py:322`): an approval or publication that fails, or a
  crash, leaves no evaluation mark, and the candidate is taken up again.
- A replayed link job may attach an approved discovery to another scholarship of the same name,
  or open a second task for a decided report.
- The head of a page's revision lineage is chosen by `created_at`, which is the transaction's
  start and so ties for all records of one import batch.
- The Agent's list pages by UUIDv7 keyset, so a row committed late with an earlier id is skipped by
  the walks under way; `WalkMissesNothing` is about rows that were visible when the walk began.
- The limit of the research budget guards the UPDATE only: the first call of a month is inserted
  whatever the limit (`infra/research_budget.py:37`); `Ceiling` in `BudgetHolds` is 1 for a limit of 0.
- A crash between PostHog's answer and the commit sends a batch again, and `mark_failed` writes the
  last error into the event's payload (`infra/outbox.py`).
- Comments of `infra/auto_approval.py` (144-147, 247-249) call the published deadline corroborated and found on the
  page. `_resolve_deadline` (`domain/auto_approve_facts.py:112`) takes the *first* readable deadline of the
  discovery, while the gates ask only that *some* pair of mentions agrees: of two stated deadlines another one
  may be the corroborated one. `ApprovalIsEvidenced` states what does hold.
- "Re-evaluating a page never overwrites" (`domain/models.py:541`): `record_search_response` is an upsert, so a page
  asked for again by its owner is rewritten. Page one has no cursor and is safe (`FirstPagesStay`).
- "row and its event commit with the response" (`api/routes.py:1530`): `get_db` commits after the response has been sent.
- The outcome "failed" of a join request is declared and never stored: the rollback that the failure causes takes it along.
  The state "failed" of a crawl run is stored only when the exception was not the database's; a failed flush or commit takes it along with
  the whole batch.
- A stored search lasts as long as the shorter of its session and its own 30 days.
- `MatchExplanation` (`domain/models.py`) promises that changed facts are a miss; the Router's key
  `match_explanation:{cycle}:{profile}` does not name the facts, so the Router may repeat the older text.
  `ExplanationFits` says that the cache adds nothing to that.
- A search matches the facts as stored against the searcher's target countries; the detail page sanitizes them first and, since its request
  names no targets, matches them against the award's own destinations (`api/routes.py:1634`). So a page explains a match to a searcher whose search
  has left the award out for its country. `SearchAgreesWithDetail` says that this is the only way in which a page promises more
  than the search, and that published facts give the same fit and score otherwise; facts a script has written may differ within that.
- An edit of facts a script has written by hand passes through what it does not name: a null precision turns a date into
  a "datetime", null destinations raise a TypeError, and a stored deadline that cannot be parsed makes every
  edit a 422.

## 6. What is not modelled

- *Within the modelled parts:* the audit sample of auto-approval and the audit log (rows that nothing which decides
  reads back); several cycles of one scholarship; the review priority, which orders a list. A status
  `expected_to_reopen` has one bucket in `CycleFreshness`, a constant of the instance. `RateLimiter` is one limiter
  of one process: its docstring says that several processes do not share it.
- *Data translation:* the patterns that find mentions of amounts, deadlines and countries in a text, the vendors'
  payload shapes in `domain/tavily_harvest.py` and `domain/parsebot_harvest.py`, label normalization and slugs.
  Their results are the constants and cases of the modules.
- *Left out:* registries and reference tables but for the deactivation of a source and the resolution of a
  provider (row-by-row administration, no interleaving of their own); request and response schemas, which declare
  shapes; `parse_apis` and the vendor clients (one request and one parse each); the QStash client
  (a signature check and a best-effort call, whose losses are in `JobQueue`); configuration,
  observability, start-up; migrations and one-shot scripts. The schedules the scripts create are the fairness
  of section 3.

## 7. State of the project

Every component of section 1 that keeps state and runs beside others is modelled and checked, every safety property of a passing run is
proved, and each of the three components with a promise of its own, the job table, the outbox and search serving, is proved to implement it.
Hazards of freshness that no property of a run covers: the passed bound a restore leaves, which is settled by a theorem instead; the hash a
failed fetch leaves and the mark a reviewer's own "unknown" does not clear, for which the code names no rule they break; and the page link that outlives
a corrected URL, which needs two URLs. The same holds of a link job replayed after a decision and of an approval whose publication is
refused: the pipeline contains both steps and no rule of the code says where they must end. An abstract specification
of the review pipeline, the fate of one report, would be the next step.

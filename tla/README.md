# market-relay: TLA+ models, model checking and proofs

market-relay ingests end-of-day market data: scheduler processes claim persistent
jobs from a database table, call providers, and append revisions of observations;
an HTTP API serves the effective revisions that the source policies allow to be
published. All coordination goes through one PostgreSQL database
(READ COMMITTED), there is no other channel between processes. This directory
models that coordination.

Paths below are relative to `src/market_relay/` of the repository; `ingestion/`,
`observations/`, `governance/` and `catalog/` stand for `domain/...`.

Contents: 1 inventory - 2 plan - 3 modules - 4 runs, bounds, fairness -
5 what the runs found - 6 proofs - 7 what is not modelled.

## 1. Inventory

| Component | State it keeps | Operations | Correct if |
|---|---|---|---|
| Job queue, `ingestion/queue.py` | `jobs` rows: status, attempt_count, next_run_at, claimed_by, claimed_at, generation, last_error | enqueue_idempotent, claim_next / claim_job (recover_expired, promote_due_waiting, `_try_claim_one`), and the transitions of an owner behind the fence `_owned_transition`: mark_running, mark_done, mark_failed, mark_waiting_for_publication, defer_for_quota, assert_owned | no two live claims of a job; attempts neither lost nor counted twice; FAILED exactly when they are used up; DONE and FAILED are final |
| Scheduler cycle, `ingestion/scheduler_service.py`, `entrypoints/scheduler.py` | the session: its transaction, its `Job` objects, the list of claimed jobs | run_scheduler_cycle: refresh_and_dispatch (sources, listings, plan and enqueue), then claim_and_process (claim up to a batch, process each, one commit at the end) | a process that lost a claim cannot change the job; a job's or listing's failure stays its own; every cycle ends |
| Ingestion runner, `ingestion/runner.py` | local `generation`, the authorization | process: authorize, parse cursor, quota, mark_running, fetch, fence, record each observation, mark_done or mark_failed | never records for a job it does not own; ends every job it does |
| Observation store, `observations/service.py` | `observations` rows (append-only, unique on natural key and revision) | record, last_completed_session, current_for_key | revisions contiguous, none lost, none repeated |
| Policy gate, `governance/policy_gate.py` | versioned `source_policy_decisions` | record_decision, authorize_ingestion, is_publication_authorized, ... | opens only on approvals; versions contiguous; the evidence is the decision that authorized |
| Recovery planner and dispatch, `ingestion/planning.py`, `dispatch.py`, `cursor.py` | none of its own; reads the store, enqueues jobs | plan missing sessions in chunks, one job per chunk with a dedupe key, waiting jobs for unpublished sessions | every missing session is planned until it is stored |
| Provider execution, `ingestion/provider_execution.py` | a forked child and a pipe | run a fetch under a deadline | answers, fails or times out; a value is the whole answer; leaves no child |
| Scheduler runs, metrics, `ingestion/scheduler_runs.py`, `metrics.py` | `scheduler_runs` rows | start, the outcome of each phase; counting reads | SUCCESS means durable, FAILURE leaves no half of a job; no job escapes the counts |
| Selection and view, `observations/selection.py`, `api/services/observation_view.py` | none | choose one observation per day; filter by publication gate; latest value, range, data status | only authorized sources; the current revision; the first enabled source; a status that agrees with itself |
| Validation, error codes, credentials | none | pure functions | unit tests reach them |
| Catalog, `catalog/service.py` | instruments, listings, symbols | insert, filtered reads | - |
| Consumer authentication, API, settings | none | request handling | - |
| Adapters, ports, migrations | fake data; a quota counter; DDL | - | - |

How they interact: the scheduler calls planner, queue, runner, store and gate in one
SQLAlchemy session. Some queue methods commit that session (recovery, promotion,
claims), most only write to it, and the cycle commits what is left at its end. So
the hard part is not any single function but which statements share a
transaction, which row lock is held meanwhile, and which in-memory `Job` is stale.
The API process reads the same tables concurrently.

Hard behaviours, in the order of their weight: claims taken away from a slow
process while it works; several processes with the same worker id (every deployed
process is `"scheduler"`); long transactions whose row locks block the recovery of
others; a crash, rollback or deadlock in mid-batch; stale session objects; two
writers of one observation; several reads that should be one; an exception handler
around statements of a transaction that is already aborted. `PROJECT.json`
(`hazards`) has the full list, each at its line.

## 2. Plan

Order: what other parts rely on comes first.

| Step | Module | Composes | State |
|---|---|---|---|
| 1 | `JobRow` (operators), `JobQueue` | - | done |
| 2 | `JobLease`, the abstract specification of a queue | implemented by 1 and 4 | done |
| 3 | `JobQueueProofs` | 1, 2 | done |
| 4 | `SchedulerCycle` | `JobRow` with sessions, locks and transactions | done; refresh abstracted to time |
| 5 | `ObservationStore` | - | done |
| 6 | `PolicyGate` | - | done for the gates the scheduler and the API use |
| 7 | `Recovery`: plan, chunks, dedupe keys, dispatch, cursor | queue and store by what they promise | done for one listing |
| 8 | `ProviderExecution`: fork, pipe, deadline, exit | - | done |
| 9 | `SchedulerRun`: both loops of a cycle, the rows of an answer, the run row, the metrics | 8 | done |
| 10 | `SchedulerRunProofs` | 8, 9 | done |
| 11 | `ObservationView`: selection and the three endpoints, while decisions and revisions are committed | gate and store by what they promise | done |
| 12 | `OrderLemmas`, `ObservationStoreProofs`, `PolicyGateProofs`, `RecoveryProofs`, `ObservationViewProofs` | 5, 6, 7, 11 | done |
| 13 | `SchedulerCycleProofs`, with the refinement of `JobLease` | 2, 4 | done |
| 14 | `RevisionHistory`, an abstract append-only history per key that `ObservationStore` implements | 5 | open |
| 15 | The runner with the gate: a denial committed while the provider runs | 6, 9 | open |

Every safety invariant and action property of the passing runs is a theorem (section 6).
Left to prove: the refinement of step 14; the chunk arithmetic of the planner (that a
chunk holds at most `ChunkSize` sessions), which no property rests on.

No module that is proved about uses a RECURSIVE operator.

## 3. Modules

**`JobRow`** - one row of the table, no variables. For each SQL statement of
`JobQueue` it has the WHERE clause as a predicate (`Expired`, `DueWaiting`,
`Claimable`, `OwnedBy`) and the SET clause as an operator from row to row
(`Recovered`, `Promoted`, `Claimed`, `Running`, `Done`, `Waiting`, `Deferred`,
`Failed`). `Ownership` and `Budget` say what every row satisfies. Instants are
naturals; settings are constants. Columns no statement tests are left out.

**`JobQueue`** - the table and the processes that call the methods, one action per
method and one statement per transaction. The claim is two: `TryClaimOne` is the
UPDATE and its commit (`queue.py:216`), `Reread` the refresh of the `Job` object in a
new transaction (line 219), `RereadFails` the refresh that `_retry_on_lock` gives up
for another UPDATE. Between them others go on, and `reading[p]` is the job that `p` has
claimed and not read. `handle[p][j]` is what a process remembers of its claim: the
generation and attempt_count of the `Job` object returned to it. A caller passes any
`now` up to the present clock, as a cycle reads the clock once and uses the reading for
minutes. `won` (the generation a claim wrote) and `lastBy` (the worker id that moved the
job last) are history variables; a handle that differs from what the process has won
is `Torn`. A call that the fence rejects changes nothing and needs no action.

**`JobLease`** - what the queue promises, without rows, clocks or generations: a
job is absent, open, held, done or failed; the holder alone finishes it, fails it
or gives it back; the queue may revoke, which costs an attempt. A holder is what
the fence can tell apart: for `JobQueue` a worker id, for `SchedulerCycle` with an id per
process a process. Both detailed modules map `holder` to their history variable
`lastBy`, which every claim and every transition of an owner sets to the one that makes
it: a transition by anyone but the last claimant would change `holder` in a way no step
of `JobLease` does.

**`SchedulerCycle`** - the same statements inside the transactions of
`run_scheduler_cycle`. `jobs` is the committed table, `dirty[p]` what session `p`
has written and not committed; a row in `DOMAIN dirty[p]` is locked by `p`.
`obj[p][j]` is the session's `Job` object and `Unloaded` stands for an expired one,
which the next attribute access reads again: this is how `expire_all` in
`_owned_transition`, `populate_existing` in `_try_claim_one` and the expiry of
objects whose row was updated become visible. The actions follow the code:

| Action | Code |
|---|---|
| StartCycle, RecoverStart, RecoverRow, RecoverCommit, Promote | run_scheduler_cycle, recover_expired (an UPDATE that visits rows one at a time, waits for locks and looks at a row again after a wait), promote_due_waiting |
| Select, ClaimCandidate, RereadCandidate, EndClaims | claim_next: up to `limit * 5` candidates, then for each one UPDATE, its commit, and the re-read of the row in a new transaction, until the batch is full |
| Load, ClaimAgain, RereadAgain, AdapterFailure | the loop of claim_and_process, and claim_job for a job that is no longer claimed |
| Reject, DeferForQuota, MarkRunning, FetchFailed, FetchDone | IngestionRunner.process |
| CommitBatch | the commit at the end of the cycle |
| DeadlockAbort, Crash, Tick | PostgreSQL, the process, time |

The sessions are made with `expire_on_commit=False`, so a commit leaves the
objects of earlier claims as they are; a re-read replaces one object. Reads of a
row (`View`) see the session's own writes over the committed ones.

**`ObservationStore`** - `record`, split where another session can step in: the
read of the current revision, and the INSERT within a SAVEPOINT. `own[s]` is what a
session has inserted and not committed. The unique constraint is in the guards: an
INSERT waits while an open transaction has the same key and revision (`Rivals`), is
rejected when that one commits, and is deadlocked when waits form a circle.
`recorded` is a history variable: the inputs `record` returned for.
A row keeps the value its INSERT was `given`; its columns, `Numeric(20, 8)`, hold
`Stored` of it (`Held`), and `Loaded` says which of the two `_same_value` may compare with
the new value: the rounded one, or, in the session that inserted the row, the one
its object still has.

**`PolicyGate`** - `record_decision` (next version, INSERT, commit) and the two
gates that the scheduler and the API open, one action per SELECT.
`authorize_ingestion` reads statuses and then, again, the decisions. `during` is a
history variable: what was in force at some instant of the check.

**`Recovery`** - the refresh of one listing against what becomes of its jobs. A
refresh is two actions, `ReadCursor` (the day and `last_completed_session`) and
`Enqueue` (the plan and its commit): jobs, days and other refreshes come between.
`PlanStart`, `Group`, `Chunks` and `WaitingJob` are the planner, over sets of days;
`jobs` is a partial function from dedupe keys, so a key that exists is left alone as
in `enqueue_idempotent`. A job from its claim to its commit is one step, on the
promise of `JobLease` that it is finished once and of `ObservationStore` that a value
is stored once: `Fetch` (an answer with every published session of the range, and
perhaps one the calendar still waits for), `Retry` and `Fail` (a failed attempt, which
may have recorded rows). A deferral for quota changes nothing here. The calendar and
the provider are external: a session is published on its day or, if it is in `Late`, at
any later time.

**`ProviderExecution`** - one call of `run_with_deadline`. `parent` is where the
caller is (`join`, the grace period after SIGTERM, after SIGKILL), `child` where
`_invoke` is. A message has a size, the pipe a capacity, in the same units; `Write`
puts one unit in and is disabled at a full pipe, because the parent reads only after
its join. `Die` is any death of the child, at any of its steps. `Receive` has the
three results of `poll` and `recv` on a pipe whose writer is dead: the whole message,
a part of it, nothing; the last two raise `EOFError`.

**`SchedulerRun`** - `run_scheduler_cycle` from `recorder.start` to the second
outcome, for one process, with the calls of `ProviderExecution` in it. `pc` follows the
statements; `tx` is what the session has written and not committed, and
`tx.aborted` that a statement of it failed (later statements fail, and COMMIT rolls
back without an error).

| Actions | Code |
|---|---|
| StartRun, RecordRefresh, RecordBatch, RecordRefreshFailure, RecordSkippedBatch, RecordBatchFailure | SchedulerRunRecorder, each with its commit, and the handlers of run_scheduler_cycle |
| NextSource, SourceQueryFails, ListingLoadFails | refresh_and_dispatch, outside its handlers: the query of the identities (line 145) and of a listing (line 157), which end the refresh if they fail, as they do in an aborted transaction |
| Dispatch, ListingFails, ListingStatementFails, EndListings, CommitRefresh | the same, inside: the job of a listing; an error that leaves the transaction usable; a failed statement, which aborts it and is caught all the same |
| RecoverExpired, PromoteDueWaiting, TryClaimOne, EndClaims | claim_next, with the commit after each UPDATE |
| ClaimAgain, Stale | a job of the batch that another process has recovered: claim_job, whose commit publishes the batch so far, or `StaleJobClaimError` and on to the next job |
| Refuse, Fetch, Calling, FetchFailed, FetchAnswered, RejectRow, RecordRow, RecordRaises, EndRows, BatchStatementFails, EndBatch, CommitBatch | claim_and_process and IngestionRunner.process |
| Crash, CommitFails, RecoveredByOther | the process dies; a commit raises; another process recovers a claim |
| ScrapePending, ScrapeDone, ScrapeFailed | the counting queries of collect_scheduler_metrics |

Abstractions: a listing has one valid identity in a source, and one job stands for its
ranges. When a waiting job is due, a claim has expired or a failed job may be retried is
open here (`JobRow` says it). Of other processes, only their recoveries are here:
`SchedulerCycle` has what two of them do to each other. History: `begun` is what was
committed when a phase began (of the jobs, in a refresh only) and what it has claimed,
`answered` the valid rows of the last answer for a job, `isolated` the listings whose
refresh failed and `lost` the one of them, if any, at which the transaction was aborted.

**`ObservationView`** - one request for the latest value, a range or the data
status, one action per SELECT: the current rows of a day, each capability of each
source (`all()` stops at the first that is missing), the attribution, and for the
status the greatest session date. `Decide` and `Record` are commits of others in
between. `Window` is the search of `find_latest_observation`, `Preferred` the choice
between credential scopes, `Chosen` the choice between sources, `Availability` the
answer for a day without a value. History: `before`, the rows when the request
began; `seen` and `steady`, the capabilities approved at some and at every instant
of it.

**`MC...`** modules give the constants their finite values.

Each module has a few operators that begin with the comment *Deliberate bug*
(`OwnedByWorker`, `RecoverRowBlind`, `InsertUnchecked`, ...). No specification uses
them: each is a plausible error in the definition next to it, and with it in that
definition's place TLC finds a listed property violated. They show that every
property can fail.

## 4. Runs, bounds, fairness

Runs that pass (distinct states in parentheses):

| Run | Question | Properties |
|---|---|---|
| `job_queue` (74,720) | Is the table safe whatever its callers do, in any order, with old clock readings, late re-reads and a shared worker id? | TypeOK, OwnershipRecorded, AtMostOneLiveClaim, LiveClaimCountsAttempts, AttemptsPaidByClaims, IInv, ImplementsLease |
| `cycle` (125,473) | Does that survive long transactions, lock waits, crashes and deadlocks, with the deployed shared worker id, and does every started cycle end? | TypeOK, RunningNotVisible, RowsConsistent, CommitsMoveForward, CyclesEnd |
| `cycle_distinct` (271,217) | Would a worker id per process fence former claimants and implement the lease? | FormerClaimantFenced, ImplementsLease |
| `scheduler_run` (179,856) | Is what a run says of itself true, whatever fails in it, and does it end whatever its provider does? | TypeOK, CallSafe, DoneMeansStored, ScrapeMissesNoJob, SuccessIsDurable, FailureKeepsNoHalf, RunEnds |
| `store` (1,617,474) | Do concurrent writers keep the history of revisions exact? | TypeOK, RevisionsContiguous, RevisionsDiffer, NothingSwallowed, EveryLossIsAnotherRevision, AppendOnly |
| `recovery` (66,687) | Is every session that can be had planned, fetched and not lost behind the cursor? | TypeOK, CoveredBehindCursor, PromptNotLost, CatchUp |
| `policy` (446,261) | What does an opened gate mean while decisions change? | TypeOK, VersionsContiguous, GrantsWereApproved, EvidenceWasInForce |
| `view` (523,017) | What may a request answer that reads at many instants? | TypeOK, PublishedWasAuthorized, CurrentRevision, PriorityKept, StatusAgrees |

Four more runs end in a counterexample: `cycle_hijack`, `policy_evidence`,
`recovery_gap` and `refresh_lost`; see section 5.

Bounds. In `job_queue`, one job (rows are independent: each statement of the queue
treats a row without looking at another) and three processes, two of which share a
worker id: a former claimant, the one that replaces it, and a bystander whose id
differs. A claim and a recovery each use one generation, so `MaxGeneration = 4` has a
claim, a recovery, a second claim, and the recovery of that; `MaxClock = 3` gives both
leases (`Lease = 1`) the time to expire. The theorems of section 6 need no such bounds.
In the runs of `SchedulerCycle`, two processes and two jobs: every conflict the code has
is between two claims of one job, or between the two jobs of one batch (a lock order
needs two rows, the effect of a fenced job on the next needs two jobs). `MaxAttempts =
2` gives a job a first failure and a last one. `Lease = 1` with `MaxClock` 1 or 2 lets a
lease expire during a batch, and once more in the run with 2. `BackoffBase = 1` and
`BackoffCap = 2` keep a failed job from being due at once. `MaxClock = 1` in `cycle` and
`cycle_distinct` gives each process two cycles, the second of which may recover the
first cycle of the other. `InitialRows` is what the refresh phases of earlier cycles
leave: pending rows and rows waiting for publication. A deferral for quota is in
`cycle_distinct` (`ResetAt`) and left out of `cycle` to keep its liveness check small:
it is one more way to leave the loop. The candidates are ten with a batch of two, more
than there are jobs. In the store, `MaxAttempts = 3` (the code has 8) with three
revisions of one key lets a call lose to committed revisions until its attempts are used
up, two records per transaction give the waits in opposite order that deadlock (two
revisions of the other key are enough for that), and of three values one is rounded to
another. In the policy model, three approved capabilities with two more decisions let a
denial and its lifting both fall into one check. In the recovery model five days with
four sessions, a chunk size of two and a lookback of three give two chunks in one plan,
a day without a session, a session that becomes too old, one that is late and one with a
malformed row that shares its chunk with a valid one. One refresher is enough for a plan
made from an old cursor and day, since jobs and days move on between its two steps; the
run does not cover two refreshes that overlap. In `scheduler_run` there are two runs,
the second of which meets what the first has left after a crash, a rollback or a failed
commit; a source that has no listings, then one with three identities of which a refresh
considers two and a batch holds two, so that a failure meets a job before it and one
after it, and a refresh fails with writes pending; then a source without adapters, which
no query notices; and a pipe of one unit with answers of one and of two. `refresh_lost`
has the same constants. In the view, two enabled sources (one with two credential
scopes) and one that is not enabled, a lookback of one day and four days of sessions
(one before the window, two in it, one of tomorrow), and three commits during a request:
enough to withdraw an approval and give it back while a source is read, and to record in
between. The bounds on clock, generations, revisions, records, decisions, runs and
changes are guards of the actions that count; all are named constants.

Deadlock checking is on in every run but those of the view, where a behaviour is one
request and ends with its answer. `SchedulerCycle` has a `Rest` step for the
state in which the clock has reached its bound and every process had its last
cycle, so that any other state without a successor is reported; the other models
have a step from every state (Crash, Rollback, EndCheck, and the metrics in `SchedulerRun`).

Fairness in `cycle`: weak fairness of a live process's next step,
`CycleStep(p)`. The code justifies it: a cycle is a straight program over finite
lists; the one call of foreign code runs under a deadline
(`ingestion/provider_execution.py`), and PostgreSQL both grants a released row lock
and breaks a circle of waits. Nothing is assumed of Tick, StartCycle or Crash: a
cycle ends also if time stands still. What weak fairness has to overcome is that a
step that waits for a row lock is enabled only now and then.

Fairness in `scheduler_run`: weak fairness of one action, that the run goes on: the
live process's next step or, while it waits in a provider call, the passing of the
deadline, the parent's steps in `run_with_deadline` (both joins have a timeout), and the
death of a child after SIGKILL. Nothing is assumed of the provider: its child may never
answer, and may ignore SIGTERM. `RunEnds` therefore rests on the deadline, the grace
period and the kill. No next run, crash or scrape is assumed.

Fairness in `recovery`: a refresher starts again (the entry point is run by a timer),
and of infinitely many refreshes not all are abandoned, hence strong fairness of
`Enqueue`. As long as some job is due, one of them ends: claims take the jobs in the
order of `next_run_at`, and `attempt_count` bounds the attempts, so `Retry` has no
fairness and cannot go on for ever. Nothing is assumed of days and publication.

## 5. What the runs found

* `cycle_hijack` - the fence of `_owned_transition` is `(claimed_by, generation)`,
  all deployed processes share one `claimed_by`, and a process learns the generation of
  its claim by reading the row again after the claim's commit (`queue.py:216-219`). Process
  p1 claims a job with a clock reading that is a lease old, p2 recovers and claims it, p1
  re-reads it, passes the fence with p2's generation, and fails the job under p2's
  claim. The spec says a former worker "cannot later change its state". There is a second
  way to this state: when the fence rejects one transition it expires *all* objects of the
  session (`queue.py:273`), and the next job of the batch is loaded anew, with the
  generation of whoever owns it by now. `cycle_distinct` shows that an id per process
  removes both. `AtMostOneLiveClaim` says what holds with a shared id: claims
  remembered as they were made exclude each other.
* `refresh_lost` - the handler around a listing (`scheduler_service.py:186`) catches a
  failed statement, too, and does not roll back; PostgreSQL has then aborted the
  transaction. If a query follows in the loops it is outside the handler (lines 145 and
  157), and the refresh fails as a whole. If none does, because the listing was the last,
  `session.commit()` rolls back without an error, and SUCCESS is recorded for a refresh of
  which nothing is kept. The module's documentation says that a failure "isolated to one
  source, listing or job is recorded and never interrupts the rest of the cycle".
  `SuccessIsDurable` says what does hold: this is the only exception.
* `policy_evidence` - the evidence of an ingestion authorization is read after the
  statuses were checked: a denial committed in between is returned, and stored, as
  the decision that authorized the retrieval. `EvidenceWasInForce` says what does
  hold.
* `recovery_gap` - a waiting job is made PENDING at its retry instant whether or not
  the value is there, is fetched, gets nothing and is DONE: `mark_waiting_for_publication`
  has no caller in `src/`. As soon as a later session is stored, the cursor has passed
  the session and no plan looks at it again. This takes a value that is published after
  the value of a later session; the fake calendar, with Fridays that wait and Mondays that
  are published, is such a case. `PromptNotLost` and `CatchUp` say what holds for all
  other sessions.

The counterexamples were followed in the code line by line. `FormerClaimantFenced`,
`EvidenceAuthorizes`, `UnpublishedNotSkipped` and `SuccessKeepsOtherListings` state what the
documents say; the findings in `PROJECT.json` quote the lines.

What the models also contain, and what a reader of the code should know. There is no run
for these, because no document promises the opposite as a property, or because the model
has the behaviour as an action and the properties are stated with it:

* `next_run_at` is tested in the SELECT of the candidates and not in the UPDATE of the
  claim (`queue.py:207`): a job that another process claims, fails and commits in
  between is claimed again at once, without its backoff.
* One transaction holds the whole batch, so a deadlock between a batch and another
  process's recovery, or a statement that fails, undoes the results of all jobs before
  it, although the handler is meant to isolate a job.
* A batch that fails is not undone as a whole: recoveries, promotions and claims have
  commits of their own, and `claim_job`, called for a job of the batch that was recovered
  meanwhile, commits the results of the jobs before it. `FailureKeepsNoHalf` says what is
  left: never the observations of a job without its outcome.
* The price columns are `Numeric(20, 8)`, and `_same_value` compares what they hold with
  the value as received. `ingestion/validation.py` does not limit the decimals, so a value
  with more than eight of them differs from its own stored row, and every retry adds a revision with
  equal columns, though the docstring of the store calls an identical value a
  duplicate retry that creates no row. `RevisionsDiffer` is stated for values that the
  columns hold exactly.
* `select` chooses among the enabled sources, but its alternatives are all publishable
  candidates of the day, so a source that is no longer enabled still sets
  `has_discrepancy`. The documents disagree: `selection.py:45-48` wants every publishable
  alternative from other sources exposed, `observation_view.py:46-48` says that a source
  absent from `enabled_sources` "is never considered".
* The commits at lines 341, 342, 359 and 360 are outside the `try` blocks: if one fails
  the process exits and no FAILURE is recorded (`CommitFails`). A crash between 341 and
  342, or 359 and 360, leaves a finished phase without its outcome, since the recorder
  writes through the session of the cycle; the docstring of the `SchedulerRun` table
  speaks of a connection of its own.
* A child that dies without an answer makes `recv` raise `EOFError`: a pipe without a
  writer is readable, so the error for an empty pipe below it is not reached. An answer
  larger than the pipe (64 KiB on Linux) would always time out; the chunks of the planner
  are far smaller.
* The quota is consumed only for calls that return (`runner.py:138`).
* The API counts days back from `date.today()`, the scheduler uses the UTC date: where
  they differ the status can name a session that no search finds. `StatusAgrees` has a
  session of tomorrow for this.

## 6. Proofs

Each `...Proofs` module states the properties of one model as theorems of its `Spec`, for
all values of its constants that satisfy the ASSUMEs; the bounds of section 4 are among the
constants, so the theorems hold for every one of them. All follow one pattern: an inductive
invariant (`Init => IInv`, one lemma per action for `IInv /\ [Next]_vars => IInv'`), and
a lemma `IInv => P` or a property of the step. TLC finds each inductive invariant
true on the instances of section 4 (with a bound in place of `Nat` in the `Numbered` of the
store and the gate); that of `JobQueue` is also part of a run.

| Module | Theorems, with the property each states |
|---|---|
| `JobQueueProofs` | `Invariant` (IInv), `TypeCorrect` (TypeOK), `OwnershipIsRecorded` (OwnershipRecorded), `MutualExclusion` (AtMostOneLiveClaim), `AttemptsNotLost` (LiveClaimCountsAttempts), `RetryBudget` (AttemptsPaidByClaims), `Refinement` (ImplementsLease) |
| `SchedulerCycleProofs` | `TypeCorrect`, `RunningStaysInside` (RunningNotVisible), `RowsStayConsistent` (RowsConsistent), `CommitsOnlyMoveForward` (CommitsMoveForward); with distinct worker ids `FormerClaimantsAreFenced` (FormerClaimantFenced), `CycleRefinement` (ImplementsLease) |
| `SchedulerRunProofs` | `TypeCorrect`, `CallsAreSafe` (CallSafe), `DoneJobsAreStored` (DoneMeansStored), `FailuresKeepNoHalf` (FailureKeepsNoHalf), `SuccessesAreDurable` (SuccessIsDurable), `ScrapesAreComplete` (ScrapeMissesNoJob) |
| `ObservationStoreProofs` | `TypeCorrect`, `RevisionsAreContiguous` (RevisionsContiguous), `RevisionsAreCorrections` (RevisionsDiffer), `NothingIsSwallowed` (NothingSwallowed), `LossesAreRevisions` (EveryLossIsAnotherRevision), `HistoryOnlyGrows` (AppendOnly) |
| `PolicyGateProofs` | `TypeCorrect`, `VersionsAreContiguous` (VersionsContiguous), `GrantsAreApproved` (GrantsWereApproved), `EvidenceIsInForce` (EvidenceWasInForce) |
| `RecoveryProofs` | `TypeCorrect`, `CursorPassesNothing` (CoveredBehindCursor), `PromptSessionsAreKept` (PromptNotLost) |
| `ObservationViewProofs` | `TypeCorrect`, `ValuesAreAuthorized` (PublishedWasAuthorized), `ValuesAreCurrent` (CurrentRevision), `PriorityIsKept` (PriorityKept), `StatusHalvesAgree` (StatusAgrees) |

### The queue: `JobQueueProofs`

For any number of jobs, processes and worker ids (shared or not), any lease, backoff and
limits. Assumed: the ASSUMEs of `JobRow` and `JobQueue`.

Why an inductive invariant is needed: mutual exclusion speaks of the claims that pass
the fence now. To see that it survives a claim one must know that nothing remembered, and
nothing won, is *ahead* of its row, or the next generation would match it; and that no two
processes have won the same generation of a job. Two may *remember* the same generation,
if one has read the row late; it is `won` that tells their claims apart. That is
`ClaimsInv`, which also says that whoever knows the generation of an owned row knows its
attempt_count, however late it was read. `OwnersInv` says that an owned row belongs to the
worker id that moved it last. `RowInv` adds what every row satisfies alone. `IInv` is their
conjunction with `TypeOK`.

The argument: each SET clause keeps `RowInv` and is `Quiet` (it does not make a row
owned, and leaves generation and attempt_count of a row that stays owned): one lemma
per clause. `QuietStep` lifts that to `IInv` for every action but the claim, its
re-read and the crash. `ClaimStep` is the claim, which takes a generation nobody has won;
`RememberStep` the re-read, which may remember anybody's. `FenceIdentifies` says that
whoever passes the fence has the last claimant's worker id, so that the history variable of
a transition's author never changes (`OnlyClaimantMoves`). The refinement maps each action
to a step of `JobLease` by the worker id of the process, or to a stutter.

### The transactions of a cycle: `SchedulerCycleProofs`

For any number of processes, jobs, claims and uncommitted writes. Assumed:
`CycleAssumption` - the table is finite, worker ids are `Workers`, the rows that the first
cycle finds are rows that a refresh has inserted.

What is hard is the time between a write and its commit: a batch writes a row, processes
other jobs for minutes, and commits what it wrote over a table that others have changed.
The invariant `Inv` has

* `Table` - every committed row satisfies `RowInv`, is never RUNNING, and an owned one names
  the worker id of the process that took it last;
* `Locks` - no two sessions have written the same row;
* `Control` - which phases of a cycle may hold writes, that the jobs of a batch differ, and
  that the only job of the rest of the batch that is written is the one being fetched;
* `Writes` - an uncommitted version is `Moved` from the committed row: a relation that
  says what all statements but the claim, in any sequence, may do (no new owner, at most
  one attempt, no lower generation, DONE only from an owned row);
* `Objects` - a `Job` object is at most as new as the row, and if it has the generation of
  an owned row it has its attempts too, so `mark_failed` counts on the right number.

`Moved` is transitive as far as a transaction needs it (`MovedTwice`) and, since others leave
a locked row alone, still holds at the commit; so each step of a process `p` changes each
committed row as `Change(p, j)` allows: not at all, by `Granted` (a claim), or by `Moved`.
`CommitsMoveForward` and the refinement read this off. `JobQueueProofs` has the same facts
tied to the state of `JobQueue`; they are stated anew here about rows.

`FormerClaimantsAreFenced` and `CycleRefinement` assume `IsInjective(WorkerId)`, which the
repository's deployment does not satisfy: every scheduler passes the worker id
`"scheduler"`. The hypothesis is needed, the run `cycle_hijack` has the
counterexample; the other theorems do without it. They say what an id per process would
give. `cycle_distinct` checks the same on an instance.

### A run of the scheduler: `SchedulerRunProofs`

For any catalog, limits and batch size, any set of observations and any pipe. Assumed:
`CatalogAssumption` - the enabled sources are a non-empty sequence (the validator of
`settings.enabled_sources` refuses an empty one), identities are listed in sequences and
finite in number, the malformed row is not a valid one - and `PipeAssumption`.

* `CallInv`: a call in progress has a child and no outcome, the pipe holds what fits,
  and the parent is past its first join only after the deadline. `StepsOfCall` says that
  the rest of the run starts a call, lets it go on, takes its outcome or leaves it alone.
* `BatchInv`: what the transaction says of a DONE job is what it stores for it
  (`DoneInTx`); what is gone from the answer of the current job is stored (`RowsKept`);
  the jobs of the batch are distinct, none of them is DONE, and none is written to before
  its turn (`BatchOpen`) - or a second answer to a DONE job could take the first back.
  `FinishStep`, `CommitStep` and `RollbackStep` are the lemmas the actions share. A job that
  another process has recovered is still open, and no longer this one's (`Stale`).
* `PhaseInv`: until its commit or its recorded failure, a refresh leaves the tables as
  those of `begun`, and a run that is going on has a row; `FailureSteps` shows which
  actions record a failure.
* `KeptInv`, for a failed batch: the rows stored since the batch began belong to jobs
  that are settled in the committed table and no longer in the batch - which is what the
  commit of `claim_job` publishes and no recovery takes back.
* `TxInv`: a transaction has written only to jobs that were absent or claimed when it
  began, and says RUNNING of none but the one whose provider is called, or was when a
  statement failed. With `Control`, `CallInv`, `BatchInv` and `PhaseInv` it gives the type
  invariant, which says that RUNNING is never committed, and `FinalStays`: a commit leaves
  DONE and FAILED jobs alone.
* `ScrapeInv`, for the metrics: what is still missing from the counts after the first
  query has reached DONE or FAILED, and after the second FAILED. It rests on the order of
  the queries and on `FinalStays`.
* `RefreshInv`, for a SUCCESS of the scheduler: `Place` says that the sources to come are
  the end of the enabled ones and the listings to come the end of the current page;
  `Covered` that an identity considered has a job, or its refresh failed, or it is to come;
  `AbortedLast` that an aborted transaction was aborted at one identity, after which
  either a listing is still to be loaded, which will fail, or nothing but sources without
  adapters is left. At the commit nothing is to come, which leaves the one exception.
* `WorkerInv`, for a SUCCESS of the worker: a job that was claimed is still in the batch, or
  written by the transaction, or no longer CLAIMED.

### The store: `ObservationStoreProofs`

For any number of sessions, keys and values, any number of records per transaction and any
retry limit. Assumed: `StoreAssumption`.

What one session sees is a history 1..n per key; but a commit changes what all the others
see, who may be about to insert. `SessionHistory` makes it inductive: what a session has
inserted lies above all committed revisions of its key, and no other open transaction has
observations of that key (the unique constraint makes the second INSERT wait). So of two
histories that a commit brings together one is a part of the other (`MergedHistory`). `CallInv`
says that a value read is still a revision the session sees and, as its object had it, not
the one to be written (`Corrects`, from which `RevisionsDiffer` follows by `Stored`), and
that a call which lost n races sees at least n revisions; `RecordedInv` that what `record`
returned for is there, also as a duplicate.

### The gate: `PolicyGateProofs`

For any number of reviewers and checks. Assumed: `PolicyAssumption`, `InitialAssumption`
(finitely many decisions to begin with, versions without a gap).

`ReviewerInv` and `DraftInv` are the store's argument for decision versions. `CheckInv`
is the one for the gates: what is in force now is in `during`, of each status read as
APPROVED there is a decision in `during`, and each evidence read is in `during` and no older
than such a decision. The last part needs that the effective decision has the
highest version (`EffectiveIs`) and that versions only grow.

### The recovery: `RecoveryProofs`

For any calendar, late or malformed sessions, look-back, chunk size and number of refreshes
that overlap - the run has one. Assumed: `RecoveryAssumption`.

The cursor moves by what jobs store, jobs come from plans, and a plan begins behind a cursor
that may be old when the plan is committed. `JobsInv` breaks the circle: every session of the
look-back up to the *end of any job* is covered by some job. A new job's plan covers what
lies after the cursor it was made from (`PlanCovers`); what lies before is up to
the end of the job that moved the cursor there (`ReadInv`), and was covered already. `PromptInv`
says that a job that is done has stored the prompt and valid sessions it asked for.

### The view: `ObservationViewProofs`

For any sources, policies, tables, calendar, window, and any number of commits of others
during a request. Assumed: `ViewAssumption` (enabled sources are a sequence of sources;
the days are an interval that holds the window), `InitialAssumption` (finitely many rows; `None`
is not a source, a row or a day).

A request ends with values chosen from what it has read at many instants. The invariant ties
whatever it holds in between to history: `PassedInv` (each capability passed was in force at
some instant), `RowsInv` (each row to check or kept is of the day in hand and not older
than the revision that was current at the beginning; those kept are of publishable sources;
a steady source that had a row is among them), `SourcesInv` (the same for the sources of
the data status), `AnswerInv` (the properties of one answer), `DateInv` (the date of the
status), `SearchInv` (how far the search through the window has gone: without it the
two halves of a status could not be compared).

### What is not proved

Sets of days have a least and a greatest element by `OrderLemmas`, from the well-foundedness
of the naturals, as the prover cannot instantiate the induction theorems of the library.
What a definition by recursion over data computes could not be proved for the same reason; no
module here has one.

Model-checked only: liveness (`CyclesEnd`, `RunEnds`, `CatchUp`) - fairness and ENABLED
are outside the reach of the prover - and the four
properties of section 5 that the code as deployed violates.
The models' assumptions about each other (`Recovery` on the queue and the store,
`ObservationView` on the gate and the store) are stated in section 3 and not composed
formally.

## 7. What is not modelled

* In one model, everything: `SchedulerCycle` starts from rows that refreshes have left
  and does not look at rows of an answer; `SchedulerRun` has the refresh and the rows,
  but one process, whose claims others may recover, and no clock; `Recovery` has the
  ranges of one listing. `next_cursor` of the plan, which no code reads, is left out. A
  cycle that starts before midnight and reads the cursor after it is not distinguished.
* A denial that is committed while the provider runs (step 15). An observation that a slow
  worker records after a faster one: `record` does not compare `retrieved_at`, and no
  document promises that it does.
* The child of a process that dies: it is orphaned and may run on, with no pipe to answer.
  `CallSafe` is about calls that return or raise.
  Platforms without fork.
* What is only counted and logged: the counters of `RefreshOutcome` and `ProcessOutcome`,
  ages of jobs and quota snapshots in the metrics. A property would repeat the sum.
* The retry of a locked SQLite database (`_retry_on_lock`), but for the one case in which
  what it repeats had an effect (`RereadFails` of `JobQueue`). The models are about
  PostgreSQL, the deployed database.
* Clocks that differ between hosts: all processes read one clock, and `JobQueue`
  allows arbitrarily old readings of it, which covers a clock that lags behind.
* Validation, error codes, credentials, consumer authentication, API routing, settings,
  adapters, the rest of the catalog, migrations: no state that several actors change, or
  none at all. `PROJECT.json` gives the reason for each.

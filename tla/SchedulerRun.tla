---------------------------- MODULE SchedulerRun ----------------------------
(***************************************************************************)
(* run_scheduler_cycle from its first statement to its last: the refresh   *)
(* of every source and listing, the batch of claimed jobs with the         *)
(* provider calls and observations of each, the commits between them, and  *)
(* the run row in which SchedulerRunRecorder keeps the outcome of both     *)
(* phases.  Next to it, a consumer collects the metrics.                   *)
(*                                                                         *)
(* One process runs at a time here; of the others, which SchedulerCycle    *)
(* has, only that they may recover claims of this one.  A listing has one  *)
(* valid identity in a source, and one job stands for its range: Recovery  *)
(* has the ranges.  Leases, backoff and attempts are left to JobRow:       *)
(* whether a waiting job is due, a claim has expired or a failed job may   *)
(* be retried is open.  Where the database fails a statement outside a     *)
(* SAVEPOINT, the transaction is aborted: later statements fail too, and   *)
(* COMMIT rolls back.                                                      *)
(***************************************************************************)
EXTENDS ProviderExecution, Sequences, FiniteSets, Functions

CONSTANTS
  EnabledSources,  \* settings.enabled_sources, in order
  Registered,      \* the sources that have adapters
  Identities,      \* Identities[s]: valid external identities of s, in the
                   \* order of the query
  MaxListings,     \* max_listings_per_source
  BatchSize,       \* settings.scheduler_batch_size
  Valid,           \* valid observations a provider may answer with
  MaxRuns          \* bound on the number of cycles

Sources == {EnabledSources[i] : i \in DOMAIN EnabledSources}

\* One job for each identity, since its dedupe key names source and external id.
Keys == UNION {{<<s, Identities[s][i]>> : i \in DOMAIN Identities[s]} : s \in Sources}

Malformed == "malformed"

ASSUME CatalogAssumption ==
  /\ EnabledSources \in Seq(Sources) \ {<<>>}
  /\ Registered \subseteq Sources
  /\ \A s \in Sources : Identities[s] \in Seq(Range(Identities[s]))
  /\ IsFiniteSet(Keys)
  /\ Malformed \notin Valid
  /\ MaxListings \in Nat /\ BatchSize \in Nat \ {0} /\ MaxRuns \in Nat

VARIABLES
  jobs,      \* the committed status of the job of each identity
  stored,    \* the committed observations: pairs of a job and an observation
  runs,      \* the committed table scheduler_runs
  pc,        \* where the process is
  sources,   \* sources the refresh has yet to visit
  listings,  \* identities of the current source it has yet to visit
  batch,     \* claimed jobs yet to be finished, the current one first
  left,      \* what the provider answered for the current job, yet to be recorded
  tally,     \* of the current job: was it claimed again, is something recorded,
             \* is something rejected
  tx,        \* the uncommitted writes of the session
  isolated,  \* history: identities whose refresh failed in this run
  lost,      \* history: those at which the transaction was aborted
  begun,     \* history: what was committed when the current phase began (the jobs
             \* matter to the refresh only), and the jobs it has claimed
  answered,  \* history: the valid observations of the answer for each job, unless
             \* the job has failed since
  scrape     \* what the collection of metrics has read so far

dbVars == <<jobs, stored, runs>>
histVars == <<isolated, lost, begun, answered>>
vars == <<dbVars, pc, sources, listings, batch, left, tally, tx, histVars, scrape, callVars>>

-----------------------------------------------------------------------------
Observations == Valid \union {Malformed}

Status == {"ABSENT", "PENDING", "WAITING", "CLAIMED", "DONE", "FAILED"}
RunStatus == {"none", "SUCCESS", "FAILURE"}

NoTx == [jobs |-> <<>>, stored |-> {}, aborted |-> FALSE]
NoPhase == [jobs |-> <<>>, stored |-> {}, claimed |-> {}]
NoTally == [again |-> FALSE, recorded |-> FALSE, rejected |-> FALSE]
NoScrape == [step |-> "idle", missing |-> {}]

TypeOK ==
  /\ CallTypeOK
  /\ jobs \in [Keys -> Status]
  /\ stored \subseteq Keys \X Valid
  /\ runs \in Seq([scheduler : RunStatus, worker : RunStatus])
  /\ pc \in {"idle", "source", "listing", "refreshed", "record_refresh",
             "refresh_failed", "record_skipped", "recover", "promote", "claim", "job",
             "fetch", "rows", "processed", "record_batch", "batch_failed"}
  /\ sources \in Seq(Sources) /\ listings \in Seq(Keys) /\ batch \in Seq(Keys)
  /\ left \subseteq Observations
  /\ tally \in [again : BOOLEAN, recorded : BOOLEAN, rejected : BOOLEAN]
  /\ DOMAIN tx.jobs \subseteq Keys /\ tx.stored \subseteq Keys \X Valid
  /\ isolated \subseteq Keys /\ lost \subseteq isolated
  /\ answered \in [Keys -> SUBSET Valid]

Init ==
  /\ CallInit
  /\ jobs = [k \in Keys |-> "ABSENT"] /\ stored = {} /\ runs = <<>>
  /\ pc = "idle" /\ sources = <<>> /\ listings = <<>> /\ batch = <<>>
  /\ left = {} /\ tally = NoTally /\ tx = NoTx
  /\ isolated = {} /\ lost = {} /\ answered = [k \in Keys |-> {}]
  /\ begun = NoPhase
  /\ scrape = NoScrape

-----------------------------------------------------------------------------
(* The session.                                                            *)

Seen(k) == IF k \in DOMAIN tx.jobs THEN tx.jobs[k] ELSE jobs[k]

SetJob(t, k, status) ==
  [t EXCEPT !.jobs = [x \in DOMAIN t.jobs \union {k} |->
                        IF x = k THEN status ELSE t.jobs[x]]]

\* COMMIT of an aborted transaction rolls back, and does not say so.
Commit ==
  /\ jobs' = IF tx.aborted THEN jobs ELSE [k \in Keys |-> Seen(k)]
  /\ stored' = IF tx.aborted THEN stored ELSE stored \union tx.stored
  /\ tx' = NoTx

\* rollback, or the end of a session that is left by an exception.
Rollback == tx' = NoTx

SetRun(phase, status) == runs' = [runs EXCEPT ![Len(runs)][phase] = status]

\* The process ends, or dies.  Nothing of its memory is left.
Leave ==
  /\ begun' = NoPhase /\ isolated' = {} /\ lost' = {}
  /\ answered' = [k \in Keys |-> IF jobs[k] = "DONE" THEN answered[k] ELSE {}]
  /\ pc' = "idle" /\ sources' = <<>> /\ listings' = <<>> /\ batch' = <<>>
  /\ left' = {} /\ tally' = NoTally /\ Rollback

-----------------------------------------------------------------------------
(* The refresh.                                                            *)

\* SchedulerRunRecorder.start; the refresh begins with the first source.
StartRun ==
  /\ pc = "idle" /\ Len(runs) < MaxRuns
  /\ runs' = Append(runs, [scheduler |-> "none", worker |-> "none"])
  /\ sources' = EnabledSources
  /\ begun' = [jobs |-> jobs, stored |-> stored, claimed |-> {}]
  /\ pc' = "source"
  /\ UNCHANGED <<jobs, stored>>
  /\ UNCHANGED <<listings, batch, left, tally, tx, isolated, lost, answered, scrape, callVars>>

\* The query of the identities: the first ones, up to the limit.
Page(s) == [i \in {n \in DOMAIN Identities[s] : n <= MaxListings} |-> <<s, Identities[s][i]>>]

\* A source without adapters is skipped, without a query.
NextSource ==
  /\ pc = "source" /\ sources # <<>>
  /\ \/ Head(sources) \notin Registered /\ listings' = <<>>
     \/ Head(sources) \in Registered /\ ~tx.aborted /\ listings' = Page(Head(sources))
  /\ sources' = Tail(sources)
  /\ pc' = "listing"
  /\ UNCHANGED <<dbVars, batch, left, tally, tx, histVars, scrape, callVars>>

\* The query for the identities of a source fails: not caught in the loop.
SourceQueryFails ==
  /\ pc = "source" /\ sources # <<>> /\ Head(sources) \in Registered
  /\ pc' = "refresh_failed"
  /\ UNCHANGED <<dbVars, sources, listings, batch, left, tally, tx, histVars, scrape,
                 callVars>>

\* Nor is a failure to load the listing of an identity.  In an aborted transaction
\* this, or the query of the next source, is what happens next.
ListingLoadFails ==
  /\ pc = "listing" /\ listings # <<>>
  /\ pc' = "refresh_failed"
  /\ UNCHANGED <<dbVars, sources, listings, batch, left, tally, tx, histVars, scrape,
                 callVars>>

NextListing == listings' = Tail(listings)

\* plan_and_enqueue: the job is inserted unless it is there.
Dispatch ==
  /\ pc = "listing" /\ listings # <<>> /\ ~tx.aborted
  /\ LET k == Head(listings)
     IN  IF Seen(k) = "ABSENT"
           THEN \E status \in {"PENDING", "WAITING"} : tx' = SetJob(tx, k, status)
           ELSE UNCHANGED tx
  /\ NextListing
  /\ UNCHANGED <<dbVars, pc, sources, batch, left, tally, histVars, scrape, callVars>>

\* The handler around a listing: only this one is passed over.
Isolate == isolated' = isolated \union {Head(listings)} /\ NextListing

\* The calendar or the planner of one listing raises, or an INSERT fails, which rolls
\* its SAVEPOINT back; nothing of the listing is enqueued.
ListingFails ==
  /\ pc = "listing" /\ listings # <<>> /\ ~tx.aborted
  /\ Isolate
  /\ UNCHANGED <<dbVars, pc, sources, batch, left, tally, tx, lost, begun, answered, scrape,
                 callVars>>

\* Deliberate bug: the handler rolls back, and what other listings inserted is lost.
ListingStatementRollsBack ==
  /\ pc = "listing" /\ listings # <<>> /\ ~tx.aborted
  /\ Rollback
  /\ Isolate
  /\ UNCHANGED <<dbVars, pc, sources, batch, left, tally, lost, begun, answered, scrape,
                 callVars>>

\* A statement of last_completed_session or enqueue_idempotent fails outside a
\* SAVEPOINT.  The handler catches this, too, and does not roll back.
ListingStatementFails ==
  /\ pc = "listing" /\ listings # <<>> /\ ~tx.aborted
  /\ tx' = [tx EXCEPT !.aborted = TRUE]
  /\ lost' = lost \union {Head(listings)}
  /\ Isolate
  /\ UNCHANGED <<dbVars, pc, sources, batch, left, tally, begun, answered, scrape, callVars>>

EndListings ==
  /\ pc = "listing" /\ listings = <<>>
  /\ pc' = IF sources = <<>> THEN "refreshed" ELSE "source"
  /\ UNCHANGED <<dbVars, sources, listings, batch, left, tally, tx, histVars, scrape,
                 callVars>>

\* The status of a waiting job is flushed by the next INSERT or here, which an aborted
\* transaction refuses: see CommitFails.  (Flushed before, it is lost as one that is
\* pending is, so the guard leaves out no outcome.)
CommitRefresh ==
  /\ pc = "refreshed"
  /\ tx.aborted => \A k \in DOMAIN tx.jobs : tx.jobs[k] # "WAITING"
  /\ Commit
  /\ pc' = "record_refresh"
  /\ UNCHANGED <<runs, sources, listings, batch, left, tally, histVars, scrape, callVars>>

RecordRefresh ==
  /\ pc = "record_refresh"
  /\ SetRun("scheduler", "SUCCESS")
  /\ isolated' = {} /\ lost' = {}
  /\ begun' = [NoPhase EXCEPT !.stored = stored]
  /\ pc' = "recover"
  /\ UNCHANGED <<jobs, stored>>
  /\ UNCHANGED <<sources, listings, batch, left, tally, tx, answered, scrape,
                 callVars>>

\* The exception handler: rollback, and both outcomes, one commit each.
RecordRefreshFailure ==
  /\ pc = "refresh_failed"
  /\ Rollback
  /\ SetRun("scheduler", "FAILURE")
  /\ pc' = "record_skipped"
  /\ UNCHANGED <<jobs, stored, sources, listings, batch, left, tally, histVars, scrape,
                 callVars>>

RecordSkippedBatch ==
  /\ pc = "record_skipped"
  /\ SetRun("worker", "FAILURE")
  /\ Leave
  /\ UNCHANGED <<jobs, stored, scrape, callVars>>

-----------------------------------------------------------------------------
(* The batch.                                                              *)

\* claim_next, in three parts, with a commit after each UPDATE.  First the expired
\* claims are taken back.
RecoverExpired ==
  /\ pc = "recover"
  /\ \E lapsed \in SUBSET {k \in Keys : jobs[k] = "CLAIMED"} :
       \E failed \in SUBSET lapsed :
         jobs' = [k \in Keys |-> IF k \in failed THEN "FAILED"
                                 ELSE IF k \in lapsed THEN "PENDING"
                                 ELSE jobs[k]]
  /\ pc' = "promote"
  /\ UNCHANGED <<stored, runs, sources, listings, batch, left, tally, tx, histVars, scrape,
                 callVars>>

\* Then waiting jobs that are due become claimable.
PromoteDueWaiting ==
  /\ pc = "promote"
  /\ \E due \in SUBSET {k \in Keys : jobs[k] = "WAITING"} :
       jobs' = [k \in Keys |-> IF k \in due THEN "PENDING" ELSE jobs[k]]
  /\ pc' = "claim"
  /\ UNCHANGED <<stored, runs, sources, listings, batch, left, tally, tx, histVars, scrape,
                 callVars>>

\* Then one candidate after the other is claimed, until there are enough.
TryClaimOne ==
  /\ pc = "claim" /\ Len(batch) < BatchSize
  /\ \E k \in Keys \ Range(batch) :
       /\ jobs[k] = "PENDING"
       /\ jobs' = [jobs EXCEPT ![k] = "CLAIMED"]
       /\ batch' = Append(batch, k)
       /\ begun' = [begun EXCEPT !.claimed = @ \union {k}]
  /\ UNCHANGED <<stored, runs, pc, sources, listings, left, tally, tx, isolated, lost,
                 answered, scrape, callVars>>

EndClaims ==
  /\ pc = "claim"
  /\ pc' = "job"
  /\ UNCHANGED <<dbVars, sources, listings, batch, left, tally, tx, histVars, scrape, callVars>>

Current == Head(batch)

\* The row of the current job is still the one this process claimed.
Owned == jobs[Current] = "CLAIMED"

\* The current job was recovered by another process, and this one has read the row
\* since: it claims the job again, with a commit that publishes the batch so far.
ClaimAgain ==
  /\ pc = "job" /\ batch # <<>> /\ ~tally.again
  /\ jobs[Current] = "PENDING"
  /\ jobs' = [k \in Keys |-> IF k = Current THEN "CLAIMED" ELSE Seen(k)]
  /\ stored' = stored \union tx.stored /\ tx' = NoTx
  /\ tally' = [tally EXCEPT !.again = TRUE]
  /\ UNCHANGED <<runs, pc, sources, listings, batch, left, histVars, scrape, callVars>>

\* Or it has not, or is too late: the first fenced UPDATE finds no row, and
\* StaleJobClaimError passes over the job.
Stale ==
  /\ pc = "job" /\ batch # <<>> /\ ~Owned
  /\ batch' = Tail(batch) /\ tally' = NoTally
  /\ UNCHANGED <<dbVars, pc, sources, listings, left, tx, histVars, scrape, callVars>>

\* The current job is finished: in the row, its status; here, the next job.
Finish(status) ==
  /\ tx' = SetJob(tx, Current, status)
  /\ batch' = Tail(batch)
  /\ left' = {} /\ tally' = NoTally
  /\ answered' = [answered EXCEPT ![Current] = IF status = "DONE" THEN @ ELSE {}]
  /\ pc' = "job"

MarkFailed == \E status \in {"PENDING", "FAILED"} : Finish(status)

\* No adapter, no authorization, an invalid cursor: the job fails.  An exhausted
\* quota defers it.
Refuse ==
  /\ pc = "job" /\ batch # <<>> /\ Owned
  /\ MarkFailed
  /\ UNCHANGED <<dbVars, sources, listings, isolated, lost, begun, scrape, callVars>>

\* mark_running, and the call to the provider.
Fetch ==
  /\ pc = "job" /\ batch # <<>> /\ Owned /\ Current[1] \in Registered
  /\ StartCall
  /\ tx' = SetJob(tx, Current, "RUNNING")
  /\ pc' = "fetch"
  /\ UNCHANGED <<dbVars, sources, listings, batch, left, tally, histVars, scrape>>

Calling ==
  /\ pc = "fetch"
  /\ CallStep
  /\ UNCHANGED <<dbVars, pc, sources, listings, batch, left, tally, tx, histVars, scrape>>

\* run_with_deadline raises, whatever it raises.
FetchFailed ==
  /\ pc = "fetch" /\ parent = "idle" /\ outcome # "value"
  /\ EndCall
  /\ MarkFailed
  /\ UNCHANGED <<dbVars, sources, listings, isolated, lost, begun, scrape>>

\* It returns: assert_owned, quota.consume, and the loop over the answer.
FetchAnswered ==
  /\ pc = "fetch" /\ parent = "idle" /\ outcome = "value"
  /\ \E answer \in SUBSET Observations :
       /\ left' = answer
       /\ answered' = [answered EXCEPT ![Current] = answer \ {Malformed}]
  /\ EndCall
  /\ pc' = "rows"
  /\ UNCHANGED <<dbVars, sources, listings, batch, tally, tx, isolated, lost, begun, scrape>>

RejectRow ==
  /\ pc = "rows" /\ Malformed \in left
  /\ left' = left \ {Malformed}
  /\ tally' = [tally EXCEPT !.rejected = TRUE]
  /\ UNCHANGED <<dbVars, pc, sources, listings, batch, tx, histVars, scrape, callVars>>

\* ObservationStore.record: what is stored already is not recorded again.
RecordRow ==
  /\ pc = "rows"
  /\ \E o \in left \ {Malformed} :
       /\ left' = left \ {o}
       /\ IF <<Current, o>> \in stored \union tx.stored
            THEN UNCHANGED <<tx, tally>>
            ELSE /\ tx' = [tx EXCEPT !.stored = @ \union {<<Current, o>>}]
                 /\ tally' = [tally EXCEPT !.recorded = TRUE]
  /\ UNCHANGED <<dbVars, pc, sources, listings, batch, histVars, scrape, callVars>>

\* Deliberate bug: the handler only logs the failure.
RecordRaisesUnmarked ==
  /\ pc = "rows" /\ left \ {Malformed} # {}
  /\ batch' = Tail(batch) /\ left' = {} /\ tally' = NoTally /\ pc' = "job"
  /\ UNCHANGED <<dbVars, tx, sources, listings, histVars, scrape, callVars>>

\* record gives up: the handler in the loop over the batch fails the job, and what
\* was recorded before stays in the transaction.
RecordRaises ==
  /\ pc = "rows" /\ left \ {Malformed} # {}
  /\ MarkFailed
  /\ UNCHANGED <<dbVars, sources, listings, isolated, lost, begun, scrape, callVars>>

\* Deliberate bug: a job with rejected rows is done as soon as one was rejected.
MarkDoneEarly ==
  /\ pc = "rows" /\ (left = {} \/ tally.rejected)
  /\ Finish("DONE")
  /\ UNCHANGED <<dbVars, sources, listings, isolated, lost, begun, scrape, callVars>>

\* Everything received was malformed, or was stored before: the job fails.
EndRows ==
  /\ pc = "rows" /\ left = {}
  /\ IF tally.rejected /\ ~tally.recorded THEN MarkFailed ELSE Finish("DONE")
  /\ UNCHANGED <<dbVars, sources, listings, isolated, lost, begun, scrape, callVars>>

\* A statement or a commit of the batch fails: in claim_next, which is outside the
\* handler, or within it, whose own mark_failed then fails, too.  So it does, with
\* StaleJobClaimError, if the adapter of a recovered job raises.
BatchStatementFails ==
  /\ \/ pc \in {"recover", "promote", "claim", "job", "rows"} /\ UNCHANGED callVars
     \/ pc = "fetch" /\ parent = "idle" /\ EndCall
  /\ pc' = "batch_failed"
  /\ UNCHANGED <<dbVars, sources, listings, batch, left, tally, tx, histVars, scrape>>

EndBatch ==
  /\ pc = "job" /\ batch = <<>>
  /\ pc' = "processed"
  /\ UNCHANGED <<dbVars, sources, listings, batch, left, tally, tx, histVars, scrape,
                 callVars>>

CommitBatch ==
  /\ pc = "processed"
  /\ Commit
  /\ pc' = "record_batch"
  /\ UNCHANGED <<runs, sources, listings, batch, left, tally, histVars, scrape, callVars>>

RecordBatch ==
  /\ pc = "record_batch"
  /\ SetRun("worker", "SUCCESS")
  /\ Leave
  /\ UNCHANGED <<jobs, stored, scrape, callVars>>

\* Deliberate bug: no rollback, so the recorder's commit keeps half a batch.
RecordBatchFailureOnly ==
  /\ pc = "batch_failed"
  /\ jobs' = [k \in Keys |-> Seen(k)] /\ stored' = stored \union tx.stored
  /\ SetRun("worker", "FAILURE")
  /\ Leave
  /\ UNCHANGED <<scrape, callVars>>

\* The exception handler: rollback, and the outcome.
RecordBatchFailure ==
  /\ pc = "batch_failed"
  /\ SetRun("worker", "FAILURE")
  /\ Leave
  /\ UNCHANGED <<jobs, stored, scrape, callVars>>

-----------------------------------------------------------------------------
(* Faults.                                                                 *)

\* The process dies; an orphaned child of it is not followed any further.
Crash ==
  /\ pc # "idle"
  /\ Leave /\ EndCall
  /\ UNCHANGED <<dbVars, scrape>>

\* A commit of run_scheduler_cycle or of the recorder fails.  They are outside the try
\* blocks, or in their handlers: session_scope rolls back, and the process exits.
CommitFails ==
  /\ pc \in {"refreshed", "record_refresh", "refresh_failed", "record_skipped",
             "processed", "record_batch", "batch_failed"}
  /\ Leave
  /\ UNCHANGED <<dbVars, scrape, callVars>>

\* Another process recovers an expired claim of this one, unless the row is locked by
\* what this one has written to it.
RecoveredByOther ==
  /\ \E k \in Range(batch) \ DOMAIN tx.jobs, status \in {"PENDING", "FAILED"} :
       /\ jobs[k] = "CLAIMED"
       /\ jobs' = [jobs EXCEPT ![k] = status]
  /\ UNCHANGED <<stored, runs, pc, sources, listings, batch, left, tally, tx, histVars, scrape,
                 callVars>>

-----------------------------------------------------------------------------
(* collect_scheduler_metrics, one query at a time, each on what is committed *)
(* when it runs.  Of the jobs that were there at the first query and are no *)
(* longer waiting, "missing" holds those no query has counted yet.         *)

Counted(statuses) == {k \in Keys : jobs[k] \in statuses}

\* Deliberate bug: only jobs that nobody has claimed are pending.
ScrapePendingOnly ==
  /\ scrape.step = "idle"
  /\ scrape' = [step |-> "done", missing |-> Counted({"CLAIMED", "DONE", "FAILED"})]
  /\ UNCHANGED <<dbVars, pc, sources, listings, batch, left, tally, tx, histVars, callVars>>

ScrapePending ==
  /\ scrape.step = "idle"
  /\ scrape' = [step |-> "done", missing |-> Counted({"DONE", "FAILED"})]
  /\ UNCHANGED <<dbVars, pc, sources, listings, batch, left, tally, tx, histVars, callVars>>

ScrapeDone ==
  /\ scrape.step = "done"
  /\ scrape' = [step |-> "failed", missing |-> scrape.missing \ Counted({"DONE"})]
  /\ UNCHANGED <<dbVars, pc, sources, listings, batch, left, tally, tx, histVars, callVars>>

\* The last query that counts jobs.  The snapshot stays, for the property below, only
\* if something is missing from it.
ScrapeFailed ==
  /\ scrape.step = "failed"
  /\ LET missing == scrape.missing \ Counted({"FAILED"})
     IN  scrape' = IF missing = {} THEN NoScrape ELSE [step |-> "end", missing |-> missing]
  /\ UNCHANGED <<dbVars, pc, sources, listings, batch, left, tally, tx, histVars, callVars>>

-----------------------------------------------------------------------------
(* Specifications.                                                         *)

RefreshStep ==
  \/ NextSource \/ SourceQueryFails \/ ListingLoadFails \/ Dispatch
  \/ ListingFails \/ ListingStatementFails \/ EndListings
  \/ CommitRefresh \/ RecordRefresh \/ RecordRefreshFailure \/ RecordSkippedBatch

BatchStep ==
  \/ RecoverExpired \/ PromoteDueWaiting \/ TryClaimOne \/ EndClaims
  \/ ClaimAgain \/ Stale \/ Refuse \/ Fetch \/ FetchFailed \/ FetchAnswered
  \/ RejectRow \/ RecordRow \/ RecordRaises \/ EndRows \/ BatchStatementFails
  \/ EndBatch \/ CommitBatch \/ RecordBatch \/ RecordBatchFailure

Next ==
  \/ StartRun \/ RefreshStep \/ BatchStep \/ Calling
  \/ Crash \/ CommitFails \/ RecoveredByOther
  \/ ScrapePending \/ ScrapeDone \/ ScrapeFailed

\* What brings a provider call to its end whatever the child does: the deadline passes,
\* the parent acts on it, and a child that is killed dies.
CallEnds ==
  Calling /\ (Expire \/ Terminate \/ Kill \/ RaiseTimeout \/ Receive \/ (parent = "killed" /\ Die))

\* A live process goes on with what it does.  Nobody promises that a next cycle starts.
Fairness == WF_vars(RefreshStep \/ BatchStep \/ CallEnds \/ CommitFails)

Spec == Init /\ [][Next]_vars /\ Fairness

-----------------------------------------------------------------------------
(* Properties.                                                             *)

\* mark_done and the observations of the job are in one transaction: a job that is
\* DONE for everybody has every valid observation of its provider's answer stored,
\* whatever failed, and was rolled back or retried, before.
DoneMeansStored ==
  \A k \in Keys : jobs[k] = "DONE" => {k} \X answered[k] \subseteq stored

\* The identities one refresh considers.
Considered == UNION {{Page(s)[i] : i \in DOMAIN Page(s)} : s \in Registered}

Recorded(phase, status) ==
  /\ Len(runs') = Len(runs) /\ runs # <<>>
  /\ runs[Len(runs)][phase] = "none" /\ runs'[Len(runs)][phase] = status

\* The identity a refresh considers last, if its last query finds any.
LastConsidered(k) ==
  \E i \in DOMAIN EnabledSources :
    LET page == Page(EnabledSources[i])
    IN  /\ EnabledSources[i] \in Registered /\ page # <<>> /\ k = page[Len(page)]
        /\ \A j \in DOMAIN EnabledSources : j > i => EnabledSources[j] \notin Registered

\* SUCCESS is recorded for durable work only, with one exception.  For the scheduler,
\* every identity considered whose own refresh did not fail has its job, whatever failed
\* for the others; unless a statement of the very last one aborted the transaction,
\* since nothing comes after it that would notice: then nothing of the refresh is kept.
\* For the worker, every job it has claimed has its result or was recovered.
SuccessIsDurable ==
  [][/\ Recorded("scheduler", "SUCCESS") =>
          \/ lost = {} /\ \A k \in Considered \ isolated : jobs[k] # "ABSENT"
          \/ \E k \in isolated : /\ lost = {k} /\ LastConsidered(k)
                                 /\ jobs = begun.jobs /\ stored = begun.stored
     /\ Recorded("worker", "SUCCESS") =>
          /\ runs[Len(runs)].scheduler = "SUCCESS"
          /\ \A k \in begun.claimed : jobs[k] # "CLAIMED"]_vars

\* What the module's documentation claims: a failure isolated to one listing does not
\* interrupt the rest of the cycle, so after a SUCCESS the other listings have their jobs.
SuccessKeepsOtherListings ==
  [][Recorded("scheduler", "SUCCESS") =>
       \A k \in Considered \ isolated : jobs[k] # "ABSENT"]_vars

\* FAILURE is recorded with the failed work undone.  Of a failed refresh nothing is kept,
\* by either of its two commits.  A failed batch keeps what it has committed: that claims
\* were taken back, jobs promoted, claimed and claimed again, with the results before
\* that; but no observation of a job without the outcome of that job.
FailureKeepsNoHalf ==
  [][\A phase \in {"scheduler", "worker"} :
       Recorded(phase, "FAILURE") =>
         /\ runs'[Len(runs)].scheduler = "FAILURE" =>
              jobs' = begun.jobs /\ stored' = begun.stored
         /\ \A p \in stored' \ begun.stored : jobs'[p[1]] \notin {"CLAIMED", "RUNNING"}]_vars

\* collect_scheduler_metrics misses no job: each one that was pending, claimed, done
\* or failed when it began is in one of its counts, although jobs move from one to
\* another between its queries.
ScrapeMissesNoJob == scrape.step # "end"

\* A run of the scheduler ends, even if its provider never answers.
RunEnds == pc # "idle" ~> pc = "idle"
=============================================================================

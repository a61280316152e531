--------------------------- MODULE SchedulerCycle ---------------------------
(***************************************************************************)
(* Scheduler processes that run run_scheduler_cycle against one PostgreSQL *)
(* database (READ COMMITTED): the claim phase, the batch that follows, the *)
(* transactions both run in, and the in-memory Job objects of the session. *)
(*                                                                         *)
(* A cycle reads the clock once.  recover_expired, promote_due_waiting and *)
(* each claim commit on their own, and a claimed row is read again in the  *)
(* transaction that follows; the whole batch is one transaction that is    *)
(* committed after its last job.  Uncommitted writes are visible to     *)
(* their session only and lock their rows: another session's UPDATE of a   *)
(* row that its WHERE clause selects waits for the lock, and looks at the  *)
(* row again when it gets it.  Sessions that wait for each other in a      *)
(* circle are a deadlock, and the database aborts one of them.             *)
(*                                                                         *)
(* The refresh phase that precedes the claims only takes time here: what   *)
(* it enqueues is in the table from the start.                             *)
(***************************************************************************)
EXTENDS JobRow, Sequences, FiniteSets, SequencesExt

CONSTANTS
  Jobs,        \* rows of the table
  Processes,   \* scheduler processes, one session each
  WorkerId,    \* WorkerId[p]: the worker_id argument of p's cycles
  BatchSize,   \* settings.scheduler_batch_size
  InitialRows, \* rows the refresh phases before have left
  ResetAt,     \* reset times a provider may answer: instants, or Null
  MaxClock     \* bound on the clock

ASSUME CycleAssumption ==
  /\ IsFiniteSet(Jobs)
  /\ WorkerId \in [Processes -> Workers]
  /\ BatchSize \in Nat \ {0}
  /\ \A r \in InitialRows :
       /\ r.next_run_at \in Nat
       /\ r \in {PendingRow(r.next_run_at), WaitingRow(r.next_run_at)}
  /\ ResetAt \subseteq Nat \union {Null}
  /\ MaxClock \in Nat

VARIABLES
  jobs,     \* the committed table
  clock,    \* the present
  pc,       \* pc[p]: where process p is in its cycle
  now,      \* now[p]: the instant p's cycle started at; -1 before the first
  todo,     \* todo[p]: rows the recovery UPDATE of p has yet to visit
  cands,    \* cands[p]: ids the SELECT of claim_next returned, yet to be tried
  batch,    \* batch[p]: claimed jobs yet to be finished, the current one first
  obj,      \* obj[p][j]: the session's Job object, or Unloaded
  gen,      \* gen[p]: the local variable "generation" of IngestionRunner.process
  dirty,    \* dirty[p]: the rows p has written and not committed
  lastBy    \* history: the process whose claim or transition of j was committed last

vars == <<jobs, clock, pc, now, todo, cands, batch, obj, gen, dirty, lastBy>>

-----------------------------------------------------------------------------
PC == {"idle", "refresh", "recover", "promote", "select", "claim", "reread", "load",
       "reclaim", "decide", "fetching"}

\* What of a Job object the code reads: the row as it was when it was loaded.
Image(row) ==
  [status |-> row.status, generation |-> row.generation,
   attempt_count |-> row.attempt_count]

Images == [status : Status, generation : Nat, attempt_count : Nat]

\* No object, or one whose attributes are expired and read again when accessed.
Unloaded == [status |-> "ABSENT", generation |-> 0, attempt_count |-> 0]

Orderings(S) == {s \in [1 .. Cardinality(S) -> S] : IsInjective(s)}

TypeOK ==
  /\ jobs \in [Jobs -> Row]
  /\ clock \in 0 .. MaxClock
  /\ pc \in [Processes -> PC]
  /\ now \in [Processes -> -1 .. MaxClock]
  /\ \A p \in Processes :
       /\ todo[p] \in Seq(Jobs) /\ cands[p] \in Seq(Jobs) /\ batch[p] \in Seq(Jobs)
       /\ obj[p] \in [Jobs -> Images]
       /\ gen[p] \in Nat
       /\ DOMAIN dirty[p] \subseteq Jobs
       /\ \A j \in DOMAIN dirty[p] : dirty[p][j] \in Row
  /\ lastBy \in [Jobs -> Processes \union {Null}]

NoWrites == <<>>

Init ==
  /\ jobs \in [Jobs -> InitialRows]
  /\ clock = 0
  /\ pc = [p \in Processes |-> "idle"]
  /\ now = [p \in Processes |-> -1]
  /\ todo = [p \in Processes |-> <<>>]
  /\ cands = [p \in Processes |-> <<>>]
  /\ batch = [p \in Processes |-> <<>>]
  /\ obj = [p \in Processes |-> [j \in Jobs |-> Unloaded]]
  /\ gen = [p \in Processes |-> 0]
  /\ dirty = [p \in Processes |-> NoWrites]
  /\ lastBy = [j \in Jobs |-> Null]

-----------------------------------------------------------------------------
(* Sessions.                                                               *)

\* The row a statement of session p sees.
View(p, j) == IF j \in DOMAIN dirty[p] THEN dirty[p][j] ELSE jobs[j]

\* The sessions, p aside, that hold the row lock of j: at most one.
LockHolders(p, j) == {q \in Processes \ {p} : j \in DOMAIN dirty[q]}

\* The attributes of the Job object as the code reads them.
Loaded(p, j) == IF obj[p][j] = Unloaded THEN Image(View(p, j)) ELSE obj[p][j]

\* The committed table with the writes w.
Merged(w) == [j \in Jobs |-> IF j \in DOMAIN w THEN w[j] ELSE jobs[j]]

\* Whose claims and transitions the commit of p's writes w makes the last ones.
Author(p, w) == [j \in Jobs |-> IF j \in DOMAIN w THEN p ELSE lastBy[j]]

With(w, j, row) == [k \in DOMAIN w \union {j} |-> IF k = j THEN row ELSE w[k]]

\* The session ends: whatever it did not commit is gone, and so is its memory.
EndSession(p) ==
  /\ pc' = [pc EXCEPT ![p] = "idle"]
  /\ todo' = [todo EXCEPT ![p] = <<>>]
  /\ cands' = [cands EXCEPT ![p] = <<>>]
  /\ batch' = [batch EXCEPT ![p] = <<>>]
  /\ obj' = [obj EXCEPT ![p] = [j \in Jobs |-> Unloaded]]
  /\ gen' = [gen EXCEPT ![p] = 0]
  /\ dirty' = [dirty EXCEPT ![p] = NoWrites]

Goto(p, label) == pc' = [pc EXCEPT ![p] = label]

-----------------------------------------------------------------------------
(* The claim phase.                                                        *)

\* One cycle per instant and process.
StartCycle(p) ==
  /\ pc[p] = "idle" /\ now[p] < clock
  /\ now' = [now EXCEPT ![p] = clock]
  /\ Goto(p, "refresh")
  /\ UNCHANGED <<jobs, clock, todo, cands, batch, obj, gen, dirty, lastBy>>

\* The UPDATE of recover_expired finds its rows, in the order of the heap.
RecoverStart(p) ==
  /\ pc[p] = "refresh"
  /\ todo' \in {[todo EXCEPT ![p] = order] :
                  order \in Orderings({j \in Jobs : Expired(jobs[j], now[p])})}
  /\ Goto(p, "recover")
  /\ UNCHANGED <<jobs, clock, now, cands, batch, obj, gen, dirty, lastBy>>

\* Deliberate bug: it does not look again, it updates the rows it found by id.
RecoverRowBlind(p) ==
  /\ pc[p] = "recover" /\ todo[p] # <<>>
  /\ LET j == Head(todo[p])
     IN  /\ LockHolders(p, j) = {}
         /\ dirty' = [dirty EXCEPT ![p] = With(@, j, Recovered(jobs[j], now[p]))]
  /\ todo' = [todo EXCEPT ![p] = Tail(@)]
  /\ UNCHANGED <<jobs, clock, pc, now, cands, batch, obj, gen, lastBy>>

\* It waits for the lock of the next row, and then looks at the row again.
RecoverRow(p) ==
  /\ pc[p] = "recover" /\ todo[p] # <<>>
  /\ LET j == Head(todo[p])
     IN  /\ LockHolders(p, j) = {}
         /\ dirty' = IF Expired(jobs[j], now[p])
                       THEN [dirty EXCEPT ![p] = With(@, j, Recovered(jobs[j], now[p]))]
                       ELSE dirty
  /\ todo' = [todo EXCEPT ![p] = Tail(@)]
  /\ UNCHANGED <<jobs, clock, pc, now, cands, batch, obj, gen, lastBy>>

RecoverCommit(p) ==
  /\ pc[p] = "recover" /\ todo[p] = <<>>
  /\ jobs' = Merged(dirty[p])
  /\ dirty' = [dirty EXCEPT ![p] = NoWrites]
  /\ Goto(p, "promote")
  /\ UNCHANGED <<clock, now, todo, cands, batch, obj, gen, lastBy>>

\* No session locks a waiting row across a commit, so this never waits.
Promote(p) ==
  /\ pc[p] = "promote"
  /\ jobs' = [j \in Jobs |->
                IF DueWaiting(jobs[j], now[p]) THEN Promoted(jobs[j]) ELSE jobs[j]]
  /\ Goto(p, "select")
  /\ UNCHANGED <<clock, now, todo, cands, batch, obj, gen, dirty, lastBy>>

\* limit * 5
CandidateLimit == 5 * BatchSize

\* The first candidates, ordered by next_run_at and then by random ids.
Select(p) ==
  /\ pc[p] = "select"
  /\ \E order \in Orderings({j \in Jobs : /\ jobs[j].status = "PENDING"
                                         /\ jobs[j].next_run_at <= now[p]}) :
       /\ \A m, n \in DOMAIN order :
            m < n => jobs[order[m]].next_run_at <= jobs[order[n]].next_run_at
       /\ cands' = [cands EXCEPT ![p] =
                      IF Len(order) <= CandidateLimit THEN order
                                                      ELSE SubSeq(order, 1, CandidateLimit)]
  /\ Goto(p, "claim")
  /\ UNCHANGED <<jobs, clock, now, todo, batch, obj, gen, dirty, lastBy>>

\* The UPDATE and the commit of _try_claim_one, by session p with its writes.
TryClaimOne(p, j) ==
  LET claimed == With(dirty[p], j, Claimed(View(p, j), WorkerId[p], now[p]))
  IN  /\ LockHolders(p, j) = {}
      /\ Claimable(View(p, j))
      /\ jobs' = Merged(claimed)
      /\ lastBy' = Author(p, claimed)

ClaimCandidate(p) ==
  /\ pc[p] = "claim" /\ cands[p] # <<>> /\ Len(batch[p]) < BatchSize
  /\ \/ /\ TryClaimOne(p, Head(cands[p]))
        /\ Goto(p, "reread")
        /\ UNCHANGED cands
     \/ /\ ~Claimable(jobs[Head(cands[p])])
        /\ cands' = [cands EXCEPT ![p] = Tail(@)]
        /\ UNCHANGED <<jobs, pc, lastBy>>
  /\ UNCHANGED <<clock, now, todo, batch, obj, gen, dirty>>

\* The claimed job is read again whole (populate_existing), in a transaction that
\* sees what others have committed since the claim.
RereadCandidate(p) ==
  /\ pc[p] = "reread"
  /\ LET j == Head(cands[p])
     IN  /\ obj' = [obj EXCEPT ![p][j] = Image(jobs[j])]
         /\ batch' = [batch EXCEPT ![p] = Append(@, j)]
  /\ cands' = [cands EXCEPT ![p] = Tail(@)]
  /\ Goto(p, "claim")
  /\ UNCHANGED <<jobs, clock, now, todo, gen, dirty, lastBy>>

EndClaims(p) ==
  /\ pc[p] = "claim"
  /\ cands[p] = <<>> \/ Len(batch[p]) = BatchSize
  /\ cands' = [cands EXCEPT ![p] = <<>>]
  /\ Goto(p, "load")
  /\ UNCHANGED <<jobs, clock, now, todo, batch, obj, gen, dirty, lastBy>>
-----------------------------------------------------------------------------
(* The batch.                                                              *)

Current(p) == Head(batch[p])

\* The job is done with, in whatever way: the loop goes on to the next one.
NextJob(p) ==
  /\ batch' = [batch EXCEPT ![p] = Tail(@)]
  /\ gen' = [gen EXCEPT ![p] = 0]
  /\ Goto(p, "load")

\* The WHERE clause of _owned_transition selects the current job.
Selected(p, generation, statuses) ==
  OwnedBy(View(p, Current(p)), WorkerId[p], generation, statuses)

\* _owned_transition, successful: it waits for the row, and expires the object.
OwnedTransition(p, generation, statuses, row) ==
  LET j == Current(p)
  IN  /\ Selected(p, generation, statuses)
      /\ LockHolders(p, j) = {}
      /\ dirty' = [dirty EXCEPT ![p] = With(@, j, row)]
      /\ obj' = [obj EXCEPT ![p][j] = Unloaded]

\* Deliberate bug: the fenced job is tried again instead of skipped.
FencedRetry(p, generation, statuses) ==
  /\ ~Selected(p, generation, statuses)
  /\ obj' = [obj EXCEPT ![p] = [j \in Jobs |-> Unloaded]]
  /\ Goto(p, "load")
  /\ UNCHANGED <<dirty, batch, gen>>

\* _owned_transition, fenced: StaleJobClaimError, and every object of the
\* session is expired.  claim_and_process skips the job.
Fenced(p, generation, statuses) ==
  /\ ~Selected(p, generation, statuses)
  /\ obj' = [obj EXCEPT ![p] = [j \in Jobs |-> Unloaded]]
  /\ NextJob(p)
  /\ UNCHANGED dirty

\* The loop reads job.source and job.status: an expired object is loaded here.
Load(p) ==
  /\ pc[p] = "load" /\ batch[p] # <<>>
  /\ LET o == Loaded(p, Current(p))
     IN  /\ o.status # "PENDING"
         /\ obj' = [obj EXCEPT ![p][Current(p)] = o]
         /\ gen' = [gen EXCEPT ![p] = o.generation]
  /\ Goto(p, "decide")
  /\ UNCHANGED <<jobs, clock, now, todo, cands, batch, dirty, lastBy>>

\* A pending job is claimed anew (claim_job), which commits what the batch has
\* done so far; if it is no longer pending in the table, it is skipped.
ClaimAgain(p) ==
  /\ pc[p] = "load" /\ batch[p] # <<>>
  /\ Loaded(p, Current(p)).status = "PENDING"
  /\ dirty' = [dirty EXCEPT ![p] = NoWrites]
  /\ \/ /\ TryClaimOne(p, Current(p))
        /\ Goto(p, "reclaim")
        /\ UNCHANGED <<batch, gen>>
     \/ /\ ~Claimable(jobs[Current(p)])
        /\ jobs' = Merged(dirty[p])
        /\ lastBy' = Author(p, dirty[p])
        /\ NextJob(p)
  /\ UNCHANGED <<clock, now, todo, cands, obj>>

\* The job it claimed is read again, as above.
RereadAgain(p) ==
  /\ pc[p] = "reclaim"
  /\ LET o == Image(jobs[Current(p)])
     IN  /\ obj' = [obj EXCEPT ![p][Current(p)] = o]
         /\ gen' = [gen EXCEPT ![p] = o.generation]
  /\ Goto(p, "decide")
  /\ UNCHANGED <<jobs, clock, now, todo, cands, batch, dirty, lastBy>>

\* mark_failed with the object's attempt_count and the given generation.
Fail(p, generation) ==
  OwnedTransition(p, generation, Owned,
    Failed(View(p, Current(p)), Loaded(p, Current(p)).attempt_count, now[p]))

\* The adapter of the source cannot be resolved: the handler in the loop marks the
\* job failed.  If the fence rejects that, the exception leaves the loop, and
\* run_scheduler_cycle rolls the whole batch back.
AdapterFailure(p) ==
  /\ pc[p] = "load" /\ batch[p] # <<>>
  /\ LET generation == Loaded(p, Current(p)).generation
     IN  \/ /\ Fail(p, generation)
            /\ NextJob(p)
            /\ UNCHANGED <<todo, cands>>
         \/ /\ ~Selected(p, generation, Owned)
            /\ EndSession(p)
  /\ UNCHANGED <<jobs, clock, now, lastBy>>

\* No authorization, or a cursor that cannot be parsed.
Reject(p) ==
  /\ pc[p] = "decide"
  /\ \/ Fail(p, gen[p]) /\ NextJob(p)
     \/ Fenced(p, gen[p], Owned)
  /\ UNCHANGED <<jobs, clock, now, todo, cands, lastBy>>

DeferForQuota(p) ==
  /\ pc[p] = "decide"
  /\ \/ /\ \E resetAt \in ResetAt :
             OwnedTransition(p, gen[p], Owned,
                             Deferred(View(p, Current(p)), resetAt, now[p]))
        /\ NextJob(p)
     \/ Fenced(p, gen[p], Owned)
  /\ UNCHANGED <<jobs, clock, now, todo, cands, lastBy>>

\* Deliberate bug: RUNNING is committed before the provider is called.
MarkRunningCommitted(p) ==
  /\ pc[p] = "decide"
  /\ Selected(p, gen[p], {"CLAIMED"}) /\ LockHolders(p, Current(p)) = {}
  /\ jobs' = Merged(With(dirty[p], Current(p), Running(View(p, Current(p)))))
  /\ lastBy' = Author(p, With(dirty[p], Current(p), jobs[Current(p)]))
  /\ dirty' = [dirty EXCEPT ![p] = NoWrites]
  /\ obj' = [obj EXCEPT ![p][Current(p)] = Unloaded]
  /\ Goto(p, "fetching")
  /\ UNCHANGED <<clock, now, todo, cands, batch, gen>>

MarkRunning(p) ==
  /\ pc[p] = "decide"
  /\ \/ /\ OwnedTransition(p, gen[p], {"CLAIMED"}, Running(View(p, Current(p))))
        /\ Goto(p, "fetching")
        /\ UNCHANGED <<batch, gen>>
     \/ Fenced(p, gen[p], {"CLAIMED"})
  /\ UNCHANGED <<jobs, clock, now, todo, cands, lastBy>>

\* The provider fails or times out, the store raises, or every observation
\* received is malformed.
FetchFailed(p) ==
  /\ pc[p] = "fetching"
  /\ Fail(p, gen[p])
  /\ NextJob(p)
  /\ UNCHANGED <<jobs, clock, now, todo, cands, lastBy>>

\* The provider answers: assert_owned, the observations, mark_done.
FetchDone(p) ==
  /\ pc[p] = "fetching"
  /\ Selected(p, gen[p], Owned)
  /\ OwnedTransition(p, gen[p], {"RUNNING"}, Done(View(p, Current(p))))
  /\ NextJob(p)
  /\ UNCHANGED <<jobs, clock, now, todo, cands, lastBy>>

\* The commit after claim_and_process.
CommitBatch(p) ==
  /\ pc[p] = "load" /\ batch[p] = <<>>
  /\ jobs' = Merged(dirty[p])
  /\ lastBy' = Author(p, dirty[p])
  /\ EndSession(p)
  /\ UNCHANGED <<clock, now>>

-----------------------------------------------------------------------------
(* The database and the environment.                                       *)

\* The sessions p waits for: the holder of the row its recovery visits next, or
\* of the current job while its transition selects the committed row.
WaitsFor(p) ==
  CASE pc[p] = "recover" /\ todo[p] # <<>> -> LockHolders(p, Head(todo[p]))
    [] pc[p] = "decide" /\ Selected(p, gen[p], Owned) -> LockHolders(p, Current(p))
    [] OTHER -> {}

\* A circle of sessions, each waiting for the next: the database aborts the
\* statement of one, whose cycle then rolls back and exits with an error.
Deadlocked(p) ==
  \E circle \in SUBSET Processes :
    p \in circle /\ UNION {WaitsFor(q) : q \in circle} = circle

DeadlockAbort(p) ==
  /\ Deadlocked(p)
  /\ EndSession(p)
  /\ UNCHANGED <<jobs, clock, now, lastBy>>

\* The process dies at any point of its cycle; its transaction is rolled back.
Crash(p) ==
  /\ pc[p] # "idle"
  /\ EndSession(p)
  /\ UNCHANGED <<jobs, clock, now, lastBy>>

Tick ==
  /\ clock < MaxClock
  /\ clock' = clock + 1
  /\ UNCHANGED <<jobs, pc, now, todo, cands, batch, obj, gen, dirty, lastBy>>

\* The clock has reached its bound and every process has had its last cycle.
Rest ==
  /\ clock = MaxClock /\ \A p \in Processes : pc[p] = "idle" /\ now[p] = clock
  /\ UNCHANGED vars

\* The steps of a process that is alive.
CycleStep(p) ==
  \/ RecoverStart(p) \/ RecoverRow(p) \/ RecoverCommit(p) \/ Promote(p)
  \/ Select(p) \/ ClaimCandidate(p) \/ RereadCandidate(p) \/ EndClaims(p)
  \/ Load(p) \/ ClaimAgain(p) \/ RereadAgain(p) \/ AdapterFailure(p)
  \/ Reject(p) \/ DeferForQuota(p) \/ MarkRunning(p)
  \/ FetchFailed(p) \/ FetchDone(p) \/ CommitBatch(p)
  \/ DeadlockAbort(p)

Next ==
  \/ \E p \in Processes : StartCycle(p) \/ CycleStep(p) \/ Crash(p)
  \/ Tick
  \/ Rest

Spec == Init /\ [][Next]_vars

\* A live process keeps running, a provider call ends (its deadline does), and
\* the database detects deadlocks and grants row locks.
Fairness == \A p \in Processes : WF_vars(CycleStep(p))

FairSpec == Spec /\ Fairness

-----------------------------------------------------------------------------
(* Properties.                                                             *)

\* RUNNING is never visible outside its session: mark_running and the transition
\* that ends the job are in one transaction, even when claim_job commits half-way
\* through the batch.  Whoever counts CLAIMED jobs (JobQueue.depth) counts these.
RunningNotVisible == \A j \in Jobs : jobs[j].status # "RUNNING"

\* Rows of the committed table and of the uncommitted writes alike keep the retry
\* budget and say who owns them.
RowsConsistent ==
  \A j \in Jobs :
    /\ Ownership(jobs[j]) /\ Budget(jobs[j])
    /\ \A p \in Processes : Ownership(View(p, j)) /\ Budget(View(p, j))

\* A commit never overwrites newer work: what is done or failed stays, generations
\* only grow, and one commit uses up at most one attempt of a job.
CommitsMoveForward ==
  [][\A j \in Jobs :
       /\ jobs[j].status \in Terminal => jobs'[j] = jobs[j]
       /\ jobs'[j].generation >= jobs[j].generation
       /\ jobs'[j].attempt_count - jobs[j].attempt_count \in {0, 1}]_vars

\* A cycle that started ends, whatever the other processes do: no process waits
\* for a row lock, or goes through its batch, for ever.
CyclesEnd == \A p \in Processes : pc[p] # "idle" ~> pc[p] = "idle"

-----------------------------------------------------------------------------
(* What the documents say of the scheduler.                                *)

\* "Recovery SHALL fence former claim owners from later state transitions": the
\* batch of a process writes only rows of jobs that process was last to claim.
FormerClaimantFenced ==
  \A p \in Processes, j \in Jobs :
    pc[p] # "recover" /\ j \in DOMAIN dirty[p] => lastBy[j] = p

-----------------------------------------------------------------------------
\* With a worker id of its own for every process the committed table, under the
\* transactions of the scheduler, implements the same lease as JobQueue: a batch
\* commits only changes that its process may make, and makes them only once.
LeaseOf(row) ==
  CASE row.status = "ABSENT" -> "absent"
    [] row.status \in {"PENDING", "WAITING_FOR_PUBLICATION"} -> "open"
    [] row.status \in Owned -> "held"
    [] row.status = "DONE" -> "done"
    [] OTHER -> "failed"

Abstract == INSTANCE JobLease WITH
  Holders <- Processes,
  None    <- Null,
  phase   <- [j \in Jobs |-> LeaseOf(jobs[j])],
  holder  <- lastBy,
  spent   <- [j \in Jobs |-> jobs[j].attempt_count]

ImplementsLease == Abstract!Spec
=============================================================================

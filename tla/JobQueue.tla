------------------------------ MODULE JobQueue ------------------------------
(***************************************************************************)
(* The persistent queue as its callers see it: the jobs table, several     *)
(* processes that run the methods of class JobQueue on it, and one         *)
(* transaction per statement.  Each method is one conditional statement on *)
(* the table, so each is one action; the claim is two, because it commits  *)
(* its UPDATE and then reads the row again in a transaction of its own.    *)
(*                                                                         *)
(* A process keeps, for each job, the Job object that its last claim       *)
(* returned: of that object the generation and attempt_count matter, since *)
(* the fence and mark_failed read them later.  Every caller passes its own *)
(* "now": any instant up to the present one, because the scheduler reads   *)
(* the clock once per cycle.  Processes may share a worker id, as those    *)
(* started by entrypoints/scheduler.py do.                                 *)
(***************************************************************************)
EXTENDS JobRow

CONSTANTS
  Jobs,          \* dedupe keys, one row each
  Processes,     \* processes that run the queue's methods
  WorkerId,      \* WorkerId[p]: the worker id process p passes
  ResetAt,       \* reset times a provider may answer: instants, or Null
  RetryAt,       \* retry times of a caller of mark_waiting_for_publication
  MaxClock,      \* bound on the clock
  MaxGeneration  \* bound on the number of claims of one job

ASSUME ProcessesAssumption ==
  /\ Processes # {}
  /\ WorkerId \in [Processes -> Workers]
  /\ Null \notin Jobs

ASSUME BoundsAssumption ==
  /\ ResetAt \subseteq Nat \union {Null}
  /\ RetryAt \subseteq Nat
  /\ MaxClock \in Nat
  /\ MaxGeneration \in Nat

VARIABLES
  jobs,     \* the table
  reading,  \* reading[p]: the job whose claim p has committed and not read again, or Null
  handle,   \* handle[p][j]: what process p remembers of its claim of job j
  won,      \* history: won[p][j] is the generation that p's last claim of j wrote
  lastBy,   \* history: lastBy[j] is the worker id that claimed or moved j last
  clock     \* the present

vars == <<jobs, reading, handle, won, lastBy, clock>>

-----------------------------------------------------------------------------
Handle == [generation : Nat, attempt_count : Nat]

\* No claim: claims number their generations from 1.
NoHandle == [generation |-> 0, attempt_count |-> 0]

TypeOK ==
  /\ jobs \in [Jobs -> Row]
  /\ reading \in [Processes -> Jobs \union {Null}]
  /\ handle \in [Processes -> [Jobs -> Handle]]
  /\ won \in [Processes -> [Jobs -> Nat]]
  /\ lastBy \in [Jobs -> Workers \union {Null}]
  /\ clock \in Nat

Init ==
  /\ jobs = [j \in Jobs |-> NoRow]
  /\ reading = [p \in Processes |-> Null]
  /\ handle = [p \in Processes |-> [j \in Jobs |-> NoHandle]]
  /\ won = [p \in Processes |-> [j \in Jobs |-> 0]]
  /\ lastBy = [j \in Jobs |-> Null]
  /\ clock = 0

-----------------------------------------------------------------------------
(* Producers.                                                              *)

\* enqueue_idempotent: inserts the row, or returns the one that is there.
Enqueue(j, now) ==
  /\ jobs' = [jobs EXCEPT ![j] = Inserted(@, PendingRow(now))]
  /\ UNCHANGED <<reading, handle, won, lastBy, clock>>

\* The dispatcher's job for sessions whose value is not published yet.
EnqueueWaiting(j, runAt) ==
  /\ jobs' = [jobs EXCEPT ![j] = Inserted(@, WaitingRow(runAt))]
  /\ UNCHANGED <<reading, handle, won, lastBy, clock>>

-----------------------------------------------------------------------------
(* The three statements of claim_next, also run by claim_job (the last).   *)

\* One UPDATE over every expired claim.
RecoverExpired(now) ==
  /\ jobs' = [j \in Jobs |->
                IF Expired(jobs[j], now) THEN Recovered(jobs[j], now) ELSE jobs[j]]
  /\ UNCHANGED <<reading, handle, won, lastBy, clock>>

\* One UPDATE over every publication-waiting job that is due.
PromoteDueWaiting(now) ==
  /\ jobs' = [j \in Jobs |->
                IF DueWaiting(jobs[j], now) THEN Promoted(jobs[j]) ELSE jobs[j]]
  /\ UNCHANGED <<reading, handle, won, lastBy, clock>>

\* The claim: one UPDATE, committed.
TryClaimOne(p, j, now) ==
  /\ Claimable(jobs[j])
  /\ jobs[j].generation < MaxGeneration
  /\ jobs' = [jobs EXCEPT ![j] = Claimed(@, WorkerId[p], now)]
  /\ reading' = [reading EXCEPT ![p] = j]
  /\ won' = [won EXCEPT ![p][j] = jobs[j].generation + 1]
  /\ lastBy' = [lastBy EXCEPT ![j] = WorkerId[p]]
  /\ UNCHANGED <<handle, clock>>

\* Deliberate bug: the caller's Job object is not refreshed (no populate_existing),
\* it only learns the generation.
RereadStale(p, j) ==
  /\ reading[p] = j
  /\ reading' = [reading EXCEPT ![p] = Null]
  /\ handle' = [handle EXCEPT ![p][j].generation = jobs[j].generation]
  /\ UNCHANGED <<jobs, won, lastBy, clock>>

\* The refresh of the caller's Job object: the row as it is by now, whatever has
\* become of the claim in between.
Reread(p, j) ==
  /\ reading[p] = j
  /\ reading' = [reading EXCEPT ![p] = Null]
  /\ handle' = [handle EXCEPT ![p][j] = [generation    |-> jobs[j].generation,
                                         attempt_count |-> jobs[j].attempt_count]]
  /\ UNCHANGED <<jobs, won, lastBy, clock>>

\* The refresh fails on a lock: _retry_on_lock starts again at the UPDATE, which
\* finds a row that is not PENDING.  The claim is nobody's until its lease expires.
RereadFails(p) ==
  /\ reading[p] # Null
  /\ reading' = [reading EXCEPT ![p] = Null]
  /\ UNCHANGED <<jobs, handle, won, lastBy, clock>>

-----------------------------------------------------------------------------
(* Transitions of an owner.  A caller the fence rejects gets               *)
(* StaleJobClaimError, and the table stays as it is.                       *)

Owns(p, j, statuses) ==
  OwnedBy(jobs[j], WorkerId[p], handle[p][j].generation, statuses)

\* _owned_transition
OwnedTransition(p, j, statuses, row) ==
  /\ Owns(p, j, statuses)
  /\ jobs' = [jobs EXCEPT ![j] = row]
  /\ lastBy' = [lastBy EXCEPT ![j] = WorkerId[p]]
  /\ UNCHANGED <<reading, handle, won, clock>>

MarkRunning(p, j) == OwnedTransition(p, j, {"CLAIMED"}, Running(jobs[j]))

MarkDone(p, j) == OwnedTransition(p, j, {"RUNNING"}, Done(jobs[j]))

MarkWaiting(p, j, retryAt) ==
  OwnedTransition(p, j, Owned, Waiting(jobs[j], retryAt))

DeferForQuota(p, j, resetAt, now) ==
  OwnedTransition(p, j, Owned, Deferred(jobs[j], resetAt, now))

MarkFailed(p, j, now) ==
  OwnedTransition(p, j, Owned, Failed(jobs[j], handle[p][j].attempt_count, now))

-----------------------------------------------------------------------------
(* The environment.                                                        *)

\* A process dies: what it remembers is lost, what it committed is not.
Crash(p) ==
  /\ reading' = [reading EXCEPT ![p] = Null]
  /\ handle' = [handle EXCEPT ![p] = [j \in Jobs |-> NoHandle]]
  /\ won' = [won EXCEPT ![p] = [j \in Jobs |-> 0]]
  /\ UNCHANGED <<jobs, lastBy, clock>>

Tick ==
  /\ clock < MaxClock
  /\ clock' = clock + 1
  /\ UNCHANGED <<jobs, reading, handle, won, lastBy>>

\* A process in the middle of a claim runs no other method.
Free(p) == reading[p] = Null

Next ==
  \/ Tick
  \/ \E p \in Processes :
       \/ Crash(p)
       \/ RereadFails(p)
       \/ \E j \in Jobs : Reread(p, j)
  \/ \E p \in Processes :
       /\ Free(p)
       /\ \/ \E now \in 0 .. clock : RecoverExpired(now) \/ PromoteDueWaiting(now)
          \/ \E j \in Jobs :
               \/ \E now \in 0 .. clock :
                    Enqueue(j, now) \/ TryClaimOne(p, j, now) \/ MarkFailed(p, j, now)
               \/ MarkRunning(p, j)
               \/ MarkDone(p, j)
               \/ \E retryAt \in RetryAt :
                    EnqueueWaiting(j, retryAt) \/ MarkWaiting(p, j, retryAt)
               \/ \E resetAt \in ResetAt, now \in 0 .. clock :
                    DeferForQuota(p, j, resetAt, now)

Spec == Init /\ [][Next]_vars

-----------------------------------------------------------------------------
(* Properties.                                                             *)

\* Recovery and the fence can see every owned row (Ownership, in JobRow).
OwnershipRecorded == \A j \in Jobs : Ownership(jobs[j])

\* The process was too late: between its claim and its refresh the job was taken
\* away, and what it remembers is not the claim it made.
Torn(p, j) == handle[p][j].generation # won[p][j]

\* Two processes pass the fence for one job (the WHERE clause of _owned_transition)
\* only under one worker id, and only when at least one of them remembers the claim
\* of the other because it was too late.  Of the claims remembered as they were made,
\* over all processes and all times, at most one passes.
AtMostOneLiveClaim ==
  \A j \in Jobs, p, q \in Processes :
    p # q /\ Owns(p, j, Owned) /\ Owns(q, j, Owned) =>
      WorkerId[p] = WorkerId[q] /\ (Torn(p, j) \/ Torn(q, j))

\* A claim that still passes the fence, torn or not, remembers the attempt_count of
\* its row, so mark_failed, which writes the remembered count plus one, loses no attempt and
\* counts none twice.
LiveClaimCountsAttempts ==
  \A j \in Jobs, p \in Processes :
    Owns(p, j, Owned) => handle[p][j].attempt_count = jobs[j].attempt_count

\* The retry budget of every row (Budget, in JobRow): FAILED exactly when the
\* attempts are used up, and every attempt paid by a claim of its own.
AttemptsPaidByClaims == \A j \in Jobs : Budget(jobs[j])

\* The table implements the abstract lease: whatever the processes call, and in
\* whatever order, a job changes hands only as JobLease allows.  The lease is given
\* to a worker id: nobody with another id moves the job, however late it is.
LeaseOf(row) ==
  CASE row.status = "ABSENT" -> "absent"
    [] row.status \in {"PENDING", "WAITING_FOR_PUBLICATION"} -> "open"
    [] row.status \in Owned -> "held"
    [] row.status = "DONE" -> "done"
    [] OTHER -> "failed"

Abstract == INSTANCE JobLease WITH
  Holders <- Workers,
  None    <- Null,
  phase   <- [j \in Jobs |-> LeaseOf(jobs[j])],
  holder  <- lastBy,
  spent   <- [j \in Jobs |-> jobs[j].attempt_count]

ImplementsLease == Abstract!Spec

-----------------------------------------------------------------------------
(* The inductive invariant behind the properties: what each row satisfies, *)
(* and how the claims the processes remember relate to the rows.           *)

RowInv(row) ==
  /\ row \in Row
  /\ row.status = "ABSENT" => row = NoRow
  /\ Ownership(row)
  /\ Budget(row)

\* An owned row belongs to the worker id that moved it last.
OwnersInv ==
  \A j \in Jobs : jobs[j].status \in Owned => jobs[j].claimed_by = lastBy[j]

\* No claim is ahead of its row; no two claims wrote one generation; and who knows
\* the generation of an owned row knows its attempt_count.
ClaimsInv ==
  \A j \in Jobs, p \in Processes :
    /\ handle[p][j].generation <= jobs[j].generation
    /\ won[p][j] <= jobs[j].generation
    /\ \A q \in Processes : p # q /\ won[p][j] = won[q][j] => won[p][j] = 0
    /\ jobs[j].status \in Owned /\ handle[p][j].generation = jobs[j].generation =>
         handle[p][j].attempt_count = jobs[j].attempt_count

IInv ==
  /\ TypeOK
  /\ \A j \in Jobs : RowInv(jobs[j])
  /\ OwnersInv
  /\ ClaimsInv
=============================================================================

------------------------------- MODULE JobRow -------------------------------
(***************************************************************************)
(* One row of the "jobs" table and what each SQL statement of the queue    *)
(* does to it: for every statement its WHERE clause (a predicate on the    *)
(* row) and its SET clause (an operator from row to row).  The module has  *)
(* no variables.  JobQueue runs the statements one per transaction,        *)
(* SchedulerCycle runs them inside the transactions of the scheduler.      *)
(*                                                                         *)
(* Columns that no statement tests (job_type, source, cursor, timestamps   *)
(* of creation and update) are left out, and so is the text of last_error: *)
(* what is kept of it is whether it is NULL, and whether it says that a    *)
(* lease expired.                                                          *)
(***************************************************************************)
EXTENDS Integers

CONSTANTS
  Workers,      \* the values of claimed_by (worker ids)
  Null,         \* SQL NULL
  Lease,        \* settings.job_lease_seconds
  MaxAttempts,  \* max_attempts, the same for every job enqueued by src/
  BackoffBase,  \* _BACKOFF_BASE_SECONDS
  BackoffCap,   \* _BACKOFF_CAP_SECONDS
  QuotaDefer    \* _DEFAULT_QUOTA_DEFER_SECONDS

ASSUME NullAssumption ==
  /\ Null \notin Nat
  /\ Null \notin Workers

ASSUME LimitsAssumption ==
  /\ Lease \in Nat
  /\ MaxAttempts \in Nat \ {0}
  /\ BackoffBase \in Nat
  /\ BackoffCap \in Nat
  /\ QuotaDefer \in Nat

-----------------------------------------------------------------------------
\* "ABSENT" is the row that has not been inserted yet; the others are JobStatus.
Status ==
  {"ABSENT", "PENDING", "CLAIMED", "RUNNING", "WAITING_FOR_PUBLICATION",
   "DONE", "FAILED"}

Owned == {"CLAIMED", "RUNNING"}
Terminal == {"DONE", "FAILED"}

Row ==
  [status        : Status,
   attempt_count : Nat,
   next_run_at   : Nat,
   claimed_by    : Workers \union {Null},
   claimed_at    : Nat \union {Null},
   generation    : Nat,
   last_error    : {Null, "claim_lease_expired", "failure"}]

NoRow ==
  [status        |-> "ABSENT",
   attempt_count |-> 0,
   next_run_at   |-> 0,
   claimed_by    |-> Null,
   claimed_at    |-> Null,
   generation    |-> 0,
   last_error    |-> Null]

-----------------------------------------------------------------------------
\* min(base * 2 ** (n - 1), cap), and 0 when nothing has failed yet.
BackoffSeconds(n) ==
  LET delay == BackoffBase * 2 ^ (n - 1)
  IN  IF n <= 0 THEN 0 ELSE IF delay \in 0 .. BackoffCap THEN delay ELSE BackoffCap

\* INSERT of a new job, and of a job whose session has no published value yet:
\* the dispatcher overwrites the status of the row it has just created.
PendingRow(runAt) == [NoRow EXCEPT !.status = "PENDING", !.next_run_at = runAt]
WaitingRow(runAt) ==
  [NoRow EXCEPT !.status = "WAITING_FOR_PUBLICATION", !.next_run_at = runAt]

\* Deliberate bug: an upsert.
InsertedUpsert(row, new) == new

\* A row another transaction has inserted stays as it is: the unique constraint
\* on dedupe_key turns the INSERT into an IntegrityError and a SELECT.
Inserted(row, new) == IF row.status = "ABSENT" THEN new ELSE row

-----------------------------------------------------------------------------
\* recover_expired
Expired(row, now) ==
  /\ row.status \in Owned
  /\ row.claimed_at # Null
  /\ row.claimed_at <= now - Lease

\* Deliberate bug: one attempt too many.
ExhaustedLate(attempts) == attempts > MaxAttempts

Exhausted(attempts) == attempts >= MaxAttempts

\* Deliberate bug: the recovered row still says who claimed it.
RecoveredStillClaimed(row, now) ==
  [row EXCEPT
     !.status        = IF Exhausted(row.attempt_count + 1) THEN "FAILED" ELSE "PENDING",
     !.attempt_count = row.attempt_count + 1,
     !.next_run_at   = now,
     !.generation    = row.generation + 1,
     !.last_error    = "claim_lease_expired"]

Recovered(row, now) ==
  [row EXCEPT
     !.status        = IF Exhausted(row.attempt_count + 1) THEN "FAILED" ELSE "PENDING",
     !.attempt_count = row.attempt_count + 1,
     !.next_run_at   = now,
     !.claimed_by    = Null,
     !.claimed_at    = Null,
     !.generation    = row.generation + 1,
     !.last_error    = "claim_lease_expired"]

\* promote_due_waiting
DueWaiting(row, now) ==
  /\ row.status = "WAITING_FOR_PUBLICATION"
  /\ row.next_run_at <= now

Promoted(row) == [row EXCEPT !.status = "PENDING"]

\* _try_claim_one: next_run_at is tested by the SELECT of claim_next, not here.
Claimable(row) == row.status = "PENDING"

\* Deliberate bugs: the claim does not start a generation, or a lease.
ClaimedSameGeneration(row, worker, now) ==
  [row EXCEPT !.status = "CLAIMED", !.claimed_by = worker, !.claimed_at = now]
ClaimedUntimed(row, worker, now) ==
  [row EXCEPT !.status = "CLAIMED", !.claimed_by = worker, !.generation = @ + 1]

Claimed(row, worker, now) ==
  [row EXCEPT
     !.status     = "CLAIMED",
     !.claimed_by = worker,
     !.claimed_at = now,
     !.generation = row.generation + 1]

-----------------------------------------------------------------------------
\* Deliberate bug: the worker id alone identifies the owner.
OwnedByWorker(row, worker, generation, statuses) ==
  row.status \in statuses /\ row.claimed_by = worker

\* Deliberate bug: the generation alone does.
OwnedByGeneration(row, worker, generation, statuses) ==
  row.status \in statuses /\ row.generation = generation

\* _owned_transition: the fence every transition of an owner goes through.
OwnedBy(row, worker, generation, statuses) ==
  /\ row.status \in statuses
  /\ row.claimed_by = worker
  /\ row.generation = generation

Running(row) == [row EXCEPT !.status = "RUNNING"]

Done(row) == [row EXCEPT !.status = "DONE", !.last_error = Null]

Waiting(row, retryAt) ==
  [row EXCEPT
     !.status      = "WAITING_FOR_PUBLICATION",
     !.next_run_at = retryAt,
     !.last_error  = Null,
     !.claimed_by  = Null,
     !.claimed_at  = Null]

\* Deliberate bug: no default for an unknown reset time.
DeferredWithoutDefault(row, resetAt, now) ==
  [row EXCEPT !.status = "PENDING", !.next_run_at = resetAt, !.last_error = Null,
              !.claimed_by = Null, !.claimed_at = Null]

\* resetAt is Null when the provider does not know when its quota is reset.
Deferred(row, resetAt, now) ==
  [row EXCEPT
     !.status      = "PENDING",
     !.next_run_at = IF resetAt = Null THEN now + QuotaDefer ELSE resetAt,
     !.last_error  = Null,
     !.claimed_by  = Null,
     !.claimed_at  = Null]

\* Deliberate bug: the backoff is subtracted.
FailedInThePast(row, attempts, now) ==
  [row EXCEPT !.attempt_count = attempts + 1, !.last_error = "failure",
              !.status = IF Exhausted(attempts + 1) THEN "FAILED" ELSE "PENDING",
              !.next_run_at = now - BackoffSeconds(attempts + 1),
              !.claimed_by = Null, !.claimed_at = Null]

\* The new count is computed from the caller's copy of attempt_count, not from
\* the column.
Failed(row, attempts, now) ==
  [row EXCEPT
     !.attempt_count = attempts + 1,
     !.last_error    = "failure",
     !.status        = IF Exhausted(attempts + 1) THEN "FAILED" ELSE "PENDING",
     !.next_run_at   = now + BackoffSeconds(attempts + 1),
     !.claimed_by    = Null,
     !.claimed_at    = Null]
-----------------------------------------------------------------------------
(* What every row of the table satisfies.                                  *)

\* What must agree for recovery and the fence to see a row at all: a row some
\* worker owns says who owns it and since when, and no other row that may still
\* run says so.  A row in an owned status with a NULL claimed_at would never be
\* recovered (recover_expired compares claimed_at, and NULL <= x is not true).
Ownership(row) ==
  /\ row.status \in Owned => row.claimed_by # Null /\ row.claimed_at # Null
  /\ row.status \notin Owned \union {"DONE"} =>
       row.claimed_by = Null /\ row.claimed_at = Null

\* The retry budget (mark_failed and recover_expired): a job has failed for good
\* exactly when its attempts are used up, every attempt took a claim of its own,
\* and a claim in progress has not been paid for yet.
Budget(row) ==
  /\ row.status = "FAILED" <=> row.attempt_count >= MaxAttempts
  /\ row.attempt_count <= MaxAttempts
  /\ row.attempt_count <= row.generation
  /\ row.status \in Owned => row.attempt_count < row.generation
=============================================================================

--------------------------- MODULE JobQueueProofs ---------------------------
(***************************************************************************)
(* Proofs about JobQueue.  Every statement of the queue changes rows       *)
(* independently, so the argument is about one row first: each SET clause  *)
(* keeps the row invariant, and none but the claim puts a row in the hands *)
(* of a new owner.  The invariant of the whole table and of the remembered *)
(* claims follows, and from it the fence, the retry budget and the         *)
(* refinement of JobLease.                                                 *)
(***************************************************************************)
EXTENDS JobQueue, TLAPS

USE DEF Owned

-----------------------------------------------------------------------------
(* One row.                                                                *)

\* The backoff is a number of seconds between 0 and the cap, whatever the number
\* of attempts (backoff_seconds).
LEMMA BackoffBounded ==
  ASSUME NEW n \in Nat
  PROVE  BackoffSeconds(n) \in 0 .. BackoffCap
BY LimitsAssumption DEF BackoffSeconds

\* A change of a row that does not make it owned, nor touches the generation, the
\* attempt_count and the owner of an owned row that stays owned.
Quiet(row, new) ==
  /\ row.generation <= new.generation
  /\ new.status \in Owned =>
       /\ row.status \in Owned
       /\ row.generation = new.generation
       /\ row.attempt_count = new.attempt_count
       /\ row.claimed_by = new.claimed_by

\* The INSERTs of enqueue_idempotent and of the dispatcher.
LEMMA InsertQuiet ==
  ASSUME NEW row, RowInv(row), NEW runAt \in Nat
  PROVE  /\ RowInv(Inserted(row, PendingRow(runAt)))
         /\ Quiet(row, Inserted(row, PendingRow(runAt)))
         /\ RowInv(Inserted(row, WaitingRow(runAt)))
         /\ Quiet(row, Inserted(row, WaitingRow(runAt)))
<1>1. /\ PendingRow(runAt) \in Row /\ PendingRow(runAt).status = "PENDING"
      /\ WaitingRow(runAt) \in Row /\ WaitingRow(runAt).status = "WAITING_FOR_PUBLICATION"
  BY DEF PendingRow, WaitingRow, NoRow, Row, Status
<1>2. \A r \in {PendingRow(runAt), WaitingRow(runAt)} :
        r.attempt_count = 0 /\ r.generation = 0 /\ r.claimed_by = Null /\ r.claimed_at = Null
  BY DEF PendingRow, WaitingRow, NoRow
<1>3. RowInv(PendingRow(runAt)) /\ RowInv(WaitingRow(runAt))
  BY <1>1, <1>2, LimitsAssumption DEF RowInv, Ownership, Budget
<1>4. Quiet(row, row)
  BY DEF Quiet, RowInv, Row
<1>5. ASSUME row.status = "ABSENT"
      PROVE  Quiet(row, PendingRow(runAt)) /\ Quiet(row, WaitingRow(runAt))
  <2>1. row.generation = 0
    BY <1>5 DEF RowInv, NoRow
  <2>2. QED
    BY <1>1, <1>2, <2>1 DEF Quiet
<1>6. QED
  BY <1>3, <1>4, <1>5 DEF Inserted

\* recover_expired on one row.
LEMMA RecoverQuiet ==
  ASSUME NEW row, RowInv(row), NEW now \in Nat, Expired(row, now)
  PROVE  RowInv(Recovered(row, now)) /\ Quiet(row, Recovered(row, now))
<1> DEFINE new == Recovered(row, now)
<1>1. /\ row.attempt_count \in Nat /\ row.generation \in Nat
      /\ row.attempt_count + 1 \in Nat /\ row.generation + 1 \in Nat
  BY DEF RowInv, Row
<1>2. new \in Row
  BY <1>1 DEF Recovered, RowInv, Row, Status
<1>3. /\ new.attempt_count = row.attempt_count + 1
      /\ new.generation = row.generation + 1
      /\ new.claimed_by = Null
      /\ new.claimed_at = Null
  BY <1>1 DEF Recovered, RowInv, Row, Status
<1>4. new.status = IF Exhausted(row.attempt_count + 1) THEN "FAILED" ELSE "PENDING"
  BY <1>1 DEF Recovered, RowInv, Row, Status
<1>5. row.attempt_count < MaxAttempts /\ row.attempt_count < row.generation
  BY LimitsAssumption DEF RowInv, Row, Budget, Expired
<1> SUFFICES RowInv(new) /\ Quiet(row, new)
  OBVIOUS
<1> HIDE DEF new
<1>6. CASE row.attempt_count + 1 >= MaxAttempts
  BY <1>1, <1>2, <1>3, <1>4, <1>5, <1>6, LimitsAssumption
     DEF RowInv, Ownership, Budget, Quiet, Exhausted
<1>7. CASE ~(row.attempt_count + 1 >= MaxAttempts)
  BY <1>1, <1>2, <1>3, <1>4, <1>5, <1>7, LimitsAssumption
     DEF RowInv, Ownership, Budget, Quiet, Exhausted
<1>8. QED
  BY <1>6, <1>7

\* promote_due_waiting on one row.
LEMMA PromoteQuiet ==
  ASSUME NEW row, RowInv(row), NEW now \in Nat, DueWaiting(row, now)
  PROVE  RowInv(Promoted(row)) /\ Quiet(row, Promoted(row))
BY LimitsAssumption
   DEF DueWaiting, Promoted, RowInv, Row, Status, Ownership, Budget, Quiet

\* The transitions of an owner, the caller's copy of attempt_count being right.
LEMMA RunningQuiet ==
  ASSUME NEW row, RowInv(row), row.status \in Owned
  PROVE  RowInv(Running(row)) /\ Quiet(row, Running(row))
<1>1. /\ Running(row) \in Row
      /\ Running(row).status = "RUNNING"
      /\ Running(row).attempt_count = row.attempt_count
      /\ Running(row).generation = row.generation
      /\ Running(row).claimed_by = row.claimed_by
      /\ Running(row).claimed_at = row.claimed_at
  BY DEF Running, RowInv, Row, Status
<1>2. row.attempt_count \in Nat /\ row.generation \in Nat
  BY DEF RowInv, Row
<1>3. QED
  BY <1>1, <1>2, LimitsAssumption DEF RowInv, Ownership, Budget, Quiet

\* mark_done is an ordinary change of a claimed row.
LEMMA DoneQuiet ==
  ASSUME NEW row, RowInv(row), row.status \in Owned
  PROVE  RowInv(Done(row)) /\ Quiet(row, Done(row))
<1>1. /\ Done(row) \in Row
      /\ Done(row).status = "DONE"
      /\ Done(row).attempt_count = row.attempt_count
      /\ Done(row).generation = row.generation
      /\ Done(row).claimed_by = row.claimed_by
      /\ Done(row).claimed_at = row.claimed_at
  BY DEF Done, RowInv, Row, Status
<1>2. row.attempt_count \in Nat /\ row.generation \in Nat
  BY DEF RowInv, Row
<1>3. QED
  BY <1>1, <1>2, LimitsAssumption DEF RowInv, Ownership, Budget, Quiet

\* mark_waiting_for_publication is an ordinary change of a claimed row.
LEMMA WaitingQuiet ==
  ASSUME NEW row, RowInv(row), row.status \in Owned, NEW at \in Nat
  PROVE  RowInv(Waiting(row, at)) /\ Quiet(row, Waiting(row, at))
<1> DEFINE new == Waiting(row, at)
<1>1. /\ new \in Row
      /\ new.status = "WAITING_FOR_PUBLICATION"
      /\ new.attempt_count = row.attempt_count
      /\ new.generation = row.generation
      /\ new.claimed_by = Null
      /\ new.claimed_at = Null
  BY DEF Waiting, RowInv, Row, Status
<1>2. row.attempt_count \in Nat /\ row.generation \in Nat
  BY DEF RowInv, Row
<1> SUFFICES RowInv(new) /\ Quiet(row, new)
  OBVIOUS
<1> HIDE DEF new
<1>3. QED
  BY <1>1, <1>2, LimitsAssumption DEF RowInv, Ownership, Budget, Quiet

\* defer_for_quota is an ordinary change of a claimed row: it uses up no attempt.
LEMMA DeferredQuiet ==
  ASSUME NEW row, RowInv(row), row.status \in Owned,
         NEW resetAt \in Nat \union {Null}, NEW now \in Nat
  PROVE  RowInv(Deferred(row, resetAt, now)) /\ Quiet(row, Deferred(row, resetAt, now))
<1> DEFINE at == IF resetAt = Null THEN now + QuotaDefer ELSE resetAt
<1>1. at \in Nat
  BY LimitsAssumption
<1> DEFINE new == Deferred(row, resetAt, now)
<1>2. /\ new \in Row
      /\ new.status = "PENDING"
      /\ new.attempt_count = row.attempt_count
      /\ new.generation = row.generation
      /\ new.claimed_by = Null
      /\ new.claimed_at = Null
  BY <1>1 DEF Deferred, RowInv, Row, Status
<1>3. row.attempt_count \in Nat /\ row.generation \in Nat
  BY DEF RowInv, Row
<1> SUFFICES RowInv(new) /\ Quiet(row, new)
  OBVIOUS
<1> HIDE DEF new
<1>4. QED
  BY <1>2, <1>3, LimitsAssumption DEF RowInv, Ownership, Budget, Quiet

\* mark_failed is an ordinary change of a claimed row: it uses up one attempt.
LEMMA FailedQuiet ==
  ASSUME NEW row, RowInv(row), row.status \in Owned, NEW now \in Nat
  PROVE  /\ RowInv(Failed(row, row.attempt_count, now))
         /\ Quiet(row, Failed(row, row.attempt_count, now))
<1> DEFINE new == Failed(row, row.attempt_count, now)
<1>1. /\ row.attempt_count \in Nat /\ row.generation \in Nat
      /\ row.attempt_count + 1 \in Nat
      /\ now + BackoffSeconds(row.attempt_count + 1) \in Nat
  BY BackoffBounded, LimitsAssumption DEF RowInv, Row
<1>2. new \in Row
  BY <1>1 DEF Failed, RowInv, Row, Status
<1>3. /\ new.attempt_count = row.attempt_count + 1
      /\ new.generation = row.generation
      /\ new.claimed_by = Null
      /\ new.claimed_at = Null
  BY <1>1 DEF Failed, RowInv, Row, Status
<1>4. new.status = IF Exhausted(row.attempt_count + 1) THEN "FAILED" ELSE "PENDING"
  BY <1>1 DEF Failed, RowInv, Row, Status
<1>5. row.attempt_count < MaxAttempts /\ row.attempt_count < row.generation
  BY LimitsAssumption DEF RowInv, Row, Budget
<1> SUFFICES RowInv(new) /\ Quiet(row, new)
  OBVIOUS
<1> HIDE DEF new
<1>6. CASE row.attempt_count + 1 >= MaxAttempts
  BY <1>1, <1>2, <1>3, <1>4, <1>5, <1>6, LimitsAssumption
     DEF RowInv, Ownership, Budget, Quiet, Exhausted
<1>7. CASE ~(row.attempt_count + 1 >= MaxAttempts)
  BY <1>1, <1>2, <1>3, <1>4, <1>5, <1>7, LimitsAssumption
     DEF RowInv, Ownership, Budget, Quiet, Exhausted
<1>8. QED
  BY <1>6, <1>7

\* The claim keeps the row invariant and starts a new generation.
LEMMA ClaimRow ==
  ASSUME NEW row, RowInv(row), NEW now \in Nat, NEW worker \in Workers,
         Claimable(row)
  PROVE  /\ RowInv(Claimed(row, worker, now))
         /\ Claimed(row, worker, now).status = "CLAIMED"
         /\ Claimed(row, worker, now).generation = row.generation + 1
         /\ Claimed(row, worker, now).attempt_count = row.attempt_count
         /\ Claimed(row, worker, now).claimed_by = worker
<1> DEFINE new == Claimed(row, worker, now)
<1>1. row.generation + 1 \in Nat
  BY DEF RowInv, Row
<1>2. new \in Row
  BY <1>1 DEF Claimed, RowInv, Row, Status
<1>3. /\ new.status = "CLAIMED"
      /\ new.generation = row.generation + 1
      /\ new.attempt_count = row.attempt_count
      /\ new.claimed_by = worker
      /\ new.claimed_at = now
  BY <1>1 DEF Claimed, RowInv, Row, Status
<1>4. row.attempt_count < MaxAttempts /\ row.attempt_count <= row.generation
  BY LimitsAssumption DEF RowInv, Row, Budget, Claimable
<1> HIDE DEF new
<1>5. RowInv(new)
  BY <1>2, <1>3, <1>4, LimitsAssumption, NullAssumption
     DEF RowInv, Row, Ownership, Budget
<1>6. QED
  BY <1>3, <1>5 DEF new
-----------------------------------------------------------------------------
(* The table and the remembered claims.                                    *)

\* In a state of IInv every row satisfies RowInv, and the constants the actions
\* take from their callers are instants.
LEMMA InitIInv == Init => IInv
<1> SUFFICES ASSUME Init PROVE IInv
  OBVIOUS
<1>1. NoRow \in Row /\ NoHandle \in Handle
  BY DEF NoRow, Row, Status, NoHandle, Handle
<1>2. RowInv(NoRow)
  BY <1>1, LimitsAssumption DEF RowInv, Ownership, Budget, NoRow
<1>3. TypeOK
  BY <1>1 DEF Init, TypeOK
<1>4. ClaimsInv /\ OwnersInv
  BY DEF Init, ClaimsInv, OwnersInv, NoHandle, NoRow
<1>5. QED
  BY <1>2, <1>3, <1>4 DEF Init, IInv

\* A step that changes rows quietly, each keeping its invariant, and no claim.
LEMMA QuietStep ==
  ASSUME IInv, jobs' \in [Jobs -> Row],
         \A j \in Jobs : RowInv(jobs'[j]) /\ Quiet(jobs[j], jobs'[j]),
         UNCHANGED <<handle, won, lastBy>>,
         reading' \in [Processes -> Jobs \union {Null}], clock' \in Nat
  PROVE  IInv'
<1>1. TypeOK'
  BY DEF IInv, TypeOK
<1>2. \A j \in Jobs : jobs[j] \in Row /\ jobs'[j] \in Row
  BY DEF IInv, TypeOK
<1>3. \A j \in Jobs : jobs[j].generation \in Nat /\ jobs'[j].generation \in Nat
  BY <1>2 DEF Row
<1>4. \A j \in Jobs, p \in Processes : handle[p][j].generation \in Nat /\ won[p][j] \in Nat
  BY DEF IInv, TypeOK, Handle
<1>5. ClaimsInv'
  <2> SUFFICES ASSUME NEW j \in Jobs, NEW p \in Processes
               PROVE  /\ handle[p][j].generation <= jobs'[j].generation
                      /\ won[p][j] <= jobs'[j].generation
                      /\ \A q \in Processes :
                           p # q /\ won[p][j] = won[q][j] => won[p][j] = 0
                      /\ jobs'[j].status \in Owned
                           /\ handle[p][j].generation = jobs'[j].generation =>
                           handle[p][j].attempt_count = jobs'[j].attempt_count
    BY DEF ClaimsInv
  <2>1. Quiet(jobs[j], jobs'[j])
    OBVIOUS
  <2>2. QED
    BY <1>3, <1>4, <2>1 DEF Quiet, IInv, ClaimsInv
<1>6. OwnersInv'
  BY DEF IInv, OwnersInv, Quiet
<1>7. QED
  BY <1>1, <1>5, <1>6 DEF IInv

\* The fence identifies the lease: who passes it has the worker id of the claimant,
\* and remembers the attempt_count of the row.
LEMMA FenceIdentifies ==
  ASSUME IInv, NEW p \in Processes, NEW j \in Jobs, NEW statuses \in SUBSET Owned,
         Owns(p, j, statuses)
  PROVE  /\ RowInv(jobs[j])
         /\ jobs[j].status \in Owned
         /\ lastBy[j] = WorkerId[p]
         /\ handle[p][j].attempt_count = jobs[j].attempt_count
         /\ handle[p][j].generation = jobs[j].generation
         /\ jobs[j].generation # 0
<1>1. RowInv(jobs[j]) /\ jobs[j] \in Row
  BY DEF IInv, RowInv
<1>2. jobs[j].status \in Owned /\ handle[p][j].generation = jobs[j].generation
  BY DEF Owns, OwnedBy
<1>3. jobs[j].generation # 0
  BY <1>1, <1>2 DEF RowInv, Budget, Row
<1>4. jobs[j].claimed_by = WorkerId[p]
  BY DEF Owns, OwnedBy
<1>5. QED
  BY <1>1, <1>2, <1>3, <1>4 DEF IInv, ClaimsInv, OwnersInv

\* A transition the fence lets through is one of the claimant's worker id: the
\* history of who moved the job last stays as it is.
LEMMA OnlyClaimantMoves ==
  ASSUME IInv, NEW p \in Processes, NEW j \in Jobs, NEW statuses \in SUBSET Owned,
         NEW row, OwnedTransition(p, j, statuses, row)
  PROVE  lastBy' = lastBy
<1>1. lastBy[j] = WorkerId[p] /\ lastBy' = [lastBy EXCEPT ![j] = WorkerId[p]]
  BY FenceIdentifies DEF OwnedTransition
<1>2. QED
  BY <1>1 DEF IInv, TypeOK

\* A transition the fence lets through, to a row the row lemmas speak of.
LEMMA OwnedTransitionStep ==
  ASSUME IInv, NEW p \in Processes, NEW j \in Jobs, NEW statuses \in SUBSET Owned,
         NEW row,
         OwnedTransition(p, j, statuses, row), RowInv(row), Quiet(jobs[j], row)
  PROVE  IInv'
<1>1. /\ jobs' = [jobs EXCEPT ![j] = row]
      /\ UNCHANGED <<reading, handle, won, lastBy, clock>>
  BY OnlyClaimantMoves DEF OwnedTransition
<1>2. \A k \in Jobs : jobs[k] \in Row /\ RowInv(jobs[k])
  BY DEF IInv, TypeOK
<1>3. jobs' \in [Jobs -> Row]
  BY <1>1 DEF IInv, TypeOK, RowInv
<1>4. \A k \in Jobs : Quiet(jobs[k], jobs[k])
  BY <1>2 DEF Quiet, Row
<1>5. \A k \in Jobs : RowInv(jobs'[k]) /\ Quiet(jobs[k], jobs'[k])
  BY <1>1, <1>2, <1>4 DEF IInv, TypeOK
<1>6. clock' \in Nat /\ reading' \in [Processes -> Jobs \union {Null}]
  BY <1>1 DEF IInv, TypeOK
<1>7. QED
  BY <1>1, <1>3, <1>5, <1>6, QuietStep

\* The claim: a generation no process has won or remembers.
LEMMA ClaimStep ==
  ASSUME IInv, NEW p \in Processes, NEW j \in Jobs, NEW now \in Nat,
         TryClaimOne(p, j, now)
  PROVE  IInv'
<1> DEFINE row == Claimed(jobs[j], WorkerId[p], now)
<1>1. /\ jobs' = [jobs EXCEPT ![j] = row]
      /\ reading' = [reading EXCEPT ![p] = j]
      /\ handle' = handle
      /\ won' = [won EXCEPT ![p][j] = jobs[j].generation + 1]
      /\ lastBy' = [lastBy EXCEPT ![j] = WorkerId[p]]
      /\ clock' = clock
  BY DEF TryClaimOne
<1>2. RowInv(jobs[j]) /\ jobs[j] \in Row /\ WorkerId[p] \in Workers
  BY ProcessesAssumption DEF IInv, RowInv
<1>3. /\ RowInv(row)
      /\ row.status = "CLAIMED"
      /\ row.generation = jobs[j].generation + 1
      /\ row.claimed_by = WorkerId[p]
  BY <1>2, ClaimRow DEF TryClaimOne
<1>4. row \in Row /\ row.generation \in Nat /\ jobs[j].generation \in Nat
  BY <1>2, <1>3 DEF RowInv, Row
<1> HIDE DEF row
<1>5. TypeOK'
  BY <1>1, <1>2, <1>4 DEF IInv, TypeOK
<1>6. \A k \in Jobs : RowInv(jobs'[k])
  BY <1>1, <1>3 DEF IInv, TypeOK
<1>7. \A k \in Jobs, q \in Processes :
        /\ jobs'[k] = IF k = j THEN row ELSE jobs[k]
        /\ lastBy'[k] = IF k = j THEN WorkerId[p] ELSE lastBy[k]
        /\ won'[q][k] = IF k = j /\ q = p THEN row.generation ELSE won[q][k]
  BY <1>1, <1>3 DEF IInv, TypeOK
<1>8. OwnersInv'
  BY <1>3, <1>7 DEF IInv, OwnersInv
<1>9. ClaimsInv'
  <2>1. \A k \in Jobs, q \in Processes :
          /\ jobs[k].generation \in Nat
          /\ handle[q][k].generation \in Nat
          /\ handle[q][k].generation <= jobs[k].generation
          /\ won[q][k] \in Nat
          /\ won[q][k] <= jobs[k].generation
    BY DEF IInv, TypeOK, Row, Handle, ClaimsInv
  <2>2. SUFFICES ASSUME NEW k \in Jobs, NEW q \in Processes
                 PROVE  /\ handle[q][k].generation <= jobs'[k].generation
                        /\ won'[q][k] <= jobs'[k].generation
                        /\ \A r \in Processes :
                             q # r /\ won'[q][k] = won'[r][k] => won'[q][k] = 0
                        /\ jobs'[k].status \in Owned
                             /\ handle[q][k].generation = jobs'[k].generation =>
                             handle[q][k].attempt_count = jobs'[k].attempt_count
    BY <1>1 DEF ClaimsInv
  <2>3. CASE k # j
    BY <1>7, <2>3 DEF IInv, ClaimsInv
  <2>4. CASE k = j
    <3>1. /\ jobs'[j] = row
          /\ \A r \in Processes :
               /\ handle[r][j].generation < row.generation
               /\ r # p => won'[r][j] = won[r][j] /\ won[r][j] < row.generation
          /\ won'[p][j] = row.generation
      BY <1>3, <1>4, <1>7, <2>1
    <3>2. ASSUME NEW r \in Processes, q # r, won'[q][j] = won'[r][j]
          PROVE  won'[q][j] = 0
      <4>1. q # p /\ r # p
        BY <1>4, <2>1, <3>1, <3>2
      <4>2. QED
        BY <3>1, <3>2, <4>1 DEF IInv, ClaimsInv
    <3>3. won'[q][j] <= row.generation
      BY <1>4, <2>1, <3>1
    <3>4. handle[q][j].generation < row.generation
      BY <3>1
    <3>5. QED
      BY <1>4, <2>1, <2>4, <3>1, <3>2, <3>3, <3>4
  <2>5. QED
    BY <2>3, <2>4
<1>10. QED
  BY <1>5, <1>6, <1>8, <1>9 DEF IInv

\* A change of what processes remember of their claims: it is never ahead of the
\* rows, and right about the rows that are owned.
LEMMA RememberStep ==
  ASSUME IInv, UNCHANGED <<jobs, lastBy, clock>>,
         reading' \in [Processes -> Jobs \union {Null}],
         handle' \in [Processes -> [Jobs -> Handle]],
         won' \in [Processes -> [Jobs -> Nat]],
         \A p \in Processes, j \in Jobs :
           /\ handle'[p][j] = handle[p][j] \/ handle'[p][j] = NoHandle
              \/ handle'[p][j] = [generation    |-> jobs[j].generation,
                                  attempt_count |-> jobs[j].attempt_count]
           /\ won'[p][j] = won[p][j] \/ won'[p][j] = 0
  PROVE  IInv'
<1>1. TypeOK'
  BY DEF IInv, TypeOK
<1>2. \A j \in Jobs : RowInv(jobs'[j])
  BY DEF IInv
<1>3. OwnersInv'
  BY DEF IInv, OwnersInv
<1>4. \A j \in Jobs : /\ jobs[j].generation \in Nat
                      /\ jobs[j].status \in Owned => jobs[j].generation # 0
  BY DEF IInv, TypeOK, RowInv, Budget, Row
<1>5. ASSUME NEW j \in Jobs, NEW p \in Processes
      PROVE  /\ handle'[p][j].generation <= jobs[j].generation
             /\ jobs[j].status \in Owned /\ handle'[p][j].generation = jobs[j].generation =>
                  handle'[p][j].attempt_count = jobs[j].attempt_count
  <2>1. CASE handle'[p][j] = handle[p][j]
    BY <2>1 DEF IInv, ClaimsInv
  <2>2. CASE handle'[p][j] = NoHandle
    BY <1>4, <2>2 DEF NoHandle
  <2>3. CASE handle'[p][j] = [generation    |-> jobs[j].generation,
                              attempt_count |-> jobs[j].attempt_count]
    BY <1>4, <2>3
  <2>4. QED
    BY <2>1, <2>2, <2>3
<1>6. ASSUME NEW j \in Jobs, NEW p \in Processes
      PROVE  /\ won'[p][j] <= jobs[j].generation
             /\ \A q \in Processes : p # q /\ won'[p][j] = won'[q][j] => won'[p][j] = 0
  <2>1. /\ won[p][j] <= jobs[j].generation
        /\ \A q \in Processes : p # q /\ won[p][j] = won[q][j] => won[p][j] = 0
    BY DEF IInv, ClaimsInv
  <2>2. \A q \in Processes : won'[q][j] = won[q][j] \/ won'[q][j] = 0
    OBVIOUS
  <2>3. won'[p][j] <= jobs[j].generation
    BY <1>4, <2>1, <2>2
  <2>4. QED
    BY <2>1, <2>2, <2>3
<1>7. ClaimsInv'
  BY <1>5, <1>6 DEF ClaimsInv
<1>8. QED
  BY <1>1, <1>2, <1>3, <1>7 DEF IInv

\* Every step keeps the invariant.
LEMMA NextIInv == IInv /\ [Next]_vars => IInv'
<1> SUFFICES ASSUME IInv, [Next]_vars PROVE IInv'
  OBVIOUS
<1>1. /\ clock \in Nat
      /\ reading \in [Processes -> Jobs \union {Null}]
      /\ \A j \in Jobs : jobs[j] \in Row /\ RowInv(jobs[j]) /\ Quiet(jobs[j], jobs[j])
  BY DEF IInv, TypeOK, Quiet, Row
<1>2. CASE UNCHANGED vars
  BY <1>1, <1>2, QuietStep DEF vars, IInv, TypeOK
<1>3. CASE Tick
  <2>1. clock' \in Nat /\ UNCHANGED <<jobs, reading, handle, won, lastBy>>
    BY <1>1, <1>3 DEF Tick
  <2>2. QED
    BY <1>1, <2>1, QuietStep DEF IInv, TypeOK
<1>4. ASSUME NEW p \in Processes, Crash(p) \/ RereadFails(p) \/ \E j \in Jobs : Reread(p, j)
      PROVE  IInv'
  <2>1. /\ reading' = [reading EXCEPT ![p] = Null]
        /\ UNCHANGED <<jobs, lastBy, clock>>
    BY <1>4 DEF Crash, RereadFails, Reread
  <2>2. NoHandle \in Handle
    BY DEF NoHandle, Handle
  <2>3. /\ reading' \in [Processes -> Jobs \union {Null}]
        /\ handle \in [Processes -> [Jobs -> Handle]]
        /\ won \in [Processes -> [Jobs -> Nat]]
    BY <2>1 DEF IInv, TypeOK
  <2>4. CASE Crash(p)
    <3>1. /\ handle' = [handle EXCEPT ![p] = [j \in Jobs |-> NoHandle]]
          /\ won' = [won EXCEPT ![p] = [j \in Jobs |-> 0]]
      BY <2>4 DEF Crash
    <3>2. /\ handle' \in [Processes -> [Jobs -> Handle]]
          /\ won' \in [Processes -> [Jobs -> Nat]]
      BY <2>2, <3>1 DEF IInv, TypeOK
    <3>3. \A q \in Processes, j \in Jobs :
            /\ handle'[q][j] = handle[q][j] \/ handle'[q][j] = NoHandle
            /\ won'[q][j] = won[q][j] \/ won'[q][j] = 0
      BY <3>1 DEF IInv, TypeOK
    <3>4. QED
      BY <2>1, <2>3, <3>2, <3>3, RememberStep
  <2>5. CASE RereadFails(p)
    <3>1. UNCHANGED <<handle, won>>
      BY <2>5 DEF RereadFails
    <3>2. QED
      BY <2>1, <2>3, <3>1, RememberStep
  <2>6. ASSUME NEW j \in Jobs, Reread(p, j)
        PROVE  IInv'
    <3> DEFINE h == [generation |-> jobs[j].generation, attempt_count |-> jobs[j].attempt_count]
    <3>1. handle' = [handle EXCEPT ![p][j] = h] /\ UNCHANGED won
      BY <2>6 DEF Reread
    <3>2. h \in Handle
      BY <1>1 DEF Handle, Row
    <3> HIDE DEF h
    <3>3. handle' \in [Processes -> [Jobs -> Handle]]
      BY <3>1, <3>2 DEF IInv, TypeOK
    <3>4. \A q \in Processes, k \in Jobs :
            handle'[q][k] = IF q = p /\ k = j THEN h ELSE handle[q][k]
      BY <3>1 DEF IInv, TypeOK
    <3>5. \A q \in Processes, k \in Jobs :
            handle'[q][k] = handle[q][k]
            \/ handle'[q][k] = [generation    |-> jobs[k].generation,
                                attempt_count |-> jobs[k].attempt_count]
      BY <3>4 DEF h
    <3>6. QED
      BY <2>1, <2>3, <3>1, <3>3, <3>5, RememberStep
  <2>7. QED
    BY <1>4, <2>4, <2>5, <2>6
<1>5. ASSUME NEW now \in 0 .. clock, RecoverExpired(now)
      PROVE  IInv'
  <2>1. now \in Nat
    BY <1>1
  <2>2. \A j \in Jobs : RowInv(jobs'[j]) /\ Quiet(jobs[j], jobs'[j])
    BY <1>1, <1>5, <2>1, RecoverQuiet DEF RecoverExpired
  <2>3. jobs' \in [Jobs -> Row]
    BY <1>5, <2>2 DEF RecoverExpired, RowInv
  <2>4. QED
    BY <1>1, <1>5, <2>2, <2>3, QuietStep DEF RecoverExpired
<1>6. ASSUME NEW now \in 0 .. clock, PromoteDueWaiting(now)
      PROVE  IInv'
  <2>1. now \in Nat
    BY <1>1
  <2>2. \A j \in Jobs : RowInv(jobs'[j]) /\ Quiet(jobs[j], jobs'[j])
    BY <1>1, <1>6, <2>1, PromoteQuiet DEF PromoteDueWaiting
  <2>3. jobs' \in [Jobs -> Row]
    BY <1>6, <2>2 DEF PromoteDueWaiting, RowInv
  <2>4. QED
    BY <1>1, <1>6, <2>2, <2>3, QuietStep DEF PromoteDueWaiting
<1>7. ASSUME NEW j \in Jobs, NEW new, NEW runAt \in Nat,
             new \in {PendingRow(runAt), WaitingRow(runAt)},
             jobs' = [jobs EXCEPT ![j] = Inserted(@, new)],
             UNCHANGED <<reading, handle, won, lastBy, clock>>
      PROVE  IInv'
  <2>1. RowInv(Inserted(jobs[j], new)) /\ Quiet(jobs[j], Inserted(jobs[j], new))
    BY <1>1, <1>7, InsertQuiet
  <2>2. \A k \in Jobs : RowInv(jobs'[k]) /\ Quiet(jobs[k], jobs'[k])
    BY <1>1, <1>7, <2>1 DEF IInv, TypeOK
  <2>3. jobs' \in [Jobs -> Row]
    BY <1>7, <2>1 DEF IInv, TypeOK, RowInv
  <2>4. QED
    BY <1>1, <1>7, <2>2, <2>3, QuietStep
<1>8. ASSUME NEW p \in Processes, NEW j \in Jobs, NEW now \in 0 .. clock,
             MarkFailed(p, j, now)
      PROVE  IInv'
  <2>1. Owns(p, j, Owned) /\ now \in Nat
    BY <1>1, <1>8 DEF MarkFailed, OwnedTransition
  <2>2. RowInv(jobs[j]) /\ jobs[j].status \in Owned
        /\ handle[p][j].attempt_count = jobs[j].attempt_count
    BY <2>1, FenceIdentifies
  <2>3. QED
    BY <1>8, <2>1, <2>2, FailedQuiet, OwnedTransitionStep DEF MarkFailed
<1>9. ASSUME NEW p \in Processes, NEW j \in Jobs, MarkRunning(p, j) \/ MarkDone(p, j)
      PROVE  IInv'
  <2>1. Owns(p, j, {"CLAIMED"}) \/ Owns(p, j, {"RUNNING"})
    BY <1>9 DEF MarkRunning, MarkDone, OwnedTransition
  <2>2. RowInv(jobs[j]) /\ jobs[j].status \in Owned
    BY <2>1, FenceIdentifies
  <2>3. CASE MarkRunning(p, j)
    BY <2>2, <2>3, RunningQuiet, OwnedTransitionStep DEF MarkRunning
  <2>4. CASE MarkDone(p, j)
    BY <2>2, <2>4, DoneQuiet, OwnedTransitionStep DEF MarkDone
  <2>5. QED
    BY <1>9, <2>3, <2>4
<1>10. ASSUME NEW p \in Processes, NEW j \in Jobs, NEW retryAt \in RetryAt,
              MarkWaiting(p, j, retryAt)
       PROVE  IInv'
  <2>1. Owns(p, j, Owned) /\ retryAt \in Nat
    BY <1>10, BoundsAssumption DEF MarkWaiting, OwnedTransition
  <2>2. RowInv(jobs[j]) /\ jobs[j].status \in Owned
    BY <2>1, FenceIdentifies
  <2>3. QED
    BY <1>10, <2>1, <2>2, WaitingQuiet, OwnedTransitionStep DEF MarkWaiting
<1>11. ASSUME NEW p \in Processes, NEW j \in Jobs, NEW resetAt \in ResetAt,
              NEW now \in 0 .. clock, DeferForQuota(p, j, resetAt, now)
       PROVE  IInv'
  <2>1. Owns(p, j, Owned) /\ resetAt \in Nat \union {Null} /\ now \in Nat
    BY <1>1, <1>11, BoundsAssumption DEF DeferForQuota, OwnedTransition
  <2>2. RowInv(jobs[j]) /\ jobs[j].status \in Owned
    BY <2>1, FenceIdentifies
  <2>3. QED
    BY <1>11, <2>1, <2>2, DeferredQuiet, OwnedTransitionStep DEF DeferForQuota
<1>12. ASSUME NEW j \in Jobs, NEW now \in 0 .. clock, Enqueue(j, now)
       PROVE  IInv'
  <2>1. now \in Nat
    BY <1>1
  <2>2. QED
    BY <1>7, <1>12, <2>1 DEF Enqueue
<1>13. ASSUME NEW j \in Jobs, NEW retryAt \in RetryAt, EnqueueWaiting(j, retryAt)
       PROVE  IInv'
  BY <1>7, <1>13, BoundsAssumption DEF EnqueueWaiting
<1>14. ASSUME NEW p \in Processes, NEW j \in Jobs, NEW now \in 0 .. clock,
              TryClaimOne(p, j, now)
       PROVE  IInv'
  BY <1>1, <1>14, ClaimStep
<1>15. QED
  BY <1>2, <1>3, <1>4, <1>5, <1>6, <1>8, <1>9, <1>10, <1>11, <1>12, <1>13, <1>14
     DEF Next

-----------------------------------------------------------------------------
(* The theorems.                                                           *)

\* The inductive invariant holds in every reachable state.
THEOREM Invariant == Spec => []IInv
BY InitIInv, NextIInv, PTL DEF Spec

\* Type correctness of the table and of the remembered claims.
THEOREM TypeCorrect == Spec => []TypeOK
<1>1. IInv => TypeOK
  BY DEF IInv
<1>2. QED
  BY <1>1, Invariant, PTL

\* Recovery and the fence can see every owned row: it has an owner and a time.
THEOREM OwnershipIsRecorded == Spec => []OwnershipRecorded
<1>1. IInv => OwnershipRecorded
  BY DEF IInv, RowInv, OwnershipRecorded
<1>2. QED
  BY <1>1, Invariant, PTL

\* Mutual exclusion: two processes pass the fence of _owned_transition for one job
\* only if they share a worker id and one of them was too late to see its own claim.
THEOREM MutualExclusion == Spec => []AtMostOneLiveClaim
<1>1. IInv => AtMostOneLiveClaim
  <2> SUFFICES ASSUME IInv, NEW j \in Jobs, NEW p \in Processes, NEW q \in Processes,
                      p # q, Owns(p, j, Owned), Owns(q, j, Owned)
               PROVE  WorkerId[p] = WorkerId[q] /\ (Torn(p, j) \/ Torn(q, j))
    BY DEF AtMostOneLiveClaim
  <2>1. WorkerId[p] = WorkerId[q]
    BY FenceIdentifies
  <2>2. /\ handle[p][j].generation = jobs[j].generation
        /\ handle[q][j].generation = jobs[j].generation
        /\ jobs[j].generation # 0
    BY FenceIdentifies
  <2>3. ASSUME won[p][j] = jobs[j].generation, won[q][j] = jobs[j].generation
        PROVE  FALSE
    BY <2>2, <2>3 DEF IInv, ClaimsInv
  <2>4. QED
    BY <2>1, <2>2, <2>3 DEF Torn
<1>2. QED
  BY <1>1, Invariant, PTL

\* No attempt is lost or counted twice by mark_failed.
THEOREM AttemptsNotLost == Spec => []LiveClaimCountsAttempts
<1>1. IInv => LiveClaimCountsAttempts
  BY FenceIdentifies DEF LiveClaimCountsAttempts
<1>2. QED
  BY <1>1, Invariant, PTL

\* The retry budget: FAILED exactly when the attempts are used up, and every
\* attempt was paid by a claim.
THEOREM RetryBudget == Spec => []AttemptsPaidByClaims
<1>1. IInv => AttemptsPaidByClaims
  BY DEF IInv, RowInv, AttemptsPaidByClaims
<1>2. QED
  BY <1>1, Invariant, PTL

-----------------------------------------------------------------------------
(* Refinement: the table implements JobLease.                              *)

\* A job whose row and last mover stay is the same job in the abstract state.
LEMMA SameJob ==
  ASSUME NEW j \in Jobs, jobs'[j] = jobs[j], lastBy'[j] = lastBy[j]
  PROVE  Abstract!Same(j)
BY DEF Abstract!Same, Abstract!Becomes, LeaseOf

\* The same holds when the row changes within one phase of the lease.
LEMMA StutterJob ==
  ASSUME NEW j \in Jobs, lastBy'[j] = lastBy[j],
         LeaseOf(jobs'[j]) = LeaseOf(jobs[j]),
         jobs'[j].attempt_count = jobs[j].attempt_count
  PROVE  Abstract!Same(j)
BY DEF Abstract!Same, Abstract!Becomes

\* An owned row on which one attempt was used up.
LEMMA UseUpJob ==
  ASSUME NEW j \in Jobs, RowInv(jobs[j]), jobs[j].status \in Owned,
         lastBy'[j] = lastBy[j],
         jobs'[j].attempt_count = jobs[j].attempt_count + 1,
         jobs'[j].status = IF Exhausted(jobs[j].attempt_count + 1)
                             THEN "FAILED" ELSE "PENDING"
  PROVE  Abstract!UseUp(j)
BY DEF Abstract!UseUp, Abstract!Becomes, LeaseOf, Exhausted

\* Init of the table is Init of the lease.
LEMMA InitImplements == Init => Abstract!Init
BY DEF Init, Abstract!Init, LeaseOf, NoRow

\* What one worker id may do to a job in the abstract state.
JobStep(w, j) ==
  \/ Abstract!Same(j)
  \/ Abstract!Open(j)
  \/ Abstract!Grant(w, j)
  \/ Abstract!Revoke(j)
  \/ Abstract!Fail(w, j)
  \/ Abstract!GiveBack(w, j)
  \/ Abstract!Finish(w, j)

\* Legal steps of the leases, job by job, are one step of the abstract queue.
LEMMA JobSteps ==
  ASSUME NEW w \in Workers, \A j \in Jobs : JobStep(w, j)
  PROVE  Abstract!Next
BY DEF Abstract!Next, JobStep

\* A transition that passes the fence is a step of the worker id the job was handed
\* to: nobody with another id can move the job.
LEMMA OwnedTransitionImplements ==
  ASSUME IInv, NEW p \in Processes, NEW j \in Jobs, NEW statuses \in SUBSET Owned,
         NEW row, OwnedTransition(p, j, statuses, row),
         \/ row.status \in Owned /\ row.attempt_count = jobs[j].attempt_count
         \/ /\ row.status \in {"PENDING", "WAITING_FOR_PUBLICATION", "DONE"}
            /\ row.attempt_count = jobs[j].attempt_count
         \/ /\ row.attempt_count = jobs[j].attempt_count + 1
            /\ row.status = IF Exhausted(jobs[j].attempt_count + 1)
                              THEN "FAILED" ELSE "PENDING"
  PROVE  Abstract!Next
<1>1. /\ jobs' = [jobs EXCEPT ![j] = row]
      /\ lastBy' = lastBy
      /\ Owns(p, j, statuses)
  BY OnlyClaimantMoves DEF OwnedTransition
<1>2. /\ RowInv(jobs[j])
      /\ jobs[j].status \in Owned
      /\ lastBy[j] = WorkerId[p]
      /\ WorkerId[p] \in Workers
  BY <1>1, FenceIdentifies, ProcessesAssumption
<1>3. jobs'[j] = row /\ \A k \in Jobs : k # j => jobs'[k] = jobs[k]
  BY <1>1 DEF IInv, TypeOK
<1>4. JobStep(WorkerId[p], j)
  <2>1. CASE row.status \in Owned /\ row.attempt_count = jobs[j].attempt_count
    BY <1>1, <1>2, <1>3, <2>1, StutterJob DEF LeaseOf, JobStep
  <2>2. CASE /\ row.status \in {"PENDING", "WAITING_FOR_PUBLICATION"}
             /\ row.attempt_count = jobs[j].attempt_count
    <3>1. Abstract!GiveBack(WorkerId[p], j)
      BY <1>1, <1>2, <1>3, <2>2 DEF Abstract!GiveBack, Abstract!Becomes, LeaseOf
    <3>2. QED
      BY <3>1 DEF JobStep
  <2>3. CASE row.status = "DONE" /\ row.attempt_count = jobs[j].attempt_count
    <3>1. Abstract!Finish(WorkerId[p], j)
      BY <1>1, <1>2, <1>3, <2>3 DEF Abstract!Finish, Abstract!Becomes, LeaseOf
    <3>2. QED
      BY <3>1 DEF JobStep
  <2>4. CASE /\ row.attempt_count = jobs[j].attempt_count + 1
             /\ row.status = IF Exhausted(jobs[j].attempt_count + 1)
                               THEN "FAILED" ELSE "PENDING"
    <3>1. Abstract!UseUp(j)
      BY <1>1, <1>2, <1>3, <2>4, UseUpJob
    <3>2. Abstract!Fail(WorkerId[p], j)
      BY <1>2, <3>1 DEF Abstract!Fail, LeaseOf
    <3>3. QED
      BY <3>2 DEF JobStep
  <2>5. QED
    BY <2>1, <2>2, <2>3, <2>4
<1>5. \A k \in Jobs : k # j => JobStep(WorkerId[p], k)
  BY <1>1, <1>3, SameJob DEF JobStep
<1>6. QED
  BY <1>2, <1>4, <1>5, JobSteps

\* Every step of the table is a step of the lease, or changes nothing of it.
LEMMA NextImplements == IInv /\ [Next]_vars => [Abstract!Next]_Abstract!vars
<1> SUFFICES ASSUME IInv, [Next]_vars PROVE [Abstract!Next]_Abstract!vars
  OBVIOUS
<1>1. /\ clock \in Nat
      /\ \A j \in Jobs : jobs[j] \in Row /\ RowInv(jobs[j])
  BY DEF IInv, TypeOK
<1>2. CASE UNCHANGED <<jobs, lastBy>>
  BY <1>2 DEF Abstract!vars, LeaseOf
<1>3. PICK someone \in Workers : TRUE
  BY ProcessesAssumption
<1>4. ASSUME NEW now \in 0 .. clock, RecoverExpired(now)
      PROVE  Abstract!Next
  <2>1. ASSUME NEW j \in Jobs PROVE JobStep(someone, j)
    <3>1. CASE Expired(jobs[j], now)
      <4>1. jobs'[j] = Recovered(jobs[j], now) /\ lastBy' = lastBy
        BY <1>4, <3>1 DEF RecoverExpired
      <4>2. /\ jobs'[j].attempt_count = jobs[j].attempt_count + 1
            /\ jobs'[j].status = IF Exhausted(jobs[j].attempt_count + 1)
                                   THEN "FAILED" ELSE "PENDING"
        BY <1>1, <4>1 DEF Recovered, Row
      <4>3. Abstract!Revoke(j)
        BY <1>1, <3>1, <4>1, <4>2, UseUpJob DEF Abstract!Revoke, Expired, LeaseOf
      <4>4. QED
        BY <4>3 DEF JobStep
    <3>2. CASE ~Expired(jobs[j], now)
      BY <1>4, <3>2, SameJob DEF RecoverExpired, JobStep
    <3>3. QED
      BY <3>1, <3>2
  <2>2. QED
    BY <2>1, JobSteps
<1>5. ASSUME NEW now \in 0 .. clock, PromoteDueWaiting(now)
      PROVE  Abstract!Next
  <2>1. ASSUME NEW j \in Jobs PROVE JobStep(someone, j)
    <3>1. CASE DueWaiting(jobs[j], now)
      <4>1. /\ jobs'[j] = Promoted(jobs[j])
            /\ jobs[j].status = "WAITING_FOR_PUBLICATION"
            /\ lastBy' = lastBy
        BY <1>5, <3>1 DEF PromoteDueWaiting, DueWaiting
      <4>2. /\ jobs'[j].status = "PENDING"
            /\ jobs'[j].attempt_count = jobs[j].attempt_count
        BY <1>1, <4>1 DEF Promoted, Row
      <4>3. QED
        BY <4>1, <4>2, StutterJob DEF LeaseOf, JobStep
    <3>2. CASE ~DueWaiting(jobs[j], now)
      BY <1>5, <3>2, SameJob DEF PromoteDueWaiting, JobStep
    <3>3. QED
      BY <3>1, <3>2
  <2>2. QED
    BY <2>1, JobSteps
<1>6. ASSUME NEW j \in Jobs, NEW runAt \in Nat,
             NEW new \in {PendingRow(runAt), WaitingRow(runAt)},
             jobs' = [jobs EXCEPT ![j] = Inserted(@, new)],
             UNCHANGED <<reading, handle, won, lastBy, clock>>
      PROVE  Abstract!Next
  <2>1. jobs'[j] = Inserted(jobs[j], new) /\ \A k \in Jobs : k # j => jobs'[k] = jobs[k]
    BY <1>6 DEF IInv, TypeOK
  <2>2. CASE jobs[j].status = "ABSENT"
    <3>1. jobs'[j] = new /\ jobs[j] = NoRow
      BY <1>1, <2>1, <2>2 DEF Inserted, RowInv
    <3>2. /\ new.status \in {"PENDING", "WAITING_FOR_PUBLICATION"}
          /\ new.attempt_count = 0
      BY DEF PendingRow, WaitingRow, NoRow
    <3>3. jobs[j].attempt_count = 0
      BY <3>1 DEF NoRow
    <3>4. Abstract!Open(j)
      BY <1>6, <2>2, <3>1, <3>2, <3>3 DEF Abstract!Open, Abstract!Becomes, LeaseOf
    <3>5. QED
      BY <1>6, <2>1, <3>4, SameJob, JobSteps, <1>3 DEF JobStep
  <2>3. CASE jobs[j].status # "ABSENT"
    <3>1. \A k \in Jobs : jobs'[k] = jobs[k]
      BY <2>1, <2>3 DEF Inserted
    <3>2. QED
      BY <1>3, <1>6, <3>1, SameJob, JobSteps DEF JobStep
  <2>4. QED
    BY <2>2, <2>3
<1>7. ASSUME NEW p \in Processes, NEW j \in Jobs, NEW now \in 0 .. clock,
             TryClaimOne(p, j, now)
      PROVE  Abstract!Next
  <2> DEFINE row == Claimed(jobs[j], WorkerId[p], now)
  <2>1. /\ jobs' = [jobs EXCEPT ![j] = row]
        /\ lastBy' = [lastBy EXCEPT ![j] = WorkerId[p]]
        /\ jobs[j].status = "PENDING"
        /\ WorkerId[p] \in Workers
    BY <1>7, ProcessesAssumption DEF TryClaimOne, Claimable
  <2>2. row.status = "CLAIMED" /\ row.attempt_count = jobs[j].attempt_count
    <3>1. WorkerId[p] \in Workers /\ now \in Nat
      BY <1>1, ProcessesAssumption
    <3>2. QED
      BY <1>1, <1>7, <3>1, ClaimRow DEF TryClaimOne
  <2> HIDE DEF row
  <2>3. /\ jobs'[j] = row /\ lastBy'[j] = WorkerId[p]
        /\ \A k \in Jobs : k # j => jobs'[k] = jobs[k] /\ lastBy'[k] = lastBy[k]
    BY <2>1 DEF IInv, TypeOK
  <2>4. Abstract!Grant(WorkerId[p], j)
    BY <2>1, <2>2, <2>3 DEF Abstract!Grant, Abstract!Becomes, LeaseOf
  <2>5. QED
    BY <2>1, <2>3, <2>4, SameJob, JobSteps DEF JobStep
<1>8. ASSUME NEW p \in Processes, NEW j \in Jobs, NEW now \in 0 .. clock,
             MarkFailed(p, j, now)
      PROVE  Abstract!Next
  <2>1. OwnedTransition(p, j, Owned, Failed(jobs[j], jobs[j].attempt_count, now))
    <3>1. Owns(p, j, Owned)
      BY <1>8 DEF MarkFailed, OwnedTransition
    <3>2. handle[p][j].attempt_count = jobs[j].attempt_count
      BY <3>1, FenceIdentifies
    <3>3. QED
      BY <1>8, <3>2 DEF MarkFailed
  <2> DEFINE row == Failed(jobs[j], jobs[j].attempt_count, now)
  <2>2. /\ row.attempt_count = jobs[j].attempt_count + 1
        /\ row.status = IF Exhausted(jobs[j].attempt_count + 1)
                          THEN "FAILED" ELSE "PENDING"
    BY <1>1 DEF Failed, Row
  <2> HIDE DEF row
  <2>3. QED
    BY <2>1, <2>2, OwnedTransitionImplements DEF row
<1>9. ASSUME NEW p \in Processes, NEW j \in Jobs, MarkRunning(p, j) \/ MarkDone(p, j)
      PROVE  Abstract!Next
  <2>1. /\ Running(jobs[j]).status = "RUNNING"
        /\ Running(jobs[j]).attempt_count = jobs[j].attempt_count
        /\ Done(jobs[j]).status = "DONE"
        /\ Done(jobs[j]).attempt_count = jobs[j].attempt_count
    BY <1>1 DEF Running, Done, Row
  <2>2. CASE MarkRunning(p, j)
    BY <2>1, <2>2, OwnedTransitionImplements DEF MarkRunning
  <2>3. CASE MarkDone(p, j)
    BY <2>1, <2>3, OwnedTransitionImplements DEF MarkDone
  <2>4. QED
    BY <1>9, <2>2, <2>3
<1>10. ASSUME NEW p \in Processes, NEW j \in Jobs, NEW retryAt, MarkWaiting(p, j, retryAt)
       PROVE  Abstract!Next
  <2>1. /\ Waiting(jobs[j], retryAt).status = "WAITING_FOR_PUBLICATION"
        /\ Waiting(jobs[j], retryAt).attempt_count = jobs[j].attempt_count
    BY <1>1 DEF Waiting, Row
  <2>2. QED
    BY <1>10, <2>1, OwnedTransitionImplements DEF MarkWaiting
<1>11. ASSUME NEW p \in Processes, NEW j \in Jobs, NEW resetAt, NEW now,
              DeferForQuota(p, j, resetAt, now)
       PROVE  Abstract!Next
  <2>1. /\ Deferred(jobs[j], resetAt, now).status = "PENDING"
        /\ Deferred(jobs[j], resetAt, now).attempt_count = jobs[j].attempt_count
    BY <1>1 DEF Deferred, Row
  <2>2. QED
    BY <1>11, <2>1, OwnedTransitionImplements DEF DeferForQuota
<1>12. ASSUME NEW j \in Jobs, NEW now \in 0 .. clock, Enqueue(j, now)
       PROVE  Abstract!Next
  <2>1. now \in Nat
    BY <1>1
  <2>2. QED
    BY <1>6, <1>12, <2>1 DEF Enqueue
<1>13. ASSUME NEW j \in Jobs, NEW retryAt \in RetryAt, EnqueueWaiting(j, retryAt)
       PROVE  Abstract!Next
  BY <1>6, <1>13, BoundsAssumption DEF EnqueueWaiting
<1>14. CASE \/ Tick
            \/ \E p \in Processes : Crash(p) \/ RereadFails(p) \/ \E j \in Jobs : Reread(p, j)
  BY <1>2, <1>14 DEF Tick, Crash, RereadFails, Reread
<1>15. QED
  BY <1>2, <1>4, <1>5, <1>7, <1>8, <1>9, <1>10, <1>11, <1>12, <1>13, <1>14
     DEF Next, vars

\* The table implements the lease: a job is held by one worker id at a time, only
\* its holder finishes it or gives it back, and done or failed is for good.
THEOREM Refinement == Spec => ImplementsLease
BY InitImplements, NextImplements, Invariant, PTL DEF Spec, ImplementsLease, Abstract!Spec
=============================================================================

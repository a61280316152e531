------------------------ MODULE SchedulerCycleProofs ------------------------
(***************************************************************************)
(* Proofs about SchedulerCycle.  A process moves a row in three stages: it *)
(* locks it, writes a version of its own, and commits it with the rest of  *)
(* its batch.  The argument follows that: what a transaction may make of a *)
(* row (Moved, Granted) is a relation between the committed row and the    *)
(* new one; as long as a session has written a row, nobody else changes    *)
(* the committed one, so that the relation still holds when it commits.    *)
(* The rest is the session's own: which phase may have writes, which jobs  *)
(* of the batch are written already, and how old its Job objects may be.   *)
(***************************************************************************)
EXTENDS SchedulerCycle, SequenceTheorems, FiniteSetTheorems, TLAPS

USE DEF Owned

-----------------------------------------------------------------------------
(* The inductive invariant.                                                *)

RowInv(row) == row \in Row /\ Ownership(row) /\ Budget(row)

\* What the statements of a transaction, the claim aside, may make of a row: they
\* give it no new owner, and use up at most one attempt.
Moved(row, new) ==
  /\ RowInv(new)
  /\ row.status \notin Terminal
  /\ new.status # "ABSENT"
  /\ row.generation <= new.generation
  /\ \/ new.attempt_count = row.attempt_count
     \/ row.status \in Owned /\ new.attempt_count = row.attempt_count + 1
  /\ new.status \in Owned \union {"DONE"} =>
       row.status \in Owned /\ new.attempt_count = row.attempt_count
  /\ new.status \in Owned => new.generation = row.generation

\* What the claim of a process makes of a row.
Granted(p, row, new) ==
  /\ RowInv(new)
  /\ row.status = "PENDING" /\ new.status = "CLAIMED"
  /\ new.claimed_by = WorkerId[p]
  /\ new.generation = row.generation + 1
  /\ new.attempt_count = row.attempt_count

\* How old a Job object may be: its generation is one the row has had, and if the
\* row is still owned in it, the object has the attempts of the row.
Fresh(o, row) ==
  /\ o.generation <= row.generation
  /\ row.status \in Owned /\ o.generation = row.generation =>
       o.attempt_count = row.attempt_count

Shape ==
  /\ jobs \in [Jobs -> Row]
  /\ clock \in 0 .. MaxClock
  /\ pc \in [Processes -> PC]
  /\ now \in [Processes -> -1 .. MaxClock]
  /\ todo \in [Processes -> Seq(Jobs)]
  /\ cands \in [Processes -> Seq(Jobs)]
  /\ batch \in [Processes -> Seq(Jobs)]
  /\ obj \in [Processes -> [Jobs -> Images]]
  /\ gen \in [Processes -> Nat]
  /\ DOMAIN dirty = Processes
  /\ \A p \in Processes : DOMAIN dirty[p] \subseteq Jobs
  /\ lastBy \in [Jobs -> Processes \union {Null}]

\* The committed table.
Table ==
  \A j \in Jobs :
    /\ RowInv(jobs[j])
    /\ jobs[j].status \notin {"ABSENT", "RUNNING"}
    /\ jobs[j].status \in Owned =>
         lastBy[j] \in Processes /\ jobs[j].claimed_by = WorkerId[lastBy[j]]

\* One session at a time has written a row.
Locks ==
  \A p, q \in Processes : p # q => DOMAIN dirty[p] \intersect DOMAIN dirty[q] = {}

\* Where a session is: until the claims are over it has no writes but those of the
\* recovery; the jobs of its batch are different, and the only one of them it has
\* written is the one it marked RUNNING.
Control(p) ==
  /\ pc[p] # "idle" => now[p] \in Nat
  /\ pc[p] \in {"idle", "refresh", "promote", "select", "claim", "reread", "reclaim"} =>
       DOMAIN dirty[p] = {}
  /\ pc[p] \in {"idle", "refresh", "recover", "promote", "select"} =>
       batch[p] = <<>> /\ \A j \in Jobs : obj[p][j] = Unloaded
  /\ pc[p] \in {"claim", "reread"} =>
       /\ IsInjective(cands[p])
       /\ \A m \in DOMAIN cands[p], n \in DOMAIN batch[p] : cands[p][m] # batch[p][n]
  /\ IsInjective(batch[p])
  /\ pc[p] = "reread" => cands[p] # <<>>
  /\ pc[p] \in {"reclaim", "decide", "fetching"} => batch[p] # <<>>
  /\ \A n \in DOMAIN batch[p] :
       batch[p][n] \in DOMAIN dirty[p] => pc[p] = "fetching" /\ n = 1
  /\ pc[p] = "decide" =>
       \/ obj[p][Current(p)] = Unloaded
       \/ obj[p][Current(p)].generation = gen[p]
  /\ pc[p] = "fetching" => Current(p) \in DOMAIN dirty[p]

\* What it has written, next to the committed rows.
Writes(p) ==
  \A j \in DOMAIN dirty[p] :
    /\ jobs[j].status \in Owned
    /\ Moved(jobs[j], dirty[p][j])
    /\ dirty[p][j].status # "CLAIMED"
    /\ dirty[p][j].status = "RUNNING" => pc[p] = "fetching" /\ j = Current(p)
    /\ obj[p][j] = Unloaded
    /\ pc[p] = "recover" =>
         dirty[p][j].attempt_count = jobs[j].attempt_count + 1
    /\ IsInjective(WorkerId) => pc[p] = "recover" \/ lastBy[j] = p

Objects(p) ==
  \A j \in Jobs : obj[p][j] = Unloaded \/ Fresh(obj[p][j], jobs[j])

Session(p) == Control(p) /\ Writes(p) /\ Objects(p)

Inv == Shape /\ Table /\ Locks /\ \A p \in Processes : Session(p)

-----------------------------------------------------------------------------
(* Rows: what each statement makes of one.                                 *)

\* The delay of a retry is a natural number of seconds.
LEMMA BackoffIsNat ==
  ASSUME NEW n \in Nat
  PROVE  BackoffSeconds(n) \in Nat
BY LimitsAssumption DEF BackoffSeconds

\* An owned row has an attempt left, and has not paid for its claim.
LEMMA OwnedRow ==
  ASSUME NEW row, RowInv(row), row.status \in Owned
  PROVE  /\ row.attempt_count \in Nat /\ row.generation \in Nat
         /\ row.attempt_count + 1 <= MaxAttempts
         /\ row.attempt_count < row.generation
         /\ row.status \notin Terminal
BY LimitsAssumption DEF RowInv, Row, Budget, Terminal

\* A row that its owner has used up an attempt of, or that was taken from it, is as it
\* should be: failed if the attempts are used up, and owned by nobody.
LEMMA AttemptUsed ==
  ASSUME NEW row, RowInv(row), row.status \in Owned,
         NEW new \in Row,
         new.attempt_count = row.attempt_count + 1,
         new.generation \in {row.generation, row.generation + 1},
         new.status = IF Exhausted(row.attempt_count + 1) THEN "FAILED" ELSE "PENDING",
         new.claimed_by = Null, new.claimed_at = Null
  PROVE  Moved(row, new)
<1>1. /\ row.attempt_count \in Nat /\ row.generation \in Nat
      /\ row.attempt_count + 1 <= MaxAttempts /\ row.attempt_count < row.generation
      /\ row.status \notin Terminal
  BY OwnedRow
<1>2. new.status = "FAILED" <=> new.attempt_count >= MaxAttempts
  BY DEF Exhausted
<1>3. new.status \in {"FAILED", "PENDING"}
  OBVIOUS
<1>4. new.attempt_count <= new.generation /\ row.generation <= new.generation
  BY <1>1
<1>5. Ownership(new) /\ Budget(new)
  BY <1>1, <1>2, <1>3, <1>4 DEF Ownership, Budget
<1>6. QED
  BY <1>1, <1>3, <1>4, <1>5 DEF Moved, RowInv

\* recover_expired
LEMMA RecoveredMoves ==
  ASSUME NEW row, RowInv(row), NEW t \in Nat, Expired(row, t)
  PROVE  /\ Moved(row, Recovered(row, t))
         /\ row.status \in Owned
         /\ Recovered(row, t).status \notin Owned
         /\ Recovered(row, t).attempt_count = row.attempt_count + 1
<1> DEFINE new == Recovered(row, t)
<1>1. row \in Row /\ row.status \in Owned
  BY DEF RowInv, Expired
<1>2. row.attempt_count + 1 \in Nat /\ row.generation + 1 \in Nat
  BY <1>1, OwnedRow
<1>3. new \in Row
  BY <1>1, <1>2 DEF Recovered, Row, Status
<1>4. /\ new.attempt_count = row.attempt_count + 1
      /\ new.generation = row.generation + 1
      /\ new.claimed_by = Null
      /\ new.claimed_at = Null
      /\ new.status = IF Exhausted(row.attempt_count + 1) THEN "FAILED" ELSE "PENDING"
  BY <1>1 DEF Recovered, Row
<1> HIDE DEF new
<1>5. Moved(row, new)
  BY <1>1, <1>3, <1>4, AttemptUsed
<1>6. new.status \notin Owned
  BY <1>4
<1>7. QED
  BY <1>1, <1>4, <1>5, <1>6 DEF new

\* mark_failed, with the attempts the row has.
LEMMA FailedMoves ==
  ASSUME NEW row, RowInv(row), row.status \in Owned, NEW t \in Nat
  PROVE  /\ Moved(row, Failed(row, row.attempt_count, t))
         /\ Failed(row, row.attempt_count, t).status \notin Owned
<1> DEFINE new == Failed(row, row.attempt_count, t)
<1>1. row \in Row
  BY DEF RowInv
<1>2. row.attempt_count + 1 \in Nat
  BY OwnedRow
<1>3. t + BackoffSeconds(row.attempt_count + 1) \in Nat
  BY <1>2, BackoffIsNat
<1>4. new \in Row
  BY <1>1, <1>2, <1>3 DEF Failed, Row, Status
<1>5. /\ new.attempt_count = row.attempt_count + 1
      /\ new.generation = row.generation
      /\ new.claimed_by = Null
      /\ new.claimed_at = Null
      /\ new.status = IF Exhausted(row.attempt_count + 1) THEN "FAILED" ELSE "PENDING"
  BY <1>1 DEF Failed, Row
<1> HIDE DEF new
<1>6. Moved(row, new)
  BY <1>4, <1>5, AttemptUsed
<1>7. new.status \notin Owned
  BY <1>5
<1>8. QED
  BY <1>6, <1>7 DEF new

\* defer_for_quota
LEMMA DeferredMoves ==
  ASSUME NEW row, RowInv(row), row.status \in Owned, NEW t \in Nat, NEW resetAt \in ResetAt
  PROVE  /\ Moved(row, Deferred(row, resetAt, t))
         /\ Deferred(row, resetAt, t).status \notin Owned
<1> DEFINE new == Deferred(row, resetAt, t)
           at == IF resetAt = Null THEN t + QuotaDefer ELSE resetAt
<1>1. row \in Row
  BY DEF RowInv
<1>2. at \in Nat
  BY LimitsAssumption, CycleAssumption
<1> HIDE DEF at
<1>3. new = [row EXCEPT !.status = "PENDING", !.next_run_at = at, !.last_error = Null,
                        !.claimed_by = Null, !.claimed_at = Null]
  BY DEF at, Deferred
<1>4. /\ new \in Row
      /\ new.status = "PENDING"
      /\ new.attempt_count = row.attempt_count
      /\ new.generation = row.generation
      /\ new.claimed_by = Null
      /\ new.claimed_at = Null
  BY <1>1, <1>2, <1>3 DEF Row, Status
<1> HIDE DEF new
<1>5. /\ row.attempt_count \in Nat /\ row.generation \in Nat
      /\ row.attempt_count + 1 <= MaxAttempts /\ row.attempt_count < row.generation
      /\ row.status \notin Terminal
  BY OwnedRow
<1>6. Ownership(new) /\ Budget(new)
  BY <1>4, <1>5, LimitsAssumption DEF Ownership, Budget
<1>7. Moved(row, new) /\ new.status \notin Owned
  BY <1>4, <1>5, <1>6 DEF Moved, RowInv
<1>8. QED
  BY <1>7 DEF new

\* mark_running and mark_done
LEMMA KeptMoves ==
  ASSUME NEW row, RowInv(row), row.status \in Owned
  PROVE  /\ Moved(row, Running(row)) /\ Running(row).status = "RUNNING"
         /\ Moved(row, Done(row)) /\ Done(row).status = "DONE"
<1>1. row \in Row
  BY DEF RowInv
<1>2. /\ row.attempt_count \in Nat /\ row.generation \in Nat
      /\ row.attempt_count + 1 <= MaxAttempts /\ row.attempt_count < row.generation
      /\ row.status \notin Terminal
  BY OwnedRow
<1>3. ASSUME NEW new \in Row, new.status \in {"RUNNING", "DONE"},
             new.attempt_count = row.attempt_count,
             new.generation = row.generation,
             new.claimed_by = row.claimed_by,
             new.claimed_at = row.claimed_at
      PROVE  Moved(row, new)
  <2>1. Ownership(new) /\ Budget(new)
    BY <1>2, <1>3, LimitsAssumption DEF Ownership, Budget, RowInv
  <2>2. QED
    BY <1>2, <1>3, <2>1 DEF Moved, RowInv
<1>4. /\ Running(row) \in Row /\ Running(row).status = "RUNNING"
      /\ Running(row).attempt_count = row.attempt_count
      /\ Running(row).generation = row.generation
      /\ Running(row).claimed_by = row.claimed_by
      /\ Running(row).claimed_at = row.claimed_at
  BY <1>1 DEF Running, Row, Status
<1>5. /\ Done(row) \in Row /\ Done(row).status = "DONE"
      /\ Done(row).attempt_count = row.attempt_count
      /\ Done(row).generation = row.generation
      /\ Done(row).claimed_by = row.claimed_by
      /\ Done(row).claimed_at = row.claimed_at
  BY <1>1 DEF Done, Row, Status
<1>6. QED
  BY <1>3, <1>4, <1>5

\* promote_due_waiting
LEMMA PromotedMoves ==
  ASSUME NEW row, RowInv(row), NEW t \in Nat, DueWaiting(row, t)
  PROVE  Moved(row, Promoted(row)) /\ Promoted(row).status \notin Owned
<1> DEFINE new == Promoted(row)
<1>1. row \in Row /\ row.status = "WAITING_FOR_PUBLICATION"
  BY DEF RowInv, DueWaiting
<1>2. /\ new \in Row
      /\ new.status = "PENDING"
      /\ new.attempt_count = row.attempt_count
      /\ new.generation = row.generation
      /\ new.claimed_by = row.claimed_by
      /\ new.claimed_at = row.claimed_at
  BY <1>1 DEF Promoted, Row, Status
<1> HIDE DEF new
<1>3. row.attempt_count \in Nat /\ row.generation \in Nat
  BY <1>1 DEF Row
<1>4. Ownership(new) /\ Budget(new)
  BY <1>1, <1>2, <1>3, LimitsAssumption DEF Ownership, Budget, RowInv
<1>5. Moved(row, new) /\ new.status \notin Owned
  BY <1>1, <1>2, <1>3, <1>4 DEF Moved, RowInv, Terminal
<1>6. QED
  BY <1>5 DEF new

\* _try_claim_one
LEMMA ClaimGrants ==
  ASSUME NEW p \in Processes, NEW row, RowInv(row), NEW t \in Nat, Claimable(row)
  PROVE  Granted(p, row, Claimed(row, WorkerId[p], t))
<1> DEFINE new == Claimed(row, WorkerId[p], t)
<1>1. row \in Row /\ row.status = "PENDING" /\ WorkerId[p] \in Workers
  BY CycleAssumption DEF RowInv, Claimable
<1>2. row.attempt_count \in Nat /\ row.generation \in Nat /\ row.generation + 1 \in Nat
  BY <1>1 DEF Row
<1>3. /\ new \in Row
      /\ new.status = "CLAIMED"
      /\ new.generation = row.generation + 1
      /\ new.attempt_count = row.attempt_count
      /\ new.claimed_by = WorkerId[p]
      /\ new.claimed_at = t
  BY <1>1, <1>2 DEF Claimed, Row, Status
<1> HIDE DEF new
<1>4. row.attempt_count < MaxAttempts /\ row.attempt_count <= row.generation
  BY <1>1, <1>2, LimitsAssumption DEF RowInv, Budget
<1>5. Ownership(new) /\ Budget(new)
  BY <1>1, <1>2, <1>3, <1>4, LimitsAssumption, NullAssumption DEF Ownership, Budget
<1>6. Granted(p, row, new)
  BY <1>1, <1>3, <1>5 DEF Granted, RowInv
<1>7. QED
  BY <1>6 DEF new

\* A second statement of the transaction on a row it has written already.
LEMMA MovedTwice ==
  ASSUME NEW row, RowInv(row), NEW mid, NEW new,
         Moved(row, mid), mid.status \in Owned, Moved(mid, new)
  PROVE  Moved(row, new)
<1>1. row.status \in Owned /\ mid.attempt_count = row.attempt_count
      /\ mid.generation = row.generation
  BY DEF Moved
<1>2. QED
  BY <1>1 DEF Moved

\* The image of a committed row is as fresh as the row.
LEMMA UnmovedIsFresh ==
  ASSUME NEW row, RowInv(row)
  PROVE  Fresh(Image(row), row) /\ Image(row) \in Images
BY DEF RowInv, Row, Fresh, Image, Images

\* Whatever is committed, a Job object stays as old as it may be.
LEMMA FreshStays ==
  ASSUME NEW p, NEW o \in Images, NEW row, RowInv(row), NEW new,
         Moved(row, new) \/ Granted(p, row, new), Fresh(o, row)
  PROVE  Fresh(o, new)
<1>1. o.generation \in Nat /\ row.generation \in Nat /\ new.generation \in Nat
  BY DEF Images, Moved, Granted, RowInv, Row
<1>2. CASE Moved(row, new)
  BY <1>1, <1>2 DEF Moved, Fresh
<1>3. CASE Granted(p, row, new)
  BY <1>1, <1>3 DEF Granted, Fresh
<1>4. QED
  BY <1>2, <1>3
-----------------------------------------------------------------------------
(* Steps of one process, as the others see them.                           *)

\* The other sessions are left alone.
Others(p) ==
  \A q \in Processes \ {p} :
    /\ pc'[q] = pc[q] /\ now'[q] = now[q] /\ gen'[q] = gen[q]
    /\ cands'[q] = cands[q] /\ batch'[q] = batch[q]
    /\ obj'[q] = obj[q] /\ dirty'[q] = dirty[q]

\* What a step of p commits of a row that no other session has written: it takes the
\* row from its owner or promotes it, ends the job of a claim of p (if the worker ids
\* tell the processes apart), or claims it.
Change(p, j) ==
  \/ jobs'[j] = jobs[j] /\ lastBy'[j] = lastBy[j]
  \/ /\ LockHolders(p, j) = {}
     /\ \/ /\ Moved(jobs[j], jobs'[j]) /\ jobs'[j].status \notin Owned
           /\ lastBy'[j] = lastBy[j]
           /\ jobs[j].status \in Owned =>
                jobs'[j].attempt_count = jobs[j].attempt_count + 1
        \/ /\ Moved(jobs[j], jobs'[j]) /\ jobs'[j].status \notin Owned
           /\ jobs[j].status \in Owned
           /\ lastBy'[j] = p /\ (IsInjective(WorkerId) => lastBy[j] = p)
        \/ Granted(p, jobs[j], jobs'[j]) /\ lastBy'[j] = p

\* What is known of every committed row.
LEMMA RowsOfTable ==
  ASSUME Inv, NEW j \in Jobs
  PROVE  RowInv(jobs[j]) /\ jobs[j] \in Row
BY DEF Inv, Table, RowInv

\* A Job object stays as old as it may be, whoever commits.
LEMMA FreshKept ==
  ASSUME Inv, NEW p \in Processes, NEW q \in Processes, NEW j \in Jobs, Change(p, j),
         obj[q][j] # Unloaded
  PROVE  Fresh(obj[q][j], jobs'[j])
<1>1. Fresh(obj[q][j], jobs[j]) /\ obj[q][j] \in Images /\ RowInv(jobs[j])
  BY RowsOfTable DEF Inv, Shape, Session, Objects
<1>2. CASE jobs'[j] = jobs[j]
  BY <1>1, <1>2
<1>3. CASE Moved(jobs[j], jobs'[j]) \/ Granted(p, jobs[j], jobs'[j])
  BY <1>1, <1>3, FreshStays
<1>4. QED
  BY <1>2, <1>3 DEF Change

\* A row that a session has written stays as it is for everybody else.
LEMMA OthersSession ==
  ASSUME Inv, NEW p \in Processes, Others(p), \A j \in Jobs : Change(p, j),
         NEW q \in Processes \ {p}
  PROVE  Session(q)'
<1>1. /\ pc'[q] = pc[q] /\ now'[q] = now[q] /\ gen'[q] = gen[q]
      /\ cands'[q] = cands[q] /\ batch'[q] = batch[q]
      /\ obj'[q] = obj[q] /\ dirty'[q] = dirty[q]
  BY DEF Others
<1>2. Session(q) /\ DOMAIN dirty[q] \subseteq Jobs /\ obj[q] \in [Jobs -> Images]
  BY DEF Inv, Shape
<1>3. Control(q)'
  BY <1>1, <1>2 DEF Session, Control, Current
<1>4. \A j \in DOMAIN dirty[q] : jobs'[j] = jobs[j] /\ lastBy'[j] = lastBy[j]
  BY <1>2 DEF Change, LockHolders
<1>5. Writes(q)'
  <2>1. Current(q)' = Current(q)
    BY <1>1 DEF Current
  <2>2. QED
    BY <1>1, <1>2, <1>4, <2>1 DEF Session, Writes
<1>6. Objects(q)'
  BY <1>1, FreshKept DEF Objects
<1>7. QED
  BY <1>3, <1>5, <1>6 DEF Session

\* A step that changes each row as a transaction of p may leaves a sound table.
LEMMA ChangeTable ==
  ASSUME Inv, NEW p \in Processes, \A j \in Jobs : Change(p, j)
  PROVE  Table'
<1>1. SUFFICES ASSUME NEW j \in Jobs
               PROVE  /\ RowInv(jobs'[j])
                      /\ jobs'[j].status \notin {"ABSENT", "RUNNING"}
                      /\ jobs'[j].status \in Owned =>
                           /\ lastBy'[j] \in Processes
                           /\ jobs'[j].claimed_by = WorkerId[lastBy'[j]]
  BY DEF Table, RowInv, Ownership, Budget
<1>2. CASE jobs'[j] = jobs[j] /\ lastBy'[j] = lastBy[j]
  BY <1>2 DEF Inv, Table
<1>3. CASE Moved(jobs[j], jobs'[j]) /\ jobs'[j].status \notin Owned
  BY <1>3 DEF Moved
<1>4. CASE Granted(p, jobs[j], jobs'[j]) /\ lastBy'[j] = p
  BY <1>4 DEF Granted
<1>5. QED
  BY <1>2, <1>3, <1>4 DEF Change

\* What is left to show of a step of p: the shape, and p's own session.
LEMMA StepInv ==
  ASSUME Inv, NEW p \in Processes, Others(p), \A j \in Jobs : Change(p, j),
         \A j \in DOMAIN dirty'[p] : j \in DOMAIN dirty[p] \/ LockHolders(p, j) = {},
         Shape', Session(p)'
  PROVE  Inv'
<1>1. \A q \in Processes : Session(q)'
  BY OthersSession
<1>2. Table'
  BY ChangeTable
<1>3. Locks'
  <2>1. \A q \in Processes \ {p} : DOMAIN dirty'[p] \intersect DOMAIN dirty[q] = {}
    BY DEF Inv, Locks, LockHolders
  <2>2. \A q \in Processes \ {p} : dirty'[q] = dirty[q]
    BY DEF Others
  <2>3. \A q, r \in Processes : q # r =>
          DOMAIN dirty'[q] \intersect DOMAIN dirty'[r] = {}
    BY <2>1, <2>2 DEF Inv, Locks
  <2>4. QED
    BY <2>3 DEF Locks
<1>4. QED
  BY <1>1, <1>2, <1>3 DEF Inv
-----------------------------------------------------------------------------
(* The current job.                                                        *)

\* The rest of a queue.
LEMMA TailOf ==
  ASSUME NEW S, NEW s \in Seq(S), s # <<>>
  PROVE  /\ Head(s) = s[1] /\ Head(s) \in S /\ 1 \in DOMAIN s
         /\ Tail(s) \in Seq(S)
         /\ \A n \in DOMAIN Tail(s) :
              n \in Nat \ {0} /\ n + 1 \in DOMAIN s /\ Tail(s)[n] = s[n + 1]
<1>1. Len(s) \in Nat \ {0} /\ DOMAIN s = 1 .. Len(s)
  BY LenProperties, EmptySeq
<1>2. /\ Head(s) = s[1] /\ s[1] \in S
      /\ Tail(s) \in Seq(S) /\ Len(Tail(s)) = Len(s) - 1
      /\ \A n \in 1 .. Len(Tail(s)) : Tail(s)[n] = s[n + 1]
  BY <1>1, HeadTailProperties
<1>3. DOMAIN Tail(s) = 1 .. (Len(s) - 1)
  BY <1>2, LenProperties
<1>4. \A n \in 1 .. (Len(s) - 1) : n \in Nat \ {0} /\ n + 1 \in 1 .. Len(s)
  BY <1>1
<1>5. QED
  BY <1>1, <1>2, <1>3, <1>4

\* The rest of a sequence of different elements.
LEMMA TailIsInjective ==
  ASSUME NEW S, NEW s \in Seq(S), s # <<>>, IsInjective(s)
  PROVE  /\ IsInjective(Tail(s))
         /\ \A n \in DOMAIN Tail(s) : Tail(s)[n] # Head(s)
<1>1. /\ Head(s) = s[1] /\ 1 \in DOMAIN s
      /\ \A n \in DOMAIN Tail(s) :
           n \in Nat \ {0} /\ n + 1 \in DOMAIN s /\ Tail(s)[n] = s[n + 1]
  BY TailOf
<1>2. ASSUME NEW m \in DOMAIN Tail(s), NEW n \in DOMAIN Tail(s), Tail(s)[m] = Tail(s)[n]
      PROVE  m = n
  <2>1. m \in Nat /\ n \in Nat /\ m + 1 = n + 1
    BY <1>1, <1>2 DEF IsInjective
  <2>2. QED
    BY <2>1
<1>3. ASSUME NEW n \in DOMAIN Tail(s), Tail(s)[n] = Head(s) PROVE FALSE
  <2>1. n \in Nat \ {0} /\ n + 1 = 1
    BY <1>1, <1>3 DEF IsInjective
  <2>2. QED
    BY <2>1
<1>4. QED
  BY <1>2, <1>3 DEF IsInjective

\* What the session sees of a row is as consistent as the row.
LEMMA ViewInv ==
  ASSUME Inv, NEW p \in Processes, NEW j \in Jobs
  PROVE  RowInv(View(p, j)) /\ View(p, j) \in Row
<1>1. Writes(p)
  BY DEF Inv, Session
<1>2. CASE j \in DOMAIN dirty[p]
  BY <1>1, <1>2 DEF View, Writes, Moved, RowInv
<1>3. CASE j \notin DOMAIN dirty[p]
  BY <1>3, RowsOfTable DEF View
<1>4. QED
  BY <1>2, <1>3

InBatch(p) == pc[p] \in {"load", "decide", "fetching"} /\ batch[p] # <<>>

\* The job in hand, and what its transaction sees of it.
LEMMA CurrentJob ==
  ASSUME Inv, NEW p \in Processes, InBatch(p)
  PROVE  /\ Current(p) \in Jobs
         /\ pc[p] # "fetching" => Current(p) \notin DOMAIN dirty[p]
         /\ pc[p] # "fetching" => View(p, Current(p)) = jobs[Current(p)]
<1>1. batch[p] \in Seq(Jobs) /\ batch[p] # <<>> /\ Control(p)
  BY DEF Inv, Shape, Session, InBatch
<1>2. Current(p) = batch[p][1] /\ Current(p) \in Jobs /\ 1 \in DOMAIN batch[p]
  BY <1>1, TailOf DEF Current
<1>3. QED
  BY <1>1, <1>2 DEF Control, View

\* The row the fence lets a session change: it is owned, in the committed table too,
\* and what the transaction makes of it in two statements it may make of it.
LEMMA SelectedRow ==
  ASSUME Inv, NEW p \in Processes, InBatch(p), NEW g, NEW statuses \in SUBSET Owned,
         Selected(p, g, statuses)
  PROVE  /\ View(p, Current(p)).status \in Owned
         /\ View(p, Current(p)).generation = g
         /\ jobs[Current(p)].status \in Owned
         /\ \A row : Moved(View(p, Current(p)), row) => Moved(jobs[Current(p)], row)
         /\ IsInjective(WorkerId) => lastBy[Current(p)] = p
<1> DEFINE j == Current(p)
<1>1. /\ View(p, j).status \in Owned
      /\ View(p, j).generation = g
      /\ View(p, j).claimed_by = WorkerId[p]
  BY DEF Selected, OwnedBy
<1>2. j \in Jobs
  BY CurrentJob
<1>3. CASE j \in DOMAIN dirty[p]
  <2>1. pc[p] = "fetching"
    BY <1>3, CurrentJob
  <2>2. /\ View(p, j) = dirty[p][j] /\ jobs[j].status \in Owned
        /\ Moved(jobs[j], dirty[p][j])
        /\ IsInjective(WorkerId) => lastBy[j] = p
    BY <1>3, <2>1 DEF View, Inv, Session, Writes
  <2>3. ASSUME NEW row, Moved(View(p, j), row) PROVE Moved(jobs[j], row)
    BY <1>1, <1>2, <2>2, <2>3, RowsOfTable, MovedTwice
  <2>4. QED
    BY <1>1, <2>2, <2>3
<1>4. CASE j \notin DOMAIN dirty[p]
  <2>1. View(p, j) = jobs[j]
    BY <1>4 DEF View
  <2>2. lastBy[j] \in Processes /\ WorkerId[p] = WorkerId[lastBy[j]]
    BY <1>1, <1>2, <2>1 DEF Inv, Table
  <2>3. IsInjective(WorkerId) => lastBy[j] = p
    BY <2>2, CycleAssumption DEF IsInjective
  <2>4. QED
    BY <1>1, <2>1, <2>3
<1>5. QED
  BY <1>3, <1>4

\* The attempts the code counts on are those of the row: from the same generation, or
\* from an object that is read again.
LEMMA LoadedAttempts ==
  ASSUME Inv, NEW p \in Processes, InBatch(p), NEW g, NEW statuses \in SUBSET Owned,
         Selected(p, g, statuses),
         \/ pc[p] = "fetching"
         \/ pc[p] = "decide" /\ g = gen[p]
         \/ g = Loaded(p, Current(p)).generation
  PROVE  Loaded(p, Current(p)).attempt_count = View(p, Current(p)).attempt_count
<1> DEFINE j == Current(p)
<1>1. j \in Jobs /\ View(p, j).status \in Owned /\ View(p, j).generation = g
  BY CurrentJob, SelectedRow
<1>2. CASE obj[p][j] = Unloaded
  BY <1>2 DEF Loaded, Image
<1>3. CASE obj[p][j] # Unloaded
  <2>1. j \notin DOMAIN dirty[p]
    BY <1>3 DEF Inv, Session, Writes
  <2>2. View(p, j) = jobs[j] /\ pc[p] # "fetching"
    BY <2>1 DEF View, Inv, Session, Control
  <2>3. obj[p][j].generation = g
    BY <1>3, <2>2 DEF Inv, Session, Control, Loaded
  <2>4. Fresh(obj[p][j], jobs[j])
    BY <1>1, <1>3 DEF Inv, Session, Objects
  <2>5. QED
    BY <1>1, <1>3, <2>2, <2>3, <2>4 DEF Fresh, Loaded
<1>4. QED
  BY <1>2, <1>3
-----------------------------------------------------------------------------
(* Steps of a session in its batch.                                        *)

\* A session that has loaded nothing has images too.
LEMMA UnloadedImage == Unloaded \in Images
BY DEF Unloaded, Images, Status

\* The session ends: it has no writes, no batch and no objects.
LEMMA EndSessionShape ==
  ASSUME Inv, NEW p \in Processes, EndSession(p)
  PROVE  /\ pc' \in [Processes -> PC] /\ gen' \in [Processes -> Nat]
         /\ todo' \in [Processes -> Seq(Jobs)]
         /\ cands' \in [Processes -> Seq(Jobs)]
         /\ batch' \in [Processes -> Seq(Jobs)]
         /\ obj' \in [Processes -> [Jobs -> Images]]
         /\ DOMAIN dirty' = Processes
         /\ \A q \in Processes : DOMAIN dirty'[q] \subseteq Jobs
<1>1. <<>> \in Seq(Jobs) /\ "idle" \in PC /\ DOMAIN NoWrites = {}
  BY EmptySeq DEF PC, NoWrites
<1>2. pc' \in [Processes -> PC] /\ gen' \in [Processes -> Nat]
  BY <1>1 DEF EndSession, Inv, Shape
<1>3. /\ todo' \in [Processes -> Seq(Jobs)]
      /\ cands' \in [Processes -> Seq(Jobs)]
      /\ batch' \in [Processes -> Seq(Jobs)]
  BY <1>1 DEF EndSession, Inv, Shape
<1>4. obj' \in [Processes -> [Jobs -> Images]]
  BY UnloadedImage DEF EndSession, Inv, Shape
<1>5. DOMAIN dirty' = Processes /\ \A q \in Processes : DOMAIN dirty'[q] \subseteq Jobs
  BY <1>1 DEF EndSession, Inv, Shape
<1>6. QED
  BY <1>2, <1>3, <1>4, <1>5

\* The end of a session leaves nothing behind.
LEMMA EndSessionSession ==
  ASSUME Inv, NEW p \in Processes, EndSession(p), now' = now
  PROVE  Session(p)' /\ Others(p) /\ DOMAIN dirty'[p] = {}
<1>1. Others(p)
  BY DEF EndSession, Others, Inv, Shape
<1>2. /\ pc'[p] = "idle" /\ batch'[p] = <<>> /\ DOMAIN dirty'[p] = {}
      /\ obj'[p] = [j \in Jobs |-> Unloaded]
  BY DEF EndSession, Inv, Shape, NoWrites
<1>3. DOMAIN batch'[p] = {}
  BY <1>2
<1>4. Control(p)'
  BY <1>2, <1>3 DEF Control, IsInjective
<1>5. QED
  BY <1>1, <1>2, <1>4 DEF Session, Writes, Objects

\* Nothing is committed: a crash, an aborted statement, a rollback.
LEMMA EndSessionStep ==
  ASSUME Inv, NEW p \in Processes, EndSession(p), UNCHANGED <<jobs, clock, now, lastBy>>
  PROVE  Inv'
<1>1. Shape'
  BY EndSessionShape DEF Inv, Shape
<1>2. QED
  BY <1>1, EndSessionSession, StepInv DEF Change

\* The loop goes on to the next job, with what the session has written of the current one.
LEMMA NextJobSession ==
  ASSUME Inv, NEW p \in Processes, InBatch(p), NextJob(p), now' = now,
         DOMAIN dirty'[p] \subseteq DOMAIN dirty[p] \union {Current(p)}
  PROVE  Control(p)'
<1>1. /\ batch[p] \in Seq(Jobs) /\ batch[p] # <<>> /\ Control(p)
      /\ pc[p] \in {"load", "decide", "fetching"}
  BY DEF Inv, Shape, Session, InBatch
<1>2. batch'[p] = Tail(batch[p]) /\ pc'[p] = "load"
  BY DEF NextJob, Goto, Inv, Shape
<1>3. /\ IsInjective(batch'[p])
      /\ \A n \in DOMAIN batch'[p] : batch'[p][n] # Current(p)
  BY <1>1, <1>2, TailIsInjective DEF Control, Current
<1>4. \A n \in DOMAIN batch'[p] : n \in Nat \ {0} /\ n + 1 \in DOMAIN batch[p]
                                  /\ batch'[p][n] = batch[p][n + 1]
  BY <1>1, <1>2, TailOf
<1>5. \A n \in DOMAIN batch'[p] : batch'[p][n] \notin DOMAIN dirty'[p]
  <2>1. SUFFICES ASSUME NEW n \in DOMAIN batch'[p], batch'[p][n] \in DOMAIN dirty'[p]
                 PROVE  FALSE
    OBVIOUS
  <2>2. batch[p][n + 1] \in DOMAIN dirty[p] /\ n + 1 \in DOMAIN batch[p]
    BY <1>3, <1>4, <2>1
  <2>3. n + 1 = 1 /\ n \in Nat \ {0}
    BY <1>1, <1>4, <2>2 DEF Control
  <2>4. QED
    BY <2>3
<1>6. now[p] \in Nat
  BY <1>1 DEF Control
<1>7. QED
  BY <1>2, <1>3, <1>5, <1>6 DEF Control
\* The shape of a step that goes on to the next job.
LEMMA NextJobShape ==
  ASSUME Inv, NEW p \in Processes, InBatch(p), NextJob(p)
  PROVE  /\ pc' \in [Processes -> PC]
         /\ batch' \in [Processes -> Seq(Jobs)]
         /\ gen' \in [Processes -> Nat]
<1>1. Tail(batch[p]) \in Seq(Jobs)
  BY TailOf DEF Inv, Shape, InBatch
<1>2. QED
  BY <1>1 DEF NextJob, Goto, Inv, Shape, PC

\* A successful transition, as the session and the others see it.
LEMMA TransitionEffect ==
  ASSUME Inv, NEW p \in Processes, InBatch(p), NEW g, NEW statuses \in SUBSET Owned,
         NEW row, OwnedTransition(p, g, statuses, row)
  PROVE  /\ Current(p) \in Jobs /\ LockHolders(p, Current(p)) = {}
         /\ DOMAIN dirty' = Processes
         /\ DOMAIN dirty'[p] = DOMAIN dirty[p] \union {Current(p)}
         /\ \A k \in DOMAIN dirty[p] : k # Current(p) => dirty'[p][k] = dirty[p][k]
         /\ \A q \in Processes \ {p} : dirty'[q] = dirty[q] /\ obj'[q] = obj[q]
         /\ obj' \in [Processes -> [Jobs -> Images]]
         /\ obj'[p] = [obj[p] EXCEPT ![Current(p)] = Unloaded]
<1> DEFINE j == Current(p)
<1>1. j \in Jobs
  BY CurrentJob
<1>2. /\ LockHolders(p, j) = {}
      /\ dirty' = [dirty EXCEPT ![p] = With(dirty[p], j, row)]
      /\ obj' = [obj EXCEPT ![p][j] = Unloaded]
  BY DEF OwnedTransition
<1>3. DOMAIN dirty = Processes /\ obj \in [Processes -> [Jobs -> Images]]
  BY DEF Inv, Shape
<1>4. dirty'[p] = With(dirty[p], j, row) /\ DOMAIN dirty' = Processes
      /\ \A q \in Processes \ {p} : dirty'[q] = dirty[q]
  BY <1>2, <1>3
<1>5. /\ DOMAIN With(dirty[p], j, row) = DOMAIN dirty[p] \union {j}
      /\ \A k \in DOMAIN dirty[p] : k # j => With(dirty[p], j, row)[k] = dirty[p][k]
  BY DEF With
<1>6. /\ obj' \in [Processes -> [Jobs -> Images]]
      /\ obj'[p] = [obj[p] EXCEPT ![j] = Unloaded]
      /\ \A q \in Processes \ {p} : obj'[q] = obj[q]
  BY <1>1, <1>2, <1>3, UnloadedImage
<1>7. QED
  BY <1>1, <1>2, <1>4, <1>5, <1>6

\* What a transition leaves of the session's writes, if the row is not RUNNING or the
\* session is on its way to the provider.
LEMMA TransitionSession ==
  ASSUME Inv, NEW p \in Processes, InBatch(p), NEW g, NEW statuses \in SUBSET Owned,
         NEW row, OwnedTransition(p, g, statuses, row),
         Moved(View(p, Current(p)), row), row.status # "CLAIMED",
         row.status = "RUNNING" => pc'[p] = "fetching" /\ batch'[p] = batch[p],
         pc'[p] # "recover", UNCHANGED <<jobs, lastBy>>
  PROVE  Writes(p)' /\ Objects(p)'
<1> DEFINE j == Current(p)
<1>1. /\ j \in Jobs
      /\ DOMAIN dirty'[p] = DOMAIN dirty[p] \union {j}
      /\ dirty'[p][j] = row
      /\ \A k \in DOMAIN dirty[p] : k # j => dirty'[p][k] = dirty[p][k]
      /\ obj'[p] = [obj[p] EXCEPT ![j] = Unloaded]
  <2>1. /\ j \in Jobs
        /\ DOMAIN dirty'[p] = DOMAIN dirty[p] \union {j}
        /\ \A k \in DOMAIN dirty[p] : k # j => dirty'[p][k] = dirty[p][k]
        /\ obj'[p] = [obj[p] EXCEPT ![j] = Unloaded]
    BY TransitionEffect
  <2>2. dirty'[p] = With(dirty[p], j, row)
    BY DEF OwnedTransition, Inv, Shape
  <2>3. dirty'[p][j] = row
    BY <2>2 DEF With
  <2>4. QED
    BY <2>1, <2>3
<1>0. obj[p] \in [Jobs -> Images] /\ DOMAIN dirty[p] \subseteq Jobs
  BY DEF Inv, Shape
<1>2. \A k \in Jobs : obj'[p][k] = IF k = j THEN Unloaded ELSE obj[p][k]
  BY <1>0, <1>1
<1>3. /\ jobs[j].status \in Owned
      /\ Moved(jobs[j], row)
      /\ IsInjective(WorkerId) => lastBy[j] = p
      /\ Selected(p, g, statuses)
  BY SelectedRow DEF OwnedTransition
<1>4. Writes(p) /\ Objects(p)
  BY DEF Inv, Session
<1>5. row.status = "RUNNING" => pc'[p] = "fetching" /\ Current(p)' = j
  BY DEF Current
<1>6. \A k \in DOMAIN dirty[p] :
        /\ dirty[p][k].status = "RUNNING" => k = j
        /\ pc[p] # "recover"
  BY <1>4 DEF Writes, InBatch
<1>7. Writes(p)'
  <2>1. SUFFICES ASSUME NEW k \in DOMAIN dirty'[p]
                 PROVE  /\ jobs[k].status \in Owned
                        /\ Moved(jobs[k], dirty'[p][k])
                        /\ dirty'[p][k].status # "CLAIMED"
                        /\ dirty'[p][k].status = "RUNNING" =>
                             pc'[p] = "fetching" /\ k = Current(p)'
                        /\ obj'[p][k] = Unloaded
                        /\ IsInjective(WorkerId) => lastBy[k] = p
    BY DEF Writes
  <2>2. CASE k = j
    BY <1>1, <1>2, <1>3, <1>5, <2>2
  <2>3. CASE k # j
    BY <1>0, <1>1, <1>2, <1>4, <1>6, <2>3 DEF Writes
  <2>4. QED
    BY <2>2, <2>3
<1>8. Objects(p)'
  BY <1>2, <1>4 DEF Objects
<1>9. QED
  BY <1>7, <1>8

\* A transition that ends the job.
LEMMA TransitionEnds ==
  ASSUME Inv, NEW p \in Processes, InBatch(p), NEW g, NEW statuses \in SUBSET Owned,
         NEW row, OwnedTransition(p, g, statuses, row),
         Moved(View(p, Current(p)), row), row.status \notin Owned,
         NextJob(p), UNCHANGED <<jobs, clock, now, todo, cands, lastBy>>
  PROVE  Inv'
<1> DEFINE j == Current(p)
<1>1. /\ j \in Jobs /\ LockHolders(p, j) = {}
      /\ DOMAIN dirty' = Processes
      /\ DOMAIN dirty'[p] = DOMAIN dirty[p] \union {j}
      /\ \A q \in Processes \ {p} : dirty'[q] = dirty[q] /\ obj'[q] = obj[q]
      /\ obj' \in [Processes -> [Jobs -> Images]]
  BY TransitionEffect
<1>2. Others(p)
  BY <1>1 DEF Others, NextJob, Goto, Inv, Shape
<1>3. Shape'
  BY <1>1, NextJobShape DEF Inv, Shape
<1>4. pc'[p] = "load"
  BY DEF NextJob, Goto, Inv, Shape
<1>5. Control(p)'
  BY <1>1, NextJobSession
<1>6. Writes(p)' /\ Objects(p)'
  BY <1>4, TransitionSession
<1>7. QED
  BY <1>1, <1>2, <1>3, <1>5, <1>6, StepInv DEF Session, Change

\* The fence rejects the transition, and the session forgets its objects.
LEMMA FencedStep ==
  ASSUME Inv, NEW p \in Processes, InBatch(p), NEW g, NEW statuses, pc[p] # "fetching",
         Fenced(p, g, statuses), UNCHANGED <<jobs, clock, now, todo, cands, lastBy>>
  PROVE  Inv'
<1>1. dirty' = dirty /\ obj' = [obj EXCEPT ![p] = [j \in Jobs |-> Unloaded]] /\ NextJob(p)
  BY DEF Fenced
<1>2. obj' \in [Processes -> [Jobs -> Images]] /\ obj'[p] = [j \in Jobs |-> Unloaded]
  BY <1>1, UnloadedImage DEF Inv, Shape
<1>3. Others(p)
  BY <1>1 DEF Others, NextJob, Goto, Inv, Shape
<1>4. Shape'
  BY <1>1, <1>2, NextJobShape DEF Inv, Shape
<1>5. pc'[p] = "load"
  BY <1>1 DEF NextJob, Goto, Inv, Shape
<1>6. Control(p)'
  BY <1>1, NextJobSession
<1>7. Writes(p)' /\ Objects(p)'
  <2>1. \A j \in DOMAIN dirty[p] : dirty[p][j].status # "RUNNING" /\ pc[p] # "recover"
                                   /\ j \in Jobs
    BY DEF Inv, Shape, Session, Writes, InBatch
  <2>2. QED
    BY <1>1, <1>2, <1>5, <2>1 DEF Inv, Session, Writes, Objects
<1>8. QED
  BY <1>1, <1>3, <1>4, <1>6, <1>7, StepInv DEF Session, Change
\* mark_running: the job is on its way to the provider.
LEMMA MarkRunningStep ==
  ASSUME Inv, NEW p \in Processes, MarkRunning(p)
  PROVE  Inv'
<1>1. InBatch(p) /\ pc[p] = "decide" /\ UNCHANGED <<jobs, clock, now, todo, cands, lastBy>>
  BY DEF MarkRunning, InBatch, Inv, Session, Control
<1>2. CASE Fenced(p, gen[p], {"CLAIMED"})
  BY <1>1, <1>2, FencedStep
<1>3. CASE /\ OwnedTransition(p, gen[p], {"CLAIMED"}, Running(View(p, Current(p))))
           /\ Goto(p, "fetching")
           /\ UNCHANGED <<batch, gen>>
  <2> DEFINE j == Current(p)
             row == Running(View(p, j))
             statuses == {"CLAIMED"}
  <2>1. statuses \in SUBSET Owned /\ OwnedTransition(p, gen[p], statuses, row)
    BY <1>3
  <2> HIDE DEF statuses
  <2>2. /\ j \in Jobs /\ LockHolders(p, j) = {}
        /\ DOMAIN dirty' = Processes
        /\ DOMAIN dirty'[p] = DOMAIN dirty[p] \union {j}
        /\ \A q \in Processes \ {p} : dirty'[q] = dirty[q] /\ obj'[q] = obj[q]
        /\ obj' \in [Processes -> [Jobs -> Images]]
        /\ j \notin DOMAIN dirty[p]
    BY <1>1, <2>1, TransitionEffect, CurrentJob
  <2>3. View(p, j).status \in Owned /\ RowInv(View(p, j))
    BY <1>1, <2>1, <2>2, SelectedRow, ViewInv DEF OwnedTransition
  <2>4. Moved(View(p, j), row) /\ row.status = "RUNNING"
    BY <2>3, KeptMoves
  <2> HIDE DEF row
  <2>5. pc'[p] = "fetching" /\ pc' \in [Processes -> PC]
        /\ \A q \in Processes \ {p} : pc'[q] = pc[q]
    BY <1>3 DEF Goto, Inv, Shape, PC
  <2>6. Others(p)
    BY <1>1, <1>3, <2>2, <2>5 DEF Others
  <2>7. Shape'
    BY <1>1, <1>3, <2>2, <2>5 DEF Inv, Shape
  <2>8. Writes(p)' /\ Objects(p)'
    BY <1>1, <1>3, <2>1, <2>4, <2>5, TransitionSession
  <2>9. Control(p)'
    <3>1. /\ batch[p] \in Seq(Jobs) /\ batch[p] # <<>> /\ IsInjective(batch[p])
          /\ now[p] \in Nat
          /\ \A n \in DOMAIN batch[p] : batch[p][n] \notin DOMAIN dirty[p]
      BY <1>1 DEF Inv, Shape, Session, Control, InBatch
    <3>2. j = batch[p][1] /\ 1 \in DOMAIN batch[p]
      BY <3>1, TailOf DEF Current
    <3>3. \A n \in DOMAIN batch[p] : batch[p][n] \in DOMAIN dirty'[p] => n = 1
      BY <2>2, <3>1, <3>2 DEF IsInjective
    <3>4. Current(p)' = j /\ batch'[p] = batch[p] /\ now'[p] = now[p]
      BY <1>1, <1>3 DEF Current
    <3>5. QED
      BY <2>2, <2>5, <3>1, <3>3, <3>4 DEF Control
  <2>10. QED
    BY <1>1, <2>2, <2>6, <2>7, <2>8, <2>9, StepInv DEF Session, Change
<1>4. QED
  BY <1>2, <1>3 DEF MarkRunning

\* The loop reads the job.
LEMMA LoadStep ==
  ASSUME Inv, NEW p \in Processes, Load(p)
  PROVE  Inv'
<1> DEFINE j == Current(p)
           o == Loaded(p, j)
<1>1. /\ pc[p] = "load" /\ InBatch(p)
      /\ obj' = [obj EXCEPT ![p][j] = o]
      /\ gen' = [gen EXCEPT ![p] = o.generation]
      /\ pc' = [pc EXCEPT ![p] = "decide"]
      /\ UNCHANGED <<jobs, clock, now, todo, cands, batch, dirty, lastBy>>
  BY DEF Load, Goto, InBatch
<1>2. j \in Jobs /\ j \notin DOMAIN dirty[p] /\ View(p, j) = jobs[j] /\ RowInv(jobs[j])
  BY <1>1, CurrentJob, RowsOfTable
<1>3. /\ obj \in [Processes -> [Jobs -> Images]] /\ gen \in [Processes -> Nat]
      /\ pc \in [Processes -> PC] /\ Control(p) /\ Writes(p) /\ Objects(p)
  BY DEF Inv, Shape, Session
<1>4. /\ o \in Images /\ o.generation \in Nat
      /\ o = Unloaded \/ Fresh(o, jobs[j])
  <2>1. CASE obj[p][j] = Unloaded
    BY <1>2, <2>1, UnmovedIsFresh DEF Loaded, Images
  <2>2. CASE obj[p][j] # Unloaded
    BY <1>2, <1>3, <2>2 DEF Loaded, Objects, Images
  <2>3. QED
    BY <2>1, <2>2
<1> HIDE DEF o
<1>5. /\ obj' \in [Processes -> [Jobs -> Images]] /\ gen' \in [Processes -> Nat]
      /\ pc' \in [Processes -> PC]
      /\ \A k \in Jobs : obj'[p][k] = IF k = j THEN o ELSE obj[p][k]
      /\ gen'[p] = o.generation /\ pc'[p] = "decide"
      /\ \A q \in Processes \ {p} : obj'[q] = obj[q] /\ gen'[q] = gen[q] /\ pc'[q] = pc[q]
  BY <1>1, <1>2, <1>3, <1>4 DEF PC
<1>6. Others(p)
  BY <1>1, <1>5 DEF Others
<1>7. Shape'
  BY <1>1, <1>5 DEF Inv, Shape
<1>8. Current(p)' = j
  BY <1>1 DEF Current
<1>9. Control(p)'
  <2>1. obj'[p][j].generation = gen'[p]
    BY <1>2, <1>5
  <2>2. /\ now[p] \in Nat /\ IsInjective(batch[p]) /\ batch[p] # <<>>
        /\ \A n \in DOMAIN batch[p] : batch[p][n] \notin DOMAIN dirty[p]
    BY <1>1, <1>3 DEF Control, InBatch
  <2>3. QED
    BY <1>1, <1>5, <1>8, <2>1, <2>2 DEF Control
<1>10. Writes(p)'
  <2>1. \A k \in DOMAIN dirty[p] : k \in Jobs /\ k # j
    BY <1>2 DEF Inv, Shape
  <2>2. QED
    BY <1>1, <1>3, <1>5, <2>1 DEF Writes
<1>11. Objects(p)'
  BY <1>1, <1>3, <1>4, <1>5 DEF Objects
<1>12. QED
  BY <1>1, <1>6, <1>7, <1>9, <1>10, <1>11, StepInv DEF Session, Change
\* mark_failed, wherever it is called from.
LEMMA FailStep ==
  ASSUME Inv, NEW p \in Processes, InBatch(p), NEW g,
         \/ pc[p] = "fetching"
         \/ pc[p] = "decide" /\ g = gen[p]
         \/ g = Loaded(p, Current(p)).generation,
         Fail(p, g), NextJob(p), UNCHANGED <<jobs, clock, now, todo, cands, lastBy>>
  PROVE  Inv'
<1> DEFINE statuses == Owned
           row == Failed(View(p, Current(p)), View(p, Current(p)).attempt_count, now[p])
<1>1. statuses \in SUBSET Owned /\ Selected(p, g, statuses)
  BY DEF Fail, OwnedTransition
<1> HIDE DEF statuses
<1>2. Loaded(p, Current(p)).attempt_count = View(p, Current(p)).attempt_count
  BY <1>1, LoadedAttempts
<1>3. View(p, Current(p)).status \in Owned /\ RowInv(View(p, Current(p)))
  BY <1>1, SelectedRow, CurrentJob, ViewInv
<1>4. now[p] \in Nat
  BY DEF Inv, Session, Control, InBatch
<1>5. Moved(View(p, Current(p)), row) /\ row.status \notin Owned
  BY <1>3, <1>4, FailedMoves
<1>6. OwnedTransition(p, g, statuses, row)
  BY <1>2 DEF Fail, statuses
<1> HIDE DEF row
<1>7. QED
  BY <1>1, <1>5, <1>6, TransitionEnds

\* The adapter cannot be resolved: mark_failed, or the rollback of the whole batch.
LEMMA AdapterFailureStep ==
  ASSUME Inv, NEW p \in Processes, AdapterFailure(p)
  PROVE  Inv'
<1> DEFINE g == Loaded(p, Current(p)).generation
<1>1. InBatch(p) /\ UNCHANGED <<jobs, clock, now, lastBy>>
  BY DEF AdapterFailure, InBatch
<1>2. CASE EndSession(p)
  BY <1>1, <1>2, EndSessionStep
<1>3. CASE Fail(p, g) /\ NextJob(p) /\ UNCHANGED <<todo, cands>>
  BY <1>1, <1>3, FailStep
<1>4. QED
  BY <1>2, <1>3 DEF AdapterFailure

\* The gate denies the job, or its cursor cannot be parsed: mark_failed, within the fence.
LEMMA RejectStep ==
  ASSUME Inv, NEW p \in Processes, Reject(p)
  PROVE  Inv'
<1>1. InBatch(p) /\ pc[p] = "decide" /\ UNCHANGED <<jobs, clock, now, todo, cands, lastBy>>
  BY DEF Reject, InBatch, Inv, Session, Control
<1>2. CASE Fail(p, gen[p]) /\ NextJob(p)
  BY <1>1, <1>2, FailStep
<1>3. CASE Fenced(p, gen[p], Owned)
  BY <1>1, <1>3, FencedStep
<1>4. QED
  BY <1>2, <1>3 DEF Reject

\* The provider answers 429: defer_for_quota.
LEMMA DeferForQuotaStep ==
  ASSUME Inv, NEW p \in Processes, DeferForQuota(p)
  PROVE  Inv'
<1>1. InBatch(p) /\ pc[p] = "decide" /\ UNCHANGED <<jobs, clock, now, todo, cands, lastBy>>
  BY DEF DeferForQuota, InBatch, Inv, Session, Control
<1>2. ASSUME NEW resetAt \in ResetAt, NextJob(p),
             OwnedTransition(p, gen[p], Owned,
                             Deferred(View(p, Current(p)), resetAt, now[p]))
      PROVE  Inv'
  <2> DEFINE statuses == Owned
             row == Deferred(View(p, Current(p)), resetAt, now[p])
  <2>1. /\ statuses \in SUBSET Owned /\ Selected(p, gen[p], statuses)
        /\ OwnedTransition(p, gen[p], statuses, row)
    BY <1>2 DEF OwnedTransition
  <2> HIDE DEF statuses
  <2>2. View(p, Current(p)).status \in Owned /\ RowInv(View(p, Current(p)))
    BY <1>1, <2>1, SelectedRow, CurrentJob, ViewInv
  <2>3. now[p] \in Nat
    BY <1>1 DEF Inv, Session, Control
  <2>4. Moved(View(p, Current(p)), row) /\ row.status \notin Owned
    BY <2>2, <2>3, DeferredMoves
  <2> HIDE DEF row
  <2>5. QED
    BY <1>1, <1>2, <2>1, <2>4, TransitionEnds
<1>3. CASE Fenced(p, gen[p], Owned)
  BY <1>1, <1>3, FencedStep
<1>4. QED
  BY <1>2, <1>3 DEF DeferForQuota

\* The provider or the store fails: mark_failed.
LEMMA FetchFailedStep ==
  ASSUME Inv, NEW p \in Processes, FetchFailed(p)
  PROVE  Inv'
<1>1. InBatch(p) /\ pc[p] = "fetching"
  BY DEF FetchFailed, InBatch, Inv, Session, Control
<1>2. QED
  BY <1>1, FailStep DEF FetchFailed

\* The provider answers: assert_owned and mark_done.
LEMMA FetchDoneStep ==
  ASSUME Inv, NEW p \in Processes, FetchDone(p)
  PROVE  Inv'
<1> DEFINE statuses == {"RUNNING"}
           row == Done(View(p, Current(p)))
<1>1. /\ InBatch(p) /\ NextJob(p)
      /\ UNCHANGED <<jobs, clock, now, todo, cands, lastBy>>
  BY DEF FetchDone, InBatch, Inv, Session, Control
<1>2. /\ statuses \in SUBSET Owned /\ Selected(p, gen[p], statuses)
      /\ OwnedTransition(p, gen[p], statuses, row)
  BY DEF FetchDone, OwnedTransition
<1> HIDE DEF statuses
<1>3. View(p, Current(p)).status \in Owned /\ RowInv(View(p, Current(p)))
  BY <1>1, <1>2, SelectedRow, CurrentJob, ViewInv
<1>4. Moved(View(p, Current(p)), row) /\ row.status \notin Owned
  BY <1>3, KeptMoves
<1> HIDE DEF row
<1>5. QED
  BY <1>1, <1>2, <1>4, TransitionEnds
-----------------------------------------------------------------------------
(* Commits.                                                                *)

\* What a session has written before it calls a provider, or after, it may commit.
LEMMA Committable ==
  ASSUME Inv, NEW p \in Processes, pc[p] # "fetching", NEW j \in DOMAIN dirty[p]
  PROVE  /\ j \in Jobs /\ LockHolders(p, j) = {}
         /\ Moved(jobs[j], dirty[p][j])
         /\ dirty[p][j].status \notin Owned
         /\ dirty[p][j] \in Row
         /\ jobs[j].status \in Owned
         /\ pc[p] = "recover" => dirty[p][j].attempt_count = jobs[j].attempt_count + 1
         /\ pc[p] # "recover" /\ IsInjective(WorkerId) => lastBy[j] = p
<1>1. j \in Jobs /\ Writes(p)
  BY DEF Inv, Shape, Session
<1>2. LockHolders(p, j) = {}
  BY DEF Inv, Locks, LockHolders
<1>3. QED
  BY <1>1, <1>2 DEF Writes, Moved, RowInv

\* The commit of the session's writes, by a claim or at the end of the batch, or of
\* the recovery, which does not count as having claimed or moved the job.
LEMMA CommitChanges ==
  ASSUME Inv, NEW p \in Processes, pc[p] # "fetching",
         jobs' = Merged(dirty[p]),
         lastBy' = IF pc[p] = "recover" THEN lastBy ELSE Author(p, dirty[p])
  PROVE  /\ \A j \in Jobs : Change(p, j)
         /\ jobs' \in [Jobs -> Row] /\ lastBy' \in [Jobs -> Processes \union {Null}]
<1>1. \A j \in Jobs :
        /\ jobs'[j] = IF j \in DOMAIN dirty[p] THEN dirty[p][j] ELSE jobs[j]
        /\ lastBy'[j] = IF pc[p] # "recover" /\ j \in DOMAIN dirty[p] THEN p ELSE lastBy[j]
  BY DEF Merged, Author
<1>2. ASSUME NEW j \in Jobs PROVE Change(p, j) /\ jobs'[j] \in Row
  <2>1. CASE j \in DOMAIN dirty[p]
    BY <1>1, <2>1, Committable DEF Change
  <2>2. CASE j \notin DOMAIN dirty[p]
    BY <1>1, <2>2, RowsOfTable DEF Change
  <2>3. QED
    BY <2>1, <2>2
<1>3. jobs' \in [Jobs -> Row]
  BY <1>2 DEF Merged
<1>4. lastBy' \in [Jobs -> Processes \union {Null}]
  BY DEF Inv, Shape, Author
<1>5. QED
  BY <1>2, <1>3, <1>4

\* The commit of a claim.
LEMMA ClaimChanges ==
  ASSUME Inv, NEW p \in Processes, pc[p] \in {"claim", "load"}, now[p] \in Nat,
         NEW j \in Jobs, j \notin DOMAIN dirty[p], TryClaimOne(p, j)
  PROVE  /\ \A k \in Jobs : Change(p, k)
         /\ jobs' \in [Jobs -> Row] /\ lastBy' \in [Jobs -> Processes \union {Null}]
<1> DEFINE row == Claimed(View(p, j), WorkerId[p], now[p])
<1>1. /\ LockHolders(p, j) = {}
      /\ Claimable(View(p, j))
      /\ jobs' = Merged(With(dirty[p], j, row))
      /\ lastBy' = Author(p, With(dirty[p], j, row))
  BY DEF TryClaimOne
<1>2. View(p, j) = jobs[j] /\ RowInv(jobs[j])
  BY RowsOfTable DEF View
<1>3. Granted(p, jobs[j], row)
  BY <1>1, <1>2, ClaimGrants
<1> HIDE DEF row
<1>4. /\ DOMAIN With(dirty[p], j, row) = DOMAIN dirty[p] \union {j}
      /\ With(dirty[p], j, row)[j] = row
      /\ \A k \in DOMAIN dirty[p] : With(dirty[p], j, row)[k] = dirty[p][k]
  BY DEF With
<1>5. \A k \in Jobs :
        /\ jobs'[k] = IF k = j THEN row
                      ELSE IF k \in DOMAIN dirty[p] THEN dirty[p][k] ELSE jobs[k]
        /\ lastBy'[k] = IF k = j \/ k \in DOMAIN dirty[p] THEN p ELSE lastBy[k]
  BY <1>1, <1>4 DEF Merged, Author
<1>6. row \in Row /\ RowInv(row)
  BY <1>3 DEF Granted, RowInv
<1>7. ASSUME NEW k \in Jobs PROVE Change(p, k) /\ jobs'[k] \in Row
  <2>1. CASE k = j
    BY <1>1, <1>3, <1>5, <1>6, <2>1 DEF Change
  <2>2. CASE k # j /\ k \in DOMAIN dirty[p]
    BY <1>5, <2>2, Committable DEF Change
  <2>3. CASE k # j /\ k \notin DOMAIN dirty[p]
    BY <1>5, <2>3, RowsOfTable DEF Change
  <2>4. QED
    BY <2>1, <2>2, <2>3
<1>8. jobs' \in [Jobs -> Row]
  BY <1>1, <1>7 DEF Merged
<1>9. lastBy' \in [Jobs -> Processes \union {Null}]
  BY <1>1 DEF Inv, Shape, Author
<1>10. QED
  BY <1>7, <1>8, <1>9

\* The commit of a batch publishes what it made of its rows.
LEMMA CommitBatchStep ==
  ASSUME Inv, NEW p \in Processes, CommitBatch(p)
  PROVE  Inv'
<1>1. /\ pc[p] = "load" /\ jobs' = Merged(dirty[p]) /\ lastBy' = Author(p, dirty[p])
      /\ EndSession(p) /\ UNCHANGED <<clock, now>>
  BY DEF CommitBatch
<1>2. /\ \A j \in Jobs : Change(p, j)
      /\ jobs' \in [Jobs -> Row] /\ lastBy' \in [Jobs -> Processes \union {Null}]
  BY <1>1, CommitChanges
<1>3. Session(p)' /\ Others(p) /\ DOMAIN dirty'[p] = {}
  BY <1>1, EndSessionSession
<1>4. Shape'
  BY <1>1, <1>2, EndSessionShape DEF Inv, Shape
<1>5. QED
  BY <1>2, <1>3, <1>4, StepInv
\* The next claim_next, with the same session.
LEMMA ClaimAgainStep ==
  ASSUME Inv, NEW p \in Processes, ClaimAgain(p)
  PROVE  Inv'
<1> DEFINE j == Current(p)
<1>1. /\ InBatch(p) /\ pc[p] = "load" /\ UNCHANGED <<clock, now, todo, cands>>
      /\ dirty' = [dirty EXCEPT ![p] = NoWrites]
  BY DEF ClaimAgain, InBatch
<1>2. j \in Jobs /\ j \notin DOMAIN dirty[p] /\ now[p] \in Nat /\ Control(p)
  BY <1>1, CurrentJob DEF Inv, Session, Control
<1>3. /\ DOMAIN dirty' = Processes /\ DOMAIN dirty'[p] = {}
      /\ \A q \in Processes \ {p} : dirty'[q] = dirty[q]
      /\ \A q \in Processes : DOMAIN dirty'[q] \subseteq Jobs
  BY <1>1 DEF Inv, Shape, NoWrites
<1>4. Writes(p)'
  BY <1>3 DEF Writes
<1>5. CASE /\ TryClaimOne(p, j)
           /\ Goto(p, "reclaim")
           /\ UNCHANGED <<batch, gen, obj>>
  <2>1. /\ \A k \in Jobs : Change(p, k)
        /\ jobs' \in [Jobs -> Row] /\ lastBy' \in [Jobs -> Processes \union {Null}]
    BY <1>1, <1>2, <1>5, ClaimChanges
  <2>2. /\ pc' \in [Processes -> PC] /\ pc'[p] = "reclaim"
        /\ \A q \in Processes \ {p} : pc'[q] = pc[q]
    BY <1>5 DEF Goto, Inv, Shape, PC
  <2>3. Others(p)
    BY <1>1, <1>3, <1>5, <2>2 DEF Others
  <2>4. Shape'
    BY <1>1, <1>3, <1>5, <2>1, <2>2 DEF Inv, Shape
  <2>5. Control(p)'
    <3>1. IsInjective(batch[p]) /\ batch[p] # <<>>
      BY <1>1, <1>2 DEF Control, InBatch
    <3>2. QED
      BY <1>1, <1>2, <1>3, <1>5, <2>2, <3>1 DEF Control
  <2>6. Objects(p)'
    BY <1>5, <2>1, FreshKept DEF Objects
  <2>7. QED
    BY <1>3, <1>4, <2>1, <2>3, <2>4, <2>5, <2>6, StepInv DEF Session
<1>6. CASE /\ jobs' = Merged(dirty[p])
           /\ lastBy' = Author(p, dirty[p])
           /\ NextJob(p)
           /\ UNCHANGED obj
  <2>1. /\ \A k \in Jobs : Change(p, k)
        /\ jobs' \in [Jobs -> Row] /\ lastBy' \in [Jobs -> Processes \union {Null}]
    BY <1>1, <1>6, CommitChanges
  <2>2. Others(p)
    BY <1>1, <1>3, <1>6 DEF Others, NextJob, Goto, Inv, Shape
  <2>3. Shape'
    BY <1>1, <1>3, <1>6, <2>1, NextJobShape DEF Inv, Shape
  <2>4. Control(p)'
    BY <1>1, <1>3, <1>6, NextJobSession
  <2>5. Objects(p)'
    BY <1>6, <2>1, FreshKept DEF Objects
  <2>6. QED
    BY <1>3, <1>4, <2>1, <2>2, <2>3, <2>4, <2>5, StepInv DEF Session
<1>7. QED
  BY <1>1, <1>5, <1>6 DEF ClaimAgain

\* A claimed job is read again: the object is as fresh as the committed row, which may
\* be in the hands of another process by now.
LEMMA RereadObject ==
  ASSUME Inv, NEW p \in Processes, NEW j \in Jobs,
         obj' = [obj EXCEPT ![p][j] = Image(jobs[j])], UNCHANGED jobs
  PROVE  /\ obj' \in [Processes -> [Jobs -> Images]]
         /\ \A q \in Processes \ {p} : obj'[q] = obj[q]
         /\ obj'[p][j] = Image(jobs[j]) /\ Image(jobs[j]).generation \in Nat
         /\ Objects(p)'
<1> DEFINE o == Image(jobs[j])
<1>1. Fresh(o, jobs[j]) /\ o \in Images
  BY RowsOfTable, UnmovedIsFresh
<1>2. o.generation \in Nat
  BY <1>1 DEF Images
<1> HIDE DEF o
<1>3. obj \in [Processes -> [Jobs -> Images]] /\ Objects(p)
  BY DEF Inv, Shape, Session
<1>4. /\ obj' \in [Processes -> [Jobs -> Images]]
      /\ \A q \in Processes \ {p} : obj'[q] = obj[q]
      /\ \A k \in Jobs : obj'[p][k] = IF k = j THEN o ELSE obj[p][k]
  BY <1>1, <1>3 DEF o
<1>5. Objects(p)'
  BY <1>1, <1>3, <1>4 DEF Objects
<1>6. QED
  BY <1>2, <1>4, <1>5 DEF o

\* The job that claim_job claimed is read again.
LEMMA RereadAgainStep ==
  ASSUME Inv, NEW p \in Processes, RereadAgain(p)
  PROVE  Inv'
<1> DEFINE j == Current(p)
           o == Image(jobs[j])
<1>1. /\ pc[p] = "reclaim"
      /\ obj' = [obj EXCEPT ![p][j] = o]
      /\ gen' = [gen EXCEPT ![p] = o.generation]
      /\ pc' = [pc EXCEPT ![p] = "decide"]
      /\ UNCHANGED <<jobs, clock, now, todo, cands, batch, dirty, lastBy>>
  BY DEF RereadAgain, Goto
<1>2. /\ Control(p) /\ DOMAIN dirty[p] = {} /\ batch[p] # <<>>
      /\ batch[p] \in Seq(Jobs)
  BY <1>1 DEF Inv, Shape, Session, Control
<1>3. j \in Jobs
  BY <1>2, TailOf DEF Current
<1>4. /\ obj' \in [Processes -> [Jobs -> Images]]
      /\ \A q \in Processes \ {p} : obj'[q] = obj[q]
      /\ obj'[p][j] = o /\ o.generation \in Nat
      /\ Objects(p)'
  BY <1>1, <1>3, RereadObject
<1> HIDE DEF o
<1>5. /\ gen' \in [Processes -> Nat] /\ gen'[p] = o.generation
      /\ pc' \in [Processes -> PC] /\ pc'[p] = "decide"
      /\ \A q \in Processes \ {p} : gen'[q] = gen[q] /\ pc'[q] = pc[q]
  BY <1>1, <1>4 DEF Inv, Shape, PC
<1>6. Others(p)
  BY <1>1, <1>4, <1>5 DEF Others
<1>7. Shape'
  BY <1>1, <1>4, <1>5 DEF Inv, Shape
<1>8. Control(p)'
  <2>1. Current(p)' = j
    BY <1>1 DEF Current
  <2>2. now[p] \in Nat /\ IsInjective(batch[p])
    BY <1>1, <1>2 DEF Control
  <2>3. QED
    BY <1>1, <1>2, <1>4, <1>5, <2>1, <2>2 DEF Control
<1>9. Writes(p)'
  BY <1>1, <1>2 DEF Writes
<1>10. QED
  BY <1>1, <1>4, <1>6, <1>7, <1>8, <1>9, StepInv DEF Session, Change

-----------------------------------------------------------------------------
(* The claim phase.                                                        *)

\* The order in which a statement meets its rows.
LEMMA OrderingOf ==
  ASSUME NEW S \in SUBSET Jobs, NEW s \in Orderings(S)
  PROVE  s \in Seq(Jobs) /\ IsInjective(s)
<1>1. Cardinality(S) \in Nat
  BY CycleAssumption, FS_Subset, FS_CardinalityType
<1>2. s \in [1 .. Cardinality(S) -> Jobs] /\ IsInjective(s)
  BY DEF Orderings
<1>3. QED
  BY <1>1, <1>2, SeqDef

\* A step that changes neither a row, nor an object, nor the writes of a session.
LEMMA QuietStep ==
  ASSUME Inv, NEW p \in Processes, Shape', Others(p), Control(p)',
         pc[p] \notin {"recover", "fetching"}, pc'[p] \notin {"recover", "fetching"},
         UNCHANGED <<jobs, obj, dirty, lastBy>>
  PROVE  Inv'
<1>1. Writes(p)' /\ Objects(p)'
  BY DEF Inv, Session, Writes, Objects
<1>2. QED
  BY <1>1, StepInv DEF Session, Change

\* A cycle begins: its instant is read.
LEMMA StartCycleStep ==
  ASSUME Inv, NEW p \in Processes, StartCycle(p)
  PROVE  Inv'
<1>1. /\ pc[p] = "idle" /\ pc'[p] = "refresh" /\ now'[p] = clock
      /\ UNCHANGED <<jobs, clock, todo, cands, batch, obj, gen, dirty, lastBy>>
  BY DEF StartCycle, Goto, Inv, Shape
<1>2. Others(p)
  BY <1>1 DEF StartCycle, Goto, Others, Inv, Shape
<1>3. clock \in Nat /\ clock \in -1 .. MaxClock
  BY CycleAssumption DEF Inv, Shape
<1>4. Shape'
  BY <1>1, <1>3 DEF StartCycle, Goto, Inv, Shape, PC
<1>5. Control(p)'
  BY <1>1, <1>3 DEF Inv, Session, Control
<1>6. QED
  BY <1>1, <1>2, <1>4, <1>5, QuietStep

\* The first elements of a sequence of different ones.
LEMMA PrefixOf ==
  ASSUME NEW S, NEW s \in Seq(S), IsInjective(s), NEW n \in Nat, n <= Len(s)
  PROVE  SubSeq(s, 1, n) \in Seq(S) /\ IsInjective(SubSeq(s, 1, n))
<1> DEFINE t == SubSeq(s, 1, n)
<1>1. DOMAIN s = 1 .. Len(s) /\ Len(s) \in Nat
  BY LenProperties
<1>2. /\ t \in Seq(S) /\ Len(t) = IF 1 <= n THEN n - 1 + 1 ELSE 0
      /\ \A i \in 1 .. n - 1 + 1 : t[i] = s[1 + i - 1]
  <2>1. \A i \in 1 .. n : s[i] \in S
    BY <1>1
  <2>2. QED
    BY <2>1, SubSeqProperties
<1> HIDE DEF t
<1>3. DOMAIN t = 1 .. Len(t) /\ Len(t) = n
  BY <1>2, LenProperties
<1>4. \A i \in DOMAIN t : i \in DOMAIN s /\ t[i] = s[i]
  BY <1>1, <1>2, <1>3
<1>5. IsInjective(t)
  BY <1>4 DEF IsInjective
<1>6. QED
  BY <1>2, <1>5 DEF t

\* The SELECT of claim_next.
LEMMA SelectStep ==
  ASSUME Inv, NEW p \in Processes, Select(p)
  PROVE  Inv'
<1>1. /\ pc[p] = "select" /\ pc'[p] = "claim"
      /\ UNCHANGED <<jobs, clock, now, todo, batch, obj, gen, dirty, lastBy>>
  BY DEF Select, Goto, Inv, Shape
<1>2. PICK order \in Orderings({j \in Jobs : /\ jobs[j].status = "PENDING"
                                             /\ jobs[j].next_run_at <= now[p]}) :
        cands' = [cands EXCEPT ![p] =
                    IF Len(order) <= CandidateLimit THEN order
                                                    ELSE SubSeq(order, 1, CandidateLimit)]
  BY DEF Select
<1> DEFINE s == IF Len(order) <= CandidateLimit THEN order
                                                ELSE SubSeq(order, 1, CandidateLimit)
<1>3. s \in Seq(Jobs) /\ IsInjective(s)
  <2>1. order \in Seq(Jobs) /\ IsInjective(order)
    BY OrderingOf
  <2>2. CASE Len(order) <= CandidateLimit
    BY <2>1, <2>2
  <2>3. CASE ~ (Len(order) <= CandidateLimit)
    <3>1. CandidateLimit \in Nat /\ Len(order) \in Nat /\ CandidateLimit <= Len(order)
      BY <2>1, <2>3, LenProperties, CycleAssumption DEF CandidateLimit
    <3>2. QED
      BY <2>1, <2>3, <3>1, PrefixOf
  <2>4. QED
    BY <2>2, <2>3
<1> HIDE DEF s
<1>4. cands' \in [Processes -> Seq(Jobs)] /\ cands'[p] = s
      /\ \A q \in Processes \ {p} : cands'[q] = cands[q]
  BY <1>2, <1>3 DEF Inv, Shape, s
<1>5. Others(p)
  BY <1>1, <1>4 DEF Select, Goto, Others, Inv, Shape
<1>6. Shape'
  BY <1>1, <1>4 DEF Select, Goto, Inv, Shape, PC
<1>7. Control(p)'
  <2>1. Control(p) /\ batch[p] = <<>> /\ DOMAIN batch[p] = {}
    BY <1>1 DEF Inv, Session, Control
  <2>2. QED
    BY <1>1, <1>3, <1>4, <2>1 DEF Control
<1>8. QED
  BY <1>1, <1>5, <1>6, <1>7, QuietStep

\* The claims end, with the batch full or no candidate left.
LEMMA EndClaimsStep ==
  ASSUME Inv, NEW p \in Processes, EndClaims(p)
  PROVE  Inv'
<1>1. /\ pc[p] = "claim" /\ pc'[p] = "load"
      /\ UNCHANGED <<jobs, clock, now, todo, batch, obj, gen, dirty, lastBy>>
  BY DEF EndClaims, Goto, Inv, Shape
<1>2. Others(p)
  BY <1>1 DEF EndClaims, Goto, Others, Inv, Shape
<1>3. <<>> \in Seq(Jobs)
  BY EmptySeq
<1>4. Shape'
  BY <1>1, <1>3 DEF EndClaims, Goto, Inv, Shape, PC
<1>5. Control(p)'
  BY <1>1 DEF Inv, Session, Control
<1>6. QED
  BY <1>1, <1>2, <1>4, <1>5, QuietStep
\* The candidates are tried one after the other.
LEMMA NextCandidate ==
  ASSUME Inv, NEW p \in Processes, pc[p] \in {"claim", "reread"}, cands[p] # <<>>
  PROVE  /\ Head(cands[p]) \in Jobs
         /\ \A n \in DOMAIN batch[p] : batch[p][n] # Head(cands[p])
         /\ Tail(cands[p]) \in Seq(Jobs) /\ IsInjective(Tail(cands[p]))
         /\ \A m \in DOMAIN Tail(cands[p]) :
              /\ Tail(cands[p])[m] # Head(cands[p])
              /\ \A n \in DOMAIN batch[p] : Tail(cands[p])[m] # batch[p][n]
<1>1. /\ cands[p] \in Seq(Jobs) /\ IsInjective(cands[p])
      /\ \A m \in DOMAIN cands[p], n \in DOMAIN batch[p] : cands[p][m] # batch[p][n]
  BY DEF Inv, Shape, Session, Control
<1>2. /\ Head(cands[p]) \in Jobs /\ Head(cands[p]) = cands[p][1] /\ 1 \in DOMAIN cands[p]
      /\ Tail(cands[p]) \in Seq(Jobs)
      /\ \A m \in DOMAIN Tail(cands[p]) :
           m + 1 \in DOMAIN cands[p] /\ Tail(cands[p])[m] = cands[p][m + 1]
  BY <1>1, TailOf
<1>3. /\ IsInjective(Tail(cands[p]))
      /\ \A m \in DOMAIN Tail(cands[p]) : Tail(cands[p])[m] # Head(cands[p])
  BY <1>1, TailIsInjective
<1>4. QED
  BY <1>1, <1>2, <1>3

\* The next candidate is claimed, or skipped.
LEMMA ClaimCandidateStep ==
  ASSUME Inv, NEW p \in Processes, ClaimCandidate(p)
  PROVE  Inv'
<1> DEFINE j == Head(cands[p])
<1>1. /\ pc[p] = "claim" /\ cands[p] # <<>>
      /\ UNCHANGED <<clock, now, todo, batch, obj, gen, dirty>>
  BY DEF ClaimCandidate
<1>2. /\ Control(p) /\ now[p] \in Nat /\ DOMAIN dirty[p] = {} /\ j \in Jobs
      /\ IsInjective(batch[p])
  BY <1>1, NextCandidate DEF Inv, Session, Control
<1>3. Writes(p)'
  BY <1>1, <1>2 DEF Writes
<1>4. CASE TryClaimOne(p, j) /\ Goto(p, "reread") /\ UNCHANGED cands
  <2>1. /\ \A k \in Jobs : Change(p, k)
        /\ jobs' \in [Jobs -> Row] /\ lastBy' \in [Jobs -> Processes \union {Null}]
    BY <1>1, <1>2, <1>4, ClaimChanges
  <2>2. /\ pc' \in [Processes -> PC] /\ pc'[p] = "reread"
        /\ \A q \in Processes \ {p} : pc'[q] = pc[q]
    BY <1>4 DEF Goto, Inv, Shape, PC
  <2>3. Others(p)
    BY <1>1, <1>4, <2>2 DEF Others
  <2>4. Shape'
    BY <1>1, <1>4, <2>1, <2>2 DEF Inv, Shape
  <2>5. Control(p)'
    BY <1>1, <1>2, <1>4, <2>2 DEF Control
  <2>6. Objects(p)'
    BY <1>1, <2>1, FreshKept DEF Objects
  <2>7. QED
    BY <1>1, <1>3, <2>1, <2>3, <2>4, <2>5, <2>6, StepInv DEF Session
<1>5. CASE /\ cands' = [cands EXCEPT ![p] = Tail(cands[p])]
           /\ UNCHANGED <<jobs, pc, lastBy>>
  <2>1. /\ cands' \in [Processes -> Seq(Jobs)] /\ cands'[p] = Tail(cands[p])
        /\ \A q \in Processes \ {p} : cands'[q] = cands[q]
    BY <1>1, <1>5, NextCandidate DEF Inv, Shape
  <2>2. Others(p)
    BY <1>1, <1>5, <2>1 DEF Others
  <2>3. Shape'
    BY <1>1, <1>5, <2>1 DEF Inv, Shape
  <2>4. Control(p)'
    BY <1>1, <1>2, <1>5, <2>1, NextCandidate DEF Control
  <2>5. QED
    BY <1>1, <1>5, <2>2, <2>3, <2>4, QuietStep
<1>6. QED
  BY <1>1, <1>4, <1>5 DEF ClaimCandidate

\* The candidate it claimed is read again, and joins the batch as a job of its own.
LEMMA RereadCandidateStep ==
  ASSUME Inv, NEW p \in Processes, RereadCandidate(p)
  PROVE  Inv'
<1> DEFINE j == Head(cands[p])
           b == Append(batch[p], j)
<1>1. /\ pc[p] = "reread" /\ pc'[p] = "claim" /\ pc' \in [Processes -> PC]
      /\ \A q \in Processes \ {p} : pc'[q] = pc[q]
      /\ obj' = [obj EXCEPT ![p][j] = Image(jobs[j])]
      /\ batch' = [batch EXCEPT ![p] = b]
      /\ cands' = [cands EXCEPT ![p] = Tail(cands[p])]
      /\ UNCHANGED <<jobs, clock, now, todo, gen, dirty, lastBy>>
  BY DEF RereadCandidate, Goto, Inv, Shape, PC
<1>2. /\ Control(p) /\ now[p] \in Nat /\ DOMAIN dirty[p] = {} /\ cands[p] # <<>>
      /\ IsInjective(batch[p]) /\ batch[p] \in Seq(Jobs)
  BY <1>1 DEF Inv, Shape, Session, Control
<1>3. /\ j \in Jobs /\ \A n \in DOMAIN batch[p] : batch[p][n] # j
      /\ Tail(cands[p]) \in Seq(Jobs) /\ IsInjective(Tail(cands[p]))
      /\ \A m \in DOMAIN Tail(cands[p]) :
           /\ Tail(cands[p])[m] # j
           /\ \A n \in DOMAIN batch[p] : Tail(cands[p])[m] # batch[p][n]
  BY <1>1, <1>2, NextCandidate
<1>4. /\ cands' \in [Processes -> Seq(Jobs)] /\ cands'[p] = Tail(cands[p])
      /\ \A q \in Processes \ {p} : cands'[q] = cands[q]
  BY <1>1, <1>3 DEF Inv, Shape
<1>5. b \in Seq(Jobs) /\ Len(b) = Len(batch[p]) + 1 /\ b[Len(b)] = j
      /\ \A n \in 1 .. Len(batch[p]) : b[n] = batch[p][n]
  BY <1>2, <1>3, AppendProperties
<1>6. Len(batch[p]) \in Nat /\ DOMAIN batch[p] = 1 .. Len(batch[p])
      /\ DOMAIN b = 1 .. Len(batch[p]) + 1
  BY <1>2, <1>5, LenProperties
<1> HIDE DEF b
<1>7. \A n \in DOMAIN b :
        \/ n \in DOMAIN batch[p] /\ b[n] = batch[p][n]
        \/ n = Len(batch[p]) + 1 /\ b[n] = j
  BY <1>5, <1>6
<1>8. IsInjective(b)
  BY <1>2, <1>3, <1>7 DEF IsInjective
<1>9. /\ batch' \in [Processes -> Seq(Jobs)] /\ batch'[p] = b
      /\ \A q \in Processes \ {p} : batch'[q] = batch[q]
  BY <1>1, <1>5 DEF Inv, Shape
<1>10. /\ obj' \in [Processes -> [Jobs -> Images]]
       /\ \A q \in Processes \ {p} : obj'[q] = obj[q]
       /\ Objects(p)'
  BY <1>1, <1>3, RereadObject
<1>11. Others(p)
  BY <1>1, <1>4, <1>9, <1>10 DEF Others
<1>12. Shape'
  BY <1>1, <1>4, <1>9, <1>10 DEF Inv, Shape
<1>13. Control(p)'
  <2>1. \A m \in DOMAIN cands'[p], n \in DOMAIN batch'[p] : cands'[p][m] # batch'[p][n]
    BY <1>3, <1>4, <1>7, <1>9
  <2>2. QED
    BY <1>1, <1>2, <1>3, <1>4, <1>8, <1>9, <2>1 DEF Control
<1>14. Writes(p)'
  BY <1>1, <1>2 DEF Writes
<1>15. QED
  BY <1>1, <1>10, <1>11, <1>12, <1>13, <1>14, StepInv DEF Session, Change

\* The recovery UPDATE begins to visit the table.
LEMMA RecoverStartStep ==
  ASSUME Inv, NEW p \in Processes, RecoverStart(p)
  PROVE  Inv'
<1>1. /\ pc[p] = "refresh" /\ pc'[p] = "recover"
      /\ UNCHANGED <<jobs, clock, now, cands, batch, obj, gen, dirty, lastBy>>
  BY DEF RecoverStart, Goto, Inv, Shape
<1>2. PICK order \in Orderings({j \in Jobs : Expired(jobs[j], now[p])}) :
        todo' = [todo EXCEPT ![p] = order]
  BY DEF RecoverStart
<1>3. todo' \in [Processes -> Seq(Jobs)]
  BY <1>2, OrderingOf DEF Inv, Shape
<1>4. Others(p)
  BY <1>1 DEF RecoverStart, Goto, Others, Inv, Shape
<1>5. Shape'
  BY <1>1, <1>3 DEF RecoverStart, Goto, Inv, Shape, PC
<1>6. Control(p) /\ DOMAIN dirty[p] = {} /\ DOMAIN batch[p] = {}
  BY <1>1 DEF Inv, Session, Control
<1>7. Session(p)'
  BY <1>1, <1>6 DEF Inv, Session, Control, Writes, Objects
<1>8. QED
  BY <1>1, <1>4, <1>5, <1>7, StepInv DEF Change

\* An expired row, which no other session has written, is recovered, or left alone.
LEMMA RecoverRowStep ==
  ASSUME Inv, NEW p \in Processes, RecoverRow(p)
  PROVE  Inv'
<1> DEFINE j == Head(todo[p])
           row == Recovered(jobs[j], now[p])
<1>1. /\ pc[p] = "recover" /\ todo[p] # <<>> /\ LockHolders(p, j) = {}
      /\ todo' = [todo EXCEPT ![p] = Tail(todo[p])]
      /\ UNCHANGED <<jobs, clock, pc, now, cands, batch, obj, gen, lastBy>>
  BY DEF RecoverRow
<1>2. j \in Jobs /\ Tail(todo[p]) \in Seq(Jobs)
  BY <1>1, TailOf DEF Inv, Shape
<1>3. todo' \in [Processes -> Seq(Jobs)]
  BY <1>1, <1>2 DEF Inv, Shape
<1>4. Control(p) /\ Writes(p) /\ Objects(p) /\ now[p] \in Nat
      /\ batch[p] = <<>> /\ DOMAIN batch[p] = {}
      /\ \A k \in Jobs : obj[p][k] = Unloaded
  BY <1>1 DEF Inv, Session, Control
<1>5. Control(p)' /\ Objects(p)'
  BY <1>1, <1>4 DEF Control, Objects
<1>6. CASE Expired(jobs[j], now[p]) /\ dirty' = [dirty EXCEPT ![p] = With(dirty[p], j, row)]
  <2>1. /\ Moved(jobs[j], row)
        /\ jobs[j].status \in Owned /\ row.status \notin Owned
        /\ row.attempt_count = jobs[j].attempt_count + 1
    BY <1>2, <1>4, <1>6, RowsOfTable, RecoveredMoves
  <2> HIDE DEF row
  <2>2. /\ DOMAIN dirty' = Processes /\ dirty'[p] = With(dirty[p], j, row)
        /\ \A q \in Processes \ {p} : dirty'[q] = dirty[q]
    BY <1>6 DEF Inv, Shape
  <2>3. /\ DOMAIN dirty'[p] = DOMAIN dirty[p] \union {j}
        /\ \A k \in DOMAIN dirty'[p] :
             dirty'[p][k] = IF k = j THEN row ELSE dirty[p][k]
    BY <2>2 DEF With
  <2>4. \A q \in Processes : DOMAIN dirty'[q] \subseteq Jobs
    BY <1>2, <2>2, <2>3 DEF Inv, Shape
  <2>5. Others(p)
    BY <1>1, <2>2 DEF Others
  <2>6. Shape'
    BY <1>1, <1>3, <2>2, <2>4 DEF Inv, Shape
  <2>7. Writes(p)'
    <3>1. SUFFICES ASSUME NEW k \in DOMAIN dirty'[p]
                   PROVE  /\ jobs[k].status \in Owned
                          /\ Moved(jobs[k], dirty'[p][k])
                          /\ dirty'[p][k].status \notin Owned
                          /\ obj[p][k] = Unloaded
                          /\ dirty'[p][k].attempt_count = jobs[k].attempt_count + 1
      BY <1>1 DEF Writes
    <3>2. k \in Jobs /\ obj[p][k] = Unloaded
      BY <1>4, <2>4
    <3>3. CASE k = j
      BY <2>1, <2>3, <3>2, <3>3
    <3>4. CASE k # j
      BY <1>1, <1>4, <2>3, <3>2, <3>4 DEF Writes
    <3>5. QED
      BY <3>3, <3>4
  <2>8. QED
    BY <1>1, <1>5, <2>3, <2>5, <2>6, <2>7, StepInv DEF Session, Change
<1>7. CASE dirty' = dirty
  <2>1. Others(p) /\ Shape'
    BY <1>1, <1>3, <1>7 DEF Others, Inv, Shape
  <2>2. Writes(p)'
    BY <1>1, <1>4, <1>7 DEF Writes
  <2>3. QED
    BY <1>1, <1>5, <1>7, <2>1, <2>2, StepInv DEF Session, Change
<1>8. QED
  BY <1>6, <1>7 DEF RecoverRow
\* The commit of the recovery.
LEMMA RecoverCommitStep ==
  ASSUME Inv, NEW p \in Processes, RecoverCommit(p)
  PROVE  Inv'
<1>1. /\ pc[p] = "recover" /\ pc'[p] = "promote" /\ jobs' = Merged(dirty[p])
      /\ dirty' = [dirty EXCEPT ![p] = NoWrites]
      /\ UNCHANGED <<clock, now, todo, cands, batch, obj, gen, lastBy>>
  BY DEF RecoverCommit, Goto, Inv, Shape
<1>2. \A j \in Jobs : Change(p, j)
  BY <1>1, CommitChanges
<1>3. jobs' \in [Jobs -> Row]
  BY <1>1, CommitChanges
<1>4. /\ DOMAIN dirty' = Processes /\ DOMAIN dirty'[p] = {}
      /\ \A q \in Processes \ {p} : dirty'[q] = dirty[q]
      /\ \A q \in Processes : DOMAIN dirty'[q] \subseteq Jobs
  BY <1>1 DEF Inv, Shape, NoWrites
<1>5. Others(p)
  BY <1>1, <1>4 DEF RecoverCommit, Goto, Others, Inv, Shape
<1>6. Shape'
  BY <1>1, <1>3, <1>4 DEF RecoverCommit, Goto, Inv, Shape, PC
<1>7. Session(p)'
  <2>1. /\ Control(p) /\ batch[p] = <<>> /\ \A j \in Jobs : obj[p][j] = Unloaded
    BY <1>1 DEF Inv, Session, Control
  <2>2. QED
    BY <1>1, <1>4, <2>1 DEF Session, Control, Writes, Objects
<1>8. QED
  BY <1>2, <1>4, <1>5, <1>6, <1>7, StepInv

\* No session has written a waiting row: what it has written was owned.
LEMMA PromoteChanges ==
  ASSUME Inv, NEW p \in Processes, Promote(p)
  PROVE  /\ \A j \in Jobs : Change(p, j)
         /\ jobs' \in [Jobs -> Row]
<1>1. now[p] \in Nat /\ lastBy' = lastBy
  BY DEF Promote, Inv, Session, Control
<1>2. ASSUME NEW j \in Jobs PROVE Change(p, j) /\ jobs'[j] \in Row
  <2>1. CASE DueWaiting(jobs[j], now[p])
    <3>1. jobs'[j] = Promoted(jobs[j])
      BY <2>1 DEF Promote
    <3>2. Moved(jobs[j], jobs'[j]) /\ jobs'[j].status \notin Owned /\ jobs'[j] \in Row
      BY <1>1, <2>1, <3>1, RowsOfTable, PromotedMoves DEF Moved, RowInv
    <3>3. jobs[j].status \notin Owned
      BY <2>1 DEF DueWaiting
    <3>4. \A q \in Processes : j \notin DOMAIN dirty[q]
      BY <3>3 DEF Inv, Session, Writes
    <3>5. LockHolders(p, j) = {}
      BY <3>4 DEF LockHolders
    <3>6. QED
      BY <1>1, <3>2, <3>3, <3>5 DEF Change
  <2>2. CASE ~ DueWaiting(jobs[j], now[p])
    <3>1. jobs'[j] = jobs[j]
      BY <2>2 DEF Promote
    <3>2. QED
      BY <1>1, <3>1, RowsOfTable DEF Change
  <2>3. QED
    BY <2>1, <2>2
<1>3. jobs' \in [Jobs -> Row]
  BY <1>2 DEF Promote
<1>4. QED
  BY <1>2, <1>3

\* promote_waiting_for_publication.
LEMMA PromoteStep ==
  ASSUME Inv, NEW p \in Processes, Promote(p)
  PROVE  Inv'
<1>1. /\ pc[p] = "promote" /\ pc'[p] = "select"
      /\ UNCHANGED <<clock, now, todo, cands, batch, obj, gen, dirty, lastBy>>
  BY DEF Promote, Goto, Inv, Shape
<1>2. Others(p)
  BY <1>1 DEF Promote, Goto, Others, Inv, Shape
<1>3. Shape'
  BY <1>1, PromoteChanges DEF Promote, Goto, Inv, Shape, PC
<1>4. Session(p)'
  <2>1. /\ Control(p) /\ batch[p] = <<>> /\ DOMAIN dirty[p] = {}
        /\ \A j \in Jobs : obj[p][j] = Unloaded
    BY <1>1 DEF Inv, Session, Control
  <2>2. QED
    BY <1>1, <2>1 DEF Session, Control, Writes, Objects
<1>5. QED
  BY <1>1, <1>2, <1>3, <1>4, PromoteChanges, StepInv

-----------------------------------------------------------------------------
(* The invariant.                                                          *)

\* Initially no process has begun and every row is as a refresh left it.
LEMMA InitInv == Init => Inv
<1> SUFFICES ASSUME Init PROVE Inv
  OBVIOUS
<1>1. \A r \in InitialRows :
        /\ r \in Row /\ r.status \in {"PENDING", "WAITING_FOR_PUBLICATION"}
        /\ r.attempt_count = 0 /\ r.generation = 0
        /\ r.claimed_by = Null /\ r.claimed_at = Null
  <2> TAKE r \in InitialRows
  <2> DEFINE w == r.next_run_at
  <2>1. w \in Nat /\ r \in {PendingRow(w), WaitingRow(w)}
    BY CycleAssumption
  <2>2. CASE r = PendingRow(w)
    <3> HIDE DEF w
    <3>1. /\ PendingRow(w) \in Row /\ PendingRow(w).status = "PENDING"
          /\ PendingRow(w).attempt_count = 0 /\ PendingRow(w).generation = 0
          /\ PendingRow(w).claimed_by = Null /\ PendingRow(w).claimed_at = Null
      BY <2>1 DEF PendingRow, NoRow, Row, Status
    <3>2. QED
      BY <2>2, <3>1
  <2>3. CASE r = WaitingRow(w)
    <3> HIDE DEF w
    <3>1. /\ WaitingRow(w) \in Row /\ WaitingRow(w).status = "WAITING_FOR_PUBLICATION"
          /\ WaitingRow(w).attempt_count = 0 /\ WaitingRow(w).generation = 0
          /\ WaitingRow(w).claimed_by = Null /\ WaitingRow(w).claimed_at = Null
      BY <2>1 DEF WaitingRow, NoRow, Row, Status
    <3>2. QED
      BY <2>3, <3>1
  <2>4. QED
    BY <2>1, <2>2, <2>3
<1>2. \A r \in InitialRows : RowInv(r)
  BY <1>1, LimitsAssumption DEF RowInv, Ownership, Budget
<1>3. \A j \in Jobs : jobs[j] \in InitialRows
  BY DEF Init
<1>4. Shape
  <2>1. <<>> \in Seq(Jobs) /\ "idle" \in PC /\ DOMAIN NoWrites = {}
    BY EmptySeq DEF PC, NoWrites
  <2>2. jobs \in [Jobs -> Row]
    BY <1>1 DEF Init
  <2>3. obj \in [Processes -> [Jobs -> Images]]
    BY UnloadedImage DEF Init
  <2>4. -1 \in -1 .. MaxClock /\ 0 \in 0 .. MaxClock
    BY CycleAssumption
  <2>5. QED
    BY <2>1, <2>2, <2>3, <2>4 DEF Init, Shape
<1>5. Table
  BY <1>1, <1>2, <1>3 DEF Table
<1>6. \A p \in Processes : DOMAIN dirty[p] = {} /\ DOMAIN batch[p] = {}
  BY DEF Init, NoWrites
<1>7. Locks
  BY <1>6 DEF Locks
<1>8. ASSUME NEW p \in Processes PROVE Session(p)
  BY <1>6 DEF Init, Session, Control, Writes, Objects, IsInjective
<1>9. QED
  BY <1>4, <1>5, <1>7, <1>8 DEF Inv

\* Time passes, or nothing happens.
LEMMA IdleStep ==
  ASSUME Inv, clock' \in 0 .. MaxClock,
         UNCHANGED <<jobs, pc, now, todo, cands, batch, obj, gen, dirty, lastBy>>
  PROVE  Inv'
<1>1. Shape'
  BY DEF Inv, Shape
<1>2. Table' /\ Locks'
  BY DEF Inv, Table, Locks
<1>3. \A p \in Processes : Session(p)'
  BY DEF Inv, Session, Control, Writes, Objects, Current
<1>4. QED
  BY <1>1, <1>2, <1>3 DEF Inv

\* Every step keeps the invariant.
LEMMA NextInv == Inv /\ [Next]_vars => Inv'
<1> SUFFICES ASSUME Inv, [Next]_vars PROVE Inv'
  OBVIOUS
<1>1. clock \in 0 .. MaxClock /\ MaxClock \in Nat
  BY CycleAssumption DEF Inv, Shape
<1>2. CASE UNCHANGED vars
  BY <1>1, <1>2, IdleStep DEF vars
<1>3. CASE Tick
  <2>1. clock' \in 0 .. MaxClock
    BY <1>1, <1>3 DEF Tick
  <2>2. QED
    BY <1>3, <2>1, IdleStep DEF Tick
<1>4. ASSUME NEW p \in Processes, CycleStep(p)
      PROVE  Inv'
  <2>1. CASE RecoverStart(p) \/ RecoverRow(p) \/ RecoverCommit(p) \/ Promote(p)
    BY <2>1, RecoverStartStep, RecoverRowStep, RecoverCommitStep, PromoteStep
  <2>2. CASE Select(p) \/ ClaimCandidate(p) \/ RereadCandidate(p) \/ EndClaims(p)
    BY <2>2, SelectStep, ClaimCandidateStep, RereadCandidateStep, EndClaimsStep
  <2>3. CASE Load(p) \/ ClaimAgain(p) \/ RereadAgain(p) \/ AdapterFailure(p)
    BY <2>3, LoadStep, ClaimAgainStep, RereadAgainStep, AdapterFailureStep
  <2>4. CASE Reject(p) \/ DeferForQuota(p) \/ MarkRunning(p)
    BY <2>4, RejectStep, DeferForQuotaStep, MarkRunningStep
  <2>5. CASE FetchFailed(p) \/ FetchDone(p) \/ CommitBatch(p)
    BY <2>5, FetchFailedStep, FetchDoneStep, CommitBatchStep
  <2>6. CASE DeadlockAbort(p)
    BY <2>6, EndSessionStep DEF DeadlockAbort
  <2>7. QED
    BY <1>4, <2>1, <2>2, <2>3, <2>4, <2>5, <2>6 DEF CycleStep
<1>5. ASSUME NEW p \in Processes, StartCycle(p) \/ Crash(p)
      PROVE  Inv'
  BY <1>5, StartCycleStep, EndSessionStep DEF Crash
<1>6. QED
  BY <1>2, <1>3, <1>4, <1>5 DEF Next, Rest
\* What a step commits, it commits for one process.
LEMMA NextChanges ==
  ASSUME Inv, [Next]_vars
  PROVE  \/ UNCHANGED <<jobs, lastBy>>
         \/ \E p \in Processes : \A j \in Jobs : Change(p, j)
<1>1. ASSUME NEW p \in Processes, RecoverCommit(p) PROVE \A j \in Jobs : Change(p, j)
  BY <1>1, CommitChanges DEF RecoverCommit
<1>2. ASSUME NEW p \in Processes, CommitBatch(p) PROVE \A j \in Jobs : Change(p, j)
  BY <1>2, CommitChanges DEF CommitBatch
<1>3. ASSUME NEW p \in Processes, ClaimCandidate(p), ~ UNCHANGED <<jobs, lastBy>>
      PROVE  \A j \in Jobs : Change(p, j)
  <2>1. /\ pc[p] = "claim" /\ cands[p] # <<>> /\ TryClaimOne(p, Head(cands[p]))
    BY <1>3 DEF ClaimCandidate
  <2>2. /\ Head(cands[p]) \in Jobs /\ DOMAIN dirty[p] = {} /\ now[p] \in Nat
    BY <2>1, TailOf DEF Inv, Shape, Session, Control
  <2>3. QED
    BY <2>1, <2>2, ClaimChanges
<1>4. ASSUME NEW p \in Processes, ClaimAgain(p) PROVE \A j \in Jobs : Change(p, j)
  <2>1. /\ pc[p] = "load" /\ InBatch(p)
        /\ \/ TryClaimOne(p, Current(p))
           \/ jobs' = Merged(dirty[p]) /\ lastBy' = Author(p, dirty[p])
    BY <1>4 DEF ClaimAgain, InBatch
  <2>2. /\ Current(p) \in Jobs /\ Current(p) \notin DOMAIN dirty[p] /\ now[p] \in Nat
    BY <2>1, CurrentJob DEF Inv, Session, Control
  <2>3. QED
    BY <2>1, <2>2, ClaimChanges, CommitChanges
<1>5. ASSUME NEW p \in Processes, StartCycle(p) \/ Crash(p) PROVE UNCHANGED <<jobs, lastBy>>
  BY <1>5 DEF StartCycle, Crash
<1>6. ASSUME NEW p \in Processes, CycleStep(p)
      PROVE  UNCHANGED <<jobs, lastBy>> \/ \A j \in Jobs : Change(p, j)
  BY <1>1, <1>2, <1>3, <1>4, <1>6, PromoteChanges
     DEF CycleStep, RecoverStart, RecoverRow, Select, RereadCandidate, EndClaims, Load,
         RereadAgain, AdapterFailure,
         Reject, DeferForQuota, MarkRunning, FetchFailed, FetchDone, DeadlockAbort
<1>7. QED
  BY <1>5, <1>6 DEF Next, Tick, Rest, vars

-----------------------------------------------------------------------------
(* Theorems.                                                               *)

\* The inductive invariant, for any finite table, any processes and worker ids, shared
\* or not, any batch size, lease and limits of run_scheduler_cycle.
THEOREM Inductive == Spec => []Inv
<1>1. Init => Inv
  BY InitInv
<1>2. Inv /\ [Next]_vars => Inv'
  BY NextInv
<1>3. QED
  BY <1>1, <1>2, PTL DEF Spec

\* The committed rows, the uncommitted ones, the Job objects and the local variables of
\* the cycle have their types.
THEOREM TypeCorrect == Spec => []TypeOK
<1>1. Inv => TypeOK
  BY DEF Inv, Shape, TypeOK, Session, Writes, Moved, RowInv
<1>2. QED
  BY <1>1, Inductive, PTL

\* mark_running is never visible outside the transaction that also ends the job.
THEOREM RunningStaysInside == Spec => []RunningNotVisible
<1>1. Inv => RunningNotVisible
  BY DEF Inv, Table, RunningNotVisible
<1>2. QED
  BY <1>1, Inductive, PTL

\* Committed and uncommitted rows alike keep the retry budget of mark_failed and
\* recover_expired, and say who owns them.
THEOREM RowsStayConsistent == Spec => []RowsConsistent
<1>1. Inv => RowsConsistent
  BY RowsOfTable, ViewInv DEF RowsConsistent, RowInv
<1>2. QED
  BY <1>1, Inductive, PTL

\* No commit takes finished work back, goes back a generation, or uses up more than one
\* attempt of a job, although the batch is committed long after its rows were read.
THEOREM CommitsOnlyMoveForward == Spec => CommitsMoveForward
<1> DEFINE Forward(j) == /\ jobs[j].status \in Terminal => jobs'[j] = jobs[j]
                         /\ jobs'[j].generation >= jobs[j].generation
                         /\ jobs'[j].attempt_count - jobs[j].attempt_count \in {0, 1}
<1>1. Inv /\ [Next]_vars => \A j \in Jobs : Forward(j)
  <2> SUFFICES ASSUME Inv, [Next]_vars, NEW j \in Jobs PROVE Forward(j)
    OBVIOUS
  <2>1. jobs[j] \in Row /\ jobs[j].attempt_count \in Nat /\ jobs[j].generation \in Nat
    BY RowsOfTable DEF Row
  <2>2. CASE jobs'[j] = jobs[j]
    BY <2>1, <2>2
  <2>3. CASE Moved(jobs[j], jobs'[j])
    <3>1. jobs'[j].generation \in Nat /\ jobs'[j].attempt_count \in Nat
      BY <2>3 DEF Moved, RowInv, Row
    <3>2. QED
      BY <2>1, <2>3, <3>1 DEF Moved
  <2>4. ASSUME NEW p \in Processes, Granted(p, jobs[j], jobs'[j]) PROVE Forward(j)
    BY <2>1, <2>4 DEF Granted, Terminal
  <2>5. QED
    BY <2>2, <2>3, <2>4, NextChanges DEF Change
<1>2. Inv /\ [Next]_vars => [\A j \in Jobs : Forward(j)]_vars
  BY <1>1
<1>3. QED
  BY <1>2, Inductive, PTL DEF Spec, CommitsMoveForward

\* "Recovery SHALL fence former claim owners from later state transitions": true of the
\* fence of _owned_transition if no two processes have the same worker id.
THEOREM FormerClaimantsAreFenced ==
  ASSUME IsInjective(WorkerId)
  PROVE  Spec => []FormerClaimantFenced
<1>1. Inv => FormerClaimantFenced
  BY DEF Inv, Session, Writes, FormerClaimantFenced
<1>2. QED
  BY <1>1, Inductive, PTL

-----------------------------------------------------------------------------
(* The refinement of JobLease.                                             *)

\* The rows a refresh leaves are open jobs with nothing used up.
LEMMA InitImplements == Init => Abstract!Init
<1> SUFFICES ASSUME Init PROVE Abstract!Init
  OBVIOUS
<1>1. ASSUME NEW j \in Jobs
      PROVE  /\ jobs[j].status \in {"PENDING", "WAITING_FOR_PUBLICATION"}
             /\ jobs[j].attempt_count = 0
  <2> DEFINE w == jobs[j].next_run_at
  <2>1. jobs[j] = PendingRow(w) \/ jobs[j] = WaitingRow(w)
    BY CycleAssumption DEF Init
  <2> HIDE DEF w
  <2>2. QED
    BY <2>1 DEF PendingRow, WaitingRow, NoRow
<1>2. \A j \in Jobs : LeaseOf(jobs[j]) = "open" /\ jobs[j].attempt_count = 0
  BY <1>1 DEF LeaseOf
<1>3. QED
  BY <1>2 DEF Init, Abstract!Init

\* What a step of p does to the lease of one job.
JobStep(p, j) ==
  \/ Abstract!Same(j)
  \/ Abstract!Open(j)
  \/ Abstract!Grant(p, j)
  \/ Abstract!Revoke(j)
  \/ Abstract!Fail(p, j)
  \/ Abstract!GiveBack(p, j)
  \/ Abstract!Finish(p, j)

\* A commit that ends a claim ends the lease: one attempt is used up, or the job is done
\* or open again.
LEMMA ChangeImplements ==
  ASSUME Inv, IsInjective(WorkerId), NEW p \in Processes, NEW j \in Jobs, Change(p, j)
  PROVE  JobStep(p, j)
<1> DEFINE r == jobs[j]
           n == jobs'[j]
<1>1. /\ r \in Row /\ RowInv(r) /\ r.status \notin {"ABSENT", "RUNNING"}
      /\ r.attempt_count \in Nat /\ MaxAttempts \in Nat
  BY RowsOfTable, LimitsAssumption DEF Inv, Table, Row
<1>2. CASE n = r /\ lastBy'[j] = lastBy[j]
  BY <1>2 DEF JobStep, Abstract!Same, Abstract!Becomes
<1>3. CASE Granted(p, r, n) /\ lastBy'[j] = p
  <2>1. LeaseOf(r) = "open" /\ LeaseOf(n) = "held" /\ n.attempt_count = r.attempt_count
    BY <1>3 DEF Granted, LeaseOf
  <2>2. QED
    BY <1>3, <2>1 DEF JobStep, Abstract!Grant, Abstract!Becomes
<1>4. CASE Moved(r, n) /\ n.status \notin Owned
  <2>1. /\ RowInv(n) /\ n \in Row /\ n.status \notin Owned \union {"ABSENT"}
        /\ n.attempt_count \in Nat /\ n.status \in Status
    BY <1>4 DEF Moved, RowInv, Row
  <2>2. n.status = "FAILED" <=> n.attempt_count >= MaxAttempts
    BY <2>1 DEF RowInv, Budget
  <2>3. CASE r.status \in Owned /\ n.attempt_count = r.attempt_count + 1
    <3>1. n.status # "DONE"
      BY <1>1, <1>4, <2>1, <2>3 DEF Moved
    <3>2. LeaseOf(n) = IF n.attempt_count >= MaxAttempts THEN "failed" ELSE "open"
      BY <2>1, <2>2, <3>1 DEF LeaseOf, Status
    <3>3. LeaseOf(r) = "held"
      BY <2>3 DEF LeaseOf
    <3>4. CASE lastBy'[j] = lastBy[j]
      BY <2>3, <3>2, <3>3, <3>4
         DEF JobStep, Abstract!Revoke, Abstract!UseUp, Abstract!Becomes
    <3>5. CASE lastBy'[j] = p /\ lastBy[j] = p
      BY <2>3, <3>2, <3>3, <3>5
         DEF JobStep, Abstract!Revoke, Abstract!UseUp, Abstract!Becomes
    <3>6. QED
      BY <1>4, <2>1, <2>3, <3>4, <3>5 DEF Change, Granted
  <2>4. CASE r.status \in Owned /\ n.attempt_count = r.attempt_count
    <3>1. n.status # "FAILED"
      BY <1>1, <2>2, <2>4, OwnedRow
    <3>2. LeaseOf(r) = "held" /\ LeaseOf(n) = IF n.status = "DONE" THEN "done" ELSE "open"
      BY <2>1, <2>4, <3>1 DEF LeaseOf, Status
    <3>3. lastBy'[j] = p /\ lastBy[j] = p
      BY <1>1, <2>1, <2>4, <3>1 DEF Change, Granted
    <3>4. QED
      BY <2>4, <3>2, <3>3
         DEF JobStep, Abstract!GiveBack, Abstract!Finish, Abstract!Becomes
  <2>5. CASE r.status \notin Owned
    <3>1. n.attempt_count = r.attempt_count /\ n.status # "DONE" /\ r.status \notin Terminal
      BY <1>4, <2>5 DEF Moved
    <3>2. n.status # "FAILED"
      BY <1>1, <2>2, <3>1 DEF RowInv, Budget, Terminal
    <3>3. LeaseOf(r) = "open" /\ LeaseOf(n) = "open"
      BY <1>1, <2>1, <2>5, <3>1, <3>2 DEF LeaseOf, Status, Row, Terminal
    <3>4. lastBy'[j] = lastBy[j]
      BY <2>1, <2>5 DEF Change, Granted
    <3>5. QED
      BY <3>1, <3>3, <3>4 DEF JobStep, Abstract!Same, Abstract!Becomes
  <2>6. QED
    BY <1>4, <2>3, <2>4, <2>5 DEF Moved
<1>5. QED
  BY <1>2, <1>3, <1>4 DEF Change

\* Every step of every process is a step of the abstract queue.
LEMMA NextImplements ==
  ASSUME IsInjective(WorkerId)
  PROVE  Inv /\ [Next]_vars => [Abstract!Next]_Abstract!vars
<1> SUFFICES ASSUME Inv, [Next]_vars PROVE [Abstract!Next]_Abstract!vars
  OBVIOUS
<1>1. CASE UNCHANGED <<jobs, lastBy>>
  BY <1>1 DEF Abstract!vars, LeaseOf
<1>2. ASSUME NEW p \in Processes, \A j \in Jobs : Change(p, j) PROVE Abstract!Next
  <2>1. \A j \in Jobs : JobStep(p, j)
    BY <1>2, ChangeImplements
  <2>2. QED
    BY <2>1 DEF JobStep, Abstract!Next
<1>3. QED
  BY <1>1, <1>2, NextChanges

\* With a worker id of its own for every process, the committed table under the long
\* transactions of the scheduler implements the lease: only the holder of a job ends its
\* claim, and a batch that was fenced commits nothing of another's.
THEOREM CycleRefinement ==
  ASSUME IsInjective(WorkerId)
  PROVE  Spec => ImplementsLease
BY InitImplements, NextImplements, Inductive, PTL DEF Spec, ImplementsLease, Abstract!Spec
=============================================================================

-------------------------- MODULE SchedulerRunProofs --------------------------
(***************************************************************************)
(* Proofs about SchedulerRun, for any catalog, provider, pipe and batch    *)
(* size.  First three arguments: a provider call, however the run around   *)
(* it goes on; the transaction of a batch; and the tables a refresh began  *)
(* with.  Then what the transaction holds of the jobs, which gives the     *)
(* type invariant and that a final status stays; and on that the metrics   *)
(* collection, what a recorded failure leaves in the committed tables, and *)
(* what a recorded success promises of them.                               *)
(***************************************************************************)
EXTENDS SchedulerRun, TLAPS

-----------------------------------------------------------------------------
(* The provider call.  The rest of a run touches it in four ways only: it  *)
(* starts a call, lets it go on, takes its outcome, or leaves it alone.    *)

\* An empty pipe holds nothing.
LEMMA NoMessageFits ==
  /\ NoMessage \in [ok : BOOLEAN, size : Nat, sent : Nat]
  /\ NoMessage.sent <= NoMessage.size /\ NoMessage.sent <= PipeCapacity
BY PipeAssumption DEF NoMessage

\* Initially nothing is called.
LEMMA CallInvInit == CallInit => CallInv
BY NoMessageFits
   DEF CallInit, CallInv, CallTypeOK, CallSafe, NoChildLeft, ValueIsWhole,
       TimeoutIsLate, OversizedIsLost, Alive

\* A call begins with an empty pipe and a live child.
LEMMA StartCallInv == CallInv /\ StartCall => CallInv'
BY NoMessageFits
   DEF StartCall, CallInv, CallTypeOK, CallSafe, NoChildLeft, ValueIsWhole,
       TimeoutIsLate, OversizedIsLost, Alive

\* The run takes the outcome of a call that has ended.
LEMMA EndCallInv == CallInv /\ EndCall => CallInv'
BY NoMessageFits
   DEF EndCall, CallInv, CallTypeOK, CallSafe, NoChildLeft, ValueIsWhole,
       TimeoutIsLate, OversizedIsLost, Alive

\* The rest of a run leaves a call alone.
LEMMA SameCallInv == CallInv /\ UNCHANGED callVars => CallInv'
BY DEF callVars, CallInv, CallTypeOK, CallSafe, NoChildLeft, ValueIsWhole,
       TimeoutIsLate, OversizedIsLost, Alive

\* The pipe holds what fits, and a value is received only from a dead child whose
\* whole message is there.
LEMMA CallStepInv == CallInv /\ CallStep => CallInv'
<1> SUFFICES ASSUME CallInv, CallStep PROVE CallInv'
  OBVIOUS
<1> USE DEF CallInv, CallTypeOK, CallSafe, NoChildLeft, ValueIsWhole, TimeoutIsLate,
            OversizedIsLost, Alive
<1>1. CASE Terminate
  BY <1>1 DEF Terminate
<1>2. CASE Kill
  BY <1>2 DEF Kill
<1>3. CASE RaiseTimeout
  BY <1>3 DEF RaiseTimeout, Return
<1>4. CASE Receive
  BY <1>4 DEF Receive, Return
<1>5. CASE Answer
  <2>1. /\ message'.sent = 0 /\ message'.size \in Nat
        /\ message' \in [ok : BOOLEAN, size : Nat, sent : Nat]
    <3>1. PICK m \in [ok : BOOLEAN, size : Nat, sent : {0}] : message' = m
      BY <1>5, PipeAssumption DEF Answer
    <3>2. QED
      BY <3>1
  <2>2. /\ child = "running" /\ child' = "sending"
        /\ UNCHANGED <<parent, expired, outcome>>
    BY <1>5 DEF Answer
  <2>3. parent # "idle"
    BY <2>2
  <2>4. QED
    BY <2>1, <2>2, <2>3, PipeAssumption
<1>6. CASE Write
  <2>1. /\ message' = [ok |-> message.ok, size |-> message.size, sent |-> message.sent + 1]
        /\ message.sent < message.size /\ message.sent < PipeCapacity
        /\ child = "sending" /\ UNCHANGED <<parent, child, expired, outcome>>
    BY <1>6 DEF Write
  <2>2. parent # "idle"
    BY <2>1
  <2>3. QED
    BY <2>1, <2>2, PipeAssumption
<1>7. CASE Exit
  BY <1>7 DEF Exit
<1>8. CASE Die
  BY <1>8 DEF Die
<1>9. CASE Expire
  BY <1>9 DEF Expire
<1>10. QED
  BY <1>1, <1>2, <1>3, <1>4, <1>5, <1>6, <1>7, <1>8, <1>9 DEF CallStep

\* What every step of a run does to the call.
LEMMA StepsOfCall ==
  [Next]_vars => \/ StartCall \/ EndCall \/ CallStep \/ UNCHANGED callVars
<1> SUFFICES ASSUME [Next]_vars, ~UNCHANGED callVars
             PROVE  StartCall \/ EndCall \/ CallStep
  OBVIOUS
<1>1. Next
  BY DEF vars
<1>2. /\ ~StartRun /\ ~CommitFails /\ ~RecoveredByOther
      /\ ~ScrapePending /\ ~ScrapeDone /\ ~ScrapeFailed
  BY DEF StartRun, CommitFails, RecoveredByOther, ScrapePending, ScrapeDone, ScrapeFailed
<1>3. ~RefreshStep
  BY DEF RefreshStep, NextSource, SourceQueryFails, ListingLoadFails, Dispatch, ListingFails,
         ListingStatementFails, EndListings, CommitRefresh, RecordRefresh,
         RecordRefreshFailure, RecordSkippedBatch
<1>4. BatchStep => Fetch \/ FetchFailed \/ FetchAnswered \/ BatchStatementFails
  BY DEF BatchStep, RecoverExpired, PromoteDueWaiting, TryClaimOne, EndClaims, ClaimAgain,
         Stale, Refuse, RejectRow, RecordRow, RecordRaises, EndRows, EndBatch, CommitBatch,
         RecordBatch, RecordBatchFailure
<1>5. Fetch => StartCall
  BY DEF Fetch
<1>6. FetchFailed \/ FetchAnswered \/ BatchStatementFails \/ Crash => EndCall
  BY DEF FetchFailed, FetchAnswered, BatchStatementFails, Crash
<1>7. Calling => CallStep
  BY DEF Calling
<1>8. QED
  BY <1>1, <1>2, <1>3, <1>4, <1>5, <1>6, <1>7 DEF Next

\* run_with_deadline leaves no child behind, returns whole answers only, and times out
\* only when its deadline has passed, wherever a run calls it and however the call
\* returns or raises.  (What becomes of the child of a parent that dies is not followed.)
THEOREM CallsAreSafe == Spec => []CallSafe
<1>1. Init => CallInv
  BY CallInvInit DEF Init
<1>2. CallInv /\ [Next]_vars => CallInv'
  BY StepsOfCall, StartCallInv, EndCallInv, CallStepInv, SameCallInv
<1>3. CallInv => CallSafe
  BY DEF CallInv
<1>4. QED
  BY <1>1, <1>2, <1>3, PTL DEF Spec

-----------------------------------------------------------------------------
(* The batch.  A job becomes DONE in the transaction that holds what was    *)
(* recorded for it, and that is committed or rolled back as a whole.        *)

InBatch == {"claim", "job", "fetch", "rows"}

\* A job that is still to be processed is claimed, or was recovered by another process.
Open(k) == jobs[k] \in {"CLAIMED", "PENDING", "FAILED"}

Typed ==
  /\ jobs = [k \in Keys |-> jobs[k]]
  /\ answered \in [Keys -> SUBSET Valid]
  /\ batch \in Seq(Keys)
  /\ tx = [jobs |-> tx.jobs, stored |-> tx.stored, aborted |-> tx.aborted]

DoneInTx ==
  \A k \in Keys : k \in DOMAIN tx.jobs /\ tx.jobs[k] = "DONE" =>
    {k} \X answered[k] \subseteq stored \union tx.stored

\* Of the current answer, what is not left to be recorded is recorded.
RowsKept ==
  pc = "rows" => {Current} \X (answered[Current] \ left) \subseteq stored \union tx.stored

\* Claimed jobs wait for their turn once, and are not written to before it.
BatchOpen ==
  pc \in InBatch =>
    /\ \A i \in 1 .. Len(batch) :
         /\ Open(batch[i])
         /\ batch[i] \in DOMAIN tx.jobs => pc \in {"fetch", "rows"} /\ batch[i] = Current
    /\ \A i, j \in 1 .. Len(batch) : batch[i] = batch[j] => i = j

\* The job whose provider is called is RUNNING, for this transaction only.
CurrentRuns ==
  pc \in {"fetch", "rows"} =>
    batch # <<>> /\ Current \in DOMAIN tx.jobs /\ tx.jobs[Current] = "RUNNING"

\* Between two phases, and until the batch is claimed, nothing is uncommitted.
Clean == {"record_refresh", "recover", "promote", "claim"}

NothingClaimed == {"idle", "source", "listing", "refreshed", "record_refresh",
                   "refresh_failed", "record_skipped", "recover", "promote"}

BatchInv ==
  /\ Typed /\ DoneMeansStored /\ DoneInTx /\ RowsKept /\ BatchOpen /\ CurrentRuns
  /\ pc \in Clean => tx = NoTx
  /\ pc \in NothingClaimed => batch = <<>>

\* Initially no batch is claimed.
LEMMA BatchInvInit == Init => BatchInv
<1> SUFFICES ASSUME Init PROVE BatchInv
  OBVIOUS
<1>1. /\ jobs = [k \in Keys |-> "ABSENT"] /\ answered = [k \in Keys |-> {}] /\ batch = <<>>
      /\ tx = NoTx /\ pc = "idle"
  BY DEF Init
<1>2. Typed
  BY <1>1 DEF Typed, NoTx
<1>3. DoneMeansStored
  BY <1>1 DEF DoneMeansStored
<1>4. QED
  BY <1>1, <1>2, <1>3
     DEF BatchInv, DoneInTx, RowsKept, BatchOpen, CurrentRuns, InBatch, Clean, NoTx

\* Steps that leave the transaction and the batch alone.
LEMMA FrameStep ==
  ASSUME BatchInv, UNCHANGED <<jobs, stored, tx, answered, batch>>,
         \/ UNCHANGED <<pc, left>>
         \/ pc' \notin InBatch \union Clean /\ (pc' \in NothingClaimed => pc \in NothingClaimed)
         \/ pc = "record_refresh" /\ pc' = "recover"
         \/ pc = "claim" /\ pc' = "job"
  PROVE  BatchInv'
BY DEF BatchInv, Typed, DoneMeansStored, DoneInTx, RowsKept, BatchOpen, CurrentRuns, InBatch,
       Open, Current, Clean, NothingClaimed, NoTx

\* Steps that drop the transaction.
LEMMA RollbackStep ==
  ASSUME BatchInv, UNCHANGED <<jobs, stored>>, Rollback,
         answered' \in [Keys -> SUBSET Valid],
         \A k \in Keys : jobs[k] = "DONE" => answered'[k] = answered[k],
         batch' \in Seq(Keys), pc' \notin InBatch, pc' \in NothingClaimed => batch' = <<>>
  PROVE  BatchInv'
BY DEF BatchInv, Rollback, Typed, DoneMeansStored, DoneInTx, RowsKept, BatchOpen, CurrentRuns,
       InBatch, NoTx

\* A rollback leaves the committed table alone.
LEMMA LeaveStep ==
  ASSUME BatchInv, Leave, UNCHANGED <<jobs, stored>>
  PROVE  BatchInv'
<1>1. /\ Rollback /\ pc' \notin InBatch /\ batch' = <<>>
      /\ answered' = [k \in Keys |-> IF jobs[k] = "DONE" THEN answered[k] ELSE {}]
  BY DEF Leave, InBatch
<1>2. batch' \in Seq(Keys)
  BY <1>1
<1>3. /\ answered' \in [Keys -> SUBSET Valid]
      /\ \A k \in Keys : jobs[k] = "DONE" => answered'[k] = answered[k]
  BY <1>1 DEF BatchInv, Typed
<1>4. QED
  BY <1>1, <1>2, <1>3, RollbackStep

\* A commit publishes a job that is DONE with what was recorded for it.
LEMMA PublishDone ==
  ASSUME BatchInv,
         \A k \in Keys : jobs'[k] = "DONE" => Seen(k) = "DONE",
         stored' = stored \union tx.stored, UNCHANGED answered
  PROVE  DoneMeansStored'
<1>1. SUFFICES ASSUME NEW k \in Keys, Seen(k) = "DONE"
               PROVE  {k} \X answered[k] \subseteq stored \union tx.stored
  BY DEF DoneMeansStored
<1>2. QED
  BY <1>1 DEF BatchInv, DoneMeansStored, DoneInTx, Seen

\* Steps that commit it.
LEMMA CommitStep ==
  ASSUME BatchInv, UNCHANGED <<answered, batch>>, Commit, pc' \notin InBatch,
         pc' \in NothingClaimed => pc \in NothingClaimed
  PROVE  BatchInv'
<1>1. tx' = NoTx /\ jobs' = [k \in Keys |-> jobs'[k]]
  BY DEF Commit, BatchInv, Typed
<1>2. DoneMeansStored'
  <2>1. CASE tx.aborted
    BY <2>1 DEF BatchInv, Commit, DoneMeansStored
  <2>2. CASE ~tx.aborted
    BY <2>2, PublishDone DEF Commit
  <2>3. QED
    BY <2>1, <2>2
<1>3. QED
  BY <1>1, <1>2
     DEF BatchInv, Typed, DoneInTx, RowsKept, BatchOpen, CurrentRuns, InBatch, NoTx

\* The job in hand differs from those after it.
LEMMA CurrentOpen ==
  ASSUME BatchInv, pc \in InBatch, batch # <<>>
  PROVE  /\ Current \in Keys /\ Open(Current)
         /\ Current \in DOMAIN tx.jobs => pc \in {"fetch", "rows"}
         /\ Tail(batch) \in Seq(Keys)
         /\ \A i \in 1 .. Len(Tail(batch)) :
              /\ Open(Tail(batch)[i]) /\ Tail(batch)[i] # Current
              /\ Tail(batch)[i] \notin DOMAIN tx.jobs
         /\ \A i, j \in 1 .. Len(Tail(batch)) : Tail(batch)[i] = Tail(batch)[j] => i = j
<1>1. batch \in Seq(Keys) /\ Len(batch) \in Nat /\ Len(batch) > 0
  BY DEF BatchInv, Typed
<1>2. /\ Tail(batch) \in Seq(Keys) /\ Len(Tail(batch)) = Len(batch) - 1
      /\ \A i \in 1 .. Len(Tail(batch)) : Tail(batch)[i] = batch[i + 1]
      /\ Current = batch[1] /\ Current \in Keys
  BY <1>1 DEF Current
<1>3. /\ \A i \in 1 .. Len(batch) :
           /\ Open(batch[i])
           /\ batch[i] \in DOMAIN tx.jobs => pc \in {"fetch", "rows"} /\ batch[i] = Current
      /\ \A i, j \in 1 .. Len(batch) : batch[i] = batch[j] => i = j
  BY DEF BatchInv, BatchOpen
<1>4. \A i \in 1 .. Len(Tail(batch)) : i + 1 \in 1 .. Len(batch) /\ i + 1 # 1
  BY <1>1, <1>2
<1>5. 1 \in 1 .. Len(batch)
  BY <1>1
<1>6. QED
  BY <1>1, <1>2, <1>3, <1>4, <1>5

\* What SetJob writes.
LEMMA SetJobWrites ==
  ASSUME Typed, NEW k, NEW status, tx' = SetJob(tx, k, status)
  PROVE  /\ tx' = [jobs |-> tx'.jobs, stored |-> tx'.stored, aborted |-> tx'.aborted]
         /\ tx'.stored = tx.stored /\ tx'.aborted = tx.aborted
         /\ DOMAIN tx'.jobs = DOMAIN tx.jobs \union {k}
         /\ tx'.jobs[k] = status
         /\ \A x \in DOMAIN tx.jobs : x # k => tx'.jobs[x] = tx.jobs[x]
<1>1. tx' = [jobs |-> [x \in DOMAIN tx.jobs \union {k} |-> IF x = k THEN status ELSE tx.jobs[x]],
             stored |-> tx.stored, aborted |-> tx.aborted]
  BY DEF SetJob, Typed
<1>2. QED
  BY <1>1

\* The end of the current job.  It is DONE only if nothing of the answer is left.
LEMMA FinishStep ==
  ASSUME BatchInv, pc \in {"job", "fetch", "rows"}, batch # <<>>, UNCHANGED <<jobs, stored>>,
         NEW status, Finish(status), status = "DONE" => pc = "rows" /\ left = {}
  PROVE  BatchInv'
<1>1. /\ tx' = SetJob(tx, Current, status) /\ batch' = Tail(batch) /\ pc' = "job"
      /\ answered' = [answered EXCEPT ![Current] = IF status = "DONE" THEN @ ELSE {}]
  BY DEF Finish
<1>2. Typed /\ pc \in InBatch
  BY DEF BatchInv, InBatch
<1>3. /\ tx' = [jobs |-> tx'.jobs, stored |-> tx'.stored, aborted |-> tx'.aborted]
      /\ tx'.stored = tx.stored
      /\ DOMAIN tx'.jobs = DOMAIN tx.jobs \union {Current}
      /\ tx'.jobs[Current] = status
      /\ \A x \in DOMAIN tx.jobs : x # Current => tx'.jobs[x] = tx.jobs[x]
  BY <1>1, <1>2, SetJobWrites
<1>4. /\ answered' \in [Keys -> SUBSET Valid]
      /\ \A k \in Keys : answered'[k] \subseteq answered[k]
      /\ status # "DONE" => answered'[Current] = {}
  BY <1>1, <1>2, CurrentOpen DEF Typed
<1>5. Typed'
  BY <1>1, <1>2, <1>3, <1>4, CurrentOpen DEF Typed
<1>6. DoneInTx'
  <2>1. SUFFICES ASSUME NEW k \in Keys, k \in DOMAIN tx'.jobs, tx'.jobs[k] = "DONE"
                 PROVE  {k} \X answered[k] \subseteq stored \union tx.stored
    BY <1>3, <1>4 DEF DoneInTx
  <2>2. CASE k = Current
    BY <2>1, <2>2, <1>3 DEF BatchInv, RowsKept
  <2>3. CASE k # Current
    BY <2>1, <2>3, <1>3 DEF BatchInv, DoneInTx
  <2>4. QED
    BY <2>2, <2>3
<1>7. DoneMeansStored'
  BY <1>4 DEF BatchInv, DoneMeansStored
<1>8. BatchOpen'
  <2>1. \A i \in 1 .. Len(Tail(batch)) :
          /\ Open(Tail(batch)[i]) /\ Tail(batch)[i] # Current
          /\ Tail(batch)[i] \notin DOMAIN tx.jobs
    BY <1>2, CurrentOpen
  <2>2. \A k : Open(k) => Open(k)'
    BY DEF Open
  <2>3. QED
    BY <2>1, <2>2, <1>1, <1>2, <1>3, CurrentOpen DEF BatchOpen
<1>9. QED
  BY <1>1, <1>5, <1>6, <1>7, <1>8 DEF BatchInv, RowsKept, CurrentRuns, Clean, NothingClaimed

\* StaleJobClaimError passes over the current job.
LEMMA StaleStep == BatchInv /\ Stale => BatchInv'
<1> SUFFICES ASSUME BatchInv, Stale PROVE BatchInv'
  OBVIOUS
<1>1. /\ pc = "job" /\ batch # <<>> /\ pc' = pc /\ batch' = Tail(batch)
      /\ UNCHANGED <<jobs, stored, tx, answered>>
  BY DEF Stale, dbVars, histVars
<1>2. Typed'
  BY <1>1, CurrentOpen DEF BatchInv, Typed, InBatch
<1>3. BatchOpen'
  BY <1>1, CurrentOpen DEF BatchOpen, Open, InBatch
<1>4. QED
  BY <1>1, <1>2, <1>3
     DEF BatchInv, DoneMeansStored, DoneInTx, RowsKept, CurrentRuns, Clean, NothingClaimed

\* mark_running.
LEMMA FetchStep == BatchInv /\ Fetch => BatchInv'
<1> SUFFICES ASSUME BatchInv, Fetch PROVE BatchInv'
  OBVIOUS
<1>1. /\ pc = "job" /\ batch # <<>> /\ pc' = "fetch"
      /\ tx' = SetJob(tx, Current, "RUNNING")
      /\ UNCHANGED <<jobs, stored, batch, answered>>
  BY DEF Fetch, dbVars, histVars
<1>2. Typed
  BY DEF BatchInv
<1>3. /\ tx' = [jobs |-> tx'.jobs, stored |-> tx'.stored, aborted |-> tx'.aborted]
      /\ tx'.stored = tx.stored
      /\ DOMAIN tx'.jobs = DOMAIN tx.jobs \union {Current}
      /\ tx'.jobs[Current] = "RUNNING"
      /\ \A x \in DOMAIN tx.jobs : x # Current => tx'.jobs[x] = tx.jobs[x]
  BY <1>1, <1>2, SetJobWrites
<1>4. Typed' /\ DoneInTx'
  BY <1>1, <1>2, <1>3 DEF BatchInv, Typed, DoneInTx
<1>5. BatchOpen' /\ CurrentRuns'
  BY <1>1, <1>3 DEF BatchInv, BatchOpen, CurrentRuns, InBatch, Open, Current
<1>6. QED
  BY <1>1, <1>4, <1>5 DEF BatchInv, DoneMeansStored, RowsKept, Clean, NothingClaimed

\* The answer: all of it is left to be recorded.
LEMMA AnswerStep == BatchInv /\ FetchAnswered => BatchInv'
<1> SUFFICES ASSUME BatchInv, FetchAnswered PROVE BatchInv'
  OBVIOUS
<1>1. /\ pc = "fetch" /\ batch # <<>> /\ pc' = "rows"
      /\ UNCHANGED <<jobs, stored, batch, tx>>
  BY DEF FetchAnswered, dbVars, BatchInv, CurrentRuns
<1>2. PICK answer \in SUBSET Observations :
        /\ left' = answer
        /\ answered' = [answered EXCEPT ![Current] = answer \ {Malformed}]
  BY DEF FetchAnswered
<1>3. /\ Current \in Keys /\ Open(Current)
      /\ tx.jobs[Current] = "RUNNING"
  BY <1>1, CurrentOpen DEF InBatch, BatchInv, CurrentRuns
<1>4. answer \ {Malformed} \in SUBSET Valid
  BY DEF Observations
<1>5. /\ answered' \in [Keys -> SUBSET Valid]
      /\ answered'[Current] \ left' = {}
      /\ \A k \in Keys : k # Current => answered'[k] = answered[k]
  BY <1>2, <1>3, <1>4 DEF BatchInv, Typed
<1>6. Typed' /\ RowsKept'
  BY <1>1, <1>5 DEF BatchInv, Typed, RowsKept, Current
<1>7. DoneMeansStored' /\ DoneInTx'
  BY <1>1, <1>3, <1>5 DEF BatchInv, DoneMeansStored, DoneInTx, Open
<1>8. BatchOpen' /\ CurrentRuns'
  BY <1>1 DEF BatchInv, BatchOpen, CurrentRuns, InBatch, Open, Current
<1>9. QED
  BY <1>1, <1>6, <1>7, <1>8 DEF BatchInv, Clean, NothingClaimed

\* One row of the answer.
LEMMA RowStep == BatchInv /\ (RejectRow \/ RecordRow) => BatchInv'
<1> SUFFICES ASSUME BatchInv, RejectRow \/ RecordRow PROVE BatchInv'
  OBVIOUS
<1>1. /\ pc = "rows" /\ UNCHANGED <<jobs, stored, batch, answered, pc>>
  BY DEF RejectRow, RecordRow, dbVars, histVars
<1>2. Current \in Keys /\ answered[Current] \in SUBSET Valid
  BY <1>1, CurrentOpen DEF InBatch, BatchInv, Typed, CurrentRuns
<1>3. /\ tx' = [jobs |-> tx'.jobs, stored |-> tx'.stored, aborted |-> tx'.aborted]
      /\ tx'.jobs = tx.jobs /\ tx.stored \subseteq tx'.stored
      /\ {Current} \X (answered[Current] \ left') \subseteq stored \union tx'.stored
  <2>1. {Current} \X (answered[Current] \ left) \subseteq stored \union tx.stored
    BY <1>1 DEF BatchInv, RowsKept
  <2>2. CASE RejectRow
    <3>1. left' = left \ {Malformed} /\ tx' = tx
      BY <2>2 DEF RejectRow
    <3>2. Malformed \notin answered[Current]
      BY <1>2, CatalogAssumption
    <3>3. QED
      BY <2>1, <3>1, <3>2 DEF BatchInv, Typed
  <2>3. CASE RecordRow
    <3>1. PICK o \in left \ {Malformed} :
            /\ left' = left \ {o}
            /\ IF <<Current, o>> \in stored \union tx.stored
                 THEN tx' = tx
                 ELSE tx' = [tx EXCEPT !.stored = @ \union {<<Current, o>>}]
      BY <2>3 DEF RecordRow
    <3>2. /\ tx' = [jobs |-> tx'.jobs, stored |-> tx'.stored, aborted |-> tx'.aborted]
          /\ tx'.jobs = tx.jobs /\ tx.stored \subseteq tx'.stored
          /\ <<Current, o>> \in stored \union tx'.stored
      BY <3>1 DEF BatchInv, Typed
    <3>3. QED
      BY <2>1, <3>1, <3>2
  <2>4. QED
    BY <2>2, <2>3
<1>4. Typed' /\ DoneMeansStored' /\ DoneInTx' /\ RowsKept'
  BY <1>1, <1>3
     DEF BatchInv, Typed, DoneMeansStored, DoneInTx, RowsKept, Current
<1>5. BatchOpen' /\ CurrentRuns'
  BY <1>1, <1>3 DEF BatchInv, BatchOpen, CurrentRuns, InBatch, Open, Current
<1>6. QED
  BY <1>1, <1>4, <1>5 DEF BatchInv, Clean, NothingClaimed

\* recover_expired and promote_due_waiting touch no job that is at its end.
LEMMA QueueWrites ==
  ASSUME RecoverExpired \/ PromoteDueWaiting
  PROVE  /\ jobs' = [k \in Keys |-> jobs'[k]]
         /\ \A k \in Keys :
              \/ jobs'[k] = jobs[k]
              \/ jobs'[k] \in {"PENDING", "FAILED"} /\ jobs[k] \in {"WAITING", "CLAIMED"}
<1>1. CASE RecoverExpired
  <2>1. PICK lapsed \in SUBSET {k \in Keys : jobs[k] = "CLAIMED"} :
          \E failed \in SUBSET lapsed :
            jobs' = [k \in Keys |-> IF k \in failed THEN "FAILED"
                                    ELSE IF k \in lapsed THEN "PENDING"
                                    ELSE jobs[k]]
    BY <1>1 DEF RecoverExpired
  <2>2. QED
    BY <2>1
<1>2. CASE PromoteDueWaiting
  BY <1>2 DEF PromoteDueWaiting
<1>3. QED
  BY <1>1, <1>2

\* They run in a clean session, before the batch is claimed.
LEMMA QueueStep == BatchInv /\ (RecoverExpired \/ PromoteDueWaiting) => BatchInv'
<1> SUFFICES ASSUME BatchInv, RecoverExpired \/ PromoteDueWaiting PROVE BatchInv'
  OBVIOUS
<1>1. /\ pc \in {"recover", "promote"} /\ pc' \in {"promote", "claim"}
      /\ UNCHANGED <<stored, tx, answered, batch>>
  BY DEF RecoverExpired, PromoteDueWaiting, histVars
<1>2. tx = NoTx /\ batch = <<>>
  BY <1>1 DEF BatchInv, Clean, NothingClaimed
<1>3. jobs' = [k \in Keys |-> jobs'[k]] /\ DoneMeansStored'
  BY <1>1, QueueWrites DEF BatchInv, DoneMeansStored
<1>4. QED
  BY <1>1, <1>2, <1>3
     DEF BatchInv, Typed, DoneInTx, RowsKept, BatchOpen, CurrentRuns, InBatch, NoTx

\* _try_claim_one: every job of the batch is claimed once.
LEMMA ClaimStep == BatchInv /\ TryClaimOne => BatchInv'
<1> SUFFICES ASSUME BatchInv, TryClaimOne PROVE BatchInv'
  OBVIOUS
<1>1. pc = "claim" /\ pc' = pc /\ tx = NoTx /\ UNCHANGED <<stored, tx, answered>>
  BY DEF TryClaimOne, BatchInv, Clean
<1>2. PICK k \in Keys \ Range(batch) :
        jobs' = [jobs EXCEPT ![k] = "CLAIMED"] /\ batch' = Append(batch, k)
  BY DEF TryClaimOne
<1>3. /\ jobs' = [x \in Keys |-> jobs'[x]] /\ jobs'[k] = "CLAIMED"
      /\ \A x \in Keys : x # k => jobs'[x] = jobs[x]
  BY <1>2 DEF BatchInv, Typed
<1>4. /\ batch \in Seq(Keys) /\ batch' \in Seq(Keys) /\ Len(batch) \in Nat
      /\ Len(batch') = Len(batch) + 1 /\ batch'[Len(batch) + 1] = k
      /\ \A i \in 1 .. Len(batch) : batch'[i] = batch[i] /\ batch[i] \in Keys
  BY <1>2 DEF BatchInv, Typed
<1>5. \A i \in 1 .. Len(batch) : batch[i] # k
  BY <1>4 DEF Range
<1>6. \A i \in 1 .. Len(batch') : i = Len(batch) + 1 \/ i \in 1 .. Len(batch)
  BY <1>4
<1>7. BatchOpen'
  <2>1. \A i \in 1 .. Len(batch') : jobs'[batch'[i]] \in {"CLAIMED", "PENDING", "FAILED"}
    BY <1>1, <1>3, <1>4, <1>5, <1>6 DEF BatchInv, BatchOpen, Open, InBatch
  <2>2. \A i, j \in 1 .. Len(batch') : batch'[i] = batch'[j] => i = j
    BY <1>1, <1>4, <1>5, <1>6 DEF BatchInv, BatchOpen, InBatch
  <2>3. QED
    BY <1>1, <2>1, <2>2 DEF BatchOpen, Open, NoTx
<1>8. DoneMeansStored'
  BY <1>1, <1>3 DEF BatchInv, DoneMeansStored
<1>9. QED
  BY <1>1, <1>3, <1>4, <1>7, <1>8
     DEF BatchInv, Typed, DoneInTx, RowsKept, CurrentRuns, Clean, NothingClaimed, NoTx

\* claim_job, in the middle of the batch: nothing written so far is of the jobs to come.
LEMMA ClaimAgainStep == BatchInv /\ ClaimAgain => BatchInv'
<1> SUFFICES ASSUME BatchInv, ClaimAgain PROVE BatchInv'
  OBVIOUS
<1>1. /\ pc = "job" /\ pc' = pc /\ batch # <<>> /\ UNCHANGED <<batch, answered>> /\ tx' = NoTx
      /\ jobs' = [k \in Keys |-> IF k = Current THEN "CLAIMED" ELSE Seen(k)]
      /\ stored' = stored \union tx.stored
  BY DEF ClaimAgain, histVars
<1>2. jobs' = [k \in Keys |-> jobs'[k]] /\ \A k \in Keys : jobs'[k] = "DONE" => Seen(k) = "DONE"
  BY <1>1
<1>3. DoneMeansStored'
  BY <1>1, <1>2, PublishDone
<1>4. BatchOpen'
  <2>1. \A i \in 1 .. Len(batch) : batch[i] \in Keys
    BY DEF BatchInv, Typed
  <2>2. \A i \in 1 .. Len(batch) : Seen(batch[i]) = jobs[batch[i]] /\ Open(batch[i])
    BY <1>1 DEF BatchInv, BatchOpen, InBatch, Seen
  <2>3. \A i \in 1 .. Len(batch) : Open(batch[i])'
    BY <1>1, <2>1, <2>2 DEF Open
  <2>4. QED
    BY <1>1, <2>3 DEF BatchInv, BatchOpen, InBatch, NoTx
<1>5. QED
  BY <1>1, <1>2, <1>3, <1>4
     DEF BatchInv, Typed, DoneInTx, RowsKept, CurrentRuns, Clean, NothingClaimed, NoTx

\* Another process recovers a claim.
LEMMA OtherStep == BatchInv /\ RecoveredByOther => BatchInv'
<1> SUFFICES ASSUME BatchInv, RecoveredByOther PROVE BatchInv'
  OBVIOUS
<1>1. UNCHANGED <<stored, pc, batch, left, tx, answered>>
  BY DEF RecoveredByOther, histVars
<1>2. PICK k \in Range(batch) \ DOMAIN tx.jobs, status \in {"PENDING", "FAILED"} :
        jobs' = [jobs EXCEPT ![k] = status]
  BY DEF RecoveredByOther
<1>3. /\ jobs' = [x \in Keys |-> jobs'[x]]
      /\ \A x \in Keys : jobs'[x] = jobs[x] \/ jobs'[x] \in {"PENDING", "FAILED"}
  BY <1>2 DEF BatchInv, Typed
<1>4. BatchOpen'
  <2>1. \A i \in 1 .. Len(batch) : batch[i] \in Keys
    BY DEF BatchInv, Typed
  <2>2. QED
    BY <1>1, <1>3, <2>1 DEF BatchInv, BatchOpen, Open, Current
<1>5. DoneMeansStored'
  BY <1>1, <1>3 DEF BatchInv, DoneMeansStored
<1>6. QED
  BY <1>1, <1>3, <1>4, <1>5 DEF BatchInv, Typed, DoneInTx, RowsKept, CurrentRuns, Current

\* plan_and_enqueue, and a statement of it that fails.
LEMMA DispatchStep == BatchInv /\ (Dispatch \/ ListingStatementFails) => BatchInv'
<1> SUFFICES ASSUME BatchInv, Dispatch \/ ListingStatementFails PROVE BatchInv'
  OBVIOUS
<1>1. pc = "listing" /\ UNCHANGED <<jobs, stored, batch, answered, pc>>
  BY DEF Dispatch, ListingStatementFails, dbVars, histVars
<1>2. Typed
  BY DEF BatchInv
<1>3. Typed' /\ DoneInTx'
  <2>1. CASE tx' = tx
    BY <1>1, <2>1 DEF BatchInv, Typed, DoneInTx
  <2>2. CASE tx' = [tx EXCEPT !.aborted = TRUE]
    <3>1. tx' = [jobs |-> tx.jobs, stored |-> tx.stored, aborted |-> TRUE]
      BY <1>2, <2>2 DEF Typed
    <3>2. QED
      BY <1>1, <3>1 DEF BatchInv, Typed, DoneInTx
  <2>3. ASSUME NEW status \in {"PENDING", "WAITING"}, tx' = SetJob(tx, Head(listings), status)
        PROVE  Typed' /\ DoneInTx'
    <3>1. /\ tx' = [jobs |-> tx'.jobs, stored |-> tx'.stored, aborted |-> tx'.aborted]
          /\ tx'.stored = tx.stored
          /\ DOMAIN tx'.jobs = DOMAIN tx.jobs \union {Head(listings)}
          /\ tx'.jobs[Head(listings)] # "DONE"
          /\ \A x \in DOMAIN tx.jobs : x # Head(listings) => tx'.jobs[x] = tx.jobs[x]
      BY <1>2, <2>3, SetJobWrites
    <3>2. QED
      BY <1>1, <1>2, <3>1 DEF BatchInv, Typed, DoneInTx
  <2>4. QED
    BY <2>1, <2>2, <2>3 DEF Dispatch, ListingStatementFails
<1>4. QED
  BY <1>1, <1>3
     DEF BatchInv, DoneMeansStored, RowsKept, BatchOpen, CurrentRuns, InBatch, Clean,
         NothingClaimed

\* Every step keeps what is known of the batch.
LEMMA BatchInvStep == BatchInv /\ [Next]_vars => BatchInv'
<1> SUFFICES ASSUME BatchInv, [Next]_vars PROVE BatchInv'
  OBVIOUS
<1> USE DEF dbVars, histVars
<1>1. CASE UNCHANGED vars
  BY <1>1, FrameStep DEF vars
<1>2. CASE StartRun
  BY <1>2, FrameStep DEF StartRun, InBatch, Clean, NothingClaimed
<1>3. CASE RefreshStep
  <2>1. CASE NextSource \/ SourceQueryFails \/ ListingLoadFails \/ ListingFails \/ EndListings
    BY <2>1, FrameStep
       DEF NextSource, SourceQueryFails, ListingLoadFails, ListingFails, EndListings, InBatch,
           Clean, NothingClaimed
  <2>2. CASE Dispatch \/ ListingStatementFails
    BY <2>2, DispatchStep
  <2>3. CASE CommitRefresh
    BY <2>3, CommitStep DEF CommitRefresh, InBatch, NothingClaimed
  <2>4. CASE RecordRefresh
    BY <2>4, FrameStep DEF RecordRefresh
  <2>5. CASE RecordRefreshFailure
    <3>1. /\ pc = "refresh_failed" /\ pc' = "record_skipped" /\ Rollback
          /\ UNCHANGED <<jobs, stored, batch, answered>>
      BY <2>5 DEF RecordRefreshFailure
    <3>2. batch = <<>> /\ batch \in Seq(Keys) /\ answered \in [Keys -> SUBSET Valid]
      BY <3>1 DEF BatchInv, Typed, NothingClaimed
    <3>3. QED
      BY <3>1, <3>2, RollbackStep DEF InBatch
  <2>6. CASE RecordSkippedBatch
    BY <2>6, LeaveStep DEF RecordSkippedBatch
  <2>7. QED
    BY <1>3, <2>1, <2>2, <2>3, <2>4, <2>5, <2>6 DEF RefreshStep
<1>4. CASE BatchStep
  <2>1. CASE RecoverExpired \/ PromoteDueWaiting
    BY <2>1, QueueStep
  <2>2. CASE TryClaimOne
    BY <2>2, ClaimStep
  <2>3. CASE ClaimAgain
    BY <2>3, ClaimAgainStep
  <2>4. CASE Stale
    BY <2>4, StaleStep
  <2>5. CASE Refuse \/ FetchFailed \/ RecordRaises \/ EndRows
    <3>1. /\ pc \in {"job", "fetch", "rows"} /\ batch # <<>> /\ UNCHANGED <<jobs, stored>>
      BY <2>5 DEF Refuse, FetchFailed, RecordRaises, EndRows, BatchInv, CurrentRuns
    <3>2. PICK status \in {"PENDING", "FAILED", "DONE"} :
            Finish(status) /\ (status = "DONE" => pc = "rows" /\ left = {})
      BY <2>5 DEF Refuse, FetchFailed, RecordRaises, EndRows, MarkFailed
    <3>3. QED
      BY <3>1, <3>2, FinishStep
  <2>6. CASE Fetch
    BY <2>6, FetchStep
  <2>7. CASE FetchAnswered
    BY <2>7, AnswerStep
  <2>8. CASE RejectRow \/ RecordRow
    BY <2>8, RowStep
  <2>9. CASE EndClaims \/ BatchStatementFails \/ EndBatch
    BY <2>9, FrameStep
       DEF EndClaims, BatchStatementFails, EndBatch, InBatch, Clean, NothingClaimed
  <2>10. CASE CommitBatch
    BY <2>10, CommitStep DEF CommitBatch, InBatch, NothingClaimed
  <2>11. CASE RecordBatch \/ RecordBatchFailure
    BY <2>11, LeaveStep DEF RecordBatch, RecordBatchFailure
  <2>12. QED
    BY <1>4, <2>1, <2>2, <2>3, <2>4, <2>5, <2>6, <2>7, <2>8, <2>9, <2>10, <2>11 DEF BatchStep
<1>5. CASE Calling \/ ScrapePending \/ ScrapeDone \/ ScrapeFailed
  BY <1>5, FrameStep DEF Calling, ScrapePending, ScrapeDone, ScrapeFailed
<1>6. CASE Crash \/ CommitFails
  BY <1>6, LeaveStep DEF Crash, CommitFails
<1>7. CASE RecoveredByOther
  BY <1>7, OtherStep
<1>8. QED
  BY <1>1, <1>2, <1>3, <1>4, <1>5, <1>6, <1>7 DEF Next

\* A DONE job has every valid observation of its answer stored, whatever of the run
\* failed, was rolled back, crashed or was tried again.
THEOREM DoneJobsAreStored == Spec => []DoneMeansStored
<1>1. BatchInv => DoneMeansStored
  BY DEF BatchInv
<1>2. QED
  BY <1>1, BatchInvInit, BatchInvStep, PTL DEF Spec

-----------------------------------------------------------------------------
(* The run row, and the tables a refresh began with: until its commit, the  *)
(* committed tables are as they were.  A batch is processed only if the     *)
(* refresh before it is recorded as a success.                              *)

Refreshing == {"source", "listing", "refreshed", "refresh_failed", "record_skipped"}

Working == {"recover", "promote", "claim", "job", "fetch", "rows", "processed", "batch_failed"}

PhaseInv ==
  /\ runs \in Seq([scheduler : RunStatus, worker : RunStatus])
  /\ pc # "idle" => runs # <<>>
  /\ pc \in Refreshing => begun.jobs = jobs /\ begun.stored = stored
  /\ pc \in Working \union {"record_batch"} => runs[Len(runs)].scheduler = "SUCCESS"

\* Recording one phase leaves the other phase of the run as it was.
LEMMA SetRunWrites ==
  ASSUME PhaseInv, pc # "idle",
         NEW phase \in {"scheduler", "worker"}, NEW status \in RunStatus,
         SetRun(phase, status)
  PROVE  /\ runs' \in Seq([scheduler : RunStatus, worker : RunStatus])
         /\ Len(runs') = Len(runs) /\ runs' # <<>>
         /\ \A other \in {"scheduler", "worker"} :
              other # phase => runs'[Len(runs)][other] = runs[Len(runs)][other]
         /\ runs'[Len(runs)][phase] = status
<1> DEFINE R == [scheduler : RunStatus, worker : RunStatus]
           row == runs[Len(runs)]
           new == [row EXCEPT ![phase] = status]
<1>1. runs \in Seq(R) /\ runs # <<>>
  BY DEF PhaseInv
<1>2. runs' = [runs EXCEPT ![Len(runs)] = new]
  BY DEF SetRun
<1> HIDE DEF R
<1>3. Len(runs) \in 1 .. Len(runs) /\ row \in R
  BY <1>1
<1>4. /\ new \in R /\ new[phase] = status
      /\ \A other \in {"scheduler", "worker"} : other # phase => new[other] = row[other]
  BY <1>3 DEF R
<1> HIDE DEF new
<1>5. runs' \in Seq(R) /\ Len(runs') = Len(runs) /\ runs'[Len(runs)] = new
  BY <1>1, <1>2, <1>3, <1>4
<1>6. runs' # <<>>
  BY <1>3, <1>5
<1>7. QED
  BY <1>4, <1>5, <1>6 DEF R

\* Initially no run is recorded.
LEMMA PhaseInvInit == Init => PhaseInv
BY DEF Init, PhaseInv, Refreshing, Working

\* Steps that leave the run row alone, and the tables or a refresh.
LEMMA PhaseFrame ==
  ASSUME PhaseInv, UNCHANGED <<runs, begun>>, UNCHANGED <<jobs, stored>> \/ pc' \notin Refreshing,
         \/ pc' = pc
         \/ pc \in Refreshing /\ pc' \in Refreshing \union {"record_refresh"}
         \/ pc \in Working /\ pc' \in Working \union {"record_batch"}
  PROVE  PhaseInv'
BY DEF PhaseInv, Refreshing, Working

\* Every step keeps what is known of the recorded runs.
LEMMA PhaseInvStep == PhaseInv /\ BatchInv /\ [Next]_vars => PhaseInv'
<1> SUFFICES ASSUME PhaseInv, BatchInv, [Next]_vars PROVE PhaseInv'
  OBVIOUS
<1> USE DEF dbVars, histVars
<1>1. CASE UNCHANGED vars
  BY <1>1, PhaseFrame DEF vars
<1>2. CASE StartRun
  BY <1>2 DEF StartRun, PhaseInv, RunStatus, Refreshing, Working
<1>3. CASE RefreshStep
  <2>1. CASE NextSource \/ SourceQueryFails \/ ListingLoadFails \/ ListingFails \/ EndListings
             \/ Dispatch \/ ListingStatementFails
    BY <2>1, PhaseFrame
       DEF NextSource, SourceQueryFails, ListingLoadFails, ListingFails, EndListings, Dispatch,
           ListingStatementFails, Refreshing
  <2>2. CASE CommitRefresh
    BY <2>2, PhaseFrame DEF CommitRefresh, Refreshing
  <2>3. CASE RecordRefresh
    <3>1. pc = "record_refresh" /\ pc' = "recover" /\ SetRun("scheduler", "SUCCESS")
      BY <2>3 DEF RecordRefresh
    <3>2. /\ runs' \in Seq([scheduler : RunStatus, worker : RunStatus])
          /\ Len(runs') = Len(runs) /\ runs' # <<>> /\ runs'[Len(runs)].scheduler = "SUCCESS"
      BY <3>1, SetRunWrites DEF RunStatus
    <3>3. QED
      BY <3>1, <3>2 DEF PhaseInv, Refreshing
  <2>4. CASE RecordRefreshFailure
    BY <2>4, SetRunWrites
       DEF RecordRefreshFailure, PhaseInv, RunStatus, Refreshing, Working
  <2>5. CASE RecordSkippedBatch
    BY <2>5, SetRunWrites
       DEF RecordSkippedBatch, Leave, PhaseInv, RunStatus, Refreshing, Working
  <2>6. QED
    BY <1>3, <2>1, <2>2, <2>3, <2>4, <2>5 DEF RefreshStep
<1>4. CASE BatchStep
  <2>1. CASE RecordBatch \/ RecordBatchFailure
    BY <2>1, SetRunWrites
       DEF RecordBatch, RecordBatchFailure, Leave, PhaseInv, RunStatus, Refreshing, Working
  <2>2. CASE TryClaimOne
    BY <2>2 DEF TryClaimOne, PhaseInv, Refreshing, Working
  <2>3. CASE ~RecordBatch /\ ~RecordBatchFailure /\ ~TryClaimOne
    <3>1. UNCHANGED <<runs, begun>> /\ pc \in Working /\ pc' \in Working \union {"record_batch"}
      BY <1>4, <2>3
         DEF BatchStep, RecoverExpired, PromoteDueWaiting, EndClaims, ClaimAgain, Stale, Refuse,
             Fetch, FetchFailed, FetchAnswered, RejectRow, RecordRow, RecordRaises, EndRows,
             MarkFailed, Finish, BatchStatementFails, EndBatch, CommitBatch, Working
    <3>2. QED
      BY <3>1, PhaseFrame DEF Refreshing, Working
  <2>4. QED
    BY <2>1, <2>2, <2>3
<1>5. CASE Calling \/ ScrapePending \/ ScrapeDone \/ ScrapeFailed
  BY <1>5, PhaseFrame DEF Calling, ScrapePending, ScrapeDone, ScrapeFailed
<1>6. CASE Crash \/ CommitFails
  BY <1>6 DEF Crash, CommitFails, Leave, PhaseInv, Refreshing, Working
<1>7. CASE RecoveredByOther
  <2>1. batch # <<>>
    BY <1>7 DEF RecoveredByOther, Range
  <2>2. pc \notin Refreshing
    BY <2>1 DEF BatchInv, NothingClaimed, Refreshing
  <2>3. QED
    BY <1>7, <2>2, PhaseFrame DEF RecoveredByOther
<1>8. QED
  BY <1>1, <1>2, <1>3, <1>4, <1>5, <1>6, <1>7 DEF Next

-----------------------------------------------------------------------------
(* What the transaction holds of the jobs.  It has written to jobs that were *)
(* absent, or claimed, when it began, and to no others; and it says RUNNING  *)
(* of the one whose provider is being called, or was when a statement failed.*)

Control ==
  /\ pc \in {"idle", "source", "listing", "refreshed", "record_refresh",
             "refresh_failed", "record_skipped", "recover", "promote", "claim", "job",
             "fetch", "rows", "processed", "record_batch", "batch_failed"}
  /\ sources \in Seq(Sources) /\ listings \in Seq(Keys)
  /\ left \subseteq Observations
  /\ tally \in [again : BOOLEAN, recorded : BOOLEAN, rejected : BOOLEAN]
  /\ isolated \subseteq Keys /\ lost \subseteq isolated

Written(k) ==
  \/ tx.jobs[k] \in {"PENDING", "WAITING", "DONE", "FAILED"}
  \/ tx.jobs[k] = "RUNNING" /\ (pc = "batch_failed" \/ (pc \in {"fetch", "rows"} /\ k = Current))

TxInv ==
  /\ jobs \in [Keys -> Status] /\ stored \subseteq Keys \X Valid
  /\ DOMAIN tx.jobs \subseteq Keys /\ tx.stored \subseteq Keys \X Valid
  /\ \A k \in DOMAIN tx.jobs : jobs[k] \in {"ABSENT", "CLAIMED"} /\ Written(k)

\* A listing of each enabled source, as far as a refresh goes.
LEMMA PageType ==
  ASSUME NEW s \in Sources
  PROVE  /\ Page(s) \in Seq(Keys)
         /\ \A i \in DOMAIN Page(s) : Page(s)[i] \in Keys
<1> DEFINE ids == Identities[s]
           D == {n \in DOMAIN ids : n <= MaxListings}
           last == IF Len(ids) <= MaxListings THEN Len(ids) ELSE MaxListings
<1>1. ids \in Seq(Range(ids)) /\ MaxListings \in Nat
  BY CatalogAssumption
<1>2. Len(ids) \in Nat /\ DOMAIN ids = 1 .. Len(ids)
  BY <1>1
<1>3. \A i \in DOMAIN ids : <<s, ids[i]>> \in Keys
  BY DEF Keys
<1> HIDE DEF ids
<1>4. D = 1 .. last /\ last \in Nat
  BY <1>1, <1>2
<1>5. \A i \in D : <<s, ids[i]>> \in Keys
  BY <1>3
<1> HIDE DEF D, last
<1>6. [i \in D |-> <<s, ids[i]>>] \in [1 .. last -> Keys]
  BY <1>4, <1>5
<1>7. [i \in D |-> <<s, ids[i]>>] \in Seq(Keys)
  BY <1>4, <1>6
<1>8. Page(s) = [i \in D |-> <<s, ids[i]>>]
  BY DEF Page, D, ids
<1>9. QED
  BY <1>5, <1>7, <1>8

\* Initially the process is idle.
LEMMA ControlInit == Init => Control
BY DEF Init, Control, NoTally

\* Every step keeps the type of the control state.
LEMMA ControlStep == Control /\ [Next]_vars => Control'
<1> SUFFICES ASSUME Control, [Next]_vars PROVE Control'
  OBVIOUS
<1> USE DEF dbVars, histVars
<1>1. CASE UNCHANGED vars
  BY <1>1 DEF vars, Control
<1>2. CASE StartRun
  BY <1>2, CatalogAssumption DEF StartRun, Control
<1>3. ASSUME Leave PROVE Control'
  BY <1>3 DEF Leave, Control, NoTally
<1>4. CASE RefreshStep
  <2>1. CASE NextSource
    <3>1. Head(sources) \in Sources /\ Tail(sources) \in Seq(Sources)
      BY <2>1 DEF NextSource, Control
    <3>2. Page(Head(sources)) \in Seq(Keys)
      BY <3>1, PageType
    <3>3. listings' = <<>> \/ listings' = Page(Head(sources))
      BY <2>1 DEF NextSource
    <3>4. listings' \in Seq(Keys)
      <4>1. CASE listings' = <<>>
        BY <4>1
      <4>2. CASE listings' = Page(Head(sources))
        BY <3>2, <4>2
      <4>3. QED
        BY <3>3, <4>1, <4>2
    <3>5. QED
      BY <2>1, <3>1, <3>4 DEF NextSource, Control
  <2>2. CASE SourceQueryFails \/ ListingLoadFails \/ EndListings
    BY <2>2 DEF SourceQueryFails, ListingLoadFails, EndListings, Control
  <2>3. CASE Dispatch \/ ListingFails \/ ListingStatementFails
    <3>1. listings # <<>> /\ listings' = Tail(listings)
      BY <2>3 DEF Dispatch, ListingFails, ListingStatementFails, Isolate, NextListing
    <3>2. Head(listings) \in Keys /\ listings' \in Seq(Keys)
      BY <3>1 DEF Control
    <3>3. QED
      BY <2>3, <3>2 DEF Dispatch, ListingFails, ListingStatementFails, Isolate, Control
  <2>4. CASE CommitRefresh \/ RecordRefresh \/ RecordRefreshFailure
    BY <2>4 DEF CommitRefresh, RecordRefresh, RecordRefreshFailure, Control
  <2>5. CASE RecordSkippedBatch
    BY <1>3, <2>5 DEF RecordSkippedBatch
  <2>6. QED
    BY <1>4, <2>1, <2>2, <2>3, <2>4, <2>5 DEF RefreshStep
<1>5. CASE BatchStep
  <2>1. CASE RecoverExpired \/ PromoteDueWaiting \/ TryClaimOne \/ EndClaims \/ ClaimAgain \/ Stale
    <3>1. UNCHANGED <<sources, listings, left, isolated, lost>>
      BY <2>1 DEF RecoverExpired, PromoteDueWaiting, TryClaimOne, EndClaims, ClaimAgain, Stale
    <3>2. pc' \in {"promote", "claim", "job"}
      BY <2>1 DEF RecoverExpired, PromoteDueWaiting, TryClaimOne, EndClaims, ClaimAgain, Stale
    <3>3. tally' \in {tally, [tally EXCEPT !.again = TRUE], NoTally}
      BY <2>1 DEF RecoverExpired, PromoteDueWaiting, TryClaimOne, EndClaims, ClaimAgain, Stale
    <3>4. tally' \in [again : BOOLEAN, recorded : BOOLEAN, rejected : BOOLEAN]
      <4> DEFINE T == [again : BOOLEAN, recorded : BOOLEAN, rejected : BOOLEAN]
      <4>1. tally \in T /\ NoTally \in T
        BY DEF Control, NoTally
      <4>2. [tally EXCEPT !.again = TRUE] \in T
        BY <4>1
      <4>3. QED
        BY <3>3, <4>1, <4>2
    <3>5. QED
      BY <3>1, <3>2, <3>4 DEF Control
  <2>2. CASE Refuse \/ FetchFailed \/ RecordRaises \/ EndRows
    <3>1. \E status : Finish(status)
      BY <2>2 DEF Refuse, FetchFailed, RecordRaises, EndRows, MarkFailed
    <3>2. pc' = "job" /\ left' = {} /\ tally' = NoTally
      BY <3>1 DEF Finish
    <3>3. UNCHANGED <<sources, listings, isolated, lost>>
      BY <2>2 DEF Refuse, FetchFailed, RecordRaises, EndRows
    <3>4. QED
      BY <3>2, <3>3 DEF Control, NoTally
  <2>3. CASE Fetch \/ FetchAnswered \/ RejectRow \/ RecordRow
    BY <2>3 DEF Fetch, FetchAnswered, RejectRow, RecordRow, Control
  <2>4. CASE BatchStatementFails \/ EndBatch \/ CommitBatch
    BY <2>4 DEF BatchStatementFails, EndBatch, CommitBatch, Control
  <2>5. CASE RecordBatch \/ RecordBatchFailure
    BY <1>3, <2>5 DEF RecordBatch, RecordBatchFailure
  <2>6. QED
    BY <1>5, <2>1, <2>2, <2>3, <2>4, <2>5 DEF BatchStep
<1>6. CASE Calling \/ RecoveredByOther \/ ScrapePending \/ ScrapeDone \/ ScrapeFailed
  BY <1>6 DEF Calling, RecoveredByOther, ScrapePending, ScrapeDone, ScrapeFailed, Control
<1>7. CASE Crash \/ CommitFails
  BY <1>3, <1>7 DEF Crash, CommitFails
<1>8. QED
  BY <1>1, <1>2, <1>4, <1>5, <1>6, <1>7 DEF Next

\* Initially no transaction is open.
LEMMA TxInvInit == Init => TxInv
BY DEF Init, TxInv, NoTx, Status

\* Steps that write to no job.
LEMMA TxFrame ==
  ASSUME TxInv, UNCHANGED <<jobs, stored>>, tx'.jobs = tx.jobs, tx'.stored \subseteq Keys \X Valid,
         UNCHANGED batch \/ pc \notin {"fetch", "rows"},
         \/ pc' = pc \/ pc' = "batch_failed" \/ pc \notin {"fetch", "rows", "batch_failed"}
         \/ pc = "fetch" /\ pc' = "rows"
  PROVE  TxInv'
<1>1. ASSUME NEW k \in DOMAIN tx.jobs PROVE jobs'[k] \in {"ABSENT", "CLAIMED"} /\ Written(k)'
  <2>1. jobs[k] \in {"ABSENT", "CLAIMED"} /\ Written(k)
    BY <1>1 DEF TxInv
  <2>2. CASE tx.jobs[k] # "RUNNING"
    BY <2>1, <2>2 DEF Written
  <2>3. CASE pc \in {"fetch", "rows"}
    BY <2>1, <2>3 DEF Written, Current
  <2>4. CASE tx.jobs[k] = "RUNNING" /\ pc \notin {"fetch", "rows"}
    BY <2>1, <2>4 DEF Written
  <2>5. QED
    BY <2>2, <2>3, <2>4
<1>2. QED
  BY <1>1 DEF TxInv

\* Steps that drop the transaction.
LEMMA TxRollback ==
  ASSUME TxInv, UNCHANGED <<jobs, stored>>, tx' = NoTx
  PROVE  TxInv'
BY DEF TxInv, NoTx

\* A rollback forgets what the transaction wrote.
LEMMA TxLeave == ASSUME TxInv, UNCHANGED <<jobs, stored>>, Leave PROVE TxInv'
BY TxRollback DEF Leave, Rollback

\* A commit publishes it.
LEMMA TxCommit ==
  ASSUME TxInv, Commit, pc \in {"refreshed", "processed"}
  PROVE  TxInv'
<1>1. \A k \in DOMAIN tx.jobs : tx.jobs[k] \in Status
  BY DEF TxInv, Written, Status
<1>2. jobs' \in [Keys -> Status]
  <2>1. \A k \in Keys : Seen(k) \in Status
    BY <1>1 DEF TxInv, Seen
  <2>2. QED
    BY <2>1 DEF Commit, TxInv
<1>3. stored' \subseteq Keys \X Valid
  BY DEF Commit, TxInv
<1>4. tx' = NoTx
  BY DEF Commit
<1>5. QED
  BY <1>2, <1>3, <1>4 DEF TxInv, NoTx

\* Steps that write one job; before, at most that job was RUNNING.
LEMMA TxWrite ==
  ASSUME TxInv, Typed, UNCHANGED <<jobs, stored>>,
         NEW k \in Keys, NEW status, tx' = SetJob(tx, k, status),
         k \in DOMAIN tx.jobs \/ jobs[k] \in {"ABSENT", "CLAIMED"},
         pc # "batch_failed", pc \in {"fetch", "rows"} => k = Current,
         \/ status \in {"PENDING", "WAITING", "DONE", "FAILED"}
         \/ status = "RUNNING" /\ pc' = "fetch" /\ k = Current'
  PROVE  TxInv'
<1>1. /\ tx'.stored = tx.stored /\ DOMAIN tx'.jobs = DOMAIN tx.jobs \union {k}
      /\ tx'.jobs[k] = status
      /\ \A x \in DOMAIN tx.jobs : x # k => tx'.jobs[x] = tx.jobs[x]
  BY SetJobWrites
<1>2. ASSUME NEW x \in DOMAIN tx'.jobs PROVE jobs'[x] \in {"ABSENT", "CLAIMED"} /\ Written(x)'
  <2>1. CASE x = k
    <3>1. Written(x)'
      BY <1>1, <2>1 DEF Written
    <3>2. QED
      BY <2>1, <3>1 DEF TxInv
  <2>2. CASE x # k
    <3>1. x \in DOMAIN tx.jobs /\ tx'.jobs[x] = tx.jobs[x]
      BY <1>1, <1>2, <2>2
    <3>2. jobs[x] \in {"ABSENT", "CLAIMED"} /\ Written(x)
      BY <3>1 DEF TxInv
    <3>3. tx.jobs[x] \in {"PENDING", "WAITING", "DONE", "FAILED"}
      BY <2>2, <3>2 DEF Written
    <3>4. QED
      BY <3>1, <3>2, <3>3 DEF Written
  <2>3. QED
    BY <2>1, <2>2
<1>3. QED
  BY <1>1, <1>2 DEF TxInv

\* The queue moves of claim_next, in a clean session; and a claim recovered by another
\* process, of a job not written to.
LEMMA TxQueue ==
  ASSUME TxInv, UNCHANGED <<stored, tx>>,
         jobs' = [k \in Keys |-> jobs'[k]],
         \A k \in Keys :
           \/ jobs'[k] = jobs[k]
           \/ /\ jobs'[k] \in {"PENDING", "FAILED", "CLAIMED"}
              /\ jobs[k] \in {"PENDING", "WAITING", "CLAIMED"} /\ k \notin DOMAIN tx.jobs,
         tx = NoTx \/ UNCHANGED <<pc, batch>>
  PROVE  TxInv' /\ \A k \in Keys : jobs[k] \in {"DONE", "FAILED"} => jobs'[k] = jobs[k]
<1>1. jobs' \in [Keys -> Status]
  <2>1. \A k \in Keys : jobs'[k] \in Status
    BY DEF TxInv, Status
  <2>2. QED
    BY <2>1
<1>2. \A k \in DOMAIN tx.jobs : jobs'[k] \in {"ABSENT", "CLAIMED"} /\ Written(k)'
  BY DEF TxInv, Written, Current, NoTx
<1>3. QED
  BY <1>1, <1>2 DEF TxInv

\* Besides the type, what the metrics rely on: a job that is done, or failed, stays so.
FinalStays == \A k \in Keys : jobs[k] \in {"DONE", "FAILED"} => jobs'[k] = jobs[k]

\* A commit writes to no job that is done or failed.
LEMMA CommitKeepsFinal ==
  ASSUME TxInv, Commit
  PROVE  FinalStays
<1>1. \A k \in Keys : jobs[k] \in {"DONE", "FAILED"} => k \notin DOMAIN tx.jobs
  BY DEF TxInv
<1>2. QED
  BY <1>1 DEF Commit, Seen, FinalStays

\* Every step keeps what the transaction holds of the jobs.
LEMMA TxInvStep ==
  ASSUME TxInv, BatchInv, Control, [Next]_vars
  PROVE  TxInv' /\ FinalStays
<1> USE DEF dbVars, histVars
<1>1. UNCHANGED jobs => FinalStays
  BY DEF FinalStays
<1>2. Typed
  BY DEF BatchInv
<1>3. tx.stored \subseteq Keys \X Valid
  BY DEF TxInv
<1>4. CASE UNCHANGED vars
  BY <1>1, <1>3, <1>4, TxFrame DEF vars
<1>5. CASE StartRun
  BY <1>1, <1>3, <1>5, TxFrame DEF StartRun
<1>6. CASE RefreshStep
  <2>1. CASE NextSource \/ SourceQueryFails \/ ListingLoadFails \/ ListingFails \/ EndListings
    BY <1>1, <1>3, <2>1, TxFrame
       DEF NextSource, SourceQueryFails, ListingLoadFails, ListingFails, EndListings
  <2>2. CASE Dispatch
    <3>1. /\ pc = "listing" /\ pc' = pc /\ UNCHANGED <<jobs, stored, batch>>
          /\ listings # <<>>
      BY <2>2 DEF Dispatch
    <3>2. CASE tx' = tx
      BY <1>1, <1>3, <3>1, <3>2, TxFrame
    <3>3. CASE tx' # tx
      <4>1. PICK status \in {"PENDING", "WAITING"} : tx' = SetJob(tx, Head(listings), status)
        BY <2>2, <3>3 DEF Dispatch
      <4>2. Seen(Head(listings)) = "ABSENT"
        BY <2>2, <3>3 DEF Dispatch
      <4>3. Head(listings) \in Keys
        BY <3>1 DEF Control
      <4>4. Head(listings) \in DOMAIN tx.jobs \/ jobs[Head(listings)] \in {"ABSENT", "CLAIMED"}
        BY <4>2 DEF Seen
      <4>5. TxInv'
        BY <1>2, <3>1, <4>1, <4>3, <4>4, TxWrite
      <4>6. QED
        BY <1>1, <3>1, <4>5
    <3>4. QED
      BY <3>2, <3>3
  <2>3. CASE ListingStatementFails
    <3>1. tx'.jobs = tx.jobs /\ tx'.stored = tx.stored
      BY <1>2, <2>3 DEF ListingStatementFails, Typed
    <3>2. QED
      BY <1>1, <1>3, <2>3, <3>1, TxFrame DEF ListingStatementFails
  <2>4. CASE CommitRefresh
    BY <2>4, TxCommit, CommitKeepsFinal DEF CommitRefresh
  <2>5. CASE RecordRefresh
    BY <1>1, <1>3, <2>5, TxFrame DEF RecordRefresh
  <2>6. CASE RecordRefreshFailure
    BY <1>1, <2>6, TxRollback DEF RecordRefreshFailure, Rollback
  <2>7. CASE RecordSkippedBatch
    BY <1>1, <2>7, TxLeave DEF RecordSkippedBatch
  <2>8. QED
    BY <1>6, <2>1, <2>2, <2>3, <2>4, <2>5, <2>6, <2>7 DEF RefreshStep
<1>7. CASE BatchStep
  <2>1. CASE RecoverExpired \/ PromoteDueWaiting
    <3>1. tx = NoTx /\ UNCHANGED <<stored, tx>>
      BY <2>1 DEF RecoverExpired, PromoteDueWaiting, BatchInv, Clean
    <3>2. QED
      BY <2>1, <3>1, QueueWrites, TxQueue DEF FinalStays, NoTx
  <2>2. CASE TryClaimOne
    <3>1. tx = NoTx /\ UNCHANGED <<stored, tx>>
      BY <2>2 DEF TryClaimOne, BatchInv, Clean
    <3>2. PICK k \in Keys : jobs[k] = "PENDING" /\ jobs' = [jobs EXCEPT ![k] = "CLAIMED"]
      BY <2>2 DEF TryClaimOne
    <3>3. jobs' = [x \in Keys |-> jobs'[x]] /\ \A x \in Keys : x # k => jobs'[x] = jobs[x]
      BY <3>2 DEF TxInv
    <3>4. jobs'[k] = "CLAIMED"
      BY <3>2 DEF TxInv
    <3>5. QED
      BY <3>1, <3>2, <3>3, <3>4, TxQueue DEF FinalStays, NoTx
  <2>3. CASE ClaimAgain
    <3>1. /\ pc = "job" /\ batch # <<>> /\ jobs[Current] = "PENDING" /\ tx' = NoTx
          /\ jobs' = [k \in Keys |-> IF k = Current THEN "CLAIMED" ELSE Seen(k)]
          /\ stored' = stored \union tx.stored
      BY <2>3 DEF ClaimAgain
    <3>2. \A k \in Keys : Seen(k) \in Status
      BY <3>1 DEF TxInv, Seen, Written, Status
    <3>3. jobs' \in [Keys -> Status]
      BY <3>1, <3>2 DEF Status
    <3>4. FinalStays
      BY <3>1 DEF TxInv, FinalStays, Seen
    <3>5. QED
      BY <3>1, <3>3, <3>4 DEF TxInv, NoTx
  <2>4. CASE Refuse \/ FetchFailed \/ RecordRaises \/ EndRows
    <3>1. /\ pc \in {"job", "fetch", "rows"} /\ batch # <<>> /\ UNCHANGED <<jobs, stored>>
      BY <2>4 DEF Refuse, FetchFailed, RecordRaises, EndRows, BatchInv, CurrentRuns
    <3>2. PICK status \in {"PENDING", "FAILED", "DONE"} : Finish(status)
      BY <2>4 DEF Refuse, FetchFailed, RecordRaises, EndRows, MarkFailed
    <3>3. tx' = SetJob(tx, Current, status)
      BY <3>2 DEF Finish
    <3>4. Current \in Keys
      BY <3>1, CurrentOpen DEF InBatch
    <3>5. Current \in DOMAIN tx.jobs \/ jobs[Current] = "CLAIMED"
      BY <2>4 DEF Refuse, FetchFailed, RecordRaises, EndRows, Owned, BatchInv, CurrentRuns
    <3>6. TxInv'
      BY <1>2, <3>1, <3>3, <3>4, <3>5, TxWrite
    <3>7. QED
      BY <1>1, <3>1, <3>6
  <2>5. CASE Fetch
    <3>1. /\ pc = "job" /\ batch # <<>> /\ pc' = "fetch" /\ jobs[Current] = "CLAIMED"
          /\ tx' = SetJob(tx, Current, "RUNNING") /\ UNCHANGED <<jobs, stored, batch>>
      BY <2>5 DEF Fetch, Owned
    <3>2. Current \in Keys /\ Current' = Current
      BY <3>1, CurrentOpen DEF InBatch, Current
    <3>3. TxInv'
      BY <1>2, <3>1, <3>2, TxWrite
    <3>4. QED
      BY <1>1, <3>1, <3>3
  <2>6. CASE FetchAnswered \/ RejectRow \/ BatchStatementFails \/ EndBatch
    BY <1>1, <1>3, <2>6, TxFrame DEF FetchAnswered, RejectRow, BatchStatementFails, EndBatch
  <2>7. CASE EndClaims \/ Stale
    BY <1>1, <1>3, <2>7, TxFrame DEF EndClaims, Stale
  <2>8. CASE RecordRow
    <3>1. PICK o \in left \ {Malformed} :
            tx' = tx \/ tx' = [tx EXCEPT !.stored = @ \union {<<Current, o>>}]
      BY <2>8 DEF RecordRow
    <3>2. Current \in Keys /\ o \in Valid
      BY <2>8, CurrentOpen DEF RecordRow, BatchInv, CurrentRuns, InBatch, Control, Observations
    <3>3. tx'.jobs = tx.jobs /\ tx'.stored \subseteq tx.stored \union {<<Current, o>>}
      BY <1>2, <3>1 DEF Typed
    <3>4. tx'.stored \subseteq Keys \X Valid
      BY <1>3, <3>2, <3>3
    <3>5. QED
      BY <1>1, <2>8, <3>3, <3>4, TxFrame DEF RecordRow
  <2>9. CASE CommitBatch
    BY <2>9, TxCommit, CommitKeepsFinal DEF CommitBatch
  <2>10. CASE RecordBatch \/ RecordBatchFailure
    BY <1>1, <2>10, TxLeave DEF RecordBatch, RecordBatchFailure
  <2>11. QED
    BY <1>7, <2>1, <2>2, <2>3, <2>4, <2>5, <2>6, <2>7, <2>8, <2>9, <2>10 DEF BatchStep
<1>8. CASE Calling \/ ScrapePending \/ ScrapeDone \/ ScrapeFailed
  BY <1>1, <1>3, <1>8, TxFrame DEF Calling, ScrapePending, ScrapeDone, ScrapeFailed
<1>9. CASE Crash \/ CommitFails
  BY <1>1, <1>9, TxLeave DEF Crash, CommitFails
<1>10. CASE RecoveredByOther
  <2>1. PICK k \in Range(batch) \ DOMAIN tx.jobs, status \in {"PENDING", "FAILED"} :
          jobs[k] = "CLAIMED" /\ jobs' = [jobs EXCEPT ![k] = status]
    BY <1>10 DEF RecoveredByOther
  <2>2. UNCHANGED <<stored, tx, pc, batch>>
    BY <1>10 DEF RecoveredByOther
  <2>3. /\ jobs' = [x \in Keys |-> jobs'[x]]
        /\ \A x \in Keys : jobs'[x] = IF x = k THEN status ELSE jobs[x]
    BY <2>1 DEF TxInv
  <2>4. QED
    BY <2>1, <2>2, <2>3, TxQueue DEF FinalStays
<1>11. QED
  BY <1>4, <1>5, <1>6, <1>7, <1>8, <1>9, <1>10 DEF Next

RunInv == CallInv /\ BatchInv /\ PhaseInv /\ Control /\ TxInv

\* The parts together, initially.
LEMMA RunInvInit == Init => RunInv
BY CallInvInit, BatchInvInit, PhaseInvInit, ControlInit, TxInvInit DEF Init, RunInv

\* The parts together, at every step.
LEMMA RunInvStep == RunInv /\ [Next]_vars => RunInv' /\ FinalStays
BY StepsOfCall, StartCallInv, EndCallInv, CallStepInv, SameCallInv, BatchInvStep, PhaseInvStep,
   ControlStep, TxInvStep DEF RunInv

\* The type invariant.  It says of the committed table that no job is ever seen as
\* RUNNING: mark_running writes it in a transaction that ends with the outcome of the
\* job, or is rolled back.
THEOREM TypeCorrect == Spec => []TypeOK
<1>1. RunInv => TypeOK
  BY DEF RunInv, CallInv, BatchInv, Typed, PhaseInv, Control, TxInv, TypeOK
<1>2. RunInv /\ [Next]_vars => RunInv'
  BY RunInvStep
<1>3. QED
  BY <1>1, <1>2, RunInvInit, PTL DEF Spec

-----------------------------------------------------------------------------
(* The metrics.  What is missing at one query has reached a final status by *)
(* then, so the query for that status, which comes later, counts it.        *)

ScrapeInv ==
  /\ scrape.step \in {"idle", "done", "failed"}
  /\ scrape.step = "done" => scrape.missing \subseteq Counted({"DONE", "FAILED"})
  /\ scrape.step = "failed" => scrape.missing \subseteq Counted({"FAILED"})

\* A job leaves no status the collection has yet to count but for a later one.
LEMMA ScrapeInvStep == RunInv /\ ScrapeInv /\ [Next]_vars => ScrapeInv'
<1> SUFFICES ASSUME RunInv, ScrapeInv, [Next]_vars PROVE ScrapeInv'
  OBVIOUS
<1>1. FinalStays
  BY RunInvStep
<1>2. CASE scrape' = scrape
  <2>1. \A k \in Keys : jobs[k] \in {"DONE", "FAILED"} => jobs'[k] = jobs[k]
    BY <1>1 DEF FinalStays
  <2>2. QED
    BY <1>2, <2>1 DEF ScrapeInv, Counted
<1>3. CASE ScrapePending
  <2>1. scrape' = [step |-> "done", missing |-> Counted({"DONE", "FAILED"})] /\ jobs' = jobs
    BY <1>3 DEF ScrapePending, dbVars
  <2>2. QED
    BY <2>1 DEF ScrapeInv, Counted
<1>4. CASE ScrapeDone
  <2>1. /\ scrape.missing \subseteq Counted({"DONE", "FAILED"}) /\ jobs' = jobs
        /\ scrape' = [step |-> "failed", missing |-> scrape.missing \ Counted({"DONE"})]
    BY <1>4 DEF ScrapeDone, ScrapeInv, dbVars
  <2>2. QED
    BY <2>1 DEF ScrapeInv, Counted
<1>5. CASE ScrapeFailed
  <2>1. scrape.missing \subseteq Counted({"FAILED"})
    BY <1>5 DEF ScrapeFailed, ScrapeInv
  <2>2. scrape' = NoScrape
    BY <1>5, <2>1 DEF ScrapeFailed
  <2>3. QED
    BY <2>2 DEF ScrapeInv, NoScrape
<1>6. QED
  <2>1. Next /\ scrape' # scrape => ScrapePending \/ ScrapeDone \/ ScrapeFailed
    BY DEF Next, StartRun, RefreshStep, NextSource, SourceQueryFails, ListingLoadFails,
           Dispatch, ListingFails, ListingStatementFails, EndListings, CommitRefresh,
           RecordRefresh, RecordRefreshFailure, RecordSkippedBatch, BatchStep, RecoverExpired,
           PromoteDueWaiting, TryClaimOne, EndClaims, ClaimAgain, Stale, Refuse, Fetch,
           FetchFailed, FetchAnswered, RejectRow, RecordRow, RecordRaises, EndRows,
           BatchStatementFails, EndBatch, CommitBatch, RecordBatch, RecordBatchFailure,
           Calling, Crash, CommitFails, RecoveredByOther
  <2>2. QED
    BY <1>2, <1>3, <1>4, <1>5, <2>1 DEF vars

\* collect_scheduler_metrics runs a query per status, and jobs move between them; but
\* they move forward, the way the queries go, so every job that was there when the
\* collection began, and was not waiting, is counted by one of its queries.
THEOREM ScrapesAreComplete == Spec => []ScrapeMissesNoJob
<1>1. Init => RunInv /\ ScrapeInv
  BY RunInvInit DEF Init, ScrapeInv, NoScrape
<1>2. RunInv /\ ScrapeInv /\ [Next]_vars => RunInv' /\ ScrapeInv'
  BY RunInvStep, ScrapeInvStep
<1>3. ScrapeInv => ScrapeMissesNoJob
  BY DEF ScrapeInv, ScrapeMissesNoJob
<1>4. QED
  BY <1>1, <1>2, <1>3, PTL DEF Spec

\* A queue holds its head and the rest.
LEMMA HeadAndTail ==
  ASSUME NEW S, NEW seq \in Seq(S), seq # <<>>
  PROVE  Head(seq) \in Range(seq) /\ Range(seq) = {Head(seq)} \union Range(Tail(seq))
<1>1. /\ Len(seq) \in Nat /\ Len(seq) > 0 /\ DOMAIN seq = 1 .. Len(seq) /\ Head(seq) = seq[1]
      /\ DOMAIN Tail(seq) = 1 .. (Len(seq) - 1)
      /\ \A i \in 1 .. (Len(seq) - 1) : Tail(seq)[i] = seq[i + 1]
  OBVIOUS
<1>2. \A x : x \in Range(seq) <=> \E i \in 1 .. Len(seq) : x = seq[i]
  BY <1>1 DEF Range
<1>3. \A x : x \in Range(Tail(seq)) <=> \E i \in 1 .. (Len(seq) - 1) : x = seq[i + 1]
  BY <1>1 DEF Range
<1>4. 1 \in 1 .. Len(seq)
  BY <1>1
<1>5. \A i \in 1 .. Len(seq) : i = 1 \/ (i - 1 \in 1 .. (Len(seq) - 1) /\ (i - 1) + 1 = i)
  BY <1>1
<1>6. \A i \in 1 .. (Len(seq) - 1) : i + 1 \in 1 .. Len(seq)
  BY <1>1
<1>7. Head(seq) \in Range(seq)
  BY <1>1, <1>2, <1>4
<1>8. \A x : x \in Range(seq) <=> x = Head(seq) \/ x \in Range(Tail(seq))
  <2>1. ASSUME NEW i \in 1 .. Len(seq) PROVE seq[i] = Head(seq) \/ seq[i] \in Range(Tail(seq))
    <3>1. CASE i = 1
      BY <1>1, <3>1
    <3>2. CASE i # 1
      <4>1. i - 1 \in 1 .. (Len(seq) - 1) /\ (i - 1) + 1 = i
        BY <1>5, <3>2
      <4>2. seq[i] = seq[(i - 1) + 1]
        BY <4>1
      <4>3. QED
        BY <1>3, <4>1, <4>2
    <3>3. QED
      BY <3>1, <3>2
  <2>2. ASSUME NEW i \in 1 .. (Len(seq) - 1) PROVE seq[i + 1] \in Range(seq)
    BY <1>2, <1>6
  <2>3. QED
    BY <1>2, <1>3, <1>7, <2>1, <2>2
<1>9. QED
  BY <1>7, <1>8

-----------------------------------------------------------------------------
(* A failure that is recorded.  A refresh has committed nothing.  A batch   *)
(* has, whenever it claimed a job; but what it recorded for a job before    *)
(* was in the same transaction as the outcome of that job.                  *)

Settled(k) == jobs[k] \notin {"CLAIMED", "RUNNING"}

KeptInv ==
  /\ pc \in {"recover", "promote", "claim"} => stored = begun.stored
  /\ pc \in Working => \A p \in stored \ begun.stored : Settled(p[1]) /\ p[1] \notin Range(batch)
  /\ pc \in {"job", "fetch", "rows", "processed"} => \A p \in tx.stored : p[1] \in DOMAIN tx.jobs

\* Initially nothing is stored.
LEMMA KeptInvInit == Init => KeptInv
BY DEF Init, KeptInv, Working

\* Steps that store nothing and claim nothing.
LEMMA KeptFrame ==
  ASSUME KeptInv, UNCHANGED <<stored, begun>>,
         \A k : Settled(k) => Settled(k)',
         Range(batch') \subseteq Range(batch),
         DOMAIN tx.jobs \subseteq DOMAIN tx'.jobs,
         \A p \in tx'.stored : p \in tx.stored \/ p[1] \in DOMAIN tx'.jobs,
         \/ pc' = pc \/ pc' \notin Working
         \/ pc \in Working /\ pc' = "batch_failed"
         \/ pc = "recover" /\ pc' = "promote"
         \/ pc = "promote" /\ pc' = "claim"
         \/ pc = "claim" /\ pc' = "job" /\ tx'.stored = {}
         \/ pc \in {"job", "fetch", "rows"} /\ pc' \in {"job", "fetch", "rows", "processed"}
  PROVE  KeptInv'
<1>1. pc' \in Working => pc \in Working
  BY DEF Working
<1>2. pc' \in Working =>
        \A p \in stored' \ begun'.stored : Settled(p[1])' /\ p[1] \notin Range(batch')
  BY <1>1 DEF KeptInv
<1>3. pc' \in {"recover", "promote", "claim"} => stored' = begun'.stored
  BY DEF KeptInv, Working
<1>4. pc' \in {"job", "fetch", "rows", "processed"} =>
        \A p \in tx'.stored : p[1] \in DOMAIN tx'.jobs
  BY DEF KeptInv, Working
<1>5. QED
  BY <1>2, <1>3, <1>4 DEF KeptInv

\* The part of the batch that is left.
LEMMA TailRange ==
  ASSUME RunInv, batch # <<>>
  PROVE  /\ Range(batch) = {Current} \union Range(Tail(batch))
         /\ \A k \in Range(batch) : k \in Keys /\ \E i \in 1 .. Len(batch) : k = batch[i]
<1>1. batch \in Seq(Keys)
  BY DEF RunInv, BatchInv, Typed
<1>2. Range(batch) = {Current} \union Range(Tail(batch))
  BY <1>1, HeadAndTail DEF Current
<1>3. DOMAIN batch = 1 .. Len(batch) /\ \A i \in 1 .. Len(batch) : batch[i] \in Keys
  BY <1>1
<1>4. QED
  BY <1>2, <1>3 DEF Range

\* claim_job publishes results, none of them of a job that is still in the batch.
LEMMA KeptClaimAgain == RunInv /\ KeptInv /\ ClaimAgain => KeptInv'
<1> SUFFICES ASSUME RunInv, KeptInv, ClaimAgain PROVE KeptInv'
  OBVIOUS
<1>1. /\ pc = "job" /\ pc' = pc /\ batch # <<>> /\ UNCHANGED <<batch, begun>> /\ tx' = NoTx
      /\ jobs' = [k \in Keys |-> IF k = Current THEN "CLAIMED" ELSE Seen(k)]
      /\ stored' = stored \union tx.stored
  BY DEF ClaimAgain, histVars
<1>2. \A k \in DOMAIN tx.jobs : k \notin Range(batch)
  BY <1>1, TailRange DEF RunInv, BatchInv, BatchOpen, InBatch
<1>3. Current \in Range(batch)
  BY <1>1, TailRange
<1>4. ASSUME NEW p \in stored' \ begun'.stored
      PROVE  Settled(p[1])' /\ p[1] \notin Range(batch')
  <2>1. p[1] \in Keys
    BY <1>1, <1>4 DEF RunInv, TxInv
  <2>2. p[1] \notin Range(batch)
    BY <1>1, <1>2, <1>4 DEF KeptInv, Working
  <2>3. Seen(p[1]) \notin {"CLAIMED", "RUNNING"}
    <3>1. CASE p[1] \in DOMAIN tx.jobs
      BY <1>1, <3>1 DEF RunInv, TxInv, Written, Seen
    <3>2. CASE p[1] \notin DOMAIN tx.jobs
      BY <1>1, <1>4, <3>2 DEF KeptInv, Working, Settled, Seen
    <3>3. QED
      BY <3>1, <3>2
  <2>4. QED
    BY <1>1, <1>3, <2>1, <2>2, <2>3 DEF Settled
<1>5. QED
  BY <1>1, <1>4 DEF KeptInv, NoTx

\* Every step of a batch keeps its results with the outcomes of the jobs.
LEMMA KeptInvStep == RunInv /\ KeptInv /\ [Next]_vars => KeptInv'
<1> SUFFICES ASSUME RunInv, KeptInv, [Next]_vars PROVE KeptInv'
  OBVIOUS
<1> USE DEF dbVars, histVars
<1>1. ASSUME UNCHANGED jobs PROVE \A k : Settled(k) => Settled(k)'
  BY <1>1 DEF Settled
<1>2. CASE UNCHANGED vars
  BY <1>1, <1>2, KeptFrame DEF vars
<1>3. CASE StartRun
  BY <1>3 DEF StartRun, KeptInv, Working
<1>4. CASE RefreshStep
  <2>1. CASE RecordRefresh
    BY <2>1 DEF RecordRefresh, NoPhase, KeptInv
  <2>2. CASE ~RecordRefresh
    BY <1>4, <2>2
       DEF RefreshStep, NextSource, SourceQueryFails, ListingLoadFails, Dispatch, ListingFails,
           ListingStatementFails, EndListings, CommitRefresh, RecordRefreshFailure,
           RecordSkippedBatch, Leave, KeptInv, Working
  <2>3. QED
    BY <2>1, <2>2
<1>5. CASE BatchStep
  <2>1. CASE RecoverExpired \/ PromoteDueWaiting
    <3>1. /\ UNCHANGED <<stored, begun, batch, tx>>
          /\ pc \in {"recover", "promote"} /\ pc' \in {"promote", "claim"}
      BY <2>1 DEF RecoverExpired, PromoteDueWaiting
    <3>2. stored = begun.stored
      BY <3>1 DEF KeptInv
    <3>3. QED
      BY <3>1, <3>2 DEF KeptInv
  <2>2. CASE TryClaimOne
    <3>1. /\ pc = "claim" /\ pc' = pc /\ stored' = stored /\ tx' = tx
          /\ begun'.stored = begun.stored
      BY <2>2 DEF TryClaimOne, RunInv, PhaseInv
    <3>2. QED
      BY <3>1 DEF KeptInv
  <2>3. CASE EndClaims
    <3>1. pc = "claim" /\ pc' = "job" /\ UNCHANGED <<stored, begun, batch, tx, jobs>> /\ tx = NoTx
      BY <2>3 DEF EndClaims, RunInv, BatchInv, Clean
    <3>2. QED
      BY <1>1, <3>1, KeptFrame DEF NoTx
  <2>4. CASE ClaimAgain
    BY <2>4, KeptClaimAgain
  <2>5. CASE Stale
    <3>1. pc = "job" /\ pc' = pc /\ batch # <<>> /\ batch' = Tail(batch)
          /\ UNCHANGED <<stored, begun, tx, jobs>>
      BY <2>5 DEF Stale
    <3>2. QED
      BY <1>1, <3>1, TailRange, KeptFrame
  <2>6. CASE Refuse \/ FetchFailed \/ RecordRaises \/ EndRows
    <3>1. /\ pc \in {"job", "fetch", "rows"} /\ batch # <<>> /\ UNCHANGED <<jobs, stored, begun>>
      BY <2>6 DEF Refuse, FetchFailed, RecordRaises, EndRows, RunInv, BatchInv, CurrentRuns
    <3>2. PICK status \in {"PENDING", "FAILED", "DONE"} : Finish(status)
      BY <2>6 DEF Refuse, FetchFailed, RecordRaises, EndRows, MarkFailed
    <3>3. tx' = SetJob(tx, Current, status) /\ batch' = Tail(batch) /\ pc' = "job"
      BY <3>2 DEF Finish
    <3>4. DOMAIN tx'.jobs = DOMAIN tx.jobs \union {Current} /\ tx'.stored = tx.stored
      BY <3>3, SetJobWrites DEF RunInv, BatchInv
    <3>5. QED
      BY <1>1, <3>1, <3>3, <3>4, TailRange, KeptFrame
  <2>7. CASE Fetch
    <3>1. /\ pc = "job" /\ pc' = "fetch" /\ tx' = SetJob(tx, Current, "RUNNING")
          /\ UNCHANGED <<stored, begun, batch, jobs>>
      BY <2>7 DEF Fetch
    <3>2. DOMAIN tx'.jobs = DOMAIN tx.jobs \union {Current} /\ tx'.stored = tx.stored
      BY <3>1, SetJobWrites DEF RunInv, BatchInv
    <3>3. QED
      BY <1>1, <3>1, <3>2, KeptFrame
  <2>8. CASE FetchAnswered \/ RejectRow
    BY <1>1, <2>8, KeptFrame DEF FetchAnswered, RejectRow
  <2>9. CASE RecordRow
    <3>1. pc = "rows" /\ pc' = pc /\ UNCHANGED <<stored, begun, batch, jobs>>
      BY <2>9 DEF RecordRow
    <3>2. PICK o : tx' = tx \/ tx' = [tx EXCEPT !.stored = @ \union {<<Current, o>>}]
      BY <2>9 DEF RecordRow
    <3>3. tx'.jobs = tx.jobs /\ tx'.stored \subseteq tx.stored \union {<<Current, o>>}
      BY <3>2 DEF RunInv, BatchInv, Typed
    <3>4. Current \in DOMAIN tx'.jobs
      BY <3>1, <3>3 DEF RunInv, BatchInv, CurrentRuns
    <3>5. \A p \in tx'.stored : p \in tx.stored \/ p[1] \in DOMAIN tx'.jobs
      BY <3>3, <3>4
    <3>6. QED
      BY <1>1, <3>1, <3>3, <3>5, KeptFrame
  <2>10. CASE BatchStatementFails \/ EndBatch
    <3>1. /\ pc \in Working /\ (pc' = "batch_failed" \/ (pc = "job" /\ pc' = "processed"))
          /\ UNCHANGED <<stored, begun, batch, tx, jobs>>
      BY <2>10 DEF BatchStatementFails, EndBatch, Working
    <3>2. QED
      BY <1>1, <3>1, KeptFrame
  <2>11. CASE CommitBatch \/ RecordBatch \/ RecordBatchFailure
    BY <2>11 DEF CommitBatch, RecordBatch, RecordBatchFailure, Leave, KeptInv, Working
  <2>12. QED
    BY <1>5, <2>1, <2>2, <2>3, <2>4, <2>5, <2>6, <2>7, <2>8, <2>9, <2>10, <2>11 DEF BatchStep
<1>6. CASE Calling \/ ScrapePending \/ ScrapeDone \/ ScrapeFailed
  BY <1>1, <1>6, KeptFrame DEF Calling, ScrapePending, ScrapeDone, ScrapeFailed
<1>7. CASE Crash \/ CommitFails
  BY <1>7 DEF Crash, CommitFails, Leave, KeptInv, Working
<1>8. CASE RecoveredByOther
  <2>1. PICK k \in Range(batch) \ DOMAIN tx.jobs, status \in {"PENDING", "FAILED"} :
          jobs' = [jobs EXCEPT ![k] = status]
    BY <1>8 DEF RecoveredByOther
  <2>2. UNCHANGED <<stored, begun, batch, tx, pc>>
    BY <1>8 DEF RecoveredByOther
  <2>3. \A x : Settled(x) => Settled(x)'
    <3> SUFFICES ASSUME NEW x, Settled(x) PROVE Settled(x)'
      OBVIOUS
    <3>1. jobs'[x] = jobs[x] \/ jobs'[x] = status
      BY <2>1
    <3>2. QED
      BY <3>1 DEF Settled
  <2>4. QED
    BY <2>2, <2>3, KeptFrame
<1>9. QED
  BY <1>2, <1>3, <1>4, <1>5, <1>6, <1>7, <1>8 DEF Next

\* Of all steps only the three handlers record a failure.
LEMMA FailureSteps ==
  ASSUME PhaseInv, [Next]_vars, NEW phase \in {"scheduler", "worker"},
         Recorded(phase, "FAILURE")
  PROVE  RecordRefreshFailure \/ RecordSkippedBatch \/ RecordBatchFailure
<1> USE DEF dbVars, histVars, Recorded
<1>1. runs' # runs
  OBVIOUS
<1>2. ~StartRun
  <2>1. runs \in Seq([scheduler : RunStatus, worker : RunStatus]) /\ Len(runs') = Len(runs)
    BY DEF PhaseInv
  <2>2. QED
    BY <2>1 DEF StartRun, RunStatus
<1>3. ~RecordRefresh /\ ~RecordBatch
  <2>1. ASSUME NEW p \in {"scheduler", "worker"}, SetRun(p, "SUCCESS"), pc # "idle"
        PROVE  FALSE
    <3>1. /\ runs'[Len(runs)][p] = "SUCCESS"
          /\ phase # p => runs'[Len(runs)][phase] = runs[Len(runs)][phase]
      BY <2>1, SetRunWrites DEF RunStatus
    <3>2. CASE phase = p
      BY <3>1, <3>2
    <3>3. CASE phase # p
      BY <3>1, <3>3
    <3>4. QED
      BY <3>2, <3>3
  <2>2. QED
    BY <2>1 DEF RecordRefresh, RecordBatch
<1>4. Next
  BY <1>1 DEF vars
<1>5. RefreshStep => RecordRefreshFailure \/ RecordSkippedBatch
  BY <1>1, <1>3
     DEF RefreshStep, NextSource, SourceQueryFails, ListingLoadFails, Dispatch, ListingFails,
         ListingStatementFails, EndListings, CommitRefresh
<1>6. BatchStep => RecordBatchFailure
  BY <1>1, <1>3
     DEF BatchStep, RecoverExpired, PromoteDueWaiting, TryClaimOne, EndClaims, ClaimAgain,
         Stale, Refuse, Fetch, FetchFailed, FetchAnswered, RejectRow, RecordRow, RecordRaises,
         EndRows, BatchStatementFails, EndBatch, CommitBatch
<1>7. /\ ~Calling /\ ~Crash /\ ~CommitFails /\ ~RecoveredByOther
      /\ ~ScrapePending /\ ~ScrapeDone /\ ~ScrapeFailed
  BY <1>1 DEF Calling, Crash, CommitFails, RecoveredByOther, ScrapePending, ScrapeDone,
              ScrapeFailed
<1>8. QED
  BY <1>2, <1>4, <1>5, <1>6, <1>7 DEF Next

\* A failure that is recorded leaves nothing of a refresh in the tables, and of a batch
\* what it has committed; but no observation of a job without that job's outcome, however
\* often claim_job committed in the middle of the batch.
THEOREM FailuresKeepNoHalf == Spec => FailureKeepsNoHalf
<1> DEFINE NoHalf(phase) ==
             /\ runs'[Len(runs)].scheduler = "FAILURE" =>
                  jobs' = begun.jobs /\ stored' = begun.stored
             /\ \A p \in stored' \ begun.stored : jobs'[p[1]] \notin {"CLAIMED", "RUNNING"}
<1>1. ASSUME RunInv, KeptInv, [Next]_vars, NEW phase \in {"scheduler", "worker"},
             Recorded(phase, "FAILURE")
      PROVE  NoHalf(phase)
  <2>1. RecordRefreshFailure \/ RecordSkippedBatch \/ RecordBatchFailure
    BY <1>1, FailureSteps DEF RunInv
  <2>2. UNCHANGED <<jobs, stored>>
    BY <2>1 DEF RecordRefreshFailure, RecordSkippedBatch, RecordBatchFailure
  <2>3. CASE RecordRefreshFailure \/ RecordSkippedBatch
    <3>1. pc \in Refreshing
      BY <2>3 DEF RecordRefreshFailure, RecordSkippedBatch, Refreshing
    <3>2. QED
      BY <1>1, <2>2, <3>1 DEF RunInv, PhaseInv
  <2>4. CASE RecordBatchFailure
    <3>1. pc = "batch_failed" /\ SetRun("worker", "FAILURE")
      BY <2>4 DEF RecordBatchFailure
    <3>2. runs[Len(runs)].scheduler = "SUCCESS"
      BY <1>1, <3>1 DEF RunInv, PhaseInv, Working
    <3>3. runs'[Len(runs)].scheduler = runs[Len(runs)].scheduler
      BY <1>1, <3>1, SetRunWrites DEF RunInv, RunStatus
    <3>4. \A p \in stored \ begun.stored : jobs[p[1]] \notin {"CLAIMED", "RUNNING"}
      BY <1>1, <3>1 DEF KeptInv, Working, Settled
    <3>5. QED
      BY <2>2, <3>2, <3>3, <3>4
  <2>5. QED
    BY <2>1, <2>3, <2>4
<1>2. Init => RunInv /\ KeptInv
  BY RunInvInit, KeptInvInit
<1>3. RunInv /\ KeptInv /\ [Next]_vars => RunInv' /\ KeptInv'
  BY RunInvStep, KeptInvStep
<1>4. RunInv /\ KeptInv /\ [Next]_vars =>
        [\A phase \in {"scheduler", "worker"} : Recorded(phase, "FAILURE") => NoHalf(phase)]_vars
  BY <1>1
<1>5. QED
  BY <1>2, <1>3, <1>4, PTL DEF Spec, FailureKeepsNoHalf


-----------------------------------------------------------------------------
(* The success of a refresh.  As long as it goes on, an identity has its    *)
(* job, or has failed, or is still to come.  Once the transaction is        *)
(* aborted, either a listing is still to be loaded, which will raise, or    *)
(* the one that aborted it is the last one so far, and only sources without *)
(* adapters have come after it.                                             *)

RefreshLoop == {"source", "listing", "refreshed"}

Visited == Len(EnabledSources) - Len(sources)

Final(seq) == seq[Len(seq)]

\* The sources to come are the last of those that are enabled, and the listings to come
\* the last of those of the source visited last.
Place ==
  /\ Len(sources) <= Len(EnabledSources)
  /\ \A j \in 1 .. Len(sources) : sources[j] = EnabledSources[Visited + j]
  /\ pc = "listing" /\ listings # <<>> =>
       /\ Visited \in 1 .. Len(EnabledSources)
       /\ EnabledSources[Visited] \in Registered /\ Page(EnabledSources[Visited]) # <<>>
       /\ Final(listings) = Final(Page(EnabledSources[Visited]))
  /\ pc = "refreshed" => sources = <<>>

Listed(s) == Range(Page(s))

ToCome(k) ==
  \/ pc = "listing" /\ k \in Range(listings)
  \/ pc # "refreshed" /\ \E s \in Range(sources) \intersect Registered : k \in Listed(s)

Covered == \A k \in Considered : k \in isolated \/ Seen(k) # "ABSENT" \/ ToCome(k)

LastSoFar(k) ==
  \E i \in 1 .. Visited :
    /\ EnabledSources[i] \in Registered /\ Page(EnabledSources[i]) # <<>>
    /\ k = Final(Page(EnabledSources[i]))
    /\ \A j \in 1 .. Visited : j > i => EnabledSources[j] \notin Registered

AbortedLast ==
  /\ ~tx.aborted => lost = {}
  /\ tx.aborted => \E k \in isolated : /\ lost = {k}
                                       /\ (pc = "listing" /\ listings # <<>>) \/ LastSoFar(k)

RefreshIsDurable ==
  \/ lost = {} /\ \A k \in Considered \ isolated : jobs[k] # "ABSENT"
  \/ \E k \in isolated : /\ lost = {k} /\ LastConsidered(k)
                         /\ jobs = begun.jobs /\ stored = begun.stored

RefreshInv ==
  /\ pc = "idle" => tx = NoTx /\ lost = {}
  /\ pc \in RefreshLoop => Place /\ Covered /\ AbortedLast
  /\ pc = "record_refresh" => RefreshIsDurable

\* A listing considered is on the page of a registered source.
LEMMA ConsideredType ==
  /\ Considered \subseteq Keys
  /\ \A k \in Considered : \E s \in Registered : k \in Listed(s)
<1>1. Considered = UNION {Listed(s) : s \in Registered}
  BY DEF Considered, Listed, Range
<1>2. \A s \in Registered : Listed(s) \subseteq Keys
  BY PageType, CatalogAssumption DEF Listed, Range
<1>3. QED
  BY <1>1, <1>2

\* The rest of a queue ends as the queue does.
LEMMA TailEnds ==
  ASSUME NEW S, NEW seq \in Seq(S), seq # <<>>
  PROVE  /\ Tail(seq) \in Seq(S) /\ Len(seq) \in Nat \ {0} /\ Len(Tail(seq)) = Len(seq) - 1
         /\ Head(seq) = seq[1]
         /\ \A j \in 1 .. Len(Tail(seq)) : Tail(seq)[j] = seq[j + 1]
         /\ Tail(seq) # <<>> => Final(Tail(seq)) = Final(seq)
         /\ Tail(seq) = <<>> => Final(seq) = Head(seq)
<1>1. /\ Tail(seq) \in Seq(S) /\ Len(seq) \in Nat \ {0} /\ Len(Tail(seq)) = Len(seq) - 1
      /\ Head(seq) = seq[1]
      /\ \A j \in 1 .. Len(Tail(seq)) : Tail(seq)[j] = seq[j + 1]
  OBVIOUS
<1>2. ASSUME Tail(seq) # <<>> PROVE Final(Tail(seq)) = Final(seq)
  <2>1. Len(Tail(seq)) \in 1 .. Len(Tail(seq))
    BY <1>1, <1>2
  <2>2. Tail(seq)[Len(Tail(seq))] = seq[Len(Tail(seq)) + 1]
    BY <1>1, <2>1
  <2>3. Len(Tail(seq)) + 1 = Len(seq)
    BY <1>1
  <2>4. QED
    BY <2>2, <2>3 DEF Final
<1>3. ASSUME Tail(seq) = <<>> PROVE Final(seq) = Head(seq)
  BY <1>1, <1>3 DEF Final
<1>4. QED
  BY <1>1, <1>2, <1>3

\* Initially nothing is refreshed.
LEMMA RefreshInvInit == Init => RefreshInv
BY DEF Init, RefreshInv, RefreshLoop

\* What may happen as long as a refresh goes on.
LEMMA RefreshSteps ==
  ASSUME RunInv, [Next]_vars, pc' \in RefreshLoop
  PROVE  \/ StartRun \/ NextSource \/ Dispatch \/ ListingFails \/ ListingStatementFails
         \/ EndListings
         \/ UNCHANGED <<jobs, pc, sources, listings, tx, isolated, lost>>
<1> USE DEF dbVars, histVars, RefreshLoop
<1>1. CASE UNCHANGED vars
  BY <1>1 DEF vars
<1>2. ~SourceQueryFails /\ ~ListingLoadFails /\ ~CommitRefresh /\ ~RecordRefresh
      /\ ~RecordRefreshFailure /\ ~RecordSkippedBatch
  BY DEF SourceQueryFails, ListingLoadFails, CommitRefresh, RecordRefresh,
         RecordRefreshFailure, RecordSkippedBatch, Leave
<1>3. ~BatchStep
  BY DEF BatchStep, RecoverExpired, PromoteDueWaiting, TryClaimOne, EndClaims, ClaimAgain,
         Stale, Refuse, Fetch, FetchFailed, FetchAnswered, RejectRow, RecordRow, RecordRaises,
         EndRows, MarkFailed, Finish, BatchStatementFails, EndBatch, CommitBatch, RecordBatch,
         RecordBatchFailure, Leave
<1>4. ~Calling /\ ~Crash /\ ~CommitFails
  BY DEF Calling, Crash, CommitFails, Leave
<1>5. ~RecoveredByOther
  <2>1. RecoveredByOther => batch # <<>> /\ pc' = pc
    BY DEF RecoveredByOther, Range
  <2>2. QED
    BY <2>1 DEF RunInv, BatchInv, NothingClaimed
<1>6. CASE ScrapePending \/ ScrapeDone \/ ScrapeFailed
  BY <1>6 DEF ScrapePending, ScrapeDone, ScrapeFailed
<1>7. QED
  BY <1>1, <1>2, <1>3, <1>4, <1>5, <1>6 DEF Next, RefreshStep

\* A step to the next listing: the current one has its job, or has failed.
NextOne ==
  /\ pc = "listing" /\ pc' = pc /\ listings # <<>> /\ ~tx.aborted
  /\ listings' = Tail(listings) /\ UNCHANGED <<jobs, sources>>
  /\ isolated \subseteq isolated'
  /\ \A h : h = Head(listings) => h \in isolated' \/ Seen(h)' # "ABSENT"
  /\ \A k : Seen(k) # "ABSENT" => Seen(k)' # "ABSENT"

\* plan_and_enqueue, or the handler, goes on with the next listing.
LEMMA ListingStep ==
  ASSUME RunInv, Dispatch \/ ListingFails \/ ListingStatementFails
  PROVE  /\ NextOne
         /\ \/ ~tx'.aborted /\ lost' = lost
            \/ /\ tx'.aborted /\ Head(listings) \in isolated'
               /\ lost' = lost \union {Head(listings)}
<1> USE DEF dbVars, histVars
<1>1. Typed
  BY DEF RunInv, BatchInv
<1>2. CASE Dispatch
  <2>1. /\ pc = "listing" /\ pc' = pc /\ listings # <<>> /\ listings' = Tail(listings)
        /\ UNCHANGED <<jobs, sources, isolated, lost>> /\ ~tx.aborted
    BY <1>2 DEF Dispatch, NextListing
  <2>2. CASE Seen(Head(listings)) = "ABSENT"
    <3>1. PICK status \in {"PENDING", "WAITING"} : tx' = SetJob(tx, Head(listings), status)
      BY <1>2, <2>2 DEF Dispatch
    <3>2. /\ DOMAIN tx'.jobs = DOMAIN tx.jobs \union {Head(listings)}
          /\ tx'.jobs[Head(listings)] = status /\ tx'.aborted = tx.aborted
          /\ \A x \in DOMAIN tx.jobs : x # Head(listings) => tx'.jobs[x] = tx.jobs[x]
      BY <1>1, <3>1, SetJobWrites
    <3>3. \A k : Seen(k) # "ABSENT" => Seen(k)' # "ABSENT"
      BY <2>1, <3>2 DEF Seen
    <3>4. \A h : h = Head(listings) => (h \in DOMAIN tx'.jobs /\ tx'.jobs[h] # "ABSENT")
      BY <3>2
    <3>5. QED
      BY <2>1, <3>2, <3>3, <3>4 DEF NextOne, Seen
  <2>3. CASE Seen(Head(listings)) # "ABSENT"
    BY <1>2, <2>1, <2>3 DEF Dispatch, NextOne, Seen
  <2>4. QED
    BY <2>2, <2>3
<1>3. CASE ListingFails
  BY <1>3 DEF ListingFails, Isolate, NextListing, NextOne, Seen
<1>4. CASE ListingStatementFails
  <2>1. tx' = [jobs |-> tx.jobs, stored |-> tx.stored, aborted |-> TRUE]
    BY <1>1, <1>4 DEF ListingStatementFails, Typed
  <2>2. QED
    BY <1>4, <2>1 DEF ListingStatementFails, Isolate, NextListing, NextOne, Seen
<1>5. QED
  BY <1>2, <1>3, <1>4

\* The refresh goes through its sources and listings in order.
LEMMA PlaceStep ==
  ASSUME RunInv, RefreshInv, [Next]_vars, pc' \in RefreshLoop
  PROVE  Place'
<1> USE DEF dbVars, histVars, RefreshLoop
<1> DEFINE E == EnabledSources
<1>1. E \in Seq(Sources) /\ Len(E) \in Nat \ {0}
  <2>1. E \in Seq(Sources) /\ E # <<>>
    BY CatalogAssumption
  <2>2. QED
    BY <2>1, TailEnds
<1>2. sources \in Seq(Sources) /\ listings \in Seq(Keys) /\ Len(sources) \in Nat
  BY DEF RunInv, Control
<1>3. ASSUME pc \in RefreshLoop, UNCHANGED sources, pc' = "listing" => pc = "listing",
             pc' = "refreshed" => sources = <<>>,
             listings' = listings \/ (listings' = Tail(listings) /\ listings # <<>>)
      PROVE  Place'
  <2>1. Place
    BY <1>3 DEF RefreshInv
  <2>2. ASSUME pc' = "listing", listings' # <<>>
        PROVE  Final(listings)' = Final(listings) /\ listings # <<>>
    <3>1. CASE listings' = listings
      BY <2>2, <3>1 DEF Final
    <3>2. CASE listings' = Tail(listings) /\ listings # <<>>
      BY <1>2, <2>2, <3>2, TailEnds DEF Final
    <3>3. QED
      BY <1>3, <3>1, <3>2
  <2>3. Visited' = Visited
    BY <1>3 DEF Visited
  <2>4. QED
    BY <1>3, <2>1, <2>2, <2>3 DEF Place, Final
<1>4. CASE StartRun
  <2>1. pc' = "source" /\ sources' = E
    BY <1>4 DEF StartRun
  <2>2. \A j \in 1 .. Len(E) : Len(E) - Len(E) + j = j
    BY <1>1
  <2>3. QED
    BY <1>1, <2>1, <2>2 DEF Place, Visited
<1>5. CASE NextSource
  <2>1. /\ pc = "source" /\ pc' = "listing" /\ sources # <<>> /\ sources' = Tail(sources)
        /\ \/ Head(sources) \notin Registered /\ listings' = <<>>
           \/ Head(sources) \in Registered /\ listings' = Page(Head(sources))
    BY <1>5 DEF NextSource
  <2>2. Place
    BY <2>1 DEF RefreshInv
  <2>3. /\ Len(sources') = Len(sources) - 1 /\ Len(sources) \in Nat \ {0}
        /\ Head(sources) = sources[1]
        /\ \A j \in 1 .. Len(sources') : sources'[j] = sources[j + 1]
    BY <1>2, <2>1, TailEnds
  <2>4. /\ Visited \in Nat /\ Visited' = Visited + 1 /\ Visited' \in 1 .. Len(E)
    BY <1>1, <2>2, <2>3 DEF Visited, Place
  <2>5. Head(sources) = E[Visited']
    BY <2>2, <2>3, <2>4 DEF Place
  <2>6. ASSUME NEW j \in 1 .. Len(sources') PROVE sources'[j] = E[Visited' + j]
    <3>1. j + 1 \in 1 .. Len(sources) /\ Visited + (j + 1) = Visited' + j
      BY <2>3, <2>4
    <3>2. sources[j + 1] = E[Visited + (j + 1)]
      BY <2>2, <3>1 DEF Place
    <3>3. QED
      BY <2>3, <3>1, <3>2
  <2>7. Len(sources') <= Len(E)
    BY <1>1, <2>2, <2>3 DEF Place
  <2>8. QED
    BY <2>1, <2>4, <2>5, <2>6, <2>7 DEF Place, Final
<1>6. CASE Dispatch \/ ListingFails \/ ListingStatementFails
  BY <1>3, <1>6, ListingStep DEF NextOne
<1>7. CASE EndListings
  <2>1. /\ pc = "listing" /\ UNCHANGED <<sources, listings>>
        /\ pc' = IF sources = <<>> THEN "refreshed" ELSE "source"
    BY <1>7 DEF EndListings
  <2>2. QED
    BY <1>3, <2>1
<1>8. CASE UNCHANGED <<jobs, pc, sources, listings, tx, isolated, lost>>
  <2>1. pc = "refreshed" => sources = <<>>
    BY <1>8 DEF RefreshInv, Place
  <2>2. QED
    BY <1>3, <1>8, <2>1
<1>9. QED
  BY <1>4, <1>5, <1>6, <1>7, <1>8, RefreshSteps

\* Every step of it inserts, isolates, or leaves a listing to come.
LEMMA CoveredStep ==
  ASSUME RunInv, RefreshInv, [Next]_vars, pc' \in RefreshLoop
  PROVE  Covered'
<1> USE DEF dbVars, histVars, RefreshLoop
<1>1. \A s : Listed(s)' = Listed(s)
  BY DEF Listed
<1>2. sources \in Seq(Sources) /\ listings \in Seq(Keys)
  BY DEF RunInv, Control
<1>3. ASSUME pc \in RefreshLoop, UNCHANGED <<jobs, tx, isolated>>,
             \A k : ToCome(k) => ToCome(k)'
      PROVE  Covered'
  <2>1. \A k : Seen(k)' = Seen(k)
    BY <1>3 DEF Seen
  <2>2. Covered
    BY <1>3 DEF RefreshInv
  <2>3. QED
    BY <1>3, <2>1, <2>2 DEF Covered
<1>4. CASE StartRun
  <2>1. pc' = "source" /\ sources' = EnabledSources
    BY <1>4 DEF StartRun
  <2>2. Range(EnabledSources) = Sources
    BY DEF Range, Sources
  <2>3. \A k \in Considered : ToCome(k)'
    BY <1>1, <2>1, <2>2, ConsideredType, CatalogAssumption DEF ToCome
  <2>4. QED
    BY <2>3 DEF Covered
<1>5. CASE NextSource
  <2>1. /\ pc = "source" /\ pc' = "listing" /\ sources # <<>> /\ sources' = Tail(sources)
        /\ Head(sources) \in Registered => listings' = Page(Head(sources))
        /\ UNCHANGED <<jobs, tx, isolated>>
    BY <1>5 DEF NextSource
  <2>2. Range(sources) = {Head(sources)} \union Range(Tail(sources))
    BY <1>2, <2>1, HeadAndTail
  <2>3. ASSUME NEW k, ToCome(k) PROVE ToCome(k)'
    <3>1. PICK s \in Range(sources) \intersect Registered : k \in Listed(s)
      BY <2>1, <2>3 DEF ToCome
    <3>2. CASE s = Head(sources)
      BY <2>1, <3>1, <3>2 DEF ToCome, Listed
    <3>3. CASE s \in Range(Tail(sources))
      BY <2>1, <3>1, <3>3 DEF ToCome, Listed
    <3>4. QED
      BY <2>2, <3>1, <3>2, <3>3
  <2>4. QED
    BY <1>3, <2>1, <2>3
<1>6. CASE Dispatch \/ ListingFails \/ ListingStatementFails
  <2>1. NextOne
    BY <1>6, ListingStep
  <2>2. Range(listings) = {Head(listings)} \union Range(Tail(listings))
    BY <1>2, <2>1, HeadAndTail DEF NextOne
  <2>3. ASSUME NEW k \in Considered
        PROVE  k \in isolated' \/ Seen(k)' # "ABSENT" \/ ToCome(k)'
    <3>1. k \in isolated \/ Seen(k) # "ABSENT" \/ ToCome(k)
      BY <2>1 DEF NextOne, RefreshInv, Covered
    <3>2. CASE k = Head(listings)
      BY <2>1, <3>2 DEF NextOne
    <3>3. CASE k # Head(listings) /\ ToCome(k)
      BY <1>1, <2>1, <2>2, <3>3 DEF NextOne, ToCome
    <3>4. CASE ~ToCome(k)
      BY <2>1, <3>1, <3>4 DEF NextOne
    <3>5. QED
      BY <3>2, <3>3, <3>4
  <2>4. QED
    BY <2>3 DEF Covered
<1>7. CASE EndListings
  <2>1. /\ pc = "listing" /\ listings = <<>> /\ UNCHANGED <<jobs, sources, tx, isolated>>
        /\ pc' = IF sources = <<>> THEN "refreshed" ELSE "source"
    BY <1>7 DEF EndListings
  <2>2. Range(listings) = {} /\ (sources = <<>> => Range(sources) = {})
    BY <2>1 DEF Range
  <2>3. \A k : ToCome(k) => ToCome(k)'
    BY <1>1, <2>1, <2>2 DEF ToCome
  <2>4. QED
    BY <1>3, <2>1, <2>3
<1>8. CASE UNCHANGED <<jobs, pc, sources, listings, tx, isolated, lost>>
  BY <1>1, <1>3, <1>8 DEF ToCome
<1>9. QED
  BY <1>4, <1>5, <1>6, <1>7, <1>8, RefreshSteps

\* An aborted transaction has no step left but to raise, unless its last listing was
\* also the last that is considered.
LEMMA AbortedStep ==
  ASSUME RunInv, RefreshInv, [Next]_vars, pc' \in RefreshLoop
  PROVE  AbortedLast'
<1> USE DEF dbVars, histVars, RefreshLoop
<1> DEFINE E == EnabledSources
<1>1. E \in Seq(Sources) /\ Len(E) \in Nat \ {0}
  <2>1. E \in Seq(Sources) /\ E # <<>>
    BY CatalogAssumption
  <2>2. QED
    BY <2>1, TailEnds
<1>2. sources \in Seq(Sources) /\ listings \in Seq(Keys) /\ Len(sources) \in Nat
  BY DEF RunInv, Control
<1>3. ASSUME UNCHANGED sources PROVE Visited' = Visited /\ \A k : LastSoFar(k) => LastSoFar(k)'
  BY <1>3 DEF Visited, LastSoFar
<1>4. CASE StartRun
  BY <1>4 DEF StartRun, RefreshInv, AbortedLast, NoTx
<1>5. CASE NextSource
  <2>1. /\ pc = "source" /\ sources # <<>> /\ sources' = Tail(sources)
        /\ Head(sources) \notin Registered \/ ~tx.aborted
        /\ UNCHANGED <<tx, isolated, lost>>
    BY <1>5 DEF NextSource
  <2>2. Place /\ AbortedLast
    BY <2>1 DEF RefreshInv
  <2>3. /\ Len(sources') = Len(sources) - 1 /\ Len(sources) \in Nat \ {0}
        /\ Head(sources) = sources[1]
    BY <1>2, <2>1, TailEnds
  <2>4. /\ Visited \in Nat /\ Visited' = Visited + 1
    BY <1>1, <2>2, <2>3 DEF Visited, Place
  <2>5. Head(sources) = E[Visited']
    BY <2>2, <2>3, <2>4 DEF Place
  <2>6. ASSUME NEW k, LastSoFar(k), tx.aborted PROVE LastSoFar(k)'
    <3>1. PICK i \in 1 .. Visited :
            /\ E[i] \in Registered /\ Page(E[i]) # <<>> /\ k = Final(Page(E[i]))
            /\ \A j \in 1 .. Visited : j > i => E[j] \notin Registered
      BY <2>6 DEF LastSoFar
    <3>2. i \in 1 .. Visited'
      BY <2>4
    <3>3. ASSUME NEW j \in 1 .. Visited', j > i PROVE E[j] \notin Registered
      <4>1. CASE j = Visited'
        BY <2>1, <2>5, <2>6, <4>1
      <4>2. CASE j # Visited'
        <5>1. j \in 1 .. Visited
          BY <2>4, <4>2
        <5>2. QED
          BY <3>1, <3>3, <5>1
      <4>3. QED
        BY <4>1, <4>2
    <3>4. QED
      BY <3>1, <3>2, <3>3 DEF LastSoFar, Final
  <2>7. QED
    BY <2>1, <2>2, <2>6 DEF AbortedLast
<1>6. CASE Dispatch \/ ListingFails \/ ListingStatementFails
  <2>1. /\ NextOne
        /\ \/ ~tx'.aborted /\ lost' = lost
           \/ /\ tx'.aborted /\ Head(listings) \in isolated'
              /\ lost' = lost \union {Head(listings)}
    BY <1>6, ListingStep
  <2>2. Place /\ lost = {} /\ pc' = "listing" /\ UNCHANGED sources
    BY <2>1 DEF NextOne, RefreshInv, AbortedLast
  <2>3. CASE tx'.aborted
    <3>1. PICK k : k = Head(listings)
      OBVIOUS
    <3>2. lost' = {k} /\ k \in isolated'
      BY <2>1, <2>2, <2>3, <3>1
    <3>3. CASE Tail(listings) = <<>>
      <4>1. k = Final(listings)
        BY <1>2, <2>1, <3>1, <3>3, TailEnds DEF NextOne
      <4>2. /\ Visited \in 1 .. Len(E) /\ E[Visited] \in Registered
            /\ Page(E[Visited]) # <<>> /\ k = Final(Page(E[Visited]))
        BY <2>1, <2>2, <4>1 DEF Place, NextOne
      <4>3. Visited \in 1 .. Visited /\ \A j \in 1 .. Visited : ~(j > Visited)
        BY <1>1, <4>2
      <4>4. LastSoFar(k)
        BY <4>2, <4>3 DEF LastSoFar
      <4>5. QED
        BY <1>3, <2>2, <2>3, <3>2, <4>4 DEF AbortedLast
    <3>4. CASE Tail(listings) # <<>>
      <4>1. listings' # <<>>
        BY <2>1, <3>4 DEF NextOne
      <4>2. QED
        BY <2>2, <2>3, <3>2, <4>1 DEF AbortedLast
    <3>5. QED
      BY <3>3, <3>4
  <2>4. CASE ~tx'.aborted
    BY <2>1, <2>2, <2>4 DEF AbortedLast
  <2>5. QED
    BY <2>3, <2>4
<1>7. CASE EndListings
  BY <1>3, <1>7 DEF EndListings, RefreshInv, AbortedLast
<1>8. CASE UNCHANGED <<jobs, pc, sources, listings, tx, isolated, lost>>
  BY <1>3, <1>8 DEF RefreshInv, AbortedLast
<1>9. QED
  BY <1>4, <1>5, <1>6, <1>7, <1>8, RefreshSteps

\* COMMIT keeps every job that is not the one of a failed listing, or nothing.
LEMMA CommitRefreshStep == RunInv /\ RefreshInv /\ CommitRefresh => RefreshIsDurable'
<1> SUFFICES ASSUME RunInv, RefreshInv, CommitRefresh PROVE RefreshIsDurable'
  OBVIOUS
<1>1. /\ pc = "refreshed" /\ Commit /\ UNCHANGED <<isolated, lost, begun>>
  BY DEF CommitRefresh, histVars
<1>2. Place /\ Covered /\ AbortedLast
  BY <1>1 DEF RefreshInv, RefreshLoop
<1>3. CASE ~tx.aborted
  <2>1. ASSUME NEW k \in Considered, k \notin isolated PROVE jobs'[k] # "ABSENT"
    <3>1. k \in Keys /\ Seen(k) # "ABSENT"
      BY <1>1, <1>2, <2>1, ConsideredType DEF Covered, ToCome
    <3>2. QED
      BY <1>1, <1>3, <3>1 DEF Commit
  <2>2. QED
    BY <1>1, <1>2, <1>3, <2>1 DEF AbortedLast, RefreshIsDurable
<1>4. CASE tx.aborted
  <2>1. PICK k \in isolated : lost = {k} /\ LastSoFar(k)
    BY <1>1, <1>2, <1>4 DEF AbortedLast
  <2>2. Len(EnabledSources) \in Nat /\ DOMAIN EnabledSources = 1 .. Len(EnabledSources)
    BY CatalogAssumption
  <2>3. Visited = Len(EnabledSources)
    BY <1>1, <1>2, <2>2 DEF Place, Visited
  <2>4. LastConsidered(k)
    BY <2>1, <2>2, <2>3 DEF LastSoFar, LastConsidered, Final
  <2>5. UNCHANGED <<jobs, stored>> /\ jobs = begun.jobs /\ stored = begun.stored
    BY <1>1, <1>4 DEF Commit, RunInv, PhaseInv, Refreshing
  <2>6. LastConsidered(k)'
    BY <2>4 DEF LastConsidered
  <2>7. QED
    BY <1>1, <2>1, <2>5, <2>6 DEF RefreshIsDurable
<1>5. QED
  BY <1>3, <1>4

\* Every step keeps what is known of the refresh.
LEMMA RefreshInvStep == RunInv /\ RefreshInv /\ [Next]_vars => RefreshInv'
<1> SUFFICES ASSUME RunInv, RefreshInv, [Next]_vars PROVE RefreshInv'
  OBVIOUS
<1> USE DEF dbVars, histVars
<1>1. ASSUME pc' = "idle" PROVE tx' = NoTx /\ lost' = {}
  <2>1. CASE pc = "idle"
    <3>1. UNCHANGED <<tx, lost>>
      BY <1>1, <2>1
         DEF Next, vars, StartRun, RefreshStep, NextSource, SourceQueryFails,
             ListingLoadFails, Dispatch, ListingFails, ListingStatementFails, EndListings,
             CommitRefresh, RecordRefresh, RecordRefreshFailure, RecordSkippedBatch, BatchStep,
             RecoverExpired, PromoteDueWaiting, TryClaimOne, EndClaims, ClaimAgain, Stale,
             Refuse, Fetch, FetchFailed, FetchAnswered, RejectRow, RecordRow, RecordRaises,
             EndRows, BatchStatementFails, EndBatch, CommitBatch, RecordBatch,
             RecordBatchFailure, Calling, Crash, CommitFails, RecoveredByOther, ScrapePending,
             ScrapeDone, ScrapeFailed
    <3>2. QED
      BY <2>1, <3>1 DEF RefreshInv
  <2>2. CASE pc # "idle"
    <3>1. Leave
      BY <1>1, <2>2
         DEF Next, vars, StartRun, RefreshStep, NextSource, SourceQueryFails,
             ListingLoadFails, Dispatch, ListingFails, ListingStatementFails, EndListings,
             CommitRefresh, RecordRefresh, RecordRefreshFailure, RecordSkippedBatch, BatchStep,
             RecoverExpired, PromoteDueWaiting, TryClaimOne, EndClaims, ClaimAgain, Stale,
             Refuse, Fetch, FetchFailed, FetchAnswered, RejectRow, RecordRow, RecordRaises,
             EndRows, MarkFailed, Finish, BatchStatementFails, EndBatch, CommitBatch,
             RecordBatch, RecordBatchFailure, Calling, Crash, CommitFails, RecoveredByOther,
             ScrapePending, ScrapeDone, ScrapeFailed
    <3>2. QED
      BY <3>1 DEF Leave, Rollback
  <2>3. QED
    BY <2>1, <2>2
<1>2. ASSUME pc' \in RefreshLoop PROVE Place' /\ Covered' /\ AbortedLast'
  BY <1>2, PlaceStep, CoveredStep, AbortedStep
<1>3. ASSUME pc' = "record_refresh" PROVE RefreshIsDurable'
  <2>1. CASE CommitRefresh
    BY <2>1, CommitRefreshStep
  <2>2. CASE ~CommitRefresh
    <3>1. ~RecoveredByOther
      <4>1. RecoveredByOther => batch # <<>> /\ pc' = pc
        BY DEF RecoveredByOther, Range
      <4>2. QED
        BY <1>3, <4>1 DEF RunInv, BatchInv, NothingClaimed
    <3>2. ~BatchStep
      BY <1>3
         DEF BatchStep, RecoverExpired, PromoteDueWaiting, TryClaimOne, EndClaims, ClaimAgain,
             Stale, Refuse, Fetch, FetchFailed, FetchAnswered, RejectRow, RecordRow,
             RecordRaises, EndRows, MarkFailed, Finish, BatchStatementFails, EndBatch,
             CommitBatch, RecordBatch, RecordBatchFailure, Leave
    <3>3. ~RefreshStep
      BY <1>3, <2>2
         DEF RefreshStep, NextSource, SourceQueryFails, ListingLoadFails, Dispatch,
             ListingFails, ListingStatementFails, EndListings, RecordRefresh,
             RecordRefreshFailure, RecordSkippedBatch, Leave
    <3>4. pc = "record_refresh" /\ UNCHANGED <<jobs, stored, isolated, lost, begun>>
      BY <1>3, <3>1, <3>2, <3>3
         DEF Next, vars, StartRun, Calling, Crash, CommitFails, Leave, ScrapePending,
             ScrapeDone, ScrapeFailed
    <3>5. QED
      BY <3>4 DEF RefreshInv, RefreshIsDurable, LastConsidered
  <2>3. QED
    BY <2>1, <2>2
<1>4. QED
  BY <1>1, <1>2, <1>3 DEF RefreshInv

-----------------------------------------------------------------------------
(* The success of a batch: a claimed job is still to come, has been written *)
(* to, or is no longer claimed.                                             *)

Handled(k) == k \in DOMAIN tx.jobs \/ jobs[k] # "CLAIMED"

WorkerInv ==
  /\ begun = [jobs |-> begun.jobs, stored |-> begun.stored, claimed |-> begun.claimed]
  /\ begun.claimed \subseteq Keys
  /\ pc \in {"recover", "promote"} => begun.claimed = {}
  /\ pc \in InBatch \union {"processed"} => ~tx.aborted
  /\ pc \in InBatch => \A k \in begun.claimed : k \in Range(batch) \/ Handled(k)
  /\ pc = "processed" => \A k \in begun.claimed : Handled(k)
  /\ pc = "record_batch" => \A k \in begun.claimed : jobs[k] # "CLAIMED"

\* Initially nothing is claimed.
LEMMA WorkerInvInit == Init => WorkerInv
BY DEF Init, WorkerInv, NoPhase, InBatch

\* Steps that leave the batch alone, steps outside it, and its failure.
LEMMA WorkerFrame ==
  ASSUME WorkerInv, UNCHANGED begun,
         \/ UNCHANGED <<jobs, pc, batch>> /\ tx'.jobs = tx.jobs /\ tx'.aborted = tx.aborted
         \/ pc' \notin {"recover", "promote", "processed", "record_batch"} \union InBatch
  PROVE  WorkerInv'
BY DEF WorkerInv, InBatch, Handled

\* Steps of the batch: what leaves it has been handled, and stays so.
LEMMA BatchWrite ==
  ASSUME WorkerInv, pc \in InBatch, pc' \in InBatch, UNCHANGED begun,
         ~tx'.aborted, \A k \in Keys : Handled(k) => k \in Range(batch') \/ Handled(k)',
         \A k \in Range(batch) : k \in Range(batch') \/ Handled(k)'
  PROVE  WorkerInv'
<1>1. ASSUME NEW k \in begun.claimed PROVE k \in Range(batch') \/ Handled(k)'
  BY <1>1 DEF WorkerInv
<1>2. QED
  BY <1>1 DEF WorkerInv, InBatch

\* The end of the current job.
LEMMA WorkerFinish ==
  ASSUME RunInv, WorkerInv, pc \in InBatch, batch # <<>>, UNCHANGED <<jobs, begun>>,
         batch' = Tail(batch), pc' = "job", tx'.aborted = tx.aborted,
         DOMAIN tx.jobs \subseteq DOMAIN tx'.jobs,
         Current \in DOMAIN tx'.jobs \/ ~Owned
  PROVE  WorkerInv'
<1>1. Range(batch) = {Current} \union Range(batch')
  BY TailRange
<1>2. \A k : Handled(k) => Handled(k)'
  BY DEF Handled
<1>3. \A k : k = Current => Handled(k)'
  BY DEF Handled, Owned
<1>4. ~tx'.aborted
  BY DEF WorkerInv
<1>5. QED
  BY <1>1, <1>2, <1>3, <1>4, BatchWrite DEF InBatch

\* A claim joins the batch.
LEMMA WorkerClaim == RunInv /\ WorkerInv /\ TryClaimOne => WorkerInv'
<1> SUFFICES ASSUME RunInv, WorkerInv, TryClaimOne PROVE WorkerInv'
  OBVIOUS
<1>1. pc = "claim" /\ pc' = pc /\ tx' = tx
  BY DEF TryClaimOne
<1>2. PICK k \in Keys : /\ jobs' = [jobs EXCEPT ![k] = "CLAIMED"]
                        /\ batch' = Append(batch, k)
                        /\ begun' = [begun EXCEPT !.claimed = @ \union {k}]
  BY DEF TryClaimOne
<1>3. begun' = [jobs |-> begun.jobs, stored |-> begun.stored, claimed |-> begun.claimed \union {k}]
  BY <1>2 DEF WorkerInv
<1>4. Range(batch) \subseteq Range(batch') /\ k \in Range(batch')
  <2>1. /\ batch \in Seq(Keys) /\ Len(batch) \in Nat /\ DOMAIN batch = 1 .. Len(batch)
        /\ DOMAIN batch' = 1 .. (Len(batch) + 1) /\ batch'[Len(batch) + 1] = k
        /\ \A i \in 1 .. Len(batch) : batch'[i] = batch[i]
    BY <1>2 DEF RunInv, BatchInv, Typed
  <2>2. Len(batch) + 1 \in DOMAIN batch' /\ DOMAIN batch \subseteq DOMAIN batch'
    BY <2>1
  <2>3. QED
    BY <2>1, <2>2 DEF Range
<1>5. ASSUME NEW x \in begun'.claimed PROVE x \in Range(batch') \/ Handled(x)'
  <2>1. CASE x = k
    BY <1>4, <2>1
  <2>2. CASE x # k
    <3>1. x \in begun.claimed /\ x \in Keys /\ (x \in Range(batch) \/ Handled(x))
      BY <1>1, <1>3, <1>5, <2>2 DEF WorkerInv, InBatch
    <3>2. jobs'[x] = jobs[x]
      BY <1>2, <2>2, <3>1 DEF RunInv, TxInv
    <3>3. QED
      BY <1>1, <1>4, <3>1, <3>2 DEF Handled
  <2>3. QED
    BY <2>1, <2>2
<1>6. /\ ~tx'.aborted /\ begun'.claimed \subseteq Keys
      /\ begun' = [jobs |-> begun'.jobs, stored |-> begun'.stored, claimed |-> begun'.claimed]
  BY <1>1, <1>3 DEF WorkerInv, InBatch
<1>7. QED
  BY <1>1, <1>5, <1>6 DEF WorkerInv, InBatch

\* Every step of a batch finishes a claimed job or leaves it in the batch.
LEMMA WorkerInvStep == RunInv /\ WorkerInv /\ [Next]_vars => WorkerInv'
<1> SUFFICES ASSUME RunInv, WorkerInv, [Next]_vars PROVE WorkerInv'
  OBVIOUS
<1> USE DEF dbVars, histVars
<1>1. CASE UNCHANGED vars
  BY <1>1, WorkerFrame DEF vars
<1>2. CASE StartRun
  BY <1>2 DEF StartRun, WorkerInv, InBatch
<1>3. CASE RefreshStep
  <2>1. CASE RecordRefresh
    BY <2>1 DEF RecordRefresh, NoPhase, WorkerInv, InBatch
  <2>2. CASE RecordSkippedBatch
    BY <2>2 DEF RecordSkippedBatch, Leave, NoPhase, WorkerInv, InBatch
  <2>3. CASE ~RecordRefresh /\ ~RecordSkippedBatch
    <3>1. /\ UNCHANGED begun
          /\ pc' \in {"source", "listing", "refreshed", "record_refresh", "refresh_failed",
                      "record_skipped"}
      BY <1>3, <2>3
         DEF RefreshStep, NextSource, SourceQueryFails, ListingLoadFails, Dispatch,
             ListingFails, ListingStatementFails, EndListings, CommitRefresh,
             RecordRefreshFailure
    <3>2. QED
      BY <3>1, WorkerFrame DEF InBatch
  <2>4. QED
    BY <2>1, <2>2, <2>3
<1>4. CASE BatchStep
  <2>1. CASE RecoverExpired \/ PromoteDueWaiting
    <3>1. tx = NoTx /\ tx' = tx /\ begun' = begun /\ begun.claimed = {} /\ pc' \in {"promote", "claim"}
      BY <2>1 DEF RecoverExpired, PromoteDueWaiting, RunInv, BatchInv, Clean, WorkerInv
    <3>2. QED
      BY <3>1 DEF WorkerInv, InBatch, NoTx
  <2>2. CASE TryClaimOne
    BY <2>2, WorkerClaim
  <2>3. CASE EndClaims
    <3>1. pc \in InBatch /\ pc' \in InBatch /\ UNCHANGED <<jobs, begun, batch, tx>>
      BY <2>3 DEF EndClaims, InBatch
    <3>2. ~tx'.aborted
      BY <3>1 DEF WorkerInv
    <3>3. QED
      BY <3>1, <3>2, BatchWrite DEF Handled
  <2>4. CASE ClaimAgain
    <3>1. /\ pc \in InBatch /\ pc = "job" /\ pc' = pc /\ batch # <<>> /\ UNCHANGED <<batch, begun>>
          /\ tx' = NoTx /\ jobs' = [k \in Keys |-> IF k = Current THEN "CLAIMED" ELSE Seen(k)]
      BY <2>4 DEF ClaimAgain, InBatch
    <3>2. Current \in Range(batch)
      BY <3>1, TailRange
    <3>3. ASSUME NEW k \in Keys, Handled(k) PROVE k \in Range(batch') \/ Handled(k)'
      <4>1. CASE k = Current
        BY <3>1, <3>2, <4>1
      <4>2. CASE k # Current
        <5>1. Seen(k) # "CLAIMED"
          BY <3>3 DEF RunInv, TxInv, Written, Handled, Seen
        <5>2. QED
          BY <3>1, <3>3, <4>2, <5>1 DEF Handled
      <4>3. QED
        BY <4>1, <4>2
    <3>4. QED
      BY <3>1, <3>3, BatchWrite DEF NoTx
  <2>5. CASE Stale
    BY <2>5, WorkerFinish DEF Stale, InBatch
  <2>6. CASE Refuse \/ FetchFailed \/ RecordRaises \/ EndRows
    <3>1. pc \in InBatch /\ batch # <<>> /\ UNCHANGED <<jobs, begun>>
      BY <2>6 DEF Refuse, FetchFailed, RecordRaises, EndRows, RunInv, BatchInv, CurrentRuns,
                  InBatch
    <3>2. PICK status \in {"PENDING", "FAILED", "DONE"} : Finish(status)
      BY <2>6 DEF Refuse, FetchFailed, RecordRaises, EndRows, MarkFailed
    <3>3. tx' = SetJob(tx, Current, status) /\ batch' = Tail(batch) /\ pc' = "job"
      BY <3>2 DEF Finish
    <3>4. DOMAIN tx'.jobs = DOMAIN tx.jobs \union {Current} /\ tx'.aborted = tx.aborted
      BY <3>3, SetJobWrites DEF RunInv, BatchInv
    <3>5. QED
      BY <3>1, <3>3, <3>4, WorkerFinish
  <2>7. CASE Fetch
    <3>1. /\ pc \in InBatch /\ pc' \in InBatch /\ tx' = SetJob(tx, Current, "RUNNING")
          /\ UNCHANGED <<jobs, begun, batch>>
      BY <2>7 DEF Fetch, InBatch
    <3>2. DOMAIN tx'.jobs = DOMAIN tx.jobs \union {Current} /\ tx'.aborted = tx.aborted
      BY <3>1, SetJobWrites DEF RunInv, BatchInv
    <3>3. ~tx'.aborted
      BY <3>1, <3>2 DEF WorkerInv
    <3>4. QED
      BY <3>1, <3>2, <3>3, BatchWrite DEF Handled
  <2>8. CASE FetchAnswered \/ RejectRow
    <3>1. pc \in InBatch /\ pc' \in InBatch /\ UNCHANGED <<jobs, begun, batch, tx>>
      BY <2>8 DEF FetchAnswered, RejectRow, InBatch
    <3>2. ~tx'.aborted
      BY <3>1 DEF WorkerInv
    <3>3. QED
      BY <3>1, <3>2, BatchWrite DEF Handled
  <2>9. CASE RecordRow
    <3>1. UNCHANGED <<jobs, pc, begun, batch>>
      BY <2>9 DEF RecordRow
    <3>2. tx'.jobs = tx.jobs /\ tx'.aborted = tx.aborted
      BY <2>9 DEF RecordRow, RunInv, BatchInv, Typed
    <3>3. QED
      BY <3>1, <3>2, WorkerFrame
  <2>10. CASE BatchStatementFails
    BY <2>10, WorkerFrame DEF BatchStatementFails, InBatch
  <2>11. CASE EndBatch
    <3>1. pc = "job" /\ pc' = "processed" /\ batch = <<>> /\ UNCHANGED <<jobs, begun, tx>>
      BY <2>11 DEF EndBatch
    <3>2. Range(batch) = {}
      BY <3>1 DEF Range
    <3>3. QED
      BY <3>1, <3>2 DEF WorkerInv, InBatch, Handled
  <2>12. CASE CommitBatch
    <3>1. pc = "processed" /\ pc' = "record_batch" /\ UNCHANGED begun /\ Commit
      BY <2>12 DEF CommitBatch
    <3>2. ~tx.aborted /\ \A k \in begun.claimed : k \in Keys /\ Handled(k)
      BY <3>1 DEF WorkerInv
    <3>3. \A k \in begun.claimed : jobs'[k] = Seen(k) /\ Seen(k) # "CLAIMED"
      BY <3>1, <3>2 DEF Commit, Seen, Handled, RunInv, TxInv, Written
    <3>4. QED
      BY <3>1, <3>2, <3>3 DEF WorkerInv, InBatch
  <2>13. CASE RecordBatch \/ RecordBatchFailure
    BY <2>13 DEF RecordBatch, RecordBatchFailure, Leave, NoPhase, WorkerInv, InBatch
  <2>14. QED
    BY <1>4, <2>1, <2>2, <2>3, <2>4, <2>5, <2>6, <2>7, <2>8, <2>9, <2>10, <2>11, <2>12, <2>13
       DEF BatchStep
<1>5. CASE Calling \/ ScrapePending \/ ScrapeDone \/ ScrapeFailed
  BY <1>5, WorkerFrame DEF Calling, ScrapePending, ScrapeDone, ScrapeFailed
<1>6. CASE Crash \/ CommitFails
  BY <1>6 DEF Crash, CommitFails, Leave, NoPhase, WorkerInv, InBatch
<1>7. CASE RecoveredByOther
  <2>1. PICK k \in Range(batch) \ DOMAIN tx.jobs, status \in {"PENDING", "FAILED"} :
          jobs' = [jobs EXCEPT ![k] = status]
    BY <1>7 DEF RecoveredByOther
  <2>2. UNCHANGED <<pc, batch, tx, begun>>
    BY <1>7 DEF RecoveredByOther
  <2>3. \A x : jobs'[x] = jobs[x] \/ jobs'[x] # "CLAIMED"
    BY <2>1
  <2>4. \A x : Handled(x) => Handled(x)'
    BY <2>2, <2>3 DEF Handled
  <2>5. QED
    BY <2>2, <2>3, <2>4 DEF WorkerInv
<1>8. QED
  BY <1>1, <1>2, <1>3, <1>4, <1>5, <1>6, <1>7 DEF Next

-----------------------------------------------------------------------------
\* Of all steps only two record a success, each of its phase.
LEMMA SuccessSteps ==
  ASSUME PhaseInv, [Next]_vars, NEW phase \in {"scheduler", "worker"},
         Recorded(phase, "SUCCESS")
  PROVE  (phase = "scheduler" /\ RecordRefresh) \/ (phase = "worker" /\ RecordBatch)
<1> USE DEF dbVars, histVars, Recorded
<1>1. runs' # runs
  OBVIOUS
<1>2. ~StartRun
  <2>1. runs \in Seq([scheduler : RunStatus, worker : RunStatus]) /\ Len(runs') = Len(runs)
    BY DEF PhaseInv
  <2>2. QED
    BY <2>1 DEF StartRun, RunStatus
<1>3. ASSUME NEW p \in {"scheduler", "worker"}, NEW status \in {"SUCCESS", "FAILURE"},
             SetRun(p, status), pc # "idle"
      PROVE  phase = p /\ status = "SUCCESS"
  <2>1. /\ runs'[Len(runs)][p] = status
        /\ phase # p => runs'[Len(runs)][phase] = runs[Len(runs)][phase]
    BY <1>3, SetRunWrites DEF RunStatus
  <2>2. QED
    BY <2>1
<1>4. Next
  BY <1>1 DEF vars
<1>5. RefreshStep => phase = "scheduler" /\ RecordRefresh
  <2>1. RefreshStep => RecordRefresh \/ RecordRefreshFailure \/ RecordSkippedBatch
    BY <1>1
       DEF RefreshStep, NextSource, SourceQueryFails, ListingLoadFails, Dispatch, ListingFails,
           ListingStatementFails, EndListings, CommitRefresh
  <2>2. QED
    BY <1>3, <2>1 DEF RecordRefresh, RecordRefreshFailure, RecordSkippedBatch
<1>6. BatchStep => phase = "worker" /\ RecordBatch
  <2>1. BatchStep => RecordBatch \/ RecordBatchFailure
    BY <1>1
       DEF BatchStep, RecoverExpired, PromoteDueWaiting, TryClaimOne, EndClaims, ClaimAgain,
           Stale, Refuse, Fetch, FetchFailed, FetchAnswered, RejectRow, RecordRow,
           RecordRaises, EndRows, BatchStatementFails, EndBatch, CommitBatch
  <2>2. QED
    BY <1>3, <2>1 DEF RecordBatch, RecordBatchFailure
<1>7. /\ ~Calling /\ ~Crash /\ ~CommitFails /\ ~RecoveredByOther
      /\ ~ScrapePending /\ ~ScrapeDone /\ ~ScrapeFailed
  BY <1>1 DEF Calling, Crash, CommitFails, RecoveredByOther, ScrapePending, ScrapeDone,
              ScrapeFailed
<1>8. QED
  BY <1>2, <1>4, <1>5, <1>6, <1>7 DEF Next

\* A success is recorded for durable work only.  record_phase is called with SUCCESS
\* after the commit of its phase: then each identity the refresh considered has its
\* job, unless its own refresh failed; the one exception is a transaction aborted at the
\* last identity of all, of which nothing is kept.  And each job that the batch claimed
\* has its result, or is no longer claimed.
THEOREM SuccessesAreDurable == Spec => SuccessIsDurable
<1> DEFINE Inv == RunInv /\ RefreshInv /\ WorkerInv
           Durable ==
             /\ Recorded("scheduler", "SUCCESS") =>
                  \/ lost = {} /\ \A k \in Considered \ isolated : jobs[k] # "ABSENT"
                  \/ \E k \in isolated : /\ lost = {k} /\ LastConsidered(k)
                                         /\ jobs = begun.jobs /\ stored = begun.stored
             /\ Recorded("worker", "SUCCESS") =>
                  /\ runs[Len(runs)].scheduler = "SUCCESS"
                  /\ \A k \in begun.claimed : jobs[k] # "CLAIMED"
<1>1. Init => Inv
  BY RunInvInit, RefreshInvInit, WorkerInvInit
<1>2. Inv /\ [Next]_vars => Inv'
  BY RunInvStep, RefreshInvStep, WorkerInvStep
<1>3. ASSUME Inv, [Next]_vars PROVE Durable
  <2>1. ASSUME Recorded("scheduler", "SUCCESS") PROVE RefreshIsDurable
    <3>1. RecordRefresh
      BY <1>3, <2>1, SuccessSteps DEF RunInv
    <3>2. QED
      BY <1>3, <3>1 DEF RecordRefresh, RefreshInv
  <2>2. ASSUME Recorded("worker", "SUCCESS")
        PROVE  /\ runs[Len(runs)].scheduler = "SUCCESS"
               /\ \A k \in begun.claimed : jobs[k] # "CLAIMED"
    <3>1. RecordBatch
      BY <1>3, <2>2, SuccessSteps DEF RunInv
    <3>2. pc = "record_batch"
      BY <3>1 DEF RecordBatch
    <3>3. QED
      BY <1>3, <3>2 DEF RunInv, PhaseInv, Working, WorkerInv
  <2>3. QED
    BY <2>1, <2>2 DEF RefreshIsDurable
<1>4. Inv /\ [Next]_vars => [Durable]_vars
  BY <1>3
<1>5. QED
  BY <1>1, <1>2, <1>4, PTL DEF Spec, SuccessIsDurable
=============================================================================

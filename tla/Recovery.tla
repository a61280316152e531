------------------------------ MODULE Recovery ------------------------------
(***************************************************************************)
(* Recovery of one listing of one source: refreshes read how far the store *)
(* is, plan the missing sessions and enqueue them as jobs; workers fetch   *)
(* the range of a job and record what validation accepts; days pass and    *)
(* values are published, in time or late.                                  *)
(*                                                                         *)
(* Days are numbered from 1.  A day is a session or not (NO_SESSION); the  *)
(* calendar calls a session EXPECTED_PUBLISHED once its value is published *)
(* and WAITING_FOR_PUBLICATION before.  The provider returns every value   *)
(* that is published, and may return one the calendar still waits for.  A  *)
(* value never changes here: corrections are ObservationStore's.           *)
(*                                                                         *)
(* The queue and the store are used by what they promise: a job of a given *)
(* dedupe key is inserted once and done or failed once (JobLease), and     *)
(* recording a stored value again adds nothing (ObservationStore), so the  *)
(* work of a job from its claim to its commit is one step.                 *)
(***************************************************************************)
EXTENDS Integers, FiniteSets, FiniteSetsExt

CONSTANTS
  Refreshers,  \* scheduler processes in their refresh phase
  MaxDay,      \* bound on the days
  FirstDay,    \* the day the listing is first refreshed
  Sessions,    \* days with a session
  Late,        \* sessions whose value is published after their day has begun
  Malformed,   \* sessions whose row from the provider fails validation
  Lookback,    \* max_lookback_days
  ChunkSize    \* max_sessions_per_chunk

ASSUME RecoveryAssumption ==
  /\ MaxDay \in Nat /\ FirstDay \in 1 .. MaxDay
  /\ Sessions \subseteq 1 .. MaxDay
  /\ Late \subseteq Sessions /\ Malformed \subseteq Sessions
  /\ Lookback \in Nat /\ ChunkSize \in Nat \ {0}

VARIABLES
  today,      \* the present day
  published,  \* the sessions whose value is published
  stored,     \* the sessions with an observation in the store
  jobs,       \* jobs[k]: the status of the job with dedupe key k
  read        \* read[r]: the day r plans for and the cursor it has read

vars == <<today, published, stored, jobs, read>>

Days == 1 .. MaxDay

\* A dedupe key, for the listing at hand: the first and the last session of the range,
\* and whether it is the key of a waiting job.
Key == {k \in [waiting : BOOLEAN, start : Sessions, end : Sessions] : k.start <= k.end}

\* last is last_completed_session, 0 for None; NotPlanning: r is not in a refresh.
Cursor == [day : Days, last : 0 .. MaxDay]
NotPlanning == [day |-> 0, last |-> 0]

JobStatus == {"waiting", "pending", "done", "failed"}

TypeOK ==
  /\ today \in Days
  /\ published \subseteq Sessions
  /\ stored \subseteq Sessions
  /\ DOMAIN jobs \subseteq Key /\ \A k \in DOMAIN jobs : jobs[k] \in JobStatus
  /\ read \in [Refreshers -> Cursor \union {NotPlanning}]

Init ==
  /\ today = FirstDay
  /\ published = {d \in Sessions \ Late : d <= FirstDay}
  /\ stored = {}
  /\ jobs = <<>>
  /\ read = [r \in Refreshers |-> NotPlanning]

-----------------------------------------------------------------------------
(* RecoveryPlanner.plan.                                                   *)

\* The first day the plan looks at; the days before day 1 have no session.
PlanStart(last, day) == Max({last + 1, day - Lookback})

Considered(last, day) == {d \in Sessions : PlanStart(last, day) <= d /\ d <= day}

\* Deliberate bug: chunks of ChunkSize days, whatever days have a session.
GroupOfDays(S, d) == {(((d - 1) \div ChunkSize) * ChunkSize) + n : n \in 1 .. ChunkSize}

\* The chunk of ChunkSize sessions, counted from the first of S, that d is in.
Group(S, d) ==
  LET Rank(x) == Cardinality({y \in S : y < x})
  IN  {x \in S : Rank(x) \div ChunkSize = Rank(d) \div ChunkSize}

\* Deliberate bug: full chunks only.
ChunksFull(expected) ==
  {[waiting |-> FALSE, start |-> Min(Group(expected, d)), end |-> Max(Group(expected, d))] :
     d \in {x \in expected : Cardinality(Group(expected, x)) = ChunkSize}}

Chunks(expected) ==
  {[waiting |-> FALSE, start |-> Min(Group(expected, d)), end |-> Max(Group(expected, d))] :
     d \in expected}

\* Deliberate bug: no job for the sessions that are not published yet.
NoWaitingJob(unpublished) == {}

\* One job for all sessions that are not published yet.
WaitingJob(unpublished) ==
  IF unpublished = {} THEN {}
  ELSE {[waiting |-> TRUE, start |-> Min(unpublished), end |-> Max(unpublished)]}

\* The jobs for the considered sessions.
Plan(considered) ==
  Chunks(considered \intersect published) \union WaitingJob(considered \ published)

-----------------------------------------------------------------------------
(* Refreshes: refresh_and_dispatch.                                        *)

\* ObservationStore.last_completed_session
LastCompleted == IF stored = {} THEN 0 ELSE Max(stored)

ReadCursor(r) ==
  /\ read[r] = NotPlanning
  /\ read' = [read EXCEPT ![r] = [day |-> today, last |-> LastCompleted]]
  /\ UNCHANGED <<today, published, stored, jobs>>

\* plan_and_enqueue, and the commit of the phase.  A key that is in the table
\* already keeps its job as it is.
Enqueue(r) ==
  /\ read[r] # NotPlanning
  /\ read' = [read EXCEPT ![r] = NotPlanning]
  /\ UNCHANGED <<today, published, stored>>
  /\ \E considered \in {Considered(read[r].last, read[r].day)} :
       jobs' = [k \in DOMAIN jobs \union Plan(considered) |->
                  IF k \in DOMAIN jobs THEN jobs[k]
                  ELSE IF k.waiting THEN "waiting" ELSE "pending"]

\* The calendar is not available, or the process dies before it commits.
Abandon(r) ==
  /\ read[r] # NotPlanning
  /\ read' = [read EXCEPT ![r] = NotPlanning]
  /\ UNCHANGED <<today, published, stored, jobs>>

-----------------------------------------------------------------------------
(* Jobs: promotion, and IngestionRunner.process.                           *)

SetJob(k, status) == jobs' = [jobs EXCEPT ![k] = status]

\* promote_due_waiting, at some time after the job was enqueued.
Promote(k) ==
  /\ k \in DOMAIN jobs /\ jobs[k] = "waiting"
  /\ SetJob(k, "pending")
  /\ UNCHANGED <<today, published, stored, read>>

\* Deliberate bug: the start of the range is exclusive.
RequestedAfterStart(k) == {d \in Sessions : k.start < d /\ d <= k.end}

\* The sessions fetch_range can return rows for.
Requested(k) == {d \in Sessions : k.start <= d /\ d <= k.end}

Answers(k) == {answer \in SUBSET Requested(k) : Requested(k) \intersect published \subseteq answer}

\* The rows validation lets through.
Accepted(answer) == answer \ Malformed

\* Rows were rejected and no row was new.
AllMalformed(answer) ==
  answer \intersect Malformed # {} /\ Accepted(answer) \subseteq stored

\* The provider answers, with an empty list perhaps, and the job is done.
Fetch(k) ==
  /\ k \in DOMAIN jobs /\ jobs[k] = "pending"
  /\ SetJob(k, "done")
  /\ UNCHANGED <<today, published, read>>
  /\ \E answer \in Answers(k) :
       /\ ~AllMalformed(answer)
       /\ stored' = stored \union Accepted(answer)

\* An attempt fails: no authorization, a provider error, rejected rows and no new
\* one, or an error of the store after it has recorded some of the rows.  The job is
\* retried (Retry) or it was the last attempt (Fail).
Attempt(k) ==
  /\ UNCHANGED <<today, published, read>>
  /\ \E recorded \in SUBSET (Accepted(Requested(k)) \ stored) : stored' = stored \union recorded

Retry(k) == k \in DOMAIN jobs /\ jobs[k] = "pending" /\ UNCHANGED jobs /\ Attempt(k)
Fail(k) == k \in DOMAIN jobs /\ jobs[k] = "pending" /\ SetJob(k, "failed") /\ Attempt(k)

-----------------------------------------------------------------------------
(* The environment.                                                        *)

NextDay ==
  /\ today < MaxDay
  /\ today' = today + 1
  /\ published' = published \union ({today + 1} \intersect (Sessions \ Late))
  /\ UNCHANGED <<stored, jobs, read>>

PublishLate ==
  /\ \E d \in Late \ published : d <= today /\ published' = published \union {d}
  /\ UNCHANGED <<today, stored, jobs, read>>

Next ==
  \/ NextDay \/ PublishLate
  \/ \E r \in Refreshers : ReadCursor(r) \/ Enqueue(r) \/ Abandon(r)
  \/ \E k \in DOMAIN jobs : Promote(k) \/ Fetch(k) \/ Retry(k) \/ Fail(k)

Spec == Init /\ [][Next]_vars

\* The scheduler is run again and again, and not every refresh is abandoned; as long
\* as some job is due, one is claimed in the end, and its attempts are finite.  There
\* are finitely many keys, and the status of a job changes at most twice.
Fairness ==
  /\ \A r \in Refreshers : WF_vars(ReadCursor(r)) /\ SF_vars(Enqueue(r))
  /\ WF_vars(\E k \in DOMAIN jobs : Promote(k) \/ Fetch(k) \/ Fail(k))

FairSpec == Spec /\ Fairness

-----------------------------------------------------------------------------
(* Properties.                                                             *)

Covers(k, d) == k.start <= d /\ d <= k.end

\* Sessions the age limit does not exclude.
InWindow == {d \in Sessions : today - Lookback <= d}

\* The cursor is the latest stored session, so a session before it is never planned
\* again.  It must have been: whatever the order in which jobs finish and refreshes
\* overlap, a job was enqueued for every session the cursor has passed.
CoveredBehindCursor ==
  \A d \in InWindow : d <= LastCompleted => \E k \in DOMAIN jobs : Covers(k, d)

\* A session that was published on its day, with a valid row, is not lost behind the
\* cursor: it is stored, or a job for it is still to run, or has FAILED for all to
\* see (mark_failed).
PromptNotLost ==
  \A d \in InWindow \ (Late \union Malformed) :
    d <= LastCompleted /\ d \notin stored =>
      \E k \in DOMAIN jobs : Covers(k, d) /\ jobs[k] # "done"

\* "The next synchronization recovers the pending range": such a session is stored in
\* the end, or a job for it fails, or it has become too old.
CatchUp ==
  \A d \in Sessions \ (Late \union Malformed) :
    d <= today ~> \/ d \in stored
                  \/ d < today - Lookback
                  \/ \E k \in DOMAIN jobs : Covers(k, d) /\ jobs[k] = "failed"

-----------------------------------------------------------------------------
(* What the documents say of recovery.                                     *)

\* A later planning run must not "permanently skip a NAV that has not yet been
\* published": every valid session behind the cursor is stored, or waited for, or a
\* job for it is still to run or has FAILED.
UnpublishedNotSkipped ==
  \A d \in InWindow \ Malformed :
    d <= LastCompleted /\ d \notin stored =>
      \E k \in DOMAIN jobs : Covers(k, d) /\ jobs[k] # "done"
=============================================================================

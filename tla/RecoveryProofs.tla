--------------------------- MODULE RecoveryProofs ---------------------------
(***************************************************************************)
(* Proofs about Recovery, for any calendar, number of refreshes, look-back *)
(* and size of the chunks.  A plan covers every session it considers, so   *)
(* the sessions before the end of a job are covered, too: those before the *)
(* plan's start were behind a cursor, which another job had moved there.   *)
(***************************************************************************)
EXTENDS Recovery, OrderLemmas

-----------------------------------------------------------------------------
(* The inductive invariant.                                                *)

Covered(d) == \E k \in DOMAIN jobs : Covers(k, d)

\* Nothing is planned beyond the present day, and a session of the look-back that a job
\* ends after, or on, is covered by some job.
JobsInv ==
  /\ \A k \in DOMAIN jobs : k.end <= today
  /\ \A k \in DOMAIN jobs : \A d \in InWindow : d <= k.end => Covered(d)

\* A value was stored by a job that asked for it.
StoredInv == \A d \in stored : Covered(d)

\* A refresh plans for a day that has come, from a cursor that some job has moved.
ReadInv ==
  \A r \in Refreshers : read[r] # NotPlanning =>
    /\ read[r].day <= today
    /\ read[r].last # 0 => \E k \in DOMAIN jobs : read[r].last <= k.end

\* What is neither late nor malformed is published on its day, and a job that is done
\* has stored it.
PromptInv ==
  /\ \A d \in Sessions \ Late : d <= today => d \in published
  /\ \A k \in DOMAIN jobs : jobs[k] = "done" =>
       \A d \in Requested(k) \ (Late \union Malformed) : d \in stored

IInv == TypeOK /\ JobsInv /\ StoredInv /\ ReadInv /\ PromptInv

-----------------------------------------------------------------------------
(* Operators.                                                              *)

\* What the assumption says of the calendar.
LEMMA DaysType ==
  /\ MaxDay \in Nat /\ Lookback \in Nat /\ FirstDay \in Days /\ Sessions \subseteq Days
  /\ Days \subseteq Int /\ \A d \in Days : 1 <= d /\ d <= MaxDay
  /\ Late \subseteq Sessions /\ Malformed \subseteq Sessions
BY RecoveryAssumption DEF Days

\* The first and the last of some sessions are sessions, and bound the others.
LEMMA Ends ==
  ASSUME NEW S \in SUBSET Sessions, S # {}
  PROVE  /\ Min(S) \in S /\ Max(S) \in S
         /\ \A d \in S : Min(S) <= d /\ d <= Max(S)
<1>1. S \in SUBSET Int /\ 1 \in Int /\ MaxDay \in Int
  BY DaysType
<1>2. \A d \in S : 1 <= d /\ d <= MaxDay
  BY DaysType
<1>3. QED
  BY <1>1, <1>2, MinOf, MaxOf

\* The job of a set of sessions covers all of them.
LEMMA EndsAreKeys ==
  ASSUME NEW S \in SUBSET Sessions, S # {}, NEW w \in BOOLEAN
  PROVE  /\ [waiting |-> w, start |-> Min(S), end |-> Max(S)] \in Key
         /\ \A d \in S : Covers([waiting |-> w, start |-> Min(S), end |-> Max(S)], d)
<1> DEFINE k == [waiting |-> w, start |-> Min(S), end |-> Max(S)]
<1>1. k.waiting = w /\ k.start = Min(S) /\ k.end = Max(S)
  OBVIOUS
<1>2. PICK d \in S : TRUE
  OBVIOUS
<1>3. Min(S) \in Sessions /\ Max(S) \in Sessions /\ Min(S) <= d /\ d <= Max(S)
  BY Ends
<1>4. Min(S) <= Max(S)
  <2>1. \A a, b, c \in Int : a <= b /\ b <= c => a <= c
    OBVIOUS
  <2>2. Min(S) \in Int /\ d \in Int /\ Max(S) \in Int
    BY <1>3, DaysType
  <2>3. QED
    BY <1>3, <2>1, <2>2
<1>5. k \in [waiting : BOOLEAN, start : Sessions, end : Sessions]
  BY <1>3
<1>6. QED
  BY <1>1, <1>4, <1>5, Ends DEF Key, Covers

\* A session is in its own chunk.
LEMMA GroupOf ==
  ASSUME NEW S, NEW d \in S
  PROVE  d \in Group(S, d) /\ Group(S, d) \subseteq S
BY DEF Group

\* A plan covers what it considers, with keys that begin and end with a session of it.
LEMMA PlanCovers ==
  ASSUME NEW considered \in SUBSET Sessions
  PROVE  /\ Plan(considered) \subseteq Key
         /\ \A k \in Plan(considered) : k.end \in considered
         /\ \A d \in considered : \E k \in Plan(considered) : Covers(k, d)
<1> DEFINE expected == considered \intersect published
           unpublished == considered \ published
           ChunkOf(d) == [waiting |-> FALSE, start |-> Min(Group(expected, d)),
                          end |-> Max(Group(expected, d))]
           wait == [waiting |-> TRUE, start |-> Min(unpublished), end |-> Max(unpublished)]
<1>1. Plan(considered) = {ChunkOf(d) : d \in expected} \union
                           (IF unpublished = {} THEN {} ELSE {wait})
  BY DEF Plan, Chunks, WaitingJob
<1>2. ASSUME NEW d \in expected
      PROVE  ChunkOf(d) \in Key /\ ChunkOf(d).end \in considered /\ Covers(ChunkOf(d), d)
  <2>1. d \in Group(expected, d) /\ Group(expected, d) \subseteq expected
    BY GroupOf
  <2>2. Group(expected, d) \in SUBSET Sessions /\ Group(expected, d) # {}
    BY <2>1
  <2>3. Max(Group(expected, d)) \in considered
    BY <2>1, <2>2, Ends
  <2> HIDE DEF expected
  <2>4. QED
    BY <2>1, <2>2, <2>3, EndsAreKeys
<1>3. ASSUME unpublished # {}
      PROVE  wait \in Key /\ wait.end \in considered /\ \A d \in unpublished : Covers(wait, d)
  <2>1. unpublished \in SUBSET Sessions /\ unpublished \subseteq considered
    OBVIOUS
  <2> HIDE DEF unpublished
  <2>2. QED
    BY <1>3, <2>1, Ends, EndsAreKeys
<1>4. considered = expected \union unpublished
  OBVIOUS
<1> HIDE DEF expected, unpublished, ChunkOf, wait
<1>5. QED
  BY <1>1, <1>2, <1>3, <1>4

\* What a plan considers: the sessions after the cursor, within the look-back.
LEMMA ConsideredIs ==
  ASSUME NEW last \in Nat, NEW day \in Int
  PROVE  Considered(last, day) = {d \in Sessions : last < d /\ day - Lookback <= d /\ d <= day}
<1> DEFINE S == {last + 1, day - Lookback}
           m == Max(S)
<1>1. S \in SUBSET Int /\ S # {} /\ IsFiniteSet(S)
  <2>1. S = {last + 1} \union {day - Lookback}
    OBVIOUS
  <2>2. IsFiniteSet({last + 1}) /\ IsFiniteSet({day - Lookback})
    BY FS_Singleton
  <2>3. IsFiniteSet({last + 1} \union {day - Lookback})
    BY <2>2, FS_Union, Zenon
  <2>4. last + 1 \in Int /\ day - Lookback \in Int
    BY DaysType
  <2>5. QED
    BY <2>1, <2>3, <2>4
<1>2. m \in S /\ \A x \in S : x <= m
  BY <1>1, MaxOfFinite
<1>3. PlanStart(last, day) = m
  BY DEF PlanStart
<1>4. (m = last + 1 \/ m = day - Lookback) /\ last + 1 <= m /\ day - Lookback <= m /\ m \in Int
  BY <1>1, <1>2
<1> HIDE DEF m
<1>5. \A d \in Sessions : m <= d <=> last < d /\ day - Lookback <= d
  BY <1>4, DaysType
<1>6. QED
  BY <1>3, <1>5 DEF Considered

\* The cursor is the last stored date, if any, and some job reaches to it.
LEMMA LastCompletedIs ==
  ASSUME IInv
  PROVE  /\ LastCompleted \in 0 .. MaxDay
         /\ \A d \in stored : d <= LastCompleted
         /\ LastCompleted # 0 =>
              LastCompleted \in stored /\ \E k \in DOMAIN jobs : LastCompleted <= k.end
<1>1. stored \in SUBSET Sessions /\ \A d \in stored : Covered(d)
  BY DEF IInv, TypeOK, StoredInv
<1>2. CASE stored = {}
  BY <1>2, DaysType DEF LastCompleted
<1>3. CASE stored # {}
  <2>1. LastCompleted \in stored /\ \A d \in stored : d <= LastCompleted
    BY <1>1, <1>3, Ends DEF LastCompleted
  <2>2. QED
    BY <1>1, <2>1, DaysType DEF Covered, Covers
<1>4. QED
  BY <1>2, <1>3

-----------------------------------------------------------------------------
\* Initially no job exists and nothing is stored.
LEMMA InitIInv == Init => IInv
<1> SUFFICES ASSUME Init PROVE IInv
  OBVIOUS
<1>1. /\ today = FirstDay /\ stored = {} /\ jobs = <<>> /\ read = [r \in Refreshers |-> NotPlanning]
      /\ published = {d \in Sessions \ Late : d <= FirstDay}
  BY DEF Init
<1>2. DOMAIN jobs = {}
  BY <1>1
<1>3. QED
  BY <1>1, <1>2, DaysType DEF IInv, TypeOK, JobsInv, StoredInv, ReadInv, PromptInv

\* A step that keeps the jobs that are there, and adds none, keeps what they cover.
LEMMA SameJobs ==
  ASSUME DOMAIN jobs' = DOMAIN jobs
  PROVE  \A d : Covered(d)' <=> Covered(d)
BY DEF Covered

\* A day passes: the look-back loses its oldest day and today has no job yet.
LEMMA NextDayKeeps == ASSUME IInv, NextDay PROVE IInv'
<1>1. /\ today < MaxDay /\ today' = today + 1 /\ stored' = stored /\ jobs' = jobs /\ read' = read
      /\ published' = published \union ({today + 1} \intersect (Sessions \ Late))
  BY DEF NextDay
<1>2. today \in Int /\ today' \in Days
  BY <1>1, DaysType DEF IInv, TypeOK, Days
<1>3. TypeOK'
  BY <1>1, <1>2 DEF IInv, TypeOK
<1>4. \A d : Covered(d)' <=> Covered(d)
  BY <1>1, SameJobs
<1>5. JobsInv'
  <2>1. \A k \in DOMAIN jobs : k.end \in Int
    BY DaysType DEF IInv, TypeOK, Key
  <2>2. InWindow' \subseteq InWindow
    <3>1. Lookback \in Int /\ \A d \in Sessions : d \in Int
      BY DaysType
    <3>2. \A d \in Sessions : today' - Lookback <= d => today - Lookback <= d
      BY <1>1, <1>2, <3>1
    <3>3. QED
      BY <3>2 DEF InWindow
  <2>3. \A k \in DOMAIN jobs' : k.end <= today'
    BY <1>1, <1>2, <2>1 DEF IInv, JobsInv
  <2>4. QED
    BY <1>1, <1>4, <2>2, <2>3 DEF IInv, JobsInv
<1>6. StoredInv'
  BY <1>1, <1>4 DEF IInv, StoredInv
<1>7. ReadInv'
  <2>1. ASSUME NEW r \in Refreshers, read[r] # NotPlanning PROVE read[r].day <= today'
    <3>1. read[r].day \in Int /\ read[r].day <= today
      BY <2>1, DaysType DEF IInv, TypeOK, ReadInv, Cursor
    <3>2. QED
      BY <1>1, <1>2, <3>1
  <2>2. QED
    BY <1>1, <2>1 DEF IInv, ReadInv
<1>8. PromptInv'
  <2>1. ASSUME NEW d \in Sessions \ Late, d <= today' PROVE d \in published'
    <3>1. d \in Int
      BY DaysType
    <3>2. d <= today \/ d = today + 1
      BY <1>1, <1>2, <2>1, <3>1
    <3>3. QED
      BY <1>1, <3>2 DEF IInv, PromptInv
  <2>2. QED
    BY <1>1, <2>1 DEF IInv, PromptInv, Requested
<1>9. QED
  BY <1>3, <1>5, <1>6, <1>7, <1>8 DEF IInv

\* The provider publishes a late session.
LEMMA PublishLateKeeps == ASSUME IInv, PublishLate PROVE IInv'
<1>1. PICK d \in Late : published' = published \union {d}
  BY DEF PublishLate
<1>2. today' = today /\ stored' = stored /\ jobs' = jobs /\ read' = read
  BY DEF PublishLate
<1>3. TypeOK'
  BY <1>1, <1>2, DaysType DEF IInv, TypeOK
<1>4. JobsInv' /\ StoredInv' /\ ReadInv' /\ PromptInv'
  BY <1>1, <1>2 DEF IInv, JobsInv, StoredInv, ReadInv, PromptInv, Covered, InWindow, Requested
<1>5. QED
  BY <1>3, <1>4 DEF IInv

\* A refresh reads the cursor and plans its chunks from it.
LEMMA ReadCursorKeeps == ASSUME IInv, NEW r \in Refreshers, ReadCursor(r) PROVE IInv'
<1> DEFINE new == [day |-> today, last |-> LastCompleted]
<1>1. /\ read' = [read EXCEPT ![r] = new] /\ today' = today /\ stored' = stored /\ jobs' = jobs
      /\ published' = published
  BY DEF ReadCursor
<1>2. new \in Cursor /\ new.day = today /\ new.last = LastCompleted
  BY LastCompletedIs DEF IInv, TypeOK, Cursor
<1> HIDE DEF new
<1>3. read \in [Refreshers -> Cursor \union {NotPlanning}]
  BY DEF IInv, TypeOK
<1>4. read'[r] = new /\ \A q \in Refreshers : q # r => read'[q] = read[q]
  BY <1>1, <1>3
<1>5. TypeOK'
  <2>1. read' \in [Refreshers -> Cursor \union {NotPlanning}]
    BY <1>1, <1>2, <1>3
  <2>2. QED
    BY <1>1, <2>1 DEF IInv, TypeOK
<1>6. JobsInv' /\ StoredInv' /\ PromptInv'
  BY <1>1 DEF IInv, JobsInv, StoredInv, PromptInv, Covered, InWindow, Requested
<1>7. ReadInv'
  <2>1. new.day <= today /\ (new.last # 0 => \E k \in DOMAIN jobs : new.last <= k.end)
    BY <1>2, LastCompletedIs, DaysType DEF IInv, TypeOK
  <2>2. QED
    BY <1>1, <1>4, <2>1 DEF IInv, ReadInv
<1>8. QED
  BY <1>5, <1>6, <1>7 DEF IInv

\* A refresh that ends, with its commit or without, plans nothing more.
LEMMA EndRead ==
  ASSUME IInv, NEW r \in Refreshers, read' = [read EXCEPT ![r] = NotPlanning]
  PROVE  /\ read' \in [Refreshers -> Cursor \union {NotPlanning}]
         /\ \A q \in Refreshers : read'[q] # NotPlanning => read'[q] = read[q]
<1>1. read \in [Refreshers -> Cursor \union {NotPlanning}]
  BY DEF IInv, TypeOK
<1>2. QED
  BY <1>1

\* A refresh that ends before its commit leaves nothing.
LEMMA AbandonKeeps == ASSUME IInv, NEW r \in Refreshers, Abandon(r) PROVE IInv'
<1>1. /\ read' = [read EXCEPT ![r] = NotPlanning] /\ today' = today /\ stored' = stored
      /\ jobs' = jobs /\ published' = published
  BY DEF Abandon
<1>2. TypeOK' /\ ReadInv'
  BY <1>1, EndRead DEF IInv, TypeOK, ReadInv
<1>3. JobsInv' /\ StoredInv' /\ PromptInv'
  BY <1>1 DEF IInv, JobsInv, StoredInv, PromptInv, Covered, InWindow, Requested
<1>4. QED
  BY <1>2, <1>3 DEF IInv

\* The commit of a plan: a key in the table keeps its job.
LEMMA EnqueueKeeps == ASSUME IInv, NEW r \in Refreshers, Enqueue(r) PROVE IInv'
<1> DEFINE considered == Considered(read[r].last, read[r].day)
           plan == Plan(considered)
<1>1. /\ read[r] # NotPlanning /\ read' = [read EXCEPT ![r] = NotPlanning]
      /\ today' = today /\ stored' = stored /\ published' = published
      /\ jobs' = [k \in DOMAIN jobs \union plan |->
                    IF k \in DOMAIN jobs THEN jobs[k]
                    ELSE IF k.waiting THEN "waiting" ELSE "pending"]
  BY DEF Enqueue
<1>2. /\ DOMAIN jobs' = DOMAIN jobs \union plan
      /\ \A k \in DOMAIN jobs : jobs'[k] = jobs[k]
      /\ \A k \in plan \ DOMAIN jobs : jobs'[k] \in {"waiting", "pending"}
  BY <1>1
<1> DEFINE day == read[r].day
           last == read[r].last
<1>3. day \in Days /\ last \in 0 .. MaxDay /\ today \in Days
  BY <1>1 DEF IInv, TypeOK, Cursor
<1>4. last \in Nat /\ day \in Int /\ today \in Int /\ Lookback \in Int
  <2> HIDE DEF considered, plan, day, last
  <2>1. last \in Nat
    BY <1>3
  <2>2. day \in Int /\ today \in Int
    BY <1>3, DaysType
  <2>3. Lookback \in Int
    BY DaysType
  <2>4. QED
    BY <2>1, <2>2, <2>3
<1>5. /\ day <= today
      /\ last # 0 => \E k \in DOMAIN jobs : last <= k.end
  BY <1>1 DEF IInv, ReadInv
<1>6. considered = {d \in Sessions : last < d /\ day - Lookback <= d /\ d <= day}
  BY <1>4, ConsideredIs
<1> HIDE DEF considered, day, last
<1>7. /\ plan \subseteq Key /\ \A k \in plan : k.end \in considered
      /\ \A d \in considered : \E k \in plan : Covers(k, d)
  BY <1>6, PlanCovers
<1> HIDE DEF plan
<1>8. TypeOK' /\ ReadInv'
  <2>1. ReadInv'
    BY <1>1, <1>2, EndRead DEF IInv, ReadInv
  <2>2. DOMAIN jobs' \subseteq Key /\ \A k \in DOMAIN jobs' : jobs'[k] \in JobStatus
    BY <1>2, <1>7 DEF IInv, TypeOK, JobStatus
  <2>3. read' \in [Refreshers -> Cursor \union {NotPlanning}]
    BY <1>1, EndRead
  <2>4. QED
    BY <1>1, <2>1, <2>2, <2>3 DEF IInv, TypeOK
<1>9. \A d : Covered(d) => Covered(d)'
  BY <1>2 DEF Covered
<1>10. \A d \in considered : Covered(d)'
  BY <1>2, <1>7 DEF Covered
<1>11. JobsInv'
  <2>1. ASSUME NEW k \in DOMAIN jobs' PROVE k.end <= today
    <3>1. CASE k \in DOMAIN jobs
      BY <3>1 DEF IInv, JobsInv
    <3>2. CASE k \in plan
      <4>1. k.end \in Int /\ k.end <= day
        BY <1>6, <1>7, <3>2, DaysType
      <4>2. QED
        BY <1>4, <1>5, <4>1
    <3>3. QED
      BY <1>2, <2>1, <3>1, <3>2
  <2>2. ASSUME NEW k \in DOMAIN jobs', NEW d \in InWindow, d <= k.end PROVE Covered(d)'
    <3>1. d \in Sessions /\ d \in Int /\ today - Lookback <= d
      BY DaysType DEF InWindow
    <3>2. CASE \E j \in DOMAIN jobs : d <= j.end
      BY <1>9, <3>2 DEF IInv, JobsInv
    <3>3. CASE ~ \E j \in DOMAIN jobs : d <= j.end
      <4>1. k \in plan /\ k.end \in Int /\ k.end <= day
        BY <1>2, <1>6, <1>7, <2>2, <3>3, DaysType
      <4>2. d <= day /\ day - Lookback <= d
        BY <1>4, <1>5, <2>2, <3>1, <4>1
      <4>3. last < d
        <5>1. CASE last = 0
          BY <3>1, <5>1, DaysType
        <5>2. CASE last # 0
          <6>1. PICK j \in DOMAIN jobs : last <= j.end
            BY <1>5, <5>2
          <6>2. j.end \in Int
            BY DaysType DEF IInv, TypeOK, Key
          <6>3. QED
            BY <1>4, <3>1, <3>3, <6>1, <6>2
        <5>3. QED
          BY <5>1, <5>2
      <4>4. QED
        BY <1>6, <1>10, <3>1, <4>2, <4>3
    <3>4. QED
      BY <3>2, <3>3
  <2>3. InWindow' = InWindow
    BY <1>1 DEF InWindow
  <2>4. QED
    BY <1>1, <2>1, <2>2, <2>3 DEF JobsInv
<1>12. StoredInv' /\ PromptInv'
  <2>1. \A k \in DOMAIN jobs' : jobs'[k] = "done" => k \in DOMAIN jobs /\ jobs[k] = "done"
    BY <1>2
  <2>2. QED
    BY <1>1, <1>9, <2>1 DEF IInv, StoredInv, PromptInv, Requested
<1>13. QED
  BY <1>8, <1>11, <1>12 DEF IInv

-----------------------------------------------------------------------------
(* The steps of a job.                                                     *)

\* A job changes its status, and values it asked for are stored.
LEMMA JobStepKeeps ==
  ASSUME IInv, NEW k \in DOMAIN jobs, NEW status \in JobStatus, NEW recorded \in SUBSET Requested(k),
         DOMAIN jobs' = DOMAIN jobs, jobs'[k] = status,
         \A j \in DOMAIN jobs : j # k => jobs'[j] = jobs[j],
         stored' = stored \union recorded,
         UNCHANGED <<today, published, read>>,
         status = "done" => \A d \in Requested(k) \ (Late \union Malformed) : d \in stored'
  PROVE  IInv'
<1>1. /\ DOMAIN jobs' = DOMAIN jobs /\ jobs'[k] = status
      /\ \A j \in DOMAIN jobs : j # k => jobs'[j] = jobs[j]
  OBVIOUS
<1>2. today' = today /\ published' = published /\ read' = read
  OBVIOUS
<1>3. \A d : Covered(d)' <=> Covered(d)
  BY <1>1, SameJobs
<1>4. Requested(k) \subseteq Sessions /\ \A d \in Requested(k) : Covered(d)
  BY DEF Requested, Covered, Covers
<1>5. TypeOK'
  <2>1. \A j \in DOMAIN jobs' : jobs'[j] \in JobStatus
    BY <1>1 DEF IInv, TypeOK
  <2>2. stored' \subseteq Sessions
    BY <1>4 DEF IInv, TypeOK
  <2>3. QED
    BY <1>1, <1>2, <2>1, <2>2 DEF IInv, TypeOK
<1>6. JobsInv' /\ ReadInv'
  BY <1>1, <1>2, <1>3 DEF IInv, JobsInv, ReadInv, InWindow
<1>7. StoredInv'
  BY <1>3, <1>4 DEF IInv, StoredInv
<1>8. PromptInv'
  <2>1. ASSUME NEW j \in DOMAIN jobs', jobs'[j] = "done"
        PROVE  \A d \in Requested(j) \ (Late \union Malformed) : d \in stored'
    <3>1. CASE j = k
      BY <1>1, <2>1, <3>1
    <3>2. CASE j # k
      BY <1>1, <2>1, <3>2 DEF IInv, PromptInv
    <3>3. QED
      BY <3>1, <3>2
  <2>2. \A j : Requested(j)' = Requested(j)
    BY DEF Requested
  <2>3. QED
    BY <1>2, <2>1, <2>2 DEF IInv, PromptInv
<1>9. QED
  BY <1>5, <1>6, <1>7, <1>8 DEF IInv

\* A waiting job becomes due.
LEMMA PromoteKeeps == ASSUME IInv, NEW k \in DOMAIN jobs, Promote(k) PROVE IInv'
<1>1. /\ DOMAIN jobs' = DOMAIN jobs /\ jobs'[k] = "pending"
      /\ \A j \in DOMAIN jobs : j # k => jobs'[j] = jobs[j]
      /\ stored' = stored \union {} /\ UNCHANGED <<today, published, read>>
  BY DEF Promote, SetJob
<1>2. QED
  BY <1>1, JobStepKeeps DEF JobStatus

\* A job is done with every session it asked for that was published on its day, and
\* with a valid row: it asks for none that is yet to come.
LEMMA FetchKeeps == ASSUME IInv, NEW k \in DOMAIN jobs, Fetch(k) PROVE IInv'
<1>1. PICK answer \in Answers(k) : stored' = stored \union Accepted(answer)
  BY DEF Fetch
<1>2. /\ DOMAIN jobs' = DOMAIN jobs /\ jobs'[k] = "done"
      /\ \A j \in DOMAIN jobs : j # k => jobs'[j] = jobs[j]
      /\ UNCHANGED <<today, published, read>>
  BY DEF Fetch, SetJob
<1>3. answer \subseteq Requested(k) /\ Requested(k) \intersect published \subseteq answer
  BY DEF Answers
<1>4. Accepted(answer) \in SUBSET Requested(k)
  BY <1>3 DEF Accepted
<1>5. ASSUME NEW d \in Requested(k) \ (Late \union Malformed) PROVE d \in stored'
  <2>1. d \in Sessions /\ d \in Int /\ d <= k.end
    BY DaysType DEF Requested
  <2>2. k.end \in Int /\ k.end <= today /\ today \in Int
    BY DaysType DEF IInv, JobsInv, TypeOK, Key
  <2>3. d <= today
    BY <2>1, <2>2
  <2>4. d \in published
    BY <2>1, <2>3 DEF IInv, PromptInv
  <2>5. QED
    BY <1>1, <1>3, <2>4 DEF Accepted
<1>6. QED
  BY <1>1, <1>2, <1>4, <1>5, JobStepKeeps DEF JobStatus

\* An attempt that does not end the job as done may have stored some of its sessions.
LEMMA AttemptKeeps == ASSUME IInv, NEW k \in DOMAIN jobs, Retry(k) \/ Fail(k) PROVE IInv'
<1>1. PICK recorded \in SUBSET (Accepted(Requested(k)) \ stored) : stored' = stored \union recorded
  BY DEF Retry, Fail, Attempt
<1>2. recorded \in SUBSET Requested(k) /\ UNCHANGED <<today, published, read>>
  BY DEF Retry, Fail, Attempt, Accepted
<1>3. /\ DOMAIN jobs' = DOMAIN jobs /\ jobs'[k] \in {"pending", "failed"}
      /\ \A j \in DOMAIN jobs : j # k => jobs'[j] = jobs[j]
  BY DEF Retry, Fail, SetJob
<1>4. QED
  BY <1>1, <1>2, <1>3, JobStepKeeps DEF JobStatus

\* Every step keeps the invariant.
LEMMA NextIInv == IInv /\ [Next]_vars => IInv'
<1> SUFFICES ASSUME IInv, [Next]_vars PROVE IInv'
  OBVIOUS
<1>1. CASE NextDay
  BY <1>1, NextDayKeeps
<1>2. CASE PublishLate
  BY <1>2, PublishLateKeeps
<1>3. CASE \E r \in Refreshers : ReadCursor(r) \/ Enqueue(r) \/ Abandon(r)
  BY <1>3, ReadCursorKeeps, EnqueueKeeps, AbandonKeeps
<1>4. CASE \E k \in DOMAIN jobs : Promote(k) \/ Fetch(k) \/ Retry(k) \/ Fail(k)
  BY <1>4, PromoteKeeps, FetchKeeps, AttemptKeeps
<1>5. CASE UNCHANGED vars
  BY <1>5 DEF vars, IInv, TypeOK, JobsInv, StoredInv, ReadInv, PromptInv, Covered, InWindow,
              Requested
<1>6. QED
  BY <1>1, <1>2, <1>3, <1>4, <1>5 DEF Next

\* Between any two steps of refreshes and jobs, the sessions of the look-back that a
\* job ends after are covered, by that job or another, and a job that is done has
\* stored what was published on its day.
THEOREM Inductive == Spec => []IInv
BY InitIInv, NextIInv, PTL DEF Spec

\* The type invariant: jobs have the keys of ranges of sessions (Key), and a refresh
\* plans for a day of the calendar from a cursor within it.
THEOREM TypeCorrect == Spec => []TypeOK
<1>1. IInv => TypeOK
  BY DEF IInv
<1>2. QED
  BY <1>1, Inductive, PTL

\* Every session of the look-back that is behind the cursor is covered by a job.
LEMMA CoveredBehind ==
  ASSUME IInv, NEW d \in InWindow, d <= LastCompleted
  PROVE  Covered(d)
<1>1. d \in Sessions /\ d \in Int /\ 1 <= d
  BY DaysType DEF InWindow
<1>2. LastCompleted # 0 /\ LastCompleted \in Int
  BY <1>1, LastCompletedIs, DaysType
<1>3. PICK k \in DOMAIN jobs : LastCompleted <= k.end
  BY <1>2, LastCompletedIs
<1>4. k.end \in Int
  BY DaysType DEF IInv, TypeOK, Key
<1>5. d <= k.end
  BY <1>1, <1>2, <1>3, <1>4
<1>6. QED
  BY <1>5 DEF IInv, JobsInv

\* last_completed_session is the maximum of what is stored, so plan never looks at a
\* session before it again; however refreshes overlap and in whatever order jobs
\* finish, a job was enqueued for each session the cursor has passed.
THEOREM CursorPassesNothing == Spec => []CoveredBehindCursor
<1>1. IInv => CoveredBehindCursor
  BY CoveredBehind DEF CoveredBehindCursor, Covered
<1>2. QED
  BY <1>1, Inductive, PTL

\* PromptNotLost follows.
LEMMA ImpliesPromptNotLost == IInv => PromptNotLost
<1> SUFFICES ASSUME IInv, NEW d \in InWindow \ (Late \union Malformed),
                    d <= LastCompleted, d \notin stored
             PROVE  \E k \in DOMAIN jobs : Covers(k, d) /\ jobs[k] # "done"
  BY DEF PromptNotLost
<1>1. PICK k \in DOMAIN jobs : Covers(k, d)
  BY CoveredBehind DEF Covered
<1>2. d \in Requested(k)
  BY <1>1 DEF Requested, Covers, InWindow
<1>3. jobs[k] # "done"
  BY <1>2 DEF IInv, PromptInv
<1>4. QED
  BY <1>1, <1>3

\* A session published on its day with a valid row is never lost behind the cursor:
\* it is stored, or a job that covers it is still to run or has been failed for all to
\* see (IngestionQueue.mark_failed).
THEOREM PromptSessionsAreKept == Spec => []PromptNotLost
BY Inductive, ImpliesPromptNotLost, PTL
=============================================================================

------------------------ MODULE ObservationStoreProofs ------------------------
(***************************************************************************)
(* Proofs about ObservationStore, for any number of sessions, any keys and *)
(* values and any bounds.  The argument: at most one open transaction has  *)
(* observations of a key, and they continue the committed ones; so of two  *)
(* histories that a commit brings together, one is empty.                  *)
(***************************************************************************)
EXTENDS ObservationStore, FiniteSetTheorems, TLAPS

-----------------------------------------------------------------------------
(* The revisions of one key in a set of observations.                      *)

Revisions(S, k) == {o.revision : o \in Of(S, k)}

\* The revisions of k in S are 1 .. n.
UpTo(S, k, n) == Revisions(S, k) = 1 .. n

Numbered(S, k) == \E n \in Nat : UpTo(S, k, n)

Unique(S) == \A o, x \in S : o.key = x.key /\ o.revision = x.revision => o = x

\* What was inserted over o was not equal to the value the object of o had.
Corrects(o, value) == value # Held(o) \/ value # o.given

Differ(S) ==
  \A o, x \in S : o.key = x.key /\ x.revision = o.revision + 1 => Corrects(o, x.given)

\* A history 1..n of a key, spelled out for its revisions.
LEMMA UpToHas ==
  ASSUME NEW S \in SUBSET Observation, NEW k, NEW n \in Nat, UpTo(S, k, n)
  PROVE  /\ \A m \in Nat \ {0} : Has(S, k, m) <=> m <= n
         /\ \A o \in S : o.key = k => o.revision \in 1 .. n
<1>1. \A m : m \in Revisions(S, k) <=> \E o \in S : o.key = k /\ o.revision = m
  BY DEF Revisions, Of
<1>2. \A m \in Nat \ {0} : m \in 1 .. n <=> m <= n
  OBVIOUS
<1>3. QED
  BY <1>1, <1>2 DEF UpTo, Has

\* What _current_revision returns.
LEMMA CurrentIs ==
  ASSUME NEW S \in SUBSET Observation, NEW k, NEW n \in Nat, UpTo(S, k, n)
  PROVE  /\ n = 0 => CurrentRevision(S, k) = None
         /\ n # 0 => \E o \in S : /\ o.key = k /\ o.revision = n
                                  /\ CurrentRevision(S, k) = [revision |-> n, given |-> o.given]
<1>1. \A o \in Of(S, k) : o \in S /\ o.key = k /\ o.revision \in 1 .. n
  BY UpToHas DEF Of
<1>2. CASE n = 0
  BY <1>1, <1>2 DEF CurrentRevision
<1>3. CASE n # 0
  <2>1. Has(S, k, n)
    BY <1>3, UpToHas
  <2>2. PICK top \in Of(S, k) : top.revision = n
    BY <2>1 DEF Has, Of
  <2> DEFINE o == CHOOSE o \in Of(S, k) : \A x \in Of(S, k) : x.revision <= o.revision
  <2>3. \A x \in Of(S, k) : x.revision <= top.revision
    BY <1>1, <2>2
  <2>4. o \in Of(S, k) /\ \A x \in Of(S, k) : x.revision <= o.revision
    BY <2>3
  <2>5. o.revision = n
    BY <1>1, <2>2, <2>4
  <2>6. CurrentRevision(S, k) = [revision |-> o.revision, given |-> o.given]
    BY <2>2 DEF CurrentRevision
  <2>7. QED
    BY <1>1, <1>3, <2>4, <2>5, <2>6
<1>4. QED
  BY <1>2, <1>3

\* current_revision is the last of the history, or "none" of an empty one.
LEMMA CurrentType ==
  ASSUME NEW S \in SUBSET Observation, NEW k, NEW n \in Nat, UpTo(S, k, n)
  PROVE  CurrentRevision(S, k) \in Current /\ CurrentRevision(S, k).revision = n
<1>1. CASE n = 0
  BY <1>1, CurrentIs DEF None, Current
<1>2. CASE n # 0
  BY <1>2, CurrentIs DEF Current, Observation
<1>3. QED
  BY <1>1, <1>2

\* An observation with the next revision, or of another key.
LEMMA NumberedAdd ==
  ASSUME NEW S \in SUBSET Observation, NEW k, NEW n \in Nat, UpTo(S, k, n),
         NEW o \in Observation, o.key = k => o.revision = n + 1
  PROVE  UpTo(S \union {o}, k, IF o.key = k THEN n + 1 ELSE n)
<1>1. CASE o.key = k
  <2>1. Of(S \union {o}, k) = Of(S, k) \union {o}
    BY <1>1 DEF Of
  <2>2. Revisions(S \union {o}, k) = Revisions(S, k) \union {n + 1}
    <3>1. \A m : m \in Revisions(S \union {o}, k) <=> \E x \in Of(S, k) \union {o} : x.revision = m
      BY <2>1 DEF Revisions
    <3>2. \A m : m \in Revisions(S, k) <=> \E x \in Of(S, k) : x.revision = m
      BY DEF Revisions
    <3>3. QED
      BY <1>1, <3>1, <3>2
  <2>3. (1 .. n) \union {n + 1} = 1 .. (n + 1)
    OBVIOUS
  <2>4. QED
    BY <1>1, <2>2, <2>3 DEF UpTo
<1>2. CASE o.key # k
  <2>1. Of(S \union {o}, k) = Of(S, k)
    BY <1>2 DEF Of
  <2>2. QED
    BY <1>2, <2>1 DEF UpTo, Revisions
<1>3. QED
  BY <1>1, <1>2

\* Numbered and unique, the observations of a key are as many as their revisions.
LEMMA NumberedCardinality ==
  ASSUME NEW S \in SUBSET Observation, Unique(S), NEW k, NEW n \in Nat, UpTo(S, k, n)
  PROVE  Cardinality(Of(S, k)) = n
<1> DEFINE f == [m \in 1 .. n |-> CHOOSE o \in Of(S, k) : o.revision = m]
<1>1. \A m \in 1 .. n : f[m] \in Of(S, k) /\ f[m].revision = m
  BY UpToHas DEF Has, Of
<1>2. \A o \in Of(S, k) : o.revision \in 1 .. n /\ f[o.revision] = o
  <2> SUFFICES ASSUME NEW o \in Of(S, k) PROVE o.revision \in 1 .. n /\ f[o.revision] = o
    OBVIOUS
  <2>1. o \in S /\ o.key = k /\ o.revision \in 1 .. n
    BY UpToHas DEF Of
  <2>2. f[o.revision] \in S /\ f[o.revision].key = k /\ f[o.revision].revision = o.revision
    BY <1>1, <2>1 DEF Of
  <2>3. QED
    BY <2>1, <2>2 DEF Unique
<1>3. f \in Bijection(1 .. n, Of(S, k))
  <2>1. f \in [1 .. n -> Of(S, k)]
    BY <1>1
  <2>2. \A i, j \in 1 .. n : f[i] = f[j] => i = j
    BY <1>1
  <2>3. \A o \in Of(S, k) : \E m \in 1 .. n : f[m] = o
    BY <1>2
  <2> HIDE DEF f
  <2>4. QED
    BY <2>1, <2>2, <2>3 DEF Bijection, Injection, Surjection, IsInjective
<1>4. ExistsBijection(1 .. n, Of(S, k))
  BY <1>3 DEF ExistsBijection
<1>5. QED
  BY <1>4, FS_CountingElements

\* A larger set has at least the revisions of the smaller one.
LEMMA MoreRevisions ==
  ASSUME NEW S \in SUBSET Observation, NEW T \in SUBSET Observation, S \subseteq T, NEW k,
         Numbered(S, k), Numbered(T, k)
  PROVE  CurrentRevision(S, k).revision <= CurrentRevision(T, k).revision
<1>1. PICK n \in Nat : UpTo(S, k, n)
  BY DEF Numbered
<1>2. PICK m \in Nat : UpTo(T, k, m)
  BY DEF Numbered
<1>3. CurrentRevision(S, k).revision = n /\ CurrentRevision(T, k).revision = m
  BY <1>1, <1>2, CurrentType
<1>4. n # 0 => Has(S, k, n)
  BY <1>1, UpToHas
<1>5. n # 0 => Has(T, k, n)
  BY <1>4 DEF Has
<1>6. n <= m
  BY <1>2, <1>5, UpToHas
<1>7. QED
  BY <1>3, <1>6

-----------------------------------------------------------------------------
(* The inductive invariant.                                                *)

\* Committed or not, the revisions of a key are a history; what is not committed
\* continues what is, and is the work of one session.
SessionHistory(s) ==
  /\ \A k \in Keys : Numbered(Visible(s), k)
  /\ Unique(Visible(s)) /\ Differ(Visible(s))
  /\ \A o \in own[s], x \in rows : o.key = x.key => x.revision < o.revision
  /\ \A t \in Sessions \ {s} : \A o \in own[s], x \in own[t] : o.key # x.key

HistoryInv ==
  /\ \A k \in Keys : Numbered(rows, k)
  /\ \A s \in Sessions : SessionHistory(s)

\* What s has read is a revision it still sees, with another value than its input.
CallInv(s) ==
  /\ pc[s] = "idle" => attempt[s] = 0
  /\ pc[s] # "idle" =>
       /\ data[s] \in Input
       /\ CurrentRevision(Visible(s), data[s].key).revision >= attempt[s]
  /\ pc[s] = "insert" =>
       /\ current[s].revision >= attempt[s]
       /\ current[s].revision # 0 =>
            \E o \in Visible(s) : /\ o.key = data[s].key
                                  /\ o.revision = current[s].revision
                                  /\ Corrects(o, data[s].value)

\* What record has returned for is there.
RecordedInv(s) ==
  \A input \in recorded[s] :
    \E o \in Visible(s) : o.key = input.key /\ Held(o) = Stored[input.value]

IInv == TypeOK /\ HistoryInv /\ \A s \in Sessions : CallInv(s) /\ RecordedInv(s)

\* A session sees observations.
LEMMA VisibleType ==
  ASSUME TypeOK, NEW s \in Sessions
  PROVE  Visible(s) \in SUBSET Observation
BY DEF TypeOK, Visible

\* Initially there are no observations and no calls.
LEMMA InitIInv == Init => IInv
<1> SUFFICES ASSUME Init PROVE IInv
  OBVIOUS
<1>1. TypeOK
  BY StoreAssumption DEF Init, TypeOK, None, Current
<1>2. \A s \in Sessions : Visible(s) = {}
  BY DEF Init, Visible
<1>3. \A k : UpTo({}, k, 0)
  BY DEF UpTo, Revisions, Of
<1>4. HistoryInv
  BY <1>2, <1>3 DEF Init, HistoryInv, SessionHistory, Numbered, Unique, Differ
<1>5. \A s \in Sessions : CallInv(s) /\ RecordedInv(s)
  BY DEF Init, CallInv, RecordedInv
<1>6. QED
  BY <1>1, <1>4, <1>5 DEF IInv

\* A step of s within record that has written nothing.
LEMMA LocalStep ==
  ASSUME IInv, NEW s \in Sessions, UNCHANGED <<rows, own>>, TypeOK',
         \A t \in Sessions \ {s} :
           /\ pc'[t] = pc[t] /\ data'[t] = data[t] /\ current'[t] = current[t]
           /\ attempt'[t] = attempt[t] /\ recorded'[t] = recorded[t],
         CallInv(s)', RecordedInv(s)'
  PROVE  IInv'
<1>1. \A t \in Sessions : Visible(t)' = Visible(t)
  BY DEF Visible
<1>2. HistoryInv'
  BY <1>1 DEF IInv, HistoryInv, SessionHistory
<1>3. \A t \in Sessions \ {s} : CallInv(t)' /\ RecordedInv(t)'
  BY <1>1 DEF IInv, CallInv, RecordedInv
<1>4. QED
  BY <1>2, <1>3 DEF IInv

\* A call of record in progress, and what its session sees of its key.
LEMMA CallContext ==
  ASSUME IInv, NEW s \in Sessions, pc[s] # "idle"
  PROVE  /\ data[s] \in Input /\ data[s].key \in Keys /\ data[s].value \in Values
         /\ Visible(s) \in SUBSET Observation
         /\ Numbered(Visible(s), data[s].key)
         /\ CurrentRevision(Visible(s), data[s].key) \in Current
         /\ CurrentRevision(Visible(s), data[s].key).revision >= attempt[s]
         /\ CurrentRevision(Visible(s), data[s].key).revision # 0 =>
              \E o \in Visible(s) :
                /\ o.key = data[s].key
                /\ o.revision = CurrentRevision(Visible(s), data[s].key).revision
                /\ o.given = CurrentRevision(Visible(s), data[s].key).given
         /\ CurrentRevision(Visible(s), data[s].key).revision = 0 =>
              CurrentRevision(Visible(s), data[s].key) = None
<1>1. data[s] \in Input /\ data[s].key \in Keys /\ data[s].value \in Values
  BY DEF IInv, CallInv, Input
<1>2. Visible(s) \in SUBSET Observation /\ Numbered(Visible(s), data[s].key)
  BY <1>1, VisibleType DEF IInv, HistoryInv, SessionHistory
<1>3. PICK n \in Nat : UpTo(Visible(s), data[s].key, n)
  BY <1>2 DEF Numbered
<1>4. /\ CurrentRevision(Visible(s), data[s].key) \in Current
      /\ CurrentRevision(Visible(s), data[s].key).revision = n
  BY <1>2, <1>3, CurrentType
<1>5. CurrentRevision(Visible(s), data[s].key).revision >= attempt[s]
  BY DEF IInv, CallInv
<1>6. QED
  BY <1>1, <1>2, <1>3, <1>4, <1>5, CurrentIs

\* Return, with nothing written; what it returns for is there already.
LEMMA ReturnStep ==
  ASSUME IInv, NEW s \in Sessions, Return(s), UNCHANGED <<rows, own>>,
         recorded' \in [Sessions -> SUBSET Input],
         \A t \in Sessions \ {s} : recorded'[t] = recorded[t],
         \A input \in recorded'[s] :
           \/ input \in recorded[s]
           \/ \E o \in Visible(s) : o.key = input.key /\ Held(o) = Stored[input.value]
  PROVE  IInv'
<1>1. TypeOK'
  <2>1. None \in Current /\ 0 \in 0 .. MaxAttempts - 1
    BY StoreAssumption DEF None, Current
  <2>2. QED
    BY <2>1 DEF IInv, TypeOK, Return
<1>2. \A t \in Sessions \ {s} :
        /\ pc'[t] = pc[t] /\ data'[t] = data[t] /\ current'[t] = current[t]
        /\ attempt'[t] = attempt[t] /\ recorded'[t] = recorded[t]
  BY DEF IInv, TypeOK, Return
<1>3. pc'[s] = "idle" /\ attempt'[s] = 0 /\ Visible(s)' = Visible(s)
  BY DEF IInv, TypeOK, Return, Visible
<1>4. CallInv(s)' /\ RecordedInv(s)'
  BY <1>3 DEF IInv, CallInv, RecordedInv
<1>5. QED
  BY <1>1, <1>2, <1>4, LocalStep

\* A call begins: its payload is new, so nothing is recorded of it yet.
LEMMA CallKeeps == ASSUME IInv, NEW s \in Sessions, Call(s) PROVE IInv'
<1>1. PICK input \in Input : data' = [data EXCEPT ![s] = input]
  BY DEF Call
<1>2. TypeOK'
  BY <1>1 DEF IInv, TypeOK, Call
<1>3. \A t \in Sessions \ {s} :
        /\ pc'[t] = pc[t] /\ data'[t] = data[t] /\ current'[t] = current[t]
        /\ attempt'[t] = attempt[t] /\ recorded'[t] = recorded[t]
  BY <1>1 DEF IInv, TypeOK, Call
<1>4. /\ pc'[s] = "read" /\ data'[s] = input /\ attempt'[s] = attempt[s]
      /\ recorded'[s] = recorded[s] /\ Visible(s)' = Visible(s)
  BY <1>1 DEF IInv, TypeOK, Call, Visible
<1>5. attempt[s] = 0
  BY DEF IInv, CallInv, Call
<1>6. PICK n \in Nat : UpTo(Visible(s), input.key, n)
  BY DEF IInv, HistoryInv, SessionHistory, Numbered, Input
<1>7. CurrentRevision(Visible(s), input.key).revision = n
  BY <1>6, VisibleType, CurrentType DEF IInv
<1>8. CallInv(s)' /\ RecordedInv(s)'
  BY <1>4, <1>5, <1>7 DEF IInv, CallInv, RecordedInv
<1>9. QED
  BY <1>2, <1>3, <1>8, LocalStep DEF Call

\* The session reads the current revision, which is that of what it sees.
LEMMA ReadKeeps == ASSUME IInv, NEW s \in Sessions, Read(s) PROVE IInv'
<1> DEFINE found == CurrentRevision(Visible(s), data[s].key)
<1>1. /\ pc[s] = "read" /\ \E value \in Loaded(s, found) : value # data[s].value
      /\ current' = [current EXCEPT ![s] = found]
      /\ pc' = [pc EXCEPT ![s] = "insert"]
      /\ UNCHANGED <<rows, own, data, attempt, recorded>>
  BY DEF Read
<1>2. /\ data[s] \in Input /\ found \in Current /\ found.revision >= attempt[s]
      /\ found.revision # 0 =>
           \E o \in Visible(s) : /\ o.key = data[s].key /\ o.revision = found.revision
                                 /\ Corrects(o, data[s].value)
  <2>1. /\ data[s] \in Input /\ found \in Current /\ found.revision >= attempt[s]
        /\ found.revision # 0 =>
             \E o \in Visible(s) : /\ o.key = data[s].key /\ o.revision = found.revision
                                   /\ o.given = found.given
    BY <1>1, CallContext
  <2>2. found.revision # 0 => data[s].value # Stored[found.given] \/ data[s].value # found.given
    BY <1>1 DEF Loaded, None, Held
  <2>3. QED
    BY <2>1, <2>2 DEF Corrects, Held
<1> HIDE DEF found
<1>3. TypeOK'
  BY <1>1, <1>2 DEF IInv, TypeOK
<1>4. \A t \in Sessions \ {s} :
        /\ pc'[t] = pc[t] /\ data'[t] = data[t] /\ current'[t] = current[t]
        /\ attempt'[t] = attempt[t] /\ recorded'[t] = recorded[t]
  BY <1>1 DEF IInv, TypeOK
<1>5. current'[s] = found /\ Visible(s)' = Visible(s)
  BY <1>1 DEF IInv, TypeOK, Visible
<1>6. CallInv(s)' /\ RecordedInv(s)'
  BY <1>1, <1>2, <1>5 DEF IInv, CallInv, RecordedInv, found
<1>7. QED
  BY <1>1, <1>3, <1>4, <1>6, LocalStep

\* A payload equal to the current value records nothing.
LEMMA ReadSameKeeps == ASSUME IInv, NEW s \in Sessions, ReadSame(s) PROVE IInv'
<1> DEFINE found == CurrentRevision(Visible(s), data[s].key)
<1>1. pc[s] = "read" /\ data[s].value \in Loaded(s, found)
  BY DEF ReadSame
<1>2. data[s] \in Input /\ data[s].value \in Values /\ found \in Current
  BY <1>1, CallContext
<1>3. found # None
  BY <1>1, <1>2, StoreAssumption DEF Loaded
<1>4. \E o \in Visible(s) : o.key = data[s].key /\ Held(o) = Stored[data[s].value]
  <2>1. PICK o \in Visible(s) : o.key = data[s].key /\ o.given = found.given
    BY <1>1, <1>3, CallContext
  <2>2. data[s].value \in {Stored[found.given], found.given}
    BY <1>1, <1>3 DEF Loaded, Held
  <2>3. o.given \in Values
    BY VisibleType DEF IInv, Observation
  <2>4. QED
    BY <2>1, <2>2, <2>3, StoreAssumption DEF Held
<1>5. /\ Return(s) /\ UNCHANGED <<rows, own>>
      /\ recorded' = [recorded EXCEPT ![s] = recorded[s] \union {data[s]}]
  BY DEF ReadSame
<1>6. /\ recorded' \in [Sessions -> SUBSET Input]
      /\ \A t \in Sessions \ {s} : recorded'[t] = recorded[t]
      /\ recorded'[s] = recorded[s] \union {data[s]}
  BY <1>2, <1>5 DEF IInv, TypeOK
<1>7. QED
  BY <1>4, <1>5, <1>6, ReturnStep

\* A call that gives up, or is aborted, leaves the histories alone.
LEMMA ExhaustedKeeps ==
  ASSUME IInv, NEW s \in Sessions, Exhausted(s) \/ DeadlockAbort(s) PROVE IInv'
<1>1. Return(s) /\ UNCHANGED <<rows, own>> /\ recorded' = recorded
  BY DEF Exhausted, DeadlockAbort
<1>2. recorded' \in [Sessions -> SUBSET Input]
  BY <1>1 DEF IInv, TypeOK
<1>3. QED
  BY <1>1, <1>2, ReturnStep

\* A lost race: what is there now has one revision more than what was read.
LEMMA InsertRejectedKeeps == ASSUME IInv, NEW s \in Sessions, InsertRejected(s) PROVE IInv'
<1>1. /\ pc[s] = "insert" /\ attempt[s] + 1 < MaxAttempts
      /\ Has(Visible(s), data[s].key, current[s].revision + 1)
      /\ attempt' = [attempt EXCEPT ![s] = attempt[s] + 1]
      /\ pc' = [pc EXCEPT ![s] = "read"]
      /\ UNCHANGED <<rows, own, data, current, recorded>>
  BY DEF InsertRejected, Candidate
<1>2. current[s].revision \in Nat /\ attempt[s] \in Nat /\ current[s].revision >= attempt[s]
  BY <1>1 DEF IInv, TypeOK, Current, CallInv
<1>3. PICK n \in Nat : UpTo(Visible(s), data[s].key, n)
  BY <1>1, CallContext DEF Numbered
<1>4. n >= current[s].revision + 1
  BY <1>1, <1>2, <1>3, CallContext, UpToHas
<1>5. CurrentRevision(Visible(s), data[s].key).revision >= attempt[s] + 1
  BY <1>1, <1>2, <1>3, <1>4, CallContext, CurrentType
<1>6. TypeOK'
  BY <1>1, <1>2, StoreAssumption DEF IInv, TypeOK
<1>7. \A t \in Sessions \ {s} :
        /\ pc'[t] = pc[t] /\ data'[t] = data[t] /\ current'[t] = current[t]
        /\ attempt'[t] = attempt[t] /\ recorded'[t] = recorded[t]
  BY <1>1 DEF IInv, TypeOK
<1>8. pc'[s] = "read" /\ attempt'[s] = attempt[s] + 1 /\ Visible(s)' = Visible(s)
  BY <1>1 DEF IInv, TypeOK, Visible
<1>9. CallInv(s)' /\ RecordedInv(s)'
  BY <1>1, <1>5, <1>8 DEF IInv, CallInv, RecordedInv
<1>10. QED
  BY <1>1, <1>6, <1>7, <1>9, LocalStep

-----------------------------------------------------------------------------
(* The INSERT.                                                             *)

\* A history has one length.
LEMMA UpToIsOne ==
  ASSUME NEW S \in SUBSET Observation, NEW k, NEW n \in Nat, NEW m \in Nat,
         UpTo(S, k, n), UpTo(S, k, m)
  PROVE  n = m
<1>1. n # 0 => Has(S, k, n)
  BY UpToHas
<1>2. n # 0 => n <= m
  BY <1>1, UpToHas
<1>3. m # 0 => Has(S, k, m)
  BY UpToHas
<1>4. m # 0 => m <= n
  BY <1>3, UpToHas
<1>5. QED
  BY <1>2, <1>4

\* A revision that is free is the next one: what was read is still the latest.
LEMMA FreeIsNext ==
  ASSUME IInv, NEW s \in Sessions, pc[s] = "insert",
         ~Has(Visible(s), data[s].key, current[s].revision + 1)
  PROVE  current[s].revision \in Nat /\ UpTo(Visible(s), data[s].key, current[s].revision)
<1>1. PICK n \in Nat : UpTo(Visible(s), data[s].key, n)
  BY CallContext DEF Numbered
<1>2. current[s].revision \in Nat /\ Visible(s) \in SUBSET Observation
  BY CallContext DEF IInv, TypeOK, Current
<1>3. n < current[s].revision + 1
  BY <1>1, <1>2, UpToHas
<1>4. current[s].revision # 0 => Has(Visible(s), data[s].key, current[s].revision)
  BY DEF IInv, CallInv, Has
<1>5. current[s].revision <= n
  BY <1>1, <1>2, <1>4, UpToHas
<1>6. QED
  BY <1>1, <1>2, <1>3, <1>5

\* Any other transaction with observations of the key is a rival: the first of them has
\* the revision after the committed ones, which is what s is about to insert.
LEMMA NoOtherWriter ==
  ASSUME IInv, NEW s \in Sessions, pc[s] = "insert", Rivals(s) = {},
         ~Has(Visible(s), data[s].key, current[s].revision + 1)
  PROVE  \A t \in Sessions \ {s} : \A x \in own[t] : x.key # data[s].key
<1> DEFINE k == data[s].key
<1> SUFFICES ASSUME NEW t \in Sessions \ {s}, NEW x \in own[t], x.key = k PROVE FALSE
  OBVIOUS
<1>1. k \in Keys /\ Visible(s) \in SUBSET Observation
  BY CallContext
<1>2. /\ rows \in SUBSET Observation /\ Visible(t) \in SUBSET Observation
      /\ x \in Visible(t) /\ x.revision \in Nat \ {0}
  BY VisibleType DEF IInv, TypeOK, Visible, Observation
<1>3. PICK n \in Nat : UpTo(rows, k, n)
  BY <1>1 DEF IInv, HistoryInv, SessionHistory, Numbered
<1>4. PICK m \in Nat : UpTo(Visible(t), k, m)
  BY <1>1 DEF IInv, HistoryInv, SessionHistory, Numbered
<1>5. \A o \in own[t], y \in rows : o.key = y.key => y.revision < o.revision
  BY DEF IInv, HistoryInv, SessionHistory
<1>6. x.revision >= n + 1
  <2>1. n # 0 => Has(rows, k, n)
    BY <1>2, <1>3, UpToHas
  <2>2. n # 0 => n < x.revision
    BY <1>5, <2>1 DEF Has
  <2>3. QED
    BY <1>2, <2>2
<1>7. Has(Visible(t), k, n + 1)
  <2>1. Has(Visible(t), k, x.revision)
    BY <1>2 DEF Has
  <2>2. x.revision <= m
    BY <1>2, <1>4, <2>1, UpToHas
  <2>3. n + 1 \in Nat \ {0} /\ n + 1 <= m
    BY <1>2, <1>6, <2>2
  <2>4. QED
    BY <1>2, <1>4, <2>3, UpToHas
<1>8. ~Has(rows, k, n + 1)
  BY <1>2, <1>3, UpToHas
<1>9. Has(own[t], k, n + 1)
  BY <1>7, <1>8 DEF Has, Visible
<1>10. \A o \in own[s] : o.key # k
  BY DEF IInv, HistoryInv, SessionHistory
<1>11. Of(Visible(s), k) = Of(rows, k)
  BY <1>10 DEF Of, Visible
<1>12. UpTo(Visible(s), k, n)
  BY <1>3, <1>11 DEF UpTo, Revisions
<1>13. n = current[s].revision
  BY <1>1, <1>12, FreeIsNext, UpToIsOne
<1>14. Candidate(s).key = k /\ Candidate(s).revision = n + 1
  BY <1>13 DEF Candidate
<1>15. QED
  BY <1>9, <1>14 DEF Rivals

\* An INSERT that violates nothing extends the history the session sees.
LEMMA InsertKeeps == ASSUME IInv, NEW s \in Sessions, Insert(s) PROVE IInv'
<1> DEFINE k == data[s].key
           n == current[s].revision
           c == Candidate(s)
<1>1. /\ pc[s] = "insert" /\ Rivals(s) = {}
      /\ ~Has(Visible(s), k, n + 1)
      /\ own' = [own EXCEPT ![s] = own[s] \union {c}]
      /\ recorded' = [recorded EXCEPT ![s] = recorded[s] \union {data[s]}]
      /\ Return(s)
      /\ rows' = rows
  BY DEF Insert, Candidate
<1>2. /\ data[s] \in Input /\ k \in Keys /\ data[s].value \in Values
      /\ Visible(s) \in SUBSET Observation
  BY <1>1, CallContext
<1>3. n \in Nat /\ UpTo(Visible(s), k, n)
  BY <1>1, FreeIsNext
<1>4. /\ c \in Observation
      /\ c.key = k /\ c.revision = n + 1 /\ c.given = data[s].value
  BY <1>2, <1>3 DEF Candidate, Observation
<1>5. \A o \in Visible(s) : o.key = k => o.revision \in 1 .. n
  BY <1>2, <1>3, UpToHas
<1> HIDE DEF c, k, n
<1>6. TypeOK'
  <2>1. None \in Current /\ 0 \in 0 .. MaxAttempts - 1
    BY StoreAssumption DEF None, Current
  <2>2. own' \in [Sessions -> SUBSET Observation] /\ recorded' \in [Sessions -> SUBSET Input]
    BY <1>1, <1>2, <1>4 DEF IInv, TypeOK
  <2>3. QED
    BY <1>1, <2>1, <2>2 DEF IInv, TypeOK, Return
<1>7. /\ own'[s] = own[s] \union {c} /\ Visible(s)' = Visible(s) \union {c}
      /\ recorded'[s] = recorded[s] \union {data[s]}
      /\ pc'[s] = "idle" /\ attempt'[s] = 0
  BY <1>1 DEF IInv, TypeOK, Visible, Return
<1>8. \A t \in Sessions \ {s} :
        /\ own'[t] = own[t] /\ Visible(t)' = Visible(t) /\ recorded'[t] = recorded[t]
        /\ pc'[t] = pc[t] /\ data'[t] = data[t] /\ current'[t] = current[t]
        /\ attempt'[t] = attempt[t]
  BY <1>1 DEF IInv, TypeOK, Visible, Return
<1>9. HistoryInv'
  <2>1. \A j \in Keys : Numbered(Visible(s)', j)
    <3> SUFFICES ASSUME NEW j \in Keys PROVE Numbered(Visible(s) \union {c}, j)
      BY <1>7
    <3>1. CASE j = k
      <4>1. UpTo(Visible(s) \union {c}, k, n + 1)
        BY <1>2, <1>3, <1>4, NumberedAdd
      <4>2. QED
        BY <1>3, <3>1, <4>1 DEF Numbered
    <3>2. CASE j # k
      <4>1. PICK m \in Nat : UpTo(Visible(s), j, m)
        BY DEF IInv, HistoryInv, SessionHistory, Numbered
      <4>2. QED
        BY <1>2, <1>4, <3>2, <4>1, NumberedAdd DEF Numbered
    <3>3. QED
      BY <3>1, <3>2
  <2>2. Unique(Visible(s)')
    <3>1. Unique(Visible(s))
      BY DEF IInv, HistoryInv, SessionHistory
    <3>2. QED
      BY <1>3, <1>4, <1>5, <1>7, <3>1 DEF Unique
  <2>3. Differ(Visible(s)')
    <3>1. Differ(Visible(s)) /\ Unique(Visible(s))
      BY DEF IInv, HistoryInv, SessionHistory
    <3>2. ASSUME NEW o \in Visible(s), o.key = k, o.revision = n
          PROVE  Corrects(o, data[s].value)
      <4>1. n # 0
        BY <1>3, <1>5, <3>2
      <4>2. \E x \in Visible(s) : x.key = k /\ x.revision = n /\ Corrects(x, data[s].value)
        BY <1>1, <4>1 DEF IInv, CallInv, k, n
      <4>3. QED
        BY <3>1, <3>2, <4>2 DEF Unique
    <3>3. \A x \in Visible(s) : x.key = k => x.revision # n + 2
      BY <1>3, <1>5
    <3>4. ASSUME NEW o \in Visible(s) \union {c}, NEW x \in Visible(s) \union {c},
                 o.key = x.key, x.revision = o.revision + 1
          PROVE  Corrects(o, x.given)
      <4>1. CASE o \in Visible(s) /\ x \in Visible(s)
        BY <3>1, <3>4, <4>1 DEF Differ
      <4>2. CASE x = c /\ o \in Visible(s)
        <5>1. o.revision \in Nat
          BY <1>2, <4>2 DEF Observation
        <5>2. o.revision = n
          BY <1>3, <1>4, <3>4, <4>2, <5>1
        <5>3. QED
          BY <1>4, <3>2, <3>4, <4>2, <5>2
      <4>3. CASE o = c
        BY <1>3, <1>4, <3>3, <3>4, <4>3
      <4>4. QED
        BY <3>4, <4>1, <4>2, <4>3
    <3>5. QED
      BY <1>7, <3>4 DEF Differ
  <2>4. \A o \in own'[s], x \in rows' : o.key = x.key => x.revision < o.revision
    <3>1. \A x \in rows : x \in Visible(s)
      BY DEF Visible
    <3>2. \A x \in rows : x.key = k => x.revision < n + 1
      BY <1>3, <1>5, <3>1
    <3>3. \A o \in own[s], x \in rows : o.key = x.key => x.revision < o.revision
      BY DEF IInv, HistoryInv, SessionHistory
    <3>4. QED
      BY <1>1, <1>4, <1>7, <3>2, <3>3
  <2>5. \A t \in Sessions \ {s} : \A o \in own'[s], x \in own'[t] : o.key # x.key
    BY <1>1, <1>4, <1>7, <1>8, NoOtherWriter DEF IInv, HistoryInv, SessionHistory, k, n
  <2>6. SessionHistory(s)'
    BY <2>1, <2>2, <2>3, <2>4, <2>5 DEF SessionHistory
  <2>7. ASSUME NEW t \in Sessions \ {s} PROVE SessionHistory(t)'
    <3>1. SessionHistory(t)
      BY DEF IInv, HistoryInv
    <3>2. \A u \in Sessions \ {t} : \A o \in own'[t], x \in own'[u] : o.key # x.key
      BY <1>8, <2>5, <3>1 DEF SessionHistory
    <3>3. QED
      BY <1>1, <1>8, <3>1, <3>2 DEF SessionHistory
  <2>8. QED
    BY <1>1, <2>6, <2>7 DEF IInv, HistoryInv
<1>10. CallInv(s)' /\ RecordedInv(s)'
  <2>1. \A input \in recorded[s] :
          \E o \in Visible(s) : o.key = input.key /\ Held(o) = Stored[input.value]
    BY DEF IInv, RecordedInv
  <2>2. c.key = data[s].key /\ Held(c) = Stored[data[s].value]
    BY <1>4 DEF k, Held
  <2>3. QED
    BY <1>7, <2>1, <2>2 DEF CallInv, RecordedInv
<1>11. \A t \in Sessions \ {s} : CallInv(t)' /\ RecordedInv(t)'
  BY <1>8 DEF IInv, CallInv, RecordedInv
<1>12. QED
  BY <1>6, <1>9, <1>10, <1>11 DEF IInv

-----------------------------------------------------------------------------
(* The end of a transaction.                                               *)

\* Whether a key is numbered depends on the observations of that key alone.
LEMMA SameHistory ==
  ASSUME NEW S, NEW T, NEW k, Of(S, k) = Of(T, k), Numbered(S, k)
  PROVE  Numbered(T, k)
BY DEF Numbered, UpTo, Revisions

\* A session that a commit of s shows more of the history of a key saw only what was
\* committed of it before: after the commit it sees that key as s does.
LEMMA Merged ==
  ASSUME IInv, NEW s \in Sessions, NEW t \in Sessions \ {s}, NEW k
  PROVE  \/ Of(Visible(s) \union Visible(t), k) = Of(Visible(s), k)
         \/ Of(Visible(s) \union Visible(t), k) = Of(Visible(t), k)
<1>1. \A o \in own[s], x \in own[t] : o.key # x.key
  BY DEF IInv, HistoryInv, SessionHistory
<1>2. CASE \A o \in own[s] : o.key # k
  <2>1. Of(Visible(s), k) \subseteq Of(Visible(t), k)
    BY <1>2 DEF Of, Visible
  <2>2. QED
    BY <2>1 DEF Of
<1>3. CASE \A x \in own[t] : x.key # k
  <2>1. Of(Visible(t), k) \subseteq Of(Visible(s), k)
    BY <1>3 DEF Of, Visible
  <2>2. QED
    BY <2>1 DEF Of
<1>4. QED
  BY <1>1, <1>2, <1>3

\* Two sessions can see both their histories at once: at most one of them adds to a key.
LEMMA MergedHistory ==
  ASSUME IInv, NEW s \in Sessions, NEW t \in Sessions \ {s}
  PROVE  LET S == Visible(s) \union Visible(t)
         IN  (\A k \in Keys : Numbered(S, k)) /\ Unique(S) /\ Differ(S)
<1> DEFINE S == Visible(s) \union Visible(t)
<1>1. SessionHistory(s) /\ SessionHistory(t)
  BY DEF IInv, HistoryInv
<1>2. \A k \in Keys : Numbered(S, k)
  <2> SUFFICES ASSUME NEW k \in Keys PROVE Numbered(S, k)
    OBVIOUS
  <2>1. Numbered(Visible(s), k) /\ Numbered(Visible(t), k)
    BY <1>1 DEF SessionHistory
  <2>2. Of(S, k) = Of(Visible(s), k) \/ Of(S, k) = Of(Visible(t), k)
    BY Merged
  <2>3. QED
    BY <2>1, <2>2, SameHistory
<1>3. ASSUME NEW o \in S, NEW x \in S, o.key = x.key
      PROVE  (o \in Visible(s) /\ x \in Visible(s)) \/ (o \in Visible(t) /\ x \in Visible(t))
  <2>1. o \in Of(S, o.key) /\ x \in Of(S, o.key)
    BY <1>3 DEF Of
  <2>2. Of(S, o.key) = Of(Visible(s), o.key) \/ Of(S, o.key) = Of(Visible(t), o.key)
    BY Merged
  <2>3. QED
    BY <2>1, <2>2 DEF Of
<1> HIDE DEF S
<1>4. Unique(S)
  BY <1>1, <1>3 DEF SessionHistory, Unique
<1>5. Differ(S)
  BY <1>1, <1>3 DEF SessionHistory, Differ
<1>6. QED
  BY <1>2, <1>4, <1>5 DEF S

\* A commit publishes the histories of one session under those of the others.
LEMMA CommitKeeps == ASSUME IInv, NEW s \in Sessions, Commit(s) PROVE IInv'
<1>1. /\ pc[s] = "idle" /\ rows' = Visible(s)
      /\ own' = [own EXCEPT ![s] = {}] /\ recorded' = [recorded EXCEPT ![s] = {}]
      /\ pc' = pc /\ data' = data /\ current' = current /\ attempt' = attempt
  BY DEF Commit, EndTransaction, Visible
<1>2. TypeOK'
  BY <1>1, VisibleType DEF IInv, TypeOK
<1>3. own'[s] = {} /\ recorded'[s] = {} /\ Visible(s)' = Visible(s)
  BY <1>1 DEF IInv, TypeOK, Visible
<1>4. \A t \in Sessions \ {s} :
        /\ own'[t] = own[t] /\ recorded'[t] = recorded[t]
        /\ Visible(t)' = Visible(s) \union Visible(t)
  BY <1>1 DEF IInv, TypeOK, Visible
<1>5. HistoryInv'
  <2>1. SessionHistory(s)
    BY DEF IInv, HistoryInv
  <2>2. SessionHistory(s)'
    BY <1>3, <2>1 DEF SessionHistory
  <2>3. ASSUME NEW t \in Sessions \ {s} PROVE SessionHistory(t)'
    <3>1. SessionHistory(t)
      BY DEF IInv, HistoryInv
    <3>2. (\A k \in Keys : Numbered(Visible(t)', k)) /\ Unique(Visible(t)') /\ Differ(Visible(t)')
      BY <1>4, MergedHistory
    <3>3. \A o \in own'[t], x \in rows' : o.key = x.key => x.revision < o.revision
      BY <1>1, <1>4, <3>1 DEF SessionHistory, Visible
    <3>4. \A u \in Sessions \ {t} : \A o \in own'[t], x \in own'[u] : o.key # x.key
      BY <1>3, <1>4, <3>1 DEF SessionHistory
    <3>5. QED
      BY <3>2, <3>3, <3>4 DEF SessionHistory
  <2>4. \A k \in Keys : Numbered(rows', k)
    BY <1>1, <2>1 DEF SessionHistory
  <2>5. QED
    BY <2>2, <2>3, <2>4 DEF HistoryInv
<1>6. CallInv(s)' /\ RecordedInv(s)'
  BY <1>1, <1>3 DEF IInv, CallInv, RecordedInv
<1>7. ASSUME NEW t \in Sessions \ {s} PROVE CallInv(t)' /\ RecordedInv(t)'
  <2>1. CallInv(t) /\ RecordedInv(t)
    BY DEF IInv
  <2>2. Visible(t) \subseteq Visible(t)'
    BY <1>4
  <2>3. RecordedInv(t)'
    BY <1>4, <2>1, <2>2 DEF RecordedInv
  <2>4. ASSUME pc[t] # "idle"
        PROVE  CurrentRevision(Visible(t)', data[t].key).revision >= attempt[t]
    <3>1. /\ data[t].key \in Keys /\ Visible(t) \in SUBSET Observation
          /\ Numbered(Visible(t), data[t].key)
          /\ CurrentRevision(Visible(t), data[t].key) \in Current
          /\ CurrentRevision(Visible(t), data[t].key).revision >= attempt[t]
      BY <2>4, CallContext
    <3>2. Visible(t)' \in SUBSET Observation
      BY <1>4, VisibleType DEF IInv
    <3>3. Numbered(Visible(t)', data[t].key)
      BY <1>5, <3>1 DEF HistoryInv, SessionHistory
    <3>4. PICK m \in Nat : UpTo(Visible(t)', data[t].key, m)
      BY <3>3 DEF Numbered
    <3>5. CurrentRevision(Visible(t)', data[t].key).revision = m
      BY <3>2, <3>4, CurrentType
    <3>6. CurrentRevision(Visible(t), data[t].key).revision
            <= CurrentRevision(Visible(t)', data[t].key).revision
      BY <2>2, <3>1, <3>2, <3>3, MoreRevisions
    <3>7. attempt[t] \in Nat /\ CurrentRevision(Visible(t), data[t].key).revision \in Nat
      BY <3>1 DEF IInv, TypeOK, Current
    <3>8. QED
      BY <3>1, <3>5, <3>6, <3>7
  <2>5. CallInv(t)'
    BY <1>1, <2>1, <2>2, <2>4 DEF CallInv
  <2>6. QED
    BY <2>3, <2>5
<1>8. QED
  BY <1>2, <1>5, <1>6, <1>7 DEF IInv

\* A rollback takes away what only its own session saw.
LEMMA RollbackKeeps == ASSUME IInv, NEW s \in Sessions, Rollback(s) PROVE IInv'
<1>1. /\ rows' = rows /\ Return(s)
      /\ own' = [own EXCEPT ![s] = {}] /\ recorded' = [recorded EXCEPT ![s] = {}]
  BY DEF Rollback, EndTransaction
<1>2. TypeOK'
  <2>1. None \in Current /\ 0 \in 0 .. MaxAttempts - 1
    BY StoreAssumption DEF None, Current
  <2>2. QED
    BY <1>1, <2>1 DEF IInv, TypeOK, Return
<1>3. /\ own'[s] = {} /\ recorded'[s] = {} /\ Visible(s)' = rows
      /\ pc'[s] = "idle" /\ attempt'[s] = 0
  BY <1>1 DEF IInv, TypeOK, Visible, Return
<1>4. \A t \in Sessions \ {s} :
        /\ own'[t] = own[t] /\ Visible(t)' = Visible(t) /\ recorded'[t] = recorded[t]
        /\ pc'[t] = pc[t] /\ data'[t] = data[t] /\ current'[t] = current[t]
        /\ attempt'[t] = attempt[t]
  BY <1>1 DEF IInv, TypeOK, Visible, Return
<1>5. SessionHistory(s)'
  <2>1. Unique(rows) /\ Differ(rows)
    BY DEF IInv, HistoryInv, SessionHistory, Unique, Differ, Visible
  <2>2. QED
    BY <1>3, <2>1 DEF IInv, HistoryInv, SessionHistory
<1>6. ASSUME NEW t \in Sessions \ {s} PROVE SessionHistory(t)'
  <2>1. SessionHistory(t)
    BY DEF IInv, HistoryInv
  <2>2. \A u \in Sessions \ {t} : \A o \in own'[t], x \in own'[u] : o.key # x.key
    BY <1>3, <1>4, <2>1 DEF SessionHistory
  <2>3. QED
    BY <1>1, <1>4, <2>1, <2>2 DEF SessionHistory
<1>7. HistoryInv'
  BY <1>1, <1>5, <1>6 DEF IInv, HistoryInv
<1>8. CallInv(s)' /\ RecordedInv(s)'
  BY <1>3 DEF CallInv, RecordedInv
<1>9. \A t \in Sessions \ {s} : CallInv(t)' /\ RecordedInv(t)'
  BY <1>4 DEF IInv, CallInv, RecordedInv
<1>10. QED
  BY <1>2, <1>7, <1>8, <1>9 DEF IInv

\* Every step keeps the invariant.
LEMMA NextIInv == IInv /\ [Next]_vars => IInv'
<1> SUFFICES ASSUME IInv, [Next]_vars PROVE IInv'
  OBVIOUS
<1>1. CASE UNCHANGED vars
  <2>1. \A s \in Sessions : Visible(s)' = Visible(s)
    BY <1>1 DEF vars, Visible
  <2>2. TypeOK'
    BY <1>1 DEF vars, IInv, TypeOK
  <2>3. HistoryInv'
    BY <1>1, <2>1 DEF vars, IInv, HistoryInv, SessionHistory
  <2>4. \A s \in Sessions : CallInv(s)' /\ RecordedInv(s)'
    BY <1>1, <2>1 DEF vars, IInv, CallInv, RecordedInv
  <2>5. QED
    BY <2>2, <2>3, <2>4 DEF IInv
<1>2. ASSUME NEW s \in Sessions,
             \/ Call(s) \/ Read(s) \/ ReadSame(s)
             \/ Insert(s) \/ InsertRejected(s) \/ Exhausted(s) \/ DeadlockAbort(s)
             \/ Commit(s) \/ Rollback(s)
      PROVE  IInv'
  BY <1>2, CallKeeps, ReadKeeps, ReadSameKeeps, InsertKeeps, InsertRejectedKeeps,
     ExhaustedKeeps, CommitKeeps, RollbackKeeps
<1>3. QED
  BY <1>1, <1>2 DEF Next

\* The inductive invariant of record_observation, in any number of sessions.
THEOREM Inductive == Spec => []IInv
<1>1. Init => IInv
  BY InitIInv
<1>2. IInv /\ [Next]_vars => IInv'
  BY NextIInv
<1>3. QED
  BY <1>1, <1>2, PTL DEF Spec

-----------------------------------------------------------------------------
(* What the invariant says of the store.                                   *)

\* ObservationStore.record keeps its state typed: among the rest, a call that a
\* lost race restarts never counts _MAX_REVISION_ATTEMPTS of them.
THEOREM TypeCorrect == Spec => []TypeOK
<1>1. IInv => TypeOK
  BY DEF IInv
<1>2. QED
  BY <1>1, Inductive, PTL

\* The committed revisions are a history too.
LEMMA ContiguousOfIInv == IInv => RevisionsContiguous
<1> SUFFICES ASSUME IInv, NEW s \in Sessions, NEW k \in Keys
             PROVE  /\ {o.revision : o \in Of(Visible(s), k)} = 1 .. Cardinality(Of(Visible(s), k))
                    /\ \A t \in Sessions \ {s} : \A o \in Of(Visible(s), k), x \in Of(own[t], k) :
                         o.revision # x.revision
  BY DEF RevisionsContiguous
<1>1. Visible(s) \in SUBSET Observation /\ SessionHistory(s)
  BY VisibleType DEF IInv, HistoryInv
<1>2. PICK n \in Nat : UpTo(Visible(s), k, n)
  BY <1>1 DEF SessionHistory, Numbered
<1>3. Cardinality(Of(Visible(s), k)) = n
  BY <1>1, <1>2, NumberedCardinality DEF SessionHistory
<1>4. ASSUME NEW t \in Sessions \ {s}, NEW o \in Of(Visible(s), k), NEW x \in Of(own[t], k)
      PROVE  o.revision # x.revision
  <2>1. SessionHistory(t) /\ o.key = k /\ x.key = k /\ o \in Visible(s) /\ x \in own[t]
    BY DEF IInv, HistoryInv, Of
  <2>2. o \in rows /\ o.revision < x.revision
    BY <2>1 DEF SessionHistory, Visible
  <2>3. o.revision \in Nat /\ x.revision \in Nat
    BY <2>1, <2>2 DEF IInv, TypeOK, Observation
  <2>4. QED
    BY <2>2, <2>3
<1>5. QED
  BY <1>2, <1>3, <1>4 DEF UpTo, Revisions

\* What the unique constraint of (natural key, revision) and the re-read of record give
\* together: the revisions of a key, committed or seen by any open transaction, are
\* numbered from 1 without a gap, and no two transactions hold the same one.
THEOREM RevisionsAreContiguous == Spec => []RevisionsContiguous
<1>1. QED
  BY ContiguousOfIInv, Inductive, PTL

\* _same_value compares with the latest revision at the time of the INSERT, however many
\* sessions race.  It compares an input with what the Numeric(20, 8) columns made of the
\* one before: consecutive revisions of a key repeat what the columns hold only if one of
\* the two values has more decimals than they have.
THEOREM RevisionsAreCorrections == Spec => []RevisionsDiffer
<1>1. ASSUME IInv PROVE RevisionsDiffer
  <2> SUFFICES ASSUME NEW s \in Sessions, NEW o \in Visible(s), NEW x \in Visible(s),
                      o.key = x.key, x.revision = o.revision + 1,
                      o.given \in Exact, x.given \in Exact
               PROVE  Held(o) # Held(x)
    BY DEF RevisionsDiffer
  <2>1. Corrects(o, x.given)
    BY <1>1 DEF IInv, HistoryInv, SessionHistory, Differ
  <2>2. Held(o) = o.given /\ Held(x) = x.given
    BY DEF Held, Exact
  <2>3. QED
    BY <2>1, <2>2 DEF Corrects
<1>2. QED
  BY <1>1, Inductive, PTL

\* record returns for an observation, as created or as a duplicate, only when its own
\* transaction holds or sees a row of that key whose columns hold that value.
THEOREM NothingIsSwallowed == Spec => []NothingSwallowed
<1>1. IInv => NothingSwallowed
  BY DEF IInv, RecordedInv, NothingSwallowed
<1>2. QED
  BY <1>1, Inductive, PTL

\* A call of record that has lost n races sees at least n revisions of its key:
\* RevisionRaceExhaustedError takes as many commits of other sessions as attempts.
THEOREM LossesAreRevisions == Spec => []EveryLossIsAnotherRevision
<1>1. IInv => EveryLossIsAnotherRevision
  BY DEF IInv, CallInv, EveryLossIsAnotherRevision
<1>2. QED
  BY <1>1, Inductive, PTL

\* No step changes or removes a committed observation, and what a commit adds of a key
\* comes after every committed revision of it.
THEOREM HistoryOnlyGrows == Spec => AppendOnly
<1> DEFINE Grows ==
      /\ rows \subseteq rows'
      /\ \A o \in rows' \ rows, x \in rows : o.key = x.key => x.revision < o.revision
<1>1. IInv /\ [Next]_vars => [Grows]_vars
  <2> SUFFICES ASSUME IInv, [Next]_vars PROVE Grows
    OBVIOUS
  <2>1. CASE rows' = rows
    BY <2>1
  <2>2. ASSUME NEW s \in Sessions, Commit(s) PROVE Grows
    <3>1. rows' = rows \union own[s]
      BY <2>2 DEF Commit
    <3>2. QED
      BY <3>1 DEF IInv, HistoryInv, SessionHistory
  <2>3. QED
    BY <2>1, <2>2 DEF Next, vars, Call, Read, ReadSame, Insert, InsertRejected, Exhausted,
       DeadlockAbort, Rollback
<1>2. QED
  BY <1>1, Inductive, PTL DEF Spec, AppendOnly
=============================================================================

-------------------------- MODULE ObservationStore --------------------------
(***************************************************************************)
(* ObservationStore.record on PostgreSQL (READ COMMITTED): sessions that   *)
(* append revisions of observations, several per transaction, without      *)
(* locking anything but through the unique constraint on (natural key,     *)
(* revision).                                                              *)
(*                                                                         *)
(* record reads the current revision and inserts the next one within a     *)
(* SAVEPOINT.  The INSERT waits for another transaction that has inserted  *)
(* the same revision and is still open; it fails if that one commits, and  *)
(* record reads again.  A deadlock between such waits makes the INSERT of  *)
(* one session fail with another error: its SAVEPOINT is rolled back, its  *)
(* transaction goes on, and the job that called record fails.              *)
(*                                                                         *)
(* An observation is its natural key, its revision and the value its       *)
(* INSERT was given, which stands for all the fields _same_value compares. *)
(* The columns are Numeric(20, 8): they hold what the value is rounded to, *)
(* and _same_value compares that with a value that is not.                 *)
(***************************************************************************)
EXTENDS Integers, FiniteSets

CONSTANTS
  Sessions,     \* database sessions that record observations
  Keys,         \* natural keys
  Values,       \* what the fields of an input may be
  Stored,       \* Stored[v]: what the columns of the table hold for v
  NoValue,      \* no observation
  MaxAttempts,  \* _MAX_REVISION_ATTEMPTS
  MaxRevision,  \* MaxRevision[k]: bound on the revisions of key k
  MaxRecords    \* bound on the calls of record in one transaction

ASSUME StoreAssumption ==
  /\ NoValue \notin Values
  /\ Stored \in [Values -> Values]
  /\ \A v \in Values : Stored[Stored[v]] = Stored[v]
  /\ MaxAttempts \in Nat \ {0}
  /\ MaxRevision \in [Keys -> Nat]
  /\ MaxRecords \in Nat

VARIABLES
  rows,     \* the committed observations
  own,      \* own[s]: observations session s has inserted and not committed
  pc,       \* pc[s]: where s is in record
  data,     \* data[s]: the observation record was called with
  current,  \* current[s]: what _current_revision returned last
  attempt,  \* attempt[s]: how many INSERTs of this call have failed
  recorded  \* history: the inputs record returned for in this transaction

vars == <<rows, own, pc, data, current, attempt, recorded>>

-----------------------------------------------------------------------------
Input == [key : Keys, value : Values]
Observation == [key : Keys, revision : Nat \ {0}, given : Values]

\* What the columns of an observation hold, and the values they hold as they are.
Held(o) == Stored[o.given]
Exact == {v \in Values : Stored[v] = v}

\* The result of _current_revision: revision 0 stands for None.
Current == [revision : Nat, given : Values \union {NoValue}]
None == [revision |-> 0, given |-> NoValue]

NoInput == [key |-> NoValue, value |-> NoValue]

TypeOK ==
  /\ rows \subseteq Observation
  /\ own \in [Sessions -> SUBSET Observation]
  /\ pc \in [Sessions -> {"idle", "read", "insert"}]
  /\ data \in [Sessions -> Input \union {NoInput}]
  /\ current \in [Sessions -> Current]
  /\ attempt \in [Sessions -> 0 .. MaxAttempts - 1]
  /\ recorded \in [Sessions -> SUBSET Input]

Init ==
  /\ rows = {}
  /\ own = [s \in Sessions |-> {}]
  /\ pc = [s \in Sessions |-> "idle"]
  /\ data = [s \in Sessions |-> NoInput]
  /\ current = [s \in Sessions |-> None]
  /\ attempt = [s \in Sessions |-> 0]
  /\ recorded = [s \in Sessions |-> {}]

-----------------------------------------------------------------------------
\* What the statements of session s see.
Visible(s) == rows \union own[s]

\* The revisions of key k in a set of observations, and the highest one.
Of(S, k) == {o \in S : o.key = k}

CurrentRevision(S, k) ==
  IF Of(S, k) = {} THEN None
  ELSE LET o == CHOOSE o \in Of(S, k) : \A x \in Of(S, k) : x.revision <= o.revision
       IN  [revision |-> o.revision, given |-> o.given]

Has(S, k, n) == \E o \in S : o.key = k /\ o.revision = n

\* The values the Observation object of the row that s found may have: those of the
\* columns, or still those it was created with if s has inserted the row itself.
Loaded(s, found) ==
  IF found = None THEN {NoValue}
  ELSE {Held(found)} \union
       {v \in {found.given} : Has(own[s], data[s].key, found.revision)}

\* The row the next INSERT of s adds.
Candidate(s) ==
  [key |-> data[s].key, revision |-> current[s].revision + 1, given |-> data[s].value]

\* The open transactions that have inserted the candidate's key and revision.
Rivals(s) ==
  {t \in Sessions \ {s} : Has(own[t], Candidate(s).key, Candidate(s).revision)}

\* The call of record is over.
Return(s) ==
  /\ pc' = [pc EXCEPT ![s] = "idle"]
  /\ data' = [data EXCEPT ![s] = NoInput]
  /\ current' = [current EXCEPT ![s] = None]
  /\ attempt' = [attempt EXCEPT ![s] = 0]

-----------------------------------------------------------------------------
\* Some caller's record(data); the first attempt starts.
Call(s) ==
  /\ pc[s] = "idle" /\ Cardinality(recorded[s]) < MaxRecords
  /\ data' \in {[data EXCEPT ![s] = input] : input \in Input}
  /\ pc' = [pc EXCEPT ![s] = "read"]
  /\ UNCHANGED <<rows, own, current, attempt, recorded>>

\* _current_revision finds a value that differs, or none.
Read(s) ==
  LET found == CurrentRevision(Visible(s), data[s].key)
  IN  /\ pc[s] = "read"
      /\ \E value \in Loaded(s, found) : value # data[s].value
      /\ found.revision < MaxRevision[data[s].key]
      /\ current' = [current EXCEPT ![s] = found]
      /\ pc' = [pc EXCEPT ![s] = "insert"]
      /\ UNCHANGED <<rows, own, data, attempt, recorded>>

\* _current_revision finds the same value: an idempotent retry.
ReadSame(s) ==
  /\ pc[s] = "read"
  /\ data[s].value \in Loaded(s, CurrentRevision(Visible(s), data[s].key))
  /\ recorded' = [recorded EXCEPT ![s] = @ \union {data[s]}]
  /\ Return(s)
  /\ UNCHANGED <<rows, own>>

\* Deliberate bug: the revision need not be free (no unique constraint).
InsertUnchecked(s) ==
  /\ pc[s] = "insert"
  /\ own' = [own EXCEPT ![s] = @ \union {Candidate(s)}]
  /\ recorded' = [recorded EXCEPT ![s] = @ \union {data[s]}]
  /\ Return(s)
  /\ UNCHANGED rows

\* The INSERT: nobody has this revision.
Insert(s) ==
  /\ pc[s] = "insert"
  /\ Rivals(s) = {}
  /\ ~Has(Visible(s), data[s].key, Candidate(s).revision)
  /\ own' = [own EXCEPT ![s] = @ \union {Candidate(s)}]
  /\ recorded' = [recorded EXCEPT ![s] = @ \union {data[s]}]
  /\ Return(s)
  /\ UNCHANGED rows

\* Deliberate bugs: a lost race is taken for a duplicate; the next attempt does
\* not read again, or just takes the next number; the attempts are not counted.
InsertRejectedAsDuplicate(s) ==
  /\ pc[s] = "insert"
  /\ Rivals(s) = {}
  /\ Has(Visible(s), data[s].key, Candidate(s).revision)
  /\ recorded' = [recorded EXCEPT ![s] = @ \union {data[s]}]
  /\ Return(s)
  /\ UNCHANGED <<rows, own>>
InsertRejectedNoReread(s) ==
  /\ pc[s] = "insert"
  /\ Rivals(s) = {}
  /\ Has(Visible(s), data[s].key, Candidate(s).revision)
  /\ attempt[s] + 1 < MaxAttempts
  /\ attempt' = [attempt EXCEPT ![s] = @ + 1]
  /\ UNCHANGED <<rows, own, pc, data, current, recorded>>
InsertRejectedNextRevision(s) ==
  /\ pc[s] = "insert"
  /\ Rivals(s) = {}
  /\ Has(Visible(s), data[s].key, Candidate(s).revision)
  /\ attempt[s] + 1 < MaxAttempts
  /\ attempt' = [attempt EXCEPT ![s] = @ + 1]
  /\ current' = [current EXCEPT ![s].revision = @ + 1]
  /\ UNCHANGED <<rows, own, pc, data, recorded>>

InsertRejectedUncounted(s) ==
  /\ pc[s] = "insert"
  /\ Rivals(s) = {}
  /\ Has(Visible(s), data[s].key, Candidate(s).revision)
  /\ attempt' = [attempt EXCEPT ![s] = @ + 1]
  /\ pc' = [pc EXCEPT ![s] = "read"]
  /\ UNCHANGED <<rows, own, data, current, recorded>>

\* IntegrityError: the race is lost, and the next attempt starts.
InsertRejected(s) ==
  /\ pc[s] = "insert"
  /\ Rivals(s) = {}
  /\ Has(Visible(s), data[s].key, Candidate(s).revision)
  /\ attempt[s] + 1 < MaxAttempts
  /\ attempt' = [attempt EXCEPT ![s] = @ + 1]
  /\ pc' = [pc EXCEPT ![s] = "read"]
  /\ UNCHANGED <<rows, own, data, current, recorded>>

\* The attempts are used up: RevisionRaceExhaustedError.
Exhausted(s) ==
  /\ pc[s] = "insert"
  /\ Rivals(s) = {}
  /\ Has(Visible(s), data[s].key, Candidate(s).revision)
  /\ attempt[s] + 1 = MaxAttempts
  /\ Return(s)
  /\ UNCHANGED <<rows, own, recorded>>

\* The database breaks a circle of INSERTs that wait for each other.
Deadlocked(s) ==
  \E circle \in SUBSET Sessions :
    /\ s \in circle
    /\ \A t \in circle : pc[t] = "insert"
    /\ UNION {Rivals(t) : t \in circle} = circle

DeadlockAbort(s) ==
  /\ Deadlocked(s)
  /\ Return(s)
  /\ UNCHANGED <<rows, own, recorded>>

\* The transaction of the caller ends.
EndTransaction(s) ==
  /\ own' = [own EXCEPT ![s] = {}]
  /\ recorded' = [recorded EXCEPT ![s] = {}]

Commit(s) ==
  /\ pc[s] = "idle"
  /\ recorded[s] # {} \/ own[s] # {}
  /\ rows' = rows \union own[s]
  /\ EndTransaction(s)
  /\ UNCHANGED <<pc, data, current, attempt>>

\* The caller's batch fails, or its process dies, in record or between calls.
Rollback(s) ==
  /\ EndTransaction(s)
  /\ Return(s)
  /\ UNCHANGED rows

Next ==
  \E s \in Sessions :
    \/ Call(s) \/ Read(s) \/ ReadSame(s)
    \/ Insert(s) \/ InsertRejected(s) \/ Exhausted(s) \/ DeadlockAbort(s)
    \/ Commit(s) \/ Rollback(s)

Spec == Init /\ [][Next]_vars

-----------------------------------------------------------------------------
(* Properties.                                                             *)

\* "exact uniqueness": no two observations of a key share a revision, whichever
\* open transactions commit, and each session sees the revisions of a key
\* numbered from 1 without a gap.
RevisionsContiguous ==
  \A s \in Sessions, k \in Keys :
    LET seen == Of(Visible(s), k)
    IN  /\ {o.revision : o \in seen} = 1 .. Cardinality(seen)
        /\ \A t \in Sessions \ {s} : \A o \in seen, x \in Of(own[t], k) :
             o.revision # x.revision

\* "exact idempotency": the columns of a revision differ from those of the one
\* before it, so that neither a retry nor a race between equal writes adds a row,
\* if the columns hold both values exactly: a value with more decimals than they
\* have is stored again every time it is received.
RevisionsDiffer ==
  \A s \in Sessions : \A o, x \in Visible(s) :
    o.key = x.key /\ x.revision = o.revision + 1 =>
      Held(o) # Held(x) \/ ~({o.given, x.given} \subseteq Exact)

\* Whatever record has returned for, as created or as a duplicate, is in the columns
\* of a row that a commit of the transaction makes durable: no correction is swallowed.
NothingSwallowed ==
  \A s \in Sessions : \A input \in recorded[s] :
    \E o \in Visible(s) : o.key = input.key /\ Held(o) = Stored[input.value]

\* Contention alone uses attempts up: a call that has lost n races has seen n
\* revisions of others, so RevisionRaceExhaustedError takes MaxAttempts of them.
EveryLossIsAnotherRevision ==
  \A s \in Sessions : pc[s] # "idle" =>
    CurrentRevision(Visible(s), data[s].key).revision >= attempt[s]

\* The history only grows, and its last revision of a key is what the commits
\* made it: a commit changes no committed row and skips no revision.
AppendOnly ==
  [][/\ rows \subseteq rows'
     /\ \A o \in rows' \ rows, x \in rows :
          o.key = x.key => x.revision < o.revision]_vars
=============================================================================

--------------------------- MODULE ObservationView ---------------------------
(***************************************************************************)
(* What the consumer API answers for one listing and observation type: the *)
(* value of the latest session, of a range, and the data status.  A        *)
(* request runs many statements, each on what is committed at that moment: *)
(* it reads the observations of a day, then each capability of each        *)
(* source, then the attribution, and goes on to the next day.  Meanwhile   *)
(* reviewers commit decisions and workers commit revisions.                *)
(*                                                                         *)
(* A decision is the effective status of a capability (PolicyGate has the  *)
(* versions behind it); a row has the next revision of its key             *)
(* (ObservationStore has how it gets it).  A request keeps nothing for the  *)
(* next one, so a behaviour is one request.                                *)
(***************************************************************************)
EXTENDS Integers, Sequences, FiniteSets, FiniteSetsExt, SequencesExt

CONSTANTS
  Sources,         \* every source with decisions or observations
  EnabledSources,  \* settings.enabled_sources, in order of priority
  Scopes,          \* credential scopes
  Closes,          \* values of close
  Days,            \* the days with observations and the days asked for
  Today,           \* date.today()
  Lookback,        \* _LATEST_LOOKBACK_DAYS
  MaxRangeDays,    \* _MAX_RANGE_DAYS
  Expectation,     \* Expectation[d]: what the calendar says of day d
  InitialRows,     \* contents of the table when the requests begin
  InitialPolicies, \* sets of approved capabilities, as pairs with their source
  Decisions,       \* the capabilities decided during a request, with their source
  Revisions,       \* the values recorded during a request, with their key
  MaxChanges,      \* bound on the decisions and revisions during a request
  None             \* no value

Publication == <<"STORE", "DISPLAY", "REDISTRIBUTE">>
Capability == ToSet(Publication) \union {"ATTRIBUTE"}

ASSUME ViewAssumption ==
  /\ EnabledSources \in Seq(Sources)
  /\ Days \subseteq Int /\ Today \in Days
  /\ Today - Lookback .. Today \subseteq Days /\ \A d, e \in Days : d .. e \subseteq Days
  /\ Expectation \in [Days -> {"EXPECTED_PUBLISHED", "NO_SESSION", "WAITING_FOR_PUBLICATION"}]
  /\ Lookback \in Nat /\ MaxRangeDays \in Nat /\ MaxChanges \in Nat
  /\ Decisions \subseteq Sources \X Capability
  /\ Revisions \subseteq [source : Sources, scope : Scopes, day : Days, close : Closes]

VARIABLES
  rows,       \* the observations
  approved,   \* the approved capabilities, as pairs of a source and a capability
  changes,    \* decisions and revisions committed during the request
  kind,       \* the endpoint of the current request
  step,       \* what the request does next
  days,       \* days it has yet to build an answer for
  pending,    \* rows, or for the status sources, whose policy it has yet to read
  current,    \* the one whose policy it reads, or None
  passed,     \* capabilities of it that it has found approved
  candidates, \* the rows, or sources, found publishable
  answers,    \* the ObservationOut objects built so far
  lastDate,   \* last_effective_date
  before,     \* history: the rows when the request began
  seen,       \* history: capabilities approved at some instant of the request
  steady      \* history: capabilities approved at every instant of it

reqVars == <<kind, step, days, pending, current, passed, candidates, answers, lastDate>>
envVars == <<rows, approved, changes, before, seen, steady>>
vars == <<reqVars, envVars>>

-----------------------------------------------------------------------------
Row == [source : Sources, scope : Scopes, day : Days, revision : Nat, close : Closes,
        retrieved_at : Nat]

ASSUME InitialAssumption ==
  /\ None \notin Sources \union Row \union Days
  /\ \A S \in InitialRows : S \subseteq Row /\ IsFiniteSet(S)
  /\ \A S \in InitialPolicies : S \subseteq Sources \X Capability

SameKey(r, q) == r.source = q.source /\ r.scope = q.scope /\ r.day = q.day

\* Deliberate bug: the expectation is passed on as it is.
AvailabilityUnmapped(d) == Expectation[d]

\* _AVAILABILITY_BY_EXPECTATION
Availability(d) ==
  CASE Expectation[d] = "EXPECTED_PUBLISHED" -> "UNAVAILABLE"
    [] OTHER -> Expectation[d]

ObservationOut ==
  [day : Int, availability : {"OK", "NO_SESSION", "WAITING_FOR_PUBLICATION", "UNAVAILABLE"},
   value : Row \union {None}, discrepancy : BOOLEAN, attribution : BOOLEAN]

Missing(d) ==
  [day |-> d, availability |-> Availability(d), value |-> None, discrepancy |-> FALSE,
   attribution |-> FALSE]

TypeOK ==
  /\ rows \subseteq Row
  /\ approved \subseteq Sources \X Capability
  /\ changes \in 0 .. MaxChanges
  /\ kind \in {"none", "latest", "range", "status"}
  /\ step \in {"idle", "date", "read", "check", "attribute", "answered"}
  /\ days \in Seq(Int)
  /\ pending \subseteq rows \union Sources
  /\ current \in pending \union {None}
  /\ passed \in 0 .. Len(Publication) - 1 /\ (passed > 0 => current # None)
  /\ candidates \subseteq rows \union Sources
  /\ answers \in Seq(ObservationOut)
  /\ \A i \in DOMAIN answers : answers[i].availability = "OK" <=> answers[i].value \in rows
  /\ lastDate \in Days \union {None}
  /\ before \subseteq rows
  /\ steady \subseteq seen /\ seen \subseteq Sources \X Capability

Idle ==
  /\ kind = "none" /\ step = "idle" /\ days = <<>> /\ pending = {} /\ current = None
  /\ passed = 0 /\ candidates = {} /\ answers = <<>> /\ lastDate = None

Init ==
  /\ rows \in InitialRows /\ approved \in InitialPolicies
  /\ changes = 0 /\ before = rows /\ seen = approved /\ steady = approved
  /\ Idle

-----------------------------------------------------------------------------
(* The request.                                                            *)

\* find_latest_observation: from today back, and today again if nothing is found.
Window == [i \in 1 .. Lookback + 2 |-> IF i = Lookback + 2 THEN Today ELSE Today - (i - 1)]

Begin(k, order) ==
  /\ step = "idle"
  /\ kind' = k /\ days' = order
  /\ IF k = "status" THEN step' = "date" /\ pending' = ToSet(EnabledSources)
     ELSE step' = "read" /\ pending' = {}
  /\ UNCHANGED <<envVars, current, passed, candidates, answers, lastDate>>

Latest == Begin("latest", Window)

Status == Begin("status", Window)

\* A range that is inverted or too long is answered with 422.
Range_ ==
  \E start, end \in Days :
    /\ start <= end /\ end - start <= MaxRangeDays
    /\ Begin("range", [i \in 1 .. end - start + 1 |-> start + i - 1])

\* Deliberate bug: any revision of a key will do.
CurrentRowsAny(d) ==
  {r \in rows : r.day = d /\ \A q \in rows : SameKey(r, q) => q.revision >= r.revision}

\* The current revision of every key of the day.
CurrentRows(d) ==
  {r \in rows : r.day = d /\ \A q \in rows : SameKey(r, q) => q.revision <= r.revision}

ReadRows ==
  /\ step = "read"
  /\ pending' = CurrentRows(Head(days))
  /\ candidates' = {}
  /\ step' = "check"
  /\ UNCHANGED <<kind, days, current, passed, answers, lastDate, envVars>>

SourceOf(x) == IF step = "date" THEN x ELSE x.source

\* Of two scopes of a source the one retrieved later is kept; of equals, the first.
Preferred(S, x) ==
  IF step = "date" THEN S \union {x}
  ELSE LET rivals == {r \in S : r.source = x.source}
       IN  IF \A r \in rivals : x.retrieved_at > r.retrieved_at
             THEN (S \ rivals) \union {x} ELSE S

\* Deliberate bug: the first capability decides.
ReadCapabilityOnce ==
  /\ step \in {"check", "date"} /\ pending # {}
  /\ \E x \in pending :
       /\ pending' = pending \ {x}
       /\ candidates' = IF <<SourceOf(x), "STORE">> \in approved
                          THEN Preferred(candidates, x) ELSE candidates
  /\ UNCHANGED <<kind, step, days, current, passed, answers, lastDate, envVars>>

\* The enabled sources are taken in their order, the rows as the SELECT returned them.
NextToRead ==
  IF current # None THEN {current}
  ELSE IF step = "date"
         THEN {EnabledSources[Min({i \in DOMAIN EnabledSources : EnabledSources[i] \in pending})]}
       ELSE pending

\* is_publication_authorized, one SELECT; all() stops at the first that is missing.
ReadCapability ==
  /\ step \in {"check", "date"} /\ pending # {}
  /\ \E x \in NextToRead :
       LET ok == <<SourceOf(x), Publication[passed + 1]>> \in approved
           more == ok /\ passed + 1 < Len(Publication)
       IN  /\ current' = IF more THEN x ELSE None
           /\ passed' = IF more THEN passed + 1 ELSE 0
           /\ pending' = IF more THEN pending ELSE pending \ {x}
           /\ candidates' = IF ok /\ ~more THEN Preferred(candidates, x) ELSE candidates
  /\ UNCHANGED <<kind, step, days, answers, lastDate, envVars>>

\* The enabled source at a place of the settings that an operator picks.
ChosenBy(S, Pick(_)) ==
  LET found == Pick({i \in DOMAIN EnabledSources : \E r \in S : r.source = EnabledSources[i]})
  IN  CHOOSE r \in S : r.source = EnabledSources[found]

\* Deliberate bug: the last enabled source wins.
ChosenLast(S) == ChosenBy(S, Max)

\* The first enabled source that is among the candidates.
Chosen(S) == ChosenBy(S, Min)

Eligible(S) == \E r \in S : r.source \in ToSet(EnabledSources)

\* The answer for a day; the search for the latest session ends with the first value.
Answered(out) ==
  /\ answers' = Append(answers, out)
  /\ days' = Tail(days)
  /\ step' = IF Len(days) = 1 \/ (kind # "range" /\ out.value # None)
               THEN "answered" ELSE "read"
  /\ pending' = {} /\ candidates' = {}

NoEligible ==
  /\ step = "check" /\ pending = {} /\ ~Eligible(candidates)
  /\ Answered(Missing(Head(days)))
  /\ UNCHANGED <<kind, current, passed, lastDate, envVars>>

Select ==
  /\ step = "check" /\ pending = {} /\ Eligible(candidates)
  /\ step' = "attribute"
  /\ UNCHANGED <<kind, days, pending, current, passed, candidates, answers, lastDate, envVars>>

\* requires_attribution, and the ObservationOut.  The alternatives are all the other
\* candidates, whether their sources are enabled or not.
ReadAttribution ==
  /\ step = "attribute"
  /\ LET r == Chosen(candidates)
     IN  Answered([day |-> Head(days), availability |-> "OK", value |-> r,
                   discrepancy |-> \E q \in candidates : q.close # r.close,
                   attribution |-> <<r.source, "ATTRIBUTE">> \in approved])
  /\ UNCHANGED <<kind, current, passed, lastDate, envVars>>

\* Deliberate bug: the date of any stored observation.
ReadMaxDateOfAll ==
  /\ step = "date" /\ pending = {}
  /\ lastDate' = LET found == {r.day : r \in rows}
                 IN  IF found = {} THEN None ELSE Max(found)
  /\ step' = "read" /\ candidates' = {}
  /\ UNCHANGED <<kind, days, pending, current, passed, answers, envVars>>

\* latest_publishable_session_date, its last statement.
ReadMaxDate ==
  /\ step = "date" /\ pending = {}
  /\ lastDate' = LET found == {r.day : r \in {q \in rows : q.source \in candidates}}
                 IN  IF found = {} THEN None ELSE Max(found)
  /\ step' = "read" /\ candidates' = {}
  /\ UNCHANGED <<kind, days, pending, current, passed, answers, envVars>>

-----------------------------------------------------------------------------
(* The environment.                                                        *)

InRequest == step \notin {"idle", "answered"} /\ changes < MaxChanges

\* A reviewer commits a decision on a capability.
Decide(pair) ==
  /\ InRequest
  /\ approved' = (approved \ {pair}) \union ({pair} \ approved)
  /\ changes' = changes + 1
  /\ seen' = seen \union approved' /\ steady' = steady \intersect approved'
  /\ UNCHANGED <<reqVars, rows, before>>

\* A worker commits the next revision of a key; retrieved_at orders the rows.
Record(new) ==
  /\ InRequest
  /\ LET key == {r \in rows : SameKey(r, new)}
     IN  /\ \A r \in key : r.revision = Cardinality(key) => r.close # new.close
         /\ rows' = rows \union
              {[source |-> new.source, scope |-> new.scope, day |-> new.day,
                close |-> new.close, revision |-> Cardinality(key) + 1,
                retrieved_at |-> 1 + Max({0} \union {r.retrieved_at : r \in rows})]}
  /\ changes' = changes + 1
  /\ UNCHANGED <<reqVars, approved, before, seen, steady>>

Next ==
  \/ Latest \/ Status \/ Range_
  \/ ReadRows \/ ReadCapability \/ NoEligible \/ Select \/ ReadAttribution
  \/ ReadMaxDate
  \/ \E pair \in Decisions : Decide(pair)
  \/ \E new \in Revisions : Record(new)

Spec == Init /\ [][Next]_vars

-----------------------------------------------------------------------------
(* Properties.                                                             *)

\* "a policy revocation is reflected immediately": a value is given only if each of
\* STORE, DISPLAY and REDISTRIBUTE of its source was approved at some instant of the
\* request, and the status never dates an observation no such source has.
PublishedWasAuthorized ==
  LET Publishable == {s \in Sources : \A n \in DOMAIN Publication : <<s, Publication[n]>> \in seen}
  IN  /\ \A i \in DOMAIN answers :
           answers[i].value # None => answers[i].value.source \in Publishable
      /\ lastDate # None => \E r \in rows : r.day = lastDate /\ r.source \in Publishable

\* A value is never an older revision than the one that was current when the request
\* began, however many days and statements came in between.
CurrentRevision ==
  \A i \in DOMAIN answers : answers[i].value # None =>
    \A r \in before : SameKey(r, answers[i].value) => r.revision <= answers[i].value.revision

\* Deterministic priority: if an enabled source had an observation of a day when the
\* request began and was publishable throughout, then the answer for that day is its
\* value, or that of a source before it.  So a missing value, or an older session,
\* is never the effect of an unrelated decision or revision that was committed.
Steady(n) == \A c \in ToSet(Publication) : <<EnabledSources[n], c>> \in steady

PriorityKept ==
  \A i \in DOMAIN answers, n \in DOMAIN EnabledSources :
    Steady(n) /\ (\E r \in before : r.day = answers[i].day /\ r.source = EnabledSources[n]) =>
      \E m \in 1 .. n : answers[i].value # None /\ answers[i].value.source = EnabledSources[m]

\* The two halves of the data status, which search in different ways, agree if nothing
\* is committed meanwhile: a value is reported if and only if some publishable session
\* is in the window of the search, and the date is at least as late as that session.
StatusAgrees ==
  step = "answered" /\ kind = "status" /\ changes = 0 =>
    LET out == Last(answers)
        Dates == {r.day : r \in {q \in rows : \E n \in DOMAIN EnabledSources :
                                   q.source = EnabledSources[n] /\ Steady(n)}}
    IN  /\ out.value # None <=> Dates \intersect (Today - Lookback .. Today) # {}
        /\ lastDate = None <=> Dates = {}
        /\ out.value # None => lastDate >= out.day

=============================================================================

------------------------ MODULE ObservationViewProofs ------------------------
(***************************************************************************)
(* Proofs about ObservationView, for any sources, settings, calendar,      *)
(* contents of the tables and number of changes during the request.  What  *)
(* a request holds between its statements, the rows or sources it has yet  *)
(* to check, the capabilities passed and the candidates, is tied to what   *)
(* was committed when the request began and to what was effective since.   *)
(***************************************************************************)
EXTENDS ObservationView, OrderLemmas

-----------------------------------------------------------------------------
(* The inductive invariant.                                                *)

Publishable(s) == \A n \in DOMAIN Publication : <<s, Publication[n]>> \in seen

\* The n-th enabled source had an observation of day d when the request began.
Had(n, d) == \E r \in before : r.day = d /\ r.source = EnabledSources[n]

NotOutdated(x) == \A r \in before : SameKey(r, x) => r.revision <= x.revision

\* The sessions that the data status is about, if nothing changes.
StatusDates ==
  {r.day : r \in {q \in rows : \E n \in DOMAIN EnabledSources :
                    q.source = EnabledSources[n] /\ Steady(n)}}

Shape ==
  /\ rows \subseteq Row /\ IsFiniteSet(rows)
  /\ changes \in 0 .. MaxChanges
  /\ kind \in {"none", "latest", "range", "status"}
  /\ step \in {"idle", "date", "read", "check", "attribute", "answered"}
  /\ days \in Seq(Days)
  /\ passed \in 0 .. Len(Publication) - 1
  /\ answers \in Seq(ObservationOut)
  /\ lastDate \in Days \union {None}

HistoryInv ==
  /\ before \subseteq rows
  /\ steady \subseteq approved /\ approved \subseteq seen
  /\ seen \subseteq Sources \X Capability
  /\ changes = 0 => before = rows /\ steady = seen

\* Between two of its phases a request holds nothing but the days and the answers.
PhaseInv ==
  /\ step = "idle" => kind = "none" /\ answers = <<>> /\ lastDate = None
  /\ step # "idle" => kind # "none"
  /\ step = "date" => kind = "status" /\ answers = <<>> /\ lastDate = None
  /\ step \in {"date", "read", "check", "attribute"} => days # <<>>
  /\ step \in {"idle", "read", "attribute", "answered"} => pending = {}
  /\ step \in {"idle", "read", "answered"} => candidates = {}
  /\ current \in pending \union {None}
  /\ passed > 0 => current # None

PassedInv ==
  current # None => \A i \in 1 .. passed : <<SourceOf(current), Publication[i]>> \in seen

\* The sources of the data status.
SourcesInv ==
  step = "date" =>
    /\ pending \subseteq ToSet(EnabledSources) /\ candidates \subseteq ToSet(EnabledSources)
    /\ \A s \in candidates : Publishable(s)
    /\ \A n \in DOMAIN EnabledSources : Steady(n) => EnabledSources[n] \in pending \union candidates

\* The rows of the day in turn.
RowsInv ==
  step \in {"check", "attribute"} =>
    /\ \A x \in pending \union candidates : x \in rows /\ x.day = Head(days) /\ NotOutdated(x)
    /\ \A x \in candidates : Publishable(x.source)
    /\ \A n \in DOMAIN EnabledSources : Steady(n) /\ Had(n, Head(days)) =>
         \E x \in pending \union candidates : x.source = EnabledSources[n]
    /\ step = "attribute" => Eligible(candidates)

AnswerInv(out) ==
  /\ out.availability = "OK" <=> out.value # None
  /\ out.value # None =>
       /\ out.value \in rows /\ out.value.day = out.day /\ NotOutdated(out.value)
       /\ Publishable(out.value.source) /\ out.value.source \in ToSet(EnabledSources)
  /\ \A n \in DOMAIN EnabledSources : Steady(n) /\ Had(n, out.day) =>
       \E m \in 1 .. n : out.value # None /\ out.value.source = EnabledSources[m]

DateInv ==
  /\ lastDate # None => \E r \in rows : r.day = lastDate /\ Publishable(r.source)
  /\ kind = "status" /\ step # "date" /\ changes = 0 =>
       /\ lastDate = None <=> StatusDates = {}
       /\ lastDate # None => \A d \in StatusDates : d <= lastDate

\* The search for the latest value goes through the window until it finds one.
SearchInv ==
  kind \in {"latest", "status"} =>
    /\ Len(answers) + Len(days) = Lookback + 2
    /\ \A i \in DOMAIN days : days[i] = Window[Len(answers) + i]
    /\ \A i \in DOMAIN answers : answers[i].day = Window[i]
    /\ \A i \in DOMAIN answers : i < Len(answers) \/ step # "answered" => answers[i].value = None
    /\ step = "answered" =>
         answers # <<>> /\ (days = <<>> \/ answers[Len(answers)].value # None)

IInv ==
  /\ Shape /\ HistoryInv /\ PhaseInv /\ PassedInv /\ SourcesInv /\ RowsInv
  /\ \A i \in DOMAIN answers : AnswerInv(answers[i])
  /\ DateInv /\ SearchInv

-----------------------------------------------------------------------------
(* Constants.                                                              *)

\* The capabilities a publication needs.
LEMMA PublicationIs ==
  /\ Len(Publication) = 3 /\ DOMAIN Publication = 1 .. 3
  /\ ToSet(Publication) = {Publication[n] : n \in 1 .. 3}
<1>1. Len(Publication) = 3 /\ DOMAIN Publication = 1 .. 3
  BY DEF Publication
<1>2. QED
  BY <1>1 DEF ToSet

\* The enabled sources are a sequence of sources.
LEMMA EnabledType ==
  /\ EnabledSources \in Seq(Sources)
  /\ Len(EnabledSources) \in Nat /\ DOMAIN EnabledSources = 1 .. Len(EnabledSources)
  /\ \A n \in DOMAIN EnabledSources : EnabledSources[n] \in Sources
  /\ ToSet(EnabledSources) \subseteq Sources
  /\ \A s : s \in ToSet(EnabledSources) <=> \E n \in DOMAIN EnabledSources : s = EnabledSources[n]
<1>1. EnabledSources \in Seq(Sources)
  BY ViewAssumption
<1>2. \A n \in DOMAIN EnabledSources : EnabledSources[n] \in Sources
  BY <1>1
<1>3. \A s : s \in ToSet(EnabledSources) <=> \E n \in DOMAIN EnabledSources : s = EnabledSources[n]
  BY DEF ToSet
<1>4. QED
  BY <1>1, <1>2, <1>3

\* The window of a latest or status request is the look-back, newest first.
LEMMA WindowType ==
  /\ Window \in Seq(Days) /\ Len(Window) = Lookback + 2 /\ DOMAIN Window = 1 .. (Lookback + 2)
  /\ \A i \in DOMAIN Window : Window[i] \in Today - Lookback .. Today
  /\ \A d \in Today - Lookback .. Today : \E i \in 1 .. (Lookback + 1) : Window[i] = d
<1>1. Lookback \in Nat /\ Today \in Int /\ Today - Lookback .. Today \subseteq Days
  BY ViewAssumption
<1>2. \A i \in 1 .. (Lookback + 2) : Window[i] = IF i = Lookback + 2 THEN Today ELSE Today - (i - 1)
  BY DEF Window
<1>3. \A i \in 1 .. (Lookback + 2) : Window[i] \in Today - Lookback .. Today
  BY <1>1, <1>2
<1>4. Window \in [1 .. (Lookback + 2) -> Days]
  BY <1>1, <1>3 DEF Window
<1>5. Window \in Seq(Days) /\ Len(Window) = Lookback + 2 /\ DOMAIN Window = 1 .. (Lookback + 2)
  BY <1>1, <1>4
<1>6. ASSUME NEW d \in Today - Lookback .. Today PROVE \E i \in 1 .. (Lookback + 1) : Window[i] = d
  <2>1. Today - d + 1 \in 1 .. (Lookback + 1) /\ Today - d + 1 \in 1 .. (Lookback + 2)
    BY <1>1
  <2>2. Window[Today - d + 1] = d
    BY <1>1, <1>2, <2>1
  <2>3. QED
    BY <2>1, <2>2
<1>7. QED
  BY <1>3, <1>5, <1>6

\* Three capabilities approved throughout are approved now and then.
LEMMA SteadyIs ==
  ASSUME IInv, NEW n \in DOMAIN EnabledSources, Steady(n)
  PROVE  /\ \A i \in 1 .. 3 : <<EnabledSources[n], Publication[i]>> \in approved
         /\ Publishable(EnabledSources[n])
<1>1. \A i \in 1 .. 3 : <<EnabledSources[n], Publication[i]>> \in steady
  BY PublicationIs DEF Steady
<1>2. QED
  BY <1>1, PublicationIs DEF IInv, HistoryInv, Publishable

\* If nothing changes, a source that was publishable for a moment is so throughout.
LEMMA PublishableIsSteady ==
  ASSUME IInv, changes = 0, NEW n \in DOMAIN EnabledSources, Publishable(EnabledSources[n])
  PROVE  Steady(n)
BY PublicationIs DEF IInv, HistoryInv, Publishable, Steady

-----------------------------------------------------------------------------
\* Initially no request is served and nothing was seen.
LEMMA InitIInv == Init => IInv
<1> SUFFICES ASSUME Init PROVE IInv
  OBVIOUS
<1>1. rows \in InitialRows /\ approved \in InitialPolicies
  BY DEF Init
<1>2. Shape
  BY <1>1, InitialAssumption, ViewAssumption, PublicationIs DEF Init, Idle, Shape
<1>3. HistoryInv
  BY <1>1, InitialAssumption DEF Init, HistoryInv
<1>4. PhaseInv /\ PassedInv /\ SourcesInv /\ RowsInv /\ DateInv /\ SearchInv
  BY DEF Init, Idle, PhaseInv, PassedInv, SourcesInv, RowsInv, DateInv, SearchInv
<1>5. \A i \in DOMAIN answers : AnswerInv(answers[i])
  BY DEF Init, Idle
<1>6. QED
  BY <1>2, <1>3, <1>4, <1>5 DEF IInv

\* A request begins with nothing read.
LEMMA BeginKeeps ==
  ASSUME IInv, NEW k \in {"latest", "range", "status"}, NEW order \in Seq(Days), order # <<>>,
         k # "range" => order = Window, Begin(k, order)
  PROVE  IInv'
<1>1. /\ step = "idle" /\ kind' = k /\ days' = order
      /\ step' = IF k = "status" THEN "date" ELSE "read"
      /\ pending' = IF k = "status" THEN ToSet(EnabledSources) ELSE {}
      /\ UNCHANGED <<envVars, current, passed, candidates, answers, lastDate>>
  BY DEF Begin
<1>2. /\ rows' = rows /\ approved' = approved /\ changes' = changes /\ before' = before
      /\ seen' = seen /\ steady' = steady
      /\ current' = current /\ passed' = passed /\ candidates' = candidates
      /\ answers' = answers /\ lastDate' = lastDate
  BY <1>1 DEF envVars
<1>3. /\ current = None /\ passed = 0 /\ candidates = {} /\ answers = <<>> /\ lastDate = None
  BY <1>1, PublicationIs DEF IInv, PhaseInv, Shape
<1>4. Shape' /\ HistoryInv'
  BY <1>1, <1>2 DEF IInv, Shape, HistoryInv
<1>5. PhaseInv' /\ PassedInv'
  BY <1>1, <1>2, <1>3 DEF PhaseInv, PassedInv
<1>6. SourcesInv'
  BY <1>1, <1>2, <1>3, EnabledType DEF SourcesInv
<1>7. RowsInv' /\ DateInv'
  BY <1>1, <1>2, <1>3 DEF RowsInv, DateInv
<1>8. \A i \in DOMAIN answers' : AnswerInv(answers[i])'
  BY <1>2, <1>3
<1>9. SearchInv'
  <2> SUFFICES ASSUME k # "range" PROVE SearchInv'
    BY <1>1 DEF SearchInv
  <2>1. days' = Window /\ answers' = <<>> /\ step' # "answered"
    BY <1>1, <1>2, <1>3
  <2>2. Len(answers') = 0 /\ DOMAIN answers' = {}
    BY <2>1
  <2>3. \A i \in DOMAIN Window : i \in Int
    BY WindowType, ViewAssumption
  <2>4. QED
    BY <2>1, <2>2, <2>3, WindowType, ViewAssumption DEF SearchInv
<1>10. QED
  BY <1>4, <1>5, <1>6, <1>7, <1>8, <1>9 DEF IInv

-----------------------------------------------------------------------------
(* The statements of a request.                                            *)

\* The variables that only the environment changes, one by one.
LEMMA EnvUnchanged ==
  ASSUME UNCHANGED envVars
  PROVE  /\ rows' = rows /\ approved' = approved /\ changes' = changes /\ before' = before
         /\ seen' = seen /\ steady' = steady
         /\ (HistoryInv => HistoryInv') /\ StatusDates' = StatusDates
         /\ \A s : Publishable(s)' <=> Publishable(s)
         /\ \A n \in DOMAIN EnabledSources : Steady(n)' <=> Steady(n)
         /\ \A n \in DOMAIN EnabledSources : \A d : Had(n, d)' <=> Had(n, d)
         /\ \A x : NotOutdated(x)' <=> NotOutdated(x)
         /\ \A out : AnswerInv(out)' <=> AnswerInv(out)
<1>1. /\ rows' = rows /\ approved' = approved /\ changes' = changes /\ before' = before
      /\ seen' = seen /\ steady' = steady
  BY DEF envVars
<1>2. (HistoryInv => HistoryInv') /\ StatusDates' = StatusDates
  BY <1>1 DEF HistoryInv, StatusDates, Steady
<1>3. \A s : Publishable(s)' <=> Publishable(s)
  BY <1>1 DEF Publishable
<1>4. \A n \in DOMAIN EnabledSources : Steady(n)' <=> Steady(n)
  BY <1>1 DEF Steady
<1>5. \A n \in DOMAIN EnabledSources : \A d : Had(n, d)' <=> Had(n, d)
  BY <1>1 DEF Had
<1>6. \A x : NotOutdated(x)' <=> NotOutdated(x)
  BY <1>1 DEF NotOutdated
<1>7. \A out : AnswerInv(out)' <=> AnswerInv(out)
  BY <1>1, <1>3, <1>4, <1>5, <1>6 DEF AnswerInv
<1>8. QED
  BY <1>1, <1>2, <1>3, <1>4, <1>5, <1>6, <1>7

\* Every key of a day has a current row.
LEMMA HasCurrentRow ==
  ASSUME Shape, NEW r \in rows
  PROVE  \E x \in CurrentRows(r.day) : x.source = r.source
<1> DEFINE K == {q \in rows : SameKey(r, q)}
           T == {q.revision : q \in K}
           f == [q \in K |-> q.revision]
<1>1. r \in K /\ K \subseteq rows
  BY DEF SameKey
<1>2. IsFiniteSet(K)
  BY <1>1, FS_Subset DEF Shape
<1>3. \A q \in rows : q.revision \in Int
  BY DEF Shape, Row
<1>4. T \in SUBSET Int /\ T # {}
  BY <1>1, <1>3
<1>5. f \in Surjection(K, T)
  BY DEF Surjection
<1>6. IsFiniteSet(T)
  BY <1>2, <1>5, FS_Surjection
<1>7. Max(T) \in T /\ \A v \in T : v <= Max(T)
  BY <1>4, <1>6, MaxOfFinite
<1>8. PICK x \in K : x.revision = Max(T)
  BY <1>7
<1>9. \A q \in K : q.revision <= x.revision
  BY <1>7, <1>8
<1>10. x \in rows /\ x.source = r.source /\ x.day = r.day
  BY <1>1, <1>8 DEF SameKey
<1>11. \A q \in rows : SameKey(x, q) => q.revision <= x.revision
  <2> SUFFICES ASSUME NEW q \in rows, SameKey(x, q) PROVE q.revision <= x.revision
    OBVIOUS
  <2>1. SameKey(r, x)
    OBVIOUS
  <2>2. q \in K
    BY <2>1 DEF SameKey
  <2>3. QED
    BY <1>9, <2>2
<1>12. QED
  BY <1>10, <1>11 DEF CurrentRows

\* The SELECT of effective_observations, of one date.
LEMMA ReadRowsKeeps == ASSUME IInv, ReadRows PROVE IInv'
<1>1. /\ step = "read" /\ pending' = CurrentRows(Head(days)) /\ candidates' = {}
      /\ step' = "check" /\ kind' = kind /\ days' = days /\ current' = current
      /\ passed' = passed /\ answers' = answers /\ lastDate' = lastDate
      /\ UNCHANGED envVars
  BY DEF ReadRows
<1>2. current = None /\ passed = 0
  BY <1>1, PublicationIs DEF IInv, PhaseInv, Shape
<1>3. Shape' /\ HistoryInv' /\ SearchInv' /\ PhaseInv' /\ PassedInv' /\ SourcesInv'
  BY <1>1, <1>2, EnvUnchanged DEF IInv, Shape, SearchInv, PhaseInv, PassedInv, SourcesInv
<1>4. DateInv' /\ \A i \in DOMAIN answers' : AnswerInv(answers[i])'
  BY <1>1, EnvUnchanged DEF IInv, DateInv
<1>5. RowsInv'
  <2> DEFINE d == Head(days)
  <2>1. \A x \in CurrentRows(d) : x \in rows /\ x.day = d /\ NotOutdated(x)
    BY DEF IInv, HistoryInv, CurrentRows, NotOutdated, SameKey
  <2>2. ASSUME NEW n \in DOMAIN EnabledSources, Had(n, d)
        PROVE  \E x \in CurrentRows(d) : x.source = EnabledSources[n]
    <3>1. PICK r \in before : r.day = d /\ r.source = EnabledSources[n]
      BY <2>2 DEF Had
    <3>2. r \in rows /\ Shape
      BY DEF IInv, HistoryInv
    <3>3. QED
      BY <3>1, <3>2, HasCurrentRow
  <2> HIDE DEF d
  <2>3. \A x \in pending' \union candidates' : x \in rows' /\ x.day = d /\ NotOutdated(x)'
    BY <1>1, <2>1, EnvUnchanged DEF d
  <2>4. \A n \in DOMAIN EnabledSources : Steady(n)' /\ Had(n, d)' =>
           \E x \in pending' \union candidates' : x.source = EnabledSources[n]
    BY <1>1, <2>2, EnvUnchanged DEF d
  <2>5. QED
    BY <1>1, <2>3, <2>4 DEF RowsInv, d
<1>6. QED
  BY <1>3, <1>4, <1>5 DEF IInv

\* select_effective, of one date.
LEMMA SelectKeeps == ASSUME IInv, Select PROVE IInv'
<1>1. /\ step = "check" /\ pending = {} /\ Eligible(candidates) /\ step' = "attribute"
      /\ kind' = kind /\ days' = days /\ pending' = pending /\ current' = current
      /\ passed' = passed /\ candidates' = candidates /\ answers' = answers
      /\ lastDate' = lastDate /\ UNCHANGED envVars
  BY DEF Select
<1>2. current = None
  BY <1>1 DEF IInv, PhaseInv
<1>3. Shape' /\ HistoryInv' /\ SearchInv' /\ PhaseInv' /\ PassedInv' /\ SourcesInv'
  BY <1>1, <1>2, EnvUnchanged DEF IInv, Shape, SearchInv, PhaseInv, PassedInv, SourcesInv
<1>4. DateInv' /\ \A i \in DOMAIN answers' : AnswerInv(answers[i])'
  BY <1>1, EnvUnchanged DEF IInv, DateInv
<1>5. RowsInv'
  BY <1>1, EnvUnchanged DEF IInv, RowsInv, Eligible
<1>6. QED
  BY <1>3, <1>4, <1>5 DEF IInv

\* The one whose policy is read is pending still, and what it has passed is its own.
LEMMA NextIsPending ==
  ASSUME IInv, step \in {"check", "date"}, pending # {}, NEW x \in NextToRead
  PROVE  /\ x \in pending /\ x # None
         /\ \A i \in 1 .. passed : <<SourceOf(x), Publication[i]>> \in seen
<1>1. current \in pending \union {None} /\ (passed > 0 => current # None) /\ passed \in Nat
  BY PublicationIs DEF IInv, PhaseInv, Shape
<1>2. x \in pending /\ (current # None => x = current)
  <2>1. CASE current # None
    BY <1>1, <2>1 DEF NextToRead
  <2>2. CASE current = None /\ step = "check"
    BY <2>2 DEF NextToRead
  <2>3. CASE current = None /\ step = "date"
    <3> DEFINE T == {i \in DOMAIN EnabledSources : EnabledSources[i] \in pending}
    <3>1. T \in SUBSET Int /\ \A i \in T : 1 <= i
      BY EnabledType
    <3>2. T # {}
      BY <2>3, EnabledType DEF IInv, SourcesInv
    <3>3. Min(T) \in T
      BY <3>1, <3>2, MinOf
    <3>4. x = EnabledSources[Min(T)]
      BY <2>3 DEF NextToRead
    <3>5. QED
      BY <2>3, <3>3, <3>4
  <2>4. QED
    BY <2>1, <2>2, <2>3
<1>3. x # None
  <2>1. CASE step = "check"
    BY <1>2, <2>1, InitialAssumption DEF IInv, RowsInv, Shape
  <2>2. CASE step = "date"
    BY <1>2, <2>2, InitialAssumption, EnabledType DEF IInv, SourcesInv
  <2>3. QED
    BY <2>1, <2>2
<1>4. \A i \in 1 .. passed : <<SourceOf(x), Publication[i]>> \in seen
  <2>1. CASE current # None
    BY <1>2, <2>1 DEF IInv, PassedInv
  <2>2. CASE current = None
    BY <1>1, <2>2
  <2>3. QED
    BY <2>1, <2>2
<1>5. QED
  BY <1>2, <1>3, <1>4

\* Of the candidates of a source one is always kept.
LEMMA PreferredIs ==
  ASSUME step # "date", NEW S, NEW x
  PROVE  /\ Preferred(S, x) \subseteq S \union {x}
         /\ \A r \in S \union {x} : \E q \in Preferred(S, x) : q.source = r.source
<1> DEFINE rivals == {r \in S : r.source = x.source}
<1>1. CASE \A r \in rivals : x.retrieved_at > r.retrieved_at
  BY <1>1 DEF Preferred
<1>2. CASE ~ \A r \in rivals : x.retrieved_at > r.retrieved_at
  <2>1. Preferred(S, x) = S
    BY <1>2 DEF Preferred
  <2>2. \E r \in S : r.source = x.source
    BY <1>2
  <2>3. QED
    BY <2>1, <2>2
<1>3. QED
  BY <1>1, <1>2

\* One capability of check_publication_allowed is read.
LEMMA ReadCapabilityKeeps == ASSUME IInv, ReadCapability PROVE IInv'
<1>1. PICK x \in NextToRead :
        LET ok == <<SourceOf(x), Publication[passed + 1]>> \in approved
            more == ok /\ passed + 1 < Len(Publication)
        IN  /\ current' = IF more THEN x ELSE None
            /\ passed' = IF more THEN passed + 1 ELSE 0
            /\ pending' = IF more THEN pending ELSE pending \ {x}
            /\ candidates' = IF ok /\ ~more THEN Preferred(candidates, x) ELSE candidates
  BY DEF ReadCapability
<1> DEFINE ok == <<SourceOf(x), Publication[passed + 1]>> \in approved
           more == ok /\ passed + 1 < 3
<1>2. /\ current' = IF more THEN x ELSE None
      /\ passed' = IF more THEN passed + 1 ELSE 0
      /\ pending' = IF more THEN pending ELSE pending \ {x}
      /\ candidates' = IF ok /\ ~more THEN Preferred(candidates, x) ELSE candidates
  BY <1>1, PublicationIs
<1>3. /\ step \in {"check", "date"} /\ pending # {}
      /\ kind' = kind /\ step' = step /\ days' = days /\ answers' = answers
      /\ lastDate' = lastDate /\ UNCHANGED envVars
  BY DEF ReadCapability
<1>4. x \in pending /\ x # None /\ \A i \in 1 .. passed : <<SourceOf(x), Publication[i]>> \in seen
  BY <1>3, NextIsPending
<1>5. passed \in 0 .. 2 /\ approved \subseteq seen
  BY PublicationIs DEF IInv, Shape, HistoryInv
<1>6. ok => \A i \in 1 .. (passed + 1) : <<SourceOf(x), Publication[i]>> \in seen
  BY <1>4, <1>5
<1>7. ok /\ ~more => Publishable(SourceOf(x))
  BY <1>5, <1>6, PublicationIs DEF Publishable
<1>8. \A n \in DOMAIN EnabledSources : Steady(n) /\ EnabledSources[n] = SourceOf(x) => ok
  <2> SUFFICES ASSUME NEW n \in DOMAIN EnabledSources, Steady(n), EnabledSources[n] = SourceOf(x)
               PROVE  ok
    OBVIOUS
  <2>1. \A i \in 1 .. 3 : <<EnabledSources[n], Publication[i]>> \in approved
    BY SteadyIs
  <2>2. passed + 1 \in 1 .. 3
    BY <1>5
  <2>3. QED
    BY <2>1, <2>2
<1>9. SourceOf(x)' = SourceOf(x)
  BY <1>3 DEF SourceOf
<1> HIDE DEF ok
<1>10. Shape' /\ HistoryInv' /\ SearchInv'
  BY <1>2, <1>3, <1>5, PublicationIs, EnvUnchanged DEF IInv, Shape, SearchInv
<1>11. DateInv' /\ \A i \in DOMAIN answers' : AnswerInv(answers[i])'
  BY <1>3, EnvUnchanged DEF IInv, DateInv
<1>12. PhaseInv'
  BY <1>2, <1>3, <1>4 DEF IInv, PhaseInv
<1>13. PassedInv'
  <2>1. CASE more
    <3>1. current' = x /\ passed' = passed + 1 /\ seen' = seen
      BY <1>2, <1>3, <2>1, EnvUnchanged
    <3>2. SourceOf(current)' = SourceOf(x)
      BY <1>3, <3>1 DEF SourceOf
    <3>3. QED
      BY <1>6, <2>1, <3>1, <3>2 DEF PassedInv
  <2>2. CASE ~more
    BY <1>2, <2>2 DEF PassedInv
  <2>3. QED
    BY <2>1, <2>2
<1>14. SourcesInv'
  <2> SUFFICES ASSUME step = "date" PROVE SourcesInv'
    BY <1>3 DEF SourcesInv
  <2>1. SourceOf(x) = x /\ Preferred(candidates, x) = candidates \union {x}
    BY DEF SourceOf, Preferred
  <2>2. /\ pending \subseteq ToSet(EnabledSources) /\ candidates \subseteq ToSet(EnabledSources)
        /\ \A s \in candidates : Publishable(s)
        /\ \A n \in DOMAIN EnabledSources : Steady(n) => EnabledSources[n] \in pending \union candidates
    BY DEF IInv, SourcesInv
  <2>3. pending' \subseteq ToSet(EnabledSources) /\ candidates' \subseteq ToSet(EnabledSources)
    BY <1>2, <1>4, <2>1, <2>2
  <2>4. \A s \in candidates' : Publishable(s)
    BY <1>2, <1>7, <2>1, <2>2
  <2>5. \A n \in DOMAIN EnabledSources : Steady(n) =>
           EnabledSources[n] \in pending' \union candidates'
    BY <1>2, <1>8, <2>1, <2>2
  <2>6. QED
    BY <1>3, <2>3, <2>4, <2>5, EnvUnchanged DEF SourcesInv
<1>15. RowsInv'
  <2> SUFFICES ASSUME step = "check" PROVE RowsInv'
    BY <1>3 DEF RowsInv
  <2> DEFINE d == Head(days)
  <2>1. /\ \A r \in pending \union candidates : r \in rows /\ r.day = d /\ NotOutdated(r)
        /\ \A r \in candidates : Publishable(r.source)
        /\ \A n \in DOMAIN EnabledSources : Steady(n) /\ Had(n, d) =>
             \E r \in pending \union candidates : r.source = EnabledSources[n]
    BY DEF IInv, RowsInv
  <2>2. SourceOf(x) = x.source
    BY DEF SourceOf
  <2>3. /\ Preferred(candidates, x) \subseteq candidates \union {x}
        /\ \A r \in candidates \union {x} : \E q \in Preferred(candidates, x) : q.source = r.source
    BY PreferredIs
  <2> HIDE DEF d
  <2>4. \A r \in pending' \union candidates' : r \in rows /\ r.day = d /\ NotOutdated(r)
    BY <1>2, <1>4, <2>1, <2>3
  <2>5. \A r \in candidates' : Publishable(r.source)
    BY <1>2, <1>7, <2>1, <2>2, <2>3
  <2>6. ASSUME NEW n \in DOMAIN EnabledSources, Steady(n), Had(n, d)
        PROVE  \E r \in pending' \union candidates' : r.source = EnabledSources[n]
    <3>1. PICK r \in pending \union candidates : r.source = EnabledSources[n]
      BY <2>1, <2>6
    <3>2. CASE r \in candidates
      BY <1>2, <2>3, <3>1, <3>2
    <3>3. CASE r = x
      <4>1. ok
        BY <1>8, <2>2, <2>6, <3>1, <3>3
      <4>2. QED
        BY <1>2, <1>4, <2>3, <3>1, <3>3, <4>1
    <3>4. CASE r \in pending /\ r # x
      BY <1>2, <3>1, <3>4
    <3>5. QED
      BY <3>2, <3>3, <3>4
  <2>7. QED
    BY <1>3, <2>4, <2>5, <2>6, EnvUnchanged DEF RowsInv, d
<1>16. QED
  BY <1>10, <1>11, <1>12, <1>13, <1>14, <1>15 DEF IInv

-----------------------------------------------------------------------------
(* The answers.                                                            *)

\* The answer for the day at hand ends its phase.
LEMMA AnsweredKeeps ==
  ASSUME IInv, step \in {"check", "attribute"}, pending = {},
         NEW out \in ObservationOut, Answered(out), AnswerInv(out), out.day = Head(days),
         UNCHANGED <<kind, current, passed, lastDate, envVars>>
  PROVE  IInv'
<1>1. /\ answers' = Append(answers, out) /\ days' = Tail(days)
      /\ step' = IF Len(days) = 1 \/ (kind # "range" /\ out.value # None) THEN "answered" ELSE "read"
      /\ pending' = {} /\ candidates' = {}
      /\ kind' = kind /\ current' = current /\ passed' = passed /\ lastDate' = lastDate
  BY DEF Answered
<1>2. current = None /\ passed = 0
  BY PublicationIs DEF IInv, PhaseInv, Shape
<1>3. days \in Seq(Days) /\ days # <<>> /\ answers \in Seq(ObservationOut)
  BY DEF IInv, Shape, PhaseInv
<1>4. /\ Len(days) \in Nat \ {0} /\ DOMAIN days = 1 .. Len(days) /\ Head(days) = days[1]
      /\ Len(answers) \in Nat /\ DOMAIN answers = 1 .. Len(answers)
  BY <1>3
<1>5. /\ Tail(days) \in Seq(Days) /\ Len(Tail(days)) = Len(days) - 1
      /\ \A i \in 1 .. (Len(days) - 1) : Tail(days)[i] = days[i + 1]
      /\ DOMAIN Tail(days) = 1 .. (Len(days) - 1)
  BY <1>3, <1>4
<1>6. /\ Append(answers, out) \in Seq(ObservationOut)
      /\ Len(Append(answers, out)) = Len(answers) + 1
      /\ DOMAIN Append(answers, out) = 1 .. (Len(answers) + 1)
      /\ \A i \in 1 .. Len(answers) : Append(answers, out)[i] = answers[i]
      /\ Append(answers, out)[Len(answers) + 1] = out
  BY <1>3, <1>4
<1>7. Shape' /\ HistoryInv'
  BY <1>1, <1>5, <1>6, EnvUnchanged DEF IInv, Shape
<1>8. PhaseInv'
  <2>1. step' = "read" => Tail(days) # <<>>
    BY <1>1, <1>4, <1>5
  <2>2. QED
    BY <1>1, <1>2, <2>1 DEF IInv, PhaseInv
<1>9. PassedInv' /\ SourcesInv' /\ RowsInv'
  BY <1>1, <1>2 DEF PassedInv, SourcesInv, RowsInv
<1>10. \A i \in DOMAIN answers' : AnswerInv(answers[i])'
  <2>1. \A i \in DOMAIN answers : AnswerInv(answers[i])
    BY DEF IInv
  <2>2. \A i \in DOMAIN answers' : answers'[i] = out \/ \E j \in DOMAIN answers : answers'[i] = answers[j]
    BY <1>1, <1>4, <1>6
  <2>3. \A i \in DOMAIN answers' : AnswerInv(answers'[i])
    BY <2>1, <2>2
  <2>4. QED
    BY <2>3, EnvUnchanged DEF AnswerInv, NotOutdated, Publishable, Steady, Had
<1>11. DateInv'
  BY <1>1, EnvUnchanged DEF IInv, DateInv
<1>12. SearchInv'
  <2> SUFFICES ASSUME kind \in {"latest", "status"} PROVE SearchInv'
    BY <1>1 DEF SearchInv
  <2>1. /\ Len(answers) + Len(days) = Lookback + 2
        /\ \A i \in DOMAIN days : days[i] = Window[Len(answers) + i]
        /\ \A i \in DOMAIN answers : answers[i].day = Window[i]
        /\ \A i \in DOMAIN answers : answers[i].value = None
    BY DEF IInv, SearchInv
  <2>2. Len(answers') + Len(days') = Lookback + 2
    BY <1>1, <1>4, <1>5, <1>6, <2>1
  <2>3. \A i \in DOMAIN days' : days'[i] = Window[Len(answers') + i]
    <3> SUFFICES ASSUME NEW i \in 1 .. (Len(days) - 1)
                 PROVE  Tail(days)[i] = Window[Len(answers) + 1 + i]
      BY <1>1, <1>5, <1>6
    <3>1. i + 1 \in DOMAIN days
      BY <1>4
    <3>2. days[i + 1] = Window[Len(answers) + (i + 1)]
      BY <2>1, <3>1
    <3>3. Len(answers) + (i + 1) = Len(answers) + 1 + i
      BY <1>4
    <3>4. QED
      BY <1>5, <3>2, <3>3
  <2>4. \A i \in DOMAIN answers' : answers'[i].day = Window[i]
    <3>1. out.day = Window[Len(answers) + 1]
      BY <1>4, <2>1
    <3>2. QED
      BY <1>1, <1>4, <1>6, <2>1, <3>1
  <2>5. \A i \in DOMAIN answers' : i < Len(answers') \/ step' # "answered" => answers'[i].value = None
    <3> SUFFICES ASSUME NEW i \in 1 .. (Len(answers) + 1),
                        i < Len(answers) + 1 \/ step' # "answered"
                 PROVE  answers'[i].value = None
      BY <1>1, <1>6
    <3>1. CASE i \in 1 .. Len(answers)
      BY <1>1, <1>4, <1>6, <2>1, <3>1
    <3>2. CASE i = Len(answers) + 1
      <4>1. out.value = None
        BY <1>1, <1>4, <3>2
      <4>2. QED
        BY <1>1, <1>6, <3>2, <4>1
    <3>3. QED
      BY <1>4, <3>1, <3>2
  <2>6. step' = "answered" =>
          answers' # <<>> /\ (days' = <<>> \/ answers'[Len(answers')].value # None)
    <3>1. answers' # <<>> /\ Len(answers') = Len(answers) + 1
      BY <1>1, <1>3, <1>4, <1>6
    <3>2. Len(days) = 1 => days' = <<>>
      BY <1>1, <1>5
    <3>3. answers'[Len(answers')] = out
      BY <1>1, <1>6, <3>1
    <3>4. QED
      BY <1>1, <3>1, <3>2, <3>3
  <2>7. QED
    BY <1>1, <2>2, <2>3, <2>4, <2>5, <2>6 DEF SearchInv
<1>13. QED
  BY <1>7, <1>8, <1>9, <1>10, <1>11, <1>12 DEF IInv

\* What has no eligible candidate has no source that was publishable all the time.
LEMMA NoEligibleKeeps == ASSUME IInv, NoEligible PROVE IInv'
<1> DEFINE d == Head(days)
           out == Missing(d)
<1>1. /\ step = "check" /\ pending = {} /\ ~Eligible(candidates)
      /\ Answered(out) /\ UNCHANGED <<kind, current, passed, lastDate, envVars>>
  BY DEF NoEligible
<1>2. days \in Seq(Days) /\ days # <<>>
  BY <1>1 DEF IInv, Shape, PhaseInv
<1>3. d \in Days
  BY <1>2
<1>4. Availability(d) \in {"NO_SESSION", "WAITING_FOR_PUBLICATION", "UNAVAILABLE"}
  BY <1>3, ViewAssumption DEF Availability
<1> HIDE DEF d
<1>5. out \in ObservationOut /\ out.day = d /\ out.value = None /\ out.availability # "OK"
  BY <1>3, <1>4, ViewAssumption DEF Missing, ObservationOut
<1>6. ASSUME NEW n \in DOMAIN EnabledSources, Steady(n), Had(n, d) PROVE FALSE
  <2>1. PICK r \in candidates : r.source = EnabledSources[n]
    BY <1>1, <1>6 DEF IInv, RowsInv, d
  <2>2. QED
    BY <1>1, <2>1, EnabledType DEF Eligible
<1> HIDE DEF out
<1>7. AnswerInv(out)
  BY <1>5, <1>6 DEF AnswerInv
<1>8. QED
  BY <1>1, <1>5, <1>7, AnsweredKeeps DEF d

\* The first enabled source among the candidates.
LEMMA ChosenIs ==
  ASSUME NEW S, Eligible(S)
  PROVE  /\ Chosen(S) \in S /\ Chosen(S).source \in ToSet(EnabledSources)
         /\ \A n \in DOMAIN EnabledSources : (\E r \in S : r.source = EnabledSources[n]) =>
              \E m \in 1 .. n : Chosen(S).source = EnabledSources[m]
<1> DEFINE T == {i \in DOMAIN EnabledSources : \E r \in S : r.source = EnabledSources[i]}
<1>1. T \in SUBSET Int /\ \A i \in T : 1 <= i
  BY EnabledType
<1>2. /\ T # {} /\ \A n \in DOMAIN EnabledSources : (\E r \in S : r.source = EnabledSources[n]) => n \in T
      /\ \A n \in T : n \in DOMAIN EnabledSources /\ \E r \in S : r.source = EnabledSources[n]
  BY EnabledType DEF Eligible
<1>3. Chosen(S) = CHOOSE r \in S : r.source = EnabledSources[Min(T)]
  BY DEF Chosen, ChosenBy
<1> HIDE DEF T
<1>4. Min(T) \in T /\ \A i \in T : Min(T) <= i
  BY <1>1, <1>2, MinOf
<1>5. Chosen(S) \in S /\ Chosen(S).source = EnabledSources[Min(T)]
  BY <1>2, <1>3, <1>4
<1>6. \A n \in T : Min(T) \in 1 .. n
  <2>1. Min(T) \in Int /\ 1 <= Min(T)
    BY <1>1, <1>4
  <2>2. \A n \in T : n \in Int /\ Min(T) <= n
    BY <1>1, <1>4
  <2> DEFINE m == Min(T)
  <2> HIDE DEF m
  <2>3. \A n \in T : m \in 1 .. n
    BY <2>1, <2>2 DEF m
  <2>4. QED
    BY <2>3 DEF m
<1>7. QED
  BY <1>2, <1>4, <1>5, <1>6, EnabledType

\* The attribution is read, and the answer given.
LEMMA ReadAttributionKeeps == ASSUME IInv, ReadAttribution PROVE IInv'
<1> DEFINE d == Head(days)
           r == Chosen(candidates)
           out == [day |-> d, availability |-> "OK", value |-> r,
                   discrepancy |-> \E q \in candidates : q.close # r.close,
                   attribution |-> <<r.source, "ATTRIBUTE">> \in approved]
<1>1. /\ step = "attribute" /\ Answered(out)
      /\ UNCHANGED <<kind, current, passed, lastDate, envVars>>
  BY DEF ReadAttribution
<1>2. pending = {} /\ Eligible(candidates) /\ days \in Seq(Days) /\ days # <<>>
  BY <1>1 DEF IInv, Shape, PhaseInv, RowsInv
<1>3. d \in Int
  <2>1. d \in Days
    BY <1>2
  <2>2. QED
    BY <2>1, ViewAssumption
<1>4. /\ r \in candidates /\ r.source \in ToSet(EnabledSources)
      /\ \A n \in DOMAIN EnabledSources : (\E x \in candidates : x.source = EnabledSources[n]) =>
           \E m \in 1 .. n : r.source = EnabledSources[m]
  BY <1>2, ChosenIs
<1>5. /\ r \in rows /\ r.day = d /\ NotOutdated(r) /\ Publishable(r.source)
      /\ \A n \in DOMAIN EnabledSources : Steady(n) /\ Had(n, d) =>
           \E x \in candidates : x.source = EnabledSources[n]
  BY <1>1, <1>2, <1>4 DEF IInv, RowsInv
<1>6. r \in Row /\ r # None
  BY <1>5, InitialAssumption DEF IInv, Shape
<1> HIDE DEF r, d
<1>7. /\ out \in ObservationOut /\ out.day = d /\ out.value = r /\ out.availability = "OK"
  BY <1>3, <1>6 DEF ObservationOut
<1> HIDE DEF out
<1>8. AnswerInv(out)
  BY <1>4, <1>5, <1>6, <1>7 DEF AnswerInv
<1>9. QED
  BY <1>1, <1>2, <1>7, <1>8, AnsweredKeeps DEF d

-----------------------------------------------------------------------------
(* The date of the data status.                                            *)

\* The values of a field of finitely many rows are finitely many.
LEMMA FiniteField ==
  ASSUME NEW S, IsFiniteSet(S), NEW f, f \in [S -> Int]
  PROVE  {f[r] : r \in S} \in SUBSET Int /\ IsFiniteSet({f[r] : r \in S})
<1> DEFINE T == {f[r] : r \in S}
<1>1. T \in SUBSET Int /\ f \in Surjection(S, T)
  BY DEF Surjection
<1>2. QED
  BY <1>1, FS_Surjection

\* max(date) of a set of rows is the date of one of them.
LEMMA LatestDay ==
  ASSUME Shape, NEW S, S \subseteq rows, S # {}
  PROVE  LET found == {r.day : r \in S}
         IN  Max(found) \in found /\ \A d \in found : d <= Max(found)
<1> DEFINE found == {r.day : r \in S}
           f == [r \in S |-> r.day]
<1>1. IsFiniteSet(S)
  BY FS_Subset DEF Shape
<1>2. \A r \in S : r.day \in Days
  BY DEF Shape, Row
<1>3. f \in [S -> Int]
  BY <1>2, ViewAssumption
<1>4. found = {f[r] : r \in S} /\ found # {}
  OBVIOUS
<1> HIDE DEF f, found
<1>5. {f[r] : r \in S} \in SUBSET Int /\ IsFiniteSet({f[r] : r \in S})
  BY <1>1, <1>3, FiniteField
<1>6. found \in SUBSET Int /\ IsFiniteSet(found)
  BY <1>4, <1>5
<1>7. Max(found) \in found /\ \A d \in found : d <= Max(found)
  BY <1>4, <1>6, MaxOfFinite
<1>8. QED
  BY <1>7 DEF found

\* The last statement of latest_publishable_session_date.
LEMMA ReadMaxDateKeeps == ASSUME IInv, ReadMaxDate PROVE IInv'
<1> DEFINE S == {q \in rows : q.source \in candidates}
           found == {r.day : r \in S}
<1>1. /\ step = "date" /\ pending = {} /\ step' = "read" /\ candidates' = {}
      /\ lastDate' = IF found = {} THEN None ELSE Max(found)
      /\ kind' = kind /\ days' = days /\ pending' = pending /\ current' = current
      /\ passed' = passed /\ answers' = answers /\ UNCHANGED envVars
  BY DEF ReadMaxDate
<1>2. current = None /\ answers = <<>>
  BY <1>1 DEF IInv, PhaseInv
<1>3. /\ candidates \subseteq ToSet(EnabledSources) /\ \A s \in candidates : Publishable(s)
      /\ \A n \in DOMAIN EnabledSources : Steady(n) => EnabledSources[n] \in candidates
  BY <1>1 DEF IInv, SourcesInv
<1>4. found # {} => Max(found) \in found /\ \A d \in found : d <= Max(found)
  BY LatestDay DEF IInv
<1>5. \A d \in found : d \in Days /\ d # None /\ \E r \in rows : r.day = d /\ r.source \in candidates
  BY InitialAssumption DEF IInv, Shape, Row
<1>6. changes = 0 => found = StatusDates
  <2> SUFFICES ASSUME changes = 0 PROVE found = StatusDates
    OBVIOUS
  <2>1. ASSUME NEW q \in rows
        PROVE  q.source \in candidates <=>
                 \E n \in DOMAIN EnabledSources : q.source = EnabledSources[n] /\ Steady(n)
    BY <1>3, EnabledType, PublishableIsSteady
  <2>2. S = {q \in rows : \E n \in DOMAIN EnabledSources : q.source = EnabledSources[n] /\ Steady(n)}
    BY <2>1
  <2>3. QED
    BY <2>2 DEF StatusDates
<1> HIDE DEF S, found
<1>7. Shape' /\ HistoryInv' /\ SearchInv' /\ PhaseInv'
  BY <1>1, <1>2, <1>4, <1>5, EnvUnchanged DEF IInv, Shape, SearchInv, PhaseInv
<1>8. PassedInv' /\ SourcesInv' /\ RowsInv' /\ \A i \in DOMAIN answers' : AnswerInv(answers[i])'
  BY <1>1, <1>2, EnvUnchanged DEF PassedInv, SourcesInv, RowsInv
<1>9. DateInv'
  <2>1. lastDate' # None => \E r \in rows : r.day = lastDate' /\ Publishable(r.source)
    BY <1>1, <1>3, <1>4, <1>5
  <2>2. changes = 0 => /\ lastDate' = None <=> StatusDates = {}
                       /\ lastDate' # None => \A d \in StatusDates : d <= lastDate'
    BY <1>1, <1>4, <1>5, <1>6
  <2>3. QED
    BY <2>1, <2>2, <1>1, EnvUnchanged DEF DateInv
<1>10. QED
  BY <1>7, <1>8, <1>9 DEF IInv

-----------------------------------------------------------------------------
(* What is committed during a request.                                     *)

\* A decision committed between two statements of a request.
LEMMA DecideKeeps == ASSUME IInv, NEW pair \in Decisions, Decide(pair) PROVE IInv'
<1>1. /\ changes < MaxChanges /\ changes' = changes + 1
      /\ approved' = (approved \ {pair}) \union ({pair} \ approved)
      /\ seen' = seen \union approved' /\ steady' = steady \intersect approved'
      /\ rows' = rows /\ before' = before
      /\ kind' = kind /\ step' = step /\ days' = days /\ pending' = pending
      /\ current' = current /\ passed' = passed /\ candidates' = candidates
      /\ answers' = answers /\ lastDate' = lastDate
  BY DEF Decide, InRequest, reqVars
<1>2. changes' \in 0 .. MaxChanges /\ changes' # 0
  BY <1>1, ViewAssumption DEF IInv, Shape
<1>3. Shape' /\ PhaseInv' /\ SearchInv'
  BY <1>1, <1>2 DEF IInv, Shape, PhaseInv, SearchInv
<1>4. pair \in Sources \X Capability
  BY ViewAssumption
<1>5. HistoryInv'
  BY <1>1, <1>2, <1>4 DEF IInv, HistoryInv
<1>6. \A s : Publishable(s) => Publishable(s)'
  BY <1>1 DEF Publishable
<1>7. \A n \in DOMAIN EnabledSources : Steady(n)' => Steady(n)
  BY <1>1 DEF Steady
<1>8. /\ \A n \in DOMAIN EnabledSources : \A d : Had(n, d)' <=> Had(n, d)
      /\ \A x : NotOutdated(x)' <=> NotOutdated(x)
      /\ \A x : SourceOf(x)' = SourceOf(x)
  BY <1>1 DEF Had, NotOutdated, SourceOf
<1>9. PassedInv'
  <2>1. SourceOf(current)' = SourceOf(current)
    BY <1>1 DEF SourceOf
  <2>2. QED
    BY <1>1, <2>1 DEF IInv, PassedInv
<1>10. SourcesInv' /\ RowsInv' /\ DateInv'
  <2>1. SourcesInv'
    BY <1>1, <1>6, <1>7 DEF IInv, SourcesInv
  <2>2. RowsInv'
    BY <1>1, <1>6, <1>7, <1>8 DEF IInv, RowsInv, Eligible
  <2>3. DateInv'
    BY <1>1, <1>2, <1>6 DEF IInv, DateInv
  <2>4. QED
    BY <2>1, <2>2, <2>3
<1>11. \A i \in DOMAIN answers' : AnswerInv(answers[i])'
  BY <1>1 DEF IInv, AnswerInv, NotOutdated, Publishable, Steady, Had
<1>12. QED
  BY <1>3, <1>5, <1>9, <1>10, <1>11 DEF IInv

\* A revision committed between two statements of a request.
LEMMA RecordKeeps == ASSUME IInv, NEW new \in Revisions, Record(new) PROVE IInv'
<1> DEFINE key == {r \in rows : SameKey(r, new)}
           times == {r.retrieved_at : r \in rows}
           row == [source |-> new.source, scope |-> new.scope, day |-> new.day,
                   close |-> new.close, revision |-> Cardinality(key) + 1,
                   retrieved_at |-> 1 + Max({0} \union times)]
<1>1. /\ changes < MaxChanges /\ changes' = changes + 1 /\ rows' = rows \union {row}
      /\ approved' = approved /\ seen' = seen /\ steady' = steady /\ before' = before
      /\ kind' = kind /\ step' = step /\ days' = days /\ pending' = pending
      /\ current' = current /\ passed' = passed /\ candidates' = candidates
      /\ answers' = answers /\ lastDate' = lastDate
  BY DEF Record, InRequest, reqVars
<1>2. changes' \in 0 .. MaxChanges /\ changes' # 0
  BY <1>1, ViewAssumption DEF IInv, Shape
<1>3. IsFiniteSet(rows) /\ rows \subseteq Row
  BY DEF IInv, Shape
<1>4. Cardinality(key) \in Nat
  <2>1. key \subseteq rows
    OBVIOUS
  <2>2. IsFiniteSet(key)
    BY <1>3, <2>1, FS_Subset
  <2>3. QED
    BY <2>2, FS_CardinalityType
<1>5. Max({0} \union times) \in Nat
  <2> DEFINE f == [r \in rows |-> r.retrieved_at]
  <2>1. f \in [rows -> Int] /\ times = {f[r] : r \in rows} /\ \A t \in times : t \in Nat
    BY <1>3 DEF Row
  <2> HIDE DEF f, times
  <2>2. times \in SUBSET Int /\ IsFiniteSet(times)
    BY <1>3, <2>1, FiniteField
  <2>3. IsFiniteSet(times \union {0})
    BY <2>2, FS_AddElement
  <2>4. {0} \union times = times \union {0} /\ {0} \union times \in SUBSET Int
    BY <2>2
  <2>5. Max({0} \union times) \in {0} \union times
    BY <2>3, <2>4, MaxOfFinite
  <2>6. QED
    BY <2>1, <2>5
<1>6. new \in [source : Sources, scope : Scopes, day : Days, close : Closes]
  BY ViewAssumption
<1> HIDE DEF key, times
<1>7. row \in Row
  BY <1>4, <1>5, <1>6 DEF Row
<1> HIDE DEF row
<1>8. IsFiniteSet(rows \union {row})
  BY <1>3, FS_AddElement
<1>9. Shape' /\ PhaseInv' /\ SearchInv' /\ HistoryInv'
  BY <1>1, <1>2, <1>7, <1>8 DEF IInv, Shape, PhaseInv, SearchInv, HistoryInv
<1>10. /\ \A s : Publishable(s)' <=> Publishable(s)
       /\ \A n \in DOMAIN EnabledSources : Steady(n)' <=> Steady(n)
       /\ \A n \in DOMAIN EnabledSources : \A d : Had(n, d)' <=> Had(n, d)
       /\ \A x : NotOutdated(x)' <=> NotOutdated(x)
  BY <1>1 DEF Publishable, Steady, Had, NotOutdated
<1>11. PassedInv' /\ SourcesInv'
  <2>1. SourceOf(current)' = SourceOf(current)
    BY <1>1 DEF SourceOf
  <2>2. QED
    BY <1>1, <1>10, <2>1 DEF IInv, PassedInv, SourcesInv
<1>12. RowsInv' /\ DateInv'
  BY <1>1, <1>2, <1>10 DEF IInv, RowsInv, Eligible, DateInv
<1>13. \A i \in DOMAIN answers' : AnswerInv(answers[i])'
  BY <1>1 DEF IInv, AnswerInv, NotOutdated, Publishable, Steady, Had
<1>14. QED
  BY <1>9, <1>11, <1>12, <1>13 DEF IInv

-----------------------------------------------------------------------------
\* The dates of a range request are not empty when the range is not.
LEMMA RangeOrder ==
  ASSUME NEW start \in Days, NEW end \in Days, start <= end
  PROVE  LET order == [i \in 1 .. end - start + 1 |-> start + i - 1]
         IN  order \in Seq(Days) /\ order # <<>>
<1> DEFINE n == end - start + 1
           order == [i \in 1 .. n |-> start + i - 1]
<1>1. start \in Int /\ end \in Int /\ start .. end \subseteq Days /\ n \in Nat /\ n > 0
  BY ViewAssumption
<1>2. \A i \in 1 .. n : start + i - 1 \in start .. end
  BY <1>1
<1> HIDE DEF n
<1>3. order \in [1 .. n -> Days]
  BY <1>1, <1>2
<1>4. order \in Seq(Days) /\ Len(order) = n
  BY <1>1, <1>3
<1>5. order # <<>>
  BY <1>1, <1>4
<1>6. QED
  BY <1>4, <1>5 DEF n

\* A step of nothing.
LEMMA StutterKeeps == ASSUME IInv, UNCHANGED vars PROVE IInv'
<1>1. /\ UNCHANGED envVars
      /\ kind' = kind /\ step' = step /\ days' = days /\ pending' = pending
      /\ current' = current /\ passed' = passed /\ candidates' = candidates
      /\ answers' = answers /\ lastDate' = lastDate
  BY DEF vars, reqVars
<1>2. /\ rows' = rows /\ approved' = approved /\ changes' = changes /\ before' = before
      /\ seen' = seen /\ steady' = steady
  BY <1>1 DEF envVars
<1>3. Shape' /\ HistoryInv' /\ PhaseInv' /\ SearchInv' /\ DateInv'
  BY <1>1, <1>2, EnvUnchanged DEF IInv, Shape, PhaseInv, SearchInv, DateInv
<1>4. PassedInv'
  BY <1>1, <1>2 DEF IInv, PassedInv, SourceOf
<1>5. SourcesInv'
  BY <1>1, EnvUnchanged DEF IInv, SourcesInv
<1>6. RowsInv'
  BY <1>1, <1>2, EnvUnchanged DEF IInv, RowsInv, Eligible
<1>7. \A i \in DOMAIN answers' : AnswerInv(answers[i])'
  BY <1>1, <1>2 DEF IInv, AnswerInv, NotOutdated, Publishable, Steady, Had
<1>8. QED
  BY <1>3, <1>4, <1>5, <1>6, <1>7 DEF IInv

\* Every step keeps the invariant.
LEMMA NextIInv == IInv /\ [Next]_vars => IInv'
<1> SUFFICES ASSUME IInv, [Next]_vars PROVE IInv'
  OBVIOUS
<1>1. Window \in Seq(Days) /\ Window # <<>>
  <2>1. Len(Window) # 0
    BY WindowType, ViewAssumption
  <2>2. QED
    BY <2>1, WindowType
<1>2. CASE Latest
  BY <1>1, <1>2, BeginKeeps DEF Latest
<1>3. CASE Status
  BY <1>1, <1>3, BeginKeeps DEF Status
<1>4. CASE Range_
  <2>1. PICK start \in Days, end \in Days :
          start <= end /\ Begin("range", [i \in 1 .. end - start + 1 |-> start + i - 1])
    BY <1>4 DEF Range_
  <2> DEFINE order == [i \in 1 .. end - start + 1 |-> start + i - 1]
  <2>2. order \in Seq(Days) /\ order # <<>>
    BY <2>1, RangeOrder
  <2>3. Begin("range", order)
    BY <2>1
  <2> HIDE DEF order
  <2>4. QED
    BY <2>2, <2>3, BeginKeeps
<1>5. CASE ReadRows
  BY <1>5, ReadRowsKeeps
<1>6. CASE ReadCapability
  BY <1>6, ReadCapabilityKeeps
<1>7. CASE NoEligible
  BY <1>7, NoEligibleKeeps
<1>8. CASE Select
  BY <1>8, SelectKeeps
<1>9. CASE ReadAttribution
  BY <1>9, ReadAttributionKeeps
<1>10. CASE ReadMaxDate
  BY <1>10, ReadMaxDateKeeps
<1>11. CASE \E pair \in Decisions : Decide(pair)
  BY <1>11, DecideKeeps
<1>12. CASE \E new \in Revisions : Record(new)
  BY <1>12, RecordKeeps
<1>13. CASE UNCHANGED vars
  BY <1>13, StutterKeeps
<1>14. QED
  BY <1>2, <1>3, <1>4, <1>5, <1>6, <1>7, <1>8, <1>9, <1>10, <1>11, <1>12, <1>13 DEF Next

\* What a request holds between two of its statements, whatever is committed between
\* them: the rows of the day in turn with the candidates cover every enabled source
\* that was publishable throughout and had an observation of that day when the request
\* began, and so do the answers given so far.
THEOREM Inductive == Spec => []IInv
BY InitIInv, NextIInv, PTL DEF Spec

-----------------------------------------------------------------------------
\* The type invariant follows.
LEMMA ImpliesTypeOK == IInv => TypeOK
<1> SUFFICES ASSUME IInv PROVE TypeOK
  OBVIOUS
<1>1. pending \subseteq rows \union Sources /\ candidates \subseteq rows \union Sources
  <2>1. CASE step = "date"
    BY <2>1, EnabledType DEF IInv, SourcesInv
  <2>2. CASE step \in {"check", "attribute"}
    BY <2>2 DEF IInv, RowsInv
  <2>3. CASE step \in {"idle", "read", "answered"}
    BY <2>3 DEF IInv, PhaseInv
  <2>4. QED
    BY <2>1, <2>2, <2>3 DEF IInv, Shape
<1>2. days \in Seq(Int)
  <2>1. Days \subseteq Int /\ days \in Seq(Days)
    BY ViewAssumption DEF IInv, Shape
  <2>2. Len(days) \in Nat /\ days \in [1 .. Len(days) -> Days]
    BY <2>1
  <2>3. days \in [1 .. Len(days) -> Int]
    BY <2>1, <2>2
  <2>4. QED
    BY <2>2, <2>3
<1>3. ASSUME NEW i \in DOMAIN answers
      PROVE  answers[i].availability = "OK" <=> answers[i].value \in rows
  <2>1. AnswerInv(answers[i]) /\ rows \subseteq Row
    BY DEF IInv, Shape
  <2>2. None \notin rows
    BY <2>1, InitialAssumption
  <2>3. QED
    BY <2>1, <2>2 DEF AnswerInv
<1>4. approved \subseteq Sources \X Capability /\ steady \subseteq seen
  BY DEF IInv, HistoryInv
<1>5. QED
  BY <1>1, <1>2, <1>3, <1>4 DEF IInv, Shape, HistoryInv, PhaseInv, TypeOK

\* The type invariant: what a request has yet to check and what it has found are rows
\* of the table, or sources, and a value is reported as OK exactly if it is there.
THEOREM TypeCorrect == Spec => []TypeOK
BY Inductive, ImpliesTypeOK, PTL

\* Each permission of a value given was in force at some instant of the request.
LEMMA ImpliesAuthorized == IInv => PublishedWasAuthorized
<1> SUFFICES ASSUME IInv PROVE PublishedWasAuthorized
  OBVIOUS
<1> DEFINE P == {s \in Sources : \A n \in DOMAIN Publication : <<s, Publication[n]>> \in seen}
<1>1. \A r \in rows : Publishable(r.source) => r.source \in P
  BY DEF IInv, Shape, Row, Publishable
<1>2. ASSUME NEW i \in DOMAIN answers, answers[i].value # None PROVE answers[i].value.source \in P
  BY <1>1, <1>2 DEF IInv, AnswerInv
<1>3. ASSUME lastDate # None PROVE \E r \in rows : r.day = lastDate /\ r.source \in P
  BY <1>1, <1>3 DEF IInv, DateInv
<1> HIDE DEF P
<1>4. QED
  BY <1>2, <1>3 DEF PublishedWasAuthorized, P

\* A policy revocation is reflected immediately: is_publication_authorized and
\* latest_publishable_session_date ask for each capability, one SELECT at a time, and a
\* value or a date is given only if each was effective at some instant of the request.
THEOREM ValuesAreAuthorized == Spec => []PublishedWasAuthorized
BY Inductive, ImpliesAuthorized, PTL

\* A value given is no older than the revision that was current when the request began.
LEMMA ImpliesCurrentRevision == IInv => CurrentRevision
BY DEF IInv, AnswerInv, NotOutdated, CurrentRevision

\* A value is never an older revision than the current one of its key when the request
\* began: _current_publishable_by_source takes the highest revision per key of the rows
\* it has just read.
THEOREM ValuesAreCurrent == Spec => []CurrentRevision
BY Inductive, ImpliesCurrentRevision, PTL

\* A steady source that had an observation is passed over only for one before it.
LEMMA ImpliesPriorityKept == IInv => PriorityKept
<1> SUFFICES ASSUME IInv, NEW i \in DOMAIN answers, NEW n \in DOMAIN EnabledSources, Steady(n),
                    \E r \in before : r.day = answers[i].day /\ r.source = EnabledSources[n]
             PROVE  \E m \in 1 .. n : answers[i].value # None /\ answers[i].value.source = EnabledSources[m]
  BY DEF PriorityKept
<1>1. Had(n, answers[i].day)
  BY DEF Had
<1>2. QED
  BY <1>1 DEF IInv, AnswerInv

\* The priority of the sources is deterministic: an answer for a day gives the value of
\* the first enabled source that was publishable throughout and had an observation of
\* it when the request began, or that of a source before it (ObservationSelector.select).
THEOREM PriorityIsKept == Spec => []PriorityKept
BY Inductive, ImpliesPriorityKept, PTL

\* The two halves of a status agree when nothing is committed meanwhile.
LEMMA ImpliesStatusAgrees == IInv => StatusAgrees
<1> SUFFICES ASSUME IInv, step = "answered", kind = "status", changes = 0
             PROVE  LET out == Last(answers)
                    IN  /\ out.value # None <=> StatusDates \intersect (Today - Lookback .. Today) # {}
                        /\ lastDate = None <=> StatusDates = {}
                        /\ out.value # None => lastDate >= out.day
  BY DEF StatusAgrees, StatusDates
<1> DEFINE n == Len(answers)
           out == answers[n]
<1>1. n \in Nat /\ n > 0 /\ DOMAIN answers = 1 .. n /\ n \in DOMAIN answers /\ Last(answers) = out
  <2>1. answers \in Seq(ObservationOut) /\ answers # <<>>
    BY DEF IInv, Shape, SearchInv
  <2>2. QED
    BY <2>1 DEF Last
<1>2. /\ n + Len(days) = Lookback + 2
      /\ \A i \in 1 .. n : answers[i].day = Window[i]
      /\ \A i \in 1 .. n : i < n => answers[i].value = None
      /\ days = <<>> \/ out.value # None
  BY <1>1 DEF IInv, SearchInv
<1>3. /\ lastDate = None <=> StatusDates = {}
      /\ lastDate # None => lastDate \in Int /\ \A d \in StatusDates : d <= lastDate
  BY ViewAssumption DEF IInv, Shape, DateInv
<1>4. \A d : d \in StatusDates <=>
               \E r \in rows, k \in DOMAIN EnabledSources :
                 r.day = d /\ r.source = EnabledSources[k] /\ Steady(k)
  BY DEF StatusDates
<1>5. \A i \in 1 .. n : AnswerInv(answers[i])
  BY <1>1 DEF IInv
<1>6. before = rows
  BY DEF IInv, HistoryInv
<1>7. ASSUME out.value # None
      PROVE  out.day \in StatusDates /\ out.day \in Today - Lookback .. Today
  <2>1. /\ out.value \in rows /\ out.value.day = out.day
        /\ Publishable(out.value.source) /\ out.value.source \in ToSet(EnabledSources)
    BY <1>1, <1>5, <1>7 DEF AnswerInv
  <2>2. PICK k \in DOMAIN EnabledSources : out.value.source = EnabledSources[k]
    BY <2>1, EnabledType
  <2>3. Steady(k)
    BY <2>1, <2>2, PublishableIsSteady
  <2>4. out.day \in StatusDates
    BY <1>4, <2>1, <2>2, <2>3
  <2>5. n \in 1 .. Lookback + 2
    <3>1. Len(days) \in Nat
      BY DEF IInv, Shape
    <3> HIDE DEF n
    <3>2. QED
      BY <1>1, <1>2, <3>1, ViewAssumption
  <2>6. out.day = Window[n]
    BY <1>1, <1>2
  <2>7. QED
    BY <2>4, <2>5, <2>6, WindowType
<1>8. ASSUME NEW d \in StatusDates, d \in Today - Lookback .. Today, out.value = None
      PROVE  FALSE
  <2>1. n = Lookback + 2
    <3>1. days = <<>>
      BY <1>2, <1>8
    <3>2. Len(days) = 0
      BY <3>1
    <3> HIDE DEF n
    <3>3. QED
      BY <1>1, <1>2, <3>2
  <2>2. PICK i \in 1 .. Lookback + 1 : Window[i] = d
    BY <1>8, WindowType
  <2>3. i \in 1 .. n /\ i < n
    BY <2>1, ViewAssumption
  <2>4. answers[i].day = d /\ answers[i].value = None /\ AnswerInv(answers[i])
    BY <1>2, <1>5, <2>2, <2>3
  <2>5. PICK r \in rows, k \in DOMAIN EnabledSources :
          r.day = d /\ r.source = EnabledSources[k] /\ Steady(k)
    BY <1>4, <1>8
  <2>6. Had(k, d)
    BY <1>6, <2>5 DEF Had
  <2>7. QED
    BY <2>4, <2>5, <2>6 DEF AnswerInv
<1> HIDE DEF n, out
<1>9. out.value # None => lastDate >= out.day
  <2> SUFFICES ASSUME out.value # None PROVE lastDate >= out.day
    OBVIOUS
  <2>1. out.day \in StatusDates /\ out.day \in Int
    BY <1>7, ViewAssumption
  <2>2. lastDate \in Int /\ out.day <= lastDate
    BY <1>3, <2>1
  <2>3. QED
    BY <2>1, <2>2
<1>10. out.value # None <=> StatusDates \intersect (Today - Lookback .. Today) # {}
  BY <1>7, <1>8
<1>11. QED
  BY <1>1, <1>3, <1>9, <1>10

\* The two halves of the data status agree if nothing is committed meanwhile, though
\* find_latest_observation goes back day by day and latest_publishable_session_date
\* takes a maximum: a value is found if and only if the window has a publishable
\* session, and the date is at least as late as the session found.
THEOREM StatusHalvesAgree == Spec => []StatusAgrees
BY Inductive, ImpliesStatusAgrees, PTL
=============================================================================

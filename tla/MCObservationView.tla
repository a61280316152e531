--------------------------- MODULE MCObservationView ---------------------------
(* Two enabled sources, one of them with two credential scopes, and a source *)
(* that is not enabled any more.  The search for the latest value covers the *)
(* days 1 and 2; there are observations of an earlier day and, as the clocks *)
(* of the two sides may differ by a time zone, of the day after.             *)
EXTENDS ObservationView

CONSTANTS hi, lo, off, main, spare, x, y

MCEnabledSources == <<hi, lo>>
MCDays == 0 .. 3
MCExpectation == [d \in MCDays |-> IF d = 2 THEN "WAITING_FOR_PUBLICATION"
                                   ELSE "EXPECTED_PUBLISHED"]

Obs(s, scope, d, revision, close, at) ==
  [source |-> s, scope |-> scope, day |-> d, revision |-> revision, close |-> close,
   retrieved_at |-> at]

\* Nothing but an old and a future session; the second source alone, corrected once;
\* the first with both scopes, and the others.
MCInitialRows ==
  {{Obs(hi, main, 0, 1, x, 1), Obs(lo, main, 3, 1, x, 2)},
   {Obs(lo, main, 1, 1, x, 1), Obs(lo, main, 1, 2, y, 2), Obs(off, main, 2, 1, y, 3)},
   {Obs(hi, main, 2, 1, x, 1), Obs(hi, spare, 2, 1, y, 2), Obs(lo, main, 2, 1, y, 3)},
   {Obs(hi, main, 2, 1, x, 1), Obs(off, main, 2, 1, y, 2)}}

MCDecisions == {hi, lo} \X ToSet(Publication)

MCRevisions ==
  {[source |-> s, scope |-> main, day |-> d, close |-> y] : s \in {hi, lo}, d \in {1, 2}}

MCInitialPolicies ==
  {Sources \X Capability, (Sources \X Capability) \ {<<hi, "DISPLAY">>}}
=============================================================================

------------------------- MODULE MCObservationStore -------------------------
(* Two sessions, two natural keys, one with at most three revisions and    *)
(* one with at most two; three values, of which the columns round one to   *)
(* another.                                                                *)
EXTENDS ObservationStore, TLC

CONSTANTS v1, v2, fine, k1, k2

MCStored == [v \in Values |-> IF v = fine THEN v1 ELSE v]
MCMaxRevision == (k1 :> 3) @@ (k2 :> 2)

Symmetry == Permutations(Sessions)
=============================================================================

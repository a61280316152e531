----------------------------- MODULE MCJobQueue -----------------------------
(* Three processes, of which two share a worker id; a lease of one tick.   *)
EXTENDS JobQueue, TLC

CONSTANTS p1, p2, scheduler, other

MCWorkerId == [p \in Processes |-> IF p \in {p1, p2} THEN scheduler ELSE other]
MCResetAt == {Null, 1}
MCRetryAt == {1}
Symmetry == Permutations({p1, p2})
=============================================================================

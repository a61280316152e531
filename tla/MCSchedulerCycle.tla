-------------------------- MODULE MCSchedulerCycle --------------------------
(* Two scheduler processes, two jobs, a lease of one tick.                 *)
EXTENDS SchedulerCycle, TLC

\* What entrypoints/scheduler.py deploys: every process is "scheduler".
MCSharedId == [p \in Processes |-> CHOOSE w \in Workers : TRUE]

\* What claim_and_process's worker_id parameter allows: an id per process.
MCDistinctIds == CHOOSE f \in [Processes -> Workers] : IsInjective(f)

MCResetAt == {Null}
MCNoDeferral == {}

MCPendingRows == {PendingRow(0)}
MCAllRows == {PendingRow(0), WaitingRow(1)}

Symmetry == Permutations(Jobs) \union Permutations(Processes)
JobSymmetry == Permutations(Jobs)
=============================================================================

------------------------------ MODULE JobLease ------------------------------
(***************************************************************************)
(* What the queue promises about a job, without rows, clocks, generations  *)
(* or processes: a job is handed to one holder at a time; only that holder *)
(* can finish it or hand it back; the queue may take it away from          *)
(* a silent holder, which costs one attempt; a job that used up its        *)
(* attempts has failed; and a job that is done or failed stays so.         *)
(***************************************************************************)
EXTENDS Integers

CONSTANTS Jobs, Holders, None, MaxAttempts

VARIABLES
  phase,   \* phase[j]: where job j stands
  holder,  \* holder[j]: the one who took or moved job j last, or None
  spent    \* spent[j]: how many attempts of job j were used up

vars == <<phase, holder, spent>>

Phase == {"absent", "open", "held", "done", "failed"}

Init ==
  /\ phase \in [Jobs -> {"absent", "open"}]
  /\ holder = [j \in Jobs |-> None]
  /\ spent = [j \in Jobs |-> 0]

-----------------------------------------------------------------------------
\* The legal changes of one job in a step of holder p.
Becomes(j, ph, h, n) ==
  /\ phase'[j] = ph
  /\ holder'[j] = h
  /\ spent'[j] = n

Same(j) == Becomes(j, phase[j], holder[j], spent[j])

Open(j) == phase[j] = "absent" /\ Becomes(j, "open", holder[j], spent[j])

Grant(p, j) == phase[j] = "open" /\ Becomes(j, "held", p, spent[j])

\* One attempt is used up: the job is open again or, with none left, failed.
UseUp(j) ==
  LET n == spent[j] + 1
  IN  Becomes(j, IF n >= MaxAttempts THEN "failed" ELSE "open", holder[j], n)

Revoke(j) == phase[j] = "held" /\ UseUp(j)

Fail(p, j) == phase[j] = "held" /\ holder[j] = p /\ UseUp(j)

GiveBack(p, j) ==
  phase[j] = "held" /\ holder[j] = p /\ Becomes(j, "open", p, spent[j])

Finish(p, j) ==
  phase[j] = "held" /\ holder[j] = p /\ Becomes(j, "done", p, spent[j])

\* One statement or transaction changes any number of jobs.
Next ==
  \E p \in Holders : \A j \in Jobs :
    \/ Same(j)
    \/ Open(j)
    \/ Grant(p, j)
    \/ Revoke(j)
    \/ Fail(p, j)
    \/ GiveBack(p, j)
    \/ Finish(p, j)

Spec == Init /\ [][Next]_vars
=============================================================================

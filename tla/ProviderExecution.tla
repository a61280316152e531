-------------------------- MODULE ProviderExecution --------------------------
(***************************************************************************)
(* run_with_deadline: one provider call in a forked child, a pipe from the *)
(* child to the parent, and a deadline.  The parent reads the pipe only    *)
(* after the child is dead, so a child whose message does not fit into the *)
(* pipe stays in its write until the deadline.                             *)
(*                                                                         *)
(* A message is so many units long, and the pipe holds PipeCapacity units. *)
(* What the provider answers is left to the caller's module.               *)
(***************************************************************************)
EXTENDS Naturals

CONSTANTS
  PipeCapacity,  \* units of a message the pipe holds
  Sizes          \* sizes a pickled answer may have

ASSUME PipeAssumption ==
  /\ PipeCapacity \in Nat \ {0}
  /\ Sizes \subseteq Nat \ {0}

VARIABLES
  parent,   \* where the caller is in run_with_deadline
  child,    \* where the child is in _invoke
  message,  \* what the child sends, and how much of it is in the pipe
  expired,  \* the deadline of this call has passed
  outcome   \* how the last call ended

callVars == <<parent, child, message, expired, outcome>>

NoMessage == [ok |-> FALSE, size |-> 0, sent |-> 0]

Alive == child \in {"running", "sending"}

CallTypeOK ==
  /\ parent \in {"idle", "join", "grace", "killed"}
  /\ child \in {"none", "running", "sending", "dead"}
  /\ message \in [ok : BOOLEAN, size : Nat, sent : Nat]
  /\ expired \in BOOLEAN
  /\ outcome \in {"none", "value", "timeout", "process_error", "eof_error"}

CallInit ==
  /\ parent = "idle" /\ child = "none" /\ message = NoMessage
  /\ expired = FALSE /\ outcome = "none"

-----------------------------------------------------------------------------
(* The parent.                                                             *)

StartCall ==
  /\ parent = "idle"
  /\ parent' = "join" /\ child' = "running" /\ message' = NoMessage
  /\ expired' = FALSE /\ outcome' = "none"

\* The caller has taken the outcome: what is left of the call is forgotten.
EndCall ==
  /\ parent' = "idle" /\ child' = "none" /\ message' = NoMessage
  /\ expired' = FALSE /\ outcome' = "none"

Return(result) == parent' = "idle" /\ outcome' = result

\* The child was still alive when join gave up: SIGTERM.
Terminate ==
  /\ parent = "join" /\ expired /\ Alive
  /\ parent' = "grace"
  /\ UNCHANGED <<child, message, expired, outcome>>

\* Deliberate bug: the second join has no timeout either.
KillNever ==
  /\ parent = "grace" /\ Alive
  /\ UNCHANGED callVars

\* A second of grace was not enough: SIGKILL.
Kill ==
  /\ parent = "grace" /\ Alive
  /\ parent' = "killed"
  /\ UNCHANGED <<child, message, expired, outcome>>

\* Deliberate bug: the parent does not wait for the child it has terminated.
RaiseTimeoutAtOnce ==
  /\ parent \in {"grace", "killed"}
  /\ Return("timeout")
  /\ UNCHANGED <<child, message, expired>>

RaiseTimeout ==
  /\ parent \in {"grace", "killed"} /\ ~Alive
  /\ Return("timeout")
  /\ UNCHANGED <<child, message, expired>>

\* Deliberate bug: what is in the pipe is taken for the answer.
ReceiveAnything ==
  /\ parent = "join" /\ child = "dead"
  /\ Return(IF message.ok THEN "value" ELSE "process_error")
  /\ UNCHANGED <<child, message, expired>>

\* The child is dead, so all of its message that will ever come is in the pipe.
\* A pipe with no writer left is readable, so poll is true even if it is empty,
\* and recv of an empty or cut-off message raises EOFError.
Receive ==
  /\ parent = "join" /\ child = "dead"
  /\ Return(IF message.size = 0 \/ message.sent < message.size THEN "eof_error"
            ELSE IF message.ok THEN "value" ELSE "process_error")
  /\ UNCHANGED <<child, message, expired>>

-----------------------------------------------------------------------------
(* The child.                                                              *)

\* The provider returns, or raises; a result that cannot be pickled raises too.
Answer ==
  /\ child = "running"
  /\ \/ \E size \in Sizes : message' = [ok |-> TRUE, size |-> size, sent |-> 0]
     \/ message' = [ok |-> FALSE, size |-> 1, sent |-> 0]
  /\ child' = "sending"
  /\ UNCHANGED <<parent, expired, outcome>>

Write ==
  /\ child = "sending" /\ message.sent < message.size
  /\ message.sent < PipeCapacity
  /\ message' = [message EXCEPT !.sent = @ + 1]
  /\ UNCHANGED <<parent, child, expired, outcome>>

Exit ==
  /\ child = "sending" /\ message.sent = message.size
  /\ child' = "dead"
  /\ UNCHANGED <<parent, message, expired, outcome>>

\* It dies by itself or by a signal, whatever it was doing.
Die ==
  /\ Alive
  /\ child' = "dead"
  /\ UNCHANGED <<parent, message, expired, outcome>>

-----------------------------------------------------------------------------
Expire ==
  /\ parent = "join" /\ ~expired
  /\ expired' = TRUE
  /\ UNCHANGED <<parent, child, message, outcome>>

\* A call in progress.
CallStep ==
  \/ Terminate \/ Kill \/ RaiseTimeout \/ Receive
  \/ Answer \/ Write \/ Exit \/ Die
  \/ Expire

-----------------------------------------------------------------------------
(* Properties.                                                             *)

\* "Provider code runs in a short-lived process": when run_with_deadline returns
\* or raises, its child is dead.  (The child of a parent that dies itself is not
\* followed.)
NoChildLeft == parent = "idle" => ~Alive

\* A returned value is the whole answer of a child that succeeded, never the part
\* of it that was in the pipe when the child died.
ValueIsWhole ==
  outcome = "value" => message.ok /\ message.size > 0 /\ message.sent = message.size

\* Only a call whose deadline has passed times out; and an answer that does not
\* fit into the pipe is never received, since nobody reads while the child writes.
TimeoutIsLate == outcome = "timeout" => expired
OversizedIsLost == outcome = "value" => message.size <= PipeCapacity

CallSafe == NoChildLeft /\ ValueIsWhole /\ TimeoutIsLate /\ OversizedIsLost

-----------------------------------------------------------------------------
\* The inductive invariant: a call in progress has no outcome, the pipe never holds
\* more than fits, a message exists once the child sends, and the parent is past
\* its join only when the deadline has passed.
CallInv ==
  /\ CallTypeOK
  /\ message.sent <= message.size /\ message.sent <= PipeCapacity
  /\ parent # "idle" => outcome = "none" /\ child # "none"
  /\ parent \in {"grace", "killed"} => expired
  /\ CallSafe
=============================================================================

---------------------------- MODULE MCPolicyGate ----------------------------
(* Two reviewers and one checker of the gates of a source.                 *)
EXTENDS PolicyGate, TLC

MCRecordable == {"APPROVED", "DENIED"}

\* Everything but redistribution was approved, which nobody has decided on.
MCInitialPolicies ==
  {{[capability |-> capability, version |-> 1, status |-> "APPROVED"] :
      capability \in {"RETRIEVE", "STORE", "DISPLAY"}}}

Symmetry == Permutations(Reviewers)
=============================================================================

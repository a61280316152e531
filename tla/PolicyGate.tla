----------------------------- MODULE PolicyGate -----------------------------
(***************************************************************************)
(* The versioned policy decisions of one source and the gates that read    *)
(* them (READ COMMITTED).  Reviewers record decisions, several in one      *)
(* transaction; the scheduler and the API check the gates, one SELECT per  *)
(* capability, while decisions are committed in between.                   *)
(*                                                                         *)
(* authorize_ingestion reads twice: the statuses it requires, and then the *)
(* decisions it returns as the evidence of the authorization.              *)
(***************************************************************************)
EXTENDS Integers, Sequences, FiniteSets, SequencesExt

CONSTANTS
  Reviewers,       \* sessions that record decisions
  Checkers,        \* sessions that check a gate
  Recordable,      \* statuses the reviewers record
  InitialPolicies, \* the decisions that may have been committed before
  MaxDecisions     \* bound on the decisions of the source, over all capabilities

PolicyStatus == {"APPROVED", "DENIED", "UNRESOLVED"}

\* Capabilities a gate requires, in the order it reads them.
Gates ==
  [ingestion   |-> <<"RETRIEVE", "STORE">>,
   publication |-> <<"STORE", "DISPLAY", "REDISTRIBUTE">>]

Capability == {"RETRIEVE", "STORE", "DISPLAY", "REDISTRIBUTE"}

ASSUME PolicyAssumption ==
  /\ Recordable \subseteq PolicyStatus
  /\ MaxDecisions \in Nat

Decision == [capability : Capability, version : Nat \ {0}, status : PolicyStatus]

Versions(S, capability) == {d.version : d \in {x \in S : x.capability = capability}}

Contiguous(S) ==
  \A capability \in Capability :
    Versions(S, capability) = 1 .. Cardinality({d \in S : d.capability = capability})

ASSUME InitialAssumption ==
  \A S \in InitialPolicies : S \subseteq Decision /\ IsFiniteSet(S) /\ Contiguous(S)

VARIABLES
  decisions, \* the committed decisions
  own,       \* own[r]: decisions reviewer r has inserted and not committed
  draft,     \* draft[r]: the decision record_decision of r is about to insert
  gate,      \* gate[c]: the gate c is checking
  statuses,  \* statuses[c]: the statuses c has read
  evidence,  \* evidence[c]: the decisions c has read to refer to
  result,    \* result[c]: the answer to c
  during     \* history: what was effective at some instant of c's check

vars == <<decisions, own, draft, gate, statuses, evidence, result, during>>

-----------------------------------------------------------------------------
\* effective_decision returned None: its status counts as UNRESOLVED.
Undecided(capability) ==
  [capability |-> capability, version |-> 0, status |-> "UNRESOLVED"]
NoDraft == [capability |-> "none", version |-> 0, status |-> "UNRESOLVED"]

\* Deliberate bugs: the first version counts, or an absent one does.
FirstDecision(S, capability) ==
  IF 1 \in Versions(S, capability)
    THEN CHOOSE d \in S : d.capability = capability /\ d.version = 1
    ELSE Undecided(capability)
DecisionOrApproved(S, capability) ==
  IF Versions(S, capability) = {}
    THEN [Undecided(capability) EXCEPT !.status = "APPROVED"]
    ELSE CHOOSE d \in S : /\ d.capability = capability
                          /\ \A v \in Versions(S, capability) : v <= d.version

\* effective_decision and effective_status: the highest version.
EffectiveDecision(S, capability) ==
  IF Versions(S, capability) = {} THEN Undecided(capability)
  ELSE CHOOSE d \in S : /\ d.capability = capability
                        /\ \A v \in Versions(S, capability) : v <= d.version

\* The decisions of S that count for a gate, in the words of class
\* SourcePolicyDecision: the rows with the highest version.
InForce(S, g) ==
  {d \in S : /\ d.capability \in ToSet(Gates[g])
             /\ \A x \in S : x.capability = d.capability => x.version <= d.version}

TypeOK ==
  /\ decisions \subseteq Decision
  /\ own \in [Reviewers -> SUBSET Decision]
  /\ draft \in [Reviewers -> Decision \union {NoDraft}]
  /\ gate \in [Checkers -> DOMAIN Gates \union {"none"}]
  /\ \A c \in Checkers :
       /\ statuses[c] \in Seq(PolicyStatus)
       /\ Len(statuses[c]) <= 3
       /\ Len(evidence[c]) <= Len(statuses[c])
       /\ during[c] \subseteq [capability : Capability, version : Nat, status : PolicyStatus]
  /\ result \in [Checkers -> {"none", "denied", "granted"}]

Init ==
  /\ decisions \in InitialPolicies
  /\ own = [r \in Reviewers |-> {}]
  /\ draft = [r \in Reviewers |-> NoDraft]
  /\ gate = [c \in Checkers |-> "none"]
  /\ statuses = [c \in Checkers |-> <<>>]
  /\ evidence = [c \in Checkers |-> <<>>]
  /\ result = [c \in Checkers |-> "none"]
  /\ during = [c \in Checkers |-> {}]

-----------------------------------------------------------------------------
(* Reviewers: record_decision.                                             *)

checks == <<gate, statuses, evidence, result, during>>

\* Deliberate bug: the highest version, not the one after it.
NextVersionTaken(r, capability, status) ==
  LET S == decisions \union own[r]
  IN  /\ draft[r] = NoDraft
      /\ Cardinality(S) < MaxDecisions
      /\ draft' = [draft EXCEPT ![r] =
                     [EffectiveDecision(S, capability) EXCEPT !.status = status]]
      /\ UNCHANGED <<decisions, own, checks>>

\* _next_version.
NextVersion(r, capability, status) ==
  LET S == decisions \union own[r]
  IN  /\ draft[r] = NoDraft
      /\ Cardinality(S) < MaxDecisions
      /\ draft' = [draft EXCEPT ![r] =
                     [capability |-> capability,
                      version    |-> EffectiveDecision(S, capability).version + 1,
                      status     |-> status]]
      /\ UNCHANGED <<decisions, own, checks>>

SameVersion(d, S) == \E x \in S : x.capability = d.capability /\ x.version = d.version

\* Deliberate bug: no unique constraint stops a second decision of one version.
FlushUnchecked(r) ==
  /\ draft[r] # NoDraft
  /\ own' = [own EXCEPT ![r] = @ \union {draft[r]}]
  /\ draft' = [draft EXCEPT ![r] = NoDraft]
  /\ UNCHANGED <<decisions, checks>>

\* The INSERT: it waits for a rival that is still open, and raises IntegrityError,
\* which ends the reviewer's transaction, if the version is taken.
Flush(r) ==
  /\ draft[r] # NoDraft
  /\ \A q \in Reviewers \ {r} : ~SameVersion(draft[r], own[q])
  /\ own' = [own EXCEPT ![r] =
               IF SameVersion(draft[r], decisions) THEN {} ELSE @ \union {draft[r]}]
  /\ draft' = [draft EXCEPT ![r] = NoDraft]
  /\ UNCHANGED <<decisions, checks>>

Commit(r) ==
  /\ draft[r] = NoDraft /\ own[r] # {}
  /\ decisions' = decisions \union own[r]
  /\ own' = [own EXCEPT ![r] = {}]
  /\ during' = [c \in Checkers |->
                  IF gate[c] = "none" THEN {}
                  ELSE during[c] \union InForce(decisions', gate[c])]
  /\ UNCHANGED <<draft, gate, statuses, evidence, result>>

\* The reviewer gives up, or dies, or is the victim of a deadlock.
Rollback(r) ==
  /\ own' = [own EXCEPT ![r] = {}]
  /\ draft' = [draft EXCEPT ![r] = NoDraft]
  /\ UNCHANGED <<decisions, checks>>

-----------------------------------------------------------------------------
(* Checkers: authorize_ingestion, and the gate of publication.             *)

Required(c) == Gates[gate[c]]

StartCheck(c, g) ==
  /\ gate[c] = "none"
  /\ gate' = [gate EXCEPT ![c] = g]
  /\ during' = [during EXCEPT ![c] = InForce(decisions, g)]
  /\ UNCHANGED <<decisions, own, draft, statuses, evidence, result>>

\* is_publication_authorized stops at the first capability that is not approved;
\* require reads all of them.
MoreToRead(c) ==
  /\ gate[c] # "none"
  /\ Len(statuses[c]) < Len(Required(c))
  /\ gate[c] = "publication" => \A n \in DOMAIN statuses[c] : statuses[c][n] = "APPROVED"

ReadStatus(c) ==
  /\ MoreToRead(c)
  /\ LET capability == Required(c)[Len(statuses[c]) + 1]
     IN  statuses' = [statuses EXCEPT ![c] =
                        Append(@, EffectiveDecision(decisions, capability).status)]
  /\ UNCHANGED <<decisions, own, draft, gate, evidence, result, during>>

Approved(c) == \A n \in DOMAIN statuses[c] : statuses[c][n] = "APPROVED"

Deny(c) ==
  /\ gate[c] # "none" /\ ~MoreToRead(c) /\ ~Approved(c) /\ result[c] = "none"
  /\ result' = [result EXCEPT ![c] = "denied"]
  /\ UNCHANGED <<decisions, own, draft, gate, statuses, evidence, during>>

\* The effective_decision calls after require.
ReadEvidence(c) ==
  /\ gate[c] = "ingestion" /\ ~MoreToRead(c) /\ Approved(c)
  /\ Len(evidence[c]) < Len(Required(c))
  /\ LET capability == Required(c)[Len(evidence[c]) + 1]
     IN  evidence' = [evidence EXCEPT ![c] =
                        Append(@, EffectiveDecision(decisions, capability))]
  /\ UNCHANGED <<decisions, own, draft, gate, statuses, result, during>>

Grant(c) ==
  /\ gate[c] # "none" /\ ~MoreToRead(c) /\ Approved(c) /\ result[c] = "none"
  /\ gate[c] = "ingestion" => Len(evidence[c]) = Len(Required(c))
  /\ result' = [result EXCEPT ![c] = "granted"]
  /\ UNCHANGED <<decisions, own, draft, gate, statuses, evidence, during>>

\* The caller has used the answer.
EndCheck(c) ==
  /\ result[c] # "none"
  /\ gate' = [gate EXCEPT ![c] = "none"]
  /\ statuses' = [statuses EXCEPT ![c] = <<>>]
  /\ evidence' = [evidence EXCEPT ![c] = <<>>]
  /\ result' = [result EXCEPT ![c] = "none"]
  /\ during' = [during EXCEPT ![c] = {}]
  /\ UNCHANGED <<decisions, own, draft>>

Next ==
  \/ \E r \in Reviewers :
       \/ \E capability \in Capability, status \in Recordable :
            NextVersion(r, capability, status)
       \/ Flush(r) \/ Commit(r) \/ Rollback(r)
  \/ \E c \in Checkers :
       \/ \E g \in DOMAIN Gates : StartCheck(c, g)
       \/ ReadStatus(c) \/ Deny(c) \/ ReadEvidence(c) \/ Grant(c) \/ EndCheck(c)

Spec == Init /\ [][Next]_vars

-----------------------------------------------------------------------------
(* Properties.                                                             *)

\* "Inserts a new version of the decision": a capability's versions are numbered
\* from 1 without a gap or a repetition, whichever open reviewers commit.
VersionsContiguous ==
  \A r \in Reviewers, capability \in Capability :
    LET S == decisions \union own[r]
    IN  /\ Contiguous(S)
        /\ \A q \in Reviewers \ {r} :
             Versions(S, capability) \intersect Versions(own[q], capability) = {}

\* A gate opens only if every capability it requires was approved at some instant
\* of the check: a denial committed before a check starts, and not lifted in its
\* course, closes the gate, and no decision at all counts as a denial.
GrantsWereApproved ==
  \A c \in Checkers : result[c] = "granted" =>
    \A capability \in ToSet(Required(c)) :
      \E d \in during[c] : d.capability = capability /\ d.status = "APPROVED"

\* The evidence of an authorization was in force during the check, and is at least
\* as new as an approval the check relied on.
EvidenceWasInForce ==
  \A c \in Checkers : \A n \in DOMAIN evidence[c] :
    /\ evidence[c][n] \in during[c]
    /\ \E d \in during[c] :
         /\ d.capability = evidence[c][n].capability
         /\ d.status = "APPROVED" /\ d.version <= evidence[c][n].version

-----------------------------------------------------------------------------
(* What the documents say of the gate.                                     *)

\* "Immutable decisions that authorized retrieval and storage": the decisions an
\* ingestion authorization refers to are approvals.
EvidenceAuthorizes ==
  \A c \in Checkers : result[c] = "granted" =>
    \A n \in DOMAIN evidence[c] : evidence[c][n].status = "APPROVED"
=============================================================================

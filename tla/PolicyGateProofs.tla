-------------------------- MODULE PolicyGateProofs --------------------------
(***************************************************************************)
(* Proofs about PolicyGate, for any number of reviewers and checkers and   *)
(* any decisions made before.  The versions of a capability are the work   *)
(* of one open transaction at a time, after the committed ones; a check    *)
(* only ever reads decisions that are committed, and these never go.       *)
(***************************************************************************)
EXTENDS PolicyGate, FiniteSetTheorems, TLAPS

-----------------------------------------------------------------------------
(* The versions of a capability in a set of decisions.                     *)

Numbered(S, capability) == \E n \in Nat : Versions(S, capability) = 1 .. n

Unique(S) ==
  \A d, x \in S : d.capability = x.capability /\ d.version = x.version => d = x

\* The versions of a capability, spelled out.
LEMMA HasVersion ==
  ASSUME NEW S, NEW capability
  PROVE  \A v : v \in Versions(S, capability) <=>
                  \E d \in S : d.capability = capability /\ d.version = v
BY DEF Versions

\* The versions of two sets of decisions together.
LEMMA VersionsOfUnion ==
  ASSUME NEW S, NEW T, NEW capability
  PROVE  Versions(S \union T, capability) = Versions(S, capability) \union Versions(T, capability)
<1>1. \A v : v \in Versions(S \union T, capability) <=>
               \E d \in S \union T : d.capability = capability /\ d.version = v
  BY HasVersion
<1>2. \A v : v \in Versions(S, capability) <=>
               \E d \in S : d.capability = capability /\ d.version = v
  BY HasVersion
<1>3. \A v : v \in Versions(T, capability) <=>
               \E d \in T : d.capability = capability /\ d.version = v
  BY HasVersion
<1>4. QED
  BY <1>1, <1>2, <1>3

\* Decisions on other capabilities do not count.
LEMMA NoVersions ==
  ASSUME NEW S, NEW capability, \A d \in S : d.capability # capability
  PROVE  Versions(S, capability) = {}
BY HasVersion

\* Without repetitions, the decisions on a capability are as many as its versions.
LEMMA NumberedContiguous ==
  ASSUME NEW S \in SUBSET Decision, Unique(S), NEW capability, Numbered(S, capability)
  PROVE  Versions(S, capability) = 1 .. Cardinality({d \in S : d.capability = capability})
<1> DEFINE D == {d \in S : d.capability = capability}
<1>1. PICK n \in Nat : Versions(S, capability) = 1 .. n
  BY DEF Numbered
<1> DEFINE f == [v \in 1 .. n |-> CHOOSE d \in D : d.version = v]
<1>2. \A v : v \in Versions(S, capability) <=> \E d \in D : d.version = v
  BY HasVersion
<1>3. \A v \in 1 .. n : f[v] \in D /\ f[v].version = v
  BY <1>1, <1>2
<1>4. \A d \in D : d.version \in 1 .. n
  BY <1>1, <1>2
<1>5. \A d \in D : f[d.version] = d
  <2> SUFFICES ASSUME NEW d \in D PROVE f[d.version] = d
    OBVIOUS
  <2>1. f[d.version] \in D /\ f[d.version].version = d.version
    BY <1>3, <1>4
  <2>2. QED
    BY <2>1 DEF Unique
<1>6. f \in [1 .. n -> D]
  BY <1>3
<1> HIDE DEF f, D
<1>7. f \in Bijection(1 .. n, D)
  BY <1>3, <1>4, <1>5, <1>6 DEF Bijection, Injection, Surjection, IsInjective
<1>8. Cardinality(D) = n
  BY <1>7, FS_CountingElements DEF ExistsBijection
<1>9. QED
  BY <1>1, <1>8 DEF D

\* As many decisions as versions: no version is repeated.
LEMMA ContiguousUnique ==
  ASSUME NEW S \in SUBSET Decision, IsFiniteSet(S), Contiguous(S)
  PROVE  (\A capability \in Capability : Numbered(S, capability)) /\ Unique(S)
<1>1. ASSUME NEW capability \in Capability
      PROVE  /\ Numbered(S, capability)
             /\ \A d, x \in S : /\ d.capability = capability /\ x.capability = capability
                                /\ d.version = x.version
                                => d = x
  <2> DEFINE D == {d \in S : d.capability = capability}
             n == Cardinality(D)
             f == [d \in D |-> d.version]
  <2>1. D \subseteq S
    OBVIOUS
  <2>2. IsFiniteSet(D)
    BY <2>1, FS_Subset
  <2>3. n \in Nat
    BY <2>2, FS_CardinalityType
  <2>4. Versions(S, capability) = 1 .. n
    BY DEF Contiguous
  <2>5. \A v : v \in 1 .. n <=> \E d \in D : d.version = v
    <3>1. \A v : v \in Versions(S, capability) <=> \E d \in D : d.version = v
      BY HasVersion
    <3> HIDE DEF n, D
    <3>2. QED
      BY <2>4, <3>1
  <2>6. IsFiniteSet(1 .. n) /\ Cardinality(1 .. n) = n
    BY <2>3, FS_Interval
  <2>7. f \in [D -> 1 .. n]
    BY <2>5
  <2>8. \A v \in 1 .. n : \E d \in D : f[d] = v
    BY <2>5
  <2>9. \A d \in D : f[d] = d.version
    OBVIOUS
  <2> HIDE DEF f, n
  <2>10. f \in Surjection(D, 1 .. n)
    BY <2>7, <2>8 DEF Surjection
  <2>11. f \in Injection(D, 1 .. n)
    BY <2>2, <2>6, <2>10, FS_SurjSameCardinalityImpliesInj DEF n
  <2>12. \A d, x \in D : d.version = x.version => d = x
    BY <2>9, <2>11 DEF Injection, IsInjective
  <2>13. QED
    BY <2>3, <2>4, <2>12 DEF Numbered
<1>2. \A d \in S : d.capability \in Capability
  BY DEF Decision
<1>3. QED
  BY <1>1, <1>2 DEF Unique

\* effective_decision: none, or the decision with the highest version.
LEMMA EffectiveIs ==
  ASSUME NEW S \in SUBSET Decision, NEW capability, NEW n \in Nat,
         Versions(S, capability) = 1 .. n
  PROVE  /\ n = 0 => EffectiveDecision(S, capability) = Undecided(capability)
         /\ n # 0 => /\ EffectiveDecision(S, capability) \in S
                     /\ EffectiveDecision(S, capability).capability = capability
         /\ EffectiveDecision(S, capability).version = n
<1>1. CASE n = 0
  BY <1>1 DEF EffectiveDecision, Undecided
<1>2. CASE n # 0
  <2> DEFINE Highest(d) == /\ d.capability = capability
                           /\ \A v \in Versions(S, capability) : v <= d.version
             e == CHOOSE d \in S : Highest(d)
  <2>1. n \in Versions(S, capability)
    BY <1>2
  <2>2. \A v : v \in Versions(S, capability) <=>
               \E d \in S : d.capability = capability /\ d.version = v
    BY DEF Versions
  <2>3. \E d \in S : Highest(d)
    BY <2>1, <2>2
  <2>4. e \in S /\ Highest(e)
    BY <2>3
  <2>5. e.version \in 1 .. n
    BY <2>2, <2>4
  <2>6. e.version = n
    BY <1>2, <2>1, <2>4, <2>5
  <2>7. EffectiveDecision(S, capability) = e
    BY <2>1 DEF EffectiveDecision
  <2>8. QED
    BY <1>2, <2>4, <2>6, <2>7
<1>3. QED
  BY <1>1, <1>2

-----------------------------------------------------------------------------
(* The inductive invariant.                                                *)

\* What the statements of reviewer r see.
Seen(r) == decisions \union own[r]

Shape ==
  /\ decisions \subseteq Decision
  /\ own \in [Reviewers -> SUBSET Decision]
  /\ draft \in [Reviewers -> Decision \union {NoDraft}]
  /\ gate \in [Checkers -> DOMAIN Gates \union {"none"}]
  /\ statuses \in [Checkers -> Seq(PolicyStatus)]
  /\ evidence \in [Checkers -> Seq(Decision)]
  /\ result \in [Checkers -> {"none", "denied", "granted"}]
  /\ during \in [Checkers -> SUBSET Decision]

CommittedInv ==
  /\ \A capability \in Capability : Numbered(decisions, capability)
  /\ Unique(decisions)

\* The versions that r sees are a history, of which r adds the end, alone.
ReviewerInv(r) ==
  /\ \A capability \in Capability : Numbered(Seen(r), capability)
  /\ Unique(Seen(r))
  /\ \A d \in own[r], x \in decisions : d.capability = x.capability => x.version < d.version
  /\ \A q \in Reviewers \ {r} : \A d \in own[r], x \in own[q] : d.capability # x.capability

\* The version r is about to insert comes after one that r sees, and is not its own.
DraftInv(r) ==
  draft[r] # NoDraft =>
    /\ draft[r].version = 1 \/ draft[r].version - 1 \in Versions(Seen(r), draft[r].capability)
    /\ \A d \in own[r] : d.capability = draft[r].capability => d.version < draft[r].version

\* What c has read was in force during its check; what is in force now counts as such.
CheckInv(c) ==
  /\ during[c] \subseteq decisions
  /\ gate[c] = "none" => statuses[c] = <<>> /\ evidence[c] = <<>> /\ result[c] = "none"
  /\ gate[c] # "none" =>
       /\ InForce(decisions, gate[c]) \subseteq during[c]
       /\ Len(statuses[c]) <= Len(Required(c))
       /\ \A n \in DOMAIN statuses[c] : statuses[c][n] = "APPROVED" =>
            \E d \in during[c] : d.capability = Required(c)[n] /\ d.status = "APPROVED"
       /\ Len(evidence[c]) <= Len(statuses[c])
       /\ \A n \in DOMAIN evidence[c] :
            /\ evidence[c][n] \in during[c]
            /\ \E d \in during[c] :
                 /\ d.capability = evidence[c][n].capability
                 /\ d.status = "APPROVED" /\ d.version <= evidence[c][n].version
  /\ result[c] = "granted" => Approved(c) /\ Len(statuses[c]) = Len(Required(c))

IInv ==
  /\ Shape /\ CommittedInv
  /\ \A r \in Reviewers : ReviewerInv(r) /\ DraftInv(r)
  /\ \A c \in Checkers : CheckInv(c)

\* A draft is a decision.
LEMMA DraftType == ASSUME Shape, NEW r \in Reviewers, draft[r] # NoDraft
                   PROVE  /\ draft[r] \in Decision
                          /\ draft[r].capability \in Capability /\ draft[r].version \in Nat \ {0}
BY DEF Shape, Decision

\* Initially nobody reviews or checks.
LEMMA InitIInv == Init => IInv
<1> SUFFICES ASSUME Init PROVE IInv
  OBVIOUS
<1>1. Shape
  BY InitialAssumption DEF Init, Shape
<1>2. CommittedInv
  BY InitialAssumption, ContiguousUnique DEF Init, CommittedInv
<1>3. \A r \in Reviewers : Seen(r) = decisions /\ own[r] = {} /\ draft[r] = NoDraft
  BY DEF Init, Seen
<1>4. \A r \in Reviewers : ReviewerInv(r) /\ DraftInv(r)
  BY <1>2, <1>3 DEF CommittedInv, ReviewerInv, DraftInv
<1>5. \A c \in Checkers : CheckInv(c)
  BY DEF Init, CheckInv
<1>6. QED
  BY <1>1, <1>2, <1>4, <1>5 DEF IInv

\* The parts of the invariant that only reviewers, or only checkers, can disturb.
LEMMA ReviewersUnchanged ==
  ASSUME IInv, UNCHANGED <<decisions, own, draft>>, Shape', \A c \in Checkers : CheckInv(c)'
  PROVE  IInv'
<1>1. \A r \in Reviewers : Seen(r)' = Seen(r)
  BY DEF Seen
<1>2. \A r \in Reviewers : ReviewerInv(r)' /\ DraftInv(r)'
  BY <1>1 DEF IInv, ReviewerInv, DraftInv
<1>3. QED
  BY <1>2 DEF IInv, CommittedInv

\* A step that commits nothing and checks nothing leaves every check as it was.
LEMMA CheckersUnchanged ==
  ASSUME IInv, UNCHANGED <<decisions, checks>>
  PROVE  /\ \A c \in Checkers : CheckInv(c)'
         /\ CommittedInv'
         /\ gate' \in [Checkers -> DOMAIN Gates \union {"none"}]
         /\ statuses' \in [Checkers -> Seq(PolicyStatus)]
         /\ evidence' \in [Checkers -> Seq(Decision)]
         /\ result' \in [Checkers -> {"none", "denied", "granted"}]
         /\ during' \in [Checkers -> SUBSET Decision]
BY DEF IInv, Shape, CommittedInv, CheckInv, checks, Required, Approved

-----------------------------------------------------------------------------
(* Reviewers.                                                              *)

\* _next_version drafts the version after the last the reviewer sees.
LEMMA NextVersionKeeps ==
  ASSUME IInv, NEW r \in Reviewers, NEW capability \in Capability, NEW status \in Recordable,
         NextVersion(r, capability, status)
  PROVE  IInv'
<1>1. PICK n \in Nat : Versions(Seen(r), capability) = 1 .. n
  BY DEF IInv, ReviewerInv, Numbered
<1>2. Seen(r) \in SUBSET Decision
  BY DEF IInv, Shape, Seen
<1>3. EffectiveDecision(Seen(r), capability).version = n
  BY <1>1, <1>2, EffectiveIs
<1> DEFINE d == [capability |-> capability, version |-> n + 1, status |-> status]
<1>4. d \in Decision
  BY PolicyAssumption DEF Decision
<1>5. draft' = [draft EXCEPT ![r] = d] /\ UNCHANGED <<decisions, own, checks>>
  BY <1>3 DEF NextVersion, Seen
<1>6. Shape' /\ CommittedInv' /\ \A c \in Checkers : CheckInv(c)'
  BY <1>4, <1>5, CheckersUnchanged DEF IInv, Shape
<1>7. \A q \in Reviewers : Seen(q)' = Seen(q) /\ own'[q] = own[q]
  BY <1>5 DEF Seen
<1>8. \A q \in Reviewers : ReviewerInv(q)'
  BY <1>5, <1>7 DEF IInv, ReviewerInv
<1>9. \A q \in Reviewers \ {r} : draft'[q] = draft[q]
  BY <1>5 DEF IInv, Shape
<1>10. \A q \in Reviewers \ {r} : DraftInv(q)'
  BY <1>7, <1>9 DEF IInv, DraftInv
<1>11. DraftInv(r)'
  <2>1. draft'[r] = d
    BY <1>5 DEF IInv, Shape
  <2>2. n = 0 \/ n \in Versions(Seen(r), capability)
    BY <1>1
  <2>3. \A v : v \in Versions(Seen(r), capability) <=>
                 \E x \in Seen(r) : x.capability = capability /\ x.version = v
    BY HasVersion
  <2>4. \A x \in own[r] : x.capability = capability => x.version < n + 1
    <3> SUFFICES ASSUME NEW x \in own[r], x.capability = capability PROVE x.version < n + 1
      OBVIOUS
    <3>1. x.version \in Versions(Seen(r), capability)
      BY <2>3 DEF Seen
    <3>2. QED
      BY <1>1, <3>1
  <2>5. QED
    BY <1>7, <2>1, <2>2, <2>4 DEF DraftInv
<1>12. QED
  BY <1>6, <1>8, <1>10, <1>11 DEF IInv

\* A version that is free is the next one.
LEMMA FreeIsNext ==
  ASSUME IInv, NEW r \in Reviewers, draft[r] # NoDraft, ~SameVersion(draft[r], decisions)
  PROVE  Versions(Seen(r), draft[r].capability) = 1 .. (draft[r].version - 1)
<1> DEFINE k == draft[r].capability
           v == draft[r].version
<1>1. k \in Capability /\ v \in Nat \ {0}
  BY DraftType DEF IInv
<1>2. PICK n \in Nat : Versions(Seen(r), k) = 1 .. n
  BY <1>1 DEF IInv, ReviewerInv, Numbered
<1>3. \A m : m \in Versions(Seen(r), k) <=> \E d \in Seen(r) : d.capability = k /\ d.version = m
  BY HasVersion
<1>4. v \notin Versions(Seen(r), k)
  <2>1. \A d \in own[r] : d.capability = k => d.version < v
    BY DEF IInv, DraftInv
  <2>2. \A d \in own[r] : d.version \in Nat
    BY DEF IInv, Shape, Decision
  <2>3. QED
    BY <1>1, <1>3, <2>1, <2>2 DEF SameVersion, Seen
<1>5. v = 1 \/ v - 1 \in Versions(Seen(r), k)
  BY DEF IInv, DraftInv
<1>6. QED
  BY <1>1, <1>2, <1>4, <1>5

\* Any other open transaction that decides on the capability is a rival: the first of
\* its decisions has the version after the committed ones, which is the draft's.
LEMMA NoOtherReviewer ==
  ASSUME IInv, NEW r \in Reviewers, draft[r] # NoDraft, ~SameVersion(draft[r], decisions),
         NEW q \in Reviewers \ {r}, ~SameVersion(draft[r], own[q])
  PROVE  \A x \in own[q] : x.capability # draft[r].capability
<1> DEFINE k == draft[r].capability
           v == draft[r].version
<1> SUFFICES ASSUME NEW x \in own[q], x.capability = k PROVE FALSE
  OBVIOUS
<1>1. k \in Capability /\ v \in Nat \ {0}
  BY DraftType DEF IInv
<1>2. PICK n \in Nat : Versions(decisions, k) = 1 .. n
  BY <1>1 DEF IInv, CommittedInv, Numbered
<1>3. PICK m \in Nat : Versions(Seen(q), k) = 1 .. m
  BY <1>1 DEF IInv, ReviewerInv, Numbered
<1>4. \A u : u \in Versions(decisions, k) <=> \E d \in decisions : d.capability = k /\ d.version = u
  BY HasVersion
<1>5. \A u : u \in Versions(Seen(q), k) <=> \E d \in Seen(q) : d.capability = k /\ d.version = u
  BY HasVersion
<1>6. \A d \in decisions : d.capability = k => d.version < x.version
  BY DEF IInv, ReviewerInv
<1>7. x.version \in 1 .. m
  BY <1>3, <1>5 DEF Seen
<1>8. n < x.version
  <2>1. n # 0 => n \in Versions(decisions, k)
    BY <1>2
  <2>2. n # 0 => n < x.version
    BY <1>4, <1>6, <2>1
  <2>3. QED
    BY <1>7, <2>2
<1>9. n + 1 \in Versions(Seen(q), k) /\ n + 1 \notin Versions(decisions, k)
  BY <1>2, <1>3, <1>7, <1>8
<1>10. \E d \in own[q] : d.capability = k /\ d.version = n + 1
  BY <1>4, <1>5, <1>9 DEF Seen
<1>11. \A d \in own[r] : d.capability # k
  BY DEF IInv, ReviewerInv
<1>12. Versions(Seen(r), k) = 1 .. n
  <2>1. Versions(own[r], k) = {}
    BY <1>11, NoVersions
  <2>2. Versions(Seen(r), k) = Versions(decisions, k) \union Versions(own[r], k)
    BY VersionsOfUnion DEF Seen
  <2>3. QED
    BY <1>2, <2>1, <2>2
<1>13. Versions(Seen(r), k) = 1 .. (v - 1)
  BY FreeIsNext
<1>14. v = n + 1
  <2>1. \A i \in 1 .. n : i \in 1 .. (v - 1)
    BY <1>12, <1>13
  <2>2. \A i \in 1 .. (v - 1) : i \in 1 .. n
    BY <1>12, <1>13
  <2>3. n # 0 => n <= v - 1
    BY <1>1, <2>1
  <2>4. v - 1 # 0 => v - 1 <= n
    BY <1>1, <2>2
  <2>5. QED
    BY <1>1, <2>3, <2>4
<1>15. QED
  BY <1>10, <1>14 DEF SameVersion

\* The transaction of r ends without a trace.
LEMMA ForgetKeeps ==
  ASSUME IInv, NEW r \in Reviewers,
         own' = [own EXCEPT ![r] = {}], draft' = [draft EXCEPT ![r] = NoDraft],
         UNCHANGED <<decisions, checks>>
  PROVE  IInv'
<1>1. Shape' /\ CommittedInv' /\ \A c \in Checkers : CheckInv(c)'
  BY CheckersUnchanged DEF IInv, Shape
<1>2. own'[r] = {} /\ draft'[r] = NoDraft /\ Seen(r)' = decisions
  BY DEF IInv, Shape, Seen
<1>3. \A q \in Reviewers \ {r} : own'[q] = own[q] /\ draft'[q] = draft[q] /\ Seen(q)' = Seen(q)
  BY DEF IInv, Shape, Seen
<1>4. ReviewerInv(r)' /\ DraftInv(r)'
  BY <1>2 DEF IInv, CommittedInv, ReviewerInv, DraftInv
<1>5. ASSUME NEW q \in Reviewers \ {r} PROVE ReviewerInv(q)' /\ DraftInv(q)'
  <2>1. ReviewerInv(q) /\ DraftInv(q)
    BY DEF IInv
  <2>2. \A p \in Reviewers \ {q} : \A d \in own'[q], x \in own'[p] : d.capability # x.capability
    BY <1>2, <1>3, <2>1 DEF ReviewerInv
  <2>3. QED
    BY <1>3, <2>1, <2>2 DEF ReviewerInv, DraftInv
<1>6. QED
  BY <1>1, <1>4, <1>5 DEF IInv

\* A flush that violates nothing extends the history the reviewer sees.
LEMMA InsertKeeps ==
  ASSUME IInv, NEW r \in Reviewers, Flush(r), ~SameVersion(draft[r], decisions)
  PROVE  IInv'
<1> DEFINE d == draft[r]
           k == d.capability
<1>1. /\ d # NoDraft /\ \A q \in Reviewers \ {r} : ~SameVersion(d, own[q])
      /\ own' = [own EXCEPT ![r] = own[r] \union {d}]
      /\ draft' = [draft EXCEPT ![r] = NoDraft]
      /\ decisions' = decisions /\ UNCHANGED <<decisions, checks>>
  BY DEF Flush
<1>2. d \in Decision /\ k \in Capability /\ d.version \in Nat \ {0}
  BY <1>1, DraftType DEF IInv
<1>3. Versions(Seen(r), k) = 1 .. (d.version - 1)
  BY <1>1, FreeIsNext
<1>4. \A q \in Reviewers \ {r} : \A x \in own[q] : x.capability # k
  BY <1>1, NoOtherReviewer
<1>5. \A x \in Seen(r) : x.capability = k => x.version \in 1 .. (d.version - 1)
  <2>1. \A x \in Seen(r) : x.capability = k => x.version \in Versions(Seen(r), k)
    BY HasVersion
  <2>2. QED
    BY <1>3, <2>1
<1> HIDE DEF d, k
<1>6. Shape' /\ CommittedInv' /\ \A c \in Checkers : CheckInv(c)'
  BY <1>1, <1>2, CheckersUnchanged DEF IInv, Shape
<1>7. own'[r] = own[r] \union {d} /\ draft'[r] = NoDraft /\ Seen(r)' = Seen(r) \union {d}
  BY <1>1 DEF IInv, Shape, Seen
<1>8. \A q \in Reviewers \ {r} : own'[q] = own[q] /\ draft'[q] = draft[q] /\ Seen(q)' = Seen(q)
  BY <1>1 DEF IInv, Shape, Seen
<1>9. ReviewerInv(r)' /\ DraftInv(r)'
  <2>1. ReviewerInv(r)
    BY DEF IInv
  <2>2. ASSUME NEW j \in Capability PROVE Numbered(Seen(r) \union {d}, j)
    <3>1. Versions(Seen(r) \union {d}, j) = Versions(Seen(r), j) \union Versions({d}, j)
      BY VersionsOfUnion
    <3>2. CASE j = k
      <4>1. Versions({d}, j) = {d.version}
        BY <3>2, HasVersion DEF k
      <4>2. (1 .. (d.version - 1)) \union {d.version} = 1 .. d.version
        BY <1>2
      <4>3. Versions(Seen(r) \union {d}, j) = 1 .. d.version
        BY <1>3, <3>1, <3>2, <4>1, <4>2
      <4>4. QED
        BY <1>2, <4>3 DEF Numbered
    <3>3. CASE j # k
      <4>1. Versions({d}, j) = {}
        BY <3>3, NoVersions DEF k
      <4>2. QED
        BY <2>1, <3>1, <4>1 DEF ReviewerInv, Numbered
    <3>4. QED
      BY <3>2, <3>3
  <2>3. Unique(Seen(r) \union {d})
    BY <1>2, <1>5, <2>1 DEF ReviewerInv, Unique, k
  <2>4. \A x \in own'[r], y \in decisions' : x.capability = y.capability => y.version < x.version
    <3>1. \A y \in decisions : y.capability = k => y.version < d.version
      BY <1>2, <1>5 DEF Seen
    <3>2. QED
      BY <1>1, <1>7, <2>1, <3>1 DEF ReviewerInv, k
  <2>5. \A q \in Reviewers \ {r} : \A x \in own'[r], y \in own'[q] : x.capability # y.capability
    BY <1>4, <1>7, <1>8, <2>1 DEF ReviewerInv, k
  <2>6. QED
    BY <1>7, <2>2, <2>3, <2>4, <2>5 DEF ReviewerInv, DraftInv
<1>10. ASSUME NEW q \in Reviewers \ {r} PROVE ReviewerInv(q)' /\ DraftInv(q)'
  <2>1. ReviewerInv(q) /\ DraftInv(q)
    BY DEF IInv
  <2>2. \A p \in Reviewers \ {q} : \A x \in own'[q], y \in own'[p] : x.capability # y.capability
    BY <1>4, <1>7, <1>8, <2>1 DEF ReviewerInv, k
  <2>3. QED
    BY <1>1, <1>8, <2>1, <2>2 DEF ReviewerInv, DraftInv
<1>11. QED
  BY <1>6, <1>9, <1>10 DEF IInv

\* A flush inserts the draft, or fails and rolls the transaction back.
LEMMA FlushKeeps == ASSUME IInv, NEW r \in Reviewers, Flush(r) PROVE IInv'
<1>1. CASE SameVersion(draft[r], decisions)
  BY <1>1, ForgetKeeps DEF Flush
<1>2. CASE ~SameVersion(draft[r], decisions)
  BY <1>2, InsertKeeps
<1>3. QED
  BY <1>1, <1>2

\* Of two sessions only one decides on a capability: what they see together is what
\* one of them sees.
LEMMA Merged ==
  ASSUME IInv, NEW r \in Reviewers, NEW q \in Reviewers \ {r}
  PROVE  LET S == Seen(r) \union Seen(q)
         IN  (\A capability \in Capability : Numbered(S, capability)) /\ Unique(S)
<1> DEFINE S == Seen(r) \union Seen(q)
<1>1. ReviewerInv(r) /\ ReviewerInv(q)
  BY DEF IInv
<1>2. \A k : (\A d \in own[r] : d.capability # k) \/ (\A d \in own[q] : d.capability # k)
  BY <1>1 DEF ReviewerInv
<1>3. ASSUME NEW k \in Capability PROVE Numbered(S, k)
  <2>1. Versions(S, k) = Versions(Seen(r), k) \union Versions(Seen(q), k)
    BY VersionsOfUnion
  <2>2. Versions(Seen(r), k) = Versions(decisions, k) \union Versions(own[r], k)
    BY VersionsOfUnion DEF Seen
  <2>3. Versions(Seen(q), k) = Versions(decisions, k) \union Versions(own[q], k)
    BY VersionsOfUnion DEF Seen
  <2>4. Versions(own[r], k) = {} \/ Versions(own[q], k) = {}
    BY <1>2, NoVersions
  <2>5. Versions(S, k) = Versions(Seen(r), k) \/ Versions(S, k) = Versions(Seen(q), k)
    BY <2>1, <2>2, <2>3, <2>4
  <2>6. QED
    BY <1>1, <2>5 DEF ReviewerInv, Numbered
<1>4. Unique(S)
  BY <1>1, <1>2 DEF ReviewerInv, Unique, Seen
<1>5. QED
  BY <1>3, <1>4

\* A commit puts newer decisions in force, also during the checks of others.
LEMMA CommitKeeps == ASSUME IInv, NEW r \in Reviewers, Commit(r) PROVE IInv'
<1>1. /\ draft[r] = NoDraft /\ decisions' = Seen(r)
      /\ own' = [own EXCEPT ![r] = {}]
      /\ during' = [c \in Checkers |->
                      IF gate[c] = "none" THEN {}
                      ELSE during[c] \union InForce(decisions', gate[c])]
      /\ UNCHANGED <<draft, gate, statuses, evidence, result>>
  BY DEF Commit, Seen
<1>2. decisions \subseteq decisions' /\ decisions' \subseteq Decision
  BY <1>1 DEF IInv, Shape, Seen
<1>3. \A g : InForce(decisions', g) \subseteq decisions'
  BY DEF InForce
<1>4. Shape'
  BY <1>1, <1>2, <1>3 DEF IInv, Shape
<1>5. own'[r] = {} /\ Seen(r)' = Seen(r)
  BY <1>1 DEF IInv, Shape, Seen
<1>6. \A q \in Reviewers \ {r} : own'[q] = own[q] /\ Seen(q)' = Seen(r) \union Seen(q)
  BY <1>1 DEF IInv, Shape, Seen
<1>7. CommittedInv' /\ ReviewerInv(r)' /\ DraftInv(r)'
  BY <1>1, <1>5 DEF IInv, CommittedInv, ReviewerInv, DraftInv
<1>8. ASSUME NEW q \in Reviewers \ {r} PROVE ReviewerInv(q)' /\ DraftInv(q)'
  <2>1. ReviewerInv(q) /\ DraftInv(q)
    BY DEF IInv
  <2>2. (\A k \in Capability : Numbered(Seen(q)', k)) /\ Unique(Seen(q)')
    BY <1>6, Merged
  <2>3. \A d \in own'[q], x \in decisions' : d.capability = x.capability => x.version < d.version
    BY <1>1, <1>6, <2>1 DEF ReviewerInv, Seen
  <2>4. \A p \in Reviewers \ {q} : \A d \in own'[q], x \in own'[p] : d.capability # x.capability
    BY <1>5, <1>6, <2>1 DEF ReviewerInv
  <2>5. \A k : Versions(Seen(q)', k) = Versions(Seen(r), k) \union Versions(Seen(q), k)
    BY <1>6, VersionsOfUnion
  <2>6. DraftInv(q)'
    BY <1>1, <1>6, <2>1, <2>5 DEF DraftInv
  <2>7. QED
    BY <2>2, <2>3, <2>4, <2>6 DEF ReviewerInv
<1>9. ASSUME NEW c \in Checkers PROVE CheckInv(c)'
  <2>1. CheckInv(c)
    BY DEF IInv
  <2>2. CASE gate[c] = "none"
    BY <1>1, <2>1, <2>2 DEF CheckInv
  <2>3. CASE gate[c] # "none"
    <3>1. during'[c] = during[c] \union InForce(decisions', gate[c])
      BY <1>1, <2>3
    <3>2. during'[c] \subseteq decisions' /\ during[c] \subseteq during'[c]
      BY <1>2, <1>3, <2>1, <3>1 DEF CheckInv
    <3>3. Required(c)' = Required(c) /\ (Approved(c)' <=> Approved(c))
      BY <1>1 DEF Required, Approved
    <3>4. QED
      BY <1>1, <2>1, <2>3, <3>1, <3>2, <3>3 DEF CheckInv
  <2>4. QED
    BY <2>2, <2>3
<1>10. QED
  BY <1>4, <1>7, <1>8, <1>9 DEF IInv

-----------------------------------------------------------------------------
(* Checkers.                                                               *)

\* The capabilities the two gates ask for.
LEMMA GatesType ==
  /\ DOMAIN Gates = {"ingestion", "publication"}
  /\ \A g \in DOMAIN Gates : Gates[g] \in Seq(Capability) /\ Len(Gates[g]) \in 1 .. 3
<1>1. DOMAIN Gates = {"ingestion", "publication"}
  BY DEF Gates
<1>2. Gates["ingestion"] \in Seq(Capability) /\ Len(Gates["ingestion"]) = 2
  BY DEF Gates, Capability
<1>3. Gates["publication"] \in Seq(Capability) /\ Len(Gates["publication"]) = 3
  BY DEF Gates, Capability
<1>4. QED
  BY <1>1, <1>2, <1>3

\* What a gate reads of a capability it requires: nothing, or a decision in force.
LEMMA ReadIsInForce ==
  ASSUME IInv, NEW g \in DOMAIN Gates, NEW n \in DOMAIN Gates[g]
  PROVE  LET k == Gates[g][n]
             e == EffectiveDecision(decisions, k)
         IN  /\ k \in Capability
             /\ \/ e = Undecided(k) /\ \A x \in decisions : x.capability # k
                \/ /\ e \in InForce(decisions, g) /\ e \in Decision /\ e.capability = k
                   /\ \A x \in decisions : x.capability = k => x.version <= e.version
<1> DEFINE k == Gates[g][n]
           e == EffectiveDecision(decisions, k)
<1>1. k \in Capability /\ k \in ToSet(Gates[g])
  BY GatesType DEF ToSet
<1>2. PICK m \in Nat : Versions(decisions, k) = 1 .. m
  BY <1>1 DEF IInv, CommittedInv, Numbered
<1>3. decisions \in SUBSET Decision
  BY DEF IInv, Shape
<1>4. \A x \in decisions : x.capability = k => x.version \in 1 .. m
  <2>1. \A x \in decisions : x.capability = k => x.version \in Versions(decisions, k)
    BY HasVersion
  <2>2. QED
    BY <1>2, <2>1
<1>5. /\ m = 0 => e = Undecided(k)
      /\ m # 0 => e \in decisions /\ e.capability = k
      /\ e.version = m
  BY <1>2, <1>3, EffectiveIs
<1> HIDE DEF e, k
<1>6. CASE m = 0
  BY <1>1, <1>4, <1>5, <1>6 DEF e, k
<1>7. CASE m # 0
  <2>1. \A x \in decisions : x.capability = k => x.version <= e.version
    BY <1>4, <1>5
  <2>2. e \in InForce(decisions, g)
    BY <1>1, <1>5, <1>7, <2>1 DEF InForce
  <2>3. QED
    BY <1>1, <1>3, <1>5, <1>7, <2>1, <2>2 DEF e, k
<1>8. QED
  BY <1>6, <1>7

\* A step of one check leaves the reviewers and the other checks alone.
LEMMA CheckStep ==
  ASSUME IInv, NEW c \in Checkers, UNCHANGED <<decisions, own, draft>>, Shape',
         \A b \in Checkers \ {c} :
           /\ gate'[b] = gate[b] /\ statuses'[b] = statuses[b] /\ evidence'[b] = evidence[b]
           /\ result'[b] = result[b] /\ during'[b] = during[b],
         CheckInv(c)'
  PROVE  IInv'
<1>1. \A b \in Checkers \ {c} : CheckInv(b)'
  BY DEF IInv, CheckInv, Required, Approved
<1>2. QED
  BY <1>1, ReviewersUnchanged

\* A check begins with nothing read.
LEMMA StartCheckKeeps ==
  ASSUME IInv, NEW c \in Checkers, NEW g \in DOMAIN Gates, StartCheck(c, g) PROVE IInv'
<1>1. /\ gate[c] = "none" /\ gate' = [gate EXCEPT ![c] = g]
      /\ during' = [during EXCEPT ![c] = InForce(decisions, g)]
      /\ UNCHANGED <<decisions, own, draft, statuses, evidence, result>>
  BY DEF StartCheck
<1>2. InForce(decisions, g) \subseteq decisions /\ decisions \subseteq Decision
  BY DEF InForce, IInv, Shape
<1>3. Shape'
  BY <1>1, <1>2 DEF IInv, Shape
<1>4. \A b \in Checkers \ {c} : gate'[b] = gate[b] /\ during'[b] = during[b]
  BY <1>1 DEF IInv, Shape
<1>5. CheckInv(c)'
  <2>1. /\ gate'[c] = g /\ g # "none" /\ during'[c] = InForce(decisions, g)
        /\ statuses'[c] = <<>> /\ evidence'[c] = <<>> /\ result'[c] = "none"
    BY <1>1, GatesType DEF IInv, Shape, CheckInv
  <2>2. Len(Gates[g]) \in Nat
    BY GatesType
  <2>3. Required(c)' = Gates[g]
    BY <2>1 DEF Required
  <2>4. QED
    BY <1>1, <1>2, <2>1, <2>2, <2>3 DEF CheckInv
<1>6. QED
  BY <1>1, <1>3, <1>4, <1>5, CheckStep

\* The gate of a check in progress.
LEMMA CheckContext ==
  ASSUME IInv, NEW c \in Checkers, gate[c] # "none"
  PROVE  /\ gate[c] \in DOMAIN Gates /\ Required(c) \in Seq(Capability)
         /\ Len(Required(c)) \in 1 .. 3 /\ DOMAIN Required(c) = 1 .. Len(Required(c))
         /\ statuses[c] \in Seq(PolicyStatus) /\ evidence[c] \in Seq(Decision)
         /\ Len(statuses[c]) \in Nat /\ DOMAIN statuses[c] = 1 .. Len(statuses[c])
         /\ Len(evidence[c]) \in Nat /\ DOMAIN evidence[c] = 1 .. Len(evidence[c])
         /\ Len(evidence[c]) <= Len(statuses[c]) /\ Len(statuses[c]) <= Len(Required(c))
<1>1. gate[c] \in DOMAIN Gates /\ statuses[c] \in Seq(PolicyStatus) /\ evidence[c] \in Seq(Decision)
  BY DEF IInv, Shape
<1>2. Required(c) \in Seq(Capability) /\ Len(Required(c)) \in 1 .. 3
  BY <1>1, GatesType DEF Required
<1>3. Len(evidence[c]) <= Len(statuses[c]) /\ Len(statuses[c]) <= Len(Required(c))
  BY DEF IInv, CheckInv
<1>4. QED
  BY <1>1, <1>2, <1>3

\* The status of one more capability is read, in force at that instant.
LEMMA ReadStatusKeeps == ASSUME IInv, NEW c \in Checkers, ReadStatus(c) PROVE IInv'
<1> DEFINE n == Len(statuses[c]) + 1
           e == EffectiveDecision(decisions, Required(c)[n])
<1>1. /\ gate[c] # "none" /\ Len(statuses[c]) < Len(Required(c))
      /\ gate[c] = "publication" => Approved(c)
      /\ statuses' = [statuses EXCEPT ![c] = Append(statuses[c], e.status)]
      /\ UNCHANGED <<decisions, own, draft, gate, evidence, result, during>>
  BY DEF ReadStatus, MoreToRead, Approved
<1>2. n \in DOMAIN Required(c) /\ n \in Nat
  BY <1>1, CheckContext
<1>3. /\ e.status \in PolicyStatus
      /\ e.status = "APPROVED" => e \in InForce(decisions, gate[c]) /\ e.capability = Required(c)[n]
  <2>1. \/ e = Undecided(Required(c)[n])
        \/ e \in InForce(decisions, gate[c]) /\ e \in Decision /\ e.capability = Required(c)[n]
    BY <1>1, <1>2, CheckContext, ReadIsInForce DEF Required
  <2>2. Undecided(Required(c)[n]).status = "UNRESOLVED"
    BY DEF Undecided
  <2>3. QED
    BY <2>1, <2>2 DEF PolicyStatus, Decision
<1> HIDE DEF e
<1>4. /\ Append(statuses[c], e.status) \in Seq(PolicyStatus)
      /\ Len(Append(statuses[c], e.status)) = n
      /\ \A i \in 1 .. Len(statuses[c]) : Append(statuses[c], e.status)[i] = statuses[c][i]
      /\ Append(statuses[c], e.status)[n] = e.status
  BY <1>1, <1>3, CheckContext
<1>5. Shape'
  BY <1>1, <1>4 DEF IInv, Shape
<1>6. \A b \in Checkers \ {c} : statuses'[b] = statuses[b]
  BY <1>1 DEF IInv, Shape
<1>7. statuses'[c] = Append(statuses[c], e.status)
  BY <1>1 DEF IInv, Shape
<1> HIDE DEF n
<1>8. /\ Len(statuses'[c]) = Len(statuses[c]) + 1 /\ DOMAIN statuses'[c] = 1 .. (Len(statuses[c]) + 1)
      /\ \A i \in 1 .. Len(statuses[c]) : statuses'[c][i] = statuses[c][i]
      /\ statuses'[c][Len(statuses[c]) + 1] = e.status
  BY <1>4, <1>7 DEF n
<1>9. CheckInv(c)'
  <2>1. CheckInv(c) /\ Required(c)' = Required(c)
    BY <1>1 DEF IInv, Required
  <2>2. /\ Len(statuses'[c]) <= Len(Required(c)) /\ Len(evidence[c]) <= Len(statuses'[c])
        /\ result[c] # "granted"
    BY <1>1, <1>8, <2>1, CheckContext DEF CheckInv
  <2>3. InForce(decisions, gate[c]) \subseteq during[c]
    BY <1>1, <2>1 DEF CheckInv
  <2>4. ASSUME NEW i \in DOMAIN statuses'[c], statuses'[c][i] = "APPROVED"
        PROVE  \E d \in during[c] : d.capability = Required(c)[i] /\ d.status = "APPROVED"
    <3>1. CASE i \in 1 .. Len(statuses[c])
      BY <1>1, <1>8, <2>1, <2>4, <3>1, CheckContext DEF CheckInv
    <3>2. CASE i = Len(statuses[c]) + 1
      BY <1>3, <1>8, <2>3, <2>4, <3>2 DEF n
    <3>3. QED
      BY <1>1, <1>8, <2>4, <3>1, <3>2, CheckContext
  <2>5. QED
    BY <1>1, <2>1, <2>2, <2>3, <2>4 DEF CheckInv
<1>10. QED
  BY <1>1, <1>5, <1>6, <1>9, CheckStep

\* The evidence of one more capability is read, in force at that instant.
LEMMA ReadEvidenceKeeps == ASSUME IInv, NEW c \in Checkers, ReadEvidence(c) PROVE IInv'
<1> DEFINE n == Len(evidence[c]) + 1
           e == EffectiveDecision(decisions, Required(c)[n])
<1>1. /\ gate[c] = "ingestion" /\ ~MoreToRead(c) /\ Approved(c)
      /\ Len(evidence[c]) < Len(Required(c))
      /\ evidence' = [evidence EXCEPT ![c] = Append(evidence[c], e)]
      /\ UNCHANGED <<decisions, own, draft, gate, statuses, result, during>>
  BY DEF ReadEvidence
<1>2. n \in DOMAIN Required(c) /\ n \in DOMAIN statuses[c] /\ n <= Len(statuses[c])
  BY <1>1, CheckContext DEF MoreToRead
<1>3. CheckInv(c)
  BY DEF IInv
<1>4. PICK d \in during[c] : d.capability = Required(c)[n] /\ d.status = "APPROVED"
  BY <1>1, <1>2, <1>3 DEF Approved, CheckInv
<1>5. d \in decisions
  BY <1>3 DEF CheckInv
<1>6. /\ e \in InForce(decisions, gate[c]) /\ e \in Decision /\ e.capability = Required(c)[n]
      /\ \A x \in decisions : x.capability = Required(c)[n] => x.version <= e.version
  BY <1>1, <1>2, <1>4, <1>5, CheckContext, ReadIsInForce DEF Required
<1>7. /\ e \in during[c]
      /\ d.capability = e.capability /\ d.status = "APPROVED" /\ d.version <= e.version
  BY <1>1, <1>3, <1>4, <1>5, <1>6 DEF CheckInv
<1> HIDE DEF e
<1>8. /\ Append(evidence[c], e) \in Seq(Decision)
      /\ Len(Append(evidence[c], e)) = n
      /\ \A i \in 1 .. Len(evidence[c]) : Append(evidence[c], e)[i] = evidence[c][i]
      /\ Append(evidence[c], e)[n] = e
  BY <1>1, <1>6, CheckContext
<1>9. Shape'
  BY <1>1, <1>8 DEF IInv, Shape
<1>10. \A b \in Checkers \ {c} : evidence'[b] = evidence[b]
  BY <1>1 DEF IInv, Shape
<1>11. evidence'[c] = Append(evidence[c], e)
  BY <1>1 DEF IInv, Shape
<1> HIDE DEF n
<1>12. /\ Len(evidence'[c]) = n /\ DOMAIN evidence'[c] = 1 .. (Len(evidence[c]) + 1)
       /\ \A i \in 1 .. Len(evidence[c]) : evidence'[c][i] = evidence[c][i]
       /\ evidence'[c][Len(evidence[c]) + 1] = e
  BY <1>8, <1>11 DEF n
<1>13. CheckInv(c)'
  <2>1. Required(c)' = Required(c) /\ (Approved(c)' <=> Approved(c))
    BY <1>1 DEF Required, Approved
  <2>2. Len(evidence'[c]) <= Len(statuses[c])
    BY <1>2, <1>12
  <2>3. ASSUME NEW i \in DOMAIN evidence'[c]
        PROVE  /\ evidence'[c][i] \in during[c]
               /\ \E x \in during[c] :
                    /\ x.capability = evidence'[c][i].capability
                    /\ x.status = "APPROVED" /\ x.version <= evidence'[c][i].version
    <3>1. CASE i \in 1 .. Len(evidence[c])
      BY <1>1, <1>3, <1>12, <3>1, CheckContext DEF CheckInv
    <3>2. CASE i = Len(evidence[c]) + 1
      BY <1>7, <1>12, <3>2
    <3>3. QED
      BY <1>1, <1>12, <2>3, <3>1, <3>2, CheckContext
  <2>4. QED
    BY <1>1, <1>3, <2>1, <2>2, <2>3 DEF CheckInv
<1>14. QED
  BY <1>1, <1>9, <1>10, <1>13, CheckStep

\* A capability that is not approved ends the check with a denial.
LEMMA DenyKeeps == ASSUME IInv, NEW c \in Checkers, Deny(c) PROVE IInv'
<1>1. /\ gate[c] # "none" /\ result' = [result EXCEPT ![c] = "denied"]
      /\ UNCHANGED <<decisions, own, draft, gate, statuses, evidence, during>>
  BY DEF Deny
<1>2. Shape'
  BY <1>1 DEF IInv, Shape
<1>3. result'[c] = "denied" /\ \A b \in Checkers \ {c} : result'[b] = result[b]
  BY <1>1 DEF IInv, Shape
<1>4. CheckInv(c)'
  BY <1>1, <1>3 DEF IInv, CheckInv, Required, Approved
<1>5. QED
  BY <1>1, <1>2, <1>3, <1>4, CheckStep

\* A check that has read all it needs grants.
LEMMA GrantKeeps == ASSUME IInv, NEW c \in Checkers, Grant(c) PROVE IInv'
<1>1. /\ gate[c] # "none" /\ ~MoreToRead(c) /\ Approved(c)
      /\ result' = [result EXCEPT ![c] = "granted"]
      /\ UNCHANGED <<decisions, own, draft, gate, statuses, evidence, during>>
  BY DEF Grant
<1>2. Shape'
  BY <1>1 DEF IInv, Shape
<1>3. result'[c] = "granted" /\ \A b \in Checkers \ {c} : result'[b] = result[b]
  BY <1>1 DEF IInv, Shape
<1>4. Len(statuses[c]) = Len(Required(c))
  <2>1. ~(Len(statuses[c]) < Len(Required(c)))
    BY <1>1 DEF MoreToRead, Approved
  <2>2. QED
    BY <1>1, <2>1, CheckContext
<1>5. CheckInv(c)'
  BY <1>1, <1>3, <1>4 DEF IInv, CheckInv, Required, Approved
<1>6. QED
  BY <1>1, <1>2, <1>3, <1>5, CheckStep

\* The caller takes the result.
LEMMA EndCheckKeeps == ASSUME IInv, NEW c \in Checkers, EndCheck(c) PROVE IInv'
<1>1. Shape'
  BY DEF EndCheck, IInv, Shape
<1>2. \A b \in Checkers \ {c} :
        /\ gate'[b] = gate[b] /\ statuses'[b] = statuses[b] /\ evidence'[b] = evidence[b]
        /\ result'[b] = result[b] /\ during'[b] = during[b]
  BY DEF EndCheck, IInv, Shape
<1>3. CheckInv(c)'
  BY DEF EndCheck, IInv, Shape, CheckInv
<1>4. QED
  BY <1>1, <1>2, <1>3, CheckStep DEF EndCheck

-----------------------------------------------------------------------------
\* Every step keeps the invariant.
LEMMA NextIInv == IInv /\ [Next]_vars => IInv'
<1> SUFFICES ASSUME IInv, [Next]_vars PROVE IInv'
  OBVIOUS
<1>1. CASE UNCHANGED vars
  <2>1. Shape' /\ \A c \in Checkers : CheckInv(c)'
    BY <1>1 DEF vars, IInv, Shape, CheckInv, Required, Approved
  <2>2. QED
    BY <1>1, <2>1, ReviewersUnchanged DEF vars
<1>2. ASSUME NEW r \in Reviewers, NEW capability \in Capability, NEW status \in Recordable,
             NextVersion(r, capability, status)
      PROVE  IInv'
  BY <1>2, NextVersionKeeps
<1>3. ASSUME NEW r \in Reviewers, Flush(r) \/ Commit(r) \/ Rollback(r) PROVE IInv'
  BY <1>3, FlushKeeps, CommitKeeps, ForgetKeeps DEF Rollback
<1>4. ASSUME NEW c \in Checkers, NEW g \in DOMAIN Gates, StartCheck(c, g) PROVE IInv'
  BY <1>4, StartCheckKeeps
<1>5. ASSUME NEW c \in Checkers,
             ReadStatus(c) \/ Deny(c) \/ ReadEvidence(c) \/ Grant(c) \/ EndCheck(c)
      PROVE  IInv'
  BY <1>5, ReadStatusKeeps, DenyKeeps, ReadEvidenceKeeps, GrantKeeps, EndCheckKeeps
<1>6. QED
  BY <1>1, <1>2, <1>3, <1>4, <1>5 DEF Next

\* The inductive invariant of reviewers and gates.
THEOREM Inductive == Spec => []IInv
<1>1. Init => IInv
  BY InitIInv
<1>2. IInv /\ [Next]_vars => IInv'
  BY NextIInv
<1>3. QED
  BY <1>1, <1>2, PTL DEF Spec

-----------------------------------------------------------------------------
(* What the invariant says of the gates.                                   *)

\* The rows of source_policy_decisions, what reviewers and gates hold of them and the
\* answers are typed; a gate reads no more statuses than it requires.
THEOREM TypeCorrect == Spec => []TypeOK
<1>1. IInv => TypeOK
  <2> SUFFICES ASSUME IInv PROVE TypeOK
    OBVIOUS
  <2>1. ASSUME NEW c \in Checkers
        PROVE  /\ statuses[c] \in Seq(PolicyStatus) /\ Len(statuses[c]) <= 3
               /\ Len(evidence[c]) <= Len(statuses[c])
               /\ during[c] \subseteq [capability : Capability, version : Nat, status : PolicyStatus]
    <3>1. statuses[c] \in Seq(PolicyStatus)
      BY DEF IInv, Shape
    <3>2. Len(statuses[c]) <= 3 /\ Len(evidence[c]) <= Len(statuses[c])
      <4>1. CASE gate[c] = "none"
        <5>1. statuses[c] = <<>> /\ evidence[c] = <<>>
          BY <4>1 DEF IInv, CheckInv
        <5>2. Len(statuses[c]) = 0 /\ Len(evidence[c]) = 0
          BY <5>1
        <5>3. QED
          BY <5>2
      <4>2. CASE gate[c] # "none"
        <5>1. /\ Len(evidence[c]) <= Len(statuses[c]) /\ Len(statuses[c]) <= Len(Required(c))
              /\ Len(statuses[c]) \in Nat /\ Len(Required(c)) \in 1 .. 3
          BY <4>2, CheckContext
        <5>2. \A i \in Nat, j \in 1 .. 3 : i <= j => i <= 3
          OBVIOUS
        <5>3. QED
          BY Zenon, <5>1, <5>2
      <4>3. QED
        BY <4>1, <4>2
    <3>3. during[c] \subseteq Decision
      BY DEF IInv, Shape
    <3>4. QED
      BY <3>1, <3>2, <3>3 DEF Decision
  <2>2. QED
    BY <2>1 DEF IInv, Shape, TypeOK
<1>2. QED
  BY <1>1, Inductive, PTL

\* The committed versions of a capability are a history.
LEMMA ContiguousOfIInv == IInv => VersionsContiguous
<1> SUFFICES ASSUME IInv, NEW r \in Reviewers, NEW capability \in Capability
             PROVE  /\ Contiguous(Seen(r))
                    /\ \A q \in Reviewers \ {r} :
                         Versions(Seen(r), capability) \intersect Versions(own[q], capability) = {}
  BY DEF VersionsContiguous, Seen
<1>1. ReviewerInv(r) /\ Seen(r) \in SUBSET Decision
  BY DEF IInv, Shape, Seen
<1>2. Contiguous(Seen(r))
  BY <1>1, NumberedContiguous DEF Contiguous, ReviewerInv
<1>3. ASSUME NEW q \in Reviewers \ {r}, NEW v \in Versions(Seen(r), capability),
             v \in Versions(own[q], capability)
      PROVE  FALSE
  <2>1. PICK d \in Seen(r) : d.capability = capability /\ d.version = v
    BY <1>3, HasVersion
  <2>2. PICK x \in own[q] : x.capability = capability /\ x.version = v
    BY <1>3, HasVersion
  <2>3. ReviewerInv(q) /\ d \in decisions
    BY <1>1, <2>1, <2>2 DEF IInv, ReviewerInv, Seen
  <2>4. v < v /\ v \in Nat
    BY <2>1, <2>2, <2>3 DEF IInv, Shape, Decision, ReviewerInv
  <2>5. QED
    BY <2>4
<1>4. QED
  BY <1>2, <1>3

\* record_decision numbers a capability's decisions from 1 without a gap or a repetition,
\* as every session sees them, however many reviewers have decisions open and commit.
THEOREM VersionsAreContiguous == Spec => []VersionsContiguous
<1>1. QED
  BY ContiguousOfIInv, Inductive, PTL

\* require and is_publication_authorized open a gate only if each capability they require
\* was approved at some instant of the check, whatever was committed between its SELECTs.
THEOREM GrantsAreApproved == Spec => []GrantsWereApproved
<1>1. IInv => GrantsWereApproved
  <2> SUFFICES ASSUME IInv, NEW c \in Checkers, result[c] = "granted",
                      NEW capability \in ToSet(Required(c))
               PROVE  \E d \in during[c] : d.capability = capability /\ d.status = "APPROVED"
    BY DEF GrantsWereApproved
  <2>1. CheckInv(c) /\ gate[c] # "none" /\ Approved(c) /\ Len(statuses[c]) = Len(Required(c))
    BY DEF IInv, CheckInv
  <2>2. PICK n \in DOMAIN Required(c) : capability = Required(c)[n]
    BY DEF ToSet
  <2>3. n \in DOMAIN statuses[c]
    BY <2>1, <2>2, CheckContext
  <2>4. QED
    BY <2>1, <2>2, <2>3 DEF CheckInv, Approved
<1>2. QED
  BY <1>1, Inductive, PTL

\* The decisions authorize_ingestion returns as evidence, read after the statuses, were in
\* force during the check and are no older than an approval the answer rests on.
THEOREM EvidenceIsInForce == Spec => []EvidenceWasInForce
<1>1. IInv => EvidenceWasInForce
  <2> SUFFICES ASSUME IInv, NEW c \in Checkers, NEW n \in DOMAIN evidence[c]
               PROVE  /\ evidence[c][n] \in during[c]
                      /\ \E d \in during[c] :
                           /\ d.capability = evidence[c][n].capability
                           /\ d.status = "APPROVED" /\ d.version <= evidence[c][n].version
    BY DEF EvidenceWasInForce
  <2>1. CheckInv(c)
    BY DEF IInv
  <2>2. gate[c] # "none"
    BY <2>1 DEF CheckInv
  <2>3. QED
    BY <2>1, <2>2 DEF CheckInv
<1>2. QED
  BY <1>1, Inductive, PTL
=============================================================================

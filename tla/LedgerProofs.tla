---------------------------- MODULE LedgerProofs ----------------------------
(***************************************************************************)
(* Proofs about module Ledger, for every value of its constants: that its  *)
(* state is well typed, that the revisions of a family are one chain       *)
(* (LinearHistory) and that nothing is published without the decision of   *)
(* an operator who did not ask for it (Authorized).  The three follow from *)
(* one inductive invariant, Inductive.                                     *)
(***************************************************************************)
EXTENDS Ledger, TLAPS, WellFoundedInduction, FiniteSetTheorems

(* What the apply relies on: a preview has a head of each family it will   *)
(* write about, and what a revision succeeds is one of them.               *)
Frozen(q, f) == f \in FamilyIds /\ \E r \in RevisionIds : <<f, r>> \in q.expected

WellFormed(q) ==
  /\ q.operation \in Creations \cup Revising \cup {"link", "none"}
  /\ q.status = "none" <=> q.operation = "none"
  /\ q.operation \in Creations => q.target = None
  /\ q.operation \notin Revising => q.base = {}
  /\ q.operation = "create_and_link" => Frozen(q, q.relationTarget)
  /\ q.operation \in Revising =>
       /\ q.target \in FamilyIds
       /\ \E r \in RevisionIds : q.base = {r} /\ <<q.target, r>> \in q.expected
  /\ q.operation = "link" =>
       /\ Frozen(q, q.target) /\ Frozen(q, q.relationTarget)
       /\ q.relation \in RelationTypes
       /\ q.target # q.relationTarget
  /\ q.replacement # None => Frozen(q, q.replacement) /\ q.replacement # q.target

(* What a preview says of the ledger when it is drafted.                   *)
Drafted(q) ==
  /\ WellFormed(q)
  /\ q.status = "pending_approval"
  /\ \A e \in q.expected : Published(e[2]) /\ revisions[e[2]].family = e[1]
  /\ q.operation \in StateChanges => q.content.to = now /\ WellFormedWindow(q.content)

PreviewsAreWellFormed == \A p \in ProposalIds : WellFormed(proposals[p])

(* A decision is taken by an operator who did not ask, on something asked. *)
DecisionsAreIndependent ==
  \A p \in ProposalIds : approvals[p].status # "none" =>
    /\ proposals[p].status # "none"
    /\ approvals[p].by \in Operators
    /\ approvals[p].by # proposals[p].requestedBy

HeadsAreTheirOwn ==
  \A f \in FamilyIds : HasHead(f) =>
    /\ Published(heads[f].revision)
    /\ revisions[heads[f].revision].family = f

RevisionsHaveOrigins ==
  \A r \in RevisionIds : Published(r) =>
    /\ revisions[r].proposal \in ProposalIds
    /\ revisions[r].family \in FamilyIds
    /\ families[revisions[r].family].state = "active"
    /\ \A s \in revisions[r].parents : Published(s)

Inductive ==
  /\ TypeOK
  /\ PreviewsAreWellFormed
  /\ DecisionsAreIndependent
  /\ HeadsAreTheirOwn
  /\ RevisionsHaveOrigins
  /\ LinearHistory
  /\ Authorized
-----------------------------------------------------------------------------
(* Lemmas about Min, Max and the latest row, which choose identifiers,     *)
(* instants and the revision in effect.                                    *)

LEMMA MinIsMember ==
  ASSUME NEW S, S \subseteq Nat, S # {}
  PROVE  Min(S) \in S
<1>1. PICK x \in S : \A y \in S : ~(<<y, x>> \in OpToRel(<, Nat))
  BY NatLessThanWellFounded, WFMin
<1>2. \A y \in S : <<y, x>> \in OpToRel(<, Nat) <=> y < x
  BY DEF OpToRel
<1>3. \A y \in S : x <= y
  <2>1. SUFFICES ASSUME NEW y \in S PROVE x <= y
    OBVIOUS
  <2>2. ~(y < x)
    BY <1>1, <1>2
  <2>3. x \in Nat /\ y \in Nat
    OBVIOUS
  <2> QED BY <2>2, <2>3
<1> QED
  BY <1>3 DEF Min

(* A bounded set of numbers has a greatest one.                            *)
LEMMA GreatestExists ==
  ASSUME NEW B \in Nat, NEW S \in SUBSET (0..B), S # {}
  PROVE  \E x \in S : \A y \in S : y <= x
<1> DEFINE D == {B - y : y \in S}
<1>1. D \subseteq Nat /\ D # {}
  <2>1. \A y \in S : y \in 0..B
    OBVIOUS
  <2>2. \A y \in 0..B : B - y \in Nat
    OBVIOUS
  <2> QED
    BY <2>1, <2>2
<1>2. PICK d \in D : \A e \in D : ~(<<e, d>> \in OpToRel(<, Nat))
  <2> HIDE DEF D
  <2> QED
    BY <1>1, NatLessThanWellFounded, WFMin
<1>3. \A e \in D : ~(e < d)
  BY <1>1, <1>2 DEF OpToRel
<1>4. PICK x \in S : d = B - x
  OBVIOUS
<1>5. ASSUME NEW y \in S PROVE y <= x
  <2>1. ~(B - y < B - x)
    BY <1>3, <1>4
  <2> QED
    BY <2>1
<1> QED
  BY <1>5

(* Of the rows that are in effect one is the latest.                       *)
LEMMA LatestExists ==
  ASSUME NEW f, NEW valid \in Nat, NEW recorded \in Nat,
         \A r \in RevisionIds : revisions[r].content.from \in Nat /\ revisions[r].from \in Nat,
         EffectiveRows(f, valid, recorded) # {}
  PROVE  \E s \in EffectiveRows(f, valid, recorded) :
           \A r \in EffectiveRows(f, valid, recorded) : Precedes(r, s)
<1> DEFINE rows == EffectiveRows(f, valid, recorded)
           starts == {revisions[r].content.from : r \in rows}
<1>1. \A r \in rows :
        /\ r \in RevisionIds
        /\ revisions[r].content.from \in 0..valid
        /\ revisions[r].from \in 0..recorded
  BY DEF EffectiveRows, RecordedAt
<1> HIDE DEF rows
<1>2. PICK start \in starts : \A x \in starts : x <= start
  <2>1. starts # {} /\ starts \subseteq 0..valid
    BY <1>1 DEF rows
  <2> HIDE DEF starts
  <2> QED
    BY <2>1, GreatestExists
<1> DEFINE first == {r \in rows : revisions[r].content.from = start}
           instants == {revisions[r].from : r \in first}
<1>3. PICK instant \in instants : \A x \in instants : x <= instant
  <2>1. instants # {} /\ instants \subseteq 0..recorded
    BY <1>1, <1>2
  <2> HIDE DEF instants
  <2> QED
    BY <2>1, GreatestExists
<1> DEFINE last == {r \in first : revisions[r].from = instant}
<1>4. PICK s \in last : \A x \in last : x <= s
  <2>1. last # {} /\ last \subseteq 0..MaxRevision /\ MaxRevision \in Nat
    BY <1>1, <1>3, BoundsAssumption DEF RevisionIds
  <2> HIDE DEF last
  <2> QED
    BY <2>1, GreatestExists
<1>5. ASSUME NEW r \in rows PROVE Precedes(r, s)
  <2>1. /\ revisions[r].content.from <= start
        /\ revisions[s].content.from = start /\ revisions[s].from = instant
    BY <1>2, <1>4
  <2>2. revisions[r].content.from = start => revisions[r].from <= instant
    BY <1>3
  <2>3. revisions[r].content.from = start /\ revisions[r].from = instant => r <= s
    BY <1>4
  <2>4. /\ revisions[r].content.from \in Int /\ revisions[r].from \in Int
        /\ start \in Int /\ instant \in Int
    BY <1>1, <1>2, <1>3
  <2> QED
    BY <2>1, <2>2, <2>3, <2>4 DEF Precedes
<1> QED
  BY <1>4, <1>5 DEF rows

LEMMA EffectiveType ==
  ASSUME now \in Nat, NEW f,
         \A r \in RevisionIds : revisions[r].content.from \in Nat /\ revisions[r].from \in Nat
  PROVE  EffectiveNow(f) = None \/ Published(EffectiveNow(f))
<1> DEFINE rows == EffectiveRows(f, now, now)
           chosen == CHOOSE s \in rows : \A r \in rows : Precedes(r, s)
<1>1. rows # {} => Published(chosen)
  <2> SUFFICES ASSUME rows # {} PROVE Published(chosen)
    OBVIOUS
  <2>1. \E s \in rows : \A r \in rows : Precedes(r, s)
    BY LatestExists
  <2>2. chosen \in rows
    <3> HIDE DEF rows
    <3> QED
      BY <2>1
  <2> HIDE DEF chosen
  <2> QED
    BY <2>2 DEF EffectiveRows
<1>2. EffectiveNow(f) \in {chosen, None} /\ (rows = {} => EffectiveNow(f) = None)
  BY DEF EffectiveNow, Effective
<1> HIDE DEF rows, chosen
<1> QED
  BY <1>1, <1>2

LEMMA MaxOfTwo ==
  ASSUME NEW a \in Nat, NEW b \in Nat
  PROVE  Max({a, b}) \in Nat
<1>1. \E x \in {a, b} : \A y \in {a, b} : x >= y
  OBVIOUS
<1> QED
  BY <1>1 DEF Max

LEMMA MaxOfOne ==
  ASSUME NEW a \in Nat
  PROVE  Max({a}) = a
<1>1. \E x \in {a} : \A y \in {a} : x >= y
  OBVIOUS
<1> QED
  BY <1>1 DEF Max
-----------------------------------------------------------------------------
(* Init.                                                                   *)

LEMMA RecordTypes ==
  /\ NoContent \in ContentType
  /\ NoFamily \in Families
  /\ NoRevision \in Revisions
  /\ NoHead \in Heads
  /\ NoProposal \in Proposals
  /\ NoApproval \in Approvals
<1>1. NoContent \in ContentType
  BY ContentAssumption DEF NoContent, ContentType, None
<1>2. NoProposal \in Proposals
  <2>1. /\ "none" \in ProposalStatuses /\ "none" \in OperationOrNone
        /\ None \in FamilyOrNone /\ None \in RevisionOrNone
        /\ None \in ProposalOrNone /\ NoAlias \in LegacyOrNone
        /\ "" \in RelationOrNone /\ "" \in RequesterOrNone
        /\ NoKey \in KeyType /\ None \in Nat
        /\ {} \in RevisionSets /\ {} \in HeadSets
    BY DEF ProposalStatuses, OperationOrNone, FamilyOrNone, RevisionOrNone,
       ProposalOrNone, LegacyOrNone, RelationOrNone, RequesterOrNone, KeyType,
       None, RevisionSets, HeadSets
  <2> QED
    BY <1>1, <2>1 DEF NoProposal, Proposals
<1>3. NoRevision \in Revisions
  BY <1>1 DEF NoRevision, Revisions, None
<1> QED
  BY <1>1, <1>2, <1>3 DEF NoFamily, Families, NoHead, Heads, NoApproval,
     Approvals, ApprovalStatuses, None

LEMMA InitInductive == Init => Inductive
<1> SUFFICES ASSUME Init PROVE Inductive
  OBVIOUS
<1>1. TypeOK
  BY RecordTypes DEF Init, TypeOK
<1>2. \A r \in RevisionIds : ~Published(r)
  BY DEF Init, Published, NoRevision
<1>3. LinearHistory /\ Authorized /\ RevisionsHaveOrigins
  BY <1>2 DEF LinearHistory, Authorized, RevisionsHaveOrigins
<1>4. HeadsAreTheirOwn
  BY DEF Init, HeadsAreTheirOwn, HasHead, NoHead
<1>5. DecisionsAreIndependent
  BY DEF Init, DecisionsAreIndependent, NoApproval
<1>6. PreviewsAreWellFormed
  <2>1. WellFormed(NoProposal)
    BY DEF WellFormed, NoProposal, Creations, Revising, StateChanges
  <2> QED
    BY <2>1 DEF Init, PreviewsAreWellFormed
<1> QED
  BY <1>1, <1>3, <1>4, <1>5, <1>6 DEF Inductive
-----------------------------------------------------------------------------
(* A step that leaves what was published alone.                            *)

Publication == <<families, revisions, heads>>

(* A proposal or an approval that no revision came from may change.        *)
LEMMA PublicationUntouched ==
  ASSUME Inductive, UNCHANGED Publication, TypeOK',
         PreviewsAreWellFormed', DecisionsAreIndependent',
         \A p \in ProposalIds : proposals[p].status = "applied" =>
           /\ proposals'[p] = proposals[p]
           /\ approvals'[p] = approvals[p]
  PROVE  Inductive'
<1> USE DEF Publication
<1>1. HeadsAreTheirOwn'
  BY DEF Inductive, HeadsAreTheirOwn, HasHead, Published
<1>2. RevisionsHaveOrigins'
  BY DEF Inductive, RevisionsHaveOrigins, Published
<1>3. LinearHistory'
  BY DEF Inductive, LinearHistory, HasHead, Published
<1>4. Authorized'
  BY DEF Inductive, RevisionsHaveOrigins, Authorized, Published
<1> QED
  BY <1>1, <1>2, <1>3, <1>4 DEF Inductive

LEMMA TickInductive == Inductive /\ Tick => Inductive'
<1> SUFFICES ASSUME Inductive, Tick PROVE Inductive'
  OBVIOUS
<1> USE DEF Tick, canonical
<1>1. TypeOK'
  BY DEF Inductive, TypeOK
<1>2. PreviewsAreWellFormed' /\ DecisionsAreIndependent'
  BY DEF Inductive, PreviewsAreWellFormed, DecisionsAreIndependent
<1> QED
  BY <1>1, <1>2, PublicationUntouched DEF Publication
-----------------------------------------------------------------------------
(* Propose.                                                                *)

LEMMA SaveInductive ==
  ASSUME Inductive, NEW q \in Proposals, WellFormed(q),
         q.status = "pending_approval", Save(q)
  PROVE  Inductive'
<1> DEFINE free == Min(FreeProposals)
<1>1. free \in FreeProposals
  BY MinIsMember DEF Save, FreeProposals, ProposalIds
<1>2. free \in ProposalIds /\ proposals[free].status = "none"
  BY <1>1 DEF FreeProposals
<1>3. proposals \in [ProposalIds -> Proposals]
  BY DEF Inductive, TypeOK
<1> HIDE DEF free
<1>4. proposals' = [proposals EXCEPT ![free] = q]
  BY DEF Save, free
<1>5. UNCHANGED <<now, canonical, approvals>>
  BY DEF Save
<1>6. TypeOK'
  BY <1>2, <1>4, <1>5 DEF Inductive, TypeOK, canonical
<1>7. PreviewsAreWellFormed'
  BY <1>2, <1>3, <1>4 DEF Inductive, PreviewsAreWellFormed
<1>8. DecisionsAreIndependent'
  BY <1>2, <1>3, <1>4, <1>5 DEF Inductive, DecisionsAreIndependent
<1>9. \A p \in ProposalIds : proposals[p].status = "applied" =>
        proposals'[p] = proposals[p] /\ approvals'[p] = approvals[p]
  BY <1>2, <1>3, <1>4, <1>5
<1> QED
  BY <1>5, <1>6, <1>7, <1>8, <1>9, PublicationUntouched DEF Publication, canonical

LEMMA DraftType ==
  ASSUME TypeOK, NEW o \in OperationNames, NEW who \in Requesters
  PROVE  Draft(o, who) \in Proposals
<1>1. now + Ttl \in Nat
  BY BoundsAssumption DEF TypeOK
<1>2. "pending_approval" \in ProposalStatuses
  BY DEF ProposalStatuses
<1>3. o \in OperationOrNone /\ who \in RequesterOrNone
  BY DEF OperationOrNone, RequesterOrNone
<1> QED
  BY <1>1, <1>2, <1>3, RecordTypes DEF Draft, Proposals

LEMMA HeadPairType ==
  ASSUME TypeOK, NEW f \in FamilyIds, HasHead(f)
  PROVE  /\ heads[f].revision \in RevisionIds
         /\ HeadPair(f) = <<f, heads[f].revision>>
         /\ HeadPair(f) \in FamilyIds \X RevisionIds
BY DEF TypeOK, Heads, HasHead, HeadPair, None

LEMMA ProposeCreateDrafts ==
  ASSUME Inductive, NEW who \in Requesters, NEW c \in Contents,
         NEW a \in LegacyIds \cup {NoAlias}, NEW k \in Keys \cup {NoKey},
         ProposeCreate(c, a, k, who)
  PROVE  \E x \in Proposals : Drafted(x) /\ Save(x)
<1> DEFINE q == [Draft("create", who) EXCEPT !.content = c, !.legacy = a, !.key = k]
<1>1. Draft("create", who) \in Proposals
  BY DraftType DEF Inductive, OperationNames, Creations
<1>2. q \in Proposals
  <2>1. c \in ContentType /\ a \in LegacyOrNone /\ k \in KeyType
    BY ContentAssumption DEF LegacyOrNone, KeyType
  <2> QED
    BY <1>1, <2>1 DEF Proposals
<1>3. WellFormed(q) /\ q.status = "pending_approval"
  BY DEF WellFormed, Draft, NoProposal, Creations, Revising, StateChanges
<1>4. Save(q)
  BY DEF ProposeCreate
<1>9. Drafted(q)
  <2>1. q.expected = {} /\ q.operation = "create"
    BY DEF Draft, NoProposal
  <2> QED
    BY <1>3, <2>1 DEF Drafted, StateChanges
<1> QED
  BY <1>2, <1>4, <1>9

LEMMA ProposeCreateAndLinkDrafts ==
  ASSUME Inductive, NEW who \in Requesters, NEW c \in Contents,
         NEW a \in LegacyIds \cup {NoAlias}, NEW t \in FamilyIds,
         ProposeCreateAndLink(c, a, t, who)
  PROVE  \E x \in Proposals : Drafted(x) /\ Save(x)
<1> DEFINE q == [Draft("create_and_link", who) EXCEPT
                   !.content = c, !.legacy = a, !.expected = {HeadPair(t)},
                   !.relation = "REFINES", !.relationTarget = t,
                   !.key = <<"create-and-link", t, c, a>>]
<1>1. Draft("create_and_link", who) \in Proposals
  BY DraftType DEF Inductive, OperationNames, Creations
<1>2. HasHead(t) /\ TypeOK
  BY DEF ProposeCreateAndLink, Inductive
<1>3. HeadPair(t) = <<t, heads[t].revision>> /\ heads[t].revision \in RevisionIds
  BY <1>2, HeadPairType
<1>4. q \in Proposals
  <2>1. <<"create-and-link", t, c, a>> \in KeyType
    BY DEF KeyType
  <2>2. /\ c \in ContentType /\ a \in LegacyOrNone /\ t \in FamilyOrNone
        /\ "REFINES" \in RelationOrNone /\ {HeadPair(t)} \in HeadSets
    BY <1>3, ContentAssumption DEF LegacyOrNone, FamilyOrNone, RelationOrNone, HeadSets
  <2> QED
    BY <1>1, <2>1, <2>2 DEF Proposals
<1>5. WellFormed(q) /\ q.status = "pending_approval"
  <2>1. Frozen(q, t)
    BY <1>3 DEF Frozen, Draft, NoProposal
  <2> QED
    BY <2>1 DEF WellFormed, Draft, NoProposal, Creations, Revising, StateChanges
<1>6. Save(q)
  BY DEF ProposeCreateAndLink
<1>9. Drafted(q)
  <2>1. q.expected = {<<t, heads[t].revision>>} /\ q.operation = "create_and_link"
    BY <1>3 DEF Draft, NoProposal
  <2>2. Published(heads[t].revision) /\ revisions[heads[t].revision].family = t
    BY <1>2 DEF Inductive, HeadsAreTheirOwn
  <2> QED
    BY <1>5, <2>1, <2>2 DEF Drafted, StateChanges
<1> QED
  BY <1>4, <1>6, <1>9

LEMMA ProposeUpdateDrafts ==
  ASSUME Inductive, NEW who \in Requesters, NEW c \in Contents,
         NEW f \in FamilyIds, NEW k \in Keys \cup {NoKey},
         ProposeUpdate(f, c, k, who)
  PROVE  \E x \in Proposals : Drafted(x) /\ Save(x)
<1> DEFINE q == [Draft("update", who) EXCEPT
                   !.target = f, !.content = c, !.base = {heads[f].revision},
                   !.expected = {HeadPair(f)}, !.key = k]
<1>1. Draft("update", who) \in Proposals
  BY DraftType DEF Inductive, OperationNames, Revising
<1>2. HasHead(f) /\ TypeOK
  BY DEF ProposeUpdate, Inductive
<1>3. HeadPair(f) = <<f, heads[f].revision>> /\ heads[f].revision \in RevisionIds
  BY <1>2, HeadPairType
<1>4. q \in Proposals
  <2>1. /\ c \in ContentType /\ k \in KeyType /\ f \in FamilyOrNone
        /\ {heads[f].revision} \in RevisionSets /\ {HeadPair(f)} \in HeadSets
    BY <1>3, ContentAssumption DEF KeyType, FamilyOrNone, RevisionSets, HeadSets
  <2> QED
    BY <1>1, <2>1 DEF Proposals
<1>5. WellFormed(q) /\ q.status = "pending_approval"
  BY <1>3 DEF WellFormed, Draft, NoProposal, Creations, Revising, StateChanges
<1>6. Save(q)
  BY DEF ProposeUpdate
<1>9. Drafted(q)
  <2>1. q.expected = {<<f, heads[f].revision>>} /\ q.operation = "update"
    BY <1>3 DEF Draft, NoProposal
  <2>2. Published(heads[f].revision) /\ revisions[heads[f].revision].family = f
    BY <1>2 DEF Inductive, HeadsAreTheirOwn
  <2> QED
    BY <1>5, <2>1, <2>2 DEF Drafted, StateChanges
<1> QED
  BY <1>4, <1>6, <1>9

LEMMA ProposeRollbackDrafts ==
  ASSUME Inductive, NEW who \in Requesters, NEW f \in FamilyIds,
         NEW r \in RevisionIds, NEW s \in RevisionIds,
         ProposeRollback(f, r, s, who)
  PROVE  \E x \in Proposals : Drafted(x) /\ Save(x)
<1> DEFINE q == [Draft("rollback", who) EXCEPT
                   !.target = f, !.content = revisions[s].content,
                   !.base = {r}, !.expected = {<<f, r>>}, !.restore = s]
<1>1. Draft("rollback", who) \in Proposals
  BY DraftType DEF Inductive, OperationNames, Revising
<1>2. revisions[s].content \in ContentType
  BY DEF Inductive, TypeOK, Revisions
<1>3. q \in Proposals
  <2>1. /\ f \in FamilyOrNone /\ s \in RevisionOrNone
        /\ {r} \in RevisionSets /\ {<<f, r>>} \in HeadSets
    BY DEF FamilyOrNone, RevisionOrNone, RevisionSets, HeadSets
  <2> QED
    BY <1>1, <1>2, <2>1 DEF Proposals
<1>4. WellFormed(q) /\ q.status = "pending_approval"
  BY DEF WellFormed, Draft, NoProposal, Creations, Revising, StateChanges
<1>5. Save(q)
  BY DEF ProposeRollback
<1>9. Drafted(q)
  <2>1. q.expected = {<<f, r>>} /\ q.operation = "rollback"
    BY DEF Draft, NoProposal
  <2>2. Published(r) /\ revisions[r].family = f
    BY DEF ProposeRollback
  <2> QED
    BY <1>4, <2>1, <2>2 DEF Drafted, StateChanges
<1> QED
  BY <1>3, <1>5, <1>9

LEMMA ProposeStateChangeDrafts ==
  ASSUME Inductive, NEW who \in Requesters, NEW f \in FamilyIds,
         NEW o \in StateChanges, NEW t \in FamilyIds \cup {None},
         ProposeStateChange(f, o, t, who)
  PROVE  \E x \in Proposals : Drafted(x) /\ Save(x)
<1> DEFINE content == [revisions[heads[f].revision].content EXCEPT !.to = now]
           seen == IF t # None THEN {HeadPair(t)} ELSE {}
           key == IF t # None THEN <<"deprecate", o, f, t>> ELSE NoKey
           q == [Draft(o, who) EXCEPT
                   !.target = f, !.content = content, !.base = {heads[f].revision},
                   !.expected = {HeadPair(f)} \cup seen, !.replacement = t,
                   !.key = key]
<1>1. Draft(o, who) \in Proposals
  BY DraftType DEF Inductive, OperationNames, Revising
<1>2. HasHead(f) /\ TypeOK
  BY DEF ProposeStateChange, Inductive
<1>3. HeadPair(f) = <<f, heads[f].revision>> /\ heads[f].revision \in RevisionIds
  BY <1>2, HeadPairType
<1>4. t # None => /\ t \in FamilyIds
                  /\ HeadPair(t) = <<t, heads[t].revision>>
                  /\ heads[t].revision \in RevisionIds
  BY <1>2, HeadPairType DEF ProposeStateChange
<1>5. content \in ContentType
  <2>1. revisions[heads[f].revision].content \in ContentType
    BY <1>2, <1>3 DEF TypeOK, Revisions
  <2> QED
    BY <1>2, <2>1 DEF TypeOK, ContentType
<1>6. q \in Proposals
  <2>1. /\ key \in KeyType /\ f \in FamilyOrNone /\ t \in FamilyOrNone
        /\ {heads[f].revision} \in RevisionSets
        /\ ({HeadPair(f)} \cup seen) \in HeadSets
    BY <1>3, <1>4 DEF KeyType, FamilyOrNone, RevisionSets, HeadSets
  <2> HIDE DEF key, content, seen
  <2> QED
    BY <1>1, <1>5, <2>1 DEF Proposals
<1>7. WellFormed(q) /\ q.status = "pending_approval"
  <2>1. t # None => t # f
    BY DEF ProposeStateChange
  <2>2. /\ q.status = "pending_approval" /\ q.operation = o /\ q.target = f
        /\ q.base = {heads[f].revision} /\ q.expected = {HeadPair(f)} \cup seen
        /\ q.replacement = t
    <3> HIDE DEF key, content, seen
    <3> QED
      BY DEF Draft, NoProposal
  <2>3. o \in Revising \ (Creations \cup {"link", "none", "create_and_link"})
    BY DEF StateChanges, Revising, Creations
  <2>4. <<f, heads[f].revision>> \in q.expected
    BY <1>3, <2>2
  <2>5. t # None => Frozen(q, t)
    BY <1>4, <2>2 DEF Frozen
  <2> HIDE DEF q, key, content, seen
  <2> QED
    BY <1>3, <2>1, <2>2, <2>3, <2>4, <2>5 DEF WellFormed
<1>8. Save(q)
  BY DEF ProposeStateChange
<1>9. Drafted(q)
  <2>1. q.content = content /\ q.expected = {HeadPair(f)} \cup seen
    <3> HIDE DEF content, key
    <3> QED
      BY DEF Draft, NoProposal
  <2>2. content.to = now /\ WellFormedWindow(content)
    <3>1. revisions[heads[f].revision].content \in ContentType
      BY <1>2, <1>3 DEF TypeOK, Revisions
    <3> QED
      BY <3>1 DEF ProposeStateChange, ContentType
  <2>3. \A g \in FamilyIds : HasHead(g) =>
          Published(heads[g].revision) /\ revisions[heads[g].revision].family = g
    BY DEF Inductive, HeadsAreTheirOwn
  <2>4. t # None => HasHead(t)
    BY DEF ProposeStateChange
  <2>5. \A e \in {HeadPair(f)} \cup seen :
          Published(e[2]) /\ revisions[e[2]].family = e[1]
    BY <1>2, <1>3, <1>4, <2>3, <2>4
  <2> HIDE DEF q, content, seen
  <2> QED
    BY <1>7, <2>1, <2>2, <2>5 DEF Drafted
<1> QED
  BY <1>6, <1>8, <1>9

LEMMA ProposeLinkDrafts ==
  ASSUME Inductive, NEW who \in Requesters, NEW source \in FamilyIds,
         NEW target \in FamilyIds, NEW type \in RelationTypes,
         NEW prefix \in {"link", "relation"},
         ProposeLink(source, target, type, prefix, who)
  PROVE  \E x \in Proposals : Drafted(x) /\ Save(x)
<1> DEFINE swapped == type = "RELATED_TO" /\ source > target
           f == IF swapped THEN target ELSE source
           t == IF swapped THEN source ELSE target
           key == IF prefix = "link" THEN <<"link", type, source, target>>
                  ELSE <<"relation", type, f, t>>
           q == [Draft("link", who) EXCEPT
                   !.target = f, !.expected = {HeadPair(f), HeadPair(t)},
                   !.relation = type, !.relationTarget = t, !.key = key]
<1>1. Draft("link", who) \in Proposals
  BY DraftType DEF Inductive, OperationNames
<1>2. /\ f \in FamilyIds /\ t \in FamilyIds /\ f # t
      /\ HasHead(f) /\ HasHead(t) /\ TypeOK
  BY DEF ProposeLink, Inductive
<1>3. Save(q)
  BY DEF ProposeLink
<1>4. key \in KeyType
  BY <1>2 DEF KeyType
<1> HIDE DEF f, t, key
<1>5. /\ HeadPair(f) = <<f, heads[f].revision>> /\ heads[f].revision \in RevisionIds
      /\ HeadPair(t) = <<t, heads[t].revision>> /\ heads[t].revision \in RevisionIds
  BY <1>2, HeadPairType
<1>6. q \in Proposals
  <2>1. f \in FamilyOrNone /\ t \in FamilyOrNone
    BY <1>2 DEF FamilyOrNone
  <2>2. type \in RelationOrNone
    BY DEF RelationOrNone
  <2>3. {HeadPair(f), HeadPair(t)} \in HeadSets
    BY <1>2, <1>5 DEF HeadSets
  <2> QED
    BY <1>1, <1>4, <2>1, <2>2, <2>3 DEF Proposals
<1>7. WellFormed(q) /\ q.status = "pending_approval"
  BY <1>2, <1>5 DEF WellFormed, Frozen, Draft, NoProposal, Creations, Revising,
     StateChanges
<1>9. Drafted(q)
  <2>1. /\ q.expected = {<<f, heads[f].revision>>, <<t, heads[t].revision>>}
        /\ q.operation = "link"
    BY <1>5 DEF Draft, NoProposal
  <2>2. \A g \in FamilyIds : HasHead(g) =>
          Published(heads[g].revision) /\ revisions[heads[g].revision].family = g
    BY DEF Inductive, HeadsAreTheirOwn
  <2> QED
    BY <1>2, <1>7, <2>1, <2>2 DEF Drafted, StateChanges
<1> QED
  BY <1>6, <1>3, <1>9

LEMMA ProposeDrafts ==
  Inductive /\ Propose => \E q \in Proposals : Drafted(q) /\ Save(q)
BY ProposeCreateDrafts, ProposeCreateAndLinkDrafts, ProposeUpdateDrafts,
   ProposeRollbackDrafts, ProposeStateChangeDrafts, ProposeLinkDrafts
   DEF Propose

LEMMA ProposeInductive == Inductive /\ Propose => Inductive'
BY ProposeDrafts, SaveInductive DEF Drafted
-----------------------------------------------------------------------------
(* Decide.                                                                 *)

(* A change of status and outcome leaves a preview as it was drafted.      *)
LEMMA DraftingKept ==
  ASSUME Inductive, NEW p \in ProposalIds, proposals[p].status # "none",
         NEW q \in Proposals,
         \E s \in ProposalStatuses \ {"none"}, r \in RevisionOrNone :
           q = [proposals[p] EXCEPT !.status = s, !.appliedRevision = r],
         proposals' = [proposals EXCEPT ![p] = q]
  PROVE  PreviewsAreWellFormed'
<1>1. proposals \in [ProposalIds -> Proposals]
  BY DEF Inductive, TypeOK
<1>2. /\ q.operation = proposals[p].operation /\ q.base = proposals[p].base
      /\ q.target = proposals[p].target /\ q.expected = proposals[p].expected
      /\ q.relationTarget = proposals[p].relationTarget
      /\ q.replacement = proposals[p].replacement
      /\ q.relation = proposals[p].relation
      /\ q.status # "none"
  BY <1>1 DEF Proposals
<1>3. WellFormed(proposals[p])
  BY DEF Inductive, PreviewsAreWellFormed
<1>4. WellFormed(q)
  BY <1>2, <1>3 DEF WellFormed, Frozen
<1> QED
  BY <1>1, <1>4 DEF Inductive, PreviewsAreWellFormed

(* A proposal that has not been applied moves to another status.           *)
LEMMA StatusInductive ==
  ASSUME Inductive, NEW p \in ProposalIds, NEW status \in ProposalStatuses,
         proposals[p].status \in {"pending_approval", "approved"},
         proposals' = [proposals EXCEPT ![p].status = status],
         status # "none",
         UNCHANGED <<now, canonical, approvals>>
  PROVE  Inductive'
<1>1. proposals \in [ProposalIds -> Proposals]
  BY DEF Inductive, TypeOK
<1>2. [proposals[p] EXCEPT !.status = status] \in Proposals
  BY <1>1 DEF Proposals
<1>3. TypeOK'
  BY <1>1, <1>2 DEF Inductive, TypeOK, canonical
<1>4. PreviewsAreWellFormed'
  <2> DEFINE q == [proposals[p] EXCEPT !.status = status]
  <2>1. /\ proposals[p].appliedRevision \in RevisionOrNone
        /\ status \in ProposalStatuses \ {"none"} /\ proposals[p].status # "none"
    BY <1>1 DEF Proposals
  <2>2. q = [proposals[p] EXCEPT !.status = status,
                                 !.appliedRevision = proposals[p].appliedRevision]
    BY <1>1 DEF Proposals
  <2>3. proposals' = [proposals EXCEPT ![p] = q]
    BY <1>1
  <2>4. q \in Proposals
    BY <1>2
  <2>5. \E s \in ProposalStatuses \ {"none"}, r \in RevisionOrNone :
          q = [proposals[p] EXCEPT !.status = s, !.appliedRevision = r]
    BY <2>1, <2>2
  <2> HIDE DEF q
  <2> QED
    BY <2>1, <2>3, <2>4, <2>5, DraftingKept
<1>5. DecisionsAreIndependent'
  BY <1>1 DEF Inductive, DecisionsAreIndependent, Proposals
<1>6. \A x \in ProposalIds : proposals[x].status = "applied" =>
        proposals'[x] = proposals[x] /\ approvals'[x] = approvals[x]
  BY <1>1
<1> QED
  BY <1>3, <1>4, <1>5, <1>6, PublicationUntouched DEF Publication, canonical

LEMMA ApproveInductive ==
  ASSUME Inductive, NEW p \in ProposalIds, NEW who \in Operators, Approve(p, who)
  PROVE  Inductive'
<1>1. proposals \in [ProposalIds -> Proposals] /\ approvals \in [ProposalIds -> Approvals]
  BY DEF Inductive, TypeOK
<1> DEFINE decision == [status |-> "issued", by |-> who,
                        expected |-> proposals[p].expected]
<1>2. decision \in Approvals
  <2>1. proposals[p].expected \in SUBSET (FamilyIds \X RevisionIds)
    BY <1>1 DEF Proposals, HeadSets
  <2> QED
    BY <2>1 DEF Approvals, ApprovalStatuses
<1>3. [proposals[p] EXCEPT !.status = "approved"] \in Proposals
  <2>1. "approved" \in ProposalStatuses
    BY DEF ProposalStatuses
  <2> QED
    BY <1>1, <2>1 DEF Proposals
<1>4. /\ proposals' = [proposals EXCEPT ![p].status = "approved"]
      /\ approvals' = [approvals EXCEPT ![p] = decision]
      /\ UNCHANGED <<now, canonical>>
      /\ proposals[p].status = "pending_approval"
      /\ who # proposals[p].requestedBy
  BY DEF Approve, MayApprove
<1>5. TypeOK'
  <2> HIDE DEF decision
  <2> QED
    BY <1>1, <1>2, <1>3, <1>4 DEF Inductive, TypeOK, canonical
<1>6. PreviewsAreWellFormed'
  <2> DEFINE q == [proposals[p] EXCEPT !.status = "approved"]
  <2>1. /\ proposals[p].appliedRevision \in RevisionOrNone
        /\ "approved" \in ProposalStatuses \ {"none"} /\ proposals[p].status # "none"
    BY <1>1, <1>4 DEF Proposals, ProposalStatuses
  <2>2. q = [proposals[p] EXCEPT !.status = "approved",
                                 !.appliedRevision = proposals[p].appliedRevision]
    BY <1>1 DEF Proposals
  <2>3. proposals' = [proposals EXCEPT ![p] = q]
    BY <1>1, <1>4
  <2> HIDE DEF q
  <2> QED
    BY <1>3, <1>4, <2>1, <2>2, <2>3, DraftingKept DEF q
<1>7. DecisionsAreIndependent'
  BY <1>1, <1>4 DEF Inductive, DecisionsAreIndependent, Proposals
<1>8. \A x \in ProposalIds : proposals[x].status = "applied" =>
        proposals'[x] = proposals[x] /\ approvals'[x] = approvals[x]
  BY <1>1, <1>4
<1> QED
  BY <1>4, <1>5, <1>6, <1>7, <1>8, PublicationUntouched DEF Publication, canonical

LEMMA DecideInductive == Inductive /\ Decide => Inductive'
<1> SUFFICES ASSUME Inductive, NEW p \in ProposalIds,
                    \/ \E who \in Operators : Approve(p, who) \/ Reject(p, who)
                    \/ Expire(p)
                    \/ Stale(p)
             PROVE  Inductive'
  BY DEF Decide
<1>1. CASE \E who \in Operators : Approve(p, who)
  BY <1>1, ApproveInductive
<1>2. CASE \E who \in Operators : Reject(p, who)
  BY <1>2, StatusInductive DEF Reject, ProposalStatuses
<1>3. CASE Expire(p)
  BY <1>3, StatusInductive DEF Expire, ProposalStatuses
<1>4. CASE Stale(p)
  BY <1>4, StatusInductive DEF Stale, ProposalStatuses
<1> QED
  BY <1>1, <1>2, <1>3, <1>4
-----------------------------------------------------------------------------
(* Apply.                                                                  *)

LEMMA FrozenHead ==
  ASSUME Inductive, NEW p \in ProposalIds, HeadsMatch(p), NEW f,
         Frozen(proposals[p], f)
  PROVE  f \in FamilyIds /\ heads[f].revision \in RevisionIds /\ HasHead(f)
<1>1. PICK r \in RevisionIds : <<f, r>> \in proposals[p].expected
  BY DEF Frozen
<1>2. heads[f].revision = r
  BY <1>1 DEF HeadsMatch
<1>3. r # None
  BY DEF RevisionIds, None
<1> QED
  BY <1>2, <1>3 DEF Frozen, HasHead

(* What consuming the approval does to the workflow.                       *)
LEMMA ConsumeKeeps ==
  ASSUME Inductive, NEW p \in ProposalIds, Applicable(p), NEW r \in RevisionOrNone,
         Consume(p, r)
  PROVE  /\ proposals' \in [ProposalIds -> Proposals]
         /\ approvals' \in [ProposalIds -> Approvals]
         /\ now' \in Nat
         /\ PreviewsAreWellFormed' /\ DecisionsAreIndependent'
         /\ proposals'[p].status = "applied" /\ proposals'[p].appliedRevision = r
         /\ proposals'[p].requestedBy = proposals[p].requestedBy
         /\ proposals'[p].expires = proposals[p].expires
         /\ approvals'[p].status = "consumed" /\ approvals'[p].by = approvals[p].by
         /\ approvals'[p].expected = proposals[p].expected
         /\ \A x \in ProposalIds \ {p} :
              proposals'[x] = proposals[x] /\ approvals'[x] = approvals[x]
<1>1. proposals \in [ProposalIds -> Proposals] /\ approvals \in [ProposalIds -> Approvals]
  BY DEF Inductive, TypeOK
<1> DEFINE q == [proposals[p] EXCEPT !.status = "applied", !.appliedRevision = r]
           decision == [approvals[p] EXCEPT !.status = "consumed"]
<1>2. "applied" \in ProposalStatuses \ {"none"}
  BY DEF ProposalStatuses
<1>3. q \in Proposals
  <2>1. proposals[p] \in Proposals
    BY <1>1
  <2> QED
    BY <1>2, <2>1 DEF Proposals
<1>4. decision \in Approvals
  BY <1>1 DEF Approvals, ApprovalStatuses
<1>5. /\ proposals' = [proposals EXCEPT ![p] = q]
      /\ approvals' = [approvals EXCEPT ![p] = decision]
      /\ now' = now + 1
  BY <1>1 DEF Consume
<1>6. /\ q.status = "applied" /\ q.appliedRevision = r
      /\ q.requestedBy = proposals[p].requestedBy
      /\ q.expires = proposals[p].expires
  BY <1>1 DEF Proposals
<1>7. /\ decision.status = "consumed" /\ decision.by = approvals[p].by
      /\ decision.expected = proposals[p].expected
  BY <1>1 DEF Approvals, Applicable
<1>8. PreviewsAreWellFormed'
  <2> HIDE DEF q
  <2> QED
    BY <1>2, <1>3, <1>5, DraftingKept DEF Applicable, q
<1> HIDE DEF q, decision
<1>9. DecisionsAreIndependent'
  BY <1>1, <1>5, <1>6, <1>7 DEF Inductive, DecisionsAreIndependent, Applicable
<1>10. now' \in Nat
  BY <1>5 DEF Inductive, TypeOK
<1> QED
  BY <1>1, <1>3, <1>4, <1>5, <1>6, <1>7, <1>8, <1>9, <1>10

LEMMA ApplyLinkInductive ==
  ASSUME Inductive, NEW p \in ProposalIds, ApplyLink(p)
  PROVE  Inductive'
<1> DEFINE q == proposals[p]
           f == q.target
           t == q.relationTarget
           assertion == Assertion(p, f, t, heads[f].revision, heads[t].revision, q.relation)
           event == Event("relation", f, None, "link", "", now)
<1>1. Applicable(p) /\ Consume(p, None) /\ None \in RevisionOrNone /\ q.status = "approved"
  BY DEF ApplyLink, RevisionOrNone, Applicable
<1>2. WellFormed(q) /\ q.operation = "link"
  BY DEF Inductive, PreviewsAreWellFormed, ApplyLink
<1>3. /\ f \in FamilyIds /\ heads[f].revision \in RevisionIds
      /\ t \in FamilyIds /\ heads[t].revision \in RevisionIds
  BY <1>1, <1>2, FrozenHead DEF WellFormed, Applicable
<1>4. assertion \in Relations
  BY <1>2, <1>3 DEF Assertion, Relations, WellFormed
<1>5. event \in Events
  <2>1. sequence + 1 \in Nat /\ now \in Nat
    BY DEF Inductive, TypeOK
  <2>2. "link" \in OperationNames
    BY DEF OperationNames
  <2> QED
    BY <1>3, <2>1, <2>2 DEF Event, Events
<1>6. TypeOK'
  <2>1. /\ UNCHANGED <<families, revisions, heads, aliases, transitions>>
        /\ relations' = relations \cup {assertion}
        /\ outbox' = outbox \cup {event}
        /\ sequence' = sequence + 1
    BY DEF ApplyLink
  <2> HIDE DEF assertion, event
  <2> QED
    BY <1>1, <1>4, <1>5, <2>1, ConsumeKeeps DEF Inductive, TypeOK
<1>7. UNCHANGED Publication
  BY DEF ApplyLink, Publication
<1>8. \A x \in ProposalIds : proposals[x].status = "applied" =>
        proposals'[x] = proposals[x] /\ approvals'[x] = approvals[x]
  BY <1>1, ConsumeKeeps
<1> QED
  BY <1>1, <1>6, <1>7, <1>8, ConsumeKeeps, PublicationUntouched
-----------------------------------------------------------------------------
(* Publication.  What a commit builds on is either nothing, for a family   *)
(* without a past, or the head of its family.                              *)

BuildsOnHead(p, f) ==
  LET base == proposals[p].base
  IN \/ /\ base = {}
        /\ \A r \in RevisionIds : Published(r) => revisions[r].family # f
     \/ /\ HasHead(f)
        /\ base = {heads[f].revision}
        /\ <<f, heads[f].revision>> \in proposals[p].expected

LEMMA NewIsFree ==
  ASSUME FreeRevisions # {}
  PROVE  Min(FreeRevisions) \in RevisionIds /\ ~Published(Min(FreeRevisions))
<1>1. Min(FreeRevisions) \in FreeRevisions
  BY MinIsMember DEF FreeRevisions, RevisionIds
<1> QED
  BY <1>1 DEF FreeRevisions, RevisionIds, Published, None

LEMMA VersionsGrow ==
  ASSUME Inductive, NEW p, NEW f \in FamilyIds, BuildsOnHead(p, f)
  PROVE  /\ NextVersion(proposals[p].base) \in Nat \ {0}
         /\ proposals[p].base = {} => NextVersion(proposals[p].base) = 1
         /\ proposals[p].base # {} =>
              /\ proposals[p].base = {heads[f].revision}
              /\ NextVersion(proposals[p].base) =
                   revisions[heads[f].revision].version + 1
<1>1. CASE proposals[p].base = {}
  BY <1>1 DEF NextVersion
<1>2. CASE proposals[p].base # {}
  <2> DEFINE h == heads[f].revision
  <2>1. HasHead(f) /\ proposals[p].base = {h}
    BY <1>2 DEF BuildsOnHead
  <2>2. h \in RevisionIds
    BY <2>1, HeadPairType DEF Inductive
  <2>3. revisions[h].version \in Nat
    BY <2>2 DEF Inductive, TypeOK, Revisions
  <2>4. {revisions[r].version : r \in proposals[p].base} = {revisions[h].version}
    BY <2>1
  <2>5. NextVersion(proposals[p].base) = revisions[h].version + 1
    BY <2>1, <2>3, <2>4, MaxOfOne DEF NextVersion
  <2> QED
    BY <2>1, <2>3, <2>5
<1> QED
  BY <1>1, <1>2

LEMMA NewRevisionType ==
  ASSUME Inductive, NEW p \in ProposalIds, NEW f \in FamilyIds, Applicable(p),
         BuildsOnHead(p, f)
  PROVE  NewRevision(p, f) \in Revisions
<1>1. proposals[p] \in Proposals /\ approvals[p] \in Approvals /\ now \in Nat
  BY DEF Inductive, TypeOK
<1>2. NextVersion(proposals[p].base) \in Nat
  BY VersionsGrow
<1>3. /\ proposals[p].base \in SUBSET RevisionIds
      /\ proposals[p].content \in ContentType
      /\ proposals[p].restore \in RevisionIds \cup {None}
  BY <1>1 DEF Proposals, RevisionSets, RevisionOrNone
<1>4. approvals[p].by \in Operators \cup {""}
  BY <1>1 DEF Approvals
<1> QED
  BY <1>1, <1>2, <1>3, <1>4 DEF NewRevision, Revisions, None

(* What LinearHistory and Authorized see of the commit of revision new.    *)
Committed(p, f, new) ==
  /\ Applicable(p) /\ BuildsOnHead(p, f) /\ ~Published(new)
  /\ PublishRevision(p, f, new)
  /\ heads' = [heads EXCEPT ![f] = [revision |-> new, sequence |-> sequence + 1]]
  /\ Consume(p, new)
  /\ families'[f].state = "active"
  /\ \A g \in FamilyIds : families[g].state = "active" => families'[g].state = "active"

LEMMA RevisionsAfter ==
  ASSUME Inductive, NEW p \in ProposalIds, NEW f \in FamilyIds,
         NEW new \in RevisionIds, Committed(p, f, new)
  PROVE  /\ revisions' \in [RevisionIds -> Revisions]
         /\ revisions'[new].family = f
         /\ revisions'[new].version = NextVersion(proposals[p].base)
         /\ revisions'[new].parents = proposals[p].base
         /\ revisions'[new].proposal = p
         /\ revisions'[new].actor = approvals[p].by
         /\ revisions'[new].from = now
         /\ Published(new)'
         /\ \A r \in RevisionIds \ {new} :
              /\ revisions'[r].family = revisions[r].family
              /\ revisions'[r].version = revisions[r].version
              /\ revisions'[r].parents = revisions[r].parents
              /\ revisions'[r].proposal = revisions[r].proposal
              /\ revisions'[r].actor = revisions[r].actor
              /\ revisions'[r].from = revisions[r].from
              /\ Published(r)' <=> Published(r)
<1>1. NewRevision(p, f) \in Revisions /\ now \in Nat
  BY NewRevisionType DEF Committed, Inductive, TypeOK
<1>2. revisions \in [RevisionIds -> Revisions]
  BY DEF Inductive, TypeOK
<1>3. revisions' = [r \in RevisionIds |->
         IF r = new THEN NewRevision(p, f)
         ELSE IF Closes(p, r) THEN [revisions[r] EXCEPT !.to = now]
         ELSE revisions[r]]
  BY DEF Committed, PublishRevision
<1>4. \A r \in RevisionIds : [revisions[r] EXCEPT !.to = now] \in Revisions
  <2>1. SUFFICES ASSUME NEW r \in RevisionIds
                 PROVE  [revisions[r] EXCEPT !.to = now] \in Revisions
    OBVIOUS
  <2>2. revisions[r] \in Revisions
    BY <1>2
  <2> QED
    BY <1>1, <2>2 DEF Revisions
<1>5. revisions' \in [RevisionIds -> Revisions]
  BY <1>1, <1>2, <1>3, <1>4
<1>6. /\ revisions'[new].family = f
      /\ revisions'[new].version = NextVersion(proposals[p].base)
      /\ revisions'[new].parents = proposals[p].base
      /\ revisions'[new].proposal = p
      /\ revisions'[new].actor = approvals[p].by
      /\ revisions'[new].from = now
  <2>1. revisions'[new] = NewRevision(p, f)
    BY <1>3
  <2> QED
    BY <2>1 DEF NewRevision
<1>7. Published(new)'
  BY <1>6, VersionsGrow DEF Published, Committed
<1>8. ASSUME NEW r \in RevisionIds \ {new}
      PROVE  /\ revisions'[r].family = revisions[r].family
             /\ revisions'[r].version = revisions[r].version
             /\ revisions'[r].parents = revisions[r].parents
             /\ revisions'[r].proposal = revisions[r].proposal
             /\ revisions'[r].actor = revisions[r].actor
             /\ revisions'[r].from = revisions[r].from
  <2>1. revisions[r] \in Revisions
    BY <1>2
  <2>2. \/ revisions'[r] = revisions[r]
        \/ revisions'[r] = [revisions[r] EXCEPT !.to = now]
    BY <1>3
  <2> QED
    BY <2>1, <2>2 DEF Revisions
<1>9. ASSUME NEW r \in RevisionIds \ {new} PROVE Published(r)' <=> Published(r)
  BY <1>8, <1>9 DEF Published
<1> QED
  BY <1>5, <1>6, <1>7, <1>8, <1>9

(* The head of a family after the commit.                                  *)
LEMMA HeadsAfter ==
  ASSUME Inductive, NEW p \in ProposalIds, NEW f \in FamilyIds,
         NEW new \in RevisionIds, Committed(p, f, new)
  PROVE  /\ heads' \in [FamilyIds -> Heads]
         /\ heads'[f].revision = new /\ HasHead(f)'
         /\ \A g \in FamilyIds \ {f} : heads'[g] = heads[g] /\ (HasHead(g)' <=> HasHead(g))
         /\ \A g \in FamilyIds \ {f} : HasHead(g) => heads[g].revision # new
<1>1. ~Published(new) /\ new # None
  BY DEF Committed, RevisionIds, None
<1>2. heads \in [FamilyIds -> Heads] /\ sequence \in Nat
  BY DEF Inductive, TypeOK
<1>3. heads' = [heads EXCEPT ![f] = [revision |-> new, sequence |-> sequence + 1]]
  BY DEF Committed
<1>4. [revision |-> new, sequence |-> sequence + 1] \in Heads
  BY <1>1, <1>2 DEF Heads
<1>5. heads' \in [FamilyIds -> Heads]
  BY <1>2, <1>3, <1>4
<1>6. heads'[f].revision = new /\ HasHead(f)'
  BY <1>1, <1>2, <1>3 DEF HasHead
<1>7. \A g \in FamilyIds \ {f} : heads'[g] = heads[g] /\ (HasHead(g)' <=> HasHead(g))
  BY <1>2, <1>3 DEF HasHead
<1>8. \A g \in FamilyIds \ {f} : HasHead(g) => heads[g].revision # new
  BY <1>1 DEF Inductive, HeadsAreTheirOwn
<1> QED
  BY <1>5, <1>6, <1>7, <1>8

LEMMA CommitKeepsHeads ==
  ASSUME Inductive, NEW p \in ProposalIds, NEW f \in FamilyIds,
         NEW new \in RevisionIds, Committed(p, f, new)
  PROVE  HeadsAreTheirOwn'
<1> SUFFICES ASSUME NEW g \in FamilyIds, HasHead(g)'
             PROVE  /\ Published(heads[g].revision)'
                    /\ (revisions[heads[g].revision].family = g)'
  BY DEF HeadsAreTheirOwn
<1>1. CASE g = f
  BY <1>1, RevisionsAfter, HeadsAfter
<1>2. CASE g # f
  <2>1. /\ HasHead(g) /\ heads'[g] = heads[g] /\ heads[g].revision # new
        /\ Published(heads[g].revision) /\ revisions[heads[g].revision].family = g
    BY <1>2, HeadsAfter DEF Inductive, HeadsAreTheirOwn
  <2>2. heads[g].revision \in RevisionIds \ {new}
    BY <2>1 DEF Published
  <2> QED
    BY <2>1, <2>2, RevisionsAfter
<1> QED
  BY <1>1, <1>2

LEMMA CommitKeepsOrigins ==
  ASSUME Inductive, NEW p \in ProposalIds, NEW f \in FamilyIds,
         NEW new \in RevisionIds, Committed(p, f, new)
  PROVE  RevisionsHaveOrigins'
<1> SUFFICES ASSUME NEW r \in RevisionIds, Published(r)'
             PROVE  /\ revisions'[r].proposal \in ProposalIds
                    /\ revisions'[r].family \in FamilyIds
                    /\ families'[revisions'[r].family].state = "active"
                    /\ \A s \in revisions'[r].parents : Published(s)'
  BY DEF RevisionsHaveOrigins
<1>1. CASE r = new
  <2>1. /\ revisions'[r].proposal = p /\ revisions'[r].family = f
        /\ revisions'[r].parents = proposals[p].base
    BY <1>1, RevisionsAfter
  <2>2. ASSUME NEW s \in proposals[p].base PROVE Published(s)'
    <3>1. HasHead(f) /\ s = heads[f].revision
      BY <2>2 DEF Committed, BuildsOnHead
    <3>2. Published(s)
      BY <3>1 DEF Inductive, HeadsAreTheirOwn
    <3> QED
      BY <3>2, RevisionsAfter DEF Committed, Published
  <2> QED
    BY <2>1, <2>2 DEF Committed
<1>2. CASE r # new
  <2>1. /\ Published(r) /\ revisions'[r].proposal = revisions[r].proposal
        /\ revisions'[r].family = revisions[r].family
        /\ revisions'[r].parents = revisions[r].parents
    BY <1>2, RevisionsAfter
  <2>2. ASSUME NEW s \in revisions[r].parents PROVE Published(s)'
    <3>1. Published(s)
      BY <2>1 DEF Inductive, RevisionsHaveOrigins
    <3> QED
      BY <3>1, RevisionsAfter DEF Committed, Published
  <2> QED
    BY <2>1, <2>2 DEF Inductive, RevisionsHaveOrigins, Committed
<1> QED
  BY <1>1, <1>2

(* The compare-and-set: the revision published is one version ahead of     *)
(* all the others of its family.                                           *)
LEMMA NewVersionIsLast ==
  ASSUME Inductive, NEW p \in ProposalIds, NEW f \in FamilyIds,
         NEW new \in RevisionIds, Committed(p, f, new)
  PROVE  \A r \in RevisionIds : Published(r) /\ revisions[r].family = f =>
           revisions[r].version < NextVersion(proposals[p].base)
<1> SUFFICES ASSUME NEW r \in RevisionIds, Published(r), revisions[r].family = f
             PROVE  revisions[r].version < NextVersion(proposals[p].base)
  OBVIOUS
<1>1. proposals[p].base # {}
  BY DEF Committed, BuildsOnHead
<1>2. NextVersion(proposals[p].base) = revisions[heads[f].revision].version + 1
  BY <1>1, VersionsGrow DEF Committed
<1>3. revisions[r].version <= revisions[heads[f].revision].version /\ HasHead(f)
  BY DEF Inductive, LinearHistory
<1>4. heads[f].revision \in RevisionIds
  BY <1>3, HeadPairType DEF Inductive
<1>5. revisions[r].version \in Nat /\ revisions[heads[f].revision].version \in Nat
  BY <1>4 DEF Inductive, TypeOK, Revisions
<1> QED
  BY <1>2, <1>3, <1>5

LEMMA CommitKeepsLinearHistory ==
  ASSUME Inductive, NEW p \in ProposalIds, NEW f \in FamilyIds,
         NEW new \in RevisionIds, Committed(p, f, new)
  PROVE  LinearHistory'
<1> DEFINE next == NextVersion(proposals[p].base)
<1>1. /\ revisions'[new].family = f /\ revisions'[new].version = next
      /\ revisions'[new].parents = proposals[p].base
  BY RevisionsAfter
<1>2. ASSUME NEW r \in RevisionIds \ {new}
      PROVE  /\ Published(r)' <=> Published(r)
             /\ revisions'[r].family = revisions[r].family
             /\ revisions'[r].version = revisions[r].version
             /\ revisions'[r].parents = revisions[r].parents
  BY RevisionsAfter
<1>3. \A r \in RevisionIds \ {new} : Published(r) /\ revisions[r].family = f =>
        revisions[r].version < next
  BY NewVersionIsLast
<1>4. next \in Nat /\ \A r \in RevisionIds : revisions[r].version \in Nat
  BY VersionsGrow DEF Committed, Inductive, TypeOK, Revisions
<1> HIDE DEF next
<1>5. ASSUME NEW r \in RevisionIds, NEW s \in RevisionIds,
             Published(r)', Published(s)', revisions'[r].family = revisions'[s].family,
             revisions'[r].version = revisions'[s].version
      PROVE  r = s
  <2>1. CASE r = new /\ s # new
    BY <1>1, <1>2, <1>3, <1>4, <1>5, <2>1
  <2>2. CASE r # new /\ s = new
    BY <1>1, <1>2, <1>3, <1>4, <1>5, <2>2
  <2>3. CASE r # new /\ s # new
    BY <1>2, <1>5, <2>3 DEF Inductive, LinearHistory
  <2> QED
    BY <2>1, <2>2, <2>3
<1>6. ASSUME NEW r \in RevisionIds, Published(r)', NEW s \in revisions'[r].parents
      PROVE  /\ revisions'[s].family = revisions'[r].family
             /\ revisions'[s].version + 1 = revisions'[r].version
  <2>1. CASE r = new
    <3>1. HasHead(f) /\ proposals[p].base = {heads[f].revision} /\ s = heads[f].revision
      BY <1>1, <1>6, <2>1 DEF Committed, BuildsOnHead
    <3>2. Published(s) /\ revisions[s].family = f
      BY <3>1 DEF Inductive, HeadsAreTheirOwn
    <3>3. s \in RevisionIds \ {new}
      BY <3>2 DEF Committed, Published
    <3>4. next = revisions[s].version + 1
      BY <3>1, VersionsGrow DEF next, Committed
    <3> QED
      BY <1>1, <1>2, <2>1, <3>2, <3>3, <3>4
  <2>2. CASE r # new
    <3>1. Published(r) /\ s \in revisions[r].parents
      BY <1>2, <1>6, <2>2
    <3>2. Published(s)
      BY <3>1 DEF Inductive, RevisionsHaveOrigins
    <3>3. s \in RevisionIds \ {new}
      BY <3>2 DEF Committed, Published
    <3>4. /\ revisions[s].family = revisions[r].family
          /\ revisions[s].version + 1 = revisions[r].version
      BY <3>1 DEF Inductive, LinearHistory
    <3> QED
      BY <1>2, <2>2, <3>3, <3>4
  <2> QED
    BY <2>1, <2>2
<1>7. ASSUME NEW r \in RevisionIds, Published(r)', revisions'[r].version > 1
      PROVE  Cardinality(revisions'[r].parents) = 1
  <2>1. CASE r = new
    <3>1. proposals[p].base = {heads[f].revision}
      BY <1>1, <1>7, <2>1, VersionsGrow DEF next, Committed
    <3> QED
      BY <1>1, <2>1, <3>1, FS_Singleton
  <2>2. CASE r # new
    BY <1>2, <1>7, <2>2 DEF Inductive, LinearHistory
  <2> QED
    BY <2>1, <2>2
<1>8. ASSUME NEW r \in RevisionIds, Published(r)'
      PROVE  /\ HasHead(revisions[r].family)'
             /\ revisions'[r].version
                  <= revisions'[heads'[revisions'[r].family].revision].version
  <2>1. CASE revisions'[r].family = f
    <3>1. HasHead(f)' /\ heads'[f].revision = new
      BY HeadsAfter
    <3>2. revisions'[r].version <= next
      BY <1>1, <1>2, <1>3, <1>4, <1>8, <2>1
    <3> QED
      BY <1>1, <2>1, <3>1, <3>2
  <2>2. CASE revisions'[r].family # f
    <3> DEFINE g == revisions[r].family
    <3>1. r # new /\ Published(r) /\ revisions'[r].family = g
      BY <1>1, <1>2, <1>8, <2>2
    <3>2. g \in FamilyIds /\ HasHead(g)
      BY <3>1 DEF Inductive, RevisionsHaveOrigins, LinearHistory
    <3>3. heads[g].revision \in RevisionIds \ {new} /\ heads'[g] = heads[g] /\ HasHead(g)'
      BY <2>2, <3>1, <3>2, HeadsAfter, HeadPairType DEF Inductive
    <3>4. revisions[r].version <= revisions[heads[g].revision].version
      BY <3>1 DEF Inductive, LinearHistory
    <3>5. revisions'[heads[g].revision].version = revisions[heads[g].revision].version
      BY <1>2, <3>3
    <3>6. revisions'[r].version = revisions[r].version
      BY <1>2, <3>1
    <3>7. HasHead(revisions[r].family)'
      BY <3>1, <3>3 DEF HasHead
    <3> QED
      BY <3>1, <3>3, <3>4, <3>5, <3>6, <3>7
  <2> QED
    BY <2>1, <2>2
<1> QED
  BY <1>5, <1>6, <1>7, <1>8 DEF LinearHistory

LEMMA CommitKeepsAuthorized ==
  ASSUME Inductive, NEW p \in ProposalIds, NEW f \in FamilyIds,
         NEW new \in RevisionIds, Committed(p, f, new)
  PROVE  Authorized'
<1>1. new \in RevisionOrNone /\ Applicable(p) /\ Consume(p, new)
  BY DEF RevisionOrNone, Committed
<1> SUFFICES ASSUME NEW r \in RevisionIds, Published(r)'
             PROVE  LET x == revisions'[r].proposal
                    IN /\ proposals'[x].status = "applied"
                       /\ proposals'[x].appliedRevision = r
                       /\ approvals'[x].status = "consumed"
                       /\ approvals'[x].by = revisions'[r].actor
                       /\ revisions'[r].actor # proposals'[x].requestedBy
                       /\ revisions'[r].parents
                            \subseteq {pair[2] : pair \in approvals'[x].expected}
                       /\ revisions'[r].from < proposals'[x].expires
  BY DEF Authorized
<1>2. CASE r = new
  <2>1. /\ revisions'[r].proposal = p /\ revisions'[r].actor = approvals[p].by
        /\ revisions'[r].parents = proposals[p].base /\ revisions'[r].from = now
    BY <1>2, RevisionsAfter
  <2>2. /\ proposals'[p].status = "applied" /\ proposals'[p].appliedRevision = new
        /\ proposals'[p].requestedBy = proposals[p].requestedBy
        /\ proposals'[p].expires = proposals[p].expires
        /\ approvals'[p].status = "consumed" /\ approvals'[p].by = approvals[p].by
        /\ approvals'[p].expected = proposals[p].expected
    BY <1>1, ConsumeKeeps
  <2>3. approvals[p].by # proposals[p].requestedBy
    BY <1>1 DEF Inductive, DecisionsAreIndependent, Applicable
  <2>4. now < proposals[p].expires
    BY <1>1 DEF Applicable, Live, Inductive, TypeOK, Proposals
  <2>5. proposals[p].base \subseteq {pair[2] : pair \in proposals[p].expected}
    <3> SUFFICES ASSUME NEW s \in proposals[p].base
                 PROVE  \E pair \in proposals[p].expected : s = pair[2]
      OBVIOUS
    <3>1. s = heads[f].revision /\ <<f, heads[f].revision>> \in proposals[p].expected
      BY DEF Committed, BuildsOnHead
    <3> QED
      BY <3>1
  <2> QED
    BY <1>2, <2>1, <2>2, <2>3, <2>4, <2>5
<1>3. CASE r # new
  <2> DEFINE x == revisions[r].proposal
  <2>1. /\ Published(r) /\ revisions'[r].proposal = x
        /\ revisions'[r].actor = revisions[r].actor
        /\ revisions'[r].parents = revisions[r].parents
        /\ revisions'[r].from = revisions[r].from
    BY <1>3, RevisionsAfter
  <2>2. x \in ProposalIds /\ proposals[x].status = "applied"
    BY <2>1 DEF Inductive, RevisionsHaveOrigins, Authorized
  <2>3. x # p
    BY <1>1, <2>2 DEF Applicable
  <2>4. proposals'[x] = proposals[x] /\ approvals'[x] = approvals[x]
    BY <1>1, <2>2, <2>3, ConsumeKeeps
  <2>5. /\ proposals[x].appliedRevision = r
        /\ approvals[x].status = "consumed"
        /\ approvals[x].by = revisions[r].actor
        /\ revisions[r].actor # proposals[x].requestedBy
        /\ revisions[r].parents \subseteq {pair[2] : pair \in approvals[x].expected}
        /\ revisions[r].from < proposals[x].expires
    BY <2>1 DEF Inductive, Authorized
  <2> QED
    BY <2>1, <2>2, <2>4, <2>5
<1> QED
  BY <1>2, <1>3

(* What the commit adds to relations, transitions and the outbox.          *)
LEMMA CommitTypes ==
  ASSUME Inductive, NEW p \in ProposalIds, NEW f \in FamilyIds,
         NEW new \in RevisionIds, Committed(p, f, new),
         NEW rows, rows \subseteq AliasRows
  PROVE  /\ NewTransition(p, new) \in Transitions
         /\ LearnedFrom(p, f, new, rows) \subseteq Relations
         /\ Refinement(p, f, new) \subseteq Relations
         /\ Deprecation(p, f) \subseteq Relations
         /\ PublicationEvents(p, f, new) \subseteq Events
<1>1. /\ proposals[p] \in Proposals /\ now \in Nat /\ sequence + 1 \in Nat
      /\ heads \in [FamilyIds -> Heads]
  BY DEF Inductive, TypeOK
<1>2. WellFormed(proposals[p]) /\ HeadsMatch(p)
  BY DEF Inductive, PreviewsAreWellFormed, Committed, Applicable
<1>3. proposals[p].base \in SUBSET RevisionIds /\ proposals[p].content \in ContentType
  BY <1>1 DEF Proposals, RevisionSets
<1>4. \A o : TargetState(o) \in RevisionStates
  BY DEF TargetState, RevisionStates
<1>5. NewTransition(p, new) \in Transitions
  BY <1>1, <1>3, <1>4 DEF NewTransition, Transitions
<1>6. LearnedFrom(p, f, new, rows) \subseteq Relations
  <2> SUFFICES ASSUME NEW t \in ResolvedFamilies(rows, proposals[p].content.related) \ {f},
                      HasHead(t)
               PROVE  Assertion(p, f, t, new, heads[t].revision, "LEARNED_FROM") \in Relations
    BY DEF LearnedFrom
  <2>1. t \in FamilyIds
    BY DEF ResolvedFamilies, AliasRows
  <2>2. heads[t].revision \in RevisionIds
    BY <2>1, HeadPairType DEF Inductive
  <2> QED
    BY <2>1, <2>2 DEF Assertion, Relations
<1>7. Refinement(p, f, new) \subseteq Relations
  <2> DEFINE t == proposals[p].relationTarget
  <2> SUFFICES ASSUME proposals[p].operation = "create_and_link"
               PROVE  Assertion(p, f, t, new, heads[t].revision, "REFINES") \in Relations
    BY DEF Refinement
  <2>1. t \in FamilyIds /\ heads[t].revision \in RevisionIds
    BY <1>2, FrozenHead DEF WellFormed
  <2> QED
    BY <2>1 DEF Assertion, Relations
<1>8. Deprecation(p, f) \subseteq Relations
  <2> DEFINE t == proposals[p].replacement
  <2> SUFFICES ASSUME t # None, NEW r \in proposals[p].base
               PROVE  Assertion(p, t, f, heads[t].revision, r, "DEPRECATES") \in Relations
    BY DEF Deprecation
  <2>1. t \in FamilyIds /\ heads[t].revision \in RevisionIds
    BY <1>2, FrozenHead DEF WellFormed
  <2>2. r \in RevisionIds
    BY <1>3
  <2> QED
    BY <2>1, <2>2 DEF Assertion, Relations
<1>9. PublicationEvents(p, f, new) \subseteq Events
  <2>1. ASSUME NEW kind \in {"head", "expiry", "relation"}, NEW r \in RevisionIds \cup {None},
               NEW o \in OperationNames \cup {"merge_source_retired", "validity_expired"},
               NEW s \in RevisionStates \cup {""}, NEW n \in Nat
        PROVE  Event(kind, f, r, o, s, n) \in Events
    BY <1>1 DEF Event, Events
  <2>2. /\ proposals[p].content.from \in Nat /\ proposals[p].content.to \in Nat
        /\ Max({now, proposals[p].content.from}) \in Nat
    BY <1>1, <1>3, MaxOfTwo DEF ContentType
  <2>3. proposals[p].operation \in OperationNames
    BY <1>1, <1>2 DEF Proposals, OperationOrNone, WellFormed, Committed, Applicable
  <2> DEFINE q == proposals[p]
             o == q.operation
  <2>4. Event("head", f, new, o, TargetState(o), Max({now, q.content.from})) \in Events
    BY <1>4, <2>1, <2>2, <2>3
  <2>5. Event("expiry", f, new, "validity_expired", "", q.content.to) \in Events
    BY <2>1, <2>2
  <2>6. Event("relation", f, None, o, "", now) \in Events
    BY <1>1, <2>1, <2>3
  <2> QED
    BY <2>4, <2>5, <2>6 DEF PublicationEvents
<1> QED
  BY <1>5, <1>6, <1>7, <1>8, <1>9

(* A creation takes an identifier for its family, and a revision writes    *)
(* the one its family has again.                                           *)
NamesFamily(p, f, a) ==
  /\ families'[f].legacy = a
  /\ \A g \in FamilyIds \ {f} : families'[g] = families[g]
  /\ proposals[p].operation \in Revising => families' = families
  /\ proposals[p].operation \in Creations => proposals[p].legacy \in {NoAlias, a}

(* All that the apply of a creation or of a revision does.                 *)
PublicationStep(p, f, a, new) ==
  /\ Committed(p, f, new)
  /\ NamesFamily(p, f, a)
  /\ proposals[p].operation \in Creations \cup Revising
  /\ proposals[p].operation \in Revising => f = proposals[p].target
  /\ proposals[p].operation \in Creations => families[f].state = "none"
  /\ families' \in [FamilyIds -> Families]
  /\ now' = now + 1
  /\ sequence' = sequence + 1
  /\ aliases' = aliases \cup {AliasRow(a, f)}
  /\ transitions' = Append(transitions, NewTransition(p, new))
  /\ relations' = relations \cup LearnedFrom(p, f, new, aliases \cup {AliasRow(a, f)})
                           \cup Refinement(p, f, new) \cup Deprecation(p, f)
  /\ outbox' = outbox \cup PublicationEvents(p, f, new)

LEMMA PublishSteps ==
  ASSUME Inductive, NEW p \in ProposalIds, NEW f \in FamilyIds,
         NEW a \in AliasNames, Applicable(p), BuildsOnHead(p, f),
         Publish(p, f, a), NamesFamily(p, f, a), families' \in [FamilyIds -> Families],
         families'[f].state = "active",
         \A g \in FamilyIds : families[g].state = "active" => families'[g].state = "active",
         proposals[p].operation \in Creations \cup Revising,
         proposals[p].operation \in Revising => f = proposals[p].target,
         proposals[p].operation \in Creations => families[f].state = "none"
  PROVE  \E new \in RevisionIds : PublicationStep(p, f, a, new)
<1> DEFINE rows == aliases \cup {AliasRow(a, f)}
<1>1. PICK new \in RevisionIds : new = Min(FreeRevisions) /\ ~Published(new)
  BY NewIsFree DEF Publish, Commit
<1>2. /\ PublishRevision(p, f, new)
      /\ heads' = [g \in FamilyIds |->
           IF g = f THEN [revision |-> new, sequence |-> sequence + 1] ELSE heads[g]]
      /\ sequence' = sequence + 1
      /\ aliases' = rows
      /\ transitions' = Append(transitions, NewTransition(p, new))
      /\ relations' = relations \cup LearnedFrom(p, f, new, rows)
                               \cup Refinement(p, f, new) \cup Deprecation(p, f)
      /\ outbox' = outbox \cup PublicationEvents(p, f, new)
      /\ Consume(p, new)
  BY <1>1 DEF Publish, Commit
<1>3. heads' = [heads EXCEPT ![f] = [revision |-> new, sequence |-> sequence + 1]]
  BY <1>2 DEF Inductive, TypeOK
<1>4. Committed(p, f, new)
  BY <1>1, <1>2, <1>3 DEF Committed
<1>5. now' = now + 1
  BY <1>2 DEF Consume
<1> QED
  BY <1>2, <1>4, <1>5 DEF PublicationStep

LEMMA PublishInductive ==
  ASSUME Inductive, NEW p \in ProposalIds, NEW f \in FamilyIds,
         NEW a \in AliasNames, NEW new \in RevisionIds, PublicationStep(p, f, a, new)
  PROVE  Inductive'
<1> DEFINE rows == aliases \cup {AliasRow(a, f)}
<1>1. Committed(p, f, new) /\ Applicable(p) /\ Consume(p, new)
  BY DEF PublicationStep, Committed
<1>2. /\ families' \in [FamilyIds -> Families]
      /\ sequence' = sequence + 1
      /\ aliases' = rows
      /\ transitions' = Append(transitions, NewTransition(p, new))
      /\ relations' = relations \cup LearnedFrom(p, f, new, rows)
                               \cup Refinement(p, f, new) \cup Deprecation(p, f)
      /\ outbox' = outbox \cup PublicationEvents(p, f, new)
  BY DEF PublicationStep
<1>3. rows \subseteq AliasRows
  BY DEF Inductive, TypeOK, AliasRow, AliasRows
<1> HIDE DEF rows
<1>4. new \in RevisionOrNone
  BY DEF RevisionOrNone
<1>5. TypeOK'
  <2>1. /\ proposals' \in [ProposalIds -> Proposals]
        /\ approvals' \in [ProposalIds -> Approvals] /\ now' \in Nat
    BY <1>1, <1>4, ConsumeKeeps
  <2>2. revisions' \in [RevisionIds -> Revisions] /\ heads' \in [FamilyIds -> Heads]
    BY <1>1, RevisionsAfter, HeadsAfter
  <2>3. /\ NewTransition(p, new) \in Transitions
        /\ LearnedFrom(p, f, new, rows) \subseteq Relations
        /\ Refinement(p, f, new) \subseteq Relations
        /\ Deprecation(p, f) \subseteq Relations
        /\ PublicationEvents(p, f, new) \subseteq Events
    BY <1>1, <1>3, CommitTypes
  <2> QED
    BY <1>2, <1>3, <2>1, <2>2, <2>3 DEF Inductive, TypeOK
<1>6. PreviewsAreWellFormed' /\ DecisionsAreIndependent'
  BY <1>1, <1>4, ConsumeKeeps
<1> QED
  BY <1>1, <1>5, <1>6, CommitKeepsHeads, CommitKeepsOrigins, CommitKeepsLinearHistory,
     CommitKeepsAuthorized DEF Inductive

LEMMA ApplyCreatePublishes ==
  ASSUME Inductive, NEW p \in ProposalIds, ApplyCreate(p)
  PROVE  \E f \in FamilyIds, a \in AliasNames, new \in RevisionIds :
           PublicationStep(p, f, a, new)
<1>1. PICK f \in FamilyIds : f = Min(FreeFamilies) /\ families[f].state = "none"
  <2>1. Min(FreeFamilies) \in FreeFamilies
    BY MinIsMember DEF ApplyCreate, FreeFamilies, FamilyIds
  <2> QED
    BY <2>1 DEF FreeFamilies
<1>2. PICK a \in AliasNames :
        a = IF proposals[p].legacy = NoAlias THEN f ELSE proposals[p].legacy
  BY DEF Inductive, TypeOK, Proposals, LegacyOrNone, AliasNames
<1> DEFINE family == [state |-> "active", legacy |-> a, mergedInto |-> None]
<1>3. /\ Applicable(p) /\ proposals[p].operation \in Creations
      /\ families' = [families EXCEPT ![f] = family]
      /\ Publish(p, f, a)
  BY <1>1, <1>2 DEF ApplyCreate
<1>4. BuildsOnHead(p, f)
  <2>1. proposals[p].base = {}
    BY <1>3 DEF Inductive, PreviewsAreWellFormed, WellFormed, Creations, Revising,
       StateChanges
  <2>2. \A r \in RevisionIds : Published(r) => revisions[r].family # f
    BY <1>1 DEF Inductive, RevisionsHaveOrigins
  <2> QED
    BY <2>1, <2>2 DEF BuildsOnHead
<1>5. family \in Families
  BY DEF Families, None
<1>6. families \in [FamilyIds -> Families]
  BY DEF Inductive, TypeOK
<1>7. /\ families' \in [FamilyIds -> Families] /\ families'[f].state = "active"
      /\ \A g \in FamilyIds : families[g].state = "active" => families'[g].state = "active"
  BY <1>3, <1>5, <1>6
<1>8. proposals[p].operation \notin Revising
  BY <1>3 DEF Creations, Revising, StateChanges
<1>9. NamesFamily(p, f, a)
  BY <1>2, <1>3, <1>6, <1>8 DEF NamesFamily
<1> QED
  BY <1>1, <1>3, <1>4, <1>7, <1>8, <1>9, PublishSteps

LEMMA ApplyRevisePublishes ==
  ASSUME Inductive, NEW p \in ProposalIds, ApplyRevise(p)
  PROVE  \E f \in FamilyIds, a \in AliasNames, new \in RevisionIds :
           PublicationStep(p, f, a, new)
<1> DEFINE f == proposals[p].target
<1>1. /\ Applicable(p) /\ proposals[p].operation \in Revising
      /\ families[f].state = "active" /\ Publish(p, f, families[f].legacy)
      /\ UNCHANGED families
  BY DEF ApplyRevise
<1>2. PICK r \in RevisionIds :
        proposals[p].base = {r} /\ <<f, r>> \in proposals[p].expected
  BY <1>1 DEF Inductive, PreviewsAreWellFormed, WellFormed
<1>3. f \in FamilyIds
  BY <1>1 DEF Inductive, PreviewsAreWellFormed, WellFormed
<1>4. heads[f].revision = r /\ r # None
  BY <1>1, <1>2 DEF Applicable, HeadsMatch, RevisionIds, None
<1>5. BuildsOnHead(p, f)
  BY <1>2, <1>4 DEF BuildsOnHead, HasHead
<1>6. families \in [FamilyIds -> Families]
  BY DEF Inductive, TypeOK
<1>7. families[f].legacy \in AliasNames
  BY <1>1, <1>3, <1>6 DEF Families, NoFamily
<1>8. proposals[p].operation \notin Creations
  BY <1>1 DEF Creations, Revising, StateChanges
<1>9. PICK g \in FamilyIds, a \in AliasNames : g = f /\ a = families[f].legacy
  BY <1>3, <1>7
<1>10. g = proposals[p].target
  BY <1>9
<1>11. NamesFamily(p, g, a)
  BY <1>1, <1>8, <1>9 DEF NamesFamily
<1> HIDE DEF f
<1> QED
  BY <1>1, <1>5, <1>6, <1>8, <1>9, <1>10, <1>11, PublishSteps

LEMMA ApplyInductive == Inductive /\ Apply => Inductive'
BY ApplyCreatePublishes, ApplyRevisePublishes, PublishInductive, ApplyLinkInductive
   DEF Apply
-----------------------------------------------------------------------------
LEMMA StutterInductive == Inductive /\ UNCHANGED ledgerVars => Inductive'
<1> SUFFICES ASSUME Inductive, UNCHANGED ledgerVars PROVE Inductive'
  OBVIOUS
<1> USE DEF ledgerVars
<1>1. TypeOK'
  BY DEF Inductive, TypeOK
<1>2. PreviewsAreWellFormed' /\ DecisionsAreIndependent'
  BY DEF Inductive, PreviewsAreWellFormed, DecisionsAreIndependent
<1> QED
  BY <1>1, <1>2, PublicationUntouched DEF Publication

LEMMA NextInductive == Inductive /\ [Next]_ledgerVars => Inductive'
BY TickInductive, ProposeInductive, DecideInductive, ApplyInductive, StutterInductive
   DEF Next

LEMMA InvariantInductive == Spec => []Inductive
<1>1. Init => Inductive
  BY InitInductive
<1>2. Inductive /\ [Next]_ledgerVars => Inductive'
  BY NextInductive
<1> QED
  BY <1>1, <1>2, PTL DEF Spec

(* The ledger's state is well typed: every identifier that a proposal, a   *)
(* relation, a transition or an event carries is one of its kind.          *)
THEOREM TypeCorrect == Spec => []TypeOK
<1>1. Inductive => TypeOK
  BY DEF Inductive
<1> QED
  BY <1>1, InvariantInductive, PTL

(* No update is lost, however proposals, approvals and applies interleave  *)
(* (apply_approved compares the heads frozen in the preview): the          *)
(* revisions of a family are one chain that ends in its head.              *)
THEOREM HistoryIsLinear == Spec => []LinearHistory
<1>1. Inductive => LinearHistory
  BY DEF Inductive
<1> QED
  BY <1>1, InvariantInductive, PTL

(* Nothing is published without the decision, still in force, of an        *)
(* operator who did not ask for it and saw what it succeeds.               *)
THEOREM PublicationIsAuthorized == Spec => []Authorized
<1>1. Inductive => Authorized
  BY DEF Inductive
<1> QED
  BY <1>1, InvariantInductive, PTL
-----------------------------------------------------------------------------
(* What a step can be, seen from what is published: a step of the approval *)
(* workflow, a publication or a link.                                      *)

WorkflowStep ==
  /\ UNCHANGED canonical
  /\ now' \in {now, now + 1}
  /\ \A p \in ProposalIds : proposals[p].status = "applied" =>
       proposals'[p] = proposals[p] /\ approvals'[p] = approvals[p]

LEMMA StepCases ==
  ASSUME Inductive, [Next]_ledgerVars
  PROVE  \/ WorkflowStep
         \/ \E p \in ProposalIds, f \in FamilyIds, a \in AliasNames, new \in RevisionIds :
              PublicationStep(p, f, a, new)
         \/ \E p \in ProposalIds : ApplyLink(p)
<1>1. proposals \in [ProposalIds -> Proposals] /\ approvals \in [ProposalIds -> Approvals]
  BY DEF Inductive, TypeOK
<1>2. CASE UNCHANGED ledgerVars
  BY <1>2 DEF ledgerVars, WorkflowStep, canonical
<1>3. CASE Tick
  BY <1>3 DEF Tick, WorkflowStep, canonical
<1>4. CASE Propose
  <2>1. PICK q \in Proposals : Save(q)
    BY <1>4, ProposeDrafts
  <2>2. Min(FreeProposals) \in FreeProposals
    BY <2>1, MinIsMember DEF Save, FreeProposals, ProposalIds
  <2> QED
    BY <1>1, <2>1, <2>2 DEF Save, FreeProposals, WorkflowStep
<1>5. CASE Decide
  BY <1>1, <1>5 DEF Decide, Approve, Reject, Expire, Stale, WorkflowStep
<1>6. CASE Apply
  BY <1>6, ApplyCreatePublishes, ApplyRevisePublishes DEF Apply
<1> QED
  BY <1>2, <1>3, <1>4, <1>5, <1>6 DEF Next

(* The terms of a proposal are those of its draft, whatever becomes of it. *)
Terms(q) == <<q.operation, q.target, q.content, q.base, q.expected, q.legacy, q.key>>

LEMMA TermsChange ==
  ASSUME Inductive, [Next]_ledgerVars
  PROVE  \/ \E q \in Proposals : Drafted(q) /\ Save(q)
         \/ \A p \in ProposalIds : Terms(proposals'[p]) = Terms(proposals[p])
<1> SUFFICES ASSUME NEW p \in ProposalIds
             PROVE  \/ \E q \in Proposals : Drafted(q) /\ Save(q)
                    \/ Terms(proposals'[p]) = Terms(proposals[p])
  OBVIOUS
<1>1. proposals \in [ProposalIds -> Proposals]
  BY DEF Inductive, TypeOK
<1>2. CASE proposals' = proposals
  BY <1>2
<1>3. ASSUME NEW x \in ProposalIds, NEW status, NEW r,
             proposals' = [proposals EXCEPT ![x] =
               [proposals[x] EXCEPT !.status = status, !.appliedRevision = r]]
      PROVE  Terms(proposals'[p]) = Terms(proposals[p])
  BY <1>1, <1>3 DEF Terms, Proposals
<1>4. ASSUME NEW x \in ProposalIds, NEW status,
             proposals' = [proposals EXCEPT ![x].status = status]
      PROVE  Terms(proposals'[p]) = Terms(proposals[p])
  BY <1>1, <1>4 DEF Terms, Proposals
<1>5. ASSUME NEW x \in ProposalIds, NEW r, Consume(x, r)
      PROVE  Terms(proposals'[p]) = Terms(proposals[p])
  <2>1. proposals' = [proposals EXCEPT ![x] =
          [proposals[x] EXCEPT !.status = "applied", !.appliedRevision = r]]
    BY <1>1, <1>5 DEF Consume
  <2> QED
    BY <1>3, <2>1
<1>6. CASE Tick \/ UNCHANGED ledgerVars
  BY <1>2, <1>6 DEF Tick, ledgerVars
<1>7. CASE Propose
  BY <1>7, ProposeDrafts
<1>8. CASE Decide
  BY <1>4, <1>8 DEF Decide, Approve, Reject, Expire, Stale
<1>9. CASE Apply
  <2>1. PICK x \in ProposalIds : ApplyCreate(x) \/ ApplyRevise(x) \/ ApplyLink(x)
    BY <1>9 DEF Apply
  <2>2. \E r : Consume(x, r)
    <3>1. CASE ApplyLink(x)
      BY <3>1 DEF ApplyLink
    <3>2. ASSUME NEW f, NEW a, Publish(x, f, a) PROVE \E r : Consume(x, r)
      BY <3>2 DEF Publish, Commit
    <3>3. CASE ApplyCreate(x)
      BY <3>2, <3>3 DEF ApplyCreate
    <3>4. CASE ApplyRevise(x)
      BY <3>2, <3>4 DEF ApplyRevise
    <3> QED
      BY <2>1, <3>1, <3>3, <3>4
  <2> QED
    BY <1>5, <2>2
<1> QED
  BY <1>6, <1>7, <1>8, <1>9 DEF Next

LEMMA TermsKept ==
  ASSUME Inductive, [Next]_ledgerVars, NEW p \in ProposalIds
  PROVE  \/ Terms(proposals'[p]) = Terms(proposals[p])
         \/ proposals[p].status = "none" /\ Drafted(proposals'[p])
<1>1. proposals \in [ProposalIds -> Proposals]
  BY DEF Inductive, TypeOK
<1>2. ASSUME NEW q \in Proposals, Drafted(q), Save(q)
      PROVE  \/ Terms(proposals'[p]) = Terms(proposals[p])
             \/ proposals[p].status = "none" /\ Drafted(proposals'[p])
  <2>1. Min(FreeProposals) \in FreeProposals
    BY <1>2, MinIsMember DEF Save, FreeProposals, ProposalIds
  <2> QED
    BY <1>1, <1>2, <2>1 DEF Save, FreeProposals
<1> QED
  BY <1>2, TermsChange
-----------------------------------------------------------------------------
(* Revisions are closed once, and not before they end.                     *)

ClosedInThePast == \A r \in RevisionIds : revisions[r].to <= now

(* A step begins a revision, ends the recorded window of one, or leaves it. *)
RevisionStep(r) ==
  \/ revisions'[r] = revisions[r]
  \/ ~Published(r) /\ revisions'[r].to = None
  \/ /\ revisions[r].to = None \/ revisions[r].to > now
     /\ revisions'[r] = [revisions[r] EXCEPT !.to = now]

LEMMA NextRevisionStep ==
  ASSUME Inductive, [Next]_ledgerVars
  PROVE  now' \in Nat /\ now <= now' /\ \A r \in RevisionIds : RevisionStep(r)
<1>1. now \in Nat
  BY DEF Inductive, TypeOK
<1>2. CASE WorkflowStep \/ \E p \in ProposalIds : ApplyLink(p)
  <2>1. UNCHANGED revisions /\ now' \in {now, now + 1}
    BY <1>2 DEF WorkflowStep, ApplyLink, Consume, canonical
  <2> QED
    BY <1>1, <2>1 DEF RevisionStep
<1>3. CASE \E p \in ProposalIds, f \in FamilyIds, a \in AliasNames, new \in RevisionIds :
             PublicationStep(p, f, a, new)
  <2>1. PICK p \in ProposalIds, f \in FamilyIds, a \in AliasNames, new \in RevisionIds :
          PublicationStep(p, f, a, new)
    BY <1>3
  <2>2. now' = now + 1 /\ PublishRevision(p, f, new) /\ ~Published(new)
    BY <2>1 DEF PublicationStep, Committed
  <2>3. revisions' = [r \in RevisionIds |->
           IF r = new THEN NewRevision(p, f)
           ELSE IF Closes(p, r) THEN [revisions[r] EXCEPT !.to = now]
           ELSE revisions[r]]
    BY <2>2 DEF PublishRevision
  <2>4. ASSUME NEW r \in RevisionIds PROVE RevisionStep(r)
    <3>1. CASE r = new
      <4>1. NewRevision(p, f).to = None
        BY DEF NewRevision
      <4> QED
        BY <2>2, <2>3, <3>1, <4>1 DEF RevisionStep
    <3>2. CASE r # new /\ Closes(p, r)
      BY <2>3, <3>2 DEF RevisionStep, Closes
    <3>3. CASE r # new /\ ~Closes(p, r)
      BY <2>3, <3>3 DEF RevisionStep
    <3> QED
      BY <3>1, <3>2, <3>3
  <2> QED
    BY <1>1, <2>2, <2>4
<1> QED
  BY <1>2, <1>3, StepCases

LEMMA ClosingInductive ==
  Inductive /\ ClosedInThePast /\ [Next]_ledgerVars => ClosedInThePast'
<1> SUFFICES ASSUME Inductive, ClosedInThePast, [Next]_ledgerVars,
                    NEW r \in RevisionIds
             PROVE  revisions'[r].to <= now'
  BY DEF ClosedInThePast
<1>1. /\ revisions[r] \in Revisions /\ now \in Nat
      /\ revisions[r].to \in Nat /\ revisions[r].to <= now
  BY DEF Inductive, TypeOK, Revisions, ClosedInThePast
<1>2. now' \in Nat /\ now <= now' /\ RevisionStep(r)
  BY NextRevisionStep
<1>3. CASE revisions'[r] = [revisions[r] EXCEPT !.to = now]
  BY <1>1, <1>2, <1>3 DEF Revisions
<1>4. CASE revisions'[r] = revisions[r] \/ revisions'[r].to = None
  BY <1>1, <1>2, <1>4 DEF None
<1> QED
  BY <1>2, <1>3, <1>4 DEF RevisionStep

(* A revision, once published, is never rewritten: publishing its          *)
(* successor sets its recorded_to if it had none, and nothing else about   *)
(* it ever changes.                                                        *)
THEOREM PublishedIsImmutable == Spec => RevisionsAreImmutable
<1>1. Init => ClosedInThePast
  <2>1. NoRevision.to = 0
    BY DEF NoRevision, None
  <2> QED
    BY <2>1 DEF Init, ClosedInThePast
<1>2. Inductive /\ ClosedInThePast /\ [Next]_ledgerVars => ClosedInThePast'
  BY ClosingInductive
<1>3. Inductive /\ ClosedInThePast /\ [Next]_ledgerVars =>
        [\A r \in RevisionIds : Published(r) =>
           \/ revisions'[r] = revisions[r]
           \/ /\ revisions[r].to = None
              /\ revisions'[r] = [revisions[r] EXCEPT !.to = now]]_ledgerVars
  <2> SUFFICES ASSUME Inductive, ClosedInThePast, [Next]_ledgerVars,
                      NEW r \in RevisionIds, Published(r)
               PROVE  \/ revisions'[r] = revisions[r]
                      \/ /\ revisions[r].to = None
                         /\ revisions'[r] = [revisions[r] EXCEPT !.to = now]
    OBVIOUS
  <2>1. RevisionStep(r)
    BY NextRevisionStep
  <2>2. revisions[r].to \in Nat /\ now \in Nat /\ revisions[r].to <= now
    BY DEF Inductive, TypeOK, Revisions, ClosedInThePast
  <2> QED
    BY <2>1, <2>2 DEF RevisionStep
<1> QED
  BY <1>1, <1>2, <1>3, InvariantInductive, PTL DEF Spec, RevisionsAreImmutable
=============================================================================

------------------------ MODULE LedgerReadingsProofs ------------------------
(***************************************************************************)
(* Proofs about what module Ledger records and how it is read, for every   *)
(* value of its constants.                                                 *)
(*                                                                         *)
(* Beside the revisions: the relations say what was approved               *)
(* (RelationsAsApproved), a link is asserted once (LinksAreUnique) and the *)
(* outbox tells the history (OutboxFollowsLineage), by the invariant       *)
(* Records.                                                                *)
(*                                                                         *)
(* The readings: the past is not rewritten (HistoryIsStable),              *)
(* list_active_revisions and get_view agree on the present                 *)
(* (EffectiveFollowsHead), and a scheduled revision changes nothing before *)
(* it starts (ScheduledKeepsPredecessor), by what a publication leaves on  *)
(* the time line: Timeline.                                                *)
(***************************************************************************)
EXTENDS LedgerProofs
-----------------------------------------------------------------------------
(* WHAT IS RECORDED.                                                       *)

(* A relation comes from a proposal that has been applied, so that nothing *)
(* about that proposal or its approval will change.                        *)
RelationsHaveDecisions ==
  \A x \in relations : proposals[x.proposal].status = "applied"

(* One relation as RelationsAsApproved asks.                               *)
AsApproved(x) ==
  LET ends == {<<x.source, x.sourceRevision>>, <<x.target, x.targetRevision>>}
  IN  /\ x.source # x.target
      /\ \A e \in ends : Published(e[2]) /\ revisions[e[2]].family = e[1]
      /\ x.type # "LEARNED_FROM" =>
           \A e \in ends : \/ revisions[e[2]].proposal = x.proposal
                          \/ e \in approvals[x.proposal].expected

HeadEvents == {e \in outbox : e.kind = "head"}

(* The events are numbered up to the sequence of the ledger, and the head  *)
(* events announce the published revisions one by one.                     *)
EventsAreNumbered ==
  /\ \A e \in outbox : e.sequence <= sequence
  /\ \A e \in HeadEvents : Published(e.revision) /\ revisions[e.revision].family = e.family
  /\ \A r \in RevisionIds : Published(r) =>
       \E e \in HeadEvents : {x \in HeadEvents : x.revision = r} = {e}
  /\ \A d, e \in HeadEvents : d.family = e.family =>
       ( d.sequence < e.sequence <=>
           revisions[d.revision].version < revisions[e.revision].version )
  /\ \A e \in HeadEvents :
       heads[e.family].revision = e.revision => heads[e.family].sequence = e.sequence
  /\ \A d \in outbox, e \in HeadEvents : d.sequence = e.sequence => d.family = e.family

Records ==
  /\ Inductive
  /\ RelationsHaveDecisions
  /\ RelationsAsApproved
  /\ LinksAreUnique
  /\ EventsAreNumbered
-----------------------------------------------------------------------------
(* What every step keeps.                                                  *)

(* A published revision keeps all but its recorded window.                 *)
LEMMA PublishedKept ==
  ASSUME Inductive, [Next]_ledgerVars, NEW r, Published(r)
  PROVE  /\ Published(r)'
         /\ revisions'[r].family = revisions[r].family
         /\ revisions'[r].version = revisions[r].version
         /\ revisions'[r].proposal = revisions[r].proposal
<1>1. r \in RevisionIds /\ revisions[r] \in Revisions
  BY DEF Published, Inductive, TypeOK
<1>2. \/ revisions'[r] = revisions[r]
      \/ revisions'[r] = [revisions[r] EXCEPT !.to = now]
  BY <1>1, NextRevisionStep DEF RevisionStep
<1> QED
  BY <1>1, <1>2 DEF Revisions, Published

(* A proposal that has been applied keeps its terms.                       *)
LEMMA AppliedKept ==
  ASSUME Inductive, [Next]_ledgerVars, NEW p \in ProposalIds,
         proposals[p].status = "applied"
  PROVE  proposals'[p] = proposals[p] /\ approvals'[p] = approvals[p]
<1>1. CASE WorkflowStep
  BY <1>1 DEF WorkflowStep
<1>2. ASSUME NEW x \in ProposalIds, NEW r \in RevisionOrNone, Applicable(x), Consume(x, r)
      PROVE  proposals'[p] = proposals[p] /\ approvals'[p] = approvals[p]
  BY <1>2, ConsumeKeeps DEF Applicable
<1>3. CASE \E x \in ProposalIds, f \in FamilyIds, a \in AliasNames, new \in RevisionIds :
             PublicationStep(x, f, a, new)
  BY <1>2, <1>3 DEF PublicationStep, Committed, RevisionOrNone
<1>4. CASE \E x \in ProposalIds : ApplyLink(x)
  BY <1>2, <1>4 DEF ApplyLink, RevisionOrNone
<1> QED
  BY <1>1, <1>3, <1>4, StepCases

LEMMA AsApprovedKept ==
  ASSUME Inductive, [Next]_ledgerVars, NEW x \in Relations,
         proposals[x.proposal].status = "applied", AsApproved(x)
  PROVE  AsApproved(x)'
<1>1. x.proposal \in ProposalIds
  BY DEF Relations
<1>2. approvals'[x.proposal] = approvals[x.proposal]
  BY <1>1, AppliedKept
<1>3. \A r \in {x.sourceRevision, x.targetRevision} :
        /\ Published(r)'
        /\ revisions'[r].family = revisions[r].family
        /\ revisions'[r].proposal = revisions[r].proposal
  BY PublishedKept DEF AsApproved
<1> QED
  BY <1>2, <1>3 DEF AsApproved

LEMMA RelationsRead == RelationsAsApproved <=> \A x \in relations : AsApproved(x)
BY DEF RelationsAsApproved, AsApproved
-----------------------------------------------------------------------------
(* Relations.                                                              *)

(* The revision that a commit publishes, and the head it was built on, are *)
(* ends that the approval covers.                                          *)
LEMMA CoveredEnds ==
  ASSUME Inductive, [Next]_ledgerVars, NEW p \in ProposalIds, NEW f \in FamilyIds,
         NEW a \in AliasNames, NEW new \in RevisionIds, PublicationStep(p, f, a, new)
  PROVE  /\ Published(new)' /\ revisions'[new].family = f /\ revisions'[new].proposal = p
         /\ \A g \in FamilyIds : HasHead(g) =>
              /\ heads[g].revision \in RevisionIds
              /\ revisions'[heads[g].revision].version # 0
              /\ revisions'[heads[g].revision].family = g
         /\ \A e \in proposals[p].expected :
              e[2] = heads[e[1]].revision /\ e \in approvals'[p].expected
         /\ proposals'[p].status = "applied"
<1>1. Committed(p, f, new) /\ Applicable(p) /\ Consume(p, new) /\ new \in RevisionOrNone
  BY DEF PublicationStep, Committed, RevisionOrNone
<1>2. Published(new)' /\ revisions'[new].family = f /\ revisions'[new].proposal = p
  BY <1>1, RevisionsAfter
<1>3. ASSUME NEW g \in FamilyIds, HasHead(g)
      PROVE  /\ heads[g].revision \in RevisionIds
             /\ revisions'[heads[g].revision].version # 0
             /\ revisions'[heads[g].revision].family = g
  <2>1. PICK h : h = heads[g].revision
    OBVIOUS
  <2>2. Published(h) /\ revisions[h].family = g
    BY <1>3, <2>1 DEF Inductive, HeadsAreTheirOwn
  <2>3. Published(h)' /\ revisions'[h].family = g
    BY <2>2, PublishedKept
  <2>4. h \in RevisionIds /\ revisions'[h].version # 0
    BY <2>3 DEF Published
  <2> QED
    BY <2>1, <2>3, <2>4
<1>4. approvals'[p].expected = proposals[p].expected /\ proposals'[p].status = "applied"
  BY <1>1, ConsumeKeeps
<1>5. \A e \in proposals[p].expected : e[2] = heads[e[1]].revision
  BY <1>1 DEF Applicable, HeadsMatch
<1> QED
  BY <1>2, <1>3, <1>4, <1>5

(* What an approved preview named is a head that it froze.                 *)
LEMMA FrozenEnd ==
  ASSUME Inductive, NEW p \in ProposalIds, HeadsMatch(p), NEW t, Frozen(proposals[p], t)
  PROVE  t \in FamilyIds /\ HasHead(t) /\ <<t, heads[t].revision>> \in proposals[p].expected
<1>1. PICK r \in RevisionIds : <<t, r>> \in proposals[p].expected
  BY DEF Frozen
<1>2. heads[t].revision = r
  BY <1>1 DEF HeadsMatch
<1> QED
  BY <1>1, <1>2, FrozenHead

(* A relation between two families, each end of which the commit publishes *)
(* or the approval covers.                                                 *)
LEMMA EndsAsApproved ==
  ASSUME NEW x, NEW p, NEW g, NEW h, NEW q, NEW r,
         x.proposal = p, x.source = g, x.sourceRevision = q,
         x.target = h, x.targetRevision = r, g # h,
         Published(q)', revisions'[q].family = g, Published(r)', revisions'[r].family = h,
         revisions'[q].proposal = p \/ <<g, q>> \in approvals'[p].expected,
         revisions'[r].proposal = p \/ <<h, r>> \in approvals'[p].expected
  PROVE  x.proposal = p /\ AsApproved(x)'
<1> DEFINE ends == {<<x.source, x.sourceRevision>>, <<x.target, x.targetRevision>>}
<1>1. \A e \in ends : e = <<g, q>> \/ e = <<h, r>>
  OBVIOUS
<1>2. \A e \in ends : Published(e[2])' /\ revisions'[e[2]].family = e[1]
  BY <1>1
<1>3. \A e \in ends : \/ revisions'[e[2]].proposal = x.proposal
                      \/ e \in approvals'[x.proposal].expected
  BY <1>1
<1>4. x.source # x.target
  OBVIOUS
<1> HIDE DEF ends
<1> QED
  BY <1>2, <1>3, <1>4 DEF AsApproved, ends

LEMMA NewRelationsAsApproved ==
  ASSUME Inductive, [Next]_ledgerVars, NEW p \in ProposalIds, NEW f \in FamilyIds,
         NEW a \in AliasNames, NEW new \in RevisionIds, PublicationStep(p, f, a, new)
  PROVE  \A x \in LearnedFrom(p, f, new, aliases \cup {AliasRow(a, f)})
                    \cup Refinement(p, f, new) \cup Deprecation(p, f) :
           x.proposal = p /\ AsApproved(x)'
<1> DEFINE rows == aliases \cup {AliasRow(a, f)}
<1>1. /\ Published(new)' /\ revisions'[new].family = f /\ revisions'[new].proposal = p
      /\ \A g \in FamilyIds : HasHead(g) =>
           /\ heads[g].revision \in RevisionIds
           /\ revisions'[heads[g].revision].version # 0
           /\ revisions'[heads[g].revision].family = g
      /\ \A e \in proposals[p].expected :
           e[2] = heads[e[1]].revision /\ e \in approvals'[p].expected
  BY CoveredEnds
<1>2. /\ WellFormed(proposals[p]) /\ HeadsMatch(p) /\ BuildsOnHead(p, f)
      /\ proposals[p].operation \in Creations \cup Revising
      /\ proposals[p].operation \in Revising => f = proposals[p].target
  BY DEF Inductive, PreviewsAreWellFormed, PublicationStep, Committed, Applicable
<1>3. ASSUME NEW t \in ResolvedFamilies(rows, proposals[p].content.related) \ {f}, HasHead(t)
      PROVE  \A x : x = Assertion(p, f, t, new, heads[t].revision, "LEARNED_FROM") =>
               x.proposal = p /\ AsApproved(x)'
  <2>1. rows \subseteq AliasRows
    BY DEF Inductive, TypeOK, AliasRow, AliasRows
  <2>2. t \in FamilyIds /\ t # f
    BY <2>1 DEF ResolvedFamilies, AliasRows
  <2> QED
    BY <1>1, <1>3, <2>2 DEF Assertion, AsApproved, Published
<1>4. ASSUME proposals[p].operation = "create_and_link"
      PROVE  \A t, x : t = proposals[p].relationTarget
                       /\ x = Assertion(p, f, t, new, heads[t].revision, "REFINES") =>
               x.proposal = p /\ AsApproved(x)'
  <2> TAKE t, x
  <2> HAVE t = proposals[p].relationTarget
           /\ x = Assertion(p, f, t, new, heads[t].revision, "REFINES")
  <2>1. t \in FamilyIds /\ HasHead(t) /\ <<t, heads[t].revision>> \in proposals[p].expected
    BY <1>2, <1>4, FrozenEnd DEF WellFormed
  <2>2. t # f
    <3>1. proposals[p].base = {}
      BY <1>2, <1>4 DEF WellFormed, Creations, Revising, StateChanges
    <3>2. Published(heads[t].revision) /\ revisions[heads[t].revision].family = t
      BY <2>1 DEF Inductive, HeadsAreTheirOwn
    <3>3. heads[t].revision \in RevisionIds
      BY <3>2 DEF Published
    <3> QED
      BY <1>2, <3>1, <3>2, <3>3 DEF BuildsOnHead
  <2>3. <<t, heads[t].revision>> \in approvals'[p].expected
    BY <1>1, <2>1
  <2>4. /\ x.proposal = p /\ x.source = f /\ x.sourceRevision = new
        /\ x.target = t /\ x.targetRevision = heads[t].revision
    BY DEF Assertion
  <2>5. PICK h : h = heads[t].revision
    OBVIOUS
  <2>6. /\ Published(new)' /\ revisions'[new].family = f /\ revisions'[new].proposal = p
        /\ Published(h)' /\ revisions'[h].family = t
    BY <1>1, <2>1, <2>5 DEF Published
  <2>7. /\ x.targetRevision = h /\ <<t, h>> \in approvals'[p].expected
        /\ x.proposal = p /\ x.source = f /\ x.sourceRevision = new /\ x.target = t
        /\ f # t
    BY <2>2, <2>3, <2>4, <2>5
  <2>8. PICK q : q = x.sourceRevision
    OBVIOUS
  <2>9. Published(q)' /\ revisions'[q].family = f /\ revisions'[q].proposal = x.proposal
    BY <2>6, <2>7, <2>8
  <2>10. revisions'[q].proposal = p \/ <<f, q>> \in approvals'[p].expected
    BY <2>7, <2>9
  <2>11. PICK g, o : g = f /\ o = p
    OBVIOUS
  <2>12. /\ x.proposal = o /\ x.source = g /\ x.sourceRevision = q
         /\ x.target = t /\ x.targetRevision = h /\ g # t
    BY <2>7, <2>8, <2>11
  <2>13. /\ Published(q)' /\ revisions'[q].family = g
         /\ Published(h)' /\ revisions'[h].family = t
         /\ revisions'[q].proposal = o \/ <<g, q>> \in approvals'[o].expected
         /\ revisions'[h].proposal = o \/ <<t, h>> \in approvals'[o].expected
    BY <2>6, <2>7, <2>9, <2>10, <2>11
  <2>14. x.proposal = o /\ AsApproved(x)'
    BY <2>12, <2>13, EndsAsApproved
  <2> QED
    BY <2>11, <2>14
<1>5. ASSUME proposals[p].replacement # None, NEW r \in proposals[p].base
      PROVE  \A t, x : t = proposals[p].replacement
                       /\ x = Assertion(p, t, f, heads[t].revision, r, "DEPRECATES") =>
               x.proposal = p /\ AsApproved(x)'
  <2> TAKE t, x
  <2> HAVE t = proposals[p].replacement
           /\ x = Assertion(p, t, f, heads[t].revision, r, "DEPRECATES")
  <2>1. t \in FamilyIds /\ HasHead(t) /\ <<t, heads[t].revision>> \in proposals[p].expected
    BY <1>2, <1>5, FrozenEnd DEF WellFormed
  <2>2. t # f
    BY <1>2, <1>5 DEF WellFormed
  <2>3. HasHead(f) /\ r = heads[f].revision /\ <<f, r>> \in proposals[p].expected
    BY <1>2, <1>5 DEF BuildsOnHead
  <2>4. /\ <<t, heads[t].revision>> \in approvals'[p].expected
        /\ <<f, r>> \in approvals'[p].expected
    BY <1>1, <2>1, <2>3
  <2>5. /\ x.proposal = p /\ x.source = t /\ x.sourceRevision = heads[t].revision
        /\ x.target = f /\ x.targetRevision = r
    BY DEF Assertion
  <2>6. PICK h : h = heads[t].revision
    OBVIOUS
  <2>7. /\ Published(h)' /\ revisions'[h].family = t
        /\ Published(r)' /\ revisions'[r].family = f
    BY <1>1, <2>1, <2>3, <2>6 DEF Published
  <2>8. /\ x.sourceRevision = h /\ <<t, h>> \in approvals'[p].expected
        /\ x.proposal = p /\ x.source = t /\ x.target = f /\ x.targetRevision = r
        /\ <<f, r>> \in approvals'[p].expected
    BY <2>4, <2>5, <2>6
  <2>9. /\ revisions'[h].proposal = p \/ <<t, h>> \in approvals'[p].expected
        /\ revisions'[r].proposal = p \/ <<f, r>> \in approvals'[p].expected
    BY <2>8
  <2> QED
    BY <2>2, <2>7, <2>8, <2>9, EndsAsApproved
<1>6. \A x \in LearnedFrom(p, f, new, rows) : x.proposal = p /\ AsApproved(x)'
  BY <1>3 DEF LearnedFrom
<1>7. \A x \in Refinement(p, f, new) : x.proposal = p /\ AsApproved(x)'
  BY <1>4 DEF Refinement
<1>8. \A x \in Deprecation(p, f) : x.proposal = p /\ AsApproved(x)'
  BY <1>5 DEF Deprecation
<1> QED
  BY <1>6, <1>7, <1>8

(* The relation that a link asserts.                                       *)
LinkOf(p) ==
  LET q == proposals[p]
      f == q.target
      t == q.relationTarget
  IN Assertion(p, f, t, heads[f].revision, heads[t].revision, q.relation)

LEMMA LinkAsApproved ==
  ASSUME Inductive, [Next]_ledgerVars, NEW p \in ProposalIds, ApplyLink(p)
  PROVE  \A x : x = LinkOf(p) => x.proposal = p /\ AsApproved(x)'
<1> TAKE x
<1> HAVE x = LinkOf(p)
<1> DEFINE f == proposals[p].target
           t == proposals[p].relationTarget
<1>1. Applicable(p) /\ Consume(p, None) /\ HeadsMatch(p) /\ UNCHANGED Publication
  BY DEF ApplyLink, Applicable, Publication
<1>2. /\ Frozen(proposals[p], f) /\ Frozen(proposals[p], t) /\ f # t
  BY DEF Inductive, PreviewsAreWellFormed, WellFormed, ApplyLink
<1>3. /\ f \in FamilyIds /\ HasHead(f) /\ <<f, heads[f].revision>> \in proposals[p].expected
      /\ t \in FamilyIds /\ HasHead(t) /\ <<t, heads[t].revision>> \in proposals[p].expected
  BY <1>1, <1>2, FrozenEnd
<1>4. approvals'[p].expected = proposals[p].expected
  BY <1>1, ConsumeKeeps DEF RevisionOrNone
<1>5. \A g \in {f, t} : /\ heads[g].revision \in RevisionIds
                        /\ revisions'[heads[g].revision].version # 0
                        /\ revisions'[heads[g].revision].family = g
  BY <1>1, <1>3 DEF Inductive, HeadsAreTheirOwn, Published, Publication
<1>6. <<f, heads[f].revision>> \in approvals'[p].expected
  BY <1>3, <1>4
<1>7. <<t, heads[t].revision>> \in approvals'[p].expected
  BY <1>3, <1>4
<1>8. /\ x.source = f /\ x.target = t /\ x.proposal = p
      /\ x.sourceRevision = heads[f].revision /\ x.targetRevision = heads[t].revision
  BY DEF LinkOf, Assertion
<1>9. PICK q, r : q = heads[f].revision /\ r = heads[t].revision
  OBVIOUS
<1>10. PICK g, h : g = f /\ h = t
  OBVIOUS
<1> HIDE DEF f, t
<1>11. /\ Published(q)' /\ revisions'[q].family = g
       /\ Published(r)' /\ revisions'[r].family = h
  BY <1>5, <1>9, <1>10 DEF Published
<1>12. /\ revisions'[q].proposal = p \/ <<g, q>> \in approvals'[p].expected
       /\ revisions'[r].proposal = p \/ <<h, r>> \in approvals'[p].expected
  BY <1>6, <1>7, <1>9, <1>10
<1>13. /\ x.source = g /\ x.target = h /\ x.proposal = p /\ g # h
       /\ x.sourceRevision = q /\ x.targetRevision = r
  BY <1>2, <1>8, <1>9, <1>10
<1> QED
  BY <1>11, <1>12, <1>13, EndsAsApproved

(* The relations that a step asserts.                                      *)
LEMMA NewRelations ==
  ASSUME Inductive, [Next]_ledgerVars, NEW x \in relations', x \notin relations
  PROVE  /\ proposals'[x.proposal].status = "applied"
         /\ proposals[x.proposal].status # "applied"
         /\ AsApproved(x)'
         /\ \/ proposals'[x.proposal].operation # "link"
            \/ ApplyLink(x.proposal) /\ x = LinkOf(x.proposal)
<1>1. CASE WorkflowStep
  BY <1>1 DEF WorkflowStep, canonical
<1>2. ASSUME NEW p \in ProposalIds, NEW f \in FamilyIds, NEW a \in AliasNames,
             NEW new \in RevisionIds, PublicationStep(p, f, a, new)
      PROVE  /\ x.proposal = p /\ AsApproved(x)'
             /\ proposals'[p].status = "applied" /\ proposals[p].status # "applied"
             /\ proposals'[p].operation # "link"
  <2>1. x \in LearnedFrom(p, f, new, aliases \cup {AliasRow(a, f)})
                \cup Refinement(p, f, new) \cup Deprecation(p, f)
    BY <1>2 DEF PublicationStep
  <2>2. x.proposal = p /\ AsApproved(x)'
    BY <1>2, <2>1, NewRelationsAsApproved
  <2>3. Applicable(p) /\ Consume(p, new) /\ new \in RevisionOrNone
    BY <1>2 DEF PublicationStep, Committed, RevisionOrNone
  <2>4. proposals'[p].status = "applied" /\ proposals[p].status # "applied"
    BY <2>3, ConsumeKeeps DEF Applicable
  <2>5. proposals'[p].operation = proposals[p].operation
    BY <2>3 DEF Consume, Inductive, TypeOK, Proposals
  <2>6. proposals[p].operation # "link"
    BY <1>2 DEF PublicationStep, Creations, Revising, StateChanges
  <2> QED
    BY <2>2, <2>4, <2>5, <2>6
<1>3. ASSUME NEW p \in ProposalIds, ApplyLink(p)
      PROVE  /\ x.proposal = p /\ x = LinkOf(p) /\ AsApproved(x)'
             /\ proposals'[p].status = "applied" /\ proposals[p].status # "applied"
  <2>1. x = LinkOf(p)
    BY <1>3 DEF ApplyLink, LinkOf
  <2>2. x.proposal = p /\ AsApproved(x)'
    BY <1>3, <2>1, LinkAsApproved
  <2>3. Applicable(p) /\ Consume(p, None) /\ None \in RevisionOrNone
    BY <1>3 DEF ApplyLink, RevisionOrNone
  <2> QED
    BY <2>1, <2>2, <2>3, ConsumeKeeps DEF Applicable
<1> QED
  BY <1>1, <1>2, <1>3, StepCases

LEMMA RelationsInductive ==
  ASSUME Records, [Next]_ledgerVars
  PROVE  RelationsHaveDecisions' /\ RelationsAsApproved'
<1>1. Inductive /\ relations \subseteq Relations
  BY DEF Records, Inductive, TypeOK
<1>2. ASSUME NEW x \in relations'
      PROVE  proposals'[x.proposal].status = "applied" /\ AsApproved(x)'
  <2>1. CASE x \in relations
    <3>1. proposals[x.proposal].status = "applied" /\ AsApproved(x)
      BY <2>1, RelationsRead DEF Records, RelationsHaveDecisions
    <3>2. x.proposal \in ProposalIds
      BY <1>1, <2>1 DEF Relations
    <3> QED
      BY <1>1, <2>1, <3>1, <3>2, AppliedKept, AsApprovedKept
  <2>2. CASE x \notin relations
    BY <1>1, <1>2, <2>2, NewRelations
  <2> QED
    BY <2>1, <2>2
<1> QED
  BY <1>2 DEF RelationsHaveDecisions, RelationsAsApproved, AsApproved

(* A link is asserted by an apply that saw no other of its kind between    *)
(* the pair.                                                               *)
LEMMA LinksInductive ==
  ASSUME Records, [Next]_ledgerVars
  PROVE  LinksAreUnique'
<1> DEFINE Link(x) == x.state = "active" /\ proposals[x.proposal].operation = "link"
<1>1. Inductive /\ relations \subseteq Relations
  BY DEF Records, Inductive, TypeOK
<1>2. ASSUME NEW x \in relations
      PROVE  /\ proposals'[x.proposal].operation = proposals[x.proposal].operation
             /\ proposals[x.proposal].status = "applied"
  <2>1. x.proposal \in ProposalIds /\ proposals[x.proposal].status = "applied"
    BY <1>1, <1>2 DEF Records, RelationsHaveDecisions, Relations
  <2> QED
    BY <1>1, <2>1, AppliedKept
<1> SUFFICES ASSUME NEW x \in relations', NEW y \in relations', Link(x)', Link(y)',
                    x.type = y.type, SamePair(x, y.source, y.target)
             PROVE  x = y
  BY DEF LinksAreUnique, SamePair
<1>3. CASE x \in relations /\ y \in relations
  BY <1>2, <1>3 DEF Records, LinksAreUnique
<1>4. ASSUME NEW u \in relations, NEW w \in relations', w \notin relations,
             Link(u)', Link(w)', u.type = w.type,
             SamePair(u, w.source, w.target)
      PROVE  FALSE
  <2>1. ApplyLink(w.proposal) /\ w = LinkOf(w.proposal)
    BY <1>1, <1>4, NewRelations
  <2>2. ~Asserted(w.source, w.target, w.type)
    <3> DEFINE q == proposals[w.proposal]
    <3>1. ~Asserted(q.target, q.relationTarget, q.relation)
      BY <2>1 DEF ApplyLink
    <3>2. w.source = q.target /\ w.target = q.relationTarget /\ w.type = q.relation
      BY <2>1 DEF LinkOf, Assertion
    <3> QED
      BY <3>1, <3>2
  <2> QED
    BY <1>4, <2>2 DEF Asserted
<1>5. CASE x \in relations /\ y \notin relations
  BY <1>4, <1>5
<1>6. CASE x \notin relations /\ y \in relations
  <2>1. SamePair(y, x.source, x.target)
    BY DEF SamePair
  <2> QED
    BY <1>4, <1>6, <2>1
<1>7. CASE x \notin relations /\ y \notin relations
  <2>1. /\ ApplyLink(x.proposal) /\ x = LinkOf(x.proposal)
        /\ ApplyLink(y.proposal) /\ y = LinkOf(y.proposal)
    BY <1>1, <1>7, NewRelations
  <2>2. relations' = relations \cup {LinkOf(x.proposal)}
    BY <2>1 DEF ApplyLink, LinkOf
  <2> QED
    BY <1>7, <2>1, <2>2
<1> QED
  BY <1>3, <1>5, <1>6, <1>7
-----------------------------------------------------------------------------
(* The outbox.                                                             *)

LEMMA PublicationNumbered ==
  ASSUME Records, [Next]_ledgerVars, NEW p \in ProposalIds, NEW f \in FamilyIds,
         NEW a \in AliasNames, NEW new \in RevisionIds, PublicationStep(p, f, a, new)
  PROVE  EventsAreNumbered'
<1> DEFINE first == Event("head", f, new, proposals[p].operation,
                          TargetState(proposals[p].operation),
                          Max({now, proposals[p].content.from}))
<1>1. Inductive /\ EventsAreNumbered /\ Committed(p, f, new) /\ sequence \in Nat
  BY DEF Records, PublicationStep, Inductive, TypeOK
<1>2. /\ first \in PublicationEvents(p, f, new)
      /\ \A e \in PublicationEvents(p, f, new) :
           /\ e.sequence = sequence + 1 /\ e.family = f
           /\ e.kind = "head" => e = first
      /\ first.kind = "head" /\ first.revision = new
      /\ first.family = f /\ first.sequence = sequence + 1
  <2>1. /\ first.kind = "head" /\ first.revision = new
        /\ first.family = f /\ first.sequence = sequence + 1
    BY DEF Event
  <2>2. first \in PublicationEvents(p, f, new)
    BY DEF PublicationEvents
  <2>3. ASSUME NEW e \in PublicationEvents(p, f, new)
        PROVE  \/ e = first
               \/ e = Event("expiry", f, new, "validity_expired", "", proposals[p].content.to)
               \/ e = Event("relation", f, None, proposals[p].operation, "", now)
    <3> HIDE DEF first
    <3> QED
      BY <2>3 DEF PublicationEvents, first
  <2>4. ASSUME NEW e \in PublicationEvents(p, f, new)
        PROVE  e.sequence = sequence + 1 /\ e.family = f /\ (e.kind = "head" => e = first)
    <3> HIDE DEF first
    <3>1. CASE e = first
      BY <2>1, <3>1
    <3>2. CASE e = Event("expiry", f, new, "validity_expired", "", proposals[p].content.to)
      BY <3>2 DEF Event
    <3>3. CASE e = Event("relation", f, None, proposals[p].operation, "", now)
      BY <3>3 DEF Event
    <3> QED
      BY <2>3, <3>1, <3>2, <3>3
  <2> HIDE DEF first
  <2> QED
    BY <2>1, <2>2, <2>4
<1> HIDE DEF first
<1>3. outbox' = outbox \cup PublicationEvents(p, f, new) /\ sequence' = sequence + 1
  BY DEF PublicationStep
<1>4. HeadEvents' = HeadEvents \cup {first} /\ outbox \subseteq Events
  BY <1>2, <1>3 DEF HeadEvents, Inductive, TypeOK, Records
<1>5. \A e \in outbox : e.sequence \in Nat /\ e.sequence < sequence + 1
  <2>1. \A e \in outbox : e.sequence \in Nat
    BY <1>4 DEF Events
  <2>2. \A e \in outbox : e.sequence <= sequence
    BY <1>1 DEF EventsAreNumbered
  <2> QED
    BY <1>1, <2>1, <2>2
<1>6. ~Published(new) /\ \A e \in HeadEvents : Published(e.revision) /\ e.revision # new
  BY <1>1 DEF Committed, EventsAreNumbered
<1>7. \A r \in RevisionIds \ {new} :
        /\ Published(r)' <=> Published(r)
        /\ revisions'[r].family = revisions[r].family
        /\ revisions'[r].version = revisions[r].version
  BY <1>1, RevisionsAfter
<1>8. Published(new)' /\ revisions'[new].family = f
  BY <1>1, RevisionsAfter
<1>9. \A e \in HeadEvents : e.revision \in RevisionIds \ {new}
  BY <1>6 DEF Published
<1>10. \A e \in HeadEvents' : /\ Published(e.revision)'
                              /\ revisions'[e.revision].family = e.family
  <2>1. SUFFICES ASSUME NEW e \in HeadEvents'
                 PROVE  Published(e.revision)' /\ revisions'[e.revision].family = e.family
    OBVIOUS
  <2>2. CASE e = first
    BY <1>2, <1>8, <2>2
  <2>3. CASE e \in HeadEvents
    BY <1>1, <1>7, <1>9, <2>3 DEF EventsAreNumbered
  <2> QED
    BY <1>4, <2>2, <2>3
<1>11. \A r \in RevisionIds : Published(r)' =>
         \E e \in HeadEvents' : {x \in HeadEvents' : x.revision = r} = {e}
  <2> SUFFICES ASSUME NEW r \in RevisionIds, Published(r)'
               PROVE  \E e \in HeadEvents' : {x \in HeadEvents' : x.revision = r} = {e}
    OBVIOUS
  <2>1. CASE r = new
    <3>1. {x \in HeadEvents' : x.revision = r} = {first}
      BY <1>2, <1>4, <1>6, <2>1
    <3> QED
      BY <1>4, <3>1
  <2>2. CASE r # new
    <3>1. PICK e \in HeadEvents : {x \in HeadEvents : x.revision = r} = {e}
      BY <1>1, <1>7, <2>2 DEF EventsAreNumbered
    <3>2. {x \in HeadEvents' : x.revision = r} = {e}
      BY <1>2, <1>4, <2>2, <3>1
    <3> QED
      BY <1>4, <3>2
  <2> QED
    BY <2>1, <2>2
<1>12. ASSUME NEW e \in HeadEvents, e.family = f
       PROVE  revisions'[e.revision].version < revisions'[new].version
  <2>1. Published(e.revision) /\ revisions[e.revision].family = f
    BY <1>1, <1>12 DEF EventsAreNumbered
  <2>2. revisions[e.revision].version < NextVersion(proposals[p].base)
    BY <1>1, <1>9, <1>12, <2>1, NewVersionIsLast
  <2>3. revisions'[new].version = NextVersion(proposals[p].base)
    BY <1>1, RevisionsAfter
  <2> QED
    BY <1>7, <1>9, <1>12, <2>2, <2>3
<1>13. \A r \in RevisionIds : revisions'[r].version \in Nat
  BY <1>1, RevisionsAfter DEF Revisions
<1>14. ASSUME NEW d \in HeadEvents', NEW e \in HeadEvents', d.family = e.family
       PROVE  d.sequence < e.sequence <=>
                revisions'[d.revision].version < revisions'[e.revision].version
  <2>1. CASE d \in HeadEvents /\ e \in HeadEvents
    BY <1>1, <1>7, <1>9, <1>14, <2>1 DEF EventsAreNumbered
  <2>2. CASE d = first /\ e = first
    BY <1>1, <1>2, <1>13, <2>2
  <2>3. CASE d \in HeadEvents /\ e = first
    <3>1. d.sequence < e.sequence
      BY <1>2, <1>5, <2>3 DEF HeadEvents
    <3> QED
      BY <1>2, <1>12, <1>14, <2>3, <3>1
  <2>4. CASE d = first /\ e \in HeadEvents
    <3>1. ~(d.sequence < e.sequence)
      <4>1. e.sequence \in Nat /\ e.sequence < sequence + 1 /\ d.sequence = sequence + 1
        BY <1>2, <1>5, <2>4 DEF HeadEvents
      <4> QED
        BY <1>1, <4>1
    <3>2. revisions'[e.revision].version < revisions'[d.revision].version
      BY <1>2, <1>12, <1>14, <2>4
    <3>3. d.revision \in RevisionIds /\ e.revision \in RevisionIds
      BY <1>2, <1>9, <2>4
    <3> QED
      BY <1>13, <3>1, <3>2, <3>3
  <2> QED
    BY <1>4, <2>1, <2>2, <2>3, <2>4
<1>15. ASSUME NEW e \in HeadEvents', heads'[e.family].revision = e.revision
       PROVE  heads'[e.family].sequence = e.sequence
  <2>1. heads' = [heads EXCEPT ![f] = [revision |-> new, sequence |-> sequence + 1]]
    BY <1>1 DEF Committed
  <2>2. heads \in [FamilyIds -> Heads]
    BY <1>1 DEF Inductive, TypeOK
  <2>3. CASE e = first
    BY <1>2, <2>1, <2>2, <2>3
  <2>4. CASE e \in HeadEvents
    <3>1. e.family \in FamilyIds
      BY <1>4, <2>4 DEF HeadEvents, Events
    <3>2. e.family # f
      BY <1>6, <1>15, <2>1, <2>2, <2>4
    <3> QED
      BY <1>1, <1>15, <2>1, <2>2, <2>4, <3>1, <3>2 DEF EventsAreNumbered
  <2> QED
    BY <1>4, <2>3, <2>4
<1>16. ASSUME NEW d \in outbox', NEW e \in HeadEvents', d.sequence = e.sequence
       PROVE  d.family = e.family
  <2>1. CASE d \in outbox /\ e \in HeadEvents
    BY <1>1, <1>16, <2>1 DEF EventsAreNumbered
  <2>2. CASE d \in PublicationEvents(p, f, new) /\ e = first
    BY <1>2, <2>2
  <2>3. CASE d \in outbox /\ e = first
    BY <1>1, <1>2, <1>5, <1>16, <2>3
  <2>4. CASE d \in PublicationEvents(p, f, new) /\ e \in HeadEvents
    BY <1>1, <1>2, <1>5, <1>16, <2>4 DEF HeadEvents
  <2> QED
    BY <1>3, <1>4, <2>1, <2>2, <2>3, <2>4
<1>17. \A e \in outbox' : e.sequence <= sequence'
  <2>1. SUFFICES ASSUME NEW e \in outbox' PROVE e.sequence <= sequence + 1
    BY <1>3
  <2> QED
    BY <1>1, <1>2, <1>3, <1>5
<1> QED
  BY <1>10, <1>11, <1>14, <1>15, <1>16, <1>17 DEF EventsAreNumbered

LEMMA EventsInductive ==
  ASSUME Records, [Next]_ledgerVars
  PROVE  EventsAreNumbered'
<1>1. CASE WorkflowStep
  BY <1>1 DEF WorkflowStep, canonical, Records, EventsAreNumbered, HeadEvents, Published
<1>2. CASE \E p \in ProposalIds, f \in FamilyIds, a \in AliasNames, new \in RevisionIds :
             PublicationStep(p, f, a, new)
  BY <1>2, PublicationNumbered
<1>3. ASSUME NEW p \in ProposalIds, ApplyLink(p) PROVE EventsAreNumbered'
  <2> DEFINE event == Event("relation", proposals[p].target, None, "link", "", now)
  <2>1. /\ UNCHANGED <<revisions, heads>>
        /\ outbox' = outbox \cup {event} /\ sequence' = sequence + 1
    BY <1>3 DEF ApplyLink
  <2>2. event.kind # "head" /\ event.sequence = sequence + 1
    BY DEF Event
  <2> HIDE DEF event
  <2>3. HeadEvents' = HeadEvents
    BY <2>1, <2>2 DEF HeadEvents
  <2>4. EventsAreNumbered /\ sequence \in Nat /\ \A e \in outbox : e.sequence \in Nat
    BY DEF Records, Inductive, TypeOK, Events
  <2>5. \A e \in outbox' : e.sequence <= sequence'
    BY <2>1, <2>2, <2>4 DEF EventsAreNumbered
  <2>6. \A d \in outbox', e \in HeadEvents' : d.sequence = e.sequence => d.family = e.family
    <3> SUFFICES ASSUME NEW d \in outbox', NEW e \in HeadEvents, d.sequence = e.sequence
                 PROVE  d.family = e.family
      BY <2>3
    <3>1. CASE d = event
      <4>1. e \in outbox
        BY DEF HeadEvents
      <4> QED
        BY <2>2, <2>4, <3>1, <4>1 DEF EventsAreNumbered
    <3>2. CASE d \in outbox
      BY <2>4, <3>2 DEF EventsAreNumbered
    <3> QED
      BY <2>1, <3>1, <3>2
  <2> QED
    BY <2>1, <2>3, <2>4, <2>5, <2>6 DEF EventsAreNumbered, Published
<1> QED
  BY <1>1, <1>2, <1>3, StepCases DEF Records
-----------------------------------------------------------------------------
LEMMA RecordsInductive == Spec => []Records
<1>1. Init => RelationsHaveDecisions /\ RelationsAsApproved /\ LinksAreUnique
  BY DEF Init, RelationsHaveDecisions, RelationsAsApproved, LinksAreUnique
<1>2. Init => EventsAreNumbered
  <2>1. Init => outbox = {} /\ HeadEvents = {}
    BY DEF Init, HeadEvents
  <2>2. ASSUME Init PROVE \A r \in RevisionIds : ~Published(r)
    BY <2>2 DEF Init, Published, NoRevision
  <2> QED
    BY <2>1, <2>2 DEF EventsAreNumbered
<1>3. Init => Inductive
  BY InitInductive
<1>4. Records /\ [Next]_ledgerVars => Records'
  BY NextInductive, RelationsInductive, LinksInductive, EventsInductive DEF Records
<1>5. Init => Records
  BY <1>1, <1>2, <1>3 DEF Records
<1> QED
  BY <1>4, <1>5, PTL DEF Spec

(* However heads move between a decision and its apply, a relation joins   *)
(* the published revisions that the operator was shown, of two different   *)
(* families: apply_approved compares every head it will assert about.      *)
THEOREM RelationsSayWhatWasApproved == Spec => []RelationsAsApproved
<1>1. Records => RelationsAsApproved
  BY DEF Records
<1> QED
  BY <1>1, RecordsInductive, PTL

(* However the proposals of one link interleave, only one is asserted: the *)
(* apply looks for the relation again, in both directions when its type    *)
(* has none.                                                               *)
THEOREM LinksAreAssertedOnce == Spec => []LinksAreUnique
<1>1. Records => LinksAreUnique
  BY DEF Records
<1> QED
  BY <1>1, RecordsInductive, PTL

(* A consumer that reads the head events of a family in the order of their *)
(* numbers reads its versions in their order, each once, and the last one  *)
(* is the head's.                                                          *)
THEOREM OutboxTellsTheHistory == Spec => []OutboxFollowsLineage
<1>1. Records => OutboxFollowsLineage
  <2> SUFFICES ASSUME Records PROVE OutboxFollowsLineage
    OBVIOUS
  <2>1. ASSUME NEW r \in RevisionIds, Published(r)
        PROVE  Cardinality({e \in {x \in outbox : x.kind = "head"} : e.revision = r}) = 1
    BY <2>1, FS_Singleton DEF Records, EventsAreNumbered, HeadEvents
  <2> QED
    BY <2>1 DEF OutboxFollowsLineage, Records, EventsAreNumbered, HeadEvents
<1> QED
  BY <1>1, RecordsInductive, PTL
-----------------------------------------------------------------------------
(* HOW IT IS READ.                                                         *)

(* A revision is published before now and closed before now, and not       *)
(* closed before it was published: each publication takes an instant.      *)
Clock ==
  /\ now >= 1
  /\ \A r \in RevisionIds :
       /\ revisions[r].to < now
       /\ Published(r) => /\ revisions[r].from < now
                          /\ revisions[r].to # None => revisions[r].from < revisions[r].to

(* What a state change says ends when it was proposed.                     *)
ChangesEnd ==
  \A p \in ProposalIds : proposals[p].operation \in StateChanges =>
    /\ proposals[p].content.from < proposals[p].content.to
    /\ proposals[p].content.to <= now

OutcomeStates == {"active", "invalidated", "archived", "superseded"}

Tells(t, r) ==
  /\ Published(r)
  /\ t.to = {r}
  /\ t.from = revisions[r].parents
  /\ t.at = revisions[r].from
  /\ t.state \in OutcomeStates
  /\ t.state = "superseded" => /\ revisions[r].content.to # None
                               /\ revisions[r].content.to <= now

(* Every published revision has its transition, and there are no others.   *)
TransitionsTell ==
  /\ \A i \in 1..Len(transitions) : \E r \in RevisionIds : Tells(transitions[i], r)
  /\ \A i, j \in 1..Len(transitions) : transitions[i].to = transitions[j].to => i = j
  /\ \A r \in RevisionIds : Published(r) =>
       \E i \in 1..Len(transitions) : transitions[i].to = {r}

(* The head is open.  What it follows was published before it and is       *)
(* closed, if at all, by the time it was published: at that very instant   *)
(* only when it was in effect at once.                                     *)
HeadsAreOpen == \A f \in FamilyIds : HasHead(f) => revisions[heads[f].revision].to = None

Follows(head, r) ==
  /\ revisions[r].from < revisions[head].from
  /\ revisions[r].to <= revisions[head].from
  /\ revisions[r].to = revisions[head].from =>
       revisions[head].content.from <= revisions[head].from

ClosedByHead ==
  \A f \in FamilyIds, r \in RevisionIds :
    HasHead(f) /\ Published(r) /\ revisions[r].family = f /\ r # heads[f].revision =>
      Follows(heads[f].revision, r)

(* None of the family's revisions was published before its start.          *)
Unscheduled(f) ==
  \A r \in RevisionIds : Published(r) /\ revisions[r].family = f =>
    revisions[r].content.from <= revisions[r].from

SuccessorsClose ==
  \A f \in FamilyIds : Unscheduled(f) =>
    \A r \in RevisionIds :
      Published(r) /\ revisions[r].family = f /\ r # heads[f].revision =>
        revisions[r].to # None

Timeline ==
  /\ Inductive
  /\ Clock
  /\ ChangesEnd
  /\ TransitionsTell
  /\ HeadsAreOpen
  /\ ClosedByHead
  /\ SuccessorsClose
-----------------------------------------------------------------------------
(* A step that publishes nothing.                                          *)

LEMMA TimeTypes ==
  ASSUME Inductive
  PROVE  /\ now \in Nat /\ transitions \in Seq(Transitions)
         /\ \A r \in RevisionIds :
              /\ revisions[r] \in Revisions
              /\ revisions[r].from \in Nat /\ revisions[r].to \in Nat
              /\ revisions[r].content.from \in Nat /\ revisions[r].content.to \in Nat
         /\ \A p \in ProposalIds :
              /\ proposals[p].content.from \in Nat /\ proposals[p].content.to \in Nat
<1>1. /\ now \in Nat /\ transitions \in Seq(Transitions)
      /\ revisions \in [RevisionIds -> Revisions]
      /\ proposals \in [ProposalIds -> Proposals]
  BY DEF Inductive, TypeOK
<1>2. ASSUME NEW r \in RevisionIds
      PROVE  /\ revisions[r] \in Revisions
             /\ revisions[r].from \in Nat /\ revisions[r].to \in Nat
             /\ revisions[r].content \in ContentType
  BY <1>1 DEF Revisions
<1>3. \A p \in ProposalIds : proposals[p].content \in ContentType
  BY <1>1 DEF Proposals
<1> QED
  BY <1>1, <1>2, <1>3 DEF ContentType

LEMMA QuietTimeline ==
  ASSUME Timeline, Inductive', UNCHANGED <<revisions, heads, transitions>>,
         now' \in {now, now + 1}
  PROVE  Clock' /\ TransitionsTell' /\ HeadsAreOpen' /\ ClosedByHead' /\ SuccessorsClose'
<1>1. now \in Nat /\ now' \in Nat /\ now <= now'
  BY TimeTypes DEF Timeline
<1>2. \A r \in RevisionIds : /\ revisions[r].to \in Nat /\ revisions[r].from \in Nat
                             /\ revisions[r].content.to \in Nat
  BY TimeTypes DEF Timeline
<1>3. Clock'
  BY <1>1, <1>2 DEF Timeline, Clock, Published
<1>4. TransitionsTell'
  <2>1. ASSUME NEW i \in 1..Len(transitions), NEW r \in RevisionIds, Tells(transitions[i], r)
        PROVE  Tells(transitions[i], r)'
    BY <1>1, <1>2, <2>1 DEF Tells, Published
  <2> QED
    BY <2>1 DEF Timeline, TransitionsTell, Published
<1>5. HeadsAreOpen' /\ ClosedByHead'
  BY DEF Timeline, HeadsAreOpen, ClosedByHead, HasHead, Published, Follows
<1>6. SuccessorsClose'
  BY DEF Timeline, SuccessorsClose, Unscheduled, Published
<1> QED
  BY <1>3, <1>4, <1>5, <1>6

LEMMA ChangesEndKept ==
  ASSUME Timeline, [Next]_ledgerVars
  PROVE  ChangesEnd'
<1> SUFFICES ASSUME NEW p \in ProposalIds, proposals'[p].operation \in StateChanges
             PROVE  /\ proposals'[p].content.from < proposals'[p].content.to
                    /\ proposals'[p].content.to <= now'
  BY DEF ChangesEnd
<1>1. Inductive /\ now' \in Nat /\ now <= now' /\ now \in Nat /\ now >= 1
  BY NextRevisionStep, TimeTypes DEF Timeline, Clock
<1>2. /\ proposals[p].content.from \in Nat /\ proposals[p].content.to \in Nat
      /\ proposals'[p].content.from \in Nat
  <2>1. Inductive'
    BY <1>1, NextInductive
  <2>2. proposals' \in [ProposalIds -> Proposals]
    BY <2>1 DEF Inductive, TypeOK
  <2>3. proposals'[p].content \in ContentType
    BY <2>2 DEF Proposals
  <2> QED
    BY <1>1, <2>3, TimeTypes DEF ContentType
<1>3. CASE Terms(proposals'[p]) = Terms(proposals[p])
  BY <1>1, <1>2, <1>3 DEF Terms, Timeline, ChangesEnd
<1>4. CASE Drafted(proposals'[p])
  BY <1>1, <1>2, <1>4 DEF Drafted, WellFormedWindow, None
<1> QED
  BY <1>1, <1>3, <1>4, TermsKept
-----------------------------------------------------------------------------
(* A publication.                                                          *)

LEMMA Outcomes ==
  ASSUME NEW o, o \in Creations \cup Revising
  PROVE  /\ TargetState(o) \in OutcomeStates
         /\ TargetState(o) = "superseded" => o \in StateChanges
BY DEF TargetState, OutcomeStates, StateChanges, Creations, Revising

(* What the commit of new leaves of its content and of the other windows.  *)
LEMMA WindowsAfter ==
  ASSUME Inductive, NEW p \in ProposalIds, NEW f \in FamilyIds,
         NEW new \in RevisionIds, Committed(p, f, new)
  PROVE  /\ revisions'[new].to = None
         /\ revisions'[new].content = proposals[p].content
         /\ \A r \in RevisionIds \ {new} :
              /\ revisions'[r].content = revisions[r].content
              /\ \/ ~Closes(p, r) /\ revisions'[r].to = revisions[r].to
                 \/ Closes(p, r) /\ revisions'[r].to = now
<1>1. revisions' = [r \in RevisionIds |->
         IF r = new THEN NewRevision(p, f)
         ELSE IF Closes(p, r) THEN [revisions[r] EXCEPT !.to = now]
         ELSE revisions[r]]
  BY DEF Committed, PublishRevision
<1>2. revisions'[new].to = None /\ revisions'[new].content = proposals[p].content
  <2>1. revisions'[new] = NewRevision(p, f)
    BY <1>1
  <2> QED
    BY <2>1 DEF NewRevision
<1>3. ASSUME NEW r \in RevisionIds \ {new}
      PROVE  /\ revisions'[r].content = revisions[r].content
             /\ \/ ~Closes(p, r) /\ revisions'[r].to = revisions[r].to
                \/ Closes(p, r) /\ revisions'[r].to = now
  <2>1. revisions[r] \in Revisions
    BY TimeTypes
  <2>2. CASE Closes(p, r)
    BY <1>1, <2>1, <2>2 DEF Revisions
  <2>3. CASE ~Closes(p, r)
    BY <1>1, <2>3
  <2> QED
    BY <2>2, <2>3
<1> QED
  BY <1>2, <1>3

LEMMA PublicationClock ==
  ASSUME Timeline, NEW p \in ProposalIds, NEW f \in FamilyIds,
         NEW a \in AliasNames, NEW new \in RevisionIds, PublicationStep(p, f, a, new)
  PROVE  Clock'
<1>1. Inductive /\ Clock /\ Committed(p, f, new) /\ now \in Nat /\ now' = now + 1
  BY TimeTypes DEF Timeline, PublicationStep
<1>2. now' >= 1
  BY <1>1
<1>3. ASSUME NEW r \in RevisionIds
      PROVE  /\ revisions'[r].to < now'
             /\ Published(r)' => /\ revisions'[r].from < now'
                                 /\ revisions'[r].to # None =>
                                      revisions'[r].from < revisions'[r].to
  <2>1. CASE r = new
    BY <1>1, <2>1, RevisionsAfter, WindowsAfter DEF None
  <2>2. CASE r # new
    <3>1. /\ revisions[r].to \in Nat /\ revisions[r].from \in Nat /\ revisions[r].to < now
          /\ Published(r) => /\ revisions[r].from < now
                             /\ revisions[r].to # None => revisions[r].from < revisions[r].to
      BY <1>1, TimeTypes DEF Clock
    <3>2. /\ Published(r)' <=> Published(r)
          /\ revisions'[r].from = revisions[r].from
          /\ revisions'[r].to \in {revisions[r].to, now}
      BY <1>1, <2>2, RevisionsAfter, WindowsAfter
    <3> QED
      BY <1>1, <3>1, <3>2
  <2> QED
    BY <2>1, <2>2
<1> QED
  BY <1>2, <1>3 DEF Clock

LEMMA PublicationTells ==
  ASSUME Timeline, NEW p \in ProposalIds, NEW f \in FamilyIds,
         NEW a \in AliasNames, NEW new \in RevisionIds, PublicationStep(p, f, a, new)
  PROVE  TransitionsTell'
<1> DEFINE last == NewTransition(p, new)
           n == Len(transitions)
<1>1. Inductive /\ TransitionsTell /\ ChangesEnd /\ Committed(p, f, new) /\ now \in Nat
  BY TimeTypes DEF Timeline, PublicationStep
<1>2. /\ transitions' = Append(transitions, last) /\ n \in Nat
      /\ now' = now + 1
  BY TimeTypes DEF Timeline, PublicationStep
<1>3. /\ Len(transitions') = n + 1 /\ transitions'[n + 1] = last
      /\ \A i \in 1..n : transitions'[i] = transitions[i]
  <2> HIDE DEF last
  <2> QED
    BY <1>1, <1>2, TimeTypes
<1>4. 1..Len(transitions') = 1..n \cup {n + 1}
  BY <1>2, <1>3
<1>5. ASSUME NEW t, t = last PROVE Tells(t, new)'
  <2>1. /\ Published(new)' /\ revisions'[new].parents = proposals[p].base
        /\ revisions'[new].from = now /\ revisions'[new].content = proposals[p].content
    BY <1>1, RevisionsAfter, WindowsAfter
  <2>2. proposals[p].operation \in Creations \cup Revising
    BY DEF PublicationStep
  <2>3. last.state \in OutcomeStates
    BY <2>2, Outcomes DEF NewTransition
  <2>4. last.state = "superseded" => /\ proposals[p].content.to # None
                                     /\ proposals[p].content.to <= now + 1
    <3>1. SUFFICES ASSUME proposals[p].operation \in StateChanges
                   PROVE  /\ proposals[p].content.to # None
                          /\ proposals[p].content.to <= now + 1
      BY <2>2, Outcomes DEF NewTransition
    <3>2. /\ proposals[p].content.from < proposals[p].content.to
          /\ proposals[p].content.to <= now
          /\ proposals[p].content.from \in Nat /\ proposals[p].content.to \in Nat
      BY <1>1, <3>1, TimeTypes DEF ChangesEnd
    <3> QED
      BY <1>1, <3>2 DEF None
  <2>5. last.to = {new} /\ last.from = proposals[p].base /\ last.at = now
    BY DEF NewTransition
  <2> QED
    BY <1>2, <1>5, <2>1, <2>3, <2>4, <2>5 DEF Tells
<1>6. ASSUME NEW t, NEW r \in RevisionIds, Tells(t, r) PROVE r # new /\ Tells(t, r)'
  <2>1. Published(r) /\ r # new
    BY <1>1, <1>6 DEF Tells, Committed
  <2>2. /\ Published(r)' /\ revisions'[r].parents = revisions[r].parents
        /\ revisions'[r].from = revisions[r].from
        /\ revisions'[r].content = revisions[r].content
    BY <1>1, <2>1, RevisionsAfter, WindowsAfter
  <2>3. revisions[r].content.to \in Nat
    BY <1>1, TimeTypes
  <2> QED
    BY <1>1, <1>2, <1>6, <2>1, <2>2, <2>3 DEF Tells
<1>7. \A i \in 1..n : \E r \in RevisionIds : Tells(transitions[i], r)
  BY <1>1 DEF TransitionsTell
<1>8. last.to = {new}
  BY DEF NewTransition
<1> HIDE DEF last, n
<1>9. ASSUME NEW i \in 1..n
      PROVE  /\ \E r \in RevisionIds : Tells(transitions[i], r)'
             /\ transitions'[i].to # {new}
  <2>1. PICK t : t = transitions[i] /\ t = transitions'[i]
    BY <1>3
  <2>2. PICK r \in RevisionIds : Tells(t, r)
    BY <1>7, <2>1
  <2>3. r # new /\ Tells(t, r)' /\ t.to = {r}
    BY <1>6, <2>2 DEF Tells
  <2>4. Tells(transitions[i], r)'
    BY <2>1, <2>3 DEF Tells
  <2> QED
    BY <2>1, <2>3, <2>4
<1>10. ASSUME NEW i \in 1..Len(transitions') PROVE \E r \in RevisionIds : Tells(transitions[i], r)'
  <2>1. CASE i = n + 1
    <3>1. PICK t : t = last /\ t = transitions'[i]
      BY <1>3, <2>1
    <3>2. Tells(t, new)'
      BY <1>5, <3>1
    <3>3. Tells(transitions[i], new)'
      BY <3>1, <3>2 DEF Tells
    <3> QED
      BY <3>3
  <2> QED
    BY <1>4, <1>9, <1>10, <2>1
<1>11. ASSUME NEW i \in 1..Len(transitions'), NEW j \in 1..Len(transitions'),
              transitions'[i].to = transitions'[j].to
       PROVE  i = j
  <2>1. CASE i \in 1..n /\ j \in 1..n
    BY <1>1, <1>3, <1>11, <2>1 DEF TransitionsTell, n
  <2> QED
    BY <1>3, <1>4, <1>8, <1>9, <1>11, <2>1
<1>12. ASSUME NEW r \in RevisionIds, Published(r)'
       PROVE  \E i \in 1..Len(transitions') : transitions'[i].to = {r}
  <2>1. CASE r = new
    BY <1>3, <1>4, <1>8, <2>1
  <2>2. CASE r # new
    <3>1. Published(r)
      BY <1>1, <1>12, <2>2, RevisionsAfter
    <3>2. PICK i \in 1..n : transitions[i].to = {r}
      BY <1>1, <3>1 DEF TransitionsTell, n
    <3> QED
      BY <1>3, <1>4, <3>2
  <2> QED
    BY <2>1, <2>2
<1> QED
  BY <1>10, <1>11, <1>12 DEF TransitionsTell

(* The new head follows every revision of its family.                      *)
LEMMA NewHeadFollows ==
  ASSUME Timeline, NEW p \in ProposalIds, NEW f \in FamilyIds,
         NEW a \in AliasNames, NEW new \in RevisionIds, PublicationStep(p, f, a, new),
         NEW r \in RevisionIds \ {new}, Published(r), revisions[r].family = f
  PROVE  Follows(new, r)'
<1>1. Inductive /\ Clock /\ Committed(p, f, new) /\ now \in Nat
  BY TimeTypes DEF Timeline, PublicationStep
<1>2. /\ revisions[r].from < now /\ revisions[r].to < now
      /\ revisions[r].to \in Nat /\ revisions[r].from \in Nat
  BY <1>1, TimeTypes DEF Clock
<1>3. /\ revisions'[r].from = revisions[r].from
      /\ \/ ~Closes(p, r) /\ revisions'[r].to = revisions[r].to
         \/ Closes(p, r) /\ revisions'[r].to = now
      /\ revisions'[new].from = now /\ revisions'[new].content = proposals[p].content
  BY <1>1, RevisionsAfter, WindowsAfter
<1>4. Closes(p, r) => proposals[p].content.from <= now
  <2>1. CASE proposals[p].operation \in StateChanges
    <3>1. /\ proposals[p].content.from < proposals[p].content.to
          /\ proposals[p].content.to <= now
          /\ proposals[p].content.from \in Nat /\ proposals[p].content.to \in Nat
      BY <1>1, <2>1, TimeTypes DEF ChangesEnd, Timeline
    <3> QED
      BY <1>1, <3>1
  <2> QED
    BY <2>1 DEF Closes
<1> QED
  BY <1>1, <1>2, <1>3, <1>4 DEF Follows

LEMMA PublicationCloses ==
  ASSUME Timeline, NEW p \in ProposalIds, NEW f \in FamilyIds,
         NEW a \in AliasNames, NEW new \in RevisionIds, PublicationStep(p, f, a, new)
  PROVE  HeadsAreOpen' /\ ClosedByHead' /\ SuccessorsClose'
<1>1. Inductive /\ Committed(p, f, new) /\ now \in Nat
  BY TimeTypes DEF Timeline, PublicationStep
<1>2. /\ heads'[f].revision = new
      /\ \A g \in FamilyIds \ {f} : heads'[g] = heads[g] /\ (HasHead(g)' <=> HasHead(g))
      /\ \A g \in FamilyIds \ {f} : HasHead(g) => heads[g].revision # new
  BY <1>1, HeadsAfter
<1>3. /\ revisions'[new].to = None /\ revisions'[new].family = f
      /\ revisions'[new].from = now /\ revisions'[new].content = proposals[p].content
  BY <1>1, RevisionsAfter, WindowsAfter
<1>4. \A r \in RevisionIds \ {new} :
        /\ Published(r)' <=> Published(r)
        /\ revisions'[r].family = revisions[r].family
        /\ revisions'[r].from = revisions[r].from
        /\ revisions'[r].content = revisions[r].content
        /\ \/ ~Closes(p, r) /\ revisions'[r].to = revisions[r].to
           \/ Closes(p, r) /\ revisions'[r].to = now
  BY <1>1, RevisionsAfter, WindowsAfter
<1>5. \A r \in RevisionIds : Closes(p, r) => HasHead(f) /\ r = heads[f].revision
  BY <1>1 DEF Closes, Committed, BuildsOnHead
<1>6. ASSUME NEW g \in FamilyIds \ {f}, HasHead(g)
      PROVE  heads[g].revision \in RevisionIds \ {new} /\ Published(heads[g].revision)
             /\ revisions[heads[g].revision].family = g
  <2>1. Published(heads[g].revision) /\ revisions[heads[g].revision].family = g
    BY <1>1, <1>6 DEF Inductive, HeadsAreTheirOwn
  <2> QED
    BY <1>2, <1>6, <2>1 DEF Published
<1>7. \A r \in RevisionIds \ {new} : Published(r) /\ revisions[r].family # f =>
        revisions'[r] = revisions[r]
  <2> SUFFICES ASSUME NEW r \in RevisionIds \ {new}, Published(r), revisions[r].family # f
               PROVE  revisions'[r] = revisions[r]
    OBVIOUS
  <2>1. ~Closes(p, r)
    BY <1>1, <1>5 DEF Inductive, HeadsAreTheirOwn
  <2> QED
    BY <1>1, <2>1 DEF Committed, PublishRevision
<1>8. HeadsAreOpen'
  <2> SUFFICES ASSUME NEW g \in FamilyIds, HasHead(g)'
               PROVE  revisions'[heads'[g].revision].to = None
    BY DEF HeadsAreOpen
  <2>1. CASE g = f
    BY <1>2, <1>3, <2>1
  <2>2. CASE g # f
    <3>1. /\ HasHead(g) /\ heads'[g] = heads[g]
          /\ revisions'[heads[g].revision] = revisions[heads[g].revision]
      BY <1>2, <1>6, <1>7, <2>2
    <3> QED
      BY <3>1 DEF Timeline, HeadsAreOpen
  <2> QED
    BY <2>1, <2>2
<1>9. ClosedByHead'
  <2> SUFFICES ASSUME NEW g \in FamilyIds, NEW r \in RevisionIds, NEW h,
                      HasHead(g)', Published(r)', revisions'[r].family = g,
                      h = heads'[g].revision, r # h
               PROVE  Follows(h, r)'
    BY DEF ClosedByHead
  <2>1. CASE g = f
    BY <1>2, <1>4, <2>1, NewHeadFollows
  <2>2. CASE g # f
    <3>1. r # new /\ Published(r) /\ revisions[r].family = g /\ HasHead(g) /\ h = heads[g].revision
      BY <1>2, <1>3, <1>4, <2>2
    <3>2. revisions'[r] = revisions[r] /\ revisions'[h] = revisions[h]
      BY <1>6, <1>7, <2>2, <3>1
    <3>3. Follows(h, r)
      BY <3>1 DEF Timeline, ClosedByHead
    <3> QED
      BY <3>2, <3>3 DEF Follows
  <2> QED
    BY <2>1, <2>2
<1>10. SuccessorsClose'
  <2> SUFFICES ASSUME NEW g \in FamilyIds, Unscheduled(g)', NEW r \in RevisionIds,
                      Published(r)', revisions'[r].family = g, r # heads'[g].revision
               PROVE  revisions'[r].to # None
    BY DEF SuccessorsClose
  <2>1. r # new
    BY <1>2, <1>3
  <2>2. Published(r) /\ revisions[r].family = g
    BY <1>4, <2>1
  <2>3. Unscheduled(g)
    <3> SUFFICES ASSUME NEW s \in RevisionIds, Published(s), revisions[s].family = g
                 PROVE  revisions[s].content.from <= revisions[s].from
      BY DEF Unscheduled
    <3>1. s # new
      BY <1>1 DEF Committed
    <3> QED
      BY <1>4, <3>1 DEF Unscheduled
  <2>4. CASE r # heads[g].revision
    <3>1. revisions[r].to # None
      BY <2>2, <2>3, <2>4 DEF Timeline, SuccessorsClose
    <3>2. now # None
      BY <1>1 DEF Timeline, Clock, None
    <3> QED
      BY <1>4, <2>1, <3>1, <3>2
  <2>5. CASE r = heads[g].revision
    <3>1. g = f
      BY <1>2, <2>2, <2>5 
    <3>2. /\ Published(new)' /\ revisions'[new].family = f
      BY <1>1, RevisionsAfter
    <3>3. proposals[p].content.from <= now
      BY <1>3, <3>1, <3>2 DEF Unscheduled
    <3>4. proposals[p].base = {r}
      BY <1>1, <2>2, <2>5, <3>1 DEF Committed, BuildsOnHead
    <3>5. revisions[r].to = None
      <4>1. HasHead(g)
        BY <1>1, <2>2 DEF Inductive, LinearHistory
      <4> QED
        BY <2>5, <4>1 DEF Timeline, HeadsAreOpen
    <3>6. Closes(p, r)
      BY <3>3, <3>4, <3>5 DEF Closes
    <3>7. now # None
      BY <1>1 DEF Timeline, Clock, None
    <3> QED
      BY <1>4, <2>1, <3>6, <3>7
  <2> QED
    BY <2>4, <2>5
<1> QED
  BY <1>8, <1>9, <1>10

LEMMA TimelineInductive == Timeline /\ [Next]_ledgerVars => Timeline'
<1> SUFFICES ASSUME Timeline, [Next]_ledgerVars PROVE Timeline'
  OBVIOUS
<1>1. Inductive /\ Inductive' /\ ChangesEnd'
  BY NextInductive, ChangesEndKept DEF Timeline
<1>2. CASE WorkflowStep
  <2>1. UNCHANGED <<revisions, heads, transitions>> /\ now' \in {now, now + 1}
    BY <1>2 DEF WorkflowStep, canonical
  <2> QED
    BY <1>1, <2>1, QuietTimeline DEF Timeline
<1>3. CASE \E p \in ProposalIds, f \in FamilyIds, a \in AliasNames, new \in RevisionIds :
             PublicationStep(p, f, a, new)
  BY <1>1, <1>3, PublicationClock, PublicationTells, PublicationCloses DEF Timeline
<1>4. CASE \E p \in ProposalIds : ApplyLink(p)
  <2>1. UNCHANGED <<revisions, heads, transitions>> /\ now' \in {now, now + 1}
    BY <1>4 DEF ApplyLink, Consume
  <2> QED
    BY <1>1, <2>1, QuietTimeline DEF Timeline
<1> QED
  BY <1>1, <1>2, <1>3, <1>4, StepCases

LEMMA TimelineInvariant == Spec => []Timeline
<1>1. ASSUME Init PROVE Timeline
  <2>1. \A r \in RevisionIds : ~Published(r) /\ revisions[r].to = 0
    BY <1>1 DEF Init, Published, NoRevision, None
  <2>2. \A p \in ProposalIds : proposals[p].operation = "none"
    BY <1>1 DEF Init, NoProposal
  <2>3. \A f \in FamilyIds : ~HasHead(f)
    BY <1>1 DEF Init, HasHead, NoHead
  <2>4. now = 1 /\ transitions = <<>>
    BY <1>1 DEF Init
  <2>5. Clock
    BY <2>1, <2>4 DEF Clock
  <2>6. ChangesEnd
    BY <2>2 DEF ChangesEnd, StateChanges
  <2>7. TransitionsTell
    BY <2>1, <2>4 DEF TransitionsTell
  <2>8. HeadsAreOpen /\ ClosedByHead /\ SuccessorsClose
    BY <2>1, <2>3 DEF HeadsAreOpen, ClosedByHead, SuccessorsClose
  <2> QED
    BY <1>1, <2>5, <2>6, <2>7, <2>8, InitInductive DEF Timeline
<1>2. Timeline /\ [Next]_ledgerVars => Timeline'
  BY TimelineInductive
<1> QED
  BY <1>1, <1>2, PTL DEF Spec
-----------------------------------------------------------------------------
(* The past.                                                               *)

LEMMA TransitionsGrow ==
  ASSUME Inductive, [Next]_ledgerVars
  PROVE  \/ UNCHANGED transitions
         \/ \E t : \E new \in RevisionIds :
              /\ ~Published(new) /\ t.to = {new}
              /\ transitions' = Append(transitions, t)
<1>1. CASE WorkflowStep \/ \E p \in ProposalIds : ApplyLink(p)
  BY <1>1 DEF WorkflowStep, canonical, ApplyLink
<1>2. CASE \E p \in ProposalIds, f \in FamilyIds, a \in AliasNames, new \in RevisionIds :
             PublicationStep(p, f, a, new)
  <2>1. PICK p \in ProposalIds, f \in FamilyIds, a \in AliasNames, new \in RevisionIds :
          PublicationStep(p, f, a, new)
    BY <1>2
  <2>2. ~Published(new) /\ transitions' = Append(transitions, NewTransition(p, new))
    BY <2>1 DEF PublicationStep, Committed
  <2>3. NewTransition(p, new).to = {new}
    BY DEF NewTransition
  <2> QED
    BY <2>2, <2>3
<1> QED
  BY <1>1, <1>2, StepCases

(* What the transitions say of a published revision is said once.          *)
LEMMA TransitionsKept ==
  ASSUME Inductive, [Next]_ledgerVars, NEW r, Published(r)
  PROVE  /\ Reactivations(r)' = Reactivations(r)
         /\ \A recorded : RetiredAt(r, recorded)' <=> RetiredAt(r, recorded)
<1>1. CASE UNCHANGED transitions
  BY <1>1 DEF Reactivations, RetiredAt
<1>2. ASSUME NEW t, NEW new \in RevisionIds, ~Published(new), t.to = {new},
             transitions' = Append(transitions, t)
      PROVE  /\ Reactivations(r)' = Reactivations(r)
             /\ \A recorded : RetiredAt(r, recorded)' <=> RetiredAt(r, recorded)
  <2> DEFINE n == Len(transitions)
  <2>1. n \in Nat
    BY TimeTypes
  <2>2. /\ Len(transitions') = n + 1 /\ transitions'[n + 1] = t
        /\ \A i \in 1..n : transitions'[i] = transitions[i]
    BY <1>2, TimeTypes
  <2>3. 1..Len(transitions') = 1..n \cup {n + 1} /\ n + 1 \notin 1..n
    BY <2>1, <2>2
  <2>4. r \notin t.to
    BY <1>2
  <2> HIDE DEF n
  <2>5. {j \in 1..Len(transitions') :
           r \in transitions'[j].to /\ transitions'[j].state = "active"}
          = {j \in 1..n : r \in transitions[j].to /\ transitions[j].state = "active"}
    BY <2>2, <2>3, <2>4
  <2>6. Reactivations(r)' = Reactivations(r)
    <3> DEFINE J == {j \in 1..n : r \in transitions[j].to /\ transitions[j].state = "active"}
    <3>1. Reactivations(r) = {transitions[i].at : i \in J}
      BY DEF Reactivations, n
    <3>2. Reactivations(r)' = {transitions'[i].at : i \in J}
      BY <2>5 DEF Reactivations
    <3>3. \A i \in J : transitions'[i].at = transitions[i].at
      BY <2>2
    <3> QED
      BY <3>1, <3>2, <3>3
  <2>7. ASSUME NEW recorded PROVE RetiredAt(r, recorded)' <=> RetiredAt(r, recorded)
    BY <2>2, <2>3, <2>4 DEF RetiredAt, n
  <2> QED
    BY <2>6, <2>7
<1> QED
  BY <1>1, <1>2, TransitionsGrow

LEMMA RecordedAtKept ==
  ASSUME Timeline, [Next]_ledgerVars, NEW r, Published(r), NEW recorded \in 1..now - 1
  PROVE  RecordedAt(r, recorded)' <=> RecordedAt(r, recorded)
<1>1. Inductive /\ now \in Nat /\ r \in RevisionIds
  BY TimeTypes DEF Timeline, Published
<1>2. /\ revisions[r] \in Revisions /\ revisions[r].to \in Nat /\ revisions[r].to < now
  BY <1>1, TimeTypes DEF Timeline, Clock
<1>3. Reactivations(r)' = Reactivations(r)
  BY <1>1, TransitionsKept
<1>4. CASE revisions'[r] = revisions[r]
  BY <1>3, <1>4 DEF RecordedAt
<1>5. CASE /\ revisions[r].to = None \/ revisions[r].to > now
           /\ revisions'[r] = [revisions[r] EXCEPT !.to = now]
  <2>1. revisions[r].to = None /\ revisions'[r].to = now /\ revisions'[r].from = revisions[r].from
    <3>1. revisions[r].to = None
      BY <1>1, <1>2, <1>5
    <3> QED
      BY <1>2, <1>5, <3>1 DEF Revisions
  <2>2. recorded < now
    BY <1>1
  <2> QED
    BY <2>1, <2>2 DEF RecordedAt
<1> QED
  BY <1>1, <1>4, <1>5, NextRevisionStep DEF RevisionStep

LEMMA RowsKept ==
  ASSUME Timeline, [Next]_ledgerVars, NEW f \in FamilyIds, NEW valid,
         NEW recorded \in 1..now - 1
  PROVE  /\ EffectiveRows(f, valid, recorded)' = EffectiveRows(f, valid, recorded)
         /\ \A r \in EffectiveRows(f, valid, recorded) :
              /\ revisions'[r].content = revisions[r].content
              /\ revisions'[r].from = revisions[r].from
<1>1. Inductive /\ now \in Nat
  BY TimeTypes DEF Timeline
<1>2. ASSUME NEW r \in RevisionIds, Published(r)
      PROVE  /\ Published(r)'
             /\ revisions'[r].family = revisions[r].family
             /\ revisions'[r].content = revisions[r].content
             /\ revisions'[r].from = revisions[r].from
             /\ RecordedAt(r, recorded)' <=> RecordedAt(r, recorded)
             /\ RetiredAt(r, recorded)' <=> RetiredAt(r, recorded)
  <2>1. revisions[r] \in Revisions
    BY <1>1, TimeTypes
  <2>2. \/ revisions'[r] = revisions[r]
        \/ revisions'[r] = [revisions[r] EXCEPT !.to = now]
    BY <1>1, <1>2, NextRevisionStep DEF RevisionStep
  <2>3. /\ revisions'[r].version = revisions[r].version
        /\ revisions'[r].family = revisions[r].family
        /\ revisions'[r].content = revisions[r].content
        /\ revisions'[r].from = revisions[r].from
    BY <2>1, <2>2 DEF Revisions
  <2>4. /\ RecordedAt(r, recorded)' <=> RecordedAt(r, recorded)
        /\ RetiredAt(r, recorded)' <=> RetiredAt(r, recorded)
    BY <1>1, <1>2, RecordedAtKept, TransitionsKept
  <2> QED
    BY <1>2, <2>3, <2>4 DEF Published
<1>3. ASSUME NEW r \in RevisionIds, ~Published(r), Published(r)'
      PROVE  ~RecordedAt(r, recorded)'
  <2>1. ~WorkflowStep /\ ~\E p \in ProposalIds : ApplyLink(p)
    BY <1>3 DEF WorkflowStep, canonical, ApplyLink, Published
  <2>2. PICK p \in ProposalIds, f1 \in FamilyIds, a \in AliasNames, new \in RevisionIds :
          PublicationStep(p, f1, a, new)
    BY <1>1, <2>1, StepCases
  <2>3. Committed(p, f1, new)
    BY <2>2 DEF PublicationStep
  <2>4. r = new
    BY <1>1, <1>3, <2>3, RevisionsAfter
  <2>5. revisions'[r].from = now
    BY <1>1, <2>3, <2>4, RevisionsAfter
  <2>6. recorded < now
    BY <1>1
  <2> QED
    BY <1>1, <2>5, <2>6 DEF RecordedAt
<1>4. ASSUME NEW r \in RevisionIds
      PROVE  r \in EffectiveRows(f, valid, recorded)' <=> r \in EffectiveRows(f, valid, recorded)
  <2>1. CASE Published(r)
    BY <1>2, <2>1 DEF EffectiveRows
  <2>2. CASE ~Published(r)
    BY <1>3, <2>2 DEF EffectiveRows
  <2> QED
    BY <2>1, <2>2
<1>5. EffectiveRows(f, valid, recorded)' = EffectiveRows(f, valid, recorded)
  BY <1>4 DEF EffectiveRows
<1> QED
  BY <1>2, <1>5 DEF EffectiveRows

(* The past is not rewritten: list_effective_revisions answers ever after  *)
(* what it answered about any moment as it was known at one that is gone.  *)
(* A publication begins now and closes its parents now, and a transition   *)
(* is only ever recorded for the revision it comes with.                   *)
THEOREM ThePastIsKept == Spec => HistoryIsStable
<1>1. Timeline /\ [Next]_ledgerVars =>
        [\A f \in FamilyIds, valid \in 1..MaxTime, recorded \in 1..now - 1 :
           Effective(f, valid, recorded)' = Effective(f, valid, recorded)]_ledgerVars
  <2> SUFFICES ASSUME Timeline, [Next]_ledgerVars, NEW f \in FamilyIds,
                      NEW valid \in 1..MaxTime, NEW recorded \in 1..now - 1
               PROVE  Effective(f, valid, recorded)' = Effective(f, valid, recorded)
    OBVIOUS
  <2> DEFINE rows == EffectiveRows(f, valid, recorded)
             chosen == CHOOSE s \in rows : \A r \in rows : Precedes(r, s)
  <2>1. rows' = rows
    BY RowsKept DEF EffectiveRows
  <2>2. \A r \in rows : /\ revisions'[r].content = revisions[r].content
                        /\ revisions'[r].from = revisions[r].from
    BY RowsKept
  <2>3. \A r, s \in rows : Precedes(r, s)' <=> Precedes(r, s)
    BY <2>2 DEF Precedes
  <2>6. rows # {} => chosen \in rows
    BY LatestExists, TimeTypes DEF Timeline
  <2> HIDE DEF rows
  <2>4. (CHOOSE s \in rows' : \A r \in rows' : Precedes(r, s)')
          = (CHOOSE s \in rows : \A r \in rows : Precedes(r, s))
    BY <2>1, <2>3
  <2>5. chosen' = chosen
    BY <2>4
  <2> HIDE DEF chosen
  <2>7. rows # {} => revisions'[chosen].content = revisions[chosen].content
    BY <2>2, <2>6
  <2>8. Effective(f, valid, recorded) =
          IF /\ rows # {}
             /\ \/ revisions[chosen].content.to = None
                \/ valid < revisions[chosen].content.to
          THEN chosen ELSE None
    BY DEF Effective, rows, chosen
  <2>9. Effective(f, valid, recorded)' =
          IF /\ rows' # {}
             /\ \/ revisions'[chosen'].content.to = None
                \/ valid < revisions'[chosen'].content.to
          THEN chosen' ELSE None
    BY DEF Effective, rows, chosen
  <2> QED
    BY <2>1, <2>5, <2>7, <2>8, <2>9
<1> QED
  BY <1>1, TimelineInvariant, PTL DEF Spec, HistoryIsStable
-----------------------------------------------------------------------------
(* The present.                                                            *)

(* What the one transition of a published revision makes the readings say. *)
LEMMA OneTransition ==
  ASSUME Timeline, NEW r, Published(r)
  PROVE  \E i \in 1..Len(transitions) :
           /\ transitions[i].to = {r}
           /\ Tells(transitions[i], r)
           /\ \A j \in 1..Len(transitions) : r \in transitions[j].to => j = i
<1>1. r \in RevisionIds /\ TransitionsTell
  BY DEF Published, Timeline
<1>2. PICK i \in 1..Len(transitions) : transitions[i].to = {r}
  BY <1>1 DEF TransitionsTell
<1>3. PICK s \in RevisionIds : Tells(transitions[i], s)
  BY <1>1 DEF TransitionsTell
<1>4. s = r
  BY <1>2, <1>3 DEF Tells
<1>5. ASSUME NEW j \in 1..Len(transitions), r \in transitions[j].to PROVE j = i
  <2>1. PICK q \in RevisionIds : transitions[j].to = {q}
    BY <1>1 DEF TransitionsTell, Tells
  <2> QED
    BY <1>1, <1>2, <1>5, <2>1 DEF TransitionsTell
<1> QED
  BY <1>2, <1>3, <1>4, <1>5

LEMMA ClosedIsNotRecorded ==
  ASSUME Timeline, NEW r, Published(r), NEW t \in Nat
  PROVE  /\ revisions[r].to # None /\ revisions[r].to <= t => ~RecordedAt(r, t)
         /\ revisions[r].to = None => (RecordedAt(r, t) <=> revisions[r].from <= t)
<1>1. /\ r \in RevisionIds /\ revisions[r].to \in Nat /\ revisions[r].from \in Nat
      /\ revisions[r].to # None => revisions[r].from < revisions[r].to
  BY TimeTypes DEF Timeline, Clock, Published
<1>2. PICK i \in 1..Len(transitions) :
        /\ Tells(transitions[i], r)
        /\ \A j \in 1..Len(transitions) : r \in transitions[j].to => j = i
  BY OneTransition
<1>3. Reactivations(r) = {} \/ Reactivations(r) = {revisions[r].from}
  BY <1>2 DEF Reactivations, Tells
<1>4. CASE Reactivations(r) = {}
  BY <1>1, <1>4 DEF RecordedAt
<1>5. CASE Reactivations(r) = {revisions[r].from}
  <2>1. Max(Reactivations(r)) = revisions[r].from
    BY <1>1, <1>5, MaxOfOne
  <2> QED
    BY <1>1, <2>1 DEF RecordedAt
<1> QED
  BY <1>3, <1>4, <1>5

(* get_view reads the state of a head off the transition it came with.     *)
LEMMA HeadState ==
  ASSUME Timeline, NEW f \in FamilyIds, HasHead(f), NEW h, h = heads[f].revision
  PROVE  \E i \in 1..Len(transitions) :
           /\ Tells(transitions[i], h)
           /\ RecordedState(h) = transitions[i].state
           /\ \A t : RetiredAt(h, t) <=>
                /\ transitions[i].state \in {"invalidated", "archived"}
                /\ revisions[h].from <= t
<1>1. Published(h) /\ revisions[h].family = f /\ h \in RevisionIds
  BY DEF Timeline, Inductive, HeadsAreTheirOwn, Published
<1>2. PICK i \in 1..Len(transitions) :
        /\ transitions[i].to = {h}
        /\ Tells(transitions[i], h)
        /\ \A j \in 1..Len(transitions) : h \in transitions[j].to => j = i
  BY <1>1, OneTransition
<1>3. ASSUME NEW j \in 1..Len(transitions) PROVE h \notin transitions[j].from
  <2>1. PICK r \in RevisionIds : Tells(transitions[j], r)
    BY DEF Timeline, TransitionsTell
  <2>2. Published(r) /\ transitions[j].from = revisions[r].parents
    BY <2>1 DEF Tells
  <2>3. SUFFICES ASSUME h \in revisions[r].parents PROVE FALSE
    BY <2>2
  <2>4. /\ revisions[r].family = f
        /\ revisions[h].version + 1 = revisions[r].version
        /\ revisions[r].version <= revisions[heads[f].revision].version
    BY <1>1, <2>2, <2>3 DEF Timeline, Inductive, LinearHistory
  <2>5. revisions[h].version \in Nat
    BY <1>1, TimeTypes DEF Timeline, Revisions
  <2> QED
    BY <2>4, <2>5
<1>4. RecordedState(h) = transitions[i].state
  <2> DEFINE touching == {j \in 1..Len(transitions) :
                            h \in transitions[j].from \cup transitions[j].to}
  <2>1. touching = {i}
    BY <1>2, <1>3
  <2>2. i \in Nat
    BY <1>2
  <2>3. Max(touching) = i
    BY <2>1, <2>2, MaxOfOne
  <2> HIDE DEF touching
  <2>4. touching # {} /\ h \in transitions[Max(touching)].to
    BY <1>2, <2>1, <2>3
  <2> QED
    BY <2>3, <2>4 DEF RecordedState, touching
<1>5. ASSUME NEW t
      PROVE  RetiredAt(h, t) <=> /\ transitions[i].state \in {"invalidated", "archived"}
                                 /\ revisions[h].from <= t
  BY <1>2 DEF RetiredAt, Tells
<1> QED
  BY <1>2, <1>4, <1>5

(* What get_view shows of a family: its head, when it is active.           *)
Shown(f) ==
  IF HasHead(f) /\ View(heads[f].revision) = "active"
  THEN heads[f].revision ELSE None

LEMMA PresentFollowsHead ==
  Timeline => \A f \in FamilyIds : Unscheduled(f) => EffectiveNow(f) = Shown(f)
<1> SUFFICES ASSUME Timeline, NEW f \in FamilyIds, Unscheduled(f)
             PROVE  EffectiveNow(f) =
                      IF HasHead(f) /\ View(heads[f].revision) = "active"
                      THEN heads[f].revision ELSE None
  BY DEF Shown
<1> DEFINE rows == EffectiveRows(f, now, now)
<1>1. Inductive /\ now \in Nat /\ Unscheduled(f)
  BY TimeTypes DEF Timeline
<1>2. CASE ~HasHead(f)
  <2>1. rows = {}
    BY <1>1, <1>2 DEF EffectiveRows, Inductive, LinearHistory
  <2> QED
    BY <1>2, <2>1 DEF EffectiveNow, Effective
<1>3. CASE HasHead(f)
  <2> DEFINE h == heads[f].revision
  <2>1. /\ Published(h) /\ revisions[h].family = f /\ h \in RevisionIds
        /\ revisions[h].to = None
    BY <1>3 DEF Timeline, Inductive, HeadsAreTheirOwn, HeadsAreOpen, Published
  <2>2. /\ revisions[h].from \in Nat /\ revisions[h].from < now
        /\ revisions[h].content.from \in Nat
        /\ revisions[h].content.from <= revisions[h].from
    BY <1>1, <2>1, TimeTypes DEF Timeline, Clock, Unscheduled
  <2>3. RecordedAt(h, now)
    BY <1>1, <2>1, <2>2, ClosedIsNotRecorded
  <2>4. ASSUME NEW r \in rows PROVE r = h
    <3>1. /\ r \in RevisionIds /\ Published(r) /\ revisions[r].family = f
          /\ RecordedAt(r, now)
      BY DEF EffectiveRows
    <3>2. SUFFICES ASSUME r # h PROVE FALSE
      OBVIOUS
    <3>3. revisions[r].to # None
      BY <1>1, <3>1, <3>2 DEF Timeline, SuccessorsClose
    <3>4. revisions[r].to <= now
      BY <1>1, <3>1, TimeTypes DEF Timeline, Clock
    <3> QED
      BY <1>1, <3>1, <3>3, <3>4, ClosedIsNotRecorded
  <2>5. PICK i \in 1..Len(transitions) :
          /\ Tells(transitions[i], h)
          /\ RecordedState(h) = transitions[i].state
          /\ \A t : RetiredAt(h, t) <=>
               /\ transitions[i].state \in {"invalidated", "archived"}
               /\ revisions[h].from <= t
    BY <1>3, HeadState
  <2> DEFINE state == transitions[i].state
             until == revisions[h].content.to
  <2>6. /\ state \in OutcomeStates
        /\ state = "superseded" => until # None /\ until <= now
        /\ until \in Nat
    BY <1>1, <2>1, <2>5, TimeTypes DEF Tells
  <2>7. h \in rows <=> state \notin {"invalidated", "archived"}
    BY <1>1, <2>1, <2>2, <2>3, <2>5 DEF EffectiveRows
  <2>8. rows = IF state \in {"invalidated", "archived"} THEN {} ELSE {h}
    BY <2>4, <2>7
  <2>9. EffectiveNow(f) =
          IF state \notin {"invalidated", "archived"} /\ (until = None \/ now < until)
          THEN h ELSE None
    <3>1. CASE state \in {"invalidated", "archived"}
      BY <2>8, <3>1 DEF EffectiveNow, Effective
    <3>2. CASE state \notin {"invalidated", "archived"}
      <4>1. rows = {h}
        BY <2>8, <3>2
      <4> DEFINE chosen == CHOOSE s \in rows : \A r \in rows : Precedes(r, s)
      <4>2. chosen = h
        <5>1. Precedes(h, h)
          BY <2>1 DEF Precedes, RevisionIds
        <5> QED
          BY <4>1, <5>1
      <4>3. EffectiveNow(f) =
              IF /\ rows # {}
                 /\ \/ revisions[chosen].content.to = None
                    \/ now < revisions[chosen].content.to
              THEN chosen ELSE None
        BY DEF EffectiveNow, Effective
      <4> HIDE DEF chosen, rows
      <4> QED
        BY <3>2, <4>1, <4>2, <4>3
    <3> QED
      BY <3>1, <3>2
  <2>10. View(h) = "active" <=> state = "active" /\ (until = None \/ ~(until <= now))
    BY <1>1, <2>2, <2>5 DEF View
  <2>11. state \notin {"invalidated", "archived"} /\ (until = None \/ now < until)
           <=> View(h) = "active"
    <3>1. until = None \/ now < until <=> until = None \/ ~(until <= now)
      BY <1>1, <2>6
    <3>2. state \in {"active", "superseded"} <=> state \notin {"invalidated", "archived"}
      BY <2>6 DEF OutcomeStates
    <3> HIDE DEF state, until
    <3> QED
      BY <2>6, <2>10, <3>1, <3>2
  <2>12. EffectiveNow(f) = IF View(h) = "active" THEN h ELSE None
    <3> HIDE DEF h, state, until
    <3> QED
      BY <2>9, <2>11
  <2> QED
    BY <1>3, <2>12
<1> QED
  BY <1>2, <1>3

(* The two readings of the present agree ("O estado atual e derivado do    *)
(* head."), for a family none of whose revisions was published before its  *)
(* start: list_active_revisions, which reads windows and transitions,      *)
(* finds the head exactly when get_view calls it active.                   *)
THEOREM ReadingsOfThePresentAgree == Spec => []EffectiveFollowsHead
<1>1. Timeline => EffectiveFollowsHead
  BY PresentFollowsHead DEF EffectiveFollowsHead, Unscheduled, Shown
<1> QED
  BY <1>1, TimelineInvariant, PTL

(* A revision published before its start leaves in effect what was: while  *)
(* it waits, list_active_revisions answers what it answered just before    *)
(* that revision was published.                                            *)
THEOREM ScheduledRevisionsWait == Spec => []ScheduledKeepsPredecessor
<1>1. Timeline => ScheduledKeepsPredecessor
  <2> SUFFICES ASSUME Timeline, NEW f \in FamilyIds, NEW h, h = heads[f].revision,
                      HasHead(f), View(h) = "scheduled"
               PROVE  EffectiveNow(f) = Effective(f, now, revisions[h].from - 1)
    BY DEF ScheduledKeepsPredecessor
  <2> DEFINE before == revisions[h].from - 1
  <2>1. Inductive /\ now \in Nat
    BY TimeTypes DEF Timeline
  <2>2. Published(h) /\ revisions[h].family = f /\ h \in RevisionIds
    BY DEF Timeline, Inductive, HeadsAreTheirOwn, Published
  <2>3. /\ revisions[h].from \in Nat /\ revisions[h].from < now
        /\ revisions[h].content.from \in Nat
    BY <2>1, <2>2, TimeTypes DEF Timeline, Clock
  <2>4. revisions[h].content.from > now
    <3>1. PICK i \in 1..Len(transitions) :
            Tells(transitions[i], h) /\ RecordedState(h) = transitions[i].state
      BY HeadState
    <3>2. RecordedState(h) # "scheduled"
      BY <3>1 DEF Tells, OutcomeStates
    <3> QED
      BY <3>2 DEF View
  <2>5. ASSUME NEW r \in RevisionIds
        PROVE  r \in EffectiveRows(f, now, now) <=> r \in EffectiveRows(f, now, before)
    <3>1. CASE ~(Published(r) /\ revisions[r].family = f)
      BY <3>1 DEF EffectiveRows
    <3>2. CASE r = h
      BY <2>1, <2>3, <2>4, <3>2 DEF EffectiveRows
    <3>3. CASE Published(r) /\ revisions[r].family = f /\ r # h
      <4>1. Follows(h, r)
        BY <3>3 DEF Timeline, ClosedByHead
      <4>2. /\ revisions[r].from \in Nat /\ revisions[r].to \in Nat
            /\ revisions[r].to < now
        BY <2>1, TimeTypes DEF Timeline, Clock
      <4>3. revisions[r].from <= before /\ before \in Nat /\ before <= now
        BY <2>1, <2>3, <4>1, <4>2 DEF Follows
      <4>4. revisions[r].to <= before
        BY <2>1, <2>3, <2>4, <4>1, <4>2 DEF Follows
      <4>5. RecordedAt(r, now) <=> RecordedAt(r, before)
        <5>1. CASE revisions[r].to = None
          BY <2>1, <3>3, <4>2, <4>3, <5>1, ClosedIsNotRecorded
        <5>2. CASE revisions[r].to # None
          BY <2>1, <3>3, <4>2, <4>3, <4>4, <5>2, ClosedIsNotRecorded
        <5> QED
          BY <5>1, <5>2
      <4>6. RetiredAt(r, now) <=> RetiredAt(r, before)
        <5>1. \A j \in 1..Len(transitions) :
                r \in transitions[j].to => transitions[j].at = revisions[r].from
          BY <3>3, OneTransition DEF Tells
        <5>2. revisions[r].from <= now
          BY <2>1, <4>2, <4>3
        <5> QED
          BY <4>3, <5>1, <5>2 DEF RetiredAt
      <4> QED
        BY <4>5, <4>6 DEF EffectiveRows
    <3> QED
      BY <3>1, <3>2, <3>3
  <2>6. EffectiveRows(f, now, now) = EffectiveRows(f, now, before)
    BY <2>5 DEF EffectiveRows
  <2> QED
    BY <2>6 DEF EffectiveNow, Effective
<1> QED
  BY <1>1, TimelineInvariant, PTL
=============================================================================

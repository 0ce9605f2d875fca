------------------------- MODULE LedgerMergeProofs -------------------------
(***************************************************************************)
(* Proofs about merges, their undoing and the consolidation that suggests  *)
(* them (modules LedgerMerge and Consolidation), for every value of their  *)
(* constants: merged memories forward (MergedFamiliesForward), revisions   *)
(* that share a parent were undone but one (ForksAreUndone), the numbers   *)
(* of the heads grow (HeadNumbersGrow), an UNMERGE gives back what its     *)
(* merge took (UnmergeRestores), a link is asserted once (LinksAreUnique), *)
(* nothing is suggested twice (SuggestedOnce), and what LedgerProofs says  *)
(* of decisions and of recorded revisions holds with merges too            *)
(* (Authorized, RevisionsAreImmutable).                                    *)
(*                                                                         *)
(* With merges the history is no chain.  What orders it instead is which   *)
(* merges stand: those that no UNMERGE has undone.                         *)
(***************************************************************************)
EXTENDS Consolidation, LedgerProofs

(* Drafts.                                                                 *)

Fields == DOMAIN NoProposal

(* What no step changes about a proposal.                                  *)
Draws(q) ==
  <<q.operation, q.target, q.content, q.base, q.expected, q.relationTarget,
    q.manifest, q.key, q.requestedBy>>

(* A proposal that revises a family carries its head, and the preview of a *)
(* merge one head for each of the families merged.                         *)
Composed(q) ==
  /\ DOMAIN q = Fields
  /\ q.operation \in OperationNames
  /\ q.content \in ContentType
  /\ q.operation \in Creations \cup {"link"} => q.base = {}
  /\ q.operation \in Revising \cup {"resolve_conflict", "unmerge"} =>
       /\ q.target \in FamilyIds
       /\ \E r \in RevisionIds : /\ q.base = {r} /\ <<q.target, r>> \in q.expected
                                 /\ Published(r) /\ revisions[r].family = q.target
  /\ q.operation = "merge" =>
       /\ \A r \in q.base : /\ Published(r) /\ revisions[r].family \in FamilyIds
                            /\ <<revisions[r].family, r>> \in q.expected
       /\ \E r \in q.base : revisions[r].family = q.target
  /\ q.operation = "unmerge" =>
       q.manifest \in ProposalIds /\ manifests[q.manifest] # NoManifest

PreviewsAreComposed ==
  /\ DOMAIN proposals = ProposalIds
  /\ \A p \in ProposalIds : proposals[p].status # "none" => Composed(proposals[p])

(* Families, their heads and the rows that name them.                      *)
NamedFamily(f) ==
  /\ DOMAIN families[f] = DOMAIN NoFamily
  /\ families[f].state \in {"none", "active", "merged"}
  /\ families[f].state = "active" <=> HasHead(f)
  /\ families[f].state = "merged" =>
       /\ families[f].mergedInto \in FamilyIds
       /\ families[families[f].mergedInto].state # "none"
  /\ families[f].state # "none" =>
       \E row \in aliases : row.alias = families[f].legacy /\ row.status = "resolved"

NamingRow(row) ==
  /\ DOMAIN row = {"alias", "family", "status"}
  /\ row.family \in FamilyIds
  /\ families[row.family].state # "none"
  /\ row.status = IF families[row.family].state = "active" THEN "resolved" ELSE "retired"

FamiliesAreNamed ==
  /\ DOMAIN families = FamilyIds
  /\ \A f \in FamilyIds : NamedFamily(f)
  /\ \A row \in aliases : NamingRow(row)

RevisionsArePublished ==
  /\ now \in Nat
  /\ DOMAIN heads = FamilyIds
  /\ \A r \in RevisionIds : /\ revisions[r].version \in Nat
                            /\ revisions[r].from \in Nat
                            /\ revisions[r].content \in ContentType
                            /\ DOMAIN revisions[r] = DOMAIN NoRevision
  /\ \A r \in RevisionIds : Published(r) =>
       /\ revisions[r].family \in FamilyIds
       /\ \A q \in revisions[r].parents : Published(q)
       /\ revisions[r].proposal \in ProposalIds
       /\ proposals[revisions[r].proposal].status = "applied"
  /\ \A f \in FamilyIds : HasHead(f) =>
       Published(heads[f].revision) /\ revisions[heads[f].revision].family = f
  /\ transitions \in Seq(Transitions)

(* Merges.                                                                 *)

Affected(man) == man.sources \cup {man.target}
Befores(man) == {x.revision : x \in man.heads}
Names(man) == {row.alias : row \in man.aliases}

Undone(m) ==
  \E p \in ProposalIds : /\ proposals[p].operation = "unmerge"
                         /\ proposals[p].status = "applied"
                         /\ proposals[p].manifest = m

Merged(m) == m \in ProposalIds /\ manifests[m] # NoManifest
Standing(m) == Merged(m) /\ ~Undone(m)

(* What a manifest says of the merge it belongs to.                        *)
Told(m, man) ==
  /\ man.sources \subseteq FamilyIds /\ man.target \in FamilyIds \ man.sources
  /\ Published(man.revision)
  /\ revisions[man.revision].family = man.target
  /\ revisions[man.revision].proposal = m
  /\ proposals[m].status = "applied" /\ proposals[m].operation = "merge"
  /\ \A g \in Affected(man) : \E x \in man.heads : x.family = g
  /\ \A x, y \in man.heads : x.family = y.family => x = y
  /\ \A x \in man.heads : /\ x.family \in Affected(man)
                          /\ Published(x.revision) /\ revisions[x.revision].family = x.family
  /\ \A g \in Affected(man) : \E x \in man.families : x.family = g
  /\ \A x, y \in man.families : x.family = y.family => x = y
  /\ \A x \in man.families : /\ x.family \in FamilyIds /\ families[x.family].state # "none"
                             /\ DOMAIN x.record = DOMAIN NoFamily
                             /\ x.record.state = "active"
                             /\ x.record.legacy = families[x.family].legacy
  /\ \A row \in man.aliases : /\ DOMAIN row = {"alias", "family", "status"}
                              /\ row.status = "resolved" /\ row.family \in Affected(man)

ManifestsTell ==
  /\ DOMAIN manifests = ProposalIds
  /\ \A m \in ProposalIds : Merged(m) => Told(m, manifests[m])

(* The families that a standing merge retired are its own, and what named  *)
(* them is in its manifest.                                                *)
RetiredBy(m) ==
  /\ \A g \in manifests[m].sources : families[g].state = "merged"
  /\ \A row \in aliases : row.family \in manifests[m].sources => row.alias \in Names(manifests[m])

Apart(m, n) ==
  /\ manifests[m].sources \cap manifests[n].sources = {}
  /\ Befores(manifests[m]) \cap Befores(manifests[n]) = {}

(* The heads a standing merge replaced are nobody's heads, and a merged    *)
(* revision that is a head, or was one for a standing merge, stands.       *)
Replaced(m) == \A f \in FamilyIds : heads[f].revision \notin Befores(manifests[m])

InUse(r) ==
  \/ \E f \in FamilyIds : heads[f].revision = r
  \/ \E n \in ProposalIds : Standing(n) /\ r \in Befores(manifests[n])

MergesStand ==
  /\ \A m \in ProposalIds : Standing(m) => RetiredBy(m) /\ Replaced(m)
  /\ \A m, n \in ProposalIds : Standing(m) /\ Standing(n) /\ m # n => Apart(m, n)
  /\ \A m \in ProposalIds : Merged(m) /\ InUse(manifests[m].revision) => Standing(m)

(* A merged revision that was undone is invalidated for good.              *)
LastSays(r, state) ==
  \E i \in 1..Len(transitions) :
    /\ r \in transitions[i].to /\ transitions[i].state = state
    /\ \A j \in i + 1..Len(transitions) : r \notin transitions[j].from \cup transitions[j].to

UndoneRevision(r) ==
  \E m \in ProposalIds : Merged(m) /\ Undone(m) /\ manifests[m].revision = r

(* A parent is no head any more, and only the merge that took it may give  *)
(* it back.                                                                *)
Succeeded(r, q) ==
  /\ \A f \in FamilyIds : heads[f].revision # q
  /\ \A m \in ProposalIds : Standing(m) /\ q \in Befores(manifests[m]) => manifests[m].revision = r

ForksAreOfUndone ==
  /\ \A m \in ProposalIds : Merged(m) /\ Undone(m) => LastSays(manifests[m].revision, "invalidated")
  /\ \A r \in RevisionIds : Published(r) =>
       UndoneRevision(r) \/ \A q \in revisions[r].parents : Succeeded(r, q)
  /\ \A r, s \in RevisionIds :
       /\ Published(r) /\ Published(s) /\ r # s
       /\ revisions[r].parents \cap revisions[s].parents # {}
       => UndoneRevision(r) \/ UndoneRevision(s)

Forking ==
  /\ PreviewsAreComposed
  /\ RevisionsArePublished
  /\ FamiliesAreNamed
  /\ ManifestsTell
  /\ MergesStand
  /\ ForksAreOfUndone

(* Suggestions.                                                            *)
Suggestion(q) ==
  \/ /\ q.operation = "invalidate"
     /\ \E r \in RevisionIds : q.base = {r} /\ q.key = <<"expiry", r>>
  \/ q.operation = "link" /\ q.key = <<"related", q.target, q.relationTarget>>
  \/ /\ q.operation = "merge"
     /\ \E r, s \in RevisionIds : r < s /\ q.base = {r, s} /\ q.key = <<"merge", r, s>>

(* What a run listed was published.                                        *)
Lists(job) ==
  /\ DOMAIN job = DOMAIN IdleJob
  /\ job.phase = "expire" => \A r \in job.left : Published(r)
  /\ job.phase = "pairs" =>
       \A x \in job.left : Published(x[1]) /\ Published(x[2]) /\ x[1] < x[2]

ListingsAreOfRevisions == DOMAIN jobs = Jobs /\ \A j \in Jobs : Lists(jobs[j])

(* A key has one holder, and what the worker suggested holds the key made  *)
(* of what it suggests.                                                    *)
KeysAreTaken ==
  /\ \A p \in ProposalIds : proposals[p].status = "none" => proposals[p].key = NoKey
  /\ \A p, q \in ProposalIds :
       proposals[p].key = proposals[q].key /\ proposals[p].key # NoKey => p = q
  /\ \A p \in ProposalIds :
       proposals[p].status # "none" /\ proposals[p].requestedBy = Worker => Suggestion(proposals[p])

(* Every event announced so far has a number that was given out.           *)
EventsAreNumberedBelow ==
  /\ sequence \in Nat
  /\ \A e \in outbox : e.sequence \in Nat /\ e.sequence <= sequence
-----------------------------------------------------------------------------
(* A finite set of numbers has a greatest one.                             *)

LEMMA MaxIsGreatest ==
  ASSUME NEW S, S \subseteq Nat, IsFiniteSet(S), S # {}
  PROVE  Max(S) \in S /\ \A y \in S : y <= Max(S)
<1> DEFINE Tops(T) == {x \in T : \A y \in T : y <= x}
           Bad == {n \in Nat : \E T \in SUBSET Nat :
                     IsFiniteSet(T) /\ Cardinality(T) = n /\ T # {} /\ Tops(T) = {}}
<1>1. Bad = {}
  <2>1. SUFFICES ASSUME Bad # {} PROVE FALSE
    OBVIOUS
  <2>2. Bad \subseteq Nat
    OBVIOUS
  <2>3. PICK n \in Bad : \A k \in Bad : ~(<<k, n>> \in OpToRel(<, Nat))
    <3> HIDE DEF Bad
    <3> QED BY <2>1, <2>2, NatLessThanWellFounded, WFMin
  <2>4. \A k \in Bad : ~(k < n)
    BY <2>2, <2>3 DEF OpToRel
  <2>5. PICK T \in SUBSET Nat : IsFiniteSet(T) /\ Cardinality(T) = n /\ T # {} /\ Tops(T) = {}
    OBVIOUS
  <2>6. PICK x \in T : TRUE
    BY <2>5
  <2> DEFINE U == T \ {x}
  <2>7. IsFiniteSet(U) /\ Cardinality(U) = n - 1 /\ U \in SUBSET Nat
    BY <2>5, FS_RemoveElement
  <2>8. Cardinality(U) \in Nat
    BY <2>7, FS_CardinalityType
  <2> HIDE DEF U
  <2>9. CASE U = {}
    BY <2>5, <2>6, <2>9 DEF U
  <2>10. CASE U # {}
    <3>1. PICK z \in Tops(U) : TRUE
      <4>1. n \in Nat /\ n - 1 < n
        BY <2>2
      <4>2. n - 1 \notin Bad
        BY <2>4, <4>1
      <4> QED BY <2>7, <2>8, <2>10, <4>2
    <3>2. (IF z <= x THEN x ELSE z) \in Tops(T)
      BY <2>5, <2>6, <3>1 DEF U
    <3> QED BY <2>5, <3>2
  <2> QED BY <2>9, <2>10
<1>2. Cardinality(S) \in Nat
  BY FS_CardinalityType
<1>3. Tops(S) # {}
  BY <1>1, <1>2
<1>4. \E x \in S : \A y \in S : x >= y
  BY <1>3
<1>5. Max(S) \in S /\ \A y \in S : Max(S) >= y
  BY <1>4 DEF Max
<1> QED
  BY <1>5

LEMMA MaxIsMember ==
  ASSUME NEW S, S \subseteq Nat, IsFiniteSet(S), S # {}
  PROVE  Max(S) \in S
BY MaxIsGreatest
-----------------------------------------------------------------------------
(* Proposing.                                                              *)

(* What every draft is, and that it is saved.                              *)
Drafts(q) ==
  /\ Composed(q)
  /\ q.status \in {"pending_approval", "conflicted"}
  /\ q.requestedBy = Worker => Suggestion(q)
  /\ Save(q)

LEMMA HeadKnown ==
  ASSUME RevisionsArePublished, NEW f \in FamilyIds, HasHead(f)
  PROVE  \E r \in RevisionIds : /\ r = heads[f].revision /\ HeadPair(f) = <<f, r>>
                                /\ Published(r) /\ revisions[r].family = f
                                /\ revisions[r].content \in ContentType
BY DEF RevisionsArePublished, Published, HeadPair

LEMMA ContentTypes ==
  /\ NoContent \in ContentType
  /\ \A c \in Contents : c \in ContentType
  /\ \A c \in ContentType, t \in Nat : [c EXCEPT !.to = t] \in ContentType
<1>1. NoContent \in ContentType
  BY ContentAssumption DEF NoContent, ContentType, None
<1> QED
  BY <1>1, ContentAssumption DEF ContentType

(* The fields that an author of drafts leaves alone.                       *)
LEMMA DraftFields ==
  ASSUME NEW o, NEW who
  PROVE  LET q == Draft(o, who)
         IN /\ DOMAIN q = Fields /\ q.status = "pending_approval" /\ q.operation = o
            /\ q.requestedBy = who /\ q.base = {} /\ q.content = NoContent
BY DEF Draft, NoProposal, Fields

(* A proposal to publish on top of one revision.                           *)
LEMMA RevisingComposed ==
  ASSUME NEW q, DOMAIN q = Fields, NEW f \in FamilyIds, NEW r \in RevisionIds,
         q.operation \in Revising \cup {"resolve_conflict"},
         q.content \in ContentType, q.target = f, q.base = {r}, <<f, r>> \in q.expected,
         Published(r), revisions[r].family = f
  PROVE  Composed(q)
BY DEF Composed, OperationNames, Revising, StateChanges, Creations

(* A proposal that builds on no revision.                                  *)
LEMMA OpeningComposed ==
  ASSUME NEW q, DOMAIN q = Fields, q.operation \in Creations \cup {"link"},
         q.content \in ContentType, q.base = {}
  PROVE  Composed(q)
BY DEF Composed, OperationNames, Revising, StateChanges, Creations

LEMMA ProposeComposed ==
  ASSUME Forking, Propose
  PROVE  \E q : Drafts(q)
<1> DEFINE Plain(q) == Composed(q) /\ q.status = "pending_approval"
                       /\ q.requestedBy \in Requesters /\ Save(q)
<1>1. RevisionsArePublished
  BY DEF Forking
<1>2. SUFFICES \E q : Plain(q)
  BY ConsolidationAssumption DEF Drafts
<1>3. PICK who \in Requesters :
    \/ \E c \in Contents, a \in LegacyIds \cup {NoAlias},
          k \in Keys \cup {NoKey} : ProposeCreate(c, a, k, who)
    \/ \E c \in Contents, a \in LegacyIds \cup {NoAlias}, t \in FamilyIds :
         ProposeCreateAndLink(c, a, t, who)
    \/ \E f \in FamilyIds, c \in Contents, k \in Keys \cup {NoKey} :
         ProposeUpdate(f, c, k, who)
    \/ \E f \in FamilyIds, r, s \in RevisionIds : ProposeRollback(f, r, s, who)
    \/ \E f \in FamilyIds, o \in StateChanges, t \in FamilyIds \cup {None} :
         ProposeStateChange(f, o, t, who)
    \/ \E f, t \in FamilyIds, type \in RelationTypes,
          prefix \in {"link", "relation"} : ProposeLink(f, t, type, prefix, who)
  BY DEF Propose
<1>4. ASSUME NEW c \in Contents, NEW a, NEW k, ProposeCreate(c, a, k, who)
      PROVE  \E q : Plain(q)
  <2> DEFINE q == [Draft("create", who) EXCEPT !.content = c, !.legacy = a, !.key = k]
  <2>1. /\ DOMAIN q = Fields /\ q.operation = "create" /\ q.content = c /\ q.base = {}
        /\ q.status = "pending_approval" /\ q.requestedBy = who
    BY DEF Draft, NoProposal, Fields
  <2>2. Save(q)
    BY <1>4 DEF ProposeCreate
  <2> HIDE DEF q
  <2>3. Composed(q)
    BY <2>1, OpeningComposed, ContentTypes DEF Creations
  <2> QED BY <2>1, <2>2, <2>3
<1>5. ASSUME NEW c \in Contents, NEW a, NEW t \in FamilyIds, ProposeCreateAndLink(c, a, t, who)
      PROVE  \E q : Plain(q)
  <2> DEFINE q == [Draft("create_and_link", who) EXCEPT
                     !.content = c, !.legacy = a, !.expected = {HeadPair(t)},
                     !.relation = "REFINES", !.relationTarget = t,
                     !.key = <<"create-and-link", t, c, a>>]
  <2>1. /\ DOMAIN q = Fields /\ q.operation = "create_and_link" /\ q.content = c /\ q.base = {}
        /\ q.status = "pending_approval" /\ q.requestedBy = who
    BY DEF Draft, NoProposal, Fields
  <2>2. Save(q)
    BY <1>5 DEF ProposeCreateAndLink
  <2> HIDE DEF q
  <2>3. Composed(q)
    BY <2>1, OpeningComposed, ContentTypes DEF Creations
  <2> QED BY <2>1, <2>2, <2>3
<1>6. ASSUME NEW f \in FamilyIds, NEW c \in Contents, NEW k, ProposeUpdate(f, c, k, who)
      PROVE  \E q : Plain(q)
  <2> DEFINE q == [Draft("update", who) EXCEPT
                     !.target = f, !.content = c, !.base = {heads[f].revision},
                     !.expected = {HeadPair(f)}, !.key = k]
  <2>1. /\ DOMAIN q = Fields /\ q.operation = "update" /\ q.content = c /\ q.target = f
        /\ q.base = {heads[f].revision} /\ q.expected = {HeadPair(f)}
        /\ q.status = "pending_approval" /\ q.requestedBy = who
    BY DEF Draft, NoProposal, Fields
  <2>2. Save(q) /\ HasHead(f)
    BY <1>6 DEF ProposeUpdate
  <2> HIDE DEF q
  <2>3. Composed(q)
    BY <1>1, <2>1, <2>2, HeadKnown, RevisingComposed, ContentTypes DEF Revising
  <2> QED BY <2>1, <2>2, <2>3
<1>7. ASSUME NEW f \in FamilyIds, NEW r \in RevisionIds, NEW s \in RevisionIds,
             ProposeRollback(f, r, s, who)
      PROVE  \E q : Plain(q)
  <2> DEFINE q == [Draft("rollback", who) EXCEPT
                     !.target = f, !.content = revisions[s].content,
                     !.base = {r}, !.expected = {<<f, r>>}, !.restore = s]
  <2>1. /\ DOMAIN q = Fields /\ q.operation = "rollback" /\ q.content = revisions[s].content
        /\ q.target = f /\ q.base = {r} /\ q.expected = {<<f, r>>}
        /\ q.status = "pending_approval" /\ q.requestedBy = who
    BY DEF Draft, NoProposal, Fields
  <2>2. Save(q) /\ Published(r) /\ revisions[r].family = f
    BY <1>7 DEF ProposeRollback
  <2>3. revisions[s].content \in ContentType
    BY <1>1 DEF RevisionsArePublished
  <2> HIDE DEF q
  <2>4. Composed(q)
    BY <2>1, <2>2, <2>3, RevisingComposed DEF Revising
  <2> QED BY <2>1, <2>2, <2>4
<1>8. ASSUME NEW f \in FamilyIds, NEW o \in StateChanges, NEW t \in FamilyIds \cup {None},
             ProposeStateChange(f, o, t, who)
      PROVE  \E q : Plain(q)
  <2> DEFINE content == [revisions[heads[f].revision].content EXCEPT !.to = now]
             q == [Draft(o, who) EXCEPT
                     !.target = f, !.content = content, !.base = {heads[f].revision},
                     !.expected = {HeadPair(f)} \cup
                                  (IF t # None THEN {HeadPair(t)} ELSE {}),
                     !.replacement = t,
                     !.key = IF t # None THEN <<"deprecate", o, f, t>> ELSE NoKey]
  <2>1. /\ DOMAIN q = Fields /\ q.operation = o /\ q.content = content
        /\ q.target = f /\ q.base = {heads[f].revision} /\ HeadPair(f) \in q.expected
        /\ q.status = "pending_approval" /\ q.requestedBy = who
    BY DEF Draft, NoProposal, Fields
  <2>2. Save(q) /\ HasHead(f)
    BY <1>8 DEF ProposeStateChange
  <2>3. content \in ContentType
    BY <1>1, <2>2, HeadKnown, ContentTypes DEF RevisionsArePublished
  <2>4. o \in Revising
    BY DEF Revising
  <2> HIDE DEF q, content
  <2>5. Composed(q)
    BY <1>1, <2>1, <2>2, <2>3, <2>4, HeadKnown, RevisingComposed
  <2> QED BY <2>1, <2>2, <2>5
<1>9. ASSUME NEW f \in FamilyIds, NEW t \in FamilyIds, NEW type, NEW prefix,
             ProposeLink(f, t, type, prefix, who)
      PROVE  \E q : Plain(q)
  <2>1. PICK s, d, key :
          Save([Draft("link", who) EXCEPT
             !.target = s, !.expected = {HeadPair(s), HeadPair(d)},
             !.relation = type, !.relationTarget = d, !.key = key])
    BY <1>9 DEF ProposeLink
  <2> DEFINE q == [Draft("link", who) EXCEPT
                     !.target = s, !.expected = {HeadPair(s), HeadPair(d)},
                     !.relation = type, !.relationTarget = d, !.key = key]
  <2>2. /\ DOMAIN q = Fields /\ q.operation = "link" /\ q.content = NoContent /\ q.base = {}
        /\ q.status = "pending_approval" /\ q.requestedBy = who
    BY DEF Draft, NoProposal, Fields
  <2> HIDE DEF q
  <2>3. Composed(q)
    BY <2>2, OpeningComposed, ContentTypes DEF Creations
  <2> QED BY <2>1, <2>2, <2>3 DEF q
<1> QED
  BY <1>3, <1>4, <1>5, <1>6, <1>7, <1>8, <1>9

(* A preview of a merge carries the heads of the families it merges.       *)
LEMMA MergeComposed ==
  ASSUME RevisionsArePublished, NEW q, DOMAIN q = Fields, q.operation = "merge",
         q.content \in ContentType,
         \A r \in q.base : Published(r) /\ <<revisions[r].family, r>> \in q.expected,
         \E r \in q.base : revisions[r].family = q.target
  PROVE  Composed(q)
BY DEF Composed, OperationNames, Revising, StateChanges, Creations, RevisionsArePublished, Published

LEMMA ProposeMergingComposed ==
  ASSUME Forking, ProposeMerging
  PROVE  (\E q : Drafts(q)) /\ UNCHANGED manifests
<1> DEFINE Plain(q) == Composed(q) /\ q.status \in {"pending_approval", "conflicted"}
                       /\ q.requestedBy \in Requesters /\ Save(q)
<1>1. RevisionsArePublished
  BY DEF Forking
<1>2. SUFFICES (\E q : Plain(q)) /\ UNCHANGED manifests
  BY ConsolidationAssumption DEF Drafts
<1>3. PICK who \in Requesters :
    \/ \E f \in FamilyIds, base \in SUBSET RevisionIds, c \in Contents,
          declared \in BOOLEAN : ProposeMerge(f, base, c, declared, who)
    \/ \E m \in ProposalIds : ProposeUnmerge(m, who)
    \/ \E f \in FamilyIds, c \in Contents, case \in conflicts :
         ProposeResolveConflict(f, c, case, who)
  BY DEF ProposeMerging
<1>4. ASSUME NEW f, NEW base, NEW c \in Contents, NEW declared,
             ProposeMerge(f, base, c, declared, who)
      PROVE  (\E q : Plain(q)) /\ UNCHANGED manifests
  <2> DEFINE status == IF Diverge(base) /\ ~declared THEN "conflicted" ELSE "pending_approval"
             expected == {<<revisions[r].family, r>> : r \in base}
             q == [Draft("merge", who) EXCEPT
                     !.status = status, !.target = f, !.content = c, !.base = base,
                     !.expected = expected]
  <2>1. /\ DOMAIN q = Fields /\ q.operation = "merge" /\ q.content = c /\ q.target = f
        /\ q.base = base /\ q.expected = expected
        /\ q.status = status /\ q.requestedBy = who
    BY DEF Draft, NoProposal, Fields
  <2>2. /\ Save(q) /\ UNCHANGED manifests /\ \A r \in base : Published(r)
        /\ \E r \in base : revisions[r].family = f
    BY <1>4 DEF ProposeMerge, PairsOf
  <2>3. status \in {"conflicted", "pending_approval"}
    OBVIOUS
  <2>4. \A r \in base : <<revisions[r].family, r>> \in expected
    OBVIOUS
  <2> HIDE DEF q, status, expected
  <2>5. Composed(q)
    BY <1>1, <2>1, <2>2, <2>4, MergeComposed, ContentTypes
  <2> QED BY <2>1, <2>2, <2>3, <2>5
<1>5. ASSUME NEW m \in ProposalIds, ProposeUnmerge(m, who)
      PROVE  (\E q : Plain(q)) /\ UNCHANGED manifests
  <2> DEFINE t == manifests[m].target
             r == manifests[m].revision
             q == [Draft("unmerge", who) EXCEPT
                     !.target = t, !.base = {r}, !.expected = {HeadPair(t)}, !.manifest = m]
  <2>1. /\ DOMAIN q = Fields /\ q.operation = "unmerge" /\ q.content = NoContent
        /\ q.target = t /\ q.base = {r} /\ q.expected = {HeadPair(t)} /\ q.manifest = m
        /\ q.status = "pending_approval" /\ q.requestedBy = who
    BY DEF Draft, NoProposal, Fields
  <2>2. Save(q) /\ UNCHANGED manifests /\ manifests[m] # NoManifest /\ heads[t].revision = r
    BY <1>5 DEF ProposeUnmerge, mergeVars
  <2>3. t \in FamilyIds /\ Published(r) /\ revisions[r].family = t
    BY <2>2 DEF Forking, ManifestsTell, Merged, Told
  <2>4. HeadPair(t) = <<t, r>> /\ r \in RevisionIds
    BY <2>2, <2>3 DEF HeadPair, Published
  <2> HIDE DEF q, t, r
  <2>5. Composed(q)
    BY <2>1, <2>2, <2>3, <2>4, ContentTypes
       DEF Composed, OperationNames, Revising, StateChanges, Creations
  <2> QED BY <2>1, <2>2, <2>5
<1>6. ASSUME NEW f \in FamilyIds, NEW c \in Contents, NEW case,
             ProposeResolveConflict(f, c, case, who)
      PROVE  (\E q : Plain(q)) /\ UNCHANGED manifests
  <2> DEFINE q == [Draft("resolve_conflict", who) EXCEPT
                     !.target = f, !.content = c, !.base = {heads[f].revision},
                     !.expected = {HeadPair(f)},
                     !.conflict = case.members, !.conflictVersion = case.version]
  <2>1. /\ DOMAIN q = Fields /\ q.operation = "resolve_conflict" /\ q.content = c
        /\ q.target = f /\ q.base = {heads[f].revision} /\ q.expected = {HeadPair(f)}
        /\ q.status = "pending_approval" /\ q.requestedBy = who
    BY DEF Draft, NoProposal, Fields
  <2>2. Save(q) /\ HasHead(f) /\ UNCHANGED manifests
    BY <1>6 DEF ProposeResolveConflict, mergeVars
  <2> HIDE DEF q
  <2>3. Composed(q)
    BY <1>1, <2>1, <2>2, HeadKnown, RevisingComposed, ContentTypes
  <2> QED BY <2>1, <2>2, <2>3
<1> QED
  BY <1>3, <1>4, <1>5, <1>6
-----------------------------------------------------------------------------
(* The runs of the consolidation.                                          *)

LEMMA LeastExists ==
  ASSUME NEW S, S \subseteq Nat, S # {}
  PROVE  \E x \in S : \A y \in S : x <= y
<1>1. PICK x \in S : \A y \in S : ~(<<y, x>> \in OpToRel(<, Nat))
  BY NatLessThanWellFounded, WFMin
<1>2. ASSUME NEW y \in S PROVE x <= y
  <2>1. ~(y < x)
    BY <1>1 DEF OpToRel
  <2>2. x \in Nat /\ y \in Nat
    OBVIOUS
  <2> QED BY <2>1, <2>2
<1> QED BY <1>2

(* The pair taken next is one of those listed.                             *)
LEMMA NextPairIsListed ==
  ASSUME NEW left, left # {}, \A x \in left : x[1] \in Nat /\ x[2] \in Nat
  PROVE  NextPair(left) \in left
<1> DEFINE firsts == {x[1] : x \in left}
<1>1. PICK a \in firsts : \A b \in firsts : a <= b
  <2>1. firsts \subseteq Nat /\ firsts # {}
    OBVIOUS
  <2> HIDE DEF firsts
  <2> QED BY <2>1, LeastExists
<1> DEFINE rest == {x \in left : x[1] = a}
           seconds == {x[2] : x \in rest}
<1>2. PICK c \in seconds : \A b \in seconds : c <= b
  <2>1. seconds \subseteq Nat /\ seconds # {}
    BY <1>1
  <2> HIDE DEF seconds
  <2> QED BY <2>1, LeastExists
<1>3. PICK x \in rest : x[2] = c
  BY <1>2
<1>4. ASSUME NEW y \in left PROVE x[1] < y[1] \/ (x[1] = y[1] /\ x[2] <= y[2])
  <2>1. x[1] = a /\ a <= y[1]
    BY <1>1, <1>3
  <2>2. y[1] = a => c <= y[2]
    BY <1>2
  <2> QED BY <1>3, <2>1, <2>2
<1> QED BY <1>3, <1>4 DEF NextPair

LEMMA ContinueLists ==
  ASSUME ListingsAreOfRevisions, NEW j \in Jobs, NEW left, left \subseteq jobs[j].left,
         Continue(j, left), UNCHANGED revisions
  PROVE  ListingsAreOfRevisions'
<1> DEFINE job == [jobs[j] EXCEPT !.left = left]
<1>1. DOMAIN jobs = Jobs /\ Lists(jobs[j])
  BY DEF ListingsAreOfRevisions
<1>2. jobs' = [jobs EXCEPT ![j] = job]
  BY DEF Continue
<1>3. DOMAIN job = DOMAIN IdleJob /\ job.left = left /\ job.phase = jobs[j].phase
  BY <1>1 DEF Lists, IdleJob
<1> HIDE DEF job
<1>4. Lists(job)
  BY <1>1, <1>3 DEF Lists
<1> QED
  BY <1>1, <1>2, <1>4 DEF ListingsAreOfRevisions, Lists, Published

LEMMA AnewLists ==
  ASSUME ListingsAreOfRevisions, NEW j \in Jobs, NEW job, Lists(job),
         jobs' = [jobs EXCEPT ![j] = job], UNCHANGED revisions
  PROVE  ListingsAreOfRevisions'
BY DEF ListingsAreOfRevisions, Lists, Published

LEMMA EndedLists ==
  ASSUME NEW status PROVE Lists([IdleJob EXCEPT !.status = status])
BY DEF Lists, IdleJob

LEMMA SubmitSaves ==
  ASSUME ListingsAreOfRevisions, NEW j \in Jobs, NEW left, left \subseteq jobs[j].left,
         NEW q, Composed(q), Suggestion(q), q.status \in {"pending_approval", "conflicted"},
         Submit(j, q, left)
  PROVE  (Drafts(q) \/ UNCHANGED ledgerVars) /\ ListingsAreOfRevisions'
<1>1. Drafts(q) \/ UNCHANGED ledgerVars
  BY DEF Submit, Drafts
<1>2. UNCHANGED revisions
  BY DEF Submit, Save, ledgerVars, canonical
<1>3. Continue(j, left) \/ Fail(j)
  BY DEF Submit
<1> QED
  BY <1>1, <1>2, <1>3, ContinueLists, AnewLists, EndedLists DEF Fail

(* What a revision that is still the head of its family says and is.       *)
LEMMA CurrentKnown ==
  ASSUME RevisionsArePublished, NEW r, Published(r)
  PROVE  /\ r \in RevisionIds /\ r \in Nat
         /\ revisions[r].family \in FamilyIds /\ revisions[r].content \in ContentType
         /\ heads[revisions[r].family].revision = r =>
              HeadPair(revisions[r].family) = <<revisions[r].family, r>>
BY DEF RevisionsArePublished, Published, HeadPair, RevisionIds

LEMMA ProposeExpirySaves ==
  ASSUME Forking, ListingsAreOfRevisions, NEW j \in Jobs, ProposeExpiry(j)
  PROVE  ((\E q : Drafts(q)) \/ UNCHANGED ledgerVars) /\ ListingsAreOfRevisions'
<1>1. Lists(jobs[j]) /\ RevisionsArePublished /\ now \in Nat
  BY DEF ListingsAreOfRevisions, Forking, RevisionsArePublished
<1>2. PICK r : r = Min(jobs[j].left)
  OBVIOUS
<1>3. r \in jobs[j].left /\ Published(r)
  <2>1. jobs[j].left # {} /\ \A x \in jobs[j].left : Published(x)
    BY <1>1 DEF ProposeExpiry, Lists
  <2>2. jobs[j].left \subseteq Nat
    BY <2>1 DEF Published, RevisionIds
  <2> QED BY <1>2, <2>1, <2>2, MinIsMember
<1>4. CASE Expired(r)
  <2> DEFINE f == revisions[r].family
             content == [revisions[heads[f].revision].content EXCEPT !.to = now]
             q == ExpiryOf(r)
  <2>1. heads[f].revision = r /\ f \in FamilyIds /\ r \in RevisionIds
    BY <1>1, <1>3, <1>4, CurrentKnown DEF Expired
  <2>2. /\ DOMAIN q = Fields /\ q.operation = "invalidate" /\ q.content = content
        /\ q.target = f /\ q.base = {r} /\ q.expected = {HeadPair(f)}
        /\ q.key = <<"expiry", r>> /\ q.status = "pending_approval"
    BY <2>1 DEF ExpiryOf, ExpiryKey, Draft, NoProposal, Fields
  <2>3. content \in ContentType
    BY <1>1, <1>3, <2>1, CurrentKnown, ContentTypes
  <2>4. Submit(j, q, jobs[j].left \ {r})
    BY <1>2, <1>4 DEF ProposeExpiry
  <2> HIDE DEF q, content
  <2>5. HeadPair(f) = <<f, r>>
    BY <1>1, <1>3, <2>1, CurrentKnown
  <2>6. Composed(q)
    BY <1>3, <2>1, <2>2, <2>3, <2>5, RevisingComposed DEF Revising, StateChanges
  <2>7. Suggestion(q)
    BY <2>1, <2>2 DEF Suggestion
  <2> QED BY <2>2, <2>4, <2>6, <2>7, SubmitSaves
<1>5. CASE ~Expired(r)
  <2>1. Continue(j, jobs[j].left \ {r}) /\ UNCHANGED ledgerVars
    BY <1>2, <1>5 DEF ProposeExpiry
  <2> QED BY <2>1, ContinueLists DEF ledgerVars
<1> QED BY <1>4, <1>5

(* The next pair of a run that has one.                                    *)
LEMMA PairKnown ==
  ASSUME Forking, ListingsAreOfRevisions, NEW j \in Jobs,
         jobs[j].phase = "pairs", jobs[j].left # {}
  PROVE  \E pair \in jobs[j].left :
           /\ pair = NextPair(jobs[j].left)
           /\ Published(pair[1]) /\ Published(pair[2]) /\ pair[1] < pair[2]
<1>1. \A x \in jobs[j].left : Published(x[1]) /\ Published(x[2]) /\ x[1] < x[2]
  BY DEF ListingsAreOfRevisions, Lists
<1>2. \A x \in jobs[j].left : x[1] \in Nat /\ x[2] \in Nat
  BY <1>1 DEF Published, RevisionIds
<1> QED BY <1>1, <1>2, NextPairIsListed

LEMMA ProposeRelatedSaves ==
  ASSUME Forking, ListingsAreOfRevisions, NEW j \in Jobs, ProposeRelated(j)
  PROVE  ((\E q : Drafts(q)) \/ UNCHANGED ledgerVars) /\ ListingsAreOfRevisions'
<1>1. jobs[j].phase = "pairs" /\ jobs[j].left # {}
  BY DEF ProposeRelated
<1>2. PICK left : left = jobs[j].left \ {NextPair(jobs[j].left)}
  OBVIOUS
<1>3. PICK f, t :
        \/ Refuse(j)
        \/ Continue(j, left) /\ UNCHANGED ledgerVars
        \/ Submit(j, [Draft("link", Worker) EXCEPT
                        !.target = f, !.expected = {HeadPair(f), HeadPair(t)},
                        !.relation = "RELATED_TO", !.relationTarget = t,
                        !.key = SuggestionKey("related", f, t)], left)
  BY <1>2 DEF ProposeRelated
<1>4. CASE Refuse(j)
  BY <1>4, AnewLists, EndedLists DEF Refuse, Fail, ledgerVars
<1>5. CASE Continue(j, left) /\ UNCHANGED ledgerVars
  BY <1>2, <1>5, ContinueLists DEF ledgerVars
<1>6. CASE Submit(j, [Draft("link", Worker) EXCEPT
                        !.target = f, !.expected = {HeadPair(f), HeadPair(t)},
                        !.relation = "RELATED_TO", !.relationTarget = t,
                        !.key = SuggestionKey("related", f, t)], left)
  <2> DEFINE q == [Draft("link", Worker) EXCEPT
                     !.target = f, !.expected = {HeadPair(f), HeadPair(t)},
                     !.relation = "RELATED_TO", !.relationTarget = t,
                     !.key = SuggestionKey("related", f, t)]
  <2>1. /\ DOMAIN q = Fields /\ q.operation = "link" /\ q.content = NoContent /\ q.base = {}
        /\ q.target = f /\ q.relationTarget = t /\ q.key = <<"related", f, t>>
        /\ q.status = "pending_approval"
    BY DEF Draft, NoProposal, Fields, SuggestionKey
  <2>2. Submit(j, q, left)
    BY <1>6
  <2> HIDE DEF q
  <2>3. Composed(q) /\ Suggestion(q)
    BY <2>1, OpeningComposed, ContentTypes DEF Suggestion
  <2> QED BY <1>2, <2>1, <2>2, <2>3, SubmitSaves
<1> QED BY <1>3, <1>4, <1>5, <1>6

LEMMA ProposeDuplicateSaves ==
  ASSUME Forking, ListingsAreOfRevisions, NEW j \in Jobs, ProposeDuplicate(j)
  PROVE  ((\E q : Drafts(q)) \/ UNCHANGED ledgerVars) /\ ListingsAreOfRevisions'
<1>1. jobs[j].phase = "pairs" /\ jobs[j].left # {}
  BY DEF ProposeDuplicate, Mergeable
<1>2. PICK pair \in jobs[j].left :
        /\ pair = NextPair(jobs[j].left)
        /\ Published(pair[1]) /\ Published(pair[2]) /\ pair[1] < pair[2]
  BY <1>1, PairKnown
<1>3. PICK r \in RevisionIds, s \in RevisionIds :
        /\ r = pair[1] /\ s = pair[2] /\ Published(r) /\ Published(s) /\ r < s
  BY <1>2 DEF Published
<1>4. PICK left : left = jobs[j].left \ {pair}
  OBVIOUS
<1> DEFINE q == MergeOf(r, s)
           f == revisions[r].family
           g == revisions[s].family
<1>5. \/ Continue(j, left) /\ UNCHANGED ledgerVars
      \/ heads[f].revision = r /\ heads[g].revision = s /\ Submit(j, q, left)
      \/ Refuse(j)
  BY <1>2, <1>3, <1>4 DEF ProposeDuplicate
<1>6. CASE Refuse(j)
  BY <1>6, AnewLists, EndedLists DEF Refuse, Fail, ledgerVars
<1>7. CASE Continue(j, left) /\ UNCHANGED ledgerVars
  BY <1>4, <1>7, ContinueLists DEF ledgerVars
<1>8. CASE heads[f].revision = r /\ heads[g].revision = s /\ Submit(j, q, left)
  <2>1. PICK t \in {r, s}, other \in {r, s} :
          /\ DOMAIN q = Fields /\ q.operation = "merge" /\ q.base = {r, s}
          /\ q.target = revisions[t].family /\ q.content = MergedContent(t, other)
          /\ q.expected = {HeadPair(f), HeadPair(g)} /\ q.key = <<"merge", r, s>>
          /\ q.status \in {"pending_approval", "conflicted"}
    <3> DEFINE t == IF Rank[f] <= Rank[g] THEN r ELSE s
               other == CHOOSE x \in {r, s} : x # t
    <3>1. r # s
      BY <1>3 DEF RevisionIds
    <3>2. t \in {r, s} /\ other \in {r, s}
      BY <3>1
    <3>3. q = [Draft("merge", Worker) EXCEPT
                 !.status = IF Diverge({r, s}) THEN "conflicted" ELSE "pending_approval",
                 !.target = revisions[t].family,
                 !.content = MergedContent(t, other), !.base = {r, s},
                 !.expected = {HeadPair(f), HeadPair(g)},
                 !.key = <<"merge", r, s>>]
      BY DEF MergeOf, SuggestionKey
    <3> HIDE DEF t, other, q
    <3> QED BY <3>2, <3>3 DEF Draft, NoProposal, Fields
  <2>2. RevisionsArePublished
    BY DEF Forking
  <2>3. MergedContent(t, other) \in ContentType
    <3>1. PICK kept \in ContentType : kept = revisions[t].content
      BY <1>3, <2>2, CurrentKnown
    <3>2. PICK more \in ContentType : more = revisions[other].content
      BY <1>3, <2>2, CurrentKnown
    <3>3. MergedContent(t, other) =
            [kept EXCEPT !.from = IF @ = None THEN more.from ELSE @,
                         !.to = IF @ = None THEN more.to ELSE @,
                         !.related = IF @ = NoAlias THEN more.related ELSE @]
      BY <3>1, <3>2 DEF MergedContent
    <3> QED BY <3>3 DEF ContentType
  <2>4. HeadPair(f) = <<f, r>> /\ HeadPair(g) = <<g, s>>
    BY <1>3, <1>8, <2>2, CurrentKnown
  <2> HIDE DEF q
  <2>5. Composed(q)
    BY <1>3, <2>1, <2>2, <2>3, <2>4, MergeComposed
  <2>6. Suggestion(q)
    BY <1>3, <2>1 DEF Suggestion
  <2> QED BY <1>4, <1>8, <2>1, <2>5, <2>6, SubmitSaves
<1> QED BY <1>5, <1>6, <1>7, <1>8

(* A run only saves drafts, if anything.                                   *)
LEMMA ConsolidateSaves ==
  ASSUME Forking, ListingsAreOfRevisions, NEW j \in Jobs, Consolidate(j)
  PROVE  /\ (\E q : Drafts(q)) \/ UNCHANGED ledgerVars
         /\ UNCHANGED manifests
         /\ ListingsAreOfRevisions'
<1>1. UNCHANGED manifests
  BY DEF Consolidate, Start, ProposeExpiry, ListPairs, ProposeRelated, ProposeDuplicate,
         PassOver, Finish, vars, mergeVars
<1>2. DOMAIN jobs = Jobs /\ Lists(jobs[j])
  BY DEF ListingsAreOfRevisions
<1>3. CASE Start(j)
  <2> DEFINE job == [phase |-> "expire", status |-> "running", began |-> now, related |-> {},
                     left |-> {r \in RevisionIds : Published(r)}]
  <2>1. jobs' = [jobs EXCEPT ![j] = job] /\ UNCHANGED ledgerVars
    BY <1>3 DEF Start, vars
  <2>2. Lists(job)
    BY DEF Lists, IdleJob
  <2> HIDE DEF job
  <2> QED BY <1>1, <2>1, <2>2, AnewLists DEF ledgerVars
<1>4. CASE ListPairs(j)
  <2> DEFINE active == {EffectiveNow(f) : f \in FamilyIds} \ {None}
             listed == {pair \in active \X active : pair[1] < pair[2]}
             related == {{x.source, x.target} : x \in {z \in relations : z.state = "active"}}
             job == [jobs[j] EXCEPT !.phase = "pairs", !.left = listed, !.related = related]
  <2>1. jobs' = [jobs EXCEPT ![j] = job] /\ UNCHANGED ledgerVars
    BY <1>4 DEF ListPairs, vars
  <2>2. \A r \in active : Published(r)
    <3>1. now \in Nat /\ \A r \in RevisionIds :
            revisions[r].content.from \in Nat /\ revisions[r].from \in Nat
      BY DEF Forking, RevisionsArePublished, ContentType
    <3> QED BY <3>1, EffectiveType
  <2> HIDE DEF active
  <2>3. \A x \in listed : Published(x[1]) /\ Published(x[2]) /\ x[1] < x[2]
    BY <2>2
  <2>4. DOMAIN job = DOMAIN IdleJob /\ job.phase = "pairs" /\ job.left = listed
    BY <1>2 DEF Lists, IdleJob
  <2> HIDE DEF job, listed
  <2>5. Lists(job)
    BY <2>3, <2>4 DEF Lists
  <2> QED BY <1>1, <2>1, <2>5, AnewLists DEF ledgerVars
<1>5. CASE PassOver(j)
  BY <1>1, <1>5, ContinueLists DEF PassOver, vars, ledgerVars
<1>6. CASE Finish(j)
  BY <1>1, <1>6, AnewLists, EndedLists DEF Finish, vars, ledgerVars
<1> QED
  BY <1>1, <1>3, <1>4, <1>5, <1>6, ProposeExpirySaves, ProposeRelatedSaves,
     ProposeDuplicateSaves DEF Consolidate
-----------------------------------------------------------------------------
(* What a step is, seen from the merges.                                   *)

(* Nothing that is published changes: a decision, a draft, the clock.      *)
Proceeds(p) ==
  /\ DOMAIN proposals'[p] = DOMAIN proposals[p]
  /\ Draws(proposals'[p]) = Draws(proposals[p])
  /\ proposals'[p].status = "none" <=> proposals[p].status = "none"
  /\ proposals'[p].status = "applied" <=> proposals[p].status = "applied"

Opens(p) ==
  /\ proposals[p].status = "none"
  /\ Composed(proposals'[p])
  /\ proposals'[p].status \in {"pending_approval", "conflicted"}

Quiet ==
  /\ UNCHANGED <<canonical, manifests>>
  /\ now' \in {now, now + 1}
  /\ DOMAIN proposals' = ProposalIds
  /\ \A p \in ProposalIds : Proceeds(p) \/ Opens(p)

(* A proposal is applied.                                                  *)
Consumed(p) ==
  /\ p \in ProposalIds /\ Applicable(p) /\ Composed(proposals[p])
  /\ now \in Nat /\ now' = now + 1
  /\ DOMAIN proposals' = ProposalIds
  /\ \A x \in ProposalIds : /\ DOMAIN proposals'[x] = DOMAIN proposals[x]
                            /\ Draws(proposals'[x]) = Draws(proposals[x])
                            /\ x # p => proposals'[x] = proposals[x]
  /\ proposals'[p].status = "applied"

(* What does not change about a revision.                                  *)
Record(r) == <<DOMAIN r, r.family, r.version, r.parents, r.content, r.proposal, r.from>>

(* A recorded window that was open or still to end ends now.               *)
EndsNow(r) ==
  /\ revisions[r].to = None \/ revisions[r].to > now
  /\ revisions'[r].to = now

(* Of the windows a publication ends those of its parents.                 *)
EndsParents(p, new) ==
  /\ revisions'[new].to = None
  /\ \A r \in RevisionIds : r # new =>
       \/ revisions'[r].to = revisions[r].to
       \/ r \in proposals[p].base /\ EndsNow(r)

EndsMerge(man) ==
  \A r \in RevisionIds :
    \/ revisions'[r].to = revisions[r].to
    \/ r = man.revision /\ EndsNow(r)

(* A revision is published and made the head of its family.                *)
Publishes(p, f, new, retired) ==
  /\ Consumed(p)
  /\ f \in FamilyIds \ retired
  /\ new \in RevisionIds /\ ~Published(new)
  /\ \A r \in RevisionIds : r # new => Record(revisions'[r]) = Record(revisions[r])
  /\ DOMAIN revisions'[new] = DOMAIN NoRevision
  /\ revisions'[new].family = f /\ revisions'[new].version \in Nat \ {0}
  /\ revisions'[new].parents = proposals[p].base
  /\ revisions'[new].content = proposals[p].content
  /\ revisions'[new].proposal = p /\ revisions'[new].from = now
  /\ DOMAIN heads' = FamilyIds
  /\ heads'[f] = [revision |-> new, sequence |-> sequence + 1]
  /\ \A g \in FamilyIds : g # f => heads'[g] = IF g \in retired THEN NoHead ELSE heads[g]
  /\ transitions' = Append(transitions, NewTransition(p, new))
  /\ NewTransition(p, new) \in Transitions
  /\ EndsParents(p, new)

LEMMA SavingIsQuiet ==
  ASSUME Forking, NEW q, Drafts(q), UNCHANGED manifests
  PROVE  Quiet
<1> DEFINE free == Min(FreeProposals)
<1>1. free \in ProposalIds /\ proposals[free].status = "none"
  <2>1. free \in FreeProposals
    BY MinIsMember DEF Drafts, Save, FreeProposals, ProposalIds
  <2> QED BY <2>1 DEF FreeProposals
<1>2. proposals' = [proposals EXCEPT ![free] = q] /\ UNCHANGED <<now, canonical>>
  BY DEF Drafts, Save
<1>3. DOMAIN proposals = ProposalIds
  BY DEF Forking, PreviewsAreComposed
<1> HIDE DEF free
<1>4. Opens(free)
  BY <1>1, <1>2, <1>3 DEF Opens, Drafts
<1>5. ASSUME NEW p \in ProposalIds, p # free PROVE Proceeds(p)
  BY <1>2, <1>3, <1>5 DEF Proceeds
<1> QED
  BY <1>2, <1>3, <1>4, <1>5 DEF Quiet

LEMMA StatusProceeds ==
  ASSUME Forking, NEW p \in ProposalIds, NEW status, proposals[p].status \notin {"none", "applied"},
         status \notin {"none", "applied"},
         proposals' = [proposals EXCEPT ![p].status = status],
         UNCHANGED <<now, canonical, manifests>>
  PROVE  Quiet /\ \A x \in ProposalIds : Proceeds(x)
<1>1. DOMAIN proposals = ProposalIds /\ DOMAIN proposals[p] = Fields
  BY DEF Forking, PreviewsAreComposed, Composed
<1> DEFINE q == [proposals[p] EXCEPT !.status = status]
<1>2. DOMAIN q = Fields /\ Draws(q) = Draws(proposals[p]) /\ q.status = status
  BY <1>1 DEF Draws, Fields, NoProposal
<1>3. proposals' = [proposals EXCEPT ![p] = q]
  OBVIOUS
<1> HIDE DEF q
<1>4. ASSUME NEW x \in ProposalIds PROVE Proceeds(x)
  BY <1>1, <1>2, <1>3 DEF Proceeds
<1> QED
  BY <1>1, <1>3, <1>4 DEF Quiet

LEMMA DecidingIsQuiet ==
  ASSUME Forking, Decide, UNCHANGED manifests
  PROVE  Quiet /\ \A x \in ProposalIds : Proceeds(x)
<1>1. PICK p \in ProposalIds, status \in {"approved", "rejected", "expired", "stale"} :
        /\ proposals[p].status \in {"pending_approval", "approved"}
        /\ proposals' = [proposals EXCEPT ![p].status = status]
        /\ UNCHANGED <<now, canonical>>
  BY DEF Decide, Approve, Reject, Expire, Stale
<1> QED
  BY <1>1, StatusProceeds

LEMMA UntouchedIsQuiet ==
  ASSUME Forking, UNCHANGED <<canonical, proposals, manifests>>, now' \in {now, now + 1}
  PROVE  Quiet
BY DEF Quiet, Proceeds, Forking, PreviewsAreComposed

LEMMA ConsumeConsumes ==
  ASSUME Forking, NEW p \in ProposalIds, Applicable(p), NEW r, Consume(p, r)
  PROVE  Consumed(p)
<1>1. DOMAIN proposals = ProposalIds /\ Composed(proposals[p]) /\ DOMAIN proposals[p] = Fields
  BY DEF Forking, PreviewsAreComposed, Composed, Applicable
<1> DEFINE q == [proposals[p] EXCEPT !.status = "applied", !.appliedRevision = r]
<1>2. proposals' = [proposals EXCEPT ![p] = q] /\ now' = now + 1
  BY <1>1 DEF Consume
<1>3. DOMAIN q = Fields /\ Draws(q) = Draws(proposals[p]) /\ q.status = "applied"
  BY <1>1 DEF Draws, Fields, NoProposal
<1> HIDE DEF q
<1>4. now \in Nat
  BY DEF Forking, RevisionsArePublished
<1> QED
  BY <1>1, <1>2, <1>3, <1>4 DEF Consumed
-----------------------------------------------------------------------------
(* What a publication writes.                                              *)

LEMMA NewVersion ==
  ASSUME NEW base \in SUBSET RevisionIds, \A r \in base : revisions[r].version \in Nat
  PROVE  NextVersion(base) \in Nat \ {0}
<1>1. CASE base = {}
  BY <1>1 DEF NextVersion
<1>2. CASE base # {}
  <2> DEFINE versions == {revisions[r].version : r \in base}
  <2>1. IsFiniteSet(base)
    <3>1. IsFiniteSet(RevisionIds)
      BY FS_Interval, BoundsAssumption DEF RevisionIds
    <3> QED BY <3>1, FS_Subset
  <2>2. IsFiniteSet(versions)
    <3> DEFINE version == [r \in base |-> revisions[r].version]
    <3>1. version \in Surjection(base, versions)
      BY DEF Surjection
    <3> HIDE DEF version, versions
    <3> QED BY <2>1, <3>1, FS_Surjection
  <2>3. versions \subseteq Nat /\ versions # {}
    BY <1>2
  <2> HIDE DEF versions
  <2>4. Max(versions) \in Nat
    BY <2>2, <2>3, MaxIsMember
  <2> QED BY <1>2, <2>4 DEF NextVersion, versions
<1> QED BY <1>1, <1>2

(* Whatever is applied builds on heads, and retires nothing but them.      *)
LEMMA BaseKnown ==
  ASSUME Forking, NEW p \in ProposalIds, Applicable(p)
  PROVE  /\ Composed(proposals[p])
         /\ \A r \in proposals[p].base :
              /\ Published(r) /\ r \in RevisionIds
              /\ revisions[r].family \in FamilyIds
              /\ heads[revisions[r].family].revision = r
<1>1. Composed(proposals[p])
  BY DEF Forking, PreviewsAreComposed, Applicable
<1>2. proposals[p].operation \in
        Creations \cup {"link"} \cup Revising \cup {"resolve_conflict", "unmerge"} \cup {"merge"}
  BY <1>1 DEF Composed, OperationNames
<1>3. \A r \in proposals[p].base :
        Published(r) /\ revisions[r].family \in FamilyIds
        /\ <<revisions[r].family, r>> \in proposals[p].expected
  BY <1>1, <1>2 DEF Composed
<1> QED
  BY <1>1, <1>3 DEF Applicable, HeadsMatch, Published

LEMMA CommitPublishes ==
  ASSUME Forking, NEW p \in ProposalIds, Applicable(p), NEW retired, NEW f \in FamilyIds \ retired,
         NEW rows, NEW asserted, NEW events, Commit(p, f, rows, retired, asserted, events)
  PROVE  \E new \in RevisionIds :
           /\ new = Min(FreeRevisions)
           /\ Publishes(p, f, new, retired)
           /\ aliases' = rows
           /\ \A r \in proposals[p].base : Published(r) /\ heads[revisions[r].family].revision = r
<1>1. PICK new \in RevisionIds : new = Min(FreeRevisions) /\ revisions[new].version = 0
  <2>1. Min(FreeRevisions) \in FreeRevisions
    BY MinIsMember DEF Commit, FreeRevisions, RevisionIds
  <2> QED BY <2>1 DEF FreeRevisions
<1>2. ~Published(new)
  BY <1>1 DEF Published
<1>3. /\ PublishRevision(p, f, new) /\ Consume(p, new) /\ aliases' = rows
      /\ heads' = [g \in FamilyIds |->
           IF g = f THEN [revision |-> new, sequence |-> sequence + 1]
           ELSE IF g \in retired THEN NoHead ELSE heads[g]]
      /\ transitions' = Append(transitions, NewTransition(p, new))
  BY <1>1 DEF Commit
<1>4. Consumed(p)
  BY <1>3, ConsumeConsumes
<1>5. /\ Composed(proposals[p])
      /\ \A r \in proposals[p].base : Published(r) /\ r \in RevisionIds
                                      /\ heads[revisions[r].family].revision = r
  BY BaseKnown
<1>6. \A r \in RevisionIds : revisions[r].version \in Nat /\ DOMAIN revisions[r] = DOMAIN NoRevision
  BY DEF Forking, RevisionsArePublished
<1>7. NextVersion(proposals[p].base) \in Nat \ {0}
  BY <1>5, <1>6, NewVersion
<1>8. ASSUME NEW r \in RevisionIds, r # new PROVE Record(revisions'[r]) = Record(revisions[r])
  <2>1. revisions'[r] \in {revisions[r], [revisions[r] EXCEPT !.to = now]}
    BY <1>3, <1>8 DEF PublishRevision
  <2>2. DOMAIN revisions[r] = DOMAIN NoRevision
    BY <1>6
  <2> QED BY <2>1, <2>2 DEF Record, NoRevision
<1>9. revisions'[new] = NewRevision(p, f)
  BY <1>3 DEF PublishRevision
<1>10. /\ DOMAIN revisions'[new] = DOMAIN NoRevision
       /\ revisions'[new].family = f /\ revisions'[new].version \in Nat \ {0}
       /\ revisions'[new].parents = proposals[p].base
       /\ revisions'[new].content = proposals[p].content
       /\ revisions'[new].proposal = p /\ revisions'[new].from = now
  BY <1>7, <1>9 DEF NewRevision, NoRevision
<1>11. NewTransition(p, new) \in Transitions
  <2>1. TargetState(proposals[p].operation) \in RevisionStates
    BY DEF TargetState, RevisionStates
  <2>2. now \in Nat /\ proposals[p].base \subseteq RevisionIds
    BY <1>4, <1>5 DEF Consumed
  <2> QED BY <2>1, <2>2 DEF NewTransition, Transitions
<1>12. /\ DOMAIN heads' = FamilyIds
       /\ heads'[f] = [revision |-> new, sequence |-> sequence + 1]
       /\ \A g \in FamilyIds : g # f => heads'[g] = IF g \in retired THEN NoHead ELSE heads[g]
  BY <1>3
<1>13. EndsParents(p, new)
  <2>1. revisions'[new].to = None
    BY <1>9 DEF NewRevision
  <2>2. ASSUME NEW r \in RevisionIds, r # new
        PROVE  \/ revisions'[r].to = revisions[r].to
               \/ r \in proposals[p].base /\ EndsNow(r)
    <3>1. CASE Closes(p, r)
      <4>1. revisions'[r] = [revisions[r] EXCEPT !.to = now]
        BY <1>3, <2>2, <3>1 DEF PublishRevision
      <4>2. revisions'[r].to = now
        BY <1>6, <4>1 DEF NoRevision
      <4> QED BY <3>1, <4>2 DEF Closes, EndsNow
    <3>2. CASE ~Closes(p, r)
      BY <1>3, <2>2, <3>2 DEF PublishRevision
    <3> QED BY <3>1, <3>2
  <2> QED BY <2>1, <2>2 DEF EndsParents
<1> QED
  BY <1>1, <1>2, <1>3, <1>4, <1>5, <1>8, <1>10, <1>11, <1>12, <1>13 DEF Publishes

(* A publication that is no merge: it founds a family or revises one.      *)
Publishing(p, f, new) ==
  /\ Publishes(p, f, new, {})
  /\ proposals[p].operation \notin {"link", "merge", "unmerge"}
  /\ UNCHANGED manifests
  /\ families[f].state \in {"none", "active"}
  /\ DOMAIN families' = FamilyIds
  /\ DOMAIN families'[f] = DOMAIN NoFamily /\ families'[f].state = "active"
  /\ families[f].state = "active" => families'[f] = families[f]
  /\ \A g \in FamilyIds : g # f => families'[g] = families[g]
  /\ aliases' = aliases \cup {AliasRow(families'[f].legacy, f)}
  /\ \A r \in proposals[p].base : /\ Published(r) /\ revisions[r].family = f
                                  /\ heads[f].revision = r

LEMMA PublishPublishes ==
  ASSUME Forking, NEW p \in ProposalIds, Applicable(p), NEW f \in FamilyIds, NEW a,
         Publish(p, f, a)
  PROVE  \E new \in RevisionIds :
           /\ Publishes(p, f, new, {}) /\ aliases' = aliases \cup {AliasRow(a, f)}
           /\ \A r \in proposals[p].base : Published(r) /\ heads[revisions[r].family].revision = r
BY CommitPublishes DEF Publish

LEMMA CreatingPublishes ==
  ASSUME Forking, NEW p \in ProposalIds, ApplyCreate(p), UNCHANGED manifests
  PROVE  \E f \in FamilyIds, new \in RevisionIds : Publishing(p, f, new)
<1>1. PICK f \in FamilyIds : f = Min(FreeFamilies) /\ families[f].state = "none"
  <2>1. Min(FreeFamilies) \in FreeFamilies
    BY MinIsMember DEF ApplyCreate, FreeFamilies, FamilyIds
  <2> QED BY <2>1 DEF FreeFamilies
<1>2. PICK a : a = IF proposals[p].legacy = NoAlias THEN f ELSE proposals[p].legacy
  OBVIOUS
<1> DEFINE family == [state |-> "active", legacy |-> a, mergedInto |-> None]
<1>3. /\ Applicable(p) /\ proposals[p].operation \in Creations
      /\ families' = [families EXCEPT ![f] = family]
      /\ Publish(p, f, a)
  BY <1>1, <1>2 DEF ApplyCreate
<1>4. DOMAIN families = FamilyIds
  BY DEF Forking, FamiliesAreNamed, NamedFamily, NamingRow
<1>5. DOMAIN family = DOMAIN NoFamily /\ family.state = "active" /\ family.legacy = a
  BY DEF NoFamily
<1> HIDE DEF family
<1>6. PICK new \in RevisionIds :
        /\ Publishes(p, f, new, {}) /\ aliases' = aliases \cup {AliasRow(a, f)}
        /\ \A r \in proposals[p].base : Published(r) /\ heads[revisions[r].family].revision = r
  BY <1>3, PublishPublishes
<1>7. proposals[p].base = {}
  BY <1>3, BaseKnown DEF Composed
<1> QED
  BY <1>1, <1>3, <1>4, <1>5, <1>6, <1>7 DEF Publishing, Creations

LEMMA RevisingPublishes ==
  ASSUME Forking, NEW p \in ProposalIds, UNCHANGED manifests, Applicable(p),
         proposals[p].operation \in Revising \cup {"resolve_conflict"},
         families[proposals[p].target].state = "active", UNCHANGED families,
         Publish(p, proposals[p].target, families[proposals[p].target].legacy)
  PROVE  \E f \in FamilyIds, new \in RevisionIds : Publishing(p, f, new)
<1>1. PICK f \in FamilyIds : f = proposals[p].target
  BY BaseKnown DEF Composed
<1>2. PICK new \in RevisionIds :
        /\ Publishes(p, f, new, {}) /\ aliases' = aliases \cup {AliasRow(families[f].legacy, f)}
        /\ \A r \in proposals[p].base : Published(r) /\ heads[revisions[r].family].revision = r
  BY <1>1, PublishPublishes
<1>3. DOMAIN families = FamilyIds /\ DOMAIN families[f] = DOMAIN NoFamily
  BY DEF Forking, FamiliesAreNamed, NamedFamily, NamingRow
<1>4. proposals[p].operation \notin {"link", "merge", "unmerge"}
  BY DEF Revising, StateChanges
<1>5. \A r \in proposals[p].base : revisions[r].family = f
  <2>1. Composed(proposals[p])
    BY BaseKnown
  <2>2. \E r \in RevisionIds : proposals[p].base = {r} /\ revisions[r].family = proposals[p].target
    BY <2>1 DEF Composed
  <2> QED BY <1>1, <2>2
<1> QED
  BY <1>1, <1>2, <1>3, <1>4, <1>5 DEF Publishing

(* A merge.                                                                *)
Merging(p, f, new, sources) ==
  /\ Publishes(p, f, new, sources)
  /\ proposals[p].operation = "merge"
  /\ sources \subseteq FamilyIds \ {f}
  /\ \A g \in sources \cup {f} : families[g].state = "active"
  /\ DOMAIN families' = FamilyIds
  /\ \A g \in FamilyIds : families'[g] =
       IF g \in sources THEN [families[g] EXCEPT !.state = "merged", !.mergedInto = f]
       ELSE families[g]
  /\ \E rows : /\ rows = aliases \cup {AliasRow(families[f].legacy, f)}
               /\ aliases' = RedirectedAliases(rows, sources, f)
               /\ manifests' = [manifests EXCEPT ![p] = Manifest(p, f, sources, rows, new)]
  /\ \A r \in proposals[p].base : /\ Published(r) /\ revisions[r].family \in sources \cup {f}
                                  /\ heads[revisions[r].family].revision = r

LEMMA MergingPublishes ==
  ASSUME NEW p, NEW f, NEW new, NEW sources, Merging(p, f, new, sources)
  PROVE  Publishes(p, f, new, sources) /\ Consumed(p)
<1>1. Publishes(p, f, new, sources)
  BY DEF Merging
<1> QED BY <1>1 DEF Publishes

LEMMA PublishingPublishes ==
  ASSUME NEW p, NEW f, NEW new, Publishing(p, f, new)
  PROVE  Publishes(p, f, new, {}) /\ Consumed(p)
<1>1. Publishes(p, f, new, {})
  BY DEF Publishing
<1> QED BY <1>1 DEF Publishes

LEMMA ApplyMergeMerges ==
  ASSUME Forking, NEW p \in ProposalIds, ApplyMerge(p)
  PROVE  \E f \in FamilyIds, new \in RevisionIds : \E sources : Merging(p, f, new, sources)
<1>1. /\ Applicable(p) /\ proposals[p].operation = "merge"
      /\ families[proposals[p].target].state = "active"
  BY DEF ApplyMerge
<1>2. /\ Composed(proposals[p])
      /\ \A r \in proposals[p].base :
           /\ Published(r) /\ revisions[r].family \in FamilyIds
           /\ heads[revisions[r].family].revision = r
  BY <1>1, BaseKnown
<1>3. PICK f \in FamilyIds : f = proposals[p].target
  BY <1>1, <1>2 DEF Composed
<1>4. PICK sources : sources = {revisions[r].family : r \in proposals[p].base} \ {f}
  OBVIOUS
<1>5. PICK rows : rows = aliases \cup {AliasRow(families[f].legacy, f)}
  OBVIOUS
<1>6. /\ families' = [g \in FamilyIds |->
           IF g \in sources THEN [families[g] EXCEPT !.state = "merged", !.mergedInto = f]
           ELSE families[g]]
      /\ manifests' = [manifests EXCEPT ![p] = Manifest(p, f, sources, rows, Min(FreeRevisions))]
      /\ \E asserted, events :
           Commit(p, f, RedirectedAliases(rows, sources, f), sources, asserted, events)
  BY <1>3, <1>4, <1>5 DEF ApplyMerge
<1>7. f \in FamilyIds \ sources
  BY <1>4
<1>8. PICK new \in RevisionIds :
        /\ new = Min(FreeRevisions) /\ Publishes(p, f, new, sources)
        /\ aliases' = RedirectedAliases(rows, sources, f)
  <2>1. PICK asserted, events :
          Commit(p, f, RedirectedAliases(rows, sources, f), sources, asserted, events)
    BY <1>6
  <2>2. PICK moved : moved = RedirectedAliases(rows, sources, f)
    OBVIOUS
  <2>3. Commit(p, f, moved, sources, asserted, events)
    BY <2>1, <2>2
  <2>4. \E new \in RevisionIds :
          new = Min(FreeRevisions) /\ Publishes(p, f, new, sources) /\ aliases' = moved
    BY <1>1, <1>7, <2>3, CommitPublishes
  <2> QED BY <2>2, <2>4
<1>9. \A g \in sources \cup {f} : families[g].state = "active"
  <2>1. ASSUME NEW r \in proposals[p].base PROVE families[revisions[r].family].state = "active"
    <3>1. HasHead(revisions[r].family)
      BY <1>2 DEF HasHead, Published, RevisionIds, None
    <3> QED BY <1>2, <3>1 DEF Forking, FamiliesAreNamed, NamedFamily, NamingRow
  <2> QED BY <1>1, <1>3, <1>4, <2>1
<1>10. /\ sources \subseteq FamilyIds \ {f}
       /\ \A r \in proposals[p].base : revisions[r].family \in sources \cup {f}
  BY <1>2, <1>4
<1>11. /\ DOMAIN families' = FamilyIds
       /\ \A g \in FamilyIds : families'[g] =
            IF g \in sources THEN [families[g] EXCEPT !.state = "merged", !.mergedInto = f]
            ELSE families[g]
  BY <1>6
<1>12. \E rs : /\ rs = aliases \cup {AliasRow(families[f].legacy, f)}
               /\ aliases' = RedirectedAliases(rs, sources, f)
               /\ manifests' = [manifests EXCEPT ![p] = Manifest(p, f, sources, rs, new)]
  <2>1. /\ aliases' = RedirectedAliases(rows, sources, f)
        /\ manifests' = [manifests EXCEPT ![p] = Manifest(p, f, sources, rows, new)]
    BY <1>6, <1>8
  <2> QED BY <1>5, <2>1
<1>13. Merging(p, f, new, sources)
  <2>1. \A r \in proposals[p].base : /\ Published(r) /\ revisions[r].family \in sources \cup {f}
                                    /\ heads[revisions[r].family].revision = r
    BY <1>2, <1>10
  <2>2. Publishes(p, f, new, sources) /\ proposals[p].operation = "merge"
    BY <1>1, <1>8
  <2> HIDE <1>1, <1>2, <1>6, <1>8
  <2> QED BY <1>9, <1>10, <1>11, <1>12, <2>1, <2>2 DEF Merging
<1> QED
  BY <1>13

(* A merge is undone.                                                      *)
Unmerging(p, m, man) ==
  /\ Consumed(p)
  /\ proposals[p].operation = "unmerge" /\ proposals[p].manifest = m
  /\ Merged(m) /\ man = manifests[m] /\ UNCHANGED manifests
  /\ heads[man.target].revision = man.revision
  /\ \A g \in man.sources : families[g].state = "merged"
  /\ families[man.target].state = "active"
  /\ AliasRowsOf(aliases, Names(man)) = ExpectedAliases(man)
  /\ \A r \in RevisionIds : Record(revisions'[r]) = Record(revisions[r])
  /\ DOMAIN heads' = FamilyIds /\ DOMAIN families' = FamilyIds
  /\ \A g \in FamilyIds \ Affected(man) : heads'[g] = heads[g] /\ families'[g] = families[g]
  /\ \A g \in Affected(man) :
       /\ heads'[g].sequence = sequence + 1
       /\ \E x \in man.heads : x.family = g /\ heads'[g].revision = x.revision
       /\ \E x \in man.families : x.family = g /\ families'[g] = x.record
  /\ aliases' = (aliases \ AliasRowsOf(aliases, Names(man))) \cup man.aliases
  /\ transitions' = transitions \o
       << [from |-> {man.revision}, to |-> {man.revision}, state |-> "invalidated", at |-> now],
          [from |-> {}, to |-> Befores(man), state |-> "active", at |-> now] >>
  /\ EndsMerge(man)

LEMMA ApplyUnmergeUndoes ==
  ASSUME Forking, NEW p \in ProposalIds, ApplyUnmerge(p)
  PROVE  \E m \in ProposalIds : \E man : Unmerging(p, m, man)
<1>1. Applicable(p) /\ proposals[p].operation = "unmerge"
  BY DEF ApplyUnmerge
<1>2. PICK m \in ProposalIds : m = proposals[p].manifest /\ Merged(m)
  BY <1>1, BaseKnown DEF Composed, Merged
<1>3. PICK man : man = manifests[m]
  OBVIOUS
<1>4. Told(m, man)
  BY <1>2, <1>3 DEF Forking, ManifestsTell
<1>5. /\ UnmergeMatches(m) /\ heads' = RestoredHeads(man)
      /\ revisions' = [revisions EXCEPT ![man.revision].to =
           IF @ = None \/ @ > now THEN now ELSE @]
      /\ families' = [g \in FamilyIds |->
           IF g \in Affected(man) THEN (CHOOSE x \in man.families : x.family = g).record
           ELSE families[g]]
      /\ aliases' = (aliases \ AliasRowsOf(aliases, Names(man))) \cup man.aliases
      /\ transitions' = transitions \o Undoing(man)
      /\ Consume(p, Before(man, man.target)) /\ UNCHANGED mergeVars
  <2> DEFINE m0 == proposals[p].manifest
             man0 == manifests[m0]
  <2>1. /\ UnmergeMatches(m0) /\ heads' = RestoredHeads(man0)
        /\ revisions' = [revisions EXCEPT ![man0.revision].to =
             IF @ = None \/ @ > now THEN now ELSE @]
        /\ families' = [g \in FamilyIds |->
             IF g \in Affected(man0) THEN (CHOOSE x \in man0.families : x.family = g).record
             ELSE families[g]]
        /\ aliases' = (aliases \ AliasRowsOf(aliases, Names(man0))) \cup man0.aliases
        /\ transitions' = transitions \o Undoing(man0)
        /\ Consume(p, Before(man0, man0.target)) /\ UNCHANGED mergeVars
    BY DEF ApplyUnmerge, Withdrawn, Affected, Names
  <2>2. m0 = m /\ man0 = man
    BY <1>2, <1>3
  <2> HIDE DEF m0, man0
  <2> QED BY <2>1, <2>2
<1>6. Consumed(p)
  BY <1>1, <1>5, ConsumeConsumes
<1>7. /\ heads[man.target].revision = man.revision
      /\ \A x \in man.families :
           families[x.family] =
             IF x.family \in man.sources
             THEN [x.record EXCEPT !.state = "merged", !.mergedInto = man.target]
             ELSE x.record
      /\ AliasRowsOf(aliases, Names(man)) = ExpectedAliases(man)
  BY <1>3, <1>5 DEF UnmergeMatches, Names
<1>8. \A g \in Affected(man) : \E x \in man.heads : x.family = g /\ Before(man, g) = x.revision
  BY <1>4 DEF Told, Before
<1>9. \A g \in Affected(man) :
        \E x \in man.families : x.family = g /\ (CHOOSE y \in man.families : y.family = g) = x
  BY <1>4 DEF Told
<1>10. \A g \in man.sources : families[g].state = "merged"
  <2> SUFFICES ASSUME NEW g \in man.sources PROVE families[g].state = "merged"
    OBVIOUS
  <2>1. PICK x \in man.families : x.family = g /\ DOMAIN x.record = DOMAIN NoFamily
    BY <1>4 DEF Told, Affected
  <2>2. families[g] = [x.record EXCEPT !.state = "merged", !.mergedInto = man.target]
    BY <1>7, <2>1
  <2> QED BY <2>1, <2>2 DEF NoFamily
<1>11. families[man.target].state = "active"
  <2>1. PICK x \in man.families : x.family = man.target /\ x.record.state = "active"
    BY <1>4 DEF Told, Affected
  <2>2. man.target \notin man.sources
    BY <1>4 DEF Told
  <2> QED BY <1>7, <2>1, <2>2
<1>12. ASSUME NEW r \in RevisionIds PROVE Record(revisions'[r]) = Record(revisions[r])
  <2>1. \A s \in RevisionIds : DOMAIN revisions[s] = DOMAIN NoRevision
    BY DEF Forking, RevisionsArePublished
  <2>2. PICK to : revisions' = [revisions EXCEPT ![man.revision].to = to]
    BY <1>5
  <2>3. revisions'[r] \in {revisions[r], [revisions[r] EXCEPT !.to = to]}
    <3>1. CASE r \in DOMAIN revisions
      BY <2>2, <3>1
    <3>2. CASE r \notin DOMAIN revisions
      BY <2>2, <3>2
    <3> QED BY <3>1, <3>2
  <2> QED BY <2>1, <2>3 DEF Record, NoRevision
<1>13. /\ DOMAIN heads' = FamilyIds /\ DOMAIN families' = FamilyIds
       /\ \A g \in FamilyIds \ Affected(man) : heads'[g] = heads[g] /\ families'[g] = families[g]
  BY <1>5 DEF RestoredHeads, Affected
<1>14. ASSUME NEW g \in Affected(man)
       PROVE  /\ heads'[g].sequence = sequence + 1
              /\ \E x \in man.heads : x.family = g /\ heads'[g].revision = x.revision
              /\ \E x \in man.families : x.family = g /\ families'[g] = x.record
  <2>1. g \in FamilyIds
    BY <1>4 DEF Told, Affected
  <2>2. heads'[g] = [revision |-> Before(man, g), sequence |-> sequence + 1]
    BY <1>5, <2>1 DEF RestoredHeads, Affected
  <2>3. families'[g] = (CHOOSE x \in man.families : x.family = g).record
    BY <1>5, <2>1
  <2>4. \E x \in man.families : x.family = g /\ families'[g] = x.record
    BY <1>9, <2>3
  <2> QED BY <1>8, <2>2, <2>4
<1>15. transitions' = transitions \o
         << [from |-> {man.revision}, to |-> {man.revision}, state |-> "invalidated", at |-> now],
            [from |-> {}, to |-> Befores(man), state |-> "active", at |-> now] >>
  <2>1. {Before(man, g) : g \in Affected(man)} \subseteq Befores(man)
    BY <1>8 DEF Befores
  <2>2. ASSUME NEW x \in man.heads PROVE x.revision \in {Before(man, g) : g \in Affected(man)}
    <3>1. x.family \in Affected(man) /\ \A y \in man.heads : y.family = x.family => y = x
      BY <1>4 DEF Told
    <3>2. Before(man, x.family) = x.revision
      BY <1>8, <3>1
    <3> QED BY <3>1, <3>2
  <2>3. {Before(man, g) : g \in Affected(man)} = Befores(man)
    BY <2>1, <2>2 DEF Befores
  <2> QED BY <1>5, <2>3 DEF Undoing, Affected
<1>16. UNCHANGED manifests
  BY <1>5 DEF mergeVars
<1>17. aliases' = (aliases \ AliasRowsOf(aliases, Names(man))) \cup man.aliases
  BY <1>5
<1>18. EndsMerge(man)
  <2> SUFFICES ASSUME NEW r \in RevisionIds
               PROVE  \/ revisions'[r].to = revisions[r].to
                      \/ r = man.revision /\ EndsNow(r)
    BY DEF EndsMerge
  <2>1. DOMAIN revisions[r] = DOMAIN NoRevision
    BY DEF Forking, RevisionsArePublished
  <2>2. PICK to :
          /\ to = IF revisions[man.revision].to = None \/ revisions[man.revision].to > now
                  THEN now ELSE revisions[man.revision].to
          /\ revisions' = [revisions EXCEPT ![man.revision].to = to]
    BY <1>5
  <2>3. CASE r = man.revision /\ r \in DOMAIN revisions
    <3>1. revisions'[r].to = to
      BY <2>1, <2>2, <2>3 DEF NoRevision
    <3> QED BY <2>2, <2>3, <3>1 DEF EndsNow
  <2>4. CASE r # man.revision
    BY <2>2, <2>4
  <2>5. CASE r \notin DOMAIN revisions
    BY <2>2, <2>5
  <2> QED BY <2>3, <2>4, <2>5
<1>19. Unmerging(p, m, man)
  BY <1>1, <1>2, <1>3, <1>6, <1>7, <1>10, <1>11, <1>12, <1>13, <1>14, <1>15, <1>16, <1>17, <1>18
     DEF Unmerging
<1> QED BY <1>19

(* A link.                                                                 *)
Linking(p) ==
  /\ Consumed(p)
  /\ proposals[p].operation = "link"
  /\ UNCHANGED <<families, revisions, heads, aliases, transitions, manifests>>

StepKinds ==
  \/ Quiet
  \/ \E p \in ProposalIds : Linking(p)
  \/ \E p \in ProposalIds, f \in FamilyIds, new \in RevisionIds : Publishing(p, f, new)
  \/ \E p \in ProposalIds, f \in FamilyIds, new \in RevisionIds : \E sources :
       Merging(p, f, new, sources)
  \/ \E p, m \in ProposalIds : \E man : Unmerging(p, m, man)

LEMMA Steps ==
  ASSUME Forking, ListingsAreOfRevisions, [ConsolidationNext]_consolidationVars
  PROVE  StepKinds /\ ((jobs' = jobs) \/ ListingsAreOfRevisions')
<1>1. now \in Nat /\ now + 1 \in Nat
  BY DEF Forking, RevisionsArePublished
<1>2. CASE UNCHANGED consolidationVars
  <2>1. Quiet
    BY <1>2, UntouchedIsQuiet DEF consolidationVars, vars, ledgerVars, mergeVars, canonical
  <2> QED BY <1>2, <2>1 DEF StepKinds, consolidationVars, jobVars
<1>3. CASE Next /\ UNCHANGED mergeVars /\ UNCHANGED jobVars
  <2>1. UNCHANGED manifests /\ jobs' = jobs
    BY <1>3 DEF mergeVars, jobVars
  <2>2. CASE Tick
    <3>1. Quiet
      BY <2>1, <2>2, UntouchedIsQuiet DEF Tick
    <3> QED BY <2>1, <3>1 DEF StepKinds
  <2>3. CASE Propose
    BY <2>1, <2>3, ProposeComposed, SavingIsQuiet DEF StepKinds
  <2>4. CASE Decide
    BY <2>1, <2>4, DecidingIsQuiet DEF StepKinds
  <2>5. ASSUME NEW p \in ProposalIds, ApplyCreate(p) PROVE StepKinds
    BY <2>1, <2>5, CreatingPublishes DEF StepKinds
  <2>6. ASSUME NEW p \in ProposalIds, ApplyRevise(p) PROVE StepKinds
    BY <2>1, <2>6, RevisingPublishes DEF StepKinds, ApplyRevise
  <2>7. ASSUME NEW p \in ProposalIds, ApplyLink(p) PROVE StepKinds
    <3>1. Linking(p)
      BY <2>1, <2>7, ConsumeConsumes DEF Linking, ApplyLink
    <3> QED BY <3>1 DEF StepKinds
  <2> QED BY <1>3, <2>1, <2>2, <2>3, <2>4, <2>5, <2>6, <2>7 DEF Next, Apply
<1>4. CASE ProposeMerging /\ UNCHANGED jobVars
  BY <1>4, ProposeMergingComposed, SavingIsQuiet DEF StepKinds, jobVars
<1>5. CASE ApplyMerging /\ UNCHANGED jobVars
  <2>1. jobs' = jobs
    BY <1>5 DEF jobVars
  <2>2. ASSUME NEW p \in ProposalIds, ApplyMerge(p) PROVE StepKinds
    BY <2>2, ApplyMergeMerges DEF StepKinds
  <2>3. ASSUME NEW p \in ProposalIds, ApplyUnmerge(p) PROVE StepKinds
    BY <2>3, ApplyUnmergeUndoes DEF StepKinds
  <2>4. ASSUME NEW p \in ProposalIds, ApplyResolveConflict(p) PROVE StepKinds
    BY <2>4, RevisingPublishes DEF StepKinds, ApplyResolveConflict
  <2> QED BY <1>5, <2>1, <2>2, <2>3, <2>4 DEF ApplyMerging
<1>6. ASSUME NEW j \in Jobs, Consolidate(j) PROVE StepKinds /\ ListingsAreOfRevisions'
  <2>1. /\ (\E q : Drafts(q)) \/ UNCHANGED ledgerVars
        /\ UNCHANGED manifests /\ ListingsAreOfRevisions'
    BY <1>6, ConsolidateSaves
  <2>2. CASE UNCHANGED ledgerVars
    <3>1. Quiet
      BY <2>1, <2>2, UntouchedIsQuiet DEF ledgerVars, canonical
    <3> QED BY <2>1, <3>1 DEF StepKinds
  <2> QED BY <2>1, <2>2, SavingIsQuiet DEF StepKinds
<1> QED
  BY <1>2, <1>3, <1>4, <1>5, <1>6 DEF ConsolidationNext, MergeNext
-----------------------------------------------------------------------------
(* What no step undoes.                                                    *)

Grows ==
  /\ DOMAIN proposals' = ProposalIds /\ DOMAIN manifests' = ProposalIds
  /\ \A p \in ProposalIds : proposals[p].status # "none" =>
       /\ DOMAIN proposals'[p] = DOMAIN proposals[p]
       /\ Draws(proposals'[p]) = Draws(proposals[p])
       /\ proposals'[p].status # "none"
       /\ proposals[p].status = "applied" => proposals'[p].status = "applied"
  /\ \A p \in ProposalIds :
       proposals[p].status = "none" => Opens(p) \/ proposals'[p].status = "none"
  /\ \A r \in RevisionIds : Published(r) => Record(revisions'[r]) = Record(revisions[r])
  /\ \A m \in ProposalIds : Merged(m) => manifests'[m] = manifests[m]
  /\ \A f \in FamilyIds : families[f].state # "none" =>
       families'[f].state # "none" /\ families'[f].legacy = families[f].legacy

LEMMA QuietGrows ==
  ASSUME Forking, Quiet PROVE Grows
<1>1. UNCHANGED <<revisions, manifests, families>>
  BY DEF Quiet, canonical
<1>2. DOMAIN manifests = ProposalIds
  BY DEF Forking, ManifestsTell
<1>3. ASSUME NEW p \in ProposalIds PROVE Proceeds(p) \/ Opens(p)
  BY DEF Quiet
<1> QED
  BY <1>1, <1>2, <1>3 DEF Quiet, Grows, Proceeds, Opens

LEMMA ConsumedGrows ==
  ASSUME NEW p, Consumed(p), DOMAIN manifests' = ProposalIds,
         \A r \in RevisionIds : Published(r) => Record(revisions'[r]) = Record(revisions[r]),
         \A m \in ProposalIds : Merged(m) => manifests'[m] = manifests[m],
         \A f \in FamilyIds : families[f].state # "none" =>
           families'[f].state # "none" /\ families'[f].legacy = families[f].legacy
  PROVE  Grows
<1>1. p \in ProposalIds /\ proposals[p].status = "approved" /\ proposals'[p].status = "applied"
  BY DEF Consumed, Applicable
<1>2. \A x \in ProposalIds : x # p => proposals'[x] = proposals[x]
  BY DEF Consumed
<1> QED
  BY <1>1, <1>2 DEF Consumed, Grows

LEMMA StepGrows ==
  ASSUME Forking, StepKinds PROVE Grows
<1>1. DOMAIN manifests = ProposalIds /\ DOMAIN families = FamilyIds
  BY DEF Forking, ManifestsTell, FamiliesAreNamed, NamedFamily, NamingRow
<1>2. CASE Quiet
  BY <1>2, QuietGrows
<1>3. ASSUME NEW p \in ProposalIds, Linking(p) PROVE Grows
  BY <1>1, <1>3, ConsumedGrows DEF Linking
<1>4. ASSUME NEW p \in ProposalIds, NEW f \in FamilyIds, NEW new \in RevisionIds,
             Publishing(p, f, new)
      PROVE  Grows
  <2>1. \A r \in RevisionIds : Published(r) => Record(revisions'[r]) = Record(revisions[r])
    BY <1>4 DEF Publishing, Publishes
  <2>2. ASSUME NEW g \in FamilyIds, families[g].state # "none"
        PROVE  families'[g].state # "none" /\ families'[g].legacy = families[g].legacy
    BY <1>4, <2>2 DEF Publishing
  <2> QED BY <1>1, <1>4, <2>1, <2>2, ConsumedGrows DEF Publishing, Publishes
<1>5. ASSUME NEW p \in ProposalIds, NEW f \in FamilyIds, NEW new \in RevisionIds, NEW sources,
             Merging(p, f, new, sources)
      PROVE  Grows
  <2>1. \A r \in RevisionIds : Published(r) => Record(revisions'[r]) = Record(revisions[r])
    BY <1>5 DEF Merging, Publishes
  <2>2. ASSUME NEW g \in FamilyIds, families[g].state # "none"
        PROVE  families'[g].state # "none" /\ families'[g].legacy = families[g].legacy
    <3>1. DOMAIN families[g] = DOMAIN NoFamily
      BY DEF Forking, FamiliesAreNamed, NamedFamily, NamingRow
    <3>2. families'[g] \in {families[g], [families[g] EXCEPT !.state = "merged", !.mergedInto = f]}
      BY <1>5 DEF Merging
    <3> QED BY <2>2, <3>1, <3>2 DEF NoFamily
  <2>3. Consumed(p) /\ ~Merged(p)
    BY <1>5 DEF Merging, Publishes, Consumed, Applicable, Forking, ManifestsTell, Told
  <2>4. PICK man : manifests' = [manifests EXCEPT ![p] = man]
    BY <1>5 DEF Merging
  <2>5. \A m \in ProposalIds : Merged(m) => manifests'[m] = manifests[m]
    BY <1>1, <2>3, <2>4
  <2> QED BY <1>1, <2>1, <2>2, <2>3, <2>4, <2>5, ConsumedGrows
<1>6. ASSUME NEW p \in ProposalIds, NEW m \in ProposalIds, NEW man, Unmerging(p, m, man)
      PROVE  Grows
  <2>1. Told(m, man)
    BY <1>6 DEF Unmerging, Forking, ManifestsTell
  <2>2. ASSUME NEW g \in FamilyIds, families[g].state # "none"
        PROVE  families'[g].state # "none" /\ families'[g].legacy = families[g].legacy
    <3>1. CASE g \in Affected(man)
      <4>1. PICK x \in man.families : x.family = g /\ families'[g] = x.record
        BY <1>6, <3>1 DEF Unmerging
      <4> QED BY <2>1, <4>1 DEF Told
    <3>2. CASE g \notin Affected(man)
      BY <1>6, <2>2, <3>2 DEF Unmerging
    <3> QED BY <3>1, <3>2
  <2> QED BY <1>1, <1>6, <2>2, ConsumedGrows DEF Unmerging
<1> QED
  BY <1>2, <1>3, <1>4, <1>5, <1>6 DEF StepKinds

LEMMA PublishedGrows ==
  ASSUME RevisionsArePublished, Grows, NEW r, Published(r)
  PROVE  /\ r \in RevisionIds /\ Published(r)' /\ revisions'[r].family = revisions[r].family
         /\ revisions'[r].parents = revisions[r].parents
         /\ revisions'[r].proposal = revisions[r].proposal
BY DEF Grows, Published, Record

LEMMA ListingsKept ==
  ASSUME Forking, Grows, ListingsAreOfRevisions, jobs' = jobs
  PROVE  ListingsAreOfRevisions'
<1>1. ASSUME NEW r, Published(r) PROVE Published(r)'
  BY <1>1, PublishedGrows DEF Forking
<1>2. ASSUME NEW j \in Jobs PROVE Lists(jobs[j])'
  <2>1. Lists(jobs[j]) /\ jobs'[j] = jobs[j]
    BY DEF ListingsAreOfRevisions
  <2> QED BY <1>1, <2>1 DEF Lists
<1> QED BY <1>2 DEF ListingsAreOfRevisions

LEMMA ComposedKept ==
  ASSUME Forking, Grows, NEW q, Composed(q)
  PROVE  Composed(q)'
<1>1. \A r : Published(r) => Published(r)' /\ revisions'[r].family = revisions[r].family
  BY PublishedGrows DEF Forking
<1>2. \A m \in ProposalIds : Merged(m) => manifests'[m] = manifests[m]
  BY DEF Grows
<1>3. NoManifest' = NoManifest
  BY DEF NoManifest
<1>4. q.operation = "unmerge" => q.manifest \in ProposalIds /\ manifests'[q.manifest] # NoManifest
  BY <1>2 DEF Composed, Merged
<1>5. q.operation \in Revising \cup {"resolve_conflict", "unmerge"} =>
        /\ q.target \in FamilyIds
        /\ \E r \in RevisionIds : /\ q.base = {r} /\ <<q.target, r>> \in q.expected
                                  /\ Published(r)' /\ revisions'[r].family = q.target
  BY <1>1 DEF Composed
<1>6. q.operation = "merge" =>
       /\ \A r \in q.base : /\ Published(r)' /\ revisions'[r].family \in FamilyIds
                            /\ <<revisions'[r].family, r>> \in q.expected
       /\ \E r \in q.base : revisions'[r].family = q.target
  BY <1>1 DEF Composed
<1> QED
  BY <1>4, <1>5, <1>6 DEF Composed, Fields, NoProposal, NoContent

LEMMA SameDraws ==
  ASSUME NEW q, NEW h, DOMAIN h = DOMAIN q, Draws(h) = Draws(q), Composed(q)
  PROVE  Composed(h)
BY DEF Draws, Composed

LEMMA PreviewsKept ==
  ASSUME Forking, Grows
  PROVE  PreviewsAreComposed'
<1> SUFFICES ASSUME NEW p \in ProposalIds, proposals'[p].status # "none"
             PROVE  Composed(proposals[p])'
  BY DEF PreviewsAreComposed, Grows
<1>1. PICK h : h = proposals'[p]
  OBVIOUS
<1>2. CASE proposals[p].status = "none"
  <2>1. Composed(h)
    BY <1>1, <1>2 DEF Grows, Opens
  <2>2. Composed(h)'
    BY <2>1, ComposedKept
  <2> QED BY <1>1, <2>2 DEF Composed
<1>3. CASE proposals[p].status # "none"
  <2>1. PICK q : q = proposals[p] /\ Composed(q)
    BY <1>3 DEF Forking, PreviewsAreComposed
  <2>2. DOMAIN h = DOMAIN q /\ Draws(h) = Draws(q)
    BY <1>1, <1>3, <2>1 DEF Grows
  <2>3. Composed(h)
    BY <2>1, <2>2, SameDraws
  <2>4. Composed(h)'
    BY <2>3, ComposedKept
  <2> QED BY <1>1, <2>4 DEF Composed
<1> QED BY <1>2, <1>3

(* The revision of a publication is new; the others, and the heads kept,   *)
(* are the old ones.                                                       *)
LEMMA PublicationKept ==
  ASSUME NEW p, NEW f, NEW new, NEW retired, Publishes(p, f, new, retired)
  PROVE  /\ Published(new)' /\ ~Published(new) /\ new # None
         /\ \A r : Published(r)' /\ r # new => Published(r)
         /\ \A g \in FamilyIds : HasHead(g)' =>
              \/ g = f /\ heads'[g].revision = new
              \/ g # f /\ g \notin retired /\ HasHead(g) /\ heads'[g] = heads[g]
         /\ \A g \in FamilyIds :
              heads'[g].revision \in {new, None, heads[g].revision}
<1>1. ASSUME NEW r, Published(r)', r # new PROVE Published(r)
  BY <1>1 DEF Publishes, Published, Record
<1>2. new # None
  BY DEF Publishes, RevisionIds, None
<1> QED
  BY <1>1, <1>2 DEF Publishes, Published, NoHead, HasHead

LEMMA RevisionsStay ==
  ASSUME Forking, Grows, now' \in Nat, DOMAIN heads' = FamilyIds,
         \A r \in RevisionIds : Record(revisions'[r]) = Record(revisions[r]),
         \A f \in FamilyIds : HasHead(f)' =>
           Published(heads'[f].revision) /\ revisions[heads'[f].revision].family = f,
         transitions' \in Seq(Transitions)
  PROVE  RevisionsArePublished'
<1>1. RevisionsArePublished
  BY DEF Forking
<1>2. \A r : Published(r) =>
        /\ r \in RevisionIds /\ Published(r)'
        /\ revisions'[r].family = revisions[r].family
        /\ revisions'[r].parents = revisions[r].parents
        /\ revisions'[r].proposal = revisions[r].proposal
  BY <1>1, PublishedGrows
<1>3. \A r : Published(r)' => Published(r)
  BY DEF Published, Record
<1>4. \A r \in RevisionIds : /\ revisions'[r].version \in Nat
                             /\ revisions'[r].from \in Nat
                             /\ revisions'[r].content \in ContentType
                             /\ DOMAIN revisions'[r] = DOMAIN NoRevision
  BY <1>1 DEF RevisionsArePublished, Record
<1>5. ASSUME NEW r \in RevisionIds, Published(r)'
      PROVE  /\ revisions'[r].family \in FamilyIds
             /\ \A q \in revisions'[r].parents : Published(q)'
             /\ revisions'[r].proposal \in ProposalIds
             /\ proposals'[revisions'[r].proposal].status = "applied"
  BY <1>1, <1>2, <1>3, <1>5 DEF RevisionsArePublished, Grows
<1>6. \A f \in FamilyIds : HasHead(f)' =>
        Published(heads[f].revision)' /\ revisions'[heads'[f].revision].family = f
  BY <1>2
<1> QED
  BY <1>4, <1>5, <1>6 DEF RevisionsArePublished, NoRevision, NoContent

LEMMA RevisionsPublish ==
  ASSUME Forking, Grows, NEW p, NEW f, NEW new, NEW retired, Publishes(p, f, new, retired),
         \A r \in proposals[p].base : Published(r)
  PROVE  RevisionsArePublished'
<1>1. RevisionsArePublished
  BY DEF Forking
<1>2. \A r : Published(r) =>
        /\ r \in RevisionIds /\ Published(r)'
        /\ revisions'[r].family = revisions[r].family
        /\ revisions'[r].parents = revisions[r].parents
        /\ revisions'[r].proposal = revisions[r].proposal
  BY <1>1, PublishedGrows
<1>3. Consumed(p) /\ now' \in Nat
  BY DEF Publishes, Consumed
<1>4. ASSUME NEW r \in RevisionIds
      PROVE  /\ revisions'[r].version \in Nat
             /\ revisions'[r].from \in Nat
             /\ revisions'[r].content \in ContentType
             /\ DOMAIN revisions'[r] = DOMAIN NoRevision
  <2>1. CASE r = new
    BY <1>3, <2>1 DEF Publishes, Consumed, Composed
  <2>2. CASE r # new
    <3>1. Record(revisions'[r]) = Record(revisions[r])
      BY <2>2 DEF Publishes
    <3> QED BY <1>1, <3>1 DEF RevisionsArePublished, Record
  <2> QED BY <2>1, <2>2
<1>5. ASSUME NEW r \in RevisionIds, Published(r)'
      PROVE  /\ revisions'[r].family \in FamilyIds
             /\ \A q \in revisions'[r].parents : Published(q)'
             /\ revisions'[r].proposal \in ProposalIds
             /\ proposals'[revisions'[r].proposal].status = "applied"
  <2>1. CASE r = new
    BY <1>2, <2>1 DEF Publishes, Consumed
  <2>2. CASE r # new
    BY <1>1, <1>2, <1>5, <2>2, PublicationKept DEF RevisionsArePublished, Grows
  <2> QED BY <2>1, <2>2
<1>6. ASSUME NEW g \in FamilyIds, HasHead(g)'
      PROVE  Published(heads[g].revision)' /\ revisions'[heads'[g].revision].family = g
  <2>1. CASE g = f /\ heads'[g].revision = new
    BY <2>1, PublicationKept DEF Publishes
  <2>2. CASE HasHead(g) /\ heads'[g] = heads[g]
    BY <1>1, <1>2, <2>2 DEF RevisionsArePublished
  <2> QED BY <1>6, <2>1, <2>2, PublicationKept
<1>7. transitions' \in Seq(Transitions)
  BY <1>1 DEF Publishes, RevisionsArePublished
<1>8. DOMAIN heads' = FamilyIds
  BY DEF Publishes
<1> QED
  BY <1>3, <1>4, <1>5, <1>6, <1>7, <1>8 DEF RevisionsArePublished, NoRevision, NoContent

LEMMA RevisionsKept ==
  ASSUME Forking, Grows, StepKinds
  PROVE  RevisionsArePublished'
<1>1. /\ RevisionsArePublished /\ now \in Nat /\ DOMAIN heads = FamilyIds
      /\ transitions \in Seq(Transitions)
      /\ \A f \in FamilyIds : HasHead(f) =>
           Published(heads[f].revision) /\ revisions[heads[f].revision].family = f
  BY DEF Forking, RevisionsArePublished
<1>2. CASE Quiet
  <2>1. UNCHANGED <<revisions, heads, transitions>> /\ now' \in Nat
    BY <1>1, <1>2 DEF Quiet, canonical
  <2> QED BY <1>1, <2>1, RevisionsStay DEF HasHead
<1>3. ASSUME NEW p \in ProposalIds, Linking(p) PROVE RevisionsArePublished'
  <2>1. UNCHANGED <<revisions, heads, transitions>> /\ now' \in Nat
    BY <1>3 DEF Linking, Consumed
  <2> QED BY <1>1, <2>1, RevisionsStay DEF HasHead
<1>4. ASSUME NEW p \in ProposalIds, NEW f \in FamilyIds, NEW new \in RevisionIds,
             Publishing(p, f, new)
      PROVE  RevisionsArePublished'
  BY <1>4, RevisionsPublish DEF Publishing
<1>5. ASSUME NEW p \in ProposalIds, NEW f \in FamilyIds, NEW new \in RevisionIds, NEW sources,
             Merging(p, f, new, sources)
      PROVE  RevisionsArePublished'
  BY <1>5, RevisionsPublish DEF Merging
<1>6. ASSUME NEW p \in ProposalIds, NEW m \in ProposalIds, NEW man, Unmerging(p, m, man)
      PROVE  RevisionsArePublished'
  <2>1. Told(m, man)
    BY <1>6 DEF Unmerging, Forking, ManifestsTell
  <2>2. ASSUME NEW g \in FamilyIds, HasHead(g)'
        PROVE  Published(heads'[g].revision) /\ revisions[heads'[g].revision].family = g
    <3>1. CASE g \in Affected(man)
      <4>1. PICK x \in man.heads : x.family = g /\ heads'[g].revision = x.revision
        BY <1>6, <3>1 DEF Unmerging
      <4>2. Published(x.revision) /\ revisions[x.revision].family = x.family
        BY <2>1 DEF Told
      <4> QED BY <4>1, <4>2
    <3>2. CASE g \notin Affected(man)
      BY <1>1, <1>6, <2>2, <3>2 DEF Unmerging, HasHead
    <3> QED BY <3>1, <3>2
  <2>3. transitions' = transitions \o
          << [from |-> {man.revision}, to |-> {man.revision}, state |-> "invalidated", at |-> now],
             [from |-> {}, to |-> Befores(man), state |-> "active", at |-> now] >>
    BY <1>6 DEF Unmerging
  <2>4. /\ [from |-> {man.revision}, to |-> {man.revision}, state |-> "invalidated", at |-> now] \in Transitions
        /\ [from |-> {}, to |-> Befores(man), state |-> "active", at |-> now] \in Transitions
    <3>1. man.revision \in RevisionIds /\ Befores(man) \subseteq RevisionIds
      BY <2>1 DEF Told, Published, Befores
    <3> QED BY <1>1, <3>1 DEF Transitions, RevisionStates
  <2>5. transitions' \in Seq(Transitions)
    BY <1>1, <2>3, <2>4
  <2>6. /\ DOMAIN heads' = FamilyIds /\ now' \in Nat
        /\ \A r \in RevisionIds : Record(revisions'[r]) = Record(revisions[r])
    BY <1>6 DEF Unmerging, Consumed
  <2> QED BY <2>2, <2>5, <2>6, RevisionsStay
<1> QED
  BY <1>2, <1>3, <1>4, <1>5, <1>6 DEF StepKinds
-----------------------------------------------------------------------------
(* What the manifests say stays true, and only an UNMERGE undoes a merge.  *)

LEMMA UndoneStays ==
  ASSUME Forking, Grows,
         \A p \in ProposalIds : proposals'[p].status = "applied" =>
           proposals[p].status = "applied" \/ proposals[p].operation # "unmerge",
         \A p \in ProposalIds : Opens(p) => proposals'[p].status # "applied"
  PROVE  \A m : Undone(m)' <=> Undone(m)
<1>1. ASSUME NEW p \in ProposalIds, proposals[p].status # "none"
      PROVE  /\ proposals'[p].operation = proposals[p].operation
             /\ proposals'[p].manifest = proposals[p].manifest
             /\ proposals[p].status = "applied" => proposals'[p].status = "applied"
  BY <1>1 DEF Grows, Draws
<1>2. ASSUME NEW p \in ProposalIds, proposals[p].status = "none"
      PROVE  proposals'[p].status # "applied"
  BY <1>2 DEF Grows
<1> QED
  BY <1>1, <1>2 DEF Undone

LEMMA UndoneByUnmerge ==
  ASSUME Forking, Grows, NEW p, Consumed(p)
  PROVE  /\ proposals[p].operation # "unmerge" => \A m : Undone(m)' <=> Undone(m)
         /\ proposals[p].operation = "unmerge" =>
              \A m : Undone(m)' <=> Undone(m) \/ m = proposals[p].manifest
<1>1. /\ p \in ProposalIds /\ proposals[p].status = "approved" /\ proposals'[p].status = "applied"
      /\ proposals'[p].operation = proposals[p].operation
      /\ proposals'[p].manifest = proposals[p].manifest
      /\ \A x \in ProposalIds : x # p => proposals'[x] = proposals[x]
  BY DEF Consumed, Applicable, Draws
<1> QED
  BY <1>1 DEF Undone

LEMMA QuietUndoesNothing ==
  ASSUME Forking, Grows, Quiet
  PROVE  \A m : Undone(m)' <=> Undone(m)
<1>1. ASSUME NEW p \in ProposalIds, proposals'[p].status = "applied"
      PROVE  proposals[p].status = "applied"
  BY <1>1 DEF Quiet, Proceeds, Opens
<1>2. \A p \in ProposalIds : Opens(p) => proposals'[p].status # "applied"
  BY DEF Opens
<1> QED
  BY <1>1, <1>2, UndoneStays

LEMMA ToldKept ==
  ASSUME Forking, Grows, NEW m \in ProposalIds, NEW man, Told(m, man)
  PROVE  Told(m, man)'
<1>1. \A r : Published(r) =>
        /\ r \in RevisionIds /\ Published(r)'
        /\ revisions'[r].family = revisions[r].family
        /\ revisions'[r].proposal = revisions[r].proposal
  BY PublishedGrows DEF Forking
<1>2. proposals'[m].status = "applied" /\ proposals'[m].operation = "merge"
  BY DEF Told, Grows, Draws
<1>3. \A x \in man.families :
        /\ families'[x.family].state # "none"
        /\ x.record.legacy = families'[x.family].legacy
  BY DEF Told, Grows
<1> QED
  BY <1>1, <1>2, <1>3 DEF Told, Affected, NoFamily

LEMMA MergedIsTold ==
  ASSUME Forking, Grows, NEW p, NEW f, NEW new, NEW sources, Merging(p, f, new, sources),
         NEW rows, rows = aliases \cup {AliasRow(families[f].legacy, f)},
         NEW man, man = Manifest(p, f, sources, rows, new)
  PROVE  Told(p, man)'
<1> DEFINE affected == sources \cup {f}
<1>1. /\ man.sources = sources /\ man.target = f /\ man.revision = new
      /\ man.heads = {[family |-> g, revision |-> heads[g].revision] : g \in affected}
      /\ man.families = {[family |-> g, record |-> families[g]] : g \in affected}
      /\ man.aliases = {row \in rows : row.family \in affected}
      /\ Affected(man) = affected
  BY DEF Manifest, Affected
<1>2. /\ Publishes(p, f, new, sources) /\ Consumed(p) /\ p \in ProposalIds
      /\ sources \subseteq FamilyIds \ {f} /\ f \in FamilyIds
      /\ \A g \in affected : g \in FamilyIds /\ families[g].state = "active"
  <2>1. Publishes(p, f, new, sources) /\ Consumed(p)
    BY MergingPublishes
  <2>2. p \in ProposalIds /\ f \in FamilyIds
    BY <2>1 DEF Publishes, Consumed
  <2>3. /\ sources \subseteq FamilyIds \ {f}
        /\ \A g \in affected : families[g].state = "active"
    BY DEF Merging
  <2> QED BY <2>1, <2>2, <2>3
<1>3. ASSUME NEW x \in man.heads
      PROVE  /\ x.family \in affected /\ Published(x.revision)'
             /\ revisions'[x.revision].family = x.family
  <2>1. PICK g \in affected : x = [family |-> g, revision |-> heads[g].revision]
    BY <1>1
  <2>2. Published(x.revision) /\ revisions[x.revision].family = g
    BY <1>2, <2>1 DEF Forking, FamiliesAreNamed, NamedFamily, NamingRow, RevisionsArePublished
  <2> QED BY <2>1, <2>2, PublishedGrows DEF Forking
<1>4. /\ \A g \in affected : \E x \in man.heads : x.family = g
      /\ \A x, y \in man.heads : x.family = y.family => x = y
      /\ \A g \in affected : \E x \in man.families : x.family = g
      /\ \A x, y \in man.families : x.family = y.family => x = y
  <2>1. \A x \in man.heads :
          \E g \in affected : x = [family |-> g, revision |-> heads[g].revision]
    BY <1>1
  <2>2. \A x \in man.families :
          \E g \in affected : x = [family |-> g, record |-> families[g]]
    BY <1>1
  <2>3. \A g \in affected : /\ [family |-> g, revision |-> heads[g].revision] \in man.heads
                           /\ [family |-> g, record |-> families[g]] \in man.families
    BY <1>1
  <2>4. /\ \A g \in affected : \E x \in man.heads : x.family = g
        /\ \A g \in affected : \E x \in man.families : x.family = g
    BY <2>3
  <2>5. ASSUME NEW x \in man.heads, NEW y \in man.heads, x.family = y.family PROVE x = y
    <3>1. PICK g \in affected, h \in affected :
            /\ x = [family |-> g, revision |-> heads[g].revision]
            /\ y = [family |-> h, revision |-> heads[h].revision]
      BY <2>1
    <3>2. g = h
      BY <2>5, <3>1
    <3> QED BY <3>1, <3>2
  <2>6. ASSUME NEW x \in man.families, NEW y \in man.families, x.family = y.family PROVE x = y
    BY <2>2, <2>6
  <2> QED BY <2>4, <2>5, <2>6
<1>5. ASSUME NEW x \in man.families
      PROVE  /\ x.family \in FamilyIds /\ families'[x.family].state # "none"
             /\ DOMAIN x.record = DOMAIN NoFamily /\ x.record.state = "active"
             /\ x.record.legacy = families'[x.family].legacy
  <2>1. PICK g \in affected : x = [family |-> g, record |-> families[g]]
    BY <1>1
  <2>2. DOMAIN families[g] = DOMAIN NoFamily
    BY <1>2 DEF Forking, FamiliesAreNamed, NamedFamily, NamingRow
  <2> QED BY <1>2, <2>1, <2>2 DEF Grows
<1>6. ASSUME NEW row \in man.aliases
      PROVE  /\ DOMAIN row = {"alias", "family", "status"}
             /\ row.status = "resolved" /\ row.family \in affected
  <2>1. row.family \in affected /\ (row \in aliases \/ row = AliasRow(families[f].legacy, f))
    BY <1>1
  <2>2. CASE row \in aliases
    BY <1>2, <2>1, <2>2 DEF Forking, FamiliesAreNamed, NamedFamily, NamingRow
  <2>3. CASE row = AliasRow(families[f].legacy, f)
    BY <2>1, <2>3 DEF AliasRow
  <2> QED BY <2>1, <2>2, <2>3
<1>7. /\ Published(new)' /\ revisions'[new].family = f /\ revisions'[new].proposal = p
      /\ proposals'[p].status = "applied" /\ proposals'[p].operation = "merge"
  <2>1. Draws(proposals'[p]) = Draws(proposals[p]) /\ proposals[p].operation = "merge"
    BY <1>2 DEF Consumed, Merging
  <2>2. proposals'[p].status = "applied"
    BY <1>2 DEF Consumed
  <2>3. proposals'[p].operation = "merge"
    BY <2>1 DEF Draws
  <2>4. Published(new)'
    BY <1>2, PublicationKept
  <2>5. revisions'[new].family = f /\ revisions'[new].proposal = p
    BY <1>2 DEF Publishes
  <2> QED BY <2>2, <2>3, <2>4, <2>5
<1>8. man.sources \subseteq FamilyIds /\ man.target \in FamilyIds \ man.sources
  BY <1>1, <1>2
<1>9. affected = man.sources \cup {man.target}
  BY <1>1
<1> HIDE DEF affected
<1>10. affected = Affected(man)
  BY <1>9 DEF Affected
<1>11. Affected(man)' = Affected(man) /\ (DOMAIN NoFamily)' = DOMAIN NoFamily
  BY DEF Affected, NoFamily
<1>12. /\ \A g \in Affected(man) : \E x \in man.heads : x.family = g
       /\ \A g \in Affected(man) : \E x \in man.families : x.family = g
       /\ \A x \in man.heads : x.family \in Affected(man)
       /\ \A row \in man.aliases : row.family \in Affected(man)
  BY <1>3, <1>4, <1>6, <1>10
<1>13. Published(man.revision)' /\ revisions'[man.revision].family = man.target
       /\ revisions'[man.revision].proposal = p
  BY <1>1, <1>7
<1>14. (/\ Published(man.revision)
        /\ revisions[man.revision].family = man.target
        /\ revisions[man.revision].proposal = p
        /\ proposals[p].status = "applied" /\ proposals[p].operation = "merge")'
  BY <1>7, <1>13
<1>15. (\A x \in man.heads :
          /\ x.family \in Affected(man)
          /\ Published(x.revision) /\ revisions[x.revision].family = x.family)'
  BY <1>3, <1>11, <1>12
<1>16. (\A x \in man.families :
          /\ x.family \in FamilyIds /\ families[x.family].state # "none"
          /\ DOMAIN x.record = DOMAIN NoFamily
          /\ x.record.state = "active"
          /\ x.record.legacy = families[x.family].legacy)'
  BY <1>5, <1>11
<1>17. (\A row \in man.aliases :
          /\ DOMAIN row = {"alias", "family", "status"}
          /\ row.status = "resolved" /\ row.family \in Affected(man))'
  BY <1>6, <1>11, <1>12
<1>18. (/\ \A g \in Affected(man) : \E x \in man.heads : x.family = g
        /\ \A x, y \in man.heads : x.family = y.family => x = y
        /\ \A g \in Affected(man) : \E x \in man.families : x.family = g
        /\ \A x, y \in man.families : x.family = y.family => x = y)'
  BY <1>4, <1>11, <1>12
<1> QED
  BY <1>8, <1>14, <1>15, <1>16, <1>17, <1>18 DEF Told

LEMMA ManifestsKept ==
  ASSUME Forking, Grows, StepKinds
  PROVE  ManifestsTell'
<1>1. ManifestsTell /\ DOMAIN manifests' = ProposalIds
  BY DEF Forking, Grows
<1>2. ASSUME NEW m \in ProposalIds, Merged(m) PROVE Told(m, manifests[m])'
  <2>1. PICK man : man = manifests[m] /\ Told(m, man) /\ manifests'[m] = man
    BY <1>1, <1>2 DEF ManifestsTell, Grows
  <2>2. Told(m, man)'
    BY <2>1, ToldKept
  <2> QED BY <2>1, <2>2
<1>3. CASE UNCHANGED manifests
  <2>1. ASSUME NEW m \in ProposalIds, Merged(m)' PROVE Merged(m)
    BY <1>3, <2>1 DEF Merged, NoManifest
  <2> QED BY <1>1, <1>2, <2>1 DEF ManifestsTell
<1>4. ASSUME NEW p \in ProposalIds, NEW f \in FamilyIds, NEW new \in RevisionIds, NEW sources,
             Merging(p, f, new, sources)
      PROVE  ManifestsTell'
  <2>1. PICK rows : /\ rows = aliases \cup {AliasRow(families[f].legacy, f)}
                    /\ manifests' = [manifests EXCEPT ![p] = Manifest(p, f, sources, rows, new)]
    BY <1>4 DEF Merging
  <2>2. PICK man : man = Manifest(p, f, sources, rows, new)
    OBVIOUS
  <2>3. Told(p, man)'
    BY <1>4, <2>1, <2>2, MergedIsTold
  <2>4. DOMAIN manifests = ProposalIds
    BY <1>1 DEF ManifestsTell
  <2>5. Told(p, manifests[p])'
    BY <2>1, <2>2, <2>3, <2>4
  <2>6. ASSUME NEW m \in ProposalIds, m # p, Merged(m)' PROVE Merged(m)
    BY <2>1, <2>4, <2>6 DEF Merged, NoManifest
  <2> QED BY <1>1, <1>2, <2>5, <2>6 DEF ManifestsTell
<1> QED
  BY <1>3, <1>4 DEF StepKinds, Quiet, Linking, Publishing, Unmerging
-----------------------------------------------------------------------------
(* The families and the rows that name them.                               *)

LEMMA PublishingNames ==
  ASSUME Forking, Grows, NEW p, NEW f, NEW new, Publishing(p, f, new)
  PROVE  FamiliesAreNamed'
<1>1. /\ DOMAIN families = FamilyIds /\ \A g \in FamilyIds : NamedFamily(g)
      /\ \A row \in aliases : NamingRow(row)
  BY DEF Forking, FamiliesAreNamed
<1>2. /\ Publishes(p, f, new, {}) /\ f \in FamilyIds
      /\ families[f].state \in {"none", "active"}
      /\ DOMAIN families' = FamilyIds
      /\ DOMAIN families'[f] = DOMAIN NoFamily /\ families'[f].state = "active"
      /\ families[f].state = "active" => families'[f] = families[f]
      /\ \A g \in FamilyIds : g # f => families'[g] = families[g]
      /\ aliases' = aliases \cup {AliasRow(families'[f].legacy, f)}
  BY DEF Publishing, Publishes
<1>3. /\ \A g \in FamilyIds : g # f => heads'[g] = heads[g]
      /\ HasHead(f)'
  <2>1. new # None
    BY <1>2, PublicationKept
  <2>2. /\ heads'[f] = [revision |-> new, sequence |-> sequence + 1]
        /\ \A g \in FamilyIds : g # f => heads'[g] = heads[g]
    BY <1>2 DEF Publishes
  <2> QED BY <2>1, <2>2 DEF HasHead, None
<1>4. \A g \in FamilyIds : families[g].state # "none" => families'[g].state # "none"
  BY DEF Grows
<1>5. ASSUME NEW g \in FamilyIds PROVE NamedFamily(g)'
  <2>1. CASE g = f
    <3>1. AliasRow(families'[f].legacy, f) \in aliases'
      BY <1>2
    <3>2. \E row \in aliases' : row.alias = families'[f].legacy /\ row.status = "resolved"
      BY <3>1 DEF AliasRow
    <3> QED BY <1>2, <1>3, <2>1, <3>2 DEF NamedFamily, NoFamily
  <2>2. CASE g # f
    <3>1. NamedFamily(g) /\ families'[g] = families[g] /\ (HasHead(g)' <=> HasHead(g))
      BY <1>1, <1>2, <1>3, <2>2 DEF HasHead
    <3>2. families[g].state = "merged" =>
            /\ families[g].mergedInto \in FamilyIds
            /\ families'[families[g].mergedInto].state # "none"
      BY <1>4, <3>1 DEF NamedFamily
    <3>3. aliases \subseteq aliases'
      BY <1>2
    <3> QED BY <3>1, <3>2, <3>3 DEF NamedFamily, NoFamily
  <2> QED BY <2>1, <2>2
<1>6. ASSUME NEW row \in aliases' PROVE NamingRow(row)'
  <2>1. CASE row = AliasRow(families'[f].legacy, f)
    BY <1>2, <2>1 DEF NamingRow, AliasRow
  <2>2. CASE row \in aliases
    <3>1. NamingRow(row)
      BY <1>1, <2>2
    <3>2. families'[row.family].state = families[row.family].state
      BY <1>2, <3>1 DEF NamingRow
    <3> QED BY <3>1, <3>2 DEF NamingRow
  <2> QED BY <1>2, <2>1, <2>2
<1>7. (\A g \in FamilyIds : NamedFamily(g))' /\ (\A row \in aliases : NamingRow(row))'
  BY <1>5, <1>6
<1> QED BY <1>2, <1>7 DEF FamiliesAreNamed

LEMMA MergingNames ==
  ASSUME Forking, Grows, NEW p, NEW f, NEW new, NEW sources, Merging(p, f, new, sources)
  PROVE  FamiliesAreNamed'
<1>1. /\ DOMAIN families = FamilyIds /\ \A g \in FamilyIds : NamedFamily(g)
      /\ \A row \in aliases : NamingRow(row)
  BY DEF Forking, FamiliesAreNamed
<1>2. /\ Publishes(p, f, new, sources) /\ f \in FamilyIds
      /\ sources \subseteq FamilyIds \ {f}
      /\ \A g \in sources \cup {f} : families[g].state = "active"
      /\ DOMAIN families' = FamilyIds
      /\ \A g \in FamilyIds : families'[g] =
           IF g \in sources THEN [families[g] EXCEPT !.state = "merged", !.mergedInto = f]
           ELSE families[g]
  BY DEF Merging, Publishes
<1>3. PICK rows : /\ rows = aliases \cup {AliasRow(families[f].legacy, f)}
                  /\ aliases' = RedirectedAliases(rows, sources, f)
  BY DEF Merging
<1>4. \A row \in rows : NamingRow(row)
  <2>1. NamingRow(AliasRow(families[f].legacy, f))
    BY <1>2 DEF NamingRow, AliasRow
  <2> QED BY <1>1, <1>3, <2>1
<1>5. /\ \A g \in FamilyIds : g # f /\ g \notin sources => heads'[g] = heads[g]
      /\ HasHead(f)'
      /\ \A g \in sources : ~HasHead(g)'
  <2>1. new # None
    BY <1>2, PublicationKept
  <2>2. /\ heads'[f] = [revision |-> new, sequence |-> sequence + 1]
        /\ \A g \in FamilyIds : g # f => heads'[g] = IF g \in sources THEN NoHead ELSE heads[g]
    BY <1>2 DEF Publishes
  <2>3. \A g \in sources : heads'[g] = NoHead
    BY <1>2, <2>2
  <2> QED BY <2>1, <2>2, <2>3 DEF HasHead, None, NoHead
<1>6. ASSUME NEW g \in sources
      PROVE  /\ DOMAIN families'[g] = DOMAIN NoFamily /\ families'[g].state = "merged"
             /\ families'[g].mergedInto = f /\ families'[g].legacy = families[g].legacy
  <2>1. DOMAIN families[g] = DOMAIN NoFamily /\ g \in FamilyIds
    BY <1>1, <1>2 DEF NamedFamily
  <2>2. families'[g] = [families[g] EXCEPT !.state = "merged", !.mergedInto = f]
    BY <1>2, <2>1
  <2> QED BY <2>1, <2>2 DEF NoFamily
<1>7. \A g \in FamilyIds \ sources : families'[g] = families[g]
  BY <1>2
(* An alias in use stays in use.                                           *)
<1>8. ASSUME NEW row \in aliases, row.status = "resolved"
      PROVE  \E x \in aliases' : x.alias = row.alias /\ x.status = "resolved"
  <2>1. DOMAIN row = {"alias", "family", "status"} /\ row \in rows
    BY <1>1, <1>3 DEF NamingRow
  <2>2. CASE row.family \notin sources
    BY <1>3, <1>8, <2>1, <2>2 DEF RedirectedAliases
  <2>3. CASE row.family \in sources
    <3>1. [row EXCEPT !.family = f, !.status = "resolved"] \in aliases'
      BY <1>3, <2>1, <2>3 DEF RedirectedAliases
    <3>2. [row EXCEPT !.family = f, !.status = "resolved"].alias = row.alias
          /\ [row EXCEPT !.family = f, !.status = "resolved"].status = "resolved"
      BY <2>1
    <3> QED BY <3>1, <3>2
  <2> QED BY <2>2, <2>3
<1>9. ASSUME NEW g \in FamilyIds PROVE NamedFamily(g)'
  <2>1. NamedFamily(g)
    BY <1>1
  <2>2. families[g].state # "none" =>
          \E x \in aliases' : x.alias = families[g].legacy /\ x.status = "resolved"
    BY <1>8, <2>1 DEF NamedFamily
  <2>3. \A h \in FamilyIds : families[h].state # "none" => families'[h].state # "none"
    BY DEF Grows
  <2>4. CASE g \in sources
    <3>1. families'[f].state # "none" /\ families[g].state # "none"
      BY <1>2, <2>3, <2>4
    <3> QED BY <1>2, <1>5, <1>6, <2>2, <2>4, <3>1 DEF NamedFamily, NoFamily
  <2>5. CASE g \notin sources
    <3>1. families'[g] = families[g] /\ (HasHead(g)' <=> HasHead(g))
      <4>1. CASE g = f
        BY <1>2, <1>5, <1>7, <2>1, <2>5, <4>1 DEF NamedFamily
      <4>2. CASE g # f
        BY <1>5, <1>7, <2>5, <4>2 DEF HasHead
      <4> QED BY <4>1, <4>2
    <3>2. families[g].state = "merged" =>
            /\ families[g].mergedInto \in FamilyIds
            /\ families'[families[g].mergedInto].state # "none"
      BY <2>1, <2>3 DEF NamedFamily
    <3> QED BY <2>1, <2>2, <3>1, <3>2 DEF NamedFamily, NoFamily
  <2> QED BY <2>4, <2>5
<1>10. ASSUME NEW row \in aliases' PROVE NamingRow(row)'
  <2>1. \/ row \in rows /\ row.family \notin sources
        \/ \E x \in rows : /\ x.family \in sources
                           /\ \/ row = [x EXCEPT !.status = "retired"]
                              \/ row = [x EXCEPT !.family = f, !.status = "resolved"]
    BY <1>3 DEF RedirectedAliases
  <2>2. CASE row \in rows /\ row.family \notin sources
    BY <1>4, <1>7, <2>2 DEF NamingRow
  <2>3. ASSUME NEW x \in rows, x.family \in sources,
               \/ row = [x EXCEPT !.status = "retired"]
               \/ row = [x EXCEPT !.family = f, !.status = "resolved"]
        PROVE  NamingRow(row)'
    <3>1. DOMAIN x = {"alias", "family", "status"} /\ x.family \in FamilyIds
      BY <1>4, <2>3 DEF NamingRow
    <3>2. CASE row = [x EXCEPT !.status = "retired"]
      <4>1. DOMAIN row = {"alias", "family", "status"} /\ row.family = x.family
            /\ row.status = "retired"
        BY <3>1, <3>2
      <4> QED BY <1>6, <2>3, <3>1, <4>1 DEF NamingRow
    <3>3. CASE row = [x EXCEPT !.family = f, !.status = "resolved"]
      <4>1. DOMAIN row = {"alias", "family", "status"} /\ row.family = f
            /\ row.status = "resolved"
        BY <3>1, <3>3
      <4>2. families'[f].state = "active"
        BY <1>2, <1>7
      <4> QED BY <1>2, <4>1, <4>2 DEF NamingRow
    <3> QED BY <2>3, <3>2, <3>3
  <2> QED BY <2>1, <2>2, <2>3
<1>11. (\A g \in FamilyIds : NamedFamily(g))' /\ (\A row \in aliases : NamingRow(row))'
  BY <1>9, <1>10
<1> QED BY <1>2, <1>11 DEF FamiliesAreNamed

(* A merge that is undone was standing.                                    *)
LEMMA UnmergedStood ==
  ASSUME Forking, NEW p, NEW m \in ProposalIds, NEW man, Unmerging(p, m, man)
  PROVE  /\ Told(m, man) /\ man = manifests[m]
         /\ Standing(m) /\ RetiredBy(m) /\ Replaced(m)
         /\ man.revision \notin Befores(man)
<1>1. Merged(m) /\ man = manifests[m] /\ heads[man.target].revision = man.revision
  BY DEF Unmerging
<1>2. Told(m, man)
  BY <1>1 DEF Forking, ManifestsTell
<1>3. InUse(manifests[m].revision)
  BY <1>1, <1>2 DEF InUse, Told
<1>4. Standing(m) /\ RetiredBy(m) /\ Replaced(m)
  BY <1>1, <1>3 DEF Forking, MergesStand
<1>5. man.revision \notin Befores(man)
  BY <1>1, <1>2, <1>4 DEF Replaced, Told
<1> QED BY <1>1, <1>2, <1>4, <1>5

LEMMA UnmergingNames ==
  ASSUME Forking, Grows, NEW p, NEW m \in ProposalIds, NEW man, Unmerging(p, m, man)
  PROVE  FamiliesAreNamed'
<1>1. /\ DOMAIN families = FamilyIds /\ \A g \in FamilyIds : NamedFamily(g)
      /\ \A row \in aliases : NamingRow(row)
  BY DEF Forking, FamiliesAreNamed
<1>2. /\ \A g \in man.sources : families[g].state = "merged"
      /\ families[man.target].state = "active"
      /\ AliasRowsOf(aliases, Names(man)) = ExpectedAliases(man)
      /\ DOMAIN families' = FamilyIds
      /\ \A g \in FamilyIds \ Affected(man) : heads'[g] = heads[g] /\ families'[g] = families[g]
      /\ aliases' = (aliases \ AliasRowsOf(aliases, Names(man))) \cup man.aliases
  BY DEF Unmerging
<1>3. Told(m, man) /\ RetiredBy(m) /\ man = manifests[m]
  BY UnmergedStood
<1>4. ASSUME NEW g \in Affected(man)
      PROVE  /\ g \in FamilyIds /\ HasHead(g)'
             /\ DOMAIN families'[g] = DOMAIN NoFamily /\ families'[g].state = "active"
  <2>1. PICK x \in man.heads : x.family = g /\ heads'[g].revision = x.revision
    BY DEF Unmerging
  <2>2. PICK y \in man.families : y.family = g /\ families'[g] = y.record
    BY DEF Unmerging
  <2>3. Published(heads'[g].revision)
    BY <1>3, <2>1 DEF Told
  <2>4. HasHead(g)'
    BY <2>3 DEF HasHead, Published, RevisionIds, None
  <2> QED BY <1>3, <2>2, <2>4 DEF Told, Affected
(* An alias in use stays in use.                                           *)
<1>5. ASSUME NEW row \in aliases, row.status = "resolved"
      PROVE  \E x \in aliases' : x.alias = row.alias /\ x.status = "resolved"
  <2>1. CASE row.alias \notin Names(man)
    BY <1>2, <1>5, <2>1 DEF AliasRowsOf
  <2>2. CASE row.alias \in Names(man)
    <3>1. PICK x \in man.aliases : x.alias = row.alias
      BY <2>2 DEF Names
    <3> QED BY <1>2, <1>3, <3>1 DEF Told
  <2> QED BY <2>1, <2>2
<1>6. \A g \in FamilyIds : families[g].state # "none" =>
        families'[g].state # "none" /\ families'[g].legacy = families[g].legacy
  BY DEF Grows
<1>7. ASSUME NEW g \in FamilyIds PROVE NamedFamily(g)'
  <2>1. NamedFamily(g)
    BY <1>1
  <2>2. families[g].state # "none" =>
          \E x \in aliases' : x.alias = families'[g].legacy /\ x.status = "resolved"
    BY <1>5, <1>6, <2>1 DEF NamedFamily
  <2>3. CASE g \in Affected(man)
    <3>1. families[g].state # "none"
      BY <1>2, <2>3 DEF Affected
    <3> QED BY <1>4, <2>2, <2>3, <3>1 DEF NamedFamily, NoFamily
  <2>4. CASE g \notin Affected(man)
    <3>1. families'[g] = families[g] /\ (HasHead(g)' <=> HasHead(g))
      BY <1>2, <2>4 DEF HasHead
    <3>2. families[g].state = "merged" =>
            /\ families[g].mergedInto \in FamilyIds
            /\ families'[families[g].mergedInto].state # "none"
      BY <1>6, <2>1 DEF NamedFamily
    <3> QED BY <2>1, <2>2, <3>1, <3>2 DEF NamedFamily, NoFamily
  <2> QED BY <2>3, <2>4
<1>8. ASSUME NEW row \in aliases' PROVE NamingRow(row)'
  <2>1. CASE row \in man.aliases
    <3>1. DOMAIN row = {"alias", "family", "status"} /\ row.status = "resolved"
          /\ row.family \in Affected(man)
      BY <1>3, <2>1 DEF Told
    <3> QED BY <1>4, <3>1 DEF NamingRow
  <2>2. CASE row \in aliases /\ row.alias \notin Names(man)
    <3>1. NamingRow(row)
      BY <1>1, <2>2
    <3>2. row.family \notin man.sources
      BY <1>3, <2>2 DEF RetiredBy
    <3>3. CASE row.family = man.target
      <4>1. families'[row.family].state = "active"
        BY <1>4, <3>3 DEF Affected
      <4> QED BY <1>2, <3>1, <3>3, <4>1 DEF NamingRow
    <3>4. CASE row.family # man.target
      <4>1. families'[row.family] = families[row.family]
        BY <1>2, <3>1, <3>2, <3>4 DEF Affected, NamingRow
      <4> QED BY <3>1, <4>1 DEF NamingRow
    <3> QED BY <3>3, <3>4
  <2> QED BY <1>2, <2>1, <2>2 DEF AliasRowsOf
<1>9. (\A g \in FamilyIds : NamedFamily(g))' /\ (\A row \in aliases : NamingRow(row))'
  BY <1>7, <1>8
<1> QED BY <1>2, <1>9 DEF FamiliesAreNamed

LEMMA FamiliesKept ==
  ASSUME Forking, Grows, StepKinds
  PROVE  FamiliesAreNamed'
<1>1. CASE UNCHANGED <<families, heads, aliases>>
  <2>1. FamiliesAreNamed
    BY DEF Forking
  <2> QED BY <1>1, <2>1 DEF FamiliesAreNamed, NamedFamily, NamingRow, HasHead, NoFamily
<1> QED
  BY <1>1, PublishingNames, MergingNames, UnmergingNames DEF StepKinds, Quiet, Linking, canonical
-----------------------------------------------------------------------------
(* Which merges stand.                                                     *)

(* As long as no merge is made or undone, nothing that a standing merge    *)
(* replaced or retired comes back.                                         *)
LEMMA StandingStays ==
  ASSUME Forking, UNCHANGED manifests, \A m : Undone(m)' <=> Undone(m),
         \A f \in FamilyIds :
           \/ heads'[f].revision = heads[f].revision
           \/ ~Published(heads'[f].revision),
         \A f \in FamilyIds : families[f].state = "merged" => families'[f].state = "merged",
         \A row \in aliases' : row \in aliases \/ families[row.family].state # "merged"
  PROVE  MergesStand'
<1>1. MergesStand
  BY DEF Forking
<1>2. \A m \in ProposalIds : Merged(m) => Told(m, manifests[m])
  BY DEF Forking, ManifestsTell
<1>3. \A m : (Merged(m)' <=> Merged(m)) /\ (Standing(m)' <=> Standing(m))
  BY DEF Merged, Standing, NoManifest
<1>4. \A m : Befores(manifests[m])' = Befores(manifests[m])
             /\ Names(manifests[m])' = Names(manifests[m])
  BY DEF Befores, Names
<1>5. ASSUME NEW m \in ProposalIds, Standing(m) PROVE RetiredBy(m)' /\ Replaced(m)'
  <2>1. RetiredBy(m) /\ Replaced(m) /\ Told(m, manifests[m])
    BY <1>1, <1>2, <1>5 DEF MergesStand, Standing
  <2>2. manifests[m].sources \subseteq FamilyIds
        /\ \A r \in Befores(manifests[m]) : Published(r)
    BY <2>1 DEF Told, Befores
  <2>3. RetiredBy(m)'
    BY <1>4, <2>1, <2>2 DEF RetiredBy
  <2>4. Replaced(m)'
    BY <1>4, <2>1, <2>2 DEF Replaced
  <2> QED BY <2>3, <2>4
<1>6. ASSUME NEW m \in ProposalIds, NEW n \in ProposalIds, Apart(m, n) PROVE Apart(m, n)'
  BY <1>4, <1>6 DEF Apart
<1>7. ASSUME NEW m \in ProposalIds, Merged(m), InUse(manifests[m].revision)' PROVE Standing(m)
  <2>1. Told(m, manifests[m])
    BY <1>2, <1>7
  <2>2. Published(manifests[m].revision)
    BY <2>1 DEF Told
  <2>3. InUse(manifests[m].revision)
    BY <1>3, <1>4, <1>7, <2>2 DEF InUse
  <2> QED BY <1>1, <1>7, <2>3 DEF MergesStand
<1> QED
  BY <1>1, <1>3, <1>5, <1>6, <1>7 DEF MergesStand

LEMMA PublishingStands ==
  ASSUME Forking, Grows, NEW p, NEW f, NEW new, Publishing(p, f, new)
  PROVE  MergesStand'
<1>1. Publishes(p, f, new, {}) /\ Consumed(p) /\ proposals[p].operation # "unmerge"
  BY DEF Publishing, Publishes
<1>2. \A m : Undone(m)' <=> Undone(m)
  BY <1>1, UndoneByUnmerge
<1>3. ~Published(new) /\ ~Published(None)
      /\ \A g \in FamilyIds : heads'[g].revision \in {new, None, heads[g].revision}
  <2>1. ~Published(None)
    BY DEF Published, RevisionIds, None
  <2> QED BY <1>1, <2>1, PublicationKept
<1>4. \A g \in FamilyIds : families[g].state = "merged" => families'[g].state = "merged"
  BY DEF Publishing
<1>5. \A row \in aliases' : row \in aliases \/ families[row.family].state # "merged"
  BY DEF Publishing, AliasRow
<1>6. UNCHANGED manifests
  BY DEF Publishing
<1>7. \A g \in FamilyIds : heads'[g].revision = heads[g].revision \/ ~Published(heads'[g].revision)
  BY <1>3
<1> QED
  BY <1>2, <1>4, <1>5, <1>6, <1>7, StandingStays

(* A merge: the heads it replaces are no longer heads, and what stands had *)
(* no share in them.                                                       *)
LEMMA MergedFacts ==
  ASSUME Forking, Grows, NEW p \in ProposalIds, NEW f \in FamilyIds, NEW new, NEW sources,
         Merging(p, f, new, sources)
  PROVE  \E rows, man :
           /\ rows = aliases \cup {AliasRow(families[f].legacy, f)}
           /\ aliases' = RedirectedAliases(rows, sources, f)
           /\ man = Manifest(p, f, sources, rows, new)
           /\ man.sources = sources /\ man.target = f /\ man.revision = new
           /\ \A q : q \in Befores(man) <=> \E g \in sources \cup {f} : q = heads[g].revision
           /\ \A row \in rows : row.family \in sources => row.alias \in Names(man)
           /\ ~Merged(p) /\ manifests'[p] = man /\ Merged(p)' /\ ~Undone(p)'
           /\ \A m \in ProposalIds \ {p} : manifests'[m] = manifests[m]
           /\ \A m : Undone(m)' <=> Undone(m)
<1>1. /\ Publishes(p, f, new, sources) /\ Consumed(p) /\ proposals[p].operation = "merge"
      /\ DOMAIN manifests = ProposalIds
      /\ proposals[p].status = "approved"
  BY DEF Merging, Publishes, Forking, ManifestsTell, Consumed, Applicable
<1>2. PICK rows : /\ rows = aliases \cup {AliasRow(families[f].legacy, f)}
                  /\ aliases' = RedirectedAliases(rows, sources, f)
                  /\ manifests' = [manifests EXCEPT ![p] = Manifest(p, f, sources, rows, new)]
  BY DEF Merging
<1>3. PICK man : man = Manifest(p, f, sources, rows, new)
  OBVIOUS
<1>4. /\ man.sources = sources /\ man.target = f /\ man.revision = new
      /\ man.heads = {[family |-> g, revision |-> heads[g].revision] : g \in sources \cup {f}}
      /\ man.aliases = {row \in rows : row.family \in sources \cup {f}}
  BY <1>3 DEF Manifest
<1>5. \A q : q \in Befores(man) <=> \E g \in sources \cup {f} : q = heads[g].revision
  <2>1. \A x \in man.heads : \E g \in sources \cup {f} :
          x = [family |-> g, revision |-> heads[g].revision]
    BY <1>4
  <2>2. \A g \in sources \cup {f} : [family |-> g, revision |-> heads[g].revision] \in man.heads
    BY <1>4
  <2>3. ASSUME NEW g \in sources \cup {f} PROVE heads[g].revision \in Befores(man)
    <3>1. PICK x \in man.heads : x.revision = heads[g].revision
      BY <2>2
    <3> QED BY <3>1 DEF Befores
  <2>4. ASSUME NEW q \in Befores(man) PROVE \E g \in sources \cup {f} : q = heads[g].revision
    <3>1. PICK x \in man.heads : q = x.revision
      BY DEF Befores
    <3> QED BY <2>1, <3>1
  <2> QED BY <2>3, <2>4
<1>6. \A row \in rows : row.family \in sources => row.alias \in Names(man)
  BY <1>4 DEF Names
<1>7. manifests'[p] = man /\ \A m \in ProposalIds \ {p} : manifests'[m] = manifests[m]
  BY <1>1, <1>2, <1>3
<1>8. ~Merged(p)
  BY <1>1 DEF Forking, ManifestsTell, Told
<1>9. Merged(p)'
  <2>1. new # None
    BY <1>1, PublicationKept
  <2>2. man # NoManifest
    BY <1>4, <2>1 DEF NoManifest
  <2> QED BY <1>7, <2>2 DEF Merged, NoManifest
<1>10. \A m : Undone(m)' <=> Undone(m)
  BY <1>1, UndoneByUnmerge
<1>11. ~Undone(p)
  <2> SUFFICES ASSUME NEW x \in ProposalIds, proposals[x].operation = "unmerge",
                      proposals[x].status = "applied", proposals[x].manifest = p
               PROVE  FALSE
    BY DEF Undone
  <2>1. Composed(proposals[x])
    BY DEF Forking, PreviewsAreComposed
  <2> QED BY <1>8, <2>1 DEF Composed, Merged
<1>12. /\ rows = aliases \cup {AliasRow(families[f].legacy, f)}
       /\ aliases' = RedirectedAliases(rows, sources, f)
  BY <1>2
<1>13. man.sources = sources /\ man.target = f /\ man.revision = new
  BY <1>4
<1> HIDE <1>1, <1>2, <1>4
<1> QED
  BY <1>3, <1>5, <1>6, <1>7, <1>8, <1>9, <1>10, <1>11, <1>12, <1>13

LEMMA MergingStands ==
  ASSUME Forking, Grows, NEW p \in ProposalIds, NEW f \in FamilyIds, NEW new, NEW sources,
         Merging(p, f, new, sources)
  PROVE  MergesStand'
<1>1. PICK rows, man :
        /\ rows = aliases \cup {AliasRow(families[f].legacy, f)}
        /\ aliases' = RedirectedAliases(rows, sources, f)
        /\ man = Manifest(p, f, sources, rows, new)
        /\ man.sources = sources /\ man.target = f /\ man.revision = new
        /\ \A q : q \in Befores(man) <=> \E g \in sources \cup {f} : q = heads[g].revision
        /\ \A row \in rows : row.family \in sources => row.alias \in Names(man)
        /\ ~Merged(p) /\ manifests'[p] = man /\ Merged(p)' /\ ~Undone(p)'
        /\ \A m \in ProposalIds \ {p} : manifests'[m] = manifests[m]
        /\ \A m : Undone(m)' <=> Undone(m)
  BY MergedFacts
<1>2. /\ Publishes(p, f, new, sources)
      /\ sources \subseteq FamilyIds \ {f}
      /\ \A g \in sources \cup {f} : families[g].state = "active"
      /\ \A g \in FamilyIds : families'[g] =
           IF g \in sources THEN [families[g] EXCEPT !.state = "merged", !.mergedInto = f]
           ELSE families[g]
  BY DEF Merging
<1>3. MergesStand /\ \A m \in ProposalIds : Merged(m) => Told(m, manifests[m])
  BY DEF Forking, ManifestsTell
<1>4. /\ ~Published(new) /\ new # None
      /\ \A g \in FamilyIds : HasHead(g)' =>
           \/ g = f /\ heads'[g].revision = new
           \/ g # f /\ g \notin sources /\ HasHead(g) /\ heads'[g] = heads[g]
      /\ \A g \in FamilyIds : heads'[g].revision \in {new, None, heads[g].revision}
  <2>1. Publishes(p, f, new, sources)
    BY <1>2
  <2> HIDE <1>1, <1>2, <1>3
  <2> QED BY <2>1, PublicationKept
<1>5. /\ \A m \in ProposalIds \ {p} : (Merged(m)' <=> Merged(m)) /\ (Standing(m)' <=> Standing(m))
      /\ Standing(p)'
  BY <1>1 DEF Merged, Standing, NoManifest
<1>6. ASSUME NEW g \in sources \cup {f}
      PROVE  /\ Published(heads[g].revision) /\ revisions[heads[g].revision].family = g
  BY <1>2 DEF Forking, FamiliesAreNamed, NamedFamily, RevisionsArePublished
<1>7. ~Published(None)
  BY DEF Published, RevisionIds, None
<1>8. ASSUME NEW m \in ProposalIds \ {p}, Merged(m)
      PROVE  /\ Published(manifests[m].revision)
             /\ manifests[m].sources \subseteq FamilyIds
             /\ \A r \in Befores(manifests[m]) : Published(r)
  BY <1>3, <1>8 DEF Told, Befores
<1>9. /\ \A g \in sources : families'[g].state = "merged"
      /\ \A g \in FamilyIds \ sources : families'[g] = families[g]
  <2>1. \A g \in FamilyIds : DOMAIN families[g] = DOMAIN NoFamily
    BY DEF Forking, FamiliesAreNamed, NamedFamily
  <2> QED BY <1>2, <2>1 DEF NoFamily
(* What this merge retired and replaced.                                   *)
<1>10. RetiredBy(p)'
  <2>1. ASSUME NEW row \in aliases', row.family \in sources PROVE row.alias \in Names(man)
    <3>1. \/ row \in rows
          \/ \E x \in rows : x.family \in sources /\ row = [x EXCEPT !.status = "retired"]
          \/ \E x \in rows : row = [x EXCEPT !.family = f, !.status = "resolved"]
      <4>1. row \in RedirectedAliases(rows, sources, f)
        BY <1>1, <2>1
      <4> HIDE <1>1, <1>2, <1>3, <1>4
      <4> QED BY <4>1 DEF RedirectedAliases
    <3>2. \A x \in rows : DOMAIN x = {"alias", "family", "status"}
      BY <1>1 DEF Forking, FamiliesAreNamed, NamingRow, AliasRow
    <3>3. CASE row \in rows
      BY <1>1, <2>1, <3>3
    <3>4. ASSUME NEW x \in rows, x.family \in sources, row = [x EXCEPT !.status = "retired"]
          PROVE  row.alias \in Names(man)
      <4>1. row.alias = x.alias
        BY <3>2, <3>4
      <4> QED BY <1>1, <3>4, <4>1
    <3>5. ASSUME NEW x \in rows, row = [x EXCEPT !.family = f, !.status = "resolved"]
          PROVE  FALSE
      <4>1. row.family = f
        BY <3>2, <3>5
      <4> QED BY <1>2, <2>1, <4>1
    <3> QED BY <3>1, <3>3, <3>4, <3>5
  <2>2. Names(manifests[p])' = Names(man) /\ manifests'[p].sources = sources
    BY <1>1 DEF Names
  <2> QED BY <1>9, <2>1, <2>2 DEF RetiredBy
<1>11. Befores(manifests[p])' = Befores(man)
  BY <1>1 DEF Befores
<1>12. Replaced(p)'
  <2> SUFFICES ASSUME NEW g \in FamilyIds, heads'[g].revision \in Befores(man)
               PROVE  FALSE
    BY <1>11 DEF Replaced
  <2>1. PICK h \in sources \cup {f} : heads'[g].revision = heads[h].revision
    BY <1>1
  <2>2. Published(heads'[g].revision) /\ revisions[heads'[g].revision].family = h
    BY <1>6, <2>1
  <2>3. HasHead(g)'
    BY <1>7, <2>2 DEF HasHead
  <2>4. g # f /\ g \notin sources /\ HasHead(g) /\ heads'[g] = heads[g]
    BY <1>4, <2>2, <2>3
  <2>5. revisions[heads[g].revision].family = g
    BY <2>4 DEF Forking, RevisionsArePublished
  <2> QED BY <2>1, <2>2, <2>4, <2>5
(* What the other merges retired and replaced.                             *)
<1>13. ASSUME NEW m \in ProposalIds \ {p}
       PROVE  /\ manifests'[m] = manifests[m]
              /\ Befores(manifests[m])' = Befores(manifests[m])
              /\ Names(manifests[m])' = Names(manifests[m])
  BY <1>1 DEF Befores, Names
<1>14. ASSUME NEW m \in ProposalIds \ {p}, Standing(m) PROVE RetiredBy(m)'
  <2>1. RetiredBy(m) /\ Merged(m)
    BY <1>3, <1>14 DEF MergesStand, Standing
  <2>2. \A g \in manifests[m].sources : g \in FamilyIds /\ g \notin sources /\ g # f
    BY <1>2, <1>8, <2>1 DEF RetiredBy
  <2>3. ASSUME NEW row \in aliases', row.family \in manifests[m].sources
        PROVE  row \in aliases
    <3>1. \/ row \in rows
          \/ \E x \in rows : x.family \in sources /\ row = [x EXCEPT !.status = "retired"]
          \/ \E x \in rows : row = [x EXCEPT !.family = f, !.status = "resolved"]
      <4>1. row \in RedirectedAliases(rows, sources, f)
        BY <1>1, <2>3
      <4> HIDE <1>1, <1>2, <1>3, <1>4
      <4> QED BY <4>1 DEF RedirectedAliases
    <3>2. \A x \in rows : DOMAIN x = {"alias", "family", "status"}
      BY <1>1 DEF Forking, FamiliesAreNamed, NamingRow, AliasRow
    <3>3. CASE row \in rows
      BY <1>1, <2>2, <2>3, <3>3 DEF AliasRow
    <3>4. ASSUME NEW x \in rows, x.family \in sources, row = [x EXCEPT !.status = "retired"]
          PROVE  FALSE
      <4>1. row.family = x.family
        BY <3>2, <3>4
      <4> QED BY <2>2, <2>3, <3>4, <4>1
    <3>5. ASSUME NEW x \in rows, row = [x EXCEPT !.family = f, !.status = "resolved"]
          PROVE  FALSE
      <4>1. row.family = f
        BY <3>2, <3>5
      <4> QED BY <2>2, <2>3, <4>1
    <3> QED BY <3>1, <3>3, <3>4, <3>5
  <2>4. \A g \in manifests[m].sources : families'[g].state = "merged"
    BY <1>9, <2>1, <2>2 DEF RetiredBy
  <2>5. \A row \in aliases' : row.family \in manifests[m].sources => row.alias \in Names(manifests[m])
    BY <2>1, <2>3 DEF RetiredBy
  <2> QED BY <1>13, <2>4, <2>5 DEF RetiredBy
<1>15. ASSUME NEW m \in ProposalIds \ {p}, Standing(m) PROVE Replaced(m)'
  <2>1. Replaced(m) /\ \A r \in Befores(manifests[m]) : Published(r)
    BY <1>3, <1>8, <1>15 DEF MergesStand, Standing
  <2> QED BY <1>4, <1>7, <1>13, <2>1 DEF Replaced
<1>16. ASSUME NEW m \in ProposalIds \ {p}, Standing(m) PROVE Apart(p, m)' /\ Apart(m, p)'
  <2>1. RetiredBy(m) /\ Replaced(m)
    BY <1>3, <1>16 DEF MergesStand
  <2>2. sources \cap manifests[m].sources = {}
    BY <1>2, <2>1 DEF RetiredBy
  <2>3. Befores(man) \cap Befores(manifests[m]) = {}
    <3>1. ASSUME NEW q \in Befores(man), q \in Befores(manifests[m]) PROVE FALSE
      <4>1. PICK g \in sources \cup {f} : q = heads[g].revision
        BY <1>1
      <4>2. g \in FamilyIds
        BY <1>2
      <4> QED BY <2>1, <3>1, <4>1, <4>2 DEF Replaced
    <3> QED BY <3>1
  <2>4. manifests'[p].sources = sources
    BY <1>1
  <2> QED BY <1>11, <1>13, <2>2, <2>3, <2>4 DEF Apart
<1>17. ASSUME NEW m \in ProposalIds \ {p}, NEW n \in ProposalIds \ {p}, Apart(m, n)
       PROVE  Apart(m, n)'
  BY <1>13, <1>17 DEF Apart
<1>18. ASSUME NEW m \in ProposalIds \ {p}, Merged(m), InUse(manifests[m].revision)'
       PROVE  Standing(m)
  <2>1. PICK r : r = manifests[m].revision /\ Published(r)
    BY <1>8, <1>18
  <2>2. \/ \E g \in FamilyIds : heads'[g].revision = r
        \/ \E n \in ProposalIds : Standing(n)' /\ r \in Befores(manifests[n])'
    BY <1>13, <1>18, <2>1 DEF InUse
  <2>3. InUse(r)
    <3>1. ASSUME NEW g \in FamilyIds, heads'[g].revision = r PROVE InUse(r)
      BY <1>4, <1>7, <2>1, <3>1 DEF InUse
    <3>2. ASSUME NEW n \in ProposalIds, Standing(n)', r \in Befores(manifests[n])' PROVE InUse(r)
      <4>1. CASE n = p
        <5>1. manifests'[p] = man /\ r \in Befores(man)
          BY <1>1, <3>2, <4>1 DEF Befores
        <5>2. PICK g \in sources \cup {f} : r = heads[g].revision
          BY <1>1, <5>1
        <5>3. g \in FamilyIds
          BY <1>2, <5>2
        <5> QED BY <5>2, <5>3 DEF InUse
      <4>2. CASE n # p
        BY <1>5, <1>13, <3>2, <4>2 DEF InUse
      <4> QED BY <4>1, <4>2
    <3> QED BY <2>2, <3>1, <3>2
  <2> QED BY <1>3, <1>18, <2>1, <2>3 DEF MergesStand
<1>19. \A m \in ProposalIds : Standing(m)' => RetiredBy(m)' /\ Replaced(m)'
  BY <1>5, <1>10, <1>12, <1>14, <1>15
<1>20. \A m, n \in ProposalIds : Standing(m)' /\ Standing(n)' /\ m # n => Apart(m, n)'
  BY <1>3, <1>5, <1>16, <1>17 DEF MergesStand
<1>21. \A m \in ProposalIds : Merged(m)' /\ InUse(manifests[m].revision)' => Standing(m)'
  BY <1>5, <1>18
<1> QED
  BY <1>19, <1>20, <1>21 DEF MergesStand

LEMMA UnmergingStands ==
  ASSUME Forking, Grows, NEW p, NEW m \in ProposalIds, NEW man, Unmerging(p, m, man)
  PROVE  /\ MergesStand'
         /\ \A n : Undone(n)' <=> Undone(n) \/ n = m
<1>1. /\ Told(m, man) /\ man = manifests[m]
      /\ Standing(m) /\ RetiredBy(m) /\ Replaced(m)
      /\ man.revision \notin Befores(man)
  BY UnmergedStood
<1>2. /\ Consumed(p)
      /\ proposals[p].operation = "unmerge" /\ proposals[p].manifest = m
      /\ UNCHANGED manifests
      /\ heads[man.target].revision = man.revision
      /\ families[man.target].state = "active"
      /\ \A g \in FamilyIds \ Affected(man) : heads'[g] = heads[g] /\ families'[g] = families[g]
      /\ \A g \in Affected(man) :
           \E x \in man.heads : x.family = g /\ heads'[g].revision = x.revision
      /\ aliases' = (aliases \ AliasRowsOf(aliases, Names(man))) \cup man.aliases
  BY DEF Unmerging
<1>3. MergesStand /\ \A n \in ProposalIds : Merged(n) => Told(n, manifests[n])
  BY DEF Forking, ManifestsTell
<1>4. \A n : Undone(n)' <=> Undone(n) \/ n = m
  BY <1>2, UndoneByUnmerge
<1>5. \A n : (Merged(n)' <=> Merged(n)) /\ (Standing(n)' <=> Standing(n) /\ n # m)
  BY <1>2, <1>4 DEF Merged, Standing, NoManifest
<1>6. \A n : /\ Befores(manifests[n])' = Befores(manifests[n])
             /\ Names(manifests[n])' = Names(manifests[n])
  BY <1>2 DEF Befores, Names
<1>7. \A g \in FamilyIds :
        \/ heads'[g] = heads[g] /\ g # man.target
        \/ heads'[g].revision \in Befores(man)
  BY <1>2 DEF Befores, Affected
<1>8. ASSUME NEW n \in ProposalIds, Standing(n), n # m PROVE RetiredBy(n)' /\ Replaced(n)'
  <2>1. /\ RetiredBy(n) /\ Replaced(n) /\ Apart(m, n) /\ Told(n, manifests[n])
    BY <1>1, <1>3, <1>8 DEF MergesStand, Standing
  <2>2. \A g \in manifests[n].sources : g \in FamilyIds \ Affected(man)
    BY <1>1, <1>2, <2>1 DEF Told, Apart, RetiredBy, Affected
  <2>3. \A row \in man.aliases : row.family \in Affected(man)
    BY <1>1 DEF Told
  <2>4. RetiredBy(n)'
    <3>1. \A g \in manifests[n].sources : families'[g].state = "merged"
      BY <1>2, <2>1, <2>2 DEF RetiredBy
    <3>2. \A row \in aliases' : row.family \in manifests[n].sources => row.alias \in Names(manifests[n])
      BY <1>2, <2>1, <2>2, <2>3 DEF RetiredBy
    <3> QED BY <1>2, <1>6, <3>1, <3>2 DEF RetiredBy
  <2>5. Replaced(n)'
    BY <1>1, <1>6, <1>7, <2>1 DEF Replaced, Apart
  <2> QED BY <2>4, <2>5
<1>9. ASSUME NEW n \in ProposalIds, NEW o \in ProposalIds, Apart(n, o) PROVE Apart(n, o)'
  BY <1>2, <1>6, <1>9 DEF Apart
<1>10. ASSUME NEW n \in ProposalIds, Merged(n), InUse(manifests[n].revision)'
       PROVE  Standing(n) /\ n # m
  <2>1. PICK r : r = manifests[n].revision
    OBVIOUS
  <2>2. \/ \E g \in FamilyIds : heads'[g].revision = r
        \/ \E o \in ProposalIds : Standing(o) /\ o # m /\ r \in Befores(manifests[o])
    BY <1>2, <1>5, <1>6, <1>10, <2>1 DEF InUse
  <2>3. CASE r \in Befores(man)
    <3>1. InUse(r)
      BY <1>1, <2>3 DEF InUse
    <3> QED BY <1>1, <1>3, <1>10, <2>1, <2>3, <3>1 DEF MergesStand
  <2>4. ASSUME NEW g \in FamilyIds, heads[g].revision = r, g # man.target
        PROVE  Standing(n) /\ n # m
    <3>1. InUse(r)
      BY <2>4 DEF InUse
    <3>2. Standing(n)
      BY <1>3, <1>10, <2>1, <3>1 DEF MergesStand
    <3>3. n # m
      <4> SUFFICES ASSUME n = m PROVE FALSE
        OBVIOUS
      <4>1. r = man.revision /\ Published(r) /\ revisions[r].family = man.target
        BY <1>1, <2>1 DEF Told
      <4>2. HasHead(g)
        BY <2>4, <4>1 DEF HasHead, Published, RevisionIds, None
      <4>3. revisions[r].family = g
        BY <2>4, <4>2 DEF Forking, RevisionsArePublished
      <4> QED BY <2>4, <4>1, <4>3
    <3> QED BY <3>2, <3>3
  <2>5. ASSUME NEW o \in ProposalIds, Standing(o), r \in Befores(manifests[o])
        PROVE  Standing(n) /\ n # m
    <3>1. InUse(r)
      BY <2>5 DEF InUse
    <3>2. Standing(n)
      BY <1>3, <1>10, <2>1, <3>1 DEF MergesStand
    <3>3. n # m
      <4> SUFFICES ASSUME n = m PROVE FALSE
        OBVIOUS
      <4>1. Replaced(o) /\ man.target \in FamilyIds
        BY <1>1, <1>3, <2>5 DEF MergesStand, Told
      <4> QED BY <1>1, <1>2, <2>1, <2>5, <4>1 DEF Replaced
    <3> QED BY <3>2, <3>3
  <2> QED BY <1>7, <2>2, <2>3, <2>4, <2>5
<1>11. \A n \in ProposalIds : Standing(n)' => RetiredBy(n)' /\ Replaced(n)'
  BY <1>5, <1>8
<1>12. \A n, o \in ProposalIds : Standing(n)' /\ Standing(o)' /\ n # o => Apart(n, o)'
  BY <1>3, <1>5, <1>9 DEF MergesStand
<1>13. \A n \in ProposalIds : Merged(n)' /\ InUse(manifests[n].revision)' => Standing(n)'
  BY <1>5, <1>10
<1> QED
  BY <1>4, <1>11, <1>12, <1>13 DEF MergesStand

LEMMA MergesKept ==
  ASSUME Forking, Grows, StepKinds
  PROVE  MergesStand'
<1>1. CASE Quiet
  <2>1. \A m : Undone(m)' <=> Undone(m)
    BY <1>1, QuietUndoesNothing
  <2>2. UNCHANGED <<heads, families, aliases, manifests>>
    BY <1>1 DEF Quiet, canonical
  <2> QED BY <2>1, <2>2, StandingStays
<1>2. ASSUME NEW p \in ProposalIds, Linking(p) PROVE MergesStand'
  <2>1. \A m : Undone(m)' <=> Undone(m)
    BY <1>2, UndoneByUnmerge DEF Linking
  <2>2. UNCHANGED <<heads, families, aliases, manifests>>
    BY <1>2 DEF Linking
  <2> QED BY <2>1, <2>2, StandingStays
<1> QED
  BY <1>1, <1>2, PublishingStands, MergingStands, UnmergingStands DEF StepKinds
-----------------------------------------------------------------------------
(* The revisions that share a parent.                                      *)

LEMMA AppendedSays ==
  ASSUME transitions \in Seq(Transitions), NEW t \in Transitions,
         transitions' = Append(transitions, t),
         NEW r, r \notin t.from \cup t.to, NEW state, LastSays(r, state)
  PROVE  LastSays(r, state)'
<1>1. Len(transitions) \in Nat /\ Len(transitions') = Len(transitions) + 1
  OBVIOUS
<1>2. \A i \in 1..Len(transitions) : transitions'[i] = transitions[i]
  OBVIOUS
<1>3. transitions'[Len(transitions) + 1] = t
  OBVIOUS
<1>4. PICK i \in 1..Len(transitions) :
        /\ r \in transitions[i].to /\ transitions[i].state = state
        /\ \A j \in i + 1..Len(transitions) : r \notin transitions[j].from \cup transitions[j].to
  BY DEF LastSays
<1>5. \A j \in i + 1..Len(transitions') : j \in i + 1..Len(transitions) \/ j = Len(transitions) + 1
  BY <1>1
<1>6. \A j \in i + 1..Len(transitions') : r \notin transitions'[j].from \cup transitions'[j].to
  BY <1>1, <1>2, <1>3, <1>4, <1>5
<1>7. i \in 1..Len(transitions')
  BY <1>1
<1> QED
  BY <1>2, <1>4, <1>6, <1>7 DEF LastSays

(* What an UNMERGE appends invalidates the merged revision and no other.   *)
LEMMA UnmergeSays ==
  ASSUME transitions \in Seq(Transitions), NEW a \in Transitions, NEW b \in Transitions,
         transitions' = transitions \o <<a, b>>, NEW r, NEW state, r \notin b.from \cup b.to
  PROVE  /\ r \in a.to /\ a.state = state => LastSays(r, state)'
         /\ r \notin a.from \cup a.to /\ LastSays(r, state) => LastSays(r, state)'
<1>1. PICK n \in Nat : n = Len(transitions)
  OBVIOUS
<1>2. Len(transitions') = n + 2
  BY <1>1
<1>3. /\ \A i \in 1..n : transitions'[i] = transitions[i]
      /\ transitions'[n + 1] = a /\ transitions'[n + 2] = b
  BY <1>1
<1>4. ASSUME r \in a.to, a.state = state PROVE LastSays(r, state)'
  <2>1. n + 1 \in 1..n + 2 /\ \A j \in n + 1 + 1..n + 2 : j = n + 2
    OBVIOUS
  <2> QED BY <1>2, <1>3, <1>4, <2>1 DEF LastSays
<1>5. ASSUME r \notin a.from \cup a.to, LastSays(r, state) PROVE LastSays(r, state)'
  <2>1. PICK i \in 1..n :
          /\ r \in transitions[i].to /\ transitions[i].state = state
          /\ \A j \in i + 1..n : r \notin transitions[j].from \cup transitions[j].to
    BY <1>1, <1>5 DEF LastSays
  <2>2. \A j \in i + 1..n + 2 : j \in i + 1..n \/ j = n + 1 \/ j = n + 2
    OBVIOUS
  <2>3. ASSUME NEW j \in i + 1..n + 2
        PROVE  r \notin transitions'[j].from \cup transitions'[j].to
    <3>1. CASE j \in i + 1..n
      <4>1. j \in 1..n
        BY <3>1
      <4> QED BY <1>3, <2>1, <3>1, <4>1
    <3> QED BY <1>3, <1>5, <2>2, <3>1
  <2>4. i \in 1..n + 2
    OBVIOUS
  <2> QED BY <1>2, <1>3, <2>1, <2>3, <2>4 DEF LastSays
<1> QED BY <1>4, <1>5

(* A merge that was undone is not in use.                                  *)
LEMMA UndoneIsNotInUse ==
  ASSUME Forking, NEW m \in ProposalIds, Merged(m), Undone(m)
  PROVE  /\ Published(manifests[m].revision) /\ ~InUse(manifests[m].revision)
         /\ LastSays(manifests[m].revision, "invalidated")
BY DEF Forking, MergesStand, Standing, ManifestsTell, Told, ForksAreOfUndone

LEMMA ForksPublish ==
  ASSUME Forking, Grows, NEW p, NEW f, NEW new, NEW retired, Publishes(p, f, new, retired),
         \A q \in proposals[p].base :
           /\ Published(q) /\ revisions[q].family \in FamilyIds \cap (retired \cup {f})
           /\ heads[revisions[q].family].revision = q,
         \A m : Undone(m)' <=> Undone(m),
         \A m \in ProposalIds : Standing(m)' =>
           \/ Standing(m) /\ manifests'[m] = manifests[m]
           \/ /\ manifests'[m].revision = new
              /\ \A q \in Befores(manifests[m])' : \E g \in FamilyIds : heads[g].revision = q,
         \A m \in ProposalIds : Merged(m)' /\ Undone(m) => Merged(m)
  PROVE  ForksAreOfUndone'
<1>1. ForksAreOfUndone /\ transitions \in Seq(Transitions)
  BY DEF Forking, RevisionsArePublished
<1>2. /\ transitions' = Append(transitions, NewTransition(p, new))
      /\ NewTransition(p, new) \in Transitions
      /\ NewTransition(p, new).from = proposals[p].base /\ NewTransition(p, new).to = {new}
      /\ revisions'[new].parents = proposals[p].base
  BY DEF Publishes, NewTransition
<1>3. /\ Published(new)' /\ ~Published(new) /\ new # None
      /\ \A r : Published(r)' /\ r # new => Published(r)
      /\ \A g \in FamilyIds : HasHead(g)' =>
           \/ g = f /\ heads'[g].revision = new
           \/ g # f /\ g \notin retired /\ HasHead(g) /\ heads'[g] = heads[g]
      /\ \A g \in FamilyIds : heads'[g].revision \in {new, None, heads[g].revision}
  BY PublicationKept
<1>4. ~Published(None)
  BY DEF Published, RevisionIds, None
<1>5. \A m \in ProposalIds : Merged(m) => Merged(m)' /\ manifests'[m] = manifests[m]
  BY DEF Grows, Merged, NoManifest
<1>6. \A r : UndoneRevision(r)' <=> UndoneRevision(r)
  BY <1>5 DEF UndoneRevision
<1>7. \A r : Published(r) =>
        r \in RevisionIds /\ revisions'[r].parents = revisions[r].parents
        /\ \A q \in revisions[r].parents : Published(q)
  BY PublishedGrows DEF Forking, RevisionsArePublished
<1>8. \A q \in proposals[p].base :
        Published(q) /\ \E g \in FamilyIds : heads[g].revision = q
  OBVIOUS
<1>9. ASSUME NEW m \in ProposalIds, Merged(m)', Undone(m)'
      PROVE  LastSays(manifests[m].revision, "invalidated")'
  <2>1. Merged(m) /\ Undone(m) /\ manifests'[m] = manifests[m]
    BY <1>5, <1>9
  <2>2. PICK r : r = manifests[m].revision
    OBVIOUS
  <2>3. Published(r) /\ ~InUse(r) /\ LastSays(r, "invalidated")
    BY <2>1, <2>2, UndoneIsNotInUse
  <2>4. r \notin NewTransition(p, new).from \cup NewTransition(p, new).to
    BY <1>2, <1>3, <1>8, <2>3 DEF InUse
  <2>5. LastSays(r, "invalidated")'
    BY <1>1, <1>2, <2>3, <2>4, AppendedSays
  <2> QED BY <2>1, <2>2, <2>5
(* No parent of the new revision is still a head, and none was taken by a  *)
(* merge that stands.                                                      *)
<1>10. ASSUME NEW q \in proposals[p].base PROVE Succeeded(new, q)'
  <2>1. ASSUME NEW g \in FamilyIds, heads'[g].revision = q PROVE FALSE
    <3>1. HasHead(g)' /\ q # new
      BY <1>3, <1>4, <1>8, <2>1 DEF HasHead
    <3>2. g # f /\ g \notin retired /\ HasHead(g) /\ heads'[g] = heads[g]
      BY <1>3, <2>1, <3>1
    <3>3. revisions[q].family = g
      BY <2>1, <3>2 DEF Forking, RevisionsArePublished
    <3> QED BY <3>2, <3>3
  <2>2. ASSUME NEW m \in ProposalIds, Standing(m)', q \in Befores(manifests[m])'
        PROVE  manifests'[m].revision = new
    <3>1. CASE Standing(m) /\ manifests'[m] = manifests[m]
      <4>1. Replaced(m)
        BY <3>1 DEF Forking, MergesStand
      <4>2. q \in Befores(manifests[m])
        BY <2>2, <3>1 DEF Befores
      <4> QED BY <1>8, <4>1, <4>2 DEF Replaced
    <3> QED BY <2>2, <3>1
  <2> QED BY <2>1, <2>2 DEF Succeeded
<1>11. ASSUME NEW r, Published(r), NEW q \in revisions[r].parents, Succeeded(r, q)
       PROVE  Succeeded(r, q)' /\ \A g \in FamilyIds : heads[g].revision # q
  <2>1. Published(q)
    BY <1>7, <1>11
  <2>2. \A g \in FamilyIds : heads'[g].revision # q
    BY <1>3, <1>4, <1>11, <2>1 DEF Succeeded
  <2>3. ASSUME NEW m \in ProposalIds, Standing(m)', q \in Befores(manifests[m])'
        PROVE  manifests'[m].revision = r
    <3>1. CASE Standing(m) /\ manifests'[m] = manifests[m]
      <4>1. q \in Befores(manifests[m])
        BY <2>3, <3>1 DEF Befores
      <4> QED BY <1>11, <3>1, <4>1 DEF Succeeded
    <3>2. CASE \E g \in FamilyIds : heads[g].revision = q
      BY <1>11, <3>2 DEF Succeeded
    <3> QED BY <2>3, <3>1, <3>2
  <2> QED BY <1>11, <2>2, <2>3 DEF Succeeded
<1>12. ASSUME NEW r \in RevisionIds, Published(r)'
       PROVE  UndoneRevision(r)' \/ \A q \in revisions'[r].parents : Succeeded(r, q)'
  <2>1. CASE r = new
    BY <1>2, <1>10, <2>1
  <2>2. CASE r # new
    <3>1. Published(r) /\ revisions'[r].parents = revisions[r].parents
      BY <1>3, <1>7, <1>12, <2>2
    <3>2. UndoneRevision(r) \/ \A q \in revisions[r].parents : Succeeded(r, q)
      BY <1>1, <3>1 DEF ForksAreOfUndone
    <3> QED BY <1>6, <1>11, <3>1, <3>2
  <2> QED BY <2>1, <2>2
<1>13. ASSUME NEW s \in RevisionIds, Published(s), NEW q \in proposals[p].base, q \in revisions[s].parents
       PROVE  UndoneRevision(s)
  <2>1. UndoneRevision(s) \/ Succeeded(s, q)
    BY <1>1, <1>13 DEF ForksAreOfUndone
  <2> QED BY <1>8, <2>1 DEF Succeeded
<1>14. ASSUME NEW r \in RevisionIds, NEW s \in RevisionIds, Published(r)', Published(s)', r # s,
              revisions'[r].parents \cap revisions'[s].parents # {}
       PROVE  UndoneRevision(r)' \/ UndoneRevision(s)'
  <2>1. CASE r # new /\ s # new
    BY <1>1, <1>3, <1>6, <1>7, <1>14, <2>1 DEF ForksAreOfUndone
  <2>2. CASE r = new
    <3>1. Published(s) /\ revisions'[s].parents = revisions[s].parents
      BY <1>3, <1>7, <1>14, <2>2
    <3> QED BY <1>2, <1>6, <1>13, <1>14, <2>2, <3>1
  <2>3. CASE s = new
    <3>1. Published(r) /\ revisions'[r].parents = revisions[r].parents
      BY <1>3, <1>7, <1>14, <2>3
    <3> QED BY <1>2, <1>6, <1>13, <1>14, <2>3, <3>1
  <2> QED BY <2>1, <2>2, <2>3
<1> QED
  BY <1>9, <1>12, <1>14 DEF ForksAreOfUndone

LEMMA ForksStay ==
  ASSUME Forking, UNCHANGED <<heads, revisions, transitions, manifests>>,
         \A m : Undone(m)' <=> Undone(m)
  PROVE  ForksAreOfUndone'
<1>1. ForksAreOfUndone
  BY DEF Forking
<1>2. /\ \A m : (Merged(m)' <=> Merged(m)) /\ (Standing(m)' <=> Standing(m))
      /\ \A m : Befores(manifests[m])' = Befores(manifests[m])
      /\ \A r : Published(r)' <=> Published(r)
  BY DEF Merged, Standing, Befores, Published, NoManifest
<1>3. \A r : UndoneRevision(r)' <=> UndoneRevision(r)
  BY <1>2 DEF UndoneRevision
<1>4. \A r, q : Succeeded(r, q) => Succeeded(r, q)'
  BY <1>2 DEF Succeeded
<1>5. \A r, state : LastSays(r, state) => LastSays(r, state)'
  BY DEF LastSays
<1> QED
  BY <1>1, <1>2, <1>3, <1>4, <1>5 DEF ForksAreOfUndone

LEMMA PublishingForks ==
  ASSUME Forking, Grows, NEW p \in ProposalIds, NEW f \in FamilyIds, NEW new \in RevisionIds,
         Publishing(p, f, new)
  PROVE  ForksAreOfUndone'
<1>1. /\ Publishes(p, f, new, {}) /\ Consumed(p) /\ proposals[p].operation # "unmerge"
      /\ UNCHANGED manifests
      /\ \A q \in proposals[p].base :
           Published(q) /\ revisions[q].family = f /\ heads[f].revision = q
  BY DEF Publishing, Publishes
<1>2. \A m : Undone(m)' <=> Undone(m)
  BY <1>1, UndoneByUnmerge
<1>3. \A m \in ProposalIds : (Merged(m)' <=> Merged(m)) /\ (Standing(m)' <=> Standing(m))
  BY <1>1, <1>2 DEF Merged, Standing, NoManifest
<1>4. \A q \in proposals[p].base :
        /\ Published(q) /\ revisions[q].family \in FamilyIds \cap ({} \cup {f})
        /\ heads[revisions[q].family].revision = q
  BY <1>1
<1>5. \A m \in ProposalIds : Standing(m)' => Standing(m) /\ manifests'[m] = manifests[m]
  BY <1>1, <1>3
<1> QED
  BY <1>1, <1>2, <1>3, <1>4, <1>5, ForksPublish

LEMMA MergingForks ==
  ASSUME Forking, Grows, NEW p \in ProposalIds, NEW f \in FamilyIds, NEW new \in RevisionIds,
         NEW sources, Merging(p, f, new, sources)
  PROVE  ForksAreOfUndone'
<1>1. PICK rows, man :
        /\ man.revision = new
        /\ \A q : q \in Befores(man) <=> \E g \in sources \cup {f} : q = heads[g].revision
        /\ ~Merged(p) /\ manifests'[p] = man /\ Merged(p)' /\ ~Undone(p)'
        /\ \A m \in ProposalIds \ {p} : manifests'[m] = manifests[m]
        /\ \A m : Undone(m)' <=> Undone(m)
  BY MergedFacts
<1>2. /\ Publishes(p, f, new, sources) /\ sources \subseteq FamilyIds
      /\ \A q \in proposals[p].base :
           /\ Published(q) /\ revisions[q].family \in FamilyIds \cap (sources \cup {f})
           /\ heads[revisions[q].family].revision = q
  BY DEF Merging
<1>3. Befores(manifests[p])' = Befores(man)
  BY <1>1 DEF Befores
<1>4. ASSUME NEW m \in ProposalIds, Standing(m)'
      PROVE  \/ Standing(m) /\ manifests'[m] = manifests[m]
             \/ /\ manifests'[m].revision = new
                /\ \A q \in Befores(manifests[m])' : \E g \in FamilyIds : heads[g].revision = q
  <2>1. CASE m = p
    BY <1>1, <1>2, <1>3, <2>1
  <2>2. CASE m # p
    BY <1>1, <1>4, <2>2 DEF Standing, Merged, NoManifest
  <2> QED BY <2>1, <2>2
<1>5. ASSUME NEW m \in ProposalIds, Merged(m)', Undone(m) PROVE Merged(m)
  BY <1>1, <1>5 DEF Merged, NoManifest
<1> QED
  BY <1>1, <1>2, <1>4, <1>5, ForksPublish

LEMMA UnmergingForks ==
  ASSUME Forking, Grows, NEW p, NEW m \in ProposalIds, NEW man, Unmerging(p, m, man)
  PROVE  ForksAreOfUndone'
<1>1. /\ Told(m, man) /\ man = manifests[m] /\ Standing(m) /\ man.revision \notin Befores(man)
      /\ \A n : Undone(n)' <=> Undone(n) \/ n = m
  BY UnmergedStood, UnmergingStands
<1>2. /\ Consumed(p) /\ UNCHANGED manifests
      /\ heads[man.target].revision = man.revision
      /\ \A g \in FamilyIds \ Affected(man) : heads'[g] = heads[g]
      /\ \A g \in Affected(man) : \E x \in man.heads : x.family = g /\ heads'[g].revision = x.revision
      /\ \A r \in RevisionIds : Record(revisions'[r]) = Record(revisions[r])
  BY DEF Unmerging
<1>3. ForksAreOfUndone /\ transitions \in Seq(Transitions)
  BY DEF Forking, RevisionsArePublished
<1>4. transitions' = transitions \o
        << [from |-> {man.revision}, to |-> {man.revision}, state |-> "invalidated", at |-> now],
           [from |-> {}, to |-> Befores(man), state |-> "active", at |-> now] >>
  BY DEF Unmerging
<1> DEFINE a == [from |-> {man.revision}, to |-> {man.revision}, state |-> "invalidated", at |-> now]
           b == [from |-> {}, to |-> Befores(man), state |-> "active", at |-> now]
<1>5. a \in Transitions /\ b \in Transitions
  <2>1. man.revision \in RevisionIds /\ Befores(man) \subseteq RevisionIds /\ now \in Nat
    BY <1>1, <1>2 DEF Told, Befores, Published, Consumed
  <2>2. {"invalidated", "active"} \subseteq RevisionStates
    BY DEF RevisionStates
  <2> QED BY <2>1, <2>2 DEF Transitions
<1>6. /\ a.from = {man.revision} /\ a.to = {man.revision} /\ a.state = "invalidated"
      /\ b.from = {} /\ b.to = Befores(man)
  OBVIOUS
<1>7. transitions' = transitions \o <<a, b>>
  BY <1>4
<1> HIDE DEF a, b
<1>8. \A n : (Merged(n)' <=> Merged(n)) /\ (Standing(n)' => Standing(n))
  BY <1>1, <1>2 DEF Merged, Standing, NoManifest
<1>9. \A n : Befores(manifests[n])' = Befores(manifests[n])
  BY <1>2 DEF Befores
<1>10. \A r : /\ Published(r)' <=> Published(r)
              /\ Published(r) => r \in RevisionIds /\ revisions'[r].parents = revisions[r].parents
  BY <1>2 DEF Published, Record
<1>11. \A r : UndoneRevision(r) => UndoneRevision(r)'
  BY <1>1, <1>2, <1>8 DEF UndoneRevision
<1>12. UndoneRevision(man.revision)'
  BY <1>1, <1>2, <1>8 DEF UndoneRevision, Standing
<1>13. ASSUME NEW n \in ProposalIds, Merged(n)', Undone(n)'
       PROVE  LastSays(manifests[n].revision, "invalidated")'
  <2>1. PICK r : r = manifests[n].revision
    OBVIOUS
  <2>2. CASE n = m
    <3>1. r = man.revision /\ r \notin b.from \cup b.to
      BY <1>1, <1>6, <2>1, <2>2
    <3>2. LastSays(r, "invalidated")'
      BY <1>3, <1>5, <1>6, <1>7, <3>1, UnmergeSays
    <3> QED BY <1>2, <2>1, <3>2
  <2>3. CASE n # m
    <3>1. Published(r) /\ ~InUse(r) /\ LastSays(r, "invalidated")
      BY <1>1, <1>8, <1>13, <2>1, <2>3, UndoneIsNotInUse
    <3>2. r # man.revision
      BY <1>1, <1>2, <3>1 DEF InUse, Told
    <3>3. r \notin Befores(man)
      BY <1>1, <3>1 DEF InUse
    <3>4. LastSays(r, "invalidated")'
      BY <1>3, <1>5, <1>6, <1>7, <3>1, <3>2, <3>3, UnmergeSays
    <3> QED BY <1>2, <2>1, <3>4
  <2> QED BY <2>2, <2>3
<1>14. ASSUME NEW r, r # man.revision, NEW q, Succeeded(r, q) PROVE Succeeded(r, q)'
  <2>1. ASSUME NEW g \in FamilyIds, heads'[g].revision = q PROVE FALSE
    <3>1. CASE g \in Affected(man)
      <4>1. q \in Befores(man)
        BY <1>2, <2>1, <3>1 DEF Befores
      <4> QED BY <1>1, <1>14, <4>1 DEF Succeeded
    <3>2. CASE g \notin Affected(man)
      BY <1>2, <1>14, <2>1, <3>2 DEF Succeeded
    <3> QED BY <3>1, <3>2
  <2>2. \A n \in ProposalIds : Standing(n)' /\ q \in Befores(manifests[n])' => manifests'[n].revision = r
    BY <1>2, <1>8, <1>9, <1>14 DEF Succeeded
  <2> QED BY <2>1, <2>2 DEF Succeeded
<1>15. ASSUME NEW r \in RevisionIds, Published(r)'
       PROVE  UndoneRevision(r)' \/ \A q \in revisions'[r].parents : Succeeded(r, q)'
  <2>1. UndoneRevision(r) \/ \A q \in revisions[r].parents : Succeeded(r, q)
    BY <1>3, <1>10, <1>15 DEF ForksAreOfUndone
  <2>2. CASE r = man.revision
    BY <1>12, <2>2
  <2>3. CASE r # man.revision
    BY <1>10, <1>11, <1>14, <1>15, <2>1, <2>3
  <2> QED BY <2>2, <2>3
<1>16. \A r, s \in RevisionIds :
         /\ Published(r)' /\ Published(s)' /\ r # s
         /\ revisions'[r].parents \cap revisions'[s].parents # {}
         => UndoneRevision(r)' \/ UndoneRevision(s)'
  BY <1>3, <1>10, <1>11 DEF ForksAreOfUndone
<1> QED
  BY <1>13, <1>15, <1>16 DEF ForksAreOfUndone

LEMMA ForksKept ==
  ASSUME Forking, Grows, StepKinds
  PROVE  ForksAreOfUndone'
<1>1. CASE Quiet
  <2>1. \A m : Undone(m)' <=> Undone(m)
    BY <1>1, QuietUndoesNothing
  <2>2. UNCHANGED <<heads, revisions, transitions, manifests>>
    BY <1>1 DEF Quiet, canonical
  <2> QED BY <2>1, <2>2, ForksStay
<1>2. ASSUME NEW p \in ProposalIds, Linking(p) PROVE ForksAreOfUndone'
  <2>1. \A m : Undone(m)' <=> Undone(m)
    BY <1>2, UndoneByUnmerge DEF Linking
  <2>2. UNCHANGED <<heads, revisions, transitions, manifests>>
    BY <1>2 DEF Linking
  <2> QED BY <2>1, <2>2, ForksStay
<1> QED
  BY <1>1, <1>2, PublishingForks, MergingForks, UnmergingForks DEF StepKinds
-----------------------------------------------------------------------------
(* The invariant.                                                          *)

LEMMA ForkingInit == MergeInit /\ ConsolidationInit => Forking /\ ListingsAreOfRevisions
<1> SUFFICES ASSUME MergeInit, ConsolidationInit PROVE Forking /\ ListingsAreOfRevisions
  OBVIOUS
<1>1. /\ \A p \in ProposalIds : proposals[p].status = "none"
      /\ DOMAIN proposals = ProposalIds
      /\ \A f \in FamilyIds : families[f] = NoFamily /\ ~HasHead(f) /\ heads[f].revision = None
      /\ \A r : ~Published(r)
      /\ \A m : ~Merged(m) /\ ~Standing(m) /\ ~UndoneRevision(m)
      /\ aliases = {} /\ transitions = <<>>
  BY DEF MergeInit, Init, NoProposal, NoHead, HasHead, Published, NoRevision, Merged, Standing,
         UndoneRevision
<1>2. PreviewsAreComposed
  BY <1>1 DEF PreviewsAreComposed
<1>3. RevisionsArePublished
  <2>1. /\ now \in Nat /\ DOMAIN heads = FamilyIds
        /\ transitions \in Seq(Transitions)
        /\ \A r \in RevisionIds : revisions[r] = NoRevision
    BY DEF MergeInit, Init
  <2>2. NoRevision.version \in Nat /\ NoRevision.from \in Nat /\ NoRevision.content \in ContentType
    BY ContentTypes DEF NoRevision, None
  <2> QED BY <1>1, <2>1, <2>2 DEF RevisionsArePublished
<1>4. FamiliesAreNamed
  BY <1>1 DEF FamiliesAreNamed, NamedFamily, NamingRow, NoFamily, MergeInit, Init
<1>5. ManifestsTell
  BY <1>1 DEF ManifestsTell, MergeInit
<1>6. MergesStand
  BY <1>1 DEF MergesStand
<1>7. ForksAreOfUndone
  BY <1>1 DEF ForksAreOfUndone
<1>8. ListingsAreOfRevisions
  BY DEF ListingsAreOfRevisions, Lists, IdleJob, ConsolidationInit
<1> QED
  BY <1>2, <1>3, <1>4, <1>5, <1>6, <1>7, <1>8 DEF Forking

LEMMA ForkingInductive ==
  Forking /\ ListingsAreOfRevisions /\ [ConsolidationNext]_consolidationVars
    => Forking' /\ ListingsAreOfRevisions'
<1> SUFFICES ASSUME Forking, ListingsAreOfRevisions, [ConsolidationNext]_consolidationVars
             PROVE  Forking' /\ ListingsAreOfRevisions'
  OBVIOUS
<1>1. StepKinds /\ ((jobs' = jobs) \/ ListingsAreOfRevisions')
  BY Steps
<1>2. Grows
  BY <1>1, StepGrows
<1>3. ListingsAreOfRevisions'
  BY <1>1, <1>2, ListingsKept
<1> QED
  BY <1>1, <1>2, <1>3, PreviewsKept, RevisionsKept, FamiliesKept, ManifestsKept, MergesKept,
     ForksKept DEF Forking

LEMMA ForkingInvariant == ConsolidationSpec => [](Forking /\ ListingsAreOfRevisions)
BY ForkingInit, ForkingInductive, PTL DEF ConsolidationSpec

(* What had named a merged memory is retired with it, and the rows that    *)
(* are still in use name families that are active: merge after merge, an   *)
(* identifier leads to a family with a head (RedirectedAliases in          *)
(* apply_merge, redirect of the alias table).                              *)
THEOREM MergedMemoriesForward == ConsolidationSpec => []MergedFamiliesForward
<1>1. Forking => MergedFamiliesForward
  <2> SUFFICES ASSUME Forking, NEW f \in FamilyIds, families[f].state = "merged"
               PROVE  LET t == families[f].mergedInto
                      IN /\ ~HasHead(f)
                         /\ families[t].state \in {"active", "merged"}
                         /\ \A row \in aliases : row.status = "resolved" => row.family # f
                         /\ AliasFamilies(families[f].legacy) # {}
                         /\ \A g \in AliasFamilies(families[f].legacy) :
                              families[g].state = "active" /\ HasHead(g)
    BY DEF MergedFamiliesForward
  <2>1. /\ \A g \in FamilyIds : NamedFamily(g)
        /\ \A row \in aliases : NamingRow(row)
    BY DEF Forking, FamiliesAreNamed
  <2>2. ~HasHead(f) /\ families[families[f].mergedInto].state \in {"active", "merged"}
    BY <2>1 DEF NamedFamily
  <2>3. \A row \in aliases : row.status = "resolved" =>
          row.family \in FamilyIds /\ families[row.family].state = "active" /\ HasHead(row.family)
    BY <2>1 DEF NamedFamily, NamingRow
  <2>4. \A row \in aliases : row.status = "resolved" => row.family # f
    BY <2>3
  <2>5. \A row \in aliases : row.status # "ambiguous"
    BY <2>1 DEF NamingRow
  <2>6. PICK row \in aliases : row.alias = families[f].legacy /\ row.status = "resolved"
    BY <2>1 DEF NamedFamily
  <2>7. row.family \in AliasFamilies(families[f].legacy)
    BY <2>5, <2>6 DEF AliasFamilies, FamiliesNamed, Quarantined
  <2>8. \A g \in AliasFamilies(families[f].legacy) : families[g].state = "active" /\ HasHead(g)
    BY <2>3 DEF AliasFamilies, FamiliesNamed
  <2> QED BY <2>2, <2>4, <2>7, <2>8
<1> QED
  BY <1>1, ForkingInvariant, PTL

(* The state of a revision is that of the last transition that touches it. *)
LEMMA LastIsRecorded ==
  ASSUME NEW r, NEW state, LastSays(r, state)
  PROVE  RecordedState(r) = state
<1>1. PICK i \in 1..Len(transitions) :
        /\ r \in transitions[i].to /\ transitions[i].state = state
        /\ \A j \in i + 1..Len(transitions) : r \notin transitions[j].from \cup transitions[j].to
  BY DEF LastSays
<1> DEFINE touching == {j \in 1..Len(transitions) :
                          r \in transitions[j].from \cup transitions[j].to}
<1>2. i \in touching /\ touching \subseteq Int
  BY <1>1
<1>3. \A j \in touching : j <= i
  <2> SUFFICES ASSUME NEW j \in touching, ~(j <= i) PROVE FALSE
    OBVIOUS
  <2>1. j \in i + 1..Len(transitions)
    OBVIOUS
  <2> QED BY <1>1, <2>1
<1> HIDE DEF touching
<1>4. Max(touching) = i
  <2>1. \A x \in touching : (\A y \in touching : x >= y) <=> x = i
    BY <1>2, <1>3
  <2> QED BY <1>2, <2>1 DEF Max
<1> QED
  BY <1>1, <1>2, <1>4 DEF RecordedState, touching

(* The parents of a revision are heads together when it is published       *)
(* (HeadsMatch), so two revisions that share one are the two sides of an   *)
(* UNMERGE: a merge that gave its parent back is invalidated for good.     *)
THEOREM ForksComeFromUndoneMerges == ConsolidationSpec => []ForksAreUndone
<1>1. Forking => ForksAreUndone
  <2> SUFFICES ASSUME Forking PROVE ForksAreUndone
    OBVIOUS
  <2>1. ASSUME NEW r \in RevisionIds, UndoneRevision(r)
        PROVE  /\ proposals[revisions[r].proposal].operation = "merge"
               /\ RecordedState(r) = "invalidated"
    <3>1. PICK m \in ProposalIds : Merged(m) /\ Undone(m) /\ manifests[m].revision = r
      BY <2>1 DEF UndoneRevision
    <3>2. proposals[revisions[r].proposal].operation = "merge"
      BY <3>1 DEF Forking, ManifestsTell, Told
    <3>3. LastSays(r, "invalidated")
      BY <3>1, UndoneIsNotInUse
    <3> QED BY <3>2, <3>3, LastIsRecorded
  <2>2. \A r, s \in RevisionIds :
          /\ Published(r) /\ Published(s) /\ r # s
          /\ revisions[r].parents \cap revisions[s].parents # {}
          => UndoneRevision(r) \/ UndoneRevision(s)
    BY DEF Forking, ForksAreOfUndone
  <2> QED BY <2>1, <2>2 DEF ForksAreUndone
<1> QED
  BY <1>1, ForkingInvariant, PTL
-----------------------------------------------------------------------------
(* The numbers of the heads.                                               *)

Numbering ==
  \/ UNCHANGED <<sequence, outbox>>
  \/ /\ sequence' = sequence + 1
     /\ \A e \in outbox' : e \in outbox \/ e.sequence = sequence + 1

LEMMA EventNumber ==
  \A kind, f, r, operation, state, available :
    Event(kind, f, r, operation, state, available).sequence = sequence + 1
BY DEF Event

LEMMA CommitNumbers ==
  ASSUME NEW p, NEW f, NEW rows, NEW retired, NEW asserted, NEW events,
         \A e \in events : e.sequence = sequence + 1,
         Commit(p, f, rows, retired, asserted, events)
  PROVE  Numbering
<1>1. PICK new : outbox' = outbox \cup PublicationEvents(p, f, new) \cup events
  BY DEF Commit
<1>2. \A e \in PublicationEvents(p, f, new) : e.sequence = sequence + 1
  <2> SUFFICES ASSUME NEW e \in PublicationEvents(p, f, new)
               PROVE  \E kind, r, o, state, at : e = Event(kind, f, r, o, state, at)
    BY EventNumber
  <2> QED BY Zenon DEF PublicationEvents
<1>3. sequence' = sequence + 1
  BY DEF Commit
<1> QED
  BY <1>1, <1>2, <1>3 DEF Numbering

LEMMA StepNumbers ==
  ASSUME Forking, ListingsAreOfRevisions, [ConsolidationNext]_consolidationVars
  PROVE  Numbering
<1>1. ASSUME UNCHANGED canonical PROVE Numbering
  BY <1>1 DEF canonical, Numbering
<1>2. ASSUME NEW q, Drafts(q) PROVE Numbering
  BY <1>1, <1>2 DEF Drafts, Save
<1>3. CASE UNCHANGED consolidationVars
  BY <1>1, <1>3 DEF consolidationVars, vars, ledgerVars, canonical
<1>4. CASE Tick
  BY <1>1, <1>4 DEF Tick
<1>5. CASE Propose
  BY <1>2, <1>5, ProposeComposed
<1>6. CASE Decide
  BY <1>1, <1>6 DEF Decide, Approve, Reject, Expire, Stale
<1>7. CASE Apply
  <2>1. ASSUME NEW p, ApplyCreate(p) PROVE Numbering
    BY <2>1, CommitNumbers DEF ApplyCreate, Publish
  <2>2. ASSUME NEW p, ApplyRevise(p) PROVE Numbering
    BY <2>2, CommitNumbers DEF ApplyRevise, Publish
  <2>3. ASSUME NEW p, ApplyLink(p) PROVE Numbering
    <3>1. PICK e : outbox' = outbox \cup {e} /\ e.sequence = sequence + 1
      <4>1. PICK kind, f, r, o, state, at : outbox' = outbox \cup {Event(kind, f, r, o, state, at)}
        BY <2>3, Zenon DEF ApplyLink
      <4> QED BY <4>1, EventNumber
    <3>2. sequence' = sequence + 1
      BY <2>3 DEF ApplyLink
    <3> QED BY <3>1, <3>2 DEF Numbering
  <2> QED BY <1>7, <2>1, <2>2, <2>3 DEF Apply
<1>8. CASE ProposeMerging
  BY <1>2, <1>8, ProposeMergingComposed
<1>9. CASE ApplyMerging
  <2>1. ASSUME NEW p, ApplyMerge(p) PROVE Numbering
    <3>1. PICK f, rows, retired, asserted, sources, new :
            Commit(p, f, rows, retired, asserted,
                   {Event("head", g, None, "merge_source_retired", "", now) : g \in sources})
      BY <2>1 DEF ApplyMerge
    <3> DEFINE events == {Event("head", g, None, "merge_source_retired", "", now) : g \in sources}
    <3>2. \A e \in events : e.sequence = sequence + 1
      <4> SUFFICES ASSUME NEW g \in sources
                   PROVE  Event("head", g, None, "merge_source_retired", "", now).sequence = sequence + 1
        OBVIOUS
      <4> QED BY EventNumber
    <3> HIDE DEF events
    <3>3. Commit(p, f, rows, retired, asserted, events)
      BY <3>1 DEF events
    <3> QED BY <3>2, <3>3, CommitNumbers
  <2>2. ASSUME NEW p, ApplyUnmerge(p) PROVE Numbering
    <3> DEFINE man == manifests[proposals[p].manifest]
               events == {Event("head", g, Before(man, g), "unmerge", "", now) :
                            g \in man.sources \cup {man.target}}
    <3>1. outbox' = outbox \cup events /\ sequence' = sequence + 1
      BY <2>2 DEF ApplyUnmerge
    <3>2. \A e \in events : e.sequence = sequence + 1
      <4> SUFFICES ASSUME NEW g \in man.sources \cup {man.target}
                   PROVE  Event("head", g, Before(man, g), "unmerge", "", now).sequence = sequence + 1
        OBVIOUS
      <4> QED BY EventNumber
    <3> HIDE DEF events
    <3> QED BY <3>1, <3>2 DEF Numbering
  <2>3. ASSUME NEW p, ApplyResolveConflict(p) PROVE Numbering
    BY <2>3, CommitNumbers DEF ApplyResolveConflict, Publish
  <2> QED BY <1>9, <2>1, <2>2, <2>3 DEF ApplyMerging
<1>10. ASSUME NEW j \in Jobs, Consolidate(j) PROVE Numbering
  BY <1>1, <1>2, <1>10, ConsolidateSaves DEF ledgerVars, canonical
<1> QED
  BY <1>3, <1>4, <1>5, <1>6, <1>7, <1>8, <1>9, <1>10 DEF ConsolidationNext, MergeNext, Next

LEMMA HeadsAreRenumbered ==
  ASSUME Forking, StepKinds, NEW f \in FamilyIds, HasHead(f)', heads'[f] # heads[f]
  PROVE  heads'[f].sequence = sequence + 1
<1>1. CASE Quiet
  BY <1>1 DEF Quiet, canonical
<1>2. ASSUME NEW p \in ProposalIds, Linking(p) PROVE FALSE
  BY <1>2 DEF Linking
<1>3. ASSUME NEW p, NEW g, NEW new, NEW retired, Publishes(p, g, new, retired)
      PROVE  heads'[f].sequence = sequence + 1
  BY <1>3 DEF Publishes, HasHead, NoHead
<1>4. ASSUME NEW p, NEW m, NEW man, Unmerging(p, m, man)
      PROVE  heads'[f].sequence = sequence + 1
  BY <1>4 DEF Unmerging
<1> QED
  BY <1>1, <1>2, <1>3, <1>4 DEF StepKinds, Publishing, Merging

(* Every head that a publication, a merge or an UNMERGE writes takes a     *)
(* number that no event announced before has: a reader of the outbox that  *)
(* keeps the highest number never goes back (self._sequence, guarded by    *)
(* the ledger's lock).                                                     *)
THEOREM HeadsAreNumberedUp == ConsolidationSpec => HeadNumbersGrow
<1> DEFINE Numbered == Forking /\ ListingsAreOfRevisions /\ EventsAreNumberedBelow
<1>1. MergeInit => EventsAreNumberedBelow
  BY DEF MergeInit, Init, EventsAreNumberedBelow
<1>2. EventsAreNumberedBelow /\ Numbering => EventsAreNumberedBelow'
  BY DEF EventsAreNumberedBelow, Numbering
<1>3. EventsAreNumberedBelow /\ Forking /\ StepKinds =>
        \A f \in FamilyIds :
          HasHead(f)' /\ heads'[f] # heads[f] =>
            \A e \in outbox : e.family = f => heads'[f].sequence > e.sequence
  BY HeadsAreRenumbered DEF EventsAreNumberedBelow
<1>4. Numbered /\ [ConsolidationNext]_consolidationVars => Numbered'
  BY <1>2, ForkingInductive, StepNumbers
<1>5. Numbered /\ [ConsolidationNext]_consolidationVars =>
        [\A f \in FamilyIds :
           HasHead(f)' /\ heads'[f] # heads[f] =>
             \A e \in outbox : e.family = f => heads'[f].sequence > e.sequence]_vars
  BY <1>3, Steps
<1>6. MergeInit /\ ConsolidationInit => Numbered
  BY <1>1, ForkingInit
<1> QED
  BY <1>4, <1>5, <1>6, PTL DEF ConsolidationSpec, HeadNumbersGrow
-----------------------------------------------------------------------------
(* Suggestions.                                                            *)

(* No key is given away, and nothing that was proposed is forgotten.       *)
Steady ==
  \A p \in ProposalIds : /\ Draws(proposals'[p]) = Draws(proposals[p])
                         /\ proposals'[p].status = "none" <=> proposals[p].status = "none"

LEMMA ConsumedIsSteady ==
  ASSUME NEW p, Consumed(p) PROVE Steady
BY DEF Consumed, Applicable, Steady

LEMMA StepDrafts ==
  ASSUME Forking, ListingsAreOfRevisions, [ConsolidationNext]_consolidationVars
  PROVE  (\E q : Drafts(q)) \/ Steady
<1>1. ASSUME UNCHANGED proposals PROVE Steady
  BY <1>1 DEF Steady
<1>2. CASE UNCHANGED consolidationVars
  BY <1>1, <1>2 DEF consolidationVars, vars, ledgerVars
<1>3. CASE Next /\ UNCHANGED mergeVars
  <2>1. UNCHANGED manifests
    BY <1>3 DEF mergeVars
  <2>2. CASE Tick
    BY <1>1, <2>2 DEF Tick
  <2>3. CASE Propose
    BY <2>3, ProposeComposed
  <2>4. CASE Decide
    BY <2>1, <2>4, DecidingIsQuiet DEF Proceeds, Steady
  <2>5. ASSUME NEW p \in ProposalIds, ApplyCreate(p) PROVE Steady
    <3>1. PICK f, new : Publishing(p, f, new)
      BY <2>1, <2>5, CreatingPublishes
    <3> QED BY <3>1, PublishingPublishes, ConsumedIsSteady
  <2>6. ASSUME NEW p \in ProposalIds, ApplyRevise(p) PROVE Steady
    <3>1. PICK f, new : Publishing(p, f, new)
      BY <2>1, <2>6, RevisingPublishes DEF ApplyRevise
    <3> QED BY <3>1, PublishingPublishes, ConsumedIsSteady
  <2>7. ASSUME NEW p \in ProposalIds, ApplyLink(p) PROVE Steady
    BY <2>7, ConsumeConsumes, ConsumedIsSteady DEF ApplyLink
  <2> QED BY <1>3, <2>2, <2>3, <2>4, <2>5, <2>6, <2>7 DEF Next, Apply
<1>4. CASE ProposeMerging
  BY <1>4, ProposeMergingComposed
<1>5. CASE ApplyMerging
  <2>1. ASSUME NEW p \in ProposalIds, ApplyMerge(p) PROVE Steady
    <3>1. PICK f, new, sources : Merging(p, f, new, sources)
      BY <2>1, ApplyMergeMerges
    <3> QED BY <3>1, MergingPublishes, ConsumedIsSteady
  <2>2. ASSUME NEW p \in ProposalIds, ApplyUnmerge(p) PROVE Steady
    BY <2>2, ApplyUnmergeUndoes, ConsumedIsSteady DEF Unmerging
  <2>3. ASSUME NEW p \in ProposalIds, ApplyResolveConflict(p) PROVE Steady
    <3>1. PICK f, new : Publishing(p, f, new)
      BY <2>3, RevisingPublishes DEF ApplyResolveConflict
    <3> QED BY <3>1, PublishingPublishes, ConsumedIsSteady
  <2> QED BY <1>5, <2>1, <2>2, <2>3 DEF ApplyMerging
<1>6. ASSUME NEW j \in Jobs, Consolidate(j) PROVE (\E q : Drafts(q)) \/ Steady
  BY <1>1, <1>6, ConsolidateSaves DEF ledgerVars
<1> QED
  BY <1>2, <1>3, <1>4, <1>5, <1>6 DEF ConsolidationNext, MergeNext

LEMMA KeysKept ==
  ASSUME Forking, KeysAreTaken, (\E q : Drafts(q)) \/ Steady
  PROVE  KeysAreTaken'
<1>1. CASE Steady
  <2>1. \A p \in ProposalIds :
          /\ proposals'[p].operation = proposals[p].operation
          /\ proposals'[p].target = proposals[p].target
          /\ proposals'[p].base = proposals[p].base
          /\ proposals'[p].relationTarget = proposals[p].relationTarget
          /\ proposals'[p].key = proposals[p].key
          /\ proposals'[p].requestedBy = proposals[p].requestedBy
          /\ proposals'[p].status = "none" <=> proposals[p].status = "none"
    BY <1>1 DEF Steady, Draws
  <2>2. \A p \in ProposalIds : Suggestion(proposals[p]) => Suggestion(proposals[p])'
    BY <2>1 DEF Suggestion
  <2> QED BY <2>1, <2>2 DEF KeysAreTaken
<1>2. ASSUME NEW q, Drafts(q) PROVE KeysAreTaken'
  <2> DEFINE free == Min(FreeProposals)
  <2>1. free \in ProposalIds /\ proposals[free].status = "none"
    <3>1. free \in FreeProposals
      BY <1>2, MinIsMember DEF Drafts, Save, FreeProposals, ProposalIds
    <3> QED BY <3>1 DEF FreeProposals
  <2>2. proposals' = [proposals EXCEPT ![free] = q]
    BY <1>2 DEF Drafts, Save
  <2>3. DOMAIN proposals = ProposalIds
    BY DEF Forking, PreviewsAreComposed
  <2> HIDE DEF free
  <2>4. /\ proposals'[free] = q
        /\ \A p \in ProposalIds : p # free => proposals'[p] = proposals[p]
    BY <2>1, <2>2, <2>3
  <2>5. /\ q.status # "none"
        /\ q.requestedBy = Worker => Suggestion(q)
        /\ q.key = NoKey \/ \A p \in ProposalIds : proposals[p].key # q.key
    BY <1>2 DEF Drafts, Save, KeyUnused
  <2>6. \A p \in ProposalIds : proposals'[p].status = "none" => proposals'[p].key = NoKey
    BY <2>4, <2>5 DEF KeysAreTaken
  <2>7. \A p, o \in ProposalIds :
          proposals'[p].key = proposals'[o].key /\ proposals'[p].key # NoKey => p = o
    BY <2>4, <2>5 DEF KeysAreTaken
  <2>8. ASSUME NEW p \in ProposalIds, proposals'[p].status # "none",
               proposals'[p].requestedBy = Worker
        PROVE  Suggestion(proposals[p])'
    <3>1. PICK h : h = proposals'[p] /\ Suggestion(h)
      BY <2>4, <2>5, <2>8 DEF KeysAreTaken
    <3> QED BY <3>1 DEF Suggestion
  <2> QED BY <2>6, <2>7, <2>8 DEF KeysAreTaken, NoKey
<1> QED
  BY <1>1, <1>2

LEMMA KeysAreLong ==
  \A kind, x, y : <<kind, x>> # NoKey /\ <<kind, x, y>> # NoKey
<1> TAKE kind, x, y
<1>1. Len(<<kind, x>>) = 2 /\ Len(<<kind, x, y>>) = 3 /\ Len(<<>>) = 0
  OBVIOUS
<1> QED BY <1>1 DEF NoKey

(* A suggestion of the worker has a key made of what it suggests, and      *)
(* save_proposal gives the holder of a known key back whatever became of   *)
(* it: however runs overlap, repeat or race with decisions, nothing is     *)
(* suggested a second time.                                                *)
THEOREM NothingIsSuggestedTwice == ConsolidationSpec => []SuggestedOnce
<1> DEFINE Keyed == Forking /\ ListingsAreOfRevisions /\ KeysAreTaken
<1>1. MergeInit => KeysAreTaken
  <2>1. NoProposal.status = "none" /\ NoProposal.key = NoKey
    BY DEF NoProposal
  <2>2. MergeInit => \A p \in ProposalIds : proposals[p] = NoProposal
    BY DEF MergeInit, Init
  <2> QED BY <2>1, <2>2 DEF KeysAreTaken
<1>2. Keyed /\ [ConsolidationNext]_consolidationVars => Keyed'
  BY ForkingInductive, StepDrafts, KeysKept
<1>3. KeysAreTaken => SuggestedOnce
  <2> SUFFICES ASSUME KeysAreTaken, NEW p \in ProposalIds, NEW q \in ProposalIds,
                      proposals[p].status # "none", proposals[p].requestedBy = Worker,
                      proposals[q].status # "none", proposals[q].requestedBy = Worker,
                      proposals[p].operation = proposals[q].operation,
                      proposals[p].target = proposals[q].target,
                      proposals[p].base = proposals[q].base,
                      proposals[p].relationTarget = proposals[q].relationTarget
               PROVE  p = q
    BY DEF SuggestedOnce, Proposed
  <2>1. Suggestion(proposals[p]) /\ Suggestion(proposals[q])
    BY DEF KeysAreTaken
  <2>2. proposals[p].key = proposals[q].key /\ proposals[p].key # NoKey
    <3>1. CASE proposals[p].operation = "invalidate"
      <4>1. PICK r \in RevisionIds : proposals[p].base = {r} /\ proposals[p].key = <<"expiry", r>>
        BY <2>1, <3>1 DEF Suggestion
      <4>2. PICK s \in RevisionIds : proposals[q].base = {s} /\ proposals[q].key = <<"expiry", s>>
        BY <2>1, <3>1 DEF Suggestion
      <4>3. r = s
        BY <4>1, <4>2
      <4> QED BY <4>1, <4>2, <4>3, KeysAreLong
    <3>2. CASE proposals[p].operation = "link"
      BY <2>1, <3>2, KeysAreLong DEF Suggestion
    <3>3. CASE proposals[p].operation = "merge"
      <4>1. PICK r \in RevisionIds, s \in RevisionIds :
              r < s /\ proposals[p].base = {r, s} /\ proposals[p].key = <<"merge", r, s>>
        BY <2>1, <3>3 DEF Suggestion
      <4>2. PICK x \in RevisionIds, y \in RevisionIds :
              x < y /\ proposals[q].base = {x, y} /\ proposals[q].key = <<"merge", x, y>>
        BY <2>1, <3>3 DEF Suggestion
      <4>3. r \in {x, y} /\ s \in {x, y} /\ x \in {r, s} /\ y \in {r, s}
        BY <4>1, <4>2
      <4>4. r = x /\ s = y
        BY <4>1, <4>2, <4>3 DEF RevisionIds
      <4> QED BY <4>1, <4>2, <4>4, KeysAreLong
    <3> QED BY <2>1, <3>1, <3>2, <3>3 DEF Suggestion
  <2> QED BY <2>2 DEF KeysAreTaken
<1>4. MergeInit /\ ConsolidationInit => Keyed
  BY <1>1, ForkingInit
<1> QED
  BY <1>2, <1>3, <1>4, PTL DEF ConsolidationSpec
-----------------------------------------------------------------------------
(* Links.                                                                  *)

RelationFields ==
  {"source", "target", "sourceRevision", "targetRevision", "type", "proposal", "state"}

(* A relation comes from a proposal that has been applied.                 *)
LinksAreDecided ==
  /\ \A x \in relations : /\ DOMAIN x = RelationFields
                          /\ x.proposal \in ProposalIds
                          /\ proposals[x.proposal].status = "applied"
  /\ LinksAreUnique

(* What a step asserts comes from the proposal it applies, and a link is   *)
(* asserted alone.                                                         *)
Asserting ==
  \/ UNCHANGED relations
  \/ \E p \in ProposalIds :
       /\ Consumed(p)
       /\ \/ /\ proposals[p].operation # "link"
             /\ \A x \in relations' :
                  \/ x \in relations
                  \/ DOMAIN x = RelationFields /\ x.proposal = p
          \/ \E x : /\ DOMAIN x = RelationFields /\ x.proposal = p
                    /\ ~Asserted(x.source, x.target, x.type)
                    /\ relations' = relations \cup {x}
          \/ \A x \in relations' :
               \/ x \in relations
               \/ /\ DOMAIN x = RelationFields /\ x.state = "retired"
                  /\ \E y \in relations : x.proposal = y.proposal

LEMMA AssertionFields ==
  \A p, s, t, r, u, type :
    LET x == Assertion(p, s, t, r, u, type)
    IN /\ DOMAIN x = RelationFields /\ x.proposal = p
       /\ x.source = s /\ x.target = t /\ x.type = type
BY DEF Assertion, RelationFields

LEMMA CommitAsserts ==
  ASSUME Forking, NEW p \in ProposalIds, Applicable(p), proposals[p].operation # "link",
         NEW f, NEW rows, NEW retired, NEW asserted, NEW events,
         \A x \in asserted : DOMAIN x = RelationFields /\ x.proposal = p,
         Commit(p, f, rows, retired, asserted, events)
  PROVE  Asserting
<1>1. PICK new : Consume(p, new) /\
        relations' = relations \cup LearnedFrom(p, f, new, rows) \cup asserted
                               \cup Refinement(p, f, new) \cup Deprecation(p, f)
  BY DEF Commit
<1>2. Consumed(p)
  BY <1>1, ConsumeConsumes
<1>3. ASSUME NEW x \in LearnedFrom(p, f, new, rows) \cup Refinement(p, f, new) \cup Deprecation(p, f)
      PROVE  DOMAIN x = RelationFields /\ x.proposal = p
  <2>1. CASE x \in LearnedFrom(p, f, new, rows)
    BY <2>1, AssertionFields DEF LearnedFrom
  <2>2. CASE x \in Refinement(p, f, new)
    <3>1. x = Assertion(p, f, proposals[p].relationTarget, new,
                        heads[proposals[p].relationTarget].revision, "REFINES")
      BY <2>2 DEF Refinement
    <3> QED BY <3>1, AssertionFields
  <2>3. CASE x \in Deprecation(p, f)
    <3>1. PICK t, r : x = Assertion(p, t, f, heads[t].revision, r, "DEPRECATES")
      BY <2>3 DEF Deprecation
    <3> QED BY <3>1, AssertionFields
  <2> QED BY <1>3, <2>1, <2>2, <2>3
<1> QED
  BY <1>1, <1>2, <1>3 DEF Asserting

LEMMA StepAsserts ==
  ASSUME Forking, LinksAreDecided, ListingsAreOfRevisions,
         [ConsolidationNext]_consolidationVars
  PROVE  Asserting
<1>1. ASSUME UNCHANGED canonical PROVE Asserting
  BY <1>1 DEF canonical, Asserting
<1>2. ASSUME NEW q, Drafts(q) PROVE Asserting
  BY <1>1, <1>2 DEF Drafts, Save
<1>3. CASE UNCHANGED consolidationVars
  BY <1>1, <1>3 DEF consolidationVars, vars, ledgerVars, canonical
<1>4. CASE Tick
  BY <1>1, <1>4 DEF Tick
<1>5. CASE Propose
  BY <1>2, <1>5, ProposeComposed
<1>6. CASE Decide
  BY <1>1, <1>6 DEF Decide, Approve, Reject, Expire, Stale
<1>7. CASE Apply
  <2>1. ASSUME NEW p \in ProposalIds, ApplyCreate(p) PROVE Asserting
    <3>1. proposals[p].operation # "link" /\ Applicable(p)
      BY <2>1 DEF ApplyCreate, Creations
    <3> QED BY <2>1, <3>1, CommitAsserts DEF ApplyCreate, Publish
  <2>2. ASSUME NEW p \in ProposalIds, ApplyRevise(p) PROVE Asserting
    <3>1. proposals[p].operation # "link" /\ Applicable(p)
      BY <2>2 DEF ApplyRevise, Revising, StateChanges
    <3> QED BY <2>2, <3>1, CommitAsserts DEF ApplyRevise, Publish
  <2>3. ASSUME NEW p \in ProposalIds, ApplyLink(p) PROVE Asserting
    <3>1. Consumed(p)
      BY <2>3, ConsumeConsumes DEF ApplyLink
    <3> DEFINE q == proposals[p]
               x == Assertion(p, q.target, q.relationTarget, heads[q.target].revision,
                              heads[q.relationTarget].revision, q.relation)
    <3>2. relations' = relations \cup {x} /\ ~Asserted(q.target, q.relationTarget, q.relation)
      BY <2>3 DEF ApplyLink
    <3>3. /\ DOMAIN x = RelationFields /\ x.proposal = p
          /\ x.source = q.target /\ x.target = q.relationTarget /\ x.type = q.relation
      BY AssertionFields
    <3> HIDE DEF x
    <3>4. ~Asserted(x.source, x.target, x.type)
      BY <3>2, <3>3
    <3> QED BY <3>1, <3>2, <3>3, <3>4 DEF Asserting
  <2> QED BY <1>7, <2>1, <2>2, <2>3 DEF Apply
<1>8. CASE ProposeMerging
  BY <1>2, <1>8, ProposeMergingComposed
<1>9. CASE ApplyMerging
  <2>1. ASSUME NEW p \in ProposalIds, ApplyMerge(p) PROVE Asserting
    <3>1. PICK f, rows, sources, new, events :
            Commit(p, f, rows, sources, MergedInto(p, f, sources, new), events)
      BY <2>1 DEF ApplyMerge
    <3>2. \A x \in MergedInto(p, f, sources, new) : DOMAIN x = RelationFields /\ x.proposal = p
      BY AssertionFields DEF MergedInto
    <3>3. proposals[p].operation # "link" /\ Applicable(p)
      BY <2>1 DEF ApplyMerge
    <3> QED BY <3>1, <3>2, <3>3, CommitAsserts
  <2>2. ASSUME NEW p \in ProposalIds, ApplyUnmerge(p) PROVE Asserting
    <3>1. Consumed(p)
      BY <2>2, ConsumeConsumes DEF ApplyUnmerge
    <3>2. PICK created : /\ created \subseteq relations
                         /\ relations' = (relations \ created)
                              \cup {[x EXCEPT !.state = "retired"] : x \in created}
      <4> DEFINE man == manifests[proposals[p].manifest]
      <4>1. man.created \subseteq relations
        BY <2>2 DEF ApplyUnmerge, UnmergeMatches, Touching
      <4>2. relations' = (relations \ man.created)
                         \cup {[x EXCEPT !.state = "retired"] : x \in man.created}
        BY <2>2 DEF ApplyUnmerge
      <4> QED BY <4>1, <4>2
    <3>3. ASSUME NEW x \in relations', x \notin relations
          PROVE  /\ DOMAIN x = RelationFields /\ x.state = "retired"
                 /\ \E y \in relations : x.proposal = y.proposal
      <4>1. PICK y \in created : x = [y EXCEPT !.state = "retired"]
        BY <3>2, <3>3
      <4>2. DOMAIN y = RelationFields
        BY <3>2, <4>1 DEF LinksAreDecided
      <4> QED BY <3>2, <4>1, <4>2 DEF RelationFields
    <3> QED BY <3>1, <3>3 DEF Asserting
  <2>3. ASSUME NEW p \in ProposalIds, ApplyResolveConflict(p) PROVE Asserting
    <3>1. proposals[p].operation # "link" /\ Applicable(p)
      BY <2>3 DEF ApplyResolveConflict
    <3> QED BY <2>3, <3>1, CommitAsserts DEF ApplyResolveConflict, Publish
  <2> QED BY <1>9, <2>1, <2>2, <2>3 DEF ApplyMerging
<1>10. ASSUME NEW j \in Jobs, Consolidate(j) PROVE Asserting
  BY <1>1, <1>2, <1>10, ConsolidateSaves DEF ledgerVars, canonical
<1> QED
  BY <1>3, <1>4, <1>5, <1>6, <1>7, <1>8, <1>9, <1>10 DEF ConsolidationNext, MergeNext, Next

LEMMA LinksKept ==
  ASSUME LinksAreDecided, Grows, Asserting
  PROVE  LinksAreDecided'
<1>1. ASSUME NEW p \in ProposalIds, proposals[p].status = "applied"
      PROVE  /\ proposals'[p].status = "applied"
             /\ proposals'[p].operation = proposals[p].operation
  BY <1>1 DEF Grows, Draws
<1> DEFINE Link(x) == x.state = "active" /\ proposals[x.proposal].operation = "link"
           Decided(x) == /\ DOMAIN x = RelationFields /\ x.proposal \in ProposalIds
                         /\ proposals'[x.proposal].status = "applied"
<1>2. ASSUME NEW x \in relations PROVE Decided(x) /\ (Link(x)' <=> Link(x))
  BY <1>1 DEF LinksAreDecided
<1>3. CASE UNCHANGED relations
  BY <1>2, <1>3 DEF LinksAreDecided, LinksAreUnique, SamePair
<1>4. ASSUME NEW p \in ProposalIds, Consumed(p), proposals[p].operation # "link",
             \A x \in relations' :
               \/ x \in relations
               \/ DOMAIN x = RelationFields /\ x.proposal = p
      PROVE  LinksAreDecided'
  <2>1. proposals'[p].status = "applied" /\ proposals'[p].operation # "link"
    BY <1>4 DEF Consumed, Draws
  <2>2. \A x \in relations' : Decided(x) /\ (Link(x)' => x \in relations /\ Link(x))
    BY <1>2, <1>4, <2>1
  <2> QED BY <2>2 DEF LinksAreDecided, LinksAreUnique, SamePair
<1>5. ASSUME NEW p \in ProposalIds, Consumed(p), NEW x,
             DOMAIN x = RelationFields, x.proposal = p,
             ~Asserted(x.source, x.target, x.type), relations' = relations \cup {x}
      PROVE  LinksAreDecided'
  <2>1. Decided(x)
    BY <1>5 DEF Consumed
  <2>2. ASSUME NEW y \in relations, Link(y), y.type = x.type,
               SamePair(y, x.source, x.target) \/ SamePair(x, y.source, y.target)
        PROVE  FALSE
    <3>1. SamePair(y, x.source, x.target)
      BY <2>2 DEF SamePair
    <3> QED BY <1>5, <2>2, <3>1 DEF Asserted
  <2>3. ASSUME NEW y \in relations', NEW z \in relations', Link(y)', Link(z)',
               y.type = z.type, SamePair(y, z.source, z.target)
        PROVE  y = z
    <3>1. CASE y \in relations /\ z \in relations
      BY <1>2, <2>3, <3>1 DEF LinksAreDecided, LinksAreUnique
    <3>2. CASE y \in relations /\ z = x
      BY <1>2, <2>2, <2>3, <3>2
    <3>3. CASE y = x /\ z \in relations
      BY <1>2, <2>2, <2>3, <3>3
    <3> QED BY <1>5, <2>3, <3>1, <3>2, <3>3
  <2>4. LinksAreUnique'
    BY <2>3 DEF LinksAreUnique, SamePair
  <2> QED BY <1>2, <1>5, <2>1, <2>4 DEF LinksAreDecided
<1>6. ASSUME \A x \in relations' :
               \/ x \in relations
               \/ /\ DOMAIN x = RelationFields /\ x.state = "retired"
                  /\ \E y \in relations : x.proposal = y.proposal
      PROVE  LinksAreDecided'
  <2>1. \A x \in relations' : Decided(x) /\ (Link(x)' => x \in relations /\ Link(x))
    BY <1>2, <1>6
  <2> QED BY <2>1 DEF LinksAreDecided, LinksAreUnique, SamePair
<1>7. CASE ~(UNCHANGED relations)
  <2>1. PICK p \in ProposalIds :
       /\ Consumed(p)
       /\ \/ /\ proposals[p].operation # "link"
             /\ \A x \in relations' :
                  \/ x \in relations
                  \/ DOMAIN x = RelationFields /\ x.proposal = p
          \/ \E x : /\ DOMAIN x = RelationFields /\ x.proposal = p
                    /\ ~Asserted(x.source, x.target, x.type)
                    /\ relations' = relations \cup {x}
          \/ \A x \in relations' :
               \/ x \in relations
               \/ /\ DOMAIN x = RelationFields /\ x.state = "retired"
                  /\ \E y \in relations : x.proposal = y.proposal
    BY <1>7 DEF Asserting
  <2> QED BY <1>4, <1>5, <1>6, <2>1
<1> QED BY <1>3, <1>7

(* apply_approved looks for the relation again under the lock, so that of  *)
(* the proposals of one link, a person's and a run's, one is asserted,     *)
(* also while merges are applied and undone around it.                     *)
THEOREM LinksStayUnique == ConsolidationSpec => []LinksAreUnique
<1> DEFINE Decided == Forking /\ ListingsAreOfRevisions /\ LinksAreDecided
<1>1. MergeInit /\ ConsolidationInit => Decided
  BY ForkingInit DEF MergeInit, Init, LinksAreDecided, LinksAreUnique
<1>2. Decided /\ [ConsolidationNext]_consolidationVars => Decided'
  BY ForkingInductive, Steps, StepGrows, StepAsserts, LinksKept
<1>3. Decided => LinksAreUnique
  BY DEF LinksAreDecided
<1> QED
  BY <1>1, <1>2, <1>3, PTL DEF ConsolidationSpec
-----------------------------------------------------------------------------
(* What an UNMERGE gives back.                                             *)

(* What the ledger says by now of a revision: that its window is open, or  *)
(* that it was in effect again since it ended; that it was withdrawn.      *)
Recorded(r) ==
  revisions[r].to = None \/ \E t \in Reactivations(r) : revisions[r].to <= t

Retired(r) ==
  \E i \in 1..Len(transitions) :
    r \in transitions[i].to /\ transitions[i].state \in {"invalidated", "archived"}

(* What is recorded is past, and each publication has its own instant.     *)
InThePast ==
  /\ \A r \in RevisionIds : revisions[r].to \in Nat /\ revisions[r].to < now
  /\ \A r \in RevisionIds : Published(r) => revisions[r].from < now
  /\ \A r, s \in RevisionIds :
       Published(r) /\ Published(s) /\ revisions[r].from = revisions[s].from => r = s
  /\ \A i \in 1..Len(transitions) : transitions[i].at < now

(* What was published after a head was undone.                             *)
HeadsAreLast ==
  \A f \in FamilyIds : HasHead(f) =>
    /\ Recorded(heads[f].revision)
    /\ \A r \in RevisionIds :
         /\ Published(r) /\ revisions[r].family = f
         /\ revisions[heads[f].revision].from < revisions[r].from
         => UndoneRevision(r)

(* x is what a merge recorded of a family that it changed, merged is the   *)
(* instant of the merge.  Of the revisions before it, what the ledger says *)
(* now is what it said then, except that the head it replaced may have     *)
(* ended; a family that it retired has had no revision since.              *)
Rewinds(sources, x, merged, r) ==
  /\ revisions[x.revision].from < revisions[r].from /\ revisions[r].from < merged
       => UndoneRevision(r)
  /\ x.family \in sources => revisions[r].from < merged
  /\ revisions[r].from < merged =>
       /\ Retired(r) <=> RetiredAt(r, merged - 1)
       /\ IF r = x.revision THEN RecordedAt(r, merged - 1)
          ELSE Recorded(r) <=> RecordedAt(r, merged - 1)

MergeRewinds(man) ==
  \A x \in man.heads :
    /\ revisions[x.revision].from < revisions[man.revision].from
    /\ \A r \in RevisionIds : Published(r) /\ revisions[r].family = x.family =>
         Rewinds(man.sources, x, revisions[man.revision].from, r)

MergesRewind == \A m \in ProposalIds : Standing(m) => MergeRewinds(manifests[m])

(* A family is named by the alias it was given, before a merge and after.  *)
NamesAreKept ==
  /\ \A f \in FamilyIds : families[f].state = "active" =>
       AliasRow(families[f].legacy, f) \in aliases
  /\ \A m \in ProposalIds : Merged(m) =>
       \A g \in Affected(manifests[m]) :
         AliasRow(families[g].legacy, g) \in manifests[m].aliases

Rewinding == Forking /\ InThePast /\ HeadsAreLast /\ MergesRewind /\ NamesAreKept

LEMMA TransitionTimes ==
  ASSUME transitions \in Seq(Transitions)
  PROVE  /\ Len(transitions) \in Nat
         /\ \A i \in 1..Len(transitions) : transitions[i].at \in Nat
<1>1. /\ Len(transitions) \in Nat
      /\ \A i \in 1..Len(transitions) : transitions[i] \in Transitions
  OBVIOUS
<1>2. \A x \in Transitions : x.at \in Nat
  BY DEF Transitions
<1> QED BY <1>1, <1>2

(* The instants at which a revision came into effect again.                *)
LEMMA LatestReactivation ==
  ASSUME transitions \in Seq(Transitions), NEW r, Reactivations(r) # {}
  PROVE  /\ Max(Reactivations(r)) \in Reactivations(r)
         /\ Reactivations(r) \subseteq Nat
         /\ \A t \in Reactivations(r) : t <= Max(Reactivations(r))
<1> DEFINE J == {j \in 1..Len(transitions) :
                   r \in transitions[j].to /\ transitions[j].state = "active"}
           S == {transitions[i].at : i \in J}
<1>1. Reactivations(r) = S
  BY DEF Reactivations
<1>2. Len(transitions) \in Nat /\ \A i \in 1..Len(transitions) : transitions[i].at \in Nat
  BY TransitionTimes
<1>3. S \subseteq Nat
  BY <1>2
<1>4. IsFiniteSet(S)
  <2>1. IsFiniteSet(J)
    <3>1. IsFiniteSet(1..Len(transitions))
      BY <1>2, FS_Interval
    <3>2. J \subseteq 1..Len(transitions)
      OBVIOUS
    <3> HIDE DEF J
    <3> QED BY <3>1, <3>2, FS_Subset
  <2> DEFINE F == [i \in J |-> transitions[i].at]
  <2>2. F \in Surjection(J, S)
    BY DEF Surjection
  <2> HIDE DEF F, J, S
  <2> QED BY <2>1, <2>2, FS_Surjection
<1> HIDE DEF S
<1> QED
  BY <1>1, <1>3, <1>4, MaxIsGreatest

LEMMA RecordTimes ==
  ASSUME Forking, InThePast, NEW r, Published(r)
  PROVE  /\ r \in RevisionIds /\ now \in Nat /\ transitions \in Seq(Transitions)
         /\ revisions[r].from \in Nat /\ revisions[r].from < now
         /\ revisions[r].to \in Nat /\ revisions[r].to < now
         /\ Len(transitions) \in Nat
         /\ \A i \in 1..Len(transitions) : transitions[i].at \in Nat /\ transitions[i].at < now
<1>1. r \in RevisionIds /\ now \in Nat /\ transitions \in Seq(Transitions) /\ revisions[r].from \in Nat
  BY DEF Forking, RevisionsArePublished, Published
<1>2. Len(transitions) \in Nat /\ \A i \in 1..Len(transitions) : transitions[i].at \in Nat
  BY <1>1, TransitionTimes
<1> QED
  BY <1>1, <1>2 DEF InThePast

(* Now, and an instant ago, the ledger knows all that it records.          *)
LEMMA KnownByNow ==
  ASSUME Forking, InThePast, NEW r, Published(r), NEW t \in Nat, now <= t + 1
  PROVE  /\ RecordedAt(r, t) <=> Recorded(r)
         /\ RetiredAt(r, t) <=> Retired(r)
<1>1. /\ r \in RevisionIds /\ now \in Nat /\ transitions \in Seq(Transitions)
      /\ revisions[r].from \in Nat /\ revisions[r].from < now
      /\ revisions[r].to \in Nat /\ revisions[r].to < now
      /\ \A i \in 1..Len(transitions) : transitions[i].at \in Nat /\ transitions[i].at < now
  BY RecordTimes
<1>2. RetiredAt(r, t) <=> Retired(r)
  <2>1. \A i \in 1..Len(transitions) : transitions[i].at <= t
    BY <1>1
  <2> QED BY <2>1 DEF RetiredAt, Retired
<1>3. revisions[r].from <= t /\ ~(t < revisions[r].to)
  BY <1>1
<1> SUFFICES RecordedAt(r, t) <=> Recorded(r)
  BY <1>2
<1>4. CASE Reactivations(r) = {}
  <2>1. RecordedAt(r, t) <=> revisions[r].to = None
    BY <1>3, <1>4 DEF RecordedAt
  <2>2. Recorded(r) <=> revisions[r].to = None
    BY <1>4 DEF Recorded
  <2> QED BY <2>1, <2>2
<1>5. CASE Reactivations(r) # {}
  <2> DEFINE last == Max(Reactivations(r))
  <2>1. last \in Reactivations(r) /\ last \in Nat
        /\ \A u \in Reactivations(r) : u \in Nat /\ u <= last
    BY <1>1, <1>5, LatestReactivation
  <2>2. last <= t
    <3>1. PICK i \in 1..Len(transitions) : last = transitions[i].at
      BY <2>1 DEF Reactivations
    <3> QED BY <1>1, <3>1
  <2>3. RecordedAt(r, t) <=> revisions[r].to = None \/ revisions[r].to <= last
    BY <1>3, <1>5, <2>2 DEF RecordedAt
  <2> HIDE DEF last
  <2>4. Recorded(r) <=> revisions[r].to = None \/ revisions[r].to <= last
    BY <1>1, <2>1 DEF Recorded
  <2> QED BY <2>3, <2>4
<1> QED
  BY <1>4, <1>5

(* What the transitions say of a revision that the new ones are not about. *)
LEMMA SaidOfOthers ==
  ASSUME transitions \in Seq(Transitions), NEW s \in Seq(Transitions),
         transitions' = transitions \o s,
         NEW r, \A j \in 1..Len(s) : r \notin s[j].to
  PROVE  /\ Reactivations(r)' = Reactivations(r)
         /\ Retired(r)' <=> Retired(r)
         /\ \A t : RetiredAt(r, t)' <=> RetiredAt(r, t)
<1>1. PICK n \in Nat, k \in Nat : n = Len(transitions) /\ k = Len(s)
  OBVIOUS
<1>2. Len(transitions') = n + k
  BY <1>1
<1>3. \A i \in 1..n : i \in 1..n + k /\ transitions'[i] = transitions[i]
  BY <1>1
<1>4. ASSUME NEW i \in 1..n + k, r \in transitions'[i].to
      PROVE  i \in 1..n
  <2> SUFFICES ASSUME i \notin 1..n PROVE FALSE
    OBVIOUS
  <2>1. i - n \in 1..k /\ transitions'[i] = s[i - n]
    BY <1>1
  <2> QED BY <1>1, <1>4, <2>1
<1>5. Retired(r)' <=> Retired(r)
  BY <1>1, <1>2, <1>3, <1>4 DEF Retired
<1>6. ASSUME NEW t PROVE RetiredAt(r, t)' <=> RetiredAt(r, t)
  BY <1>1, <1>2, <1>3, <1>4 DEF RetiredAt
<1>7. Reactivations(r)' = Reactivations(r)
  <2> DEFINE J == {j \in 1..n : r \in transitions[j].to /\ transitions[j].state = "active"}
  <2>1. Reactivations(r) = {transitions[i].at : i \in J}
    BY <1>1 DEF Reactivations
  <2>2. {j \in 1..Len(transitions') :
           r \in transitions'[j].to /\ transitions'[j].state = "active"} = J
    BY <1>2, <1>3, <1>4
  <2>3. Reactivations(r)' = {transitions'[i].at : i \in J}
    BY <2>2 DEF Reactivations
  <2>4. \A i \in J : transitions'[i].at = transitions[i].at
    BY <1>3
  <2> HIDE DEF J
  <2>5. \A v : v \in {transitions'[i].at : i \in J} <=> v \in {transitions[i].at : i \in J}
    BY <2>4
  <2> QED BY <2>1, <2>3, <2>5
<1> QED
  BY <1>5, <1>6, <1>7

(* A step leaves alone what the ledger says of a revision.                 *)
SaysTheSame(r) ==
  /\ revisions'[r].to = revisions[r].to
  /\ Reactivations(r)' = Reactivations(r)
  /\ Retired(r)' <=> Retired(r)
  /\ \A t : RetiredAt(r, t)' <=> RetiredAt(r, t)

IsHead(r) == heads[revisions[r].family].revision = r

LEMMA UntouchedSaysTheSame ==
  ASSUME NEW r, UNCHANGED <<revisions, transitions>>
  PROVE  SaysTheSame(r)
BY DEF SaysTheSame, Reactivations, Retired, RetiredAt

LEMMA PublicationSays ==
  ASSUME Forking, NEW p, NEW f, NEW new, NEW retired, Publishes(p, f, new, retired),
         NEW r, Published(r)
  PROVE  /\ Reactivations(r)' = Reactivations(r)
         /\ Retired(r)' <=> Retired(r)
         /\ \A t : RetiredAt(r, t)' <=> RetiredAt(r, t)
<1>1. /\ transitions' = transitions \o <<NewTransition(p, new)>>
      /\ <<NewTransition(p, new)>> \in Seq(Transitions)
      /\ transitions \in Seq(Transitions)
  BY DEF Publishes, Forking, RevisionsArePublished
<1>2. r # new /\ NewTransition(p, new).to = {new}
  BY DEF Publishes, NewTransition
<1>3. \A j \in 1..Len(<<NewTransition(p, new)>>) : r \notin <<NewTransition(p, new)>>[j].to
  BY <1>2
<1> QED
  BY <1>1, <1>3, SaidOfOthers

(* A publication ends the window of its parents and no other.              *)
LEMMA PublicationLeaves ==
  ASSUME Forking, NEW p, NEW f, NEW new, NEW retired, Publishes(p, f, new, retired),
         NEW r, Published(r), r \notin proposals[p].base
  PROVE  SaysTheSame(r)
<1>1. r \in RevisionIds /\ r # new
  BY DEF Publishes, Published
<1>2. revisions'[r].to = revisions[r].to
  BY <1>1 DEF Publishes, EndsParents
<1> QED
  BY <1>2, PublicationSays DEF SaysTheSame

LEMMA UnmergeLeaves ==
  ASSUME Forking, NEW p, NEW m \in ProposalIds, NEW man, Unmerging(p, m, man),
         NEW r, Published(r), r # man.revision
  PROVE  /\ revisions'[r].to = revisions[r].to
         /\ Retired(r)' <=> Retired(r)
         /\ \A t : RetiredAt(r, t)' <=> RetiredAt(r, t)
         /\ r \notin Befores(man) => SaysTheSame(r)
         /\ r \in Befores(man) => now \in Reactivations(r)'
<1> DEFINE a == [from |-> {man.revision}, to |-> {man.revision}, state |-> "invalidated", at |-> now]
           b == [from |-> {}, to |-> Befores(man), state |-> "active", at |-> now]
<1>1. transitions' = transitions \o <<a, b>> /\ transitions \in Seq(Transitions)
  BY DEF Unmerging, Forking, RevisionsArePublished
<1>2. Told(m, man)
  BY UnmergedStood
<1>3. a \in Transitions /\ b \in Transitions
  <2>1. man.revision \in RevisionIds /\ Befores(man) \subseteq RevisionIds /\ now \in Nat
    BY <1>2 DEF Told, Befores, Published, Unmerging, Consumed
  <2>2. {"invalidated", "active"} \subseteq RevisionStates
    BY DEF RevisionStates
  <2> QED BY <2>1, <2>2 DEF Transitions
<1>4. /\ a.to = {man.revision} /\ b.to = Befores(man)
      /\ b.state = "active" /\ b.at = now
  OBVIOUS
<1> HIDE DEF a, b
<1>5. PICK n \in Nat : n = Len(transitions)
  BY <1>1
<1>6. /\ Len(transitions') = n + 2
      /\ \A i \in 1..n : transitions'[i] = transitions[i]
      /\ transitions'[n + 1] = a /\ transitions'[n + 2] = b
  BY <1>1, <1>3, <1>5
<1>7. revisions'[r].to = revisions[r].to
  BY DEF Unmerging, EndsMerge, Published
<1>8. CASE r \notin Befores(man)
  <2>1. PICK s : s = <<a, b>>
    OBVIOUS
  <2>2. s \in Seq(Transitions) /\ transitions' = transitions \o s
    BY <1>1, <1>3, <2>1
  <2>3. \A j \in 1..Len(s) : r \notin s[j].to
    BY <1>4, <1>8, <2>1
  <2>4. /\ Reactivations(r)' = Reactivations(r)
        /\ Retired(r)' <=> Retired(r)
        /\ \A t : RetiredAt(r, t)' <=> RetiredAt(r, t)
    BY <1>1, <2>2, <2>3, SaidOfOthers
  <2>5. SaysTheSame(r)
    BY <1>7, <2>4 DEF SaysTheSame
  <2> QED BY <1>7, <1>8, <2>4, <2>5
<1>9. CASE r \in Befores(man)
  <2>1. \A i \in 1..n + 2 : i \in 1..n \/ i = n + 1 \/ i = n + 2
    OBVIOUS
  <2>2. \A i \in 1..n : i \in 1..n + 2
    OBVIOUS
  <2>3. r \notin a.to /\ b.state \notin {"invalidated", "archived"}
    BY <1>4
  <2>4. Retired(r)' <=> Retired(r)
    BY <1>5, <1>6, <2>1, <2>2, <2>3 DEF Retired
  <2>5. ASSUME NEW t PROVE RetiredAt(r, t)' <=> RetiredAt(r, t)
    BY <1>5, <1>6, <2>1, <2>2, <2>3 DEF RetiredAt
  <2>6. now \in Reactivations(r)'
    <3>1. n + 2 \in 1..n + 2
      OBVIOUS
    <3> QED BY <1>4, <1>6, <1>9, <3>1 DEF Reactivations
  <2> QED BY <1>7, <1>9, <2>4, <2>5, <2>6
<1> QED
  BY <1>8, <1>9

(* Only what begins or ceases to be a head is touched.                     *)
LEMMA HeadsAreTouched ==
  ASSUME Forking, Grows, StepKinds, NEW r, Published(r), IsHead(r)' <=> IsHead(r)
  PROVE  SaysTheSame(r)
<1>1. r \in RevisionIds /\ revisions'[r].family = revisions[r].family
      /\ revisions[r].family \in FamilyIds
  BY PublishedGrows DEF Forking, RevisionsArePublished
<1>2. CASE Quiet
  BY <1>2, UntouchedSaysTheSame DEF Quiet, canonical
<1>3. ASSUME NEW p, Linking(p) PROVE SaysTheSame(r)
  BY <1>3, UntouchedSaysTheSame DEF Linking
<1>4. ASSUME NEW p, NEW f, NEW new, NEW retired, Publishes(p, f, new, retired),
             \A q \in proposals[p].base : /\ revisions[q].family \in retired \cup {f}
                                          /\ heads[revisions[q].family].revision = q
      PROVE  SaysTheSame(r)
  <2> SUFFICES r \notin proposals[p].base
    BY <1>4, PublicationLeaves
  <2> SUFFICES ASSUME r \in proposals[p].base PROVE FALSE
    OBVIOUS
  <2>1. IsHead(r) /\ revisions[r].family \in retired \cup {f}
    BY <1>4 DEF IsHead
  <2>2. heads'[revisions[r].family].revision \in {new, None}
    BY <1>1, <1>4, <2>1 DEF Publishes, NoHead
  <2>3. r # new /\ r # None
    BY <1>1, <1>4 DEF Publishes, RevisionIds, None
  <2> QED BY <1>1, <2>1, <2>2, <2>3 DEF IsHead
<1>5. ASSUME NEW p, NEW f, NEW new, Publishing(p, f, new) PROVE SaysTheSame(r)
  <2>1. /\ Publishes(p, f, new, {})
        /\ \A q \in proposals[p].base : revisions[q].family = f /\ heads[f].revision = q
    BY <1>5 DEF Publishing
  <2> QED BY <1>4, <2>1
<1>6. ASSUME NEW p, NEW f, NEW new, NEW sources, Merging(p, f, new, sources) PROVE SaysTheSame(r)
  <2>1. /\ Publishes(p, f, new, sources)
        /\ \A q \in proposals[p].base : /\ revisions[q].family \in sources \cup {f}
                                        /\ heads[revisions[q].family].revision = q
    BY <1>6 DEF Merging
  <2> QED BY <1>4, <2>1
<1>7. ASSUME NEW p, NEW m \in ProposalIds, NEW man, Unmerging(p, m, man) PROVE SaysTheSame(r)
  <2>1. /\ Told(m, man) /\ Replaced(m) /\ man = manifests[m] /\ man.revision \notin Befores(man)
    BY <1>7, UnmergedStood
  <2>2. /\ heads[man.target].revision = man.revision
        /\ \A g \in Affected(man) : \E x \in man.heads : x.family = g /\ heads'[g].revision = x.revision
    BY <1>7 DEF Unmerging
  <2>3. r # man.revision
    <3> SUFFICES ASSUME r = man.revision PROVE FALSE
      OBVIOUS
    <3>1. revisions[r].family = man.target /\ man.target \in Affected(man)
      BY <2>1 DEF Told, Affected
    <3>2. IsHead(r)
      BY <2>2, <3>1 DEF IsHead
    <3>3. heads'[man.target].revision \in Befores(man)
      BY <2>2, <3>1 DEF Befores
    <3> QED BY <1>1, <2>1, <3>1, <3>2, <3>3 DEF IsHead
  <2>4. r \notin Befores(man)
    <3> SUFFICES ASSUME r \in Befores(man) PROVE FALSE
      OBVIOUS
    <3>1. PICK x \in man.heads : x.revision = r
      BY DEF Befores
    <3>2. x.family = revisions[r].family /\ x.family \in Affected(man)
          /\ \A y \in man.heads : y.family = x.family => y = x
      BY <2>1, <3>1 DEF Told
    <3>3. heads'[x.family].revision = r
      BY <2>2, <3>1, <3>2
    <3>4. ~IsHead(r)
      BY <1>1, <2>1 DEF IsHead, Replaced
    <3> QED BY <1>1, <3>2, <3>3, <3>4 DEF IsHead
  <2> QED BY <1>7, <2>3, <2>4, UnmergeLeaves
<1> QED
  BY <1>2, <1>3, <1>5, <1>6, <1>7 DEF StepKinds

LEMMA UndoneForGood ==
  ASSUME Grows
  PROVE  /\ \A m : Merged(m) => Merged(m)' /\ manifests'[m] = manifests[m]
         /\ \A m : Undone(m) => Undone(m)'
         /\ \A r : UndoneRevision(r) => UndoneRevision(r)'
<1>1. ASSUME NEW m, Merged(m) PROVE Merged(m)' /\ manifests'[m] = manifests[m]
  BY <1>1 DEF Grows, Merged, NoManifest
<1>2. ASSUME NEW m, Undone(m) PROVE Undone(m)'
  <2>1. PICK p \in ProposalIds : /\ proposals[p].operation = "unmerge"
                                 /\ proposals[p].status = "applied"
                                 /\ proposals[p].manifest = m
    BY <1>2 DEF Undone
  <2>2. /\ proposals'[p].operation = "unmerge"
        /\ proposals'[p].status = "applied"
        /\ proposals'[p].manifest = m
    BY <2>1 DEF Grows, Draws
  <2> QED BY <2>2 DEF Undone
<1> QED
  BY <1>1, <1>2 DEF UndoneRevision

(* The clock moves on whenever something is recorded.                      *)
LEMMA PastKept ==
  ASSUME Forking, Grows, StepKinds, InThePast
  PROVE  InThePast'
<1>1. /\ now \in Nat /\ transitions \in Seq(Transitions) /\ Len(transitions) \in Nat
      /\ \A i \in 1..Len(transitions) : transitions[i].at \in Nat /\ transitions[i].at < now
  <2>1. now \in Nat /\ transitions \in Seq(Transitions)
    BY DEF Forking, RevisionsArePublished
  <2> QED BY <2>1, TransitionTimes DEF InThePast
<1>2. CASE UNCHANGED <<revisions, transitions>> /\ now' \in {now, now + 1}
  <2>1. now' \in Nat /\ now <= now'
    BY <1>1, <1>2
  <2>2. \A r \in RevisionIds : revisions[r].from \in Nat
    BY DEF Forking, RevisionsArePublished
  <2>3. \A r \in RevisionIds : revisions'[r].to \in Nat /\ revisions'[r].to < now'
    BY <1>1, <1>2, <2>1 DEF InThePast
  <2>4. \A r \in RevisionIds : Published(r)' => revisions'[r].from < now'
    BY <1>1, <1>2, <2>1, <2>2 DEF InThePast, Published
  <2>5. \A i \in 1..Len(transitions') : transitions'[i].at < now'
    BY <1>1, <1>2, <2>1
  <2> QED BY <1>2, <2>3, <2>4, <2>5 DEF InThePast, Published
<1>3. ASSUME NEW p, NEW f, NEW new, NEW retired, Publishes(p, f, new, retired)
      PROVE  InThePast'
  <2>1. now' = now + 1 /\ new \in RevisionIds /\ revisions'[new].from = now
    BY <1>3 DEF Publishes, Consumed
  <2>2. \A r \in RevisionIds : revisions'[r].to \in {revisions[r].to, now, None}
    BY <1>3 DEF Publishes, EndsParents, EndsNow
  <2>3. \A r \in RevisionIds : revisions'[r].to \in Nat /\ revisions'[r].to < now'
    BY <1>1, <2>1, <2>2 DEF InThePast, None
  <2>4. \A r \in RevisionIds : Published(r)' =>
          \/ r = new
          \/ /\ Published(r) /\ revisions'[r].from = revisions[r].from
             /\ revisions[r].from \in Nat /\ revisions[r].from < now
    BY <1>3, PublicationKept, RecordTimes DEF Publishes, Record
  <2>5. \A r \in RevisionIds : Published(r)' => revisions'[r].from < now'
    BY <1>1, <2>1, <2>4
  <2>6. \A r, s \in RevisionIds :
          Published(r)' /\ Published(s)' /\ revisions'[r].from = revisions'[s].from => r = s
    BY <1>1, <2>1, <2>4 DEF InThePast
  <2>7. \A i \in 1..Len(transitions') : transitions'[i].at < now'
    <3>1. transitions' = Append(transitions, NewTransition(p, new)) /\ NewTransition(p, new).at = now
      BY <1>3 DEF Publishes, NewTransition
    <3>2. \A i \in 1..Len(transitions') :
            \/ i \in 1..Len(transitions) /\ transitions'[i] = transitions[i]
            \/ transitions'[i] = NewTransition(p, new)
      BY <1>1, <3>1
    <3> QED BY <1>1, <2>1, <3>1, <3>2
  <2> QED BY <2>3, <2>5, <2>6, <2>7 DEF InThePast
<1>4. ASSUME NEW p, NEW m \in ProposalIds, NEW man, Unmerging(p, m, man)
      PROVE  InThePast'
  <2>1. now' = now + 1 /\ \A r \in RevisionIds : Record(revisions'[r]) = Record(revisions[r])
    BY <1>4 DEF Unmerging, Consumed
  <2>2. \A r \in RevisionIds : revisions'[r].to \in {revisions[r].to, now}
    BY <1>4 DEF Unmerging, EndsMerge, EndsNow
  <2>3. \A r \in RevisionIds : revisions'[r].to \in Nat /\ revisions'[r].to < now'
    BY <1>1, <2>1, <2>2 DEF InThePast
  <2>4. \A r \in RevisionIds : Published(r)' =>
          Published(r) /\ revisions'[r].from = revisions[r].from
          /\ revisions[r].from \in Nat /\ revisions[r].from < now
    BY <2>1, RecordTimes DEF Published, Record
  <2>5. \A r \in RevisionIds : Published(r)' => revisions'[r].from < now'
    BY <1>1, <2>1, <2>4
  <2>6. \A r, s \in RevisionIds :
          Published(r)' /\ Published(s)' /\ revisions'[r].from = revisions'[s].from => r = s
    BY <2>4 DEF InThePast
  <2>7. \A i \in 1..Len(transitions') : transitions'[i].at < now'
    <3> DEFINE a == [from |-> {man.revision}, to |-> {man.revision}, state |-> "invalidated", at |-> now]
               b == [from |-> {}, to |-> Befores(man), state |-> "active", at |-> now]
    <3>1. transitions' = transitions \o <<a, b>> /\ a.at = now /\ b.at = now
      BY <1>4 DEF Unmerging
    <3> HIDE DEF a, b
    <3>2. \A i \in 1..Len(transitions') :
            \/ i \in 1..Len(transitions) /\ transitions'[i] = transitions[i]
            \/ transitions'[i] \in {a, b}
      BY <1>1, <3>1
    <3> QED BY <1>1, <2>1, <3>1, <3>2
  <2> QED BY <2>3, <2>5, <2>6, <2>7 DEF InThePast
<1> QED
  BY <1>2, <1>3, <1>4 DEF StepKinds, Quiet, Linking, Publishing, Merging, canonical, Consumed

(* What happens to the head of a family, and to what is published.         *)
LEMMA RecordsMove ==
  ASSUME Forking, Grows, StepKinds
  PROVE  /\ \A r : Published(r) => /\ r \in RevisionIds /\ Published(r)'
                                   /\ revisions'[r].family = revisions[r].family
                                   /\ revisions'[r].from = revisions[r].from
                                   /\ revisions'[r].content = revisions[r].content
                                   /\ revisions'[r].proposal = revisions[r].proposal
         /\ \A r : Published(r)' /\ ~Published(r) =>
              /\ revisions'[r].from = now /\ revisions'[r].to = None
              /\ heads'[revisions'[r].family].revision = r
              /\ families[revisions'[r].family].state # "merged"
              /\ \A q : Published(q)' => Published(q) \/ q = r
<1>1. ASSUME NEW r, Published(r)
      PROVE  /\ r \in RevisionIds /\ Published(r)'
             /\ revisions'[r].family = revisions[r].family
             /\ revisions'[r].from = revisions[r].from
             /\ revisions'[r].content = revisions[r].content
             /\ revisions'[r].proposal = revisions[r].proposal
  BY <1>1 DEF Grows, Published, Record
<1>2. ASSUME NEW r, Published(r)', ~Published(r)
      PROVE  /\ revisions'[r].from = now /\ revisions'[r].to = None
             /\ heads'[revisions'[r].family].revision = r
             /\ families[revisions'[r].family].state # "merged"
             /\ \A q : Published(q)' => Published(q) \/ q = r
  <2>1. CASE UNCHANGED revisions
    BY <1>2, <2>1 DEF Published
  <2>2. ASSUME NEW p, NEW f, NEW new, NEW retired, Publishes(p, f, new, retired),
               families[f].state # "merged"
        PROVE  /\ revisions'[r].from = now /\ revisions'[r].to = None
               /\ heads'[revisions'[r].family].revision = r
               /\ families[revisions'[r].family].state # "merged"
               /\ \A q : Published(q)' => Published(q) \/ q = r
    <3>1. r = new /\ \A q : Published(q)' => Published(q) \/ q = new
      BY <1>2, <2>2, PublicationKept
    <3> QED BY <2>2, <3>1 DEF Publishes, EndsParents
  <2>3. ASSUME NEW p, NEW m, NEW man, Unmerging(p, m, man) PROVE FALSE
    BY <1>2, <2>3 DEF Unmerging, Published, Record
  <2>4. ASSUME NEW p, NEW f, NEW new, Publishing(p, f, new)
        PROVE  Publishes(p, f, new, {}) /\ families[f].state # "merged"
    BY <2>4 DEF Publishing
  <2>5. ASSUME NEW p, NEW f, NEW new, NEW sources, Merging(p, f, new, sources)
        PROVE  Publishes(p, f, new, sources) /\ families[f].state # "merged"
    BY <2>5 DEF Merging
  <2> QED BY <2>1, <2>2, <2>3, <2>4, <2>5 DEF StepKinds, Quiet, Linking, canonical
<1> QED
  BY <1>1, <1>2

(* A head stays, is new, or is given back by an UNMERGE.                   *)
Restored(g, r) ==
  \E p, m \in ProposalIds : \E man :
    /\ Unmerging(p, m, man)
    /\ g \in Affected(man)
    /\ \E x \in man.heads : x.family = g /\ x.revision = r

LEMMA HeadsMove ==
  ASSUME Forking, Grows, StepKinds, NEW g \in FamilyIds, HasHead(g)',
         NEW r, r = heads'[g].revision
  PROVE  \/ heads[g].revision = r
         \/ Published(r)' /\ ~Published(r)
         \/ Restored(g, r)
<1> DEFINE Goal == \/ heads[g].revision = r
                   \/ Published(r)' /\ ~Published(r)
                   \/ Restored(g, r)
<1>1. CASE UNCHANGED heads
  BY <1>1
<1>2. ASSUME NEW p, NEW f, NEW new, NEW retired, Publishes(p, f, new, retired)
      PROVE  Goal
  BY <1>2, PublicationKept
<1>3. ASSUME NEW p \in ProposalIds, NEW m \in ProposalIds, NEW man, Unmerging(p, m, man)
      PROVE  Goal
  <2>1. CASE g \notin Affected(man)
    BY <1>3, <2>1 DEF Unmerging
  <2>2. CASE g \in Affected(man)
    <3>1. \E x \in man.heads : x.family = g /\ x.revision = r
      BY <1>3, <2>2 DEF Unmerging
    <3> QED BY <1>3, <2>2, <3>1 DEF Restored
  <2> QED BY <2>1, <2>2
<1>4. ASSUME NEW p, NEW f, NEW new, Publishing(p, f, new) PROVE Publishes(p, f, new, {})
  BY <1>4 DEF Publishing
<1>5. ASSUME NEW p, NEW f, NEW new, NEW sources, Merging(p, f, new, sources)
      PROVE  Publishes(p, f, new, sources)
  BY <1>5 DEF Merging
<1> HIDE DEF Goal
<1>6. Quiet \/ (\E p \in ProposalIds : Linking(p)) => UNCHANGED heads
  BY DEF Quiet, Linking, canonical
<1>7. ASSUME NEW p, NEW f, NEW new, Publishing(p, f, new) PROVE Goal
  BY <1>2, <1>4, <1>7
<1>8. ASSUME NEW p, NEW f, NEW new, NEW sources, Merging(p, f, new, sources) PROVE Goal
  BY <1>2, <1>5, <1>8
<1>9. Goal
  <2>1. Quiet \/ (\E p \in ProposalIds : Linking(p)) => Goal
    BY <1>1, <1>6 DEF Goal
  <2>2. (\E p \in ProposalIds, f \in FamilyIds, n \in RevisionIds : Publishing(p, f, n)) => Goal
    BY <1>7
  <2>3. (\E p \in ProposalIds, f \in FamilyIds, n \in RevisionIds : \E sources :
           Merging(p, f, n, sources)) => Goal
    BY <1>8
  <2>4. (\E p, m \in ProposalIds : \E man : Unmerging(p, m, man)) => Goal
    BY <1>3
  <2> QED BY <2>1, <2>2, <2>3, <2>4, Zenon DEF StepKinds
<1> QED
  BY <1>9 DEF Goal

(* What an UNMERGE gives back was in effect before its merge, and all that *)
(* was published since is undone.                                          *)
LEMMA RestoredFacts ==
  ASSUME Rewinding, Grows, StepKinds, NEW p \in ProposalIds, NEW m \in ProposalIds, NEW man,
         Unmerging(p, m, man), NEW x \in man.heads
  PROVE  /\ Recorded(x.revision)'
         /\ \A r \in RevisionIds :
              /\ Published(r) /\ revisions[r].family = x.family
              /\ revisions[x.revision].from < revisions[r].from
              => UndoneRevision(r)'
<1>1. /\ Told(m, man) /\ man = manifests[m] /\ Standing(m) /\ man.revision \notin Befores(man)
      /\ heads[man.target].revision = man.revision
      /\ \A n : Undone(n)' <=> Undone(n) \/ n = m
  <2>1. Forking /\ heads[man.target].revision = man.revision
    BY DEF Rewinding, Unmerging
  <2>2. /\ Told(m, man) /\ man = manifests[m] /\ Standing(m) /\ man.revision \notin Befores(man)
    BY <2>1, UnmergedStood
  <2>3. \A n : Undone(n)' <=> Undone(n) \/ n = m
    BY <2>1, UnmergingStands
  <2> QED BY <2>1, <2>2, <2>3
<1>2. /\ Published(x.revision) /\ x.revision \in Befores(man) /\ x.revision # man.revision
      /\ x.revision \in RevisionIds /\ x.family \in Affected(man)
  BY <1>1 DEF Told, Befores, Published
<1>3. Recorded(x.revision)'
  <2>1. now \in Reactivations(x.revision)' /\ revisions'[x.revision].to = revisions[x.revision].to
    <3>1. Forking
      BY DEF Rewinding
    <3>2. ASSUME NEW r, Published(r), r # man.revision, r \in Befores(man)
          PROVE  now \in Reactivations(r)' /\ revisions'[r].to = revisions[r].to
      BY <3>1, <3>2, UnmergeLeaves
    <3>3. PICK r : r = x.revision
      OBVIOUS
    <3>4. now \in Reactivations(r)' /\ revisions'[r].to = revisions[r].to
      BY <1>2, <3>2, <3>3
    <3> QED BY <3>3, <3>4
  <2>2. revisions[x.revision].to < now /\ revisions[x.revision].to \in Nat /\ now \in Nat
    BY <1>2, RecordTimes DEF Rewinding
  <2> QED BY <2>1, <2>2 DEF Recorded
<1>4. ASSUME NEW r \in RevisionIds, Published(r), revisions[r].family = x.family,
             revisions[x.revision].from < revisions[r].from
      PROVE  UndoneRevision(r)'
  <2> DEFINE merged == revisions[man.revision].from
  <2>1. /\ Published(man.revision) /\ merged \in Nat /\ revisions[r].from \in Nat
        /\ man.revision \in RevisionIds /\ revisions[man.revision].family = man.target
        /\ man.target \in FamilyIds
    BY <1>1, <1>4 DEF Rewinding, Forking, RevisionsArePublished, Told, Published
  <2>2. Rewinds(man.sources, x, merged, r)
    BY <1>1, <1>4 DEF Rewinding, MergesRewind, MergeRewinds
  <2>3. CASE revisions[r].from < merged
    BY <1>4, <2>2, <2>3, UndoneForGood DEF Rewinds
  <2>4. CASE revisions[r].from = merged
    <3>1. r = man.revision
      BY <1>4, <2>1, <2>4 DEF Rewinding, InThePast
    <3>2. Merged(m)' /\ Undone(m)' /\ manifests'[m].revision = man.revision
      BY <1>1, UndoneForGood DEF Standing
    <3> QED BY <3>1, <3>2 DEF UndoneRevision
  <2>5. CASE merged < revisions[r].from
    <3>1. x.family = man.target
      BY <1>2, <2>1, <2>2, <2>5 DEF Rewinds, Affected
    <3>2. HasHead(man.target)
      BY <1>1, <2>1 DEF HasHead, RevisionIds, None
    <3>3. UndoneRevision(r)
      BY <1>1, <1>4, <2>1, <2>5, <3>1, <3>2 DEF Rewinding, HeadsAreLast
    <3> QED BY <3>3, UndoneForGood
  <2> QED BY <2>1, <2>3, <2>4, <2>5
<1> QED
  BY <1>3, <1>4

LEMMA HeadsStayLast ==
  ASSUME Rewinding, Grows, StepKinds, Forking'
  PROVE  HeadsAreLast'
<1>1. /\ Forking /\ InThePast /\ HeadsAreLast
      /\ now \in Nat
  BY DEF Rewinding, Forking, RevisionsArePublished
<1> SUFFICES ASSUME NEW f \in FamilyIds, HasHead(f)'
             PROVE  /\ Recorded(heads[f].revision)'
                    /\ \A r \in RevisionIds :
                         /\ Published(r)' /\ revisions'[r].family = f
                         /\ revisions'[heads'[f].revision].from < revisions'[r].from
                         => UndoneRevision(r)'
  BY DEF HeadsAreLast
<1>2. PICK h : h = heads'[f].revision
  OBVIOUS
<1>3. Published(h)' /\ revisions'[h].family = f /\ h # None
  BY <1>2 DEF Forking, RevisionsArePublished, HasHead
<1> SUFFICES /\ Recorded(h)'
             /\ \A r \in RevisionIds :
                  /\ Published(r)' /\ revisions'[r].family = f
                  /\ revisions'[h].from < revisions'[r].from
                  => UndoneRevision(r)'
  BY <1>2
<1>4. CASE heads[f].revision = h
  <2>1. HasHead(f)
    BY <1>3, <1>4 DEF HasHead
  <2>2. Published(h) /\ revisions[h].family = f
    BY <1>1, <1>4, <2>1 DEF Forking, RevisionsArePublished
  <2>3. SaysTheSame(h)
    BY <1>1, <1>2, <1>3, <1>4, <2>2, HeadsAreTouched DEF IsHead
  <2>4. Recorded(h) /\ \A r \in RevisionIds :
          Published(r) /\ revisions[r].family = f /\ revisions[h].from < revisions[r].from
            => UndoneRevision(r)
    BY <1>1, <1>4, <2>1 DEF HeadsAreLast
  <2>5. Recorded(h)'
    BY <2>3, <2>4 DEF Recorded, SaysTheSame
  <2>6. \A r : Published(r)' /\ ~Published(r) => revisions'[r].family # f
    BY <1>1, <1>2, <2>2, RecordsMove
  <2> QED BY <1>1, <2>2, <2>4, <2>5, <2>6, RecordsMove, UndoneForGood
<1>5. CASE ~Published(h)
  <2>1. /\ revisions'[h].from = now /\ revisions'[h].to = None
        /\ \A q : Published(q)' => Published(q) \/ q = h
    BY <1>1, <1>3, <1>5, RecordsMove
  <2>2. \A q : Published(q) =>
          revisions'[q].from \in Nat /\ revisions'[q].from < now
    BY <1>1, RecordsMove, RecordTimes
  <2>3. \A q : Published(q)' => ~(revisions'[h].from < revisions'[q].from)
    BY <1>1, <2>1, <2>2
  <2> QED BY <2>1, <2>3 DEF Recorded
<1>6. CASE Restored(f, h)
  <2>1. PICK p, m \in ProposalIds : \E man :
          /\ Unmerging(p, m, man)
          /\ \E x \in man.heads : x.family = f /\ x.revision = h
    BY <1>6 DEF Restored
  <2>2. PICK man : /\ Unmerging(p, m, man)
                   /\ \E x \in man.heads : x.family = f /\ x.revision = h
    BY <2>1
  <2>3. PICK x \in man.heads : x.family = f /\ x.revision = h
    BY <2>2
  <2>4. /\ Recorded(h)'
        /\ \A r \in RevisionIds :
             Published(r) /\ revisions[r].family = f /\ revisions[h].from < revisions[r].from
               => UndoneRevision(r)'
    BY <2>2, <2>3, RestoredFacts
  <2>5. \A r : Published(r)' => Published(r)
    BY <2>2 DEF Unmerging, Published, Record
  <2>6. \A r : Published(r) => /\ revisions'[r].family = revisions[r].family
                               /\ revisions'[r].from = revisions[r].from
    BY <1>1, RecordsMove
  <2> QED BY <1>3, <2>4, <2>5, <2>6
<1> QED
  BY <1>1, <1>2, <1>4, <1>5, <1>6, HeadsMove

(* No head is older than the merges that stand around it.                  *)
HeadsFollowMerges ==
  \A m \in ProposalIds : Standing(m) =>
    \A x \in manifests[m].heads, r \in RevisionIds :
      Published(r) /\ revisions[r].family = x.family /\ IsHead(r) =>
        revisions[manifests[m].revision].from <= revisions[r].from

LEMMA HeadsAreAfter == Forking /\ HeadsAreLast => HeadsFollowMerges
<1> SUFFICES ASSUME Forking, HeadsAreLast, NEW m \in ProposalIds, Standing(m),
                    NEW x \in manifests[m].heads, NEW r \in RevisionIds,
                    Published(r), revisions[r].family = x.family, IsHead(r)
             PROVE  revisions[manifests[m].revision].from <= revisions[r].from
  BY DEF HeadsFollowMerges
<1> DEFINE man == manifests[m]
<1>1. Told(m, man) /\ Merged(m)
  BY DEF Forking, ManifestsTell, Standing
<1>2. x.family \in Affected(man) /\ Affected(man) \subseteq FamilyIds
  BY <1>1 DEF Told, Affected
<1>3. HasHead(x.family) /\ heads[x.family].revision = r
  BY DEF IsHead, HasHead, RevisionIds, None
<1>4. x.family \notin man.sources
  <2>1. \A g \in man.sources : families[g].state = "merged"
    BY DEF Forking, MergesStand, RetiredBy
  <2>2. families[x.family].state = "active"
    BY <1>2, <1>3 DEF Forking, FamiliesAreNamed, NamedFamily
  <2> QED BY <2>1, <2>2
<1>5. x.family = man.target
  BY <1>2, <1>4 DEF Affected
<1>6. ~UndoneRevision(man.revision)
  <2> SUFFICES ASSUME NEW n \in ProposalIds, Merged(n), Undone(n),
                      manifests[n].revision = man.revision
               PROVE  FALSE
    BY DEF UndoneRevision
  <2>1. Told(n, manifests[n])
    BY DEF Forking, ManifestsTell
  <2>2. n = m
    BY <1>1, <2>1 DEF Told
  <2> QED BY <2>2 DEF Standing
<1>7. /\ man.revision \in RevisionIds /\ Published(man.revision)
      /\ revisions[man.revision].family = man.target
      /\ revisions[man.revision].from \in Nat /\ revisions[r].from \in Nat
  BY <1>1 DEF Told, Published, Forking, RevisionsArePublished
<1>8. ~(revisions[r].from < revisions[man.revision].from)
  BY <1>2, <1>3, <1>5, <1>6, <1>7 DEF HeadsAreLast
<1> QED BY <1>7, <1>8

LEMMA SaysTheSameAt ==
  ASSUME NEW r, SaysTheSame(r), revisions'[r].from = revisions[r].from
  PROVE  /\ Recorded(r)' <=> Recorded(r)
         /\ \A t : RecordedAt(r, t)' <=> RecordedAt(r, t)
BY DEF SaysTheSame, Recorded, RecordedAt

(* A merge that stands goes on telling what was said before it.            *)
LEMMA RewindStays ==
  ASSUME Rewinding, Grows, StepKinds, Forking', HeadsAreLast',
         NEW m \in ProposalIds, Merged(m), Standing(m)'
  PROVE  MergeRewinds(manifests[m])'
<1>1. /\ Forking /\ InThePast /\ HeadsAreLast /\ now \in Nat
  BY DEF Rewinding, Forking, RevisionsArePublished
<1>2. PICK man : man = manifests[m] /\ man = manifests'[m]
  BY UndoneForGood
<1>3. Standing(m)
  BY UndoneForGood DEF Standing
<1>4. Told(m, man) /\ RetiredBy(m)
  BY <1>1, <1>2, <1>3 DEF Forking, ManifestsTell, MergesStand, Standing
<1>5. PICK merged : merged = revisions[man.revision].from
  OBVIOUS
<1>6. /\ merged = revisions'[man.revision].from /\ merged \in Nat /\ merged < now
      /\ man.revision \in RevisionIds /\ Published(man.revision)
  BY <1>1, <1>4, <1>5, RecordsMove, RecordTimes DEF Told
<1>7. HeadsFollowMerges /\ HeadsFollowMerges'
  BY <1>1, HeadsAreAfter, PTL
<1> SUFFICES ASSUME NEW x \in man.heads
             PROVE  /\ revisions'[x.revision].from < merged
                    /\ \A r \in RevisionIds : Published(r)' /\ revisions'[r].family = x.family =>
                         Rewinds(man.sources, x, merged, r)'
  BY <1>2, <1>6 DEF MergeRewinds
<1>8. /\ Published(x.revision) /\ x.revision \in RevisionIds
      /\ x.family \in Affected(man) /\ x.family \in FamilyIds
      /\ revisions'[x.revision].from = revisions[x.revision].from
  BY <1>1, <1>4, RecordsMove DEF Told, Affected
<1>9. MergeRewinds(man)
  BY <1>2, <1>3 DEF Rewinding, MergesRewind
<1>10. revisions'[x.revision].from < merged
  BY <1>5, <1>8, <1>9 DEF MergeRewinds
<1>13. \A r \in RevisionIds : Published(r) /\ revisions[r].family = x.family /\ IsHead(r) =>
         merged <= revisions[r].from
  BY <1>2, <1>3, <1>5, <1>7 DEF HeadsFollowMerges
<1>14. \A r \in RevisionIds : Published(r)' /\ revisions'[r].family = x.family /\ IsHead(r)' =>
         merged <= revisions'[r].from
  BY <1>2, <1>6, <1>7 DEF HeadsFollowMerges
<1> SUFFICES ASSUME NEW r \in RevisionIds, Published(r)', revisions'[r].family = x.family
             PROVE  Rewinds(man.sources, x, merged, r)'
  BY <1>10
<1>11. CASE ~Published(r)
  <2>1. revisions'[r].from = now /\ families[x.family].state # "merged"
    BY <1>1, <1>11, RecordsMove
  <2>2. x.family \notin man.sources
    BY <1>2, <1>4, <2>1 DEF RetiredBy
  <2>3. ~(revisions'[r].from < merged)
    BY <1>1, <1>6, <2>1
  <2> QED BY <2>2, <2>3 DEF Rewinds
<1>12. CASE Published(r)
  <2>1. /\ revisions'[r].from = revisions[r].from /\ revisions[r].family = x.family
        /\ revisions'[r].family = revisions[r].family
        /\ revisions[r].from \in Nat
    BY <1>1, <1>12, RecordsMove, RecordTimes
  <2>2. Rewinds(man.sources, x, merged, r)
    BY <1>5, <1>9, <1>12, <2>1 DEF MergeRewinds
  <2>3. CASE revisions[r].from < merged
    <3>1. ~IsHead(r)
      BY <1>6, <1>12, <1>13, <2>1, <2>3
    <3>2. ~IsHead(r)'
      BY <1>6, <1>14, <2>1, <2>3
    <3>3. SaysTheSame(r)
      BY <1>1, <1>12, <3>1, <3>2, HeadsAreTouched
    <3>4. /\ Recorded(r)' <=> Recorded(r)
          /\ RecordedAt(r, merged - 1)' <=> RecordedAt(r, merged - 1)
          /\ Retired(r)' <=> Retired(r)
          /\ RetiredAt(r, merged - 1)' <=> RetiredAt(r, merged - 1)
      BY <2>1, <3>3, SaysTheSameAt DEF SaysTheSame
    <3> QED BY <1>8, <2>1, <2>2, <3>4, UndoneForGood DEF Rewinds
  <2>4. CASE ~(revisions[r].from < merged)
    BY <2>1, <2>2, <2>4 DEF Rewinds
  <2> QED BY <2>3, <2>4
<1> QED BY <1>11, <1>12

(* What a merge records is what the ledger said an instant before.         *)
LEMMA RewindsAnew ==
  ASSUME Rewinding, Grows, StepKinds, NEW p \in ProposalIds, NEW f \in FamilyIds, NEW new,
         NEW sources, Merging(p, f, new, sources)
  PROVE  MergeRewinds(manifests[p])'
<1>1. /\ Forking /\ InThePast /\ HeadsAreLast /\ now \in Nat
  BY DEF Rewinding, Forking, RevisionsArePublished
<1>2. /\ Publishes(p, f, new, sources) /\ sources \subseteq FamilyIds \ {f}
      /\ \A g \in sources \cup {f} : families[g].state = "active"
      /\ \A r \in proposals[p].base : heads[revisions[r].family].revision = r
  BY DEF Merging
<1>3. PICK man : /\ man = manifests'[p]
                 /\ man.sources = sources /\ man.target = f /\ man.revision = new
                 /\ man.heads = {[family |-> g, revision |-> heads[g].revision] : g \in sources \cup {f}}
  <2>1. PICK rows, man : /\ man = Manifest(p, f, sources, rows, new) /\ manifests'[p] = man
                         /\ man.sources = sources /\ man.target = f /\ man.revision = new
    BY <1>1, MergedFacts
  <2> QED BY <2>1 DEF Manifest
<1>4. new \in RevisionIds /\ revisions'[new].from = now /\ revisions'[new].family = f /\ ~Published(new)
  BY <1>2 DEF Publishes
<1>12. PICK merged : merged = now
  OBVIOUS
<1> SUFFICES ASSUME NEW x \in man.heads
             PROVE  /\ revisions'[x.revision].from < merged
                    /\ \A r \in RevisionIds : Published(r)' /\ revisions'[r].family = x.family =>
                         Rewinds(sources, x, merged, r)'
  BY <1>3, <1>4, <1>12 DEF MergeRewinds
<1>11. PICK g \in sources \cup {f} : x.family = g /\ x.revision = heads[g].revision
  BY <1>3
<1>5. PICK h : x.family = g /\ x.revision = h /\ h = heads[g].revision
  BY <1>11
<1>6. /\ g \in FamilyIds /\ HasHead(g) /\ Published(h) /\ h \in RevisionIds
      /\ revisions[h].family = g
  <2>1. g \in FamilyIds /\ families[g].state = "active"
    BY <1>2
  <2>2. HasHead(g)
    BY <1>1, <2>1 DEF Forking, FamiliesAreNamed, NamedFamily
  <2> QED BY <1>1, <1>5, <2>1, <2>2 DEF Forking, RevisionsArePublished, Published
<1>7. revisions'[h].from = revisions[h].from /\ revisions[h].from < merged /\ revisions[h].from \in Nat
  BY <1>1, <1>6, <1>12, RecordsMove, RecordTimes
<1>8. merged - 1 \in Nat /\ now <= (merged - 1) + 1
  BY <1>1, <1>7, <1>12
<1> SUFFICES ASSUME NEW r \in RevisionIds, Published(r)', revisions'[r].family = g
             PROVE  Rewinds(sources, x, merged, r)'
  BY <1>5, <1>7
<1>9. CASE ~Published(r)
  <2>1. r = new
    BY <1>2, <1>9, PublicationKept
  <2>2. g \notin sources /\ ~(revisions'[r].from < merged)
    BY <1>1, <1>2, <1>4, <1>12, <2>1
  <2> QED BY <1>5, <2>2 DEF Rewinds
<1>10. CASE Published(r)
  <2>1. /\ revisions'[r].from = revisions[r].from /\ revisions[r].from < merged
        /\ revisions[r].family = g
    BY <1>1, <1>10, <1>12, RecordsMove, RecordTimes
  <2>2. revisions[h].from < revisions[r].from => UndoneRevision(r)'
    BY <1>1, <1>5, <1>6, <1>10, <2>1, UndoneForGood DEF HeadsAreLast
  <2>3. /\ Reactivations(r)' = Reactivations(r)
        /\ Retired(r)' <=> Retired(r)
        /\ RetiredAt(r, merged - 1)' <=> RetiredAt(r, merged - 1)
    BY <1>1, <1>2, <1>10, PublicationSays
  <2>4. /\ RecordedAt(r, merged - 1) <=> Recorded(r)
        /\ RetiredAt(r, merged - 1) <=> Retired(r)
    BY <1>1, <1>8, <1>10, KnownByNow
  <2>5. CASE r = h
    <3>1. Recorded(r)
      BY <1>1, <1>5, <1>6, <2>5 DEF HeadsAreLast
    <3>2. revisions'[r].to = revisions[r].to \/ revisions'[r].to = merged
      BY <1>2, <1>4, <1>10, <1>12 DEF Publishes, EndsParents, EndsNow
    <3>3. RecordedAt(r, merged - 1)'
      <4>1. CASE revisions'[r].to = revisions[r].to
        <5>1. RecordedAt(r, merged - 1)' <=> RecordedAt(r, merged - 1)
          BY <2>1, <2>3, <4>1 DEF RecordedAt
        <5> QED BY <2>4, <3>1, <5>1
      <4>2. CASE revisions'[r].to = merged
        <5>1. revisions'[r].from <= merged - 1 /\ merged - 1 < revisions'[r].to
          BY <1>1, <1>7, <1>12, <2>1, <2>5, <4>2
        <5> QED BY <5>1 DEF RecordedAt
      <4> QED BY <3>2, <4>1, <4>2
    <3> QED BY <1>5, <1>7, <2>1, <2>2, <2>3, <2>4, <2>5, <3>3 DEF Rewinds
  <2>6. CASE r # h
    <3>1. r \notin proposals[p].base
      BY <1>2, <1>5, <2>1, <2>6
    <3>2. SaysTheSame(r)
      BY <1>1, <1>2, <1>10, <3>1, PublicationLeaves
    <3>3. /\ Recorded(r)' <=> Recorded(r)
          /\ RecordedAt(r, merged - 1)' <=> RecordedAt(r, merged - 1)
      BY <2>1, <3>2, SaysTheSameAt
    <3> QED BY <1>5, <1>7, <2>1, <2>2, <2>3, <2>4, <2>6, <3>3 DEF Rewinds
  <2> QED BY <2>5, <2>6
<1> QED BY <1>9, <1>10

LEMMA MergesStillRewind ==
  ASSUME Rewinding, Grows, StepKinds, Forking', HeadsAreLast'
  PROVE  MergesRewind'
<1> SUFFICES ASSUME NEW m \in ProposalIds, Standing(m)' PROVE MergeRewinds(manifests[m])'
  BY DEF MergesRewind
<1>1. CASE Merged(m)
  BY <1>1, RewindStays
<1>2. CASE ~Merged(m)
  <2>1. manifests'[m] # manifests[m]
    BY <1>2 DEF Standing, Merged, NoManifest
  <2>2. \E p \in ProposalIds, f \in FamilyIds, new \in RevisionIds : \E sources :
          Merging(p, f, new, sources)
    BY <2>1 DEF StepKinds, Quiet, Linking, Publishing, Unmerging
  <2>3. PICK p \in ProposalIds, f \in FamilyIds, new \in RevisionIds : \E sources :
          Merging(p, f, new, sources)
    BY <2>2
  <2>4. PICK sources : Merging(p, f, new, sources)
    BY <2>3
  <2>5. \A n \in ProposalIds \ {p} : manifests'[n] = manifests[n]
    BY <2>4, MergedFacts DEF Rewinding
  <2>6. m = p
    BY <2>1, <2>5
  <2> QED BY <2>4, <2>6, RewindsAnew
<1> QED BY <1>1, <1>2

(* The rows an UNMERGE finds in place of those of the manifest name only   *)
(* the families of the merge.                                              *)
LEMMA ExpectedFamilies ==
  ASSUME NEW m, NEW man, Told(m, man), NEW row \in ExpectedAliases(man)
  PROVE  row.family \in Affected(man)
<1>1. \A x \in man.aliases : DOMAIN x = {"alias", "family", "status"} /\ x.family \in Affected(man)
  BY DEF Told
<1>2. \/ row \in man.aliases
      \/ \E x \in man.aliases : \/ row = [x EXCEPT !.status = "retired"]
                                \/ row = [x EXCEPT !.family = man.target, !.status = "resolved"]
  BY DEF ExpectedAliases, RedirectedAliases
<1>3. ASSUME NEW x \in man.aliases
      PROVE  /\ [x EXCEPT !.status = "retired"].family \in Affected(man)
             /\ [x EXCEPT !.family = man.target, !.status = "resolved"].family \in Affected(man)
  BY <1>1 DEF Affected
<1> QED BY <1>1, <1>2, <1>3

LEMMA NamesKept ==
  ASSUME Rewinding, Grows, StepKinds
  PROVE  NamesAreKept'
<1>1. /\ Forking
      /\ \A f \in FamilyIds : families[f].state = "active" =>
           AliasRow(families[f].legacy, f) \in aliases
      /\ \A m \in ProposalIds : Merged(m) =>
           \A g \in Affected(manifests[m]) :
             AliasRow(families[g].legacy, g) \in manifests[m].aliases
  BY DEF Rewinding, NamesAreKept
<1>2. ASSUME NEW m \in ProposalIds, Merged(m), NEW g \in Affected(manifests[m])
      PROVE  /\ g \in FamilyIds /\ families[g].state # "none"
             /\ families'[g].legacy = families[g].legacy
  <2>1. Told(m, manifests[m])
    BY <1>1, <1>2 DEF Forking, ManifestsTell
  <2>2. g \in FamilyIds /\ families[g].state # "none"
    BY <1>2, <2>1 DEF Told
  <2> QED BY <2>2 DEF Grows
(* A manifest goes on naming the families of its merge.                    *)
<1>3. ASSUME NEW m \in ProposalIds, Merged(m), NEW g \in Affected(manifests'[m])
      PROVE  AliasRow(families'[g].legacy, g) \in manifests'[m].aliases
  <2>1. manifests'[m] = manifests[m]
    BY <1>3, UndoneForGood
  <2>2. g \in Affected(manifests[m])
    BY <1>3, <2>1
  <2>3. AliasRow(families[g].legacy, g) \in manifests[m].aliases
    BY <1>1, <1>3, <2>2
  <2> QED BY <1>2, <1>3, <2>1, <2>2, <2>3
<1> DEFINE Named == \A f \in FamilyIds : families'[f].state = "active" =>
                      AliasRow(families'[f].legacy, f) \in aliases'
           Kept == \A m \in ProposalIds : manifests'[m] # NoManifest /\ ~Merged(m) =>
                     \A g \in Affected(manifests'[m]) :
                       AliasRow(families'[g].legacy, g) \in manifests'[m].aliases
<1>4. ASSUME UNCHANGED <<families, aliases, manifests>> PROVE Named /\ Kept
  BY <1>1, <1>4 DEF Merged, Named, Kept
<1>5. ASSUME NEW p, NEW f, NEW new, Publishing(p, f, new) PROVE Named /\ Kept
  <2>1. /\ UNCHANGED manifests
        /\ \A g \in FamilyIds : g # f => families'[g] = families[g]
        /\ aliases' = aliases \cup {AliasRow(families'[f].legacy, f)}
    BY <1>5 DEF Publishing
  <2> QED BY <1>1, <2>1 DEF Merged
<1>6. ASSUME NEW p \in ProposalIds, NEW f \in FamilyIds, NEW new, NEW sources,
             Merging(p, f, new, sources)
      PROVE  Named /\ Kept
  <2>1. PICK rows, man : /\ rows = aliases \cup {AliasRow(families[f].legacy, f)}
                         /\ aliases' = RedirectedAliases(rows, sources, f)
                         /\ man = Manifest(p, f, sources, rows, new)
                         /\ manifests'[p] = man
                         /\ \A m \in ProposalIds \ {p} : manifests'[m] = manifests[m]
    BY <1>1, <1>6, MergedFacts
  <2>2. /\ sources \subseteq FamilyIds \ {f}
        /\ \A g \in sources \cup {f} : families[g].state = "active"
        /\ \A g \in FamilyIds : families'[g] =
             IF g \in sources THEN [families[g] EXCEPT !.state = "merged", !.mergedInto = f]
             ELSE families[g]
    BY <1>6 DEF Merging
  <2>3. \A a, g : AliasRow(a, g).family = g
    BY DEF AliasRow
  <2>4. \A g \in FamilyIds : families[g].state = "active" => AliasRow(families[g].legacy, g) \in rows
    BY <1>1, <2>1
  <2>5. ASSUME NEW g \in FamilyIds, families'[g].state = "active"
        PROVE  AliasRow(families'[g].legacy, g) \in aliases'
    <3>1. g \notin sources
      <4> SUFFICES ASSUME g \in sources PROVE FALSE
        OBVIOUS
      <4>1. DOMAIN families[g] = DOMAIN NoFamily
        BY <1>1 DEF Forking, FamiliesAreNamed, NamedFamily
      <4>2. families'[g].state = "merged"
        BY <2>2, <4>1 DEF NoFamily
      <4> QED BY <2>5, <4>2
    <3>2. families'[g] = families[g]
      BY <2>2, <3>1
    <3>3. AliasRow(families[g].legacy, g) \in rows
      BY <2>4, <2>5, <3>2
    <3> QED BY <2>1, <2>3, <3>1, <3>2, <3>3 DEF RedirectedAliases
  <2>6. ASSUME NEW g \in Affected(man)
        PROVE  AliasRow(families'[g].legacy, g) \in man.aliases
    <3>1. Affected(man) = sources \cup {f}
          /\ man.aliases = {row \in rows : row.family \in sources \cup {f}}
      BY <2>1 DEF Manifest, Affected
    <3>2. g \in FamilyIds /\ families[g].state = "active"
      BY <2>2, <3>1
    <3>3. families'[g].legacy = families[g].legacy
      BY <3>2 DEF Grows
    <3> QED BY <2>3, <2>4, <3>1, <3>2, <3>3
  <2>7. Kept
    BY <2>1, <2>6 DEF Merged
  <2> QED BY <2>5, <2>7
<1>7. ASSUME NEW p, NEW m \in ProposalIds, NEW man, Unmerging(p, m, man) PROVE Named /\ Kept
  <2>1. Told(m, man) /\ man = manifests[m] /\ Merged(m)
    BY <1>1, <1>7, UnmergedStood DEF Standing
  <2>2. /\ UNCHANGED manifests
        /\ AliasRowsOf(aliases, Names(man)) = ExpectedAliases(man)
        /\ \A g \in FamilyIds \ Affected(man) : families'[g] = families[g]
        /\ aliases' = (aliases \ AliasRowsOf(aliases, Names(man))) \cup man.aliases
    BY <1>7 DEF Unmerging
  <2>3. ASSUME NEW g \in FamilyIds, families'[g].state = "active"
        PROVE  AliasRow(families'[g].legacy, g) \in aliases'
    <3>1. CASE g \in Affected(man)
      BY <1>1, <1>2, <2>1, <2>2, <3>1
    <3>2. CASE g \notin Affected(man)
      <4>1. families'[g] = families[g] /\ AliasRow(families[g].legacy, g) \in aliases
        BY <1>1, <2>2, <2>3, <3>2
      <4>2. AliasRow(families[g].legacy, g) \notin ExpectedAliases(man)
        BY <2>1, <3>2, ExpectedFamilies DEF AliasRow
      <4> QED BY <2>2, <4>1, <4>2
    <3> QED BY <3>1, <3>2
  <2>4. Kept
    BY <2>2 DEF Merged
  <2> QED BY <2>3, <2>4
<1> HIDE DEF Named, Kept
<1>8. Named /\ Kept
  <2>1. Quiet \/ (\E p \in ProposalIds : Linking(p)) => UNCHANGED <<families, aliases, manifests>>
    BY DEF Quiet, Linking, canonical
  <2>2. UNCHANGED <<families, aliases, manifests>> => Named /\ Kept
    BY <1>4 DEF Named, Kept
  <2>3. (\E p \in ProposalIds, f \in FamilyIds, n \in RevisionIds : Publishing(p, f, n)) => Named /\ Kept
    BY <1>5
  <2>4. (\E p \in ProposalIds, f \in FamilyIds, n \in RevisionIds : \E sources :
           Merging(p, f, n, sources)) => Named /\ Kept
    BY <1>6
  <2>5. (\E p, m \in ProposalIds : \E man : Unmerging(p, m, man)) => Named /\ Kept
    BY <1>7
  <2> QED BY <2>1, <2>2, <2>3, <2>4, <2>5, Zenon DEF StepKinds
<1>9. \A m \in ProposalIds : Merged(m)' =>
        \A g \in Affected(manifests'[m]) :
          AliasRow(families'[g].legacy, g) \in manifests'[m].aliases
  BY <1>3, <1>8 DEF Kept, Merged, NoManifest
<1> QED
  BY <1>8, <1>9 DEF NamesAreKept, Named, Affected, AliasRow

LEMMA RewindingInit == MergeInit /\ ConsolidationInit => Rewinding
<1> SUFFICES ASSUME MergeInit, ConsolidationInit PROVE Rewinding
  OBVIOUS
<1>1. Forking
  BY ForkingInit
<1>2. /\ \A f \in FamilyIds : families[f].state # "active" /\ ~HasHead(f)
      /\ \A r \in RevisionIds : ~Published(r) /\ revisions[r].to = None
      /\ \A m : ~Merged(m) /\ ~Standing(m)
      /\ transitions = <<>> /\ now = 1
  BY DEF MergeInit, Init, NoFamily, NoHead, HasHead, Published, NoRevision, Merged, Standing
<1>3. InThePast
  BY <1>2 DEF InThePast, None
<1> QED
  BY <1>1, <1>2, <1>3 DEF Rewinding, HeadsAreLast, MergesRewind, NamesAreKept

LEMMA RewindingInductive ==
  Rewinding /\ ListingsAreOfRevisions /\ [ConsolidationNext]_consolidationVars
    => Rewinding' /\ ListingsAreOfRevisions'
<1> SUFFICES ASSUME Rewinding, ListingsAreOfRevisions, [ConsolidationNext]_consolidationVars
             PROVE  Rewinding' /\ ListingsAreOfRevisions'
  OBVIOUS
<1>1. Forking /\ InThePast
  BY DEF Rewinding
<1>2. StepKinds
  BY <1>1, Steps
<1>3. Grows
  BY <1>1, <1>2, StepGrows
<1>4. Forking' /\ ListingsAreOfRevisions'
  BY <1>1, ForkingInductive
<1>5. InThePast'
  BY <1>1, <1>2, <1>3, PastKept
<1>6. HeadsAreLast'
  BY <1>2, <1>3, <1>4, HeadsStayLast
<1>7. MergesRewind' /\ NamesAreKept'
  BY <1>2, <1>3, <1>4, <1>6, MergesStillRewind, NamesKept
<1> QED
  BY <1>4, <1>5, <1>6, <1>7 DEF Rewinding

LEMMA RewindingInvariant == ConsolidationSpec => [](Rewinding /\ ListingsAreOfRevisions)
<1>1. MergeInit /\ ConsolidationInit => Rewinding /\ ListingsAreOfRevisions
  BY ForkingInit, RewindingInit
<1> QED
  BY <1>1, RewindingInductive, PTL DEF ConsolidationSpec

LEMMA KnownNow ==
  Forking /\ InThePast =>
    \A r : Published(r) => /\ RecordedAt(r, now) <=> Recorded(r)
                           /\ RetiredAt(r, now) <=> Retired(r)
<1> SUFFICES ASSUME Forking, InThePast, NEW r, Published(r)
             PROVE  /\ RecordedAt(r, now) <=> Recorded(r)
                    /\ RetiredAt(r, now) <=> Retired(r)
  OBVIOUS
<1>1. now \in Nat /\ now <= now + 1
  BY DEF Forking, RevisionsArePublished
<1> QED
  BY <1>1, KnownByNow

(* The step that undoes a merge.                                           *)
LEMMA UndoingUnmerges ==
  ASSUME Forking, StepKinds, NEW m \in ProposalIds, Undoes(m)
  PROVE  \E p \in ProposalIds : Unmerging(p, m, manifests[m])
<1> DEFINE man == manifests[m]
<1>1. /\ Merged(m)
      /\ heads[man.target].revision = man.revision
      /\ heads'[man.target].revision # man.revision
  BY DEF Undoes, Merged
<1>2. PICK q \in ProposalIds : /\ proposals[q].operation = "unmerge"
                               /\ proposals[q].status = "approved"
                               /\ proposals'[q].status = "applied"
  BY DEF Undoes
<1>3. Told(m, man)
  BY <1>1 DEF Forking, ManifestsTell
<1>4. ASSUME UNCHANGED heads PROVE FALSE
  BY <1>1, <1>4
<1>5. ASSUME NEW p, Consumed(p), proposals[p].operation # "unmerge" PROVE FALSE
  BY <1>2, <1>5 DEF Consumed
<1>6. ASSUME NEW p \in ProposalIds, NEW n \in ProposalIds, NEW other, Unmerging(p, n, other)
      PROVE  Unmerging(p, m, man)
  <2>1. /\ Told(n, other) /\ other = manifests[n]
        /\ heads[other.target].revision = other.revision
        /\ \A g \in other.sources : families[g].state = "merged"
        /\ \A g \in FamilyIds \ Affected(other) : heads'[g] = heads[g]
    <3>1. Told(n, other) /\ other = manifests[n]
      BY <1>6, UnmergedStood
    <3> QED BY <1>6, <3>1 DEF Unmerging
  <2>2. man.target \in FamilyIds /\ man.revision # None
    BY <1>3 DEF Told, Published, RevisionIds, None
  <2>3. man.target \in Affected(other)
    BY <1>1, <2>1, <2>2
  <2>4. man.target \notin other.sources
    <3>1. HasHead(man.target)
      BY <1>1, <2>2 DEF HasHead
    <3>2. families[man.target].state = "active"
      BY <2>2, <3>1 DEF Forking, FamiliesAreNamed, NamedFamily
    <3> QED BY <2>1, <3>2
  <2>5. other.revision = man.revision
    BY <1>1, <2>1, <2>3, <2>4 DEF Affected
  <2>6. n = m
    BY <1>3, <2>1, <2>5 DEF Told
  <2> QED BY <1>6, <2>1, <2>6
<1> HIDE DEF man
<1>7. Quiet => UNCHANGED heads
  BY DEF Quiet, canonical
<1>8. ASSUME NEW p, Linking(p) \/ \E f, new : Publishing(p, f, new) PROVE FALSE
  BY <1>5, <1>8 DEF Linking, Publishing, Publishes
<1>9. ASSUME NEW p, NEW f, NEW new, NEW sources, Merging(p, f, new, sources) PROVE FALSE
  <2>1. Consumed(p)
    BY <1>9, MergingPublishes
  <2>2. proposals[p].operation = "merge"
    BY <1>9 DEF Merging
  <2> QED BY <1>5, <2>1, <2>2
<1>10. \E p, n \in ProposalIds : \E other : Unmerging(p, n, other)
  BY <1>4, <1>7, <1>8, <1>9, Zenon DEF StepKinds
<1> QED
  BY <1>6, <1>10 DEF man

(* The rows that an UNMERGE leaves to be read of a family of the merge are *)
(* those that were read before it.                                         *)
LEMMA RowsAreGivenBack ==
  ASSUME Rewinding, Grows, StepKinds, Rewinding', NEW p \in ProposalIds, NEW m \in ProposalIds,
         NEW man, Unmerging(p, m, man), NEW g \in Affected(man),
         NEW merged, merged = revisions[man.revision].from, NEW valid, valid = now'
  PROVE  EffectiveRows(g, now, now)' = EffectiveRows(g, valid, merged - 1)
<1>1. Forking /\ InThePast
  BY DEF Rewinding
<1>2. Told(m, man) /\ man = manifests[m] /\ Standing(m) /\ man.revision \notin Befores(man)
  BY <1>1, UnmergedStood
<1>3. MergeRewinds(man)
  BY <1>2 DEF Rewinding, MergesRewind
<1>4. PICK x \in man.heads : x.family = g
  BY <1>2 DEF Told
<1>5. PICK h : h = x.revision
  OBVIOUS
<1>6. /\ Published(h) /\ h \in RevisionIds /\ revisions[h].family = g
      /\ revisions[h].from \in Nat /\ merged \in Nat /\ revisions[h].from < merged
      /\ h # man.revision
  <2>1. Published(h) /\ revisions[h].family = g /\ h # man.revision
    BY <1>2, <1>4, <1>5 DEF Told, Befores
  <2>2. revisions[h].from < merged
    BY <1>3, <1>5 DEF MergeRewinds
  <2> QED BY <1>1, <1>2, <2>1, <2>2, RecordTimes DEF Told
<1>7. /\ Recorded(h)'
      /\ \A r \in RevisionIds :
           /\ Published(r) /\ revisions[r].family = g /\ revisions[h].from < revisions[r].from
           => UndoneRevision(r)'
  BY <1>4, <1>5, RestoredFacts
<1>8. \A r \in RevisionIds : /\ Published(r)' <=> Published(r)
                             /\ revisions'[r].family = revisions[r].family
                             /\ revisions'[r].from = revisions[r].from
                             /\ revisions'[r].content = revisions[r].content
  BY DEF Unmerging, Record, Published
<1>9. (\A r : Published(r) => /\ RecordedAt(r, now) <=> Recorded(r)
                              /\ RetiredAt(r, now) <=> Retired(r))'
  BY KnownNow, PTL DEF Rewinding
<1> DEFINE SaidThen(r) == RecordedAt(r, merged - 1) /\ ~RetiredAt(r, merged - 1)
           SaidNow(r) == Recorded(r)' /\ ~Retired(r)'
<1>10. ASSUME NEW r \in RevisionIds, Published(r), revisions[r].family = g
       PROVE  SaidNow(r) <=> SaidThen(r)
  <2>1. revisions[r].from \in Nat
    BY <1>1, <1>10, RecordTimes
  <2>2. Rewinds(man.sources, x, merged, r)
    BY <1>3, <1>4, <1>10 DEF MergeRewinds
  <2>3. CASE r = h
    <3>1. Retired(r)' <=> Retired(r)
      BY <1>1, <1>6, <2>3, UnmergeLeaves
    <3>2. RecordedAt(r, merged - 1) /\ (Retired(r) <=> RetiredAt(r, merged - 1))
      BY <1>5, <1>6, <2>2, <2>3 DEF Rewinds
    <3> QED BY <1>7, <2>3, <3>1, <3>2
  <2>4. CASE r # h /\ revisions[r].from < merged
    <3>1. r # man.revision
      BY <1>6, <2>1, <2>4
    <3>2. r \notin Befores(man)
      <4> SUFFICES ASSUME NEW y \in man.heads, y.revision = r PROVE FALSE
        BY DEF Befores
      <4>1. y.family = g
        BY <1>2, <1>10 DEF Told
      <4>2. y = x
        BY <1>2, <1>4, <4>1 DEF Told
      <4> QED BY <1>5, <2>4, <4>2
    <3>3. SaysTheSame(r)
      BY <1>1, <1>10, <3>1, <3>2, UnmergeLeaves
    <3>4. (Recorded(r)' <=> Recorded(r)) /\ (Retired(r)' <=> Retired(r))
      BY <1>8, <3>3, SaysTheSameAt DEF SaysTheSame
    <3>5. /\ Retired(r) <=> RetiredAt(r, merged - 1)
          /\ Recorded(r) <=> RecordedAt(r, merged - 1)
      BY <1>5, <2>2, <2>4 DEF Rewinds
    <3> QED BY <3>4, <3>5
  <2>5. CASE ~(revisions[r].from < merged)
    <3>1. ~SaidThen(r)
      BY <1>6, <2>1, <2>5 DEF RecordedAt
    <3>2. UndoneRevision(r)'
      BY <1>6, <1>7, <1>10, <2>1, <2>5
    <3>3. LastSays(r, "invalidated")'
      BY <3>2 DEF UndoneRevision, Rewinding, Forking, ForksAreOfUndone
    <3>4. Retired(r)'
      BY <3>3 DEF LastSays, Retired
    <3> QED BY <3>1, <3>4
  <2> QED BY <2>3, <2>4, <2>5
<1>11. ASSUME NEW r \in RevisionIds
       PROVE  r \in EffectiveRows(g, now, now)' <=> r \in EffectiveRows(g, valid, merged - 1)
  <2>1. r \in EffectiveRows(g, now, now)' <=>
          /\ Published(r)' /\ revisions'[r].family = g
          /\ RecordedAt(r, now)' /\ ~RetiredAt(r, now)'
          /\ revisions'[r].content.from <= valid
    BY DEF EffectiveRows
  <2>2. r \in EffectiveRows(g, valid, merged - 1) <=>
          /\ Published(r) /\ revisions[r].family = g /\ SaidThen(r)
          /\ revisions[r].content.from <= valid
    BY DEF EffectiveRows
  <2>3. Published(r)' => /\ RecordedAt(r, now)' <=> Recorded(r)'
                         /\ RetiredAt(r, now)' <=> Retired(r)'
    BY <1>9
  <2> HIDE DEF SaidThen
  <2> QED BY <1>8, <1>10, <2>1, <2>2, <2>3
<1> QED
  BY <1>11 DEF EffectiveRows

LEMMA GivenBack ==
  ASSUME Rewinding, Grows, StepKinds, Rewinding', NEW p \in ProposalIds, NEW m \in ProposalIds,
         NEW man, Unmerging(p, m, man), NEW g \in Affected(man)
  PROVE  EffectiveNow(g)' = Effective(g, now', revisions[man.revision].from - 1)
<1>1. PICK valid, before : valid = now' /\ before = revisions[man.revision].from - 1
  OBVIOUS
<1> DEFINE rows == EffectiveRows(g, valid, before)
           chosen == CHOOSE s \in rows : \A r \in rows : Precedes(r, s)
<1>2. EffectiveRows(g, now, now)' = rows
  <2>1. PICK merged : merged = revisions[man.revision].from
    OBVIOUS
  <2>2. EffectiveRows(g, now, now)' = EffectiveRows(g, valid, merged - 1)
    BY <1>1, <2>1, RowsAreGivenBack
  <2> QED BY <1>1, <2>1, <2>2
<1>3. rows \subseteq RevisionIds
  BY DEF EffectiveRows
<1>4. \A r \in RevisionIds : /\ revisions'[r].content = revisions[r].content
                             /\ revisions'[r].from = revisions[r].from
  BY DEF Unmerging, Record
<1>5. \A r, s \in RevisionIds : Precedes(r, s)' <=> Precedes(r, s)
  BY <1>4 DEF Precedes
<1> HIDE DEF rows
<1> DEFINE left == EffectiveRows(g, now, now)
           taken == CHOOSE s \in left : \A r \in left : Precedes(r, s)
<1>6. taken' = chosen
  <2>1. left' = rows
    BY <1>2
  <2> HIDE DEF left
  <2>2. taken' = CHOOSE s \in left' : \A r \in left' : Precedes(r, s)'
    OBVIOUS
  <2> QED BY <1>3, <1>5, <2>1, <2>2
<1>7. rows # {} => chosen \in rows
  <2>1. valid \in Nat /\ before \in Nat
    <3>1. /\ man.revision \in RevisionIds /\ Published(man.revision)
          /\ \E x \in man.heads : /\ Published(x.revision)
                                  /\ revisions[x.revision].from < revisions[man.revision].from
      <4>1. Told(m, man) /\ man = manifests[m] /\ Standing(m)
        BY UnmergedStood DEF Rewinding
      <4>2. MergeRewinds(man)
        BY <4>1 DEF Rewinding, MergesRewind
      <4> QED BY <4>1, <4>2 DEF Told, MergeRewinds, Published
    <3>2. \A r : Published(r) => revisions[r].from \in Nat
      BY RecordTimes DEF Rewinding
    <3>3. before \in Nat
      BY <1>1, <3>1, <3>2
    <3> QED BY <1>1, <3>3 DEF Rewinding, Forking, RevisionsArePublished
  <2>2. \A r \in RevisionIds : revisions[r].content.from \in Nat /\ revisions[r].from \in Nat
    BY DEF Rewinding, Forking, RevisionsArePublished, ContentType
  <2> QED BY <2>1, <2>2, LatestExists DEF rows
<1> HIDE DEF chosen
<1>8. rows # {} => revisions'[chosen].content = revisions[chosen].content
  BY <1>3, <1>4, <1>7
<1>9. Effective(g, valid, before) =
        IF rows # {} /\ ( \/ revisions[chosen].content.to = None
                          \/ valid < revisions[chosen].content.to )
        THEN chosen ELSE None
  BY DEF Effective, rows, chosen
<1>10. EffectiveNow(g)' =
        IF left' # {} /\ ( \/ revisions'[taken'].content.to = None
                           \/ now' < revisions'[taken'].content.to )
        THEN taken' ELSE None
  BY DEF EffectiveNow, Effective
<1> QED
  BY <1>1, <1>2, <1>6, <1>8, <1>9, <1>10

LEMMA UnmergeGivesBack ==
  ASSUME Rewinding, Grows, StepKinds, Rewinding', NEW m \in ProposalIds, Undoes(m)
  PROVE  GivesBack(manifests[m])
<1>6. PICK man : man = manifests[m]
  OBVIOUS
<1>1. PICK p \in ProposalIds : man = manifests[m] /\ Unmerging(p, m, man)
  BY <1>6, UndoingUnmerges DEF Rewinding
<1>2. Told(m, man) /\ Forking
  BY <1>1, UnmergedStood DEF Rewinding
<1>3. ASSUME NEW g \in Affected(man)
      PROVE  /\ families'[g].state = "active"
             /\ g \in AliasFamilies(families[g].legacy)'
  <2>1. families'[g].state = "active" /\ g \in FamilyIds
    <3>1. PICK y \in man.families : y.family = g /\ families'[g] = y.record
      BY <1>1 DEF Unmerging
    <3> QED BY <1>2, <3>1 DEF Told
  <2>2. AliasRow(families'[g].legacy, g) \in aliases'
    BY <2>1 DEF Rewinding, NamesAreKept
  <2>3. \A row \in aliases' : row.status # "ambiguous"
    BY DEF Rewinding, Forking, FamiliesAreNamed, NamingRow
  <2>4. PICK a : a = families'[g].legacy
    OBVIOUS
  <2>5. g \in FamiliesNamed(aliases', a)
    BY <2>2, <2>3, <2>4 DEF FamiliesNamed, Quarantined, AliasRow
  <2> QED BY <2>1, <2>4, <2>5 DEF AliasFamilies
<1>4. \A g \in Affected(man) :
        EffectiveNow(g)' = Effective(g, now', revisions[man.revision].from - 1)
  BY <1>1, GivenBack
<1>5. \A g \in FamilyIds \ Affected(man) : heads'[g] = heads[g]
  BY <1>1 DEF Unmerging
<1> QED
  BY <1>1, <1>3, <1>4, <1>5 DEF GivesBack, Affected

(* What the compare-and-swap of an UNMERGE leaves of a merge to restore is *)
(* all that the merge replaced: whatever else was published, merged and    *)
(* undone in between, each family answers again as before the merge, under *)
(* its own name (_assert_unmerge_cas and apply_unmerge).                   *)
THEOREM UnmergesRestore == ConsolidationSpec => UnmergeRestores
<1>1. Rewinding /\ Rewinding' /\ ListingsAreOfRevisions /\ [ConsolidationNext]_consolidationVars =>
        [\A m \in ProposalIds : Undoes(m) => GivesBack(manifests[m])]_vars
  <2> SUFFICES ASSUME Rewinding, Rewinding', ListingsAreOfRevisions,
                      [ConsolidationNext]_consolidationVars,
                      NEW m \in ProposalIds, Undoes(m)
               PROVE  GivesBack(manifests[m])
    OBVIOUS
  <2>1. Forking
    BY DEF Rewinding
  <2>2. StepKinds
    BY <2>1, Steps
  <2>3. Grows
    BY <2>1, <2>2, StepGrows
  <2> QED BY <2>2, <2>3, UnmergeGivesBack
<1> QED
  BY <1>1, RewindingInvariant, PTL DEF UnmergeRestores, ConsolidationSpec
-----------------------------------------------------------------------------
(* What a step writes of the revisions, and who decided it.                *)

(* A recorded window stays, or one that was still open ends now.           *)
KeepsOrEnds(r) ==
  \/ revisions'[r] = revisions[r]
  \/ /\ revisions[r].to = None \/ revisions[r].to > now
     /\ revisions'[r] = [revisions[r] EXCEPT !.to = now]

(* The revisions are records with these fields.                            *)
RevisionFields ==
  {"family", "version", "parents", "content", "rollbackOf", "proposal", "actor", "from", "to"}
IsRevision(r) == r = [x \in RevisionFields |-> r[x]]
RevisionsAreRecords ==
  DOMAIN revisions = RevisionIds /\ \A r \in RevisionIds : IsRevision(revisions[r])

LEMMA EndedIsRevision ==
  ASSUME NEW r, IsRevision(r), NEW end
  PROVE  /\ IsRevision([r EXCEPT !.to = end])
         /\ r.to = end => [r EXCEPT !.to = end] = r
<1>1. DOMAIN r = RevisionFields /\ "to" \in RevisionFields
  BY DEF IsRevision, RevisionFields
<1> HIDE DEF RevisionFields
<1>2. [r EXCEPT !.to = end] = [x \in RevisionFields |-> IF x = "to" THEN end ELSE r[x]]
  BY <1>1
<1>3. IsRevision([r EXCEPT !.to = end])
  BY <1>2 DEF IsRevision
<1>4. ASSUME r.to = end PROVE [r EXCEPT !.to = end] = r
  BY <1>2, <1>4 DEF IsRevision
<1> QED BY <1>3, <1>4

LEMMA NewIsRevision == \A p, f : IsRevision(NewRevision(p, f))
BY DEF IsRevision, NewRevision, RevisionFields

LEMMA NoneIsRevision == IsRevision(NoRevision)
BY Zenon DEF IsRevision, NoRevision, RevisionFields

(* A draft, a decision, or a step that is about something else.            *)
Discussing ==
  /\ UNCHANGED revisions
  /\ UNCHANGED <<proposals, approvals>> \/ (\E q : Drafts(q)) \/ Decide

(* A proposal is applied; what is published, if anything, is of it.        *)
Applying(p, new) ==
  /\ Applicable(p) /\ Consume(p, new)
  /\ DOMAIN revisions' = RevisionIds
  /\ \A r \in RevisionIds :
       \/ KeepsOrEnds(r)
       \/ r = new /\ ~Published(r) /\ \E f : revisions'[r] = NewRevision(p, f)

LEMMA CommitApplies ==
  ASSUME NEW p \in ProposalIds, Applicable(p), NEW f, NEW rows, NEW retired, NEW asserted,
         NEW events, Commit(p, f, rows, retired, asserted, events)
  PROVE  \E new : Applying(p, new)
<1>1. Min(FreeRevisions) \in FreeRevisions
  <2>1. FreeRevisions # {}
    BY DEF Commit
  <2> QED BY <2>1, MinIsMember DEF FreeRevisions, RevisionIds
<1>2. PICK new \in FreeRevisions : PublishRevision(p, f, new) /\ Consume(p, new)
  BY <1>1 DEF Commit
<1>3. new \in RevisionIds /\ ~Published(new)
  BY <1>2 DEF FreeRevisions, Published
<1>4. ASSUME NEW r \in RevisionIds
      PROVE  \/ KeepsOrEnds(r)
             \/ r = new /\ ~Published(r) /\ revisions'[r] = NewRevision(p, f)
  <2>1. revisions'[r] = IF r = new THEN NewRevision(p, f)
                        ELSE IF Closes(p, r) THEN [revisions[r] EXCEPT !.to = now]
                        ELSE revisions[r]
    BY <1>2 DEF PublishRevision
  <2>2. CASE r = new
    BY <1>3, <2>1, <2>2
  <2>3. CASE r # new /\ Closes(p, r)
    BY <2>1, <2>3 DEF Closes, KeepsOrEnds
  <2>4. CASE r # new /\ ~Closes(p, r)
    BY <2>1, <2>4 DEF KeepsOrEnds
  <2> QED BY <2>2, <2>3, <2>4
<1>5. DOMAIN revisions' = RevisionIds
  BY <1>2 DEF PublishRevision
<1> QED BY <1>2, <1>4, <1>5 DEF Applying

LEMMA StepWrites ==
  ASSUME Forking, ListingsAreOfRevisions, RevisionsAreRecords,
         [ConsolidationNext]_consolidationVars
  PROVE  Discussing \/ \E p \in ProposalIds : \E new : Applying(p, new)
<1> DEFINE Applies == \E p \in ProposalIds : \E new : Applying(p, new)
<1>1. ASSUME NEW q, Drafts(q) PROVE Discussing
  BY <1>1 DEF Drafts, Save, canonical, Discussing
<1>2. CASE UNCHANGED consolidationVars
  BY <1>2 DEF consolidationVars, vars, ledgerVars, Discussing
<1>3. CASE Tick
  BY <1>3 DEF Tick, canonical, Discussing
<1>4. CASE Propose
  BY <1>1, <1>4, ProposeComposed
<1>5. CASE Decide
  BY <1>5 DEF Decide, Approve, Reject, Expire, Stale, canonical, Discussing
<1>6. CASE Apply
  <2>1. ASSUME NEW p \in ProposalIds, ApplyCreate(p) PROVE Applies
    BY <2>1, CommitApplies DEF ApplyCreate, Publish
  <2>2. ASSUME NEW p \in ProposalIds, ApplyRevise(p) PROVE Applies
    BY <2>2, CommitApplies DEF ApplyRevise, Publish
  <2>3. ASSUME NEW p \in ProposalIds, ApplyLink(p) PROVE Applies
    <3>1. Applicable(p) /\ Consume(p, None) /\ UNCHANGED revisions
      BY <2>3 DEF ApplyLink
    <3> QED BY <3>1 DEF Applying, KeepsOrEnds, RevisionsAreRecords
  <2> QED BY <1>6, <2>1, <2>2, <2>3 DEF Apply
<1>7. CASE ProposeMerging
  BY <1>1, <1>7, ProposeMergingComposed
<1>8. CASE ApplyMerging
  <2>1. ASSUME NEW p \in ProposalIds, ApplyMerge(p) PROVE Applies
    BY <2>1, CommitApplies DEF ApplyMerge
  <2>2. ASSUME NEW p \in ProposalIds, ApplyUnmerge(p) PROVE Applies
    <3> DEFINE man == manifests[proposals[p].manifest]
    <3>1. /\ Applicable(p) /\ Consume(p, Before(man, man.target))
          /\ revisions' = [revisions EXCEPT ![man.revision].to =
               IF @ = None \/ @ > now THEN now ELSE @]
      BY <2>2 DEF ApplyUnmerge, Withdrawn
    <3> HIDE DEF man
    <3>2. ASSUME NEW r \in RevisionIds PROVE KeepsOrEnds(r)
      <4>1. r \in DOMAIN revisions /\ IsRevision(revisions[r])
        BY DEF RevisionsAreRecords
      <4>2. CASE r = man.revision /\ (revisions[r].to = None \/ revisions[r].to > now)
        BY <3>1, <4>1, <4>2 DEF KeepsOrEnds
      <4>3. CASE r = man.revision /\ ~(revisions[r].to = None \/ revisions[r].to > now)
        <5>1. revisions'[r] = [revisions[r] EXCEPT !.to = revisions[r].to]
          BY <3>1, <4>1, <4>3
        <5> QED BY <4>1, <5>1, EndedIsRevision DEF KeepsOrEnds
      <4>4. CASE r # man.revision
        BY <3>1, <4>1, <4>4 DEF KeepsOrEnds
      <4> QED BY <4>2, <4>3, <4>4
    <3>3. DOMAIN revisions' = RevisionIds
      BY <3>1 DEF RevisionsAreRecords
    <3> QED BY <3>1, <3>2, <3>3 DEF Applying
  <2>3. ASSUME NEW p \in ProposalIds, ApplyResolveConflict(p) PROVE Applies
    BY <2>3, CommitApplies DEF ApplyResolveConflict, Publish
  <2> QED BY <1>8, <2>1, <2>2, <2>3 DEF ApplyMerging
<1>9. ASSUME NEW j \in Jobs, Consolidate(j) PROVE Discussing
  BY <1>1, <1>9, ConsolidateSaves DEF ledgerVars, Discussing
<1> QED
  BY <1>2, <1>3, <1>4, <1>5, <1>6, <1>7, <1>8, <1>9 DEF ConsolidationNext, MergeNext, Next

(* A decision is one of somebody who did not ask, about what was asked.    *)
Decided ==
  /\ RevisionsAreRecords
  /\ DOMAIN approvals = ProposalIds
  /\ \A p \in ProposalIds : DOMAIN approvals[p] = DOMAIN NoApproval
  /\ \A p \in ProposalIds : approvals[p].status # "none" =>
       /\ proposals[p].status # "none"
       /\ approvals[p].by # proposals[p].requestedBy

Decides(p, status) ==
  /\ proposals[p].status \in {"pending_approval", "approved"} /\ status # "none"
  /\ proposals' = [proposals EXCEPT ![p].status = status]
  /\ \/ approvals' = approvals
     \/ \E who : /\ who # proposals[p].requestedBy
                 /\ approvals' = [approvals EXCEPT
                      ![p] = [status |-> "issued", by |-> who,
                              expected |-> proposals[p].expected]]

(* What Authorized says of one revision.                                   *)
HasAuthority(r) ==
  LET p == revisions[r].proposal
  IN /\ proposals[p].status = "applied"
     /\ proposals[p].appliedRevision = r
     /\ approvals[p].status = "consumed"
     /\ approvals[p].by = revisions[r].actor
     /\ revisions[r].actor # proposals[p].requestedBy
     /\ revisions[r].parents \subseteq {pair[2] : pair \in approvals[p].expected}
     /\ revisions[r].from < proposals[p].expires

LEMMA AuthorityOfEach == Authorized <=> \A r \in RevisionIds : Published(r) => HasAuthority(r)
BY DEF Authorized, HasAuthority

(* The preview of a revising proposal or a merge froze what it builds on.  *)
LEMMA BaseIsFrozen ==
  ASSUME NEW q, Composed(q)
  PROVE  q.base \subseteq {pair[2] : pair \in q.expected}
<1> SUFFICES ASSUME NEW r \in q.base PROVE \E pair \in q.expected : r = pair[2]
  OBVIOUS
<1>1. q.operation \in Revising \cup {"resolve_conflict", "unmerge", "merge"}
  BY DEF Composed, OperationNames, Revising, StateChanges, Creations
<1>2. \E f : <<f, r>> \in q.expected
  BY <1>1 DEF Composed
<1> QED BY <1>2

LEMMA DiscussionKeepsAuthority ==
  ASSUME Forking, Decided, Authorized, Discussing
  PROVE  Decided' /\ Authorized'
<1> DEFINE AppliedStays == \A p \in ProposalIds : proposals[p].status = "applied" =>
             proposals'[p] = proposals[p] /\ approvals'[p] = approvals[p]
           DecisionsStay ==
             /\ DOMAIN approvals' = ProposalIds
             /\ \A p \in ProposalIds : DOMAIN approvals'[p] = DOMAIN NoApproval
             /\ \A p \in ProposalIds : approvals'[p].status # "none" =>
                  /\ proposals'[p].status # "none"
                  /\ approvals'[p].by # proposals'[p].requestedBy
<1>1. DOMAIN proposals = ProposalIds
  BY DEF Forking, PreviewsAreComposed
<1>2. ASSUME NEW p \in ProposalIds, proposals[p].status # "none"
      PROVE  DOMAIN proposals[p] = DOMAIN NoProposal
  BY <1>2 DEF Forking, PreviewsAreComposed, Composed, Fields
<1>3. SUFFICES DecisionsStay /\ AppliedStays
  <2> SUFFICES ASSUME DecisionsStay, AppliedStays PROVE Decided' /\ Authorized'
    OBVIOUS
  <2>1. revisions' = revisions
    BY DEF Discussing
  <2>2. \A r \in RevisionIds : Published(r) =>
          /\ revisions[r].proposal \in ProposalIds
          /\ proposals[revisions[r].proposal].status = "applied"
    BY DEF Forking, RevisionsArePublished
  <2>3. Authorized'
    BY <2>1, <2>2 DEF Authorized, Published
  <2>4. RevisionsAreRecords'
    BY <2>1 DEF Decided, RevisionsAreRecords
  <2> QED BY <2>3, <2>4 DEF Decided
<1>4. CASE UNCHANGED <<proposals, approvals>>
  BY <1>4 DEF Decided
<1>5. ASSUME NEW q, Drafts(q) PROVE DecisionsStay /\ AppliedStays
  <2> DEFINE free == Min(FreeProposals)
  <2>1. free \in ProposalIds /\ proposals[free].status = "none"
    <3>1. free \in FreeProposals
      BY <1>5, MinIsMember DEF Drafts, Save, FreeProposals, ProposalIds
    <3> QED BY <3>1 DEF FreeProposals
  <2>2. proposals' = [proposals EXCEPT ![free] = q] /\ approvals' = approvals
    BY <1>5 DEF Drafts, Save
  <2> HIDE DEF free
  <2>3. \A p \in ProposalIds : proposals[p].status # "none" => proposals'[p] = proposals[p]
    BY <1>1, <2>1, <2>2
  <2> QED BY <2>2, <2>3 DEF Decided
<1>6. ASSUME NEW p \in ProposalIds, NEW status, Decides(p, status)
      PROVE  DecisionsStay /\ AppliedStays
  <2>1. /\ proposals'[p].status = status /\ proposals'[p].requestedBy = proposals[p].requestedBy
        /\ \A x \in ProposalIds : x # p => proposals'[x] = proposals[x]
        /\ proposals[p].status \in {"pending_approval", "approved"} /\ status # "none"
    BY <1>1, <1>2, <1>6 DEF Decides, NoProposal
  <2>2. CASE approvals' = approvals
    BY <2>1, <2>2 DEF Decided
  <2>3. ASSUME NEW who, who # proposals[p].requestedBy,
               approvals' = [approvals EXCEPT
                 ![p] = [status |-> "issued", by |-> who, expected |-> proposals[p].expected]]
        PROVE  DecisionsStay /\ AppliedStays
    <3>1. /\ DOMAIN approvals' = ProposalIds /\ DOMAIN approvals'[p] = DOMAIN NoApproval
          /\ approvals'[p].by = who
          /\ \A x \in ProposalIds : x # p => approvals'[x] = approvals[x]
      BY <2>3 DEF Decided, NoApproval
    <3>2. \A x \in ProposalIds : DOMAIN approvals[x] = DOMAIN NoApproval
      BY DEF Decided
    <3>3. \A x \in ProposalIds : approvals[x].status # "none" =>
            proposals[x].status # "none" /\ approvals[x].by # proposals[x].requestedBy
      BY DEF Decided
    <3> QED BY <2>1, <2>3, <3>1, <3>2, <3>3
  <2> QED BY <1>6, <2>2, <2>3 DEF Decides
<1>7. CASE Decide
  <2>1. PICK p \in ProposalIds :
          (\E who \in Operators : Approve(p, who) \/ Reject(p, who)) \/ Expire(p) \/ Stale(p)
    BY <1>7 DEF Decide
  <2>2. ASSUME NEW who \in Operators, Approve(p, who) PROVE Decides(p, "approved")
    BY <2>2 DEF Approve, MayApprove, Decides
  <2>3. ASSUME NEW who \in Operators, Reject(p, who) PROVE Decides(p, "rejected")
    BY <2>3 DEF Reject, Decides
  <2>4. ASSUME Expire(p) PROVE Decides(p, "expired")
    BY <2>4 DEF Expire, Decides
  <2>5. ASSUME Stale(p) PROVE Decides(p, "stale")
    BY <2>5 DEF Stale, Decides
  <2> HIDE DEF DecisionsStay, AppliedStays
  <2> QED BY <1>6, <2>1, <2>2, <2>3, <2>4, <2>5
<1> QED BY <1>4, <1>5, <1>7 DEF Discussing

LEMMA ApplyKeepsAuthority ==
  ASSUME Forking, Decided, Authorized, NEW p \in ProposalIds, NEW new, Applying(p, new)
  PROVE  Decided' /\ Authorized'
<1>1. /\ DOMAIN proposals = ProposalIds /\ DOMAIN proposals[p] = DOMAIN NoProposal
      /\ Composed(proposals[p])
  BY DEF Forking, PreviewsAreComposed, Composed, Fields, Applying, Applicable
<1>2. /\ proposals'[p].status = "applied" /\ proposals'[p].appliedRevision = new
      /\ proposals'[p].requestedBy = proposals[p].requestedBy
      /\ proposals'[p].expires = proposals[p].expires
      /\ \A x \in ProposalIds : x # p => proposals'[x] = proposals[x]
  BY <1>1 DEF Applying, Consume, NoProposal
<1>3. /\ DOMAIN approvals' = ProposalIds /\ DOMAIN approvals'[p] = DOMAIN NoApproval
      /\ approvals'[p].status = "consumed" /\ approvals'[p].by = approvals[p].by
      /\ approvals'[p].expected = approvals[p].expected
      /\ \A x \in ProposalIds : x # p => approvals'[x] = approvals[x]
  BY DEF Applying, Consume, Decided, NoApproval
<1>4. /\ proposals[p].status = "approved" /\ approvals[p].by # proposals[p].requestedBy
      /\ approvals[p].expected = proposals[p].expected /\ now < proposals[p].expires
  BY DEF Applying, Applicable, Live, Decided
<1>5. Decided'
  <2>1. RevisionsAreRecords'
    <3>1. ASSUME NEW r \in RevisionIds PROVE IsRevision(revisions'[r])
      <4>1. IsRevision(revisions[r])
        BY DEF Decided, RevisionsAreRecords
      <4>2. CASE KeepsOrEnds(r)
        BY <4>1, <4>2, EndedIsRevision DEF KeepsOrEnds
      <4>3. CASE \E f : revisions'[r] = NewRevision(p, f)
        BY <4>3, NewIsRevision
      <4> QED BY <4>2, <4>3 DEF Applying
    <3> QED BY <3>1 DEF Applying, RevisionsAreRecords, IsRevision
  <2>2. \A x \in ProposalIds : DOMAIN approvals[x] = DOMAIN NoApproval
    BY DEF Decided
  <2>3. \A x \in ProposalIds : approvals[x].status # "none" =>
          proposals[x].status # "none" /\ approvals[x].by # proposals[x].requestedBy
    BY DEF Decided
  <2> QED BY <1>2, <1>3, <1>4, <2>1, <2>2, <2>3 DEF Decided
<1>6. ASSUME NEW r \in RevisionIds, Published(r)' PROVE HasAuthority(r)'
  <2>1. CASE KeepsOrEnds(r)
    <3>1. DOMAIN revisions[r] = DOMAIN NoRevision
      BY DEF Forking, RevisionsArePublished
    <3>2. /\ revisions'[r].version = revisions[r].version
          /\ revisions'[r].proposal = revisions[r].proposal
          /\ revisions'[r].actor = revisions[r].actor
          /\ revisions'[r].parents = revisions[r].parents
          /\ revisions'[r].from = revisions[r].from
      BY <2>1, <3>1 DEF KeepsOrEnds, NoRevision
    <3>3. Published(r)
      BY <1>6, <3>2 DEF Published
    <3> DEFINE x == revisions[r].proposal
    <3>4. x \in ProposalIds /\ proposals[x].status = "applied" /\ HasAuthority(r)
      BY <3>3, AuthorityOfEach DEF Forking, RevisionsArePublished
    <3>5. proposals'[x] = proposals[x] /\ approvals'[x] = approvals[x]
      BY <1>2, <1>3, <1>4, <3>4
    <3> QED BY <3>2, <3>4, <3>5 DEF HasAuthority
  <2>2. ASSUME r = new, NEW f, revisions'[r] = NewRevision(p, f) PROVE HasAuthority(r)'
    <3>1. /\ revisions'[r].proposal = p /\ revisions'[r].actor = approvals[p].by
          /\ revisions'[r].parents = proposals[p].base /\ revisions'[r].from = now
      BY <2>2 DEF NewRevision
    <3>2. proposals[p].base \subseteq {pair[2] : pair \in proposals[p].expected}
      BY <1>1, BaseIsFrozen
    <3> QED BY <1>2, <1>3, <1>4, <2>2, <3>1, <3>2 DEF HasAuthority
  <2> QED BY <2>1, <2>2 DEF Applying
<1>7. Authorized'
  BY <1>6 DEF Authorized, HasAuthority
<1> QED BY <1>5, <1>7

LEMMA AuthorityInvariant ==
  ConsolidationSpec => [](Forking /\ ListingsAreOfRevisions /\ Decided /\ Authorized)
<1> DEFINE Inv == Forking /\ ListingsAreOfRevisions /\ Decided /\ Authorized
<1>1. MergeInit /\ ConsolidationInit => Inv
  <2> SUFFICES ASSUME MergeInit, ConsolidationInit PROVE Decided /\ Authorized
    BY ForkingInit
  <2>1. /\ approvals = [p \in ProposalIds |-> NoApproval]
        /\ revisions = [r \in RevisionIds |-> NoRevision]
    BY DEF MergeInit, Init
  <2>2. NoApproval.status = "none" /\ NoRevision.version = 0
    BY DEF NoApproval, NoRevision
  <2>3. \A r \in RevisionIds : ~Published(r)
    BY <2>1, <2>2 DEF Published
  <2>4. Decided
    BY <2>1, <2>2, NoneIsRevision DEF Decided, RevisionsAreRecords
  <2> QED BY <2>3, <2>4 DEF Authorized
<1>2. Inv /\ [ConsolidationNext]_consolidationVars => Inv'
  BY ForkingInductive, StepWrites, DiscussionKeepsAuthority, ApplyKeepsAuthority DEF Decided
<1> QED
  BY <1>1, <1>2, PTL DEF ConsolidationSpec

(* What PublicationIsAuthorized says of the ledger by itself holds with    *)
(* merges, their undoing and the runs beside it: each revision, a merged   *)
(* one too, comes from one applied proposal, approved in time by somebody  *)
(* who did not ask, who saw the head of every memory that it succeeds      *)
(* (apply_approved, apply_merge, LocalApprovalBoundary).                   *)
THEOREM MergesAreAuthorized == ConsolidationSpec => []Authorized
BY AuthorityInvariant, PTL

(* A merge ends the windows of all that it succeeds, an UNMERGE that of    *)
(* what the merge published, and both write nothing else of a revision:    *)
(* what an UNMERGE reactivates keeps the end that the merge recorded       *)
(* (apply_merge, apply_unmerge).                                           *)
THEOREM MergesRewriteNothing == ConsolidationSpec => RevisionsAreImmutable
<1> DEFINE Kept(r) == \/ revisions'[r] = revisions[r]
                      \/ /\ revisions[r].to = None
                         /\ revisions'[r] = [revisions[r] EXCEPT !.to = now]
<1>1. Rewinding /\ ListingsAreOfRevisions /\ Decided /\ [ConsolidationNext]_consolidationVars =>
        [\A r \in RevisionIds : Published(r) => Kept(r)]_ledgerVars
  <2> SUFFICES ASSUME Rewinding, ListingsAreOfRevisions, Decided,
                      [ConsolidationNext]_consolidationVars,
                      NEW r \in RevisionIds, Published(r)
               PROVE  Kept(r)
    OBVIOUS
  <2>1. Forking /\ InThePast
    BY DEF Rewinding
  <2>2. now \in Nat /\ revisions[r].to \in Nat /\ revisions[r].to < now
    BY <2>1 DEF InThePast, Forking, RevisionsArePublished
  <2>3. KeepsOrEnds(r)
    BY <2>1, StepWrites DEF Discussing, Applying, KeepsOrEnds, Decided
  <2> QED BY <2>2, <2>3 DEF KeepsOrEnds
<1> QED
  BY <1>1, RewindingInvariant, AuthorityInvariant, PTL
  DEF ConsolidationSpec, RevisionsAreImmutable
=============================================================================

----------------------- MODULE LedgerRefinementProofs -----------------------
(***************************************************************************)
(* The proof that the ledger implements ReviewedLog, for every value of    *)
(* its constants: the initial state is that of empty logs without drafts,  *)
(* and every step of the ledger is a step of the logs under the mapping of *)
(* module LedgerRefinement, or leaves them alone.                          *)
(***************************************************************************)
EXTENDS LedgerRefinement, LedgerProofs

(* The versions of a family up to its head's are all taken, so that its    *)
(* log has no gap.                                                         *)
Holds(r, f, v) ==
  r \in RevisionIds /\ revisions[r].family = f /\ revisions[r].version = v

VersionsAreTaken ==
  \A f \in FamilyIds : \A v \in 1..HeadVersion(f) : \E r \in RevisionIds : Holds(r, f, v)

(* A proposal is based on published revisions.                             *)
BasesArePublished ==
  \A p \in ProposalIds : \A r \in proposals[p].base : Published(r)

Mapped == Inductive /\ VersionsAreTaken /\ BasesArePublished
-----------------------------------------------------------------------------
(* The log of a family, read version by version.                           *)

LEMMA HeadVersionType ==
  ASSUME Inductive, NEW f \in FamilyIds
  PROVE  HeadVersion(f) \in Nat
<1>1. HasHead(f) => heads[f].revision \in RevisionIds
  BY HeadPairType DEF Inductive
<1> QED
  BY <1>1 DEF HeadVersion, Inductive, TypeOK, Revisions

LEMMA HolderIsUnique ==
  ASSUME Inductive, NEW f, NEW v \in Nat \ {0}, NEW r, Holds(r, f, v)
  PROVE  /\ Published(r) /\ RevisionAt(f, v) = r
         /\ \A s : Holds(s, f, v) => s = r
<1>1. Published(r)
  BY DEF Holds, Published
<1>2. \A s : Holds(s, f, v) => s = r
  BY <1>1 DEF Inductive, LinearHistory, Published, Holds
<1> QED
  BY <1>1, <1>2 DEF RevisionAt, Holds

LEMMA LogIsMade ==
  ASSUME Mapped, NEW f \in FamilyIds
  PROVE  /\ LogOf(f) \in Seq(ProposalIds) /\ Len(LogOf(f)) = HeadVersion(f)
         /\ \A v \in 1..HeadVersion(f), r \in RevisionIds : Holds(r, f, v) =>
              LogOf(f)[v] = revisions[r].proposal
<1>1. HeadVersion(f) \in Nat
  BY HeadVersionType DEF Mapped
<1>2. ASSUME NEW v \in 1..HeadVersion(f), NEW r \in RevisionIds, Holds(r, f, v)
      PROVE  /\ LogOf(f)[v] = revisions[r].proposal
             /\ revisions[r].proposal \in ProposalIds
  <2>1. Published(r) /\ RevisionAt(f, v) = r
    BY <1>1, <1>2, HolderIsUnique DEF Mapped
  <2> QED
    BY <2>1 DEF LogOf, Mapped, Inductive, RevisionsHaveOrigins
<1>3. \A v \in 1..HeadVersion(f) : LogOf(f)[v] \in ProposalIds
  BY <1>2 DEF Mapped, VersionsAreTaken
<1>4. LogOf(f) \in [1..HeadVersion(f) -> ProposalIds]
  BY <1>3 DEF LogOf
<1>5. LogOf(f) \in Seq(ProposalIds) /\ Len(LogOf(f)) = HeadVersion(f)
  <2> DEFINE n == HeadVersion(f)
  <2> HIDE DEF n
  <2> QED
    BY <1>1, <1>4 DEF n
<1> QED
  BY <1>2, <1>5
-----------------------------------------------------------------------------
(* Steps that publish nothing.                                             *)

TheLogs == [f \in FamilyIds |-> LogOf(f)]
TheDrafts == [p \in ProposalIds |-> DraftOf(p)]

LEMMA LogsKept ==
  ASSUME UNCHANGED <<revisions, heads>>
  PROVE  /\ TheLogs' = TheLogs
         /\ VersionsAreTaken => VersionsAreTaken'
<1>1. \A f \in FamilyIds : HeadVersion(f)' = HeadVersion(f)
  BY DEF HeadVersion, HasHead
<1>2. ASSUME NEW f \in FamilyIds PROVE LogOf(f)' = LogOf(f)
  <2>1. HeadVersion(f)' = HeadVersion(f)
    BY <1>1
  <2>2. ASSUME NEW v PROVE RevisionAt(f, v)' = RevisionAt(f, v)
    BY DEF RevisionAt
  <2> QED
    BY <2>1, <2>2 DEF LogOf
<1> QED
  BY <1>1, <1>2 DEF TheLogs, VersionsAreTaken, Holds

(* A draft depends on the terms and the status of its proposal.            *)
LEMMA DraftKept ==
  ASSUME Mapped, NEW p \in ProposalIds,
         Terms(proposals'[p]) = Terms(proposals[p]),
         \A r \in RevisionIds : Published(r) => revisions'[r].version = revisions[r].version
  PROVE  DraftOf(p)' = [DraftOf(p) EXCEPT !.stage =
           IF proposals[p].operation \in Creations \cup Revising
           THEN Stage(proposals'[p].status) ELSE "none"]
<1>1. /\ proposals'[p].operation = proposals[p].operation
      /\ proposals'[p].target = proposals[p].target
      /\ proposals'[p].base = proposals[p].base
  BY DEF Terms
<1>2. PICK base : base = proposals[p].base
  OBVIOUS
<1>3. \A r \in base : revisions'[r].version = revisions[r].version
  BY <1>2 DEF Mapped, BasesArePublished, Published
<1>4. NextVersion(base)' = NextVersion(base)
  <2>1. {revisions'[r].version : r \in base} = {revisions[r].version : r \in base}
    BY <1>3
  <2> QED
    BY <2>1 DEF NextVersion
<1>5. NextVersion(proposals[p].base)' = NextVersion(proposals[p].base)
  BY <1>1, <1>2, <1>4
<1> QED
  BY <1>1, <1>5 DEF DraftOf

LEMMA BasesKept ==
  ASSUME Mapped, [Next]_ledgerVars,
         \A r \in RevisionIds : Published(r) => Published(r)'
  PROVE  BasesArePublished'
<1> SUFFICES ASSUME NEW p \in ProposalIds, NEW r \in proposals'[p].base
             PROVE  Published(r)'
  BY DEF BasesArePublished
<1>1. CASE Terms(proposals'[p]) = Terms(proposals[p])
  BY <1>1 DEF Terms, Mapped, BasesArePublished, Published
<1>2. CASE Drafted(proposals'[p])
  <2>1. WellFormed(proposals'[p])
    BY <1>2 DEF Drafted
  <2>2. \E f : <<f, r>> \in proposals'[p].expected
    BY <2>1 DEF WellFormed
  <2>3. Published(r)
    BY <1>2, <2>2 DEF Drafted
  <2> QED
    BY <2>3 DEF Published
<1> QED
  BY <1>1, <1>2, TermsKept DEF Mapped
-----------------------------------------------------------------------------
(* The steps of the workflow are steps of the drafts.                      *)

LEMMA SaveSubmits ==
  ASSUME Mapped, NEW q \in Proposals, Drafted(q), Save(q)
  PROVE  [Abstract!Next]_<<TheLogs, TheDrafts>>
<1>1. PICK p \in ProposalIds : p = Min(FreeProposals) /\ proposals[p].status = "none"
  <2>1. Min(FreeProposals) \in FreeProposals
    BY MinIsMember DEF Save, FreeProposals, ProposalIds
  <2> QED
    BY <2>1 DEF FreeProposals
<1>2. /\ proposals' = [proposals EXCEPT ![p] = q]
      /\ UNCHANGED <<revisions, heads>>
  BY <1>1 DEF Save, canonical
<1>3. proposals \in [ProposalIds -> Proposals]
  BY DEF Mapped, Inductive, TypeOK
<1>4. TheLogs' = TheLogs
  BY <1>2, LogsKept
<1>5. ASSUME NEW x \in ProposalIds \ {p} PROVE DraftOf(x)' = DraftOf(x)
  BY <1>2, <1>3 DEF DraftOf, NextVersion
<1>6. DraftOf(p) = Abstract!NoDraft
  <2>1. proposals[p].operation = "none"
    BY <1>1 DEF Mapped, Inductive, PreviewsAreWellFormed, WellFormed
  <2> QED
    BY <2>1 DEF DraftOf, Abstract!NoDraft, Creations, Revising, StateChanges
<1>7. TheDrafts' = [TheDrafts EXCEPT ![p] = DraftOf(p)']
  BY <1>5 DEF TheDrafts
<1>8. proposals'[p] = q
  BY <1>2, <1>3
<1>9. CASE q.operation \notin Creations \cup Revising
  BY <1>4, <1>6, <1>7, <1>8, <1>9 DEF DraftOf, Abstract!NoDraft, TheDrafts
<1>10. CASE q.operation \in Creations \cup Revising
  <2>0. PICK n : n = NextVersion(q.base) - 1
    OBVIOUS
  <2>1. DraftOf(p)' = [stage |-> "open", log |-> q.target, seen |-> n]
    <3>1. NextVersion(proposals[p].base)' = NextVersion(q.base)
      BY <1>2, <1>8 DEF NextVersion
    <3>2. q.status = "pending_approval"
      BY DEF Drafted
    <3> QED
      BY <1>8, <1>10, <2>0, <3>1, <3>2 DEF DraftOf, Stage
  <2>2. q.target \in FamilyIds \cup {None} /\ n \in Abstract!Prefixes(q.target)
    <3>1. CASE q.operation \in Creations
      <4>1. q.target = None /\ n = 0
        BY <2>0, <3>1 DEF Drafted, WellFormed, NextVersion, Creations, Revising,
           StateChanges
      <4> QED
        BY <4>1 DEF Abstract!Prefixes
    <3>2. CASE q.operation \in Revising
      <4>1. PICK f \in FamilyIds, r \in RevisionIds :
              f = q.target /\ q.base = {r} /\ <<f, r>> \in q.expected /\ f # None
        <5>1. q.target \in FamilyIds /\ q.target # None
          BY <3>2 DEF Drafted, WellFormed, FamilyIds, None
        <5>2. \E r \in RevisionIds : q.base = {r} /\ <<q.target, r>> \in q.expected
          BY <3>2 DEF Drafted, WellFormed
        <5> QED
          BY <5>1, <5>2
      <4>2. Published(r) /\ revisions[r].family = f
        BY <4>1 DEF Drafted
      <4>3. revisions[r].version \in Nat \ {0}
        BY <4>2 DEF Mapped, Inductive, TypeOK, Revisions, Published
      <4>4. n = revisions[r].version
        <5>1. {revisions[x].version : x \in {r}} = {revisions[r].version}
          OBVIOUS
        <5> QED
          BY <2>0, <4>1, <4>3, <5>1, MaxOfOne DEF NextVersion
      <4>5. revisions[r].version <= HeadVersion(f)
        BY <4>2 DEF Mapped, Inductive, LinearHistory, HeadVersion
      <4>6. HeadVersion(f) \in Nat
        BY HeadVersionType DEF Mapped
      <4>7. Len(LogOf(f)) = HeadVersion(f)
        BY LogIsMade
      <4> QED
        BY <4>1, <4>3, <4>4, <4>5, <4>6, <4>7 DEF Abstract!Prefixes
    <3> QED
      BY <1>10, <3>1, <3>2
  <2>3. TheDrafts[p] = Abstract!NoDraft
    BY <1>6 DEF TheDrafts
  <2>4. Abstract!Submit(p, q.target, n)
    BY <1>4, <1>7, <2>1, <2>3 DEF Abstract!Submit, TheLogs, TheDrafts
  <2> QED
    BY <2>2, <2>4 DEF Abstract!Next
<1> QED
  BY <1>9, <1>10
LEMMA DecideMoves ==
  ASSUME Mapped, Decide
  PROVE  [Abstract!Next]_<<TheLogs, TheDrafts>>
<1>1. PICK p \in ProposalIds, to \in {"approved", "rejected", "expired", "stale"} :
        /\ proposals' = [proposals EXCEPT ![p].status = to]
        /\ proposals[p].status \in {"pending_approval", "approved"}
        /\ to = "approved" => proposals[p].status = "pending_approval"
  BY DEF Decide, Approve, Reject, Expire, Stale
<1>2. UNCHANGED <<revisions, heads>>
  BY DEF Decide, Approve, Reject, Expire, Stale, canonical
<1>3. TheLogs' = TheLogs
  BY <1>2, LogsKept
<1>4. proposals \in [ProposalIds -> Proposals]
  BY DEF Mapped, Inductive, TypeOK
<1>5. proposals'[p] = [proposals[p] EXCEPT !.status = to]
  BY <1>1, <1>4
<1>6. \A x \in ProposalIds \ {p} : DraftOf(x)' = DraftOf(x)
  BY <1>1, <1>2, <1>4 DEF DraftOf, NextVersion
<1>7. TheDrafts' = [TheDrafts EXCEPT ![p] = DraftOf(p)']
  BY <1>6 DEF TheDrafts
<1>8. /\ Terms(proposals'[p]) = Terms(proposals[p]) /\ proposals'[p].status = to
      /\ proposals'[p].operation = proposals[p].operation
  BY <1>4, <1>5 DEF Terms, Proposals
<1>9. DraftOf(p)' = [DraftOf(p) EXCEPT !.stage =
        IF proposals[p].operation \in Creations \cup Revising THEN Stage(to) ELSE "none"]
  BY <1>2, <1>8, DraftKept
<1>10. CASE proposals[p].operation \notin Creations \cup Revising
  <2>1. DraftOf(p)' = DraftOf(p)
    BY <1>9, <1>10 DEF DraftOf
  <2> QED
    BY <1>3, <1>7, <2>1 DEF TheDrafts
<1>11. CASE proposals[p].operation \in Creations \cup Revising
  <2>1. TheDrafts[p].stage = Stage(proposals[p].status)
    BY <1>11 DEF TheDrafts, DraftOf
  <2>2. TheDrafts' = [TheDrafts EXCEPT ![p].stage = Stage(to)]
    BY <1>7, <1>9, <1>11 DEF TheDrafts
  <2>3. CASE to = "approved"
    <3>1. Abstract!Accept(p)
      BY <1>1, <1>3, <2>1, <2>2, <2>3 DEF Abstract!Accept, Stage, TheLogs, TheDrafts
    <3> QED
      BY <3>1 DEF Abstract!Next
  <2>4. CASE to # "approved"
    <3>1. Stage(to) = "dropped"
      BY <2>4 DEF Stage
    <3>2. TheDrafts[p].stage \in {"open", "accepted"}
      BY <1>1, <2>1 DEF Stage
    <3>3. Abstract!Drop(p)
      BY <1>3, <2>2, <3>1, <3>2 DEF Abstract!Drop, TheLogs, TheDrafts
    <3> QED
      BY <3>3 DEF Abstract!Next
  <2> QED
    BY <2>3, <2>4
<1> QED
  BY <1>10, <1>11

(* A link publishes nothing and is no draft.                               *)
LEMMA LinkStutters ==
  ASSUME Mapped, NEW p \in ProposalIds, ApplyLink(p)
  PROVE  UNCHANGED <<TheLogs, TheDrafts>>
<1>1. /\ UNCHANGED <<revisions, heads>>
      /\ proposals[p].operation = "link"
      /\ proposals' = [proposals EXCEPT ![p].status = "applied",
                                        ![p].appliedRevision = None]
  BY DEF ApplyLink, Consume
<1>2. proposals \in [ProposalIds -> Proposals]
  BY DEF Mapped, Inductive, TypeOK
<1>3. \A x \in ProposalIds \ {p} : DraftOf(x)' = DraftOf(x)
  BY <1>1, <1>2 DEF DraftOf, NextVersion
<1>4. proposals'[p].operation = "link"
  BY <1>1, <1>2 DEF Proposals
<1>5. DraftOf(p)' = DraftOf(p)
  BY <1>1, <1>4 DEF DraftOf, Creations, Revising, StateChanges
<1> QED
  BY <1>1, <1>3, <1>5, LogsKept DEF TheDrafts-----------------------------------------------------------------------------
(* A publication appends its proposal to the log of its family.            *)

LEMMA CommitExtends ==
  ASSUME Mapped, NEW p \in ProposalIds, NEW f \in FamilyIds,
         NEW new \in RevisionIds, Committed(p, f, new)
  PROVE  /\ NextVersion(proposals[p].base) = HeadVersion(f) + 1
         /\ HeadVersion(f)' = HeadVersion(f) + 1
         /\ \A g \in FamilyIds \ {f} : HeadVersion(g)' = HeadVersion(g)
         /\ \A r \in RevisionIds \ {new} : revisions'[r].proposal = revisions[r].proposal
         /\ revisions'[new].proposal = p
         /\ Published(new)'
         /\ \A r \in RevisionIds : Published(r) =>
              Published(r)' /\ revisions'[r].version = revisions[r].version
<1>1. NextVersion(proposals[p].base) = HeadVersion(f) + 1
  <2>1. CASE proposals[p].base = {}
    <3>1. NextVersion(proposals[p].base) = 1
      BY <2>1 DEF NextVersion
    <3>2. ~HasHead(f)
      BY <2>1 DEF Committed, BuildsOnHead, Mapped, Inductive, HeadsAreTheirOwn, Published
    <3> QED
      BY <3>1, <3>2 DEF HeadVersion
  <2>2. CASE proposals[p].base # {}
    BY <2>2, VersionsGrow DEF Committed, BuildsOnHead, HeadVersion, Mapped
  <2> QED
    BY <2>1, <2>2
<1>2. /\ \A r \in RevisionIds \ {new} : /\ revisions'[r].proposal = revisions[r].proposal
                                        /\ revisions'[r].version = revisions[r].version
                                        /\ Published(r)' <=> Published(r)
      /\ revisions'[new].proposal = p
      /\ revisions'[new].version = NextVersion(proposals[p].base)
      /\ Published(new)'
  BY RevisionsAfter DEF Mapped
<1>3. /\ heads'[f].revision = new /\ HasHead(f)'
      /\ \A g \in FamilyIds \ {f} : heads'[g] = heads[g] /\ (HasHead(g)' <=> HasHead(g))
      /\ \A g \in FamilyIds \ {f} : HasHead(g) => heads[g].revision # new
  BY HeadsAfter DEF Mapped
<1>4. HeadVersion(f)' = HeadVersion(f) + 1
  BY <1>1, <1>2, <1>3 DEF HeadVersion
<1>5. ASSUME NEW g \in FamilyIds \ {f} PROVE HeadVersion(g)' = HeadVersion(g)
  <2>1. HasHead(g) => heads[g].revision \in RevisionIds \ {new}
    BY <1>3, HeadPairType DEF Mapped, Inductive
  <2> QED
    BY <1>2, <1>3, <2>1 DEF HeadVersion
<1>6. \A r \in RevisionIds : Published(r) => r # new
  BY DEF Committed
<1> QED
  BY <1>1, <1>2, <1>4, <1>5, <1>6

LEMMA AppendIsMade ==
  ASSUME NEW S, NEW s \in Seq(S), NEW e \in S, NEW n \in Nat, Len(s) = n
  PROVE  Append(s, e) = [v \in 1..n + 1 |-> IF v = n + 1 THEN e ELSE s[v]]
<1>1. Append(s, e) \in Seq(S) /\ Len(Append(s, e)) = n + 1
  OBVIOUS
<1>2. Append(s, e) \in [1..n + 1 -> S]
  <2> DEFINE t == Append(s, e)
  <2>1. t \in Seq(S) /\ Len(t) = n + 1
    BY <1>1
  <2> HIDE DEF t
  <2>2. t \in [1..n + 1 -> S]
    BY <2>1
  <2> QED
    BY <2>2 DEF t
<1>3. \A v \in 1..n + 1 : Append(s, e)[v] = IF v = n + 1 THEN e ELSE s[v]
  OBVIOUS
<1> QED
  BY <1>2, <1>3

(* What holds a version keeps it, and the new revision holds the next one. *)
LEMMA HoldersAfter ==
  ASSUME Mapped, NEW p \in ProposalIds, NEW f \in FamilyIds,
         NEW new \in RevisionIds, Committed(p, f, new),
         NEW r, NEW g \in FamilyIds, NEW v \in Nat \ {0}
  PROVE  Holds(r, g, v)' <=>
           \/ Holds(r, g, v)
           \/ r = new /\ g = f /\ v = HeadVersion(f) + 1
<1>1. /\ revisions'[new].family = f
      /\ revisions'[new].version = HeadVersion(f) + 1
      /\ \A s \in RevisionIds \ {new} : /\ revisions'[s].family = revisions[s].family
                                        /\ revisions'[s].version = revisions[s].version
  BY RevisionsAfter, CommitExtends DEF Mapped
<1>2. ~Holds(new, g, v)
  BY DEF Committed, Published, Holds
<1> QED
  BY <1>1, <1>2 DEF Holds

LEMMA CommitAppends ==
  ASSUME Mapped, NEW p \in ProposalIds, NEW f \in FamilyIds,
         NEW new \in RevisionIds, Committed(p, f, new)
  PROVE  /\ VersionsAreTaken'
         /\ TheLogs' = [TheLogs EXCEPT ![f] = Append(LogOf(f), p)]
<1>1. /\ HeadVersion(f)' = HeadVersion(f) + 1
      /\ \A g \in FamilyIds \ {f} : HeadVersion(g)' = HeadVersion(g)
      /\ revisions'[new].proposal = p
      /\ \A r \in RevisionIds \ {new} : revisions'[r].proposal = revisions[r].proposal
  BY CommitExtends
<1>2. \A g \in FamilyIds : HeadVersion(g) \in Nat
  BY HeadVersionType DEF Mapped
<1> PICK last \in Nat \ {0} : last = HeadVersion(f) + 1
  BY <1>2
<1>3. ASSUME NEW g \in FamilyIds, NEW v \in 1..HeadVersion(g)
      PROVE  /\ \E r \in RevisionIds : Holds(r, g, v)'
             /\ LogOf(g)'[v] = LogOf(g)[v]
  <2>1. v \in Nat \ {0}
    BY <1>2
  <2>2. PICK r \in RevisionIds : Holds(r, g, v)
    BY DEF Mapped, VersionsAreTaken
  <2>3. Published(r) /\ \A s : Holds(s, g, v) => s = r
    BY <2>1, <2>2, HolderIsUnique DEF Mapped
  <2>4. ~(g = f /\ v = HeadVersion(f) + 1)
    BY <1>2
  <2>5. \A s \in RevisionIds : Holds(s, g, v)' <=> s = r
    BY <2>1, <2>2, <2>3, <2>4, HoldersAfter
  <2>6. RevisionAt(g, v)' = r
    BY <2>5 DEF RevisionAt, Holds
  <2>7. v \in 1..HeadVersion(g)'
    BY <1>1, <1>2
  <2>8. LogOf(g)'[v] = revisions'[r].proposal
    BY <2>6, <2>7 DEF LogOf
  <2>9. r # new
    BY <2>3 DEF Committed
  <2>10. LogOf(g)[v] = revisions[r].proposal
    BY <2>2, LogIsMade
  <2> QED
    BY <1>1, <2>2, <2>5, <2>8, <2>9, <2>10
<1>4. Holds(new, f, last)' /\ LogOf(f)'[last] = p
  <2>1. ASSUME NEW s \in RevisionIds PROVE ~Holds(s, f, last)
    <3>1. SUFFICES ASSUME Holds(s, f, last) PROVE FALSE
      OBVIOUS
    <3>2. Published(s)
      BY <3>1 DEF Holds, Published
    <3>3. revisions[s].version <= HeadVersion(f)
      BY <3>1, <3>2 DEF Mapped, Inductive, LinearHistory, HeadVersion, Holds
    <3> QED
      BY <1>2, <3>1, <3>3 DEF Holds
  <2>2. \A s \in RevisionIds : Holds(s, f, last)' <=> s = new
    BY <2>1, HoldersAfter
  <2>3. RevisionAt(f, last)' = new
    BY <2>2 DEF RevisionAt, Holds
  <2>4. LogOf(f)'[last] = p
    BY <1>1, <1>2, <2>3 DEF LogOf
  <2> QED
    BY <2>2, <2>4
<1>5. VersionsAreTaken'
  <2> SUFFICES ASSUME NEW g \in FamilyIds, NEW v \in 1..HeadVersion(g)'
               PROVE  \E r \in RevisionIds : Holds(r, g, v)'
    BY DEF VersionsAreTaken
  <2>1. CASE v \in 1..HeadVersion(g)
    BY <1>3, <2>1
  <2>2. CASE v \notin 1..HeadVersion(g)
    <3>1. g = f /\ v = last
      BY <1>1, <1>2, <2>2
    <3> QED
      BY <1>4, <3>1
  <2> QED
    BY <2>1, <2>2
<1>6. ASSUME NEW g \in FamilyIds \ {f} PROVE LogOf(g)' = LogOf(g)
  <2>1. /\ DOMAIN (LogOf(g)') = 1..HeadVersion(g)' /\ DOMAIN LogOf(g) = 1..HeadVersion(g)
        /\ LogOf(g)' = [v \in 1..HeadVersion(g)' |-> LogOf(g)'[v]]
        /\ LogOf(g) = [v \in 1..HeadVersion(g) |-> LogOf(g)[v]]
    BY DEF LogOf
  <2> QED
    BY <1>1, <1>3, <2>1
<1>7. LogOf(f)' = Append(LogOf(f), p)
  <2>1. LogOf(f) \in Seq(ProposalIds) /\ Len(LogOf(f)) = HeadVersion(f)
    BY LogIsMade
  <2>2. LogOf(f)' = [v \in 1..last |-> LogOf(f)'[v]]
    BY <1>1 DEF LogOf
  <2>3. PICK n \in Nat : n = HeadVersion(f) /\ last = n + 1
    BY <1>2
  <2>4. Append(LogOf(f), p) = [v \in 1..last |-> IF v = last THEN p ELSE LogOf(f)[v]]
    BY <2>1, <2>3, AppendIsMade
  <2>5. \A v \in 1..last : LogOf(f)'[v] = IF v = last THEN p ELSE LogOf(f)[v]
    BY <1>3, <1>4, <2>3
  <2> QED
    BY <2>2, <2>4, <2>5
<1> QED
  BY <1>5, <1>6, <1>7 DEF TheLogs
LEMMA PublicationAppends ==
  ASSUME Mapped, NEW p \in ProposalIds, NEW f \in FamilyIds, NEW a \in AliasNames,
         NEW new \in RevisionIds, PublicationStep(p, f, a, new), [Next]_ledgerVars
  PROVE  Mapped' /\ Abstract!Next
<1>1. /\ Committed(p, f, new) /\ Applicable(p)
      /\ proposals[p].operation \in Creations \cup Revising
      /\ proposals' = [proposals EXCEPT ![p].status = "applied",
                                        ![p].appliedRevision = new]
  BY DEF PublicationStep, Committed, Consume
<1>2. /\ VersionsAreTaken' /\ TheLogs' = [TheLogs EXCEPT ![f] = Append(LogOf(f), p)]
      /\ NextVersion(proposals[p].base) = HeadVersion(f) + 1
      /\ \A r \in RevisionIds : Published(r) =>
           Published(r)' /\ revisions'[r].version = revisions[r].version
  BY <1>1, CommitExtends, CommitAppends
<1>3. Mapped'
  BY <1>2, NextInductive, BasesKept DEF Mapped
<1>4. proposals \in [ProposalIds -> Proposals]
  BY DEF Mapped, Inductive, TypeOK
<1>5. /\ \A x \in ProposalIds : Terms(proposals'[x]) = Terms(proposals[x])
      /\ \A x \in ProposalIds \ {p} : proposals'[x] = proposals[x]
      /\ proposals'[p].status = "applied"
  BY <1>1, <1>4 DEF Terms, Proposals
<1>6. ASSUME NEW x \in ProposalIds
      PROVE  DraftOf(x)' = [DraftOf(x) EXCEPT !.stage =
               IF proposals[x].operation \in Creations \cup Revising
               THEN Stage(proposals'[x].status) ELSE "none"]
  BY <1>2, <1>5, DraftKept
<1>7. ASSUME NEW x \in ProposalIds \ {p} PROVE DraftOf(x)' = DraftOf(x)
  BY <1>5, <1>6 DEF DraftOf
<1>8. DraftOf(p)' = [DraftOf(p) EXCEPT !.stage = "appended"]
  BY <1>1, <1>5, <1>6 DEF Stage
<1>9. TheDrafts' = [TheDrafts EXCEPT ![p].stage = "appended"]
  BY <1>7, <1>8 DEF TheDrafts
<1>10. /\ TheDrafts[p].stage = "accepted" /\ TheDrafts[p].log \in {f, None}
       /\ TheDrafts[p].seen = NextVersion(proposals[p].base) - 1
  <2>1. proposals[p].status = "approved"
    BY <1>1 DEF Applicable
  <2>2. proposals[p].target \in {f, None}
    BY <1>1 DEF Mapped, Inductive, PreviewsAreWellFormed, WellFormed, PublicationStep
  <2> QED
    BY <1>1, <2>1, <2>2 DEF TheDrafts, DraftOf, Stage
<1>11. Len(TheLogs[f]) = TheDrafts[p].seen
  <2>1. HeadVersion(f) \in Nat
    BY HeadVersionType DEF Mapped
  <2>2. Len(TheLogs[f]) = HeadVersion(f)
    BY LogIsMade DEF TheLogs
  <2> QED
    BY <1>2, <1>10, <2>1, <2>2
<1>12. Abstract!AppendTo(f, p)
  BY <1>2, <1>9, <1>10, <1>11 DEF Abstract!AppendTo, TheLogs, TheDrafts
<1> QED
  BY <1>3, <1>12 DEF Abstract!Next

LEMMA NextIsReviewed ==
  ASSUME Mapped, [Next]_ledgerVars
  PROVE  Mapped' /\ [Abstract!Next]_<<TheLogs, TheDrafts>>
<1>1. CASE \E p \in ProposalIds, f \in FamilyIds, a \in AliasNames, new \in RevisionIds :
             PublicationStep(p, f, a, new)
  BY <1>1, PublicationAppends
<1>2. ASSUME UNCHANGED <<revisions, heads>> PROVE Mapped'
  <2>1. \A r \in RevisionIds : Published(r) => Published(r)'
    BY <1>2 DEF Published
  <2> QED
    BY <1>2, <2>1, NextInductive, LogsKept, BasesKept DEF Mapped
<1>3. CASE UNCHANGED ledgerVars \/ Tick
  <2>1. UNCHANGED <<revisions, heads, proposals>>
    BY <1>3 DEF ledgerVars, Tick, canonical
  <2>2. TheDrafts' = TheDrafts
    BY <2>1 DEF TheDrafts, DraftOf, NextVersion
  <2> QED
    BY <1>2, <2>1, <2>2, LogsKept
<1>4. CASE Propose
  <2>1. PICK q \in Proposals : Drafted(q) /\ Save(q)
    BY <1>4, ProposeDrafts DEF Mapped
  <2>2. UNCHANGED <<revisions, heads>>
    BY <2>1 DEF Save, canonical
  <2> QED
    BY <1>2, <2>1, <2>2, SaveSubmits
<1>5. CASE Decide
  <2>1. UNCHANGED <<revisions, heads>>
    BY <1>5 DEF Decide, Approve, Reject, Expire, Stale, canonical
  <2> QED
    BY <1>2, <1>5, <2>1, DecideMoves
<1>6. CASE Apply
  <2>1. PICK p \in ProposalIds : ApplyCreate(p) \/ ApplyRevise(p) \/ ApplyLink(p)
    BY <1>6 DEF Apply
  <2>2. CASE ApplyLink(p)
    <3>1. UNCHANGED <<revisions, heads>>
      BY <2>2 DEF ApplyLink
    <3> QED
      BY <1>2, <2>2, <3>1, LinkStutters
  <2>3. CASE ApplyCreate(p) \/ ApplyRevise(p)
    BY <1>1, <2>3, ApplyCreatePublishes, ApplyRevisePublishes DEF Mapped
  <2> QED
    BY <2>1, <2>2, <2>3
<1> QED
  BY <1>3, <1>4, <1>5, <1>6 DEF Next

LEMMA InitIsReviewed ==
  ASSUME Init
  PROVE  Mapped /\ Abstract!Init
<1>1. Inductive
  BY InitInductive
<1>2. \A f \in FamilyIds : HeadVersion(f) = 0
  BY DEF Init, HeadVersion, HasHead, NoHead
<1>3. VersionsAreTaken
  BY <1>2 DEF VersionsAreTaken
<1>4. BasesArePublished
  BY DEF Init, BasesArePublished, NoProposal
<1>5. \A f \in FamilyIds : LogOf(f) = <<>>
  BY <1>2 DEF LogOf
<1>6. \A p \in ProposalIds : DraftOf(p) = Abstract!NoDraft
  BY DEF Init, DraftOf, NoProposal, Abstract!NoDraft, Creations, Revising, StateChanges
<1> QED
  BY <1>1, <1>3, <1>4, <1>5, <1>6 DEF Mapped, Abstract!Init

(* The ledger implements the reviewed logs: however proposals, decisions,  *)
(* expiries and applies interleave, a family only ever grows by one        *)
(* approved proposal at a time, drafted on what the family then says.      *)
THEOREM LedgerImplementsReviewedLog == Spec => ImplementsReviewedLog
<1>1. Init => Mapped /\ Abstract!Init
  BY InitIsReviewed
<1>2. Mapped /\ [Next]_ledgerVars => Mapped'
  BY NextIsReviewed
<1>3. Mapped /\ [Next]_ledgerVars => [Abstract!Next]_<<TheLogs, TheDrafts>>
  BY NextIsReviewed
<1>4. Mapped /\ [Next]_ledgerVars =>
        [Abstract!Next]_<<[f \in FamilyIds |-> LogOf(f)], [p \in ProposalIds |-> DraftOf(p)]>>
  BY <1>3 DEF TheLogs, TheDrafts
<1> QED
  BY <1>1, <1>2, <1>4, PTL DEF Spec, ImplementsReviewedLog, Abstract!Spec
=============================================================================

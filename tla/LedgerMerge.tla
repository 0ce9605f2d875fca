---------------------------- MODULE LedgerMerge ----------------------------
(***************************************************************************)
(* The operations of the ledger that work on several families, added to    *)
(* those of module Ledger:                                                 *)
(*                                                                         *)
(*   MERGE publishes one revision whose parents are the heads of all the   *)
(*   families merged, retires the source families and redirects their      *)
(*   aliases, and keeps a manifest of what it changed;                     *)
(*   UNMERGE restores the manifest, if nothing it changed moved since;     *)
(*   RESOLVE_CONFLICT publishes the resolution of a divergence that        *)
(*   blocked a merge.                                                      *)
(***************************************************************************)
EXTENDS Ledger

VARIABLES
  manifests,  \* MergeManifest by the proposal of its merge
  conflicts   \* ConflictCase, known by its members

mergeVars == <<manifests, conflicts>>
vars == <<ledgerVars, mergeVars>>

NoManifest ==
  [revision |-> None, target |-> None, sources |-> {}, heads |-> {},
   families |-> {}, aliases |-> {}, relations |-> {}, created |-> {}]

Case(members, status, version) ==
  [members |-> members, status |-> status, version |-> version]
-----------------------------------------------------------------------------
(* MERGE.                                                                  *)

(* _detect_merge_conflicts: the sources say different things and the       *)
(* author did not declare which one the merge keeps.                       *)
Diverge(base) ==
  Cardinality({revisions[r].content.value : r \in base}) > 1

(* The expected heads of a merge: one of each family, the revision merged. *)
PairsOf(base) == {<<revisions[r].family, r>> : r \in base}

(* propose_merge takes the revisions and the heads from its caller and     *)
(* compares them with each other, not with the ledger's heads.  A merge    *)
(* with conflicts is saved as CONFLICTED, a status that nothing leaves,    *)
(* and its cases are written over the ones already known.                  *)
ProposeMerge(f, base, content, declared, who) ==
  LET merged == {revisions[r].family : r \in base}
      blocked == Diverge(base) /\ ~declared
  IN
  /\ "merge" \in Operations
  /\ Cardinality(base) >= 2
  /\ \A r \in base : Published(r)
  /\ Cardinality(merged) = Cardinality(base)
  /\ f \in merged
  /\ declared => content.value \in {revisions[r].content.value : r \in base}
  /\ Save([Draft("merge", who) EXCEPT
             !.status = IF blocked THEN "conflicted" ELSE "pending_approval",
             !.target = f, !.content = content, !.base = base,
             !.expected = PairsOf(base)])
  /\ conflicts' = IF ~blocked THEN conflicts
                  ELSE {c \in conflicts : c.members # base}
                       \cup {Case(base, "open", 1)}
  /\ UNCHANGED manifests

(* Mutant: the rows are retired and nothing is redirected.                 *)
RedirectedAliases_Lost(rows, sources, f) ==
  {row \in rows : row.family \notin sources}
  \cup {[row EXCEPT !.status = "retired"] : row \in {x \in rows : x.family \in sources}}

(* Each row of a source family is retired and a copy names the target.     *)
RedirectedAliases(rows, sources, f) ==
  {row \in rows : row.family \notin sources}
  \cup {[row EXCEPT !.status = "retired"] : row \in {x \in rows : x.family \in sources}}
  \cup {[row EXCEPT !.family = f, !.status = "resolved"] :
          row \in {x \in rows : x.family \in sources}}

Touching(affected) ==
  {x \in relations : x.source \in affected \/ x.target \in affected}

MergedInto(p, f, sources, new) ==
  {Assertion(p, g, f, heads[g].revision, new, "MERGED_INTO") : g \in sources}

Manifest(p, f, sources, rows, new) ==
  LET affected == sources \cup {f}
  IN [revision |-> new, target |-> f, sources |-> sources,
      heads |-> {[family |-> g, revision |-> heads[g].revision] : g \in affected},
      families |-> {[family |-> g, record |-> families[g]] : g \in affected},
      aliases |-> {row \in rows : row.family \in affected},
      relations |-> Touching(affected),
      created |-> MergedInto(p, f, sources, new)]

ApplyMerge(p) ==
  LET q == proposals[p]
      f == q.target
      sources == {revisions[r].family : r \in q.base} \ {f}
      new == Min(FreeRevisions)
      rows == aliases \cup {AliasRow(families[f].legacy, f)}
  IN
  /\ Applicable(p)
  /\ q.operation = "merge"
  /\ FreeRevisions # {}
  /\ families[f].state = "active"
  /\ families' = [g \in FamilyIds |->
       IF g \in sources THEN [families[g] EXCEPT !.state = "merged", !.mergedInto = f]
       ELSE families[g]]
  /\ manifests' = [manifests EXCEPT ![p] = Manifest(p, f, sources, rows, new)]
  /\ Commit(p, f, RedirectedAliases(rows, sources, f), sources,
            MergedInto(p, f, sources, new),
            {Event("head", g, None, "merge_source_retired", "", now) : g \in sources})
  /\ UNCHANGED conflicts
-----------------------------------------------------------------------------
(* UNMERGE.                                                                *)

ProposeUnmerge(m, who) ==
  LET t == manifests[m].target
  IN
  /\ "unmerge" \in Operations
  /\ manifests[m] # NoManifest
  /\ heads[t].revision = manifests[m].revision
  /\ Save([Draft("unmerge", who) EXCEPT
             !.target = t, !.base = {manifests[m].revision},
             !.expected = {HeadPair(t)}, !.manifest = m])
  /\ UNCHANGED mergeVars

AliasRowsOf(rows, names) == {row \in rows : row.alias \in names}

(* The alias rows are compared as lists, and a list built from the         *)
(* manifest repeats a row when the target already had the redirected name, *)
(* which the alias table does not.                                         *)
ExpectedAliases(man) == RedirectedAliases(man.aliases, man.sources, man.target)

RepeatsARow(man) ==
  LET redirected == {row \in man.aliases : row.family \in man.sources}
  IN Cardinality(ExpectedAliases(man))
       # Cardinality(man.aliases) + Cardinality(redirected)

(* _assert_unmerge_cas: heads, families, aliases and relations are what    *)
(* the merge left.                                                         *)

UnmergeMatches(m) ==
  LET man == manifests[m]
      affected == man.sources \cup {man.target}
      names == {row.alias : row \in man.aliases}
  IN
  /\ heads[man.target].revision = man.revision
  /\ \A g \in man.sources : ~HasHead(g)
  /\ \A x \in man.families :
       families[x.family] =
         IF x.family \in man.sources
         THEN [x.record EXCEPT !.state = "merged", !.mergedInto = man.target]
         ELSE x.record
  /\ AliasRowsOf(aliases, names) = ExpectedAliases(man)
  /\ ~RepeatsARow(man)
  /\ Touching(affected) = man.relations \cup man.created

Before(man, g) == (CHOOSE x \in man.heads : x.family = g).revision

(* Mutant: the heads come back with the number of the merge.               *)
RestoredHeads_Renumbered(man) ==
  [g \in FamilyIds |->
     IF g \in man.sources \cup {man.target}
     THEN [revision |-> Before(man, g), sequence |-> sequence] ELSE heads[g]]

RestoredHeads(man) ==
  [g \in FamilyIds |->
     IF g \in man.sources \cup {man.target}
     THEN [revision |-> Before(man, g), sequence |-> sequence + 1] ELSE heads[g]]

(* Mutant: only the target is in effect again.                             *)
Undoing_TargetOnly(man) ==
  << [from |-> {man.revision}, to |-> {man.revision},
      state |-> "invalidated", at |-> now],
     [from |-> {}, to |-> {Before(man, man.target)}, state |-> "active", at |-> now] >>

(* Mutant: the merged revision is not invalidated.                         *)
Undoing_KeepsTheMerge(man) ==
  << [from |-> {}, to |-> {Before(man, g) : g \in man.sources \cup {man.target}},
      state |-> "active", at |-> now] >>

(* Every head restored is active from now on, and the merged revision,     *)
(* which stays in the history, is invalidated.                             *)
Undoing(man) ==
  << [from |-> {man.revision}, to |-> {man.revision},
      state |-> "invalidated", at |-> now],
     [from |-> {}, to |-> {Before(man, g) : g \in man.sources \cup {man.target}},
      state |-> "active", at |-> now] >>

(* The recorded window of the merged revision ends.                        *)
Withdrawn(man) ==
  [revisions EXCEPT ![man.revision].to = IF @ = None \/ @ > now THEN now ELSE @]

ApplyUnmerge(p) ==
  LET m == proposals[p].manifest
      man == manifests[m]
      affected == man.sources \cup {man.target}
      names == {row.alias : row \in man.aliases}
  IN
  /\ Applicable(p)
  /\ proposals[p].operation = "unmerge"
  /\ UnmergeMatches(m)
  /\ heads' = RestoredHeads(man)
  /\ revisions' = Withdrawn(man)
  /\ families' = [g \in FamilyIds |->
       IF g \in affected THEN (CHOOSE x \in man.families : x.family = g).record
       ELSE families[g]]
  /\ aliases' = (aliases \ AliasRowsOf(aliases, names)) \cup man.aliases
  /\ relations' = (relations \ man.created)
                  \cup {[x EXCEPT !.state = "retired"] : x \in man.created}
  /\ sequence' = sequence + 1
  /\ transitions' = transitions \o Undoing(man)
  /\ outbox' = outbox \cup
       {Event("head", g, Before(man, g), "unmerge", "", now) : g \in affected}
  /\ Consume(p, Before(man, man.target))
  /\ UNCHANGED mergeVars
-----------------------------------------------------------------------------
(* RESOLVE_CONFLICT.  The family whose revision carries the resolution is  *)
(* the caller's choice; whether the case is still open is for the apply to *)
(* find out.                                                               *)
ProposeResolveConflict(f, content, c, who) ==
  /\ "resolve_conflict" \in Operations
  /\ c \in conflicts
  /\ HasHead(f)
  /\ Save([Draft("resolve_conflict", who) EXCEPT
             !.target = f, !.content = content, !.base = {heads[f].revision},
             !.expected = {HeadPair(f)},
             !.conflict = c.members, !.conflictVersion = c.version])
  /\ UNCHANGED mergeVars

ApplyResolveConflict(p) ==
  LET q == proposals[p]
      frozen == Case(q.conflict, "open", q.conflictVersion)
  IN
  /\ Applicable(p)
  /\ q.operation = "resolve_conflict"
  /\ frozen \in conflicts
  /\ families[q.target].state = "active"
  /\ Publish(p, q.target, families[q.target].legacy)
  /\ conflicts' = (conflicts \ {frozen})
                  \cup {Case(q.conflict, "resolved", q.conflictVersion + 1)}
  /\ UNCHANGED <<families, manifests>>
-----------------------------------------------------------------------------
MergeInit ==
  /\ Init
  /\ manifests = [p \in ProposalIds |-> NoManifest]
  /\ conflicts = {}

ProposeMerging ==
  \E who \in Requesters :
    \/ \E f \in FamilyIds, base \in SUBSET RevisionIds, c \in Contents,
          declared \in BOOLEAN : ProposeMerge(f, base, c, declared, who)
    \/ \E m \in ProposalIds : ProposeUnmerge(m, who)
    \/ \E f \in FamilyIds, c \in Contents, case \in conflicts :
         ProposeResolveConflict(f, c, case, who)

ApplyMerging ==
  \E p \in ProposalIds :
    ApplyMerge(p) \/ ApplyUnmerge(p) \/ ApplyResolveConflict(p)

MergeNext ==
  \/ Next /\ UNCHANGED mergeVars
  \/ ProposeMerging
  \/ ApplyMerging

MergeSpec == MergeInit /\ [][MergeNext]_vars
-----------------------------------------------------------------------------
(* Properties.                                                             *)

(* A merged family forwards to the family it was merged into: it has no    *)
(* head, no identifier in use names it, and what named it names a family   *)
(* that leads, merge after merge, to an active family with a head.         *)
MergedFamiliesForward ==
  \A f \in FamilyIds : families[f].state = "merged" =>
    LET t == families[f].mergedInto
    IN /\ ~HasHead(f)
       /\ families[t].state \in {"active", "merged"}
       /\ \A row \in aliases : row.status = "resolved" => row.family # f
       /\ AliasFamilies(families[f].legacy) # {}
       /\ \A g \in AliasFamilies(families[f].legacy) :
            families[g].state = "active" /\ HasHead(g)

(* The parents of a revision were heads together: two revisions share a    *)
(* parent only if all but one of them have been undone by an UNMERGE.      *)
ForksAreUndone ==
  \A r, s \in RevisionIds :
    /\ Published(r) /\ Published(s) /\ r # s
    /\ revisions[r].parents \cap revisions[s].parents # {}
    => \E x \in {r, s} : /\ proposals[revisions[x].proposal].operation = "merge"
                         /\ RecordedState(x) = "invalidated"

(* An UNMERGE that is applied takes the revision of merge m from its head. *)
Undoes(m) ==
  LET man == manifests[m]
  IN /\ man # NoManifest
     /\ heads[man.target].revision = man.revision
     /\ heads'[man.target].revision # man.revision
     /\ \E p \in ProposalIds : /\ proposals[p].operation = "unmerge"
                               /\ proposals[p].status = "approved"
                               /\ proposals'[p].status = "applied"

(* What is said now of a family is what was said of the same instant just  *)
(* before the merge was recorded.                                          *)
GivesBack(man) ==
  LET affected == man.sources \cup {man.target}
  IN /\ \A g \in affected :
          /\ EffectiveNow(g)' = Effective(g, now', revisions[man.revision].from - 1)
          /\ families'[g].state = "active"
          /\ g \in AliasFamilies(families[g].legacy)'
     /\ \A g \in FamilyIds \ affected : heads'[g] = heads[g]

(* An UNMERGE gives back what the merge took: every family of the merge is *)
(* in effect again with the revision that would be in effect if the merge  *)
(* had not been recorded, its identifiers name it again, and no head       *)
(* outside the merge moves.                                                *)
UnmergeRestores ==
  [][\A m \in ProposalIds : Undoes(m) => GivesBack(manifests[m])]_vars

(* The number of a family's head only grows, also when an UNMERGE gives    *)
(* back an old revision: readers that keep the highest number never go     *)
(* back.                                                                   *)
HeadNumbersGrow ==
  [][\A f \in FamilyIds :
       HasHead(f)' /\ heads'[f] # heads[f] =>
         \A e \in outbox : e.family = f => heads'[f].sequence > e.sequence]_vars

(* A version of a conflict case is resolved once: of two resolutions       *)
(* drafted on it, the second to be applied finds that the case changed     *)
(* (the comparison of versions in apply_approved).                         *)
ResolutionsAreExclusive ==
  \A p, q \in {x \in ProposalIds : /\ proposals[x].operation = "resolve_conflict"
                                  /\ proposals[x].status = "applied"} :
    /\ proposals[p].conflict = proposals[q].conflict
    /\ proposals[p].conflictVersion = proposals[q].conflictVersion
    => p = q
=============================================================================

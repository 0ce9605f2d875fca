---------------------------- MODULE IntakeProofs ----------------------------
(***************************************************************************)
(* What enters the ledger beside its own clients: the backfill with the    *)
(* usage observations and the snapshot (LedgerIntake), and the captures    *)
(* (Capture).  The backfill publishes without proposals, so the invariant  *)
(* of the ledger does not hold of it, and what is said of its identifiers  *)
(* rests on the rows of the alias table alone; a capture only proposes.    *)
(***************************************************************************)
EXTENDS LedgerIntake, Capture, LedgerProofs

-----------------------------------------------------------------------------
(* The backfill: identifiers.                                              *)

(* Each active family has a row of its own for its identifier, unless the  *)
(* identifier is in quarantine.                                            *)
Claimed(fs, rows) ==
  /\ DOMAIN fs = FamilyIds
  /\ \A row \in rows : row.family \in FamilyIds \cup {None}
  /\ \A f \in FamilyIds : fs[f].state = "active" =>
       \E row \in rows :
         /\ row.alias = fs[f].legacy
         /\ \/ row.status = "ambiguous"
            \/ row.status = "resolved" /\ row.family = f

(* A proposal aims at a family or at none.                                 *)
Aimed(ps) ==
  /\ DOMAIN ps = ProposalIds
  /\ \A p \in ProposalIds : /\ "target" \in DOMAIN ps[p]
                            /\ ps[p].target \in FamilyIds \cup {None}

Identifiers ==
  /\ Claimed(families, aliases) /\ Aimed(proposals)
  /\ \A s \in snapshot : Claimed(s.families, s.aliases) /\ Aimed(s.proposals)

(* A new row takes nothing from the others.                                *)
LEMMA ClaimsGrow ==
  ASSUME NEW fs, NEW rows, Claimed(fs, rows), NEW row,
         row.family \in FamilyIds \cup {None}
  PROVE  Claimed(fs, rows \cup {row})
BY DEF Claimed

(* A new family brings its own row or finds its identifier in quarantine.  *)
LEMMA NewClaim ==
  ASSUME NEW fs, NEW rows, Claimed(fs, rows), NEW f \in FamilyIds, NEW record, NEW row,
         row.family \in FamilyIds \cup {None}, row.alias = record.legacy,
         \/ row.status = "ambiguous"
         \/ row.status = "resolved" /\ row.family = f
  PROVE  Claimed([fs EXCEPT ![f] = record], rows \cup {row})
BY DEF Claimed

(* Two families that claim one identifier leave it without an answer.      *)
LEMMA ContestedNamesFail ==
  ASSUME Claimed(families, aliases), NEW f \in FamilyIds, NEW g \in FamilyIds,
         f # g, families[f].state = "active", families[g].state = "active",
         families[f].legacy = families[g].legacy
  PROVE  ~Resolves(families[f].legacy)
<1> DEFINE a == families[f].legacy
<1>1. AliasFamilies(a) \subseteq FamilyIds \cup {None}
  BY DEF Claimed, AliasFamilies, FamiliesNamed
<1>2. IsFiniteSet(FamilyIds \cup {None})
  <2>1. IsFiniteSet(FamilyIds) /\ IsFiniteSet({None})
    <3>1. IsFiniteSet(1..MaxFamily)
      BY BoundsAssumption, FS_Interval
    <3> QED BY <3>1, FS_Singleton DEF FamilyIds
  <2> QED BY <2>1, FS_Union
<1>3. IsFiniteSet(AliasFamilies(a))
  BY <1>1, <1>2, FS_Subset
<1>4. CASE Quarantined(aliases, a)
  <2>1. AliasFamilies(a) = {}
    BY <1>4 DEF AliasFamilies, FamiliesNamed
  <2> QED BY <2>1, FS_EmptySet DEF Resolves
<1>5. CASE ~Quarantined(aliases, a)
  <2>1. \A x \in {f, g} : \E row \in aliases :
          row.alias = a /\ row.status = "resolved" /\ row.family = x
    BY <1>5 DEF Claimed, Quarantined
  <2>2. {f, g} \subseteq AliasFamilies(a)
    BY <1>5, <2>1 DEF AliasFamilies, FamiliesNamed
  <2>3. Cardinality({f, g}) <= Cardinality(AliasFamilies(a))
    BY <1>3, <2>2, FS_Subset
  <2>4. Cardinality({f, g}) = 2
    <3>1. IsFiniteSet({f}) /\ Cardinality({f}) = 1
      BY FS_Singleton
    <3>2. Cardinality({f} \cup {g}) = Cardinality({f}) + 1
      BY <3>1, FS_AddElement
    <3>3. {f, g} = {f} \cup {g}
      OBVIOUS
    <3> QED BY <3>1, <3>2, <3>3
  <2> QED BY <2>3, <2>4 DEF Resolves
<1> QED BY <1>4, <1>5

(* A draft aims at the family that it was asked for, if at any.            *)
LEMMA SaveAims ==
  ASSUME Aimed(proposals), NEW q, Save(q), "target" \in DOMAIN q,
         q.target \in FamilyIds \cup {None}
  PROVE  Aimed(proposals)' /\ UNCHANGED <<families, aliases>>
<1>1. Min(FreeProposals) \in ProposalIds
  BY MinIsMember DEF Save, FreeProposals, ProposalIds
<1>2. proposals' = [proposals EXCEPT ![Min(FreeProposals)] = q]
  BY DEF Save
<1> HIDE DEF FreeProposals
<1>3. Aimed(proposals)'
  <2> DEFINE free == Min(FreeProposals)
  <2> HIDE DEF free
  <2>1. free \in ProposalIds /\ proposals' = [proposals EXCEPT ![free] = q]
    BY <1>1, <1>2 DEF free
  <2> QED BY <2>1 DEF Aimed
<1> QED BY <1>3 DEF Save, canonical

LEMMA ProposeAims ==
  ASSUME Aimed(proposals), Propose
  PROVE  Aimed(proposals)' /\ UNCHANGED <<families, aliases>>
<1> DEFINE Aims(q) == "target" \in DOMAIN q /\ q.target \in FamilyIds \cup {None}
<1>1. ASSUME NEW o, NEW who PROVE Aims(Draft(o, who))
  BY DEF Draft, NoProposal
<1>2. \E q : Save(q) /\ Aims(q)
  <2>1. PICK who \in Requesters :
          \/ \E c \in Contents, a \in LegacyIds \cup {NoAlias},
                k \in Keys \cup {NoKey} : ProposeCreate(c, a, k, who)
          \/ \E c \in Contents, a \in LegacyIds \cup {NoAlias}, t \in FamilyIds :
               ProposeCreateAndLink(c, a, t, who)
          \/ \E f \in FamilyIds, c \in Contents, k \in Keys \cup {NoKey} :
               ProposeUpdate(f, c, k, who)
          \/ \E f \in FamilyIds, r, s \in RevisionIds : ProposeRollback(f, r, s, who)
          \/ \E f \in FamilyIds, o \in StateChanges, t \in FamilyIds \cup {None} :
               ProposeStateChange(f, o, t, who)
          \/ \E f, t \in FamilyIds, type \in RelationTypes,
                prefix \in {"link", "relation"} : ProposeLink(f, t, type, prefix, who)
    BY DEF Propose
  <2>2. ASSUME NEW c, NEW a, NEW k, ProposeCreate(c, a, k, who)
        PROVE  \E q : Save(q) /\ Aims(q)
    <3> DEFINE q == [Draft("create", who) EXCEPT !.content = c, !.legacy = a, !.key = k]
    <3>1. Save(q)
      BY <2>2 DEF ProposeCreate
    <3>2. Aims(q)
      BY <1>1, <2>2
    <3> HIDE DEF q, Aims
    <3> QED BY <3>1, <3>2
  <2>3. ASSUME NEW c, NEW a, NEW t, ProposeCreateAndLink(c, a, t, who)
        PROVE  \E q : Save(q) /\ Aims(q)
    <3> DEFINE q == [Draft("create_and_link", who) EXCEPT
                      !.content = c, !.legacy = a, !.expected = {HeadPair(t)},
                      !.relation = "REFINES", !.relationTarget = t,
                      !.key = <<"create-and-link", t, c, a>>]
    <3>1. Save(q)
      BY <2>3 DEF ProposeCreateAndLink
    <3>2. Aims(q)
      BY <1>1, <2>3
    <3> HIDE DEF q, Aims
    <3> QED BY <3>1, <3>2
  <2>4. ASSUME NEW f \in FamilyIds, NEW c, NEW k, ProposeUpdate(f, c, k, who)
        PROVE  \E q : Save(q) /\ Aims(q)
    <3> DEFINE q == [Draft("update", who) EXCEPT
                      !.target = f, !.content = c, !.base = {heads[f].revision},
                      !.expected = {HeadPair(f)}, !.key = k]
    <3>1. Save(q)
      BY <2>4 DEF ProposeUpdate
    <3>2. Aims(q)
      BY <1>1, <2>4
    <3> HIDE DEF q, Aims
    <3> QED BY <3>1, <3>2
  <2>5. ASSUME NEW f \in FamilyIds, NEW r, NEW s, ProposeRollback(f, r, s, who)
        PROVE  \E q : Save(q) /\ Aims(q)
    <3> DEFINE q == [Draft("rollback", who) EXCEPT
                      !.target = f, !.content = revisions[s].content,
                      !.base = {r}, !.expected = {<<f, r>>}, !.restore = s]
    <3>1. Save(q)
      BY <2>5 DEF ProposeRollback
    <3>2. Aims(q)
      BY <1>1, <2>5
    <3> HIDE DEF q, Aims
    <3> QED BY <3>1, <3>2
  <2>6. ASSUME NEW f \in FamilyIds, NEW o, NEW t, ProposeStateChange(f, o, t, who)
        PROVE  \E q : Save(q) /\ Aims(q)
    <3> DEFINE content == [revisions[heads[f].revision].content EXCEPT !.to = now]
               seen == {HeadPair(f)} \cup (IF t # None THEN {HeadPair(t)} ELSE {})
               key == IF t # None THEN <<"deprecate", o, f, t>> ELSE NoKey
               q == [Draft(o, who) EXCEPT
                      !.target = f, !.content = content, !.base = {heads[f].revision},
                      !.expected = seen, !.replacement = t, !.key = key]
    <3>1. Save(q)
      BY <2>6 DEF ProposeStateChange
    <3>2. Aims(q)
      BY <1>1, <2>6
    <3> HIDE DEF q, Aims
    <3> QED BY <3>1, <3>2
  <2>7. ASSUME NEW f \in FamilyIds, NEW t \in FamilyIds, NEW type, NEW prefix,
               ProposeLink(f, t, type, prefix, who)
        PROVE  \E q : Save(q) /\ Aims(q)
    <3> DEFINE swapped == type = "RELATED_TO" /\ f > t
               from == IF swapped THEN t ELSE f
               to == IF swapped THEN f ELSE t
               key == IF prefix = "link" THEN <<"link", type, f, t>>
                      ELSE <<"relation", type, from, to>>
               q == [Draft("link", who) EXCEPT
                      !.target = from, !.expected = {HeadPair(from), HeadPair(to)},
                      !.relation = type, !.relationTarget = to, !.key = key]
    <3>1. Save(q)
      BY <2>7 DEF ProposeLink
    <3>2. from \in FamilyIds
      BY <2>7
    <3>3. Aims(q)
      <4> HIDE DEF from, to, key
      <4> QED BY <1>1, <3>2
    <3> HIDE DEF q, Aims
    <3> QED BY <3>1, <3>3
  <2> QED BY <2>1, <2>2, <2>3, <2>4, <2>5, <2>6, <2>7
<1> QED BY <1>2, SaveAims

LEMMA DecideAims ==
  ASSUME Aimed(proposals), Decide
  PROVE  Aimed(proposals)' /\ UNCHANGED <<families, aliases>>
<1>1. PICK p \in ProposalIds, status \in {"approved", "rejected", "expired", "stale"} :
        /\ proposals' = [proposals EXCEPT ![p].status = status]
        /\ UNCHANGED canonical
  BY DEF Decide, Approve, Reject, Expire, Stale
<1>2. proposals' = [proposals EXCEPT ![p] = [proposals[p] EXCEPT !.status = status]]
  BY <1>1
<1>3. "target" \in DOMAIN proposals'[p] /\ proposals'[p].target = proposals[p].target
  BY <1>2 DEF Aimed
<1> QED BY <1>1, <1>2, <1>3 DEF Aimed, canonical

LEMMA ConsumeAims ==
  ASSUME Aimed(proposals), NEW p \in ProposalIds, NEW r, Consume(p, r)
  PROVE  Aimed(proposals)'
<1>1. proposals' = [proposals EXCEPT ![p] =
        [proposals[p] EXCEPT !.status = "applied", !.appliedRevision = r]]
  BY DEF Consume, Aimed
<1>2. "target" \in DOMAIN proposals'[p] /\ proposals'[p].target = proposals[p].target
  BY <1>1 DEF Aimed
<1> QED BY <1>1, <1>2 DEF Aimed

LEMMA ApplyClaims ==
  ASSUME Claimed(families, aliases), Aimed(proposals), Apply
  PROVE  Claimed(families, aliases)' /\ Aimed(proposals)'
<1>1. PICK p \in ProposalIds : ApplyCreate(p) \/ ApplyRevise(p) \/ ApplyLink(p)
  BY DEF Apply
<1>2. CASE ApplyCreate(p)
  <2> DEFINE f == Min(FreeFamilies)
             a == IF proposals[p].legacy = NoAlias THEN f ELSE proposals[p].legacy
             family == [state |-> "active", legacy |-> a, mergedInto |-> None]
  <2>1. f \in FamilyIds
    BY <1>2, MinIsMember DEF ApplyCreate, FreeFamilies, FamilyIds
  <2>2. /\ families' = [families EXCEPT ![f] = family]
        /\ aliases' = aliases \cup {AliasRow(a, f)}
        /\ \E r : Consume(p, r)
    BY <1>2 DEF ApplyCreate, Publish, Commit
  <2>3. family.legacy = a
    OBVIOUS
  <2> HIDE DEF f, a, family
  <2>4. Claimed([families EXCEPT ![f] = family], aliases \cup {AliasRow(a, f)})
    BY <2>1, <2>3, NewClaim DEF AliasRow
  <2> QED BY <2>2, <2>4, ConsumeAims
<1>3. CASE ApplyRevise(p)
  <2> DEFINE f == proposals[p].target
  <2>1. /\ UNCHANGED families
        /\ aliases' = aliases \cup {AliasRow(families[f].legacy, f)}
        /\ \E r : Consume(p, r)
    BY <1>3 DEF ApplyRevise, Publish, Commit
  <2>2. f \in FamilyIds \cup {None}
    BY DEF Aimed
  <2>3. Claimed(families, aliases \cup {AliasRow(families[f].legacy, f)})
    BY <2>2, ClaimsGrow DEF AliasRow
  <2> QED BY <2>1, <2>3, ConsumeAims
<1>4. CASE ApplyLink(p)
  BY <1>4, ConsumeAims DEF ApplyLink
<1> QED BY <1>1, <1>2, <1>3, <1>4

(* A row that the migration adds is in quarantine or names the new family. *)
LEMMA ImportClaims ==
  ASSUME Claimed(families, aliases), ImportNew
  PROVE  Claimed(families, aliases)'
<1> DEFINE row == Head(plan).row
           f == Min(FreeFamilies)
           family == [state |-> "active", legacy |-> row.legacy, mergedInto |-> None]
           alias == ImportAlias(f, Head(plan))
<1>1. f \in FamilyIds
  <2>1. FreeFamilies # {} /\ FreeFamilies \subseteq Nat
    BY DEF ImportNew, FreeFamilies, FamilyIds
  <2>2. Min(FreeFamilies) \in FreeFamilies
    BY <2>1, MinIsMember
  <2> QED BY <2>2 DEF FreeFamilies
<1>2. families' = [families EXCEPT ![f] = family] /\ aliases' = aliases \cup {alias}
  BY DEF ImportNew
<1>3. /\ alias.family \in FamilyIds \cup {None} /\ alias.alias = family.legacy
      /\ \/ alias.status = "ambiguous"
         \/ alias.status = "resolved" /\ alias.family = f
  BY <1>1 DEF ImportAlias, AliasRow
<1> HIDE DEF f, family, alias
<1>4. Claimed([families EXCEPT ![f] = family], aliases \cup {alias})
  BY <1>1, <1>3, NewClaim
<1> QED BY <1>2, <1>4

LEMMA IdentifiersKept ==
  ASSUME Identifiers, [IntakeNext]_vars
  PROVE  Identifiers'
<1> USE DEF Identifiers
<1>1. ASSUME Claimed(families, aliases)', Aimed(proposals)', UNCHANGED snapshot
      PROVE  Identifiers'
  BY <1>1 DEF Claimed, Aimed
<1>2. CASE Next /\ UNCHANGED intakeVars
  <2>1. UNCHANGED snapshot
    BY <1>2 DEF intakeVars
  <2>2. CASE Tick
    BY <1>1, <2>1, <2>2 DEF Tick, canonical
  <2>3. CASE Propose
    BY <1>1, <2>1, <2>3, ProposeAims
  <2>4. CASE Decide
    BY <1>1, <2>1, <2>4, DecideAims
  <2>5. CASE Apply
    BY <1>1, <2>1, <2>5, ApplyClaims
  <2> QED BY <1>2, <2>2, <2>3, <2>4, <2>5 DEF Next
<1>3. CASE Migrate
  <2>1. CASE ImportNew
    <3>1. UNCHANGED <<proposals, snapshot>>
      BY <2>1 DEF ImportNew
    <3> QED BY <1>1, <2>1, <3>1, ImportClaims
  <2>2. CASE ~ImportNew
    <3>1. UNCHANGED <<families, aliases, proposals, snapshot>>
      BY <1>3, <2>2 DEF Migrate, PlanMigration, ImportKnown, ImportRefused, ledgerVars
    <3> QED BY <1>1, <3>1
  <2> QED BY <2>1, <2>2
<1>4. CASE Observe \/ UNCHANGED vars
  <2>1. UNCHANGED <<families, aliases, proposals, snapshot>>
    BY <1>4 DEF Observe, ReadUsage, RecordUsage, ledgerVars, vars, intakeVars
  <2> QED BY <1>1, <2>1
<1>5. CASE SaveSnapshot
  <2>1. UNCHANGED <<families, aliases, proposals>> /\ snapshot' = {Saved}
    BY <1>5 DEF SaveSnapshot, ledgerVars
  <2>2. /\ Saved.families = families /\ Saved.aliases = aliases
        /\ Saved.proposals = proposals
    BY DEF Saved
  <2> QED BY <2>1, <2>2
<1>6. CASE Restore
  <2>1. PICK s \in snapshot : /\ families' = s.families /\ aliases' = s.aliases
                              /\ proposals' = s.proposals /\ snapshot' = {}
    BY <1>6 DEF Restore
  <2> QED BY <2>1
<1> QED BY <1>2, <1>3, <1>4, <1>5, <1>6 DEF IntakeNext

(* An identifier that two memories claim names neither of them, however    *)
(* many migrations and creations are applied, in whichever order, and      *)
(* whatever a restore brings back.                                         *)
THEOREM ClaimsAreContested == IntakeSpec => []ContestedIdentifiersDoNotResolve
<1>1. IntakeInit => Identifiers
  <2> SUFFICES ASSUME IntakeInit PROVE Identifiers
    OBVIOUS
  <2>1. Claimed(families, aliases)
    BY DEF IntakeInit, Init, Claimed, NoFamily
  <2>2. Aimed(proposals)
    BY DEF IntakeInit, Init, Aimed, NoProposal
  <2> QED BY <2>1, <2>2 DEF IntakeInit, Identifiers
<1>2. Identifiers => ContestedIdentifiersDoNotResolve
  <2> SUFFICES ASSUME Identifiers, NEW a \in LegacyIds,
                      Cardinality({f \in FamilyIds : families[f].state = "active"
                                     /\ families[f].legacy = a}) > 1
               PROVE  ~Resolves(a)
    BY DEF ContestedIdentifiersDoNotResolve
  <2> DEFINE claim == {f \in FamilyIds : families[f].state = "active"
                                           /\ families[f].legacy = a}
  <2>1. \E f, g \in claim : f # g
    <3> HIDE DEF claim
    <3>1. ~(Cardinality({}) > 1) /\ \A x : ~(Cardinality({x}) > 1)
      <4>1. Cardinality({}) = 0
        BY FS_EmptySet
      <4>2. ASSUME NEW x PROVE Cardinality({x}) = 1
        BY FS_Singleton
      <4> QED BY <4>1, <4>2
    <3>2. Cardinality(claim) > 1
      BY DEF claim
    <3>3. claim # {} /\ \A x : claim # {x}
      BY <3>1, <3>2
    <3> QED BY <3>3
  <2>2. PICK f \in FamilyIds, g \in FamilyIds :
          /\ f # g /\ families[f].state = "active" /\ families[g].state = "active"
          /\ families[f].legacy = a /\ families[g].legacy = a
    BY <2>1
  <2>3. ~Resolves(families[f].legacy)
    BY <2>2, ContestedNamesFail DEF Identifiers
  <2> QED BY <2>2, <2>3
<1> QED BY <1>1, <1>2, IdentifiersKept, PTL DEF IntakeSpec
-----------------------------------------------------------------------------
(* The backfill: usages.                                                   *)

(* A list of observations without a key twice.                             *)
Counted(rows) ==
  /\ \E S : rows \in Seq(S)
  /\ \A i, j \in DOMAIN rows : rows[i].key = rows[j].key => i = j

Usages ==
  /\ Counted(usages)
  /\ usageIndex = IndexOf(usages)
  /\ \A s \in snapshot : Counted(s.usages)

LEMMA CountAnother ==
  ASSUME NEW rows, NEW row, Counted(rows), row.key \notin IndexOf(rows)
  PROVE  /\ Counted(Append(rows, row))
         /\ IndexOf(Append(rows, row)) = IndexOf(rows) \cup {row.key}
<1>1. PICK S : rows \in Seq(S)
  BY DEF Counted
<1>2. PICK T : T = S \cup {row}
  OBVIOUS
<1>3. rows \in Seq(T) /\ row \in T
  BY <1>1, <1>2
<1>4. /\ Append(rows, row) \in Seq(T)
      /\ DOMAIN Append(rows, row) = DOMAIN rows \cup {Len(rows) + 1}
      /\ DOMAIN rows = 1..Len(rows) /\ Len(rows) \in Nat
      /\ \A i \in DOMAIN rows : Append(rows, row)[i] = rows[i]
      /\ Append(rows, row)[Len(rows) + 1] = row
  BY <1>3
<1>5. PICK longer, last : longer = Append(rows, row) /\ last = Len(rows) + 1
  OBVIOUS
<1>6. /\ longer \in Seq(T) /\ DOMAIN longer = DOMAIN rows \cup {last}
      /\ last \notin DOMAIN rows
      /\ \A i \in DOMAIN rows : longer[i] = rows[i]
      /\ longer[last] = row
  BY <1>4, <1>5
<1>7. \A i \in DOMAIN rows : rows[i].key # row.key
  BY DEF IndexOf
<1>8. Counted(longer)
  BY <1>6, <1>7 DEF Counted
<1>9. IndexOf(longer) = IndexOf(rows) \cup {row.key}
  BY <1>6 DEF IndexOf
<1> QED BY <1>5, <1>8, <1>9

LEMMA UsagesKept ==
  ASSUME Usages, [IntakeNext]_vars
  PROVE  Usages'
<1> USE DEF Usages
<1>1. ASSUME UNCHANGED <<usages, usageIndex, snapshot>> PROVE Usages'
  BY <1>1 DEF IndexOf, Counted
<1>2. CASE (Next /\ UNCHANGED intakeVars) \/ Migrate \/ UNCHANGED vars
  BY <1>1, <1>2 DEF intakeVars, vars, Migrate, PlanMigration, ImportKnown, ImportRefused,
     ImportNew
<1>3. CASE RecordUsage
  <2>1. CASE usages' = usages /\ usageIndex' = usageIndex
    BY <1>1, <1>3, <2>1 DEF RecordUsage
  <2>2. CASE /\ reading.key \notin usageIndex
             /\ usages' = Append(usages, reading)
             /\ usageIndex' = usageIndex \cup {reading.key}
    <3>1. UNCHANGED snapshot
      BY <1>3 DEF RecordUsage
    <3>2. /\ Counted(Append(usages, reading))
          /\ IndexOf(Append(usages, reading)) = IndexOf(usages) \cup {reading.key}
      BY <2>2, CountAnother
    <3> QED BY <2>2, <3>1, <3>2
  <2> QED BY <1>3, <2>1, <2>2 DEF RecordUsage
<1>4. CASE Observe /\ ~RecordUsage
  BY <1>1, <1>4 DEF Observe, ReadUsage
<1>5. CASE SaveSnapshot
  <2>1. UNCHANGED <<usages, usageIndex>> /\ snapshot' = {Saved}
    BY <1>5 DEF SaveSnapshot
  <2>2. Saved.usages = usages
    BY DEF Saved
  <2> QED BY <2>1, <2>2
<1>6. CASE Restore
  BY <1>6 DEF Restore
<1> QED BY <1>2, <1>3, <1>4, <1>5, <1>6 DEF IntakeNext

(* A usage is counted once however often it is reported, also when the     *)
(* ledger has been restored from a snapshot between two reports.           *)
THEOREM UsagesAreCountedOnce == IntakeSpec => []UsageCountedOnce
<1>1. IntakeInit => Usages
  <2> SUFFICES ASSUME IntakeInit PROVE Usages
    OBVIOUS
  <2>1. usages = <<>> /\ usages \in Seq({}) /\ DOMAIN usages = {}
    BY DEF IntakeInit
  <2> QED BY <2>1 DEF IntakeInit, Usages, Counted, IndexOf
<1>2. Usages => UsageCountedOnce
  BY DEF Usages, Counted, UsageCountedOnce
<1> QED BY <1>1, <1>2, UsagesKept, PTL DEF IntakeSpec
-----------------------------------------------------------------------------
(* Captures.                                                               *)

HookRecords ==
  [phase: {"idle", "work", "persist"}, source: Sources, todo: Seq(Candidates),
   action: [kind: {"none", "update", "refine", "create"},
            related: LegacyIds \cup {NoAlias}],
   open: BOOLEAN]

(* A capture that has something to persist has its candidate.              *)
HookTypes ==
  /\ hooks \in [Hooks -> HookRecords]
  /\ \A h \in Hooks : hooks[h].phase = "persist" => hooks[h].todo # <<>>
  /\ index \subseteq LegacyIds

KeysAreUnique ==
  \A p, q \in ProposalIds :
    proposals[p].key = proposals[q].key /\ proposals[p].key # NoKey => p = q

(* An identifier in the alias table is the one of the family it names.     *)
RowsNameTheirFamilies ==
  \A row \in aliases : /\ families[row.family].state = "active"
                       /\ families[row.family].legacy = row.alias

(* What a proposal that a capture made says of the identifier it is for.   *)
CaptureTerms(q, id) ==
  /\ id \in LegacyIds
  /\ q.operation \in Creations \cup {"update"}
  /\ q.operation \in Creations => q.legacy = id
  /\ q.operation = "update" =>
       /\ q.target \in FamilyIds
       /\ families[q.target].state = "active"
       /\ families[q.target].legacy = id

OriginOK(p) ==
  /\ proposals[p].operation # "none"
  /\ CaptureTerms(proposals[p], origins[p].id)
  /\ origins[p].source \in Sources
  /\ origins[p].source \in Commits =>
       proposals[p].key = <<"post-commit", origins[p].source, origins[p].id>>

OriginsAreTold ==
  /\ DOMAIN origins = ProposalIds
  /\ \A p \in ProposalIds : origins[p] # NoOrigin => OriginOK(p)

Captures ==
  /\ Inductive
  /\ HookTypes
  /\ KeysAreUnique
  /\ RowsNameTheirFamilies
  /\ OriginsAreTold
  /\ NeverOverwritesAnother

(* An identifier that resolves names a family of its own.                  *)
LEMMA NamedFamily ==
  ASSUME Inductive, RowsNameTheirFamilies, NEW a, Resolves(a)
  PROVE  /\ Named(a) \in FamilyIds /\ families[Named(a)].state = "active"
         /\ families[Named(a)].legacy = a
<1>1. AliasFamilies(a) # {}
  BY FS_EmptySet DEF Resolves
<1>2. Named(a) \in AliasFamilies(a)
  BY <1>1 DEF Named, AliasFamily
<1>3. PICK row \in aliases : row.alias = a /\ row.family = Named(a)
  BY <1>2 DEF AliasFamilies, FamiliesNamed
<1> QED BY <1>3 DEF Inductive, TypeOK, AliasRows, RowsNameTheirFamilies

(* A step that changes neither what is published nor the terms of a        *)
(* proposal.                                                               *)
LEMMA CaptureUntouched ==
  ASSUME Captures, Inductive', HookTypes',
         UNCHANGED <<families, revisions, aliases, origins>>,
         \A p \in ProposalIds : Terms(proposals'[p]) = Terms(proposals[p])
  PROVE  Captures'
<1>1. \A p \in ProposalIds : /\ proposals'[p].operation = proposals[p].operation
                             /\ proposals'[p].target = proposals[p].target
                             /\ proposals'[p].legacy = proposals[p].legacy
                             /\ proposals'[p].key = proposals[p].key
  BY DEF Terms
<1>2. KeysAreUnique'
  BY <1>1 DEF Captures, KeysAreUnique
<1>3. RowsNameTheirFamilies'
  BY DEF Captures, RowsNameTheirFamilies
<1>4. OriginsAreTold'
  BY <1>1 DEF Captures, OriginsAreTold, OriginOK, CaptureTerms
<1>5. NeverOverwritesAnother'
  BY DEF Captures, NeverOverwritesAnother, Published
<1> QED BY <1>2, <1>3, <1>4, <1>5 DEF Captures

(* A proposal that is saved, by a capture (source and id say which one) or *)
(* by another client.                                                      *)
LEMMA CaptureSaves ==
  ASSUME Captures, Inductive', HookTypes', NEW q \in Proposals, WellFormed(q),
         q.status = "pending_approval", Save(q),
         \/ UNCHANGED origins
         \/ \E source \in Sources, id \in LegacyIds :
              /\ origins' = [origins EXCEPT ![Min(FreeProposals)] =
                               [source |-> source, id |-> id]]
              /\ CaptureTerms(q, id)
              /\ source \in Commits => q.key = <<"post-commit", source, id>>
  PROVE  Captures'
<1>1. PICK free : free = Min(FreeProposals)
  OBVIOUS
<1>2. free \in ProposalIds /\ proposals[free].status = "none"
  <2>1. Min(FreeProposals) \in FreeProposals
    BY MinIsMember DEF Save, FreeProposals, ProposalIds
  <2> QED BY <1>1, <2>1 DEF FreeProposals
<1>3. /\ proposals' = [proposals EXCEPT ![free] = q]
      /\ proposals \in [ProposalIds -> Proposals]
      /\ UNCHANGED <<families, revisions, aliases>> /\ KeyUnused(q.key)
  BY <1>1 DEF Save, canonical, Captures, Inductive, TypeOK
<1>4. proposals'[free] = q /\ \A p \in ProposalIds \ {free} : proposals'[p] = proposals[p]
  BY <1>2, <1>3
<1>5. KeysAreUnique'
  BY <1>2, <1>3, <1>4 DEF Captures, KeysAreUnique, KeyUnused
<1>6. RowsNameTheirFamilies'
  BY <1>3 DEF Captures, RowsNameTheirFamilies
<1>7. proposals[free].operation = "none"
  BY <1>2 DEF Captures, Inductive, PreviewsAreWellFormed, WellFormed
<1>8. origins[free] = NoOrigin
  BY <1>2, <1>7 DEF Captures, OriginsAreTold, OriginOK
<1>9. /\ DOMAIN origins' = ProposalIds
      /\ \A p \in ProposalIds \ {free} : origins'[p] = origins[p]
  BY <1>1 DEF Captures, OriginsAreTold
<1>10. origins'[free] # NoOrigin => OriginOK(free)'
  <2>1. CASE UNCHANGED origins
    BY <1>8, <2>1
  <2>2. ASSUME NEW source \in Sources, NEW id \in LegacyIds,
               origins' = [origins EXCEPT ![free] = [source |-> source, id |-> id]],
               CaptureTerms(q, id),
               source \in Commits => q.key = <<"post-commit", source, id>>
        PROVE  OriginOK(free)'
    <3>1. origins'[free].source = source /\ origins'[free].id = id
      BY <1>2, <2>2 DEF Captures, OriginsAreTold
    <3>2. CaptureTerms(proposals[free], id)'
      BY <1>3, <1>4, <2>2 DEF CaptureTerms
    <3>3. q.operation # "none"
      BY <2>2 DEF CaptureTerms, Creations
    <3> QED BY <1>4, <2>2, <3>1, <3>2, <3>3 DEF OriginOK
  <2> QED BY <1>1, <2>1, <2>2
<1>11. ASSUME NEW p \in ProposalIds \ {free}, origins'[p] # NoOrigin
       PROVE  OriginOK(p)'
  BY <1>3, <1>4, <1>9, <1>11 DEF Captures, OriginsAreTold, OriginOK, CaptureTerms
<1>12. OriginsAreTold'
  BY <1>9, <1>10, <1>11 DEF OriginsAreTold
<1>13. NeverOverwritesAnother'
  <2> SUFFICES ASSUME NEW r \in RevisionIds, Published(r), origins'[revisions[r].proposal] # NoOrigin
               PROVE  families[revisions[r].family].legacy = origins'[revisions[r].proposal].id
    BY <1>3 DEF NeverOverwritesAnother, Published
  <2>1. /\ revisions[r].proposal \in ProposalIds
        /\ proposals[revisions[r].proposal].status = "applied"
    BY DEF Captures, Inductive, RevisionsHaveOrigins, Authorized
  <2>2. origins'[revisions[r].proposal] = origins[revisions[r].proposal]
    BY <1>2, <1>9, <2>1
  <2> QED BY <2>2 DEF Captures, NeverOverwritesAnother
<1> QED BY <1>5, <1>6, <1>12, <1>13 DEF Captures

LEMMA CaptureNextSteps ==
  ASSUME Captures, [Next]_ledgerVars, UNCHANGED captureVars
  PROVE  Captures'
<1>1. Inductive /\ Inductive'
  BY NextInductive DEF Captures
<1>2. HookTypes' /\ UNCHANGED origins
  BY DEF Captures, HookTypes, captureVars
<1>3. CASE \E q \in Proposals : Drafted(q) /\ Save(q)
  BY <1>1, <1>2, <1>3, CaptureSaves DEF Drafted
<1>4. CASE \A p \in ProposalIds : Terms(proposals'[p]) = Terms(proposals[p])
  <2>1. CASE WorkflowStep \/ \E p \in ProposalIds : ApplyLink(p)
    <3>1. UNCHANGED <<families, revisions, aliases>>
      BY <2>1 DEF WorkflowStep, ApplyLink, canonical
    <3> QED BY <1>1, <1>2, <1>4, <3>1, CaptureUntouched
  <2>2. ASSUME NEW x \in ProposalIds, NEW f \in FamilyIds, NEW a \in AliasNames,
               NEW new \in RevisionIds, PublicationStep(x, f, a, new)
        PROVE  Captures'
    <3>1. /\ Committed(x, f, new) /\ NamesFamily(x, f, a)
          /\ aliases' = aliases \cup {AliasRow(a, f)}
          /\ proposals[x].operation \in Creations \cup Revising
          /\ proposals[x].operation \in Revising => f = proposals[x].target
          /\ proposals[x].operation \in Creations => families[f].state = "none"
      BY <2>2 DEF PublicationStep
    <3>2. /\ families'[f].state = "active" /\ families'[f].legacy = a
          /\ \A g \in FamilyIds : families[g].state = "active" => families'[g].state = "active"
          /\ \A g \in FamilyIds \ {f} : families'[g] = families[g]
      BY <3>1 DEF Committed, NamesFamily
    <3>3. \A g \in FamilyIds : families[g].state = "active" =>
            families'[g].legacy = families[g].legacy
      <4>1. CASE proposals[x].operation \in Revising
        BY <3>1, <4>1 DEF NamesFamily
      <4>2. CASE proposals[x].operation \in Creations
        BY <3>1, <3>2, <4>2
      <4> QED BY <3>1, <4>1, <4>2
    <3>4. aliases \subseteq AliasRows
      BY <1>1 DEF Inductive, TypeOK
    <3>5. RowsNameTheirFamilies'
      <4>1. ASSUME NEW row \in aliases
            PROVE  families'[row.family].state = "active"
                     /\ families'[row.family].legacy = row.alias
        <5>1. row.family \in FamilyIds
          BY <3>4 DEF AliasRows
        <5> QED BY <3>2, <3>3, <5>1 DEF Captures, RowsNameTheirFamilies
      <4>2. AliasRow(a, f).family = f /\ AliasRow(a, f).alias = a
        BY DEF AliasRow
      <4> QED BY <3>1, <3>2, <4>1, <4>2 DEF RowsNameTheirFamilies
    <3>6. \A p \in ProposalIds : /\ proposals'[p].operation = proposals[p].operation
                                 /\ proposals'[p].target = proposals[p].target
                                 /\ proposals'[p].legacy = proposals[p].legacy
                                 /\ proposals'[p].key = proposals[p].key
      BY <1>4 DEF Terms
    <3>7. KeysAreUnique'
      BY <3>6 DEF Captures, KeysAreUnique
    <3>8. OriginsAreTold'
      BY <1>2, <3>2, <3>3, <3>6 DEF Captures, OriginsAreTold, OriginOK, CaptureTerms
    <3>9. NeverOverwritesAnother'
      <4> SUFFICES ASSUME NEW r \in RevisionIds, Published(r)',
                          origins[revisions'[r].proposal] # NoOrigin
                   PROVE  families'[revisions'[r].family].legacy
                            = origins[revisions'[r].proposal].id
        BY <1>2 DEF NeverOverwritesAnother
      <4>1. CASE r = new
        <5>1. revisions'[r].proposal = x /\ revisions'[r].family = f
          BY <1>1, <3>1, <4>1, RevisionsAfter
        <5>2. OriginOK(x)
          BY <5>1 DEF Captures, OriginsAreTold
        <5>3. CASE proposals[x].operation \in Creations
          <6>1. proposals[x].legacy = origins[x].id /\ origins[x].id \in LegacyIds
            BY <5>2, <5>3 DEF OriginOK, CaptureTerms
          <6>2. proposals[x].legacy \in {NoAlias, a}
            BY <3>1, <5>3 DEF NamesFamily
          <6>3. origins[x].id # NoAlias
            BY <6>1, AliasAssumption DEF AliasNames
          <6> QED BY <3>2, <5>1, <6>1, <6>2, <6>3
        <5>4. CASE proposals[x].operation = "update"
          <6>1. f = proposals[x].target
            BY <3>1, <5>4 DEF Revising
          <6>2. families[f].state = "active" /\ families[f].legacy = origins[x].id
            BY <5>2, <5>4, <6>1 DEF OriginOK, CaptureTerms
          <6> QED BY <3>3, <5>1, <6>2
        <5> QED BY <5>2, <5>3, <5>4 DEF OriginOK, CaptureTerms
      <4>2. CASE r # new
        <5>1. /\ Published(r) /\ revisions'[r].proposal = revisions[r].proposal
              /\ revisions'[r].family = revisions[r].family
          BY <1>1, <3>1, <4>2, RevisionsAfter
        <5>2. /\ revisions[r].family \in FamilyIds
              /\ families[revisions[r].family].state = "active"
          BY <1>1, <5>1 DEF Inductive, RevisionsHaveOrigins
        <5>3. families[revisions[r].family].legacy = origins[revisions[r].proposal].id
          BY <5>1 DEF Captures, NeverOverwritesAnother
        <5> QED BY <3>3, <5>1, <5>2, <5>3
      <4> QED BY <4>1, <4>2
    <3> QED BY <1>1, <1>2, <3>5, <3>7, <3>8, <3>9 DEF Captures
  <2> QED BY <1>1, <2>1, <2>2, StepCases
<1> QED BY <1>1, <1>3, <1>4, TermsChange

LEMMA AdmissionTypes ==
  ASSUME index \subseteq LegacyIds, NEW c \in Candidates, NEW action \in Admissions(c)
  PROVE  action \in [kind: {"none", "update", "refine", "create"},
                     related: LegacyIds \cup {NoAlias}]
<1>1. CASE Matches(c.id) # {}
  <2>1. PICK a \in Matches(c.id) :
          action = IF a = c.id THEN [kind |-> "update", related |-> NoAlias]
                   ELSE [kind |-> "refine", related |-> a]
    BY <1>1 DEF Admissions
  <2>2. a \in LegacyIds
    BY DEF Matches
  <2> QED BY <2>1, <2>2
<1>2. CASE Matches(c.id) = {}
  <2>1. action \in {[kind |-> "create", related |-> NoAlias],
                    [kind |-> "none", related |-> NoAlias]}
    BY <1>2 DEF Admissions, NoAction
  <2> QED BY <2>1
<1> QED BY <1>1, <1>2

(* What a capture drafts is a creation under its own identifier, or a      *)
(* revision of the memory that the identifier names alone.                 *)
LEMMA PreviewDrafts ==
  ASSUME Inductive, RowsNameTheirFamilies, NEW c \in Candidates, NEW action,
         NEW key \in Keys \cup {NoKey}, NEW who \in Requesters, Proposable(c, action, key)
  PROVE  LET q == Preview(c, action, key, who)
         IN /\ q \in Proposals /\ WellFormed(q) /\ q.status = "pending_approval"
            /\ CaptureTerms(q, c.id) /\ q.key = key
<1>1. /\ c.id \in LegacyIds /\ c.content \in ContentType /\ key \in KeyType
      /\ c.id \in LegacyOrNone
  BY CaptureAssumption, ContentAssumption DEF LegacyOrNone, KeyType
<1>2. TypeOK
  BY DEF Inductive
<1>3. ASSUME NEW a, ActiveHead(a)
      PROVE  /\ Named(a) \in FamilyIds /\ families[Named(a)].state = "active"
             /\ families[Named(a)].legacy = a
             /\ HeadPair(Named(a)) = <<Named(a), heads[Named(a)].revision>>
             /\ heads[Named(a)].revision \in RevisionIds
  BY <1>2, <1>3, NamedFamily, HeadPairType DEF ActiveHead
<1>4. CASE Updates(c, action)
  <2> DEFINE f == Named(c.id)
             q == Update(f, c, key, who)
  <2>1. Preview(c, action, key, who) = q
    BY <1>4 DEF Preview, Addressed
  <2>2. /\ f \in FamilyIds /\ families[f].state = "active" /\ families[f].legacy = c.id
        /\ HeadPair(f) = <<f, heads[f].revision>> /\ heads[f].revision \in RevisionIds
    BY <1>3, <1>4 DEF Proposable, Addressed
  <2> HIDE DEF f
  <2>3. q \in Proposals
    <3>1. Draft("update", who) \in Proposals
      BY <1>2, DraftType DEF OperationNames, Revising
    <3>2. /\ f \in FamilyOrNone
          /\ {heads[f].revision} \in RevisionSets /\ {HeadPair(f)} \in HeadSets
      BY <2>2 DEF FamilyOrNone, RevisionSets, HeadSets
    <3> QED BY <1>1, <3>1, <3>2 DEF Update, Proposals
  <2>4. WellFormed(q) /\ q.status = "pending_approval" /\ q.key = key
    BY <2>2 DEF WellFormed, Update, Draft, NoProposal, Creations, Revising, StateChanges
  <2>5. CaptureTerms(q, c.id)
    BY <1>1, <2>2 DEF CaptureTerms, Update, Draft, NoProposal, Creations
  <2> HIDE DEF q
  <2> QED BY <2>1, <2>3, <2>4, <2>5
<1>5. CASE ~Updates(c, action) /\ action.kind = "refine"
  <2> DEFINE t == Named(action.related)
             q == RefinementOf(t, c, key, who)
  <2>1. Preview(c, action, key, who) = q
    BY <1>5 DEF Preview
  <2>2. /\ t \in FamilyIds
        /\ HeadPair(t) = <<t, heads[t].revision>> /\ heads[t].revision \in RevisionIds
    BY <1>3, <1>5 DEF Proposable
  <2> HIDE DEF t
  <2>3. q \in Proposals
    <3>1. Draft("create_and_link", who) \in Proposals
      BY <1>2, DraftType DEF OperationNames, Creations
    <3>2. t \in FamilyOrNone /\ "REFINES" \in RelationOrNone /\ {HeadPair(t)} \in HeadSets
      BY <2>2 DEF FamilyOrNone, RelationOrNone, HeadSets
    <3> QED BY <1>1, <3>1, <3>2 DEF RefinementOf, Proposals
  <2>4. WellFormed(q) /\ q.status = "pending_approval" /\ q.key = key
    <3>1. Frozen(q, t)
      BY <2>2 DEF Frozen, RefinementOf, Draft, NoProposal
    <3> QED BY <3>1 DEF WellFormed, RefinementOf, Draft, NoProposal, Creations, Revising,
              StateChanges
  <2>5. CaptureTerms(q, c.id)
    BY <1>1 DEF CaptureTerms, RefinementOf, Draft, NoProposal, Creations
  <2> HIDE DEF q
  <2> QED BY <2>1, <2>3, <2>4, <2>5
<1>6. CASE ~Updates(c, action) /\ action.kind # "refine"
  <2> DEFINE q == Creation(c, key, who)
  <2>1. Preview(c, action, key, who) = q
    BY <1>6 DEF Preview
  <2>2. q \in Proposals
    <3>1. Draft("create", who) \in Proposals
      BY <1>2, DraftType DEF OperationNames, Creations
    <3> QED BY <1>1, <3>1 DEF Creation, Proposals
  <2>3. WellFormed(q) /\ q.status = "pending_approval" /\ q.key = key
    BY DEF WellFormed, Creation, Draft, NoProposal, Creations, Revising, StateChanges
  <2>4. CaptureTerms(q, c.id)
    BY <1>1 DEF CaptureTerms, Creation, Draft, NoProposal, Creations
  <2> HIDE DEF q
  <2> QED BY <2>1, <2>2, <2>3, <2>4
<1> QED BY <1>4, <1>5, <1>6

LEMMA PersistKeeps ==
  ASSUME Captures, NEW h \in Hooks, Persist(h)
  PROVE  Captures'
<1> DEFINE hook == hooks[h]
<1>1. /\ hook \in HookRecords /\ hook.todo # <<>> /\ hooks \in [Hooks -> HookRecords]
      /\ index \subseteq LegacyIds /\ Inductive
  BY DEF Captures, HookTypes, Persist
<1>2. PICK c \in Candidates : c = Head(hook.todo)
  BY <1>1 DEF HookRecords
<1>3. PICK key \in Keys \cup {NoKey} : key = KeyOf(hook.source, c)
  BY <1>1, CaptureKeysAssumption DEF HookRecords
<1>4. PICK who \in Requesters : who = CHOOSE r \in Requesters : TRUE
  BY CaptureKeysAssumption
<1>5. HookTypes'
  <2> DEFINE done == [hook EXCEPT !.phase = "work", !.todo = Tail(@), !.action = NoAction,
                                  !.open = TRUE]
  <2>1. hooks' = [hooks EXCEPT ![h] = done] /\ UNCHANGED index
    BY DEF Persist, Settle, Set
  <2>2. Tail(hook.todo) \in Seq(Candidates)
    BY <1>1 DEF HookRecords
  <2>3. done \in HookRecords /\ done.phase = "work"
    BY <1>1, <2>2 DEF HookRecords, NoAction
  <2> HIDE DEF done
  <2> QED BY <1>1, <2>1, <2>3 DEF HookTypes, Captures
<1>6. CASE UNCHANGED <<ledgerVars, origins>>
  <2>1. UNCHANGED <<families, revisions, aliases, origins, proposals>>
    BY <1>6 DEF ledgerVars
  <2>2. Inductive'
    BY <1>1, <1>6, StutterInductive
  <2> QED BY <1>5, <2>1, <2>2, CaptureUntouched
<1>7. CASE /\ Proposable(c, hook.action, key)
           /\ origins' = [origins EXCEPT ![Min(FreeProposals)] =
                            [source |-> hook.source, id |-> c.id]]
           /\ Save(Preview(c, hook.action, key, who))
  <2>1. PICK q : q = Preview(c, hook.action, key, who)
    OBVIOUS
  <2>2. /\ q \in Proposals /\ WellFormed(q) /\ q.status = "pending_approval"
        /\ CaptureTerms(q, c.id) /\ q.key = key /\ Save(q)
    BY <1>1, <1>7, <2>1, PreviewDrafts DEF Captures
  <2>3. Inductive'
    BY <1>1, <2>2, SaveInductive
  <2>4. c.id \in LegacyIds /\ hook.source \in Sources
    BY <1>1, CaptureAssumption DEF HookRecords
  <2>5. hook.source \in Commits => q.key = <<"post-commit", hook.source, c.id>>
    BY <1>3, <2>2, CaptureAssumption DEF KeyOf
  <2> QED BY <1>5, <1>7, <2>2, <2>3, <2>4, <2>5, CaptureSaves
<1> QED BY <1>2, <1>3, <1>4, <1>6, <1>7 DEF Persist

(* The other steps of a capture leave the ledger alone.                    *)
LEMMA HookKeeps ==
  ASSUME Captures, NEW h \in Hooks, Work(h), ~Persist(h)
  PROVE  HookTypes' /\ UNCHANGED <<ledgerVars, origins>>
<1>1. /\ hooks \in [Hooks -> HookRecords] /\ hooks[h] \in HookRecords
      /\ index \subseteq LegacyIds
      /\ \A x \in Hooks : hooks[x].phase = "persist" => hooks[x].todo # <<>>
  BY DEF Captures, HookTypes
<1>2. ASSUME NEW x \in HookRecords, Set(h, x), x.phase = "persist" => x.todo # <<>>,
             UNCHANGED index
      PROVE  HookTypes'
  BY <1>1, <1>2 DEF HookTypes, Set
<1>3. IdleHook \in HookRecords
  <2>1. <<>> \in Seq(Candidates)
    OBVIOUS
  <2> QED BY <2>1 DEF IdleHook, HookRecords, NoAction, Sources
<1>4. CASE \E source \in Sources : Begin(h, source)
  <2>1. PICK source \in Sources, batch \in Extractions :
          Set(h, [IdleHook EXCEPT !.phase = "work", !.source = source, !.todo = batch])
    BY <1>4 DEF Begin
  <2>2. batch \in Seq(Candidates)
    BY CaptureAssumption
  <2>3. [IdleHook EXCEPT !.phase = "work", !.source = source, !.todo = batch] \in HookRecords
    BY <1>3, <2>2 DEF HookRecords
  <2>4. UNCHANGED <<ledgerVars, index, origins>>
    BY <1>4 DEF Begin
  <2>5. PICK x \in HookRecords : Set(h, x) /\ x.phase = "work"
    <3> DEFINE x == [IdleHook EXCEPT !.phase = "work", !.source = source, !.todo = batch]
    <3>1. x.phase = "work"
      BY DEF IdleHook
    <3> HIDE DEF x
    <3> QED BY <2>1, <2>3, <3>1 DEF x
  <2> QED BY <1>2, <2>4, <2>5
<1>5. CASE Admit(h)
  <2>1. PICK action \in Admissions(Head(hooks[h].todo)) :
          Set(h, IF action = NoAction
                 THEN [hooks[h] EXCEPT !.todo = Tail(@)]
                 ELSE [hooks[h] EXCEPT !.phase = "persist", !.action = action])
    BY <1>5 DEF Admit
  <2>2. /\ hooks[h].phase = "work" /\ hooks[h].todo # <<>>
        /\ UNCHANGED <<ledgerVars, index, origins>>
    BY <1>5 DEF Admit
  <2>3. hooks[h].todo \in Seq(Candidates)
    BY <1>1 DEF HookRecords
  <2>4. Head(hooks[h].todo) \in Candidates /\ Tail(hooks[h].todo) \in Seq(Candidates)
    BY <2>2, <2>3
  <2>5. action \in [kind: {"none", "update", "refine", "create"},
                    related: LegacyIds \cup {NoAlias}]
    BY <1>1, <2>4, AdmissionTypes
  <2>6. CASE action = NoAction
    <3>1. PICK x : x = [hooks[h] EXCEPT !.todo = Tail(@)]
      OBVIOUS
    <3>2. x \in HookRecords /\ x.phase = "work" /\ Set(h, x)
      BY <1>1, <2>1, <2>2, <2>4, <2>6, <3>1 DEF HookRecords
    <3> QED BY <1>2, <2>2, <3>2
  <2>7. CASE action # NoAction
    <3>1. PICK x : x = [hooks[h] EXCEPT !.phase = "persist", !.action = action]
      OBVIOUS
    <3>2. x \in HookRecords /\ x.todo # <<>> /\ Set(h, x)
      BY <1>1, <2>1, <2>2, <2>5, <2>7, <3>1 DEF HookRecords
    <3> QED BY <1>2, <2>2, <3>2
  <2> QED BY <2>6, <2>7
<1>6. CASE Finish(h) \/ Crash(h)
  <2>1. Set(h, IdleHook) /\ UNCHANGED <<ledgerVars, index, origins>>
    BY <1>6 DEF Finish, Crash
  <2>2. IdleHook.phase = "idle"
    BY DEF IdleHook
  <2> QED BY <1>2, <1>3, <2>1, <2>2
<1> QED BY <1>4, <1>5, <1>6 DEF Work

LEMMA CapturesKept ==
  ASSUME Captures, [CaptureNext]_allVars
  PROVE  Captures'
<1>1. CASE (Next /\ UNCHANGED captureVars) \/ UNCHANGED allVars
  BY <1>1, CaptureNextSteps DEF allVars
<1>2. ASSUME HookTypes', UNCHANGED <<ledgerVars, origins>> PROVE Captures'
  <2>1. UNCHANGED <<families, revisions, aliases, origins, proposals>>
    BY <1>2 DEF ledgerVars
  <2>2. Inductive'
    BY <1>2, StutterInductive DEF Captures
  <2> QED BY <1>2, <2>1, <2>2, CaptureUntouched
<1>3. CASE \E h \in Hooks : Work(h)
  BY <1>2, <1>3, HookKeeps, PersistKeeps
<1>4. CASE Materialize
  <2>1. HookTypes' /\ UNCHANGED <<ledgerVars, origins>>
    BY <1>4 DEF Materialize, Captures, HookTypes
  <2> QED BY <1>2, <2>1
<1> QED BY <1>1, <1>3, <1>4 DEF CaptureNext

LEMMA CapturesInvariant == CaptureSpec => []Captures
<1>1. CaptureInit => Captures
  <2> SUFFICES ASSUME CaptureInit PROVE Captures
    OBVIOUS
  <2>1. Init /\ Inductive
    BY InitInductive DEF CaptureInit
  <2>2. HookTypes
    <3>1. <<>> \in Seq(Candidates)
      OBVIOUS
    <3>2. IdleHook \in HookRecords /\ IdleHook.phase = "idle"
      BY <3>1 DEF IdleHook, HookRecords, NoAction, Sources
    <3> QED BY <3>2 DEF CaptureInit, HookTypes
  <2>3. KeysAreUnique
    BY <2>1 DEF Init, KeysAreUnique, NoProposal
  <2>4. RowsNameTheirFamilies
    BY <2>1 DEF Init, RowsNameTheirFamilies
  <2>5. OriginsAreTold
    BY DEF CaptureInit, OriginsAreTold
  <2>6. NeverOverwritesAnother
    BY <2>1 DEF Init, NeverOverwritesAnother, Published, NoRevision
  <2> QED BY <2>1, <2>2, <2>3, <2>4, <2>5, <2>6 DEF Captures
<1> QED BY <1>1, CapturesKept, PTL DEF CaptureSpec

(* A commit publishes a title once: the key of a capture is made from the  *)
(* commit and the title, the ledger saves one proposal of a key, and a     *)
(* proposal is applied once, however many captures run and are killed.     *)
THEOREM CommitsAreCapturedOnce == CaptureSpec => []CapturedOnce
<1>1. Captures => CapturedOnce
  <2> SUFFICES ASSUME Captures, NEW r \in RevisionIds, NEW s \in RevisionIds,
                      Published(r), Published(s),
                      origins[revisions[r].proposal].source \in Commits,
                      origins[revisions[r].proposal] = origins[revisions[s].proposal]
               PROVE  r = s
    BY DEF CapturedOnce
  <2>1. PICK p, q : p = revisions[r].proposal /\ q = revisions[s].proposal
    OBVIOUS
  <2>2. /\ p \in ProposalIds /\ proposals[p].appliedRevision = r
        /\ q \in ProposalIds /\ proposals[q].appliedRevision = s
    BY <2>1 DEF Captures, Inductive, RevisionsHaveOrigins, Authorized
  <2>3. origins[p] # NoOrigin /\ origins[q] # NoOrigin
    BY <2>1, CaptureAssumption DEF NoOrigin
  <2>4. /\ proposals[p].key = <<"post-commit", origins[p].source, origins[p].id>>
        /\ proposals[q].key = <<"post-commit", origins[p].source, origins[p].id>>
    BY <2>1, <2>2, <2>3 DEF Captures, OriginsAreTold, OriginOK
  <2>5. proposals[p].key # NoKey
    BY <2>4 DEF NoKey
  <2> QED BY <2>2, <2>4, <2>5 DEF Captures, KeysAreUnique
<1> QED BY <1>1, CapturesInvariant, PTL

(* A candidate never becomes a revision of a memory with another title,    *)
(* whatever the index found close to it and however old that answer is.    *)
THEOREM TitlesAreKept == CaptureSpec => []NeverOverwritesAnother
<1>1. Captures => NeverOverwritesAnother
  BY DEF Captures
<1> QED BY <1>1, CapturesInvariant, PTL
=============================================================================

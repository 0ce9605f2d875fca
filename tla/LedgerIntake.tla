---------------------------- MODULE LedgerIntake ----------------------------
(***************************************************************************)
(* What enters the ledger beside the approved proposals: the backfill of   *)
(* the legacy stores (LegacyMemoryMigrator and import_legacy), the usage   *)
(* observations of procedures, and the snapshot that the in-memory ledger  *)
(* saves and restores.                                                     *)
(***************************************************************************)
EXTENDS Ledger, Backfill

CONSTANTS
  UsageKeys,   \* idempotency keys of usage observations
  MaxRuns,     \* bound on the migrations and restores together
  MaxUsages    \* bound on the observations

ASSUME IntakeAssumption ==
  /\ \A row \in Rows :
       row \in [legacy: LegacyIds, value: Values, status: RowStatuses, count: Nat]
  /\ MaxRuns \in Nat /\ MaxUsages \in Nat

VARIABLES
  imported,   \* the family of each imported record and its evidence's count
  plan,       \* the rest of the running migration
  runs,       \* migrations and restores done
  usages,     \* usage_observations, in the order they were recorded
  usageIndex, \* _usage_idempotency
  reading,    \* a record_usage that has read the head it will name
  snapshot    \* the state saved, if any

intakeVars == <<imported, plan, runs, usages, usageIndex, reading, snapshot>>
vars == <<ledgerVars, intakeVars>>

NotImported == [family |-> None, count |-> 0]
NoReading == [key |-> NoKey, family |-> None, revision |-> None]
-----------------------------------------------------------------------------
(* LegacyMemoryMigrator.                                                   *)

PlanMigration(listing) ==
  /\ plan = <<>>
  /\ runs < MaxRuns
  /\ runs' = runs + 1
  /\ plan' = Planned(listing)
  /\ UNCHANGED <<ledgerVars, imported, usages, usageIndex, reading, snapshot>>

(* Mutant: the head of a known revision is written again.                  *)
KnownHeads_Reset(f) ==
  [heads EXCEPT ![f].revision =
     CHOOSE r \in RevisionIds : revisions[r].family = f /\ revisions[r].version = 1]

(* import_legacy returns before it writes the head of a known revision.    *)
KnownHeads(f) == heads

ImportKnown ==
  /\ plan # <<>>
  /\ LET known == imported[RecordOf(Head(plan).row)]
     IN /\ known.family # None
        /\ known.count = Head(plan).row.count
        /\ heads' = KnownHeads(known.family)
  /\ plan' = Tail(plan)
  /\ UNCHANGED <<now, families, revisions, sequence, aliases, relations,
                 transitions, outbox, proposals, approvals, imported, runs,
                 usages, usageIndex, reading, snapshot>>

(* An evidence gathered since the first import changes the fingerprint:    *)
(* the error ends apply, and the records after this one are not imported.  *)
ImportRefused ==
  /\ plan # <<>>
  /\ LET known == imported[RecordOf(Head(plan).row)]
     IN known.family # None /\ known.count # Head(plan).row.count
  /\ plan' = <<>>
  /\ UNCHANGED <<ledgerVars, imported, runs, usages, usageIndex, reading,
                 snapshot>>

ImportEvent(f, r, row) ==
  Event("head", f, r, "legacy_import", ImportedState(row), now)

ImportAlias(f, entry) ==
  IF entry.ambiguous
  THEN [alias |-> entry.row.legacy, family |-> None, status |-> "ambiguous"]
  ELSE AliasRow(entry.row.legacy, f)

ImportTransition(r, row) ==
  [from |-> {}, to |-> {r}, state |-> ImportedState(row), at |-> now]

ImportNew ==
  LET row == Head(plan).row
      f == Min(FreeFamilies)
      r == Min(FreeRevisions)
  IN
  /\ plan # <<>>
  /\ imported[RecordOf(row)] = NotImported
  /\ FreeFamilies # {} /\ FreeRevisions # {}
  /\ families' = [families EXCEPT
       ![f] = [state |-> "active", legacy |-> row.legacy, mergedInto |-> None]]
  /\ revisions' = [revisions EXCEPT
       ![r] = [NoRevision EXCEPT !.family = f, !.version = 1,
                                 !.content = [NoContent EXCEPT !.value = row.value]]]
  /\ heads' = [heads EXCEPT ![f] = [revision |-> r, sequence |-> sequence + 1]]
  /\ sequence' = sequence + 1
  /\ aliases' = aliases \cup {ImportAlias(f, Head(plan))}
  /\ transitions' = Append(transitions, ImportTransition(r, row))
  /\ outbox' = outbox \cup {ImportEvent(f, r, row)}
  /\ imported' = [imported EXCEPT ![RecordOf(row)] = [family |-> f, count |-> row.count]]
  /\ plan' = Tail(plan)
  /\ UNCHANGED <<now, relations, proposals, approvals, runs, usages, usageIndex,
                 reading, snapshot>>
-----------------------------------------------------------------------------
(* ProceduralMemoryService.record_usage reads the head of the procedure,   *)
(* then record_usage_observation takes the lock.  Every memory of this     *)
(* model is taken for a procedure.                                         *)
ReadUsage(a, key) ==
  /\ reading = NoReading
  /\ Resolves(a)
  /\ HasHead(AliasFamily(a))
  /\ reading' = [key |-> key, family |-> AliasFamily(a),
                 revision |-> heads[AliasFamily(a)].revision]
  /\ UNCHANGED <<ledgerVars, imported, plan, runs, usages, usageIndex, snapshot>>

(* A key in use gives back its observation, or an error when the payload   *)
(* differs (as it does in a retry once the head has moved).                *)
RecordUsage ==
  LET accepted == /\ Published(reading.revision)
                  /\ revisions[reading.revision].family = reading.family
                  /\ reading.key \notin usageIndex
  IN
  /\ reading # NoReading
  /\ Len(usages) < MaxUsages
  /\ usages' = IF accepted THEN Append(usages, reading) ELSE usages
  /\ usageIndex' = IF accepted THEN usageIndex \cup {reading.key} ELSE usageIndex
  /\ reading' = NoReading
  /\ UNCHANGED <<ledgerVars, imported, plan, runs, snapshot>>
-----------------------------------------------------------------------------
(* export_state and restore_state.                                         *)

Saved ==
  [families |-> families, revisions |-> revisions, heads |-> heads,
   sequence |-> sequence, aliases |-> aliases, relations |-> relations,
   transitions |-> transitions, outbox |-> outbox, proposals |-> proposals,
   approvals |-> approvals, imported |-> imported, usages |-> usages]

SaveSnapshot ==
  /\ runs < MaxRuns
  /\ snapshot = {}
  /\ snapshot' = {Saved}
  /\ UNCHANGED <<ledgerVars, imported, plan, runs, usages, usageIndex, reading>>

(* Mutant: the index of the observations is not rebuilt.                   *)
IndexOf_Empty(rows) == {}

IndexOf(rows) == {rows[i].key : i \in DOMAIN rows}

Restore ==
  /\ runs < MaxRuns
  /\ runs' = runs + 1
  /\ \E s \in snapshot :
       /\ families' = s.families /\ revisions' = s.revisions
       /\ heads' = s.heads /\ sequence' = s.sequence /\ aliases' = s.aliases
       /\ relations' = s.relations /\ transitions' = s.transitions
       /\ outbox' = s.outbox /\ proposals' = s.proposals
       /\ approvals' = s.approvals
       /\ imported' = s.imported
       /\ usages' = s.usages
       /\ usageIndex' = IndexOf(s.usages)
  /\ snapshot' = {}
  /\ UNCHANGED <<now, plan, reading>>
-----------------------------------------------------------------------------
IntakeInit ==
  /\ Init
  /\ imported = [record \in Records |-> NotImported]
  /\ plan = <<>>
  /\ runs = 0
  /\ usages = <<>>
  /\ usageIndex = {}
  /\ reading = NoReading
  /\ snapshot = {}

Migrate ==
  \/ \E listing \in Listings : PlanMigration(listing)
  \/ ImportKnown
  \/ ImportRefused
  \/ ImportNew

Observe ==
  \/ \E a \in LegacyIds, key \in UsageKeys :
       ReadUsage(a, key)
  \/ RecordUsage

IntakeNext ==
  \/ Next /\ UNCHANGED intakeVars
  \/ Migrate
  \/ Observe
  \/ SaveSnapshot
  \/ Restore

IntakeSpec == IntakeInit /\ [][IntakeNext]_vars
-----------------------------------------------------------------------------
(* Properties.                                                             *)

(* An identifier that two memories claim names neither of them, whether a  *)
(* migration found the rows, two migrations did, or two creations asked    *)
(* before either was applied, and whatever is published on either one      *)
(* afterwards: nobody reads or revises the wrong memory by its name.       *)
ContestedIdentifiersDoNotResolve ==
  \A a \in LegacyIds :
    Cardinality({f \in FamilyIds : families[f].state = "active" /\ families[f].legacy = a}) > 1
      => ~Resolves(a)

(* A usage is counted once however often it is reported, also when the     *)
(* ledger has been restored between two reports.                           *)
UsageCountedOnce ==
  \A i, j \in DOMAIN usages : usages[i].key = usages[j].key => i = j
=============================================================================

------------------------------ MODULE Backfill ------------------------------
(* What a migration of the legacy stores plans, as both ledgers import it  *)
(* (LegacyMemoryMigrator).  A record is named by uuid5 of its identifier,  *)
(* its place and its content, so the same row always gets the same family  *)
(* and a row that says something else gets another one.  The count of      *)
(* evidences is not part of the name, but it is part of the fingerprint of *)
(* the evidence.                                                           *)
EXTENDS Naturals, Sequences

CONSTANTS
  Listings    \* what a migration may find in the legacy stores

Rows == UNION {{listing[i] : i \in DOMAIN listing} : listing \in Listings}

(* source_record_key.                                                      *)
RecordOf(row) == <<row.legacy, row.value>>
Records == {RecordOf(row) : row \in Rows}

(* Identifiers that the listing gives to more than one family.             *)
Ambiguous(listing) ==
  {row.legacy : row \in {listing[i] : i \in {j \in DOMAIN listing :
     \E k \in DOMAIN listing : /\ listing[k].legacy = listing[j].legacy
                               /\ RecordOf(listing[k]) # RecordOf(listing[j])}}}

(* plan and plan_all: only what is in the listing is looked at, not the    *)
(* ledger that the plan will be applied to.                                *)
Planned(listing) ==
  [i \in DOMAIN listing |->
     [row |-> listing[i], ambiguous |-> listing[i].legacy \in Ambiguous(listing)]]

(* What the row says of itself: the status of a memory item, "active" for  *)
(* a procedure, the outcome of an episode, the status of a pull request.   *)
(* import_legacy takes everything but "active" for archived.               *)
RowStatuses == {"active", "deprecated", "success", "open"}

ImportedState(row) == IF row.status = "active" THEN "active" ELSE "archived"
=============================================================================

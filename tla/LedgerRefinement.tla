-------------------------- MODULE LedgerRefinement --------------------------
(***************************************************************************)
(* The ledger implements ReviewedLog.  The log of a family is read off the *)
(* versions its head leads to: position v holds the proposal that          *)
(* published version v.  A proposal is a draft of the log of its family,   *)
(* made on the version it is based on; links publish no revision and are   *)
(* not drafts.                                                             *)
(***************************************************************************)
EXTENDS Ledger

RevisionAt(f, v) ==
  CHOOSE r \in RevisionIds : revisions[r].family = f /\ revisions[r].version = v

HeadVersion(f) == IF HasHead(f) THEN revisions[heads[f].revision].version ELSE 0

LogOf(f) == [v \in 1..HeadVersion(f) |-> revisions[RevisionAt(f, v)].proposal]

Stage(status) ==
  CASE status = "pending_approval" -> "open"
    [] status = "approved" -> "accepted"
    [] status = "applied" -> "appended"
    [] OTHER -> "dropped"

DraftOf(p) ==
  IF proposals[p].operation \in Creations \cup Revising
  THEN [stage |-> Stage(proposals[p].status), log |-> proposals[p].target,
        seen |-> NextVersion(proposals[p].base) - 1]
  ELSE [stage |-> "none", log |-> None, seen |-> 0]

Abstract ==
  INSTANCE ReviewedLog WITH
    Logs <- FamilyIds, Drafts <- ProposalIds, NoLog <- None,
    log <- [f \in FamilyIds |-> LogOf(f)],
    drafts <- [p \in ProposalIds |-> DraftOf(p)]

(* However proposals, decisions, expiries and applies interleave, each     *)
(* family grows by one approved proposal at a time, drafted on what the    *)
(* family then says: the compare-and-set on heads, versions and parents is *)
(* an append to a log that nobody else extended meanwhile.                 *)
ImplementsReviewedLog == Abstract!Spec
=============================================================================

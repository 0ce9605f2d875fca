----------------------------- MODULE MCLedger -----------------------------
(* Instances of Ledger for TLC, with its refinement of ReviewedLog.  Each  *)
(* behaviour follows one scenario, which bounds what is proposed and who   *)
(* approves it.                                                            *)
EXTENDS LedgerRefinement

CONSTANTS a1, noAlias, v1

VARIABLE scenario
mcVars == <<ledgerVars, scenario>>

MCContent(from, to, related) ==
  [value |-> v1, from |-> from, to |-> to, related |-> related]

Plain == MCContent(0, 0, noAlias)

(* One that ends, and one that starts while proposals are pending.         *)
Timed == {MCContent(1, 4, noAlias), MCContent(4, 0, noAlias)}

(* An episode that says what it learned from.                              *)
Episode == MCContent(0, 0, a1)

MCContents == {Plain, Episode} \cup Timed
-----------------------------------------------------------------------------
(* One family: the operations that publish on a head.                      *)
History ==
  [operations |-> {"create", "update", "rollback", "invalidate"},
   contents |-> {Plain} \cup Timed, legacy |-> {noAlias},
   operators |-> {"op1", "op2"}, families |-> 1, time |-> 5]

(* Two families and the relations between them, asserted by clients and by *)
(* episodes, whose identifier may be one that nobody knows yet.            *)
Related ==
  [operations |-> {"create", "create_and_link", "update", "archive", "link"},
   contents |-> {Episode}, legacy |-> {a1, noAlias},
   operators |-> {"op2"}, families |-> 2, time |-> 4]

(* A content that starts while other proposals are pending, and the        *)
(* invalidation of the memory.                                             *)
Retirement ==
  [operations |-> {"create", "update", "invalidate"},
   contents |-> {Plain, MCContent(4, 0, noAlias)}, legacy |-> {noAlias},
   operators |-> {"op2"}, families |-> 1, time |-> 6]

Within(s) ==
  /\ now' <= s.time
  /\ \A p \in ProposalIds :
       /\ approvals'[p].by \in s.operators \cup {""}
       /\ Proposed(p)' => proposals'[p].operation \in s.operations
  /\ \A f \in FamilyIds : families'[f].state # "none" => f <= s.families

MCPropose(s) ==
  LET who == "op1" IN
  \/ \E c \in s.contents, a \in s.legacy : ProposeCreate(c, a, NoKey, who)
  \/ \E c \in s.contents, a \in s.legacy, t \in FamilyIds :
       ProposeCreateAndLink(c, a, t, who)
  \/ \E f \in FamilyIds, c \in s.contents : ProposeUpdate(f, c, NoKey, who)
  \/ \E f \in FamilyIds, r, t \in RevisionIds : ProposeRollback(f, r, t, who)
  \/ \E f \in FamilyIds, o \in s.operations \cap StateChanges,
        t \in FamilyIds \cup {None} : ProposeStateChange(f, o, t, who)
  \/ \E f, t \in FamilyIds, type \in RelationTypes, prefix \in {"link", "relation"} :
       ProposeLink(f, t, type, prefix, who)

MCNext ==
  /\ Tick \/ MCPropose(scenario) \/ Decide \/ Apply
  /\ Within(scenario)
  /\ UNCHANGED scenario

MCInit(s) == scenario = s /\ Init

AnyScenario == MCInit(History) \/ MCInit(Related)
RetirementScenario == MCInit(Retirement)

MCSpec == AnyScenario /\ [][MCNext]_mcVars
MCRetirementSpec == RetirementScenario /\ [][MCNext]_mcVars
=============================================================================

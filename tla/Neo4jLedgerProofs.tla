-------------------------- MODULE Neo4jLedgerProofs --------------------------
(***************************************************************************)
(* Proofs about module Neo4jLedger, for every value of its constants: any  *)
(* number of callers, of lost answers and of migrations.  What its         *)
(* statements protect (a key, a usage, a decision from later ones) holds   *)
(* although the methods take no lock.                                      *)
(***************************************************************************)
EXTENDS Neo4jLedger, TLAPS, WellFoundedInduction, FiniteSetTheorems

ProposalNodes ==
  [status: {"none", "pending_approval", "approved", "rejected"},
   key: Keys \cup {NoKey}, preview: Previews \cup {0}, expires: Nat]

ApprovalNodes == [proposal: ProposalIds, by: Operators, status: {""}]

Decisions == [op: {"approved", "rejected"}, proposal: ProposalIds, who: Operators]

Calls ==
  {Idle}
  \cup [op: {"save"}, key: Keys \cup {NoKey}, preview: Previews]
  \cup Decisions
  \cup [op: {"deciding"}, call: Decisions, matched: BOOLEAN]
  \cup [op: {"apply"}, proposal: ProposalIds, approval: ApprovalNodes]
  \cup [op: {"usage"}, key: Keys, payload: Records]

Imports == {NoImport} \cup [status: {"active", "archived"}, at: Nat, row: Rows]

Entries == [row: Rows, ambiguous: BOOLEAN]

NodesAreTyped ==
  /\ now \in Nat
  /\ proposals \in [ProposalIds -> ProposalNodes]
  /\ approvals \subseteq ApprovalNodes
  /\ calls \in [Clients -> Calls]
  /\ records \in [Records -> Imports]
  /\ plan \in Seq(Entries)

(* A key selects one node, and an answer names a node that has its key.    *)
KeysSelect ==
  /\ \A p, q \in ProposalIds :
       /\ proposals[p].status # "none" /\ proposals[q].status # "none"
       /\ proposals[p].key = proposals[q].key
       /\ proposals[p].key # NoKey
       => p = q
  /\ \A x \in saved :
       /\ x.proposal \in ProposalIds /\ proposals[x.proposal].status # "none"
       /\ proposals[x.proposal].key = x.key /\ proposals[x.proposal].preview = x.preview

(* A proposal with a confirmed decision is decided, and what a transaction *)
(* has matched is there.                                                   *)
DecisionsAreKept ==
  /\ \A x \in granted :
       /\ x.proposal \in ProposalIds
       /\ proposals[x.proposal].status \in {"approved", "rejected"}
  /\ \A c \in Clients :
       calls[c].op = "deciding" /\ calls[c].matched =>
         proposals[calls[c].call.proposal].status # "none"

(* What is imported has its alias, unless the alias is in quarantine, and  *)
(* was imported in the past.                                               *)
Contested(a) == \E x \in aliases : x.alias = a /\ x.status = "ambiguous"

ImportsAreNamed ==
  /\ IsFiniteSet(aliases)
  /\ \A record \in Imported :
       /\ records[record].at <= now
       /\ AliasNode(record[1], record, "resolved") \in aliases \/ Contested(record[1])

Kept ==
  /\ NodesAreTyped
  /\ KeysSelect
  /\ DecisionsAreKept
  /\ UsageCountedOnce
  /\ ImportsAreNamed
-----------------------------------------------------------------------------
LEMMA MinIsMember ==
  ASSUME NEW S, S \subseteq Nat, S # {}
  PROVE  Min(S) \in S
<1>1. PICK x \in S : \A y \in S : ~(<<y, x>> \in OpToRel(<, Nat))
  BY NatLessThanWellFounded, WFMin
<1>2. \A y \in S : <<y, x>> \in OpToRel(<, Nat) <=> y < x
  BY DEF OpToRel
<1>3. \A y \in S : x <= y
  <2>1. SUFFICES ASSUME NEW y \in S PROVE x <= y
    OBVIOUS
  <2>2. ~(y < x)
    BY <1>1, <1>2
  <2>3. x \in Nat /\ y \in Nat
    OBVIOUS
  <2> QED BY <2>2, <2>3
<1> QED
  BY <1>3 DEF Min

LEMMA RowsAreRecords ==
  ASSUME NEW row \in Rows
  PROVE  /\ RecordOf(row) \in Records /\ RecordOf(row)[1] = row.legacy
         /\ ImportedState(row) \in {"active", "archived"}
BY DEF Records, RecordOf, ImportedState

LEMMA InitKept == ASSUME Init PROVE Kept
<1>1. NodesAreTyped
  BY DEF Init, NodesAreTyped, NoProposal, ProposalNodes, Calls, Imports
<1>2. KeysSelect /\ DecisionsAreKept /\ UsageCountedOnce
  BY DEF Init, KeysSelect, DecisionsAreKept, UsageCountedOnce, NoProposal, Idle
<1>3. ImportsAreNamed
  BY FS_EmptySet DEF Init, ImportsAreNamed, Imported, NoImport
<1> QED
  BY <1>1, <1>2, <1>3 DEF Kept
-----------------------------------------------------------------------------
(* Steps that write no node: a call begins or ends without a write.        *)

LEMMA NodesUntouched ==
  ASSUME Kept, UNCHANGED <<proposals, saved, granted, usages, records, aliases>>,
         NodesAreTyped', DecisionsAreKept', now <= now'
  PROVE  Kept'
<1>1. KeysSelect' /\ UsageCountedOnce'
  BY DEF Kept, KeysSelect, UsageCountedOnce
<1>2. ImportsAreNamed'
  <2>1. Imported' = Imported
    BY DEF Imported
  <2>2. ASSUME NEW record \in Imported PROVE records[record].at <= now'
    <3>1. records[record].at \in Nat /\ now \in Nat /\ now' \in Nat
      BY DEF Kept, NodesAreTyped, Imports, Imported, NoImport
    <3>2. records[record].at <= now
      BY DEF Kept, ImportsAreNamed
    <3> QED
      BY <3>1, <3>2
  <2> QED
    BY <2>1, <2>2 DEF Kept, ImportsAreNamed, Contested
<1> QED
  BY <1>1, <1>2 DEF Kept

LEMMA CallsTyped ==
  ASSUME Kept, NEW c \in Clients, NEW call \in Calls,
         calls' = [calls EXCEPT ![c] = call] \/ calls' = calls
  PROVE  calls' \in [Clients -> Calls]
BY DEF Kept, NodesAreTyped

LEMMA IdleDecidesNothing == Idle.op # "deciding"
BY DEF Idle

(* A call that is about to match, or does not decide, asks nothing new of  *)
(* the proposals.                                                          *)
LEMMA DecisionsUntouched ==
  ASSUME Kept, UNCHANGED granted, NEW c \in Clients, NEW call, call.op # "deciding",
         calls' = [calls EXCEPT ![c] = call] \/ calls' = calls,
         \A p \in ProposalIds : proposals[p].status # "none" =>
           proposals'[p].status = proposals[p].status
  PROVE  DecisionsAreKept'
<1>1. \A x \in granted' :
        /\ x.proposal \in ProposalIds
        /\ proposals'[x.proposal].status \in {"approved", "rejected"}
  BY DEF Kept, DecisionsAreKept
<1>2. ASSUME NEW d \in Clients, calls'[d].op = "deciding", calls'[d].matched
      PROVE  proposals'[calls'[d].call.proposal].status # "none"
  <2>1. calls'[d] = calls[d]
    BY <1>2 DEF Kept, NodesAreTyped
  <2>2. calls[d] \in Calls /\ calls[d].op = "deciding"
    BY <1>2, <2>1 DEF Kept, NodesAreTyped
  <2>3. calls[d].call.proposal \in ProposalIds
    BY <2>2 DEF Calls, Decisions, Idle
  <2> QED
    BY <1>2, <2>1, <2>3 DEF Kept, DecisionsAreKept
<1> QED
  BY <1>1, <1>2 DEF DecisionsAreKept

LEMMA StartKept ==
  ASSUME Kept, NEW c \in Clients, Call(c)
  PROVE  Kept'
<1>1. ASSUME NEW call \in Calls, call.op # "deciding", Start(c, call) PROVE Kept'
  <2>1. calls' \in [Clients -> Calls]
    BY <1>1, CallsTyped DEF Start
  <2>2. /\ UNCHANGED <<proposals, saved, granted, usages, records, aliases>>
        /\ UNCHANGED <<now, approvals, plan>>
    BY <1>1 DEF Start, canonical
  <2>3. NodesAreTyped'
    BY <2>1, <2>2 DEF Kept, NodesAreTyped
  <2>4. DecisionsAreKept'
    BY <1>1, <2>2, DecisionsUntouched DEF Start
  <2> QED
    BY <2>2, <2>3, <2>4, NodesUntouched DEF Kept, NodesAreTyped
<1>2. ASSUME NEW key \in Keys \cup {NoKey}, NEW preview \in Previews,
             StartSave(c, key, preview)
      PROVE  Kept'
  BY <1>1, <1>2 DEF StartSave, Calls
<1>3. ASSUME NEW p \in ProposalIds, NEW decision \in {"approved", "rejected"},
             NEW who \in Operators, StartDecision(c, p, decision, who)
      PROVE  Kept'
  BY <1>1, <1>3 DEF StartDecision, Calls, Decisions
<1>4. ASSUME NEW a \in approvals, StartApply(c, a) PROVE Kept'
  <2>1. a \in ApprovalNodes /\ a.proposal \in ProposalIds
    BY DEF Kept, NodesAreTyped, ApprovalNodes
  <2> QED
    BY <1>1, <1>4, <2>1 DEF StartApply, Calls
<1>5. ASSUME NEW key \in Keys, NEW record \in Records, StartUsage(c, key, record)
      PROVE  Kept'
  BY <1>1, <1>5 DEF StartUsage, Calls
<1> QED
  BY <1>2, <1>3, <1>4, <1>5 DEF Call

(* A call that ends without a write, and the clock.                        *)
LEMMA QuietKept ==
  ASSUME Kept,
         \/ Tick
         \/ UNCHANGED vars
         \/ \E c \in Clients : RollBackSave(c) \/ RefuseApply(c) \/ Abandon(c)
         \/ \E listing \in Listings : PlanMigration(listing)
         \/ ImportRefused
  PROVE  Kept'
<1>1. /\ UNCHANGED <<proposals, saved, granted, usages, records, aliases, approvals>>
      /\ now' \in {now, now + 1}
  BY DEF Tick, vars, workflow, canonical, RollBackSave, RefuseApply, Abandon,
     PlanMigration, ImportRefused
<1>2. calls' \in [Clients -> Calls]
  <2>1. Idle \in Calls
    BY DEF Calls
  <2>2. \/ UNCHANGED calls
        \/ \E c \in Clients : calls' = [calls EXCEPT ![c] = Idle]
    BY DEF Tick, vars, workflow, canonical, RollBackSave, RefuseApply, Abandon,
       PlanMigration, ImportRefused
  <2> QED
    BY <2>1, <2>2 DEF Kept, NodesAreTyped
<1>3. plan' \in Seq(Entries)
  <2>1. CASE UNCHANGED plan
    BY <2>1 DEF Kept, NodesAreTyped
  <2>2. CASE ImportRefused
    BY <2>2 DEF ImportRefused
  <2>3. ASSUME NEW listing \in Listings, plan' = Planned(listing)
        PROVE  plan' \in Seq(Entries)
    <3>1. listing \in Seq(Rows)
      BY Neo4jAssumption
    <3>2. PICK n \in Nat : n = Len(listing) /\ DOMAIN listing = 1..n
      BY <3>1
    <3>3. \A i \in 1..n : listing[i] \in Rows
      BY <3>1, <3>2
    <3>4. Planned(listing) \in [1..n -> Entries]
      BY <3>2, <3>3 DEF Planned, Entries
    <3> QED
      BY <2>3, <3>4
  <2>4. \/ UNCHANGED plan
        \/ ImportRefused
        \/ \E listing \in Listings : plan' = Planned(listing)
    BY DEF Tick, vars, workflow, canonical, RollBackSave, RefuseApply, Abandon,
       PlanMigration
  <2> QED
    BY <2>1, <2>2, <2>3, <2>4
<1>4. now \in Nat /\ now' \in Nat /\ now <= now'
  BY <1>1 DEF Kept, NodesAreTyped
<1>5. NodesAreTyped'
  BY <1>1, <1>2, <1>3, <1>4 DEF Kept, NodesAreTyped
<1>6. DecisionsAreKept'
  <2>1. CASE UNCHANGED calls
    BY <1>1, <2>1 DEF Kept, DecisionsAreKept
  <2>2. ASSUME NEW c \in Clients, calls' = [calls EXCEPT ![c] = Idle]
        PROVE  DecisionsAreKept'
    BY <1>1, <2>2, IdleDecidesNothing, DecisionsUntouched
  <2>3. \/ UNCHANGED calls
        \/ \E c \in Clients : calls' = [calls EXCEPT ![c] = Idle]
    BY DEF Tick, vars, workflow, canonical, RollBackSave, RefuseApply, Abandon,
       PlanMigration, ImportRefused
  <2> QED
    BY <2>1, <2>2, <2>3
<1> QED
  BY <1>1, <1>4, <1>5, <1>6, NodesUntouched
-----------------------------------------------------------------------------
(* Commits.                                                                *)

(* A commit of the workflow leaves what was imported alone.                *)
LEMMA ImportsUntouched ==
  ASSUME Kept, UNCHANGED <<now, records, aliases>>
  PROVE  ImportsAreNamed'
BY DEF Kept, ImportsAreNamed, Imported, Contested

LEMMA ReturnTyped ==
  ASSUME Kept, NEW c \in Clients, NEW again \in Calls, Return(c, again)
  PROVE  calls' \in [Clients -> Calls]
<1>1. Idle \in Calls
  BY DEF Calls
<1> QED
  BY <1>1, CallsTyped DEF Return

LEMMA SaveKept ==
  ASSUME Kept, NEW c \in Clients, CommitSave(c)
  PROVE  Kept'
<1> DEFINE call == calls[c]
           same == Merged(call.key)
           p == IF same # {} THEN Min(same) ELSE Min(FreeProposals)
           node == [status |-> "pending_approval", key |-> call.key,
                    preview |-> call.preview, expires |-> now + Ttl]
<1>1. /\ call \in Calls /\ call.op = "save"
      /\ call.key \in Keys \cup {NoKey} /\ call.preview \in Previews
  <2>1. call \in Calls /\ call.op = "save"
    BY DEF CommitSave, Kept, NodesAreTyped
  <2> QED
    BY <2>1 DEF Calls, Decisions, Idle
<1>2. /\ same # {} => /\ p \in ProposalIds /\ proposals[p].status # "none"
                      /\ proposals[p].key = call.key
      /\ same = {} => p \in ProposalIds /\ proposals[p].status = "none"
  <2>1. same \subseteq ProposalIds /\ FreeProposals \subseteq ProposalIds
        /\ ProposalIds \subseteq Nat
    BY DEF Merged, Holders, FreeProposals, ProposalIds
  <2>2. same # {} => Min(same) \in Holders(call.key)
    BY <2>1, MinIsMember DEF Merged
  <2>3. same = {} => Min(FreeProposals) \in FreeProposals
    BY <2>1, MinIsMember DEF CommitSave
  <2> QED
    BY <2>2, <2>3 DEF Holders, FreeProposals
<1>3. same = {} /\ call.key # NoKey =>
        \A q \in ProposalIds : proposals[q].status # "none" => proposals[q].key # call.key
  BY DEF Merged, Holders
<1>4. /\ proposals' = IF same # {} THEN proposals ELSE [proposals EXCEPT ![p] = node]
      /\ saved' = IF Returned(c) /\ proposals'[p].preview = call.preview /\ call.key # NoKey
                  THEN saved \cup {[key |-> call.key, preview |-> call.preview,
                                    proposal |-> p]}
                  ELSE saved
      /\ UNCHANGED <<now, approvals, granted, usages, records, aliases, plan>>
      /\ Return(c, call)
  BY DEF CommitSave, canonical
<1>5. node \in ProposalNodes
  BY <1>1, Neo4jAssumption DEF ProposalNodes, Kept, NodesAreTyped
<1>6. proposals \in [ProposalIds -> ProposalNodes]
  BY DEF Kept, NodesAreTyped
<1>7. /\ p \in ProposalIds
      /\ proposals'[p].status # "none" /\ proposals'[p].key = call.key
      /\ \A q \in ProposalIds \ {p} : proposals'[q] = proposals[q]
      /\ proposals[p].status # "none" => proposals' = proposals
  BY <1>2, <1>4, <1>6
<1>8. NodesAreTyped'
  <2>1. calls' \in [Clients -> Calls]
    BY <1>1, <1>4, ReturnTyped
  <2>2. proposals' \in [ProposalIds -> ProposalNodes]
    BY <1>2, <1>4, <1>5, <1>6
  <2> QED
    BY <1>4, <2>1, <2>2 DEF Kept, NodesAreTyped
<1> HIDE DEF call, same, p, node
<1>9. KeysSelect'
  <2>1. ASSUME NEW x \in ProposalIds, NEW y \in ProposalIds,
               proposals'[x].status # "none", proposals'[y].status # "none",
               proposals'[x].key = proposals'[y].key, proposals'[x].key # NoKey
        PROVE  x = y
    <3>1. CASE proposals' = proposals
      BY <2>1, <3>1 DEF Kept, KeysSelect
    <3>2. CASE proposals[p].status = "none" /\ same = {}
      <4>1. CASE x # p /\ y # p
        BY <1>7, <2>1, <4>1 DEF Kept, KeysSelect
      <4>2. CASE x = p /\ y # p
        BY <1>3, <1>7, <2>1, <3>2, <4>2
      <4>3. CASE x # p /\ y = p
        BY <1>3, <1>7, <2>1, <3>2, <4>3
      <4> QED
        BY <4>1, <4>2, <4>3
    <3> QED
      BY <1>2, <1>4, <3>1, <3>2
  <2>2. ASSUME NEW x \in saved
        PROVE  /\ x.proposal \in ProposalIds /\ proposals'[x.proposal].status # "none"
               /\ proposals'[x.proposal].key = x.key
               /\ proposals'[x.proposal].preview = x.preview
    BY <1>7 DEF Kept, KeysSelect
  <2>3. ASSUME proposals'[p].preview = call.preview,
               NEW x, x = [key |-> call.key, preview |-> call.preview, proposal |-> p]
        PROVE  /\ x.proposal \in ProposalIds /\ proposals'[x.proposal].status # "none"
               /\ proposals'[x.proposal].key = x.key
               /\ proposals'[x.proposal].preview = x.preview
    BY <1>7, <2>3
  <2> QED
    BY <1>4, <2>1, <2>2, <2>3 DEF KeysSelect
<1>10. DecisionsAreKept'
  <2>1. \A q \in ProposalIds : proposals[q].status # "none" =>
          proposals'[q].status = proposals[q].status
    BY <1>7
  <2>2. CASE calls' = [calls EXCEPT ![c] = Idle]
    BY <1>4, <2>1, <2>2, IdleDecidesNothing, DecisionsUntouched
  <2>3. CASE calls' = [calls EXCEPT ![c] = call]
    BY <1>1, <1>4, <2>1, <2>3, DecisionsUntouched
  <2> QED
    BY <1>4, <2>2, <2>3 DEF Return
<1> QED
  BY <1>4, <1>8, <1>9, <1>10, ImportsUntouched DEF Kept, UsageCountedOnce

LEMMA MatchKept ==
  ASSUME Kept, NEW c \in Clients, MatchDecision(c)
  PROVE  Kept'
<1> DEFINE call == calls[c]
           next == [op |-> "deciding", call |-> call,
                    matched |-> StillPending(call.proposal)]
<1>1. /\ calls' = [calls EXCEPT ![c] = next]
      /\ UNCHANGED <<proposals, saved, granted, usages, records, aliases>>
      /\ UNCHANGED <<now, approvals, plan>>
  BY DEF MatchDecision, canonical
<1>2. call \in Decisions
  <2>1. call \in Calls /\ call.op \in {"approved", "rejected"}
    BY DEF MatchDecision, Kept, NodesAreTyped
  <2> QED
    BY <2>1 DEF Calls, Decisions, Idle
<1>3. next.matched = Pending(call.proposal) /\ next.matched \in BOOLEAN
      /\ next.call = call
  BY DEF StillPending, Pending
<1>4. next \in Calls
  BY <1>2, <1>3 DEF Calls
<1> HIDE DEF next, call
<1>5. NodesAreTyped'
  BY <1>1, <1>4 DEF Kept, NodesAreTyped
<1>6. ASSUME NEW d \in Clients, calls'[d].op = "deciding", calls'[d].matched
      PROVE  proposals'[calls'[d].call.proposal].status # "none"
  <2>1. CASE d # c
    BY <1>1, <1>6, <2>1 DEF Kept, NodesAreTyped, DecisionsAreKept
  <2>2. CASE d = c
    <3>1. calls'[d] = next
      BY <1>1, <2>2 DEF Kept, NodesAreTyped
    <3> QED
      BY <1>1, <1>3, <1>6, <3>1 DEF Pending
  <2> QED
    BY <2>1, <2>2
<1>7. DecisionsAreKept'
  BY <1>1, <1>6 DEF Kept, DecisionsAreKept
<1> QED
  BY <1>1, <1>5, <1>7, NodesUntouched DEF Kept, NodesAreTyped

(* What a commit of a decision writes.                                     *)
LEMMA DecisionWrites ==
  ASSUME Kept, NEW c \in Clients, CommitDecision(c),
         NEW call, call = calls[c].call
  PROVE  /\ call \in Decisions /\ call.proposal \in ProposalIds
         /\ call.op \in {"approved", "rejected"} /\ call.who \in Operators
         /\ calls[c].op = "deciding"
         /\ Return(c, call)
         /\ \/ proposals' = proposals
            \/ /\ calls[c].matched
               /\ proposals' = [proposals EXCEPT ![call.proposal].status = call.op]
               /\ proposals[call.proposal].status # "none"
         /\ \/ granted' = granted
            \/ /\ proposals' = [proposals EXCEPT ![call.proposal].status = call.op]
               /\ granted' = granted \cup
                    {[proposal |-> call.proposal, decision |-> call.op, who |-> call.who]}
<1>1. calls[c] \in Calls /\ calls[c].op = "deciding"
  BY DEF CommitDecision, Kept, NodesAreTyped
<1>2. call \in Decisions
  BY <1>1 DEF Calls, Decisions, Idle
<1>3. calls[c].matched => proposals[call.proposal].status # "none"
  BY <1>1 DEF Kept, DecisionsAreKept
<1>4. /\ Return(c, call)
      /\ proposals' = IF calls[c].matched
                      THEN [proposals EXCEPT ![call.proposal].status = call.op]
                      ELSE proposals
      /\ granted' = IF calls[c].matched /\ Returned(c)
                    THEN granted \cup {[proposal |-> call.proposal, decision |-> call.op,
                                        who |-> call.who]}
                    ELSE granted
  BY DEF CommitDecision
<1> QED
  BY <1>1, <1>2, <1>3, <1>4 DEF Decisions

LEMMA DecisionKept ==
  ASSUME Kept, NEW c \in Clients, CommitDecision(c)
  PROVE  Kept'
<1> DEFINE call == calls[c].call
           p == call.proposal
           node == ApprovalNode(p, call.who)
           answer == [proposal |-> p, decision |-> call.op, who |-> call.who]
<1>1. /\ call \in Decisions /\ p \in ProposalIds /\ call.who \in Operators
      /\ call.op \in {"approved", "rejected"} /\ Return(c, call)
      /\ \/ proposals' = proposals
         \/ /\ proposals' = [proposals EXCEPT ![p].status = call.op]
            /\ proposals[p].status # "none"
      /\ \/ granted' = granted
         \/ /\ proposals' = [proposals EXCEPT ![p].status = call.op]
            /\ granted' = granted \cup {answer}
  BY DecisionWrites
<1>2. /\ approvals' \in {approvals, approvals \cup {node}}
      /\ UNCHANGED <<now, saved, usages, records, aliases, plan>>
  BY DEF CommitDecision, canonical
<1>3. proposals \in [ProposalIds -> ProposalNodes]
  BY DEF Kept, NodesAreTyped
<1> HIDE DEF call
<1>4. NodesAreTyped'
  <2>1. calls' \in [Clients -> Calls]
    BY <1>1, ReturnTyped DEF Calls
  <2>2. proposals' \in [ProposalIds -> ProposalNodes]
    <3>1. [proposals[p] EXCEPT !.status = call.op] \in ProposalNodes
      BY <1>1, <1>3 DEF ProposalNodes
    <3> QED
      BY <1>1, <1>3, <3>1
  <2>3. node \in ApprovalNodes
    BY <1>1 DEF ApprovalNode, ApprovalNodes
  <2> QED
    BY <1>2, <2>1, <2>2, <2>3 DEF Kept, NodesAreTyped
<1>5. \A q \in ProposalIds :
        /\ proposals'[q].key = proposals[q].key
        /\ proposals'[q].preview = proposals[q].preview
        /\ proposals'[q].status = "none" <=> proposals[q].status = "none"
        /\ proposals'[q].status \in {proposals[q].status, call.op}
  BY <1>1, <1>3 DEF ProposalNodes
<1>6. proposals' = [proposals EXCEPT ![p].status = call.op] => proposals'[p].status = call.op
  BY <1>1, <1>3 DEF ProposalNodes
<1> HIDE DEF p
<1>7. KeysSelect'
  BY <1>2, <1>5 DEF Kept, KeysSelect
<1>8. DecisionsAreKept'
  <2>1. ASSUME NEW x \in granted
        PROVE  /\ x.proposal \in ProposalIds
               /\ proposals'[x.proposal].status \in {"approved", "rejected"}
    BY <1>1, <1>5 DEF Kept, DecisionsAreKept
  <2>2. ASSUME NEW x \in granted'
        PROVE  /\ x.proposal \in ProposalIds
               /\ proposals'[x.proposal].status \in {"approved", "rejected"}
    <3>1. answer.proposal = p
      OBVIOUS
    <3> HIDE DEF answer
    <3> QED
      BY <1>1, <1>6, <2>1, <3>1
  <2>3. ASSUME NEW d \in Clients, calls'[d].op = "deciding", calls'[d].matched
        PROVE  proposals'[calls'[d].call.proposal].status # "none"
    <3>1. Idle.op # "deciding" /\ call.op # "deciding"
      BY <1>1, IdleDecidesNothing
    <3>2. calls'[d] = calls[d]
      BY <1>1, <2>3, <3>1 DEF Return, Kept, NodesAreTyped
    <3>3. calls[d] \in Calls /\ calls[d].op = "deciding"
      BY <2>3, <3>2 DEF Kept, NodesAreTyped
    <3>4. calls[d].call.proposal \in ProposalIds
      BY <3>3 DEF Calls, Decisions, Idle
    <3> QED
      BY <1>5, <2>3, <3>2, <3>4 DEF Kept, DecisionsAreKept
  <2> QED
    BY <2>2, <2>3 DEF DecisionsAreKept
<1> QED
  BY <1>2, <1>4, <1>7, <1>8, ImportsUntouched DEF Kept, UsageCountedOnce

LEMMA UsageKept ==
  ASSUME Kept, NEW c \in Clients, CommitUsage(c)
  PROVE  Kept'
<1> DEFINE call == calls[c]
<1>1. /\ usages' = IF KnownUsages(calls[c].key) # {} THEN usages
                   ELSE usages \cup {[key |-> calls[c].key, payload |-> calls[c].payload]}
      /\ UNCHANGED <<now, proposals, approvals, saved, granted, records, aliases, plan>>
      /\ Return(c, call) /\ call.op = "usage"
  BY DEF CommitUsage, canonical
<1>2. UsageCountedOnce'
  BY <1>1 DEF Kept, UsageCountedOnce, KnownUsages
<1>3. call \in Calls
  BY DEF Kept, NodesAreTyped
<1>4. NodesAreTyped'
  BY <1>1, <1>3, ReturnTyped DEF Kept, NodesAreTyped
<1>5. KeysSelect'
  BY <1>1 DEF Kept, KeysSelect
<1> HIDE DEF call
<1>6. DecisionsAreKept'
  <2>1. CASE calls' = [calls EXCEPT ![c] = Idle]
    BY <1>1, <2>1, IdleDecidesNothing, DecisionsUntouched
  <2>2. CASE calls' = [calls EXCEPT ![c] = call]
    BY <1>1, <2>2, DecisionsUntouched
  <2> QED
    BY <1>1, <2>1, <2>2 DEF Return
<1> QED
  BY <1>1, <1>2, <1>4, <1>5, <1>6, ImportsUntouched DEF Kept

LEMMA ImportKept ==
  ASSUME Kept, ImportRecord
  PROVE  Kept'
<1> DEFINE entry == Head(plan)
           record == RecordOf(entry.row)
           first == IF records[record].status = "none" THEN entry.row
                    ELSE records[record].row
           import == [status |-> ImportedState(entry.row), at |-> now, row |-> first]
           own == AliasNode(entry.row.legacy, record, "resolved")
           quarantine == AliasNode(entry.row.legacy, NoRecord, "ambiguous")
<1>1. entry \in Entries /\ Tail(plan) \in Seq(Entries)
  BY DEF ImportRecord, Kept, NodesAreTyped
<1>2. /\ entry.row \in Rows /\ record \in Records /\ record[1] = entry.row.legacy
      /\ ImportedState(entry.row) \in {"active", "archived"}
  BY <1>1, RowsAreRecords DEF Entries
<1>3. /\ records' = [records EXCEPT ![record] = import]
      /\ aliases' = AliasesAfter(entry)
      /\ plan' = Tail(plan)
      /\ UNCHANGED <<now, proposals, approvals, calls, saved, granted, usages>>
  BY DEF ImportRecord, workflow
<1>4. records \in [Records -> Imports] /\ now \in Nat
  BY DEF Kept, NodesAreTyped
<1>5. import \in Imports
  <2>1. records[record].status # "none" => records[record].row \in Rows
    BY <1>2, <1>4 DEF Imports, NoImport
  <2>2. first \in Rows
    BY <1>2, <2>1
  <2> HIDE DEF first, record
  <2> QED
    BY <1>2, <1>4, <2>2 DEF Imports
<1> HIDE DEF import
<1>6. NodesAreTyped'
  BY <1>1, <1>2, <1>3, <1>4, <1>5 DEF Kept, NodesAreTyped
<1>7. KeysSelect' /\ DecisionsAreKept' /\ UsageCountedOnce'
  BY <1>3 DEF Kept, KeysSelect, DecisionsAreKept, UsageCountedOnce
<1> HIDE DEF record, entry
<1>8. \/ aliases' = (aliases \ {own}) \cup {quarantine}
      \/ aliases' = aliases \cup {own}
  BY <1>3 DEF AliasesAfter, record
<1>9. /\ own.status = "resolved" /\ quarantine.status = "ambiguous"
      /\ own.alias = entry.row.legacy /\ quarantine.alias = entry.row.legacy
  BY DEF AliasNode
<1>10. IsFiniteSet(aliases')
  <2>1. IsFiniteSet(aliases)
    BY DEF Kept, ImportsAreNamed
  <2>2. IsFiniteSet(aliases \ {own})
    BY <2>1, FS_RemoveElement
  <2> HIDE DEF own, quarantine
  <2> QED
    BY <1>8, <2>1, <2>2, FS_AddElement
<1>11. \A a : Contested(a) => Contested(a)'
  BY <1>8, <1>9 DEF Contested
<1>12. ASSUME NEW x \in Imported'
       PROVE  /\ records'[x].at <= now'
              /\ AliasNode(x[1], x, "resolved") \in aliases' \/ Contested(x[1])'
  <2>1. CASE x = record
    <3>1. records'[x].at = now
      BY <1>2, <1>3, <1>4, <2>1 DEF import
    <3>2. own \in aliases' \/ quarantine \in aliases'
      BY <1>8
    <3>3. own = AliasNode(x[1], x, "resolved") /\ quarantine.alias = x[1]
      BY <1>2, <1>9, <2>1
    <3> QED
      BY <1>3, <1>4, <1>9, <3>1, <3>2, <3>3 DEF Contested
  <2>2. CASE x # record
    <3>1. x \in Imported /\ records'[x] = records[x]
      BY <1>2, <1>3, <1>4, <2>2 DEF Imported
    <3>2. AliasNode(x[1], x, "resolved") # own
      BY <2>2 DEF AliasNode
    <3> QED
      BY <1>3, <1>8, <1>11, <3>1, <3>2 DEF Kept, ImportsAreNamed
  <2> QED
    BY <2>1, <2>2
<1>13. ImportsAreNamed'
  BY <1>10, <1>12 DEF ImportsAreNamed
<1> QED
  BY <1>6, <1>7, <1>13 DEF Kept

LEMMA NextKept == Kept /\ [Next]_vars => Kept'
<1> SUFFICES ASSUME Kept, [Next]_vars PROVE Kept'
  OBVIOUS
<1>1. CASE Tick \/ UNCHANGED vars
  BY <1>1, QuietKept
<1>2. ASSUME NEW c \in Clients, Call(c) \/ Finish(c) PROVE Kept'
  BY <1>2, StartKept, QuietKept, SaveKept, MatchKept, DecisionKept, UsageKept
     DEF Finish
<1>3. CASE Migrate
  BY <1>3, QuietKept, ImportKept DEF Migrate
<1> QED
  BY <1>1, <1>2, <1>3 DEF Next

LEMMA KeptAlways == Spec => []Kept
<1>1. Init => Kept
  BY InitKept
<1> QED
  BY <1>1, NextKept, PTL DEF Spec
-----------------------------------------------------------------------------
(* The theorems.                                                           *)

(* save_proposal gives one proposal for one key: to callers that race for  *)
(* it, and to a caller whose transaction is run again because its answer   *)
(* was lost.                                                               *)
THEOREM KeysAreIdempotent == Spec => []OneProposalPerKey
<1>1. Kept => OneProposalPerKey
  <2> SUFFICES ASSUME Kept PROVE OneProposalPerKey
    OBVIOUS
  <2>1. ASSUME NEW key \in Keys PROVE Cardinality(Holders(key)) <= 1
    <3>1. key # NoKey
      BY Neo4jAssumption
    <3>2. \A p, q \in Holders(key) : p = q
      BY <3>1 DEF Kept, KeysSelect, Holders
    <3>3. CASE Holders(key) = {}
      BY <3>3, FS_EmptySet
    <3>4. CASE Holders(key) # {}
      <4>1. PICK p : Holders(key) = {p}
        BY <3>2, <3>4
      <4>2. Cardinality({p}) = 1
        BY FS_Singleton, Zenon
      <4> QED
        BY <4>1, <4>2
    <3> QED
      BY <3>3, <3>4
  <2> QED
    BY <2>1 DEF Kept, KeysSelect, OneProposalPerKey
<1> QED
  BY <1>1, KeptAlways, PTL

(* A client that has matched a decided proposal had matched it before, and *)
(* nothing else changes what was decided: a caller who comes later, or a   *)
(* transaction that runs again, is refused.                                *)
LEMMA LateStep ==
  ASSUME Kept, [Next]_vars, NEW x \in granted
  PROVE  /\ Deciders(x.proposal)' \subseteq Deciders(x.proposal)
         /\ proposals'[x.proposal].status # proposals[x.proposal].status =>
              \E c \in Deciders(x.proposal) :
                proposals'[x.proposal].status = calls[c].call.op
<1> DEFINE p == x.proposal
<1>1. p \in ProposalIds /\ proposals[p].status \in {"approved", "rejected"}
  BY DEF Kept, DecisionsAreKept
<1>2. /\ calls \in [Clients -> Calls]
      /\ proposals \in [ProposalIds -> ProposalNodes]
  BY DEF Kept, NodesAreTyped
<1> HIDE DEF p
(* What changes one call at most, to one that decides nothing.             *)
<1>3. ASSUME NEW c \in Clients, NEW call, call.op # "deciding",
             calls' = [calls EXCEPT ![c] = call] \/ calls' = calls
      PROVE  Deciders(p)' \subseteq Deciders(p)
  BY <1>2, <1>3 DEF Deciders
<1>4. ASSUME NEW c \in Clients, NEW again, Return(c, again), again.op # "deciding"
      PROVE  Deciders(p)' \subseteq Deciders(p)
  BY <1>3, <1>4, IdleDecidesNothing DEF Return
<1>5. CASE Tick \/ Migrate \/ UNCHANGED vars
  <2>1. UNCHANGED <<calls, proposals>>
    BY <1>5 DEF Tick, Migrate, PlanMigration, ImportRecord, ImportRefused, vars, workflow
  <2> QED
    BY <2>1 DEF Deciders, p
<1>6. ASSUME NEW c \in Clients, Call(c)
      PROVE  Deciders(p)' \subseteq Deciders(p) /\ UNCHANGED proposals
  <2>1. PICK call : Start(c, call) /\ call.op # "deciding"
    <3>1. ASSUME NEW key, NEW preview, StartSave(c, key, preview)
          PROVE  \E call : Start(c, call) /\ call.op # "deciding"
      BY <3>1 DEF StartSave
    <3>2. ASSUME NEW q, NEW who, NEW decision \in {"approved", "rejected"},
                 StartDecision(c, q, decision, who)
          PROVE  \E call : Start(c, call) /\ call.op # "deciding"
      BY <3>2 DEF StartDecision
    <3>3. ASSUME NEW a, StartApply(c, a)
          PROVE  \E call : Start(c, call) /\ call.op # "deciding"
      BY <3>3 DEF StartApply
    <3>4. ASSUME NEW key, NEW record, StartUsage(c, key, record)
          PROVE  \E call : Start(c, call) /\ call.op # "deciding"
      BY <3>4 DEF StartUsage
    <3> QED
      BY <1>6, <3>1, <3>2, <3>3, <3>4 DEF Call
  <2> QED
    BY <1>3, <2>1 DEF Start
<1>7. ASSUME NEW c \in Clients, RollBackSave(c) \/ RefuseApply(c) \/ Abandon(c)
      PROVE  Deciders(p)' \subseteq Deciders(p) /\ UNCHANGED proposals
  <2>1. calls' = [calls EXCEPT ![c] = Idle] /\ UNCHANGED proposals
    BY <1>7 DEF RollBackSave, RefuseApply, Abandon
  <2> QED
    BY <1>3, <2>1, IdleDecidesNothing
<1>8. ASSUME NEW c \in Clients, CommitUsage(c)
      PROVE  Deciders(p)' \subseteq Deciders(p) /\ UNCHANGED proposals
  <2>1. Return(c, calls[c]) /\ calls[c].op = "usage" /\ UNCHANGED proposals
    BY <1>8 DEF CommitUsage
  <2> QED
    BY <1>4, <2>1
<1>9. ASSUME NEW c \in Clients, CommitSave(c)
      PROVE  Deciders(p)' \subseteq Deciders(p) /\ proposals'[p] = proposals[p]
  <2>1. Return(c, calls[c]) /\ calls[c].op = "save"
    BY <1>9 DEF CommitSave
  <2>2. Deciders(p)' \subseteq Deciders(p)
    BY <1>4, <2>1
  <2> DEFINE same == Merged(calls[c].key)
             q == IF same # {} THEN Min(same) ELSE Min(FreeProposals)
             node == [status |-> "pending_approval", key |-> calls[c].key,
                      preview |-> calls[c].preview, expires |-> now + Ttl]
  <2>3. /\ proposals' = IF same # {} THEN proposals ELSE [proposals EXCEPT ![q] = node]
        /\ same # {} \/ FreeProposals # {}
    BY <1>9 DEF CommitSave
  <2>4. same = {} => q \in FreeProposals
    BY <2>3, MinIsMember DEF FreeProposals, ProposalIds
  <2>5. same = {} => p # q
    BY <1>1, <2>4 DEF FreeProposals
  <2> HIDE DEF same, q, node
  <2> QED
    BY <1>1, <1>2, <2>2, <2>3, <2>5
<1>10. ASSUME NEW c \in Clients, MatchDecision(c)
       PROVE  Deciders(p)' \subseteq Deciders(p) /\ UNCHANGED proposals
  <2> DEFINE next == [op |-> "deciding", call |-> calls[c],
                      matched |-> StillPending(calls[c].proposal)]
  <2>1. calls' = [calls EXCEPT ![c] = next] /\ UNCHANGED proposals
    BY <1>10 DEF MatchDecision
  <2>2. next.call.proposal = p => ~next.matched
    BY <1>1 DEF StillPending, Pending
  <2> HIDE DEF next
  <2> QED
    BY <1>2, <2>1, <2>2 DEF Deciders
<1>11. ASSUME NEW c \in Clients, CommitDecision(c)
       PROVE  /\ Deciders(p)' \subseteq Deciders(p)
              /\ proposals'[p].status # proposals[p].status =>
                   \E d \in Deciders(p) : proposals'[p].status = calls[d].call.op
  <2> DEFINE call == calls[c].call
  <2>1. /\ call.op \in {"approved", "rejected"} /\ calls[c].op = "deciding"
        /\ Return(c, call)
        /\ \/ proposals' = proposals
           \/ /\ calls[c].matched
              /\ proposals' = [proposals EXCEPT ![call.proposal].status = call.op]
    BY <1>11, DecisionWrites
  <2>2. Deciders(p)' \subseteq Deciders(p)
    BY <1>4, <2>1
  <2>3. ASSUME proposals'[p].status # proposals[p].status
        PROVE  c \in Deciders(p) /\ proposals'[p].status = call.op
    <3>1. calls[c].matched /\ call.proposal = p
      BY <1>1, <1>2, <2>1, <2>3
    <3>2. proposals'[p].status = call.op
      BY <1>1, <1>2, <2>1, <2>3, <3>1 DEF ProposalNodes
    <3> QED
      BY <2>1, <3>1, <3>2 DEF Deciders
  <2> QED
    BY <2>2, <2>3
<1>12. ASSUME NEW c \in Clients, Finish(c)
       PROVE  /\ Deciders(p)' \subseteq Deciders(p)
              /\ proposals'[p].status # proposals[p].status =>
                   \E d \in Deciders(p) : proposals'[p].status = calls[d].call.op
  BY <1>7, <1>8, <1>9, <1>10, <1>11, <1>12 DEF Finish
<1> QED
  BY <1>5, <1>6, <1>12 DEF Next, p

(* Once an approval or a rejection was confirmed, whoever matches the      *)
(* proposal later is refused, and so is the same transaction when it runs  *)
(* again: only decisions under way by then can still take its place.       *)
THEOREM DecisionsRefuseLaterOnes == Spec => LateDecisionsAreRefused
<1>1. Kept /\ [Next]_vars =>
        [\A x \in granted :
           LET p == x.proposal IN
           /\ Deciders(p)' \subseteq Deciders(p)
           /\ proposals'[p].status # proposals[p].status =>
                \E c \in Deciders(p) : proposals'[p].status = calls[c].call.op]_vars
  BY LateStep
<1> QED
  BY <1>1, KeptAlways, PTL DEF Spec, LateDecisionsAreRefused

(* record_usage_observation counts a key once, however often it commits.   *)
THEOREM UsagesAreIdempotent == Spec => []UsageCountedOnce
<1>1. Kept => UsageCountedOnce
  BY DEF Kept
<1> QED
  BY <1>1, KeptAlways, PTL

(* After any migrations, in any order and wherever one stopped, an         *)
(* identifier that two imported memories claim names neither of them.      *)
THEOREM ClaimsAreNotResolved == Spec => []ContestedIdentifiersDoNotResolve
<1>1. Kept => ContestedIdentifiersDoNotResolve
  <2> SUFFICES ASSUME Kept, NEW x \in Imported, NEW y \in Imported,
                      x # y, x[1] = y[1], Resolves(x[1])
               PROVE  FALSE
    BY DEF ContestedIdentifiersDoNotResolve
  <2> DEFINE a == x[1]
             nodes == {z \in aliases : z.alias = a}
             named == FamiliesNamed(a)
  <2>1. ~Contested(a)
    BY DEF Resolves, Contested
  <2>2. /\ AliasNode(a, x, "resolved") \in aliases
        /\ AliasNode(a, y, "resolved") \in aliases
    BY <2>1 DEF Kept, ImportsAreNamed
  <2>3. x \in named /\ y \in named
    <3>1. \A f : AliasNode(a, f, "resolved").alias = a
                 /\ AliasNode(a, f, "resolved").family = f
      BY DEF AliasNode
    <3> QED
      BY <2>2, <3>1 DEF FamiliesNamed
  <2>4. IsFiniteSet(nodes)
    BY FS_Subset DEF Kept, ImportsAreNamed
  <2>5. named = {z.family : z \in nodes}
    BY DEF FamiliesNamed
  <2> HIDE DEF nodes
  <2>6. [z \in nodes |-> z.family] \in Surjection(nodes, named)
    BY <2>5 DEF Surjection
  <2>7. IsFiniteSet(named)
    BY <2>4, <2>6, FS_Surjection
  <2>8. Cardinality(named) = 1
    BY DEF Resolves
  <2>9. PICK z : named = {z}
    BY <2>7, <2>8, FS_Singleton
  <2> QED
    BY <2>3, <2>9
<1> QED
  BY <1>1, KeptAlways, PTL

(* get_view calls an imported memory active exactly when                   *)
(* list_effective_revisions returns it for the present.                    *)
THEOREM ImportedReadingsAgree == Spec => []ReadingsAgree
<1>1. Kept => ReadingsAgree
  <2> SUFFICES ASSUME Kept, NEW record \in Imported
               PROVE  Effective(record, now, now) <=> View(record) = "active"
    BY DEF ReadingsAgree
  <2>1. /\ records[record].status \in {"active", "archived"}
        /\ records[record].at \in Nat /\ records[record].row \in Rows
    BY DEF Kept, NodesAreTyped, Imports, Imported, NoImport
  <2>2. /\ records[record].row.from \in Nat /\ records[record].row.to \in Nat
        /\ now \in Nat
    BY <2>1, Neo4jAssumption DEF Kept, NodesAreTyped
  <2>3. records[record].at <= now
    BY DEF Kept, ImportsAreNamed
  <2> QED
    BY <2>1, <2>2, <2>3 DEF Effective, View
<1> QED
  BY <1>1, KeptAlways, PTL
=============================================================================

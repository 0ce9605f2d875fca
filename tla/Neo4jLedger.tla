---------------------------- MODULE Neo4jLedger ----------------------------
(***************************************************************************)
(* Neo4jMemoryLedger, the ledger that the container builds by default.     *)
(* There is no lock: a method reads in one transaction, decides, and       *)
(* writes in another, so the writes of two callers fall between the two.   *)
(* The driver runs a transaction again when it does not learn that it was  *)
(* committed.                                                              *)
(*                                                                         *)
(* The isolation is Neo4j's own, read committed.  A MERGE on a key with a  *)
(* uniqueness constraint locks that key, so of two at once the second one  *)
(* finds the node of the first.  A MATCH takes no lock: a SET waits for    *)
(* the lock of the node that was matched, and does not ask again whether   *)
(* it still matches.                                                       *)
(*                                                                         *)
(* _save_approval_transaction writes neither the status nor the preview    *)
(* hash that _assert_approval_is_current asks for, so no apply passes that *)
(* first statement of its transaction.  What would follow it is never      *)
(* reached and has no action here: the canonical nodes come from           *)
(* import_legacy alone.                                                    *)
(***************************************************************************)
EXTENDS Backfill, Integers, FiniteSets, FiniteSetsExt

CONSTANTS
  Clients,       \* concurrent callers
  Keys,          \* idempotency keys
  NoKey,         \* a proposal without one
  Previews,      \* preview hashes
  Snapshots,     \* the conflict cases that each preview lists
  Operators,     \* who decides
  MaxProposal,   \* bound on the proposal nodes
  MaxApproval,   \* bound on the approval nodes
  MaxLost,       \* bound on commits whose answer is lost
  MaxRuns,       \* bound on migrations
  MaxTime,       \* bound on the clock
  Ttl            \* lifetime of a proposal

ProposalIds == 1..MaxProposal
NoRecord == <<>>

ASSUME Neo4jAssumption ==
  /\ MaxProposal \in Nat /\ MaxTime \in Nat /\ Ttl \in Nat
  /\ NoKey \notin Keys
  /\ Snapshots \in [Previews -> SUBSET [id: Nat, hash: Nat]]
  /\ Listings \subseteq Seq(Rows)
  /\ \A row \in Rows :
       /\ DOMAIN row = {"legacy", "value", "status", "count", "from", "to"}
       /\ row.status \in RowStatuses
       /\ {row.count, row.from, row.to} \subseteq Nat

VARIABLES
  now,        \* the clock
  proposals,  \* ChangeProposal nodes
  approvals,  \* ApprovalDecision nodes: the proposal, who decided, a.status
  cases,      \* ConflictCase nodes
  calls,      \* what each client has read and is about to write
  saved,      \* answers of save_proposal: key, preview and proposal
  granted,    \* decisions confirmed to their caller
  refused,    \* applies refused as already consumed or altered
  usages,     \* UsageObservation nodes: key and payload
  records,    \* what import_legacy has stored of each record
  aliases,    \* MemoryAlias nodes
  plan,       \* the rest of the running migration
  runs,       \* migrations started
  lost        \* answers lost

workflow == <<proposals, approvals, cases, calls, saved, granted, refused>>
canonical == <<records, aliases, plan, runs>>
vars == <<now, workflow, usages, canonical, lost>>

Idle == [op |-> "idle"]

NoProposal == [status |-> "none", key |-> NoKey, preview |-> 0, expires |-> 0]

NoImport == [status |-> "none", at |-> 0, row |-> NoRecord]
-----------------------------------------------------------------------------
(* The second half of a call: its transaction commits, and the call either *)
(* returns or, when the answer is lost, runs it again from its beginning.  *)
Return(c, again) ==
  \/ /\ calls' = [calls EXCEPT ![c] = Idle]
     /\ UNCHANGED lost
  \/ /\ lost < MaxLost
     /\ lost' = lost + 1
     /\ calls' = [calls EXCEPT ![c] = again]

Returned(c) == calls'[c] = Idle

(* The caller is cancelled or dies between the two.                        *)
Abandon(c) ==
  /\ calls[c] # Idle
  /\ calls' = [calls EXCEPT ![c] = Idle]
  /\ UNCHANGED <<now, proposals, approvals, cases, saved, granted, refused,
                 usages, canonical, lost>>

Start(c, call) ==
  /\ calls[c] = Idle
  /\ calls' = [calls EXCEPT ![c] = call]
  /\ UNCHANGED <<now, proposals, approvals, cases, saved, granted, refused,
                 usages, canonical, lost>>
-----------------------------------------------------------------------------
(* save_proposal.                                                          *)

FreeProposals == {p \in ProposalIds : proposals[p].status = "none"}

Holders(key) ==
  {p \in ProposalIds : proposals[p].status # "none" /\ proposals[p].key = key}

(* Mutant: MERGE is on the identifier of the proposal only.                *)
Merged_ById(key) == {}

(* MERGE is on the idempotency key when there is one.                      *)
Merged(key) == IF key = NoKey THEN {} ELSE Holders(key)

(* A key that is in use answers at once: with its proposal, or an error    *)
(* when the preview differs.                                               *)
StartSave(c, key, preview) ==
  /\ \/ key = NoKey
     \/ Holders(key) = {}
  /\ Start(c, [op |-> "save", key |-> key, preview |-> preview])

(* A case that exists with another snapshot undoes the transaction.  (Its  *)
(* MATCH and the MERGE after it are taken together.)                       *)
CasesAgree(preview) ==
  \A s \in Snapshots[preview], x \in cases : s.id = x.id => s = x

(* The cases are written even when the key gives back another proposal.    *)
CommitSave(c) ==
  LET call == calls[c]
      same == Merged(call.key)
      p == IF same # {} THEN Min(same) ELSE Min(FreeProposals)
  IN
  /\ call.op = "save"
  /\ CasesAgree(call.preview)
  /\ same # {} \/ FreeProposals # {}
  /\ proposals' =
       IF same # {} THEN proposals
       ELSE [proposals EXCEPT
              ![p] = [status |-> "pending_approval", key |-> call.key,
                      preview |-> call.preview, expires |-> now + Ttl]]
  /\ cases' = cases \cup Snapshots[call.preview]
  /\ Return(c, call)
  /\ saved' = IF Returned(c) /\ proposals'[p].preview = call.preview /\ call.key # NoKey
              THEN saved \cup {[key |-> call.key, preview |-> call.preview, proposal |-> p]}
              ELSE saved
  /\ UNCHANGED <<now, approvals, granted, refused, usages, canonical>>

RollBackSave(c) ==
  /\ calls[c].op = "save"
  /\ ~CasesAgree(calls[c].preview)
  /\ calls' = [calls EXCEPT ![c] = Idle]
  /\ UNCHANGED <<now, proposals, approvals, cases, saved, granted, refused,
                 usages, canonical, lost>>
-----------------------------------------------------------------------------
(* save_approval and reject_proposal.                                      *)

Pending(p) == proposals[p].status = "pending_approval"

StartDecision(c, p, decision, who) ==
  /\ Pending(p)
  /\ decision = "approved" => proposals[p].expires > now
  /\ Start(c, [op |-> decision, proposal |-> p, who |-> who])

(* Mutant: the proposal is written as get_proposal read it.                *)
StillPending_Assumed(p) == TRUE

(* The condition of the MATCH.                                             *)
StillPending(p) == Pending(p)

(* The transaction has matched the proposal, or not.                       *)
MatchDecision(c) ==
  LET call == calls[c] IN
  /\ call.op \in {"approved", "rejected"}
  /\ calls' = [calls EXCEPT ![c] =
       [op |-> "deciding", call |-> call, matched |-> StillPending(call.proposal)]]
  /\ UNCHANGED <<now, proposals, approvals, cases, saved, granted, refused,
                 usages, canonical, lost>>

(* The clients that have matched a proposal and will write it.             *)
Deciders(p) ==
  {c \in Clients : /\ calls[c].op = "deciding" /\ calls[c].matched
                   /\ calls[c].call.proposal = p}

(* The statement creates the ApprovalDecision before it looks for the      *)
(* pending proposal: the caller gets an error and the node stays.  It sets *)
(* no a.status.                                                            *)
ApprovalNode(p, who) == [proposal |-> p, by |-> who, status |-> ""]

(* What was matched is written, whatever became of it since.               *)
CommitDecision(c) ==
  LET call == calls[c].call
      p == call.proposal
      node == ApprovalNode(p, call.who)
  IN
  /\ calls[c].op = "deciding"
  /\ call.op = "approved" => Cardinality(approvals \cup {node}) <= MaxApproval
  /\ approvals' = IF call.op = "approved" THEN approvals \cup {node} ELSE approvals
  /\ proposals' = IF calls[c].matched THEN [proposals EXCEPT ![p].status = call.op]
                  ELSE proposals
  /\ Return(c, call)
  /\ granted' = IF calls[c].matched /\ Returned(c)
                THEN granted \cup {[proposal |-> p, decision |-> call.op, who |-> call.who]}
                ELSE granted
  /\ UNCHANGED <<now, cases, saved, refused, usages, canonical>>
-----------------------------------------------------------------------------
(* apply_approved.  An expired proposal is refused and stays approved.     *)

StartApply(c, a) ==
  /\ a \in approvals
  /\ proposals[a.proposal].status = "approved"
  /\ proposals[a.proposal].expires > now
  /\ Start(c, [op |-> "apply", proposal |-> a.proposal, approval |-> a])

ApprovalIsCurrent(p, a) ==
  proposals[p].status = "approved" /\ a.status = "issued"

(* ApprovalError is not the error that marks a proposal as stale: nothing  *)
(* is written.                                                             *)
RefuseApply(c) ==
  LET call == calls[c] IN
  /\ call.op = "apply"
  /\ ~ApprovalIsCurrent(call.proposal, call.approval)
  /\ refused' = refused \cup
       {[proposal |-> call.proposal, status |-> proposals[call.proposal].status]}
  /\ calls' = [calls EXCEPT ![c] = Idle]
  /\ UNCHANGED <<now, proposals, approvals, cases, saved, granted, usages,
                 canonical, lost>>
-----------------------------------------------------------------------------
(* record_usage_observation, of a procedure that was imported.             *)

Imported == {record \in Records : records[record].status # "none"}

StartUsage(c, key, record) ==
  /\ record \in Imported
  /\ \A u \in usages : u.key # key
  /\ Start(c, [op |-> "usage", key |-> key, payload |-> record])

(* Mutant: the observation is created, not merged.                         *)
KnownUsages_None(key) == {}

KnownUsages(key) == {u \in usages : u.key = key}

CommitUsage(c) ==
  LET call == calls[c] IN
  /\ call.op = "usage"
  /\ usages' = IF KnownUsages(call.key) # {} THEN usages
               ELSE usages \cup {[key |-> call.key, payload |-> call.payload]}
  /\ Return(c, call)
  /\ UNCHANGED <<now, proposals, approvals, cases, saved, granted, refused, canonical>>
-----------------------------------------------------------------------------
(* import_legacy: one transaction for each record.                         *)

PlanMigration(listing) ==
  /\ plan = <<>>
  /\ runs < MaxRuns
  /\ runs' = runs + 1
  /\ plan' = Planned(listing)
  /\ UNCHANGED <<now, workflow, usages, records, aliases, lost>>

AliasNode(a, record, status) == [alias |-> a, family |-> record, status |-> status]

(* Mutant: the rows of the alias are replaced by the new one.              *)
AliasesAfter_Replaced(entry) ==
  {x \in aliases : x.alias # entry.row.legacy} \cup
  {IF entry.ambiguous THEN AliasNode(entry.row.legacy, NoRecord, "ambiguous")
   ELSE AliasNode(entry.row.legacy, RecordOf(entry.row), "resolved")}

(* A node for each family that has the alias and one, without a family,    *)
(* for its quarantine, which takes the place of the record's own.          *)
AliasesAfter(entry) ==
  LET own == AliasNode(entry.row.legacy, RecordOf(entry.row), "resolved")
  IN IF entry.ambiguous
     THEN (aliases \ {own}) \cup {AliasNode(entry.row.legacy, NoRecord, "ambiguous")}
     ELSE aliases \cup {own}

Refuses(entry) ==
  LET known == records[RecordOf(entry.row)]
  IN known.status # "none" /\ known.row.count # entry.row.count

(* The family, the evidence, the revision and the event are merged; the    *)
(* transition is written again, with the state and the instant of this     *)
(* import.                                                                 *)
ImportRecord ==
  LET entry == Head(plan)
      record == RecordOf(entry.row)
      first == IF records[record].status = "none" THEN entry.row ELSE records[record].row
  IN
  /\ plan # <<>>
  /\ ~Refuses(entry)
  /\ records' = [records EXCEPT
       ![record] = [status |-> ImportedState(entry.row), at |-> now, row |-> first]]
  /\ aliases' = AliasesAfter(entry)
  /\ plan' = Tail(plan)
  /\ UNCHANGED <<now, workflow, usages, runs, lost>>

(* The error ends apply: the records after this one are not imported.      *)
ImportRefused ==
  /\ plan # <<>>
  /\ Refuses(Head(plan))
  /\ plan' = <<>>
  /\ UNCHANGED <<now, workflow, usages, records, aliases, runs, lost>>
-----------------------------------------------------------------------------
(* Reading.                                                                *)

(* resolve_alias: the family of the only row, unless one is in quarantine. *)
FamiliesNamed(a) == {x.family : x \in {y \in aliases : y.alias = a}}

Resolves(a) ==
  /\ Cardinality(FamiliesNamed(a)) = 1
  /\ \A x \in aliases : x.alias = a => x.status # "ambiguous"

(* Mutant: a memory is still active at the instant its validity ends.      *)
View_OffByOne(record) ==
  LET row == records[record].row
  IN IF records[record].status # "active" THEN records[record].status
     ELSE IF row.from > now THEN "scheduled"
     ELSE IF row.to # 0 /\ row.to < now THEN "invalidated"
     ELSE "active"

(* get_view of an imported revision, which is always a head.               *)
View(record) ==
  LET row == records[record].row
  IN IF records[record].status # "active" THEN records[record].status
     ELSE IF row.from > now THEN "scheduled"
     ELSE IF row.to # 0 /\ row.to <= now THEN "invalidated"
     ELSE "active"

(* list_effective_revisions: recorded_from is the date of the legacy row,  *)
(* before anything here.                                                   *)
Effective(record, valid, recorded) ==
  LET known == records[record]
  IN /\ known.status # "none"
     /\ known.row.from <= valid
     /\ known.row.to = 0 \/ valid < known.row.to
     /\ ~(known.status = "archived" /\ known.at <= recorded)
-----------------------------------------------------------------------------
Tick ==
  /\ now < MaxTime
  /\ now' = now + 1
  /\ UNCHANGED <<workflow, usages, canonical, lost>>

Init ==
  /\ now = 1
  /\ proposals = [p \in ProposalIds |-> NoProposal]
  /\ approvals = {}
  /\ cases = {}
  /\ calls = [c \in Clients |-> Idle]
  /\ saved = {}
  /\ granted = {}
  /\ refused = {}
  /\ usages = {}
  /\ records = [record \in Records |-> NoImport]
  /\ aliases = {}
  /\ plan = <<>>
  /\ runs = 0
  /\ lost = 0

Call(c) ==
  \/ \E key \in Keys \cup {NoKey}, preview \in Previews : StartSave(c, key, preview)
  \/ \E p \in ProposalIds, decision \in {"approved", "rejected"}, who \in Operators :
       StartDecision(c, p, decision, who)
  \/ \E a \in approvals : StartApply(c, a)
  \/ \E key \in Keys, record \in Records : StartUsage(c, key, record)

Finish(c) ==
  \/ CommitSave(c)
  \/ RollBackSave(c)
  \/ MatchDecision(c)
  \/ CommitDecision(c)
  \/ RefuseApply(c)
  \/ CommitUsage(c)
  \/ Abandon(c)

Migrate ==
  \/ \E listing \in Listings : PlanMigration(listing)
  \/ ImportRecord
  \/ ImportRefused

Next ==
  \/ Tick
  \/ \E c \in Clients : Call(c) \/ Finish(c)
  \/ Migrate

Spec == Init /\ [][Next]_vars
-----------------------------------------------------------------------------
(* Properties.                                                             *)

(* One key is one proposal, whoever races for it and however often the     *)
(* driver runs the transaction: all who were answered have the same one,   *)
(* and it says what they asked for.                                        *)
OneProposalPerKey ==
  /\ \A key \in Keys : Cardinality(Holders(key)) <= 1
  /\ \A x \in saved : proposals[x.proposal].key = x.key
                      /\ proposals[x.proposal].preview = x.preview

(* A confirmed decision is changed by nobody who looks at the proposal     *)
(* after it, nor by its own transaction run again: its status changes only *)
(* to what a client decides that had matched it before                     *)
(* (_save_approval_transaction, _reject_transaction).  Of those who match  *)
(* at the same time all are told that their decision holds: the code does  *)
(* not exclude it, and neither does this.                                  *)
LateDecisionsAreRefused ==
  [][\A x \in granted :
       LET p == x.proposal IN
       /\ Deciders(p)' \subseteq Deciders(p)
       /\ proposals'[p].status # proposals[p].status =>
            \E c \in Deciders(p) : proposals'[p].status = calls[c].call.op]_vars

(* A usage reported twice, at once or again after a lost answer, is        *)
(* counted once.                                                           *)
UsageCountedOnce == \A u, w \in usages : u.key = w.key => u = w

(* An identifier that two imported memories have names neither of them,    *)
(* in whatever order the listings came and wherever a migration stopped.   *)
ContestedIdentifiersDoNotResolve ==
  \A x, y \in Imported : x # y /\ x[1] = y[1] => ~Resolves(x[1])

(* get_view and list_effective_revisions read the present the same way.    *)
ReadingsAgree ==
  \A record \in Imported : Effective(record, now, now) <=> View(record) = "active"

(* An apply is refused as "já foi consumida ou alterada" only when         *)
(* somebody did consume or alter the proposal.                             *)
RefusalsAreTrue ==
  \A x \in refused : x.status # "approved"
=============================================================================

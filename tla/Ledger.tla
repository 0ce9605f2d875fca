------------------------------- MODULE Ledger -------------------------------
(***************************************************************************)
(* The canonical memory ledger of DecisionsSearch: the state kept by       *)
(* InMemoryMemoryLedger, the proposals ProposalService builds, the local   *)
(* approval boundary and the compare-and-set apply.                        *)
(*                                                                         *)
(*   - A family is a logical memory; its head selects the published        *)
(*     revision.  Revisions are never rewritten: only recorded_to of a     *)
(*     parent is set when its successor is published.                      *)
(*   - An agent proposes, an operator other than the requester approves,   *)
(*     and apply_approved publishes if the heads frozen in the preview are *)
(*     still the heads.                                                    *)
(*                                                                         *)
(* Every method of the code that changes state holds the ledger's lock, so *)
(* each is one action here.  A propose_* method reads before save_proposal *)
(* takes the lock, but what it read is frozen in the proposal and checked  *)
(* again by the apply, so it is one action as well; the one reading that   *)
(* nothing checks again (the alias of propose_create) is as stale when two *)
(* proposals are pending as when two calls interleave.                     *)
(*                                                                         *)
(* Identifiers are the naturals 1 .. Max..., allocated in order, with 0    *)
(* for "none"; uuid4 never repeats.  A family has one scope and one branch *)
(* (_normalize_existing_family_content refuses any other), so a head is    *)
(* keyed by the family alone.  Texts, hashes and evidence are abstracted   *)
(* into a content value.  MERGE, UNMERGE and RESOLVE_CONFLICT are in       *)
(* module LedgerMerge, which adds them to this one.                        *)
(***************************************************************************)
EXTENDS Integers, Sequences, FiniteSets, FiniteSetsExt

CONSTANTS
  MaxFamily, MaxRevision, MaxProposal,  \* bounds on the identifiers in use
  MaxTime,        \* bound on the clock
  Ttl,            \* lifetime of a proposal (24 h in the code)
  Values,         \* what a memory says
  LegacyIds,      \* external identifiers a client may bring
  NoAlias,        \* no external identifier
  Contents,       \* the snapshots a client may submit
  RelationTypes,  \* types a client may give to a LINK
  Keys,           \* idempotency keys a client may choose
  Requesters,     \* who proposes
  Operators,      \* who approves or rejects
  Operations      \* the operations proposed in this instance

None == 0
NoKey == <<>>
FamilyIds == 1..MaxFamily
RevisionIds == 1..MaxRevision
ProposalIds == 1..MaxProposal

(* A family without an external identifier is known by an alias made from  *)
(* its own id (legacy_memory_id_for_family).                               *)
AliasNames == LegacyIds \cup FamilyIds

(* from and to are the validity window; 0 stands for no limit.  related is *)
(* the one entry of related_memory_ids.                                    *)
ContentType ==
  [value: Values, from: Nat, to: Nat, related: AliasNames \cup {NoAlias}]

WellFormedWindow(c) == c.to = None \/ c.to > c.from

ASSUME BoundsAssumption ==
  /\ MaxFamily \in Nat /\ MaxRevision \in Nat /\ MaxProposal \in Nat
  /\ MaxTime \in Nat /\ Ttl \in Nat \ {0}

ASSUME AliasAssumption ==
  /\ LegacyIds \cap FamilyIds = {}
  /\ NoAlias \notin AliasNames

ASSUME ContentAssumption ==
  /\ Values # {}
  /\ Contents \subseteq ContentType
  /\ \A c \in Contents : WellFormedWindow(c)

StateChanges == {"invalidate", "supersede", "archive"}
Creations == {"create", "create_and_link"}
Revising == {"update", "rollback"} \cup StateChanges

OperationNames ==
  Creations \cup Revising \cup {"link", "merge", "unmerge", "resolve_conflict"}

ASSUME OperationAssumption == Operations \subseteq OperationNames

VARIABLES
  now,          \* the clock
  families,     \* MemoryFamily by id
  revisions,    \* MemoryRevision by id
  heads,        \* MemoryHead by family
  sequence,     \* _sequence
  aliases,      \* the rows of the alias table
  relations,    \* RelationAssertion
  transitions,  \* RevisionTransition, in the order they were appended
  proposals,    \* ChangeProposal by id
  approvals,    \* ApprovalDecision by the id of its proposal
  outbox        \* OutboxEvent as published

ledgerVars == <<now, families, revisions, heads, sequence, aliases, relations,
                transitions, proposals, approvals, outbox>>

(* What publication writes, and what the approval workflow writes.         *)
canonical == <<families, revisions, heads, sequence, aliases, relations,
               transitions, outbox>>
-----------------------------------------------------------------------------
(* Records.  An identifier not in use maps to a record that says so.       *)

NoContent == [value |-> CHOOSE v \in Values : TRUE,
              from |-> None, to |-> None, related |-> NoAlias]

NoFamily == [state |-> "none", legacy |-> NoAlias, mergedInto |-> None]

NoRevision ==
  [family |-> None, version |-> 0, parents |-> {}, content |-> NoContent,
   rollbackOf |-> None, proposal |-> None, actor |-> "",
   from |-> None, to |-> None]

NoHead == [revision |-> None, sequence |-> 0]

NoProposal ==
  [status |-> "none", operation |-> "none", target |-> None,
   content |-> NoContent, legacy |-> NoAlias, base |-> {}, expected |-> {},
   restore |-> None, relation |-> "", relationTarget |-> None,
   replacement |-> None, manifest |-> None, conflict |-> {},
   conflictVersion |-> 0, key |-> NoKey, requestedBy |-> "", expires |-> None,
   appliedRevision |-> None]

NoApproval == [status |-> "none", by |-> "", expected |-> {}]

RevisionStates ==
  {"active", "superseded", "invalidated", "archived", "scheduled"}
ProposalStatuses ==
  {"none", "pending_approval", "approved", "rejected", "applied", "stale",
   "expired", "conflicted"}
ApprovalStatuses == {"none", "issued", "consumed"}
-----------------------------------------------------------------------------
(* Reading the ledger.                                                     *)

Published(r) == r \in RevisionIds /\ revisions[r].version # 0

Proposed(p) == p \in ProposalIds /\ proposals[p].status # "none"

HasHead(f) == heads[f].revision # None

HeadPair(f) == <<f, heads[f].revision>>

(* The families of the rows of an alias that are not retired.              *)
ResolvedFamilies(rows, a) ==
  {row.family : row \in {x \in rows : x.alias = a /\ x.status = "resolved"}}

(* resolve_alias: the families of the rows that are not retired.  A single *)
(* one is a resolution, several are AMBIGUOUS, and so is an alias that one *)
(* of its rows puts in quarantine (only the migration writes such a row).  *)
Quarantined(rows, a) ==
  \E row \in rows : row.alias = a /\ row.status = "ambiguous"

(* Mutant: the other rows of a quarantined alias still answer.             *)
FamiliesNamed_Unquarantined(rows, a) == ResolvedFamilies(rows, a)

FamiliesNamed(rows, a) ==
  {row.family : row \in {x \in rows : /\ x.alias = a
                                      /\ x.status = "resolved"
                                      /\ ~Quarantined(rows, a)}}

AliasFamilies(a) == FamiliesNamed(aliases, a)

Resolves(a) == Cardinality(AliasFamilies(a)) = 1

AliasFamily(a) == CHOOSE f \in AliasFamilies(a) : TRUE

(* get_view: the last transition that touches the revision gives its       *)
(* state; the validity window then turns an active one into a scheduled or *)
(* an expired one.                                                         *)
RecordedState(r) ==
  LET touching ==
        {i \in 1..Len(transitions) :
           r \in transitions[i].from \cup transitions[i].to}
      last == transitions[Max(touching)]
  IN IF touching = {}
     THEN IF \E f \in FamilyIds : heads[f].revision = r
          THEN "active" ELSE "superseded"
     ELSE IF r \in last.to THEN last.state ELSE "superseded"

(* Mutant: a memory is still active at the instant its validity ends.      *)
View_OffByOne(r) ==
  LET content == revisions[r].content
      recorded == RecordedState(r)
  IN IF recorded # "active" THEN recorded
     ELSE IF content.from > now THEN "scheduled"
     ELSE IF content.to # None /\ content.to < now THEN "invalidated"
     ELSE "active"

View(r) ==
  LET content == revisions[r].content
      recorded == RecordedState(r)
  IN IF recorded # "active" THEN recorded
     ELSE IF content.from > now THEN "scheduled"
     ELSE IF content.to # None /\ content.to <= now THEN "invalidated"
     ELSE "active"

(* list_effective_revisions, for one family, as known at time recorded and *)
(* about time valid.                                                       *)
Reactivations(r) ==
  {transitions[i].at :
     i \in {j \in 1..Len(transitions) :
              r \in transitions[j].to /\ transitions[j].state = "active"}}

RecordedAt(r, recorded) ==
  /\ revisions[r].from <= recorded
  /\ \/ revisions[r].to = None
     \/ recorded < revisions[r].to
     \/ /\ Reactivations(r) # {}
        /\ revisions[r].to <= Max(Reactivations(r))
        /\ Max(Reactivations(r)) <= recorded

RetiredAt(r, recorded) ==
  \E i \in 1..Len(transitions) :
    /\ r \in transitions[i].to
    /\ transitions[i].state \in {"invalidated", "archived"}
    /\ transitions[i].at <= recorded

EffectiveRows(f, valid, recorded) ==
  {r \in RevisionIds : /\ Published(r)
                       /\ revisions[r].family = f
                       /\ RecordedAt(r, recorded)
                       /\ revisions[r].content.from <= valid
                       /\ ~RetiredAt(r, recorded)}

(* The latest valid_from wins, then the latest recorded_from.              *)
Precedes(r, s) ==
  \/ revisions[r].content.from < revisions[s].content.from
  \/ /\ revisions[r].content.from = revisions[s].content.from
     /\ \/ revisions[r].from < revisions[s].from
        \/ revisions[r].from = revisions[s].from /\ r <= s

Effective(f, valid, recorded) ==
  LET rows == EffectiveRows(f, valid, recorded)
      chosen == CHOOSE s \in rows : \A r \in rows : Precedes(r, s)
      until == revisions[chosen].content.to
  IN IF rows # {} /\ (until = None \/ valid < until) THEN chosen ELSE None

(* list_active_revisions.                                                  *)
EffectiveNow(f) == Effective(f, now, now)
-----------------------------------------------------------------------------
(* ProposalService.  A proposal is a frozen preview: it carries the heads  *)
(* it was built on (expected), the revisions it will succeed (base) and an *)
(* expiry.                                                                 *)

FreeProposals == {p \in ProposalIds : proposals[p].status = "none"}

Draft(operation, who) ==
  [NoProposal EXCEPT !.status = "pending_approval", !.operation = operation,
                     !.requestedBy = who, !.expires = now + Ttl]

(* save_proposal.  A key in use gives back the proposal that holds it, or  *)
(* an error when the preview differs: nothing is written either way.       *)
KeyUnused(k) == k = NoKey \/ \A p \in ProposalIds : proposals[p].key # k

Save(proposal) ==
  /\ FreeProposals # {}
  /\ KeyUnused(proposal.key)
  /\ proposals' = [proposals EXCEPT ![Min(FreeProposals)] = proposal]
  /\ UNCHANGED <<now, canonical, approvals>>

ProposeCreate(content, legacy, key, who) ==
  /\ "create" \in Operations
  /\ ~Resolves(legacy)
  /\ Save([Draft("create", who) EXCEPT
             !.content = content, !.legacy = legacy, !.key = key])

ProposeCreateAndLink(content, legacy, t, who) ==
  /\ "create_and_link" \in Operations
  /\ HasHead(t)
  /\ View(heads[t].revision) = "active"
  /\ Save([Draft("create_and_link", who) EXCEPT
             !.content = content, !.legacy = legacy,
             !.expected = {HeadPair(t)},
             !.relation = "REFINES", !.relationTarget = t,
             !.key = <<"create-and-link", t, content, legacy>>])

ProposeUpdate(f, content, key, who) ==
  /\ "update" \in Operations
  /\ HasHead(f)
  /\ View(heads[f].revision) = "active"
  /\ Save([Draft("update", who) EXCEPT
             !.target = f, !.content = content,
             !.base = {heads[f].revision}, !.expected = {HeadPair(f)},
             !.key = key])

(* propose_rollback does not ask whether the head it names is current, nor *)
(* in which state either revision is: the apply will compare the head.     *)
ProposeRollback(f, current, restored, who) ==
  /\ "rollback" \in Operations
  /\ \A r \in {current, restored} : Published(r) /\ revisions[r].family = f
  /\ Save([Draft("rollback", who) EXCEPT
             !.target = f, !.content = revisions[restored].content,
             !.base = {current}, !.expected = {<<f, current>>},
             !.restore = restored])

(* INVALIDATE, SUPERSEDE and ARCHIVE publish the head's content with a     *)
(* validity that ends when the change is proposed; the content validator   *)
(* refuses a window that ends before it starts.                            *)
ProposeStateChange(f, operation, replacement, who) ==
  LET content == [revisions[heads[f].revision].content EXCEPT !.to = now]
      replaces == replacement # None
  IN
  /\ operation \in Operations \cap StateChanges
  /\ HasHead(f)
  /\ WellFormedWindow(content)
  /\ replaces =>
       /\ replacement # f
       /\ families[replacement].state = "active"
       /\ HasHead(replacement)
       /\ View(heads[replacement].revision) = "active"
  /\ Save([Draft(operation, who) EXCEPT
             !.target = f, !.content = content,
             !.base = {heads[f].revision},
             !.expected = {HeadPair(f)} \cup
                          (IF replaces THEN {HeadPair(replacement)} ELSE {}),
             !.replacement = replacement,
             !.key = IF replaces
                     THEN <<"deprecate", operation, f, replacement>>
                     ELSE NoKey])

(* An active relation between the pair, in either direction, makes         *)
(* propose_link give back the proposal that created it.                    *)
Linked(f, t, type) ==
  \E x \in relations : /\ x.type = type
                       /\ x.state = "active"
                       /\ {x.source, x.target} = {f, t}

(* RELATED_TO is stored from the smaller id.  The service makes a key from *)
(* the stored pair when its caller brings none; the MCP tool brings one    *)
(* made from the pair as it was asked for.                                 *)
ProposeLink(source, target, type, prefix, who) ==
  LET swapped == type = "RELATED_TO" /\ source > target
      f == IF swapped THEN target ELSE source
      t == IF swapped THEN source ELSE target
  IN
  /\ "link" \in Operations
  /\ f # t
  /\ HasHead(f) /\ HasHead(t)
  /\ ~Linked(f, t, type)
  /\ Save([Draft("link", who) EXCEPT
             !.target = f, !.expected = {HeadPair(f), HeadPair(t)},
             !.relation = type, !.relationTarget = t,
             !.key = IF prefix = "link" THEN <<"link", type, source, target>>
                     ELSE <<"relation", type, f, t>>])
-----------------------------------------------------------------------------
(* LocalApprovalBoundary, save_approval and reject_proposal.               *)

(* Mutant: anyone may approve what they asked for.                         *)
MayApprove_Anyone(p, who) == who \in Operators

MayApprove(p, who) == who \in Operators /\ who # proposals[p].requestedBy

Approve(p, who) ==
  /\ proposals[p].status = "pending_approval"
  /\ proposals[p].expires > now
  /\ MayApprove(p, who)
  /\ approvals' = [approvals EXCEPT
       ![p] = [status |-> "issued", by |-> who,
               expected |-> proposals[p].expected]]
  /\ proposals' = [proposals EXCEPT ![p].status = "approved"]
  /\ UNCHANGED <<now, canonical>>

(* reject_proposal does not compare the principal with the requester.      *)
Reject(p, who) ==
  /\ proposals[p].status = "pending_approval"
  /\ who \in Operators
  /\ proposals' = [proposals EXCEPT ![p].status = "rejected"]
  /\ UNCHANGED <<now, canonical, approvals>>
-----------------------------------------------------------------------------
(* apply_approved.                                                         *)

Live(p) == proposals[p].expires > now

(* Mutant: the heads are not compared.                                     *)
HeadsMatch_Skipped(p) == TRUE

HeadsMatch(p) ==
  \A pair \in proposals[p].expected : heads[pair[1]].revision = pair[2]

(* The two refusals that leave a trace: the exception is raised after the  *)
(* status is written.  Expiry is only noticed by an apply.                 *)
Expire(p) ==
  /\ proposals[p].status = "approved"
  /\ ~Live(p)
  /\ proposals' = [proposals EXCEPT ![p].status = "expired"]
  /\ UNCHANGED <<now, canonical, approvals>>

Stale(p) ==
  /\ proposals[p].status = "approved"
  /\ Live(p)
  /\ ~HeadsMatch(p)
  /\ proposals' = [proposals EXCEPT ![p].status = "stale"]
  /\ UNCHANGED <<now, canonical, approvals>>

Applicable(p) ==
  /\ proposals[p].status = "approved"
  /\ approvals[p].status = "issued"
  /\ Live(p)
  /\ HeadsMatch(p)
  /\ approvals[p].expected = proposals[p].expected

(* _consume: with the writes it follows, one instant of the clock.         *)
Consume(p, revision) ==
  /\ approvals' = [approvals EXCEPT ![p].status = "consumed"]
  /\ proposals' = [proposals EXCEPT ![p].status = "applied",
                                    ![p].appliedRevision = revision]
  /\ now < MaxTime
  /\ now' = now + 1

FreeRevisions == {r \in RevisionIds : revisions[r].version = 0}
FreeFamilies == {f \in FamilyIds : families[f].state = "none"}

NextVersion(base) ==
  IF base = {} THEN 1 ELSE Max({revisions[r].version : r \in base}) + 1

(* Mutant: the operation's name is taken for a state.                      *)
TargetState_Named(operation) == operation

TargetState(operation) ==
  CASE operation = "invalidate" -> "invalidated"
    [] operation = "archive" -> "archived"
    [] operation = "supersede" -> "superseded"
    [] OTHER -> "active"

NewRevision(p, f) ==
  [family |-> f, version |-> NextVersion(proposals[p].base),
   parents |-> proposals[p].base, content |-> proposals[p].content,
   rollbackOf |-> proposals[p].restore, proposal |-> p,
   actor |-> approvals[p].by, from |-> now, to |-> None]

(* Mutant: a scheduled revision closes its parents too.                    *)
Closes_Always(p, r) == r \in proposals[p].base

(* A parent's recorded window is closed unless the new revision is         *)
(* scheduled for later.                                                    *)
Closes(p, r) ==
  /\ r \in proposals[p].base
  /\ \/ proposals[p].operation \in StateChanges
     \/ proposals[p].content.from <= now
  /\ revisions[r].to = None \/ revisions[r].to > now

(* Mutant: a parent is closed as of when the change was proposed.          *)
PublishRevision_Backdated(p, f, new) ==
  revisions' =
    [r \in RevisionIds |->
       IF r = new THEN NewRevision(p, f)
       ELSE IF Closes(p, r) THEN [revisions[r] EXCEPT !.to = proposals[p].expires - Ttl]
       ELSE revisions[r]]

(* Mutant: closing a parent also ends the validity it stated.              *)
PublishRevision_Rewriting(p, f, new) ==
  revisions' =
    [r \in RevisionIds |->
       IF r = new THEN NewRevision(p, f)
       ELSE IF Closes(p, r) THEN [revisions[r] EXCEPT !.to = now, !.content.to = now]
       ELSE revisions[r]]

PublishRevision(p, f, new) ==
  revisions' =
    [r \in RevisionIds |->
       IF r = new THEN NewRevision(p, f)
       ELSE IF Closes(p, r) THEN [revisions[r] EXCEPT !.to = now]
       ELSE revisions[r]]

(* The transition to the new revision.  The code also appends one from     *)
(* each parent, which every reader takes the same way as this one.         *)
NewTransition(p, new) ==
  [from |-> proposals[p].base, to |-> {new},
   state |-> TargetState(proposals[p].operation), at |-> now]

Assertion(p, source, target, sourceRevision, targetRevision, type) ==
  [source |-> source, target |-> target, sourceRevision |-> sourceRevision,
   targetRevision |-> targetRevision, type |-> type, proposal |-> p,
   state |-> "active"]

(* related_memory_ids becomes a LEARNED_FROM relation when the alias names *)
(* one other family, read after this apply's own alias and head.  Unlike   *)
(* resolve_alias, the apply does not look for a quarantine.                *)
LearnedFrom(p, f, new, rows) ==
  LET named == ResolvedFamilies(rows, proposals[p].content.related)
  IN {Assertion(p, f, t, new, heads[t].revision, "LEARNED_FROM") :
        t \in {x \in named \ {f} : Cardinality(named) = 1 /\ HasHead(x)}}

Refinement(p, f, new) ==
  LET t == proposals[p].relationTarget
  IN IF proposals[p].operation = "create_and_link"
     THEN {Assertion(p, f, t, new, heads[t].revision, "REFINES")} ELSE {}

(* The replaced side is the revision the change was based on.              *)
Deprecation(p, f) ==
  LET t == proposals[p].replacement
  IN IF t = None THEN {}
     ELSE {Assertion(p, t, f, heads[t].revision, r, "DEPRECATES") :
             r \in proposals[p].base}

(* Mutant: the event takes the number before the publication.              *)
Event_Unnumbered(kind, f, r, operation, state, available) ==
  [kind |-> kind, family |-> f, revision |-> r, operation |-> operation,
   state |-> state, sequence |-> sequence, available |-> available]

Event(kind, f, r, operation, state, available) ==
  [kind |-> kind, family |-> f, revision |-> r, operation |-> operation,
   state |-> state, sequence |-> sequence + 1, available |-> available]

(* Mutant: nothing announces the end of a validity.                        *)
PublicationEvents_NoExpiry(p, f, new) ==
  {Event("head", f, new, proposals[p].operation, TargetState(proposals[p].operation),
         Max({now, proposals[p].content.from}))}

(* The events of a publication share its sequence: the head's change (kept *)
(* back until a scheduled revision starts), the end of its validity, and   *)
(* the relation created with it.                                           *)
PublicationEvents(p, f, new) ==
  LET q == proposals[p]
      c == q.content
  IN {Event("head", f, new, q.operation, TargetState(q.operation),
            Max({now, c.from}))}
     \cup (IF c.to > now
           THEN {Event("expiry", f, new, "validity_expired", "", c.to)} ELSE {})
     \cup (IF q.operation = "create_and_link"
           THEN {Event("relation", f, None, q.operation, "", now)} ELSE {})

AliasRow(a, f) == [alias |-> a, family |-> f, status |-> "resolved"]

(* The commit.  rows is the alias table it leaves; a merge also retires    *)
(* the heads of its source families and brings relations and events.       *)
Commit(p, f, rows, retired, asserted, events) ==
  LET new == Min(FreeRevisions)
  IN
  /\ FreeRevisions # {}
  /\ PublishRevision(p, f, new)
  /\ heads' = [g \in FamilyIds |->
       IF g = f THEN [revision |-> new, sequence |-> sequence + 1]
       ELSE IF g \in retired THEN NoHead ELSE heads[g]]
  /\ sequence' = sequence + 1
  /\ aliases' = rows
  /\ transitions' = Append(transitions, NewTransition(p, new))
  /\ relations' = relations \cup LearnedFrom(p, f, new, rows) \cup asserted
                           \cup Refinement(p, f, new) \cup Deprecation(p, f)
  /\ outbox' = outbox \cup PublicationEvents(p, f, new) \cup events
  /\ Consume(p, new)

Publish(p, f, legacy) ==
  Commit(p, f, aliases \cup {AliasRow(legacy, f)}, {}, {}, {})

ApplyCreate(p) ==
  LET q == proposals[p]
      f == Min(FreeFamilies)
      legacy == IF q.legacy = NoAlias THEN f ELSE q.legacy
  IN
  /\ Applicable(p)
  /\ q.operation \in Creations
  /\ FreeFamilies # {}
  /\ q.operation = "create_and_link" =>
       families[q.relationTarget].state = "active"
  /\ families' = [families EXCEPT
       ![f] = [state |-> "active", legacy |-> legacy, mergedInto |-> None]]
  /\ Publish(p, f, legacy)

ApplyRevise(p) ==
  LET f == proposals[p].target
  IN
  /\ Applicable(p)
  /\ proposals[p].operation \in Revising
  /\ families[f].state = "active"
  /\ Publish(p, f, families[f].legacy)
  /\ UNCHANGED families

SamePair(x, f, t) ==
  \/ x.source = f /\ x.target = t
  \/ x.type = "RELATED_TO" /\ x.source = t /\ x.target = f

(* Mutant: what is already asserted is not looked up.                      *)
Asserted_Unseen(f, t, type) == FALSE

Asserted(f, t, type) ==
  \E x \in relations : x.type = type /\ x.state = "active" /\ SamePair(x, f, t)

ApplyLink(p) ==
  LET q == proposals[p]
      f == q.target
      t == q.relationTarget
  IN
  /\ Applicable(p)
  /\ q.operation = "link"
  /\ ~Asserted(f, t, q.relation)
  /\ relations' = relations \cup
       {Assertion(p, f, t, heads[f].revision, heads[t].revision, q.relation)}
  /\ outbox' = outbox \cup {Event("relation", f, None, "link", "", now)}
  /\ sequence' = sequence + 1
  /\ Consume(p, None)
  /\ UNCHANGED <<families, revisions, heads, aliases, transitions>>
-----------------------------------------------------------------------------
Tick ==
  /\ now < MaxTime
  /\ now' = now + 1
  /\ UNCHANGED <<canonical, proposals, approvals>>

Init ==
  /\ now = 1
  /\ families = [f \in FamilyIds |-> NoFamily]
  /\ revisions = [r \in RevisionIds |-> NoRevision]
  /\ heads = [f \in FamilyIds |-> NoHead]
  /\ sequence = 0
  /\ aliases = {}
  /\ relations = {}
  /\ transitions = <<>>
  /\ proposals = [p \in ProposalIds |-> NoProposal]
  /\ approvals = [p \in ProposalIds |-> NoApproval]
  /\ outbox = {}

Propose ==
  \E who \in Requesters :
    \/ \E c \in Contents, a \in LegacyIds \cup {NoAlias},
          k \in Keys \cup {NoKey} : ProposeCreate(c, a, k, who)
    \/ \E c \in Contents, a \in LegacyIds \cup {NoAlias}, t \in FamilyIds :
         ProposeCreateAndLink(c, a, t, who)
    \/ \E f \in FamilyIds, c \in Contents, k \in Keys \cup {NoKey} :
         ProposeUpdate(f, c, k, who)
    \/ \E f \in FamilyIds, r, s \in RevisionIds : ProposeRollback(f, r, s, who)
    \/ \E f \in FamilyIds, o \in StateChanges, t \in FamilyIds \cup {None} :
         ProposeStateChange(f, o, t, who)
    \/ \E f, t \in FamilyIds, type \in RelationTypes,
          prefix \in {"link", "relation"} : ProposeLink(f, t, type, prefix, who)

Decide ==
  \E p \in ProposalIds :
    \/ \E who \in Operators : Approve(p, who) \/ Reject(p, who)
    \/ Expire(p)
    \/ Stale(p)

Apply ==
  \E p \in ProposalIds : ApplyCreate(p) \/ ApplyRevise(p) \/ ApplyLink(p)

Next == Tick \/ Propose \/ Decide \/ Apply

Spec == Init /\ [][Next]_ledgerVars
-----------------------------------------------------------------------------
(* Properties.                                                             *)

Families ==
  {NoFamily} \cup
  [state: {"active", "merged"}, legacy: AliasNames, mergedInto: FamilyIds \cup {None}]

Revisions ==
  [family: FamilyIds \cup {None}, version: Nat, parents: SUBSET RevisionIds,
   content: ContentType, rollbackOf: RevisionIds \cup {None},
   proposal: ProposalIds \cup {None}, actor: Operators \cup {""},
   from: Nat, to: Nat]

Heads == [revision: RevisionIds \cup {None}, sequence: Nat]

AliasRows == [alias: AliasNames, family: FamilyIds, status: {"resolved", "retired"}]

Relations ==
  [source: FamilyIds, target: FamilyIds,
   sourceRevision: RevisionIds, targetRevision: RevisionIds,
   type: RelationTypes \cup {"REFINES", "DEPRECATES", "LEARNED_FROM", "MERGED_INTO"},
   proposal: ProposalIds, state: {"active", "retired"}]

Transitions ==
  [from: SUBSET RevisionIds, to: SUBSET RevisionIds, state: RevisionStates, at: Nat]

Approvals ==
  [status: ApprovalStatuses, by: Operators \cup {""},
   expected: SUBSET (FamilyIds \X RevisionIds)]

Events ==
  [kind: {"head", "expiry", "relation"}, family: FamilyIds,
   revision: RevisionIds \cup {None},
   operation: OperationNames \cup {"merge_source_retired", "validity_expired"},
   state: RevisionStates \cup {""}, sequence: Nat, available: Nat]

(* What an idempotency key may be made of.                                 *)
KeyType ==
  {NoKey} \cup Keys
  \cup {"create-and-link"} \X FamilyIds \X Contents \X (LegacyIds \cup {NoAlias})
  \cup {"deprecate"} \X StateChanges \X FamilyIds \X FamilyIds
  \cup {"link", "relation"} \X RelationTypes \X FamilyIds \X FamilyIds

OperationOrNone == OperationNames \cup {"none"}
FamilyOrNone == FamilyIds \cup {None}
RevisionOrNone == RevisionIds \cup {None}
ProposalOrNone == ProposalIds \cup {None}
LegacyOrNone == LegacyIds \cup {NoAlias}
RequesterOrNone == Requesters \cup {""}
RelationOrNone == RelationTypes \cup {"", "REFINES"}
RevisionSets == SUBSET RevisionIds
HeadSets == SUBSET (FamilyIds \X RevisionIds)

Proposals ==
  [status: ProposalStatuses, operation: OperationOrNone, target: FamilyOrNone,
   content: ContentType, legacy: LegacyOrNone, base: RevisionSets,
   expected: HeadSets, restore: RevisionOrNone, relation: RelationOrNone,
   relationTarget: FamilyOrNone, replacement: FamilyOrNone,
   manifest: ProposalOrNone, conflict: RevisionSets, conflictVersion: Nat,
   key: KeyType, requestedBy: RequesterOrNone, expires: Nat,
   appliedRevision: RevisionOrNone]

TypeOK ==
  /\ now \in Nat /\ sequence \in Nat
  /\ families \in [FamilyIds -> Families]
  /\ revisions \in [RevisionIds -> Revisions]
  /\ heads \in [FamilyIds -> Heads]
  /\ aliases \subseteq AliasRows
  /\ relations \subseteq Relations
  /\ transitions \in Seq(Transitions)
  /\ proposals \in [ProposalIds -> Proposals]
  /\ approvals \in [ProposalIds -> Approvals]
  /\ outbox \subseteq Events

(* No update is lost: the revisions of a family are a single chain.  A     *)
(* version is used once, each successor has the version before it as its   *)
(* only parent, and the head is the last of the chain.  It is what         *)
(* comparing the heads at apply time buys: two proposals drafted on one    *)
(* head, or a rollback drafted on an old one, cannot both publish.         *)
LinearHistory ==
  /\ \A r, s \in RevisionIds :
       Published(r) /\ Published(s) /\ revisions[r].family = revisions[s].family
         /\ revisions[r].version = revisions[s].version => r = s
  /\ \A r \in RevisionIds : Published(r) =>
       /\ \A s \in revisions[r].parents :
            /\ revisions[s].family = revisions[r].family
            /\ revisions[s].version + 1 = revisions[r].version
       /\ revisions[r].version > 1 => Cardinality(revisions[r].parents) = 1
       /\ HasHead(revisions[r].family)
       /\ LET head == heads[revisions[r].family].revision
          IN revisions[r].version <= revisions[head].version

(* Nothing is published without a decision: the proposal of every revision *)
(* was approved by an operator who did not request it, the heads the       *)
(* operator saw include every parent, it was applied before it expired,    *)
(* and it produced this revision alone.                                    *)
Authorized ==
  \A r \in RevisionIds : Published(r) =>
    LET p == revisions[r].proposal
    IN /\ proposals[p].status = "applied"
       /\ proposals[p].appliedRevision = r
       /\ approvals[p].status = "consumed"
       /\ approvals[p].by = revisions[r].actor
       /\ revisions[r].actor # proposals[p].requestedBy
       /\ revisions[r].parents \subseteq {pair[2] : pair \in approvals[p].expected}
       /\ revisions[r].from < proposals[p].expires

(* Revisions are not rewritten: a step may only set recorded_to of a       *)
(* revision that had none, and never moves one that is set.                *)
RevisionsAreImmutable ==
  [][\A r \in RevisionIds : Published(r) =>
       \/ revisions'[r] = revisions[r]
       \/ /\ revisions[r].to = None
          /\ revisions'[r] = [revisions[r] EXCEPT !.to = now]]_ledgerVars

(* The past is not rewritten: what list_effective_revisions answered about *)
(* any moment, as known at a moment already gone, is what it answers ever  *)
(* after.                                                                  *)
HistoryIsStable ==
  [][\A f \in FamilyIds, valid \in 1..MaxTime, recorded \in 1..now - 1 :
       Effective(f, valid, recorded)' = Effective(f, valid, recorded)]_ledgerVars

(* The two readings of the present agree: list_active_revisions, computed  *)
(* from recorded windows and transitions, returns the head exactly when    *)
(* get_view calls it active ("O estado atual e derivado do head."), for    *)
(* the families none of whose revisions was published before its start.    *)
EffectiveFollowsHead ==
  \A f \in FamilyIds :
    (\A r \in RevisionIds : revisions[r].family = f =>
       revisions[r].content.from <= revisions[r].from)
    => EffectiveNow(f) =
         IF HasHead(f) /\ View(heads[f].revision) = "active"
         THEN heads[f].revision ELSE None

(* The outbox tells the history: every revision has one head event, the    *)
(* events of a family are numbered in the order of its versions, the head  *)
(* carries the number of its event, and no event of another publication    *)
(* has that number.                                                        *)
OutboxFollowsLineage ==
  LET headEvents == {e \in outbox : e.kind = "head"}
  IN /\ \A r \in RevisionIds : Published(r) =>
          Cardinality({e \in headEvents : e.revision = r}) = 1
     /\ \A d, e \in headEvents : d.family = e.family =>
          ( d.sequence < e.sequence <=>
              revisions[d.revision].version < revisions[e.revision].version )
     /\ \A e \in headEvents :
          heads[e.family].revision = e.revision =>
            heads[e.family].sequence = e.sequence
     /\ \A d \in outbox, e \in headEvents :
          d.sequence = e.sequence => d.family = e.family

(* However heads move between the decision and the apply, a relation joins *)
(* published revisions of the two different families that it names.  What  *)
(* an operator approved is what is asserted: those of a LINK, a refinement *)
(* or a deprecation are heads that the approval froze, or the revision     *)
(* published with the relation.  LEARNED_FROM is declared by the content   *)
(* and reads its target at the apply.                                      *)
RelationsAsApproved ==
  \A x \in relations :
    LET ends == {<<x.source, x.sourceRevision>>, <<x.target, x.targetRevision>>}
    IN  /\ x.source # x.target
        /\ \A e \in ends : Published(e[2]) /\ revisions[e[2]].family = e[1]
        /\ x.type # "LEARNED_FROM" =>
             \A e \in ends : \/ revisions[e[2]].proposal = x.proposal
                            \/ e \in approvals[x.proposal].expected

(* However the proposals interleave, a LINK is asserted once.              *)
LinksAreUnique ==
  \A x, y \in {z \in relations : z.state = "active" /\ proposals[z.proposal].operation = "link"} :
    x.type = y.type /\ SamePair(x, y.source, y.target) => x = y

(* A revision published before it starts changes nothing until then: what  *)
(* is in effect is what was known to be before it was published.           *)
ScheduledKeepsPredecessor ==
  \A f \in FamilyIds :
    LET head == heads[f].revision
    IN HasHead(f) /\ View(head) = "scheduled" =>
         EffectiveNow(f) = Effective(f, now, revisions[head].from - 1)

(* A memory whose head was invalidated, archived or superseded is not      *)
(* among the active ones.                                                  *)
RetiredMemoriesAreNotEffective ==
  \A f \in FamilyIds :
    HasHead(f) /\ View(heads[f].revision) \in {"invalidated", "archived", "superseded"} =>
      EffectiveNow(f) = None
=============================================================================

--------------------------- MODULE MCLedgerMerge ---------------------------
(* Instances of LedgerMerge and Consolidation for TLC.  Each behaviour     *)
(* follows one scenario, which chooses what the ledger holds first and     *)
(* bounds what is proposed.                                                *)
EXTENDS Consolidation, TLC

CONSTANTS noAlias, v1, v2, v3, j1, j2

VARIABLE scenario
mcVars == <<consolidationVars, scenario>>

Said0(v, to) == [value |-> v, from |-> 0, to |-> to, related |-> noAlias]

MCContents == {Said0(v1, 0), Said0(v3, 0)}

MCKeys ==
  {<<"expiry", r>> : r \in RevisionIds}
  \cup {<<"related", f, t>> : f, t \in FamilyIds}
  \cup {<<"merge", r, s>> : r, s \in RevisionIds}

MCSymmetry == Permutations(Jobs)

MCSimilar == {<<v1, v1>>, <<v1, v2>>, <<v2, v1>>}
MCContext == {<<v1, v3>>, <<v3, v1>>}

(* The family created last leads.                                          *)
MCRank == [f \in FamilyIds |-> MaxFamily - f]
-----------------------------------------------------------------------------
(* What the ledger holds once n memories have been created, approved and   *)
(* applied one after the other: a state that MergeSpec reaches, taken as   *)
(* the first one to keep the instances small.  Creation i took proposal i, *)
(* family i, revision i and instant i of the clock.                        *)
Created(i, content) ==
  [NoRevision EXCEPT !.family = i, !.version = 1, !.proposal = i,
                     !.actor = "op2", !.from = i, !.content = content]

Creation(i, content) ==
  [NoProposal EXCEPT !.status = "applied", !.operation = "create",
                     !.requestedBy = "op1", !.expires = 1 + Ttl,
                     !.content = content, !.appliedRevision = i]

CreationEvents(i, content) ==
  {[kind |-> "head", family |-> i, revision |-> i, operation |-> "create",
    state |-> "active", sequence |-> i, available |-> i]}
  \cup (IF content.to = 0 THEN {} ELSE
        {[kind |-> "expiry", family |-> i, revision |-> i,
          operation |-> "validity_expired", state |-> "", sequence |-> i,
          available |-> content.to]})

Memories(said) ==
  LET n == Len(said) IN
  /\ now = n + 1
  /\ families = [f \in FamilyIds |->
       IF f <= n THEN [state |-> "active", legacy |-> f, mergedInto |-> None]
       ELSE NoFamily]
  /\ revisions = [r \in RevisionIds |->
       IF r <= n THEN Created(r, said[r]) ELSE NoRevision]
  /\ heads = [f \in FamilyIds |->
       IF f <= n THEN [revision |-> f, sequence |-> f] ELSE NoHead]
  /\ sequence = n
  /\ aliases = {AliasRow(f, f) : f \in 1..n}
  /\ relations = {}
  /\ transitions = [i \in 1..n |->
       [from |-> {}, to |-> {i}, state |-> "active", at |-> i]]
  /\ proposals = [p \in ProposalIds |->
       IF p <= n THEN Creation(p, said[p]) ELSE NoProposal]
  /\ approvals = [p \in ProposalIds |->
       IF p <= n THEN [status |-> "consumed", by |-> "op2", expected |-> {}]
       ELSE NoApproval]
  /\ outbox = UNION {CreationEvents(i, said[i]) : i \in 1..n}
  /\ manifests = [p \in ProposalIds |-> NoManifest]
  /\ conflicts = {}

(* A merge of two families, of which one ends, undone, and what is         *)
(* published around it.                                                    *)
Unmerge ==
  [said |-> <<Said0(v1, 0), Said0(v1, 6)>>,
   operations |-> {"update", "link", "merge", "unmerge"},
   values |-> {v1}, proposals |-> 5, revisions |-> 4, time |-> 7, runs |-> FALSE]

(* Two memories that say different things: conflicts and resolutions.      *)
Resolve ==
  [said |-> <<Said0(v1, 0), Said0(v2, 0)>>,
   operations |-> {"merge", "resolve_conflict"},
   values |-> {v1, v3}, proposals |-> 5, revisions |-> 4, time |-> 5, runs |-> FALSE]

(* Runs of the consolidation over two duplicates, one of which ends, and a *)
(* change that makes them two memories in one context.                     *)
Runs ==
  [said |-> <<Said0(v1, 4), Said0(v1, 0)>>,
   operations |-> {"update"},
   values |-> {v3}, proposals |-> 5, revisions |-> 3, time |-> 4, runs |-> TRUE]

(* A merge drafted, resolved, drafted again and resolved again.            *)
Again ==
  [said |-> <<Said0(v1, 0), Said0(v2, 0)>>,
   operations |-> {"merge", "resolve_conflict"},
   values |-> {v1}, proposals |-> 6, revisions |-> 4, time |-> 5, runs |-> FALSE]

Within(s) ==
  /\ now' <= s.time
  /\ \A p \in ProposalIds \ 1..Len(s.said) :
       LET q == proposals'[p] IN
       q.status # "none" =>
         /\ p <= s.proposals
         /\ \/ q.requestedBy = Worker /\ s.runs
            \/ /\ q.requestedBy # Worker
               /\ q.operation \in s.operations
               /\ q.operation # "unmerge" => q.content.value \in s.values
  /\ \A r \in RevisionIds : revisions'[r].version # 0 => r <= s.revisions

MCPropose ==
  \/ \E c \in Contents : ProposeCreate(c, NoAlias, NoKey, "op1")
  \/ \E f \in FamilyIds, c \in Contents : ProposeUpdate(f, c, NoKey, "op1")
  \/ \E f, t \in FamilyIds, prefix \in {"link", "relation"} :
       ProposeLink(f, t, "RELATED_TO", prefix, "op1")

MCProposeMerging ==
  \/ \E f \in FamilyIds, base \in SUBSET RevisionIds, c \in Contents,
        declared \in BOOLEAN : ProposeMerge(f, base, c, declared, "op1")
  \/ \E m \in ProposalIds : ProposeUnmerge(m, "op1")
  \/ \E f \in FamilyIds, c \in Contents, case \in conflicts :
       ProposeResolveConflict(f, c, case, "op1")

(* Time passes by itself where validity ends, and once a merge has been    *)
(* recorded; before that nothing differs from one instant to the next.     *)
MCTick ==
  /\ scenario.runs \/ \E m \in ProposalIds : manifests[m] # NoManifest
  /\ Tick

MCStep ==
  \/ (MCTick \/ MCPropose \/ Decide \/ Apply) /\ UNCHANGED <<mergeVars, jobVars>>
  \/ ~scenario.runs /\ MCProposeMerging /\ UNCHANGED jobVars
  \/ ApplyMerging /\ UNCHANGED jobVars
  \/ scenario.runs /\ \E j \in Jobs : Consolidate(j)

MCNext == MCStep /\ Within(scenario) /\ UNCHANGED scenario

MCInit(s) == scenario = s /\ Memories(s.said) /\ ConsolidationInit

AnyScenario == MCInit(Unmerge) \/ MCInit(Resolve) \/ MCInit(Runs)
AgainScenario == MCInit(Again)

MCSpec == AnyScenario /\ [][MCNext]_mcVars
MCAgainSpec == AgainScenario /\ [][MCNext]_mcVars
=============================================================================

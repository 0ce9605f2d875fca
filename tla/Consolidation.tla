--------------------------- MODULE Consolidation ---------------------------
(***************************************************************************)
(* The daily consolidation over the ledger: ConsolidationService.          *)
(* propose_now, started by the scheduler's cron, at startup, or by a tool. *)
(*                                                                         *)
(* A run lists the revisions, proposes to invalidate the heads whose       *)
(* validity ended, lists the effective revisions and the relations, and    *)
(* goes over the pairs: two memories in a shared context may be related,   *)
(* two with similar titles are to be merged.  It only proposes.  What it   *)
(* listed is not read again, and every proposal is an await: other runs    *)
(* and the approval workflow go on in between.  The first proposal that is *)
(* refused ends the run.                                                   *)
(***************************************************************************)
EXTENDS LedgerMerge

CONSTANTS
  Jobs,      \* who starts runs: one of each at a time (max_instances=1)
  Worker,    \* consolidation_worker, the requester
  Similar,   \* pairs of values whose titles are nearly the same
  Context,   \* pairs of values with a file, or a module and a domain, shared
  Rank,      \* the order of titles and ids: the target of a merge comes first
  MaxStarts  \* bound on the runs

ASSUME ConsolidationAssumption ==
  /\ Worker \notin Requesters
  /\ Similar \subseteq Values \X Values
  /\ Context \subseteq Values \X Values
  /\ Rank \in [FamilyIds -> Nat]
  /\ MaxStarts \in Nat

VARIABLES
  jobs,    \* what each run is doing
  starts   \* runs started

jobVars == <<jobs, starts>>
consolidationVars == <<vars, jobVars>>

IdleJob ==
  [phase |-> "idle", status |-> "none", began |-> 0, left |-> {}, related |-> {}]
-----------------------------------------------------------------------------
(* Submitting a draft.                                                     *)

HoldersOf(key) == {p \in ProposalIds : key # NoKey /\ proposals[p].key = key}

(* What the preview hash is made of.                                       *)
SamePreview(q, draft) ==
  /\ q.operation = draft.operation /\ q.target = draft.target
  /\ q.content = draft.content /\ q.base = draft.base
  /\ q.expected = draft.expected /\ q.relationTarget = draft.relationTarget

Continue(j, left) == jobs' = [jobs EXCEPT ![j].left = left]

Fail(j) == jobs' = [jobs EXCEPT ![j] = [IdleJob EXCEPT !.status = "failed"]]

(* save_proposal: a known key gives back its proposal if the preview is    *)
(* the same, whatever became of it, and is an error otherwise.             *)
Submit(j, draft, left) ==
  \/ /\ HoldersOf(draft.key) = {}
     /\ Save(draft)
     /\ Continue(j, left)
  \/ /\ HoldersOf(draft.key) # {}
     /\ IF \A p \in HoldersOf(draft.key) : SamePreview(proposals[p], draft)
        THEN Continue(j, left) ELSE Fail(j)
     /\ UNCHANGED ledgerVars

Refuse(j) == Fail(j) /\ UNCHANGED ledgerVars
-----------------------------------------------------------------------------
(* run_job_now and the tool memory.consolidate.                            *)

Start(j) ==
  /\ jobs[j].phase = "idle"
  /\ starts < MaxStarts
  /\ starts' = starts + 1
  /\ jobs' = [jobs EXCEPT ![j] =
       [phase |-> "expire", status |-> "running", began |-> now, related |-> {},
        left |-> {r \in RevisionIds : Published(r)}]]
  /\ UNCHANGED vars

(* The validity of the revision ended, and it is still the head.           *)
Expired(r) ==
  /\ revisions[r].content.to \in 1..now
  /\ heads[revisions[r].family].revision = r

(* Mutant: an expiry has no key.                                           *)
ExpiryKey_None(r) == NoKey

ExpiryKey(r) == <<"expiry", r>>

ExpiryOf(r) ==
  LET f == revisions[r].family
  IN [Draft("invalidate", Worker) EXCEPT
        !.target = f,
        !.content = [revisions[heads[f].revision].content EXCEPT !.to = now],
        !.base = {heads[f].revision}, !.expected = {HeadPair(f)},
        !.key = ExpiryKey(r)]

ProposeExpiry(j) ==
  LET r == Min(jobs[j].left)
  IN
  /\ jobs[j].phase = "expire" /\ jobs[j].left # {}
  /\ IF Expired(r) THEN Submit(j, ExpiryOf(r), jobs[j].left \ {r})
     ELSE Continue(j, jobs[j].left \ {r}) /\ UNCHANGED ledgerVars
  /\ UNCHANGED <<mergeVars, starts>>

(* The effective revisions, in pairs, and the families already related.    *)
ListPairs(j) ==
  LET active == {EffectiveNow(f) : f \in FamilyIds} \ {None}
  IN
  /\ jobs[j].phase = "expire" /\ jobs[j].left = {}
  /\ jobs' = [jobs EXCEPT ![j] =
       [@ EXCEPT !.phase = "pairs",
                 !.left = {pair \in active \X active : pair[1] < pair[2]},
                 !.related = {{x.source, x.target} :
                                x \in {z \in relations : z.state = "active"}}]]
  /\ UNCHANGED <<vars, starts>>

(* The pairs are taken in the order of the listing.                        *)
NextPair(left) ==
  CHOOSE x \in left :
    \A y \in left : x[1] < y[1] \/ (x[1] = y[1] /\ x[2] <= y[2])

Said(r) == revisions[r].content.value

Related(j, r, s) ==
  /\ <<Said(r), Said(s)>> \notin Similar
  /\ <<Said(r), Said(s)>> \in Context
  /\ {revisions[r].family, revisions[s].family} \notin jobs[j].related

SuggestionKey(kind, f, t) == <<kind, f, t>>

(* propose_link: the proposal of a relation that was asserted meanwhile is *)
(* given back.                                                             *)
ProposeRelated(j) ==
  LET pair == NextPair(jobs[j].left)
      left == jobs[j].left \ {pair}
      joined == {revisions[pair[1]].family, revisions[pair[2]].family}
      f == Min(joined)
      t == Max(joined)
  IN
  /\ jobs[j].phase = "pairs" /\ jobs[j].left # {}
  /\ Related(j, pair[1], pair[2])
  /\ IF ~HasHead(f) \/ ~HasHead(t) THEN Refuse(j)
     ELSE IF Linked(f, t, "RELATED_TO")
     THEN Continue(j, left) /\ UNCHANGED ledgerVars
     ELSE Submit(j, [Draft("link", Worker) EXCEPT
                       !.target = f, !.expected = {HeadPair(f), HeadPair(t)},
                       !.relation = "RELATED_TO", !.relationTarget = t,
                       !.key = SuggestionKey("related", f, t)], left)
  /\ UNCHANGED <<mergeVars, starts>>

(* _merge_content: the target's fields, and the source's where it has none. *)
MergedContent(target, source) ==
  LET kept == revisions[target].content
      other == revisions[source].content
  IN [kept EXCEPT !.from = IF @ = None THEN other.from ELSE @,
                  !.to = IF @ = None THEN other.to ELSE @,
                  !.related = IF @ = NoAlias THEN other.related ELSE @]

(* Nothing is said of the fields that differ, so they are conflicts.       *)
MergeOf(r, s) ==
  LET target == IF Rank[revisions[r].family] <= Rank[revisions[s].family]
                THEN r ELSE s
      source == CHOOSE x \in {r, s} : x # target
  IN [Draft("merge", Worker) EXCEPT
        !.status = IF Diverge({r, s}) THEN "conflicted" ELSE "pending_approval",
        !.target = revisions[target].family,
        !.content = MergedContent(target, source), !.base = {r, s},
        !.expected = {HeadPair(revisions[r].family), HeadPair(revisions[s].family)},
        !.key = SuggestionKey("merge", r, s)]

Mergeable(j) ==
  LET pair == NextPair(jobs[j].left)
  IN /\ jobs[j].phase = "pairs" /\ jobs[j].left # {}
     /\ <<Said(pair[1]), Said(pair[2])>> \in Similar

(* A family without a head was merged since it was listed.  propose_merge  *)
(* refuses a revision that is not the head any more.                       *)
ProposeDuplicate(j) ==
  LET pair == NextPair(jobs[j].left)
      left == jobs[j].left \ {pair}
      draft == MergeOf(pair[1], pair[2])
      headed == \A i \in {1, 2} : HasHead(revisions[pair[i]].family)
      current == \A i \in {1, 2} : heads[revisions[pair[i]].family].revision = pair[i]
  IN
  /\ Mergeable(j)
  /\ IF ~headed THEN Continue(j, left) /\ UNCHANGED ledgerVars
     ELSE IF current /\ WellFormedWindow(draft.content)
     THEN Submit(j, draft, left)
     ELSE Refuse(j)
  /\ conflicts' =
       IF draft.status = "conflicted" /\ proposals' # proposals
       THEN {c \in conflicts : c.members # draft.base} \cup {Case(draft.base, "open", 1)}
       ELSE conflicts
  /\ UNCHANGED <<manifests, starts>>

PassOver(j) ==
  LET pair == NextPair(jobs[j].left)
  IN
  /\ jobs[j].phase = "pairs" /\ jobs[j].left # {}
  /\ ~Mergeable(j) /\ ~Related(j, pair[1], pair[2])
  /\ Continue(j, jobs[j].left \ {pair})
  /\ UNCHANGED <<vars, starts>>

Finish(j) ==
  /\ jobs[j].phase = "pairs" /\ jobs[j].left = {}
  /\ jobs' = [jobs EXCEPT ![j] = [IdleJob EXCEPT !.status = "completed"]]
  /\ UNCHANGED <<vars, starts>>
-----------------------------------------------------------------------------
ConsolidationInit ==
  /\ jobs = [j \in Jobs |-> IdleJob]
  /\ starts = 0

Consolidate(j) ==
  \/ Start(j)
  \/ ProposeExpiry(j)
  \/ ListPairs(j)
  \/ ProposeRelated(j)
  \/ ProposeDuplicate(j)
  \/ PassOver(j)
  \/ Finish(j)

ConsolidationNext ==
  \/ MergeNext /\ UNCHANGED jobVars
  \/ \E j \in Jobs : Consolidate(j)

ConsolidationSpec ==
  /\ MergeInit /\ ConsolidationInit
  /\ [][ConsolidationNext]_consolidationVars
-----------------------------------------------------------------------------
(* Properties.                                                             *)

(* However the runs overlap and however often they are repeated, an expiry,*)
(* a relation or a merge is suggested to the operators once, and not again *)
(* after they refused it.                                                  *)
SuggestedOnce ==
  \A p, q \in {x \in ProposalIds : Proposed(x) /\ proposals[x].requestedBy = Worker} :
    LET left == proposals[p]
        right == proposals[q]
    IN /\ left.operation = right.operation
       /\ left.target = right.target /\ left.base = right.base
       /\ left.relationTarget = right.relationTarget
       => p = q
=============================================================================

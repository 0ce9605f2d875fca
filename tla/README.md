# DecisionsSearch in TLA+

DecisionsSearch keeps the memory of a software team: decisions, rules, patterns, episodes. Its core is a
**canonical ledger**: an agent proposes a change, an operator approves it, and a compare-and-set apply publishes
an immutable revision; everything else (Qdrant, search, consolidation) is derived from what the ledger says.
This directory specifies the ledger and the services around it, checks them with TLC and proves the main safety
properties with TLAPS. Paths are relative to the repository; `AL` stands for
`src/src/application/memory/ledger/`, `AP` for `src/src/application/`, `PE` for `src/src/infrastructure/persistence/`.

    tlc -workers 2 -config MCLedger.cfg MCLedger     # any run: <run>.cfg with its MC module
    tlapm LedgerProofs.tla                           # the proofs: eight modules, one to five minutes each

## 1. The system

| Component | State | Operations | Interacts with |
|---|---|---|---|
| Ledger (`AL/in_memory_ledger.py`) | families, revisions, heads, aliases, relations, transitions, proposals, approvals, manifests, conflict cases, outbox, one `asyncio.Lock`, a sequence, a snapshot file | `save_proposal`, `save_approval`, `reject_proposal`, `apply_approved`, `get_view`, `list_effective_revisions`, outbox and snapshot calls, `import_legacy`, `record_usage_observation` | called by all services; its outbox feeds the materializer |
| Proposal service (`AL/services.py`) | none: reads the ledger, builds a frozen preview | one `propose_*` per operation; `LocalApprovalBoundary`; `LedgerApplyService` | reads, then `save_proposal`, without holding the lock between |
| Materializer (`AL/materializer.py`) | none of its own; claims in the outbox | `run_once`, `rebuild` | ledger, embeddings, Qdrant, with an `await` at each |
| Qdrant store (`PE/qdrant`) | a point per head, locks per process | upsert/delete of a head with a sequence comparison, `delete_orphaned_heads` | materializer, search |
| Neo4j ledger (`PE/neo4j/neo4j_memory_ledger.py`) | the same state as the ledger, in a graph | the same contract with managed transactions, no lock | the same callers |
| Migration (`AL/migration.py`) | none: a listing of legacy rows | `plan_all`, `apply` | both ledgers |
| Consolidation (`AP/memory/consolidation_service.py`) | none | `propose_now`, `reconcile_stores` | proposal service, jobs |
| Commit hook, admission (`AP/memory`) | a file of processed commits; the vector index it looks into | `capture`, the gates, `propose_candidate` | proposal service |
| Agent loop (`AP/agents`) | `_last_task_state`, one for all callers | pre-task context, post-task summary, reflection | search, proposals, usage |
| Error investigation (`AP/error_investigation`) | error nodes, investigations, times of the last fixes | ingest, suspects, investigate, fix | agent worker, GitHub |
| Jobs, daily scan (`AP/jobs`, `AP/pr_memory`) | run history | scheduled and manual runs, `run_scan` | consolidation, gh, proposals |
| Circuit breaker (`AP/shared`) | state, count, instant of the last failure | `call` | no caller yet |
| Search (`AP/search`) | none | `search`, `activate` | Qdrant, ledger |
| Catalog (`AP/catalog`, `PE/neo4j/neo4j_catalog_mixin.py`) | projects, categories, domains, relations in Neo4j | create, update, delete, CSV import and export | HTTP, MCP |
| Governance, notifications, workers, interfaces | logs, webhooks | I/O | everything |

What is hard here:

* **Interleaving.** Drafting, deciding and applying are calls of different actors at different times; heads move
  in between. Every service awaits between reading and writing, and most of them share something: the list of the
  last fixes, the one task state, the file of marks, a key, a node that `MERGE` finds or not.
* **Time.** Proposals expire, contents start later than their approval or end by themselves, and the ledger answers
  bitemporal questions (valid at, recorded at).
* **Undoing.** An unmerge restores the heads, aliases, families and relations of several memories from a manifest.
* **Delivery.** Outbox events are claimed with leases, retried, handled twice, given up after five attempts.
* **Failure.** A process dies between a step and its record, an answer to a commit is lost and the driver runs the
  transaction again, an import stops at a row, one repository of a scan fails.

What makes each part correct: the ledger keeps one chain of revisions per memory, publishes nothing without an
independent decision and never rewrites the past; its two readings of the present agree; relations say what was
approved; a merge can be undone exactly; a drained outbox leaves in Qdrant what the ledger calls active. Of the
services: what is repeated, at once or after a failure, counts once (proposals, usages, captures, suggestions), and a
cycle that nothing disturbed credits once; what fails in one place hides nothing elsewhere; what is shared admits no more than it says; what was read
at one time is not served or acted on as if it were now. `PROJECT.json` lists the hazards at their lines and the
property that watches each.

## 2. The modules

| Module | What it models |
|---|---|
| `Ledger` | state of the ledger, `propose_*` for CREATE, CREATE_AND_LINK, UPDATE, ROLLBACK, INVALIDATE, SUPERSEDE, ARCHIVE and LINK, approval, rejection, and `apply_approved` for them; its properties |
| `LedgerMerge` | extends `Ledger` with MERGE, UNMERGE and RESOLVE_CONFLICT, manifests and conflict cases |
| `Consolidation` | extends `LedgerMerge` with runs of the consolidation job |
| `Projection` | extends `Ledger` with outbox delivery, workers that run `run_once` step by step, `rebuild`, and Qdrant points |
| `Backfill` | what the migration makes of a listing: records, identifiers it finds twice, states |
| `LedgerIntake` | extends `Ledger` and `Backfill` with migrations, usage observations, the snapshot and a restart from it |
| `Capture` | extends `Ledger` with the commit hook, the admission gates and `propose_candidate` |
| `Neo4jLedger` | extends `Backfill`: the ledger over Neo4j, with calls in two halves and transactions that run again |
| `ReviewedLog`, `LedgerRefinement` | the abstract promise (each memory is a log, extended by one reviewed entry drafted on what it then says) and the refinement mapping from `Ledger` |
| `Investigation`, `CircuitBreaker`, `AgentLoop`, `DailyScan`, `Catalog`, `Search` | one service each |
| `LedgerProofs`, `LedgerReadingsProofs` | inductive invariants and proofs of `Ledger`: the history, and what is recorded and read of it |
| `LedgerRefinementProofs`, `LedgerMergeProofs` | the step simulation; merges, their undoing and the suggestions of `Consolidation` |
| `ProjectionProofs`, `Neo4jLedgerProofs` | delivery; the ledger without a lock |
| `IntakeProofs`, `ServicesProofs` | `LedgerIntake` and `Capture`; the six services |
| `MCLedger`, `MCLedgerMerge`, `MCProjection`, `MCLedgerIntake`, `MCNeo4jLedger`, `MCCapture`, `MCServices` | instances for TLC |

Correspondence with the code:

* **One action per critical section or await.** All writing methods of `InMemoryMemoryLedger` hold its lock, so each
  is one action. `propose_*` reads before `save_proposal` takes the lock; what it reads is frozen in the preview and
  compared again by the apply, so drafting is one action too. (The alias check of `propose_create` is compared by
  nothing later; two pending drafts show the same staleness as two interleaved calls.) In the services an action goes
  from one await to the next; a record for each coroutine holds what it has read.
* **Refusals** are guards: the call raises and nothing changed. The two refusals that do write, EXPIRED and STALE,
  are the actions `Expire` and `Stale`; like the code, they only happen when somebody tries to apply.
* **apply_approved** is `Commit`, shared by `ApplyCreate`, `ApplyRevise`, `ApplyMerge` and `ApplyResolveConflict`,
  in the code's order: revision and parents, head, aliases, transition, relations, outbox, consumption. `ApplyLink`
  and `ApplyUnmerge` are the code's early branches.
* **Time** is a counter. Every apply takes one instant (`Consume`), so no two publications share an instant, as
  with microsecond clocks; `Tick` passes time otherwise.
* **Identifiers** are naturals allocated in order, since `uuid4` never repeats; 0 stands for none. **Content** is a
  value, a validity window and one related alias; hashes, evidence, provenance and texts are left out. The preview
  hash is modelled by its effect: a proposal does not change once saved, and an approval carries what it froze
  (`approvals[p].expected`).
* **Scopes and branches.** A family has one (`_normalize_existing_family_content` refuses another), so heads are
  keyed by family.
* **Idempotency.** A key in use makes `save_proposal` return what is there or raise; both write nothing, so
  `KeyUnused` is a guard; where the caller goes on differently after each (`Capture`, `Consolidation`), so does the
  model. The keys the services build themselves are modelled as they are built.
* **Projection.** `run_once` is `Claim`, `Read`, `Write`, `Mark`; everybody else may step in between. `Upserted` and
  `Deleted` are the two sequence comparisons of the store, under the store's lock. A lease is a flag: it drops once
  its holder is gone, or, as one of the faults of a behaviour, while the holder still works.
* **Neo4j.** A call is `Start...` (what it reads) and `Commit...` (its transaction). `Return` may lose the answer, and
  then the transaction runs again; `Abandon` ends it between the two. The isolation is Neo4j's read committed: a `MERGE`
  locks a key with a uniqueness constraint, so it is one step (`Merged`); a `MATCH` locks nothing and a `SET` does not
  ask again, so a decision is two (`MatchDecision`, `CommitDecision`). The check of a conflict case and the `MERGE` after
  it are taken together.
* **Snapshot.** `SaveSnapshot` and `Restore` replace the whole state; what was acknowledged in between is gone, and
  the callers may ask again.
* **Investigation.** A handler's record goes through ingest, files, suspects, the agent, the fix and the completion.
  Without a uniqueness constraint two MERGEs may both create a node, which is `CreateError`.
* **Agent loop.** `served` is what each cycle was given, `lastState` whose state the service remembers; `disturbed`
  (a history variable) collects the cycles that another one overlapped or a failure met.
* **Catalog.** A reference is a slug, a name or an id, all sequences, because the queries compare one text with the
  three; a command is a list of rows, a bundle one for each of its four files, and each query on a row one action.
  `Imported` is the import without anybody beside it, as a fold over the rows.
* **Search.** The branches of `asyncio.gather` are read one by one while `Publish`, `Retire` and `Materialize` move
  heads and points. What Qdrant answers is any order of some points; rank fusion, diversification and the cuts are
  exact (`Scale`, the product of 60 + rank over the ranks there are, keeps 1/(60 + rank) integral); the composite
  score and the reranker may order the candidates in any way. Spreading activation goes twice over the relations, in
  the order in which the ledger lists them.

## 3. The runs

Passing runs. Each MC module bounds its behaviours by a *scenario* (`scenario`, `crew`, `focus`: a variable that
never changes), so that one run adds up instances that would multiply.

| Run | Question | Instance |
|---|---|---|
| `MCLedger` | Is the history one chain, authorized, immutable, stable about the past, told in order by the outbox? Do `get_view` and `list_effective_revisions` agree? Do relations join what was approved? Does the ledger implement `ReviewedLog`? | *History*: 1 family, 3 proposals, 3 revisions, 5 instants, Ttl 2 so that proposals expire; contents without window, ending at 4, starting at 4; the requester is also an operator. *Related*: 2 families, an external identifier, an episode that names it |
| `MCLedgerMerge` | Do merged memories forward, is an undone merge undone exactly, is a link asserted once, do heads keep their numbers in order? Does consolidation suggest each thing once? | *Unmerge*: 2 memories of which one ends, 3 further proposals among update, link, merge, unmerge. *Resolve*: 2 memories that differ, a third value. *Runs*: two jobs over duplicates of which one ends, an update beside them. Idle time passes where validity ends and once a merge is recorded |
| `MCProjection` | Is every due event settled, and by its holder only? Does Qdrant end up with the active revisions? | 2 proposals (update, invalidation, expiring content); a crew of one worker with 2 failures, crashes or late leases; a crew of two with 1, beside a rebuild; 2 attempts |
| `MCLedgerIntake` | Do migrations, repeated and beside other work, and restarts from an old snapshot keep the history one chain, leave contested identifiers unresolved and count a usage once? | 2 families, 2 proposals, 3 listings with one identifier, 2 migrations or restores, one usage key reported twice |
| `MCNeo4jLedger` | Do keys, usages and identifiers hold without a lock, and a confirmed decision against later ones? | 2 clients, one key, two previews that disagree on a conflict, 1 lost answer, 2 migrations |
| `MCCapture` | Is a commit captured once, and is a similar memory never overwritten by another? | 2 hooks, one commit, three candidates with two titles, 1 kill |
| `MCServices` | The property of each service, below | 2 events, cycles, scans or clients and 2 callers of the breaker; cycles serve 2 procedures and 1 memory; each service on its own |

The services: fixes start only while the window has room (`FixesWereAdmitted`); an error gives one pull request, by
the event that created its node (`PullsAreTraced`), and is open when it is seen after its resolution
(`ResolvedUntilSeenAgain`); the breaker is closed exactly below its threshold (`ClosedBelowThreshold`); a cycle that
nothing disturbed credits each procedure once (`CreditedOnce`); every repository of a scan is read to its end or reported,
and what it counts is remembered as it saw it (`EveryRepoIsAccounted`); an import that answered left what it said
(`ImportsAreWhole`), and an export rebuilds its catalog from nothing, from itself and from any interrupted import
(`RoundTrip`); activation is distance whatever the order of the relations (`ActivationIsDistance`), and a search
that nothing moved beside serves heads only (`CalmSearchIsExact`).

Why the bounds are enough: a lost update, a lost approval or a wrong parent needs two proposals on one head, and a
third to build upon the damage; a relation needs two families; an unmerge needs a merge, something between, and the
undoing. Two attempts instead of five change nothing in `mark_outbox` but when the counter ends. Two instants
after a scheduled start or an expiry are enough to see both sides of each comparison. A race for a key, a decision, a
mark, a window or a node needs two actors, and one failure shows what it interrupts; a third actor repeats what the
second does. Three memories are the fewest of which diversification drops one, and one listed relation leads outside
the project; the code's five seeds are two (`MaxSeeds`), so that three found memories are cut. `OneMemory` (`MCProjection`) and `Memories` (`MCLedgerMerge`) start from states that the specification
reaches from `Init` by creating memories one after the other; they only save the exploration of those creations.
Hooks, jobs, clients, operators and callers' cycles are symmetric where no liveness property
is checked. Deadlock is not checked: every bound makes the instance stop, and a service with nothing to do is at rest.

Each property has a mutant: a variant of one definition with a plausible bug (`HeadsMatch_Skipped`,
`Closes_Always`, `Holds_Expired`, ...), which TLC finds violated under the same cfg.

Runs that end in a counterexample, each a disagreement between the code and what its documentation, comments,
messages or tests say (details and quotations in `PROJECT.json`):

| Run | What happens |
|---|---|
| `MCLedger_retired` | update a memory with a later start, let it start, invalidate it: its first revision is listed as active again (the parent's recorded window was never closed) |
| `MCLedgerMerge_exclusive` | drafting the conflicting merge again reopens the resolved case at version 1, and a second resolution of version 1 is applied |
| `MCProjection_rebuild` | `rebuild` writes an old revision under a new head's number; the head's own event is then ignored |
| `MCNeo4jLedger_apply` | the approval is saved without the status and the hash that the apply matches: no approved proposal can be applied, and the refusal says it was consumed or altered |
| `MCServices_search` | a memory beyond the ledger's row limit is served with its point alone, a title without a body; while the projection lags, with the title of an old point and the body of the present revision |

`EffectiveFollowsHead` is about families without a revision published before its start, and `MCLedger_retired` is
why. `AloneSettlesActive` and `AloneConverges` are `SettledPointsAreActive` and `Converges` of one worker, no rebuild
beside it and no scheduled content; each exclusion is needed (section 5).

**Fairness** (module `Projection`, used by `MCProjection`). Weak fairness of the clock, of claiming, of each worker's
own steps and of the expiry of a lease whose holder is gone. The code runs `run_once` when somebody calls it and ships
no scheduler for it, so claiming again and again is an assumption about the deployment, and a worker's fairness says
that a call that does not crash returns. Nothing is assumed of proposers, operators, failures or crashes, which may
never come or come up to their bound. The other modules state safety only: the services await external systems
(models, gh, Neo4j) without a promise that these answer.

## 4. The proofs

TLAPS proves the following for every value of the constants that satisfies the named assumptions: any number of
memories, proposals, clients, workers, hooks, runs, failures. They state what the passing runs check on small
instances, but for what the end of this section lists.

| Theorem | Says of every behaviour |
|---|---|
| **`LedgerProofs`** | of `Ledger!Spec`, by the invariant `Inductive` |
| `TypeCorrect` | `TypeOK` |
| `HistoryIsLinear` | `LinearHistory`: versions are used once, a successor has one parent, the version before it, and the head is last |
| `PublicationIsAuthorized` | `Authorized`: each revision comes from one applied proposal, approved in time by somebody else, on heads that include its parents |
| `PublishedIsImmutable` | `RevisionsAreImmutable`: a step at most closes a recorded window that was open |
| **`LedgerReadingsProofs`** | of `Ledger!Spec`, by `Records` and `Timeline` |
| `RelationsSayWhatWasApproved` | `RelationsAsApproved` |
| `LinksAreAssertedOnce` | `LinksAreUnique` |
| `OutboxTellsTheHistory` | `OutboxFollowsLineage` |
| `ThePastIsKept` | `HistoryIsStable`: no step changes what is answered about a moment as known at an instant that is gone |
| `ReadingsOfThePresentAgree` | `EffectiveFollowsHead` |
| `ScheduledRevisionsWait` | `ScheduledKeepsPredecessor` |
| **`LedgerRefinementProofs`** | of `Ledger!Spec`, by `Mapped` |
| `LedgerImplementsReviewedLog` | `ImplementsReviewedLog`: each step is one of `ReviewedLog` under the mapping, or a stutter |
| **`LedgerMergeProofs`** | of `ConsolidationSpec` (ledger, merges, unmerges, resolutions and the runs), by `Forking` |
| `MergedMemoriesForward` | `MergedFamiliesForward` |
| `ForksComeFromUndoneMerges` | `ForksAreUndone` |
| `HeadsAreNumberedUp` | `HeadNumbersGrow` |
| `UnmergesRestore` | `UnmergeRestores`, by `Rewinding`: whatever happened in between, each family is read as if the merge had not been recorded |
| `NothingIsSuggestedTwice` | `SuggestedOnce` |
| `LinksStayUnique` | `LinksAreUnique`, with merges and unmerges around the links |
| `MergesAreAuthorized`, `MergesRewriteNothing` | `Authorized`, `RevisionsAreImmutable`, of the ledger with merges |
| **`ProjectionProofs`** | of `ProjectionSpec`, by `Dispatch` and `Convergent` |
| `EventsAreSettledOnce` | `OnlyTheHolderSettles` |
| `LoneWorkerSettles` | one worker, no rebuild: a drained outbox leaves the active revisions in Qdrant |
| **`Neo4jLedgerProofs`** | of `Neo4jLedger!Spec`, by `Kept` |
| `KeysAreIdempotent`, `UsagesAreIdempotent` | `OneProposalPerKey`, `UsageCountedOnce` |
| `DecisionsRefuseLaterOnes` | `LateDecisionsAreRefused`: a confirmed decision gives way only to one that had matched the proposal before it |
| `ClaimsAreNotResolved`, `ImportedReadingsAgree` | `ContestedIdentifiersDoNotResolve`, `ReadingsAgree` |
| **`IntakeProofs`** | of `IntakeSpec` and `CaptureSpec`, by `Identifiers`, `Usages`, `Captures` |
| `ClaimsAreContested`, `UsagesAreCountedOnce` | `ContestedIdentifiersDoNotResolve`, `UsageCountedOnce`, across restores |
| `CommitsAreCapturedOnce`, `TitlesAreKept` | `CapturedOnce`, `NeverOverwritesAnother` |
| **`ServicesProofs`** | of each service, by `Incidents`, the breaker's own, `Scanning`, `Cycles`, `Cataloging`, `Searching` |
| `FixesAreAdmitted`, `PullsHaveInquiries`, `RecurrencesReopen` | `FixesWereAdmitted`, `PullsAreTraced`, `ResolvedUntilSeenAgain` |
| `BreakerAgrees` | `ClosedBelowThreshold` |
| `ScansAccountForEveryRepo` | `EveryRepoIsAccounted` |
| `UndisturbedCyclesCreditOnce` | `CreditedOnce` |
| `ImportsBringAllRows` | `ImportsAreWhole` |
| `CalmAnswersAreHeads`, `ActivationTellsDistance` | `CalmSearchIsExact`, `ActivationIsDistance` |

### The arguments

Hardly any of these is inductive alone. What each adds, and why:

* **One chain** (`Inductive`). What the apply relies on: a revising proposal has one base revision, among the heads it
  froze; decisions are by operators who did not ask; a head is a published revision of its own family; a published
  revision has a proposal, a family in use and published parents. Drafting and deciding leave the publication alone
  (`PublicationUntouched`); in an apply, `HeadsMatch` and `WellFormed` make the base the head (`FrozenHead`), which has
  the highest version (`NewVersionIsLast`), so the new version is unused and its parent is the last of the chain.
* **What is recorded** (`Records`). A relation's proposal has been applied, so neither its terms nor its approval
  change; events are numbered up to the sequence, and head events stand for the published revisions one by one.
* **The time line** (`Timeline`). A publication takes an instant of its own (`Clock`); its transition tells it
  (`TransitionsTell`); the head is open and what it follows was closed by then (`HeadsAreOpen`, `ClosedByHead`), unless
  something was scheduled (`SuccessorsClose`). A reading of the past compares instants that no later step writes again.
* **The refinement** (`Mapped`). The log of a family has no gap below its head (`VersionsAreTaken`), so a publication
  appends exactly the entry that was drafted on the log as it stands.
* **Merges** (`Forking`). With several parents and heads that come back, versions order nothing; what does is which
  merges *stand*, those no UNMERGE has undone. The families a standing merge retired are its own and their names are
  in its manifest; the heads it replaced are nobody's; two standing merges share neither (`MergesStand`). Hence an
  unmerge gives back what no other merge wants, a parent is succeeded twice only through an undone merge, and the
  revision of an undone merge was invalidated last (`ForksAreOfUndone`). Each action is first shown to be a *kind* of
  step (`StepKinds`: `Quiet`, `Linking`, `Publishing`, `Merging`, `Unmerging`), and the invariant is proved of
  kinds. `SuggestedOnce` needs that a key has one holder and that the key of a suggestion is made of what it suggests
  (`KeysAreTaken`); `HeadNumbersGrow` that events are numbered up to the sequence.
* **Giving back** (`Rewinding`). A step touches only what begins or ceases to be a head (`HeadsAreTouched`), and no
  head is older than the merges that stand around it (`HeadsFollowMerges`): so of the revisions from before a standing
  merge the ledger goes on saying what it said then (`MergesRewind`), but for the heads that the merge replaced, which
  the UNMERGE reactivates. What was published since is undone (`HeadsAreLast`), hence invalidated, and a family's own
  alias row waits in the manifest (`NamesAreKept`). Every record takes an instant of its own (`InThePast`), which is
  why "an instant before the merge" means something.
* **Decisions about merges** (`Decided`, `StepWrites`). A step discusses (a draft, a decision, the clock) or applies one
  proposal, and then the one new revision is of it and every other keeps its record or ends its open window. Previews
  are composed of the heads they build on (`BaseIsFrozen`), so an approval names each parent. That no window lies in
  the future, which `RevisionsAreImmutable` needs, is `InThePast` of the invariant before. TLC checks both
  properties in `MCLedger`, where nothing merges; with merges the two theorems speak for every instance and no run
  repeats them.
* **Delivery** (`Dispatch`, `Convergent`). A worker at work holds a due event, which settles `OnlyTheHolderSettles` for
  any number of workers. For one worker, each family's point is right or an event that will set it right is
  outstanding (`PointsFollow`), and what the worker has read is fresh or will be read again (`WorkFollows`): an older
  event may write under its own number, never something stale under the head's. `Announcements` says that a head
  that will end is announced by an event for that end.
* **Without a lock** (`Kept`, Neo4j). A key selects one node whatever transactions ran between (`KeysSelect`), a
  proposal with a confirmed decision is never pending again, so that nothing new matches it (`DecisionsAreKept`), and an
  import has its alias unless the alias is in quarantine (`ImportsAreNamed`).
* **Intake** (`Identifiers`, `Usages`, `Captures`). Each active family has a row of its own or one in quarantine, in
  the state and in any snapshot; migrations publish without proposals, so nothing of `Inductive` is used there. A
  capture's proposals are for the identifier they came with (`OriginsAreTold`), and an identifier names the family
  it was given to (`RowsNameTheirFamilies`): however old the index's answer, an update reaches a memory with that title.
* **Services.** A handler past the check carries what the check saw (`AdmittedWork`, `TracedWork`). With `BreakerTypeOK`
  the breaker's property is inductive. Every repository before the present one is accounted for and what is left of a
  page is what was not tried (`Progress`); a memory is written over by nothing but itself (`Remembering`). Two cycles under way have disturbed each other, and an undisturbed one has
  credited what it no longer has to do (`OneState`, `CreditedSoFar`).
* **Imports** (`Cataloging`). The rows an undisturbed import has behind it are whole, and its phase tells what holds of
  the next one: before it is linked, its node is there (`OnTheWay`). No row takes an edge away, and a row changes nodes of
  its own kind only: projects come first and relations last (`InFileOrder`), so parents and ends keep the names they
  are called by, while a later row of a kind may rename an earlier one's node, hence the property's last row.
* **Searches** (`Searching`). As long as nothing moved, the points are the heads (`CalmReadings`), each branch
  has read them so, and rank fusion only permutes and drops. Activation is no invariant of the steps: the passage over
  the relations raises exactly the neighbours of the frontier, to half of its score, whatever their order
  (`RoundReaches`, by induction over the list), and two such rounds tell the distance (`TwoRounds`).

### The assumptions

Each is an `ASSUME` of the module that declares the constants, which TLC evaluates in the runs: bounds are natural
numbers; identifiers, contents and rows are of their kinds, a content's window is well formed (`Ledger`'s
`BoundsAssumption`, `AliasAssumption`, `ContentAssumption`, `OperationAssumption`; `IntakeAssumption`,
`InvestigationAssumption`, `Neo4jLedger`'s). Those that say more:

* `ConsolidationAssumption`: nobody but the runs proposes as the worker (`consolidation_service.py` alone writes
  `requested_by="consolidation_worker"`). `SuggestedOnce` is about what that requester suggests.
* `CaptureAssumption`, `CaptureKeysAssumption`: a manual admission has no commit, and a key is the one made of commit
  and candidate, or none.
* `DailyScanAssumption`: what GitHub lists of a repository names no pull request twice, and `Today` is a number of them.
* `AgentLoopAssumption`: a search serves finitely many procedures. `CircuitBreakerAssumption`: the threshold is not 0.

### Only model-checked

* `Converges` and `EveryEventIsSettled`, which are liveness under fairness, and `AloneConverges`.
* `AloneSettlesActive` is the run's form of `LoneWorkerSettles`: the theorem has no `crew`, and excludes families with
  a revision published before its start instead of behaviours with one.
* `RoundTrip` compares whole imports, folds over the rows of an export: what they compute for every catalog needs an
  induction over those rows for four imports at once, with `SetToSeq` in between. It was not attempted; of the fold's
  single rows, `ImportsBringAllRows` proves what an import that runs query by query leaves.
* The theorems of `LedgerProofs`, `LedgerReadingsProofs` and `LedgerRefinementProofs` are about the ledger without
  merges, where `ForksAreUndone` takes the place of `LinearHistory`; `LinksAreUnique`, `Authorized` and
  `RevisionsAreImmutable` are proved of both.
* The runs that end in a counterexample are about properties the code does not have.

## 5. Known departures without a run of their own

Met while modelling; the models contain them, and the properties are stated so as not to promise the opposite.

* Ledger. Two pending creations with one identifier are both applied and make it ambiguous. A second merge into one
  family cannot be undone (the manifest holds a part of the alias rows that the unmerge compares,
  `AL/in_memory_ledger.py:1170`). A scheduled memory cannot be withdrawn before it starts.
* Projection. A deleted point leaves no number, so of two materializers the slower one brings an invalidated memory
  back (`PE/qdrant/qdrant_service.py:411`). While a scheduled update waits, an event of the family deletes the point
  of the revision in effect (`AL/materializer.py:62`).
* Intake. Episodes and PR memories are imported ARCHIVED; a usage reported again after its head moved is refused; an
  import repeated on Neo4j writes the instant of the transition again, so its past changes.
* Neo4j. An approval and a rejection that match a pending proposal before either commits are both confirmed, and the
  second overwrites the first (`PE/neo4j/neo4j_memory_ledger.py:332`, `:393`), although the loser is promised "A proposta
  mudou antes da ... ser registrada". Since no apply passes `_assert_approval_is_current`, its events come from imports only; `list_outbox` and
  `mark_outbox` do not return once there is one.
* Capture. A proposal that waits for its operator leaves its commit unmarked, so a commit is processed again at each
  hook and only the key keeps it from publishing twice.
* Consolidation. An expired head whose proposal waits makes each later run fail at that key, before its pairs; a
  suggestion that was rejected never comes back.
* Investigation. The quota is checked before the agent's await, so fixes that overlap exceed
  `max_auto_fixes_per_hour`; a node's files and suspects are looked up under the id of the repetition; what recurs is
  counted and never investigated again.
* Agent loop. A summary that fails after its credits keeps the state, and asking again credits twice; a cycle that
  starts meanwhile takes the credits of the other. One episode is kept for each description.
* Daily scan. A diff that cannot be read or lists no file is no error of its own: the empty list is refused before the
  `try` of `_ingest_pr` and ends its repository's page. A pull request that is known counts as new again; Shortcut cards are refused as raw events; a PR memory stays as its first scan saw it.
* Catalog. Rows are validated one by one while they are written; an update by id with another node's name or a new
  slug leaves nodes that an import no longer tells apart (`Derived` excludes them); an alias or a tag that contains `|` is
  exported and comes back as two (`AP/catalog/catalog_csv_service.py:236`; `RoundTrip` says nothing of these fields);
  categories are looked up in the whole graph.
* Search. Rows beyond the ledger's limit have no body; browsing cuts before it filters by weight; diversification
  counts memories that the weight filter drops later.

## 6. Not modelled

`PROJECT.json` has the status of each component. Of the modelled ones: `add_alias`, called by hand only; the bodies of
the Neo4j apply, unreachable; `reconcile_stores`; the scores of the admission gates and the similarity of texts, which
are open choices; the rate limiter; the semantic cache, the reranker's arithmetic and the activation over Neo4j;
clustering and the filtered listings of the catalog. The legacy dual write is left out because `create_container`
always wires the ledger, and its branches do not run.

Left out for good: prompts, embeddings and weights (floating point and external models), text conversions
(adapters, views, sanitization), HTTP and MCP handlers that only forward, file and webhook output.

Next, if the project goes on: what the ledger's readings promise (`HistoryIsStable`, `EffectiveFollowsHead`) of the
specification with merges; delivery by several workers, as far as it settles.

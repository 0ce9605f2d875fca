---------------------------- MODULE MCProjection ----------------------------
(* Instances of Projection for TLC.  Each behaviour has a crew: the workers *)
(* that there are, one that is alone or two beside which a rebuild runs.   *)
EXTENDS Projection

CONSTANTS noAlias, v1

VARIABLE crew
mcVars == <<allVars, crew>>

MCContent(to) == [value |-> v1, from |-> 0, to |-> to, related |-> noAlias]

MCExpiring == {MCContent(0), MCContent(4)}

Alone == crew = {"w1"}

(* The ledger once one memory has been created, approved and applied by    *)
(* proposal 1, its event pending: a state ProjectionSpec reaches, taken as *)
(* the first one to keep the instances small.                              *)
OneMemory ==
  /\ now = 2
  /\ families = [f \in FamilyIds |->
       IF f = 1 THEN [state |-> "active", legacy |-> 1, mergedInto |-> None]
       ELSE NoFamily]
  /\ revisions = [r \in RevisionIds |->
       IF r = 1 THEN [NoRevision EXCEPT !.family = 1, !.version = 1, !.proposal = 1,
                                        !.actor = "op2", !.from = 1]
       ELSE NoRevision]
  /\ heads = [f \in FamilyIds |->
       IF f = 1 THEN [revision |-> 1, sequence |-> 1] ELSE NoHead]
  /\ sequence = 1
  /\ aliases = {AliasRow(1, 1)}
  /\ relations = {}
  /\ transitions = <<[from |-> {}, to |-> {1}, state |-> "active", at |-> 1]>>
  /\ proposals = [p \in ProposalIds |->
       IF p = 1 THEN [NoProposal EXCEPT !.status = "applied", !.operation = "create",
                                        !.requestedBy = "op1", !.expires = 1 + Ttl,
                                        !.appliedRevision = 1]
       ELSE NoProposal]
  /\ approvals = [p \in ProposalIds |->
       IF p = 1 THEN [status |-> "consumed", by |-> "op2", expected |-> {}]
       ELSE NoApproval]
  /\ outbox = {[kind |-> "head", family |-> 1, revision |-> 1,
                operation |-> "create", state |-> "active", sequence |-> 1,
                available |-> 1]}

MCStep ==
  /\ ProjectionNext
  /\ \A w \in Workers \ crew : workers'[w] = Idle
  /\ Alone => rebuild' = rebuild
  /\ ~Alone => /\ faults' <= 1
                /\ \A p \in ProposalIds : proposals'[p].content.to # 4
  /\ UNCHANGED crew

MCInit(workersThere) == crew = workersThere /\ OneMemory /\ ProjectionInit

MCSpec ==
  /\ MCInit({"w1"}) \/ MCInit({"w1", "w2"})
  /\ [][MCStep]_mcVars /\ ProjectionFairness

(* A rebuild beside a crew of one, for the run that is about it.           *)
RebuildStep == ProjectionNext /\ UNCHANGED crew
RebuildSpec == MCInit({"w1"}) /\ [][RebuildStep]_mcVars
-----------------------------------------------------------------------------
(* SettledPointsAreActive, of a worker that is alone beside no rebuild:    *)
(* once the outbox is drained, Qdrant holds of each family the revision    *)
(* the ledger calls active, though the worker failed, crashed, outlived    *)
(* its lease or handled an event again.                                    *)
AloneSettlesActive == Alone => SettledPointsAreActive

(* Converges, of such a worker: when the ledger comes to rest, Qdrant      *)
(* comes to hold its active revisions and keeps them.                      *)
AloneConverges == Alone => Converges
=============================================================================

-------------------------- MODULE ProjectionProofs --------------------------
(***************************************************************************)
(* Proofs about module Projection, for every value of its constants.  That *)
(* an event is settled once, by the worker that holds it, follows from the *)
(* types of the delivery (Dispatch).  That one worker alone, beside no     *)
(* rebuild and with no revision that starts later than it is published,    *)
(* leaves in Qdrant the active revisions, follows from the invariant       *)
(* Convergent.                                                             *)
(***************************************************************************)
EXTENDS Projection, LedgerReadingsProofs

Deliveries ==
  [status: {"pending", "processing", "applied", "failed", "dead_letter"},
   attempts: Nat, leased: BOOLEAN, holder: Workers \cup {"none"}]

Works ==
  [step: {"idle", "claimed", "writing", "marking"}, event: Events \cup {NoEvent},
   write: {"none", "upsert", "delete"}, revision: RevisionOrNone]

Rebuilds == [step: {"idle", "running"}, todo: SUBSET RevisionIds, kept: SUBSET FamilyIds]

DeliveryTypes ==
  /\ delivery \in [outbox -> Deliveries]
  /\ workers \in [Workers -> Works]
  /\ points \in [FamilyIds -> Heads]
  /\ rebuild \in Rebuilds
  /\ \A r \in rebuild.todo : Published(r)
  /\ faults \in Nat /\ rebuilds \in Nat

(* A worker is at work on an event of the outbox that is due.              *)
WorkIsDue ==
  \A w \in Workers : \/ workers[w] = Idle
                     \/ workers[w].step # "idle" /\ workers[w].event \in Due

Dispatch == Timeline /\ DeliveryTypes /\ WorkIsDue
-----------------------------------------------------------------------------
(* The ledger goes its own way: what the projection does leaves it alone.  *)

LEMMA LedgerGoesOn == [ProjectionNext]_allVars => [Next]_ledgerVars
<1> SUFFICES ASSUME [ProjectionNext]_allVars PROVE [Next]_ledgerVars
  OBVIOUS
<1>1. CASE LedgerStep
  BY <1>1 DEF LedgerStep
<1>2. ASSUME NEW w, NEW e, Claim(w, e) PROVE UNCHANGED ledgerVars
  BY <1>2 DEF Claim
<1>3. ASSUME NEW w, Work(w) PROVE UNCHANGED ledgerVars
  BY <1>3 DEF Work, Read, Write, Mark
<1>4. ASSUME NEW e, LeaseExpires(e) PROVE UNCHANGED ledgerVars
  BY <1>4 DEF LeaseExpires
<1>5. CASE Fault
  BY <1>5 DEF Fault, Fail, Crash
<1>6. CASE Rebuild
  BY <1>6 DEF Rebuild, RebuildStart, RebuildOne, RebuildEnd
<1>7. CASE UNCHANGED allVars
  BY <1>7 DEF allVars
<1> QED
  BY <1>1, <1>2, <1>3, <1>4, <1>5, <1>6, <1>7 DEF ProjectionNext

LEMMA ProjectionRunsTheLedger == ProjectionSpec => []Timeline
<1>1. ProjectionSpec => Init /\ [][ProjectionNext]_allVars
  BY DEF ProjectionSpec
<1> QED
  BY <1>1, LedgerGoesOn, TimelineInvariant, PTL DEF Spec

LEMMA OutboxGrows ==
  ASSUME Inductive, [Next]_ledgerVars
  PROVE  outbox \subseteq outbox' /\ now \in Nat /\ now' \in Nat /\ now <= now'
<1>1. now \in Nat /\ now' \in Nat /\ now <= now'
  BY NextRevisionStep DEF Inductive, TypeOK
<1>2. outbox \subseteq outbox'
  <2>1. CASE WorkflowStep
    BY <2>1 DEF WorkflowStep, canonical
  <2>2. ASSUME NEW p, NEW f, NEW a, NEW new, PublicationStep(p, f, a, new)
        PROVE  outbox \subseteq outbox'
    BY <2>2 DEF PublicationStep
  <2>3. ASSUME NEW p, ApplyLink(p) PROVE outbox \subseteq outbox'
    BY <2>3 DEF ApplyLink
  <2> QED
    BY <2>1, <2>2, <2>3, StepCases
<1> QED
  BY <1>1, <1>2

LEMMA StillPublished ==
  ASSUME Inductive, [Next]_ledgerVars, NEW r, Published(r)
  PROVE  Published(r)'
<1>1. revisions[r] \in Revisions /\ RevisionStep(r)
  BY NextRevisionStep DEF Inductive, TypeOK, Published
<1> QED
  BY <1>1 DEF RevisionStep, Published, Revisions
-----------------------------------------------------------------------------
(* The types of the delivery.                                              *)

LEMMA InitDispatch == Init /\ ProjectionInit => DeliveryTypes /\ WorkIsDue
<1> SUFFICES ASSUME Init, ProjectionInit PROVE DeliveryTypes /\ WorkIsDue
  OBVIOUS
<1>1. Idle \in Works
  BY DEF Idle, Works, RevisionOrNone
<1>2. NoPoint \in Heads /\ NoRebuild \in Rebuilds
  BY DEF NoPoint, Heads, None, NoRebuild, Rebuilds
<1>3. Pending \in Deliveries
  BY DEF Pending, Deliveries
<1>4. outbox = {}
  BY DEF Init
<1> QED
  BY <1>1, <1>2, <1>3, <1>4 DEF ProjectionInit, DeliveryTypes, WorkIsDue, NoRebuild

(* mark_outbox leaves every event but the worker's own as it was.          *)
LEMMA MarkedType ==
  ASSUME Inductive, DeliveryTypes, WorkIsDue, NEW w \in Workers, workers[w].step # "idle",
         NEW status \in {"applied", "failed"}
  PROVE  /\ Marked(w, status) \in [outbox -> Deliveries]
         /\ \A e \in outbox :
              \/ Marked(w, status)[e] = delivery[e]
              \/ /\ e = workers[w].event /\ Holds(w, e)
                 /\ Marked(w, status)[e].attempts = delivery[e].attempts + 1
                 /\ Marked(w, status)[e].status \in {status, "dead_letter"}
                 /\ status = "applied" => Marked(w, status)[e].status = "applied"
<1> DEFINE e == workers[w].event
           attempts == delivery[e].attempts + 1
           dead == status = "failed" /\ attempts >= MaxAttempts
           mark == [status |-> IF dead THEN "dead_letter" ELSE status,
                    attempts |-> attempts, leased |-> FALSE, holder |-> "none"]
<1>1. e \in outbox
  BY DEF WorkIsDue, Due, Idle
<1>2. delivery \in [outbox -> Deliveries] /\ delivery[e].attempts \in Nat
  BY <1>1 DEF DeliveryTypes, Deliveries
<1>3. CASE ~Holds(w, e)
  BY <1>2, <1>3 DEF Marked
<1>4. CASE Holds(w, e)
  <2>1. Marked(w, status) = [delivery EXCEPT ![e] = mark]
    BY <1>4 DEF Marked
  <2>2. mark \in Deliveries
    BY <1>2 DEF Deliveries
  <2>3. /\ mark.attempts = delivery[e].attempts + 1
        /\ mark.status \in {status, "dead_letter"}
        /\ status = "applied" => mark.status = "applied"
    OBVIOUS
  <2> HIDE DEF mark, e
  <2> QED
    BY <1>1, <1>2, <1>4, <2>1, <2>2, <2>3 DEF e
<1> QED
  BY <1>3, <1>4

LEMMA UpsertedType ==
  ASSUME points \in [FamilyIds -> Heads], NEW f, NEW r \in RevisionOrNone, NEW n \in Nat
  PROVE  Upserted(f, r, n) \in [FamilyIds -> Heads]
BY DEF Upserted, Heads, RevisionOrNone

LEMMA DeletedType ==
  ASSUME points \in [FamilyIds -> Heads], NEW f, NEW n \in Nat
  PROVE  Deleted(f, n) \in [FamilyIds -> Heads]
BY DEF Deleted, NoPoint, Heads, None

(* A step of the projection that keeps the ledger, and with it what is due. *)
LEMMA WorkStillDue ==
  ASSUME WorkIsDue, UNCHANGED ledgerVars, NEW w \in Workers, NEW work,
         work = Idle \/ (work.step # "idle" /\ work.event \in Due),
         workers \in [Workers -> Works],
         workers' = [workers EXCEPT ![w] = work]
  PROVE  WorkIsDue'
BY DEF WorkIsDue, Due, ledgerVars

LEMMA LedgerKeepsTypes ==
  ASSUME Dispatch, LedgerStep
  PROVE  DeliveryTypes' /\ WorkIsDue'
<1>1. Pending \in Deliveries
  BY DEF Pending, Deliveries
<1>2. outbox \subseteq outbox' /\ now \in Nat /\ now' \in Nat /\ now <= now'
  BY OutboxGrows DEF Dispatch, Timeline, LedgerStep
<1>3. delivery' \in [outbox' -> Deliveries]
  BY <1>1 DEF LedgerStep, Dispatch, DeliveryTypes
<1>4. Due \subseteq Due'
  <2>1. ASSUME NEW e \in outbox, e.available <= now PROVE e.available <= now'
    <3>1. e.available \in Nat
      BY DEF Dispatch, Timeline, Inductive, TypeOK, Events
    <3> QED
      BY <1>2, <2>1, <3>1
  <2> QED
    BY <1>2, <2>1 DEF Due
<1>5. UNCHANGED <<workers, points, rebuild, faults, rebuilds>>
  BY DEF LedgerStep
<1>6. \A r \in rebuild.todo : Published(r)'
  BY StillPublished DEF Dispatch, DeliveryTypes, Timeline, LedgerStep
<1> QED
  BY <1>3, <1>4, <1>5, <1>6 DEF Dispatch, DeliveryTypes, WorkIsDue

LEMMA ClaimKeepsTypes ==
  ASSUME Dispatch, NEW w \in Workers, NEW e \in outbox, Claim(w, e)
  PROVE  DeliveryTypes' /\ WorkIsDue'
<1> USE DEF Dispatch, DeliveryTypes
<1> DEFINE work == [workers[w] EXCEPT !.step = "claimed", !.event = e]
<1>1. /\ workers' = [workers EXCEPT ![w] = work]
      /\ UNCHANGED <<ledgerVars, points, rebuild, faults, rebuilds>>
  BY DEF Claim
<1>2. delivery' \in [outbox -> Deliveries]
  <2>1. delivery[e] \in Deliveries
    OBVIOUS
  <2>2. delivery' = [delivery EXCEPT ![e] =
          [delivery[e] EXCEPT !.status = "processing", !.leased = TRUE, !.holder = w]]
    BY DEF Claim
  <2>3. [delivery[e] EXCEPT !.status = "processing", !.leased = TRUE, !.holder = w]
          \in Deliveries
    BY <2>1 DEF Deliveries
  <2> QED
    BY <2>2, <2>3
<1>3. e \in Due /\ e \in Events
  BY DEF Claim, Claimable, Due, Timeline, Inductive, TypeOK
<1>4. work \in Works /\ work.step # "idle" /\ work.event = e
  BY <1>3 DEF Works
<1> HIDE DEF work
<1>5. WorkIsDue'
  BY <1>1, <1>3, <1>4, WorkStillDue
<1>6. workers' \in [Workers -> Works]
  BY <1>1, <1>4
<1> QED
  BY <1>1, <1>2, <1>5, <1>6 DEF ledgerVars, Published

LEMMA ReadKeepsTypes ==
  ASSUME Dispatch, NEW w \in Workers, Read(w)
  PROVE  DeliveryTypes' /\ WorkIsDue'
<1> USE DEF Dispatch, DeliveryTypes
<1> DEFINE e == workers[w].event
           current == EffectiveNow(e.family)
           shown == current # None /\ View(current) = "active"
           work == IF e.kind = "relation" THEN [workers[w] EXCEPT !.step = "marking"]
                   ELSE [workers[w] EXCEPT !.step = "writing", !.revision = current,
                                           !.write = IF shown THEN "upsert" ELSE "delete"]
<1>1. /\ workers' = [workers EXCEPT ![w] = work]
      /\ UNCHANGED <<ledgerVars, delivery, points, rebuild, faults, rebuilds>>
  BY DEF Read
<1>2. workers[w] \in Works /\ workers[w].step # "idle"
  BY DEF Read
<1>3. e \in Due /\ e \in Events
  BY <1>2 DEF WorkIsDue, Idle, Due, Timeline, Inductive, TypeOK
<1>4. current \in RevisionOrNone
  <2>1. e.family \in FamilyIds
    BY <1>3 DEF Events
  <2> QED
    BY <2>1, EffectiveType, TimeTypes DEF Timeline, RevisionOrNone, Published
<1>5. work \in Works /\ work.step # "idle" /\ work.event = e
  <2> HIDE DEF current, shown
  <2> QED
    BY <1>2, <1>4 DEF Works
<1> HIDE DEF work, e
<1>6. WorkIsDue'
  BY <1>1, <1>3, <1>5, WorkStillDue
<1>7. workers' \in [Workers -> Works]
  BY <1>1, <1>5
<1> QED
  BY <1>1, <1>6, <1>7 DEF ledgerVars, Published

LEMMA WriteKeepsTypes ==
  ASSUME Dispatch, NEW w \in Workers, Write(w)
  PROVE  DeliveryTypes' /\ WorkIsDue'
<1> USE DEF Dispatch, DeliveryTypes
<1> DEFINE e == workers[w].event
           work == [workers[w] EXCEPT !.step = "marking"]
<1>1. /\ workers' = [workers EXCEPT ![w] = work]
      /\ UNCHANGED <<ledgerVars, delivery, rebuild, faults, rebuilds>>
  BY DEF Write
<1>2. workers[w] \in Works /\ workers[w].step # "idle"
  BY DEF Write
<1>3. e \in Due /\ e \in Events
  BY <1>2 DEF WorkIsDue, Idle, Due, Timeline, Inductive, TypeOK
<1>4. work \in Works /\ work.step # "idle" /\ work.event = e
  BY <1>2 DEF Works
<1>5. points' \in [FamilyIds -> Heads]
  <2>1. workers[w].revision \in RevisionOrNone /\ e.sequence \in Nat
    BY <1>2, <1>3 DEF Works, Events
  <2> QED
    BY <2>1, UpsertedType, DeletedType DEF Write
<1> HIDE DEF work, e
<1>6. WorkIsDue'
  BY <1>1, <1>3, <1>4, WorkStillDue
<1>7. workers' \in [Workers -> Works]
  BY <1>1, <1>4
<1> QED
  BY <1>1, <1>5, <1>6, <1>7 DEF ledgerVars, Published

(* Mark, Fail and Crash leave the worker idle.                             *)
LEMMA RestKeepsTypes ==
  ASSUME Dispatch, NEW w \in Workers, workers' = [workers EXCEPT ![w] = Idle],
         delivery' \in [outbox -> Deliveries], faults' \in Nat,
         UNCHANGED <<ledgerVars, points, rebuild, rebuilds>>
  PROVE  DeliveryTypes' /\ WorkIsDue'
<1>1. Idle \in Works
  BY DEF Idle, Works, RevisionOrNone
<1>2. WorkIsDue'
  BY WorkStillDue DEF Dispatch, DeliveryTypes
<1> QED
  BY <1>1, <1>2 DEF Dispatch, DeliveryTypes, ledgerVars, Published

LEMMA ExpiryKeepsTypes ==
  ASSUME Dispatch, NEW e \in outbox, LeaseExpires(e)
  PROVE  DeliveryTypes' /\ WorkIsDue'
<1> USE DEF Dispatch, DeliveryTypes
<1>1. delivery' \in [outbox -> Deliveries]
  <2>1. delivery[e] \in Deliveries
    OBVIOUS
  <2>2. [delivery[e] EXCEPT !.leased = FALSE] \in Deliveries
    BY <2>1 DEF Deliveries
  <2>3. delivery' = [delivery EXCEPT ![e] = [delivery[e] EXCEPT !.leased = FALSE]]
    BY DEF LeaseExpires
  <2> QED
    BY <2>2, <2>3
<1>2. faults' \in Nat
  BY DEF LeaseExpires
<1> QED
  BY <1>1, <1>2 DEF LeaseExpires, ledgerVars, WorkIsDue, Due, Published

LEMMA RebuildKeepsTypes ==
  ASSUME Dispatch, Rebuild
  PROVE  DeliveryTypes' /\ WorkIsDue'
<1> USE DEF Dispatch, DeliveryTypes
<1>1. CASE RebuildStart
  <2> DEFINE todo == {EffectiveNow(f) : f \in FamilyIds} \ {None}
  <2>1. \A r \in todo : Published(r) /\ r \in RevisionIds
    BY EffectiveType, TimeTypes DEF Timeline, Published
  <2>2. rebuild' = [step |-> "running", kept |-> {}, todo |-> todo] /\ rebuilds' \in Nat
    BY <1>1 DEF RebuildStart
  <2>3. \A r \in todo : Published(r)'
    BY <1>1, <2>1 DEF RebuildStart, ledgerVars, Published
  <2> HIDE DEF todo
  <2>4. rebuild' \in Rebuilds
    BY <2>1, <2>2 DEF Rebuilds
  <2>5. rebuild'.todo = todo
    BY <2>2
  <2>6. \A r \in rebuild'.todo : Published(r)'
    BY <2>3, <2>5
  <2>7. WorkIsDue'
    BY <1>1 DEF RebuildStart, ledgerVars, WorkIsDue, Due
  <2> QED
    BY <1>1, <2>2, <2>4, <2>6, <2>7 DEF RebuildStart, ledgerVars
<1>2. ASSUME NEW r \in RevisionIds, RebuildOne(r) PROVE DeliveryTypes' /\ WorkIsDue'
  <2> DEFINE f == revisions[r].family
             number == IF HasHead(f) THEN heads[f].sequence ELSE revisions[r].version
  <2>1. revisions[r] \in Revisions
    BY TimeTypes DEF Timeline
  <2>2. f \in FamilyIds
    BY <1>2 DEF RebuildOne, Timeline, Inductive, RevisionsHaveOrigins
  <2>3. number \in Nat
    BY <2>1, <2>2 DEF Timeline, Inductive, TypeOK, Heads, Revisions
  <2>4. points' \in [FamilyIds -> Heads]
    BY <1>2, <2>3, UpsertedType DEF RebuildOne, RevisionOrNone
  <2>5. rebuild' \in Rebuilds /\ rebuild'.todo \subseteq rebuild.todo
    BY <1>2, <2>2 DEF RebuildOne, Rebuilds
  <2> QED
    BY <1>2, <2>4, <2>5 DEF RebuildOne, ledgerVars, WorkIsDue, Due, Published
<1>3. CASE RebuildEnd
  <2>1. NoPoint \in Heads /\ NoRebuild \in Rebuilds
    BY DEF NoPoint, Heads, None, NoRebuild, Rebuilds
  <2>2. points' \in [FamilyIds -> Heads]
    BY <1>3, <2>1 DEF RebuildEnd
  <2>3. rebuild' = NoRebuild /\ NoRebuild.todo = {}
    BY <1>3 DEF RebuildEnd, NoRebuild
  <2> QED
    BY <1>3, <2>1, <2>2, <2>3 DEF RebuildEnd, ledgerVars, WorkIsDue, Due
<1> QED
  BY <1>1, <1>2, <1>3 DEF Rebuild
LEMMA DispatchInductive ==
  ASSUME Dispatch, [ProjectionNext]_allVars
  PROVE  DeliveryTypes' /\ WorkIsDue'
<1> USE DEF Dispatch
<1>1. CASE LedgerStep
  BY <1>1, LedgerKeepsTypes
<1>2. ASSUME NEW w \in Workers, NEW e \in outbox, Claim(w, e)
      PROVE  DeliveryTypes' /\ WorkIsDue'
  BY <1>2, ClaimKeepsTypes
<1>3. ASSUME NEW w \in Workers, Work(w) PROVE DeliveryTypes' /\ WorkIsDue'
  <2>1. CASE Mark(w)
    <3>1. Marked(w, "applied") \in [outbox -> Deliveries]
      BY <2>1, MarkedType DEF Mark, Timeline
    <3> QED
      BY <2>1, <3>1, RestKeepsTypes DEF Mark, DeliveryTypes
  <2> QED
    BY <1>3, <2>1, ReadKeepsTypes, WriteKeepsTypes DEF Work
<1>4. ASSUME NEW e \in outbox, LeaseExpires(e) PROVE DeliveryTypes' /\ WorkIsDue'
  BY <1>4, ExpiryKeepsTypes
<1>5. ASSUME NEW w \in Workers, Fail(w) \/ Crash(w) PROVE DeliveryTypes' /\ WorkIsDue'
  <2>1. faults \in Nat /\ delivery \in [outbox -> Deliveries]
    BY DEF DeliveryTypes
  <2>2. workers' = [workers EXCEPT ![w] = Idle] /\ faults' \in Nat
    BY <1>5, <2>1 DEF Fail, Crash
  <2>3. UNCHANGED <<ledgerVars, points, rebuild, rebuilds>>
    BY <1>5 DEF Fail, Crash
  <2>4. delivery' \in [outbox -> Deliveries]
    <3>1. CASE Fail(w)
      <4>1. workers[w].step # "idle" /\ delivery' = Marked(w, "failed")
        BY <3>1 DEF Fail
      <4> QED
        BY <4>1, MarkedType DEF Timeline
    <3>2. CASE Crash(w)
      BY <2>1, <3>2 DEF Crash
    <3> QED
      BY <1>5, <3>1, <3>2
  <2> QED
    BY <2>2, <2>3, <2>4, RestKeepsTypes
<1>6. CASE Rebuild
  BY <1>6, RebuildKeepsTypes
<1>7. CASE UNCHANGED allVars
  BY <1>7 DEF allVars, deliveryVars, ledgerVars, DeliveryTypes, WorkIsDue, Due, Published
<1> QED
  BY <1>1, <1>2, <1>3, <1>4, <1>5, <1>6, <1>7 DEF ProjectionNext, Fault

LEMMA DispatchInvariant == ProjectionSpec => []Dispatch
<1>1. ProjectionSpec =>
        Init /\ ProjectionInit /\ [][ProjectionNext]_allVars
  BY DEF ProjectionSpec
<1>2. Timeline /\ DeliveryTypes /\ WorkIsDue /\ [ProjectionNext]_allVars
        => DeliveryTypes' /\ WorkIsDue'
  BY DispatchInductive DEF Dispatch
<1>3. Timeline /\ DeliveryTypes /\ WorkIsDue => Dispatch
  BY DEF Dispatch
<1> QED
  BY <1>1, <1>2, <1>3, InitDispatch, ProjectionRunsTheLedger, PTL

(* An event is settled once (mark_outbox, which compares the claim token): *)
(* only the worker whose lease still runs writes the outcome of an event,  *)
(* one attempt at a time, so that what was applied or given up is never    *)
(* touched again, by however many workers, failures and rebuilds.          *)
THEOREM EventsAreSettledOnce == ProjectionSpec => OnlyTheHolderSettles
<1> DEFINE Settles(e) ==
             delivery'[e].status \in {"applied", "failed", "dead_letter"}
               /\ delivery'[e] # delivery[e] =>
                 /\ delivery[e].status = "processing" /\ delivery[e].leased
                 /\ delivery'[e].attempts = delivery[e].attempts + 1
                 /\ workers[delivery[e].holder].event = e
<1>1. ASSUME Dispatch, [ProjectionNext]_allVars
      PROVE  \A e \in outbox : Settles(e)
  <2> USE DEF Dispatch
  <2>1. delivery \in [outbox -> Deliveries] /\ Inductive
    BY <1>1 DEF DeliveryTypes, Timeline
  <2>2. CASE delivery' = delivery
    BY <2>2
  <2>3. CASE LedgerStep
    <3>1. outbox \subseteq outbox'
      BY <2>1, <2>3, OutboxGrows DEF LedgerStep
    <3> QED
      BY <2>3, <3>1 DEF LedgerStep
  <2>4. ASSUME NEW d \in outbox, NEW new, new.status = "processing",
               delivery' = [delivery EXCEPT ![d] = new]
        PROVE  \A e \in outbox : Settles(e)
    BY <2>1, <2>4
  <2>5. ASSUME NEW w \in Workers, NEW d \in outbox, Claim(w, d)
        PROVE  \A e \in outbox : Settles(e)
    <3> DEFINE new == [delivery[d] EXCEPT !.status = "processing", !.leased = TRUE,
                                          !.holder = w]
    <3>1. delivery' = [delivery EXCEPT ![d] = new]
      BY <2>5 DEF Claim
    <3>2. new.status = "processing"
      BY <2>1 DEF Deliveries
    <3> HIDE DEF new
    <3> QED
      BY <2>4, <3>1, <3>2
  <2>6. ASSUME NEW d \in outbox, LeaseExpires(d)
        PROVE  \A e \in outbox : Settles(e)
    <3> DEFINE new == [delivery[d] EXCEPT !.leased = FALSE]
    <3>1. delivery' = [delivery EXCEPT ![d] = new]
      BY <2>6 DEF LeaseExpires
    <3>2. new.status = "processing"
      BY <2>1, <2>6 DEF Deliveries, LeaseExpires
    <3> HIDE DEF new
    <3> QED
      BY <2>4, <3>1, <3>2
  <2>7. ASSUME NEW w \in Workers, NEW status \in {"applied", "failed"},
               workers[w].step # "idle", delivery' = Marked(w, status)
        PROVE  \A e \in outbox : Settles(e)
    <3> SUFFICES ASSUME NEW e \in outbox PROVE Settles(e)
      OBVIOUS
    <3>1. \/ delivery'[e] = delivery[e]
          \/ /\ e = workers[w].event /\ Holds(w, e)
             /\ delivery'[e].attempts = delivery[e].attempts + 1
      BY <1>1, <2>1, <2>7, MarkedType
    <3> QED
      BY <3>1 DEF Holds
  <2>8. ASSUME NEW w \in Workers, Work(w) PROVE \A e \in outbox : Settles(e)
    BY <2>2, <2>7, <2>8 DEF Work, Read, Write, Mark
  <2>9. ASSUME NEW w \in Workers, Fail(w) \/ Crash(w) PROVE \A e \in outbox : Settles(e)
    <3>1. CASE Fail(w)
      <4>1. workers[w].step # "idle" /\ delivery' = Marked(w, "failed")
        BY <3>1 DEF Fail
      <4> QED
        BY <2>7, <4>1
    <3>2. CASE Crash(w)
      BY <2>2, <3>2 DEF Crash
    <3> QED
      BY <2>9, <3>1, <3>2
  <2>10. CASE Rebuild \/ UNCHANGED allVars
    BY <2>2, <2>10 DEF Rebuild, RebuildStart, RebuildOne, RebuildEnd, allVars, deliveryVars
  <2> HIDE DEF Settles
  <2> QED
    BY <1>1, <2>3, <2>5, <2>6, <2>8, <2>9, <2>10 DEF ProjectionNext, Fault
<1>2. ProjectionSpec => [][ProjectionNext]_allVars
  BY DEF ProjectionSpec
<1>3. Dispatch /\ [ProjectionNext]_allVars => [\A e \in outbox : Settles(e)]_allVars
  BY <1>1
<1> QED
  BY <1>2, <1>3, DispatchInvariant, PTL DEF OnlyTheHolderSettles
-----------------------------------------------------------------------------
(* What the outbox announces of the heads.                                 *)

EndOf(f) == revisions[heads[f].revision].content.to

(* Events are numbered no further than the head of their family, and while *)
(* the validity of a head runs, an event waits for its end.                *)
Announcements ==
  /\ \A f \in FamilyIds : heads[f].sequence <= sequence
  /\ \A e \in outbox :
       /\ e.sequence <= sequence
       /\ e.kind # "relation" => HasHead(e.family) /\ e.sequence <= heads[e.family].sequence
  /\ \A f \in FamilyIds : HasHead(f) /\ EndOf(f) > now =>
       \E e \in outbox : /\ e.kind = "expiry" /\ e.family = f
                         /\ e.sequence = heads[f].sequence /\ e.available = EndOf(f)

LEMMA MaxIsMember ==
  ASSUME NEW a \in Nat, NEW b \in Nat, b <= a
  PROVE  Max({a, b}) = a
<1>1. \E x \in {a, b} : \A y \in {a, b} : x >= y
  OBVIOUS
<1> QED
  BY <1>1 DEF Max

LEMMA PublicationAnnounces ==
  ASSUME Inductive, NEW p \in ProposalIds, NEW f, NEW new
  PROVE  /\ \A e \in PublicationEvents(p, f, new) :
              e.sequence = sequence + 1 /\ e.family = f
         /\ proposals[p].content.from <= now =>
              \E e \in PublicationEvents(p, f, new) :
                e.kind = "head" /\ e.available = now
         /\ proposals[p].content.to > now =>
              \E e \in PublicationEvents(p, f, new) :
                e.kind = "expiry" /\ e.available = proposals[p].content.to
<1> DEFINE first == Event("head", f, new, proposals[p].operation,
                          TargetState(proposals[p].operation),
                          Max({now, proposals[p].content.from}))
           last == Event("expiry", f, new, "validity_expired", "",
                         proposals[p].content.to)
           middle == Event("relation", f, None, proposals[p].operation, "", now)
<1>1. /\ first.sequence = sequence + 1 /\ first.family = f
      /\ last.sequence = sequence + 1 /\ last.family = f
      /\ middle.sequence = sequence + 1 /\ middle.family = f
  BY DEF Event
<1>2. /\ first.kind = "head" /\ first.available = Max({now, proposals[p].content.from})
      /\ last.kind = "expiry" /\ last.available = proposals[p].content.to
  BY DEF Event
<1>3. now \in Nat /\ proposals[p].content.from \in Nat
  BY DEF Inductive, TypeOK, Proposals, ContentType
<1>4. /\ first \in PublicationEvents(p, f, new)
      /\ proposals[p].content.to > now => last \in PublicationEvents(p, f, new)
      /\ PublicationEvents(p, f, new) \subseteq {first, last, middle}
  <2> HIDE DEF first, last, middle
  <2> QED
    BY DEF PublicationEvents, first, last, middle
<1> HIDE DEF first, last, middle
<1> QED
  BY <1>1, <1>2, <1>3, <1>4, MaxIsMember

(* Either a step leaves the head of a family, with what it says, or it     *)
(* publishes another.                                                      *)
LEMMA HeadMoves ==
  ASSUME Inductive, [Next]_ledgerVars, NEW f \in FamilyIds
  PROVE  \/ /\ heads'[f] = heads[f]
            /\ HasHead(f)' <=> HasHead(f)
            /\ HasHead(f) => revisions'[heads[f].revision].content =
                               revisions[heads[f].revision].content
         \/ \E p \in ProposalIds, a \in AliasNames, new \in RevisionIds :
              PublicationStep(p, f, a, new)
<1>1. ASSUME heads'[f] = heads[f]
      PROVE  /\ HasHead(f)' <=> HasHead(f)
             /\ HasHead(f) => revisions'[heads[f].revision].content =
                                revisions[heads[f].revision].content
  <2>1. HasHead(f) => Published(heads[f].revision)
    BY DEF Inductive, HeadsAreTheirOwn
  <2>2. \A r \in RevisionIds : revisions[r] \in Revisions /\ RevisionStep(r)
    BY NextRevisionStep DEF Inductive, TypeOK
  <2> QED
    BY <1>1, <2>1, <2>2 DEF HasHead, RevisionStep, Published, Revisions
<1>2. CASE heads'[f] = heads[f]
  BY <1>1, <1>2
<1>3. CASE heads'[f] # heads[f]
  <2>1. PICK p \in ProposalIds, g \in FamilyIds, a \in AliasNames, new \in RevisionIds :
          PublicationStep(p, g, a, new)
    BY <1>3, StepCases DEF WorkflowStep, canonical, ApplyLink
  <2>2. g = f
    BY <1>3, <2>1, HeadsAfter DEF PublicationStep
  <2> QED
    BY <2>1, <2>2
<1> QED
  BY <1>2, <1>3

LEMMA InitAnnouncements == Init => Announcements
<1> SUFFICES ASSUME Init PROVE Announcements
  OBVIOUS
<1>1. \A f \in FamilyIds : heads[f] = NoHead
  BY DEF Init
<1>2. sequence = 0 /\ outbox = {}
  BY DEF Init
<1>3. \A f \in FamilyIds : heads[f].sequence = 0 /\ ~HasHead(f)
  BY <1>1 DEF NoHead, HasHead
<1> QED
  BY <1>2, <1>3 DEF Announcements

LEMMA AnnouncementsInductive ==
  Timeline /\ Announcements /\ [Next]_ledgerVars => Announcements'
<1> SUFFICES ASSUME Timeline, Announcements, [Next]_ledgerVars PROVE Announcements'
  OBVIOUS
<1>1. /\ Inductive /\ outbox \subseteq outbox'
      /\ now \in Nat /\ now' \in Nat /\ now <= now'
  BY OutboxGrows DEF Timeline
<1>2. /\ sequence \in Nat
      /\ \A f \in FamilyIds : heads[f].sequence \in Nat
      /\ \A e \in outbox : e.sequence \in Nat /\ e.family \in FamilyIds
      /\ \A r \in RevisionIds : revisions[r].content.to \in Nat
  BY <1>1, TimeTypes DEF Inductive, TypeOK, Heads, Events
<1>3. ASSUME NEW f \in FamilyIds, heads'[f] = heads[f], HasHead(f),
             revisions'[heads[f].revision].content = revisions[heads[f].revision].content,
             EndOf(f)' > now'
      PROVE  \E e \in outbox' : /\ e.kind = "expiry" /\ e.family = f
                                /\ e.sequence = heads'[f].sequence
                                /\ e.available = EndOf(f)'
  <2>1. heads[f].revision \in RevisionIds
    BY <1>1, <1>3, HeadPairType DEF Inductive
  <2>2. EndOf(f)' = EndOf(f) /\ EndOf(f) \in Nat
    BY <1>2, <1>3, <2>1 DEF EndOf
  <2>3. EndOf(f) > now
    BY <1>1, <1>3, <2>2
  <2> QED
    BY <1>1, <1>3, <2>2, <2>3 DEF Announcements
<1>4. CASE WorkflowStep
  <2>1. UNCHANGED <<heads, outbox, sequence, revisions>>
    BY <1>4 DEF WorkflowStep, canonical
  <2>2. \A f \in FamilyIds : HasHead(f)' <=> HasHead(f)
    BY <2>1 DEF HasHead
  <2> QED
    BY <1>2, <1>3, <2>1, <2>2 DEF Announcements
<1>5. ASSUME NEW p \in ProposalIds, ApplyLink(p) PROVE Announcements'
  <2> DEFINE event == Event("relation", proposals[p].target, None, "link", "", now)
  <2>1. /\ UNCHANGED <<heads, revisions>> /\ sequence' = sequence + 1
        /\ outbox' = outbox \cup {event}
    BY <1>5 DEF ApplyLink
  <2>2. event.kind = "relation" /\ event.sequence = sequence + 1
    BY DEF Event
  <2> HIDE DEF event
  <2>3. \A f \in FamilyIds : HasHead(f)' <=> HasHead(f)
    BY <2>1 DEF HasHead
  <2>4. \A f \in FamilyIds : heads'[f].sequence <= sequence'
    BY <1>2, <2>1 DEF Announcements
  <2>5. ASSUME NEW e \in outbox'
        PROVE  /\ e.sequence <= sequence'
               /\ e.kind # "relation" =>
                    HasHead(e.family)' /\ e.sequence <= heads'[e.family].sequence
    BY <1>2, <2>1, <2>2, <2>3 DEF Announcements
  <2> QED
    BY <1>3, <2>1, <2>3, <2>4, <2>5 DEF Announcements
<1>6. ASSUME NEW p \in ProposalIds, NEW g \in FamilyIds, NEW a \in AliasNames,
             NEW new \in RevisionIds, PublicationStep(p, g, a, new)
      PROVE  Announcements'
  <2>1. /\ Committed(p, g, new) /\ sequence' = sequence + 1 /\ now' = now + 1
        /\ outbox' = outbox \cup PublicationEvents(p, g, new)
    BY <1>6 DEF PublicationStep
  <2>2. /\ heads'[g].revision = new /\ HasHead(g)' /\ heads'[g].sequence = sequence + 1
        /\ \A f \in FamilyIds \ {g} : heads'[f] = heads[f] /\ (HasHead(f)' <=> HasHead(f))
    <3>1. heads'[g].sequence = sequence + 1
      BY <1>1, <2>1 DEF Committed, Inductive, TypeOK
    <3> QED
      BY <1>1, <2>1, <3>1, HeadsAfter
  <2>3. revisions'[new].content = proposals[p].content
    BY <1>1, <2>1, WindowsAfter
  <2>4. \A e \in PublicationEvents(p, g, new) : e.sequence = sequence + 1 /\ e.family = g
    BY <1>1, PublicationAnnounces
  <2>5. \A f \in FamilyIds : heads'[f].sequence <= sequence'
    BY <1>2, <2>1, <2>2 DEF Announcements
  <2>6. ASSUME NEW e \in outbox'
        PROVE  /\ e.sequence <= sequence'
               /\ e.kind # "relation" =>
                    HasHead(e.family)' /\ e.sequence <= heads'[e.family].sequence
    <3>1. CASE e \in PublicationEvents(p, g, new)
      BY <1>2, <2>1, <2>2, <2>4, <3>1
    <3>2. CASE e \in outbox
      <4>1. /\ e.sequence <= sequence
            /\ e.kind # "relation" =>
                 HasHead(e.family) /\ e.sequence <= heads[e.family].sequence
        BY <3>2 DEF Announcements
      <4> QED
        BY <1>2, <2>1, <2>2, <3>2, <4>1
    <3> QED
      BY <2>1, <3>1, <3>2
  <2>7. ASSUME NEW f \in FamilyIds, HasHead(f)', EndOf(f)' > now'
        PROVE  \E e \in outbox' : /\ e.kind = "expiry" /\ e.family = f
                                  /\ e.sequence = heads'[f].sequence
                                  /\ e.available = EndOf(f)'
    <3>1. CASE f = g
      <4>1. EndOf(f)' = proposals[p].content.to /\ proposals[p].content.to \in Nat
        BY <1>1, <2>2, <2>3, <3>1, TimeTypes DEF EndOf
      <4>2. proposals[p].content.to > now
        BY <1>1, <2>1, <2>7, <4>1
      <4>3. PICK e \in PublicationEvents(p, g, new) :
              e.kind = "expiry" /\ e.available = proposals[p].content.to
        BY <1>1, <4>2, PublicationAnnounces
      <4> QED
        BY <2>1, <2>2, <2>4, <3>1, <4>1, <4>3
    <3>2. CASE f # g
      <4>1. heads'[f] = heads[f] /\ HasHead(f)
        BY <2>2, <2>7, <3>2
      <4>2. /\ heads[f].revision \in RevisionIds \ {new}
        BY <1>1, <2>1, <3>2, <4>1, HeadsAfter, HeadPairType DEF Inductive
      <4>3. revisions'[heads[f].revision].content = revisions[heads[f].revision].content
        BY <1>1, <2>1, <4>2, WindowsAfter
      <4> QED
        BY <1>3, <2>7, <4>1, <4>3
    <3> QED
      BY <3>1, <3>2
  <2> QED
    BY <2>5, <2>6, <2>7 DEF Announcements
<1> QED
  BY <1>1, <1>4, <1>5, <1>6, StepCases
-----------------------------------------------------------------------------
(* How what the ledger calls active changes.                               *)

LEMMA UnscheduledBefore ==
  ASSUME Inductive, [Next]_ledgerVars, NEW f, Unscheduled(f)'
  PROVE  Unscheduled(f)
<1> SUFFICES ASSUME NEW r \in RevisionIds, Published(r), revisions[r].family = f
             PROVE  revisions[r].content.from <= revisions[r].from
  BY DEF Unscheduled
<1>1. revisions[r] \in Revisions /\ RevisionStep(r)
  BY NextRevisionStep DEF Inductive, TypeOK
<1>2. /\ Published(r)' /\ revisions'[r].family = f
      /\ revisions'[r].content = revisions[r].content
      /\ revisions'[r].from = revisions[r].from
  BY <1>1 DEF RevisionStep, Published, Revisions
<1> QED
  BY <1>2 DEF Unscheduled

(* A head that did not start later than it was published is shown from its *)
(* transition until its end.                                               *)
ShownAsTold(f) ==
  \E i \in 1..Len(transitions) :
    /\ transitions[i].to = {heads[f].revision}
    /\ Shown(f) = IF /\ transitions[i].state = "active"
                     /\ EndOf(f) = None \/ now < EndOf(f)
                  THEN heads[f].revision ELSE None

LEMMA HeadsAreShown ==
  Timeline => \A f \in FamilyIds : HasHead(f) /\ Unscheduled(f) => ShownAsTold(f)
<1> SUFFICES ASSUME Timeline, NEW f \in FamilyIds, HasHead(f), Unscheduled(f)
             PROVE  ShownAsTold(f)
  OBVIOUS
<1>1. PICK h : h = heads[f].revision
  OBVIOUS
<1>2. PICK i \in 1..Len(transitions) :
        Tells(transitions[i], h) /\ RecordedState(h) = transitions[i].state
  BY <1>1, HeadState
<1>3. Published(h) /\ revisions[h].family = f /\ h \in RevisionIds
  BY <1>1 DEF Timeline, Inductive, HeadsAreTheirOwn, Published
<1>4. /\ revisions[h].content.from <= revisions[h].from /\ revisions[h].from < now
      /\ revisions[h].content.from \in Nat /\ revisions[h].from \in Nat
      /\ revisions[h].content.to \in Nat /\ now \in Nat
  BY <1>3, TimeTypes DEF Timeline, Clock, Unscheduled
<1>5. View(h) = "active" <=>
        /\ transitions[i].state = "active"
        /\ revisions[h].content.to = None \/ now < revisions[h].content.to
  BY <1>2, <1>4 DEF View
<1> QED
  BY <1>1, <1>2, <1>5 DEF ShownAsTold, Shown, EndOf, Tells

LEMMA HeadsWillBeShown ==
  Timeline' => (\A f \in FamilyIds : HasHead(f) /\ Unscheduled(f) => ShownAsTold(f))'
BY HeadsAreShown, PTL

LEMMA PresentWillFollowHead ==
  Timeline' => (\A f \in FamilyIds : Unscheduled(f) => EffectiveNow(f) = Shown(f))'
BY PresentFollowsHead, PTL

(* What is active of a family changes when a revision is published or the  *)
(* head's validity ends; an event that was not due announces it, under the *)
(* number of the head.                                                     *)
Announces(e, f) ==
  e \in Due /\ e.family = f /\ e.kind # "relation" /\ e.sequence = heads[f].sequence

LEMMA HeadStays ==
  ASSUME Timeline, Timeline', Announcements, [Next]_ledgerVars, NEW f \in FamilyIds,
         HasHead(f), heads'[f] = heads[f], Unscheduled(f), Unscheduled(f)',
         revisions'[heads[f].revision].content = revisions[heads[f].revision].content
  PROVE  \/ EffectiveNow(f)' = EffectiveNow(f)
         \/ \E e \in outbox \ Due : Announces(e, f)'
<1>1. HasHead(f)' /\ EndOf(f)' = EndOf(f)
  BY DEF HasHead, EndOf
<1>2. /\ Inductive /\ outbox \subseteq outbox'
      /\ now \in Nat /\ now' \in Nat /\ now <= now'
  BY OutboxGrows DEF Timeline
<1>3. EndOf(f) \in Nat
  BY <1>2, HeadPairType, TimeTypes DEF EndOf, Inductive
<1>4. EffectiveNow(f) = Shown(f) /\ EffectiveNow(f)' = Shown(f)'
  BY PresentFollowsHead, PresentWillFollowHead
<1>5. PICK i \in 1..Len(transitions) :
        /\ transitions[i].to = {heads[f].revision}
        /\ Shown(f) = IF /\ transitions[i].state = "active"
                         /\ EndOf(f) = None \/ now < EndOf(f)
                      THEN heads[f].revision ELSE None
  BY HeadsAreShown DEF ShownAsTold
<1>6. PICK j \in 1..Len(transitions') :
        /\ transitions'[j].to = {heads'[f].revision}
        /\ Shown(f)' = IF /\ transitions'[j].state = "active"
                          /\ EndOf(f)' = None \/ now' < EndOf(f)'
                       THEN heads'[f].revision ELSE None
  BY <1>1, HeadsWillBeShown DEF ShownAsTold
<1>7. i = j /\ transitions'[i] = transitions[i]
  <2>1. transitions \in Seq(Transitions)
    BY <1>2 DEF Inductive, TypeOK
  <2>2. i \in 1..Len(transitions') /\ transitions'[i] = transitions[i]
    BY <1>2, <2>1, TransitionsGrow
  <2>3. transitions'[i].to = transitions'[j].to
    BY <1>5, <1>6, <2>2
  <2>4. TransitionsTell'
    BY DEF Timeline
  <2>5. i = j
    BY <1>6, <2>2, <2>3, <2>4 DEF TransitionsTell
  <2> QED
    BY <2>2, <2>5
<1>8. CASE EndOf(f) > now /\ EndOf(f) <= now'
  <2>1. PICK e \in outbox :
          /\ e.kind = "expiry" /\ e.family = f
          /\ e.sequence = heads[f].sequence /\ e.available = EndOf(f)
    BY <1>8 DEF Announcements
  <2> QED
    BY <1>2, <1>3, <1>8, <2>1 DEF Due, Announces
<1>9. CASE ~(EndOf(f) > now /\ EndOf(f) <= now')
  <2>1. now < EndOf(f) <=> now' < EndOf(f)
    BY <1>2, <1>3, <1>9
  <2> QED
    BY <1>1, <1>4, <1>5, <1>6, <1>7, <2>1
<1> QED
  BY <1>8, <1>9

LEMMA PresentMoves ==
  ASSUME Timeline, Timeline', Announcements, [Next]_ledgerVars, NEW f \in FamilyIds,
         HasHead(f)', Unscheduled(f)'
  PROVE  \/ /\ heads'[f] = heads[f] /\ HasHead(f) /\ Unscheduled(f)
            /\ EffectiveNow(f)' = EffectiveNow(f)
         \/ /\ heads'[f] = heads[f] \/ heads'[f].sequence = sequence + 1
            /\ \E e \in outbox' \ Due : Announces(e, f)'
<1>1. /\ Inductive /\ outbox \subseteq outbox'
      /\ now \in Nat /\ now' \in Nat /\ now <= now'
  BY OutboxGrows DEF Timeline
<1>2. Unscheduled(f)
  BY <1>1, UnscheduledBefore
<1>3. CASE /\ heads'[f] = heads[f]
           /\ HasHead(f)' <=> HasHead(f)
           /\ HasHead(f) => revisions'[heads[f].revision].content =
                              revisions[heads[f].revision].content
  BY <1>1, <1>2, <1>3, HeadStays
<1>4. ASSUME NEW p \in ProposalIds, NEW a \in AliasNames, NEW new \in RevisionIds,
             PublicationStep(p, f, a, new)
      PROVE  /\ heads'[f].sequence = sequence + 1
             /\ \E e \in outbox' \ Due : Announces(e, f)'
  <2>1. /\ Committed(p, f, new)
        /\ outbox' = outbox \cup PublicationEvents(p, f, new)
    BY <1>4 DEF PublicationStep
  <2>2. heads'[f].sequence = sequence + 1
    BY <1>1, <2>1 DEF Committed, Inductive, TypeOK
  <2>3. /\ revisions'[new].content = proposals[p].content
        /\ revisions'[new].from = now /\ revisions'[new].family = f /\ Published(new)'
    BY <1>1, <2>1, WindowsAfter, RevisionsAfter
  <2>4. proposals[p].content.from <= now
    BY <2>3 DEF Unscheduled
  <2>5. PICK e \in PublicationEvents(p, f, new) : e.kind = "head" /\ e.available = now
    BY <1>1, <2>4, PublicationAnnounces
  <2>6. e.sequence = sequence + 1 /\ e.family = f
    BY <1>1, PublicationAnnounces
  <2>7. e \notin Due
    <3>1. \A x \in outbox : x.sequence <= sequence
      BY DEF Announcements
    <3>2. sequence \in Nat
      BY <1>1 DEF Inductive, TypeOK
    <3> QED
      BY <2>6, <3>1, <3>2 DEF Due
  <2>8. Announces(e, f)'
    BY <1>1, <2>1, <2>2, <2>5, <2>6 DEF Announces, Due
  <2> QED
    BY <2>1, <2>2, <2>7, <2>8
<1> QED
  BY <1>1, <1>3, <1>4, HeadMoves
-----------------------------------------------------------------------------
(* One worker alone.  What it does of a family is right, or an event not   *)
(* yet applied, of the number of the head, will have it done again.        *)

Outstanding(e, f) == Announces(e, f) /\ delivery[e].status # "applied"

Right(f) == points[f].revision = EffectiveNow(f)

PointsFollow(f) ==
  /\ ~HasHead(f) => points[f] = NoPoint
  /\ points[f].sequence <= heads[f].sequence
  /\ HasHead(f) /\ Unscheduled(f) =>
       /\ points[f] # NoPoint /\ points[f].sequence = heads[f].sequence =>
            points[f].revision = heads[f].revision
       /\ Right(f) \/ \E e \in outbox : Outstanding(e, f)

(* What the worker read is what is active, or will be read again: an older *)
(* event may write it under its own number, never a stale one under the    *)
(* number of the head.                                                     *)
Fresh(work, f) ==
  /\ work.revision = EffectiveNow(f)
  /\ work.write = "upsert" <=> work.revision # None

WorkFollows(w) ==
  LET e == workers[w].event
      f == e.family
      again == \E d \in outbox \ {e} : Outstanding(d, f)
  IN /\ workers[w].step = "writing" => e.kind # "relation"
     /\ workers[w].step = "writing" /\ Unscheduled(f) =>
          /\ workers[w].write = "upsert" /\ e.sequence = heads[f].sequence =>
               workers[w].revision = heads[f].revision
          /\ Fresh(workers[w], f) \/ again
     /\ workers[w].step = "marking" /\ e.kind # "relation" /\ Unscheduled(f) =>
          Right(f) \/ again

NotDueYet == \A e \in outbox \ Due : delivery[e].status = "pending"

NoRebuilds == rebuild = NoRebuild /\ rebuilds = 0

Following ==
  /\ NoRebuilds /\ NotDueYet
  /\ \A f \in FamilyIds : PointsFollow(f)
  /\ \A w \in Workers : WorkFollows(w)

Convergent == Dispatch /\ Announcements /\ Following

LEMMA InitFollowing == Init /\ ProjectionInit => Following
<1> SUFFICES ASSUME Init, ProjectionInit PROVE Following
  OBVIOUS
<1>1. outbox = {} /\ \A f \in FamilyIds : heads[f] = NoHead /\ points[f] = NoPoint
  BY DEF Init, ProjectionInit
<1>2. NoPoint.sequence = 0 /\ NoHead.sequence = 0 /\ NoHead.revision = None
  BY DEF NoPoint, NoHead
<1>3. \A f \in FamilyIds : PointsFollow(f)
  BY <1>1, <1>2 DEF PointsFollow, HasHead
<1>4. \A w \in Workers : WorkFollows(w)
  BY DEF ProjectionInit, WorkFollows, Idle
<1> QED
  BY <1>1, <1>3, <1>4 DEF Following, NoRebuilds, NotDueYet, ProjectionInit

LEMMA LedgerUntouched ==
  ASSUME UNCHANGED ledgerVars
  PROVE  /\ Due' = Due
         /\ \A f : /\ EffectiveNow(f)' = EffectiveNow(f)
                   /\ Unscheduled(f)' <=> Unscheduled(f)
                   /\ HasHead(f)' <=> HasHead(f)
                   /\ \A e : Announces(e, f)' <=> Announces(e, f)
<1> USE DEF ledgerVars
<1>1. Due' = Due
  BY DEF Due
<1>2. ASSUME NEW f PROVE EffectiveNow(f)' = EffectiveNow(f)
  <2>1. ASSUME NEW r
        PROVE  /\ Published(r)' <=> Published(r)
               /\ Reactivations(r)' = Reactivations(r)
               /\ RetiredAt(r, now)' <=> RetiredAt(r, now)
    BY DEF Published, Reactivations, RetiredAt
  <2>2. ASSUME NEW r PROVE RecordedAt(r, now)' <=> RecordedAt(r, now)
    BY <2>1 DEF RecordedAt
  <2> DEFINE rows == EffectiveRows(f, now, now)
             chosen == CHOOSE s \in rows : \A r \in rows : Precedes(r, s)
  <2>3. rows' = rows
    BY <2>1, <2>2 DEF EffectiveRows
  <2>4. chosen' = chosen
    <3>1. \A r, s : Precedes(r, s)' <=> Precedes(r, s)
      BY DEF Precedes
    <3> HIDE DEF rows
    <3> QED
      BY <2>3, <3>1
  <2>5. EffectiveNow(f) =
          IF rows # {} /\ (revisions[chosen].content.to = None
                             \/ now < revisions[chosen].content.to)
          THEN chosen ELSE None
    BY DEF EffectiveNow, Effective
  <2>6. EffectiveNow(f)' =
          IF rows' # {} /\ (revisions'[chosen'].content.to = None
                              \/ now' < revisions'[chosen'].content.to)
          THEN chosen' ELSE None
    BY DEF EffectiveNow, Effective
  <2> HIDE DEF rows, chosen
  <2> QED
    BY <2>3, <2>4, <2>5, <2>6
<1>3. ASSUME NEW f PROVE (Unscheduled(f)' <=> Unscheduled(f)) /\ (HasHead(f)' <=> HasHead(f))
  BY DEF Unscheduled, HasHead, Published
<1>4. ASSUME NEW f, NEW e PROVE Announces(e, f)' <=> Announces(e, f)
  BY <1>1 DEF Announces
<1> QED
  BY <1>1, <1>2, <1>3, <1>4

(* A step of the ledger.                                                   *)
LEMMA LedgerMoves ==
  ASSUME Convergent, Timeline', LedgerStep, NEW f \in FamilyIds, HasHead(f)', Unscheduled(f)'
  PROVE  \/ /\ heads'[f] = heads[f] /\ HasHead(f) /\ Unscheduled(f)
            /\ EffectiveNow(f)' = EffectiveNow(f)
            /\ \A e \in outbox : Outstanding(e, f) => Outstanding(e, f)'
         \/ /\ \/ heads'[f] = heads[f] /\ HasHead(f) /\ Unscheduled(f)
               \/ heads'[f].sequence = sequence + 1
            /\ \E e \in outbox' \ Due : Outstanding(e, f)'
<1>1. Timeline /\ Inductive /\ Announcements /\ NotDueYet /\ [Next]_ledgerVars
  BY DEF Convergent, Dispatch, Timeline, Following, LedgerStep
<1>2. /\ outbox \subseteq outbox'
      /\ now \in Nat /\ now' \in Nat /\ now <= now'
  BY <1>1, OutboxGrows
<1>3. \A e \in outbox' : delivery'[e] = IF e \in outbox THEN delivery[e] ELSE Pending
  BY DEF LedgerStep
<1>4. ASSUME NEW e \in outbox' \ Due, Announces(e, f)' PROVE Outstanding(e, f)'
  BY <1>1, <1>3, <1>4 DEF Outstanding, NotDueYet, Pending
<1>5. ASSUME heads'[f] = heads[f], NEW e \in outbox, Outstanding(e, f)
      PROVE  Outstanding(e, f)'
  <2>1. e.available \in Nat
    BY <1>1 DEF Inductive, TypeOK, Events
  <2> QED
    BY <1>2, <1>3, <1>5, <2>1 DEF Outstanding, Announces, Due
<1>6. heads'[f] = heads[f] => HasHead(f) /\ Unscheduled(f)
  BY <1>1, UnscheduledBefore DEF HasHead
<1> QED
  BY <1>1, <1>4, <1>5, <1>6, PresentMoves

LEMMA LedgerKeepsPoints ==
  ASSUME Convergent, Timeline', LedgerStep, NEW f \in FamilyIds
  PROVE  PointsFollow(f)'
<1>1. /\ Timeline /\ Inductive /\ Announcements /\ PointsFollow(f) /\ [Next]_ledgerVars
      /\ UNCHANGED points /\ points[f].sequence \in Nat
  BY DEF Convergent, Dispatch, Timeline, Following, LedgerStep, DeliveryTypes, Heads
<1>2. heads[f].sequence \in Nat /\ sequence \in Nat /\ heads[f].sequence <= sequence
  BY <1>1 DEF Inductive, TypeOK, Heads, Announcements
<1>3. \/ heads'[f] = heads[f] /\ (HasHead(f)' <=> HasHead(f))
      \/ heads'[f].sequence = sequence + 1 /\ HasHead(f)'
  <2>1. ASSUME NEW p \in ProposalIds, NEW a \in AliasNames, NEW new \in RevisionIds,
               PublicationStep(p, f, a, new)
        PROVE  heads'[f].sequence = sequence + 1 /\ HasHead(f)'
    <3>1. Committed(p, f, new)
      BY <2>1 DEF PublicationStep
    <3> QED
      BY <1>1, <3>1, HeadsAfter DEF Committed, Inductive, TypeOK
  <2> QED
    BY <1>1, <2>1, HeadMoves
<1>4. /\ ~HasHead(f)' => points'[f] = NoPoint
      /\ points'[f].sequence <= heads'[f].sequence
  BY <1>1, <1>2, <1>3 DEF PointsFollow
<1>5. ASSUME HasHead(f)', Unscheduled(f)'
      PROVE  /\ points'[f] # NoPoint /\ points'[f].sequence = heads'[f].sequence =>
                  points'[f].revision = heads'[f].revision
             /\ Right(f)' \/ \E e \in outbox' : Outstanding(e, f)'
  <2>1. CASE /\ heads'[f] = heads[f] /\ HasHead(f) /\ Unscheduled(f)
             /\ EffectiveNow(f)' = EffectiveNow(f)
             /\ \A e \in outbox : Outstanding(e, f) => Outstanding(e, f)'
    <3>1. outbox \subseteq outbox'
      BY <1>1, OutboxGrows
    <3> QED
      BY <1>1, <2>1, <3>1 DEF PointsFollow, Right
  <2>2. CASE /\ \/ heads'[f] = heads[f] /\ HasHead(f) /\ Unscheduled(f)
                \/ heads'[f].sequence = sequence + 1
             /\ \E e \in outbox' \ Due : Outstanding(e, f)'
    <3>1. \E e \in outbox' : Outstanding(e, f)'
      BY <2>2
    <3>2. CASE heads'[f] = heads[f] /\ HasHead(f) /\ Unscheduled(f)
      BY <1>1, <3>1, <3>2 DEF PointsFollow
    <3>3. CASE heads'[f].sequence = sequence + 1
      <4>1. points[f].sequence <= heads[f].sequence
        BY <1>1 DEF PointsFollow
      <4>2. points'[f].sequence # heads'[f].sequence
        BY <1>1, <1>2, <3>3, <4>1
      <4> QED
        BY <3>1, <4>2
    <3> QED
      BY <2>2, <3>1, <3>2, <3>3
  <2> QED
    BY <1>5, <2>1, <2>2, LedgerMoves
<1> QED
  BY <1>4, <1>5 DEF PointsFollow

(* What is asked of a worker, of the event it holds and of its family.     *)
FollowsFor(work, d, g) ==
  /\ work.step = "writing" => d.kind # "relation"
  /\ work.step = "writing" /\ Unscheduled(g) =>
       /\ work.write = "upsert" /\ d.sequence = heads[g].sequence =>
            work.revision = heads[g].revision
       /\ Fresh(work, g) \/ \E x \in outbox \ {d} : Outstanding(x, g)
  /\ work.step = "marking" /\ d.kind # "relation" /\ Unscheduled(g) =>
       Right(g) \/ \E x \in outbox \ {d} : Outstanding(x, g)

LEMMA FollowsAfter ==
  ASSUME NEW w, NEW d, NEW g, d = workers'[w].event, g = d.family, FollowsFor(workers[w], d, g)'
  PROVE  WorkFollows(w)'
BY DEF FollowsFor, WorkFollows

LEMMA LedgerKeepsWork ==
  ASSUME Convergent, Timeline', LedgerStep, NEW w \in Workers
  PROVE  WorkFollows(w)'
<1> DEFINE e == workers[w].event
           f == e.family
<1>1. /\ Timeline /\ Inductive /\ Announcements /\ WorkFollows(w) /\ [Next]_ledgerVars
      /\ UNCHANGED <<workers, points>>
  BY DEF Convergent, Dispatch, Timeline, Following, LedgerStep
<1>2. CASE workers[w].step \notin {"writing", "marking"}
  BY <1>1, <1>2 DEF WorkFollows
<1>3. CASE workers[w].step \in {"writing", "marking"}
  <2>1. PICK d : d = e
    OBVIOUS
  <2>2. PICK g : g = f
    OBVIOUS
  <2>3. d \in Due /\ d \in outbox /\ g \in FamilyIds
    <3>1. d \in Due
      BY <1>3, <2>1 DEF Convergent, Dispatch, WorkIsDue, Idle
    <3> QED
      BY <1>1, <2>1, <2>2, <3>1 DEF Due, Inductive, TypeOK, Events
  <2>4. workers[w].step = "writing" => d.kind # "relation"
    BY <1>1, <2>1 DEF WorkFollows
  <2>5. CASE d.kind = "relation"
    BY <1>1, <2>1, <2>4, <2>5 DEF WorkFollows
  <2>6. CASE d.kind # "relation" /\ ~Unscheduled(g)'
    BY <1>1, <2>1, <2>2, <2>4, <2>6 DEF WorkFollows
  <2>7. CASE d.kind # "relation" /\ Unscheduled(g)'
    <3>1. HasHead(g) /\ d.sequence <= sequence /\ d.sequence \in Nat /\ sequence \in Nat
      BY <1>1, <2>1, <2>2, <2>3, <2>7 DEF Announcements, Inductive, TypeOK, Events
    <3>2. HasHead(g)'
      BY <1>1, <2>3, <3>1, HeadMoves, HeadsAfter DEF PublicationStep
    <3>3. CASE /\ heads'[g] = heads[g] /\ HasHead(g) /\ Unscheduled(g)
               /\ EffectiveNow(g)' = EffectiveNow(g)
               /\ \A x \in outbox : Outstanding(x, g) => Outstanding(x, g)'
      <4>1. outbox \subseteq outbox'
        BY <1>1, OutboxGrows
      <4>2. /\ workers[w].step = "writing" =>
                 /\ workers[w].write = "upsert" /\ d.sequence = heads[g].sequence =>
                      workers[w].revision = heads[g].revision
                 /\ Fresh(workers[w], g) \/ \E x \in outbox \ {d} : Outstanding(x, g)
            /\ workers[w].step = "marking" =>
                 Right(g) \/ \E x \in outbox \ {d} : Outstanding(x, g)
        BY <1>1, <2>1, <2>2, <2>7, <3>3 DEF WorkFollows
      <4>3. /\ workers'[w].step = "writing" =>
                 /\ workers'[w].write = "upsert" /\ d.sequence = heads'[g].sequence =>
                      workers'[w].revision = heads'[g].revision
                 /\ Fresh(workers[w], g)' \/ \E x \in outbox' \ {d} : Outstanding(x, g)'
            /\ workers'[w].step = "marking" =>
                 Right(g)' \/ \E x \in outbox' \ {d} : Outstanding(x, g)'
        BY <1>1, <3>3, <4>1, <4>2 DEF Fresh, Right
      <4>4. FollowsFor(workers[w], d, g)'
        BY <2>7, <4>3 DEF FollowsFor
      <4>5. d = workers'[w].event /\ g = d.family
        BY <1>1, <2>1, <2>2
      <4> QED
        BY <4>4, <4>5, FollowsAfter
    <3>4. CASE /\ \/ heads'[g] = heads[g] /\ HasHead(g) /\ Unscheduled(g)
                  \/ heads'[g].sequence = sequence + 1
               /\ \E x \in outbox' \ Due : Outstanding(x, g)'
      <4>1. \E x \in outbox' \ {d} : Outstanding(x, g)'
        BY <2>3, <3>4
      <4>2. workers[w].step = "writing" /\ workers[w].write = "upsert"
              /\ d.sequence = heads'[g].sequence =>
                workers[w].revision = heads'[g].revision
        <5>1. CASE heads'[g] = heads[g] /\ Unscheduled(g)
          <6>1. WorkFollows(w)
            BY <1>1
          <6> HIDE <1>1, <1>3, <3>1, <3>4
          <6> QED
            BY <2>1, <2>2, <5>1, <6>1 DEF WorkFollows
        <5>2. CASE heads'[g].sequence = sequence + 1
          BY <3>1, <5>2
        <5> QED
          BY <3>4, <5>1, <5>2
      <4>3. FollowsFor(workers[w], d, g)'
        <5>1. workers' = workers
          BY <1>1
        <5>2. workers'[w].step = "writing" =>
                (workers'[w].write = "upsert" /\ d.sequence = heads'[g].sequence =>
                   workers'[w].revision = heads'[g].revision)
          BY <4>2, <5>1
        <5> HIDE <1>1, <1>3, <3>4
        <5> QED
          BY <2>7, <4>1, <5>2 DEF FollowsFor
      <4>4. d = workers'[w].event /\ g = d.family
        BY <1>1, <2>1, <2>2
      <4> QED
        BY <4>3, <4>4, FollowsAfter
    <3> QED
      BY <2>3, <2>7, <3>2, <3>3, <3>4, LedgerMoves
  <2> QED
    BY <2>5, <2>6, <2>7
<1> QED
  BY <1>2, <1>3

LEMMA LedgerKeepsFollowing ==
  ASSUME Convergent, Timeline', LedgerStep
  PROVE  Following'
<1>1. NoRebuilds'
  BY DEF Convergent, Following, NoRebuilds, LedgerStep
<1>2. NotDueYet'
  <2>1. now \in Nat /\ now' \in Nat /\ now <= now' /\ outbox \subseteq Events
    BY OutboxGrows DEF LedgerStep, Convergent, Dispatch, Timeline, Inductive, TypeOK
  <2>2. ASSUME NEW e \in outbox', e \in Due PROVE e \in Due'
    <3>1. e.available \in Nat
      BY <2>1, <2>2 DEF Due, Events
    <3> QED
      BY <2>1, <2>2, <3>1 DEF Due
  <2> QED
    BY <2>2 DEF NotDueYet, Convergent, Following, LedgerStep, Pending
<1>3. \A w \in Workers : WorkFollows(w)'
  BY LedgerKeepsWork
<1> QED
  BY <1>1, <1>2, <1>3, LedgerKeepsPoints DEF Following
-----------------------------------------------------------------------------
(* A step of the worker, or of its lease.                                  *)

(* Nothing is applied, and nothing is done to what is not due.             *)
NothingApplied ==
  /\ \A e \in outbox \ Due : delivery'[e].status = delivery[e].status
  /\ \A e \in outbox : delivery[e].status # "applied" => delivery'[e].status # "applied"

LEMMA NothingAppliedKeeps ==
  ASSUME Convergent, NothingApplied, UNCHANGED <<ledgerVars, points, rebuild, rebuilds>>
  PROVE  /\ NoRebuilds' /\ NotDueYet' /\ \A f \in FamilyIds : PointsFollow(f)'
         /\ \A f : \A e \in outbox : Outstanding(e, f) => Outstanding(e, f)'
<1>1. /\ Due' = Due /\ outbox' = outbox /\ heads' = heads /\ revisions' = revisions
      /\ \A f : /\ EffectiveNow(f)' = EffectiveNow(f)
                /\ Unscheduled(f)' <=> Unscheduled(f)
                /\ HasHead(f)' <=> HasHead(f)
                /\ \A e : Announces(e, f)' <=> Announces(e, f)
  BY LedgerUntouched DEF ledgerVars
<1>2. \A f : \A e \in outbox : Outstanding(e, f) => Outstanding(e, f)'
  BY <1>1 DEF NothingApplied, Outstanding
<1>3. NoRebuilds' /\ NotDueYet'
  BY <1>1 DEF Convergent, Following, NoRebuilds, NotDueYet, NothingApplied
<1>4. ASSUME NEW f \in FamilyIds PROVE PointsFollow(f)'
  BY <1>1, <1>2 DEF Convergent, Following, PointsFollow, Right
<1> QED
  BY <1>2, <1>3, <1>4

LEMMA ClaimFollows ==
  ASSUME Convergent, NEW w \in Workers, Workers = {w}, NEW e \in outbox, Claim(w, e)
  PROVE  Following'
<1>1. e \in Due /\ delivery \in [outbox -> Deliveries] /\ workers \in [Workers -> Works]
  BY DEF Claim, Claimable, Due, Convergent, Dispatch, DeliveryTypes
<1>2. NothingApplied
  <2>1. \A d \in outbox \ {e} : delivery'[d] = delivery[d]
    BY <1>1 DEF Claim
  <2>2. delivery'[e].status = "processing"
    BY <1>1 DEF Claim, Deliveries
  <2> QED
    BY <1>1, <2>1, <2>2 DEF NothingApplied
<1>3. workers'[w].step = "claimed"
  BY <1>1 DEF Claim, Works
<1>4. \A x \in Workers : WorkFollows(x)'
  BY <1>3 DEF WorkFollows
<1> QED
  BY <1>2, <1>4, NothingAppliedKeeps DEF Claim, Following

LEMMA ReadFollows ==
  ASSUME Convergent, NEW w \in Workers, Workers = {w}, Read(w)
  PROVE  Following'
<1>1. /\ delivery \in [outbox -> Deliveries] /\ workers \in [Workers -> Works]
      /\ Timeline /\ Inductive
  BY DEF Convergent, Dispatch, DeliveryTypes, Timeline
<1>2. NothingApplied
  BY DEF Read, NothingApplied
<1>3. PICK e : e = workers[w].event
  OBVIOUS
<1>4. PICK f : f = e.family
  OBVIOUS
<1>5. PICK current : current = EffectiveNow(f)
  OBVIOUS
<1>6. /\ UNCHANGED <<ledgerVars, delivery, points, rebuild, rebuilds>>
      /\ workers[w] \in Works
      /\ workers'[w].event = e
      /\ e.kind = "relation" => workers'[w].step = "marking"
      /\ e.kind # "relation" =>
           /\ workers'[w].step = "writing" /\ workers'[w].revision = current
           /\ workers'[w].write =
                IF current # None /\ View(current) = "active" THEN "upsert" ELSE "delete"
  <2> DEFINE write == IF current # None /\ View(current) = "active"
                      THEN "upsert" ELSE "delete"
  <2>1. workers' = [workers EXCEPT ![w] =
          IF e.kind = "relation" THEN [@ EXCEPT !.step = "marking"]
          ELSE [@ EXCEPT !.step = "writing", !.revision = current, !.write = write]]
    BY <1>3, <1>4, <1>5 DEF Read
  <2>2. workers[w] \in Works
    BY <1>1
  <2> HIDE DEF write
  <2>3. /\ workers'[w].event = e
        /\ e.kind = "relation" => workers'[w].step = "marking"
        /\ e.kind # "relation" =>
             /\ workers'[w].step = "writing" /\ workers'[w].revision = current
             /\ workers'[w].write = write
    BY <1>1, <1>3, <2>1, <2>2 DEF Works
  <2> QED
    BY <2>2, <2>3 DEF Read, write
<1>7. f \in FamilyIds
  <2>1. workers[w] # Idle
    BY DEF Read, Idle
  <2>2. e \in outbox
    BY <1>3, <2>1 DEF Convergent, Dispatch, WorkIsDue, Due
  <2> QED
    BY <1>1, <1>4, <2>2 DEF Inductive, TypeOK, Events
<1>8. ASSUME e.kind # "relation", Unscheduled(f)
      PROVE  /\ workers'[w].write = "upsert" <=> current # None
             /\ current # None => current = heads[f].revision
  <2>1. current = IF HasHead(f) /\ View(heads[f].revision) = "active"
                  THEN heads[f].revision ELSE None
    BY <1>1, <1>5, <1>7, <1>8, PresentFollowsHead DEF Shown
  <2>2. current # None => View(current) = "active"
    BY <2>1
  <2> QED
    BY <1>6, <1>8, <2>1, <2>2
<1>9. /\ EffectiveNow(f)' = EffectiveNow(f)
      /\ Unscheduled(f)' <=> Unscheduled(f)
      /\ heads' = heads
  BY <1>6, LedgerUntouched DEF ledgerVars
<1>10. ASSUME e.kind # "relation", Unscheduled(f)
       PROVE  /\ workers'[w].write = "upsert" => workers'[w].revision = heads'[f].revision
              /\ Fresh(workers[w], f)'
  BY <1>5, <1>6, <1>8, <1>9, <1>10 DEF Fresh
<1>11. WorkFollows(w)'
  <2>1. CASE e.kind = "relation"
    BY <1>6, <2>1 DEF WorkFollows
  <2>2. CASE e.kind # "relation"
    BY <1>4, <1>6, <1>9, <1>10, <2>2 DEF WorkFollows
  <2> QED
    BY <2>1, <2>2
<1> QED
  BY <1>2, <1>6, <1>11, NothingAppliedKeeps DEF Following

(* A write under an older number than the head's leaves the head's event   *)
(* to come; one under its number leaves what is active.                    *)
LEMMA WriteFollows ==
  ASSUME Convergent, NEW w \in Workers, Workers = {w}, Write(w)
  PROVE  Following'
<1>1. /\ workers \in [Workers -> Works] /\ points \in [FamilyIds -> Heads]
      /\ Timeline /\ Inductive /\ Announcements /\ WorkFollows(w)
      /\ \A f \in FamilyIds : PointsFollow(f)
  BY DEF Convergent, Dispatch, DeliveryTypes, Timeline, Following
<1>2. PICK e : e = workers[w].event
  OBVIOUS
<1>3. PICK f : f = e.family
  OBVIOUS
<1>4. PICK r : r = workers[w].revision
  OBVIOUS
<1>5. /\ UNCHANGED <<ledgerVars, delivery, rebuild, rebuilds>>
      /\ workers'[w].step = "marking" /\ workers'[w].event = e
      /\ points' = IF workers[w].write = "upsert" THEN Upserted(f, r, e.sequence)
                   ELSE Deleted(f, e.sequence)
  BY <1>1, <1>2, <1>3, <1>4 DEF Write, Works
<1>6. e \in outbox /\ f \in FamilyIds /\ e.sequence \in Nat
  <2>1. workers[w] # Idle
    BY DEF Write, Idle
  <2>2. e \in outbox
    BY <1>2, <2>1 DEF Convergent, Dispatch, WorkIsDue, Due
  <2> QED
    BY <1>1, <1>3, <2>2 DEF Inductive, TypeOK, Events
<1>7. e.kind # "relation" /\ HasHead(f) /\ e.sequence <= heads[f].sequence
  BY <1>1, <1>2, <1>3, <1>6 DEF WorkFollows, Write, Announcements
<1>8. heads[f].sequence \in Nat /\ points[f].sequence \in Nat /\ points[f] \in Heads
  BY <1>1, <1>6 DEF Inductive, TypeOK, Heads
<1>9. /\ heads' = heads /\ outbox' = outbox /\ Due' = Due
      /\ \A g : /\ EffectiveNow(g)' = EffectiveNow(g)
                /\ Unscheduled(g)' <=> Unscheduled(g)
                /\ HasHead(g)' <=> HasHead(g)
                /\ \A d : Outstanding(d, g)' <=> Outstanding(d, g)
  BY <1>5, LedgerUntouched DEF ledgerVars, Outstanding
<1>10. /\ \A g \in FamilyIds \ {f} : points'[g] = points[g]
       /\ \/ points'[f] = points[f]
          \/ /\ points'[f] = [revision |-> r, sequence |-> e.sequence]
             /\ workers[w].write = "upsert"
          \/ points'[f] = NoPoint /\ workers[w].write # "upsert"
       /\ points'[f] = points[f] /\ points'[f] # NoPoint =>
            \/ workers[w].write = "upsert" /\ points[f].sequence >= e.sequence
            \/ workers[w].write # "upsert" /\ points[f].sequence > e.sequence
            \/ workers[w].write = "upsert" /\ points[f].revision = r
  BY <1>1, <1>5, <1>6 DEF Upserted, Deleted
<1>11. points'[f].sequence <= heads[f].sequence
  BY <1>1, <1>6, <1>7, <1>8, <1>10 DEF NoPoint, PointsFollow
<1>12. ASSUME Unscheduled(f)
       PROVE  points'[f] # NoPoint /\ points'[f].sequence = heads[f].sequence =>
                points'[f].revision = heads[f].revision
  <2>1. CASE points'[f] = points[f]
    BY <1>1, <1>6, <1>7, <1>12, <2>1 DEF PointsFollow
  <2>2. CASE /\ points'[f] = [revision |-> r, sequence |-> e.sequence]
             /\ workers[w].write = "upsert"
    <3>1. workers[w].step = "writing" /\ workers[w].event = e /\ workers[w].revision = r
      BY <1>2, <1>3, <1>4 DEF Write
    <3>2. e.sequence = heads[f].sequence => r = heads[f].revision
      <4>1. WorkFollows(w)
        BY <1>1
      <4> HIDE <1>1
      <4> QED
        BY <1>3, <1>12, <2>2, <3>1, <4>1 DEF WorkFollows
    <3> QED
      BY <2>2, <3>2
  <2> QED
    BY <1>10, <2>1, <2>2
<1>13. ASSUME Unscheduled(f)
       PROVE  Right(f)' \/ \E d \in outbox \ {e} : Outstanding(d, f)
  <2>1. SUFFICES ASSUME Fresh(workers[w], f)
                 PROVE  Right(f)' \/ \E d \in outbox \ {e} : Outstanding(d, f)
    BY <1>1, <1>2, <1>3, <1>13 DEF WorkFollows, Write
  <2>2. r = EffectiveNow(f) /\ (workers[w].write = "upsert" <=> r # None)
    BY <1>4, <2>1 DEF Fresh
  <2>3. r # None => r = heads[f].revision
    BY <1>1, <1>6, <1>13, <2>2, PresentFollowsHead DEF Shown
  <2>4. ASSUME e.sequence < heads[f].sequence, points'[f] = points[f]
        PROVE  Right(f)' \/ \E d \in outbox \ {e} : Outstanding(d, f)
    <3>1. Right(f) \/ \E d \in outbox : Outstanding(d, f)
      BY <1>1, <1>6, <1>7, <1>13 DEF PointsFollow
    <3>2. \A d : Outstanding(d, f) => d # e
      BY <1>6, <1>8, <2>4 DEF Outstanding, Announces
    <3> QED
      BY <1>9, <2>4, <3>1, <3>2 DEF Right
  <2>5. CASE points'[f] = NoPoint /\ workers[w].write # "upsert"
    BY <1>9, <2>2, <2>5 DEF Right, NoPoint
  <2>6. CASE points'[f] = [revision |-> r, sequence |-> e.sequence]
    BY <1>9, <2>2, <2>6 DEF Right
  <2>7. CASE points'[f] = points[f] /\ points[f] # NoPoint
    <3>1. points[f].sequence <= heads[f].sequence
      BY <1>1, <1>6 DEF PointsFollow
    <3>2. CASE points[f].revision = r
      BY <1>9, <2>2, <2>7, <3>2 DEF Right
    <3>3. CASE points[f].sequence = heads[f].sequence /\ workers[w].write = "upsert"
      <4>1. points[f].revision = heads[f].revision
        BY <1>1, <1>6, <1>7, <1>13, <2>7, <3>3 DEF PointsFollow
      <4> QED
        BY <2>2, <2>3, <3>2, <3>3, <4>1
    <3>4. CASE e.sequence < heads[f].sequence
      BY <2>4, <2>7, <3>4
    <3> QED
      BY <1>6, <1>8, <1>10, <2>7, <3>1, <3>2, <3>3, <3>4
  <2>8. CASE points'[f] = points[f] /\ points[f] = NoPoint
    <3>1. CASE workers[w].write = "upsert"
      <4>1. points'[f] = [revision |-> r, sequence |-> e.sequence]
        BY <1>1, <1>5, <1>6, <2>8, <3>1 DEF Upserted
      <4> QED
        BY <2>6, <4>1
    <3>2. CASE workers[w].write # "upsert"
      BY <2>5, <2>8, <3>2
    <3> QED
      BY <3>1, <3>2
  <2> QED
    BY <1>10, <2>5, <2>6, <2>7, <2>8
<1>14. PointsFollow(f)'
  <2>1. Unscheduled(f) => Right(f)' \/ \E d \in outbox' : Outstanding(d, f)'
    BY <1>9, <1>13
  <2> QED
    BY <1>7, <1>9, <1>11, <1>12, <2>1 DEF PointsFollow
<1>15. ASSUME NEW g \in FamilyIds \ {f} PROVE PointsFollow(g)'
  BY <1>1, <1>9, <1>10 DEF PointsFollow, Right
<1>16. WorkFollows(w)'
  <2>1. Unscheduled(f) => Right(f)' \/ \E d \in outbox' \ {e} : Outstanding(d, f)'
    BY <1>9, <1>13
  <2> QED
    BY <1>3, <1>5, <1>9, <2>1 DEF WorkFollows
<1>17. NoRebuilds' /\ NotDueYet'
  BY <1>5, <1>9 DEF Convergent, Following, NoRebuilds, NotDueYet
<1> QED
  BY <1>14, <1>15, <1>16, <1>17 DEF Following

(* An event is marked applied once its family is right, or another event   *)
(* of the head's number is still to be handled.                            *)
LEMMA MarkFollows ==
  ASSUME Convergent, NEW w \in Workers, Workers = {w}, Mark(w)
  PROVE  Following'
<1>1. /\ workers \in [Workers -> Works] /\ Inductive /\ WorkFollows(w)
      /\ DeliveryTypes /\ WorkIsDue /\ \A f \in FamilyIds : PointsFollow(f)
  BY DEF Convergent, Dispatch, DeliveryTypes, Timeline, Following
<1>2. PICK e : e = workers[w].event
  OBVIOUS
<1>3. /\ UNCHANGED <<ledgerVars, points, rebuild, rebuilds>>
      /\ workers'[w] = Idle
      /\ \A d \in outbox \ {e} : delivery'[d] = delivery[d]
  BY <1>1, <1>2, MarkedType DEF Mark
<1>4. e \in Due
  BY <1>2 DEF Convergent, Dispatch, WorkIsDue, Mark, Idle
<1>5. /\ heads' = heads /\ outbox' = outbox /\ Due' = Due
      /\ \A g : /\ EffectiveNow(g)' = EffectiveNow(g)
                /\ Unscheduled(g)' <=> Unscheduled(g)
                /\ HasHead(g)' <=> HasHead(g)
                /\ \A d \in outbox \ {e} : Outstanding(d, g)' <=> Outstanding(d, g)
  BY <1>3, LedgerUntouched DEF ledgerVars, Outstanding
<1>6. ASSUME NEW f \in FamilyIds, HasHead(f), Unscheduled(f), Outstanding(e, f)
      PROVE  Right(f) \/ \E d \in outbox \ {e} : Outstanding(d, f)
  BY <1>1, <1>2, <1>6 DEF WorkFollows, Mark, Outstanding, Announces
<1>7. ASSUME NEW f \in FamilyIds PROVE PointsFollow(f)'
  <2>1. ASSUME HasHead(f), Unscheduled(f)
        PROVE  Right(f)' \/ \E d \in outbox' : Outstanding(d, f)'
    <3>1. Right(f) \/ \E d \in outbox \ {e} : Outstanding(d, f)
      BY <1>1, <1>6, <2>1 DEF PointsFollow
    <3>2. Right(f)' <=> Right(f)
      BY <1>3, <1>5 DEF Right
    <3> QED
      BY <1>5, <3>1, <3>2
  <2> QED
    BY <1>1, <1>3, <1>5, <2>1 DEF PointsFollow
<1>8. NoRebuilds' /\ NotDueYet'
  BY <1>3, <1>4, <1>5 DEF Convergent, Following, NoRebuilds, NotDueYet
<1>9. WorkFollows(w)'
  BY <1>3 DEF WorkFollows, Idle
<1> QED
  BY <1>7, <1>8, <1>9 DEF Following

(* A failure or a crash leaves the event to be handled again.              *)
LEMMA FaultFollows ==
  ASSUME Convergent, NEW w \in Workers, Workers = {w}, Fail(w) \/ Crash(w)
  PROVE  Following'
<1>1. workers \in [Workers -> Works] /\ Inductive /\ DeliveryTypes /\ WorkIsDue
  BY DEF Convergent, Dispatch, DeliveryTypes, Timeline
<1>2. workers'[w] = Idle /\ UNCHANGED <<ledgerVars, points, rebuild, rebuilds>>
  BY <1>1 DEF Fail, Crash
<1>3. NothingApplied
  <2>1. CASE Fail(w)
    <3>1. workers[w].step # "idle" /\ delivery' = Marked(w, "failed")
      BY <2>1 DEF Fail
    <3>2. \A e \in outbox : \/ delivery'[e] = delivery[e]
                            \/ /\ e = workers[w].event
                               /\ delivery'[e].status \in {"failed", "dead_letter"}
      BY <1>1, <3>1, MarkedType
    <3>3. workers[w].event \in Due
      BY <1>1, <3>1 DEF WorkIsDue, Idle
    <3> QED
      BY <3>2, <3>3 DEF NothingApplied
  <2>2. CASE Crash(w)
    BY <2>2 DEF Crash, NothingApplied
  <2> QED
    BY <2>1, <2>2
<1>4. WorkFollows(w)'
  BY <1>2 DEF WorkFollows, Idle
<1> QED
  BY <1>2, <1>3, <1>4, NothingAppliedKeeps DEF Following

LEMMA ExpiryFollows ==
  ASSUME Convergent, NEW e \in outbox, LeaseExpires(e)
  PROVE  Following'
<1>1. delivery \in [outbox -> Deliveries] /\ \A w \in Workers : WorkFollows(w)
  BY DEF Convergent, Dispatch, DeliveryTypes, Following
<1>2. UNCHANGED <<ledgerVars, workers, points, rebuild, rebuilds>>
  BY DEF LeaseExpires
<1>3. NothingApplied
  <2>1. /\ \A d \in outbox \ {e} : delivery'[d] = delivery[d]
        /\ delivery'[e].status = delivery[e].status
    BY <1>1 DEF LeaseExpires, Deliveries
  <2> QED
    BY <2>1 DEF NothingApplied
<1>4. /\ heads' = heads /\ outbox' = outbox
      /\ \A g : /\ EffectiveNow(g)' = EffectiveNow(g)
                /\ Unscheduled(g)' <=> Unscheduled(g)
                /\ \A d \in outbox : Outstanding(d, g) => Outstanding(d, g)'
  BY <1>2, <1>3, LedgerUntouched, NothingAppliedKeeps DEF ledgerVars
<1>5. ASSUME NEW w \in Workers PROVE WorkFollows(w)'
  <2>1. PICK f : f = workers[w].event.family
    OBVIOUS
  <2>2. PICK d : d = workers[w].event
    OBVIOUS
  <2>3. (Right(f)' <=> Right(f)) /\ (Fresh(workers[w], f)' <=> Fresh(workers[w], f))
    BY <1>2, <1>4 DEF Right, Fresh
  <2> QED
    BY <1>1, <1>2, <1>4, <2>1, <2>2, <2>3 DEF WorkFollows
<1> QED
  BY <1>2, <1>3, <1>5, NothingAppliedKeeps DEF Following
-----------------------------------------------------------------------------
LEMMA FollowingInductive ==
  ASSUME NEW w, Workers = {w}, MaxRebuilds = 0,
         Convergent, Timeline', [ProjectionNext]_allVars
  PROVE  Following'
<1>1. CASE LedgerStep
  BY <1>1, LedgerKeepsFollowing
<1>2. ASSUME NEW e \in outbox, Claim(w, e) PROVE Following'
  BY <1>2, ClaimFollows
<1>3. CASE Work(w)
  BY <1>3, ReadFollows, WriteFollows, MarkFollows DEF Work
<1>4. ASSUME NEW e \in outbox, LeaseExpires(e) PROVE Following'
  BY <1>4, ExpiryFollows
<1>5. CASE Fault
  BY <1>5, FaultFollows DEF Fault
<1>6. ~Rebuild
  BY DEF Rebuild, RebuildStart, RebuildOne, RebuildEnd, Convergent, Following, NoRebuilds,
     NoRebuild
<1>7. CASE UNCHANGED allVars
  <2>1. UNCHANGED <<ledgerVars, workers, delivery, points, rebuild, rebuilds>>
    BY <1>7 DEF allVars, deliveryVars
  <2>2. NothingApplied
    BY <2>1 DEF NothingApplied
  <2>3. WorkFollows(w)'
    <3>1. WorkFollows(w)
      BY DEF Convergent, Following
    <3>2. PICK e : e = workers[w].event
      OBVIOUS
    <3>3. PICK f : f = e.family
      OBVIOUS
    <3>4. /\ heads' = heads /\ outbox' = outbox
          /\ EffectiveNow(f)' = EffectiveNow(f)
          /\ Unscheduled(f)' <=> Unscheduled(f)
          /\ \A d \in outbox : Outstanding(d, f) => Outstanding(d, f)'
      BY <2>1, <2>2, LedgerUntouched, NothingAppliedKeeps DEF ledgerVars
    <3>5. (Right(f)' <=> Right(f)) /\ (Fresh(workers[w], f)' <=> Fresh(workers[w], f))
      BY <2>1, <3>4 DEF Right, Fresh
    <3> QED
      BY <2>1, <3>1, <3>2, <3>3, <3>4, <3>5 DEF WorkFollows
  <2> QED
    BY <2>1, <2>2, <2>3, NothingAppliedKeeps DEF Following
<1> QED
  BY <1>1, <1>2, <1>3, <1>4, <1>5, <1>6, <1>7 DEF ProjectionNext

LEMMA ConvergentInvariant ==
  ASSUME NEW w, Workers = {w}, MaxRebuilds = 0
  PROVE  ProjectionSpec => []Convergent
<1>1. ProjectionSpec =>
        Init /\ ProjectionInit /\ [][ProjectionNext]_allVars
  BY DEF ProjectionSpec
<1>2. Dispatch /\ Announcements /\ [ProjectionNext]_allVars => Announcements'
  BY LedgerGoesOn, AnnouncementsInductive DEF Dispatch
<1>3. Dispatch /\ Dispatch' /\ Announcements /\ Following /\ [ProjectionNext]_allVars
        => Following'
  <2>1. Dispatch' => Timeline'
    BY DEF Dispatch
  <2> QED
    BY <2>1, FollowingInductive DEF Convergent
<1>4. Dispatch /\ Announcements /\ Following => Convergent
  BY DEF Convergent
<1> QED
  BY <1>1, <1>2, <1>3, <1>4, InitAnnouncements, InitFollowing, DispatchInvariant, PTL

(* One worker alone, beside no rebuild: whenever the outbox is drained,    *)
(* Qdrant holds of each family exactly what the ledger calls active,       *)
(* though the worker failed, crashed, outlived its lease, read before a    *)
(* change it wrote after, or handled an old event after a new one; but for *)
(* dead letters and for the families with a revision published before its  *)
(* start.  It is SettledPointsAreActive under the conditions it needs: a   *)
(* run shows a rebuild beside the worker to break it.                      *)
THEOREM LoneWorkerSettles ==
  ASSUME NEW w, Workers = {w}, MaxRebuilds = 0
  PROVE  ProjectionSpec =>
           [](Settled => \A f \in FamilyIds : Unscheduled(f) =>
                Lost(f) \/ points[f].revision = EffectiveNow(f))
<1> DEFINE Ends == Settled => \A f \in FamilyIds : Unscheduled(f) =>
                     Lost(f) \/ points[f].revision = EffectiveNow(f)
<1>1. Convergent => Ends
  <2> SUFFICES ASSUME Convergent, Settled, NEW f \in FamilyIds, Unscheduled(f)
               PROVE  Lost(f) \/ points[f].revision = EffectiveNow(f)
    OBVIOUS
  <2>1. PointsFollow(f) /\ Timeline
    BY DEF Convergent, Following, Dispatch
  <2>2. CASE HasHead(f) /\ \E e \in outbox : Outstanding(e, f)
    BY <2>2 DEF Settled, Lost, Outstanding, Announces
  <2>3. CASE HasHead(f) /\ Right(f)
    BY <2>3 DEF Right
  <2>4. CASE ~HasHead(f)
    <3>1. EffectiveNow(f) = None
      BY <2>1, <2>4, PresentFollowsHead DEF Shown
    <3> QED
      BY <2>1, <2>4, <3>1 DEF PointsFollow, NoPoint
  <2> QED
    BY <2>1, <2>2, <2>3, <2>4 DEF PointsFollow
<1> HIDE DEF Ends
<1>2. ProjectionSpec => []Ends
  BY <1>1, ConvergentInvariant, PTL
<1> QED
  BY <1>2 DEF Ends
=============================================================================

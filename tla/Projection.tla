----------------------------- MODULE Projection -----------------------------
(***************************************************************************)
(* The Qdrant projection of the ledger: the delivery state of the outbox   *)
(* (claim_outbox, mark_outbox), the workers that run                       *)
(* QdrantHeadMaterializer.run_once, its rebuild, and the points that       *)
(* QdrantService keeps, one per family.                                *)
(*                                                                         *)
(* It composes with module Ledger: the ledger's steps are Next, and every  *)
(* event they publish becomes pending here.  run_once sorts the events it  *)
(* lists, but passes over those that fail, are leased or are not available *)
(* yet, so a worker may take any event it can claim.  A worker reads the   *)
(* ledger, awaits an embedding, then writes: between the two any other     *)
(* step may happen.  The write itself holds the point's lock.              *)
(*                                                                         *)
(* A lease is not measured: it may expire once its holder is gone, and, as *)
(* one of the faults of a behaviour, while the holder is still at work.    *)
(***************************************************************************)
EXTENDS Ledger

CONSTANTS
  Workers,
  MaxAttempts,  \* attempts before an event is a dead letter (5 in the code)
  MaxFaults,    \* bound on the failures, the crashes and the works that
                \* outlast their lease, of a behaviour
  MaxRebuilds   \* bound on the rebuilds of a behaviour

ASSUME ProjectionAssumption ==
  /\ MaxAttempts \in Nat \ {0} /\ MaxFaults \in Nat /\ MaxRebuilds \in Nat

VARIABLES
  delivery,  \* delivery state of each event of the outbox
  workers,   \* what each worker is doing
  points,    \* the point of each family in Qdrant
  rebuild,   \* the rebuild in progress
  faults, rebuilds  \* how many there were

deliveryVars == <<delivery, workers, points, rebuild, faults, rebuilds>>
allVars == <<ledgerVars, deliveryVars>>

Pending == [status |-> "pending", attempts |-> 0, leased |-> FALSE, holder |-> "none"]

NoPoint == [revision |-> None, sequence |-> 0]

NoEvent == [kind |-> "none"]

(* write: what the worker decided from what it read.                       *)
Idle == [step |-> "idle", event |-> NoEvent, write |-> "none", revision |-> None]

NoRebuild == [step |-> "idle", todo |-> {}, kept |-> {}]
-----------------------------------------------------------------------------
(* Outbox.                                                                 *)

(* Mutant: an event is taken before it is due.                             *)
Claimable_Early(e) ==
  \/ delivery[e].status \in {"pending", "failed"}
  \/ delivery[e].status = "processing" /\ ~delivery[e].leased

(* Mutant: an event that failed is not tried again.                        *)
Claimable_Once(e) ==
  /\ e.available <= now
  /\ \/ delivery[e].status = "pending"
     \/ delivery[e].status = "processing" /\ ~delivery[e].leased

Claimable(e) ==
  /\ e.available <= now
  /\ \/ delivery[e].status \in {"pending", "failed"}
     \/ delivery[e].status = "processing" /\ ~delivery[e].leased

(* Mutant: the lease is not compared.                                      *)
Holds_Expired(w, e) == delivery[e].status = "processing" /\ delivery[e].holder = w

(* The claim token: a worker has one claim at a time, so holding the event *)
(* is having been the last to claim it.                                    *)
Holds(w, e) ==
  /\ delivery[e].status = "processing"
  /\ delivery[e].leased
  /\ delivery[e].holder = w

Claim(w, e) ==
  /\ workers[w].step = "idle"
  /\ Claimable(e)
  /\ delivery' = [delivery EXCEPT
       ![e].status = "processing", ![e].leased = TRUE, ![e].holder = w]
  /\ workers' = [workers EXCEPT ![w].step = "claimed", ![w].event = e]
  /\ UNCHANGED <<ledgerVars, points, rebuild, faults, rebuilds>>

(* mark_outbox: refused, with nothing written, to a worker whose lease     *)
(* expired.                                                                *)
Marked(w, status) ==
  LET e == workers[w].event
      attempts == delivery[e].attempts + 1
      dead == status = "failed" /\ attempts >= MaxAttempts
  IN IF ~Holds(w, e) THEN delivery
     ELSE [delivery EXCEPT
            ![e] = [status |-> IF dead THEN "dead_letter" ELSE status,
                    attempts |-> attempts, leased |-> FALSE, holder |-> "none"]]

LeaseExpires(e) ==
  /\ delivery[e].status = "processing"
  /\ delivery[e].leased
  /\ delivery' = [delivery EXCEPT ![e].leased = FALSE]
  /\ IF workers[delivery[e].holder].event = e
     THEN faults < MaxFaults /\ faults' = faults + 1
     ELSE UNCHANGED faults
  /\ UNCHANGED <<ledgerVars, workers, points, rebuild, rebuilds>>
-----------------------------------------------------------------------------
(* Qdrant.  Both operations compare the number of the point that is there; *)
(* a point that was deleted leaves no number behind.                       *)

Upserted(f, r, number) ==
  IF points[f] # NoPoint /\ points[f].sequence >= number THEN points
  ELSE [points EXCEPT ![f] = [revision |-> r, sequence |-> number]]

Deleted(f, number) ==
  IF points[f].sequence > number THEN points ELSE [points EXCEPT ![f] = NoPoint]
-----------------------------------------------------------------------------
(* run_once, one event at a time.                                          *)

(* A relation is not projected; for the rest the ledger is read again: the *)
(* event only says which family to look at.                                *)
Read(w) ==
  LET e == workers[w].event
      current == EffectiveNow(e.family)
      shown == current # None /\ View(current) = "active"
  IN
  /\ workers[w].step = "claimed"
  /\ workers' = [workers EXCEPT ![w] =
       IF e.kind = "relation" THEN [@ EXCEPT !.step = "marking"]
       ELSE [@ EXCEPT !.step = "writing", !.revision = current,
                      !.write = IF shown THEN "upsert" ELSE "delete"]]
  /\ UNCHANGED <<ledgerVars, delivery, points, rebuild, faults, rebuilds>>

Write(w) ==
  LET work == workers[w]
      f == work.event.family
      number == work.event.sequence
  IN
  /\ work.step = "writing"
  /\ points' = IF work.write = "upsert" THEN Upserted(f, work.revision, number)
               ELSE Deleted(f, number)
  /\ workers' = [workers EXCEPT ![w].step = "marking"]
  /\ UNCHANGED <<ledgerVars, delivery, rebuild, faults, rebuilds>>

Mark(w) ==
  /\ workers[w].step = "marking"
  /\ delivery' = Marked(w, "applied")
  /\ workers' = [workers EXCEPT ![w] = Idle]
  /\ UNCHANGED <<ledgerVars, points, rebuild, faults, rebuilds>>

(* The embedding or Qdrant raises, before or after Qdrant took the write.  *)
Fail(w) ==
  /\ workers[w].step \in {"writing", "marking"}
  /\ workers[w].write # "none"
  /\ faults < MaxFaults
  /\ faults' = faults + 1
  /\ delivery' = Marked(w, "failed")
  /\ workers' = [workers EXCEPT ![w] = Idle]
  /\ UNCHANGED <<ledgerVars, points, rebuild, rebuilds>>

(* The process stops: the claim stays until its lease expires.             *)
Crash(w) ==
  /\ workers[w].step # "idle"
  /\ faults < MaxFaults
  /\ faults' = faults + 1
  /\ workers' = [workers EXCEPT ![w] = Idle]
  /\ UNCHANGED <<ledgerVars, delivery, points, rebuild, rebuilds>>
-----------------------------------------------------------------------------
(* rebuild: it lists the effective revisions, then embeds and upserts them *)
(* one by one under the number their family's head has by then, and at the *)
(* end deletes the points of the families it did not list.                 *)

RebuildStart ==
  /\ rebuild.step = "idle"
  /\ rebuilds < MaxRebuilds
  /\ rebuilds' = rebuilds + 1
  /\ rebuild' = [step |-> "running", kept |-> {},
                 todo |-> {EffectiveNow(f) : f \in FamilyIds} \ {None}]
  /\ UNCHANGED <<ledgerVars, delivery, workers, points, faults>>

RebuildOne(r) ==
  LET f == revisions[r].family
      number == IF HasHead(f) THEN heads[f].sequence ELSE revisions[r].version
  IN
  /\ r \in rebuild.todo
  /\ points' = Upserted(f, r, number)
  /\ rebuild' = [rebuild EXCEPT !.todo = @ \ {r}, !.kept = @ \cup {f}]
  /\ UNCHANGED <<ledgerVars, delivery, workers, faults, rebuilds>>

RebuildEnd ==
  /\ rebuild.step = "running"
  /\ rebuild.todo = {}
  /\ points' = [f \in FamilyIds |-> IF f \in rebuild.kept THEN points[f] ELSE NoPoint]
  /\ rebuild' = NoRebuild
  /\ UNCHANGED <<ledgerVars, delivery, workers, faults, rebuilds>>
-----------------------------------------------------------------------------
LedgerStep ==
  /\ Next
  /\ delivery' = [e \in outbox' |-> IF e \in outbox THEN delivery[e] ELSE Pending]
  /\ UNCHANGED <<workers, points, rebuild, faults, rebuilds>>

Work(w) == Read(w) \/ Write(w) \/ Mark(w)

Fault == \E w \in Workers : Fail(w) \/ Crash(w)

Rebuild == RebuildStart \/ RebuildEnd \/ \E r \in RevisionIds : RebuildOne(r)

ProjectionInit ==
  /\ delivery = [e \in outbox |-> Pending]
  /\ workers = [w \in Workers |-> Idle]
  /\ points = [f \in FamilyIds |-> NoPoint]
  /\ rebuild = NoRebuild
  /\ faults = 0 /\ rebuilds = 0

ProjectionNext ==
  \/ LedgerStep
  \/ \E w \in Workers, e \in outbox : Claim(w, e)
  \/ \E w \in Workers : Work(w)
  \/ \E e \in outbox : LeaseExpires(e)
  \/ Fault
  \/ Rebuild

(* The materializer is called again and again by whoever schedules it, a   *)
(* call goes on to its end unless it crashes, the lease of one that is gone *)
(* expires, and time passes.  Nothing is asked of clients, operators or    *)
(* faults.                                                                 *)
ProjectionFairness ==
  /\ WF_allVars(Tick /\ UNCHANGED deliveryVars)
  /\ WF_allVars(\E w \in Workers, e \in outbox : Claim(w, e))
  /\ \A w \in Workers : WF_allVars(Work(w))
  /\ WF_allVars(\E e \in outbox : LeaseExpires(e) /\ UNCHANGED faults)

ProjectionSpec ==
  Init /\ ProjectionInit /\ [][ProjectionNext]_allVars /\ ProjectionFairness
-----------------------------------------------------------------------------
(* Properties.                                                             *)

Due == {e \in outbox : e.available <= now}

(* Everything due was handled, and nobody is in the middle of anything.    *)
Settled ==
  /\ \A e \in Due : delivery[e].status \in {"applied", "dead_letter"}
  /\ \A w \in Workers : workers[w].step = "idle"
  /\ rebuild.step = "idle"

Lost(f) == \E e \in Due : e.family = f /\ delivery[e].status = "dead_letter"

(* Once the outbox is drained, Qdrant holds of each family exactly the     *)
(* revision the ledger calls active, whatever order the events were        *)
(* handled in and however often they were handled again after a failure or *)
(* a crash; only a dead letter excuses a family.                           *)
SettledPointsAreActive ==
  Settled => \A f \in FamilyIds :
    Lost(f) \/ points[f].revision = EffectiveNow(f)

(* An event is settled once: an applied event or a dead letter is never    *)
(* touched again, not by a worker whose lease expired either, and attempts *)
(* are counted.                                                            *)
OnlyTheHolderSettles ==
  [][\A e \in outbox :
       delivery'[e].status \in {"applied", "failed", "dead_letter"}
         /\ delivery'[e] # delivery[e] =>
           /\ delivery[e].status = "processing" /\ delivery[e].leased
           /\ delivery'[e].attempts = delivery[e].attempts + 1
           /\ workers[delivery[e].holder].event = e]_allVars

(* Every event that becomes due is applied or becomes a dead letter.       *)
EveryEventIsSettled ==
  \A f \in FamilyIds, number \in 1..MaxProposal :
    (\E e \in Due : e.family = f /\ e.sequence = number)
      ~> (\A e \in Due : e.family = f /\ e.sequence = number =>
            delivery[e].status \in {"applied", "dead_letter"})

(* When the ledger comes to rest, Qdrant comes to hold its active          *)
(* revisions and keeps them.                                               *)
Converges ==
  <>[](\A f \in FamilyIds : Lost(f) \/ points[f].revision = EffectiveNow(f))
=============================================================================
